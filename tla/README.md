# Verification of the adaptive policy pipeline

TLA+ models of `adaptive_policy`: the pipeline that scopes an agent's tools to a
task, generates a task-specific dynamic policy, and gates every tool call. The
models are translated from the Python source; paths below are relative to the
repository, lines are given in `PROJECT.json` under `map`.

## The system

One Python process and one thread; only the evaluation harness leaves something
on disk, the logs of the cases it has run. The difficulties are not in threads
but in the order of steps of one long conversation: what two planning LLMs may
answer, what is cached from one query to the next, when an action counts as
completed, how four AgentDojo elements pass one message, and what an exception
or an interrupt leaves behind in the objects that are used on.

| Component | State | Operations | Interacts with | Correct when |
|---|---|---|---|---|
| Values, requests (`core/value.py`, `core/action_request.py`) | immutable values with provenance | `get_arg`, `user_literal`, `tool_result`, `transformed` | built by the gate, read by the static policy and the data gate | lookups see the value the caller wrote; no value of a tool becomes a user's |
| Static policy (`policy/static_policy.py`) | a fixed table per environment | `evaluate`, `export_rules`, format check, value match | gate chain, generator | malformed declared arguments are never allowed; its decision is final |
| Privilege control (`policy/privilege_control.py`) | none | `scope_privileges`, `scope_privileges_decomposed` | LLM, decomposer, pipeline | only pool actions, nothing on failure |
| Query decomposer (`policy/query_decomposer.py`) | none | `decompose` | LLM, privilege control | never empty, falls back to the task |
| Dynamic policy (`policy/dynamic_policy.py`) | a policy per task | `generate`, `required_*_for` | LLM, static policy, gate chain | speaks only of enabled actions, demands only content the static policy accepts |
| Gate chain (`policy/gate_chain.py`) | the enforced dynamic policy, the log | `process_action`, `set_dynamic_policy` | pipeline | dynamic gates only tighten; one log entry per decision |
| Pipeline (`policy/pipeline.py`) | scope, task state, dynamic policy, gate chain, log | `initialize_task`, `process_action`, `record_action_result` | everything above | a scope, its policy and its completions belong together |
| Task state (`core/task_state.py`) | completed actions | `mark_completed`, `has_completed` | pipeline, gate chain | grows only within a task |
| Audit log (`logging/audit_log.py`) | list of entries | `record`, `get_entries`, `summary` | gate chain | append-only, complete |
| AgentDojo gate (`integrations/agentdojo_pipeline.py`) | a pipeline and the query text it was made for | `query` of `PrivilegeControlGate` and `BlockedCallFeedback` | AgentDojo loop, executor, LLM | only allowed calls run; every call is answered once |
| Evaluation harness (`integrations/agentdojo_eval.py`) | reports in memory, logs of cases on disk | `run_agent_dojo_eval`, `print_summary`, the two rates | one gated agent for all user tasks and injections of a suite | reports say what the logs say, also after a crash |
| Data flow queries (`core/data_flow.py`) | none | the queries of `DataFlowTracker` | requests | agree with the values' history |
| Action descriptors (`core/action_descriptor.py`) | none | `serialize_action_descriptors` | called by scoping and by generation, each on its own | both describe the same actions |
| Benchmark adapter (`integrations/benchmark_adapter.py`) | none | `adapt` | requests to a benchmark | see *Not modelled* on what it says of provenance |
| Tests (`tests/`) | none | fixtures, a loader for AgentDojo's tools | the pool of the harness | used as documentation; the loader is modelled |

### What is hard here

* The gate records an action as completed when it *allows* the call, before the
  executor runs it; several calls of one message are decided in one pass.
* The pipeline is cached by query text, so state outlives a run.
* The refusals must be appended behind the executor, or the executor skips the
  surviving calls.
* `initialize_task()` assigns its fields around two or more long LLM calls and
  is not atomic under an interrupt (`KeyboardInterrupt` is no `Exception` and
  passes every handler). The gate assigns the new pipeline before it initializes
  it and the query text after.
* A run may break off between the log entry of a decision and the record of the
  completion, and the evaluation may die between any two cases.
* Every shape of LLM reply must end in a usable policy, and the generated
  content constraints meet a second, independent check at the gate.

The complete list, with lines and the properties that cover each entry, is under
`hazards` in `PROJECT.json`.

## Modules

| Module | Models | State and actions |
|---|---|---|
| `ArgMatching` | argument values, format check, alias lookup, value match | pure |
| `StaticPolicy` | `StaticPolicy.evaluate` over a table `Rules` | pure |
| `WorkspaceRules` | the 24 shipped rules and the alias table | pure |
| `DynamicPolicy` | what is kept of the replies of the privilege LLM, the decomposer and the policy LLM | pure |
| `GateChain` | the four gates, decision and audit entry | pure |
| `Pipeline` | `AdaptiveSecurityPipeline` | `privilege_context`, `task_state`, `dynamic_policy`, `gate_policy` (the gate chain's own copy), `audit_log`; `InitializeTask`, `ScopingInterrupted`, `PolicyInterrupted`, `ProcessAction`, `RecordActionResult` |
| `TaskStart` | `initialize_task()` call by call; extends `Pipeline` and implements it | adds the place in the method (`step`) and its locals: `Begin`, `DecomposeTask`, `ScopeSubTask` (once per sub-task), `AssignScope`, `GeneratePolicy`, `InstallPolicy`, and `StartInterrupted` in any of these places |
| `AgentLoop` | the gate in AgentDojo's tools loop; extends `Pipeline` | adds the gate's `has_pipeline`, `current_task`, the message being handled (`turn`, `allowed`, `blocked`, `results`) and a program counter over the elements |
| `AgentFaults` | the same loop when a run breaks off; extends `AgentLoop` | `RunInterrupted`, `CreationInterrupted` (while the gate makes a pipeline), `RecordingInterrupted` (between log and completion), `GateRaises` (`process_action()` without a scope) |
| `TaskMonitor` | the abstract promise: releases inside the scope and after everything ordered before | `scope`, `before`, `released`; `NewTask`, `Release` |
| `Evaluation` | `run_agent_dojo_eval()` and `print_summary()` | `logs` on disk; stage, position in the suites, outcomes and `results` in memory; one action per case (`RunCase`) and per report, `PrintSummary`, `Crash`, `Start` |
| `ListArguments` | one argument through the filter at generation, the format check and the data gate, lists as sequences | `Filter`, `CheckFormat`, `CompareContent` |
| `Provenance` | where the arguments of a request come from, and the queries on it | `args`; `PutFresh`, `PutTransformed`, `Adapt` |
| `Descriptors` | an action pool, serialized by scoping and again by generation | `pool`, `enabled`, `contexts`; `ScopePool`, `BuildContexts` |
| `MCPipeline`, `MCTaskStart`, `MCAgentLoop`, `MCAgentFaults`, `MCEvaluation`, `MCData` | the constants of the runs; `MCData` puts the three data components side by side | |
| `PipelineProofs`, `TaskStartProofs`, `AgentLoopProofs`, `AgentBatchProofs`, `AgentFaultsProofs`, `EvaluationProofs`, `DataProofs` | theorems and proofs; `DataProofs` is about `ListArguments`, `Provenance` and `Descriptors` | |
| `MinimumLemmas` | two lemmas the proofs share: a set of naturals has a least element, a bounded one a largest | |

Operators commented `MUTANT` are seeded faults: each replaces one definition by
what a plausible bug would make of it, to show that the property it belongs to
can fail. They are used by no specification.

### Abstractions

* A value is None, a scalar or a list, a list being the set of its entries: the
  code reads lists only through `set()` and `all()`. `Absent` is a key the
  argument dictionary lacks; None is a value of its own, which shadows later
  aliases. A format is the set of atoms its regular expression accepts. Order,
  duplicates, None and unhashable entries (objects, lists inside lists) are left
  out everywhere but in `ListArguments`, which has them all and shows that
  leaving them out changes no verdict (`SetAbstractionExact`).
* An LLM reply is what is left after parsing. `NoReply` is every way to a caught
  exception. `Unhashable` is an entry that raises when looked up in a set. A
  section of a wrong type that the code skips is an empty set.
* In `Pipeline` and `AgentLoop` `initialize_task()` is one step, since nothing
  runs concurrently; `ScopingInterrupted` and `PolicyInterrupted` end where an
  interrupt leaves the object that falls before the scope is assigned, or after it
  and before the gate chain has its policy. `TaskStart` takes the assignments
  apart, lets an interrupt fall between any two of them, and refines it.
* Without a query decomposer one scoping call is made; with one, the scope is
  the union over the sub-tasks the decomposer's reply leaves.
* A tool description is the set of metadata fields and where each came from;
  the contents of a schema are opaque.
* AgentDojo's benchmark functions are external: with `force_rerun=False`, as the
  harness calls them, they take a case from its log if there is one and run and
  log it otherwise. The logs survive a crash, nothing else does.
* AgentDojo is not part of the repository. The loop, `ToolsExecutor` and the LLM
  are modelled from the gate's module docstring and `create_gated_pipeline()`
  and marked external in the map: the executor runs only if the last message is
  the assistant's, in order, and a tool error is a result like another. The
  loop never calls the gate without tool calls, so the gate's early returns
  change nothing.
* `executed`, `succeeded`, `ran` and `answers` in `AgentLoop`, `saved` in
  `TaskStart`, the origin of a value in `Provenance` and the counters of
  interrupts and crashes are history. The code has no counterpart; but for the
  two counters, which bound the faults, no guard reads them.

## Runs

| Run | Asks | Bounds |
|---|---|---|
| `pipeline` | Can the enforced policy be met, does it only tighten, and do answers settle within a task? | one pipeline re-initialized at will, with or without an interrupt; 5 actions (three shipped rules, a denied one, a made-up one), 9 requests, 4 scopes, 5 replies (good, cyclic, unhashable, null-valued, none), log up to `MaxLog` = 1 |
| `task_start` | Does `initialize_task()`, assignment by assignment, do what `Pipeline` does at once, does an interrupt pair a new scope with old completions, and does it end? | two tasks, 4 decomposer replies (blanks, a repeated sub-task, none), 4 scope replies, 2 policies, an interrupt before, between and in any of the calls, log up to 1 |
| `task_start_interrupted` | Are the prerequisites an answer declares enforced? **No** | as `task_start` |
| `agent_loop` | Is each tool call answered once, does only what was cleared run, does the run end and every refusal arrive? | shipped workspace rules, one query, `MaxIters` = 2 messages of up to `MaxCalls` = 2 calls out of four, one refused by each gate |
| `agent_reuse` | Do log, summary, completions and execution agree over queries, and is the task monitor implemented? | `MaxRuns` = 2 queries out of two texts, two messages each, a sensible and a cyclic policy |
| `agent_failed_tool` | Has every prerequisite succeeded? **No** | as `agent_reuse` |
| `agent_same_query` | Does a run start without completions? **No** | as `agent_reuse` |
| `agent_faults` | Do scope, policy, order and log hold, and do runs end, when a run breaks off anywhere? | `MaxRuns` = 3 queries out of two texts, one message of up to two calls each, `MaxInterrupts` = 1, two scopes of different size |
| `agent_stale_scope` | Is every query gated under its own scope when one breaks off? **No** | as `agent_faults` |
| `evaluation` | Do reports match logs, is is none missing or lost, does it end? | three suites, one named twice, one without injection tasks, two cases each at most, `MaxCrashes` = 2 |
| `eval_zero_rate` | Does the summary show every measured rate? **No** | one suite, no crash |
| `data` | Are the set abstraction of values, the provenance queries and the pool descriptions right? | lists of up to 3 entries with None and a nested value, the formats of the shipped rules; values of two tools and one inner source, transformed at will, under two argument names; pools of up to 2 items in all forms the code accepts |

Why the bounds are enough to be interesting: a violation of an ordering property
needs two actions and two positions in the log; of a caching property two runs,
with the same text and with another; of the answer bookkeeping an allowed and a
refused call in both orders. Two calls per message and two messages give each of
these, and the log is not cut off in the agent runs. A stale scope needs a query,
another one broken off, and the first again: three runs and one interrupt. A
suite named twice and two crashes let a log be written by one process, read by
the next and read again for the second report. Two lists of three entries differ
in order, in duplicates, or in both. `MaxLog` limits only the history of
`Pipeline`, whose properties look at single decisions in every reachable state
and compare them with the next one; the log itself decides nothing. The agent runs stop when
the last query is answered, the evaluation after its summary and the data
components when each has done its work, hence `CHECK_DEADLOCK FALSE` there;
`Pipeline` and `TaskStart` are checked for deadlock. In `data` the three
components share nothing and never interact in the code either; they are
explored one at a time from separate initial states.

### What the properties say

* `PolicyWithinPrivileges`: a dependency never names an action the privilege
  gate refuses, which would block its dependent for the whole task, nor the
  action itself. On a pipeline that is initialized again it holds only if
  `initialize_task()` is not interrupted: after an interrupt during generation
  the new scope meets the old policy, until the next complete
  `initialize_task()`. That half is proved. The gate of AgentDojo makes a new
  pipeline for every query, so that there it holds with interrupts too
  (`agent_faults`).
* `NoDataLockout`: the filter at generation and the two checks at the gate
  agree: a call that writes exactly a demanded profile passes both.
* `OnlyTightens`, `SettledDecisions`: the dynamic policy never rescues a call;
  within a task only "verification required" may still change.
* `ScopeStartsClean`: because the task state is reset first, no interrupt pairs
  a new scope with old completions.
* `ImplementsPipeline`, `StartEnds`: taking `initialize_task()` apart, with
  interrupts between any two assignments, adds no behaviour, and it ends.
* `EveryCallAnsweredOnce`, `OnlyClearedCallsRun`, `RefusalsReported`, `RunsEnd`:
  the deferral of the refusals works.
* `MessageIsAudited`, `SummaryCountsAnswers`: the log ends with the calls of the
  message being handled, split as the log says, and after any number of messages
  and runs on one pipeline its `summary()` counts exactly the answers given.
* `CompletedAreLogged`, `PrerequisitesAllowedEarlier`, `PrerequisitesAttempted`,
  `ImplementsMonitor`: the order the policy asks for is kept in the log and in
  what is executed.
* `CirclesStayShut`: of any set of actions the log has allowed, one waits for
  none of the others. Actions that wait for each other in a circle, of whatever
  length, are therefore never allowed: the generator does not break circles, and
  nothing else does.
* `CompletedWereAllowed` is what an interrupt leaves of `CompletedAreLogged`: the
  log may name an allowed action that was not recorded, never the reverse.
* `GatedUnderOwnTask`, `InterruptedQueryStartsOver`: which pipeline serves which
  query. The first needs uninterrupted runs (finding 3); the second does not.
* `ReportsMatchLogs`, `ReturnedComplete`, `SummaryLosesNoReport`,
  `EvaluationReturns`: an evaluation that was killed and
  started again reports what an undisturbed one would.
* `DataGateNeverRaises`: nothing catches an exception of the data gate, and
  `set()` raises on unhashable entries; the format checks before it keep all of
  them out. `SetAbstractionExact` is about this model and that code at once.
* `TrustedIsUsers`, `OriginSurvives`: a value transformed any number of times
  still names the tool and the inner source it goes back to, and no query calls
  it the user's.
* `DescribedAlike`: a function and the mapping the harness makes of it carry the
  same fields to both LLMs: scoping describes them alike, and of the function,
  once enabled, generation is told what it would be told of the mapping.

### Findings

1. `agent_failed_tool`: README and docstring speak of prerequisites that have
   *completed*; the gate records them when they are allowed. If the tool of a
   prerequisite returns an error, its dependents run nevertheless. What does
   hold is weaker: prerequisites are attempted first (`PrerequisitesAttempted`).
2. `agent_same_query`: `TaskExecutionState` is documented as the state of a
   single task execution. The gate keeps it as long as the query text is the
   same; the evaluation harness runs every user task once per injection task
   with the same prompt on the same gate, so later executions start with the
   prerequisites of the first already completed.
3. `agent_stale_scope`: the gate assigns `self.pipeline` before
   `initialize_task()` and `self.current_task` after it, although its comment
   says "once per task". If a second query is broken off in between, the first
   one, asked again, is gated under the second's scope, or raises if there is
   none yet. This takes a gate object that is used on after an interrupt, such as
   an interactive session; the shipped harness dies with its process instead.
4. `eval_zero_rate`: `print_summary()` tests `if gated.attack_success_rate`, so a
   measured rate of 0.0 is left out like one that was never measured.
5. `task_start_interrupted`: `initialize_task()` keeps the dynamic policy in two
   fields, `self.dynamic_policy` (lines 73-78) and the gate chain's own (line 80).
   An interrupt between the two leaves a pipeline with a scope, on which
   `process_action()` works, that declares the new policy in its answers and
   enforces the old one, or none on the first task: a call is allowed whose
   declared prerequisites have not completed. The window is one statement wide
   and needs a caller who uses the pipeline on after `KeyboardInterrupt`. It is
   the only way there: `DeclaredAreEnforced` proves the promise for
   initializations that are not interrupted.

### Fairness

* `AgentSpec` assumes weak fairness of `LoopStep`: the loop is a sequential
  program, each element returns, and the LLM and the tools it waits for are
  assumed to answer. Starting a query is not fair: no property needs another run.
  That runs end rests on `MaxIters`, which is AgentDojo's own `max_iters`, not on
  a bound of the model.
* `FaultSpec` says the same of `FaultyStep`, where an element may also raise. No
  interrupt is ever owed.
* `StartSpec`: the LLM calls of `initialize_task()` return; the loop over the
  sub-tasks then ends by itself. Calling it is not fair.
* `FairEvalSpec`: a running evaluation goes on, and one that died is started
  again. The second half is a promise of whoever runs it, not of the code, and
  `EvaluationReturns` holds only under it and for finitely many crashes.

The safety theorems use no fairness.

## Proofs

All for arbitrary actions, rules, aliases, replies and requests that satisfy the
named assumptions: the pool is a set of actions, alias lists begin with the
canonical name, no rule declares an argument together with another name of the
same argument (`NoRuleDeclaresAnAlias`; TLC evaluates it on the shipped table),
no rule declares a format without a validator (`KnownFormats`), and the special
values are none of the ordinary ones. Numbers of calls, messages, runs, crashes,
interrupts, suites, list entries and pool items are arbitrary.

Every invariant and every action property of the passing runs is proved, and so
are both refinements; the liveness properties are not.

`PipelineProofs`

* `TypeCorrect`: the type invariant is inductive. Each planning step has a lemma
  for what it returns (`ScopesInPool`, `GenerateType`).
* `WithinPrivileges` (assuming no interrupts): the invariant needs a second
  conjunct, that without a generator there is never a policy. Otherwise a
  policy left from elsewhere would be enforced under the next scope. The core
  is `GenerateWithin`.
* `NeverLockedOut`: both policies of the pipeline consist of filtered profiles.
  The core is `ValidArgsCallable`: a filtered profile, written as arguments,
  is found again under its canonical names, and no other declared argument
  can pick it up through an alias.
* `DynamicOnlyTightens`, `DecisionsSettle`, `ScopesStartClean`: step properties,
  the second from the monotonicity lemma `MoreCompleted`.

`TaskStartProofs`

* `StartImplementsPipeline`: while `initialize_task()` runs, the mapping shows the
  fields from before. The invariant behind it ties the locals to the fields: the
  actions granted so far are those some replies give the sub-tasks done so far,
  and after the assignment of the scope the policy is the old one or, once
  assigned, one generated for it. Each step is then a stutter, except the last,
  which is `InitializeTask`, and an interrupt, which is `ScopingInterrupted` before
  the assignment of the scope and `PolicyInterrupted` after it.
* `StartsAreClean`: the only step that assigns a scope is `AssignScope`, and the
  same invariant says that nothing has been completed since `Begin`.
* `DeclaredAreEnforced` (assuming no interrupts): but for the place between the
  two assignments, the gate chain has the policy the pipeline reports
  (`ReportInv`), and an allowed call has passed the tool gate under it.

`AgentLoopProofs`

* `CompletionIsLogged` and `PrerequisitesFirst` share the invariant `OrderInv`.
  `PrerequisitesAllowedEarlier` alone is not inductive, because the tool gate
  looks into the completion record and not into the log; `CompletedAreLogged`
  connects the two, and `GateInv` says that the gate never decides without an
  initialized pipeline. `AllowedAfterAppend` describes what one entry changes.
* `CirclesShut`: of a set of allowed actions the one whose first allowed entry
  stands first in the log can wait for no other of the set, because its
  prerequisites stand before it (`OrderShutsCircles`). That a first entry exists
  is `LeastNat`.
* `QueriesGatedUnderOwnTask`, `GateImplementsMonitor`: the steps of the loop are,
  seen through the mapping of `ImplementsMonitor`, `NewTask` (a new pipeline),
  `Release` (an allowed call) or stuttering.

`AgentBatchProofs`: one message on its way through the elements

* `AgentTypeCorrect`, `AnsweredOnce`, `OnlyClearedRun` from `BatchInv`, which
  splits the positions of a message into allowed, refused and open ones
  (`DecidedUpTo`) and says that the results so far answer, in order, the allowed
  calls executed so far (`ExecutedUpTo`). Neither the types nor the answers are
  inductive without it.
* `MessagesAudited` adds that the tail of the log, as long as the calls decided
  so far, names them in order (`LogOneMore` is the step).
* `AttemptedInOrder`: what counts as completed was attempted or is ahead in the
  batch, and the k-th allowed call waits only for what was attempted or stands
  before it (`AttemptInv`); the executor goes in the same order.
* `SummaryIsExact`: `CountInv` says how far the log is ahead of the answers at
  each place of the loop: by the allowed calls not yet executed and by the
  refusals not yet reported. The summary counts positions of the log, so what is
  needed of cardinalities is one lemma on the count after an entry is appended.

`AgentFaultsProofs`

* `FaultsKeepOrder`, `FaultsShutCircles`, `FaultsStayWithin`, `FaultsExplained`,
  `HalfMadeNotReused` and `FaultsImplementMonitor`: the invariants of the loop
  are weakened to what survives interrupts, from completions that are logged to
  logged ones that may be completed.
* `FaultsTypeCorrect`, `FaultsClear`, `FaultsAnswerOnce`, `FaultsAudited`: what is
  said of one message holds as well. A run that breaks off empties the message
  and leaves at most one more entry in the log, so that the invariants of the
  message start anew with the next one. The counts of the summary do not: an
  entry that was logged before an interrupt is never answered.

`EvaluationProofs`: `EvalInv` says that the outcomes of the running phase are a
prefix of its log, that the log of a phase that was reported is complete, and
that the two reports to be rated are the last ones; `ReportsAreFaithful` follows from
it. `OrderInv` adds what report stands at which place of
the list and which have their attack rates, with which `ReturnsAreComplete` is
immediate. For `NoReportIsLost` the report that the summary keeps, the last of
its suite and agent (`LargestBelow`), and any other one come from the same logs,
and `OrderInv` says that they are rated alike.

`DataProofs`

* `GateNeverRaises` and `AbstractionIsExact`, for lists of any length.
* `OnlyUsersAreTrusted` and `OriginsSurvive`, for any chain of transformations,
  from `ProvInv`.
* `FunctionsDescribedAlike`, for pools of any length and items of any form, from
  `PoolInv`: what generation was told is the context of each enabled item.

Only model-checked: liveness (`RunsEnd`, `RefusalsReported`, `StartEnds`,
`EvaluationReturns`), which is out of the prover's reach. Four properties are
proved of the loop as `AgentSafety` runs it and fail, or are weaker, when a run
breaks off: `CompletedAreLogged`, `GatedUnderOwnTask` (finding 3),
`SummaryCountsAnswers` and `PrerequisitesAttempted`.

## Not modelled

* Prompts, tokenizers and the parsing of text. What the parsed replies may
  contain is modelled in full.
* Picking a GPU and loading the LLM (`agentdojo_eval.py`): the answer of
  `nvidia-smi` at one moment, with no state the program keeps about it.
* The metadata dictionary of a decision, the getters and the dictionary forms of
  log entries and requests: they rename fields and change nothing.
* `readers` of a value, timestamps, `action_outputs` and `verified_actions`:
  nothing reads them.
* The benchmark adapter and the gate call every argument of the agent a user
  literal, also one it copied from a tool's result. `Adapt` models this;
  `TrustedIsUsers` is about requests before it, since the docstring states the gap.
* The tests, apart from the pool loader, which `Descriptors` has.

## Plan

Done: the gate pipeline from values to `Pipeline`, `initialize_task()` call by
call, the agent loop with and without faults, the evaluation, the data
components, the abstract monitor, the theorems above.

1. An abstract evaluation that never crashes, implemented by the one that does:
   it would put what the evaluation properties say into one refinement.
2. The evaluation on top of the agent loop instead of opaque cases: it would
   show finding 2 in the rates, at the price of a much larger state space.
