------------------------------ MODULE AgentLoop ------------------------------
(***************************************************************************)
(* The gate at work in an AgentDojo agent                                  *)
(* (integrations/agentdojo_pipeline.py): the loop                          *)
(*   ToolsExecutionLoop([PrivilegeControlGate, ToolsExecutor,              *)
(*                       BlockedCallFeedback, LLM])                        *)
(* runs for one query after another on the same gate object, which keeps   *)
(* its pipeline as long as the query text does not change.  One iteration  *)
(* handles the tool calls of one assistant message: the gate decides on    *)
(* them one by one and trims the message, the executor runs what is left,  *)
(* the feedback appends the refusals, the LLM answers.                     *)
(*                                                                         *)
(* The loop, the executor and the LLM are AgentDojo's: they are modelled   *)
(* from how the gate's module docstring and the eval harness use them.     *)
(***************************************************************************)
EXTENDS Pipeline

CONSTANTS
  MaxCalls,   \* bound: tool calls in one assistant message
  MaxIters,   \* iterations of the tools loop (AgentDojo's max_iters)
  MaxRuns     \* bound: queries run on the gate

ASSUME LoopAssumption == MaxCalls \in Nat /\ MaxIters \in Nat /\ MaxRuns \in Nat

VARIABLES
  has_pipeline,  \* PrivilegeControlGate.pipeline is not None
  current_task,  \* PrivilegeControlGate.current_task
  pc,            \* the element of the loop that runs next
  query,         \* the query of the current run
  round,         \* iterations of the tools loop in this run
  runs,          \* runs started
  turn,          \* tool calls of the last assistant message, as the LLM wrote them
  index,         \* the call the gate or the executor looks at next
  allowed,       \* allowed_calls, then the tool_calls of the trimmed message
  blocked,       \* blocked_results, then the pending feedback in extra_args
  results,       \* tool messages after the assistant message
  executed,      \* history: actions run since the pipeline was made
  succeeded,     \* history: those of them that returned without an error
  ran,           \* history: actions allowed in the current run
  answers        \* history: tool calls run and refused since the pipeline was made

gateVars  == <<has_pipeline, current_task>>
loopVars  == <<pc, query, round, runs, turn, index>>
callVars  == <<allowed, blocked, results>>
histVars  == <<executed, succeeded, ran, answers>>
agentVars == <<pipelineVars, gateVars, loopVars, callVars, histVars>>

\* A tool call is its position in the turn; its answer carries the position.
Result(id, outcome) == [id |-> id, outcome |-> outcome]

NoAnswers == [run |-> 0, refused |-> 0]

AgentInit ==
  /\ PipelineInit
  /\ has_pipeline = FALSE /\ current_task = NoTask
  /\ pc = "idle" /\ query = NoTask /\ round = 0 /\ runs = 0
  /\ turn = <<>> /\ index = 1
  /\ allowed = <<>> /\ blocked = <<>> /\ results = <<>>
  /\ executed = {} /\ succeeded = {} /\ ran = {} /\ answers = NoAnswers

\* The harness runs a query: any text, an earlier one included.
StartRun(task) ==
  /\ pc = "idle" /\ runs < MaxRuns
  /\ query' = task /\ pc' = "llm"
  /\ round' = 0 /\ runs' = runs + 1
  /\ ran' = {}
  /\ UNCHANGED <<pipelineVars, gateVars, turn, index, callVars,
                 executed, succeeded, answers>>

\* The LLM answers with tool calls and an iteration is left: the gate is next.
LLMCalls(calls) ==
  /\ pc = "llm" /\ calls # <<>> /\ round < MaxIters
  /\ turn' = calls /\ pc' = "gate"
  /\ allowed' = <<>> /\ results' = <<>> /\ index' = 1
  /\ UNCHANGED <<pipelineVars, gateVars, query, round, runs, blocked, histVars>>

\* The LLM calls no tool, or it does after the last iteration, where nothing
\* looks at its calls any more: the run is over.
LLMEnds ==
  /\ pc = "llm"
  /\ pc' = "idle" /\ turn' = <<>>
  /\ allowed' = <<>> /\ results' = <<>> /\ index' = 1
  /\ UNCHANGED <<pipelineVars, gateVars, query, round, runs, blocked, histVars>>

\* What the gate starts its pass over the tool calls with.
BeginPass == pc' = "gating" /\ index' = 1 /\ allowed' = <<>> /\ blocked' = <<>>

\* MUTANT of KeepPipeline: one pipeline serves every query.
KeepPipeline_AnyTask ==
  /\ pc = "gate"
  /\ has_pipeline
  /\ current_task' = query
  /\ BeginPass
  /\ UNCHANGED <<pipelineVars, has_pipeline, query, round, runs, turn, results, histVars>>

\* The same query text as last time: the pipeline is kept, with all its state.
KeepPipeline ==
  /\ pc = "gate"
  /\ has_pipeline /\ current_task = query
  /\ BeginPass
  /\ UNCHANGED <<pipelineVars, gateVars, query, round, runs, turn, results, histVars>>

\* MUTANT of NewPipeline: the pipelines share one log.
NewPipeline_SharedLog ==
  /\ pc = "gate"
  /\ ~ has_pipeline \/ current_task # query
  /\ Initialized(query, NoPolicy) /\ UNCHANGED audit_log
  /\ has_pipeline' = TRUE /\ current_task' = query
  /\ executed' = {} /\ succeeded' = {} /\ answers' = NoAnswers
  /\ BeginPass
  /\ UNCHANGED <<query, round, runs, turn, results, ran>>

\* Another query text: a new pipeline with an empty log is initialized.
NewPipeline ==
  /\ pc = "gate"
  /\ ~ has_pipeline \/ current_task # query
  /\ Initialized(query, NoPolicy) /\ audit_log' = <<>>
  /\ has_pipeline' = TRUE /\ current_task' = query
  /\ executed' = {} /\ succeeded' = {} /\ answers' = NoAnswers
  /\ BeginPass
  /\ UNCHANGED <<query, round, runs, turn, results, ran>>

\* The audit entry of a call: the request carries the gate's current_task,
\* which at this point is the query.
GateEntry(request) ==
  AuditEntry(request, query, privilege_context.enabled_actions,
             task_state.completed, gate_policy)

\* MUTANT of AllowCall: allowed calls are collected in reverse.
AllowCall_Reversed ==
  /\ pc = "gating" /\ index <= Len(turn) /\ privilege_context # NoContext
  /\ Decision(turn[index]) = "allowed"
  /\ audit_log' = Append(audit_log, GateEntry(turn[index]))
  /\ task_state' = Recorded(turn[index].action)
  /\ allowed' = <<index>> \o allowed
  /\ ran' = ran \cup {turn[index].action}
  /\ index' = index + 1
  /\ UNCHANGED <<privilege_context, dynamic_policy, gate_policy, gateVars,
                 pc, query, round, runs, turn, blocked, results,
                 executed, succeeded, answers>>

\* One tool call: an allowed one is kept and recorded as completed at once.
\* A pipeline without a scope raises, so that no action here is enabled.
AllowCall ==
  /\ pc = "gating" /\ index <= Len(turn) /\ privilege_context # NoContext
  /\ Decision(turn[index]) = "allowed"
  /\ audit_log' = Append(audit_log, GateEntry(turn[index]))
  /\ task_state' = Recorded(turn[index].action)
  /\ allowed' = Append(allowed, index)
  /\ ran' = ran \cup {turn[index].action}
  /\ index' = index + 1
  /\ UNCHANGED <<privilege_context, dynamic_policy, gate_policy, gateVars,
                 pc, query, round, runs, turn, blocked, results,
                 executed, succeeded, answers>>

\* MUTANT of BlockCall: a blocked call is recorded as completed as well.
BlockCall_Recorded ==
  /\ pc = "gating" /\ index <= Len(turn) /\ privilege_context # NoContext
  /\ Decision(turn[index]) # "allowed"
  /\ audit_log' = Append(audit_log, GateEntry(turn[index]))
  /\ task_state' = Recorded(turn[index].action)
  /\ blocked' = Append(blocked, index)
  /\ index' = index + 1
  /\ UNCHANGED <<privilege_context, dynamic_policy, gate_policy, gateVars,
                 pc, query, round, runs, turn, allowed, results, histVars>>

\* MUTANT of BlockCall: a refused call leaves no entry in the log.
BlockCall_Unlogged ==
  /\ pc = "gating" /\ index <= Len(turn) /\ privilege_context # NoContext
  /\ Decision(turn[index]) # "allowed"
  /\ blocked' = Append(blocked, index)
  /\ index' = index + 1
  /\ UNCHANGED <<pipelineVars, gateVars,
                 pc, query, round, runs, turn, allowed, results, histVars>>

\* A refused one is put aside; its audit entry is recorded all the same.
BlockCall ==
  /\ pc = "gating" /\ index <= Len(turn) /\ privilege_context # NoContext
  /\ Decision(turn[index]) # "allowed"
  /\ audit_log' = Append(audit_log, GateEntry(turn[index]))
  /\ blocked' = Append(blocked, index)
  /\ index' = index + 1
  /\ UNCHANGED <<privilege_context, task_state, dynamic_policy, gate_policy, gateVars,
                 pc, query, round, runs, turn, allowed, results, histVars>>

\* MUTANT of CloseGate: the executor starts one call too early.
CloseGate_OffByOne ==
  /\ pc = "gating" /\ index > Len(turn)
  /\ pc' = "exec" /\ index' = 0
  /\ UNCHANGED <<pipelineVars, gateVars, query, round, runs, turn, callVars, histVars>>

\* MUTANT of CloseGate: the message is not trimmed.
CloseGate_Untrimmed ==
  /\ pc = "gating" /\ index > Len(turn)
  /\ pc' = "exec" /\ index' = 1 /\ allowed' = [i \in 1..Len(turn) |-> i]
  /\ UNCHANGED <<pipelineVars, gateVars, query, round, runs, turn, blocked, results, histVars>>

\* MUTANT of CloseGate: the refusals are appended at once.
CloseGate_FeedbackFirst ==
  /\ pc = "gating" /\ index > Len(turn)
  /\ pc' = "exec" /\ index' = 1 /\ blocked' = <<>>
  /\ results' = [i \in 1..Len(blocked) |-> Result(blocked[i], "blocked")]
  /\ UNCHANGED <<pipelineVars, gateVars, query, round, runs, turn, allowed, histVars>>

\* MUTANT of CloseGate: the refusals are not handed on.
CloseGate_RefusalsLost ==
  /\ pc = "gating" /\ index > Len(turn)
  /\ pc' = "exec" /\ index' = 1 /\ blocked' = <<>>
  /\ UNCHANGED <<pipelineVars, gateVars, query, round, runs, turn, allowed, results, histVars>>

\* MUTANT of CloseGate: the gate waits for a call that survives.
CloseGate_NeedsSurvivor ==
  /\ pc = "gating" /\ index > Len(turn) /\ allowed # <<>>
  /\ pc' = "exec" /\ index' = 1
  /\ UNCHANGED <<pipelineVars, gateVars, query, round, runs, turn, callVars, histVars>>

\* The gate hands on the trimmed message; the refusals wait in extra_args.
CloseGate ==
  /\ pc = "gating" /\ index > Len(turn)
  /\ pc' = "exec" /\ index' = 1
  /\ UNCHANGED <<pipelineVars, gateVars, query, round, runs, turn, callVars, histVars>>

\* ToolsExecutor does nothing unless the last message is the assistant's.
OpenExecutor ==
  /\ pc = "exec"
  /\ pc' = IF results = <<>> THEN "executing" ELSE "feedback"
  /\ UNCHANGED <<pipelineVars, gateVars, query, round, runs, turn, index, callVars, histVars>>

\* A call of the trimmed message runs, in order, and its result is appended.
Execute(outcome) ==
  /\ pc = "executing" /\ index <= Len(allowed)
  /\ LET action == turn[allowed[index]].action
     IN  /\ executed' = executed \cup {action}
         /\ succeeded' = IF outcome = "ok" THEN succeeded \cup {action} ELSE succeeded
  /\ results' = Append(results, Result(allowed[index], outcome))
  /\ index' = index + 1
  /\ UNCHANGED <<pipelineVars, gateVars, pc, query, round, runs, turn, allowed, blocked, ran>>
  /\ answers' = [answers EXCEPT !.run = @ + 1]

CloseExecutor ==
  /\ pc = "executing" /\ index > Len(allowed)
  /\ pc' = "feedback"
  /\ UNCHANGED <<pipelineVars, gateVars, query, round, runs, turn, index, callVars, histVars>>

\* BlockedCallFeedback: the pending refusals are appended and forgotten.
Feedback ==
  /\ pc = "feedback"
  /\ results' = results \o [i \in 1..Len(blocked) |-> Result(blocked[i], "blocked")]
  /\ blocked' = <<>>
  /\ pc' = "llm" /\ round' = round + 1
  /\ answers' = [answers EXCEPT !.refused = @ + Len(blocked)]
  /\ UNCHANGED <<pipelineVars, gateVars, query, runs, turn, index, allowed,
                 executed, succeeded, ran>>

Turns == UNION {[1..n -> Calls] : n \in 1..MaxCalls}

\* MUTANT of Summary: the static decision is counted.
Summary_StaticDecision(log) ==
  LET Count(decision) == Cardinality({i \in DOMAIN log : log[i].static_decision = decision})
  IN  [total_actions |-> Len(log), allowed |-> Count("allowed"), denied |-> Count("denied"),
       verification_required |-> Count("verification_required")]

\* The counts of AuditLog.summary(); the three rates divide them by the total.
Summary(log) ==
  LET Count(decision) == Cardinality({i \in DOMAIN log : log[i].final_decision = decision})
  IN  [total_actions |-> Len(log), allowed |-> Count("allowed"), denied |-> Count("denied"),
       verification_required |-> Count("verification_required")]

\* The steps of the program and of the elements around it inside a run.
LoopStep ==
  \/ \E calls \in Turns : LLMCalls(calls)
  \/ LLMEnds
  \/ KeepPipeline \/ NewPipeline
  \/ AllowCall \/ BlockCall \/ CloseGate
  \/ OpenExecutor \/ \E outcome \in {"ok", "error"} : Execute(outcome)
  \/ CloseExecutor
  \/ Feedback

AgentNext == LoopStep \/ \E task \in Tasks : StartRun(task)

AgentSafety == AgentInit /\ [][AgentNext]_agentVars

\* Every element returns: it is a sequential program, and the LLM and tool
\* calls it waits for are assumed to answer.  No new run is ever owed.
AgentSpec == AgentSafety /\ WF_agentVars(LoopStep)

------------------------------------------------------------------------------
Ids == 1..MaxCalls

\* Type invariant of the gate, the loop and the messages.
AgentTypeOK ==
  /\ PipelineTypeOK
  /\ has_pipeline \in BOOLEAN /\ current_task \in Tasks \cup {NoTask}
  /\ pc \in {"idle", "llm", "gate", "gating", "exec", "executing", "feedback"}
  /\ query \in Tasks \cup {NoTask}
  /\ round \in 0..MaxIters /\ runs \in 0..MaxRuns
  /\ turn \in Turns \cup {<<>>} /\ index \in 1..(MaxCalls + 1)
  /\ allowed \in Seq(Ids) /\ blocked \in Seq(Ids)
  /\ results \in Seq([id : Ids, outcome : {"ok", "error", "blocked"}])
  /\ executed \subseteq Actions /\ succeeded \subseteq executed /\ ran \subseteq Actions
  /\ answers \in [run : Nat, refused : Nat]

\* The actions of the log's allowed entries up to position n.
AllowedUpTo(n) ==
  {audit_log[i].action : i \in {j \in 1..n : audit_log[j].final_decision = "allowed"}}

\* Whatever the LLM is shown next, each of its tool calls has been answered
\* exactly once, by a result or by a refusal: the reason the gate defers its
\* feedback behind the executor (module docstring of agentdojo_pipeline.py).
EveryCallAnsweredOnce ==
  pc = "llm" =>
    /\ Len(results) = Len(turn)
    /\ {results[i].id : i \in 1..Len(results)} = 1..Len(turn)

\* Complete mediation: a tool call that was run is one the privilege scope and
\* the static policy of the current task clear, with the very arguments it was
\* run with, and it meets the data profile the task demands.
OnlyClearedCallsRun ==
  \A i \in 1..Len(results) :
    results[i].outcome # "blocked" =>
      LET call == turn[results[i].id]
      IN  /\ call.action \in privilege_context.enabled_actions
          /\ StaticEvaluate(call) = "allowed"
          /\ DataMatches(call, gate_policy)

\* No query is decided under the scope of another one: while the gate looks at
\* calls, scope, task state and every entry of the log are those of the query.
GatedUnderOwnTask ==
  pc = "gating" =>
    /\ privilege_context # NoContext /\ privilege_context.task = query
    /\ task_state.task = query
    /\ \A i \in 1..Len(audit_log) : audit_log[i].user_request = query

\* The calls of the current message the gate has decided.
Gated == IF pc = "gating" THEN index - 1 ELSE Len(turn)

\* The log ends with the decided calls of the message, in their order, and the
\* split of the message into allowed and refused calls is the one it records.
MessageIsAudited ==
  pc \in {"gating", "exec", "executing"} =>
    /\ Gated <= Len(audit_log)
    /\ \A i \in 1..Gated :
         LET entry == audit_log[Len(audit_log) - Gated + i]
         IN  /\ entry.action = turn[i].action
             /\ IF entry.final_decision = "allowed"
                THEN \E k \in 1..Len(allowed) : allowed[k] = i
                ELSE \E k \in 1..Len(blocked) : blocked[k] = i

\* Between messages the summary of the log accounts for everything the LLM has
\* been answered under this pipeline: allowed calls were run, all others were
\* refused, over every run that shares the pipeline.
SummaryCountsAnswers ==
  pc \in {"llm", "idle"} =>
    LET summary == Summary(audit_log)
    IN  /\ summary.allowed = answers.run
        /\ summary.denied + summary.verification_required = answers.refused
        /\ summary.total_actions = answers.run + answers.refused

\* The log and the completion record tell the same story: an action counts as
\* completed exactly when the current pipeline's log has allowed it.
CompletedAreLogged == task_state.completed = AllowedUpTo(Len(audit_log))

\* What counts as completed was allowed by the log of the same pipeline; an
\* interrupt may lose a completion but never make one up.
CompletedWereAllowed == task_state.completed \subseteq AllowedUpTo(Len(audit_log))

\* Every allowed entry of the log comes after allowed entries for all of the
\* prerequisites that the policy in force names, over all iterations and runs
\* that share the pipeline.
PrerequisitesAllowedEarlier ==
  gate_policy # NoPolicy =>
    \A i \in 1..Len(audit_log) :
      audit_log[i].final_decision = "allowed" =>
        gate_policy.tool[audit_log[i].action] \subseteq AllowedUpTo(i - 1)

\* Actions that wait for each other in a circle are never allowed, although the
\* generator filters the prerequisites of a policy by their names only: of any
\* actions the log has allowed, one waits for none of the others.
CirclesStayShut ==
  gate_policy # NoPolicy =>
    \A circle \in (SUBSET AllowedUpTo(Len(audit_log))) \ {{}} :
      \E a \in circle : gate_policy.tool[a] \cap circle = {}

\* The tools are attempted in the order the policy asks for, although the gate
\* records an action before it has run: the executor never starts an action
\* before each of its prerequisites has at least been attempted.
PrerequisitesAttempted ==
  [][executed' # executed /\ executed' # {} /\ gate_policy # NoPolicy =>
       \A a \in executed' \ executed : gate_policy.tool[a] \subseteq executed]_agentVars

\* Every run ends: no sequence of refusals or tool errors keeps the loop busy.
RunsEnd == []<>(pc = "idle")

\* A refused call is reported back to the LLM in the same run.
RefusalsReported ==
  \A id \in Ids :
    (\E i \in 1..Len(blocked) : blocked[i] = id)
      ~> (pc = "llm" /\ \E i \in 1..Len(results) : results[i] = Result(id, "blocked"))

\* What README.md promises of the gates, over all runs of the gate object.
Monitor == INSTANCE TaskMonitor WITH
  scope <- IF privilege_context = NoContext THEN {} ELSE privilege_context.enabled_actions,
  before <- [a \in Actions |-> IF gate_policy = NoPolicy THEN {} ELSE gate_policy.tool[a]],
  released <- task_state.completed
ImplementsMonitor == Monitor!Spec

\* README.md:21-23 and the docstring of record_action_result() speak of
\* prerequisites that have completed: an action runs only after each of its
\* prerequisites has returned without an error.
PrerequisitesSucceeded ==
  [][executed' # executed /\ executed' # {} /\ gate_policy # NoPolicy =>
       \A a \in executed' \ executed : gate_policy.tool[a] \subseteq succeeded]_agentVars

\* core/task_state.py:9 calls the completion record the state of a single task
\* execution: what counts as completed was allowed in the current run.
CompletedInThisRun == pc = "gating" => task_state.completed \subseteq ran
==============================================================================
