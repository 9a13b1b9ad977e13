------------------------------ MODULE Pipeline ------------------------------
(***************************************************************************)
(* AdaptiveSecurityPipeline (policy/pipeline.py): one object, used for one *)
(* task after another by one thread.  initialize_task() scopes the         *)
(* privileges and generates the dynamic policy, process_action() runs a    *)
(* request through the gate chain, record_action_result() marks an action  *)
(* as completed.                                                           *)
(*                                                                         *)
(* The two LLMs answer anything in ScopeReplies and PlanReplies.  Their    *)
(* exceptions are caught; what is not caught is an interrupt               *)
(* (KeyboardInterrupt), most likely in one of the long LLM calls, after    *)
(* which the object stays usable with the fields assigned so far.          *)
(***************************************************************************)
EXTENDS GateChain

CONSTANTS
  Tasks,              \* task texts, and the texts of their sub-tasks
  NoTask,             \* the empty task text of a pipeline never initialized
  BlankText,          \* a sub-task of white space only
  NoContext,          \* privilege_context before the first initialize_task()
  ScopeReplies,       \* what the privilege LLM may answer
  PlanReplies,        \* what the dynamic policy LLM may answer
  DecomposerReplies,  \* what the query decomposer LLM may answer
  Calls,              \* the requests a caller may make
  HasDecomposer,      \* a query decomposer was given
  HasGenerator,       \* a dynamic policy generator was given
  Interruptible,      \* initialize_task() may be interrupted
  MaxLog              \* bound: entries of the audit log

ASSUME RepliesAssumption ==
  /\ ScopeReplies \subseteq {NoReply} \cup SUBSET Names
  /\ PlanReplies \subseteq {NoReply} \cup PolicyReplies
  /\ DecomposerReplies \subseteq {NoReply} \cup Seq(Tasks \cup {BlankText})

ASSUME CallsAssumption == Calls \subseteq Requests

ASSUME FlagsAssumption ==
  /\ HasDecomposer \in BOOLEAN /\ HasGenerator \in BOOLEAN /\ Interruptible \in BOOLEAN
  /\ MaxLog \in Nat

Contexts == [task : Tasks, enabled_actions : SUBSET Actions]

ASSUME NoContextAssumption == NoContext \notin Contexts

VARIABLES
  privilege_context,  \* NoContext, or the scope of the current task
  task_state,         \* the task and the actions recorded as completed
  dynamic_policy,     \* the policy the pipeline reports in its metadata
  gate_policy,        \* gate_chain.dynamic_policy, the policy it enforces
  audit_log

pipelineVars == <<privilege_context, task_state, dynamic_policy, gate_policy, audit_log>>

TaskStates == [task : Tasks \cup {NoTask}, completed : SUBSET Actions]

FreshTaskState(task) == [task |-> task, completed |-> {}]

PipelineInit ==
  /\ privilege_context = NoContext
  /\ task_state = FreshTaskState(NoTask)
  /\ dynamic_policy = NoPolicy
  /\ gate_policy = NoPolicy
  /\ audit_log = <<>>

\* The scopes the privilege LLM may come to for a task.
ScopesFor(task) ==
  IF HasDecomposer
  THEN {ScopePrivilegesDecomposed(replies) : replies \in
          UNION {[DOMAIN Decompose(r, task, BlankText) -> ScopeReplies] : r \in DecomposerReplies}}
  ELSE {ScopePrivileges(r) : r \in ScopeReplies}

\* The policies generation may come to; without a generator the old one stays.
PoliciesFor(enabled, old) ==
  IF HasGenerator THEN {Generate(r, enabled) : r \in PlanReplies} ELSE {old}

Context(task, enabled) == [task |-> task, enabled_actions |-> enabled]

\* initialize_task() on a pipeline whose policy is old.  The audit log is not
\* part of it: a pipeline keeps its log over its tasks.
Initialized(task, old) ==
  \E enabled \in ScopesFor(task) : \E policy \in PoliciesFor(enabled, old) :
     /\ task_state' = FreshTaskState(task)
     /\ privilege_context' = Context(task, enabled)
     /\ dynamic_policy' = policy
     /\ gate_policy' = policy

InitializeTask(task) == Initialized(task, dynamic_policy) /\ UNCHANGED audit_log

\* An interrupt before the scope is assigned: the task state is already that of
\* the new task, everything else still that of the old one.
ScopingInterrupted(task) ==
  /\ Interruptible
  /\ task_state' = FreshTaskState(task)
  /\ UNCHANGED <<privilege_context, dynamic_policy, gate_policy, audit_log>>

\* An interrupt after the scope is assigned and before the gate chain has its
\* policy, in the generation call or on either side of it: the scope is new, the
\* policy reported may be, the policy enforced is still the old one.
PolicyInterrupted(task) ==
  /\ Interruptible
  /\ task_state' = FreshTaskState(task)
  /\ \E enabled \in ScopesFor(task) :
       /\ privilege_context' = Context(task, enabled)
       /\ dynamic_policy' \in {dynamic_policy} \cup PoliciesFor(enabled, dynamic_policy)
  /\ UNCHANGED <<gate_policy, audit_log>>

StartsTask(task) ==
  InitializeTask(task) \/ ScopingInterrupted(task) \/ PolicyInterrupted(task)

\* The answer of the gate chain to a request in the current state.
Decision(request) ==
  FinalDecision(request, privilege_context.enabled_actions, task_state.completed, gate_policy)

\* The audit entry of a request in the current state; callers put the text of
\* the task into the request.
EntryFor(request) ==
  AuditEntry(request, task_state.task, privilege_context.enabled_actions,
             task_state.completed, gate_policy)

\* MUTANT of Recorded: the record keeps only the last action.
Recorded_LastOnly(action) == [task_state EXCEPT !.completed = {action}]

\* The task state after mark_completed(action).
Recorded(action) == [task_state EXCEPT !.completed = @ \cup {action}]

\* process_action(): one entry is recorded on every path.  Before the first
\* initialize_task() it raises RuntimeError and changes nothing.
ProcessAction(request) ==
  /\ privilege_context # NoContext
  /\ Len(audit_log) < MaxLog
  /\ audit_log' = Append(audit_log, EntryFor(request))
  /\ UNCHANGED <<privilege_context, task_state, dynamic_policy, gate_policy>>

\* record_action_result(): the caller may record any name, allowed or not.
RecordActionResult(action) ==
  /\ privilege_context # NoContext
  /\ task_state' = Recorded(action)
  /\ UNCHANGED <<privilege_context, dynamic_policy, gate_policy, audit_log>>

PipelineNext ==
  \/ \E task \in Tasks : InitializeTask(task)
  \/ \E task \in Tasks : ScopingInterrupted(task)
  \/ \E task \in Tasks : PolicyInterrupted(task)
  \/ \E request \in Calls : ProcessAction(request)
  \/ \E action \in Actions : RecordActionResult(action)

PipelineSpec == PipelineInit /\ [][PipelineNext]_pipelineVars

-----------------------------------------------------------------------------
AuditEntries ==
  [action : Actions, user_request : Tasks \cup {NoTask}, static_decision : {"allowed", "denied"},
   final_decision : Decisions, gate : Gates]

\* Type invariant: each field of the pipeline holds what the dataclasses declare.
PipelineTypeOK ==
  /\ privilege_context \in {NoContext} \cup Contexts
  /\ task_state \in TaskStates
  /\ dynamic_policy \in {NoPolicy} \cup Policies
  /\ gate_policy \in {NoPolicy} \cup Policies
  /\ audit_log \in Seq(AuditEntries)

\* The policy the gates enforce speaks only of actions the privilege gate lets
\* through, and no action waits for itself: a prerequisite outside the scope
\* could never complete, and its dependent would be blocked for the whole task.
PolicyWithinPrivileges ==
  privilege_context # NoContext /\ gate_policy # NoPolicy =>
    \A a \in Actions :
       /\ gate_policy.tool[a] \subseteq privilege_context.enabled_actions \ {a}
       /\ gate_policy.tool[a] # {} \/ gate_policy.data[a] # {}
            => a \in privilege_context.enabled_actions

\* The static format check and the data gate never contradict each other: for
\* every profile the data gate demands, the call that writes exactly that
\* profile passes the format check and matches it.
NoDataLockout ==
  gate_policy # NoPolicy =>
    \A a \in Actions : \A option \in gate_policy.data[a] :
       /\ FormatFailures([action |-> a, args |-> option]) = {}
       /\ OptionMatches(option, option)

\* The dynamic policy can only turn an allowed call into one to verify: it
\* never rescues a call and never replaces a refusal of the earlier gates by a
\* weaker one (README: nothing downstream can loosen or override the decision).
OnlyTightens ==
  privilege_context # NoContext =>
    \A request \in Calls :
      LET without == FinalDecision(request, privilege_context.enabled_actions,
                                   task_state.completed, NoPolicy)
      IN  \/ Decision(request) = without
          \/ without = "allowed" /\ Decision(request) = "verification_required"

\* Within a task an answer, once favourable or final, stands: what is allowed
\* stays allowed and what is denied stays denied, whatever is recorded or
\* processed in between.  Only "verification_required" may still turn.
SettledDecisions ==
  [][\/ \E task \in Tasks : StartsTask(task)
     \/ \A request \in Calls :
          Decision(request) \in {"allowed", "denied"} => Decision(request)' = Decision(request)
    ]_pipelineVars

\* A scope never meets completions of an earlier task, not even when
\* initialize_task() is interrupted half way: the step that installs a scope
\* leaves no completed action and the same task in the task state.
ScopeStartsClean ==
  [][privilege_context' # privilege_context =>
       task_state' = FreshTaskState(privilege_context'.task)]_pipelineVars
=============================================================================
