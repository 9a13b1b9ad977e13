----------------------------- MODULE AgentFaults -----------------------------
(***************************************************************************)
(* The agent loop when a run breaks off: an interrupt from the keyboard,   *)
(* an error of the LLM client or of a print statement leaves the run by an *)
(* exception, and the same gate object serves the next query.  Nothing in  *)
(* integrations/agentdojo_pipeline.py cleans up, so the gate keeps the     *)
(* fields assigned so far.                                                 *)
(***************************************************************************)
EXTENDS AgentLoop

CONSTANT MaxInterrupts   \* bound: runs that break off

ASSUME InterruptsAssumption == MaxInterrupts \in Nat

VARIABLE interrupts      \* history: runs that broke off

faultVars == <<agentVars, interrupts>>

FaultInit == AgentInit /\ interrupts = 0

\* The exception leaves the loop; the messages of the run are gone.
Abandon ==
  /\ pc' = "idle" /\ turn' = <<>> /\ index' = 1
  /\ allowed' = <<>> /\ blocked' = <<>> /\ results' = <<>>
  /\ UNCHANGED <<query, round, runs>>

Interrupt == interrupts < MaxInterrupts /\ interrupts' = interrupts + 1

\* Anywhere in a run, between two assignments the gate makes.
RunInterrupted ==
  /\ pc # "idle"
  /\ Interrupt /\ Abandon
  /\ UNCHANGED <<pipelineVars, gateVars, histVars>>

\* How far initialize_task() came on the new pipeline of the query.
JustConstructed == task_state' = FreshTaskState(NoTask)

TaskStateAssigned == task_state' = FreshTaskState(query)

HalfInitialized ==
  \/ /\ JustConstructed \/ TaskStateAssigned
     /\ privilege_context' = NoContext
     /\ dynamic_policy' = NoPolicy /\ gate_policy' = NoPolicy
  \/ /\ TaskStateAssigned
     /\ \E enabled \in ScopesFor(query) :
          /\ privilege_context' = Context(query, enabled)
          /\ dynamic_policy' \in {NoPolicy} \cup PoliciesFor(enabled, NoPolicy)
     /\ gate_policy' = NoPolicy

\* The gate is making a pipeline for a query.
MakingPipeline == pc = "gate" /\ (~ has_pipeline \/ current_task # query)

\* MUTANT of CreationInterrupted: the gate would re-initialize the pipeline it has.
CreationInterrupted_SamePipeline ==
  /\ MakingPipeline
  /\ Interrupt /\ Abandon
  /\ has_pipeline' = TRUE /\ UNCHANGED current_task
  /\ TaskStateAssigned
  /\ \E enabled \in ScopesFor(query) : privilege_context' = Context(query, enabled)
  /\ UNCHANGED <<dynamic_policy, gate_policy, audit_log, histVars>>

\* MUTANT of CreationInterrupted: the completions outlive the pipeline.
CreationInterrupted_OldCompletions ==
  /\ MakingPipeline
  /\ Interrupt /\ Abandon
  /\ has_pipeline' = TRUE /\ UNCHANGED current_task
  /\ task_state' = [task_state EXCEPT !.task = query]
  /\ \E enabled \in ScopesFor(query) : privilege_context' = Context(query, enabled)
  /\ audit_log' = <<>> /\ dynamic_policy' = NoPolicy /\ gate_policy' = NoPolicy
  /\ UNCHANGED histVars

\* MUTANT of CreationInterrupted: current_task is assigned first.
CreationInterrupted_NameFirst ==
  /\ MakingPipeline
  /\ Interrupt /\ Abandon
  /\ has_pipeline' = TRUE /\ audit_log' = <<>>
  /\ HalfInitialized /\ current_task' = query
  /\ executed' = {} /\ succeeded' = {} /\ answers' = NoAnswers
  /\ UNCHANGED ran

\* While a pipeline is made: the new object is already the gate's, the query
\* becomes its current_task only after initialize_task(), and the prints after
\* that may fail too.
CreationInterrupted ==
  /\ MakingPipeline
  /\ Interrupt /\ Abandon
  /\ has_pipeline' = TRUE /\ audit_log' = <<>>
  /\ \/ HalfInitialized /\ UNCHANGED current_task
     \/ Initialized(query, NoPolicy) /\ current_task' \in {current_task, query}
  /\ executed' = {} /\ succeeded' = {} /\ answers' = NoAnswers
  /\ UNCHANGED ran

\* MUTANT of RecordingInterrupted: the completion is recorded before the log.
RecordingInterrupted_RecordFirst ==
  /\ pc = "gating" /\ index <= Len(turn) /\ privilege_context # NoContext
  /\ Interrupt /\ Abandon
  /\ task_state' = Recorded(turn[index].action)
  /\ UNCHANGED <<audit_log, privilege_context, dynamic_policy, gate_policy, gateVars, histVars>>

\* Between the decision on a call, which logs it, and the record of its
\* completion; a print of the arguments stands there.
RecordingInterrupted ==
  /\ pc = "gating" /\ index <= Len(turn) /\ privilege_context # NoContext
  /\ Interrupt /\ Abandon
  /\ audit_log' = Append(audit_log, GateEntry(turn[index]))
  /\ UNCHANGED <<task_state, privilege_context, dynamic_policy, gate_policy, gateVars, histVars>>

\* MUTANT of GateRaises: the gate waits for a scope.
GateRaises_Waits ==
  /\ pc = "gating" /\ index <= Len(turn) /\ privilege_context = NoContext
  /\ UNCHANGED faultVars

\* process_action() on a pipeline without a scope raises RuntimeError: the run
\* breaks off by itself.
GateRaises ==
  /\ pc = "gating" /\ index <= Len(turn) /\ privilege_context = NoContext
  /\ Abandon
  /\ UNCHANGED <<pipelineVars, gateVars, histVars, interrupts>>

FaultyStep == (LoopStep /\ UNCHANGED interrupts) \/ GateRaises

FaultNext ==
  \/ FaultyStep
  \/ \E task \in Tasks : StartRun(task) /\ UNCHANGED interrupts
  \/ RunInterrupted \/ CreationInterrupted \/ RecordingInterrupted

FaultSafety == FaultInit /\ [][FaultNext]_faultVars

\* As in AgentSpec every element returns or raises; no fault is ever owed.
FaultSpec == FaultSafety /\ WF_faultVars(FaultyStep)

-----------------------------------------------------------------------------
\* A query whose pipeline broke off starts over when it is asked again: the
\* gate never takes a half-made pipeline for the finished one of the same query.
\* (It may take it for that of another query, see GatedUnderOwnTask.)
InterruptedQueryStartsOver ==
  has_pipeline /\ current_task # NoTask /\ current_task = task_state.task =>
    /\ privilege_context # NoContext /\ privilege_context.task = current_task
    /\ HasGenerator => gate_policy # NoPolicy
=============================================================================
