-------------------------- MODULE AgentFaultsProofs --------------------------
(***************************************************************************)
(* Theorems about the agent loop when runs break off: what survives an     *)
(* interrupt between any two assignments of the gate.                      *)
(***************************************************************************)
EXTENDS AgentFaults, AgentBatchProofs

\* What holds of every pipeline the gate may hold, half-made ones included.
\* The last conjunct lets the first pipeline start over as well.
FaultInv ==
  /\ GateInv
  /\ PolicyWithinPrivileges
  /\ CompletedWereAllowed
  /\ PrerequisitesAllowedEarlier
  /\ InterruptedQueryStartsOver
  /\ ~ has_pipeline => current_task = NoTask

LEMMA FaultSteps ==
  ASSUME [FaultNext]_faultVars
  PROVE  \/ [AgentNext]_agentVars
         \/ GateRaises \/ RunInterrupted \/ CreationInterrupted \/ RecordingInterrupted
BY DEF FaultNext, FaultyStep, AgentNext, faultVars

LEMMA AbandonedType ==
  ASSUME GateInv, Abandon, PipelineTypeOK'
  PROVE  GateInv'
BY DEF GateInv, Abandon

\* The fields of a pipeline whose initialization broke off.
LEMMA HalfInitializedFields ==
  ASSUME query \in Tasks, HalfInitialized
  PROVE  /\ privilege_context' \in {NoContext} \cup Contexts
         /\ task_state' \in {FreshTaskState(NoTask), FreshTaskState(query)}
         /\ dynamic_policy' \in {NoPolicy} \cup Policies
         /\ gate_policy' = NoPolicy
<1>1. ASSUME TaskStateAssigned, NEW enabled \in ScopesFor(query),
             privilege_context' = Context(query, enabled),
             dynamic_policy' \in {NoPolicy} \cup PoliciesFor(enabled, NoPolicy)
      PROVE  /\ privilege_context' \in {NoContext} \cup Contexts
             /\ dynamic_policy' \in {NoPolicy} \cup Policies
  <2>1. enabled \in SUBSET Actions
    BY ScopesType
  <2> QED BY <1>1, <2>1, PoliciesForType DEF Context, Contexts
<1> QED BY <1>1 DEF HalfInitialized, JustConstructed, TaskStateAssigned

\* A generated policy is none of the ordinary None.
LEMMA InitializedHasPolicy ==
  ASSUME NEW task \in Tasks, Initialized(task, NoPolicy), HasGenerator
  PROVE  gate_policy' # NoPolicy
<1>1. PICK enabled \in ScopesFor(task) : gate_policy' \in PoliciesFor(enabled, NoPolicy)
  BY DEF Initialized
<1>2. enabled \in SUBSET Actions
  BY ScopesType
<1>3. gate_policy' \in Policies
  BY <1>1, <1>2, GenerateType DEF PoliciesFor
<1> QED BY <1>3, NoPolicyAssumption

\* What a fully initialized new pipeline satisfies, whoever made it.
LEMMA InitializedPipeline ==
  ASSUME query \in Tasks, Initialized(query, NoPolicy), audit_log' = <<>>,
         has_pipeline'
  PROVE  /\ PipelineTypeOK'
         /\ PolicyWithinPrivileges'
         /\ CompletedWereAllowed'
         /\ PrerequisitesAllowedEarlier'
         /\ InterruptedQueryStartsOver'
<1>1. PipelineTypeOK' /\ privilege_context' # NoContext
  BY InitializedType, NoContextAssumption DEF PipelineTypeOK
<1>2. PolicyWithinPrivileges'
  BY InitializedWithin DEF WithinInv
<1>3. /\ privilege_context'.task = query
      /\ task_state' = FreshTaskState(query)
  BY DEF Initialized, Context
<1>4. HasGenerator => gate_policy' # NoPolicy
  BY InitializedHasPolicy
<1> QED
  BY <1>1, <1>2, <1>3, <1>4
     DEF CompletedWereAllowed, PrerequisitesAllowedEarlier, InterruptedQueryStartsOver,
         FreshTaskState

LEMMA FaultInitInv == FaultInit => FaultInv
BY OrderInit DEF FaultInit, AgentInit, PipelineInit, FaultInv, OrderInv, PolicyWithinPrivileges,
   CompletedAreLogged, CompletedWereAllowed, InterruptedQueryStartsOver

LEMMA FaultStep == FaultInv /\ [FaultNext]_faultVars => FaultInv'
<1> SUFFICES ASSUME FaultInv, [FaultNext]_faultVars
             PROVE  FaultInv'
  OBVIOUS
<1> USE DEF FaultInv
<1>1. ASSUME UNCHANGED pipelineVars, UNCHANGED gateVars, GateInv'
      PROVE  FaultInv'
  BY <1>1 DEF pipelineVars, gateVars, PolicyWithinPrivileges, CompletedWereAllowed,
              PrerequisitesAllowedEarlier, AllowedUpTo, InterruptedQueryStartsOver
<1>2. CASE [AgentNext]_agentVars
  <2>1. GateInv'
    BY <1>2, GateStep
  <2>2. CASE NewPipeline
    <3>1. query \in Tasks /\ Initialized(query, NoPolicy) /\ audit_log' = <<>> /\ has_pipeline'
      BY <2>2 DEF NewPipeline, GateInv
    <3> QED BY <2>1, <3>1, InitializedPipeline
  <2>3. CASE AllowCall \/ BlockCall
    <3>1. /\ PrerequisitesAllowedEarlier'
          /\ \E new \in SUBSET Actions :
               /\ AllowedUpTo(Len(audit_log))' = AllowedUpTo(Len(audit_log)) \cup new
               /\ task_state'.completed = task_state.completed \cup new
      BY <2>3, DecidedCall
    <3>2. CompletedWereAllowed'
      BY <3>1 DEF CompletedWereAllowed
    <3>3. UNCHANGED <<privilege_context, gate_policy, has_pipeline, current_task>>
      BY <2>3 DEF AllowCall, BlockCall, gateVars
    <3>4. task_state'.task = task_state.task
      <4>1. task_state \in TaskStates
        BY DEF GateInv, PipelineTypeOK
      <4> QED BY <2>3, <4>1 DEF AllowCall, BlockCall, Recorded, TaskStates
    <3> QED BY <2>1, <3>1, <3>2, <3>3, <3>4
            DEF PolicyWithinPrivileges, InterruptedQueryStartsOver
  <2>4. CASE UNCHANGED pipelineVars /\ ~ NewPipeline
    <3>1. UNCHANGED gateVars
      BY <1>2, <2>4 DEF AgentNext, LoopStep, agentVars, gateVars, LLMCalls, LLMEnds, KeepPipeline,
             AllowCall, BlockCall, CloseGate, OpenExecutor, Execute, CloseExecutor, Feedback,
             StartRun
    <3> QED BY <1>1, <2>1, <2>4, <3>1
  <2> QED BY <1>2, <2>2, <2>3, <2>4, PipelineSteps
<1>3. CASE GateRaises \/ RunInterrupted
  <2>1. UNCHANGED pipelineVars /\ UNCHANGED gateVars /\ Abandon
    BY <1>3 DEF GateRaises, RunInterrupted
  <2>2. PipelineTypeOK'
    BY <2>1 DEF pipelineVars, PipelineTypeOK, GateInv
  <2> QED BY <1>1, <2>1, <2>2, AbandonedType
<1>4. CASE CreationInterrupted
  <2>1. query \in Tasks /\ MakingPipeline /\ Abandon /\ audit_log' = <<>> /\ has_pipeline' = TRUE
    BY <1>4 DEF CreationInterrupted, MakingPipeline, GateInv
  <2>2. CASE Initialized(query, NoPolicy)
    BY <2>1, <2>2, InitializedPipeline, AbandonedType
  <2>3. CASE HalfInitialized /\ UNCHANGED current_task
    <3>1. /\ privilege_context' \in {NoContext} \cup Contexts
          /\ task_state' \in {FreshTaskState(NoTask), FreshTaskState(query)}
          /\ dynamic_policy' \in {NoPolicy} \cup Policies
          /\ gate_policy' = NoPolicy
      BY <2>1, <2>3, HalfInitializedFields
    <3>2. PipelineTypeOK'
      BY <2>1, <3>1, FreshTaskStateType DEF PipelineTypeOK
    <3>3. current_task # query \/ current_task = NoTask
      BY <2>1 DEF MakingPipeline
    <3>4. InterruptedQueryStartsOver'
      BY <2>3, <3>1, <3>3 DEF InterruptedQueryStartsOver, FreshTaskState
    <3> QED BY <2>1, <3>1, <3>2, <3>4, AbandonedType
            DEF PolicyWithinPrivileges, CompletedWereAllowed, PrerequisitesAllowedEarlier,
                FreshTaskState
  <2> QED BY <1>4, <2>2, <2>3 DEF CreationInterrupted
<1>5. CASE RecordingInterrupted
  <2> DEFINE call == turn[index]
  <2>1. call \in Calls /\ pc # "idle"
    BY <1>5 DEF RecordingInterrupted, GateInv
  <2>2. /\ audit_log' = Append(audit_log, GateEntry(call))
        /\ UNCHANGED <<task_state, privilege_context, dynamic_policy, gate_policy, gateVars>>
        /\ Abandon
    BY <1>5 DEF RecordingInterrupted
  <2> HIDE DEF call
  <2>3. /\ PrerequisitesAllowedEarlier'
        /\ AllowedUpTo(Len(audit_log))' =
             AllowedUpTo(Len(audit_log))
               \cup (IF Decision(call) = "allowed" THEN {call.action} ELSE {})
    BY <2>1, <2>2, LoggedCall
  <2>4. PipelineTypeOK'
    <3>1. GateEntry(call) \in AuditEntries
      BY <2>1, GateEntryType
    <3> QED BY <2>2, <3>1 DEF PipelineTypeOK, GateInv
  <2>5. GateInv'
    BY <2>2, <2>4, AbandonedType
  <2> QED BY <2>2, <2>3, <2>5
          DEF gateVars, PolicyWithinPrivileges, CompletedWereAllowed, InterruptedQueryStartsOver
<1> QED BY <1>2, <1>3, <1>4, <1>5, FaultSteps

LEMMA FaultInvariant == FaultSafety => []FaultInv
BY FaultInitInv, FaultStep, PTL DEF FaultSafety

\* However a run breaks off, no later one gets an action allowed before all
\* its prerequisites have been.
THEOREM FaultsKeepOrder == FaultSafety => []PrerequisitesAllowedEarlier
<1>1. FaultInv => PrerequisitesAllowedEarlier
  BY DEF FaultInv
<1> QED BY <1>1, FaultInvariant, PTL

\* Nor does a run that breaks off open a circle of prerequisites.
THEOREM FaultsShutCircles == FaultSafety => []CirclesStayShut
<1>1. FaultInv => CirclesStayShut
  BY OrderShutsCircles DEF FaultInv
<1> QED BY <1>1, FaultInvariant, PTL

\* A query that broke off while its pipeline was made gets a new pipeline.
THEOREM HalfMadeNotReused == FaultSafety => []InterruptedQueryStartsOver
<1>1. FaultInv => InterruptedQueryStartsOver
  BY DEF FaultInv
<1> QED BY <1>1, FaultInvariant, PTL

\* In the gate, which makes a new pipeline for each query, the policy in force
\* stays within the scope in force even when initialization breaks off; a
\* pipeline initialized twice lacks this, see PipelineProofs.
THEOREM FaultsStayWithin == FaultSafety => []PolicyWithinPrivileges
<1>1. FaultInv => PolicyWithinPrivileges
  BY DEF FaultInv
<1> QED BY <1>1, FaultInvariant, PTL

\* What counts as completed is in the log as allowed, wherever a run breaks off;
\* the reverse, CompletedAreLogged, is lost between the two writes.
THEOREM FaultsExplained == FaultSafety => []CompletedWereAllowed
<1>1. FaultInv => CompletedWereAllowed
  BY DEF FaultInv
<1> QED BY <1>1, FaultInvariant, PTL

-----------------------------------------------------------------------------
(***************************************************************************)
(* The task monitor under faults                                           *)
(***************************************************************************)

LEMMA HalfInitializedIsNewTask ==
  ASSUME query \in Tasks, HalfInitialized
  PROVE  Monitor!NewTask
<1>1. /\ privilege_context' \in {NoContext} \cup Contexts
      /\ task_state' \in {FreshTaskState(NoTask), FreshTaskState(query)}
      /\ gate_policy' = NoPolicy
  BY HalfInitializedFields
<1>2. AbstractScope' \in SUBSET Actions
  BY <1>1 DEF AbstractScope, Contexts
<1>3. AbstractBefore' = [a \in Actions |-> {}]
  BY <1>1 DEF AbstractBefore
<1>4. task_state'.completed = {}
  BY <1>1 DEF FreshTaskState
<1> QED BY <1>2, <1>3, <1>4 DEF Monitor!NewTask, AbstractScope, AbstractBefore

LEMMA FaultMonitorStep ==
  GateInv /\ [FaultNext]_faultVars => [Monitor!Next]_(Monitor!vars)
<1> SUFFICES ASSUME GateInv, [FaultNext]_faultVars
             PROVE  Monitor!Next \/ UNCHANGED Monitor!vars
  OBVIOUS
<1>1. CASE [AgentNext]_agentVars
  BY <1>1, MonitorStep
<1>2. CASE GateRaises \/ RunInterrupted \/ RecordingInterrupted
  BY <1>2 DEF GateRaises, RunInterrupted, RecordingInterrupted, pipelineVars, Monitor!vars
<1>3. CASE CreationInterrupted
  <2>1. query \in Tasks
    BY <1>3 DEF CreationInterrupted, MakingPipeline, GateInv
  <2>2. CASE HalfInitialized
    BY <2>1, <2>2, HalfInitializedIsNewTask DEF Monitor!Next
  <2>3. CASE Initialized(query, NoPolicy)
    BY <2>1, <2>3, InitializedIsNewTask DEF Monitor!Next
  <2> QED BY <1>3, <2>2, <2>3 DEF CreationInterrupted
<1> QED BY <1>1, <1>2, <1>3, FaultSteps

\* Broken-off runs never make the gate release an action outside the scope in
\* force or ahead of what the policy in force orders before it.
THEOREM FaultsImplementMonitor == FaultSafety => ImplementsMonitor
<1>1. FaultInit => Monitor!Init
  BY DEF FaultInit, AgentInit, PipelineInit, FreshTaskState, Monitor!Init
<1>2. FaultInv => GateInv
  BY DEF FaultInv
<1> QED
  BY <1>1, <1>2, FaultInvariant, FaultMonitorStep, PTL
     DEF FaultSafety, ImplementsMonitor, Monitor!Spec

-----------------------------------------------------------------------------
(***************************************************************************)
(* One message under faults: what a run that breaks off takes with it is   *)
(* the whole message, so that no later run meets a part of it.             *)
(***************************************************************************)

Fault == GateRaises \/ RunInterrupted \/ CreationInterrupted \/ RecordingInterrupted

\* What every fault leaves behind.
LEMMA FaultAbandons ==
  ASSUME BatchInv, Fault
  PROVE  /\ Abandon
         /\ has_pipeline' \in BOOLEAN /\ current_task' \in Tasks \cup {NoTask}
         /\ executed' \subseteq Actions /\ succeeded' \subseteq executed' /\ ran' \subseteq Actions
         /\ answers' \in [run : Nat, refused : Nat]
<1>1. /\ has_pipeline \in BOOLEAN /\ current_task \in Tasks \cup {NoTask}
      /\ query \in Tasks \cup {NoTask}
      /\ executed \subseteq Actions /\ succeeded \subseteq executed /\ ran \subseteq Actions
      /\ answers \in [run : Nat, refused : Nat]
  BY DEF BatchInv, AgentTypeOK
<1>2. CASE GateRaises \/ RunInterrupted \/ RecordingInterrupted
  <2>1. Abandon /\ UNCHANGED gateVars /\ UNCHANGED histVars
    BY <1>2 DEF GateRaises, RunInterrupted, RecordingInterrupted
  <2> QED BY <1>1, <2>1 DEF gateVars, histVars
<1>3. CASE CreationInterrupted
  <2>1. /\ Abandon /\ has_pipeline' = TRUE /\ current_task' \in {current_task, query}
        /\ executed' = {} /\ succeeded' = {} /\ ran' = ran /\ answers' = NoAnswers
    BY <1>3 DEF CreationInterrupted
  <2> QED BY <1>1, <2>1 DEF NoAnswers
<1> QED BY <1>2, <1>3 DEF Fault

LEMMA FaultBatch ==
  ASSUME FaultInv, BatchInv, Fault
  PROVE  BatchInv'
<1>1. GateInv'
  BY FaultStep DEF FaultInv, Fault, FaultNext, FaultyStep
<1>2. /\ Abandon
      /\ has_pipeline' \in BOOLEAN /\ current_task' \in Tasks \cup {NoTask}
      /\ executed' \subseteq Actions /\ succeeded' \subseteq executed' /\ ran' \subseteq Actions
      /\ answers' \in [run : Nat, refused : Nat]
  BY FaultAbandons
<1>3. /\ allowed' \in Seq(Ids) /\ blocked' \in Seq(Ids) /\ results' \in Seq(Outcomes)
      /\ index' \in 1..(MaxCalls + 1) /\ turn' \in Turns \cup {<<>>}
      /\ pc' \in {"idle", "llm", "gate", "gating", "exec", "executing", "feedback"}
  BY <1>2, LoopAssumption DEF Abandon
<1>4. PipelineTypeOK' /\ query' \in Tasks \cup {NoTask}
  BY <1>1 DEF GateInv
<1>5. round' \in 0..MaxIters /\ runs' \in 0..MaxRuns
  BY <1>2 DEF Abandon, BatchInv, AgentTypeOK
<1>6. AgentTypeOK'
  BY <1>2, <1>3, <1>4, <1>5 DEF AgentTypeOK, Outcomes
<1>7. Bookkeeping' /\ EveryCallAnsweredOnce'
  BY <1>2 DEF Abandon, Bookkeeping, EveryCallAnsweredOnce, Handling
<1> QED BY <1>1, <1>6, <1>7 DEF BatchInv

\* The invariants of one message, as in AgentBatchProofs.
FaultBatchInv == FaultInv /\ ClearedInv /\ AuditInv

LEMMA FaultBatchInit == FaultInit => FaultBatchInv
BY FaultInitInv, BatchInit
   DEF FaultInit, AgentInit, FaultBatchInv, ClearedInv, AuditInv, AllowedAreCleared,
       OnlyClearedCallsRun, MessageIsAudited

LEMMA FaultBatchStep == FaultBatchInv /\ [FaultNext]_faultVars => FaultBatchInv'
<1> SUFFICES ASSUME FaultBatchInv, [FaultNext]_faultVars
             PROVE  FaultBatchInv'
  OBVIOUS
<1>1. FaultInv'
  BY FaultStep DEF FaultBatchInv
<1>2. CASE [AgentNext]_agentVars
  BY <1>1, <1>2, ClearedStep, AuditStep DEF FaultBatchInv
<1>3. CASE Fault
  <2>1. BatchInv'
    BY <1>3, FaultBatch DEF FaultBatchInv, ClearedInv
  <2>2. pc' = "idle" /\ results' = <<>>
    BY <1>3, FaultAbandons DEF FaultBatchInv, ClearedInv, Abandon
  <2> QED BY <1>1, <2>1, <2>2 DEF FaultBatchInv, ClearedInv, AuditInv, AllowedAreCleared,
             OnlyClearedCallsRun, MessageIsAudited
<1> QED BY <1>2, <1>3, FaultSteps DEF Fault

LEMMA FaultBatchInvariant == FaultSafety => []FaultBatchInv
BY FaultBatchInit, FaultBatchStep, PTL DEF FaultSafety

\* Complete mediation holds although runs break off between any two assignments:
\* no run executes a call that an earlier, broken-off one had cleared.
THEOREM FaultsClear == FaultSafety => []OnlyClearedCallsRun
<1>1. FaultBatchInv => OnlyClearedCallsRun
  BY DEF FaultBatchInv, ClearedInv
<1> QED BY <1>1, FaultBatchInvariant, PTL

\* A run that starts after one that broke off still answers every call once.
THEOREM FaultsAnswerOnce == FaultSafety => []EveryCallAnsweredOnce
<1>1. FaultBatchInv => EveryCallAnsweredOnce
  BY DEF FaultBatchInv, ClearedInv, BatchInv
<1> QED BY <1>1, FaultBatchInvariant, PTL

\* The log ends with the message at hand, whatever entries a run that broke off
\* has left in it.
THEOREM FaultsAudited == FaultSafety => []MessageIsAudited
<1>1. FaultBatchInv => MessageIsAudited
  BY DEF FaultBatchInv, AuditInv
<1> QED BY <1>1, FaultBatchInvariant, PTL

\* The types of the gate and the loop survive every fault.
THEOREM FaultsTypeCorrect == FaultSafety => []AgentTypeOK
<1>1. FaultBatchInv => AgentTypeOK
  BY DEF FaultBatchInv, ClearedInv, BatchInv
<1> QED BY <1>1, FaultBatchInvariant, PTL
==============================================================================
