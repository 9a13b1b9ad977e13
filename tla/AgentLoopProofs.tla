-------------------------- MODULE AgentLoopProofs --------------------------
(***************************************************************************)
(* Theorems about the gate in the agent loop: the log, the completion      *)
(* record and the order of what is allowed, and the refinement of the      *)
(* task monitor.                                                           *)
(***************************************************************************)
EXTENDS AgentLoop, PipelineProofs, MinimumLemmas

-----------------------------------------------------------------------------
(***************************************************************************)
(* The state of the pipeline in the loop                                   *)
(***************************************************************************)

\* The calls the gate decides on are requests, and a query is running.
GateInv ==
  /\ PipelineTypeOK
  /\ query \in Tasks \cup {NoTask}
  /\ turn \in Seq(Calls)
  /\ index \in Nat \ {0}
  /\ pc # "idle" => query \in Tasks

LEMMA TurnsAreSeqs == Turns \subseteq Seq(Calls)
BY LoopAssumption DEF Turns

LEMMA GateEntryType ==
  ASSUME GateInv, pc # "idle", NEW request \in Calls
  PROVE  GateEntry(request) \in AuditEntries
<1>1. request \in Requests /\ query \in Tasks \cup {NoTask}
  BY CallsAssumption DEF GateInv
<1> QED BY <1>1, AuditEntryType DEF GateEntry

LEMMA GateInit == AgentInit => GateInv
BY TypeInit DEF AgentInit, GateInv, PipelineInit

LEMMA GateStep == GateInv /\ [AgentNext]_agentVars => GateInv'
<1> SUFFICES ASSUME GateInv, [AgentNext]_agentVars
             PROVE  GateInv'
  OBVIOUS
<1> USE DEF GateInv
<1>1. ASSUME UNCHANGED pipelineVars
      PROVE  PipelineTypeOK'
  BY <1>1 DEF PipelineTypeOK, pipelineVars
<1>2. ASSUME NEW calls \in Turns, LLMCalls(calls)
      PROVE  GateInv'
  <2>1. calls \in Seq(Calls)
    BY TurnsAreSeqs
  <2> QED BY <1>1, <1>2, <2>1 DEF LLMCalls, pipelineVars, gateVars
<1>3. CASE LLMEnds
  BY <1>1, <1>3 DEF LLMEnds, pipelineVars, gateVars
<1>4. CASE KeepPipeline
  BY <1>1, <1>4 DEF KeepPipeline, BeginPass, pipelineVars, gateVars
<1>5. CASE NewPipeline
  <2>1. query \in Tasks /\ Initialized(query, NoPolicy) /\ audit_log' = <<>>
    BY <1>5 DEF NewPipeline
  <2>2. PipelineTypeOK'
    BY <2>1, InitializedType DEF PipelineTypeOK
  <2> QED BY <1>5, <2>1, <2>2 DEF NewPipeline, BeginPass
<1>6. ASSUME AllowCall \/ BlockCall
      PROVE  GateInv'
  <2>1. turn[index] \in Calls
    BY <1>6 DEF AllowCall, BlockCall
  <2>2. GateEntry(turn[index]) \in AuditEntries
    BY <1>6, <2>1, GateEntryType DEF AllowCall, BlockCall
  <2>3. Recorded(turn[index].action) \in TaskStates
    BY <2>1, CallsAssumption, RecordedType DEF Requests, PipelineTypeOK
  <2>4. audit_log' \in Seq(AuditEntries)
    <3>1. audit_log' = Append(audit_log, GateEntry(turn[index]))
      BY <1>6 DEF AllowCall, BlockCall
    <3> HIDE DEF GateInv
    <3> QED BY <2>2, <3>1 DEF GateInv, PipelineTypeOK
  <2>5. task_state' \in TaskStates
    BY <1>6, <2>3 DEF AllowCall, BlockCall, PipelineTypeOK
  <2>6. PipelineTypeOK'
    BY <1>6, <2>4, <2>5 DEF AllowCall, BlockCall, PipelineTypeOK
  <2> QED BY <1>6, <2>6 DEF AllowCall, BlockCall, gateVars
<1>7. CASE CloseGate
  BY <1>1, <1>7 DEF CloseGate, pipelineVars, gateVars
<1>8. CASE OpenExecutor
  BY <1>1, <1>8 DEF OpenExecutor, pipelineVars, gateVars
<1>9. ASSUME NEW outcome, Execute(outcome)
      PROVE  GateInv'
  BY <1>1, <1>9 DEF Execute, pipelineVars, gateVars
<1>10. CASE CloseExecutor
  BY <1>1, <1>10 DEF CloseExecutor, pipelineVars, gateVars
<1>11. CASE Feedback
  BY <1>1, <1>11 DEF Feedback, pipelineVars, gateVars
<1>12. ASSUME NEW task \in Tasks, StartRun(task)
       PROVE  GateInv'
  BY <1>1, <1>12 DEF StartRun, pipelineVars, gateVars
<1>13. CASE UNCHANGED agentVars
  BY <1>1, <1>13 DEF agentVars, pipelineVars, gateVars, loopVars
<1> QED
  BY <1>2, <1>3, <1>4, <1>5, <1>6, <1>7, <1>8, <1>9, <1>10, <1>11, <1>12, <1>13
     DEF AgentNext, LoopStep

\* Every step of the loop keeps the pipeline as it is, makes a new one, or has
\* the gate allow or block one call.
LEMMA PipelineSteps ==
  ASSUME [AgentNext]_agentVars
  PROVE  UNCHANGED pipelineVars \/ NewPipeline \/ AllowCall \/ BlockCall
BY DEF AgentNext, LoopStep, agentVars, LLMCalls, LLMEnds, KeepPipeline, CloseGate,
       OpenExecutor, Execute, CloseExecutor, Feedback, StartRun

-----------------------------------------------------------------------------
(***************************************************************************)
(* The log, the completion record and the order of what is allowed         *)
(***************************************************************************)

\* A call that is allowed has its prerequisites among the completed actions.
LEMMA AllowedHasPrerequisites ==
  ASSUME NEW request, NEW enabled, NEW completed, NEW policy,
         FinalDecision(request, enabled, completed, policy) = "allowed"
  PROVE  /\ request.action \in enabled
         /\ StaticEvaluate(request) = "allowed"
         /\ policy # NoPolicy => policy.tool[request.action] \subseteq completed
         /\ DataMatches(request, policy)
<1>1. StoppedAt(request, enabled, completed, policy) = "passed"
  BY DEF FinalDecision, StoppedAt
<1> QED BY <1>1 DEF StoppedAt, MissingActions

\* Appending an entry adds its action to the allowed ones if it is an allowed
\* entry, and changes nothing about the shorter prefixes.
LEMMA AllowedAfterAppend ==
  ASSUME audit_log \in Seq(AuditEntries), NEW entry \in AuditEntries,
         NEW n \in Nat, Len(audit_log) = n,
         audit_log' = Append(audit_log, entry)
  PROVE  /\ Len(audit_log') = n + 1
         /\ audit_log'[n + 1] = entry
         /\ \A i \in 1..n : audit_log'[i] = audit_log[i]
         /\ \A i \in 0..n : AllowedUpTo(i)' = AllowedUpTo(i)
         /\ AllowedUpTo(n + 1)' =
              AllowedUpTo(n)
                \cup (IF entry.final_decision = "allowed" THEN {entry.action} ELSE {})
<1>1. /\ Len(audit_log') = n + 1
      /\ \A i \in 1..n : audit_log'[i] = audit_log[i]
      /\ audit_log'[n + 1] = entry
  OBVIOUS
<1>2. \A i \in 0..n : AllowedUpTo(i)' = AllowedUpTo(i)
  BY <1>1 DEF AllowedUpTo
<1>3. AllowedUpTo(n + 1)' =
        AllowedUpTo(n)
          \cup (IF entry.final_decision = "allowed" THEN {entry.action} ELSE {})
  BY <1>1 DEF AllowedUpTo
<1> QED BY <1>1, <1>2, <1>3

\* Logging the decision on a call keeps the order of the log, as long as what
\* counts as completed was allowed: the gate looks prerequisites up in the
\* completion record and not in the log.
LEMMA LoggedCall ==
  ASSUME GateInv, pc # "idle", CompletedWereAllowed, PrerequisitesAllowedEarlier,
         NEW call \in Calls, audit_log' = Append(audit_log, GateEntry(call)),
         gate_policy' = gate_policy
  PROVE  /\ PrerequisitesAllowedEarlier'
         /\ AllowedUpTo(Len(audit_log))' =
              AllowedUpTo(Len(audit_log))
                \cup (IF Decision(call) = "allowed" THEN {call.action} ELSE {})
<1> DEFINE entry == GateEntry(call)
<1>1. entry \in AuditEntries /\ audit_log \in Seq(AuditEntries)
  BY GateEntryType DEF GateInv, PipelineTypeOK
<1>2. entry.action = call.action /\ entry.final_decision = Decision(call)
  BY DEF GateEntry, AuditEntry, Decision
<1>3. ASSUME entry.final_decision = "allowed", gate_policy # NoPolicy
      PROVE  gate_policy.tool[entry.action] \subseteq task_state.completed
  <2>1. FinalDecision(call, privilege_context.enabled_actions,
                      task_state.completed, gate_policy) = "allowed"
    BY <1>2, <1>3 DEF Decision
  <2>2. gate_policy.tool[call.action] \subseteq task_state.completed
    BY <1>3, <2>1, AllowedHasPrerequisites
  <2> QED BY <1>2, <2>2
<1>4. PICK m \in Nat : m = Len(audit_log)
  BY <1>1
<1>5. audit_log' = Append(audit_log, entry)
  OBVIOUS
<1> HIDE DEF entry
<1>6. /\ Len(audit_log') = m + 1
      /\ audit_log'[m + 1] = entry
      /\ \A i \in 1..m : audit_log'[i] = audit_log[i]
      /\ \A i \in 0..m : AllowedUpTo(i)' = AllowedUpTo(i)
      /\ AllowedUpTo(m + 1)' =
           AllowedUpTo(m)
             \cup (IF entry.final_decision = "allowed" THEN {entry.action} ELSE {})
  BY <1>1, <1>4, <1>5, AllowedAfterAppend
<1>7. ASSUME gate_policy # NoPolicy, NEW i \in 1..Len(audit_log'),
             audit_log'[i].final_decision = "allowed"
      PROVE  gate_policy.tool[audit_log'[i].action] \subseteq AllowedUpTo(i - 1)'
  <2>1. CASE i \in 1..m
    <3>1. audit_log'[i] = audit_log[i] /\ AllowedUpTo(i - 1)' = AllowedUpTo(i - 1)
      BY <1>6, <2>1
    <3>2. gate_policy.tool[audit_log[i].action] \subseteq AllowedUpTo(i - 1)
      BY <1>7, <1>4, <2>1, <3>1 DEF PrerequisitesAllowedEarlier
    <3> QED BY <3>1, <3>2
  <2>2. CASE i = m + 1
    <3>1. audit_log'[i] = entry /\ AllowedUpTo(i - 1)' = AllowedUpTo(m)
      BY <1>6, <2>2
    <3>2. task_state.completed \subseteq AllowedUpTo(m)
      BY <1>4 DEF CompletedWereAllowed
    <3> QED BY <1>3, <1>7, <3>1, <3>2
  <2> QED BY <1>7, <1>6, <2>1, <2>2
<1>8. PrerequisitesAllowedEarlier'
  BY <1>7 DEF PrerequisitesAllowedEarlier
<1> QED BY <1>2, <1>4, <1>6, <1>8

\* The inductive invariant: PrerequisitesAllowedEarlier alone is not inductive,
\* since the gate looks prerequisites up in the completion record and not in
\* the log.
OrderInv ==
  /\ GateInv
  /\ CompletedAreLogged
  /\ PrerequisitesAllowedEarlier

LEMMA EmptyLog == audit_log = <<>> => \A n : AllowedUpTo(Len(audit_log)) = {}
BY DEF AllowedUpTo

LEMMA OrderInit == AgentInit => OrderInv
<1> SUFFICES ASSUME AgentInit PROVE OrderInv
  OBVIOUS
<1>1. audit_log = <<>> /\ task_state.completed = {} /\ gate_policy = NoPolicy
  BY DEF AgentInit, PipelineInit, FreshTaskState
<1> QED BY <1>1, GateInit, EmptyLog
        DEF OrderInv, CompletedAreLogged, PrerequisitesAllowedEarlier

\* What one decided call does to log and completions.
LEMMA DecidedCall ==
  ASSUME GateInv, CompletedWereAllowed, PrerequisitesAllowedEarlier, AllowCall \/ BlockCall
  PROVE  /\ PrerequisitesAllowedEarlier'
         /\ \E new \in SUBSET Actions :
              /\ AllowedUpTo(Len(audit_log))' = AllowedUpTo(Len(audit_log)) \cup new
              /\ task_state'.completed = task_state.completed \cup new
<1> DEFINE call == turn[index]
           new == IF Decision(call) = "allowed" THEN {call.action} ELSE {}
<1>1. call \in Calls /\ pc # "idle"
  BY DEF AllowCall, BlockCall, GateInv
<1>2. audit_log' = Append(audit_log, GateEntry(call)) /\ gate_policy' = gate_policy
  BY DEF AllowCall, BlockCall
<1>3. task_state \in TaskStates /\ call.action \in Actions
  BY <1>1, CallsAssumption DEF GateInv, PipelineTypeOK, Requests
<1>4. task_state'.completed = task_state.completed \cup new
  BY <1>3 DEF AllowCall, BlockCall, Recorded, TaskStates
<1> HIDE DEF call
<1>5. /\ PrerequisitesAllowedEarlier'
      /\ AllowedUpTo(Len(audit_log))' = AllowedUpTo(Len(audit_log)) \cup new
  BY <1>1, <1>2, LoggedCall
<1> QED BY <1>3, <1>4, <1>5

LEMMA OrderStep == OrderInv /\ [AgentNext]_agentVars => OrderInv'
<1> SUFFICES ASSUME OrderInv, [AgentNext]_agentVars
             PROVE  CompletedAreLogged' /\ PrerequisitesAllowedEarlier'
  BY GateStep DEF OrderInv
<1>1. CASE UNCHANGED pipelineVars
  BY <1>1 DEF OrderInv, CompletedAreLogged, PrerequisitesAllowedEarlier, AllowedUpTo,
              pipelineVars
<1>2. CASE NewPipeline
  <2>1. audit_log' = <<>> /\ task_state'.completed = {}
    BY <1>2 DEF NewPipeline, Initialized, FreshTaskState
  <2> QED BY <2>1 DEF CompletedAreLogged, PrerequisitesAllowedEarlier, AllowedUpTo
<1>3. ASSUME AllowCall \/ BlockCall
      PROVE  CompletedAreLogged' /\ PrerequisitesAllowedEarlier'
  <2>1. CompletedWereAllowed
    BY DEF OrderInv, CompletedAreLogged, CompletedWereAllowed
  <2>2. /\ PrerequisitesAllowedEarlier'
        /\ \E new \in SUBSET Actions :
             /\ AllowedUpTo(Len(audit_log))' = AllowedUpTo(Len(audit_log)) \cup new
             /\ task_state'.completed = task_state.completed \cup new
    BY <1>3, <2>1, DecidedCall DEF OrderInv
  <2> QED BY <2>2 DEF OrderInv, CompletedAreLogged
<1> QED BY <1>1, <1>2, <1>3, PipelineSteps

\* An action counts as completed exactly when the log of the gate's pipeline
\* has allowed it, whatever runs share the pipeline.
THEOREM CompletionIsLogged == AgentSafety => []CompletedAreLogged
<1>1. OrderInv => CompletedAreLogged
  BY DEF OrderInv
<1> QED BY <1>1, OrderInit, OrderStep, PTL DEF AgentSafety

\* Nothing is ever allowed ahead of its prerequisites.
THEOREM PrerequisitesFirst == AgentSafety => []PrerequisitesAllowedEarlier
<1>1. OrderInv => PrerequisitesAllowedEarlier
  BY DEF OrderInv
<1> QED BY <1>1, OrderInit, OrderStep, PTL DEF AgentSafety

\* Of the actions of a circle, the one the log allows first has none of the others
\* before it.
LEMMA OrderShutsCircles ==
  ASSUME GateInv, PrerequisitesAllowedEarlier
  PROVE  CirclesStayShut
<1> SUFFICES ASSUME gate_policy # NoPolicy,
                    NEW circle \in (SUBSET AllowedUpTo(Len(audit_log))) \ {{}}
             PROVE  \E a \in circle : gate_policy.tool[a] \cap circle = {}
  BY DEF CirclesStayShut
<1> DEFINE allowedIn(i) == audit_log[i].final_decision = "allowed" /\ audit_log[i].action \in circle
           places == {i \in 1..Len(audit_log) : allowedIn(i)}
<1>1. Len(audit_log) \in Nat
  BY DEF GateInv, PipelineTypeOK
<1>2. places \subseteq Nat /\ places # {}
  <2>1. PICK a \in circle : a \in AllowedUpTo(Len(audit_log))
    OBVIOUS
  <2>2. PICK i \in 1..Len(audit_log) : audit_log[i].final_decision = "allowed" /\ a = audit_log[i].action
    BY <2>1 DEF AllowedUpTo
  <2> QED BY <1>1, <2>1, <2>2
<1>3. PICK first \in places : \A i \in places : first <= i
  BY <1>2, LeastNat
<1>4. /\ first \in 1..Len(audit_log) /\ audit_log[first].final_decision = "allowed"
      /\ audit_log[first].action \in circle
  OBVIOUS
<1>5. gate_policy.tool[audit_log[first].action] \subseteq AllowedUpTo(first - 1)
  BY <1>4 DEF PrerequisitesAllowedEarlier
<1>6. ASSUME NEW a \in AllowedUpTo(first - 1) \cap circle
      PROVE  FALSE
  <2>1. PICK i \in 1..(first - 1) : audit_log[i].final_decision = "allowed" /\ a = audit_log[i].action
    BY DEF AllowedUpTo
  <2>2. i \in places /\ i < first
    BY <1>1, <1>4, <2>1
  <2> QED BY <1>2, <1>3, <2>2
<1> QED BY <1>4, <1>5, <1>6

\* No action of a circle of prerequisites is ever allowed, whatever the policies
\* look like.
THEOREM CirclesShut == AgentSafety => []CirclesStayShut
<1>1. OrderInv => CirclesStayShut
  BY OrderShutsCircles DEF OrderInv
<1> QED BY <1>1, OrderInit, OrderStep, PTL DEF AgentSafety

-----------------------------------------------------------------------------
(***************************************************************************)
(* Every query is gated under its own task                                 *)
(***************************************************************************)

\* The inductive invariant: the pipeline the gate holds belongs to
\* current_task, and while calls are decided current_task is the query.
OwnTaskInv ==
  /\ GateInv
  /\ has_pipeline =>
       /\ privilege_context # NoContext /\ privilege_context.task = current_task
       /\ task_state.task = current_task
       /\ \A i \in 1..Len(audit_log) : audit_log[i].user_request = current_task
  /\ pc = "gating" => has_pipeline /\ current_task = query

LEMMA OwnTaskInit == AgentInit => OwnTaskInv
BY GateInit DEF AgentInit, OwnTaskInv

LEMMA OwnTaskStep == OwnTaskInv /\ [AgentNext]_agentVars => OwnTaskInv'
<1> SUFFICES ASSUME OwnTaskInv, [AgentNext]_agentVars
             PROVE  OwnTaskInv'
  OBVIOUS
<1>1. GateInv'
  BY GateStep DEF OwnTaskInv
<1>2. ASSUME UNCHANGED pipelineVars, UNCHANGED gateVars,
             pc' = "gating" => current_task = query /\ query' = query /\ has_pipeline
      PROVE  OwnTaskInv'
  BY <1>1, <1>2 DEF OwnTaskInv, pipelineVars, gateVars
<1>3. CASE NewPipeline
  <2>1. query \in Tasks /\ Initialized(query, NoPolicy) /\ audit_log' = <<>>
    BY <1>3 DEF NewPipeline, OwnTaskInv, GateInv
  <2>2. privilege_context' # NoContext
    BY <2>1, InitializedType, NoContextAssumption
  <2>3. privilege_context'.task = query /\ task_state'.task = query
    BY <2>1 DEF Initialized, Context, FreshTaskState
  <2> QED BY <1>1, <1>3, <2>1, <2>2, <2>3 DEF NewPipeline, BeginPass, OwnTaskInv
<1>4. ASSUME AllowCall \/ BlockCall
      PROVE  OwnTaskInv'
  <2> DEFINE entry == GateEntry(turn[index])
  <2>1. /\ audit_log' = Append(audit_log, entry)
        /\ privilege_context' = privilege_context
        /\ pc = "gating" /\ UNCHANGED <<pc, query, has_pipeline, current_task>>
    BY <1>4 DEF AllowCall, BlockCall, gateVars
  <2>2. entry.user_request = query
    BY DEF GateEntry, AuditEntry
  <2>3. task_state'.task = task_state.task
    <3>1. task_state \in TaskStates
      BY DEF OwnTaskInv, GateInv, PipelineTypeOK
    <3> QED BY <1>4, <3>1 DEF AllowCall, BlockCall, Recorded, TaskStates
  <2>4. audit_log \in Seq(AuditEntries)
    BY DEF OwnTaskInv, GateInv, PipelineTypeOK
  <2> HIDE DEF entry
  <2>5. \A i \in 1..Len(audit_log') : audit_log'[i] = entry \/
          (i \in 1..Len(audit_log) /\ audit_log'[i] = audit_log[i])
    BY <2>1, <2>4
  <2> QED BY <1>1, <2>1, <2>2, <2>3, <2>5 DEF OwnTaskInv
<1>5. UNCHANGED pipelineVars /\ ~ NewPipeline =>
        /\ UNCHANGED gateVars
        /\ pc' = "gating" => current_task = query /\ query' = query /\ has_pipeline
  BY DEF AgentNext, LoopStep, agentVars, loopVars, gateVars, OwnTaskInv, LLMCalls, LLMEnds,
         KeepPipeline, BeginPass, AllowCall, BlockCall, CloseGate, OpenExecutor, Execute,
         CloseExecutor, Feedback, StartRun
<1> QED BY <1>2, <1>3, <1>4, <1>5, PipelineSteps

\* No query is decided under the scope or the completions of another one.
THEOREM QueriesGatedUnderOwnTask == AgentSafety => []GatedUnderOwnTask
<1>1. OwnTaskInv => GatedUnderOwnTask
  BY DEF OwnTaskInv, GatedUnderOwnTask
<1> QED BY <1>1, OwnTaskInit, OwnTaskStep, PTL DEF AgentSafety

-----------------------------------------------------------------------------
(***************************************************************************)
(* The gate implements the task monitor                                    *)
(***************************************************************************)

\* The refinement mapping of ImplementsMonitor.
AbstractScope ==
  IF privilege_context = NoContext THEN {} ELSE privilege_context.enabled_actions
AbstractBefore ==
  [a \in Actions |-> IF gate_policy = NoPolicy THEN {} ELSE gate_policy.tool[a]]

\* Making a pipeline is a NewTask step: its policy stays within its scope.
LEMMA InitializedIsNewTask ==
  ASSUME query \in Tasks, Initialized(query, NoPolicy)
  PROVE  Monitor!NewTask
<1>1. /\ privilege_context' \in Contexts
      /\ gate_policy' \in {NoPolicy} \cup Policies
      /\ task_state'.completed = {}
  BY InitializedType DEF Initialized, FreshTaskState
<1>2. privilege_context' # NoContext
  BY <1>1, NoContextAssumption
<1>3. AbstractScope' = privilege_context'.enabled_actions /\ AbstractScope' \in SUBSET Actions
  BY <1>1, <1>2 DEF AbstractScope, Contexts
<1>4. PolicyWithinPrivileges'
  BY InitializedWithin DEF WithinInv
<1>5. \A a \in Actions : /\ AbstractBefore'[a] \subseteq AbstractScope'
                         /\ a \notin AbstractBefore'[a]
  BY <1>2, <1>3, <1>4 DEF PolicyWithinPrivileges, AbstractBefore
<1>6. AbstractBefore' \in [Actions -> SUBSET AbstractScope']
  BY <1>5 DEF AbstractBefore
<1> QED
  BY <1>1, <1>3, <1>5, <1>6 DEF Monitor!NewTask, AbstractScope, AbstractBefore

\* Allowing a call is a Release step, blocking one leaves the monitor alone.
LEMMA AllowCallIsRelease ==
  ASSUME GateInv, AllowCall
  PROVE  \E a \in Actions : Monitor!Release(a)
<1> DEFINE call == turn[index]
<1>1. call \in Calls /\ call.action \in Actions
  BY CallsAssumption DEF AllowCall, GateInv, Requests
<1>2. privilege_context # NoContext
  BY DEF AllowCall, GateInv
<1>3. FinalDecision(call, privilege_context.enabled_actions,
                    task_state.completed, gate_policy) = "allowed"
  BY DEF AllowCall, Decision
<1>4. task_state \in TaskStates
  BY DEF GateInv, PipelineTypeOK
<1>5. /\ task_state'.completed = task_state.completed \cup {call.action}
      /\ privilege_context' = privilege_context
      /\ gate_policy' = gate_policy
  BY <1>4 DEF AllowCall, Recorded, TaskStates
<1> HIDE DEF call
<1>6. /\ call.action \in privilege_context.enabled_actions
      /\ gate_policy # NoPolicy => gate_policy.tool[call.action] \subseteq task_state.completed
  BY <1>3, AllowedHasPrerequisites
<1>7. Monitor!Release(call.action)
  BY <1>1, <1>2, <1>5, <1>6 DEF Monitor!Release
<1> QED BY <1>1, <1>7

LEMMA MonitorStep == GateInv /\ [AgentNext]_agentVars => [Monitor!Next]_(Monitor!vars)
<1> SUFFICES ASSUME GateInv, [AgentNext]_agentVars
             PROVE  Monitor!Next \/ UNCHANGED Monitor!vars
  OBVIOUS
<1>1. CASE UNCHANGED pipelineVars
  BY <1>1 DEF pipelineVars, Monitor!vars
<1>2. CASE NewPipeline
  BY <1>2, InitializedIsNewTask DEF Monitor!Next, NewPipeline, GateInv
<1>3. CASE AllowCall
  BY <1>3, AllowCallIsRelease DEF Monitor!Next
<1>4. CASE BlockCall
  BY <1>4 DEF BlockCall, Monitor!vars
<1> QED BY <1>1, <1>2, <1>3, <1>4, PipelineSteps

\* The gate, over all runs and tasks, implements the task monitor: an action is
\* released only inside the scope of the current task and after everything the
\* policy orders before it.
THEOREM GateImplementsMonitor == AgentSafety => ImplementsMonitor
<1>1. AgentInit => Monitor!Init
  BY DEF AgentInit, PipelineInit, FreshTaskState, Monitor!Init
<1> QED
  BY <1>1, GateInit, GateStep, MonitorStep, PTL DEF AgentSafety, ImplementsMonitor, Monitor!Spec
=============================================================================
