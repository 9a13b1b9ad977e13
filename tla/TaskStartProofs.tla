--------------------------- MODULE TaskStartProofs ---------------------------
(***************************************************************************)
(* initialize_task(), call by call, implements the one step of Pipeline.   *)
(***************************************************************************)
EXTENDS TaskStart, PipelineProofs

-----------------------------------------------------------------------------
(***************************************************************************)
(* The operators of Pipeline seen through the refinement mapping           *)
(***************************************************************************)

LEMMA SameScopes == \A task : Abstract!ScopesFor(task) = ScopesFor(task)
BY DEF ScopesFor, ScopePrivilegesDecomposed, ScopePrivileges, Decompose,
       Abstract!ScopesFor, Abstract!ScopePrivilegesDecomposed, Abstract!ScopePrivileges,
       Abstract!Decompose

LEMMA SameGenerate == \A reply, enabled : Abstract!Generate(reply, enabled) = Generate(reply, enabled)
BY DEF Generate, EmptyPolicy, ValidOptions, ValidArgs, DataFormat, MatchesDataFormat, NoArgs, Absent,
       Abstract!Generate, Abstract!EmptyPolicy, Abstract!ValidOptions, Abstract!ValidArgs,
       Abstract!DataFormat, Abstract!MatchesDataFormat, Abstract!NoArgs, Abstract!Absent

LEMMA SamePolicies == \A enabled, old : Abstract!PoliciesFor(enabled, old) = PoliciesFor(enabled, old)
BY SameGenerate DEF PoliciesFor, Abstract!PoliciesFor

LEMMA SameStaticEvaluate == \A request : Abstract!StaticEvaluate(request) = StaticEvaluate(request)
BY DEF StaticEvaluate, FormatFailures, DataFormat, MatchesDataFormat, ResolveArgValue, Aliases,
       NoValue, Absent, Verdict, Min,
       Abstract!StaticEvaluate, Abstract!FormatFailures, Abstract!DataFormat,
       Abstract!MatchesDataFormat, Abstract!ResolveArgValue, Abstract!Aliases,
       Abstract!NoValue, Abstract!Absent, Abstract!Verdict, Abstract!Min

LEMMA SameDataMatches ==
  \A request, policy : Abstract!DataMatches(request, policy) = DataMatches(request, policy)
BY DEF DataMatches, OptionMatches, ValuesMatch, ResolveArgValue, Aliases, NoValue, Absent, Min,
       Abstract!DataMatches, Abstract!OptionMatches, Abstract!ValuesMatch,
       Abstract!ResolveArgValue, Abstract!Aliases, Abstract!NoValue, Abstract!Absent, Abstract!Min

LEMMA SameAuditEntry ==
  \A request, task, enabled, completed, policy :
    Abstract!AuditEntry(request, task, enabled, completed, policy)
      = AuditEntry(request, task, enabled, completed, policy)
BY SameStaticEvaluate, SameDataMatches
   DEF AuditEntry, FinalDecision, StoppedAt, MissingActions,
       Abstract!AuditEntry, Abstract!FinalDecision, Abstract!StoppedAt, Abstract!MissingActions

-----------------------------------------------------------------------------
(***************************************************************************)
(* What initialize_task() has done at each of its steps                    *)
(***************************************************************************)

\* The sub-tasks to scope are those of some answer of the decomposer, the union
\* collected so far is that of some answers to the calls made, and every field
\* not yet assigned is still the one that was saved.
StartInv ==
  /\ step \in {"ready", "decompose", "scope", "generate", "install"}
  /\ step # "ready" =>
       /\ task_state.task \in Tasks /\ task_state = FreshTaskState(task_state.task)
       /\ gate_policy = saved.gate
  /\ step = "decompose" => HasDecomposer
  /\ step \in {"decompose", "scope"} => privilege_context = saved.context
  /\ step \in {"decompose", "scope", "generate"} => dynamic_policy = saved.dynamic
  /\ step = "decompose" => granted = {} /\ done = {}
  /\ step = "scope" =>
       /\ IF HasDecomposer
          THEN \E reply \in DecomposerReplies :
                 planned = Decompose(reply, task_state.task, BlankText)
          ELSE planned = <<task_state.task>>
       /\ done \subseteq DOMAIN planned
       /\ \E replies \in [done -> ScopeReplies] : granted = ScopePrivilegesDecomposed(replies)
  /\ step = "generate" => HasGenerator
  /\ step \in {"generate", "install"} =>
       \E enabled \in ScopesFor(task_state.task) :
          /\ privilege_context = Context(task_state.task, enabled)
          /\ step = "install" => dynamic_policy \in PoliciesFor(enabled, saved.dynamic)

\* One more scoping call extends the union by its scope.
LEMMA OneMoreScope ==
  ASSUME NEW replies \in [done -> ScopeReplies], NEW i, i \notin done, NEW reply \in ScopeReplies
  PROVE  \E more \in [done \cup {i} -> ScopeReplies] :
            ScopePrivilegesDecomposed(more)
              = ScopePrivilegesDecomposed(replies) \cup ScopePrivileges(reply)
<1> DEFINE more == [j \in done \cup {i} |-> IF j = i THEN reply ELSE replies[j]]
<1>1. more \in [done \cup {i} -> ScopeReplies]
  OBVIOUS
<1>2. \A j \in done : more[j] = replies[j]
  OBVIOUS
<1>3. more[i] = reply
  OBVIOUS
<1> HIDE DEF more
<1>4. ScopePrivilegesDecomposed(more)
        = ScopePrivilegesDecomposed(replies) \cup ScopePrivileges(reply)
  BY <1>1, <1>2, <1>3 DEF ScopePrivilegesDecomposed
<1> QED BY <1>1, <1>4

\* Once every sub-task is scoped, the union is a scope Pipeline allows for.
LEMMA AllScoped ==
  ASSUME StartInv, step = "scope", done = DOMAIN planned
  PROVE  granted \in ScopesFor(task_state.task)
<1>1. PICK replies \in [DOMAIN planned -> ScopeReplies] :
        granted = ScopePrivilegesDecomposed(replies)
  BY DEF StartInv
<1>2. CASE HasDecomposer
  <2>1. PICK reply \in DecomposerReplies : planned = Decompose(reply, task_state.task, BlankText)
    BY <1>2 DEF StartInv
  <2> QED BY <1>1, <1>2, <2>1 DEF ScopesFor
<1>3. CASE ~ HasDecomposer
  <2>1. DOMAIN planned = {1}
    BY <1>3 DEF StartInv
  <2>2. granted = ScopePrivileges(replies[1]) /\ replies[1] \in ScopeReplies
    BY <1>1, <2>1 DEF ScopePrivilegesDecomposed
  <2> QED BY <1>3, <2>2 DEF ScopesFor
<1> QED BY <1>2, <1>3

LEMMA StartInvInit == StartInit => StartInv
BY DEF StartInit, StartInv

LEMMA StartInvStep == StartInv /\ [StartNext]_taskVars => StartInv'
<1> SUFFICES ASSUME StartInv, [StartNext]_taskVars
             PROVE  StartInv'
  OBVIOUS
<1>1. ASSUME NEW task \in Tasks, Begin(task)
      PROVE  StartInv'
  <2>1. task_state' = FreshTaskState(task) /\ task_state'.task = task
    BY <1>1 DEF Begin, FreshTaskState
  <2>2. /\ privilege_context' = saved'.context
        /\ dynamic_policy' = saved'.dynamic /\ gate_policy' = saved'.gate
        /\ done' = {} /\ granted' = {}
    BY <1>1 DEF Begin, Saved
  <2>3. step' = "scope" => ~ HasDecomposer /\ planned' = <<task>>
    BY <1>1 DEF Begin
  <2>4. step' \in {"decompose", "scope"} /\ (step' = "decompose" => HasDecomposer)
    BY <1>1 DEF Begin
  <2>5. \E replies \in [{} -> ScopeReplies] : {} = ScopePrivilegesDecomposed(replies)
    <3>1. [j \in {} |-> {}] \in [{} -> ScopeReplies]
      OBVIOUS
    <3> QED BY <3>1 DEF ScopePrivilegesDecomposed
  <2> QED BY <2>1, <2>2, <2>3, <2>4, <2>5 DEF StartInv
<1>2. CASE DecomposeTask
  <2>1. \E reply \in DecomposerReplies : planned' = Decompose(reply, task_state.task, BlankText)
    BY <1>2 DEF DecomposeTask
  <2>2. \E replies \in [{} -> ScopeReplies] : {} = ScopePrivilegesDecomposed(replies)
    <3>1. [j \in {} |-> {}] \in [{} -> ScopeReplies]
      OBVIOUS
    <3> QED BY <3>1 DEF ScopePrivilegesDecomposed
  <2> QED BY <1>2, <2>1, <2>2 DEF DecomposeTask, StartInv, pipelineVars
<1>3. CASE ScopeSubTask
  <2>1. PICK i \in DOMAIN planned, reply \in ScopeReplies :
          /\ i \notin done
          /\ granted' = granted \cup ScopePrivileges(reply)
          /\ done' = done \cup {i}
    BY <1>3 DEF ScopeSubTask, IsNext
  <2>2. PICK replies \in [done -> ScopeReplies] : granted = ScopePrivilegesDecomposed(replies)
    BY <1>3 DEF ScopeSubTask, StartInv
  <2>3. \E more \in [done' -> ScopeReplies] : granted' = ScopePrivilegesDecomposed(more)
    <3>1. PICK more \in [done \cup {i} -> ScopeReplies] :
            ScopePrivilegesDecomposed(more)
              = ScopePrivilegesDecomposed(replies) \cup ScopePrivileges(reply)
      BY <2>1, OneMoreScope
    <3>2. more \in [done' -> ScopeReplies] /\ granted' = ScopePrivilegesDecomposed(more)
      BY <2>1, <2>2, <3>1
    <3> QED BY <3>2
  <2> QED BY <1>3, <2>1, <2>3 DEF ScopeSubTask, StartInv, pipelineVars
<1>4. CASE AssignScope
  <2>1. granted \in ScopesFor(task_state.task)
    BY <1>4, AllScoped DEF AssignScope
  <2>2. ~ HasGenerator => dynamic_policy \in PoliciesFor(granted, saved.dynamic)
    BY <1>4 DEF AssignScope, StartInv, PoliciesFor
  <2> QED BY <1>4, <2>1, <2>2 DEF AssignScope, StartInv
<1>5. CASE GeneratePolicy
  <2>1. PICK enabled \in ScopesFor(task_state.task) :
          privilege_context = Context(task_state.task, enabled)
    BY <1>5 DEF GeneratePolicy, StartInv
  <2>2. dynamic_policy' \in PoliciesFor(enabled, saved.dynamic)
    BY <1>5, <2>1 DEF GeneratePolicy, StartInv, PoliciesFor, Context
  <2> QED BY <1>5, <2>1, <2>2 DEF GeneratePolicy, StartInv
<1>6. ASSUME step' = "ready"
      PROVE  StartInv'
  BY <1>6 DEF StartInv
<1>7. CASE UNCHANGED taskVars
  BY <1>7 DEF StartInv, taskVars, pipelineVars, startVars
<1> QED
  BY <1>1, <1>2, <1>3, <1>4, <1>5, <1>6, <1>7
     DEF StartNext, StartStep, InstallPolicy, StartInterrupted, startVars

-----------------------------------------------------------------------------
(***************************************************************************)
(* The refinement                                                          *)
(***************************************************************************)

\* Before the last assignment nothing shows.
LEMMA HiddenStep ==
  ASSUME StartInv, step # "ready", step' # "ready", UNCHANGED <<saved, audit_log>>
  PROVE  UNCHANGED Abstract!pipelineVars
BY DEF Shown, Abstract!pipelineVars

LEMMA BeginHidden ==
  ASSUME NEW task \in Tasks, Begin(task)
  PROVE  UNCHANGED Abstract!pipelineVars
BY DEF Begin, Saved, Shown, Abstract!pipelineVars

LEMMA InstallIsInitialize ==
  ASSUME StartInv, InstallPolicy
  PROVE  Abstract!InitializeTask(task_state.task)
<1>1. PICK enabled \in ScopesFor(task_state.task) :
        /\ privilege_context = Context(task_state.task, enabled)
        /\ dynamic_policy \in PoliciesFor(enabled, saved.dynamic)
  BY DEF StartInv, InstallPolicy
<1>2. /\ step = "install" /\ step' = "ready"
      /\ gate_policy' = dynamic_policy
      /\ UNCHANGED <<privilege_context, task_state, dynamic_policy, audit_log>>
      /\ task_state = FreshTaskState(task_state.task)
  BY DEF InstallPolicy, StartInv
<1> QED
  BY <1>1, <1>2, SameScopes, SamePolicies
     DEF Abstract!InitializeTask, Abstract!Initialized, Abstract!Context, Context,
         Abstract!FreshTaskState, FreshTaskState, Shown

\* An interrupt shows what was assigned: the task state alone, or the scope as
\* well, and after the generation the policy.
LEMMA InterruptIsInterrupted ==
  ASSUME StartInv, StartInterrupted
  PROVE  \E task \in Tasks :
            Abstract!ScopingInterrupted(task) \/ Abstract!PolicyInterrupted(task)
<1>1. /\ Interruptible /\ step # "ready" /\ step' = "ready" /\ UNCHANGED pipelineVars
      /\ task_state.task \in Tasks /\ task_state = FreshTaskState(task_state.task)
      /\ gate_policy = saved.gate
  BY DEF StartInterrupted, StartInv
<1>2. CASE step \in {"decompose", "scope"}
  <2>1. privilege_context = saved.context /\ dynamic_policy = saved.dynamic
    BY <1>2 DEF StartInv
  <2>2. Abstract!ScopingInterrupted(task_state.task)
    BY <1>1, <1>2, <2>1
       DEF Abstract!ScopingInterrupted, Abstract!FreshTaskState, FreshTaskState, Shown, pipelineVars
  <2> QED BY <1>1, <2>2
<1>3. CASE step \in {"generate", "install"}
  <2>1. PICK enabled \in ScopesFor(task_state.task) :
          /\ privilege_context = Context(task_state.task, enabled)
          /\ step = "install" => dynamic_policy \in PoliciesFor(enabled, saved.dynamic)
    BY <1>3 DEF StartInv
  <2>2. dynamic_policy \in {saved.dynamic} \cup PoliciesFor(enabled, saved.dynamic)
    BY <1>3, <2>1 DEF StartInv
  <2>3. Abstract!PolicyInterrupted(task_state.task)
    BY <1>1, <1>3, <2>1, <2>2, SameScopes, SamePolicies
       DEF Abstract!PolicyInterrupted, Abstract!FreshTaskState, FreshTaskState,
           Abstract!Context, Context, Shown, pipelineVars
  <2> QED BY <1>1, <2>3
<1> QED BY <1>1, <1>2, <1>3 DEF StartInv

LEMMA ReadyStep ==
  ASSUME step = "ready", UNCHANGED startVars
  PROVE  /\ \A request \in Calls : ProcessAction(request) => Abstract!ProcessAction(request)
         /\ \A action \in Actions : RecordActionResult(action) => Abstract!RecordActionResult(action)
<1>1. step' = "ready"
  BY DEF startVars
<1>2. \A field, current : Shown(field, current) = current
  BY DEF Shown
<1>3. ASSUME NEW request \in Calls, ProcessAction(request)
      PROVE  Abstract!ProcessAction(request)
  BY <1>1, <1>3, SameAuditEntry
     DEF ProcessAction, Abstract!ProcessAction, EntryFor, Abstract!EntryFor, Shown
<1>4. ASSUME NEW action \in Actions, RecordActionResult(action)
      PROVE  Abstract!RecordActionResult(action)
  BY <1>1, <1>4
     DEF RecordActionResult, Abstract!RecordActionResult, Recorded, Abstract!Recorded, Shown
<1> QED BY <1>3, <1>4

LEMMA RefinementStep ==
  StartInv /\ [StartNext]_taskVars => [Abstract!PipelineNext]_(Abstract!pipelineVars)
<1> SUFFICES ASSUME StartInv, [StartNext]_taskVars
             PROVE  Abstract!PipelineNext \/ UNCHANGED Abstract!pipelineVars
  OBVIOUS
<1>1. ASSUME NEW task \in Tasks, Begin(task)
      PROVE  UNCHANGED Abstract!pipelineVars
  BY <1>1, BeginHidden
<1>2. CASE DecomposeTask \/ ScopeSubTask \/ AssignScope \/ GeneratePolicy
  <2>1. step # "ready" /\ step' # "ready" /\ UNCHANGED <<saved, audit_log>>
    BY <1>2 DEF DecomposeTask, ScopeSubTask, AssignScope, GeneratePolicy, pipelineVars
  <2> QED BY <2>1, HiddenStep
<1>3. CASE InstallPolicy
  <2>1. task_state.task \in Tasks
    BY <1>3 DEF InstallPolicy, StartInv
  <2> QED BY <1>3, <2>1, InstallIsInitialize DEF Abstract!PipelineNext
<1>4. CASE StartInterrupted
  BY <1>4, InterruptIsInterrupted DEF Abstract!PipelineNext
<1>5. CASE /\ step = "ready" /\ UNCHANGED startVars
           /\ \/ \E request \in Calls : ProcessAction(request)
              \/ \E action \in Actions : RecordActionResult(action)
  BY <1>5, ReadyStep DEF Abstract!PipelineNext
<1>6. CASE UNCHANGED taskVars
  BY <1>6 DEF taskVars, pipelineVars, startVars, Shown, Abstract!pipelineVars
<1> QED BY <1>1, <1>2, <1>3, <1>4, <1>5, <1>6 DEF StartNext, StartStep

\* Everything proved of Pipeline holds of the call by call initialization,
\* whenever initialize_task() is not running.
THEOREM StartImplementsPipeline == StartSafety => ImplementsPipeline
<1>1. StartInit => Abstract!PipelineInit
  BY DEF StartInit, PipelineInit, Abstract!PipelineInit, Abstract!FreshTaskState, FreshTaskState,
         Shown
<1> QED
  BY <1>1, StartInvInit, StartInvStep, RefinementStep, PTL
     DEF StartSafety, ImplementsPipeline, Abstract!PipelineSpec

-----------------------------------------------------------------------------
(***************************************************************************)
(* The fields between the calls                                            *)
(***************************************************************************)

\* Assignment by assignment, and wherever an interrupt falls, a scope is installed
\* only over a task state of its task without completions.
THEOREM StartsAreClean == StartSafety => ScopeStartsClean
<1>1. StartInv /\ [StartNext]_taskVars =>
        [privilege_context' # privilege_context =>
           task_state' = FreshTaskState(privilege_context'.task)]_pipelineVars
  <2> SUFFICES ASSUME StartInv, StartNext, privilege_context' # privilege_context
               PROVE  task_state' = FreshTaskState(privilege_context'.task)
    BY DEF taskVars, pipelineVars
  <2>1. AssignScope
    BY DEF StartNext, StartStep, Begin, DecomposeTask, ScopeSubTask, GeneratePolicy,
           InstallPolicy, StartInterrupted, ProcessAction, RecordActionResult, pipelineVars
  <2> QED BY <2>1 DEF AssignScope, StartInv, Context, FreshTaskState
<1> QED BY <1>1, StartInvInit, StartInvStep, PTL DEF StartSafety, ScopeStartsClean

\* Without interrupts the gate chain has the policy the pipeline reports, but for
\* the moment between the two assignments.
ReportInv == step # "install" => dynamic_policy = gate_policy

\* An interrupt aside, whatever process_action() allows has the prerequisites
\* behind it that its answer declares.
THEOREM DeclaredAreEnforced ==
  ASSUME ~ Interruptible
  PROVE  StartSafety => []DeclaredPrerequisitesEnforced
<1>1. StartInit => ReportInv
  BY DEF StartInit, PipelineInit, ReportInv
<1>2. StartInv /\ ReportInv /\ [StartNext]_taskVars => ReportInv'
  BY DEF StartInv, ReportInv, StartNext, StartStep, Begin, DecomposeTask, ScopeSubTask, AssignScope,
         GeneratePolicy, InstallPolicy, StartInterrupted, ProcessAction, RecordActionResult,
         taskVars, startVars, pipelineVars
<1>3. ReportInv => DeclaredPrerequisitesEnforced
  BY DEF ReportInv, DeclaredPrerequisitesEnforced, Decision, FinalDecision, StoppedAt, MissingActions
<1> QED BY <1>1, <1>2, <1>3, StartInvInit, StartInvStep, PTL DEF StartSafety
==============================================================================
