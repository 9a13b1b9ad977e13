--------------------------- MODULE PipelineProofs ---------------------------
(***************************************************************************)
(* Theorems about the pipeline, for every pool, rule table, set of replies *)
(* and set of requests.                                                    *)
(***************************************************************************)
EXTENDS Pipeline, TLAPS

-----------------------------------------------------------------------------
(***************************************************************************)
(* What the two planning steps return                                      *)
(***************************************************************************)

\* A scope, decomposed or not, is a set of names of the action pool.
LEMMA ScopesInPool ==
  \A task : \A enabled \in ScopesFor(task) : enabled \subseteq Pool
<1>1. \A r : ScopePrivileges(r) \subseteq Pool
  BY DEF ScopePrivileges
<1>2. \A replies : ScopePrivilegesDecomposed(replies) \subseteq Pool
  BY <1>1 DEF ScopePrivilegesDecomposed
<1> QED BY <1>1, <1>2 DEF ScopesFor

LEMMA ScopesType ==
  \A task : \A enabled \in ScopesFor(task) : enabled \in SUBSET Actions
BY ScopesInPool, PoolAssumption

\* The filtered profile is a profile.
LEMMA ValidArgsType ==
  ASSUME NEW action, NEW option \in ArgMaps
  PROVE  ValidArgs(action, option) \in ArgMaps
BY DEF ValidArgs, ArgMaps

LEMMA ValidOptionsType ==
  ASSUME NEW action, NEW options \in SUBSET ArgMaps
  PROVE  ValidOptions(action, options) \in SUBSET ArgMaps
BY ValidArgsType DEF ValidOptions

LEMMA EmptyPolicyType == EmptyPolicy \in Policies
BY DEF EmptyPolicy, Policies

\* The prerequisites generate() keeps for an action are enabled actions other
\* than itself, and only enabled actions are spoken of.
LEMMA GenerateWithin ==
  ASSUME NEW reply, NEW enabled, NEW a \in Actions
  PROVE  /\ Generate(reply, enabled).tool[a] \subseteq enabled \ {a}
         /\ \/ Generate(reply, enabled).tool[a] # {}
            \/ Generate(reply, enabled).data[a] # {}
            => a \in enabled
BY DEF Generate, EmptyPolicy

LEMMA GenerateType ==
  ASSUME NEW reply \in PlanReplies, NEW enabled \in SUBSET Actions
  PROVE  Generate(reply, enabled) \in Policies
<1>1. CASE Generate(reply, enabled) = EmptyPolicy
  BY <1>1, EmptyPolicyType
<1>2. CASE Generate(reply, enabled) # EmptyPolicy
  <2> DEFINE tool == [a \in Actions |-> IF a \in Pool \cap enabled
                        THEN (reply.tool[a] \cap (Pool \cap enabled)) \ {a} ELSE {}]
             data == [a \in Actions |-> IF a \in Pool \cap enabled
                        THEN ValidOptions(a, reply.data[a]) ELSE {}]
  <2>1. reply # NoReply /\ Generate(reply, enabled) = [tool |-> tool, data |-> data]
    BY <1>2 DEF Generate
  <2>2. reply \in PolicyReplies
    BY <2>1, RepliesAssumption
  <2>3. tool \in [Actions -> SUBSET Actions]
    OBVIOUS
  <2>4. data \in [Actions -> SUBSET ArgMaps]
    BY <2>2, ValidOptionsType DEF PolicyReplies
  <2> HIDE DEF tool, data
  <2> QED BY <2>1, <2>3, <2>4 DEF Policies
<1> QED BY <1>1, <1>2

LEMMA PoliciesForType ==
  ASSUME NEW enabled \in SUBSET Actions, NEW old \in {NoPolicy} \cup Policies
  PROVE  PoliciesFor(enabled, old) \subseteq {NoPolicy} \cup Policies
BY GenerateType DEF PoliciesFor

-----------------------------------------------------------------------------
(***************************************************************************)
(* Type correctness                                                        *)
(***************************************************************************)

LEMMA StaticEvaluateType ==
  \A request : StaticEvaluate(request) \in Decisions
BY RulesAssumption DEF StaticEvaluate, Verdict, Decisions

LEMMA FinalDecisionType ==
  \A request, enabled, completed, policy :
    FinalDecision(request, enabled, completed, policy) \in Decisions
BY StaticEvaluateType DEF FinalDecision, Decisions

LEMMA AuditEntryType ==
  ASSUME NEW request \in Requests, NEW task \in Tasks \cup {NoTask},
         NEW enabled, NEW completed, NEW policy
  PROVE  AuditEntry(request, task, enabled, completed, policy) \in AuditEntries
<1>1. StoppedAt(request, enabled, completed, policy) \in Gates
  BY DEF StoppedAt, Gates
<1> QED
  BY <1>1, FinalDecisionType DEF AuditEntry, AuditEntries, Requests

LEMMA EntryForType ==
  ASSUME PipelineTypeOK, NEW request \in Calls
  PROVE  EntryFor(request) \in AuditEntries
<1>1. request \in Requests /\ task_state.task \in Tasks \cup {NoTask}
  BY CallsAssumption DEF PipelineTypeOK, TaskStates
<1> QED BY <1>1, AuditEntryType DEF EntryFor

LEMMA FreshTaskStateType ==
  \A task \in Tasks \cup {NoTask} : FreshTaskState(task) \in TaskStates
BY DEF FreshTaskState, TaskStates

\* initialize_task() on a pipeline with any policy leaves well-typed fields.
LEMMA InitializedType ==
  ASSUME NEW task \in Tasks, NEW old \in {NoPolicy} \cup Policies,
         Initialized(task, old)
  PROVE  /\ privilege_context' \in Contexts
         /\ task_state' \in TaskStates
         /\ dynamic_policy' \in {NoPolicy} \cup Policies
         /\ gate_policy' = dynamic_policy'
<1>1. PICK enabled \in ScopesFor(task) : \E policy \in PoliciesFor(enabled, old) :
        /\ task_state' = FreshTaskState(task)
        /\ privilege_context' = Context(task, enabled)
        /\ dynamic_policy' = policy
        /\ gate_policy' = policy
  BY DEF Initialized
<1>2. enabled \in SUBSET Actions
  BY ScopesType
<1>3. dynamic_policy' \in {NoPolicy} \cup Policies
  BY <1>1, <1>2, PoliciesForType
<1> QED
  BY <1>1, <1>2, <1>3, FreshTaskStateType DEF Contexts, Context

LEMMA RecordedType ==
  ASSUME task_state \in TaskStates, NEW action \in Actions
  PROVE  Recorded(action) \in TaskStates
BY DEF Recorded, TaskStates

LEMMA TypeInit == PipelineInit => PipelineTypeOK
BY FreshTaskStateType DEF PipelineInit, PipelineTypeOK

LEMMA TypeStep == PipelineTypeOK /\ [PipelineNext]_pipelineVars => PipelineTypeOK'
<1> SUFFICES ASSUME PipelineTypeOK, [PipelineNext]_pipelineVars
             PROVE  PipelineTypeOK'
  OBVIOUS
<1> USE DEF PipelineTypeOK
<1>1. ASSUME NEW task \in Tasks, InitializeTask(task)
      PROVE  PipelineTypeOK'
  BY <1>1, InitializedType DEF InitializeTask
<1>2. ASSUME NEW task \in Tasks, ScopingInterrupted(task)
      PROVE  PipelineTypeOK'
  BY <1>2, FreshTaskStateType DEF ScopingInterrupted
<1>3. ASSUME NEW task \in Tasks, PolicyInterrupted(task)
      PROVE  PipelineTypeOK'
  <2>1. PICK enabled \in ScopesFor(task) :
          /\ privilege_context' = Context(task, enabled)
          /\ dynamic_policy' \in {dynamic_policy} \cup PoliciesFor(enabled, dynamic_policy)
    BY <1>3 DEF PolicyInterrupted
  <2>2. enabled \in SUBSET Actions
    BY ScopesType
  <2>3. dynamic_policy' \in {NoPolicy} \cup Policies
    BY <2>1, <2>2, PoliciesForType
  <2> QED BY <1>3, <2>1, <2>2, <2>3, FreshTaskStateType DEF PolicyInterrupted, Contexts, Context
<1>4. ASSUME NEW request \in Calls, ProcessAction(request)
      PROVE  PipelineTypeOK'
  BY <1>4, EntryForType DEF ProcessAction
<1>5. ASSUME NEW action \in Actions, RecordActionResult(action)
      PROVE  PipelineTypeOK'
  BY <1>5, RecordedType DEF RecordActionResult
<1>6. CASE UNCHANGED pipelineVars
  BY <1>6 DEF pipelineVars
<1> QED
  BY <1>1, <1>2, <1>3, <1>4, <1>5, <1>6 DEF PipelineNext

\* Each field of the pipeline always holds what the dataclasses declare.
THEOREM TypeCorrect == PipelineSpec => []PipelineTypeOK
BY TypeInit, TypeStep, PTL DEF PipelineSpec

-----------------------------------------------------------------------------
(***************************************************************************)
(* The enforced policy stays within the scope                              *)
(***************************************************************************)

\* A policy that speaks only of actions of a scope, each waiting for others.
Within(policy, enabled) ==
  \A a \in Actions :
     /\ policy.tool[a] \subseteq enabled \ {a}
     /\ policy.tool[a] # {} \/ policy.data[a] # {} => a \in enabled

\* The inductive invariant: without a generator there is never a policy (an
\* old one could otherwise meet a new scope), with one the policy in force was
\* generated for the scope in force.
WithinInv ==
  /\ PolicyWithinPrivileges
  /\ ~ HasGenerator => dynamic_policy = NoPolicy /\ gate_policy = NoPolicy

LEMMA InitializedWithin ==
  ASSUME NEW task \in Tasks, NEW old, ~ HasGenerator => old = NoPolicy,
         Initialized(task, old)
  PROVE  WithinInv'
<1>1. PICK enabled \in ScopesFor(task) : \E policy \in PoliciesFor(enabled, old) :
        /\ privilege_context' = Context(task, enabled)
        /\ dynamic_policy' = policy
        /\ gate_policy' = policy
  BY DEF Initialized
<1>2. PICK policy \in PoliciesFor(enabled, old) :
        /\ privilege_context' = Context(task, enabled)
        /\ dynamic_policy' = policy
        /\ gate_policy' = policy
  BY <1>1
<1>3. CASE HasGenerator
  <2>1. PICK reply \in PlanReplies : policy = Generate(reply, enabled)
    BY <1>3 DEF PoliciesFor
  <2>2. Within(policy, enabled)
    BY <2>1, GenerateWithin DEF Within
  <2> QED BY <1>2, <1>3, <2>2 DEF WithinInv, PolicyWithinPrivileges, Within, Context
<1>4. CASE ~ HasGenerator
  <2>1. policy = NoPolicy
    BY <1>4 DEF PoliciesFor
  <2> QED BY <1>2, <2>1 DEF WithinInv, PolicyWithinPrivileges
<1> QED BY <1>3, <1>4

LEMMA WithinStep ==
  ASSUME ~ Interruptible, WithinInv, [PipelineNext]_pipelineVars
  PROVE  WithinInv'
<1>1. ASSUME NEW task \in Tasks, InitializeTask(task)
      PROVE  WithinInv'
  <2>1. ~ HasGenerator => dynamic_policy = NoPolicy
    BY DEF WithinInv
  <2> QED BY <1>1, <2>1, InitializedWithin DEF InitializeTask
<1>2. ASSUME NEW task \in Tasks, ScopingInterrupted(task) \/ PolicyInterrupted(task)
      PROVE  WithinInv'
  BY <1>2 DEF ScopingInterrupted, PolicyInterrupted
<1>3. ASSUME UNCHANGED <<privilege_context, dynamic_policy, gate_policy>>
      PROVE  WithinInv'
  BY <1>3 DEF WithinInv, PolicyWithinPrivileges
<1> QED
  BY <1>1, <1>2, <1>3 DEF PipelineNext, pipelineVars, ProcessAction, RecordActionResult

\* Unless initialize_task() is interrupted, the gates never enforce a
\* dependency on an action the privilege gate refuses, nor one of an action on
\* itself.
THEOREM WithinPrivileges ==
  ASSUME ~ Interruptible
  PROVE  PipelineSpec => []PolicyWithinPrivileges
<1>1. PipelineInit => WithinInv
  BY DEF PipelineInit, WithinInv, PolicyWithinPrivileges
<1>2. WithinInv /\ [PipelineNext]_pipelineVars => WithinInv'
  BY WithinStep
<1>3. WithinInv => PolicyWithinPrivileges
  BY DEF WithinInv
<1> QED BY <1>1, <1>2, <1>3, PTL DEF PipelineSpec

-----------------------------------------------------------------------------
(***************************************************************************)
(* Format check and data gate never contradict each other                  *)
(***************************************************************************)

\* An argument written under its canonical name is the one that is found.
LEMMA CanonicalFirst ==
  ASSUME NEW args \in ArgMaps, NEW name \in ArgNames, args[name] # Absent
  PROVE  ResolveArgValue(args, name) = args[name]
<1> DEFINE present == {i \in DOMAIN Aliases(name) : args[Aliases(name)[i]] # Absent}
<1>1. Aliases(name) \in Seq(ArgNames) /\ Len(Aliases(name)) >= 1 /\ Aliases(name)[1] = name
  BY AliasAssumption DEF Aliases
<1>2. 1 \in present /\ present \subseteq Nat \ {0}
  BY <1>1
<1>3. \A i \in present : 1 <= i
  BY <1>2
<1>4. Min(present) = 1
  BY <1>2, <1>3 DEF Min
<1>5. present # {}
  BY <1>2
<1> QED BY <1>1, <1>4, <1>5 DEF ResolveArgValue

LEMMA MatchesItself == \A value : ValuesMatch(value, value)
BY DEF ValuesMatch

\* A filtered profile, taken as the arguments of a call, passes the format
\* check of its action and matches itself.
LEMMA ValidArgsCallable ==
  ASSUME NEW a \in Actions, NEW option \in ArgMaps
  PROVE  LET valid == ValidArgs(a, option)
         IN  /\ FormatFailures([action |-> a, args |-> valid]) = {}
             /\ OptionMatches(valid, valid)
<1> DEFINE valid == ValidArgs(a, option)
           formats == DataFormat(a)
<1>1. valid \in ArgMaps
  BY ValidArgsType
<1>2. \A name \in ArgNames : valid[name] # Absent =>
        /\ name \in DOMAIN formats
        /\ MatchesDataFormat(valid[name], formats[name])
  BY DEF ValidArgs
<1>3. ASSUME NEW arg \in DOMAIN formats
      PROVE  MatchesDataFormat(ResolveArgValue(valid, arg), formats[arg])
  <2>1. a \in DOMAIN Rules /\ formats = Rules[a].data_format
    BY DEF DataFormat
  <2>2. arg \in ArgNames
    BY <2>1, RulesAssumption
  <2>3. CASE valid[arg] # Absent
    BY <1>1, <1>2, <2>2, <2>3, CanonicalFirst
  <2>4. CASE valid[arg] = Absent
    <3>1. ASSUME NEW i \in DOMAIN Aliases(arg), valid[Aliases(arg)[i]] # Absent
          PROVE  FALSE
      <4>1. Aliases(arg)[i] \in ArgNames
        BY <2>2, AliasAssumption DEF Aliases
      <4>2. Aliases(arg)[i] \in DOMAIN formats
        BY <1>2, <3>1, <4>1
      <4>3. arg = Aliases(arg)[i]
        BY <2>1, <4>2, NoRuleDeclaresAnAlias
      <4> QED BY <2>4, <3>1, <4>3
    <3>2. ResolveArgValue(valid, arg) = NoValue
      BY <3>1 DEF ResolveArgValue
    <3> QED BY <3>2 DEF MatchesDataFormat, NoValue
  <2> QED BY <2>3, <2>4
<1>4. FormatFailures([action |-> a, args |-> valid]) = {}
  BY <1>3 DEF FormatFailures
<1>5. OptionMatches(valid, valid)
  BY <1>1, CanonicalFirst, MatchesItself DEF OptionMatches
<1> QED BY <1>4, <1>5

\* Every profile of a policy can be met by a call that passes the format check.
Callable(policy) ==
  \A a \in Actions : \A option \in policy.data[a] :
     /\ FormatFailures([action |-> a, args |-> option]) = {}
     /\ OptionMatches(option, option)

LEMMA GenerateCallable ==
  ASSUME NEW reply \in PlanReplies, NEW enabled
  PROVE  Callable(Generate(reply, enabled))
<1>1. CASE Generate(reply, enabled) = EmptyPolicy
  BY <1>1 DEF Callable, EmptyPolicy
<1>2. CASE Generate(reply, enabled) # EmptyPolicy
  <2>1. reply \in PolicyReplies
    BY <1>2, RepliesAssumption DEF Generate
  <2>2. ASSUME NEW a \in Actions, NEW option \in Generate(reply, enabled).data[a]
        PROVE  \E written \in ArgMaps : option = ValidArgs(a, written)
    <3>1. option \in ValidOptions(a, reply.data[a])
      BY <1>2, <2>2 DEF Generate
    <3>2. reply.data[a] \in SUBSET ArgMaps
      BY <2>1 DEF PolicyReplies
    <3> QED BY <3>1, <3>2 DEF ValidOptions
  <2> QED BY <2>2, ValidArgsCallable DEF Callable
<1> QED BY <1>1, <1>2

\* Both policies of a pipeline, the reported and the enforced one.
LockoutInv ==
  /\ dynamic_policy # NoPolicy => Callable(dynamic_policy)
  /\ gate_policy # NoPolicy => Callable(gate_policy)

LEMMA LockoutStep ==
  ASSUME LockoutInv, [PipelineNext]_pipelineVars
  PROVE  LockoutInv'
<1>1. ASSUME NEW task \in Tasks, InitializeTask(task)
      PROVE  LockoutInv'
  <2>1. PICK enabled \in ScopesFor(task) :
          \E policy \in PoliciesFor(enabled, dynamic_policy) :
            dynamic_policy' = policy /\ gate_policy' = policy
    BY <1>1 DEF InitializeTask, Initialized
  <2>2. PICK policy \in PoliciesFor(enabled, dynamic_policy) :
          dynamic_policy' = policy /\ gate_policy' = policy
    BY <2>1
  <2>3. policy # NoPolicy => Callable(policy)
    BY GenerateCallable DEF PoliciesFor, LockoutInv
  <2> QED BY <2>2, <2>3 DEF LockoutInv
<1>2. ASSUME NEW task \in Tasks, PolicyInterrupted(task)
      PROVE  LockoutInv'
  <2>1. PICK enabled \in ScopesFor(task) :
          dynamic_policy' \in {dynamic_policy} \cup PoliciesFor(enabled, dynamic_policy)
    BY <1>2 DEF PolicyInterrupted
  <2>2. dynamic_policy' # NoPolicy => Callable(dynamic_policy')
    BY <2>1, GenerateCallable DEF PoliciesFor, LockoutInv
  <2> QED BY <1>2, <2>2 DEF PolicyInterrupted, LockoutInv
<1>3. ASSUME UNCHANGED <<dynamic_policy, gate_policy>>
      PROVE  LockoutInv'
  BY <1>3 DEF LockoutInv
<1> QED
  BY <1>1, <1>2, <1>3 DEF PipelineNext, pipelineVars, ScopingInterrupted, ProcessAction,
                          RecordActionResult

\* Interrupted or not, a profile the data gate demands is never one the static
\* format check refuses: no generated policy makes an action impossible by the
\* content it asks for.
THEOREM NeverLockedOut == PipelineSpec => []NoDataLockout
<1>1. PipelineInit => LockoutInv
  BY DEF PipelineInit, LockoutInv
<1>2. LockoutInv /\ [PipelineNext]_pipelineVars => LockoutInv'
  BY LockoutStep
<1>3. LockoutInv => NoDataLockout
  BY DEF LockoutInv, NoDataLockout, Callable
<1> QED BY <1>1, <1>2, <1>3, PTL DEF PipelineSpec

-----------------------------------------------------------------------------
(***************************************************************************)
(* The dynamic policy only tightens, and answers settle                    *)
(***************************************************************************)

LEMMA TighterThanStatic ==
  ASSUME NEW request, NEW enabled, NEW completed, NEW policy
  PROVE  LET without == FinalDecision(request, enabled, completed, NoPolicy)
             with    == FinalDecision(request, enabled, completed, policy)
         IN  \/ with = without
             \/ without = "allowed" /\ with = "verification_required"
<1>1. MissingActions(request, completed, NoPolicy) = {} /\ DataMatches(request, NoPolicy)
  BY DEF MissingActions, DataMatches
<1> QED BY <1>1 DEF FinalDecision, StoppedAt

\* In no state does the dynamic policy let through, or weaken the refusal of,
\* a call the privilege gate and the static policy stop.
THEOREM DynamicOnlyTightens == PipelineSpec => []OnlyTightens
<1>1. OnlyTightens
  BY TighterThanStatic DEF OnlyTightens, Decision
<1> QED BY <1>1, PTL

\* More completed actions change neither a favourable nor a final answer.
LEMMA MoreCompleted ==
  ASSUME NEW request, NEW enabled, NEW c1, NEW c2, NEW policy, c1 \subseteq c2,
         FinalDecision(request, enabled, c1, policy) \in {"allowed", "denied"}
  PROVE  FinalDecision(request, enabled, c2, policy)
           = FinalDecision(request, enabled, c1, policy)
<1>1. MissingActions(request, c2, policy) \subseteq MissingActions(request, c1, policy)
  BY DEF MissingActions
<1>2. CASE StoppedAt(request, enabled, c1, policy) \in {"privilege", "static"}
  <2>1. StoppedAt(request, enabled, c2, policy) = StoppedAt(request, enabled, c1, policy)
    BY <1>2 DEF StoppedAt
  <2> QED BY <2>1 DEF FinalDecision
<1>3. CASE StoppedAt(request, enabled, c1, policy) = "passed"
  <2>1. StoppedAt(request, enabled, c2, policy) = "passed"
    BY <1>1, <1>3 DEF StoppedAt
  <2> QED BY <1>3, <2>1 DEF FinalDecision
<1>4. CASE StoppedAt(request, enabled, c1, policy) \in {"tool", "data"}
  BY <1>4 DEF FinalDecision
<1> QED BY <1>2, <1>3, <1>4 DEF StoppedAt

LEMMA SettledStep ==
  ASSUME PipelineTypeOK, [PipelineNext]_pipelineVars
  PROVE  [\/ \E task \in Tasks : StartsTask(task)
          \/ \A request \in Calls :
               Decision(request) \in {"allowed", "denied"}
                 => Decision(request)' = Decision(request)]_pipelineVars
<1>1. CASE \E task \in Tasks : InitializeTask(task) \/ ScopingInterrupted(task)
                               \/ PolicyInterrupted(task)
  BY <1>1 DEF StartsTask
<1>2. ASSUME NEW request \in Calls, ProcessAction(request), NEW other \in Calls
      PROVE  Decision(other)' = Decision(other)
  BY <1>2 DEF ProcessAction, Decision
<1>3. ASSUME NEW action \in Actions, RecordActionResult(action), NEW other \in Calls,
             Decision(other) \in {"allowed", "denied"}
      PROVE  Decision(other)' = Decision(other)
  <2>1. /\ privilege_context' = privilege_context
        /\ gate_policy' = gate_policy
        /\ task_state' = [task_state EXCEPT !.completed = @ \cup {action}]
    BY <1>3 DEF RecordActionResult, Recorded
  <2>2. task_state.completed \subseteq task_state'.completed
    BY <2>1 DEF PipelineTypeOK, TaskStates
  <2> QED BY <1>3, <2>1, <2>2, MoreCompleted DEF Decision
<1> QED BY <1>1, <1>2, <1>3 DEF PipelineNext

\* Within a task an allowed call stays allowed and a denied one stays denied,
\* whatever is recorded or processed in between.
THEOREM DecisionsSettle == PipelineSpec => SettledDecisions
BY SettledStep, TypeInit, TypeStep, PTL DEF PipelineSpec, SettledDecisions

\* Interrupted or not, the step that installs a scope starts its task without
\* completed actions.
THEOREM ScopesStartClean == PipelineSpec => ScopeStartsClean
<1>1. [PipelineNext]_pipelineVars =>
        [privilege_context' # privilege_context =>
           task_state' = FreshTaskState(privilege_context'.task)]_pipelineVars
  <2> SUFFICES ASSUME PipelineNext, privilege_context' # privilege_context
               PROVE  task_state' = FreshTaskState(privilege_context'.task)
    OBVIOUS
  <2>1. PICK task \in Tasks : InitializeTask(task) \/ PolicyInterrupted(task)
    BY DEF PipelineNext, ScopingInterrupted, ProcessAction, RecordActionResult
  <2> QED BY <2>1 DEF InitializeTask, Initialized, PolicyInterrupted, Context
<1> QED BY <1>1, PTL DEF PipelineSpec, ScopeStartsClean
=============================================================================
