------------------------------ MODULE TaskStart ------------------------------
(***************************************************************************)
(* initialize_task() call by call: the decomposition, one scoping call for *)
(* each sub-task, the generation, and the assignments between them.        *)
(* Pipeline does all of this in one step; here the fields change one by    *)
(* one, and an interrupt leaves them as they are.                          *)
(***************************************************************************)
EXTENDS Pipeline

VARIABLES
  step,      \* where initialize_task() stands; "ready" outside of it
  planned,   \* sub_tasks
  done,      \* positions of the sub-tasks scoped so far
  granted,   \* enabled, the union of their scopes
  saved      \* history: the four fields when initialize_task() was called

startVars == <<step, planned, done, granted, saved>>
taskVars  == <<pipelineVars, startVars>>

Saved == [context |-> privilege_context, state |-> task_state,
          dynamic |-> dynamic_policy, gate |-> gate_policy]

\* Outside of initialize_task() its local variables do not exist.
NoLocals == planned' = <<>> /\ done' = {} /\ granted' = {} /\ saved' = <<>>

StartInit ==
  /\ PipelineInit
  /\ step = "ready"
  /\ planned = <<>> /\ done = {} /\ granted = {} /\ saved = <<>>

\* MUTANT of Begin: the task state is renamed, not replaced.
Begin_KeepsCompletions(task) ==
  /\ step = "ready"
  /\ saved' = Saved
  /\ task_state' = [task_state EXCEPT !.task = task]
  /\ IF HasDecomposer THEN step' = "decompose" /\ planned' = <<>>
                      ELSE step' = "scope" /\ planned' = <<task>>
  /\ done' = {} /\ granted' = {}
  /\ UNCHANGED <<privilege_context, dynamic_policy, gate_policy, audit_log>>

\* The task state is reset first.  Without a decomposer the task itself is the
\* only text to scope.
Begin(task) ==
  /\ step = "ready"
  /\ saved' = Saved
  /\ task_state' = FreshTaskState(task)
  /\ IF HasDecomposer THEN step' = "decompose" /\ planned' = <<>>
                      ELSE step' = "scope" /\ planned' = <<task>>
  /\ done' = {} /\ granted' = {}
  /\ UNCHANGED <<privilege_context, dynamic_policy, gate_policy, audit_log>>

DecomposeTask ==
  /\ step = "decompose"
  /\ \E reply \in DecomposerReplies : planned' = Decompose(reply, task_state.task, BlankText)
  /\ step' = "scope"
  /\ UNCHANGED <<pipelineVars, done, granted, saved>>

\* The position the for loop over sub_tasks is at.
IsNext(i) == i \in DOMAIN planned \ done /\ \A j \in DOMAIN planned \ done : i <= j

\* MUTANT of ScopeSubTask: a call that enables nothing starts the scoping over.
ScopeSubTask_StartsOver ==
  /\ step = "scope"
  /\ \E i \in DOMAIN planned, reply \in ScopeReplies :
       /\ IsNext(i)
       /\ granted' = granted \cup ScopePrivileges(reply)
       /\ done' = IF ScopePrivileges(reply) = {} THEN {} ELSE done \cup {i}
  /\ UNCHANGED <<pipelineVars, step, planned, saved>>

ScopeSubTask ==
  /\ step = "scope"
  /\ \E i \in DOMAIN planned, reply \in ScopeReplies :
       /\ IsNext(i)
       /\ granted' = granted \cup ScopePrivileges(reply)
       /\ done' = done \cup {i}
  /\ UNCHANGED <<pipelineVars, step, planned, saved>>

AssignScope ==
  /\ step = "scope" /\ done = DOMAIN planned
  /\ privilege_context' = Context(task_state.task, granted)
  /\ step' = IF HasGenerator THEN "generate" ELSE "install"
  /\ UNCHANGED <<task_state, dynamic_policy, gate_policy, audit_log,
                 planned, done, granted, saved>>

\* MUTANT of GeneratePolicy: the policy is made for the whole pool.
GeneratePolicy_WholePool ==
  /\ step = "generate"
  /\ \E reply \in PlanReplies : dynamic_policy' = Generate(reply, Pool)
  /\ step' = "install"
  /\ UNCHANGED <<privilege_context, task_state, gate_policy, audit_log,
                 planned, done, granted, saved>>

GeneratePolicy ==
  /\ step = "generate"
  /\ \E reply \in PlanReplies :
       dynamic_policy' = Generate(reply, privilege_context.enabled_actions)
  /\ step' = "install"
  /\ UNCHANGED <<privilege_context, task_state, gate_policy, audit_log,
                 planned, done, granted, saved>>

\* gate_chain.set_dynamic_policy(), and initialize_task() returns.
InstallPolicy ==
  /\ step = "install"
  /\ gate_policy' = dynamic_policy
  /\ step' = "ready" /\ NoLocals
  /\ UNCHANGED <<privilege_context, task_state, dynamic_policy, audit_log>>

\* An interrupt, in an LLM call or between two assignments, leaves
\* initialize_task() with the fields as they are.
StartInterrupted ==
  /\ Interruptible
  /\ step # "ready"
  /\ step' = "ready" /\ NoLocals
  /\ UNCHANGED pipelineVars

StartStep ==
  DecomposeTask \/ ScopeSubTask \/ AssignScope \/ GeneratePolicy \/ InstallPolicy

StartNext ==
  \/ \E task \in Tasks : Begin(task)
  \/ StartStep
  \/ StartInterrupted
  \/ /\ step = "ready" /\ UNCHANGED startVars
     /\ \/ \E request \in Calls : ProcessAction(request)
        \/ \E action \in Actions : RecordActionResult(action)

StartSafety == StartInit /\ [][StartNext]_taskVars

\* The LLM calls return, so a started initialization goes on.
StartSpec == StartSafety /\ WF_taskVars(StartStep)

-----------------------------------------------------------------------------
\* While initialize_task() runs, Pipeline still shows the fields from before.
Shown(field, current) == IF step = "ready" THEN current ELSE saved[field]

\* Call by call, initialize_task() does what Pipeline does at once: however the
\* task is split and whichever calls fail, the scope is one ScopesFor names, the
\* policy one generated for it, and an interrupt, wherever it falls, ends in one of
\* Pipeline's two interrupted steps.
Abstract == INSTANCE Pipeline WITH
  privilege_context <- Shown("context", privilege_context),
  task_state <- Shown("state", task_state),
  dynamic_policy <- Shown("dynamic", dynamic_policy),
  gate_policy <- Shown("gate", gate_policy)
ImplementsPipeline == Abstract!PipelineSpec

\* README: the Tool Dependency Gate enforces that an action's declared
\* prerequisites have already completed.  Declared are those that process_action()
\* names in its answer: a call that it allows has them all behind it.
DeclaredPrerequisitesEnforced ==
  step = "ready" /\ privilege_context # NoContext /\ dynamic_policy # NoPolicy =>
    \A request \in Calls :
      Decision(request) = "allowed" =>
        dynamic_policy.tool[request.action] \subseteq task_state.completed

\* initialize_task() ends, whatever the LLMs answer.
StartEnds == [](step # "ready" => <>(step = "ready"))
==============================================================================
