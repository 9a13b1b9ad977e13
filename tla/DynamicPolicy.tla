---------------------------- MODULE DynamicPolicy ----------------------------
(***************************************************************************)
(* What the two planning LLMs may answer at the start of a task, and what  *)
(* the program keeps of their answers: the privilege scope                 *)
(* (policy/privilege_control.py, policy/query_decomposer.py) and the       *)
(* dynamic policy (policy/dynamic_policy.py).                              *)
(*                                                                         *)
(* A reply is what is left once the text is parsed.  NoReply stands for    *)
(* every way to an exception: the LLM call fails, the text is not JSON, a  *)
(* section is null.  Unhashable stands for a list or object written where  *)
(* a name is expected, which raises TypeError when it is looked up in a    *)
(* set.  A section or entry of a wrong shape that the code skips is the    *)
(* empty set.                                                              *)
(***************************************************************************)
EXTENDS StaticPolicy

CONSTANTS
  Pool,        \* the names of available_actions
  Unhashable,
  NoReply,
  NoPolicy     \* Python's None, where a dynamic policy may be

ASSUME PoolAssumption == Pool \subseteq Actions

ASSUME TokenAssumption == Unhashable \notin Actions

Names == Actions \cup {Unhashable}

(***************************************************************************)
(* Privilege scoping                                                       *)
(***************************************************************************)

\* One scoping call: what it enables.  Any exception enables nothing.
ScopePrivileges(reply) ==
  IF reply = NoReply \/ Unhashable \in reply THEN {} ELSE reply \cap Pool

\* The sub-tasks of a decomposition are scoped one by one and their scopes
\* united; a failed scoping call among them contributes nothing.
ScopePrivilegesDecomposed(replies) ==
  UNION {ScopePrivileges(replies[i]) : i \in DOMAIN replies}

\* The decomposer's sub-tasks, blanks removed, or the task itself when the
\* answer is unusable or nothing is left of it.  A text may come twice.
Decompose(reply, task, blank) ==
  LET cleaned == SelectSeq(reply, LAMBDA sub_task : sub_task # blank)
  IN  IF reply = NoReply \/ cleaned = <<>> THEN <<task>> ELSE cleaned

(***************************************************************************)
(* Dynamic policy                                                          *)
(***************************************************************************)

\* tool[a]: the prerequisites of a.  data[a]: the alternative profiles of
\* expected arguments of a.  An action without an entry has the empty set.
Policies == [tool : [Actions -> SUBSET Actions],
             data : [Actions -> SUBSET ArgMaps]]

PolicyReplies == [tool : [Actions -> SUBSET Names],
                  data : [Actions -> SUBSET ArgMaps]]

ASSUME NoPolicyAssumption == NoPolicy \notin Policies

EmptyPolicy == [tool |-> [a \in Actions |-> {}], data |-> [a \in Actions |-> {}]]

\* MUTANT of ValidArgs: the format of the expected value is not checked.
ValidArgs_AnyFormat(action, option) ==
  [arg \in ArgNames |-> IF arg \in DOMAIN DataFormat(action) THEN option[arg] ELSE Absent]

\* Of a profile, the arguments the action's rule declares and whose value
\* passes the declared format.
ValidArgs(action, option) ==
  LET allowed_args == DataFormat(action)
  IN  [arg \in ArgNames |->
         IF arg \in DOMAIN allowed_args /\ MatchesDataFormat(option[arg], allowed_args[arg])
         THEN option[arg] ELSE Absent]

ValidOptions(action, options) ==
  {ValidArgs(action, option) : option \in options} \ {NoArgs}

\* MUTANT of Generate: prerequisites are not filtered by the enabled actions.
Generate_AnyPrerequisite(reply, enabled) ==
  IF reply = NoReply THEN EmptyPolicy
  ELSE [tool |-> [a \in Actions |-> IF a \in Pool \cap enabled THEN reply.tool[a] ELSE {}],
        data |-> [a \in Actions |-> {}]]

\* What generate() makes of the reply, given the enabled actions.  Everything
\* is dropped that names an action outside the scope or an action itself as
\* its own prerequisite; one unhashable prerequisite of an enabled action
\* voids the whole reply, and the empty policy constrains nothing.
Generate(reply, enabled) ==
  LET valid_actions == Pool \cap enabled
      raises == reply = NoReply \/ \E a \in valid_actions : Unhashable \in reply.tool[a]
  IN  IF raises THEN EmptyPolicy
      ELSE [tool |-> [a \in Actions |->
                        IF a \in valid_actions
                        THEN (reply.tool[a] \cap valid_actions) \ {a} ELSE {}],
            data |-> [a \in Actions |->
                        IF a \in valid_actions
                        THEN ValidOptions(a, reply.data[a]) ELSE {}]]
==============================================================================
