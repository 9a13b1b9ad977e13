------------------------------ MODULE Provenance ------------------------------
(***************************************************************************)
(* Values with provenance (core/value.py), the requests that carry them    *)
(* (core/action_request.py), the questions asked about them                *)
(* (core/data_flow.py), and the adapter that wraps the arguments of an     *)
(* agent's call (integrations/benchmark_adapter.py, and in the same way    *)
(* the gate, integrations/agentdojo_pipeline.py).                          *)
(*                                                                         *)
(* Contents are left out.  Instead every value carries, as history, the    *)
(* origin of its content: the user, or a tool and an inner source, through *)
(* any number of transformations.                                          *)
(***************************************************************************)
EXTENDS Naturals

CONSTANTS
  Tools,         \* tool names
  InnerSources,  \* senders, editors
  ArgKeys,       \* the argument names of the request
  None

ASSUME NoneAssumption == None \notin Tools \cup InnerSources

UserOrigin == [tool |-> None, inner |-> None]
Origins    == {UserOrigin} \cup [tool : Tools, inner : InnerSources \cup {None}]

VARIABLES
  args,     \* the arguments of the request, as a partial map to values
  adapted   \* the request was made by the adapter

provVars == <<args, adapted>>

Value(source, tool_name, inner_source, origin) ==
  [source |-> source, tool_name |-> tool_name, inner_source |-> inner_source, origin |-> origin]

user_literal == Value("user", None, None, UserOrigin)

tool_result(origin) == Value("tool", origin.tool, origin.inner, origin)

\* MUTANT of transformed: only the kind of source is kept.
transformed_Forgets(v) == Value("transform", None, None, v.origin)

transformed(v) == Value("transform", v.tool_name, v.inner_source, v.origin)

\* MUTANT of is_trusted: what no tool returned is trusted.
is_trusted_NotTool(v) == v.source # "tool"

\* is_trusted() is is_user_sourced().
is_trusted(v) == v.source = "user"

is_tool_sourced(v) == v.source = "tool"

trusted_args   == {k \in DOMAIN args : is_trusted(args[k])}
untrusted_args == {k \in DOMAIN args : is_tool_sourced(args[k])}
tool_sources   == {args[k].tool_name : k \in untrusted_args}

all_args_user_sourced == trusted_args = DOMAIN args
is_all_tool_sourced   == untrusted_args = DOMAIN args

ProvInit == args = <<>> /\ adapted = FALSE

\* The program puts a value into the request it builds.
Put(key, v) ==
  /\ args' = [k \in DOMAIN args \cup {key} |-> IF k = key THEN v ELSE args[k]]
  /\ UNCHANGED adapted

PutFresh ==
  \E key \in ArgKeys :
    \/ Put(key, user_literal)
    \/ \E origin \in Origins \ {UserOrigin} : Put(key, tool_result(origin))

PutTransformed ==
  \E key \in ArgKeys, from \in DOMAIN args : Put(key, transformed(args[from]))

\* adapt(): whatever the agent made an argument from, it becomes a user literal.
Adapt ==
  /\ args' = [k \in DOMAIN args |-> [user_literal EXCEPT !.origin = args[k].origin]]
  /\ adapted' = TRUE

ProvNext == ~ adapted /\ (PutFresh \/ PutTransformed \/ Adapt)

ProvSpec == ProvInit /\ [][ProvNext]_provVars

-----------------------------------------------------------------------------
\* In a request the program built itself, nothing that goes back to a tool is
\* trusted, after any chain of transformations, and no request of tool data passes
\* for one whose arguments all came from the user.
TrustedIsUsers ==
  ~ adapted =>
    /\ \A k \in trusted_args : args[k].origin = UserOrigin
    /\ all_args_user_sourced /\ is_all_tool_sourced => DOMAIN args = {}

\* Who a value goes back to is never lost nor mistaken: its provenance names the
\* tool and the inner source of its origin through any chain of transformations.
OriginSurvives ==
  ~ adapted =>
    /\ \A k \in DOMAIN args :
         [tool |-> args[k].tool_name, inner |-> args[k].inner_source] = args[k].origin
    /\ tool_sources \subseteq {args[k].origin.tool : k \in DOMAIN args} \ {None}
==============================================================================
