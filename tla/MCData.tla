-------------------------------- MODULE MCData --------------------------------
(***************************************************************************)
(* The three components that handle the data around the gates: the content *)
(* of an argument, the provenance of a value, the description of the pool. *)
(* They share no state and no step in the code, so each is explored on its *)
(* own, from initial states in which the other two are idle.               *)
(***************************************************************************)
EXTENDS ListArguments, Provenance, Descriptors, WorkspaceRules

\* All lists of up to three entries, under the formats of the shipped rules.
ShippedFormats ==
  UNION {{AllRules[a].data_format[n] : n \in DOMAIN AllRules[a].data_format} : a \in DOMAIN AllRules}

MCAtoms == {"ann@corp", "bob@corp", "2024-05-19 12:00"}
MCFormatValidators == [email |-> {"ann@corp", "bob@corp"}, datetime |-> {"2024-05-19 12:00"}]

NoneValue == [kind |-> "none", entries |-> <<NoneEntry>>]
MCValues ==
  {NoneValue}
  \cup {[kind |-> "scalar", entries |-> <<e>>] : e \in Atoms \cup Unhashables}
  \cup [kind : {"list"}, entries : SeqOf(Entries, 3)]

\* A pool of names, mappings and objects, named in every way the code knows.
Item(names, fields, metadata) == [names |-> names, fields |-> fields, metadata |-> metadata]
FunctionFields ==
  [k \in TopLevelKeys |-> IF k \in {"docstring", "schema"} THEN Missing ELSE k]

MCPoolItems ==
  {Item(<<name>>, NoFields, <<>>) : name \in {"send_email", "get_balance"}}
  \cup {Item(names, fields, metadata) :
          names \in {<<"send_email", Missing, Missing>>, <<Missing, Missing, "get_balance">>,
                     <<Empty, "send_email", "get_balance">>, <<Empty, Missing, Empty>>,
                     <<Missing, Empty, Missing>>},
          fields \in {NoFields, [NoFields EXCEPT !["description"] = "own"]},
          metadata \in {<<>>, [description |-> "nested", suite |-> "workspace"]}}
  \cup {Item(names, FunctionFields, <<>>) :
          names \in {<<"send_email", Missing>>, <<Missing, "get_balance">>}}

ArgIdle  == /\ format = "email" /\ profile = NoneValue /\ argument = NoneValue
            /\ kept = FALSE /\ stage = "idle" /\ verdict = "open"
ProvIdle == args = <<>> /\ adapted = TRUE
PoolIdle == pool = <<>> /\ phase = "idle" /\ enabled = {} /\ contexts = {}

DataInit ==
  \/ ArgInit /\ ProvIdle /\ PoolIdle
  \/ ProvInit /\ ArgIdle /\ PoolIdle
  \/ PoolInit /\ ArgIdle /\ ProvIdle

DataNext ==
  \/ ArgNext /\ UNCHANGED <<provVars, poolVars>>
  \/ ProvNext /\ UNCHANGED <<argVars, poolVars>>
  \/ PoolNext /\ UNCHANGED <<argVars, provVars>>

DataSpec == DataInit /\ [][DataNext]_<<argVars, provVars, poolVars>>
==============================================================================
