----------------------------- MODULE Descriptors -----------------------------
(***************************************************************************)
(* The action pool on its way to the LLMs (core/action_descriptor.py): an  *)
(* item is a name, a mapping or an object; scoping and generation describe *)
(* the pool anew, and generation keeps the enabled actions, each with its  *)
(* static rule (policy/privilege_control.py, policy/dynamic_policy.py).    *)
(*                                                                         *)
(* A missing key, a missing attribute and None are all Missing.  What      *)
(* stands under a key of the metadata is opaque.                           *)
(***************************************************************************)
EXTENDS SequencesExt

CONSTANTS
  PoolItems,   \* the items a pool may hold
  MaxPool,     \* bound: the length of a pool
  RuleNames,   \* the actions with a static rule
  Missing,     \* None, and what is not there
  Empty        \* the empty string

\* The keys that are lifted into the metadata of a description.
TopLevelKeys == {"description", "parameter_names", "required_parameters", "dependencies",
                 "docstring", "schema"}

\* An item shows one to three names; an object, which shows two, has no attribute
\* that is lifted as its docstring or schema.
ASSUME ItemsAssumption ==
  \A item \in PoolItems :
    /\ DOMAIN item.names \in {1 .. 1, 1 .. 2, 1 .. 3} /\ DOMAIN item.fields = TopLevelKeys
    /\ DOMAIN item.names = 1 .. 2 =>
         item.fields["docstring"] = Missing /\ item.fields["schema"] = Missing

ASSUME MissingAssumption == Missing # Empty /\ MaxPool \in Nat

NoFields == [k \in TopLevelKeys |-> Missing]

\* x or y or z: the first value that is true, and the last one if none is.
FirstTruthy(names) ==
  LET true == {i \in DOMAIN names : names[i] \notin {Missing, Empty}}
  IN  names[IF true # {} THEN Min(true) ELSE Len(names)]

\* MUTANT of Lifted: a key that is missing counts as None.
Lifted_WithNone(fields) == fields

Lifted(fields) == [k \in {k \in DOMAIN fields : fields[k] # Missing} |-> fields[k]]

\* metadata.update() and metadata.setdefault(): top level goes before nested.
Merged(over, under) ==
  [k \in DOMAIN over \cup DOMAIN under |-> IF k \in DOMAIN over THEN over[k] ELSE under[k]]

\* A name; a mapping, with three keys for its name; an object, with two
\* attributes.  An item without a name raises ValueError.
SerializeActionDescriptor(item) ==
  [action_name |-> FirstTruthy(item.names), metadata |-> Merged(Lifted(item.fields), item.metadata)]

\* An AgentDojo function: an object with a name, not an action_name, and with
\* everything that is described.
IsFunction(item) ==
  /\ DOMAIN item.names = 1 .. 2 /\ item.names[1] = Missing /\ item.names[2] \notin {Missing, Empty}
  /\ \A k \in TopLevelKeys \ {"docstring", "schema"} : item.fields[k] # Missing
  /\ item.metadata = <<>>

\* The mapping that the evaluation harness makes of it.
HarnessMapping(function) ==
  [names |-> <<function.names[2], Missing, Missing>>,
   fields |-> NoFields,
   metadata |-> [k \in TopLevelKeys \ {"docstring", "schema"} |-> function.fields[k]]]

VARIABLES pool, phase, enabled, contexts

poolVars == <<pool, phase, enabled, contexts>>

PoolInit ==
  /\ pool \in UNION {[1 .. n -> PoolItems] : n \in 0 .. MaxPool}
  /\ phase = "scope" /\ enabled = {} /\ contexts = {}

Descriptions == [i \in DOMAIN pool |-> SerializeActionDescriptor(pool[i])]

ActionNames == {d.action_name : d \in ToSet(Descriptions)}

\* scope_privileges() describes the pool before it asks the LLM: nothing catches
\* the error of an item without a name.
ScopePool ==
  /\ phase = "scope"
  /\ IF Missing \in ActionNames THEN phase' = "raised" /\ UNCHANGED enabled
     ELSE phase' = "generate" /\ enabled' \in SUBSET ActionNames
  /\ UNCHANGED <<pool, contexts>>

IsEnabled(item) == FirstTruthy(item.names) \in enabled

\* A description with the static rule of its own name.
ActionContext(item) ==
  LET d == SerializeActionDescriptor(item)
  IN  [descriptor |-> d,
       static_policy |-> IF d.action_name \in RuleNames THEN d.action_name ELSE Missing]

\* _build_enabled_action_contexts(), up to the order of the list.
BuildContexts ==
  /\ phase = "generate"
  /\ contexts' = {ActionContext(pool[i]) : i \in {j \in DOMAIN pool : IsEnabled(pool[j])}}
  /\ phase' = "done"
  /\ UNCHANGED <<pool, enabled>>

PoolNext == ScopePool \/ BuildContexts

PoolSpec == PoolInit /\ [][PoolNext]_poolVars

-----------------------------------------------------------------------------
\* The LLMs are told the same of an AgentDojo function whether the pool holds the
\* function itself or the mapping the harness makes of it: scoping describes both
\* alike, and what generation is told of an enabled function is what it would be
\* told of the mapping.
DescribedAlike ==
  \A i \in DOMAIN pool :
    IsFunction(pool[i]) =>
      LET mapping == HarnessMapping(pool[i])
      IN  /\ SerializeActionDescriptor(mapping) = Descriptions[i]
          /\ phase = "done" /\ Descriptions[i].action_name \in enabled
               => ActionContext(mapping) \in contexts
==============================================================================
