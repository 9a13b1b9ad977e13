----------------------------- MODULE ArgMatching -----------------------------
(***************************************************************************)
(* Argument values, and the two tests every content check is made of: does *)
(* a value match a declared format, and does it match an expected value    *)
(* (policy/static_policy.py, core/value.py, core/action_request.py).       *)
(*                                                                         *)
(* A raw Python value is None, a scalar, or a list (list, tuple or set)    *)
(* of scalars.  The code reads a list only through set() and all(), so its *)
(* order and its duplicates are left out.  The arguments of a request map  *)
(* every name to a raw value or to Absent, for a key the dict lacks.       *)
(***************************************************************************)
EXTENDS Integers, Sequences, FiniteSetsExt

CONSTANTS
  Actions,           \* the action names an LLM or an agent may write
  ArgNames,          \* the argument names they may write
  Atoms,             \* scalar argument values
  FormatValidators,  \* known format label -> the atoms its validator accepts
  ArgAliases         \* canonical argument -> its names, in lookup order

ASSUME FormatAssumption ==
  \A format \in DOMAIN FormatValidators : FormatValidators[format] \subseteq Atoms

\* Every alias list starts with the canonical name itself, as in _ARG_ALIASES.
ASSUME AliasAssumption ==
  \A name \in DOMAIN ArgAliases :
     /\ ArgAliases[name] \in Seq(ArgNames)
     /\ ArgAliases[name] # <<>>
     /\ ArgAliases[name][1] = name

Absent    == [kind |-> "absent", items |-> {}]
NoValue   == [kind |-> "none", items |-> {}]
Scalar(a) == [kind |-> "scalar", items |-> {a}]
List(S)   == [kind |-> "list", items |-> S]

Raw == {NoValue} \cup {Scalar(a) : a \in Atoms} \cup {List(S) : S \in SUBSET Atoms}

\* The arguments of a request, or one expected-content profile.
ArgMaps == [ArgNames -> Raw \cup {Absent}]

NoArgs == [name \in ArgNames |-> Absent]

Requests == [action : Actions, args : ArgMaps]

\* None passes, an unknown format passes, an empty list fails, and otherwise
\* every entry must be accepted.
MatchesDataFormat(value, format) ==
  \/ value.kind = "none"
  \/ format \notin DOMAIN FormatValidators
  \/ value.items # {} /\ value.items \subseteq FormatValidators[format]

Aliases(name) == IF name \in DOMAIN ArgAliases THEN ArgAliases[name] ELSE <<name>>

\* The first alias that is present decides, even when its value is None.
ResolveArgValue(args, name) ==
  LET present == {i \in DOMAIN Aliases(name) : args[Aliases(name)[i]] # Absent}
  IN  IF present = {} THEN NoValue ELSE args[Aliases(name)[Min(present)]]

\* A list given by the caller is compared as a set with the expected entries;
\* a scalar never matches a list.  set([None]) is what a list is compared
\* with when None is expected: no list of scalars equals it.
ValuesMatch(actual, expected) ==
  IF actual.kind = "list"
  THEN expected.kind # "none" /\ actual.items = expected.items
  ELSE actual = expected
==============================================================================
