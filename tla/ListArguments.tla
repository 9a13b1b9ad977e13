---------------------------- MODULE ListArguments ----------------------------
(***************************************************************************)
(* One declared argument on its way through the three places that look at  *)
(* its content: the filter on the expected value at generation             *)
(* (policy/dynamic_policy.py), the format check of the static policy and   *)
(* the comparison in the data gate (policy/static_policy.py).              *)
(*                                                                         *)
(* Lists are sequences here, as in Python: order, duplicates, None and     *)
(* unhashable entries included, on which set() raises TypeError.           *)
(* ArgMatching leaves all of these out; this module shows that it may.     *)
(***************************************************************************)
EXTENDS ArgMatching

CONSTANTS
  Unhashables,      \* JSON objects, as values or as entries (and nested lists)
  NoneEntry,        \* None as an entry of a list
  DeclaredFormats,  \* the formats that rules declare for arguments
  Values            \* the values an LLM may write

Entries == Atoms \cup Unhashables \cup {NoneEntry}

\* isinstance(value, (list, tuple, set)) tells "list" from the rest; the rest
\* is wrapped into a list of one wherever the code wants entries.
PythonValues ==
  {[kind |-> "none", entries |-> <<NoneEntry>>]}
  \cup {[kind |-> "scalar", entries |-> <<e>>] : e \in Atoms \cup Unhashables}
  \cup [kind : {"list"}, entries : Seq(Entries)]

ASSUME ValuesAssumption == Values \subseteq PythonValues

ASSUME EntriesAssumption ==
  Unhashables \cap Atoms = {} /\ NoneEntry \notin Atoms \cup Unhashables

\* No rule declares a format without a validator; such a format would let
\* every value pass.
ASSUME KnownFormats == DeclaredFormats \subseteq DOMAIN FormatValidators

EntriesOf(value) == {value.entries[i] : i \in DOMAIN value.entries}

\* MUTANT of MatchesFormat: one good entry is enough.
MatchesFormat_Any(value, format) ==
  \/ value.kind = "none"
  \/ format \notin DOMAIN FormatValidators
  \/ \E i \in DOMAIN value.entries : value.entries[i] \in FormatValidators[format]

\* _matches_data_format(): a validator sees the text of an entry, and the text
\* of None, a list or an object is neither an address nor a date.
MatchesFormat(value, format) ==
  \/ value.kind = "none"
  \/ format \notin DOMAIN FormatValidators
  \/ /\ value.entries # <<>>
     /\ \A i \in DOMAIN value.entries : value.entries[i] \in FormatValidators[format]

\* MUTANT of Compare: lists are compared as they are.
Compare_Ordered(actual, expected) ==
  IF actual.kind # "list" THEN IF actual = expected THEN "match" ELSE "mismatch"
  ELSE IF (EntriesOf(actual) \cup EntriesOf(expected)) \cap Unhashables # {} THEN "raises"
  ELSE IF actual.entries = expected.entries THEN "match" ELSE "mismatch"

\* _values_match(): set() of either list raises on an unhashable entry.
Compare(actual, expected) ==
  IF actual.kind # "list" THEN IF actual = expected THEN "match" ELSE "mismatch"
  ELSE IF (EntriesOf(actual) \cup EntriesOf(expected)) \cap Unhashables # {} THEN "raises"
  ELSE IF EntriesOf(actual) = EntriesOf(expected) THEN "match" ELSE "mismatch"

VARIABLES
  format,    \* the declared format of the argument
  profile,   \* the value the policy LLM expects
  argument,  \* the value the agent writes
  kept,      \* the profile survived generation
  stage,     \* what looks at the argument next
  verdict

argVars == <<format, profile, argument, kept, stage, verdict>>

ArgInit ==
  /\ format \in DeclaredFormats /\ profile \in Values /\ argument \in Values
  /\ kept = FALSE /\ stage = "generate" /\ verdict = "open"

\* Generation keeps the expected value if it passes the declared format.
Filter ==
  /\ stage = "generate"
  /\ kept' = MatchesFormat(profile, format)
  /\ stage' = "static"
  /\ UNCHANGED <<format, profile, argument, verdict>>

\* The static policy gate, under a rule that allows.
CheckFormat ==
  /\ stage = "static"
  /\ IF MatchesFormat(argument, format)
     THEN stage' = "data" /\ UNCHANGED verdict
     ELSE stage' = "done" /\ verdict' = "verification_required"
  /\ UNCHANGED <<format, profile, argument, kept>>

\* The data gate; without a surviving profile it has nothing to compare.
CompareContent ==
  /\ stage = "data"
  /\ stage' = "done"
  /\ verdict' = IF ~ kept THEN "allowed"
                ELSE CASE Compare(argument, profile) = "match" -> "allowed"
                       [] Compare(argument, profile) = "mismatch" -> "verification_required"
                       [] OTHER -> "raises"
  /\ UNCHANGED <<format, profile, argument, kept>>

ArgNext == Filter \/ CheckFormat \/ CompareContent

ArgSpec == ArgInit /\ [][ArgNext]_argVars

-----------------------------------------------------------------------------
\* Nothing catches an exception of the data gate: it would leave the agent's
\* run.  None occurs, because a value with an unhashable entry passes no
\* declared format, neither at generation nor in the static gate before it.
DataGateNeverRaises == verdict # "raises"

\* The value of ArgMatching a value without None and unhashable entries has.
Abstraction(value) ==
  IF value.kind = "none" THEN NoValue
  ELSE IF value.kind = "scalar" THEN Scalar(value.entries[1])
  ELSE List(EntriesOf(value))

Plain(value) == value.kind = "none" \/ EntriesOf(value) \subseteq Atoms

\* ArgMatching gives every argument the verdict the code gives it: order and
\* duplicates never matter, and a value it leaves out never gets past the
\* static gate, nor into a profile.
SetAbstractionExact ==
  stage = "done" =>
    (verdict = "allowed" <=>
       /\ Plain(argument) /\ MatchesDataFormat(Abstraction(argument), format)
       /\ Plain(profile) /\ MatchesDataFormat(Abstraction(profile), format)
            => ValuesMatch(Abstraction(argument), Abstraction(profile)))
==============================================================================
