---------------------------- MODULE StaticPolicy ----------------------------
(***************************************************************************)
(* The static policy table (policy/static_policy.py): the rules of one     *)
(* environment, and the verdict they give on a request.                    *)
(***************************************************************************)
EXTENDS ArgMatching

CONSTANT Rules   \* action -> [default |-> ..., data_format |-> ...], partial

Verdict == [allow |-> "allowed", deny |-> "denied", verify |-> "verification_required"]

Decisions == {"allowed", "denied", "verification_required"}

ASSUME RulesAssumption ==
  /\ DOMAIN Rules \subseteq Actions
  /\ \A a \in DOMAIN Rules :
        /\ Rules[a].default \in DOMAIN Verdict
        /\ DOMAIN Rules[a].data_format \subseteq ArgNames

\* No shipped rule declares an argument and also another name for it.
ASSUME NoRuleDeclaresAnAlias ==
  \A a \in DOMAIN Rules : \A n1, n2 \in DOMAIN Rules[a].data_format :
     \A i \in DOMAIN Aliases(n1) : Aliases(n1)[i] = n2 => n1 = n2

\* The declared arguments of an action and their formats; no rule, none.
DataFormat(action) == IF action \in DOMAIN Rules THEN Rules[action].data_format ELSE <<>>

FormatFailures(request) ==
  LET data_format == DataFormat(request.action)
  IN  {arg \in DOMAIN data_format :
         ~ MatchesDataFormat(ResolveArgValue(request.args, arg), data_format[arg])}

\* An undeclared action is allowed.  A format failure asks for verification
\* before the default decision is looked at, also under a deny rule.
StaticEvaluate(request) ==
  IF request.action \notin DOMAIN Rules THEN "allowed"
  ELSE IF FormatFailures(request) # {} THEN "verification_required"
  ELSE Verdict[Rules[request.action].default]
=============================================================================
