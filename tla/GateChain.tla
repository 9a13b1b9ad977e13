------------------------------ MODULE GateChain ------------------------------
(***************************************************************************)
(* The four gates a request passes, in order (policy/gate_chain.py), and   *)
(* the audit entry that is recorded on every path                          *)
(* (logging/audit_log.py).                                                 *)
(***************************************************************************)
EXTENDS DynamicPolicy

\* The prerequisites of a request's action that have not completed.
MissingActions(request, completed, policy) ==
  IF policy = NoPolicy THEN {} ELSE policy.tool[request.action] \ completed

\* All arguments of the profile match, each looked up under its aliases.
OptionMatches(args, option) ==
  \A arg \in ArgNames :
     option[arg] # Absent => ValuesMatch(ResolveArgValue(args, arg), option[arg])

\* No profile at all, or one of them matches.
DataMatches(request, policy) ==
  \/ policy = NoPolicy
  \/ policy.data[request.action] = {}
  \/ \E option \in policy.data[request.action] : OptionMatches(request.args, option)

Gates == {"privilege", "static", "tool", "data", "passed"}

\* MUTANT of StoppedAt: the tool gate comes before the static policy.
StoppedAt_ToolFirst(request, enabled, completed, policy) ==
  IF request.action \notin enabled THEN "privilege"
  ELSE IF MissingActions(request, completed, policy) # {} THEN "tool"
  ELSE IF StaticEvaluate(request) # "allowed" THEN "static"
  ELSE IF ~ DataMatches(request, policy) THEN "data"
  ELSE "passed"

\* MUTANT of StoppedAt: an empty completion record skips the tool gate.
StoppedAt_EmptyIsNone(request, enabled, completed, policy) ==
  IF request.action \notin enabled THEN "privilege"
  ELSE IF StaticEvaluate(request) # "allowed" THEN "static"
  ELSE IF completed # {} /\ MissingActions(request, completed, policy) # {} THEN "tool"
  ELSE IF ~ DataMatches(request, policy) THEN "data"
  ELSE "passed"

\* The gate that stops the request, the first one in order, or "passed".
StoppedAt(request, enabled, completed, policy) ==
  IF request.action \notin enabled THEN "privilege"
  ELSE IF StaticEvaluate(request) # "allowed" THEN "static"
  ELSE IF MissingActions(request, completed, policy) # {} THEN "tool"
  ELSE IF ~ DataMatches(request, policy) THEN "data"
  ELSE "passed"

FinalDecision(request, enabled, completed, policy) ==
  LET gate == StoppedAt(request, enabled, completed, policy)
  IN  IF gate = "privilege" THEN "denied"
      ELSE IF gate = "static" THEN StaticEvaluate(request)
      ELSE IF gate = "passed" THEN "allowed"
      ELSE "verification_required"

\* The entry keeps "allowed" or "denied" as the static decision, whatever the
\* static policy asked for short of allowing.
AuditEntry(request, task, enabled, completed, policy) ==
  LET gate == StoppedAt(request, enabled, completed, policy)
  IN  [action |-> request.action,
       user_request |-> task,
       static_decision |-> IF gate \in {"privilege", "static"} THEN "denied" ELSE "allowed",
       final_decision |-> FinalDecision(request, enabled, completed, policy),
       gate |-> gate]
==============================================================================
