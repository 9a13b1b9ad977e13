----------------------------- MODULE TaskMonitor -----------------------------
(***************************************************************************)
(* What the gating of one agent promises (README.md, the description of    *)
(* the four gates): a task starts with a scope and an order among the      *)
(* actions of the scope; an action is released only if it is in the scope  *)
(* and everything ordered before it has been released in this task.        *)
(***************************************************************************)
EXTENDS FiniteSets

CONSTANT Actions

VARIABLES
  scope,     \* the actions of the task
  before,    \* before[a]: what must be released before a
  released   \* the actions released in this task

vars == <<scope, before, released>>

Init ==
  /\ scope = {}
  /\ before = [a \in Actions |-> {}]
  /\ released = {}

NewTask ==
  /\ scope' \in SUBSET Actions
  /\ before' \in [Actions -> SUBSET scope']
  /\ \A a \in Actions : a \notin before'[a]
  /\ released' = {}

Release(a) ==
  /\ a \in scope
  /\ before[a] \subseteq released
  /\ released' = released \cup {a}
  /\ UNCHANGED <<scope, before>>

Next == NewTask \/ \E a \in Actions : Release(a)

Spec == Init /\ [][Next]_vars
==============================================================================
