---------------------------- MODULE MCEvaluation -----------------------------
(***************************************************************************)
(* Three suites to run, one of them named twice and one without injection  *)
(* tasks, with a process that may die twice.                               *)
(***************************************************************************)
EXTENDS Evaluation

MCSuiteNames    == <<"workspace", "slack", "workspace">>
OneSuite        == <<"workspace">>
MCUserCases     == [suite \in ToSet(SuiteNames) |-> IF suite = "workspace" THEN 2 ELSE 1]
MCInjectedCases == [suite \in ToSet(SuiteNames) |-> IF suite = "workspace" THEN 2 ELSE 0]
==============================================================================
