------------------------------ MODULE Evaluation ------------------------------
(***************************************************************************)
(* The evaluation harness (integrations/agentdojo_eval.py): for each suite *)
(* the baseline agent, the gated agent, and on request both once more      *)
(* under attack; two reports per suite, which get their attack rates       *)
(* afterwards; a summary at the end.                                       *)
(*                                                                         *)
(* AgentDojo's benchmark functions are external.  As the harness calls     *)
(* them (force_rerun=False, one log directory per phase and suite) they go *)
(* through the cases of a suite in a fixed order, take the outcome of a    *)
(* case from its log if there is one, and otherwise run the case and log   *)
(* its outcome.  Only the logs survive the process.                        *)
(***************************************************************************)
EXTENDS Integers, SequencesExt

CONSTANTS
  SuiteNames,          \* suite_names, which may name a suite twice
  UserCases,           \* suite -> the number of its user tasks
  InjectedCases,       \* suite -> the number of its (user, injection) pairs
  MaxCrashes           \* bound: how often the process dies

ASSUME EvaluationAssumption ==
  /\ SuiteNames \in Seq(STRING)
  /\ UserCases \in [ToSet(SuiteNames) -> Nat] /\ InjectedCases \in [ToSet(SuiteNames) -> Nat]
  /\ MaxCrashes \in Nat

UtilityPhases   == {"baseline", "gated"}
InjectionPhases == {"baseline_injection", "gated_injection"}
Phases          == UtilityPhases \cup InjectionPhases

AttackPhase(agent) == IF agent = "baseline" THEN "baseline_injection" ELSE "gated_injection"

CaseCount(phase, suite) ==
  IF phase \in UtilityPhases THEN UserCases[suite] ELSE InjectedCases[suite]

\* A rate is a fraction; den = 0 stands for None.
NoRate == [num |-> 0, den |-> 0]

Passed(outcomes) == Len(SelectSeq(outcomes, LAMBDA passed : passed))

\* _utility_rate(): an empty suite has the rate 0.0.
UtilityRate(outcomes) ==
  IF outcomes = <<>> THEN [num |-> 0, den |-> 1]
  ELSE [num |-> Passed(outcomes), den |-> Len(outcomes)]

\* _security_rate(): an attack succeeds where the security check does not pass.
SecurityRate(outcomes) ==
  IF outcomes = <<>> THEN [num |-> 0, den |-> 1]
  ELSE [num |-> Len(outcomes) - Passed(outcomes), den |-> Len(outcomes)]

\* BenchmarkResult.
Report(agent, suite, outcomes, attack_rate) ==
  [agent_type |-> agent, suite_name |-> suite, total_tasks |-> Len(outcomes),
   completed_tasks |-> Passed(outcomes), success_rate |-> UtilityRate(outcomes),
   attack_success_rate |-> attack_rate]

VARIABLES
  logs,           \* phase -> suite -> the outcomes logged on disk
  stage,          \* a phase, "idle" (no process), "returned" or "summarized"
  include_injections,  \* the argument of the call
  position,       \* the index of the suite in the loop
  suite_results,  \* the outcomes of the phase so far
  baseline_inj,   \* the outcomes of the baseline under attack
  results,        \* the reports so far
  by_suite,       \* what print_summary() prints, per suite and agent
  crashes

processVars ==
  <<stage, include_injections, position, suite_results, baseline_inj, results, by_suite>>
evalVars    == <<logs, processVars, crashes>>

suite_name == SuiteNames[position]

EvalInit ==
  /\ logs = [phase \in Phases |-> [suite \in ToSet(SuiteNames) |-> <<>>]]
  /\ stage = "idle" /\ include_injections = FALSE /\ position = 0
  /\ suite_results = <<>> /\ baseline_inj = <<>>
  /\ results = <<>> /\ by_suite = <<>> /\ crashes = 0

\* Go on with suite k of the loop, or return.
EnterSuite(k) ==
  /\ position' = k
  /\ suite_results' = <<>>
  /\ stage' = IF k <= Len(SuiteNames) THEN "baseline" ELSE "returned"

Start ==
  /\ stage = "idle"
  /\ include_injections' \in BOOLEAN
  /\ EnterSuite(1)
  /\ results' = <<>> /\ baseline_inj' = <<>> /\ by_suite' = <<>>
  /\ UNCHANGED <<logs, crashes>>

CasesLeft == stage \in Phases /\ Len(suite_results) < CaseCount(stage, suite_name)

\* The log of the next case, empty if there is none.
NextLogged ==
  LET log == logs[stage][suite_name]
  IN  IF Len(suite_results) < Len(log) THEN {log[Len(suite_results) + 1]} ELSE {}

\* MUTANT of RunCase: force_rerun=True.
RunCase_ForceRerun ==
  /\ CasesLeft
  /\ \E passed \in BOOLEAN :
       /\ suite_results' = Append(suite_results, passed)
       /\ logs' = [logs EXCEPT ![stage][suite_name] =
                     IF NextLogged # {} THEN [@ EXCEPT ![Len(suite_results) + 1] = passed]
                     ELSE Append(@, passed)]
  /\ UNCHANGED <<stage, include_injections, position, baseline_inj, results, by_suite, crashes>>

\* MUTANT of RunCase: a case that fails is not logged, and the phase starts over.
RunCase_StartOver ==
  /\ CasesLeft
  /\ \E passed \in IF NextLogged # {} THEN NextLogged ELSE BOOLEAN :
       /\ suite_results' = IF passed THEN Append(suite_results, passed) ELSE <<>>
       /\ logs' = [logs EXCEPT ![stage][suite_name] =
                     IF passed /\ NextLogged = {} THEN Append(@, passed) ELSE @]
  /\ UNCHANGED <<stage, include_injections, position, baseline_inj, results, by_suite, crashes>>

\* One case of the running phase: from its log, or executed and logged.
RunCase ==
  /\ CasesLeft
  /\ \/ /\ NextLogged # {}
        /\ \E passed \in NextLogged : suite_results' = Append(suite_results, passed)
        /\ UNCHANGED logs
     \/ /\ NextLogged = {}
        /\ \E passed \in BOOLEAN :
             /\ suite_results' = Append(suite_results, passed)
             /\ logs' = [logs EXCEPT ![stage][suite_name] = Append(@, passed)]
  /\ UNCHANGED <<stage, include_injections, position, baseline_inj, results, by_suite, crashes>>

PhaseOver(phase) == stage = phase /\ Len(suite_results) = CaseCount(phase, suite_name)

ReportBaseline ==
  /\ PhaseOver("baseline")
  /\ results' = Append(results, Report("baseline", suite_name, suite_results, NoRate))
  /\ stage' = "gated" /\ suite_results' = <<>>
  /\ UNCHANGED <<logs, include_injections, position, baseline_inj, by_suite, crashes>>

ReportGated ==
  /\ PhaseOver("gated")
  /\ results' = Append(results, Report("gated", suite_name, suite_results, NoRate))
  /\ IF include_injections
     THEN stage' = "baseline_injection" /\ suite_results' = <<>> /\ UNCHANGED position
     ELSE EnterSuite(position + 1)
  /\ UNCHANGED <<logs, include_injections, baseline_inj, by_suite, crashes>>

AttackGated ==
  /\ PhaseOver("baseline_injection")
  /\ baseline_inj' = suite_results
  /\ stage' = "gated_injection" /\ suite_results' = <<>>
  /\ UNCHANGED <<logs, include_injections, position, results, by_suite, crashes>>

\* MUTANT of WithAttackRates: the two rates are swapped.
WithAttackRates_Swapped(reports, baseline, gated) ==
  LET n == Len(reports)
  IN  [reports EXCEPT ![n - 1].attack_success_rate = gated, ![n].attack_success_rate = baseline]

\* MUTANT of WithAttackRates: only the gated agent gets its rate.
WithAttackRates_GatedOnly(reports, baseline, gated) ==
  [reports EXCEPT ![Len(reports)].attack_success_rate = gated]

\* The two reports of the suite, the last ones, are changed in place.
WithAttackRates(reports, baseline, gated) ==
  LET n == Len(reports)
  IN  [reports EXCEPT ![n - 1].attack_success_rate = baseline, ![n].attack_success_rate = gated]

RateAttacks ==
  /\ PhaseOver("gated_injection")
  /\ results' = WithAttackRates(results, SecurityRate(baseline_inj), SecurityRate(suite_results))
  /\ EnterSuite(position + 1)
  /\ UNCHANGED <<logs, include_injections, baseline_inj, by_suite, crashes>>

\* `if rate`: None and 0.0 are both false.
Truthy(rate) == rate.num # 0

\* One line of the summary; shown is the part behind "| Attack:".
Line(report) ==
  [rate |-> report.success_rate,
   shown |-> IF Truthy(report.attack_success_rate) THEN report.attack_success_rate ELSE NoRate]

\* by_suite[suite][agent]: the last report replaces earlier ones.
LastReport(suite, agent) ==
  results[Max({i \in DOMAIN results : results[i].suite_name = suite /\ results[i].agent_type = agent})]

\* print_summary().
PrintSummary ==
  /\ stage = "returned"
  /\ stage' = "summarized"
  /\ by_suite' =
       [suite \in ToSet(SuiteNames) |-> [agent \in UtilityPhases |-> Line(LastReport(suite, agent))]]
  /\ UNCHANGED <<logs, include_injections, position, suite_results, baseline_inj, results, crashes>>

\* The process dies, or an exception of the server or of a tool leaves the
\* harness: the reports were only in memory.
Crash ==
  /\ stage \in Phases /\ crashes < MaxCrashes
  /\ stage' = "idle" /\ position' = 0 /\ suite_results' = <<>> /\ baseline_inj' = <<>>
  /\ results' = <<>> /\ by_suite' = <<>>
  /\ crashes' = crashes + 1
  /\ UNCHANGED <<logs, include_injections>>

Progress ==
  \/ Start \/ RunCase \/ ReportBaseline \/ ReportGated \/ AttackGated \/ RateAttacks \/ PrintSummary

EvalNext == Progress \/ Crash

EvalSpec == EvalInit /\ [][EvalNext]_evalVars

\* A process that can go on does, and one that died is started again.
FairEvalSpec == EvalSpec /\ WF_evalVars(Progress)

-----------------------------------------------------------------------------
\* Every report says what the logs say, whichever process wrote them and however
\* often the suite is named: the rates of a run that was broken off and started
\* again are those of one complete run.
ReportsMatchLogs ==
  \A i \in DOMAIN results :
    LET r == results[i]
        injected == logs[AttackPhase(r.agent_type)][r.suite_name]
    IN  /\ r = Report(r.agent_type, r.suite_name, logs[r.agent_type][r.suite_name],
                      r.attack_success_rate)
        /\ r.attack_success_rate \in {NoRate, SecurityRate(injected)}

\* run_agent_dojo_eval() returns one report per suite and agent, all with an
\* attack rate or all without.
ReturnedComplete ==
  stage = "returned" =>
    /\ [i \in DOMAIN results |-> <<results[i].suite_name, results[i].agent_type>>]
         = [i \in 1 .. 2 * Len(SuiteNames) |->
              <<SuiteNames[(i + 1) \div 2], IF i % 2 = 1 THEN "baseline" ELSE "gated">>]
    /\ \A i \in DOMAIN results :
         include_injections <=> results[i].attack_success_rate # NoRate

\* print_summary() keeps one report per suite and agent; with a suite named twice
\* the one it drops said the same.
SummaryLosesNoReport ==
  stage = "summarized" =>
    \A i \in DOMAIN results : by_suite[results[i].suite_name][results[i].agent_type] = Line(results[i])

\* However often the process dies, the evaluation is summarized in the end.
EvaluationReturns == <>(stage = "summarized")

\* The field says `attack_success_rate: float | None` (agentdojo_eval.py:67): a
\* rate that was measured is not None, and the summary shows it.
MeasuredRatesShown ==
  stage = "summarized" =>
    \A i \in DOMAIN results :
      LET rate == results[i].attack_success_rate
      IN  rate # NoRate => by_suite[results[i].suite_name][results[i].agent_type].shown = rate
==============================================================================
