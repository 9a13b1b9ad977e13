--------------------------- MODULE EvaluationProofs ---------------------------
(***************************************************************************)
(* The reports of the evaluation agree with the logs and none is missing   *)
(* or lost, for any suites, numbers of cases and number of crashes.        *)
(*                                                                         *)
(* The inductive invariant says that the running phase has read its log up *)
(* to where it is, and that what a report was made from is complete: a log *)
(* with an outcome for every case is never written again.                  *)
(***************************************************************************)
EXTENDS Evaluation, MinimumLemmas, TLAPS

Suites == ToSet(SuiteNames)

Complete(phase, suite) == Len(logs[phase][suite]) = CaseCount(phase, suite)

LogsInv ==
  /\ logs \in [Phases -> [Suites -> Seq(BOOLEAN)]]
  /\ \A phase \in Phases, suite \in Suites : Len(logs[phase][suite]) <= CaseCount(phase, suite)

Outcomes == Seq(BOOLEAN)
Reports ==
  [agent_type : UtilityPhases, suite_name : Suites, total_tasks : Nat,
   completed_tasks : {Passed(o) : o \in Outcomes}, success_rate : {UtilityRate(o) : o \in Outcomes},
   attack_success_rate : {NoRate} \cup {SecurityRate(o) : o \in Outcomes}]

\* What is read of the log of the running phase.
ReadInv ==
  /\ stage \in Phases \cup {"idle", "returned", "summarized"}
  /\ suite_results \in Seq(BOOLEAN)
  /\ stage \in Phases =>
       /\ position \in 1 .. Len(SuiteNames)
       /\ Len(suite_results) <= Len(logs[stage][suite_name])
       /\ \A i \in 1 .. Len(suite_results) : suite_results[i] = logs[stage][suite_name][i]
  /\ stage = "gated_injection" =>
       /\ baseline_inj = logs["baseline_injection"][suite_name]
       /\ Complete("baseline_injection", suite_name)

\* A report is made from complete logs.
Faithful(r) ==
  /\ r.agent_type \in UtilityPhases /\ r.suite_name \in Suites
  /\ Complete(r.agent_type, r.suite_name)
  /\ r = Report(r.agent_type, r.suite_name, logs[r.agent_type][r.suite_name],
                r.attack_success_rate)
  /\ \/ r.attack_success_rate = NoRate
     \/ /\ Complete(AttackPhase(r.agent_type), r.suite_name)
        /\ r.attack_success_rate = SecurityRate(logs[AttackPhase(r.agent_type)][r.suite_name])

IsReport(i, agent) == results[i].agent_type = agent /\ results[i].suite_name = suite_name

\* The reports, and which of them the running phase belongs to.
ResultsInv ==
  /\ results \in Seq(Reports)
  /\ \A i \in DOMAIN results : Faithful(results[i])
  /\ stage \in InjectionPhases =>
       /\ Len(results) >= 2
       /\ IsReport(Len(results) - 1, "baseline")
       /\ IsReport(Len(results), "gated")
  /\ stage = "gated" => Len(results) >= 1 /\ IsReport(Len(results), "baseline")

EvalInv == LogsInv /\ ReadInv /\ ResultsInv

LEMMA SuiteInLoop ==
  ASSUME NEW k \in 1 .. Len(SuiteNames)
  PROVE  SuiteNames[k] \in Suites
BY EvaluationAssumption DEF Suites, ToSet

LEMMA CountIsNat ==
  ASSUME NEW phase \in Phases, NEW suite \in Suites
  PROVE  CaseCount(phase, suite) \in Nat
BY EvaluationAssumption DEF CaseCount, Suites

LEMMA EvalInitInv == EvalInit => EvalInv
<1> SUFFICES ASSUME EvalInit
             PROVE  EvalInv
  OBVIOUS
<1>1. LogsInv
  <2>1. logs \in [Phases -> [Suites -> Seq(BOOLEAN)]]
    BY DEF EvalInit, Suites
  <2>2. ASSUME NEW phase \in Phases, NEW suite \in Suites
        PROVE  Len(logs[phase][suite]) <= CaseCount(phase, suite)
    BY CountIsNat DEF EvalInit, Suites
  <2> QED  BY <2>1, <2>2 DEF LogsInv
<1>2. ReadInv
  BY DEF EvalInit, ReadInv, Phases, UtilityPhases, InjectionPhases
<1>3. ResultsInv
  BY DEF EvalInit, ResultsInv, InjectionPhases
<1> QED  BY <1>1, <1>2, <1>3 DEF EvalInv

\* At the end of a phase the outcomes read are the whole log.
LEMMA ReadAll ==
  ASSUME EvalInv, NEW phase \in Phases, PhaseOver(phase)
  PROVE  /\ suite_name \in Suites
         /\ suite_results = logs[phase][suite_name]
         /\ Complete(phase, suite_name)
<1>1. suite_name \in Suites
  BY SuiteInLoop DEF EvalInv, ReadInv, PhaseOver, suite_name
<1>2. logs[phase][suite_name] \in Seq(BOOLEAN) /\ suite_results \in Seq(BOOLEAN)
  BY <1>1 DEF EvalInv, LogsInv, ReadInv
<1>3. /\ Len(suite_results) = CaseCount(phase, suite_name)
      /\ Len(suite_results) <= Len(logs[phase][suite_name])
      /\ Len(logs[phase][suite_name]) <= CaseCount(phase, suite_name)
      /\ \A i \in 1 .. Len(suite_results) : suite_results[i] = logs[phase][suite_name][i]
  BY <1>1 DEF EvalInv, LogsInv, ReadInv, PhaseOver
<1>4. CaseCount(phase, suite_name) \in Nat
  BY <1>1, CountIsNat
<1>5. Len(suite_results) = Len(logs[phase][suite_name])
  BY <1>2, <1>3, <1>4
<1> QED  BY <1>1, <1>2, <1>3, <1>5 DEF Complete

\* A step that runs a case: the log read so far, or one new outcome behind it.
LEMMA RunCaseInv == EvalInv /\ RunCase => EvalInv'
<1> SUFFICES ASSUME EvalInv, RunCase
             PROVE  EvalInv'
  OBVIOUS
<1> DEFINE log == logs[stage][suite_name]
<1>1. /\ stage \in Phases /\ suite_name \in Suites /\ position \in 1 .. Len(SuiteNames)
      /\ log \in Seq(BOOLEAN) /\ suite_results \in Seq(BOOLEAN)
      /\ CaseCount(stage, suite_name) \in Nat
      /\ Len(suite_results) < CaseCount(stage, suite_name)
      /\ Len(suite_results) <= Len(log)
      /\ \A i \in 1 .. Len(suite_results) : suite_results[i] = log[i]
  BY SuiteInLoop, CountIsNat DEF RunCase, CasesLeft, EvalInv, LogsInv, ReadInv, suite_name
<1>2. UNCHANGED <<stage, include_injections, position, baseline_inj, results, suite_name>>
  BY DEF RunCase, suite_name
<1>3. CASE NextLogged # {}
  <2>1. Len(suite_results) < Len(log) /\ NextLogged = {log[Len(suite_results) + 1]}
    BY <1>3 DEF NextLogged
  <2>2. suite_results' = Append(suite_results, log[Len(suite_results) + 1]) /\ logs' = logs
    BY <1>3, <2>1 DEF RunCase
  <2>3. ReadInv'
    <3>1. suite_results' \in Seq(BOOLEAN)
      BY <1>1, <2>1, <2>2
    <3>2. Len(suite_results') <= Len(log)
          /\ \A i \in 1 .. Len(suite_results') : suite_results'[i] = log[i]
      BY <1>1, <2>1, <2>2
    <3> QED  BY <1>1, <1>2, <2>2, <3>1, <3>2 DEF EvalInv, ReadInv, Complete
  <2> QED  BY <1>2, <2>2, <2>3 DEF EvalInv, LogsInv, ResultsInv, Faithful, Complete, IsReport
<1>4. CASE NextLogged = {}
  <2>1. Len(suite_results) = Len(log)
    <3>1. CASE Len(suite_results) < Len(log)
      BY <1>4, <3>1 DEF NextLogged
    <3> QED  BY <1>1, <3>1
  <2>2. PICK passed \in BOOLEAN :
          /\ suite_results' = Append(suite_results, passed)
          /\ logs' = [logs EXCEPT ![stage][suite_name] = Append(@, passed)]
    BY <1>4 DEF RunCase
  <2>3. /\ logs'[stage][suite_name] = Append(log, passed)
        /\ \A phase \in Phases, suite \in Suites :
             <<phase, suite>> # <<stage, suite_name>> => logs'[phase][suite] = logs[phase][suite]
    BY <1>1, <2>2 DEF EvalInv, LogsInv
  <2>4. \A phase \in Phases, suite \in Suites : Complete(phase, suite) =>
          /\ logs'[phase][suite] = logs[phase][suite]
          /\ Complete(phase, suite)'
    BY <1>1, <2>1, <2>3 DEF Complete
  <2>5. LogsInv'
    <3>1. logs' \in [Phases -> [Suites -> Seq(BOOLEAN)]]
      BY <1>1, <2>2 DEF EvalInv, LogsInv
    <3>2. Len(logs'[stage][suite_name]) <= CaseCount(stage, suite_name)
      BY <1>1, <2>1, <2>3
    <3>3. ASSUME NEW phase \in Phases, NEW suite \in Suites
          PROVE  Len(logs'[phase][suite]) <= CaseCount(phase, suite)
      <4>1. CASE <<phase, suite>> = <<stage, suite_name>>
        BY <3>2, <4>1
      <4>2. CASE <<phase, suite>> # <<stage, suite_name>>
        BY <2>3, <4>2 DEF EvalInv, LogsInv
      <4> QED  BY <4>1, <4>2
    <3> QED  BY <3>1, <3>3 DEF LogsInv
  <2>6. ReadInv'
    <3>1. suite_results' \in Seq(BOOLEAN)
      BY <1>1, <2>2
    <3>2. /\ Len(suite_results') <= Len(logs'[stage][suite_name])
          /\ \A i \in 1 .. Len(suite_results') : suite_results'[i] = logs'[stage][suite_name][i]
      BY <1>1, <2>1, <2>2, <2>3
    <3>3. stage = "gated_injection" =>
            /\ baseline_inj = logs'["baseline_injection"][suite_name]
            /\ Complete("baseline_injection", suite_name)'
      BY <1>1, <1>2, <2>4 DEF EvalInv, ReadInv, Phases, InjectionPhases
    <3> QED  BY <1>1, <1>2, <3>1, <3>2, <3>3 DEF EvalInv, ReadInv
  <2>7. ResultsInv'
    <3>1. ASSUME NEW i \in DOMAIN results, Faithful(results[i])
          PROVE  Faithful(results[i])'
      <4>1. AttackPhase(results[i].agent_type) \in Phases /\ results[i].agent_type \in Phases
        BY <3>1 DEF Faithful, AttackPhase, Phases, InjectionPhases
      <4> QED  BY <1>2, <2>4, <3>1, <4>1 DEF Faithful
    <3> QED  BY <1>2, <3>1 DEF EvalInv, ResultsInv, IsReport
  <2> QED  BY <2>5, <2>6, <2>7 DEF EvalInv
<1> QED  BY <1>3, <1>4

\* A new report is faithful, and it is behind those there were.
LEMMA ReportInv ==
  ASSUME EvalInv, NEW agent \in UtilityPhases, PhaseOver(agent),
         NEW report, report = Report(agent, suite_name, suite_results, NoRate),
         results' = Append(results, report), UNCHANGED logs
  PROVE  /\ (results \in Seq(Reports))'
         /\ Len(results') = Len(results) + 1
         /\ \A i \in DOMAIN results : results'[i] = results[i]
         /\ results'[Len(results')].agent_type = agent
         /\ results'[Len(results')].suite_name = suite_name
         /\ (\A i \in DOMAIN results : Faithful(results[i]))'
<1>1. suite_name \in Suites /\ suite_results = logs[agent][suite_name] /\ Complete(agent, suite_name)
  BY ReadAll DEF Phases
<1>2. report \in Reports
  <2>1. suite_results \in Outcomes
    BY DEF EvalInv, ReadInv, Outcomes
  <2>2. Len(suite_results) \in Nat
    BY DEF EvalInv, ReadInv
  <2> QED  BY <1>1, <2>1, <2>2 DEF Report, Reports
<1>3. results \in Seq(Reports)
  BY DEF EvalInv, ResultsInv
<1>4. /\ results' \in Seq(Reports)
      /\ Len(results') = Len(results) + 1
      /\ \A i \in DOMAIN results : results'[i] = results[i]
      /\ results'[Len(results')] = report
      /\ \A i \in DOMAIN results' : i \in DOMAIN results \/ i = Len(results')
  BY <1>2, <1>3
<1>5. Faithful(report)'
  <2>1. report.agent_type = agent /\ report.suite_name = suite_name
        /\ report.attack_success_rate = NoRate
    BY DEF Report
  <2> QED  BY <1>1, <2>1 DEF Faithful, Complete
<1>6. ASSUME NEW i \in DOMAIN results
      PROVE  Faithful(results[i])'
  BY <1>4 DEF EvalInv, ResultsInv, Faithful, Complete
<1>7. (\A i \in DOMAIN results : Faithful(results[i]))'
  BY <1>4, <1>5, <1>6 DEF Faithful, Complete
<1> QED  BY <1>4, <1>7 DEF Report

\* The next suite of the loop starts with nothing read.
LEMMA EnterSuiteInv ==
  ASSUME LogsInv, NEW k \in Nat \ {0}, EnterSuite(k), UNCHANGED logs
  PROVE  LogsInv' /\ ReadInv' /\ stage' \in {"baseline", "returned"}
<1>1. LogsInv'
  BY DEF LogsInv
<1>2. stage' \in {"baseline", "returned"} /\ suite_results' = <<>> /\ position' = k
      /\ (stage' = "baseline" => k <= Len(SuiteNames))
  BY DEF EnterSuite
<1>3. stage' = "baseline" => /\ position' \in 1 .. Len(SuiteNames)
                            /\ (suite_name \in Suites)'
  BY <1>2, SuiteInLoop, EvaluationAssumption DEF suite_name
<1>4. stage' = "baseline" => 0 <= Len(logs'[stage'][suite_name'])
  BY <1>1, <1>3 DEF LogsInv, Phases, UtilityPhases
<1>5. Len(suite_results') = 0 /\ suite_results' \in Seq(BOOLEAN)
  BY <1>2
<1> QED  BY <1>1, <1>2, <1>3, <1>4, <1>5 DEF ReadInv, Phases, UtilityPhases, InjectionPhases

\* A phase that follows another one of the same suite starts with nothing read.
LEMMA NextPhaseInv ==
  ASSUME EvalInv, NEW phase \in Phases, PhaseOver(phase),
         stage' \in {"gated", "baseline_injection"}, suite_results' = <<>>,
         UNCHANGED <<logs, position>>
  PROVE  LogsInv' /\ ReadInv'
<1>1. suite_name \in Suites /\ suite_name' = suite_name /\ position \in 1 .. Len(SuiteNames)
  BY ReadAll DEF EvalInv, ReadInv, PhaseOver, suite_name
<1>2. LogsInv'
  BY DEF EvalInv, LogsInv
<1>3. stage' \in Phases
  BY DEF Phases, UtilityPhases, InjectionPhases
<1>4. 0 <= Len(logs'[stage'][suite_name'])
  BY <1>1, <1>2, <1>3 DEF LogsInv
<1>5. Len(suite_results') = 0 /\ suite_results' \in Seq(BOOLEAN)
  OBVIOUS
<1> QED  BY <1>1, <1>2, <1>3, <1>4, <1>5 DEF ReadInv

LEMMA StartInv == EvalInv /\ Start => EvalInv'
<1> SUFFICES ASSUME EvalInv, Start
             PROVE  EvalInv'
  OBVIOUS
<1>1. LogsInv' /\ ReadInv' /\ stage' \in {"baseline", "returned"}
  BY EnterSuiteInv DEF EvalInv, Start
<1>2. results' = <<>>
  BY DEF Start
<1> QED  BY <1>1, <1>2 DEF EvalInv, ResultsInv, InjectionPhases

LEMMA ReportBaselineInv == EvalInv /\ ReportBaseline => EvalInv'
<1> SUFFICES ASSUME EvalInv, ReportBaseline
             PROVE  EvalInv'
  OBVIOUS
<1>1. /\ PhaseOver("baseline") /\ stage' = "gated" /\ suite_results' = <<>>
      /\ UNCHANGED <<logs, position>>
      /\ results' = Append(results, Report("baseline", suite_name, suite_results, NoRate))
  BY DEF ReportBaseline
<1>2. LogsInv' /\ ReadInv'
  BY <1>1, NextPhaseInv DEF Phases, UtilityPhases
<1>3. ResultsInv'
  <2>1. /\ (results \in Seq(Reports))' /\ Len(results') = Len(results) + 1
        /\ results'[Len(results')].agent_type = "baseline"
        /\ results'[Len(results')].suite_name = suite_name
        /\ (\A i \in DOMAIN results : Faithful(results[i]))'
    BY <1>1, ReportInv DEF UtilityPhases
  <2>2. suite_name' = suite_name /\ Len(results) \in Nat
    BY <1>1 DEF suite_name, EvalInv, ResultsInv
  <2> QED  BY <1>1, <2>1, <2>2 DEF ResultsInv, IsReport, InjectionPhases
<1> QED  BY <1>2, <1>3 DEF EvalInv

LEMMA ReportGatedInv == EvalInv /\ ReportGated => EvalInv'
<1> SUFFICES ASSUME EvalInv, ReportGated
             PROVE  EvalInv'
  OBVIOUS
<1>1. /\ PhaseOver("gated") /\ UNCHANGED logs
      /\ results' = Append(results, Report("gated", suite_name, suite_results, NoRate))
  BY DEF ReportGated
<1>2. /\ (results \in Seq(Reports))' /\ Len(results') = Len(results) + 1
      /\ \A i \in DOMAIN results : results'[i] = results[i]
      /\ results'[Len(results')].agent_type = "gated"
      /\ results'[Len(results')].suite_name = suite_name
      /\ (\A i \in DOMAIN results : Faithful(results[i]))'
  BY <1>1, ReportInv DEF UtilityPhases
<1>3. CASE include_injections
  <2>1. stage' = "baseline_injection" /\ suite_results' = <<>> /\ UNCHANGED position
    BY <1>3 DEF ReportGated
  <2>2. LogsInv' /\ ReadInv'
    BY <1>1, <2>1, NextPhaseInv DEF Phases, UtilityPhases
  <2>3. suite_name' = suite_name /\ results \in Seq(Reports) /\ Len(results) >= 1
        /\ IsReport(Len(results), "baseline")
    BY <1>1, <2>1 DEF suite_name, EvalInv, ResultsInv, PhaseOver
  <2>4. Len(results) \in DOMAIN results
    BY <2>3
  <2>5. results'[Len(results)] = results[Len(results)]
    BY <1>2, <2>4
  <2>6. Len(results') >= 2 /\ Len(results') - 1 = Len(results)
    BY <1>2, <2>3
  <2> QED  BY <1>2, <2>1, <2>2, <2>3, <2>5, <2>6 DEF EvalInv, ResultsInv, IsReport
<1>4. CASE ~ include_injections
  <2>1. EnterSuite(position + 1) /\ position + 1 \in Nat \ {0}
    BY <1>1, <1>4 DEF ReportGated, EvalInv, ReadInv, PhaseOver, Phases, UtilityPhases
  <2>2. LogsInv' /\ ReadInv' /\ stage' \in {"baseline", "returned"}
    BY <1>1, <2>1, EnterSuiteInv DEF EvalInv
  <2> QED  BY <1>2, <2>2 DEF EvalInv, ResultsInv, InjectionPhases
<1> QED  BY <1>3, <1>4

LEMMA AttackGatedInv == EvalInv /\ AttackGated => EvalInv'
<1> SUFFICES ASSUME EvalInv, AttackGated
             PROVE  EvalInv'
  OBVIOUS
<1>1. /\ PhaseOver("baseline_injection") /\ stage' = "gated_injection" /\ suite_results' = <<>>
      /\ baseline_inj' = suite_results /\ UNCHANGED <<logs, position, results, suite_name>>
      /\ stage = "baseline_injection"
  BY DEF AttackGated, PhaseOver, suite_name
<1>2. /\ suite_name \in Suites /\ suite_results = logs["baseline_injection"][suite_name]
      /\ Complete("baseline_injection", suite_name)
  BY <1>1, ReadAll DEF Phases, InjectionPhases
<1>3. LogsInv'
  BY <1>1 DEF EvalInv, LogsInv
<1>4. ReadInv'
  <2>1. 0 <= Len(logs'["gated_injection"][suite_name'])
    BY <1>1, <1>2 DEF EvalInv, LogsInv, Phases, InjectionPhases
  <2>2. Len(suite_results') = 0 /\ suite_results' \in Seq(BOOLEAN)
    BY <1>1
  <2>3. position \in 1 .. Len(SuiteNames)
    BY <1>1 DEF EvalInv, ReadInv, Phases, InjectionPhases
  <2> QED  BY <1>1, <1>2, <2>1, <2>2, <2>3 DEF ReadInv, Complete, Phases, InjectionPhases
<1>5. ResultsInv'
  BY <1>1 DEF EvalInv, ResultsInv, Faithful, Complete, IsReport, InjectionPhases
<1> QED  BY <1>3, <1>4, <1>5 DEF EvalInv

LEMMA RateAttacksInv == EvalInv /\ RateAttacks => EvalInv'
<1> SUFFICES ASSUME EvalInv, RateAttacks
             PROVE  EvalInv'
  OBVIOUS
<1> DEFINE n == Len(results)
           base == SecurityRate(baseline_inj)
           gat == SecurityRate(suite_results)
<1>1. /\ PhaseOver("gated_injection") /\ stage = "gated_injection" /\ UNCHANGED logs
      /\ results' = WithAttackRates(results, base, gat) /\ EnterSuite(position + 1)
  BY DEF RateAttacks, PhaseOver
<1>2. /\ suite_name \in Suites /\ suite_results = logs["gated_injection"][suite_name]
      /\ Complete("gated_injection", suite_name)
  BY <1>1, ReadAll DEF Phases, InjectionPhases
<1>3. /\ baseline_inj = logs["baseline_injection"][suite_name]
      /\ Complete("baseline_injection", suite_name)
      /\ position \in 1 .. Len(SuiteNames)
  BY <1>1 DEF EvalInv, ReadInv, Phases, InjectionPhases
<1>4. LogsInv' /\ ReadInv' /\ stage' \in {"baseline", "returned"}
  BY <1>1, <1>3, EnterSuiteInv DEF EvalInv
<1>5. /\ results \in Seq(Reports) /\ n \in Nat /\ n >= 2
      /\ IsReport(n - 1, "baseline") /\ IsReport(n, "gated")
      /\ \A i \in DOMAIN results : Faithful(results[i])
  BY <1>1 DEF EvalInv, ResultsInv, InjectionPhases
<1>6. base \in {SecurityRate(o) : o \in Outcomes} /\ gat \in {SecurityRate(o) : o \in Outcomes}
  BY <1>2, <1>3 DEF EvalInv, LogsInv, Outcomes, Phases, InjectionPhases
<1>7. DOMAIN results = 1 .. n /\ n - 1 \in 1 .. n /\ n \in 1 .. n /\ n - 1 # n
  BY <1>5
<1> HIDE DEF n, base, gat
<1>8. /\ DOMAIN results' = 1 .. n
      /\ \A i \in 1 .. n : i # n - 1 /\ i # n => results'[i] = results[i]
      /\ results'[n - 1] = [results[n - 1] EXCEPT !.attack_success_rate = base]
      /\ results'[n] = [results[n] EXCEPT !.attack_success_rate = gat]
  BY <1>1, <1>7 DEF WithAttackRates, n
<1>9. results' \in Seq(Reports)
  <2>1. \A r \in Reports : [r EXCEPT !.attack_success_rate = base] \in Reports
                         /\ [r EXCEPT !.attack_success_rate = gat] \in Reports
    BY <1>6 DEF Reports
  <2>2. \A i \in 1 .. n : results[i] \in Reports
    BY <1>5, <1>7
  <2>3. \A i \in 1 .. n : results'[i] \in Reports
    BY <1>7, <1>8, <2>1, <2>2
  <2>4. results' = [i \in 1 .. n |-> results'[i]]
    BY <1>1, <1>5, <1>7 DEF WithAttackRates, n
  <2> QED  BY <1>5, <2>3, <2>4
<1>10. ASSUME NEW i \in 1 .. n
       PROVE  Faithful(results[i])'
  <2>1. CASE i # n - 1 /\ i # n
    BY <1>1, <1>5, <1>7, <1>8, <2>1 DEF Faithful, Complete
  <2>2. CASE i = n - 1
    <3>1. /\ results[i].agent_type = "baseline" /\ results[i].suite_name = suite_name
          /\ Faithful(results[i])
      BY <1>5, <1>7, <2>2 DEF IsReport
    <3>2. results'[i] = Report("baseline", suite_name, logs["baseline"][suite_name], base)
      BY <1>8, <2>2, <3>1 DEF Faithful, Report
    <3>3. /\ results'[i].agent_type = "baseline" /\ results'[i].suite_name = suite_name
          /\ results'[i].attack_success_rate = base
      BY <3>2 DEF Report
    <3> QED  BY <1>1, <1>2, <1>3, <3>1, <3>2, <3>3 DEF Faithful, Complete, AttackPhase, base
  <2>3. CASE i = n
    <3>1. /\ results[i].agent_type = "gated" /\ results[i].suite_name = suite_name
          /\ Faithful(results[i])
      BY <1>5, <1>7, <2>3 DEF IsReport
    <3>2. results'[i] = Report("gated", suite_name, logs["gated"][suite_name], gat)
      BY <1>8, <2>3, <3>1 DEF Faithful, Report
    <3>3. /\ results'[i].agent_type = "gated" /\ results'[i].suite_name = suite_name
          /\ results'[i].attack_success_rate = gat
      BY <3>2 DEF Report
    <3> QED  BY <1>1, <1>2, <3>1, <3>2, <3>3 DEF Faithful, Complete, AttackPhase, gat
  <2> QED  BY <2>1, <2>2, <2>3
<1>11. ResultsInv'
  <2>1. (\A i \in DOMAIN results : Faithful(results[i]))'
    BY <1>8, <1>10
  <2> QED  BY <1>4, <1>9, <2>1 DEF ResultsInv, InjectionPhases
<1> QED  BY <1>4, <1>11 DEF EvalInv

LEMMA EndInv == EvalInv /\ (PrintSummary \/ Crash) => EvalInv'
<1> SUFFICES ASSUME EvalInv, PrintSummary \/ Crash
             PROVE  EvalInv'
  OBVIOUS
<1>1. stage' \in {"summarized", "idle"} /\ logs' = logs
      /\ (suite_results' = suite_results \/ suite_results' = <<>>)
      /\ (results' = results \/ results' = <<>>)
  BY DEF PrintSummary, Crash
<1>2. LogsInv'
  BY <1>1 DEF EvalInv, LogsInv
<1>3. ReadInv'
  <2>1. suite_results \in Seq(BOOLEAN) /\ <<>> \in Seq(BOOLEAN)
    BY DEF EvalInv, ReadInv
  <2>2. suite_results' \in Seq(BOOLEAN)
    BY <1>1, <2>1
  <2> QED  BY <1>1, <2>2 DEF ReadInv, Phases, UtilityPhases, InjectionPhases
<1>4. ResultsInv'
  <2>1. (results \in Seq(Reports))' /\ (\A i \in DOMAIN results : Faithful(results[i]))'
    <3>1. CASE results' = results
      BY <1>1, <3>1 DEF EvalInv, ResultsInv, Faithful, Complete
    <3>2. CASE results' = <<>>
      BY <3>2
    <3> QED  BY <1>1, <3>1, <3>2
  <2> QED  BY <1>1, <2>1 DEF ResultsInv, InjectionPhases
<1> QED  BY <1>2, <1>3, <1>4 DEF EvalInv

LEMMA EvalStepInv == EvalInv /\ [EvalNext]_evalVars => EvalInv'
<1>1. EvalInv /\ UNCHANGED evalVars => EvalInv'
  BY DEF evalVars, processVars, EvalInv, LogsInv, ReadInv, ResultsInv, Faithful, Complete,
         IsReport, suite_name
<1> QED  BY <1>1, StartInv, RunCaseInv, ReportBaselineInv, ReportGatedInv, AttackGatedInv,
            RateAttacksInv, EndInv DEF EvalNext, Progress

THEOREM EvalInvariant == EvalSpec => []EvalInv
BY EvalInitInv, EvalStepInv, PTL DEF EvalSpec

\* Every report agrees with the complete logs of its agent and suite, whichever
\* processes wrote them, for any suites and any number of crashes.
THEOREM ReportsAreFaithful == EvalSpec => []ReportsMatchLogs
<1>1. EvalInv => ReportsMatchLogs
  BY DEF EvalInv, ResultsInv, Faithful, ReportsMatchLogs
<1> QED  BY <1>1, EvalInvariant, PTL

-----------------------------------------------------------------------------
(***************************************************************************)
(* The list of reports                                                     *)
(***************************************************************************)

Finished == position - 1    \* the suites the loop has left behind

\* How many reports of the current suite there are.
Current ==
  IF stage = "gated" THEN 1 ELSE IF stage \in InjectionPhases THEN 2 ELSE 0

AgentAt(i) == IF i % 2 = 1 THEN "baseline" ELSE "gated"

\* What a report says, at its place in the list.
InOrder(i, r) ==
  /\ r.suite_name = SuiteNames[(i + 1) \div 2] /\ r.agent_type = AgentAt(i)
  /\ r.attack_success_rate # NoRate <=> include_injections /\ i <= 2 * Finished

\* The reports stand in the order of the loop, and those of the suites that are
\* finished have got their attack rates, or none has.
OrderInv ==
  stage # "idle" =>
    /\ Finished \in 0 .. Len(SuiteNames)
    /\ stage \in {"returned", "summarized"} => Finished = Len(SuiteNames)
    /\ stage \in InjectionPhases => include_injections
    /\ Len(results) = 2 * Finished + Current
    /\ \A i \in DOMAIN results : InOrder(i, results[i])
    /\ SummaryLosesNoReport

\* A phase runs inside of the loop.
LEMMA InLoop ==
  ASSUME EvalInv, OrderInv, NEW phase \in Phases, PhaseOver(phase)
  PROVE  /\ stage = phase /\ stage # "idle" /\ stage \notin {"returned", "summarized"}
         /\ position \in Nat /\ Finished \in Nat /\ position = Finished + 1
         /\ Finished < Len(SuiteNames) /\ Len(SuiteNames) \in Nat
         /\ results \in Seq(Reports) /\ Len(results) \in Nat /\ DOMAIN results = 1 .. Len(results)
<1>1. Len(SuiteNames) \in Nat
  BY EvaluationAssumption
<1> QED  BY <1>1 DEF EvalInv, ReadInv, ResultsInv, PhaseOver, Phases, UtilityPhases, InjectionPhases,
            Finished

LEMMA OrderInitInv == EvalInit => OrderInv
BY DEF EvalInit, OrderInv

LEMMA StartOrder == Start => OrderInv'
<1> SUFFICES ASSUME Start
             PROVE  OrderInv'
  OBVIOUS
<1>1. /\ position' = 1 /\ results' = <<>>
      /\ stage' = IF 1 <= Len(SuiteNames) THEN "baseline" ELSE "returned"
  BY DEF Start, EnterSuite
<1>2. Len(SuiteNames) \in Nat
  BY EvaluationAssumption
<1> QED  BY <1>1, <1>2 DEF OrderInv, Finished, Current, SummaryLosesNoReport, InjectionPhases

\* The two reports of a suite.
LEMMA Halves ==
  \A k \in Nat : /\ ((2 * k + 1) + 1) \div 2 = k + 1 /\ (2 * k + 1) % 2 = 1
                  /\ ((2 * k + 2) + 1) \div 2 = k + 1 /\ (2 * k + 2) % 2 = 0
OBVIOUS

LEMMA ReportBaselineOrder == EvalInv /\ OrderInv /\ ReportBaseline => OrderInv'
<1> SUFFICES ASSUME EvalInv, OrderInv, ReportBaseline
             PROVE  OrderInv'
  OBVIOUS
<1> DEFINE report == Report("baseline", suite_name, suite_results, NoRate)
           n == 2 * Finished + 1
<1>1. /\ PhaseOver("baseline") /\ stage' = "gated" /\ results' = Append(results, report)
      /\ UNCHANGED <<include_injections, position>>
  BY DEF ReportBaseline
<1>2. /\ stage = "baseline" /\ stage # "idle" /\ Finished \in Nat /\ position = Finished + 1
      /\ Finished < Len(SuiteNames) /\ Len(SuiteNames) \in Nat
      /\ results \in Seq(Reports) /\ DOMAIN results = 1 .. Len(results)
  BY <1>1, InLoop DEF Phases, UtilityPhases
<1>3. Len(results) = 2 * Finished /\ \A i \in DOMAIN results : InOrder(i, results[i])
  BY <1>2 DEF OrderInv, Current, InOrder, InjectionPhases
<1>4. /\ Len(results') = n /\ DOMAIN results' = 1 .. n
      /\ \A i \in 1 .. n : results'[i] = IF i = n THEN report ELSE results[i]
  BY <1>1, <1>2, <1>3
<1>5. InOrder(n, report)
  BY <1>2, Halves DEF InOrder, Report, AgentAt, suite_name, NoRate
<1>6. \A i \in DOMAIN results' : InOrder(i, results'[i])
  BY <1>2, <1>3, <1>4, <1>5
<1>7. Finished' = Finished /\ Current' = 1
  BY <1>1 DEF Finished, Current
<1> QED  BY <1>1, <1>2, <1>4, <1>6, <1>7
         DEF OrderInv, InOrder, SummaryLosesNoReport, InjectionPhases

LEMMA ReportGatedOrder == EvalInv /\ OrderInv /\ ReportGated => OrderInv'
<1> SUFFICES ASSUME EvalInv, OrderInv, ReportGated
             PROVE  OrderInv'
  OBVIOUS
<1> DEFINE report == Report("gated", suite_name, suite_results, NoRate)
           n == 2 * Finished + 2
<1>1. /\ PhaseOver("gated") /\ results' = Append(results, report) /\ UNCHANGED include_injections
  BY DEF ReportGated
<1>2. /\ stage = "gated" /\ stage # "idle" /\ Finished \in Nat /\ position = Finished + 1
      /\ Finished < Len(SuiteNames) /\ Len(SuiteNames) \in Nat
      /\ results \in Seq(Reports) /\ DOMAIN results = 1 .. Len(results)
  BY <1>1, InLoop DEF Phases, UtilityPhases
<1>3. Len(results) = 2 * Finished + 1 /\ \A i \in DOMAIN results : InOrder(i, results[i])
  BY <1>2 DEF OrderInv, Current, InOrder
<1>4. /\ Len(results') = n /\ DOMAIN results' = 1 .. n
      /\ \A i \in 1 .. n : results'[i] = IF i = n THEN report ELSE results[i]
  BY <1>1, <1>2, <1>3
<1>5. InOrder(n, report)
  BY <1>2, Halves DEF InOrder, Report, AgentAt, suite_name, NoRate
<1>6. \A i \in 1 .. n : InOrder(i, results'[i])
  BY <1>2, <1>3, <1>4, <1>5
<1>7. CASE include_injections
  <2>1. stage' = "baseline_injection" /\ Finished' = Finished /\ Current' = 2
    BY <1>1, <1>7 DEF ReportGated, Finished, Current, InjectionPhases
  <2> QED  BY <1>1, <1>2, <1>4, <1>6, <1>7, <2>1
           DEF OrderInv, InOrder, SummaryLosesNoReport
<1>8. CASE ~ include_injections
  <2>1. /\ stage' = IF position + 1 <= Len(SuiteNames) THEN "baseline" ELSE "returned"
        /\ position' = position + 1
    BY <1>1, <1>8 DEF ReportGated, EnterSuite
  <2>2. Finished' = Finished + 1 /\ Current' = 0
    BY <1>2, <2>1 DEF Finished, Current, InjectionPhases
  <2>3. ASSUME NEW i \in 1 .. n
        PROVE  /\ results'[i].suite_name = SuiteNames[(i + 1) \div 2]
               /\ results'[i].agent_type = AgentAt(i)
               /\ results'[i].attack_success_rate = NoRate
    BY <1>6, <1>8 DEF InOrder
  <2>4. (\A i \in DOMAIN results : InOrder(i, results[i]))'
    BY <1>1, <1>4, <1>8, <2>3 DEF InOrder
  <2> QED  BY <1>1, <1>2, <1>4, <1>8, <2>1, <2>2, <2>4
           DEF OrderInv, SummaryLosesNoReport, InjectionPhases
<1> QED  BY <1>7, <1>8

\* A measured rate is not None.
LEMMA MeasuredIsRate ==
  ASSUME NEW outcomes \in Seq(BOOLEAN)
  PROVE  SecurityRate(outcomes) # NoRate
<1>1. CASE outcomes = <<>>
  BY <1>1 DEF SecurityRate, NoRate
<1>2. CASE outcomes # <<>>
  BY <1>2 DEF SecurityRate, NoRate
<1> QED  BY <1>1, <1>2

LEMMA RateAttacksOrder == EvalInv /\ OrderInv /\ RateAttacks => OrderInv'
<1> SUFFICES ASSUME EvalInv, OrderInv, RateAttacks
             PROVE  OrderInv'
  OBVIOUS
<1> DEFINE n == 2 * Finished + 2
           base == SecurityRate(baseline_inj)
           gat == SecurityRate(suite_results)
<1>1. /\ PhaseOver("gated_injection") /\ results' = WithAttackRates(results, base, gat)
      /\ EnterSuite(position + 1) /\ UNCHANGED include_injections
  BY DEF RateAttacks
<1>2. /\ stage = "gated_injection" /\ stage # "idle" /\ Finished \in Nat /\ position = Finished + 1
      /\ Finished < Len(SuiteNames) /\ Len(SuiteNames) \in Nat
      /\ results \in Seq(Reports) /\ DOMAIN results = 1 .. Len(results)
  BY <1>1, InLoop DEF Phases, InjectionPhases
<1>3. /\ Len(results) = n /\ include_injections
      /\ \A i \in DOMAIN results : InOrder(i, results[i])
  BY <1>2 DEF OrderInv, Current, InOrder, InjectionPhases
<1>4. base # NoRate /\ gat # NoRate
  <2>1. suite_name \in Suites
    BY <1>1, ReadAll DEF Phases, InjectionPhases
  <2>2. baseline_inj \in Seq(BOOLEAN) /\ suite_results \in Seq(BOOLEAN)
    BY <1>2, <2>1 DEF EvalInv, ReadInv, LogsInv, Phases, InjectionPhases
  <2> QED  BY <2>2, MeasuredIsRate
<1> HIDE DEF base, gat
<1>5. /\ DOMAIN results' = 1 .. n /\ Len(results') = n
      /\ \A i \in 1 .. n : i # n - 1 /\ i # n => results'[i] = results[i]
      /\ results'[n - 1] = [results[n - 1] EXCEPT !.attack_success_rate = base]
      /\ results'[n] = [results[n] EXCEPT !.attack_success_rate = gat]
  <2>1. n - 1 \in 1 .. n /\ n \in 1 .. n /\ n - 1 # n /\ n \in Nat
    BY <1>2
  <2> HIDE DEF n
  <2>2. /\ results' = [[results EXCEPT ![n - 1] = [results[n - 1] EXCEPT !.attack_success_rate = base]]
                        EXCEPT ![n] = [results[n] EXCEPT !.attack_success_rate = gat]]
        /\ DOMAIN results = 1 .. n
    BY <1>1, <1>2, <1>3, <2>1 DEF WithAttackRates
  <2>3. DOMAIN results' = 1 .. n
    BY <2>2
  <2> QED  BY <1>2, <2>1, <2>2, <2>3
<1>6. ASSUME NEW i \in 1 .. n
      PROVE  /\ results'[i].suite_name = SuiteNames[(i + 1) \div 2]
             /\ results'[i].agent_type = AgentAt(i)
             /\ results'[i].attack_success_rate # NoRate
  <2>1. InOrder(i, results[i]) /\ results[i] \in Reports
    BY <1>2, <1>3
  <2>2. /\ results'[i].suite_name = results[i].suite_name
        /\ results'[i].agent_type = results[i].agent_type
        /\ results'[i].attack_success_rate =
             IF i = n THEN gat ELSE IF i = n - 1 THEN base ELSE results[i].attack_success_rate
    BY <1>5, <2>1 DEF Reports
  <2>3. i = n \/ i = n - 1 \/ i <= 2 * Finished
    BY <1>2
  <2> QED  BY <1>3, <1>4, <2>1, <2>2, <2>3 DEF InOrder
<1>7. /\ stage' = IF position + 1 <= Len(SuiteNames) THEN "baseline" ELSE "returned"
      /\ position' = position + 1
  BY <1>1 DEF EnterSuite
<1>8. Finished' = Finished + 1 /\ Current' = 0
  BY <1>2, <1>7 DEF Finished, Current, InjectionPhases
<1>9. (\A i \in DOMAIN results : InOrder(i, results[i]))'
  BY <1>1, <1>2, <1>3, <1>5, <1>6, <1>8 DEF InOrder
<1>10. Len(results') = 2 * Finished' + Current' /\ Finished' \in 0 .. Len(SuiteNames)
  BY <1>2, <1>5, <1>8
<1>11. stage' \in {"baseline", "returned"} /\ (stage' = "returned" => Finished' = Len(SuiteNames))
  BY <1>2, <1>7, <1>8
<1> QED  BY <1>9, <1>10, <1>11
         DEF OrderInv, SummaryLosesNoReport, InjectionPhases

\* Two reports of one suite and agent, in one list of reports, print the same line.
LEMMA SameLine ==
  ASSUME EvalInv, OrderInv, stage = "returned", NEW i \in DOMAIN results, NEW j \in DOMAIN results,
         results[i].suite_name = results[j].suite_name, results[i].agent_type = results[j].agent_type
  PROVE  Line(results[i]) = Line(results[j])
<1>1. /\ Finished = Len(SuiteNames) /\ Len(results) = 2 * Finished /\ Len(results) \in Nat
      /\ DOMAIN results = 1 .. Len(results)
      /\ \A k \in DOMAIN results : results[k].attack_success_rate # NoRate
                                     <=> include_injections /\ k <= 2 * Finished
  BY DEF OrderInv, InOrder, Current, EvalInv, ResultsInv, InjectionPhases
<1>2. Faithful(results[i]) /\ Faithful(results[j])
  BY DEF EvalInv, ResultsInv
<1>3. results[i].attack_success_rate = results[j].attack_success_rate
  BY <1>1, <1>2 DEF Faithful
<1>4. results[i] = results[j]
  BY <1>2, <1>3 DEF Faithful
<1> QED  BY <1>4

LEMMA PrintSummaryOrder == EvalInv /\ OrderInv /\ PrintSummary => OrderInv'
<1> SUFFICES ASSUME EvalInv, OrderInv, PrintSummary
             PROVE  OrderInv'
  OBVIOUS
<1>1. /\ stage = "returned" /\ stage' = "summarized"
      /\ UNCHANGED <<include_injections, position, results>>
      /\ by_suite' = [suite \in Suites |-> [agent \in UtilityPhases |-> Line(LastReport(suite, agent))]]
  BY DEF PrintSummary, Suites
<1>2. ASSUME NEW i \in DOMAIN results
      PROVE  by_suite'[results[i].suite_name][results[i].agent_type] = Line(results[i])
  <2> DEFINE same == {k \in DOMAIN results : results[k].suite_name = results[i].suite_name
                                              /\ results[k].agent_type = results[i].agent_type}
  <2>1. Len(results) \in Nat /\ DOMAIN results = 1 .. Len(results)
    BY DEF EvalInv, ResultsInv
  <2>2. \E m \in same : \A k \in same : m >= k
    BY <2>1, LargestBelow
  <2>3. Max(same) \in same
    BY <2>2 DEF Max
  <2>4. Line(results[Max(same)]) = Line(results[i])
    BY <1>1, <2>3, SameLine
  <2>5. LastReport(results[i].suite_name, results[i].agent_type) = results[Max(same)]
    BY DEF LastReport
  <2>6. results[i].suite_name \in Suites /\ results[i].agent_type \in UtilityPhases
    BY DEF EvalInv, ResultsInv, Faithful
  <2>7. by_suite'[results[i].suite_name][results[i].agent_type]
          = Line(LastReport(results[i].suite_name, results[i].agent_type))
    BY <1>1, <2>6
  <2> QED  BY <2>4, <2>5, <2>7
<1>3. SummaryLosesNoReport'
  BY <1>1, <1>2 DEF SummaryLosesNoReport, Line
<1>4. Finished' = Finished /\ Current' = Current
  BY <1>1 DEF Finished, Current, InjectionPhases
<1> QED  BY <1>1, <1>3, <1>4 DEF OrderInv, InOrder, InjectionPhases

LEMMA OrderStepInv == EvalInv /\ OrderInv /\ [EvalNext]_evalVars => OrderInv'
<1> SUFFICES ASSUME EvalInv, OrderInv, [EvalNext]_evalVars
             PROVE  OrderInv'
  OBVIOUS
<1>1. CASE RunCase
  BY <1>1 DEF RunCase, CasesLeft, OrderInv, InOrder, Finished, Current, SummaryLosesNoReport,
              Phases, UtilityPhases, InjectionPhases
<1>2. CASE AttackGated
  BY <1>2 DEF AttackGated, PhaseOver, OrderInv, InOrder, Finished, Current,
              SummaryLosesNoReport, InjectionPhases
<1>3. CASE Crash
  BY <1>3 DEF Crash, OrderInv
<1>4. CASE UNCHANGED evalVars
  BY <1>4 DEF evalVars, processVars, OrderInv, InOrder, Finished, Current, SummaryLosesNoReport
<1> QED  BY <1>1, <1>2, <1>3, <1>4, StartOrder, ReportBaselineOrder, ReportGatedOrder,
            RateAttacksOrder, PrintSummaryOrder DEF EvalNext, Progress

LEMMA OrderInvariant == EvalSpec => []OrderInv
BY OrderInitInv, OrderStepInv, EvalInvariant, PTL DEF EvalSpec

\* The harness returns one report per suite and agent in the order it was asked,
\* all with an attack rate or all without, after any number of crashes.
THEOREM ReturnsAreComplete == EvalSpec => []ReturnedComplete
<1>1. EvalInv /\ OrderInv => ReturnedComplete
  <2> SUFFICES ASSUME EvalInv, OrderInv, stage = "returned"
               PROVE  ReturnedComplete
    BY DEF ReturnedComplete
  <2>1. /\ DOMAIN results = 1 .. 2 * Len(SuiteNames)
        /\ \A i \in DOMAIN results :
             /\ results[i].suite_name = SuiteNames[(i + 1) \div 2]
             /\ results[i].agent_type = AgentAt(i)
             /\ results[i].attack_success_rate # NoRate <=> include_injections
    BY DEF EvalInv, ResultsInv, OrderInv, InOrder, Current, InjectionPhases
  <2> QED  BY <2>1 DEF ReturnedComplete, AgentAt
<1> QED  BY <1>1, EvalInvariant, OrderInvariant, PTL

\* The summary shows what every report says: a report that is replaced by a later
\* one of the same suite and agent was equal to it.
THEOREM NoReportIsLost == EvalSpec => []SummaryLosesNoReport
<1>1. OrderInv => SummaryLosesNoReport
  BY DEF OrderInv, SummaryLosesNoReport
<1> QED  BY <1>1, OrderInvariant, PTL
==============================================================================
