SPECIFICATION FairEvalSpec
CONSTANTS
  SuiteNames <- MCSuiteNames
  UserCases <- MCUserCases
  InjectedCases <- MCInjectedCases
  MaxCrashes = 2
INVARIANTS
  ReportsMatchLogs
  ReturnedComplete
  SummaryLosesNoReport
PROPERTIES
  EvaluationReturns
CHECK_DEADLOCK FALSE
