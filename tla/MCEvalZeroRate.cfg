SPECIFICATION EvalSpec
CONSTANTS
  SuiteNames <- OneSuite
  UserCases <- MCUserCases
  InjectedCases <- MCInjectedCases
  MaxCrashes = 0
INVARIANT
  MeasuredRatesShown
CHECK_DEADLOCK FALSE
