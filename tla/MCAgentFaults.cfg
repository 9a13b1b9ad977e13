SPECIFICATION FaultSpec
CONSTANTS
  Actions <- MCActions
  ArgNames <- MCArgNames
  Atoms <- MCAtoms
  FormatValidators <- MCFormatValidators
  ArgAliases <- ShippedAliases
  Rules <- MCRules
  Pool <- MCActions
  Unhashable = Unhashable
  NoReply = NoReply
  NoPolicy = NoPolicy
  NoContext = NoContext
  NoTask = NoTask
  BlankText = BlankText
  Tasks = {task1, task2}
  ScopeReplies <- FaultScopes
  PlanReplies <- MCPlanReplies
  DecomposerReplies = {}
  Calls <- TwoCalls
  HasDecomposer = FALSE
  HasGenerator = TRUE
  Interruptible = FALSE
  MaxLog = 0
  MaxCalls = 2
  MaxIters = 1
  MaxRuns = 3
  MaxInterrupts = 1
INVARIANTS
  PolicyWithinPrivileges
  PrerequisitesAllowedEarlier
  InterruptedQueryStartsOver
  CompletedWereAllowed
PROPERTIES
  ImplementsMonitor
  RunsEnd
CHECK_DEADLOCK FALSE
