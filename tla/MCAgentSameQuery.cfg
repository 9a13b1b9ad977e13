SPECIFICATION AgentSpec
CONSTANTS
  Actions <- MCActions
  ArgNames <- MCArgNames
  Atoms <- MCAtoms
  FormatValidators <- MCFormatValidators
  ArgAliases <- ShippedAliases
  Rules <- MCRules
  Pool <- MCActions
  Unhashable = Unhashable
  NoReply = NoReply
  NoPolicy = NoPolicy
  NoContext = NoContext
  NoTask = NoTask
  BlankText = BlankText
  Tasks = {task1, task2}
  ScopeReplies <- MailEnabled
  PlanReplies <- MCPlanReplies
  DecomposerReplies = {}
  Calls <- TwoCalls
  HasDecomposer = FALSE
  HasGenerator = TRUE
  Interruptible = FALSE
  MaxLog = 0
  MaxCalls = 2
  MaxIters = 2
  MaxRuns = 2
INVARIANTS
  CompletedInThisRun
CHECK_DEADLOCK FALSE
