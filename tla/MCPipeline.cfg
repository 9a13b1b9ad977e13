SPECIFICATION PipelineSpec
CONSTANTS
  Actions <- MCActions
  ArgNames <- MCArgNames
  Atoms <- MCAtoms
  FormatValidators <- MCFormatValidators
  ArgAliases <- ShippedAliases
  Rules <- MCRules
  Pool <- MCPool
  Unhashable = Unhashable
  NoReply = NoReply
  NoPolicy = NoPolicy
  NoContext = NoContext
  NoTask = NoTask
  BlankText = BlankText
  Tasks = {task1}
  ScopeReplies <- MCScopeReplies
  PlanReplies <- MCPlanReplies
  DecomposerReplies = {}
  Calls <- MCCalls
  HasDecomposer = FALSE
  HasGenerator = TRUE
  Interruptible = TRUE
  MaxLog = 1
INVARIANTS
  PipelineTypeOK
  NoDataLockout
  OnlyTightens
PROPERTIES
  SettledDecisions
