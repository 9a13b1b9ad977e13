SPECIFICATION StartSafety
CONSTANTS
  Actions <- MCActions
  ArgNames <- MCArgNames
  Atoms = {"ann@corp"}
  FormatValidators <- MCFormatValidators
  ArgAliases <- ShippedAliases
  Rules <- MCRules
  Pool <- MCPool
  Unhashable = Unhashable
  NoReply = NoReply
  NoPolicy = NoPolicy
  NoContext = NoContext
  NoTask = NoTask
  BlankText = "blank"
  Tasks <- MCTasks
  ScopeReplies <- MCScopeReplies
  PlanReplies <- MCPlanReplies
  DecomposerReplies <- MCDecomposerReplies
  Calls <- MCCalls
  HasDecomposer = TRUE
  HasGenerator = TRUE
  Interruptible = TRUE
  MaxLog = 1
INVARIANTS
  DeclaredPrerequisitesEnforced
