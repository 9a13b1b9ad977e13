SPECIFICATION DataSpec
CONSTANTS
  Actions = {}
  ArgNames = {"recipients", "to", "recipient"}
  Atoms <- MCAtoms
  FormatValidators <- MCFormatValidators
  ArgAliases <- ShippedAliases
  Unhashables = {Nested}
  NoneEntry = NoneEntry
  DeclaredFormats <- ShippedFormats
  Values <- MCValues
  Tools = {"search_emails", "get_file_by_id"}
  InnerSources = {"bob"}
  ArgKeys = {"recipients", "body"}
  None = None
  PoolItems <- MCPoolItems
  MaxPool = 2
  RuleNames = {"send_email"}
  Missing = Missing
  Empty = Empty
INVARIANTS
  DataGateNeverRaises
  SetAbstractionExact
  TrustedIsUsers
  OriginSurvives
  DescribedAlike
CHECK_DEADLOCK FALSE
