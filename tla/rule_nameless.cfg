CONSTANTS
  None = None
  Failed = Failed
  Target <- MCTarget
  RuleOf <- MCRuleOf
  Definition <- MCDefinition
  Inputs <- MCInputs
  Visible <- MCVisible
  DefaultInfo <- MCDefaultInfo
  ToolchainInfo <- MCToolchainInfo
  EndsWith <- MCEndsWith
  Tool <- MCTool
  Foreign = {"//t:cc"}
  AttrOrder <- MCAttrOrder
  TypeOrder <- MCTypeOrder
  Rank <- MCRank
  MaxReturned = 1
  Names <- NamesAbsent
SPECIFICATION Spec
CHECK_DEADLOCK FALSE
INVARIANT RequiredSupplied
