CONSTANTS
  pub1 = pub1
  pub2 = pub2
  priv = priv
  Module <- MCModule
  Loads <- MCLoads
  Name <- MCName
  Private <- MCPrivate
  ProviderName = {pub1, pub2}
  Unbound = Unbound
  Condition <- MCCondition
  Literals <- NoLiterals
  Repertoires = {{"provider", "assign"}}
  MaxStatements = 2
  MaxConvertDepth = 1
SPECIFICATION Spec
INVARIANT AliasIsLegal
SYMMETRY Twins
CHECK_DEADLOCK FALSE
