CONSTANTS
  pub1 = pub1
  pub2 = pub2
  priv = priv
  Module <- MCModule
  Loads <- MCLoads
  Name <- MCName
  Private <- MCPrivate
  ProviderName = {}
  Unbound = Unbound
  Condition <- MCCondition
  Literals <- NoLiterals
  Repertoires = {{"def", "call", "closure"}}
  MaxStatements = 2
  MaxConvertDepth = 1
SPECIFICATION Spec
INVARIANT RefNamesDefiner
SYMMETRY Twins
CHECK_DEADLOCK FALSE
