CONSTANTS
  pub1 = pub1
  pub2 = pub2
  priv = priv
  Module <- MCModule
  Loads <- MCLoads
  Name <- MCName
  Private <- MCPrivate
  ProviderName = {pub1, pub2}
  Unbound = Unbound
  Condition <- MCCondition
  Literals <- MCLiterals
  Repertoires <- MCRepertoires
  MaxStatements = 2
  MaxConvertDepth = 2
SPECIFICATION Spec
INVARIANTS TypeOK RefsResolve OriginFound ProvidersApart DataMeansWritten
SYMMETRY Twins
CHECK_DEADLOCK FALSE
