CONSTANTS
  Module = {"lib", "mid"}
  Source <- MCSource
  Const = {0, 1}
  Loads <- MCLoads
  Reexports <- MCReexports
  Defining <- MCDefining
  ConstOf <- MCConstOf
  Broken <- MCBroken
  Texts <- MCPair
  Worker = {w1, w2}
  Phases = {"BridgeCtx", "ActionRegistry"}
  NoValue = NoValue
  NoCode = NoCode
  NoJob = NoJob
  MaxEdits = 2
  MaxReplacements = 0
  MaxCalls = 1
SPECIFICATION FairSpec
CHECK_DEADLOCK FALSE
PROPERTIES EvaluationEnds Settles LinkedSpec LinkedFairSpec
