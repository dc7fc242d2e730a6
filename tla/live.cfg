CONSTANTS
  Module <- MCModule
  Source <- MCSource
  Const = {0, 1}
  Loads <- MCLoads
  Reexports <- MCReexports
  Defining <- MCDefining
  ConstOf <- MCConstOf
  Broken <- MCBroken
  Texts <- MCTexts
  Worker = {w1, w2}
  Phases = {"BridgeCtx", "ActionRegistry", "TargetRegistry"}
  NoValue = NoValue
  NoCode = NoCode
  NoJob = NoJob
  MaxEdits = 2
  MaxReplacements = 1
  MaxCalls = 1
SPECIFICATION Spec
CONSTRAINT Scenario
INVARIANTS TypeOK NoStaleCall AlwaysFinds EarlyCutoffSound
PROPERTY InsertIdempotent
SYMMETRY WorkerSymmetry
CHECK_DEADLOCK FALSE
