CONSTANTS
  Text <- MCText
  File <- MCFile
  GlobSpec <- MCGlobSpec
  Pattern <- MCPattern
  AllowEmpty <- MCAllowEmpty
  CallOf <- MCCallOf
  MaxCalls = 6
  MaxEdits = 1
  MaxEvaluations = 2
  ModuleName <- MCModuleName
  ToolchainArgs <- MCToolchainArgs
  RepoRule <- MCRepoRule
  RepoArgs <- MCRepoArgs
  NotString = NotString
  MaxModuleCalls = 5
SPECIFICATION WorkspaceSpec
CONSTRAINT OneAtATime
CHECK_DEADLOCK FALSE
INVARIANTS TypeOK PackageKeyed DoneIsDirect FailureExplained DeclaredAsWritten
PROPERTY DirectSpec
