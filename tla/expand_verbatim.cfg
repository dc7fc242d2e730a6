SPECIFICATION Spec
CONSTANTS
  Char <- Characters
  Wide = Wide
  Lead = Lead
  Trail = Trail
  CtxVar <- ModeVar
  Additional <- Substitutions
  MaxInput = 5
  None = None
CHECK_DEADLOCK FALSE
INVARIANT Verbatim
