SPECIFICATION Spec
CONSTANTS
  Element = {a, b}
  OtherName = compile
  MaxConvertDepth = 2
  MaxSets = 3
  MaxHeap = 3
  MaxDirect = 1
  MaxEntries = 2
  MaxPublished = 1
  Refused = Refused
  None = None
SYMMETRY Symmetry
CHECK_DEADLOCK FALSE
INVARIANTS TypeOK ListComplete ListOrdered CrossingKeepsList
