SPECIFICATION Spec
CONSTANTS
  ann = ann
  bob = bob
  x = x
  y = y
  NIL = NIL
  Users = {ann, bob}
  Names = {x, y}
  MaxNodes = 4
  TaskName = x
INVARIANTS
  TypeOK
  NumbersMatchTree
  FlagHeld
PROPERTIES
  NumbersStable
  OnlyFirstChildUndoesRename
  SwitchReachesChildren
  SubmitAnswered
