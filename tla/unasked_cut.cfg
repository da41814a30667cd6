SPECIFICATION ClipSpec
CONSTANTS
  ann = ann
  bob = bob
  NIL = NIL
  Users = {ann}
  Cases = {1, 2, 12, 13}
  Versions = {1}
  Reviewed = TRUE
  Verdicts = {2}
  Doing = {"add"}
  Handled = {1, 2, 12, 13}
  MaxPages = 1
  MaxPack = 0
  MaxClip = 2
  MaxNumber = 12
\* Nobody has to work, and the numbers of cases are used up.
CHECK_DEADLOCK FALSE
PROPERTY OnlyCutAreRemoved
