SPECIFICATION ClipSpec
CONSTANTS
  ann = ann
  bob = bob
  NIL = NIL
  Users = {ann, bob}
  Cases = {1, 2, 3}
  Versions = {1}
  Reviewed = TRUE
  Verdicts = {2}
  Doing = {"add", "execute"}
  Handled = {1, 2}
  MaxPages = 1
  MaxPack = 1
  MaxClip = 1
  MaxNumber = 11
\* Nobody has to work, and the numbers of cases are used up.
CHECK_DEADLOCK FALSE
SYMMETRY SomeUser
INVARIANTS
  ClipTypeOK
  ResultBehindStatus
PROPERTIES
  NobodyCutsOwnResult
