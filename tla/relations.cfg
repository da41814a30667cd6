SPECIFICATION RelaSpec
CONSTANTS
  ann = ann
  bob = bob
  b1 = b1
  NIL = NIL
  Users = {ann, bob}
  Cases = {1, 2}
  Versions = {1}
  Reviewed = FALSE
  Verdicts = {2}
  Doing = {"add", "execute", "edit", "delete", "relate", "bug"}
  Handled = {1}
  MaxPages = 2
  MaxPack = 1
  Bugs = {b1}
  BugVersion <- OneVersion
  MaxLinks = 2
SYMMETRY SomeUser
\* Nobody has to work, and the numbers of cases are used up.
CHECK_DEADLOCK FALSE
INVARIANTS
  RelaTypeOK
  ResultBehindStatus
  DuplicatesBounded
  RelatedHasResult
PROPERTIES
  ResultsNeverVanish
  
  NobodyDeletesOwnResult
  
