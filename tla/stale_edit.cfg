SPECIFICATION Spec
CONSTANTS
  tester = tester
  developer = developer
  lead = lead
  b1 = b1
  NIL = NIL
  Users = {tester, developer}
  Bugs = {b1}
  Actors <- Pair
  Managers = {}
  Flows <- ShortFlow
  Picks <- Main
  MaxForms = 2
  MaxChoices = 1
  MaxEdits = 1
\* Every bug may be deleted and every page closed, and nobody has to work.
CHECK_DEADLOCK FALSE
PROPERTIES
  EditsAreKept
