SPECIFICATION Spec
CONSTANTS
  tester = tester
  developer = developer
  lead = lead
  b1 = b1
  NIL = NIL
  Users = {tester, developer, lead}
  Bugs = {b1}
  Actors <- SmallTeam
  Managers = {lead}
  Flows <- WithCrossCheck
  Picks <- Flowing
  MaxForms = 1
  MaxChoices = 1
  MaxEdits = 0
\* Every bug may be deleted and every page closed, and nobody has to work.
CHECK_DEADLOCK FALSE
INVARIANTS
  NamedTesterCanAct
