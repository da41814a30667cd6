------------------------------ MODULE BugBoard ------------------------------
(***************************************************************************)
(* What the handling of bugs promises to somebody who only looks at the    *)
(* list of bugs of a task: a bug is reported once, then open or closed,    *)
(* and finally perhaps gone; while it is open it may wait for a person,    *)
(* once it is closed it waits for nobody, and once it is gone nothing      *)
(* brings it back.  BugHandling implements it.                             *)
(***************************************************************************)

CONSTANTS Users, Bugs, NIL

VARIABLE card    \* per bug its phase and the person it waits for

Phase == {"unused", "open", "closed", "gone"}
Card  == [phase : Phase, who : Users \cup {NIL}]

Idle(phase)   == [phase |-> phase, who |-> NIL]
WaitsFor(who) == [phase |-> "open", who |-> who]

Listed(c) == c.phase \in {"open", "closed"}

(* One bug, from card c to card d *)
Report(c, d) == c = Idle("unused") /\ \E u \in Users : d = WaitsFor(u)
Pass(c, d)   == Listed(c) /\ \E u \in Users \cup {NIL} : d = WaitsFor(u)
Close(c, d)  == Listed(c) /\ d = Idle("closed")
Remove(c, d) == Listed(c) /\ d = Idle("gone")

Init == card = [b \in Bugs |-> Idle("unused")]

(* An assignment in bulk or a change of the flow moves several bugs. *)
Next ==
  /\ card' \in [Bugs -> Card]
  /\ \A b \in Bugs :
       LET c == card[b] d == card'[b]
       IN c = d \/ Report(c, d) \/ Pass(c, d) \/ Close(c, d) \/ Remove(c, d)

Spec == Init /\ [][Next]_card
=============================================================================
