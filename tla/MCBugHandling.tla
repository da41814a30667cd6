--------------------------- MODULE MCBugHandling ---------------------------
(* Constants for the runs of BugHandling. *)
EXTENDS BugHandling

CONSTANTS tester, developer, lead, b1

(* The tester reports, the developer fixes, the lead confirms, analyses,   *)
(* assigns, arbitrates and may stand in for the tester.                    *)
SmallTeam ==
  [f \in FlowStep |-> CASE f = 1 -> {tester} [] f \in {5, 6} -> {developer}
                        [] OTHER -> {lead}]

(* The tester also confirms and tests, so that another one tests only what *)
(* he reports himself; the lead analyses, assigns and arbitrates.          *)
ThreeTrades ==
  [f \in FlowStep |-> CASE f \in {1, 2, 8} -> {tester} [] f \in {5, 6} -> {developer}
                        [] OTHER -> {lead}]

(* Two people share the work: the tester arbitrates, too.                  *)
Pair ==
  [f \in FlowStep |-> IF f \in {4, 5, 6} THEN {developer} ELSE {tester}]

Flow(optional) == {1, 5, 7, 8} \cup optional

(* The flow with none of the optional steps.                               *)
ShortFlow == {Flow({})}

(* Between them these two have every optional step, and each step is       *)
(* followed once by its neighbour and once by a later one.                 *)
ConfirmOrAssign == {Flow({2, 3}), Flow({4, 6})}

(* Each optional step can be taken out, two of them at once.               *)
Reducible == {Flow({}), Flow({2, 3}), Flow({4, 6})}

WithCrossCheck == {Flow({}), Flow({6})}

WithTwoToRemove == {Flow({}), Flow({2, 3})}

(* Find, fix, verify; hand back, withdraw. *)
Main == {5, 9, 10, 13, 14, 17}

(* The states that wait for an optional step, and the way through.         *)
Flowing == {1, 2, 7, 10, 13, 14, 18, 24, 25}
=============================================================================
