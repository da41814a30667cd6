---------------------------- MODULE BugMoves_proofs ----------------------------
(***************************************************************************)
(* Who may take a bug where, for any team, flows and number of bugs: a     *)
(* closed bug is reopened by the one who closed it, a fix is cross-checked *)
(* where the flow says so, and a tester's word closes a bug as solved.     *)
(* While the flow stays as it is, every open bug can be taken on by        *)
(* somebody, and by whoever it names.                                      *)
(***************************************************************************)
EXTENDS BugPeople_proofs

-----------------------------------------------------------------------------
(* What the tables offer                                                   *)

LEMMA MyMenuOpts ==
  ASSUME NEW s, NEW i, NEW c, NEW F, NEW R, NEW D
  PROVE  MyMenu(s, i, c, F, R, D).opts =
           (Redo(s, i, c, F, R).opts \cup Do(s, i, c, F, D, TRUE).opts) \ {s}
<1> DEFINE m == Redo(s, i, c, F, R) \oplus Do(s, i, c, F, D, TRUE)
<1>1. /\ m = [opts |-> m.opts, ctl |-> m.ctl]
      /\ m.opts = Redo(s, i, c, F, R).opts \cup Do(s, i, c, F, D, TRUE).opts
  BY DEF \oplus, Offer
<1> HIDE DEF m
<1>2. [m EXCEPT !.opts = @ \ {s}].opts = m.opts \ {s}
  BY <1>1
<1> QED  BY <1>1, <1>2 DEF MyMenu, m

(* Whatever is offered comes from the table of the last handler or from    *)
(* that of the duties.                                                     *)
LEMMA MenuOpts ==
  ASSUME NEW u, NEW r, NEW F, NEW s \in MenuOf(u, r, F).opts
  PROVE  LET c == CorrectFlow(F, r.cur)
         IN \/ u = r.handler /\ s \in Redo(r.st, r.init, c, F, Roles(u, F)).opts
            \/ \E redo \in BOOLEAN :
                 s \in Do(r.st, r.init, c, F, Duties(u, r, F), redo).opts
<1>1. CASE u = r.handler
  <2>1. PICK t, i, c, R, D :
          /\ t = r.st /\ i = r.init /\ c = CorrectFlow(F, r.cur)
          /\ R = Roles(u, F) /\ D = Duties(u, r, F)
    OBVIOUS
  <2>2. MenuOf(u, r, F) = MyMenu(t, i, c, F, R, D)
    BY <1>1, <2>1 DEF MenuOf
  <2>3. MyMenu(t, i, c, F, R, D).opts =
          (Redo(t, i, c, F, R).opts \cup Do(t, i, c, F, D, TRUE).opts) \ {t}
    BY MyMenuOpts
  <2>4. s \in Redo(t, i, c, F, R).opts \/ s \in Do(t, i, c, F, D, TRUE).opts
    BY <2>2, <2>3
  <2> QED  BY <1>1, <2>1, <2>4
<1>2. CASE u # r.handler
  BY <1>2 DEF MenuOf, DutyMenu
<1> QED  BY <1>1, <1>2

(* A flow has a step to go on from wherever a bug is.                      *)
LEMMA Corrected ==
  ASSUME NEW F \in Flows, NEW step \in 0..8
  PROVE  /\ CorrectFlow(F, step) \in F
         /\ step \in F => CorrectFlow(F, step) = step
         /\ CorrectFlow(F, step) = 6 => step = 6
<1>1. F \subseteq 1..8 /\ 1 \in F /\ 5 \in F /\ 7 \in F /\ 8 \in F
  BY FlowsAssumption DEF FlowStep
<1>2. CASE step \in F
  BY <1>2 DEF CorrectFlow
<1>3. CASE step \notin F
  <2> DEFINE After(f) == f \in F /\ f > step /\ \A g \in F : g > step => f <= g
             c == CHOOSE f \in F : f > step /\ \A g \in F : g > step => f <= g
  <2>1. step \in {0, 2, 3, 4, 6}
    BY <1>1, <1>3
  <2>2. \E f \in F : f > step /\ \A g \in F : g > step => f <= g
    <3>1. CASE step = 0  BY <1>1, <3>1
    <3>2. CASE step = 6  BY <1>1, <3>2
    <3>3. CASE step \in {2, 3, 4}
      <4>1. CASE step + 1 \in F  BY <1>1, <3>3, <4>1
      <4>2. CASE step + 1 \notin F /\ step + 2 \in F  BY <1>1, <3>3, <4>2
      <4>3. CASE step + 1 \notin F /\ step + 2 \notin F  BY <1>1, <3>3, <4>3
      <4> QED  BY <4>1, <4>2, <4>3
    <3> QED  BY <2>1, <3>1, <3>2, <3>3
  <2>3. c \in F /\ c > step /\ \A g \in F : g > step => c <= g
    BY <2>2
  <2>4. c = CorrectFlow(F, step)
    BY <1>3 DEF CorrectFlow
  <2> HIDE DEF c
  <2>5. c = 6 => step = 6
    <3>1. step < 5 => c <= 5
      BY <1>1, <2>1, <2>3
    <3> QED  BY <1>1, <2>1, <2>3, <3>1
  <2> QED  BY <1>3, <2>3, <2>4, <2>5
<1> QED  BY <1>2, <1>3

(* Fixes and verdicts: the states that end the work on a bug.             *)

(* A table that offers no verdict, and a fix only as Fixed does.           *)
NoVerdict(m, F) ==
  /\ 9 \notin m.opts /\ 14 \notin m.opts
  /\ 18 \in m.opts => 6 \in F
  /\ 13 \in m.opts \/ 26 \in m.opts => 6 \notin F

LEMMA FixedMarks ==
  ASSUME NEW F
  PROVE  /\ Fixed(F).opts = IF 6 \in F THEN {18} ELSE {13, 26}
         /\ Restart(F).opts \subseteq {1, 7, 8, 10, 24, 25}
<1>1. Forward(F).opts \subseteq {7, 8, 10, 24, 25} /\ Send({1}, 2).opts = {1}
  BY OptsOf, DevOpts
<1> QED  BY <1>1, OptsOf DEF Restart, Fixed

LEMMA PlainVerdict ==
  ASSUME NEW F
  PROVE  /\ \A m, n : NoVerdict(m, F) /\ NoVerdict(n, F) => NoVerdict(m \oplus n, F)
         /\ NoVerdict(Nothing, F) /\ NoVerdict(Fixed(F), F)
         /\ NoVerdict(ToDev(F), F) /\ NoVerdict(Dispatch(F), F)
         /\ NoVerdict(Forward(F), F) /\ NoVerdict(Restart(F), F)
         /\ NoVerdict(Escalate(F, {}), F) /\ NoVerdict(Escalate(F, {19, 20}), F)
         /\ NoVerdict(SendOn(F), F)
<1>1. \A m, n : NoVerdict(m, F) /\ NoVerdict(n, F) => NoVerdict(m \oplus n, F)
  BY OptsOf DEF NoVerdict
<1>2. NoVerdict(Nothing, F) /\ NoVerdict(Fixed(F), F)
  BY OptsOf, FixedMarks DEF NoVerdict
<1>3. NoVerdict(ToDev(F), F) /\ NoVerdict(Dispatch(F), F) /\ NoVerdict(Forward(F), F)
  BY DevOpts DEF NoVerdict
<1>4. NoVerdict(Escalate(F, {}), F) /\ NoVerdict(Escalate(F, {19, 20}), F)
  BY DevOpts DEF NoVerdict
<1>5. NoVerdict(SendOn(F), F) /\ NoVerdict(Restart(F), F)
  BY DevOpts, FixedMarks DEF NoVerdict
<1> QED  BY <1>1, <1>2, <1>3, <1>4, <1>5

LEMMA RedoRewordMarks ==
  ASSUME NEW F, NEW c
  PROVE  NoVerdict(RedoReword(F, c), F)
  BY OptsOf, DevOpts, FixedMarks DEF NoVerdict, RedoReword

LEMMA RedoDuplicateMarks ==
  ASSUME NEW F, NEW c
  PROVE  NoVerdict(RedoDuplicate(F, c), F)
<1>1. /\ NoVerdict(Keep({4, 5}, 1), F)
      /\ NoVerdict(Send({6}, 1), F)
      /\ NoVerdict(Offer({2}, <<>>), F)
      /\ NoVerdict(Offer({5}, <<>>), F)
      /\ NoVerdict(Keep({5}, 1), F)
  BY OptsOf DEF NoVerdict
<1> QED  BY <1>1, PlainVerdict DEF RedoDuplicate

LEMMA RedoInvalidMarks ==
  ASSUME NEW F, NEW c
  PROVE  NoVerdict(RedoInvalid(F, c), F)
  BY OptsOf, DevOpts, FixedMarks DEF NoVerdict, RedoInvalid

LEMMA RedoWithdrawnMarks ==
  ASSUME NEW F, NEW c, NEW i
  PROVE  NoVerdict(RedoWithdrawn(F, c, i), F)
<1>1. /\ NoVerdict(Keep({3, 15}, 1), F)
      /\ NoVerdict(Send({3, 6}, 1), F)
      /\ NoVerdict(Offer({2}, <<>>), F)
      /\ NoVerdict(Send({12}, 7), F)
  BY OptsOf DEF NoVerdict
<1> DEFINE m == CASE c = 1 -> Keep({3, 15}, 1)
                  [] c = 2 -> Send({3, 6}, 1) \oplus Offer({2}, <<>>)
                  [] OTHER -> Nothing
           n == IF i = 16 THEN Send({12}, 7) ELSE Nothing
<1>2. NoVerdict(m, F) /\ NoVerdict(n, F)
  BY <1>1, PlainVerdict
<1> HIDE DEF m, n
<1>3. NoVerdict(m \oplus n \oplus Restart(F), F)
  BY <1>2, PlainVerdict
<1> QED  BY <1>3 DEF RedoWithdrawn, m, n

LEMMA RedoNeedInfoMarks ==
  ASSUME NEW F
  PROVE  NoVerdict(RedoNeedInfo(F), F)
<1>1. /\ NoVerdict(Keep({3, 4, 5}, 1), F)
      /\ NoVerdict(Offer({2}, <<>>), F)
  BY OptsOf DEF NoVerdict
<1> QED  BY <1>1, PlainVerdict DEF RedoNeedInfo

LEMMA RedoHeldMarks ==
  ASSUME NEW F
  PROVE  NoVerdict(RedoHeld(F), F)
  BY OptsOf, DevOpts, FixedMarks DEF NoVerdict, RedoHeld

LEMMA RedoDisputeMarks ==
  ASSUME NEW F
  PROVE  NoVerdict(RedoDispute, F)
  BY OptsOf, DevOpts, FixedMarks DEF NoVerdict, RedoDispute

LEMMA RedoNotBugMarks ==
  ASSUME NEW F, NEW c
  PROVE  NoVerdict(RedoNotBug(F, c), F)
  BY OptsOf, DevOpts, FixedMarks DEF NoVerdict, RedoNotBug

LEMMA RedoReassignMarks ==
  ASSUME NEW F, NEW R
  PROVE  NoVerdict(RedoReassign(F, R), F)
  BY OptsOf, DevOpts, FixedMarks DEF NoVerdict, RedoReassign

LEMMA RedoCrossCheckMarks ==
  ASSUME NEW F
  PROVE  NoVerdict(RedoCrossCheck(F), F)
  BY OptsOf, DevOpts, FixedMarks DEF NoVerdict, RedoCrossCheck

LEMMA RedoHoldMarks ==
  ASSUME NEW F, NEW s
  PROVE  NoVerdict(RedoHold(F, s), F)
  BY OptsOf, DevOpts, FixedMarks, SMTT(30) DEF NoVerdict, RedoHold

LEMMA RedoNextVersionMarks ==
  ASSUME NEW F
  PROVE  NoVerdict(RedoNextVersion, F)
  BY OptsOf, DevOpts, FixedMarks DEF NoVerdict, RedoNextVersion

LEMMA RedoCloseWithdrawnMarks ==
  ASSUME NEW F, NEW i
  PROVE  NoVerdict(RedoCloseWithdrawn(F, i), F)
  BY OptsOf, DevOpts, FixedMarks DEF NoVerdict, RedoCloseWithdrawn

LEMMA RedoCloseLeftMarks ==
  ASSUME NEW F, NEW i
  PROVE  NoVerdict(RedoCloseLeft(i), F)
  BY OptsOf, DevOpts, FixedMarks DEF NoVerdict, RedoCloseLeft

LEMMA RedoAnalyseMarks ==
  ASSUME NEW F, NEW c
  PROVE  NoVerdict(RedoAnalyse(F, c), F)
<1>1. /\ NoVerdict(Offer({3, 5, 15}, <<>>), F)
      /\ NoVerdict(Keep({3, 4, 5}, 0), F)
      /\ NoVerdict(Offer({2}, <<>>), F)
  BY OptsOf DEF NoVerdict
<1> QED  BY <1>1, PlainVerdict DEF RedoAnalyse

LEMMA RedoAssignMarks ==
  ASSUME NEW F, NEW c
  PROVE  NoVerdict(RedoAssign(c), F)
  BY OptsOf, DevOpts, FixedMarks DEF NoVerdict, RedoAssign

LEMMA DoConfirmMarks ==
  ASSUME NEW F
  PROVE  NoVerdict(DoConfirm(F), F)
  BY OptsOf, DevOpts, FixedMarks DEF NoVerdict, DoConfirm

LEMMA DoDuplicateMarks ==
  ASSUME NEW F, NEW c
  PROVE  NoVerdict(DoDuplicate(F, c), F)
  BY OptsOf, DevOpts, FixedMarks DEF NoVerdict, DoDuplicate

LEMMA DoSentBackMarks ==
  ASSUME NEW F, NEW s \in {2, 4, 6}
  PROVE  NoVerdict(DoSentBack(F, s), F)
<1>1. /\ NoVerdict(Offer({}, To({1}, 2)), F)
      /\ NoVerdict(Keep({4, 5}, 1), F)
      /\ NoVerdict(Keep({5}, 0), F)
      /\ NoVerdict(Keep({5, 15}, 0), F)
  BY OptsOf DEF NoVerdict
<1>2. NoVerdict(SendOn(F) \oplus Offer({}, To({1}, 2)), F)
  BY <1>1, PlainVerdict
<1> QED  BY <1>1, <1>2, PlainVerdict DEF DoSentBack

LEMMA DoFixMarks ==
  ASSUME NEW F, NEW i, NEW redo
  PROVE  NoVerdict(DoFix(F, i, redo), F)
  BY OptsOf, DevOpts, FixedMarks DEF NoVerdict, DoFix

LEMMA DoUnresolvedMarks ==
  ASSUME NEW F
  PROVE  NoVerdict(DoUnresolved(F), F)
  BY OptsOf, DevOpts, FixedMarks DEF NoVerdict, DoUnresolved

LEMMA DoHeldMarks ==
  ASSUME NEW F
  PROVE  NoVerdict(DoHeld(F), F)
  BY OptsOf, DevOpts, FixedMarks DEF NoVerdict, DoHeld

LEMMA DoDisputeMarks ==
  ASSUME NEW F
  PROVE  NoVerdict(DoDispute, F)
  BY OptsOf, DevOpts, FixedMarks DEF NoVerdict, DoDispute

LEMMA DoNotBugMarks ==
  ASSUME NEW F
  PROVE  NoVerdict(DoNotBug, F)
  BY OptsOf, DevOpts, FixedMarks DEF NoVerdict, DoNotBug

LEMMA DoReassignMarks ==
  ASSUME NEW F
  PROVE  NoVerdict(DoReassign, F)
  BY OptsOf, DevOpts, FixedMarks DEF NoVerdict, DoReassign

LEMMA DoNotPlannedMarks ==
  ASSUME NEW F
  PROVE  NoVerdict(DoNotPlanned, F)
  BY OptsOf, DevOpts, FixedMarks DEF NoVerdict, DoNotPlanned

LEMMA DoNextVersionMarks ==
  ASSUME NEW F
  PROVE  NoVerdict(DoNextVersion, F)
  BY OptsOf, DevOpts, FixedMarks DEF NoVerdict, DoNextVersion

LEMMA DoAnalyseMarks ==
  ASSUME NEW F, NEW redo
  PROVE  NoVerdict(DoAnalyse(F, redo), F)
<1>1. /\ NoVerdict(Keep({3}, 1), F)
      /\ NoVerdict(Offer({}, <<>>), F)
      /\ NoVerdict(Offer({16}, <<>>), F)
      /\ NoVerdict(Keep({2, 3, 4, 5, 6}, 1), F)
      /\ NoVerdict(Keep({2, 3, 4, 5, 6, 16}, 1), F)
  BY OptsOf, SMTT(30) DEF NoVerdict
<1>2. Keep({2, 3, 4, 5, 6} \cup {}, 1) = Keep({2, 3, 4, 5, 6}, 1)
      /\ Keep({2, 3, 4, 5, 6} \cup {16}, 1) = Keep({2, 3, 4, 5, 6, 16}, 1)
  <2>1. {2, 3, 4, 5, 6} \cup {} = {2, 3, 4, 5, 6} /\ {2, 3, 4, 5, 6} \cup {16} = {2, 3, 4, 5, 6, 16}
    OBVIOUS
  <2> QED  BY <2>1
<1> QED  BY <1>1, <1>2, PlainVerdict DEF DoAnalyse

LEMMA DoAssignMarks ==
  ASSUME NEW F
  PROVE  NoVerdict(DoAssign(F), F)
  BY OptsOf, DevOpts, FixedMarks DEF NoVerdict, DoAssign


(* The last handler is offered a fix or a verdict that Fixed would not     *)
(* offer only to correct another one, or after a cross check.              *)
LEMMA RedoMarks ==
  ASSUME NEW s \in State, NEW i, NEW c, NEW F, NEW R
  PROVE  LET opts == Redo(s, i, c, F, R).opts
         IN /\ 14 \in opts => s = 9
            /\ 9 \in opts => s = 14 \/ (s \in {13, 26} /\ c = 6)
            /\ 18 \in opts => 6 \in F
            /\ 13 \in opts \/ 26 \in opts => c = 6 \/ s \in {13, 26} \/ 6 \notin F
<1>1. CASE s \notin {7, 8, 9, 10, 13, 14, 15, 26}
  <2>1. NoVerdict(Redo(s, i, c, F, R), F)
    <3>1. CASE s \in {1, 2, 3, 4, 5, 6}
      BY <3>1, RedoRewordMarks, RedoDuplicateMarks, RedoInvalidMarks, RedoWithdrawnMarks,
         RedoNeedInfoMarks DEF Redo
    <3>2. CASE s \in {11, 12, 16, 17, 18, 19, 20}
      BY <3>2, RedoHeldMarks, RedoDisputeMarks, RedoNotBugMarks, RedoReassignMarks,
         RedoCrossCheckMarks, RedoHoldMarks DEF Redo
    <3>3. CASE s \in {21, 22, 23, 24, 25}
      BY <3>3, RedoNextVersionMarks, RedoCloseWithdrawnMarks, RedoCloseLeftMarks,
         RedoAnalyseMarks, RedoAssignMarks DEF Redo
    <3> QED  BY <1>1, <3>1, <3>2, <3>3 DEF State
  <2> QED  BY <2>1 DEF NoVerdict
<1>2. CASE s \in {7, 8, 10}
  <2>1. Redo(s, i, c, F, R) = RedoToFix(F, c, i)
    BY <1>2 DEF Redo
  <2>2. /\ 14 \notin RedoToFix(F, c, i).opts /\ 9 \notin RedoToFix(F, c, i).opts
        /\ 18 \in RedoToFix(F, c, i).opts => 6 \in F
        /\ 13 \in RedoToFix(F, c, i).opts \/ 26 \in RedoToFix(F, c, i).opts =>
             c = 6 \/ 6 \notin F
    <3>1. CASE c = 5
      <4>1. NoVerdict(RedoToFix(F, c, i), F)
        BY <3>1, OptsOf, DevOpts, FixedMarks DEF NoVerdict, RedoToFix
      <4> QED  BY <4>1 DEF NoVerdict
    <3>2. CASE c = 1
      BY <3>2, OptsOf DEF RedoToFix
    <3>3. CASE c = 2
      BY <3>3, OptsOf DEF RedoToFix
    <3>4. CASE c \in {3, 4}
      BY <3>4, OptsOf DEF RedoToFix
    <3>5. CASE c = 6
      BY <3>5, OptsOf DEF RedoToFix
    <3>6. CASE c = 7
      BY <3>6, OptsOf DEF RedoToFix
    <3>7. CASE c \notin {1, 2, 3, 4, 5, 6, 7}
      <4>1. RedoToFix(F, c, i) = Nothing
        BY <3>7 DEF RedoToFix
      <4> QED  BY <4>1, OptsOf
    <3> QED  BY <3>1, <3>2, <3>3, <3>4, <3>5, <3>6, <3>7
  <2> QED  BY <2>1, <2>2
<1>3. CASE s = 9
  <2>1. Redo(s, i, c, F, R) = RedoUnresolved(c)
    BY <1>3 DEF Redo
  <2> QED  BY <1>3, <2>1, OptsOf DEF RedoUnresolved
<1>4. CASE s \in {13, 26}
  <2>1. Redo(s, i, c, F, R) = RedoFixed(F, c, s)
    BY <1>4 DEF Redo
  <2>2. Escalate(F, {19}).opts \subseteq {17, 19}
    BY OptsOf DEF Escalate
  <2>3. /\ 14 \notin RedoFixed(F, c, s).opts /\ 18 \notin RedoFixed(F, c, s).opts
        /\ 9 \in RedoFixed(F, c, s).opts => c = 6
    BY <2>2, OptsOf DEF RedoFixed
  <2> QED  BY <1>4, <2>1, <2>3
<1>5. CASE s \in {14, 15}
  <2>1. Redo(s, i, c, F, R) = RedoClosed(F, s)
    BY <1>5 DEF Redo
  <2> QED  BY <1>5, <2>1, OptsOf DEF RedoClosed
<1> QED  BY <1>1, <1>2, <1>3, <1>4, <1>5

(* A duty gives a verdict on a fix, the tester's, and a fix out of the     *)
(* cross check or without one.                                             *)
LEMMA DoMarks ==
  ASSUME NEW s \in State, NEW i, NEW c, NEW F, NEW D, NEW redo
  PROVE  LET opts == Do(s, i, c, F, D, redo).opts
         IN /\ 14 \in opts => "test" \in D
            /\ 9 \in opts => "test" \in D \/ s = 18
            /\ 18 \in opts => 6 \in F
            /\ 13 \in opts \/ 26 \in opts => s = 18 \/ 6 \notin F
<1>1. CASE s \notin {13, 18, 26}
  <2>1. NoVerdict(Do(s, i, c, F, D, redo), F)
    <3>1. NoVerdict(Nothing, F)
      BY OptsOf DEF NoVerdict
    <3>2. CASE s \in {1, 2, 3, 4, 6}
      BY <3>1, <3>2, DoConfirmMarks, DoSentBackMarks, DoDuplicateMarks DEF Do
    <3>3. CASE s \in {7, 8, 9, 10, 11, 12}
      BY <3>1, <3>3, DoFixMarks, DoUnresolvedMarks, DoHeldMarks, DoDisputeMarks DEF Do
    <3>4. CASE s \in {16, 17, 19, 20, 24, 25}
      BY <3>1, <3>4, DoNotBugMarks, DoReassignMarks, DoNotPlannedMarks,
         DoNextVersionMarks, DoAnalyseMarks, DoAssignMarks DEF Do
    <3>5. CASE s \in {5, 14, 15, 21, 22, 23}
      BY <3>1, <3>5 DEF Do
    <3> QED  BY <1>1, <3>2, <3>3, <3>4, <3>5 DEF State
  <2> QED  BY <2>1 DEF NoVerdict
<1>2. CASE s \in {13, 26}
  <2>1. Do(s, i, c, F, D, redo) = IF "test" \in D THEN DoVerify ELSE Nothing
    BY <1>2 DEF Do
  <2>2. DoVerify.opts = {9, 14}
    BY OptsOf DEF DoVerify
  <2> QED  BY <2>1, <2>2, OptsOf
<1>3. CASE s = 18
  <2>1. Do(s, i, c, F, D, redo) = IF "dev" \in D THEN DoCrossCheck ELSE Nothing
    BY <1>3 DEF Do
  <2>2. DoCrossCheck.opts = {9, 13, 26}
    BY OptsOf DEF DoCrossCheck
  <2> QED  BY <1>3, <2>1, <2>2, OptsOf
<1> QED  BY <1>1, <1>2, <1>3

(* Of the closed states, only 4 is anybody's to reopen.                    *)
LEMMA DoClosed ==
  ASSUME NEW s \in Closed \ {4}, NEW i, NEW c, NEW F, NEW D, NEW redo
  PROVE  Do(s, i, c, F, D, redo).opts = {}
  BY OptsOf DEF Do, Closed

-----------------------------------------------------------------------------
(* Who writes a row, and what a page has chosen                            *)

LEMMA RowWriters ==
  ASSUME TypeOK, [Next]_vars, NEW b \in Bugs
  PROVE  \/ bug'[b] = bug[b]
         \/ \E u \in Users, o \in Users : Add(u, b, o)
         \/ \E u \in Users : /\ On(u, "hand") /\ page[u].st # NoState
                             /\ b = page[u].bug /\ Live(b)
                             /\ bug'[b] = Saved(u, page[u])
         \/ \E u \in Users, d \in Users :
              /\ On(u, "batch") /\ b \in page[u].bugs /\ Live(b) /\ d \in Actors[5]
              /\ bug'[b] = Assigned(u, d, bug[b], page[u].flow)
         \/ Live(b) /\ bug'[b] = [bug[b] EXCEPT !.text = @ + 1]
         \/ bug'[b] = Deleted
         \/ \E u \in Users, F \in Flows, step \in {2, 3, 4, 6} :
              /\ u \in Managers /\ Live(b) /\ bug[b].st = WaitsIn(step)
              /\ bug'[b] = Adjusted(u, bug[b], step, F)
<1>1. ASSUME NEW u \in Users, NEW c \in Bugs, NEW o \in Users, Add(u, c, o)
      PROVE  bug'[b] = bug[b] \/ Add(u, b, o)
  <2>1. CASE c = b  BY <1>1, <2>1
  <2>2. CASE c # b  BY <1>1, <2>2 DEF Add, TypeOK
  <2> QED  BY <2>1, <2>2
<1>2. ASSUME NEW u \in Users, HandSub(u)
      PROVE  \/ bug'[b] = bug[b]
             \/ /\ On(u, "hand") /\ page[u].st # NoState
                /\ b = page[u].bug /\ Live(b)
                /\ bug'[b] = Saved(u, page[u])
  <2> DEFINE r == Saved(u, page[u])
  <2>1. On(u, "hand") /\ page[u].st # NoState /\ bug' = Write(page[u].bug, r)
    BY <1>2 DEF HandSub
  <2> HIDE DEF r
  <2>2. bug'[b] = bug[b] \/ (b = page[u].bug /\ Live(b) /\ bug'[b] = r)
    BY <2>1 DEF Write, TypeOK
  <2> QED  BY <2>1, <2>2 DEF r
<1>3. ASSUME NEW u \in Users, NEW S \in SUBSET Bugs, NEW d \in Users,
             BatchAssignExe(u, S, d)
      PROVE  \/ bug'[b] = bug[b]
             \/ /\ On(u, "batch") /\ b \in page[u].bugs /\ Live(b) /\ d \in Actors[5]
                /\ bug'[b] = Assigned(u, d, bug[b], page[u].flow)
  BY <1>3 DEF BatchAssignExe
<1>4. ASSUME NEW c \in Bugs, Update(c)
      PROVE  \/ bug'[b] = bug[b]
             \/ Live(b) /\ bug'[b] = [bug[b] EXCEPT !.text = @ + 1]
  BY <1>4 DEF Update, TypeOK
<1>5. ASSUME NEW c \in Bugs, Delete(c)
      PROVE  bug'[b] = bug[b] \/ bug'[b] = Deleted
  BY <1>5 DEF Delete, TypeOK
<1>6. ASSUME NEW u \in Users, NEW F \in Flows, UpdateFlow(u, F)
      PROVE  \/ bug'[b] = bug[b]
             \/ \E step \in {2, 3, 4, 6} :
                  /\ u \in Managers /\ Live(b) /\ bug[b].st = WaitsIn(step)
                  /\ bug'[b] = Adjusted(u, bug[b], step, F)
  <2> DEFINE removed == flow \ F
             step == CHOOSE f \in removed : WaitsIn(f) = bug[b].st
             hit  == Live(b) /\ \E f \in removed : WaitsIn(f) = bug[b].st
  <2>1. removed \subseteq {2, 3, 4, 6}
    BY FlowsAssumption DEF TypeOK, FlowStep
  <2>2. /\ bug'[b] = IF hit THEN Adjusted(u, bug[b], step, F) ELSE bug[b]
        /\ u \in Managers
    BY <1>6 DEF UpdateFlow
  <2>3. hit => Live(b) /\ step \in removed /\ WaitsIn(step) = bug[b].st
    BY SMTT(30)
  <2> HIDE DEF removed, step, hit
  <2> QED  BY <2>1, <2>2, <2>3
<1>7. \/ UNCHANGED bug
      \/ \E u \in Users, c \in Bugs, o \in Users : Add(u, c, o)
      \/ \E u \in Users : HandSub(u)
      \/ \E u \in Users, S \in SUBSET Bugs, d \in Users : BatchAssignExe(u, S, d)
      \/ \E c \in Bugs : Update(c)
      \/ \E c \in Bugs : Delete(c)
      \/ \E u \in Users, F \in Flows : UpdateFlow(u, F)
  BY DEF Next, vars, AddInit, BugHand, ChangeStatus, ClosePage, BatchAssign
<1> QED  BY <1>1, <1>2, <1>3, <1>4, <1>5, <1>6, <1>7

LEMMA PageWriters ==
  ASSUME TypeOK, [Next]_vars, NEW v \in Users
  PROVE  \/ page'[v] = page[v]
         \/ page'[v].kind # "hand"
         \/ \E b \in Bugs : BugHand(v, b)
         \/ ChangeStatus(v)
<1>1. ASSUME NEW u \in Users, NEW y, Show(u, y)
      PROVE  page'[v] = page[v] \/ (u = v /\ page'[v] = y)
  BY <1>1 DEF Show, TypeOK
<1>2. ASSUME NEW u \in Users, NEW b \in Bugs, BugHand(u, b)
      PROVE  page'[v] = page[v] \/ u = v
  BY <1>1, <1>2 DEF BugHand
<1>3. ASSUME NEW u \in Users, ChangeStatus(u)
      PROVE  page'[v] = page[v] \/ u = v
  <2>1. \E y : Show(u, y)
    BY <1>3, ChosenPage
  <2> QED  BY <1>1, <2>1
<1>4. ASSUME NEW u \in Users, AddInit(u) \/ BatchAssign(u) \/ Show(u, NoPage)
      PROVE  page'[v] = page[v] \/ page'[v].kind # "hand"
  <2>1. PICK y : Show(u, y) /\ y.kind # "hand"
    BY <1>4 DEF AddInit, BatchAssign, NoPage
  <2> QED  BY <1>1, <2>1
<1>5. \/ UNCHANGED page
      \/ \E u \in Users : \/ \E b \in Bugs : BugHand(u, b)
                          \/ ChangeStatus(u)
                          \/ AddInit(u) \/ BatchAssign(u) \/ Show(u, NoPage)
  BY DEF Next, vars, Add, HandSub, ClosePage, BatchAssignExe, Update, Delete, UpdateFlow
<1> QED  BY <1>2, <1>3, <1>4, <1>5

(* Whatever state a page has chosen was offered for the row and the flow   *)
(* it was filled from, however old these are.                              *)
ChoiceOffered ==
  \A u \in Users :
    On(u, "hand") /\ page[u].st # NoState =>
      page[u].st \in MenuOf(u, page[u].row, page[u].flow).opts

LEMMA ChoiceStep ==
  ASSUME TypeOK, ChoiceOffered, [Next]_vars
  PROVE  ChoiceOffered'
<1> SUFFICES ASSUME NEW v \in Users, On(v, "hand")', page'[v].st # NoState
             PROVE  page'[v].st \in MenuOf(v, page'[v].row, page'[v].flow).opts
  BY DEF ChoiceOffered
<1>1. CASE page'[v] = page[v]
  BY <1>1 DEF ChoiceOffered, On
<1>2. ASSUME NEW b \in Bugs, BugHand(v, b)
      PROVE  FALSE
  BY <1>2 DEF BugHand, Show, TypeOK
<1>3. CASE ChangeStatus(v)
  <2>1. PICK y \in HandPage : /\ Show(v, y) /\ SamePlace(y, page[v])
                              /\ y.st \in MenuOf(v, page[v].row, page[v].flow).opts
    BY <1>3, ChosenPage
  <2>2. page'[v] = y
    BY <2>1 DEF Show, TypeOK
  <2> QED  BY <2>1, <2>2 DEF SamePlace
<1> QED  BY <1>1, <1>2, <1>3, PageWriters DEF On

LEMMA ChoicesOffered == Spec => []ChoiceOffered
<1>1. Init => ChoiceOffered
  BY DEF Init, ChoiceOffered, On, NoPage
<1>2. TypeOK /\ ChoiceOffered /\ [Next]_vars => ChoiceOffered'
  BY ChoiceStep
<1> QED  BY <1>1, <1>2, TypeCorrect, PTL DEF Spec

-----------------------------------------------------------------------------
(* Moves made on a page that is still true                                 *)

(* The row of a page that is up to date is the row of the bug, but for the *)
(* content, so the chosen state comes from one of the bug's own menus.     *)
LEMMA TrueChoice ==
  ASSUME TypeOK, ChoiceOffered, NEW u \in Users, On(u, "hand"), page[u].st # NoState,
         Live(page[u].bug), UpToDate(u)
  PROVE  LET r == bug[page[u].bug]
             c == CorrectFlow(flow, r.cur)
         IN \/ u = r.handler /\ page[u].st \in Redo(r.st, r.init, c, flow, Roles(u, flow)).opts
            \/ \E D, redo : page[u].st \in Do(r.st, r.init, c, flow, D, redo).opts
<1>1. PICK p \in HandPage : p = page[u]
  BY PageKinds
<1>2. p.flow = flow /\ bug[p.bug] = [p.row EXCEPT !.text = bug[p.bug].text]
  BY <1>1 DEF UpToDate, On, HandPage
<1>3. PICK r \in Row : r = bug[p.bug]
  BY <1>1, LiveRow DEF HandPage
<1>4. r = [p.row EXCEPT !.text = r.text] /\ p.row \in Row
  BY <1>2, <1>3 DEF HandPage
<1>5. /\ r.st = p.row.st /\ r.init = p.row.init /\ r.cur = p.row.cur
      /\ r.handler = p.row.handler
  <2>1. \A t : LET s == [p.row EXCEPT !.text = t]
               IN /\ s.st = p.row.st /\ s.init = p.row.init /\ s.cur = p.row.cur
                  /\ s.handler = p.row.handler
    BY <1>4 DEF Row
  <2> QED  BY <1>4, <2>1
<1>6. p.st \in MenuOf(u, p.row, flow).opts
  BY <1>1, <1>2 DEF ChoiceOffered
<1>7. LET c == CorrectFlow(flow, p.row.cur)
      IN \/ u = p.row.handler /\ p.st \in Redo(p.row.st, p.row.init, c, flow, Roles(u, flow)).opts
         \/ \E redo \in BOOLEAN :
              p.st \in Do(p.row.st, p.row.init, c, flow, Duties(u, p.row, flow), redo).opts
  <2>1. PICK row : row = p.row
    OBVIOUS
  <2>2. LET c == CorrectFlow(flow, row.cur)
        IN \/ u = row.handler /\ p.st \in Redo(row.st, row.init, c, flow, Roles(u, flow)).opts
           \/ \E redo \in BOOLEAN :
                p.st \in Do(row.st, row.init, c, flow, Duties(u, row, flow), redo).opts
    BY <1>6, <2>1, MenuOpts
  <2> QED  BY <2>1, <2>2
<1> QED  BY <1>1, <1>3, <1>5, <1>7

(* The states a batch assignment and a change of the flow put a bug in.    *)
LEMMA OtherMoves ==
  ASSUME NEW u \in Users, NEW r \in Row
  PROVE  /\ \A F : \A d \in Users : Assigned(u, d, r, F).st \in {7, 10}
         /\ \A F \in Flows, step \in {2, 3, 4, 6} :
              /\ Adjusted(u, r, step, F).st \in {1, 10, 13, 24, 25}
              /\ Adjusted(u, r, step, F).st = 13 => step = 6
         /\ [r EXCEPT !.text = @ + 1].st = r.st
<1>1. \A F : \A d \in Users : Assigned(u, d, r, F).st \in {7, 10}
  BY AssignedType DEF ToFix
<1>2. ASSUME NEW F \in Flows, NEW step \in {2, 3, 4, 6}
      PROVE  /\ Adjusted(u, r, step, F).st \in {1, 10, 13, 24, 25}
             /\ Adjusted(u, r, step, F).st = 13 => step = 6
  BY AdjustedType, SMTT(30) DEF WaitingState
<1>3. [r EXCEPT !.text = @ + 1].st = r.st
  BY DEF Row
<1> QED  BY <1>1, <1>2, <1>3

(* Who reopens a closed bug on a page that is still true, in any team and  *)
(* flow: the one who closed it.                                            *)
THEOREM CloserReopens == Spec => OnlyCloserReopens
<1>1. ASSUME TypeOK, ChoiceOffered, [Next]_vars, NEW b \in Bugs,
             bug[b].st \in Closed \ {4}, bug'[b].st \in State \ Closed,
             UpToDate(bug'[b].handler)
      PROVE  bug'[b].handler = bug[b].handler
  <2>1. Live(b) /\ bug[b] \in Row /\ bug[b] # Unused
    BY <1>1, LiveRow DEF Live, Closed, State
  <2>2. ASSUME NEW u \in Users, On(u, "hand"), page[u].st # NoState,
               b = page[u].bug, bug'[b] = Saved(u, page[u])
        PROVE  bug'[b].handler = bug[b].handler
    <3>1. bug'[b].handler = u
      BY <2>2 DEF Saved
    <3>2. \A i, c, D, redo : Do(bug[b].st, i, c, flow, D, redo).opts = {}
      BY <1>1, DoClosed
    <3>3. u = bug[b].handler
      BY <1>1, <2>1, <2>2, <3>1, <3>2, TrueChoice
    <3> QED  BY <3>1, <3>3
  <2>3. ASSUME NEW u \in Users, NEW d \in Users, On(u, "batch"), b \in page[u].bugs,
               bug'[b] = Assigned(u, d, bug[b], page[u].flow)
        PROVE  FALSE
    <3>1. bug'[b].handler = u
      BY <2>1, <2>3 DEF Assigned, Row
    <3>2. bug[b].st \in {17, 25}
      BY <1>1, <2>1, <2>3, <3>1 DEF UpToDate
    <3> QED  BY <1>1, <3>2 DEF Closed
  <2>4. ASSUME NEW step \in {2, 3, 4, 6}, bug[b].st = WaitsIn(step)
        PROVE  FALSE
    BY <1>1, <2>4 DEF WaitsIn, Closed
  <2>5. bug'[b].st # bug[b].st /\ bug'[b] # Deleted
    BY <1>1 DEF Deleted, State
  <2>6. ~\E u \in Users, o \in Users : Add(u, b, o)
    BY <2>1 DEF Add
  <2>7. bug'[b] # [bug[b] EXCEPT !.text = @ + 1]
    BY <2>1, <2>5 DEF Row
  <2> QED  BY <1>1, <2>2, <2>3, <2>4, <2>5, <2>6, <2>7, RowWriters
<1>2. ASSUME TypeOK, ChoiceOffered, [Next]_vars
      PROVE  \A b \in Bugs :
               /\ bug[b].st \in Closed \ {4}
               /\ bug'[b].st \in State \ Closed
               /\ UpToDate(bug'[b].handler)
               => bug'[b].handler = bug[b].handler
  BY <1>1, <1>2
<1> QED  BY <1>2, TypeCorrect, ChoicesOffered, PTL DEF Spec, OnlyCloserReopens

(* Fixed bugs come out of the cross check, in any team and with any other  *)
(* steps in the flow, as long as pages are still true when submitted.      *)
THEOREM FixesAreChecked == Spec => FixIsChecked
<1>1. ASSUME TypeOK, ChoiceOffered, [Next]_vars, NEW b \in Bugs, 6 \in flow,
             bug[b].st \in State \ {13, 26}, bug'[b].st \in {13, 26},
             UpToDate(bug'[b].handler)
      PROVE  bug[b].st = 18 \/ bug[b].cur = 6
  <2>1. Live(b) /\ bug[b] \in Row /\ bug[b] # Unused
    BY <1>1, LiveRow DEF Live
  <2>2. ASSUME NEW u \in Users, On(u, "hand"), page[u].st # NoState,
               b = page[u].bug, bug'[b] = Saved(u, page[u])
        PROVE  bug[b].st = 18 \/ bug[b].cur = 6
    <3>0. PICK s \in State : s = bug[b].st
      BY <1>1
    <3>1. PICK i, c : /\ s = bug[b].st /\ i = bug[b].init
                      /\ c = CorrectFlow(flow, bug[b].cur)
      BY <3>0
    <3>2. bug'[b].handler = u /\ page[u].st \in {13, 26}
      BY <1>1, <2>2 DEF Saved
    <3>3. \/ \E R : page[u].st \in Redo(s, i, c, flow, R).opts
          \/ \E D, redo : page[u].st \in Do(s, i, c, flow, D, redo).opts
      BY <1>1, <2>1, <2>2, <3>1, <3>2, TrueChoice
    <3>4. \A R : page[u].st \in Redo(s, i, c, flow, R).opts =>
                   c = 6 \/ s \in {13, 26} \/ 6 \notin flow
      BY <3>2, RedoMarks
    <3>5. \A D, redo : page[u].st \in Do(s, i, c, flow, D, redo).opts =>
                         s = 18 \/ 6 \notin flow
      BY <3>2, DoMarks
    <3>6. c = 6 \/ s = 18
      BY <1>1, <3>1, <3>3, <3>4, <3>5
    <3>7. c = 6 => bug[b].cur = 6
      <4>1. bug[b].cur \in 0..8 /\ flow \in Flows
        BY <1>1, <2>1 DEF Row, TypeOK
      <4> QED  BY <3>1, <4>1, Corrected
    <3> QED  BY <3>1, <3>6, <3>7
  <2>3. ASSUME NEW step \in {2, 3, 4, 6}, NEW F \in Flows, NEW u \in Users,
               bug[b].st = WaitsIn(step), bug'[b] = Adjusted(u, bug[b], step, F)
        PROVE  bug[b].st = 18
    <3>1. step = 6
      BY <1>1, <2>1, <2>3, OtherMoves
    <3> QED  BY <2>3, <3>1 DEF WaitsIn
  <2>4. bug'[b].st # bug[b].st /\ bug'[b] # Deleted
    BY <1>1 DEF Deleted, State
  <2>5. ~\E u \in Users, o \in Users : Add(u, b, o)
    BY <2>1 DEF Add
  <2>6. bug'[b] # [bug[b] EXCEPT !.text = @ + 1]
    BY <2>1, <2>4 DEF Row
  <2>7. \A u, d \in Users : \A F : bug'[b] # Assigned(u, d, bug[b], F)
    BY <1>1, <2>1, AssignedType DEF ToFix
  <2> QED  BY <1>1, <2>2, <2>3, <2>4, <2>5, <2>6, <2>7, RowWriters
<1>2. ASSUME TypeOK, ChoiceOffered, [Next]_vars
      PROVE  \A b \in Bugs :
               /\ 6 \in flow
               /\ bug[b].st \in State \ {13, 26}
               /\ bug'[b].st \in {13, 26}
               /\ UpToDate(bug'[b].handler)
               => bug[b].st = 18 \/ bug[b].cur = 6
  BY <1>1, <1>2
<1> QED  BY <1>2, TypeCorrect, ChoicesOffered, PTL DEF Spec, FixIsChecked

-----------------------------------------------------------------------------
(* Whose verdict closes a bug                                              *)

(* No flow of the task has a cross check.                                  *)
NoCrossCheck == \A F \in Flows : 6 \notin F

(* Nobody but a tester of the bug is its owner for testing or has judged   *)
(* the fix of it, neither in the row nor in a page filled from it.         *)
TestedBy(r) ==
  /\ r.own["test"] \in Testers(r) \cup {NIL}
  /\ r.st # 18
  /\ r.st \in {9, 14} => r.handler \in Testers(r)

TestedOn(p) ==
  /\ TestedBy(p.row)
  /\ p.duty = "test" => p.pick \in Testers(p.row)

TestersKnown ==
  /\ \A b \in Bugs : Live(b) => TestedBy(bug[b])
  /\ \A u \in Users : On(u, "hand") => TestedOn(page[u])

(* Only a tester is offered a verdict.                                     *)
LEMMA VerdictOffered ==
  ASSUME NoCrossCheck, NEW F \in Flows, NEW u \in Users, NEW r \in Row, TestedBy(r),
         NEW s \in MenuOf(u, r, F).opts
  PROVE  s # 18 /\ (s \in {9, 14} => u \in Testers(r))
<1>0. PICK t \in State : t = r.st
  BY DEF Row
<1>1. PICK i, c, D : /\ t = r.st /\ i = r.init
                     /\ c = CorrectFlow(F, r.cur) /\ D = Duties(u, r, F)
  BY <1>0
<1>2. t # 18 /\ (t \in {9, 14} => r.handler \in Testers(r))
  BY <1>1 DEF TestedBy
<1>3. c # 6 /\ 6 \notin F
  <2>1. r.cur \in 0..8
    BY DEF Row
  <2> QED  BY <1>1, <2>1, Corrected DEF NoCrossCheck
<1>4. "test" \in D => u \in Testers(r)
  <2>1. 8 \in Roles(u, F) => u \in Actors[8]
    BY DEF Roles
  <2>2. r.own["test"] = u => u \in Testers(r)
    BY NILAssumption DEF TestedBy
  <2>3. "test" \in D => 8 \in Roles(u, F) \/ r.own["test"] = u
    BY <1>1 DEF Duties, RoleDuties, OwnedDuties
  <2> QED  BY <2>1, <2>2, <2>3 DEF Testers
<1>5. \/ u = r.handler /\ \E R : s \in Redo(t, i, c, F, R).opts
      \/ \E redo : s \in Do(t, i, c, F, D, redo).opts
  BY <1>1, MenuOpts
<1>6. ASSUME NEW R, u = r.handler, s \in Redo(t, i, c, F, R).opts
      PROVE  s # 18 /\ (s \in {9, 14} => u \in Testers(r))
  <2>1. /\ s = 14 => t = 9
        /\ s = 9 => t = 14
        /\ s # 18
    BY <1>3, <1>6, RedoMarks
  <2> QED  BY <1>2, <1>6, <2>1
<1>7. ASSUME NEW redo, s \in Do(t, i, c, F, D, redo).opts
      PROVE  s # 18 /\ (s \in {9, 14} => u \in Testers(r))
  <2>1. /\ s = 14 => "test" \in D
        /\ s = 9 => "test" \in D
        /\ s # 18
    BY <1>2, <1>3, <1>7, DoMarks
  <2> QED  BY <1>4, <2>1
<1> QED  BY <1>5, <1>6, <1>7

LEMMA SavedTested ==
  ASSUME NoCrossCheck, NEW u \in Users, NEW p \in HandPage, p.st # NoState,
         p.st \in MenuOf(u, p.row, p.flow).opts, TestedOn(p)
  PROVE  TestedBy(Saved(u, p))
<1>1. PICK r \in Row, F \in Flows : r = p.row /\ F = p.flow
  BY DEF HandPage
<1>2. /\ Saved(u, p) \in Row
      /\ Saved(u, p).st = p.st
      /\ Saved(u, p).handler = u
      /\ Saved(u, p).rept = r.rept
  BY <1>1, SavedType DEF Saved
<1>3. Testers(Saved(u, p)) = Testers(r)
  BY <1>2 DEF Testers
<1>4. p.st # 18 /\ (p.st \in {9, 14} => u \in Testers(r))
  BY <1>1, VerdictOffered DEF TestedOn
<1>5. PostedOwners(p)["test"] \in Testers(r) \cup {NIL}
  BY <1>1 DEF PostedOwners, TestedOn, TestedBy, Row, Owners, Duty
<1>6. Saved(u, p).own["test"] \in Testers(r) \cup {NIL}
  <2>1. Saved(u, p).own = PostedOwners(p)
        \/ Saved(u, p).own = [PostedOwners(p) EXCEPT !["test"] = r.rept]
    BY <1>1 DEF Saved
  <2>2. r.rept \in Testers(r)
    BY DEF Testers
  <2>3. "test" \in DOMAIN PostedOwners(p)
    BY <1>1 DEF PostedOwners, Row, Owners, Duty
  <2> QED  BY <1>5, <2>1, <2>2, <2>3
<1> QED  BY <1>2, <1>3, <1>4, <1>6 DEF TestedBy

LEMMA AssignedTested ==
  ASSUME NEW u \in Users, NEW d \in Users, NEW r \in Row, NEW F, TestedBy(r)
  PROVE  TestedBy(Assigned(u, d, r, F))
<1> DEFINE a == Assigned(u, d, r, F)
<1>1. /\ a.st \in {7, 10} /\ a.rept = r.rept
      /\ a.own = [r.own EXCEPT !["dev"] = d]
  <2>1. a.st \in {7, 10}
    BY OtherMoves
  <2>2. a.rept = r.rept /\ a.own = [r.own EXCEPT !["dev"] = d]
    BY DEF Assigned, Row
  <2> QED  BY <2>1, <2>2
<1>2. [r.own EXCEPT !["dev"] = d]["test"] = r.own["test"]
  BY DEF Row, Owners, Duty
<1> HIDE DEF a
<1>3. Testers(a) = Testers(r) /\ a.own["test"] = r.own["test"]
  BY <1>1, <1>2 DEF Testers
<1>4. a.st # 18 /\ a.st \notin {9, 14}
  BY <1>1
<1> QED  BY <1>3, <1>4 DEF TestedBy, a

LEMMA AdjustedTested ==
  ASSUME NEW u \in Users, NEW r \in Row, NEW F \in Flows, NEW step \in {2, 3, 4, 6},
         TestedBy(r)
  PROVE  TestedBy(Adjusted(u, r, step, F))
<1> DEFINE a == Adjusted(u, r, step, F)
           n == StepAfter(F, step)
<1>1. a.st \in {1, 10, 13, 24, 25}
  BY OtherMoves
<1>2. a.rept = r.rept
  BY DEF Adjusted, Row
<1>3. a.own["test"] = r.own["test"]
  <2>1. CASE step = 6
    BY <2>1 DEF Adjusted, Row
  <2>2. CASE step # 6
    <3>1. DutyOf(n) # "test"
      BY <2>2, StepAfterNext DEF DutyOf
    <3>2. a.own = [r.own EXCEPT ![DutyOf(n)] = LastNamed(n)]
      BY <2>2 DEF Adjusted, Row
    <3> HIDE DEF a, n
    <3> QED  BY <3>1, <3>2 DEF Row, Owners, Duty
  <2> QED  BY <2>1, <2>2
<1> HIDE DEF a
<1>4. Testers(a) = Testers(r)
  BY <1>2 DEF Testers
<1> QED  BY <1>1, <1>3, <1>4 DEF TestedBy, a

LEMMA AddTested ==
  ASSUME TypeOK, NEW u \in Users, NEW b \in Bugs, NEW o \in Users, Add(u, b, o)
  PROVE  TestedBy(bug'[b])
<1> DEFINE step == StepAfter(page[u].flow, 1)
           own  == [d \in Duty |-> IF d = DutyOf(step) THEN o
                                   ELSE IF d = "test" THEN u ELSE NIL]
           st   == WaitingState(step)
<1>1. page[u].flow \in Flows
  BY PageKinds DEF Add, ReportPage
<1>2. step \in FlowStep /\ o \in Actors[step]
  BY <1>1, StepAfterType DEF Add
<1>3. st \in {1, 10, 24, 25}
  BY DEF WaitingState
<1>4. own["test"] \in Actors[1] \cup Actors[2] \cup Actors[8] \cup {u}
  <2>1. DutyOf(step) = "test" => step \in {1, 2, 8}
    BY <1>2 DEF DutyOf, FlowStep
  <2> HIDE DEF step
  <2> QED  BY <1>2, <2>1 DEF Duty
<1>5. bug'[b].st = st /\ bug'[b].rept = u /\ bug'[b].own = own
  BY DEF Add, TypeOK
<1> HIDE DEF step, own, st
<1> QED  BY <1>3, <1>4, <1>5 DEF TestedBy, Testers

(* The person picked for testing or confirming is a tester.                *)
LEMMA ChoiceTested ==
  ASSUME TypeOK, NEW u \in Users, ChangeStatus(u), TestedOn(page[u])
  PROVE  \E y : Show(u, y) /\ TestedOn(y)
<1> DEFINE p == page[u]
           m == MenuOf(u, p.row, p.flow)
<1>1. PICK y \in HandPage : /\ Show(u, y) /\ SamePlace(y, p)
                            /\ \/ ChosenWithout(m, p, y)
                               \/ ChosenKept(m, p, y)
                               \/ ChosenPerson(m, p, y)
  BY ChosenPage
<1>2. p \in HandPage
  BY PageKinds DEF ChangeStatus
<1>3. m \in Menu
  BY <1>2, MenuType DEF HandPage
<1> HIDE DEF m
<1>4. y.row = p.row
  BY <1>1 DEF SamePlace
<1>5. CASE y.duty = p.duty /\ y.pick = p.pick
  BY <1>1, <1>4, <1>5 DEF TestedOn
<1>6. CASE ChosenPerson(m, p, y)
  <2>1. PICK e \in EntriesFor(m, y.st) : /\ e.pick
                                         /\ y.duty = DutyOf(e.next)
                                         /\ y.pick \in Nameable(p, y.st, e.next)
    BY <1>6 DEF ChosenPerson
  <2>2. e.next \in FlowStep
    BY <1>3, <2>1, EntriesForType DEF Entry
  <2>3. PICK k \in FlowStep : k = e.next
    BY <2>2
  <2>4. ASSUME y.duty = "test" PROVE y.pick \in Testers(p.row)
    <3>1. k \in {1, 2, 8}
      BY <2>1, <2>3, <2>4 DEF DutyOf, FlowStep
    <3>2. Candidates(k, p.flow) \subseteq Actors[1] \cup Actors[2] \cup Actors[8]
      BY <3>1 DEF Candidates
    <3>3. DutyOf(k) = "test"
      BY <2>1, <2>3, <2>4
    <3>4. y.pick \in Candidates(k, p.flow) \/ (y.pick = p.row.own["test"] /\ y.pick # NIL)
      BY <2>1, <2>3, <3>3 DEF Nameable
    <3> QED  BY <3>2, <3>4 DEF Testers, TestedOn, TestedBy
  <2> QED  BY <1>1, <1>4, <2>4 DEF TestedOn
<1> QED  BY <1>1, <1>5, <1>6 DEF ChosenWithout, ChosenKept

LEMMA TestersStep ==
  ASSUME NoCrossCheck, TypeOK, ChoiceOffered, TestersKnown, [Next]_vars
  PROVE  TestersKnown'
<1>1. ASSUME NEW b \in Bugs, Live(b)'
      PROVE  TestedBy(bug'[b])
  <2>1. CASE bug'[b] = bug[b]
    BY <1>1, <2>1 DEF TestersKnown, Live
  <2>2. ASSUME NEW u \in Users, On(u, "hand"), page[u].st # NoState,
               bug'[b] = Saved(u, page[u])
        PROVE  TestedBy(bug'[b])
    <3>1. PICK p \in HandPage : p = page[u]
      BY <2>2, PageKinds
    <3> QED  BY <2>2, <3>1, SavedTested DEF ChoiceOffered, TestersKnown
  <2>3. CASE Live(b) /\ bug'[b] = [bug[b] EXCEPT !.text = @ + 1]
    <3>1. PICK r \in Row : r = bug[b] /\ TestedBy(r)
      BY <2>3, LiveRow DEF TestersKnown
    <3>2. /\ bug'[b].own = r.own /\ bug'[b].st = r.st /\ bug'[b].rept = r.rept
          /\ bug'[b].handler = r.handler
      BY <2>3, <3>1 DEF Row
    <3> QED  BY <3>1, <3>2 DEF TestedBy, Testers
  <2>4. bug'[b] # Deleted
    BY <1>1 DEF Live, Deleted, State
  <2>5. Live(b) => bug[b] \in Row /\ TestedBy(bug[b])
    BY LiveRow DEF TestersKnown
  <2> QED  BY <2>1, <2>2, <2>3, <2>4, <2>5, RowWriters, AddTested, AssignedTested,
              AdjustedTested
<1>2. ASSUME NEW v \in Users, On(v, "hand")'
      PROVE  TestedOn(page'[v])
  <2>1. CASE page'[v] = page[v]
    BY <1>2, <2>1 DEF TestersKnown, On
  <2>2. ASSUME NEW b \in Bugs, BugHand(v, b)
        PROVE  TestedOn(page'[v])
    <3>1. page'[v].row = bug[b] /\ page'[v].duty = NoDuty /\ TestedBy(bug[b])
      BY <2>2 DEF BugHand, Show, TypeOK, TestersKnown
    <3> QED  BY <3>1 DEF TestedOn, NoDuty
  <2>3. CASE ChangeStatus(v)
    <3>1. TestedOn(page[v])
      BY <2>3 DEF ChangeStatus, TestersKnown
    <3>2. \E y : Show(v, y) /\ TestedOn(y)
      BY <2>3, <3>1, ChoiceTested
    <3> QED  BY <3>2 DEF Show, TypeOK
  <2> QED  BY <1>2, <2>1, <2>2, <2>3, PageWriters DEF On
<1> QED  BY <1>1, <1>2 DEF TestersKnown

(* In tasks without a cross check, of any team and with any number of      *)
(* pages open, only a tester of a bug ever closes it as solved: no page,   *)
(* however stale, makes one of somebody who is not.                        *)
THEOREM TestersSolve ==
  ASSUME NoCrossCheck
  PROVE  Spec => []SolvedByTester
<1>1. Init => TestersKnown
  BY DEF Init, TestersKnown, On, NoPage, Live, Unused, NoState, State
<1>2. TypeOK /\ ChoiceOffered /\ TestersKnown /\ [Next]_vars => TestersKnown'
  BY TestersStep
<1>3. TestersKnown => SolvedByTester
  BY DEF TestersKnown, TestedBy, SolvedByTester
<1> QED  BY <1>1, <1>2, <1>3, TypeCorrect, ChoicesOffered, PTL DEF Spec

-----------------------------------------------------------------------------
(* Where the tables lead                                                   *)

(* The states that are work for a person named for a step.                 *)
Work(F, step) ==
  CASE step = 1 -> {2, 3, 4, 5, 6, 11, 13, 15, 16, 26}
    [] step = 2 -> {1, 2, 6, 24}
    [] step = 3 -> {24}
    [] step = 4 -> IF 4 \in F THEN {17, 25} ELSE {7, 8}
    [] step = 5 -> {7, 8, 9, 10, 21}
    [] step = 6 -> {18}
    [] step = 7 -> {12, 17, 19, 20}
    [] OTHER    -> {}

(* The states for which a person must be named.                            *)
Asks == {7, 8, 10, 21, 24}

(* An entry that names a person leads to a step where the state is work,   *)
(* the pairs X of state and step excepted.                                 *)
FitEntry(F, X) ==
  {e \in Entry :
     \A s \in e.sts : /\ e.pick => s \in Work(F, e.next) \/ <<s, e.next>> \in X
                      /\ ~e.pick => s \notin Asks /\ (s = 16 => e.next = 1)}

(* A table with entries for the states that need one, but for the states   *)
(* Y, and with no state for a step the flow does not have.                 *)
FitMenu(F, X, Y) ==
  {m \in [opts : SUBSET State, ctl : Seq(FitEntry(F, X))] :
     /\ 24 \in m.opts => 3 \in F
     /\ 25 \in m.opts => 4 \in F
     /\ \A s \in (m.opts \cap (Asks \cup {16})) \ Y :
          \E k \in DOMAIN m.ctl : s \in m.ctl[k].sts}

LEMMA SendFit ==
  ASSUME NEW F, NEW X, NEW Y, NEW step \in FlowStep, NEW S \in SUBSET State,
         \A s \in S : s \in Work(F, step) \/ <<s, step>> \in X,
         24 \in S => 3 \in F, 25 \in S => 4 \in F
  PROVE  Send(S, step) \in FitMenu(F, X, Y)
<1> DEFINE e == [sts |-> S, next |-> step, pick |-> TRUE]
<1>1. e \in FitEntry(F, X)
  BY DEF FitEntry, Entry, FlowStep
<1>2. /\ Send(S, step) = [opts |-> S, ctl |-> <<e>>]
      /\ <<e>> \in Seq(FitEntry(F, X))
      /\ 1 \in DOMAIN <<e>> /\ <<e>>[1].sts = S
  BY <1>1 DEF Send, Offer, To
<1> HIDE DEF e
<1>3. Send(S, step).opts = S /\ Send(S, step).ctl = <<e>>
  BY <1>2
<1> QED  BY <1>2, <1>3 DEF FitMenu

LEMMA KeepFit ==
  ASSUME NEW F, NEW X, NEW Y, NEW step \in 0..8, NEW S \in SUBSET State,
         S \cap (Asks \cup {25}) = {}, 16 \in S => step = 1
  PROVE  Keep(S, step) \in FitMenu(F, X, Y)
<1> DEFINE e == [sts |-> S, next |-> step, pick |-> FALSE]
<1>1. e \in FitEntry(F, X)
  BY DEF FitEntry, Entry, FlowStep
<1>2. /\ Keep(S, step) = [opts |-> S, ctl |-> <<e>>]
      /\ <<e>> \in Seq(FitEntry(F, X))
      /\ 1 \in DOMAIN <<e>> /\ <<e>>[1].sts = S
  BY <1>1 DEF Keep, Offer, Stay
<1> HIDE DEF e
<1>3. Keep(S, step).opts = S /\ Keep(S, step).ctl = <<e>>
  BY <1>2
<1> QED  BY <1>2, <1>3 DEF FitMenu, Asks

LEMMA OfferedFit ==
  ASSUME NEW F, NEW X, NEW Y, NEW S \in SUBSET State,
         (S \cap (Asks \cup {16, 25})) \subseteq Y \ {24, 25}
  PROVE  Offer(S, <<>>) \in FitMenu(F, X, Y)
<1> DEFINE m == Offer(S, <<>>)
<1>1. /\ m \in [opts : SUBSET State, ctl : Seq(FitEntry(F, X))]
      /\ m.opts = S
  BY DEF Offer
<1>2. 24 \notin S /\ 25 \notin S
  BY DEF Asks
<1>3. (S \cap (Asks \cup {16})) \ Y = {}
  OBVIOUS
<1> HIDE DEF m
<1>4. m \in FitMenu(F, X, Y)
  BY <1>1, <1>2, <1>3 DEF FitMenu
<1> QED  BY <1>4 DEF m

LEMMA JoinFit ==
  ASSUME NEW F, NEW X, NEW Y, NEW m \in FitMenu(F, X, Y), NEW n \in FitMenu(F, X, Y)
  PROVE  m \oplus n \in FitMenu(F, X, Y)
<1> DEFINE c == m.ctl \o n.ctl
           E == FitEntry(F, X)
           A == Asks \cup {16}
<1>1. /\ m.opts \in SUBSET State /\ m.ctl \in Seq(E)
      /\ n.opts \in SUBSET State /\ n.ctl \in Seq(E)
      /\ 24 \in m.opts \cup n.opts => 3 \in F
      /\ 25 \in m.opts \cup n.opts => 4 \in F
      /\ \A s \in (m.opts \cap A) \ Y : \E k \in DOMAIN m.ctl : s \in m.ctl[k].sts
      /\ \A s \in (n.opts \cap A) \ Y : \E k \in DOMAIN n.ctl : s \in n.ctl[k].sts
  BY DEF FitMenu
<1> HIDE DEF E, A
<1>2. m \oplus n = [opts |-> m.opts \cup n.opts, ctl |-> c] /\ c \in Seq(E)
  BY <1>1 DEF \oplus, Offer
<1>3. /\ \A k \in DOMAIN m.ctl : k \in DOMAIN c /\ c[k] = m.ctl[k]
      /\ \A k \in DOMAIN n.ctl :
           Len(m.ctl) + k \in DOMAIN c /\ c[Len(m.ctl) + k] = n.ctl[k]
  <2>1. PICK a \in Seq(E), b \in Seq(E) : a = m.ctl /\ b = n.ctl
    BY <1>1
  <2>2. /\ \A k \in DOMAIN a : k \in DOMAIN (a \o b) /\ (a \o b)[k] = a[k]
        /\ \A k \in DOMAIN b :
             Len(a) + k \in DOMAIN (a \o b) /\ (a \o b)[Len(a) + k] = b[k]
    <3> HIDE DEF c
    <3> QED  BY InConcat
  <2> QED  BY <2>1, <2>2
<1> HIDE DEF c
<1>4. ASSUME NEW s \in ((m.opts \cup n.opts) \cap A) \ Y
      PROVE  \E k \in DOMAIN c : s \in c[k].sts
  <2>1. CASE s \in m.opts
    <3>1. PICK k \in DOMAIN m.ctl : s \in m.ctl[k].sts
      BY <1>1, <2>1
    <3> QED  BY <1>3, <3>1
  <2>2. CASE s \in n.opts
    <3>1. PICK k \in DOMAIN n.ctl : s \in n.ctl[k].sts
      BY <1>1, <2>2
    <3> QED  BY <1>3, <3>1
  <2> QED  BY <2>1, <2>2
<1> QED  BY <1>1, <1>2, <1>4 DEF FitMenu, E, A

(* The pieces the tables are put together from.                            *)
LEMMA Pieces ==
  ASSUME NEW F, NEW X, NEW Y
  PROVE  /\ \A S \in SUBSET {2, 3, 4, 5, 6, 11, 13, 15, 16, 26} :
              Send(S, 1) \in FitMenu(F, X, Y)
         /\ \A S \in SUBSET {1, 2, 6} : Send(S, 2) \in FitMenu(F, X, Y)
         /\ 3 \in F => \A step \in {2, 3} : Send({24}, step) \in FitMenu(F, X, Y)
         /\ 4 \in F => /\ Send({17}, 4) \in FitMenu(F, X, Y)
                       /\ Send({25}, 4) \in FitMenu(F, X, Y)
         /\ 4 \notin F => Send({7, 8}, 4) \in FitMenu(F, X, Y)
         /\ \A S \in SUBSET {7, 8, 9, 10, 21} : Send(S, 5) \in FitMenu(F, X, Y)
         /\ Send({18}, 6) \in FitMenu(F, X, Y)
         /\ \A S \in SUBSET {12, 17, 19, 20} : Send(S, 7) \in FitMenu(F, X, Y)
         /\ \A S \in SUBSET {2, 3, 4, 5, 6, 14, 15, 16, 22, 23} :
              Keep(S, 1) \in FitMenu(F, X, Y)
         /\ \A S \in SUBSET {2, 3, 4, 5, 6, 14, 15, 22, 23} :
              \A step \in {0, 7} : Keep(S, step) \in FitMenu(F, X, Y)
         /\ \A S \in SUBSET ({1, 2, 3, 4, 5, 15, 22, 23} \cup (Y \cap {10, 16, 21})) :
              Offer(S, <<>>) \in FitMenu(F, X, Y)
         /\ Nothing \in FitMenu(F, X, Y)
<1>1. \A S \in SUBSET {2, 3, 4, 5, 6, 11, 13, 15, 16, 26} :
        Send(S, 1) \in FitMenu(F, X, Y)
  BY SendFit DEF Work, State, FlowStep
<1>2. \A S \in SUBSET {1, 2, 6} : Send(S, 2) \in FitMenu(F, X, Y)
  BY SendFit DEF Work, State, FlowStep
<1>3. 3 \in F => \A step \in {2, 3} : Send({24}, step) \in FitMenu(F, X, Y)
  BY SendFit DEF Work, State, FlowStep
<1>4. 4 \in F => /\ Send({17}, 4) \in FitMenu(F, X, Y)
                 /\ Send({25}, 4) \in FitMenu(F, X, Y)
  BY SendFit DEF Work, State, FlowStep
<1>5. 4 \notin F => Send({7, 8}, 4) \in FitMenu(F, X, Y)
  BY SendFit DEF Work, State, FlowStep
<1>6. \A S \in SUBSET {7, 8, 9, 10, 21} : Send(S, 5) \in FitMenu(F, X, Y)
  BY SendFit DEF Work, State, FlowStep
<1>7. Send({18}, 6) \in FitMenu(F, X, Y)
  BY SendFit DEF Work, State, FlowStep
<1>8. \A S \in SUBSET {12, 17, 19, 20} : Send(S, 7) \in FitMenu(F, X, Y)
  BY SendFit DEF Work, State, FlowStep
<1>9. \A S \in SUBSET {2, 3, 4, 5, 6, 14, 15, 16, 22, 23} :
        Keep(S, 1) \in FitMenu(F, X, Y)
  BY KeepFit DEF Asks, State
<1>10. \A S \in SUBSET {2, 3, 4, 5, 6, 14, 15, 22, 23} :
         \A step \in {0, 7} : Keep(S, step) \in FitMenu(F, X, Y)
  BY KeepFit DEF Asks, State
<1>11. \A S \in SUBSET ({1, 2, 3, 4, 5, 15, 22, 23} \cup (Y \cap {10, 16, 21})) :
         Offer(S, <<>>) \in FitMenu(F, X, Y)
  BY OfferedFit DEF Asks, State
<1>12. Nothing \in FitMenu(F, X, Y)
  BY <1>11 DEF Nothing
<1> QED  BY <1>1, <1>2, <1>3, <1>4, <1>5, <1>6, <1>7, <1>8, <1>9, <1>10, <1>11, <1>12

LEMMA SharedFit ==
  ASSUME NEW F, NEW X, NEW Y
  PROVE  /\ ToDev(F) \in FitMenu(F, X, Y)
         /\ Dispatch(F) \in FitMenu(F, X, Y)
         /\ Forward(F) \in FitMenu(F, X, Y)
         /\ Restart(F) \in FitMenu(F, X, Y)
         /\ Fixed(F) \in FitMenu(F, X, Y)
         /\ Escalate(F, {}) \in FitMenu(F, X, Y)
         /\ Escalate(F, {19}) \in FitMenu(F, X, Y)
         /\ Escalate(F, {19, 20}) \in FitMenu(F, X, Y)
         /\ SendOn(F) \in FitMenu(F, X, Y)
<1>1. ToDev(F) \in FitMenu(F, X, Y)
  BY Pieces DEF ToDev
<1>2. Dispatch(F) \in FitMenu(F, X, Y)
  BY <1>1, Pieces DEF Dispatch
<1>3. Forward(F) \in FitMenu(F, X, Y)
  BY <1>2, Pieces DEF Forward
<1>4. Restart(F) \in FitMenu(F, X, Y)
  BY <1>3, Pieces DEF Restart
<1>5. Fixed(F) \in FitMenu(F, X, Y)
  BY Pieces DEF Fixed
<1>6. ASSUME NEW H \in SUBSET {19, 20} PROVE Escalate(F, H) \in FitMenu(F, X, Y)
  <2>1. {17} \cup H \in SUBSET {12, 17, 19, 20} /\ H \in SUBSET {12, 17, 19, 20}
    OBVIOUS
  <2>2. Send(H, 7) \in FitMenu(F, X, Y) /\ Send({17} \cup H, 7) \in FitMenu(F, X, Y)
    BY <2>1, Pieces
  <2>3. 4 \in F => Send({17}, 4) \in FitMenu(F, X, Y)
    BY Pieces
  <2> QED  BY <2>2, <2>3, JoinFit DEF Escalate
<1>7. SendOn(F) \in FitMenu(F, X, Y)
  <2>1. CASE 2 \in F
    BY <2>1, Pieces DEF SendOn
  <2>2. CASE 2 \notin F /\ 3 \in F
    BY <2>2, Pieces DEF SendOn
  <2>3. CASE 2 \notin F /\ 3 \notin F /\ 4 \in F
    <3>1. F \cap {2, 3, 4} = {4}
      BY <2>3
    <3> QED  BY <2>3, <3>1, Pieces DEF SendOn
  <2>4. CASE 2 \notin F /\ 3 \notin F /\ 4 \notin F
    <3>1. F \cap {2, 3, 4} = {}
      BY <2>4
    <3> QED  BY <2>4, <3>1, Pieces DEF SendOn
  <2> QED  BY <2>1, <2>2, <2>3, <2>4
<1> QED  BY <1>1, <1>2, <1>3, <1>4, <1>5, <1>6, <1>7

LEMMA RedoRewordFit ==
  ASSUME NEW F, NEW X, NEW Y, NEW c
  PROVE  RedoReword(F, c) \in FitMenu(F, X, Y)
  BY Pieces, SharedFit, JoinFit DEF RedoReword

LEMMA RedoDuplicateFit ==
  ASSUME NEW F, NEW X, NEW Y, NEW c
  PROVE  RedoDuplicate(F, c) \in FitMenu(F, X, Y)
  BY Pieces, SharedFit, JoinFit DEF RedoDuplicate

LEMMA RedoInvalidFit ==
  ASSUME NEW F, NEW X, NEW Y, NEW c
  PROVE  RedoInvalid(F, c) \in FitMenu(F, X, Y)
  BY Pieces, SharedFit, JoinFit DEF RedoInvalid

LEMMA RedoWithdrawnFit ==
  ASSUME NEW F, NEW X, NEW Y, NEW c, NEW i
  PROVE  RedoWithdrawn(F, c, i) \in FitMenu(F, X, Y)
  BY Pieces, SharedFit, JoinFit DEF RedoWithdrawn

LEMMA RedoNeedInfoFit ==
  ASSUME NEW F, NEW X, NEW Y
  PROVE  RedoNeedInfo(F) \in FitMenu(F, X, Y)
  BY Pieces, SharedFit, JoinFit DEF RedoNeedInfo

LEMMA RedoToFixFit ==
  ASSUME NEW F, NEW X, NEW Y, NEW c, NEW i, c = 7 => 21 \in Y
  PROVE  RedoToFix(F, c, i) \in FitMenu(F, X, Y)
  BY Pieces, SharedFit, JoinFit DEF RedoToFix

LEMMA RedoUnresolvedFit ==
  ASSUME NEW F, NEW X, NEW Y, NEW c
  PROVE  RedoUnresolved(c) \in FitMenu(F, X, Y)
  BY Pieces, SharedFit, JoinFit DEF RedoUnresolved

LEMMA RedoHeldFit ==
  ASSUME NEW F, NEW X, NEW Y
  PROVE  RedoHeld(F) \in FitMenu(F, X, Y)
  BY Pieces, SharedFit, JoinFit DEF RedoHeld

LEMMA RedoDisputeFit ==
  ASSUME NEW F, NEW X, NEW Y
  PROVE  RedoDispute \in FitMenu(F, X, Y)
  BY Pieces, SharedFit, JoinFit DEF RedoDispute

LEMMA RedoFixedFit ==
  ASSUME NEW F, NEW X, NEW Y, NEW c, NEW s
  PROVE  RedoFixed(F, c, s) \in FitMenu(F, X, Y)
  BY Pieces, SharedFit, JoinFit DEF RedoFixed

LEMMA RedoClosedFit ==
  ASSUME NEW F, NEW X, NEW Y, NEW s
  PROVE  RedoClosed(F, s) \in FitMenu(F, X, Y)
  BY Pieces, SharedFit, JoinFit DEF RedoClosed

LEMMA RedoNotBugFit ==
  ASSUME NEW F, NEW X, NEW Y, NEW c, c = 4 => <<10, 1>> \in X
  PROVE  RedoNotBug(F, c) \in FitMenu(F, X, Y)
<1> DEFINE S == {3, 11} \cup (IF c = 4 THEN {10} ELSE {})
<1>1. \A s \in S : s \in Work(F, 1) \/ <<s, 1>> \in X
  BY DEF Work
<1>2. S \in SUBSET State /\ 24 \notin S /\ 25 \notin S /\ 1 \in FlowStep
  BY DEF State, FlowStep
<1> HIDE DEF S
<1>3. Send(S, 1) \in FitMenu(F, X, Y)
  BY <1>1, <1>2, SendFit
<1> QED  BY <1>3, SharedFit, JoinFit DEF RedoNotBug, S

LEMMA RedoReassignFit ==
  ASSUME NEW F, NEW X, NEW Y, NEW R
  PROVE  RedoReassign(F, R) \in FitMenu(F, X, Y)
  BY Pieces, SharedFit, JoinFit DEF RedoReassign

LEMMA RedoCrossCheckFit ==
  ASSUME NEW F, NEW X, NEW Y
  PROVE  RedoCrossCheck(F) \in FitMenu(F, X, Y)
  BY Pieces, SharedFit, JoinFit DEF RedoCrossCheck

LEMMA RedoHoldFit ==
  ASSUME NEW F, NEW X, NEW Y, NEW s
  PROVE  RedoHold(F, s) \in FitMenu(F, X, Y)
  BY Pieces, SharedFit, JoinFit DEF RedoHold

LEMMA RedoNextVersionFit ==
  ASSUME NEW F, NEW X, NEW Y, 10 \in Y
  PROVE  RedoNextVersion \in FitMenu(F, X, Y)
  BY Pieces, SharedFit, JoinFit DEF RedoNextVersion

LEMMA RedoCloseWithdrawnFit ==
  ASSUME NEW F, NEW X, NEW Y, NEW i
  PROVE  RedoCloseWithdrawn(F, i) \in FitMenu(F, X, Y)
  BY Pieces, SharedFit, JoinFit DEF RedoCloseWithdrawn

LEMMA RedoCloseLeftFit ==
  ASSUME NEW F, NEW X, NEW Y, NEW i
  PROVE  RedoCloseLeft(i) \in FitMenu(F, X, Y)
  BY Pieces, SharedFit, JoinFit DEF RedoCloseLeft

LEMMA RedoAnalyseFit ==
  ASSUME NEW F, NEW X, NEW Y, NEW c
  PROVE  RedoAnalyse(F, c) \in FitMenu(F, X, Y)
  BY Pieces, SharedFit, JoinFit DEF RedoAnalyse

LEMMA RedoAssignFit ==
  ASSUME NEW F, NEW X, NEW Y, NEW c
  PROVE  RedoAssign(c) \in FitMenu(F, X, Y)
  BY Pieces, SharedFit, JoinFit DEF RedoAssign

LEMMA DoConfirmFit ==
  ASSUME NEW F, NEW X, NEW Y
  PROVE  DoConfirm(F) \in FitMenu(F, X, Y)
  BY Pieces, SharedFit, JoinFit DEF DoConfirm

LEMMA DoDuplicateFit ==
  ASSUME NEW F, NEW X, NEW Y, NEW c, c \in F
  PROVE  DoDuplicate(F, c) \in FitMenu(F, X, Y)
  BY Pieces, SharedFit, JoinFit DEF DoDuplicate

LEMMA DoSentBackFit ==
  ASSUME NEW F, NEW X, NEW Y, NEW s, s \in {2, 4, 6}
  PROVE  DoSentBack(F, s) \in FitMenu(F, X, Y)
<1>1. Offer({}, To({1}, 2)) \in FitMenu(F, X, Y)
  <2> DEFINE e == [sts |-> {1}, next |-> 2, pick |-> TRUE]
             m == Offer({}, To({1}, 2))
  <2>1. e \in FitEntry(F, X)
    BY DEF FitEntry, Entry, FlowStep, Work, State
  <2>2. m = [opts |-> {}, ctl |-> <<e>>] /\ <<e>> \in Seq(FitEntry(F, X))
    BY <2>1 DEF Offer, To
  <2> HIDE DEF e, m
  <2>3. m.opts = {} /\ m \in [opts : SUBSET State, ctl : Seq(FitEntry(F, X))]
    BY <2>2
  <2>4. m \in FitMenu(F, X, Y)
    BY <2>3 DEF FitMenu
  <2> QED  BY <2>4 DEF m
<1>2. Keep({4, 5}, 1) \in FitMenu(F, X, Y) /\ Keep({5}, 0) \in FitMenu(F, X, Y)
      /\ Keep({5, 15}, 0) \in FitMenu(F, X, Y)
  BY Pieces
<1>3. SendOn(F) \oplus Offer({}, To({1}, 2)) \in FitMenu(F, X, Y)
  BY <1>1, SharedFit, JoinFit
<1> QED  BY <1>2, <1>3, JoinFit DEF DoSentBack

LEMMA DoFixFit ==
  ASSUME NEW F, NEW X, NEW Y, NEW i, NEW redo
  PROVE  DoFix(F, i, redo) \in FitMenu(F, X, Y)
  BY Pieces, SharedFit, JoinFit DEF DoFix

LEMMA DoUnresolvedFit ==
  ASSUME NEW F, NEW X, NEW Y
  PROVE  DoUnresolved(F) \in FitMenu(F, X, Y)
  BY Pieces, SharedFit, JoinFit DEF DoUnresolved

LEMMA DoHeldFit ==
  ASSUME NEW F, NEW X, NEW Y
  PROVE  DoHeld(F) \in FitMenu(F, X, Y)
  BY Pieces, SharedFit, JoinFit DEF DoHeld

LEMMA DoDisputeFit ==
  ASSUME NEW F, NEW X, NEW Y
  PROVE  DoDispute \in FitMenu(F, X, Y)
  BY Pieces, SharedFit, JoinFit DEF DoDispute

LEMMA DoVerifyFit ==
  ASSUME NEW F, NEW X, NEW Y
  PROVE  DoVerify \in FitMenu(F, X, Y)
  BY Pieces, SharedFit, JoinFit DEF DoVerify

LEMMA DoNotBugFit ==
  ASSUME NEW F, NEW X, NEW Y
  PROVE  DoNotBug \in FitMenu(F, X, Y)
  BY Pieces, SharedFit, JoinFit DEF DoNotBug

LEMMA DoReassignFit ==
  ASSUME NEW F, NEW X, NEW Y
  PROVE  DoReassign \in FitMenu(F, X, Y)
  BY Pieces, SharedFit, JoinFit DEF DoReassign

LEMMA DoCrossCheckFit ==
  ASSUME NEW F, NEW X, NEW Y
  PROVE  DoCrossCheck \in FitMenu(F, X, Y)
  BY Pieces, SharedFit, JoinFit DEF DoCrossCheck

LEMMA DoNotPlannedFit ==
  ASSUME NEW F, NEW X, NEW Y
  PROVE  DoNotPlanned \in FitMenu(F, X, Y)
  BY Pieces, SharedFit, JoinFit DEF DoNotPlanned

LEMMA DoNextVersionFit ==
  ASSUME NEW F, NEW X, NEW Y
  PROVE  DoNextVersion \in FitMenu(F, X, Y)
  BY Pieces, SharedFit, JoinFit DEF DoNextVersion

LEMMA DoAnalyseFit ==
  ASSUME NEW F, NEW X, NEW Y, NEW redo, redo \/ 2 \notin F \/ 16 \in Y
  PROVE  DoAnalyse(F, redo) \in FitMenu(F, X, Y)
  BY Pieces, SharedFit, JoinFit DEF DoAnalyse

LEMMA DoAssignFit ==
  ASSUME NEW F, NEW X, NEW Y
  PROVE  DoAssign(F) \in FitMenu(F, X, Y)
  BY Pieces, SharedFit, JoinFit DEF DoAssign

LEMMA RedoFit ==
  ASSUME NEW s \in State, NEW i, NEW c, NEW F, NEW R, NEW X, NEW Y,
         s = 16 /\ c = 4 => <<10, 1>> \in X,
         s = 21 => 10 \in Y,
         s \in {7, 8, 10} /\ c = 7 => 21 \in Y
  PROVE  Redo(s, i, c, F, R) \in FitMenu(F, X, Y)
<1>1. CASE s \in {1, 2, 3, 4, 5, 6}
  BY <1>1, RedoRewordFit, RedoDuplicateFit, RedoInvalidFit, RedoWithdrawnFit,
     RedoNeedInfoFit DEF Redo
<1>2. CASE s \in {7, 8, 9, 10}
  BY <1>2, RedoToFixFit, RedoUnresolvedFit DEF Redo
<1>3. CASE s \in {11, 12, 13, 14, 15, 26}
  BY <1>3, RedoHeldFit, RedoDisputeFit, RedoFixedFit, RedoClosedFit DEF Redo
<1>4. CASE s \in {16, 17, 18, 19, 20}
  BY <1>4, RedoNotBugFit, RedoReassignFit, RedoCrossCheckFit, RedoHoldFit DEF Redo
<1>5. CASE s \in {21, 22, 23, 24, 25}
  BY <1>5, RedoNextVersionFit, RedoCloseWithdrawnFit, RedoCloseLeftFit,
     RedoAnalyseFit, RedoAssignFit DEF Redo
<1> QED  BY <1>1, <1>2, <1>3, <1>4, <1>5 DEF State

LEMMA DoFit ==
  ASSUME NEW s \in State, NEW i, NEW c, NEW F, NEW D, NEW redo, NEW X, NEW Y,
         c \in F,
         s = 24 /\ ~redo /\ 2 \in F => 16 \in Y
  PROVE  Do(s, i, c, F, D, redo) \in FitMenu(F, X, Y)
<1>1. Nothing \in FitMenu(F, X, Y)
  BY Pieces
<1>2. CASE s \in {1, 2, 3, 4, 6}
  BY <1>1, <1>2, DoConfirmFit, DoSentBackFit, DoDuplicateFit DEF Do
<1>3. CASE s \in {7, 8, 9, 10, 11, 12}
  BY <1>1, <1>3, DoFixFit, DoUnresolvedFit, DoHeldFit, DoDisputeFit DEF Do
<1>4. CASE s \in {13, 16, 17, 18, 26}
  BY <1>1, <1>4, DoVerifyFit, DoNotBugFit, DoReassignFit, DoCrossCheckFit DEF Do
<1>5. CASE s \in {19, 20, 25}
  BY <1>1, <1>5, DoNotPlannedFit, DoNextVersionFit, DoAssignFit DEF Do
<1>6. CASE s = 24
  BY <1>1, <1>6, DoAnalyseFit DEF Do
<1>7. CASE s \in {5, 14, 15, 21, 22, 23}
  BY <1>1, <1>7 DEF Do
<1> QED  BY <1>2, <1>3, <1>4, <1>5, <1>6, <1>7 DEF State

(* What the entry of a chosen state leads to.                              *)
LEMMA FitEntries ==
  ASSUME NEW F, NEW X, NEW Y, NEW m \in FitMenu(F, X, Y), NEW s \in m.opts
  PROVE  /\ \A e \in EntriesFor(m, s) : e \in FitEntry(F, X) /\ s \in e.sts
         /\ s \in (Asks \cup {16}) \ Y => EntriesFor(m, s) # {}
<1> DEFINE E == FitEntry(F, X)
           A == Asks \cup {16}
<1>1. /\ m.ctl \in Seq(E)
      /\ \A t \in (m.opts \cap A) \ Y : \E k \in DOMAIN m.ctl : t \in m.ctl[k].sts
  BY DEF FitMenu
<1> HIDE DEF E, A
<1>2. \A e \in EntriesFor(m, s) : e \in E /\ s \in e.sts
  BY <1>1 DEF EntriesFor
<1>3. ASSUME s \in A \ Y PROVE EntriesFor(m, s) # {}
  <2>1. PICK k \in DOMAIN m.ctl : s \in m.ctl[k].sts
    BY <1>1, <1>3
  <2>2. PICK q \in Seq(E) : q = m.ctl
    BY <1>1
  <2>3. \E l \in DOMAIN q : s \in q[l].sts /\ \A j \in 1..(l - 1) : s \notin q[j].sts
    BY <2>1, <2>2, FirstEntry
  <2> QED  BY <2>2, <2>3 DEF EntriesFor
<1> QED  BY <1>2, <1>3 DEF E, A

(* A correction of "not a bug" may ask for a fix nobody is named for.      *)
Odd(u, r, F) ==
  IF u = r.handler /\ r.st = 16 /\ CorrectFlow(F, r.cur) = 4 THEN {<<10, 1>>} ELSE {}

(* The states on offer without an entry.                                   *)
Unasked(u, r, F) ==
  {s \in {10, 16, 21} :
     \/ s = 10 /\ r.st = 21
     \/ s = 16 /\ r.st = 24 /\ u # r.handler
     \/ s = 21 /\ r.st \in {7, 8, 10} /\ CorrectFlow(F, r.cur) = 7}

LEMMA MenuFit ==
  ASSUME NEW u, NEW r \in Row, NEW F \in Flows
  PROVE  MenuOf(u, r, F) \in FitMenu(F, Odd(u, r, F), Unasked(u, r, F))
<1> DEFINE X == Odd(u, r, F)
           Y == Unasked(u, r, F)
<1>0. PICK i, R, D : i = r.init /\ R = Roles(u, F) /\ D = Duties(u, r, F)
  OBVIOUS
<1>1. PICK s \in State, c \in F : s = r.st /\ c = CorrectFlow(F, r.cur)
  <2>1. PICK cur \in 0..8 : r.st \in State /\ cur = r.cur
    BY DEF Row
  <2>2. CorrectFlow(F, cur) \in F
    BY Corrected
  <2> QED  BY <2>1, <2>2
<1>2. /\ s = 16 /\ c = 4 /\ u = r.handler => <<10, 1>> \in X
      /\ s = 21 => 10 \in Y
      /\ s \in {7, 8, 10} /\ c = 7 => 21 \in Y
      /\ s = 24 /\ u # r.handler => 16 \in Y
  BY <1>1 DEF Odd, Unasked
<1> HIDE DEF X, Y
<1>3. CASE u = r.handler
  <2> DEFINE m == Redo(s, i, c, F, R) \oplus Do(s, i, c, F, D, TRUE)
  <2>1. Redo(s, i, c, F, R) \in FitMenu(F, X, Y)
    BY <1>2, <1>3, RedoFit
  <2>2. Do(s, i, c, F, D, TRUE) \in FitMenu(F, X, Y)
    BY DoFit
  <2>3. m \in FitMenu(F, X, Y)
    BY <2>1, <2>2, JoinFit
  <2>4. MenuOf(u, r, F) = [m EXCEPT !.opts = @ \ {s}]
    BY <1>0, <1>1, <1>3 DEF MenuOf, MyMenu
  <2> HIDE DEF m
  <2>5. PICK n : n = [m EXCEPT !.opts = @ \ {s}]
    OBVIOUS
  <2>6. /\ n \in [opts : SUBSET State, ctl : Seq(FitEntry(F, X))]
        /\ n.opts = m.opts \ {s} /\ n.ctl = m.ctl
    BY <2>3, <2>5 DEF FitMenu
  <2>7. n \in FitMenu(F, X, Y)
    BY <2>3, <2>6 DEF FitMenu
  <2> QED  BY <2>4, <2>5, <2>7 DEF X, Y
<1>4. CASE u # r.handler
  <2>1. Do(s, i, c, F, D, FALSE) \in FitMenu(F, X, Y)
    BY <1>2, <1>4, DoFit
  <2> QED  BY <1>0, <1>1, <1>4, <2>1 DEF MenuOf, DutyMenu, X, Y
<1> QED  BY <1>3, <1>4

(* An analyst sends a bug back to testing, or on to be assigned or fixed.  *)
Beyond == [opts : SUBSET State, ctl : Seq({e \in Entry : e.next \in {1, 4, 5}})]

LEMMA AnalyseSteps ==
  ASSUME NEW i, NEW c, NEW F, NEW D
  PROVE  Do(24, i, c, F, D, FALSE) \in Beyond
<1>1. ASSUME NEW S \in SUBSET State, NEW step \in {1, 4, 5}
      PROVE  Send(S, step) \in Beyond /\ Keep(S, step) \in Beyond
  <2> DEFINE N == {e \in Entry : e.next \in {1, 4, 5}}
             d == [sts |-> S, next |-> step, pick |-> TRUE]
             e == [sts |-> S, next |-> step, pick |-> FALSE]
  <2>1. d \in N /\ e \in N
    BY DEF Entry, FlowStep
  <2>2. <<d>> \in Seq(N) /\ <<e>> \in Seq(N)
    BY <2>1
  <2>3. /\ Send(S, step) = [opts |-> S, ctl |-> <<d>>]
        /\ Keep(S, step) = [opts |-> S, ctl |-> <<e>>]
    BY DEF Send, Keep, To, Stay, Offer
  <2> HIDE DEF d, e, N
  <2>4. Beyond = [opts : SUBSET State, ctl : Seq(N)]
    BY DEF Beyond, N
  <2> QED  BY <2>2, <2>3, <2>4
<1>2. \A S \in SUBSET State : Offer(S, <<>>) \in Beyond
  BY DEF Offer, Beyond
<1>3. ASSUME NEW m \in Beyond, NEW n \in Beyond PROVE m \oplus n \in Beyond
  BY DEF \oplus, Offer, Beyond
<1>4. Dispatch(F) \in Beyond
  BY <1>1 DEF Dispatch, ToDev, State
<1>5. DoAnalyse(F, FALSE) \in Beyond
  <2>1. /\ Keep({3}, 1) \in Beyond /\ Offer({16}, <<>>) \in Beyond
        /\ Keep({2, 3, 4, 5, 6} \cup {16}, 1) \in Beyond
    BY <1>1, <1>2 DEF State
  <2> QED  BY <1>3, <1>4, <2>1 DEF DoAnalyse
<1>6. Nothing \in Beyond
  BY <1>2 DEF Nothing
<1>7. PICK s : s = 24
  OBVIOUS
<1>8. Do(s, i, c, F, D, FALSE) = IF "analyse" \in D THEN DoAnalyse(F, FALSE) ELSE Nothing
  BY <1>7 DEF Do
<1> QED  BY <1>5, <1>6, <1>7, <1>8

LEMMA EntriesBeyond ==
  ASSUME NEW u, NEW r, NEW F, r.st = 24, u # r.handler,
         NEW s, NEW e \in EntriesFor(MenuOf(u, r, F), s)
  PROVE  e.next \in {1, 4, 5}
<1>1. PICK m \in Beyond : m = MenuOf(u, r, F)
  BY AnalyseSteps DEF MenuOf, DutyMenu
<1> QED  BY <1>1 DEF EntriesFor, Beyond

-----------------------------------------------------------------------------
(* Somebody can always go on                                               *)

(* The bug is in no step the flow does not have, and one to be fixed has a *)
(* developer or can be taken back by its last handler.                     *)
Carried(r, F) ==
  /\ r.st = 24 => 3 \in F /\ (r.nxt \in {2, 3} \/ r.cur \in {2, 3})
  /\ r.st = 25 => 4 \in F
  /\ r.st = 21 => r.own["dev"] # NIL
  /\ r.st \in {7, 8, 10} => r.own["dev"] # NIL \/ CorrectFlow(F, r.cur) \in 1..5
  /\ r.st = 16 => r.nxt \in 0..5 \/ CorrectFlow(F, r.cur) # 4

(* The step and the duty chosen in a page go with the chosen state.        *)
ChosenWell(m, p) ==
  EntriesFor(m, p.st) # {} =>
    \E e \in EntriesFor(m, p.st) :
      /\ p.step = e.next
      /\ e.pick => p.duty = DutyOf(e.next) /\ Candidates(e.next, p.flow) # {}

CarriedOn(u, p) ==
  /\ Carried(p.row, p.flow)
  /\ p.st # NoState => ChosenWell(MenuOf(u, p.row, p.flow), p)
  /\ p.row.st = 24 /\ u # p.row.handler => p.step \in {NoStep, 1, 4, 5}

(* As long as the flow stays as it is, rows and pages fit it.              *)
BugsAreCarried ==
  /\ \A b \in Bugs : Live(b) => Carried(bug[b], flow)
  /\ \A u \in Users : ~On(u, "none") => page[u].flow = flow
  /\ \A u \in Users : On(u, "hand") => CarriedOn(u, page[u])

LEMMA CorrectedEarly ==
  ASSUME NEW F \in Flows, NEW step \in 0..8
  PROVE  /\ step \in 0..5 => CorrectFlow(F, step) \in 1..5
         /\ step = 1 => CorrectFlow(F, step) = 1
         /\ step \in {2, 3} /\ 3 \in F => CorrectFlow(F, step) # 4
<1>1. F \subseteq 1..8 /\ 1 \in F /\ 5 \in F
  BY FlowsAssumption DEF FlowStep
<1>2. CASE step \in F
  BY <1>1, <1>2 DEF CorrectFlow
<1>3. CASE step \notin F /\ step \in 0..5
  <2> DEFINE c == CHOOSE f \in F : f > step /\ \A g \in F : g > step => f <= g
  <2>1. step \in {0, 2, 3, 4}
    BY <1>1, <1>3
  <2>2. \E f \in F : f > step /\ \A g \in F : g > step => f <= g
    <3>1. CASE step = 0  BY <1>1, <3>1
    <3>2. CASE step \in {2, 3, 4}
      <4>1. CASE step + 1 \in F  BY <1>1, <3>2, <4>1
      <4>2. CASE step + 1 \notin F /\ step + 2 \in F  BY <1>1, <3>2, <4>2
      <4>3. CASE step + 1 \notin F /\ step + 2 \notin F  BY <1>1, <3>2, <4>3
      <4> QED  BY <4>1, <4>2, <4>3
    <3> QED  BY <2>1, <3>1, <3>2
  <2>3. c \in F /\ c > step /\ \A g \in F : g > step => c <= g
    BY <2>2
  <2>4. c = CorrectFlow(F, step)
    BY <1>3 DEF CorrectFlow
  <2> HIDE DEF c
  <2>5. c \in 1..5
    BY <1>1, <2>1, <2>3
  <2>6. step \in {2, 3} /\ 3 \in F => c # 4
    BY <1>3, <2>3
  <2> QED  BY <1>1, <1>3, <2>4, <2>5, <2>6
<1>4. CASE step \notin F /\ step \notin 0..5
  BY <1>1, <1>4
<1> QED  BY <1>2, <1>3, <1>4

(* What a chosen state says about the chosen step and duty.                *)
LEMMA WellChosen ==
  ASSUME NEW u \in Users, NEW p \in HandPage, p.st # NoState,
         p.st \in MenuOf(u, p.row, p.flow).opts, CarriedOn(u, p)
  PROVE  /\ p.st = 24 => 3 \in p.flow /\ p.step \in {2, 3}
         /\ p.st = 25 => 4 \in p.flow
         /\ p.st = 16 => \/ p.step = 1
                         \/ p.row.st = 24 /\ u # p.row.handler
         /\ p.st \in {7, 8, 10, 21} =>
              \/ p.st \in {10, 21} /\ p.row.own["dev"] # NIL
              \/ p.duty = "dev"
              \/ /\ p.st = 10 /\ p.step = 1 /\ u = p.row.handler /\ p.row.st = 16
                 /\ CorrectFlow(p.flow, p.row.cur) = 4
<1>1. PICK r \in Row, F \in Flows : r = p.row /\ F = p.flow
  BY DEF HandPage
<1>2. PICK X, Y, m : /\ m \in FitMenu(F, X, Y) /\ m = MenuOf(u, r, F)
                     /\ X = Odd(u, r, F) /\ Y = Unasked(u, r, F)
  BY MenuFit
<1>3. PICK s \in m.opts : s = p.st
  BY <1>1, <1>2
<1>4. /\ \A e \in EntriesFor(m, s) : e \in FitEntry(F, X) /\ s \in e.sts
      /\ s \in (Asks \cup {16}) \ Y => EntriesFor(m, s) # {}
  BY <1>2, FitEntries
<1>5. ASSUME s \in Asks \cup {16}, s \notin Y
      PROVE  \/ /\ s \in Work(F, p.step) \/ <<s, p.step>> \in X
                /\ p.duty = DutyOf(p.step) /\ Candidates(p.step, F) # {}
             \/ s \notin Asks /\ p.step = 1
  <2>1. PICK e \in EntriesFor(m, s) :
          /\ p.step = e.next
          /\ e.pick => p.duty = DutyOf(e.next) /\ Candidates(e.next, F) # {}
    BY <1>1, <1>2, <1>3, <1>4, <1>5 DEF CarriedOn, ChosenWell
  <2>2. /\ e.pick \in BOOLEAN
        /\ e.pick => s \in Work(F, e.next) \/ <<s, e.next>> \in X
        /\ ~e.pick => s \notin Asks /\ (s = 16 => e.next = 1)
    BY <1>4, <2>1 DEF FitEntry, Entry
  <2>3. CASE e.pick
    BY <2>1, <2>2, <2>3
  <2>4. CASE ~e.pick
    BY <1>5, <2>1, <2>2, <2>4
  <2> QED  BY <2>3, <2>4
<1>6. m.opts \in SUBSET State /\ (24 \in m.opts => 3 \in F) /\ (25 \in m.opts => 4 \in F)
  BY <1>2 DEF FitMenu
<1>7. \A t, k : <<t, k>> \in X =>
        t = 10 /\ k = 1 /\ u = r.handler /\ r.st = 16 /\ CorrectFlow(F, r.cur) = 4
  BY <1>2 DEF Odd
<1>8. CASE s = 24
  <2>1. s \in Asks /\ s \notin Y
    BY <1>2, <1>8 DEF Asks, Unasked
  <2>2. s \in Work(F, p.step)
    BY <1>5, <1>7, <1>8, <2>1
  <2>3. p.step \in {2, 3}
    BY <1>8, <2>2 DEF Work
  <2> QED  BY <1>1, <1>3, <1>6, <1>8, <2>3
<1>9. CASE s = 25
  BY <1>1, <1>3, <1>6, <1>9
<1>10. CASE s = 16
  <2>1. s \in Y => r.st = 24 /\ u # r.handler
    BY <1>2, <1>10 DEF Unasked
  <2>2. s \in Work(F, p.step) => p.step = 1
    BY <1>10 DEF Work
  <2> QED  BY <1>1, <1>3, <1>5, <1>7, <1>10, <2>1, <2>2
<1>11. CASE s \in {7, 8, 10, 21}
  <2>1. CASE s \in Y
    <3>1. \/ s = 10 /\ r.st = 21
          \/ s = 21 /\ r.st \in {7, 8, 10} /\ CorrectFlow(F, r.cur) = 7
      BY <1>2, <1>11, <2>1 DEF Unasked
    <3>2. Carried(r, F)
      BY <1>1 DEF CarriedOn
    <3>3. r.own["dev"] # NIL
      BY <3>1, <3>2 DEF Carried
    <3> QED  BY <1>1, <1>3, <3>1, <3>3
  <2>2. CASE s \notin Y
    <3>1. /\ s \in Work(F, p.step) \/ <<s, p.step>> \in X
          /\ p.duty = DutyOf(p.step) /\ Candidates(p.step, F) # {}
      BY <1>5, <1>11, <2>2 DEF Asks
    <3>2. CASE s \in Work(F, p.step)
      <4>1. p.step = 5 \/ (p.step = 4 /\ 4 \notin F)
        BY <1>11, <3>2 DEF Work
      <4>2. p.step = 4 /\ 4 \notin F => Candidates(p.step, F) = {}
        BY DEF Candidates
      <4>3. p.duty = "dev"
        BY <3>1, <4>1, <4>2 DEF DutyOf
      <4> QED  BY <1>1, <1>3, <1>11, <4>3
    <3>3. CASE <<s, p.step>> \in X
      BY <1>1, <1>3, <1>7, <1>11, <3>3
    <3> QED  BY <3>1, <3>2, <3>3
  <2> QED  BY <2>1, <2>2
<1>12. CASE s \notin {7, 8, 10, 16, 21, 24, 25}
  BY <1>3, <1>12
<1> QED  BY <1>8, <1>9, <1>10, <1>11, <1>12

LEMMA SavedCarried ==
  ASSUME NEW u \in Users, NEW p \in HandPage, p.st # NoState,
         p.st \in MenuOf(u, p.row, p.flow).opts, CarriedOn(u, p), OwnersOn(p)
  PROVE  Carried(Saved(u, p), p.flow)
<1>1. PICK r \in Row, F \in Flows : r = p.row /\ F = p.flow
  BY DEF HandPage
<1>2. PICK a \in Row : a = Saved(u, p)
  BY SavedType
<1>3. /\ a.st = p.st /\ a.cur = Posted(u, p).cur /\ a.nxt = Posted(u, p).nxt
      /\ a.own = PostedOwners(p) \/ a.own = [PostedOwners(p) EXCEPT !["test"] = r.rept]
  BY <1>1, <1>2 DEF Saved
<1>4. r.cur \in 0..8 /\ r.nxt \in 0..8 /\ a.cur \in 0..8 /\ a.nxt \in 0..8
  BY DEF Row
<1>5. r.own["dev"] # NIL \/ p.duty = "dev" => a.own["dev"] # NIL
  <2>1. p.duty # NoDuty => p.pick # NIL
    BY DEF OwnersOn
  <2>2. r.own["dev"] # NIL => PostedOwners(p)["dev"] # NIL
    BY <1>1, <2>1, OwnersStay DEF Duty
  <2>3. p.duty = "dev" => PostedOwners(p)["dev"] # NIL
    <3>1. "dev" \in DOMAIN r.own
      BY DEF Row, Owners, Duty
    <3> QED  BY <1>1, <2>1, <3>1 DEF PostedOwners, NoDuty
  <2>4. \A q : [PostedOwners(p) EXCEPT !["test"] = q]["dev"] = PostedOwners(p)["dev"]
    <3>1. PostedOwners(p) \in Owners
      BY <1>1 DEF PostedOwners, HandPage, Row, Owners
    <3> QED  BY <3>1 DEF Owners, Duty
  <2> QED  BY <1>3, <2>2, <2>3, <2>4
<1>6. p.step # NoStep =>
        /\ u # r.handler => a.cur = r.nxt /\ a.nxt = p.step
        /\ u = r.handler =>
             /\ a.cur = IF p.step \in {r.cur, r.nxt} THEN r.cur ELSE r.nxt
             /\ a.nxt = IF p.step = r.cur THEN r.nxt ELSE p.step
  BY <1>1, <1>3 DEF Posted
<1>7. p.step = NoStep => a.cur = r.cur /\ a.nxt = r.nxt
  BY <1>1, <1>3 DEF Posted
<1>8. /\ p.st = 24 => 3 \in F /\ p.step \in {2, 3}
      /\ p.st = 25 => 4 \in F
      /\ p.st = 16 => p.step = 1 \/ (r.st = 24 /\ u # r.handler)
      /\ p.st \in {7, 8, 10, 21} =>
           \/ p.st \in {10, 21} /\ r.own["dev"] # NIL
           \/ p.duty = "dev"
           \/ /\ p.st = 10 /\ p.step = 1 /\ u = r.handler /\ r.st = 16
              /\ CorrectFlow(F, r.cur) = 4
  BY <1>1, WellChosen
<1>9. /\ Carried(r, F)
      /\ r.st = 24 /\ u # r.handler => p.step \in {NoStep, 1, 4, 5}
  BY <1>1 DEF CarriedOn
<1>10. /\ a.cur \in 0..5 => CorrectFlow(F, a.cur) \in 1..5
       /\ a.cur = 1 => CorrectFlow(F, a.cur) = 1
       /\ a.cur \in {2, 3} /\ 3 \in F => CorrectFlow(F, a.cur) # 4
  BY <1>4, CorrectedEarly
<1>11. a.st = 24 => 3 \in F /\ (a.nxt \in {2, 3} \/ a.cur \in {2, 3})
  BY <1>3, <1>6, <1>8 DEF NoStep
<1>12. a.st = 21 => a.own["dev"] # NIL
  BY <1>3, <1>5, <1>8
<1>13. a.st \in {7, 8, 10} => a.own["dev"] # NIL \/ CorrectFlow(F, a.cur) \in 1..5
  <2>1. ASSUME p.step = 1, u = r.handler, r.st = 16, CorrectFlow(F, r.cur) = 4
        PROVE  CorrectFlow(F, a.cur) \in 1..5
    <3>1. r.nxt \in 0..5
      BY <1>9, <2>1 DEF Carried
    <3>2. a.cur = r.cur \/ a.cur = r.nxt
      BY <1>6, <2>1 DEF NoStep
    <3> QED  BY <1>10, <2>1, <3>1, <3>2
  <2> QED  BY <1>3, <1>5, <1>8, <2>1
<1>14. a.st = 16 => a.nxt \in 0..5 \/ CorrectFlow(F, a.cur) # 4
  <2>1. CASE p.step = 1
    BY <1>6, <1>10, <2>1 DEF NoStep
  <2>2. CASE r.st = 24 /\ u # r.handler
    <3>1. CASE p.step = NoStep
      BY <1>7, <1>9, <1>10, <2>2, <3>1 DEF Carried
    <3>2. CASE p.step \in {1, 4, 5}
      BY <1>6, <2>2, <3>2 DEF NoStep
    <3> QED  BY <1>9, <2>2, <3>1, <3>2
  <2> QED  BY <1>3, <1>8, <2>1, <2>2
<1>15. a.st = 25 => 4 \in F
  BY <1>3, <1>8
<1>16. Carried(a, F)
  BY <1>11, <1>12, <1>13, <1>14, <1>15 DEF Carried
<1> QED  BY <1>1, <1>2, <1>16

LEMMA AssignedCarried ==
  ASSUME NEW u \in Users, NEW d \in Users, NEW r \in Row, NEW F
  PROVE  Carried(Assigned(u, d, r, F), F)
<1> DEFINE a == Assigned(u, d, r, F)
<1>1. a.st \in {7, 10} /\ a.own = [r.own EXCEPT !["dev"] = d]
  <2>1. a.st \in {7, 10}
    BY OtherMoves
  <2>2. a.own = [r.own EXCEPT !["dev"] = d]
    BY DEF Assigned, Row
  <2> QED  BY <2>1, <2>2
<1>2. [r.own EXCEPT !["dev"] = d]["dev"] # NIL
  BY NILAssumption DEF Row, Owners, Duty
<1> HIDE DEF a
<1>3. Carried(a, F)
  BY <1>1, <1>2 DEF Carried
<1> QED  BY <1>3 DEF a

LEMMA AddCarried ==
  ASSUME TypeOK, NEW u \in Users, NEW b \in Bugs, NEW o \in Users, Add(u, b, o)
  PROVE  Carried(bug'[b], page[u].flow)
<1> DEFINE F    == page[u].flow
           step == StepAfter(F, 1)
           own  == [d \in Duty |-> IF d = DutyOf(step) THEN o
                                   ELSE IF d = "test" THEN u ELSE NIL]
           st   == WaitingState(step)
<1>1. F \in Flows
  BY PageKinds DEF Add, ReportPage
<1>2. step \in F
  BY <1>1, StepAfterType
<1>3. bug'[b].st = st /\ bug'[b].cur = 1 /\ bug'[b].nxt = step
  BY DEF Add, TypeOK
<1>4. CorrectFlow(F, 1) = 1
  BY <1>1, CorrectedEarly
<1> HIDE DEF step, F
<1>5. /\ st = 24 => step = 3
      /\ st = 25 => step = 4
      /\ st \in {1, 10, 24, 25}
  BY DEF WaitingState
<1> HIDE DEF st
<1>6. Carried(bug'[b], F)
  BY <1>2, <1>3, <1>4, <1>5 DEF Carried
<1> QED  BY <1>6 DEF F

(* Choosing a state in a page chooses a step and a duty that go with it.   *)
LEMMA ChoiceCarried ==
  ASSUME TypeOK, NEW u \in Users, ChangeStatus(u), CarriedOn(u, page[u])
  PROVE  \E y : Show(u, y) /\ CarriedOn(u, y) /\ y.flow = page[u].flow
<1> DEFINE p == page[u]
           m == MenuOf(u, p.row, p.flow)
<1>1. PICK y \in HandPage : /\ Show(u, y) /\ SamePlace(y, p)
                            /\ \/ ChosenWithout(m, p, y)
                               \/ ChosenKept(m, p, y)
                               \/ ChosenPerson(m, p, y)
  BY ChosenPage
<1>2. y.row = p.row /\ y.flow = p.flow /\ m = MenuOf(u, y.row, y.flow)
  BY <1>1 DEF SamePlace
<1>3. \A s, e : e \in EntriesFor(m, s) /\ p.row.st = 24 /\ u # p.row.handler =>
                  e.next \in {1, 4, 5}
  BY EntriesBeyond
<1> HIDE DEF m
<1>4. /\ ChosenWell(m, y)
      /\ p.row.st = 24 /\ u # p.row.handler => y.step \in {NoStep, 1, 4, 5}
  <2>1. CASE ChosenWithout(m, p, y)
    BY <2>1 DEF ChosenWithout, ChosenWell, CarriedOn
  <2>2. CASE ChosenKept(m, p, y)
    BY <1>3, <2>2 DEF ChosenKept, ChosenWell
  <2>3. CASE ChosenPerson(m, p, y)
    <3>1. PICK e \in EntriesFor(m, y.st) :
            /\ y.step = e.next /\ y.duty = DutyOf(e.next)
            /\ y.next \in Nameable(p, y.st, e.next)
      BY <2>3 DEF ChosenPerson
    <3>2. Candidates(e.next, p.flow) # {}
      BY <3>1 DEF Nameable
    <3> QED  BY <1>2, <1>3, <3>1, <3>2 DEF ChosenWell
  <2> QED  BY <1>1, <2>1, <2>2, <2>3
<1>5. Carried(y.row, y.flow)
  BY <1>2, SMTT(30) DEF CarriedOn
<1> QED  BY <1>1, <1>2, <1>4, <1>5 DEF CarriedOn

LEMMA FlowStays ==
  ASSUME Managers = {}, [Next]_vars
  PROVE  flow' = flow
  BY DEF Next, vars, AddInit, Add, BugHand, ChangeStatus, HandSub, ClosePage,
         BatchAssign, BatchAssignExe, Update, Delete, UpdateFlow

LEMMA CarriedRows ==
  ASSUME Managers = {}, TypeOK, ChoiceOffered, OwnersKnown, BugsAreCarried,
         [Next]_vars, NEW b \in Bugs, Live(b)'
  PROVE  Carried(bug'[b], flow)
<1>1. CASE bug'[b] = bug[b]
  BY <1>1 DEF BugsAreCarried, Live
<1>2. ASSUME NEW u \in Users, On(u, "hand"), page[u].st # NoState,
             bug'[b] = Saved(u, page[u])
      PROVE  Carried(bug'[b], flow)
  <2>1. PICK p \in HandPage : p = page[u]
    BY <1>2, PageKinds
  <2>2. CarriedOn(u, p) /\ OwnersOn(p) /\ p.flow = flow
    BY <1>2, <2>1 DEF BugsAreCarried, OwnersKnown, On
  <2>3. p.st \in MenuOf(u, p.row, p.flow).opts
    BY <1>2, <2>1 DEF ChoiceOffered
  <2>4. Carried(Saved(u, p), p.flow)
    BY <1>2, <2>1, <2>2, <2>3, SavedCarried
  <2> QED  BY <1>2, <2>1, <2>2, <2>4
<1>3. ASSUME NEW u \in Users, NEW d \in Users, On(u, "batch"), Live(b),
             bug'[b] = Assigned(u, d, bug[b], page[u].flow)
      PROVE  Carried(bug'[b], flow)
  <2>1. page[u].flow = flow /\ bug[b] \in Row
    BY <1>3, LiveRow DEF BugsAreCarried, On
  <2> QED  BY <1>3, <2>1, AssignedCarried
<1>4. ASSUME NEW u \in Users, NEW o \in Users, Add(u, b, o)
      PROVE  Carried(bug'[b], flow)
  <2>1. page[u].flow = flow
    BY <1>4 DEF Add, BugsAreCarried, On
  <2>2. Carried(bug'[b], page[u].flow)
    BY <1>4, AddCarried
  <2> QED  BY <2>1, <2>2
<1>5. CASE Live(b) /\ bug'[b] = [bug[b] EXCEPT !.text = @ + 1]
  <2>1. PICK r \in Row : r = bug[b] /\ Carried(r, flow)
    BY <1>5, LiveRow DEF BugsAreCarried
  <2>2. /\ bug'[b].own = r.own /\ bug'[b].st = r.st /\ bug'[b].cur = r.cur
        /\ bug'[b].nxt = r.nxt
    BY <1>5, <2>1 DEF Row
  <2> QED  BY <2>1, <2>2 DEF Carried
<1>6. ~\E u \in Users : u \in Managers
  OBVIOUS
<1>7. bug'[b] # Deleted
  BY DEF Live, Deleted, State
<1> QED  BY <1>1, <1>2, <1>3, <1>4, <1>5, <1>6, <1>7, RowWriters

LEMMA CarriedPages ==
  ASSUME TypeOK, BugsAreCarried, [Next]_vars, NEW v \in Users
  PROVE  /\ ~On(v, "none")' => page'[v].flow = flow
         /\ On(v, "hand")' => CarriedOn(v, page'[v])
<1> DEFINE Good(u, y) == /\ y.kind # "none" => y.flow = flow
                         /\ y.kind = "hand" => CarriedOn(u, y)
<1>1. Good(v, page[v])
  BY DEF BugsAreCarried, On
<1>2. ASSUME NEW u \in Users, NEW y, Show(u, y), Good(u, y)
      PROVE  Good(v, page'[v])
  <2>1. page'[v] = IF u = v THEN y ELSE page[v]
    BY <1>2 DEF Show, TypeOK
  <2> QED  BY <1>1, <1>2, <2>1
<1>3. Good(v, NoPage)
  BY DEF NoPage
<1>4. ASSUME NEW u \in Users, \/ AddInit(u) \/ BatchAssign(u) \/ Show(u, NoPage)
      PROVE  Good(v, page'[v])
  <2>1. PICK y : Show(u, y) /\ (y = NoPage \/ (y.kind \notin {"none", "hand"} /\ y.flow = flow))
    BY <1>4 DEF AddInit, BatchAssign
  <2>2. Good(u, y)
    BY <2>1 DEF NoPage
  <2> QED  BY <1>2, <2>1, <2>2
<1>5. ASSUME NEW u \in Users, NEW b \in Bugs, BugHand(u, b)
      PROVE  Good(v, page'[v])
  <2> DEFINE y == [kind |-> "hand", bug |-> b, flow |-> flow, row |-> bug[b],
                   st |-> NoState, step |-> NoStep, duty |-> NoDuty, pick |-> NIL,
                   next |-> bug[b].next, tries |-> 0]
  <2>1. Show(u, y) /\ Carried(bug[b], flow)
    BY <1>5 DEF BugHand, BugsAreCarried
  <2>2. CarriedOn(u, y)
    BY <2>1 DEF CarriedOn
  <2> QED  BY <1>2, <2>1, <2>2
<1>6. ASSUME NEW u \in Users, ChangeStatus(u)
      PROVE  Good(v, page'[v])
  <2>1. On(u, "hand") /\ page[u].flow = flow /\ CarriedOn(u, page[u])
    BY <1>6 DEF ChangeStatus, BugsAreCarried, On
  <2>2. PICK y : Show(u, y) /\ CarriedOn(u, y) /\ y.flow = flow
    BY <1>6, <2>1, ChoiceCarried
  <2>3. Good(u, y)
    BY <2>2
  <2> HIDE DEF Good
  <2> QED  BY <1>2, <2>2, <2>3
<1> HIDE DEF Good
<1>7. \/ UNCHANGED page
      \/ \E u \in Users : \/ \E b \in Bugs : BugHand(u, b)
                          \/ ChangeStatus(u)
                          \/ AddInit(u) \/ BatchAssign(u) \/ Show(u, NoPage)
  BY DEF Next, vars, Add, HandSub, ClosePage, BatchAssignExe, Update, Delete, UpdateFlow
<1>8. Good(v, page'[v])
  BY <1>1, <1>4, <1>5, <1>6, <1>7
<1> QED  BY <1>8 DEF Good, On

LEMMA CarriedStep ==
  ASSUME Managers = {}, TypeOK, ChoiceOffered, OwnersKnown, BugsAreCarried, [Next]_vars
  PROVE  BugsAreCarried'
<1>1. flow' = flow
  BY FlowStays
<1>2. \A b \in Bugs : Live(b)' => Carried(bug'[b], flow)
  BY CarriedRows
<1>3. \A v \in Users : /\ ~On(v, "none")' => page'[v].flow = flow
                       /\ On(v, "hand")' => CarriedOn(v, page'[v])
  BY CarriedPages
<1> QED  BY <1>1, <1>2, <1>3 DEF BugsAreCarried

(* What both tables of his duties offer a user is on his menu, and what    *)
(* the table of the last handler offers is on that one's.                  *)
LEMMA OnMenu ==
  ASSUME NEW u, NEW r \in Row, NEW F
  PROVE  LET c == CorrectFlow(F, r.cur)
             D == Duties(u, r, F)
             m == MenuOf(u, r, F)
         IN /\ u = r.handler =>
                 \A t \in Redo(r.st, r.init, c, F, Roles(u, F)).opts : t # r.st => t \in m.opts
            /\ u = r.handler => Do(r.st, r.init, c, F, D, TRUE).opts \subseteq m.opts
            /\ u # r.handler => Do(r.st, r.init, c, F, D, FALSE).opts \subseteq m.opts
<1>0. PICK t \in State : t = r.st
  BY DEF Row
<1>1. PICK i, c, R, D :
        /\ t = r.st /\ i = r.init /\ c = CorrectFlow(F, r.cur)
        /\ R = Roles(u, F) /\ D = Duties(u, r, F)
  BY <1>0
<1>2. CASE u = r.handler
  <2>1. MenuOf(u, r, F) = MyMenu(t, i, c, F, R, D)
    BY <1>1, <1>2 DEF MenuOf
  <2>2. MyMenu(t, i, c, F, R, D).opts =
          (Redo(t, i, c, F, R).opts \cup Do(t, i, c, F, D, TRUE).opts) \ {t}
    BY MyMenuOpts
  <2>3. t \notin Do(t, i, c, F, D, TRUE).opts
    BY DoChanges
  <2> QED  BY <1>1, <1>2, <2>1, <2>2, <2>3
<1>3. CASE u # r.handler
  BY <1>1, <1>3 DEF MenuOf, DutyMenu
<1> QED  BY <1>2, <1>3

(* An owner or a person of the right role has work wherever his duty has.  *)
LEMMA DutyActs ==
  ASSUME NEW u, NEW r \in Row, NEW F,
         \A i, c, redo : c = CorrectFlow(F, r.cur) =>
           Do(r.st, i, c, F, Duties(u, r, F), redo).opts # {}
  PROVE  MenuOf(u, r, F).opts # {}
<1>1. PICK i, c : i = r.init /\ c = CorrectFlow(F, r.cur)
  OBVIOUS
<1>2. /\ u = r.handler => Do(r.st, i, c, F, Duties(u, r, F), TRUE).opts \subseteq MenuOf(u, r, F).opts
      /\ u # r.handler => Do(r.st, i, c, F, Duties(u, r, F), FALSE).opts \subseteq MenuOf(u, r, F).opts
  BY <1>1, OnMenu
<1>3. /\ Do(r.st, i, c, F, Duties(u, r, F), TRUE).opts # {}
      /\ Do(r.st, i, c, F, Duties(u, r, F), FALSE).opts # {}
  BY <1>1
<1> QED  BY <1>2, <1>3

(* The last handler has work if his own table offers a change.             *)
LEMMA RedoActs ==
  ASSUME NEW r \in Row, NEW F,
         \A i, c, R : c = CorrectFlow(F, r.cur) =>
           \E t \in Redo(r.st, i, c, F, R).opts : t # r.st
  PROVE  MenuOf(r.handler, r, F).opts # {}
<1>1. PICK i, c, R : i = r.init /\ c = CorrectFlow(F, r.cur) /\ R = Roles(r.handler, F)
  OBVIOUS
<1>2. \A t \in Redo(r.st, i, c, F, R).opts : t # r.st => t \in MenuOf(r.handler, r, F).opts
  BY <1>1, OnMenu
<1>3. \E t \in Redo(r.st, i, c, F, R).opts : t # r.st
  BY <1>1
<1> QED  BY <1>2, <1>3

(* The table of the duties has a way on for every state that is work.      *)
LEMMA DoOffers ==
  ASSUME NEW s \in State, NEW i, NEW c, NEW F, NEW D, NEW redo,
         \/ "test" \in D /\ s \in {1, 2, 4, 6, 11, 13, 16, 26}
         \/ "test" \in D /\ s = 3 /\ c \in 2..5
         \/ "intercess" \in D /\ s \in {12, 17, 19, 20}
         \/ "analyse" \in D /\ s = 24
         \/ "assign" \in D /\ s = 25
         \/ "dev" \in D /\ s \in {7, 8, 9, 10, 18}
  PROVE  Do(s, i, c, F, D, redo).opts # {}
<1>1. CASE "test" \in D /\ s \in {1, 2, 4, 6}
  <2>1. 3 \in DoConfirm(F).opts
    <3>1. 3 \in Send({2, 3, 4, 5, 6}, 1).opts
      BY OptsOf
    <3> QED  BY <3>1, OptsOf DEF DoConfirm
  <2>2. ASSUME s \in {2, 4, 6} PROVE DoSentBack(F, s).opts # {}
    <3>1. 5 \in Keep({4, 5}, 1).opts /\ 5 \in Keep({5}, 0).opts /\ 5 \in Keep({5, 15}, 0).opts
      BY OptsOf
    <3>2. 5 \in DoSentBack(F, s).opts
      BY <2>2, <3>1, OptsOf DEF DoSentBack
    <3> QED  BY <3>2
  <2> QED  BY <1>1, <2>1, <2>2 DEF Do
<1>2. CASE "test" \in D /\ s \in {11, 13, 16, 26}
  <2>1. 15 \in DoHeld(F).opts /\ 14 \in DoVerify.opts /\ 5 \in DoNotBug.opts
    BY OptsOf DEF DoHeld, DoVerify, DoNotBug
  <2> QED  BY <1>2, <2>1 DEF Do
<1>3. CASE "test" \in D /\ s = 3 /\ c \in 2..5
  <2>1. 5 \in DoDuplicate(F, c).opts
    <3>1. 5 \in Keep({5}, 1).opts /\ c \in {2, 3, 4, 5}
      BY <1>3, OptsOf
    <3> QED  BY <3>1, OptsOf DEF DoDuplicate
  <2> QED  BY <1>3, <2>1 DEF Do
<1>4. CASE "intercess" \in D /\ s \in {12, 17, 19, 20}
  <2>1. /\ 10 \in DoDispute.opts /\ 10 \in DoReassign.opts /\ 10 \in DoNotPlanned.opts
        /\ 10 \in DoNextVersion.opts
    BY OptsOf DEF DoDispute, DoReassign, DoNotPlanned, DoNextVersion
  <2> QED  BY <1>4, <2>1 DEF Do
<1>5. CASE \/ "analyse" \in D /\ s = 24
           \/ "assign" \in D /\ s = 25
  <2>1. 3 \in DoAssign(F).opts
    BY OptsOf DEF DoAssign
  <2>2. 3 \in DoAnalyse(F, redo).opts
    BY OptsOf DEF DoAnalyse
  <2> QED  BY <1>5, <2>1, <2>2 DEF Do
<1>6. CASE "dev" \in D /\ s \in {7, 8, 10}
  <2>1. 3 \in DoFix(F, i, redo).opts
    <3>1. 3 \in Send({3, 11}, 1).opts
      BY OptsOf
    <3> QED  BY <3>1, OptsOf DEF DoFix
  <2> QED  BY <1>6, <2>1 DEF Do
<1>7. CASE "dev" \in D /\ s \in {9, 18}
  <2>1. 11 \in DoUnresolved(F).opts /\ 9 \in DoCrossCheck.opts
    BY OptsOf DEF DoUnresolved, DoCrossCheck
  <2> QED  BY <1>7, <2>1 DEF Do
<1> QED  BY <1>1, <1>2, <1>3, <1>4, <1>5, <1>6, <1>7

(* The table of the last handler has one for the states nobody else has.   *)
LEMMA RedoOffers ==
  ASSUME NEW s \in State, NEW i, NEW c, NEW F, NEW R,
         \/ s \in {5, 9, 14, 15, 18, 21, 22, 23}
         \/ s \in {7, 8, 10} /\ c \in 1..5
         \/ s \in {1, 2} /\ c = 2 /\ 2 \in F
         \/ s \in {6, 11, 13, 16, 17, 26}
  PROVE  \E t \in Redo(s, i, c, F, R).opts : t # s
<1>1. /\ ToDev(F).opts # {} /\ ToDev(F).opts \subseteq {7, 8, 10}
      /\ Restart(F).opts # {} /\ Restart(F).opts \subseteq {1, 7, 8, 10, 24, 25}
  <2>1. ToDev(F).opts # {}
    BY OptsOf DEF ToDev
  <2>2. Restart(F).opts # {}
    BY <2>1, OptsOf DEF Restart, Forward, Dispatch
  <2> QED  BY <2>1, <2>2, DevOpts, FixedMarks
<1>2. CASE s = 5
  <2>1. Restart(F).opts \subseteq RedoWithdrawn(F, c, i).opts
    BY OptsOf DEF RedoWithdrawn
  <2> QED  BY <1>1, <1>2, <2>1 DEF Redo
<1>3. CASE s = 9
  <2>1. 13 \in RedoUnresolved(c).opts \/ 14 \in RedoUnresolved(c).opts
    BY OptsOf DEF RedoUnresolved
  <2> QED  BY <1>3, <2>1 DEF Redo
<1>4. CASE s \in {14, 15}
  <2>1. 9 \in RedoClosed(F, s).opts \/ 1 \in RedoClosed(F, s).opts \/ 10 \in RedoClosed(F, s).opts
    BY OptsOf DEF RedoClosed
  <2> QED  BY <1>4, <2>1 DEF Redo
<1>5. CASE s \in {18, 21}
  <2>1. 3 \in RedoCrossCheck(F).opts /\ 3 \in RedoNextVersion.opts
    BY OptsOf DEF RedoCrossCheck, RedoNextVersion
  <2> QED  BY <1>5, <2>1 DEF Redo
<1>6. CASE s \in {22, 23}
  <2>1. ToDev(F).opts \subseteq RedoCloseWithdrawn(F, i).opts /\ 10 \in RedoCloseLeft(i).opts
    BY OptsOf DEF RedoCloseWithdrawn, RedoCloseLeft
  <2> QED  BY <1>1, <1>6, <2>1 DEF Redo
<1>7. CASE s \in {7, 8, 10} /\ c \in 1..5
  <2>1. c \in {1, 2, 3, 4, 5}
    BY <1>7
  <2>2. 3 \in RedoToFix(F, c, i).opts
    BY <2>1, OptsOf DEF RedoToFix
  <2> QED  BY <1>7, <2>2 DEF Redo
<1>8. CASE s \in {1, 2} /\ c = 2 /\ 2 \in F
  <2>1. 2 \in RedoReword(F, c).opts /\ 6 \in RedoReword(F, c).opts
    BY <1>8, OptsOf DEF RedoReword
  <2> QED  BY <1>8, <2>1 DEF Redo
<1>9. CASE s \in {6, 11, 13, 16, 17, 26}
  <2>1. /\ 3 \in RedoNeedInfo(F).opts /\ 3 \in RedoHeld(F).opts
        /\ 3 \in RedoNotBug(F, c).opts /\ 3 \in RedoReassign(F, R).opts
    BY OptsOf DEF RedoNeedInfo, RedoHeld, RedoNotBug, RedoReassign
  <2>2. 3 \in RedoFixed(F, c, s).opts \/ 9 \in RedoFixed(F, c, s).opts
    BY OptsOf DEF RedoFixed
  <2> QED  BY <1>9, <2>1, <2>2 DEF Redo
<1> QED  BY <1>2, <1>3, <1>4, <1>5, <1>6, <1>7, <1>8, <1>9

(* The people named for a step of the flow have its duty for every bug.    *)
LEMMA NamedHaveDuty ==
  ASSUME NEW F \in Flows, NEW r
  PROVE  /\ \E u \in Users : "test" \in Duties(u, r, F)
         /\ \E u \in Users : "intercess" \in Duties(u, r, F)
         /\ 3 \in F => \E u \in Users : "analyse" \in Duties(u, r, F)
         /\ 4 \in F => \E u \in Users : "assign" \in Duties(u, r, F)
<1>1. {7, 8} \subseteq F
  BY FlowsAssumption
<1>2. ASSUME NEW f \in {3, 4, 7, 8}, f \in F
      PROVE  \E u \in Users : f \in Roles(u, F)
  <2>1. f \in FlowStep
    BY DEF FlowStep
  <2>2. PICK u \in Users : u \in Actors[f]
    BY <2>1, ActorsAssumption
  <2> QED  BY <1>2, <2>2 DEF Roles
<1>3. \A u : /\ 8 \in Roles(u, F) => "test" \in Duties(u, r, F)
             /\ 7 \in Roles(u, F) => "intercess" \in Duties(u, r, F)
             /\ 3 \in Roles(u, F) => "analyse" \in Duties(u, r, F)
             /\ 4 \in Roles(u, F) => "assign" \in Duties(u, r, F)
  BY DEF Duties, RoleDuties, Duty
<1> QED  BY <1>1, <1>2, <1>3

LEMMA SomebodyActs ==
  ASSUME NEW r \in Row, NEW F \in Flows, Carried(r, F),
         r.st = 3 => CorrectFlow(F, r.cur) \in 2..5
  PROVE  \E u \in Users : MenuOf(u, r, F).opts # {}
<1>0. PICK s \in State : s = r.st
  BY DEF Row
<1>1. PICK cc : s = r.st /\ cc = CorrectFlow(F, r.cur)
  BY <1>0
<1>2. CASE s \in {1, 2, 3, 4, 6, 11, 13, 16, 26}
  <2>1. PICK u \in Users : "test" \in Duties(u, r, F)
    BY NamedHaveDuty
  <2>2. ASSUME NEW i, NEW redo
        PROVE  Do(s, i, cc, F, Duties(u, r, F), redo).opts # {}
    BY <1>1, <1>2, <2>1, DoOffers
  <2> QED  BY <1>1, <2>2, DutyActs
<1>3. CASE s \in {12, 17, 19, 20}
  <2>1. PICK u \in Users : "intercess" \in Duties(u, r, F)
    BY NamedHaveDuty
  <2>2. ASSUME NEW i, NEW redo
        PROVE  Do(s, i, cc, F, Duties(u, r, F), redo).opts # {}
    BY <1>3, <2>1, DoOffers
  <2> QED  BY <1>1, <2>2, DutyActs
<1>4. CASE s = 24
  <2>1. PICK u \in Users : "analyse" \in Duties(u, r, F)
    BY <1>1, <1>4, NamedHaveDuty DEF Carried
  <2>2. ASSUME NEW i, NEW redo
        PROVE  Do(s, i, cc, F, Duties(u, r, F), redo).opts # {}
    BY <1>4, <2>1, DoOffers
  <2> QED  BY <1>1, <2>2, DutyActs
<1>5. CASE s = 25
  <2>1. PICK u \in Users : "assign" \in Duties(u, r, F)
    BY <1>1, <1>5, NamedHaveDuty DEF Carried
  <2>2. ASSUME NEW i, NEW redo
        PROVE  Do(s, i, cc, F, Duties(u, r, F), redo).opts # {}
    BY <1>5, <2>1, DoOffers
  <2> QED  BY <1>1, <2>2, DutyActs
<1>6. CASE s \in {7, 8, 10} /\ r.own["dev"] # NIL
  <2>1. PICK u \in Users : u = r.own["dev"]
    BY <1>6 DEF Row, Owners, Person, Duty
  <2>2. "dev" \in Duties(u, r, F)
    BY <2>1 DEF Duties, OwnedDuties, Duty
  <2>3. ASSUME NEW i, NEW redo
        PROVE  Do(s, i, cc, F, Duties(u, r, F), redo).opts # {}
    BY <1>6, <2>2, DoOffers
  <2> QED  BY <1>1, <2>3, DutyActs
<1>7. CASE \/ s \in {5, 9, 14, 15, 18, 21, 22, 23}
           \/ s \in {7, 8, 10} /\ cc \in 1..5
  <2>1. ASSUME NEW i, NEW R
        PROVE  \E t \in Redo(s, i, cc, F, R).opts : t # s
    BY <1>7, RedoOffers
  <2>2. r.handler \in Users
    BY DEF Row
  <2>3. \A i, c, R : c = CorrectFlow(F, r.cur) =>
          \E t \in Redo(r.st, i, c, F, R).opts : t # r.st
    BY <1>1, <2>1
  <2> QED  BY <2>2, <2>3, RedoActs
<1> QED  BY <1>1, <1>2, <1>3, <1>4, <1>5, <1>6, <1>7 DEF Carried, State

(* As long as nobody changes the flow, no bug ever gets where nobody in    *)
(* the team could take it on, whatever the flow, the team, the number of   *)
(* open pages and the order of submissions.                                *)
THEOREM BugsGoOn ==
  ASSUME Managers = {}
  PROVE  Spec => []NoDeadEnd
<1>1. Init => OwnersKnown /\ BugsAreCarried
  BY DEF Init, OwnersKnown, BugsAreCarried, On, NoPage, Live, Unused, NoState, State
<1>2. TypeOK /\ OwnersKnown /\ [Next]_vars => OwnersKnown'
  BY OwnersRows, OwnersPages DEF OwnersKnown
<1>3. TypeOK /\ ChoiceOffered /\ OwnersKnown /\ BugsAreCarried /\ [Next]_vars
        => BugsAreCarried'
  BY CarriedStep
<1>4. TypeOK /\ BugsAreCarried => NoDeadEnd
  <2> SUFFICES ASSUME TypeOK, BugsAreCarried, NEW b \in Bugs, Live(b),
                      bug[b].st = 3 => CorrectFlow(flow, bug[b].cur) \in 2..5
               PROVE  \E u \in Users : CanAct(u, b)
    BY DEF NoDeadEnd
  <2>1. bug[b] \in Row /\ flow \in Flows /\ Carried(bug[b], flow)
    BY LiveRow DEF BugsAreCarried, TypeOK
  <2>2. \E u \in Users : MenuOf(u, bug[b], flow).opts # {}
    BY <2>1, SomebodyActs
  <2> QED  BY <2>2 DEF CanAct
<1> QED  BY <1>1, <1>2, <1>3, <1>4, TypeCorrect, ChoicesOffered, PTL DEF Spec

-----------------------------------------------------------------------------
(* Whoever is named can go on                                              *)

(* Every owner is in the team, and nobody waits for a missing confirmation.*)
Staffed(r, F) ==
  /\ r.nxt = 2 => 2 \in F
  /\ r.cur = 2 => 2 \in F
  /\ \A d \in Duty : r.own[d] # NIL => Member(r.own[d], F)
  /\ Member(r.rept, F)

(* The person, duty and step a state asks for are the ones in the page.    *)
Asked(m, p) ==
  \A e \in EntriesFor(m, p.st) :
    e.pick => /\ p.step = e.next /\ p.duty = DutyOf(e.next) /\ p.next = p.pick
              /\ Candidates(e.next, p.flow) # {}

StaffedOn(u, p) ==
  /\ Staffed(p.row, p.flow)
  /\ p.step = 2 => 2 \in p.flow
  /\ p.duty # NoDuty => Member(p.pick, p.flow)
  /\ p.st # NoState => Asked(MenuOf(u, p.row, p.flow), p)

BugsAreStaffed ==
  /\ \A b \in Bugs : Live(b) => Staffed(bug[b], flow)
  /\ \A u \in Users : On(u, "report") => Member(u, flow)
  /\ \A u \in Users : On(u, "hand") => StaffedOn(u, page[u])

(* changeStatus takes one entry at most.                                   *)
LEMMA OneEntry ==
  ASSUME NEW m \in Menu, NEW s, NEW d \in EntriesFor(m, s), NEW e \in EntriesFor(m, s)
  PROVE  d = e
<1>1. PICK q \in Seq(Entry) : q = m.ctl
  BY DEF Menu
<1>2. PICK k \in DOMAIN q : d = q[k] /\ s \in q[k].sts /\ \A j \in 1..(k - 1) : s \notin q[j].sts
  BY <1>1 DEF EntriesFor
<1>3. PICK l \in DOMAIN q : e = q[l] /\ s \in q[l].sts /\ \A j \in 1..(l - 1) : s \notin q[j].sts
  BY <1>1 DEF EntriesFor
<1>4. k \in Nat \ {0} /\ l \in Nat \ {0}
  BY <1>1, <1>2, <1>3
<1>5. ~(k < l) /\ ~(l < k)
  BY <1>2, <1>3, <1>4
<1> QED  BY <1>2, <1>3, <1>4, <1>5

LEMMA ListedMember ==
  ASSUME NEW F \in Flows, NEW step, NEW o \in Candidates(step, F)
  PROVE  Member(o, F) /\ (step = 2 => 2 \in F)
<1>1. 1 \in F /\ 8 \in F
  BY FlowsAssumption
<1>2. \A f \in F : o \in Actors[f] => Member(o, F)
  BY DEF Member, Roles
<1>3. CASE step \in {1, 8}
  BY <1>1, <1>2, <1>3 DEF Candidates
<1>4. CASE step = 2
  <2>1. 2 \in F /\ (o \in Actors[2] \/ o \in Actors[8])
    BY <1>4 DEF Candidates
  <2> QED  BY <1>1, <1>2, <2>1
<1>5. CASE step \in {3, 4, 5, 6, 7}
  <2>1. step \in F /\ o \in Actors[step]
    BY <1>5 DEF Candidates
  <2> QED  BY <1>2, <1>5, <2>1
<1>6. CASE step \notin {1, 2, 3, 4, 5, 6, 7, 8}
  BY <1>6 DEF Candidates
<1> QED  BY <1>3, <1>4, <1>5, <1>6

LEMMA SavedStaffed ==
  ASSUME NEW u \in Users, NEW p \in HandPage, p.st # NoState, StaffedOn(u, p)
  PROVE  Staffed(Saved(u, p), p.flow)
<1>1. PICK r \in Row, F \in Flows : r = p.row /\ F = p.flow
  BY DEF HandPage
<1>2. PICK a \in Row : a = Saved(u, p)
  BY SavedType
<1>3. /\ a.cur = Posted(u, p).cur /\ a.nxt = Posted(u, p).nxt /\ a.rept = r.rept
      /\ a.own = PostedOwners(p) \/ a.own = [PostedOwners(p) EXCEPT !["test"] = r.rept]
  BY <1>1, <1>2 DEF Saved
<1>4. Staffed(r, F) /\ (p.step = 2 => 2 \in F) /\ (p.duty # NoDuty => Member(p.pick, F))
  BY <1>1 DEF StaffedOn
<1>5. a.cur \in {r.cur, r.nxt} /\ a.nxt \in {r.nxt, p.step}
  BY <1>1, <1>3 DEF Posted
<1>6. r.own \in [Duty -> Person]
  BY DEF Row, Owners
<1>7. PICK q \in [Duty -> Person] : q = PostedOwners(p)
  BY <1>1, <1>6 DEF PostedOwners, HandPage
<1>8. \A d \in Duty : q[d] # NIL => Member(q[d], F)
  <2>1. \A d \in Duty : q[d] = r.own[d] \/ (p.duty # NoDuty /\ q[d] = p.pick)
    BY <1>1, <1>6, <1>7 DEF PostedOwners
  <2> QED  BY <1>4, <2>1 DEF Staffed
<1>9. \A d \in Duty : a.own[d] = q[d] \/ a.own[d] = r.rept
  BY <1>3, <1>7
<1>10. \A d \in Duty : a.own[d] # NIL => Member(a.own[d], F)
  BY <1>4, <1>8, <1>9 DEF Staffed
<1>11. Staffed(a, F)
  BY <1>3, <1>4, <1>5, <1>10 DEF Staffed
<1> QED  BY <1>1, <1>2, <1>11

LEMMA AssignedStaffed ==
  ASSUME NEW u \in Users, NEW d \in Actors[5], NEW r \in Row, NEW F \in Flows,
         Staffed(r, F)
  PROVE  Staffed(Assigned(u, d, r, F), F)
<1> DEFINE a == Assigned(u, d, r, F)
<1>1. /\ a.cur = 4 /\ a.nxt = 5 /\ a.rept = r.rept
      /\ a.own = [r.own EXCEPT !["dev"] = d]
  BY DEF Assigned, Row
<1>2. Member(d, F)
  BY FlowsAssumption DEF Member, Roles
<1>3. r.own \in [Duty -> Person]
  BY DEF Row, Owners
<1> HIDE DEF a
<1>4. \A e \in Duty : a.own[e] = r.own[e] \/ a.own[e] = d
  BY <1>1, <1>3
<1>5. Staffed(a, F)
  BY <1>1, <1>2, <1>4 DEF Staffed
<1> QED  BY <1>5 DEF a

LEMMA FirstStep ==
  ASSUME NEW F \in Flows
  PROVE  StepAfter(F, 1) \in F \cap {2, 3, 4, 5}
<1>1. F \subseteq 1..8 /\ 5 \in F
  BY FlowsAssumption DEF FlowStep
<1>2. \E f \in F : f > 1 /\ \A g \in F : g > 1 => f <= g
  <2>1. CASE 2 \in F  BY <1>1, <2>1
  <2>2. CASE 2 \notin F /\ 3 \in F  BY <1>1, <2>2
  <2>3. CASE 2 \notin F /\ 3 \notin F /\ 4 \in F  BY <1>1, <2>3
  <2>4. CASE 2 \notin F /\ 3 \notin F /\ 4 \notin F  BY <1>1, <2>4
  <2> QED  BY <2>1, <2>2, <2>3, <2>4
<1>3. PICK c : c = StepAfter(F, 1)
  OBVIOUS
<1>4. c \in F /\ c > 1 /\ \A g \in F : g > 1 => c <= g
  BY <1>2, <1>3 DEF StepAfter
<1>5. c \in 1..8 /\ c <= 5
  BY <1>1, <1>4
<1>6. c \in {2, 3, 4, 5}
  BY <1>4, <1>5
<1> QED  BY <1>3, <1>4, <1>6

LEMMA AddStaffed ==
  ASSUME TypeOK, NEW u \in Users, NEW b \in Bugs, NEW o \in Users, Add(u, b, o),
         Member(u, page[u].flow)
  PROVE  Staffed(bug'[b], page[u].flow)
<1> DEFINE F    == page[u].flow
           step == StepAfter(F, 1)
           own  == [d \in Duty |-> IF d = DutyOf(step) THEN o
                                   ELSE IF d = "test" THEN u ELSE NIL]
<1>1. F \in Flows
  BY PageKinds DEF Add, ReportPage
<1>2. step \in F /\ o \in Actors[step]
  BY <1>1, FirstStep DEF Add
<1>3. /\ bug'[b].cur = 1 /\ bug'[b].nxt = step
      /\ bug'[b].rept = u /\ bug'[b].own = own
  BY DEF Add, TypeOK
<1>4. \A d \in Duty : own[d] \in {o, u, NIL}
  OBVIOUS
<1> HIDE DEF step, own, F
<1>5. Member(o, F) /\ Member(u, F)
  BY <1>2 DEF Member, Roles, F
<1>6. Staffed(bug'[b], F)
  BY <1>2, <1>3, <1>4, <1>5 DEF Staffed
<1> QED  BY <1>6 DEF F

LEMMA ChoiceStaffed ==
  ASSUME TypeOK, NEW u \in Users, ChangeStatus(u), StaffedOn(u, page[u])
  PROVE  \E y : Show(u, y) /\ StaffedOn(u, y) /\ y.kind = "hand"
<1> DEFINE p == page[u]
           m == MenuOf(u, p.row, p.flow)
<1>1. PICK y \in HandPage : /\ Show(u, y) /\ SamePlace(y, p) /\ y.st \in m.opts
                            /\ \/ ChosenWithout(m, p, y)
                               \/ ChosenKept(m, p, y)
                               \/ ChosenPerson(m, p, y)
  BY ChosenPage
<1>2. p \in HandPage
  BY PageKinds DEF ChangeStatus
<1>3. PICK r \in Row, F \in Flows : r = p.row /\ F = p.flow
  BY <1>2 DEF HandPage
<1>4. /\ y.row = r /\ y.flow = F /\ m = MenuOf(u, y.row, y.flow)
      /\ y.kind = "hand"
  BY <1>1, <1>3 DEF SamePlace, HandPage
<1>5. m \in Menu /\ m \in SoundMenu(Steps(r.st))
  BY <1>3, MenuType, MenuSteps
<1> HIDE DEF m
<1>6. \A e \in EntriesFor(m, y.st) : ~e.pick => e.next # 2
  <2>1. EntriesFor(m, y.st) \subseteq SoundEntry(Steps(r.st))
    BY <1>1, <1>5, EntriesSound
  <2> QED  BY <2>1 DEF SoundEntry, Steps
<1>7. /\ Staffed(r, F) /\ (p.step = 2 => 2 \in F)
      /\ p.duty # NoDuty => Member(p.pick, F)
  BY <1>3 DEF StaffedOn
<1>8. /\ y.step = 2 => 2 \in F
      /\ y.duty # NoDuty => Member(y.pick, F)
      /\ Asked(m, y)
  <2>1. CASE ChosenWithout(m, p, y)
    BY <1>7, <2>1 DEF ChosenWithout, Asked
  <2>2. CASE ChosenKept(m, p, y)
    <3>1. PICK e \in EntriesFor(m, y.st) :
            ~e.pick /\ y.step = e.next /\ y.duty = p.duty /\ y.pick = p.pick
      BY <2>2 DEF ChosenKept
    <3>2. Asked(m, y)
      BY <1>5, <3>1, OneEntry DEF Asked
    <3> QED  BY <1>6, <1>7, <3>1, <3>2
  <2>3. CASE ChosenPerson(m, p, y)
    <3>1. PICK e \in EntriesFor(m, y.st) :
            /\ y.step = e.next /\ y.duty = DutyOf(e.next)
            /\ y.next \in Nameable(p, y.st, e.next) /\ y.pick = y.next
      BY <2>3 DEF ChosenPerson
    <3>2. PICK k : k = e.next
      OBVIOUS
    <3>3. \/ y.next \in Candidates(k, F)
          \/ y.next = r.own[DutyOf(k)] /\ y.next # NIL
      BY <1>3, <3>1, <3>2 DEF Nameable
    <3>4. PICK o : o \in Candidates(k, F)
      BY <1>3, <3>1, <3>2 DEF Nameable
    <3>5. k = 2 => 2 \in F
      BY <3>4, ListedMember
    <3>6. Member(y.next, F)
      <4>1. CASE y.next \in Candidates(k, F)
        BY <4>1, ListedMember
      <4>2. CASE y.next = r.own[DutyOf(k)] /\ y.next # NIL
        <5>1. k \in FlowStep
          <6>1. e.pick
            BY <2>3, <3>1, <1>5, OneEntry DEF ChosenPerson
          <6> QED  BY <1>5, <3>2, <6>1, EntriesForType DEF Entry
        <5>2. DutyOf(k) \in Duty
          BY <5>1, DutyOfType
        <5> QED  BY <1>7, <4>2, <5>2 DEF Staffed
      <4> QED  BY <3>3, <4>1, <4>2
    <3>7. \A f \in EntriesFor(m, y.st) : f = e
      BY <1>5, OneEntry
    <3>8. Asked(m, y)
      BY <1>4, <3>1, <3>2, <3>4, <3>7 DEF Asked
    <3> QED  BY <3>1, <3>2, <3>5, <3>6, <3>8
  <2> QED  BY <1>1, <2>1, <2>2, <2>3
<1> QED  BY <1>1, <1>4, <1>7, <1>8 DEF StaffedOn

LEMMA StaffedRows ==
  ASSUME Managers = {}, TypeOK, BugsAreCarried, BugsAreStaffed, [Next]_vars,
         NEW b \in Bugs, Live(b)'
  PROVE  Staffed(bug'[b], flow)
<1>1. CASE bug'[b] = bug[b]
  BY <1>1 DEF BugsAreStaffed, Live
<1>2. ASSUME NEW u \in Users, On(u, "hand"), page[u].st # NoState,
             bug'[b] = Saved(u, page[u])
      PROVE  Staffed(bug'[b], flow)
  <2>1. PICK p \in HandPage : p = page[u]
    BY <1>2, PageKinds
  <2>2. StaffedOn(u, p) /\ p.flow = flow
    BY <1>2, <2>1 DEF BugsAreCarried, BugsAreStaffed, On
  <2>3. Staffed(Saved(u, p), p.flow)
    BY <1>2, <2>1, <2>2, SavedStaffed
  <2> QED  BY <1>2, <2>1, <2>2, <2>3
<1>3. ASSUME NEW u \in Users, NEW d \in Actors[5], On(u, "batch"), Live(b),
             bug'[b] = Assigned(u, d, bug[b], page[u].flow)
      PROVE  Staffed(bug'[b], flow)
  <2>1. /\ page[u].flow = flow /\ bug[b] \in Row /\ flow \in Flows
        /\ Staffed(bug[b], flow)
    BY <1>3, LiveRow DEF BugsAreCarried, BugsAreStaffed, On, TypeOK
  <2> QED  BY <1>3, <2>1, AssignedStaffed
<1>4. ASSUME NEW u \in Users, NEW o \in Users, Add(u, b, o)
      PROVE  Staffed(bug'[b], flow)
  <2>1. page[u].flow = flow /\ Member(u, flow)
    BY <1>4 DEF Add, BugsAreCarried, BugsAreStaffed, On
  <2>2. Staffed(bug'[b], page[u].flow)
    BY <1>4, <2>1, AddStaffed
  <2> QED  BY <2>1, <2>2
<1>5. CASE Live(b) /\ bug'[b] = [bug[b] EXCEPT !.text = @ + 1]
  <2>1. PICK r \in Row : r = bug[b] /\ Staffed(r, flow)
    BY <1>5, LiveRow DEF BugsAreStaffed
  <2>2. /\ bug'[b].own = r.own /\ bug'[b].rept = r.rept /\ bug'[b].cur = r.cur
        /\ bug'[b].nxt = r.nxt
    BY <1>5, <2>1 DEF Row
  <2> QED  BY <2>1, <2>2 DEF Staffed
<1>6. ~\E u \in Users : u \in Managers
  OBVIOUS
<1>7. bug'[b] # Deleted
  BY DEF Live, Deleted, State
<1> QED  BY <1>1, <1>2, <1>3, <1>4, <1>5, <1>6, <1>7, RowWriters

LEMMA StaffedPages ==
  ASSUME TypeOK, BugsAreStaffed, [Next]_vars, NEW v \in Users
  PROVE  /\ On(v, "report")' => Member(v, flow)
         /\ On(v, "hand")' => StaffedOn(v, page'[v])
<1> DEFINE Good(u, y) == /\ y.kind = "report" => Member(u, flow)
                         /\ y.kind = "hand" => StaffedOn(u, y)
<1>1. Good(v, page[v])
  BY DEF BugsAreStaffed, On
<1>2. ASSUME NEW u \in Users, NEW y, Show(u, y), Good(u, y)
      PROVE  Good(v, page'[v])
  <2>1. page'[v] = IF u = v THEN y ELSE page[v]
    BY <1>2 DEF Show, TypeOK
  <2> QED  BY <1>1, <1>2, <2>1
<1>3. ASSUME NEW u \in Users, BatchAssign(u) \/ Show(u, NoPage)
      PROVE  Good(v, page'[v])
  <2>1. PICK y : Show(u, y) /\ y.kind \notin {"report", "hand"}
    BY <1>3 DEF BatchAssign, NoPage
  <2>2. Good(u, y)
    BY <2>1
  <2> QED  BY <1>2, <2>1, <2>2
<1>4. ASSUME NEW u \in Users, AddInit(u)
      PROVE  Good(v, page'[v])
  <2>1. PICK y : Show(u, y) /\ y.kind = "report" /\ Member(u, flow)
    BY <1>4 DEF AddInit
  <2>2. Good(u, y)
    BY <2>1
  <2> QED  BY <1>2, <2>1, <2>2
<1>5. ASSUME NEW u \in Users, NEW b \in Bugs, BugHand(u, b)
      PROVE  Good(v, page'[v])
  <2> DEFINE y == [kind |-> "hand", bug |-> b, flow |-> flow, row |-> bug[b],
                   st |-> NoState, step |-> NoStep, duty |-> NoDuty, pick |-> NIL,
                   next |-> bug[b].next, tries |-> 0]
  <2>1. Show(u, y) /\ Staffed(bug[b], flow)
    BY <1>5 DEF BugHand, BugsAreStaffed
  <2>2. StaffedOn(u, y)
    BY <2>1 DEF StaffedOn, NoStep
  <2> QED  BY <1>2, <2>1, <2>2
<1>6. ASSUME NEW u \in Users, ChangeStatus(u)
      PROVE  Good(v, page'[v])
  <2>1. StaffedOn(u, page[u])
    BY <1>6 DEF ChangeStatus, BugsAreStaffed
  <2>2. PICK y : Show(u, y) /\ StaffedOn(u, y) /\ y.kind = "hand"
    BY <1>6, <2>1, ChoiceStaffed
  <2>3. Good(u, y)
    BY <2>2
  <2> HIDE DEF Good
  <2> QED  BY <1>2, <2>2, <2>3
<1> HIDE DEF Good
<1>7. \/ UNCHANGED page
      \/ \E u \in Users : \/ \E b \in Bugs : BugHand(u, b)
                          \/ ChangeStatus(u)
                          \/ AddInit(u) \/ BatchAssign(u) \/ Show(u, NoPage)
  BY DEF Next, vars, Add, HandSub, ClosePage, BatchAssignExe, Update, Delete, UpdateFlow
<1>8. Good(v, page'[v])
  BY <1>1, <1>3, <1>4, <1>5, <1>6, <1>7
<1> QED  BY <1>8 DEF Good, On

LEMMA StaffedStep ==
  ASSUME Managers = {}, TypeOK, BugsAreCarried, BugsAreStaffed, [Next]_vars
  PROVE  BugsAreStaffed'
<1>1. flow' = flow
  BY FlowStays
<1>2. \A b \in Bugs : Live(b)' => Staffed(bug'[b], flow)
  BY StaffedRows
<1>3. \A v \in Users : /\ On(v, "report")' => Member(v, flow)
                       /\ On(v, "hand")' => StaffedOn(v, page'[v])
  BY StaffedPages
<1> QED  BY <1>1, <1>2, <1>3 DEF BugsAreStaffed

(* An owner of a bug the team knows all owners of is not left out.         *)
LEMMA OwnerHasDuty ==
  ASSUME NEW u, NEW r \in Row, NEW F, OwnersOf(r), Staffed(r, F),
         NEW d \in Duty, r.own[d] = u
  PROVE  d \in Duties(u, r, F)
<1>1. r.nxt \in FlowStep => Member(OwnerFor(r.own, r.nxt), F)
  <2>1. ASSUME NEW k \in FlowStep, k = r.nxt PROVE Member(r.own[DutyOf(k)], F)
    <3>1. DutyOf(k) \in Duty /\ k # 0
      BY DutyOfType DEF FlowStep
    <3> QED  BY <2>1, <3>1 DEF OwnersOf, Staffed
  <2> QED  BY <2>1 DEF OwnerFor
<1> QED  BY <1>1 DEF Duties, OwnedDuties

(* The states that are work for the person with a duty.                    *)
Works(d, s) ==
  \/ d = "test"      /\ s \in {1, 2, 6, 11, 13, 16, 26}
  \/ d = "analyse"   /\ s = 24
  \/ d = "assign"    /\ s \in {17, 25}
  \/ d = "dev"       /\ s \in {7, 8, 9, 10, 18}
  \/ d = "intercess" /\ s \in {12, 17, 19, 20}

LEMMA DutyWorks ==
  ASSUME NEW u, NEW r \in Row, NEW F, NEW d \in Duties(u, r, F), Works(d, r.st)
  PROVE  MenuOf(u, r, F).opts # {}
<1>1. PICK s \in State : s = r.st
  BY DEF Row
<1>2. CASE d = "assign" /\ s = 17 /\ u = r.handler
  <2>1. ASSUME NEW i, NEW c, NEW R PROVE \E t \in Redo(s, i, c, F, R).opts : t # s
    BY <1>2, RedoOffers
  <2>2. \A i, c, R : c = CorrectFlow(F, r.cur) =>
          \E t \in Redo(r.st, i, c, F, R).opts : t # r.st
    BY <1>1, <2>1
  <2> QED  BY <1>2, <2>2, RedoActs
<1>3. CASE d = "assign" /\ s = 17 /\ u # r.handler
  <2>1. PICK i, c, D : i = r.init /\ c = CorrectFlow(F, r.cur) /\ D = Duties(u, r, F)
    OBVIOUS
  <2>2. 10 \in Do(s, i, c, F, D, FALSE).opts
    BY <1>3, <2>1, OptsOf DEF Do, DoReassign
  <2>3. Do(s, i, c, F, D, FALSE).opts \subseteq MenuOf(u, r, F).opts
    BY <1>1, <1>3, <2>1, OnMenu
  <2> QED  BY <2>2, <2>3
<1>4. CASE ~(d = "assign" /\ s = 17)
  <2>1. PICK D : D = Duties(u, r, F)
    OBVIOUS
  <2>2. ASSUME NEW i, NEW c, NEW redo PROVE Do(s, i, c, F, D, redo).opts # {}
    BY <1>1, <1>4, <2>1, DoOffers DEF Works
  <2>3. \A i, c, redo : c = CorrectFlow(F, r.cur) =>
          Do(r.st, i, c, F, Duties(u, r, F), redo).opts # {}
    BY <1>1, <2>1, <2>2
  <2> QED  BY <2>3, DutyActs
<1> QED  BY <1>2, <1>3, <1>4

(* What a person named on a page is asked to do is work for his duty.      *)
LEMMA PickedWorks ==
  ASSUME NEW u \in Users, NEW p \in HandPage, p.st # NoState,
         p.st \in MenuOf(u, p.row, p.flow).opts, StaffedOn(u, p),
         p.st \notin Closed, <<p.st, p.step>> \notin Unanswered,
         NEW e \in EntriesFor(MenuOf(u, p.row, p.flow), p.st), e.pick
  PROVE  /\ p.duty \in Duty /\ p.next = p.pick
         /\ Works(p.duty, p.st)
         /\ p.duty = "test" => p.st # 17
<1>1. PICK r \in Row, F \in Flows : r = p.row /\ F = p.flow
  BY DEF HandPage
<1>2. PICK X, Y, m : /\ m \in FitMenu(F, X, Y) /\ m = MenuOf(u, r, F)
                     /\ X = Odd(u, r, F)
  BY MenuFit
<1>3. PICK s \in m.opts : s = p.st
  BY <1>1, <1>2
<1>4. e \in FitEntry(F, X) /\ s \in e.sts
  BY <1>1, <1>2, <1>3, FitEntries
<1>5. PICK k \in FlowStep : k = e.next
  BY <1>4 DEF FitEntry, Entry
<1>6. p.step = k /\ p.duty = DutyOf(k) /\ p.next = p.pick /\ Candidates(k, F) # {}
  BY <1>1, <1>5 DEF StaffedOn, Asked
<1>7. s \in Work(F, k)
  <2>1. s \in Work(F, k) \/ <<s, k>> \in X
    BY <1>4, <1>5 DEF FitEntry
  <2>2. X \subseteq {<<10, 1>>}
    BY <1>2 DEF Odd
  <2>3. <<s, k>> \notin X
    BY <1>3, <1>6, <2>2 DEF Unanswered
  <2> QED  BY <2>1, <2>3
<1>8. s \notin {4, 5, 14, 15, 22, 23}
  BY <1>3 DEF Closed
<1>9. ~(s = 3 /\ k = 1) /\ ~(s = 21 /\ k = 5) /\ ~(s = 24 /\ k = 2)
  BY <1>3, <1>6 DEF Unanswered
<1>10. k = 4 => 4 \in F
  BY <1>6 DEF Candidates
<1>11. Works(DutyOf(k), s) /\ (DutyOf(k) = "test" => s # 17)
  <2>1. CASE k \in {1, 2}
    BY <1>7, <1>8, <1>9, <2>1 DEF Work, Works, DutyOf
  <2>2. CASE k \in {3, 4}
    BY <1>7, <1>10, <2>2 DEF Work, Works, DutyOf
  <2>3. CASE k \in {5, 6, 7}
    BY <1>7, <1>9, <2>3 DEF Work, Works, DutyOf
  <2>4. CASE k = 8
    BY <1>7, <2>4 DEF Work
  <2> QED  BY <2>1, <2>2, <2>3, <2>4 DEF FlowStep
<1> QED  BY <1>3, <1>6, <1>11, DutyOfType

(* The person named on a page can go on: he owns the duty now, or he is a  *)
(* confirming tester himself, who may correct what he did.                 *)
LEMMA SavedActs ==
  ASSUME NEW u \in Users, NEW p \in HandPage, p.st # NoState,
         p.st \in MenuOf(u, p.row, p.flow).opts, StaffedOn(u, p), OwnersOn(p),
         p.st \notin Closed, <<p.st, p.step>> \notin Unanswered,
         NEW e \in EntriesFor(MenuOf(u, p.row, p.flow), p.st), e.pick
  PROVE  MenuOf(Saved(u, p).next, Saved(u, p), p.flow).opts # {}
<1>1. PICK F \in Flows, d \in Duty, o \in Users : F = p.flow /\ d = p.duty /\ o = p.pick
  <2>1. p.duty \in Duty /\ p.flow \in Flows /\ p.pick \in Person
    BY PickedWorks DEF HandPage
  <2>2. p.pick # NIL
    BY <2>1 DEF OwnersOn, NoDuty, Duty
  <2> QED  BY <2>1, <2>2 DEF Person
<1>2. p.next = o /\ Works(d, p.st)
  BY <1>1, PickedWorks
<1>3. PICK a \in Row : a = Saved(u, p)
  BY SavedType
<1>4. OwnersOf(a) /\ Staffed(a, F)
  BY <1>1, <1>3, SavedOwners, SavedStaffed
<1>5. /\ a.st = p.st /\ a.cur = Posted(u, p).cur /\ a.handler = u
      /\ a.next = NextOwner(p, PostedOwners(p), Posted(u, p).nxt)
      /\ a.own = IF Posted(u, p).cur = 2 /\ PostedOwners(p)["test"] = u
                 THEN [PostedOwners(p) EXCEPT !["test"] = p.row.rept] ELSE PostedOwners(p)
  BY <1>3 DEF Saved
<1>6. a.next = o
  BY <1>1, <1>2, <1>5, NILAssumption DEF NextOwner
<1>7. PICK q \in [Duty -> Person] : q = PostedOwners(p) /\ q[d] = o
  <2>1. p.row.own \in [Duty -> Person]
    BY DEF HandPage, Row, Owners
  <2>2. PostedOwners(p) = [p.row.own EXCEPT ![d] = o]
    BY <1>1 DEF PostedOwners, NoDuty, Duty
  <2>3. [p.row.own EXCEPT ![d] = o] \in [Duty -> Person]
    BY <2>1 DEF Person
  <2>4. [p.row.own EXCEPT ![d] = o][d] = o
    BY <2>1
  <2> QED  BY <2>2, <2>3, <2>4
<1>8. CASE a.own[d] = o
  <2>1. d \in Duties(o, a, F)
    BY <1>4, <1>8, OwnerHasDuty
  <2>2. MenuOf(o, a, F).opts # {}
    BY <1>2, <1>5, <2>1, DutyWorks
  <2> QED  BY <1>1, <1>3, <1>6, <2>2
<1>9. CASE a.own[d] # o
  <2>1. d = "test" /\ o = u /\ a.cur = 2
    BY <1>5, <1>7, <1>9
  <2>2. 2 \in F
    BY <1>4, <2>1 DEF Staffed
  <2>3. CorrectFlow(F, a.cur) = 2
    BY <2>1, <2>2 DEF CorrectFlow
  <2>4. PICK s \in State : s = a.st /\ s \in {1, 2, 6, 11, 13, 16, 26}
    BY <1>2, <1>5, <2>1 DEF Works, Row
  <2>5. ASSUME NEW i, NEW R PROVE \E t \in Redo(s, i, 2, F, R).opts : t # s
    BY <2>2, <2>4, RedoOffers
  <2>6. \A i, c, R : c = CorrectFlow(F, a.cur) =>
          \E t \in Redo(a.st, i, c, F, R).opts : t # a.st
    BY <2>3, <2>4, <2>5
  <2>7. MenuOf(a.handler, a, F).opts # {}
    BY <2>6, RedoActs
  <2> QED  BY <1>1, <1>3, <1>5, <1>6, <2>1, <2>7
<1> QED  BY <1>8, <1>9

LEMMA AssignedActs ==
  ASSUME NEW u \in Users, NEW d \in Actors[5], NEW r \in Row, NEW F \in Flows,
         OwnersOf(r), Staffed(r, F)
  PROVE  MenuOf(d, Assigned(u, d, r, F), F).opts # {}
<1>1. d \in Users
  BY ActorsAssumption DEF FlowStep
<1>2. PICK a \in Row : a = Assigned(u, d, r, F)
  BY <1>1, AssignedType
<1>3. OwnersOf(a) /\ Staffed(a, F)
  BY <1>1, <1>2, AssignedOwners, AssignedStaffed
<1>4. a.st \in {7, 10} /\ a.own = [r.own EXCEPT !["dev"] = d]
  BY <1>2 DEF Assigned, Row, ToFix
<1>5. a.own["dev"] = d /\ "dev" \in Duty
  BY <1>4 DEF Row, Owners, Duty
<1>6. "dev" \in Duties(d, a, F)
  BY <1>3, <1>5, OwnerHasDuty
<1> QED  BY <1>2, <1>4, <1>6, DutyWorks DEF Works

LEMMA AddActs ==
  ASSUME TypeOK, NEW u \in Users, NEW b \in Bugs, NEW o \in Users, Add(u, b, o),
         Member(u, page[u].flow)
  PROVE  MenuOf(bug'[b].next, bug'[b], page[u].flow).opts # {}
<1>1. PICK F \in Flows : F = page[u].flow
  BY PageKinds DEF Add, ReportPage
<1>2. PICK k \in F \cap {2, 3, 4, 5} : k = StepAfter(F, 1)
  BY FirstStep
<1>3. PICK a \in Row : a = bug'[b]
  BY AddRow DEF TypeOK
<1>4. OwnersOf(a) /\ Staffed(a, F)
  BY <1>1, <1>3, AddOwners, AddStaffed
<1>5. k \in FlowStep /\ DutyOf(k) \in Duty
  BY <1>2, DutyOfType DEF FlowStep
<1>6. PICK own : own = [d \in Duty |-> IF d = DutyOf(k) THEN o
                                       ELSE IF d = "test" THEN u ELSE NIL]
  OBVIOUS
<1>7. a.st = WaitingState(k) /\ a.own = own /\ a.next = OwnerFor(own, k)
  BY <1>1, <1>2, <1>3, <1>6 DEF Add, TypeOK
<1>8. a.own[DutyOf(k)] = o /\ a.next = o
  BY <1>5, <1>6, <1>7 DEF OwnerFor
<1>9. DutyOf(k) \in Duties(o, a, F)
  BY <1>4, <1>5, <1>8, OwnerHasDuty
<1>10. Works(DutyOf(k), a.st)
  BY <1>2, <1>7 DEF Works, WaitingState, DutyOf
<1>11. MenuOf(o, a, F).opts # {}
  BY <1>9, <1>10, DutyWorks
<1> QED  BY <1>1, <1>3, <1>8, <1>11

(* As long as nobody changes the flow, the person named to go on with a    *)
(* bug is offered a way on: by whatever chain of choices in one page he    *)
(* was named, whichever owners the row had, and whatever else happened to  *)
(* the bug while the page was open.                                        *)
THEOREM NamedGoOn ==
  ASSUME Managers = {}
  PROVE  Spec => NamedCanAct
<1>1. Init => OwnersKnown /\ BugsAreCarried /\ BugsAreStaffed
  BY DEF Init, OwnersKnown, BugsAreCarried, BugsAreStaffed, On, NoPage, Live, Unused,
         NoState, State
<1>2. TypeOK /\ OwnersKnown /\ [Next]_vars => OwnersKnown'
  BY OwnersRows, OwnersPages DEF OwnersKnown
<1>3. TypeOK /\ ChoiceOffered /\ OwnersKnown /\ BugsAreCarried /\ [Next]_vars
        => BugsAreCarried'
  BY CarriedStep
<1>4. TypeOK /\ BugsAreCarried /\ BugsAreStaffed /\ [Next]_vars => BugsAreStaffed'
  BY StaffedStep
<1>5. ASSUME TypeOK, ChoiceOffered, OwnersKnown, BugsAreCarried, BugsAreStaffed, [Next]_vars
      PROVE  \A u \in Users, b \in Bugs :
               bug'[b] # bug[b] /\ page'[u] = NoPage /\ Names(u)
               => MenuOf(bug'[b].next, bug'[b], flow').opts # {}
  <2> SUFFICES ASSUME NEW u \in Users, NEW b \in Bugs,
                      bug'[b] # bug[b], page'[u] = NoPage, Names(u)
               PROVE  MenuOf(bug'[b].next, bug'[b], flow').opts # {}
    OBVIOUS
  <2>1. ~On(u, "none") /\ page'[u] # page[u] /\ page[u].flow = flow
    BY <1>5 DEF Names, On, NoPage, BugsAreCarried
  <2>2. flow' = flow /\ flow \in Flows
    BY <1>5, FlowStays DEF TypeOK
  <2>3. \/ \E c \in Bugs, o \in Users : Add(u, c, o)
        \/ HandSub(u)
        \/ \E S \in SUBSET Bugs, d \in Users : BatchAssignExe(u, S, d)
    <3>1. ASSUME NEW v \in Users, NEW y, Show(v, y) PROVE v = u
      BY <1>5, <2>1, <3>1 DEF Show, TypeOK
    <3>2. ASSUME NEW v \in Users, ChangeStatus(v) PROVE FALSE
      <4>1. PICK y \in HandPage : Show(v, y)
        BY <1>5, <3>2, ChosenPage
      <4>2. page'[u] = y
        BY <1>5, <3>1, <4>1 DEF Show, TypeOK
      <4> QED  BY <2>1, <4>2 DEF HandPage, NoPage
    <3>3. ASSUME NEW v \in Users, HandSub(v) PROVE HandSub(u)
      BY <3>1, <3>3 DEF HandSub
    <3>4. ASSUME NEW v \in Users, NEW c \in Bugs, NEW o \in Users, Add(v, c, o)
          PROVE  Add(u, c, o)
      BY <3>1, <3>4 DEF Add
    <3>5. ASSUME NEW v \in Users, NEW S \in SUBSET Bugs, NEW d \in Users,
                 BatchAssignExe(v, S, d)
          PROVE  BatchAssignExe(u, S, d)
      BY <3>1, <3>5 DEF BatchAssignExe
    <3>6. bug' # bug /\ page' # page
      BY <2>1
    <3>7. \/ \E v \in Users, c \in Bugs, o \in Users : Add(v, c, o)
          \/ \E v \in Users : ChangeStatus(v) \/ HandSub(v)
          \/ \E v \in Users, S \in SUBSET Bugs, d \in Users : BatchAssignExe(v, S, d)
      BY <1>5, <3>6 DEF Next, vars, AddInit, BugHand, ClosePage, BatchAssign, Update,
         Delete, UpdateFlow
    <3> QED  BY <3>2, <3>3, <3>4, <3>5, <3>7
  <2>4. ASSUME NEW c \in Bugs, NEW o \in Users, Add(u, c, o)
        PROVE  MenuOf(bug'[b].next, bug'[b], flow').opts # {}
    <3>1. c = b
      BY <1>5, <2>4 DEF Add, TypeOK
    <3>2. Member(u, page[u].flow)
      BY <1>5, <2>1, <2>4 DEF Add, BugsAreStaffed
    <3> QED  BY <1>5, <2>1, <2>2, <2>4, <3>1, <3>2, AddActs
  <2>5. CASE HandSub(u)
    <3>1. PICK p \in HandPage : p = page[u] /\ p.st # NoState
      BY <1>5, <2>5, PageKinds DEF HandSub
    <3>2. bug'[b] = Saved(u, p)
      BY <1>5, <2>5, <3>1 DEF HandSub, Write, TypeOK
    <3>3. On(u, "hand") /\ StaffedOn(u, p) /\ OwnersOn(p)
      BY <1>5, <2>5, <3>1 DEF HandSub, BugsAreStaffed, OwnersKnown
    <3>4. p.st \in MenuOf(u, p.row, p.flow).opts
      BY <1>5, <3>1, <3>3 DEF ChoiceOffered
    <3>5. PICK e \in EntriesFor(MenuOf(u, p.row, p.flow), p.st) : e.pick
      BY <3>1, <3>3 DEF Names, On
    <3>6. p.st \notin Closed /\ <<p.st, p.step>> \notin Unanswered
      BY <3>1, <3>3 DEF Names, On
    <3>7. MenuOf(Saved(u, p).next, Saved(u, p), p.flow).opts # {}
      BY <3>1, <3>3, <3>4, <3>5, <3>6, SavedActs
    <3> QED  BY <2>1, <2>2, <3>1, <3>2, <3>7
  <2>6. ASSUME NEW S \in SUBSET Bugs, NEW d \in Users, BatchAssignExe(u, S, d)
        PROVE  MenuOf(bug'[b].next, bug'[b], flow').opts # {}
    <3>1. Live(b) /\ bug'[b] = Assigned(u, d, bug[b], flow) /\ d \in Actors[5]
      BY <2>1, <2>6 DEF BatchAssignExe
    <3>2. PICK r \in Row : r = bug[b] /\ OwnersOf(r) /\ Staffed(r, flow)
      BY <1>5, <3>1, LiveRow DEF OwnersKnown, BugsAreStaffed
    <3>3. Assigned(u, d, r, flow).next = d
      BY DEF Assigned, Row
    <3>4. MenuOf(d, Assigned(u, d, r, flow), flow).opts # {}
      BY <2>2, <3>1, <3>2, AssignedActs
    <3> QED  BY <2>2, <3>1, <3>2, <3>3, <3>4
  <2> QED  BY <2>3, <2>4, <2>5, <2>6
<1> QED  BY <1>1, <1>2, <1>3, <1>4, <1>5, TypeCorrect, ChoicesOffered, PTL
         DEF Spec, NamedCanAct

=============================================================================
