------------------------------ MODULE BugFlow ------------------------------
(***************************************************************************)
(* The tables of the defect workflow: which states a handler is offered    *)
(* for a bug, and to which step of the task's flow a chosen state sends    *)
(* it.  They are the pure part of BugFlowControlBlh (the three *DataInit    *)
(* methods) and of changeStatus in bugHand.js; the state machine that uses *)
(* them is BugHandling.                                                    *)
(*                                                                         *)
(* The controller hands the page a list of options and a control string    *)
(* such as "3,11,16=1^testSelStr$18=6^devStr".  Here the string is a       *)
(* sequence of entries [sts, next, pick]: choosing a state of sts sets the *)
(* next flow step; pick says whether the handler must name the next person *)
(* (a "^0" in the string says not).  The page takes the first entry that   *)
(* lists the chosen state; an option without an entry leaves the next step *)
(* as it was.  Entries for states that are never on offer beside them are  *)
(* left out.                                                               *)
(***************************************************************************)
EXTENDS Naturals, Sequences

(* BugFlowConst names 26 states:                                           *)
(*  1 to be confirmed   2 reword             3 duplicate     4 invalid      *)
(*  5 withdrawn         6 needs info         7,8 to fix (re-/not            *)
(*  reproduced)         9 unresolved        10 to fix       11 held, info   *)
(* 12 dispute          13 fixed             14 closed       15 closed, not  *)
(* reproduced          16 not a bug         17 reassign     18 cross check  *)
(* 19 held, not planned 20 held, next ver.  21 next version 22 closed,      *)
(* withdrawn           23 closed, left over 24 analyse      25 assign       *)
(* 26 fixed, in the test environment                                       *)
State == 1..26

(* 1 test, 2 confirm, 3 analyse, 4 assign, 5 develop, 6 cross check,       *)
(* 7 arbitrate, 8 final test; 9 (case review) belongs to the test cases.   *)
FlowStep == 1..8

(* The states in which a bug waits for nobody. *)
Closed == {4, 5, 14, 15, 22, 23}

(* A bug remembers one owner for each duty. *)
Duty == {"test", "analyse", "assign", "dev", "intercess"}

(* The duty whose owner performs a step of the flow (getNextHandler). *)
DutyOf(step) ==
  CASE step \in {1, 2, 8} -> "test"
    [] step = 3           -> "analyse"
    [] step = 4           -> "assign"
    [] step \in {5, 6}    -> "dev"
    [] step = 7           -> "intercess"

(* The step to go on from when the task's flow no longer has the recorded  *)
(* one: the first later step.  Steps 1, 5, 7 and 8 are always in a flow.   *)
CorrectFlow(F, step) ==
  IF step \in F THEN step
  ELSE CHOOSE f \in F : f > step /\ \A g \in F : g > step => f <= g

-----------------------------------------------------------------------------
(* Menus *)

Entry ==
  {e \in [sts : SUBSET State, next : 0..8, pick : BOOLEAN] :
     e.pick => e.next \in FlowStep}
Menu  == [opts : SUBSET State, ctl : Seq(Entry)]

Offer(states, entries) == [opts |-> states, ctl |-> entries]
Nothing == Offer({}, <<>>)

To(states, step)   == <<[sts |-> states, next |-> step, pick |-> TRUE]>>
Stay(states, step) == <<[sts |-> states, next |-> step, pick |-> FALSE]>>

(* The options and the control string of m followed by those of n. *)
m \oplus n == Offer(m.opts \cup n.opts, m.ctl \o n.ctl)

Send(states, step) == Offer(states, To(states, step))
Keep(states, step) == Offer(states, Stay(states, step))

(* What changeStatus does with a chosen state: the first entry that lists  *)
(* it, if there is one.                                                    *)
EntriesFor(m, s) ==
  {m.ctl[k] : k \in {k \in DOMAIN m.ctl :
                       /\ s \in m.ctl[k].sts
                       /\ \A j \in 1..(k - 1) : s \notin m.ctl[j].sts}}

-----------------------------------------------------------------------------
(* Fragments the tables share *)

ToDev(F)    == IF 2 \in F THEN Send({7, 8}, 5) ELSE Send({10}, 5)
Dispatch(F) == IF 4 \in F THEN Send({25}, 4) ELSE ToDev(F)
Forward(F)  == IF 3 \in F THEN Send({24}, 3) ELSE Dispatch(F)
Restart(F)  == IF 2 \in F THEN Send({1}, 2) ELSE Forward(F)
FixedUnchecked(F) == Send({13, 26}, 1)      \* mutant
FixedOrClosed(F) ==      \* mutant
  IF 6 \in F THEN Send({18}, 6) ELSE Send({13, 14, 26}, 1)

Fixed(F)    == IF 6 \in F THEN Send({18}, 6) ELSE Send({13, 26}, 1)

(* Give the bug back for reassignment, or put it on hold (states H). *)
Escalate(F, H) ==
  IF 4 \in F THEN Send({17}, 4) \oplus Send(H, 7) ELSE Send({17} \cup H, 7)

(* Sent back by a tester.  With a confirm step the entry for state 1 comes *)
(* from the caller; without one the bug goes to step 4, not 5, after the   *)
(* states 7 and 8.                                                         *)
SendOn(F) ==
  CASE 2 \in F                   -> Offer({1}, <<>>)
    [] 2 \notin F /\ 3 \in F     -> Send({24}, 3)
    [] F \cap {2, 3, 4} = {4}    -> Send({25}, 4)
    [] F \cap {2, 3, 4} = {}     -> Send({7, 8}, 4)

-----------------------------------------------------------------------------
(* correctMyHandDataInit: I handled the bug last and may take it back.     *)
(* c is the corrected current step, i the state before my handling, R my   *)
(* roles in the task.                                                      *)

RedoReword(F, c) ==
  CASE c = 1           -> Keep({3, 4, 5, 15}, 1)
    [] c \in {2, 3, 4} -> IF 2 \in F THEN Send({2, 6}, 2) \oplus ToDev(F)
                                     ELSE Forward(F)
    [] OTHER           -> Nothing

RedoDuplicate(F, c) ==
  CASE c = 1 -> Keep({4, 5}, 1) \oplus Restart(F)
    [] c = 2 -> Keep({4, 5}, 1) \oplus Send({6}, 1) \oplus Offer({2}, <<>>)
                  \oplus Forward(F)
    [] c \in {3, 4, 5} ->
         IF 4 \in F THEN Dispatch(F) \oplus Keep({5}, 1)
                    ELSE Offer({5}, <<>>) \oplus ToDev(F)
    [] OTHER -> Nothing

RedoInvalid(F, c) ==
  CASE c = 1 -> Keep({3, 5, 15}, 1) \oplus Restart(F)
    [] c = 2 -> Keep({2, 3, 5}, 1) \oplus (IF 2 \in F THEN Send({6}, 1) ELSE Nothing)
                  \oplus Forward(F)
    [] c \in {3, 4, 5} -> Keep({5}, 1) \oplus Dispatch(F)
    [] OTHER -> Nothing

RedoWithdrawn(F, c, i) ==
  (CASE c = 1   -> Keep({3, 15}, 1)
     [] c = 2   -> Send({3, 6}, 1) \oplus Offer({2}, <<>>)
     [] OTHER   -> Nothing)
  \oplus (IF i = 16 THEN Send({12}, 7) ELSE Nothing)
  \oplus Restart(F)

RedoNeedInfo(F) == Keep({3, 4, 5}, 1) \oplus Offer({2}, <<>>) \oplus Forward(F)

(* At step 7 the entries are built and then overwritten by an empty string. *)
RedoToFix(F, c, i) ==
  CASE c = 1         -> Keep({3, 5, 15}, 1)
    [] c = 2         -> Send({2, 3, 5, 6, 15}, 1)
    [] c \in {3, 4}  -> Send({3, 4}, 1)
    [] c = 5         -> Send({3, 11}, 1) \oplus Fixed(F)
                          \oplus (IF i \in {12, 19, 20} THEN Escalate(F, {})
                                  ELSE Send({16}, 1) \oplus Escalate(F, {19, 20}))
    [] c = 6         -> Send({13, 26}, 1)
    [] c = 7         -> Offer(CASE i = 12 -> {22, 23} [] i = 19 -> {21, 23}
                                [] i = 20 -> {21}     [] OTHER  -> {}, <<>>)
    [] OTHER         -> Nothing

RedoUnresolved(c) == IF c = 6 THEN Send({13, 26}, 1) ELSE Keep({14}, 1)

RedoHeld(F) ==
  Keep({3}, 1) \oplus Fixed(F) \oplus Send({16}, 1) \oplus Escalate(F, {19, 20})

RedoDispute == Keep({5}, 1)

(* s is 13 or 26. *)
RedoFixed(F, c, s) ==
  LET other == {13, 26} \ {s}
  IN IF c = 6 THEN Send({9}, 5) \oplus Send(other, 1)
              ELSE Send({3, 16} \cup other, 1) \oplus Escalate(F, {19})

RedoClosed(F, s) ==
  IF s = 14 THEN Send({9}, 5)
  ELSE IF 2 \in F THEN Send({1}, 2) ELSE Send({10}, 5)

RedoNotBug(F, c) ==
  Send({3, 11} \cup (IF c = 4 THEN {10} ELSE {}), 1)
    \oplus Fixed(F) \oplus Escalate(F, {19, 20})

RedoReassign(F, R) ==
  Send({3, 11, 16}, 1) \oplus Fixed(F) \oplus Escalate(F, {19, 20})
    \oplus (IF 4 \in R \/ (7 \in R /\ 4 \notin F) THEN ToDev(F) ELSE Nothing)

RedoCrossCheck(F) == Send({3, 11, 16}, 1) \oplus Escalate(F, {19, 20})

RedoHold(F, s) ==
  Send({3, 11, 16}, 1) \oplus Fixed(F) \oplus Escalate(F, {19, 20})
    \oplus (IF s = 19 THEN Offer({23}, <<>>) ELSE Nothing)

(* The control string of state 21 is built but never stored. *)
RedoNextVersion == Offer({3, 10}, <<>>)

RedoCloseWithdrawn(F, i) ==
  ToDev(F) \oplus (CASE i = 12        -> Keep({23}, 1)
                     [] i \in {19, 20} -> Send({21}, 5) \oplus Keep({23}, 1)
                     [] OTHER          -> Nothing)

(* The last assignment of the control string drops the entry of state 22.  *)
RedoCloseLeft(i) ==
  Send({10, 21}, 5) \oplus Offer(IF i = 12 THEN {22} ELSE {}, <<>>)

(* At step 1 the entries are overwritten by an empty string here, too.     *)
RedoAnalyse(F, c) ==
  CASE c = 1 -> Offer({3, 5, 15}, <<>>)
    [] c = 2 -> Keep({3, 4, 5}, 0) \oplus Offer({2}, <<>>) \oplus Dispatch(F)
    [] OTHER -> Nothing

RedoAssign(c) ==
  CASE c = 1 -> Offer({3, 5, 15}, <<>>)
    [] c = 2 -> Send({2, 3, 4, 5}, 1)
    [] c = 3 -> Send({3}, 1)
    [] OTHER -> Nothing

Redo(s, i, c, F, R) ==
  CASE s \in {1, 2}       -> RedoReword(F, c)
    [] s = 3              -> RedoDuplicate(F, c)
    [] s = 4              -> RedoInvalid(F, c)
    [] s = 5              -> RedoWithdrawn(F, c, i)
    [] s = 6              -> RedoNeedInfo(F)
    [] s \in {7, 8, 10}   -> RedoToFix(F, c, i)
    [] s = 9              -> RedoUnresolved(c)
    [] s = 11             -> RedoHeld(F)
    [] s = 12             -> RedoDispute
    [] s \in {13, 26}     -> RedoFixed(F, c, s)
    [] s \in {14, 15}     -> RedoClosed(F, s)
    [] s = 16             -> RedoNotBug(F, c)
    [] s = 17             -> RedoReassign(F, R)
    [] s = 18             -> RedoCrossCheck(F)
    [] s \in {19, 20}     -> RedoHold(F, s)
    [] s = 21             -> RedoNextVersion
    [] s = 22             -> RedoCloseWithdrawn(F, i)
    [] s = 23             -> RedoCloseLeft(i)
    [] s = 24             -> RedoAnalyse(F, c)
    [] s = 25             -> RedoAssign(c)

-----------------------------------------------------------------------------
(* flowCtrlHandDataInit and flowCtrlHandDataInit2: what the owners of the  *)
(* duties D may do with the bug.  The two tables differ in four places,    *)
(* selected by redo: the first serves a handler who has not handled the    *)
(* bug last, the second adds the same handler's duty to his menu above.    *)

DoConfirm(F) ==
  Send({2, 3, 4, 5, 6}, 1)
    \oplus (IF F \cap {3, 4} # {} THEN Forward(F) ELSE Send({7, 8}, 5))

DoDuplicate(F, c) ==
  CASE c = 2 -> Keep({5}, 1) \oplus Send({1}, 2)
    [] c = 3 -> Keep({5}, 1) \oplus Send({24}, 2)
    [] c = 4 -> Keep({5}, 1) \oplus Send({25}, 4)
    [] c = 5 -> Keep({5}, 1) \oplus ToDev(F)
    [] OTHER -> Nothing

(* States 2, 4 and 6 *)
DoSentBack(F, s) ==
  SendOn(F) \oplus Offer({}, To({1}, 2))
    \oplus (CASE s = 2 -> Keep({4, 5}, 1) [] s = 4 -> Keep({5}, 0)
              [] s = 6 -> Keep({5, 15}, 0))

DoFix(F, i, redo) ==
  LET fresh == i \notin {12, 19, 20}
  IN Send({3, 11}, 1) \oplus Fixed(F)
       \oplus (CASE fresh           -> Send({16}, 1) \oplus Escalate(F, {19, 20})
                 [] ~fresh /\ ~redo -> Escalate(F, {})
                 [] OTHER           -> Nothing)

DoUnresolved(F) == Send({11}, 1) \oplus Fixed(F) \oplus Escalate(F, {19, 20})

DoHeld(F) == Keep({15}, 1) \oplus ToDev(F)

DoDispute == Send({10}, 5) \oplus Keep({22}, 7)

DoVerify == Send({9}, 5) \oplus Keep({14}, 1)

DoNotBug == Keep({5}, 1) \oplus Send({12}, 7)

DoReassign == Send({10}, 5)

DoCrossCheck == Send({13, 26}, 1) \oplus Send({9}, 5)

DoNotPlanned == Send({10, 21}, 5) \oplus Keep({22, 23}, 0)

DoNextVersion == Send({10, 21}, 5)

DoAnalyse(F, redo) ==
  LET notBug == IF redo THEN {} ELSE {16}
  IN (IF 2 \in F THEN Keep({3}, 1) \oplus Offer(notBug, <<>>)
                 ELSE Keep({2, 3, 4, 5, 6} \cup notBug, 1))
     \oplus Dispatch(F)

DoAssign(F) ==
  Keep(IF F \cap {2, 3} = {} THEN {2, 3, 4, 5, 6, 16} ELSE {3, 16}, 1) \oplus ToDev(F)

Do(s, i, c, F, D, redo) ==
  CASE s = 1 /\ "test" \in D              -> DoConfirm(F)
    [] s \in {2, 4, 6} /\ "test" \in D    -> DoSentBack(F, s)
    [] s = 3 /\ "test" \in D              -> DoDuplicate(F, c)
    [] s \in {7, 8, 10} /\ "dev" \in D    -> DoFix(F, i, redo)
    [] s = 9 /\ "dev" \in D               -> DoUnresolved(F)
    [] s = 11 /\ "test" \in D             -> DoHeld(F)
    [] s = 12 /\ "intercess" \in D        -> DoDispute
    [] s \in {13, 26} /\ "test" \in D     -> DoVerify
    [] s = 16 /\ "test" \in D             -> DoNotBug
    [] s = 17 /\ ("intercess" \in D \/ (~redo /\ "assign" \in D)) -> DoReassign
    [] s = 18 /\ "dev" \in D              -> DoCrossCheck
    [] s = 19 /\ "intercess" \in D        -> DoNotPlanned
    [] s = 20 /\ "intercess" \in D        -> DoNextVersion
    [] s = 24 /\ "analyse" \in D          -> DoAnalyse(F, redo)
    [] s = 25 /\ "assign" \in D           -> DoAssign(F)
    [] OTHER                              -> Nothing

(* The menu of the last handler: the current state is taken off the list.  *)
MyMenu(s, i, c, F, R, D) ==
  LET m == Redo(s, i, c, F, R) \oplus Do(s, i, c, F, D, TRUE)
  IN [m EXCEPT !.opts = @ \ {s}]

AnybodysMenu(s, i, c, F, D) ==      \* mutant
  Redo(s, i, c, F, {}) \oplus Do(s, i, c, F, D, FALSE)

(* The menu of anybody else. *)
DutyMenu(s, i, c, F, D) == Do(s, i, c, F, D, FALSE)

=============================================================================
