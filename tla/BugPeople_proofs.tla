---------------------------- MODULE BugPeople_proofs ----------------------------
(***************************************************************************)
(* The people a bug waits for, for any team, flows and number of bugs: a   *)
(* bug always has an owner for its next step, so that it can be opened,    *)
(* and the person that a change of the flow hands it to can act.           *)
(***************************************************************************)
EXTENDS BugHandling_proofs, SequenceTheorems, WellFoundedInduction

-----------------------------------------------------------------------------
(* Steps without a person                                                  *)

(* An entry that names nobody leads to one of the steps K; a dispute goes  *)
(* to step 7 and asks for a person. *)
SoundEntry(K) ==
  {e \in Entry : /\ e.pick \/ e.next \in K
                 /\ 12 \in e.sts => e.pick /\ e.next = 7}

(* Whoever may choose a dispute finds an entry for it. *)
SoundMenu(K) ==
  {m \in [opts : SUBSET State, ctl : Seq(SoundEntry(K))] :
     12 \in m.opts => \E k \in DOMAIN m.ctl : 12 \in m.ctl[k].sts}

(* But for the steps of the tester, for whom there is always a person, and *)
(* the arbitration of a dispute, every entry names one.                    *)
Sound == SoundMenu({0, 1})

LEMMA SendSound ==
  ASSUME NEW S \in SUBSET State, NEW step \in FlowStep, 12 \in S => step = 7
  PROVE  Send(S, step) \in Sound
<1> DEFINE e == [sts |-> S, next |-> step, pick |-> TRUE]
<1>1. e \in SoundEntry({0, 1})
  BY DEF SoundEntry, Entry, FlowStep
<1>2. /\ Send(S, step) = [opts |-> S, ctl |-> <<e>>]
      /\ <<e>> \in Seq(SoundEntry({0, 1}))
      /\ 1 \in DOMAIN <<e>> /\ <<e>>[1].sts = S
  BY <1>1 DEF Send, Offer, To
<1> HIDE DEF e
<1>3. Send(S, step).opts = S /\ Send(S, step).ctl = <<e>>
  BY <1>2
<1> QED  BY <1>2, <1>3 DEF Sound, SoundMenu

LEMMA KeepSteps ==
  ASSUME NEW S \in SUBSET State, 12 \notin S, NEW K \in SUBSET (0..8), NEW step \in K
  PROVE  Keep(S, step) \in SoundMenu(K)
<1>1. Stay(S, step) \in Seq(SoundEntry(K))
  BY DEF Stay, SoundEntry, Entry
<1> QED  BY <1>1 DEF Keep, Offer, SoundMenu

LEMMA KeepSound ==
  ASSUME NEW S \in SUBSET State, 12 \notin S, NEW step \in {0, 1}
  PROVE  Keep(S, step) \in Sound
  BY KeepSteps DEF Sound

LEMMA OfferedSound ==
  ASSUME NEW S \in SUBSET State, 12 \notin S
  PROVE  Offer(S, <<>>) \in Sound
  BY DEF Offer, Sound, SoundMenu

LEMMA NothingSound == Nothing \in Sound
  BY OfferedSound DEF Nothing

(* The elements of two sequences, where they are when these are joined. *)
LEMMA InConcat ==
  ASSUME NEW S, NEW a \in Seq(S), NEW b \in Seq(S)
  PROVE  /\ \A k \in DOMAIN a : k \in DOMAIN (a \o b) /\ (a \o b)[k] = a[k]
         /\ \A k \in DOMAIN b :
              Len(a) + k \in DOMAIN (a \o b) /\ (a \o b)[Len(a) + k] = b[k]
<1>1. PICK c : c = a \o b
  OBVIOUS
<1>2. /\ c \in Seq(S) /\ Len(c) = Len(a) + Len(b)
      /\ \A i \in 1..Len(a) + Len(b) :
           c[i] = IF i <= Len(a) THEN a[i] ELSE b[i - Len(a)]
  BY <1>1, ConcatProperties
<1>3. /\ DOMAIN a = 1..Len(a) /\ DOMAIN b = 1..Len(b) /\ DOMAIN c = 1..Len(c)
      /\ Len(a) \in Nat /\ Len(b) \in Nat
  BY <1>2, LenProperties
<1>4. ASSUME NEW l \in Nat, NEW n \in Nat, Len(a) = l, Len(b) = n, NEW k \in 1..n
      PROVE  l + k \in 1..l + n /\ ~(l + k <= l) /\ (l + k) - l = k
  OBVIOUS
<1>5. ASSUME NEW k \in DOMAIN b PROVE Len(a) + k \in DOMAIN c /\ c[Len(a) + k] = b[k]
  BY <1>2, <1>3, <1>4, <1>5
<1>6. ASSUME NEW k \in DOMAIN a PROVE k \in DOMAIN c /\ c[k] = a[k]
  BY <1>2, <1>3, <1>6
<1> QED  BY <1>1, <1>5, <1>6

LEMMA JoinSteps ==
  ASSUME NEW K, NEW m \in SoundMenu(K), NEW n \in SoundMenu(K)
  PROVE  m \oplus n \in SoundMenu(K)
<1> DEFINE c == m.ctl \o n.ctl
<1>1. /\ m.opts \in SUBSET State /\ m.ctl \in Seq(SoundEntry(K))
      /\ n.opts \in SUBSET State /\ n.ctl \in Seq(SoundEntry(K))
  BY DEF SoundMenu
<1>2. m \oplus n = [opts |-> m.opts \cup n.opts, ctl |-> c] /\ c \in Seq(SoundEntry(K))
  BY <1>1 DEF \oplus, Offer
<1>3. /\ \A k \in DOMAIN m.ctl : k \in DOMAIN c /\ c[k] = m.ctl[k]
      /\ \A k \in DOMAIN n.ctl :
           Len(m.ctl) + k \in DOMAIN c /\ c[Len(m.ctl) + k] = n.ctl[k]
  <2>1. PICK a \in Seq(SoundEntry(K)) : a = m.ctl
    BY <1>1
  <2>2. PICK b \in Seq(SoundEntry(K)) : b = n.ctl
    BY <1>1
  <2>3. /\ \A k \in DOMAIN a : k \in DOMAIN (a \o b) /\ (a \o b)[k] = a[k]
        /\ \A k \in DOMAIN b :
             Len(a) + k \in DOMAIN (a \o b) /\ (a \o b)[Len(a) + k] = b[k]
    <3> HIDE DEF c
    <3> QED  BY InConcat
  <2> QED  BY <2>1, <2>2, <2>3
<1> HIDE DEF c
<1>4. ASSUME 12 \in m.opts \cup n.opts PROVE \E k \in DOMAIN c : 12 \in c[k].sts
  <2>1. CASE 12 \in m.opts
    <3>1. PICK k \in DOMAIN m.ctl : 12 \in m.ctl[k].sts
      BY <2>1 DEF SoundMenu
    <3> QED  BY <1>3, <3>1
  <2>2. CASE 12 \in n.opts
    <3>1. PICK k \in DOMAIN n.ctl : 12 \in n.ctl[k].sts
      BY <2>2 DEF SoundMenu
    <3> QED  BY <1>3, <3>1
  <2> QED  BY <1>4, <2>1, <2>2
<1> QED  BY <1>1, <1>2, <1>4 DEF SoundMenu

LEMMA JoinSound ==
  ASSUME NEW m \in Sound, NEW n \in Sound
  PROVE  m \oplus n \in Sound
  BY JoinSteps DEF Sound

LEMMA ToDevSound ==
  ASSUME NEW F
  PROVE  ToDev(F) \in Sound
  BY SendSound DEF ToDev, State, FlowStep

LEMMA DispatchSound ==
  ASSUME NEW F
  PROVE  Dispatch(F) \in Sound
  BY SendSound, ToDevSound DEF Dispatch, State, FlowStep

LEMMA ForwardSound ==
  ASSUME NEW F
  PROVE  Forward(F) \in Sound
  BY SendSound, DispatchSound DEF Forward, State, FlowStep

LEMMA RestartSound ==
  ASSUME NEW F
  PROVE  Restart(F) \in Sound
  BY SendSound, ForwardSound DEF Restart, State, FlowStep

LEMMA FixedSound ==
  ASSUME NEW F
  PROVE  Fixed(F) \in Sound
  BY SendSound DEF Fixed, State, FlowStep

LEMMA EscalateSound ==
  ASSUME NEW F, NEW H \in SUBSET State, 12 \notin H
  PROVE  Escalate(F, H) \in Sound
<1>1. Send({17}, 4) \in Sound /\ Send(H, 7) \in Sound
  BY SendSound DEF State, FlowStep
<1>2. Send({17} \cup H, 7) \in Sound
  <2>1. {17} \cup H \in SUBSET State  BY DEF State
  <2> QED  BY <2>1, SendSound DEF FlowStep
<1> QED  BY <1>1, <1>2, JoinSound DEF Escalate

-----------------------------------------------------------------------------
(* The menu of the last handler, state by state                            *)

LEMMA RedoRewordSound ==
  ASSUME NEW F, NEW c
  PROVE  RedoReword(F, c) \in Sound
  BY SendSound, KeepSound, NothingSound, JoinSound, ToDevSound, ForwardSound
     DEF RedoReword, State, FlowStep

LEMMA RedoDuplicateSound ==
  ASSUME NEW F, NEW c
  PROVE  RedoDuplicate(F, c) \in Sound
  BY SendSound, KeepSound, OfferedSound, NothingSound, JoinSound, ToDevSound,
     DispatchSound, ForwardSound, RestartSound DEF RedoDuplicate, State, FlowStep

LEMMA RedoInvalidSound ==
  ASSUME NEW F, NEW c
  PROVE  RedoInvalid(F, c) \in Sound
  BY SendSound, KeepSound, NothingSound, JoinSound, DispatchSound,
     ForwardSound, RestartSound DEF RedoInvalid, State, FlowStep

LEMMA RedoWithdrawnSound ==
  ASSUME NEW F, NEW c, NEW i
  PROVE  RedoWithdrawn(F, c, i) \in Sound
  BY SendSound, KeepSound, OfferedSound, NothingSound, JoinSound, RestartSound
     DEF RedoWithdrawn, State, FlowStep

LEMMA RedoNeedInfoSound ==
  ASSUME NEW F
  PROVE  RedoNeedInfo(F) \in Sound
  BY KeepSound, OfferedSound, JoinSound, ForwardSound DEF RedoNeedInfo, State

LEMMA RedoToFixSound ==
  ASSUME NEW F, NEW c, NEW i
  PROVE  RedoToFix(F, c, i) \in Sound
  BY SendSound, KeepSound, OfferedSound, NothingSound, JoinSound, FixedSound,
     EscalateSound DEF RedoToFix, State, FlowStep

LEMMA RedoUnresolvedSound ==
  ASSUME NEW c
  PROVE  RedoUnresolved(c) \in Sound
  BY SendSound, KeepSound DEF RedoUnresolved, State, FlowStep

LEMMA RedoHeldSound ==
  ASSUME NEW F
  PROVE  RedoHeld(F) \in Sound
  BY SendSound, KeepSound, JoinSound, FixedSound, EscalateSound
     DEF RedoHeld, State, FlowStep

LEMMA RedoDisputeSound ==
  RedoDispute \in Sound
  BY KeepSound DEF RedoDispute, State

LEMMA RedoFixedSound ==
  ASSUME NEW F, NEW c, NEW s
  PROVE  RedoFixed(F, c, s) \in Sound
  BY SendSound, JoinSound, EscalateSound DEF RedoFixed, State, FlowStep

LEMMA RedoClosedSound ==
  ASSUME NEW F, NEW s
  PROVE  RedoClosed(F, s) \in Sound
  BY SendSound DEF RedoClosed, State, FlowStep

LEMMA RedoNotBugSound ==
  ASSUME NEW F, NEW c
  PROVE  RedoNotBug(F, c) \in Sound
  BY SendSound, JoinSound, FixedSound, EscalateSound
     DEF RedoNotBug, State, FlowStep

LEMMA RedoReassignSound ==
  ASSUME NEW F, NEW R
  PROVE  RedoReassign(F, R) \in Sound
  BY SendSound, NothingSound, JoinSound, ToDevSound, FixedSound, EscalateSound
     DEF RedoReassign, State, FlowStep

LEMMA RedoCrossCheckSound ==
  ASSUME NEW F
  PROVE  RedoCrossCheck(F) \in Sound
  BY SendSound, JoinSound, EscalateSound DEF RedoCrossCheck, State, FlowStep

LEMMA RedoHoldSound ==
  ASSUME NEW F, NEW s
  PROVE  RedoHold(F, s) \in Sound
  BY SendSound, OfferedSound, NothingSound, JoinSound, FixedSound,
     EscalateSound DEF RedoHold, State, FlowStep

LEMMA RedoNextVersionSound ==
  RedoNextVersion \in Sound
  BY OfferedSound DEF RedoNextVersion, State

LEMMA RedoCloseWithdrawnSound ==
  ASSUME NEW F, NEW i
  PROVE  RedoCloseWithdrawn(F, i) \in Sound
  BY SendSound, KeepSound, NothingSound, JoinSound, ToDevSound
     DEF RedoCloseWithdrawn, State, FlowStep

LEMMA RedoCloseLeftSound ==
  ASSUME NEW i
  PROVE  RedoCloseLeft(i) \in Sound
  BY SendSound, OfferedSound, JoinSound DEF RedoCloseLeft, State, FlowStep

LEMMA RedoAnalyseSound ==
  ASSUME NEW F, NEW c
  PROVE  RedoAnalyse(F, c) \in Sound
  BY KeepSound, OfferedSound, NothingSound, JoinSound, DispatchSound
     DEF RedoAnalyse, State

LEMMA RedoAssignSound ==
  ASSUME NEW c
  PROVE  RedoAssign(c) \in Sound
  BY SendSound, OfferedSound, NothingSound DEF RedoAssign, State, FlowStep

-----------------------------------------------------------------------------
(* The menu of the owners of a bug, state by state                         *)

LEMMA SendOnSound ==
  ASSUME NEW F
  PROVE  SendOn(F) \in Sound
  BY SendSound, OfferedSound DEF SendOn, State, FlowStep

LEMMA DoConfirmSound ==
  ASSUME NEW F
  PROVE  DoConfirm(F) \in Sound
  BY SendSound, JoinSound, ForwardSound DEF DoConfirm, State, FlowStep

LEMMA DoDuplicateSound ==
  ASSUME NEW F, NEW c
  PROVE  DoDuplicate(F, c) \in Sound
  BY SendSound, KeepSound, NothingSound, JoinSound, ToDevSound
     DEF DoDuplicate, State, FlowStep

LEMMA DoSentBackSound ==
  ASSUME NEW F, NEW s \in {2, 4, 6}
  PROVE  DoSentBack(F, s) \in Sound
<1>1. Offer({}, To({1}, 2)) \in Sound
  <2>1. To({1}, 2) \in Seq(SoundEntry({0, 1}))
    BY DEF To, SoundEntry, Entry, State, FlowStep
  <2> QED  BY <2>1 DEF Offer, Sound, SoundMenu
<1>2. Keep({4, 5}, 1) \in Sound /\ Keep({5}, 0) \in Sound /\ Keep({5, 15}, 0) \in Sound
  BY KeepSound DEF State
<1> QED  BY <1>1, <1>2, SendOnSound, JoinSound DEF DoSentBack

LEMMA DoFixSound ==
  ASSUME NEW F, NEW i, NEW redo
  PROVE  DoFix(F, i, redo) \in Sound
  BY SendSound, NothingSound, JoinSound, FixedSound, EscalateSound
     DEF DoFix, State, FlowStep

LEMMA DoUnresolvedSound ==
  ASSUME NEW F
  PROVE  DoUnresolved(F) \in Sound
  BY SendSound, JoinSound, FixedSound, EscalateSound
     DEF DoUnresolved, State, FlowStep

LEMMA DoHeldSound ==
  ASSUME NEW F
  PROVE  DoHeld(F) \in Sound
  BY KeepSound, JoinSound, ToDevSound DEF DoHeld, State

LEMMA DoVerifySound ==
  DoVerify \in Sound
  BY SendSound, KeepSound, JoinSound DEF DoVerify, State, FlowStep

LEMMA DoNotBugSound ==
  DoNotBug \in Sound
  BY SendSound, KeepSound, JoinSound DEF DoNotBug, State, FlowStep

LEMMA DoReassignSound ==
  DoReassign \in Sound
  BY SendSound DEF DoReassign, State, FlowStep

LEMMA DoCrossCheckSound ==
  DoCrossCheck \in Sound
  BY SendSound, JoinSound DEF DoCrossCheck, State, FlowStep

LEMMA DoNotPlannedSound ==
  DoNotPlanned \in Sound
  BY SendSound, KeepSound, JoinSound DEF DoNotPlanned, State, FlowStep

LEMMA DoNextVersionSound ==
  DoNextVersion \in Sound
  BY SendSound DEF DoNextVersion, State, FlowStep

LEMMA DoAnalyseSound ==
  ASSUME NEW F, NEW redo
  PROVE  DoAnalyse(F, redo) \in Sound
  BY KeepSound, OfferedSound, JoinSound, DispatchSound DEF DoAnalyse, State

LEMMA DoAssignSound ==
  ASSUME NEW F
  PROVE  DoAssign(F) \in Sound
  BY KeepSound, JoinSound, ToDevSound DEF DoAssign, State

-----------------------------------------------------------------------------
(* The menus                                                               *)

LEMMA RedoSound ==
  ASSUME NEW s \in State, NEW i, NEW c, NEW F, NEW R
  PROVE  Redo(s, i, c, F, R) \in Sound
BY RedoRewordSound, RedoDuplicateSound, RedoInvalidSound, RedoWithdrawnSound,
   RedoNeedInfoSound, RedoToFixSound, RedoUnresolvedSound, RedoHeldSound,
   RedoDisputeSound, RedoFixedSound, RedoClosedSound, RedoNotBugSound,
   RedoReassignSound, RedoCrossCheckSound, RedoHoldSound, RedoNextVersionSound,
   RedoCloseWithdrawnSound, RedoCloseLeftSound, RedoAnalyseSound, RedoAssignSound
   DEF Redo, State

LEMMA DoSound ==
  ASSUME NEW s \in State \ {12}, NEW i, NEW c, NEW F, NEW D, NEW redo
  PROVE  Do(s, i, c, F, D, redo) \in Sound
BY DoConfirmSound, DoSentBackSound, DoDuplicateSound, DoFixSound, DoUnresolvedSound,
   DoHeldSound, DoVerifySound, DoNotBugSound, DoReassignSound, DoCrossCheckSound,
   DoNotPlannedSound, DoNextVersionSound, DoAnalyseSound, DoAssignSound, NothingSound
   DEF Do, State

(* The arbitration of a dispute may keep the bug at step 7.                *)
Steps(s) == IF s = 12 THEN {0, 1, 7} ELSE {0, 1}

LEMMA WiderMenu ==
  ASSUME NEW s
  PROVE  Sound \subseteq SoundMenu(Steps(s))
<1>1. SoundEntry({0, 1}) \subseteq SoundEntry(Steps(s))
  BY DEF SoundEntry, Steps
<1>2. \A q : q \in Seq(SoundEntry({0, 1})) => q \in Seq(SoundEntry(Steps(s)))
  <2> DEFINE A == SoundEntry({0, 1})
             B == SoundEntry(Steps(s))
  <2> HIDE DEF A, B
  <2>1. A \subseteq B => \A q : q \in Seq(A) => q \in Seq(B)
    OBVIOUS
  <2> QED  BY <1>1, <2>1 DEF A, B
<1> QED  BY <1>2 DEF Sound, SoundMenu

LEMMA DisputeSound == DoDispute \in SoundMenu({0, 1, 7})
<1>1. Keep({22}, 7) \in SoundMenu({0, 1, 7})
  BY KeepSteps DEF State
<1>2. Send({10}, 5) \in Sound
  BY SendSound DEF State, FlowStep
<1>3. Send({10}, 5) \in SoundMenu({0, 1, 7})
  BY <1>2, WiderMenu DEF Steps
<1> QED  BY <1>1, <1>3, JoinSteps DEF DoDispute

LEMMA DoSteps ==
  ASSUME NEW s \in State, NEW i, NEW c, NEW F, NEW D, NEW redo
  PROVE  Do(s, i, c, F, D, redo) \in SoundMenu(Steps(s))
<1>1. CASE s # 12
  BY <1>1, DoSound, WiderMenu
<1>2. CASE s = 12
  <2>1. Do(s, i, c, F, D, redo) \in {DoDispute, Nothing}
    BY <1>2 DEF Do
  <2>2. Nothing \in SoundMenu(Steps(s))
    BY NothingSound, WiderMenu
  <2>3. DoDispute \in SoundMenu(Steps(s))
    BY <1>2, DisputeSound DEF Steps
  <2> QED  BY <2>1, <2>2, <2>3
<1> QED  BY <1>1, <1>2

LEMMA MyMenuSteps ==
  ASSUME NEW s \in State, NEW i, NEW c, NEW F, NEW R, NEW D
  PROVE  MyMenu(s, i, c, F, R, D) \in SoundMenu(Steps(s))
<1> DEFINE m == Redo(s, i, c, F, R) \oplus Do(s, i, c, F, D, TRUE)
<1>1. m \in SoundMenu(Steps(s))
  <2>1. Redo(s, i, c, F, R) \in SoundMenu(Steps(s))
    BY RedoSound, WiderMenu
  <2> QED  BY <2>1, DoSteps, JoinSteps
<1> HIDE DEF m
<1>2. [m EXCEPT !.opts = @ \ {s}] \in SoundMenu(Steps(s))
  BY <1>1 DEF SoundMenu
<1> QED  BY <1>2 DEF MyMenu, m

(* What a handler is offered names a person for every step but a tester's, *)
(* and a dispute is always sent to an arbitrator.                          *)
LEMMA MenuSteps ==
  ASSUME NEW u, NEW r \in Row, NEW F
  PROVE  MenuOf(u, r, F) \in SoundMenu(Steps(r.st))
<1>1. r.st \in State
  BY DEF Row
<1> QED  BY <1>1, MyMenuSteps, DoSteps DEF MenuOf, DutyMenu

(* The first entry that lists a state.                                     *)
LEMMA FirstEntry ==
  ASSUME NEW S, NEW q \in Seq(S), NEW s, NEW k \in DOMAIN q, s \in q[k].sts
  PROVE  \E l \in DOMAIN q : s \in q[l].sts /\ \A j \in 1..(l - 1) : s \notin q[j].sts
<1> DEFINE T == {l \in DOMAIN q : s \in q[l].sts}
<1>1. DOMAIN q = 1..Len(q) /\ Len(q) \in Nat
  BY LenProperties
<1>2. T \subseteq Nat /\ T # {}
  BY <1>1
<1> HIDE DEF T
<1>3. PICK l \in T : \A j \in T : <<j, l>> \notin OpToRel(<, Nat)
  BY <1>2, WFMin, NatLessThanWellFounded
<1>4. \A j \in T : ~(j < l)
  BY <1>2, <1>3 DEF OpToRel
<1>5. l \in 1..Len(q) /\ s \in q[l].sts
  BY <1>1 DEF T
<1>6. ASSUME NEW j \in 1..(l - 1) PROVE s \notin q[j].sts
  <2>1. j \in DOMAIN q /\ j < l
    BY <1>1, <1>5
  <2> QED  BY <1>4, <2>1 DEF T
<1> QED  BY <1>1, <1>5, <1>6

LEMMA EntriesSound ==
  ASSUME NEW K, NEW m \in SoundMenu(K), NEW s \in m.opts
  PROVE  /\ EntriesFor(m, s) \subseteq SoundEntry(K)
         /\ s = 12 => /\ EntriesFor(m, s) # {}
                      /\ \A e \in EntriesFor(m, s) : e.pick /\ e.next = 7
<1>1. m.ctl \in Seq(SoundEntry(K))
  BY DEF SoundMenu
<1>2. \A e \in EntriesFor(m, s) : e \in SoundEntry(K) /\ s \in e.sts
  BY <1>1 DEF EntriesFor
<1>3. ASSUME s = 12 PROVE EntriesFor(m, s) # {}
  <2>1. PICK q \in Seq(SoundEntry(K)) : q = m.ctl
    BY <1>1
  <2>2. PICK k \in DOMAIN q : s \in q[k].sts
    BY <1>3, <2>1 DEF SoundMenu
  <2>3. \E l \in DOMAIN q : s \in q[l].sts /\ \A j \in 1..(l - 1) : s \notin q[j].sts
    BY <2>2, FirstEntry
  <2> QED  BY <2>1, <2>3 DEF EntriesFor
<1> QED  BY <1>2, <1>3 DEF SoundEntry

-----------------------------------------------------------------------------
(* Owners                                                                  *)

(* There is an owner for the next step of a bug, for a test of it, and for *)
(* the arbitration of a dispute.                                           *)
OwnersOf(r) ==
  /\ r.own["test"] # NIL
  /\ r.nxt # 0 => r.own[DutyOf(r.nxt)] # NIL
  /\ r.st = 12 => r.own["intercess"] # NIL

(* A page keeps the owners of its row, and knows one for the step chosen.  *)
OwnersOn(p) ==
  /\ OwnersOf(p.row)
  /\ p.duty # NoDuty => p.pick # NIL
  /\ p.step \in FlowStep => PostedOwners(p)[DutyOf(p.step)] # NIL
  /\ p.st = 12 => PostedOwners(p)["intercess"] # NIL

OwnersKnown ==
  /\ \A b \in Bugs : Live(b) => OwnersOf(bug[b])
  /\ \A u \in Users : On(u, "hand") => OwnersOn(page[u])

LEMMA OwnersShown ==
  ASSUME NEW r \in Row, OwnersOf(r)
  PROVE  Shown(r)
  BY DEF Row, OwnersOf, Shown, OwnerFor, FlowStep

(* Posting never takes an owner away.                                      *)
LEMMA OwnersStay ==
  ASSUME NEW p \in HandPage, p.duty # NoDuty => p.pick # NIL, NEW d \in Duty,
         p.row.own[d] # NIL
  PROVE  PostedOwners(p)[d] # NIL
<1>1. p.row.own \in [Duty -> Person]
  BY DEF HandPage, Row, Owners
<1> QED  BY <1>1 DEF PostedOwners

LEMMA SavedOwners ==
  ASSUME NEW u \in Users, NEW p \in HandPage, OwnersOn(p), p.st # NoState
  PROVE  OwnersOf(Saved(u, p))
<1> DEFINE own == PostedOwners(p)
           new == Saved(u, p).own
           nxt == Posted(u, p).nxt
<1>1. /\ p.row \in Row /\ p.step \in 0..9 /\ p.row.nxt \in 0..8 /\ p.row.cur \in 0..8
      /\ p.row.rept \in Users /\ p.row.own \in [Duty -> Person]
  BY DEF HandPage, Row, Owners
<1>2. \A d \in Duty : p.row.own[d] # NIL => own[d] # NIL
  BY OwnersStay DEF OwnersOn
<1>3. own \in [Duty -> Person]
  BY <1>1 DEF HandPage, PostedOwners
<1>4. /\ Saved(u, p).st = p.st /\ Saved(u, p).nxt = nxt
      /\ new \in {own, [own EXCEPT !["test"] = p.row.rept]}
  BY DEF Saved
<1>5. \A d \in Duty : own[d] # NIL => new[d] # NIL
  <2>1. p.row.rept # NIL
    BY <1>1, NILAssumption
  <2> HIDE DEF own, new
  <2> QED  BY <1>3, <1>4, <2>1
<1>6. nxt # 0 => own[DutyOf(nxt)] # NIL /\ DutyOf(nxt) \in Duty
  <2>1. nxt \in 0..8 /\ (nxt = p.row.nxt \/ nxt = p.step)
    BY <1>1 DEF Posted, NoStep
  <2>2. CASE nxt = p.row.nxt
    <3>1. nxt # 0 => nxt \in FlowStep /\ p.row.own[DutyOf(nxt)] # NIL
      BY <2>1, <2>2 DEF OwnersOn, OwnersOf, FlowStep
    <3> HIDE DEF own, nxt
    <3> QED  BY <1>2, <3>1, DutyOfType
  <2>3. CASE nxt = p.step
    <3>1. nxt # 0 => nxt \in FlowStep
      BY <2>1 DEF FlowStep
    <3> QED  BY <2>3, <3>1, DutyOfType DEF OwnersOn
  <2> QED  BY <2>1, <2>2, <2>3
<1>7. own["test"] # NIL /\ (p.st = 12 => own["intercess"] # NIL)
  BY <1>2 DEF OwnersOn, OwnersOf, Duty
<1> HIDE DEF own, new, nxt
<1>8. new["test"] # NIL /\ (p.st = 12 => new["intercess"] # NIL)
  BY <1>5, <1>7 DEF Duty
<1>9. nxt # 0 => new[DutyOf(nxt)] # NIL
  BY <1>5, <1>6
<1> QED  BY <1>4, <1>8, <1>9 DEF OwnersOf, new

LEMMA AssignedOwners ==
  ASSUME NEW u, NEW d \in Users, NEW r \in Row, OwnersOf(r), NEW F
  PROVE  OwnersOf(Assigned(u, d, r, F))
<1> DEFINE a == Assigned(u, d, r, F)
           o == [r.own EXCEPT !["dev"] = d]
<1>1. a = [st |-> ToFix(F), init |-> 25, cur |-> 4, nxt |-> 5, handler |-> u,
           rept |-> r.rept, own |-> o, next |-> d, text |-> r.text]
  <2>1. a = [r EXCEPT !.st = ToFix(F), !.init = 25, !.cur = 4, !.nxt = 5,
                      !.handler = u, !.own = o, !.next = d]
    BY DEF Assigned
  <2> HIDE DEF a, o
  <2> QED  BY <2>1 DEF Row
<1>2. o["test"] = r.own["test"] /\ o["dev"] = d /\ d # NIL
  BY NILAssumption DEF Row, Owners, Duty
<1>3. ToFix(F) # 12
  BY DEF ToFix
<1>4. DutyOf(5) = "dev"
  BY DEF DutyOf
<1> HIDE DEF o, a
<1> QED  BY <1>1, <1>2, <1>3, <1>4 DEF OwnersOf, a

LEMMA AdjustedOwners ==
  ASSUME NEW u, NEW r \in Row, OwnersOf(r), NEW step \in {2, 3, 4, 6}, NEW F \in Flows
  PROVE  OwnersOf(Adjusted(u, r, step, F))
<1> DEFINE a == Adjusted(u, r, step, F)
<1>1. r.own \in [Duty -> Person]
  BY DEF Row, Owners
<1>2. CASE step = 6
  <2>1. a.st = 13 /\ a.nxt = 8 /\ a.own = r.own
    BY <1>2 DEF Adjusted, Row
  <2>2. DutyOf(8) = "test"
    BY DEF DutyOf
  <2> QED  BY <2>1, <2>2 DEF OwnersOf
<1>3. CASE step # 6
  <2> DEFINE n == StepAfter(F, step)
             l == LastNamed(n)
             o == [r.own EXCEPT ![DutyOf(n)] = l]
  <2>1. n \in FlowStep
    BY <1>3, StepAfterType
  <2>2. DutyOf(n) \in Duty /\ l \in Users /\ l # NIL
    BY <2>1, DutyOfType, NamedType, NILAssumption
  <2>3. WaitingState(n) # 12
    BY DEF WaitingState
  <2>4. a = [st |-> WaitingState(n), init |-> WaitsIn(step), cur |-> r.cur, nxt |-> n,
             handler |-> u, rept |-> r.rept, own |-> o, next |-> l, text |-> r.text]
    BY <1>3 DEF Adjusted, Row
  <2> HIDE DEF a, n, l
  <2>5. o["test"] # NIL /\ o[DutyOf(n)] # NIL
    BY <1>1, <2>2 DEF OwnersOf, Duty
  <2> HIDE DEF o
  <2> QED  BY <2>3, <2>4, <2>5 DEF OwnersOf, a
<1> QED  BY <1>2, <1>3

LEMMA AddOwners ==
  ASSUME TypeOK, NEW u \in Users, NEW b \in Bugs, NEW o \in Users, Add(u, b, o)
  PROVE  bug' = [bug EXCEPT ![b] = bug'[b]] /\ OwnersOf(bug'[b])
<1> DEFINE step == StepAfter(page[u].flow, 1)
           own  == [d \in Duty |-> IF d = DutyOf(step) THEN o
                                   ELSE IF d = "test" THEN u ELSE NIL]
           st   == WaitingState(step)
           r    == [st |-> st, init |-> st, cur |-> 1, nxt |-> step, handler |-> u,
                    rept |-> u, own |-> own, next |-> OwnerFor(own, step), text |-> 0]
<1>1. step \in FlowStep
  BY PageKinds, StepAfterType DEF Add, ReportPage
<1>2. bug' = [bug EXCEPT ![b] = r]
  BY DEF Add
<1>3. bug' = [bug EXCEPT ![b] = bug'[b]] /\ bug'[b] = r
  <2> HIDE DEF r
  <2> QED  BY <1>2 DEF TypeOK
<1>4. own["test"] # NIL /\ own[DutyOf(step)] # NIL
  BY <1>1, DutyOfType, NILAssumption DEF Duty
<1>5. st # 12
  BY SMTT(30) DEF WaitingState
<1> HIDE DEF step, own, st
<1> QED  BY <1>3, <1>4, <1>5 DEF OwnersOf

-----------------------------------------------------------------------------
(* The choices of a handler                                                *)

(* Whatever is chosen, the page still knows the owners it needs: an option *)
(* without an entry is no dispute, an entry that names nobody leads to a   *)
(* tester or arbitrator the row has, and otherwise a person is picked.     *)
LEMMA ChoiceOwners ==
  ASSUME TypeOK, NEW u \in Users, ChangeStatus(u), OwnersOn(page[u])
  PROVE  \E y : Show(u, y) /\ OwnersOn(y)
<1> DEFINE p == page[u]
           m == MenuOf(u, p.row, p.flow)
<1>1. p \in HandPage
  BY PageKinds DEF ChangeStatus
<1>2. p.row \in Row /\ p.row.own \in [Duty -> Person] /\ p.step \in 0..9
  BY <1>1 DEF HandPage, Row, Owners
<1>3. m \in SoundMenu(Steps(p.row.st))
  BY <1>2, MenuSteps, SMTT(30)
<1>4. PICK s \in m.opts :
        LET q == [p EXCEPT !.st = s, !.tries = @ + 1]
        IN \/ EntriesFor(m, s) = {} /\ Show(u, q)
           \/ \E e \in EntriesFor(m, s) :
                ~e.pick /\ Show(u, [q EXCEPT !.step = e.next, !.next = NIL])
           \/ \E e \in EntriesFor(m, s) : \E o \in Nameable(p, s, e.next) :
                /\ e.pick
                /\ Show(u, [q EXCEPT !.step = e.next, !.next = o,
                                     !.duty = DutyOf(e.next), !.pick = o])
  BY DEF ChangeStatus
<1> DEFINE q == [p EXCEPT !.st = s, !.tries = @ + 1]
<1>5. /\ EntriesFor(m, s) \subseteq SoundEntry(Steps(p.row.st))
      /\ s = 12 => /\ EntriesFor(m, s) # {}
                   /\ \A e \in EntriesFor(m, s) : e.pick /\ e.next = 7
  <2> HIDE DEF m
  <2> QED  BY <1>3, <1>4, EntriesSound
<1>6. /\ q.st = s /\ q.row = p.row /\ q.step = p.step /\ q.duty = p.duty
      /\ q.pick = p.pick /\ PostedOwners(q) = PostedOwners(p)
      /\ q = [q EXCEPT !.st = s]
  BY <1>1 DEF HandPage, PostedOwners
<1>7. /\ OwnersOf(p.row) /\ (p.duty # NoDuty => p.pick # NIL)
      /\ \A d \in Duty : p.row.own[d] # NIL => PostedOwners(p)[d] # NIL
  BY <1>1, OwnersStay DEF OwnersOn
<1>8. \A k, o, d :
        LET y == [q EXCEPT !.step = k, !.next = o]
            z == [q EXCEPT !.step = k, !.next = o, !.duty = d, !.pick = o]
        IN /\ y.st = s /\ y.row = p.row /\ y.step = k /\ y.duty = p.duty /\ y.pick = p.pick
           /\ z.st = s /\ z.row = p.row /\ z.step = k /\ z.duty = d /\ z.pick = o
  BY <1>1 DEF HandPage
<1> HIDE DEF q
<1>9. CASE EntriesFor(m, s) = {} /\ Show(u, q)
  <2>1. OwnersOn(q)
    BY <1>5, <1>6, <1>9 DEF OwnersOn
  <2> QED  BY <1>9, <2>1
<1>10. ASSUME NEW e \in EntriesFor(m, s), ~e.pick,
              Show(u, [q EXCEPT !.step = e.next, !.next = NIL])
       PROVE  \E y : Show(u, y) /\ OwnersOn(y)
  <2> DEFINE y == [q EXCEPT !.step = e.next, !.next = NIL]
  <2>1. e.next \in Steps(p.row.st) /\ s # 12
    BY <1>5, <1>10 DEF SoundEntry
  <2>2. y.st = s /\ y.row = p.row /\ y.step = e.next /\ y.duty = p.duty /\ y.pick = p.pick
    BY <1>8
  <2> HIDE DEF y, q, m
  <2>3. PostedOwners(y) = PostedOwners(p)
    BY <2>2 DEF PostedOwners
  <2>4. e.next \in FlowStep => /\ DutyOf(e.next) \in Duty
                               /\ p.row.own[DutyOf(e.next)] # NIL
    <3>1. e.next \in {0, 1} \/ (e.next = 7 /\ p.row.st = 12)
      BY <2>1 DEF Steps
    <3> QED  BY <1>7, <3>1 DEF OwnersOf, DutyOf, FlowStep, Duty
  <2>5. OwnersOn(y)
    BY <1>7, <2>1, <2>2, <2>3, <2>4 DEF OwnersOn
  <2> QED  BY <1>10, <2>5 DEF y
<1>11. ASSUME NEW e \in EntriesFor(m, s), NEW o \in Nameable(p, s, e.next), e.pick,
              Show(u, [q EXCEPT !.step = e.next, !.next = o,
                                !.duty = DutyOf(e.next), !.pick = o])
       PROVE  \E y : Show(u, y) /\ OwnersOn(y)
  <2> DEFINE d == DutyOf(e.next)
             y == [q EXCEPT !.step = e.next, !.next = o, !.duty = d, !.pick = o]
  <2>1. e.next \in FlowStep /\ (s = 12 => e.next = 7)
    BY <1>5, <1>11 DEF SoundEntry, Entry
  <2>2. d \in Duty
    BY <2>1, DutyOfType
  <2>3. o # NIL
    BY CandidatesType, NILAssumption DEF Nameable
  <2>4. y.st = s /\ y.row = p.row /\ y.step = e.next /\ y.duty = d /\ y.pick = o
    BY <1>8
  <2>5. s = 12 => d = "intercess"
    BY <2>1 DEF DutyOf
  <2>6. NoDuty \notin Duty
    BY DEF NoDuty, Duty
  <2> HIDE DEF y, q, m, d
  <2>7. PostedOwners(y) = [p.row.own EXCEPT ![d] = o]
    BY <2>2, <2>4, <2>6 DEF PostedOwners
  <2>8. PostedOwners(y)[d] = o
    BY <1>2, <2>2, <2>7
  <2>9. OwnersOn(y)
    BY <1>7, <2>3, <2>4, <2>5, <2>8 DEF OwnersOn, d
  <2> QED  BY <1>11, <2>9 DEF y, d
<1> QED  BY <1>4, <1>9, <1>10, <1>11 DEF q

-----------------------------------------------------------------------------
(* Owners are always known                                                 *)

LEMMA OwnersRows ==
  ASSUME TypeOK, OwnersKnown, [Next]_vars, NEW b \in Bugs, Live(b)'
  PROVE  OwnersOf(bug'[b])
<1>1. CASE bug'[b] = bug[b]
  BY <1>1 DEF OwnersKnown, Live
<1>2. ASSUME NEW u \in Users, NEW c \in Bugs, NEW o \in Users, Add(u, c, o)
      PROVE  OwnersOf(bug'[b])
  <2>1. bug' = [bug EXCEPT ![c] = bug'[c]] /\ OwnersOf(bug'[c])
    BY <1>2, AddOwners
  <2> QED  BY <1>1, <2>1 DEF TypeOK
<1>3. ASSUME NEW u \in Users, HandSub(u)
      PROVE  OwnersOf(bug'[b])
  <2> DEFINE p == page[u]
  <2>1. p \in HandPage /\ p.st # NoState /\ OwnersOn(p)
    BY <1>3, PageKinds DEF HandSub, OwnersKnown
  <2>2. bug'[b] = Saved(u, p) \/ bug'[b] = bug[b]
    BY <1>3 DEF HandSub, Write, TypeOK
  <2> QED  BY <1>1, <2>1, <2>2, SavedOwners
<1>4. ASSUME NEW u \in Users, NEW S \in SUBSET Bugs, NEW d \in Users,
             BatchAssignExe(u, S, d)
      PROVE  OwnersOf(bug'[b])
  <2>1. \/ bug'[b] = bug[b]
        \/ Live(b) /\ bug'[b] = Assigned(u, d, bug[b], page[u].flow)
    BY <1>4 DEF BatchAssignExe
  <2> QED  BY <1>1, <2>1, LiveRow, AssignedOwners DEF OwnersKnown
<1>5. ASSUME NEW c \in Bugs, Update(c)
      PROVE  OwnersOf(bug'[b])
  <2>1. CASE b = c
    <3>1. bug[b] \in Row /\ OwnersOf(bug[b])
      BY <1>5, <2>1, LiveRow DEF Update, OwnersKnown
    <3>2. bug'[b] = [bug[b] EXCEPT !.text = @ + 1]
      BY <1>5, <2>1 DEF Update, TypeOK
    <3>3. /\ bug'[b].st = bug[b].st /\ bug'[b].nxt = bug[b].nxt
          /\ bug'[b].own = bug[b].own
      BY <3>1, <3>2 DEF Row
    <3> QED  BY <3>1, <3>3 DEF OwnersOf
  <2>2. CASE b # c
    BY <1>1, <1>5, <2>2 DEF Update, TypeOK
  <2> QED  BY <2>1, <2>2
<1>6. ASSUME NEW c \in Bugs, Delete(c)
      PROVE  OwnersOf(bug'[b])
  <2>1. bug'[b] = bug[b]
    BY <1>6 DEF Delete, Deleted, Live, State, TypeOK
  <2> QED  BY <1>1, <2>1
<1>7. ASSUME NEW u \in Users, NEW F \in Flows, UpdateFlow(u, F)
      PROVE  OwnersOf(bug'[b])
  <2> DEFINE removed == flow \ F
             step == CHOOSE f \in removed : WaitsIn(f) = bug[b].st
             hit  == Live(b) /\ \E f \in removed : WaitsIn(f) = bug[b].st
  <2>1. removed \subseteq {2, 3, 4, 6}
    BY <1>7, FlowsAssumption DEF TypeOK, FlowStep
  <2>2. bug'[b] = IF hit THEN Adjusted(u, bug[b], step, F) ELSE bug[b]
    BY <1>7 DEF UpdateFlow
  <2>3. hit => bug[b] \in Row /\ step \in {2, 3, 4, 6} /\ OwnersOf(bug[b])
    BY <2>1, LiveRow, SMTT(30) DEF OwnersKnown
  <2> HIDE DEF removed, step, hit
  <2> QED  BY <1>1, <2>2, <2>3, AdjustedOwners
<1>8. \/ UNCHANGED bug
      \/ \E u \in Users, c \in Bugs, o \in Users : Add(u, c, o)
      \/ \E u \in Users : HandSub(u)
      \/ \E u \in Users, S \in SUBSET Bugs, d \in Users : BatchAssignExe(u, S, d)
      \/ \E c \in Bugs : Update(c)
      \/ \E c \in Bugs : Delete(c)
      \/ \E u \in Users, F \in Flows : UpdateFlow(u, F)
  BY DEF Next, vars, AddInit, BugHand, ChangeStatus, ClosePage, BatchAssign
<1> QED  BY <1>1, <1>2, <1>3, <1>4, <1>5, <1>6, <1>7, <1>8

LEMMA OwnersPages ==
  ASSUME TypeOK, OwnersKnown, [Next]_vars, NEW v \in Users, On(v, "hand")'
  PROVE  OwnersOn(page'[v])
<1>1. CASE page'[v] = page[v]
  BY <1>1 DEF OwnersKnown, On
<1>2. ASSUME NEW u \in Users, NEW y, Show(u, y), OwnersOn(y) \/ y.kind # "hand"
      PROVE  OwnersOn(page'[v])
  BY <1>1, <1>2 DEF Show, On, TypeOK
<1>3. ASSUME NEW u \in Users, NEW b \in Bugs, BugHand(u, b)
      PROVE  OwnersOn(page'[v])
  <2> DEFINE y == [kind |-> "hand", bug |-> b, flow |-> flow, row |-> bug[b],
                   st |-> NoState, step |-> NoStep, duty |-> NoDuty, pick |-> NIL,
                   next |-> bug[b].next, tries |-> 0]
  <2>1. Show(u, y) /\ OwnersOf(bug[b])
    BY <1>3 DEF BugHand, OwnersKnown
  <2>2. OwnersOn(y)
    BY <2>1 DEF OwnersOn, NoState, NoStep, FlowStep
  <2> HIDE DEF y
  <2> QED  BY <1>2, <2>1, <2>2
<1>4. ASSUME NEW u \in Users, ChangeStatus(u)
      PROVE  OwnersOn(page'[v])
  <2>1. OwnersOn(page[u])
    BY <1>4 DEF ChangeStatus, OwnersKnown
  <2> QED  BY <1>2, <1>4, <2>1, ChoiceOwners
<1>5. ASSUME NEW u \in Users, AddInit(u) \/ BatchAssign(u) \/ Show(u, NoPage)
      PROVE  OwnersOn(page'[v])
  <2>1. PICK y : Show(u, y) /\ y.kind # "hand"
    BY <1>5 DEF AddInit, BatchAssign, NoPage
  <2> QED  BY <1>2, <2>1
<1>6. \/ UNCHANGED page
      \/ \E u \in Users : \/ \E b \in Bugs : BugHand(u, b)
                          \/ ChangeStatus(u)
                          \/ AddInit(u) \/ BatchAssign(u) \/ Show(u, NoPage)
  BY DEF Next, vars, Add, HandSub, ClosePage, BatchAssignExe, Update, Delete, UpdateFlow
<1> QED  BY <1>1, <1>3, <1>4, <1>5, <1>6

(* A bug that waits for somebody can always be opened: however stale the   *)
(* pages its rows come from, and whichever persons an earlier choice left  *)
(* behind in them, the owner of its next step is known.                    *)
THEOREM BugsCanBeShown == Spec => []CanBeShown
<1>1. Init => OwnersKnown
  BY DEF Init, OwnersKnown, On, NoPage, Live, Unused, NoState, State
<1>2. TypeOK /\ OwnersKnown /\ [Next]_vars => OwnersKnown'
  BY OwnersRows, OwnersPages DEF OwnersKnown
<1>3. TypeOK /\ OwnersKnown => CanBeShown
  BY LiveRow, OwnersShown DEF OwnersKnown, CanBeShown
<1> QED  BY <1>1, <1>2, <1>3, TypeCorrect, PTL DEF Spec

-----------------------------------------------------------------------------
(* Whom a change of the flow names                                         *)

LEMMA StepAfterNext ==
  ASSUME NEW F \in Flows, NEW step \in {2, 3, 4}
  PROVE  StepAfter(F, step) \in F \cap {3, 4, 5}
<1>1. F \subseteq 1..8 /\ 5 \in F
  BY FlowsAssumption DEF FlowStep
<1>2. \E f \in F : f > step /\ \A g \in F : g > step => f <= g
  <2>1. CASE step + 1 \in F  BY <1>1, <2>1
  <2>2. CASE step + 1 \notin F /\ step + 2 \in F  BY <1>1, <2>2
  <2>3. CASE step + 1 \notin F /\ step + 2 \notin F  BY <1>1, <2>3
  <2> QED  BY <2>1, <2>2, <2>3
<1>3. /\ StepAfter(F, step) \in F
      /\ StepAfter(F, step) > step
      /\ \A g \in F : g > step => StepAfter(F, step) <= g
  BY <1>2 DEF StepAfter
<1>4. ASSUME NEW n \in 1..8, n > step, n <= 5 PROVE n \in {3, 4, 5}
  BY <1>4
<1>5. StepAfter(F, step) \in 1..8
  BY StepAfterType DEF FlowStep
<1>6. StepAfter(F, step) <= 5
  <2>1. 5 > step
    OBVIOUS
  <2> QED  BY <1>1, <1>3, <2>1
<1> QED  BY <1>3, <1>4, <1>5, <1>6

(* The owner of a duty may always take the bug on to state 3.              *)
LEMMA OwnerGoesOn ==
  ASSUME NEW i, NEW c, NEW F, NEW R, NEW D, NEW s,
         \/ s = 24 /\ "analyse" \in D
         \/ s = 25 /\ "assign" \in D
         \/ s = 10 /\ "dev" \in D
  PROVE  3 \in DutyMenu(s, i, c, F, D).opts /\ 3 \in MyMenu(s, i, c, F, R, D).opts
<1>1. \A redo \in BOOLEAN : 3 \in Do(s, i, c, F, D, redo).opts
  <2>1. CASE s = 24 /\ "analyse" \in D
    BY <2>1, OptsOf DEF Do, DoAnalyse
  <2>2. CASE s = 25 /\ "assign" \in D
    BY <2>2, OptsOf DEF Do, DoAssign
  <2>3. CASE s = 10 /\ "dev" \in D
    BY <2>3, OptsOf DEF Do, DoFix
  <2> QED  BY <2>1, <2>2, <2>3
<1> DEFINE m == Redo(s, i, c, F, R) \oplus Do(s, i, c, F, D, TRUE)
<1>2. 3 \in m.opts /\ m = [opts |-> m.opts, ctl |-> m.ctl]
  BY <1>1, OptsOf DEF \oplus, Offer
<1> HIDE DEF m
<1>3. 3 \in [m EXCEPT !.opts = @ \ {s}].opts
  BY <1>2
<1> QED  BY <1>1, <1>3 DEF DutyMenu, MyMenu, m

(* A member of the team who owns the duty of the next step can act.        *)
LEMMA MovedOwnerActs ==
  ASSUME NEW r, NEW F, NEW u, NEW n \in F \cap {3, 4, 5},
         u \in Actors[n], r.st = WaitingState(n), r.nxt = n, r.own[DutyOf(n)] = u
  PROVE  MenuOf(u, r, F).opts # {}
<1>1. Member(u, F) /\ OwnerFor(r.own, r.nxt) = u /\ DutyOf(n) \in Duty
  BY DEF Member, Roles, OwnerFor, FlowStep, DutyOf, Duty
<1>2. DutyOf(n) \in Duties(u, r, F)
  BY <1>1 DEF Duties, OwnedDuties
<1>3. \/ r.st = 24 /\ "analyse" \in Duties(u, r, F)
      \/ r.st = 25 /\ "assign" \in Duties(u, r, F)
      \/ r.st = 10 /\ "dev" \in Duties(u, r, F)
  BY <1>2 DEF WaitingState, DutyOf
<1>4. 3 \in MenuOf(u, r, F).opts
  BY <1>3, OwnerGoesOn DEF MenuOf
<1> QED  BY <1>4

(* Whichever steps a change of the flow takes out, the person it hands a   *)
(* waiting bug to is in the team of the new flow and is offered a way on;  *)
(* the bugs it sends to the final test are the exception.                  *)
THEOREM MovedBugsGoOn == Spec => MovedBugsCanGoOn
<1>1. ASSUME TypeOK, [Next]_vars
      PROVE  flow' # flow =>
               \A b \in Bugs : bug'[b] # bug[b] /\ bug'[b].nxt # 8 =>
                 MenuOf(bug'[b].next, bug'[b], flow').opts # {}
  <2> SUFFICES ASSUME NEW u \in Users, NEW F \in Flows, UpdateFlow(u, F),
                      NEW b \in Bugs, bug'[b] # bug[b], bug'[b].nxt # 8
               PROVE  MenuOf(bug'[b].next, bug'[b], flow').opts # {}
    BY <1>1 DEF Next, vars, AddInit, Add, BugHand, ChangeStatus, HandSub, ClosePage,
                BatchAssign, BatchAssignExe, Update, Delete, UpdateFlow
  <2> DEFINE step == CHOOSE g \in flow \ F : WaitsIn(g) = bug[b].st
             r    == bug[b]
             a    == Adjusted(u, r, step, F)
             n    == StepAfter(F, step)
             l    == LastNamed(n)
             o    == [r.own EXCEPT ![DutyOf(n)] = l]
  <2>1. flow \ F \subseteq {2, 3, 4, 6}
    BY <1>1, FlowsAssumption DEF TypeOK, FlowStep
  <2>2. r \in Row /\ step \in {2, 3, 4, 6} /\ bug'[b] = a /\ flow' = F
    BY <1>1, <2>1, LiveRow DEF UpdateFlow
  <2> HIDE DEF step, r
  <2>3. step # 6
    <3>1. step = 6 => a.nxt = 8
      BY <2>2 DEF Adjusted, Row
    <3> HIDE DEF a
    <3> QED  BY <2>2, <3>1
  <2>4. n \in F \cap {3, 4, 5}
    BY <2>2, <2>3, StepAfterNext
  <2>5. l \in Actors[n] /\ DutyOf(n) \in Duty
    BY <2>4, ActorsAssumption, DutyOfType DEF LastNamed, FlowStep
  <2>6. a.st = WaitingState(n) /\ a.nxt = n /\ a.own = o /\ a.next = l
    BY <2>2, <2>3 DEF Adjusted, Row
  <2>7. o[DutyOf(n)] = l
    BY <2>2, <2>5 DEF Row, Owners
  <2> HIDE DEF a, n, l, o
  <2> QED  BY <2>2, <2>4, <2>5, <2>6, <2>7, MovedOwnerActs, SMTT(30)
<1> QED  BY <1>1, TypeCorrect, PTL DEF Spec, MovedBugsCanGoOn

=============================================================================
