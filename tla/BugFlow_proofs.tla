--------------------------- MODULE BugFlow_proofs ---------------------------
(***************************************************************************)
(* What the tables of BugFlow return, for every flow, role and state: a    *)
(* list of states of the workflow and a control string whose entries name  *)
(* steps that exist.                                                       *)
(***************************************************************************)
EXTENDS BugFlow, TLAPS

-----------------------------------------------------------------------------
(* The building blocks of menus                                            *)

LEMMA OfferType ==
  ASSUME NEW S \in SUBSET State, NEW q \in Seq(Entry)
  PROVE  Offer(S, q) \in Menu
  BY DEF Offer, Menu

LEMMA NothingType == Nothing \in Menu
  BY DEF Nothing, Offer, Menu

LEMMA ToType ==
  ASSUME NEW S \in SUBSET State, NEW step \in FlowStep
  PROVE  To(S, step) \in Seq(Entry)
  BY DEF To, Entry, FlowStep

LEMMA StayType ==
  ASSUME NEW S \in SUBSET State, NEW step \in 0..8
  PROVE  Stay(S, step) \in Seq(Entry)
  BY DEF Stay, Entry

LEMMA SendType ==
  ASSUME NEW S \in SUBSET State, NEW step \in FlowStep
  PROVE  Send(S, step) \in Menu
  BY ToType, OfferType DEF Send

LEMMA KeepType ==
  ASSUME NEW S \in SUBSET State, NEW step \in 0..8
  PROVE  Keep(S, step) \in Menu
  BY StayType, OfferType DEF Keep

LEMMA JoinType ==
  ASSUME NEW m \in Menu, NEW n \in Menu
  PROVE  m \oplus n \in Menu
  BY DEF \oplus, Offer, Menu

LEMMA ToDevType ==
  ASSUME NEW F
  PROVE  ToDev(F) \in Menu
  BY SendType DEF ToDev, State, FlowStep

LEMMA DispatchType ==
  ASSUME NEW F
  PROVE  Dispatch(F) \in Menu
  BY SendType, ToDevType DEF Dispatch, State, FlowStep

LEMMA ForwardType ==
  ASSUME NEW F
  PROVE  Forward(F) \in Menu
  BY SendType, DispatchType DEF Forward, State, FlowStep

LEMMA RestartType ==
  ASSUME NEW F
  PROVE  Restart(F) \in Menu
  BY SendType, ForwardType DEF Restart, State, FlowStep

LEMMA FixedType ==
  ASSUME NEW F
  PROVE  Fixed(F) \in Menu
  BY SendType DEF Fixed, State, FlowStep

LEMMA EscalateType ==
  ASSUME NEW F, NEW H \in SUBSET State
  PROVE  Escalate(F, H) \in Menu
<1>1. Send({17}, 4) \in Menu /\ Send(H, 7) \in Menu
  BY SendType DEF State, FlowStep
<1>2. Send({17} \cup H, 7) \in Menu
  <2>1. {17} \cup H \in SUBSET State  BY DEF State
  <2> QED  BY <2>1, SendType DEF FlowStep
<1> QED  BY <1>1, <1>2, JoinType DEF Escalate

LEMMA OfferedType ==
  ASSUME NEW S \in SUBSET State
  PROVE  Offer(S, <<>>) \in Menu
  BY DEF Offer, Menu

-----------------------------------------------------------------------------
(* The menu of the last handler, state by state                            *)

LEMMA RedoRewordType ==
  ASSUME NEW F, NEW c
  PROVE  RedoReword(F, c) \in Menu
  BY SendType, KeepType, NothingType, JoinType, ToDevType, ForwardType
     DEF RedoReword, State, FlowStep

LEMMA RedoDuplicateType ==
  ASSUME NEW F, NEW c
  PROVE  RedoDuplicate(F, c) \in Menu
  BY SendType, KeepType, OfferedType, NothingType, JoinType, ToDevType,
     DispatchType, ForwardType, RestartType DEF RedoDuplicate, State, FlowStep

LEMMA RedoInvalidType ==
  ASSUME NEW F, NEW c
  PROVE  RedoInvalid(F, c) \in Menu
  BY SendType, KeepType, NothingType, JoinType, DispatchType,
     ForwardType, RestartType DEF RedoInvalid, State, FlowStep

LEMMA RedoWithdrawnType ==
  ASSUME NEW F, NEW c, NEW i
  PROVE  RedoWithdrawn(F, c, i) \in Menu
  BY SendType, KeepType, OfferedType, NothingType, JoinType, RestartType
     DEF RedoWithdrawn, State, FlowStep

LEMMA RedoNeedInfoType ==
  ASSUME NEW F
  PROVE  RedoNeedInfo(F) \in Menu
  BY KeepType, OfferedType, JoinType, ForwardType DEF RedoNeedInfo, State

LEMMA RedoToFixType ==
  ASSUME NEW F, NEW c, NEW i
  PROVE  RedoToFix(F, c, i) \in Menu
  BY SendType, KeepType, OfferedType, NothingType, JoinType, FixedType,
     EscalateType, SMTT(30) DEF RedoToFix, State, FlowStep

LEMMA RedoUnresolvedType ==
  ASSUME NEW c
  PROVE  RedoUnresolved(c) \in Menu
  BY SendType, KeepType DEF RedoUnresolved, State, FlowStep

LEMMA RedoHeldType ==
  ASSUME NEW F
  PROVE  RedoHeld(F) \in Menu
  BY SendType, KeepType, JoinType, FixedType, EscalateType
     DEF RedoHeld, State, FlowStep

LEMMA RedoDisputeType ==
  RedoDispute \in Menu
  BY KeepType DEF RedoDispute, State

LEMMA RedoFixedType ==
  ASSUME NEW F, NEW c, NEW s
  PROVE  RedoFixed(F, c, s) \in Menu
  BY SendType, JoinType, EscalateType DEF RedoFixed, State, FlowStep

LEMMA RedoClosedType ==
  ASSUME NEW F, NEW s
  PROVE  RedoClosed(F, s) \in Menu
  BY SendType DEF RedoClosed, State, FlowStep

LEMMA RedoNotBugType ==
  ASSUME NEW F, NEW c
  PROVE  RedoNotBug(F, c) \in Menu
  BY SendType, JoinType, FixedType, EscalateType
     DEF RedoNotBug, State, FlowStep

LEMMA RedoReassignType ==
  ASSUME NEW F, NEW R
  PROVE  RedoReassign(F, R) \in Menu
  BY SendType, NothingType, JoinType, ToDevType, FixedType, EscalateType
     DEF RedoReassign, State, FlowStep

LEMMA RedoCrossCheckType ==
  ASSUME NEW F
  PROVE  RedoCrossCheck(F) \in Menu
  BY SendType, JoinType, EscalateType DEF RedoCrossCheck, State, FlowStep

LEMMA RedoHoldType ==
  ASSUME NEW F, NEW s
  PROVE  RedoHold(F, s) \in Menu
  BY SendType, OfferedType, NothingType, JoinType, FixedType,
     EscalateType DEF RedoHold, State, FlowStep

LEMMA RedoNextVersionType ==
  RedoNextVersion \in Menu
  BY OfferedType DEF RedoNextVersion, State

LEMMA RedoCloseWithdrawnType ==
  ASSUME NEW F, NEW i
  PROVE  RedoCloseWithdrawn(F, i) \in Menu
  BY SendType, KeepType, NothingType, JoinType, ToDevType
     DEF RedoCloseWithdrawn, State, FlowStep

LEMMA RedoCloseLeftType ==
  ASSUME NEW i
  PROVE  RedoCloseLeft(i) \in Menu
  BY SendType, OfferedType, JoinType DEF RedoCloseLeft, State, FlowStep

LEMMA RedoAnalyseType ==
  ASSUME NEW F, NEW c
  PROVE  RedoAnalyse(F, c) \in Menu
  BY KeepType, OfferedType, NothingType, JoinType, DispatchType
     DEF RedoAnalyse, State

LEMMA RedoAssignType ==
  ASSUME NEW c
  PROVE  RedoAssign(c) \in Menu
  BY SendType, OfferedType, NothingType DEF RedoAssign, State, FlowStep

-----------------------------------------------------------------------------
(* The menu of the owners of a bug, state by state                         *)

LEMMA SendOnType ==
  ASSUME NEW F
  PROVE  SendOn(F) \in Menu
  BY SendType, OfferedType DEF SendOn, State, FlowStep

LEMMA DoConfirmType ==
  ASSUME NEW F
  PROVE  DoConfirm(F) \in Menu
  BY SendType, JoinType, ForwardType DEF DoConfirm, State, FlowStep

LEMMA DoDuplicateType ==
  ASSUME NEW F, NEW c
  PROVE  DoDuplicate(F, c) \in Menu
  BY SendType, KeepType, NothingType, JoinType, ToDevType
     DEF DoDuplicate, State, FlowStep

LEMMA DoSentBackType ==
  ASSUME NEW F, NEW s \in {2, 4, 6}
  PROVE  DoSentBack(F, s) \in Menu
<1>1. Offer({}, To({1}, 2)) \in Menu
  BY OfferType, ToType DEF State, FlowStep
<1>2. Keep({4, 5}, 1) \in Menu /\ Keep({5}, 0) \in Menu /\ Keep({5, 15}, 0) \in Menu
  BY KeepType DEF State
<1> QED  BY <1>1, <1>2, SendOnType, JoinType DEF DoSentBack

LEMMA DoFixType ==
  ASSUME NEW F, NEW i, NEW redo
  PROVE  DoFix(F, i, redo) \in Menu
  BY SendType, NothingType, JoinType, FixedType, EscalateType
     DEF DoFix, State, FlowStep

LEMMA DoUnresolvedType ==
  ASSUME NEW F
  PROVE  DoUnresolved(F) \in Menu
  BY SendType, JoinType, FixedType, EscalateType
     DEF DoUnresolved, State, FlowStep

LEMMA DoHeldType ==
  ASSUME NEW F
  PROVE  DoHeld(F) \in Menu
  BY KeepType, JoinType, ToDevType DEF DoHeld, State

LEMMA DoDisputeType ==
  DoDispute \in Menu
  BY SendType, KeepType, JoinType DEF DoDispute, State, FlowStep

LEMMA DoVerifyType ==
  DoVerify \in Menu
  BY SendType, KeepType, JoinType DEF DoVerify, State, FlowStep

LEMMA DoNotBugType ==
  DoNotBug \in Menu
  BY SendType, KeepType, JoinType DEF DoNotBug, State, FlowStep

LEMMA DoReassignType ==
  DoReassign \in Menu
  BY SendType DEF DoReassign, State, FlowStep

LEMMA DoCrossCheckType ==
  DoCrossCheck \in Menu
  BY SendType, JoinType DEF DoCrossCheck, State, FlowStep

LEMMA DoNotPlannedType ==
  DoNotPlanned \in Menu
  BY SendType, KeepType, JoinType DEF DoNotPlanned, State, FlowStep

LEMMA DoNextVersionType ==
  DoNextVersion \in Menu
  BY SendType DEF DoNextVersion, State, FlowStep

LEMMA DoAnalyseType ==
  ASSUME NEW F, NEW redo
  PROVE  DoAnalyse(F, redo) \in Menu
  BY KeepType, OfferedType, JoinType, DispatchType DEF DoAnalyse, State

LEMMA DoAssignType ==
  ASSUME NEW F
  PROVE  DoAssign(F) \in Menu
  BY KeepType, JoinType, ToDevType DEF DoAssign, State

-----------------------------------------------------------------------------
(* The whole tables                                                        *)

LEMMA RedoType ==
  ASSUME NEW s \in State, NEW i, NEW c, NEW F, NEW R
  PROVE  Redo(s, i, c, F, R) \in Menu
BY RedoRewordType, RedoDuplicateType, RedoInvalidType, RedoWithdrawnType,
   RedoNeedInfoType, RedoToFixType, RedoUnresolvedType, RedoHeldType,
   RedoDisputeType, RedoFixedType, RedoClosedType, RedoNotBugType,
   RedoReassignType, RedoCrossCheckType, RedoHoldType, RedoNextVersionType,
   RedoCloseWithdrawnType, RedoCloseLeftType, RedoAnalyseType, RedoAssignType
   DEF Redo, State

LEMMA DoType ==
  ASSUME NEW s \in State, NEW i, NEW c, NEW F, NEW D, NEW redo
  PROVE  Do(s, i, c, F, D, redo) \in Menu
BY DoConfirmType, DoSentBackType, DoDuplicateType, DoFixType, DoUnresolvedType,
   DoHeldType, DoDisputeType, DoVerifyType, DoNotBugType, DoReassignType,
   DoCrossCheckType, DoNotPlannedType, DoNextVersionType, DoAnalyseType,
   DoAssignType, NothingType
   DEF Do, State

LEMMA MyMenuType ==
  ASSUME NEW s \in State, NEW i, NEW c, NEW F, NEW R, NEW D
  PROVE  MyMenu(s, i, c, F, R, D) \in Menu
<1> DEFINE m == Redo(s, i, c, F, R) \oplus Do(s, i, c, F, D, TRUE)
<1>1. m \in Menu
  BY RedoType, DoType, JoinType
<1> QED  BY <1>1 DEF MyMenu, Menu

LEMMA DutyMenuType ==
  ASSUME NEW s \in State, NEW i, NEW c, NEW F, NEW D
  PROVE  DutyMenu(s, i, c, F, D) \in Menu
  BY DoType DEF DutyMenu

(* What the page looks up in a control string is one of its entries.       *)
LEMMA EntriesForType ==
  ASSUME NEW m \in Menu, NEW s
  PROVE  EntriesFor(m, s) \subseteq Entry
  BY DEF EntriesFor, Menu

LEMMA DutyOfType ==
  ASSUME NEW step \in FlowStep
  PROVE  DutyOf(step) \in Duty
  BY DEF DutyOf, Duty, FlowStep

-----------------------------------------------------------------------------
(* The state a bug is in is never among those its handler can pick         *)

LEMMA OptsOf ==
  /\ \A S, step : Send(S, step).opts = S /\ Keep(S, step).opts = S
  /\ \A S, q : Offer(S, q).opts = S
  /\ \A m, n : (m \oplus n).opts = m.opts \cup n.opts
  /\ Nothing.opts = {}
  BY DEF Send, Keep, Offer, Nothing, \oplus

LEMMA MyMenuChanges ==
  ASSUME NEW s, NEW i, NEW c, NEW F, NEW R, NEW D
  PROVE  s \notin MyMenu(s, i, c, F, R, D).opts
<1> DEFINE m == Redo(s, i, c, F, R) \oplus Do(s, i, c, F, D, TRUE)
<1>1. m = [opts |-> m.opts, ctl |-> m.ctl]
  BY DEF \oplus, Offer
<1> QED  BY <1>1 DEF MyMenu

LEMMA DevOpts ==
  ASSUME NEW F
  PROVE  /\ ToDev(F).opts \subseteq {7, 8, 10}
         /\ Dispatch(F).opts \subseteq {7, 8, 10, 25}
         /\ Forward(F).opts \subseteq {7, 8, 10, 24, 25}
         /\ Fixed(F).opts \subseteq {13, 18, 26}
         /\ Escalate(F, {}).opts \subseteq {17}
         /\ Escalate(F, {19, 20}).opts \subseteq {17, 19, 20}
         /\ SendOn(F).opts \subseteq {1, 7, 8, 24, 25}
  BY OptsOf DEF ToDev, Dispatch, Forward, Fixed, Escalate, SendOn

LEMMA DoChanges ==
  ASSUME NEW s \in State, NEW i, NEW c, NEW F, NEW D, NEW redo
  PROVE  s \notin Do(s, i, c, F, D, redo).opts
<1>1. CASE s \in {1, 3}
  BY <1>1, OptsOf, DevOpts DEF Do, DoConfirm, DoDuplicate
<1>2. CASE s \in {2, 4, 6}
  BY <1>2, OptsOf, DevOpts DEF Do, DoSentBack
<1>3. CASE s \in {7, 8, 10}
  BY <1>3, OptsOf, DevOpts DEF Do, DoFix
<1>4. CASE s \in {9, 11}
  BY <1>4, OptsOf, DevOpts DEF Do, DoUnresolved, DoHeld
<1>5. CASE s \in {12, 13, 16, 17, 18, 19, 20, 26}
  BY <1>5, OptsOf
     DEF Do, DoDispute, DoVerify, DoNotBug, DoReassign, DoCrossCheck,
         DoNotPlanned, DoNextVersion
<1>6. CASE s \in {24, 25}
  <2>1. 25 \notin DoAssign(F).opts
    BY OptsOf, DevOpts DEF DoAssign
  <2>2. 24 \notin DoAnalyse(F, redo).opts
    <3>1. 24 \notin Dispatch(F).opts
      BY DevOpts
    <3> QED  BY <3>1, OptsOf DEF DoAnalyse
  <2>3. CASE s = 24
    BY <2>2, <2>3, OptsOf DEF Do
  <2>4. CASE s = 25
    BY <2>1, <2>4, OptsOf DEF Do
  <2> QED  BY <1>6, <2>3, <2>4
<1>7. CASE s \in {5, 14, 15, 21, 22, 23}
  BY <1>7, OptsOf DEF Do
<1> QED  BY <1>1, <1>2, <1>3, <1>4, <1>5, <1>6, <1>7 DEF State

LEMMA DutyMenuChanges ==
  ASSUME NEW s \in State, NEW i, NEW c, NEW F, NEW D
  PROVE  s \notin DutyMenu(s, i, c, F, D).opts
  BY DoChanges DEF DutyMenu

=============================================================================
