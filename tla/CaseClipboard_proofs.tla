------------------------- MODULE CaseClipboard_proofs -------------------------
(***************************************************************************)
(* What pasting cases keeps, for every number of users, cases and          *)
(* versions, and whatever the clipboard holds: the three transactions of a *)
(* paste are taken between the steps of others.                            *)
(***************************************************************************)
EXTENDS CaseClipboard, TestCases_proofs

-----------------------------------------------------------------------------
(* The invariant *)

PasteTypes == paste \in [Users -> {NoPaste} \cup PasteRequest]

(* What a cut may remove has no result of the one who cuts it. *)
PasteOK(u) == Pasting(u, {"move"}) => \A c \in paste[u].drop : NoneBy(u, c)

ClipInv ==
  /\ CaseInv
  /\ PasteTypes
  /\ \A u \in Users : PasteOK(u)
-----------------------------------------------------------------------------
(* The kind of a paste tells whether it is a request. *)
LEMMA PasteKinds ==
  ASSUME PasteTypes, NEW u \in Users
  PROVE  /\ Pasting(u, {"none"}) <=> paste[u] = NoPaste
         /\ Pasting(u, {"copy", "move"}) => paste[u] \in PasteRequest
         /\ Pasting(u, {"move"}) => paste[u] \in PasteRequest
         /\ Pasting(u, {"cut"}) => paste[u] \in PasteRequest
<1>1. paste[u] = NoPaste \/ paste[u] \in PasteRequest
  BY DEF PasteTypes
<1>2. CASE paste[u] = NoPaste
  BY <1>2 DEF Pasting, NoPaste, PasteRequest
<1>3. CASE paste[u] \in PasteRequest
  <2>1. paste[u].kind \in {"copy", "cut", "move"}
    BY <1>3 DEF PasteRequest
  <2> QED  BY <1>3, <2>1 DEF Pasting, NoPaste
<1> QED  BY <1>1, <1>2, <1>3

LEMMA RequestFields ==
  ASSUME NEW r \in PasteRequest
  PROVE  /\ r.drop \in SUBSET Cases
         /\ \E S \in SUBSET Cases : r.took \in [S -> Cases]
  BY DEF PasteRequest

(* A step of one user takes nothing from what others may remove.           *)
LEMMA OtherPastes ==
  ASSUME PasteTypes, NEW u \in Users, Grows(u),
         NEW w \in Users, w # u, paste'[w] = paste[w], PasteOK(w)
  PROVE  PasteOK(w)'
<1> SUFFICES ASSUME Pasting(w, {"move"}), NEW c \in paste[w].drop
             PROVE  NoneBy(w, c)'
  BY DEF PasteOK, Pasting
<1>1. c \in Cases
  BY PasteKinds, RequestFields
<1>2. NoneBy(w, c)
  BY DEF PasteOK
<1> QED  BY <1>1, <1>2, NoneStays

(* The cases are left alone, and one user's paste goes on. *)
LEMMA PasteStep ==
  ASSUME ClipInv, UNCHANGED vars, NEW u \in Users, NEW r \in {NoPaste} \cup PasteRequest,
         paste' = [paste EXCEPT ![u] = r],
         r.kind = "move" => \A c \in r.drop : NoneBy(u, c)
  PROVE  ClipInv'
<1>1. CaseInv' /\ Grows(u)
  BY CaseStutter DEF ClipInv
<1>2. PasteTypes' /\ paste'[u] = r /\ \A w \in Users \ {u} : paste'[w] = paste[w]
  BY DEF ClipInv, PasteTypes
<1>3. PasteOK(u)'
  BY <1>2 DEF PasteOK, Pasting, NoneBy, Rows, vars
<1>4. ASSUME NEW w \in Users PROVE PasteOK(w)'
  <2>1. CASE w = u  BY <1>3, <2>1
  <2>2. CASE w # u  BY <1>1, <1>2, <2>2, OtherPastes DEF ClipInv
  <2> QED  BY <2>1, <2>2
<1> QED  BY <1>1, <1>2, <1>4 DEF ClipInv

LEMMA PasteInv ==
  ASSUME ClipInv, NEW u \in Users, Paste(u)
  PROVE  ClipInv'
<1>1. TypeOK /\ PasteTypes
  BY DEF ClipInv, CaseInv
<1>2. PICK S \in SUBSET Cases : S = NumbersIn(clip[u].ids) \cap Cases
  OBVIOUS
<1>3. CASE Found(S) = {}
  <2>1. paste' = paste /\ UNCHANGED vars
    BY <1>2, <1>3 DEF Paste
  <2>2. paste' = [paste EXCEPT ![u] = paste[u]]
    BY <1>1, <2>1 DEF PasteTypes
  <2>3. paste[u] \in {NoPaste} \cup PasteRequest /\ paste[u].kind # "move"
    BY <1>1 DEF Paste, Pasting, PasteTypes
  <2> QED  BY <2>1, <2>2, <2>3, PasteStep
<1>4. CASE Found(S) # {}
  <2>1. \A c \in Found(S) : c \in Cases /\ row[c].text \in Cases
    <3> TAKE c \in Found(S)
    <3>1. c \in Cases /\ row[c] \in Row /\ row[c].st \in Status
      BY <1>1 DEF Found, Listed, TypeOK
    <3>2. row[c] # Unused /\ row[c] # Gone
      BY <3>1 DEF Status, Unused, Gone
    <3> QED  BY <3>1, <3>2 DEF Row
  <2>2. PICK T \in SUBSET Cases : T = Found(S)
    BY <2>1
  <2>3. PICK took \in UNION {[A -> Cases] : A \in SUBSET Cases} :
          took = [c \in Found(S) |-> row[c].text]
    <3>1. [c \in Found(S) |-> row[c].text] \in [T -> Cases]
      BY <2>1, <2>2
    <3> QED  BY <3>1
  <2>4. PICK kind \in {"copy", "cut"} : kind = IF clip[u].cut THEN "cut" ELSE "copy"
    OBVIOUS
  <2>5. PICK r \in PasteRequest : r = [kind |-> kind, took |-> took, drop |-> S]
    BY DEF PasteRequest
  <2>6. paste' = [paste EXCEPT ![u] = r] /\ UNCHANGED vars
    BY <1>2, <1>4, <2>3, <2>4, <2>5 DEF Paste
  <2>7. r.kind # "move"
    BY <2>4, <2>5
  <2> QED  BY <2>6, <2>7, PasteStep
<1> QED  BY <1>3, <1>4

LEMMA CheckCutInv ==
  ASSUME ClipInv, NEW u \in Users, CheckCut(u)
  PROVE  ClipInv'
<1>1. PICK p \in PasteRequest : paste[u] = p
  BY PasteKinds DEF ClipInv, CheckCut
<1>2. PICK D \in SUBSET Cases : D = {c \in p.drop : CanDel(c)}
  BY RequestFields
<1>3. PICK r \in PasteRequest : r = [p EXCEPT !.kind = "move", !.drop = D]
  BY DEF PasteRequest
<1>4. r.drop = D
  BY <1>3 DEF PasteRequest
<1>5. \A c \in D : NoneBy(u, c)
  BY <1>2 DEF CanDel, Executed, NoneBy
<1>6. paste' = [paste EXCEPT ![u] =
                  [paste[u] EXCEPT !.kind = "move", !.drop = {c \in paste[u].drop : CanDel(c)}]]
  BY DEF CheckCut, ClipInv, PasteTypes
<1>7. paste' = [paste EXCEPT ![u] = r]
  BY <1>1, <1>2, <1>3, <1>6
<1> QED  BY <1>4, <1>5, <1>7, PasteStep DEF CheckCut
-----------------------------------------------------------------------------
(* The copies *)

(* What the last transaction makes of a row: a case that was never used    *)
(* may become a copy, and only what may be dropped is gone.                *)
LEMMA PastedRow ==
  ASSUME TypeOK, PasteTypes, NEW u \in Users, FinishPaste(u)
  PROVE  /\ row' \in [Cases -> Row]
         /\ \A c \in Cases : Used(c) => row'[c] \in {row[c], Gone}
         /\ \A c \in Cases : row'[c].st \in 2..5 => row'[c] = row[c]
         /\ \A c \in Cases : Listed(c) /\ row'[c] = Gone =>
              Pasting(u, {"move"}) /\ c \in paste[u].drop
<1>1. PICK p \in PasteRequest : paste[u] = p
  BY PasteKinds DEF FinishPaste
<1>2. PICK S \in SUBSET Cases : p.took \in [S -> Cases]
  BY RequestFields
<1>3. PICK new \in [S -> Fresh] :
        row' = Without(IF Pasting(u, {"move"}) THEN p.drop ELSE {}, WithCopies(p.took, new))
  BY <1>1, <1>2 DEF FinishPaste, Placements
<1> DEFINE copies == WithCopies(p.took, new)
           drop == IF Pasting(u, {"move"}) THEN p.drop ELSE {}
<1>4. ASSUME NEW d \in Cases
      PROVE  \/ copies[d] = row[d]
             \/ row[d] = Unused /\ copies[d] \in Row /\ copies[d].st \in {0, 1}
  <2>1. CASE \E c \in S : new[c] = d
    <3>1. PICK c \in S : c = CHOOSE e \in S : new[e] = d
      BY <2>1
    <3>2. copies[d] = NewRow(p.took[c])
      BY <1>2, <2>1, <3>1 DEF WithCopies
    <3>3. row[d] = Unused
      BY <2>1 DEF Fresh
    <3>4. p.took[c] \in Cases
      BY <1>2
    <3> QED  BY <3>2, <3>3, <3>4 DEF NewRow, FirstStatus, Row, Status
  <2>2. CASE ~ \E c \in S : new[c] = d
    BY <1>2, <2>2 DEF WithCopies
  <2> QED  BY <2>1, <2>2
<1>5. row' = [c \in Cases |-> IF c \in drop /\ copies[c].st \in Status THEN Gone ELSE copies[c]]
  BY <1>3 DEF Without
<1>6. \A c \in Cases : \/ row'[c] = Gone /\ c \in drop
                       \/ row'[c] = copies[c]
  BY <1>5
<1> HIDE DEF copies, drop
<1>7. Gone # Unused /\ Unused.st \notin 0..6 /\ Gone.st \notin 0..6 /\ Gone \in Row
  BY DEF Gone, Unused, Row
<1>8. \A c \in Cases : row[c] \in Row
  BY DEF TypeOK
<1>9. \A c \in Cases : row'[c] \in Row
  BY <1>4, <1>6, <1>7, <1>8
<1>10. row' \in [Cases -> Row]
  BY <1>5, <1>9
<1>11. \A c \in Cases : Used(c) => row'[c] \in {row[c], Gone}
  BY <1>4, <1>6 DEF Used
<1>12. \A c \in Cases : row'[c].st \in 2..5 => row'[c] = row[c]
  <2> TAKE c \in Cases
  <2>1. CASE row'[c] = Gone
    BY <1>7, <2>1
  <2>2. CASE row'[c] = copies[c]
    BY <1>4, <2>2
  <2> QED  BY <1>6, <2>1, <2>2
<1>13. ASSUME NEW c \in Cases, Listed(c), row'[c] = Gone
       PROVE  Pasting(u, {"move"}) /\ c \in paste[u].drop
  <2>1. row[c] # Unused /\ row[c] # Gone
    BY <1>7, <1>13 DEF Listed, Status
  <2>2. copies[c] # Gone
    BY <1>4, <2>1
  <2>3. c \in drop
    BY <1>6, <1>13, <2>2
  <2> QED  BY <1>1, <2>3 DEF drop
<1> QED  BY <1>10, <1>11, <1>12, <1>13

LEMMA FinishPasteInv ==
  ASSUME ClipInv, NEW u \in Users, FinishPaste(u)
  PROVE  ClipInv'
<1>1. TypeOK /\ PasteTypes /\ PageOK(u)
  BY DEF ClipInv, CaseInv
<1>2. /\ row' \in [Cases -> Row]
      /\ \A c \in Cases : Used(c) => row'[c] \in {row[c], Gone}
      /\ \A c \in Cases : row'[c].st \in 2..5 => row'[c] = row[c]
  BY <1>1, PastedRow
<1>3. UNCHANGED <<rests, newest, pack, page>>
  BY DEF FinishPaste
<1>4. TypeOK'
  BY <1>1, <1>2, <1>3 DEF TypeOK
<1>5. \A c \in Cases : Used(c) => Used(c)'
  BY <1>2 DEF Used, Gone, Unused
<1>6. PageOK(u)'
  BY <1>1, <1>3, <1>5, SamePage
<1>7. CaseInv' /\ Grows(u)
  BY <1>2, <1>3, <1>4, <1>5, <1>6, NoResultWritten DEF ClipInv
<1>8. /\ PasteTypes' /\ paste'[u] = NoPaste
      /\ \A w \in Users \ {u} : paste'[w] = paste[w]
  BY <1>1 DEF FinishPaste, PasteTypes
<1>9. ASSUME NEW w \in Users PROVE PasteOK(w)'
  <2>1. CASE w = u
    BY <1>8, <2>1 DEF PasteOK, Pasting, NoPaste
  <2>2. CASE w # u
    BY <1>1, <1>7, <1>8, <2>2, OtherPastes DEF ClipInv
  <2> QED  BY <2>1, <2>2
<1> QED  BY <1>7, <1>8, <1>9 DEF ClipInv
-----------------------------------------------------------------------------
LEMMA CaseStepClip ==
  ASSUME ClipInv, NEW u \in Users, Pasting(u, {"none"}), CaseStep(u), UNCHANGED clipVars
  PROVE  ClipInv'
<1>1. CaseInv' /\ Grows(u)
  BY CaseStepInv DEF ClipInv
<1>2. PasteTypes /\ PasteTypes' /\ paste' = paste
  BY DEF ClipInv, PasteTypes, clipVars
<1>3. ASSUME NEW w \in Users PROVE PasteOK(w)'
  <2>1. CASE w = u
    BY <1>2, <2>1 DEF PasteOK, Pasting
  <2>2. CASE w # u
    BY <1>1, <1>2, <2>2, OtherPastes DEF ClipInv
  <2> QED  BY <2>1, <2>2
<1> QED  BY <1>1, <1>2, <1>3 DEF ClipInv

LEMMA ClipSame ==
  ASSUME ClipInv, UNCHANGED <<vars, paste>>
  PROVE  ClipInv'
<1>1. CaseInv'
  BY CaseStutter DEF ClipInv
<1>2. \A u \in Users : PasteOK(u)'
  BY DEF ClipInv, PasteOK, Pasting, NoneBy, Rows, vars
<1> QED  BY <1>1, <1>2 DEF ClipInv, PasteTypes

LEMMA ClipInitInv == ClipInit => ClipInv
<1> SUFFICES ASSUME ClipInit PROVE ClipInv
  OBVIOUS
<1>1. CaseInv
  BY CaseInit DEF ClipInit
<1>2. PasteTypes /\ \A u \in Users : PasteOK(u)
  BY DEF ClipInit, PasteTypes, PasteOK, Pasting, NoPaste
<1> QED  BY <1>1, <1>2 DEF ClipInv

LEMMA ClipNextInv == ClipInv /\ [ClipNext]_allVars => ClipInv'
<1> SUFFICES ASSUME ClipInv, [ClipNext]_allVars PROVE ClipInv'
  OBVIOUS
<1>1. CASE UNCHANGED allVars
  BY <1>1, ClipSame DEF allVars, clipVars
<1>2. ASSUME NEW u \in Users, Pasting(u, {"none"}), CaseStep(u), UNCHANGED clipVars
      PROVE  ClipInv'
  BY <1>2, CaseStepClip
<1>3. ASSUME NEW u \in Users, NEW sel \in Selections, NEW cut \in BOOLEAN,
             TakeCases(u, sel, cut)
      PROVE  ClipInv'
  BY <1>3, ClipSame DEF TakeCases
<1>4. ASSUME NEW u \in Users, Paste(u) \/ CheckCut(u) \/ FinishPaste(u) PROVE ClipInv'
  BY <1>4, PasteInv, CheckCutInv, FinishPasteInv
<1> QED  BY <1>1, <1>2, <1>3, <1>4 DEF ClipNext

(* Between the question for results and the last transaction of a paste,   *)
(* only results of other users arrive.                                     *)
THEOREM ClipInvAlways == ClipSpec => []ClipInv
  BY ClipInitInv, ClipNextInv, PTL DEF ClipSpec
-----------------------------------------------------------------------------
(* The clipboard *)

ClipTypes == clip \in [Users -> [ids : Seq(Nat), cut : BOOLEAN]]

CutTypes == cutOut \in [Users -> SUBSET Cases]

(* A selection is a short sequence of cases. *)
LEMMA SelectedCases ==
  ASSUME NEW sel \in Selections
  PROVE  sel \in Seq(Nat) /\ sel # <<>> /\ NumbersIn(sel) \subseteq Cases
<1>1. \A c \in Cases : c \in Nat
  BY CasesAssumption
<1>2. ASSUME NEW c \in Cases, sel = <<c>>
      PROVE  sel \in Seq(Nat) /\ sel # <<>> /\ NumbersIn(sel) \subseteq Cases
  BY <1>1, <1>2 DEF NumbersIn
<1>3. ASSUME NEW c \in Cases, NEW d \in Cases, sel = <<c, d>>
      PROVE  sel \in Seq(Nat) /\ sel # <<>> /\ NumbersIn(sel) \subseteq Cases
  <2>1. \A k \in DOMAIN sel : sel[k] \in {c, d}
    BY <1>3
  <2> QED  BY <1>1, <1>3, <2>1 DEF NumbersIn
<1> QED  BY <1>2, <1>3 DEF Selections

(* Numbers of at most three digits. *)
ShortNumber == 1..999

(* Two numbers that meet in the string make one. *)
LEMMA GluedNumber ==
  \A a \in Nat, b \in ShortNumber : Glue(a, b) \in Nat
<1> SUFFICES ASSUME NEW a \in Nat, NEW b \in ShortNumber
             PROVE  Glue(a, b) \in Nat
  OBVIOUS
<1>0. b \in Nat /\ 1 <= b /\ b <= 999
  BY DEF ShortNumber
<1>1. \E p \in {10, 100, 1000} : b < p /\ p <= 10 * b
  <2>1. CASE b < 10        BY <1>0, <2>1
  <2>2. CASE b \in 10..99  BY <2>2
  <2>3. CASE b \in 100..999  BY <2>3
  <2> QED  BY <1>0, <2>1, <2>2, <2>3
<1>2. PICK q \in {10, 100, 1000} :
        q = CHOOSE p \in {10, 100, 1000} : b < p /\ p <= 10 * b
  BY <1>1
<1>3. Glue(a, b) = a * q + b
  BY <1>2 DEF Glue
<1>4. CASE q = 10
  BY <1>0, <1>3, <1>4
<1>5. CASE q = 100
  BY <1>0, <1>3, <1>5
<1>6. CASE q = 1000
  BY <1>0, <1>3, <1>6
<1> QED  BY <1>2, <1>4, <1>5, <1>6

LEMMA JoinedNumbers ==
  ASSUME NEW ids \in Seq(Nat), NEW sel \in Seq(Nat), sel # <<>>,
         sel[1] \in ShortNumber
  PROVE  Join(ids, sel) \in Seq(Nat)
<1>1. CASE ids = <<>>  BY <1>1 DEF Join
<1>2. CASE ids # <<>>
  <2>1. Len(ids) \in Nat /\ Len(ids) > 0 /\ ids[Len(ids)] \in Nat
    BY <1>2
  <2>2. [k \in 1..Len(ids) - 1 |-> ids[k]] \in Seq(Nat)
    <3>1. \A k \in 1..Len(ids) - 1 : ids[k] \in Nat
      BY <2>1
    <3>2. Len(ids) - 1 \in Nat
      BY <2>1
    <3> QED  BY <3>1, <3>2
  <2>3. <<Glue(ids[Len(ids)], sel[1])>> \in Seq(Nat)
    <3>1. PICK a \in Nat : a = ids[Len(ids)]
      BY <2>1
    <3>2. PICK b \in ShortNumber : b = sel[1]
      OBVIOUS
    <3>3. Glue(a, b) \in Nat
      BY GluedNumber
    <3> QED  BY <3>1, <3>2, <3>3
  <2>4. Tail(sel) \in Seq(Nat)
    OBVIOUS
  <2> QED  BY <1>2, <2>2, <2>3, <2>4, SMTT(30) DEF Join
<1> QED  BY <1>1, <1>2

LEMMA TakeCasesTypes ==
  ASSUME ClipTypes, CutTypes, NEW u \in Users, NEW sel \in Selections,
         NEW cut \in BOOLEAN, TakeCases(u, sel, cut)
  PROVE  ClipTypes' /\ CutTypes'
<1>1. PICK r \in [ids : Seq(Nat), cut : BOOLEAN] : clip[u] = r
  BY DEF ClipTypes
<1>2. r.ids \in Seq(Nat) /\ clip[u].ids = r.ids
  BY <1>1
<1>3. sel \in Seq(Nat) /\ sel # <<>> /\ NumbersIn(sel) \subseteq Cases
  BY SelectedCases
<1>4. sel[1] \in ShortNumber
  <2>1. 1 \in DOMAIN sel
    BY <1>3
  <2>2. sel[1] \in NumbersIn(sel)
    BY <2>1 DEF NumbersIn
  <2>3. sel[1] <= MaxNumber
    BY <2>2 DEF TakeCases
  <2>4. sel[1] \in Nat /\ sel[1] # 0
    BY <1>3, <2>2, CasesAssumption
  <2>5. PICK n \in Nat : n = sel[1]
    BY <2>4
  <2>6. n <= MaxNumber /\ n # 0
    BY <2>3, <2>4, <2>5
  <2>7. n \in ShortNumber
    BY <2>6, ClipAssumption DEF ShortNumber
  <2> QED  BY <2>5, <2>7
<1>5. Join(clip[u].ids, sel) \in Seq(Nat)
  BY <1>2, <1>3, <1>4, JoinedNumbers
<1>6. ClipTypes'
  BY <1>5 DEF TakeCases, ClipTypes
<1>7. CutTypes'
  BY <1>3 DEF TakeCases, CutTypes
<1> QED  BY <1>6, <1>7

LEMMA ClearClipTypes ==
  ASSUME ClipTypes, CutTypes, NEW u \in Users, ClearClip(u)
  PROVE  ClipTypes' /\ CutTypes'
<1>1. EmptyClip \in [ids : Seq(Nat), cut : BOOLEAN]
  BY DEF EmptyClip
<1>2. {} \in SUBSET Cases
  OBVIOUS
<1> QED  BY <1>1, <1>2 DEF ClearClip, ClipTypes, CutTypes

LEMMA ClipTypesNext == ClipTypes /\ CutTypes /\ [ClipNext]_allVars => ClipTypes' /\ CutTypes'
<1> SUFFICES ASSUME ClipTypes, CutTypes, [ClipNext]_allVars
             PROVE  ClipTypes' /\ CutTypes'
  OBVIOUS
<1>1. CASE UNCHANGED <<clip, cutOut>>
  BY <1>1 DEF ClipTypes, CutTypes
<1>2. ASSUME NEW u \in Users, NEW sel \in Selections, NEW cut \in BOOLEAN,
             TakeCases(u, sel, cut)
      PROVE  ClipTypes' /\ CutTypes'
  BY <1>2, TakeCasesTypes
<1>3. ASSUME NEW u \in Users, ClearClip(u) PROVE ClipTypes' /\ CutTypes'
  BY <1>3, ClearClipTypes
<1>4. \A u \in Users : Paste(u) => UNCHANGED <<clip, cutOut>> \/ ClearClip(u)
  BY DEF Paste
<1>5. \A u \in Users : CheckCut(u) => UNCHANGED <<clip, cutOut>>
  BY DEF CheckCut
<1>6. \A u \in Users : FinishPaste(u) => ClearClip(u)
  BY DEF FinishPaste
<1> QED  BY <1>1, <1>2, <1>3, <1>4, <1>5, <1>6 DEF ClipNext, allVars, clipVars

(* The clipboard holds numbers, glued ones too; what is pasted and what    *)
(* was cut are cases.                                                      *)
THEOREM ClipTypeCorrect == ClipSpec => []ClipTypeOK
<1>1. ClipInit => ClipTypes /\ CutTypes
  <2>1. EmptyClip \in [ids : Seq(Nat), cut : BOOLEAN]
    BY DEF EmptyClip
  <2> QED  BY <2>1 DEF ClipInit, ClipTypes, CutTypes
<1>2. ClipSpec => [](ClipTypes /\ CutTypes)
  BY <1>1, ClipTypesNext, PTL DEF ClipSpec
<1>3. ClipInv /\ ClipTypes /\ CutTypes => ClipTypeOK
  BY DEF ClipInv, CaseInv, PasteTypes, ClipTypes, CutTypes, ClipTypeOK
<1> QED  BY <1>2, <1>3, ClipInvAlways, PTL
-----------------------------------------------------------------------------
(* A copy starts without a verdict, whatever its original shows, and the   *)
(* others keep the results behind theirs.                                  *)
THEOREM CopiesShowNoVerdict == ClipSpec => []ResultBehindStatus
<1>1. ClipInv => ResultBehindStatus
  BY DEF ClipInv, CaseInv
<1> QED  BY <1>1, ClipInvAlways, PTL

(* setCanDelCaseId asks for results in a transaction of its own; still, a  *)
(* result that the user who cuts wrote himself is seen by it.              *)
THEOREM OwnResultsNotCut == ClipSpec => NobodyCutsOwnResult
<1>1. ASSUME ClipInv, [ClipNext]_allVars, NEW u \in Users, NEW c \in Cases,
             Pasting(u, {"move"}), paste'[u] = NoPaste, Listed(c), row'[c] = Gone
      PROVE  \A v \in Versions : \A i \in Rows(c, v) : rests[c][v][i].by # u
  <2>1. PasteTypes /\ TypeOK /\ paste[u].kind = "move" /\ paste[u] # NoPaste
    BY <1>1 DEF ClipInv, CaseInv, Pasting, NoPaste
  <2>2. PICK w \in Users : \/ UNCHANGED paste
                           \/ Pasting(w, {"none"}) /\ Paste(w)
                           \/ Pasting(w, {"cut"}) /\ CheckCut(w)
                           \/ FinishPaste(w)
    BY <1>1 DEF ClipNext, allVars, clipVars, TakeCases, Paste, CheckCut
  <2>3. w = u
    <3>1. \A x \in Users : \A r : x # u => [paste EXCEPT ![x] = r][u] = paste[u]
      BY <2>1 DEF PasteTypes
    <3>2. \/ UNCHANGED paste
          \/ \E r : paste' = [paste EXCEPT ![w] = r]
      <4>1. Paste(w) => UNCHANGED paste \/ \E r : paste' = [paste EXCEPT ![w] = r]
        BY DEF Paste
      <4>2. CheckCut(w) => \E r : paste' = [paste EXCEPT ![w] = r]
        BY DEF CheckCut
      <4>3. FinishPaste(w) => \E r : paste' = [paste EXCEPT ![w] = r]
        BY DEF FinishPaste
      <4> QED  BY <2>2, <4>1, <4>2, <4>3
    <3> QED  BY <1>1, <2>1, <3>1, <3>2
  <2>4. FinishPaste(u)
    BY <1>1, <2>1, <2>2, <2>3 DEF Pasting
  <2>5. c \in paste[u].drop
    BY <1>1, <2>1, <2>4, PastedRow
  <2> QED  BY <1>1, <2>5 DEF ClipInv, PasteOK, NoneBy
<1>2. ClipInv /\ [ClipNext]_allVars => [\A u \in Users, c \in Cases :
        Pasting(u, {"move"}) /\ paste'[u] = NoPaste /\ Listed(c) /\ row'[c] = Gone =>
          \A v \in Versions : \A i \in Rows(c, v) : rests[c][v][i].by # u]_allVars
  BY <1>1
<1> QED  BY <1>2, ClipInvAlways, PTL DEF ClipSpec, NobodyCutsOwnResult
=============================================================================
