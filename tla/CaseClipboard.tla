--------------------------- MODULE CaseClipboard ---------------------------
(***************************************************************************)
(* Copying and cutting test cases between the nodes of the outline.  The   *)
(* list of cases keeps a clipboard in the browser; pasting it is a request *)
(* that reads the cases, asks in a second transaction which of them have   *)
(* results, and adds the copies and removes the originals in a third.      *)
(***************************************************************************)
EXTENDS TestCases

CONSTANTS
  MaxClip,    \* bound: numbers in a clipboard
  MaxNumber   \* bound: the largest number in a clipboard or put into it

ASSUME ClipAssumption == MaxClip \in Nat /\ MaxNumber \in 0..999

VARIABLES
  clip,    \* per user the clipboard of his list of cases (remark)
  paste,   \* per user the paste in progress
  cutOut   \* per user the cases he cut since the clipboard was last empty

clipVars == <<clip, paste, cutOut>>

allVars == <<vars, clipVars>>

EmptyClip == [ids |-> <<>>, cut |-> FALSE]
NoPaste   == [kind |-> "none"]

(* took: the cases copied, with their content; drop: the cases to remove. *)
PasteRequest ==
  [kind : {"copy", "cut", "move"}, took : UNION {[S -> Cases] : S \in SUBSET Cases},
   drop : SUBSET Cases]

Pasting(u, kinds) == paste[u].kind \in kinds

-----------------------------------------------------------------------------
(* The clipboard is a string of numbers joined by "_", but what is taken   *)
(* later is appended without one, so the numbers that meet become one.     *)
Glue(a, b) ==
  LET power == CHOOSE p \in {10, 100, 1000} : b < p /\ p <= 10 * b
  IN a * power + b

Join(ids, sel) ==
  IF ids = <<>> THEN sel
  ELSE [k \in 1..Len(ids) - 1 |-> ids[k]] \o <<Glue(ids[Len(ids)], sel[1])>> \o Tail(sel)

NumbersIn(s) == {s[k] : k \in DOMAIN s}

(* Bound: one or two cases are selected, in the order of the list. *)
Selections ==
  LET L == {c \in Cases : Listed(c)}
  IN {<<c>> : c \in L} \cup {<<c[1], c[2]>> : c \in {d \in L \X L : d[1] < d[2]}}

(* copyCase, cutCase: what a paste does is decided by the last of them. *)
TakeCases(u, sel, cut) ==
  LET ids == Join(clip[u].ids, sel)
  IN /\ Free(u) /\ Pasting(u, {"none"})
     /\ Len(ids) <= MaxClip
     /\ \A n \in NumbersIn(ids) \cup NumbersIn(sel) : n <= MaxNumber
     /\ clip' = [clip EXCEPT ![u] = [ids |-> ids, cut |-> cut]]
     /\ cutOut' = IF cut THEN [cutOut EXCEPT ![u] = @ \cup NumbersIn(sel)] ELSE cutOut
     /\ UNCHANGED <<vars, paste>>

(* After the answer; operationType stays, but a new copy or cut sets it. *)
ClearClip(u) ==
  /\ clip' = [clip EXCEPT ![u] = EmptyClip]
  /\ cutOut' = [cutOut EXCEPT ![u] = {}]

-----------------------------------------------------------------------------
(* pasteCase: the rows to copy are read; *)
FoundAll(S) == S  \* mutant: cases that are gone are copied
Found(S) == {c \in S : Listed(c)}

Paste(u) ==
  /\ Free(u) /\ Pasting(u, {"none"}) /\ clip[u].ids # <<>>
  /\ LET S == NumbersIn(clip[u].ids) \cap Cases
     IN IF Found(S) = {}
        THEN ClearClip(u) /\ UNCHANGED paste
        ELSE /\ paste' = [paste EXCEPT ![u] =
                  [kind |-> IF clip[u].cut THEN "cut" ELSE "copy",
                   took |-> [c \in Found(S) |-> row[c].text], drop |-> S]]
             /\ UNCHANGED <<clip, cutOut>>
  /\ UNCHANGED vars

(* for a cut, those that have results are then spared (setCanDelCaseId); *)
CheckCut(u) ==
  /\ Pasting(u, {"cut"})
  /\ paste' = [paste EXCEPT ![u] =
                 [@ EXCEPT !.kind = "move", !.drop = {c \in paste[u].drop : CanDel(c)}]]
  /\ UNCHANGED <<vars, clip, cutOut>>

(* and the copies are added, then the originals of a cut removed. *)
Placements(took) ==
  {new \in [DOMAIN took -> Fresh] :
     /\ \A c, d \in DOMAIN took : c < d => new[c] < new[d]
     /\ AreNext({new[c] : c \in DOMAIN took})}

StatusCopied(took, new) ==  \* mutant: a copy keeps the status
  [d \in Cases |-> IF \E c \in DOMAIN took : new[c] = d
                   THEN row[CHOOSE c \in DOMAIN took : new[c] = d]
                   ELSE row[d]]

WithCopies(took, new) ==
  [d \in Cases |-> IF \E c \in DOMAIN took : new[c] = d
                   THEN NewRow(took[CHOOSE c \in DOMAIN took : new[c] = d])
                   ELSE row[d]]

FinishPaste(u) ==
  /\ Pasting(u, {"copy", "move"})
  /\ \E new \in Placements(paste[u].took) :
       row' = Without(IF Pasting(u, {"move"}) THEN paste[u].drop ELSE {},
                      WithCopies(paste[u].took, new))
  /\ paste' = [paste EXCEPT ![u] = NoPaste]
  /\ ClearClip(u)
  /\ UNCHANGED <<rests, newest, pack, page>>

-----------------------------------------------------------------------------
ClipInit ==
  /\ Init
  /\ clip = [u \in Users |-> EmptyClip]
  /\ paste = [u \in Users |-> NoPaste]
  /\ cutOut = [u \in Users |-> {}]

ClipNext ==
  \E u \in Users :
    \/ Pasting(u, {"none"}) /\ CaseStep(u) /\ UNCHANGED clipVars
    \/ \E sel \in Selections, cut \in BOOLEAN : TakeCases(u, sel, cut)
    \/ Paste(u)
    \/ CheckCut(u)
    \/ FinishPaste(u)

ClipSpec == ClipInit /\ [][ClipNext]_allVars
-----------------------------------------------------------------------------
ClipTypeOK ==
  /\ TypeOK
  /\ clip \in [Users -> [ids : Seq(Nat), cut : BOOLEAN]]
  /\ paste \in [Users -> {NoPaste} \cup PasteRequest]
  /\ cutOut \in [Users -> SUBSET Cases]

(* setCanDelCaseId looks for results in a transaction of its own, so       *)
(* somebody else's may arrive before the originals of a cut are removed;   *)
(* but nobody cuts away a case that carries a result of his own.           *)
NobodyCutsOwnResult ==
  [][\A u \in Users, c \in Cases :
       Pasting(u, {"move"}) /\ paste'[u] = NoPaste /\ Listed(c) /\ row'[c] = Gone =>
         \A v \in Versions : \A i \in Rows(c, v) : rests[c][v][i].by # u]_allVars

(* The page asks for "the test cases to cut" (cutCase): a paste removes no *)
(* case its user did not cut.                                              *)
OnlyCutAreRemoved ==
  [][\A u \in Users, c \in Cases :
       Pasting(u, {"move"}) /\ paste'[u] = NoPaste /\ Listed(c) /\ row'[c] = Gone =>
         c \in cutOut[u]]_allVars
=============================================================================
