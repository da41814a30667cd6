----------------------------- MODULE TestCases -----------------------------
(***************************************************************************)
(* The test cases of one task, the results of executing them and a package *)
(* of cases, with the pages that work on them.                             *)
(*                                                                         *)
(* A case has a status of its own, at most one intended result per version *)
(* of the software, and perhaps a row in the package.  None of the handlers*)
(* locks anything: an execution looks for an earlier result before it      *)
(* writes one, a deletion asks for results in one transaction and deletes  *)
(* in the next, and an edit writes back the status that the page was filled*)
(* with.  A transaction that reads and then writes is two actions here,    *)
(* since two of them may both read first.                                  *)
(***************************************************************************)
EXTENDS Integers, Sequences, FiniteSets

CONSTANTS
  Users,     \* the users that can log in
  Cases,     \* the numbers of the case rows of the task, old and new
  Versions,  \* versions of the software under test
  NIL,       \* no user
  Reviewed,  \* whether the task's flow has the review of cases (step 9)
  Verdicts,  \* bound: the verdicts that testers give
  Doing,     \* bound: what users do in the instance
  Handled,   \* bound: the cases they execute, edit and delete by hand
  MaxPages,  \* bound: pages and requests open at the same time
  MaxPack    \* bound: cases chosen for the package

ASSUME UsersAssumption == IsFiniteSet(Users) /\ NIL \notin Users
ASSUME CasesAssumption == IsFiniteSet(Cases) /\ Cases \subseteq Nat \ {0}
ASSUME ReviewedAssumption == Reviewed \in BOOLEAN
ASSUME VerdictsAssumption == Verdicts \subseteq 2..5
ASSUME CaseBoundsAssumption == MaxPages \in Nat /\ MaxPack \in Nat

VARIABLES
  row,     \* the rows of TestCaseInfo
  rests,   \* per case and version its rows of TestResult, in order of id
  newest,  \* per case the verdict of its newest row of CaseExeHistory
  pack,    \* the cases of the package with the verdict noted there
  page     \* per user the page or request he is busy with

vars == <<row, rests, newest, pack, page>>

-----------------------------------------------------------------------------
(* Data *)

(* 0 to be audited, 1 not tested, 2 passed, 3 failed, 4 not applicable,    *)
(* 5 blocked, 6 to be corrected *)
Status == 0..6

NoVerdict == 0
Verdict   == {NoVerdict} \cup 2..5

Unused == [st |-> -1, text |-> 0]
Gone   == [st |-> -2, text |-> 0]
Row    == {Unused, Gone} \cup [st : Status, text : Cases]

Listed(c) == row[c].st \in Status

(* A deleted result leaves its place: ids are not used again. *)
NoResult == [res |-> NoVerdict, by |-> NIL]
Result   == {NoResult} \cup [res : 2..5, by : Users]

Rows(c, v)  == {i \in DOMAIN rests[c][v] : rests[c][v][i] # NoResult}
Executed(c) == \E v \in Versions : Rows(c, v) # {}

NoPage == [kind |-> "none"]

(* The form of a case, for editing or for executing it (in the package). *)
FormPage == [kind : {"edit", "execute"}, case : Cases, st : Status, inPack : BOOLEAN]

(* A verdict on its way: the rows of the same version were found. *)
VerdictPage ==
  [kind : {"verdict"}, form : FormPage, ver : Versions, res : 2..5,
   found : SUBSET Nat]

(* The cases still to be deleted; the one that was found without results. *)
DeletePage == [kind : {"delete"}, left : SUBSET Cases, ok : Cases \cup {0}]

Page == {NoPage} \cup FormPage \cup VerdictPage \cup DeletePage

On(u, kinds) == page[u].kind \in kinds

Free(u) == On(u, {"none"}) /\ Cardinality({w \in Users : ~On(w, {"none"})}) < MaxPages

Show(u, p) == page' = [page EXCEPT ![u] = p]

-----------------------------------------------------------------------------
(* Adding, editing *)

(* addOrUpCase and copyCasePrepare: a new case waits for review, if any. *)
FirstStatus == IF Reviewed THEN 0 ELSE 1
NewRow(text) == [st |-> FirstStatus, text |-> text]

Fresh == {c \in Cases : row[c] = Unused}

(* The numbers of new rows follow each other. *)
AreNext(S) == S \subseteq Fresh /\ \A c \in S : \A d \in Fresh : d < c => d \in S

AddCase(u) ==
  /\ "add" \in Doing /\ Free(u)
  /\ \E c \in Fresh : AreNext({c}) /\ row' = [row EXCEPT ![c] = NewRow(c)]
  /\ UNCHANGED <<rests, newest, pack, page>>

(* upInit, exeCaseInit (which fails for a row that is gone) *)
OpenCase(u, c, kind, inPack) ==
  /\ kind \in Doing /\ c \in Handled /\ Free(u) /\ Listed(c)
  /\ inPack => kind = "execute" /\ c \in DOMAIN pack
  /\ Show(u, [kind |-> kind, case |-> c, st |-> row[c].st, inPack |-> inPack])
  /\ UNCHANGED <<row, rests, newest, pack>>

(* upCase: every column is written from the page; the update of a row that *)
(* is gone fails.  A case to be corrected is to be audited again.          *)
EditedStatus(st) == IF st = 6 THEN 0 ELSE st

SaveCase(u) ==
  /\ On(u, {"edit", "execute"})
  /\ LET p == page[u]
     IN /\ Listed(p.case)
        /\ row' = [row EXCEPT ![p.case].st = EditedStatus(p.st)]
  /\ Show(u, NoPage)
  /\ UNCHANGED <<rests, newest, pack>>

ClosePage(u) ==
  /\ On(u, {"edit", "execute"})
  /\ Show(u, NoPage)
  /\ UNCHANGED <<row, rests, newest, pack>>

-----------------------------------------------------------------------------
(* Executing *)

(* exeCase: look for results of the version ... *)
GiveVerdict(u, v, res) ==
  /\ On(u, {"execute"})
  /\ Show(u, [kind |-> "verdict", form |-> page[u], ver |-> v, res |-> res,
              found |-> Rows(page[u].case, v)])
  /\ UNCHANGED <<row, rests, newest, pack>>

(* ... then insert one, or update one of those found and delete every      *)
(* other one of the version if several were found.                         *)
Insert(s, r) == Append(s, r)

UpdateNone(s, found, i, r) ==  \* mutant: the duplicates deleted include the row updated
  [k \in DOMAIN s |-> IF k = i /\ Cardinality(found) = 1 THEN r
                      ELSE IF Cardinality(found) > 1 THEN NoResult ELSE s[k]]

Update(s, found, i, r) ==
  [k \in DOMAIN s |-> CASE k = i -> r
                        [] k # i /\ Cardinality(found) > 1 -> NoResult
                        [] OTHER -> s[k]]

AlwaysInserted(s, found, r) ==  \* mutant: earlier results are not looked for
  {Insert(s, r)}

Written(s, found, r) ==
  IF found = {} THEN {Insert(s, r)}
  ELSE {Update(s, found, i, r) : i \in {k \in found : s[k] # NoResult}}

SetStatusOnce(S, st) ==  \* mutant: only the first verdict reaches the status
  row' = [c \in Cases |-> IF c \in S /\ row[c].st = 1 THEN [row[c] EXCEPT !.st = st]
                          ELSE row[c]]

SetStatus(S, st) ==
  row' = [c \in Cases |-> IF c \in S /\ Listed(c) THEN [row[c] EXCEPT !.st = st]
                          ELSE row[c]]

RecordVerdict(u) ==
  /\ On(u, {"verdict"})
  /\ LET p == page[u]  c == p.form.case
     IN /\ \E s \in Written(rests[c][p.ver], p.found, [res |-> p.res, by |-> u]) :
             rests' = [rests EXCEPT ![c][p.ver] = s]
        /\ newest' = [newest EXCEPT ![c] = p.res]
        /\ SetStatus({c}, p.res)
        /\ pack' = IF p.form.inPack /\ c \in DOMAIN pack
                   THEN [pack EXCEPT ![c] = p.res] ELSE pack
  /\ Show(u, NoPage)

(* The row to be updated was deleted: all is rolled back. *)
VerdictFails(u) ==
  /\ On(u, {"verdict"})
  /\ LET p == page[u]
     IN p.found \ Rows(p.form.case, p.ver) # {} /\ Show(u, p.form)
  /\ UNCHANGED <<row, rests, newest, pack>>

-----------------------------------------------------------------------------
(* Deleting: for each case, isCanDel and delCase are two transactions *)

AskDelete(u, S) ==
  /\ "delete" \in Doing /\ S \subseteq Handled /\ Free(u) /\ S # {} /\ \A c \in S : Listed(c)
  /\ Show(u, [kind |-> "delete", left |-> S, ok |-> 0])
  /\ UNCHANGED <<row, rests, newest, pack>>

Deleting(left, ok) ==
  IF left = {} /\ ok = 0 THEN NoPage ELSE [kind |-> "delete", left |-> left, ok |-> ok]

CanDelByStatus(c) == row[c].st \notin 2..5  \* mutant: only the status is asked
CanDelAlways(c) == TRUE                     \* mutant: nothing is asked
CanDel(c) == ~Executed(c)

CheckDelete(u, c) ==
  /\ On(u, {"delete"}) /\ page[u].ok = 0 /\ c \in page[u].left
  /\ Show(u, Deleting(page[u].left \ {c}, IF CanDel(c) THEN c ELSE 0))
  /\ UNCHANGED <<row, rests, newest, pack>>

Without(S, rows) ==
  [c \in Cases |-> IF c \in S /\ rows[c].st \in Status THEN Gone ELSE rows[c]]

DeleteCase(u) ==
  /\ On(u, {"delete"}) /\ page[u].ok # 0
  /\ row' = Without({page[u].ok}, row)
  /\ Show(u, Deleting(page[u].left, 0))
  /\ UNCHANGED <<rests, newest, pack>>

-----------------------------------------------------------------------------
(* The package *)

(* saveTestCase_CasePkg: all rows are deleted and written anew for the     *)
(* cases selected, of which some may be gone meanwhile.                    *)
ChooseForPack(u, S) ==
  /\ Free(u) /\ S \cap Fresh = {} /\ Cardinality(S) <= MaxPack
  /\ pack' = [c \in S |-> NoVerdict]
  /\ UNCHANGED <<row, rests, newest, page>>

-----------------------------------------------------------------------------
Init ==
  /\ row = [c \in Cases |-> Unused]
  /\ rests = [c \in Cases |-> [v \in Versions |-> <<>>]]
  /\ newest = [c \in Cases |-> NoVerdict]
  /\ pack = [c \in {} |-> NoVerdict]
  /\ page = [u \in Users |-> NoPage]

CaseStep(u) ==
  \/ AddCase(u)
  \/ \E c \in Cases, kind \in {"edit", "execute"}, inPack \in BOOLEAN :
       OpenCase(u, c, kind, inPack)
  \/ SaveCase(u)
  \/ ClosePage(u)
  \/ \E v \in Versions, res \in Verdicts : GiveVerdict(u, v, res)
  \/ RecordVerdict(u)
  \/ VerdictFails(u)
  \/ \E S \in SUBSET Cases : AskDelete(u, S)
  \/ \E c \in Cases : CheckDelete(u, c)
  \/ DeleteCase(u)
  \/ \E S \in SUBSET Cases : ChooseForPack(u, S)

Next == \E u \in Users : CaseStep(u)

Spec == Init /\ [][Next]_vars
-----------------------------------------------------------------------------
TypeOK ==
  /\ row \in [Cases -> Row]
  /\ rests \in [Cases -> [Versions -> Seq(Result)]]
  /\ newest \in [Cases -> Verdict]
  /\ DOMAIN pack \subseteq Cases /\ \A c \in DOMAIN pack : pack[c] \in Verdict
  /\ page \in [Users -> Page]

(* A verdict shown in the list of cases or in the package has a result row *)
(* behind it, whatever was edited, copied or executed at the same time:    *)
(* exeCase writes both, copies start anew, and the duplicates it deletes   *)
(* never include the last row.                                             *)
ResultBehindStatus ==
  \A c \in Cases :
    /\ row[c].st \in 2..5 => Executed(c)
    /\ c \in DOMAIN pack /\ pack[c] # NoVerdict => Executed(c)

(* Two executions that both found nothing both insert (exeCase's comment   *)
(* expects such duplicates); there are never more than one per user.       *)
DuplicatesBounded ==
  \A c \in Cases, v \in Versions : Cardinality(Rows(c, v)) <= Cardinality(Users)

(* Once a version of a case has a result it keeps one: two executions that *)
(* clean up duplicates at the same time do not delete each other's row.    *)
ResultsNeverVanish ==
  [][\A c \in Cases, v \in Versions : Rows(c, v) # {} => Rows(c, v)' # {}]_vars

(* The list's column is headed "newest status", and what makes a case stop *)
(* showing its newest verdict is only the post of a form that was filled   *)
(* before the verdict.                                                     *)
ShowsNewest(c) == Listed(c) /\ newest[c] # NoVerdict => row[c].st = newest[c]

OnlyStaleEditHidesResult ==
  [][\A c \in Cases :
       ShowsNewest(c) /\ ~ShowsNewest(c)' =>
         \E u \in Users : /\ On(u, {"edit", "execute"}) /\ page[u].case = c
                          /\ page[u].st # row[c].st /\ page'[u] = NoPage]_vars

(* isCanDel looks for results in a transaction of its own, so somebody     *)
(* else's may arrive before the deletion; but nobody deletes a case that   *)
(* carries a result of his own.                                            *)
NobodyDeletesOwnResult ==
  [][\A u \in Users :
       LET c == page[u].ok
       IN On(u, {"delete"}) /\ c # 0 /\ page'[u] # page[u] /\ Listed(c) =>
            \A v \in Versions : \A i \in Rows(c, v) : rests[c][v][i].by # u]_vars
=============================================================================
