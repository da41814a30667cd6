-------------------------- MODULE TestCases_proofs --------------------------
(***************************************************************************)
(* What the executions, edits and deletions of test cases keep, for every  *)
(* number of users, cases and versions.  The lemmas are about one step of  *)
(* one user, so that the modules that compose the cases with other parts   *)
(* can use them too.                                                       *)
(***************************************************************************)
EXTENDS TestCases, SequenceTheorems, FiniteSetTheorems, TLAPS

-----------------------------------------------------------------------------
(* The invariant *)

Used(c) == row[c] # Unused

(* A form shows a verdict only when there is a result. *)
FormOK(f) == Used(f.case) /\ (f.st \in 2..5 => Executed(f.case))

(* What an execution has found includes whatever its user wrote before. *)
FoundOK(u, c, v, found) ==
  /\ found \subseteq 1..Len(rests[c][v])
  /\ \A i \in Rows(c, v) : rests[c][v][i].by = u => i \in found

NoneBy(u, c) == \A v \in Versions : \A i \in Rows(c, v) : rests[c][v][i].by # u

PageOK(u) ==
  /\ \A f \in FormPage : page[u] = f => FormOK(f)
  /\ \A p \in VerdictPage : page[u] = p =>
       FormOK(p.form) /\ FoundOK(u, p.form.case, p.ver, p.found)
  /\ \A p \in DeletePage : page[u] = p /\ p.ok # 0 => NoneBy(u, p.ok)

(* No user has two results of a case in a version. *)
OneEach ==
  \A c \in Cases, v \in Versions : \A i, j \in Rows(c, v) :
    rests[c][v][i].by = rests[c][v][j].by => i = j

UnusedNew == \A c \in Cases : ~Used(c) => newest[c] = NoVerdict

CaseInv ==
  /\ TypeOK
  /\ ResultBehindStatus
  /\ OneEach
  /\ UnusedNew
  /\ \A u \in Users : PageOK(u)
-----------------------------------------------------------------------------
(* Types *)

LEMMA Kinds ==
  /\ \A f \in FormPage : f.kind \in {"edit", "execute"}
  /\ \A p \in VerdictPage : p.kind = "verdict"
  /\ \A p \in DeletePage : p.kind = "delete"
  /\ NoPage.kind = "none"
  BY DEF FormPage, VerdictPage, DeletePage, NoPage

LEMMA PageKinds ==
  ASSUME TypeOK, NEW u \in Users
  PROVE  /\ On(u, {"edit", "execute"}) => page[u] \in FormPage
         /\ On(u, {"execute"}) => page[u] \in FormPage
         /\ On(u, {"verdict"}) => page[u] \in VerdictPage
         /\ On(u, {"delete"}) => page[u] \in DeletePage
         /\ On(u, {"none"}) => page[u] = NoPage
<1>1. page[u] \in Page
  BY DEF TypeOK
<1> QED  BY <1>1, Kinds DEF Page, On

LEMMA FormPageOK ==
  ASSUME NEW u, NEW f \in FormPage, page'[u] = f, FormOK(f)'
  PROVE  PageOK(u)'
  BY Kinds DEF PageOK

LEMMA VerdictPageOK ==
  ASSUME NEW u, NEW f \in FormPage, NEW c, NEW v, NEW found, NEW p \in VerdictPage,
         p.form = f, f.case = c, p.ver = v, p.found = found,
         page'[u] = p, FormOK(f)', FoundOK(u, c, v, found)'
  PROVE  PageOK(u)'
<1>1. \A q \in VerdictPage : page'[u] = q => FormOK(q.form)' /\ FoundOK(u, q.form.case, q.ver, q.found)'
  OBVIOUS
<1> QED  BY <1>1, Kinds DEF PageOK

LEMMA DeletePageOK ==
  ASSUME NEW u, NEW p \in DeletePage, NEW c, p.ok = c, page'[u] = p,
         c # 0 => NoneBy(u, c)'
  PROVE  PageOK(u)'
<1>1. \A q \in DeletePage : page'[u] = q /\ q.ok # 0 => NoneBy(u, q.ok)'
  OBVIOUS
<1> QED  BY <1>1, Kinds DEF PageOK

LEMMA NoPageOK ==
  ASSUME NEW u, page'[u] = NoPage
  PROVE  PageOK(u)'
  BY Kinds DEF PageOK

LEMMA ShowType ==
  ASSUME TypeOK, NEW u \in Users, NEW p \in Page, Show(u, p)
  PROVE  /\ page' \in [Users -> Page]
         /\ page'[u] = p
         /\ \A w \in Users \ {u} : page'[w] = page[w]
  BY DEF TypeOK, Show

LEMMA RestsType ==
  ASSUME TypeOK, NEW c \in Cases, NEW v \in Versions
  PROVE  /\ rests[c][v] \in Seq(Result)
         /\ Len(rests[c][v]) \in Nat
         /\ DOMAIN rests[c][v] = 1..Len(rests[c][v])
         /\ \A i \in 1..Len(rests[c][v]) : rests[c][v][i] \in Result
         /\ Rows(c, v) \subseteq 1..Len(rests[c][v])
<1>1. rests[c][v] \in Seq(Result)
  BY DEF TypeOK
<1>2. /\ Len(rests[c][v]) \in Nat
      /\ DOMAIN rests[c][v] = 1..Len(rests[c][v])
  BY <1>1, LenProperties
<1>3. \A i \in 1..Len(rests[c][v]) : rests[c][v][i] \in Result
  BY <1>1, ElementOfSeq
<1> QED  BY <1>1, <1>2, <1>3 DEF Rows
-----------------------------------------------------------------------------
(* Writing a result *)

RowsOf(s) == {i \in 1..Len(s) : s[i] # NoResult}

(* Whatever was found, there is a result afterwards; every row is one that *)
(* was there, or the new one.                                              *)
LEMMA WrittenIs ==
  ASSUME NEW s \in Seq(Result), NEW found \in SUBSET (1..Len(s)),
         NEW r \in Result, r # NoResult, NEW t \in Written(s, found, r)
  PROVE  /\ t \in Seq(Result) /\ Len(s) <= Len(t)
         /\ RowsOf(t) # {}
         /\ \A i \in RowsOf(t) : t[i] = r \/ (i \in RowsOf(s) /\ t[i] = s[i])
<1>1. Len(s) \in Nat /\ DOMAIN s = 1..Len(s)
  BY LenProperties
<1>2. CASE found = {}
  <2>1. t = Append(s, r)
    BY <1>2 DEF Written, Insert
  <2>2. /\ t \in Seq(Result) /\ Len(t) = Len(s) + 1
        /\ \A i \in 1..Len(s) : t[i] = s[i]
        /\ t[Len(s) + 1] = r
    BY <2>1, AppendProperties
  <2>3. Len(s) + 1 \in RowsOf(t)
    BY <1>1, <2>2 DEF RowsOf
  <2>4. ASSUME NEW i \in RowsOf(t) PROVE t[i] = r \/ (i \in RowsOf(s) /\ t[i] = s[i])
    <3>1. i \in 1..Len(s) \/ i = Len(s) + 1
      BY <1>1, <2>2 DEF RowsOf
    <3> QED  BY <2>2, <3>1 DEF RowsOf
  <2> QED  BY <1>1, <2>2, <2>3, <2>4
<1>3. CASE found # {}
  <2>1. PICK k \in found : s[k] # NoResult /\ t = Update(s, found, k, r)
    BY <1>3 DEF Written
  <2>2. t = [i \in 1..Len(s) |-> CASE i = k -> r
                                   [] i # k /\ Cardinality(found) > 1 -> NoResult
                                   [] OTHER -> s[i]]
    BY <1>1, <2>1 DEF Update
  <2>3. \A i \in 1..Len(s) : /\ t[i] \in Result
                             /\ t[i] = r \/ t[i] = NoResult \/ t[i] = s[i]
    <3>1. \A i \in 1..Len(s) : s[i] \in Result
      BY ElementOfSeq
    <3> QED  BY <2>2, <3>1 DEF Result
  <2>4. t \in [1..Len(s) -> Result]
    BY <2>2, <2>3
  <2>5. t \in Seq(Result)
    BY <1>1, <2>4, SeqDef
  <2>6. Len(t) = Len(s)
    BY <1>1, <2>4, <2>5, LenProperties
  <2>7. k \in 1..Len(s) /\ t[k] = r
    BY <2>1, <2>2
  <2>8. k \in RowsOf(t)
    BY <2>6, <2>7 DEF RowsOf
  <2> QED  BY <1>1, <2>3, <2>5, <2>6, <2>8 DEF RowsOf
<1> QED  BY <1>2, <1>3

(* When its user had no result but those found, it is his only one.        *)
LEMMA WrittenOnce ==
  ASSUME NEW s \in Seq(Result), NEW found \in SUBSET (1..Len(s)),
         NEW r \in Result, r # NoResult, NEW t \in Written(s, found, r),
         \A i \in RowsOf(s) : s[i].by = r.by => i \in found,
         \A i, j \in RowsOf(s) : s[i].by = s[j].by => i = j
  PROVE  \A i, j \in RowsOf(t) : t[i].by = t[j].by => i = j
<1>1. Len(s) \in Nat /\ DOMAIN s = 1..Len(s)
  BY LenProperties
<1>2. CASE found = {}
  <2>1. t = Append(s, r)
    BY <1>2 DEF Written, Insert
  <2>2. /\ Len(t) = Len(s) + 1
        /\ \A i \in 1..Len(s) : t[i] = s[i]
        /\ t[Len(s) + 1] = r
    BY <2>1, AppendProperties
  <2>3. \A i \in RowsOf(t) : \/ i \in RowsOf(s) /\ t[i] = s[i] /\ t[i].by # r.by
                             \/ i = Len(s) + 1 /\ t[i] = r
    <3> TAKE i \in RowsOf(t)
    <3>1. i \in 1..Len(s) \/ i = Len(s) + 1
      BY <1>1, <2>2 DEF RowsOf
    <3> QED  BY <1>2, <2>2, <3>1 DEF RowsOf
  <2> QED  BY <2>3
<1>3. CASE found # {}
  <2>1. PICK k \in found : s[k] # NoResult /\ t = Update(s, found, k, r)
    BY <1>3 DEF Written
  <2>2. t = [i \in 1..Len(s) |-> CASE i = k -> r
                                   [] i # k /\ Cardinality(found) > 1 -> NoResult
                                   [] OTHER -> s[i]]
    BY <1>1, <2>1 DEF Update
  <2>3. DOMAIN t = 1..Len(s) /\ Len(t) = Len(s) /\ k \in 1..Len(s)
    <3>1. t \in Seq(Result) /\ DOMAIN t = 1..Len(s)
      BY <2>2, WrittenIs
    <3> QED  BY <1>1, <3>1, LenProperties
  <2>4. CASE Cardinality(found) > 1
    <3>1. \A i \in RowsOf(t) : i = k
      BY <2>2, <2>3, <2>4 DEF RowsOf
    <3> QED  BY <3>1
  <2>5. CASE ~(Cardinality(found) > 1)
    <3>1. found = {k}
      <4>1. IsFiniteSet(1..Len(s))
        BY <1>1, FS_Interval
      <4>2. IsFiniteSet(found)
        BY <4>1, FS_Subset
      <4>3. Cardinality(found) \in Nat /\ Cardinality(found) # 0
        BY <1>3, <4>2, FS_CardinalityType, FS_EmptySet
      <4>4. Cardinality(found) = 1
        BY <2>5, <4>3
      <4>5. \E x : found = {x}
        BY <4>2, <4>4, FS_Singleton
      <4> QED  BY <2>1, <4>5
    <3>2. \A i \in RowsOf(t) : \/ i = k /\ t[i] = r
                               \/ i \in RowsOf(s) /\ t[i] = s[i] /\ t[i].by # r.by
      <4> TAKE i \in RowsOf(t)
      <4>1. i \in 1..Len(s)
        BY <2>3 DEF RowsOf
      <4>2. i # k => t[i] = s[i]
        BY <2>2, <2>5, <4>1
      <4>3. t[k] = r
        BY <2>2, <2>3
      <4> QED  BY <3>1, <4>1, <4>2, <4>3 DEF RowsOf
    <3> QED  BY <3>2
  <2> QED  BY <2>4, <2>5
<1> QED  BY <1>2, <1>3
-----------------------------------------------------------------------------
(* What a step of one user leaves to the others *)

Grows(u) ==
  /\ \A c \in Cases : Used(c) => Used(c)'
  /\ \A c \in Cases, v \in Versions :
       /\ Len(rests[c][v]) <= Len(rests'[c][v])
       /\ Rows(c, v) # {} => Rows(c, v)' # {}
       /\ \A i \in Rows(c, v)' : \/ rests'[c][v][i].by = u
                                 \/ i \in Rows(c, v) /\ rests'[c][v][i] = rests[c][v][i]

LEMMA RestsSame ==
  ASSUME TypeOK, rests' = rests, \A c \in Cases : Used(c) => Used(c)'
  PROVE  \A u : Grows(u)
<1>1. \A c, v : Rows(c, v)' = Rows(c, v)
  BY DEF Rows
<1>2. \A c \in Cases, v \in Versions : Len(rests[c][v]) \in Nat
  BY RestsType
<1> QED  BY <1>1, <1>2 DEF Grows

LEMMA ExecutedStays ==
  ASSUME NEW u, Grows(u), NEW c \in Cases, Executed(c)
  PROVE  Executed(c)'
  BY DEF Grows, Executed

LEMMA FormStays ==
  ASSUME TypeOK, NEW u, Grows(u), NEW f \in FormPage, FormOK(f)
  PROVE  FormOK(f)'
<1>1. f.case \in Cases
  BY DEF FormPage
<1> QED  BY <1>1 DEF FormOK, Grows, Used, Executed, Rows

LEMMA FoundStays ==
  ASSUME TypeOK, TypeOK', NEW u, Grows(u), NEW w, w # u, NEW c \in Cases, NEW v \in Versions,
         NEW found, FoundOK(w, c, v, found)
  PROVE  FoundOK(w, c, v, found)'
<1>1. /\ Len(rests[c][v]) \in Nat /\ Len(rests'[c][v]) \in Nat
      /\ Len(rests[c][v]) <= Len(rests'[c][v])
  BY RestsType, LenProperties DEF Grows, TypeOK
<1>2. found \subseteq 1..Len(rests'[c][v])
  BY <1>1 DEF FoundOK
<1>3. \A i \in Rows(c, v)' : rests'[c][v][i].by = w => i \in found
  BY DEF FoundOK, Grows
<1> QED  BY <1>2, <1>3 DEF FoundOK

LEMMA NoneStays ==
  ASSUME NEW u, Grows(u), NEW w, w # u, NEW c \in Cases, NoneBy(w, c)
  PROVE  NoneBy(w, c)'
  BY DEF Grows, NoneBy

LEMMA PageStays ==
  ASSUME TypeOK, TypeOK', NEW u \in Users, Grows(u), NEW w \in Users, w # u,
         page'[w] = page[w], PageOK(w)
  PROVE  PageOK(w)'
<1>1. ASSUME NEW f \in FormPage, page'[w] = f PROVE FormOK(f)'
  BY <1>1, FormStays DEF PageOK
<1>2. ASSUME NEW p \in VerdictPage, page'[w] = p
      PROVE  FormOK(p.form)' /\ FoundOK(w, p.form.case, p.ver, p.found)'
  <2>1. PICK f \in FormPage : p.form = f
    BY DEF VerdictPage
  <2>2. PICK c \in Cases : f.case = c
    BY DEF FormPage
  <2>3. PICK v \in Versions, found \in SUBSET Nat : p.ver = v /\ p.found = found
    BY DEF VerdictPage
  <2>4. FormOK(f) /\ FoundOK(w, c, v, found)
    BY <1>2, <2>1, <2>2, <2>3 DEF PageOK
  <2>5. FormOK(f)' /\ FoundOK(w, c, v, found)'
    BY <2>4, FormStays, FoundStays
  <2> QED  BY <2>1, <2>2, <2>3, <2>5
<1>3. ASSUME NEW p \in DeletePage, page'[w] = p, p.ok # 0 PROVE NoneBy(w, p.ok)'
  <2>1. PICK c \in Cases : p.ok = c
    BY <1>3 DEF DeletePage
  <2>2. NoneBy(w, c)
    BY <1>3, <2>1 DEF PageOK
  <2>3. NoneBy(w, c)'
    BY <2>2, NoneStays
  <2> QED  BY <2>1, <2>3
<1> QED  BY <1>1, <1>2, <1>3 DEF PageOK

LEMMA OtherPages ==
  ASSUME CaseInv, TypeOK', NEW u \in Users, Grows(u),
         \A w \in Users \ {u} : page'[w] = page[w], PageOK(u)'
  PROVE  \A w \in Users : PageOK(w)'
<1> TAKE w \in Users
<1>1. CASE w = u  BY <1>1
<1>2. CASE w # u  BY <1>2, PageStays DEF CaseInv
<1> QED  BY <1>1, <1>2

(* ... when no result is written.                                          *)
LEMMA NoResultWritten ==
  ASSUME CaseInv, TypeOK', NEW u \in Users,
         rests' = rests, newest' = newest,
         \A c \in Cases : Used(c) => Used(c)',
         \A w \in Users \ {u} : page'[w] = page[w], PageOK(u)',
         \A c \in Cases : row'[c].st \in 2..5 => row'[c] = row[c] \/ Executed(c),
         \A c \in Cases : c \in DOMAIN pack' => pack'[c] = NoVerdict \/ (c \in DOMAIN pack /\ pack'[c] = pack[c])
  PROVE  CaseInv' /\ Grows(u)
<1>1. TypeOK
  BY DEF CaseInv
<1>2. Grows(u)
  BY <1>1, RestsSame
<1>3. /\ \A c, v : Rows(c, v)' = Rows(c, v)
      /\ \A c : Executed(c)' = Executed(c)
  BY DEF Rows, Executed
<1>4. ResultBehindStatus'
  BY <1>3 DEF CaseInv, ResultBehindStatus
<1>5. OneEach'
  BY <1>3 DEF CaseInv, OneEach
<1>6. UnusedNew'
  BY DEF CaseInv, UnusedNew
<1>7. \A w \in Users : PageOK(w)'
  BY <1>2, OtherPages
<1> QED  BY <1>2, <1>4, <1>5, <1>6, <1>7 DEF CaseInv
-----------------------------------------------------------------------------
(* Adding, editing, deleting, choosing *)

LEMMA SamePage ==
  ASSUME TypeOK, NEW u \in Users, page' = page, rests' = rests, PageOK(u),
         \A c \in Cases : Used(c) => Used(c)'
  PROVE  PageOK(u)'
<1>1. /\ \A c, v : Rows(c, v)' = Rows(c, v)
      /\ \A c : Executed(c)' = Executed(c)
  BY DEF Rows, Executed
<1>2. \A f \in FormPage : FormOK(f) => FormOK(f)'
  BY <1>1 DEF FormOK, FormPage, Used
<1>3. \A p \in VerdictPage : p.form \in FormPage
  BY DEF VerdictPage
<1> QED  BY <1>1, <1>2, <1>3 DEF PageOK, FoundOK, NoneBy

LEMMA AddCaseInv ==
  ASSUME CaseInv, NEW u \in Users, AddCase(u)
  PROVE  CaseInv' /\ Grows(u)
<1>1. TypeOK
  BY DEF CaseInv
<1>2. PICK c \in Fresh : row' = [row EXCEPT ![c] = NewRow(c)]
  BY DEF AddCase
<1>3. c \in Cases /\ row[c] = Unused /\ NewRow(c) \in Row /\ NewRow(c) # Unused
      /\ NewRow(c).st \in {0, 1}
  BY <1>2 DEF Fresh, NewRow, FirstStatus, Row, Status, Unused
<1>4. TypeOK'
  BY <1>1, <1>2, <1>3 DEF TypeOK, AddCase
<1>5. \A d \in Cases : row'[d] = IF d = c THEN NewRow(c) ELSE row[d]
  BY <1>1, <1>2, <1>3 DEF TypeOK
<1>6. \A d \in Cases : Used(d) => Used(d)'
  BY <1>3, <1>5 DEF Used
<1>7. PageOK(u)' /\ \A w \in Users \ {u} : page'[w] = page[w]
  BY <1>1, <1>6, SamePage DEF AddCase, CaseInv
<1>8. \A d \in Cases : row'[d].st \in 2..5 => row'[d] = row[d]
  BY <1>3, <1>5
<1> QED  BY <1>4, <1>6, <1>7, <1>8, NoResultWritten DEF AddCase

LEMMA OpenCaseInv ==
  ASSUME CaseInv, NEW u \in Users, NEW c \in Cases, NEW kind \in {"edit", "execute"},
         NEW inPack \in BOOLEAN, OpenCase(u, c, kind, inPack)
  PROVE  CaseInv' /\ Grows(u)
<1>1. TypeOK /\ row[c] \in Row /\ row[c].st \in Status
  BY DEF CaseInv, TypeOK, OpenCase, Listed
<1>2. PICK st \in Status : st = row[c].st
  BY <1>1
<1>3. PICK p \in FormPage : p = [kind |-> kind, case |-> c, st |-> st, inPack |-> inPack]
  BY DEF FormPage
<1>4. Show(u, p) /\ p.case = c /\ p.st = st
  BY <1>2, <1>3 DEF OpenCase
<1>5. /\ page' \in [Users -> Page] /\ page'[u] = p
      /\ \A w \in Users \ {u} : page'[w] = page[w]
  BY <1>1, <1>4, ShowType DEF Page
<1>6. TypeOK'
  BY <1>1, <1>5 DEF TypeOK, OpenCase
<1>7. row[c] # Unused /\ (st \in 2..5 => Executed(c))
  BY <1>1, <1>2 DEF Unused, Status, CaseInv, ResultBehindStatus
<1>8. FormOK(p)'
  BY <1>4, <1>7 DEF FormOK, Used, Executed, Rows, OpenCase
<1>9. PageOK(u)'
  BY <1>5, <1>8, FormPageOK
<1> QED  BY <1>5, <1>6, <1>9, NoResultWritten DEF OpenCase, Used

LEMMA SaveCaseInv ==
  ASSUME CaseInv, NEW u \in Users, SaveCase(u)
  PROVE  CaseInv' /\ Grows(u)
<1>1. TypeOK /\ PageOK(u)
  BY DEF CaseInv
<1>2. PICK f \in FormPage : page[u] = f
  BY <1>1, PageKinds DEF SaveCase
<1>3. FormOK(f)
  BY <1>1, <1>2 DEF PageOK
<1>4. PICK c \in Cases, st \in Status : f.case = c /\ EditedStatus(f.st) = st
  BY DEF FormPage, EditedStatus, Status
<1>5. st \in 2..5 => Executed(c)
  BY <1>3, <1>4 DEF FormOK, EditedStatus
<1>6. row[c] \in [st : Status, text : Cases] /\ row' = [row EXCEPT ![c].st = st]
  <2>1. row[c] \in Row /\ row[c].st \in Status
    BY <1>1, <1>2, <1>4 DEF TypeOK, SaveCase, Listed
  <2>2. row[c] \in [st : Status, text : Cases]
    BY <2>1 DEF Row, Unused, Gone, Status
  <2>3. row' = [row EXCEPT ![c].st = st]
    BY <1>2, <1>4 DEF SaveCase
  <2> QED  BY <2>2, <2>3
<1>7. \A d \in Cases : /\ row'[d] \in Row
                       /\ d # c => row'[d] = row[d]
                       /\ d = c => row'[d].st = st
  BY <1>1, <1>6 DEF TypeOK, Row
<1>8. row' \in [Cases -> Row]
  BY <1>1, <1>6, <1>7 DEF TypeOK
<1>9. /\ page' \in [Users -> Page] /\ page'[u] = NoPage
      /\ \A w \in Users \ {u} : page'[w] = page[w]
  BY <1>1, ShowType DEF SaveCase, Page
<1>10. TypeOK'
  BY <1>1, <1>8, <1>9 DEF TypeOK, SaveCase
<1>11. \A d \in Cases : Used(d) => Used(d)'
  BY <1>7 DEF Used, Unused, Status
<1>12. PageOK(u)'
  BY <1>9, NoPageOK
<1>13. \A d \in Cases : row'[d].st \in 2..5 => row'[d] = row[d] \/ Executed(d)
  BY <1>5, <1>7
<1> QED  BY <1>9, <1>10, <1>11, <1>12, <1>13, NoResultWritten DEF SaveCase

LEMMA NoPageInv ==
  ASSUME CaseInv, NEW u \in Users, Show(u, NoPage), UNCHANGED <<row, rests, newest, pack>>
  PROVE  CaseInv' /\ Grows(u)
<1>1. /\ page' \in [Users -> Page] /\ page'[u] = NoPage
      /\ \A w \in Users \ {u} : page'[w] = page[w]
  BY ShowType DEF CaseInv, Page
<1>2. TypeOK'
  BY <1>1 DEF CaseInv, TypeOK
<1>3. PageOK(u)'
  BY <1>1, NoPageOK
<1> QED  BY <1>1, <1>2, <1>3, NoResultWritten DEF Used

LEMMA ChooseInv ==
  ASSUME CaseInv, NEW u \in Users, NEW S \in SUBSET Cases, ChooseForPack(u, S)
  PROVE  CaseInv' /\ Grows(u)
<1>1. TypeOK /\ pack' = [c \in S |-> NoVerdict]
  BY DEF CaseInv, ChooseForPack
<1>2. TypeOK'
  BY <1>1 DEF TypeOK, ChooseForPack, Verdict
<1>3. \A c \in Cases : Used(c) => Used(c)'
  BY DEF Used, ChooseForPack
<1>4. PageOK(u)' /\ \A w \in Users \ {u} : page'[w] = page[w]
  BY <1>1, <1>3, SamePage DEF ChooseForPack, CaseInv
<1> QED  BY <1>1, <1>2, <1>3, <1>4, NoResultWritten DEF ChooseForPack

(* A page about deletion. *)
LEMMA DeletePageInv ==
  ASSUME CaseInv, TypeOK', NEW u \in Users, NEW left \in SUBSET Cases,
         NEW ok \in Cases \cup {0}, NEW p \in {NoPage, [kind |-> "delete", left |-> left, ok |-> ok]},
         Show(u, p), p # NoPage /\ ok # 0 => NoneBy(u, ok),
         rests' = rests, newest' = newest, pack' = pack,
         \A c \in Cases : Used(c) => Used(c)',
         \A c \in Cases : row'[c].st \in 2..5 => row'[c] = row[c]
  PROVE  CaseInv' /\ Grows(u)
<1>1. p \in Page
  BY DEF Page, DeletePage
<1>2. /\ page'[u] = p /\ \A w \in Users \ {u} : page'[w] = page[w]
  BY <1>1, ShowType DEF CaseInv
<1>3. PageOK(u)'
  <2>1. CASE p = NoPage
    BY <1>2, <2>1, NoPageOK
  <2>2. CASE p # NoPage
    <3>1. p \in DeletePage /\ p.ok = ok
      BY <2>2 DEF DeletePage
    <3>2. ok # 0 => NoneBy(u, ok)'
      BY <2>2 DEF NoneBy, Rows
    <3> QED  BY <1>2, <3>1, <3>2, DeletePageOK
  <2> QED  BY <2>1, <2>2
<1> QED  BY <1>2, <1>3, NoResultWritten

LEMMA AskDeleteInv ==
  ASSUME CaseInv, NEW u \in Users, NEW S \in SUBSET Cases, AskDelete(u, S)
  PROVE  CaseInv' /\ Grows(u)
<1> DEFINE p == [kind |-> "delete", left |-> S, ok |-> 0]
<1>1. p \in Page /\ Show(u, p)
  BY DEF AskDelete, Page, DeletePage
<1>2. page' \in [Users -> Page]
  BY <1>1, ShowType DEF CaseInv
<1>3. TypeOK'
  BY <1>2 DEF CaseInv, TypeOK, AskDelete
<1> QED  BY <1>1, <1>3, DeletePageInv DEF AskDelete, Used

LEMMA CheckDeleteInv ==
  ASSUME CaseInv, NEW u \in Users, NEW c \in Cases, CheckDelete(u, c)
  PROVE  CaseInv' /\ Grows(u)
<1>1. TypeOK /\ page[u] \in DeletePage
  BY PageKinds DEF CaseInv, CheckDelete
<1>2. PICK left \in SUBSET Cases : left = page[u].left \ {c}
  BY <1>1 DEF DeletePage
<1>3. PICK ok \in Cases \cup {0} : ok = IF CanDel(c) THEN c ELSE 0
  OBVIOUS
<1>4. ok # 0 => NoneBy(u, ok)
  BY <1>3 DEF CanDel, Executed, NoneBy
<1>5. PICK p \in {NoPage, [kind |-> "delete", left |-> left, ok |-> ok]} :
        p = Deleting(left, ok)
  BY DEF Deleting
<1>6. Show(u, p) /\ p \in Page
  BY <1>2, <1>3, <1>5 DEF CheckDelete, Page, DeletePage
<1>7. page' \in [Users -> Page]
  BY <1>1, <1>6, ShowType
<1>8. TypeOK'
  BY <1>1, <1>7 DEF TypeOK, CheckDelete
<1> QED  BY <1>4, <1>6, <1>8, DeletePageInv DEF CheckDelete, Used

LEMMA DeleteCaseInv ==
  ASSUME CaseInv, NEW u \in Users, DeleteCase(u)
  PROVE  CaseInv' /\ Grows(u)
<1>1. TypeOK /\ page[u] \in DeletePage
  BY PageKinds DEF CaseInv, DeleteCase
<1>2. PICK left \in SUBSET Cases : left = page[u].left
  BY <1>1 DEF DeletePage
<1>3. PICK p \in {NoPage, [kind |-> "delete", left |-> left, ok |-> 0]} : p = Deleting(left, 0)
  BY DEF Deleting
<1>4. Show(u, p) /\ p \in Page
  BY <1>2, <1>3 DEF DeleteCase, Page, DeletePage
<1>5. page' \in [Users -> Page]
  BY <1>1, <1>4, ShowType
<1>6. \A c \in Cases : row'[c] \in {row[c], Gone} /\ row'[c] \in Row
  BY <1>1 DEF DeleteCase, Without, TypeOK, Row
<1>7. row' \in [Cases -> Row]
  BY <1>6 DEF DeleteCase, Without
<1>8. TypeOK'
  BY <1>1, <1>5, <1>7 DEF TypeOK, DeleteCase
<1>9. Gone # Unused /\ Gone.st \notin 2..5
  BY DEF Gone, Unused
<1>10. /\ \A c \in Cases : Used(c) => Used(c)'
       /\ \A c \in Cases : row'[c].st \in 2..5 => row'[c] = row[c]
  BY <1>6, <1>9 DEF Used
<1> QED  BY <1>4, <1>8, <1>10, DeletePageInv DEF DeleteCase
-----------------------------------------------------------------------------
(* Executing *)

LEMMA GiveVerdictInv ==
  ASSUME CaseInv, NEW u \in Users, NEW v \in Versions, NEW res \in Verdicts,
         GiveVerdict(u, v, res)
  PROVE  CaseInv' /\ Grows(u)
<1>1. TypeOK /\ PageOK(u) /\ res \in 2..5
  BY VerdictsAssumption DEF CaseInv
<1>2. PICK f \in FormPage : page[u] = f
  BY <1>1, PageKinds DEF GiveVerdict
<1>3. FormOK(f)
  BY <1>1, <1>2 DEF PageOK
<1>4. PICK c \in Cases : f.case = c
  BY DEF FormPage
<1>5. /\ Rows(c, v) \subseteq 1..Len(rests[c][v])
      /\ Len(rests[c][v]) \in Nat
  BY <1>1, RestsType
<1>6. PICK found \in SUBSET Nat : found = Rows(c, v)
  BY <1>5
<1>7. PICK p \in VerdictPage :
        p = [kind |-> "verdict", form |-> f, ver |-> v, res |-> res, found |-> found]
  BY <1>1 DEF VerdictPage
<1>8. Show(u, p)
  BY <1>2, <1>4, <1>6, <1>7 DEF GiveVerdict
<1>9. /\ page' \in [Users -> Page] /\ page'[u] = p
      /\ \A w \in Users \ {u} : page'[w] = page[w]
  BY <1>1, <1>8, ShowType DEF Page
<1>10. TypeOK'
  BY <1>1, <1>9 DEF TypeOK, GiveVerdict
<1>11. FoundOK(u, c, v, found)'
  BY <1>5, <1>6 DEF FoundOK, Rows, GiveVerdict
<1>12. FormOK(f)'
  BY <1>3 DEF FormOK, Used, Executed, Rows, GiveVerdict
<1>13. p.form = f /\ p.ver = v /\ p.found = found
  BY <1>7
<1>14. PageOK(u)'
  BY <1>4, <1>9, <1>11, <1>12, <1>13, VerdictPageOK
<1> QED  BY <1>9, <1>10, <1>14, NoResultWritten DEF GiveVerdict, Used

LEMMA VerdictFailsInv ==
  ASSUME CaseInv, NEW u \in Users, VerdictFails(u)
  PROVE  CaseInv' /\ Grows(u)
<1>1. TypeOK /\ PageOK(u)
  BY DEF CaseInv
<1>2. PICK p \in VerdictPage : page[u] = p
  BY <1>1, PageKinds DEF VerdictFails
<1>3. PICK f \in FormPage : p.form = f
  BY DEF VerdictPage
<1>4. FormOK(f) /\ Show(u, f)
  BY <1>1, <1>2, <1>3 DEF PageOK, VerdictFails
<1>5. /\ page' \in [Users -> Page] /\ page'[u] = f
      /\ \A w \in Users \ {u} : page'[w] = page[w]
  BY <1>1, <1>4, ShowType DEF Page
<1>6. TypeOK'
  BY <1>1, <1>5 DEF TypeOK, VerdictFails
<1>7. FormOK(f)'
  BY <1>4 DEF FormOK, Used, Executed, Rows, VerdictFails
<1>8. PageOK(u)'
  BY <1>5, <1>7, FormPageOK
<1> QED  BY <1>5, <1>6, <1>8, NoResultWritten DEF VerdictFails, Used

(* One user records a verdict r of the cases in S in version v.            *)
Records(u, S, v, F, r) ==
  /\ \A c \in S : /\ Used(c) /\ FoundOK(u, c, v, F[c])
                  /\ rests'[c][v] \in Written(rests[c][v], F[c], r)
  /\ \A c \in Cases, w \in Versions : c \notin S \/ w # v => rests'[c][w] = rests[c][w]
  /\ \A c \in Cases : row'[c] = IF c \in S /\ Listed(c) THEN [row[c] EXCEPT !.st = r.res]
                                ELSE row[c]
  /\ \A c \in Cases : newest'[c] = IF c \in S THEN r.res ELSE newest[c]
  /\ \A c \in DOMAIN pack' : (c \in DOMAIN pack /\ pack'[c] = pack[c]) \/ c \in S
  /\ \A w \in Users \ {u} : page'[w] = page[w]
  /\ PageOK(u)'

LEMMA ResultsWritten ==
  ASSUME CaseInv, TypeOK', NEW u \in Users, NEW S \in SUBSET Cases, NEW v \in Versions,
         NEW F, NEW r \in Result, r # NoResult, r.by = u, Records(u, S, v, F, r)
  PROVE  CaseInv' /\ Grows(u) /\ \A c \in S : Rows(c, v)' # {}
<1>0. /\ \A c \in S : /\ Used(c) /\ FoundOK(u, c, v, F[c])
                      /\ rests'[c][v] \in Written(rests[c][v], F[c], r)
      /\ \A c \in Cases, w \in Versions : c \notin S \/ w # v => rests'[c][w] = rests[c][w]
      /\ \A c \in Cases : row'[c] = IF c \in S /\ Listed(c) THEN [row[c] EXCEPT !.st = r.res]
                                    ELSE row[c]
      /\ \A c \in Cases : newest'[c] = IF c \in S THEN r.res ELSE newest[c]
      /\ \A c \in DOMAIN pack' : (c \in DOMAIN pack /\ pack'[c] = pack[c]) \/ c \in S
      /\ \A w \in Users \ {u} : page'[w] = page[w]
      /\ PageOK(u)'
  BY DEF Records
<1>1. TypeOK /\ OneEach
  BY DEF CaseInv
<1>2. \A c \in Cases, w \in Versions :
        /\ rests[c][w] \in Seq(Result) /\ rests'[c][w] \in Seq(Result)
        /\ Rows(c, w) = RowsOf(rests[c][w]) /\ Rows(c, w)' = RowsOf(rests'[c][w])
        /\ Len(rests[c][w]) \in Nat
  <2> TAKE c \in Cases, w \in Versions
  <2>1. rests[c][w] \in Seq(Result) /\ rests'[c][w] \in Seq(Result)
    BY <1>1 DEF TypeOK
  <2>2. /\ DOMAIN rests[c][w] = 1..Len(rests[c][w]) /\ Len(rests[c][w]) \in Nat
        /\ DOMAIN rests'[c][w] = 1..Len(rests'[c][w])
    BY <2>1, LenProperties
  <2> QED  BY <2>1, <2>2 DEF Rows, RowsOf
<1>3. \A c \in S :
        /\ Len(rests[c][v]) <= Len(rests'[c][v])
        /\ Rows(c, v)' # {}
        /\ \A i \in Rows(c, v)' :
             rests'[c][v][i] = r \/ (i \in Rows(c, v) /\ rests'[c][v][i] = rests[c][v][i])
        /\ \A i, j \in Rows(c, v)' : rests'[c][v][i].by = rests'[c][v][j].by => i = j
  <2> TAKE c \in S
  <2>1. PICK s \in Seq(Result), t \in Seq(Result) : s = rests[c][v] /\ t = rests'[c][v]
    BY <1>2
  <2>2. PICK found \in SUBSET (1..Len(s)) :
          /\ t \in Written(s, found, r)
          /\ \A i \in RowsOf(s) : s[i].by = r.by => i \in found
    BY <1>0, <1>2, <2>1 DEF FoundOK
  <2>3. \A i, j \in RowsOf(s) : s[i].by = s[j].by => i = j
    BY <1>1, <1>2, <2>1 DEF OneEach
  <2>4. /\ Len(s) <= Len(t) /\ RowsOf(t) # {}
        /\ \A i \in RowsOf(t) : t[i] = r \/ (i \in RowsOf(s) /\ t[i] = s[i])
    BY <2>2, WrittenIs
  <2>5. \A i, j \in RowsOf(t) : t[i].by = t[j].by => i = j
    BY <2>2, <2>3, WrittenOnce
  <2> QED  BY <1>2, <2>1, <2>4, <2>5
<1>4. \A c \in Cases, w \in Versions : c \notin S \/ w # v =>
        rests'[c][w] = rests[c][w] /\ Rows(c, w)' = Rows(c, w)
  BY <1>0, <1>2
<1>5. \A c \in Cases : Used(c) => Used(c)'
  <2> TAKE c \in Cases
  <2>1. CASE c \in S /\ Listed(c)
    <3>1. row[c] \in [st : Status, text : Cases] /\ r.res \in 2..5
      BY <1>1, <2>1 DEF TypeOK, Row, Listed, Unused, Gone, Status, Result, NoResult
    <3>2. row'[c].st = r.res
      BY <1>0, <2>1, <3>1
    <3> QED  BY <3>1, <3>2 DEF Used, Unused
  <2>2. CASE ~(c \in S /\ Listed(c))
    BY <1>0, <2>2 DEF Used
  <2> QED  BY <2>1, <2>2
<1>6. Grows(u)
  BY <1>2, <1>3, <1>4, <1>5 DEF Grows
<1>7. OneEach'
  <2> SUFFICES ASSUME NEW c \in Cases, NEW w \in Versions,
                      NEW i \in Rows(c, w)', NEW j \in Rows(c, w)',
                      rests'[c][w][i].by = rests'[c][w][j].by
               PROVE  i = j
    BY DEF OneEach
  <2>1. CASE c \in S /\ w = v
    BY <1>3, <2>1
  <2>2. CASE c \notin S \/ w # v
    BY <1>1, <1>4, <2>2 DEF OneEach
  <2> QED  BY <2>1, <2>2
<1>8. \A c \in S : Executed(c)'
  BY <1>3 DEF Executed
<1>9. \A c \in Cases : Executed(c) => Executed(c)'
  BY <1>6, ExecutedStays
<1>10. ResultBehindStatus'
  <2> SUFFICES ASSUME NEW c \in Cases
               PROVE  /\ row'[c].st \in 2..5 => Executed(c)'
                      /\ c \in DOMAIN pack' /\ pack'[c] # NoVerdict => Executed(c)'
    BY DEF ResultBehindStatus
  <2>1. CASE c \in S
    BY <1>8, <2>1
  <2>2. CASE c \notin S
    BY <1>0, <1>9, <2>2 DEF CaseInv, ResultBehindStatus
  <2> QED  BY <2>1, <2>2
<1>11. UnusedNew'
  <2> SUFFICES ASSUME NEW c \in Cases, ~Used(c)' PROVE newest'[c] = NoVerdict
    BY DEF UnusedNew
  <2>1. ~Used(c) /\ c \notin S
    BY <1>0, <1>5
  <2> QED  BY <1>0, <2>1 DEF CaseInv, UnusedNew
<1>12. \A w \in Users : PageOK(w)'
  BY <1>0, <1>6, OtherPages
<1> QED  BY <1>3, <1>6, <1>7, <1>10, <1>11, <1>12 DEF CaseInv

LEMMA RecordVerdictInv ==
  ASSUME CaseInv, NEW u \in Users, RecordVerdict(u)
  PROVE  CaseInv' /\ Grows(u)
<1>1. TypeOK /\ PageOK(u)
  BY DEF CaseInv
<1>2. PICK p \in VerdictPage : page[u] = p
  BY <1>1, PageKinds DEF RecordVerdict
<1>3. PICK f \in FormPage, v \in Versions, found \in SUBSET Nat, res \in 2..5 :
        p.form = f /\ p.ver = v /\ p.found = found /\ p.res = res
  BY DEF VerdictPage
<1>4. PICK c \in Cases : f.case = c
  BY DEF FormPage
<1>5. Used(c) /\ FoundOK(u, c, v, found)
  BY <1>1, <1>2, <1>3, <1>4 DEF PageOK, FormOK
<1>6. PICK r \in Result : r = [res |-> res, by |-> u]
  BY DEF Result
<1>7. r.res = res /\ r.by = u /\ r # NoResult
  BY <1>6 DEF NoResult, NoVerdict
<1>8. PICK t \in Written(rests[c][v], found, r) : rests' = [rests EXCEPT ![c][v] = t]
  BY <1>2, <1>3, <1>4, <1>6 DEF RecordVerdict
<1>9. t \in Seq(Result)
  <2>1. PICK s \in Seq(Result) : s = rests[c][v]
    BY <1>1, RestsType
  <2>2. found \in SUBSET (1..Len(s)) /\ t \in Written(s, found, r)
    BY <1>5, <2>1 DEF FoundOK
  <2> QED  BY <1>7, <2>2, WrittenIs
<1>10. /\ rests' \in [Cases -> [Versions -> Seq(Result)]]
       /\ rests'[c][v] = t
       /\ \A d \in Cases, w \in Versions : d # c \/ w # v => rests'[d][w] = rests[d][w]
  BY <1>1, <1>8, <1>9 DEF TypeOK
<1>11. /\ newest' = [newest EXCEPT ![c] = res]
       /\ SetStatus({c}, res)
       /\ pack' = IF f.inPack /\ c \in DOMAIN pack THEN [pack EXCEPT ![c] = res] ELSE pack
       /\ Show(u, NoPage)
  BY <1>2, <1>3, <1>4 DEF RecordVerdict
<1>12. \A d \in Cases : row'[d] = IF d = c /\ Listed(d) THEN [row[d] EXCEPT !.st = res]
                                  ELSE row[d]
  BY <1>11 DEF SetStatus
<1>13. row' \in [Cases -> Row]
  <2>1. \A d \in Cases : Listed(d) => row[d] \in [st : Status, text : Cases]
    BY <1>1 DEF TypeOK, Listed, Row, Unused, Gone, Status
  <2>2. \A x \in [st : Status, text : Cases] : [x EXCEPT !.st = res] \in Row
    BY DEF Row, Status
  <2>3. \A d \in Cases : row[d] \in Row
    BY <1>1 DEF TypeOK
  <2>4. \A d \in Cases : row'[d] \in Row
    BY <1>12, <2>1, <2>2, <2>3
  <2> QED  BY <1>11, <2>4 DEF SetStatus
<1>14. /\ newest' \in [Cases -> Verdict]
       /\ \A d \in Cases : newest'[d] = IF d = c THEN res ELSE newest[d]
  BY <1>1, <1>11 DEF TypeOK, Verdict
<1>15. /\ DOMAIN pack' = DOMAIN pack
       /\ \A d \in DOMAIN pack : pack'[d] = pack[d] \/ (d = c /\ pack'[d] = res)
  BY <1>11
<1>16. /\ page' \in [Users -> Page] /\ page'[u] = NoPage
       /\ \A w \in Users \ {u} : page'[w] = page[w]
  BY <1>1, <1>11, ShowType DEF Page
<1>17. TypeOK'
  BY <1>1, <1>10, <1>13, <1>14, <1>15, <1>16 DEF TypeOK, Verdict
<1>18. PageOK(u)'
  BY <1>16, NoPageOK
<1>19. PICK S \in SUBSET Cases : S = {c}
  OBVIOUS
<1>20. PICK F : F = [d \in S |-> found]
  OBVIOUS
<1>21. \A d \in S : /\ Used(d) /\ FoundOK(u, d, v, F[d])
                    /\ rests'[d][v] \in Written(rests[d][v], F[d], r)
  BY <1>5, <1>8, <1>10, <1>19, <1>20
<1>22. \A d \in Cases, w \in Versions : d \notin S \/ w # v => rests'[d][w] = rests[d][w]
  BY <1>10, <1>19
<1>23. \A d \in Cases : row'[d] = IF d \in S /\ Listed(d) THEN [row[d] EXCEPT !.st = r.res]
                                  ELSE row[d]
  BY <1>7, <1>12, <1>19
<1>24. \A d \in Cases : newest'[d] = IF d \in S THEN r.res ELSE newest[d]
  BY <1>7, <1>14, <1>19
<1>25. \A d \in DOMAIN pack' : (d \in DOMAIN pack /\ pack'[d] = pack[d]) \/ d \in S
  BY <1>15, <1>19
<1>26. Records(u, S, v, F, r)
  BY <1>16, <1>18, <1>21, <1>22, <1>23, <1>24, <1>25 DEF Records
<1> QED  BY <1>7, <1>17, <1>26, ResultsWritten
-----------------------------------------------------------------------------
(* All steps *)

LEMMA CaseStepInv ==
  ASSUME CaseInv, NEW u \in Users, CaseStep(u)
  PROVE  CaseInv' /\ Grows(u)
<1>1. CASE AddCase(u)  BY <1>1, AddCaseInv
<1>2. CASE \E c \in Cases, kind \in {"edit", "execute"}, inPack \in BOOLEAN :
             OpenCase(u, c, kind, inPack)
  BY <1>2, OpenCaseInv
<1>3. CASE SaveCase(u)  BY <1>3, SaveCaseInv
<1>4. CASE ClosePage(u)  BY <1>4, NoPageInv DEF ClosePage
<1>5. CASE \E v \in Versions, res \in Verdicts : GiveVerdict(u, v, res)
  BY <1>5, GiveVerdictInv
<1>6. CASE RecordVerdict(u)  BY <1>6, RecordVerdictInv
<1>7. CASE VerdictFails(u)  BY <1>7, VerdictFailsInv
<1>8. CASE \E S \in SUBSET Cases : AskDelete(u, S)  BY <1>8, AskDeleteInv
<1>9. CASE \E c \in Cases : CheckDelete(u, c)  BY <1>9, CheckDeleteInv
<1>10. CASE DeleteCase(u)  BY <1>10, DeleteCaseInv
<1>11. CASE \E S \in SUBSET Cases : ChooseForPack(u, S)  BY <1>11, ChooseInv
<1> QED  BY <1>1, <1>2, <1>3, <1>4, <1>5, <1>6, <1>7, <1>8, <1>9, <1>10, <1>11 DEF CaseStep

LEMMA CaseStutter ==
  ASSUME CaseInv, UNCHANGED vars
  PROVE  CaseInv' /\ \A u : Grows(u)
<1>1. TypeOK /\ TypeOK'
  BY DEF CaseInv, TypeOK, vars
<1>2. /\ \A c, v : Rows(c, v)' = Rows(c, v)
      /\ \A c : Executed(c)' = Executed(c)
      /\ \A c : Used(c)' = Used(c)
  BY DEF Rows, Executed, Used, vars
<1>3. \A u : Grows(u)
  BY <1>1, <1>2, RestsSame DEF vars
<1>4. ResultBehindStatus' /\ OneEach' /\ UnusedNew'
  BY <1>2 DEF CaseInv, ResultBehindStatus, OneEach, UnusedNew, vars
<1>5. \A u \in Users : PageOK(u)'
  BY <1>1, <1>2, SamePage DEF CaseInv, vars
<1> QED  BY <1>1, <1>3, <1>4, <1>5 DEF CaseInv

LEMMA CaseInit == Init => CaseInv
<1> SUFFICES ASSUME Init PROVE CaseInv
  OBVIOUS
<1>1. \A c \in Cases, v \in Versions : Rows(c, v) = {}
  BY DEF Init, Rows
<1>2. TypeOK
  <2>1. <<>> \in Seq(Result)
    BY EmptySeq
  <2>2. rests \in [Cases -> [Versions -> Seq(Result)]]
    BY <2>1 DEF Init
  <2> QED  BY <2>2 DEF Init, TypeOK, Row, Verdict, Page
<1>3. ResultBehindStatus
  BY DEF Init, ResultBehindStatus, Unused
<1>4. OneEach /\ UnusedNew
  BY <1>1 DEF Init, OneEach, UnusedNew
<1>5. \A u \in Users : PageOK(u)
  BY Kinds DEF Init, PageOK
<1> QED  BY <1>2, <1>3, <1>4, <1>5 DEF CaseInv

(* A form, a verdict on its way and a deletion that was allowed rest on    *)
(* results that others cannot take away.                                   *)
THEOREM CaseInvAlways == Spec => []CaseInv
<1>1. CaseInv /\ [Next]_vars => CaseInv'
  <2> SUFFICES ASSUME CaseInv, [Next]_vars PROVE CaseInv'
    OBVIOUS
  <2>1. CASE UNCHANGED vars  BY <2>1, CaseStutter
  <2>2. CASE Next  BY <2>2, CaseStepInv DEF Next
  <2> QED  BY <2>1, <2>2
<1> QED  BY <1>1, CaseInit, PTL DEF Spec

(* No more than one result of a version is any user's, so their number is  *)
(* bounded by the users', however executions overlap.                      *)
LEMMA FewResults ==
  ASSUME CaseInv
  PROVE  DuplicatesBounded
<1> SUFFICES ASSUME NEW c \in Cases, NEW v \in Versions
             PROVE  Cardinality(Rows(c, v)) <= Cardinality(Users)
  BY DEF DuplicatesBounded
<1> DEFINE f == [i \in Rows(c, v) |-> rests[c][v][i].by]
<1>1. \A i \in Rows(c, v) : rests[c][v][i].by \in Users
  <2> TAKE i \in Rows(c, v)
  <2>1. rests[c][v][i] \in Result /\ rests[c][v][i] # NoResult
    BY RestsType DEF CaseInv, Rows
  <2> QED  BY <2>1 DEF Result
<1>2. f \in [Rows(c, v) -> Users]
  BY <1>1
<1>3. \A i, j \in Rows(c, v) : f[i] = f[j] => i = j
  BY DEF CaseInv, OneEach
<1>4. f \in Injection(Rows(c, v), Users)
  BY <1>2, <1>3 DEF Injection, IsInjective
<1> HIDE DEF f
<1> QED  BY <1>4, FS_Injection, UsersAssumption

-----------------------------------------------------------------------------
(* What a step of one user may never do *)

(* Every step keeps a result of each version that has one.                 *)
LEMMA GrowsKeeps ==
  ASSUME NEW u, Grows(u)
  PROVE  \A c \in Cases, v \in Versions : Rows(c, v) # {} => Rows(c, v)' # {}
  BY DEF Grows

(* Between asking for results and deleting, the user who deletes writes    *)
(* none.                                                                   *)
LEMMA NoOwnResult ==
  ASSUME CaseInv, NEW u \in Users, On(u, {"delete"}), page[u].ok # 0
  PROVE  NoneBy(u, page[u].ok)
  BY PageKinds DEF CaseInv, PageOK

(* A step that does not save a form leaves the newest verdict in sight.    *)
LEMMA ShowsKept ==
  ASSUME TypeOK, NEW c \in Cases, ShowsNewest(c), row'[c] \in {row[c], Gone}, newest' = newest
  PROVE  ShowsNewest(c)'
<1>1. Gone.st \notin Status
  BY DEF Gone, Status
<1> QED  BY <1>1 DEF ShowsNewest, Listed

LEMMA CaseStepShows ==
  ASSUME CaseInv, NEW u \in Users, CaseStep(u), NEW c \in Cases,
         ShowsNewest(c), ~ShowsNewest(c)'
  PROVE  /\ On(u, {"edit", "execute"}) /\ page[u].case = c
         /\ page[u].st # row[c].st /\ page'[u] = NoPage
<1>1. TypeOK
  BY DEF CaseInv
<1>2. ASSUME row' = row, newest' = newest PROVE FALSE
  BY <1>1, <1>2, ShowsKept
<1>3. ASSUME NEW d \in Fresh, row' = [row EXCEPT ![d] = NewRow(d)], newest' = newest
      PROVE  FALSE
  <2>1. CASE c = d
    <3>1. newest[c] = NoVerdict
      BY <1>3, <2>1 DEF CaseInv, UnusedNew, Used, Fresh
    <3> QED  BY <1>3, <3>1 DEF ShowsNewest
  <2>2. CASE c # d
    BY <1>1, <1>3, <2>2, ShowsKept
  <2> QED  BY <2>1, <2>2
<1>4. CASE AddCase(u)
  BY <1>3, <1>4 DEF AddCase
<1>5. CASE DeleteCase(u)
  <2>1. row'[c] \in {row[c], Gone}
    BY <1>5 DEF DeleteCase, Without
  <2> QED  BY <1>1, <1>5, <2>1, ShowsKept DEF DeleteCase
<1>6. CASE RecordVerdict(u)
  <2>1. PICK p \in VerdictPage : page[u] = p
    BY <1>1, <1>6, PageKinds DEF RecordVerdict
  <2>2. PICK d \in Cases, res \in 2..5 : p.form.case = d /\ p.res = res
    BY DEF VerdictPage, FormPage
  <2>3. newest' = [newest EXCEPT ![d] = res] /\ SetStatus({d}, res)
    BY <1>6, <2>1, <2>2 DEF RecordVerdict
  <2>4. CASE c # d
    BY <1>1, <2>3, <2>4 DEF SetStatus, ShowsNewest, Listed, TypeOK
  <2>5. CASE c = d
    <3>1. newest'[c] = res /\ row'[c] = IF Listed(c) THEN [row[c] EXCEPT !.st = res] ELSE row[c]
      BY <1>1, <2>3, <2>5 DEF SetStatus, TypeOK
    <3>2. CASE Listed(c)
      <4>1. row[c] \in [st : Status, text : Cases]
        BY <1>1, <3>2 DEF TypeOK, Listed, Row, Unused, Gone, Status
      <4>2. row'[c].st = res
        BY <3>1, <3>2, <4>1
      <4> QED  BY <3>1, <4>2 DEF ShowsNewest
    <3>3. CASE ~Listed(c)
      BY <3>1, <3>3 DEF ShowsNewest, Listed
    <3> QED  BY <3>2, <3>3
  <2> QED  BY <2>4, <2>5
<1>7. CASE SaveCase(u)
  <2>1. PICK f \in FormPage : page[u] = f
    BY <1>1, <1>7, PageKinds DEF SaveCase
  <2>2. PICK d \in Cases, st \in Status : f.case = d /\ f.st = st
    BY DEF FormPage
  <2>3. row' = [row EXCEPT ![d].st = EditedStatus(st)] /\ newest' = newest /\ Listed(d)
        /\ Show(u, NoPage) /\ On(u, {"edit", "execute"})
    BY <1>7, <2>1, <2>2 DEF SaveCase
  <2>4. page'[u] = NoPage
    BY <1>1, <2>3, ShowType DEF Page
  <2>5. c = d
    <3>1. CASE c # d
      BY <1>1, <2>3, <3>1, ShowsKept DEF TypeOK
    <3> QED  BY <3>1
  <2>6. st # row[c].st
    <3> SUFFICES ASSUME st = row[c].st PROVE FALSE
      OBVIOUS
    <3>1. newest[c] # NoVerdict /\ row[c].st = newest[c] /\ newest[c] \in 2..5
      BY <1>1, <2>3, <2>5 DEF ShowsNewest, TypeOK, Verdict
    <3>2. EditedStatus(st) = row[c].st
      BY <3>1 DEF EditedStatus
    <3>3. row[c] \in [st : Status, text : Cases]
      BY <1>1, <2>3, <2>5 DEF TypeOK, Listed, Row, Unused, Gone, Status
    <3>4. row'[c].st = row[c].st
      BY <1>1, <2>3, <2>5, <3>2, <3>3 DEF TypeOK
    <3> QED  BY <2>3, <3>1, <3>4 DEF ShowsNewest
  <2> QED  BY <2>1, <2>2, <2>3, <2>4, <2>5, <2>6
<1>8. CASE ~AddCase(u) /\ ~DeleteCase(u) /\ ~RecordVerdict(u) /\ ~SaveCase(u)
  <2>1. row' = row /\ newest' = newest
    BY <1>8 DEF CaseStep, OpenCase, ClosePage, GiveVerdict, VerdictFails, AskDelete, CheckDelete,
       ChooseForPack
  <2> QED  BY <1>2, <2>1
<1> QED  BY <1>4, <1>5, <1>6, <1>7, <1>8
=============================================================================
