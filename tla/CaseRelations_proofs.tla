-------------------------- MODULE CaseRelations_proofs --------------------------
(***************************************************************************)
(* What the cases keep when bugs are related to them as well, for every    *)
(* number of users, cases, versions and bugs: the relation of cases writes *)
(* results next to the executions, and the mark of a bug is written next   *)
(* to its relations.                                                       *)
(***************************************************************************)
EXTENDS CaseRelations, TestCases_proofs

-----------------------------------------------------------------------------
(* The invariant *)

RelaTypes ==
  /\ rela \in [Bugs -> Seq(Cases \cup {0})]
  /\ flag \in [Bugs -> Nat]
  /\ desk \in [Users -> {NoDesk} \cup ListDesk \cup SaveDesk \cup BugDesk]

(* The relation of cases on its way found whatever its user wrote before.  *)
ListOK(d) == d.cases # {} /\ \A c \in d.cases : Used(c)
SaveOK(u, d) ==
  /\ d.cases # {}
  /\ \A c \in d.cases : Used(c) /\ FoundOK(u, c, BugVersion[d.bug], d.found[c])

DeskOK(u) ==
  /\ ~At(u, "none") => On(u, {"none"})
  /\ \A d \in ListDesk : desk[u] = d => ListOK(d)
  /\ \A d \in SaveDesk : desk[u] = d => SaveOK(u, d)

RelaInv ==
  /\ CaseInv
  /\ RelaTypes
  /\ RelatedHasResult
  /\ \A u \in Users : DeskOK(u)
-----------------------------------------------------------------------------
(* Types *)

LEMMA DeskKinds ==
  /\ \A d \in ListDesk : d.kind = "list"
  /\ \A d \in SaveDesk : d.kind = "save"
  /\ \A d \in BugDesk : d.kind = "bug"
  /\ NoDesk.kind = "none"
  BY DEF ListDesk, SaveDesk, BugDesk, NoDesk

LEMMA AtKinds ==
  ASSUME RelaTypes, NEW u \in Users
  PROVE  /\ At(u, "list") => desk[u] \in ListDesk
         /\ At(u, "save") => desk[u] \in SaveDesk
         /\ At(u, "bug") => desk[u] \in BugDesk
         /\ At(u, "none") => desk[u] = NoDesk
<1>1. desk[u] \in {NoDesk} \cup ListDesk \cup SaveDesk \cup BugDesk
  BY DEF RelaTypes
<1> QED  BY <1>1, DeskKinds DEF At

LEMMA PutType ==
  ASSUME RelaTypes, NEW u \in Users,
         NEW d \in {NoDesk} \cup ListDesk \cup SaveDesk \cup BugDesk, Put(u, d)
  PROVE  /\ desk' \in [Users -> {NoDesk} \cup ListDesk \cup SaveDesk \cup BugDesk]
         /\ desk'[u] = d
         /\ \A w \in Users \ {u} : desk'[w] = desk[w]
  BY DEF RelaTypes, Put

LEMMA LinkTypes ==
  ASSUME RelaTypes, NEW b \in Bugs
  PROVE  /\ rela[b] \in Seq(Cases \cup {0}) /\ Len(rela[b]) \in Nat
         /\ DOMAIN rela[b] = 1..Len(rela[b])
         /\ \A i \in 1..Len(rela[b]) : rela[b][i] \in Cases \cup {0}
         /\ Links(rela[b]) \subseteq 1..Len(rela[b])
         /\ \A i \in Links(rela[b]) : rela[b][i] \in Cases
<1>1. rela[b] \in Seq(Cases \cup {0})
  BY DEF RelaTypes
<1>2. Len(rela[b]) \in Nat /\ DOMAIN rela[b] = 1..Len(rela[b])
  BY <1>1, LenProperties
<1>3. \A i \in 1..Len(rela[b]) : rela[b][i] \in Cases \cup {0}
  BY <1>1, ElementOfSeq
<1> QED  BY <1>1, <1>2, <1>3 DEF Links
-----------------------------------------------------------------------------
(* The desks *)

LEMMA OtherDesk ==
  ASSUME TypeOK, TypeOK', NEW u \in Users, Grows(u), NEW w \in Users, w # u,
         desk'[w] = desk[w], page'[w] = page[w], DeskOK(w)
  PROVE  DeskOK(w)'
<1>1. \A c \in Cases : Used(c) => Used(c)'
  BY DEF Grows
<1>2. ASSUME NEW d \in ListDesk, desk'[w] = d PROVE ListOK(d)'
  <2>1. ListOK(d) /\ d.cases \in SUBSET Cases
    BY <1>2 DEF DeskOK, ListDesk
  <2> QED  BY <1>1, <2>1 DEF ListOK
<1>3. ASSUME NEW d \in SaveDesk, desk'[w] = d PROVE SaveOK(w, d)'
  <2>1. SaveOK(w, d) /\ d.cases \in SUBSET Cases /\ d.bug \in Bugs
    BY <1>3 DEF DeskOK, SaveDesk
  <2>2. PICK v \in Versions : v = BugVersion[d.bug]
    BY <2>1, BugVersionAssumption
  <2>3. ASSUME NEW c \in d.cases PROVE FoundOK(w, c, v, d.found[c])'
    BY <2>1, <2>2, <2>3, FoundStays DEF SaveOK
  <2> QED  BY <1>1, <2>1, <2>2, <2>3 DEF SaveOK
<1> QED  BY <1>2, <1>3 DEF DeskOK, At, On

LEMMA OtherDesks ==
  ASSUME RelaInv, TypeOK', NEW u \in Users, Grows(u),
         \A w \in Users \ {u} : desk'[w] = desk[w] /\ page'[w] = page[w], DeskOK(u)'
  PROVE  \A w \in Users : DeskOK(w)'
<1> TAKE w \in Users
<1>1. CASE w = u  BY <1>1
<1>2. CASE w # u  BY <1>2, OtherDesk DEF RelaInv, CaseInv
<1> QED  BY <1>1, <1>2

LEMMA NoDeskOK ==
  ASSUME NEW u, desk'[u] = NoDesk
  PROVE  DeskOK(u)'
  BY DeskKinds DEF DeskOK, At

(* Results of related cases stay, while the relations are the same.        *)
LEMMA RelatedStays ==
  ASSUME RelaTypes, RelatedHasResult, NEW u, Grows(u), rela' = rela
  PROVE  RelatedHasResult'
<1> SUFFICES ASSUME NEW b \in Bugs, NEW i \in Links(rela[b])
             PROVE  Rows(rela[b][i], BugVersion[b])' # {}
  BY DEF RelatedHasResult
<1>1. PICK c \in Cases : c = rela[b][i]
  BY LinkTypes
<1>2. PICK v \in Versions : v = BugVersion[b]
  BY BugVersionAssumption
<1>3. Rows(c, v) # {}
  BY <1>1, <1>2 DEF RelatedHasResult
<1>4. Rows(c, v)' # {}
  BY <1>3, GrowsKeeps
<1> QED  BY <1>1, <1>2, <1>4 DEF Rows
-----------------------------------------------------------------------------
(* Steps that leave the cases or the relations alone *)

(* Only the user who takes the step sees another page. *)
LEMMA CaseStepPages ==
  ASSUME TypeOK, NEW u \in Users, CaseStep(u)
  PROVE  \A w \in Users \ {u} : page'[w] = page[w]
<1>1. \A p : Show(u, p) => \A w \in Users \ {u} : page'[w] = page[w]
  BY SMTT(30) DEF Show, TypeOK
<1>2. page' = page \/ \E p : Show(u, p)
  BY DEF CaseStep, AddCase, OpenCase, SaveCase, ClosePage, GiveVerdict, RecordVerdict,
     VerdictFails, AskDelete, CheckDelete, DeleteCase, ChooseForPack
<1> QED  BY <1>1, <1>2

LEMMA CaseStepRela ==
  ASSUME RelaInv, NEW u \in Users, At(u, "none"), CaseStep(u), UNCHANGED relaVars
  PROVE  RelaInv'
<1>1. CaseInv' /\ Grows(u)
  BY CaseStepInv DEF RelaInv
<1>2. TypeOK /\ TypeOK'
  BY <1>1 DEF RelaInv, CaseInv
<1>3. RelaTypes' /\ RelatedHasResult'
  BY <1>1, RelatedStays DEF RelaInv, RelaTypes, relaVars
<1>4. desk'[u] = NoDesk
  BY AtKinds DEF RelaInv, relaVars
<1>5. \A w \in Users \ {u} : desk'[w] = desk[w] /\ page'[w] = page[w]
  BY <1>2, CaseStepPages DEF relaVars
<1>6. \A w \in Users : DeskOK(w)'
  BY <1>1, <1>2, <1>4, <1>5, NoDeskOK, OtherDesks
<1> QED  BY <1>1, <1>3, <1>6 DEF RelaInv

(* The cases are left alone, and one user sees another page of a bug. *)
LEMMA DeskStep ==
  ASSUME RelaInv, UNCHANGED vars, NEW u \in Users, rela' = rela, flag' \in [Bugs -> Nat],
         NEW d \in {NoDesk} \cup ListDesk \cup SaveDesk \cup BugDesk, Put(u, d),
         d # NoDesk => On(u, {"none"}),
         d \in ListDesk => ListOK(d), d \in SaveDesk => SaveOK(u, d)
  PROVE  RelaInv'
<1>1. CaseInv' /\ Grows(u)
  BY CaseStutter DEF RelaInv
<1>2. /\ desk' \in [Users -> {NoDesk} \cup ListDesk \cup SaveDesk \cup BugDesk]
      /\ desk'[u] = d
      /\ \A w \in Users \ {u} : desk'[w] = desk[w]
  BY PutType DEF RelaInv
<1>3. RelaTypes' /\ RelatedHasResult'
  BY <1>1, <1>2, RelatedStays DEF RelaInv, RelaTypes
<1>4. DeskOK(u)'
  <2>1. ~At(u, "none")' => On(u, {"none"})'
    BY <1>2, DeskKinds DEF At, On, vars
  <2>2. ASSUME NEW e \in ListDesk, desk'[u] = e PROVE ListOK(e)'
    BY <1>2, <2>2 DEF ListOK, Used, vars
  <2>3. ASSUME NEW e \in SaveDesk, desk'[u] = e PROVE SaveOK(u, e)'
    BY <1>2, <2>3 DEF SaveOK, Used, FoundOK, Rows, vars
  <2> QED  BY <2>1, <2>2, <2>3 DEF DeskOK
<1>5. \A w \in Users : DeskOK(w)'
  BY <1>1, <1>2, <1>4, OtherDesks DEF CaseInv, vars
<1> QED  BY <1>1, <1>3, <1>5 DEF RelaInv

LEMMA OpenListInv ==
  ASSUME RelaInv, NEW u \in Users, NEW b \in Bugs, NEW S \in SUBSET Cases, OpenList(u, b, S)
  PROVE  RelaInv'
<1>1. PICK d \in ListDesk : d = [kind |-> "list", bug |-> b, cases |-> S]
  BY DEF ListDesk
<1>2. ListOK(d)
  BY <1>1 DEF OpenList, ListOK, Relatable, Listed, Used, Unused, Status
<1>3. d \notin SaveDesk
  BY <1>1, DeskKinds
<1> QED  BY <1>1, <1>2, <1>3, DeskStep DEF OpenList, Idle, RelaInv, RelaTypes

LEMMA FindRelatedInv ==
  ASSUME RelaInv, NEW u \in Users, FindRelated(u)
  PROVE  RelaInv'
<1>1. TypeOK /\ RelaTypes /\ DeskOK(u) /\ On(u, {"none"})
  <2>1. ~At(u, "none")
    BY DEF FindRelated, At
  <2> QED  BY <2>1 DEF RelaInv, CaseInv, DeskOK
<1>2. PICK l \in ListDesk : desk[u] = l
  BY <1>1, AtKinds DEF FindRelated
<1>3. PICK b \in Bugs, S \in SUBSET Cases : l.bug = b /\ l.cases = S
  BY DEF ListDesk
<1>4. PICK v \in Versions : v = BugVersion[b]
  BY BugVersionAssumption
<1>5. PICK old \in Seq(Cases \cup {0}) : old = rela[b]
  BY <1>1 DEF RelaTypes
<1>6. \A c \in Cases : Rows(c, v) \in SUBSET Nat /\ Rows(c, v) \subseteq 1..Len(rests[c][v])
  <2> TAKE c \in Cases
  <2> QED  BY <1>1, RestsType
<1>7. PICK found \in [Cases -> SUBSET Nat] :
        found = [c \in Cases |-> IF c \in S THEN Rows(c, v) ELSE {}]
  BY <1>6
<1>8. PICK d \in SaveDesk :
        d = [kind |-> "save", bug |-> b, cases |-> S, old |-> old, found |-> found]
  BY DEF SaveDesk
<1>9. Put(u, d)
  BY <1>2, <1>3, <1>4, <1>5, <1>7, <1>8 DEF FindRelated
<1>10. ListOK(l)
  BY <1>1, <1>2 DEF DeskOK
<1>11. SaveOK(u, d)
  <2>1. \A c \in S : Used(c) /\ found[c] = Rows(c, v)
    BY <1>3, <1>7, <1>10 DEF ListOK
  <2>2. \A c \in S : FoundOK(u, c, v, found[c])
    BY <1>6, <2>1 DEF FoundOK
  <2> QED  BY <1>3, <1>4, <1>8, <1>10, <2>1, <2>2 DEF SaveOK, ListOK
<1>12. d \notin ListDesk
  BY <1>8, DeskKinds
<1> QED  BY <1>1, <1>9, <1>11, <1>12, DeskStep DEF FindRelated, RelaTypes

LEMMA OpenBugInv ==
  ASSUME RelaInv, NEW u \in Users, NEW b \in Bugs, OpenBug(u, b)
  PROVE  RelaInv'
<1>1. PICK n \in Nat : n = flag[b]
  BY DEF RelaInv, RelaTypes
<1>2. PICK d \in BugDesk : d = [kind |-> "bug", bug |-> b, flag |-> n]
  BY DEF BugDesk
<1>3. d \notin ListDesk /\ d \notin SaveDesk
  BY <1>2, DeskKinds
<1> QED  BY <1>1, <1>2, <1>3, DeskStep DEF OpenBug, Idle, RelaInv, RelaTypes

LEMMA LeaveDesk ==
  ASSUME RelaInv, NEW u \in Users, Put(u, NoDesk), UNCHANGED <<vars, rela>>,
         flag' \in [Bugs -> Nat]
  PROVE  RelaInv'
<1>1. NoDesk \notin ListDesk /\ NoDesk \notin SaveDesk
  BY DeskKinds
<1> QED  BY <1>1, DeskStep

LEMMA PostBugInv ==
  ASSUME RelaInv, NEW u \in Users, PostBug(u)
  PROVE  RelaInv'
<1>1. PICK d \in BugDesk : desk[u] = d
  BY AtKinds DEF RelaInv, PostBug
<1>2. PICK b \in Bugs, n \in Nat : d.bug = b /\ d.flag = n
  BY DEF BugDesk
<1>3. flag' = [flag EXCEPT ![b] = n]
  BY <1>1, <1>2 DEF PostBug
<1>4. flag' \in [Bugs -> Nat]
  BY <1>3 DEF RelaInv, RelaTypes
<1> QED  BY <1>4, LeaveDesk DEF PostBug
-----------------------------------------------------------------------------
(* Saving the relations *)

(* The cases that are checked newly, in any order. *)
LEMMA OrderIs ==
  ASSUME NEW S \in SUBSET Cases, NEW s \in Orders(S)
  PROVE  /\ s \in Seq(Cases \cup {0}) /\ Len(s) \in Nat
         /\ \A i \in 1..Len(s) : s[i] \in S
         /\ \A c \in S : \E i \in 1..Len(s) : s[i] = c
<1>1. Cardinality(S) \in Nat
  BY CasesAssumption, FS_Subset, FS_CardinalityType
<1>2. s \in [1..Cardinality(S) -> S] /\ \A c \in S : \E k \in DOMAIN s : s[k] = c
  BY DEF Orders
<1>3. s \in Seq(Cases \cup {0}) /\ Len(s) = Cardinality(S)
  BY <1>1, <1>2
<1> QED  BY <1>1, <1>2, <1>3

(* What is left of the rows, and what follows them. *)
LEMMA RelinkedIs ==
  ASSUME RelaTypes, NEW b \in Bugs, NEW gone, NEW S \in SUBSET Cases, NEW s \in Orders(S),
         NEW t, t = Relinked(b, gone, s)
  PROVE  /\ t \in Seq(Cases \cup {0})
         /\ \A i \in Links(t) : \/ i \in Links(rela[b]) /\ t[i] = rela[b][i]
                                \/ t[i] \in S
         /\ \A i \in Links(rela[b]) \ gone : i \in Links(t)
         /\ S # {} => Links(t) # {}
<1>1. PICK q \in Seq(Cases \cup {0}) : q = rela[b]
  BY LinkTypes
<1>2. /\ Len(q) \in Nat /\ DOMAIN q = 1..Len(q)
      /\ \A i \in 1..Len(q) : q[i] \in Cases \cup {0}
  BY <1>1, LinkTypes
<1>3. PICK m : m = [i \in 1..Len(q) |-> IF i \in gone THEN 0 ELSE q[i]]
  OBVIOUS
<1>4. m \in Seq(Cases \cup {0}) /\ Len(m) = Len(q)
  <2>1. m \in [1..Len(q) -> Cases \cup {0}]
    BY <1>2, <1>3
  <2> QED  BY <1>2, <2>1
<1>5. t = m \o s
  BY <1>1, <1>2, <1>3 DEF Relinked
<1>6. /\ s \in Seq(Cases \cup {0}) /\ Len(s) \in Nat
      /\ \A i \in 1..Len(s) : s[i] \in S
      /\ \A c \in S : \E i \in 1..Len(s) : s[i] = c
  BY OrderIs
<1>7. /\ t \in Seq(Cases \cup {0}) /\ Len(t) = Len(q) + Len(s)
      /\ \A i \in 1..(Len(q) + Len(s)) : t[i] = IF i <= Len(q) THEN m[i] ELSE s[i - Len(q)]
  BY <1>4, <1>5, <1>6, ConcatProperties
<1>8. DOMAIN t = 1..(Len(q) + Len(s))
  BY <1>7, LenProperties
<1>9. ASSUME NEW i \in Links(t)
      PROVE  (i \in Links(rela[b]) /\ t[i] = rela[b][i]) \/ t[i] \in S
  <2>1. i \in 1..(Len(q) + Len(s)) /\ t[i] # 0
    BY <1>8 DEF Links
  <2>2. CASE i <= Len(q)
    BY <1>1, <1>2, <1>3, <1>6, <1>7, <2>1, <2>2 DEF Links
  <2>3. CASE ~(i <= Len(q))
    <3>1. t[i] = s[i - Len(q)] /\ i - Len(q) \in 1..Len(s)
      BY <1>2, <1>6, <1>7, <2>1, <2>3
    <3> QED  BY <1>6, <3>1
  <2> QED  BY <2>2, <2>3
<1>10. ASSUME NEW i \in Links(rela[b]), i \notin gone PROVE i \in Links(t)
  <2>1. i \in 1..Len(q) /\ q[i] # 0
    BY <1>1, <1>2 DEF Links
  <2>2. i \in 1..(Len(q) + Len(s)) /\ t[i] = q[i]
    BY <1>2, <1>3, <1>6, <1>7, <1>10, <2>1
  <2> QED  BY <1>8, <2>1, <2>2 DEF Links
<1>11. ASSUME S # {} PROVE Links(t) # {}
  <2>1. PICK c \in S : TRUE
    BY <1>11
  <2>2. PICK k \in 1..Len(s) : s[k] = c
    BY <1>6
  <2>3. c # 0
    BY CasesAssumption
  <2>4. Len(q) + k \in 1..(Len(q) + Len(s)) /\ t[Len(q) + k] = c
    <3>1. Len(q) + k \in 1..(Len(q) + Len(s)) /\ ~(Len(q) + k <= Len(q)) /\ Len(q) + k - Len(q) = k
      BY <1>2, <1>6
    <3> QED  BY <1>7, <2>2, <3>1
  <2> QED  BY <1>8, <2>3, <2>4 DEF Links
<1> QED  BY <1>7, <1>9, <1>10, <1>11

LEMMA RelinkedSome ==
  ASSUME RelaTypes, NEW b \in Bugs, NEW gone, NEW S \in SUBSET Cases, S # {},
         NEW s \in Orders(S), NEW t, t = Relinked(b, gone, s)
  PROVE  Links(t) # {}
  BY RelinkedIs

(* The parts of a relation that is saved. *)
Saves(u, d, b, S, s, F, v, r) ==
  /\ desk[u] = d /\ d.bug = b /\ d.cases = S /\ SaveOK(u, d)
  /\ v = BugVersion[b] /\ F = d.found /\ r = [res |-> 3, by |-> u]
  /\ rela' = [rela EXCEPT ![b] = Relinked(b, Doomed(d.old, S), s)]
  /\ flag' = [flag EXCEPT ![b] = NewFlag(b, d.old, S)]

LEMMA SaveParts ==
  ASSUME RelaInv, NEW u \in Users, SaveRelated(u)
  PROVE  \E d \in SaveDesk, b \in Bugs, S \in SUBSET Cases : \E s \in Orders(S \ CasesIn(d.old)) :
           \E v \in Versions, r \in Result : Saves(u, d, b, S, s, d.found, v, r)
<1>1. PICK d \in SaveDesk : desk[u] = d
  BY AtKinds DEF RelaInv, SaveRelated
<1>2. PICK b \in Bugs, S \in SUBSET Cases : d.bug = b /\ d.cases = S
  BY DEF SaveDesk
<1>3. SaveOK(u, d)
  BY <1>1 DEF RelaInv, DeskOK
<1>4. PICK v \in Versions : v = BugVersion[b]
  BY BugVersionAssumption
<1>5. PICK r \in Result : r = [res |-> 3, by |-> u]
  <2>1. PICK three \in 2..5 : three = 3
    OBVIOUS
  <2>2. [res |-> three, by |-> u] \in Result
    BY DEF Result
  <2> QED  BY <2>1, <2>2
<1>6. PICK s \in Orders(S \ CasesIn(d.old)) :
        rela' = [rela EXCEPT ![b] = Relinked(b, Doomed(d.old, S), s)]
  BY <1>1, <1>2 DEF SaveRelated
<1>7. flag' = [flag EXCEPT ![b] = NewFlag(b, d.old, S)]
  BY <1>1, <1>2 DEF SaveRelated
<1>8. Saves(u, d, b, S, s, d.found, v, r)
  BY <1>1, <1>2, <1>3, <1>4, <1>5, <1>6, <1>7 DEF Saves
<1> QED  BY <1>8

LEMMA SaveCases ==
  ASSUME RelaInv, NEW u \in Users, SaveRelated(u),
         NEW d \in SaveDesk, NEW b \in Bugs, NEW S \in SUBSET Cases, NEW s, NEW v \in Versions,
         NEW r \in Result, Saves(u, d, b, S, s, d.found, v, r)
  PROVE  CaseInv' /\ Grows(u) /\ \A c \in S : Rows(c, v)' # {}
<1>1. TypeOK /\ On(u, {"none"})
  BY DEF RelaInv, CaseInv, DeskOK, SaveRelated, At
<1>2. PICK F : F = d.found
  OBVIOUS
<1>3. PICK new : /\ \A c \in S : new[c] \in Written(rests[c][v], F[c], r)
                 /\ rests' = [c \in Cases |-> IF c \in S THEN [rests[c] EXCEPT ![v] = new[c]]
                                              ELSE rests[c]]
  <2>1. d = desk[u] /\ d.bug = b /\ d.cases = S /\ BugVersion[b] = v
        /\ r = [res |-> 3, by |-> u]
    BY DEF Saves
  <2>2. PICK new :
          /\ \A c \in S : new[c] \in Failures(u, d, c)
          /\ rests' = [c \in Cases |-> IF c \in S THEN [rests[c] EXCEPT ![v] = new[c]]
                                       ELSE rests[c]]
    BY <2>1, ZenonT(30) DEF SaveRelated
  <2>3. \A c \in S : Failures(u, d, c) = Written(rests[c][v], F[c], r)
    BY <1>2, <2>1 DEF Failures
  <2> QED  BY <2>2, <2>3
<1>4. /\ newest' = [c \in Cases |-> IF c \in S THEN 3 ELSE newest[c]]
      /\ SetStatus(S, 3) /\ pack' = pack /\ page' = page
  BY DEF SaveRelated, Saves
<1>5. r # NoResult /\ r.by = u /\ r.res = 3
  BY DEF Saves, NoResult, NoVerdict
<1>6. \A c \in S : Used(c) /\ FoundOK(u, c, v, F[c])
  BY <1>2 DEF Saves, SaveOK
<1>7. \A c \in S : new[c] \in Seq(Result)
  <2> TAKE c \in S
  <2>1. PICK q \in Seq(Result) : q = rests[c][v]
    BY <1>1, RestsType
  <2>2. PICK t : t = new[c]
    OBVIOUS
  <2>3. PICK found \in SUBSET (1..Len(q)) : found = F[c]
    BY <1>6, <2>1 DEF FoundOK
  <2>4. t \in Written(q, found, r)
    BY <1>3, <2>1, <2>2, <2>3
  <2> QED  BY <1>5, <2>2, <2>4, WrittenIs
<1>8. /\ rests' \in [Cases -> [Versions -> Seq(Result)]]
      /\ \A c \in S : rests'[c][v] = new[c]
      /\ \A c \in Cases, w \in Versions : c \notin S \/ w # v => rests'[c][w] = rests[c][w]
  BY <1>1, <1>3, <1>7 DEF TypeOK
<1>9. \A c \in Cases : row'[c] = IF c \in S /\ Listed(c) THEN [row[c] EXCEPT !.st = r.res]
                                 ELSE row[c]
  BY <1>4, <1>5 DEF SetStatus
<1>10. row' \in [Cases -> Row]
  <2>1. \A c \in Cases : Listed(c) => row[c] \in [st : Status, text : Cases]
    BY <1>1 DEF TypeOK, Listed, Row, Unused, Gone, Status
  <2>2. \A x \in [st : Status, text : Cases] : [x EXCEPT !.st = r.res] \in Row
    <3>1. r.res \in Status
      BY <1>5 DEF Status
    <3> QED  BY <3>1 DEF Row
  <2>3. \A c \in Cases : row[c] \in Row
    BY <1>1 DEF TypeOK
  <2>4. \A c \in Cases : row'[c] \in Row
    BY <1>9, <2>1, <2>2, <2>3
  <2> QED  BY <1>4, <2>4 DEF SetStatus
<1>11. newest' \in [Cases -> Verdict]
  BY <1>1, <1>4 DEF TypeOK, Verdict
<1>12. TypeOK'
  BY <1>1, <1>4, <1>8, <1>10, <1>11 DEF TypeOK
<1>13. PageOK(u)'
  <2>1. page'[u] = NoPage
    BY <1>1, <1>4, PageKinds
  <2> QED  BY <2>1, NoPageOK
<1>14. Records(u, S, v, F, r)
  BY <1>3, <1>4, <1>5, <1>6, <1>8, <1>9, <1>13 DEF Records
<1> QED  BY <1>5, <1>12, <1>14, ResultsWritten DEF RelaInv

LEMMA SaveRelatedInv ==
  ASSUME RelaInv, NEW u \in Users, SaveRelated(u)
  PROVE  RelaInv' /\ Grows(u)
<1>1. PICK d \in SaveDesk, b \in Bugs, S \in SUBSET Cases : \E s \in Orders(S \ CasesIn(d.old)) :
        \E v \in Versions, r \in Result : Saves(u, d, b, S, s, d.found, v, r)
  BY SaveParts
<1>2. PICK s \in Orders(S \ CasesIn(d.old)), v \in Versions, r \in Result :
        Saves(u, d, b, S, s, d.found, v, r)
  BY <1>1
<1>3. CaseInv' /\ Grows(u) /\ \A c \in S : Rows(c, v)' # {}
  BY <1>2, SaveCases
<1>4. RelaTypes /\ TypeOK'
  BY <1>3 DEF RelaInv, CaseInv
<1>5. PICK new \in SUBSET Cases : new = S \ CasesIn(d.old)
  OBVIOUS
<1>6. PICK t : t = Relinked(b, Doomed(d.old, S), s)
  OBVIOUS
<1>7. /\ t \in Seq(Cases \cup {0})
      /\ \A i \in Links(t) : (i \in Links(rela[b]) /\ t[i] = rela[b][i]) \/ t[i] \in S
  <2>1. s \in Orders(new)
    BY <1>2, <1>5
  <2>2. PICK gone : t = Relinked(b, gone, s)
    BY <1>6
  <2>3. /\ t \in Seq(Cases \cup {0})
        /\ \A i \in Links(t) : (i \in Links(rela[b]) /\ t[i] = rela[b][i]) \/ t[i] \in new
    <3>1. RelaTypes
      BY <1>4
    <3>2. t \in Seq(Cases \cup {0})
      BY <2>1, <2>2, <3>1, RelinkedIs
    <3>3. \A i \in Links(t) : (i \in Links(rela[b]) /\ t[i] = rela[b][i]) \/ t[i] \in new
      BY <2>1, <2>2, <3>1, RelinkedIs
    <3> QED  BY <3>2, <3>3
  <2> QED  BY <1>5, <2>3
<1>8. /\ rela' \in [Bugs -> Seq(Cases \cup {0})] /\ rela'[b] = t
      /\ \A a \in Bugs : a # b => rela'[a] = rela[a]
  BY <1>2, <1>4, <1>6, <1>7 DEF Saves, RelaTypes
<1>9. flag' \in [Bugs -> Nat]
  <2>1. Cardinality(S) \in Nat
    BY CasesAssumption, FS_Subset, FS_CardinalityType
  <2>2. NewFlag(b, d.old, S) \in Nat
    BY <1>4, <2>1 DEF NewFlag, RelaTypes
  <2> QED  BY <1>2, <1>4, <2>2 DEF Saves, RelaTypes
<1>10. /\ desk' \in [Users -> {NoDesk} \cup ListDesk \cup SaveDesk \cup BugDesk]
       /\ desk'[u] = NoDesk
       /\ \A w \in Users \ {u} : desk'[w] = desk[w]
  BY <1>4, PutType DEF SaveRelated
<1>11. RelaTypes'
  BY <1>8, <1>9, <1>10 DEF RelaTypes
<1>12. RelatedHasResult'
  <2> SUFFICES ASSUME NEW a \in Bugs, NEW i \in Links(rela'[a])
               PROVE  Rows(rela[a][i], BugVersion[a])' # {}
    BY DEF RelatedHasResult
  <2>1. PICK c : c = rela'[a][i]
    OBVIOUS
  <2>2. PICK w \in Versions : w = BugVersion[a]
    BY BugVersionAssumption
  <2>3. CASE i \in Links(rela[a]) /\ c = rela[a][i]
    <3>1. c \in Cases
      BY <1>4, <2>3, LinkTypes
    <3>2. Rows(c, w) # {}
      BY <2>2, <2>3 DEF RelaInv, RelatedHasResult
    <3>3. Rows(c, w)' # {}
      BY <1>3, <3>1, <3>2, GrowsKeeps
    <3> QED  BY <2>1, <2>2, <3>3 DEF Rows
  <2>4. CASE ~(i \in Links(rela[a]) /\ c = rela[a][i])
    <3>1. a = b /\ c \in S
      BY <1>7, <1>8, <2>1, <2>4
    <3>2. w = v
      BY <1>2, <2>2, <3>1 DEF Saves
    <3> QED  BY <1>3, <2>1, <2>2, <3>1, <3>2 DEF Rows
  <2> QED  BY <2>3, <2>4
<1>13. \A w \in Users : DeskOK(w)'
  BY <1>3, <1>4, <1>10, NoDeskOK, OtherDesks DEF SaveRelated
<1> QED  BY <1>3, <1>11, <1>12, <1>13 DEF RelaInv
-----------------------------------------------------------------------------
(* All steps *)

LEMMA RelaInitInv == RelaInit => RelaInv
<1> SUFFICES ASSUME RelaInit PROVE RelaInv
  OBVIOUS
<1>1. CaseInv
  BY CaseInit DEF RelaInit
<1>2. RelaTypes
  <2>1. <<>> \in Seq(Cases \cup {0})
    BY EmptySeq
  <2> QED  BY <2>1 DEF RelaInit, RelaTypes
<1>3. RelatedHasResult
  BY DEF RelaInit, RelatedHasResult, Links
<1>4. \A u \in Users : DeskOK(u)
  BY DeskKinds DEF RelaInit, DeskOK, At
<1> QED  BY <1>1, <1>2, <1>3, <1>4 DEF RelaInv

(* One user's step, by what it is about. *)
RelaStep(u) ==
  \/ At(u, "none") /\ CaseStep(u) /\ UNCHANGED relaVars
  \/ SaveRelated(u)
  \/ PostBug(u)
  \/ UNCHANGED <<vars, rela, flag>>

LEMMA RelaStepIs ==
  ASSUME RelaNext
  PROVE  \E u \in Users : RelaStep(u)
  BY DEF RelaNext, RelaStep, OpenList, OpenBug, FindRelated, SaveFails, CloseDesk

LEMMA RelaNextInv == RelaInv /\ [RelaNext]_allVars => RelaInv'
<1> SUFFICES ASSUME RelaInv, [RelaNext]_allVars PROVE RelaInv'
  OBVIOUS
<1>1. CASE UNCHANGED allVars
  <2>1. vars' = vars /\ rela' = rela /\ flag' = flag /\ desk' = desk
    BY <1>1 DEF allVars, relaVars
  <2>2. CaseInv'
    BY <2>1, CaseStutter DEF RelaInv
  <2>3. RelaTypes'
    BY <2>1 DEF RelaInv, RelaTypes
  <2>4. RelatedHasResult'
    BY <2>1 DEF RelaInv, RelatedHasResult, Rows, vars
  <2>5. \A u \in Users : DeskOK(u)'
    BY <2>1, ZenonT(30) DEF RelaInv, DeskOK, ListOK, SaveOK, FoundOK, Used, Rows, At, On, vars
  <2> QED  BY <2>2, <2>3, <2>4, <2>5 DEF RelaInv
<1>2. ASSUME NEW u \in Users, At(u, "none"), CaseStep(u), UNCHANGED relaVars PROVE RelaInv'
  BY <1>2, CaseStepRela
<1>3. ASSUME NEW u \in Users, NEW b \in Bugs,
             (\E S \in SUBSET Cases : OpenList(u, b, S)) \/ OpenBug(u, b)
      PROVE  RelaInv'
  BY <1>3, OpenListInv, OpenBugInv
<1>4. ASSUME NEW u \in Users, FindRelated(u) PROVE RelaInv'
  BY <1>4, FindRelatedInv
<1>5. ASSUME NEW u \in Users, SaveRelated(u) PROVE RelaInv'
  BY <1>5, SaveRelatedInv
<1>6. ASSUME NEW u \in Users, SaveFails(u) \/ CloseDesk(u) PROVE RelaInv'
  BY <1>6, LeaveDesk DEF SaveFails, CloseDesk, RelaInv, RelaTypes
<1>7. ASSUME NEW u \in Users, PostBug(u) PROVE RelaInv'
  BY <1>7, PostBugInv
<1> QED  BY <1>1, <1>2, <1>3, <1>4, <1>5, <1>6, <1>7 DEF RelaNext

(* A relation on its way has found what its user wrote, as an execution    *)
(* has; and a user has one window.                                         *)
THEOREM RelaInvAlways == RelaSpec => []RelaInv
  BY RelaInitInv, RelaNextInv, PTL DEF RelaSpec
-----------------------------------------------------------------------------
(* What the runs check *)

(* The rows and pages of cases and of their relations keep their types.    *)
THEOREM RelationsTyped == RelaSpec => []RelaTypeOK
<1>1. RelaInv => RelaTypeOK
  BY DEF RelaInv, RelaTypes, CaseInv, RelaTypeOK
<1> QED  BY <1>1, RelaInvAlways, PTL

(* No edit, copy, execution or relation shows a verdict without a result.  *)
THEOREM ResultAlwaysBehindStatus == RelaSpec => []ResultBehindStatus
<1>1. RelaInv => ResultBehindStatus
  BY DEF RelaInv, CaseInv
<1> QED  BY <1>1, RelaInvAlways, PTL

(* Two writers that look for a result and insert one when there is none    *)
(* leave no more results than there are users.                             *)
THEOREM DuplicatesAlwaysBounded == RelaSpec => []DuplicatesBounded
<1>1. RelaInv => DuplicatesBounded
  BY FewResults DEF RelaInv
<1> QED  BY <1>1, RelaInvAlways, PTL

(* A related case never loses its result in the bug's version.             *)
THEOREM RelatedAlwaysHasResult == RelaSpec => []RelatedHasResult
<1>1. RelaInv => RelatedHasResult
  BY DEF RelaInv
<1> QED  BY <1>1, RelaInvAlways, PTL

(* Executions and relations that clean up duplicates at the same time do   *)
(* not delete each other's row.                                            *)
THEOREM ResultsAlwaysStay == RelaSpec => ResultsNeverVanish
<1>1. ASSUME RelaInv, [RelaNext]_allVars, NEW c \in Cases, NEW v \in Versions, Rows(c, v) # {}
      PROVE  Rows(c, v)' # {}
  <2>1. ASSUME UNCHANGED vars PROVE Rows(c, v)' # {}
    BY <1>1, <2>1 DEF vars, Rows
  <2>2. ASSUME NEW u \in Users, CaseStep(u) PROVE Rows(c, v)' # {}
    BY <1>1, <2>2, CaseStepInv, GrowsKeeps DEF RelaInv
  <2>3. ASSUME NEW u \in Users, SaveRelated(u) PROVE Rows(c, v)' # {}
    BY <1>1, <2>3, SaveRelatedInv, GrowsKeeps
  <2>4. CASE RelaNext
    <3>1. PICK u \in Users : RelaStep(u)
      BY <2>4, RelaStepIs
    <3> QED  BY <2>1, <2>2, <2>3, <3>1 DEF RelaStep, PostBug
  <2> QED  BY <1>1, <2>1, <2>4 DEF allVars
<1>2. RelaInv /\ [RelaNext]_allVars =>
        [\A c \in Cases, v \in Versions : Rows(c, v) # {} => Rows(c, v)' # {}]_vars
  BY <1>1
<1> QED  BY <1>2, RelaInvAlways, PTL DEF RelaSpec, ResultsNeverVanish

(* isCanDel and delCase are two transactions; still, a result that its     *)
(* user wrote himself is seen by the first.                                *)
THEOREM OwnResultsStay == RelaSpec => NobodyDeletesOwnResult
<1>1. ASSUME RelaInv, NEW u \in Users, On(u, {"delete"}), page[u].ok # 0
      PROVE  \A v \in Versions : \A i \in Rows(page[u].ok, v) : rests[page[u].ok][v][i].by # u
  BY <1>1, NoOwnResult DEF RelaInv, NoneBy
<1>2. RelaInv => [\A u \in Users :
       LET c == page[u].ok
       IN On(u, {"delete"}) /\ c # 0 /\ page'[u] # page[u] /\ Listed(c) =>
            \A v \in Versions : \A i \in Rows(c, v) : rests[c][v][i].by # u]_vars
  BY <1>1
<1> QED  BY <1>2, RelaInvAlways, PTL DEF NobodyDeletesOwnResult

(* Of all that writes the status of a case, only a form that was opened    *)
(* before the newest verdict hides it.                                     *)
THEOREM VerdictsShown == RelaSpec => OnlyStaleEditHidesResult
<1>1. ASSUME RelaInv, [RelaNext]_allVars, NEW c \in Cases, ShowsNewest(c), ~ShowsNewest(c)'
      PROVE  \E u \in Users : /\ On(u, {"edit", "execute"}) /\ page[u].case = c
                              /\ page[u].st # row[c].st /\ page'[u] = NoPage
  <2>1. ASSUME UNCHANGED vars PROVE FALSE
    BY <1>1, <2>1 DEF vars, ShowsNewest, Listed
  <2>2. ASSUME NEW u \in Users, CaseStep(u)
        PROVE  /\ On(u, {"edit", "execute"}) /\ page[u].case = c
               /\ page[u].st # row[c].st /\ page'[u] = NoPage
    BY <1>1, <2>2, CaseStepShows DEF RelaInv
  <2>3. ASSUME NEW u \in Users, SaveRelated(u) PROVE FALSE
    <3>1. TypeOK
      BY <1>1 DEF RelaInv, CaseInv
    <3>2. PICK S : /\ newest' = [d \in Cases |-> IF d \in S THEN 3 ELSE newest[d]]
                   /\ SetStatus(S, 3)
      BY <2>3 DEF SaveRelated
    <3>3. row'[c] = IF c \in S /\ Listed(c) THEN [row[c] EXCEPT !.st = 3] ELSE row[c]
      BY <3>2 DEF SetStatus
    <3>4. CASE c \in S /\ Listed(c)
      <4>1. row[c] \in [st : Status, text : Cases]
        BY <3>1, <3>4 DEF TypeOK, Listed, Row, Unused, Gone, Status
      <4>2. row'[c].st = 3
        BY <3>3, <3>4, <4>1
      <4> QED  BY <1>1, <3>2, <3>4, <4>2 DEF ShowsNewest
    <3>5. CASE c \notin S
      BY <1>1, <3>2, <3>3, <3>5 DEF ShowsNewest, Listed
    <3>6. CASE ~Listed(c)
      BY <1>1, <3>3, <3>6 DEF ShowsNewest, Listed
    <3> QED  BY <3>4, <3>5, <3>6
  <2>4. CASE RelaNext
    <3>1. PICK u \in Users : RelaStep(u)
      BY <2>4, RelaStepIs
    <3> QED  BY <2>1, <2>2, <2>3, <3>1 DEF RelaStep, PostBug
  <2> QED  BY <1>1, <2>1, <2>4 DEF allVars
<1>2. RelaInv /\ [RelaNext]_allVars =>
        [\A c \in Cases :
           ShowsNewest(c) /\ ~ShowsNewest(c)' =>
             \E u \in Users : /\ On(u, {"edit", "execute"}) /\ page[u].case = c
                              /\ page[u].st # row[c].st /\ page'[u] = NoPage]_vars
  BY <1>1
<1> QED  BY <1>2, RelaInvAlways, PTL DEF RelaSpec, OnlyStaleEditHidesResult

(* Relations saved over those that were read leave a row and a mark.       *)
LEMMA SavedMarked ==
  ASSUME RelaInv, NEW u \in Users, SaveRelated(u), NEW a \in Bugs, Marked(a), ~Marked(a)'
  PROVE  ~At(u, "none") /\ desk[u].bug = a /\ At(u, "save") /\ desk[u].old # rela[a]
<1>1. PICK d \in SaveDesk, b \in Bugs, S \in SUBSET Cases : \E s \in Orders(S \ CasesIn(d.old)) :
        \E v \in Versions, r \in Result : Saves(u, d, b, S, s, d.found, v, r)
  BY SaveParts
<1>2. PICK s \in Orders(S \ CasesIn(d.old)), v \in Versions, r \in Result :
        Saves(u, d, b, S, s, d.found, v, r)
  BY <1>1
<1>3. RelaTypes
  BY DEF RelaInv
<1>4. PICK t : t = Relinked(b, Doomed(d.old, S), s)
  OBVIOUS
<1>5. PICK n : n = NewFlag(b, d.old, S)
  OBVIOUS
<1>6. /\ rela'[b] = t /\ flag'[b] = n
      /\ \A x \in Bugs : x # b => rela'[x] = rela[x] /\ flag'[x] = flag[x]
  BY <1>2, <1>3, <1>4, <1>5 DEF Saves, RelaTypes
<1>7. a = b
  BY <1>6 DEF Marked, Links
<1>8. S # {} /\ desk[u] = d /\ d.bug = b
  BY <1>2 DEF Saves, SaveOK
<1>9. d.old # rela[b]
  <2> SUFFICES ASSUME d.old = rela[b] PROVE FALSE
    OBVIOUS
  <2>1. PICK new \in SUBSET Cases : new = S \ CasesIn(d.old)
    OBVIOUS
  <2>2. PICK gone : gone = Doomed(d.old, S)
    OBVIOUS
  <2>3. s \in Orders(new) /\ t = Relinked(b, gone, s)
    BY <1>4, <2>1, <2>2
  <2>4. /\ \A i \in Links(rela[b]) \ gone : i \in Links(t)
        /\ new # {} => Links(t) # {}
    <3>1. \A i \in Links(rela[b]) \ gone : i \in Links(t)
      BY <1>3, <2>3, RelinkedIs
    <3>2. ASSUME new # {} PROVE Links(t) # {}
      BY <1>3, <2>3, <3>2, RelinkedSome
    <3> QED  BY <3>1, <3>2
  <2>5. Links(t) # {}
    <3>1. CASE new # {}
      BY <2>4, <3>1
    <3>2. CASE new = {}
      <4>1. PICK c \in S : c \in CasesIn(d.old)
        BY <1>8, <2>1, <3>2
      <4>2. PICK i \in Links(d.old) : d.old[i] = c
        BY <4>1 DEF CasesIn
      <4>3. i \notin gone
        BY <2>2, <4>1, <4>2 DEF Doomed
      <4> QED  BY <2>4, <4>2, <4>3
    <3> QED  BY <3>1, <3>2
  <2>6. n >= 1
    <3>1. IsFiniteSet(S) /\ Cardinality(S) \in Nat
      BY CasesAssumption, FS_Subset, FS_CardinalityType
    <3>2. Cardinality(S) # 0
      BY <1>8, <3>1, FS_EmptySet
    <3>3. CASE Cardinality(CasesIn(d.old)) = Cardinality(S)
      <4>1. CasesIn(d.old) # {}
        BY <3>2, <3>3, FS_EmptySet
      <4>2. Links(rela[b]) # {}
        BY <4>1 DEF CasesIn
      <4>3. flag[b] >= 1
        BY <1>7, <4>2 DEF Marked
      <4> QED  BY <1>5, <3>3, <4>3 DEF NewFlag
    <3>4. CASE Cardinality(CasesIn(d.old)) # Cardinality(S)
      BY <1>5, <3>1, <3>2, <3>4 DEF NewFlag
    <3> QED  BY <3>3, <3>4
  <2>7. Links(rela'[b]) # {} /\ flag'[b] >= 1
    BY <1>6, <2>5, <2>6
  <2> QED  BY <1>7, <2>7 DEF Marked, Links
<1> QED  BY <1>7, <1>8, <1>9 DEF SaveRelated, At

(* The mark of a bug goes wrong only under a user who saves what others    *)
(* have changed since he read it.                                          *)
THEOREM MarkLostOnlyByStaleSave == RelaSpec => OnlyStaleSaveLosesMark
<1> DEFINE Stale(b) ==
      \E u \in Users :
        /\ ~At(u, "none") /\ desk[u].bug = b /\ desk'[u] = NoDesk
        /\ \/ At(u, "bug") /\ desk[u].flag # flag[b]
           \/ At(u, "save") /\ desk[u].old # rela[b]
<1>1. ASSUME RelaInv, [RelaNext]_allVars, NEW b \in Bugs, Marked(b), ~Marked(b)'
      PROVE  Stale(b)
  <2>1. ASSUME rela' = rela, flag' = flag PROVE FALSE
    BY <1>1, <2>1 DEF Marked, Links
  <2>2. ASSUME NEW u \in Users, SaveRelated(u) PROVE Stale(b)
    <3>1. RelaTypes /\ Put(u, NoDesk)
      BY <1>1, <2>2 DEF RelaInv, SaveRelated
    <3>2. desk'[u] = NoDesk
      BY <3>1, PutType
    <3>3. ~At(u, "none") /\ desk[u].bug = b /\ At(u, "save") /\ desk[u].old # rela[b]
      BY <1>1, <2>2, SavedMarked
    <3> QED  BY <3>2, <3>3
  <2>3. ASSUME NEW u \in Users, PostBug(u) PROVE Stale(b)
    <3>1. RelaTypes /\ Put(u, NoDesk) /\ At(u, "bug") /\ rela' = rela
      BY <1>1, <2>3 DEF RelaInv, PostBug
    <3>2. desk'[u] = NoDesk /\ ~At(u, "none")
      BY <3>1, PutType DEF At
    <3>3. flag' = [flag EXCEPT ![desk[u].bug] = desk[u].flag]
      BY <2>3 DEF PostBug
    <3>4. flag'[b] # flag[b]
      BY <1>1, <3>1 DEF Marked, Links
    <3>5. desk[u].bug = b /\ desk[u].flag # flag[b]
      BY <3>1, <3>3, <3>4 DEF RelaTypes
    <3> QED  BY <3>1, <3>2, <3>5
  <2> HIDE DEF Stale
  <2>4. CASE RelaNext
    <3>1. PICK u \in Users : RelaStep(u)
      BY <2>4, RelaStepIs
    <3> QED  BY <2>1, <2>2, <2>3, <3>1 DEF RelaStep, relaVars
  <2> QED  BY <1>1, <2>1, <2>4 DEF allVars, relaVars
<1>2. RelaInv /\ [RelaNext]_allVars => [\A b \in Bugs : Marked(b) /\ ~Marked(b)' => Stale(b)]_allVars
  BY <1>1
<1> QED  BY <1>2, RelaInvAlways, PTL DEF RelaSpec, OnlyStaleSaveLosesMark
=============================================================================
