--------------------------- MODULE CaseRelations ---------------------------
(***************************************************************************)
(* Test cases related to the bugs they found.  Saving the cases checked in *)
(* a bug's list replaces its relations, marks the bug as related, and      *)
(* records a failure of every one of these cases in the version the bug    *)
(* was reported for: a second writer of the cases' status and results.     *)
(* The mark is a column of the bug, which the pages of the bug write back  *)
(* with all its other columns.                                             *)
(***************************************************************************)
EXTENDS TestCases

CONSTANTS
  Bugs,        \* the bugs of the task
  BugVersion,  \* BugVersion[b]: the version bug b was reported for
  MaxLinks     \* bound: relations written for one bug

ASSUME BugVersionAssumption == BugVersion \in [Bugs -> Versions]
ASSUME LinksAssumption == MaxLinks \in Nat

VARIABLES
  rela,   \* per bug its rows of CaseBugRela, in order of id; 0: deleted
  flag,   \* per bug its column relaCaseFlag
  desk    \* per user the page or request about a bug he is busy with

relaVars == <<rela, flag, desk>>

allVars == <<vars, relaVars>>

NoDesk == [kind |-> "none"]

(* The list of cases for a bug, with those checked; their relation on its  *)
(* way to the database: the rows read, and the results found per case.     *)
ListDesk == [kind : {"list"}, bug : Bugs, cases : SUBSET Cases]
SaveDesk == [kind : {"save"}, bug : Bugs, cases : SUBSET Cases, old : Seq(Cases \cup {0}),
             found : [Cases -> SUBSET Nat]]

(* A page of the bug, holding the flag it was filled with. *)
BugDesk == [kind : {"bug"}, bug : Bugs, flag : Nat]

At(u, kind) == desk[u].kind = kind

(* The browser shows one window at a time. *)
Idle(u) ==
  /\ At(u, "none") /\ On(u, {"none"})
  /\ Cardinality({w \in Users : ~At(w, "none")}) < MaxPages

Put(u, d) == desk' = [desk EXCEPT ![u] = d]

Links(s)   == {i \in DOMAIN s : s[i] # 0}
CasesIn(s) == {s[i] : i \in Links(s)}

-----------------------------------------------------------------------------
(* loadRelaCase lists the cases that were audited and need no correction;  *)
(* any of them may be checked, those related before are checked already.   *)
Relatable(c) == Listed(c) /\ row[c].st \notin {0, 6}

OpenList(u, b, S) ==
  /\ "relate" \in Doing /\ Idle(u) /\ S # {} /\ \A c \in S : Relatable(c)
  /\ Put(u, [kind |-> "list", bug |-> b, cases |-> S])
  /\ UNCHANGED <<vars, rela, flag>>

(* bugRelaCase and writeRelaTestReuslt: what is there is read, ... *)
FindRelated(u) ==
  /\ At(u, "list")
  /\ LET d == desk[u] IN
       Put(u, [kind |-> "save", bug |-> d.bug, cases |-> d.cases, old |-> rela[d.bug],
               found |-> [c \in Cases |-> IF c \in d.cases
                                           THEN Rows(c, BugVersion[d.bug]) ELSE {}]])
  /\ UNCHANGED <<vars, rela, flag>>

(* ... of the rows of each case that is not checked any more one is        *)
(* deleted (rows of the same case are equal and count as one); ...         *)
Doomed(old, S) ==
  {i \in Links(old) : old[i] \notin S /\ \A k \in Links(old) : k < i => old[k] # old[i]}

(* ... the cases checked newly get a row, in any order; ...                *)
Orders(S) ==
  {s \in [1..Cardinality(S) -> S] : \A c \in S : \E k \in DOMAIN s : s[k] = c}

Relinked(b, gone, s) ==
  [i \in DOMAIN rela[b] |-> IF i \in gone THEN 0 ELSE rela[b][i]] \o s

(* ... the bug is marked with their number, if that has changed; ...       *)
FlagAdjusted(b, old, S) ==  \* mutant: the difference is added
  flag[b] + Cardinality(S) - Cardinality(CasesIn(old))

FlagOfNew(b, old, S) ==  \* mutant: only the cases checked newly are counted
  IF Cardinality(CasesIn(old)) = Cardinality(S) THEN flag[b]
  ELSE Cardinality(S \ CasesIn(old))

NewFlag(b, old, S) ==
  IF Cardinality(CasesIn(old)) = Cardinality(S) THEN flag[b] ELSE Cardinality(S)

(* ... and the cases fail in the bug's version.                            *)
FailuresUpdated(u, d, c) ==  \* mutant: only an earlier result is turned into a failure
  IF d.found[c] = {} THEN {rests[c][BugVersion[d.bug]]}
  ELSE Written(rests[c][BugVersion[d.bug]], d.found[c], [res |-> 3, by |-> u])

Failures(u, d, c) ==
  Written(rests[c][BugVersion[d.bug]], d.found[c], [res |-> 3, by |-> u])

SaveRelated(u) ==
  /\ At(u, "save")
  /\ LET d == desk[u]
         b == d.bug
         gone == Doomed(d.old, d.cases)
     IN /\ gone \subseteq Links(rela[b])
        /\ \E s \in Orders(d.cases \ CasesIn(d.old)) :
             /\ Len(rela[b]) + Len(s) <= MaxLinks
             /\ rela' = [rela EXCEPT ![b] = Relinked(b, gone, s)]
        /\ flag' = [flag EXCEPT ![b] = NewFlag(b, d.old, d.cases)]
        /\ \E new \in [d.cases -> UNION {Failures(u, d, c) : c \in d.cases}] :
             /\ \A c \in d.cases : new[c] \in Failures(u, d, c)
             /\ rests' = [c \in Cases |->
                  IF c \in d.cases THEN [rests[c] EXCEPT ![BugVersion[b]] = new[c]]
                  ELSE rests[c]]
        /\ newest' = [c \in Cases |-> IF c \in d.cases THEN 3 ELSE newest[c]]
        /\ SetStatus(d.cases, 3)
  /\ Put(u, NoDesk)
  /\ UNCHANGED <<pack, page>>

(* A row to be deleted or updated was deleted meanwhile: all is undone. *)
SaveFails(u) ==
  /\ At(u, "save")
  /\ LET d == desk[u]
     IN \/ Doomed(d.old, d.cases) \ Links(rela[d.bug]) # {}
        \/ \E c \in d.cases : d.found[c] \ Rows(c, BugVersion[d.bug]) # {}
  /\ Put(u, NoDesk)
  /\ UNCHANGED <<vars, rela, flag>>

-----------------------------------------------------------------------------
(* The pages for handling or editing a bug hold all its columns and write  *)
(* them back.                                                              *)
OpenBug(u, b) ==
  /\ "bug" \in Doing /\ Idle(u)
  /\ Put(u, [kind |-> "bug", bug |-> b, flag |-> flag[b]])
  /\ UNCHANGED <<vars, rela, flag>>

PostBug(u) ==
  /\ At(u, "bug")
  /\ flag' = [flag EXCEPT ![desk[u].bug] = desk[u].flag]
  /\ Put(u, NoDesk)
  /\ UNCHANGED <<vars, rela>>

CloseDesk(u) ==
  /\ At(u, "list") \/ At(u, "bug")
  /\ Put(u, NoDesk)
  /\ UNCHANGED <<vars, rela, flag>>

-----------------------------------------------------------------------------
RelaInit ==
  /\ Init
  /\ rela = [b \in Bugs |-> <<>>]
  /\ flag = [b \in Bugs |-> 0]
  /\ desk = [u \in Users |-> NoDesk]

RelaNext ==
  \E u \in Users :
    \/ At(u, "none") /\ CaseStep(u) /\ UNCHANGED relaVars
    \/ \E b \in Bugs : \/ \E S \in SUBSET Cases : OpenList(u, b, S)
                      \/ OpenBug(u, b)
    \/ FindRelated(u)
    \/ SaveRelated(u)
    \/ SaveFails(u)
    \/ PostBug(u)
    \/ CloseDesk(u)

RelaSpec == RelaInit /\ [][RelaNext]_allVars
-----------------------------------------------------------------------------
RelaTypeOK ==
  /\ TypeOK
  /\ rela \in [Bugs -> Seq(Cases \cup {0})]
  /\ flag \in [Bugs -> Nat]
  /\ desk \in [Users -> {NoDesk} \cup ListDesk \cup SaveDesk \cup BugDesk]

(* A case that is related to a bug was executed in the bug's version, and  *)
(* that result is never lost again: the relation and the result are        *)
(* written together, and only duplicates are deleted.                      *)
RelatedHasResult ==
  \A b \in Bugs : \A i \in Links(rela[b]) : Rows(rela[b][i], BugVersion[b]) # {}

(* relaCaseFlag marks the bugs that have related cases.  What makes it     *)
(* wrong is only a user who saves what he read before others wrote: the    *)
(* post of a bug's page with an old mark, or relations saved over those    *)
(* that were changed since they were read.                                 *)
Marked(b) == (flag[b] >= 1) <=> (Links(rela[b]) # {})

OnlyStaleSaveLosesMark ==
  [][\A b \in Bugs :
       Marked(b) /\ ~Marked(b)' =>
         \E u \in Users :
           /\ ~At(u, "none") /\ desk[u].bug = b /\ desk'[u] = NoDesk
           /\ \/ At(u, "bug") /\ desk[u].flag # flag[b]
              \/ At(u, "save") /\ desk[u].old # rela[b]]_allVars
=============================================================================
