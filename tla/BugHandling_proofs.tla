------------------------- MODULE BugHandling_proofs -------------------------
(***************************************************************************)
(* For any team, any bugs and any choice of flows: rows and pages stay     *)
(* well-formed, handling implements the board, a closed bug waits for      *)
(* nobody, and the history agrees with the rows as long as nobody changes  *)
(* the flow of the task.                                                   *)
(***************************************************************************)
EXTENDS BugHandling, BugFlow_proofs

-----------------------------------------------------------------------------
(* Flows, owners and rows                                                  *)

(* A flow has a step after every step before the developer's.              *)
LEMMA StepAfterType ==
  ASSUME NEW F \in Flows, NEW step \in {1, 2, 3, 4}
  PROVE  StepAfter(F, step) \in F /\ StepAfter(F, step) \in FlowStep
<1>1. F \subseteq 1..8 /\ 5 \in F
  BY FlowsAssumption DEF FlowStep
<1>2. \E f \in F : f > step /\ \A g \in F : g > step => f <= g
  <2>1. CASE step + 1 \in F  BY <1>1, <2>1
  <2>2. CASE step + 1 \notin F /\ step + 2 \in F  BY <1>1, <2>2
  <2>3. CASE step + 1 \notin F /\ step + 2 \notin F /\ step + 3 \in F  BY <1>1, <2>3
  <2>4. CASE step + 1 \notin F /\ step + 2 \notin F /\ step + 3 \notin F
    BY <1>1, <2>4
  <2> QED  BY <2>1, <2>2, <2>3, <2>4
<1> QED  BY <1>1, <1>2 DEF StepAfter, FlowStep

LEMMA OwnerForType ==
  ASSUME NEW own \in Owners, NEW step
  PROVE  OwnerFor(own, step) \in Person
  BY DutyOfType DEF OwnerFor, Owners, Person

LEMMA WaitingStateType ==
  ASSUME NEW step
  PROVE  WaitingState(step) \in State \ Closed
  BY DEF WaitingState, State, Closed

LEMMA NamedType ==
  ASSUME NEW step \in FlowStep
  PROVE  Actors[step] \subseteq Users /\ LastNamed(step) \in Users
<1>1. Actors[step] \subseteq Users /\ \E u \in Actors[step] : TRUE
  BY ActorsAssumption
<1> QED  BY <1>1 DEF LastNamed

(* The list offered in the next-handler box has users of the task only.    *)
LEMMA CandidatesType ==
  ASSUME NEW step, NEW F
  PROVE  Candidates(step, F) \subseteq Users
  BY ActorsAssumption DEF Candidates, FlowStep

(* A row that is live is a proper row; a row tells itself from a bug that  *)
(* is unused or deleted by its state.                                      *)
LEMMA LiveRow ==
  ASSUME TypeOK, NEW b \in Bugs
  PROVE  /\ Live(b) <=> bug[b] \in Row
         /\ bug[b] \in Row => bug[b] # Unused /\ bug[b] # Deleted
<1>1. bug[b] \in Row => bug[b].st \in State
  BY DEF Row
<1>2. Unused.st \notin State /\ Deleted.st \notin State
  BY DEF Unused, Deleted, State, NoState
<1>3. bug[b] \in Row \cup {Unused, Deleted}
  BY DEF TypeOK
<1> QED  BY <1>1, <1>2, <1>3 DEF Live

LEMMA MenuType ==
  ASSUME NEW u, NEW r \in Row, NEW F
  PROVE  MenuOf(u, r, F) \in Menu
  BY MyMenuType, DutyMenuType DEF MenuOf, Row

(* The kind of a page tells which fields it has.                           *)
LEMMA PageKinds ==
  ASSUME TypeOK, NEW u \in Users
  PROVE  /\ On(u, "hand") => page[u] \in HandPage
         /\ On(u, "report") => page[u] \in ReportPage
         /\ On(u, "batch") => page[u] \in BatchPage
<1>1. page[u] \in {NoPage} \cup ReportPage \cup BatchPage \cup HandPage
  BY DEF TypeOK, Page
<1> QED  BY <1>1 DEF On, NoPage, ReportPage, BatchPage, HandPage

LEMMA ShowType ==
  ASSUME TypeOK, NEW u \in Users, NEW p \in Page, Show(u, p)
  PROVE  page' \in [Users -> Page]
  BY DEF TypeOK, Show

-----------------------------------------------------------------------------
(* The rows that the writers build                                         *)

(* The page of a handler who has chosen a state: the row it posts is well- *)
(* formed, awaits nobody if it is closed, and somebody or nobody if not.   *)
LEMMA SavedType ==
  ASSUME NEW u \in Users, NEW p \in HandPage, p.st # NoState
  PROVE  /\ Saved(u, p) \in Row
         /\ Saved(u, p).st = p.st
         /\ p.st \in Closed => Saved(u, p).next = NIL
<1>1. /\ p.row \in Row /\ p.st \in State /\ p.step \in 0..9
      /\ p.pick \in Person /\ p.next \in Person
      /\ p.duty \in Duty \cup {NoDuty}
  BY DEF HandPage
<1>2. Posted(u, p).cur \in 0..8 /\ Posted(u, p).nxt \in 0..8
  <2>1. p.row.cur \in 0..8 /\ p.row.nxt \in 0..8
    BY <1>1 DEF Row
  <2> QED  BY <1>1, <2>1 DEF Posted, NoStep
<1>3. PostedOwners(p) \in Owners
  <2>1. p.row.own \in [Duty -> Person]
    BY <1>1 DEF Row, Owners
  <2> QED  BY <1>1, <2>1 DEF PostedOwners, Owners
<1>4. /\ p.row.st \in State /\ p.row.init \in State /\ p.row.rept \in Users
      /\ p.row.text \in 0..MaxEdits
  BY <1>1 DEF Row
<1>5. [PostedOwners(p) EXCEPT !["test"] = p.row.rept] \in Owners
  BY <1>3, <1>4 DEF Owners, Person
<1>6. /\ NextOwner(p, PostedOwners(p), Posted(u, p).nxt) \in Person
      /\ p.st \in Closed => NextOwner(p, PostedOwners(p), Posted(u, p).nxt) = NIL
  <2>1. OwnerFor(PostedOwners(p), Posted(u, p).nxt) \in Person
    BY <1>3, OwnerForType
  <2>2. NIL \in Person
    BY DEF Person
  <2> QED  BY <1>1, <2>1, <2>2 DEF NextOwner
<1>7. Saved(u, p) \in Row
  BY <1>1, <1>2, <1>3, <1>4, <1>5, <1>6 DEF Saved, Row
<1> QED  BY <1>6, <1>7 DEF Saved

LEMMA AssignedType ==
  ASSUME NEW u \in Users, NEW d \in Users, NEW r \in Row, NEW F
  PROVE  /\ Assigned(u, d, r, F) \in Row
         /\ Assigned(u, d, r, F).st = ToFix(F)
         /\ ToFix(F) \in State \ Closed
         /\ Assigned(u, d, r, F).next = d
<1> DEFINE a == Assigned(u, d, r, F)
           s == ToFix(F)
           o == [r.own EXCEPT !["dev"] = d]
<1>1. o \in Owners
  BY DEF Row, Owners, Person
<1>2. a = [st |-> s, init |-> 25, cur |-> 4, nxt |-> 5, handler |-> u,
           rept |-> r.rept, own |-> o, next |-> d, text |-> r.text]
  <2>1. a = [r EXCEPT !.st = s, !.init = 25, !.cur = 4, !.nxt = 5,
                      !.handler = u, !.own = o, !.next = d]
    BY DEF Assigned
  <2> HIDE DEF a, s, o
  <2> QED  BY <2>1 DEF Row
<1>3. s \in State \ Closed
  BY DEF ToFix, State, Closed
<1>4. d \in Person /\ r.rept \in Users /\ r.text \in 0..MaxEdits
  BY DEF Row, Person
<1> HIDE DEF a, s, o
<1>5. a \in Row /\ a.st = s /\ a.next = d
  BY <1>1, <1>2, <1>3, <1>4 DEF Row, State
<1> QED  BY <1>3, <1>5 DEF a, s

LEMMA AdjustedType ==
  ASSUME NEW u \in Users, NEW r \in Row, NEW step \in {2, 3, 4, 6}, NEW F \in Flows
  PROVE  /\ Adjusted(u, r, step, F) \in Row
         /\ Adjusted(u, r, step, F).st \notin Closed
         /\ Adjusted(u, r, step, F).next \in Users
         /\ step = 6 => Adjusted(u, r, step, F).st = 13
         /\ step # 6 => Adjusted(u, r, step, F).st = WaitingState(StepAfter(F, step))
<1> DEFINE a == Adjusted(u, r, step, F)
<1>1. r.cur \in 0..8 /\ r.rept \in Users /\ r.own \in Owners /\ r.text \in 0..MaxEdits
  BY DEF Row
<1>2. CASE step = 6
  <2> DEFINE l == LastNamed(1)
  <2>1. l \in Users
    BY NamedType DEF FlowStep
  <2>2. a = [st |-> 13, init |-> 18, cur |-> r.cur, nxt |-> 8, handler |-> u,
             rept |-> r.rept, own |-> r.own, next |-> l, text |-> r.text]
    BY <1>2 DEF Adjusted, Row
  <2> HIDE DEF a, l
  <2>3. a \in Row /\ a.st = 13 /\ a.next = l
    BY <1>1, <2>1, <2>2 DEF Row, State, Person
  <2> QED  BY <1>2, <2>1, <2>3 DEF a, Closed
<1>3. CASE step # 6
  <2> DEFINE n == StepAfter(F, step)
             l == LastNamed(n)
             o == [r.own EXCEPT ![DutyOf(n)] = l]
             s == WaitingState(n)
             i == WaitsIn(step)
  <2>1. n \in FlowStep
    BY <1>3, StepAfterType
  <2>2. DutyOf(n) \in Duty /\ l \in Users
    BY <2>1, DutyOfType, NamedType
  <2>3. s \in State \ Closed /\ i \in State
    BY <1>3, WaitingStateType DEF WaitsIn, State
  <2>4. o \in Owners
    BY <1>1, <2>2 DEF Owners, Person
  <2>5. a = [st |-> s, init |-> i, cur |-> r.cur, nxt |-> n, handler |-> u,
             rept |-> r.rept, own |-> o, next |-> l, text |-> r.text]
    BY <1>3 DEF Adjusted, Row
  <2> HIDE DEF a, n, l, o, s, i
  <2>6. a \in Row /\ a.st = s /\ a.next = l
    BY <1>1, <2>1, <2>2, <2>3, <2>4, <2>5 DEF Row, Person, FlowStep
  <2> QED  BY <1>3, <2>2, <2>3, <2>6 DEF a, s, n
<1> QED  BY <1>2, <1>3

-----------------------------------------------------------------------------
(* Type correctness                                                        *)

LEMMA TypeInit == Init => TypeOK
  BY DEF Init, TypeOK, Page

LEMMA AddInitType ==
  ASSUME TypeOK, NEW u \in Users, AddInit(u)
  PROVE  TypeOK'
<1>1. [kind |-> "report", flow |-> flow] \in Page
  BY DEF TypeOK, Page, ReportPage
<1>2. page' \in [Users -> Page]
  BY <1>1, ShowType DEF AddInit
<1> QED  BY <1>2 DEF AddInit, TypeOK

(* The new row, its state and the person it waits for.                     *)
LEMMA AddRow ==
  ASSUME TypeOK, NEW u \in Users, NEW b \in Bugs, NEW o \in Users, Add(u, b, o)
  PROVE  \E r \in Row :
           /\ bug[b] = Unused
           /\ bug' = [bug EXCEPT ![b] = r]
           /\ hist' = [hist EXCEPT ![b] = r.st]
           /\ r.st \notin Closed
           /\ r.next \in Users
<1> DEFINE step == StepAfter(page[u].flow, 1)
           own  == [d \in Duty |-> IF d = DutyOf(step) THEN o
                                   ELSE IF d = "test" THEN u ELSE NIL]
           st   == WaitingState(step)
           r    == [st |-> st, init |-> st, cur |-> 1, nxt |-> step, handler |-> u,
                    rept |-> u, own |-> own, next |-> OwnerFor(own, step), text |-> 0]
<1>1. page[u].flow \in Flows
  BY PageKinds DEF Add, ReportPage
<1>2. step \in FlowStep
  BY <1>1, StepAfterType
<1>3. st \in State \ Closed
  BY WaitingStateType
<1>4. own \in Owners /\ OwnerFor(own, step) = o
  BY <1>2, DutyOfType DEF Owners, Person, OwnerFor
<1>5. /\ bug[b] = Unused
      /\ bug' = [bug EXCEPT ![b] = r]
      /\ hist' = [hist EXCEPT ![b] = st]
  BY DEF Add
<1> HIDE DEF step, own, st
<1>6. r \in Row /\ r.st = st /\ r.next = o
  BY <1>2, <1>3, <1>4, BoundsAssumption DEF Row, FlowStep, Person
<1> HIDE DEF r
<1> QED  BY <1>3, <1>5, <1>6

LEMMA AddType ==
  ASSUME TypeOK, NEW u \in Users, NEW b \in Bugs, NEW o \in Users, Add(u, b, o)
  PROVE  TypeOK'
<1>1. PICK r \in Row : bug' = [bug EXCEPT ![b] = r] /\ hist' = [hist EXCEPT ![b] = r.st]
  BY AddRow
<1>2. r.st \in State
  BY DEF Row
<1>3. page' \in [Users -> Page]
  BY ShowType DEF Add, Page
<1> QED  BY <1>1, <1>2, <1>3 DEF Add, TypeOK

LEMMA BugHandType ==
  ASSUME TypeOK, NEW u \in Users, NEW b \in Bugs, BugHand(u, b)
  PROVE  TypeOK'
<1> DEFINE p == [kind |-> "hand", bug |-> b, flow |-> flow, row |-> bug[b],
                 st |-> NoState, step |-> NoStep, duty |-> NoDuty, pick |-> NIL,
                 next |-> bug[b].next, tries |-> 0]
<1>1. bug[b] \in Row
  BY LiveRow DEF BugHand
<1>2. bug[b].next \in Person /\ NIL \in Person /\ flow \in Flows
  BY <1>1 DEF Row, Person, TypeOK
<1>3. p \in HandPage
  BY <1>1, <1>2, BoundsAssumption DEF HandPage, NoStep
<1> HIDE DEF p
<1>4. page' \in [Users -> Page]
  <2>1. Show(u, p)
    BY DEF BugHand, p
  <2> QED  BY <1>3, <2>1, ShowType DEF Page
<1> QED  BY <1>4 DEF BugHand, TypeOK

(* The fields of a page that a choice leaves alone.                        *)
SamePlace(y, p) == y.row = p.row /\ y.flow = p.flow /\ y.bug = p.bug /\ y.kind = p.kind

LEMMA StepChosenType ==
  ASSUME NEW q \in HandPage, NEW step \in 0..8
  PROVE  LET y == [q EXCEPT !.step = step, !.next = NIL]
         IN /\ y \in HandPage /\ SamePlace(y, q) /\ y.st = q.st
            /\ y.step = step /\ y.next = NIL /\ y.duty = q.duty /\ y.pick = q.pick
<1>1. step \in 0..9 /\ NIL \in Person
  BY DEF Person
<1> QED  BY <1>1 DEF HandPage, SamePlace

(* The three ways to choose a state: it has no entry, its entry names      *)
(* nobody, or a person is picked for the step of its entry.                *)
ChosenWithout(m, p, y) ==
  /\ EntriesFor(m, y.st) = {}
  /\ y.step = p.step /\ y.next = p.next /\ y.duty = p.duty /\ y.pick = p.pick

ChosenKept(m, p, y) ==
  \E e \in EntriesFor(m, y.st) :
    /\ ~e.pick
    /\ y.step = e.next /\ y.next = NIL /\ y.duty = p.duty /\ y.pick = p.pick

ChosenPerson(m, p, y) ==
  \E e \in EntriesFor(m, y.st) :
    /\ e.pick
    /\ y.step = e.next /\ y.duty = DutyOf(e.next)
    /\ y.next \in Nameable(p, y.st, e.next) /\ y.pick = y.next

(* The page after a choice: a well-formed one that shows a state of the    *)
(* menu as the chosen one and the row it was opened with.                  *)
LEMMA ChosenPage ==
  ASSUME TypeOK, NEW u \in Users, ChangeStatus(u)
  PROVE  LET m == MenuOf(u, page[u].row, page[u].flow)
         IN \E y \in HandPage :
              /\ Show(u, y) /\ SamePlace(y, page[u])
              /\ y.st \in m.opts
              /\ \/ ChosenWithout(m, page[u], y)
                 \/ ChosenKept(m, page[u], y)
                 \/ ChosenPerson(m, page[u], y)
<1> DEFINE p == page[u]
           m == MenuOf(u, p.row, p.flow)
<1>1. p \in HandPage
  BY PageKinds DEF ChangeStatus
<1>2. p.row \in Row /\ p.row.own \in [Duty -> Person] /\ p.tries \in 0..MaxChoices
  BY <1>1 DEF HandPage, Row, Owners
<1>3. m \in Menu
  BY <1>2, MenuType
<1>4. p.tries < MaxChoices
  BY ZenonT(30) DEF ChangeStatus
<1>5. PICK s \in m.opts \cap Picks :
        LET q == [p EXCEPT !.st = s, !.tries = @ + 1]
        IN \/ EntriesFor(m, s) = {} /\ Show(u, q)
           \/ \E e \in EntriesFor(m, s) :
                ~e.pick /\ Show(u, [q EXCEPT !.step = e.next, !.next = NIL])
           \/ \E e \in EntriesFor(m, s) : \E o \in Nameable(p, s, e.next) :
                /\ e.pick
                /\ Show(u, [q EXCEPT !.step = e.next, !.next = o,
                                     !.duty = DutyOf(e.next), !.pick = o])
  BY DEF ChangeStatus
<1> DEFINE q == [p EXCEPT !.st = s, !.tries = @ + 1]
<1>6. s \in State
  BY BoundsAssumption
<1>7. p.tries + 1 \in 0..MaxChoices
  BY <1>2, <1>4, BoundsAssumption
<1>8. /\ q \in HandPage /\ q.st = s /\ SamePlace(q, p)
      /\ q.step = p.step /\ q.next = p.next /\ q.duty = p.duty /\ q.pick = p.pick
  BY <1>1, <1>6, <1>7 DEF HandPage, SamePlace
<1>9. \A e \in EntriesFor(m, s) : e.next \in 0..8 /\ (e.pick => e.next \in FlowStep)
  BY <1>3, EntriesForType DEF Entry
<1> HIDE DEF q
<1>10. ASSUME EntriesFor(m, s) = {}, Show(u, q)
       PROVE  \E y \in HandPage :
                Show(u, y) /\ SamePlace(y, p) /\ y.st \in m.opts /\ ChosenWithout(m, p, y)
  <2> HIDE DEF m
  <2>1. ChosenWithout(m, p, q)
    BY <1>8, <1>10 DEF ChosenWithout
  <2> QED  BY <1>5, <1>8, <1>10, <2>1
<1>11. ASSUME NEW e \in EntriesFor(m, s), ~e.pick,
              Show(u, [q EXCEPT !.step = e.next, !.next = NIL])
       PROVE  \E y \in HandPage :
                Show(u, y) /\ SamePlace(y, p) /\ y.st \in m.opts /\ ChosenKept(m, p, y)
  <2> DEFINE y == [q EXCEPT !.step = e.next, !.next = NIL]
  <2>1. /\ y \in HandPage /\ SamePlace(y, q) /\ y.st = s
        /\ y.step = e.next /\ y.next = NIL /\ y.duty = q.duty /\ y.pick = q.pick
    BY <1>8, <1>9, StepChosenType
  <2>2. Show(u, y)
    BY <1>11
  <2> HIDE DEF y, m
  <2>3. SamePlace(y, p) /\ y.st \in m.opts
    BY <1>5, <1>8, <2>1 DEF SamePlace
  <2>4. ChosenKept(m, p, y)
    BY <1>8, <1>11, <2>1 DEF ChosenKept
  <2> QED  BY <2>1, <2>2, <2>3, <2>4
<1>12. ASSUME NEW e \in EntriesFor(m, s), NEW o \in Nameable(p, s, e.next), e.pick,
              Show(u, [q EXCEPT !.step = e.next, !.next = o,
                                !.duty = DutyOf(e.next), !.pick = o])
       PROVE  \E y \in HandPage :
                Show(u, y) /\ SamePlace(y, p) /\ y.st \in m.opts /\ ChosenPerson(m, p, y)
  <2>1. PICK k \in FlowStep : k = e.next
    BY <1>9, <1>12
  <2> DEFINE d == DutyOf(k)
             y == [q EXCEPT !.step = k, !.next = o, !.duty = d, !.pick = o]
  <2>2. o \in Person /\ d \in Duty
    BY <1>2, <2>1, CandidatesType, DutyOfType DEF Nameable, Person
  <2>3. /\ y \in HandPage /\ SamePlace(y, q) /\ y.st = s
        /\ y.step = k /\ y.next = o /\ y.duty = d /\ y.pick = o
    <3>1. y = [q EXCEPT !.step = k, !.next = o, !.duty = d, !.pick = o]
      OBVIOUS
    <3>2. q \in HandPage /\ q.st = s /\ d \in Duty /\ o \in Person
      BY <1>8, <2>2
    <3> HIDE DEF d, y
    <3>3. /\ y \in HandPage /\ SamePlace(y, q) /\ y.st = q.st
          /\ y.step = k /\ y.next = o /\ y.duty = d /\ y.pick = o
      <4>1. k \in 0..9
        BY DEF FlowStep
      <4> QED  BY <3>1, <3>2, <4>1 DEF HandPage, SamePlace
    <3> QED  BY <3>2, <3>3
  <2>4. Show(u, y)
    BY <1>12, <2>1
  <2> HIDE DEF y, m
  <2>5. SamePlace(y, p) /\ y.st \in m.opts
    BY <1>5, <1>8, <2>3 DEF SamePlace
  <2>6. ChosenPerson(m, p, y)
    BY <1>12, <2>1, <2>3 DEF ChosenPerson
  <2> QED  BY <2>3, <2>4, <2>5, <2>6
<1>13. \E y \in HandPage :
         /\ Show(u, y) /\ SamePlace(y, p) /\ y.st \in m.opts
         /\ ChosenWithout(m, p, y) \/ ChosenKept(m, p, y) \/ ChosenPerson(m, p, y)
  <2> HIDE DEF p, m
  <2> QED  BY <1>5, <1>10, <1>11, <1>12 DEF q
<1> QED  BY <1>13

LEMMA ChangeStatusType ==
  ASSUME TypeOK, NEW u \in Users, ChangeStatus(u)
  PROVE  TypeOK'
<1>1. page' \in [Users -> Page]
  BY ChosenPage, ShowType DEF Page
<1> QED  BY <1>1 DEF ChangeStatus, TypeOK

LEMMA HandSubType ==
  ASSUME TypeOK, NEW u \in Users, HandSub(u)
  PROVE  TypeOK'
<1> DEFINE p == page[u]
<1>1. p \in HandPage /\ p.st # NoState
  BY PageKinds DEF HandSub
<1>2. Saved(u, p) \in Row /\ p.st \in State /\ p.bug \in Bugs
  BY <1>1, SavedType DEF HandPage
<1>3. page' \in [Users -> Page]
  BY ShowType DEF HandSub, Page
<1>4. bug' \in [Bugs -> Row \cup {Unused, Deleted}]
  BY <1>2 DEF HandSub, Write, TypeOK
<1>5. hist' \in [Bugs -> State \cup {NoState}]
  BY <1>2 DEF HandSub, TypeOK
<1> QED  BY <1>3, <1>4, <1>5 DEF HandSub, TypeOK

LEMMA BatchAssignType ==
  ASSUME TypeOK, NEW u \in Users, BatchAssign(u)
  PROVE  TypeOK'
<1> DEFINE p == [kind |-> "batch", flow |-> flow,
                 bugs |-> {b \in Bugs : bug[b].st \in {17, 25}}]
<1>1. p \in Page
  BY DEF TypeOK, Page, BatchPage
<1>2. page' \in [Users -> Page]
  BY <1>1, ShowType DEF BatchAssign
<1> QED  BY <1>2 DEF BatchAssign, TypeOK

LEMMA BatchAssignExeType ==
  ASSUME TypeOK, NEW u \in Users, NEW S \in SUBSET Bugs, NEW d \in Users,
         BatchAssignExe(u, S, d)
  PROVE  TypeOK'
<1> DEFINE F == page[u].flow
<1>1. \A b \in Bugs : Live(b) => Assigned(u, d, bug[b], F) \in Row
  BY LiveRow, AssignedType
<1>2. ToFix(F) \in State
  BY DEF ToFix, State
<1>3. page' \in [Users -> Page]
  BY ShowType DEF BatchAssignExe, Page
<1>4. bug' \in [Bugs -> Row \cup {Unused, Deleted}]
  BY <1>1 DEF BatchAssignExe, TypeOK
<1>5. hist' \in [Bugs -> State \cup {NoState}]
  BY <1>2 DEF BatchAssignExe, TypeOK
<1> QED  BY <1>3, <1>4, <1>5 DEF BatchAssignExe, TypeOK

LEMMA UpdateRow ==
  ASSUME TypeOK, NEW b \in Bugs, Update(b)
  PROVE  [bug[b] EXCEPT !.text = @ + 1] \in Row
<1>1. bug[b] \in Row
  BY LiveRow DEF Update
<1>2. bug[b].text + 1 \in 0..MaxEdits
  BY <1>1, BoundsAssumption DEF Update, Row
<1> QED  BY <1>1, <1>2 DEF Row

LEMMA UpdateType ==
  ASSUME TypeOK, NEW b \in Bugs, Update(b)
  PROVE  TypeOK'
<1>1. bug' = [bug EXCEPT ![b] = [bug[b] EXCEPT !.text = @ + 1]]
  BY DEF Update, TypeOK
<1> QED  BY <1>1, UpdateRow DEF Update, TypeOK

LEMMA DeleteType ==
  ASSUME TypeOK, NEW b \in Bugs, Delete(b)
  PROVE  TypeOK'
  BY DEF Delete, TypeOK

(* The row that a change of the flow to F gives a bug it moves.            *)
LEMMA MovedRow ==
  ASSUME TypeOK, NEW u \in Users, NEW F \in Flows, UpdateFlow(u, F), NEW b \in Bugs
  PROVE  \/ bug'[b] = bug[b] /\ hist'[b] = hist[b]
         \/ /\ bug[b] \in Row
            /\ bug'[b] \in Row
            /\ bug'[b].st \notin Closed
            /\ bug'[b].next \in Users
            /\ hist'[b] \in {hist[b], bug'[b].st}
<1> DEFINE removed == flow \ F
           step == CHOOSE f \in removed : WaitsIn(f) = bug[b].st
           hit  == Live(b) /\ \E f \in removed : WaitsIn(f) = bug[b].st
<1>1. removed \subseteq {2, 3, 4, 6}
  BY FlowsAssumption DEF TypeOK, FlowStep
<1>2. /\ bug'[b] = IF hit THEN Adjusted(u, bug[b], step, F) ELSE bug[b]
      /\ hist'[b] \in {hist[b], bug'[b].st}
      /\ ~hit => hist'[b] = hist[b]
  BY DEF UpdateFlow
<1>3. hit => bug[b] \in Row /\ step \in {2, 3, 4, 6}
  BY <1>1, LiveRow
<1> HIDE DEF removed, step, hit
<1> QED  BY <1>2, <1>3, AdjustedType

LEMMA UpdateFlowType ==
  ASSUME TypeOK, NEW u \in Users, NEW F \in Flows, UpdateFlow(u, F)
  PROVE  TypeOK'
<1>1. \A b \in Bugs : /\ bug'[b] \in Row \cup {Unused, Deleted}
                      /\ hist'[b] \in State \cup {NoState}
  BY MovedRow DEF TypeOK, Row
<1>2. /\ bug' = [b \in Bugs |-> bug'[b]]
      /\ hist' = [b \in Bugs |-> hist'[b]]
  BY DEF UpdateFlow
<1>3. /\ bug' \in [Bugs -> Row \cup {Unused, Deleted}]
      /\ hist' \in [Bugs -> State \cup {NoState}]
  BY <1>1, <1>2
<1> QED  BY <1>3 DEF UpdateFlow, TypeOK

LEMMA ClosePageType ==
  ASSUME TypeOK, NEW u \in Users, ClosePage(u)
  PROVE  TypeOK'
  BY ShowType DEF ClosePage, TypeOK, Page

LEMMA TypeStep == TypeOK /\ [Next]_vars => TypeOK'
<1> SUFFICES ASSUME TypeOK, [Next]_vars
             PROVE  TypeOK'
  OBVIOUS
<1>1. CASE \E u \in Users : AddInit(u)
  BY <1>1, AddInitType
<1>2. CASE \E u \in Users, b \in Bugs, o \in Users : Add(u, b, o)
  BY <1>2, AddType
<1>3. CASE \E u \in Users, b \in Bugs : BugHand(u, b)
  BY <1>3, BugHandType
<1>4. CASE \E u \in Users : ChangeStatus(u)
  BY <1>4, ChangeStatusType
<1>5. CASE \E u \in Users : HandSub(u)
  BY <1>5, HandSubType
<1>6. CASE \E u \in Users : ClosePage(u)
  BY <1>6, ClosePageType
<1>7. CASE \E u \in Users : BatchAssign(u)
  BY <1>7, BatchAssignType
<1>8. CASE \E u \in Users, S \in SUBSET Bugs, d \in Users : BatchAssignExe(u, S, d)
  BY <1>8, BatchAssignExeType
<1>9. CASE \E b \in Bugs : Update(b)
  BY <1>9, UpdateType
<1>10. CASE \E b \in Bugs : Delete(b)
  BY <1>10, DeleteType
<1>11. CASE \E u \in Users, F \in Flows : UpdateFlow(u, F)
  BY <1>11, UpdateFlowType
<1>12. CASE UNCHANGED vars
  BY <1>12 DEF vars, TypeOK
<1> QED  BY <1>1, <1>2, <1>3, <1>4, <1>5, <1>6, <1>7, <1>8, <1>9, <1>10, <1>11,
            <1>12 DEF Next

(* Rows, histories and pages stay well-formed in every behaviour: whatever *)
(* a table offers, the page posts steps and owners the server can store.   *)
THEOREM TypeCorrect == Spec => []TypeOK
<1>1. Init => TypeOK
  BY TypeInit
<1>2. TypeOK /\ [Next]_vars => TypeOK'
  BY TypeStep
<1> QED  BY <1>1, <1>2, PTL DEF Spec

-----------------------------------------------------------------------------
(* What a step makes of a row                                              *)

Reported(r, s)  == r = Unused /\ s \in Row /\ s.st \notin Closed /\ s.next \in Users
Handled(r, s)   == r \in Row /\ s \in Row /\ (s.st \in Closed => s.next = NIL)
Edited(r, s)    == r \in Row /\ s \in Row /\ s = [r EXCEPT !.text = @ + 1]
Dropped(r, s)   == r \in Row /\ s = Deleted

RowStep(r, s) == s = r \/ Reported(r, s) \/ Handled(r, s) \/ Edited(r, s) \/ Dropped(r, s)

LEMMA HandSubRow ==
  ASSUME TypeOK, NEW u \in Users, HandSub(u), NEW b \in Bugs
  PROVE  bug'[b] = bug[b] \/ Handled(bug[b], bug'[b])
<1> DEFINE p == page[u]
<1>1. p \in HandPage /\ p.st # NoState
  BY PageKinds DEF HandSub
<1>2. CASE b = p.bug /\ Live(b)
  <2>1. bug'[b] = Saved(u, p)
    BY <1>2 DEF HandSub, Write, TypeOK
  <2> QED  BY <1>1, <1>2, <2>1, SavedType, LiveRow DEF Handled
<1>3. CASE ~(b = p.bug /\ Live(b))
  BY <1>3 DEF HandSub, Write, TypeOK
<1> QED  BY <1>2, <1>3

LEMMA BatchAssignExeRow ==
  ASSUME TypeOK, NEW u \in Users, NEW S \in SUBSET Bugs, NEW d \in Users,
         BatchAssignExe(u, S, d), NEW b \in Bugs
  PROVE  bug'[b] = bug[b] \/ Handled(bug[b], bug'[b])
<1> DEFINE F == page[u].flow
<1>1. CASE b \in S /\ Live(b)
  <2>1. bug'[b] = Assigned(u, d, bug[b], F)
    BY <1>1 DEF BatchAssignExe
  <2>2. bug[b] \in Row
    BY <1>1, LiveRow
  <2>3. bug'[b] \in Row /\ bug'[b].st \notin Closed
    BY <2>1, <2>2, AssignedType
  <2> QED  BY <2>2, <2>3 DEF Handled
<1>2. CASE ~(b \in S /\ Live(b))
  BY <1>2 DEF BatchAssignExe
<1> QED  BY <1>1, <1>2

LEMMA StepRows ==
  ASSUME TypeOK, [Next]_vars, NEW b \in Bugs
  PROVE  RowStep(bug[b], bug'[b])
<1>1. ASSUME NEW u \in Users, NEW c \in Bugs, NEW o \in Users, Add(u, c, o)
      PROVE  RowStep(bug[b], bug'[b])
  <2>1. PICK r \in Row : /\ bug[c] = Unused
                         /\ bug' = [bug EXCEPT ![c] = r]
                         /\ r.st \notin Closed
                         /\ r.next \in Users
    BY <1>1, AddRow
  <2> QED  BY <2>1 DEF RowStep, Reported, TypeOK
<1>2. ASSUME NEW u \in Users, HandSub(u)
      PROVE  RowStep(bug[b], bug'[b])
  BY <1>2, HandSubRow DEF RowStep
<1>3. ASSUME NEW u \in Users, NEW S \in SUBSET Bugs, NEW d \in Users,
             BatchAssignExe(u, S, d)
      PROVE  RowStep(bug[b], bug'[b])
  BY <1>3, BatchAssignExeRow DEF RowStep
<1>4. ASSUME NEW c \in Bugs, Update(c)
      PROVE  RowStep(bug[b], bug'[b])
  <2>1. bug[c] \in Row
    BY <1>4, LiveRow DEF Update
  <2>2. bug' = [bug EXCEPT ![c] = [bug[c] EXCEPT !.text = @ + 1]]
    BY <1>4 DEF Update, TypeOK
  <2> QED  BY <1>4, <2>1, <2>2, UpdateRow DEF RowStep, Edited, TypeOK
<1>5. ASSUME NEW c \in Bugs, Delete(c)
      PROVE  RowStep(bug[b], bug'[b])
  <2>1. bug[c] \in Row
    BY <1>5, LiveRow DEF Delete
  <2> QED  BY <1>5, <2>1 DEF Delete, RowStep, Dropped, TypeOK
<1>6. ASSUME NEW u \in Users, NEW F \in Flows, UpdateFlow(u, F)
      PROVE  RowStep(bug[b], bug'[b])
  BY <1>6, MovedRow DEF RowStep, Handled
<1>7. CASE UNCHANGED bug
  BY <1>7 DEF RowStep
<1>8. \/ UNCHANGED bug
      \/ \E u \in Users, c \in Bugs, o \in Users : Add(u, c, o)
      \/ \E u \in Users : HandSub(u)
      \/ \E u \in Users, S \in SUBSET Bugs, d \in Users : BatchAssignExe(u, S, d)
      \/ \E c \in Bugs : Update(c)
      \/ \E c \in Bugs : Delete(c)
      \/ \E u \in Users, F \in Flows : UpdateFlow(u, F)
  BY DEF Next, vars, AddInit, BugHand, ChangeStatus, ClosePage, BatchAssign
<1> QED  BY <1>1, <1>2, <1>3, <1>4, <1>5, <1>6, <1>7, <1>8

-----------------------------------------------------------------------------
(* Closed bugs                                                             *)

(* Nobody is asked to handle a closed bug, however many pages were open    *)
(* when it was closed.                                                     *)
THEOREM ClosedIsIdle == Spec => []ClosedAwaitsNobody
<1>1. Init => ClosedAwaitsNobody
  BY DEF Init, ClosedAwaitsNobody, Live, Unused, NoState, State
<1>2. TypeOK /\ ClosedAwaitsNobody /\ [Next]_vars => ClosedAwaitsNobody'
  <2> SUFFICES ASSUME TypeOK, ClosedAwaitsNobody, [Next]_vars,
                      NEW b \in Bugs, Live(b)', bug'[b].st \in Closed
               PROVE  bug'[b].next = NIL
    BY DEF ClosedAwaitsNobody
  <2>1. CASE bug'[b] = bug[b]
    BY <2>1 DEF ClosedAwaitsNobody, Live
  <2>2. CASE Reported(bug[b], bug'[b]) \/ Handled(bug[b], bug'[b])
    BY <2>2 DEF Reported, Handled
  <2>3. CASE Edited(bug[b], bug'[b])
    <3>1. bug'[b].st = bug[b].st /\ bug'[b].next = bug[b].next
      BY <2>3 DEF Edited, Row
    <3> QED  BY <3>1, LiveRow, <2>3 DEF Edited, ClosedAwaitsNobody
  <2>4. CASE Dropped(bug[b], bug'[b])
    BY <2>4 DEF Dropped, Deleted, Live, State
  <2> QED  BY StepRows, <2>1, <2>2, <2>3, <2>4 DEF RowStep
<1> QED  BY <1>1, <1>2, TypeCorrect, PTL DEF Spec

-----------------------------------------------------------------------------
(* The board                                                               *)

LEMMA CardType ==
  ASSUME NEW r \in Row \cup {Unused, Deleted}
  PROVE  /\ Card(r) \in Board!Card
         /\ r = Unused => Card(r) = Board!Idle("unused")
         /\ r = Deleted => Card(r) = Board!Idle("gone")
         /\ r \in Row => Board!Listed(Card(r))
         /\ r \in Row /\ r.st \notin Closed => Card(r) = Board!WaitsFor(r.next)
         /\ r \in Row /\ r.st \in Closed /\ r.next = NIL => Card(r) = Board!Idle("closed")
<1>1. /\ Unused.st \notin State /\ Deleted.st \notin State /\ Unused # Deleted
      /\ Closed \subseteq State
  <2>1. Unused.st = 0 /\ Deleted.st = 27
    BY DEF Unused, Deleted, NoState
  <2> QED  BY <2>1 DEF State, Closed
<1>2. r \in Row => r.st \in State /\ r.next \in Users \cup {NIL} /\ r # Unused /\ r # Deleted
  BY <1>1 DEF Row, Person
<1>3. CASE r = Unused
  <2>1. Card(r) = [phase |-> "unused", who |-> NIL]
    BY <1>1, <1>3 DEF Card
  <2> QED  BY <1>1, <1>2, <1>3, <2>1 DEF Board!Card, Board!Phase, Board!Idle
<1>4. CASE r = Deleted
  <2>1. Card(r) = [phase |-> "gone", who |-> NIL]
    BY <1>1, <1>4 DEF Card
  <2> QED  BY <1>1, <1>2, <1>4, <2>1 DEF Board!Card, Board!Phase, Board!Idle
<1>5. CASE r \in Row /\ r.st \in Closed
  <2>1. Card(r) = [phase |-> "closed", who |-> r.next]
    BY <1>2, <1>5 DEF Card
  <2> QED
    BY <1>2, <1>5, <2>1 DEF Board!Card, Board!Phase, Board!Idle, Board!Listed
<1>6. CASE r \in Row /\ r.st \notin Closed
  <2>1. Card(r) = [phase |-> "open", who |-> r.next]
    BY <1>2, <1>6 DEF Card
  <2> QED
    BY <1>2, <1>6, <2>1 DEF Board!Card, Board!Phase, Board!WaitsFor, Board!Listed
<1> QED  BY <1>3, <1>4, <1>5, <1>6

LEMMA BoardStep ==
  ASSUME TypeOK, TypeOK', ClosedAwaitsNobody, [Next]_vars
  PROVE  Board!Next \/ UNCHANGED board
<1>1. \A b \in Bugs : bug[b] \in Row \cup {Unused, Deleted}
                      /\ bug'[b] \in Row \cup {Unused, Deleted}
  BY DEF TypeOK
<1>2. board' \in [Bugs -> Board!Card]
  BY <1>1, CardType DEF board
<1>3. ASSUME NEW b \in Bugs
      PROVE  LET c == Card(bug[b]) d == Card(bug'[b])
             IN \/ c = d
                \/ Board!Report(c, d)
                \/ Board!Pass(c, d)
                \/ Board!Close(c, d)
                \/ Board!Remove(c, d)
  <2> DEFINE c == Card(bug[b])
             d == Card(bug'[b])
  <2>1. CASE bug'[b] = bug[b]
    BY <2>1
  <2>2. CASE Reported(bug[b], bug'[b])
    <3>1. Board!Report(c, d)
      BY <1>1, <2>2, CardType DEF Reported, Board!Report
    <3> QED  BY <3>1
  <2>3. CASE Handled(bug[b], bug'[b])
    <3>1. Board!Listed(c) /\ bug'[b].next \in Users \cup {NIL}
      BY <1>1, <2>3, CardType DEF Handled, Row, Person
    <3>2. CASE bug'[b].st \in Closed
      <4>1. Board!Close(c, d)
        BY <1>1, <2>3, <3>1, <3>2, CardType DEF Handled, Board!Close
      <4> QED  BY <4>1
    <3>3. CASE bug'[b].st \notin Closed
      <4>1. Board!Pass(c, d)
        BY <1>1, <2>3, <3>1, <3>3, CardType DEF Handled, Board!Pass
      <4> QED  BY <4>1
    <3> QED  BY <3>2, <3>3
  <2>4. CASE Edited(bug[b], bug'[b])
    <3>1. /\ bug[b] \in Row /\ bug'[b] \in Row
          /\ bug'[b].st = bug[b].st /\ bug'[b].next = bug[b].next
      BY <2>4 DEF Edited, Row
    <3>2. bug[b].st \in Closed => bug[b].next = NIL
      BY <3>1, LiveRow DEF ClosedAwaitsNobody
    <3> QED  BY <1>1, <3>1, <3>2, CardType
  <2>5. CASE Dropped(bug[b], bug'[b])
    <3>1. Board!Remove(c, d)
      BY <1>1, <2>5, CardType DEF Dropped, Board!Remove
    <3> QED  BY <3>1
  <2> QED  BY StepRows, <2>1, <2>2, <2>3, <2>4, <2>5 DEF RowStep
<1> QED  BY <1>2, <1>3 DEF Board!Next, board

(* Handling implements the board: a bug is reported once, passed on or     *)
(* closed as often as its handlers like, and never comes back when it has  *)
(* been deleted, although pages opened before are still submitted for it.  *)
THEOREM HandlingKeepsTheBoard == Spec => KeepsTheBoard
<1>1. Init => Board!Init
  BY CardType DEF Init, Board!Init, board
<1>2. TypeOK /\ TypeOK' /\ ClosedAwaitsNobody /\ [Next]_vars => [Board!Next]_board
  BY BoardStep
<1> QED
  BY <1>1, <1>2, TypeCorrect, ClosedIsIdle, PTL DEF Spec, KeepsTheBoard, Board!Spec

-----------------------------------------------------------------------------
(* The history                                                             *)

(* A page never has the state picked that it was opened with, so what is   *)
(* submitted is always logged as a change, stale or not.                   *)
PagesChange == \A u \in Users : On(u, "hand") => page[u].st # page[u].row.st

LEMMA MenuChanges ==
  ASSUME NEW u, NEW r \in Row, NEW F
  PROVE  r.st \notin MenuOf(u, r, F).opts
<1>1. r.st \in State
  BY DEF Row
<1> QED  BY <1>1, MyMenuChanges, DutyMenuChanges DEF MenuOf

LEMMA PagesChangeStep ==
  ASSUME TypeOK, PagesChange, [Next]_vars
  PROVE  PagesChange'
<1> SUFFICES ASSUME NEW v \in Users, On(v, "hand")'
             PROVE  page'[v].st # page'[v].row.st
  BY DEF PagesChange
<1>1. CASE page'[v] = page[v]
  BY <1>1 DEF PagesChange, On
<1>2. ASSUME NEW u \in Users, NEW b \in Bugs, BugHand(u, b)
      PROVE  page'[v].st # page'[v].row.st
  <2>1. CASE u = v
    <3>1. page'[v].st = NoState /\ page'[v].row = bug[b] /\ bug[b].st \in State
      BY <1>2, <2>1 DEF BugHand, Show, TypeOK, Live
    <3> QED  BY <3>1 DEF NoState, State
  <2>2. CASE u # v
    BY <1>1, <1>2, <2>2 DEF BugHand, Show, TypeOK
  <2> QED  BY <2>1, <2>2
<1>3. ASSUME NEW u \in Users, ChangeStatus(u)
      PROVE  page'[v].st # page'[v].row.st
  <2>1. PICK y \in HandPage : /\ Show(u, y)
                              /\ y.row = page[u].row
                              /\ y.st \in MenuOf(u, page[u].row, page[u].flow).opts
    BY <1>3, ChosenPage DEF SamePlace
  <2>2. y.st # y.row.st
    BY <2>1, MenuChanges DEF HandPage
  <2> QED  BY <1>1, <2>1, <2>2 DEF Show, TypeOK
<1>4. ASSUME NEW u \in Users, NEW y, Show(u, y), y.kind # "hand"
      PROVE  page'[v].st # page'[v].row.st
  BY <1>1, <1>4 DEF Show, On, TypeOK
<1>5. ASSUME NEW u \in Users, AddInit(u) \/ BatchAssign(u)
      PROVE  page'[v].st # page'[v].row.st
  <2>1. PICK y : Show(u, y) /\ y.kind # "hand"
    BY <1>5 DEF AddInit, BatchAssign
  <2> QED  BY <1>4, <2>1
<1>6. ASSUME NEW u \in Users, Show(u, NoPage)
      PROVE  page'[v].st # page'[v].row.st
  BY <1>4, <1>6 DEF NoPage
<1>7. \/ UNCHANGED page
      \/ \E u \in Users : \/ \E b \in Bugs : BugHand(u, b)
                          \/ ChangeStatus(u)
                          \/ AddInit(u) \/ BatchAssign(u)
                          \/ Show(u, NoPage)
  BY DEF Next, vars, Add, HandSub, ClosePage, BatchAssignExe, Update, Delete, UpdateFlow
<1> QED  BY <1>1, <1>2, <1>3, <1>5, <1>6, <1>7

(* The flows between which the task is switched: no two of them differ by  *)
(* the removal of more than one step.                                      *)
OneStepAtATime == \A F, G \in Flows : \A f, g \in F \ G : f = g

LEMMA HistoryStep ==
  ASSUME OneStepAtATime, TypeOK, TypeOK', PagesChange, HistoryAgrees, [Next]_vars
  PROVE  HistoryAgrees'
<1> SUFFICES ASSUME NEW b \in Bugs, Live(b)'
             PROVE  hist'[b] = bug'[b].st
  BY DEF HistoryAgrees
<1>1. CASE UNCHANGED <<bug, hist>>
  BY <1>1 DEF HistoryAgrees, Live
<1>2. ASSUME NEW u \in Users, NEW c \in Bugs, NEW o \in Users, Add(u, c, o)
      PROVE  hist'[b] = bug'[b].st
  <2>1. PICK r \in Row : /\ bug' = [bug EXCEPT ![c] = r]
                         /\ hist' = [hist EXCEPT ![c] = r.st]
    BY <1>2, AddRow
  <2> QED  BY <2>1 DEF HistoryAgrees, Live, TypeOK
<1>3. ASSUME NEW u \in Users, HandSub(u)
      PROVE  hist'[b] = bug'[b].st
  <2> DEFINE p == page[u]
  <2>1. p \in HandPage /\ p.st # NoState /\ Logged(p)
    BY <1>3, PageKinds DEF HandSub, PagesChange, Logged
  <2>2. CASE b = p.bug
    <3>1. Live(b)
      BY <1>3, <2>2 DEF HandSub, Write, Live
    <3>2. bug'[b] = Saved(u, p) /\ hist'[b] = p.st
      BY <1>3, <2>1, <2>2, <3>1 DEF HandSub, Write, TypeOK
    <3> QED  BY <2>1, <3>2, SavedType
  <2>3. CASE b # p.bug
    <3>1. bug'[b] = bug[b] /\ hist'[b] = hist[b]
      BY <1>3, <2>3 DEF HandSub, Write, TypeOK
    <3> QED  BY <3>1 DEF HistoryAgrees, Live
  <2> QED  BY <2>2, <2>3
<1>4. ASSUME NEW u \in Users, NEW S \in SUBSET Bugs, NEW d \in Users,
             BatchAssignExe(u, S, d)
      PROVE  hist'[b] = bug'[b].st
  <2>1. CASE b \in S
    <3>1. Live(b)
      BY <1>4 DEF BatchAssignExe, Live
    <3> QED  BY <1>4, <2>1, <3>1, LiveRow, AssignedType DEF BatchAssignExe
  <2>2. CASE b \notin S
    BY <1>4, <2>2 DEF BatchAssignExe, HistoryAgrees, Live
  <2> QED  BY <2>1, <2>2
<1>5. ASSUME NEW c \in Bugs, Update(c)
      PROVE  hist'[b] = bug'[b].st
  <2>1. bug'[b].st = bug[b].st /\ hist'[b] = hist[b]
    <3>1. CASE b = c
      <4>1. bug[b] \in Row
        BY <1>5, <3>1, LiveRow DEF Update
      <4>2. bug'[b] = [bug[b] EXCEPT !.text = @ + 1]
        BY <1>5, <3>1 DEF Update, TypeOK
      <4>3. [bug[b] EXCEPT !.text = @ + 1].st = bug[b].st
        BY <4>1 DEF Row
      <4> QED  BY <1>5, <4>2, <4>3 DEF Update
    <3>2. CASE b # c
      BY <1>5, <3>2 DEF Update, TypeOK
    <3> QED  BY <3>1, <3>2
  <2> QED  BY <2>1 DEF HistoryAgrees, Live
<1>6. ASSUME NEW c \in Bugs, Delete(c)
      PROVE  hist'[b] = bug'[b].st
  BY <1>6 DEF Delete, HistoryAgrees, Live, TypeOK, Deleted, State
<1>7. ASSUME NEW u \in Users, NEW F \in Flows, UpdateFlow(u, F)
      PROVE  hist'[b] = bug'[b].st
  <2> DEFINE removed == flow \ F
             step == CHOOSE f \in removed : WaitsIn(f) = bug[b].st
             hit  == Live(b) /\ \E f \in removed : WaitsIn(f) = bug[b].st
  <2>1. \A f, g \in removed : f = g /\ f \in Nat
    BY <1>7, FlowsAssumption DEF OneStepAtATime, TypeOK, FlowStep
  <2>2. hit => \A g \in removed : g <= step
    BY <2>1
  <2>3. /\ ~hit => bug'[b] = bug[b] /\ hist'[b] = hist[b]
        /\ hit => hist'[b] = bug'[b].st
    BY <1>7, <2>2 DEF UpdateFlow
  <2> QED  BY <2>3 DEF HistoryAgrees, Live
<1>8. \/ UNCHANGED <<bug, hist>>
      \/ \E u \in Users, c \in Bugs, o \in Users : Add(u, c, o)
      \/ \E u \in Users : HandSub(u)
      \/ \E u \in Users, S \in SUBSET Bugs, d \in Users : BatchAssignExe(u, S, d)
      \/ \E c \in Bugs : Update(c)
      \/ \E c \in Bugs : Delete(c)
      \/ \E u \in Users, F \in Flows : UpdateFlow(u, F)
  BY DEF Next, vars, AddInit, BugHand, ChangeStatus, ClosePage, BatchAssign
<1> QED  BY <1>1, <1>2, <1>3, <1>4, <1>5, <1>6, <1>7, <1>8

(* Row and history tell the same state of a bug, although they are written *)
(* by separate statements and the history only when the page has logged a  *)
(* change, provided that the flow loses at most one step at a time.        *)
THEOREM HistoryIsKept ==
  ASSUME OneStepAtATime
  PROVE  Spec => []HistoryAgrees
<1>1. Init => PagesChange /\ HistoryAgrees
  BY DEF Init, PagesChange, HistoryAgrees, On, NoPage, Live, Unused, NoState, State
<1>2. TypeOK /\ TypeOK' /\ PagesChange /\ HistoryAgrees /\ [Next]_vars
        => PagesChange' /\ HistoryAgrees'
  BY PagesChangeStep, HistoryStep
<1> QED  BY <1>1, <1>2, TypeCorrect, PTL DEF Spec

-----------------------------------------------------------------------------
(* Changing the flow                                                       *)

(* No bug is left behind in a state that waits for a removed step, and     *)
(* none is moved into one, whichever and however many steps are removed.   *)
THEOREM NoBugIsStranded == Spec => RemovedStepsAreLeft
<1>1. ASSUME TypeOK, [Next]_vars
      PROVE  flow' # flow =>
               \A b \in Bugs, f \in flow \ flow' : bug'[b].st # WaitsIn(f)
  <2> SUFFICES ASSUME NEW u \in Users, NEW F \in Flows, UpdateFlow(u, F),
                      NEW b \in Bugs, NEW f \in flow \ F
               PROVE  bug'[b].st # WaitsIn(f)
    BY <1>1 DEF Next, vars, AddInit, Add, BugHand, ChangeStatus, HandSub, ClosePage,
                BatchAssign, BatchAssignExe, Update, Delete, UpdateFlow
  <2> DEFINE step == CHOOSE g \in flow \ F : WaitsIn(g) = bug[b].st
             hit  == Live(b) /\ \E g \in flow \ F : WaitsIn(g) = bug[b].st
             n    == StepAfter(F, step)
  <2>1. flow \ F \subseteq {2, 3, 4, 6}
    BY <1>1, FlowsAssumption DEF TypeOK, FlowStep
  <2>2. WaitsIn(f) \in {1, 18, 24, 25}
    BY <2>1 DEF WaitsIn
  <2>3. CASE hit
    <3>1. /\ bug[b] \in Row
          /\ step \in {2, 3, 4, 6}
          /\ bug'[b] = Adjusted(u, bug[b], step, F)
      BY <1>1, <2>1, <2>3, LiveRow DEF UpdateFlow
    <3> HIDE DEF step
    <3>2. CASE step = 6
      BY <2>2, <3>1, <3>2, AdjustedType, SMTT(30)
    <3>3. CASE step # 6
      <4>1. bug'[b].st = WaitingState(n)
        BY <3>1, <3>3, AdjustedType, SMTT(30)
      <4>2. n \in F /\ n \in FlowStep
        BY <3>1, <3>3, StepAfterType
      <4> HIDE DEF n
      <4> QED  BY <2>1, <4>1, <4>2 DEF WaitingState, WaitsIn, FlowStep
    <3> QED  BY <3>2, <3>3
  <2>4. CASE ~hit
    <3>1. bug'[b] = bug[b]
      BY <2>4 DEF UpdateFlow
    <3> QED  BY <2>2, <2>4, <3>1 DEF Live, State
  <2> QED  BY <2>3, <2>4, SMTT(30)
<1> QED  BY <1>1, TypeCorrect, PTL DEF Spec, RemovedStepsAreLeft

=============================================================================
