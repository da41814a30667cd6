---------------------------- MODULE BugHandling ----------------------------
(***************************************************************************)
(* Bugs of one test task on their way through the defect workflow.         *)
(*                                                                         *)
(* The server keeps a row per bug and a history of its handling; every     *)
(* handler works on a page that was filled from the row when it was opened *)
(* and posts all of it back.  The row has no version and is written        *)
(* unconditionally, so whatever happened to the bug while a page was open  *)
(* is lost to the page.  Other writers are the batch assignment (a list of *)
(* bugs queried earlier), the edit of a bug's content, its deletion, and   *)
(* the change of the task's flow, which moves the bugs waiting for a step  *)
(* that is taken out.                                                      *)
(*                                                                         *)
(* One transaction of the service is one action.                           *)
(***************************************************************************)
EXTENDS BugFlow, FiniteSets

CONSTANTS
  Users,      \* the users that can log in
  Bugs,       \* identities of bug rows; a deleted one is not used again
  NIL,        \* an unset user column
  Actors,     \* Actors[f]: the users named for step f of the flow
  Managers,   \* the users with the right to configure the task
  Flows,      \* the flows they may configure for it
  Picks,      \* bound: the states that handlers pick
  MaxForms,   \* bound: pages open at the same time
  MaxChoices, \* bound: states tried out in one page
  MaxEdits    \* bound: edits of the content of one bug

ASSUME NILAssumption == NIL \notin Users

ASSUME ActorsAssumption == Actors \in [FlowStep -> (SUBSET Users) \ {{}}]

ASSUME ManagersAssumption == Managers \subseteq Users

(* updatePrepare adds the steps 1, 5, 7 and 8 to every flow it is sent. *)
ASSUME FlowsAssumption ==
  \A F \in Flows : F \subseteq FlowStep /\ {1, 5, 7, 8} \subseteq F

ASSUME BoundsAssumption ==
  Picks \subseteq State /\ MaxForms \in Nat /\ MaxChoices \in Nat /\ MaxEdits \in Nat

VARIABLES
  flow,    \* the steps of the task's flow (TestFlowInfo)
  bug,     \* the rows of BugBaseInfo
  hist,    \* per bug the state recorded by its newest BugHandHistory row
  page     \* per user the page open in the browser

vars == <<flow, bug, hist, page>>

-----------------------------------------------------------------------------
(* Data *)

NoState == 0
NoStep  == 9        \* the page has not chosen a next step
NoDuty  == "none"

Person == Users \cup {NIL}
Owners == [Duty -> Person]

(* st, init: current state and the state before the last handler's work;   *)
(* cur, nxt: the step done and the step to do; handler: who handled the    *)
(* bug last; rept: who reported it; own: its owners; next: who is asked to *)
(* handle it (nextOwnerId); text: a version of its content.                *)
Row ==
  [st : State, init : State, cur : 0..8, nxt : 0..8, handler : Users,
   rept : Users, own : Owners, next : Person, text : 0..MaxEdits]

Unused  == [st |-> NoState]
Deleted == [st |-> 27]
Live(b) == bug[b].st \in State

NoPage == [kind |-> "none"]

ReportPage == [kind : {"report"}, flow : Flows]

BatchPage == [kind : {"batch"}, flow : Flows, bugs : SUBSET Bugs]

(* The row and the flow the page was filled from, and what the handler     *)
(* chose since: the state, the next step, the duty and person last picked  *)
(* in the next-handler box, and the hidden field nextOwnerId; tries counts *)
(* the choices.                                                            *)
HandPage ==
  [kind : {"hand"}, bug : Bugs, flow : Flows, row : Row,
   st : State \cup {NoState}, step : 0..9, duty : Duty \cup {NoDuty},
   pick : Person, next : Person, tries : 0..MaxChoices]

Page == {NoPage} \cup ReportPage \cup BatchPage \cup HandPage

On(u, kind) == page[u].kind = kind

(* A new page can be opened by u. *)
Free(u) == On(u, "none") /\ Cardinality({v \in Users : ~On(v, "none")}) < MaxForms

Show(u, p) == page' = [page EXCEPT ![u] = p]

-----------------------------------------------------------------------------
(* Rights *)

(* roleInTask, and isTeamMember: only the steps of the task's flow count.  *)
Roles(u, F)  == {f \in F : u \in Actors[f]}
Member(u, F) == Roles(u, F) # {}

(* getNextHandler and getNextOwner *)
OwnerFor(own, step) == IF step \in FlowStep THEN own[DutyOf(step)] ELSE NIL

OwnedButDev(u, own) == {d \in Duty \ {"dev"} : own[d] = u}      \* mutant

OwnedDuties(u, own) == {d \in Duty : own[d] = u}

RoleDuties(R) ==
  {d \in Duty : \/ d = "test"      /\ 8 \in R
                \/ d = "intercess" /\ 7 \in R
                \/ d = "assign"    /\ 4 \in R
                \/ d = "analyse"   /\ 3 \in R}

(* What a user may do for a bug: the duties he owns and those his role     *)
(* covers.  When the awaited owner is not in the team, ownership counts    *)
(* for the developer only (an owner the page posted as "" is not in it).   *)
DutiesByRoleOnly(u, r, F) == RoleDuties(Roles(u, F))      \* mutant

Duties(u, r, F) ==
  LET awaited == OwnerFor(r.own, r.nxt)
      left    == u # r.handler /\ r.nxt \in FlowStep /\ ~Member(awaited, F)
      owned   == OwnedDuties(u, r.own)
  IN RoleDuties(Roles(u, F)) \cup (IF left THEN owned \cap {"dev"} ELSE owned)

(* The states offered to user u for a row r under flow F. *)
MenuOf(u, r, F) ==
  LET c == CorrectFlow(F, r.cur)
  IN IF u = r.handler
     THEN MyMenu(r.st, r.init, c, F, Roles(u, F), Duties(u, r, F))
     ELSE DutyMenu(r.st, r.init, c, F, Duties(u, r, F))

(* The people the page lists for a step (setActorListData). *)
Candidates(step, F) ==
  CASE step \in {1, 8} -> Actors[1] \cup Actors[8]
    [] step = 2 /\ 2 \in F -> Actors[2] \cup Actors[8]
    [] step \in {3, 4, 5, 6, 7} /\ step \in F -> Actors[step]
    [] OTHER -> {}

-----------------------------------------------------------------------------
(* Reporting a bug *)

(* The step after testing and the state a new bug waits for it in. *)
StepPlusOne(F, step) == step + 1      \* mutant

StepAfter(F, step) ==
  CHOOSE f \in F : f > step /\ \A g \in F : g > step => f <= g

WaitingState(step) ==
  CASE step = 2 -> 1 [] step = 3 -> 24 [] step = 4 -> 25 [] OTHER -> 10

AddInit(u) ==
  /\ Free(u)
  /\ Member(u, flow)
  /\ Show(u, [kind |-> "report", flow |-> flow])
  /\ UNCHANGED <<flow, bug, hist>>

(* The flow is the one of the page; the server does not look again. *)
Add(u, b, o) ==
  LET step == StepAfter(page[u].flow, 1)
      own  == [d \in Duty |-> IF d = DutyOf(step) THEN o
                              ELSE IF d = "test" THEN u ELSE NIL]
      st   == WaitingState(step)
  IN /\ On(u, "report")
     /\ bug[b] = Unused
     /\ o \in Actors[step]
     /\ bug' = [bug EXCEPT ![b] =
          [st |-> st, init |-> st, cur |-> 1, nxt |-> step, handler |-> u,
           rept |-> u, own |-> own, next |-> OwnerFor(own, step), text |-> 0]]
     /\ hist' = [hist EXCEPT ![b] = st]
     /\ Show(u, NoPage)
     /\ UNCHANGED flow

-----------------------------------------------------------------------------
(* Handling a bug *)

(* setCurrOwner takes the name of the owner of the next step; without one  *)
(* it fails and so does the request.                                       *)
Shown(r) == r.st \in Closed \cup {3} \/ r.nxt = 0 \/ OwnerFor(r.own, r.nxt) # NIL

BugHand(u, b) ==
  /\ Free(u)
  /\ Live(b)
  /\ Member(u, flow)
  /\ Shown(bug[b])
  /\ MenuOf(u, bug[b], flow).opts # {}
  /\ Show(u, [kind |-> "hand", bug |-> b, flow |-> flow, row |-> bug[b],
              st |-> NoState, step |-> NoStep, duty |-> NoDuty, pick |-> NIL,
              next |-> bug[b].next, tries |-> 0])
  /\ UNCHANGED <<flow, bug, hist>>

(* Whom the next-handler box can name: the listed people, or the present   *)
(* owner, who is preset.  Nobody is preset for a confirmation unless an    *)
(* earlier choice left its name behind, and for a fixed bug the owner is   *)
(* preset only if he is a tester.                                          *)
Nameable(p, s, step) ==
  LET listed == Candidates(step, p.flow)
      owner  == p.row.own[DutyOf(step)]
      preset == /\ owner # NIL
                /\ step = 2 => p.duty # NoDuty
                /\ s \in {13, 26} => owner \in listed
  IN IF listed = {} THEN {} ELSE listed \cup (IF preset THEN {owner} ELSE {})

(* The handler picks a state (and the next person, where one is needed).   *)
(* An option without an entry leaves the earlier choice of step and person *)
(* in place.                                                               *)
ChangeStatus(u) ==
  LET p == page[u]
      m == MenuOf(u, p.row, p.flow)
  IN /\ On(u, "hand")
     /\ p.tries < MaxChoices
     /\ \E s \in (m.opts \cap Picks) \ {p.st} :
          LET q == [p EXCEPT !.st = s, !.tries = @ + 1]
          IN \/ /\ EntriesFor(m, s) = {}
                /\ Show(u, q)
             \/ \E e \in EntriesFor(m, s) :
                  /\ ~e.pick
                  /\ Show(u, [q EXCEPT !.step = e.next, !.next = NIL])
             \/ \E e \in EntriesFor(m, s) : \E o \in Nameable(p, s, e.next) :
                  /\ e.pick
                  /\ Show(u, [q EXCEPT !.step = e.next, !.next = o,
                                       !.duty = DutyOf(e.next), !.pick = o])
     /\ UNCHANGED <<flow, bug, hist>>

(* handChk: the steps the page posts.  Somebody else's work is carried on  *)
(* from the awaited step; the last handler only corrects his own.          *)
PostedUnchosen(u, p) == [cur |-> p.row.nxt, nxt |-> p.step]      \* mutant

Posted(u, p) ==
  LET r == p.row
  IN CASE p.step = NoStep -> [cur |-> r.cur, nxt |-> r.nxt]
       [] p.step # NoStep /\ u # r.handler -> [cur |-> r.nxt, nxt |-> p.step]
       [] p.step # NoStep /\ u = r.handler ->
            [cur |-> IF p.step \in {r.cur, r.nxt} THEN r.cur ELSE r.nxt,
             nxt |-> IF p.step = r.cur THEN r.nxt ELSE p.step]

(* handSubmitForm writes the picked person to the duty picked last. *)
PostedOldOwners(p) == p.row.own      \* mutant

PostedOwners(p) ==
  IF p.duty = NoDuty THEN p.row.own ELSE [p.row.own EXCEPT ![p.duty] = p.pick]

(* buildBugUpHql: a closed state awaits nobody, an open one the person     *)
(* posted or else the owner for the next step.                             *)
NextOwnerAlways(p, own, nxt) ==      \* mutant
  IF p.next # NIL THEN p.next ELSE OwnerFor(own, nxt)

NextOwner(p, own, nxt) ==
  CASE p.st \in Closed                    -> NIL
    [] p.st \notin Closed /\ p.next # NIL -> p.next
    [] p.st \notin Closed /\ p.next = NIL -> OwnerFor(own, nxt)

(* A confirming tester gives the bug back to its reporter.                 *)
Saved(u, p) ==
  LET flw  == Posted(u, p)
      own  == PostedOwners(p)
      back == flw.cur = 2 /\ own["test"] = u
  IN [st      |-> p.st,
      init    |-> IF u = p.row.handler THEN p.row.init ELSE p.row.st,
      cur     |-> flw.cur,
      nxt     |-> flw.nxt,
      handler |-> u,
      rept    |-> p.row.rept,
      own     |-> IF back THEN [own EXCEPT !["test"] = p.row.rept] ELSE own,
      next    |-> NextOwner(p, own, flw.nxt),
      text    |-> p.row.text]

(* The update matches no row when the bug was deleted meanwhile. *)
Upsert(b, r) == [bug EXCEPT ![b] = r]      \* mutant

Write(b, r) == IF Live(b) THEN [bug EXCEPT ![b] = r] ELSE bug

(* The page logs a change of state or of an owner; without a log the       *)
(* server writes no history.                                               *)
LoggedSinceInit(p) ==      \* mutant
  p.st # p.row.init \/ PostedOwners(p) # p.row.own

Logged(p) == p.st # p.row.st \/ PostedOwners(p) # p.row.own

(* The history is written for a deleted bug, too.                          *)
HandSub(u) ==
  LET p == page[u]
  IN /\ On(u, "hand")
     /\ p.st # NoState
     /\ bug' = Write(p.bug, Saved(u, p))
     /\ hist' = IF Logged(p) THEN [hist EXCEPT ![p.bug] = p.st] ELSE hist
     /\ Show(u, NoPage)
     /\ UNCHANGED flow

ClosePage(u) ==
  /\ ~On(u, "none")
  /\ Show(u, NoPage)
  /\ UNCHANGED <<flow, bug, hist>>

-----------------------------------------------------------------------------
(* Batch assignment *)

(* The list holds the bugs that wait for an assignment or reassignment. *)
BatchAssign(u) ==
  LET found == {b \in Bugs : bug[b].st \in {17, 25}}
  IN /\ Free(u)
     /\ Roles(u, flow) \cap {4, 7} # {}
     /\ found # {}
     /\ Show(u, [kind |-> "batch", flow |-> flow, bugs |-> found])
     /\ UNCHANGED <<flow, bug, hist>>

ToFix(F) == IF 2 \in F THEN 7 ELSE 10

Assigned(u, d, r, F) ==
  [r EXCEPT !.st = ToFix(F), !.init = 25, !.cur = 4, !.nxt = 5,
            !.handler = u, !.own["dev"] = d, !.next = d]

(* The chosen bugs are overwritten whatever their state is by now; each    *)
(* gets a history row, a deleted one, too.                                 *)
BatchAssignExe(u, S, d) ==
  LET F == page[u].flow
  IN /\ On(u, "batch")
     /\ S \subseteq page[u].bugs /\ S # {}
     /\ d \in Actors[5]
     /\ bug' = [b \in Bugs |-> IF b \in S /\ Live(b) THEN Assigned(u, d, bug[b], F)
                                                     ELSE bug[b]]
     /\ hist' = [b \in Bugs |-> IF b \in S THEN ToFix(F) ELSE hist[b]]
     /\ Show(u, NoPage)
     /\ UNCHANGED flow

-----------------------------------------------------------------------------
(* Content and deletion *)

Update(b) ==
  /\ Live(b)
  /\ bug[b].text < MaxEdits
  /\ bug' = [bug EXCEPT ![b].text = @ + 1]
  /\ UNCHANGED <<flow, hist, page>>

Delete(b) ==
  /\ Live(b)
  /\ bug' = [bug EXCEPT ![b] = Deleted]
  /\ hist' = [hist EXCEPT ![b] = NoState]
  /\ UNCHANGED <<flow, page>>

-----------------------------------------------------------------------------
(* Changing the flow of the task *)

(* The state a bug waits in for a step that can be taken out. *)
WaitsIn(step) ==
  CASE step = 2 -> 1 [] step = 3 -> 24 [] step = 4 -> 25 [] step = 6 -> 18

LastNamed(step) == CHOOSE u \in Actors[step] : TRUE

AdjustedInPart(u, r, step, F) ==      \* mutant
  LET n == IF step = 6 THEN 8 ELSE StepAfter(F, step)
  IN [r EXCEPT !.st = IF step = 6 THEN 13 ELSE WaitingState(n), !.init = WaitsIn(step),
               !.nxt = n, !.handler = u, !.next = LastNamed(n)]

(* getAdustHql: the bugs waiting for a removed step go on to the next      *)
(* step that is left and to the person named last for it.                  *)
Adjusted(u, r, step, F) ==
  IF step = 6
  THEN [r EXCEPT !.st = 13, !.init = 18, !.nxt = 8, !.handler = u,
                 !.next = LastNamed(1)]
  ELSE LET n == StepAfter(F, step)
       IN [r EXCEPT !.st = WaitingState(n), !.init = WaitsIn(step), !.nxt = n,
                    !.handler = u, !.own[DutyOf(n)] = LastNamed(n),
                    !.next = LastNamed(n)]

(* The history list is replaced for every removed step, so only the last   *)
(* step's bugs get a history row.                                          *)
UpdateFlow(u, F) ==
  LET removed == flow \ F
      step(b) == CHOOSE f \in removed : WaitsIn(f) = bug[b].st
      hit(b)  == Live(b) /\ \E f \in removed : WaitsIn(f) = bug[b].st
      last(f) == \A g \in removed : g <= f
  IN /\ u \in Managers
     /\ F # flow
     /\ flow' = F
     /\ bug' = [b \in Bugs |-> IF hit(b) THEN Adjusted(u, bug[b], step(b), F)
                                         ELSE bug[b]]
     /\ hist' = [b \in Bugs |-> IF hit(b) /\ last(step(b)) THEN bug'[b].st
                                                           ELSE hist[b]]
     /\ UNCHANGED page

-----------------------------------------------------------------------------
Init ==
  /\ flow \in Flows
  /\ bug = [b \in Bugs |-> Unused]
  /\ hist = [b \in Bugs |-> NoState]
  /\ page = [u \in Users |-> NoPage]

Next ==
  \/ \E u \in Users : AddInit(u)
  \/ \E u \in Users, b \in Bugs, o \in Users : Add(u, b, o)
  \/ \E u \in Users, b \in Bugs : BugHand(u, b)
  \/ \E u \in Users : ChangeStatus(u)
  \/ \E u \in Users : HandSub(u)
  \/ \E u \in Users : ClosePage(u)
  \/ \E u \in Users : BatchAssign(u)
  \/ \E u \in Users, S \in SUBSET Bugs, d \in Users : BatchAssignExe(u, S, d)
  \/ \E b \in Bugs : Update(b)
  \/ \E b \in Bugs : Delete(b)
  \/ \E u \in Users, F \in Flows : UpdateFlow(u, F)

Spec == Init /\ [][Next]_vars

-----------------------------------------------------------------------------
(* What the list of bugs shows *)

Card(r) ==
  [phase |-> CASE r = Unused        -> "unused"
               [] r = Deleted       -> "gone"
               [] r.st \in Closed   -> "closed"
               [] OTHER             -> "open",
   who   |-> IF r.st \in State THEN r.next ELSE NIL]

board == [b \in Bugs |-> Card(bug[b])]

Board == INSTANCE BugBoard WITH card <- board

(* The pages, however stale, and the other writers keep the promises of    *)
(* BugBoard: a deleted bug stays deleted although late submissions for it  *)
(* still arrive, and a closed one waits for nobody.                        *)
KeepsTheBoard == Board!Spec

-----------------------------------------------------------------------------
(* Type invariant: rows, history and pages hold what their columns and     *)
(* fields can hold; in particular every step and person a page chooses is  *)
(* one the server can store.                                               *)
TypeOK ==
  /\ flow \in Flows
  /\ bug \in [Bugs -> Row \cup {Unused, Deleted}]
  /\ hist \in [Bugs -> State \cup {NoState}]
  /\ page \in [Users -> Page]

(* A closed bug waits for nobody, whoever wrote its row last and from      *)
(* whatever page (buildBugUpHql empties nextOwnerId, the other writers     *)
(* only leave open states behind).                                         *)
ClosedAwaitsNobody ==
  \A b \in Bugs : Live(b) /\ bug[b].st \in Closed => bug[b].next = NIL

(* The newest history row of a bug tells the state it is in: row and       *)
(* history are written by separate statements, and the history only when   *)
(* the page has logged a change.                                           *)
HistoryAgrees == \A b \in Bugs : Live(b) => hist[b] = bug[b].st

(* Every bug that waits for somebody can still be opened: the owner of its *)
(* next step is known, whose name bugHand puts on the page.                *)
CanBeShown == \A b \in Bugs : Live(b) => Shown(bug[b])

CanAct(u, b) == MenuOf(u, bug[b], flow).opts # {}

(* Somebody in the team can take every bug on, from every state of every   *)
(* flow; only a duplicate that was not reported out of the steps 2 to 5    *)
(* can be a dead end (the menu of state 3 has no case for it).             *)
NoDeadEnd ==
  \A b \in Bugs :
    Live(b) /\ (bug[b].st = 3 => CorrectFlow(flow, bug[b].cur) \in 2..5)
      => \E u \in Users : CanAct(u, b)

(* The person a bug waits for is offered a way on, as the page says "waits *)
(* for ... to handle it" (setCurrOwner); only the duplicates are left out. *)
WaitsForAnActor ==
  \A b \in Bugs :
    Live(b) /\ bug[b].next # NIL /\ bug[b].st # 3 => CanAct(bug[b].next, b)

(* The states a table may send to a step whose duty has no line for them.  *)
Unanswered == {<<3, 1>>, <<10, 1>>, <<21, 5>>, <<24, 2>>}

(* What u does with the page open names the person who is to go on: he     *)
(* reports a bug, assigns some, or has chosen a state that asks for one.   *)
Names(u) ==
  LET p == page[u]
  IN \/ On(u, "report")
     \/ On(u, "batch")
     \/ /\ On(u, "hand")
        /\ p.st \notin Closed
        /\ <<p.st, p.step>> \notin Unanswered
        /\ \E e \in EntriesFor(MenuOf(u, p.row, p.flow), p.st) : e.pick

(* Whoever is named to go on with a bug is offered a way on: the two pages *)
(* he is named on list the people for a step, and what the tables let them *)
(* do depends on the state, the steps posted and the other owners.         *)
NamedCanAct ==
  [][\A u \in Users, b \in Bugs :
       bug'[b] # bug[b] /\ page'[u] = NoPage /\ Names(u)
       => MenuOf(bug'[b].next, bug'[b], flow').opts # {}]_vars

(* A tester named for a bug by a change of the flow can handle it.         *)
NamedTesterCanAct ==
  \A b \in Bugs :
    Live(b) /\ bug[b].st = 13 /\ bug[b].nxt = 8 => CanAct(bug[b].next, b)

(* What the page of u shows is still so, but for the content of the bug.   *)
UpToDate(u) ==
  LET p == page[u]
  IN /\ ~On(u, "none") => p.flow = flow
     /\ On(u, "hand") /\ Live(p.bug) =>
          bug[p.bug] = [p.row EXCEPT !.text = bug[p.bug].text]
     /\ On(u, "batch") => \A b \in p.bugs : Live(b) => bug[b].st \in {17, 25}

(* A closed bug is only reopened by the one who closed it, taking that     *)
(* back, unless somebody submits a page that is no longer true; the        *)
(* exception is state 4 (invalid), a tester's to judge again.              *)
OnlyCloserReopens ==
  [][\A b \in Bugs :
       /\ bug[b].st \in Closed \ {4}
       /\ bug'[b].st \in State \ Closed
       /\ UpToDate(bug'[b].handler)
       => bug'[b].handler = bug[b].handler]_vars

(* Where the flow has a cross check, a bug becomes fixed only out of it,   *)
(* or by correcting what was done in it, unless somebody submits a page    *)
(* that is no longer true.                                                 *)
FixIsChecked ==
  [][\A b \in Bugs :
       /\ 6 \in flow
       /\ bug[b].st \in State \ {13, 26}
       /\ bug'[b].st \in {13, 26}
       /\ UpToDate(bug'[b].handler)
       => bug[b].st = 18 \/ bug[b].cur = 6]_vars

(* Who can be asked to test a bug: the people named for a step of testing  *)
(* or confirmation, and its reporter.                                      *)
Testers(r) == Actors[1] \cup Actors[2] \cup Actors[8] \cup {r.rept}

(* Without a cross check, a bug that is closed as solved was closed by a   *)
(* tester of it, however stale the page he did it on and whoever else was  *)
(* asked to test it meanwhile.                                             *)
SolvedByTester ==
  \A b \in Bugs :
    Live(b) /\ bug[b].st = 14 => bug[b].handler \in Testers(bug[b])

(* What a handler submits replaces the state his page showed, and no other *)
(* that was set while it was open.                                         *)
StateIsReplacedAsShown ==
  [][\A u \in Users :
       LET p == page[u]
       IN /\ On(u, "hand")
          /\ bug'[p.bug].st \in State
          /\ bug'[p.bug] # bug[p.bug]
          /\ page'[u] = NoPage
          => bug[p.bug].st = p.row.st]_vars

(* A handler does not undo an edit of a bug's content that was made while  *)
(* his page was open.                                                      *)
EditsAreKept ==
  [][\A b \in Bugs :
       bug[b].st \in State /\ bug'[b].st \in State => bug'[b].text >= bug[b].text]_vars

(* A change of the flow leaves no bug waiting in a step it takes out.      *)
RemovedStepsAreLeft ==
  [][flow' # flow =>
       \A b \in Bugs, f \in flow \ flow' : bug'[b].st # WaitsIn(f)]_vars

(* A bug that a change of the flow moves on waits for one who can act.     *)
MovedBugsCanGoOn ==
  [][flow' # flow =>
       \A b \in Bugs : bug'[b] # bug[b] /\ bug'[b].nxt # 8 =>
         MenuOf(bug'[b].next, bug'[b], flow').opts # {}]_vars
=============================================================================
