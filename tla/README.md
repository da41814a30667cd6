# iCodes: a TLA+ model of its test management

iCodes is a web application for managing software tests: teams plan test tasks,
write and execute test cases, report bugs and work them off along a configurable
flow. It is a Java server (Spring, Hibernate, WebWork; `src/src/cn/com/codes`)
with browser pages in JavaScript (`src/WebRoot/itest/js`). This directory models
the logic of the program in TLA+, checks it with TLC on small teams, and proves
some of its properties with TLAPS for all.

The centre of the program is the defect workflow: 26 states, 8 steps of which a
task may leave out four, and three hand-written tables that decide what each
person may do with a bug next. That is modelled completely. Around it stand
the test cases with their results, their relations to bugs, the clipboard of the
list of cases, and the outline of a task. What is left out is listed under "Not
modelled".

## Inventory

| Component | State | Operations | Interacts through | Hard part |
|---|---|---|---|---|
| Bug workflow (`BugFlowControlBlh`, `bugHand.js`, `BugCommonServiceImpl`) | row in `BugBaseInfo`, rows in `BugHandHistory`, globals of the open page | open the handling page, choose a state and a next person, submit | the page carries the whole row from opening to submission | stale pages; consistency of the tables; leftovers of an earlier choice |
| Reporting and upkeep of bugs (`BugManagerBlh`, `BugManagerServiceImpl`) | the same rows | report, batch assignment, edit, delete | same rows, other columns | writers that do not look at what they overwrite |
| Test task (`TestTaskDetailBlh`) | `TestFlowInfo`, `UseActor`, state of the task | change flow and team, start, stop | moves the bugs of a running task when its flow changes | pages opened under the old flow; several steps removed at once |
| Bug-case relation (`RelaCaseBlh`, `BugManagerServiceImpl`) | `CaseBugRela`, `relaCaseFlag`, `TestResult` | relate a bug to cases, a case to bugs | executes the cases it relates | two ways to keep one counter |
| Test cases (`CaseManagerBlh/ServiceImpl`) | `TestCaseInfo`, `TestResult`, `CaseExeHistory`; the clipboard of the page | write, edit, execute, copy, cut, paste, delete | outline, packages, bugs | check and deletion in two transactions; page overwrites status; duplicate results |
| Case packages | `TestCase_CasePkg` | assign cases, record execution | written by the execution of a case | status in two tables |
| Outline, test requirements | tree `OutlineInfo` with numbers `001002...`; a static map of the tasks being numbered | add, rename, switch, submit | numbers are copied to cases and bugs | concurrent numbering, the three-second wait, whole rows written back |
| Case library, iterations, missions, projects, messages, base data | one or two tables each | create, read, update, delete | - | little |
| Users, roles, privileges | `User`, `Group`, `Role`, session `Visit` | log in, assign roles | interceptors before every action | - |
| Statistics, overview, import/export, upload, mail and log queues, licence, framework | - | read-only, I/O or glue | - | - |

What makes these correct, in a sentence each. Workflow: every bug can be opened
and taken on by somebody, the person it waits for can act, closed bugs stay
settled, checks that the flow prescribes take place, row and history agree. Flow
change: no bug is left behind in a removed step. Cases: a verdict that is shown
has a result behind it, results are neither lost nor multiplied without bound, and
a newer verdict is hidden only by a form that was filled before it. Relation: a
related case has a result in the bug's version, and the mark of the bug goes wrong
only under a stale save. Outline: numbers are unique and extend the parent's, they
never change once they were copied, and every submission is answered.

Every request runs on its own thread, and nothing locks or versions a row.
Service methods are transactions of their own (`applicationContext.xml` 134-177:
`get*`, `find*`, `query*`, `load*` with `REQUIRES_NEW`), so what a handler read to
build a page is old by the time the page comes back. That is where most of the
hazards listed in `PROJECT.json` come from.

## Modules

| Module | Models |
|---|---|
| `BugFlow` | the tables: menus of states and the steps they lead to |
| `BugHandling` | the state machine: rows, history, pages, and every writer of a bug |
| `BugBoard` | what somebody sees who only looks at the list of bugs; implemented by `BugHandling` |
| `MCBugHandling` | teams and flows for the runs |
| `BugFlow_proofs` | lemmas about the tables |
| `BugHandling_proofs` | the theorems about rows, history and the board |
| `BugPeople_proofs` | the theorems about the people a bug waits for |
| `BugMoves_proofs` | the theorems about who may take a bug where, and that somebody always can |
| `TestCases` | cases, results, a package, and the pages and requests that work on them |
| `CaseClipboard` | copy, cut and paste; composed with `TestCases` |
| `CaseRelations` | cases related to bugs, the second writer of results; composed with `TestCases` |
| `Outline` | the tree of modules, its numbers, and its submission |
| `MCCaseClipboard`, `MCCaseRelations`, `MCOutline` | constants for the runs |
| `TestCases_proofs`, `CaseRelations_proofs`, `CaseClipboard_proofs`, `Outline_proofs` | the theorems about them |

### BugFlow

A handler gets a list of states (`optnalStateList`) and a control string such as
`3,11,16=1^testSelStr$18=6^devStr` that says which next step each state leads to
and whether a person has to be named. In the module a menu is
`[opts, ctl]` with `ctl` a sequence of entries `[sts, next, pick]`, and
`EntriesFor` is what `changeStatus` finds in it. `Redo...` are the blocks of
`correctMyHandDataInit` (the last handler may take his work back), `Do...` those
of `flowCtrlHandDataInit` and `flowCtrlHandDataInit2`, which differ from each
other in four places (the parameter `redo`). `MyMenu` and `DutyMenu` put them
together as `bugHand` does.

The tables are translated with their oddities: an option without an entry (the
next step then stays what it was), an entry string that is overwritten before use
(states 7, 8, 10 at step 7; 24, 25 at step 1), an entry that is built and never
stored (21), state 3 outside the steps 2 to 5 having no case at all.

### BugHandling

| Variable | In the code |
|---|---|
| `flow` | the steps in `TestFlowInfo` of the task, without 9 (case review) |
| `bug[b]` | the row: `currStateId`, `initState`, `currFlowCd`, `nextFlowCd`, `currHandlerId`, `bugReptId`, the five owner columns, `nextOwnerId`, and a version counter for the content columns |
| `hist[b]` | `bugState` of the newest row of `BugHandHistory` |
| `page[u]` | the page user `u` has open: the row and flow it was filled from, and the globals of `bugHand.js` |

| Action | In the code |
|---|---|
| `AddInit`, `Add` | `addInit` fills the report page, `add`/`addBug` store it with its first history row |
| `BugHand` | `bugHand`: rights, `setCurrOwner`, the menu |
| `ChangeStatus` | `changeStatus`: the entry of the chosen state, the next-handler box |
| `HandSub` | `handSubmitForm`, `handChk`, `constructLog` in the page, then `handSub`, `updatHandSub`, `buildBugUpHql`: one transaction |
| `ClosePage` | the page is closed |
| `BatchAssign`, `BatchAssignExe` | the list of bugs to assign, and `executeAssignBug` |
| `Update`, `Delete` | the edit of the content, the deletion |
| `UpdateFlow` | `update` of the task with `bugAdjust`/`getAdustHql` |

One transaction of the service is one action. A request that only reads is one
action with the opening of its page, which is when the data goes stale.

Abstractions, and why they do not hide what the properties are about:

* Names, texts, grades, dates and remarks are left out; the content columns,
  which the handling page carries along, are one version counter.
* A bug is recorded by identity and a deleted one is not used again, as with the
  generated key of the table.
* A handling page is one freshly loaded form; the fields that survive a second
  load of the same window are those of the model's page.
* Selecting the empty option and editing the owner boxes by hand are left out.
* State 3 asks for the number of the bug that is repeated; one can always be
  given, so the model does not ask.
* The person preset by the module (`getMdPersonDef`) is one of those listed.
* Users are named for steps 1 to 8. Those who are in a task only as reviewers of
  cases or observers never get a menu.
* The task is running (`outlineState = 1`, `testTaskState = 0`), the case in which
  `bugAdjust` moves bugs. The adjustment works on bugs of all ages but writes
  history only for those of the last year; bugs older than that are left out.
* A submission for a bug whose module was deleted fails and changes nothing.
* Which user is "named last" for a step depends on the order of a list;
  the model fixes one (`LastNamed`).
* A report page and a batch page use the flow they were opened with, as the
  server does not look again.

### BugBoard

For every bug a card: unused, open, closed or gone, and the person it waits for.
An open bug may wait for a person or nobody, a closed one waits for nobody, a bug
that is gone stays gone. `KeepsTheBoard` is `BugBoard`'s `Spec` under the mapping
`Card`. It matters because the writers do not coordinate: a submission for a
deleted bug arrives, and a batch assignment hits a bug that was closed meanwhile.

### TestCases

| Variable | In the code |
|---|---|
| `row[c]` | `TestCaseInfo`: the status (`testStatus` 0 to 6) and the content, as the number of the case it was first written for |
| `rests[c][v]` | the rows of `TestResult` of a case in a version, in order of id; a deleted one leaves its place |
| `newest[c]` | the verdict of the newest row of `CaseExeHistory` |
| `pack` | the rows of `TestCase_CasePkg` of one package with the verdict noted there |
| `page[u]` | the form user `u` has open, or the request of his that is between two transactions |

| Action | In the code |
|---|---|
| `AddCase` | `addOrUpCase` for a new case; it waits for review if the flow has step 9 |
| `OpenCase`, `SaveCase`, `ClosePage` | `upInit`/`exeCaseInit`, `upCase`: all columns come back, the status included |
| `GiveVerdict`, `RecordVerdict`, `VerdictFails` | `exeCase`: the search for results of the version, then the insertion, or the update of one of them with the deletion of the others; the status, the history and the package go with it; an update of a row deleted meanwhile undoes everything |
| `AskDelete`, `CheckDelete`, `DeleteCase` | the deletion of the selected cases: for each `isCanDel`, then `delCase` |
| `ChooseForPack` | `saveTestCase_CasePkg`: all rows of the package are written anew |

`exeCase` is one transaction, but nothing in it keeps another one from reading the
same rows before either writes; so it is two actions, and the second is what is
committed or rolled back. The steps of a user are those of one window: a new form
is opened when the last one is gone (`Free`).

### CaseClipboard

`clip[u]` is the variable `remark` of `caseCopyModel.js`, with what the last
operation was; `paste[u]` is `pasteCase` between its transactions: `Paste` reads
the rows, `CheckCut` is `setCanDelCaseId`, and `FinishPaste` adds the copies and
removes what of the originals may go. `Join` does to the numbers what the page
does to the string: numbers of one selection are joined by `_`, and those of the
next are put behind without it. `cutOut[u]` is a history variable, what the user
has cut. Every paste gives new numbers in order (`AreNext`), as the database does.

### CaseRelations

| Variable | In the code |
|---|---|
| `rela[b]` | the rows of `CaseBugRela` of bug `b`, in order of id |
| `flag[b]` | the column `relaCaseFlag` of the bug |
| `desk[u]` | the list of cases with those checked, the request that saves it, or a page of the bug that holds the mark |

`OpenList` is `loadRelaCase`; `FindRelated` and `SaveRelated` are `bugRelaCase` with
`writeRelaTestReuslt`, reading and committing; `SaveFails` is its rollback. `OpenBug`
and `PostBug` stand for the handling and edit pages, which write the mark back with
all other columns. `NewFlag` keeps the mark when the number of cases is the same,
as the code does.

### Outline

| Variable | In the code |
|---|---|
| `node` | the rows of `OutlineInfo` in order of id: parent, name, switched off, number, leaf |
| `outlineState` | the column of the task of the same name |
| `moduleNumControl` | whether the static map of `OutLineManagerBlh` has an entry for the task |
| `monitor` | who is inside the `synchronized` handler `addNodes` |
| `req[u]` | the request of `u` that is being served |

| Action | In the code |
|---|---|
| `AddCheck`, `AddInsert` | `addNodes`: names, parent and `getNextNum`; then the service's `addNodes`, which turns a leaf into a parent by writing its whole row back |
| `RenameCheck`, `Rename` | `updateNode` with the comparison of names |
| `SwitchState` | `switchState`, by `moduleNum like '...%'` |
| `Submit`, `Wait`, `GoOn` | `submitModule`: the three waits of a second |
| `PutFlag`, `ReadModules`, `NumberNext`, `Confirm`, `WriteNumbers`, `Leave`, `SubmitFails` | `setModuleMumExe` and `getModNumInMemory`, module by module; `submitMoudle`; the `finally` clause, after a failure too |

Numbers are sequences, one member per three digits, so `like` is `IsUnder`. The task
has its root; nodes are added as children, since the page has no call that adds a
sibling (`testRequirementManager.js` 542-545 always returns before it).

## Runs

Fairness is assumed of one thing only: a submission of the outline that the server
has taken is served to its end (`WF_vars(SubmitStep(u))` for every user). Such a
request runs in a thread of its own, waits only for one second at a time, takes no
monitor, and may fail, which `SubmitStep` includes. Under it `outline` checks
`SubmitAnswered`. Weak fairness is enough although the flag goes up and down: while
a request waits, either `Wait` or `GoOn` is enabled.

Nothing else is fair: nothing in the program makes a person act, so a bug may stay
where it is for ever, and a page may be left open. What can be said of the progress
of a bug is said as a possibility: somebody has a menu (`NoDeadEnd`), and so has
whoever a page names to go on (`NamedCanAct`). For the same reason only `outline` checks for
deadlock: when all bugs are deleted or the numbers of cases used up and nobody
does anything, nothing happens.

One bug is enough for the runs of `BugHandling`: rows do not look at each other, and
the two actions that write several rows treat each on its own, the only exception
being the history list of a flow change, which goes by step. Three users are
one for each group of duties (test, development, lead).

| Run | Bounds | Shows |
|---|---|---|
| `workflow` | 3 users, both pairs of optional steps ({2,3} and {4,6}), all 26 states, one page and one choice at a time | `CanBeShown`, `NoDeadEnd`, `NamedCanAct`, `FixIsChecked` over every entry of the tables |
| `stale_pages` | 2 users, shortest flow, the states of find, fix, verify, hand back and withdraw; two pages, two choices each, an edit | `ClosedAwaitsNobody`, `HistoryAgrees`, `CanBeShown`, `SolvedByTester`, `OnlyCloserReopens`, `KeepsTheBoard` whatever the order of the submissions |
| `flow_change` | 3 users, three flows, the states that wait for an optional step | `TypeOK`, `RemovedStepsAreLeft`, `MovedBugsCanGoOn`, `CanBeShown` |
| `stale_state` | as `stale_pages`, one choice | violated: `StateIsReplacedAsShown` |
| `stale_edit` | as `stale_pages`, one choice, one edit | violated: `EditsAreKept` |
| `waiting` | 3 users, shortest flow, all states | violated: `WaitsForAnActor` |
| `flow_history` | two optional steps removed at once | violated: `HistoryAgrees` |
| `flow_tester` | the cross check is removed | violated: `NamedTesterCanAct` |
| `relations` | 2 users, 2 cases, one version, one bug, a package of one; two windows, 2 relations per bug; one case is executed, edited and deleted by hand | `ResultBehindStatus`, `DuplicatesBounded`, `RelatedHasResult`, `ResultsNeverVanish`, `OnlyStaleEditHidesResult`, `NobodyDeletesOwnResult`, `OnlyStaleSaveLosesMark` |
| `clipboard` | 2 users, 3 numbers of cases, clipboards of one number, one window at a time besides the pastes | `ClipTypeOK`, `ResultBehindStatus`, `NobodyCutsOwnResult` |
| `unasked_cut` | 1 user, the numbers 1, 2, 12 and 13, clipboards of two numbers | violated: `OnlyCutAreRemoved` |
| `outline` | 2 users, 4 nodes with the root, 2 names, forms with one or two of them | `TypeOK`, `NumbersMatchTree`, `FlagHeld`, `NumbersStable`, `OnlyFirstChildUndoesRename`, `SwitchReachesChildren`, `SubmitAnswered` |

Why the bounds are enough. `Picks` limits the states handlers choose: `workflow`
allows all 26, so every block of every table is used; the runs with two pages
need only writers that conflict, and the states left in (5, 9, 10, 13, 14, 17)
include closing, reopening, handing back for batch assignment and awaiting each of
the two people. Two pages are the least that can conflict and a third one would
only be a second stale one; `MaxChoices = 2` is the least with which an earlier
choice can leave something behind. The flows of `workflow` have every optional
step, followed by its neighbour in one and by a later step in the other. Its team has
one person per kind of work, and all three can report, so the reporter, the one who
tests, the one who fixes and the last handler can be the same person or different ones.

For the cases: two users are the least that can execute the same case at once, and
what they can do to each other with the results of one version does not depend on
other versions, which no statement joins. `Handled` leaves the second case to the
relation and the package, so that a relation can be exchanged for another one, which
is what the number in the mark does not notice. One verdict (2) by hand and 3 by a
relation are two that can be told apart. In `clipboard` three numbers
leave room for a case and two copies, or two cases and one copy of each of them in
turn. In `unasked_cut` 1 and 2 make 12, and 13 is where the copy goes.

For the outline: with four nodes a child can get a child while a submission that read
neither is numbering, two siblings can come from two forms, and two submissions can
hold and clear each other's flag; `tries` counts the three waits as they are.

The violated ones are disagreements between the program and what its comments or
pages say; `PROJECT.json` quotes the line of each:

* `stale_state`: of two pages on one bug the later submission wins. A tester
  withdraws a bug; the developer's page, opened before, makes it fixed.
  The comment in `buildBugUpHql` says saving only some attributes prevents that.
* `stale_edit`: the handling page takes the content columns along and undoes an
  edit. `EditsAreKept` says the version of the content never goes back.
* `waiting`: a held bug is sent on as "next version" (21) to the developer, for
  whom no table has a case. The page says the bug waits for him.
* `flow_history`: the list of history rows is replaced for every removed step.
* `flow_tester`: the tester named for bugs that leave the cross check is not
  made their test owner, and the menus go by that.
* `unasked_cut`: a user copies case 1, then cuts case 2 and pastes: the page sends
  12, and case 12 is moved, which nobody selected. The page asks for the cases to
  cut; the property says a paste removes no others.

Other things the model shows, which no document speaks of and no run reports:
an open bug may wait for nobody, when an entry's step is 0; a duplicate (state 3)
whose recorded step is not one of 2 to 5 offers nothing to the owners of its
duties (the exception in `NoDeadEnd`) and is left to its last handler, if to anybody;
four pairs of a state and a step lead to a person whose duty has no line for the state
(`Unanswered`, which `NamedCanAct` leaves out; one of them is what `waiting` reports);
a page that is no longer true can reopen a bug somebody else closed, or make one fixed
past the cross check, for the reason of `stale_state`, so `OnlyCloserReopens` and
`FixIsChecked` speak of submissions whose page is up to date (`UpToDate`);
`SolvedByTester` does not hold with a cross check, where the developer may correct his
own handling into a closed state;
the flag by which a flow change should hold reporters back is stored as `null` and so
never seen, and a report page opened before the change posts a bug for a step that
is gone, and a handling page opened before it can leave a bug in a state nobody in the
team has work for (state 24, "analyse", in a flow that has lost step 3); a submission for a deleted bug leaves a history row behind. Of the cases: two users
who relate cases to one bug at once may leave it marked and without relations, or the
other way round (`OnlyStaleSaveLosesMark` says that is the only way beside an old page
of the bug); a result of somebody else may arrive between `isCanDel` and `delCase`
and lose its case. Of the outline: two users can give siblings the same name, since
names are compared in one transaction and written in another.

## Proofs

`tlapm` proves everything in the eight modules `..._proofs`, from the assumptions that
the modelled modules name and TLC evaluates on every run. None fixes a size: the sets
of users, bugs, cases, versions, flows and names, the picks and the bounds are
arbitrary.

### Bugs

The assumptions are those in `BugHandling`: `NIL` is no user, every step has
somebody named for it, managers are users, every flow has the steps 1, 5, 7 and 8
(`updatePrepare` adds them), the bounds are natural numbers.

| Theorem | Statement | Argument |
|---|---|---|
| `TypeCorrect` | `Spec => []TypeOK` | inductive by itself; one lemma per table block (it is a `Menu`), per record that is written (`AddRow`, `SavedType`, `AssignedType`, `AdjustedType`) and per action |
| `ClosedIsIdle` | `Spec => []ClosedAwaitsNobody` | with `TypeOK` as the strengthening; `StepRows` says in one lemma how a row can change: reported, handled, edited, dropped |
| `HandlingKeepsTheBoard` | `Spec => KeepsTheBoard` | the initial state maps to that of `BugBoard`, each step to a step or a stutter, from `StepRows`, `TypeOK` and `ClosedAwaitsNobody` |
| `HistoryIsKept` | `OneStepAtATime => (Spec => []HistoryAgrees)` | strengthened by `PagesChange`: a page never has picked the state it was opened with, as no menu offers the present state (`MyMenuChanges`, `DutyMenuChanges`); so every submission logs |
| `NoBugIsStranded` | `Spec => RemovedStepsAreLeft` | `StepAfter` finds a step of the new flow, and the state a bug waits in for a step that is left is never that of a removed one |
| `BugsCanBeShown` | `Spec => []CanBeShown` | strengthened by `OwnersKnown`, about rows and pages, see below |
| `MovedBugsGoOn` | `Spec => MovedBugsCanGoOn` | the person named is in the team of the new flow and owns the duty of the step, and an owner is always offered state 3 |
| `CloserReopens` | `Spec => OnlyCloserReopens` | the states on offer: out of a closed state other than 4 only the last handler's table leads to an open one; an up-to-date page shows the row it replaces |
| `FixesAreChecked` | `Spec => FixIsChecked` | of every block of the tables (`NoVerdict`): where the flow has step 6 it offers no fix, but for the cross check's own block and corrections of its result |
| `TestersSolve` | `NoCrossCheck => (Spec => []SolvedByTester)` | strengthened by `TestersKnown`: whoever owns the test, or is picked for it on a page, is one of the bug's testers |
| `BugsGoOn` | `Managers = {} => (Spec => []NoDeadEnd)` | strengthened by `BugsAreCarried` and `OwnersKnown`, see below |
| `NamedGoOn` | `Managers = {} => (Spec => NamedCanAct)` | strengthened by `BugsAreStaffed` as well, see below |

`OneStepAtATime` says that no configured flow is another one with two steps taken
out. It is needed: run `flow_history` refutes `HistoryAgrees` without it.
`TypeOK` alone is not enough for `HistoryAgrees`, as the server writes no history
when the page sends no log.

`CanBeShown` is not inductive: what a page posts decides the next row, and a page keeps
a step and a person from an earlier choice when a later option has no entry.
`OwnersKnown` says of every row that it has an owner for its next step and for the
test, and for the arbitration if it is a dispute; and of every page that its row is
such a row and that the owner of the chosen step is known among the owners it would
post. Choosing keeps it, because of what is proved about each block of the tables
(`MenuSteps`, `EntriesSound`): an entry that names nobody leads to no step, to a
tester's, or from a dispute back to its arbitrator, and whoever may choose a dispute
finds an entry that asks for an arbitrator.

The three theorems on who may take a bug where are about any number of open pages.
All of them use `ChoiceOffered`: the state picked in a page is on the menu of the row
and the flow the page was opened with, however long ago. `OnlyCloserReopens` and
`FixIsChecked` then compare the page with the row, and say nothing of a page that is no
longer true; `SolvedByTester` needs no such condition, as a page keeps the testers of
its row and `Testers` only depends on the team and the reporter.

`NoDeadEnd` and `NamedCanAct` are proved for tasks whose flow nobody changes
(`Managers = {}`). That is needed: a page opened before the change posts a step the flow
no longer has (see above), and nothing in the code repairs the bug. Neither is
inductive.

* `BugsAreCarried` says of rows that a bug to be analysed or assigned is in a flow that
  has the step, that one to be fixed has a developer or comes from one of the steps 1 to
  5, where its last handler can take it back, and that "not a bug" was not said in a
  step after which the correction would lose the developer; of pages that their flow is
  the task's, and that step and duty go with the chosen state. What keeps it is a
  property of every block of the tables (`FitMenu`, one lemma each): an entry that asks
  for a person leads to a step where the state is work (`Work`), and the states that need
  a person have an entry. The exceptions are written out in `Odd` and `Unasked`.
* `BugsAreStaffed` says that all owners of a bug and its reporter are in the team, so
  that nobody loses what he owns because the awaited owner has left (`OwnerHasDuty`), and
  that the person, duty and step in a page are those the chosen state asks for. The
  person named then owns the duty of the row that is written, with one exception:
  a confirming tester who names himself is replaced by the reporter, but he is the last
  handler, and his own table has a way on (`RedoOffers`).

### Cases and their relations

Assumed: finitely many users, and cases have positive numbers (both only bound what
is counted). The proof is in two layers. `TestCases_proofs` has one lemma per action,
`ASSUME CaseInv, Act(u) PROVE CaseInv' /\ Grows(u)`, where `Grows` says that a version
that has a result keeps one and that what `u` writes is in his own name;
`CaseRelations_proofs` uses these for the steps that only touch cases
and adds those of the relation.

| Theorem | Statement |
|---|---|
| `CaseInvAlways`, `RelaInvAlways` | the inductive invariants |
| `RelationsTyped` | `RelaSpec => []RelaTypeOK` |
| `ResultAlwaysBehindStatus`, `DuplicatesAlwaysBounded`, `RelatedAlwaysHasResult` | `RelaSpec => []...` of the invariants |
| `ResultsAlwaysStay`, `OwnResultsStay`, `VerdictsShown`, `MarkLostOnlyByStaleSave` | the action properties |

None of the properties is inductive. What they need beside the types is

* `OneEach`: no user has two results of a case in one version, the reason why
  duplicates are bounded by the number of users;
* `FoundOK`: what a request has found includes the results its own user wrote before
  (he has one window), so it inserts only when he has none, and `OneEach` stays;
* `FormOK`: a form that shows a verdict was filled when there was a result, and a
  result stays, so that posting it is no verdict out of nothing;
* `NoneBy`: a case that may be deleted has no result of the one who deletes it.

`CaseClipboard_proofs` builds on the same lemmas: a paste only adds cases, and its
cuts are deletions by the one who pastes. `ClipInv` adds `PasteOK`: none of the cases a
paste has found it may cut has a result of the one who pastes. `ClipAssumption` bounds the
numbers in a clipboard by 999: the page glues two of them by writing one behind the
other, which the model works out for numbers of at most three digits.

| Theorem | Statement |
|---|---|
| `ClipInvAlways` | `ClipSpec => []ClipInv` |
| `CopiesShowNoVerdict` | `ClipSpec => []ResultBehindStatus` |
| `OwnResultsNotCut` | `ClipSpec => NobodyCutsOwnResult` |
| `ClipTypeCorrect` | `ClipSpec => []ClipTypeOK`: the numbers of a clipboard glued together are again sequences of numbers, and a paste places each copy in a row of its own |

### Outline

Assumed: at most 999 nodes, as a level has three digits. `Inv` joins `TypeOK` with

* `TreeOK`: parents come before their children and are no leaves, and the children of a
  node are numbered from one on in order of id;
* `AddOK`: what the request in the monitor has read of parent and numbers still holds,
  because only it adds nodes and submissions change no number;
* `SubmitOK`: what a submission has read is the beginning of what is there now, and
  the numbers it has worked out are those of the rows already.

`SubmitOK` is why old data does no harm: nodes are only added behind, so numbering the
nodes read gives each the number it got when it was added. `NumbersAlwaysStable`
follows, and with it that the copies in cases and bugs stay good.

| Theorem | Statement |
|---|---|
| `InvAlways` | `Spec => []Inv` |
| `OutlineTyped`, `NumbersAlwaysMatchTree`, `FlagAlwaysHeld` | `Spec => []...` |
| `NumbersAlwaysStable`, `RenamesKept`, `SwitchAlwaysReachesChildren` | the action properties |

### Only model-checked

Every invariant and action property the passing runs check is also a theorem, those of
`BugHandling` under the hypotheses named above. Model-checked alone is
`SubmitAnswered`, a liveness property, which is out of the prover's reach; and the
violated properties, which are false.

## Not modelled

* Operations that exist on the server and that no page of this version posts to:
  `caseRelaBug` (bugs related to a case), `batchAudit` of cases, and of the outline
  `deleteNode`, `move`, `itemMove`, `setReqState` and the addition of siblings. No user
  can take such a step; they are listed as hazards where they are, with that note.
* Of cases: the import, the audit as a state of its own (an edit of a case to be
  corrected sends it to the audit again), the counts of cases per node, the content
  beyond its origin. Of packages: a package is one set of cases; creating and deleting
  packages and assigning people to them are plain reads and writes. Saving an empty
  selection leaves a row without a case, which nothing reads.
* Of the outline: the import of nodes, the assignment of people to nodes, the counts
  per node. Test requirements are a second copy of the outline's operations with the
  same order of steps.
* Of the test task: starting, stopping, versions, changes of the team. They write one
  row that the modelled handlers read once, and have no steps in between.
* Case library, iterations, missions, projects, messages, base data, users, roles:
  single reads and writes of a row or two, no protocol between steps.
* Statistics, overview, exports: read only. Upload, mail and log queues, licence,
  framework: I/O and glue, or written after the work and never read back.
* Most JavaScript under `WebRoot/itest` is vendored (echarts, easyui,
  bootstrap, file input); what is modelled of the pages are the handling page, the
  clipboard and the pages that hold a bug's columns.

## What could follow

Theorems about changing flows: which changes keep `NoDeadEnd` when no page is open, and
how far an old page can take a bug out of the flow.
