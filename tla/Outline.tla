------------------------------ MODULE Outline ------------------------------
(***************************************************************************)
(* The outline of a task: a tree of modules below a root that comes with   *)
(* the task, to which users add nodes, which they rename, switch off and   *)
(* on, and finally submit.                                                 *)
(*                                                                         *)
(* Every node has a number that extends its parent's: 001, 001002, ...     *)
(* (here the sequences <<1>>, <<1, 2>>, and none for the root).  Cases and *)
(* bugs hold copies of it and are listed by it.  Nodes are numbered as     *)
(* they are added, under the monitor of the handler, and all once more     *)
(* when the outline is submitted, without it: a flag makes the submissions *)
(* of a task wait for each other, but for three seconds at most, and what  *)
(* they read may be old when they write.                                   *)
(***************************************************************************)
EXTENDS Integers, Sequences

CONSTANTS
  Users,    \* the users that can log in
  NIL,      \* no user
  Names,    \* the names of nodes
  TaskName, \* that of the root
  MaxNodes  \* bound: nodes of the outline

ASSUME OutlineAssumption == NIL \notin Users /\ TaskName \in Names

(* Numbers have three digits per level. *)
ASSUME MaxNodesAssumption == MaxNodes \in 1..999

VARIABLES
  node,              \* the rows of OutlineInfo, in order of id; the first is the root
  outlineState,      \* TRUE when the outline is submitted
  moduleNumControl,  \* TRUE when the static map has an entry for the task
  monitor,           \* the user whose request is in the handler's monitor
  req                \* per user the request that is being served

vars == <<node, outlineState, moduleNumControl, monitor, req>>

-----------------------------------------------------------------------------
Number == Seq(1..MaxNodes)
Row == [up : 0..MaxNodes, name : Names, off : BOOLEAN, num : Number, leaf : BOOLEAN]

NewNode(p, name, num) ==
  [up |-> p, name |-> name, off |-> FALSE, num |-> num, leaf |-> TRUE]

Root == 1
Kids(p) == {i \in DOMAIN node : node[i].up = p}
Seg(num) == num[Len(num)]
Plus(num, k) == [num EXCEPT ![Len(num)] = @ + k]

NoReq == [kind |-> "none"]
Idle(u) == req[u].kind = "none"
Serve(u, r) == req' = [req EXCEPT ![u] = r]

AddReq == [kind : {"add"}, to : 1..MaxNodes, names : Seq(Names), first : Number, read : Row]
RenameReq == [kind : {"rename"}, id : 1..MaxNodes, name : Names]
SubmitReq == [kind : {"submit"}, step : {"wait", "put", "read", "number", "write", "leave"},
              tries : 1..4, mods : Seq([up : 0..MaxNodes, leaf : BOOLEAN]), nums : Seq(Number)]

-----------------------------------------------------------------------------
(* addNodes: the handler is synchronized; in it the parent, its children   *)
(* and their greatest number are read, each in a transaction of its own,   *)
(* and the new nodes are added in another.                                 *)
NextNum(p) ==
  IF Kids(p) = {} THEN Append(node[p].num, 1)
  ELSE Plus(node[CHOOSE k \in Kids(p) : \A j \in Kids(p) :
                   Seg(node[j].num) <= Seg(node[k].num)].num, 1)

CanEnterAny == TRUE  \* mutant: the handler is not synchronized
CanEnter == monitor = NIL

AddCheck(u, p, names) ==
  /\ Idle(u) /\ CanEnter
  /\ p \in DOMAIN node /\ Len(node) + Len(names) <= MaxNodes
  /\ \A i \in Kids(p), k \in DOMAIN names : node[i].name # names[k]
  /\ monitor' = u
  /\ Serve(u, [kind |-> "add", to |-> p, names |-> names, first |-> NextNum(p),
               read |-> node[p]])
  /\ UNCHANGED <<node, outlineState, moduleNumControl>>

(* A parent that was a leaf is written back with all its columns, as they  *)
(* were read.                                                              *)
WrittenBackAlways(read, row) == [read EXCEPT !.leaf = FALSE]  \* mutant: not only a leaf
WrittenBack(read, row) == IF read.leaf THEN [read EXCEPT !.leaf = FALSE] ELSE row

AddInsert(u) ==
  /\ req[u].kind = "add"
  /\ LET r == req[u]
     IN node' = [node EXCEPT ![r.to] = WrittenBack(r.read, @)]
                \o [k \in DOMAIN r.names |-> NewNode(r.to, r.names[k], Plus(r.first, k - 1))]
  /\ monitor' = NIL
  /\ Serve(u, NoReq)
  /\ UNCHANGED <<outlineState, moduleNumControl>>

-----------------------------------------------------------------------------
(* updateNode: the names of the siblings are compared, then the row is     *)
(* updated.                                                                *)
RenameCheck(u, n, name) ==
  /\ Idle(u) /\ n \in DOMAIN node \ {Root}
  /\ \A i \in Kids(node[n].up) \ {n} : node[i].name # name
  /\ Serve(u, [kind |-> "rename", id |-> n, name |-> name])
  /\ UNCHANGED <<node, outlineState, moduleNumControl, monitor>>

Rename(u) ==
  /\ req[u].kind = "rename"
  /\ node' = [node EXCEPT ![req[u].id].name = req[u].name]
  /\ Serve(u, NoReq)
  /\ UNCHANGED <<outlineState, moduleNumControl, monitor>>

(* switchState: the nodes whose number begins with that of the node get    *)
(* the state opposite to the one that its page showed, old as it may be.   *)
IsSame(num, top) == num = top  \* mutant: the children are left alone
IsUnder(num, top) == Len(top) <= Len(num) /\ SubSeq(num, 1, Len(top)) = top

SwitchState(u, n, off) ==
  /\ Idle(u) /\ n \in DOMAIN node \ {Root}
  /\ node' = [i \in DOMAIN node |->
                IF IsUnder(node[i].num, node[n].num) /\ i # Root
                THEN [node[i] EXCEPT !.off = off] ELSE node[i]]
  /\ UNCHANGED <<outlineState, moduleNumControl, monitor, req>>

-----------------------------------------------------------------------------
(* submitModule: wait while the flag is set, a second three times; ...     *)
At(u, steps) == req[u].kind = "submit" /\ req[u].step \in steps

Step(u, s) ==
  Serve(u, [kind |-> "submit", step |-> s, tries |-> 1, mods |-> <<>>, nums |-> <<>>])

Submit(u) ==
  /\ Idle(u) /\ ~outlineState
  /\ Step(u, "wait")
  /\ UNCHANGED <<node, outlineState, moduleNumControl, monitor>>

TickNever(i) == i  \* mutant: the waits are not counted
Tick(i) == i + 1

Wait(u) ==
  /\ At(u, {"wait"}) /\ moduleNumControl /\ req[u].tries < 4
  /\ Serve(u, [req[u] EXCEPT !.tries = Tick(@)])
  /\ UNCHANGED <<node, outlineState, moduleNumControl, monitor>>

GoOn(u) ==
  /\ At(u, {"wait"}) /\ (~moduleNumControl \/ req[u].tries = 4)
  /\ Step(u, "put")
  /\ UNCHANGED <<node, outlineState, moduleNumControl, monitor>>

(* ... setModuleMumExe: set the flag, read the modules, ...                *)
PutFlag(u) ==
  /\ At(u, {"put"})
  /\ moduleNumControl' = TRUE
  /\ Step(u, "read")
  /\ UNCHANGED <<node, outlineState, monitor>>

ReadModules(u) ==
  /\ At(u, {"read"})
  /\ Serve(u, [req[u] EXCEPT !.step = "number", !.nums = <<node[Root].num>>,
                 !.mods = [i \in DOMAIN node |-> [up |-> node[i].up, leaf |-> node[i].leaf]]])
  /\ UNCHANGED <<node, outlineState, moduleNumControl, monitor>>

(* ... number them in memory (getModNumInMemory): parents come before      *)
(* their children, and the children of a node follow each other in order   *)
(* of id; a number is kept for the children of those that are no leaves;   *)
HolderOfLeaf(mods, nums, p) ==  \* mutant: the leaves keep theirs
  IF p = Root \/ mods[p].leaf THEN nums[p] ELSE <<0>>

Holder(mods, nums, p) == IF p = Root \/ ~mods[p].leaf THEN nums[p] ELSE <<0>>

PreviousAll(mods, nums, i) == DOMAIN nums \ {Root}  \* mutant: the count goes on
Previous(mods, nums, i) == {j \in DOMAIN nums \ {Root} : mods[j].up = mods[i].up}

ModuleNum(mods, nums, i) ==
  Append(Holder(mods, nums, mods[i].up),
         IF Previous(mods, nums, i) = {} THEN 1
         ELSE Seg(nums[CHOOSE j \in Previous(mods, nums, i) :
                         \A k \in Previous(mods, nums, i) : k <= j]) + 1)

NumberNext(u) ==
  /\ At(u, {"number"}) /\ Len(req[u].nums) < Len(req[u].mods)
  /\ LET r == req[u]
     IN Serve(u, [r EXCEPT !.nums = Append(@, ModuleNum(r.mods, @, Len(@) + 1))])
  /\ UNCHANGED <<node, outlineState, moduleNumControl, monitor>>

(* ... submitMoudle: look again whether it is submitted already, and write *)
(* the numbers; finally clear the flag.                                    *)
Confirm(u) ==
  /\ At(u, {"number"}) /\ Len(req[u].nums) = Len(req[u].mods)
  /\ IF outlineState THEN Step(u, "leave") ELSE Serve(u, [req[u] EXCEPT !.step = "write"])
  /\ UNCHANGED <<node, outlineState, moduleNumControl, monitor>>

Renumbered(nums) ==
  [i \in DOMAIN node |-> IF i \in DOMAIN nums \ {Root}
                         THEN [node[i] EXCEPT !.num = nums[i]] ELSE node[i]]

WriteNumbers(u) ==
  /\ At(u, {"write"})
  /\ node' = Renumbered(req[u].nums)
  /\ outlineState' = TRUE
  /\ Step(u, "leave")
  /\ UNCHANGED <<moduleNumControl, monitor>>

Leave(u) ==
  /\ At(u, {"leave"})
  /\ moduleNumControl' = FALSE
  /\ Serve(u, NoReq)
  /\ UNCHANGED <<node, outlineState, monitor>>

SubmitFailsOpen(u) ==  \* mutant: no finally clause
  /\ At(u, {"read", "number", "write"})
  /\ Serve(u, NoReq)
  /\ UNCHANGED <<node, outlineState, moduleNumControl, monitor>>

(* The database fails; what follows is the finally clause. *)
SubmitFails(u) ==
  /\ At(u, {"read", "number", "write"})
  /\ Step(u, "leave")
  /\ UNCHANGED <<node, outlineState, moduleNumControl, monitor>>

-----------------------------------------------------------------------------
(* A form takes several names; the page refuses one given twice. *)
Forms == {<<a>> : a \in Names} \cup {s \in Names \X Names : s[1] # s[2]}

Init ==
  /\ node = <<NewNode(0, TaskName, <<>>)>>
  /\ outlineState = FALSE
  /\ moduleNumControl = FALSE
  /\ monitor = NIL
  /\ req = [u \in Users |-> NoReq]

SubmitStep(u) ==
  \/ Wait(u)
  \/ GoOn(u)
  \/ PutFlag(u)
  \/ ReadModules(u)
  \/ NumberNext(u)
  \/ Confirm(u)
  \/ WriteNumbers(u)
  \/ Leave(u)
  \/ SubmitFails(u)

Next ==
  \E u \in Users :
    \/ \E p \in 1..MaxNodes, names \in Forms : AddCheck(u, p, names)
    \/ AddInsert(u)
    \/ \E n \in 1..MaxNodes, name \in Names : RenameCheck(u, n, name)
    \/ Rename(u)
    \/ \E n \in 1..MaxNodes, off \in BOOLEAN : SwitchState(u, n, off)
    \/ Submit(u)
    \/ SubmitStep(u)

(* A request that the server has taken is served to its end. *)
Fairness == \A u \in Users : WF_vars(SubmitStep(u))

Spec == Init /\ [][Next]_vars /\ Fairness
-----------------------------------------------------------------------------
TypeOK ==
  /\ node \in Seq(Row) /\ Len(node) \in 1..MaxNodes
  /\ outlineState \in BOOLEAN /\ moduleNumControl \in BOOLEAN
  /\ monitor \in Users \cup {NIL}
  /\ req \in [Users -> {NoReq} \cup AddReq \cup RenameReq \cup SubmitReq]

(* The number of a node is its parent's with one more level, and no other  *)
(* child of the parent has it, while nodes are added and the outline is    *)
(* submitted at the same time: getNextNum relies on the monitor,           *)
(* getModNumInMemory on the leaf column.                                   *)
NumbersMatchTree ==
  \A i \in DOMAIN node \ {Root} :
    /\ node[i].num = Append(node[node[i].up].num, Seg(node[i].num))
    /\ \A j \in Kids(node[i].up) \ {i} : node[j].num # node[i].num

(* Cases and bugs hold copies of the numbers, which the submission does    *)
(* not update (submitMoudle writes OutlineInfo only): so it must find      *)
(* every number as it was given, however old the modules it has read.      *)
NumbersStable ==
  [][\A i \in DOMAIN node : node'[i].num = node[i].num]_vars

(* The static map has an entry only while a submission is being numbered:  *)
(* also one that fails removes it, and does not hold up those to come.     *)
FlagHeld ==
  moduleNumControl => \E u \in Users : At(u, {"read", "number", "write", "leave"})

(* A name changes only to the one asked for, or back: to the one read      *)
(* before by a request that adds the first children of the node.           *)
OnlyFirstChildUndoesRename ==
  [][\A i \in DOMAIN node : node'[i].name # node[i].name =>
       \E u \in Users :
         \/ req[u] = [kind |-> "rename", id |-> i, name |-> node'[i].name] /\ req'[u] = NoReq
         \/ req[u].kind = "add" /\ req[u].to = i /\ Kids(i) = {} /\ req'[u] = NoReq]_vars

(* switchState goes by numbers, yet what it reaches is a subtree: the      *)
(* children of a node that is switched are in the same state afterwards.   *)
SwitchReachesChildren ==
  [][\A i \in DOMAIN node : node'[i].off # node[i].off =>
       \A j \in Kids(i) : node'[j].off = node'[i].off]_vars

(* Whoever submits the outline is answered, although others may submit it  *)
(* and fail again and again, clearing or holding the flag in any order.    *)
SubmitAnswered == \A u \in Users : req[u].kind = "submit" ~> Idle(u)
=============================================================================
