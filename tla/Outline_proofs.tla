--------------------------- MODULE Outline_proofs ---------------------------
(***************************************************************************)
(* What the outline keeps, for every number of users and up to 999 nodes:  *)
(* a submission that goes by old data finds the numbers that are there.    *)
(***************************************************************************)
EXTENDS Outline, SequenceTheorems, TLAPS

LEMMA SegAppend ==
  ASSUME NEW s \in Seq(Nat), NEW x \in Nat
  PROVE  /\ Append(s, x) \in Seq(Nat)
         /\ Seg(Append(s, x)) = x
         /\ \A k \in Nat : Plus(Append(s, x), k) = Append(s, x + k)
<1>1. \A y \in Nat : /\ Append(s, y) \in Seq(Nat)
                      /\ Len(Append(s, y)) = Len(s) + 1
                      /\ \A i \in 1..Len(s) : Append(s, y)[i] = s[i]
                      /\ Append(s, y)[Len(s) + 1] = y
  BY AppendProperties
<1>2. Len(s) \in Nat /\ x \in Nat
  OBVIOUS
<1>3. Seg(Append(s, x)) = x
  BY <1>1 DEF Seg
<1>4. ASSUME NEW k \in Nat PROVE Plus(Append(s, x), k) = Append(s, x + k)
  <2> DEFINE t == Append(s, x)  e == t[Len(t)] + k
  <2>1. t \in Seq(Nat) /\ Len(t) = Len(s) + 1 /\ Len(t) \in 1..Len(t) /\ e = x + k /\ e \in Nat
    BY <1>1, <1>2
  <2>2. /\ Plus(t, k) \in Seq(Nat) /\ Len(Plus(t, k)) = Len(s) + 1
        /\ \A j \in 1..Len(t) : Plus(t, k)[j] = IF j = Len(t) THEN e ELSE t[j]
    <3> HIDE DEF t
    <3> QED BY <2>1, ExceptSeq DEF Plus
  <2>3. \A i \in 1..Len(Plus(t, k)) : Plus(t, k)[i] = Append(s, x + k)[i]
    BY <1>1, <1>2, <2>1, <2>2
  <2>4. Append(s, x + k) \in Seq(Nat) /\ Len(Append(s, x + k)) = Len(s) + 1
    BY <1>1, <2>1
  <2>5. Plus(t, k) = Append(s, x + k)
    <3> HIDE DEF t
    <3> QED BY <2>2, <2>3, <2>4, SeqEqual
  <2> QED BY <2>5
<1> QED BY <1>1, <1>2, <1>3, <1>4
-----------------------------------------------------------------------------
(* The invariant *)

(* The children of a node's parent that came before the node.              *)
Prev(i) == {j \in 2..(i - 1) : node[j].up = node[i].up}

(* Parents come first and are no leaves; the children of a node are        *)
(* numbered in order of id, from one on.                                   *)
TreeOK ==
  /\ node[1].up = 0 /\ node[1].num = <<>>
  /\ \A i \in 2..Len(node) :
       /\ node[i].up \in 1..(i - 1)
       /\ ~node[node[i].up].leaf
       /\ node[i].num = Append(node[node[i].up].num, Seg(node[i].num))
       /\ Seg(node[i].num) \in 1..i
       /\ Prev(i) = {} => Seg(node[i].num) = 1
       /\ Prev(i) # {} =>
            \E j \in Prev(i) : /\ \A k \in Prev(i) : k <= j
                               /\ Seg(node[i].num) = Seg(node[j].num) + 1
       /\ \A j \in Prev(i) : Seg(node[j].num) < Seg(node[i].num)
  /\ \A p \in 1..Len(node) :
       Kids(p) # {} => \E k \in Kids(p) : \A j \in Kids(p) : j <= k

(* Whoever adds nodes is in the monitor, and what he read still holds,     *)
(* but for the name and the state of the parent.                           *)
AddOK(u) ==
  req[u].kind = "add" =>
    LET r == req[u] IN
    /\ monitor = u
    /\ r.to \in 1..Len(node)
    /\ Len(r.names) \in Nat \ {0} /\ Len(node) + Len(r.names) <= MaxNodes
    /\ r.read.up = node[r.to].up /\ r.read.num = node[r.to].num
    /\ r.read.leaf = node[r.to].leaf
    /\ r.first = Append(node[r.to].num, Seg(r.first))
    /\ Seg(r.first) \in 1..(Len(node) + 1)
    /\ Kids(r.to) = {} => Seg(r.first) = 1
    /\ \A k \in Kids(r.to) :
         (\A j \in Kids(r.to) : j <= k) => Seg(r.first) = Seg(node[k].num) + 1
    /\ \A j \in Kids(r.to) : Seg(node[j].num) < Seg(r.first)

(* What a submission has read is the beginning of what is there now, and   *)
(* it has found the numbers that are there.                                *)
SubmitOK(u) ==
  At(u, {"number", "write"}) =>
    LET r == req[u] IN
    /\ Len(r.mods) <= Len(node) /\ Len(r.nums) \in 1..Len(r.mods)
    /\ \A i \in 1..Len(r.mods) : r.mods[i].up = node[i].up
    /\ \A i \in 2..Len(r.mods) : ~r.mods[r.mods[i].up].leaf
    /\ \A i \in 1..Len(r.nums) : r.nums[i] = node[i].num

RenameOK(u) == req[u].kind = "rename" => req[u].id \in 2..Len(node)

Inv == /\ TypeOK
       /\ TreeOK
       /\ \A u \in Users : AddOK(u) /\ SubmitOK(u) /\ RenameOK(u)
-----------------------------------------------------------------------------
(* Types *)

(* The kind of a request tells which fields it has.                        *)
LEMMA ReqKinds ==
  ASSUME TypeOK, NEW u \in Users
  PROVE  /\ req[u].kind = "add" => req[u] \in AddReq
         /\ req[u].kind = "rename" => req[u] \in RenameReq
         /\ req[u].kind = "submit" => req[u] \in SubmitReq
         /\ Idle(u) => req[u] = NoReq
<1>1. req[u] \in {NoReq} \cup AddReq \cup RenameReq \cup SubmitReq
  BY DEF TypeOK
<1> QED  BY <1>1 DEF NoReq, AddReq, RenameReq, SubmitReq, Idle

LEMMA NodeType ==
  ASSUME TypeOK
  PROVE  /\ Len(node) \in 1..MaxNodes /\ DOMAIN node = 1..Len(node)
         /\ MaxNodes \in Nat /\ MaxNodes >= 1
         /\ \A i \in 1..Len(node) :
              /\ node[i] \in Row /\ node[i].up \in Nat /\ node[i].num \in Number
              /\ node[i].leaf \in BOOLEAN
<1>1. node \in Seq(Row) /\ Len(node) \in 1..MaxNodes /\ MaxNodes \in Nat /\ MaxNodes >= 1
  BY MaxNodesAssumption DEF TypeOK
<1>2. DOMAIN node = 1..Len(node)
  BY <1>1, LenProperties
<1>3. \A i \in 1..Len(node) : node[i] \in Row
  BY <1>1, ElementOfSeq
<1>4. \A r \in Row : r.up \in Nat /\ r.num \in Number /\ r.leaf \in BOOLEAN
  BY <1>1 DEF Row
<1> QED  BY <1>1, <1>2, <1>3, <1>4

LEMMA NumberNat == ASSUME NEW num \in Number PROVE num \in Seq(Nat)
  BY MaxNodesAssumption, SeqMonotonic, 1..MaxNodes \subseteq Nat DEF Number

(* Serving a request leaves those of the other users alone.                *)
LEMMA ServeType ==
  ASSUME TypeOK, NEW u \in Users, NEW r, Serve(u, r),
         r \in {NoReq} \cup AddReq \cup RenameReq \cup SubmitReq
  PROVE  /\ req' \in [Users -> {NoReq} \cup AddReq \cup RenameReq \cup SubmitReq]
         /\ req'[u] = r
         /\ \A v \in Users \ {u} : req'[v] = req[v]
  BY DEF TypeOK, Serve

(* A step of a submission other than numbering.                            *)
LEMMA StepType ==
  ASSUME NEW s \in {"wait", "put", "read", "number", "write", "leave"}
  PROVE  [kind |-> "submit", step |-> s, tries |-> 1, mods |-> <<>>, nums |-> <<>>]
           \in SubmitReq
  BY EmptySeq DEF SubmitReq, Number

-----------------------------------------------------------------------------
(* What depends on the shape of the tree only *)

(* The rows keep their numbers and places; there may be more of them.      *)
Kept ==
  /\ Len(node) <= Len(node')
  /\ \A i \in 1..Len(node) : node'[i].up = node[i].up /\ node'[i].num = node[i].num

(* Besides, there are no more of them, and leaves stay leaves.             *)
SameShape ==
  /\ Kept /\ Len(node') = Len(node)
  /\ \A i \in 1..Len(node) : node'[i].leaf = node[i].leaf

LEMMA KidsSame ==
  ASSUME TypeOK, TypeOK', SameShape
  PROVE  /\ \A p : Kids(p)' = Kids(p)
         /\ \A i \in 2..Len(node) : Prev(i)' = Prev(i)
<1>1. DOMAIN node' = 1..Len(node) /\ DOMAIN node = 1..Len(node) /\ Len(node) \in Nat
  BY NodeType, LenProperties DEF TypeOK, SameShape
<1>2. ASSUME NEW p PROVE Kids(p)' = Kids(p)
  BY <1>1 DEF Kids, SameShape, Kept
<1>3. ASSUME NEW i \in 2..Len(node) PROVE Prev(i)' = Prev(i)
  BY <1>1 DEF Prev, SameShape, Kept
<1> QED  BY <1>2, <1>3

LEMMA TreeSame ==
  ASSUME TypeOK, TypeOK', SameShape, TreeOK
  PROVE  TreeOK'
<1>1. Len(node') = Len(node) /\ Len(node) \in Nat /\ Len(node) >= 1
  BY NodeType DEF SameShape
<1>2. \A i \in 1..Len(node) : /\ node'[i].up = node[i].up
                              /\ node'[i].num = node[i].num
                              /\ node'[i].leaf = node[i].leaf
  BY DEF SameShape, Kept
<1>3. \A p : Kids(p)' = Kids(p)
  BY KidsSame
<1>4. \A i \in 2..Len(node) : Prev(i)' = Prev(i) /\ Prev(i) \subseteq 1..Len(node)
  BY KidsSame, <1>1 DEF Prev
<1>5. \A p \in 1..Len(node)' : Kids(p)' # {} => \E k \in Kids(p)' : \A j \in Kids(p)' : j <= k
  BY <1>1, <1>3 DEF TreeOK
<1>6. node'[1].up = 0 /\ node'[1].num = <<>>
  BY <1>1, <1>2 DEF TreeOK
<1>7. ASSUME NEW i \in 2..Len(node)'
      PROVE  /\ node'[i].up \in 1..(i - 1)
             /\ ~node'[node'[i].up].leaf
             /\ node'[i].num = Append(node'[node'[i].up].num, Seg(node'[i].num))
             /\ Seg(node'[i].num) \in 1..i
             /\ Prev(i)' = {} => Seg(node'[i].num) = 1
             /\ Prev(i)' # {} =>
                  \E j \in Prev(i)' : /\ \A k \in Prev(i)' : k <= j
                                      /\ Seg(node'[i].num) = Seg(node'[j].num) + 1
             /\ \A j \in Prev(i)' : Seg(node'[j].num) < Seg(node'[i].num)
  <2>1. i \in 2..Len(node) /\ node[i].up \in 1..(i - 1) /\ node[i].up \in 1..Len(node)
    BY <1>1, <1>7 DEF TreeOK
  <2>2. /\ node'[i].up = node[i].up /\ node'[i].num = node[i].num
        /\ node'[node[i].up].num = node[node[i].up].num
        /\ node'[node[i].up].leaf = node[node[i].up].leaf
    BY <1>1, <1>2, <2>1
  <2>3. \A j \in Prev(i) : node'[j].num = node[j].num
    BY <1>2, <1>4, <2>1
  <2>4. Prev(i)' = Prev(i)
    BY <1>4, <2>1, SMTT(30)
  <2> QED  BY <2>1, <2>2, <2>3, <2>4 DEF TreeOK
<1> QED  BY <1>5, <1>6, <1>7 DEF TreeOK

(* A request that goes on keeps what it has found.                         *)
LEMMA AddSame ==
  ASSUME TypeOK, TypeOK', SameShape, NEW u \in Users, AddOK(u),
         req'[u] = req[u], monitor' = monitor
  PROVE  AddOK(u)'
<1> SUFFICES ASSUME req[u].kind = "add" PROVE AddOK(u)'
  BY DEF AddOK
<1>1. \A p : Kids(p)' = Kids(p)
  BY KidsSame
<1>2. req[u].to \in 1..Len(node) /\ Len(node') = Len(node)
  BY DEF AddOK, SameShape
<1>3. \A i \in 1..Len(node) : /\ node'[i].up = node[i].up /\ node'[i].num = node[i].num
                              /\ node'[i].leaf = node[i].leaf
  BY DEF SameShape, Kept
<1>4. \A p : \A k \in Kids(p) : k \in 1..Len(node)
  BY NodeType DEF Kids
<1> QED  BY <1>1, <1>2, <1>3, <1>4 DEF AddOK

LEMMA SubmitKept ==
  ASSUME TypeOK, Kept, Len(node') \in Nat, NEW u \in Users, SubmitOK(u), req'[u] = req[u]
  PROVE  SubmitOK(u)'
<1> SUFFICES ASSUME At(u, {"number", "write"}) PROVE SubmitOK(u)'
  BY DEF SubmitOK, At
<1>1. req[u] \in SubmitReq
  BY ReqKinds DEF At
<1>2. Len(req[u].mods) \in Nat /\ Len(req[u].nums) \in Nat /\ Len(node) \in Nat
  BY <1>1, NodeType DEF SubmitReq
<1> QED  BY <1>2 DEF SubmitOK, Kept

LEMMA RenameKept ==
  ASSUME TypeOK, Kept, Len(node') \in Nat, NEW u \in Users, RenameOK(u), req'[u] = req[u]
  PROVE  RenameOK(u)'
  BY NodeType DEF RenameOK, Kept
-----------------------------------------------------------------------------
(* Steps that leave the shape of the tree alone *)

LEMMA Others ==
  ASSUME Inv, TypeOK', SameShape, monitor' = monitor, NEW u \in Users,
         \A v \in Users \ {u} : req'[v] = req[v],
         AddOK(u)', SubmitOK(u)', RenameOK(u)'
  PROVE  Inv'
<1>1. TypeOK /\ TreeOK /\ Kept /\ Len(node') \in Nat
  BY LenProperties DEF Inv, SameShape, TypeOK
<1>2. TreeOK'
  BY <1>1, TreeSame
<1>3. ASSUME NEW v \in Users PROVE AddOK(v)' /\ SubmitOK(v)' /\ RenameOK(v)'
  <2>1. CASE v = u  BY <2>1
  <2>2. CASE v # u
    <3>1. AddOK(v) /\ SubmitOK(v) /\ RenameOK(v) /\ req'[v] = req[v]
      BY <2>2 DEF Inv
    <3> QED  BY <1>1, <3>1, AddSame, SubmitKept, RenameKept
  <2> QED  BY <2>1, <2>2
<1> QED  BY <1>2, <1>3 DEF Inv

LEMMA NodeSame ==
  ASSUME TypeOK, node' = node
  PROVE  SameShape
  BY NodeType DEF SameShape, Kept

(* ... and serve a request that is not being added or numbered.            *)
LEMMA PlainStep ==
  ASSUME Inv, NEW u \in Users, NEW r, Serve(u, r),
         r \in {NoReq} \cup AddReq \cup RenameReq \cup SubmitReq,
         r.kind # "add",
         r.kind = "submit" => r.step \notin {"number", "write"},
         r.kind = "rename" => r.id \in 2..Len(node),
         node' = node, outlineState' \in BOOLEAN, moduleNumControl' \in BOOLEAN,
         monitor' = monitor
  PROVE  Inv'
<1>1. TypeOK
  BY DEF Inv
<1>2. /\ req' \in [Users -> {NoReq} \cup AddReq \cup RenameReq \cup SubmitReq]
      /\ req'[u] = r
      /\ \A v \in Users \ {u} : req'[v] = req[v]
  BY <1>1, ServeType
<1>3. TypeOK'
  BY <1>1, <1>2 DEF TypeOK
<1>4. AddOK(u)' /\ SubmitOK(u)' /\ RenameOK(u)'
  BY <1>2 DEF AddOK, SubmitOK, RenameOK, At
<1> QED  BY <1>1, <1>2, <1>3, <1>4, NodeSame, Others

LEMMA StepInv ==
  ASSUME Inv, NEW u \in Users, NEW s \in {"wait", "put", "read", "leave"}, Step(u, s),
         node' = node, outlineState' \in BOOLEAN, moduleNumControl' \in BOOLEAN,
         monitor' = monitor
  PROVE  Inv'
<1> DEFINE r == [kind |-> "submit", step |-> s, tries |-> 1, mods |-> <<>>, nums |-> <<>>]
<1>1. Serve(u, r) /\ r \in SubmitReq
  BY StepType DEF Step
<1>2. r.kind = "submit" /\ r.step = s
  OBVIOUS
<1> HIDE DEF r
<1> QED  BY <1>1, <1>2, PlainStep

LEMMA DoneInv ==
  ASSUME Inv, NEW u \in Users, Serve(u, NoReq),
         node' = node, outlineState' \in BOOLEAN, moduleNumControl' \in BOOLEAN,
         monitor' = monitor
  PROVE  Inv'
<1>1. NoReq.kind = "none"
  BY DEF NoReq
<1> QED  BY <1>1, PlainStep

LEMMA RenameCheckInv ==
  ASSUME Inv, NEW u \in Users, NEW n \in 1..MaxNodes, NEW name \in Names,
         RenameCheck(u, n, name)
  PROVE  Inv'
<1> DEFINE r == [kind |-> "rename", id |-> n, name |-> name]
<1>1. Serve(u, r) /\ r \in RenameReq /\ r.kind = "rename" /\ r.id = n
  BY DEF RenameCheck, RenameReq
<1>2. n \in 2..Len(node) /\ TypeOK
  BY NodeType DEF RenameCheck, Root, Inv
<1>3. outlineState' \in BOOLEAN /\ moduleNumControl' \in BOOLEAN /\ node' = node
      /\ monitor' = monitor
  BY <1>2 DEF RenameCheck, TypeOK
<1> HIDE DEF r
<1> QED  BY <1>1, <1>2, <1>3, PlainStep

LEMMA RenameInv ==
  ASSUME Inv, NEW u \in Users, Rename(u)
  PROVE  Inv'
<1>1. TypeOK /\ req[u] \in RenameReq /\ req[u].id \in 2..Len(node)
  BY ReqKinds DEF Inv, Rename, RenameOK
<1>2. req[u].name \in Names /\ Len(node) \in Nat /\ node \in Seq(Row)
      /\ DOMAIN node = 1..Len(node)
  BY <1>1, NodeType DEF RenameReq, TypeOK
<1> DEFINE row == [node[req[u].id] EXCEPT !.name = req[u].name]
<1>3. row \in Row /\ node' = [node EXCEPT ![req[u].id] = row]
  <2>1. node[req[u].id] \in Row
    BY <1>1, <1>2, NodeType
  <2>2. row \in Row
    BY <1>2, <2>1 DEF Row
  <2>3. node' = [node EXCEPT ![req[u].id] = row]
    BY DEF Rename
  <2> QED  BY <2>2, <2>3
<1>4. /\ row.up = node[req[u].id].up /\ row.num = node[req[u].id].num
      /\ row.leaf = node[req[u].id].leaf
  BY <1>1, <1>2, NodeType DEF Row
<1> HIDE DEF row
<1>5. /\ node' \in Seq(Row) /\ Len(node') = Len(node)
      /\ \A i \in 1..Len(node) : node'[i] = IF i = req[u].id THEN row ELSE node[i]
  BY <1>1, <1>2, <1>3, ExceptSeq
<1>6. SameShape
  BY <1>4, <1>5, <1>2 DEF SameShape, Kept
<1>7. /\ req' \in [Users -> {NoReq} \cup AddReq \cup RenameReq \cup SubmitReq]
      /\ req'[u] = NoReq
      /\ \A v \in Users \ {u} : req'[v] = req[v]
  BY <1>1, ServeType DEF Rename
<1>8. TypeOK' /\ monitor' = monitor
  BY <1>1, <1>5, <1>7 DEF Rename, TypeOK
<1>9. AddOK(u)' /\ SubmitOK(u)' /\ RenameOK(u)'
  BY <1>7 DEF AddOK, SubmitOK, RenameOK, At, NoReq
<1> QED  BY <1>6, <1>7, <1>8, <1>9, Others

LEMMA SwitchInv ==
  ASSUME Inv, NEW u \in Users, NEW n \in 1..MaxNodes, NEW off \in BOOLEAN,
         SwitchState(u, n, off)
  PROVE  Inv'
<1>1. TypeOK /\ DOMAIN node = 1..Len(node) /\ Len(node) \in 1..MaxNodes
      /\ MaxNodes \in Nat /\ \A i \in 1..Len(node) : node[i] \in Row
  BY NodeType DEF Inv
<1>2. node' = [i \in 1..Len(node) |->
                 IF IsUnder(node[i].num, node[n].num) /\ i # Root
                 THEN [node[i] EXCEPT !.off = off] ELSE node[i]]
  BY <1>1 DEF SwitchState
<1>3. \A i \in 1..Len(node) : /\ node'[i] \in Row
                              /\ node'[i].up = node[i].up /\ node'[i].num = node[i].num
                              /\ node'[i].leaf = node[i].leaf
  BY <1>1, <1>2 DEF Row
<1>4. node' \in [1..Len(node) -> Row]
  BY <1>2, <1>3
<1>5. node' \in Seq(Row) /\ Len(node') = Len(node)
  <2>1. node' \in Seq(Row)
    BY <1>1, <1>4, SeqDef
  <2>2. DOMAIN node' = 1..Len(node)
    BY <1>4
  <2> QED  BY <1>1, <2>1, <2>2, LenProperties
<1>6. SameShape
  BY <1>1, <1>3, <1>5 DEF SameShape, Kept
<1>7. TypeOK' /\ req' = req /\ monitor' = monitor
  BY <1>1, <1>5 DEF TypeOK, SwitchState
<1>8. AddOK(u)' /\ SubmitOK(u)' /\ RenameOK(u)'
  BY <1>1, <1>5, <1>6, <1>7, AddSame, SubmitKept, RenameKept DEF Inv, SameShape
<1> QED  BY <1>6, <1>7, <1>8, Others
-----------------------------------------------------------------------------
(* The submission *)

LEMMA WaitInv ==
  ASSUME Inv, NEW u \in Users, Wait(u)
  PROVE  Inv'
<1>1. TypeOK /\ req[u] \in SubmitReq /\ req[u].step = "wait" /\ req[u].tries < 4
  BY ReqKinds DEF Inv, Wait, At
<1> DEFINE r == [req[u] EXCEPT !.tries = Tick(@)]
<1>2. Serve(u, r) /\ r \in SubmitReq /\ r.kind = "submit" /\ r.step = "wait"
  BY <1>1 DEF Wait, Tick, SubmitReq
<1>3. outlineState' \in BOOLEAN /\ moduleNumControl' \in BOOLEAN /\ node' = node
      /\ monitor' = monitor
  BY <1>1 DEF Wait, TypeOK
<1> HIDE DEF r
<1> QED  BY <1>2, <1>3, PlainStep

LEMMA ReadModulesInv ==
  ASSUME Inv, NEW u \in Users, ReadModules(u)
  PROVE  Inv'
<1> DEFINE mods == [i \in DOMAIN node |-> [up |-> node[i].up, leaf |-> node[i].leaf]]
           nums == <<node[Root].num>>
           r == [req[u] EXCEPT !.step = "number", !.nums = nums, !.mods = mods]
<1>1. TypeOK /\ TreeOK /\ req[u] \in SubmitReq
  BY ReqKinds DEF Inv, ReadModules, At
<1>2. /\ Len(node) \in 1..MaxNodes /\ MaxNodes \in Nat /\ DOMAIN node = 1..Len(node)
      /\ \A i \in 1..Len(node) : node[i] \in Row
  BY <1>1, NodeType
<1>3. mods \in [1..Len(node) -> [up : 0..MaxNodes, leaf : BOOLEAN]]
  BY <1>2 DEF Row
<1>4. mods \in Seq([up : 0..MaxNodes, leaf : BOOLEAN]) /\ Len(mods) = Len(node)
  <2>1. mods \in Seq([up : 0..MaxNodes, leaf : BOOLEAN])
    BY <1>2, <1>3, SeqDef
  <2> QED  BY <1>2, <1>3, <2>1, LenProperties
<1>5. nums \in Seq(Number) /\ Len(nums) = 1 /\ nums[1] = node[1].num
  BY <1>2 DEF Row, Root
<1>6. /\ r \in SubmitReq /\ Serve(u, r) /\ r.mods = mods /\ r.nums = nums
      /\ r.kind = "submit"
  BY <1>1, <1>4, <1>5 DEF SubmitReq, ReadModules
<1>7. \A i \in 1..Len(node) : mods[i].up = node[i].up /\ mods[i].leaf = node[i].leaf
  BY <1>2
<1>8. \A i \in 2..Len(node) : ~mods[mods[i].up].leaf
  <2> TAKE i \in 2..Len(node)
  <2>1. node[i].up \in 1..(i - 1) /\ ~node[node[i].up].leaf
    BY <1>1 DEF TreeOK
  <2>2. node[i].up \in 1..Len(node) /\ i \in 1..Len(node)
    BY <1>2, <2>1
  <2> QED  BY <1>7, <2>1, <2>2
<1> HIDE DEF mods, nums, r
<1>9. /\ req' \in [Users -> {NoReq} \cup AddReq \cup RenameReq \cup SubmitReq]
      /\ req'[u] = r
      /\ \A v \in Users \ {u} : req'[v] = req[v]
  BY <1>1, <1>6, ServeType
<1>10. TypeOK' /\ SameShape /\ monitor' = monitor /\ node' = node
  BY <1>1, <1>9, NodeSame DEF TypeOK, ReadModules
<1>11. SubmitOK(u)'
  <2>1. req'[u].mods = mods /\ req'[u].nums = nums /\ node' = node
    BY <1>6, <1>9, <1>10
  <2>2. Len(mods) <= Len(node) /\ Len(nums) \in 1..Len(mods) /\ Len(mods) \in Nat
    BY <1>2, <1>4, <1>5
  <2>3. \A i \in 1..Len(nums) : nums[i] = node[i].num
    BY <1>5
  <2>4. \A i \in 1..Len(mods) : mods[i].up = node[i].up
    BY <1>4, <1>7
  <2>5. \A i \in 2..Len(mods) : ~mods[mods[i].up].leaf
    BY <1>4, <1>8
  <2> QED  BY <2>1, <2>2, <2>3, <2>4, <2>5 DEF SubmitOK
<1>12. AddOK(u)' /\ RenameOK(u)'
  BY <1>6, <1>9 DEF AddOK, RenameOK
<1> QED  BY <1>9, <1>10, <1>11, <1>12, Others

(* The number found for the next node is the one that it has.              *)
LEMMA FindsNumber ==
  ASSUME Inv, NEW u \in Users, At(u, {"number"}), Len(req[u].nums) < Len(req[u].mods)
  PROVE  LET i == Len(req[u].nums) + 1
         IN i \in 2..Len(node) /\ ModuleNum(req[u].mods, req[u].nums, i) = node[i].num
<1> DEFINE mods == req[u].mods  nums == req[u].nums  i == Len(nums) + 1
           S == Previous(mods, nums, i)  p == node[i].up
<1>1. TypeOK /\ TreeOK /\ req[u] \in SubmitReq /\ SubmitOK(u) /\ At(u, {"number", "write"})
  BY ReqKinds DEF Inv, At
<1>2. /\ mods \in Seq([up : 0..MaxNodes, leaf : BOOLEAN]) /\ nums \in Seq(Number)
      /\ Len(mods) \in Nat /\ Len(nums) \in Nat /\ Len(node) \in Nat
  BY <1>1, NodeType DEF SubmitReq
<1>3. /\ Len(mods) <= Len(node) /\ Len(nums) \in 1..Len(mods)
      /\ \A j \in 1..Len(mods) : mods[j].up = node[j].up
      /\ \A j \in 2..Len(mods) : ~mods[mods[j].up].leaf
      /\ \A j \in 1..Len(nums) : nums[j] = node[j].num
  BY <1>1 DEF SubmitOK
<1>4. i \in 2..Len(mods) /\ i \in 2..Len(node) /\ DOMAIN nums = 1..(i - 1)
  BY <1>2, <1>3, SMTT(30)
<1>5. /\ p \in 1..(i - 1)
      /\ node[i].num = Append(node[p].num, Seg(node[i].num))
      /\ Prev(i) = {} => Seg(node[i].num) = 1
      /\ Prev(i) # {} => \E j \in Prev(i) : /\ \A k \in Prev(i) : k <= j
                                            /\ Seg(node[i].num) = Seg(node[j].num) + 1
  BY <1>1, <1>4 DEF TreeOK
<1>6. \A j \in 1..(i - 1) : j \in 1..Len(nums) /\ j \in 1..Len(mods)
  BY <1>2, <1>3
<1> HIDE DEF mods, nums, i, p
<1>7. /\ mods[i].up = p /\ nums[p] = node[p].num /\ ~mods[p].leaf
      /\ Holder(mods, nums, p) = node[p].num
  <2>1. i \in 1..Len(mods)
    BY <1>2, <1>4
  <2>2. mods[i].up = p
    BY <1>3, <2>1 DEF p
  <2>3. nums[p] = node[p].num
    BY <1>3, <1>5, <1>6
  <2>4. ~mods[p].leaf
    BY <1>3, <1>4, <2>2
  <2> QED  BY <2>2, <2>3, <2>4 DEF Holder
<1>8. S = Prev(i)
  <2>1. \A j \in 1..(i - 1) : mods[j].up = node[j].up
    BY <1>3, <1>6
  <2>2. (1..(i - 1)) \ {1} = 2..(i - 1)
    BY <1>4, <1>2, SMTT(30)
  <2>3. 2..(i - 1) \subseteq 1..(i - 1)
    BY <1>4, <1>2
  <2> QED  BY <1>4, <1>7, <2>1, <2>2, <2>3 DEF Previous, Prev, Root, p
<1>9. \A j \in S : nums[j] = node[j].num /\ j \in Nat
  BY <1>2, <1>3, <1>4, <1>6, <1>8, SMTT(30) DEF Prev
<1> HIDE DEF S
<1>10. ModuleNum(mods, nums, i) =
        Append(node[p].num,
               IF S = {} THEN 1
               ELSE Seg(nums[CHOOSE j \in S : \A k \in S : k <= j]) + 1)
  BY <1>7 DEF ModuleNum, S
<1>11. CASE S = {}
  BY <1>4, <1>5, <1>8, <1>10, <1>11 DEF i, mods, nums
<1>12. CASE S # {}
  <2>1. PICK j \in S : (\A k \in S : k <= j) /\ Seg(node[i].num) = Seg(node[j].num) + 1
    BY <1>5, <1>8, <1>12
  <2>2. (CHOOSE k \in S : \A m \in S : m <= k) = j
    <3>1. \A k \in S : (\A m \in S : m <= k) => k = j
      BY <1>9, <2>1
    <3> QED  BY <2>1, <3>1
  <2>3. ModuleNum(mods, nums, i) = Append(node[p].num, Seg(node[j].num) + 1)
    BY <1>9, <1>10, <1>12, <2>2
  <2> QED  BY <1>4, <1>5, <2>1, <2>3 DEF i, mods, nums
<1> QED  BY <1>11, <1>12

LEMMA NumberNextInv ==
  ASSUME Inv, NEW u \in Users, NumberNext(u)
  PROVE  Inv'
<1> DEFINE i == Len(req[u].nums) + 1
           nums == Append(req[u].nums, node[i].num)
           r == [req[u] EXCEPT !.nums = nums]
<1>1. TypeOK /\ req[u] \in SubmitReq /\ SubmitOK(u) /\ At(u, {"number", "write"})
  BY ReqKinds DEF Inv, NumberNext, At
<1>2. i \in 2..Len(node) /\ ModuleNum(req[u].mods, req[u].nums, i) = node[i].num
  BY FindsNumber DEF NumberNext
<1>3. /\ req[u].nums \in Seq(Number) /\ node[i].num \in Number
      /\ Len(req[u].mods) \in Nat /\ Len(req[u].nums) \in Nat
      /\ Len(req[u].nums) < Len(req[u].mods)
  <2>1. req[u].nums \in Seq(Number)
    BY <1>1 DEF SubmitReq
  <2>2. Len(req[u].mods) \in Nat /\ Len(req[u].nums) \in Nat
    BY <1>1 DEF SubmitReq
  <2>3. node[i].num \in Number
    <3>1. i \in 1..Len(node)
      BY <1>2, <1>1, NodeType
    <3> QED  BY <3>1, <1>1, NodeType
  <2>4. Len(req[u].nums) < Len(req[u].mods)
    BY DEF NumberNext
  <2> QED  BY <2>1, <2>2, <2>3, <2>4
<1>4. /\ nums \in Seq(Number) /\ Len(nums) = i /\ nums[i] = node[i].num
      /\ \A j \in 1..(i - 1) : nums[j] = req[u].nums[j]
  BY <1>3, AppendProperties
<1>5. r \in SubmitReq /\ r.kind = "submit" /\ r.nums = nums /\ r.mods = req[u].mods
  BY <1>1, <1>4 DEF SubmitReq
<1>6. Serve(u, r)
  BY <1>2 DEF NumberNext
<1> HIDE DEF nums, r
<1>7. /\ req' \in [Users -> {NoReq} \cup AddReq \cup RenameReq \cup SubmitReq]
      /\ req'[u] = r
      /\ \A v \in Users \ {u} : req'[v] = req[v]
  BY <1>1, <1>5, <1>6, ServeType
<1>8. TypeOK' /\ SameShape /\ monitor' = monitor /\ node' = node
  BY <1>1, <1>7, NodeSame DEF TypeOK, NumberNext
<1>9. SubmitOK(u)'
  <2>1. \A j \in 1..i : nums[j] = node[j].num
    BY <1>1, <1>3, <1>4, SMTT(30) DEF SubmitOK
  <2>2. req'[u].mods = req[u].mods /\ req'[u].nums = nums /\ node' = node
    BY <1>5, <1>7, <1>8
  <2>3. Len(nums) \in 1..Len(req[u].mods)
    BY <1>3, <1>4
  <2> QED  BY <1>1, <1>4, <2>1, <2>2, <2>3 DEF SubmitOK
<1>10. AddOK(u)' /\ RenameOK(u)'
  BY <1>5, <1>7 DEF AddOK, RenameOK
<1> QED  BY <1>7, <1>8, <1>9, <1>10, Others

LEMMA ConfirmInv ==
  ASSUME Inv, NEW u \in Users, Confirm(u)
  PROVE  Inv'
<1>1. TypeOK /\ req[u] \in SubmitReq /\ SubmitOK(u) /\ At(u, {"number", "write"})
  BY ReqKinds DEF Inv, Confirm, At
<1>2. /\ outlineState' \in BOOLEAN /\ moduleNumControl' \in BOOLEAN /\ node' = node
      /\ monitor' = monitor
  BY <1>1 DEF Confirm, TypeOK
<1>3. CASE outlineState
  BY <1>2, <1>3, StepInv DEF Confirm
<1>4. CASE ~outlineState
  <2> DEFINE r == [req[u] EXCEPT !.step = "write"]
  <2>1. r \in SubmitReq /\ r.kind = "submit" /\ Serve(u, r)
        /\ r.mods = req[u].mods /\ r.nums = req[u].nums
    BY <1>1, <1>4 DEF Confirm, SubmitReq
  <2> HIDE DEF r
  <2>2. /\ req' \in [Users -> {NoReq} \cup AddReq \cup RenameReq \cup SubmitReq]
        /\ req'[u] = r
        /\ \A v \in Users \ {u} : req'[v] = req[v]
    BY <1>1, <2>1, ServeType
  <2>3. TypeOK' /\ SameShape
    BY <1>1, <1>2, <2>2, NodeSame DEF TypeOK
  <2>4. SubmitOK(u)'
    BY <1>1, <1>2, <2>1, <2>2 DEF SubmitOK
  <2>5. AddOK(u)' /\ RenameOK(u)'
    BY <2>1, <2>2 DEF AddOK, RenameOK
  <2> QED  BY <1>2, <2>2, <2>3, <2>4, <2>5, Others
<1> QED  BY <1>3, <1>4

(* Writing the numbers changes nothing.                                    *)
LEMMA WritesSame ==
  ASSUME Inv, NEW u \in Users, WriteNumbers(u)
  PROVE  node' = node
<1>1. TypeOK /\ req[u] \in SubmitReq /\ SubmitOK(u) /\ At(u, {"number", "write"})
  BY ReqKinds DEF Inv, WriteNumbers, At
<1>2. /\ DOMAIN node = 1..Len(node) /\ Len(node) \in Nat /\ node \in Seq(Row)
      /\ \A i \in 1..Len(node) : node[i] \in Row
  BY <1>1, NodeType DEF TypeOK
<1>3. DOMAIN req[u].nums = 1..Len(req[u].nums) /\ Len(req[u].nums) \in Nat
  BY <1>1 DEF SubmitReq
<1>4. \A i \in DOMAIN req[u].nums : req[u].nums[i] = node[i].num
  BY <1>1, <1>3 DEF SubmitOK
<1>5. \A i \in 1..Len(node) : [node[i] EXCEPT !.num = node[i].num] = node[i]
  BY <1>2 DEF Row
<1>6. node' = [i \in 1..Len(node) |-> node[i]]
  BY <1>2, <1>4, <1>5 DEF WriteNumbers, Renumbered
<1>7. node = [i \in 1..Len(node) |-> node[i]]
  BY <1>2, LenProperties
<1> QED  BY <1>6, <1>7

LEMMA SubmitStepInv ==
  ASSUME Inv, NEW u \in Users, SubmitStep(u)
  PROVE  Inv'
<1>1. TypeOK
  BY DEF Inv
<1>2. CASE Wait(u)  BY <1>2, WaitInv
<1>3. CASE GoOn(u)  BY <1>1, <1>3, StepInv DEF GoOn, TypeOK
<1>4. CASE PutFlag(u)  BY <1>1, <1>4, StepInv DEF PutFlag, TypeOK
<1>5. CASE ReadModules(u)  BY <1>5, ReadModulesInv
<1>6. CASE NumberNext(u)  BY <1>6, NumberNextInv
<1>7. CASE Confirm(u)  BY <1>7, ConfirmInv
<1>8. CASE WriteNumbers(u)
  BY <1>1, <1>8, WritesSame, StepInv DEF WriteNumbers, TypeOK
<1>9. CASE Leave(u)  BY <1>1, <1>9, DoneInv DEF Leave, TypeOK
<1>10. CASE SubmitFails(u)  BY <1>1, <1>10, StepInv DEF SubmitFails, TypeOK
<1> QED  BY <1>2, <1>3, <1>4, <1>5, <1>6, <1>7, <1>8, <1>9, <1>10 DEF SubmitStep
-----------------------------------------------------------------------------
(* Adding nodes *)

(* The last child of a node has the greatest number among them.            *)
LEMMA LastKid ==
  ASSUME TypeOK, TreeOK, NEW p \in 1..Len(node), NEW k \in Kids(p),
         \A j \in Kids(p) : j <= k
  PROVE  /\ k \in 2..Len(node)
         /\ \A j \in Kids(p) : /\ j \in 2..Len(node) /\ Seg(node[j].num) \in Nat
                               /\ Seg(node[j].num) <= Seg(node[k].num)
                               /\ Seg(node[j].num) = Seg(node[k].num) => j = k
<1>1. \A j \in Kids(p) : j \in 2..Len(node)
  <2> TAKE j \in Kids(p)
  <2>1. j \in 1..Len(node) /\ node[j].up = p
    BY NodeType DEF Kids
  <2>2. j # 1
    BY <2>1 DEF TreeOK
  <2> QED  BY <2>1, <2>2, NodeType
<1>2. \A j \in Kids(p) : Seg(node[j].num) \in Nat
  BY <1>1, NodeType DEF TreeOK
<1>3. \A j \in Kids(p) : j # k => j \in Prev(k)
  <2> TAKE j \in Kids(p)
  <2>1. j \in 2..Len(node) /\ k \in 2..Len(node) /\ j <= k /\ Len(node) \in Nat
    BY <1>1, NodeType
  <2>2. node[j].up = p /\ node[k].up = p
    BY DEF Kids
  <2> QED  BY <2>1, <2>2 DEF Prev
<1>4. \A j \in Prev(k) : Seg(node[j].num) < Seg(node[k].num)
  BY <1>1 DEF TreeOK
<1>5. ASSUME NEW j \in Kids(p)
      PROVE  /\ Seg(node[j].num) <= Seg(node[k].num)
             /\ Seg(node[j].num) = Seg(node[k].num) => j = k
  BY <1>2, <1>3, <1>4
<1> QED  BY <1>1, <1>2, <1>5

(* getNextNum: one more than the last child's, whichever way it is found.  *)
LEMMA NextNumIs ==
  ASSUME TypeOK, TreeOK, NEW p \in 1..Len(node)
  PROVE  /\ NextNum(p) = Append(node[p].num, Seg(NextNum(p)))
         /\ Seg(NextNum(p)) \in 1..(Len(node) + 1)
         /\ Kids(p) = {} => Seg(NextNum(p)) = 1
         /\ \A k \in Kids(p) :
              (\A j \in Kids(p) : j <= k) => Seg(NextNum(p)) = Seg(node[k].num) + 1
         /\ \A j \in Kids(p) : Seg(node[j].num) < Seg(NextNum(p))
<1>1. node[p].num \in Seq(Nat) /\ Len(node) \in Nat /\ Len(node) >= 1
  BY NodeType, NumberNat
<1>2. CASE Kids(p) = {}
  <2>1. NextNum(p) = Append(node[p].num, 1)
    BY <1>2 DEF NextNum
  <2>2. Seg(NextNum(p)) = 1
    BY <1>1, <2>1, SegAppend
  <2> QED  BY <1>1, <1>2, <2>1, <2>2
<1>3. CASE Kids(p) # {}
  <2>1. PICK k \in Kids(p) : \A j \in Kids(p) : j <= k
    BY <1>3 DEF TreeOK
  <2>2. /\ k \in 2..Len(node)
        /\ \A j \in Kids(p) : /\ j \in 2..Len(node) /\ Seg(node[j].num) \in Nat
                              /\ Seg(node[j].num) <= Seg(node[k].num)
                              /\ Seg(node[j].num) = Seg(node[k].num) => j = k
    BY <2>1, LastKid
  <2>3. (CHOOSE m \in Kids(p) : \A j \in Kids(p) : Seg(node[j].num) <= Seg(node[m].num)) = k
    <3>1. \A m \in Kids(p) :
            (\A j \in Kids(p) : Seg(node[j].num) <= Seg(node[m].num)) => m = k
      BY <2>1, <2>2
    <3> QED  BY <2>1, <2>2, <3>1
  <2>4. NextNum(p) = Plus(node[k].num, 1)
    BY <1>3, <2>3 DEF NextNum
  <2>5. /\ node[k].num = Append(node[p].num, Seg(node[k].num))
        /\ Seg(node[k].num) \in 1..k /\ Seg(node[k].num) \in Nat
    <3>1. node[k].up = p
      BY <2>1 DEF Kids
    <3> QED  BY <2>2, <3>1 DEF TreeOK
  <2>6. NextNum(p) = Append(node[p].num, Seg(node[k].num) + 1)
    <3> DEFINE s == node[p].num  x == Seg(node[k].num)
    <3>1. node[k].num = Append(s, x) /\ s \in Seq(Nat) /\ x \in Nat /\ 1 \in Nat
      BY <1>1, <2>5
    <3> HIDE DEF s, x
    <3>2. Plus(Append(s, x), 1) = Append(s, x + 1)
      BY <3>1, SegAppend
    <3>3. NextNum(p) = Append(s, x + 1)
      BY <2>4, <3>1, <3>2
    <3> QED  BY <3>3 DEF s, x
  <2>7. Seg(NextNum(p)) = Seg(node[k].num) + 1
    BY <1>1, <2>5, <2>6, SegAppend
  <2>8. Seg(NextNum(p)) \in 1..(Len(node) + 1)
    BY <1>1, <2>2, <2>5, <2>7
  <2>9. \A j \in Kids(p) : (\A m \in Kids(p) : m <= j) => j = k
    BY <2>1, <2>2
  <2> QED  BY <1>3, <2>2, <2>5, <2>6, <2>7, <2>8, <2>9, SMTT(30)
<1> QED  BY <1>2, <1>3

(* A form holds one name or two.                                           *)
LEMMA FormsType ==
  ASSUME NEW names \in Forms
  PROVE  names \in Seq(Names) /\ Len(names) \in Nat /\ Len(names) >= 1
<1>1. CASE names \in {<<a>> : a \in Names}
  <2>1. PICK a \in Names : names = <<a>>
    BY <1>1
  <2> QED  BY <2>1
<1>2. CASE names \in Names \X Names
  <2>1. PICK a \in Names, b \in Names : names = <<a, b>>
    BY <1>2
  <2> QED  BY <2>1
<1> QED  BY <1>1, <1>2 DEF Forms

LEMMA AddCheckInv ==
  ASSUME Inv, NEW u \in Users, NEW p \in 1..MaxNodes, NEW names \in Forms,
         AddCheck(u, p, names)
  PROVE  Inv'
<1> DEFINE r == [kind |-> "add", to |-> p, names |-> names, first |-> NextNum(p),
                 read |-> node[p]]
<1>1. TypeOK /\ TreeOK /\ p \in 1..Len(node) /\ Len(node) + Len(names) <= MaxNodes
  BY NodeType DEF Inv, AddCheck
<1>2. names \in Seq(Names) /\ Len(names) \in Nat /\ Len(names) >= 1
  BY FormsType
<1>3. /\ NextNum(p) = Append(node[p].num, Seg(NextNum(p)))
      /\ Seg(NextNum(p)) \in 1..(Len(node) + 1)
      /\ Kids(p) = {} => Seg(NextNum(p)) = 1
      /\ \A k \in Kids(p) :
           (\A j \in Kids(p) : j <= k) => Seg(NextNum(p)) = Seg(node[k].num) + 1
      /\ \A j \in Kids(p) : Seg(node[j].num) < Seg(NextNum(p))
  BY <1>1, NextNumIs
<1>4. NextNum(p) \in Number
  <2> DEFINE n == NextNum(p)
  <2>1. node[p].num \in Seq(1..MaxNodes) /\ Len(node) \in Nat /\ MaxNodes \in Nat
    BY <1>1, NodeType DEF Number
  <2>2. Seg(n) \in 1..(Len(node) + 1) /\ n = Append(node[p].num, Seg(n))
    BY <1>3
  <2> HIDE DEF n
  <2>3. Seg(n) \in 1..MaxNodes
    BY <1>1, <1>2, <2>1, <2>2
  <2>4. \A S : \A s \in Seq(S), x \in S : Append(s, x) \in Seq(S)
    BY AppendProperties
  <2>5. n \in Seq(1..MaxNodes)
    <3>1. Append(node[p].num, Seg(n)) \in Seq(1..MaxNodes)
      BY <2>1, <2>3, <2>4
    <3> QED  BY <2>2, <3>1
  <2> QED  BY <2>5 DEF Number, n
<1>5. r \in AddReq /\ r.kind = "add" /\ Serve(u, r)
  BY <1>1, <1>2, <1>4, NodeType DEF AddReq, AddCheck
<1>6. /\ r.to = p /\ r.names = names /\ r.first = NextNum(p) /\ r.read = node[p]
  OBVIOUS
<1> HIDE DEF r
<1>7. /\ req' \in [Users -> {NoReq} \cup AddReq \cup RenameReq \cup SubmitReq]
      /\ req'[u] = r
      /\ \A v \in Users \ {u} : req'[v] = req[v]
  BY <1>1, <1>5, ServeType
<1>8. TypeOK' /\ node' = node /\ monitor = NIL /\ monitor' = u /\ Len(node') \in Nat
  BY <1>1, <1>7, NodeType DEF TypeOK, AddCheck, CanEnter
<1>9. SameShape /\ Kept
  BY <1>1, <1>8, NodeSame DEF SameShape
<1>10. TreeOK'
  BY <1>1, <1>8, <1>9, TreeSame
<1>11. AddOK(u)'
  <2>1. \A q : Kids(q)' = Kids(q)
    BY <1>8 DEF Kids
  <2>2. /\ req'[u].to = p /\ req'[u].names = names /\ req'[u].first = NextNum(p)
        /\ req'[u].read = node[p] /\ node' = node /\ monitor' = u
    BY <1>6, <1>7, <1>8
  <2>3. Len(names) \in Nat \ {0}
    BY <1>2
  <2> HIDE DEF AddOK
  <2> QED  BY <1>1, <1>3, <2>1, <2>2, <2>3 DEF AddOK
<1>12. SubmitOK(u)' /\ RenameOK(u)'
  BY <1>5, <1>7 DEF SubmitOK, RenameOK, At
<1>13. ASSUME NEW v \in Users, v # u PROVE AddOK(v)' /\ SubmitOK(v)' /\ RenameOK(v)'
  <2>1. AddOK(v) /\ SubmitOK(v) /\ RenameOK(v) /\ req'[v] = req[v]
    BY <1>7, <1>13 DEF Inv
  <2>2. req'[v].kind # "add"
    BY <1>8, <2>1, OutlineAssumption DEF AddOK
  <2> QED  BY <1>1, <1>8, <1>9, <2>1, <2>2, SubmitKept, RenameKept DEF AddOK
<1> QED  BY <1>8, <1>10, <1>11, <1>12, <1>13 DEF Inv

(* The rows that a request adds are new children of one node, numbered     *)
(* from the number it has found on.                                        *)
LEMMA AddInsertIs ==
  ASSUME Inv, NEW u \in Users, AddInsert(u)
  PROVE  /\ req[u] \in AddReq /\ AddOK(u)
         /\ node' \in Seq(Row)
         /\ Len(node') = Len(node) + Len(req[u].names)
         /\ \A i \in 1..Len(node) :
              /\ node'[i].up = node[i].up /\ node'[i].num = node[i].num
              /\ node'[i].leaf = (node[i].leaf /\ i # req[u].to)
         /\ \A i \in (Len(node) + 1)..Len(node') :
              /\ node'[i].up = req[u].to
              /\ node'[i].num = Append(node[req[u].to].num,
                                       Seg(req[u].first) + (i - Len(node) - 1))
              /\ node'[i].leaf
<1> DEFINE r == req[u]  l == Len(node)  m == Len(r.names)  old == node[r.to]
           row == WrittenBack(r.read, old)
           new == [k \in 1..m |-> NewNode(r.to, r.names[k], Plus(r.first, k - 1))]
<1>1. TypeOK /\ TreeOK /\ req[u] \in AddReq /\ AddOK(u) /\ req[u].kind = "add"
  BY ReqKinds, SMTT(30) DEF Inv, AddInsert
<1>2. /\ r.to \in 1..l /\ r.names \in Seq(Names) /\ r.first \in Number /\ r.read \in Row
      /\ m \in Nat /\ m >= 1 /\ l + m <= MaxNodes /\ DOMAIN r.names = 1..m
      /\ r.first = Append(old.num, Seg(r.first)) /\ Seg(r.first) \in 1..(l + 1)
      /\ r.read.up = old.up /\ r.read.num = old.num /\ r.read.leaf = old.leaf
  BY <1>1, LenProperties DEF AddReq, AddOK
<1>3. /\ l \in 1..MaxNodes /\ MaxNodes \in Nat /\ node \in Seq(Row) /\ old \in Row
      /\ old.num \in Number /\ \A i \in 1..l : node[i].leaf \in BOOLEAN
  BY <1>1, <1>2, NodeType DEF TypeOK
<1>4. row \in Row /\ row.up = old.up /\ row.num = old.num /\ row.leaf = FALSE
  BY <1>2, <1>3 DEF WrittenBack, Row
<1>5. \A k \in 1..m : /\ Plus(r.first, k - 1) = Append(old.num, Seg(r.first) + (k - 1))
                      /\ Plus(r.first, k - 1) \in Number
  <2> TAKE k \in 1..m
  <2> DEFINE s == old.num  x == Seg(r.first)  y == k - 1
  <2>1. s \in Seq(Nat) /\ x \in Nat /\ y \in Nat /\ r.first = Append(s, x)
    BY <1>2, <1>3, NumberNat, SMTT(30)
  <2>2. s \in Seq(1..MaxNodes) /\ x + y \in 1..MaxNodes
    <3>1. s \in Seq(1..MaxNodes)
      BY <1>3 DEF Number
    <3>2. x \in 1..(l + 1) /\ l \in Nat /\ m \in Nat /\ l + m <= MaxNodes
      BY <1>2, <1>3
    <3>3. ASSUME NEW a \in 1..(l + 1), NEW b \in 1..m
          PROVE  a + (b - 1) \in 1..MaxNodes
      <4> HIDE DEF l, m
      <4> QED BY <3>2, <1>3
    <3>4. x + y \in 1..MaxNodes
      BY <3>2, <3>3
    <3> QED BY <3>1, <3>4
  <2> HIDE DEF s, x, y
  <2>3. Plus(Append(s, x), y) = Append(s, x + y)
    BY <2>1, SegAppend
  <2>4. Append(s, x + y) \in Seq(1..MaxNodes)
    BY <2>2, AppendProperties
  <2>5. Plus(r.first, y) = Append(s, x + y) /\ Plus(r.first, y) \in Number
    BY <2>1, <2>3, <2>4 DEF Number
  <2> QED  BY <2>5 DEF s, x, y
<1>6. \A k \in 1..m : /\ new[k] \in Row /\ new[k].up = r.to /\ new[k].leaf
                      /\ new[k].num = Plus(r.first, k - 1)
  <2> TAKE k \in 1..m
  <2>1. r.names[k] \in Names
    BY <1>2, ElementOfSeq
  <2>2. r.to \in 0..MaxNodes
    BY <1>2, <1>3
  <2>3. Plus(r.first, k - 1) \in Number
    BY <1>5
  <2> QED  BY <2>1, <2>2, <2>3 DEF NewNode, Row
<1>7. new \in Seq(Row) /\ Len(new) = m
  <2>1. new \in [1..m -> Row]
    BY <1>6
  <2>2. new \in Seq(Row)
    BY <1>2, <2>1, SeqDef, SMTT(30)
  <2> QED  BY <1>2, <2>1, <2>2, LenProperties
<1>8. node' = [node EXCEPT ![r.to] = row] \o new
  BY <1>2 DEF AddInsert
<1> HIDE DEF r, l, m, old, row, new
<1>9. /\ [node EXCEPT ![r.to] = row] \in Seq(Row)
      /\ Len([node EXCEPT ![r.to] = row]) = l
      /\ \A i \in 1..l : [node EXCEPT ![r.to] = row][i] = IF i = r.to THEN row ELSE node[i]
  BY <1>2, <1>3, <1>4, ExceptSeq DEF l
<1>10. /\ node' \in Seq(Row) /\ Len(node') = l + m
       /\ \A i \in 1..(l + m) : node'[i] =
            IF i <= l THEN IF i = r.to THEN row ELSE node[i] ELSE new[i - l]
  <2> DEFINE s == [node EXCEPT ![r.to] = row]
  <2>1. s \in Seq(Row) /\ Len(s) = l /\ node' = s \o new
    BY <1>8, <1>9
  <2> HIDE DEF s
  <2>2. /\ node' \in Seq(Row) /\ Len(node') = l + m
        /\ \A i \in 1..(l + m) : node'[i] = IF i <= l THEN s[i] ELSE new[i - l]
    BY <1>7, <2>1, ConcatProperties
  <2>3. \A i \in 1..l : s[i] = IF i = r.to THEN row ELSE node[i]
    BY <1>9 DEF s
  <2> QED  BY <1>2, <1>3, <2>2, <2>3
<1>11. \A i \in 1..l : /\ node'[i].up = node[i].up /\ node'[i].num = node[i].num
                       /\ node'[i].leaf = (node[i].leaf /\ i # r.to)
  <2> TAKE i \in 1..l
  <2>1. node'[i] = IF i = r.to THEN row ELSE node[i]
    BY <1>2, <1>3, <1>10
  <2>2. CASE i = r.to
    BY <1>4, <2>1, <2>2 DEF old
  <2>3. CASE i # r.to
    BY <1>3, <2>1, <2>3
  <2> QED  BY <2>2, <2>3
<1>12. \A i \in (l + 1)..(l + m) : /\ node'[i].up = r.to
                                   /\ node'[i].num = Append(old.num, Seg(r.first) + (i - l - 1))
                                   /\ node'[i].leaf
  <2> TAKE i \in (l + 1)..(l + m)
  <2>1. i - l \in 1..m /\ node'[i] = new[i - l] /\ (i - l) - 1 = i - l - 1
    BY <1>2, <1>3, <1>10
  <2> QED  BY <1>5, <1>6, <2>1
<1> QED  BY <1>1, <1>10, <1>11, <1>12 DEF r, l, m, old

LEMMA AddInsertTree ==
  ASSUME Inv, NEW u \in Users, AddInsert(u)
  PROVE  TreeOK'
<1> DEFINE l == Len(node)  n == Len(node')  t == req[u].to  f == Seg(req[u].first)
<1>1. TypeOK /\ TreeOK
  BY DEF Inv
<1>2. /\ t \in 1..l /\ f \in 1..(l + 1) /\ l \in Nat /\ l >= 1 /\ n \in Nat /\ n > l
      /\ node[t].num \in Seq(Nat)
      /\ DOMAIN node = 1..l /\ DOMAIN node' = 1..n
  <2>1. /\ AddOK(u) /\ req[u].kind = "add" /\ node' \in Seq(Row)
        /\ n = l + Len(req[u].names)
    BY AddInsertIs DEF AddInsert
  <2>2. l \in Nat /\ l >= 1 /\ DOMAIN node = 1..l
    BY <1>1, NodeType
  <2>3. t \in 1..l /\ f \in 1..(l + 1) /\ Len(req[u].names) \in Nat \ {0}
    BY <2>1 DEF AddOK
  <2>4. DOMAIN node' = 1..n
    BY <2>1, LenProperties
  <2>5. node[t].num \in Seq(Nat)
    BY <1>1, <2>3, NodeType, NumberNat, SMTT(30)
  <2> QED  BY <2>1, <2>2, <2>3, <2>4, <2>5, SMTT(30)
<1>3. /\ Kids(t) = {} => f = 1
      /\ \A k \in Kids(t) : (\A j \in Kids(t) : j <= k) => f = Seg(node[k].num) + 1
      /\ \A j \in Kids(t) : Seg(node[j].num) < f
  BY AddInsertIs DEF AddInsert, AddOK
<1>4. \A i \in 1..l : /\ node'[i].up = node[i].up /\ node'[i].num = node[i].num
                      /\ node'[i].leaf = (node[i].leaf /\ i # t)
  BY AddInsertIs
<1>5. \A i \in (l + 1)..n : /\ node'[i].up = t
                            /\ node'[i].num = Append(node[t].num, f + (i - l - 1))
  BY AddInsertIs
<1> HIDE DEF l, n, t, f
<1>6. \A i \in (l + 1)..n : Seg(node'[i].num) = f + (i - l - 1)
  <2> TAKE i \in (l + 1)..n
  <2> DEFINE s == node[t].num  x == f + (i - l - 1)
  <2>1. x \in Nat /\ s \in Seq(Nat) /\ node'[i].num = Append(s, x)
    BY <1>2, <1>5, SMTT(30)
  <2> HIDE DEF s, x
  <2>2. Seg(node'[i].num) = x
    BY <2>1, SegAppend
  <2> QED  BY <2>2 DEF x
<1>7. Kids(t) \subseteq 2..l /\ \A p : Kids(p) \subseteq 1..l
  BY <1>1, <1>2 DEF Kids, TreeOK
<1>8. node'[1].up = 0 /\ node'[1].num = <<>>
  BY <1>1, <1>2, <1>4 DEF TreeOK
<1>9. \A p \in 1..n : Kids(p)' # {} => \E k \in Kids(p)' : \A j \in Kids(p)' : j <= k
  <2> TAKE p \in 1..n
  <2>1. CASE p = t
    <3>1. n \in Kids(p)' /\ \A j \in Kids(p)' : j <= n
      BY <1>2, <1>5, <2>1 DEF Kids
    <3> QED  BY <3>1
  <2>2. CASE p # t
    <3>1. Kids(p)' = Kids(p)
      <4>1. \A i \in Kids(p)' : i \in 1..l
        BY <1>2, <1>5, <2>2 DEF Kids
      <4> QED  BY <1>2, <1>4, <4>1 DEF Kids
    <3>2. CASE p \in 1..l
      BY <1>1, <3>1, <3>2 DEF TreeOK, l
    <3>3. CASE p \notin 1..l
      <4>1. \A i \in 1..l : node[i].up # p
        <5> TAKE i \in 1..l
        <5>1. CASE i = 1
          BY <1>1, <1>2, <3>3, <5>1 DEF TreeOK
        <5>2. CASE i # 1
          <6>1. i \in 2..Len(node) /\ Len(node) = l
            BY <1>2, <5>2 DEF l
          <6>2. node[i].up \in 1..(i - 1)
            BY <1>1, <6>1 DEF TreeOK
          <6> QED  BY <1>2, <3>3, <6>1, <6>2
        <5> QED  BY <5>1, <5>2
      <4> QED  BY <1>2, <3>1, <4>1 DEF Kids
    <3> QED  BY <3>2, <3>3
  <2> QED  BY <2>1, <2>2
<1>10. ASSUME NEW i \in 2..n
       PROVE  /\ node'[i].up \in 1..(i - 1)
              /\ ~node'[node'[i].up].leaf
              /\ node'[i].num = Append(node'[node'[i].up].num, Seg(node'[i].num))
              /\ Seg(node'[i].num) \in 1..i
              /\ Prev(i)' = {} => Seg(node'[i].num) = 1
              /\ Prev(i)' # {} =>
                   \E j \in Prev(i)' : /\ \A k \in Prev(i)' : k <= j
                                       /\ Seg(node'[i].num) = Seg(node'[j].num) + 1
              /\ \A j \in Prev(i)' : Seg(node'[j].num) < Seg(node'[i].num)
  <2>1. CASE i <= l
    <3>1. i \in 2..Len(node) /\ i \in 1..l /\ \A j \in 2..(i - 1) : j \in 1..l
      BY <1>2, <2>1 DEF l
    <3>2. /\ node[i].up \in 1..(i - 1)
          /\ ~node[node[i].up].leaf
          /\ node[i].num = Append(node[node[i].up].num, Seg(node[i].num))
          /\ Seg(node[i].num) \in 1..i
          /\ Prev(i) = {} => Seg(node[i].num) = 1
          /\ Prev(i) # {} =>
               \E j \in Prev(i) : /\ \A k \in Prev(i) : k <= j
                                  /\ Seg(node[i].num) = Seg(node[j].num) + 1
          /\ \A j \in Prev(i) : Seg(node[j].num) < Seg(node[i].num)
      BY <1>1, <3>1 DEF TreeOK
    <3>3. node[i].up \in 1..l
      BY <1>2, <3>1, <3>2
    <3>4. /\ node'[i].up = node[i].up /\ node'[i].num = node[i].num
          /\ node'[node[i].up].num = node[node[i].up].num
          /\ ~node'[node[i].up].leaf
      BY <1>4, <3>1, <3>2, <3>3
    <3>5. Prev(i)' = Prev(i) /\ \A j \in Prev(i) : node'[j].num = node[j].num
      BY <1>4, <3>1 DEF Prev
    <3> QED  BY <3>2, <3>4, <3>5
  <2>2. CASE i > l
    <3>1. i \in (l + 1)..n
      BY <1>2, <2>2
    <3>2. /\ node'[i].up = t /\ Seg(node'[i].num) = f + (i - l - 1)
          /\ node'[i].num = Append(node[t].num, f + (i - l - 1))
          /\ node'[t].num = node[t].num /\ ~node'[t].leaf
      BY <1>2, <1>4, <1>5, <1>6, <3>1
    <3>3. t \in 1..(i - 1) /\ f + (i - l - 1) \in 1..i
      BY <1>2, <3>1
    <3>4. Prev(i)' = Kids(t) \cup ((l + 1)..(i - 1))
      <4>1. \A j \in Prev(i)' : j \in Kids(t) \cup ((l + 1)..(i - 1))
        <5> TAKE j \in Prev(i)'
        <5>1. j \in 2..(i - 1) /\ node'[j].up = t
          BY <3>2 DEF Prev
        <5>2. CASE j <= l
          <6>1. j \in 1..l
            BY <1>2, <5>1, <5>2
          <6> QED  BY <1>2, <1>4, <5>1, <6>1 DEF Kids
        <5>3. CASE j > l  BY <1>2, <5>1, <5>3
        <5> QED  BY <1>2, <5>1, <5>2, <5>3
      <4>2. \A j \in Kids(t) : j \in Prev(i)'
        <5> TAKE j \in Kids(t)
        <5>1. j \in 2..l /\ j \in 1..l /\ node[j].up = t
          BY <1>2, <1>7 DEF Kids
        <5>2. j \in 2..(i - 1) /\ node'[j].up = t
          BY <1>2, <1>4, <3>1, <5>1
        <5> QED  BY <3>2, <5>2 DEF Prev
      <4>3. \A j \in (l + 1)..(i - 1) : j \in Prev(i)'
        <5> TAKE j \in (l + 1)..(i - 1)
        <5>1. j \in (l + 1)..n /\ j \in 2..(i - 1)
          BY <1>2, <3>1
        <5> QED  BY <1>5, <3>2, <5>1 DEF Prev
      <4> QED  BY <4>1, <4>2, <4>3
    <3>5. \A j \in Kids(t) : node'[j].num = node[j].num /\ Seg(node'[j].num) < f
      BY <1>3, <1>4, <1>7
    <3>6. \A j \in (l + 1)..(i - 1) : Seg(node'[j].num) = f + (j - l - 1)
      BY <1>2, <1>6, <3>1
    <3>7. Prev(i)' = {} => Seg(node'[i].num) = 1
      <4> SUFFICES ASSUME Prev(i)' = {} PROVE Seg(node'[i].num) = 1
        OBVIOUS
      <4>1. Kids(t) = {} /\ l + 1 \notin (l + 1)..(i - 1)
        BY <3>4
      <4>2. i = l + 1
        BY <1>2, <3>1, <4>1
      <4> QED  BY <1>2, <1>3, <3>2, <4>1, <4>2
    <3>8. Prev(i)' # {} =>
            \E j \in Prev(i)' : /\ \A k \in Prev(i)' : k <= j
                                /\ Seg(node'[i].num) = Seg(node'[j].num) + 1
      <4>1. CASE i > l + 1
        <5>1. i - 1 \in (l + 1)..(i - 1) /\ Kids(t) \subseteq 1..l
          BY <1>2, <1>7, <3>1, <4>1
        <5>2. \A k \in Prev(i)' : k <= i - 1
          BY <1>2, <3>1, <3>4, <5>1
        <5>3. Seg(node'[i].num) = Seg(node'[i - 1].num) + 1
          BY <1>2, <3>1, <3>2, <3>6, <5>1
        <5> QED  BY <3>4, <5>1, <5>2, <5>3
      <4>2. CASE i = l + 1
        <5>1. Prev(i)' = Kids(t)
          BY <1>2, <3>4, <4>2
        <5>2. Kids(t) # {} => \E k \in Kids(t) : \A j \in Kids(t) : j <= k
          BY <1>1, <1>2 DEF TreeOK, l
        <5>3. Seg(node'[i].num) = f
          BY <1>2, <3>2, <4>2
        <5> QED  BY <1>3, <3>5, <5>1, <5>2, <5>3
      <4> QED  BY <1>2, <3>1, <4>1, <4>2
    <3>9. \A j \in Prev(i)' : Seg(node'[j].num) < Seg(node'[i].num)
      <4> TAKE j \in Prev(i)'
      <4>1. CASE j \in Kids(t)
        <5>1. Seg(node[j].num) \in Nat /\ Seg(node'[j].num) = Seg(node[j].num)
          <6>1. j \in 2..Len(node)
            BY <1>7, <4>1 DEF l
          <6>2. Seg(node[j].num) \in 1..j
            BY <1>1, <6>1 DEF TreeOK
          <6> QED  BY <3>5, <4>1, <6>1, <6>2
        <5> QED  BY <1>2, <3>1, <3>2, <3>5, <4>1, <5>1
      <4>2. CASE j \in (l + 1)..(i - 1)
        BY <1>2, <3>1, <3>2, <3>6, <4>2
      <4> QED  BY <3>4, <4>1, <4>2
    <3> QED  BY <3>2, <3>3, <3>7, <3>8, <3>9
  <2> QED  BY <1>2, <2>1, <2>2
<1> QED  BY <1>8, <1>9, <1>10 DEF TreeOK, n

LEMMA AddInsertInv ==
  ASSUME Inv, NEW u \in Users, AddInsert(u)
  PROVE  Inv'
<1>1. TypeOK /\ req[u] \in AddReq /\ AddOK(u) /\ req[u].kind = "add" /\ monitor = u
  BY AddInsertIs DEF Inv, AddInsert, AddOK
<1>2. /\ req' \in [Users -> {NoReq} \cup AddReq \cup RenameReq \cup SubmitReq]
      /\ req'[u] = NoReq
      /\ \A v \in Users \ {u} : req'[v] = req[v]
  BY <1>1, ServeType DEF AddInsert
<1>3. /\ node' \in Seq(Row) /\ Len(node') \in 1..MaxNodes /\ Len(node) <= Len(node')
      /\ Len(node') \in Nat
  <2>1. /\ node' \in Seq(Row) /\ Len(node') = Len(node) + Len(req[u].names)
        /\ Len(req[u].names) \in Nat /\ Len(node) + Len(req[u].names) <= MaxNodes
        /\ Len(node) \in 1..MaxNodes /\ MaxNodes \in Nat
    BY <1>1, AddInsertIs, NodeType DEF AddOK
  <2> QED  BY <2>1, SMTT(30)
<1>4. TypeOK'
  BY <1>1, <1>2, <1>3 DEF TypeOK, AddInsert
<1>5. Kept
  BY <1>3, AddInsertIs DEF Kept
<1>6. TreeOK'
  BY AddInsertTree
<1>7. ASSUME NEW v \in Users PROVE AddOK(v)' /\ SubmitOK(v)' /\ RenameOK(v)'
  <2>1. CASE v = u
    BY <1>2, <2>1, SMTT(30) DEF AddOK, SubmitOK, RenameOK, At, NoReq
  <2>2. CASE v # u
    <3>1. AddOK(v) /\ SubmitOK(v) /\ RenameOK(v) /\ req'[v] = req[v]
      BY <1>2, <2>2 DEF Inv
    <3>2. req'[v].kind # "add"
      BY <1>1, <2>2, <3>1 DEF AddOK
    <3> QED  BY <1>1, <1>3, <1>5, <3>1, <3>2, SubmitKept, RenameKept DEF AddOK
  <2> QED  BY <2>1, <2>2
<1> QED  BY <1>4, <1>6, <1>7, SMTT(30) DEF Inv
-----------------------------------------------------------------------------
(* All steps *)

LEMMA InitInv == Init => Inv
<1> SUFFICES ASSUME Init PROVE Inv
  OBVIOUS
<1> DEFINE root == NewNode(0, TaskName, <<>>)
<1>1. MaxNodes \in Nat /\ MaxNodes >= 1
  BY MaxNodesAssumption
<1>2. root \in Row /\ root.up = 0 /\ root.num = <<>>
  BY <1>1, OutlineAssumption, EmptySeq DEF NewNode, Row, Number
<1>3. node = <<root>>
  BY DEF Init
<1> HIDE DEF root
<1>4. node \in Seq(Row) /\ Len(node) = 1 /\ node[1] = root /\ DOMAIN node = {1}
  BY <1>2, <1>3
<1>5. TypeOK
  <2>1. Len(node) \in 1..MaxNodes
    BY <1>1, <1>4
  <2>2. /\ outlineState \in BOOLEAN /\ moduleNumControl \in BOOLEAN
        /\ monitor \in Users \cup {NIL}
        /\ req \in [Users -> {NoReq} \cup AddReq \cup RenameReq \cup SubmitReq]
    BY DEF Init
  <2> QED  BY <1>4, <2>1, <2>2 DEF TypeOK
<1>6. \A p \in 1..1 : Kids(p) = {}
  BY <1>2, <1>4 DEF Kids
<1>7. TreeOK
  BY <1>2, <1>4, <1>6 DEF TreeOK
<1>8. \A u \in Users : AddOK(u) /\ SubmitOK(u) /\ RenameOK(u)
  BY DEF Init, NoReq, AddOK, SubmitOK, RenameOK, At
<1> QED  BY <1>5, <1>7, <1>8 DEF Inv

LEMMA SubmitInv ==
  ASSUME Inv, NEW u \in Users, Submit(u)
  PROVE  Inv'
  BY StepInv DEF Submit, Inv, TypeOK

LEMMA StutterInv ==
  ASSUME Inv, UNCHANGED vars
  PROVE  Inv'
<1>1. TypeOK /\ TreeOK /\ node' = node /\ req' = req /\ monitor' = monitor
  BY DEF Inv, vars
<1>2. TypeOK'
  BY <1>1 DEF TypeOK, vars
<1>3. SameShape /\ Kept /\ Len(node') \in Nat
  BY <1>1, NodeSame, NodeType DEF SameShape
<1>4. TreeOK'
  BY <1>1, <1>2, <1>3, TreeSame
<1>5. \A u \in Users : AddOK(u)' /\ SubmitOK(u)' /\ RenameOK(u)'
  BY <1>1, <1>2, <1>3, AddSame, SubmitKept, RenameKept DEF Inv
<1> QED  BY <1>2, <1>4, <1>5 DEF Inv

LEMMA NextInv == Inv /\ [Next]_vars => Inv'
<1> SUFFICES ASSUME Inv, [Next]_vars PROVE Inv'
  OBVIOUS
<1>1. CASE UNCHANGED vars  BY <1>1, StutterInv
<1>2. CASE Next
  <2> PICK u \in Users :
        \/ \E p \in 1..MaxNodes, names \in Forms : AddCheck(u, p, names)
        \/ AddInsert(u)
        \/ \E n \in 1..MaxNodes, name \in Names : RenameCheck(u, n, name)
        \/ Rename(u)
        \/ \E n \in 1..MaxNodes, off \in BOOLEAN : SwitchState(u, n, off)
        \/ Submit(u)
        \/ SubmitStep(u)
    BY <1>2 DEF Next
  <2>1. CASE \E p \in 1..MaxNodes, names \in Forms : AddCheck(u, p, names)
    BY <2>1, AddCheckInv
  <2>2. CASE AddInsert(u)
    BY <2>2, AddInsertInv
  <2>3. CASE \E n \in 1..MaxNodes, name \in Names : RenameCheck(u, n, name)
    BY <2>3, RenameCheckInv
  <2>4. CASE Rename(u)
    BY <2>4, RenameInv
  <2>5. CASE \E n \in 1..MaxNodes, off \in BOOLEAN : SwitchState(u, n, off)
    BY <2>5, SwitchInv
  <2>6. CASE Submit(u)
    BY <2>6, SubmitInv
  <2>7. CASE SubmitStep(u)
    BY <2>7, SubmitStepInv
  <2> QED  BY <2>1, <2>2, <2>3, <2>4, <2>5, <2>6, <2>7
<1> QED  BY <1>1, <1>2

(* Only the request in the monitor adds nodes, and the numbers that a      *)
(* submission works out in memory are those that the rows have already.    *)
THEOREM InvAlways == Spec => []Inv
<1>1. Init => Inv
  BY InitInv
<1>2. Inv /\ [Next]_vars => Inv'
  BY NextInv
<1> QED  BY <1>1, <1>2, PTL DEF Spec

(* The rows and the requests of the outline keep their types.              *)
THEOREM OutlineTyped == Spec => []TypeOK
<1>1. Inv => TypeOK
  BY DEF Inv
<1> QED  BY <1>1, InvAlways, PTL

(* The tree decides the numbers.                                           *)
LEMMA TreeNumbers ==
  ASSUME Inv
  PROVE  NumbersMatchTree
<1>1. TypeOK /\ TreeOK /\ DOMAIN node = 1..Len(node) /\ Len(node) \in Nat
  BY NodeType DEF Inv
<1> SUFFICES ASSUME NEW i \in DOMAIN node \ {Root}
             PROVE  /\ node[i].num = Append(node[node[i].up].num, Seg(node[i].num))
                    /\ \A j \in Kids(node[i].up) \ {i} : node[j].num # node[i].num
  BY DEF NumbersMatchTree
<1>0. i \in 2..Len(node)
  BY <1>1 DEF Root
<1>2. /\ node[i].up \in 1..(i - 1) /\ node[i].up \in 1..Len(node)
      /\ node[i].num = Append(node[node[i].up].num, Seg(node[i].num))
  BY <1>0, <1>1, SMTT(30) DEF TreeOK
<1>3. ASSUME NEW j \in Kids(node[i].up) \ {i} PROVE Seg(node[j].num) # Seg(node[i].num)
  <2>1. j \in 2..Len(node) /\ node[j].up = node[i].up
    BY <1>0, <1>1, <1>2 DEF Kids, TreeOK
  <2>2. Seg(node[i].num) \in 1..i /\ Seg(node[j].num) \in 1..j
    BY <1>0, <1>1, <2>1 DEF TreeOK
  <2>3. i \in Prev(j) \/ j \in Prev(i)
    BY <1>0, <1>1, <1>3, <2>1 DEF Prev
  <2>4. Seg(node[i].num) < Seg(node[j].num) \/ Seg(node[j].num) < Seg(node[i].num)
    BY <1>0, <1>1, <2>1, <2>3 DEF TreeOK
  <2> QED  BY <2>2, <2>4, <1>0
<1> QED  BY <1>2, <1>3

(* Submissions and additions that run at the same time leave every number  *)
(* its parent's with one more level, and no sibling with the same.         *)
THEOREM NumbersAlwaysMatchTree == Spec => []NumbersMatchTree
<1>1. Inv => NumbersMatchTree
  BY TreeNumbers
<1> QED  BY <1>1, InvAlways, PTL

(* Every step finds the numbers as they were given, the submission's too:  *)
(* what it writes is what is there.                                        *)
LEMMA StepStable ==
  ASSUME Inv, [Next]_vars
  PROVE  \A i \in DOMAIN node : node'[i].num = node[i].num
<1>1. TypeOK /\ DOMAIN node = 1..Len(node)
  BY NodeType DEF Inv
<1>2. CASE node' = node
  BY <1>2
<1>3. ASSUME NEW u \in Users, AddInsert(u)
      PROVE  \A i \in DOMAIN node : node'[i].num = node[i].num
  BY <1>1, <1>3, AddInsertIs
<1>4. ASSUME NEW u \in Users, Rename(u)
      PROVE  \A i \in DOMAIN node : node'[i].num = node[i].num
  <2>1. node' = [node EXCEPT ![req[u].id].name = req[u].name]
    BY <1>4 DEF Rename
  <2>2. \A i \in 1..Len(node) : node[i] \in Row
    BY <1>1, NodeType
  <2> QED  BY <1>1, <2>1, <2>2 DEF Row
<1>5. ASSUME NEW u \in Users, NEW n \in 1..MaxNodes, NEW off \in BOOLEAN,
             SwitchState(u, n, off)
      PROVE  \A i \in DOMAIN node : node'[i].num = node[i].num
  <2>1. \A i \in 1..Len(node) : node[i] \in Row
    BY <1>1, NodeType
  <2> QED  BY <1>1, <1>5, <2>1 DEF SwitchState, Row
<1>6. ASSUME NEW u \in Users, SubmitStep(u) PROVE node' = node
  <2>1. CASE WriteNumbers(u)
    BY <2>1, WritesSame
  <2>2. CASE ~WriteNumbers(u)
    BY <1>6, <2>2 DEF SubmitStep, Wait, GoOn, PutFlag, ReadModules, NumberNext, Confirm,
                      Leave, SubmitFails
  <2> QED  BY <2>1, <2>2
<1>7. CASE UNCHANGED vars
  BY <1>2, <1>7 DEF vars
<1>8. CASE Next
  <2> PICK u \in Users :
        \/ \E p \in 1..MaxNodes, names \in Forms : AddCheck(u, p, names)
        \/ AddInsert(u)
        \/ \E n \in 1..MaxNodes, name \in Names : RenameCheck(u, n, name)
        \/ Rename(u)
        \/ \E n \in 1..MaxNodes, off \in BOOLEAN : SwitchState(u, n, off)
        \/ Submit(u)
        \/ SubmitStep(u)
    BY <1>8 DEF Next
  <2>1. CASE \E p \in 1..MaxNodes, names \in Forms : AddCheck(u, p, names)
    BY <1>2, <2>1 DEF AddCheck
  <2>2. CASE \E n \in 1..MaxNodes, name \in Names : RenameCheck(u, n, name)
    BY <1>2, <2>2 DEF RenameCheck
  <2>3. CASE \E n \in 1..MaxNodes, off \in BOOLEAN : SwitchState(u, n, off)
    BY <1>5, <2>3
  <2>4. CASE Submit(u)
    BY <1>2, <2>4 DEF Submit
  <2> QED  BY <1>2, <1>3, <1>4, <1>6, <2>1, <2>2, <2>3, <2>4
<1> QED  BY <1>7, <1>8

(* The copies of numbers that cases and bugs hold stay good, however old   *)
(* what a submission has read.                                             *)
THEOREM NumbersAlwaysStable == Spec => NumbersStable
<1>1. Inv /\ [Next]_vars => (\A i \in DOMAIN node : node'[i].num = node[i].num)
  BY StepStable
<1> QED  BY <1>1, InvAlways, PTL DEF Spec, NumbersStable

-----------------------------------------------------------------------------
(* The flag of the static map *)

(* A submission clears it on its way out, however it goes.                 *)
LEMMA FlagStep == FlagHeld /\ TypeOK /\ [Next]_vars => FlagHeld'
<1> SUFFICES ASSUME FlagHeld, TypeOK, [Next]_vars, moduleNumControl'
             PROVE  \E u \in Users : At(u, {"read", "number", "write", "leave"})'
  BY DEF FlagHeld
<1> DEFINE Held(v) == At(v, {"read", "number", "write", "leave"})
<1>1. CASE UNCHANGED vars
  BY <1>1 DEF FlagHeld, At, vars
<1>2. CASE Next
  <2>1. PICK u \in Users :
        \/ \E p \in 1..MaxNodes, names \in Forms : AddCheck(u, p, names)
        \/ AddInsert(u)
        \/ \E n \in 1..MaxNodes, name \in Names : RenameCheck(u, n, name)
        \/ Rename(u)
        \/ \E n \in 1..MaxNodes, off \in BOOLEAN : SwitchState(u, n, off)
        \/ Submit(u)
        \/ SubmitStep(u)
    BY <1>2 DEF Next
  <2>2. CASE PutFlag(u)
    <3>1. req'[u].kind = "submit" /\ req'[u].step = "read"
      BY <2>2 DEF PutFlag, Step, Serve, TypeOK
    <3> QED  BY <3>1 DEF At
  <2>3. CASE Leave(u)
    BY <2>3 DEF Leave
  <2>4. CASE ~PutFlag(u) /\ ~Leave(u)
    <3>1. moduleNumControl
      BY <2>1, <2>4 DEF AddCheck, AddInsert, RenameCheck, Rename, SwitchState, Submit, SubmitStep,
         Wait, GoOn, ReadModules, NumberNext, Confirm, WriteNumbers, SubmitFails
    <3>2. PICK v \in Users : Held(v)
      BY <3>1 DEF FlagHeld
    <3>3. CASE v # u
      <4>1. req'[v] = req[v]
        BY <2>1, <3>3 DEF AddCheck, AddInsert, RenameCheck, Rename, SwitchState, Submit,
           SubmitStep, Wait, GoOn, PutFlag, ReadModules, NumberNext, Confirm, WriteNumbers, Leave,
           SubmitFails, Step, Serve, TypeOK
      <4> QED  BY <3>2, <4>1 DEF At
    <3>4. CASE v = u
      <4>1. req[u].kind = "submit" /\ req[u].step \in {"read", "number", "write", "leave"}
        BY <3>2, <3>4 DEF At
      <4>2. CASE \E n \in 1..MaxNodes, off \in BOOLEAN : SwitchState(u, n, off)
        BY <3>2, <3>4, <4>2 DEF SwitchState, At
      <4>3. CASE ReadModules(u) \/ NumberNext(u) \/ Confirm(u) \/ WriteNumbers(u) \/ SubmitFails(u)
        <5>1. req'[u].kind = "submit" /\ req'[u].step \in {"read", "number", "write", "leave"}
          <6>1. req[u] \in SubmitReq
            BY <4>1, ReqKinds
          <6>2. \A s \in {"leave"} : Step(u, s) => req'[u].kind = "submit" /\ req'[u].step = s
            BY DEF Step, Serve, TypeOK
          <6>3. CASE ReadModules(u)
            BY <6>1, <6>3 DEF ReadModules, Serve, TypeOK, SubmitReq
          <6>4. CASE NumberNext(u)
            BY <4>1, <6>1, <6>4 DEF NumberNext, Serve, TypeOK, SubmitReq
          <6>5. CASE Confirm(u)
            <7>1. CASE outlineState
              BY <6>2, <6>5, <7>1 DEF Confirm
            <7>2. CASE ~outlineState
              BY <6>1, <6>5, <7>2 DEF Confirm, Serve, TypeOK, SubmitReq
            <7> QED  BY <7>1, <7>2
          <6>6. CASE WriteNumbers(u) \/ SubmitFails(u)
            BY <6>2, <6>6 DEF WriteNumbers, SubmitFails
          <6> QED  BY <4>3, <6>3, <6>4, <6>5, <6>6
        <5> QED  BY <5>1 DEF At
      <4> QED  BY <2>1, <2>4, <4>1, <4>2, <4>3 DEF AddCheck, AddInsert, RenameCheck, Rename,
                  Submit, SubmitStep, Wait, GoOn, Idle, At
    <3> QED  BY <3>3, <3>4
  <2> QED  BY <2>2, <2>3, <2>4
<1> QED  BY <1>1, <1>2

(* The entry of the static map does not outlive the submissions: one that  *)
(* fails removes it too, and a task can be submitted again.                *)
THEOREM FlagAlwaysHeld == Spec => []FlagHeld
<1>1. Init => FlagHeld
  BY DEF Init, FlagHeld
<1> QED  BY <1>1, FlagStep, OutlineTyped, PTL DEF Spec

-----------------------------------------------------------------------------
(* Names and states *)

(* What changes a row besides the request that adds to it.                 *)
LEMMA RowSteps ==
  ASSUME Inv, [Next]_vars
  PROVE  \/ node' = node
         \/ \E u \in Users : \/ AddInsert(u)
                             \/ Rename(u)
                             \/ \E n \in 1..MaxNodes, off \in BOOLEAN : SwitchState(u, n, off)
<1>1. CASE UNCHANGED vars
  BY <1>1 DEF vars
<1>2. CASE Next
  <2> PICK u \in Users :
        \/ \E p \in 1..MaxNodes, names \in Forms : AddCheck(u, p, names)
        \/ AddInsert(u)
        \/ \E n \in 1..MaxNodes, name \in Names : RenameCheck(u, n, name)
        \/ Rename(u)
        \/ \E n \in 1..MaxNodes, off \in BOOLEAN : SwitchState(u, n, off)
        \/ Submit(u)
        \/ SubmitStep(u)
    BY <1>2 DEF Next
  <2>1. CASE WriteNumbers(u)
    BY <2>1, WritesSame
  <2>2. CASE ~WriteNumbers(u)
    BY <2>2 DEF AddCheck, RenameCheck, Submit, SubmitStep, Wait, GoOn, PutFlag, ReadModules,
                NumberNext, Confirm, Leave, SubmitFails
  <2> QED  BY <2>1, <2>2
<1> QED  BY <1>1, <1>2

(* Only a parent without children is written back.                         *)
LEMMA AddChanges ==
  ASSUME Inv, NEW u \in Users, AddInsert(u), NEW i \in DOMAIN node,
         node'[i].name # node[i].name \/ node'[i].off # node[i].off
  PROVE  req[u].to = i /\ Kids(i) = {} /\ req'[u] = NoReq
<1> DEFINE r == req[u]
           row == WrittenBack(r.read, node[r.to])
           new == [k \in DOMAIN r.names |-> NewNode(r.to, r.names[k], Plus(r.first, k - 1))]
<1>1. TypeOK /\ TreeOK /\ r \in AddReq /\ AddOK(u) /\ r.kind = "add" /\ DOMAIN node = 1..Len(node)
  BY AddInsertIs, NodeType DEF Inv, AddInsert
<1>2. req'[u] = NoReq
  BY <1>1, ServeType DEF AddInsert
<1>3. r.to \in 1..Len(node) /\ r.read.leaf = node[r.to].leaf
  BY <1>1 DEF AddOK
<1>4. node'[i] = [node EXCEPT ![r.to] = row][i]
  <2>1. node' = [node EXCEPT ![r.to] = row] \o new
    BY DEF AddInsert
  <2> DEFINE s == [node EXCEPT ![r.to] = row]
  <2>2. row \in Row
    BY <1>1, <1>3, NodeType DEF AddReq, WrittenBack, Row
  <2> HIDE DEF row
  <2>3. s \in Seq(Row) /\ Len(s) = Len(node) /\ Len(node) \in Nat
    BY <1>1, <1>3, <2>2, ExceptSeq, NodeType DEF TypeOK
  <2>4. i \in 1..Len(s) /\ DOMAIN s = 1..Len(s) /\ node' = s \o new
    BY <1>1, <2>1, <2>3
  <2>5. DOMAIN r.names = 1..Len(r.names) /\ Len(r.names) \in Nat
    BY <1>1, LenProperties DEF AddReq
  <2>6. Len(new) = Len(r.names) /\ DOMAIN new = 1..Len(r.names)
    BY <2>5
  <2> HIDE DEF s, new
  <2> QED  BY <2>3, <2>4, <2>5, <2>6 DEF s
<1>5. i = r.to /\ row # node[i]
  BY <1>1, <1>3, <1>4
<1>6. node[i].leaf
  BY <1>3, <1>5 DEF WrittenBack
<1>7. Kids(i) = {}
  <2> SUFFICES ASSUME NEW j \in Kids(i) PROVE FALSE
    OBVIOUS
  <2>1. j \in 1..Len(node) /\ node[j].up = i /\ j # 1
    BY <1>1, <1>3, <1>5 DEF Kids, TreeOK
  <2>2. j \in 2..Len(node)
    BY <2>1
  <2> QED  BY <1>1, <1>6, <2>1, <2>2, SMTT(30) DEF TreeOK
<1> QED  BY <1>2, <1>5, <1>7

(* addNodes writes back whole rows, but no more than the name of a node    *)
(* whose first children it adds can get lost by it.                        *)
THEOREM RenamesKept == Spec => OnlyFirstChildUndoesRename
<1> DEFINE AskedOrAdded(i) ==
       \E u \in Users :
         \/ req[u] = [kind |-> "rename", id |-> i, name |-> node'[i].name] /\ req'[u] = NoReq
         \/ req[u].kind = "add" /\ req[u].to = i /\ Kids(i) = {} /\ req'[u] = NoReq
<1>1. ASSUME Inv, [Next]_vars, NEW i \in DOMAIN node, node'[i].name # node[i].name
      PROVE  AskedOrAdded(i)
  <2>1. TypeOK /\ DOMAIN node = 1..Len(node)
    BY <1>1, NodeType DEF Inv
  <2>2. PICK u \in Users : \/ AddInsert(u)
                           \/ Rename(u)
                           \/ \E n \in 1..MaxNodes, off \in BOOLEAN : SwitchState(u, n, off)
    BY <1>1, RowSteps, SMTT(30)
  <2>3. CASE AddInsert(u)
    BY <1>1, <2>3, AddChanges DEF AddInsert
  <2>4. CASE Rename(u)
    <3>1. req[u] \in RenameReq /\ req'[u] = NoReq
      BY <2>1, <2>4, ReqKinds, ServeType DEF Rename
    <3>2. node[i] \in Row
      BY <1>1, <2>1, NodeType
    <3>3. i = req[u].id /\ node'[i].name = req[u].name
      BY <1>1, <2>1, <2>4, <3>2 DEF Rename, Row
    <3>4. req[u] = [kind |-> "rename", id |-> i, name |-> node'[i].name]
      BY <3>1, <3>3 DEF RenameReq
    <3> QED  BY <3>1, <3>4
  <2>5. CASE \E n \in 1..MaxNodes, off \in BOOLEAN : SwitchState(u, n, off)
    <3>1. node[i] \in Row
      BY <1>1, <2>1, NodeType
    <3> QED  BY <1>1, <2>5, <3>1 DEF SwitchState, Row
  <2> QED  BY <2>2, <2>3, <2>4, <2>5
<1>2. Inv /\ [Next]_vars => \A i \in DOMAIN node : node'[i].name # node[i].name => AskedOrAdded(i)
  BY <1>1
<1> QED  BY <1>2, InvAlways, PTL DEF Spec, OnlyFirstChildUndoesRename

LEMMA UnderAppend ==
  ASSUME NEW s \in Seq(Nat), NEW x \in Nat, NEW top \in Seq(Nat), IsUnder(s, top)
  PROVE  IsUnder(Append(s, x), top)
<1>1. /\ Append(s, x) \in Seq(Nat) /\ Len(Append(s, x)) = Len(s) + 1
      /\ \A i \in 1..Len(s) : Append(s, x)[i] = s[i]
  BY AppendProperties
<1>2. /\ Len(top) \in Nat /\ Len(s) \in Nat /\ Len(top) <= Len(s)
      /\ SubSeq(s, 1, Len(top)) = top
  BY DEF IsUnder
<1>3. \A i \in 1..Len(top) : s[i] \in Nat /\ Append(s, x)[i] = s[i]
  BY <1>1, <1>2
<1> DEFINE t == Append(s, x)  n == Len(top)
<1>4. SubSeq(t, 1, n) = SubSeq(s, 1, n)
  <2>1. /\ SubSeq(s, 1, n) \in Seq(Nat) /\ Len(SubSeq(s, 1, n)) = n
        /\ \A i \in 1..n : SubSeq(s, 1, n)[i] = s[i]
    BY <1>2, <1>3
  <2> HIDE DEF t
  <2>2. t \in Seq(Nat) /\ Len(t) = Len(s) + 1
    BY <1>1 DEF t
  <2>3. /\ SubSeq(t, 1, n) \in Seq(Nat) /\ Len(SubSeq(t, 1, n)) = n
        /\ \A i \in 1..n : SubSeq(t, 1, n)[i] = t[i]
    BY <1>2, <2>2, SMTT(30)
  <2>4. \A i \in 1..n : SubSeq(t, 1, n)[i] = SubSeq(s, 1, n)[i]
    BY <1>3, <2>1, <2>3 DEF t
  <2> QED  BY <2>1, <2>3, <2>4, SeqEqual
<1> QED  BY <1>1, <1>2, <1>4 DEF IsUnder

(* Going by numbers, switchState reaches the children of every node that   *)
(* it switches.                                                            *)
THEOREM SwitchAlwaysReachesChildren == Spec => SwitchReachesChildren
<1>1. ASSUME Inv, [Next]_vars, NEW i \in DOMAIN node, node'[i].off # node[i].off,
             NEW j \in Kids(i)
      PROVE  node'[j].off = node'[i].off
  <2>1. TypeOK /\ TreeOK /\ DOMAIN node = 1..Len(node)
        /\ \A k \in 1..Len(node) : node[k] \in Row
    BY <1>1, NodeType DEF Inv
  <2>2. PICK u \in Users : \/ AddInsert(u)
                           \/ Rename(u)
                           \/ \E n \in 1..MaxNodes, off \in BOOLEAN : SwitchState(u, n, off)
    BY <1>1, RowSteps
  <2>3. CASE AddInsert(u)
    BY <1>1, <2>3, AddChanges
  <2>4. CASE Rename(u)
    <3>1. node'[i].off = node[i].off
      BY <1>1, <2>1, <2>4 DEF Rename, Row
    <3> QED  BY <1>1, <3>1
  <2>5. CASE \E n \in 1..MaxNodes, off \in BOOLEAN : SwitchState(u, n, off)
    <3>1. PICK n \in 1..MaxNodes, off \in BOOLEAN : SwitchState(u, n, off)
      BY <2>5
    <3>2. /\ n \in 1..Len(node)
          /\ node' = [k \in 1..Len(node) |->
                        IF IsUnder(node[k].num, node[n].num) /\ k # Root
                        THEN [node[k] EXCEPT !.off = off] ELSE node[k]]
      BY <2>1, <3>1 DEF SwitchState
    <3>3. IsUnder(node[i].num, node[n].num) /\ node'[i].off = off
      BY <1>1, <2>1, <3>2 DEF Row
    <3>4. j \in 2..Len(node) /\ node[j].up = i /\ j \in 1..Len(node)
      BY <1>1, <2>1 DEF Kids, TreeOK
    <3>5. /\ node[j].num = Append(node[i].num, Seg(node[j].num))
          /\ Seg(node[j].num) \in Nat
      BY <2>1, <3>4, SMTT(30) DEF TreeOK
    <3>6. node[i].num \in Seq(Nat) /\ node[n].num \in Seq(Nat)
      BY <1>1, <2>1, <3>2, NodeType, NumberNat
    <3>7. IsUnder(node[j].num, node[n].num)
      <4> DEFINE s == node[i].num  x == Seg(node[j].num)
      <4>1. IsUnder(s, node[n].num) /\ s \in Seq(Nat) /\ x \in Nat /\ node[j].num = Append(s, x)
        BY <3>3, <3>5, <3>6
      <4> HIDE DEF s, x
      <4> QED  BY <3>6, <4>1, UnderAppend
    <3> QED  BY <2>1, <3>2, <3>3, <3>4, <3>7 DEF Root, Row
  <2> QED  BY <2>2, <2>3, <2>4, <2>5, <1>1
<1>2. Inv /\ [Next]_vars =>
        \A i \in DOMAIN node : node'[i].off # node[i].off =>
          \A j \in Kids(i) : node'[j].off = node'[i].off
  BY <1>1
<1> QED  BY <1>2, InvAlways, PTL DEF Spec, SwitchReachesChildren
=============================================================================
