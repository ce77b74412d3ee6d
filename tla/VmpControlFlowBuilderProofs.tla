-------------------- MODULE VmpControlFlowBuilderProofs --------------------
(***************************************************************************)
(* Proofs about VmpControlFlowBuilder: for every binary, whatever the walk *)
(* finds and wherever it gives up, no edge is dropped, buildFinalFunction  *)
(* reads no missing block, and the graph, before and after MergeNodes, is  *)
(* the native code and has the targets written into virtual branches.      *)
(***************************************************************************)
EXTENDS VmpControlFlowBuilder, VmpControlFlowProofs

Places == Nat \X Nat
AllOps == Kinds \cup Ops \cup {"init", "connect"}
Items == [op : AllOps, addr : Places, to : SUBSET Nat]

\* What BinariesAssumption says, of the binary being analysed.
BinaryOK ==
  /\ isVmpEntry \subseteq DOMAIN VmStart
  /\ DOMAIN native \subseteq Nat \ {0}
  /\ \A a \in DOMAIN native : native[a].kind \in Kinds /\ native[a].target \in Nat
  /\ \A v \in DOMAIN virtual :
       /\ v \in (Nat \ {0}) \X Nat
       /\ v[2] = 0 => v[1] \notin NativePlaces(native, virtual)
       /\ virtual[v].op \in Ops /\ IsFiniteSet(virtual[v].to)
       /\ virtual[v].to \subseteq
            CASE virtual[v].op = "exit"     -> Nat
              [] virtual[v].op = "exitcall" -> DOMAIN VmStart
              [] OTHER                      -> DOMAIN virtual
  /\ \A a \in DOMAIN VmStart : VmStart[a] \in DOMAIN virtual

----------------------------------------------------------------------------
(* The graph: what MergeNodes keeps.                                       *)

ListsOK ==
  \A b \in blocksMap : /\ insList[b] \in Seq(Items) /\ insList[b] # <<>>
                       /\ insList[b][1].op # "connect"

GraphInv ==
  /\ IsFiniteSet(blocksMap) /\ EdgesMirrored
  /\ ListsOK
  /\ FlowSound /\ BranchesMatchGraph

\* What FlowSound says of one instruction.
FlowAt(item, next) ==
  item.op \in Kinds /\ IsNative(item.addr) =>
    /\ next \subseteq UNION {{Native(a), Entry(a)} : a \in NativeNext(item.addr[1])}
    /\ \A a \in NativeNext(item.addr[1]) : a \in isVmpEntry \/ Native(a) \in next

\* What BranchesMatchGraph says of one.
BranchAt(item, next) ==
  item.to # {} =>
    IF item.op \in {"jmp", "jmpconst"} THEN item.to = {n[2] : n \in next}
                                       ELSE \E n \in next : item.to = {n[1]}

LEMMA ByPosition ==
  /\ FlowSound <=>
       (phase \in {"merge", "done"} =>
          \A b \in blocksMap : \A i \in DOMAIN insList[b] :
            FlowAt(insList[b][i], GraphNext(b, i)))
  /\ BranchesMatchGraph <=>
       (phase \in {"merge", "done"} =>
          \A b \in blocksMap : \A i \in DOMAIN insList[b] :
            BranchAt(insList[b][i], GraphNext(b, i)))
BY DEF FlowSound, BranchesMatchGraph, FlowAt, BranchAt

\* The position behind i in a list, past a UserOpConnect.
Behind(list, i) ==
  IF i < Len(list) /\ list[i + 1].op = "connect" THEN i + 2 ELSE i + 1

Heads(bs) == {insList[c][1].addr : c \in bs}

LEMMA NextOf ==
  ASSUME NEW b, NEW i
  PROVE  GraphNext(b, i) = IF Behind(insList[b], i) <= Len(insList[b])
                             THEN {insList[b][Behind(insList[b], i)].addr}
                             ELSE Heads(outBlocks[b])
BY DEF GraphNext, Behind, Heads

\* An instruction of the merged graph stood somewhere in the graph before, and
\* what follows it is what followed it there.
LEMMA MergeKeepsNext ==
  ASSUME IsFiniteSet(blocksMap), EdgesMirrored, ListsOK,
         NEW b \in blocksMap, NEW father \in inBlocks[b],
         CanMerge(b, father), Merge(b, father),
         NEW c \in blocksMap', NEW i \in DOMAIN insList'[c]
  PROVE  \E d \in blocksMap : \E j \in DOMAIN insList[d] :
           insList'[c][i] = insList[d][j] /\ GraphNext(c, i)' = GraphNext(d, j)
<1> DEFINE L == insList[father]
           R == insList[b]
           LR == L \o R
<1>1. /\ father \in blocksMap /\ father # b
      /\ inBlocks[b] = {father} /\ outBlocks[father] = {b}
  BY MergedPair
<1>2. /\ blocksMap' = blocksMap \ {b}
      /\ \A a \in blocksMap \ {b} :
           /\ insList'[a] = IF a = father THEN LR ELSE insList[a]
           /\ outBlocks'[a] = IF a = father THEN outBlocks[b] ELSE outBlocks[a]
  BY DEF Merge, blocksMap
<1>3. /\ L \in Seq(Items) /\ L # <<>> /\ R \in Seq(Items) /\ R # <<>>
      /\ R[1].op # "connect"
  BY <1>1 DEF ListsOK
<1>4. /\ Len(L) \in Nat \ {0} /\ Len(R) \in Nat \ {0}
      /\ LR \in Seq(Items) /\ Len(LR) = Len(L) + Len(R) /\ LR[1] = L[1]
      /\ \A k \in 1..Len(L) : LR[k] = L[k]
      /\ \A k \in 1..Len(R) : LR[Len(L) + k] = R[k]
  <2> HIDE DEF L, R
  <2> QED
    BY <1>3, Concat
<1>5. \A a \in blocksMap \ {b} : insList'[a][1] = insList[a][1]
  BY <1>2, <1>4
<1>6. \A a \in blocksMap \ {father} : outBlocks[a] \subseteq blocksMap \ {b}
  BY <1>1 DEF EdgesMirrored
<1>7. ASSUME NEW a \in blocksMap \ {father}
      PROVE  Heads(outBlocks[a])' = {insList'[x][1].addr : x \in outBlocks'[a]}
             /\ {insList'[x][1].addr : x \in outBlocks[a]} = Heads(outBlocks[a])
  BY <1>5, <1>6 DEF Heads
<1>8. GraphNext(c, i)' = IF Behind(insList'[c], i) <= Len(insList'[c])
                           THEN {insList'[c][Behind(insList'[c], i)].addr}
                           ELSE {insList'[x][1].addr : x \in outBlocks'[c]}
  BY DEF GraphNext, Behind
<1>9. c \in blocksMap \ {b}
  BY <1>2
<1>13. i \in Nat \ {0} /\ i \in 1..Len(insList'[c]) /\ Len(L) \in Nat
  <2>1. insList'[c] \in Seq(Items)
    BY <1>2, <1>4, <1>9 DEF ListsOK
  <2> QED
    BY <2>1, <1>4
<1>10. CASE c # father
  <2>1. insList'[c] = insList[c] /\ outBlocks'[c] = outBlocks[c]
    BY <1>2, <1>9, <1>10
  <2>2. {insList'[x][1].addr : x \in outBlocks[c]} = Heads(outBlocks[c])
    BY <1>7, <1>9, <1>10
  <2>3. GraphNext(c, i)' = GraphNext(c, i)
    BY <2>1, <2>2, <1>8, NextOf
  <2> QED
    BY <2>1, <2>3, <1>9
<1>11. CASE c = father /\ i <= Len(L)
  <2>1. insList'[c] = LR /\ i \in 1..Len(L)
    <3>1. insList'[c] = LR
      BY <1>2, <1>9, <1>11
    <3> HIDE DEF L, R, LR
    <3> QED
      BY <3>1, <1>4, <1>11, <1>13
  <2>2. LR[i] = L[i] /\ Behind(LR, i) = Behind(L, i)
    <3>1. CASE i < Len(L)
      <4> HIDE DEF L, R, LR
      <4>1. LR[i + 1] = L[i + 1] /\ i < Len(LR)
        BY <3>1, <2>1, <1>4
      <4> QED
        BY <4>1, <3>1, <2>1, <1>4 DEF Behind
    <3>2. CASE i = Len(L)
      <4> HIDE DEF L, R, LR
      <4>1. LR[i + 1] = R[1]
        BY <3>2, <1>4
      <4> QED
        BY <4>1, <3>2, <2>1, <1>3, <1>4 DEF Behind
    <3> QED
      BY <3>1, <3>2, <2>1
  <2>3. Behind(L, i) \in 1..(Len(L) + 1)
    <3> HIDE DEF L, R, LR
    <3> QED
      BY <2>1, <1>4 DEF Behind
  <2>4. GraphNext(c, i)' = GraphNext(father, i)
    <3>1. CASE Behind(L, i) <= Len(L)
      <4>1. /\ Behind(LR, i) <= Len(LR) /\ LR[Behind(LR, i)] = L[Behind(L, i)]
        <5> HIDE DEF L, R, LR
        <5> QED
          BY <3>1, <2>2, <2>3, <1>4
      <4> QED
        BY <4>1, <3>1, <2>1, <1>8, NextOf
    <3>2. CASE Behind(L, i) = Len(L) + 1
      <4>1. Behind(LR, i) <= Len(LR) /\ LR[Behind(LR, i)] = R[1]
        <5> HIDE DEF L, R, LR
        <5> QED
          BY <3>2, <2>2, <1>4
      <4>2. GraphNext(c, i)' = {R[1].addr}
        BY <4>1, <2>1, <1>8
      <4>3. ~ (Behind(L, i) <= Len(L))
        <5> HIDE DEF L, R, LR
        <5> QED
          BY <3>2, <1>4
      <4>4. GraphNext(father, i) = {R[1].addr}
        BY <4>3, <1>1, NextOf DEF Heads
      <4> QED
        BY <4>2, <4>4
    <3> QED
      <4> HIDE DEF L, R, LR
      <4> QED
        BY <3>1, <3>2, <2>3, <1>4
  <2> QED
    BY <2>1, <2>2, <2>4, <1>1, <1>3
<1>12. CASE c = father /\ i > Len(L)
  <2> DEFINE j == i - Len(L)
  <2>1. insList'[c] = LR /\ outBlocks'[c] = outBlocks[b]
    BY <1>2, <1>9, <1>12
  <2>2. j \in 1..Len(R) /\ i = Len(L) + j
    <3>1. i \in 1..Len(LR)
      BY <2>1, <1>13
    <3> HIDE DEF L, R, LR
    <3> QED
      BY <3>1, <1>4, <1>12
  <2> HIDE DEF j
  <2>3. LR[i] = R[j] /\ Behind(LR, i) = Len(L) + Behind(R, j)
    <3>1. j < Len(R) => LR[i + 1] = R[j + 1] /\ i + 1 = Len(L) + (j + 1)
      <4> HIDE DEF L, R, LR
      <4> QED
        BY <2>2, <1>4
    <3> HIDE DEF L, R, LR
    <3> QED
      BY <3>1, <2>2, <1>4 DEF Behind
  <2>4. Behind(R, j) \in 1..(Len(R) + 1)
    <3> HIDE DEF L, R, LR
    <3> QED
      BY <2>2, <1>4 DEF Behind
  <2>5. {insList'[x][1].addr : x \in outBlocks[b]} = Heads(outBlocks[b])
    BY <1>1, <1>7
  <2>6. GraphNext(c, i)' = GraphNext(b, j)
    <3>1. CASE Behind(R, j) <= Len(R)
      <4>1. Behind(LR, i) <= Len(LR) /\ LR[Behind(LR, i)] = R[Behind(R, j)]
        <5> HIDE DEF L, R, LR
        <5> QED
          BY <3>1, <2>3, <2>4, <1>4
      <4> QED
        BY <4>1, <3>1, <2>1, <1>8, NextOf
    <3>2. CASE ~ (Behind(R, j) <= Len(R))
      <4>1. ~ (Behind(LR, i) <= Len(LR))
        <5> HIDE DEF L, R, LR
        <5> QED
          BY <3>2, <2>3, <2>4, <1>4
      <4> QED
        BY <4>1, <3>2, <2>1, <2>5, <1>8, NextOf
    <3> QED
      BY <3>1, <3>2
  <2> QED
    BY <2>2, <2>3, <2>6, <2>1, <1>3
<1> QED
  BY <1>10, <1>11, <1>12, <1>13

LEMMA MergeKeepsGraph ==
  ASSUME GraphInv, phase \in {"merge", "done"}, UNCHANGED binary,
         NEW b \in blocksMap, NEW father \in inBlocks[b],
         CanMerge(b, father), Merge(b, father)
  PROVE  GraphInv'
<1> USE DEF GraphInv
<1>1. father \in blocksMap /\ father # b
  BY MergedPair
<1>2. blocksMap' = blocksMap \ {b}
  BY DEF Merge, blocksMap
<1>3. IsFiniteSet(blocksMap')
  BY <1>2, FS_Subset
<1>4. EdgesMirrored'
  BY MergeMirrored
<1>5. ListsOK'
  <2>1. ASSUME NEW c \in blocksMap'
        PROVE  insList'[c] \in Seq(Items) /\ insList'[c] # <<>> /\ insList'[c][1].op # "connect"
    <3>1. CASE c = father
      <4>1. insList'[c] = insList[father] \o insList[b]
        BY <1>2, <3>1, <2>1 DEF Merge
      <4>2. /\ insList[father] \in Seq(Items) /\ insList[father] # <<>>
            /\ insList[b] \in Seq(Items) /\ insList[b] # <<>>
            /\ insList[father][1].op # "connect"
        BY <1>1 DEF ListsOK
      <4> DEFINE L == insList[father]
                 R == insList[b]
      <4>3. L \o R \in Seq(Items) /\ L \o R # <<>> /\ (L \o R)[1] = L[1]
        <5> HIDE DEF L, R
        <5>1. L \in Seq(Items) /\ L # <<>> /\ R \in Seq(Items) /\ R # <<>>
          BY <4>2 DEF L, R
        <5> QED
          BY <5>1, Concat
      <4> QED
        BY <4>1, <4>2, <4>3
    <3>2. CASE c # father
      <4>1. insList'[c] = insList[c] /\ c \in blocksMap
        BY <1>2, <3>2, <2>1 DEF Merge
      <4> QED
        BY <4>1 DEF ListsOK
    <3> QED
      BY <3>1, <3>2
  <2> QED
    BY <2>1 DEF ListsOK
<1>6. ASSUME NEW c \in blocksMap', NEW i \in DOMAIN insList'[c]
      PROVE  /\ FlowAt(insList[c][i], GraphNext(c, i))'
             /\ BranchAt(insList'[c][i], GraphNext(c, i)')
  <2>1. PICK d \in blocksMap : \E j \in DOMAIN insList[d] :
          insList'[c][i] = insList[d][j] /\ GraphNext(c, i)' = GraphNext(d, j)
    BY MergeKeepsNext
  <2>2. PICK j \in DOMAIN insList[d] :
          insList'[c][i] = insList[d][j] /\ GraphNext(c, i)' = GraphNext(d, j)
    BY <2>1
  <2>3. FlowAt(insList[d][j], GraphNext(d, j)) /\ BranchAt(insList[d][j], GraphNext(d, j))
    BY ByPosition
  <2> HIDE DEF GraphInv
  <2> QED
    BY <2>2, <2>3 DEF FlowAt, BranchAt, NativeNext, IsNative, binary
<1>7. FlowSound' /\ BranchesMatchGraph'
  <2>1. FlowSound'
    BY <1>6 DEF FlowSound, FlowAt
  <2>2. BranchesMatchGraph'
    BY <1>6 DEF BranchesMatchGraph, BranchAt
  <2> QED
    BY <2>1, <2>2
<1> QED
  BY <1>3, <1>4, <1>5, <1>7

LEMMA SameGraph ==
  ASSUME GraphInv, phase \in {"merge", "done"}, phase' \in {"merge", "done"},
         UNCHANGED <<insList, inBlocks, outBlocks, binary>>
  PROVE  GraphInv'
<1>1. blocksMap' = blocksMap
  BY DEF blocksMap
<1>2. IsFiniteSet(blocksMap') /\ EdgesMirrored' /\ ListsOK'
  BY <1>1 DEF GraphInv, ListsOK, EdgesMirrored
<1>3. ASSUME NEW b \in blocksMap, NEW i \in DOMAIN insList[b]
      PROVE  /\ FlowAt(insList[b][i], GraphNext(b, i))'
             /\ BranchAt(insList[b][i], GraphNext(b, i))'
  <2>1. FlowAt(insList[b][i], GraphNext(b, i)) /\ BranchAt(insList[b][i], GraphNext(b, i))
    BY ByPosition DEF GraphInv
  <2>2. GraphNext(b, i)' = GraphNext(b, i)
    BY DEF GraphNext
  <2> QED
    BY <2>1, <2>2 DEF FlowAt, BranchAt, NativeNext, IsNative, binary
<1>4. FlowSound' /\ BranchesMatchGraph'
  <2>1. FlowSound'
    BY <1>1, <1>3 DEF FlowSound, FlowAt
  <2>2. BranchesMatchGraph'
    BY <1>1, <1>3 DEF BranchesMatchGraph, BranchAt
  <2> QED
    BY <2>1, <2>2
<1> QED
  BY <1>2, <1>4 DEF GraphInv

----------------------------------------------------------------------------
(* The build: what holds between two steps of BuildCFG.                    *)

\* Who pushed a task: native code that ran into a marked entry, or a virtual
\* instruction.
OriginOK(t) ==
  CASE t.btype = "normal" -> t.from = Zero
    [] t.btype = "entry" ->
         \/ t.from = Zero \/ ~ IsNative(t.from)
         \/ /\ IsNative(t.from) /\ t.from[1] \in DOMAIN native
            /\ t.start[1] \in NativeNext(t.from[1])
            /\ t.start[1] \in isVmpEntry
    [] OTHER -> ~ IsNative(t.from)

Tasks ==
  {t \in [btype : {"normal", "entry", "jmp"}, start : Places, from : Places] :
     /\ CASE t.btype = "normal" -> IsNative(t.start)
          [] t.btype = "entry"  -> t.start[2] = 0 /\ t.start[1] \in DOMAIN VmStart
          [] OTHER              -> t.start \in DOMAIN virtual
     /\ OriginOK(t)}

QueueOK ==
  /\ anaQueue \in Seq(Tasks)
  /\ task \in Tasks \cup {NoTask}

\* Where the task is: native code is followed in place, behind what the block
\* has, and a block is begun where none is.
FreshStart(v) == task.btype = "normal" /\ curBlock = NoBlock /\ v = curAddr

WalkOK ==
  /\ task.btype \in {"none", "entry"} => curBlock = NoBlock
  /\ task.btype = "normal" =>
       /\ curAddr \in Places /\ IsNative(curAddr)
       /\ curBlock = NoBlock => curAddr \in visited /\ curAddr \notin blocksMap
       /\ curBlock # NoBlock =>
            /\ curBlock \in blocksMap /\ IsNative(curBlock)
            /\ curAddr[1] = curBlock[1] + Len(insList[curBlock])
            /\ LastOf(curBlock).op = "normal"
  /\ task.btype = "jmp" =>
       /\ curAddr \in DOMAIN virtual
       /\ curBlock # NoBlock => curBlock \in blocksMap /\ ~ IsNative(curBlock)

\* A native block is the code from its address on, and how it ends.
CodeOf(b) ==
  \A i \in 1..Len(insList[b]) :
    /\ b[1] + i - 1 \in DOMAIN native
    /\ insList[b][i] = Item(native[b[1] + i - 1].kind, Native(b[1] + i - 1))
    /\ i < Len(insList[b]) => insList[b][i].op = "normal"

EndOf(b) ==
  /\ LastOf(b).op = "normal" =>
       \/ b[1] + Len(insList[b]) \in isVmpEntry
       \/ task.btype = "normal" /\ curBlock = b
  /\ LastOf(b).op \in {"jmp", "jcc"} =>
       \A a \in NativeNext(LastOf(b).addr[1]) :
         <<LastOf(b).addr, Native(a)>> \in fromEdges
  /\ LastOf(b).op # "bad"

BlockOK(b) ==
  /\ b \in Places
  /\ insList[b] # <<>> /\ insList[b][1].addr = b
  /\ \A i \in 1..Len(insList[b]) :
       insList[b][i].to = {} /\ insList[b][i].op # "connect"
  /\ b \in vmInsBlocks <=> ~ IsNative(b)
  /\ IsNative(b) => CodeOf(b) /\ EndOf(b)
  /\ ~ IsNative(b) => \A i \in 1..Len(insList[b]) : ~ IsNative(insList[b][i].addr)

BlocksOK ==
  /\ IsFiniteSet(blocksMap)
  /\ blocksMap \subseteq visited /\ vmInsBlocks \subseteq blocksMap
  /\ insList \in [blocksMap -> Seq(Items)]
  /\ \A b \in blocksMap : BlockOK(b)

\* A visited address has a block, or gets it in the running task, or is an
\* entry that got a task for its VM_INIT instead.
VisitedOK ==
  \A v \in visited :
    \/ v \in blocksMap
    \/ v[1] \in isVmpEntry /\ IsNative(v)
    \/ FreshStart(v)

\* A place an edge leads to has a block, or is an entry, or a task is there or
\* is queued for it.
Queued(v) ==
  \E i \in 1..Len(anaQueue) : anaQueue[i].btype = "normal" /\ anaQueue[i].start = v

Awaited(v) == v \in blocksMap \/ v[1] \in isVmpEntry \/ FreshStart(v) \/ Queued(v)

EdgeOK(e) ==
  /\ Awaited(e[2])
  /\ IsNative(e[1]) =>
       /\ e[1][1] \in DOMAIN native
       /\ \E a \in NativeNext(e[1][1]) :
            \/ e[2] = Native(a) /\ native[e[1][1]].kind \in {"jmp", "jcc"}
            \/ e[2] = Entry(a) /\ e[2] \in blocksMap

EdgesOK == \A e \in fromEdges : EdgeOK(e)

BuildInv == QueueOK /\ WalkOK /\ BlocksOK /\ VisitedOK /\ EdgesOK

\* The inductive invariant of BuildSpec.
BInv ==
  /\ BinaryOK
  /\ phase \in {"build", "merge", "done", "throw", "hang"}
  /\ phase = "build" => BuildInv
  /\ phase \in {"merge", "done"} => GraphInv

LEMMA BinaryKept ==
  ASSUME UNCHANGED binary
  PROVE  /\ BinaryOK' <=> BinaryOK
         /\ Tasks' = Tasks
         /\ \A a : NativeNext(a)' = NativeNext(a)
         /\ \A v : IsNative(v)' <=> IsNative(v)
<1>1. native' = native /\ virtual' = virtual /\ isVmpEntry' = isVmpEntry
  BY DEF binary
<1>2. \A a : NativeNext(a)' = NativeNext(a)
  BY <1>1 DEF NativeNext
<1>3. \A v : IsNative(v)' <=> IsNative(v)
  BY <1>1 DEF IsNative
<1>4. \A t : OriginOK(t)' <=> OriginOK(t)
  BY <1>1, <1>2, <1>3 DEF OriginOK
<1>5. Tasks' = Tasks
  BY <1>1, <1>3, <1>4 DEF Tasks
<1> QED
  BY <1>1, <1>2, <1>3, <1>5 DEF BinaryOK, NativePlaces

\* Where native code starts, leads or is returned to, and what is none.
LEMMA NativeShape ==
  ASSUME BinaryOK
  PROVE  /\ \A a \in NativePlaces(native, virtual) : IsNative(Native(a))
         /\ \A a \in DOMAIN native : \A n \in NativeNext(a) \cup {a, a + 1} :
              n \in NativePlaces(native, virtual)
         /\ \A v \in DOMAIN virtual : ~ IsNative(v)
         /\ \A a \in Nat \ {0} : ~ IsNative(Entry(a))
         /\ IsNative(Zero)
<1>1. ASSUME NEW a \in NativePlaces(native, virtual)
      PROVE  IsNative(Native(a))
  BY <1>1 DEF BinaryOK, IsNative, Native
<1>2. ASSUME NEW a \in DOMAIN native, NEW n \in NativeNext(a) \cup {a, a + 1}
      PROVE  n \in NativePlaces(native, virtual)
  BY <1>2 DEF NativePlaces, NativeNext
<1>3. ASSUME NEW a \in Nat \ {0}
      PROVE  ~ IsNative(Entry(a))
  BY DEF IsNative, Entry
<1>4. IsNative(Zero)
  BY DEF BinaryOK, IsNative, Zero
<1>5. \A v \in DOMAIN virtual : ~ IsNative(v)
  BY DEF IsNative
<1> QED
  BY <1>1, <1>2, <1>3, <1>4, <1>5

LEMMA InitBInv == BuildInit => BInv
<1> SUFFICES ASSUME BuildInit PROVE BInv
  OBVIOUS
<1>1. PICK b \in Binaries : native = b.native /\ virtual = b.virtual /\ isVmpEntry = b.marks
  BY DEF BuildInit
<1>2. BinaryOK
  BY <1>1, BinariesAssumption DEF BinaryOK
<1>3. blocksMap = {} /\ insList = <<>> /\ visited = {} /\ fromEdges = {} /\ vmInsBlocks = {}
  BY DEF BuildInit, blocksMap
<1>4. QueueOK
  <2>1. Start \in NativePlaces(native, virtual)
    BY DEF NativePlaces
  <2>2. IsNative(Native(Start))
    BY <1>2, <2>1, NativeShape
  <2>3. NormalTask(Start) \in Tasks
    BY <2>2, BinariesAssumption DEF NormalTask, Tasks, OriginOK, Places, Native, Zero
  <2> QED
    BY <2>3 DEF BuildInit, QueueOK
<1>5. WalkOK
  BY DEF BuildInit, WalkOK, NoTask
<1>6. BlocksOK
  BY <1>3, FS_EmptySet DEF BlocksOK
<1>7. VisitedOK /\ EdgesOK
  BY <1>3 DEF VisitedOK, EdgesOK
<1> QED
  BY <1>2, <1>4, <1>5, <1>6, <1>7 DEF BInv, BuildInv, BuildInit

----------------------------------------------------------------------------
(* What the steps have in common.                                          *)

LEMMA TailOf ==
  ASSUME NEW S, NEW s \in Seq(S), s # <<>>
  PROVE  /\ Head(s) = s[1] /\ s[1] \in S
         /\ Tail(s) \in Seq(S) /\ Len(Tail(s)) = Len(s) - 1
         /\ \A i \in 1..Len(Tail(s)) : Tail(s)[i] = s[i + 1]
OBVIOUS

LEMMA ConcatAny ==
  ASSUME NEW S, NEW s \in Seq(S), NEW t \in Seq(S)
  PROVE  /\ s \o t \in Seq(S) /\ Len(s \o t) = Len(s) + Len(t)
         /\ \A i \in 1..Len(s) : (s \o t)[i] = s[i]
         /\ \A i \in 1..Len(t) : (s \o t)[Len(s) + i] = t[i]
OBVIOUS

LEMMA QueueGrows ==
  ASSUME anaQueue \in Seq(Tasks), NEW s \in Seq(Tasks), anaQueue' = anaQueue \o s
  PROVE  /\ anaQueue' \in Seq(Tasks)
         /\ \A v : Queued(v) => Queued(v)'
         /\ \A i \in 1..Len(s) : s[i].btype = "normal" => Queued(s[i].start)'
<1> DEFINE q == anaQueue
<1>1. /\ q \o s \in Seq(Tasks) /\ Len(q \o s) = Len(q) + Len(s)
      /\ \A i \in 1..Len(q) : (q \o s)[i] = q[i]
      /\ \A i \in 1..Len(s) : (q \o s)[Len(q) + i] = s[i]
      /\ Len(q) \in Nat /\ Len(s) \in Nat
  <2> HIDE DEF q
  <2>1. q \in Seq(Tasks)
    BY DEF q
  <2> QED
    BY <2>1, ConcatAny
<1>2. ASSUME NEW v, Queued(v) PROVE Queued(v)'
  <2>1. PICK i \in 1..Len(q) : q[i].btype = "normal" /\ q[i].start = v
    BY <1>2 DEF Queued
  <2>2. i \in 1..Len(q \o s) /\ (q \o s)[i] = q[i]
    <3> HIDE DEF q
    <3> QED
      BY <1>1
  <2> QED
    BY <2>1, <2>2 DEF Queued
<1>3. ASSUME NEW i \in 1..Len(s), s[i].btype = "normal" PROVE Queued(s[i].start)'
  <2>1. Len(q) + i \in 1..Len(q \o s) /\ (q \o s)[Len(q) + i] = s[i]
    <3> HIDE DEF q
    <3> QED
      BY <1>1
  <2> QED
    BY <2>1, <1>3 DEF Queued
<1> QED
  BY <1>1, <1>2, <1>3

LEMMA Added ==
  ASSUME insList \in [blocksMap -> Seq(Items)], IsFiniteSet(blocksMap),
         NEW b, NEW items \in Seq(Items), NEW isVm, AddInstructions(b, items, isVm)
  PROVE  /\ blocksMap' = blocksMap \cup {b} /\ IsFiniteSet(blocksMap')
         /\ insList' \in [blocksMap' -> Seq(Items)]
         /\ \A c \in blocksMap \ {b} : insList'[c] = insList[c]
         /\ insList'[b] = (IF b \in blocksMap THEN insList[b] ELSE <<>>) \o items
         /\ vmInsBlocks' = IF isVm THEN vmInsBlocks \cup {b} ELSE vmInsBlocks
<1> DEFINE old == IF b \in blocksMap THEN insList[b] ELSE <<>>
           new == blocksMap \cup {b}
<1>1. insList' = [c \in new |-> IF c = b THEN old \o items ELSE insList[c]]
  BY DEF AddInstructions
<1>2. blocksMap' = new
  BY <1>1 DEF blocksMap
<1>3. IsFiniteSet(new)
  BY FS_AddElement
<1>4. old \in Seq(Items)
  OBVIOUS
<1>5. old \o items \in Seq(Items)
  <2> HIDE DEF old
  <2> QED
    BY <1>4, ConcatAny
<1>6. \A c \in new : insList'[c] \in Seq(Items)
  <2> SUFFICES ASSUME NEW c \in new PROVE insList'[c] \in Seq(Items)
    OBVIOUS
  <2>1. CASE c = b
    BY <2>1, <1>1, <1>5
  <2>2. CASE c # b
    BY <2>2, <1>1
  <2> QED
    BY <2>1, <2>2
<1>7. \A c \in blocksMap \ {b} : insList'[c] = insList[c]
  BY <1>1
<1>8. insList'[b] = old \o items
  BY <1>1
<1>9. vmInsBlocks' = IF isVm THEN vmInsBlocks \cup {b} ELSE vmInsBlocks
  BY DEF AddInstructions
<1>10. insList' \in [new -> Seq(Items)]
  <2> HIDE DEF old, new
  <2> QED
    BY <1>1, <1>6
<1> QED
  BY <1>2, <1>3, <1>7, <1>8, <1>9, <1>10

LEMMA NoZeroBlock ==
  ASSUME BinaryOK, BlocksOK
  PROVE  NoBlock \notin blocksMap
<1> SUFFICES ASSUME NoBlock \in blocksMap PROVE FALSE
  OBVIOUS
<1>1. BlockOK(NoBlock) /\ insList[NoBlock] \in Seq(Items)
  BY DEF BlocksOK
<1>2. CodeOf(NoBlock) /\ 1 \in 1..Len(insList[NoBlock])
  BY <1>1, NativeShape DEF BlockOK, NoBlock, Zero
<1>3. 0 \in DOMAIN native
  BY <1>2 DEF CodeOf, NoBlock, Zero
<1> QED
  BY <1>3 DEF BinaryOK

\* A block no instruction is added to stays right, unless native code was
\* being added to it: then it has to end at an entry.
LEMMA BlockKept ==
  ASSUME UNCHANGED binary, NEW b, BlockOK(b), insList'[b] = insList[b],
         b \in vmInsBlocks' <=> b \in vmInsBlocks, fromEdges \subseteq fromEdges',
         task.btype = "normal" /\ curBlock = b =>
           \/ b[1] + Len(insList[b]) \in isVmpEntry
           \/ task'.btype = "normal" /\ curBlock' = b
  PROVE  BlockOK(b)'
<1>1. native' = native /\ isVmpEntry' = isVmpEntry
  BY DEF binary
<1>2. LastOf(b)' = LastOf(b)
  BY DEF LastOf
<1>3. CodeOf(b) => CodeOf(b)'
  BY <1>1 DEF CodeOf
<1>4. EndOf(b) => EndOf(b)'
  <2> SUFFICES ASSUME EndOf(b) PROVE EndOf(b)'
    OBVIOUS
  <2>1. \A a : NativeNext(a)' = NativeNext(a)
    BY BinaryKept
  <2>2. PICK k : k = LastOf(b).addr[1]
    OBVIOUS
  <2>3. NativeNext(LastOf(b).addr[1])' = NativeNext(k)
    BY <1>1, <1>2, <2>2 DEF NativeNext
  <2>4. LastOf(b).op = "normal" =>
          \/ b[1] + Len(insList'[b]) \in isVmpEntry'
          \/ task'.btype = "normal" /\ curBlock' = b
    BY <1>1 DEF EndOf
  <2>5. LastOf(b).op \in {"jmp", "jcc"} =>
          \A a \in NativeNext(k) : <<LastOf(b).addr, Native(a)>> \in fromEdges'
    BY <2>2 DEF EndOf
  <2> QED
    BY <1>2, <2>3, <2>4, <2>5 DEF EndOf, Native
<1>5. \A v : IsNative(v)' <=> IsNative(v)
  BY BinaryKept
<1> QED
  BY <1>3, <1>4, <1>5 DEF BlockOK

LEMMA EdgesKept ==
  ASSUME UNCHANGED binary, EdgesOK, blocksMap \subseteq blocksMap',
         \A e \in fromEdges : Awaited(e[2])'
  PROVE  \A e \in fromEdges : EdgeOK(e)'
<1>1. native' = native
  BY DEF binary
<1>2. /\ \A a : NativeNext(a)' = NativeNext(a)
      /\ \A v : IsNative(v)' <=> IsNative(v)
  BY BinaryKept
<1>3. ASSUME NEW e \in fromEdges, IsNative(e[1])
      PROVE  /\ e[1][1] \in DOMAIN native'
             /\ \E a \in NativeNext(e[1][1])' :
                  \/ e[2] = Native(a) /\ native'[e[1][1]].kind \in {"jmp", "jcc"}
                  \/ e[2] = Entry(a) /\ e[2] \in blocksMap'
  BY <1>1, <1>2, <1>3 DEF EdgesOK, EdgeOK
<1> QED
  BY <1>2, <1>3 DEF EdgeOK, Native, Entry

----------------------------------------------------------------------------
(* One lemma per action of BuildCFG.                                       *)

LEMMA TaskShape ==
  ASSUME NEW t \in Tasks
  PROVE  /\ t.btype \in {"normal", "entry", "jmp"}
         /\ t.start \in Places /\ t.from \in Places
         /\ t.btype = "normal" => IsNative(t.start)
         /\ t.btype = "entry" => t.start[2] = 0 /\ t.start[1] \in DOMAIN VmStart
         /\ t.btype = "jmp" => t.start \in DOMAIN virtual
         /\ OriginOK(t)
BY DEF Tasks

LEMMA TakeTaskKeeps ==
  ASSUME BinaryOK, BuildInv, TakeTask
  PROVE  BuildInv'
<1> USE DEF BuildInv
<1>0. PICK t : t = anaQueue[1]
  OBVIOUS
<1> DEFINE again == t.btype = "normal" /\ t.start \in visited
<1>1. /\ anaQueue \in Seq(Tasks) /\ anaQueue # <<>> /\ task = NoTask
      /\ UNCHANGED <<insList, binary, curBlock, fromEdges, vmInsBlocks>>
  BY DEF TakeTask, Idle, QueueOK, vars, blockVars
<1>2. /\ Head(anaQueue) = t /\ t \in Tasks /\ anaQueue' \in Seq(Tasks)
      /\ Len(anaQueue') = Len(anaQueue) - 1 /\ Len(anaQueue) \in Nat
      /\ \A i \in 1..Len(anaQueue') : anaQueue'[i] = anaQueue[i + 1]
  BY <1>0, <1>1, TailOf DEF TakeTask
<1>3. /\ task' = IF again THEN NoTask ELSE t
      /\ curAddr' = IF again THEN Zero ELSE t.start
      /\ visited' = IF t.btype = "normal" THEN visited \cup {t.start} ELSE visited
  BY <1>2 DEF TakeTask
<1>4. blocksMap' = blocksMap /\ curBlock' = NoBlock /\ task.btype = "none"
  BY <1>1 DEF blocksMap, WalkOK, NoTask
<1>5. /\ t.btype \in {"normal", "entry", "jmp"} /\ t.start \in Places
      /\ t.btype = "normal" => IsNative(t.start)
      /\ t.btype = "jmp" => t.start \in DOMAIN virtual
  BY <1>2, TaskShape
<1>6. \A v : ~ FreshStart(v)
  BY <1>4 DEF FreshStart
<1>7. QueueOK'
  <2>1. Tasks' = Tasks
    BY <1>1, BinaryKept
  <2> QED
    BY <2>1, <1>2, <1>3 DEF QueueOK
<1>8. WalkOK'
  <2>1. t.btype = "normal" /\ ~ again =>
          /\ t.start \notin blocksMap /\ t.start \in visited'
    BY <1>3 DEF BlocksOK
  <2>2. virtual' = virtual /\ \A v : IsNative(v)' <=> IsNative(v)
    BY <1>1, BinaryKept DEF binary
  <2>3. task'.btype = "normal" => ~ again /\ t.btype = "normal"
    BY <1>3 DEF NoTask
  <2>4. task'.btype = "jmp" => ~ again /\ t.btype = "jmp"
    BY <1>3 DEF NoTask
  <2> HIDE DEF again
  <2> QED
    BY <2>1, <2>2, <2>3, <2>4, <1>3, <1>4, <1>5 DEF WalkOK
<1>9. BlocksOK'
  <2>1. \A b \in blocksMap : BlockOK(b)'
    <3> SUFFICES ASSUME NEW b \in blocksMap PROVE BlockOK(b)'
      OBVIOUS
    <3>1. BlockOK(b)
      BY DEF BlocksOK
    <3> QED
      BY <3>1, <1>1, <1>4, BlockKept
  <2>2. visited \subseteq visited'
    BY <1>3
  <2> QED
    BY <2>1, <2>2, <1>1, <1>4 DEF BlocksOK
<1>10. \A v : v = t.start /\ t.btype = "normal" /\ ~ again => FreshStart(v)'
  BY <1>3, <1>4 DEF FreshStart
<1>11. isVmpEntry' = isVmpEntry /\ \A v : IsNative(v)' <=> IsNative(v)
  BY <1>1, BinaryKept DEF binary
<1>12. VisitedOK'
  BY <1>3, <1>4, <1>6, <1>10, <1>11 DEF VisitedOK
<1>13. EdgesOK'
  <2>1. ASSUME NEW e \in fromEdges PROVE Awaited(e[2])'
    <3>1. Awaited(e[2])
      BY DEF EdgesOK, EdgeOK
    <3>2. CASE e[2] \in blocksMap \/ e[2][1] \in isVmpEntry
      BY <3>2, <1>4, <1>11 DEF Awaited
    <3>3. CASE Queued(e[2])
      <4>1. PICK i \in 1..Len(anaQueue) :
              anaQueue[i].btype = "normal" /\ anaQueue[i].start = e[2]
        BY <3>3 DEF Queued
      <4>2. CASE i = 1
        <5>1. t.btype = "normal" /\ t.start = e[2]
          BY <1>0, <4>1, <4>2
        <5>2. again => e[2] \in blocksMap \/ e[2][1] \in isVmpEntry
          BY <5>1, <1>6 DEF VisitedOK
        <5> QED
          BY <5>1, <5>2, <1>4, <1>10, <1>11 DEF Awaited
      <4>3. CASE i # 1
        <5>1. i - 1 \in 1..Len(anaQueue') /\ anaQueue'[i - 1] = anaQueue[i]
          BY <4>3, <1>2
        <5> QED
          BY <5>1, <4>1 DEF Awaited, Queued
      <4> QED
        BY <4>2, <4>3
    <3> QED
      BY <3>1, <3>2, <3>3, <1>6 DEF Awaited
  <2>2. \A e \in fromEdges : EdgeOK(e)'
    BY <2>1, <1>1, <1>4, EdgesKept
  <2> QED
    BY <2>2, <1>1 DEF EdgesOK
<1> QED
  BY <1>7, <1>8, <1>9, <1>12, <1>13

LEMMA FallIntoEntryKeeps ==
  ASSUME BinaryOK, BuildInv, FallIntoEntry
  PROVE  BuildInv'
<1> USE DEF BuildInv
<1> DEFINE from == IF curBlock = NoBlock THEN Zero ELSE LastOf(curBlock).addr
           t == EntryTask(curAddr[1], from)
<1>1. /\ anaQueue \in Seq(Tasks) /\ task.btype = "normal" /\ curAddr[1] \in isVmpEntry
      /\ anaQueue' = Append(anaQueue, t) /\ task' = NoTask /\ curBlock' = NoBlock
      /\ UNCHANGED <<insList, binary, visited, fromEdges, vmInsBlocks>>
  BY DEF FallIntoEntry, Running, AtEntry, TaskEnds, QueueOK, vars, blockVars
<1>2. /\ blocksMap' = blocksMap /\ isVmpEntry' = isVmpEntry
      /\ \A v : IsNative(v)' <=> IsNative(v)
  BY <1>1, BinaryKept DEF blocksMap, binary
<1>3. /\ curAddr \in Places /\ IsNative(curAddr)
      /\ curBlock # NoBlock =>
            /\ curBlock \in blocksMap /\ IsNative(curBlock)
            /\ curAddr[1] = curBlock[1] + Len(insList[curBlock])
            /\ LastOf(curBlock).op = "normal"
  BY <1>1 DEF WalkOK
<1>4. t \in Tasks
  <2>1. curAddr[1] \in DOMAIN VmStart /\ curAddr[1] \in Nat
    BY <1>1, <1>3 DEF BinaryOK, Places
  <2>2. CASE curBlock = NoBlock
    BY <2>1, <2>2 DEF EntryTask, Tasks, OriginOK, Places, Native, Zero
  <2>3. CASE curBlock # NoBlock
    <3> DEFINE k == curAddr[1] - 1
    <3>1. BlockOK(curBlock) /\ insList[curBlock] \in Seq(Items) /\ insList[curBlock] # <<>>
      BY <2>3, <1>3 DEF BlocksOK, BlockOK
    <3>2. curBlock \in Places
      BY <3>1 DEF BlockOK
    <3>3. /\ k = curBlock[1] + Len(insList[curBlock]) - 1
          /\ Len(insList[curBlock]) \in 1..Len(insList[curBlock])
      BY <2>3, <1>3, <3>1, <3>2 DEF Places
    <3>4. k \in DOMAIN native /\ LastOf(curBlock) = Item(native[k].kind, Native(k))
      <4>1. CodeOf(curBlock)
        BY <3>1, <2>3, <1>3 DEF BlockOK
      <4> HIDE DEF k
      <4> QED
        BY <4>1, <3>3 DEF CodeOf, LastOf
    <3>5. native[k].kind = "normal" /\ from = Native(k)
      BY <3>4, <2>3, <1>3 DEF Item
    <3>6. NativeNext(k) = {k + 1} /\ k + 1 = curAddr[1] /\ k \in Nat
      BY <3>4, <3>5, <2>1 DEF NativeNext, BinaryOK
    <3>7. IsNative(Native(k))
      <4>1. k \in NativePlaces(native, virtual)
        BY <3>4, NativeShape
      <4> QED
        BY <4>1, NativeShape
    <3> HIDE DEF k, from
    <3> QED
      BY <3>4, <3>5, <3>6, <3>7, <2>1, <1>1 DEF EntryTask, Tasks, OriginOK, Places, Native, Zero
  <2> QED
    BY <2>2, <2>3
<1> HIDE DEF t
<1>5. anaQueue' = anaQueue \o <<t>> /\ <<t>> \in Seq(Tasks)
  BY <1>1, <1>4
<1>6. anaQueue' \in Seq(Tasks) /\ \A v : Queued(v) => Queued(v)'
  BY <1>1, <1>5, QueueGrows
<1>7. QueueOK'
  <2>1. Tasks' = Tasks
    BY <1>1, BinaryKept
  <2> QED
    BY <2>1, <1>1, <1>6 DEF QueueOK
<1>8. WalkOK'
  BY <1>1 DEF WalkOK, NoTask
<1>9. BlocksOK'
  <2>1. \A b \in blocksMap : BlockOK(b)'
    <3> SUFFICES ASSUME NEW b \in blocksMap PROVE BlockOK(b)'
      OBVIOUS
    <3>1. BlockOK(b)
      BY DEF BlocksOK
    <3>2. curBlock = b => b[1] + Len(insList[b]) \in isVmpEntry
      BY <1>1, <1>3, NoZeroBlock
    <3> QED
      BY <3>1, <3>2, <1>1, <1>2, BlockKept
  <2> QED
    BY <2>1, <1>1, <1>2 DEF BlocksOK
<1>10. \A v : FreshStart(v) => v[1] \in isVmpEntry /\ IsNative(v)
  BY <1>1, <1>3 DEF FreshStart
<1>11. VisitedOK'
  BY <1>1, <1>2, <1>10 DEF VisitedOK
<1>12. EdgesOK'
  <2>1. \A e \in fromEdges : Awaited(e[2])'
    BY <1>2, <1>6, <1>10 DEF EdgesOK, EdgeOK, Awaited
  <2>2. \A e \in fromEdges : EdgeOK(e)'
    BY <2>1, <1>1, <1>2, EdgesKept
  <2> QED
    BY <2>2, <1>1 DEF EdgesOK
<1> QED
  BY <1>7, <1>8, <1>9, <1>11, <1>12

\* The tasks addNextTask queues, and where native code goes by a jump.
LEMMA JumpsNext ==
  ASSUME BinaryOK, NEW a \in DOMAIN native
  PROVE  /\ Jumps(a) \in Seq(Nat)
         /\ \A i \in 1..Len(Jumps(a)) : Jumps(a)[i] \in NativeNext(a)
         /\ native[a].kind \in {"jmp", "jcc"} =>
              \A n \in NativeNext(a) : \E i \in 1..Len(Jumps(a)) : Jumps(a)[i] = n
         /\ native[a].kind \notin {"jmp", "jcc"} => Jumps(a) = <<>>
<1>1. a \in Nat /\ native[a].target \in Nat
  BY DEF BinaryOK
<1>2. CASE native[a].kind = "jmp"
  BY <1>1, <1>2 DEF Jumps, NativeNext
<1>3. CASE native[a].kind = "jcc"
  <2>1. Jumps(a) = <<native[a].target, a + 1>> /\ NativeNext(a) = {native[a].target, a + 1}
    BY <1>3 DEF Jumps, NativeNext
  <2>2. /\ Jumps(a) \in Seq(Nat) /\ Len(Jumps(a)) = 2
        /\ Jumps(a)[1] = native[a].target /\ Jumps(a)[2] = a + 1
    BY <2>1, <1>1
  <2> QED
    BY <2>1, <2>2, <1>3
<1>4. CASE native[a].kind \notin {"jmp", "jcc"}
  BY <1>4 DEF Jumps
<1> QED
  BY <1>2, <1>3, <1>4

LEMMA NextTaskOK ==
  ASSUME BinaryOK, NEW a \in DOMAIN native, NEW n \in NativeNext(a), n \in Nat
  PROVE  /\ addNextTask(Native(a), n) \in Tasks
         /\ n \notin isVmpEntry => addNextTask(Native(a), n) = NormalTask(n)
<1>1. a \in Nat /\ isVmpEntry \subseteq DOMAIN VmStart
      /\ IsNative(Native(a)) /\ IsNative(Native(n))
  BY NativeShape DEF BinaryOK
<1>2. CASE n \in isVmpEntry
  BY <1>1, <1>2 DEF addNextTask, EntryTask, Tasks, OriginOK, Places, Native, Zero
<1>3. CASE n \notin isVmpEntry
  BY <1>1, <1>3 DEF addNextTask, NormalTask, Tasks, OriginOK, Places, Native, Zero
<1> QED
  BY <1>2, <1>3

\* The block native code is added to: a new one, or the code up to here.
LEMMA NativeSoFar ==
  ASSUME BinaryOK, WalkOK, BlocksOK, task.btype = "normal",
         NEW b, b = IF curBlock = NoBlock THEN curAddr ELSE curBlock,
         NEW old, old = IF b \in blocksMap THEN insList[b] ELSE <<>>
  PROVE  /\ b \in Places /\ IsNative(b) /\ b \in visited
         /\ b \in blocksMap <=> curBlock # NoBlock
         /\ old \in Seq(Items) /\ curAddr = Native(b[1] + Len(old))
         /\ old # <<>> => old[1].addr = b
         /\ \A i \in 1..Len(old) :
              /\ b[1] + i - 1 \in DOMAIN native
              /\ old[i] = Item(native[b[1] + i - 1].kind, Native(b[1] + i - 1))
              /\ old[i].op = "normal"
<1>1. curAddr \in Places /\ IsNative(curAddr) /\ curAddr = Native(curAddr[1])
  BY DEF WalkOK, IsNative, Places, Native
<1>2. CASE curBlock = NoBlock
  <2>1. b = curAddr /\ b \notin blocksMap /\ b \in visited /\ old = <<>>
    BY <1>2 DEF WalkOK
  <2>2. b[1] \in Nat /\ b[1] + Len(old) = b[1]
    BY <2>1, <1>1 DEF Places
  <2> QED
    BY <2>1, <2>2, <1>1, <1>2
<1>3. CASE curBlock # NoBlock
  <2>1. /\ b = curBlock /\ b \in blocksMap /\ IsNative(b) /\ old = insList[b]
        /\ curAddr[1] = b[1] + Len(old) /\ LastOf(b).op = "normal"
    BY <1>3 DEF WalkOK
  <2>2. BlockOK(b) /\ old \in Seq(Items) /\ b \in visited
    BY <2>1 DEF BlocksOK
  <2>3. /\ b \in Places /\ old # <<>> /\ old[1].addr = b
        /\ \A i \in 1..Len(old) :
              /\ b[1] + i - 1 \in DOMAIN native
              /\ old[i] = Item(native[b[1] + i - 1].kind, Native(b[1] + i - 1))
              /\ i < Len(old) => old[i].op = "normal"
    BY <2>1, <2>2 DEF BlockOK, CodeOf
  <2>4. old[Len(old)].op = "normal"
    BY <2>1 DEF LastOf
  <2>5. \A i \in 1..Len(old) : i < Len(old) \/ i = Len(old)
    BY <2>2
  <2> QED
    BY <2>1, <2>2, <2>3, <2>4, <2>5, <1>1, <1>3
<1> QED
  BY <1>2, <1>3

LEMMA FollowNormalKeeps ==
  ASSUME BinaryOK, BuildInv, FollowNormal
  PROVE  BuildInv'
<1> USE DEF BuildInv
<1>1. PICK a : a = curAddr[1]
  OBVIOUS
<1>2. PICK b : b = IF curBlock = NoBlock THEN curAddr ELSE curBlock
  OBVIOUS
<1>3. PICK old : old = IF b \in blocksMap THEN insList[b] ELSE <<>>
  OBVIOUS
<1>4. PICK jumps : jumps = Jumps(a)
  OBVIOUS
<1>5. PICK item : item = Item(native[a].kind, curAddr)
  OBVIOUS
<1> DEFINE kind == native[a].kind
           list == old \o <<item>>
\* What the action does.
<1>6. /\ task.btype = "normal" /\ a \in DOMAIN native /\ kind \in Kinds \ {"bad"}
      /\ AddInstructions(b, <<item>>, FALSE)
      /\ fromEdges' = fromEdges \cup {<<curAddr, Native(jumps[i])>> : i \in DOMAIN jumps}
      /\ anaQueue' = anaQueue \o NextTasks(jumps)
      /\ IF kind = "normal"
           THEN curAddr' = Native(a + 1) /\ curBlock' = b /\ task' = task
           ELSE task' = NoTask /\ curBlock' = NoBlock
      /\ UNCHANGED <<binary, visited>>
  <2>1. Running("normal") /\ Decoded # "bad"
    BY DEF FollowNormal
  <2>2. a \in DOMAIN native /\ kind = Decoded
    BY <2>1, <1>1 DEF Decoded
  <2> QED
    BY <2>1, <2>2, <1>1, <1>2, <1>4, <1>5
       DEF FollowNormal, Running, TaskEnds, BinaryOK
<1>7. /\ b \in Places /\ IsNative(b) /\ b \in visited
      /\ b \in blocksMap <=> curBlock # NoBlock
      /\ old \in Seq(Items) /\ curAddr = Native(b[1] + Len(old))
      /\ old # <<>> => old[1].addr = b
      /\ \A i \in 1..Len(old) :
           /\ b[1] + i - 1 \in DOMAIN native
           /\ old[i] = Item(native[b[1] + i - 1].kind, Native(b[1] + i - 1))
           /\ old[i].op = "normal"
  BY <1>2, <1>3, <1>6, NativeSoFar
<1>8. a = b[1] + Len(old) /\ curAddr = Native(a) /\ a \in Nat \ {0}
  BY <1>1, <1>6, <1>7 DEF Native, BinaryOK
<1>9. item \in Items /\ item = [op |-> kind, addr |-> Native(a), to |-> {}]
  BY <1>5, <1>6, <1>8 DEF Item, Items, AllOps, Places, Native
<1>10. /\ blocksMap' = blocksMap \cup {b} /\ IsFiniteSet(blocksMap')
       /\ insList' \in [blocksMap' -> Seq(Items)]
       /\ \A c \in blocksMap \ {b} : insList'[c] = insList[c]
       /\ insList'[b] = list /\ vmInsBlocks' = vmInsBlocks
  <2>1. <<item>> \in Seq(Items)
    BY <1>9
  <2>2. insList \in [blocksMap -> Seq(Items)] /\ IsFiniteSet(blocksMap)
    BY DEF BlocksOK
  <2>3. insList'[b] = (IF b \in blocksMap THEN insList[b] ELSE <<>>) \o <<item>>
    BY <2>1, <2>2, <1>6, Added
  <2>4. insList'[b] = list
    BY <2>3, <1>3
  <2> QED
    BY <2>1, <2>2, <2>4, <1>6, Added
<1>11. /\ Len(list) = Len(old) + 1 /\ list # <<>> /\ Len(old) \in Nat
       /\ \A i \in 1..Len(old) : list[i] = old[i]
       /\ list[Len(old) + 1] = item
  BY <1>7, <1>9
<1>12. PICK q : q = NextTasks(jumps)
  OBVIOUS
<1>13. /\ jumps \in Seq(Nat)
       /\ \A i \in 1..Len(jumps) : jumps[i] \in NativeNext(a) /\ jumps[i] \in Nat
       /\ kind \in {"jmp", "jcc"} =>
            \A n \in NativeNext(a) : \E i \in 1..Len(jumps) : jumps[i] = n
       /\ kind \notin {"jmp", "jcc"} => jumps = <<>>
       /\ DOMAIN jumps = 1..Len(jumps)
  <2>1. a \in DOMAIN native
    BY <1>6
  <2>2. /\ jumps \in Seq(Nat)
        /\ \A i \in 1..Len(jumps) : jumps[i] \in NativeNext(a)
        /\ kind \in {"jmp", "jcc"} =>
             \A n \in NativeNext(a) : \E i \in 1..Len(jumps) : jumps[i] = n
        /\ kind \notin {"jmp", "jcc"} => jumps = <<>>
    BY <2>1, <1>4, JumpsNext
  <2> QED
    BY <2>2
<1>14. /\ q \in Seq(Tasks) /\ Len(q) = Len(jumps)
       /\ \A i \in 1..Len(jumps) :
            jumps[i] \notin isVmpEntry => q[i] = NormalTask(jumps[i])
  <2>1. q = [i \in 1..Len(jumps) |-> addNextTask(Native(a), jumps[i])]
    BY <1>12, <1>13, <1>8 DEF NextTasks
  <2>2. \A i \in 1..Len(jumps) :
          /\ addNextTask(Native(a), jumps[i]) \in Tasks
          /\ jumps[i] \notin isVmpEntry =>
               addNextTask(Native(a), jumps[i]) = NormalTask(jumps[i])
    BY <1>6, <1>13, NextTaskOK
  <2> QED
    BY <2>1, <2>2, <1>13
<1>15. /\ anaQueue' \in Seq(Tasks)
       /\ \A v : Queued(v) => Queued(v)'
       /\ \A i \in 1..Len(q) : q[i].btype = "normal" => Queued(q[i].start)'
  BY <1>6, <1>12, <1>14, QueueGrows DEF QueueOK
<1>16. /\ native' = native /\ isVmpEntry' = isVmpEntry /\ virtual' = virtual
       /\ \A v : IsNative(v)' <=> IsNative(v)
  BY <1>6, BinaryKept DEF binary
<1> HIDE DEF kind, list
<1>17. QueueOK'
  <2>1. Tasks' = Tasks
    BY <1>6, BinaryKept
  <2> QED
    BY <2>1, <1>6, <1>15 DEF QueueOK
<1>18. WalkOK'
  <2>1. CASE kind = "normal"
    <3>1. /\ task'.btype = "normal" /\ curAddr' = Native(a + 1) /\ curBlock' = b
      BY <2>1, <1>6
    <3>2. b # NoBlock
      BY <1>7, <1>6, NoZeroBlock, <1>2, <1>8 DEF NoBlock, Zero, Native
    <3>3. IsNative(Native(a + 1))
      <4>1. a + 1 \in NativePlaces(native, virtual)
        BY <1>6, NativeShape
      <4> QED
        BY <4>1, NativeShape
    <3>4. a + 1 = b[1] + Len(insList'[b]) /\ LastOf(b)' = item
      BY <1>8, <1>10, <1>11, <1>7 DEF LastOf, Places
    <3>5. curAddr' \in Places /\ IsNative(curAddr') /\ curAddr'[1] = a + 1
      BY <3>1, <3>3, <1>8 DEF Native, Places
    <3>6. item.op = "normal"
      BY <2>1, <1>9
    <3> QED
      BY <3>1, <3>2, <3>4, <3>5, <3>6, <1>7, <1>10, <1>16 DEF WalkOK, LastOf
  <2>2. CASE kind # "normal"
    BY <2>2, <1>6 DEF WalkOK, NoTask
  <2> QED
    BY <2>1, <2>2
<1>19. CodeOf(b)'
  <2> SUFFICES ASSUME NEW i \in 1..Len(list)
               PROVE  /\ b[1] + i - 1 \in DOMAIN native
                      /\ list[i] = Item(native[b[1] + i - 1].kind, Native(b[1] + i - 1))
                      /\ i < Len(list) => list[i].op = "normal"
    BY <1>10, <1>16 DEF CodeOf, Item, Native
  <2>1. CASE i \in 1..Len(old)
    BY <2>1, <1>7, <1>11
  <2>2. CASE i = Len(old) + 1
    <3>1. b[1] + i - 1 = a
      BY <2>2, <1>8, <1>7, <1>11 DEF Places
    <3> QED
      BY <3>1, <2>2, <1>6, <1>5, <1>8, <1>11 DEF kind
  <2> QED
    BY <2>1, <2>2, <1>11
<1>20. EndOf(b)'
  <2>1. insList'[b][Len(insList'[b])] = item /\ item.op = kind /\ item.addr = Native(a)
    BY <1>9, <1>10, <1>11
  <2>2. kind = "normal" => task'.btype = "normal" /\ curBlock' = b
    BY <1>6
  <2>3. kind \in {"jmp", "jcc"} =>
          \A n \in NativeNext(a) : <<Native(a), Native(n)>> \in fromEdges'
    <3> SUFFICES ASSUME kind \in {"jmp", "jcc"}, NEW n \in NativeNext(a)
                 PROVE  <<Native(a), Native(n)>> \in fromEdges'
      OBVIOUS
    <3>1. PICK i \in 1..Len(jumps) : jumps[i] = n
      BY <1>13
    <3>2. <<curAddr, Native(jumps[i])>> \in fromEdges'
      BY <1>6, <1>13
    <3> QED
      BY <3>1, <3>2, <1>8
  <2>4. Native(a)[1] = a /\ NativeNext(a)' = NativeNext(a)
    BY <1>16 DEF Native, NativeNext
  <2>5. kind # "bad"
    BY <1>6
  <2> QED
    BY <2>1, <2>2, <2>3, <2>4, <2>5 DEF EndOf, LastOf, Native
<1>21. BlockOK(b)'
  <2>1. list[1].addr = b
    <3>1. CASE old = <<>>
      BY <3>1, <1>7, <1>8, <1>9, <1>11 DEF IsNative, Native, Places
    <3>2. CASE old # <<>>
      BY <3>2, <1>7, <1>11
    <3> QED
      BY <3>1, <3>2
  <2>2. \A i \in 1..Len(list) : list[i].to = {} /\ list[i].op # "connect"
    <3> SUFFICES ASSUME NEW i \in 1..Len(list)
                 PROVE  list[i].to = {} /\ list[i].op # "connect"
      OBVIOUS
    <3>1. CASE i \in 1..Len(old)
      <4>1. /\ list[i] = Item(native[b[1] + i - 1].kind, Native(b[1] + i - 1))
            /\ list[i].op = "normal"
        BY <3>1, <1>7, <1>11
      <4> QED
        BY <4>1 DEF Item
    <3>2. CASE i = Len(old) + 1
      BY <3>2, <1>6, <1>9, <1>11 DEF Kinds
    <3> QED
      BY <3>1, <3>2, <1>11
  <2>3. b \notin vmInsBlocks'
    BY <1>7, <1>10 DEF BlocksOK, BlockOK
  <2> QED
    BY <2>1, <2>2, <2>3, <1>7, <1>10, <1>11, <1>16, <1>19, <1>20 DEF BlockOK
<1>22. BlocksOK'
  <2>1. ASSUME NEW c \in blocksMap, c # b PROVE BlockOK(c)'
    <3>1. BlockOK(c) /\ c # NoBlock
      BY <2>1, NoZeroBlock DEF BlocksOK
    <3>2. curBlock # c
      BY <3>1, <2>1, <1>2
    <3>3. fromEdges \subseteq fromEdges'
      BY <1>6
    <3> QED
      BY <3>1, <3>2, <3>3, <2>1, <1>6, <1>10, BlockKept
  <2> QED
    BY <2>1, <1>6, <1>7, <1>10, <1>21 DEF BlocksOK
<1>23. \A v : FreshStart(v) => v = b
  BY <1>2 DEF FreshStart
<1>24. VisitedOK'
  BY <1>6, <1>10, <1>16, <1>23 DEF VisitedOK
<1>25. EdgesOK'
  <2>1. \A e \in fromEdges : Awaited(e[2])'
    BY <1>10, <1>15, <1>16, <1>23 DEF EdgesOK, EdgeOK, Awaited
  <2>2. \A e \in fromEdges : EdgeOK(e)'
    BY <2>1, <1>6, <1>10, EdgesKept
  <2>3. ASSUME NEW i \in 1..Len(jumps) PROVE EdgeOK(<<Native(a), Native(jumps[i])>>)'
    <3>1. PICK n : n = jumps[i]
      OBVIOUS
    <3>2. n \in NativeNext(a) /\ NativeNext(a)' = NativeNext(a) /\ kind \in {"jmp", "jcc"}
      <4>1. jumps # <<>>
        BY <1>13
      <4> QED
        BY <3>1, <4>1, <1>13, <1>16 DEF NativeNext
    <3>3. Awaited(Native(n))'
      <4>1. CASE n \in isVmpEntry
        BY <4>1, <1>16 DEF Awaited, Native
      <4>2. CASE n \notin isVmpEntry
        <5>1. q[i] = NormalTask(n)
          BY <3>1, <4>2, <1>14
        <5>2. q[i].btype = "normal" /\ q[i].start = Native(n)
          BY <5>1 DEF NormalTask
        <5>3. Queued(q[i].start)'
          BY <5>2, <1>14, <1>15
        <5> QED
          BY <5>2, <5>3 DEF Awaited, Queued
      <4> QED
        BY <4>1, <4>2
    <3> QED
      BY <3>1, <3>2, <3>3, <1>6, <1>16 DEF EdgeOK, Native, kind
  <2>4. \A e \in fromEdges' : e \in fromEdges \/
          \E i \in 1..Len(jumps) : e = <<Native(a), Native(jumps[i])>>
    BY <1>6, <1>8, <1>13
  <2> QED
    BY <2>2, <2>3, <2>4 DEF EdgesOK
<1> QED
  BY <1>17, <1>18, <1>22, <1>24, <1>25

\* The place a task of virtual code is at: the VM_INIT of its entry, or a
\* virtual instruction.
At(v) ==
  /\ task.btype \in {"entry", "jmp"} /\ v \in Places /\ ~ IsNative(v)
  /\ task.btype = "entry" => v = Entry(task.start[1])

LEMMA LinkOK ==
  ASSUME BinaryOK, QueueOK, UNCHANGED binary, NEW v, At(v),
         Awaited(v)', task.btype = "entry" => v \in blocksMap',
         NEW e \in Links(v)
  PROVE  EdgeOK(e)'
<1>1. e = <<task.from, v>> /\ task.from # Zero
  BY DEF Links
<1>2. PICK from : from = task.from
  OBVIOUS
<1>3. /\ task \in Tasks /\ native' = native /\ \A a : NativeNext(a)' = NativeNext(a)
      /\ \A w : IsNative(w)' <=> IsNative(w)
  BY BinaryKept DEF QueueOK, At, NoTask, binary
<1>4. CASE ~ IsNative(from)
  BY <1>1, <1>2, <1>3, <1>4 DEF EdgeOK
<1>5. CASE IsNative(from)
  <2>1. task.btype = "entry" /\ OriginOK(task)
    BY <1>2, <1>3, <1>5, TaskShape DEF OriginOK, At
  <2>2. PICK a : a = task.start[1]
    OBVIOUS
  <2>3. from[1] \in DOMAIN native /\ a \in NativeNext(from[1])
    BY <2>1, <2>2, <1>1, <1>2, <1>5 DEF OriginOK
  <2>4. v = Entry(a) /\ v \in blocksMap'
    BY <2>1, <2>2 DEF At
  <2> QED
    BY <2>3, <2>4, <1>1, <1>2, <1>3 DEF EdgeOK, Entry
<1> QED
  BY <1>4, <1>5

LEMMA ReachKeeps ==
  ASSUME BinaryOK, BuildInv, NEW v, At(v), ReachVisited(v)
  PROVE  BuildInv'
<1> USE DEF BuildInv
<1>1. /\ curBlock = NoBlock /\ v \in visited /\ task.btype # "normal"
      /\ fromEdges' = fromEdges \cup Links(v)
      /\ task' = NoTask /\ curBlock' = NoBlock
      /\ UNCHANGED <<insList, binary, anaQueue, visited, vmInsBlocks>>
  BY DEF ReachVisited, Visited, TaskEnds, At, vars, blockVars
<1>2. /\ blocksMap' = blocksMap /\ isVmpEntry' = isVmpEntry
      /\ \A w : IsNative(w)' <=> IsNative(w)
  BY <1>1, BinaryKept DEF blocksMap, binary
<1>3. \A w : ~ FreshStart(w)
  BY <1>1 DEF FreshStart
<1>4. QueueOK'
  <2>1. Tasks' = Tasks
    BY <1>1, BinaryKept
  <2> QED
    BY <2>1, <1>1 DEF QueueOK
<1>5. WalkOK'
  BY <1>1 DEF WalkOK, NoTask
<1>6. BlocksOK'
  <2>1. \A b \in blocksMap : BlockOK(b)'
    <3> SUFFICES ASSUME NEW b \in blocksMap PROVE BlockOK(b)'
      OBVIOUS
    <3>1. BlockOK(b) /\ fromEdges \subseteq fromEdges'
      BY <1>1 DEF BlocksOK
    <3> QED
      BY <3>1, <1>1, BlockKept
  <2> QED
    BY <2>1, <1>1, <1>2 DEF BlocksOK
<1>7. VisitedOK'
  BY <1>1, <1>2, <1>3 DEF VisitedOK
<1>8. EdgesOK'
  <2>1. \A e \in fromEdges : Awaited(e[2])'
    <3>1. \A w : Queued(w) => Queued(w)'
      BY <1>1 DEF Queued
    <3> QED
      BY <3>1, <1>2, <1>3 DEF EdgesOK, EdgeOK, Awaited
  <2>2. \A e \in fromEdges : EdgeOK(e)'
    BY <2>1, <1>1, <1>2, EdgesKept
  <2>3. v \in blocksMap \/ (v[1] \in isVmpEntry /\ IsNative(v))
    BY <1>1, <1>3 DEF VisitedOK
  <2>4. v \in blocksMap' /\ Awaited(v)'
    BY <2>3, <1>2 DEF At, Awaited
  <2>5. \A e \in Links(v) : EdgeOK(e)'
    BY <2>4, <1>1, LinkOK
  <2> QED
    BY <2>2, <2>5, <1>1 DEF EdgesOK
<1> QED
  BY <1>4, <1>5, <1>6, <1>7, <1>8

\* A task of virtual code goes on behind a plain instruction, or is done.
GoesOn(v) ==
  \/ task' = NoTask /\ curBlock' = NoBlock
  \/ /\ task' = task /\ task.btype = "jmp" /\ curAddr' \in DOMAIN virtual
     /\ curBlock' = IF curBlock = NoBlock THEN v ELSE curBlock

\* The edges a handler records itself come from virtual code and lead to an
\* entry or to a task it queues.
QueuedBy(edges, next) ==
  \A e \in edges :
    /\ ~ IsNative(e[1])
    /\ \E i \in 1..Len(next) : next[i].btype = "normal" /\ next[i].start = e[2]

LEMMA ExecuteKeeps ==
  ASSUME BinaryOK, BuildInv, NEW v, At(v),
         NEW ops \in Seq(AllOps \ {"connect"}), ops # <<>>,
         NEW next \in Seq(Tasks), NEW edges, QueuedBy(edges, next),
         ExecuteOp(v, ops, next, edges), GoesOn(v)
  PROVE  BuildInv'
<1> USE DEF BuildInv
<1>1. PICK b : b = IF curBlock = NoBlock THEN v ELSE curBlock
  OBVIOUS
<1>2. PICK old : old = IF b \in blocksMap THEN insList[b] ELSE <<>>
  OBVIOUS
<1>3. PICK items : items = [i \in DOMAIN ops |-> Item(ops[i], v)]
  OBVIOUS
<1> DEFINE list == old \o items
<1>4. /\ curBlock = NoBlock => v \notin visited
      /\ visited' = IF curBlock = NoBlock THEN visited \cup {v} ELSE visited
      /\ AddInstructions(b, items, TRUE)
      /\ anaQueue' = anaQueue \o next
      /\ fromEdges' = fromEdges \cup Links(v) \cup edges
      /\ UNCHANGED binary
  BY <1>1, <1>3 DEF ExecuteOp, Visited
<1>5. /\ b \in Places /\ ~ IsNative(b) /\ b \in visited'
      /\ old \in Seq(Items)
      /\ old # <<>> => old[1].addr = b
      /\ old = <<>> => b = v
      /\ \A i \in 1..Len(old) :
           old[i].to = {} /\ old[i].op # "connect" /\ ~ IsNative(old[i].addr)
  <2>1. CASE curBlock = NoBlock
    <3>1. b = v /\ b \notin blocksMap
      BY <2>1, <1>1, <1>4 DEF BlocksOK
    <3> QED
      BY <3>1, <2>1, <1>2, <1>4 DEF At
  <2>2. CASE curBlock # NoBlock
    <3>1. b = curBlock /\ b \in blocksMap /\ ~ IsNative(b)
      BY <2>2, <1>1 DEF At, WalkOK
    <3>2. BlockOK(b) /\ old = insList[b] /\ old \in Seq(Items)
      BY <3>1, <1>2 DEF BlocksOK
    <3> QED
      BY <3>1, <3>2, <2>2, <1>4 DEF BlockOK, BlocksOK
  <2> QED
    BY <2>1, <2>2
<1>6. /\ items \in Seq(Items) /\ items # <<>>
      /\ \A i \in 1..Len(items) :
           items[i].to = {} /\ items[i].op # "connect" /\ items[i].addr = v
  <2>1. \A op \in AllOps \ {"connect"} :
          /\ Item(op, v) \in Items /\ Item(op, v).to = {} /\ Item(op, v).op # "connect"
          /\ Item(op, v).addr = v
    BY DEF Item, Items, At
  <2>2. Len(ops) \in Nat \ {0} /\ DOMAIN ops = 1..Len(ops)
    OBVIOUS
  <2>3. items = [i \in 1..Len(ops) |-> Item(ops[i], v)]
    BY <2>2, <1>3
  <2> QED
    BY <2>1, <2>2, <2>3
<1>7. /\ blocksMap' = blocksMap \cup {b} /\ IsFiniteSet(blocksMap')
      /\ insList' \in [blocksMap' -> Seq(Items)]
      /\ \A c \in blocksMap \ {b} : insList'[c] = insList[c]
      /\ insList'[b] = list /\ vmInsBlocks' = vmInsBlocks \cup {b}
  <2>1. insList \in [blocksMap -> Seq(Items)] /\ IsFiniteSet(blocksMap)
    BY DEF BlocksOK
  <2>2. insList'[b] = (IF b \in blocksMap THEN insList[b] ELSE <<>>) \o items
    BY <2>1, <1>4, <1>6, Added
  <2>3. insList'[b] = list
    BY <2>2, <1>2
  <2> QED
    BY <2>1, <2>3, <1>4, <1>6, Added
<1>8. /\ Len(list) = Len(old) + Len(items) /\ list # <<>>
      /\ Len(old) \in Nat /\ Len(items) \in Nat \ {0}
      /\ \A i \in 1..Len(old) : list[i] = old[i]
      /\ \A i \in 1..Len(items) : list[Len(old) + i] = items[i]
  BY <1>5, <1>6, ConcatAny
<1>9. /\ anaQueue' \in Seq(Tasks)
      /\ \A w : Queued(w) => Queued(w)'
      /\ \A i \in 1..Len(next) : next[i].btype = "normal" => Queued(next[i].start)'
  BY <1>4, QueueGrows DEF QueueOK
<1>10. isVmpEntry' = isVmpEntry /\ virtual' = virtual /\ \A w : IsNative(w)' <=> IsNative(w)
  BY <1>4, BinaryKept DEF binary
<1> HIDE DEF list
<1>11. QueueOK'
  <2>1. Tasks' = Tasks
    BY <1>4, BinaryKept
  <2> QED
    BY <2>1, <1>9 DEF QueueOK, GoesOn
<1>12. WalkOK'
  BY <1>1, <1>5, <1>7, <1>10 DEF WalkOK, GoesOn, NoTask
<1>13. BlockOK(b)'
  <2>1. ASSUME NEW i \in 1..Len(list)
        PROVE  list[i].to = {} /\ list[i].op # "connect" /\ ~ IsNative(list[i].addr)
    <3>1. CASE i \in 1..Len(old)
      BY <3>1, <1>5, <1>8
    <3>2. CASE i \notin 1..Len(old)
      <4>1. PICK j \in 1..Len(items) : i = Len(old) + j
        <5>1. i - Len(old) \in 1..Len(items) /\ i = Len(old) + (i - Len(old))
          BY <3>2, <1>8
        <5> QED
          BY <5>1
      <4> QED
        BY <4>1, <1>6, <1>8 DEF At
    <3> QED
      BY <3>1, <3>2
  <2>2. list[1].addr = b
    <3>1. CASE old = <<>>
      <4>1. Len(old) = 0 /\ 1 \in 1..Len(items) /\ 0 + 1 = 1
        BY <3>1, <1>8
      <4>2. list[1] = items[1]
        BY <4>1, <1>8
      <4> QED
        BY <4>1, <4>2, <3>1, <1>5, <1>6
    <3>2. CASE old # <<>>
      BY <3>2, <1>5, <1>8
    <3> QED
      BY <3>1, <3>2
  <2> QED
    BY <2>1, <2>2, <1>5, <1>7, <1>8, <1>10 DEF BlockOK
<1>14. BlocksOK'
  <2>1. ASSUME NEW c \in blocksMap, c # b PROVE BlockOK(c)'
    <3>1. BlockOK(c) /\ fromEdges \subseteq fromEdges' /\ task.btype # "normal"
      BY <2>1, <1>4 DEF BlocksOK, At
    <3> QED
      BY <3>1, <2>1, <1>4, <1>7, BlockKept
  <2>2. visited \subseteq visited'
    BY <1>4
  <2> QED
    BY <2>1, <2>2, <1>5, <1>7, <1>13 DEF BlocksOK
<1>15. \A w : ~ FreshStart(w)
  BY DEF FreshStart, At
<1>16. curBlock = NoBlock => v \in blocksMap'
  BY <1>1, <1>7
<1>17. VisitedOK'
  BY <1>4, <1>7, <1>10, <1>15, <1>16 DEF VisitedOK
<1>18. EdgesOK'
  <2>1. \A e \in fromEdges : Awaited(e[2])'
    BY <1>7, <1>9, <1>10, <1>15 DEF EdgesOK, EdgeOK, Awaited
  <2>2. \A e \in fromEdges : EdgeOK(e)'
    BY <2>1, <1>4, <1>7, EdgesKept
  <2>3. ASSUME NEW e \in Links(v) PROVE EdgeOK(e)'
    <3>1. v \in blocksMap'
      BY <1>16 DEF Links
    <3>2. Awaited(v)'
      BY <3>1 DEF Awaited
    <3> QED
      BY <3>1, <3>2, <1>4, LinkOK
  <2>4. ASSUME NEW e \in edges PROVE EdgeOK(e)'
    <3>1. ~ IsNative(e[1]) /\ Queued(e[2])'
      BY <1>9 DEF QueuedBy
    <3> QED
      BY <3>1, <1>10 DEF EdgeOK, Awaited
  <2> QED
    BY <2>2, <2>3, <2>4, <1>4 DEF EdgesOK
<1> QED
  BY <1>11, <1>12, <1>14, <1>17, <1>18

\* A step that leaves no instruction only moves the walk, or ends it.
LEMMA MoveKeeps ==
  ASSUME BinaryOK, BuildInv, task.btype \in {"entry", "jmp"},
         UNCHANGED <<insList, binary, anaQueue, visited, fromEdges, vmInsBlocks>>,
         \/ task' = NoTask /\ curBlock' = NoBlock
         \/ /\ task' = task /\ task.btype = "jmp" /\ curAddr' \in DOMAIN virtual
            /\ curBlock' = curBlock
  PROVE  BuildInv'
<1> USE DEF BuildInv
<1>1. /\ blocksMap' = blocksMap /\ isVmpEntry' = isVmpEntry /\ virtual' = virtual
      /\ \A w : IsNative(w)' <=> IsNative(w)
  BY BinaryKept DEF blocksMap, binary
<1>2. \A w : ~ FreshStart(w)
  BY DEF FreshStart
<1>3. QueueOK'
  <2>1. Tasks' = Tasks
    BY BinaryKept
  <2> QED
    BY <2>1 DEF QueueOK
<1>4. WalkOK'
  BY <1>1 DEF WalkOK, NoTask
<1>5. BlocksOK'
  <2>1. \A b \in blocksMap : BlockOK(b)'
    <3> SUFFICES ASSUME NEW b \in blocksMap PROVE BlockOK(b)'
      OBVIOUS
    <3>1. BlockOK(b)
      BY DEF BlocksOK
    <3> QED
      BY <3>1, BlockKept
  <2> QED
    BY <2>1, <1>1 DEF BlocksOK
<1>6. VisitedOK'
  BY <1>1, <1>2 DEF VisitedOK
<1>7. EdgesOK'
  <2>1. \A e \in fromEdges : Awaited(e[2])'
    <3>1. \A w : Queued(w) => Queued(w)'
      BY DEF Queued
    <3> QED
      BY <3>1, <1>1, <1>2 DEF EdgesOK, EdgeOK, Awaited
  <2>2. \A e \in fromEdges : EdgeOK(e)'
    BY <2>1, <1>1, EdgesKept
  <2> QED
    BY <2>2 DEF EdgesOK
<1> QED
  BY <1>3, <1>4, <1>5, <1>6, <1>7

LEMMA VirtualShape ==
  ASSUME BinaryOK, NEW v \in DOMAIN virtual
  PROVE  /\ v \in Places /\ ~ IsNative(v)
         /\ virtual[v].op \in Ops /\ IsFiniteSet(virtual[v].to)
         /\ virtual[v].op = "exit" => virtual[v].to \subseteq Nat
         /\ virtual[v].op = "exitcall" => virtual[v].to \subseteq DOMAIN VmStart
         /\ virtual[v].op \notin {"exit", "exitcall"} => virtual[v].to \subseteq DOMAIN virtual
BY DEF BinaryOK, IsNative, Places

\* The tasks virtual code queues.
LEMMA VirtualTaskOK ==
  ASSUME BinaryOK, NEW from \in Places, ~ IsNative(from)
  PROVE  /\ \A v \in DOMAIN virtual : JmpTask(v, from) \in Tasks
         /\ \A a \in DOMAIN VmStart : EntryTask(a, from) \in Tasks
         /\ \A a \in NativePlaces(native, virtual) \cap Nat : NormalTask(a) \in Tasks
<1>1. /\ \A v \in DOMAIN virtual : v \in Places
      /\ \A a \in NativePlaces(native, virtual) : IsNative(Native(a))
  BY VirtualShape, NativeShape
<1>2. DOMAIN VmStart \subseteq Nat
  BY BinariesAssumption
<1> QED
  BY <1>1, <1>2
     DEF JmpTask, EntryTask, NormalTask, Tasks, OriginOK, Places, Native, Zero

LEMMA FindVmInitKeeps ==
  ASSUME BinaryOK, BuildInv, FindVmInit
  PROVE  BuildInv'
<1>1. PICK a : a = task.start[1]
  OBVIOUS
<1>2. task.btype = "entry" /\ a \in DOMAIN VmStart
  BY <1>1, TaskShape DEF FindVmInit, Running, BuildInv, QueueOK, NoTask
<1>3. At(Entry(a)) /\ VmStart[a] \in DOMAIN virtual
  BY <1>1, <1>2, BinariesAssumption, NativeShape DEF At, Entry, Places, BinaryOK
<1>4. CASE ReachVisited(Entry(a))
  BY <1>3, <1>4, ReachKeeps
<1>5. CASE /\ ExecuteOp(Entry(a), <<"init">>, <<JmpTask(VmStart[a], Entry(a))>>, {})
           /\ TaskEnds
  <2>1. GoesOn(Entry(a))
    BY <1>5 DEF GoesOn, TaskEnds
  <2>2. <<"init">> \in Seq(AllOps \ {"connect"})
    BY DEF AllOps
  <2>3. JmpTask(VmStart[a], Entry(a)) \in Tasks
    BY <1>3, VirtualTaskOK DEF At
  <2>4. <<JmpTask(VmStart[a], Entry(a))>> \in Seq(Tasks)
    BY <2>3
  <2>5. QueuedBy({}, <<JmpTask(VmStart[a], Entry(a))>>)
    BY DEF QueuedBy
  <2> QED
    BY <2>1, <2>2, <2>4, <2>5, <1>3, <1>5, ExecuteKeeps
<1> QED
  BY <1>1, <1>4, <1>5 DEF FindVmInit

LEMMA JmpOpKeeps ==
  ASSUME BinaryOK, BuildInv, JmpOp
  PROVE  BuildInv'
<1>1. PICK v : v = curAddr
  OBVIOUS
<1>2. task.btype = "jmp" /\ v \in DOMAIN virtual /\ virtual[v].op \in {"jmp", "jmpconst"}
  BY <1>1 DEF JmpOp, Running, BuildInv, WalkOK
<1>3. At(v)
  BY <1>2, VirtualShape DEF At
<1>4. CASE ReachVisited(v)
  BY <1>3, <1>4, ReachKeeps
<1>5. ASSUME NEW order \in [1..Cardinality(virtual[v].to) -> virtual[v].to],
             ExecuteOp(v, <<virtual[v].op>>,
                       [i \in DOMAIN order |-> JmpTask(order[i], v)], {}),
             TaskEnds
      PROVE  BuildInv'
  <2>1. PICK next : next = [i \in DOMAIN order |-> JmpTask(order[i], v)]
    OBVIOUS
  <2>2. next \in Seq(Tasks)
    <3>1. Cardinality(virtual[v].to) \in Nat
      BY <1>2, VirtualShape, FS_CardinalityType
    <3>2. virtual[v].to \subseteq DOMAIN virtual
      BY <1>2, VirtualShape
    <3>3. next \in [1..Cardinality(virtual[v].to) -> Tasks]
      BY <2>1, <3>2, <1>3, VirtualTaskOK DEF At
    <3> QED
      BY <3>1, <3>3
  <2>3. <<virtual[v].op>> \in Seq(AllOps \ {"connect"})
    BY <1>2 DEF AllOps, Ops
  <2>4. GoesOn(v) /\ QueuedBy({}, next)
    BY <1>5 DEF GoesOn, TaskEnds, QueuedBy
  <2>5. ExecuteOp(v, <<virtual[v].op>>, next, {})
    BY <1>5, <2>1
  <2> QED
    BY <2>2, <2>3, <2>4, <2>5, <1>3, ExecuteKeeps
<1> QED
  BY <1>1, <1>4, <1>5 DEF JmpOp

LEMMA PlainOpKeeps ==
  ASSUME BinaryOK, BuildInv, PlainOp
  PROVE  BuildInv'
<1>1. PICK v : v = curAddr
  OBVIOUS
<1>2. task.btype = "jmp" /\ v \in DOMAIN virtual /\ virtual[v].op = "plain"
  BY <1>1 DEF PlainOp, Running, BuildInv, WalkOK
<1>3. At(v) /\ virtual[v].to \subseteq DOMAIN virtual
  BY <1>2, VirtualShape DEF At
<1>4. CASE ReachVisited(v)
  BY <1>3, <1>4, ReachKeeps
<1>5. CASE /\ ExecuteOp(v, <<"plain">>, <<>>, {})
           /\ MoveToNext
           /\ curBlock' = IF curBlock = NoBlock THEN v ELSE curBlock
           /\ UNCHANGED task
  <2>1. GoesOn(v)
    BY <1>1, <1>2, <1>3, <1>5 DEF GoesOn, MoveToNext
  <2>2. <<"plain">> \in Seq(AllOps \ {"connect"})
    BY DEF AllOps, Ops
  <2>3. <<>> \in Seq(Tasks) /\ QueuedBy({}, <<>>)
    BY DEF QueuedBy
  <2> QED
    BY <2>1, <2>2, <2>3, <1>3, <1>5, ExecuteKeeps
<1> QED
  BY <1>1, <1>4, <1>5 DEF PlainOp

LEMMA ExitOpKeeps ==
  ASSUME BinaryOK, BuildInv, ExitOp
  PROVE  BuildInv'
<1>1. PICK v : v = curAddr
  OBVIOUS
<1>2. task.btype = "jmp" /\ v \in DOMAIN virtual
  BY <1>1 DEF ExitOp, Running, BuildInv, WalkOK
<1>3. At(v) /\ v \in Places /\ ~ IsNative(v)
  BY <1>2, VirtualShape DEF At
<1>4. /\ <<"exit">> \in Seq(AllOps \ {"connect"})
      /\ <<"exit", "exitcall">> \in Seq(AllOps \ {"connect"})
  BY DEF AllOps, Ops
<1>5. TaskEnds => GoesOn(v)
  BY DEF GoesOn, TaskEnds
<1>6. <<>> \in Seq(Tasks) /\ \A next : QueuedBy({}, next)
  BY DEF QueuedBy
<1>7. CASE ReachVisited(v)
  BY <1>3, <1>7, ReachKeeps
<1>8. CASE ExecuteOp(v, <<"exit">>, <<>>, {}) /\ TaskEnds
  BY <1>3, <1>4, <1>5, <1>6, <1>8, ExecuteKeeps
<1>9. ASSUME virtual[v].op = "exitcall", NEW a \in virtual[v].to,
             ExecuteOp(v, <<"exit", "exitcall">>, <<EntryTask(a, v)>>, {}), TaskEnds
      PROVE  BuildInv'
  <2>1. EntryTask(a, v) \in Tasks
    BY <1>2, <1>3, <1>9, VirtualShape, VirtualTaskOK
  <2>2. <<EntryTask(a, v)>> \in Seq(Tasks)
    BY <2>1
  <2> QED
    BY <2>2, <1>3, <1>4, <1>5, <1>6, <1>9, ExecuteKeeps
<1>10. ASSUME virtual[v].op = "exit", NEW a \in virtual[v].to, TaskEnds,
              ExecuteOp(v, <<"exit">>,
                        IF a \in isVmpEntry THEN <<>> ELSE <<NormalTask(a)>>,
                        IF a \in isVmpEntry THEN {} ELSE {<<v, Native(a)>>})
       PROVE  BuildInv'
  <2>1. CASE a \in isVmpEntry
    <3>1. ExecuteOp(v, <<"exit">>, <<>>, {})
      BY <2>1, <1>10
    <3> QED
      BY <3>1, <1>8, <1>10
  <2>2. CASE a \notin isVmpEntry
    <3>1. ExecuteOp(v, <<"exit">>, <<NormalTask(a)>>, {<<v, Native(a)>>})
      BY <2>2, <1>10
    <3>2. NormalTask(a) \in Tasks
      <4>1. a \in NativePlaces(native, virtual) /\ a \in Nat
        BY <1>2, <1>10, VirtualShape DEF NativePlaces
      <4> QED
        BY <4>1, <1>3, VirtualTaskOK
    <3>3. <<NormalTask(a)>> \in Seq(Tasks)
      BY <3>2
    <3>4. QueuedBy({<<v, Native(a)>>}, <<NormalTask(a)>>)
      <4>1. PICK next : next = <<NormalTask(a)>>
        OBVIOUS
      <4>2. 1 \in 1..Len(next) /\ next[1] = NormalTask(a)
        BY <4>1
      <4>3. next[1].btype = "normal" /\ next[1].start = Native(a)
        BY <4>2 DEF NormalTask
      <4> QED
        BY <4>1, <4>2, <4>3, <1>3 DEF QueuedBy
    <3> QED
      BY <3>1, <3>3, <3>4, <1>3, <1>4, <1>5, <1>10, ExecuteKeeps
  <2> QED
    BY <2>1, <2>2
<1> QED
  BY <1>1, <1>7, <1>8, <1>9, <1>10 DEF ExitOp

----------------------------------------------------------------------------
(* buildEdges and buildFinalFunction.                                      *)

\* If what is written is an address, it is that of one of the successors.
LEMMA FirstTarget ==
  ASSUME BlocksOK, NEW b \in blocksMap, {c[1] : c \in First(b)} # {}
  PROVE  \E n \in Out[b] : {c[1] : c \in First(b)} = {n[1]}
<1>1. PICK n \in First(b) : TRUE
  OBVIOUS
<1>2. First(b) \subseteq Out[b] /\ Out[b] \subseteq Places
  BY DEF First, Out, BlocksOK, BlockOK
<1>3. \A c \in First(b) : c = n
  <2> SUFFICES ASSUME NEW c \in First(b), c # n PROVE FALSE
    OBVIOUS
  <2>1. Before(c, n) /\ Before(n, c)
    BY <1>2 DEF First
  <2> QED
    BY <2>1, <1>2 DEF Before, Places
<1> QED
  BY <1>1, <1>2, <1>3

\* The list of a finished block b, which had n instructions.
FinishedAs(b, n, list) ==
  /\ n \in Nat \ {0}
  /\ list \in Seq(Items)
  /\ Len(list) = n + (IF NeedsConnect(b) THEN 1 ELSE 0)
  /\ \A i \in 1..n : /\ list[i].op = insList[b][i].op
                     /\ list[i].addr = insList[b][i].addr
                     /\ list[i].to = IF i = n THEN Resolved(b) ELSE insList[b][i].to
  /\ NeedsConnect(b) => list[n + 1] = Connect(b)

LEMMA FinishedList ==
  ASSUME BlocksOK, NEW b \in blocksMap, NEW n, n = Len(insList[b])
  PROVE  FinishedAs(b, n, Finished(b))
<1> DEFINE list == insList[b]
           new == [list EXCEPT ![n].to = Resolved(b)]
           rest == IF NeedsConnect(b) THEN <<Connect(b)>> ELSE <<>>
<1>1. list \in Seq(Items) /\ list # <<>> /\ blocksMap \subseteq Places
  BY DEF BlocksOK, BlockOK
<1>2. n \in Nat \ {0} /\ n \in 1..Len(list)
  BY <1>1
<1>3. Resolved(b) \in SUBSET Nat /\ {c[1] : c \in First(b)} \in SUBSET Nat
  <2>1. Out[b] \subseteq Places /\ First(b) \subseteq Places
    BY <1>1 DEF First, Out
  <2>2. {c[1] : c \in First(b)} \in SUBSET Nat /\ {c[2] : c \in Out[b]} \in SUBSET Nat
    BY <2>1 DEF Places
  <2> QED
    BY <2>2 DEF Resolved
<1>4. LastOf(b) = list[n] /\ list[n] \in Items
  BY <1>1, <1>2 DEF LastOf
<1>5. Finished(b) = new \o rest
  BY DEF Finished
<1>6. PICK r : r = Resolved(b)
  OBVIOUS
<1>7. [list[n] EXCEPT !.to = r] \in Items
  BY <1>3, <1>4, <1>6 DEF Items
<1>8. new = [list EXCEPT ![n] = [list[n] EXCEPT !.to = r]]
  BY <1>6
<1>9. new \in Seq(Items) /\ Len(new) = n
      /\ \A i \in 1..n : new[i] = IF i = n THEN [list[n] EXCEPT !.to = r] ELSE list[i]
  <2> HIDE DEF list, new
  <2>1. Len(list) = n
    BY DEF list
  <2> QED
    BY <2>1, <1>1, <1>2, <1>7, <1>8
<1>10. /\ rest \in Seq(Items)
       /\ Len(rest) = (IF NeedsConnect(b) THEN 1 ELSE 0)
       /\ NeedsConnect(b) => rest[1] = Connect(b)
  <2>1. Connect(b) \in Items
    BY <1>3, <1>4 DEF Connect, Items, AllOps
  <2>2. CASE NeedsConnect(b)
    BY <2>1, <2>2
  <2>3. CASE ~ NeedsConnect(b)
    BY <2>3
  <2> QED
    BY <2>2, <2>3
<1>11. \A i \in 1..n : list[i] \in Items
  BY <1>1
<1> HIDE DEF new, rest
<1>12. /\ new \o rest \in Seq(Items) /\ Len(new \o rest) = n + Len(rest)
       /\ \A i \in 1..n : (new \o rest)[i] = new[i]
       /\ \A i \in 1..Len(rest) : (new \o rest)[n + i] = rest[i]
  <2>1. new \in Seq(Items) /\ rest \in Seq(Items)
    BY <1>9, <1>10
  <2>2. /\ new \o rest \in Seq(Items) /\ Len(new \o rest) = Len(new) + Len(rest)
        /\ \A i \in 1..Len(new) : (new \o rest)[i] = new[i]
        /\ \A i \in 1..Len(rest) : (new \o rest)[Len(new) + i] = rest[i]
    BY <2>1, ConcatAny
  <2>3. Len(new) = n
    BY <1>9
  <2> QED
    BY <2>2, <2>3
<1>13. \A i \in 1..n : /\ new[i].op = list[i].op /\ new[i].addr = list[i].addr
                       /\ new[i].to = IF i = n THEN Resolved(b) ELSE list[i].to
  BY <1>6, <1>9, <1>11 DEF Items
<1>14. \A i \in 1..n :
         /\ Finished(b)[i].op = list[i].op /\ Finished(b)[i].addr = list[i].addr
         /\ Finished(b)[i].to = IF i = n THEN Resolved(b) ELSE list[i].to
  BY <1>5, <1>12, <1>13
<1>15. NeedsConnect(b) => Finished(b)[n + 1] = Connect(b)
  BY <1>5, <1>10, <1>12
<1>16. /\ n \in Nat \ {0} /\ Finished(b) \in Seq(Items)
       /\ Len(Finished(b)) = n + (IF NeedsConnect(b) THEN 1 ELSE 0)
  BY <1>2, <1>5, <1>10, <1>12
<1> QED
  BY <1>14, <1>15, <1>16 DEF FinishedAs

\* What an edge out of native code can lead to, and what it always leads to.
LEMMA NativeEdges ==
  ASSUME BinaryOK, BuildInv, task = NoTask, anaQueue = <<>>,
         NEW b \in blocksMap, IsNative(b)
  PROVE  LET k == LastOf(b).addr[1]
         IN  /\ LastOf(b).addr = Native(k)
             /\ \A w \in EdgeTargets(b) : \E a \in NativeNext(k) :
                  \/ w = Native(a) /\ LastOf(b).op \in {"jmp", "jcc"}
                  \/ w = Entry(a) /\ w \in blocksMap
             /\ \A a \in NativeNext(k) : a \in isVmpEntry \/ Native(a) \in Out[b]
<1> USE DEF BuildInv
<1>1. PICK n : n = Len(insList[b])
  OBVIOUS
<1>2. PICK k : k = b[1] + n - 1
  OBVIOUS
<1>3. BlockOK(b) /\ insList[b] \in Seq(Items) /\ insList[b] # <<>>
  BY DEF BlocksOK, BlockOK
<1>4. n \in 1..n /\ CodeOf(b) /\ EndOf(b) /\ b \in Places
  BY <1>1, <1>3 DEF BlockOK
<1>5. k \in DOMAIN native /\ LastOf(b) = Item(native[k].kind, Native(k))
  BY <1>1, <1>2, <1>4 DEF CodeOf, LastOf
<1>6. LastOf(b).op = native[k].kind /\ LastOf(b).addr = Native(k) /\ LastOf(b).addr[1] = k
  BY <1>5 DEF Item, Native
<1>7. \A v : ~ FreshStart(v) /\ ~ Queued(v)
  BY DEF FreshStart, Queued, NoTask
<1>8. ASSUME NEW w \in EdgeTargets(b)
      PROVE  \E a \in NativeNext(k) :
               \/ w = Native(a) /\ LastOf(b).op \in {"jmp", "jcc"}
               \/ w = Entry(a) /\ w \in blocksMap
  <2>1. PICK e \in fromEdges : e[1] = Native(k) /\ e[2] = w
    BY <1>6 DEF EdgeTargets
  <2>2. EdgeOK(e) /\ IsNative(e[1]) /\ e[1][1] = k
    <3>1. k \in NativePlaces(native, virtual)
      BY <1>5, NativeShape
    <3> QED
      BY <3>1, <2>1, NativeShape DEF EdgesOK, Native
  <2> QED
    BY <2>1, <2>2, <1>6 DEF EdgeOK
<1>9. ASSUME NEW a \in NativeNext(k), a \notin isVmpEntry
      PROVE  Native(a) \in Out[b]
  <2>1. CASE native[k].kind \in {"jmp", "jcc"}
    <3>1. <<Native(k), Native(a)>> \in fromEdges
      BY <2>1, <1>4, <1>6 DEF EndOf
    <3>2. Awaited(Native(a))
      BY <3>1 DEF EdgesOK, EdgeOK
    <3>3. Native(a) \in blocksMap
      BY <3>2, <1>7, <1>9 DEF Awaited, Native
    <3>4. Native(a) \in EdgeTargets(b)
      BY <3>1, <1>6 DEF EdgeTargets
    <3> QED
      BY <3>3, <3>4 DEF Out
  <2>2. CASE native[k].kind = "normal"
    <3>1. b[1] + n \in isVmpEntry
      BY <2>2, <1>1, <1>4, <1>6 DEF EndOf, NoTask
    <3>2. a = k + 1 /\ k + 1 = b[1] + n
      <4>1. a = k + 1
        BY <2>2 DEF NativeNext
      <4> QED
        BY <4>1, <1>2, <1>4 DEF Places
    <3> QED
      BY <3>1, <3>2, <1>9
  <2> QED
    BY <2>1, <2>2 DEF NativeNext
<1> QED
  BY <1>6, <1>8, <1>9

LEMMA BuildEdgesKeeps ==
  ASSUME BinaryOK, BuildInv, BuildEdges
  PROVE  GraphInv' /\ phase' = "merge"
<1> USE DEF BuildInv
<1>1. /\ task = NoTask /\ anaQueue = <<>>
      /\ outBlocks' = Out /\ inBlocks' = MirrorOf(Out)
      /\ insList' = [b \in blocksMap |-> Finished(b)]
      /\ UNCHANGED binary
  BY DEF BuildEdges, Idle
<1>2. /\ blocksMap' = blocksMap /\ native' = native /\ isVmpEntry' = isVmpEntry
      /\ \A v : IsNative(v)' <=> IsNative(v)
  BY <1>1, BinaryKept DEF blocksMap, binary
<1>3. \A b \in blocksMap : Out[b] \subseteq blocksMap /\ BlockOK(b)
  BY DEF Out, BlocksOK
<1>4. phase' = "merge"
  <2> SUFFICES ASSUME NEW b \in blocksMap, NeedsConnect(b), Out[b] = {} PROVE FALSE
    BY DEF BuildEdges
  <2>1. IsNative(b) /\ EdgeTargets(b) # {} /\ LastOf(b).op \notin {"jmp", "jcc"}
    BY <1>3 DEF NeedsConnect, IsEndBlock, BlockOK
  <2>2. PICK w : w \in EdgeTargets(b)
    BY <2>1
  <2>3. w \in blocksMap
    BY <2>1, <2>2, <1>1, NativeEdges
  <2> QED
    BY <2>2, <2>3 DEF Out
<1>5. EdgesMirrored'
  <2>1. \A b \in blocksMap : inBlocks'[b] = {a \in blocksMap : b \in Out[a]}
    BY <1>1 DEF MirrorOf, Out
  <2> QED
    BY <2>1, <1>1, <1>2, <1>3 DEF EdgesMirrored
<1>6. ASSUME NEW b \in blocksMap
      PROVE  /\ insList'[b] = Finished(b) /\ insList'[b] \in Seq(Items)
             /\ insList'[b] # <<>>
             /\ insList'[b][1].addr = b /\ insList'[b][1].op # "connect"
  <2>1. PICK n : n = Len(insList[b])
    OBVIOUS
  <2>2. /\ n \in Nat \ {0} /\ Finished(b) \in Seq(Items)
        /\ Len(Finished(b)) = n + (IF NeedsConnect(b) THEN 1 ELSE 0)
        /\ Finished(b)[1].op = insList[b][1].op
        /\ Finished(b)[1].addr = insList[b][1].addr
    <3>1. FinishedAs(b, n, Finished(b))
      BY <2>1, FinishedList
    <3> QED
      BY <3>1 DEF FinishedAs
  <2>3. insList[b][1].addr = b /\ insList[b][1].op # "connect"
    BY <1>3, <2>1, <2>2 DEF BlockOK
  <2> QED
    BY <2>2, <2>3, <1>1
<1>7. ListsOK' /\ IsFiniteSet(blocksMap')
  BY <1>2, <1>6 DEF ListsOK, BlocksOK
<1>8. ASSUME NEW b \in blocksMap
      PROVE  {insList'[c][1].addr : c \in outBlocks'[b]} = Out[b]
  <2>1. outBlocks'[b] = Out[b]
    BY <1>1
  <2>2. \A c \in Out[b] : insList'[c][1].addr = c
    BY <1>3, <1>6
  <2> QED
    BY <2>1, <2>2
<1>9. ASSUME NEW b \in blocksMap, NEW n, n = Len(insList[b]), NEW i \in 1..n
      PROVE  GraphNext(b, i)' = IF i < n THEN {insList[b][i + 1].addr} ELSE Out[b]
  <2> DEFINE new == Finished(b)
  <2>1. FinishedAs(b, n, new)
    BY <1>9, FinishedList
  <2>2. \A j \in 1..n : insList[b][j].op # "connect"
    BY <1>3, <1>9 DEF BlockOK
  <2>3. GraphNext(b, i)' = IF Behind(new, i) <= Len(new) THEN {new[Behind(new, i)].addr}
                                                        ELSE Out[b]
    BY <1>6, <1>8 DEF GraphNext, Behind
  <2> HIDE DEF new
  <2>4. CASE i < n
    <3>1. i + 1 \in 1..n /\ i < Len(new)
      BY <2>1, <2>4 DEF FinishedAs
    <3>2. Behind(new, i) = i + 1 /\ i + 1 <= Len(new)
      BY <3>1, <2>1, <2>2 DEF Behind, FinishedAs
    <3> QED
      BY <3>1, <3>2, <2>1, <2>3, <2>4 DEF FinishedAs
  <2>5. CASE i = n
    <3>1. ~ (Behind(new, i) <= Len(new))
      <4>1. CASE NeedsConnect(b)
        <5>1. new[n + 1].op = "connect" /\ Len(new) = n + 1
          BY <4>1, <2>1 DEF Connect, FinishedAs
        <5>2. Behind(new, i) = n + 2
          BY <5>1, <2>1, <2>5 DEF Behind, FinishedAs
        <5> QED
          BY <5>1, <5>2, <2>1 DEF FinishedAs
      <4>2. CASE ~ NeedsConnect(b)
        BY <4>2, <2>1, <2>5 DEF Behind, FinishedAs
      <4> QED
        BY <4>1, <4>2
    <3> QED
      BY <3>1, <2>3, <2>5, <2>1 DEF FinishedAs
  <2> QED
    BY <2>1, <2>4, <2>5 DEF FinishedAs
<1>10. ASSUME NEW b \in blocksMap, NeedsConnect(b), NEW n, n = Len(insList[b])
       PROVE  GraphNext(b, n + 1)' = Out[b]
  <2> DEFINE new == Finished(b)
  <2>1. FinishedAs(b, n, new)
    BY <1>10, FinishedList
  <2>2. GraphNext(b, n + 1)' =
          IF Behind(new, n + 1) <= Len(new) THEN {new[Behind(new, n + 1)].addr} ELSE Out[b]
    BY <1>6, <1>8, <1>10 DEF GraphNext, Behind
  <2> HIDE DEF new
  <2>3. n \in Nat /\ Len(new) = n + 1
    BY <2>1, <1>10 DEF FinishedAs
  <2>4. Behind(new, n + 1) = n + 2
    BY <2>3 DEF Behind
  <2> QED
    BY <2>2, <2>3, <2>4
<1>11. ASSUME NEW b \in blocksMap, NEW i \in DOMAIN insList'[b]
       PROVE  FlowAt(insList[b][i], GraphNext(b, i))'
              /\ BranchAt(insList[b][i], GraphNext(b, i))'
  <2>1. PICK n : n = Len(insList[b])
    OBVIOUS
  <2>2. PICK next : next = GraphNext(b, i)'
    OBVIOUS
  <2>3. PICK item : item = insList'[b][i]
    OBVIOUS
  <2>4. FinishedAs(b, n, Finished(b))
    BY <2>1, FinishedList
  <2>5. i \in 1..n \/ (NeedsConnect(b) /\ i = n + 1)
    <3>1. i \in 1..Len(Finished(b))
      BY <1>6
    <3> QED
      BY <3>1, <2>4 DEF FinishedAs
  <2>6. item = Finished(b)[i]
    BY <2>3, <1>6
  <2>7. CASE i \in 1..n
    <3>1. /\ item.op = insList[b][i].op /\ item.addr = insList[b][i].addr
          /\ item.to = IF i = n THEN Resolved(b) ELSE {}
      BY <2>1, <2>4, <2>6, <2>7, <1>3 DEF BlockOK, FinishedAs
    <3>2. next = IF i < n THEN {insList[b][i + 1].addr} ELSE Out[b]
      BY <2>1, <2>2, <2>7, <1>9
    <3>3. BranchAt(item, next)
      <4> SUFFICES ASSUME i = n, Resolved(b) # {} PROVE BranchAt(item, next)
        BY <3>1 DEF BranchAt
      <4>1. next = Out[b] /\ item.to = Resolved(b) /\ item.op = LastOf(b).op
        BY <3>1, <3>2, <2>1, <2>4 DEF LastOf, FinishedAs
      <4>2. CASE LastOf(b).op \in {"jmp", "jmpconst"}
        BY <4>1, <4>2 DEF Resolved, BranchAt
      <4>3. CASE LastOf(b).op \notin {"jmp", "jmpconst"}
        <5>1. Resolved(b) = {c[1] : c \in First(b)}
          BY <4>3 DEF Resolved
        <5> QED
          BY <4>1, <4>3, <5>1, FirstTarget DEF BranchAt
      <4> QED
        BY <4>2, <4>3
    <3>4. FlowAt(item, next)
      <4> SUFFICES ASSUME item.op \in Kinds, IsNative(item.addr)
                   PROVE  /\ next \subseteq UNION {{Native(a), Entry(a)} :
                                                     a \in NativeNext(item.addr[1])}
                          /\ \A a \in NativeNext(item.addr[1]) :
                               a \in isVmpEntry \/ Native(a) \in next
        BY DEF FlowAt
      <4>1. IsNative(b) /\ CodeOf(b) /\ b \in Places
        BY <3>1, <2>1, <2>7, <1>3 DEF BlockOK
      <4>2. PICK k : k = b[1] + i - 1
        OBVIOUS
      <4>3. insList[b][i] = Item(native[k].kind, Native(k))
        BY <4>1, <4>2, <2>1, <2>7 DEF CodeOf
      <4>4. item.addr = Native(k) /\ item.addr[1] = k
        BY <4>3, <3>1 DEF Item, Native
      <4>5. CASE i < n
        <5>1. native[k].kind = "normal"
          <6>1. insList[b][i].op = "normal"
            BY <4>1, <4>5, <2>1, <2>7 DEF CodeOf
          <6> QED
            BY <6>1, <4>3 DEF Item
        <5>2. i + 1 \in 1..n /\ b[1] + (i + 1) - 1 = k + 1
          BY <4>1, <4>2, <4>5, <2>4, <2>7 DEF Places, FinishedAs
        <5>3. insList[b][i + 1].addr = Native(k + 1)
          <6>1. PICK j : j = i + 1
            OBVIOUS
          <6>2. j \in 1..n /\ b[1] + j - 1 = k + 1
            BY <5>2, <6>1
          <6>3. insList[b][j] = Item(native[k + 1].kind, Native(k + 1))
            BY <6>2, <4>1, <2>1 DEF CodeOf
          <6> QED
            BY <6>1, <6>3 DEF Item
        <5> QED
          BY <5>1, <5>3, <4>4, <4>5, <3>2 DEF NativeNext
      <4>6. CASE i = n
        <5>1. next = Out[b] /\ LastOf(b).addr[1] = k
          BY <4>4, <4>6, <3>1, <3>2, <2>1, <2>4 DEF LastOf, FinishedAs
        <5>2. /\ \A w \in EdgeTargets(b) : \E a \in NativeNext(k) :
                   w = Native(a) \/ w = Entry(a)
              /\ \A a \in NativeNext(k) : a \in isVmpEntry \/ Native(a) \in Out[b]
          BY <5>1, <4>1, <1>1, NativeEdges
        <5>3. Out[b] \subseteq EdgeTargets(b)
          BY DEF Out
        <5> QED
          BY <5>1, <5>2, <5>3, <4>4
      <4> QED
        BY <4>5, <4>6, <2>4, <2>7 DEF FinishedAs
    <3> QED
      BY <3>3, <3>4, <2>2, <2>3, <1>2 DEF FlowAt, BranchAt, NativeNext
  <2>8. CASE NeedsConnect(b) /\ i = n + 1
    <3>1. item.op = "connect" /\ item.to = {c[1] : c \in First(b)}
      BY <2>4, <2>6, <2>8 DEF Connect, FinishedAs
    <3>2. next = Out[b]
      BY <2>1, <2>2, <2>8, <1>10
    <3>3. BranchAt(item, next)
      BY <3>1, <3>2, FirstTarget DEF BranchAt
    <3> QED
      BY <3>1, <3>3, <2>2, <2>3 DEF FlowAt, BranchAt, Kinds
  <2> QED
    BY <2>5, <2>7, <2>8
<1>12. FlowSound' /\ BranchesMatchGraph'
  <2>1. FlowSound'
    BY <1>2, <1>11 DEF FlowSound, FlowAt
  <2>2. BranchesMatchGraph'
    BY <1>2, <1>11 DEF BranchesMatchGraph, BranchAt
  <2> QED
    BY <2>1, <2>2
<1> QED
  BY <1>4, <1>5, <1>7, <1>12 DEF GraphInv

----------------------------------------------------------------------------
(* The invariant, and what it implies.                                     *)

LEMMA BuildKeeps ==
  ASSUME BInv, Build
  PROVE  BInv'
<1> USE DEF BInv
<1>1. phase = "build" => BuildInv
  OBVIOUS
<1>2. CASE TakeTask
  <2>1. phase = "build" /\ phase' = phase /\ UNCHANGED binary
    BY <1>2 DEF TakeTask, Idle, vars
  <2> QED
    BY <2>1, <1>2, TakeTaskKeeps, BinaryKept
<1>3. CASE FallIntoEntry
  <2>1. phase = "build" /\ phase' = phase /\ UNCHANGED binary
    BY <1>3 DEF FallIntoEntry, Running, vars
  <2> QED
    BY <2>1, <1>3, FallIntoEntryKeeps, BinaryKept
<1>4. CASE DecodeFails \/ VmWalkThrows \/ VmWalkHangs
  <2>1. phase' \in {"throw", "hang"} /\ UNCHANGED binary
    BY <1>4 DEF DecodeFails, VmWalkThrows, VmWalkHangs
  <2> QED
    BY <2>1, BinaryKept
<1>5. CASE FollowNormal
  <2>1. phase = "build" /\ phase' = phase /\ UNCHANGED binary
    BY <1>5 DEF FollowNormal, Running
  <2> QED
    BY <2>1, <1>5, FollowNormalKeeps, BinaryKept
<1>6. CASE VmWalkEnds \/ SkipOp
  <2>1. /\ phase = "build" /\ phase' = phase /\ task.btype \in {"entry", "jmp"}
        /\ UNCHANGED <<insList, binary, anaQueue, visited, fromEdges, vmInsBlocks>>
    BY <1>6 DEF VmWalkEnds, SkipOp, Running, vars, blockVars
  <2>2. CASE VmWalkEnds
    <3>1. task' = NoTask /\ curBlock' = NoBlock
      BY <2>2 DEF VmWalkEnds, TaskEnds
    <3> QED
      BY <3>1, <2>1, MoveKeeps, BinaryKept
  <2>3. CASE SkipOp
    <3>1. /\ task' = task /\ curBlock' = curBlock /\ task.btype = "jmp"
          /\ curAddr' \in virtual[curAddr].to
          /\ virtual[curAddr].op \in {"plain", "jmpconst"}
      BY <2>3 DEF SkipOp, MoveToNext, Running
    <3>2. curAddr \in DOMAIN virtual
      BY <3>1, <2>1 DEF BuildInv, WalkOK
    <3>3. curAddr' \in DOMAIN virtual
      BY <3>1, <3>2, VirtualShape
    <3> QED
      BY <3>1, <3>3, <2>1, MoveKeeps, BinaryKept
  <2> QED
    BY <2>2, <2>3, <1>6
<1>7. CASE FindVmInit \/ PlainOp \/ JmpOp \/ ExitOp
  <2>1. phase = "build"
    BY <1>7 DEF FindVmInit, PlainOp, JmpOp, ExitOp, Running
  <2>2. phase' = phase /\ UNCHANGED binary
    BY <1>7 DEF FindVmInit, PlainOp, JmpOp, ExitOp, ReachVisited, ExecuteOp, vars
  <2> QED
    BY <2>1, <2>2, <1>7, FindVmInitKeeps, PlainOpKeeps, JmpOpKeeps, ExitOpKeeps, BinaryKept
<1>8. CASE BuildEdges
  <2>1. phase = "build" /\ UNCHANGED binary
    BY <1>8 DEF BuildEdges, Idle
  <2> QED
    BY <2>1, <1>8, BuildEdgesKeeps, BinaryKept
<1> QED
  BY <1>2, <1>3, <1>4, <1>5, <1>6, <1>7, <1>8 DEF Build, FallthruVmp

LEMMA MergeNodesKeeps ==
  ASSUME BInv, MergeNodes, UNCHANGED buildVars
  PROVE  BInv'
<1> USE DEF BInv
<1>1. phase = "merge" /\ phase' \in {"merge", "done"} /\ UNCHANGED binary
  BY DEF MergeNodes, MergeNode, RejectNode, PassEnds, buildVars
<1>2. GraphInv'
  <2>1. CASE MergeNode
    <3>1. PICK b \in blocksMap :
            \E father \in inBlocks[b] : CanMerge(b, father) /\ Merge(b, father)
      BY <2>1 DEF MergeNode
    <3>2. PICK father \in inBlocks[b] : CanMerge(b, father) /\ Merge(b, father)
      BY <3>1
    <3> QED
      BY <3>2, <1>1, MergeKeepsGraph
  <2>2. CASE RejectNode \/ PassEnds
    <3>1. UNCHANGED <<insList, inBlocks, outBlocks>>
      BY <2>2 DEF RejectNode, PassEnds, blockVars
    <3> QED
      BY <3>1, <1>1, SameGraph
  <2> QED
    BY <2>1, <2>2 DEF MergeNodes
<1> QED
  BY <1>1, <1>2, BinaryKept

LEMMA StutterKeeps ==
  ASSUME BInv, UNCHANGED allVars
  PROVE  BInv'
<1>1. /\ UNCHANGED <<insList, inBlocks, outBlocks, phase, native, virtual, isVmpEntry>>
      /\ UNCHANGED <<anaQueue, task, curAddr, curBlock, visited, fromEdges, vmInsBlocks>>
      /\ UNCHANGED binary
      /\ \A v : IsNative(v)' <=> IsNative(v)
  BY BinaryKept DEF allVars, vars, blockVars, buildVars, binary, taskVars
<1>2. BinaryOK'
  BY <1>1, BinaryKept DEF BInv
<1>3. phase = "build" => BuildInv'
  <2> SUFFICES ASSUME BuildInv PROVE BuildInv'
    BY DEF BInv
  <2>1. QueueOK' /\ WalkOK'
    <3>1. Tasks' = Tasks
      BY <1>1, BinaryKept
    <3> QED
      BY <3>1, <1>1 DEF BuildInv, QueueOK, WalkOK, LastOf, blocksMap
  <2>2. BlocksOK'
    <3>1. \A b \in blocksMap : BlockOK(b)'
      <4> SUFFICES ASSUME NEW b \in blocksMap PROVE BlockOK(b)'
        OBVIOUS
      <4>1. BlockOK(b)
        BY DEF BuildInv, BlocksOK
      <4> QED
        BY <4>1, <1>1, BlockKept
    <3> QED
      BY <3>1, <1>1 DEF BuildInv, BlocksOK, blocksMap
  <2>3. VisitedOK'
    BY <1>1 DEF BuildInv, VisitedOK, FreshStart, blocksMap
  <2>4. EdgesOK'
    <3>1. blocksMap' = blocksMap /\ \A v : Awaited(v) => Awaited(v)'
      BY <1>1 DEF Awaited, FreshStart, Queued, blocksMap
    <3>2. \A e \in fromEdges : EdgeOK(e)'
      BY <3>1, <1>1, EdgesKept DEF BuildInv, EdgesOK, EdgeOK
    <3> QED
      BY <3>2, <1>1 DEF EdgesOK
  <2> QED
    BY <2>1, <2>2, <2>3, <2>4 DEF BuildInv
<1>4. phase \in {"merge", "done"} => GraphInv'
  BY <1>1, SameGraph DEF BInv
<1> QED
  BY <1>1, <1>2, <1>3, <1>4 DEF BInv

LEMMA NextBInv == BInv /\ [BuildNext]_allVars => BInv'
BY BuildKeeps, MergeNodesKeeps, StutterKeeps DEF BuildNext

LEMMA AlwaysBInv == BuildSpec => []BInv
BY InitBInv, NextBInv, PTL DEF BuildSpec

\* When BuildCFG's queue is empty, every edge it has recorded leads to a block
\* or to a marked entry: whatever is jumped to, run into or returned to while
\* other tasks are queued or running is followed in the end, and buildEdges
\* drops no edge for want of a block.
THEOREM NoEdgeDroppedCorrect == BuildSpec => []NoEdgeDropped
<1>1. BInv => NoEdgeDropped
  <2> SUFFICES ASSUME BInv, phase = "build", task = NoTask, anaQueue = <<>>,
                      NEW e \in fromEdges
               PROVE  e[2] \in blocksMap \/ e[2][1] \in isVmpEntry
    BY DEF NoEdgeDropped, Idle
  <2>1. Awaited(e[2])
    BY DEF BInv, BuildInv, EdgesOK, EdgeOK
  <2> QED
    BY <2>1 DEF Awaited, FreshStart, Queued, NoTask
<1> QED
  BY <1>1, AlwaysBInv, PTL

\* buildFinalFunction, which takes the first of a native block's outBlocks
\* without asking whether there is one, always finds one: native code that does
\* not end in a jump has an edge only to the VM_INIT block it ran into.
THEOREM ConnectHasTargetCorrect == BuildSpec => []ConnectHasTarget
<1>1. BInv => ConnectHasTarget
  BY DEF BInv, ConnectHasTarget
<1> QED
  BY <1>1, AlwaysBInv, PTL

\* For every binary, the graph buildEdges makes has behind each native
\* instruction what the binary has behind it, and MergeNodes keeps it so.
THEOREM FlowSoundCorrect == BuildSpec => []FlowSound
<1>1. BInv => FlowSound
  BY DEF BInv, GraphInv, FlowSound
<1> QED
  BY <1>1, AlwaysBInv, PTL

\* For every binary, the targets buildFinalFunction writes into virtual
\* branches, exits and UserOpConnects are and stay what the graph has behind
\* them: all of a jump's bytecode addresses, one block's address for the others.
THEOREM BranchesMatchGraphCorrect == BuildSpec => []BranchesMatchGraph
<1>1. BInv => BranchesMatchGraph
  BY DEF BInv, GraphInv, BranchesMatchGraph
<1> QED
  BY <1>1, AlwaysBInv, PTL

=============================================================================
