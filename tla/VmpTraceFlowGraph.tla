------------------------- MODULE VmpTraceFlowGraph -------------------------
(***************************************************************************)
(* The trace flow graph (VmpCore/VmpTraceFlowGraph.cpp): the blocks that   *)
(* VmpBlockBuilder cuts out of emulated instruction traces.  A task traces *)
(* a program, feeds the trace to AddTraceFlow one link at a time and then  *)
(* runs MergeAllNodes.  One graph serves every task of a function, so a    *)
(* later trace is linked into blocks an earlier merge has already grown.   *)
(*                                                                         *)
(* A std::map entry is a point of a function's domain, a VmpTraceFlowNode* *)
(* is the key of the entry it points to, and positions in addrList count   *)
(* from 1 (the code's index + 1).  fromEdges and toEdges are total: a key  *)
(* the code has not inserted yet maps to the empty set.                    *)
(***************************************************************************)
EXTENDS Integers, Sequences, FiniteSets

CONSTANTS
  Addr,       \* instruction addresses
  Programs,   \* the programs the emulator may run
  Entries,    \* addresses a task may start at
  Version,    \* VmpVersionManager::CurrentVmpVersion()
  MaxTrace,   \* the emulator's instruction budget (0x10000 in BuildVmpBlock)
  MaxTasks    \* traces added to one graph

\* What the graph code tells apart about an instruction: "addreg" is an
\* add/adc of an immediate to the register of the jump that follows, "rep" a
\* string instruction traced once per iteration, "loop" one of x86 LOOP,
\* LOOPE and LOOPNE, "undecodable" bytes the emulator runs and capstone rejects.
Kinds == {"normal", "addreg", "rep", "loop", "undecodable",
          "jmp", "jcc", "jmpreg", "call", "ret"}

Versions == {"VMP_350", "VMP_380"}

ASSUME AddrAssumption == Addr \subseteq Nat \ {0} /\ IsFiniteSet(Addr)

ASSUME ProgramAssumption ==
  /\ Programs \subseteq [Addr -> [kind : Kinds, succ : SUBSET Addr]]
  /\ Entries \subseteq Addr
  /\ Version \in Versions
  /\ MaxTrace \in Nat /\ MaxTasks \in Nat

VARIABLES
  code,         \* the traced program, fixed
  phase,        \* what the running task does: see Phases
  tasks,        \* tasks started
  traceList,    \* the EIPs of VmpUnicorn::traceList
  flowIdx,      \* AddTraceFlow's n + 1
  tfg,          \* the graph: nodeMap, instructionToNodeMap, fromEdges, toEdges
  badNodeList,  \* MergeAllNodes' locals: nodes known not to merge,
  cursor,       \* the last key visited in this pass over nodeMap,
  bUpdateNode   \* and whether this pass merged a node

mergeVars == <<badNodeList, cursor, bUpdateNode>>
vars == <<code, phase, tasks, traceList, flowIdx, tfg, mergeVars>>

\* "idle": no task runs; "throw": a VmpTraceException left the task; "hang":
\* executeMerge appends a node to itself and never returns.
Phases == {"idle", "emulate", "link", "merge", "throw", "hang"}

Put(f, a, v) == [x \in DOMAIN f \cup {a} |-> IF x = a THEN v ELSE f[x]]
PositionsOf(list, a) == {i \in 1..Len(list) : list[i] = a}
Least(S) == CHOOSE x \in S : \A y \in S : x <= y
Elements(list) == {list[i] : i \in 1..Len(list)}

\* updateInstructionToNodeMap for every address of list, which is appended to
\* the base addresses node already holds; the last of several updates stays.
Reindex(ins, list, node, base) ==
  [a \in DOMAIN ins \cup Elements(list) |->
     IF a \in Elements(list)
       THEN [vmNode |-> node,
             index |-> base + (CHOOSE i \in PositionsOf(list, a) :
                                 \A j \in PositionsOf(list, a) : j <= i)]
       ELSE ins[a]]

----------------------------------------------------------------------------
(* The graph operations.  g is a graph; each returns the graph the method  *)
(* leaves behind.  thrown is set by the methods that throw.                *)

EmptyGraph == [nodeMap |-> <<>>, instructionToNodeMap |-> <<>>,
               fromEdges |-> [a \in Addr |-> {}],
               toEdges |-> [a \in Addr |-> {}], thrown |-> FALSE]

EndAddr(g, n) == g.nodeMap[n][Len(g.nodeMap[n])]
IsTail(g, a) == LET at == g.instructionToNodeMap[a]
                IN  at.index = Len(g.nodeMap[at.vmNode])
IsHead(g, a) == g.instructionToNodeMap[a].index = 1

isEndIns(k) == k \in {"ret", "call", "jcc", "jmp", "jmpreg"}

linkEdge(g, f, t) == [g EXCEPT !.fromEdges[f] = @ \cup {t},
                               !.toEdges[t] = @ \cup {f}]

\* Mutant: only one of the two maps forgets the edge.
removeEdgeOneWay(g, f, t) == [g EXCEPT !.fromEdges[f] = @ \ {t}]

removeEdge(g, f, t) == [g EXCEPT !.fromEdges[f] = @ \ {t},
                                 !.toEdges[t] = @ \ {f}]

\* nodeMap[start] inserts a node or, when there is one, appends to it.
createNode(g, start) ==
  [g EXCEPT !.nodeMap = Put(@, start, IF start \in DOMAIN @
                                        THEN Append(@[start], start)
                                        ELSE <<start>>),
            !.instructionToNodeMap =
               Put(@, start, [vmNode |-> start, index |-> 1])]

ensureNode(g, a) ==
  IF a \in DOMAIN g.instructionToNodeMap THEN g ELSE createNode(g, a)

\* The new node is created before splitAddr is looked for, so a split at the
\* head of n finds the address createNode has just appended to n itself.
splitBlock(g, n, splitAddr) ==
  LET created == createNode(g, splitAddr)
      list    == created.nodeMap[n]
      found   == PositionsOf(list, splitAddr) \ {1}
      at      == Least(found)
      tail    == SubSeq(list, at + 1, Len(list))
      linked  == linkEdge(created, list[at - 1], splitAddr)
      cut     == [linked.nodeMap EXCEPT ![splitAddr] = @ \o tail,
                                        ![n] = SubSeq(list, 1, at - 1)]
  IN  IF found = {}
      THEN [created EXCEPT !.thrown = TRUE]
      ELSE [linked EXCEPT
              !.nodeMap = cut,
              !.instructionToNodeMap = Reindex(@, tail, splitAddr, 1)]

\* Mutant: a jump into the middle of a block splits nothing.
addJmpLinkNoSplit(g0, f, t) == ensureNode(ensureNode(linkEdge(g0, f, t), f), t)

addJmpLink(g0, f, t) ==
  LET g   == ensureNode(ensureNode(linkEdge(g0, f, t), f), t)
      cur == g.instructionToNodeMap[f].vmNode
      nxt == g.instructionToNodeMap[t].vmNode
      g1  == IF IsTail(g, f) THEN g ELSE splitBlock(g, cur, f)
  IN  IF IsTail(g, f) /\ IsHead(g, t) THEN g
      ELSE IF cur = nxt THEN splitBlock(g, nxt, t)
      ELSE IF IsHead(g1, t) THEN g1
      ELSE splitBlock(g1, nxt, t)

addNormalLink(g0, f, t) ==
  LET g   == ensureNode(g0, f)
      cur == g.instructionToNodeMap[f]
      nxt == g.instructionToNodeMap[t]
  IN  IF t \notin DOMAIN g.instructionToNodeMap
        THEN [g EXCEPT !.nodeMap[cur.vmNode] = Append(@, t),
                       !.instructionToNodeMap =
                          Put(@, t, [vmNode |-> cur.vmNode, index |-> cur.index + 1])]
      ELSE IF cur.vmNode = nxt.vmNode
        THEN [g EXCEPT !.thrown = (cur.index + 1 # nxt.index)]
      ELSE IF nxt.index = 1 THEN g
      ELSE linkEdge(splitBlock(g, nxt.vmNode, t), f, t)

\* f # t and f decodes: the early returns of addLink are in AddTraceFlow.
addLink(g, f, t) ==
  IF isEndIns(code[f].kind) THEN addJmpLink(g, f, t) ELSE addNormalLink(g, f, t)

----------------------------------------------------------------------------
(* Merging. *)

FromAddr(g, n) == CHOOSE f \in g.toEdges[n] : TRUE
Father(g, n) == g.instructionToNodeMap[FromAddr(g, n)].vmNode

\* Mutant: the edges out of the father are not counted.
checkCanMergeAnyFather(g, n) ==
  /\ Cardinality(g.toEdges[n]) = 1
  /\ EndAddr(g, Father(g, n)) \notin g.fromEdges[n]

checkCanMerge(g, n) ==
  /\ Cardinality(g.toEdges[n]) = 1
  /\ Cardinality(g.fromEdges[FromAddr(g, n)]) = 1
  /\ EndAddr(g, Father(g, n)) \notin g.fromEdges[n]

\* Mutant: an add anywhere before the jump counts.
checkCanMerge_VmpAnyAdd(g, n) ==
  LET father == g.nodeMap[Father(g, n)]
      end    == code[father[Len(father)]].kind
  IN  /\ end \notin {"undecodable", "ret"}
      /\ end = "jmpreg" =>
           /\ Version = "VMP_380"
           /\ \E i \in 1..Len(father) : code[father[i]].kind = "addreg"

\* A jmp through a register ends a block in VMP_350.  In VMP_380 it does so
\* in a block of more than two instructions, unless an add of a constant to
\* the jump's register comes right before it.
checkCanMerge_Vmp(g, n) ==
  LET father == g.nodeMap[Father(g, n)]
      size   == Len(father)
      end    == code[father[size]].kind
  IN  /\ end \notin {"undecodable", "ret"}
      /\ end = "jmpreg" =>
           /\ Version = "VMP_380"
           /\ size > 2 => code[father[size - 1]].kind = "addreg"

\* Mutants: the child goes in front of the father; instructionToNodeMap is
\* not told.
executeMergeInFront(g, father, child) ==
  [removeEdge(g, EndAddr(g, father), child) EXCEPT
     !.nodeMap = [m \in DOMAIN @ \ {child} |->
                    IF m = father THEN @[child] \o @[m] ELSE @[m]]]
executeMergeStaleIndex(g, father, child) ==
  [removeEdge(g, EndAddr(g, father), child) EXCEPT
     !.nodeMap = [m \in DOMAIN @ \ {child} |->
                    IF m = father THEN @[m] \o @[child] ELSE @[m]]]

executeMerge(g, father, child) ==
  LET kept  == Len(g.nodeMap[father])
      moved == g.nodeMap[child]
  IN  [removeEdge(g, EndAddr(g, father), child) EXCEPT
         !.nodeMap = [m \in DOMAIN @ \ {child} |->
                        IF m = father THEN @[m] \o moved ELSE @[m]],
         !.instructionToNodeMap = Reindex(@, moved, father, kept)]

----------------------------------------------------------------------------
Init ==
  /\ code \in Programs
  /\ phase = "idle"
  /\ tasks = 0
  /\ traceList = <<>>
  /\ flowIdx = 1
  /\ tfg = EmptyGraph
  /\ badNodeList = {} /\ cursor = 0 /\ bUpdateNode = FALSE

\* Mutant: the loop of AddTraceFlow starts before the trace.
StartWalkBefore(entry) ==
  /\ phase = "idle" /\ tasks < MaxTasks
  /\ tasks' = tasks + 1
  /\ traceList' = <<entry>>
  /\ flowIdx' = 0
  /\ phase' = "emulate"
  /\ UNCHANGED <<code, tfg, mergeVars>>

\* StartVmpTrace clears the trace; the first instruction is the entry's.
StartWalk(entry) ==
  /\ phase = "idle" /\ tasks < MaxTasks
  /\ tasks' = tasks + 1
  /\ traceList' = <<entry>>
  /\ flowIdx' = 1
  /\ phase' = "emulate"
  /\ UNCHANGED <<code, tfg, mergeVars>>

\* cb_hook_code records the next instruction the emulated program reaches.
Emulate ==
  /\ phase = "emulate" /\ Len(traceList) < MaxTrace
  /\ \E a \in code[traceList[Len(traceList)]].succ :
       traceList' = Append(traceList, a)
  /\ UNCHANGED <<code, phase, tasks, flowIdx, tfg, mergeVars>>

\* The emulation stops: its budget is spent, it faults, or it leaves the code.
EmulationEnds ==
  /\ phase = "emulate"
  /\ phase' = "link"
  /\ UNCHANGED <<code, tasks, traceList, flowIdx, tfg, mergeVars>>

\* One iteration of AddTraceFlow's loop.
AddTraceFlow ==
  LET f == traceList[flowIdx]
      t == traceList[flowIdx + 1]
      g == IF f = t THEN tfg ELSE addLink(tfg, f, t)
  IN  /\ phase = "link" /\ flowIdx < Len(traceList)
      /\ f = t \/ code[f].kind # "undecodable"
      /\ tfg' = g
      /\ flowIdx' = flowIdx + 1
      /\ phase' = IF g.thrown THEN "throw" ELSE phase
      /\ UNCHANGED <<code, tasks, traceList, mergeVars>>

\* AddTraceFlow returns at the end of the trace or at the first instruction
\* capstone cannot decode; the task goes on to MergeAllNodes either way.
AddTraceFlowReturns ==
  /\ phase = "link"
  /\ \/ flowIdx = Len(traceList)
     \/ /\ flowIdx < Len(traceList)
        /\ code[traceList[flowIdx]].kind = "undecodable"
        /\ traceList[flowIdx] # traceList[flowIdx + 1]
  /\ phase' = "merge"
  /\ badNodeList' = {} /\ cursor' = 0 /\ bUpdateNode' = FALSE
  /\ UNCHANGED <<code, tasks, traceList, flowIdx, tfg>>

Unvisited == {n \in DOMAIN tfg.nodeMap \ badNodeList : n > cursor}
CanMerge(n) == checkCanMerge(tfg, n) /\ checkCanMerge_Vmp(tfg, n)

\* MergeAllNodes visits the nodes in ascending order of their addresses.
MergeNode ==
  /\ phase = "merge" /\ Unvisited # {}
  /\ LET n == Least(Unvisited)
     IN  /\ cursor' = n
         /\ CanMerge(n)
         /\ IF Father(tfg, n) = n
              THEN phase' = "hang" /\ UNCHANGED tfg
              ELSE phase' = phase /\ tfg' = executeMerge(tfg, Father(tfg, n), n)
         /\ bUpdateNode' = TRUE
  /\ UNCHANGED <<code, tasks, traceList, flowIdx, badNodeList>>

RejectNode ==
  /\ phase = "merge" /\ Unvisited # {}
  /\ LET n == Least(Unvisited)
     IN  /\ cursor' = n
         /\ ~ CanMerge(n)
         /\ badNodeList' = badNodeList \cup {n}
  /\ UNCHANGED <<code, phase, tasks, traceList, flowIdx, tfg, bUpdateNode>>

\* Mutant: bUpdateNode is set to false before the loop, not in it.
MergePassEndsNoReset ==
  /\ phase = "merge" /\ Unvisited = {}
  /\ phase' = IF bUpdateNode THEN "merge" ELSE "idle"
  /\ cursor' = 0
  /\ UNCHANGED <<code, tasks, traceList, flowIdx, tfg, badNodeList, bUpdateNode>>

MergePassEnds ==
  /\ phase = "merge" /\ Unvisited = {}
  /\ phase' = IF bUpdateNode THEN "merge" ELSE "idle"
  /\ cursor' = 0 /\ bUpdateNode' = FALSE
  /\ UNCHANGED <<code, tasks, traceList, flowIdx, tfg, badNodeList>>

MergeAllNodes == MergeNode \/ RejectNode \/ MergePassEnds

Next ==
  \/ \E entry \in Entries : StartWalk(entry)
  \/ Emulate \/ EmulationEnds
  \/ AddTraceFlow \/ AddTraceFlowReturns
  \/ MergeAllNodes

Spec == Init /\ [][Next]_vars

\* A task is sequential code: while it links or merges it keeps running.
FairSpec ==
  Spec /\ WF_vars(EmulationEnds) /\ WF_vars(AddTraceFlow \/ AddTraceFlowReturns)
       /\ WF_vars(MergeAllNodes)

----------------------------------------------------------------------------
TypeOK ==
  /\ code \in [Addr -> [kind : Kinds, succ : SUBSET Addr]]
  /\ phase \in Phases
  /\ tasks \in 0..MaxTasks
  /\ traceList \in Seq(Addr)
  /\ flowIdx \in 1..(MaxTrace + 1)
  /\ DOMAIN tfg.nodeMap \subseteq Addr
  /\ \A n \in DOMAIN tfg.nodeMap : tfg.nodeMap[n] \in Seq(Addr) \ {<<>>}
  /\ DOMAIN tfg.instructionToNodeMap \subseteq Addr
  /\ tfg.fromEdges \in [Addr -> SUBSET Addr]
  /\ tfg.toEdges \in [Addr -> SUBSET Addr]
  /\ badNodeList \subseteq Addr /\ cursor \in Nat /\ bUpdateNode \in BOOLEAN

\* Comment at VmpTraceFlowGraph.h:66: the index maps an instruction to its
\* block and its position there.
IndexNamesInstruction ==
  \A a \in DOMAIN tfg.instructionToNodeMap :
    LET at == tfg.instructionToNodeMap[a]
    IN  /\ at.vmNode \in DOMAIN tfg.nodeMap
        /\ at.index \in 1..Len(tfg.nodeMap[at.vmNode])
        /\ tfg.nodeMap[at.vmNode][at.index] = a

\* Every instruction of a block is indexed, by that block and position, and a
\* block is filed under its first instruction.
BlocksIndexed ==
  \A n \in DOMAIN tfg.nodeMap :
    /\ tfg.nodeMap[n][1] = n
    /\ \A i \in 1..Len(tfg.nodeMap[n]) :
         /\ tfg.nodeMap[n][i] \in DOMAIN tfg.instructionToNodeMap
         /\ tfg.instructionToNodeMap[tfg.nodeMap[n][i]] =
              [vmNode |-> n, index |-> i]

\* Every address is in at most one block, once, and instructionToNodeMap
\* points at that very block and position: splitBlock and executeMerge move
\* addresses between blocks and erase nodes other entries may still point to.
MapsAgree == IndexNamesInstruction /\ BlocksIndexed

\* fromEdges and toEdges are the same relation read from its two ends, as
\* checkCanMerge assumes when it follows toEdges back and counts fromEdges.
EdgesInverse ==
  \A f, t \in Addr : t \in tfg.fromEdges[f] <=> f \in tfg.toEdges[t]

\* An edge leaves the last instruction of a block and enters the first of
\* one: what executeMerge relies on to drop the edge it turns into adjacency.
EdgesTailToHead ==
  \A f \in Addr : \A t \in tfg.fromEdges[f] : IsTail(tfg, f) /\ IsHead(tfg, t)

Follows(f, t) ==
  LET at == tfg.instructionToNodeMap[f]
  IN  ~ IsTail(tfg, f) /\ tfg.nodeMap[at.vmNode][at.index + 1] = t

\* The transitions of the trace AddTraceFlow has processed.
Linked == {i \in 1..(flowIdx - 1) : traceList[i] # traceList[i + 1]}

\* Whatever the splits and merges did, each step of the trace is next to next
\* inside a block or leaves the block at its end, and a jump out of a block
\* has its edge to the start of another: a block never leads anywhere the
\* trace did not go.
TraceFollowsBlocks ==
  \A i \in Linked :
    LET f == traceList[i]
        t == traceList[i + 1]
    IN  \/ Follows(f, t)
        \/ /\ IsTail(tfg, f)
           /\ isEndIns(code[f].kind) => IsHead(tfg, t) /\ t \in tfg.fromEdges[f]

\* A ret never lies inside a block, and a register jump only where
\* checkCanMerge_Vmp lets the handlers of VMP_380 run on: among the first two
\* instructions of a block, right after an add to its register, or, since
\* nodes merge in the order of their addresses, among the first two of the
\* piece the trace was cut into, which follows the end of another.
DispatchEndsBlock ==
  \A n \in DOMAIN tfg.nodeMap : \A i \in 1..(Len(tfg.nodeMap[n]) - 1) :
    LET kind(j) == code[tfg.nodeMap[n][j]].kind
    IN  /\ kind(i) # "ret"
        /\ kind(i) = "jmpreg" =>
             /\ Version = "VMP_380"
             /\ \/ i <= 2
                \/ kind(i - 1) = "addreg"
                \/ isEndIns(kind(i - 1)) \/ isEndIns(kind(i - 2))

\* The instruction-level successor relation the graph stands for.
Flow(g) ==
  {e \in Addr \X Addr : e[2] \in g.fromEdges[e[1]]} \cup
  UNION {{<<g.nodeMap[n][i], g.nodeMap[n][i + 1]>> :
            i \in 1..(Len(g.nodeMap[n]) - 1)} : n \in DOMAIN g.nodeMap}

\* Merging changes which block an instruction is in, never what follows it.
MergePreservesFlow ==
  [][phase = "merge" => Flow(tfg') = Flow(tfg)]_vars

\* A task that has begun comes back to its caller: the merge loop's
\* do-while reaches a pass that merges nothing.
TaskCompletes == phase # "idle" ~> phase = "idle"

\* Comment at VmpTraceFlowGraph.cpp:229: addNormalLink's exception is
\* impossible in theory.
NormalLinkNeverThrows == phase # "throw"

\* Comment at VmpTraceFlowGraph.cpp:107: a child that points to its father
\* is not merged, so no node is merged whose end leads back to the father.
MergeRefusesBackEdge ==
  phase = "merge" =>
    \A n \in DOMAIN tfg.nodeMap :
      CanMerge(n) => Father(tfg, n) \notin tfg.fromEdges[EndAddr(tfg, n)]

=============================================================================
