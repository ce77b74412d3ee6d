----------------------- MODULE VmpControlFlowBuilder -----------------------
(***************************************************************************)
(* How PrintGraph gets a function's control flow graph: BuildCFG works     *)
(* through a queue of tasks, each following native code or one run of      *)
(* virtual instructions (GhidraExtension/VmpControlFlow.cpp, and           *)
(* executeVmpOp with its handlers in VmpCore/VmpBlockBuilder.cpp), then    *)
(* buildEdges and buildFinalFunction turn the recorded edges into a graph  *)
(* and MergeNodes simplifies it.                                           *)
(*                                                                         *)
(* Native instruction a is at <<a, 0>>, the VM_INIT of the entry a at      *)
(* <<a, a>>, a virtual instruction at <<handler, bytecode>>, where the     *)
(* bytecode is 0 as long as the walk has no register to read it from.      *)
(* What the emulator and the pattern analyses find out about a virtual     *)
(* instruction is a table, virtual; that they give up half way, or never   *)
(* return, is a choice.                                                    *)
(***************************************************************************)
EXTENDS VmpControlFlow

CONSTANTS
  Start,        \* the address PrintGraph is asked for
  Binaries,     \* what may be analysed: native code, [kind, target] by address,
                \* virtual code, [op, to] by VmAddress, and the set of addresses
                \* that carry a "vmp entry" comment
  VmStart,      \* where each entry's bytecode begins
  WalkSize      \* the trace a walk follows, in handlers (StartWalk's 0x10000)

Kinds == {"normal", "jmp", "jcc", "stop", "bad"}
Ops == {"plain", "jmp", "jmpconst", "dead", "exit", "exitcall"}

\* The addresses that may be looked at as native code.
NativePlaces(nat, virt) ==
  {Start} \cup DOMAIN nat \cup {a + 1 : a \in DOMAIN nat}
    \cup {nat[a].target : a \in DOMAIN nat}
    \cup UNION {virt[v].to : v \in {w \in DOMAIN virt : virt[w].op = "exit"}}

\* No code lies at 0, and native code leads to no handler whose instruction has
\* no bytecode address.  Where virtual code goes on there is virtual code; what
\* a marked or recognised entry leads to is virtual code as well.
ASSUME BinariesAssumption ==
  /\ Start \in Nat /\ DOMAIN VmStart \subseteq Nat \ {0}
  /\ \A b \in Binaries :
       /\ b.marks \subseteq DOMAIN VmStart
       /\ DOMAIN b.native \subseteq Nat \ {0}
       /\ \A a \in DOMAIN b.native :
            b.native[a].kind \in Kinds /\ b.native[a].target \in Nat
       /\ \A v \in DOMAIN b.virtual :
            /\ v \in (Nat \ {0}) \X Nat
            /\ v[2] = 0 => v[1] \notin NativePlaces(b.native, b.virtual)
            /\ b.virtual[v].op \in Ops /\ IsFiniteSet(b.virtual[v].to)
            /\ b.virtual[v].to \subseteq
                 CASE b.virtual[v].op = "exit"     -> Nat
                   [] b.virtual[v].op = "exitcall" -> DOMAIN VmStart
                   [] OTHER                        -> DOMAIN b.virtual
       /\ \A a \in DOMAIN VmStart : VmStart[a] \in DOMAIN b.virtual

VARIABLES
  native, virtual, isVmpEntry,  \* the binary and its marks, fixed
  anaQueue,     \* queue of VmpFlowBuildContext
  task,         \* the task taken from it, or NoTask
  curAddr,      \* the instruction the task has reached
  curBlock,     \* the block it is filling, or NoBlock,
  walked,       \* and the handlers it has walked over
  visited,
  fromEdges,    \* the recorded edges, as pairs
  vmInsBlocks   \* blocks with flag vm_ins_block

binary == <<native, virtual, isVmpEntry>>
taskVars == <<task, curAddr, curBlock, walked>>
graphVars == <<blockVars, startBlock, vmInsBlocks>>
buildVars == <<binary, anaQueue, taskVars, visited, fromEdges, vmInsBlocks>>
allVars == <<vars, buildVars>>

Zero == <<0, 0>>
Native(a) == <<a, 0>>
Entry(a) == <<a, a>>
NoBlock == Zero
NoTask == [btype |-> "none", start |-> Zero, from |-> Zero]

\* A HANDLE_VMP_JMP task carries an emulator context, not a start address:
\* its start is the virtual instruction the context is about to execute.
NormalTask(a) == [btype |-> "normal", start |-> Native(a), from |-> Zero]
EntryTask(a, from) == [btype |-> "entry", start |-> Native(a), from |-> from]
JmpTask(v, from) == [btype |-> "jmp", start |-> v, from |-> from]

addNextTask(from, a) ==
  IF a \in isVmpEntry THEN EntryTask(a, from) ELSE NormalTask(a)

LastOf(b) == insList[b][Len(insList[b])]

\* An instruction; to is what buildFinalFunction stores in it: the bytecode
\* addresses of a branchList or targetAddr, the raw one of an exitAddress or a
\* connectAddr.
Item(op, addr) == [op |-> op, addr |-> addr, to |-> {}]

----------------------------------------------------------------------------
BuildInit ==
  /\ \E b \in Binaries :
       native = b.native /\ virtual = b.virtual /\ isVmpEntry = b.marks
  /\ insList = <<>> /\ inBlocks = <<>> /\ outBlocks = <<>>
  /\ startBlock = Unset
  /\ phase = "build"
  /\ badNodeList = {} /\ cursor = MapBegin /\ bUpdateNode = FALSE
  /\ anaQueue = <<NormalTask(Start)>>
  /\ task = NoTask /\ curAddr = Zero /\ curBlock = NoBlock /\ walked = 0
  /\ visited = {} /\ fromEdges = {} /\ vmInsBlocks = {}

\* createNewBlock(b), when b is new to this task, and a push_back on insList
\* for each of items.
AddInstructions(b, items, isVm) ==
  LET old == IF b \in blocksMap THEN insList[b] ELSE <<>>
      new == blocksMap \cup {b}
  IN  /\ insList' = [c \in new |-> IF c = b THEN old \o items ELSE insList[c]]
      /\ inBlocks' = [c \in new |-> {}] /\ outBlocks' = [c \in new |-> {}]
      /\ startBlock' = IF new = {b} THEN b ELSE startBlock
      /\ vmInsBlocks' = IF isVm THEN vmInsBlocks \cup {b} ELSE vmInsBlocks

Idle == phase = "build" /\ task = NoTask
Running(btype) == phase = "build" /\ task.btype = btype
TaskEnds == task' = NoTask /\ curAddr' = Zero /\ curBlock' = NoBlock /\ walked' = 0

\* BuildCFG takes the next task; a native address is followed once.
TakeTask ==
  /\ Idle /\ anaQueue # <<>>
  /\ anaQueue' = Tail(anaQueue)
  /\ LET t == Head(anaQueue)
         again == t.btype = "normal" /\ t.start \in visited
     IN  /\ task' = IF again THEN NoTask ELSE t
         /\ curAddr' = IF again THEN Zero ELSE t.start
         /\ visited' = IF t.btype = "normal" THEN visited \cup {t.start} ELSE visited
  /\ UNCHANGED <<vars, binary, curBlock, walked, fromEdges, vmInsBlocks>>

----------------------------------------------------------------------------
(* fallthruNormal, one round of its loop.                                  *)

AtEntry == curAddr[1] \in isVmpEntry
Decoded == IF curAddr[1] \in DOMAIN native THEN native[curAddr[1]].kind ELSE "bad"

FallIntoEntry ==
  /\ Running("normal") /\ AtEntry
  /\ anaQueue' = Append(anaQueue,
       EntryTask(curAddr[1], IF curBlock = NoBlock THEN Zero
                                                   ELSE LastOf(curBlock).addr))
  /\ TaskEnds
  /\ UNCHANGED <<vars, binary, visited, fromEdges, vmInsBlocks>>

\* DisasmException leaves BuildCFG: a block just created stays empty.
DecodeFails ==
  /\ Running("normal") /\ ~ AtEntry /\ Decoded = "bad"
  /\ AddInstructions(IF curBlock = NoBlock THEN curAddr ELSE curBlock, <<>>, FALSE)
  /\ phase' = "throw"
  /\ TaskEnds
  /\ UNCHANGED <<mergeVars, binary, anaQueue, visited, fromEdges>>

\* Mutants: the way past a conditional jump is not followed, or not queued.
JumpsTakenOnly(a) ==
  IF native[a].kind \in {"jmp", "jcc"} THEN <<native[a].target>> ELSE <<>>
NextTasksFirstOnly(jumps) ==
  IF jumps = <<>> THEN <<>> ELSE <<addNextTask(curAddr, jumps[1])>>

\* Where the jump at a goes, in the order it is linked and queued.
Jumps(a) ==
  CASE native[a].kind = "jmp" -> <<native[a].target>>
    [] native[a].kind = "jcc" -> <<native[a].target, a + 1>>
    [] OTHER                  -> <<>>

NextTasks(jumps) == [i \in DOMAIN jumps |-> addNextTask(curAddr, jumps[i])]

\* The loop never looks whether another block begins at curAddr.
FollowNormal ==
  LET a     == curAddr[1]
      b     == IF curBlock = NoBlock THEN curAddr ELSE curBlock
      jumps == Jumps(a)
  IN  /\ Running("normal") /\ ~ AtEntry /\ Decoded # "bad"
      /\ AddInstructions(b, <<Item(Decoded, curAddr)>>, FALSE)
      /\ fromEdges' = fromEdges \cup
           {<<curAddr, Native(jumps[i])>> : i \in DOMAIN jumps}
      /\ anaQueue' = anaQueue \o NextTasks(jumps)
      /\ IF Decoded = "normal"
           THEN curAddr' = Native(a + 1) /\ curBlock' = b /\ UNCHANGED <<task, walked>>
           ELSE TaskEnds
  /\ UNCHANGED <<phase, mergeVars, binary, visited>>

----------------------------------------------------------------------------
(* fallthruVmp: BuildVmpBlock, one virtual instruction at a time.          *)

\* executeVmpOp of the virtual instruction at v.  The first one links the
\* block that pushed the task and, if it starts a block already built, ends
\* the task.
Visited(v) == curBlock = NoBlock /\ v \in visited

Links(v) ==
  IF curBlock = NoBlock /\ task.from # Zero THEN {<<task.from, v>>} ELSE {}

ReachVisited(v) ==
  /\ Visited(v)
  /\ fromEdges' = fromEdges \cup Links(v)
  /\ TaskEnds
  /\ UNCHANGED <<vars, binary, anaQueue, visited, vmInsBlocks>>

\* next: the tasks the handler of the instruction queues; edges: what it links.
ExecuteOp(v, ops, next, edges) ==
  /\ ~ Visited(v)
  /\ visited' = IF curBlock = NoBlock THEN visited \cup {v} ELSE visited
  /\ AddInstructions(IF curBlock = NoBlock THEN v ELSE curBlock,
                     [i \in DOMAIN ops |-> Item(ops[i], v)], TRUE)
  /\ anaQueue' = anaQueue \o next
  /\ fromEdges' = fromEdges \cup Links(v) \cup edges
  /\ UNCHANGED <<phase, mergeVars, binary>>

\* The emulated trace ends, or is not recognised, before the task is done.
VmWalkEnds ==
  /\ Running("entry") \/ Running("jmp")
  /\ TaskEnds
  /\ UNCHANGED <<vars, binary, anaQueue, visited, fromEdges, vmInsBlocks>>

\* AddTraceFlow throws, or the decompiler makes nothing of a handler: the
\* exception leaves BuildCFG.
VmWalkThrows ==
  /\ Running("entry") \/ Running("jmp")
  /\ phase' = "throw"
  /\ TaskEnds
  /\ UNCHANGED <<graphVars, mergeVars, binary, anaQueue, visited, fromEdges>>

\* MergeAllNodes never returns (TraceFlowSelfMerge): on the trace the task is
\* walked by, or on the one FastCheckVmpEntry follows at an exit.  What has been
\* built is not used any more.
VmWalkHangs ==
  /\ \/ (Running("entry") \/ Running("jmp")) /\ walked = 0
     \/ /\ Running("jmp") /\ ~ Visited(curAddr)
        /\ virtual[curAddr].op \in {"exit", "exitcall"}
  /\ phase' = "hang"
  /\ UNCHANGED <<graphVars, mergeVars, binary, anaQueue, taskVars, visited, fromEdges>>

\* Mutant: the walk outlives its trace.
MoveToNextForever == walked' = walked /\ curAddr' \in virtual[curAddr].to

MoveToNext ==
  walked < WalkSize /\ walked' = walked + 1 /\ curAddr' \in virtual[curAddr].to

\* A handler that leaves no instruction: a stack check, junk code, or a
\* VM_JMP_CONST met before the vm registers are known.
SkipOp ==
  /\ Running("jmp") /\ virtual[curAddr].op \in {"plain", "jmpconst"}
  /\ MoveToNext
  /\ UNCHANGED <<vars, binary, anaQueue, task, curBlock, visited, fromEdges, vmInsBlocks>>

\* Execute_FIND_VM_INIT has recognised the entry; executeVmInit queues the
\* code behind it.
FindVmInit ==
  LET a == task.start[1]
  IN  /\ Running("entry")
      /\ \/ ReachVisited(Entry(a))
         \/ /\ ExecuteOp(Entry(a), <<"init">>,
                         <<JmpTask(VmStart[a], Entry(a))>>, {})
            /\ TaskEnds

\* Virtual instructions without a branch: the walk goes on behind them.
PlainOp ==
  /\ Running("jmp") /\ virtual[curAddr].op = "plain"
  /\ \/ ReachVisited(curAddr)
     \/ /\ ExecuteOp(curAddr, <<"plain">>, <<>>, {})
        /\ MoveToNext
        /\ curBlock' = IF curBlock = NoBlock THEN curAddr ELSE curBlock
        /\ UNCHANGED task

\* VM_JMP queues a task for every branch GuessVmpBranch finds, VM_JMP_CONST
\* one for the only place the emulator can go to.
JmpOp ==
  LET op == virtual[curAddr].op
      to == virtual[curAddr].to
  IN  /\ Running("jmp") /\ op \in {"jmp", "jmpconst"}
      /\ \/ ReachVisited(curAddr)
         \/ /\ \E order \in [1..Cardinality(to) -> to] :
                 /\ {order[i] : i \in DOMAIN order} = to
                 /\ ExecuteOp(curAddr, <<op>>,
                      [i \in DOMAIN order |-> JmpTask(order[i], curAddr)], {})
            /\ TaskEnds

\* executeVmExit.  GuessVmpBranch finds no single address, or 0 ("dead"); the
\* exit is a call of an entry FastCheckVmpEntry recognises ("exitcall"); or it
\* goes to native code.  One to a marked entry is neither queued nor linked.
ExitOp ==
  LET op == virtual[curAddr].op
  IN  /\ Running("jmp") /\ op \in {"dead", "exitcall", "exit"}
      /\ \/ ReachVisited(curAddr)
         \/ /\ op = "dead"
            /\ ExecuteOp(curAddr, <<"exit">>, <<>>, {})
            /\ TaskEnds
         \/ /\ op = "exitcall"
            /\ \E a \in virtual[curAddr].to :
                 ExecuteOp(curAddr, <<"exit", "exitcall">>,
                           <<EntryTask(a, curAddr)>>, {})
            /\ TaskEnds
         \/ /\ op = "exit"
            /\ \E a \in virtual[curAddr].to :
                 ExecuteOp(curAddr, <<"exit">>,
                   IF a \in isVmpEntry THEN <<>> ELSE <<NormalTask(a)>>,
                   IF a \in isVmpEntry THEN {} ELSE {<<curAddr, Native(a)>>})
            /\ TaskEnds

FallthruVmp ==
  \/ VmWalkEnds \/ VmWalkThrows \/ VmWalkHangs
  \/ SkipOp \/ FindVmInit \/ PlainOp \/ JmpOp \/ ExitOp

----------------------------------------------------------------------------
(* buildEdges and buildFinalFunction, when the queue has run empty.        *)

EdgeTargets(b) == {e[2] : e \in {x \in fromEdges : x[1] = LastOf(b).addr}}
IsEndBlock(b) == EdgeTargets(b) = {}
Out == [b \in blocksMap |-> EdgeTargets(b) \cap blocksMap]

\* Mutant: blocks without edges are not left alone.
NeedsConnectAlways(b) ==
  b \notin vmInsBlocks /\ LastOf(b).op \notin {"jmp", "jcc"}

\* A native block that runs into virtual code gets a UserOpConnect to the
\* first of its outBlocks, without asking whether there is one.
NeedsConnect(b) ==
  b \notin vmInsBlocks /\ ~ IsEndBlock(b) /\ LastOf(b).op \notin {"jmp", "jcc"}

\* outBlocks[0], if there is one: edges are kept and linked in order.
First(b) == {c \in Out[b] : \A d \in Out[b] \ {c} : Before(c, d)}

\* What buildFinalFunction writes into the end of a virtual block: every
\* bytecode address of a VM_JMP, the only one of a VM_JMP_CONST, and where the
\* first block of an exit begins.
Resolved(b) ==
  LET op == LastOf(b).op
  IN  CASE b \notin vmInsBlocks -> {}
        [] op = "jmp" \/ (op = "jmpconst" /\ Cardinality(Out[b]) = 1)
             -> {c[2] : c \in Out[b]}
        [] op \in {"exit", "exitcall"} -> {c[1] : c \in First(b)}
        [] OTHER -> {}

\* UserOpConnect, with its connectAddr.
Connect(b) == [op |-> "connect", addr |-> LastOf(b).addr, to |-> {c[1] : c \in First(b)}]

Finished(b) ==
  [insList[b] EXCEPT ![Len(insList[b])].to = Resolved(b)] \o
  IF NeedsConnect(b) THEN <<Connect(b)>> ELSE <<>>

BuildEdges ==
  /\ Idle /\ anaQueue = <<>>
  /\ outBlocks' = Out /\ inBlocks' = MirrorOf(Out)
  /\ insList' = [b \in blocksMap |-> Finished(b)]
  /\ phase' = IF \E b \in blocksMap : NeedsConnect(b) /\ Out[b] = {}
                THEN "crash" ELSE "merge"
  /\ UNCHANGED <<startBlock, mergeVars, binary, anaQueue, taskVars, visited,
                 fromEdges, vmInsBlocks>>

Build == TakeTask \/ FallIntoEntry \/ DecodeFails \/ FollowNormal \/ FallthruVmp
           \/ BuildEdges

BuildNext == Build \/ (MergeNodes /\ UNCHANGED buildVars)

BuildSpec == BuildInit /\ [][BuildNext]_allVars

\* PrintGraph runs to its end on IDA's main thread.
FairBuildSpec == BuildSpec /\ WF_allVars(BuildNext)

----------------------------------------------------------------------------
\* When the queue runs empty, every recorded edge leads to a block, so
\* buildEdges skips none but a native jump's to a marked entry, whose block
\* has the address <<a, a>>: no task was lost, none was taken for another's.
NoEdgeDropped ==
  Idle /\ anaQueue = <<>> =>
    \A e \in fromEdges : e[2] \in blocksMap \/ e[2][1] \in isVmpEntry

\* buildFinalFunction never reads the first of no outBlocks.
ConnectHasTarget == phase # "crash"

\* A place of native code, not of a virtual instruction without bytecode.
IsNative(v) == v[2] = 0 /\ v \notin DOMAIN virtual

\* The places the binary's native instruction at a leads to.
NativeNext(a) ==
  CASE native[a].kind = "normal" -> {a + 1}
    [] native[a].kind = "jmp"    -> {native[a].target}
    [] native[a].kind = "jcc"    -> {native[a].target, a + 1}
    [] OTHER                     -> {}

\* The addresses the graph has behind position i of block b.
GraphNext(b, i) ==
  LET list == insList[b]
      j    == IF i < Len(list) /\ list[i + 1].op = "connect" THEN i + 2 ELSE i + 1
  IN  IF j <= Len(list) THEN {list[j].addr}
                        ELSE {insList[c][1].addr : c \in outBlocks[b]}

\* In the finished graph, before, during and after the merges, a native
\* instruction is followed by what follows it in the binary: nothing else,
\* and nothing missing but an entry whose VM_INIT was not recognised.
FlowSound ==
  phase \in {"merge", "done"} =>
    \A b \in blocksMap : \A i \in DOMAIN insList[b] :
      LET item == insList[b][i]
          next == GraphNext(b, i)
      IN  item.op \in Kinds /\ IsNative(item.addr) =>
            /\ next \subseteq UNION {{Native(a), Entry(a)} : a \in NativeNext(item.addr[1])}
            /\ \A a \in NativeNext(item.addr[1]) :
                 a \in isVmpEntry \/ Native(a) \in next

\* The targets buildFinalFunction writes into the end of a block are what the
\* graph has behind it, also after MergeNodes has moved it inside a block: the
\* bytecode of all of a virtual jump's, for an exit the address of one of them.
BranchesMatchGraph ==
  phase \in {"merge", "done"} =>
    \A b \in blocksMap : \A i \in DOMAIN insList[b] :
      LET item == insList[b][i]
          next == GraphNext(b, i)
      IN  item.to # {} =>
            IF item.op \in {"jmp", "jmpconst"}
              THEN item.to = {n[2] : n \in next}
              ELSE \E n \in next : item.to = {n[1]}

\* PrintGraph's work ends, whatever loops the native and the virtual code have:
\* only behind a marked entry can it hang, in a MergeAllNodes.
BuildCompletes ==
  <>(phase \in {"done", "throw"} \/ (phase = "hang" /\ isVmpEntry # {}))

=============================================================================
