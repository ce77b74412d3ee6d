--------------------------- MODULE VmpBlockBuilder ---------------------------
(***************************************************************************)
(* BuildVmpBlock (VmpCore/VmpBlockBuilder.cpp): a task traces the program, *)
(* feeds the trace to the function's trace graph (VmpTraceFlowGraph), then *)
(* a VmpBlockWalker cuts the trace into the graph's blocks and each block  *)
(* is taken for one handler of the virtual machine: its pattern comes from *)
(* the engine's cache or from an analysis whose result the cache keeps.    *)
(* FastCheckVmpEntry does the same to one entry on a graph of its own.     *)
(*                                                                         *)
(* idx counts contexts as in the code; position i of traceList is its      *)
(* index i - 1.  A context is the EIP it holds.  Virtual instructions are  *)
(* numbered in the order the bytecode has them; only a VM_JMP leaves it.   *)
(***************************************************************************)
EXTENDS VmpTraceFlowGraph

CONSTANTS
  Roles,          \* which registers hold the bytecode and the stack pointer
  Handlers,       \* what each instruction contributes: [op, role] by address
  Seeds,          \* the entries BuildCFG queues for a function, in order
  VmStart,        \* the number of the first virtual instruction of an entry
  BranchVips,     \* where a VM_JMP may lead
  InitSlots,      \* stack slots a VM_INIT fills (11)
  InitAttempts,   \* blocks tried for it (3)
  CheckWalk,      \* instructions FastCheckVmpEntry traces (0x1000)
  MaxFunctions    \* functions built with one cache

NoRole == "none"

\* "pushkey" and "push" fill a slot of the stack before the virtual machine
\* runs.  The others are what the pattern analysis can find in a handler:
\* "stackop" stands for every instruction found by the stack pointer it uses.
VmOps == {"popreg", "stackop", "jmp", "jmpconst", "exit"}
Marks == VmOps \cup {"none", "pushkey", "push"}

ASSUME BuilderAssumption ==
  /\ NoRole \notin Roles
  /\ Handlers \subseteq [Addr -> [op : Marks, role : Roles]]
  /\ Seeds \subseteq Seq(Entries)
  /\ VmStart \in [Entries -> Nat \ {0}]
  /\ BranchVips \subseteq Nat \ {0} /\ IsFiniteSet(BranchVips)
  /\ InitSlots \in Nat \ {0} /\ InitAttempts \in Nat \ {0}
  /\ CheckWalk \in 1..MaxTrace /\ MaxFunctions \in Nat \ {0}

VARIABLES
  does,              \* what the instructions do, fixed
  functions,         \* functions begun
  anaQueue,          \* queue of tasks
  visited,           \* the names of the blocks built,
  blockVip,          \* and the virtual instruction each really begins with
  handlerPatternMap, \* the engine's cache: first and last address to pattern
  task,              \* the running task
  saved,             \* the function's graph while FastCheckVmpEntry runs
  status,            \* VM_MATCH_STATUS, or how BuildVmpBlock came back
  attempt,           \* Execute_FIND_VM_INIT's n
  nodeInput,         \* the block(s) under analysis
  idx, curNodeSize,  \* the walker
  vmreg,             \* the role selected, or NoRole
  curBlock,          \* the name of the block being filled, or NoName
  accepted           \* what FastCheckVmpEntry has accepted

walker == <<idx, curNodeSize>>
builderVars == <<does, functions, anaQueue, visited, blockVip, handlerPatternMap,
                 task, saved, status, attempt, nodeInput, walker, vmreg, curBlock,
                 accepted>>
allVars == <<vars, builderVars>>

\* "found" is FINISH_MATCH, which ends the loop of BuildVmpBlock; "false" its
\* other return; "overread" a read behind the end of traceList.
Ended == {"found", "false", "overread", "throw"}
Running == {"trace", "FIND_VM_INIT", "match", "FINISH_VM_INIT"}

NoName == <<0, 0>>
Task(btype, start, vip) == [btype |-> btype, start |-> start, vip |-> vip]
EntryTask(a) == Task("entry", a, VmStart[a])

----------------------------------------------------------------------------
(* VmpBlockWalker.                                                         *)

NoNode == [addrs |-> <<>>, contexts |-> <<>>, at |-> 0, overread |-> FALSE]

\* Mutant: the walker takes the whole block, wherever the trace enters it.
BlockFromHead(a) == tfg.nodeMap[tfg.instructionToNodeMap[a].vmNode]

\* The block an address is in, from that address to its end.
BlockFrom(a) ==
  LET at   == tfg.instructionToNodeMap[a]
      list == tfg.nodeMap[at.vmNode]
  IN  SubSeq(list, at.index, Len(list))

\* The positions of a stretch of the trace at which the EIP changes.
Steps(from, to) ==
  {k \in from..to : k = from \/ traceList[k] # traceList[k - 1]}

\* Mutant: one context for every address, though rep leaves several.
SizesFlat(i, addrs) ==
  {n \in 1..(Len(traceList) - i + 1) : n = Len(addrs)}

\* The numbers of contexts that hold as many different instructions in a row
\* as the block has; the loop stops at the least.
Sizes(i, addrs) ==
  {n \in 1..(Len(traceList) - i + 1) :
     Cardinality(Steps(i, i + n - 1)) = Len(addrs)}

\* GetNextNode at position i.  Nothing looks for the end of the trace, and an
\* address without a block gives an empty node.
GetNextNode(i) ==
  IF i > Len(traceList) THEN [NoNode EXCEPT !.overread = TRUE]
  ELSE IF traceList[i] \notin DOMAIN tfg.instructionToNodeMap THEN NoNode
  ELSE LET addrs == BlockFrom(traceList[i])
           sizes == Sizes(i, addrs)
       IN  IF sizes = {} THEN [NoNode EXCEPT !.overread = TRUE]
           ELSE [addrs |-> addrs, at |-> i, overread |-> FALSE,
                 contexts |-> SubSeq(traceList, i, i + Least(sizes) - 1)]

IsWalkToEnd(i) == i >= Len(traceList)

\* VmpNode::append.
AppendNode(node, other) ==
  [node EXCEPT !.addrs = @ \o other.addrs, !.contexts = @ \o other.contexts,
               !.overread = @ \/ other.overread]

\* The position at which an emulation of n instructions from position i stops:
\* CopyCurrentUnicornContext hands on the last context it saw.
Replay(i, n) == IF i + n - 1 <= Len(traceList) THEN i + n - 1 ELSE Len(traceList)

\* The virtual instruction about to run at position i.
Vip(i) ==
  task.vip + Cardinality({j \in 1..(i - 1) : does[traceList[j]].op \in VmOps})

----------------------------------------------------------------------------
(* The pattern analysis.  A handler does one thing; a block that does two  *)
(* has loads and stores no pattern fits.                                   *)

VmInstructions(addrs) == {a \in Elements(addrs) : does[a].op # "none"}

\* ExtractVmStoreContext: push, and the return address of a call.
Slots(addrs) ==
  Cardinality({i \in 1..Len(addrs) : does[addrs[i]].op \in {"pushkey", "push"}
                                     \/ code[addrs[i]].kind = "call"})

isVmPushKey(addrs) ==
  /\ Len(addrs) = 2
  /\ does[addrs[1]].op = "pushkey" /\ code[addrs[2]].kind = "call"

Unknown == [op |-> "unknown", role |-> NoRole, addr |-> 0]
Junk == [op |-> "junk", role |-> NoRole, addr |-> 0]

\* AnaVmpPattern when reg is selected.  A VM_POP_REG selects its registers if
\* none are; what uses the virtual stack is compared with them.
AnaVmpPattern(addrs, reg) ==
  LET found == VmInstructions(addrs)
      a     == CHOOSE x \in found : TRUE
      op    == does[a].op
  IN  CASE found = {} -> Junk
        [] Cardinality(found) = 1 /\
           \/ op = "popreg" /\ reg \in {NoRole, does[a].role}
           \/ op \in {"stackop", "jmp"} /\ reg = does[a].role
           \/ op \in {"jmpconst", "exit"}
             -> [op |-> op, role |-> does[a].role, addr |-> a]
        [] OTHER -> Unknown

\* The registers of position i: the program keeps its bytecode pointer where
\* the next virtual instruction it runs will use it.
Holds(i, role) ==
  \A j \in i..Len(traceList) :
    /\ does[traceList[j]].op \in VmOps
    /\ \A k \in i..(j - 1) : does[traceList[k]].op \notin VmOps
    => does[traceList[j]].role = role

Wrong == -1

\* ReadReg in the context at position i: no register gives 0, one that does not
\* hold the pointer something else.
ReadReg(i, role) ==
  CASE role = NoRole -> 0
    [] role # NoRole /\ Holds(i, role) -> Vip(i)
    [] OTHER -> Wrong

\* Mutant: the register is read in the last context of the node.
readVmAddressAtEnd(node, reg) ==
  <<node.addrs[1], ReadReg(node.at + Len(node.contexts) - 1, reg)>>

\* The node's first address, and the register in its first context.
readVmAddress(node, reg) == <<node.addrs[1], ReadReg(node.at, reg)>>

NoInstruction == [op |-> "none", addr |-> NoName, role |-> NoRole]

\* Mutant: a VM_POP_REG reads the register the task has selected, as all the
\* other instructions do.
MakeInstructionTaskReg(pattern, node, reg) ==
  IF pattern.op = "jmpconst" /\ reg = NoRole THEN NoInstruction
  ELSE [op |-> pattern.op, addr |-> readVmAddress(node, reg), role |-> pattern.role]

\* MakeInstruction.  VM_POP_REG (like VM_PUSH_REG and VM_PUSH_IMM) looks for
\* its memory access among the contexts and gives up without it.
MakeInstruction(pattern, node, reg) ==
  CASE pattern.op = "jmpconst" /\ reg = NoRole -> NoInstruction
    [] pattern.op = "popreg" /\ pattern.addr \notin Elements(node.contexts)
         -> NoInstruction
    [] OTHER -> [op |-> pattern.op, role |-> pattern.role,
                 addr |-> readVmAddress(node,
                            IF pattern.op = "popreg" THEN pattern.role ELSE reg)]

\* Mutant: the cache knows a handler by its first address.
RangeOfFirst(node) == <<node.addrs[1], node.addrs[1]>>

VmpHandlerRange(node) == <<node.addrs[1], node.addrs[Len(node.addrs)]>>

----------------------------------------------------------------------------
BuilderInit ==
  /\ Init
  /\ does \in Handlers
  /\ functions = 0 /\ anaQueue = <<>> /\ visited = {} /\ blockVip = <<>>
  /\ handlerPatternMap = <<>>
  /\ task = Task("none", 0, 0) /\ saved = EmptyGraph
  /\ status = "false" /\ attempt = 0 /\ nodeInput = NoNode
  /\ idx = 0 /\ curNodeSize = 0
  /\ vmreg = NoRole /\ curBlock = NoName
  /\ accepted = {}

\* MakeFunction and BuildCFG: the graph, the queue and the visited set are the
\* function's, the cache is the engine's.
NewFunction ==
  /\ status \in Ended \ {"overread"} /\ functions < MaxFunctions
  /\ status # "throw" => anaQueue = <<>>
  /\ functions' = functions + 1
  /\ \E seed \in Seeds : anaQueue' = [i \in DOMAIN seed |-> EntryTask(seed[i])]
  /\ visited' = {} /\ blockVip' = <<>> /\ accepted' = {}
  /\ tfg' = EmptyGraph
  /\ phase' = "idle" /\ status' = "false" /\ task' = Task("none", 0, 0)
  /\ traceList' = <<>> /\ flowIdx' = 1
  /\ attempt' = 0 /\ nodeInput' = NoNode /\ idx' = 0 /\ curNodeSize' = 0
  /\ vmreg' = NoRole /\ curBlock' = NoName
  /\ UNCHANGED <<code, tasks, mergeVars, does, handlerPatternMap, saved>>

\* A new VmpBlockBuilder and StartVmpTrace.
Begin(t, graph) ==
  /\ tasks < MaxTasks
  /\ tasks' = tasks + 1
  /\ task' = t /\ status' = "trace"
  /\ tfg' = graph
  /\ traceList' = <<t.start>> /\ flowIdx' = 1 /\ phase' = "emulate"
  /\ attempt' = 0 /\ nodeInput' = NoNode
  /\ idx' = 0 /\ curNodeSize' = 0
  /\ UNCHANGED <<code, mergeVars, does, functions>>

BuildVmpBlock ==
  /\ status \in Ended \ {"throw", "overread"} /\ anaQueue # <<>>
  /\ Begin(Head(anaQueue), tfg)
  /\ anaQueue' = Tail(anaQueue)
  /\ vmreg' = NoRole /\ curBlock' = NoName
  /\ UNCHANGED <<visited, blockVip, handlerPatternMap, saved, accepted>>

\* The emulation, AddTraceFlow and MergeAllNodes; then the walk begins.
TraceStep ==
  /\ status = "trace"
  /\ \/ (task.btype = "check" => Len(traceList) < CheckWalk) /\ Emulate
     \/ EmulationEnds \/ AddTraceFlow \/ AddTraceFlowReturns \/ MergeAllNodes
  /\ status' = CASE phase' = "throw" -> "throw"
                 [] phase' = "idle" /\ task.btype = "jmp" -> "FINISH_VM_INIT"
                 [] phase' = "idle" /\ task.btype # "jmp" -> "FIND_VM_INIT"
                 [] OTHER -> status
  /\ UNCHANGED <<does, functions, anaQueue, visited, blockVip, handlerPatternMap,
                 task, saved, attempt, nodeInput, walker, vmreg, curBlock, accepted>>

\* What a walk never changes, and what only the end of a handler does.
WalkFrame ==
  UNCHANGED <<code, phase, tasks, traceList, flowIdx, mergeVars, does, functions, task>>
QuietFrame ==
  UNCHANGED <<anaQueue, visited, blockVip, handlerPatternMap, vmreg, curBlock>>

\* FastCheckVmpEntry or Execute_FIND_VM_INIT returns false.  executeVmExit,
\* which asked, is done either way.
NotFound ==
  /\ status' = "false"
  /\ tfg' = IF task.btype = "check" THEN saved ELSE tfg
  /\ UNCHANGED <<anaQueue, visited, blockVip, accepted>>

Overread == /\ status' = "overread"
            /\ UNCHANGED <<tfg, anaQueue, visited, blockVip, accepted>>

\* The first block, and behind push key and call the second, unasked whether
\* the trace has one.
FindFirst ==
  LET first == GetNextNode(idx + 1)
      next  == GetNextNode(idx + 1 + Len(first.contexts))
      node  == IF isVmPushKey(first.addrs) THEN AppendNode(first, next) ELSE first
  IN  /\ status = "FIND_VM_INIT"
      /\ nodeInput' = node
      /\ attempt' = 1
      /\ IF isVmPushKey(first.addrs)
           THEN idx' = idx + Len(first.contexts) /\ curNodeSize' = Len(next.contexts)
           ELSE idx' = idx /\ curNodeSize' = Len(first.contexts)
      /\ CASE node.overread -> Overread
           [] ~ node.overread /\ first.addrs = <<>> -> NotFound
           [] OTHER -> /\ status' = "match"
                       /\ UNCHANGED <<tfg, anaQueue, visited, blockVip, accepted>>
      /\ WalkFrame /\ UNCHANGED <<handlerPatternMap, saved, vmreg, curBlock>>

\* Not a VM_INIT yet: the next block is appended, the last time in vain.
FindNext ==
  LET next == GetNextNode(idx + curNodeSize + 1)
  IN  /\ status = "match" /\ Slots(nodeInput.addrs) < InitSlots
      /\ idx' = idx + curNodeSize
      /\ attempt' = attempt + 1
      /\ IF IsWalkToEnd(idx')
           THEN NotFound /\ curNodeSize' = 0 /\ UNCHANGED nodeInput
           ELSE /\ nodeInput' = AppendNode(nodeInput, next)
                /\ curNodeSize' = Len(next.contexts)
                /\ CASE next.overread -> Overread
                     [] ~ next.overread /\ attempt = InitAttempts -> NotFound
                     [] OTHER -> UNCHANGED <<status, tfg, anaQueue, visited, blockVip,
                                             accepted>>
      /\ WalkFrame /\ UNCHANGED <<handlerPatternMap, saved, vmreg, curBlock>>

\* executeVmpOp's treatment of the first instruction of a block.
StartsBlock == curBlock = NoName
IsVisited(name) == StartsBlock /\ name \in visited
\* Mutant: the name is not remembered.
EnterBlockForgets(name, vip) ==
  IF StartsBlock
    THEN curBlock' = name /\ UNCHANGED <<visited, blockVip>>
    ELSE UNCHANGED <<visited, blockVip, curBlock>>
EnterBlock(name, vip) ==
  IF StartsBlock
    THEN /\ visited' = visited \cup {name}
         /\ blockVip' = Put(blockVip, name, vip)
         /\ curBlock' = name
    ELSE UNCHANGED <<visited, blockVip, curBlock>>

\* Mutant: only the last block of the VM_INIT is emulated again.
FindEndsLastNode ==
  LET name == <<nodeInput.addrs[1], nodeInput.addrs[1]>>
      next == Replay(1, curNodeSize + 1)
  IN  /\ status = "match" /\ Slots(nodeInput.addrs) >= InitSlots
      /\ task.btype = "entry" /\ ~ IsVisited(name)
      /\ EnterBlock(name, task.vip)
      /\ anaQueue' = Append(anaQueue, Task("jmp", traceList[next], Vip(next)))
      /\ status' = "found"
      /\ idx' = idx + curNodeSize /\ curNodeSize' = 0
      /\ WalkFrame
      /\ UNCHANGED <<tfg, saved, attempt, nodeInput, handlerPatternMap, vmreg, accepted>>

\* Execute_FIND_VM_INIT has its VM_INIT: executeVmInit emulates from the
\* entry once more, to the first instruction behind the blocks, and queues
\* what follows.
FindEnds ==
  LET name == <<nodeInput.addrs[1], nodeInput.addrs[1]>>
      next == Replay(1, Len(nodeInput.addrs) + 1)
  IN  /\ status = "match" /\ Slots(nodeInput.addrs) >= InitSlots
      /\ task.btype = "entry"
      /\ IF IsVisited(name)
           THEN UNCHANGED <<anaQueue, visited, blockVip, curBlock>>
           ELSE /\ EnterBlock(name, task.vip)
                /\ anaQueue' = Append(anaQueue, Task("jmp", traceList[next], Vip(next)))
      /\ status' = "found"
      /\ idx' = idx + curNodeSize /\ curNodeSize' = 0
      /\ WalkFrame
      /\ UNCHANGED <<tfg, saved, attempt, nodeInput, handlerPatternMap, vmreg, accepted>>

\* The positions among the first n contexts behind the end of a block.
EndsOf(n) ==
  {i \in 2..n : /\ traceList[i - 1] \in DOMAIN tfg.instructionToNodeMap
                /\ IsTail(tfg, traceList[i - 1])}

\* Mutant: one slot less is enough for FastCheckVmpEntry.
CheckAcceptsEarly ==
  /\ status = "match" /\ Slots(nodeInput.addrs) >= InitSlots - 1
  /\ task.btype = "check"
  /\ accepted' = accepted \cup {[start |-> task.start, contexts |-> nodeInput.contexts,
                                 ends |-> EndsOf(Len(nodeInput.contexts))]}
  /\ anaQueue' = Append(anaQueue, EntryTask(task.start))
  /\ tfg' = saved
  /\ status' = "found"
  /\ WalkFrame
  /\ UNCHANGED <<saved, attempt, nodeInput, walker, handlerPatternMap, vmreg,
                 visited, blockVip, curBlock>>

\* FastCheckVmpEntry returns true, and executeVmExit queues the entry.
CheckAccepts ==
  /\ status = "match" /\ Slots(nodeInput.addrs) >= InitSlots
  /\ task.btype = "check"
  /\ accepted' = accepted \cup {[start |-> task.start, contexts |-> nodeInput.contexts,
                                 ends |-> EndsOf(Len(nodeInput.contexts))]}
  /\ anaQueue' = Append(anaQueue, EntryTask(task.start))
  /\ tfg' = saved
  /\ status' = "found"
  /\ WalkFrame
  /\ UNCHANGED <<saved, attempt, nodeInput, walker, handlerPatternMap, vmreg,
                 visited, blockVip, curBlock>>

----------------------------------------------------------------------------
(* Execute_FINISH_VM_INIT, one handler.                                    *)

AtHandler == status = "FINISH_VM_INIT" /\ ~ IsWalkToEnd(idx)
Current == GetNextNode(idx + 1)
Cached == VmpHandlerRange(Current) \in DOMAIN handlerPatternMap

WalkEnds ==
  /\ status = "FINISH_VM_INIT"
  /\ \/ IsWalkToEnd(idx) /\ status' = "false"
     \/ AtHandler /\ Current.overread /\ status' = "overread"
     \/ AtHandler /\ ~ Current.overread /\ Current.addrs = <<>> /\ status' = "false"
  /\ WalkFrame /\ QuietFrame
  /\ UNCHANGED <<tfg, saved, attempt, nodeInput, walker, accepted>>

\* The decompiler makes nothing of a block: a GhidraException leaves BuildCFG.
AnaVmpHandlerThrows ==
  /\ \/ AtHandler /\ ~ Current.overread /\ Current.addrs # <<>> /\ ~ Cached
     \/ status = "match"
  /\ status' = "throw"
  /\ tfg' = IF task.btype = "check" THEN saved ELSE tfg
  /\ WalkFrame /\ QuietFrame
  /\ UNCHANGED <<saved, attempt, nodeInput, walker, accepted>>

\* The pattern of the handler at idx, and what finding it leaves behind: the
\* cached one as it is; a new one with its roles, in the cache unless junk.
Pattern == IF Cached THEN handlerPatternMap[VmpHandlerRange(Current)]
                     ELSE AnaVmpPattern(Current.addrs, vmreg)
Selected == IF ~ Cached /\ Pattern.op = "popreg" /\ vmreg = NoRole
              THEN Pattern.role ELSE vmreg
Remember ==
  handlerPatternMap' = IF Cached \/ Pattern \in {Junk, Unknown}
                         THEN handlerPatternMap
                         ELSE Put(handlerPatternMap, VmpHandlerRange(Current), Pattern)

Inst == IF Pattern = Junk THEN NoInstruction
                          ELSE MakeInstruction(Pattern, Current, Selected)

\* The contexts of the node are consumed.
MoveToNext ==
  /\ idx' = idx + Len(Current.contexts) /\ curNodeSize' = 0
  /\ nodeInput' = Current

Handler ==
  /\ AtHandler /\ ~ Current.overread /\ Current.addrs # <<>>
  /\ Remember /\ MoveToNext
  /\ WalkFrame /\ UNCHANGED attempt

\* Junk code, a stack check, or a pattern that makes no instruction.
SkipHandler ==
  /\ Handler /\ Inst = NoInstruction
  /\ vmreg' = Selected
  /\ UNCHANGED <<status, tfg, saved, anaQueue, visited, blockVip, curBlock, accepted>>

\* The block has been built: its origin is linked to it, nothing else.
ReachVisited ==
  /\ Handler /\ Inst # NoInstruction /\ IsVisited(Inst.addr)
  /\ vmreg' = Selected
  /\ status' = "found"
  /\ UNCHANGED <<tfg, saved, anaQueue, visited, blockVip, curBlock, accepted>>

Executes(ops) ==
  /\ Handler /\ Inst.op \in ops /\ ~ IsVisited(Inst.addr)
  /\ EnterBlock(Inst.addr, Vip(idx + 1))

\* An instruction that goes on to the next; updateVmReg takes the roles of the
\* first VM_POP_REG.
PlainOp ==
  /\ Executes({"popreg", "stackop", "unknown"})
  /\ vmreg' = IF Inst.op = "popreg" /\ Selected = NoRole THEN Inst.role ELSE Selected
  /\ UNCHANGED <<status, tfg, saved, anaQueue, accepted>>

\* executeVmJmpConst emulates from the start of the walk, past the handler.
JmpConstOp ==
  LET next == Replay(1, idx + Len(Current.addrs) + 1)
  IN  /\ Executes({"jmpconst"})
      /\ anaQueue' = Append(anaQueue, Task("jmp", traceList[next], Vip(next)))
      /\ vmreg' = Selected /\ status' = "found"
      /\ UNCHANGED <<tfg, saved, accepted>>

\* executeVmJmp emulates the handler alone, once for every branch, with the
\* branch's bytecode address on the virtual stack.
JmpOp ==
  /\ Executes({"jmp"})
  /\ \E branches \in SUBSET BranchVips :
       LET behind == code[Current.addrs[Len(Current.addrs)]].succ
           next   == Replay(idx + 1, Len(Current.addrs) + 1)
           inside == next <= idx + Len(Current.contexts)
       IN  \E start \in [branches -> IF inside THEN {traceList[next]} ELSE behind] :
             LET order == CHOOSE f \in [1..Cardinality(branches) -> branches] :
                            \A v \in branches : \E i \in DOMAIN f : f[i] = v
             IN  anaQueue' = anaQueue \o
                   [i \in DOMAIN order |-> Task("jmp", start[order[i]], order[i])]
  /\ vmreg' = NoRole /\ status' = "found"
  /\ UNCHANGED <<tfg, saved, accepted>>

\* executeVmExit: no single address, native code, or the call of an entry,
\* which FastCheckVmpEntry first traces on a graph of its own.
ExitOp ==
  /\ Executes({"exit"})
  /\ vmreg' = Selected /\ status' = "found"
  /\ UNCHANGED <<tfg, saved, anaQueue, accepted>>

ExitCallOp ==
  /\ AtHandler /\ ~ Current.overread /\ Current.addrs # <<>>
  /\ Inst.op = "exit" /\ ~ IsVisited(Inst.addr)
  /\ \E a \in Entries : Begin([task EXCEPT !.btype = "check", !.start = a], EmptyGraph)
  /\ saved' = tfg
  /\ Remember
  /\ EnterBlock(Inst.addr, Vip(idx + 1))
  /\ vmreg' = Selected
  /\ UNCHANGED <<anaQueue, accepted>>

Execute_FIND_VM_INIT == FindFirst \/ FindNext \/ FindEnds \/ CheckAccepts
Execute_FINISH_VM_INIT ==
  WalkEnds \/ SkipHandler \/ ReachVisited \/ PlainOp \/ JmpConstOp \/ JmpOp
    \/ ExitOp \/ ExitCallOp

BuilderNext ==
  \/ NewFunction \/ BuildVmpBlock \/ TraceStep
  \/ Execute_FIND_VM_INIT \/ Execute_FINISH_VM_INIT \/ AnaVmpHandlerThrows

BuilderSpec == BuilderInit /\ [][BuilderNext]_allVars

----------------------------------------------------------------------------
Patterns == [op : VmOps, role : Roles, addr : Addr]
Nodes == [addrs : Seq(Addr), contexts : Seq(Addr), at : Nat, overread : BOOLEAN]

BuilderTypeOK ==
  /\ does \in [Addr -> [op : Marks, role : Roles]]
  /\ functions \in 0..MaxFunctions
  /\ \A i \in DOMAIN anaQueue : anaQueue[i].btype \in {"entry", "jmp"}
                                /\ anaQueue[i].start \in Addr
  /\ \A name \in visited : name[1] \in Addr
  /\ DOMAIN blockVip = visited
  /\ \A range \in DOMAIN handlerPatternMap :
       range \in Addr \X Addr /\ handlerPatternMap[range] \in Patterns
  /\ task.btype \in {"none", "entry", "jmp", "check"}
  /\ status \in Running \cup Ended
  /\ attempt \in 0..(InitAttempts + 1)
  /\ nodeInput \in Nodes
  /\ idx \in 0..MaxTrace /\ curNodeSize \in Nat
  /\ vmreg \in Roles \cup {NoRole}
  /\ curBlock \in visited \cup {NoName}

\* AddTraceFlow has seen the whole trace, and the graph describes it.
Described == flowIdx = Len(traceList) /\ TraceFollowsBlocks

\* The nth different instruction of a stretch of the trace is the nth address.
Spells(from, to, addrs) ==
  /\ Cardinality(Steps(from, to)) = Len(addrs)
  /\ \A k \in Steps(from, to) :
       addrs[Cardinality(Steps(from, k))] = traceList[k]

\* The contexts GetNextNode takes are those of the block's instructions, one
\* after the other, every round of a rep included: MakeInstruction reads the
\* registers of the very instructions the pattern names.
ContextsMatch ==
  AtHandler /\ Described /\ ~ Current.overread /\ Current.addrs # <<>> =>
    Spells(idx + 1, idx + Len(Current.contexts), Current.addrs)

\* Unless the emulation stopped inside a block, or right behind a push key
\* and its call, no walk reads behind the end of its trace.
OverreadOnlyAtCut ==
  status = "overread" /\ Described =>
    ~ IsTail(tfg, traceList[Len(traceList)]) \/ isVmPushKey(traceList)

NoRepeats(n) == \A i \in 2..n : traceList[i] # traceList[i - 1]

\* The second emulation behind a VM_INIT or a VM_JMP_CONST stops at the first
\* instruction the walk has not taken, wherever in the trace the handler is,
\* as long as no instruction before it was repeated and the trace goes on.
ReplayReachesNext ==
  [][status' = "found" /\ Len(anaQueue') = Len(anaQueue) + 1
       /\ \/ status = "match" /\ task.btype = "entry"
          \/ status = "FINISH_VM_INIT" /\ Inst.op = "jmpconst"
       /\ idx' < Len(traceList) /\ NoRepeats(idx') =>
     LET queued == anaQueue'[Len(anaQueue')]
     IN  queued.start = traceList[idx' + 1] /\ queued.vip = Vip(idx' + 1)]_allVars

\* One role throughout the trace: a virtual machine changes its registers at
\* jumps only.
OneRole(r) ==
  \A i \in DOMAIN traceList : does[traceList[i]].op \in VmOps =>
                                does[traceList[i]].role = r

\* Every branch inside the block goes one way.
Straight(addrs) ==
  \A i \in 1..(Len(addrs) - 1) : code[addrs[i]].succ \subseteq {addrs[i], addrs[i + 1]}

\* A cached pattern says what a new analysis would, whichever task of whichever
\* function found it: the first and the last address identify a handler, and
\* its registers are its own.  It takes selected registers or a VM_POP_REG.
CacheTransparent ==
  AtHandler /\ ~ Current.overread /\ Current.addrs # <<>> /\ Cached =>
    LET fresh == AnaVmpPattern(Current.addrs, vmreg)
    IN  OneRole(Pattern.role) /\ Straight(Current.addrs)
          /\ (vmreg # NoRole \/ Pattern.op = "popreg") => Pattern = fresh

\* A virtual instruction is named by its bytecode from the first VM_POP_REG of
\* its task on.
NamesTrue ==
  AtHandler /\ ~ Current.overread /\ Current.addrs # <<>> /\ Inst # NoInstruction =>
    \A r \in Roles : OneRole(r) /\ (vmreg = r \/ Inst.op = "popreg") =>
      Inst.addr = <<Current.addrs[1], Vip(idx + 1)>>

\* A run of virtual code is taken for a block that begins elsewhere in the
\* bytecode, and left out, only before the task has selected its registers or
\* where the trace changes them: what other tasks selected, read wrong or not
\* at all, or found in the cache, confuses no task that knows its own.
VisitedIsSame ==
  AtHandler /\ Described /\ ~ Current.overread /\ Current.addrs # <<>>
    /\ Inst # NoInstruction /\ IsVisited(Inst.addr)
    /\ blockVip[Inst.addr] # Vip(idx + 1) =>
      \/ vmreg = NoRole /\ Inst.op # "popreg"
      \/ \A r \in Roles : ~ OneRole(r)

\* FastCheckVmpEntry and Execute_FIND_VM_INIT agree on an entry they trace
\* alike, unless a block of the function's graph ends where none of the check's
\* did: nothing else the graph has seen or merged since makes them differ.
AcceptedEntryFound ==
  status = "false" /\ task.btype = "entry" =>
    \A c \in accepted :
      c.start = task.start /\ Len(c.contexts) <= Len(traceList)
        /\ c.contexts = SubSeq(traceList, 1, Len(c.contexts)) =>
      EndsOf(Len(c.contexts)) \ c.ends # {}

=============================================================================
