# Verification of VmpHelper

VmpHelper is an IDA plugin that recovers the control flow of code protected by
VMProtect 3.x on x86.  It follows native code until it reaches an address the
user has marked as a virtual machine entry, emulates the virtual machine from
there, cuts the trace of the emulator into basic blocks, recognises each block
as the handler of a virtual instruction, and draws one graph of native and
virtual instructions.  This directory holds TLA+ models of the parts that carry
that logic, the configurations that model-check them, and proofs.

Paths below are relative to the root of the repository.

## Inventory

| Component | State it keeps | Operations | Talks to |
|---|---|---|---|
| Trace flow graph, `src/VmpCore/VmpTraceFlowGraph.cpp` | `nodeMap`, `instructionToNodeMap` (pointer and index of every address), `fromEdges`, `toEdges` | `AddTraceFlow`, `MergeAllNodes` | reads the emulator's trace; read by the walker; one graph for all the tasks of a function |
| Emulator, `src/VmpCore/VmpUnicorn.cpp` | `traceList`, registers, stack buffer, `bContinue` | `StartVmpTrace`, hooks, `fixStack` | called by the block builder |
| Block builder, `src/VmpCore/VmpBlockBuilder.cpp` | status of the task, current block, walker position, register roles | `BuildVmpBlock`, `executeVmOp` and its handlers, pattern recognition | pushes tasks and edges into the flow builder, caches patterns in the engine |
| Control flow builder, `src/GhidraExtension/VmpControlFlow.cpp` | `anaQueue`, `visited`, `fromEdges`, and the function's `blocksMap` | `BuildCFG`, `fallthruNormal`, `buildEdges`, `buildFinalFunction` | the block builder, the disassembler, IDA's comments |
| Control flow graph, same file | `blocksMap`, `startBlock` | `MergeNodes`, graph callbacks | read by IDA's graph window and by the p-code generator |
| Engine, `src/VmpCore/VmpReEngine.cpp` | cache of functions, handler patterns and their file | `PrintGraph`, `MarkVmpEntry`, `Decompile` | menu actions, graph windows |
| Handler analysis, `src/Helper/VmpBlockAnalyzer.cpp`, `src/GhidraExtension/VmpNode.cpp` | none between calls | searches of Ghidra's data flow | called by the block builder |
| P-code emission, `src/GhidraExtension/VmpInstructionBuilder.cpp`, `FuncBuildHelper.cpp` | none between calls; the memory, ESP, registers and flags the emitted p-code works on | `BuildInstruction` of every virtual instruction | called by the decompiler |
| Text of instructions, `src/GhidraExtension/VmpInstructionAsm.cpp` | none | one function per virtual instruction | called by the graph window |
| Managers, wrappers, Ghidra plumbing | section snapshot, disassembler handle, version | lookups | everything |

Everything runs on IDA's main thread: there are no locks and no interleaving of
threads.  What is hard is the **order** in which things happen.  A graph is built
one transition of a trace at a time, and what a transition does depends on what
the ones before it have left; a second trace is linked into blocks the first one
has merged; tasks queue tasks; two maps that hold one relation, a map of
pointers into another map, and instructions that carry the addresses of blocks
are all updated while blocks are split, merged and erased; a walker pairs a graph
with a trace by counting; a cache outlives the functions it was filled by; and two
`do ... while` loops and a queue must come to an end.  `PROJECT.json` lists these hazards at
their lines, with the property that covers each.

What makes each part correct:

* *Trace flow graph*: the four maps describe one partition of the traced
  addresses into blocks; the blocks follow the trace; the end of a virtual
  handler is the end of a block; merging changes no flow and ends.
* *Control flow graph*: `MergeNodes` is block merging and nothing else; no
  pointer to an erased block is left; it ends with nothing left to merge.
* *Control flow builder*: no task and no edge is lost; the finished graph of
  native code is the native code; the targets written into virtual branches are
  the ones the graph shows; building ends, unless a trace's `MergeAllNodes` hangs.
* *Block builder*: what the walker takes for a handler are the contexts of that
  handler's instructions, within the trace; a cached pattern says what an
  analysis would; a virtual instruction is named by its place in the bytecode once
  its task knows its registers, and only a task that does not confuses two blocks; a second emulation stops where the walk
  stopped; the check of an entry and the task it queues agree.
* *P-code emission*: what is emitted does to the stack, the registers and the
  flags what the handler does.
* *Emulator*: its restart loop ends within its count, indexes the trace within
  bounds, and leaves a trace the program can make; emulating a task a second
  time finds what the first emulation found.
* *Engine*: graph windows point into cached functions, a function built under
  old marks is never shown, the cache keeps its limit, patterns that were read
  are never lost by a save.

## Modules

| Module | Models | Runs |
|---|---|---|
| `VmpTraceFlowGraph` | the trace flow graph, fed by every trace an emulated program can leave | `TraceFlow*` |
| `VmpBlockBuilder` | a task from its trace to its last virtual instruction: walker, status machine, pattern cache, second emulations, the check of an entry; extends `VmpTraceFlowGraph`, so that the walker walks the graphs that are really built | `BlockBuilder` |
| `BlockMerge` | what merging promises: an abstract specification | used by `MergeNodes` and the proofs |
| `VmpControlFlow` | `MergeNodes` and `checkMerge`, over any graph | `MergeNodes` |
| `VmpControlFlowBuilder` | `BuildCFG` and what it calls, extends `VmpControlFlow` so that `MergeNodes` runs on the graphs that are really built | `Build*` |
| `VmpUnicorn` | `StartVmpTrace` and its repairs, and the contexts handed from one task to the next | `Emulate` |
| `VmpReEngine` | the cache of functions, graph windows, entry marks, the pattern file | `EngineCache` |
| `VmpMachine` | what the virtual instructions do, as a stack of bytes: an abstract specification | used by `InstructionBuilder` |
| `VmpInstructionBuilder` | the p-code `BuildInstruction` emits, run on a memory | `InstructionBuilder`, `ShlOverflow` |
| `VmpControlFlowProofs`, `VmpUnicornProofs`, `VmpReEngineProofs`, `VmpTraceFlowGraphProofs` | theorems about the module of that name | proofs |
| `VmpControlFlowBuilderProofs` | theorems about `VmpControlFlowBuilder`; extends `VmpControlFlowProofs`, since `MergeNodes` is its last phase | proofs |
| `VmpTraceFlowLinkProofs`, `VmpTraceFlowTaskProofs` | theorems about `VmpTraceFlowGraph` for one trace per graph; the first holds the lemmas about links and splits | proofs |
| `VmpBlockBuilderProofs` | theorems about `VmpBlockBuilder`, any number of traces per graph; extends `VmpTraceFlowTaskProofs` for its lemmas about blocks and index | proofs |
| `MC...` | the values of the constants for the runs | |

### VmpTraceFlowGraph

`nodeMap` and `instructionToNodeMap` are functions, a node pointer is the key of
the entry it points to, and indices count from 1.  A task is the sequence
`BuildVmpBlock` runs: `StartWalk` and `Emulate` produce a trace, `AddTraceFlow`
links it one transition per step, `MergeNode`, `RejectNode` and `MergePassEnds`
are the body and the end of a pass of `MergeAllNodes`.  The methods that change
the graph (`linkEdge`, `createNode`, `splitBlock`, `addJmpLink`,
`addNormalLink`, `executeMerge`, ...) are operators from graph to graph with the
names of the source, in the source's order: `splitBlock` creates the new node
before it looks for the split address, as the code does.

The program is a table: for each address the kind of instruction (what
`isEndIns` and `checkCanMerge_Vmp` tell apart) and its possible successors.  A
trace is any path through it of at most `MaxTrace` instructions, cut off at any
point, because the emulator may fault anywhere.  An exception is phase
`"throw"`; a merge of a node into itself, which never returns, is phase
`"hang"`.  Neither is left again.

### VmpBlockBuilder

The variables of `VmpTraceFlowGraph` are the task's trace and the function's
graph; beside them stand the queue of tasks, the names of the blocks built
(`visited`), the engine's cache (`handlerPatternMap`), and of the running task
its status, the walker (`idx`, `curNodeSize`), the selected register (`vmreg`)
and the block being filled.  `BuildVmpBlock` begins a task, `TraceStep` runs the
emulation, `AddTraceFlow` and `MergeAllNodes` of the other module, then the walk
is one action per block: `FindFirst`, `FindNext`, `FindEnds` and `CheckAccepts`
are `Execute_FIND_VM_INIT` and its copy in `FastCheckVmpEntry`; `SkipHandler`,
`ReachVisited`, `PlainOp`, `JmpConstOp`, `JmpOp`, `ExitOp` and `ExitCallOp` are the
ways through the loop of `Execute_FINISH_VM_INIT`, each with the lookup or
analysis of the pattern, `MakeInstruction`, and the update of cache, registers
and queue that belong to it.  `GetNextNode` counts contexts until it has seen as
many different instructions in a row as the block has from here on.
`FastCheckVmpEntry` traces on a graph of its own: `saved` is the function's
meanwhile.  Reading behind the end of `traceList` is status `"overread"`.

What the matchers find is a table (`does`): for each instruction what it
contributes to the pattern of the block it is in, and the role, that is which
registers hold the bytecode address and the stack pointer.  A block in which two
instructions contribute fits no pattern.  What is *not* a table is everything the
matchers' answers depend on beside the block: which register is selected, whether
the cache answers in their place, which contexts the block was given.

A name is what `readVmAddress` makes of a node: its first address, and `ReadReg` of
one register in its *first context*.  What a register holds at a position of the trace
is the protected program's affair, and a definition of its own (`Holds`): a role's
register holds the bytecode pointer wherever the next virtual instruction will use it
there.  `Vip` numbers the virtual instructions along the trace.  So a read gives 0
without a register, the number of the *next* virtual instruction with the right one,
and `Wrong` with one the program does not use next; which context is read, and with
which register, is the code's choice, and both mutants of it break a property.  What
a block's true beginning is (`blockVip`) is counted along the trace and never
read from a register.

### VmpControlFlow and BlockMerge

A block is its key in `blocksMap`; `insList`, `inBlocks` and `outBlocks` are
functions on the keys.  `buildEdges` adds every pair once, so the two vectors
are sets, and a `VmpBasicBlock*` is the key of its entry.  Everything
`MergeNodes` does to one block (`checkMerge` with the moves and redirections,
then the erase) is one action.  `cursor` is the iterator and `badNodeList` the
local set.

`BlockMerge` has no keys, no order, no iterator: it has sequences of
instructions and pairs *last instruction of a block, first instruction of a
block*, and its only step joins two blocks each of which is the other's only
neighbour.  `VmpControlFlow` implements it under the mapping at the end of the
module.

### VmpControlFlowBuilder

Addresses are the pairs of `VmAddress`: a native instruction `a` is `<<a, 0>>`,
the `VM_INIT` of the entry `a` is `<<a, a>>`, as `Execute_FIND_VM_INIT` makes it,
and a virtual instruction is its handler and bytecode address.  `TakeTask` is
one round of the loop of `BuildCFG`, `FollowNormal` and its neighbours one
round of the loop of `fallthruNormal`, and the virtual actions one virtual
instruction: what the walker, the recognition and the branch analysis find is a
table (`virtual`), and that they may give up, skip an instruction or throw at
any point is a choice (`VmWalkEnds`, `SkipOp`, `VmWalkThrows`).  So is that they
never come back (`VmWalkHangs`, phase `"hang"`): `TraceFlowSelfMerge` shows the
`MergeAllNodes` that does not, and a walk calls it before its first instruction,
and again for the target of an exit, in `FastCheckVmpEntry`.  An unguarded
`outBlocks[0]` is phase `"crash"`.  The engine's `catch` is not part of the
module: phase `"throw"` is where an exception has left `BuildCFG`.

`Resolved` is what `buildFinalFunction` writes into the last instruction of a virtual
block, and only that: the bytecode addresses of all `outBlocks` into a VM_JMP, that
of the only one into a VM_JMP_CONST, and the native address of `outBlocks[0]` into an
exit; `Connect` carries that of `outBlocks[0]` too.  A virtual instruction whose name
was read with no register has bytecode address 0, like native code (program `V3` of
the run has one); `BinariesAssumption` asks only that such a name is not also the
address of native code that is walked.

### VmpUnicorn

Of the registers a context keeps EIP and whether ESP lies in the stack buffer,
which is what `fixStack` asks.  The emulated code is a table that says of each
instruction where it goes, where `getNextInsAddr` takes it to go (the two differ
for a jump through a register), what it does to ESP and which memory it needs.
`EmuStart` is the head of the loop of `StartVmpTrace`; `Execute`, `MemoryFault`
and `FetchFault` are the hooks; `StopTracing`, `ContinueWithStack`,
`ContinueRepaired` and `ReadOutside` are the four ways through the body of the
loop.  `Replay` and `NextWalk` are `executeVmJmpConst` and the `StartWalk` of the
task it queues.  Every emulation is a new `VmpUnicorn`, whose `bContinue` nobody
initialises: it is `"unset"`, and read as either value.

Two things came to light here that no comment speaks of.  With `bContinue` unset
and nothing mapped at the entry, `StartVmpTrace` reads `traceList[-1]`; and two
emulations of one task may differ if they read different garbage.  And
`fixStack` repairs the trace and the emulator but not `tmpContext`, so a replay
that ends on a fault hands on an ESP outside the stack; the emulation that
begins with it runs `fixStack` into `traceList[size - 2]` with one element left.
`IndexSafe` and `ReplayAgrees` say that these are the only ways to go wrong.

### VmpReEngine

`funcCache` is the list of the code, the oldest function first; a function is a
record of where it is allocated, its start address, whether it has blocks, and
the marks it was built under.  `graphs` gives each open window the pointer it
holds: a dangling one points to no cached function, and an allocation may reuse
what was freed.  `PrintGraph` is split
where the code can leave it: the cached function, a build that succeeds, a build
that throws an `Exception`, and one that throws what the `catch` does not name.
The pattern file may be torn by a crash between its truncation and its end, and
what follows a restart is `LoadHandlerPattern` on that file.  A file may also fail to
open.  For writing, it is left alone.  For reading, `LoadHandlerPattern` returns true
as if there were none (`VmpReEngine.cpp:80`), the engine comes up with an empty map,
and its first save that opens the file truncates it.  `unread` remembers what the file
held when that happened; no action reads it.  `NothingForgotten` says that a
save of the running engine takes from the file what is in `unread` and nothing else.

### VmpMachine and VmpInstructionBuilder

`VmpInstructionBuilder` has one action per `BuildInstruction`: the operations that
method emits, in their order, on a memory of bytes, ESP, the registers of the
program and of the virtual machine, and the five flags.  `BuildOr`, `BuildAnd`,
`BuildAdd`, `BuildShr`, `BuildShl` and `BuildEflags` are those of
`FuncBuildHelper.cpp`; p-code operations have their names and wrap at their
width.  The width of a byte is a constant, so that a byte of three bits keeps
every boundary and a dword has 4096 values.

`VmpMachine` has no memory and no ESP: its state is the stack as a sequence of
bytes.  It is written from what the handlers, listed as x86 code beside each
method, do.  What x86 leaves undefined, the byte of padding beside a byte operand,
and the results of the instructions whose emission is still "To do" are any
value.  `ImplementsMachine` maps the bytes of memory from ESP up to the stack.

## Runs

Passing runs:

| Run | Bounds | Shows |
|---|---|---|
| `TraceFlowSingle` | 4 addresses, version 3.8.0; normal, jcc, add, jmp reg, ret, the last one normal, jcc or jmp reg; jumps to 2, 3 and 4; traces of up to 6 | the maps agree, edges are each other's inverse and go from tails to heads, blocks follow the trace, dispatch jumps end blocks except where `checkCanMerge_Vmp` says otherwise, merging keeps the flow and ends |
| `BlockBuilder` | 4 programs of 7 instructions with 4 tables each, traces of up to 6, 4 tasks in 2 functions that share the cache; a VM_INIT of 3 slots within 3 blocks, checks of 5 instructions | contexts belong to their instructions, reads behind a trace happen only where it was cut, the cache is transparent, names are true, only a task that has selected no registers takes one block for another, a second emulation stops where the walk did, an accepted entry is found |
| `MergeNodes` | every graph over 4 blocks (2^16) | refinement of `BlockMerge`, mirrored edges, completeness, termination |
| `Build` | every native program of 4 instructions without marks; and native code with marks {2}, {3} or {1, 3} in front of 6 virtual programs of 3 instructions, walks of 3 | no edge lost, the graph is the program, the targets in virtual branches match the graph, no unguarded read, building ends or hangs in a walk |
| `Emulate` | 1200 programs of 3 instructions, a count of 5, walk, replay and walk | the trace keeps its count, its bounds and the program's order; the replay finds what the walk found; the loop ends |
| `EngineCache` | 3 addresses, a limit of 2, 3 function identities, 2 patterns | no window dangles, nothing stale is shown, the limit holds, no pattern is forgotten but those of a file that did not open |
| `InstructionBuilder` | bytes of 3 bits, shift counts modulo 4, a stack of 24 bytes with two dwords of 10 boundary values each on top, every pair of instructions | the p-code implements the machine |

The bounds are the smallest in which the interesting cases occur.  A split in
the middle of a block needs three instructions, a block with two ways in a
fourth, and a loop that revisits them a trace of six.  No program of
`TraceFlowSingle` jumps back to its entry: `TraceFlowSelfMerge` shows what happens
then.  In `BlockBuilder` the first four instructions are the code of an entry
(push key, call, push and the way into the machine) and the last three are
handlers: that is enough for a handler entered in its middle, one that ends in a
rep, one the emulator runs and capstone rejects, and one that goes on behind a
branch; a second function finds the cache the first one filled.  The confusion
`VisitedIsSame` admits, a block left out for one elsewhere in the bytecode by a task
without registers, occurs in the run.  Four blocks give
every combination of chains, diamonds, self loops and two-cycles that the three
conditions of `checkMerge` speak of, and the theorems remove that bound.  In
`Emulate` three instructions are enough to leave the stack, fault and come back,
and a count of five lets `fixStack` cut more than one context and the loop
restart twice; the theorems remove that bound too.  In `EngineCache` the third
address is the one that evicts.  In `InstructionBuilder` every instruction pops
less than the stack holds, two in a row let one read what the other left, and
the ten dwords hold the sign boundaries of every width, carries between bytes,
addresses inside the stack, and every shift count.
`CHECK_DEADLOCK FALSE` stands wherever the modelled calls return: a finished
function has no next step.  The engine never finishes, and its run checks for
deadlock.

Violation runs, each a finding in `PROJECT.json`, each against a comment of the
source:

| Run | What TLC shows |
|---|---|
| `TraceFlowLoopIns` | the back edge of a LOOP instruction raises the exception that is "impossible in theory" (`:229`) |
| `TraceFlowSelfMerge` | a block that jumps to its own start passes the check that a child does not point to its father (`:107`) |
| `TraceFlowMapStale` | in a graph of several traces an address is filed under a position where another one stands (`VmpTraceFlowGraph.h:66`) |
| `BuildStartMerged` | a start block with a single predecessor at the other end of a loop is merged away, and `startBlock` dangles (`VmpControlFlow.cpp:417`) |
| `ShlOverflow` | the p-code of a shift left by one takes the sign of the operand for the sign of the result, so that OF is always 0 (`FuncBuildHelper.cpp:322`) |

### Fairness

There is one thread and nothing to wait for, so weak fairness of the running
loop says no more than that a call goes on executing.  `TaskCompletes` assumes
that the emulation ends (its instruction count is bounded), that `AddTraceFlow`
keeps looping and that `MergeAllNodes` keeps looping; it assumes nothing about
how programs branch.  `MergeTerminates` assumes `WF(MergeNodes)` and
`BuildCompletes` `WF(BuildNext)`, and admits one way not to end: a marked entry and
a walk behind it that hangs.  Without a mark there is no walk, and building always ends.  `TraceCompletes` assumes `WF(StartVmpTrace)`:
`uc_emu_start` returns because its count is finite, and the loop goes on; that
another task follows is not assumed.  The emulator may still be cut off at any
point: that is a choice and not a fair action.

### What the models show beside the properties

Reading the code for the models brought these to light; none is a property,
because nothing in the repository says otherwise, or it is the shape of the model.

* `addNormalLink` returns without an edge when control falls into a block that
  is already there (`VmpTraceFlowGraph.cpp:232`), so `toEdges` of that block counts
  one way in less, and a block with two ways in may be merged.  `TraceFollowsBlocks`
  therefore asks for an edge only behind a jump.
* `addJmpLink` with both ends in one block splits at the target only (`:191`), and
  the jump stays in the middle of a block when a merge had put it there.
* Nodes merge in the order of their addresses, so that a register jump may come to
  lie behind the second instruction of a block all the same: the exceptions in
  `DispatchEndsBlock`.
* A pattern file that exists but cannot be opened is taken for none, and the next save
  truncates it (`VmpReEngine.cpp:80`).
* Until a task has met its first VM_POP_REG, its instructions are named with bytecode
  address 0, and a block whose first handler is the same is left out as visited
  (`VmpBlockBuilder.cpp:594`).
* A virtual exit to a marked address is neither queued nor linked
  (`VmpBlockBuilder.cpp:513`).
* `GetNextNode` reads behind the trace whenever the emulation was cut off inside a
  block (`:121`), and `Execute_FIND_VM_INIT` behind push key and call (`:1161`).
* The second emulation counts addresses of blocks, the walk contexts: a rep in
  front of the handler makes it stop early, hence the condition in
  `ReplayReachesNext`.
* `BuildFakeRet` (`VmpNode.cpp:65`) subtracts from ESP under the comment
  `esp = esp + 0x4`.  Byte operands are stored as one byte where the listed
  handlers store a word (`VmpInstructionBuilder.cpp:58`).  A VM_EXIT that pops
  eflags does not set the single flags, and one that meets ESP in its list does
  not move past it (`:235`).  `VmpOpImul` and `CopyStack` have no
  `BuildInstruction`; Popfd, Cpuid, Rdtsc, Shld, Shrd, Div and Mul move ESP alone.

## Proofs

`VmpControlFlowProofs` proves, for every finite set of addresses and every graph
over it:

* `TypeCorrect`: `Spec => []TypeOK`;
* `MirroredCorrect`: `Spec => []EdgesMirrored`;
* `Refinement`: `Spec => ImplementsBlockMerge`;
* `FlowKeptCorrect`: `Spec => FlowKept`;
* `MaximalCorrect`: `Spec => []MergeMaximal`.

The assumptions are the two of the module: addresses are pairs of naturals and
finitely many, and a start block is one of them.  `Inv == TypeOK /\
EdgesMirrored` is inductive on its own.  The argument for a merge is `MergedPair`
(a block that `CanMerge` accepts is the only successor of its father, and is not
the father), then one lemma per conjunct.  The refinement needs more: two blocks
must never share an instruction and none may be empty, or joining two sequences
would not be the abstract `Join` (`Distinct`, `NonEmpty`, together `IInv`).
`Concat` and `ConcatPairs` say where positions and neighbours of a concatenation
come from, and `MergeJoins` maps a merge to `Join` of the two lists.  Rejections
and ends of passes leave the mapped state alone.

`MergeMaximal` says that `MergeNodes` may keep a set of bad nodes it never looks at
again.  A merge changes the edges of other blocks, so a block rejected early could
become mergeable later; it does not, because a merge takes away one block and renames
one father, and what `checkMerge` counts of any other block stays as it was
(`MergeSettled`).  `MInv` holds what a pass has done so far: every block in the set is
rejected for good (`Settled`), and as long as the pass has merged nothing every block
behind the cursor is in the set (`Swept`).

`VmpControlFlowBuilderProofs` proves the four safety properties of `Build`,
`NoEdgeDropped`, `ConnectHasTarget`, `FlowSound` and `BranchesMatchGraph`, for every
binary that `BinariesAssumption` admits, whatever the walks find and wherever one gives
up.  The assumption says what an address is to the code: nothing stands at address 0,
where a `VmAddress` nobody has set is; a virtual instruction that has `vmdata` 0 is at
no address where native code is walked, since nothing else in a `VmAddress` tells the
two apart; marks are entries the machine starts at; and a branch or fall-through in the
bytecode leads to bytecode.  The
last excludes no failure: that the walk cannot go on there is `VmWalkEnds` and
`VmWalkThrows`, which are free to happen anywhere.
The invariant, `BInv`, is `BuildInv` until `MergeNodes` begins and `GraphInv` from then
on.  `BuildInv` says that a queued task has a place the code it stands for can have
(`QueueOK`); that the block being filled reaches to where the task stands (`WalkOK`);
that a native block is the code from its address on, whose last instruction either has
its edges or runs into an entry (`BlocksOK`); that a visited address has a block, gets
one in the running task, or is an entry that got a task instead (`VisitedOK`); and that
what an edge leads to has a block, is an entry, or is still to be taken from the queue
(`EdgesOK`).  When the queue is empty only the first two are left, which is
`NoEdgeDropped`.  Each action has a lemma (`...Keeps`).  `NativeEdges` is the fact
`FlowSound` turns on: native code that is no jump is left only towards the `VM_INIT` of
an entry.  `GraphInv` then has to survive the merges: `MergeKeepsNext` says that what
follows an instruction is the same before and after, a `UserOpConnect` in between
included.  That is why `BranchesMatchGraph` can ask for equality: the bytecode
addresses in a virtual jump are those of *all* the places behind it, whichever
block it has been moved to, and the address in an exit is that of one of them.

`VmpUnicornProofs` proves, for every set of programs and every count,
`TypeOK`, `TraceBounded`, `ResumesInStack`, `IndexSafe`,
`TraceFollowsProgram` and `ReplayAgrees`.  The assumptions: a program is a sequence of
instructions, the count is positive.  None of the six is inductive.  `IInv` adds
that a fault was recorded and left the registers as recorded (`FaultOK`: why ESP
is in the stack when nothing had to be repaired), that the trace begins with the
context the run began with (`HeadOK`: why one element is left only if that one
was bad), that trace and remaining count add up (`BudgetOK`), that the emulator
stands where the trace leads (`FollowOK`), and that a replay begins on code and
is asked for at least two instructions (`ReplayOK`: why it has a context to hand
on).  `RepairedTrace` says what `fixStack` does to a trace of any length.
`ReplayAgrees` relates two emulations that are cut, repaired and restarted at different
places.  The argument (`RInv`) is that a run in which nothing was left undecided is a
chain its first context determines, and that the replay, begun with the same context,
walks along the chain the first run left.  It can only be elsewhere where it has got
stuck, and it would be stuck at a place the first run got past.

`VmpReEngineProofs` proves, for every number of addresses and every limit but 0,
`TypeOK`, `WindowsBacked`, `CacheFresh`, `CacheBounded` and `NothingForgotten`.
The invariant is `CacheOK /\ RestOK`.  Beside the properties it holds that no
address is cached twice, that the open windows are finitely many and counted,
that a build in progress is in the cache, and that the running engine knows every
pattern in the file that it could read (`PatternsKnown`, what `NothingForgotten` rests
on).
The bound is the argument worth reading: when nothing can be evicted every cached
function has a window, and addresses are cached once, so the cache is no longer
than the windows ever open at once, and one more is added (`AllShown`).

`VmpTraceFlowGraphProofs` proves `EdgesInverse`, for every program, every version
and any number of traces linked into one graph.  The two edge maps are touched in
three places only, `linkEdge`, `removeEdge` and the empty graph, but through nested
calls that split and merge, and nothing else about the graph can be relied on: a
graph of several traces does *not* keep its maps in agreement
(`TraceFlowMapStale`), so that a position read from `instructionToNodeMap` may lie
outside its block, and what is linked then is outside `Addr`.  The invariant,
`Good`, therefore says nothing of positions and blocks: a graph has its four
fields, the edge maps have `Addr` as their domain, and they mirror each other.
`LinkFields` to `RefileFields` say which fields an update leaves behind,
`LinkGood` and `RemoveGood` that adding or removing one pair on both sides keeps
the mirror, whatever the pair is, and `SplitGood`, `JmpGood`, `NormalGood` and
`MergeGood` carry that through the nested calls of the methods.

`VmpTraceFlowTaskProofs` proves the rest of what `TraceFlowSingle` checks of safety,
`TypeOK`, `MapsAgree`, `EdgesTailToHead`, `TraceFollowsBlocks`, `DispatchEndsBlock` and
`MergePreservesFlow`, and that blocks are paths of the program (`BlocksFollowCode`,
which the proofs about the cache need), for every finite set of addresses, every program and every
trace length, under two hypotheses: `OneTask`, one trace per graph (with a second
one `TraceFlowMapStale` breaks `MapsAgree`), and `FallsThrough`, an instruction that
ends no block leads to at most one instruction other than itself (a `rep` does; a
`LOOP` goes two ways, which is how `TraceFlowLoopIns` gets its exception).
`TraceFlowSingle` satisfies both: it runs one task, and none of its programs has a
`LOOP`.
`MapsAgree` alone is not inductive: an edge out of the middle of a block would let
a merge join the wrong pieces, and a block that ran through a jump would be cut
where no step of the program is.  The invariant, `Inv`, says that the trace is a
path of the program, that the graph is `Sound` (the edge maps mirror each other,
blocks and index agree, edges lead from ends to heads along steps of the program)
and, until the merge starts, that `StraightBlocks`: only their
last instruction can be a jump.  `VmpTraceFlowLinkProofs` carries both through links: `SplitCut` says what `splitBlock` makes of blocks and index, which is
where the search for the address `createNode` has just duplicated and the cut of
`addrList` are shown to fit, `SplitBlocks` that every end and head stays one, and
`JmpSound` and `NormalSound` put the cases of the two methods together.
`MergeSound` does the same for `executeMerge`: the one edge into a node that merges
is the one edge out of its father's end (`OnlyEdge`), so no other edge loses its end
or head.  Two more invariants rest on these.  `Followed`, every linked transition is
adjacent or leaves an end with its edge, survives a merge because the removed edge
becomes that adjacency (`MergeStepped`); `MergeFlow` is the same argument for the
whole successor relation.  `Apart` adds what `DispatchEndsBlock` needs: a head with
one edge into it has it from a jump (`Entered`), since a split always leaves two,
so the first instructions of a merged child stand right behind a jump.
`BlocksFollowCode` is inductive beside `Inv`: what a link appends is a step of the
trace, what a split cuts was a path (`LinkStraight`), and what a merge joins are the
two ends of an edge, which is a step of the program.

`VmpBlockBuilderProofs` is about tasks that share a graph.  It proves, for every
program, every table of handlers and any number of tasks of any number of functions:

* `BuilderTypeCorrect`: `BuilderSpec => []BuilderTypeOK`;
* `ReplayReachesNextCorrect`: `BuilderSpec => ReplayReachesNext`;
* `ContextsMatchCorrect`: `BuilderSpec => [](MapsAgree => ContextsMatch)`;
* `OverreadOnlyAtCutCorrect`: `BuilderSpec => [](MapsAgree => OverreadOnlyAtCut)`,
  under `PushKeyMovesOn`;
* `NamesTrueCorrect`: `BuilderSpec => []NamesTrue`;
* `VisitedIsSameCorrect`: `BuilderSpec => [](MapsAgree => VisitedIsSame)`, under
  `BytecodeApart`;
* `CacheTransparentCorrect`: `BuilderSpec /\ []BlocksFollowCode =>
  [](MapsAgree /\ Described => CacheTransparent)`;
* `AcceptedEntryFoundCorrect`: `BuilderSpec /\ [](AtEntry => Walkable) =>
  []AcceptedEntryFound`, under `SlotsMoveOn`, `FallsThrough` and `InitSlots > 1`.

The assumptions of the module, `BuilderAssumption`, say what type each constant has.
The hypotheses say more.  `MapsAgree` is the trace graph's own promise: it holds as
long as a graph has served one trace (`MapsAgreeCorrect`), a later trace may break
it (`TraceFlowMapStale`), and a walker that looks a node up in a stale index may be
given another handler's block.  The theorems say that this is the *only* way for
contexts to go astray.  In the `BlockBuilder` run the index never goes stale, so TLC
checks these properties without it.
`PushKeyMovesOn` says that the push in front of a VM entry is no rep.  `BytecodeApart`
says that bytecode begins above the code: in the model it is counted upwards, and
an entry's block is named by the entry's address twice, so a virtual instruction at
the address of an entry's `VM_INIT` would pass for it.  `SlotsMoveOn` says that what
fills a slot of the virtual stack, a push or a call, is no rep; `InitSlots` is 11 in
the code.  `FallsThrough`, explained above, is for the graph of a check.  The constants of the run satisfy all of these.

With a stale index neither `MapsAgree` nor the soundness of edges is there to rest on,
yet the walker must stay within the trace and within the tables.  What is left of a
graph is `Backed`: the edge maps have their domain, every edge that leads back comes from
an indexed address, and the index is `Held`: there is a correct index (`Filed`) of the same
addresses which names the same blocks, and a place the code's index has is the right one
or one before it.  `addNormalLink` is where they part: it appends to the end of the
block but files the address one place behind the one the step comes from, which a merge
for an earlier trace may have left in the middle (`AppendHeld`).  What splits and merges
move they file anew, at its right place.  `BuilderInv` says beside that what each status
means for the walker: what has been taken lies in the trace
(`WalkOK`), a queued task starts at an address with a place in the bytecode, a running one
has a trace (`TaskOK`), a block's name is a handler's address and its true beginning is
recorded (`NamesOK`), every cached pattern says what its instruction does (`CacheOK`).
Each action has its lemma (`...Keeps`).

`ReplayReachesNext` compares two ways of counting: the walk counts contexts, the second
emulation addresses of blocks.  As long as nothing repeats, `GetNextNode` takes one context
for each address (`NoRepeats` in `WalkOK`), and the sums agree.  `ContextsMatch` is the lemma
`WalkAlong`: if the trace is found in the graph, the contexts from where a block is entered
are its instructions in order, each perhaps more than once for a rep; the least place where
they differ would be a step of the trace that is neither next to next in its block nor
leaves it at its end.  `OverreadOnlyAtCut` follows: `GetNextNode` that runs out of contexts
has followed the block to the last context of the trace (`CutIs`), which is no tail of a
block unless a push key and its call are all there is.  That status is never left, so the
property is carried by `CutInv`.

`NamesTrue` is `NameIs`: the register a name is read with is the one selected, or the
pattern's own for a VM_POP_REG, and it is read in the first context of the node, where
the next virtual instruction has not run yet, so that the register
holds its number.  Nothing is asked of the graph: the pattern's register belongs to an
instruction of the trace whichever node the walker was given.  `VisitedIsSame` adds who
may be confused.  A name in `visited` may come from any task of the function, which may
have read no register or one the trace does not use; `NamesFar` says that a name with
bytecode in it has it right, or is an entry's, and `ApartInv` that the places queued and
running lie above the code, so that no entry's name is met.  A task that has selected its
registers reads with the role of a virtual instruction it has traced (`SelectedTrue`);
where the trace has one role only, the name it reads is true, and two true names are
equal only for one place.

`CacheTransparent` relates two analyses, possibly of two functions with graphs of their
own.  What they share is the program, so the invariant (`CacheTrue`) keeps for every
cached pattern a witness in terms of the program alone: a path without repeats between
the two addresses of its range that has this one virtual instruction in it (`Analysed`).
`OnlyPath` then says that a straight block between the same two addresses is that path.
The registers are the other half: what a task has selected is the role of a virtual
instruction it traced (`SelectedTrue`), so in a trace of one role it is that role.
`BlocksFollowCode` is a hypothesis for the same reason as `MapsAgree`.  It holds for a
first trace (`BlocksFollowCodeCorrect`); a later trace that jumps to the head of a block
an earlier merge has grown makes `addJmpLink` split the block at its head, which leaves
an edge from the block's end back to that head (`SplitHead`) that no step of the program
stands behind, and a merge could follow it.

`AcceptedEntryFound` relates two walks over two graphs, the check's own and the
function's, which may be cut into blocks differently.  What the walks have in common
is the contexts, so everything is counted there.  The invariant of a walk (`SoFar`,
`UpTo`) says that the nodes taken are the trace up to the end of a block, that as many
slots are filled by the addresses as by the contexts (`NodeSlots`, where `SlotsMoveOn`
is used: a repeated push would be one address and several contexts), and that it has
passed as many ends of blocks (`Cuts`) as it has made attempts, one more behind a push
key and its call.  What a check that accepts has proved of these contexts is kept as a
statement about the program and the ends its graph had (`Agreed`, `ends`).  When the
entry's own task meets the same contexts and none of them ends a block now that did not
then, every end it passes is one the check has passed (`AgainFields`, by `NextChange`: a
step that leaves a block leaves it at its end), so it has not used up its attempts before
the slots are filled (`NextNotLost`); the case with a push key on one side only is
settled by the end behind the call, which one walk has and the other has not.  Where a
step enters its block does not matter, at the head or in the middle: only ends count.
`FedInv` makes sure that the trace has been linked that far.

The check's graph needs no hypothesis.  It is built for one trace, so `CheckInv` carries
the invariants of `VmpTraceFlowTaskProofs` for it (`TaskInv`, `TaskFollowed`), from which
`GraphFits` has that it agrees with its index and describes its trace.  `Walkable` is what
is left to assume, while an entry is looked for: that the walk takes no more than was
linked, which only an instruction that runs although capstone rejects it can break; and
that the *function's* graph agrees with its index and describes the entry's trace.  The
latter two are the graph's own properties, `MapsAgree` and `TraceFollowsBlocks`: they are
theorems for the first trace of a graph (`MapsAgreeCorrect`,
`TraceFollowsBlocksCorrect`), hold in every state of the `BlockBuilder` run, where a
function's graph serves several, and are broken by the stale index of
`TraceFlowMapStale`.  Graphs of several traces with blocks split, merged, and entered in
their middle are all within the theorem.

Only model-checked: every liveness property (liveness under fairness and `ENABLED`
are beyond the prover); what several traces make
of one graph beyond `EdgesInverse` and `Backed`; and `PcodeTypeOK` and
`ImplementsMachine`: the p-code needs bitwise operators and sums over bytes, which are
outside what the prover reaches.

## Not modelled

* The data flow searches by which a handler is recognised (`tryMatch_*`,
  `AnaVmpPattern`'s loads and stores, `VmpBlockAnalyzer`): they compute over graphs
  made by the vendored decompiler.  Their answers are tables.
* Which bytecode address a branch leads to (`prepareJmpContext`, `FixVmJmpVal`):
  the choice of `JmpOp`.
* `generateVmpNodeOps` and `generateVmpFunctionOps`: they call the vendored
  decompiler once per instruction and keep no state.
* The text of instructions, IDA and Ghidra glue, the menu of the plugin:
  straight-line code.
* `DumpGraph` and the graph window callbacks: they only read.
* Registers other than EIP and ESP in `VmpUnicorn`.
* `ContinueVmpTrace` and `DumpTrace`, which nothing calls.
* Comments edited by hand in IDA, two IDA processes sharing the pattern file, and
  the save in the middle of a build that `DeveloperMode` compiles in.
* Unicorn, capstone, keystone, cereal, IDA and the decompiler: libraries.  The
  Ghidra decompiler (`src/Ghidra`) and the IDA SDK (`IDA83_SDK`) are most of the
  repository's lines; what is VmpHelper's own is a few thousand, of which the
  modelled parts are those with state.

## Plan

Done: the modules of the table above, from the trace to the graph and the p-code,
and the proofs about six of them.  Left:

1. Pure algorithms against reference definitions: section lookup with its cached
   index, alignment, reading registers by size, the rules on branch constants.
2. `VmpBlockBuilder` and `VmpControlFlowBuilder` composed: today the second takes
   as a table what the first computes.
3. When a graph that serves several traces is `Walkable`: the theorems about
   `VmpBlockBuilder` take it, `MapsAgree` or `BlocksFollowCode` as a hypothesis.
