--------------------------- MODULE VmpControlFlow ---------------------------
(***************************************************************************)
(* The control flow graph of a function and its simplification             *)
(* (VmpControlFlow::MergeNodes and checkMerge in                           *)
(* GhidraExtension/VmpControlFlow.cpp), over any graph that buildEdges can *)
(* leave.  VmpControlFlowBuilder extends this module with the construction *)
(* of the graph.                                                           *)
(*                                                                         *)
(* blocksMap is a set of keys with one function per field of               *)
(* VmpBasicBlock; a VmpBasicBlock* is the key of its entry.  buildEdges    *)
(* links a pair of blocks once, so inBlocks and outBlocks are sets.        *)
(***************************************************************************)
EXTENDS Integers, Sequences, FiniteSets

CONSTANTS
  VmAddress,   \* block addresses, pairs <<raw, vmdata>>
  Starts,      \* the addresses the start block may have
  Unset        \* the value of an uninitialised startBlock

ASSUME VmAddressAssumption == VmAddress \subseteq Nat \X Nat /\ IsFiniteSet(VmAddress)
ASSUME StartsAssumption == Starts \subseteq VmAddress /\ Unset \notin VmAddress

VARIABLES
  insList,      \* VmpBasicBlock::insList of each block in blocksMap
  inBlocks, outBlocks,
  startBlock,
  phase,        \* "merge" in MergeNodes, "done" when it has returned
  badNodeList,  \* MergeNodes' locals: blocks known not to merge,
  cursor,       \* the last key visited in this pass,
  bUpdateNode   \* and whether this pass merged a block

blockVars == <<insList, inBlocks, outBlocks>>
mergeVars == <<badNodeList, cursor, bUpdateNode>>
vars == <<blockVars, startBlock, phase, mergeVars>>

blocksMap == DOMAIN insList

\* VmAddress::operator<
Before(a, b) == a[1] < b[1] \/ (a[1] = b[1] /\ a[2] < b[2])

\* A cursor before every key.
MapBegin == <<-1, 0>>

MirrorOf(out) == [b \in DOMAIN out |-> {a \in DOMAIN out : b \in out[a]}]

\* Any graph: a block's instructions are one item, named for the block.
Init ==
  /\ insList = [b \in VmAddress |-> <<b>>]
  /\ outBlocks \in [VmAddress -> SUBSET VmAddress]
  /\ inBlocks = MirrorOf(outBlocks)
  /\ startBlock \in Starts
  /\ phase = "merge"
  /\ badNodeList = {} /\ cursor = MapBegin /\ bUpdateNode = FALSE

Unvisited == {b \in blocksMap \ badNodeList : Before(cursor, b)}
IsNext(b) == b \in Unvisited /\ \A c \in Unvisited \ {b} : Before(b, c)

\* Mutant: the father's other successors are not looked at.
CanMergeAnyFather(b, father) ==
  inBlocks[b] = {father} /\ father \notin outBlocks[b]

\* checkMerge's three conditions on block b and its father.
CanMerge(b, father) ==
  /\ inBlocks[b] = {father}
  /\ Cardinality(outBlocks[father]) = 1
  /\ father \notin outBlocks[b]

\* Mutants: the successors keep pointing back to b; b itself is not erased.
RedirectNone(b, father) == [c \in blocksMap \ {b} |-> inBlocks[c]]
RedirectAll(b, father) ==
  [c \in blocksMap |-> IF c \in outBlocks[b] THEN (inBlocks[c] \ {b}) \cup {father}
                                              ELSE inBlocks[c]]

\* The successors of b, told that father has taken its place.
Redirect(b, father) ==
  [c \in blocksMap \ {b} |->
     IF c \in outBlocks[b] THEN (inBlocks[c] \ {b}) \cup {father}
                           ELSE inBlocks[c]]

\* The rest of checkMerge, and the erase that follows it in MergeNodes.
Merge(b, father) ==
  /\ insList' = [c \in blocksMap \ {b} |->
                   IF c = father THEN insList[c] \o insList[b] ELSE insList[c]]
  /\ outBlocks' = [c \in blocksMap \ {b} |->
                     IF c = father THEN outBlocks[b] ELSE outBlocks[c]]
  /\ inBlocks' = Redirect(b, father)

\* Mutant: the father counts as settled once it has taken b.
MergeNodeSettlesFather ==
  /\ phase = "merge"
  /\ \E b \in blocksMap : \E father \in inBlocks[b] :
       /\ IsNext(b) /\ CanMerge(b, father)
       /\ Merge(b, father)
       /\ cursor' = b
       /\ badNodeList' = badNodeList \cup {father}
  /\ bUpdateNode' = TRUE
  /\ UNCHANGED <<startBlock, phase>>

MergeNode ==
  /\ phase = "merge"
  /\ \E b \in blocksMap : \E father \in inBlocks[b] :
       /\ IsNext(b) /\ CanMerge(b, father)
       /\ Merge(b, father)
       /\ cursor' = b
  /\ bUpdateNode' = TRUE
  /\ UNCHANGED <<startBlock, phase, badNodeList>>

RejectNode ==
  /\ phase = "merge"
  /\ \E b \in blocksMap :
       /\ IsNext(b) /\ \A father \in inBlocks[b] : ~ CanMerge(b, father)
       /\ cursor' = b
       /\ badNodeList' = badNodeList \cup {b}
  /\ UNCHANGED <<blockVars, startBlock, phase, bUpdateNode>>

\* Mutant: bUpdateNode is set to false before the loop, not in it.
PassEndsNoReset ==
  /\ phase = "merge" /\ Unvisited = {}
  /\ phase' = IF bUpdateNode THEN "merge" ELSE "done"
  /\ cursor' = MapBegin
  /\ UNCHANGED <<blockVars, startBlock, badNodeList, bUpdateNode>>

PassEnds ==
  /\ phase = "merge" /\ Unvisited = {}
  /\ phase' = IF bUpdateNode THEN "merge" ELSE "done"
  /\ cursor' = MapBegin /\ bUpdateNode' = FALSE
  /\ UNCHANGED <<blockVars, startBlock, badNodeList>>

MergeNodes == MergeNode \/ RejectNode \/ PassEnds

Spec == Init /\ [][MergeNodes]_vars

\* MergeNodes is a loop nothing interrupts.
FairSpec == Spec /\ WF_vars(MergeNodes)

----------------------------------------------------------------------------
TypeOK ==
  /\ blocksMap \subseteq VmAddress
  /\ insList \in [blocksMap -> Seq(VmAddress)]
  /\ inBlocks \in [blocksMap -> SUBSET VmAddress]
  /\ outBlocks \in [blocksMap -> SUBSET VmAddress]
  /\ startBlock \in VmAddress \cup {Unset}
  /\ phase \in {"merge", "done"}
  /\ badNodeList \subseteq VmAddress
  /\ bUpdateNode \in BOOLEAN

\* outBlocks and inBlocks are each other's inverse and point at blocks that
\* are still in blocksMap: the graph widget follows outBlocks, and a merge
\* erases a block that others point to.
EdgesMirrored ==
  \A a \in blocksMap :
    /\ outBlocks[a] \cup inBlocks[a] \subseteq blocksMap
    /\ \A b \in blocksMap : b \in outBlocks[a] <=> a \in inBlocks[b]

\* A block rejected once is never checked again, and still MergeNodes
\* returns with no pair left that its own conditions would merge.
MergeMaximal ==
  phase = "done" =>
    \A b \in blocksMap : \A father \in inBlocks[b] : ~ CanMerge(b, father)

\* MergeNodes returns.
MergeTerminates == <>(phase = "done")

\* MergeNodes implements block merging: seen as sequences of instructions
\* and the jumps between them, it does nothing but join chained blocks.
Abstract == INSTANCE BlockMerge WITH
  blocks <- {insList[b] : b \in blocksMap},
  edges  <- UNION {{<<insList[a][Len(insList[a])], insList[b][1]>> :
                      b \in outBlocks[a]} : a \in blocksMap}

ImplementsBlockMerge == Abstract!Spec
FlowKept == Abstract!FlowKept

\* Comment at VmpControlFlow.h:169: blocksMap stores all the blocks, so the
\* start block generateVmpFunctionOps begins with is one of them.
StartBlockStored == phase = "done" => startBlock \in blocksMap

=============================================================================
