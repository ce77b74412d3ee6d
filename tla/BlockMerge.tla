----------------------------- MODULE BlockMerge -----------------------------
(***************************************************************************)
(* What merging the blocks of a control flow graph promises, whatever the  *)
(* order and the bookkeeping: the only thing that ever happens is that a   *)
(* block and its sole successor, of which it is the sole predecessor,      *)
(* become one.  MergeNodes (GhidraExtension/VmpControlFlow.cpp) is shown   *)
(* to implement it.                                                        *)
(***************************************************************************)
EXTENDS Sequences, Naturals

VARIABLES
  blocks,   \* the blocks: a set of non-empty sequences of instructions
  edges     \* pairs <<last instruction of a block, first one of a block>>

First(b) == b[1]
Last(b) == b[Len(b)]

\* Each instruction stands once in one block.
Disjoint ==
  \A a, b \in blocks : \A i \in 1..Len(a), j \in 1..Len(b) :
    a[i] = b[j] => a = b /\ i = j

Init ==
  /\ <<>> \notin blocks
  /\ Disjoint
  /\ edges \subseteq {<<Last(a), First(b)>> : a, b \in blocks}

\* Control that leaves a can only enter b, and b is entered only from a.
Chained(a, b) ==
  /\ <<Last(a), First(b)>> \in edges
  /\ \A e \in edges : e[1] = Last(a) <=> e[2] = First(b)

Join(a, b) ==
  /\ a # b /\ Chained(a, b)
  /\ blocks' = (blocks \ {a, b}) \cup {a \o b}
  /\ edges' = edges \ {<<Last(a), First(b)>>}

Next == \E a, b \in blocks : Join(a, b)

Spec == Init /\ [][Next]_<<blocks, edges>>

\* What may follow what, instruction by instruction.
Flow ==
  edges \cup UNION {{<<b[i], b[i + 1]>> : i \in 1..(Len(b) - 1)} : b \in blocks}

\* A merge moves instructions between blocks and never changes what follows
\* an instruction.
FlowKept == [][Flow' = Flow]_<<blocks, edges>>

=============================================================================
