------------------------ MODULE VmpControlFlowProofs ------------------------
(***************************************************************************)
(* Proofs about VmpControlFlow: for every set of block addresses and every *)
(* graph over it, MergeNodes keeps inBlocks and outBlocks inverse and      *)
(* pointing into blocksMap, implements BlockMerge, and returns with        *)
(* nothing left to merge.                                                  *)
(***************************************************************************)
EXTENDS VmpControlFlow, FiniteSetTheorems, TLAPS

USE VmAddressAssumption, StartsAssumption

Inv == TypeOK /\ EdgesMirrored

LEMMA InvFinite == Inv => EdgesMirrored /\ IsFiniteSet(blocksMap)
BY FS_Subset DEF Inv, TypeOK

\* What checkMerge's conditions mean where the edges are mirrored: the
\* father is another block and b is all it leads to.
LEMMA MergedPair ==
  ASSUME EdgesMirrored, IsFiniteSet(blocksMap),
         NEW b \in blocksMap, NEW father \in inBlocks[b], CanMerge(b, father)
  PROVE  /\ father \in blocksMap
         /\ father # b
         /\ inBlocks[b] = {father}
         /\ outBlocks[father] = {b}
         /\ father \notin outBlocks[b]
<1>1. father \in blocksMap /\ b \in outBlocks[father]
  BY DEF EdgesMirrored
<1>2. inBlocks[b] = {father} /\ father \notin outBlocks[b]
  BY DEF CanMerge
<1>3. father # b
  BY <1>1, <1>2
<1>4. IsFiniteSet(outBlocks[father])
  <2>1. outBlocks[father] \subseteq blocksMap
    BY <1>1 DEF EdgesMirrored
  <2> QED
    BY <2>1, FS_Subset
<1>5. PICK x : outBlocks[father] = {x}
  BY <1>4, FS_Singleton DEF CanMerge
<1> QED
  BY <1>1, <1>2, <1>3, <1>5

\* Merging a pair keeps the field functions on the blocks that are left.
LEMMA MergeType ==
  ASSUME Inv, NEW b \in blocksMap, NEW father \in inBlocks[b],
         CanMerge(b, father), Merge(b, father)
  PROVE  /\ blocksMap' = blocksMap \ {b}
         /\ insList' \in [blocksMap' -> Seq(VmAddress)]
         /\ inBlocks' \in [blocksMap' -> SUBSET VmAddress]
         /\ outBlocks' \in [blocksMap' -> SUBSET VmAddress]
<1>1. father \in blocksMap /\ father # b
  BY InvFinite, MergedPair
<1>2. blocksMap' = blocksMap \ {b}
  BY DEF Merge, blocksMap
<1>3. \A c \in blocksMap : /\ insList[c] \in Seq(VmAddress)
                           /\ inBlocks[c] \subseteq VmAddress
                           /\ outBlocks[c] \subseteq VmAddress
  BY DEF Inv, TypeOK
<1>4. insList[father] \o insList[b] \in Seq(VmAddress)
  BY <1>1, <1>3
<1>5. insList' \in [blocksMap' -> Seq(VmAddress)]
  BY <1>2, <1>3, <1>4 DEF Merge
<1>6. father \in VmAddress
  BY <1>1 DEF Inv, TypeOK
<1>7. inBlocks' \in [blocksMap' -> SUBSET VmAddress]
  BY <1>2, <1>3, <1>6 DEF Merge, Redirect
<1>8. outBlocks' \in [blocksMap' -> SUBSET VmAddress]
  BY <1>2, <1>3 DEF Merge
<1> QED
  BY <1>2, <1>5, <1>7, <1>8

\* Merging a pair keeps the edges mirrored.
LEMMA MergeMirrored ==
  ASSUME EdgesMirrored, IsFiniteSet(blocksMap), NEW b \in blocksMap, NEW father \in inBlocks[b],
         CanMerge(b, father), Merge(b, father)
  PROVE  EdgesMirrored'
<1> DEFINE left == blocksMap \ {b}
<1>1. /\ father \in left
      /\ inBlocks[b] = {father} /\ outBlocks[father] = {b}
      /\ father \notin outBlocks[b]
  BY MergedPair
<1>2. blocksMap' = left
  BY DEF Merge, blocksMap
<1>3. \A a \in left : outBlocks'[a] = IF a = father THEN outBlocks[b] ELSE outBlocks[a]
  BY DEF Merge
<1>4. \A c \in left : inBlocks'[c] = IF c \in outBlocks[b]
                                       THEN (inBlocks[c] \ {b}) \cup {father}
                                       ELSE inBlocks[c]
  BY DEF Merge, Redirect
<1>5. \A a \in blocksMap : outBlocks[a] \cup inBlocks[a] \subseteq blocksMap
  BY DEF EdgesMirrored
<1>6. \A a, c \in blocksMap : c \in outBlocks[a] <=> a \in inBlocks[c]
  BY DEF EdgesMirrored
<1>7. ASSUME NEW a \in left
      PROVE  outBlocks'[a] \cup inBlocks'[a] \subseteq left
  <2>1. outBlocks'[a] \subseteq left
    <3>1. CASE a = father
      <4>1. b \notin outBlocks[b]
        BY <1>1, <1>6
      <4> QED
        BY <3>1, <4>1, <1>3, <1>5
    <3>2. CASE a # father
      <4>1. b \notin outBlocks[a]
        BY <3>2, <1>1, <1>6
      <4> QED
        BY <3>2, <4>1, <1>3, <1>5
    <3> QED
      BY <3>1, <3>2
  <2>2. inBlocks'[a] \subseteq left
    <3>1. CASE a \in outBlocks[b]
      BY <3>1, <1>1, <1>4, <1>5
    <3>2. CASE a \notin outBlocks[b]
      <4>1. b \notin inBlocks[a]
        BY <3>2, <1>6
      <4> QED
        BY <3>2, <4>1, <1>4, <1>5
    <3> QED
      BY <3>1, <3>2
  <2> QED
    BY <2>1, <2>2
<1>8. ASSUME NEW a \in left, NEW c \in left
      PROVE  c \in outBlocks'[a] <=> a \in inBlocks'[c]
  <2>1. CASE a = father
    <3>1. father \notin inBlocks[c]
      BY <1>1, <1>6
    <3> QED
      BY <2>1, <3>1, <1>3, <1>4
  <2>2. CASE a # father
    <3>1. outBlocks'[a] = outBlocks[a] /\ (c \in outBlocks[a] <=> a \in inBlocks[c])
      BY <2>2, <1>3, <1>6
    <3>2. a \in inBlocks'[c] <=> a \in inBlocks[c]
      BY <2>2, <1>4
    <3> QED
      BY <3>1, <3>2
  <2> QED
    BY <2>1, <2>2
<1> QED
  BY <1>2, <1>7, <1>8 DEF EdgesMirrored

LEMMA InitInv == Init => Inv
<1> SUFFICES ASSUME Init PROVE Inv
  OBVIOUS
<1>1. insList \in [VmAddress -> Seq(VmAddress)] /\ blocksMap = VmAddress
  BY DEF Init, blocksMap
<1>2. outBlocks \in [VmAddress -> SUBSET VmAddress]
  BY DEF Init
<1>3. inBlocks = [c \in VmAddress |-> {a \in VmAddress : c \in outBlocks[a]}]
  BY <1>2 DEF Init, MirrorOf
<1>4. TypeOK
  BY <1>1, <1>2, <1>3 DEF Init, TypeOK
<1>5. EdgesMirrored
  BY <1>1, <1>2, <1>3 DEF EdgesMirrored
<1> QED
  BY <1>4, <1>5 DEF Inv

LEMMA NextInv == Inv /\ [MergeNodes]_vars => Inv'
<1> SUFFICES ASSUME Inv, [MergeNodes]_vars PROVE Inv'
  OBVIOUS
<1>1. CASE MergeNode
  <2>0. PICK b \in blocksMap :
          \E father \in inBlocks[b] : CanMerge(b, father) /\ Merge(b, father)
    BY <1>1 DEF MergeNode
  <2>1. PICK father \in inBlocks[b] : CanMerge(b, father) /\ Merge(b, father)
    BY <2>0
  <2>2. TypeOK'
    BY <1>1, <2>1, MergeType DEF Inv, TypeOK, MergeNode
  <2>3. EdgesMirrored'
    BY <2>1, InvFinite, MergeMirrored
  <2> QED
    BY <2>2, <2>3 DEF Inv
<1>2. CASE RejectNode
  <2>1. badNodeList' \subseteq VmAddress
    BY <1>2 DEF RejectNode, Inv, TypeOK
  <2> QED
    BY <1>2, <2>1 DEF RejectNode, Inv, TypeOK, EdgesMirrored, blockVars, blocksMap
<1>3. CASE PassEnds
  BY <1>3 DEF PassEnds, Inv, TypeOK, EdgesMirrored, blockVars, blocksMap
<1>4. CASE UNCHANGED vars
  BY <1>4 DEF vars, Inv, TypeOK, EdgesMirrored, blockVars, mergeVars, blocksMap
<1> QED
  BY <1>1, <1>2, <1>3, <1>4 DEF MergeNodes

\* MergeNodes keeps every field of every block well-formed.
THEOREM TypeCorrect == Spec => []TypeOK
<1>1. Inv => TypeOK
  BY DEF Inv
<1> QED
  BY <1>1, InitInv, NextInv, PTL DEF Spec

\* No merge leaves an edge that points to an erased block, or that only one of
\* its two ends knows: what the graph widget follows is always in blocksMap.
THEOREM MirroredCorrect == Spec => []EdgesMirrored
<1>1. Inv => EdgesMirrored
  BY DEF Inv
<1> QED
  BY <1>1, InitInv, NextInv, PTL DEF Spec

----------------------------------------------------------------------------
(* Refinement.  The abstract blocks are the insLists, so that two blocks   *)
(* are told apart by their instructions has to be invariant as well.       *)

Distinct ==
  \A a, b \in blocksMap :
    \A i \in 1..Len(insList[a]), j \in 1..Len(insList[b]) :
      insList[a][i] = insList[b][j] => a = b /\ i = j

NonEmpty == \A b \in blocksMap : insList[b] # <<>>

IInv == Inv /\ Distinct /\ NonEmpty

\* Where each position of a merged list comes from.
LEMMA Concat ==
  ASSUME NEW S, NEW s \in Seq(S), NEW t \in Seq(S), s # <<>>, t # <<>>
  PROVE  /\ s \o t \in Seq(S)
         /\ Len(s \o t) = Len(s) + Len(t)
         /\ s \o t # <<>>
         /\ (s \o t)[1] = s[1]
         /\ (s \o t)[Len(s \o t)] = t[Len(t)]
         /\ \A i \in 1..Len(s) : (s \o t)[i] = s[i]
         /\ \A i \in 1..Len(t) : (s \o t)[Len(s) + i] = t[i]
         /\ \A i \in 1..Len(s \o t) :
              IF i <= Len(s) THEN i \in 1..Len(s) /\ (s \o t)[i] = s[i]
                             ELSE i - Len(s) \in 1..Len(t) /\ (s \o t)[i] = t[i - Len(s)]
  OBVIOUS

LEMMA InitIInv == Init => IInv
<1> SUFFICES ASSUME Init PROVE IInv
  OBVIOUS
<1>1. blocksMap = VmAddress /\ \A b \in VmAddress : insList[b] = <<b>>
  BY DEF Init, blocksMap
<1>2. \A b \in blocksMap : Len(insList[b]) = 1 /\ insList[b][1] = b /\ insList[b] # <<>>
  <2> SUFFICES ASSUME NEW b \in blocksMap
               PROVE  Len(insList[b]) = 1 /\ insList[b][1] = b /\ insList[b] # <<>>
    OBVIOUS
  <2>1. insList[b] = <<b>>
    BY <1>1
  <2>2. Len(<<b>>) = 1 /\ <<b>>[1] = b /\ <<b>> # <<>>
    OBVIOUS
  <2> QED
    BY <2>1, <2>2
<1>3. Distinct
  BY <1>2 DEF Distinct
<1>4. NonEmpty
  BY <1>2 DEF NonEmpty
<1> QED
  BY <1>3, <1>4, InitInv DEF IInv

LEMMA MergeDistinct ==
  ASSUME IInv, NEW b \in blocksMap, NEW father \in inBlocks[b],
         CanMerge(b, father), Merge(b, father)
  PROVE  Distinct' /\ NonEmpty'
<1> DEFINE left == blocksMap \ {b}
           L == insList[father]
           R == insList[b]
<1>1. father \in left /\ blocksMap' = left
  BY InvFinite, MergedPair, MergeType DEF IInv
<1>2. \A c \in left : insList'[c] = IF c = father THEN L \o R ELSE insList[c]
  BY DEF Merge
<1>3. L \in Seq(VmAddress) /\ R \in Seq(VmAddress) /\ L # <<>> /\ R # <<>>
  BY <1>1 DEF IInv, Inv, TypeOK, NonEmpty
<1> HIDE DEF L, R
<1>8. /\ L \o R # <<>>
      /\ \A i \in 1..Len(L \o R) :
           IF i <= Len(L) THEN i \in 1..Len(L) /\ (L \o R)[i] = L[i]
                          ELSE i - Len(L) \in 1..Len(R) /\ (L \o R)[i] = R[i - Len(L)]
  BY <1>3, Concat
<1>4. NonEmpty'
  BY <1>1, <1>2, <1>8 DEF IInv, NonEmpty
\* The block and position an element of c had before the merge.
<1> DEFINE home(c, i) == IF c = father /\ i > Len(L) THEN b ELSE c
           spot(c, i) == IF c = father /\ i > Len(L) THEN i - Len(L) ELSE i
<1>5. ASSUME NEW c \in left, NEW i \in 1..Len(insList'[c])
      PROVE  /\ home(c, i) \in blocksMap
             /\ spot(c, i) \in 1..Len(insList[home(c, i)])
             /\ insList'[c][i] = insList[home(c, i)][spot(c, i)]
  <2>1. CASE c = father
    <3>1. insList'[c] = L \o R
      BY <2>1, <1>2
    <3>2. IF i <= Len(L) THEN i \in 1..Len(L) /\ insList'[c][i] = L[i]
                         ELSE i - Len(L) \in 1..Len(R) /\ insList'[c][i] = R[i - Len(L)]
      BY <3>1, <1>5, <1>8
    <3>3. Len(L) \in Nat /\ i \in Int
      BY <1>3, <1>5
    <3>4. CASE i <= Len(L)
      BY <2>1, <3>2, <3>3, <3>4, <1>1 DEF L
    <3>5. CASE ~ (i <= Len(L))
      BY <2>1, <3>2, <3>3, <3>5 DEF R
    <3> QED
      BY <3>4, <3>5
  <2>2. CASE c # father
    BY <2>2, <1>2, <1>5
  <2> QED
    BY <2>1, <2>2
<1>6. ASSUME NEW a \in left, NEW c \in left,
             NEW i \in 1..Len(insList'[a]), NEW j \in 1..Len(insList'[c]),
             insList'[a][i] = insList'[c][j]
      PROVE  a = c /\ i = j
  <2>1. insList[home(a, i)][spot(a, i)] = insList[home(c, j)][spot(c, j)]
    BY <1>5, <1>6
  <2>2. home(a, i) = home(c, j) /\ spot(a, i) = spot(c, j)
    BY <2>1, <1>5 DEF IInv, Distinct
  <2>3. Len(L) \in Nat /\ i \in Int /\ j \in Int
    BY <1>3, <1>6
  <2>4. CASE a = father /\ i > Len(L)
    BY <2>2, <2>3, <2>4, <1>1
  <2>5. CASE ~ (a = father /\ i > Len(L))
    BY <2>2, <2>3, <2>5, <1>1
  <2> QED
    BY <2>4, <2>5
<1>7. Distinct'
  BY <1>1, <1>6 DEF Distinct
<1> QED
  BY <1>4, <1>7

LEMMA NextIInv == IInv /\ [MergeNodes]_vars => IInv'
<1> SUFFICES ASSUME IInv, [MergeNodes]_vars PROVE IInv'
  OBVIOUS
<1>1. Inv'
  BY NextInv DEF IInv
<1>2. Distinct' /\ NonEmpty'
  <2>1. CASE MergeNode
    <3>1. PICK b \in blocksMap :
            \E father \in inBlocks[b] : CanMerge(b, father) /\ Merge(b, father)
      BY <2>1 DEF MergeNode
    <3>2. PICK father \in inBlocks[b] : CanMerge(b, father) /\ Merge(b, father)
      BY <3>1
    <3> QED
      BY <3>2, MergeDistinct
  <2>2. CASE UNCHANGED blockVars
    BY <2>2 DEF IInv, Distinct, NonEmpty, blockVars, blocksMap
  <2> QED
    BY <2>1, <2>2 DEF MergeNodes, RejectNode, PassEnds, vars
<1> QED
  BY <1>1, <1>2 DEF IInv

\* A merge is a join of the abstract blocks.
LEMMA MergeJoins ==
  ASSUME IInv, NEW b \in blocksMap, NEW father \in inBlocks[b],
         CanMerge(b, father), Merge(b, father)
  PROVE  Abstract!Next
<1> DEFINE left == blocksMap \ {b}
           L == insList[father]
           R == insList[b]
           last(a) == insList[a][Len(insList[a])]
           first(a) == insList[a][1]
           blks == {insList[a] : a \in blocksMap}
           edgs == UNION {{<<last(a), first(c)>> : c \in outBlocks[a]} : a \in blocksMap}
<1>1. /\ father \in left /\ blocksMap' = left /\ b \in outBlocks[father]
      /\ inBlocks[b] = {father} /\ outBlocks[father] = {b}
  BY InvFinite, MergedPair, MergeType DEF IInv
<1>2. /\ \A c \in left : insList'[c] = IF c = father THEN L \o R ELSE insList[c]
      /\ \A c \in left : outBlocks'[c] = IF c = father THEN outBlocks[b] ELSE outBlocks[c]
  BY DEF Merge
<1>3. \A a \in blocksMap : /\ Len(insList[a]) \in Nat \ {0}
                          /\ insList[a] \in Seq(VmAddress) /\ insList[a] # <<>>
  BY DEF IInv, Inv, TypeOK, NonEmpty
\* A block is known by its first instruction, and by its last.
<1>4. /\ \A a, c \in blocksMap : last(a) = last(c) => a = c
      /\ \A a, c \in blocksMap : first(a) = first(c) => a = c
      /\ \A a, c \in blocksMap : insList[a] = insList[c] => a = c
  <2> SUFFICES ASSUME NEW a \in blocksMap, NEW c \in blocksMap
               PROVE  /\ last(a) = last(c) => a = c
                      /\ first(a) = first(c) => a = c
                      /\ insList[a] = insList[c] => a = c
    OBVIOUS
  <2>1. /\ 1 \in 1..Len(insList[a]) /\ Len(insList[a]) \in 1..Len(insList[a])
        /\ 1 \in 1..Len(insList[c]) /\ Len(insList[c]) \in 1..Len(insList[c])
    BY <1>3
  <2>2. \A i \in 1..Len(insList[a]), j \in 1..Len(insList[c]) :
          insList[a][i] = insList[c][j] => a = c
    BY DEF IInv, Distinct
  <2>3. last(a) = last(c) => a = c
    BY <2>1, <2>2
  <2>4. first(a) = first(c) => a = c
    BY <2>1, <2>2
  <2> QED
    BY <2>3, <2>4
<1>5. /\ \A a, c \in blocksMap : c \in outBlocks[a] <=> a \in inBlocks[c]
      /\ \A a \in blocksMap : outBlocks[a] \subseteq blocksMap
  BY DEF IInv, Inv, EdgesMirrored
<1>6. /\ (L \o R)[1] = first(father)
      /\ (L \o R)[Len(L \o R)] = last(b)
  <2>1. L \in Seq(VmAddress) /\ R \in Seq(VmAddress) /\ L # <<>> /\ R # <<>>
    BY <1>1, <1>3
  <2> HIDE DEF L, R
  <2>2. (L \o R)[1] = L[1] /\ (L \o R)[Len(L \o R)] = R[Len(R)]
    BY <2>1, Concat
  <2> QED
    BY <2>2 DEF L, R
<1>7. L \in blks /\ R \in blks /\ L # R
  BY <1>1, <1>4
<1>8. \A e : e \in edgs <=>
        \E a \in blocksMap : \E c \in outBlocks[a] : e = <<last(a), first(c)>>
  OBVIOUS
<1>9. <<last(father), first(b)>> \in edgs
  BY <1>1, <1>8
<1>10. ASSUME NEW e \in edgs
       PROVE  e[1] = last(father) <=> e[2] = first(b)
  <2>1. PICK a \in blocksMap : \E c \in outBlocks[a] : e = <<last(a), first(c)>>
    BY <1>8
  <2>2. PICK c \in outBlocks[a] : e = <<last(a), first(c)>>
    BY <2>1
  <2>3. e[1] = last(a) /\ e[2] = first(c) /\ c \in blocksMap
    BY <2>2, <1>5
  <2>4. a = father <=> c = b
    BY <2>2, <2>3, <1>1, <1>5
  <2> QED
    BY <2>3, <2>4, <1>1, <1>4
<1>11. {insList'[a] : a \in left} = (blks \ {L, R}) \cup {L \o R}
  <2>1. \A a \in left \ {father} : insList[a] # L /\ insList[a] # R
    BY <1>1, <1>4
  <2>2. ASSUME NEW a \in left
        PROVE  insList'[a] \in (blks \ {L, R}) \cup {L \o R}
    BY <2>1, <1>2
  <2>3. ASSUME NEW l \in (blks \ {L, R}) \cup {L \o R}
        PROVE  \E a \in left : l = insList'[a]
    <3>1. CASE l = L \o R
      BY <3>1, <1>1, <1>2
    <3>2. CASE l # L \o R
      <4>1. PICK a \in blocksMap : l = insList[a] /\ l # L /\ l # R
        BY <2>3, <3>2
      <4>2. a \in left /\ a # father
        BY <4>1
      <4> QED
        BY <4>1, <4>2, <1>2
    <3> QED
      BY <3>1, <3>2
  <2> DEFINE S == {insList'[a] : a \in left}
             T == (blks \ {L, R}) \cup {L \o R}
  <2>4. \A l : l \in S <=> \E a \in left : l = insList'[a]
    OBVIOUS
  <2>5. \A l : l \in S <=> l \in T
    BY <2>2, <2>3, <2>4
  <2> HIDE DEF S, T
  <2>6. S = T
    BY <2>5
  <2> QED
    BY <2>6 DEF S, T
<1> DEFINE lastN(a) == insList'[a][Len(insList'[a])]
           firstN(a) == insList'[a][1]
           edgsN == UNION {{<<lastN(a), firstN(c)>> : c \in outBlocks'[a]} : a \in left}
<1>12. \A a \in left : /\ lastN(a) = IF a = father THEN last(b) ELSE last(a)
                      /\ firstN(a) = first(a)
  BY <1>1, <1>2, <1>6
<1>13. \A a \in left : outBlocks'[a] \subseteq left
  <2>1. EdgesMirrored'
    BY InvFinite, MergeMirrored DEF IInv
  <2> QED
    BY <2>1, <1>1 DEF EdgesMirrored
<1>14. edgsN = edgs \ {<<last(father), first(b)>>}
  <2>1. ASSUME NEW e \in edgsN PROVE e \in edgs /\ e # <<last(father), first(b)>>
    <3>1. PICK a \in left : \E c \in outBlocks'[a] : e = <<lastN(a), firstN(c)>>
      BY <2>1
    <3>2. PICK c \in outBlocks'[a] : e = <<lastN(a), firstN(c)>>
      BY <3>1
    <3>3. c \in left /\ e = <<lastN(a), first(c)>>
      BY <3>2, <1>12, <1>13
    <3>4. first(c) # first(b)
      BY <3>3, <1>4
    <3>5. CASE a = father
      <4>1. c \in outBlocks[b] /\ e = <<last(b), first(c)>>
        BY <3>2, <3>3, <3>5, <1>1, <1>2, <1>12
      <4> QED
        BY <4>1, <3>4, <1>8
    <3>6. CASE a # father
      <4>1. c \in outBlocks[a] /\ e = <<last(a), first(c)>>
        BY <3>2, <3>3, <3>6, <1>2, <1>12
      <4> QED
        BY <4>1, <3>4, <1>8
    <3> QED
      BY <3>5, <3>6
  <2>2. ASSUME NEW e \in edgs, e # <<last(father), first(b)>> PROVE e \in edgsN
    <3>1. PICK a \in blocksMap : \E c \in outBlocks[a] : e = <<last(a), first(c)>>
      BY <2>2, <1>8
    <3>2. PICK c \in outBlocks[a] : e = <<last(a), first(c)>>
      BY <3>1
    <3>3. a # father /\ c # b
      BY <3>2, <2>2, <1>1, <1>5
    <3>4. c \in left
      BY <3>2, <3>3, <1>5
    <3>5. CASE a = b
      <4>1. c \in outBlocks'[father] /\ e = <<lastN(father), firstN(c)>>
        BY <3>2, <3>4, <3>5, <1>1, <1>2, <1>12
      <4> QED
        BY <4>1, <1>1
    <3>6. CASE a # b
      <4>1. a \in left /\ c \in outBlocks'[a] /\ e = <<lastN(a), firstN(c)>>
        BY <3>2, <3>3, <3>4, <3>6, <1>2, <1>12
      <4> QED
        BY <4>1
    <3> QED
      BY <3>5, <3>6
  <2> QED
    BY <2>1, <2>2
<1>15. PICK l, r : l = L /\ r = R
  OBVIOUS
<1>16. l \in blks /\ r \in blks /\ Abstract!Join(l, r)
  BY <1>1, <1>7, <1>9, <1>10, <1>11, <1>14, <1>15
     DEF Abstract!Join, Abstract!Chained, Abstract!Last, Abstract!First
<1> QED
  BY <1>16 DEF Abstract!Next

LEMMA InitAbstract == IInv /\ Init => Abstract!Init
<1> SUFFICES ASSUME IInv, Init PROVE Abstract!Init
  OBVIOUS
<1> DEFINE blks == {insList[a] : a \in blocksMap}
           last(a) == insList[a][Len(insList[a])]
           first(a) == insList[a][1]
           edgs == UNION {{<<last(a), first(c)>> : c \in outBlocks[a]} : a \in blocksMap}
<1>1. <<>> \notin blks
  BY DEF IInv, NonEmpty
<1>2. \A l, r \in blks : \A i \in 1..Len(l), j \in 1..Len(r) :
        l[i] = r[j] => l = r /\ i = j
  <2> SUFFICES ASSUME NEW a \in blocksMap, NEW c \in blocksMap,
                      NEW i \in 1..Len(insList[a]), NEW j \in 1..Len(insList[c]),
                      insList[a][i] = insList[c][j]
               PROVE  insList[a] = insList[c] /\ i = j
    OBVIOUS
  <2>1. a = c /\ i = j
    BY DEF IInv, Distinct
  <2> QED
    BY <2>1
<1>3. ASSUME NEW e \in edgs
      PROVE  \E l, r \in blks : e = <<l[Len(l)], r[1]>>
  <2>1. PICK a \in blocksMap : \E c \in outBlocks[a] : e = <<last(a), first(c)>>
    OBVIOUS
  <2>2. PICK c \in outBlocks[a] : e = <<last(a), first(c)>>
    BY <2>1
  <2>3. c \in blocksMap
    BY <2>2 DEF IInv, Inv, EdgesMirrored
  <2>4. insList[a] \in blks /\ insList[c] \in blks
    BY <2>3
  <2> QED
    BY <2>2, <2>4
<1>4. Abstract!Disjoint
  BY <1>2 DEF Abstract!Disjoint
<1> QED
  BY <1>1, <1>3, <1>4
     DEF Abstract!Init, Abstract!Last, Abstract!First

\* A step of MergeNodes is a join of two abstract blocks, or none at all.
LEMMA StepJoins ==
  IInv /\ [MergeNodes]_vars =>
    \/ \E b \in blocksMap : \E father \in inBlocks[b] :
         CanMerge(b, father) /\ Merge(b, father)
    \/ UNCHANGED blockVars
BY DEF MergeNodes, MergeNode, RejectNode, PassEnds, vars

LEMMA NextAbstract ==
  IInv /\ [MergeNodes]_vars =>
    [Abstract!Next]_<<{insList[b] : b \in blocksMap},
                      UNION {{<<insList[a][Len(insList[a])], insList[b][1]>> :
                                b \in outBlocks[a]} : a \in blocksMap}>>
<1> SUFFICES ASSUME IInv, [MergeNodes]_vars
             PROVE  \/ Abstract!Next
                    \/ UNCHANGED <<{insList[b] : b \in blocksMap},
                         UNION {{<<insList[a][Len(insList[a])], insList[b][1]>> :
                                   b \in outBlocks[a]} : a \in blocksMap}>>
  OBVIOUS
<1>1. CASE \E b \in blocksMap : \E father \in inBlocks[b] :
             CanMerge(b, father) /\ Merge(b, father)
  <2>1. PICK b \in blocksMap :
          \E father \in inBlocks[b] : CanMerge(b, father) /\ Merge(b, father)
    BY <1>1
  <2>2. PICK father \in inBlocks[b] : CanMerge(b, father) /\ Merge(b, father)
    BY <2>1
  <2>3. Abstract!Next
    BY <2>2, MergeJoins
  <2> QED
    BY <2>3
<1>2. CASE UNCHANGED blockVars
  BY <1>2 DEF blockVars, blocksMap
<1> QED
  BY <1>1, <1>2, StepJoins

\* MergeNodes implements block merging: whatever the graph, and however the
\* visits, rejections and passes fall, the only thing that happens to the
\* instructions is that a block and its sole successor are joined
\* (VmpControlFlow::MergeNodes and checkMerge).
THEOREM Refinement == Spec => ImplementsBlockMerge
<1>1. Init => IInv
  BY InitIInv
<1>2. IInv /\ [MergeNodes]_vars => IInv'
  BY NextIInv
<1> QED
  BY <1>1, <1>2, InitAbstract, NextAbstract, PTL
     DEF Spec, ImplementsBlockMerge, Abstract!Spec

\* The neighbours in a list, and in two joined lists.
Inside(l) == {<<l[i], l[i + 1]>> : i \in 1..(Len(l) - 1)}

LEMMA ConcatPairs ==
  ASSUME NEW S, NEW s \in Seq(S), NEW t \in Seq(S), s # <<>>, t # <<>>
  PROVE  \A e : e \in Inside(s \o t) <=>
                  e = <<s[Len(s)], t[1]>> \/ e \in Inside(s) \/ e \in Inside(t)
<1> SUFFICES ASSUME NEW e
             PROVE  e \in Inside(s \o t) <=>
                       e = <<s[Len(s)], t[1]>> \/ e \in Inside(s) \/ e \in Inside(t)
  OBVIOUS
<1> DEFINE st == s \o t
<1>1. /\ Len(s) \in Nat \ {0} /\ Len(t) \in Nat \ {0} /\ Len(st) = Len(s) + Len(t)
      /\ \A i \in 1..Len(s) : st[i] = s[i]
      /\ \A i \in 1..Len(t) : st[Len(s) + i] = t[i]
  BY Concat
<1> HIDE DEF st
<1>2. ASSUME NEW i \in 1..(Len(st) - 1), e = <<st[i], st[i + 1]>>
      PROVE  \/ e = <<s[Len(s)], t[1]>>
             \/ \E k \in 1..(Len(s) - 1) : e = <<s[k], s[k + 1]>>
             \/ \E k \in 1..(Len(t) - 1) : e = <<t[k], t[k + 1]>>
  <2>1. CASE i < Len(s)
    <3>1. i \in 1..(Len(s) - 1) /\ st[i] = s[i] /\ st[i + 1] = s[i + 1]
      BY <1>1, <2>1
    <3> QED
      BY <3>1, <1>2
  <2>2. CASE i = Len(s)
    <3>1. st[i] = s[Len(s)] /\ st[i + 1] = t[1]
      BY <1>1, <2>2
    <3> QED
      BY <3>1, <1>2
  <2>3. CASE i > Len(s)
    <3> DEFINE k == i - Len(s)
    <3>1. k \in 1..(Len(t) - 1) /\ i = Len(s) + k /\ i + 1 = Len(s) + (k + 1)
      BY <1>1, <2>3
    <3> HIDE DEF k
    <3>3. k \in 1..Len(t) /\ k + 1 \in 1..Len(t)
      BY <3>1, <1>1
    <3>2. st[i] = t[k] /\ st[i + 1] = t[k + 1]
      BY <3>1, <3>3, <1>1
    <3> QED
      BY <3>1, <3>2, <1>2
  <2> QED
    BY <1>1, <2>1, <2>2, <2>3
<1>3. ASSUME e = <<s[Len(s)], t[1]>>
      PROVE  \E i \in 1..(Len(st) - 1) : e = <<st[i], st[i + 1]>>
  <2>1. Len(s) \in 1..(Len(st) - 1) /\ st[Len(s)] = s[Len(s)] /\ st[Len(s) + 1] = t[1]
    BY <1>1
  <2> QED
    BY <2>1, <1>3
<1>4. ASSUME NEW k \in 1..(Len(s) - 1), e = <<s[k], s[k + 1]>>
      PROVE  \E i \in 1..(Len(st) - 1) : e = <<st[i], st[i + 1]>>
  <2>1. k \in 1..(Len(st) - 1) /\ st[k] = s[k] /\ st[k + 1] = s[k + 1]
    BY <1>1
  <2> QED
    BY <2>1, <1>4
<1>5. ASSUME NEW k \in 1..(Len(t) - 1), e = <<t[k], t[k + 1]>>
      PROVE  \E i \in 1..(Len(st) - 1) : e = <<st[i], st[i + 1]>>
  <2>1. Len(s) + k \in 1..(Len(st) - 1)
    BY <1>1
  <2>2. st[Len(s) + k] = t[k] /\ st[Len(s) + k + 1] = t[k + 1]
    <3>1. Len(s) + k + 1 = Len(s) + (k + 1) /\ k \in 1..Len(t) /\ k + 1 \in 1..Len(t)
      BY <1>1
    <3> QED
      BY <3>1, <1>1
  <2> QED
    BY <2>1, <2>2, <1>5
<1>6. /\ e \in Inside(st) <=> \E i \in 1..(Len(st) - 1) : e = <<st[i], st[i + 1]>>
      /\ e \in Inside(s) <=> \E i \in 1..(Len(s) - 1) : e = <<s[i], s[i + 1]>>
      /\ e \in Inside(t) <=> \E i \in 1..(Len(t) - 1) : e = <<t[i], t[i + 1]>>
  BY Zenon DEF Inside
<1>7. e \in Inside(st) <=>
         e = <<s[Len(s)], t[1]>> \/ e \in Inside(s) \/ e \in Inside(t)
  BY <1>2, <1>3, <1>4, <1>5, <1>6, Zenon
<1> QED
  BY <1>7 DEF st

\* Joining two blocks changes nothing of what may follow what.
LEMMA JoinKeepsFlow ==
  ASSUME IInv, Abstract!Next
  PROVE  Abstract!Flow' = Abstract!Flow
<1> DEFINE blks == {insList[a] : a \in blocksMap}
           edgs == UNION {{<<insList[a][Len(insList[a])], insList[c][1]>> :
                              c \in outBlocks[a]} : a \in blocksMap}
<1>1. PICK l \in blks, r \in blks : Abstract!Join(l, r)
  BY DEF Abstract!Next
<1>2. l \in Seq(VmAddress) /\ r \in Seq(VmAddress) /\ l # <<>> /\ r # <<>>
  BY DEF IInv, Inv, TypeOK, NonEmpty
<1>3. /\ blks' = (blks \ {l, r}) \cup {l \o r}
      /\ <<l[Len(l)], r[1]>> \in edgs
      /\ edgs' = edgs \ {<<l[Len(l)], r[1]>>}
  BY <1>1 DEF Abstract!Join, Abstract!Chained, Abstract!Last, Abstract!First
<1>4. \A e : e \in Inside(l \o r) <=>
               e = <<l[Len(l)], r[1]>> \/ e \in Inside(l) \/ e \in Inside(r)
  BY <1>2, ConcatPairs
<1>5. /\ Abstract!Flow = edgs \cup UNION {Inside(x) : x \in blks}
      /\ Abstract!Flow' = edgs' \cup UNION {Inside(x) : x \in blks'}
  BY DEF Abstract!Flow, Inside
<1> HIDE DEF blks, edgs
<1> DEFINE now == edgs \cup UNION {Inside(x) : x \in blks}
           next == edgs' \cup UNION {Inside(x) : x \in blks'}
<1>6. ASSUME NEW e \in next PROVE e \in now
  <2>1. CASE e \in edgs'
    BY <2>1, <1>3
  <2>2. CASE \E x \in blks' : e \in Inside(x)
    <3>1. PICK x \in blks' : e \in Inside(x)
      BY <2>2
    <3>2. CASE x = l \o r
      BY <3>1, <3>2, <1>1, <1>3, <1>4
    <3>3. CASE x # l \o r
      BY <3>1, <3>3, <1>3
    <3> QED
      BY <3>2, <3>3
  <2> QED
    BY <1>6, <2>1, <2>2
<1>7. ASSUME NEW e \in now PROVE e \in next
  <2>1. CASE e \in Inside(l) \/ e \in Inside(r) \/ e = <<l[Len(l)], r[1]>>
    <3>1. e \in Inside(l \o r) /\ l \o r \in blks'
      BY <2>1, <1>3, <1>4
    <3> QED
      BY <3>1
  <2>2. CASE e \in edgs /\ e # <<l[Len(l)], r[1]>>
    BY <2>2, <1>3
  <2>3. CASE \E x \in blks \ {l, r} : e \in Inside(x)
    BY <2>3, <1>3
  <2> QED
    BY <1>7, <2>1, <2>2, <2>3
<1>8. now = next
  <2> HIDE DEF now, next
  <2> QED
    BY <1>6, <1>7
<1> QED
  BY <1>5, <1>8

\* No merge loses, adds or reorders a jump between two instructions, whatever
\* the graph (VmpControlFlow::checkMerge moves the instructions of a block and
\* its out edges to its father).
THEOREM FlowKeptCorrect == Spec => FlowKept
<1>1. Init => IInv
  BY InitIInv
<1>2. IInv /\ [MergeNodes]_vars => IInv'
  BY NextIInv
<1>3. IInv /\ [MergeNodes]_vars =>
        [Abstract!Flow' = Abstract!Flow]_<<{insList[b] : b \in blocksMap},
                      UNION {{<<insList[a][Len(insList[a])], insList[b][1]>> :
                                b \in outBlocks[a]} : a \in blocksMap}>>
  BY NextAbstract, JoinKeepsFlow
<1> QED
  BY <1>1, <1>2, <1>3, PTL DEF Spec, FlowKept, Abstract!FlowKept

----------------------------------------------------------------------------
(* MergeNodes returns with nothing left to merge.                          *)

\* What has been rejected would be rejected again.
Settled ==
  \A b \in badNodeList \cap blocksMap : \A father \in inBlocks[b] : ~ CanMerge(b, father)

\* A pass that has merged nothing has rejected every block behind it.
Swept ==
  phase = "merge" /\ ~ bUpdateNode =>
    \A b \in blocksMap : Before(cursor, b) \/ b \in badNodeList

MInv == Inv /\ Settled /\ Swept /\ MergeMaximal

\* A merge elsewhere makes no rejected block acceptable: b trades at most its
\* father x for the block that has taken x and x's successors.
LEMMA MergeSettled ==
  ASSUME Inv, NEW x \in blocksMap, NEW f \in inBlocks[x],
         CanMerge(x, f), Merge(x, f),
         NEW b \in blocksMap \ {x},
         \A father \in inBlocks[b] : ~ CanMerge(b, father)
  PROVE  \A father \in inBlocks'[b] : ~ CanMerge(b, father)'
<1> SUFFICES ASSUME NEW father \in inBlocks'[b], CanMerge(b, father)'
             PROVE  FALSE
  OBVIOUS
<1>1. /\ f \in blocksMap /\ f # x
      /\ inBlocks[x] = {f} /\ outBlocks[f] = {x} /\ f \notin outBlocks[x]
  BY InvFinite, MergedPair
<1>2. blocksMap' = blocksMap \ {x}
  BY MergeType
<1>3. /\ inBlocks'[b] = {father} /\ Cardinality(outBlocks'[father]) = 1
      /\ father \notin outBlocks'[b]
  BY DEF CanMerge
<1>4. /\ \A a \in blocksMap \ {x} :
           outBlocks'[a] = IF a = f THEN outBlocks[x] ELSE outBlocks[a]
      /\ inBlocks'[b] = IF b \in outBlocks[x] THEN (inBlocks[b] \ {x}) \cup {f}
                                              ELSE inBlocks[b]
  BY DEF Merge, Redirect
<1>5. \A a \in blocksMap : /\ outBlocks[a] \cup inBlocks[a] \subseteq blocksMap
                           /\ \A c \in blocksMap : c \in outBlocks[a] <=> a \in inBlocks[c]
  BY DEF Inv, EdgesMirrored
<1>6. CASE b \in outBlocks[x]
  <2>1. father = f /\ inBlocks[b] = {x}
    <3>1. f \notin inBlocks[b] /\ x \in inBlocks[b]
      BY <1>1, <1>5, <1>6
    <3> QED
      BY <3>1, <1>3, <1>4, <1>6
  <2>2. Cardinality(outBlocks[x]) = 1
    BY <2>1, <1>1, <1>3, <1>4
  <2>3. x \notin outBlocks[b]
    <3>1. x \in outBlocks[b] => b = f
      BY <1>1, <1>5
    <3>2. b # f
      BY <2>1, <1>1, <1>3, <1>4, <1>6
    <3> QED
      BY <3>1, <3>2
  <2> QED
    BY <2>1, <2>2, <2>3 DEF CanMerge
<1>7. CASE b \notin outBlocks[x]
  <2>1. inBlocks[b] = {father} /\ father \in blocksMap
    BY <1>3, <1>4, <1>5, <1>7
  <2>2. father # x /\ father # f
    BY <2>1, <1>1, <1>5, <1>7
  <2>3. Cardinality(outBlocks[father]) = 1
    BY <2>1, <2>2, <1>3, <1>4
  <2>4. father \notin outBlocks[b]
    <3>1. CASE b = f
      BY <3>1, <2>2, <1>1
    <3>2. CASE b # f
      BY <3>2, <1>3, <1>4
    <3> QED
      BY <3>1, <3>2
  <2> QED
    BY <2>1, <2>3, <2>4 DEF CanMerge
<1> QED
  BY <1>6, <1>7

LEMMA BeginBefore == \A b \in VmAddress : Before(MapBegin, b)
BY DEF Before, MapBegin

LEMMA InitMInv == Init => MInv
<1> SUFFICES ASSUME Init PROVE MInv
  OBVIOUS
<1>1. Inv
  BY InitInv
<1>2. Settled /\ MergeMaximal
  BY DEF Init, Settled, MergeMaximal
<1>3. Swept
  BY <1>1, BeginBefore DEF Init, Swept, Inv, TypeOK
<1> QED
  BY <1>1, <1>2, <1>3 DEF MInv

LEMMA NextMInv == MInv /\ [MergeNodes]_vars => MInv'
<1> SUFFICES ASSUME MInv, [MergeNodes]_vars PROVE MInv'
  OBVIOUS
<1>0. Inv'
  BY NextInv DEF MInv
<1>1. CASE MergeNode
  <2>1. PICK x \in blocksMap :
          \E f \in inBlocks[x] : CanMerge(x, f) /\ Merge(x, f)
    BY <1>1 DEF MergeNode
  <2>2. PICK f \in inBlocks[x] : CanMerge(x, f) /\ Merge(x, f)
    BY <2>1
  <2>3. blocksMap' = blocksMap \ {x} /\ badNodeList' = badNodeList
    BY <1>1, <2>2, MergeType DEF MInv, MergeNode
  <2>4. Settled'
    <3> SUFFICES ASSUME NEW b \in badNodeList \cap (blocksMap \ {x})
                 PROVE  \A father \in inBlocks'[b] : ~ CanMerge(b, father)'
      BY <2>3 DEF Settled
    <3>1. \A father \in inBlocks[b] : ~ CanMerge(b, father)
      BY DEF MInv, Settled
    <3> QED
      BY <3>1, <2>2, MergeSettled DEF MInv
  <2>5. Swept' /\ MergeMaximal'
    BY <1>1 DEF MergeNode, Swept, MergeMaximal
  <2> QED
    BY <1>0, <2>4, <2>5 DEF MInv
<1>2. CASE RejectNode
  <2>1. PICK b \in blocksMap : /\ IsNext(b)
                               /\ \A father \in inBlocks[b] : ~ CanMerge(b, father)
                               /\ cursor' = b
                               /\ badNodeList' = badNodeList \cup {b}
    BY <1>2 DEF RejectNode
  <2>2. /\ blocksMap' = blocksMap /\ inBlocks' = inBlocks /\ outBlocks' = outBlocks
        /\ phase = "merge" /\ phase' = phase /\ bUpdateNode' = bUpdateNode
    BY <1>2 DEF RejectNode, blockVars, blocksMap
  <2>3. Settled'
    BY <2>1, <2>2 DEF MInv, Settled, CanMerge
  <2>4. Swept'
    <3> SUFFICES ASSUME ~ bUpdateNode, NEW c \in blocksMap, c \notin badNodeList, c # b
                 PROVE  Before(b, c)
      BY <2>1, <2>2 DEF Swept
    <3>1. c \in Unvisited
      BY <2>2 DEF MInv, Swept, Unvisited
    <3> QED
      BY <3>1, <2>1 DEF IsNext
  <2>5. MergeMaximal'
    BY <2>2 DEF MergeMaximal
  <2> QED
    BY <1>0, <2>3, <2>4, <2>5 DEF MInv
<1>3. CASE PassEnds
  <2>1. /\ blocksMap' = blocksMap /\ inBlocks' = inBlocks /\ outBlocks' = outBlocks
        /\ badNodeList' = badNodeList /\ phase = "merge" /\ Unvisited = {}
        /\ phase' = (IF bUpdateNode THEN "merge" ELSE "done") /\ cursor' = MapBegin
    BY <1>3 DEF PassEnds, blockVars, blocksMap
  <2>2. Settled'
    BY <2>1 DEF MInv, Settled, CanMerge
  <2>3. Swept'
    BY <2>1, BeginBefore DEF Swept, MInv, Inv, TypeOK
  <2>4. MergeMaximal'
    <3> SUFFICES ASSUME ~ bUpdateNode, NEW b \in blocksMap
                 PROVE  \A father \in inBlocks[b] : ~ CanMerge(b, father)
      BY <2>1 DEF MergeMaximal, CanMerge
    <3>1. Before(cursor, b) => b \in badNodeList
      BY <2>1 DEF Unvisited
    <3>2. b \in badNodeList
      BY <3>1, <2>1 DEF MInv, Swept
    <3> QED
      BY <3>2 DEF MInv, Settled
  <2> QED
    BY <1>0, <2>2, <2>3, <2>4 DEF MInv
<1>4. CASE UNCHANGED vars
  BY <1>0, <1>4
     DEF vars, blockVars, mergeVars, blocksMap, MInv, Settled, Swept, MergeMaximal, CanMerge
<1> QED
  BY <1>1, <1>2, <1>3, <1>4 DEF MergeNodes

\* Although a rejected block is never looked at again, MergeNodes returns only
\* when none is left that checkMerge would accept, whatever the graph: a merge
\* never makes a rejected block mergeable, and a pass without a merge has
\* rejected all there are.
THEOREM MaximalCorrect == Spec => []MergeMaximal
<1>1. MInv => MergeMaximal
  BY DEF MInv
<1> QED
  BY <1>1, InitMInv, NextMInv, PTL DEF Spec

=============================================================================
