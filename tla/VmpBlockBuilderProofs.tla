------------------------ MODULE VmpBlockBuilderProofs ------------------------
(***************************************************************************)
(* Proofs about VmpBlockBuilder, for every program, every table of         *)
(* handlers and any number of tasks on one graph.                          *)
(*                                                                         *)
(* What a graph keeps that serves several traces (Backed), and the lemma   *)
(* of each method that changes one; the invariant of the task (BuilderInv) *)
(* with a lemma per action; then the types, the second emulation, the      *)
(* contexts, the names, the cache and the entries that were accepted.      *)
(* Theorems that speak of MapsAgree hold as long as the graph agrees with  *)
(* its index, which a first trace ensures (MapsAgreeCorrect) and a later   *)
(* one may end.                                                            *)
(***************************************************************************)
EXTENDS VmpBlockBuilder, VmpTraceFlowTaskProofs

----------------------------------------------------------------------------
(* What every graph keeps, however many traces it serves: each address is  *)
(* in one block, once, and the index names that block, though not always   *)
(* the place in it.                                                        *)

\* im is ex, except for places that lie before those of ex.
Loose(im, ex) ==
  /\ DOMAIN im = DOMAIN ex
  /\ \A x \in DOMAIN ex :
       \/ im[x] = ex[x]
       \/ im[x].vmNode = ex[x].vmNode /\ im[x].index \in 1..ex[x].index

Held(nm, im) == \E ex : Filed(nm, ex) /\ Loose(im, ex)

\* Every edge that leads back comes from an indexed address.
Ends(edges, addrs) ==
  /\ edges = [a \in Addr |-> edges[a]]
  /\ \A a \in Addr : edges[a] \subseteq addrs

Backed(g) ==
  /\ Record(g)
  /\ Held(g.nodeMap, g.instructionToNodeMap)
  /\ Ends(g.toEdges, DOMAIN g.instructionToNodeMap)

\* What such an index says of an address.
LEMMA HeldAt ==
  ASSUME NEW nm, NEW im, Held(nm, im), NEW a \in DOMAIN im
  PROVE  /\ a \in Addr /\ im[a].vmNode \in DOMAIN nm
         /\ nm[im[a].vmNode] \in Seq(Addr)
         /\ im[a].index \in Nat \ {0} /\ im[a].index <= Len(nm[im[a].vmNode])
<1>1. PICK ex : Filed(nm, ex) /\ Loose(im, ex)
  BY DEF Held
<1>2. a \in DOMAIN ex /\ a \in Addr
  BY <1>1 DEF Loose, Filed
<1>3. /\ ex[a].vmNode \in DOMAIN nm /\ ex[a].index \in Nat \ {0}
      /\ ex[a].index \in 1..Len(nm[ex[a].vmNode])
      /\ nm[ex[a].vmNode] \in Seq(Addr)
  BY <1>1, <1>2, IndexedAt
<1>4. \/ im[a] = ex[a]
      \/ im[a].vmNode = ex[a].vmNode /\ im[a].index \in 1..ex[a].index
  BY <1>1, <1>2 DEF Loose
<1>5. im[a].vmNode = ex[a].vmNode /\ im[a].index \in 1..ex[a].index
  BY <1>3, <1>4
<1> QED
  BY <1>2, <1>3, <1>5

\* Blocks, and what the index has for their addresses.
LEMMA HeldBlocks ==
  ASSUME NEW nm, NEW im, Held(nm, im)
  PROVE  /\ DOMAIN nm \subseteq Addr /\ DOMAIN im \subseteq Addr
         /\ DOMAIN nm \subseteq DOMAIN im
         /\ \A n \in DOMAIN nm : nm[n] \in Seq(Addr) /\ Len(nm[n]) >= 1 /\ nm[n][1] = n
<1>1. PICK ex : Filed(nm, ex) /\ Loose(im, ex)
  BY DEF Held
<1>2. \A n \in DOMAIN nm : nm[n] \in Seq(Addr) /\ Len(nm[n]) >= 1 /\ nm[n][1] = n
  BY <1>1 DEF Filed
<1>3. \A n \in DOMAIN nm : n \in DOMAIN ex
  BY <1>1, <1>2, PlacedAt
<1> QED
  BY <1>1, <1>2, <1>3 DEF Filed, Loose

\* The same change to both indices.
LEMMA LoosePut ==
  ASSUME NEW im, NEW ex, Loose(im, ex), NEW a, NEW v
  PROVE  Loose(Put(im, a, v), Put(ex, a, v))
<1> DEFINE im2 == Put(im, a, v)
           ex2 == Put(ex, a, v)
<1>1. DOMAIN im2 = DOMAIN im \cup {a} /\ DOMAIN ex2 = DOMAIN ex \cup {a}
  BY DEF Put
<1>2. im2[a] = v /\ ex2[a] = v
  BY DEF Put
<1>3. \A x \in DOMAIN ex \ {a} : im2[x] = im[x] /\ ex2[x] = ex[x]
  BY DEF Put, Loose
<1> HIDE DEF im2, ex2
<1>4. Loose(im2, ex2)
  BY <1>1, <1>2, <1>3 DEF Loose
<1> QED
  BY <1>4 DEF im2, ex2

LEMMA LooseReindex ==
  ASSUME NEW im, NEW ex, Loose(im, ex), NEW list, NEW node, NEW base
  PROVE  Loose(Reindex(im, list, node, base), Reindex(ex, list, node, base))
<1> DEFINE im2 == Reindex(im, list, node, base)
           ex2 == Reindex(ex, list, node, base)
<1>1. /\ DOMAIN im2 = DOMAIN im \cup Elements(list)
      /\ DOMAIN ex2 = DOMAIN ex \cup Elements(list)
  BY DEF Reindex
<1>2. \A x \in Elements(list) : im2[x] = ex2[x]
  BY DEF Reindex
<1>3. \A x \in DOMAIN ex \ Elements(list) : im2[x] = im[x] /\ ex2[x] = ex[x]
  BY DEF Reindex, Loose
<1> HIDE DEF im2, ex2
<1>4. Loose(im2, ex2)
  BY <1>1, <1>2, <1>3 DEF Loose
<1> QED
  BY <1>4 DEF im2, ex2

LEMMA MoreEnds ==
  ASSUME NEW edges, NEW old, Ends(edges, old), NEW addrs, old \subseteq addrs
  PROVE  Ends(edges, addrs)
BY DEF Ends

LEMMA AddedEnds ==
  ASSUME NEW edges, NEW addrs, Ends(edges, addrs), NEW x, NEW y \in addrs
  PROVE  Ends(Added(edges, x, y), addrs)
BY DEF Ends, Added

LEMMA RemovedEnds ==
  ASSUME NEW edges, NEW addrs, Ends(edges, addrs), NEW x, NEW y
  PROVE  Ends(Removed(edges, x, y), addrs)
BY DEF Ends, Removed

LEMMA EnsureBacked ==
  ASSUME NEW g, Record(g), Held(g.nodeMap, g.instructionToNodeMap),
         NEW a \in Addr, NEW r, r = ensureNode(g, a)
  PROVE  /\ Record(r) /\ Held(r.nodeMap, r.instructionToNodeMap)
         /\ DOMAIN r.instructionToNodeMap = DOMAIN g.instructionToNodeMap \cup {a}
         /\ r.fromEdges = g.fromEdges /\ r.toEdges = g.toEdges
<1> DEFINE nm == g.nodeMap
           im == g.instructionToNodeMap
           v  == [vmNode |-> a, index |-> 1]
<1>1. CASE a \in DOMAIN im
  <2>1. r = g
    BY <1>1 DEF ensureNode
  <2> QED
    BY <1>1, <2>1
<1>2. CASE a \notin DOMAIN im
  <2>1. PICK ex : Filed(nm, ex) /\ Loose(im, ex)
    BY DEF Held
  <2>2. a \notin DOMAIN ex
    BY <1>2, <2>1 DEF Loose
  <2>3. a \notin DOMAIN nm /\ Filed(Put(nm, a, <<a>>), Put(ex, a, v))
    BY <2>1, <2>2, CreateFiled
  <2>4. Loose(Put(im, a, v), Put(ex, a, v))
    BY <2>1, LoosePut
  <2>5. Held(Put(nm, a, <<a>>), Put(im, a, v))
    BY <2>3, <2>4 DEF Held
  <2>6. r = createNode(g, a)
    BY <1>2 DEF ensureNode
  <2>7. /\ Record(r) /\ r.nodeMap = Put(nm, a, <<a>>)
        /\ r.instructionToNodeMap = Put(im, a, v)
        /\ r.fromEdges = g.fromEdges /\ r.toEdges = g.toEdges
    BY <2>3, <2>6, CreateFields
  <2>8. DOMAIN Put(im, a, v) = DOMAIN im \cup {a}
    BY DEF Put
  <2> QED
    BY <2>5, <2>7, <2>8
<1> QED
  BY <1>1, <1>2

\* splitBlock at the head of a block: the address createNode has appended is
\* cut off again, and an edge from the block's end is left.
LEMMA SplitHead ==
  ASSUME NEW g, Record(g), Held(g.nodeMap, g.instructionToNodeMap),
         NEW a \in DOMAIN g.nodeMap, g.instructionToNodeMap[a].vmNode = a,
         NEW r, r = splitBlock(g, a, a)
  PROVE  /\ Record(r) /\ Held(r.nodeMap, r.instructionToNodeMap)
         /\ DOMAIN r.instructionToNodeMap = DOMAIN g.instructionToNodeMap
         /\ \A x \in DOMAIN g.instructionToNodeMap :
              r.instructionToNodeMap[x].vmNode = g.instructionToNodeMap[x].vmNode
         /\ \E x \in DOMAIN g.instructionToNodeMap :
              r.toEdges = Added(g.toEdges, a, x)
<1> DEFINE nm      == g.nodeMap
           im      == g.instructionToNodeMap
           v       == [vmNode |-> a, index |-> 1]
           created == createNode(g, a)
           list    == created.nodeMap[a]
           found   == PositionsOf(list, a) \ {1}
           at      == Least(found)
           tail    == SubSeq(list, at + 1, Len(list))
           front   == SubSeq(list, 1, at - 1)
           linked  == linkEdge(created, list[at - 1], a)
           nodes   == [linked.nodeMap EXCEPT ![a] = @ \o tail, ![a] = front]
           ins     == Reindex(linked.instructionToNodeMap, tail, a, 1)
<1>1. PICK ex : Filed(nm, ex) /\ Loose(im, ex)
  BY DEF Held
<1>2. nm[a] \in Seq(Addr) /\ Len(nm[a]) >= 1 /\ nm[a][1] = a /\ a \in Addr
  BY <1>1 DEF Filed
<1>3. PICK k \in Nat : k = Len(nm[a])
  BY <1>2
<1>4. a \in DOMAIN im /\ DOMAIN ex = DOMAIN im /\ ex[a].vmNode = a /\ ex[a].index = 1
  <2>1. 1 \in 1..Len(nm[a])
    BY <1>2
  <2>2. nm[a][1] \in DOMAIN ex /\ ex[nm[a][1]].vmNode = a /\ ex[nm[a][1]].index = 1
    BY <2>1, <1>1, PlacedAt
  <2> QED
    BY <2>2, <1>1, <1>2 DEF Loose
<1>5. /\ Record(created) /\ created.nodeMap = Put(nm, a, Append(nm[a], a))
      /\ created.instructionToNodeMap = Put(im, a, v)
      /\ created.toEdges = g.toEdges
  BY CreateFields
<1>6. list = Append(nm[a], a)
  BY <1>5 DEF Put
<1>7. /\ list \in Seq(Addr) /\ Len(list) = k + 1 /\ list[k + 1] = a
      /\ \A i \in 1..k : list[i] = nm[a][i]
  BY <1>2, <1>3, <1>6
<1>8. \A i \in 1..k : nm[a][i] = a <=> i = 1
  <2>1. \A i \in 1..k : ex[nm[a][i]].index = i
    BY <1>1, <1>3, PlacedAt
  <2> QED
    BY <2>1, <1>2, <1>4
<1> HIDE DEF created, list
<1>9. found = {k + 1}
  <2>1. ASSUME NEW i \in 1..(k + 1)
        PROVE  list[i] = a <=> i = 1 \/ i = k + 1
    <3>1. CASE i = k + 1
      BY <3>1, <1>7
    <3>2. CASE i # k + 1
      <4>1. i \in 1..k
        BY <3>2
      <4> QED
        BY <4>1, <3>2, <1>7, <1>8
    <3> QED
      BY <3>1, <3>2
  <2>2. k >= 1
    BY <1>2, <1>3
  <2>3. PositionsOf(list, a) = {1, k + 1}
    BY <2>1, <2>2, <1>7 DEF PositionsOf
  <2> QED
    BY <2>2, <2>3
<1>10. at = k + 1
  BY <1>9 DEF Least
<1>11. r = Refiled(linked, nodes, ins)
  BY <1>9 DEF splitBlock, Refiled, created, list
<1> HIDE DEF found, at
<1>12. tail = <<>>
  BY <1>7, <1>10
<1>13. front = nm[a]
  <2>1. at \in 2..Len(list) /\ at - 1 = k
    BY <1>2, <1>3, <1>7, <1>10
  <2>2. front \in Seq(Addr) /\ Len(front) = k /\ \A i \in 1..k : front[i] = list[i]
    BY <2>1, <1>7, FrontFields
  <2> HIDE DEF front
  <2> QED
    BY <2>2, <1>2, <1>3, <1>7
<1>14. list[at - 1] \in DOMAIN im
  <2>1. k \in 1..k /\ at - 1 = k
    BY <1>2, <1>3, <1>10
  <2>2. nm[a][k] \in DOMAIN ex
    BY <2>1, <1>1, <1>3, PlacedAt
  <2> QED
    BY <2>1, <2>2, <1>4, <1>7
<1>15. /\ Record(linked) /\ linked.nodeMap = created.nodeMap
       /\ linked.instructionToNodeMap = created.instructionToNodeMap
       /\ linked.toEdges = Added(created.toEdges, a, list[at - 1])
  BY <1>5, LinkFields
<1> HIDE DEF linked, tail, front
<1>16. DOMAIN nodes = DOMAIN nm /\ \A m \in DOMAIN nm : nodes[m] = nm[m]
  <2>1. /\ DOMAIN created.nodeMap = DOMAIN nm
        /\ \A m \in DOMAIN nm \ {a} : created.nodeMap[m] = nm[m]
    BY <1>5 DEF Put
  <2>2. DOMAIN nodes = DOMAIN nm /\ nodes[a] = nm[a]
    BY <2>1, <1>13, <1>15
  <2>3. \A m \in DOMAIN nm \ {a} : nodes[m] = nm[m]
    BY <2>1, <1>15
  <2> HIDE DEF nodes
  <2> QED
    BY <2>2, <2>3
<1>17. /\ DOMAIN ins = DOMAIN im
       /\ \A x \in DOMAIN im : ins[x] = IF x = a THEN v ELSE im[x]
  <2>1. Elements(tail) = {}
    BY <1>12 DEF Elements
  <2> QED
    BY <2>1, <1>4, <1>5, <1>15 DEF Reindex, Put
<1> HIDE DEF nodes, ins
<1>18. Loose(ins, ex)
  <2>1. ins[a].vmNode = ex[a].vmNode /\ ins[a].index \in 1..ex[a].index
    BY <1>4, <1>17
  <2> QED
    BY <2>1, <1>1, <1>4, <1>17 DEF Loose
<1>19. /\ Record(r) /\ r.nodeMap = nodes /\ r.instructionToNodeMap = ins
       /\ r.toEdges = linked.toEdges
  BY <1>11, <1>15, RefileFields
<1>20. Held(nodes, ins)
  <2> HIDE DEF nm
  <2>0. /\ Indexed(nm, ex) /\ Placed(nm, ex)
        /\ \A x \in DOMAIN ex : ex[x].vmNode \in DOMAIN nm
    BY <1>1, IndexedAt DEF Filed
  <2>1. Indexed(nodes, ex)
    BY <2>0, <1>16 DEF Indexed
  <2>2. Placed(nodes, ex)
    BY <2>0, <1>16 DEF Placed
  <2>3. Filed(nodes, ex)
    BY <2>1, <2>2, <1>1, <1>16 DEF Filed
  <2> QED
    BY <2>3, <1>18 DEF Held
<1> QED
  BY <1>5, <1>14, <1>15, <1>16, <1>17, <1>19, <1>20

\* splitBlock of the block an address is in, at that address.
LEMMA SplitBacked ==
  ASSUME NEW g, Backed(g), NEW a \in DOMAIN g.instructionToNodeMap,
         NEW r, r = splitBlock(g, g.instructionToNodeMap[a].vmNode, a)
  PROVE  /\ Backed(r)
         /\ DOMAIN r.instructionToNodeMap = DOMAIN g.instructionToNodeMap
         /\ \A x \in DOMAIN g.instructionToNodeMap :
              g.instructionToNodeMap[x].vmNode # g.instructionToNodeMap[a].vmNode =>
                r.instructionToNodeMap[x].vmNode = g.instructionToNodeMap[x].vmNode
<1> DEFINE nm      == g.nodeMap
           im      == g.instructionToNodeMap
           n       == im[a].vmNode
           created == createNode(g, a)
           list    == created.nodeMap[n]
           found   == PositionsOf(list, a) \ {1}
           at      == Least(found)
           tail    == SubSeq(list, at + 1, Len(list))
           linked  == linkEdge(created, list[at - 1], a)
           nodes   == [linked.nodeMap EXCEPT ![a] = @ \o tail,
                                             ![n] = SubSeq(list, 1, at - 1)]
           ins     == Reindex(linked.instructionToNodeMap, tail, a, 1)
           v       == [vmNode |-> a, index |-> 1]
<1>1. PICK ex : Filed(nm, ex) /\ Loose(im, ex)
  BY DEF Backed, Held
<1>2. Record(g) /\ Ends(g.toEdges, DOMAIN im) /\ Held(nm, im)
  BY DEF Backed
<1>3. a \in DOMAIN ex /\ DOMAIN ex = DOMAIN im
  BY <1>1 DEF Loose
<1>4. PICK k \in Nat \ {0} : k = ex[a].index
  BY <1>1, <1>3, IndexedAt
<1>5. /\ n \in DOMAIN nm /\ n = ex[a].vmNode /\ k \in 1..Len(nm[n])
      /\ nm[n] \in Seq(Addr) /\ nm[n][k] = a /\ a \in Addr
  <2>1. n = ex[a].vmNode
    BY <1>1, <1>3 DEF Loose
  <2> QED
    BY <2>1, <1>1, <1>3, <1>4, IndexedAt DEF Filed
<1>6. CASE k = 1
  <2>1. n = a
    BY <1>1, <1>5, <1>6 DEF Filed
  <2>2. /\ Record(r) /\ Held(r.nodeMap, r.instructionToNodeMap)
        /\ DOMAIN r.instructionToNodeMap = DOMAIN im
        /\ \A x \in DOMAIN im : r.instructionToNodeMap[x].vmNode = im[x].vmNode
        /\ \E x \in DOMAIN im : r.toEdges = Added(g.toEdges, a, x)
    BY <2>1, <1>2, <1>5, SplitHead
  <2>3. Ends(r.toEdges, DOMAIN im)
    BY <2>2, <1>2, AddedEnds
  <2> QED
    BY <2>2, <2>3 DEF Backed
<1>7. CASE k # 1
  <2>1. a \notin DOMAIN nm
    BY <1>1, <1>3, <1>4, <1>7, InnerNotHead
  <2>2. /\ Record(created) /\ created.nodeMap = Put(nm, a, <<a>>)
        /\ created.instructionToNodeMap = Put(im, a, v)
        /\ created.toEdges = g.toEdges
    BY <2>1, <1>2, CreateFields
  <2>3. list = nm[n]
    BY <2>1, <2>2, <1>5 DEF Put
  <2>4. found = {k}
    <3>1. \A i \in 1..Len(nm[n]) : ex[nm[n][i]].index = i
      BY <1>1, <1>5, PlacedAt
    <3>2. \A i \in 1..Len(nm[n]) : nm[n][i] = a <=> i = k
      BY <3>1, <1>4, <1>5
    <3> QED
      BY <3>2, <1>5, <1>7, <2>3 DEF PositionsOf
  <2>5. at = k
    BY <2>4, <1>4 DEF Least
  <2>6. splitBlock(g, n, a) = Refiled(linked, nodes, ins)
    BY <2>4 DEF splitBlock, Refiled
  <2> HIDE DEF created, at, found
  <2>7. /\ Record(linked)
        /\ linked.nodeMap = created.nodeMap
        /\ linked.instructionToNodeMap = created.instructionToNodeMap
        /\ linked.toEdges = Added(created.toEdges, a, list[at - 1])
    BY <2>2, LinkFields
  <2> HIDE DEF linked, nodes, ins
  <2>8. /\ Record(r) /\ r.nodeMap = nodes /\ r.instructionToNodeMap = ins
        /\ r.toEdges = linked.toEdges
    BY <2>6, <2>7, RefileFields
  <2>9. k \in Nat /\ 2 <= k /\ k <= Len(nm[n]) /\ k - 1 \in 1..Len(nm[n])
    BY <1>4, <1>5, <1>7
  <2>10. tail = SubSeq(nm[n], k + 1, Len(nm[n]))
    BY <2>3, <2>5
  <2>11. nodes = [created.nodeMap EXCEPT ![a] = @ \o tail, ![n] = SubSeq(nm[n], 1, k - 1)]
    BY <2>3, <2>5, <2>7 DEF nodes
  <2>12. ins = Reindex(Put(im, a, v), tail, a, 1)
    BY <2>2, <2>7 DEF ins
  <2> DEFINE ex2 == Reindex(Put(ex, a, v), tail, a, 1)
  <2>13. /\ nm[n][k - 1] \in DOMAIN im
         /\ r.toEdges = Added(g.toEdges, a, nm[n][k - 1])
    BY <2>2, <2>3, <2>5, <2>7, <2>8, <2>9, <1>1, <1>3, <1>5, PlacedAt
  <2> HIDE DEF tail, list
  <2>14. Parts(nm, ex, n, k, a, tail, nodes, ex2)
    BY <2>2, <2>10, <2>11 DEF Parts
  <2>15. Cut(nm, ex, nodes, ex2, n, k, a)
    BY <2>1, <2>9, <2>14, <1>1, <1>3, <1>4, <1>5, CutFields
  <2>16. Filed(nodes, ex2)
    BY <2>15, <1>1, <1>3, <1>4, <1>5, <1>7, CutFiled
  <2>17. Loose(ins, ex2)
    BY <2>12, <1>1, LoosePut, LooseReindex
  <2>18. DOMAIN ins = DOMAIN im
    <3>1. DOMAIN ex2 = DOMAIN ex
      BY <2>15 DEF Cut
    <3> HIDE DEF ex2
    <3> QED
      BY <3>1, <2>17, <1>3 DEF Loose
  <2>19. Held(nodes, ins)
    BY <2>16, <2>17 DEF Held
  <2>20. Ends(r.toEdges, DOMAIN im)
    BY <2>13, <1>2, AddedEnds
  <2>21. ASSUME NEW x \in DOMAIN im, im[x].vmNode # n
         PROVE  ins[x].vmNode = im[x].vmNode
    <3>1. im[x].vmNode = ex[x].vmNode
      BY <1>1, <1>3 DEF Loose
    <3>2. ex2[x] = ex[x]
      BY <2>15, <2>21, <3>1, <1>3 DEF Cut
    <3>3. x \in DOMAIN ex2
      BY <2>15, <1>3 DEF Cut
    <3> HIDE DEF ex2
    <3>4. ins[x].vmNode = ex2[x].vmNode
      BY <2>17, <3>3 DEF Loose
    <3> QED
      BY <3>1, <3>2, <3>4
  <2> QED
    BY <2>8, <2>18, <2>19, <2>20, <2>21 DEF Backed
<1> QED
  BY <1>6, <1>7

LEMMA JmpBacked ==
  ASSUME NEW g, Backed(g), NEW f \in Addr, NEW t \in Addr,
         NEW r, r = addJmpLink(g, f, t)
  PROVE  /\ Backed(r)
         /\ DOMAIN r.instructionToNodeMap = DOMAIN g.instructionToNodeMap \cup {f, t}
<1> DEFINE g1  == linkEdge(g, f, t)
           g2  == ensureNode(g1, f)
           h   == ensureNode(g2, t)
           im  == h.instructionToNodeMap
           cur == im[f].vmNode
           nxt == im[t].vmNode
           h1  == IF IsTail(h, f) THEN h ELSE splitBlock(h, cur, f)
<1>1. /\ Record(g1) /\ Held(g1.nodeMap, g1.instructionToNodeMap)
      /\ g1.instructionToNodeMap = g.instructionToNodeMap
      /\ g1.toEdges = Added(g.toEdges, t, f)
  BY LinkFields DEF Backed
<1> HIDE DEF g1
<1>2. /\ Record(g2) /\ Held(g2.nodeMap, g2.instructionToNodeMap)
      /\ DOMAIN g2.instructionToNodeMap = DOMAIN g.instructionToNodeMap \cup {f}
      /\ g2.toEdges = g1.toEdges
  BY <1>1, EnsureBacked
<1> HIDE DEF g2
<1>3. /\ Record(h) /\ Held(h.nodeMap, im)
      /\ DOMAIN im = DOMAIN g.instructionToNodeMap \cup {f, t}
      /\ h.toEdges = g1.toEdges
  BY <1>2, EnsureBacked
<1> HIDE DEF h
<1>4. Ends(h.toEdges, DOMAIN im)
  <2>1. Ends(g.toEdges, DOMAIN im)
    BY <1>3, MoreEnds DEF Backed
  <2> QED
    BY <2>1, <1>1, <1>3, AddedEnds
<1>5. Backed(h) /\ f \in DOMAIN im /\ t \in DOMAIN im
  BY <1>3, <1>4 DEF Backed
<1>6. r = IF IsTail(h, f) /\ IsHead(h, t) THEN h
          ELSE IF cur = nxt THEN splitBlock(h, nxt, t)
          ELSE IF IsHead(h1, t) THEN h1
          ELSE splitBlock(h1, nxt, t)
  BY DEF addJmpLink, h, g2, g1
<1>7. /\ Backed(splitBlock(h, nxt, t))
      /\ DOMAIN splitBlock(h, nxt, t).instructionToNodeMap = DOMAIN im
  BY <1>5, SplitBacked
<1>8. Backed(h1) /\ DOMAIN h1.instructionToNodeMap = DOMAIN im
  BY <1>5, SplitBacked
<1>9. CASE cur # nxt
  <2>1. h1.instructionToNodeMap[t].vmNode = nxt
    BY <1>5, <1>9, SplitBacked
  <2> HIDE DEF h1
  <2>2. /\ Backed(splitBlock(h1, nxt, t))
        /\ DOMAIN splitBlock(h1, nxt, t).instructionToNodeMap = DOMAIN im
    BY <2>1, <1>5, <1>8, SplitBacked
  <2> QED
    BY <2>2, <1>3, <1>5, <1>6, <1>8, <1>9
<1> HIDE DEF h1
<1> QED
  BY <1>3, <1>5, <1>6, <1>7, <1>8, <1>9

\* A block with one more address behind it, wherever the index files it.
LEMMA AppendHeld ==
  ASSUME NEW nm, NEW im, Held(nm, im), NEW f \in DOMAIN im, NEW t \in Addr,
         t \notin DOMAIN im, NEW n, n = im[f].vmNode
  PROVE  Held([nm EXCEPT ![n] = Append(@, t)],
              Put(im, t, [vmNode |-> n, index |-> im[f].index + 1]))
<1>1. PICK ex : Filed(nm, ex) /\ Loose(im, ex)
  BY DEF Held
<1>2. n \in DOMAIN nm /\ im[f].index \in Nat \ {0} /\ im[f].index <= Len(nm[n])
  BY HeldAt
<1>3. PICK k \in Nat : k = Len(nm[n])
  BY <1>1, <1>2 DEF Filed
<1>4. t \notin DOMAIN ex
  BY <1>1 DEF Loose
<1> DEFINE v   == [vmNode |-> n, index |-> im[f].index + 1]
           im2 == Put(im, t, v)
           ex2 == Put(ex, t, [vmNode |-> n, index |-> k + 1])
           nm2 == [nm EXCEPT ![n] = Append(@, t)]
<1>5. Grown(nm, ex, nm2, ex2, n, k, t)
  BY <1>1, <1>2, <1>3, <1>4, AppendGrows
<1>6. Filed(nm2, ex2)
  BY <1>1, <1>2, <1>3, <1>4, <1>5, GrownFiled
<1>7. /\ DOMAIN im2 = DOMAIN im \cup {t} /\ DOMAIN ex2 = DOMAIN ex \cup {t}
      /\ im2[t].vmNode = ex2[t].vmNode /\ im2[t].index \in 1..ex2[t].index
      /\ \A x \in DOMAIN ex : im2[x] = im[x] /\ ex2[x] = ex[x]
  BY <1>1, <1>2, <1>3, <1>4 DEF Put, Loose
<1> HIDE DEF im2, ex2, nm2
<1>8. Loose(im2, ex2)
  BY <1>1, <1>7 DEF Loose
<1>9. Held(nm2, im2)
  BY <1>6, <1>8 DEF Held
<1> QED
  BY <1>9 DEF nm2, im2

LEMMA NormalBacked ==
  ASSUME NEW g, Backed(g), NEW f \in Addr, NEW t \in Addr,
         NEW r, r = addNormalLink(g, f, t)
  PROVE  /\ Backed(r)
         /\ DOMAIN r.instructionToNodeMap = DOMAIN g.instructionToNodeMap \cup {f, t}
<1> DEFINE h   == ensureNode(g, f)
           nm  == h.nodeMap
           im  == h.instructionToNodeMap
           cur == im[f]
           nxt == im[t]
           nodes == [nm EXCEPT ![cur.vmNode] = Append(@, t)]
           ins == Put(im, t, [vmNode |-> cur.vmNode, index |-> cur.index + 1])
           thrown == cur.index + 1 # nxt.index
           again == [h EXCEPT !.thrown = thrown]
           split == splitBlock(h, nxt.vmNode, t)
<1>1. /\ Record(h) /\ Held(nm, im) /\ h.toEdges = g.toEdges
      /\ DOMAIN im = DOMAIN g.instructionToNodeMap \cup {f}
  BY EnsureBacked DEF Backed
<1>2. r = IF t \notin DOMAIN im THEN Refiled(h, nodes, ins)
          ELSE IF cur.vmNode = nxt.vmNode THEN again
          ELSE IF nxt.index = 1 THEN h
          ELSE linkEdge(split, f, t)
  BY DEF addNormalLink, Refiled
<1> HIDE DEF h
<1>3. f \in DOMAIN im /\ Ends(h.toEdges, DOMAIN im)
  BY <1>1, MoreEnds DEF Backed
<1>4. Backed(h)
  BY <1>1, <1>3 DEF Backed
<1>5. CASE t \notin DOMAIN im
  <2>1. Held(nodes, ins)
    BY <1>1, <1>3, <1>5, AppendHeld
  <2>2. DOMAIN ins = DOMAIN im \cup {t}
    BY DEF Put
  <2> HIDE DEF nodes, ins
  <2>3. /\ Record(r) /\ r.nodeMap = nodes /\ r.instructionToNodeMap = ins
        /\ r.toEdges = h.toEdges
    BY <1>1, <1>2, <1>5, RefileFields
  <2>4. Ends(r.toEdges, DOMAIN ins)
    BY <2>2, <2>3, <1>3, MoreEnds
  <2> QED
    BY <2>1, <2>2, <2>3, <2>4, <1>1 DEF Backed
<1>6. Backed(again) /\ again.instructionToNodeMap = im
  <2> HIDE DEF thrown
  <2>1. /\ Record(again) /\ again.nodeMap = nm /\ again.instructionToNodeMap = im
        /\ again.toEdges = h.toEdges
    BY <1>1, ThrownFields
  <2> HIDE DEF again
  <2> QED
    BY <2>1, <1>1, <1>3 DEF Backed
<1>7. CASE t \in DOMAIN im
  <2>1. Backed(split) /\ DOMAIN split.instructionToNodeMap = DOMAIN im
    BY <1>4, <1>7, SplitBacked
  <2> HIDE DEF split
  <2> DEFINE more == linkEdge(split, f, t)
  <2>2. /\ Record(more) /\ more.nodeMap = split.nodeMap
        /\ more.instructionToNodeMap = split.instructionToNodeMap
        /\ more.toEdges = Added(split.toEdges, t, f)
    BY <2>1, LinkFields DEF Backed
  <2> HIDE DEF more
  <2>3. Ends(more.toEdges, DOMAIN more.instructionToNodeMap)
    BY <2>1, <2>2, <1>3, AddedEnds DEF Backed
  <2>4. Backed(more)
    BY <2>1, <2>2, <2>3 DEF Backed
  <2> HIDE DEF again, thrown
  <2> QED
    BY <2>1, <2>2, <2>4, <1>1, <1>2, <1>4, <1>6, <1>7 DEF more
<1> QED
  BY <1>5, <1>7

\* The one block an edge into n can come from.
LEMMA FatherBacked ==
  ASSUME NEW g, Backed(g), NEW n \in Addr, Cardinality(g.toEdges[n]) = 1
  PROVE  Father(g, n) \in DOMAIN g.nodeMap
<1> DEFINE im == g.instructionToNodeMap
<1>1. g.toEdges[n] \subseteq DOMAIN im /\ DOMAIN im \subseteq Addr
  BY HeldBlocks DEF Backed, Ends
<1>2. g.toEdges[n] # {}
  BY FS_EmptySet
<1>3. FromAddr(g, n) \in DOMAIN im
  BY <1>1, <1>2 DEF FromAddr
<1> QED
  BY <1>3, HeldAt DEF Father, Backed

LEMMA MergeBacked ==
  ASSUME NEW g, Backed(g), NEW m \in DOMAIN g.nodeMap, NEW n \in DOMAIN g.nodeMap,
         m # n, NEW r, r = executeMerge(g, m, n)
  PROVE  /\ Backed(r)
         /\ DOMAIN r.instructionToNodeMap = DOMAIN g.instructionToNodeMap
<1> DEFINE nm    == g.nodeMap
           im    == g.instructionToNodeMap
           e     == EndAddr(g, m)
           h     == removeEdge(g, e, n)
           nodes == Appended(nm, m, n)
           ins   == Reindex(im, nm[n], m, Len(nm[m]))
<1>1. Record(g) /\ Ends(g.toEdges, DOMAIN im)
  BY DEF Backed
<1>2. PICK ex : Filed(nm, ex) /\ Loose(im, ex)
  BY DEF Backed, Held
<1>3. nm[m] \in Seq(Addr) /\ nm[n] \in Seq(Addr)
  BY <1>2 DEF Filed
<1>4. PICK k \in Nat, j \in Nat : k = Len(nm[m]) /\ j = Len(nm[n])
  BY <1>3
<1> DEFINE ex2 == Reindex(ex, nm[n], m, k)
<1>5. Merged(nm, ex, nodes, ex2, m, n, k, j)
  BY <1>2, <1>4, MergeFields
<1>6. Filed(nodes, ex2)
  BY <1>2, <1>4, <1>5, MergedFiled
<1>7. Loose(ins, ex2)
  BY <1>2, <1>4, LooseReindex
<1>8. Held(nodes, ins)
  BY <1>6, <1>7 DEF Held
<1>9. DOMAIN ins = DOMAIN im
  <2>1. DOMAIN ex2 = DOMAIN ex
    BY <1>5 DEF Merged
  <2> HIDE DEF ex2
  <2> QED
    BY <2>1, <1>2, <1>7 DEF Loose
<1>10. /\ Record(h) /\ h.nodeMap = nm /\ h.instructionToNodeMap = im
       /\ h.toEdges = Removed(g.toEdges, n, e)
  BY <1>1, RemoveFields
<1>11. r = Refiled(h, nodes, ins)
  <2>1. r = Refiled(h, [x \in DOMAIN h.nodeMap \ {n} |->
                          IF x = m THEN h.nodeMap[x] \o nm[n] ELSE h.nodeMap[x]],
                    Reindex(h.instructionToNodeMap, nm[n], m, Len(nm[m])))
    BY DEF executeMerge, Refiled
  <2>2. nodes = [x \in DOMAIN nm \ {n} |-> IF x = m THEN nm[x] \o nm[n] ELSE nm[x]]
    BY DEF Appended
  <2> HIDE DEF h, nm, im, e
  <2> QED
    BY <2>1, <2>2, <1>10
<1> HIDE DEF h, nodes, ins, ex2
<1>12. /\ Record(r) /\ r.nodeMap = nodes /\ r.instructionToNodeMap = ins
       /\ r.toEdges = Removed(g.toEdges, n, e)
  BY <1>10, <1>11, RefileFields
<1>13. Ends(r.toEdges, DOMAIN ins)
  BY <1>1, <1>9, <1>12, RemovedEnds, MoreEnds
<1> QED
  BY <1>8, <1>9, <1>12, <1>13 DEF Backed

LEMMA EmptyBacked == Backed(EmptyGraph)
<1> DEFINE none == <<>>
<1>1. DOMAIN none = {}
  OBVIOUS
<1>2. /\ EmptyGraph.nodeMap = none /\ EmptyGraph.instructionToNodeMap = none
      /\ EmptyGraph.toEdges = [a \in Addr |-> {}]
  BY DEF EmptyGraph
<1> HIDE DEF none
<1>3. Filed(none, none)
  BY <1>1 DEF Filed, Indexed, Placed
<1>4. Held(none, none)
  BY <1>3 DEF Held, Loose
<1> QED
  BY <1>2, <1>4, EmptyGood DEF Backed, Ends, Good

----------------------------------------------------------------------------
(* The types of BuilderSpec.                                               *)

QueuedTasks == [btype : {"entry", "jmp"}, start : Addr, vip : Nat \ {0}]
RunningTasks ==
  [btype : {"none", "entry", "jmp", "check"}, start : Addr \cup {0}, vip : Nat]

TraceOK ==
  /\ code \in Programs
  /\ traceList \in Seq(Addr) /\ Len(traceList) <= MaxTrace
  /\ Walked(traceList, code)
  /\ flowIdx \in Nat \ {0}

GraphsOK == Backed(tfg) /\ Backed(saved)

TaskOK ==
  /\ does \in Handlers /\ functions \in 0..MaxFunctions
  /\ anaQueue \in Seq(QueuedTasks)
  /\ task \in RunningTasks
  /\ status \in Running \cup Ended
  /\ status \in Running => Len(traceList) >= 1 /\ task.vip # 0
  /\ task.btype = "check" => task.start \in Entries
  /\ vmreg \in Roles \cup {NoRole}

NamesOK ==
  /\ \A name \in visited : name[1] \in Addr
  /\ DOMAIN blockVip = visited
  /\ curBlock \in visited \cup {NoName}

\* A pattern says what one instruction does.
Says(p) ==
  /\ p \in Patterns
  /\ p.op = does[p.addr].op /\ p.role = does[p.addr].role

CacheOK ==
  \A range \in DOMAIN handlerPatternMap :
    range \in Addr \X Addr /\ Says(handlerPatternMap[range])

\* What the walk has taken, and while a VM_INIT is looked for, what it is
\* looked for in: every context before the walker's place.
WalkOK ==
  /\ idx \in Nat /\ curNodeSize \in Nat /\ idx + curNodeSize <= Len(traceList)
  /\ status \in {"trace", "FIND_VM_INIT"} => idx = 0 /\ curNodeSize = 0
  /\ attempt \in 0..(InitAttempts + 1)
  /\ nodeInput \in Nodes
  /\ status = "match" =>
       /\ attempt \in 1..InitAttempts
       /\ nodeInput.addrs # <<>>
       /\ NoRepeats(idx + curNodeSize) => Len(nodeInput.addrs) = idx + curNodeSize

BuilderInv == TraceOK /\ GraphsOK /\ TaskOK /\ NamesOK /\ CacheOK /\ WalkOK

----------------------------------------------------------------------------
(* The walker.                                                             *)

LEMMA LeastIs ==
  ASSUME NEW S \in SUBSET Nat, S # {}
  PROVE  Least(S) \in S /\ \A y \in S : Least(S) <= y
<1> DEFINE R == {ss \in Nat \X Nat : ss[1] < ss[2]}
<1>1. \A x, y \in Nat : <<x, y>> \notin R => y <= x
  OBVIOUS
<1>2. IsWellFoundedOn(R, Nat)
  BY NatLessThanWellFounded, Zenon DEF OpToRel
<1> HIDE DEF R
<1>3. \E x \in S : \A y \in S : <<y, x>> \notin R
  BY <1>2, WFMin
<1>4. \E x \in S : \A y \in S : x <= y
  BY <1>1, <1>3
<1> QED
  BY <1>4 DEF Least

\* node is what the trace has from position i on: the contexts of a block.
ReadAt(node, i) ==
  LET n == Len(node.contexts)
  IN  /\ i \in 1..Len(traceList) /\ traceList[i] \in DOMAIN tfg.instructionToNodeMap
      /\ node.addrs = BlockFrom(traceList[i]) /\ node.at = i
      /\ n \in Sizes(i, node.addrs) /\ \A m \in Sizes(i, node.addrs) : n <= m
      /\ node.contexts = SubSeq(traceList, i, i + n - 1)

\* node would need contexts behind the end of the trace.
CutOff(node, i) ==
  \/ i > Len(traceList)
  \/ /\ i \in 1..Len(traceList) /\ traceList[i] \in DOMAIN tfg.instructionToNodeMap
     /\ Sizes(i, BlockFrom(traceList[i])) = {}

LEMMA BlockFromFields ==
  ASSUME GraphsOK, NEW a \in DOMAIN tfg.instructionToNodeMap
  PROVE  BlockFrom(a) \in Seq(Addr) /\ Len(BlockFrom(a)) >= 1
<1> DEFINE at   == tfg.instructionToNodeMap[a]
           list == tfg.nodeMap[at.vmNode]
<1>1. list \in Seq(Addr) /\ at.index \in Nat \ {0} /\ at.index <= Len(list)
  BY HeldAt DEF GraphsOK, Backed
<1>2. BlockFrom(a) = SubSeq(list, at.index, Len(list))
  BY DEF BlockFrom
<1> HIDE DEF at, list
<1> QED
  BY <1>1, <1>2

LEMMA NodeFields ==
  ASSUME TraceOK, GraphsOK, NEW i \in Nat \ {0}, NEW node, node = GetNextNode(i)
  PROVE  /\ node \in Nodes
         /\ \/ ReadAt(node, i) /\ ~ node.overread /\ node.addrs # <<>>
            \/ node.addrs = <<>> /\ node.contexts = <<>> /\ ~ node.overread
            \/ node.addrs = <<>> /\ node.contexts = <<>> /\ node.overread /\ CutOff(node, i)
<1>0. traceList \in Seq(Addr) /\ Len(traceList) \in Nat
  BY DEF TraceOK
<1>1. /\ NoNode \in Nodes /\ [NoNode EXCEPT !.overread = TRUE] \in Nodes
      /\ NoNode.addrs = <<>> /\ NoNode.contexts = <<>> /\ ~ NoNode.overread
      /\ [NoNode EXCEPT !.overread = TRUE].addrs = <<>>
      /\ [NoNode EXCEPT !.overread = TRUE].contexts = <<>>
      /\ [NoNode EXCEPT !.overread = TRUE].overread
  <2> DEFINE none == <<>>
  <2>1. none \in Seq(Addr)
    OBVIOUS
  <2>2. NoNode = [addrs |-> none, contexts |-> none, at |-> 0, overread |-> FALSE]
    BY DEF NoNode
  <2> HIDE DEF none
  <2>3. NoNode \in Nodes
    BY <2>1, <2>2 DEF Nodes
  <2>4. [NoNode EXCEPT !.overread = TRUE] \in Nodes
    BY <2>3 DEF Nodes
  <2>5. NoNode.addrs = none /\ NoNode.contexts = none /\ ~ NoNode.overread
    BY <2>2
  <2>6. /\ [NoNode EXCEPT !.overread = TRUE].addrs = none
        /\ [NoNode EXCEPT !.overread = TRUE].contexts = none
        /\ [NoNode EXCEPT !.overread = TRUE].overread
    BY <2>3, <2>5 DEF Nodes
  <2> QED
    BY <2>3, <2>4, <2>5, <2>6 DEF none
<1>2. CASE i > Len(traceList)
  <2>1. node = [NoNode EXCEPT !.overread = TRUE]
    BY <1>2 DEF GetNextNode
  <2> QED
    BY <2>1, <1>1, <1>2 DEF CutOff
<1>3. CASE ~ i > Len(traceList) /\ traceList[i] \notin DOMAIN tfg.instructionToNodeMap
  <2>1. node = NoNode
    BY <1>3 DEF GetNextNode
  <2> QED
    BY <2>1, <1>1
<1>4. CASE ~ i > Len(traceList) /\ traceList[i] \in DOMAIN tfg.instructionToNodeMap
  <2> DEFINE addrs == BlockFrom(traceList[i])
             sizes == Sizes(i, addrs)
             n     == Least(sizes)
             read  == [addrs |-> addrs, at |-> i, overread |-> FALSE,
                       contexts |-> SubSeq(traceList, i, i + n - 1)]
  <2>1. node = IF sizes = {} THEN [NoNode EXCEPT !.overread = TRUE] ELSE read
    BY <1>4 DEF GetNextNode
  <2>2. addrs \in Seq(Addr) /\ Len(addrs) >= 1 /\ addrs # <<>>
    BY <1>4, BlockFromFields
  <2>3. i \in 1..Len(traceList)
    BY <1>0, <1>4
  <2>4. CASE sizes = {}
    BY <2>1, <2>3, <2>4, <1>1, <1>4 DEF CutOff
  <2>5. CASE sizes # {}
    <3>1. sizes \subseteq 1..(Len(traceList) - i + 1)
      BY DEF Sizes
    <3>2. sizes \in SUBSET Nat
      BY <3>1
    <3> HIDE DEF sizes
    <3>3. n \in sizes /\ \A m \in sizes : n <= m
      BY <3>2, <2>5, LeastIs
    <3> HIDE DEF n, addrs
    <3>4. n \in Nat \ {0} /\ i + n - 1 <= Len(traceList)
      BY <3>1, <3>3, <1>0, <2>3
    <3>5. /\ SubSeq(traceList, i, i + n - 1) \in Seq(Addr)
          /\ Len(SubSeq(traceList, i, i + n - 1)) = n
      BY <3>4, <1>0, <2>3
    <3>6. node = read
      BY <2>1, <2>5
    <3>7. node \in Nodes
      BY <3>5, <3>6, <2>2 DEF Nodes
    <3>8. ReadAt(node, i)
      BY <3>3, <3>5, <3>6, <2>3, <1>4 DEF ReadAt, sizes, addrs
    <3> QED
      BY <3>6, <3>7, <3>8, <2>2
  <2> QED
    BY <2>4, <2>5
<1> QED
  BY <1>2, <1>3, <1>4

\* What a node that was read says of the trace.
LEMMA ReadFields ==
  ASSUME TraceOK, NEW i, NEW node, ReadAt(node, i)
  PROVE  /\ i \in Nat \ {0} /\ node.at = i
         /\ Len(node.contexts) \in Nat \ {0}
         /\ i + Len(node.contexts) - 1 <= Len(traceList)
         /\ Cardinality(Steps(i, i + Len(node.contexts) - 1)) = Len(node.addrs)
<1>1. traceList \in Seq(Addr) /\ Len(traceList) \in Nat
  BY DEF TraceOK
<1>2. i \in 1..Len(traceList) /\ Len(node.contexts) \in Sizes(i, node.addrs) /\ node.at = i
  BY DEF ReadAt
<1> QED
  BY <1>1, <1>2 DEF Sizes

\* Without repeats every position is a step.
LEMMA FullSteps ==
  ASSUME NEW i \in Nat \ {0}, NEW m \in Nat, i <= m + 1, NoRepeats(m)
  PROVE  Cardinality(Steps(i, m)) = m - i + 1
<1>1. Steps(i, m) = i..m
  BY DEF Steps, NoRepeats
<1>2. Cardinality(i..m) = IF i > m THEN 0 ELSE m - i + 1
  BY FS_Interval
<1> QED
  BY <1>1, <1>2

\* Walking never goes back in the bytecode.
LEMMA VipFields ==
  ASSUME NEW i \in Nat \ {0}, task.vip \in Nat
  PROVE  Vip(i) \in Nat /\ Vip(i) >= task.vip
<1> DEFINE before == {j \in 1..(i - 1) : does[traceList[j]].op \in VmOps}
<1>1. IsFiniteSet(1..(i - 1))
  BY FS_Interval
<1>2. IsFiniteSet(before)
  BY <1>1, FS_Subset
<1>3. Cardinality(before) \in Nat
  BY <1>2, FS_CardinalityType
<1>4. Vip(i) = task.vip + Cardinality(before)
  BY DEF Vip
<1> HIDE DEF before
<1> QED
  BY <1>3, <1>4

LEMMA ReplayFields ==
  ASSUME TraceOK, Len(traceList) >= 1, NEW i \in Nat \ {0}, NEW n \in Nat \ {0},
         i <= Len(traceList)
  PROVE  /\ Replay(i, n) \in 1..Len(traceList)
         /\ traceList[Replay(i, n)] \in Addr
<1>1. traceList \in Seq(Addr) /\ Len(traceList) \in Nat
  BY DEF TraceOK
<1>2. Replay(i, n) \in 1..Len(traceList)
  BY <1>1 DEF Replay
<1> QED
  BY <1>1, <1>2

LEMMA DoesFields ==
  ASSUME TaskOK, NEW a \in Addr
  PROVE  does[a].op \in Marks /\ does[a].role \in Roles
BY BuilderAssumption DEF TaskOK

\* A new analysis says what one instruction of the handler does, or nothing.
LEMMA FreshFields ==
  ASSUME TaskOK, NEW addrs \in Seq(Addr), NEW reg, NEW p, p = AnaVmpPattern(addrs, reg)
  PROVE  \/ p = Junk \/ p = Unknown
         \/ /\ Says(p) /\ p.addr \in Elements(addrs)
            /\ VmInstructions(addrs) = {p.addr}
            /\ p.op = "popreg" => reg \in {NoRole, p.role}
            /\ p.op \in {"stackop", "jmp"} => reg = p.role
<1> DEFINE found == VmInstructions(addrs)
           a     == CHOOSE x \in found : TRUE
           op    == does[a].op
           pat   == [op |-> op, role |-> does[a].role, addr |-> a]
           fits  == /\ Cardinality(found) = 1
                    /\ \/ op = "popreg" /\ reg \in {NoRole, does[a].role}
                       \/ op \in {"stackop", "jmp"} /\ reg = does[a].role
                       \/ op \in {"jmpconst", "exit"}
<1>1. p = IF found = {} THEN Junk ELSE IF fits THEN pat ELSE Unknown
  <2>1. p = CASE found = {} -> Junk [] fits -> pat [] OTHER -> Unknown
    BY DEF AnaVmpPattern
  <2>2. fits => Cardinality(found) = 1
    OBVIOUS
  <2> HIDE DEF found, fits, pat
  <2>3. ~ (found = {} /\ fits)
    BY <2>2, FS_EmptySet
  <2> QED
    BY <2>1, <2>3
<1>2. Elements(addrs) \subseteq Addr
  BY DEF Elements
<1>3. CASE found = {} \/ ~ fits
  BY <1>1, <1>3
<1>4. CASE found # {} /\ fits
  <2>1. a \in found
    BY <1>4
  <2> HIDE DEF a
  <2>2. a \in Elements(addrs) /\ a \in Addr
    BY <2>1, <1>2 DEF VmInstructions
  <2>3. op \in VmOps /\ does[a].role \in Roles
    BY <2>2, <1>4, DoesFields DEF VmOps
  <2>4. p = pat
    BY <1>1, <1>4
  <2>5. fits
    BY <1>4
  <2>6. found = {a}
    <3>1. found \in SUBSET Addr /\ Cardinality(found) = 1
      BY <1>2, <1>4 DEF VmInstructions
    <3> HIDE DEF found
    <3> QED
      BY <3>1, <2>1, OnlyOne
  <2>7. VmInstructions(addrs) = {p.addr}
    BY <2>4, <2>6
  <2> HIDE DEF found
  <2>8. Says(p)
    BY <2>2, <2>3, <2>4 DEF Says, Patterns
  <2>9. /\ p.op = "popreg" => reg \in {NoRole, p.role}
        /\ p.op \in {"stackop", "jmp"} => reg = p.role
    BY <2>4, <2>5
  <2> QED
    BY <2>2, <2>4, <2>8, <2>9, <2>7
<1> QED
  BY <1>3, <1>4

\* A handler the walk is at, which it can read.
Readable == AtHandler /\ ~ Current.overread /\ Current.addrs # <<>>

LEMMA ReadableFields ==
  ASSUME TraceOK, GraphsOK, WalkOK, Readable
  PROVE  /\ status = "FINISH_VM_INIT" /\ idx < Len(traceList)
         /\ Current \in Nodes /\ ReadAt(Current, idx + 1)
         /\ Len(Current.contexts) \in Nat \ {0}
         /\ idx + Len(Current.contexts) <= Len(traceList)
         /\ Len(Current.addrs) \in Nat \ {0}
         /\ Elements(Current.addrs) \subseteq Addr
         /\ Current.addrs[1] \in Addr /\ Current.addrs[Len(Current.addrs)] \in Addr
         /\ VmpHandlerRange(Current) \in Addr \X Addr
<1>1. /\ idx \in Nat /\ Len(traceList) \in Nat
      /\ status = "FINISH_VM_INIT" /\ ~ IsWalkToEnd(idx)
      /\ ~ Current.overread /\ Current.addrs # <<>>
  BY DEF Readable, AtHandler, WalkOK, TraceOK
<1>2. Current = GetNextNode(idx + 1)
  BY DEF Current
<1> HIDE DEF Current
<1>3. Current \in Nodes /\ ReadAt(Current, idx + 1)
  BY <1>1, <1>2, NodeFields
<1>4. /\ Len(Current.contexts) \in Nat \ {0}
      /\ idx + 1 + Len(Current.contexts) - 1 <= Len(traceList)
  BY <1>3, ReadFields
<1>5. Current.addrs \in Seq(Addr) /\ Current.contexts \in Seq(Addr)
  BY <1>3 DEF Nodes
<1>6. Len(Current.addrs) \in Nat \ {0}
  BY <1>1, <1>5
<1>7. Current.addrs[1] \in Addr /\ Current.addrs[Len(Current.addrs)] \in Addr
  BY <1>5, <1>6
<1>8. Elements(Current.addrs) \subseteq Addr
  BY <1>5 DEF Elements
<1>9. idx < Len(traceList) /\ idx + Len(Current.contexts) <= Len(traceList)
  <2> DEFINE m == Len(traceList)
             n == Len(Current.contexts)
  <2>1. idx \in Nat /\ m \in Nat /\ n \in Nat /\ ~ (idx >= m) /\ idx + 1 + n - 1 <= m
    BY <1>1, <1>4 DEF IsWalkToEnd
  <2> HIDE DEF m, n
  <2>2. idx < m /\ idx + n <= m
    BY <2>1
  <2> QED
    BY <2>2 DEF m, n
<1>10. VmpHandlerRange(Current) \in Addr \X Addr
  BY <1>7 DEF VmpHandlerRange
<1> QED
  BY <1>1, <1>3, <1>4, <1>6, <1>7, <1>8, <1>9, <1>10

\* Its pattern, the roles it selects and the instruction made of it.
LEMMA PatternFields ==
  ASSUME TraceOK, GraphsOK, TaskOK, CacheOK, WalkOK, Readable
  PROVE  /\ Pattern = Junk \/ Pattern = Unknown \/ Says(Pattern)
         /\ Pattern.op = "popreg" => Pattern.role \in Roles
         /\ Selected \in Roles \cup {NoRole}
<1>1. Current.addrs \in Seq(Addr)
  BY ReadableFields DEF Nodes
<1>2. Cached => Says(Pattern)
  BY DEF CacheOK, Cached, Pattern
<1>3. ~ Cached => Pattern = AnaVmpPattern(Current.addrs, vmreg)
  BY DEF Pattern
<1> HIDE DEF Pattern, Cached, Current
<1>4. Pattern = Junk \/ Pattern = Unknown \/ Says(Pattern)
  BY <1>1, <1>2, <1>3, FreshFields
<1>5. Pattern.op = "popreg" => Pattern.role \in Roles
  BY <1>4 DEF Says, Patterns, Junk, Unknown
<1>6. Selected \in Roles \cup {NoRole}
  BY <1>5 DEF Selected, TaskOK
<1> QED
  BY <1>4, <1>5, <1>6

LEMMA InstFields ==
  ASSUME Inst # NoInstruction
  PROVE  /\ Pattern # Junk /\ Inst.op = Pattern.op /\ Inst.role = Pattern.role
         /\ Inst.addr = readVmAddress(Current,
                          IF Pattern.op = "popreg" THEN Pattern.role ELSE Selected)
         /\ Inst.addr[1] = Current.addrs[1]
         /\ Pattern.op = "popreg" => Pattern.addr \in Elements(Current.contexts)
         /\ Pattern.op = "jmpconst" => Selected # NoRole
<1> DEFINE made == [op |-> Pattern.op, role |-> Pattern.role,
                    addr |-> readVmAddress(Current,
                               IF Pattern.op = "popreg" THEN Pattern.role ELSE Selected)]
           no1 == Pattern.op = "jmpconst" /\ Selected = NoRole
           no2 == Pattern.op = "popreg" /\ Pattern.addr \notin Elements(Current.contexts)
<1>1. Inst = IF Pattern = Junk THEN NoInstruction
             ELSE CASE no1 -> NoInstruction [] no2 -> NoInstruction [] OTHER -> made
  BY DEF Inst, MakeInstruction
<1>2. /\ made.op = Pattern.op /\ made.role = Pattern.role
      /\ made.addr = readVmAddress(Current,
                       IF Pattern.op = "popreg" THEN Pattern.role ELSE Selected)
  BY Zenon
<1>3. ~ no1 => (Pattern.op = "jmpconst" => Selected # NoRole)
  OBVIOUS
<1>4. ~ no2 => (Pattern.op = "popreg" => Pattern.addr \in Elements(Current.contexts))
  OBVIOUS
<1> HIDE DEF made, no1, no2
<1>5. Pattern # Junk /\ Inst = made /\ ~ no1 /\ ~ no2
  BY <1>1
<1>6. \A reg : readVmAddress(Current, reg)[1] = Current.addrs[1]
  BY DEF readVmAddress
<1> QED
  BY <1>2, <1>3, <1>4, <1>5, <1>6

LEMMA NoInstructionOp == NoInstruction.op = "none"
BY DEF NoInstruction


----------------------------------------------------------------------------
(* The steps, one at a time.                                               *)

LEMMA NoNodeFields ==
  /\ NoNode \in Nodes /\ NoNode.addrs = <<>> /\ NoNode.contexts = <<>>
<1> DEFINE none == <<>>
<1>1. none \in Seq(Addr)
  OBVIOUS
<1>2. NoNode = [addrs |-> none, contexts |-> none, at |-> 0, overread |-> FALSE]
  BY DEF NoNode
<1> HIDE DEF none
<1>3. NoNode \in Nodes /\ NoNode.addrs = none /\ NoNode.contexts = none
  BY <1>1, <1>2 DEF Nodes
<1> QED
  BY <1>3 DEF none

LEMMA AppendNodeFields ==
  ASSUME NEW node \in Nodes, NEW other \in Nodes
  PROVE  LET both == AppendNode(node, other)
         IN  /\ both \in Nodes
             /\ both.addrs = node.addrs \o other.addrs
             /\ Len(both.addrs) = Len(node.addrs) + Len(other.addrs)
             /\ both.contexts = node.contexts \o other.contexts
             /\ both.overread = (node.overread \/ other.overread)
<1> DEFINE both == AppendNode(node, other)
<1>1. /\ node.addrs \in Seq(Addr) /\ other.addrs \in Seq(Addr)
      /\ node.contexts \in Seq(Addr) /\ other.contexts \in Seq(Addr)
      /\ node.overread \in BOOLEAN /\ other.overread \in BOOLEAN
      /\ node.at \in Nat
  BY DEF Nodes
<1>2. /\ node.addrs \o other.addrs \in Seq(Addr)
      /\ Len(node.addrs \o other.addrs) = Len(node.addrs) + Len(other.addrs)
      /\ node.contexts \o other.contexts \in Seq(Addr)
      /\ (node.overread \/ other.overread) \in BOOLEAN
  BY <1>1
<1>3. both = [node EXCEPT !.addrs = node.addrs \o other.addrs,
                          !.contexts = node.contexts \o other.contexts,
                          !.overread = node.overread \/ other.overread]
  BY DEF AppendNode
<1> HIDE DEF both
<1>4. both \in Nodes
  BY <1>2, <1>3 DEF Nodes
<1>5. both.addrs = node.addrs \o other.addrs
      /\ both.contexts = node.contexts \o other.contexts
      /\ both.overread = (node.overread \/ other.overread)
  BY <1>3 DEF Nodes
<1> QED
  BY <1>2, <1>4, <1>5 DEF both

LEMMA QueuedFields ==
  ASSUME TaskOK, NEW b \in {"entry", "jmp"}, NEW a \in Addr, NEW v \in Nat \ {0}
  PROVE  /\ Task(b, a, v) \in QueuedTasks
         /\ Append(anaQueue, Task(b, a, v)) \in Seq(QueuedTasks)
         /\ Len(Append(anaQueue, Task(b, a, v))) = Len(anaQueue) + 1
         /\ Append(anaQueue, Task(b, a, v))[Len(anaQueue) + 1] = Task(b, a, v)
<1>1. Task(b, a, v) \in QueuedTasks
  BY DEF Task, QueuedTasks
<1>2. anaQueue \in Seq(QueuedTasks)
  BY DEF TaskOK
<1> QED
  BY <1>1, <1>2

LEMMA EntryFields ==
  ASSUME NEW a \in Entries
  PROVE  a \in Addr /\ VmStart[a] \in Nat \ {0} /\ EntryTask(a) \in QueuedTasks
<1>1. a \in Addr /\ VmStart[a] \in Nat \ {0}
  BY BuilderAssumption, ProgramAssumption
<1>2. EntryTask(a) = [btype |-> "entry", start |-> a, vip |-> VmStart[a]]
  BY DEF EntryTask, Task
<1> QED
  BY <1>1, <1>2 DEF QueuedTasks

LEMMA InitBuilder == BuilderInit => BuilderInv
<1> SUFFICES ASSUME BuilderInit PROVE BuilderInv
  OBVIOUS
<1> DEFINE none == <<>>
<1>0. /\ none \in Seq(Addr) /\ none \in Seq(QueuedTasks) /\ Len(none) = 0
      /\ DOMAIN none = {}
  OBVIOUS
<1>1. /\ code \in Programs /\ traceList = none /\ flowIdx = 1 /\ tfg = EmptyGraph
      /\ does \in Handlers /\ functions = 0 /\ anaQueue = none /\ visited = {}
      /\ blockVip = none /\ handlerPatternMap = none
      /\ task = Task("none", 0, 0) /\ saved = EmptyGraph
      /\ status = "false" /\ attempt = 0 /\ nodeInput = NoNode
      /\ idx = 0 /\ curNodeSize = 0 /\ vmreg = NoRole /\ curBlock = NoName
  BY DEF BuilderInit, Init
<1> HIDE DEF none
<1>2. TraceOK
  BY <1>0, <1>1, ProgramAssumption DEF TraceOK, Walked
<1>3. GraphsOK
  BY <1>1, EmptyBacked DEF GraphsOK
<1>4. task \in RunningTasks /\ task.btype = "none"
  BY <1>1 DEF RunningTasks, Task
<1>5. TaskOK
  BY <1>0, <1>1, <1>4, BuilderAssumption DEF TaskOK, Running, Ended
<1>6. NamesOK /\ CacheOK
  BY <1>0, <1>1 DEF NamesOK, CacheOK
<1>7. WalkOK
  BY <1>0, <1>1, NoNodeFields, BuilderAssumption DEF WalkOK
<1> QED
  BY <1>2, <1>3, <1>5, <1>6, <1>7 DEF BuilderInv


LEMMA NewFunctionKeeps ==
  ASSUME BuilderInv, NewFunction
  PROVE  BuilderInv'
<1> DEFINE none == <<>>
<1>0. /\ none \in Seq(Addr) /\ Len(none) = 0 /\ DOMAIN none = {}
  OBVIOUS
<1>1. /\ functions < MaxFunctions /\ functions' = functions + 1
      /\ visited' = {} /\ blockVip' = none /\ tfg' = EmptyGraph /\ status' = "false"
      /\ task' = Task("none", 0, 0) /\ traceList' = none /\ flowIdx' = 1
      /\ attempt' = 0 /\ nodeInput' = NoNode /\ idx' = 0 /\ curNodeSize' = 0
      /\ vmreg' = NoRole /\ curBlock' = NoName
      /\ code' = code /\ does' = does /\ handlerPatternMap' = handlerPatternMap
      /\ saved' = saved
  BY DEF NewFunction
<1>2. PICK seed \in Seeds : anaQueue' = [i \in DOMAIN seed |-> EntryTask(seed[i])]
  BY DEF NewFunction
<1> HIDE DEF none
<1>3. anaQueue' \in Seq(QueuedTasks)
  <2>1. seed \in Seq(Entries)
    BY BuilderAssumption
  <2>2. \A i \in DOMAIN seed : EntryTask(seed[i]) \in QueuedTasks
    BY <2>1, EntryFields
  <2>3. Len(seed) \in Nat /\ DOMAIN seed = 1..Len(seed)
    BY <2>1
  <2> QED
    BY <1>2, <2>2, <2>3
<1>4. TraceOK'
  BY <1>0, <1>1, ProgramAssumption DEF BuilderInv, TraceOK, Walked
<1>5. GraphsOK'
  BY <1>1, EmptyBacked DEF BuilderInv, GraphsOK
<1>6. task' \in RunningTasks /\ task'.btype = "none"
  BY <1>1 DEF RunningTasks, Task
<1>7. TaskOK'
  BY <1>1, <1>3, <1>6, BuilderAssumption DEF BuilderInv, TaskOK, Running, Ended
<1>8. NamesOK'
  BY <1>0, <1>1 DEF NamesOK
<1>9. CacheOK'
  BY <1>1 DEF BuilderInv, CacheOK, Says
<1>10. WalkOK'
  BY <1>0, <1>1, NoNodeFields, BuilderAssumption DEF WalkOK
<1> QED
  BY <1>4, <1>5, <1>7, <1>8, <1>9, <1>10 DEF BuilderInv

\* A task's own start: the trace is its first instruction, the walk is at it.
LEMMA BeginKeeps ==
  ASSUME BuilderInv, NEW t \in RunningTasks, t.start \in Addr,
         NEW graph, Backed(graph), Begin(t, graph), saved' = saved \/ saved' = tfg
  PROVE  TraceOK' /\ GraphsOK' /\ WalkOK' /\ Len(traceList') = 1
<1>1. /\ code' = code /\ tfg' = graph /\ traceList' = <<t.start>> /\ flowIdx' = 1
      /\ attempt' = 0 /\ nodeInput' = NoNode /\ idx' = 0 /\ curNodeSize' = 0
      /\ status' = "trace"
  BY DEF Begin
<1>2. /\ traceList' \in Seq(Addr) /\ Len(traceList') = 1
  BY <1>1
<1>3. MaxTrace \in Nat /\ MaxTrace >= 1 /\ code \in Programs
  BY ProgramAssumption, BuilderAssumption DEF BuilderInv, TraceOK
<1>4. TraceOK'
  BY <1>1, <1>2, <1>3 DEF TraceOK, Walked
<1>5. GraphsOK'
  BY <1>1 DEF BuilderInv, GraphsOK
<1>6. WalkOK'
  BY <1>1, <1>2, NoNodeFields, BuilderAssumption DEF WalkOK
<1> QED
  BY <1>2, <1>4, <1>5, <1>6

LEMMA BuildVmpBlockKeeps ==
  ASSUME BuilderInv, BuildVmpBlock
  PROVE  BuilderInv'
<1> DEFINE t == Head(anaQueue)
<1>1. /\ Begin(t, tfg) /\ anaQueue # <<>> /\ anaQueue' = Tail(anaQueue)
      /\ visited' = visited /\ blockVip' = blockVip
      /\ handlerPatternMap' = handlerPatternMap /\ saved' = saved
      /\ vmreg' = NoRole /\ curBlock' = NoName
  BY DEF BuildVmpBlock
<1>2. anaQueue \in Seq(QueuedTasks)
  BY DEF BuilderInv, TaskOK
<1>3. t \in QueuedTasks /\ anaQueue' \in Seq(QueuedTasks)
  BY <1>1, <1>2
<1> HIDE DEF t
<1>4. /\ t \in RunningTasks /\ t.start \in Addr /\ t.vip # 0 /\ t.btype # "check"
  BY <1>3 DEF QueuedTasks, RunningTasks
<1>5. /\ does' = does /\ functions' = functions /\ task' = t /\ status' = "trace"
  BY <1>1 DEF Begin
<1>6. TraceOK' /\ GraphsOK' /\ WalkOK' /\ Len(traceList') = 1
  BY <1>1, <1>4, BeginKeeps DEF BuilderInv, GraphsOK
<1>7. TaskOK'
  BY <1>1, <1>3, <1>4, <1>5, <1>6 DEF BuilderInv, TaskOK, Running, Ended
<1>8. NamesOK' /\ CacheOK'
  BY <1>1, <1>5 DEF BuilderInv, NamesOK, CacheOK, Says
<1> QED
  BY <1>6, <1>7, <1>8 DEF BuilderInv


\* The emulation adds what the program may do next.
LEMMA EmulateKeeps ==
  ASSUME TraceOK, Len(traceList) >= 1, Emulate
  PROVE  TraceOK' /\ Len(traceList') >= 1
<1> DEFINE last == Len(traceList)
<1>1. /\ last < MaxTrace /\ code' = code /\ flowIdx' = flowIdx
  BY DEF Emulate
<1>2. /\ traceList \in Seq(Addr) /\ last >= 1 /\ last \in Nat /\ Walked(traceList, code)
      /\ MaxTrace \in Nat /\ code \in [Addr -> [kind : Kinds, succ : SUBSET Addr]]
      /\ flowIdx \in Nat \ {0} /\ code \in Programs
  BY ProgramAssumption DEF TraceOK
<1>3. PICK a \in code[traceList[last]].succ : traceList' = Append(traceList, a)
  BY DEF Emulate
<1>4. a \in Addr
  <2>1. traceList[last] \in Addr
    BY <1>2
  <2>2. code[traceList[last]].succ \in SUBSET Addr
    BY <2>1, <1>2
  <2> QED
    BY <2>2, <1>3
<1>5. /\ traceList' \in Seq(Addr) /\ Len(traceList') = last + 1
      /\ traceList'[last + 1] = a
      /\ \A i \in 1..last : traceList'[i] = traceList[i]
  BY <1>2, <1>3, <1>4
<1> HIDE DEF last
<1>6. Walked(traceList', code')
  <2> SUFFICES ASSUME NEW i \in 1..(Len(traceList') - 1)
               PROVE  traceList'[i + 1] \in code[traceList'[i]].succ
    BY <1>1 DEF Walked
  <2>1. i \in 1..last /\ traceList'[i] = traceList[i]
    BY <1>2, <1>5
  <2>2. CASE i = last
    BY <2>1, <2>2, <1>3, <1>5
  <2>3. CASE i # last
    <3>1. i \in 1..(last - 1) /\ i + 1 \in 1..last
      BY <2>1, <2>3, <1>2
    <3>2. traceList[i + 1] \in code[traceList[i]].succ
      BY <3>1, <1>2 DEF Walked, last
    <3> QED
      BY <2>1, <3>1, <3>2, <1>5
  <2> QED
    BY <2>2, <2>3
<1> QED
  BY <1>1, <1>2, <1>5, <1>6 DEF TraceOK

\* What links and merges do to a graph that may serve several traces.
LEMMA LinkKeeps ==
  ASSUME TraceOK, Backed(tfg), AddTraceFlow
  PROVE  /\ TraceOK' /\ Backed(tfg') /\ traceList' = traceList
         /\ DOMAIN tfg.instructionToNodeMap \subseteq DOMAIN tfg'.instructionToNodeMap
         /\ traceList[flowIdx] # traceList[flowIdx + 1] =>
              {traceList[flowIdx], traceList[flowIdx + 1]}
                \subseteq DOMAIN tfg'.instructionToNodeMap
<1> DEFINE f == traceList[flowIdx]
           t == traceList[flowIdx + 1]
<1>1. /\ flowIdx < Len(traceList) /\ flowIdx' = flowIdx + 1
      /\ code' = code /\ traceList' = traceList
      /\ tfg' = IF f = t THEN tfg
                ELSE IF isEndIns(code[f].kind) THEN addJmpLink(tfg, f, t)
                                               ELSE addNormalLink(tfg, f, t)
  BY DEF AddTraceFlow, addLink
<1>2. traceList \in Seq(Addr) /\ flowIdx \in Nat \ {0}
  BY DEF TraceOK
<1>3. f \in Addr /\ t \in Addr
  BY <1>1, <1>2
<1> HIDE DEF f, t
<1>4. /\ Backed(tfg')
      /\ f # t => DOMAIN tfg'.instructionToNodeMap =
                    DOMAIN tfg.instructionToNodeMap \cup {f, t}
      /\ f = t => tfg' = tfg
  BY <1>1, <1>3, JmpBacked, NormalBacked
<1> QED
  BY <1>1, <1>2, <1>4 DEF TraceOK, f, t

LEMMA MergeKeeps ==
  ASSUME TraceOK, Backed(tfg), MergeNode
  PROVE  /\ TraceOK' /\ Backed(tfg') /\ traceList' = traceList
         /\ DOMAIN tfg'.instructionToNodeMap = DOMAIN tfg.instructionToNodeMap
<1> DEFINE n == Least(Unvisited)
<1>1. /\ Unvisited # {} /\ checkCanMerge(tfg, n)
      /\ IF Father(tfg, n) = n THEN tfg' = tfg
                               ELSE tfg' = executeMerge(tfg, Father(tfg, n), n)
      /\ code' = code /\ traceList' = traceList /\ flowIdx' = flowIdx
  BY DEF MergeNode, CanMerge
<1>2. DOMAIN tfg.nodeMap \subseteq Addr /\ Addr \subseteq Nat
  BY AddrAssumption, HeldBlocks DEF Backed
<1>3. Unvisited \in SUBSET Nat /\ Unvisited \subseteq DOMAIN tfg.nodeMap
  BY <1>2 DEF Unvisited
<1>4. n \in DOMAIN tfg.nodeMap
  BY <1>1, <1>3, LeastIn
<1> HIDE DEF n
<1>5. Father(tfg, n) \in DOMAIN tfg.nodeMap
  BY <1>1, <1>2, <1>4, FatherBacked DEF checkCanMerge
<1>6. /\ Backed(tfg')
      /\ DOMAIN tfg'.instructionToNodeMap = DOMAIN tfg.instructionToNodeMap
  BY <1>1, <1>4, <1>5, MergeBacked
<1> QED
  BY <1>1, <1>6 DEF TraceOK

LEMMA TraceStepKeeps ==
  ASSUME BuilderInv, TraceStep
  PROVE  BuilderInv'
<1>1. /\ status = "trace" /\ status' \in {"throw", "FINISH_VM_INIT", "FIND_VM_INIT", "trace"}
      /\ does' = does /\ functions' = functions /\ anaQueue' = anaQueue
      /\ visited' = visited /\ blockVip' = blockVip
      /\ handlerPatternMap' = handlerPatternMap /\ task' = task /\ saved' = saved
      /\ attempt' = attempt /\ nodeInput' = nodeInput /\ idx' = idx
      /\ curNodeSize' = curNodeSize /\ vmreg' = vmreg /\ curBlock' = curBlock
  BY DEF TraceStep, walker
<1>2. /\ TraceOK /\ Backed(tfg) /\ Backed(saved) /\ Len(traceList) >= 1
      /\ idx = 0 /\ curNodeSize = 0
  BY <1>1 DEF BuilderInv, GraphsOK, TaskOK, WalkOK, Running
<1>3. TraceOK' /\ Backed(tfg') /\ Len(traceList') >= 1
  <2>1. CASE Emulate
    BY <2>1, <1>2, EmulateKeeps DEF Emulate
  <2>2. CASE EmulationEnds
    BY <2>2, <1>2 DEF EmulationEnds, TraceOK
  <2>3. CASE AddTraceFlow
    BY <2>3, <1>2, LinkKeeps
  <2>4. CASE AddTraceFlowReturns
    BY <2>4, <1>2 DEF AddTraceFlowReturns, TraceOK
  <2>5. CASE MergeNode
    BY <2>5, <1>2, MergeKeeps
  <2>6. CASE RejectNode
    BY <2>6, <1>2 DEF RejectNode, TraceOK
  <2>7. CASE MergePassEnds
    BY <2>7, <1>2 DEF MergePassEnds, TraceOK
  <2> QED
    BY <2>1, <2>2, <2>3, <2>4, <2>5, <2>6, <2>7 DEF TraceStep, MergeAllNodes
<1>4. GraphsOK'
  BY <1>1, <1>2, <1>3 DEF GraphsOK
<1>5. TaskOK'
  BY <1>1, <1>3 DEF BuilderInv, TaskOK, Running, Ended
<1>6. NamesOK' /\ CacheOK'
  BY <1>1 DEF BuilderInv, NamesOK, CacheOK, Says
<1>7. Len(traceList') \in Nat
  BY <1>3 DEF TraceOK
<1>8. WalkOK'
  BY <1>1, <1>2, <1>3, <1>7 DEF BuilderInv, WalkOK
<1> QED
  BY <1>3, <1>4, <1>5, <1>6, <1>8 DEF BuilderInv


\* What the walk takes next: as many contexts as addresses, if none repeats.
LEMMA NextFields ==
  ASSUME TraceOK, GraphsOK, NEW i \in Nat, i <= Len(traceList),
         NEW node, node = GetNextNode(i + 1)
  PROVE  /\ node \in Nodes /\ Len(node.contexts) \in Nat /\ Len(node.addrs) \in Nat
         /\ i + Len(node.contexts) <= Len(traceList)
         /\ NoRepeats(i + Len(node.contexts)) => Len(node.addrs) = Len(node.contexts)
<1>1. i + 1 \in Nat \ {0} /\ Len(traceList) \in Nat
  BY DEF TraceOK
<1>2. node \in Nodes /\ \/ ReadAt(node, i + 1)
                        \/ node.addrs = <<>> /\ node.contexts = <<>>
  BY <1>1, NodeFields
<1>3. Len(node.contexts) \in Nat /\ Len(node.addrs) \in Nat
  BY <1>2 DEF Nodes
<1>4. CASE ReadAt(node, i + 1)
  <2> DEFINE n == Len(node.contexts)
             a == i + 1
             b == i + n
  <2>1. /\ n \in Nat \ {0} /\ a + n - 1 <= Len(traceList)
        /\ Cardinality(Steps(a, a + n - 1)) = Len(node.addrs)
    BY <1>4, ReadFields
  <2> HIDE DEF n
  <2>2. a + n - 1 = b /\ b \in Nat /\ a \in Nat \ {0} /\ a <= b + 1 /\ b - a + 1 = n
    BY <2>1
  <2>3. Cardinality(Steps(a, b)) = Len(node.addrs) /\ b <= Len(traceList)
    BY <2>1, <2>2
  <2> HIDE DEF a, b
  <2>4. NoRepeats(b) => Cardinality(Steps(a, b)) = b - a + 1
    BY <2>2, FullSteps
  <2>5. NoRepeats(b) => Len(node.addrs) = n
    BY <2>2, <2>3, <2>4
  <2> QED
    BY <1>2, <1>3, <2>3, <2>5 DEF n, b
<1>5. CASE node.addrs = <<>> /\ node.contexts = <<>>
  BY <1>1, <1>2, <1>5
<1> QED
  BY <1>2, <1>4, <1>5

\* What no step of a walk changes.
LEMMA FrameKeeps ==
  ASSUME BuilderInv, WalkFrame, tfg' \in {tfg, saved}, saved' = saved
  PROVE  /\ TraceOK' /\ GraphsOK' /\ does' = does /\ functions' = functions
         /\ task' = task /\ traceList' = traceList /\ code' = code
<1>1. /\ code' = code /\ traceList' = traceList /\ flowIdx' = flowIdx
      /\ does' = does /\ functions' = functions /\ task' = task
  BY DEF WalkFrame
<1> QED
  BY <1>1 DEF BuilderInv, TraceOK, GraphsOK

LEMMA FindFirstKeeps ==
  ASSUME BuilderInv, FindFirst
  PROVE  BuilderInv'
<1> DEFINE first == GetNextNode(idx + 1)
           next  == GetNextNode(idx + 1 + Len(first.contexts))
           both  == AppendNode(first, next)
           key   == isVmPushKey(first.addrs)
           n     == Len(first.contexts)
           m     == Len(next.contexts)
<1>1. /\ status = "FIND_VM_INIT" /\ attempt' = 1
      /\ nodeInput' = IF key THEN both ELSE first
      /\ IF key THEN idx' = idx + n /\ curNodeSize' = m
                ELSE idx' = idx /\ curNodeSize' = n
      /\ tfg' \in {tfg, saved} /\ saved' = saved /\ anaQueue' = anaQueue
      /\ visited' = visited /\ blockVip' = blockVip
      /\ handlerPatternMap' = handlerPatternMap
      /\ vmreg' = vmreg /\ curBlock' = curBlock
      /\ status' \in {"overread", "false", "match"} /\ WalkFrame
  BY DEF FindFirst, NotFound, Overread
<1>1a. status' = "match" => first.addrs # <<>>
  BY DEF FindFirst, NotFound, Overread
<1>2. /\ TraceOK' /\ GraphsOK' /\ does' = does /\ functions' = functions
      /\ task' = task /\ traceList' = traceList
  BY <1>1, FrameKeeps
<1>3. TraceOK /\ GraphsOK /\ TaskOK /\ idx = 0 /\ curNodeSize = 0 /\ Len(traceList) \in Nat
  BY <1>1 DEF BuilderInv, WalkOK, TraceOK
<1> HIDE DEF key
<1>4. /\ first \in Nodes /\ n \in Nat /\ Len(first.addrs) \in Nat
      /\ n <= Len(traceList)
      /\ NoRepeats(n) => Len(first.addrs) = n
  BY <1>3, NextFields
<1>5. /\ next \in Nodes /\ m \in Nat /\ Len(next.addrs) \in Nat
      /\ n + m <= Len(traceList)
      /\ NoRepeats(n + m) => Len(next.addrs) = m
  <2>1. next = GetNextNode(n + 1)
    BY <1>3, <1>4
  <2> HIDE DEF next, n, first
  <2> QED
    BY <2>1, <1>3, <1>4, NextFields
<1>6. NoRepeats(n + m) => NoRepeats(n)
  <2> HIDE DEF n, m
  <2> QED
    BY <1>4, <1>5 DEF NoRepeats
<1>7. both \in Nodes /\ Len(both.addrs) = Len(first.addrs) + Len(next.addrs)
  BY <1>4, <1>5, AppendNodeFields
<1>8. first.addrs # <<>> => both.addrs # <<>>
  <2>1. first.addrs \in Seq(Addr) /\ both.addrs \in Seq(Addr)
    BY <1>4, <1>7 DEF Nodes
  <2> HIDE DEF first, both, next
  <2>2. first.addrs # <<>> => Len(first.addrs) >= 1
    BY <2>1
  <2>3. Len(both.addrs) >= 1 => both.addrs # <<>>
    BY <2>1
  <2>4. Len(both.addrs) = Len(first.addrs) + Len(next.addrs)
        /\ Len(first.addrs) \in Nat /\ Len(next.addrs) \in Nat
    BY <1>4, <1>5, <1>7
  <2> DEFINE x == Len(first.addrs)
             y == Len(next.addrs)
             z == Len(both.addrs)
  <2>5. z = x + y /\ x \in Nat /\ y \in Nat
    BY <2>4
  <2> HIDE DEF x, y, z
  <2>6. x >= 1 => z >= 1
    BY <2>5
  <2> QED
    BY <2>2, <2>3, <2>6, Zenon DEF x, z
<1> HIDE DEF first, next, both, key, n, m
<1>9. WalkOK'
  <2>1. /\ nodeInput' \in Nodes /\ idx' \in Nat /\ curNodeSize' \in Nat
        /\ idx' + curNodeSize' <= Len(traceList')
    BY <1>1, <1>2, <1>3, <1>4, <1>5, <1>7
  <2>2. status' = "match" => nodeInput'.addrs # <<>>
    BY <1>1, <1>1a, <1>8
  <2>3. NoRepeats(idx' + curNodeSize') => Len(nodeInput'.addrs) = idx' + curNodeSize'
    <3>1. CASE key
      <4>1. idx' + curNodeSize' = n + m /\ nodeInput' = both
        BY <3>1, <1>1, <1>3, <1>4, <1>5
      <4>2. NoRepeats(n + m) => Len(both.addrs) = n + m
        BY <1>4, <1>5, <1>6, <1>7
      <4> QED
        BY <4>1, <4>2
    <3>2. CASE ~ key
      BY <3>2, <1>1, <1>3, <1>4
    <3> QED
      BY <3>1, <3>2
  <2>4. attempt' \in 1..InitAttempts /\ attempt' \in 0..(InitAttempts + 1)
    BY <1>1, BuilderAssumption
  <2>5. status' \notin {"trace", "FIND_VM_INIT"}
    BY <1>1
  <2>6. NoRepeats(idx + curNodeSize)' <=> NoRepeats(idx' + curNodeSize')
    BY <1>2 DEF NoRepeats
  <2> QED
    BY <2>1, <2>2, <2>3, <2>4, <2>5, <2>6 DEF WalkOK
<1>10. TaskOK'
  BY <1>1, <1>2, <1>3 DEF TaskOK, Running, Ended
<1>11. NamesOK' /\ CacheOK'
  BY <1>1, <1>2 DEF BuilderInv, NamesOK, CacheOK, Says
<1> QED
  BY <1>2, <1>9, <1>10, <1>11 DEF BuilderInv


LEMMA FindNextKeeps ==
  ASSUME BuilderInv, FindNext
  PROVE  BuilderInv'
<1> DEFINE at   == idx + curNodeSize
           next == GetNextNode(at + 1)
           both == AppendNode(nodeInput, next)
           n    == Len(next.contexts)
           end  == IsWalkToEnd(idx')
<1>1. /\ status = "match" /\ attempt' = attempt + 1 /\ idx' = at
      /\ tfg' \in {tfg, saved} /\ saved' = saved /\ anaQueue' = anaQueue
      /\ visited' = visited /\ blockVip' = blockVip
      /\ handlerPatternMap' = handlerPatternMap
      /\ vmreg' = vmreg /\ curBlock' = curBlock
      /\ status' \in {"overread", "false", "match"} /\ WalkFrame
  BY DEF FindNext, NotFound, Overread
<1>2. /\ end => curNodeSize' = 0 /\ nodeInput' = nodeInput /\ status' = "false"
      /\ ~ end => curNodeSize' = n /\ nodeInput' = both
      /\ attempt = InitAttempts => status' # "match"
  BY DEF FindNext, NotFound, Overread
<1>3. /\ TraceOK' /\ GraphsOK' /\ does' = does /\ functions' = functions
      /\ task' = task /\ traceList' = traceList
  BY <1>1, FrameKeeps
<1>4. /\ TraceOK /\ GraphsOK /\ TaskOK /\ at \in Nat /\ at <= Len(traceList)
      /\ nodeInput \in Nodes /\ nodeInput.addrs # <<>>
      /\ NoRepeats(at) => Len(nodeInput.addrs) = at
      /\ attempt \in 1..InitAttempts /\ InitAttempts \in Nat \ {0}
      /\ Len(traceList) \in Nat
  BY <1>1, BuilderAssumption DEF BuilderInv, WalkOK, TraceOK
<1> HIDE DEF at
<1>5. /\ next \in Nodes /\ n \in Nat /\ Len(next.addrs) \in Nat
      /\ at + n <= Len(traceList)
      /\ NoRepeats(at + n) => Len(next.addrs) = n
  BY <1>4, NextFields
<1> HIDE DEF next
<1>6. both \in Nodes /\ Len(both.addrs) = Len(nodeInput.addrs) + Len(next.addrs)
  BY <1>4, <1>5, AppendNodeFields
<1> HIDE DEF both, n
<1>7. NoRepeats(at + n) => NoRepeats(at)
  BY <1>4, <1>5 DEF NoRepeats
<1>8. both.addrs # <<>>
  <2> DEFINE x == Len(nodeInput.addrs)
             y == Len(next.addrs)
             z == Len(both.addrs)
  <2>1. nodeInput.addrs \in Seq(Addr) /\ both.addrs \in Seq(Addr)
    BY <1>4, <1>6 DEF Nodes
  <2>2. x \in Nat /\ x >= 1
    BY <2>1, <1>4
  <2>3. z >= 1 => both.addrs # <<>>
    BY <2>1
  <2>4. z = x + y /\ y \in Nat
    BY <1>5, <1>6
  <2> HIDE DEF x, y, z
  <2>5. z >= 1
    BY <2>2, <2>4
  <2> QED
    BY <2>3, <2>5
<1>9. NoRepeats(at + n) => Len(both.addrs) = at + n
  BY <1>4, <1>5, <1>6, <1>7
<1>10. WalkOK'
  <2>1. /\ nodeInput' \in Nodes /\ idx' \in Nat /\ curNodeSize' \in Nat
        /\ idx' + curNodeSize' <= Len(traceList')
    BY <1>1, <1>2, <1>3, <1>4, <1>5, <1>6
  <2>2. status' = "match" => ~ end
    BY <1>2
  <2>3. ~ end => nodeInput'.addrs # <<>>
    BY <1>2, <1>8
  <2>4. ~ end /\ NoRepeats(idx' + curNodeSize') =>
          Len(nodeInput'.addrs) = idx' + curNodeSize'
    BY <1>1, <1>2, <1>9
  <2>5. /\ attempt' \in 0..(InitAttempts + 1)
        /\ status' = "match" => attempt' \in 1..InitAttempts
    BY <1>1, <1>2, <1>4
  <2>6. NoRepeats(idx + curNodeSize)' <=> NoRepeats(idx' + curNodeSize')
    BY <1>3 DEF NoRepeats
  <2>7. status' \notin {"trace", "FIND_VM_INIT"}
    BY <1>1
  <2> QED
    BY <2>1, <2>2, <2>3, <2>4, <2>5, <2>6, <2>7 DEF WalkOK
<1>11. TaskOK'
  BY <1>1, <1>3, <1>4 DEF TaskOK, Running, Ended
<1>12. NamesOK' /\ CacheOK'
  BY <1>1, <1>3 DEF BuilderInv, NamesOK, CacheOK, Says
<1> QED
  BY <1>3, <1>10, <1>11, <1>12 DEF BuilderInv

\* The first instruction of a block names it.
LEMMA EnterKeeps ==
  ASSUME NamesOK, NEW name, name[1] \in Addr, NEW vip, EnterBlock(name, vip)
  PROVE  NamesOK'
<1>1. CASE StartsBlock
  <2>1. /\ visited' = visited \cup {name} /\ blockVip' = Put(blockVip, name, vip)
        /\ curBlock' = name
    BY <1>1 DEF EnterBlock
  <2>2. DOMAIN blockVip' = visited'
    BY <2>1 DEF Put, NamesOK
  <2> QED
    BY <2>1, <2>2 DEF NamesOK
<1>2. CASE ~ StartsBlock
  BY <1>2 DEF EnterBlock, NamesOK
<1> QED
  BY <1>1, <1>2

\* A handler's or an entry's successor, as the second emulation finds it.
LEMMA SuccessorFields ==
  ASSUME BuilderInv, status \in Running, NEW n \in Nat \ {0},
         NEW q, q = Append(anaQueue, Task("jmp", traceList[Replay(1, n)], Vip(Replay(1, n))))
  PROVE  /\ q \in Seq(QueuedTasks) /\ Len(q) = Len(anaQueue) + 1
         /\ q[Len(q)] = Task("jmp", traceList[Replay(1, n)], Vip(Replay(1, n)))
<1> DEFINE next == Replay(1, n)
<1>1. /\ TraceOK /\ TaskOK /\ Len(traceList) >= 1 /\ Len(traceList) \in Nat
      /\ task.vip \in Nat \ {0}
  BY DEF BuilderInv, TaskOK, TraceOK, RunningTasks
<1>2. next \in 1..Len(traceList) /\ traceList[next] \in Addr
  BY <1>1, ReplayFields
<1> HIDE DEF next
<1>3. Vip(next) \in Nat \ {0}
  <2>1. Vip(next) \in Nat /\ Vip(next) >= task.vip
    BY <1>1, <1>2, VipFields
  <2> QED
    BY <2>1, <1>1
<1>4. /\ q \in Seq(QueuedTasks) /\ Len(q) = Len(anaQueue) + 1
      /\ q[Len(anaQueue) + 1] = Task("jmp", traceList[next], Vip(next))
  BY <1>1, <1>2, <1>3, QueuedFields DEF next
<1> QED
  BY <1>4 DEF next


\* A walk that is over, or goes on with the next handler.
LEMMA StoppedWalk ==
  ASSUME BuilderInv, traceList' = traceList, status' \notin {"trace", "FIND_VM_INIT", "match"},
         attempt' = attempt, nodeInput' \in Nodes, idx' \in Nat, curNodeSize' \in Nat,
         idx' + curNodeSize' <= Len(traceList)
  PROVE  WalkOK'
<1>1. attempt' \in 0..(InitAttempts + 1)
  BY DEF BuilderInv, WalkOK
<1>2. Len(traceList') = Len(traceList)
  OBVIOUS
<1> QED
  BY <1>1, <1>2 DEF WalkOK

LEMMA FindEndsKeeps ==
  ASSUME BuilderInv, FindEnds
  PROVE  BuilderInv'
<1> DEFINE name == <<nodeInput.addrs[1], nodeInput.addrs[1]>>
           n    == Len(nodeInput.addrs) + 1
           next == Replay(1, n)
           more == Append(anaQueue, Task("jmp", traceList[next], Vip(next)))
<1>1. /\ status = "match" /\ status' = "found"
      /\ idx' = idx + curNodeSize /\ curNodeSize' = 0
      /\ tfg' = tfg /\ saved' = saved /\ attempt' = attempt /\ nodeInput' = nodeInput
      /\ handlerPatternMap' = handlerPatternMap /\ vmreg' = vmreg /\ WalkFrame
      /\ IF IsVisited(name)
           THEN UNCHANGED <<anaQueue, visited, blockVip, curBlock>>
           ELSE EnterBlock(name, task.vip) /\ anaQueue' = more
  BY DEF FindEnds
<1>2. /\ TraceOK' /\ GraphsOK' /\ does' = does /\ functions' = functions
      /\ task' = task /\ traceList' = traceList
  BY <1>1, FrameKeeps
<1>3. /\ TaskOK /\ NamesOK /\ nodeInput \in Nodes /\ nodeInput.addrs # <<>>
      /\ idx \in Nat /\ curNodeSize \in Nat /\ idx + curNodeSize <= Len(traceList)
  BY <1>1 DEF BuilderInv, WalkOK
<1>4. name[1] \in Addr /\ n \in Nat \ {0}
  <2>1. nodeInput.addrs \in Seq(Addr)
    BY <1>3 DEF Nodes
  <2>2. Len(nodeInput.addrs) \in Nat \ {0} /\ nodeInput.addrs[1] \in Addr
    BY <2>1, <1>3
  <2> QED
    BY <2>2
<1> HIDE DEF name, n
<1>5. more \in Seq(QueuedTasks)
  BY <1>1, <1>4, SuccessorFields DEF Running
<1> HIDE DEF next, more
<1>6. anaQueue' \in Seq(QueuedTasks)
  BY <1>1, <1>3, <1>5 DEF TaskOK
<1>7. TaskOK'
  BY <1>1, <1>2, <1>3, <1>6 DEF TaskOK, Running, Ended
<1>8. NamesOK'
  <2>1. CASE IsVisited(name)
    BY <2>1, <1>1, <1>3 DEF NamesOK
  <2>2. CASE ~ IsVisited(name)
    BY <2>2, <1>1, <1>3, <1>4, EnterKeeps
  <2> QED
    BY <2>1, <2>2
<1>9. CacheOK'
  BY <1>1, <1>2 DEF BuilderInv, CacheOK, Says
<1>10. WalkOK'
  BY <1>1, <1>2, <1>3, StoppedWalk
<1> QED
  BY <1>2, <1>7, <1>8, <1>9, <1>10 DEF BuilderInv

LEMMA CheckAcceptsKeeps ==
  ASSUME BuilderInv, CheckAccepts
  PROVE  BuilderInv'
<1>1. /\ status = "match" /\ status' = "found" /\ task.btype = "check"
      /\ anaQueue' = Append(anaQueue, EntryTask(task.start)) /\ tfg' = saved
      /\ saved' = saved /\ attempt' = attempt /\ nodeInput' = nodeInput
      /\ idx' = idx /\ curNodeSize' = curNodeSize
      /\ handlerPatternMap' = handlerPatternMap /\ vmreg' = vmreg
      /\ visited' = visited /\ blockVip' = blockVip /\ curBlock' = curBlock
      /\ WalkFrame
  BY DEF CheckAccepts, walker
<1>2. /\ TraceOK' /\ GraphsOK' /\ does' = does /\ functions' = functions
      /\ task' = task /\ traceList' = traceList
  BY <1>1, FrameKeeps
<1>3. TaskOK /\ WalkOK /\ task.start \in Entries
  BY <1>1 DEF BuilderInv, TaskOK
<1>4. anaQueue' \in Seq(QueuedTasks)
  BY <1>1, <1>3, EntryFields DEF TaskOK
<1>5. TaskOK'
  BY <1>1, <1>2, <1>3, <1>4 DEF TaskOK, Running, Ended
<1>6. NamesOK' /\ CacheOK'
  BY <1>1, <1>2 DEF BuilderInv, NamesOK, CacheOK, Says
<1>7. WalkOK'
  BY <1>1, <1>2, <1>3, StoppedWalk DEF WalkOK
<1> QED
  BY <1>2, <1>5, <1>6, <1>7 DEF BuilderInv

\* A walk that stops where it is.
LEMMA StopKeeps ==
  ASSUME BuilderInv, WalkFrame, QuietFrame, UNCHANGED <<saved, attempt, nodeInput, walker>>,
         tfg' \in {tfg, saved}, status' \in Ended
  PROVE  BuilderInv'
<1>1. /\ saved' = saved /\ attempt' = attempt /\ nodeInput' = nodeInput
      /\ idx' = idx /\ curNodeSize' = curNodeSize /\ anaQueue' = anaQueue
      /\ handlerPatternMap' = handlerPatternMap /\ vmreg' = vmreg
      /\ visited' = visited /\ blockVip' = blockVip /\ curBlock' = curBlock
  BY DEF QuietFrame, walker
<1>2. /\ TraceOK' /\ GraphsOK' /\ does' = does /\ functions' = functions
      /\ task' = task /\ traceList' = traceList
  BY <1>1, FrameKeeps
<1>3. TaskOK'
  BY <1>1, <1>2 DEF BuilderInv, TaskOK, Running, Ended
<1>4. NamesOK' /\ CacheOK'
  BY <1>1, <1>2 DEF BuilderInv, NamesOK, CacheOK, Says
<1>5. WalkOK'
  BY <1>1, <1>2, StoppedWalk DEF BuilderInv, WalkOK, Ended
<1> QED
  BY <1>2, <1>3, <1>4, <1>5 DEF BuilderInv


LEMMA RememberKeeps ==
  ASSUME BuilderInv, Readable, Remember, does' = does
  PROVE  CacheOK'
<1> DEFINE map == handlerPatternMap
           rg  == VmpHandlerRange(Current)
<1>1. /\ TraceOK /\ GraphsOK /\ TaskOK /\ CacheOK /\ WalkOK
  BY DEF BuilderInv
<1>2. rg \in Addr \X Addr /\ (Pattern = Junk \/ Pattern = Unknown \/ Says(Pattern))
  BY <1>1, ReadableFields, PatternFields
<1>3. map' = map \/ (Pattern \notin {Junk, Unknown} /\ map' = Put(map, rg, Pattern))
  BY DEF Remember
<1> HIDE DEF rg, map
<1>4. CASE map' = map
  BY <1>4, <1>1 DEF CacheOK, Says, map
<1>5. CASE Pattern \notin {Junk, Unknown} /\ map' = Put(map, rg, Pattern)
  <2>1. Says(Pattern)
    BY <1>2, <1>5
  <2> DEFINE pat == Pattern
  <2>2. Says(pat)
    BY <2>1
  <2>3. map' = Put(map, rg, pat)
    BY <1>5
  <2> HIDE DEF pat
  <2>4. \A p : Says(p) => p \in Patterns /\ p.op = does'[p.addr].op /\ p.role = does'[p.addr].role
    BY DEF Says
  <2>5. \A x \in DOMAIN map : x \in Addr \X Addr /\ Says(map[x])
    BY <1>1 DEF CacheOK, map
  <2>6. DOMAIN map' = DOMAIN map \cup {rg}
        /\ \A x \in DOMAIN map' : map'[x] = IF x = rg THEN pat ELSE map[x]
    BY <2>3 DEF Put
  <2>7. \A x \in DOMAIN map' : x \in Addr \X Addr /\ Says(map'[x])
    BY <1>2, <2>2, <2>5, <2>6
  <2> QED
    BY <2>4, <2>7 DEF CacheOK, Says, map
<1> QED
  BY <1>3, <1>4, <1>5

\* What every handler does, whatever its instruction is.
LEMMA HandlerKeeps ==
  ASSUME BuilderInv, Handler, tfg' = tfg, saved' = saved, status' \in {status, "found"}
  PROVE  /\ Readable /\ TraceOK' /\ GraphsOK' /\ CacheOK' /\ WalkOK'
         /\ does' = does /\ functions' = functions /\ task' = task
         /\ traceList' = traceList /\ status = "FINISH_VM_INIT"
<1>1. /\ Readable /\ Remember /\ WalkFrame /\ attempt' = attempt
      /\ idx' = idx + Len(Current.contexts) /\ curNodeSize' = 0 /\ nodeInput' = Current
  BY DEF Handler, MoveToNext, Readable
<1>2. /\ TraceOK' /\ GraphsOK' /\ does' = does /\ functions' = functions
      /\ task' = task /\ traceList' = traceList
  BY <1>1, FrameKeeps
<1>3. CacheOK'
  BY <1>1, <1>2, RememberKeeps
<1>4. TraceOK /\ GraphsOK /\ WalkOK
  BY DEF BuilderInv
<1>5. /\ status = "FINISH_VM_INIT" /\ Current \in Nodes
      /\ Len(Current.contexts) \in Nat \ {0} /\ idx \in Nat
      /\ idx + Len(Current.contexts) <= Len(traceList)
  BY <1>1, <1>4, ReadableFields DEF WalkOK
<1> HIDE DEF Current
<1>6. WalkOK'
  <2>1. /\ idx' \in Nat /\ curNodeSize' \in Nat /\ idx' + curNodeSize' <= Len(traceList)
    BY <1>1, <1>5
  <2>2. status' \notin {"trace", "FIND_VM_INIT", "match"}
    BY <1>5
  <2> QED
    BY <1>1, <1>2, <1>5, <2>1, <2>2, StoppedWalk
<1> QED
  BY <1>1, <1>2, <1>3, <1>5, <1>6

\* and what its instruction may do to the queue and the names.
LEMMA OpKeeps ==
  ASSUME BuilderInv, Handler, tfg' = tfg, saved' = saved, status' \in {status, "found"},
         anaQueue' \in Seq(QueuedTasks), vmreg' \in Roles \cup {NoRole}, NamesOK'
  PROVE  BuilderInv'
<1>1. /\ TraceOK' /\ GraphsOK' /\ CacheOK' /\ WalkOK'
      /\ does' = does /\ functions' = functions /\ task' = task
      /\ traceList' = traceList /\ status = "FINISH_VM_INIT"
  BY HandlerKeeps
<1>2. TaskOK'
  BY <1>1 DEF BuilderInv, TaskOK, Running, Ended
<1> QED
  BY <1>1, <1>2 DEF BuilderInv

LEMMA ExecutedFields ==
  ASSUME BuilderInv, NEW ops, Executes(ops), "none" \notin ops
  PROVE  /\ Readable /\ Handler /\ Inst # NoInstruction /\ Inst.op \in ops
         /\ NamesOK' /\ Selected \in Roles \cup {NoRole}
         /\ Inst.op = "popreg" => Inst.role \in Roles
<1>1. /\ Readable /\ Handler /\ Inst.op \in ops /\ EnterBlock(Inst.addr, Vip(idx + 1))
  BY DEF Executes, Handler, Readable
<1>2. Inst # NoInstruction
  BY <1>1, NoInstructionOp
<1>3. /\ TraceOK /\ GraphsOK /\ TaskOK /\ CacheOK /\ WalkOK /\ NamesOK
  BY DEF BuilderInv
<1>4. /\ Inst.addr[1] = Current.addrs[1] /\ Inst.op = Pattern.op /\ Inst.role = Pattern.role
  BY <1>2, InstFields
<1>5. Current.addrs[1] \in Addr
  BY <1>1, <1>3, ReadableFields
<1>6. /\ Selected \in Roles \cup {NoRole}
      /\ Pattern.op = "popreg" => Pattern.role \in Roles
  BY <1>1, <1>3, PatternFields
<1> HIDE DEF Inst, Pattern, Selected, Current
<1>7. NamesOK'
  BY <1>1, <1>3, <1>4, <1>5, EnterKeeps
<1> QED
  BY <1>1, <1>2, <1>4, <1>6, <1>7


LEMMA QuietOpKeeps ==
  ASSUME BuilderInv, SkipHandler \/ ReachVisited
  PROVE  BuilderInv'
<1>1. /\ Handler /\ tfg' = tfg /\ saved' = saved /\ status' \in {status, "found"}
      /\ anaQueue' = anaQueue /\ vmreg' = Selected
      /\ visited' = visited /\ blockVip' = blockVip /\ curBlock' = curBlock
  BY DEF SkipHandler, ReachVisited
<1>2. /\ Readable /\ TraceOK /\ GraphsOK /\ TaskOK /\ CacheOK /\ WalkOK /\ NamesOK
  BY <1>1, HandlerKeeps DEF BuilderInv
<1>3. Selected \in Roles \cup {NoRole}
  BY <1>2, PatternFields
<1> HIDE DEF Selected
<1>4. anaQueue' \in Seq(QueuedTasks) /\ vmreg' \in Roles \cup {NoRole} /\ NamesOK'
  BY <1>1, <1>2, <1>3 DEF TaskOK, NamesOK
<1> QED
  BY <1>1, <1>4, OpKeeps

LEMMA PlainOpKeeps ==
  ASSUME BuilderInv, PlainOp \/ ExitOp
  PROVE  BuilderInv'
<1>1. PICK ops \in {{"popreg", "stackop", "unknown"}, {"exit"}} : Executes(ops)
  BY DEF PlainOp, ExitOp
<1>2. /\ tfg' = tfg /\ saved' = saved /\ anaQueue' = anaQueue
      /\ status' \in {status, "found"}
      /\ \/ vmreg' = Selected
         \/ vmreg' = Inst.role /\ Inst.op = "popreg"
  BY DEF PlainOp, ExitOp
<1>3. /\ Handler /\ NamesOK' /\ Selected \in Roles \cup {NoRole}
      /\ Inst.op = "popreg" => Inst.role \in Roles
  BY <1>1, ExecutedFields
<1> HIDE DEF Selected, Inst
<1>4. anaQueue' \in Seq(QueuedTasks) /\ vmreg' \in Roles \cup {NoRole}
  BY <1>2, <1>3 DEF BuilderInv, TaskOK
<1> QED
  BY <1>2, <1>3, <1>4, OpKeeps

LEMMA JmpConstOpKeeps ==
  ASSUME BuilderInv, JmpConstOp
  PROVE  BuilderInv'
<1> DEFINE n    == idx + Len(Current.addrs) + 1
           more == Append(anaQueue, Task("jmp", traceList[Replay(1, n)], Vip(Replay(1, n))))
<1>1. /\ Executes({"jmpconst"}) /\ anaQueue' = more
      /\ vmreg' = Selected /\ status' = "found" /\ tfg' = tfg /\ saved' = saved
  BY DEF JmpConstOp
<1>2. Handler /\ Readable /\ NamesOK' /\ Selected \in Roles \cup {NoRole}
  BY <1>1, ExecutedFields
<1>3. TraceOK /\ GraphsOK /\ WalkOK
  BY DEF BuilderInv
<1>4. /\ status = "FINISH_VM_INIT" /\ n \in Nat \ {0}
  <2>1. idx \in Nat /\ Len(Current.addrs) \in Nat \ {0} /\ status = "FINISH_VM_INIT"
    BY <1>2, <1>3, ReadableFields DEF WalkOK
  <2> QED
    BY <2>1
<1> HIDE DEF n, Selected
<1>5. more \in Seq(QueuedTasks)
  BY <1>4, SuccessorFields DEF Running
<1> QED
  BY <1>1, <1>2, <1>5, OpKeeps

\* Numbering the members of a finite set.
LEMMA OrderFields ==
  ASSUME NEW S, IsFiniteSet(S), NEW f,
         f = CHOOSE g \in [1..Cardinality(S) -> S] :
               \A v \in S : \E i \in DOMAIN g : g[i] = v
  PROVE  f \in [1..Cardinality(S) -> S] /\ Cardinality(S) \in Nat
<1>1. Cardinality(S) \in Nat /\ ExistsBijection(1..Cardinality(S), S)
  BY FS_CardinalityType
<1>2. \E g \in [1..Cardinality(S) -> S] : \A v \in S : \E i \in 1..Cardinality(S) : g[i] = v
  BY <1>1 DEF ExistsBijection, Bijection, Surjection
<1>3. \E g \in [1..Cardinality(S) -> S] : \A v \in S : \E i \in DOMAIN g : g[i] = v
  BY <1>2
<1> QED
  BY <1>1, <1>3

\* What follows a VM_JMP, one task for every branch.
BranchTasks == [btype : {"jmp"}, start : Addr, vip : BranchVips]

LEMMA BranchFields == BranchTasks \subseteq QueuedTasks
BY BuilderAssumption DEF BranchTasks, QueuedTasks

LEMMA JmpQueues ==
  ASSUME BuilderInv, JmpOp
  PROVE  \E q \in Seq(BranchTasks) : anaQueue' = anaQueue \o q
<1> DEFINE behind == code[Current.addrs[Len(Current.addrs)]].succ
           next   == Replay(idx + 1, Len(Current.addrs) + 1)
           inside == next <= idx + Len(Current.contexts)
           where  == IF inside THEN {traceList[next]} ELSE behind
<1>1. Executes({"jmp"})
  BY DEF JmpOp
<1>2. PICK branches \in SUBSET BranchVips : \E start \in [branches -> where] :
          LET order == CHOOSE f \in [1..Cardinality(branches) -> branches] :
                         \A v \in branches : \E i \in DOMAIN f : f[i] = v
          IN  anaQueue' = anaQueue \o
                [i \in DOMAIN order |-> Task("jmp", start[order[i]], order[i])]
  BY DEF JmpOp
<1>2a. PICK start \in [branches -> where] :
          LET order == CHOOSE f \in [1..Cardinality(branches) -> branches] :
                         \A v \in branches : \E i \in DOMAIN f : f[i] = v
          IN  anaQueue' = anaQueue \o
                [i \in DOMAIN order |-> Task("jmp", start[order[i]], order[i])]
  BY <1>2
<1> DEFINE order == CHOOSE f \in [1..Cardinality(branches) -> branches] :
                      \A v \in branches : \E i \in DOMAIN f : f[i] = v
           more  == [i \in DOMAIN order |-> Task("jmp", start[order[i]], order[i])]
<1>3. anaQueue' = anaQueue \o more
  BY <1>2a
<1>4. Readable
  BY <1>1, ExecutedFields
<1>5. TraceOK /\ GraphsOK /\ WalkOK /\ TaskOK
  BY DEF BuilderInv
<1>6. where \subseteq Addr
  <2>1. /\ Current.addrs[Len(Current.addrs)] \in Addr /\ idx \in Nat /\ idx < Len(traceList)
        /\ Len(Current.addrs) \in Nat \ {0} /\ Len(traceList) \in Nat
    BY <1>4, <1>5, ReadableFields DEF WalkOK, TraceOK
  <2> HIDE DEF Current
  <2>2. code \in [Addr -> [kind : Kinds, succ : SUBSET Addr]]
    BY <1>5, ProgramAssumption DEF TraceOK
  <2>3. behind \subseteq Addr
    BY <2>1, <2>2
  <2>4. idx + 1 \in Nat \ {0} /\ Len(Current.addrs) + 1 \in Nat \ {0}
        /\ idx + 1 <= Len(traceList) /\ Len(traceList) >= 1
    BY <2>1
  <2>5. traceList[next] \in Addr
    BY <2>4, <1>5, ReplayFields
  <2> HIDE DEF behind, next
  <2> QED
    BY <2>3, <2>5
<1>7. order \in [1..Cardinality(branches) -> branches] /\ Cardinality(branches) \in Nat
  <2>1. IsFiniteSet(branches)
    BY BuilderAssumption, FS_Subset
  <2> QED
    BY <2>1, OrderFields
<1> HIDE DEF order, where
<1>8. more \in Seq(BranchTasks)
  <2>1. \A i \in 1..Cardinality(branches) :
          order[i] \in BranchVips /\ start[order[i]] \in Addr
    BY <1>6, <1>7
  <2>2. \A i \in 1..Cardinality(branches) :
          Task("jmp", start[order[i]], order[i]) \in BranchTasks
    BY <2>1 DEF Task, BranchTasks
  <2>3. DOMAIN order = 1..Cardinality(branches)
    BY <1>7
  <2> QED
    BY <1>7, <2>2, <2>3
<1> QED
  BY <1>3, <1>8

LEMMA JmpOpKeeps ==
  ASSUME BuilderInv, JmpOp
  PROVE  BuilderInv'
<1>1. /\ Executes({"jmp"}) /\ vmreg' = NoRole /\ status' = "found"
      /\ tfg' = tfg /\ saved' = saved
  BY DEF JmpOp
<1>2. Handler /\ NamesOK'
  BY <1>1, ExecutedFields
<1>3. PICK q \in Seq(BranchTasks) : anaQueue' = anaQueue \o q
  BY JmpQueues
<1>4. anaQueue \in Seq(QueuedTasks) /\ q \in Seq(QueuedTasks)
  BY <1>3, BranchFields DEF BuilderInv, TaskOK
<1>5. anaQueue' \in Seq(QueuedTasks)
  BY <1>3, <1>4
<1> QED
  BY <1>1, <1>2, <1>5, OpKeeps

LEMMA ExitCallOpKeeps ==
  ASSUME BuilderInv, ExitCallOp
  PROVE  BuilderInv'
<1>1. PICK a \in Entries : Begin([task EXCEPT !.btype = "check", !.start = a], EmptyGraph)
  BY DEF ExitCallOp
<1> DEFINE t == [task EXCEPT !.btype = "check", !.start = a]
<1>2. /\ Readable /\ Inst.op = "exit" /\ saved' = tfg /\ Remember
      /\ EnterBlock(Inst.addr, Vip(idx + 1)) /\ vmreg' = Selected /\ anaQueue' = anaQueue
  BY DEF ExitCallOp, Readable
<1>3. TraceOK /\ GraphsOK /\ WalkOK /\ TaskOK /\ CacheOK /\ NamesOK
  BY DEF BuilderInv
<1>4. /\ does' = does /\ functions' = functions /\ task' = t /\ status' = "trace"
  BY <1>1 DEF Begin
<1>5. status = "FINISH_VM_INIT" /\ Current.addrs[1] \in Addr
  BY <1>2, <1>3, ReadableFields
<1>6. task \in RunningTasks /\ task.vip # 0 /\ a \in Addr
  BY <1>3, <1>5, ProgramAssumption DEF TaskOK, Running
<1>7. t \in RunningTasks /\ t.start = a /\ t.vip # 0 /\ t.btype = "check"
  BY <1>6 DEF RunningTasks
<1> HIDE DEF t
<1>8. TraceOK' /\ GraphsOK' /\ WalkOK' /\ Len(traceList') = 1
  BY <1>1, <1>2, <1>6, <1>7, EmptyBacked, BeginKeeps DEF t
<1>9. CacheOK'
  BY <1>2, <1>4, RememberKeeps
<1>10. Selected \in Roles \cup {NoRole}
  BY <1>2, <1>3, PatternFields
<1>11. Inst.addr[1] \in Addr
  BY <1>2, <1>5, NoInstructionOp, InstFields
<1> HIDE DEF Inst, Selected
<1>12. NamesOK'
  BY <1>2, <1>3, <1>11, EnterKeeps
<1>13. TaskOK'
  BY <1>2, <1>3, <1>4, <1>7, <1>8, <1>10 DEF TaskOK, Running, Ended
<1> QED
  BY <1>8, <1>9, <1>12, <1>13 DEF BuilderInv


LEMMA StepKeeps ==
  ASSUME BuilderInv, [BuilderNext]_allVars
  PROVE  BuilderInv'
<1>1. ASSUME UNCHANGED allVars PROVE BuilderInv'
  <2>1. /\ code' = code /\ traceList' = traceList /\ flowIdx' = flowIdx /\ tfg' = tfg
        /\ does' = does /\ functions' = functions /\ anaQueue' = anaQueue
        /\ visited' = visited /\ blockVip' = blockVip
        /\ handlerPatternMap' = handlerPatternMap /\ task' = task /\ saved' = saved
        /\ status' = status /\ attempt' = attempt /\ nodeInput' = nodeInput
        /\ idx' = idx /\ curNodeSize' = curNodeSize /\ vmreg' = vmreg
        /\ curBlock' = curBlock
    BY <1>1 DEF allVars, vars, builderVars, walker
  <2>2. TraceOK' /\ GraphsOK' /\ TaskOK'
    BY <2>1 DEF BuilderInv, TraceOK, GraphsOK, TaskOK
  <2>3. NamesOK' /\ CacheOK'
    BY <2>1 DEF BuilderInv, NamesOK, CacheOK, Says
  <2>4. WalkOK'
    BY <2>1 DEF BuilderInv, WalkOK, NoRepeats
  <2> QED
    BY <2>2, <2>3, <2>4 DEF BuilderInv
<1>2. CASE NewFunction
  BY <1>2, NewFunctionKeeps
<1>3. CASE BuildVmpBlock
  BY <1>3, BuildVmpBlockKeeps
<1>4. CASE TraceStep
  BY <1>4, TraceStepKeeps
<1>5. CASE Execute_FIND_VM_INIT
  BY <1>5, FindFirstKeeps, FindNextKeeps, FindEndsKeeps, CheckAcceptsKeeps
     DEF Execute_FIND_VM_INIT
<1>6. CASE WalkEnds \/ AnaVmpHandlerThrows
  <2>1. /\ WalkFrame /\ QuietFrame /\ UNCHANGED <<saved, attempt, nodeInput, walker>>
        /\ tfg' \in {tfg, saved} /\ status' \in Ended
    BY <1>6 DEF WalkEnds, AnaVmpHandlerThrows, Ended
  <2> QED
    BY <2>1, StopKeeps
<1>7. CASE SkipHandler \/ ReachVisited \/ PlainOp \/ ExitOp
  BY <1>7, QuietOpKeeps, PlainOpKeeps
<1>8. CASE JmpConstOp \/ JmpOp \/ ExitCallOp
  BY <1>8, JmpConstOpKeeps, JmpOpKeeps, ExitCallOpKeeps
<1>9. BuilderNext \/ UNCHANGED allVars
  OBVIOUS
<1> QED
  BY <1>1, <1>2, <1>3, <1>4, <1>5, <1>6, <1>7, <1>8, <1>9
     DEF BuilderNext, Execute_FINISH_VM_INIT

LEMMA BuilderInvariance == BuilderSpec => []BuilderInv
<1>1. BuilderInv /\ [BuilderNext]_allVars => BuilderInv'
  BY StepKeeps
<1> QED
  BY InitBuilder, <1>1, PTL DEF BuilderSpec

\* Whatever the programs and the handlers are, and however many tasks of however
\* many functions run: the walker stays inside the trace, every task queued
\* starts at an address, and every pattern cached is one an analysis finds.
THEOREM BuilderTypeCorrect == BuilderSpec => []BuilderTypeOK
<1>1. BuilderInv => BuilderTypeOK
  <2> SUFFICES ASSUME BuilderInv PROVE BuilderTypeOK
    OBVIOUS
  <2>1. does \in [Addr -> [op : Marks, role : Roles]] /\ functions \in 0..MaxFunctions
    BY BuilderAssumption DEF BuilderInv, TaskOK
  <2>2. \A i \in DOMAIN anaQueue : anaQueue[i].btype \in {"entry", "jmp"}
                                   /\ anaQueue[i].start \in Addr
    <3>1. \A i \in DOMAIN anaQueue : anaQueue[i] \in QueuedTasks
      BY DEF BuilderInv, TaskOK
    <3> QED
      BY <3>1 DEF QueuedTasks
  <2>3. /\ \A name \in visited : name[1] \in Addr
        /\ DOMAIN blockVip = visited /\ curBlock \in visited \cup {NoName}
    BY DEF BuilderInv, NamesOK
  <2>4. \A range \in DOMAIN handlerPatternMap :
          range \in Addr \X Addr /\ handlerPatternMap[range] \in Patterns
    BY DEF BuilderInv, CacheOK, Says
  <2>5. /\ task.btype \in {"none", "entry", "jmp", "check"}
        /\ status \in Running \cup Ended /\ vmreg \in Roles \cup {NoRole}
    BY DEF BuilderInv, TaskOK, RunningTasks
  <2>6. /\ attempt \in 0..(InitAttempts + 1) /\ nodeInput \in Nodes
        /\ idx \in Nat /\ curNodeSize \in Nat /\ idx + curNodeSize <= Len(traceList)
        /\ Len(traceList) \in Nat /\ Len(traceList) <= MaxTrace /\ MaxTrace \in Nat
    BY ProgramAssumption DEF BuilderInv, WalkOK, TraceOK
  <2>7. idx \in 0..MaxTrace
    BY <2>6
  <2> QED
    BY <2>1, <2>2, <2>3, <2>4, <2>5, <2>6, <2>7 DEF BuilderTypeOK
<1> QED
  BY BuilderInvariance, <1>1, PTL

----------------------------------------------------------------------------
(* The second emulation.                                                   *)

\* A task queued behind a VM_INIT or a VM_JMP_CONST starts where the walk
\* stopped, as long as no instruction before it was repeated and the trace goes
\* on: the emulation counts addresses, the walk contexts, and where nothing
\* repeats there is one of the one for each of the other.
THEOREM ReplayReachesNextCorrect == BuilderSpec => ReplayReachesNext
<1> DEFINE Queued(q) == /\ q.start = traceList[idx' + 1]
                        /\ q.vip = Vip(idx' + 1)
           Hyp == /\ status' = "found" /\ Len(anaQueue') = Len(anaQueue) + 1
                  /\ \/ status = "match" /\ task.btype = "entry"
                     \/ status = "FINISH_VM_INIT" /\ Inst.op = "jmpconst"
                  /\ idx' < Len(traceList) /\ NoRepeats(idx')
           Step == Hyp => Queued(anaQueue'[Len(anaQueue')])
<1>1. ASSUME BuilderInv, BuilderNext, Hyp
      PROVE  Queued(anaQueue'[Len(anaQueue')])
  <2>0. TraceOK /\ GraphsOK /\ TaskOK /\ WalkOK /\ Len(traceList) \in Nat
    BY <1>1 DEF BuilderInv, TraceOK
  <2>1. /\ status' = "found" /\ Len(anaQueue') = Len(anaQueue) + 1
        /\ Len(anaQueue) \in Nat /\ anaQueue' # anaQueue
        /\ idx' < Len(traceList) /\ NoRepeats(idx')
    <3>1. Len(anaQueue) \in Nat
      BY <2>0 DEF TaskOK
    <3> QED
      BY <1>1, <3>1
  <2>2. FindEnds \/ JmpConstOp
    BY <1>1, <2>1 DEF BuilderNext, Execute_FIND_VM_INIT, Execute_FINISH_VM_INIT,
         NewFunction, BuildVmpBlock, TraceStep, FindFirst, FindNext, CheckAccepts,
         WalkEnds, SkipHandler, ReachVisited, PlainOp, JmpOp, ExitOp, ExitCallOp,
         AnaVmpHandlerThrows, QuietFrame, Handler, Executes, AtHandler, Begin,
         NotFound, Overread, Ended
  <2>3. PICK n \in Nat \ {0} :
          /\ status \in Running /\ n = idx' + 1 /\ idx' \in Nat
          /\ anaQueue' = Append(anaQueue, Task("jmp", traceList[Replay(1, n)],
                                               Vip(Replay(1, n))))
    <3>1. CASE FindEnds
      <4>1. /\ status = "match" /\ idx' = idx + curNodeSize
            /\ \/ anaQueue' = anaQueue
               \/ anaQueue' = Append(anaQueue,
                    Task("jmp", traceList[Replay(1, Len(nodeInput.addrs) + 1)],
                         Vip(Replay(1, Len(nodeInput.addrs) + 1))))
        BY <3>1 DEF FindEnds
      <4>2. idx \in Nat /\ curNodeSize \in Nat
        BY <2>0 DEF WalkOK
      <4>3. NoRepeats(idx + curNodeSize)
        BY <2>1, <4>1
      <4>4. Len(nodeInput.addrs) = idx + curNodeSize
        BY <2>0, <4>1, <4>3 DEF WalkOK
      <4> QED
        BY <2>1, <4>1, <4>2, <4>4 DEF Running
    <3>2. CASE JmpConstOp
      <4>1. /\ Readable /\ status = "FINISH_VM_INIT"
            /\ idx' = idx + Len(Current.contexts)
            /\ anaQueue' = Append(anaQueue,
                 Task("jmp", traceList[Replay(1, idx + Len(Current.addrs) + 1)],
                      Vip(Replay(1, idx + Len(Current.addrs) + 1))))
        BY <3>2 DEF JmpConstOp, Executes, Handler, MoveToNext, Readable, AtHandler
      <4>2. idx \in Nat /\ idx < Len(traceList) /\ Len(Current.contexts) \in Nat
        BY <2>0, <4>1, ReadableFields DEF WalkOK
      <4>3. NoRepeats(idx + Len(Current.contexts)) =>
              Len(Current.addrs) = Len(Current.contexts)
        BY <2>0, <4>2, NextFields DEF Current
      <4>4. NoRepeats(idx + Len(Current.contexts))
        BY <2>1, <4>1
      <4>5. /\ idx + Len(Current.addrs) + 1 = idx' + 1 /\ idx' \in Nat
            /\ idx' + 1 \in Nat \ {0} /\ status \in Running
        <5> DEFINE x == Len(Current.addrs)
                   y == Len(Current.contexts)
        <5>1. x = y /\ y \in Nat /\ idx \in Nat /\ idx' = idx + y
          BY <4>1, <4>2, <4>3, <4>4
        <5> HIDE DEF x, y
        <5>2. idx + x + 1 = idx' + 1 /\ idx' \in Nat /\ idx' + 1 \in Nat \ {0}
          BY <5>1
        <5> QED
          BY <4>1, <5>2 DEF x, Running
      <4> HIDE DEF Current
      <4> QED
        BY <4>1, <4>5
    <3> QED
      BY <2>2, <3>1, <3>2
  <2>4. Replay(1, n) = n
    BY <2>0, <2>1, <2>3 DEF Replay
  <2>5. anaQueue'[Len(anaQueue')] = Task("jmp", traceList[n], Vip(n))
    BY <1>1, <2>3, <2>4, SuccessorFields
  <2> QED
    BY <2>3, <2>5 DEF Task
<1>2. BuilderInv /\ [BuilderNext]_allVars => [Step]_allVars
  BY <1>1
<1>3. [Step]_allVars => [status' = "found" /\ Len(anaQueue') = Len(anaQueue) + 1
       /\ \/ status = "match" /\ task.btype = "entry"
          \/ status = "FINISH_VM_INIT" /\ Inst.op = "jmpconst"
       /\ idx' < Len(traceList) /\ NoRepeats(idx') =>
     LET queued == anaQueue'[Len(anaQueue')]
     IN  queued.start = traceList[idx' + 1] /\ queued.vip = Vip(idx' + 1)]_allVars
  BY Zenon
<1> QED
  BY BuilderInvariance, <1>2, <1>3, PTL DEF BuilderSpec, ReplayReachesNext


----------------------------------------------------------------------------
(* What the contexts of a node are, while the index names every place.     *)

\* Pieces of a sequence.
LEMMA SubSeqIs ==
  ASSUME NEW s \in Seq(Addr), NEW i \in Nat \ {0}, NEW h \in Nat, h <= Len(s), i <= h
  PROVE  /\ SubSeq(s, i, h) \in Seq(Addr) /\ Len(SubSeq(s, i, h)) = h - i + 1
         /\ \A k \in 1..(h - i + 1) : SubSeq(s, i, h)[k] = s[i + k - 1]
OBVIOUS

LEMMA SubSeqJoin ==
  ASSUME NEW s \in Seq(Addr), NEW e \in Nat, NEW h \in Nat, e <= h, h <= Len(s)
  PROVE  SubSeq(s, 1, e) \o SubSeq(s, e + 1, h) = SubSeq(s, 1, h)
OBVIOUS

\* The steps of a stretch, one position at a time.
LEMMA StepsGrow ==
  ASSUME NEW i \in Nat \ {0}, NEW m \in Nat, i <= m
  PROVE  /\ IsFiniteSet(Steps(i, m)) /\ Cardinality(Steps(i, m)) \in Nat
         /\ Cardinality(Steps(i, i)) = 1
         /\ traceList[m + 1] = traceList[m] =>
              Cardinality(Steps(i, m + 1)) = Cardinality(Steps(i, m))
         /\ traceList[m + 1] # traceList[m] =>
              Cardinality(Steps(i, m + 1)) = Cardinality(Steps(i, m)) + 1
<1>1. IsFiniteSet(i..m)
  BY FS_Interval
<1>2. Steps(i, m) \subseteq i..m
  BY DEF Steps
<1>3. IsFiniteSet(Steps(i, m)) /\ Cardinality(Steps(i, m)) \in Nat
  BY <1>1, <1>2, FS_Subset, FS_CardinalityType
<1>4. Steps(i, i) = {i}
  BY DEF Steps
<1>5. Cardinality(Steps(i, i)) = 1
  BY <1>4, FS_Singleton
<1>6. m + 1 \notin Steps(i, m)
  BY <1>2
<1>7. traceList[m + 1] = traceList[m] => Steps(i, m + 1) = Steps(i, m)
  BY DEF Steps
<1>8. traceList[m + 1] # traceList[m] => Steps(i, m + 1) = Steps(i, m) \cup {m + 1}
  BY DEF Steps
<1>9. Cardinality(Steps(i, m) \cup {m + 1}) = Cardinality(Steps(i, m)) + 1
  BY <1>3, <1>6, FS_AddElement
<1> QED
  BY <1>3, <1>5, <1>7, <1>8, <1>9

LEMMA StepsMono ==
  ASSUME NEW i \in Nat \ {0}, NEW m \in Nat, NEW h \in Nat, i <= m, m <= h
  PROVE  Cardinality(Steps(i, m)) <= Cardinality(Steps(i, h))
<1>1. Steps(i, m) \subseteq Steps(i, h)
  BY DEF Steps
<1>2. IsFiniteSet(Steps(i, h))
  BY StepsGrow
<1> QED
  BY <1>1, <1>2, FS_Subset

\* A block read from an address on, when every place is right.
LEMMA BlockFromIs ==
  ASSUME GraphsOK, MapsAgree, NEW a \in DOMAIN tfg.instructionToNodeMap,
         NEW c \in 1..Len(BlockFrom(a))
  PROVE  LET at   == tfg.instructionToNodeMap[a]
             b    == BlockFrom(a)[c]
         IN  /\ BlockFrom(a)[1] = a
             /\ b \in DOMAIN tfg.instructionToNodeMap
             /\ tfg.instructionToNodeMap[b].vmNode = at.vmNode
             /\ tfg.instructionToNodeMap[b].index = at.index + c - 1
             /\ IsTail(tfg, b) <=> c = Len(BlockFrom(a))
             /\ c < Len(BlockFrom(a)) =>
                  tfg.nodeMap[at.vmNode][at.index + c - 1 + 1] = BlockFrom(a)[c + 1]
<1> DEFINE im   == tfg.instructionToNodeMap
           at   == im[a]
           list == tfg.nodeMap[at.vmNode]
           b    == BlockFrom(a)[c]
           k    == at.index
           L    == Len(BlockFrom(a))
<1>1. /\ at.vmNode \in DOMAIN tfg.nodeMap /\ list \in Seq(Addr)
      /\ k \in Nat \ {0} /\ k <= Len(list) /\ list[k] = a
  BY HeldAt DEF GraphsOK, Backed, MapsAgree, IndexNamesInstruction
<1>2. BlockFrom(a) = SubSeq(list, k, Len(list))
  BY DEF BlockFrom
<1>3. \A j \in 1..Len(list) :
        list[j] \in DOMAIN im /\ im[list[j]] = [vmNode |-> at.vmNode, index |-> j]
  BY <1>1 DEF MapsAgree, BlocksIndexed
<1> HIDE DEF im, list, k
<1>4. /\ L = Len(list) - k + 1 /\ Len(list) \in Nat
      /\ \A j \in 1..(Len(list) - k + 1) : BlockFrom(a)[j] = list[k + j - 1]
  BY <1>1, <1>2
<1>5. /\ b = list[k + c - 1] /\ k + c - 1 \in 1..Len(list) /\ c \in Nat \ {0}
      /\ BlockFrom(a)[1] = list[k]
  BY <1>1, <1>4
<1>6. b \in DOMAIN im /\ im[b] = [vmNode |-> at.vmNode, index |-> k + c - 1]
  BY <1>3, <1>5
<1>7. IsTail(tfg, b) <=> k + c - 1 = Len(list)
  BY <1>6 DEF IsTail, list, im
<1>8. k + c - 1 = Len(list) <=> c = L
  BY <1>1, <1>4, <1>5
<1>9. c < L => list[k + c - 1 + 1] = BlockFrom(a)[c + 1]
  <2> SUFFICES ASSUME c < L PROVE list[k + c - 1 + 1] = BlockFrom(a)[c + 1]
    OBVIOUS
  <2>1. c + 1 \in 1..(Len(list) - k + 1)
    BY <1>1, <1>4, <1>5
  <2>2. k + (c + 1) - 1 = k + c - 1 + 1
    BY <1>1, <1>5
  <2> QED
    BY <2>1, <2>2, <1>4
<1>10. im[b].vmNode = at.vmNode /\ im[b].index = k + c - 1
  BY <1>6
<1>11. IsTail(tfg, b) <=> c = L
  BY <1>7, <1>8
<1>12. BlockFrom(a)[1] = a /\ b \in DOMAIN im
  BY <1>1, <1>5, <1>6
<1> HIDE DEF b, L
<1> QED
  BY <1>9, <1>10, <1>11, <1>12 DEF im, list, k, b, L


\* The trace and the block go on together for as long as the block lasts, in
\* what of the trace has been linked.
LEMMA WalkAlong ==
  ASSUME TraceOK, GraphsOK, MapsAgree, TraceFollowsBlocks,
         NEW i \in 1..Len(traceList), NEW h \in i..Len(traceList), h <= flowIdx,
         traceList[i] \in DOMAIN tfg.instructionToNodeMap,
         Cardinality(Steps(i, h)) <= Len(BlockFrom(traceList[i])), NEW m \in i..h
  PROVE  /\ Cardinality(Steps(i, m)) \in 1..Len(BlockFrom(traceList[i]))
         /\ BlockFrom(traceList[i])[Cardinality(Steps(i, m))] = traceList[m]
<1> DEFINE addrs == BlockFrom(traceList[i])
           L     == Len(addrs)
           n(j)  == Cardinality(Steps(i, j))
           P(j)  == n(j) \in 1..L /\ addrs[n(j)] = traceList[j]
           Bad   == {j \in i..h : ~ P(j)}
<1>1. /\ traceList \in Seq(Addr) /\ Len(traceList) \in Nat /\ i \in Nat \ {0}
      /\ addrs \in Seq(Addr) /\ L \in Nat \ {0} /\ h \in Nat /\ h <= Len(traceList)
  BY BlockFromFields DEF TraceOK
<1>2. P(i)
  <2>1. n(i) = 1
    BY <1>1, StepsGrow
  <2>2. 1 \in 1..L
    BY <1>1
  <2>3. addrs[1] = traceList[i]
    BY <2>2, BlockFromIs
  <2> QED
    BY <2>1, <2>2, <2>3
<1>3. ASSUME NEW j \in i..h, j + 1 \in i..h, P(j) PROVE P(j + 1)
  <2>1. j \in Nat \ {0} /\ i <= j /\ j + 1 <= h
    BY <1>1, <1>3
  <2>2. /\ n(j) \in Nat
        /\ traceList[j + 1] = traceList[j] => n(j + 1) = n(j)
        /\ traceList[j + 1] # traceList[j] => n(j + 1) = n(j) + 1
    BY <2>1, <1>1, StepsGrow
  <2>3. n(j + 1) <= n(h)
    BY <2>1, <1>1, StepsMono
  <2>4. n(h) <= L /\ n(h) \in Nat
    BY <1>1, StepsGrow
  <2>5. CASE traceList[j + 1] = traceList[j]
    BY <2>2, <2>5, <1>3
  <2>6. CASE traceList[j + 1] # traceList[j]
    <3> DEFINE c == n(j)
    <3>1. n(j + 1) = c + 1 /\ c \in 1..L /\ addrs[c] = traceList[j]
      BY <2>2, <2>6, <1>3
    <3>2. c + 1 <= L
      <4>1. c \in Nat /\ n(j + 1) = c + 1
        BY <3>1, <2>2
      <4> HIDE DEF c, n, L
      <4> QED
        BY <4>1, <2>3, <2>4, <1>1
    <3>3. j \in Linked
      <4>1. flowIdx \in Nat /\ j \in 1..(flowIdx - 1)
        BY <1>1, <2>1 DEF TraceOK
      <4> QED
        BY <4>1, <2>6 DEF Linked
    <3>4. \/ Follows(traceList[j], traceList[j + 1])
          \/ IsTail(tfg, traceList[j])
      BY <3>3 DEF TraceFollowsBlocks
    <3> DEFINE at == tfg.instructionToNodeMap[traceList[i]]
               me == tfg.instructionToNodeMap[traceList[j]]
    <3>5. /\ me.vmNode = at.vmNode /\ me.index = at.index + c - 1
          /\ IsTail(tfg, traceList[j]) <=> c = L
          /\ c < L => tfg.nodeMap[at.vmNode][at.index + c - 1 + 1] = addrs[c + 1]
      <4> DEFINE b == addrs[c]
                 mb == tfg.instructionToNodeMap[b]
      <4>1. /\ mb.vmNode = at.vmNode /\ mb.index = at.index + c - 1
            /\ IsTail(tfg, b) <=> c = L
            /\ c < L => tfg.nodeMap[at.vmNode][at.index + c - 1 + 1] = addrs[c + 1]
        BY <3>1, BlockFromIs
      <4>2. b = traceList[j]
        BY <3>1
      <4> HIDE DEF b, c, n, addrs, at
      <4> QED
        BY <4>1, <4>2
    <3> HIDE DEF c, n, L, addrs
    <3>6. c < L /\ c # L
      BY <3>1, <3>2, <1>1
    <3>7. tfg.nodeMap[me.vmNode][me.index + 1] = traceList[j + 1]
      BY <3>4, <3>5, <3>6 DEF Follows
    <3>8. addrs[c + 1] = traceList[j + 1]
      BY <3>5, <3>6, <3>7
    <3>9. c + 1 \in 1..L
      BY <3>1, <3>2, <1>1
    <3> QED
      BY <3>1, <3>8, <3>9
  <2> QED
    BY <2>5, <2>6
<1> HIDE DEF P
<1>4. Bad = {}
  <2> SUFFICES ASSUME Bad # {} PROVE FALSE
    OBVIOUS
  <2>1. Bad \in SUBSET Nat
    BY <1>1
  <2> DEFINE b == Least(Bad)
  <2>2. b \in Bad /\ \A y \in Bad : b <= y
    BY <2>1, LeastIs
  <2> HIDE DEF b
  <2>3. b \in i..h /\ ~ P(b) /\ b # i
    BY <2>2, <1>2
  <2>4. b - 1 \in i..h /\ b - 1 + 1 = b /\ ~ (b <= b - 1)
    BY <2>3, <1>1
  <2>5. P(b - 1)
    BY <2>2, <2>4
  <2>6. P(b - 1 + 1)
    BY <2>3, <2>4, <2>5, <1>3
  <2> QED
    BY <2>3, <2>4, <2>6
<1>5. P(m)
  BY <1>4
<1> QED
  BY <1>5 DEF P


\* On a graph whose index names every place, and which describes the trace, the
\* contexts a handler is given are those of its block's instructions, one after
\* the other: MakeInstruction reads the registers of the very instructions the
\* pattern names.  Whether the index is right is the graph's part: for a first
\* trace it always is (MapsAgreeCorrect), for a later one it need not be.
THEOREM ContextsMatchCorrect == BuilderSpec => [](MapsAgree => ContextsMatch)
<1>1. ASSUME BuilderInv, MapsAgree PROVE ContextsMatch
  <2> SUFFICES ASSUME AtHandler, Described, ~ Current.overread, Current.addrs # <<>>
               PROVE  Spells(idx + 1, idx + Len(Current.contexts), Current.addrs)
    BY DEF ContextsMatch
  <2> DEFINE i == idx + 1
             n == Len(Current.contexts)
             h == idx + n
             addrs == Current.addrs
  <2>1. TraceOK /\ GraphsOK /\ WalkOK /\ Readable
    BY <1>1 DEF BuilderInv, Readable
  <2>2. /\ ReadAt(Current, i) /\ n \in Nat \ {0} /\ h <= Len(traceList)
        /\ idx \in Nat /\ Len(traceList) \in Nat
    BY <2>1, ReadableFields DEF WalkOK, TraceOK
  <2>3. /\ i \in 1..Len(traceList) /\ addrs = BlockFrom(traceList[i])
        /\ traceList[i] \in DOMAIN tfg.instructionToNodeMap
    BY <2>2 DEF ReadAt
  <2>4. Cardinality(Steps(i, i + n - 1)) = Len(addrs)
    BY <2>1, <2>2, ReadFields
  <2> HIDE DEF n, addrs
  <2>5. i + n - 1 = h /\ h \in i..Len(traceList)
    BY <2>2
  <2>6. Cardinality(Steps(i, h)) = Len(addrs)
    BY <2>4, <2>5
  <2> HIDE DEF i, h
  <2>7. ASSUME NEW k \in Steps(i, h)
        PROVE  addrs[Cardinality(Steps(i, k))] = traceList[k]
    <3>1. k \in i..h
      BY DEF Steps
    <3>2. Cardinality(Steps(i, h)) <= Len(BlockFrom(traceList[i]))
      <4>1. Len(addrs) \in Nat
        BY <2>1, <2>3, BlockFromFields
      <4> QED
        BY <4>1, <2>3, <2>6
    <3> QED
      BY <1>1, <2>1, <2>3, <2>5, <3>1, <3>2, WalkAlong DEF Described
  <2> QED
    BY <2>6, <2>7 DEF Spells, i, h, n, addrs
<1> QED
  BY BuilderInvariance, <1>1, PTL


\* Where a node is cut off, the trace ends inside its block.
LEMMA CutIs ==
  ASSUME TraceOK, GraphsOK, MapsAgree, Described,
         NEW node, NEW i \in 1..Len(traceList), CutOff(node, i)
  PROVE  ~ IsTail(tfg, traceList[Len(traceList)])
<1> DEFINE addrs == BlockFrom(traceList[i])
           L     == Len(addrs)
           top   == Len(traceList)
           n(j)  == Cardinality(Steps(i, j))
           Bad   == {j \in i..top : ~ (n(j) < L)}
<1>1. /\ traceList \in Seq(Addr) /\ top \in Nat /\ i \in Nat \ {0}
      /\ traceList[i] \in DOMAIN tfg.instructionToNodeMap /\ Sizes(i, addrs) = {}
  BY DEF TraceOK, CutOff
<1>2. addrs \in Seq(Addr) /\ L \in Nat \ {0}
  BY <1>1, BlockFromFields
<1>3. ASSUME NEW j \in i..top PROVE n(j) # L /\ n(j) \in Nat
  <2>1. j - i + 1 \in 1..(top - i + 1) /\ i + (j - i + 1) - 1 = j /\ i <= j /\ j \in Nat
    BY <1>1
  <2>2. j - i + 1 \notin Sizes(i, addrs)
    BY <1>1
  <2>3. n(j) # L
    BY <2>1, <2>2 DEF Sizes
  <2> QED
    BY <2>1, <2>3, <1>1, StepsGrow
<1> HIDE DEF addrs, L
<1>4. Bad = {}
  <2> SUFFICES ASSUME Bad # {} PROVE FALSE
    OBVIOUS
  <2>1. Bad \in SUBSET Nat
    BY <1>1
  <2> DEFINE b == Least(Bad)
  <2>2. b \in Bad /\ \A y \in Bad : b <= y
    BY <2>1, LeastIs
  <2> HIDE DEF b
  <2>3. b \in i..top /\ ~ (n(b) < L)
    BY <2>2
  <2>4. n(i) = 1 /\ i \in i..top /\ n(i) # L
    BY <1>1, <1>3, StepsGrow
  <2>5. n(i) < L
    BY <2>4, <1>2
  <2>6. b # i
    BY <2>3, <2>5
  <2>7. b - 1 \in i..top /\ b - 1 + 1 = b /\ ~ (b <= b - 1)
    BY <2>3, <2>6, <1>1
  <2>8. n(b - 1) < L /\ n(b - 1) \in Nat
    BY <2>2, <2>7, <1>3
  <2>9. n(b - 1 + 1) = n(b - 1) \/ n(b - 1 + 1) = n(b - 1) + 1
    BY <2>7, <1>1, StepsGrow
  <2>10. n(b) # L /\ n(b) \in Nat
    BY <2>3, <1>3
  <2>11. n(b) = n(b - 1) \/ n(b) = n(b - 1) + 1
    BY <2>7, <2>9
  <2> DEFINE x == n(b)
             y == n(b - 1)
  <2>12. x # L /\ x \in Nat /\ y \in Nat /\ y < L /\ (x = y \/ x = y + 1) /\ ~ (x < L)
    BY <2>3, <2>8, <2>10, <2>11
  <2> HIDE DEF x, y, n
  <2> QED
    BY <2>12, <1>2
<1>5. n(top) < L /\ top \in i..top /\ n(top) \in Nat
  BY <1>1, <1>3, <1>4
<1> DEFINE c == n(top)
<1>6. c \in 1..L /\ addrs[c] = traceList[top]
  <2>1. Cardinality(Steps(i, top)) <= Len(BlockFrom(traceList[i]))
    BY <1>2, <1>5 DEF L, addrs
  <2> QED
    BY <2>1, <1>1, <1>5, WalkAlong DEF L, addrs, Described
<1>7. IsTail(tfg, addrs[c]) <=> c = L
  BY <1>1, <1>6, BlockFromIs DEF L, addrs
<1> HIDE DEF c, n
<1>8. c # L
  BY <1>2, <1>5 DEF c
<1> QED
  BY <1>6, <1>7, <1>8


\* A push key goes on to the call behind it, never to itself.
PushKeyMovesOn ==
  \A p \in Programs : \A d \in Handlers : \A a \in Addr :
    d[a].op = "pushkey" => a \notin p[a].succ

\* What a push key and a call of the whole trace are.
LEMMA KeyIs ==
  ASSUME PushKeyMovesOn, BuilderInv, MapsAgree, Described, NEW node, ReadAt(node, 1),
         isVmPushKey(node.addrs), Len(node.contexts) = Len(traceList)
  PROVE  isVmPushKey(traceList)
<1> DEFINE n     == Len(node.contexts)
           addrs == node.addrs
<1>1. /\ TraceOK /\ GraphsOK /\ TaskOK /\ traceList \in Seq(Addr)
      /\ Len(traceList) \in Nat /\ code \in Programs /\ does \in Handlers
  BY DEF BuilderInv, TraceOK, TaskOK
<1>2. /\ n \in Nat \ {0} /\ n = Len(traceList) /\ 1 \in 1..Len(traceList)
      /\ addrs = BlockFrom(traceList[1]) /\ n \in Sizes(1, addrs)
      /\ traceList[1] \in DOMAIN tfg.instructionToNodeMap
      /\ \A m \in Sizes(1, addrs) : n <= m
  BY <1>1, ReadFields DEF ReadAt
<1>3. /\ Len(addrs) = 2 /\ does[addrs[1]].op = "pushkey" /\ code[addrs[2]].kind = "call"
  BY DEF isVmPushKey
<1>4. addrs[1] = traceList[1]
  <2>1. 1 \in 1..Len(BlockFrom(traceList[1]))
    BY <1>2, <1>3
  <2> QED
    BY <2>1, <1>1, <1>2, BlockFromIs
<1>5. Cardinality(Steps(1, 1 + n - 1)) = 2
  BY <1>2, <1>3 DEF Sizes
<1> HIDE DEF n, addrs
<1>6. Cardinality(Steps(1, n)) = 2
  <2>1. 1 + n - 1 = n
    BY <1>2
  <2> QED
    BY <1>5, <2>1
<1>7. n >= 2
  <2>1. Cardinality(Steps(1, 1)) = 1
    BY StepsGrow
  <2>2. n # 1
    BY <1>6, <2>1
  <2> QED
    BY <1>2, <2>2
<1>8. traceList[2] # traceList[1]
  <2>1. 1 \in 1..(Len(traceList) - 1) /\ traceList[1] \in Addr
    BY <1>1, <1>2, <1>7
  <2>2. traceList[1 + 1] \in code[traceList[1]].succ
    BY <2>1, <1>1 DEF TraceOK, Walked
  <2>3. traceList[1] \notin code[traceList[1]].succ
    BY <2>1, <1>1, <1>3, <1>4 DEF PushKeyMovesOn
  <2> QED
    BY <2>2, <2>3
<1>9. Cardinality(Steps(1, 2)) = 2
  <2>1. /\ Cardinality(Steps(1, 1)) = 1
        /\ traceList[1 + 1] # traceList[1] =>
             Cardinality(Steps(1, 1 + 1)) = Cardinality(Steps(1, 1)) + 1
    BY StepsGrow
  <2> QED
    BY <2>1, <1>8
<1>10. n = 2
  <2>1. 2 \in Sizes(1, addrs)
    BY <1>2, <1>3, <1>7, <1>9 DEF Sizes
  <2> QED
    BY <2>1, <1>2, <1>7
<1>11. addrs[2] = traceList[2]
  <2>1. /\ 2 \in 1..Len(traceList) /\ Cardinality(Steps(1, 2)) <= Len(BlockFrom(traceList[1]))
        /\ 2 \in 1..2
    BY <1>2, <1>3, <1>9, <1>10
  <2>2. BlockFrom(traceList[1])[Cardinality(Steps(1, 2))] = traceList[2]
    BY <2>1, <1>1, <1>2, WalkAlong DEF Described
  <2> QED
    BY <2>2, <1>2, <1>9
<1> QED
  BY <1>2, <1>3, <1>4, <1>10, <1>11 DEF isVmPushKey

\* Where an entry's walk reads too far.
CutOrKey == ~ IsTail(tfg, traceList[Len(traceList)]) \/ isVmPushKey(traceList)

LEMMA FirstCut ==
  ASSUME PushKeyMovesOn, BuilderInv, MapsAgree, Described, FindFirst, status' = "overread"
  PROVE  CutOrKey
<1> DEFINE first == GetNextNode(idx + 1)
           next  == GetNextNode(idx + 1 + Len(first.contexts))
           both  == AppendNode(first, next)
           key   == isVmPushKey(first.addrs)
           n     == Len(first.contexts)
<1>1. /\ status = "FIND_VM_INIT"
      /\ key => both.overread
      /\ ~ key => first.overread
  BY DEF FindFirst, NotFound, Overread
<1>2. /\ TraceOK /\ GraphsOK /\ idx = 0 /\ Len(traceList) \in Nat /\ Len(traceList) >= 1
  BY <1>1 DEF BuilderInv, WalkOK, TraceOK, TaskOK, Running
<1>3. first = GetNextNode(1)
  BY <1>2
<1> HIDE DEF first
<1>4. /\ first \in Nodes
      /\ \/ ReadAt(first, 1) /\ ~ first.overread
         \/ first.addrs = <<>> /\ ~ first.overread
         \/ first.addrs = <<>> /\ CutOff(first, 1)
  BY <1>2, <1>3, NodeFields
<1>5. CASE ~ key
  <2>1. CutOff(first, 1)
    BY <1>1, <1>4, <1>5
  <2>2. 1 \in 1..Len(traceList)
    BY <1>2
  <2> QED
    BY <2>1, <2>2, <1>2, CutIs DEF CutOrKey
<1>6. CASE key
  <2>1. ReadAt(first, 1) /\ ~ first.overread
    <3>1. Len(first.addrs) = 2
      BY <1>6 DEF isVmPushKey
    <3> QED
      BY <3>1, <1>4
  <2>2. n \in Nat \ {0} /\ n <= Len(traceList)
    BY <2>1, <1>2, ReadFields
  <2>3. next = GetNextNode(n + 1)
    BY <1>2, <2>2
  <2> HIDE DEF next, n
  <2>4. /\ next \in Nodes
        /\ next.overread => CutOff(next, n + 1)
    BY <2>2, <2>3, <1>2, NodeFields
  <2>5. next.overread
    BY <1>1, <1>4, <1>6, <2>1, <2>4, AppendNodeFields
  <2>6. CASE n = Len(traceList)
    BY <2>1, <2>6, <1>6, KeyIs DEF CutOrKey, n
  <2>7. CASE n # Len(traceList)
    <3>1. n + 1 \in 1..Len(traceList)
      BY <2>2, <2>7, <1>2
    <3> QED
      BY <3>1, <2>4, <2>5, <1>2, CutIs DEF CutOrKey
  <2> QED
    BY <2>6, <2>7
<1> QED
  BY <1>5, <1>6

LEMMA LaterCut ==
  ASSUME BuilderInv, MapsAgree, Described, FindNext \/ WalkEnds, status' = "overread"
  PROVE  CutOrKey
<1>1. TraceOK /\ GraphsOK /\ WalkOK /\ Len(traceList) \in Nat
  BY DEF BuilderInv, TraceOK
<1>2. PICK i \in 1..Len(traceList) : GetNextNode(i).overread
  <2>1. CASE FindNext
    <3>1. /\ status = "match" /\ ~ (idx + curNodeSize >= Len(traceList))
          /\ GetNextNode(idx + curNodeSize + 1).overread
      BY <2>1 DEF FindNext, NotFound, Overread, IsWalkToEnd
    <3>2. idx + curNodeSize + 1 \in 1..Len(traceList)
      BY <3>1, <1>1 DEF WalkOK
    <3> QED
      BY <3>1, <3>2
  <2>2. CASE WalkEnds
    <3>1. AtHandler /\ GetNextNode(idx + 1).overread
      BY <2>2 DEF WalkEnds, Current
    <3>2. idx + 1 \in 1..Len(traceList)
      BY <3>1, <1>1 DEF AtHandler, IsWalkToEnd, WalkOK
    <3> QED
      BY <3>1, <3>2
  <2> QED
    BY <2>1, <2>2
<1>3. i \in Nat \ {0}
  BY <1>1
<1>4. CutOff(GetNextNode(i), i)
  BY <1>1, <1>2, <1>3, NodeFields
<1> QED
  BY <1>1, <1>4, CutIs DEF CutOrKey

CutInv == status = "overread" => (MapsAgree => OverreadOnlyAtCut)

\* On such a graph a walk reads behind the end of its trace only where the
\* emulation stopped inside a block, or right behind a push key and its call,
\* which FindFirst never checks for.  The one assumption on the program is that
\* a push key is no rep: it leads on.
THEOREM OverreadOnlyAtCutCorrect ==
  ASSUME PushKeyMovesOn
  PROVE  BuilderSpec => [](MapsAgree => OverreadOnlyAtCut)
<1>1. BuilderInit => CutInv
  BY DEF BuilderInit, CutInv
<1>2. ASSUME BuilderInv, CutInv, [BuilderNext]_allVars PROVE CutInv'
  <2> SUFFICES ASSUME status' = "overread" PROVE (MapsAgree => OverreadOnlyAtCut)'
    BY DEF CutInv
  <2>1. CASE UNCHANGED allVars
    <3>1. /\ status' = status /\ tfg' = tfg /\ traceList' = traceList /\ code' = code
          /\ flowIdx' = flowIdx /\ does' = does
      BY <2>1 DEF allVars, vars, builderVars
    <3> QED
      BY <3>1, <1>2 DEF CutInv, MapsAgree, IndexNamesInstruction, BlocksIndexed,
           OverreadOnlyAtCut, Described, TraceFollowsBlocks, Linked, Follows, IsTail,
           IsHead, isVmPushKey
  <2>2. CASE BuilderNext
    <3>1. \/ FindFirst \/ FindNext \/ WalkEnds
      BY <2>2 DEF BuilderNext, Execute_FIND_VM_INIT, Execute_FINISH_VM_INIT,
           NewFunction, BuildVmpBlock, TraceStep, FindEnds, CheckAccepts,
           SkipHandler, ReachVisited, PlainOp, JmpConstOp, JmpOp, ExitOp, ExitCallOp,
           AnaVmpHandlerThrows, Handler, Executes, AtHandler, Begin
    <3>2. /\ tfg' = tfg /\ traceList' = traceList /\ code' = code
          /\ flowIdx' = flowIdx /\ does' = does
      BY <3>1 DEF FindFirst, FindNext, WalkEnds, NotFound, Overread, WalkFrame
    <3>3. MapsAgree /\ Described => CutOrKey
      BY <1>2, <3>1, FirstCut, LaterCut
    <3> QED
      BY <3>2, <3>3 DEF MapsAgree, IndexNamesInstruction, BlocksIndexed, CutOrKey,
           OverreadOnlyAtCut, Described, TraceFollowsBlocks, Linked, Follows, IsTail,
           IsHead, isVmPushKey
  <2> QED
    BY <2>1, <2>2, <1>2
<1>3. CutInv => (MapsAgree => OverreadOnlyAtCut)
  BY DEF CutInv, OverreadOnlyAtCut
<1>4. BuilderInv /\ CutInv /\ [BuilderNext]_allVars => CutInv'
  BY <1>2
<1> QED
  BY BuilderInvariance, <1>1, <1>3, <1>4, PTL DEF BuilderSpec


----------------------------------------------------------------------------
(* The names of the virtual instructions.                                  *)

\* Every number up to the steps of a stretch is that of some shorter one.
LEMMA StepsReach ==
  ASSUME TraceOK, NEW i \in Nat \ {0}, NEW h \in Nat, i <= h,
         NEW c \in 1..Cardinality(Steps(i, h))
  PROVE  \E k \in i..h : Cardinality(Steps(i, k)) = c
<1> DEFINE n(j) == Cardinality(Steps(i, j))
           Far  == {j \in i..h : n(j) >= c}
           k    == Least(Far)
<1>1. c \in Nat \ {0} /\ h \in Far
  <2>1. n(h) \in Nat
    BY StepsGrow
  <2> QED
    BY <2>1
<1>2. Far \in SUBSET Nat /\ Far # {}
  BY <1>1
<1> HIDE DEF n
<1>3. k \in Far /\ \A y \in Far : k <= y
  BY <1>2, LeastIs
<1> HIDE DEF k
<1>4. k \in i..h /\ n(k) >= c /\ k \in Nat
  BY <1>3
<1>5. n(k) \in Nat
  BY <1>4, StepsGrow DEF n
<1>6. CASE k = i
  <2>1. n(k) = 1
    BY <1>6, StepsGrow DEF n
  <2> QED
    BY <2>1, <1>1, <1>4 DEF n
<1>7. CASE k # i
  <2>1. k - 1 \in i..h /\ k - 1 + 1 = k /\ ~ (k <= k - 1) /\ k - 1 \in Nat
    BY <1>4, <1>7
  <2>2. /\ n(k - 1) \in Nat
        /\ n(k - 1 + 1) = n(k - 1) \/ n(k - 1 + 1) = n(k - 1) + 1
    BY <2>1, StepsGrow DEF n
  <2>3. ~ (n(k - 1) >= c)
    BY <2>1, <1>3
  <2> DEFINE x == n(k)
             y == n(k - 1)
  <2>4. x \in Nat /\ y \in Nat /\ (x = y \/ x = y + 1) /\ ~ (y >= c) /\ x >= c
    BY <1>4, <1>5, <2>1, <2>2, <2>3
  <2> HIDE DEF x, y
  <2>5. x = c
    BY <2>4, <1>1
  <2> QED
    BY <2>5, <1>4 DEF x, n
<1> QED
  BY <1>6, <1>7

\* Every instruction of a node is one of the trace, and so is every context.
LEMMA NodeInTrace ==
  ASSUME TraceOK, GraphsOK, MapsAgree, Described, NEW i, NEW node, node \in Nodes,
         ReadAt(node, i), NEW a \in Elements(node.addrs)
  PROVE  \E j \in DOMAIN traceList : traceList[j] = a
<1> DEFINE n == Len(node.contexts)
           h == i + n - 1
           L == Len(BlockFrom(traceList[i]))
<1>1. /\ i \in Nat \ {0} /\ n \in Nat \ {0} /\ h <= Len(traceList)
      /\ Cardinality(Steps(i, h)) = Len(node.addrs)
      /\ i \in 1..Len(traceList) /\ node.addrs = BlockFrom(traceList[i])
      /\ traceList[i] \in DOMAIN tfg.instructionToNodeMap
      /\ traceList \in Seq(Addr) /\ Len(traceList) \in Nat
  <2>1. /\ i \in Nat \ {0} /\ n \in Nat \ {0} /\ h <= Len(traceList)
        /\ Cardinality(Steps(i, h)) = Len(node.addrs)
    BY ReadFields
  <2>2. /\ i \in 1..Len(traceList) /\ node.addrs = BlockFrom(traceList[i])
        /\ traceList[i] \in DOMAIN tfg.instructionToNodeMap
        /\ traceList \in Seq(Addr) /\ Len(traceList) \in Nat
    BY DEF ReadAt, TraceOK
  <2> QED
    BY <2>1, <2>2
<1>2. L \in Nat
  BY <1>1, BlockFromFields
<1> HIDE DEF n
<1>3. h \in i..Len(traceList) /\ h \in Nat /\ i <= h
  BY <1>1
<1> HIDE DEF h
<1>4. PICK c \in 1..Len(node.addrs) : node.addrs[c] = a
  BY DEF Elements
<1>5. PICK k \in i..h : Cardinality(Steps(i, k)) = c
  BY <1>1, <1>3, <1>4, StepsReach
<1>6. Cardinality(Steps(i, h)) <= L
  BY <1>1, <1>2
<1>7. BlockFrom(traceList[i])[Cardinality(Steps(i, k))] = traceList[k]
  BY <1>1, <1>3, <1>5, <1>6, WalkAlong DEF Described
<1>8. traceList[k] = a
  BY <1>1, <1>4, <1>5, <1>7
<1>9. k \in DOMAIN traceList
  BY <1>1, <1>3, <1>5
<1> QED
  BY <1>8, <1>9

LEMMA ContextInTrace ==
  ASSUME TraceOK, NEW i, NEW node, ReadAt(node, i), NEW a \in Elements(node.contexts)
  PROVE  \E j \in DOMAIN traceList : traceList[j] = a
<1> DEFINE n == Len(node.contexts)
<1>1. /\ i \in Nat \ {0} /\ n \in Nat \ {0} /\ i + n - 1 <= Len(traceList)
      /\ node.contexts = SubSeq(traceList, i, i + n - 1)
      /\ traceList \in Seq(Addr) /\ Len(traceList) \in Nat
  <2>1. i \in Nat \ {0} /\ n \in Nat \ {0} /\ i + n - 1 <= Len(traceList)
    BY ReadFields
  <2>2. /\ node.contexts = SubSeq(traceList, i, i + n - 1)
        /\ traceList \in Seq(Addr) /\ Len(traceList) \in Nat
    BY DEF ReadAt, TraceOK
  <2> QED
    BY <2>1, <2>2
<1>2. PICK c \in 1..n : node.contexts[c] = a
  BY DEF Elements
<1> HIDE DEF n
<1>3. node.contexts[c] = traceList[i + c - 1] /\ i + c - 1 \in DOMAIN traceList
  BY <1>1, <1>2
<1> QED
  BY <1>2, <1>3

\* Where every virtual instruction has one role, its registers hold the pointer.
LEMMA NameIs ==
  ASSUME BuilderInv, Readable, Inst # NoInstruction, NEW r \in Roles, OneRole(r),
         vmreg = r \/ Inst.op = "popreg"
  PROVE  Inst.addr = <<Current.addrs[1], Vip(idx + 1)>>
<1> DEFINE reg == IF Pattern.op = "popreg" THEN Pattern.role ELSE Selected
<1>1. TraceOK /\ GraphsOK /\ TaskOK /\ CacheOK /\ WalkOK
  BY DEF BuilderInv
<1>2. /\ Inst.op = Pattern.op /\ Inst.addr = readVmAddress(Current, reg)
      /\ Pattern # Junk
      /\ Pattern.op = "popreg" => Pattern.addr \in Elements(Current.contexts)
  BY InstFields
<1>3. ReadAt(Current, idx + 1)
  BY <1>1, ReadableFields
<1>4. Pattern = Junk \/ Pattern = Unknown \/ Says(Pattern)
  BY <1>1, PatternFields
<1>5. Current.at = idx + 1
  BY <1>3 DEF ReadAt
<1> HIDE DEF Current, Inst
<1>6. r # NoRole
  BY BuilderAssumption
<1>7. reg = r
  <2>1. CASE Pattern.op = "popreg"
    <3>1. Says(Pattern)
      BY <2>1, <1>4 DEF Junk, Unknown
    <3>2. PICK j \in DOMAIN traceList : traceList[j] = Pattern.addr
      BY <2>1, <1>1, <1>2, <1>3, ContextInTrace
    <3>3. does[traceList[j]].op \in VmOps /\ Pattern.role = does[traceList[j]].role
      BY <2>1, <3>1, <3>2 DEF Says, VmOps
    <3>4. Pattern.role = r
      BY <3>2, <3>3 DEF OneRole
    <3> QED
      BY <2>1, <3>4
  <2>2. CASE Pattern.op # "popreg"
    <3>1. vmreg = r
      BY <2>2, <1>2
    <3>2. Selected = r
      BY <3>1, <2>2 DEF Selected
    <3> QED
      BY <2>2, <3>2
  <2> QED
    BY <2>1, <2>2
<1>8. Holds(idx + 1, r)
  <2>1. idx + 1 \in Nat \ {0} /\ Len(traceList) \in Nat /\ traceList \in Seq(Addr)
    BY <1>1 DEF WalkOK, TraceOK
  <2>2. \A j \in (idx + 1)..Len(traceList) : j \in DOMAIN traceList
    BY <2>1
  <2> QED
    BY <2>2 DEF Holds, OneRole
<1>9. readVmAddress(Current, reg) = <<Current.addrs[1], ReadReg(idx + 1, reg)>>
  BY <1>5 DEF readVmAddress
<1>10. ReadReg(idx + 1, reg) = Vip(idx + 1)
  BY <1>6, <1>7, <1>8 DEF ReadReg
<1> QED
  BY <1>2, <1>9, <1>10

\* From the first VM_POP_REG of its task on, a virtual instruction is named by
\* its handler and its own place in the bytecode, whatever the graph looks like:
\* the register is read in the contexts of the trace, and what it is was found
\* in an instruction of the trace.
THEOREM NamesTrueCorrect == BuilderSpec => []NamesTrue
<1>1. BuilderInv => NamesTrue
  BY NameIs DEF NamesTrue, Readable
<1> QED
  BY BuilderInvariance, <1>1, PTL


\* Bytecode does not lie among the code: what a virtual instruction is named by
\* is no instruction's address.  (The bytecode is counted upwards from where an
\* entry or a branch starts it.)
BytecodeApart ==
  \A a \in Addr : /\ \A e \in Entries : a < VmStart[e]
                  /\ \A v \in BranchVips : a < v

Above(v) == v \in Nat /\ \A a \in Addr : a < v

QueueFar(queue) == \A i \in DOMAIN queue : Above(queue[i].vip)

\* A name with bytecode in it is right, but for those of the entries.
NamesFar == \A name \in visited :
              name[2] > 0 => blockVip[name] = name[2] \/ name[2] \in Addr

ApartInv == QueueFar(anaQueue) /\ (status \in Running => Above(task.vip)) /\ NamesFar

LEMMA VipAbove ==
  ASSUME NEW i \in Nat \ {0}, Above(task.vip)
  PROVE  Above(Vip(i))
<1>1. Vip(i) \in Nat /\ Vip(i) >= task.vip /\ task.vip \in Nat
  BY VipFields DEF Above
<1>2. Addr \subseteq Nat
  BY AddrAssumption
<1> QED
  BY <1>1, <1>2 DEF Above

LEMMA AppendFar ==
  ASSUME TaskOK, QueueFar(anaQueue), NEW b, NEW a, NEW v, Above(v)
  PROVE  QueueFar(Append(anaQueue, Task(b, a, v)))
<1> DEFINE q == Append(anaQueue, Task(b, a, v))
<1>1. anaQueue \in Seq(QueuedTasks)
  BY DEF TaskOK
<1> DEFINE S == QueuedTasks \cup {Task(b, a, v)}
<1>2. anaQueue \in Seq(S) /\ Task(b, a, v) \in S
  BY <1>1
<1> HIDE DEF S
<1>3. /\ DOMAIN q = 1..(Len(anaQueue) + 1) /\ Len(anaQueue) \in Nat
      /\ DOMAIN anaQueue = 1..Len(anaQueue)
      /\ q[Len(anaQueue) + 1] = Task(b, a, v)
      /\ \A i \in 1..Len(anaQueue) : q[i] = anaQueue[i]
  BY <1>2
<1>4. Task(b, a, v).vip = v
  BY DEF Task
<1> HIDE DEF q
<1> SUFFICES ASSUME NEW i \in DOMAIN q PROVE Above(q[i].vip)
  BY DEF QueueFar, q
<1>5. CASE i = Len(anaQueue) + 1
  BY <1>3, <1>4, <1>5
<1>6. CASE i # Len(anaQueue) + 1
  <2>1. i \in DOMAIN anaQueue /\ q[i] = anaQueue[i]
    BY <1>3, <1>6
  <2> QED
    BY <2>1 DEF QueueFar
<1> QED
  BY <1>5, <1>6

LEMMA EnterFar ==
  ASSUME NamesOK, NamesFar, NEW name, NEW vip, EnterBlock(name, vip),
         name[2] > 0 => vip = name[2] \/ name[2] \in Addr
  PROVE  NamesFar'
<1>1. CASE StartsBlock
  <2>1. visited' = visited \cup {name} /\ blockVip' = Put(blockVip, name, vip)
    BY <1>1 DEF EnterBlock
  <2>2. \A x \in visited' : blockVip'[x] = IF x = name THEN vip ELSE blockVip[x]
    BY <2>1 DEF Put, NamesOK
  <2>3. ASSUME NEW x \in visited', x[2] > 0
        PROVE  blockVip'[x] = x[2] \/ x[2] \in Addr
    BY <2>1, <2>2, <2>3 DEF NamesFar
  <2> QED
    BY <2>3 DEF NamesFar
<1>2. CASE ~ StartsBlock
  BY <1>2 DEF EnterBlock, NamesFar
<1> QED
  BY <1>1, <1>2

\* The name is the handler's address and a place that is right if it is any.
LEMMA InstName ==
  ASSUME BuilderInv, Readable, Inst # NoInstruction
  PROVE  Inst.addr[2] > 0 => Inst.addr[2] = Vip(idx + 1)
<1> DEFINE reg == IF Pattern.op = "popreg" THEN Pattern.role ELSE Selected
<1>1. Inst.addr = readVmAddress(Current, reg)
  BY InstFields
<1>2. Current.at = idx + 1
  BY ReadableFields DEF BuilderInv, ReadAt
<1>3. readVmAddress(Current, reg) = <<Current.addrs[1], ReadReg(Current.at, reg)>>
  BY DEF readVmAddress
<1> HIDE DEF reg, Current, Inst
<1>4. Inst.addr[2] = 0 \/ Inst.addr[2] = Vip(idx + 1) \/ Inst.addr[2] = Wrong
  BY <1>1, <1>2, <1>3 DEF ReadReg
<1> QED
  BY <1>4 DEF Wrong


\* The steps that leave the queue and the names alone.
LEMMA SameFar ==
  ASSUME ApartInv, anaQueue' = anaQueue, visited' = visited, blockVip' = blockVip,
         task' = task, status \in Running \/ status' \notin Running
  PROVE  ApartInv'
BY DEF ApartInv, QueueFar, NamesFar, Above

LEMMA StartFar ==
  ASSUME BytecodeApart, BuilderInv, ApartInv, NewFunction \/ BuildVmpBlock
  PROVE  ApartInv'
<1>1. CASE NewFunction
  <2>1. visited' = {} /\ status' = "false"
    BY <1>1 DEF NewFunction
  <2>2. PICK seed \in Seeds : anaQueue' = [i \in DOMAIN seed |-> EntryTask(seed[i])]
    BY <1>1 DEF NewFunction
  <2>3. seed \in Seq(Entries)
    BY BuilderAssumption
  <2>4. ASSUME NEW i \in DOMAIN anaQueue' PROVE Above(anaQueue'[i].vip)
    <3>1. seed[i] \in Entries /\ anaQueue'[i] = EntryTask(seed[i])
      BY <2>2, <2>3
    <3>2. anaQueue'[i].vip = VmStart[seed[i]]
      BY <3>1 DEF EntryTask, Task
    <3> QED
      BY <3>1, <3>2, EntryFields DEF BytecodeApart, Above
  <2> QED
    BY <2>1, <2>4 DEF ApartInv, QueueFar, NamesFar, Running
<1>2. CASE BuildVmpBlock
  <2>1. /\ task' = Head(anaQueue) /\ anaQueue' = Tail(anaQueue) /\ anaQueue # <<>>
        /\ visited' = visited /\ blockVip' = blockVip
    BY <1>2 DEF BuildVmpBlock, Begin
  <2>2. anaQueue \in Seq(QueuedTasks)
    BY DEF BuilderInv, TaskOK
  <2>3. /\ 1 \in DOMAIN anaQueue /\ task' = anaQueue[1]
        /\ \A i \in DOMAIN anaQueue' : i + 1 \in DOMAIN anaQueue
                                       /\ anaQueue'[i] = anaQueue[i + 1]
    BY <2>1, <2>2
  <2> QED
    BY <2>1, <2>3 DEF ApartInv, QueueFar, NamesFar, Above
<1> QED
  BY <1>1, <1>2

LEMMA FindFar ==
  ASSUME BytecodeApart, BuilderInv, ApartInv, FindEnds \/ CheckAccepts
  PROVE  ApartInv'
<1>1. /\ TaskOK /\ NamesOK /\ WalkOK /\ status = "match" /\ task' = task
      /\ status' = "found" /\ status' \notin Running /\ Above(task.vip)
  BY DEF FindEnds, CheckAccepts, BuilderInv, WalkFrame, ApartInv, Running
<1>2. CASE FindEnds
  <2> DEFINE name == <<nodeInput.addrs[1], nodeInput.addrs[1]>>
             n    == Len(nodeInput.addrs) + 1
             next == Replay(1, n)
  <2>1. \/ UNCHANGED <<anaQueue, visited, blockVip>>
        \/ /\ EnterBlock(name, task.vip)
           /\ anaQueue' = Append(anaQueue, Task("jmp", traceList[next], Vip(next)))
    BY <1>2 DEF FindEnds
  <2>2. n \in Nat \ {0} /\ name[2] \in Addr
    <3>1. nodeInput.addrs \in Seq(Addr) /\ nodeInput.addrs # <<>>
      BY <1>1 DEF WalkOK, Nodes
    <3>2. Len(nodeInput.addrs) \in Nat /\ nodeInput.addrs[1] \in Addr
      BY <3>1
    <3> QED
      BY <3>2
  <2> HIDE DEF name, n
  <2>3. next \in Nat \ {0}
    <3>1. TraceOK /\ Len(traceList) >= 1 /\ Len(traceList) \in Nat
      BY <1>1 DEF BuilderInv, TaskOK, TraceOK, Running
    <3>2. next \in 1..Len(traceList)
      BY <2>2, <3>1 DEF Replay
    <3> QED
      BY <3>1, <3>2
  <2> HIDE DEF next
  <2>4. Above(Vip(next))
    BY <2>3, <1>1, VipAbove
  <2>5. QueueFar(anaQueue')
    BY <2>1, <2>4, <1>1, AppendFar DEF ApartInv, QueueFar
  <2>6. NamesFar'
    BY <2>1, <2>2, <1>1, EnterFar DEF ApartInv, NamesFar
  <2> QED
    BY <1>1, <2>5, <2>6 DEF ApartInv, QueueFar
<1>3. CASE CheckAccepts
  <2>1. /\ anaQueue' = Append(anaQueue, Task("entry", task.start, VmStart[task.start]))
        /\ visited' = visited /\ blockVip' = blockVip /\ task.btype = "check"
    BY <1>3 DEF CheckAccepts, EntryTask
  <2>2. task.start \in Entries
    BY <1>1, <2>1 DEF TaskOK
  <2>3. Above(VmStart[task.start])
    BY <2>2, EntryFields DEF BytecodeApart, Above
  <2>4. QueueFar(anaQueue')
    BY <2>1, <2>3, <1>1, AppendFar DEF ApartInv
  <2> QED
    BY <1>1, <2>1, <2>4 DEF ApartInv, QueueFar, NamesFar
<1> QED
  BY <1>2, <1>3

\* The handlers' instructions.
LEMMA OpFar ==
  ASSUME BytecodeApart, BuilderInv, ApartInv, NEW ops, Executes(ops), "none" \notin ops
  PROVE  /\ NamesFar' /\ task' = task /\ status = "FINISH_VM_INIT"
         /\ Above(task.vip) /\ QueueFar(anaQueue)
<1>1. Readable /\ Handler /\ Inst # NoInstruction /\ EnterBlock(Inst.addr, Vip(idx + 1))
  BY ExecutedFields DEF Executes
<1>2. Inst.addr[2] > 0 => Inst.addr[2] = Vip(idx + 1)
  BY <1>1, InstName
<1>3. NamesOK /\ NamesFar /\ QueueFar(anaQueue)
  BY DEF BuilderInv, ApartInv
<1> HIDE DEF Inst
<1>4. NamesFar'
  BY <1>1, <1>2, <1>3, EnterFar
<1>5. task' = task /\ status = "FINISH_VM_INIT"
  BY <1>1 DEF Handler, WalkFrame, AtHandler
<1> QED
  BY <1>3, <1>4, <1>5 DEF ApartInv, Running

LEMMA HandlerFar ==
  ASSUME BytecodeApart, BuilderInv, ApartInv,
         PlainOp \/ ExitOp \/ JmpConstOp \/ JmpOp
  PROVE  ApartInv'
<1>1. PICK ops \in {{"popreg", "stackop", "unknown"}, {"exit"}, {"jmpconst"}, {"jmp"}} :
        Executes(ops)
  BY DEF PlainOp, ExitOp, JmpConstOp, JmpOp
<1>2. /\ NamesFar' /\ task' = task /\ status = "FINISH_VM_INIT"
      /\ Above(task.vip) /\ QueueFar(anaQueue)
  BY <1>1, OpFar
<1>3. TaskOK /\ WalkOK /\ TraceOK /\ GraphsOK /\ Readable
  BY <1>1, ExecutedFields DEF BuilderInv
<1>4. QueueFar(anaQueue')
  <2>1. CASE PlainOp \/ ExitOp
    BY <2>1, <1>2 DEF PlainOp, ExitOp
  <2>2. CASE JmpConstOp
    <3> DEFINE n    == idx + Len(Current.addrs) + 1
               next == Replay(1, n)
    <3>1. anaQueue' = Append(anaQueue, Task("jmp", traceList[next], Vip(next)))
      BY <2>2 DEF JmpConstOp
    <3>2. /\ idx \in Nat /\ Len(Current.addrs) \in Nat /\ Len(traceList) \in Nat
          /\ idx < Len(traceList)
      BY <1>3, ReadableFields DEF WalkOK, TraceOK
    <3>3. n \in Nat \ {0} /\ Len(traceList) >= 1
      BY <3>2
    <3> HIDE DEF n
    <3>4. next \in 1..Len(traceList)
      BY <3>2, <3>3 DEF Replay
    <3> HIDE DEF next
    <3>5. Above(Vip(next))
      BY <3>2, <3>4, <1>2, VipAbove
    <3> QED
      BY <3>1, <3>5, <1>2, <1>3, AppendFar
  <2>3. CASE JmpOp
    <3>1. PICK q \in Seq(BranchTasks) : anaQueue' = anaQueue \o q
      BY <2>3, JmpQueues
    <3>2. \A i \in DOMAIN q : q[i] \in BranchTasks
      BY <3>1
    <3>3. \A i \in DOMAIN q : q[i].vip \in BranchVips
      BY <3>2 DEF BranchTasks
    <3>4. \A i \in DOMAIN q : Above(q[i].vip)
      BY <3>3, BuilderAssumption DEF BytecodeApart, Above
    <3>5. q \in Seq(QueuedTasks) /\ anaQueue \in Seq(QueuedTasks)
      BY <3>1, <1>3, BranchFields DEF TaskOK
    <3>6. ASSUME NEW i \in DOMAIN (anaQueue \o q)
          PROVE  \/ i \in DOMAIN anaQueue /\ (anaQueue \o q)[i] = anaQueue[i]
                 \/ i - Len(anaQueue) \in DOMAIN q
                    /\ (anaQueue \o q)[i] = q[i - Len(anaQueue)]
      BY <3>5
    <3> QED
      BY <3>1, <3>4, <3>6, <1>2 DEF QueueFar
  <2> QED
    BY <2>1, <2>2, <2>3
<1> QED
  BY <1>2, <1>4 DEF ApartInv, QueueFar, Above

LEMMA ExitCallFar ==
  ASSUME BytecodeApart, BuilderInv, ApartInv, ExitCallOp
  PROVE  ApartInv'
<1>1. /\ Readable /\ Inst # NoInstruction /\ EnterBlock(Inst.addr, Vip(idx + 1))
      /\ anaQueue' = anaQueue
  BY NoInstructionOp DEF ExitCallOp, Readable
<1>2. PICK a \in Entries : task' = [task EXCEPT !.btype = "check", !.start = a]
  BY DEF ExitCallOp, Begin
<1>3. task'.vip = task.vip
  BY <1>2 DEF BuilderInv, TaskOK, RunningTasks
<1>4. Inst.addr[2] > 0 => Inst.addr[2] = Vip(idx + 1)
  BY <1>1, InstName
<1>5. status = "FINISH_VM_INIT" /\ NamesOK /\ NamesFar /\ QueueFar(anaQueue)
  BY <1>1 DEF Readable, AtHandler, BuilderInv, ApartInv
<1> HIDE DEF Inst
<1>6. NamesFar'
  BY <1>1, <1>4, <1>5, EnterFar
<1> QED
  BY <1>1, <1>3, <1>5, <1>6 DEF ApartInv, QueueFar, Above, Running


LEMMA FarKeeps ==
  ASSUME BytecodeApart, BuilderInv, ApartInv, [BuilderNext]_allVars
  PROVE  ApartInv'
<1>1. CASE \/ UNCHANGED allVars \/ TraceStep \/ FindFirst \/ FindNext \/ WalkEnds
           \/ SkipHandler \/ ReachVisited \/ AnaVmpHandlerThrows
  <2>1. /\ anaQueue' = anaQueue /\ visited' = visited /\ blockVip' = blockVip
        /\ task' = task
    BY <1>1 DEF allVars, builderVars, TraceStep, FindFirst, FindNext, NotFound, Overread,
         WalkEnds, SkipHandler, ReachVisited, AnaVmpHandlerThrows, Handler, WalkFrame,
         QuietFrame
  <2>2. status \in Running \/ status' \notin Running
    BY <1>1 DEF allVars, builderVars, TraceStep, FindFirst, FindNext, WalkEnds,
         SkipHandler, ReachVisited, AnaVmpHandlerThrows, Handler, AtHandler, Running
  <2> QED
    BY <2>1, <2>2, SameFar
<1>2. CASE NewFunction \/ BuildVmpBlock
  BY <1>2, StartFar
<1>3. CASE FindEnds \/ CheckAccepts
  BY <1>3, FindFar
<1>4. CASE PlainOp \/ ExitOp \/ JmpConstOp \/ JmpOp
  BY <1>4, HandlerFar
<1>5. CASE ExitCallOp
  BY <1>5, ExitCallFar
<1> QED
  BY <1>1, <1>2, <1>3, <1>4, <1>5
     DEF BuilderNext, Execute_FIND_VM_INIT, Execute_FINISH_VM_INIT

----------------------------------------------------------------------------
(* The cache.                                                              *)

\* A block the engine has once analysed: a path of the program without
\* repeats, from the first address of its range to the last, with one virtual
\* instruction in it.
Analysed(range, p) ==
  \E addrs \in Seq(Addr) :
    /\ Len(addrs) >= 1 /\ Distinct(addrs) /\ Walked(addrs, code)
    /\ range = <<addrs[1], addrs[Len(addrs)]>>
    /\ VmInstructions(addrs) = {p.addr}

CacheTrue ==
  \A range \in DOMAIN handlerPatternMap : Analysed(range, handlerPatternMap[range])

\* What a task has selected is the role of a virtual instruction it traced.
\* A task that starts behind a jump has not selected any before it walks.
SelectedTrue ==
  /\ status = "trace" /\ task.btype = "jmp" => vmreg = NoRole
  /\ status = "FINISH_VM_INIT" /\ MapsAgree /\ Described /\ vmreg # NoRole =>
       \E j \in DOMAIN traceList :
         does[traceList[j]].op \in VmOps /\ does[traceList[j]].role = vmreg

CacheInv == CacheTrue /\ SelectedTrue

\* A block from an address of it on: the index may be behind, so that more of
\* the block is read, but what is read has no repeats.
LEMMA BlockFromWalked ==
  ASSUME GraphsOK, BlocksFollowCode, NEW a \in DOMAIN tfg.instructionToNodeMap
  PROVE  Distinct(BlockFrom(a)) /\ Walked(BlockFrom(a), code)
<1> DEFINE at    == tfg.instructionToNodeMap[a]
           list  == tfg.nodeMap[at.vmNode]
           addrs == BlockFrom(a)
           k     == at.index
<1>1. /\ list \in Seq(Addr) /\ k \in Nat \ {0} /\ k <= Len(list)
      /\ at.vmNode \in DOMAIN tfg.nodeMap
  BY HeldAt DEF GraphsOK, Backed
<1>2. addrs = SubSeq(list, k, Len(list))
  BY DEF BlockFrom
<1>3. Walked(list, code)
  BY <1>1 DEF BlocksFollowCode
<1>4. Distinct(list)
  <2>1. PICK ex : Filed(tfg.nodeMap, ex)
    BY DEF GraphsOK, Backed, Held
  <2>2. \A i \in 1..Len(list) : ex[list[i]].index = i
    BY <2>1, <1>1, PlacedAt
  <2> HIDE DEF list
  <2> QED
    BY <2>2 DEF Distinct
<1> HIDE DEF list, at, addrs, k
<1>5. /\ Len(addrs) = Len(list) - k + 1 /\ Len(list) \in Nat
      /\ \A i \in 1..Len(addrs) : addrs[i] = list[k + i - 1]
  BY <1>1, <1>2
<1>6. Distinct(addrs)
  <2> SUFFICES ASSUME NEW i \in 1..Len(addrs), NEW j \in 1..Len(addrs), addrs[i] = addrs[j]
               PROVE  i = j
    BY DEF Distinct
  <2>1. /\ list[k + i - 1] = list[k + j - 1]
        /\ k + i - 1 \in 1..Len(list) /\ k + j - 1 \in 1..Len(list)
    BY <1>1, <1>5
  <2>2. k + i - 1 = k + j - 1
    BY <2>1, <1>4 DEF Distinct
  <2> QED
    BY <2>2, <1>1
<1>7. Walked(addrs, code)
  <2> SUFFICES ASSUME NEW i \in 1..(Len(addrs) - 1)
               PROVE  addrs[i + 1] \in code[addrs[i]].succ
    BY DEF Walked
  <2>1. /\ i \in 1..Len(addrs) /\ i + 1 \in 1..Len(addrs)
        /\ k + i - 1 \in 1..(Len(list) - 1) /\ k + (i + 1) - 1 = (k + i - 1) + 1
    BY <1>1, <1>5
  <2>2. list[(k + i - 1) + 1] \in code[list[k + i - 1]].succ
    BY <2>1, <1>3 DEF Walked
  <2> QED
    BY <2>1, <2>2, <1>5
<1> QED
  BY <1>6, <1>7 DEF addrs

\* Only a handler that has been read changes the cache.
LEMMA StepCache ==
  ASSUME [BuilderNext]_allVars
  PROVE  /\ code' = code /\ does' = does
         /\ handlerPatternMap' = handlerPatternMap \/ (Readable /\ Remember)
<1>1. CASE UNCHANGED allVars
  BY <1>1 DEF allVars, vars, builderVars
<1>2. CASE NewFunction \/ BuildVmpBlock
  BY <1>2 DEF NewFunction, BuildVmpBlock, Begin
<1>3. CASE TraceStep
  <2>1. code' = code
    BY <1>3 DEF TraceStep, Emulate, EmulationEnds, AddTraceFlow, AddTraceFlowReturns,
       MergeAllNodes, MergeNode, RejectNode, MergePassEnds
  <2> QED
    BY <2>1, <1>3 DEF TraceStep
<1>4. CASE Execute_FIND_VM_INIT \/ WalkEnds \/ AnaVmpHandlerThrows
  BY <1>4 DEF Execute_FIND_VM_INIT, FindFirst, FindNext, FindEnds, CheckAccepts,
     WalkEnds, AnaVmpHandlerThrows, WalkFrame, QuietFrame
<1>5. CASE SkipHandler \/ ReachVisited \/ PlainOp \/ JmpConstOp \/ JmpOp \/ ExitOp
  <2>1. Handler
    BY <1>5 DEF SkipHandler, ReachVisited, PlainOp, JmpConstOp, JmpOp, ExitOp, Executes
  <2> QED
    BY <2>1 DEF Handler, WalkFrame, Readable
<1>6. CASE ExitCallOp
  BY <1>6 DEF ExitCallOp, Begin, Readable
<1> QED
  BY <1>1, <1>2, <1>3, <1>4, <1>5, <1>6 DEF BuilderNext, Execute_FINISH_VM_INIT

LEMMA CacheTrueKeeps ==
  ASSUME BuilderInv, CacheTrue, BlocksFollowCode, [BuilderNext]_allVars
  PROVE  CacheTrue'
<1>1. /\ code' = code /\ does' = does
      /\ handlerPatternMap' = handlerPatternMap \/ (Readable /\ Remember)
  BY StepCache
<1>2. \A range, p : Analysed(range, p)' <=> Analysed(range, p)
  BY <1>1 DEF Analysed, VmInstructions
<1>3. CASE handlerPatternMap' = handlerPatternMap
  BY <1>2, <1>3 DEF CacheTrue
<1>4. CASE Readable /\ Remember /\ handlerPatternMap' # handlerPatternMap
  <2> DEFINE addrs == Current.addrs
             rg    == VmpHandlerRange(Current)
             pat   == Pattern
             map   == handlerPatternMap
  <2>1. /\ ~ Cached /\ pat \notin {Junk, Unknown} /\ map' = Put(map, rg, pat)
    BY <1>4 DEF Remember
  <2>2. pat = AnaVmpPattern(addrs, vmreg)
    BY <2>1 DEF Pattern
  <2>3. TraceOK /\ GraphsOK /\ TaskOK /\ WalkOK
    BY DEF BuilderInv
  <2>4. /\ Current \in Nodes /\ ReadAt(Current, idx + 1) /\ Len(addrs) \in Nat \ {0}
    BY <1>4, <2>3, ReadableFields
  <2>5. addrs \in Seq(Addr) /\ rg = <<addrs[1], addrs[Len(addrs)]>>
    BY <2>4 DEF Nodes, VmpHandlerRange
  <2>6. /\ addrs = BlockFrom(traceList[idx + 1])
        /\ traceList[idx + 1] \in DOMAIN tfg.instructionToNodeMap
    BY <2>4 DEF ReadAt
  <2> HIDE DEF addrs, rg, pat, map
  <2>7. Distinct(addrs) /\ Walked(addrs, code)
    BY <2>3, <2>6, BlockFromWalked
  <2>8. VmInstructions(addrs) = {pat.addr}
    BY <2>1, <2>2, <2>3, <2>5, FreshFields
  <2>9. Analysed(rg, pat)
    BY <2>4, <2>5, <2>7, <2>8 DEF Analysed
  <2>10. /\ DOMAIN map' = DOMAIN map \cup {rg}
         /\ \A x \in DOMAIN map' : map'[x] = IF x = rg THEN pat ELSE map[x]
    BY <2>1 DEF Put
  <2>11. \A x \in DOMAIN map : Analysed(x, map[x])
    BY DEF CacheTrue, map
  <2>12. \A x \in DOMAIN map' : Analysed(x, map'[x])
    BY <2>9, <2>10, <2>11
  <2> QED
    BY <2>12, <1>2 DEF CacheTrue, map
<1> QED
  BY <1>1, <1>3, <1>4

\* During the walk the trace and its graph stay.
LEMMA SameTrace ==
  ASSUME tfg' = tfg, traceList' = traceList, flowIdx' = flowIdx, code' = code
  PROVE  MapsAgree' = MapsAgree /\ Described' = Described
<1>1. MapsAgree' = MapsAgree
  BY DEF MapsAgree, IndexNamesInstruction, BlocksIndexed
<1>2. Described' = Described
  BY DEF Described, TraceFollowsBlocks, Linked, Follows, IsTail, IsHead
<1> QED
  BY <1>1, <1>2

\* A role the walk selects is that of an instruction it has traced.
LEMMA SelectedKeeps ==
  ASSUME BuilderInv, SelectedTrue, [BuilderNext]_allVars
  PROVE  SelectedTrue'
<1>1. CASE UNCHANGED allVars
  <2>1. /\ tfg' = tfg /\ traceList' = traceList /\ flowIdx' = flowIdx /\ code' = code
        /\ status' = status /\ task' = task /\ vmreg' = vmreg /\ does' = does
    BY <1>1 DEF allVars, vars, builderVars
  <2> QED
    BY <2>1, SameTrace DEF SelectedTrue
<1>2. CASE \/ NewFunction \/ Execute_FIND_VM_INIT \/ WalkEnds \/ AnaVmpHandlerThrows
           \/ ReachVisited \/ JmpConstOp \/ JmpOp \/ ExitOp
  <2>1. status' \notin {"trace", "FINISH_VM_INIT"}
    BY <1>2 DEF NewFunction, Execute_FIND_VM_INIT, FindFirst, FindNext, NotFound,
       Overread, FindEnds, CheckAccepts, WalkEnds, AnaVmpHandlerThrows, ReachVisited,
       JmpConstOp, JmpOp, ExitOp
  <2> QED
    BY <2>1 DEF SelectedTrue
<1>3. CASE BuildVmpBlock
  <2>1. status' = "trace" /\ vmreg' = NoRole
    BY <1>3 DEF BuildVmpBlock, Begin
  <2> QED
    BY <2>1 DEF SelectedTrue
<1>4. CASE ExitCallOp
  <2>1. PICK a \in Entries : Begin([task EXCEPT !.btype = "check", !.start = a], EmptyGraph)
    BY <1>4 DEF ExitCallOp
  <2>2. status' = "trace" /\ task'.btype = "check"
    BY <2>1 DEF Begin, BuilderInv, TaskOK, RunningTasks
  <2> QED
    BY <2>2 DEF SelectedTrue
<1>5. CASE TraceStep
  <2>1. /\ status = "trace" /\ task' = task /\ vmreg' = vmreg
        /\ status' = "FINISH_VM_INIT" => task.btype = "jmp"
    BY <1>5 DEF TraceStep
  <2> QED
    BY <2>1 DEF SelectedTrue
<1>6. CASE SkipHandler \/ PlainOp
  <2>1. /\ Readable /\ WalkFrame /\ tfg' = tfg /\ status' = status
        /\ status = "FINISH_VM_INIT"
        /\ \/ vmreg' = Selected
           \/ /\ vmreg' = Inst.role /\ Inst.op = "popreg"
    BY <1>6 DEF SkipHandler, PlainOp, Executes, Handler, Readable, AtHandler
  <2>2. /\ traceList' = traceList /\ flowIdx' = flowIdx /\ code' = code /\ does' = does
    BY <2>1 DEF WalkFrame
  <2>3. TraceOK /\ GraphsOK /\ TaskOK /\ CacheOK /\ WalkOK
    BY DEF BuilderInv
  <2> SUFFICES ASSUME MapsAgree, Described, vmreg' # NoRole
               PROVE  \E j \in DOMAIN traceList :
                        does[traceList[j]].op \in VmOps /\ does[traceList[j]].role = vmreg'
    BY <2>1, <2>2, SameTrace DEF SelectedTrue
  <2>4. CASE vmreg' = vmreg
    BY <2>1, <2>4 DEF SelectedTrue
  <2>5. CASE vmreg' # vmreg
    <3>1. Pattern.op = "popreg" /\ vmreg' = Pattern.role
      <4>1. CASE vmreg' = Selected
        BY <4>1, <2>5 DEF Selected
      <4>2. CASE vmreg' = Inst.role /\ Inst.op = "popreg"
        BY <4>2, InstFields DEF NoInstruction
      <4> QED
        BY <4>1, <4>2, <2>1
    <3>2. Says(Pattern)
      BY <3>1, <2>1, <2>3, PatternFields DEF Junk, Unknown
    <3>3. ReadAt(Current, idx + 1) /\ Current \in Nodes
      BY <2>1, <2>3, ReadableFields
    <3>4. Pattern.addr \in Elements(Current.addrs) \cup Elements(Current.contexts)
      <4>1. CASE ~ Cached
        <5>1. Pattern = AnaVmpPattern(Current.addrs, vmreg) /\ Current.addrs \in Seq(Addr)
          BY <4>1, <3>3 DEF Pattern, Nodes
        <5> HIDE DEF Pattern, Current
        <5> QED
          BY <5>1, <3>1, <2>3, FreshFields DEF Junk, Unknown
      <4>2. CASE Cached
        <5>1. Selected = vmreg
          BY <4>2 DEF Selected
        <5>2. Inst.op = "popreg"
          BY <5>1, <2>1, <2>5
        <5> QED
          BY <5>2, InstFields DEF NoInstruction
      <4> QED
        BY <4>1, <4>2
    <3>5. \E j \in DOMAIN traceList : traceList[j] = Pattern.addr
      BY <2>3, <3>3, <3>4, NodeInTrace, ContextInTrace
    <3> QED
      BY <3>1, <3>2, <3>5 DEF Says, VmOps
  <2> QED
    BY <2>4, <2>5
<1> QED
  BY <1>1, <1>2, <1>3, <1>4, <1>5, <1>6 DEF BuilderNext, Execute_FINISH_VM_INIT

LEMMA NotBelowItself == \A a \in Addr : ~ (a < a)
BY AddrAssumption

\* A run of virtual code is taken for a block that begins elsewhere only by a
\* task that has not selected its registers, or where the trace changes them.
\* What a task has selected is a role of its own trace (SelectedTrue), so that
\* it reads its bytecode; and the names visited are right where they have any
\* bytecode (NamesFar), whichever task of the function read them, with which
\* registers, from the cache or not.  An entry's block is named by its address
\* twice, which no such name can be while the bytecode lies apart from the code.
THEOREM VisitedIsSameCorrect ==
  ASSUME BytecodeApart
  PROVE  BuilderSpec => [](MapsAgree => VisitedIsSame)
<1>1. BuilderInit => ApartInv /\ SelectedTrue
  BY DEF BuilderInit, ApartInv, QueueFar, NamesFar, Running, SelectedTrue
<1>2. BuilderInv /\ ApartInv /\ [BuilderNext]_allVars => ApartInv'
  BY FarKeeps
<1>3. BuilderInv /\ SelectedTrue /\ [BuilderNext]_allVars => SelectedTrue'
  BY SelectedKeeps
<1>4. ASSUME BuilderInv, ApartInv, SelectedTrue, MapsAgree PROVE VisitedIsSame
  <2> SUFFICES ASSUME AtHandler, Described, ~ Current.overread, Current.addrs # <<>>,
                      Inst # NoInstruction, IsVisited(Inst.addr),
                      vmreg # NoRole \/ Inst.op = "popreg",
                      NEW r \in Roles, OneRole(r)
               PROVE  blockVip[Inst.addr] = Vip(idx + 1)
    BY DEF VisitedIsSame
  <2>1. Readable /\ status = "FINISH_VM_INIT" /\ status \in Running
    BY DEF Readable, AtHandler, Running
  <2>2. vmreg = r \/ Inst.op = "popreg"
    <3> HIDE DEF Inst
    <3> SUFFICES ASSUME vmreg # NoRole PROVE vmreg = r
      OBVIOUS
    <3>1. PICK j \in DOMAIN traceList :
            does[traceList[j]].op \in VmOps /\ does[traceList[j]].role = vmreg
      BY <1>4, <2>1 DEF SelectedTrue
    <3> QED
      BY <3>1 DEF OneRole
  <2>3. Inst.addr = <<Current.addrs[1], Vip(idx + 1)>>
    BY <1>4, <2>1, <2>2, NameIs
  <2>4. Above(Vip(idx + 1))
    <3>1. idx + 1 \in Nat \ {0}
      BY <1>4 DEF BuilderInv, WalkOK
    <3> QED
      BY <1>4, <2>1, <3>1, VipAbove DEF ApartInv
  <2>5. Vip(idx + 1) > 0
    <3>1. task.vip \in Nat \ {0} /\ idx + 1 \in Nat \ {0}
      BY <1>4, <2>1 DEF BuilderInv, TaskOK, RunningTasks, WalkOK
    <3>2. Vip(idx + 1) \in Nat /\ Vip(idx + 1) >= task.vip
      BY <3>1, VipFields
    <3> QED
      BY <3>1, <3>2
  <2>6. Inst.addr \in visited
    BY DEF IsVisited
  <2> HIDE DEF Inst, Current
  <2>7. blockVip[Inst.addr] = Inst.addr[2] \/ Inst.addr[2] \in Addr
    BY <1>4, <2>3, <2>5, <2>6 DEF ApartInv, NamesFar
  <2>8. Inst.addr[2] \notin Addr
    BY <2>3, <2>4, NotBelowItself DEF Above
  <2> QED
    BY <2>3, <2>7, <2>8
<1>5. BuilderInv /\ ApartInv /\ SelectedTrue => (MapsAgree => VisitedIsSame)
  BY <1>4
<1> QED
  BY BuilderInvariance, <1>1, <1>2, <1>3, <1>5, PTL DEF BuilderSpec

\* A path without repeats between the ends of a straight block is the block.
LEMMA OnlyPath ==
  ASSUME NEW s \in Seq(Addr), Len(s) >= 1, Distinct(s), Straight(s),
         NEW u \in Seq(Addr), Len(u) >= 1, Distinct(u), Walked(u, code),
         s[1] = u[1], s[Len(s)] = u[Len(u)]
  PROVE  Elements(s) = Elements(u)
<1> DEFINE P(i)  == i <= Len(s) /\ i <= Len(u) => s[i] = u[i]
           Bad   == {i \in Nat \ {0} : ~ P(i)}
<1>0. Len(s) \in Nat /\ Len(u) \in Nat
  OBVIOUS
<1>1. P(1)
  OBVIOUS
<1>2. ASSUME NEW i \in Nat \ {0}, P(i), i + 1 <= Len(s), i + 1 <= Len(u)
      PROVE  s[i + 1] = u[i + 1]
  <2>1. /\ i \in 1..(Len(s) - 1) /\ i \in 1..(Len(u) - 1) /\ s[i] = u[i]
        /\ i \in 1..Len(u) /\ i + 1 \in 1..Len(u) /\ i + 1 # i
    BY <1>0, <1>2
  <2>2. u[i + 1] \in {s[i], s[i + 1]}
    BY <2>1 DEF Walked, Straight
  <2>3. u[i + 1] # u[i]
    BY <2>1 DEF Distinct
  <2> QED
    BY <2>1, <2>2, <2>3
<1>3. Bad = {}
  <2> SUFFICES ASSUME Bad # {} PROVE FALSE
    OBVIOUS
  <2> DEFINE b == Least(Bad)
  <2>1. b \in Bad /\ \A y \in Bad : b <= y
    BY LeastIs
  <2> HIDE DEF b
  <2>2. b \in Nat \ {0} /\ ~ P(b) /\ b # 1
    BY <2>1, <1>1
  <2>3. b - 1 \in Nat \ {0} /\ b - 1 + 1 = b /\ ~ (b <= b - 1)
    BY <2>2
  <2>4. P(b - 1)
    BY <2>1, <2>3
  <2>5. P(b - 1 + 1)
    BY <2>3, <2>4, <1>2
  <2> QED
    BY <2>2, <2>3, <2>5
<1>4. \A i \in Nat \ {0} : P(i)
  BY <1>3
<1> HIDE DEF P
<1>5. Len(s) = Len(u)
  <2>1. CASE Len(s) < Len(u)
    <3>1. P(Len(s)) /\ Len(s) \in 1..Len(u) /\ Len(u) \in 1..Len(u)
      BY <2>1, <1>0, <1>4
    <3>2. u[Len(s)] = u[Len(u)]
      BY <3>1, <1>0, <2>1 DEF P
    <3> QED
      BY <3>1, <3>2, <2>1 DEF Distinct
  <2>2. CASE Len(u) < Len(s)
    <3>1. P(Len(u)) /\ Len(u) \in 1..Len(s) /\ Len(s) \in 1..Len(s)
      BY <2>2, <1>0, <1>4
    <3>2. s[Len(u)] = s[Len(s)]
      BY <3>1, <1>0, <2>2 DEF P
    <3> QED
      BY <3>1, <3>2, <2>2 DEF Distinct
  <2> QED
    BY <2>1, <2>2, <1>0
<1>6. \A i \in 1..Len(s) : s[i] = u[i]
  <2> TAKE i \in 1..Len(s)
  <2>1. i \in Nat \ {0} /\ i <= Len(s) /\ i <= Len(u)
    BY <1>0, <1>5
  <2> QED
    BY <2>1, <1>4 DEF P
<1> QED
  BY <1>5, <1>6 DEF Elements

\* While the blocks are paths of the program, a cached pattern says what a new
\* analysis would, whichever task of whichever function found it: a handler
\* that runs straight from the same first to the same last address is the one
\* analysed then, and where the trace knows but one role, what its task has
\* selected is that role.  That blocks are paths holds of a first trace
\* (BlocksFollowCodeCorrect), whose graph agrees with its index, too.
THEOREM CacheTransparentCorrect ==
  BuilderSpec /\ []BlocksFollowCode => [](MapsAgree /\ Described => CacheTransparent)
<1>1. BuilderInit => CacheInv
  <2> SUFFICES ASSUME BuilderInit PROVE CacheInv
    OBVIOUS
  <2>1. status = "false" /\ DOMAIN handlerPatternMap = {}
    BY DEF BuilderInit
  <2> QED
    BY <2>1 DEF CacheInv, CacheTrue, SelectedTrue
<1>2. BuilderInv /\ BlocksFollowCode /\ CacheInv /\ [BuilderNext]_allVars => CacheInv'
  BY CacheTrueKeeps, SelectedKeeps DEF CacheInv
<1>3. ASSUME BuilderInv, BlocksFollowCode, CacheInv, MapsAgree, Described
      PROVE  CacheTransparent
  <2> DEFINE addrs == Current.addrs
             p     == handlerPatternMap[VmpHandlerRange(Current)]
             fresh == AnaVmpPattern(addrs, vmreg)
  <2> SUFFICES ASSUME AtHandler, ~ Current.overread, addrs # <<>>, Cached,
                      OneRole(p.role), Straight(addrs),
                      vmreg # NoRole \/ p.op = "popreg"
               PROVE  p = fresh
    BY DEF CacheTransparent, Pattern
  <2>1. TraceOK /\ GraphsOK /\ TaskOK /\ CacheOK /\ WalkOK /\ Readable
    BY <1>3 DEF BuilderInv, Readable
  <2>2. /\ Current \in Nodes /\ ReadAt(Current, idx + 1) /\ Len(addrs) >= 1
        /\ status = "FINISH_VM_INIT"
    BY <2>1, ReadableFields
  <2>3. /\ addrs \in Seq(Addr) /\ Distinct(addrs)
        /\ VmpHandlerRange(Current) = <<addrs[1], addrs[Len(addrs)]>>
    <3>1. Distinct(BlockFrom(traceList[idx + 1]))
      BY <1>3, <2>1, <2>2, BlockFromWalked DEF ReadAt
    <3>2. addrs = BlockFrom(traceList[idx + 1])
      BY <2>2 DEF ReadAt
    <3> HIDE DEF addrs
    <3>3. Distinct(addrs)
      BY <3>1, <3>2
    <3> QED
      BY <3>3, <2>2 DEF addrs, Nodes, VmpHandlerRange
  <2>4. Says(p) /\ Analysed(VmpHandlerRange(Current), p)
    BY <1>3, <2>1 DEF Cached, CacheOK, CacheInv, CacheTrue
  <2>5. PICK u \in Seq(Addr) :
          /\ Len(u) >= 1 /\ Distinct(u) /\ Walked(u, code)
          /\ <<addrs[1], addrs[Len(addrs)]>> = <<u[1], u[Len(u)]>>
          /\ VmInstructions(u) = {p.addr}
    BY <2>3, <2>4 DEF Analysed
  <2>6. vmreg # NoRole => vmreg = p.role
    BY <1>3, <2>2 DEF CacheInv, SelectedTrue, OneRole
  <2> HIDE DEF addrs, p
  <2>7. Elements(addrs) = Elements(u)
    BY <2>2, <2>3, <2>5, OnlyPath
  <2>8. VmInstructions(addrs) = {p.addr}
    BY <2>5, <2>7 DEF VmInstructions
  <2>9. /\ p = [op |-> p.op, role |-> p.role, addr |-> p.addr]
        /\ p.op \in VmOps /\ p.op = does[p.addr].op /\ p.role = does[p.addr].role
    BY <2>4 DEF Says, Patterns
  <2>10. \/ p.op = "popreg" /\ vmreg \in {NoRole, p.role}
         \/ p.op \in {"stackop", "jmp"} /\ vmreg = p.role
         \/ p.op \in {"jmpconst", "exit"}
    BY <2>6, <2>9 DEF VmOps
  <2> DEFINE found == VmInstructions(addrs)
             a     == CHOOSE x \in found : TRUE
             op    == does[a].op
             pat   == [op |-> op, role |-> does[a].role, addr |-> a]
             fits  == /\ Cardinality(found) = 1
                      /\ \/ op = "popreg" /\ vmreg \in {NoRole, does[a].role}
                         \/ op \in {"stackop", "jmp"} /\ vmreg = does[a].role
                         \/ op \in {"jmpconst", "exit"}
  <2>11. a = p.addr /\ found # {} /\ Cardinality(found) = 1
    BY <2>8, FS_Singleton
  <2>12. fits /\ pat = p
    BY <2>9, <2>10, <2>11
  <2>13. fresh = CASE found = {} -> Junk [] fits -> pat [] OTHER -> Unknown
    BY DEF AnaVmpPattern
  <2>14. found # {}
    BY <2>11
  <2> HIDE DEF found, fits, pat, fresh
  <2> QED
    BY <2>12, <2>13, <2>14
<1>4. BuilderInv /\ BlocksFollowCode /\ CacheInv =>
        (MapsAgree /\ Described => CacheTransparent)
  BY <1>3
<1> QED
  BY BuilderInvariance, <1>1, <1>2, <1>4, PTL DEF BuilderSpec

----------------------------------------------------------------------------
(* The entries FastCheckVmpEntry has accepted.                             *)

\* AddTraceFlow is through with the trace, or with what capstone decodes of it.
Returned ==
  \/ flowIdx = Len(traceList)
  \/ /\ flowIdx < Len(traceList)
     /\ code[traceList[flowIdx]].kind = "undecodable"
     /\ traceList[flowIdx] # traceList[flowIdx + 1]

\* What a trace has left in the graph when its walk begins.
LinkedIn ==
  /\ flowIdx <= Len(traceList)
  /\ \A i \in Linked :
       /\ code[traceList[i]].kind # "undecodable"
       /\ traceList[i] \in DOMAIN tfg.instructionToNodeMap
       /\ traceList[i + 1] \in DOMAIN tfg.instructionToNodeMap

\* Execute_FIND_VM_INIT and FastCheckVmpEntry at their walk.
AtEntry == status \in {"FIND_VM_INIT", "match"}

\* Only a task behind a jump walks on to handlers (Execute_FINISH_VM_INIT).
FedInv ==
  /\ status = "trace" /\ phase = "emulate" => flowIdx = 1
  /\ status = "trace" \/ AtEntry => LinkedIn
  /\ (status = "trace" /\ phase = "merge") \/ AtEntry => Returned
  /\ status = "FINISH_VM_INIT" => task.btype = "jmp"

\* Tracing and linking lead to a trace that is fed, and a walk leaves it so.
LEMMA BeginFed ==
  ASSUME NEW t, NEW graph, Begin(t, graph)
  PROVE  FedInv'
<1>1. /\ status' = "trace" /\ flowIdx' = 1 /\ phase' = "emulate"
      /\ traceList' = <<t.start>>
  BY DEF Begin
<1>2. Linked' = {}
  BY <1>1 DEF Linked
<1>3. LinkedIn'
  BY <1>1, <1>2 DEF LinkedIn
<1> QED
  BY <1>1, <1>3 DEF FedInv, AtEntry

LEMMA TraceFed ==
  ASSUME BuilderInv, FedInv, TraceStep
  PROVE  FedInv'
<1>1. /\ status = "trace" /\ task' = task
      /\ status' = CASE phase' = "throw" -> "throw"
                 [] phase' = "idle" /\ task.btype = "jmp" -> "FINISH_VM_INIT"
                 [] phase' = "idle" /\ task.btype # "jmp" -> "FIND_VM_INIT"
                 [] OTHER -> status
  BY DEF TraceStep
<1>2. /\ TraceOK /\ Backed(tfg) /\ LinkedIn /\ Len(traceList) >= 1
      /\ Len(traceList) \in Nat /\ flowIdx \in Nat \ {0}
  BY <1>1 DEF BuilderInv, GraphsOK, TaskOK, Running, FedInv, TraceOK
<1>3. ASSUME LinkedIn', phase' = "emulate" => flowIdx' = 1,
             phase' \in {"merge", "idle"} => Returned'
      PROVE  FedInv'
  <2>1. /\ phase' = "throw" => status' = "throw"
        /\ phase' = "idle" => \/ status' = "FINISH_VM_INIT" /\ task.btype = "jmp"
                              \/ status' = "FIND_VM_INIT"
        /\ phase' \notin {"throw", "idle"} => status' = "trace"
    BY <1>1
  <2>2. status' = "FINISH_VM_INIT" => task'.btype = "jmp"
    BY <1>1, <2>1
  <2>3. status' = "FIND_VM_INIT" => phase' = "idle"
    BY <2>1
  <2>4. status' # "match"
    BY <2>1
  <2> QED
    BY <1>3, <2>2, <2>3, <2>4 DEF FedInv, AtEntry
<1>4. CASE Emulate
  <2>1. /\ phase = "emulate" /\ phase' = phase /\ flowIdx' = flowIdx /\ tfg' = tfg
        /\ code' = code
    BY <1>4 DEF Emulate
  <2>2. flowIdx = 1
    BY <2>1, <1>1 DEF FedInv
  <2>3. Len(traceList') >= 1
    BY <1>4, <1>2, EmulateKeeps
  <2>4. Linked' = {}
    BY <2>1, <2>2 DEF Linked
  <2>5. LinkedIn'
    BY <2>1, <2>2, <2>3, <2>4 DEF LinkedIn
  <2> QED
    BY <2>1, <2>2, <2>5, <1>3
<1>5. CASE EmulationEnds
  <2>1. phase' = "link" /\ UNCHANGED <<code, traceList, flowIdx, tfg>>
    BY <1>5 DEF EmulationEnds
  <2>2. LinkedIn'
    BY <2>1, <1>2 DEF LinkedIn, Linked
  <2> QED
    BY <2>1, <2>2, <1>3
<1>6. CASE AddTraceFlow
  <2> DEFINE f == traceList[flowIdx]
             t == traceList[flowIdx + 1]
  <2>1. /\ flowIdx < Len(traceList) /\ flowIdx' = flowIdx + 1
        /\ code' = code /\ traceList' = traceList
        /\ f = t \/ code[f].kind # "undecodable"
        /\ phase = "link" /\ phase' \in {"throw", phase}
    BY <1>6 DEF AddTraceFlow
  <2>2. /\ DOMAIN tfg.instructionToNodeMap \subseteq DOMAIN tfg'.instructionToNodeMap
        /\ f # t => {f, t} \subseteq DOMAIN tfg'.instructionToNodeMap
    BY <1>6, <1>2, LinkKeeps
  <2>3. ASSUME NEW i \in Linked'
        PROVE  /\ code'[traceList'[i]].kind # "undecodable"
               /\ traceList'[i] \in DOMAIN tfg'.instructionToNodeMap
               /\ traceList'[i + 1] \in DOMAIN tfg'.instructionToNodeMap
    <3>1. i \in 1..flowIdx /\ traceList[i] # traceList[i + 1]
      BY <2>1, <1>2 DEF Linked
    <3>2. CASE i = flowIdx
      BY <2>1, <2>2, <3>1, <3>2
    <3>3. CASE i # flowIdx
      <4>1. i \in Linked
        BY <1>2, <3>1, <3>3 DEF Linked
      <4> QED
        BY <4>1, <1>2, <2>1, <2>2 DEF LinkedIn
    <3> QED
      BY <3>2, <3>3
  <2>4. flowIdx' <= Len(traceList')
    BY <2>1, <1>2
  <2>5. LinkedIn'
    BY <2>3, <2>4 DEF LinkedIn
  <2> QED
    BY <2>1, <2>5, <1>3
<1>7. CASE AddTraceFlowReturns
  <2>1. phase' = "merge" /\ UNCHANGED <<code, traceList, flowIdx, tfg>> /\ Returned
    BY <1>7 DEF AddTraceFlowReturns, Returned
  <2>2. LinkedIn' /\ Returned'
    BY <2>1, <1>2 DEF LinkedIn, Linked, Returned
  <2> QED
    BY <2>1, <2>2, <1>3
<1>8. CASE MergeAllNodes
  <2>1. /\ phase = "merge" /\ UNCHANGED <<code, traceList, flowIdx>>
        /\ phase' # "emulate"
    BY <1>8 DEF MergeAllNodes, MergeNode, RejectNode, MergePassEnds
  <2>2. DOMAIN tfg'.instructionToNodeMap = DOMAIN tfg.instructionToNodeMap
    <3>1. CASE MergeNode
      BY <3>1, <1>2, MergeKeeps
    <3>2. CASE RejectNode \/ MergePassEnds
      BY <3>2 DEF RejectNode, MergePassEnds
    <3> QED
      BY <3>1, <3>2, <1>8 DEF MergeAllNodes
  <2>3. Returned
    BY <2>1, <1>1 DEF FedInv
  <2>4. LinkedIn' /\ Returned'
    BY <2>1, <2>2, <2>3, <1>2 DEF LinkedIn, Linked, Returned
  <2> QED
    BY <2>1, <2>4, <1>3
<1> QED
  BY <1>4, <1>5, <1>6, <1>7, <1>8 DEF TraceStep

LEMMA FedKeeps ==
  ASSUME BuilderInv, FedInv, [BuilderNext]_allVars
  PROVE  FedInv'
<1>0. ASSUME UNCHANGED <<code, traceList, flowIdx, tfg>>
      PROVE  (LinkedIn => LinkedIn') /\ (Returned => Returned')
  BY <1>0 DEF LinkedIn, Returned, Linked
<1>1. CASE UNCHANGED allVars
  <2>1. UNCHANGED <<code, traceList, flowIdx, tfg, status, phase, task>>
    BY <1>1 DEF allVars, vars, builderVars
  <2> QED
    BY <2>1, <1>0 DEF FedInv, AtEntry
<1>2. CASE BuildVmpBlock
  BY <1>2, BeginFed DEF BuildVmpBlock
<1>3. CASE ExitCallOp
  BY <1>3, BeginFed DEF ExitCallOp
<1>4. CASE TraceStep
  BY <1>4, TraceFed
<1>5. CASE FindFirst \/ FindNext
  <2>1. /\ UNCHANGED <<code, traceList, flowIdx>> /\ AtEntry
        /\ status' \in {"match", "false", "overread"}
        /\ status' = "match" => tfg' = tfg
    BY <1>5 DEF FindFirst, FindNext, NotFound, Overread, WalkFrame, AtEntry
  <2>2. status' = "match" => LinkedIn' /\ Returned'
    BY <2>1, <1>0 DEF FedInv
  <2> QED
    BY <2>1, <2>2 DEF FedInv, AtEntry
<1>6. CASE \/ NewFunction \/ FindEnds \/ CheckAccepts \/ WalkEnds \/ AnaVmpHandlerThrows
           \/ ReachVisited \/ JmpConstOp \/ JmpOp \/ ExitOp
  <2>1. status' \in Ended
    BY <1>6 DEF NewFunction, FindEnds, CheckAccepts, WalkEnds, AnaVmpHandlerThrows,
       ReachVisited, JmpConstOp, JmpOp, ExitOp, Ended
  <2> QED
    BY <2>1 DEF FedInv, AtEntry, Ended
<1>7. CASE SkipHandler \/ PlainOp
  <2>1. status = "FINISH_VM_INIT" /\ status' = status /\ task' = task
    BY <1>7 DEF SkipHandler, PlainOp, Executes, Handler, AtHandler, WalkFrame
  <2> QED
    BY <2>1 DEF FedInv, AtEntry
<1> QED
  BY <1>1, <1>2, <1>3, <1>4, <1>5, <1>6, <1>7
     DEF BuilderNext, Execute_FIND_VM_INIT, Execute_FINISH_VM_INIT

\* FastCheckVmpEntry traces on a graph of its own, so that its graph serves one
\* trace, and keeps what VmpTraceFlowTaskProofs shows of such a graph.
TaskVarsOK ==
  /\ tasks \in 0..MaxTasks
  /\ badNodeList \subseteq Addr /\ cursor \in Nat /\ bUpdateNode \in BOOLEAN

CheckInv ==
  /\ TaskVarsOK
  /\ status \in Running => task.btype # "none"
  /\ AtEntry => task.btype # "jmp"
  /\ status \in Running /\ task.btype = "check" => Inv /\ Followed

LEMMA BeginVars ==
  ASSUME TaskVarsOK, NEW t, NEW graph, Begin(t, graph)
  PROVE  TaskVarsOK' /\ tasks' >= 1
<1>1. /\ tasks < MaxTasks /\ tasks' = tasks + 1 /\ badNodeList' = badNodeList
      /\ cursor' = cursor /\ bUpdateNode' = bUpdateNode /\ MaxTasks \in Nat
  BY ProgramAssumption DEF Begin, mergeVars
<1> QED
  BY <1>1 DEF TaskVarsOK

LEMMA BeginCheck ==
  ASSUME BuilderInv, TaskVarsOK, NEW t, t.start \in Addr, Begin(t, EmptyGraph)
  PROVE  Inv' /\ Followed'
<1>1. /\ traceList' = <<t.start>> /\ flowIdx' = 1 /\ phase' = "emulate"
      /\ code' = code /\ tfg' = EmptyGraph
  BY DEF Begin
<1>2. code \in Programs /\ MaxTrace \in Nat
  BY ProgramAssumption DEF BuilderInv, TraceOK
<1>3. traceList' \in Seq(Addr) /\ Len(traceList') = 1
  BY <1>1
<1>4. Walked(traceList', code')
  BY <1>3 DEF Walked
<1>5. Sound(tfg', code') /\ StraightBlocks(tfg'.nodeMap, code')
  BY <1>1, EmptySound
<1>6. TaskVarsOK' /\ tasks' >= 1
  BY BeginVars
<1>7. Inv'
  BY <1>1, <1>2, <1>3, <1>4, <1>5, <1>6 DEF Inv, TaskVarsOK, Phases
<1>8. Followed'
  BY <1>1 DEF Followed, Linked
<1> QED
  BY <1>7, <1>8

LEMMA TraceVars ==
  ASSUME BuilderInv, TaskVarsOK, TraceStep
  PROVE  TaskVarsOK'
<1>1. CASE Emulate \/ EmulationEnds \/ AddTraceFlow \/ AddTraceFlowReturns
           \/ MergePassEnds
  <2>1. /\ tasks' = tasks /\ badNodeList' \in {badNodeList, {}}
        /\ cursor' \in {cursor, 0} /\ bUpdateNode' \in {bUpdateNode, FALSE}
    BY <1>1 DEF Emulate, EmulationEnds, AddTraceFlow, AddTraceFlowReturns, MergePassEnds,
       mergeVars
  <2>2. badNodeList' \subseteq Addr /\ cursor' \in Nat
    BY <2>1 DEF TaskVarsOK
  <2>3. bUpdateNode' \in BOOLEAN
    BY <2>1, Zenon DEF TaskVarsOK
  <2> QED
    BY <2>1, <2>2, <2>3 DEF TaskVarsOK
<1>2. CASE MergeNode \/ RejectNode
  <2> DEFINE n == Least(Unvisited)
  <2>1. /\ Unvisited # {} /\ cursor' = n /\ tasks' = tasks
        /\ badNodeList' \in {badNodeList, badNodeList \cup {n}}
        /\ bUpdateNode' \in {bUpdateNode, TRUE}
    BY <1>2 DEF MergeNode, RejectNode
  <2>2. DOMAIN tfg.nodeMap \subseteq Addr /\ Addr \subseteq Nat
    BY AddrAssumption, HeldBlocks DEF BuilderInv, GraphsOK, Backed
  <2>3. Unvisited \in SUBSET Nat /\ Unvisited \subseteq Addr
    BY <2>2 DEF Unvisited
  <2>4. n \in Addr /\ n \in Nat
    BY <2>1, <2>3, LeastIn
  <2> HIDE DEF n
  <2> QED
    BY <2>1, <2>4 DEF TaskVarsOK
<1> QED
  BY <1>1, <1>2 DEF TraceStep, MergeAllNodes

LEMMA CheckKeeps ==
  ASSUME FallsThrough, BuilderInv, FedInv, CheckInv, [BuilderNext]_allVars
  PROVE  CheckInv'
<1>0. TaskVarsOK
  BY DEF CheckInv
<1>1. CASE UNCHANGED allVars
  <2>1. UNCHANGED vars /\ status' = status /\ task' = task
    BY <1>1 DEF allVars, builderVars
  <2>2. Inv /\ Followed => Inv' /\ Followed'
    BY <2>1, TaskInv, TaskFollowed
  <2> QED
    BY <2>1, <2>2 DEF CheckInv, TaskVarsOK, AtEntry, vars, mergeVars
<1>2. CASE BuildVmpBlock
  <2>1. /\ Begin(Head(anaQueue), tfg) /\ anaQueue # <<>> /\ anaQueue \in Seq(QueuedTasks)
    BY <1>2 DEF BuildVmpBlock, BuilderInv, TaskOK
  <2>2. task' \in QueuedTasks /\ status' = "trace"
    BY <2>1 DEF Begin
  <2>3. task'.btype \in {"entry", "jmp"}
    BY <2>2 DEF QueuedTasks
  <2>4. TaskVarsOK'
    BY <1>0, <2>1, BeginVars
  <2> QED
    BY <2>2, <2>3, <2>4 DEF CheckInv, AtEntry
<1>3. CASE ExitCallOp
  <2>1. PICK a \in Entries : Begin([task EXCEPT !.btype = "check", !.start = a], EmptyGraph)
    BY <1>3 DEF ExitCallOp
  <2> DEFINE t == [task EXCEPT !.btype = "check", !.start = a]
  <2>2. t.start = a /\ t.btype = "check" /\ a \in Addr
    BY ProgramAssumption DEF BuilderInv, TaskOK, RunningTasks
  <2> HIDE DEF t
  <2>3. Begin(t, EmptyGraph) /\ task' = t /\ status' = "trace"
    BY <2>1 DEF Begin, t
  <2>4. TaskVarsOK' /\ Inv' /\ Followed'
    BY <1>0, <2>2, <2>3, BeginVars, BeginCheck
  <2> QED
    BY <2>2, <2>3, <2>4 DEF CheckInv, AtEntry
<1>4. CASE TraceStep
  <2>1. /\ status = "trace" /\ task' = task /\ TaskStep
        /\ status' \in {"throw", "FINISH_VM_INIT", "FIND_VM_INIT", "trace"}
        /\ status' = "FIND_VM_INIT" => task.btype # "jmp"
    BY <1>4 DEF TraceStep, TaskStep
  <2>2. TaskVarsOK'
    BY <1>0, <1>4, TraceVars
  <2>3. Inv /\ Followed => Inv' /\ Followed'
    BY <2>1, TaskInv, TaskFollowed
  <2> QED
    BY <2>1, <2>2, <2>3 DEF CheckInv, AtEntry, Running
<1>5. CASE FindFirst \/ FindNext \/ SkipHandler \/ PlainOp
  <2>1. /\ UNCHANGED <<code, phase, tasks, traceList, flowIdx, mergeVars>>
        /\ task' = task /\ status \in Running
        /\ status' \in Running => tfg' = tfg
    BY <1>5 DEF FindFirst, FindNext, SkipHandler, PlainOp, Executes, Handler, AtHandler,
       WalkFrame, NotFound, Overread, Running
  <2>2. TaskVarsOK'
    BY <1>0, <2>1 DEF TaskVarsOK, mergeVars
  <2>3. status' \in Running => UNCHANGED vars
    BY <2>1 DEF vars
  <2>4. status' \in Running => (Inv /\ Followed => Inv' /\ Followed')
    BY <2>3, TaskInv, TaskFollowed
  <2>5. AtEntry' => AtEntry
    BY <1>5 DEF AtEntry, FindFirst, FindNext, SkipHandler, PlainOp, Executes, Handler,
       AtHandler
  <2> QED
    BY <2>1, <2>2, <2>4, <2>5 DEF CheckInv
<1>6. CASE \/ NewFunction \/ FindEnds \/ CheckAccepts \/ WalkEnds \/ AnaVmpHandlerThrows
           \/ ReachVisited \/ JmpConstOp \/ JmpOp \/ ExitOp
  <2>1. status' \in Ended
    BY <1>6 DEF NewFunction, FindEnds, CheckAccepts, WalkEnds, AnaVmpHandlerThrows,
       ReachVisited, JmpConstOp, JmpOp, ExitOp, Ended
  <2>2. UNCHANGED <<tasks, mergeVars>>
    BY <1>6 DEF NewFunction, FindEnds, CheckAccepts, WalkEnds, AnaVmpHandlerThrows,
       ReachVisited, JmpConstOp, JmpOp, ExitOp, Executes, Handler, WalkFrame
  <2> QED
    BY <1>0, <2>1, <2>2 DEF CheckInv, TaskVarsOK, mergeVars, AtEntry, Ended, Running
<1> QED
  BY <1>1, <1>2, <1>3, <1>4, <1>5, <1>6
     DEF BuilderNext, Execute_FIND_VM_INIT, Execute_FINISH_VM_INIT

\* What fills a slot leads on: it is no rep.
Slot(a) == does[a].op \in {"pushkey", "push"} \/ code[a].kind = "call"

SlotsMoveOn ==
  \A p \in Programs : \A d \in Handlers : \A a \in Addr :
    d[a].op \in {"pushkey", "push"} \/ p[a].kind = "call" => a \notin p[a].succ

SlotsOf(s) == {i \in 1..Len(s) : Slot(s[i])}

\* Slots counts these positions.
LEMMA SlotsFields ==
  ASSUME NEW s \in Seq(Addr)
  PROVE  /\ Slots(s) = Cardinality(SlotsOf(s))
         /\ IsFiniteSet(SlotsOf(s)) /\ Slots(s) \in Nat
<1>1. Slots(s) = Cardinality(SlotsOf(s))
  BY DEF Slots, SlotsOf, Slot
<1>2. IsFiniteSet(1..Len(s))
  BY FS_Interval
<1>3. IsFiniteSet(SlotsOf(s))
  BY <1>2, FS_Subset DEF SlotsOf
<1> QED
  BY <1>1, <1>3, FS_CardinalityType

\* A bijection is what makes two counts one.
LEMMA SameCount ==
  ASSUME NEW S, NEW T, IsFiniteSet(S), NEW f \in [S -> T],
         \A x, y \in S : f[x] = f[y] => x = y, \A y \in T : \E x \in S : f[x] = y
  PROVE  IsFiniteSet(T) /\ Cardinality(T) = Cardinality(S)
<1>1. f \in Bijection(S, T)
  BY DEF Bijection, Injection, Surjection, IsInjective
<1>2. ExistsBijection(S, T)
  BY <1>1 DEF ExistsBijection
<1> QED
  BY <1>2, FS_Bijection

\* A node with another behind it fills the slots of both.
LEMMA SlotsAppend ==
  ASSUME NEW s \in Seq(Addr), NEW u \in Seq(Addr)
  PROVE  Slots(s \o u) = Slots(s) + Slots(u)
<1> DEFINE n == Len(s)
           m == Len(u)
           S == SlotsOf(s)
           U == SlotsOf(u)
           T == {i \in (n + 1)..(n + m) : Slot(u[i - n])}
           f == [i \in U |-> i + n]
<1>1. n \in Nat /\ m \in Nat
  OBVIOUS
<1>2. /\ s \o u \in Seq(Addr) /\ Len(s \o u) = n + m
      /\ \A i \in 1..n : (s \o u)[i] = s[i]
      /\ \A i \in (n + 1)..(n + m) : (s \o u)[i] = u[i - n]
  OBVIOUS
<1> DEFINE w == s \o u
<1> HIDE DEF n, m, w
<1>3. SlotsOf(w) = S \cup T
  <2>1. w \in Seq(Addr) /\ Len(w) = n + m
    BY <1>2 DEF w
  <2>2. \A i \in 1..n : w[i] = s[i]
    BY <1>2 DEF w
  <2>3. \A i \in (n + 1)..(n + m) : w[i] = u[i - n]
    BY <1>2 DEF w
  <2> QED
    BY <1>1, <2>1, <2>2, <2>3 DEF SlotsOf, n
<1>4. S \cap T = {}
  BY <1>1 DEF SlotsOf, n
<1>5. IsFiniteSet(U) /\ IsFiniteSet(S)
  BY SlotsFields
<1>6. IsFiniteSet(T) /\ Cardinality(T) = Cardinality(U)
  <2>1. f \in [U -> T]
    <3> SUFFICES ASSUME NEW i \in U PROVE i + n \in T
      OBVIOUS
    <3>1. i \in 1..m /\ Slot(u[i])
      BY DEF SlotsOf, m
    <3> DEFINE k == i + n
    <3>2. k - n = i /\ k \in (n + 1)..(n + m)
      BY <3>1, <1>1
    <3> HIDE DEF k
    <3>3. k \in T
      BY <3>1, <3>2
    <3> QED
      BY <3>3 DEF k
  <2>2. \A x, y \in U : f[x] = f[y] => x = y
    BY <1>1 DEF SlotsOf, m
  <2>3. ASSUME NEW y \in T PROVE \E x \in U : f[x] = y
    <3>1. y - n \in 1..m /\ y - n + n = y
      BY <1>1
    <3>2. y - n \in U
      BY <3>1 DEF SlotsOf, m
    <3> QED
      BY <3>1, <3>2
  <2> HIDE DEF f, T, U
  <2> QED
    BY <2>1, <2>2, <2>3, <1>5, SameCount
<1>7. Cardinality(S \cup T) = Cardinality(S) + Cardinality(T) - 0
  BY <1>4, <1>5, <1>6, FS_Union, FS_EmptySet
<1>8. Slots(w) = Cardinality(S \cup T)
  BY <1>2, <1>3, SlotsFields DEF w
<1>9. /\ Cardinality(S) = Slots(s) /\ Cardinality(U) = Slots(u)
      /\ Slots(s) \in Nat /\ Slots(u) \in Nat
  BY SlotsFields
<1> HIDE DEF S, T, U
<1>10. Slots(w) = Slots(s) + Slots(u)
  BY <1>6, <1>7, <1>8, <1>9
<1> QED
  BY <1>10 DEF w

\* A walk that has read up to h has read the first n contexts, too.
LEMMA SlotsPrefix ==
  ASSUME NEW s \in Seq(Addr), NEW n \in Nat, NEW h \in Nat, n <= h, h <= Len(s)
  PROVE  Slots(SubSeq(s, 1, n)) <= Slots(SubSeq(s, 1, h))
<1> DEFINE a == SubSeq(s, 1, n)
           b == SubSeq(s, 1, h)
<1>1. /\ a \in Seq(Addr) /\ b \in Seq(Addr) /\ Len(a) = n /\ Len(b) = h
      /\ \A i \in 1..n : a[i] = s[i]
      /\ \A i \in 1..h : b[i] = s[i]
  <2>1. \A i \in 1..n : 1 + i - 1 = i
    OBVIOUS
  <2>2. \A i \in 1..h : 1 + i - 1 = i
    OBVIOUS
  <2> QED
    BY <2>1, <2>2
<1> HIDE DEF a, b
<1>2. SlotsOf(a) \subseteq SlotsOf(b)
  BY <1>1 DEF SlotsOf
<1>3. /\ Slots(a) = Cardinality(SlotsOf(a)) /\ Slots(b) = Cardinality(SlotsOf(b))
      /\ IsFiniteSet(SlotsOf(b))
  BY <1>1, SlotsFields
<1>4. Cardinality(SlotsOf(a)) <= Cardinality(SlotsOf(b))
  BY <1>2, <1>3, FS_Subset
<1>5. Slots(a) <= Slots(b)
  BY <1>3, <1>4
<1> QED
  BY <1>5 DEF a, b

\* node is the trace from i to h: the contexts of the block's instructions one
\* after the other, up to the first of the last one.
TakenFrom(node, i, h) ==
  /\ i \in Nat \ {0} /\ h \in Nat /\ h \in i..Len(traceList)
  /\ Len(node.contexts) = h - i + 1
  /\ node.contexts = SubSeq(traceList, i, h)
  /\ node.addrs \in Seq(Addr) /\ Len(node.addrs) \in Nat \ {0}
  /\ Cardinality(Steps(i, h)) = Len(node.addrs)
  /\ \A m \in i..h :
       /\ Cardinality(Steps(i, m)) \in 1..Len(node.addrs)
       /\ node.addrs[Cardinality(Steps(i, m))] = traceList[m]
       /\ traceList[m] \in DOMAIN tfg.instructionToNodeMap
       /\ IsTail(tfg, traceList[m]) <=> m = h

\* What GetNextNode reads of a linked trace.
LEMMA NodeIs ==
  ASSUME TraceOK, GraphsOK, MapsAgree, TraceFollowsBlocks,
         NEW i, NEW node \in Nodes, ReadAt(node, i),
         NEW h, h = i + Len(node.contexts) - 1, h <= flowIdx
  PROVE  TakenFrom(node, i, h)
<1> DEFINE n     == Len(node.contexts)
           addrs == node.addrs
           L     == Len(addrs)
<1>1. /\ i \in Nat \ {0} /\ n \in Nat \ {0} /\ i + n - 1 <= Len(traceList)
      /\ Cardinality(Steps(i, i + n - 1)) = L
  BY ReadFields
<1>2. /\ i \in 1..Len(traceList) /\ addrs = BlockFrom(traceList[i])
      /\ traceList[i] \in DOMAIN tfg.instructionToNodeMap
      /\ node.contexts = SubSeq(traceList, i, i + n - 1)
      /\ \A m \in Sizes(i, addrs) : n <= m
  BY DEF ReadAt
<1>3. addrs \in Seq(Addr) /\ L \in Nat \ {0}
  BY <1>2, BlockFromFields
<1>4. traceList \in Seq(Addr) /\ Len(traceList) \in Nat
  BY DEF TraceOK
<1> HIDE DEF n, addrs, L
<1>5. h \in Nat /\ h \in i..Len(traceList) /\ n = h - i + 1 /\ i + n - 1 = h
  BY <1>1, <1>4 DEF n
<1>6. Cardinality(Steps(i, h)) = L /\ node.contexts = SubSeq(traceList, i, h)
  BY <1>1, <1>2, <1>5
<1>7. ASSUME NEW m \in i..h
      PROVE  /\ Cardinality(Steps(i, m)) \in 1..L
             /\ addrs[Cardinality(Steps(i, m))] = traceList[m]
             /\ traceList[m] \in DOMAIN tfg.instructionToNodeMap
             /\ IsTail(tfg, traceList[m]) <=> m = h
  <2> DEFINE c == Cardinality(Steps(i, m))
  <2>1. Cardinality(Steps(i, h)) <= Len(BlockFrom(traceList[i]))
    <3>1. L <= L
      BY <1>3
    <3> QED
      BY <3>1, <1>2, <1>6 DEF L
  <2>2. c \in 1..L /\ addrs[c] = traceList[m]
    BY <2>1, <1>2, <1>5, <1>7, WalkAlong DEF L
  <2> HIDE DEF c
  <2>3. /\ addrs[c] \in DOMAIN tfg.instructionToNodeMap
        /\ IsTail(tfg, addrs[c]) <=> c = L
    BY <1>2, <2>2, BlockFromIs DEF L
  <2>4. c = L => m = h
    <3> SUFFICES ASSUME c = L PROVE m = h
      OBVIOUS
    <3>1. m - i + 1 \in 1..(Len(traceList) - i + 1) /\ i + (m - i + 1) - 1 = m
      BY <1>1, <1>4, <1>5, <1>7
    <3>2. m - i + 1 \in Sizes(i, addrs)
      BY <3>1 DEF Sizes, c, L
    <3>3. n <= m - i + 1
      BY <1>2, <3>2
    <3> QED
      BY <3>3, <1>1, <1>5, <1>7
  <2>5. m = h => c = L
    BY <1>6 DEF c
  <2> QED
    BY <2>2, <2>3, <2>4, <2>5 DEF c
<1> QED
  BY <1>1, <1>3, <1>5, <1>6, <1>7 DEF TakenFrom, n, addrs, L

\* As many slots are filled by what a block has as by what the trace has.
LEMMA NodeSlots ==
  ASSUME SlotsMoveOn, TaskOK, TraceOK, GraphsOK, MapsAgree, TraceFollowsBlocks,
         NEW i, NEW node \in Nodes, ReadAt(node, i),
         i + Len(node.contexts) - 1 <= flowIdx
  PROVE  Slots(node.addrs) = Slots(node.contexts)
<1> DEFINE addrs == node.addrs
           ctx   == node.contexts
           n     == Len(ctx)
           h     == i + n - 1
           L     == Len(addrs)
           C(m)  == Cardinality(Steps(i, m))
           S     == SlotsOf(ctx)
           U     == SlotsOf(addrs)
           f     == [k \in S |-> C(i + k - 1)]
<1>1. /\ i \in Nat \ {0} /\ h \in Nat /\ h \in i..Len(traceList) /\ n = h - i + 1
      /\ ctx = SubSeq(traceList, i, h) /\ addrs \in Seq(Addr) /\ L \in Nat \ {0}
      /\ C(h) = L
      /\ \A m \in i..h : C(m) \in 1..L /\ addrs[C(m)] = traceList[m]
  <2>1. PICK e : e = i + Len(node.contexts) - 1
    OBVIOUS
  <2>2. TakenFrom(node, i, e)
    BY <2>1, NodeIs
  <2>3. e = h
    BY <2>1
  <2> QED
    BY <2>2, <2>3 DEF TakenFrom
<1>2. traceList \in Seq(Addr) /\ Len(traceList) \in Nat /\ ctx \in Seq(Addr)
  BY DEF TraceOK, Nodes
<1> HIDE DEF n, h, addrs, ctx, L
<1>3. /\ Len(ctx) = n /\ i + n - 1 = h
      /\ \A k \in 1..n : i + k - 1 \in i..h /\ ctx[k] = traceList[i + k - 1]
  <2>1. Len(ctx) = n /\ n \in Nat \ {0} /\ i + n - 1 = h
    BY <1>1 DEF n
  <2>2. h <= Len(traceList) /\ i <= h
    BY <1>1, <1>2
  <2>3. \A k \in 1..n : ctx[k] = traceList[i + k - 1]
    BY <2>2, <1>1, <1>2, SubSeqIs
  <2>4. i \in Nat /\ h \in Nat
    BY <1>1
  <2>5. \A k \in 1..n : i + k - 1 \in i..h
    BY <2>1, <2>4
  <2> QED
    BY <2>1, <2>3, <2>5
<1>4. f \in [S -> U]
  <2> SUFFICES ASSUME NEW k \in S PROVE C(i + k - 1) \in U
    OBVIOUS
  <2>1. k \in 1..n /\ Slot(ctx[k])
    BY <1>3 DEF SlotsOf
  <2>2. i + k - 1 \in i..h /\ ctx[k] = traceList[i + k - 1]
    BY <2>1, <1>3
  <2> DEFINE c == C(i + k - 1)
  <2>3. c \in 1..L /\ addrs[c] = ctx[k]
    BY <2>2, <1>1
  <2> HIDE DEF c
  <2>4. c \in U
    BY <2>1, <2>3 DEF SlotsOf, L
  <2> QED
    BY <2>4 DEF c
<1>5. ASSUME NEW m \in i..h, NEW k \in i..h, Slot(traceList[m]), m < k
      PROVE  C(m) # C(k)
  <2>1. m \in Nat \ {0} /\ k \in Nat /\ m + 1 <= k /\ i <= m /\ m \in 1..(Len(traceList) - 1)
    BY <1>1, <1>2, <1>5
  <2>2. traceList[m + 1] \in code[traceList[m]].succ
    BY <2>1 DEF TraceOK, Walked
  <2>3. traceList[m] \notin code[traceList[m]].succ
    <3>1. traceList[m] \in Addr /\ code \in Programs /\ does \in Handlers
      BY <2>1, <1>2 DEF TraceOK, TaskOK
    <3> QED
      BY <3>1, <1>5 DEF SlotsMoveOn, Slot
  <2>4. C(m + 1) = C(m) + 1 /\ C(m) \in Nat
    BY <2>1, <2>2, <2>3, <1>1, StepsGrow
  <2>5. C(m + 1) <= C(k)
    BY <2>1, <1>1, StepsMono
  <2>6. C(k) \in 1..L
    BY <1>1
  <2> DEFINE x == C(m)
             y == C(k)
             z == C(m + 1)
  <2>7. z = x + 1 /\ x \in Nat /\ z <= y /\ y \in 1..L
    BY <2>4, <2>5, <2>6
  <2> HIDE DEF x, y, z, C
  <2>8. x # y
    BY <2>7, <1>1
  <2> QED
    BY <2>8 DEF x, y
<1>6. \A x, y \in S : f[x] = f[y] => x = y
  <2> SUFFICES ASSUME NEW x \in S, NEW y \in S, C(i + x - 1) = C(i + y - 1), x # y
               PROVE  FALSE
    OBVIOUS
  <2>1. x \in 1..n /\ y \in 1..n /\ Slot(ctx[x]) /\ Slot(ctx[y])
    BY <1>3 DEF SlotsOf
  <2> DEFINE p == i + x - 1
             q == i + y - 1
  <2>2. /\ p \in i..h /\ q \in i..h /\ Slot(traceList[p]) /\ Slot(traceList[q])
    BY <2>1, <1>3
  <2>3. p < q \/ q < p
    BY <2>1, <1>1, <1>3
  <2>4. C(p) = C(q)
    OBVIOUS
  <2> HIDE DEF p, q, C
  <2> QED
    BY <2>2, <2>3, <2>4, <1>5
<1>7. ASSUME NEW c \in U PROVE \E k \in S : f[k] = c
  <2>1. c \in 1..L /\ Slot(addrs[c])
    BY DEF SlotsOf, L
  <2>2. PICK m \in i..h : C(m) = c
    <3>1. i <= h /\ c \in 1..Cardinality(Steps(i, h))
      BY <2>1, <1>1
    <3> QED
      BY <3>1, <1>1, StepsReach
  <2>3. Slot(traceList[m])
    BY <2>1, <2>2, <1>1
  <2> DEFINE k == m - i + 1
  <2>4. k \in 1..n /\ i + k - 1 = m
    BY <2>2, <1>1
  <2> HIDE DEF k
  <2>5. ctx[k] = traceList[m]
    BY <2>4, <1>3
  <2>6. k \in S
    BY <2>3, <2>4, <2>5, <1>3 DEF SlotsOf
  <2>7. f[k] = C(m)
    BY <2>4, <2>6
  <2> QED
    BY <2>2, <2>6, <2>7
<1> HIDE DEF f, C
<1>8. Slots(ctx) = Cardinality(S) /\ IsFiniteSet(S) /\ Slots(addrs) = Cardinality(U)
  BY <1>1, <1>2, SlotsFields
<1> HIDE DEF S, U
<1>9. Cardinality(U) = Cardinality(S)
  BY <1>4, <1>6, <1>7, <1>8, SameCount
<1> QED
  BY <1>8, <1>9 DEF addrs, ctx

\* The last instructions of the blocks, and where among n contexts the next
\* block begins.
Tails == {a \in DOMAIN tfg.instructionToNodeMap : IsTail(tfg, a)}
CutsOf(s, n, tails) == {q \in 2..n : s[q - 1] \in tails}
Cuts(n) == CutsOf(traceList, n, Tails)

LEMMA EndsAreCuts ==
  ASSUME NEW n
  PROVE  EndsOf(n) = Cuts(n)
BY DEF EndsOf, Cuts, CutsOf, Tails

\* s begins with a push key and its call in a block of their own, for which
\* Execute_FIND_VM_INIT takes a block more.
KeyOf(s, tails) ==
  /\ Len(s) >= 2 /\ does[s[1]].op = "pushkey" /\ code[s[2]].kind = "call"
  /\ s[1] \notin tails /\ s[2] \in tails

\* node is the trace up to e, k blocks behind the first.
UpTo(node, e, k) ==
  /\ e \in Nat /\ e \in 1..Len(traceList) /\ node \in Nodes
  /\ node.contexts = SubSeq(traceList, 1, e)
  /\ Slots(node.addrs) = Slots(node.contexts)
  /\ traceList[1] \in DOMAIN tfg.instructionToNodeMap /\ traceList[e] \in Tails
  /\ Cardinality(Cuts(e)) <= k
  /\ e < Len(traceList) /\ traceList[e + 1] \in DOMAIN tfg.instructionToNodeMap =>
       Cardinality(Cuts(e)) = k

LEMMA CutsFields ==
  ASSUME NEW s, NEW n \in Nat, NEW tails
  PROVE  IsFiniteSet(CutsOf(s, n, tails)) /\ Cardinality(CutsOf(s, n, tails)) \in Nat
<1>1. IsFiniteSet(2..n) /\ CutsOf(s, n, tails) \in SUBSET (2..n)
  BY FS_Interval DEF CutsOf
<1> QED
  BY <1>1, FS_Subset, FS_CardinalityType

\* The first block, and one more.
LEMMA FirstUpTo ==
  ASSUME SlotsMoveOn, TaskOK, TraceOK, GraphsOK, MapsAgree, TraceFollowsBlocks,
         NEW node \in Nodes, ReadAt(node, 1), Len(node.contexts) <= flowIdx
  PROVE  UpTo(node, Len(node.contexts), 0)
<1>1. PICK e : e = Len(node.contexts)
  OBVIOUS
<1>0. e \in Nat
  BY <1>1 DEF Nodes
<1>2. TakenFrom(node, 1, e)
  <2>1. e = 1 + Len(node.contexts) - 1 /\ e <= flowIdx
    BY <1>0, <1>1
  <2> QED
    BY <2>1, NodeIs
<1>3. Slots(node.addrs) = Slots(node.contexts)
  <2>1. 1 + Len(node.contexts) - 1 <= flowIdx
    BY <1>0, <1>1
  <2> QED
    BY <2>1, NodeSlots
<1>4. /\ e \in 1..Len(traceList) /\ node.contexts = SubSeq(traceList, 1, e)
      /\ \A m \in 1..e : /\ traceList[m] \in DOMAIN tfg.instructionToNodeMap
                         /\ IsTail(tfg, traceList[m]) <=> m = e
  BY <1>2 DEF TakenFrom
<1>5. Cuts(e) = {}
  <2> SUFFICES ASSUME NEW q \in 2..e, traceList[q - 1] \in Tails PROVE FALSE
    BY DEF Cuts, CutsOf
  <2>1. q - 1 \in 1..e /\ q - 1 # e
    BY <1>0
  <2> QED
    BY <2>1, <1>4 DEF Tails
<1>6. Cardinality(Cuts(e)) = 0
  BY <1>5, FS_EmptySet
<1>7. traceList[1] \in DOMAIN tfg.instructionToNodeMap /\ traceList[e] \in Tails
  BY <1>0, <1>4 DEF Tails
<1> QED
  BY <1>0, <1>1, <1>3, <1>4, <1>6, <1>7 DEF UpTo

\* An address without a block is not indexed.
LEMMA NoNodeIs ==
  ASSUME TraceOK, GraphsOK, NEW i \in 1..Len(traceList), NEW node, node = GetNextNode(i),
         node.addrs = <<>>, ~ node.overread
  PROVE  traceList[i] \notin DOMAIN tfg.instructionToNodeMap
<1> SUFFICES ASSUME traceList[i] \in DOMAIN tfg.instructionToNodeMap PROVE FALSE
  OBVIOUS
<1>1. ~ i > Len(traceList) /\ i \in Nat \ {0}
  BY DEF TraceOK
<1> DEFINE addrs == BlockFrom(traceList[i])
           sizes == Sizes(i, addrs)
           read  == [addrs |-> addrs, at |-> i, overread |-> FALSE,
                     contexts |-> SubSeq(traceList, i, i + Least(sizes) - 1)]
<1>2. node = IF sizes = {} THEN [NoNode EXCEPT !.overread = TRUE] ELSE read
  BY <1>1 DEF GetNextNode
<1>3. [NoNode EXCEPT !.overread = TRUE].overread
  BY DEF NoNode
<1>4. addrs # <<>>
  BY BlockFromFields
<1>5. read.addrs = addrs
  OBVIOUS
<1> HIDE DEF addrs, sizes, read
<1> QED
  BY <1>2, <1>3, <1>4, <1>5

LEMMA AppendUpTo ==
  ASSUME SlotsMoveOn, TaskOK, TraceOK, GraphsOK, MapsAgree, TraceFollowsBlocks,
         NEW node, NEW e, NEW k \in Nat, UpTo(node, e, k), e < Len(traceList),
         NEW next, next = GetNextNode(e + 1), ~ next.overread,
         e + Len(next.contexts) <= flowIdx
  PROVE  UpTo(AppendNode(node, next), e + Len(next.contexts), k + 1)
<1> DEFINE both == AppendNode(node, next)
           m    == Len(next.contexts)
           h    == e + m
<1>1. /\ e \in Nat /\ e \in 1..Len(traceList) /\ node \in Nodes
      /\ node.contexts = SubSeq(traceList, 1, e)
      /\ Slots(node.addrs) = Slots(node.contexts)
      /\ traceList[1] \in DOMAIN tfg.instructionToNodeMap /\ traceList[e] \in Tails
      /\ Cardinality(Cuts(e)) <= k
      /\ traceList[e + 1] \in DOMAIN tfg.instructionToNodeMap => Cardinality(Cuts(e)) = k
  BY DEF UpTo
<1>2. traceList \in Seq(Addr) /\ Len(traceList) \in Nat /\ e + 1 \in 1..Len(traceList)
      /\ e + 1 \in Nat \ {0}
  BY <1>1 DEF TraceOK
<1>3. /\ next \in Nodes
      /\ \/ ReadAt(next, e + 1)
         \/ next.addrs = <<>> /\ next.contexts = <<>>
  BY <1>2, NodeFields
<1>4. /\ both \in Nodes /\ both.addrs = node.addrs \o next.addrs
      /\ both.contexts = node.contexts \o next.contexts
  BY <1>1, <1>3, AppendNodeFields
<1>5. /\ node.addrs \in Seq(Addr) /\ next.addrs \in Seq(Addr)
      /\ node.contexts \in Seq(Addr) /\ next.contexts \in Seq(Addr) /\ m \in Nat
  <2>1. node.addrs \in Seq(Addr) /\ node.contexts \in Seq(Addr)
    BY <1>1 DEF Nodes
  <2>2. next.addrs \in Seq(Addr) /\ next.contexts \in Seq(Addr)
    BY <1>3 DEF Nodes
  <2> QED
    BY <2>1, <2>2
<1>6. /\ Slots(both.addrs) = Slots(node.addrs) + Slots(next.addrs)
      /\ Slots(both.contexts) = Slots(node.contexts) + Slots(next.contexts)
  <2>1. Slots(node.addrs \o next.addrs) = Slots(node.addrs) + Slots(next.addrs)
    BY <1>5, SlotsAppend
  <2>2. Slots(node.contexts \o next.contexts)
          = Slots(node.contexts) + Slots(next.contexts)
    BY <1>5, SlotsAppend
  <2> QED
    BY <1>4, <2>1, <2>2
<1>7. Cardinality(Cuts(e)) \in Nat /\ IsFiniteSet(Cuts(e))
  BY <1>1, CutsFields DEF Cuts
<1> HIDE DEF both, m
<1>8. CASE ReadAt(next, e + 1)
  <2>1. h = e + 1 + Len(next.contexts) - 1 /\ h <= flowIdx
    <3>1. h = e + 1 + m - 1
      BY <1>1, <1>5
    <3>2. e + m <= flowIdx
      BY DEF m
    <3> QED
      BY <3>1, <3>2 DEF m
  <2>2. TakenFrom(next, e + 1, h)
    BY <2>1, <1>3, <1>8, NodeIs
  <2>3. Slots(next.addrs) = Slots(next.contexts)
    BY <2>1, <1>3, <1>8, NodeSlots
  <2> HIDE DEF h
  <2>4. /\ h \in Nat /\ h \in (e + 1)..Len(traceList)
        /\ next.contexts = SubSeq(traceList, e + 1, h)
        /\ \A x \in (e + 1)..h :
             /\ traceList[x] \in DOMAIN tfg.instructionToNodeMap
             /\ IsTail(tfg, traceList[x]) <=> x = h
    BY <2>2 DEF TakenFrom
  <2>5. both.contexts = SubSeq(traceList, 1, h)
    <3>1. e <= h /\ h <= Len(traceList)
      BY <1>1, <1>2, <2>4
    <3>2. SubSeq(traceList, 1, e) \o SubSeq(traceList, e + 1, h) = SubSeq(traceList, 1, h)
      BY <3>1, <1>1, <1>2, <2>4, SubSeqJoin
    <3> QED
      BY <3>2, <1>1, <1>4, <2>4
  <2>6. Cuts(h) = Cuts(e) \cup {e + 1}
    <3>1. ASSUME NEW q \in 2..h
          PROVE  traceList[q - 1] \in Tails <=> (q \in 2..e /\ traceList[q - 1] \in Tails)
                                                 \/ q = e + 1
      <4>1. CASE q \in 2..e
        BY <4>1, <1>1
      <4>2. CASE q = e + 1
        BY <4>2, <1>1
      <4>3. CASE q \notin 2..e /\ q # e + 1
        <5>1. q \in Nat /\ q >= 2 /\ q <= h /\ e \in Nat /\ e >= 1 /\ h \in Nat
          <6>1. e \in Nat /\ h \in Nat /\ e \in 1..Len(traceList)
            BY <1>1, <2>4
          <6> QED
            BY <6>1, <3>1, <1>2
        <5>2. q - 1 \in (e + 1)..h /\ q - 1 # h
          BY <4>3, <5>1
        <5> QED
          BY <5>2, <4>3, <2>4 DEF Tails
      <4> QED
        BY <4>1, <4>2, <4>3
    <3>2. e + 1 \in 2..h /\ 2..e \subseteq 2..h
      <4>1. h \in (e + 1)..Len(traceList) /\ e \in 1..Len(traceList)
        BY <1>1, <2>4
      <4>2. e \in Nat /\ e >= 1 /\ h \in Nat /\ e + 1 <= h
        BY <4>1, <1>2
      <4> QED
        BY <4>2
    <3> QED
      BY <3>1, <3>2 DEF Cuts, CutsOf
  <2>7. Cardinality(Cuts(h)) = Cardinality(Cuts(e)) + 1
    <3>1. e + 1 \notin Cuts(e)
      BY <1>1 DEF Cuts, CutsOf
    <3> QED
      BY <3>1, <2>6, <1>7, FS_AddElement
  <2>8. Cardinality(Cuts(h)) = k + 1
    <3>1. traceList[e + 1] \in DOMAIN tfg.instructionToNodeMap
      BY <1>8 DEF ReadAt
    <3> QED
      BY <3>1, <2>7, <1>1
  <2>9. traceList[h] \in Tails /\ h \in 1..Len(traceList)
    <3>1. h \in (e + 1)..h
      BY <1>1, <2>4
    <3>2. h \in 1..Len(traceList)
      BY <1>1, <1>2, <2>4
    <3> QED
      BY <3>1, <3>2, <2>4 DEF Tails
  <2>10. Slots(both.addrs) = Slots(both.contexts)
    BY <1>1, <1>6, <2>3
  <2>11. UpTo(both, h, k + 1)
    <3>1. h \in Nat /\ both \in Nodes /\ k + 1 \in Nat
      BY <1>4, <2>4
    <3>2. traceList[1] \in DOMAIN tfg.instructionToNodeMap
      BY <1>1
    <3>3. Cardinality(Cuts(h)) <= k + 1
      BY <3>1, <2>8
    <3> QED
      BY <3>1, <3>2, <3>3, <2>5, <2>8, <2>9, <2>10 DEF UpTo
  <2> QED
    BY <2>11 DEF h, both, m
<1>9. CASE next.addrs = <<>> /\ next.contexts = <<>>
  <2>1. traceList[e + 1] \notin DOMAIN tfg.instructionToNodeMap
    BY <1>2, <1>9, NoNodeIs
  <2>2. h = e
    BY <1>1, <1>5, <1>9 DEF m
  <2>3. both.contexts = node.contexts /\ both.addrs = node.addrs
    <3>1. \A s \in Seq(Addr) : s \o <<>> = s
      OBVIOUS
    <3> QED
      BY <3>1, <1>4, <1>5, <1>9
  <2>4. Cardinality(Cuts(e)) <= k + 1
    BY <1>1, <1>7
  <2>5. UpTo(both, e, k + 1)
    BY <1>1, <1>4, <2>1, <2>3, <2>4 DEF UpTo
  <2> QED
    BY <2>2, <2>5 DEF h, both, m
<1> QED
  BY <1>3, <1>8, <1>9

\* The first block is a push key and its call just when the graph ends one there.
LEMMA KeyFirst ==
  ASSUME SlotsMoveOn, TaskOK, TraceOK, NEW node, NEW n, TakenFrom(node, 1, n)
  PROVE  isVmPushKey(node.addrs) <=> KeyOf(traceList, Tails)
<1> DEFINE L    == Len(node.addrs)
           C(m) == Cardinality(Steps(1, m))
<1>1. /\ n \in Nat /\ n \in 1..Len(traceList) /\ C(n) = L /\ L \in Nat \ {0}
      /\ \A m \in 1..n : /\ C(m) \in 1..L /\ node.addrs[C(m)] = traceList[m]
                         /\ traceList[m] \in Tails <=> m = n
  BY DEF TakenFrom, Tails
<1>2. traceList \in Seq(Addr) /\ Len(traceList) \in Nat /\ Walked(traceList, code)
      /\ code \in Programs /\ does \in Handlers
  BY DEF TraceOK, TaskOK
<1>3. /\ C(1) = 1
      /\ traceList[2] # traceList[1] => C(2) = 2
  <2>1. /\ C(1) = 1 /\ 1 + 1 = 2
        /\ traceList[1 + 1] # traceList[1] => C(1 + 1) = C(1) + 1
    BY StepsGrow
  <2> HIDE DEF C
  <2> QED
    BY <2>1
<1>4. /\ 1 \in 1..n /\ node.addrs[1] = traceList[1]
      /\ traceList[1] \in Tails <=> 1 = n
  <2>1. 1 \in 1..n
    BY <1>1
  <2> HIDE DEF C
  <2> QED
    BY <2>1, <1>1, <1>3
<1>5. traceList[n] \in Tails
  <2>1. n \in 1..n
    BY <1>1
  <2> QED
    BY <2>1, <1>1
<1> HIDE DEF C, L
<1>6. ASSUME isVmPushKey(node.addrs) PROVE KeyOf(traceList, Tails)
  <2>1. L = 2 /\ does[traceList[1]].op = "pushkey" /\ code[node.addrs[2]].kind = "call"
    BY <1>4, <1>6 DEF isVmPushKey, L
  <2>2. n >= 2
    BY <2>1, <1>1, <1>3
  <2>3. traceList[2] # traceList[1]
    <3>1. 1 \in 1..(Len(traceList) - 1) /\ traceList[1] \in Addr /\ 1 + 1 = 2
      BY <2>2, <1>1, <1>2
    <3>2. traceList[2] \in code[traceList[1]].succ
      BY <3>1, <1>2 DEF Walked
    <3>3. traceList[1] \notin code[traceList[1]].succ
      BY <2>1, <3>1, <1>2 DEF SlotsMoveOn
    <3> QED
      BY <3>2, <3>3
  <2>4. 2 \in 1..n /\ C(2) = 2 /\ n \in 1..n
    BY <2>2, <2>3, <1>1, <1>3
  <2>5. node.addrs[2] = traceList[2] /\ node.addrs[2] = traceList[n]
    BY <2>1, <2>4, <1>1
  <2>6. traceList[1] \notin Tails /\ traceList[2] \in Tails
    BY <2>2, <2>5, <1>4, <1>5
  <2>7. Len(traceList) >= 2
    BY <2>2, <1>1, <1>2
  <2> QED
    BY <2>1, <2>5, <2>6, <2>7 DEF KeyOf
<1>7. ASSUME KeyOf(traceList, Tails) PROVE isVmPushKey(node.addrs)
  <2>1. /\ does[traceList[1]].op = "pushkey" /\ code[traceList[2]].kind = "call"
        /\ traceList[1] \notin Tails /\ traceList[2] \in Tails
    BY <1>7 DEF KeyOf
  <2>2. n # 1 /\ 2 \in 1..n
    BY <2>1, <1>1, <1>4
  <2>3. n = 2
    BY <2>1, <2>2, <1>1
  <2>4. C(2) = 2
    BY <2>1, <1>3
  <2>5. L = 2 /\ node.addrs[2] = traceList[2]
    BY <2>2, <2>3, <2>4, <1>1
  <2> QED
    BY <2>1, <2>5, <1>4 DEF isVmPushKey, L
<1> QED
  BY <1>6, <1>7

\* An address of the trace stays until the end, or is left at some position.
LEMMA NextChange ==
  ASSUME NEW s \in Seq(Addr), NEW n \in Nat, NEW i \in 1..n
  PROVE  \/ \A j \in i..n : s[j] = s[i]
         \/ \E p \in (i + 1)..n : s[p] # s[p - 1] /\ s[p - 1] = s[i]
<1> SUFFICES ASSUME NEW z \in i..n, s[z] # s[i]
             PROVE  \E p \in (i + 1)..n : s[p] # s[p - 1] /\ s[p - 1] = s[i]
  OBVIOUS
<1> DEFINE Off == {j \in i..n : s[j] # s[i]}
           p   == Least(Off)
<1>1. i \in Nat \ {0} /\ Off \in SUBSET Nat /\ Off # {}
  OBVIOUS
<1>2. p \in Off /\ \A y \in Off : p <= y
  BY <1>1, LeastIs
<1> HIDE DEF p
<1>3. p \in i..n /\ s[p] # s[i] /\ p # i
  BY <1>2
<1>4. p \in (i + 1)..n /\ p - 1 \in i..n /\ ~ p <= p - 1
  BY <1>1, <1>3
<1>5. s[p - 1] = s[i]
  BY <1>2, <1>4
<1> QED
  BY <1>3, <1>4, <1>5

\* The walk takes no more of the trace than was linked, which it never does where
\* capstone decodes the trace, and the function's graph describes the trace it has
\* been fed, as the first trace's does (MapsAgreeCorrect, TraceFollowsBlocksCorrect).
\* The check's graph always does.
Walkable ==
  /\ status = "match" => idx + curNodeSize <= flowIdx
  /\ task.btype = "entry" => MapsAgree /\ TraceFollowsBlocks

LEMMA GraphFits ==
  ASSUME BuilderInv, CheckInv, AtEntry, Walkable
  PROVE  MapsAgree /\ TraceFollowsBlocks
<1>1. task.btype \in {"entry", "check"} /\ status \in Running
  BY DEF BuilderInv, TaskOK, RunningTasks, CheckInv, AtEntry, Running
<1>2. CASE task.btype = "entry"
  BY <1>2 DEF Walkable
<1>3. CASE task.btype = "check"
  <2>1. Inv /\ Followed
    BY <1>1, <1>3 DEF CheckInv
  <2> QED
    BY <2>1, InvMaps, FollowedTrace
<1> QED
  BY <1>1, <1>2, <1>3

\* The block that comes with the first behind a push key and its call.
Extra(s, tails) == IF KeyOf(s, tails) THEN 1 ELSE 0

\* A walk has as many blocks as the attempts it made.
SoFar ==
  status = "match" =>
    UpTo(nodeInput, idx + curNodeSize, attempt + Extra(traceList, Tails) - 1)

\* FindFirst takes one block or two, FindNext one more.
LEMMA FirstSoFar ==
  ASSUME SlotsMoveOn, BuilderInv, MapsAgree, TraceFollowsBlocks, FindFirst,
         status' = "match", idx' + curNodeSize' <= flowIdx
  PROVE  UpTo(nodeInput', idx' + curNodeSize', attempt' + Extra(traceList, Tails) - 1)
<1> DEFINE first == GetNextNode(1)
           next  == GetNextNode(1 + Len(first.contexts))
           n     == Len(first.contexts)
           key   == isVmPushKey(first.addrs)
           both  == AppendNode(first, next)
<1>1. TaskOK /\ TraceOK /\ GraphsOK /\ idx = 0
  BY DEF FindFirst, BuilderInv, WalkOK
<1>2. /\ nodeInput' = IF key THEN both ELSE first
      /\ attempt' = 1
      /\ IF key THEN idx' = 0 + n /\ curNodeSize' = Len(next.contexts)
                ELSE idx' = 0 /\ curNodeSize' = n
      /\ ~ nodeInput'.overread /\ first.addrs # <<>>
  <2>1. idx + 1 = 1 /\ idx + 1 + Len(first.contexts) = 1 + Len(first.contexts)
    BY <1>1
  <2> QED
    BY <2>1, <1>1 DEF FindFirst, NotFound, Overread
<1>3. first \in Nodes /\ ReadAt(first, 1)
  BY <1>1, <1>2, NodeFields
<1>4. /\ n \in Nat \ {0} /\ n <= Len(traceList) /\ Len(traceList) \in Nat
      /\ flowIdx \in Nat
  <2>1. n \in Nat \ {0} /\ 1 + n - 1 <= Len(traceList)
    BY <1>1, <1>3, ReadFields
  <2> HIDE DEF n
  <2> QED
    BY <2>1, <1>1 DEF TraceOK
<1>5. next \in Nodes /\ Len(next.contexts) \in Nat
  <2>1. 1 + n \in Nat \ {0}
    BY <1>4
  <2>2. next \in Nodes
    BY <2>1, <1>1, NodeFields
  <2> QED
    BY <2>2 DEF Nodes
<1> HIDE DEF next, first, n, key
<1>6. n <= flowIdx
  BY <1>2, <1>4, <1>5
<1>7. UpTo(first, n, 0)
  BY <1>1, <1>3, <1>6, FirstUpTo DEF n
<1>8. key <=> KeyOf(traceList, Tails)
  <2>1. n = 1 + Len(first.contexts) - 1
    BY <1>4 DEF n
  <2>2. TakenFrom(first, 1, n)
    BY <2>1, <1>1, <1>3, <1>6, NodeIs
  <2> QED
    BY <2>2, <1>1, KeyFirst DEF key
<1>9. CASE key
  <2>1. /\ nodeInput' = both /\ idx' + curNodeSize' = n + Len(next.contexts)
        /\ attempt' + Extra(traceList, Tails) - 1 = 0 + 1
    BY <1>2, <1>4, <1>5, <1>8, <1>9 DEF Extra
  <2>2. ~ next.overread
    <3>1. both.overread = (first.overread \/ next.overread)
      BY <1>3, <1>5, AppendNodeFields
    <3> QED
      BY <3>1, <2>1, <1>2
  <2>3. next = GetNextNode(n + 1)
    BY <1>4 DEF next, n
  <2>4. n < Len(traceList)
    <3> SUFFICES ASSUME n = Len(traceList) PROVE FALSE
      BY <1>4
    <3>1. n + 1 > Len(traceList)
      BY <1>4
    <3>2. [NoNode EXCEPT !.overread = TRUE].overread
      BY DEF NoNode
    <3> QED
      BY <2>2, <2>3, <3>1, <3>2 DEF GetNextNode
  <2>5. n + Len(next.contexts) <= flowIdx
    BY <2>1
  <2>6. UpTo(both, n + Len(next.contexts), 0 + 1)
    BY <2>2, <2>3, <2>4, <2>5, <1>1, <1>7, AppendUpTo
  <2> QED
    BY <2>1, <2>6
<1>10. CASE ~ key
  <2>1. /\ nodeInput' = first /\ idx' + curNodeSize' = n
        /\ attempt' + Extra(traceList, Tails) - 1 = 0
    BY <1>2, <1>4, <1>8, <1>10 DEF Extra
  <2> QED
    BY <2>1, <1>7
<1> QED
  BY <1>9, <1>10

LEMMA NextSoFar ==
  ASSUME SlotsMoveOn, BuilderInv, SoFar, MapsAgree, TraceFollowsBlocks, FindNext,
         status' = "match", idx' + curNodeSize' <= flowIdx
  PROVE  UpTo(nodeInput', idx' + curNodeSize', attempt' + Extra(traceList, Tails) - 1)
<1> DEFINE e    == idx + curNodeSize
           k    == attempt + Extra(traceList, Tails) - 1
           next == GetNextNode(e + 1)
<1>1. TaskOK /\ TraceOK /\ GraphsOK /\ status = "match" /\ attempt \in Nat \ {0}
  BY DEF FindNext, BuilderInv, WalkOK
<1>2. /\ idx' = e /\ attempt' = attempt + 1 /\ ~ IsWalkToEnd(idx')
      /\ nodeInput' = AppendNode(nodeInput, next) /\ curNodeSize' = Len(next.contexts)
      /\ ~ next.overread
  BY DEF FindNext, NotFound, Overread
<1>3. k \in Nat /\ attempt' + Extra(traceList, Tails) - 1 = k + 1
  BY <1>1, <1>2 DEF Extra
<1>4. UpTo(nodeInput, e, k)
  BY <1>1 DEF SoFar
<1> HIDE DEF e, k, next
<1>5. e < Len(traceList)
  BY <1>1, <1>2, <1>4 DEF IsWalkToEnd, UpTo, TraceOK
<1>6. e + Len(next.contexts) <= flowIdx
  BY <1>2
<1>7. next = GetNextNode(e + 1)
  BY DEF next
<1>8. UpTo(AppendNode(nodeInput, next), e + Len(next.contexts), k + 1)
  BY <1>1, <1>2, <1>3, <1>4, <1>5, <1>6, <1>7, AppendUpTo
<1> QED
  BY <1>2, <1>3, <1>8

LEMMA SoFarKeeps ==
  ASSUME SlotsMoveOn, BuilderInv, CheckInv, SoFar,
         AtEntry => Walkable, (AtEntry => Walkable)', [BuilderNext]_allVars
  PROVE  SoFar'
<1> SUFFICES ASSUME status' = "match"
             PROVE  UpTo(nodeInput, idx + curNodeSize,
                         attempt + Extra(traceList, Tails) - 1)'
  BY DEF SoFar
<1>1. CASE FindFirst \/ FindNext
  <2>1. UNCHANGED <<code, does, traceList, flowIdx, tfg>> /\ AtEntry
    BY <1>1 DEF FindFirst, FindNext, NotFound, Overread, WalkFrame, AtEntry
  <2>2. idx' + curNodeSize' <= flowIdx /\ MapsAgree /\ TraceFollowsBlocks
    BY <2>1, GraphFits DEF Walkable, AtEntry
  <2>3. UpTo(nodeInput', idx' + curNodeSize', attempt' + Extra(traceList, Tails) - 1)
    BY <1>1, <2>2, FirstSoFar, NextSoFar
  <2>4. Tails' = Tails
    BY <2>1 DEF Tails, IsTail
  <2>5. Extra(traceList, Tails)' = Extra(traceList, Tails)
    BY <2>1, <2>4 DEF Extra, KeyOf
  <2>6. \A s : Slots(s)' = Slots(s)
    BY <2>1 DEF Slots
  <2>7. \A x : Cuts(x)' = Cuts(x)
    BY <2>1, <2>4 DEF Cuts, CutsOf
  <2> QED
    BY <2>1, <2>3, <2>4, <2>5, <2>6, <2>7 DEF UpTo
<1>2. CASE UNCHANGED allVars
  <2>1. /\ UNCHANGED <<code, does, traceList, flowIdx, tfg, status, nodeInput>>
        /\ UNCHANGED <<idx, curNodeSize, attempt>>
    BY <1>2 DEF allVars, vars, builderVars, walker
  <2>2. UpTo(nodeInput, idx + curNodeSize, attempt + Extra(traceList, Tails) - 1)
    BY <2>1 DEF SoFar
  <2>3. Tails' = Tails
    BY <2>1 DEF Tails, IsTail
  <2>4. Extra(traceList, Tails)' = Extra(traceList, Tails)
    BY <2>1, <2>3 DEF Extra, KeyOf
  <2>5. Slots(nodeInput.addrs)' = Slots(nodeInput.addrs)
        /\ Slots(nodeInput.contexts)' = Slots(nodeInput.contexts)
    BY <2>1 DEF Slots
  <2>6. \A x : Cuts(x)' = Cuts(x)
    BY <2>1, <2>3 DEF Cuts, CutsOf
  <2> QED
    BY <2>1, <2>2, <2>3, <2>4, <2>5, <2>6 DEF UpTo
<1>3. CASE BuilderNext
  <2>1. FindFirst \/ FindNext
    BY <1>3 DEF BuilderNext, Execute_FIND_VM_INIT, Execute_FINISH_VM_INIT,
       NewFunction, BuildVmpBlock, TraceStep, FindEnds, CheckAccepts, WalkEnds,
       SkipHandler, ReachVisited, PlainOp, JmpConstOp, JmpOp, ExitOp, ExitCallOp,
       AnaVmpHandlerThrows, Handler, Executes, AtHandler, Begin
  <2> QED
    BY <2>1, <1>1
<1> QED
  BY <1>1, <1>2, <1>3

\* An entry that was accepted: with the blocks its own graph had, which end at
\* tails, it was not too long.
Agreed(c) ==
  LET s == c.contexts
      n == Len(s)
  IN  /\ s \in Seq(Addr) /\ n >= 1 /\ Slots(s) >= InitSlots
      /\ \A i \in 1..(n - 1) : s[i] # s[i + 1] => code[s[i]].kind # "undecodable"
      /\ \E tails :
           /\ CutsOf(s, n, tails) = c.ends
           /\ Cardinality(CutsOf(s, n, tails)) <= InitAttempts + Extra(s, tails) - 1

AcceptedInv == \A c \in accepted : Agreed(c)

\* What CheckAccepts adds is so, and stays so: it speaks of the program alone.
LEMMA AcceptAgreed ==
  ASSUME BuilderInv, FedInv, SoFar, Walkable, CheckAccepts
  PROVE  Agreed([start |-> task.start, contexts |-> nodeInput.contexts,
                 ends |-> EndsOf(Len(nodeInput.contexts))])
<1> DEFINE s == nodeInput.contexts
           n == Len(s)
           e == idx + curNodeSize
           k == attempt + Extra(traceList, Tails) - 1
           c == [start |-> task.start, contexts |-> s, ends |-> EndsOf(n)]
<1>1. /\ status = "match" /\ TraceOK /\ GraphsOK /\ attempt \in 1..InitAttempts
      /\ LinkedIn /\ e <= flowIdx
      /\ Slots(nodeInput.addrs) >= InitSlots /\ InitAttempts \in Nat
  BY BuilderAssumption
     DEF CheckAccepts, BuilderInv, WalkOK, FedInv, AtEntry, Walkable
<1>2. UpTo(nodeInput, e, k)
  BY <1>1 DEF SoFar
<1> HIDE DEF e, k
<1>3. /\ e \in Nat /\ e \in 1..Len(traceList) /\ s = SubSeq(traceList, 1, e)
      /\ Slots(s) >= InitSlots /\ traceList[e] \in Tails /\ Cardinality(Cuts(e)) <= k
  BY <1>1, <1>2 DEF UpTo
<1>4. traceList \in Seq(Addr) /\ Len(traceList) \in Nat /\ flowIdx \in Nat
  BY <1>1 DEF TraceOK
<1> DEFINE sub == SubSeq(traceList, 1, e)
<1>5. sub \in Seq(Addr) /\ Len(sub) = e /\ \A i \in 1..e : sub[i] = traceList[i]
  <2>1. \A i \in 1..e : 1 + i - 1 = i
    BY <1>3
  <2> QED
    BY <2>1, <1>3, <1>4
<1>6. s = sub
  BY <1>3
<1> HIDE DEF sub, s
<1>7. s \in Seq(Addr) /\ n = e /\ \A i \in 1..e : s[i] = traceList[i]
  BY <1>5, <1>6
<1> HIDE DEF n
<1>8. ASSUME NEW i \in 1..(e - 1), s[i] # s[i + 1]
      PROVE  i \in Linked /\ s[i] = traceList[i] /\ s[i + 1] = traceList[i + 1]
  <2>1. i \in 1..e /\ i + 1 \in 1..e /\ i \in 1..(flowIdx - 1)
    BY <1>1, <1>3, <1>4
  <2> QED
    BY <2>1, <1>7, <1>8 DEF Linked
<1>9. \A i \in 1..(n - 1) : s[i] # s[i + 1] => code[s[i]].kind # "undecodable"
  BY <1>1, <1>7, <1>8 DEF LinkedIn
<1>10. CutsOf(s, n, Tails) = Cuts(e)
  <2>1. ASSUME NEW q \in 2..e PROVE s[q - 1] = traceList[q - 1]
    <3>1. q - 1 \in 1..e
      BY <1>3, <2>1
    <3> QED
      BY <3>1, <1>7
  <2> QED
    BY <2>1, <1>7 DEF CutsOf, Cuts
<1>11. KeyOf(s, Tails) <=> KeyOf(traceList, Tails)
  <2>1. CASE e = 1
    BY <2>1, <1>3, <1>7 DEF KeyOf, n
  <2>2. CASE e # 1
    <3>1. 1 \in 1..e /\ 2 \in 1..e /\ e >= 2 /\ Len(traceList) >= 2
      BY <2>2, <1>3, <1>4
    <3> QED
      BY <3>1, <1>7 DEF KeyOf, n
  <2> QED
    BY <2>1, <2>2
<1>12. Cardinality(CutsOf(s, n, Tails)) <= InitAttempts + Extra(s, Tails) - 1
  <2>1. Cardinality(Cuts(e)) \in Nat
    BY <1>3, CutsFields DEF Cuts
  <2>2. Cardinality(Cuts(e)) <= InitAttempts + Extra(traceList, Tails) - 1
    BY <2>1, <1>1, <1>3 DEF k, Extra
  <2> QED
    BY <2>2, <1>10, <1>11 DEF Extra
<1>13. n >= 1
  BY <1>3, <1>7
<1>14. c.contexts = s /\ c.ends = EndsOf(n)
  OBVIOUS
<1> HIDE DEF c
<1>15. c.ends = CutsOf(s, n, Tails)
  BY <1>7, <1>10, <1>14, EndsAreCuts
<1>16. Agreed(c)
  BY <1>3, <1>7, <1>9, <1>12, <1>13, <1>14, <1>15 DEF Agreed, n
<1> QED
  BY <1>16 DEF c, s, n

LEMMA AcceptedKeeps ==
  ASSUME BuilderInv, FedInv, SoFar, AcceptedInv, AtEntry => Walkable,
         [BuilderNext]_allVars
  PROVE  AcceptedInv'
<1>1. code' = code /\ does' = does
  BY StepCache
<1>2. ASSUME NEW c, Agreed(c) PROVE Agreed(c)'
  BY <1>1, <1>2 DEF Agreed, Slots, CutsOf, Extra, KeyOf
<1>3. CASE CheckAccepts
  <2> DEFINE c == [start |-> task.start, contexts |-> nodeInput.contexts,
                   ends |-> EndsOf(Len(nodeInput.contexts))]
  <2>1. accepted' = accepted \cup {c} /\ Walkable
    BY <1>3 DEF CheckAccepts, AtEntry
  <2>2. Agreed(c)
    BY <2>1, <1>3, AcceptAgreed
  <2> HIDE DEF c
  <2>3. \A x \in accepted' : Agreed(x)
    BY <2>1, <2>2 DEF AcceptedInv
  <2> QED
    BY <2>3, <1>2 DEF AcceptedInv
<1>4. CASE accepted' \subseteq accepted
  BY <1>2, <1>4 DEF AcceptedInv
<1>5. accepted' \subseteq accepted \/ CheckAccepts
  BY DEF BuilderNext, Execute_FIND_VM_INIT, Execute_FINISH_VM_INIT, allVars, builderVars,
     NewFunction, BuildVmpBlock, TraceStep, FindFirst, FindNext, FindEnds, WalkEnds,
     SkipHandler, ReachVisited, PlainOp, JmpConstOp, JmpOp, ExitOp, ExitCallOp,
     AnaVmpHandlerThrows, NotFound, Overread, QuietFrame
<1> QED
  BY <1>3, <1>4, <1>5

\* The walk has the contexts of an accepted entry before it, and no block ends
\* among them that did not when it was accepted.
Again(c) ==
  /\ Len(c.contexts) <= Len(traceList)
  /\ c.contexts = SubSeq(traceList, 1, Len(c.contexts))
  /\ EndsOf(Len(c.contexts)) \subseteq c.ends

\* They are linked, and what cuts them now has cut them then.
LEMMA AgainFields ==
  ASSUME BuilderInv, FedInv, AtEntry, NEW c, Agreed(c), Again(c)
  PROVE  LET n == Len(c.contexts)
         IN  /\ n \in Nat \ {0} /\ n <= flowIdx /\ n <= Len(traceList)
             /\ \A i \in 1..n : c.contexts[i] = traceList[i]
             /\ \E tails :
                  /\ Cardinality(CutsOf(c.contexts, n, tails))
                       <= InitAttempts + Extra(c.contexts, tails) - 1
                  /\ Cuts(n) \subseteq CutsOf(c.contexts, n, tails)
<1> DEFINE s == c.contexts
           n == Len(s)
           sub == SubSeq(traceList, 1, n)
<1>1. /\ TraceOK /\ LinkedIn /\ Returned /\ n \in Nat \ {0} /\ n <= Len(traceList)
      /\ s = sub /\ EndsOf(n) \subseteq c.ends
      /\ \A i \in 1..(n - 1) : s[i] # s[i + 1] => code[s[i]].kind # "undecodable"
  BY DEF BuilderInv, FedInv, Agreed, Again
<1>2. traceList \in Seq(Addr) /\ Len(traceList) \in Nat /\ flowIdx \in Nat \ {0}
  BY <1>1 DEF TraceOK
<1>3. \A i \in 1..n : s[i] = traceList[i]
  <2>1. \A i \in 1..n : 1 + i - 1 = i
    BY <1>1
  <2> HIDE DEF n
  <2>2. \A i \in 1..n : sub[i] = traceList[i]
    BY <2>1, <1>1, <1>2
  <2> QED
    BY <2>2, <1>1
<1> HIDE DEF sub
<1>4. PICK tails :
        /\ CutsOf(s, n, tails) = c.ends
        /\ Cardinality(CutsOf(s, n, tails)) <= InitAttempts + Extra(s, tails) - 1
  BY DEF Agreed
<1> HIDE DEF s, n
<1>5. n <= flowIdx
  <2> SUFFICES ASSUME flowIdx < n PROVE FALSE
    BY <1>1, <1>2
  <2>1. /\ code[traceList[flowIdx]].kind = "undecodable"
        /\ traceList[flowIdx] # traceList[flowIdx + 1]
    BY <1>1, <1>2 DEF Returned
  <2>2. flowIdx \in 1..(n - 1) /\ flowIdx \in 1..n /\ flowIdx + 1 \in 1..n
    BY <1>1, <1>2
  <2> QED
    BY <2>1, <2>2, <1>1, <1>3
<1>6. Cuts(n) \subseteq CutsOf(s, n, tails)
  BY <1>1, <1>4, EndsAreCuts
<1> QED
  BY <1>1, <1>3, <1>4, <1>5, <1>6 DEF s, n

\* Two slots are filled, so that something lies behind the first instruction,
\* which has therefore been linked.
LEMMA FirstNotLost ==
  ASSUME InitSlots > 1, SlotsMoveOn, BuilderInv, FedInv, FindFirst,
         status' = "false", NEW c, Agreed(c), Again(c)
  PROVE  FALSE
<1> DEFINE n == Len(c.contexts)
<1>1. TraceOK /\ TaskOK /\ GraphsOK /\ AtEntry /\ idx = 0 /\ LinkedIn
  BY DEF FindFirst, BuilderInv, WalkOK, AtEntry, FedInv
<1>2. /\ n \in Nat \ {0} /\ n <= flowIdx /\ n <= Len(traceList)
      /\ \A i \in 1..n : c.contexts[i] = traceList[i]
  BY <1>1, AgainFields
<1>3. traceList \in Seq(Addr) /\ Len(traceList) \in Nat /\ flowIdx \in Nat
      /\ Walked(traceList, code) /\ code \in Programs /\ does \in Handlers
  BY <1>1 DEF TraceOK, TaskOK
<1>4. traceList[1] \notin DOMAIN tfg.instructionToNodeMap
  <2> DEFINE first == GetNextNode(1)
  <2>1. first.addrs = <<>> /\ ~ first.overread
    <3>1. idx + 1 = 1
      BY <1>1
    <3>2. first.addrs = <<>> => ~ isVmPushKey(first.addrs)
      BY DEF isVmPushKey
    <3> HIDE DEF first
    <3> QED
      BY <3>1, <3>2 DEF FindFirst, NotFound, Overread, first
  <2>2. 1 \in 1..Len(traceList)
    BY <1>2, <1>3
  <2> HIDE DEF first
  <2>3. first = GetNextNode(1)
    BY DEF first
  <2> QED
    BY <2>1, <2>2, <2>3, <1>1, NoNodeIs
<1>5. c.contexts \in Seq(Addr) /\ Slots(c.contexts) >= InitSlots
  BY DEF Agreed
<1>6. PICK x \in SlotsOf(c.contexts), y \in SlotsOf(c.contexts) : x # y
  <2>1. /\ Slots(c.contexts) = Cardinality(SlotsOf(c.contexts))
        /\ IsFiniteSet(SlotsOf(c.contexts)) /\ Slots(c.contexts) \in Nat
    BY <1>5, SlotsFields
  <2> DEFINE S == SlotsOf(c.contexts)
  <2> HIDE DEF S
  <2>2. Cardinality(S) > 1 /\ IsFiniteSet(S)
    BY <2>1, <1>5, BuilderAssumption DEF S
  <2>3. S # {}
    BY <2>2, FS_EmptySet
  <2>4. PICK x : x \in S
    BY <2>3
  <2>5. S # {x}
    BY <2>2, FS_Singleton
  <2>6. \E y \in S : x # y
    BY <2>4, <2>5
  <2> QED
    BY <2>4, <2>6 DEF S
<1> HIDE DEF n
<1>7. PICK z \in 1..(n - 1) : Slot(traceList[z])
  <2>1. /\ x \in 1..n /\ y \in 1..n
        /\ Slot(c.contexts[x]) /\ Slot(c.contexts[y])
    BY DEF SlotsOf, n
  <2>2. Slot(traceList[x]) /\ Slot(traceList[y])
    BY <2>1, <1>2 DEF n
  <2>3. x \in 1..(n - 1) \/ y \in 1..(n - 1)
    BY <2>1, <1>2, <1>6
  <2> QED
    BY <2>2, <2>3
<1>8. traceList[z + 1] # traceList[z] /\ z \in 1..n /\ z + 1 \in 1..n
  <2>1. z \in 1..(Len(traceList) - 1) /\ traceList[z] \in Addr /\ z \in 1..n
        /\ z + 1 \in 1..n
    BY <1>2, <1>3, <1>7
  <2>2. traceList[z + 1] \in code[traceList[z]].succ
    BY <2>1, <1>3 DEF Walked
  <2>3. traceList[z] \notin code[traceList[z]].succ
    BY <2>1, <1>3, <1>7 DEF SlotsMoveOn, Slot
  <2> QED
    BY <2>1, <2>2, <2>3
<1>9. PICK p \in (1 + 1)..n :
        traceList[p] # traceList[p - 1] /\ traceList[p - 1] = traceList[1]
  <2>1. 1 \in 1..n
    BY <1>2
  <2>2. \/ \A j \in 1..n : traceList[j] = traceList[1]
        \/ \E q \in (1 + 1)..n :
             traceList[q] # traceList[q - 1] /\ traceList[q - 1] = traceList[1]
    BY <2>1, <1>2, <1>3, NextChange
  <2>3. ~ \A j \in 1..n : traceList[j] = traceList[1]
    BY <1>8
  <2> QED
    BY <2>2, <2>3
<1> DEFINE m == p - 1
<1>10. m \in 1..(flowIdx - 1) /\ m + 1 = p
  BY <1>2, <1>3
<1> HIDE DEF m
<1>11. m \in Linked /\ traceList[m] = traceList[1]
  BY <1>9, <1>10 DEF Linked, m
<1> QED
  BY <1>1, <1>4, <1>11 DEF LinkedIn

\* No block more is needed than then.
LEMMA NextNotLost ==
  ASSUME BuilderInv, FedInv, SoFar, FindNext,
         status' = "false", NEW c, Agreed(c), Again(c)
  PROVE  FALSE
<1> DEFINE s == c.contexts
           n == Len(s)
           e == idx + curNodeSize
           k == attempt + Extra(traceList, Tails) - 1
<1>1. /\ TraceOK /\ GraphsOK /\ AtEntry /\ LinkedIn /\ status = "match"
      /\ attempt \in 1..InitAttempts /\ InitAttempts \in Nat \ {0}
      /\ InitSlots \in Nat
  BY BuilderAssumption DEF FindNext, BuilderInv, WalkOK, AtEntry, FedInv
<1>2. PICK tails :
        /\ Cardinality(CutsOf(s, n, tails)) <= InitAttempts + Extra(s, tails) - 1
        /\ Cuts(n) \subseteq CutsOf(s, n, tails)
  BY <1>1, AgainFields
<1>3. /\ n \in Nat \ {0} /\ n <= flowIdx /\ n <= Len(traceList)
      /\ \A i \in 1..n : s[i] = traceList[i]
  BY <1>1, AgainFields
<1>4. traceList \in Seq(Addr) /\ Len(traceList) \in Nat /\ flowIdx \in Nat
  BY <1>1 DEF TraceOK
<1>5. s \in Seq(Addr) /\ Slots(s) >= InitSlots /\ s = SubSeq(traceList, 1, n)
  BY DEF Agreed, Again
<1> HIDE DEF s, n, e, k
<1>6. UpTo(nodeInput, e, k)
  BY <1>1 DEF SoFar, e, k
<1>7. /\ e \in Nat /\ e \in 1..Len(traceList) /\ nodeInput \in Nodes
      /\ nodeInput.contexts = SubSeq(traceList, 1, e)
      /\ Slots(nodeInput.addrs) = Slots(nodeInput.contexts)
      /\ traceList[e] \in Tails
      /\ e < Len(traceList) /\ traceList[e + 1] \in DOMAIN tfg.instructionToNodeMap =>
           Cardinality(Cuts(e)) = k
  BY <1>6 DEF UpTo
<1>8. e < n
  <2> SUFFICES ASSUME n <= e PROVE FALSE
    BY <1>3, <1>7
  <2>1. e <= Len(traceList)
    BY <1>4, <1>7
  <2> DEFINE a == Slots(SubSeq(traceList, 1, n))
             b == Slots(SubSeq(traceList, 1, e))
  <2>2. a <= b
    BY <2>1, <1>3, <1>4, <1>7, SlotsPrefix
  <2>3. b < InitSlots
    BY <1>7 DEF FindNext
  <2>4. a >= InitSlots
    BY <1>5
  <2>5. a \in Nat /\ b \in Nat
    <3>1. Slots(s) \in Nat /\ Slots(nodeInput.contexts) \in Nat
      BY <1>5, <1>7, SlotsFields DEF Nodes
    <3> QED
      BY <3>1, <1>5, <1>7
  <2> HIDE DEF a, b
  <2> QED
    BY <2>2, <2>3, <2>4, <2>5, <1>1
<1>9. e < Len(traceList) /\ e \in 1..(flowIdx - 1) /\ e \in 1..n
  BY <1>3, <1>4, <1>7, <1>8
<1>10. attempt = InitAttempts
  <2>1. idx' = e
    BY DEF FindNext, e
  <2>2. ~ IsWalkToEnd(idx')
    BY <2>1, <1>4, <1>9 DEF IsWalkToEnd
  <2> QED
    BY <2>2 DEF FindNext, NotFound, Overread
<1>11. traceList[e + 1] \in DOMAIN tfg.instructionToNodeMap
  <2>1. CASE traceList[e + 1] = traceList[e]
    BY <2>1, <1>7 DEF Tails
  <2>2. CASE traceList[e + 1] # traceList[e]
    <3>1. e \in Linked
      BY <2>2, <1>9 DEF Linked
    <3> QED
      BY <3>1, <1>1 DEF LinkedIn
  <2> QED
    BY <2>1, <2>2
<1>12. Cardinality(Cuts(e)) = InitAttempts + Extra(traceList, Tails) - 1
  BY <1>7, <1>9, <1>10, <1>11 DEF k
<1> DEFINE R == CutsOf(s, n, tails)
           Q == Cuts(e) \cup {e + 1}
<1>13. IsFiniteSet(R) /\ IsFiniteSet(Cuts(e)) /\ Cardinality(R) \in Nat
  BY <1>3, <1>7, CutsFields DEF Cuts
<1>14. Q \subseteq R
  <2>1. e + 1 \in 2..n /\ e + 1 - 1 = e
    BY <1>7, <1>8, <1>3
  <2>2. Cuts(e) \subseteq Cuts(n)
    BY <1>3, <1>7, <1>8 DEF Cuts, CutsOf
  <2>3. e + 1 \in Cuts(n)
    BY <2>1, <1>7 DEF Cuts, CutsOf
  <2> QED
    BY <2>2, <2>3, <1>2
<1>15. IsFiniteSet(Q) /\ Cardinality(Q) = InitAttempts + Extra(traceList, Tails)
  <2>1. e + 1 \notin Cuts(e)
    BY <1>7 DEF Cuts, CutsOf
  <2>2. IsFiniteSet(Q) /\ Cardinality(Q) = Cardinality(Cuts(e)) + 1
    BY <2>1, <1>13, FS_AddElement
  <2>3. Extra(traceList, Tails) \in {0, 1}
    BY DEF Extra
  <2> HIDE DEF Q
  <2> QED
    BY <2>2, <2>3, <1>1, <1>12
<1>16. Cardinality(R) <= InitAttempts + Extra(s, tails) - 1
  BY <1>2
<1>17. \A q \in 2..n : q \in Q => traceList[q - 1] \in Tails
  BY <1>7 DEF Cuts, CutsOf
<1>18. \A q \in 2..n : q \in R <=> s[q - 1] \in tails
  BY DEF CutsOf
<1> HIDE DEF R, Q
<1>19. Cardinality(Q) <= Cardinality(R)
  BY <1>13, <1>14, FS_Subset
<1>20. KeyOf(s, tails) /\ ~ KeyOf(traceList, Tails)
  BY <1>1, <1>13, <1>15, <1>16, <1>19 DEF Extra
<1>21. /\ n >= 2 /\ does[s[1]].op = "pushkey" /\ code[s[2]].kind = "call"
       /\ s[1] \notin tails /\ s[2] \in tails /\ Len(traceList) >= 2
       /\ s[1] = traceList[1] /\ s[2] = traceList[2]
  <2>1. /\ n >= 2 /\ does[s[1]].op = "pushkey" /\ code[s[2]].kind = "call"
        /\ s[1] \notin tails /\ s[2] \in tails
    BY <1>20 DEF KeyOf, n
  <2>2. 1 \in 1..n /\ 2 \in 1..n
    BY <2>1, <1>3
  <2> QED
    BY <2>1, <2>2, <1>3, <1>4
<1>22. traceList[1] \notin Tails
  <2> SUFFICES ASSUME traceList[1] \in Tails PROVE FALSE
    OBVIOUS
  <2>1. 2 \in 2..n /\ 2 - 1 = 1
    BY <1>3, <1>21
  <2>2. 2 \in Cuts(n)
    BY <2>1 DEF Cuts, CutsOf
  <2> QED
    BY <2>1, <2>2, <1>2, <1>18, <1>21 DEF R
<1>23. traceList[2] \notin Tails
  BY <1>20, <1>21, <1>22 DEF KeyOf
<1>24. 3 \in R /\ 3 \notin Q
  <2>1. e # 1 /\ e # 2
    BY <1>7, <1>22, <1>23
  <2>2. 3 \in 2..n /\ 3 - 1 = 2
    BY <2>1, <1>3, <1>7, <1>8
  <2> QED
    BY <2>2, <1>17, <1>18, <1>21, <1>23
<1>25. Cardinality(Q) <= Cardinality(R) - 1
  <2>1. Q \subseteq R \ {3} /\ IsFiniteSet(R \ {3})
    BY <1>13, <1>14, <1>24, FS_Subset
  <2>2. Cardinality(Q) <= Cardinality(R \ {3})
    BY <2>1, FS_Subset
  <2>3. Cardinality(R \ {3}) = Cardinality(R) - 1
    BY <1>13, <1>24, FS_RemoveElement
  <2> QED
    BY <2>2, <2>3
<1> QED
  BY <1>1, <1>13, <1>15, <1>16, <1>20, <1>25 DEF Extra

\* Wherever the walk of an entry comes back with nothing.
LEMMA FoundKeeps ==
  ASSUME InitSlots > 1, SlotsMoveOn, BuilderInv, FedInv, SoFar, AcceptedInv,
         AcceptedEntryFound, [BuilderNext]_allVars
  PROVE  AcceptedEntryFound'
<1> SUFFICES ASSUME status' = "false", task'.btype = "entry", NEW c \in accepted',
                    (/\ c.start = task.start /\ Len(c.contexts) <= Len(traceList)
                     /\ c.contexts = SubSeq(traceList, 1, Len(c.contexts)))',
                    EndsOf(Len(c.contexts))' \subseteq c.ends
             PROVE  FALSE
  BY DEF AcceptedEntryFound
<1>1. CASE UNCHANGED allVars
  <2>1. UNCHANGED <<status, task, accepted, traceList, tfg>>
    BY <1>1 DEF allVars, vars, builderVars
  <2>2. EndsOf(Len(c.contexts))' = EndsOf(Len(c.contexts))
    BY <2>1 DEF EndsOf, IsTail
  <2> QED
    BY <2>1, <2>2 DEF AcceptedEntryFound
<1>2. CASE FindFirst \/ FindNext
  <2>1. /\ AtEntry /\ task' = task /\ traceList' = traceList /\ NotFound
    BY <1>2 DEF FindFirst, FindNext, NotFound, Overread, WalkFrame, AtEntry
  <2>2. tfg' = tfg /\ accepted' = accepted
    BY <2>1 DEF NotFound
  <2>3. EndsOf(Len(c.contexts))' = EndsOf(Len(c.contexts))
    BY <2>1, <2>2 DEF EndsOf, IsTail
  <2>4. Agreed(c) /\ Again(c)
    BY <2>1, <2>2, <2>3 DEF AcceptedInv, Again
  <2> QED
    BY <1>2, <2>4, FirstNotLost, NextNotLost
<1>3. CASE NewFunction
  BY <1>3 DEF NewFunction, Task
<1>4. CASE WalkEnds
  BY <1>4 DEF WalkEnds, WalkFrame, FedInv
<1>5. \/ UNCHANGED allVars \/ FindFirst \/ FindNext \/ NewFunction \/ WalkEnds
  BY DEF BuilderNext, Execute_FIND_VM_INIT, Execute_FINISH_VM_INIT, BuildVmpBlock,
     TraceStep, FindEnds, CheckAccepts, SkipHandler, ReachVisited, PlainOp, JmpConstOp,
     JmpOp, ExitOp, ExitCallOp, AnaVmpHandlerThrows, Handler, Executes, AtHandler, Begin
<1> QED
  BY <1>1, <1>2, <1>3, <1>4, <1>5

EntryInv == FedInv /\ CheckInv /\ SoFar /\ AcceptedInv /\ AcceptedEntryFound

\* An entry FastCheckVmpEntry has accepted is found when its own task traces it
\* alike, unless a block of the function's graph ends where none of the check's
\* did: with the same ends or fewer the walk needs no block more than the check
\* did, however many traces the function's graph has served and wherever they
\* left and entered its blocks.  That the check's graph describes its trace is
\* proved; that the function's does is assumed while an entry is looked for, and
\* that no walk goes past an instruction capstone cannot decode.  What fills a
\* slot of the stack must be no rep (it is a push or a call), and more than one
\* must be filled (the code asks for 11).
THEOREM AcceptedEntryFoundCorrect ==
  ASSUME InitSlots > 1, SlotsMoveOn, FallsThrough
  PROVE  BuilderSpec /\ [](AtEntry => Walkable) => []AcceptedEntryFound
<1> DEFINE H == AtEntry => Walkable
<1>1. BuilderInit => EntryInv
  <2> SUFFICES ASSUME BuilderInit PROVE EntryInv
    OBVIOUS
  <2>1. tasks = 0 /\ badNodeList = {} /\ cursor = 0 /\ bUpdateNode = FALSE
    BY DEF BuilderInit, Init
  <2>2. 0 \in 0..MaxTasks
    BY ProgramAssumption
  <2>3. TaskVarsOK
    BY <2>1, <2>2 DEF TaskVarsOK
  <2> QED
    BY <2>3 DEF BuilderInit, Task, EntryInv, FedInv, CheckInv, AtEntry, Running, SoFar,
       AcceptedInv, AcceptedEntryFound
<1>2. BuilderInv /\ EntryInv /\ H /\ H' /\ [BuilderNext]_allVars => EntryInv'
  BY FedKeeps, CheckKeeps, SoFarKeeps, AcceptedKeeps, FoundKeeps DEF EntryInv
<1>3. EntryInv => AcceptedEntryFound
  BY DEF EntryInv
<1> HIDE DEF H
<1>4. BuilderSpec /\ []H => []AcceptedEntryFound
  BY BuilderInvariance, <1>1, <1>2, <1>3, PTL DEF BuilderSpec
<1> QED
  BY <1>4 DEF H

=============================================================================
