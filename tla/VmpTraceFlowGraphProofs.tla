----------------------- MODULE VmpTraceFlowGraphProofs -----------------------
(***************************************************************************)
(* Proofs about VmpTraceFlowGraph: fromEdges and toEdges mirror each other *)
(* for any number of tasks on one graph.                                   *)
(***************************************************************************)
EXTENDS VmpTraceFlowGraph, FiniteSetTheorems, TLAPS

----------------------------------------------------------------------------
(* The edges, for every program and any number of tasks.                   *)

\* g is a record with the fields of a graph and no other.
Record(g) ==
  g \in [nodeMap : {g.nodeMap}, instructionToNodeMap : {g.instructionToNodeMap},
         fromEdges : {g.fromEdges}, toEdges : {g.toEdges}, thrown : {g.thrown}]

Mirrored(g) ==
  /\ g.fromEdges = [a \in Addr |-> g.fromEdges[a]]
  /\ g.toEdges = [a \in Addr |-> g.toEdges[a]]
  /\ \A f, t \in Addr : t \in g.fromEdges[f] <=> f \in g.toEdges[t]

\* An edge map with y added to, or removed from, the edges of x.
Added(e, x, y) == [e EXCEPT ![x] = @ \cup {y}]
Removed(e, x, y) == [e EXCEPT ![x] = @ \ {y}]

\* The fields linkEdge leaves behind.
LEMMA LinkFields ==
  ASSUME NEW g, Record(g), NEW f, NEW t
  PROVE  /\ Record(linkEdge(g, f, t))
         /\ linkEdge(g, f, t).nodeMap = g.nodeMap
         /\ linkEdge(g, f, t).instructionToNodeMap = g.instructionToNodeMap
         /\ linkEdge(g, f, t).thrown = g.thrown
         /\ linkEdge(g, f, t).fromEdges = Added(g.fromEdges, f, t)
         /\ linkEdge(g, f, t).toEdges = Added(g.toEdges, t, f)
<1>1. Record(linkEdge(g, f, t))
  BY DEF linkEdge, Record, Added
<1>2. /\ linkEdge(g, f, t).nodeMap = g.nodeMap
      /\ linkEdge(g, f, t).instructionToNodeMap = g.instructionToNodeMap
      /\ linkEdge(g, f, t).thrown = g.thrown
  BY DEF linkEdge, Record, Added
<1>3. linkEdge(g, f, t).fromEdges = Added(g.fromEdges, f, t)
  BY DEF linkEdge, Record, Added
<1>4. linkEdge(g, f, t).toEdges = Added(g.toEdges, t, f)
  BY DEF linkEdge, Record, Added
<1> QED
  BY <1>1, <1>2, <1>3, <1>4

\* The fields removeEdge leaves behind.
LEMMA RemoveFields ==
  ASSUME NEW g, Record(g), NEW f, NEW t
  PROVE  /\ Record(removeEdge(g, f, t))
         /\ removeEdge(g, f, t).nodeMap = g.nodeMap
         /\ removeEdge(g, f, t).instructionToNodeMap = g.instructionToNodeMap
         /\ removeEdge(g, f, t).thrown = g.thrown
         /\ removeEdge(g, f, t).fromEdges = Removed(g.fromEdges, f, t)
         /\ removeEdge(g, f, t).toEdges = Removed(g.toEdges, t, f)
<1>1. Record(removeEdge(g, f, t))
  BY DEF removeEdge, Record, Removed
<1>2. /\ removeEdge(g, f, t).nodeMap = g.nodeMap
      /\ removeEdge(g, f, t).instructionToNodeMap = g.instructionToNodeMap
      /\ removeEdge(g, f, t).thrown = g.thrown
  BY DEF removeEdge, Record, Removed
<1>3. removeEdge(g, f, t).fromEdges = Removed(g.fromEdges, f, t)
  BY DEF removeEdge, Record, Removed
<1>4. removeEdge(g, f, t).toEdges = Removed(g.toEdges, t, f)
  BY DEF removeEdge, Record, Removed
<1> QED
  BY <1>1, <1>2, <1>3, <1>4

\* The fields createNode leaves behind.
LEMMA CreateFields ==
  ASSUME NEW g, Record(g), NEW a
  PROVE  /\ Record(createNode(g, a))
         /\ createNode(g, a).nodeMap =
              Put(g.nodeMap, a, IF a \in DOMAIN g.nodeMap
                                  THEN Append(g.nodeMap[a], a) ELSE <<a>>)
         /\ createNode(g, a).instructionToNodeMap =
              Put(g.instructionToNodeMap, a, [vmNode |-> a, index |-> 1])
         /\ createNode(g, a).fromEdges = g.fromEdges
         /\ createNode(g, a).toEdges = g.toEdges
         /\ createNode(g, a).thrown = g.thrown
<1>1. Record(createNode(g, a))
  BY DEF createNode, Record
<1>2. createNode(g, a).nodeMap =
        Put(g.nodeMap, a, IF a \in DOMAIN g.nodeMap
                            THEN Append(g.nodeMap[a], a) ELSE <<a>>)
  BY DEF createNode, Record
<1>3. createNode(g, a).instructionToNodeMap =
        Put(g.instructionToNodeMap, a, [vmNode |-> a, index |-> 1])
  BY DEF createNode, Record
<1>4. /\ createNode(g, a).fromEdges = g.fromEdges
      /\ createNode(g, a).toEdges = g.toEdges
      /\ createNode(g, a).thrown = g.thrown
  BY DEF createNode, Record
<1> QED
  BY <1>1, <1>2, <1>3, <1>4

\* g with other blocks and another index.
Refiled(g, nodes, ins) ==
  [g EXCEPT !.nodeMap = nodes, !.instructionToNodeMap = ins]

LEMMA RefileFields ==
  ASSUME NEW g, Record(g), NEW nodes, NEW ins
  PROVE  /\ Record(Refiled(g, nodes, ins))
         /\ Refiled(g, nodes, ins).nodeMap = nodes
         /\ Refiled(g, nodes, ins).instructionToNodeMap = ins
         /\ Refiled(g, nodes, ins).fromEdges = g.fromEdges
         /\ Refiled(g, nodes, ins).toEdges = g.toEdges
         /\ Refiled(g, nodes, ins).thrown = g.thrown
<1>1. Record(Refiled(g, nodes, ins))
  BY DEF Refiled, Record
<1>2. /\ Refiled(g, nodes, ins).nodeMap = nodes
      /\ Refiled(g, nodes, ins).instructionToNodeMap = ins
  BY DEF Refiled, Record
<1>3. /\ Refiled(g, nodes, ins).fromEdges = g.fromEdges
      /\ Refiled(g, nodes, ins).toEdges = g.toEdges
      /\ Refiled(g, nodes, ins).thrown = g.thrown
  BY DEF Refiled, Record
<1> QED
  BY <1>1, <1>2, <1>3

\* Setting thrown leaves the rest of a graph as it is.
LEMMA ThrownFields ==
  ASSUME NEW g, Record(g), NEW b
  PROVE  LET h == [g EXCEPT !.thrown = b]
         IN  /\ Record(h)
             /\ h.nodeMap = g.nodeMap
             /\ h.instructionToNodeMap = g.instructionToNodeMap
             /\ h.fromEdges = g.fromEdges /\ h.toEdges = g.toEdges
             /\ h.thrown = b
<1> DEFINE h == [g EXCEPT !.thrown = b]
<1>1. Record(h)
  BY DEF Record
<1>2. /\ h.nodeMap = g.nodeMap /\ h.instructionToNodeMap = g.instructionToNodeMap
      /\ h.thrown = b
  BY DEF Record
<1>3. h.fromEdges = g.fromEdges /\ h.toEdges = g.toEdges
  BY DEF Record
<1> QED
  BY <1>1, <1>2, <1>3

Good(g) == Record(g) /\ Mirrored(g)

LEMMA LinkGood ==
  ASSUME NEW g, Good(g), NEW f, NEW t
  PROVE  Good(linkEdge(g, f, t))
<1> DEFINE h == linkEdge(g, f, t)
<1>1. /\ Record(h)
      /\ h.fromEdges = Added(g.fromEdges, f, t)
      /\ h.toEdges = Added(g.toEdges, t, f)
  BY LinkFields DEF Good
<1> HIDE DEF h
<1>2. /\ g.fromEdges = [a \in Addr |-> g.fromEdges[a]]
      /\ g.toEdges = [a \in Addr |-> g.toEdges[a]]
      /\ \A x, y \in Addr : y \in g.fromEdges[x] <=> x \in g.toEdges[y]
  BY DEF Good, Mirrored
<1>3. h.fromEdges = [a \in Addr |-> h.fromEdges[a]]
  BY <1>1, <1>2 DEF Added
<1>4. h.toEdges = [a \in Addr |-> h.toEdges[a]]
  BY <1>1, <1>2 DEF Added
<1>5. \A x, y \in Addr : y \in h.fromEdges[x] <=> x \in h.toEdges[y]
  BY <1>1, <1>2 DEF Added
<1>6. Good(h)
  BY <1>1, <1>3, <1>4, <1>5 DEF Good, Mirrored
<1> QED
  BY <1>6 DEF h

LEMMA RemoveGood ==
  ASSUME NEW g, Good(g), NEW f, NEW t
  PROVE  Good(removeEdge(g, f, t))
<1> DEFINE h == removeEdge(g, f, t)
<1>1. /\ Record(h)
      /\ h.fromEdges = Removed(g.fromEdges, f, t)
      /\ h.toEdges = Removed(g.toEdges, t, f)
  BY RemoveFields DEF Good
<1> HIDE DEF h
<1>2. /\ g.fromEdges = [a \in Addr |-> g.fromEdges[a]]
      /\ g.toEdges = [a \in Addr |-> g.toEdges[a]]
      /\ \A x, y \in Addr : y \in g.fromEdges[x] <=> x \in g.toEdges[y]
  BY DEF Good, Mirrored
<1>3. h.fromEdges = [a \in Addr |-> h.fromEdges[a]]
  BY <1>1, <1>2 DEF Removed
<1>4. h.toEdges = [a \in Addr |-> h.toEdges[a]]
  BY <1>1, <1>2 DEF Removed
<1>5. \A x, y \in Addr : y \in h.fromEdges[x] <=> x \in h.toEdges[y]
  BY <1>1, <1>2 DEF Removed
<1>6. Good(h)
  BY <1>1, <1>3, <1>4, <1>5 DEF Good, Mirrored
<1> QED
  BY <1>6 DEF h

\* A graph with the edges of a good one is good.
LEMMA SameEdgesGood ==
  ASSUME NEW g, Good(g), NEW h, Record(h),
         h.fromEdges = g.fromEdges, h.toEdges = g.toEdges
  PROVE  Good(h)
BY DEF Good, Mirrored

LEMMA CreateGood ==
  ASSUME NEW g, Good(g), NEW a
  PROVE  Good(createNode(g, a)) /\ Good(ensureNode(g, a))
<1>1. Good(createNode(g, a))
  <2>1. Record(g)
    BY DEF Good
  <2>2. /\ Record(createNode(g, a))
        /\ createNode(g, a).fromEdges = g.fromEdges
        /\ createNode(g, a).toEdges = g.toEdges
    BY <2>1, CreateFields
  <2> QED
    BY <2>2, SameEdgesGood
<1> QED
  BY <1>1 DEF ensureNode

LEMMA SplitGood ==
  ASSUME NEW g, Good(g), NEW n, NEW a
  PROVE  Good(splitBlock(g, n, a))
<1> DEFINE created == createNode(g, a)
           list    == created.nodeMap[n]
           found   == PositionsOf(list, a) \ {1}
           at      == Least(found)
           tail    == SubSeq(list, at + 1, Len(list))
           linked  == linkEdge(created, list[at - 1], a)
           nodes   == [linked.nodeMap EXCEPT ![a] = @ \o tail,
                                             ![n] = SubSeq(list, 1, at - 1)]
           ins     == Reindex(linked.instructionToNodeMap, tail, a, 1)
<1>1. Good(created)
  BY CreateGood
<1>2. Good(linked)
  BY <1>1, LinkGood
<1>3. CASE found = {}
  <2>1. splitBlock(g, n, a) = [created EXCEPT !.thrown = TRUE]
    BY <1>3 DEF splitBlock
  <2> HIDE DEF created
  <2>2. Record(created)
    BY <1>1 DEF Good
  <2> DEFINE h == [created EXCEPT !.thrown = TRUE]
  <2>3. Record(h) /\ h.fromEdges = created.fromEdges /\ h.toEdges = created.toEdges
    BY <2>2, ThrownFields
  <2> HIDE DEF h
  <2>4. Good(h)
    BY <1>1, <2>3, SameEdgesGood
  <2> QED
    BY <2>1, <2>4 DEF h
<1>4. CASE found # {}
  <2>1. splitBlock(g, n, a) = Refiled(linked, nodes, ins)
    BY <1>4 DEF splitBlock, Refiled
  <2> HIDE DEF linked, nodes, ins
  <2>2. Record(linked)
    BY <1>2 DEF Good
  <2> DEFINE h == Refiled(linked, nodes, ins)
  <2>3. Record(h) /\ h.fromEdges = linked.fromEdges /\ h.toEdges = linked.toEdges
    BY <2>2, RefileFields
  <2> HIDE DEF h
  <2>4. Good(h)
    BY <1>2, <2>3, SameEdgesGood
  <2> QED
    BY <2>1, <2>4 DEF h
<1> QED
  BY <1>3, <1>4

LEMMA JmpGood ==
  ASSUME NEW g, Good(g), NEW f, NEW t
  PROVE  Good(addJmpLink(g, f, t))
<1> DEFINE h   == ensureNode(ensureNode(linkEdge(g, f, t), f), t)
           cur == h.instructionToNodeMap[f].vmNode
           nxt == h.instructionToNodeMap[t].vmNode
           h1  == IF IsTail(h, f) THEN h ELSE splitBlock(h, cur, f)
<1>1. Good(h)
  BY LinkGood, CreateGood
<1>2. addJmpLink(g, f, t) =
        IF IsTail(h, f) /\ IsHead(h, t) THEN h
        ELSE IF cur = nxt THEN splitBlock(h, nxt, t)
        ELSE IF IsHead(h1, t) THEN h1
        ELSE splitBlock(h1, nxt, t)
  BY DEF addJmpLink
<1> HIDE DEF h, cur, nxt
<1>3. Good(splitBlock(h, nxt, t)) /\ Good(h1)
  BY <1>1, SplitGood
<1> HIDE DEF h1
<1>4. Good(splitBlock(h1, nxt, t))
  BY <1>3, SplitGood
<1> QED
  BY <1>1, <1>2, <1>3, <1>4

LEMMA NormalGood ==
  ASSUME NEW g, Good(g), NEW f, NEW t
  PROVE  Good(addNormalLink(g, f, t))
<1> DEFINE h   == ensureNode(g, f)
           cur == h.instructionToNodeMap[f]
           nxt == h.instructionToNodeMap[t]
           nodes == [h.nodeMap EXCEPT ![cur.vmNode] = Append(@, t)]
           ins == Put(h.instructionToNodeMap, t,
                      [vmNode |-> cur.vmNode, index |-> cur.index + 1])
           thrown == cur.index + 1 # nxt.index
           again == [h EXCEPT !.thrown = thrown]
<1>1. Good(h)
  BY CreateGood
<1>2. addNormalLink(g, f, t) =
        IF t \notin DOMAIN h.instructionToNodeMap THEN Refiled(h, nodes, ins)
        ELSE IF cur.vmNode = nxt.vmNode THEN again
        ELSE IF nxt.index = 1 THEN h
        ELSE linkEdge(splitBlock(h, nxt.vmNode, t), f, t)
  BY DEF addNormalLink, Refiled
<1> HIDE DEF h, cur, nxt, nodes, ins, thrown
<1>3. Record(h)
  BY <1>1 DEF Good
<1>4. Good(Refiled(h, nodes, ins))
  BY <1>1, <1>3, RefileFields, SameEdgesGood
<1>5. Good(again)
  <2>1. Record(again) /\ again.fromEdges = h.fromEdges /\ again.toEdges = h.toEdges
    BY <1>3, ThrownFields
  <2> QED
    BY <1>1, <2>1, SameEdgesGood
<1>6. Good(linkEdge(splitBlock(h, nxt.vmNode, t), f, t))
  <2>1. Good(splitBlock(h, nxt.vmNode, t))
    BY <1>1, SplitGood
  <2> QED
    BY <2>1, LinkGood
<1> HIDE DEF again
<1> QED
  BY <1>1, <1>2, <1>4, <1>5, <1>6

LEMMA MergeGood ==
  ASSUME NEW g, Good(g), NEW father, NEW child
  PROVE  Good(executeMerge(g, father, child))
<1> DEFINE kept  == Len(g.nodeMap[father])
           moved == g.nodeMap[child]
           h     == removeEdge(g, EndAddr(g, father), child)
           nodes == [m \in DOMAIN h.nodeMap \ {child} |->
                       IF m = father THEN h.nodeMap[m] \o moved ELSE h.nodeMap[m]]
           ins   == Reindex(h.instructionToNodeMap, moved, father, kept)
<1>1. Good(h)
  BY RemoveGood
<1>2. executeMerge(g, father, child) = Refiled(h, nodes, ins)
  BY DEF executeMerge, Refiled
<1> HIDE DEF h, nodes, ins
<1>3. Record(h)
  BY <1>1 DEF Good
<1>4. Good(Refiled(h, nodes, ins))
  BY <1>1, <1>3, RefileFields, SameEdgesGood
<1> QED
  BY <1>2, <1>4

LEMMA EmptyGood == Good(EmptyGraph)
BY DEF Good, Record, Mirrored, EmptyGraph

\* fromEdges and toEdges are one relation read from its two ends, whatever the
\* programs are and however many tasks add their traces to the graph.
THEOREM EdgesInverseCorrect == Spec => []EdgesInverse
<1>1. Init => Good(tfg)
  BY EmptyGood DEF Init
<1>2. Good(tfg) /\ [Next]_vars => Good(tfg)'
  <2> SUFFICES ASSUME Good(tfg), [Next]_vars
               PROVE  Good(tfg')
    BY DEF Good, Record, Mirrored
  <2>1. ASSUME AddTraceFlow PROVE Good(tfg')
    <3> DEFINE f == traceList[flowIdx]
               t == traceList[flowIdx + 1]
    <3>1. tfg' = IF f = t THEN tfg
                 ELSE IF isEndIns(code[f].kind) THEN addJmpLink(tfg, f, t)
                                                ELSE addNormalLink(tfg, f, t)
      BY <2>1 DEF AddTraceFlow, addLink
    <3> HIDE DEF f, t
    <3> QED
      BY <3>1, JmpGood, NormalGood
  <2>2. ASSUME MergeNode PROVE Good(tfg')
    <3>1. \/ tfg' = tfg
          \/ \E father, child : tfg' = executeMerge(tfg, father, child)
      BY <2>2 DEF MergeNode
    <3> QED
      BY <3>1, MergeGood
  <2>3. ASSUME UNCHANGED tfg PROVE Good(tfg')
    BY <2>3
  <2> QED
    BY <2>1, <2>2, <2>3 DEF Next, StartWalk, Emulate, EmulationEnds,
       AddTraceFlowReturns, MergeAllNodes, RejectNode, MergePassEnds, vars
<1>3. Good(tfg) => EdgesInverse
  BY DEF Good, Mirrored, EdgesInverse
<1> QED
  BY <1>1, <1>2, <1>3, PTL DEF Spec

=============================================================================
