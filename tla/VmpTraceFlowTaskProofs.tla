------------------------ MODULE VmpTraceFlowTaskProofs ------------------------
(***************************************************************************)
(* Theorems about VmpTraceFlowGraph for one trace per graph: its types,    *)
(* its index, its edges, what a merge keeps and where the trace is found.  *)
(***************************************************************************)
EXTENDS VmpTraceFlowLinkProofs, WellFoundedInduction

----------------------------------------------------------------------------
(* Merging.                                                                *)

\* nm2 and im2 are nm and im with block n, of j addresses, moved to the end of
\* block m, of k addresses.
Merged(nm, im, nm2, im2, m, n, k, j) ==
  /\ DOMAIN nm2 = DOMAIN nm \ {n}
  /\ nm2[m] \in Seq(Addr) /\ Len(nm2[m]) = k + j
  /\ \A i \in 1..k : nm2[m][i] = nm[m][i]
  /\ \A i \in 1..j : nm2[m][k + i] = nm[n][i]
  /\ \A x \in DOMAIN nm \ {m, n} : nm2[x] = nm[x]
  /\ DOMAIN im2 = DOMAIN im
  /\ \A x \in DOMAIN im :
       im2[x] = IF im[x].vmNode = n THEN [vmNode |-> m, index |-> k + im[x].index]
                                    ELSE im[x]

\* The blocks nm with block n appended to block m.
Appended(nm, m, n) ==
  [x \in DOMAIN nm \ {n} |-> IF x = m THEN nm[x] \o nm[n] ELSE nm[x]]

\* One block behind another.
LEMMA ConcatFields ==
  ASSUME NEW s \in Seq(Addr), NEW u \in Seq(Addr), NEW k \in Nat, k = Len(s),
         NEW j \in Nat, j = Len(u)
  PROVE  /\ s \o u \in Seq(Addr) /\ Len(s \o u) = k + j
         /\ \A i \in 1..k : (s \o u)[i] = s[i]
         /\ \A i \in 1..j : (s \o u)[k + i] = u[i]
<1>1. s \o u \in Seq(Addr) /\ Len(s \o u) = Len(s) + Len(u)
  OBVIOUS
<1>2. \A i \in 1..(Len(s) + Len(u)) :
        (s \o u)[i] = IF i <= Len(s) THEN s[i] ELSE u[i - Len(s)]
  OBVIOUS
<1>3. ASSUME NEW i \in 1..k
      PROVE  (s \o u)[i] = s[i]
  BY <1>2
<1>4. ASSUME NEW i \in 1..j
      PROVE  (s \o u)[k + i] = u[i]
  <2>1. k + i \in 1..(k + j) /\ ~ k + i <= k /\ (k + i) - k = i
    OBVIOUS
  <2> QED
    BY <2>1, <1>2
<1> QED
  BY <1>1, <1>3, <1>4

\* What executeMerge makes of blocks and index.
LEMMA MergeFields ==
  ASSUME NEW nm, NEW im, Filed(nm, im), NEW m \in DOMAIN nm, NEW n \in DOMAIN nm,
         m # n, NEW k \in Nat, k = Len(nm[m]), NEW j \in Nat, j = Len(nm[n])
  PROVE  Merged(nm, im, Appended(nm, m, n), Reindex(im, nm[n], m, k), m, n, k, j)
<1> DEFINE nm2   == Appended(nm, m, n)
           im2   == Reindex(im, nm[n], m, k)
           list  == nm[m]
           moved == nm[n]
           both  == list \o moved
<1>1. /\ list \in Seq(Addr) /\ moved \in Seq(Addr)
      /\ k = Len(list) /\ j = Len(moved)
  BY DEF Filed
<1>2. /\ DOMAIN nm2 = DOMAIN nm \ {n} /\ nm2[m] = both
      /\ \A x \in DOMAIN nm \ {m, n} : nm2[x] = nm[x]
  BY DEF Appended
<1>3. \A i \in 1..j : /\ moved[i] \in DOMAIN im
                      /\ im[moved[i]].vmNode = n /\ im[moved[i]].index = i
  BY PlacedAt
<1>i. im2 = Reindex(im, moved, m, k)
  OBVIOUS
<1>x. ASSUME NEW x \in DOMAIN im, im[x].vmNode = n
      PROVE  im[x].index \in 1..j /\ moved[im[x].index] = x
  BY <1>x, IndexedAt
<1> HIDE DEF nm2, im2, list, moved
<1>4. /\ both \in Seq(Addr) /\ Len(both) = k + j
      /\ \A i \in 1..k : both[i] = list[i]
      /\ \A i \in 1..j : both[k + i] = moved[i]
  BY <1>1, ConcatFields
<1> HIDE DEF both
<1>5. Distinct(moved)
  BY <1>1, <1>3 DEF Distinct
<1>6. Pointed(im2, im, moved, m, k)
  BY <1>1, <1>5, <1>i, ReindexFields
<1>7. Elements(moved) = {moved[i] : i \in 1..j}
  BY <1>1 DEF Elements
<1>8. DOMAIN im2 = DOMAIN im
  BY <1>3, <1>6, <1>7 DEF Pointed
<1>9. ASSUME NEW x \in DOMAIN im
      PROVE  im2[x] = IF im[x].vmNode = n THEN [vmNode |-> m, index |-> k + im[x].index]
                                          ELSE im[x]
  <2>1. CASE im[x].vmNode = n
    <3>1. im[x].index \in 1..j /\ moved[im[x].index] = x
      BY <1>x, <2>1
    <3>2. im2[moved[im[x].index]] = [vmNode |-> m, index |-> k + im[x].index]
      BY <3>1, <1>1, <1>6 DEF Pointed
    <3> QED
      BY <2>1, <3>1, <3>2
  <2>2. CASE im[x].vmNode # n
    <3>1. x \notin Elements(moved)
      BY <2>2, <1>3, <1>7
    <3> QED
      BY <2>2, <3>1, <1>6 DEF Pointed
  <2> QED
    BY <2>1, <2>2
<1>10. Merged(nm, im, nm2, im2, m, n, k, j)
  BY <1>2, <1>4, <1>8, <1>9 DEF Merged, list, moved
<1> QED
  BY <1>10 DEF nm2, im2

LEMMA MergedFiled ==
  ASSUME NEW nm, NEW im, Filed(nm, im), NEW m \in DOMAIN nm, NEW n \in DOMAIN nm,
         m # n, NEW k \in Nat, k = Len(nm[m]), NEW j \in Nat, j = Len(nm[n]),
         NEW nm2, NEW im2, Merged(nm, im, nm2, im2, m, n, k, j)
  PROVE  Filed(nm2, im2)
<1>1. k >= 1 /\ j >= 1 /\ m \in DOMAIN nm2
  BY DEF Filed, Merged
<1>2. \A x \in DOMAIN nm2 : nm2[x] \in Seq(Addr) /\ Len(nm2[x]) >= 1 /\ nm2[x][1] = x
  <2> TAKE x \in DOMAIN nm2
  <2>1. CASE x = m
    <3>1. nm[m][1] = m /\ 1 \in 1..k
      BY <1>1 DEF Filed
    <3>2. nm2[m][1] = m
      BY <3>1 DEF Merged
    <3>3. nm2[m] \in Seq(Addr) /\ Len(nm2[m]) = k + j
      BY DEF Merged
    <3> QED
      BY <2>1, <3>2, <3>3, <1>1
  <2>2. CASE x # m
    <3>1. x \in DOMAIN nm /\ nm2[x] = nm[x]
      BY <2>2 DEF Merged
    <3>2. nm[x] \in Seq(Addr) /\ Len(nm[x]) >= 1 /\ nm[x][1] = x
      BY <3>1 DEF Filed
    <3> QED
      BY <3>1, <3>2
  <2> QED
    BY <2>1, <2>2
<1>3. Indexed(nm2, im2)
  <2> SUFFICES ASSUME NEW x \in DOMAIN im
               PROVE  /\ im2[x] \in [vmNode : DOMAIN nm2, index : Nat \ {0}]
                      /\ im2[x].index <= Len(nm2[im2[x].vmNode])
                      /\ nm2[im2[x].vmNode][im2[x].index] = x
    BY DEF Indexed, Merged
  <2>1. /\ im[x].vmNode \in DOMAIN nm /\ im[x].index \in Nat \ {0}
        /\ im[x].index \in 1..Len(nm[im[x].vmNode])
        /\ nm[im[x].vmNode][im[x].index] = x
        /\ im[x] = [vmNode |-> im[x].vmNode, index |-> im[x].index]
    BY IndexedAt
  <2>2. CASE im[x].vmNode = n
    <3>1. im2[x] = [vmNode |-> m, index |-> k + im[x].index]
      BY <2>2 DEF Merged
    <3>2. im[x].index \in 1..j
      BY <2>1, <2>2
    <3>3. nm2[m][k + im[x].index] = x
      BY <2>1, <2>2, <3>2 DEF Merged
    <3>4. k + im[x].index \in Nat \ {0} /\ k + im[x].index <= k + j
      BY <3>2
    <3>5. Len(nm2[m]) = k + j
      BY DEF Merged
    <3> QED
      BY <1>1, <3>1, <3>3, <3>4, <3>5
  <2>3. CASE im[x].vmNode = m
    <3>1. im2[x] = im[x]
      BY <2>3 DEF Merged
    <3>2. im[x].index \in 1..k
      BY <2>1, <2>3
    <3>3. nm2[m][im[x].index] = nm[m][im[x].index] /\ Len(nm2[m]) = k + j
      BY <3>2 DEF Merged
    <3>4. im[x].index <= k + j
      BY <3>2
    <3>5. im2[x] \in [vmNode : DOMAIN nm2, index : Nat \ {0}]
      BY <1>1, <2>1, <2>3, <3>1
    <3> QED
      BY <2>1, <2>3, <3>1, <3>3, <3>4, <3>5
  <2>4. CASE im[x].vmNode \notin {m, n}
    <3>1. im2[x] = im[x] /\ nm2[im[x].vmNode] = nm[im[x].vmNode]
      BY <2>1, <2>4 DEF Merged
    <3>2. im[x].vmNode \in DOMAIN nm2
      BY <2>1, <2>4 DEF Merged
    <3>3. im2[x].index <= Len(nm2[im2[x].vmNode])
      BY <3>1, <2>1
    <3>4. im2[x] \in [vmNode : DOMAIN nm2, index : Nat \ {0}]
      BY <3>1, <3>2, <2>1
    <3> QED
      BY <2>1, <3>1, <3>3, <3>4
  <2> QED
    BY <2>2, <2>3, <2>4
<1>4. Placed(nm2, im2)
  <2> SUFFICES ASSUME NEW x \in DOMAIN nm2, NEW i \in 1..Len(nm2[x])
               PROVE  /\ nm2[x][i] \in DOMAIN im
                      /\ im2[nm2[x][i]].vmNode = x
                      /\ im2[nm2[x][i]].index = i
    BY DEF Placed, Merged
  <2>1. CASE x = m /\ i <= k
    <3>1. i \in 1..k /\ nm2[m][i] = nm[m][i]
      BY <2>1 DEF Merged
    <3>2. /\ nm[m][i] \in DOMAIN im
          /\ im[nm[m][i]].vmNode = m /\ im[nm[m][i]].index = i
      BY <3>1, PlacedAt
    <3>3. im2[nm[m][i]] = im[nm[m][i]]
      BY <3>2 DEF Merged
    <3> QED
      BY <2>1, <3>1, <3>2, <3>3
  <2>2. CASE x = m /\ ~ i <= k
    <3>0. i \in 1..(k + j)
      BY <2>2 DEF Merged
    <3> DEFINE p == i - k
    <3>1. p \in 1..j /\ k + p = i
      BY <2>2, <3>0
    <3> HIDE DEF p
    <3>2. nm2[m][i] = nm[n][p]
      BY <3>1 DEF Merged
    <3>3. /\ nm[n][p] \in DOMAIN im
          /\ im[nm[n][p]].vmNode = n /\ im[nm[n][p]].index = p
      BY <3>1, PlacedAt
    <3>4. im2[nm[n][p]] = [vmNode |-> m, index |-> k + p]
      BY <3>3 DEF Merged
    <3> QED
      BY <2>2, <3>1, <3>2, <3>3, <3>4
  <2>3. CASE x # m
    <3>1. x \in DOMAIN nm \ {m, n} /\ nm2[x] = nm[x] /\ i \in 1..Len(nm[x])
      BY <2>3 DEF Merged
    <3>2. /\ nm[x][i] \in DOMAIN im
          /\ im[nm[x][i]].vmNode = x /\ im[nm[x][i]].index = i
      BY <3>1, PlacedAt
    <3>3. im2[nm[x][i]] = im[nm[x][i]]
      BY <3>1, <3>2 DEF Merged
    <3> QED
      BY <3>1, <3>2, <3>3
  <2> QED
    BY <2>1, <2>2, <2>3
<1>5. DOMAIN nm2 \subseteq Addr /\ DOMAIN im2 \subseteq Addr
  BY DEF Merged, Filed
<1> QED
  BY <1>2, <1>3, <1>4, <1>5 DEF Filed

\* f, the end of m, is no end any more, and n no head; all others stay.
LEMMA MergedEnds ==
  ASSUME NEW nm, NEW im, Filed(nm, im), NEW m \in DOMAIN nm, NEW n \in DOMAIN nm,
         m # n, NEW k \in Nat, k = Len(nm[m]), NEW j \in Nat, j = Len(nm[n]),
         NEW nm2, NEW im2, Merged(nm, im, nm2, im2, m, n, k, j)
  PROVE  /\ \A x \in DOMAIN im \ {n} : AtHead(im, x) => AtHead(im2, x)
         /\ \A x \in DOMAIN im \ {nm[m][k]} : AtEnd(nm, im, x) => AtEnd(nm2, im2, x)
<1>1. ASSUME NEW x \in DOMAIN im, x # n, AtHead(im, x)
      PROVE  AtHead(im2, x)
  <2>1. nm[im[x].vmNode][im[x].index] = x /\ im[x].index = 1 /\ im[x].vmNode \in DOMAIN nm
    BY <1>1, IndexedAt DEF AtHead
  <2>2. im[x].vmNode # n
    BY <1>1, <2>1 DEF Filed
  <2>3. im2[x] = im[x]
    BY <2>2 DEF Merged
  <2> QED
    BY <2>1, <2>3 DEF AtHead
<1>2. ASSUME NEW x \in DOMAIN im, x # nm[m][k], AtEnd(nm, im, x)
      PROVE  AtEnd(nm2, im2, x)
  <2>1. im[x].vmNode \in DOMAIN nm /\ nm[im[x].vmNode][im[x].index] = x
    BY IndexedAt
  <2>2. im[x].vmNode # m
    BY <1>2, <2>1 DEF AtEnd
  <2>3. CASE im[x].vmNode = n
    <3>1. im2[x] = [vmNode |-> m, index |-> k + im[x].index]
      BY <2>3 DEF Merged
    <3>2. im[x].index = j
      BY <1>2, <2>3 DEF AtEnd
    <3>3. Len(nm2[m]) = k + j
      BY DEF Merged
    <3> QED
      BY <3>1, <3>2, <3>3 DEF AtEnd
  <2>4. CASE im[x].vmNode # n
    <3>1. im2[x] = im[x] /\ nm2[im[x].vmNode] = nm[im[x].vmNode]
      BY <2>1, <2>2, <2>4 DEF Merged
    <3> QED
      BY <3>1, <1>2 DEF AtEnd
  <2> QED
    BY <2>3, <2>4
<1> QED
  BY <1>1, <1>2

\* The only member of a set of one address.
LEMMA OnlyOne ==
  ASSUME NEW S \in SUBSET Addr, Cardinality(S) = 1, NEW x \in S
  PROVE  S = {x}
<1>1. IsFiniteSet(S)
  BY AddrAssumption, FS_Subset
<1>2. \E y : S = {y}
  BY <1>1, FS_Singleton
<1> QED
  BY <1>2

LEMMA RemovedEdges ==
  ASSUME NEW edges \in [Addr -> SUBSET Addr], NEW f \in Addr, NEW n
  PROVE  /\ Removed(edges, f, n) \in [Addr -> SUBSET Addr]
         /\ \A x \in Addr : \A y \in Removed(edges, f, n)[x] :
              y \in edges[x] /\ ~ (x = f /\ y = n)
BY DEF Removed

\* The edge into a node that merges: it comes from the end of its father, and
\* is the only one there and the only one into the node.
LEMMA OnlyEdge ==
  ASSUME NEW g, NEW c, Sound(g, c), NEW n \in DOMAIN g.nodeMap, checkCanMerge(g, n)
  PROVE  LET f == FromAddr(g, n)
         IN  /\ f \in Addr /\ f \in DOMAIN g.instructionToNodeMap
             /\ g.fromEdges[f] = {n} /\ g.toEdges[n] = {f}
             /\ Father(g, n) \in DOMAIN g.nodeMap
             /\ EndAddr(g, Father(g, n)) = f
<1> DEFINE f == FromAddr(g, n)
           m == Father(g, n)
           nm == g.nodeMap
           im == g.instructionToNodeMap
<1>1. /\ Good(g) /\ Filed(nm, im) /\ Joined(nm, im, g.fromEdges)
      /\ g.toEdges \in [Addr -> SUBSET Addr]
  BY DEF Sound, Blocks
<1>2. n \in Addr /\ g.toEdges[n] \in SUBSET Addr
  BY <1>1 DEF Filed
<1>3. Cardinality(g.toEdges[n]) = 1 /\ Cardinality(g.fromEdges[f]) = 1
  BY DEF checkCanMerge
<1>4. f \in g.toEdges[n]
  <2>1. g.toEdges[n] # {}
    BY <1>3, FS_EmptySet
  <2> QED
    BY <2>1 DEF FromAddr
<1>5. f \in Addr /\ g.toEdges[n] = {f}
  BY <1>2, <1>3, <1>4, OnlyOne
<1>m. m = im[f].vmNode
  BY DEF Father
<1>e. EndAddr(g, m) = nm[m][Len(nm[m])]
  BY DEF EndAddr
<1> HIDE DEF f, m
<1>6. n \in g.fromEdges[f]
  BY <1>1, <1>2, <1>5 DEF Good, Mirrored
<1>7. g.fromEdges[f] \in SUBSET Addr
  BY <1>1, <1>5 DEF Joined, Filed
<1>8. g.fromEdges[f] = {n}
  BY <1>3, <1>6, <1>7, OnlyOne
<1>9. f \in DOMAIN im /\ AtEnd(nm, im, f)
  BY <1>1, <1>5, <1>6 DEF Joined
<1>10. m \in DOMAIN nm /\ nm[m][Len(nm[m])] = f
  <2>1. im[f].vmNode \in DOMAIN nm /\ nm[im[f].vmNode][im[f].index] = f
    BY <1>1, <1>9, IndexedAt
  <2> QED
    BY <2>1, <1>9, <1>m DEF AtEnd
<1> QED
  BY <1>5, <1>8, <1>9, <1>10, <1>e DEF f, m

\* What a merge makes of the graph.
LEMMA MergeShape ==
  ASSUME NEW g, NEW c, Sound(g, c), NEW n \in DOMAIN g.nodeMap, checkCanMerge(g, n),
         NEW m, m = Father(g, n), m # n, NEW r, r = executeMerge(g, m, n)
  PROVE  LET f == FromAddr(g, n)
         IN  /\ Record(r)
             /\ m \in DOMAIN g.nodeMap /\ g.nodeMap[m][Len(g.nodeMap[m])] = f
             /\ Len(g.nodeMap[m]) \in Nat /\ Len(g.nodeMap[n]) \in Nat
             /\ Merged(g.nodeMap, g.instructionToNodeMap,
                       r.nodeMap, r.instructionToNodeMap,
                       m, n, Len(g.nodeMap[m]), Len(g.nodeMap[n]))
             /\ r.fromEdges = Removed(g.fromEdges, f, n)
             /\ r.toEdges = Removed(g.toEdges, n, f)
<1> DEFINE f     == FromAddr(g, n)
           nm    == g.nodeMap
           im    == g.instructionToNodeMap
           h     == removeEdge(g, f, n)
           nodes == Appended(nm, m, n)
           ins   == Reindex(im, nm[n], m, Len(nm[m]))
           less  == Removed(g.fromEdges, f, n)
           lessBack == Removed(g.toEdges, n, f)
<1>1. Record(g) /\ Filed(nm, im)
  BY DEF Sound, Blocks
<1>2. m \in DOMAIN nm /\ EndAddr(g, m) = f
  BY OnlyEdge
<1>3. nm[m][Len(nm[m])] = f
  BY <1>2 DEF EndAddr
<1>4. /\ Record(h) /\ h.nodeMap = nm /\ h.instructionToNodeMap = im
      /\ h.fromEdges = less /\ h.toEdges = lessBack
  BY <1>1, RemoveFields
<1>5. r = Refiled(h, nodes, ins)
  <2>1. r = Refiled(removeEdge(g, EndAddr(g, m), n),
                    [x \in DOMAIN h.nodeMap \ {n} |->
                       IF x = m THEN h.nodeMap[x] \o nm[n] ELSE h.nodeMap[x]],
                    Reindex(h.instructionToNodeMap, nm[n], m, Len(nm[m])))
    BY <1>2 DEF executeMerge, Refiled
  <2>2. nodes = [x \in DOMAIN nm \ {n} |-> IF x = m THEN nm[x] \o nm[n] ELSE nm[x]]
    BY DEF Appended
  <2> HIDE DEF h, nm, im, f
  <2> QED
    BY <2>1, <2>2, <1>2, <1>4 DEF h
<1>6. n \in DOMAIN nm
  OBVIOUS
<1>7. \A x \in DOMAIN nm : nm[x] \in Seq(Addr) /\ Len(nm[x]) \in Nat
  BY <1>1 DEF Filed
<1> HIDE DEF h, nodes, ins, less, lessBack, nm, im, f
<1>8. Merged(nm, im, nodes, ins, m, n, Len(nm[m]), Len(nm[n]))
  BY <1>1, <1>2, <1>6, <1>7, MergeFields DEF nodes, ins
<1>9. /\ Record(r) /\ r.nodeMap = nodes /\ r.instructionToNodeMap = ins
      /\ r.fromEdges = less /\ r.toEdges = lessBack
  BY <1>4, <1>5, RefileFields
<1> QED
  BY <1>2, <1>3, <1>6, <1>7, <1>8, <1>9 DEF f, nm, im, less, lessBack

LEMMA MergeSound ==
  ASSUME NEW g, NEW c, Sound(g, c), NEW n \in DOMAIN g.nodeMap, checkCanMerge(g, n),
         Father(g, n) # n, NEW r, r = executeMerge(g, Father(g, n), n)
  PROVE  Sound(r, c)
<1> DEFINE f     == FromAddr(g, n)
           m     == Father(g, n)
           nm    == g.nodeMap
           im    == g.instructionToNodeMap
           edges == g.fromEdges
           back  == g.toEdges
           nodes == r.nodeMap
           ins   == r.instructionToNodeMap
           less  == r.fromEdges
<1>0. n \in DOMAIN nm
  OBVIOUS
<1>1. /\ Good(g) /\ Filed(nm, im) /\ Joined(nm, im, edges)
      /\ Led(edges, c) /\ back \in [Addr -> SUBSET Addr]
      /\ \A x, y \in Addr : y \in edges[x] <=> x \in back[y]
      /\ edges = [a \in Addr |-> edges[a]]
  BY DEF Sound, Blocks, Good, Mirrored
<1>2. /\ f \in Addr /\ f \in DOMAIN im /\ edges[f] = {n} /\ back[n] = {f}
      /\ m # n
  BY OnlyEdge
<1>3. Good(r)
  BY <1>1, MergeGood
<1>4. /\ Record(r) /\ m \in DOMAIN nm /\ nm[m][Len(nm[m])] = f
      /\ Len(nm[m]) \in Nat /\ Len(nm[n]) \in Nat
      /\ Merged(nm, im, nodes, ins, m, n, Len(nm[m]), Len(nm[n]))
      /\ less = Removed(edges, f, n) /\ r.toEdges = Removed(back, n, f)
  BY <1>2, MergeShape
<1> HIDE DEF nodes, ins, less, nm, im, m, f, edges, back
<1>5. Filed(nodes, ins)
  BY <1>0, <1>1, <1>2, <1>4, MergedFiled
<1>6. /\ \A x \in DOMAIN im \ {n} : AtHead(im, x) => AtHead(ins, x)
      /\ \A x \in DOMAIN im \ {f} : AtEnd(nm, im, x) => AtEnd(nodes, ins, x)
  BY <1>0, <1>1, <1>2, <1>4, MergedEnds
<1>7. n \in Addr
  BY <1>0, <1>1 DEF Filed
<1>8. edges \in [Addr -> SUBSET Addr]
  <2>1. \A x \in Addr : edges[x] \in SUBSET Addr
    BY <1>1 DEF Joined, Filed
  <2> QED
    BY <2>1, <1>1
<1>9. /\ less \in [Addr -> SUBSET Addr]
      /\ \A x \in Addr : \A y \in less[x] : y \in edges[x] /\ ~ (x = f /\ y = n)
  BY <1>2, <1>4, <1>8, RemovedEdges
<1>10. r.toEdges \in [Addr -> SUBSET Addr]
  BY <1>1, <1>4, <1>7, RemovedEdges
<1>11. ASSUME NEW x \in Addr, NEW y \in less[x]
       PROVE  /\ x \in DOMAIN ins /\ y \in DOMAIN ins
              /\ AtEnd(nodes, ins, x) /\ AtHead(ins, y)
              /\ y # x /\ y \in c[x].succ
  <2>1. y \in edges[x] /\ ~ (x = f /\ y = n) /\ y \in Addr
    BY <1>9
  <2>2. x # f
    BY <2>1, <1>2
  <2>3. y # n
    BY <2>1, <2>2, <1>1, <1>2
  <2>4. /\ x \in DOMAIN im /\ y \in DOMAIN im /\ AtEnd(nm, im, x) /\ AtHead(im, y)
        /\ y # x /\ y \in c[x].succ
    BY <2>1, <1>1 DEF Joined, Led
  <2>5. DOMAIN ins = DOMAIN im
    BY <1>4 DEF Merged
  <2> QED
    BY <2>2, <2>3, <2>4, <2>5, <1>6
<1>12. Joined(nodes, ins, less) /\ Led(less, c)
  BY <1>11 DEF Joined, Led
<1> QED
  BY <1>3, <1>4, <1>5, <1>10, <1>12 DEF Sound, Blocks, nodes, ins, less

\* The graph before the trace.
LEMMA EmptySound ==
  ASSUME NEW c
  PROVE  Sound(EmptyGraph, c) /\ StraightBlocks(EmptyGraph.nodeMap, c)
<1> DEFINE none == <<>>
<1>1. DOMAIN none = {}
  OBVIOUS
<1>2. /\ EmptyGraph.nodeMap = none /\ EmptyGraph.instructionToNodeMap = none
      /\ EmptyGraph.fromEdges = [a \in Addr |-> {}]
      /\ EmptyGraph.toEdges = [a \in Addr |-> {}]
  BY DEF EmptyGraph
<1> HIDE DEF none
<1>3. Filed(none, none)
  BY <1>1 DEF Filed, Indexed, Placed
<1>4. \A x \in Addr : \A y \in EmptyGraph.fromEdges[x] : FALSE
  BY <1>2
<1>5. Joined(none, none, EmptyGraph.fromEdges) /\ Led(EmptyGraph.fromEdges, c)
  BY <1>4 DEF Joined, Led
<1>6. EmptyGraph.toEdges \in [Addr -> SUBSET Addr]
  BY <1>2
<1>7. StraightBlocks(none, c)
  BY <1>1 DEF StraightBlocks
<1> QED
  BY <1>2, <1>3, <1>5, <1>6, <1>7, EmptyGood DEF Sound, Blocks, Good

----------------------------------------------------------------------------
(* One trace.                                                              *)

OneTask == MaxTasks <= 1
FallsThrough == \A p \in Programs : Falls(p)

\* The trace is a path of the program.
Walked(list, c) ==
  \A i \in 1..(Len(list) - 1) : list[i + 1] \in c[list[i]].succ

\* Before the merge starts, blocks are straight pieces of the program.
Inv ==
  /\ code \in Programs /\ phase \in Phases /\ tasks \in 0..MaxTasks
  /\ traceList \in Seq(Addr) /\ Len(traceList) <= MaxTrace + 1
  /\ Walked(traceList, code)
  /\ flowIdx \in 1..(MaxTrace + 1)
  /\ phase # "idle" => tasks >= 1
  /\ phase = "emulate" => Len(traceList) >= 1 /\ flowIdx = 1
  /\ phase = "link" => flowIdx <= Len(traceList)
  /\ badNodeList \subseteq Addr /\ cursor \in Nat /\ bUpdateNode \in BOOLEAN
  /\ Sound(tfg, code)
  /\ tasks = 0 \/ phase \in {"emulate", "link"} => StraightBlocks(tfg.nodeMap, code)

\* The least of some numbers is one of them.
LEMMA LeastIn ==
  ASSUME NEW S \in SUBSET Nat, S # {}
  PROVE  Least(S) \in S
<1> DEFINE R == {ss \in Nat \X Nat : ss[1] < ss[2]}
<1>1. \A x, y \in Nat : <<x, y>> \notin R => y <= x
  OBVIOUS
<1>2. IsWellFoundedOn(R, Nat)
  BY NatLessThanWellFounded, Zenon DEF OpToRel
<1> HIDE DEF R
<1>3. \E x \in S : \A y \in S : <<y, x>> \notin R
  BY <1>2, WFMin
<1>4. \E x \in S : \A y \in S : x <= y
  BY <1>1, <1>3
<1> QED
  BY <1>4 DEF Least

LEMMA InitInv == Init => Inv
<1> SUFFICES ASSUME Init PROVE Inv
  OBVIOUS
<1>1. /\ code \in Programs /\ phase = "idle" /\ tasks = 0 /\ traceList = <<>>
      /\ flowIdx = 1 /\ tfg = EmptyGraph
      /\ badNodeList = {} /\ cursor = 0 /\ bUpdateNode = FALSE
  BY DEF Init
<1>2. Sound(tfg, code) /\ StraightBlocks(tfg.nodeMap, code)
  BY <1>1, EmptySound
<1>3. traceList \in Seq(Addr) /\ Len(traceList) = 0
  BY <1>1
<1>4. Walked(traceList, code)
  BY <1>3 DEF Walked
<1>5. /\ phase \in Phases /\ tasks \in 0..MaxTasks
      /\ Len(traceList) <= MaxTrace + 1 /\ flowIdx \in 1..(MaxTrace + 1)
      /\ phase # "idle" => tasks >= 1
      /\ phase = "emulate" => Len(traceList) >= 1 /\ flowIdx = 1
      /\ phase = "link" => flowIdx <= Len(traceList)
  BY <1>1, <1>3, ProgramAssumption DEF Phases
<1>6. badNodeList \subseteq Addr /\ cursor \in Nat /\ bUpdateNode \in BOOLEAN
  BY <1>1
<1> QED
  BY <1>1, <1>2, <1>3, <1>4, <1>5, <1>6 DEF Inv

LEMMA StartInv ==
  ASSUME Inv, OneTask, NEW entry \in Entries, StartWalk(entry)
  PROVE  Inv'
<1>1. /\ phase = "idle" /\ tasks < MaxTasks /\ tasks' = tasks + 1
      /\ traceList' = <<entry>> /\ flowIdx' = 1 /\ phase' = "emulate"
      /\ code' = code /\ tfg' = tfg /\ badNodeList' = badNodeList
      /\ cursor' = cursor /\ bUpdateNode' = bUpdateNode
  BY DEF StartWalk, mergeVars
<1>2. tasks \in 0..MaxTasks /\ MaxTasks \in Nat /\ MaxTasks <= 1 /\ MaxTrace \in Nat
  BY ProgramAssumption DEF Inv, OneTask
<1>3. tasks = 0 /\ tasks' = 1 /\ tasks' \in 0..MaxTasks
  BY <1>1, <1>2
<1>4. Sound(tfg', code') /\ StraightBlocks(tfg'.nodeMap, code')
  BY <1>1, <1>3 DEF Inv
<1>5. traceList' \in Seq(Addr) /\ Len(traceList') = 1
  BY <1>1, ProgramAssumption
<1>6. Walked(traceList', code')
  BY <1>5 DEF Walked
<1>7. /\ phase' \in Phases /\ tasks' \in 0..MaxTasks
      /\ Len(traceList') <= MaxTrace + 1 /\ flowIdx' \in 1..(MaxTrace + 1)
      /\ tasks' >= 1 /\ Len(traceList') >= 1 /\ phase' # "link"
  BY <1>1, <1>2, <1>3, <1>5 DEF Phases
<1>8. /\ code' \in Programs
      /\ badNodeList' \subseteq Addr /\ cursor' \in Nat /\ bUpdateNode' \in BOOLEAN
  BY <1>1 DEF Inv
<1> QED
  BY <1>1, <1>4, <1>5, <1>6, <1>7, <1>8 DEF Inv

LEMMA EmulateInv ==
  ASSUME Inv, Emulate
  PROVE  Inv'
<1> DEFINE last == Len(traceList)
<1>1. /\ phase = "emulate" /\ last < MaxTrace /\ code' = code /\ phase' = phase
      /\ tasks' = tasks /\ flowIdx' = flowIdx /\ tfg' = tfg
      /\ badNodeList' = badNodeList /\ cursor' = cursor
      /\ bUpdateNode' = bUpdateNode
  BY DEF Emulate, mergeVars
<1>2. /\ traceList \in Seq(Addr) /\ last >= 1 /\ last \in Nat /\ Walked(traceList, code)
      /\ MaxTrace \in Nat /\ code \in [Addr -> [kind : Kinds, succ : SUBSET Addr]]
  BY <1>1, ProgramAssumption DEF Inv
<1>3. PICK a \in code[traceList[last]].succ : traceList' = Append(traceList, a)
  BY DEF Emulate
<1>4. traceList[last] \in Addr /\ a \in Addr
  <2>1. traceList[last] \in Addr
    BY <1>2
  <2>2. code[traceList[last]].succ \in SUBSET Addr
    BY <2>1, <1>2
  <2> QED
    BY <2>1, <2>2, <1>3
<1>5. /\ traceList' \in Seq(Addr) /\ Len(traceList') = last + 1
      /\ traceList'[last + 1] = a
      /\ \A i \in 1..last : traceList'[i] = traceList[i]
  BY <1>2, <1>3, <1>4
<1> HIDE DEF last
<1>6. Walked(traceList', code')
  <2> SUFFICES ASSUME NEW i \in 1..(Len(traceList') - 1)
               PROVE  traceList'[i + 1] \in code[traceList'[i]].succ
    BY <1>1 DEF Walked
  <2>1. i \in 1..last /\ traceList'[i] = traceList[i]
    BY <1>2, <1>5
  <2>2. CASE i = last
    BY <2>1, <2>2, <1>3, <1>5
  <2>3. CASE i # last
    <3>1. i \in 1..(last - 1) /\ i + 1 \in 1..last
      BY <2>1, <2>3, <1>2
    <3>2. traceList[i + 1] \in code[traceList[i]].succ
      BY <3>1, <1>2 DEF Walked, last
    <3> QED
      BY <2>1, <3>1, <3>2, <1>5
  <2> QED
    BY <2>2, <2>3
<1>7. Len(traceList') <= MaxTrace + 1 /\ Len(traceList') >= 1
  BY <1>1, <1>2, <1>5
<1>8. /\ code' \in Programs /\ phase' \in Phases /\ tasks' \in 0..MaxTasks
      /\ flowIdx' \in 1..(MaxTrace + 1) /\ tasks' >= 1 /\ flowIdx' = 1
      /\ badNodeList' \subseteq Addr /\ cursor' \in Nat /\ bUpdateNode' \in BOOLEAN
      /\ Sound(tfg', code') /\ StraightBlocks(tfg'.nodeMap, code')
  BY <1>1 DEF Inv
<1> QED
  BY <1>1, <1>5, <1>6, <1>7, <1>8 DEF Inv

\* Steps that change neither the program, the trace nor the graph.
LEMMA PhaseInv ==
  ASSUME Inv, code' = code, traceList' = traceList, tfg' = tfg,
         tasks' = tasks, flowIdx' = flowIdx, phase # "idle", phase' \in Phases,
         phase' = "emulate" => phase = "emulate",
         phase' = "link" => phase = "link" \/ phase = "emulate",
         badNodeList' \subseteq Addr, cursor' \in Nat, bUpdateNode' \in BOOLEAN
  PROVE  Inv'
<1>1. /\ code' \in Programs /\ tasks' \in 0..MaxTasks
      /\ traceList' \in Seq(Addr) /\ Len(traceList') <= MaxTrace + 1
      /\ flowIdx' \in 1..(MaxTrace + 1)
      /\ Walked(traceList', code') /\ Sound(tfg', code')
  BY DEF Inv
<1>2. tasks' >= 1 /\ tasks' # 0
  BY DEF Inv
<1>3. /\ phase' = "emulate" => Len(traceList') >= 1 /\ flowIdx' = 1
      /\ phase' = "link" => flowIdx' <= Len(traceList')
  BY DEF Inv
<1>4. phase' \in {"emulate", "link"} => StraightBlocks(tfg'.nodeMap, code')
  BY DEF Inv
<1> QED
  BY <1>1, <1>2, <1>3, <1>4 DEF Inv

LEMMA LinkInv ==
  ASSUME Inv, FallsThrough, AddTraceFlow
  PROVE  Inv'
<1> DEFINE f == traceList[flowIdx]
           t == traceList[flowIdx + 1]
<1>1. /\ phase = "link" /\ flowIdx < Len(traceList) /\ flowIdx' = flowIdx + 1
      /\ code' = code /\ tasks' = tasks /\ traceList' = traceList
      /\ badNodeList' = badNodeList /\ cursor' = cursor
      /\ bUpdateNode' = bUpdateNode /\ phase' \in {"throw", "link"}
      /\ tfg' = IF f = t THEN tfg
                ELSE IF isEndIns(code[f].kind) THEN addJmpLink(tfg, f, t)
                                               ELSE addNormalLink(tfg, f, t)
  BY DEF AddTraceFlow, mergeVars, addLink
<1>2. /\ traceList \in Seq(Addr) /\ flowIdx \in 1..(MaxTrace + 1) /\ MaxTrace \in Nat
      /\ Len(traceList) <= MaxTrace + 1 /\ Walked(traceList, code)
      /\ Sound(tfg, code) /\ StraightBlocks(tfg.nodeMap, code) /\ code \in Programs
  BY <1>1, ProgramAssumption DEF Inv
<1>3. f \in Addr /\ t \in Addr /\ t \in code[f].succ
  <2>1. flowIdx \in 1..(Len(traceList) - 1)
    BY <1>1, <1>2
  <2> QED
    BY <2>1, <1>2 DEF Walked
<1>4. Falls(code)
  BY <1>2 DEF FallsThrough
<1> HIDE DEF f, t
<1>5. Sound(tfg', code) /\ StraightBlocks(tfg'.nodeMap, code)
  <2>1. CASE f = t
    BY <2>1, <1>1, <1>2
  <2>2. CASE f # t /\ isEndIns(code[f].kind)
    BY <2>2, <1>1, <1>2, <1>3, JmpSound
  <2>3. CASE f # t /\ ~ isEndIns(code[f].kind)
    BY <2>3, <1>1, <1>2, <1>3, <1>4, NormalSound
  <2> QED
    BY <2>1, <2>2, <2>3
<1>6. /\ flowIdx' \in 1..(MaxTrace + 1) /\ flowIdx' <= Len(traceList')
      /\ traceList' \in Seq(Addr) /\ Len(traceList') <= MaxTrace + 1
  BY <1>1, <1>2
<1>7. /\ code' \in Programs /\ tasks' \in 0..MaxTasks /\ tasks' >= 1
      /\ Walked(traceList', code') /\ phase' \in Phases
      /\ badNodeList' \subseteq Addr /\ cursor' \in Nat /\ bUpdateNode' \in BOOLEAN
  BY <1>1 DEF Inv, Phases
<1>8. Sound(tfg', code') /\ StraightBlocks(tfg'.nodeMap, code') /\ phase' # "emulate"
  BY <1>1, <1>5
<1> QED
  BY <1>6, <1>7, <1>8 DEF Inv

LEMMA MergeInv ==
  ASSUME Inv, MergeNode
  PROVE  Inv'
<1> DEFINE n == Least(Unvisited)
<1>1. /\ phase = "merge" /\ Unvisited # {} /\ cursor' = n /\ checkCanMerge(tfg, n)
      /\ IF Father(tfg, n) = n
           THEN phase' = "hang" /\ tfg' = tfg
           ELSE phase' = phase /\ tfg' = executeMerge(tfg, Father(tfg, n), n)
      /\ bUpdateNode' = TRUE /\ code' = code /\ tasks' = tasks
      /\ traceList' = traceList /\ flowIdx' = flowIdx /\ badNodeList' = badNodeList
  BY DEF MergeNode, CanMerge
<1>2. Sound(tfg, code) /\ DOMAIN tfg.nodeMap \subseteq Addr /\ Addr \subseteq Nat
  BY AddrAssumption DEF Inv, Sound, Blocks, Filed
<1>3. Unvisited \in SUBSET Nat /\ Unvisited \subseteq DOMAIN tfg.nodeMap
  BY <1>2 DEF Unvisited
<1>4. n \in DOMAIN tfg.nodeMap /\ n \in Nat
  BY <1>1, <1>3, LeastIn
<1> HIDE DEF n
<1>5. Sound(tfg', code)
  BY <1>1, <1>2, <1>4, MergeSound
<1>6. /\ code' \in Programs /\ phase' \in Phases /\ tasks' \in 0..MaxTasks
      /\ tasks' >= 1 /\ tasks' # 0
      /\ traceList' \in Seq(Addr) /\ Len(traceList') <= MaxTrace + 1
      /\ Walked(traceList', code') /\ flowIdx' \in 1..(MaxTrace + 1)
      /\ badNodeList' \subseteq Addr
  BY <1>1 DEF Inv, Phases
<1>7. phase' # "emulate" /\ phase' # "link" /\ phase' # "idle"
  BY <1>1
<1>8. cursor' \in Nat /\ bUpdateNode' \in BOOLEAN /\ Sound(tfg', code')
  BY <1>1, <1>4, <1>5
<1> QED
  BY <1>6, <1>7, <1>8 DEF Inv

\* A task from its first instruction to its last merge.
TaskStep ==
  Emulate \/ EmulationEnds \/ AddTraceFlow \/ AddTraceFlowReturns \/ MergeAllNodes

LEMMA TaskInv ==
  ASSUME Inv, FallsThrough, TaskStep \/ UNCHANGED vars
  PROVE  Inv'
<1>1. ASSUME UNCHANGED vars PROVE Inv'
  BY <1>1 DEF Inv, vars, mergeVars
<1>2. ASSUME EmulationEnds PROVE Inv'
  BY <1>2, PhaseInv DEF EmulationEnds, Inv, Phases, mergeVars
<1>3. ASSUME AddTraceFlowReturns PROVE Inv'
  BY <1>3, PhaseInv DEF AddTraceFlowReturns, Phases
<1>4. ASSUME RejectNode PROVE Inv'
  <2>1. /\ Unvisited # {} /\ cursor' = Least(Unvisited)
        /\ badNodeList' = badNodeList \cup {Least(Unvisited)}
        /\ bUpdateNode' = bUpdateNode
    BY <1>4 DEF RejectNode
  <2>2. DOMAIN tfg.nodeMap \subseteq Addr /\ Addr \subseteq Nat
    BY AddrAssumption DEF Inv, Sound, Blocks, Filed
  <2>3. Unvisited \in SUBSET Nat /\ Unvisited \subseteq Addr
    BY <2>2 DEF Unvisited
  <2>4. Least(Unvisited) \in Unvisited
    BY <2>1, <2>3, LeastIn
  <2>5. badNodeList' \subseteq Addr /\ cursor' \in Nat /\ bUpdateNode' \in BOOLEAN
    BY <2>1, <2>3, <2>4 DEF Inv
  <2> QED
    BY <1>4, <2>5, PhaseInv DEF RejectNode, Phases
<1>5. ASSUME MergePassEnds PROVE Inv'
  BY <1>5, PhaseInv DEF MergePassEnds, Inv, Phases
<1> QED
  BY <1>1, <1>2, <1>3, <1>4, <1>5, EmulateInv, LinkInv, MergeInv
     DEF TaskStep, MergeAllNodes

LEMMA StepInv ==
  ASSUME Inv, OneTask, FallsThrough, [Next]_vars
  PROVE  Inv'
BY TaskInv, StartInv DEF Next, TaskStep

LEMMA Invariance ==
  ASSUME OneTask, FallsThrough
  PROVE  Spec => []Inv
<1>1. Inv /\ [Next]_vars => Inv'
  BY StepInv
<1> QED
  BY <1>1, InitInv, PTL DEF Spec

\* A graph of one trace keeps its types: no block is ever empty.
THEOREM TraceTypeCorrect ==
  ASSUME OneTask, FallsThrough
  PROVE  Spec => []TypeOK
<1>1. Inv => TypeOK
  <2> SUFFICES ASSUME Inv PROVE TypeOK
    OBVIOUS
  <2>1. code \in [Addr -> [kind : Kinds, succ : SUBSET Addr]]
    BY ProgramAssumption DEF Inv
  <2>2. /\ Filed(tfg.nodeMap, tfg.instructionToNodeMap)
        /\ tfg.fromEdges = [a \in Addr |-> tfg.fromEdges[a]]
        /\ Joined(tfg.nodeMap, tfg.instructionToNodeMap, tfg.fromEdges)
        /\ tfg.toEdges \in [Addr -> SUBSET Addr]
    BY DEF Inv, Sound, Blocks, Good, Mirrored
  <2>3. \A n \in DOMAIN tfg.nodeMap : tfg.nodeMap[n] \in Seq(Addr) \ {<<>>}
    BY <2>2 DEF Filed
  <2>4. \A f \in Addr : tfg.fromEdges[f] \in SUBSET Addr
    BY <2>2 DEF Joined, Filed
  <2>5. tfg.fromEdges \in [Addr -> SUBSET Addr]
    BY <2>2, <2>4
  <2> QED
    BY <2>1, <2>2, <2>3, <2>5 DEF TypeOK, Inv, Filed
<1> QED
  BY <1>1, Invariance, PTL

LEMMA InvMaps ==
  ASSUME Inv
  PROVE  MapsAgree
<1>1. Filed(tfg.nodeMap, tfg.instructionToNodeMap)
  BY DEF Inv, Sound, Blocks
<1>2. IndexNamesInstruction
  BY <1>1, IndexedAt DEF IndexNamesInstruction
<1>3. BlocksIndexed
  <2>1. \A n \in DOMAIN tfg.nodeMap : tfg.nodeMap[n][1] = n
    BY <1>1 DEF Filed
  <2>2. ASSUME NEW n \in DOMAIN tfg.nodeMap, NEW i \in 1..Len(tfg.nodeMap[n])
        PROVE  /\ tfg.nodeMap[n][i] \in DOMAIN tfg.instructionToNodeMap
               /\ tfg.instructionToNodeMap[tfg.nodeMap[n][i]] =
                    [vmNode |-> n, index |-> i]
    <3>1. /\ tfg.nodeMap[n][i] \in DOMAIN tfg.instructionToNodeMap
          /\ tfg.instructionToNodeMap[tfg.nodeMap[n][i]].vmNode = n
          /\ tfg.instructionToNodeMap[tfg.nodeMap[n][i]].index = i
      BY <1>1, PlacedAt
    <3> QED
      BY <1>1, <3>1, IndexedAt
  <2> QED
    BY <2>1, <2>2 DEF BlocksIndexed
<1> QED
  BY <1>2, <1>3 DEF MapsAgree

\* As long as one trace is linked, blocks and instructionToNodeMap agree,
\* through every split of a block and every merge.
THEOREM MapsAgreeCorrect ==
  ASSUME OneTask, FallsThrough
  PROVE  Spec => []MapsAgree
BY InvMaps, Invariance, PTL

\* As long as one trace is linked, every edge leaves the end of a block and
\* enters the head of one.
THEOREM EdgesTailToHeadCorrect ==
  ASSUME OneTask, FallsThrough
  PROVE  Spec => []EdgesTailToHead
<1>1. Inv => EdgesTailToHead
  BY DEF Inv, Sound, Blocks, Joined, AtEnd, AtHead, EdgesTailToHead, IsTail, IsHead
<1> QED
  BY <1>1, Invariance, PTL

----------------------------------------------------------------------------
(* The trace in the blocks.                                                *)

\* y comes right behind x in x's block.
Beside(nm, im, x, y) ==
  /\ im[x].index # Len(nm[im[x].vmNode])
  /\ nm[im[x].vmNode][im[x].index + 1] = y

\* The blocks and edges lead from x to y.
Stepped(nm, im, edges, c, x, y) ==
  /\ x \in DOMAIN im
  /\ \/ Beside(nm, im, x, y)
     \/ AtEnd(nm, im, x) /\ (isEndIns(c[x].kind) => y \in edges[x])

\* h has every address and every edge of g.
Larger(g, h) ==
  /\ DOMAIN g.instructionToNodeMap \subseteq DOMAIN h.instructionToNodeMap
  /\ \A x \in Addr : g.fromEdges[x] \subseteq h.fromEdges[x]

LEMMA LargerTrans ==
  ASSUME NEW g, NEW h, NEW k, Larger(g, h), Larger(h, k)
  PROVE  Larger(g, k)
BY DEF Larger

LEMMA LinkLarger ==
  ASSUME NEW g, Good(g), NEW f, NEW t
  PROVE  /\ Larger(g, linkEdge(g, f, t))
         /\ f \in Addr => t \in linkEdge(g, f, t).fromEdges[f]
<1> DEFINE h == linkEdge(g, f, t)
<1>1. /\ h.instructionToNodeMap = g.instructionToNodeMap
      /\ h.fromEdges = Added(g.fromEdges, f, t)
      /\ g.fromEdges = [a \in Addr |-> g.fromEdges[a]]
  BY LinkFields DEF Good, Mirrored
<1> HIDE DEF h
<1>2. /\ \A x \in Addr : g.fromEdges[x] \subseteq h.fromEdges[x]
      /\ f \in Addr => t \in h.fromEdges[f]
  BY <1>1 DEF Added
<1> QED
  BY <1>1, <1>2 DEF Larger, h

LEMMA CreateLarger ==
  ASSUME NEW g, Good(g), NEW a
  PROVE  /\ Larger(g, createNode(g, a)) /\ Larger(g, ensureNode(g, a))
         /\ a \in DOMAIN ensureNode(g, a).instructionToNodeMap
<1>1. /\ createNode(g, a).instructionToNodeMap =
           Put(g.instructionToNodeMap, a, [vmNode |-> a, index |-> 1])
      /\ createNode(g, a).fromEdges = g.fromEdges
  BY CreateFields DEF Good
<1>2. DOMAIN createNode(g, a).instructionToNodeMap =
        DOMAIN g.instructionToNodeMap \cup {a}
  BY <1>1 DEF Put
<1> QED
  BY <1>1, <1>2 DEF ensureNode, Larger

LEMMA SplitLarger ==
  ASSUME NEW g, Good(g), NEW n, NEW a
  PROVE  Larger(g, splitBlock(g, n, a))
<1> DEFINE created == createNode(g, a)
           list    == created.nodeMap[n]
           found   == PositionsOf(list, a) \ {1}
           at      == Least(found)
           tail    == SubSeq(list, at + 1, Len(list))
           linked  == linkEdge(created, list[at - 1], a)
           nodes   == [linked.nodeMap EXCEPT ![a] = @ \o tail,
                                             ![n] = SubSeq(list, 1, at - 1)]
           ins     == Reindex(linked.instructionToNodeMap, tail, a, 1)
           thrown  == [created EXCEPT !.thrown = TRUE]
<1>1. Good(created) /\ Larger(g, created)
  BY CreateGood, CreateLarger
<1>2. Good(linked) /\ Larger(created, linked)
  BY <1>1, LinkGood, LinkLarger
<1>3. DOMAIN linked.instructionToNodeMap \subseteq DOMAIN ins
  BY DEF Reindex
<1>4. splitBlock(g, n, a) = IF found = {} THEN thrown ELSE Refiled(linked, nodes, ins)
  BY DEF splitBlock, Refiled
<1> HIDE DEF created
<1>5. Larger(created, thrown)
  <2>1. Record(created)
    BY <1>1 DEF Good
  <2>2. /\ thrown.fromEdges = created.fromEdges
        /\ thrown.instructionToNodeMap = created.instructionToNodeMap
    BY <2>1, ThrownFields
  <2> HIDE DEF thrown
  <2> QED
    BY <2>2 DEF Larger
<1> HIDE DEF linked, nodes, ins, thrown, found
<1>6. Larger(linked, Refiled(linked, nodes, ins))
  <2>1. Record(linked)
    BY <1>2 DEF Good
  <2>2. /\ Refiled(linked, nodes, ins).fromEdges = linked.fromEdges
        /\ Refiled(linked, nodes, ins).instructionToNodeMap = ins
    BY <2>1, RefileFields
  <2> QED
    BY <2>2, <1>3 DEF Larger
<1> QED
  BY <1>1, <1>2, <1>4, <1>5, <1>6, LargerTrans

LEMMA JmpLarger ==
  ASSUME NEW g, Good(g), NEW f \in Addr, NEW t, NEW r, r = addJmpLink(g, f, t)
  PROVE  /\ Larger(g, r)
         /\ f \in DOMAIN r.instructionToNodeMap /\ t \in r.fromEdges[f]
<1> DEFINE l   == linkEdge(g, f, t)
           e   == ensureNode(l, f)
           h   == ensureNode(e, t)
           cur == h.instructionToNodeMap[f].vmNode
           nxt == h.instructionToNodeMap[t].vmNode
           h1  == IF IsTail(h, f) THEN h ELSE splitBlock(h, cur, f)
<1>1. Good(l) /\ Larger(g, l) /\ t \in l.fromEdges[f]
  BY LinkGood, LinkLarger
<1>2. r = IF IsTail(h, f) /\ IsHead(h, t) THEN h
          ELSE IF cur = nxt THEN splitBlock(h, nxt, t)
          ELSE IF IsHead(h1, t) THEN h1
          ELSE splitBlock(h1, nxt, t)
  BY DEF addJmpLink
<1> HIDE DEF l
<1>3. Good(e) /\ Larger(l, e) /\ f \in DOMAIN e.instructionToNodeMap
  BY <1>1, CreateGood, CreateLarger
<1> HIDE DEF e
<1>4. Good(h) /\ Larger(e, h)
  BY <1>3, CreateGood, CreateLarger
<1> HIDE DEF h, cur, nxt
<1>5. Larger(h, splitBlock(h, nxt, t)) /\ Larger(h, h1) /\ Good(h1)
  <2>1. Larger(h, h)
    BY DEF Larger
  <2> QED
    BY <2>1, <1>4, SplitGood, SplitLarger
<1> HIDE DEF h1
<1>6. Larger(h1, splitBlock(h1, nxt, t))
  BY <1>5, SplitLarger
<1>7. Larger(h, r)
  <2>1. Larger(h, h)
    BY DEF Larger
  <2> QED
    BY <2>1, <1>2, <1>5, <1>6, LargerTrans
<1>8. Larger(e, r) /\ Larger(l, r) /\ Larger(g, r)
  BY <1>1, <1>3, <1>4, <1>7, LargerTrans
<1> QED
  BY <1>1, <1>3, <1>8 DEF Larger

LEMMA NormalLarger ==
  ASSUME NEW g, Good(g), NEW f \in Addr, NEW t, NEW r, r = addNormalLink(g, f, t)
  PROVE  Larger(g, r) /\ f \in DOMAIN r.instructionToNodeMap
<1> DEFINE h   == ensureNode(g, f)
           cur == h.instructionToNodeMap[f]
           nxt == h.instructionToNodeMap[t]
           nodes == [h.nodeMap EXCEPT ![cur.vmNode] = Append(@, t)]
           ins == Put(h.instructionToNodeMap, t,
                      [vmNode |-> cur.vmNode, index |-> cur.index + 1])
           thrown == cur.index + 1 # nxt.index
           again == [h EXCEPT !.thrown = thrown]
           s == splitBlock(h, nxt.vmNode, t)
<1>1. Good(h) /\ Larger(g, h) /\ f \in DOMAIN h.instructionToNodeMap
  BY CreateGood, CreateLarger
<1>2. r = IF t \notin DOMAIN h.instructionToNodeMap THEN Refiled(h, nodes, ins)
          ELSE IF cur.vmNode = nxt.vmNode THEN again
          ELSE IF nxt.index = 1 THEN h
          ELSE linkEdge(s, f, t)
  BY DEF addNormalLink, Refiled
<1>3. DOMAIN h.instructionToNodeMap \subseteq DOMAIN ins
  BY DEF Put
<1> HIDE DEF h, cur, nxt, nodes, ins, thrown
<1>4. Record(h) /\ Larger(h, h)
  BY <1>1 DEF Good, Larger
<1>5. Larger(h, Refiled(h, nodes, ins))
  BY <1>3, <1>4, RefileFields DEF Larger
<1>6. Larger(h, again)
  <2>1. /\ again.fromEdges = h.fromEdges
        /\ again.instructionToNodeMap = h.instructionToNodeMap
    BY <1>4, ThrownFields
  <2> QED
    BY <2>1 DEF Larger
<1>7. Larger(h, linkEdge(s, f, t))
  <2>1. Good(s) /\ Larger(h, s)
    BY <1>1, SplitGood, SplitLarger
  <2> QED
    BY <2>1, LinkLarger, LargerTrans
<1> HIDE DEF again, s
<1>8. Larger(h, r)
  BY <1>2, <1>4, <1>5, <1>6, <1>7
<1> QED
  BY <1>1, <1>8, LargerTrans DEF Larger

\* Before anything merges, a block leads where its instructions do, so that
\* only the edge of an instruction that ends blocks has to be there.
LEMMA SoundStepped ==
  ASSUME NEW g, NEW c, Sound(g, c), StraightBlocks(g.nodeMap, c), Falls(c),
         NEW x \in DOMAIN g.instructionToNodeMap, NEW y, y # x, y \in c[x].succ,
         isEndIns(c[x].kind) => y \in g.fromEdges[x]
  PROVE  Stepped(g.nodeMap, g.instructionToNodeMap, g.fromEdges, c, x, y)
<1> DEFINE nm == g.nodeMap
           im == g.instructionToNodeMap
<1>1. Filed(nm, im)
  BY DEF Sound, Blocks
<1>2. CASE AtEnd(nm, im, x)
  BY <1>2 DEF Stepped
<1>3. CASE ~ AtEnd(nm, im, x)
  <2>1. ~ isEndIns(c[x].kind)
    BY <1>1, <1>3, EndIsTail
  <2>2. y \in DOMAIN im /\ im[y].vmNode = im[x].vmNode /\ im[y].index = im[x].index + 1
    BY <1>1, <1>3, <2>1, NextIs
  <2>3. nm[im[y].vmNode][im[y].index] = y
    BY <1>1, <2>2, IndexedAt
  <2>4. Beside(nm, im, x, y)
    BY <1>3, <2>2, <2>3 DEF Beside, AtEnd
  <2> QED
    BY <2>4 DEF Stepped
<1> QED
  BY <1>2, <1>3

\* And the edge is there.
LEMMA SteppedEdge ==
  ASSUME NEW g, NEW c, Sound(g, c), StraightBlocks(g.nodeMap, c), NEW x, NEW y,
         Stepped(g.nodeMap, g.instructionToNodeMap, g.fromEdges, c, x, y),
         isEndIns(c[x].kind)
  PROVE  y \in g.fromEdges[x]
<1>1. AtEnd(g.nodeMap, g.instructionToNodeMap, x)
  BY EndIsTail DEF Sound, Blocks, Stepped
<1> QED
  BY <1>1 DEF Stepped, Beside, AtEnd

\* A merge turns the edge it removes into adjacency and leads everyone else on.
LEMMA MergeStepped ==
  ASSUME NEW g, NEW c, Sound(g, c), Falls(c),
         NEW n \in DOMAIN g.nodeMap, checkCanMerge(g, n),
         Father(g, n) # n, NEW r, r = executeMerge(g, Father(g, n), n),
         NEW x \in Addr, NEW y, y # x, y \in c[x].succ,
         Stepped(g.nodeMap, g.instructionToNodeMap, g.fromEdges, c, x, y)
  PROVE  Stepped(r.nodeMap, r.instructionToNodeMap, r.fromEdges, c, x, y)
<1> DEFINE f     == FromAddr(g, n)
           m     == Father(g, n)
           nm    == g.nodeMap
           im    == g.instructionToNodeMap
           edges == g.fromEdges
           nodes == r.nodeMap
           ins   == r.instructionToNodeMap
           less  == r.fromEdges
<1>0. n \in DOMAIN nm /\ m # n
  OBVIOUS
<1>1. /\ Filed(nm, im) /\ Led(edges, c)
      /\ edges = [a \in Addr |-> edges[a]]
  BY DEF Sound, Blocks, Good, Mirrored
<1>2. f \in Addr /\ f \in DOMAIN im /\ edges[f] = {n}
  BY OnlyEdge
<1>3. /\ m \in DOMAIN nm /\ nm[m][Len(nm[m])] = f
      /\ Len(nm[m]) \in Nat /\ Len(nm[n]) \in Nat
      /\ Merged(nm, im, nodes, ins, m, n, Len(nm[m]), Len(nm[n]))
      /\ less = Removed(edges, f, n)
  BY <1>0, MergeShape
<1>4. /\ x \in DOMAIN im
      /\ \/ Beside(nm, im, x, y)
         \/ AtEnd(nm, im, x) /\ (isEndIns(c[x].kind) => y \in edges[x])
  BY DEF Stepped
<1> HIDE DEF nodes, ins, less, nm, im, m, f, edges
<1>k. PICK k \in Nat : k = Len(nm[m])
  BY <1>3
<1>j. PICK j \in Nat : j = Len(nm[n])
  BY <1>3
<1>5. k >= 1 /\ j >= 1 /\ nm[n][1] = n
  BY <1>0, <1>1, <1>3, <1>k, <1>j DEF Filed
<1>6. Merged(nm, im, nodes, ins, m, n, k, j)
  BY <1>3, <1>k, <1>j
<1>7. x \in DOMAIN ins
  BY <1>4, <1>6 DEF Merged
<1>8. ASSUME Beside(nm, im, x, y)
      PROVE  Stepped(nodes, ins, less, c, x, y)
  <2>b. PICK b \in DOMAIN nm : b = im[x].vmNode
    BY <1>1, <1>4, IndexedAt
  <2>i. PICK i \in Nat : i = im[x].index
    BY <1>1, <1>4, IndexedAt
  <2>1. i \in 1..Len(nm[b]) /\ i # Len(nm[b]) /\ nm[b][i + 1] = y
    BY <1>1, <1>4, <1>8, <2>b, <2>i, IndexedAt DEF Beside
  <2>2. CASE b = n
    <3>1. ins[x] = [vmNode |-> m, index |-> k + i]
      BY <2>2, <2>b, <2>i, <1>4, <1>6 DEF Merged
    <3>i. i \in 1..j /\ i # j
      BY <2>1, <2>2, <1>j
    <3>2. i + 1 \in 1..j /\ k + i # k + j /\ k + (i + 1) = (k + i) + 1
      BY <3>i
    <3>3. nodes[m][k + (i + 1)] = nm[n][i + 1] /\ Len(nodes[m]) = k + j
      BY <3>2, <1>6 DEF Merged
    <3>4. nodes[m][(k + i) + 1] = y /\ Len(nodes[m]) # k + i
      BY <3>2, <3>3, <2>1, <2>2
    <3> QED
      BY <3>1, <3>4, <1>7 DEF Stepped, Beside
  <2>3. CASE b = m
    <3>1. ins[x].vmNode = m /\ ins[x].index = i
      BY <2>3, <2>b, <2>i, <1>0, <1>4, <1>6 DEF Merged
    <3>2. i + 1 \in 1..k /\ i # k + j
      BY <2>1, <2>3, <1>k, <1>5
    <3>3. nodes[m][i + 1] = nm[m][i + 1] /\ Len(nodes[m]) = k + j
      BY <3>2, <1>6 DEF Merged
    <3> QED
      BY <3>1, <3>2, <3>3, <2>1, <2>3, <1>7 DEF Stepped, Beside
  <2>4. CASE b # n /\ b # m
    <3>1. ins[x].vmNode = b /\ ins[x].index = i /\ nodes[b] = nm[b]
      BY <2>4, <2>b, <2>i, <1>4, <1>6 DEF Merged
    <3> QED
      BY <3>1, <2>1, <1>7 DEF Stepped, Beside
  <2> QED
    BY <2>2, <2>3, <2>4
<1>9. ASSUME x # f /\ AtEnd(nm, im, x) /\ (isEndIns(c[x].kind) => y \in edges[x])
      PROVE  Stepped(nodes, ins, less, c, x, y)
  <2>1. AtEnd(nodes, ins, x)
    BY <1>0, <1>1, <1>3, <1>4, <1>9, MergedEnds
  <2>2. less[x] = edges[x]
    BY <1>1, <1>3, <1>9 DEF Removed
  <2> QED
    BY <2>1, <2>2, <1>7, <1>9 DEF Stepped
<1>10. ASSUME x = f /\ AtEnd(nm, im, x) /\ (isEndIns(c[x].kind) => y \in edges[x])
       PROVE  Stepped(nodes, ins, less, c, x, y)
  <2>1. y = n
    <3>1. CASE isEndIns(c[x].kind)
      BY <3>1, <1>2, <1>10
    <3>2. CASE ~ isEndIns(c[x].kind)
      <4>1. n # x /\ n \in c[x].succ
        BY <1>1, <1>2, <1>10 DEF Led
      <4> QED
        BY <3>2, <4>1 DEF Falls
    <3> QED
      BY <3>1, <3>2
  <2>2. im[x].vmNode = m /\ im[x].index = k
    <3>1. k \in 1..Len(nm[m]) /\ nm[m][k] = x
      BY <1>3, <1>5, <1>10, <1>k
    <3> QED
      BY <3>1, <1>1, <1>3, PlacedAt
  <2>3. ins[x].vmNode = m /\ ins[x].index = k
    BY <2>2, <1>0, <1>4, <1>6 DEF Merged
  <2>4. 1 \in 1..j /\ k # k + j
    BY <1>5
  <2>5. nodes[m][k + 1] = nm[n][1] /\ Len(nodes[m]) = k + j
    BY <2>4, <1>6 DEF Merged
  <2> QED
    BY <2>1, <2>3, <2>4, <2>5, <1>5, <1>7 DEF Stepped, Beside
<1>11. Stepped(nodes, ins, less, c, x, y)
  BY <1>4, <1>8, <1>9, <1>10
<1> QED
  BY <1>11 DEF nodes, ins, less

\* The transitions AddTraceFlow has linked are all led by blocks and edges.
Followed ==
  /\ flowIdx = 1 \/ flowIdx <= Len(traceList)
  /\ \A i \in Linked :
       Stepped(tfg.nodeMap, tfg.instructionToNodeMap, tfg.fromEdges, code,
               traceList[i], traceList[i + 1])

\* A linked transition is a step of the program between two addresses.
LEMMA LinkedSteps ==
  ASSUME Inv, Followed, NEW i \in Linked
  PROVE  /\ traceList[i] \in Addr /\ traceList[i + 1] # traceList[i]
         /\ traceList[i + 1] \in code[traceList[i]].succ
<1>1. /\ i \in 1..(flowIdx - 1) /\ traceList[i] # traceList[i + 1]
      /\ flowIdx \in Nat /\ MaxTrace \in Nat
  BY ProgramAssumption DEF Linked, Inv
<1>2. flowIdx <= Len(traceList) /\ Len(traceList) \in Nat
  BY <1>1 DEF Followed, Inv
<1>3. i \in 1..(Len(traceList) - 1) /\ i \in 1..Len(traceList)
  BY <1>1, <1>2
<1> QED
  BY <1>1, <1>3 DEF Inv, Walked

\* Steps that leave the graph and the links as they are.
LEMMA SameFollowed ==
  ASSUME Followed, tfg' = tfg, code' = code, flowIdx' = flowIdx,
         traceList' = traceList
  PROVE  Followed'
BY DEF Followed, Linked

LEMMA LinkFollowed ==
  ASSUME Inv, FallsThrough, Followed, AddTraceFlow
  PROVE  Followed'
<1> DEFINE f == traceList[flowIdx]
           t == traceList[flowIdx + 1]
<1>1. /\ phase = "link" /\ flowIdx < Len(traceList) /\ flowIdx' = flowIdx + 1
      /\ code' = code /\ traceList' = traceList
      /\ tfg' = IF f = t THEN tfg
                ELSE IF isEndIns(code[f].kind) THEN addJmpLink(tfg, f, t)
                                               ELSE addNormalLink(tfg, f, t)
  BY DEF AddTraceFlow, addLink
<1>2. /\ traceList \in Seq(Addr) /\ flowIdx \in Nat /\ flowIdx >= 1
      /\ Walked(traceList, code)
      /\ Sound(tfg, code) /\ StraightBlocks(tfg.nodeMap, code) /\ Falls(code) /\ Good(tfg)
  BY <1>1, ProgramAssumption DEF Inv, Sound, FallsThrough
<1>3. f \in Addr /\ t \in Addr /\ t \in code[f].succ
  <2>1. flowIdx \in 1..(Len(traceList) - 1)
    BY <1>1, <1>2
  <2> QED
    BY <2>1, <1>2 DEF Walked
<1>4. flowIdx' <= Len(traceList')
  BY <1>1, <1>2
<1>5. \A i \in Linked' : (i \in Linked \/ i = flowIdx) /\ traceList[i] # traceList[i + 1]
  BY <1>1, <1>2 DEF Linked
<1>6. CASE f = t
  <2>1. \A i \in Linked' : i \in Linked
    BY <1>5, <1>6
  <2>2. tfg' = tfg
    BY <1>1, <1>6
  <2> QED
    BY <2>1, <2>2, <1>1, <1>4 DEF Followed
<1>7. CASE f # t
  <2> HIDE DEF f, t
  <2>1. /\ Sound(tfg', code) /\ StraightBlocks(tfg'.nodeMap, code) /\ Larger(tfg, tfg')
        /\ f \in DOMAIN tfg'.instructionToNodeMap
        /\ isEndIns(code[f].kind) => t \in tfg'.fromEdges[f]
    <3>1. CASE isEndIns(code[f].kind)
      BY <3>1, <1>1, <1>2, <1>3, <1>7, JmpSound, JmpLarger
    <3>2. CASE ~ isEndIns(code[f].kind)
      BY <3>2, <1>1, <1>2, <1>3, <1>7, NormalSound, NormalLarger
    <3> QED
      BY <3>1, <3>2
  <2>2. ASSUME NEW x \in Addr, x \in DOMAIN tfg'.instructionToNodeMap,
               NEW y, y # x, y \in code[x].succ,
               isEndIns(code[x].kind) => y \in tfg'.fromEdges[x]
        PROVE  Stepped(tfg'.nodeMap, tfg'.instructionToNodeMap, tfg'.fromEdges,
                       code, x, y)
    BY <2>1, <2>2, <1>2, SoundStepped
  <2>3. ASSUME NEW i \in Linked
        PROVE  Stepped(tfg'.nodeMap, tfg'.instructionToNodeMap, tfg'.fromEdges,
                       code, traceList[i], traceList[i + 1])
    <3> DEFINE x == traceList[i]
               y == traceList[i + 1]
    <3>1. x \in Addr /\ y # x /\ y \in code[x].succ
      BY LinkedSteps
    <3>2. Stepped(tfg.nodeMap, tfg.instructionToNodeMap, tfg.fromEdges, code, x, y)
      BY DEF Followed
    <3> HIDE DEF x, y
    <3>3. x \in DOMAIN tfg.instructionToNodeMap
      BY <3>2 DEF Stepped
    <3>4. isEndIns(code[x].kind) => y \in tfg.fromEdges[x]
      BY <3>2, <1>2, SteppedEdge
    <3>5. /\ x \in DOMAIN tfg'.instructionToNodeMap
          /\ isEndIns(code[x].kind) => y \in tfg'.fromEdges[x]
      BY <3>1, <3>3, <3>4, <2>1 DEF Larger
    <3>6. Stepped(tfg'.nodeMap, tfg'.instructionToNodeMap, tfg'.fromEdges, code, x, y)
      BY <3>1, <3>5, <2>2
    <3> QED
      BY <3>6 DEF x, y
  <2>4. Stepped(tfg'.nodeMap, tfg'.instructionToNodeMap, tfg'.fromEdges, code, f, t)
    BY <2>1, <2>2, <1>3, <1>7
  <2>5. ASSUME NEW i \in Linked'
        PROVE  Stepped(tfg'.nodeMap, tfg'.instructionToNodeMap, tfg'.fromEdges,
                       code, traceList[i], traceList[i + 1])
    BY <2>3, <2>4, <1>5 DEF f, t
  <2> QED
    BY <2>5, <1>1, <1>4 DEF Followed
<1> QED
  BY <1>6, <1>7

LEMMA MergeFollowed ==
  ASSUME Inv, FallsThrough, Followed, MergeNode
  PROVE  Followed'
<1> DEFINE n == Least(Unvisited)
<1>1. /\ Unvisited # {} /\ checkCanMerge(tfg, n)
      /\ IF Father(tfg, n) = n
           THEN tfg' = tfg ELSE tfg' = executeMerge(tfg, Father(tfg, n), n)
      /\ code' = code /\ traceList' = traceList /\ flowIdx' = flowIdx
  BY DEF MergeNode, CanMerge
<1>2. /\ Sound(tfg, code) /\ Falls(code)
      /\ DOMAIN tfg.nodeMap \subseteq Addr /\ Addr \subseteq Nat
  BY AddrAssumption DEF Inv, Sound, Blocks, Filed, FallsThrough
<1>3. Unvisited \in SUBSET Nat /\ Unvisited \subseteq DOMAIN tfg.nodeMap
  BY <1>2 DEF Unvisited
<1>4. n \in DOMAIN tfg.nodeMap
  BY <1>1, <1>3, LeastIn
<1> HIDE DEF n
<1>5. CASE Father(tfg, n) = n
  BY <1>1, <1>5, SameFollowed
<1>6. CASE Father(tfg, n) # n
  <2>1. tfg' = executeMerge(tfg, Father(tfg, n), n)
    BY <1>1, <1>6
  <2>2. ASSUME NEW i \in Linked
        PROVE  Stepped(tfg'.nodeMap, tfg'.instructionToNodeMap, tfg'.fromEdges,
                       code, traceList[i], traceList[i + 1])
    <3> DEFINE x == traceList[i]
               y == traceList[i + 1]
    <3>1. x \in Addr /\ y # x /\ y \in code[x].succ
      BY LinkedSteps
    <3>2. Stepped(tfg.nodeMap, tfg.instructionToNodeMap, tfg.fromEdges, code, x, y)
      BY DEF Followed
    <3> HIDE DEF x, y
    <3>3. Stepped(tfg'.nodeMap, tfg'.instructionToNodeMap, tfg'.fromEdges, code, x, y)
      BY <3>1, <3>2, <2>1, <1>1, <1>2, <1>4, <1>6, MergeStepped
    <3> QED
      BY <3>3 DEF x, y
  <2>3. Linked' = Linked
    BY <1>1 DEF Linked
  <2> QED
    BY <2>2, <2>3, <1>1 DEF Followed
<1> QED
  BY <1>5, <1>6

LEMMA TaskFollowed ==
  ASSUME Inv, FallsThrough, Followed, TaskStep \/ UNCHANGED vars
  PROVE  Followed'
<1>1. ASSUME Emulate PROVE Followed'
  <2>1. flowIdx' = 1
    BY <1>1 DEF Emulate, Inv
  <2> QED
    BY <2>1 DEF Followed, Linked
<1>2. ASSUME \/ EmulationEnds \/ AddTraceFlowReturns \/ RejectNode
             \/ MergePassEnds \/ UNCHANGED vars
      PROVE  Followed'
  BY <1>2, SameFollowed
     DEF EmulationEnds, AddTraceFlowReturns, RejectNode, MergePassEnds, vars
<1> QED
  BY <1>1, <1>2, LinkFollowed, MergeFollowed DEF TaskStep, MergeAllNodes

LEMMA FollowedTrace ==
  ASSUME Inv, Followed
  PROVE  TraceFollowsBlocks
<1> SUFFICES ASSUME NEW i \in Linked
             PROVE  LET f == traceList[i]
                        t == traceList[i + 1]
                    IN  \/ Follows(f, t)
                        \/ /\ IsTail(tfg, f)
                           /\ isEndIns(code[f].kind) =>
                                IsHead(tfg, t) /\ t \in tfg.fromEdges[f]
  BY DEF TraceFollowsBlocks
<1> DEFINE f == traceList[i]
           t == traceList[i + 1]
<1>1. Stepped(tfg.nodeMap, tfg.instructionToNodeMap, tfg.fromEdges, code, f, t)
  BY DEF Followed
<1>2. f \in Addr
  BY LinkedSteps
<1> HIDE DEF f, t
<1>3. t \in tfg.fromEdges[f] => IsHead(tfg, t)
  BY <1>2 DEF Inv, Sound, Blocks, Joined, AtHead, IsHead
<1>4. Follows(f, t) \/ (IsTail(tfg, f) /\ (isEndIns(code[f].kind) => t \in tfg.fromEdges[f]))
  BY <1>1 DEF Stepped, Beside, AtEnd, Follows, IsTail
<1> QED
  BY <1>3, <1>4 DEF f, t

\* Whatever a trace's splits and merges did, each of its steps is next to next
\* inside a block, or leaves the block at its end, by its edge to the head of
\* another where it is a jump.
THEOREM TraceFollowsBlocksCorrect ==
  ASSUME OneTask, FallsThrough
  PROVE  Spec => []TraceFollowsBlocks
<1>1. Init => Followed
  BY DEF Init, Followed, Linked
<1>2. Inv /\ Followed /\ [Next]_vars => Followed'
  <2>1. ASSUME NEW entry \in Entries, StartWalk(entry) PROVE Followed'
    BY <2>1 DEF StartWalk, Followed, Linked
  <2> QED
    BY <2>1, TaskFollowed DEF Next, TaskStep
<1>3. Inv /\ Followed => TraceFollowsBlocks
  BY FollowedTrace
<1> QED
  BY Invariance, <1>1, <1>2, <1>3, PTL DEF Spec

----------------------------------------------------------------------------
(* What follows what.                                                      *)

\* y comes right behind x in some block.
Adjacent(nm, x, y) ==
  \E n \in DOMAIN nm : \E i \in 1..(Len(nm[n]) - 1) : nm[n][i] = x /\ nm[n][i + 1] = y

LEMMA FlowPairs ==
  ASSUME NEW g
  PROVE  /\ \A e \in Flow(g) : \E x, y : e = <<x, y>>
         /\ \A x, y : <<x, y>> \in Flow(g) <=>
              \/ x \in Addr /\ y \in Addr /\ y \in g.fromEdges[x]
              \/ Adjacent(g.nodeMap, x, y)
<1> DEFINE edges == {e \in Addr \X Addr : e[2] \in g.fromEdges[e[1]]}
           beside == UNION {{<<g.nodeMap[n][i], g.nodeMap[n][i + 1]>> :
                               i \in 1..(Len(g.nodeMap[n]) - 1)} : n \in DOMAIN g.nodeMap}
<1>1. Flow(g) = edges \cup beside
  BY DEF Flow
<1>2. \A e \in edges : \E x, y : e = <<x, y>>
  OBVIOUS
<1>3. ASSUME NEW e \in beside
      PROVE  \E x, y : e = <<x, y>>
  <2>1. PICK n \in DOMAIN g.nodeMap :
          e \in {<<g.nodeMap[n][i], g.nodeMap[n][i + 1]>> :
                   i \in 1..(Len(g.nodeMap[n]) - 1)}
    OBVIOUS
  <2>2. PICK i \in 1..(Len(g.nodeMap[n]) - 1) :
          e = <<g.nodeMap[n][i], g.nodeMap[n][i + 1]>>
    BY <2>1
  <2> HIDE DEF beside
  <2> QED
    BY <2>2
<1>4. \A x, y : <<x, y>> \in edges <=> x \in Addr /\ y \in Addr /\ y \in g.fromEdges[x]
  OBVIOUS
<1>5. ASSUME NEW x, NEW y
      PROVE  <<x, y>> \in beside <=> Adjacent(g.nodeMap, x, y)
  <2>1. ASSUME <<x, y>> \in beside PROVE Adjacent(g.nodeMap, x, y)
    <3>1. PICK n \in DOMAIN g.nodeMap :
            <<x, y>> \in {<<g.nodeMap[n][i], g.nodeMap[n][i + 1]>> :
                            i \in 1..(Len(g.nodeMap[n]) - 1)}
      BY <2>1
    <3>2. PICK i \in 1..(Len(g.nodeMap[n]) - 1) :
            <<x, y>> = <<g.nodeMap[n][i], g.nodeMap[n][i + 1]>>
      BY <3>1
    <3> HIDE DEF beside
    <3> QED
      BY <3>2 DEF Adjacent
  <2>2. ASSUME Adjacent(g.nodeMap, x, y) PROVE <<x, y>> \in beside
    BY <2>2 DEF Adjacent
  <2> QED
    BY <2>1, <2>2
<1> HIDE DEF edges, beside
<1> QED
  BY <1>1, <1>2, <1>3, <1>4, <1>5

\* A merge turns one edge into one adjacency.
LEMMA MergeFlow ==
  ASSUME NEW g, NEW c, Sound(g, c), NEW n \in DOMAIN g.nodeMap, checkCanMerge(g, n),
         Father(g, n) # n, NEW r, r = executeMerge(g, Father(g, n), n)
  PROVE  Flow(r) = Flow(g)
<1> DEFINE f     == FromAddr(g, n)
           m     == Father(g, n)
           nm    == g.nodeMap
           im    == g.instructionToNodeMap
           edges == g.fromEdges
           nodes == r.nodeMap
           ins   == r.instructionToNodeMap
           less  == r.fromEdges
<1>0. n \in DOMAIN nm /\ m # n
  OBVIOUS
<1>1. Filed(nm, im) /\ edges = [a \in Addr |-> edges[a]]
  BY DEF Sound, Blocks, Good, Mirrored
<1>2. f \in Addr /\ edges[f] = {n}
  BY OnlyEdge
<1>3. /\ m \in DOMAIN nm /\ nm[m][Len(nm[m])] = f
      /\ Len(nm[m]) \in Nat /\ Len(nm[n]) \in Nat
      /\ Merged(nm, im, nodes, ins, m, n, Len(nm[m]), Len(nm[n]))
      /\ less = Removed(edges, f, n)
  BY <1>0, MergeShape
<1>f. /\ \A e \in Flow(g) : \E x, y : e = <<x, y>>
      /\ \A x, y : <<x, y>> \in Flow(g) <=>
           (x \in Addr /\ y \in Addr /\ y \in edges[x]) \/ Adjacent(nm, x, y)
  BY FlowPairs
<1>r. /\ \A e \in Flow(r) : \E x, y : e = <<x, y>>
      /\ \A x, y : <<x, y>> \in Flow(r) <=>
           (x \in Addr /\ y \in Addr /\ y \in less[x]) \/ Adjacent(nodes, x, y)
  BY FlowPairs
<1> HIDE DEF nodes, ins, less, nm, im, m, f, edges
<1>k. PICK k \in Nat : k = Len(nm[m])
  BY <1>3
<1>j. PICK j \in Nat : j = Len(nm[n])
  BY <1>3
<1>4. k >= 1 /\ j >= 1 /\ nm[n][1] = n /\ n \in Addr
  BY <1>0, <1>1, <1>3, <1>k, <1>j DEF Filed
<1>5. Merged(nm, im, nodes, ins, m, n, k, j)
  BY <1>3, <1>k, <1>j
<1>6. /\ DOMAIN nodes = DOMAIN nm \ {n} /\ m \in DOMAIN nodes
      /\ Len(nodes[m]) = k + j
      /\ \A i \in 1..k : nodes[m][i] = nm[m][i]
      /\ \A i \in 1..j : nodes[m][k + i] = nm[n][i]
      /\ \A b \in DOMAIN nm \ {m, n} : nodes[b] = nm[b]
  BY <1>0, <1>3, <1>5 DEF Merged
<1>7. \A x, y : y \in less[x] /\ x \in Addr <=>
        y \in edges[x] /\ x \in Addr /\ ~ (x = f /\ y = n)
  BY <1>1, <1>3 DEF Removed
<1>8. Adjacent(nodes, f, n)
  <2>1. k \in 1..k /\ 1 \in 1..j /\ k \in 1..((k + j) - 1)
    BY <1>4
  <2>2. nodes[m][k] = f /\ nodes[m][k + 1] = n
    BY <2>1, <1>3, <1>4, <1>6, <1>k
  <2> QED
    BY <2>1, <2>2, <1>6 DEF Adjacent
<1>9. ASSUME NEW x, NEW y, Adjacent(nm, x, y)
      PROVE  Adjacent(nodes, x, y)
  <2>b. PICK b \in DOMAIN nm :
          \E i \in 1..(Len(nm[b]) - 1) : nm[b][i] = x /\ nm[b][i + 1] = y
    BY <1>9 DEF Adjacent
  <2>1. PICK i \in 1..(Len(nm[b]) - 1) : nm[b][i] = x /\ nm[b][i + 1] = y
    BY <2>b
  <2>2. CASE b = n
    <3>1. i \in 1..(j - 1)
      BY <2>1, <2>2, <1>j
    <3>2. /\ i \in 1..j /\ i + 1 \in 1..j /\ k + i \in 1..((k + j) - 1)
          /\ (k + i) + 1 = k + (i + 1)
      BY <3>1
    <3>3. nodes[m][k + i] = x /\ nodes[m][(k + i) + 1] = y
      BY <3>2, <2>1, <2>2, <1>6
    <3> QED
      BY <3>2, <3>3, <1>6 DEF Adjacent
  <2>3. CASE b = m
    <3>1. i \in 1..(k - 1)
      BY <2>1, <2>3, <1>k
    <3>2. i \in 1..k /\ i + 1 \in 1..k /\ i \in 1..((k + j) - 1)
      BY <3>1, <1>4
    <3>3. nodes[m][i] = x /\ nodes[m][i + 1] = y
      BY <3>2, <2>1, <2>3, <1>6
    <3> QED
      BY <3>2, <3>3, <1>6 DEF Adjacent
  <2>4. CASE b # n /\ b # m
    BY <2>1, <2>4, <1>6 DEF Adjacent
  <2> QED
    BY <2>2, <2>3, <2>4
<1>10. ASSUME NEW x, NEW y, Adjacent(nodes, x, y)
       PROVE  Adjacent(nm, x, y) \/ (x = f /\ y = n)
  <2>b. PICK b \in DOMAIN nodes :
          \E i \in 1..(Len(nodes[b]) - 1) : nodes[b][i] = x /\ nodes[b][i + 1] = y
    BY <1>10 DEF Adjacent
  <2>1. PICK i \in 1..(Len(nodes[b]) - 1) : nodes[b][i] = x /\ nodes[b][i + 1] = y
    BY <2>b
  <2>2. CASE b # m
    BY <2>1, <2>2, <1>6 DEF Adjacent
  <2>3. CASE b = m
    <3>1. i \in 1..((k + j) - 1)
      BY <2>1, <2>3, <1>6
    <3>2. CASE i < k
      <4>1. i \in 1..(k - 1) /\ i \in 1..k /\ i + 1 \in 1..k
        BY <3>1, <3>2
      <4>2. nm[m][i] = x /\ nm[m][i + 1] = y
        BY <4>1, <2>1, <2>3, <1>6
      <4> QED
        BY <4>1, <4>2, <1>3, <1>k DEF Adjacent
    <3>3. CASE i = k
      <4>1. i \in 1..k /\ 1 \in 1..j
        BY <3>1, <3>3, <1>4
      <4>2. nodes[m][k] = nm[m][k] /\ nodes[m][k + 1] = nm[n][1]
        BY <4>1, <3>3, <1>6
      <4> QED
        BY <4>2, <3>3, <2>1, <2>3, <1>3, <1>4, <1>k
    <3>4. CASE i > k
      <4>1. PICK q \in 1..(j - 1) : k + q = i
        <5>1. i - k \in 1..(j - 1) /\ k + (i - k) = i
          BY <3>1, <3>4
        <5> QED
          BY <5>1
      <4>2. q \in 1..j /\ q + 1 \in 1..j /\ k + (q + 1) = i + 1
        BY <4>1
      <4>3. nm[n][q] = x /\ nm[n][q + 1] = y
        BY <4>1, <4>2, <2>1, <2>3, <1>6
      <4> QED
        BY <4>1, <4>3, <1>0, <1>j DEF Adjacent
    <3> QED
      BY <3>1, <3>2, <3>3, <3>4
  <2> QED
    BY <2>2, <2>3
<1>11. ASSUME NEW x, NEW y
       PROVE  <<x, y>> \in Flow(r) <=> <<x, y>> \in Flow(g)
  <2>1. <<x, y>> \in Flow(g) => <<x, y>> \in Flow(r)
    BY <1>f, <1>r, <1>7, <1>8, <1>9
  <2>2. <<x, y>> \in Flow(r) => <<x, y>> \in Flow(g)
    BY <1>f, <1>r, <1>2, <1>4, <1>7, <1>10
  <2> QED
    BY <2>1, <2>2
<1>12. ASSUME NEW e \in Flow(g) PROVE e \in Flow(r)
  BY <1>f, <1>11
<1>13. ASSUME NEW e \in Flow(r) PROVE e \in Flow(g)
  BY <1>r, <1>11
<1> QED
  BY <1>12, <1>13

\* Merging the blocks of one trace changes which block an instruction is in,
\* never what follows it.
THEOREM MergePreservesFlowCorrect ==
  ASSUME OneTask, FallsThrough
  PROVE  Spec => MergePreservesFlow
<1>1. Inv /\ [Next]_vars => [phase = "merge" => Flow(tfg') = Flow(tfg)]_vars
  <2> SUFFICES ASSUME Inv, [Next]_vars, phase = "merge"
               PROVE  Flow(tfg') = Flow(tfg)
    OBVIOUS
  <2>1. ASSUME MergeNode PROVE Flow(tfg') = Flow(tfg)
    <3> DEFINE n == Least(Unvisited)
    <3>1. /\ Unvisited # {} /\ checkCanMerge(tfg, n)
          /\ IF Father(tfg, n) = n
               THEN tfg' = tfg ELSE tfg' = executeMerge(tfg, Father(tfg, n), n)
      BY <2>1 DEF MergeNode, CanMerge
    <3>2. Sound(tfg, code) /\ DOMAIN tfg.nodeMap \subseteq Addr /\ Addr \subseteq Nat
      BY AddrAssumption DEF Inv, Sound, Blocks, Filed
    <3>3. Unvisited \in SUBSET Nat /\ Unvisited \subseteq DOMAIN tfg.nodeMap
      BY <3>2 DEF Unvisited
    <3>4. n \in DOMAIN tfg.nodeMap
      BY <3>1, <3>3, LeastIn
    <3> HIDE DEF n
    <3> QED
      BY <3>1, <3>2, <3>4, MergeFlow
  <2>2. ASSUME UNCHANGED tfg PROVE Flow(tfg') = Flow(tfg)
    BY <2>2
  <2> QED
    BY <2>1, <2>2 DEF Next, StartWalk, Emulate, EmulationEnds, AddTraceFlow,
       AddTraceFlowReturns, MergeAllNodes, RejectNode, MergePassEnds, vars
<1>2. Spec => []Inv
  BY Invariance
<1> QED
  BY <1>1, <1>2, PTL DEF Spec, MergePreservesFlow

----------------------------------------------------------------------------
(* What may stand inside a block.                                          *)

\* DispatchEndsBlock of one block.
Dispatched(list, c) ==
  \A i \in 1..(Len(list) - 1) :
    /\ c[list[i]].kind # "ret"
    /\ c[list[i]].kind = "jmpreg" =>
         /\ Version = "VMP_380"
         /\ \/ i <= 2
            \/ c[list[i - 1]].kind = "addreg"
            \/ isEndIns(c[list[i - 1]].kind) \/ isEndIns(c[list[i - 2]].kind)

\* A straight block has neither a ret nor a register jump inside.
LEMMA StraightDispatched ==
  ASSUME NEW nm, NEW c, StraightBlocks(nm, c), NEW n \in DOMAIN nm
  PROVE  Dispatched(nm[n], c)
BY DEF StraightBlocks, Dispatched, isEndIns

\* list is s, of k addresses, with u, of j, behind it.
Behind(list, s, u, k, j) ==
  /\ k = Len(s) /\ k >= 1 /\ j = Len(u) /\ Len(list) = k + j
  /\ \A i \in 1..k : list[i] = s[i]
  /\ \A i \in 1..j : list[k + i] = u[i]

\* What checkCanMerge_Vmp asks of a father of k addresses that ends in a jump.
Passes(s, k, c) ==
  /\ isEndIns(c[s[k]].kind) /\ c[s[k]].kind # "ret"
  /\ c[s[k]].kind = "jmpreg" =>
       Version = "VMP_380" /\ (k > 2 => c[s[k - 1]].kind = "addreg")

\* A block behind one that may be merged with it.
LEMMA ConcatDispatched ==
  ASSUME NEW c, NEW s, NEW u, NEW list, NEW k \in Nat, NEW j \in Nat,
         Behind(list, s, u, k, j), Passes(s, k, c),
         Dispatched(s, c), Dispatched(u, c)
  PROVE  Dispatched(list, c)
<1>a. /\ k = Len(s) /\ k >= 1 /\ j = Len(u) /\ Len(list) = k + j
      /\ \A i \in 1..k : list[i] = s[i]
      /\ \A i \in 1..j : list[k + i] = u[i]
  BY DEF Behind
<1>b. /\ isEndIns(c[s[k]].kind) /\ c[s[k]].kind # "ret"
      /\ c[s[k]].kind = "jmpreg" =>
           Version = "VMP_380" /\ (k > 2 => c[s[k - 1]].kind = "addreg")
  BY DEF Passes
<1> SUFFICES ASSUME NEW i \in 1..((k + j) - 1)
             PROVE  /\ c[list[i]].kind # "ret"
                    /\ c[list[i]].kind = "jmpreg" =>
                         /\ Version = "VMP_380"
                         /\ \/ i <= 2
                            \/ c[list[i - 1]].kind = "addreg"
                            \/ isEndIns(c[list[i - 1]].kind)
                            \/ isEndIns(c[list[i - 2]].kind)
  BY <1>a DEF Dispatched
<1>1. CASE i < k
  <2>1. i \in 1..(k - 1) /\ list[i] = s[i]
    BY <1>1, <1>a
  <2>2. i <= 2 \/ (list[i - 1] = s[i - 1] /\ list[i - 2] = s[i - 2])
    <3>1. i <= 2 \/ (i - 1 \in 1..k /\ i - 2 \in 1..k)
      BY <2>1
    <3> QED
      BY <3>1, <2>1, <1>1, <1>a
  <2> QED
    BY <2>1, <2>2, <1>a DEF Dispatched
<1>2. CASE i = k
  <2>1. k \in 1..k /\ list[i] = s[k]
    BY <1>2, <1>a
  <2>2. k > 2 => list[i - 1] = s[k - 1]
    <3>1. k > 2 => k - 1 \in 1..k
      OBVIOUS
    <3> QED
      BY <1>2, <3>1, <1>a
  <2> QED
    BY <1>2, <2>1, <2>2, <1>b
<1>3. CASE i > k
  <2>1. PICK q \in 1..(j - 1) : i = k + q
    <3>1. i - k \in 1..(j - 1) /\ i = k + (i - k)
      BY <1>3
    <3> QED
      BY <3>1
  <2>2. q \in 1..j /\ k \in 1..k /\ list[i] = u[q] /\ list[k] = s[k]
    BY <2>1, <1>a
  <2>3. /\ c[list[i]].kind # "ret"
        /\ c[list[i]].kind = "jmpreg" =>
             /\ Version = "VMP_380"
             /\ \/ q <= 2
                \/ c[u[q - 1]].kind = "addreg"
                \/ isEndIns(c[u[q - 1]].kind) \/ isEndIns(c[u[q - 2]].kind)
    BY <2>1, <2>2, <1>a DEF Dispatched
  <2>4. CASE q = 1
    <3>1. i - 1 = k
      BY <2>1, <2>4
    <3> QED
      BY <3>1, <2>2, <2>3, <1>b
  <2>5. CASE q = 2
    <3>1. i - 2 = k
      BY <2>1, <2>5
    <3> QED
      BY <3>1, <2>2, <2>3, <1>b
  <2>6. CASE q > 2
    <3>1. /\ q - 1 \in 1..j /\ q - 2 \in 1..j
          /\ i - 1 = k + (q - 1) /\ i - 2 = k + (q - 2)
      BY <2>1, <2>6
    <3>2. list[i - 1] = u[q - 1] /\ list[i - 2] = u[q - 2]
      BY <3>1, <1>a
    <3>3. ~ q <= 2
      BY <2>1, <2>6
    <3> QED
      BY <2>3, <3>2, <3>3
  <2> QED
    BY <2>1, <2>4, <2>5, <2>6
<1> QED
  BY <1>1, <1>2, <1>3

LEMMA MergeDispatched ==
  ASSUME Sound(tfg, code), NEW n \in DOMAIN tfg.nodeMap, CanMerge(n),
         Father(tfg, n) # n, NEW r, r = executeMerge(tfg, Father(tfg, n), n),
         Entered(tfg.toEdges, code),
         \A b \in DOMAIN tfg.nodeMap : Dispatched(tfg.nodeMap[b], code)
  PROVE  /\ Entered(r.toEdges, code)
         /\ \A b \in DOMAIN r.nodeMap : Dispatched(r.nodeMap[b], code)
<1> DEFINE f     == FromAddr(tfg, n)
           m     == Father(tfg, n)
           nm    == tfg.nodeMap
           im    == tfg.instructionToNodeMap
           back  == tfg.toEdges
           nodes == r.nodeMap
           ins   == r.instructionToNodeMap
<1>0. n \in DOMAIN nm /\ m # n
  OBVIOUS
<1>1. Filed(nm, im) /\ back \in [Addr -> SUBSET Addr]
  BY DEF Sound, Blocks
<1>c. checkCanMerge(tfg, n)
  BY DEF CanMerge
<1>2. f \in Addr /\ back[n] = {f}
  BY <1>c, OnlyEdge
<1>3. /\ m \in DOMAIN nm /\ nm[m][Len(nm[m])] = f
      /\ Len(nm[m]) \in Nat /\ Len(nm[n]) \in Nat
      /\ Merged(nm, im, nodes, ins, m, n, Len(nm[m]), Len(nm[n]))
      /\ r.toEdges = Removed(back, n, f)
  BY <1>0, <1>c, MergeShape
<1>4. /\ code[nm[m][Len(nm[m])]].kind # "ret"
      /\ code[nm[m][Len(nm[m])]].kind = "jmpreg" =>
           /\ Version = "VMP_380"
           /\ Len(nm[m]) > 2 => code[nm[m][Len(nm[m]) - 1]].kind = "addreg"
  BY DEF CanMerge, checkCanMerge_Vmp
<1>5. \A b \in DOMAIN nm : Dispatched(nm[b], code)
  OBVIOUS
<1> HIDE DEF nodes, ins, nm, im, m, f
<1>6. n \in Addr /\ Len(nm[m]) >= 1
  BY <1>0, <1>1, <1>3 DEF Filed
<1>7. isEndIns(code[nm[m][Len(nm[m])]].kind)
  BY <1>2, <1>3, <1>6 DEF Entered
<1>8. Entered(r.toEdges, code)
  <2>1. \A x \in Addr : r.toEdges[x] = IF x = n THEN {} ELSE back[x]
    BY <1>1, <1>2, <1>3 DEF Removed
  <2> QED
    BY <2>1 DEF Entered
<1>k. PICK k \in Nat : k = Len(nm[m])
  BY <1>3
<1>j. PICK j \in Nat : j = Len(nm[n])
  BY <1>3
<1>9. Merged(nm, im, nodes, ins, m, n, k, j) /\ k >= 1
  BY <1>3, <1>6, <1>k, <1>j
<1>10. Dispatched(nodes[m], code)
  <2>1. /\ Len(nodes[m]) = k + j
        /\ \A i \in 1..k : nodes[m][i] = nm[m][i]
        /\ \A i \in 1..j : nodes[m][k + i] = nm[n][i]
    BY <1>9 DEF Merged
  <2>2. Dispatched(nm[m], code) /\ Dispatched(nm[n], code)
    BY <1>0, <1>3, <1>5
  <2>3. /\ isEndIns(code[nm[m][k]].kind) /\ code[nm[m][k]].kind # "ret"
        /\ code[nm[m][k]].kind = "jmpreg" =>
             Version = "VMP_380" /\ (k > 2 => code[nm[m][k - 1]].kind = "addreg")
    BY <1>4, <1>7, <1>k
  <2> DEFINE s    == nm[m]
             u    == nm[n]
             list == nodes[m]
  <2>4. /\ Behind(list, s, u, k, j) /\ Passes(s, k, code)
        /\ Dispatched(s, code) /\ Dispatched(u, code)
    BY <2>1, <2>2, <2>3, <1>9, <1>k, <1>j DEF Behind, Passes
  <2> HIDE DEF s, u, list
  <2>5. Dispatched(list, code)
    BY <2>4, ConcatDispatched
  <2> QED
    BY <2>5 DEF list
<1>11. \A b \in DOMAIN nodes : Dispatched(nodes[b], code)
  <2>1. \A b \in DOMAIN nodes \ {m} : b \in DOMAIN nm /\ nodes[b] = nm[b]
    BY <1>9 DEF Merged
  <2> QED
    BY <2>1, <1>5, <1>10
<1> QED
  BY <1>8, <1>11 DEF nodes

\* No block has a dispatch inside, and heads are entered by jumps.
Apart ==
  /\ Entered(tfg.toEdges, code)
  /\ \A n \in DOMAIN tfg.nodeMap : Dispatched(tfg.nodeMap[n], code)

\* A link leaves straight blocks, even one that throws.
LEMMA LinkStraight ==
  ASSUME Inv, FallsThrough, AddTraceFlow
  PROVE  /\ StraightBlocks(tfg'.nodeMap, code) /\ code' = code
         /\ Entered(tfg.toEdges, code) => Entered(tfg'.toEdges, code)
<1> DEFINE f == traceList[flowIdx]
           t == traceList[flowIdx + 1]
<1>1. /\ phase = "link" /\ flowIdx < Len(traceList) /\ code' = code
      /\ tfg' = IF f = t THEN tfg
                ELSE IF isEndIns(code[f].kind) THEN addJmpLink(tfg, f, t)
                                               ELSE addNormalLink(tfg, f, t)
  BY DEF AddTraceFlow, addLink
<1>2. /\ traceList \in Seq(Addr) /\ flowIdx \in Nat /\ flowIdx >= 1
      /\ Walked(traceList, code)
      /\ Sound(tfg, code) /\ StraightBlocks(tfg.nodeMap, code) /\ Falls(code)
  BY <1>1, ProgramAssumption DEF Inv, FallsThrough
<1>3. f \in Addr /\ t \in Addr /\ t \in code[f].succ
  <2>1. flowIdx \in 1..(Len(traceList) - 1)
    BY <1>1, <1>2
  <2> QED
    BY <2>1, <1>2 DEF Walked
<1> HIDE DEF f, t
<1>4. CASE f = t
  BY <1>1, <1>2, <1>4
<1>5. CASE f # t /\ isEndIns(code[f].kind)
  BY <1>1, <1>2, <1>3, <1>5, JmpSound
<1>6. CASE f # t /\ ~ isEndIns(code[f].kind)
  BY <1>1, <1>2, <1>3, <1>6, NormalSound
<1> QED
  BY <1>1, <1>4, <1>5, <1>6

LEMMA LinkApart ==
  ASSUME Inv, FallsThrough, Apart, AddTraceFlow
  PROVE  Apart'
<1>1. /\ StraightBlocks(tfg'.nodeMap, code) /\ code' = code
      /\ Entered(tfg'.toEdges, code)
  BY LinkStraight DEF Apart
<1>2. \A n \in DOMAIN tfg'.nodeMap : Dispatched(tfg'.nodeMap[n], code)
  BY <1>1, StraightDispatched
<1> QED
  BY <1>1, <1>2 DEF Apart

LEMMA MergeApart ==
  ASSUME Inv, Apart, MergeNode
  PROVE  Apart'
<1> DEFINE n == Least(Unvisited)
<1>1. /\ Unvisited # {} /\ CanMerge(n) /\ code' = code
      /\ IF Father(tfg, n) = n
           THEN tfg' = tfg ELSE tfg' = executeMerge(tfg, Father(tfg, n), n)
  BY DEF MergeNode
<1>2. Sound(tfg, code) /\ DOMAIN tfg.nodeMap \subseteq Addr /\ Addr \subseteq Nat
  BY AddrAssumption DEF Inv, Sound, Blocks, Filed
<1>3. Unvisited \in SUBSET Nat /\ Unvisited \subseteq DOMAIN tfg.nodeMap
  BY <1>2 DEF Unvisited
<1>4. n \in DOMAIN tfg.nodeMap
  BY <1>1, <1>3, LeastIn
<1>5. /\ Entered(tfg.toEdges, code)
      /\ \A b \in DOMAIN tfg.nodeMap : Dispatched(tfg.nodeMap[b], code)
  BY DEF Apart
<1> HIDE DEF n
<1>6. /\ Entered(tfg'.toEdges, code)
      /\ \A b \in DOMAIN tfg'.nodeMap : Dispatched(tfg'.nodeMap[b], code)
  BY <1>1, <1>2, <1>4, <1>5, MergeDispatched
<1> QED
  BY <1>1, <1>6 DEF Apart

\* In a graph of one trace a ret never lies inside a block, and a register jump
\* only where checkCanMerge_Vmp lets the handlers of VMP_380 run on.
THEOREM DispatchEndsBlockCorrect ==
  ASSUME OneTask, FallsThrough
  PROVE  Spec => []DispatchEndsBlock
<1>1. Init => Apart
  <2> SUFFICES ASSUME Init PROVE Apart
    OBVIOUS
  <2>1. tfg = EmptyGraph
    BY DEF Init
  <2>2. \A n \in DOMAIN tfg.nodeMap : Dispatched(tfg.nodeMap[n], code)
    BY <2>1, EmptySound, StraightDispatched
  <2>3. \A n \in Addr : tfg.toEdges[n] = {}
    BY <2>1 DEF EmptyGraph
  <2> QED
    BY <2>2, <2>3 DEF Apart, Entered
<1>2. Inv /\ Apart /\ [Next]_vars => Apart'
  <2> SUFFICES ASSUME Inv, Apart, [Next]_vars PROVE Apart'
    OBVIOUS
  <2>1. ASSUME UNCHANGED <<code, tfg>> PROVE Apart'
    BY <2>1 DEF Apart
  <2>2. ASSUME \/ \E entry \in Entries : StartWalk(entry)
               \/ Emulate \/ EmulationEnds \/ AddTraceFlowReturns
               \/ RejectNode \/ MergePassEnds \/ UNCHANGED vars
        PROVE  UNCHANGED <<code, tfg>>
    BY <2>2 DEF StartWalk, Emulate, EmulationEnds,
       AddTraceFlowReturns, RejectNode, MergePassEnds, vars
  <2> QED
    BY <2>1, <2>2, LinkApart, MergeApart DEF Next, MergeAllNodes
<1>3. Apart => DispatchEndsBlock
  BY DEF Apart, Dispatched, DispatchEndsBlock
<1>4. Spec => []Inv
  BY Invariance
<1> QED
  BY <1>1, <1>2, <1>3, <1>4, PTL DEF Spec

----------------------------------------------------------------------------
(* Blocks are pieces of the program.                                       *)

\* From one instruction of a block to the next the program can go: whatever
\* block a walk or an analysis takes is one the program can run through.
BlocksFollowCode ==
  \A n \in DOMAIN tfg.nodeMap : Walked(tfg.nodeMap[n], code)

\* Two paths of which the one leads to the other are one.
LEMMA ConcatWalked ==
  ASSUME NEW c, NEW s, NEW u, NEW list, NEW k \in Nat \ {0}, NEW j \in Nat \ {0},
         k = Len(s), j = Len(u), Len(list) = k + j,
         \A i \in 1..k : list[i] = s[i], \A i \in 1..j : list[k + i] = u[i],
         Walked(s, c), Walked(u, c), u[1] \in c[s[k]].succ
  PROVE  Walked(list, c)
<1> SUFFICES ASSUME NEW i \in 1..(Len(list) - 1)
             PROVE  list[i + 1] \in c[list[i]].succ
  BY DEF Walked
<1>1. CASE i < k
  <2>1. i \in 1..k /\ i + 1 \in 1..k /\ i \in 1..(Len(s) - 1)
    BY <1>1
  <2>2. s[i + 1] \in c[s[i]].succ
    BY <2>1 DEF Walked
  <2> QED
    BY <2>1, <2>2
<1>2. CASE i = k
  <2>1. list[i] = s[k] /\ 1 \in 1..j /\ list[k + 1] = u[1]
    BY <1>2
  <2> QED
    BY <2>1, <1>2
<1>3. CASE i > k
  <2>1. i - k \in 1..j /\ i - k + 1 \in 1..j /\ i - k \in 1..(Len(u) - 1)
    BY <1>3
  <2>2. u[i - k + 1] \in c[u[i - k]].succ
    BY <2>1 DEF Walked
  <2>3. k + (i - k) = i /\ k + (i - k + 1) = i + 1
    BY <1>3
  <2>4. list[k + (i - k)] = u[i - k] /\ list[k + (i - k + 1)] = u[i - k + 1]
    BY <2>1
  <2> QED
    BY <2>2, <2>3, <2>4
<1> QED
  BY <1>1, <1>2, <1>3

\* A merge goes along the one edge from the father's end to the child's head.
LEMMA MergeWalked ==
  ASSUME Inv, BlocksFollowCode, MergeNode
  PROVE  BlocksFollowCode'
<1> DEFINE n     == Least(Unvisited)
           m     == Father(tfg, n)
           f     == FromAddr(tfg, n)
           nm    == tfg.nodeMap
           nodes == tfg'.nodeMap
<1>1. /\ Unvisited # {} /\ checkCanMerge(tfg, n) /\ code' = code
      /\ IF m = n THEN tfg' = tfg ELSE tfg' = executeMerge(tfg, m, n)
  BY DEF MergeNode, CanMerge
<1>2. Sound(tfg, code) /\ DOMAIN nm \subseteq Addr /\ Addr \subseteq Nat
  BY AddrAssumption DEF Inv, Sound, Blocks, Filed
<1>3. Unvisited \in SUBSET Nat /\ Unvisited \subseteq DOMAIN nm
  BY <1>2 DEF Unvisited
<1>4. n \in DOMAIN nm
  BY <1>1, <1>3, LeastIn
<1>5. CASE m = n
  BY <1>1, <1>5 DEF BlocksFollowCode
<1>6. CASE m # n
  <2> HIDE DEF n
  <2>1. /\ m \in DOMAIN nm /\ nm[m][Len(nm[m])] = f
        /\ Merged(nm, tfg.instructionToNodeMap, nodes, tfg'.instructionToNodeMap,
                  m, n, Len(nm[m]), Len(nm[n]))
    BY <1>1, <1>2, <1>4, <1>6, MergeShape
  <2>2. f \in Addr /\ tfg.fromEdges[f] = {n}
    BY <1>1, <1>2, <1>4, OnlyEdge
  <2>3. n \in code[f].succ
    BY <2>2, <1>2 DEF Sound, Led
  <2>4. \A b \in DOMAIN nm : Walked(nm[b], code)
    BY DEF BlocksFollowCode
  <2>5. \A b \in DOMAIN nm : nm[b] \in Seq(Addr) /\ Len(nm[b]) >= 1 /\ nm[b][1] = b
    BY <1>2 DEF Sound, Blocks, Filed
  <2> HIDE DEF m, f, nm, nodes
  <2>6. PICK k \in Nat \ {0} : k = Len(nm[m])
    BY <2>1, <2>5
  <2>7. PICK j \in Nat \ {0} : j = Len(nm[n])
    BY <1>4, <2>5
  <2>8. /\ Len(nodes[m]) = k + j /\ DOMAIN nodes = DOMAIN nm \ {n}
        /\ \A i \in 1..k : nodes[m][i] = nm[m][i]
        /\ \A i \in 1..j : nodes[m][k + i] = nm[n][i]
        /\ \A x \in DOMAIN nm \ {m, n} : nodes[x] = nm[x]
    BY <2>1, <2>6, <2>7 DEF Merged
  <2>9. Walked(nodes[m], code)
    <3> DEFINE s    == nm[m]
               u    == nm[n]
               list == nodes[m]
    <3>1. /\ k = Len(s) /\ j = Len(u) /\ Len(list) = k + j
          /\ \A i \in 1..k : list[i] = s[i]
          /\ \A i \in 1..j : list[k + i] = u[i]
          /\ Walked(s, code) /\ Walked(u, code) /\ u[1] \in code[s[k]].succ
      BY <2>1, <2>3, <2>4, <2>5, <2>6, <2>7, <2>8, <1>4
    <3> HIDE DEF s, u, list
    <3>2. Walked(list, code)
      BY <3>1, ConcatWalked
    <3> QED
      BY <3>2 DEF list
  <2>10. \A b \in DOMAIN nodes : Walked(nodes[b], code)
    BY <2>4, <2>8, <2>9
  <2> QED
    BY <2>10, <1>1 DEF BlocksFollowCode, nodes
<1> QED
  BY <1>5, <1>6

\* In a graph of one trace every block is a path of the program: splits cut
\* one, and a merge joins two along the edge that was there between them.
THEOREM BlocksFollowCodeCorrect ==
  ASSUME OneTask, FallsThrough
  PROVE  Spec => []BlocksFollowCode
<1>0. ASSUME NEW g, NEW c, StraightBlocks(g, c)
      PROVE  \A n \in DOMAIN g : Walked(g[n], c)
  BY <1>0 DEF StraightBlocks, Walked
<1>1. Init => BlocksFollowCode
  <2> SUFFICES ASSUME Init PROVE BlocksFollowCode
    OBVIOUS
  <2>1. tfg = EmptyGraph
    BY DEF Init
  <2>2. StraightBlocks(tfg.nodeMap, code)
    BY <2>1, EmptySound
  <2> QED
    BY <2>2, <1>0 DEF BlocksFollowCode
<1>2. Inv /\ BlocksFollowCode /\ [Next]_vars => BlocksFollowCode'
  <2> SUFFICES ASSUME Inv, BlocksFollowCode, [Next]_vars PROVE BlocksFollowCode'
    OBVIOUS
  <2>1. ASSUME UNCHANGED <<code, tfg>> PROVE BlocksFollowCode'
    BY <2>1 DEF BlocksFollowCode
  <2>2. ASSUME \/ \E entry \in Entries : StartWalk(entry)
               \/ Emulate \/ EmulationEnds \/ AddTraceFlowReturns
               \/ RejectNode \/ MergePassEnds \/ UNCHANGED vars
        PROVE  UNCHANGED <<code, tfg>>
    BY <2>2 DEF StartWalk, Emulate, EmulationEnds,
       AddTraceFlowReturns, RejectNode, MergePassEnds, vars
  <2>3. ASSUME AddTraceFlow PROVE BlocksFollowCode'
    <3>1. StraightBlocks(tfg'.nodeMap, code) /\ code' = code
      BY <2>3, LinkStraight
    <3> QED
      BY <3>1, <1>0 DEF BlocksFollowCode
  <2> QED
    BY <2>1, <2>2, <2>3, MergeWalked DEF Next, MergeAllNodes
<1>3. Spec => []Inv
  BY Invariance
<1> QED
  BY <1>1, <1>2, <1>3, PTL DEF Spec

=============================================================================
