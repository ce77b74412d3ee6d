------------------------ MODULE VmpTraceFlowLinkProofs ------------------------
(***************************************************************************)
(* What addJmpLink and addNormalLink make of a graph of one trace: they    *)
(* keep blocks and index in agreement and edges between ends and heads     *)
(* (JmpSound, NormalSound), through the splits they do.                    *)
(***************************************************************************)
EXTENDS VmpTraceFlowGraphProofs

----------------------------------------------------------------------------
(* Blocks and index, as two functions nm and im.                           *)

Indexed(nm, im) ==
  \A a \in DOMAIN im :
    /\ im[a] \in [vmNode : DOMAIN nm, index : Nat \ {0}]
    /\ im[a].index <= Len(nm[im[a].vmNode])
    /\ nm[im[a].vmNode][im[a].index] = a

Placed(nm, im) ==
  \A n \in DOMAIN nm : \A i \in 1..Len(nm[n]) :
    /\ nm[n][i] \in DOMAIN im
    /\ im[nm[n][i]].vmNode = n
    /\ im[nm[n][i]].index = i

Filed(nm, im) ==
  /\ DOMAIN nm \subseteq Addr
  /\ DOMAIN im \subseteq Addr
  /\ \A n \in DOMAIN nm : nm[n] \in Seq(Addr) /\ Len(nm[n]) >= 1 /\ nm[n][1] = n
  /\ Indexed(nm, im)
  /\ Placed(nm, im)

AtEnd(nm, im, a) == im[a].index = Len(nm[im[a].vmNode])
AtHead(im, a) == im[a].index = 1

\* What createNode does for an address no block has.
LEMMA CreateFiled ==
  ASSUME NEW nm, NEW im, Filed(nm, im), NEW a \in Addr, a \notin DOMAIN im,
         NEW nm2, nm2 = Put(nm, a, <<a>>),
         NEW im2, im2 = Put(im, a, [vmNode |-> a, index |-> 1])
  PROVE  /\ a \notin DOMAIN nm
         /\ Filed(nm2, im2)
<1>1. a \notin DOMAIN nm
  BY DEF Filed, Placed
<1>2. /\ DOMAIN nm2 = DOMAIN nm \cup {a}
      /\ nm2[a] = <<a>>
      /\ \A n \in DOMAIN nm : nm2[n] = nm[n]
  BY <1>1 DEF Put
<1>3. /\ DOMAIN im2 = DOMAIN im \cup {a}
      /\ im2[a] = [vmNode |-> a, index |-> 1]
      /\ \A x \in DOMAIN im : im2[x] = im[x]
  BY DEF Put
<1>4. Indexed(nm2, im2)
  <2> SUFFICES ASSUME NEW x \in DOMAIN im2
               PROVE  /\ im2[x] \in [vmNode : DOMAIN nm2, index : Nat \ {0}]
                      /\ im2[x].index <= Len(nm2[im2[x].vmNode])
                      /\ nm2[im2[x].vmNode][im2[x].index] = x
    BY DEF Indexed
  <2>1. CASE x = a
    BY <2>1, <1>2, <1>3
  <2>2. CASE x # a
    <3>1. x \in DOMAIN im /\ im2[x] = im[x]
      BY <2>2, <1>3
    <3>2. im[x] \in [vmNode : DOMAIN nm, index : Nat \ {0}]
      BY <3>1 DEF Filed, Indexed
    <3>3. im[x].index <= Len(nm[im[x].vmNode]) /\ nm[im[x].vmNode][im[x].index] = x
      BY <3>1 DEF Filed, Indexed
    <3>4. nm2[im[x].vmNode] = nm[im[x].vmNode]
      BY <3>2, <1>2
    <3>5. im[x] \in [vmNode : DOMAIN nm2, index : Nat \ {0}]
      BY <3>2, <1>2
    <3> QED
      BY <3>1, <3>3, <3>4, <3>5
  <2> QED
    BY <2>1, <2>2
<1>5. Placed(nm2, im2)
  BY <1>1, <1>2, <1>3 DEF Placed, Filed
<1>6. \A n \in DOMAIN nm2 : nm2[n] \in Seq(Addr) /\ Len(nm2[n]) >= 1 /\ nm2[n][1] = n
  <2>1. <<a>> \in Seq(Addr) /\ Len(<<a>>) = 1 /\ <<a>>[1] = a
    OBVIOUS
  <2>2. \A n \in DOMAIN nm : nm[n] \in Seq(Addr) /\ Len(nm[n]) >= 1 /\ nm[n][1] = n
    BY DEF Filed
  <2> TAKE n \in DOMAIN nm2
  <2>3. CASE n = a
    <3> DEFINE one == <<a>>
    <3>1. one \in Seq(Addr) /\ Len(one) >= 1 /\ one[1] = a
      BY <2>1
    <3>2. nm2[n] = one
      BY <2>3, <1>2
    <3> HIDE DEF one
    <3> QED
      BY <2>3, <3>1, <3>2
  <2>4. CASE n \in DOMAIN nm
    BY <2>2, <2>4, <1>2
  <2> QED
    BY <2>3, <2>4, <1>2
<1>7. DOMAIN nm2 \subseteq Addr /\ DOMAIN im2 \subseteq Addr
  BY <1>2, <1>3 DEF Filed
<1> QED
  BY <1>1, <1>4, <1>5, <1>6, <1>7 DEF Filed

\* Where an address stands in a block.
LEMMA PlacedAt ==
  ASSUME NEW nm, NEW im, Filed(nm, im), NEW n \in DOMAIN nm, NEW i \in 1..Len(nm[n])
  PROVE  /\ nm[n][i] \in DOMAIN im /\ nm[n][i] \in Addr
         /\ im[nm[n][i]].vmNode = n /\ im[nm[n][i]].index = i
BY DEF Filed, Placed

\* What the index says of an address.
LEMMA IndexedAt ==
  ASSUME NEW nm, NEW im, Filed(nm, im), NEW a \in DOMAIN im
  PROVE  /\ im[a].vmNode \in DOMAIN nm /\ im[a].index \in Nat \ {0}
         /\ im[a].index \in 1..Len(nm[im[a].vmNode])
         /\ nm[im[a].vmNode] \in Seq(Addr)
         /\ nm[im[a].vmNode][im[a].index] = a
         /\ im[a] = [vmNode |-> im[a].vmNode, index |-> im[a].index]
<1>1. im[a] \in [vmNode : DOMAIN nm, index : Nat \ {0}]
  BY DEF Filed, Indexed
<1>2. im[a].vmNode \in DOMAIN nm /\ im[a].index \in Nat \ {0}
  BY <1>1
<1>3. im[a] = [vmNode |-> im[a].vmNode, index |-> im[a].index]
  BY <1>1
<1>4. /\ im[a].index <= Len(nm[im[a].vmNode])
      /\ nm[im[a].vmNode][im[a].index] = a
  BY DEF Filed, Indexed
<1>5. nm[im[a].vmNode] \in Seq(Addr)
  BY <1>2 DEF Filed
<1>6. im[a].index \in 1..Len(nm[im[a].vmNode])
  BY <1>2, <1>4, <1>5
<1> QED
  BY <1>2, <1>3, <1>4, <1>5, <1>6

Distinct(list) == \A i, j \in 1..Len(list) : list[i] = list[j] => i = j

\* r is the index ins with the addresses of list at their places in node.
Pointed(r, ins, list, node, base) ==
  /\ DOMAIN r = DOMAIN ins \cup Elements(list)
  /\ \A i \in 1..Len(list) : r[list[i]] = [vmNode |-> node, index |-> base + i]
  /\ \A a \in DOMAIN ins \ Elements(list) : r[a] = ins[a]

\* Reindex points the addresses of a list without repeats at their places.
LEMMA ReindexFields ==
  ASSUME NEW ins, NEW list \in Seq(Addr), NEW node, NEW base \in Nat,
         Distinct(list)
  PROVE  Pointed(Reindex(ins, list, node, base), ins, list, node, base)
<1> DEFINE r == Reindex(ins, list, node, base)
<1>1. DOMAIN r = DOMAIN ins \cup Elements(list)
  BY DEF Reindex
<1>2. \A a \in DOMAIN ins \ Elements(list) : r[a] = ins[a]
  BY DEF Reindex
<1>3. ASSUME NEW i \in 1..Len(list)
      PROVE  r[list[i]] = [vmNode |-> node, index |-> base + i]
  <2> DEFINE here == PositionsOf(list, list[i])
             last == CHOOSE k \in here : \A j \in here : j <= k
  <2>1. here = {i}
    BY DEF PositionsOf, Distinct
  <2>2. last \in here
    <3>1. \E k \in here : \A j \in here : j <= k
      BY <2>1
    <3> HIDE DEF here
    <3> QED
      BY <3>1
  <2>3. last = i
    BY <2>1, <2>2
  <2>4. list[i] \in Elements(list)
    BY DEF Elements
  <2>5. r[list[i]] = [vmNode |-> node, index |-> base + last]
    BY <1>1, <2>4 DEF Reindex
  <2> HIDE DEF last
  <2> QED
    BY <2>3, <2>5
<1> QED
  BY <1>1, <1>2, <1>3 DEF Pointed

\* nm2 and im2 are nm and im with block n cut in front of its kth address, a.
Cut(nm, im, nm2, im2, n, k, a) ==
  /\ DOMAIN nm2 = DOMAIN nm \cup {a}
  /\ nm2[n] \in Seq(Addr) /\ Len(nm2[n]) = k - 1
  /\ \A i \in 1..(k - 1) : nm2[n][i] = nm[n][i]
  /\ nm2[a] \in Seq(Addr) /\ Len(nm2[a]) = Len(nm[n]) - k + 1
  /\ \A i \in 1..(Len(nm[n]) - k + 1) : nm2[a][i] = nm[n][k + i - 1]
  /\ \A m \in DOMAIN nm \ {n} : nm2[m] = nm[m]
  /\ DOMAIN im2 = DOMAIN im
  /\ \A x \in DOMAIN im :
       im2[x] = IF im[x].vmNode = n /\ im[x].index >= k
                  THEN [vmNode |-> a, index |-> im[x].index - k + 1]
                  ELSE im[x]

\* An address behind the head of a block is no block's head.
LEMMA InnerNotHead ==
  ASSUME NEW nm, NEW im, Filed(nm, im), NEW a \in DOMAIN im, im[a].index # 1
  PROVE  a \notin DOMAIN nm
<1> SUFFICES ASSUME a \in DOMAIN nm PROVE FALSE
  OBVIOUS
<1>1. nm[a] \in Seq(Addr) /\ Len(nm[a]) >= 1 /\ nm[a][1] = a
  BY DEF Filed
<1>2. 1 \in 1..Len(nm[a])
  BY <1>1
<1>3. im[nm[a][1]].index = 1
  BY <1>2, PlacedAt
<1> QED
  BY <1>1, <1>3

\* Where the part behind a cut at k comes from.
LEMMA CutPlaces ==
  ASSUME NEW len \in Nat, NEW k \in Nat, k >= 2, k <= len,
         NEW i \in 1..(len - k + 1)
  PROVE  k + i - 1 \in 1..len /\ k + i - 1 >= k /\ (k + i - 1) - k + 1 = i
OBVIOUS

\* A cut leaves blocks and index in agreement.
LEMMA CutFiled ==
  ASSUME NEW nm, NEW im, Filed(nm, im), NEW a \in DOMAIN im, im[a].index # 1,
         NEW n, n = im[a].vmNode, NEW k, k = im[a].index,
         NEW nm2, NEW im2, Cut(nm, im, nm2, im2, n, k, a)
  PROVE  Filed(nm2, im2)
<1>1. /\ n \in DOMAIN nm /\ k \in 1..Len(nm[n]) /\ k # 1 /\ nm[n] \in Seq(Addr)
      /\ nm[n][k] = a /\ a \in Addr
  BY IndexedAt DEF Filed
<1>2. a \notin DOMAIN nm
  BY InnerNotHead
<1>3. Len(nm[n]) \in Nat /\ k \in Nat /\ k >= 2 /\ k <= Len(nm[n])
  BY <1>1
<1>4. \A m \in DOMAIN nm2 : nm2[m] \in Seq(Addr) /\ Len(nm2[m]) >= 1 /\ nm2[m][1] = m
  <2> TAKE m \in DOMAIN nm2
  <2>1. CASE m = n
    <3>0. 1 \in 1..(k - 1) /\ nm[n][1] = n
      BY <1>1, <1>3 DEF Filed
    <3>1. nm2[n][1] = nm[n][1] /\ nm[n][1] = n
      BY <3>0 DEF Cut
    <3> QED
      BY <2>1, <3>1, <1>3 DEF Cut
  <2>2. CASE m = a
    <3>0. 1 \in 1..(Len(nm[n]) - k + 1) /\ k + 1 - 1 = k
      BY <1>3
    <3>1. nm2[a][1] = nm[n][k + 1 - 1]
      BY <3>0 DEF Cut
    <3>2. nm2[a][1] = a
      BY <3>0, <3>1, <1>1
    <3>3. nm2[a] \in Seq(Addr) /\ Len(nm2[a]) = Len(nm[n]) - k + 1
      BY DEF Cut
    <3> QED
      BY <2>2, <3>2, <3>3, <1>3
  <2>3. CASE m \in DOMAIN nm \ {n}
    <3>1. nm2[m] = nm[m]
      BY <2>3 DEF Cut
    <3>2. nm[m] \in Seq(Addr) /\ Len(nm[m]) >= 1 /\ nm[m][1] = m
      BY <2>3 DEF Filed
    <3> QED
      BY <3>1, <3>2
  <2> QED
    BY <2>1, <2>2, <2>3 DEF Cut
<1>5. Indexed(nm2, im2)
  <2> SUFFICES ASSUME NEW x \in DOMAIN im
               PROVE  /\ im2[x] \in [vmNode : DOMAIN nm2, index : Nat \ {0}]
                      /\ im2[x].index <= Len(nm2[im2[x].vmNode])
                      /\ nm2[im2[x].vmNode][im2[x].index] = x
    BY DEF Indexed, Cut
  <2>1. /\ im[x].vmNode \in DOMAIN nm /\ im[x].index \in Nat \ {0}
        /\ im[x].index \in 1..Len(nm[im[x].vmNode])
        /\ nm[im[x].vmNode][im[x].index] = x
        /\ im[x] = [vmNode |-> im[x].vmNode, index |-> im[x].index]
    BY IndexedAt
  <2>2. CASE im[x].vmNode = n /\ im[x].index >= k
    <3>1. im2[x] = [vmNode |-> a, index |-> im[x].index - k + 1]
      BY <2>2 DEF Cut
    <3>2. im2[x].vmNode = a /\ im2[x].index = im[x].index - k + 1
      BY <3>1
    <3>3. im[x].index - k + 1 \in 1..(Len(nm[n]) - k + 1)
      BY <2>1, <2>2, <1>3
    <3>4. nm2[a][im[x].index - k + 1] = nm[n][k + (im[x].index - k + 1) - 1]
      BY <3>3 DEF Cut
    <3>5. k + (im[x].index - k + 1) - 1 = im[x].index
      BY <2>1, <1>3
    <3>6. im[x].index - k + 1 \in Nat \ {0}
      BY <3>3, <1>3
    <3>7. a \in DOMAIN nm2 /\ Len(nm2[a]) = Len(nm[n]) - k + 1
      BY DEF Cut
    <3>8. im2[x] \in [vmNode : DOMAIN nm2, index : Nat \ {0}]
      BY <3>1, <3>6, <3>7
    <3>9. nm2[im2[x].vmNode][im2[x].index] = x
      BY <3>2, <3>4, <3>5, <2>1, <2>2
    <3> QED
      BY <3>2, <3>3, <3>7, <3>8, <3>9, <1>3
  <2>3. CASE im[x].vmNode = n /\ ~ im[x].index >= k
    <3>1. im2[x] = im[x]
      BY <2>3 DEF Cut
    <3>2. im[x].index \in 1..(k - 1)
      BY <2>1, <2>3, <1>3
    <3>3. nm2[n][im[x].index] = nm[n][im[x].index]
      BY <3>2 DEF Cut
    <3>4. n \in DOMAIN nm2 /\ Len(nm2[n]) = k - 1
      BY <1>1 DEF Cut
    <3>5. im2[x] \in [vmNode : DOMAIN nm2, index : Nat \ {0}]
      BY <3>1, <3>4, <2>1, <2>3
    <3>6. nm2[im2[x].vmNode][im2[x].index] = x
      BY <3>1, <3>3, <2>1, <2>3
    <3>7. im2[x].index <= Len(nm2[im2[x].vmNode])
      BY <3>1, <3>2, <3>4, <2>3, <1>3
    <3> QED
      BY <3>5, <3>6, <3>7
  <2>4. CASE im[x].vmNode # n
    <3>1. im2[x] = im[x]
      BY <2>4 DEF Cut
    <3>2. nm2[im[x].vmNode] = nm[im[x].vmNode] /\ im[x].vmNode \in DOMAIN nm2
      BY <2>1, <2>4 DEF Cut
    <3>3. im2[x] \in [vmNode : DOMAIN nm2, index : Nat \ {0}]
      BY <3>1, <3>2, <2>1
    <3>4. nm2[im2[x].vmNode][im2[x].index] = x
      BY <3>1, <3>2, <2>1
    <3>5. im2[x].index <= Len(nm2[im2[x].vmNode])
      BY <3>1, <3>2, <2>1
    <3> QED
      BY <3>3, <3>4, <3>5
  <2> QED
    BY <2>2, <2>3, <2>4
<1>6. Placed(nm2, im2)
  <2> SUFFICES ASSUME NEW m \in DOMAIN nm2, NEW i \in 1..Len(nm2[m])
               PROVE  /\ nm2[m][i] \in DOMAIN im
                      /\ im2[nm2[m][i]].vmNode = m
                      /\ im2[nm2[m][i]].index = i
    BY DEF Placed, Cut
  <2>1. CASE m = n
    <3>0. i \in 1..(k - 1)
      BY <2>1 DEF Cut
    <3>1. i \in 1..Len(nm[n]) /\ ~ i >= k
      BY <3>0, <1>3
    <3>2. nm2[m][i] = nm[n][i]
      BY <2>1, <3>0 DEF Cut
    <3>3. /\ nm[n][i] \in DOMAIN im
          /\ im[nm[n][i]].vmNode = n /\ im[nm[n][i]].index = i
      BY <1>1, <3>1, PlacedAt
    <3>4. im2[nm[n][i]] = im[nm[n][i]]
      BY <3>1, <3>3 DEF Cut
    <3> QED
      BY <2>1, <3>2, <3>3, <3>4
  <2>2. CASE m = a
    <3> DEFINE j == k + i - 1
    <3>0. i \in 1..(Len(nm[n]) - k + 1)
      BY <2>2 DEF Cut
    <3>1. j \in 1..Len(nm[n]) /\ j >= k /\ j - k + 1 = i
      BY <3>0, <1>3, CutPlaces
    <3>2. nm2[m][i] = nm[n][j]
      BY <2>2, <3>0 DEF Cut
    <3> HIDE DEF j
    <3>3. /\ nm[n][j] \in DOMAIN im
          /\ im[nm[n][j]].vmNode = n /\ im[nm[n][j]].index = j
      BY <1>1, <3>1, PlacedAt
    <3>4. im2[nm[n][j]] = [vmNode |-> a, index |-> j - k + 1]
      BY <3>1, <3>3 DEF Cut
    <3>5. im2[nm[n][j]].vmNode = a /\ im2[nm[n][j]].index = i
      BY <3>1, <3>4
    <3> QED
      BY <2>2, <3>2, <3>3, <3>5
  <2>3. CASE m \in DOMAIN nm \ {n}
    <3>1. nm2[m] = nm[m] /\ i \in 1..Len(nm[m])
      BY <2>3 DEF Cut
    <3>2. /\ nm[m][i] \in DOMAIN im
          /\ im[nm[m][i]].vmNode = m /\ im[nm[m][i]].index = i
      BY <2>3, <3>1, PlacedAt
    <3>3. im2[nm[m][i]] = im[nm[m][i]]
      BY <2>3, <3>2 DEF Cut
    <3> QED
      BY <3>1, <3>2, <3>3
  <2> QED
    BY <2>1, <2>2, <2>3 DEF Cut
<1>7. DOMAIN nm2 \subseteq Addr /\ DOMAIN im2 \subseteq Addr
  BY <1>1 DEF Cut, Filed
<1> QED
  BY <1>4, <1>5, <1>6, <1>7 DEF Filed

\* A block without its first k addresses.
LEMMA TailFields ==
  ASSUME NEW list \in Seq(Addr), NEW k \in 1..Len(list),
         NEW tail, tail = SubSeq(list, k + 1, Len(list))
  PROVE  /\ tail \in Seq(Addr) /\ Len(tail) = Len(list) - k
         /\ \A i \in 1..(Len(list) - k) : tail[i] = list[k + i]
<1>1. Len(list) \in Nat /\ k \in Nat /\ 1 <= k /\ k <= Len(list)
  OBVIOUS
<1>2. tail \in Seq(Addr)
  BY <1>1
<1>3. Len(tail) = Len(list) - k
  BY <1>1
<1>4. \A i \in 1..(Len(list) - k) : tail[i] = list[k + i]
  BY <1>1
<1> QED
  BY <1>2, <1>3, <1>4

\* A block up to the address before its kth.
LEMMA FrontFields ==
  ASSUME NEW list \in Seq(Addr), NEW k \in 2..Len(list),
         NEW front, front = SubSeq(list, 1, k - 1)
  PROVE  /\ front \in Seq(Addr) /\ Len(front) = k - 1
         /\ \A i \in 1..(k - 1) : front[i] = list[i]
OBVIOUS

\* A one-address block with a tail behind it.
LEMMA ConsFields ==
  ASSUME NEW a \in Addr, NEW tail \in Seq(Addr), NEW s, s = <<a>> \o tail
  PROVE  /\ s \in Seq(Addr) /\ Len(s) = 1 + Len(tail)
         /\ s[1] = a
         /\ \A i \in 2..(1 + Len(tail)) : s[i] = tail[i - 1]
<1>1. s \in Seq(Addr) /\ Len(s) = 1 + Len(tail)
  OBVIOUS
<1>2. s[1] = a
  OBVIOUS
<1>3. \A i \in 2..(1 + Len(tail)) : s[i] = tail[i - 1]
  OBVIOUS
<1> QED
  BY <1>1, <1>2, <1>3

\* The blocks and the index splitBlock files, computed as it does.
Parts(nm, im, n, k, a, tail, nodes, ins) ==
  /\ tail = SubSeq(nm[n], k + 1, Len(nm[n]))
  /\ nodes = [Put(nm, a, <<a>>) EXCEPT ![a] = @ \o tail,
                                       ![n] = SubSeq(nm[n], 1, k - 1)]
  /\ ins = Reindex(Put(im, a, [vmNode |-> a, index |-> 1]), tail, a, 1)

\* What splitBlock makes of blocks and index is a cut.
LEMMA CutFields ==
  ASSUME NEW nm, NEW im, Filed(nm, im), NEW n \in DOMAIN nm,
         NEW k \in Nat, 2 <= k, k <= Len(nm[n]),
         NEW a \in Addr, nm[n][k] = a, a \notin DOMAIN nm, a \in DOMAIN im,
         im[a].vmNode = n, im[a].index = k,
         NEW tail, NEW nodes, NEW ins, Parts(nm, im, n, k, a, tail, nodes, ins)
  PROVE  Cut(nm, im, nodes, ins, n, k, a)
<1>len. PICK len \in Nat : len = Len(nm[n])
  BY DEF Filed
<1>k. k \in Nat /\ 2 <= k /\ k <= len
  BY <1>len
<1>1. nm[n] \in Seq(Addr) /\ k \in 2..Len(nm[n]) /\ k \in 1..Len(nm[n])
  BY <1>len, <1>k DEF Filed
<1>10. /\ tail \in Seq(Addr) /\ Len(tail) = len - k
       /\ \A i \in 1..(len - k) : tail[i] = nm[n][k + i]
  <2>1. /\ tail \in Seq(Addr) /\ Len(tail) = Len(nm[n]) - k
        /\ \A i \in 1..(Len(nm[n]) - k) : tail[i] = nm[n][k + i]
    BY <1>1, TailFields DEF Parts
  <2> QED
    BY <1>len, <2>1
<1>11. /\ DOMAIN nodes = DOMAIN nm \cup {a}
       /\ nodes[a] = <<a>> \o tail
       /\ nodes[n] = SubSeq(nm[n], 1, k - 1)
       /\ \A m \in DOMAIN nm \ {n} : nodes[m] = nm[m]
  <2>1. n # a
    BY <1>1
  <2> DEFINE created == Put(nm, a, <<a>>)
  <2>2. /\ DOMAIN created = DOMAIN nm \cup {a}
        /\ created[a] = <<a>>
        /\ \A m \in DOMAIN nm : created[m] = nm[m]
    BY DEF Put
  <2>3. nodes = [created EXCEPT ![a] = @ \o tail, ![n] = SubSeq(nm[n], 1, k - 1)]
    BY DEF Parts
  <2> HIDE DEF created
  <2> QED
    BY <2>1, <2>2, <2>3
<1>12. /\ nodes[a] \in Seq(Addr) /\ Len(nodes[a]) = len - k + 1
       /\ \A i \in 1..(len - k + 1) : nodes[a][i] = nm[n][k + i - 1]
  <2>0. nodes[a] = <<a>> \o tail
    BY <1>11
  <2>3. tail \in Seq(Addr)
    BY <1>10
  <2> DEFINE s == nodes[a]
  <2>5. s = <<a>> \o tail
    BY <2>0
  <2> HIDE DEF s
  <2>6. /\ s \in Seq(Addr) /\ Len(s) = 1 + Len(tail) /\ s[1] = a
        /\ \A i \in 2..(1 + Len(tail)) : s[i] = tail[i - 1]
    BY <2>3, <2>5, ConsFields
  <2>4. 1 + Len(tail) = len - k + 1
    BY <1>10, <1>k
  <2>1. /\ nodes[a] \in Seq(Addr) /\ Len(nodes[a]) = len - k + 1
        /\ nodes[a][1] = a
        /\ \A i \in 2..(len - k + 1) : nodes[a][i] = tail[i - 1]
    BY <2>4, <2>6 DEF s
  <2>2. ASSUME NEW i \in 1..(len - k + 1)
        PROVE  nodes[a][i] = nm[n][k + i - 1]
    <3>1. CASE i = 1
      <4>1. k + i - 1 = k
        BY <3>1, <1>k
      <4> QED
        BY <3>1, <4>1, <1>1, <2>1
    <3>2. CASE i # 1
      <4>1. i \in 2..(len - k + 1) /\ i - 1 \in 1..(len - k)
        BY <3>2, <1>k
      <4>2. k + (i - 1) = k + i - 1
        BY <1>k
      <4> QED
        BY <4>1, <4>2, <2>1, <1>10
    <3> QED
      BY <3>1, <3>2
  <2> QED
    BY <2>1, <2>2
<1>13. /\ nodes[n] \in Seq(Addr) /\ Len(nodes[n]) = k - 1
       /\ \A i \in 1..(k - 1) : nodes[n][i] = nm[n][i]
  <2>1. k \in 2..Len(nm[n])
    BY <1>len, <1>k
  <2>2. nodes[n] = SubSeq(nm[n], 1, k - 1)
    BY <1>11
  <2> DEFINE front == nodes[n]
             list  == nm[n]
  <2>3. list \in Seq(Addr) /\ k \in 2..Len(list) /\ front = SubSeq(list, 1, k - 1)
    BY <1>1, <2>2
  <2> HIDE DEF front, list
  <2>4. /\ front \in Seq(Addr) /\ Len(front) = k - 1
        /\ \A i \in 1..(k - 1) : front[i] = list[i]
    BY <2>3, FrontFields
  <2> QED
    BY <2>4 DEF front, list
<1>14. \A i \in 1..len : /\ nm[n][i] \in DOMAIN im
                                /\ im[nm[n][i]].vmNode = n
                                /\ im[nm[n][i]].index = i
  BY <1>1, <1>len, PlacedAt
<1> DEFINE put == Put(im, a, [vmNode |-> a, index |-> 1])
<1>15. /\ DOMAIN put = DOMAIN im
       /\ put[a] = [vmNode |-> a, index |-> 1]
       /\ \A x \in DOMAIN im \ {a} : put[x] = im[x]
  BY DEF Put
<1>17. ASSUME NEW i \in 1..(len - k)
       PROVE  /\ k + i \in 1..len /\ tail[i] = nm[n][k + i]
              /\ im[tail[i]].index = k + i /\ im[tail[i]].vmNode = n
              /\ tail[i] \in DOMAIN im
  <2>1. k + i \in 1..len
    BY <1>k
  <2>2. tail[i] = nm[n][k + i]
    BY <1>10
  <2> QED
    BY <2>1, <2>2, <1>14
<1>18. \A i, j \in 1..(len - k) : tail[i] = tail[j] => i = j
  <2> SUFFICES ASSUME NEW i \in 1..(len - k), NEW j \in 1..(len - k), tail[i] = tail[j]
               PROVE  i = j
    OBVIOUS
  <2>1. k + i = k + j
    BY <1>17
  <2> QED
    BY <2>1, <1>k
<1>19. /\ DOMAIN ins = DOMAIN put \cup Elements(tail)
       /\ \A i \in 1..(len - k) : ins[tail[i]] = [vmNode |-> a, index |-> 1 + i]
       /\ \A x \in DOMAIN put \ Elements(tail) : ins[x] = put[x]
  <2>1. Distinct(tail)
    BY <1>10, <1>18 DEF Distinct
  <2>2. tail \in Seq(Addr) /\ ins = Reindex(put, tail, a, 1)
    BY <1>10 DEF Parts
  <2> HIDE DEF put
  <2>3. Pointed(ins, put, tail, a, 1)
    BY <2>1, <2>2, ReindexFields
  <2>4. Len(tail) = len - k
    BY <1>10
  <2> QED
    BY <2>3, <2>4 DEF Pointed
<1> HIDE DEF put
<1>20. DOMAIN ins = DOMAIN im
  <2>1. Elements(tail) = {tail[i] : i \in 1..(len - k)}
    BY <1>10 DEF Elements
  <2>2. Elements(tail) \subseteq DOMAIN im
    BY <2>1, <1>17
  <2> QED
    BY <2>2, <1>15, <1>19
<1>21. ASSUME NEW x \in DOMAIN im
       PROVE  ins[x] = IF im[x].vmNode = n /\ im[x].index >= k
                         THEN [vmNode |-> a, index |-> im[x].index - k + 1]
                         ELSE im[x]
  <2>1. CASE x = a
    <3>1. a \notin Elements(tail)
      <4> SUFFICES ASSUME NEW i \in 1..(len - k), tail[i] = a PROVE FALSE
        BY <1>10 DEF Elements
      <4>1. k = k + i
        BY <1>17
      <4> QED
        BY <4>1, <1>k
    <3>2. ins[a] = [vmNode |-> a, index |-> 1]
      BY <3>1, <1>15, <1>19
    <3>3. im[a].index - k + 1 = 1 /\ im[a].index >= k
      BY <1>1
    <3> QED
      BY <2>1, <3>2, <3>3
  <2>2. CASE x # a /\ im[x].vmNode = n /\ im[x].index >= k
    <3>1. im[x].index \in 1..len /\ nm[n][im[x].index] = x
      BY <2>2, <1>len, IndexedAt
    <3>2. im[x].index # k
      BY <2>2, <3>1, <1>1
    <3> DEFINE i == im[x].index - k
    <3>3. i \in 1..(len - k) /\ k + i = im[x].index
      BY <3>1, <3>2, <2>2, <1>k
    <3>4. tail[i] = x
      BY <3>1, <3>3, <1>17
    <3>5. 1 + i = im[x].index - k + 1
      BY <3>1, <1>k
    <3> HIDE DEF i
    <3>6. ins[tail[i]] = [vmNode |-> a, index |-> 1 + i]
      BY <3>3, <1>19
    <3>7. ins[x] = [vmNode |-> a, index |-> im[x].index - k + 1]
      BY <3>4, <3>5, <3>6
    <3> QED
      BY <2>2, <3>7
  <2>3. CASE x # a /\ ~ (im[x].vmNode = n /\ im[x].index >= k)
    <3>1. x \notin Elements(tail)
      <4> SUFFICES ASSUME NEW i \in 1..(len - k), tail[i] = x PROVE FALSE
        BY <1>10 DEF Elements
      <4>1. im[x].vmNode = n /\ im[x].index = k + i
        BY <1>17
      <4> QED
        BY <4>1, <2>3, <1>k
    <3> QED
      BY <2>3, <3>1, <1>15, <1>19
  <2> QED
    BY <2>1, <2>2, <2>3
<1>22. Cut(nm, im, nodes, ins, n, k, a)
  BY <1>11, <1>12, <1>13, <1>20, <1>21, <1>len DEF Cut
<1> QED
  BY <1>22

\* splitBlock at an address behind the head of its block cuts the block there
\* and links the two parts.
LEMMA SplitCut ==
  ASSUME NEW g, Record(g), Filed(g.nodeMap, g.instructionToNodeMap),
         NEW a \in DOMAIN g.instructionToNodeMap,
         NEW n, n = g.instructionToNodeMap[a].vmNode,
         NEW k, k = g.instructionToNodeMap[a].index, k # 1,
         NEW r, r = splitBlock(g, n, a)
  PROVE  /\ Record(r) /\ r.thrown = g.thrown
         /\ Cut(g.nodeMap, g.instructionToNodeMap, r.nodeMap,
                r.instructionToNodeMap, n, k, a)
         /\ r.fromEdges = Added(g.fromEdges, g.nodeMap[n][k - 1], a)
         /\ r.toEdges = Added(g.toEdges, a, g.nodeMap[n][k - 1])
<1> DEFINE nm      == g.nodeMap
           im      == g.instructionToNodeMap
           created == createNode(g, a)
           list    == created.nodeMap[n]
           found   == PositionsOf(list, a) \ {1}
           at      == Least(found)
           tail    == SubSeq(list, at + 1, Len(list))
           linked  == linkEdge(created, list[at - 1], a)
           nodes   == [linked.nodeMap EXCEPT ![a] = @ \o tail,
                                             ![n] = SubSeq(list, 1, at - 1)]
           ins     == Reindex(linked.instructionToNodeMap, tail, a, 1)
<1>1. /\ n \in DOMAIN nm /\ k \in 1..Len(nm[n]) /\ nm[n] \in Seq(Addr)
      /\ nm[n][k] = a /\ a \in Addr /\ a \notin DOMAIN nm
  BY IndexedAt, InnerNotHead DEF Filed
<1>2. /\ Record(created)
      /\ created.nodeMap = Put(nm, a, <<a>>)
      /\ created.instructionToNodeMap = Put(im, a, [vmNode |-> a, index |-> 1])
      /\ created.fromEdges = g.fromEdges /\ created.toEdges = g.toEdges
      /\ created.thrown = g.thrown
  BY <1>1, CreateFields
<1>3. list = nm[n]
  BY <1>1, <1>2 DEF Put
<1>4. found = {k}
  <2>1. \A i \in 1..Len(nm[n]) : nm[n][i] = a <=> i = k
    <3>1. \A i \in 1..Len(nm[n]) : im[nm[n][i]].index = i
      BY <1>1, PlacedAt
    <3> QED
      BY <1>1, <3>1
  <2> QED
    BY <2>1, <1>1, <1>3 DEF PositionsOf
<1>5. at = k
  BY <1>1, <1>4 DEF Least
<1>6. splitBlock(g, n, a) = Refiled(linked, nodes, ins)
  BY <1>4 DEF splitBlock, Refiled
<1> HIDE DEF created, at, found
<1>7. /\ Record(linked)
      /\ linked.nodeMap = created.nodeMap
      /\ linked.instructionToNodeMap = created.instructionToNodeMap
      /\ linked.thrown = created.thrown
      /\ linked.fromEdges = Added(created.fromEdges, list[at - 1], a)
      /\ linked.toEdges = Added(created.toEdges, a, list[at - 1])
  BY <1>2, LinkFields
<1> HIDE DEF linked, nodes, ins
<1>8. /\ Record(r) /\ r.thrown = g.thrown
      /\ r.nodeMap = nodes /\ r.instructionToNodeMap = ins
      /\ r.fromEdges = linked.fromEdges /\ r.toEdges = linked.toEdges
  BY <1>2, <1>6, <1>7, RefileFields
<1>9. /\ r.fromEdges = Added(g.fromEdges, nm[n][k - 1], a)
      /\ r.toEdges = Added(g.toEdges, a, nm[n][k - 1])
  BY <1>2, <1>3, <1>5, <1>7, <1>8
<1>10. Cut(nm, im, nodes, ins, n, k, a)
  <2>1. tail = SubSeq(nm[n], k + 1, Len(nm[n]))
    BY <1>3, <1>5
  <2>2. nodes = [created.nodeMap EXCEPT ![a] = @ \o tail, ![n] = SubSeq(nm[n], 1, k - 1)]
    BY <1>3, <1>5, <1>7 DEF nodes
  <2>3. ins = Reindex(created.instructionToNodeMap, tail, a, 1)
    BY <1>7 DEF ins
  <2>4. k \in Nat /\ 2 <= k /\ k <= Len(nm[n])
    BY <1>1
  <2> HIDE DEF tail, list
  <2>5. Parts(nm, im, n, k, a, tail, nodes, ins)
    BY <1>2, <2>1, <2>2, <2>3 DEF Parts
  <2> QED
    BY <1>1, <2>4, <2>5, CutFields
<1> QED
  BY <1>8, <1>9, <1>10

----------------------------------------------------------------------------
(* Blocks of one trace: the invariant.                                     *)

\* Inside a block an instruction leads to the next and is no end of a block.
StraightBlocks(nm, c) ==
  \A n \in DOMAIN nm : \A i \in 1..(Len(nm[n]) - 1) :
    ~ isEndIns(c[nm[n][i]].kind) /\ nm[n][i + 1] \in c[nm[n][i]].succ

\* Edges lead from the ends of blocks to their heads.
Joined(nm, im, edges) ==
  \A f \in Addr : \A t \in edges[f] :
    f \in DOMAIN im /\ t \in DOMAIN im /\ AtEnd(nm, im, f) /\ AtHead(im, t)

\* Edges are steps of the program from one address to another.
Led(edges, c) == \A f \in Addr : \A t \in edges[f] : t # f /\ t \in c[f].succ

\* An instruction that ends no block leads to one other instruction at most:
\* what isEndIns gets wrong of LOOP, LOOPE and LOOPNE.
Falls(c) ==
  \A a \in Addr : ~ isEndIns(c[a].kind) =>
    \A x, y \in c[a].succ \ {a} : x = y

\* Blocks in agreement with the index, and some of the edges.
Blocks(g, edges) ==
  /\ Record(g)
  /\ Filed(g.nodeMap, g.instructionToNodeMap)
  /\ Joined(g.nodeMap, g.instructionToNodeMap, edges)

\* im2 has what im has, and its ends and heads are ends and heads in im2.
Kept(nm, im, nm2, im2) ==
  /\ DOMAIN im \subseteq DOMAIN im2
  /\ \A x \in DOMAIN im : /\ AtEnd(nm, im, x) => AtEnd(nm2, im2, x)
                          /\ AtHead(im, x) => AtHead(im2, x)

LEMMA KeptJoined ==
  ASSUME NEW nm, NEW im, NEW nm2, NEW im2, NEW edges, Joined(nm, im, edges),
         Kept(nm, im, nm2, im2)
  PROVE  Joined(nm2, im2, edges)
<1> SUFFICES ASSUME NEW f \in Addr, NEW t \in edges[f]
             PROVE  /\ f \in DOMAIN im2 /\ t \in DOMAIN im2
                    /\ AtEnd(nm2, im2, f) /\ AtHead(im2, t)
  BY DEF Joined
<1>1. /\ f \in DOMAIN im /\ t \in DOMAIN im
      /\ AtEnd(nm, im, f) /\ AtHead(im, t)
  BY DEF Joined
<1> QED
  BY <1>1 DEF Kept

\* One more edge from an end to a head.
LEMMA AddedJoined ==
  ASSUME NEW nm, NEW im, NEW edges, Joined(nm, im, edges),
         edges = [a \in Addr |-> edges[a]],
         NEW f \in Addr, f \in DOMAIN im, NEW t \in DOMAIN im,
         AtEnd(nm, im, f), AtHead(im, t)
  PROVE  Joined(nm, im, Added(edges, f, t))
<1> DEFINE more == Added(edges, f, t)
<1>1. \A x \in Addr : \A y \in more[x] : y \in edges[x] \/ (x = f /\ y = t)
  BY DEF Added
<1> HIDE DEF more
<1>2. Joined(nm, im, more)
  BY <1>1 DEF Joined
<1> QED
  BY <1>2 DEF more

LEMMA AddedLed ==
  ASSUME NEW edges, NEW c, Led(edges, c), edges = [a \in Addr |-> edges[a]],
         NEW f \in Addr, NEW t, t # f, t \in c[f].succ
  PROVE  /\ Led(Added(edges, f, t), c)
         /\ Added(edges, f, t) = [a \in Addr |-> Added(edges, f, t)[a]]
<1> DEFINE more == Added(edges, f, t)
<1>1. \A x \in Addr : \A y \in more[x] : y \in edges[x] \/ (x = f /\ y = t)
  BY DEF Added
<1>2. more = [a \in Addr |-> more[a]]
  BY DEF Added
<1> HIDE DEF more
<1>3. Led(more, c)
  BY <1>1 DEF Led
<1> QED
  BY <1>2, <1>3 DEF more

\* ensureNode adds a block of one address or nothing.
LEMMA EnsureBlocks ==
  ASSUME NEW g, NEW edges, Blocks(g, edges), NEW c, StraightBlocks(g.nodeMap, c),
         NEW a \in Addr, NEW h, h = ensureNode(g, a)
  PROVE  /\ Blocks(h, edges) /\ StraightBlocks(h.nodeMap, c)
         /\ DOMAIN h.instructionToNodeMap = DOMAIN g.instructionToNodeMap \cup {a}
         /\ h.fromEdges = g.fromEdges /\ h.toEdges = g.toEdges
         /\ h.thrown = g.thrown
<1> DEFINE nm == g.nodeMap
           im == g.instructionToNodeMap
<1>1. CASE a \in DOMAIN im
  BY <1>1 DEF ensureNode
<1>2. CASE a \notin DOMAIN im
  <2>1. h = createNode(g, a)
    BY <1>2 DEF ensureNode
  <2> DEFINE nm2 == h.nodeMap
             im2 == h.instructionToNodeMap
             one == <<a>>
  <2>2. Record(g) /\ Filed(nm, im) /\ Joined(nm, im, edges)
    BY DEF Blocks
  <2>3. a \notin DOMAIN nm
    BY <1>2, <2>2 DEF Filed, Placed
  <2>4. /\ Record(h) /\ nm2 = Put(nm, a, one)
        /\ im2 = Put(im, a, [vmNode |-> a, index |-> 1])
        /\ h.fromEdges = g.fromEdges /\ h.toEdges = g.toEdges
        /\ h.thrown = g.thrown
    BY <2>1, <2>2, <2>3, CreateFields
  <2> HIDE DEF nm, im, nm2, im2
  <2>5. Filed(nm2, im2)
    BY <1>2, <2>2, <2>4, CreateFiled
  <2>6. /\ DOMAIN nm2 = DOMAIN nm \cup {a} /\ nm2[a] = one
        /\ \A n \in DOMAIN nm : nm2[n] = nm[n]
    BY <2>3, <2>4 DEF Put
  <2>7. /\ DOMAIN im2 = DOMAIN im \cup {a}
        /\ \A x \in DOMAIN im : im2[x] = im[x]
    BY <1>2, <2>4 DEF Put
  <2>8. Kept(nm, im, nm2, im2)
    <3>1. \A x \in DOMAIN im : im[x].vmNode \in DOMAIN nm
      BY <2>2, IndexedAt
    <3> QED
      BY <3>1, <2>6, <2>7 DEF Kept, AtEnd, AtHead
  <2>9. Joined(nm2, im2, edges)
    BY <2>2, <2>8, KeptJoined
  <2>10. StraightBlocks(nm2, c)
    <3>1. Len(one) = 1
      OBVIOUS
    <3>2. StraightBlocks(nm, c)
      BY DEF nm
    <3> HIDE DEF one
    <3>3. \A i \in 1..(Len(one) - 1) : FALSE
      BY <3>1
    <3>4. ASSUME NEW n \in DOMAIN nm2, NEW i \in 1..(Len(nm2[n]) - 1)
          PROVE  ~ isEndIns(c[nm2[n][i]].kind) /\ nm2[n][i + 1] \in c[nm2[n][i]].succ
      <4>1. n # a
        BY <3>3, <2>6
      <4>2. n \in DOMAIN nm /\ nm2[n] = nm[n]
        BY <4>1, <2>6
      <4> QED
        BY <4>2, <3>2 DEF StraightBlocks
    <3> QED
      BY <3>4 DEF StraightBlocks
  <2> QED
    BY <2>4, <2>5, <2>7, <2>9, <2>10 DEF Blocks, nm2, im2, im
<1> QED
  BY <1>1, <1>2

\* A cut leaves ends and heads what they are, and makes an end in front of it
\* and a head behind it.
LEMMA CutKept ==
  ASSUME NEW nm, NEW im, Filed(nm, im), NEW a \in DOMAIN im, im[a].index # 1,
         NEW n, n = im[a].vmNode, NEW k, k = im[a].index,
         NEW nm2, NEW im2, Cut(nm, im, nm2, im2, n, k, a)
  PROVE  /\ Kept(nm, im, nm2, im2)
         /\ AtHead(im2, a)
         /\ nm[n][k - 1] \in DOMAIN im /\ nm[n][k - 1] \in Addr /\ nm[n][k - 1] # a
         /\ im[nm[n][k - 1]].vmNode = n
         /\ AtEnd(nm2, im2, nm[n][k - 1])
<1>len. PICK len \in Nat : len = Len(nm[n])
  BY IndexedAt DEF Filed
<1>1. /\ n \in DOMAIN nm /\ k \in Nat /\ k >= 2 /\ k <= len
  BY IndexedAt, <1>len
<1>2. ASSUME NEW x \in DOMAIN im, AtEnd(nm, im, x)
      PROVE  AtEnd(nm2, im2, x)
  <2>1. im[x].vmNode \in DOMAIN nm /\ im[x].index \in Nat \ {0}
    BY IndexedAt
  <2>2. CASE im[x].vmNode = n /\ im[x].index >= k
    <3>1. im2[x] = [vmNode |-> a, index |-> im[x].index - k + 1]
      BY <2>2 DEF Cut
    <3>2. Len(nm2[a]) = len - k + 1
      BY <1>len DEF Cut
    <3>3. im[x].index = len
      BY <1>2, <2>2, <1>len DEF AtEnd
    <3> QED
      BY <3>1, <3>2, <3>3 DEF AtEnd
  <2>3. CASE im[x].vmNode = n /\ ~ im[x].index >= k
    BY <1>1, <1>2, <1>len, <2>3 DEF AtEnd
  <2>4. CASE im[x].vmNode # n
    <3>1. im2[x] = im[x] /\ nm2[im[x].vmNode] = nm[im[x].vmNode]
      BY <2>1, <2>4 DEF Cut
    <3> QED
      BY <3>1, <1>2 DEF AtEnd
  <2> QED
    BY <2>2, <2>3, <2>4
<1>3. ASSUME NEW x \in DOMAIN im, AtHead(im, x)
      PROVE  AtHead(im2, x)
  <2>1. ~ im[x].index >= k
    BY <1>1, <1>3 DEF AtHead
  <2>2. im2[x] = im[x]
    BY <2>1 DEF Cut
  <2> QED
    BY <2>2, <1>3 DEF AtHead
<1>4. AtHead(im2, a)
  <2>1. im2[a] = [vmNode |-> a, index |-> k - k + 1]
    BY <1>1 DEF Cut
  <2> QED
    BY <2>1, <1>1 DEF AtHead
<1>5. k - 1 \in 1..Len(nm[n]) /\ k - 1 # k
  BY <1>1, <1>len
<1> DEFINE p == nm[n][k - 1]
<1>6. p \in DOMAIN im /\ p \in Addr /\ im[p].vmNode = n /\ im[p].index = k - 1
  BY <1>1, <1>5, PlacedAt
<1>7. p # a
  BY <1>5, <1>6
<1>8. AtEnd(nm2, im2, p)
  <2>1. ~ im[p].index >= k
    BY <1>1, <1>6
  <2>2. im2[p] = im[p]
    BY <1>6, <2>1 DEF Cut
  <2>3. Len(nm2[n]) = k - 1
    BY DEF Cut
  <2> QED
    BY <1>6, <2>2, <2>3 DEF AtEnd
<1>9. Kept(nm, im, nm2, im2)
  BY <1>2, <1>3 DEF Kept, Cut
<1> QED
  BY <1>4, <1>6, <1>7, <1>8, <1>9

\* Two addresses in a row behind a cut at k.
LEMMA CutSteps ==
  ASSUME NEW len \in Nat, NEW k \in Nat, k >= 2, k <= len,
         NEW i \in 1..((len - k + 1) - 1)
  PROVE  /\ i \in 1..(len - k + 1) /\ i + 1 \in 1..(len - k + 1)
         /\ k + i - 1 \in 1..(len - 1) /\ k + (i + 1) - 1 = (k + i - 1) + 1
OBVIOUS

\* A cut leaves blocks straight, and what it cuts is a step of the program.
LEMMA CutStraight ==
  ASSUME NEW nm, NEW im, Filed(nm, im), NEW a \in DOMAIN im, im[a].index # 1,
         NEW n, n = im[a].vmNode, NEW k, k = im[a].index,
         NEW nm2, NEW im2, Cut(nm, im, nm2, im2, n, k, a),
         NEW c, StraightBlocks(nm, c)
  PROVE  /\ StraightBlocks(nm2, c)
         /\ a \in c[nm[n][k - 1]].succ
<1>len. PICK len \in Nat : len = Len(nm[n])
  BY IndexedAt DEF Filed
<1>1. n \in DOMAIN nm /\ k \in Nat /\ k >= 2 /\ k <= len /\ nm[n][k] = a
  BY IndexedAt, <1>len
<1>2. \A j \in 1..(len - 1) : /\ ~ isEndIns(c[nm[n][j]].kind)
                              /\ nm[n][j + 1] \in c[nm[n][j]].succ
  BY <1>1, <1>len DEF StraightBlocks
<1>3. a \in c[nm[n][k - 1]].succ
  <2>1. k - 1 \in 1..(len - 1) /\ (k - 1) + 1 = k
    BY <1>1
  <2> QED
    BY <1>1, <1>2, <2>1
<1>4. StraightBlocks(nm2, c)
  <2> SUFFICES ASSUME NEW m \in DOMAIN nm2, NEW i \in 1..(Len(nm2[m]) - 1)
               PROVE  /\ ~ isEndIns(c[nm2[m][i]].kind)
                      /\ nm2[m][i + 1] \in c[nm2[m][i]].succ
    BY DEF StraightBlocks
  <2>1. CASE m = n
    <3>1. i \in 1..(k - 1) /\ i + 1 \in 1..(k - 1) /\ i \in 1..(len - 1)
      <4>1. i \in 1..((k - 1) - 1)
        BY <2>1 DEF Cut
      <4> QED
        BY <4>1, <1>1
    <3>2. nm2[m][i] = nm[n][i] /\ nm2[m][i + 1] = nm[n][i + 1]
      BY <2>1, <3>1 DEF Cut
    <3> QED
      BY <1>2, <3>1, <3>2
  <2>2. CASE m = a
    <3> DEFINE j == k + i - 1
    <3>1. i \in 1..((len - k + 1) - 1)
      BY <2>2, <1>len DEF Cut
    <3>2. /\ i \in 1..(len - k + 1) /\ i + 1 \in 1..(len - k + 1)
          /\ j \in 1..(len - 1) /\ k + (i + 1) - 1 = j + 1
      BY <3>1, <1>1, <1>len, CutSteps
    <3>3. nm2[m][i] = nm[n][j]
      BY <2>2, <3>2, <1>len DEF Cut
    <3>4. nm2[m][i + 1] = nm[n][k + (i + 1) - 1]
      BY <2>2, <3>2, <1>len DEF Cut
    <3> HIDE DEF j
    <3> QED
      BY <1>2, <3>2, <3>3, <3>4
  <2>3. CASE m \in DOMAIN nm \ {n}
    <3>1. nm2[m] = nm[m]
      BY <2>3 DEF Cut
    <3> QED
      BY <2>3, <3>1 DEF StraightBlocks
  <2> QED
    BY <2>1, <2>2, <2>3 DEF Cut
<1> QED
  BY <1>3, <1>4

\* What splitBlock leaves at an address that is not the head of its block.
LEMMA SplitBlocks ==
  ASSUME NEW g, NEW edges, Blocks(g, edges),
         NEW a \in DOMAIN g.instructionToNodeMap, ~ IsHead(g, a),
         NEW r, r = splitBlock(g, g.instructionToNodeMap[a].vmNode, a),
         NEW c, StraightBlocks(g.nodeMap, c)
  PROVE  /\ Blocks(r, edges) /\ StraightBlocks(r.nodeMap, c)
         /\ r.thrown = g.thrown
         /\ Kept(g.nodeMap, g.instructionToNodeMap, r.nodeMap, r.instructionToNodeMap)
         /\ AtHead(r.instructionToNodeMap, a)
         /\ \E p \in Addr \cap DOMAIN r.instructionToNodeMap :
              /\ p # a /\ a \in c[p].succ
              /\ g.instructionToNodeMap[p].vmNode = g.instructionToNodeMap[a].vmNode
              /\ AtEnd(r.nodeMap, r.instructionToNodeMap, p)
              /\ r.fromEdges = Added(g.fromEdges, p, a)
              /\ r.toEdges = Added(g.toEdges, a, p)
<1> DEFINE nm  == g.nodeMap
           im  == g.instructionToNodeMap
           nm2 == r.nodeMap
           im2 == r.instructionToNodeMap
           n   == im[a].vmNode
           k   == im[a].index
           p   == nm[n][k - 1]
<1>1. Record(g) /\ Filed(nm, im) /\ Joined(nm, im, edges) /\ StraightBlocks(nm, c)
  BY DEF Blocks
<1>2. k # 1
  BY DEF IsHead
<1>3. /\ Record(r) /\ r.thrown = g.thrown
      /\ Cut(nm, im, nm2, im2, n, k, a)
      /\ r.fromEdges = Added(g.fromEdges, p, a)
      /\ r.toEdges = Added(g.toEdges, a, p)
  BY <1>1, <1>2, SplitCut
<1>n. PICK n0 : n0 = im[a].vmNode
  OBVIOUS
<1>k. PICK k0 : k0 = im[a].index
  OBVIOUS
<1>4. Cut(nm, im, nm2, im2, n0, k0, a) /\ im[a].index # 1 /\ a \in DOMAIN im
  BY <1>3, <1>n, <1>k, <1>2
<1> HIDE DEF nm, im, nm2, im2, n, k, p
<1>5. Filed(nm2, im2)
  BY <1>1, <1>4, <1>n, <1>k, CutFiled
<1>6. /\ Kept(nm, im, nm2, im2)
      /\ AtHead(im2, a)
      /\ nm[n0][k0 - 1] \in DOMAIN im /\ nm[n0][k0 - 1] \in Addr
      /\ nm[n0][k0 - 1] # a /\ im[nm[n0][k0 - 1]].vmNode = n0
      /\ AtEnd(nm2, im2, nm[n0][k0 - 1])
  BY <1>1, <1>4, <1>n, <1>k, CutKept
<1>7. /\ StraightBlocks(nm2, c)
      /\ a \in c[nm[n0][k0 - 1]].succ
  BY <1>1, <1>4, <1>n, <1>k, CutStraight
<1>8. p = nm[n0][k0 - 1]
  BY <1>n, <1>k DEF p, n, k
<1>9. Joined(nm2, im2, edges)
  BY <1>1, <1>6, KeptJoined
<1>10. DOMAIN im2 = DOMAIN im
  BY <1>4 DEF Cut
<1>11. Blocks(r, edges)
  BY <1>3, <1>5, <1>9 DEF Blocks, nm2, im2
<1>12. /\ p \in Addr \cap DOMAIN im2 /\ p # a /\ a \in c[p].succ
       /\ AtEnd(nm2, im2, p) /\ im[p].vmNode = im[a].vmNode
  BY <1>6, <1>7, <1>8, <1>10, <1>n
<1>13. r.fromEdges = Added(g.fromEdges, p, a) /\ r.toEdges = Added(g.toEdges, a, p)
  BY <1>3
<1>14. \E x \in Addr \cap DOMAIN im2 :
         /\ x # a /\ a \in c[x].succ
         /\ im[x].vmNode = im[a].vmNode
         /\ AtEnd(nm2, im2, x)
         /\ r.fromEdges = Added(g.fromEdges, x, a)
         /\ r.toEdges = Added(g.toEdges, a, x)
  BY <1>12, <1>13
<1>15. /\ Blocks(r, edges) /\ StraightBlocks(nm2, c) /\ r.thrown = g.thrown
       /\ Kept(nm, im, nm2, im2) /\ AtHead(im2, a)
  BY <1>3, <1>6, <1>7, <1>11
<1> QED
  BY <1>14, <1>15 DEF nm, im, nm2, im2

\* nm2 and im2 are nm and im with t at the end of block n, behind k addresses.
Grown(nm, im, nm2, im2, n, k, t) ==
  /\ DOMAIN nm2 = DOMAIN nm
  /\ nm2[n] \in Seq(Addr) /\ Len(nm2[n]) = k + 1
  /\ \A i \in 1..k : nm2[n][i] = nm[n][i]
  /\ nm2[n][k + 1] = t
  /\ \A m \in DOMAIN nm \ {n} : nm2[m] = nm[m]
  /\ DOMAIN im2 = DOMAIN im \cup {t}
  /\ im2[t] = [vmNode |-> n, index |-> k + 1]
  /\ \A x \in DOMAIN im : im2[x] = im[x]

\* What addNormalLink does for an address no block has.
LEMMA AppendGrows ==
  ASSUME NEW nm, NEW im, Filed(nm, im), NEW n \in DOMAIN nm,
         NEW k \in Nat, Len(nm[n]) = k, NEW t \in Addr, t \notin DOMAIN im
  PROVE  Grown(nm, im, [nm EXCEPT ![n] = Append(@, t)],
               Put(im, t, [vmNode |-> n, index |-> k + 1]), n, k, t)
<1> DEFINE nm2  == [nm EXCEPT ![n] = Append(@, t)]
           im2  == Put(im, t, [vmNode |-> n, index |-> k + 1])
           list == nm[n]
           more == Append(list, t)
<1>1. DOMAIN nm2 = DOMAIN nm /\ nm2[n] = more /\ \A m \in DOMAIN nm \ {n} : nm2[m] = nm[m]
  OBVIOUS
<1>2. /\ DOMAIN im2 = DOMAIN im \cup {t}
      /\ im2[t] = [vmNode |-> n, index |-> k + 1]
      /\ \A x \in DOMAIN im : im2[x] = im[x]
  BY DEF Put
<1>3. list \in Seq(Addr) /\ Len(list) = k
  BY DEF Filed
<1>4. /\ more \in Seq(Addr) /\ Len(more) = k + 1 /\ more[k + 1] = t
      /\ \A i \in 1..k : more[i] = list[i]
  <2> HIDE DEF list
  <2> QED
    BY <1>3
<1> HIDE DEF nm2, im2, more
<1>5. Grown(nm, im, nm2, im2, n, k, t)
  BY <1>1, <1>2, <1>4 DEF Grown
<1> QED
  BY <1>5 DEF nm2, im2

LEMMA GrownFiled ==
  ASSUME NEW nm, NEW im, Filed(nm, im), NEW n \in DOMAIN nm,
         NEW k \in Nat, Len(nm[n]) = k, NEW t \in Addr, t \notin DOMAIN im,
         NEW nm2, NEW im2, Grown(nm, im, nm2, im2, n, k, t)
  PROVE  Filed(nm2, im2)
<1>1. k >= 1
  BY DEF Filed
<1>2. \A m \in DOMAIN nm2 : nm2[m] \in Seq(Addr) /\ Len(nm2[m]) >= 1 /\ nm2[m][1] = m
  <2> TAKE m \in DOMAIN nm2
  <2>1. CASE m = n
    <3>1. nm[n][1] = n /\ 1 \in 1..k
      BY <1>1 DEF Filed
    <3>2. nm2[n][1] = n
      BY <3>1 DEF Grown
    <3>3. nm2[n] \in Seq(Addr) /\ Len(nm2[n]) = k + 1
      BY DEF Grown
    <3> QED
      BY <2>1, <3>2, <3>3, <1>1
  <2>2. CASE m \in DOMAIN nm \ {n}
    <3>1. nm2[m] = nm[m]
      BY <2>2 DEF Grown
    <3>2. nm[m] \in Seq(Addr) /\ Len(nm[m]) >= 1 /\ nm[m][1] = m
      BY <2>2 DEF Filed
    <3> QED
      BY <3>1, <3>2
  <2> QED
    BY <2>1, <2>2 DEF Grown
<1>3. Indexed(nm2, im2)
  <2> SUFFICES ASSUME NEW x \in DOMAIN im2
               PROVE  /\ im2[x] \in [vmNode : DOMAIN nm2, index : Nat \ {0}]
                      /\ im2[x].index <= Len(nm2[im2[x].vmNode])
                      /\ nm2[im2[x].vmNode][im2[x].index] = x
    BY DEF Indexed
  <2>1. CASE x = t
    <3>1. im2[x] = [vmNode |-> n, index |-> k + 1]
      BY <2>1 DEF Grown
    <3>2. im2[x].vmNode = n /\ im2[x].index = k + 1 /\ k + 1 \in Nat \ {0}
      BY <3>1
    <3>3. n \in DOMAIN nm2 /\ Len(nm2[n]) = k + 1 /\ nm2[n][k + 1] = t
      BY DEF Grown
    <3> QED
      BY <2>1, <3>1, <3>2, <3>3
  <2>2. CASE x # t
    <3>1. x \in DOMAIN im /\ im2[x] = im[x]
      BY <2>2 DEF Grown
    <3>2. /\ im[x].vmNode \in DOMAIN nm /\ im[x].index \in Nat \ {0}
          /\ im[x].index \in 1..Len(nm[im[x].vmNode])
          /\ nm[im[x].vmNode][im[x].index] = x
          /\ im[x] = [vmNode |-> im[x].vmNode, index |-> im[x].index]
      BY <3>1, IndexedAt
    <3>3. im2[x] \in [vmNode : DOMAIN nm2, index : Nat \ {0}]
      BY <3>1, <3>2 DEF Grown
    <3>4. CASE im[x].vmNode = n
      <4>1. im[x].index \in 1..k
        BY <3>2, <3>4
      <4>2. nm2[n][im[x].index] = nm[n][im[x].index] /\ Len(nm2[n]) = k + 1
        BY <4>1 DEF Grown
      <4> QED
        BY <3>1, <3>2, <3>3, <3>4, <4>1, <4>2
    <3>5. CASE im[x].vmNode # n
      <4>1. nm2[im[x].vmNode] = nm[im[x].vmNode]
        BY <3>2, <3>5 DEF Grown
      <4>2. im2[x].index <= Len(nm2[im2[x].vmNode])
        BY <3>1, <3>2, <4>1
      <4> QED
        BY <3>1, <3>2, <3>3, <4>1, <4>2
    <3> QED
      BY <3>4, <3>5
  <2> QED
    BY <2>1, <2>2
<1>4. Placed(nm2, im2)
  <2> SUFFICES ASSUME NEW m \in DOMAIN nm2, NEW i \in 1..Len(nm2[m])
               PROVE  /\ nm2[m][i] \in DOMAIN im2
                      /\ im2[nm2[m][i]].vmNode = m
                      /\ im2[nm2[m][i]].index = i
    BY DEF Placed
  <2>1. CASE m = n /\ i = k + 1
    <3>1. nm2[m][i] = t /\ im2[t] = [vmNode |-> n, index |-> k + 1] /\ t \in DOMAIN im2
      BY <2>1 DEF Grown
    <3> QED
      BY <2>1, <3>1
  <2>2. CASE m = n /\ i # k + 1
    <3>1. i \in 1..k
      BY <2>2 DEF Grown
    <3>2. nm2[m][i] = nm[n][i]
      BY <2>2, <3>1 DEF Grown
    <3>3. /\ nm[n][i] \in DOMAIN im
          /\ im[nm[n][i]].vmNode = n /\ im[nm[n][i]].index = i
      BY <3>1, PlacedAt
    <3>4. im2[nm[n][i]] = im[nm[n][i]] /\ nm[n][i] \in DOMAIN im2
      BY <3>3 DEF Grown
    <3> QED
      BY <2>2, <3>2, <3>3, <3>4
  <2>3. CASE m # n
    <3>1. m \in DOMAIN nm /\ nm2[m] = nm[m] /\ i \in 1..Len(nm[m])
      BY <2>3 DEF Grown
    <3>2. /\ nm[m][i] \in DOMAIN im
          /\ im[nm[m][i]].vmNode = m /\ im[nm[m][i]].index = i
      BY <3>1, PlacedAt
    <3>3. im2[nm[m][i]] = im[nm[m][i]] /\ nm[m][i] \in DOMAIN im2
      BY <3>2 DEF Grown
    <3> QED
      BY <3>1, <3>2, <3>3
  <2> QED
    BY <2>1, <2>2, <2>3
<1>5. DOMAIN nm2 \subseteq Addr /\ DOMAIN im2 \subseteq Addr
  BY DEF Grown, Filed
<1> QED
  BY <1>2, <1>3, <1>4, <1>5 DEF Filed

\* Behind the end f of a block t is the new end; the other ends, and all the
\* heads, stay what they are.
LEMMA GrownEnds ==
  ASSUME NEW nm, NEW im, Filed(nm, im), NEW f \in DOMAIN im, AtEnd(nm, im, f),
         NEW n, n = im[f].vmNode, NEW k \in Nat, k = im[f].index,
         NEW t \in Addr, t \notin DOMAIN im,
         NEW nm2, NEW im2, Grown(nm, im, nm2, im2, n, k, t)
  PROVE  /\ \A x \in DOMAIN im : AtHead(im, x) => AtHead(im2, x)
         /\ \A x \in DOMAIN im \ {f} : AtEnd(nm, im, x) => AtEnd(nm2, im2, x)
<1>1. \A x \in DOMAIN im : im2[x] = im[x]
  BY DEF Grown
<1>2. \A x \in DOMAIN im : AtHead(im, x) => AtHead(im2, x)
  BY <1>1 DEF AtHead
<1>3. ASSUME NEW x \in DOMAIN im, x # f, AtEnd(nm, im, x)
      PROVE  AtEnd(nm2, im2, x)
  <2>1. im[x].vmNode \in DOMAIN nm /\ nm[im[x].vmNode][im[x].index] = x
    BY IndexedAt
  <2>2. nm[n][k] = f /\ Len(nm[n]) = k
    BY IndexedAt DEF AtEnd
  <2>3. im[x].vmNode # n
    BY <1>3, <2>1, <2>2 DEF AtEnd
  <2>4. nm2[im[x].vmNode] = nm[im[x].vmNode]
    BY <2>1, <2>3 DEF Grown
  <2> QED
    BY <1>1, <1>3, <2>4 DEF AtEnd
<1> QED
  BY <1>2, <1>3

LEMMA GrownStraight ==
  ASSUME NEW nm, NEW im, Filed(nm, im), NEW n \in DOMAIN nm,
         NEW k \in Nat, Len(nm[n]) = k, NEW t \in Addr,
         NEW nm2, NEW im2, Grown(nm, im, nm2, im2, n, k, t),
         NEW c, StraightBlocks(nm, c), ~ isEndIns(c[nm[n][k]].kind), t \in c[nm[n][k]].succ
  PROVE  StraightBlocks(nm2, c)
<1>1. k >= 1
  BY DEF Filed
<1> SUFFICES ASSUME NEW m \in DOMAIN nm2, NEW i \in 1..(Len(nm2[m]) - 1)
             PROVE  /\ ~ isEndIns(c[nm2[m][i]].kind)
                    /\ nm2[m][i + 1] \in c[nm2[m][i]].succ
  BY DEF StraightBlocks
<1>2. CASE m = n /\ i = k
  <2>1. nm2[n][k] = nm[n][k] /\ nm2[n][k + 1] = t
    BY <1>1 DEF Grown
  <2> QED
    BY <1>2, <2>1
<1>3. CASE m = n /\ i # k
  <2>1. i \in 1..(k - 1) /\ i \in 1..k /\ i + 1 \in 1..k
    BY <1>1, <1>3 DEF Grown
  <2>2. nm2[n][i] = nm[n][i] /\ nm2[n][i + 1] = nm[n][i + 1]
    BY <2>1 DEF Grown
  <2> QED
    BY <1>3, <2>1, <2>2 DEF StraightBlocks
<1>4. CASE m # n
  <2>1. m \in DOMAIN nm /\ nm2[m] = nm[m]
    BY <1>4 DEF Grown
  <2> QED
    BY <2>1 DEF StraightBlocks
<1> QED
  BY <1>2, <1>3, <1>4

\* What links and merges keep of the graph of one trace of the program c.
Sound(g, c) ==
  /\ Good(g)
  /\ Blocks(g, g.fromEdges)
  /\ Led(g.fromEdges, c)
  /\ g.toEdges \in [Addr -> SUBSET Addr]

LEMMA AddedTyped ==
  ASSUME NEW edges \in [Addr -> SUBSET Addr], NEW x \in Addr, NEW y \in Addr
  PROVE  Added(edges, x, y) \in [Addr -> SUBSET Addr]
BY DEF Added

\* One more edge, from an end to a head, in a graph that has its blocks.
LEMMA AddedSound ==
  ASSUME NEW g, NEW c, NEW edges, NEW back, Good(g), Blocks(g, edges), Led(edges, c),
         edges = [a \in Addr |-> edges[a]], back \in [Addr -> SUBSET Addr],
         NEW f \in Addr, f \in DOMAIN g.instructionToNodeMap,
         NEW t \in Addr, t \in DOMAIN g.instructionToNodeMap,
         IsTail(g, f), IsHead(g, t), t # f, t \in c[f].succ,
         g.fromEdges = Added(edges, f, t), g.toEdges = Added(back, t, f)
  PROVE  Sound(g, c)
<1> DEFINE nm == g.nodeMap
           im == g.instructionToNodeMap
           more == g.fromEdges
<1>1. Record(g) /\ Filed(nm, im) /\ Joined(nm, im, edges)
  BY DEF Blocks
<1>2. AtEnd(nm, im, f) /\ AtHead(im, t) /\ t \in DOMAIN im /\ f \in DOMAIN im
  BY DEF AtEnd, AtHead, IsTail, IsHead
<1> HIDE DEF nm, im
<1>3. Joined(nm, im, Added(edges, f, t))
  BY <1>1, <1>2, AddedJoined
<1>4. Led(Added(edges, f, t), c)
  BY AddedLed
<1>5. Added(back, t, f) \in [Addr -> SUBSET Addr]
  BY AddedTyped
<1>6. Blocks(g, g.fromEdges)
  BY <1>1, <1>3 DEF Blocks, nm, im
<1> QED
  BY <1>4, <1>5, <1>6 DEF Sound

\* An instruction that ends blocks is the last of its block.
LEMMA EndIsTail ==
  ASSUME NEW nm, NEW im, Filed(nm, im), NEW c, StraightBlocks(nm, c),
         NEW f \in DOMAIN im, isEndIns(c[f].kind)
  PROVE  AtEnd(nm, im, f)
<1> SUFFICES ASSUME ~ AtEnd(nm, im, f) PROVE FALSE
  OBVIOUS
<1>len. PICK len \in Nat : len = Len(nm[im[f].vmNode])
  BY IndexedAt DEF Filed
<1>1. /\ im[f].vmNode \in DOMAIN nm /\ im[f].index \in 1..len
      /\ nm[im[f].vmNode][im[f].index] = f /\ im[f].index # len
  BY IndexedAt, <1>len DEF AtEnd
<1>2. im[f].index \in 1..(len - 1)
  BY <1>1
<1> QED
  BY <1>1, <1>2, <1>len DEF StraightBlocks

\* A head with one edge into it has it from an instruction that ends blocks.
Entered(back, c) == \A n, x \in Addr : back[n] = {x} => isEndIns(c[x].kind)

LEMMA AddedEntered ==
  ASSUME NEW back \in [Addr -> SUBSET Addr], NEW c, Entered(back, c),
         NEW t \in Addr, NEW f \in Addr
  PROVE  /\ isEndIns(c[f].kind) => Entered(Added(back, t, f), c)
         /\ \A p \in Addr : isEndIns(c[f].kind) =>
              Entered(Added(Added(back, t, f), t, p), c)
         /\ \A p \in Addr : p # f => Entered(Added(Added(back, t, p), t, f), c)
<1>1. \A n \in Addr : Added(back, t, f)[n] = IF n = t THEN back[t] \cup {f} ELSE back[n]
  BY DEF Added
<1>2. \A p, n \in Addr : Added(Added(back, t, f), t, p)[n] =
                         IF n = t THEN back[t] \cup {f, p} ELSE back[n]
  BY DEF Added
<1>3. \A p, n \in Addr : Added(Added(back, t, p), t, f)[n] =
                         IF n = t THEN back[t] \cup {f, p} ELSE back[n]
  BY DEF Added
<1>4. isEndIns(c[f].kind) => Entered(Added(back, t, f), c)
  BY <1>1 DEF Entered
<1>5. \A p \in Addr : isEndIns(c[f].kind) => Entered(Added(Added(back, t, f), t, p), c)
  BY <1>2 DEF Entered
<1>6. ASSUME NEW p \in Addr, p # f
      PROVE  Entered(Added(Added(back, t, p), t, f), c)
  <2> DEFINE more == Added(Added(back, t, p), t, f)
  <2>1. /\ \A n \in Addr \ {t} : more[n] = back[n]
        /\ p \in more[t] /\ f \in more[t]
    BY <1>3
  <2> HIDE DEF more
  <2>2. \A x : more[t] # {x}
    BY <1>6, <2>1
  <2>3. Entered(more, c)
    BY <2>1, <2>2 DEF Entered
  <2> QED
    BY <2>3 DEF more
<1> QED
  BY <1>4, <1>5, <1>6

LEMMA JmpSound ==
  ASSUME NEW g, NEW c, Sound(g, c), StraightBlocks(g.nodeMap, c),
         NEW f \in Addr, NEW t \in Addr, t # f, t \in c[f].succ, isEndIns(c[f].kind),
         NEW r, r = addJmpLink(g, f, t)
  PROVE  /\ Sound(r, c) /\ StraightBlocks(r.nodeMap, c)
         /\ Entered(g.toEdges, c) => Entered(r.toEdges, c)
<1> DEFINE l == linkEdge(g, f, t)
           h1 == ensureNode(l, f)
           h == ensureNode(h1, t)
           edges == g.fromEdges
           back == g.toEdges
           more == Added(edges, f, t)
           moreBack == Added(back, t, f)
<1>1. /\ Good(g) /\ Record(g) /\ Blocks(g, edges) /\ Led(edges, c)
      /\ back \in [Addr -> SUBSET Addr] /\ edges = [a \in Addr |-> edges[a]]
  BY DEF Sound, Good, Mirrored
<1>2. Good(h) /\ Good(r)
  BY <1>1, LinkGood, CreateGood, JmpGood
<1>3. /\ Blocks(l, edges) /\ StraightBlocks(l.nodeMap, c)
      /\ l.fromEdges = more /\ l.toEdges = moreBack
  <2>1. /\ Record(l) /\ l.nodeMap = g.nodeMap
        /\ l.instructionToNodeMap = g.instructionToNodeMap
        /\ l.fromEdges = more /\ l.toEdges = moreBack
    BY <1>1, LinkFields
  <2> HIDE DEF l, edges, more, moreBack
  <2> QED
    BY <2>1, <1>1 DEF Blocks
<1>4. r = IF IsTail(h, f) /\ IsHead(h, t) THEN h
          ELSE LET cur == h.instructionToNodeMap[f].vmNode
                   nxt == h.instructionToNodeMap[t].vmNode
                   g1  == IF IsTail(h, f) THEN h ELSE splitBlock(h, cur, f)
               IN  IF cur = nxt THEN splitBlock(h, nxt, t)
                   ELSE IF IsHead(g1, t) THEN g1
                   ELSE splitBlock(g1, nxt, t)
  BY DEF addJmpLink
<1>b. back = g.toEdges
  OBVIOUS
<1> HIDE DEF l, edges, back, more, moreBack
<1>5. /\ Blocks(h1, edges) /\ StraightBlocks(h1.nodeMap, c)
      /\ h1.fromEdges = more /\ h1.toEdges = moreBack
      /\ f \in DOMAIN h1.instructionToNodeMap
  BY <1>3, EnsureBlocks
<1> HIDE DEF h1
<1>6. /\ Blocks(h, edges) /\ StraightBlocks(h.nodeMap, c)
      /\ h.fromEdges = more /\ h.toEdges = moreBack
      /\ f \in DOMAIN h.instructionToNodeMap /\ t \in DOMAIN h.instructionToNodeMap
  BY <1>5, EnsureBlocks
<1> HIDE DEF h
<1>7. IsTail(h, f)
  <2>1. Filed(h.nodeMap, h.instructionToNodeMap)
    BY <1>6 DEF Blocks
  <2>2. AtEnd(h.nodeMap, h.instructionToNodeMap, f)
    BY <2>1, <1>6, EndIsTail
  <2> QED
    BY <2>2 DEF AtEnd, IsTail
<1>8. CASE IsHead(h, t)
  <2>1. r = h
    BY <1>4, <1>7, <1>8
  <2>2. Sound(h, c)
    BY <1>1, <1>2, <1>6, <1>7, <1>8, AddedSound DEF more, moreBack
  <2>3. Entered(back, c) => Entered(r.toEdges, c)
    BY <2>1, <1>1, <1>6, AddedEntered DEF moreBack
  <2> QED
    BY <2>1, <2>2, <2>3, <1>6, <1>b
<1>9. CASE ~ IsHead(h, t)
  <2>1. r = splitBlock(h, h.instructionToNodeMap[t].vmNode, t)
    BY <1>4, <1>7, <1>9
  <2>2. /\ Blocks(r, edges) /\ StraightBlocks(r.nodeMap, c)
        /\ Kept(h.nodeMap, h.instructionToNodeMap, r.nodeMap, r.instructionToNodeMap)
        /\ AtHead(r.instructionToNodeMap, t)
        /\ \E p \in Addr \cap DOMAIN r.instructionToNodeMap :
             /\ p # t /\ t \in c[p].succ
             /\ AtEnd(r.nodeMap, r.instructionToNodeMap, p)
             /\ r.fromEdges = Added(h.fromEdges, p, t)
             /\ r.toEdges = Added(h.toEdges, t, p)
    BY <2>1, <1>6, <1>9, SplitBlocks
  <2>3. PICK p \in Addr \cap DOMAIN r.instructionToNodeMap :
             /\ p # t /\ t \in c[p].succ
             /\ AtEnd(r.nodeMap, r.instructionToNodeMap, p)
             /\ r.fromEdges = Added(h.fromEdges, p, t)
             /\ r.toEdges = Added(h.toEdges, t, p)
    BY <2>2
  <2>4. /\ f \in DOMAIN r.instructionToNodeMap /\ t \in DOMAIN r.instructionToNodeMap
        /\ AtEnd(r.nodeMap, r.instructionToNodeMap, f)
    BY <2>2, <1>6, <1>7 DEF Kept, IsTail, AtEnd
  <2>5. /\ Joined(r.nodeMap, r.instructionToNodeMap, more)
        /\ Led(more, c) /\ more = [a \in Addr |-> more[a]]
        /\ moreBack \in [Addr -> SUBSET Addr]
    BY <2>2, <2>4, <1>1, AddedJoined, AddedLed, AddedTyped DEF Blocks, more, moreBack
  <2>6. Blocks(r, more)
    BY <2>2, <2>5 DEF Blocks
  <2>7. IsTail(r, p) /\ IsHead(r, t)
    BY <2>2, <2>3 DEF IsTail, IsHead, AtEnd, AtHead
  <2>8. Sound(r, c)
    BY <2>3, <2>4, <2>5, <2>6, <2>7, <1>2, <1>6, AddedSound
  <2>9. Entered(back, c) => Entered(r.toEdges, c)
    BY <2>3, <1>1, <1>6, AddedEntered DEF moreBack
  <2> QED
    BY <2>2, <2>8, <2>9, <1>b
<1> QED
  BY <1>8, <1>9

\* Where an instruction that ends no block stands inside one, its successor
\* comes next.
LEMMA NextIs ==
  ASSUME NEW nm, NEW im, Filed(nm, im), NEW c, StraightBlocks(nm, c), Falls(c),
         NEW f \in DOMAIN im, ~ AtEnd(nm, im, f), ~ isEndIns(c[f].kind),
         NEW t, t # f, t \in c[f].succ
  PROVE  /\ t \in DOMAIN im
         /\ im[t].vmNode = im[f].vmNode /\ im[t].index = im[f].index + 1
<1>len. PICK len \in Nat : len = Len(nm[im[f].vmNode])
  BY IndexedAt DEF Filed
<1>n. PICK n \in DOMAIN nm : n = im[f].vmNode
  BY IndexedAt
<1>k. PICK k \in Nat : k = im[f].index
  BY IndexedAt
<1>1. k \in 1..len /\ nm[n][k] = f /\ k # len /\ len = Len(nm[n])
  BY IndexedAt, <1>len, <1>n, <1>k DEF AtEnd
<1>2. k \in 1..(len - 1) /\ k + 1 \in 1..len /\ k + 1 # k
  BY <1>1
<1> DEFINE x == nm[n][k + 1]
<1>3. x \in DOMAIN im /\ im[x].vmNode = n /\ im[x].index = k + 1
  BY <1>1, <1>2, PlacedAt
<1>4. x \in c[f].succ
  BY <1>1, <1>2 DEF StraightBlocks
<1>5. x # f
  BY <1>2, <1>3, <1>k
<1>6. f \in Addr
  BY DEF Filed
<1> HIDE DEF x
<1>7. x = t
  BY <1>4, <1>5, <1>6 DEF Falls
<1> QED
  BY <1>3, <1>7, <1>n, <1>k

\* Joined edges stay joined behind an append, as none leaves f: it would lead
\* to t, which has no block yet.
LEMMA GrownJoined ==
  ASSUME NEW nm, NEW im, Filed(nm, im), NEW c, Falls(c),
         NEW f \in DOMAIN im, AtEnd(nm, im, f), ~ isEndIns(c[f].kind),
         NEW n, n = im[f].vmNode, NEW k \in Nat, k = im[f].index,
         NEW t \in Addr, t \notin DOMAIN im, t # f, t \in c[f].succ,
         NEW nm2, NEW im2, Grown(nm, im, nm2, im2, n, k, t),
         NEW edges, Joined(nm, im, edges), Led(edges, c)
  PROVE  Joined(nm2, im2, edges)
<1>1. /\ \A x \in DOMAIN im : AtHead(im, x) => AtHead(im2, x)
      /\ \A x \in DOMAIN im \ {f} : AtEnd(nm, im, x) => AtEnd(nm2, im2, x)
  BY GrownEnds
<1>2. DOMAIN im \subseteq DOMAIN im2 /\ f \in Addr
  BY DEF Grown, Filed
<1> SUFFICES ASSUME NEW x \in Addr, NEW y \in edges[x]
             PROVE  /\ x \in DOMAIN im2 /\ y \in DOMAIN im2
                    /\ AtEnd(nm2, im2, x) /\ AtHead(im2, y)
  BY DEF Joined
<1>3. x \in DOMAIN im /\ y \in DOMAIN im /\ AtEnd(nm, im, x) /\ AtHead(im, y)
  BY DEF Joined
<1>4. y # x /\ y \in c[x].succ
  BY DEF Led
<1>5. x # f
  <2> SUFFICES ASSUME x = f PROVE FALSE
    OBVIOUS
  <2>1. y = t
    BY <1>2, <1>4 DEF Falls
  <2> QED
    BY <2>1, <1>3
<1> QED
  BY <1>1, <1>2, <1>3, <1>5

LEMMA NormalSound ==
  ASSUME NEW g, NEW c, Sound(g, c), StraightBlocks(g.nodeMap, c), Falls(c),
         NEW f \in Addr, NEW t \in Addr, t # f, t \in c[f].succ, ~ isEndIns(c[f].kind),
         NEW r, r = addNormalLink(g, f, t)
  PROVE  /\ Sound(r, c) /\ StraightBlocks(r.nodeMap, c)
         /\ Entered(g.toEdges, c) => Entered(r.toEdges, c)
<1> DEFINE h     == ensureNode(g, f)
           nm    == h.nodeMap
           im    == h.instructionToNodeMap
           n     == im[f].vmNode
           k     == im[f].index
           nodes == [nm EXCEPT ![n] = Append(@, t)]
           ins   == Put(im, t, [vmNode |-> n, index |-> k + 1])
           wrong == k + 1 # im[t].index
           again == [h EXCEPT !.thrown = wrong]
           edges == g.fromEdges
           back  == g.toEdges
           s     == splitBlock(h, im[t].vmNode, t)
<1>1. r = IF t \notin DOMAIN im THEN Refiled(h, nodes, ins)
          ELSE IF n = im[t].vmNode THEN again
          ELSE IF im[t].index = 1 THEN h
          ELSE linkEdge(s, f, t)
  BY DEF addNormalLink, Refiled
<1>2. /\ Good(g) /\ Blocks(g, edges) /\ Led(edges, c)
      /\ back \in [Addr -> SUBSET Addr] /\ edges = [a \in Addr |-> edges[a]]
  BY DEF Sound, Good, Mirrored
<1>3. Good(h) /\ Good(r)
  BY <1>2, CreateGood, NormalGood
<1>b. back = g.toEdges
  OBVIOUS
<1> HIDE DEF edges, back
<1>4. /\ Blocks(h, edges) /\ StraightBlocks(h.nodeMap, c)
      /\ f \in DOMAIN h.instructionToNodeMap
      /\ h.fromEdges = edges /\ h.toEdges = back
  BY <1>2, EnsureBlocks DEF edges, back
<1> HIDE DEF h
<1>5. /\ Record(h) /\ Filed(nm, im) /\ Joined(nm, im, edges) /\ StraightBlocks(nm, c)
      /\ f \in DOMAIN im
  BY <1>4 DEF Blocks
<1>6. Sound(h, c)
  BY <1>2, <1>3, <1>4 DEF Sound
<1>7. n \in DOMAIN nm /\ k \in Nat
  BY <1>5, IndexedAt
<1>8. CASE t \notin DOMAIN im
  <2>1. r = Refiled(h, nodes, ins)
    BY <1>1, <1>8
  <2> HIDE DEF nm, im
  <2>2. AtEnd(nm, im, f)
    BY <1>5, <1>8, NextIs
  <2>3. Len(nm[n]) = k /\ nm[n][k] = f
    BY <1>5, <2>2, IndexedAt DEF AtEnd
  <2>4. Grown(nm, im, nodes, ins, n, k, t)
    BY <1>5, <1>7, <1>8, <2>3, AppendGrows
  <2> HIDE DEF nodes, ins
  <2>n. PICK n0 \in DOMAIN nm : n0 = n
    BY <1>7
  <2>k. PICK k0 \in Nat : k0 = k
    BY <1>7
  <2>5. /\ Grown(nm, im, nodes, ins, n0, k0, t) /\ Len(nm[n0]) = k0 /\ nm[n0][k0] = f
        /\ n0 = im[f].vmNode /\ k0 = im[f].index
    BY <2>3, <2>4, <2>n, <2>k
  <2> HIDE DEF n, k
  <2>6. Filed(nodes, ins)
    BY <1>5, <1>8, <2>5, GrownFiled
  <2>7. StraightBlocks(nodes, c)
    BY <1>5, <2>5, GrownStraight
  <2>8. Joined(nodes, ins, edges)
    BY <1>2, <1>5, <1>8, <2>2, <2>5, GrownJoined
  <2>9. /\ Record(r) /\ r.nodeMap = nodes /\ r.instructionToNodeMap = ins
        /\ r.fromEdges = edges /\ r.toEdges = back
    BY <2>1, <1>4, <1>5, RefileFields
  <2>10. Blocks(r, r.fromEdges)
    BY <2>6, <2>8, <2>9 DEF Blocks
  <2> QED
    BY <1>2, <1>3, <1>b, <2>7, <2>9, <2>10 DEF Sound
<1>9. CASE t \in DOMAIN im /\ n = im[t].vmNode
  <2>1. r = again
    BY <1>1, <1>9
  <2> HIDE DEF wrong
  <2>2. /\ Record(r) /\ r.nodeMap = h.nodeMap
        /\ r.instructionToNodeMap = h.instructionToNodeMap
        /\ r.fromEdges = h.fromEdges /\ r.toEdges = h.toEdges
    BY <2>1, <1>5, ThrownFields
  <2>3. Blocks(r, r.fromEdges)
    BY <2>2, <1>4 DEF Blocks
  <2> QED
    BY <1>2, <1>3, <1>4, <1>b, <2>2, <2>3 DEF Sound
<1>10. CASE t \in DOMAIN im /\ n # im[t].vmNode /\ im[t].index = 1
  BY <1>1, <1>4, <1>6, <1>10, <1>b
<1>11. CASE t \in DOMAIN im /\ n # im[t].vmNode /\ im[t].index # 1
  <2>1. r = linkEdge(s, f, t)
    BY <1>1, <1>11
  <2>2. AtEnd(nm, im, f)
    <3> HIDE DEF nm, im
    <3> QED
      BY <1>5, <1>11, NextIs
  <2>3. ~ IsHead(h, t)
    BY <1>11 DEF IsHead
  <2>4. Good(s)
    BY <1>3, SplitGood
  <2>5. /\ Blocks(s, edges) /\ StraightBlocks(s.nodeMap, c)
        /\ Kept(h.nodeMap, h.instructionToNodeMap, s.nodeMap, s.instructionToNodeMap)
        /\ AtHead(s.instructionToNodeMap, t)
        /\ \E p \in Addr \cap DOMAIN s.instructionToNodeMap :
             /\ p # t /\ t \in c[p].succ
             /\ h.instructionToNodeMap[p].vmNode = h.instructionToNodeMap[t].vmNode
             /\ AtEnd(s.nodeMap, s.instructionToNodeMap, p)
             /\ s.fromEdges = Added(h.fromEdges, p, t)
             /\ s.toEdges = Added(h.toEdges, t, p)
    BY <1>4, <1>11, <2>3, SplitBlocks
  <2> HIDE DEF s
  <2>6. /\ f \in DOMAIN s.instructionToNodeMap /\ t \in DOMAIN s.instructionToNodeMap
        /\ IsTail(s, f) /\ IsHead(s, t)
    <3>1. f \in DOMAIN s.instructionToNodeMap /\ t \in DOMAIN s.instructionToNodeMap
      BY <2>5, <1>4, <1>11 DEF Kept
    <3>2. AtEnd(s.nodeMap, s.instructionToNodeMap, f)
      BY <2>2, <2>5, <1>4 DEF Kept
    <3> QED
      BY <3>1, <3>2, <2>5 DEF IsTail, AtEnd, IsHead, AtHead
  <2>p. PICK p \in Addr \cap DOMAIN s.instructionToNodeMap :
             /\ p # t /\ t \in c[p].succ /\ p # f
             /\ AtEnd(s.nodeMap, s.instructionToNodeMap, p)
             /\ s.fromEdges = Added(h.fromEdges, p, t)
             /\ s.toEdges = Added(h.toEdges, t, p)
    BY <2>5, <1>11
  <2>7. Sound(s, c)
    <3>2. IsTail(s, p)
      BY <2>p DEF IsTail, AtEnd
    <3> QED
      BY <1>2, <1>4, <2>4, <2>5, <2>6, <2>p, <3>2, AddedSound
  <2>8. /\ Good(s) /\ Blocks(s, s.fromEdges) /\ Led(s.fromEdges, c)
        /\ s.toEdges \in [Addr -> SUBSET Addr]
        /\ s.fromEdges = [a \in Addr |-> s.fromEdges[a]]
    BY <2>7 DEF Sound, Good, Mirrored
  <2>9. /\ Record(r) /\ r.nodeMap = s.nodeMap
        /\ r.instructionToNodeMap = s.instructionToNodeMap
        /\ r.fromEdges = Added(s.fromEdges, f, t)
        /\ r.toEdges = Added(s.toEdges, t, f)
    BY <2>1, <2>8, LinkFields DEF Good
  <2>10. Blocks(r, s.fromEdges)
    BY <2>8, <2>9 DEF Blocks
  <2>11. /\ IsTail(r, f) /\ IsHead(r, t)
         /\ f \in DOMAIN r.instructionToNodeMap /\ t \in DOMAIN r.instructionToNodeMap
    BY <2>6, <2>9 DEF IsTail, IsHead
  <2>12. Sound(r, c)
    BY <1>3, <2>8, <2>9, <2>10, <2>11, AddedSound
  <2>13. Entered(back, c) => Entered(r.toEdges, c)
    BY <2>p, <2>9, <1>2, <1>4, AddedEntered
  <2> QED
    BY <2>5, <2>9, <2>12, <2>13, <1>b
<1> QED
  BY <1>8, <1>9, <1>10, <1>11

=============================================================================
