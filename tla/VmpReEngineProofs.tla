-------------------------- MODULE VmpReEngineProofs --------------------------
(***************************************************************************)
(* Proofs about VmpReEngine: for any number of addresses, patterns and     *)
(* functions, and any limit of the cache, graph windows stay backed by the *)
(* cache, the cache stays fresh and bounded, and no pattern is forgotten.  *)
(***************************************************************************)
EXTENDS VmpReEngine, FiniteSetTheorems, TLAPS

USE LimitAssumption

WindowsCounted ==
  IsFiniteSet(DOMAIN graphs) /\ Cardinality(DOMAIN graphs) <= mostGraphs

\* Only a running engine has a file it could not read.
PatternsKnown ==
  IF engine = "up" THEN vmrule.patterns \ unread \subseteq handlerPatternMap
                   ELSE unread = {}

\* The inductive invariant: what holds of the cache and its windows, and of
\* the rest.
CacheOK ==
  /\ funcCache \in Seq(CachedFunctions) /\ OnePerAddress
  /\ DOMAIN graphs \subseteq Address
  /\ graphs \in [DOMAIN graphs -> Pointers]
  /\ mostGraphs \in Nat
  /\ WindowsBacked /\ CacheFresh /\ WindowsCounted /\ CacheBounded

RestOK ==
  /\ engine \in {"up", "down"}
  /\ isVmpEntry \in SUBSET Address
  /\ handlerPatternMap \in SUBSET Patterns
  /\ vmrule \in [state : {"absent", "torn", "whole"}, patterns : SUBSET Patterns]
  /\ unread \in SUBSET vmrule.patterns
  /\ pc \in {"idle", "follow", "save", "exit"}
  /\ current \in Address \cup {None}
  /\ PatternsKnown
  /\ pc = "follow" => current \in Cached

IInv == CacheOK /\ RestOK

LEMMA InitIInv == Init => IInv
<1> SUFFICES ASSUME Init PROVE IInv
  OBVIOUS
<1>1. funcCache = <<>> /\ DOMAIN funcCache = {} /\ Len(funcCache) = 0
  BY DEF Init
<1>2. DOMAIN graphs = {} /\ graphs \in [DOMAIN graphs -> Pointers]
  BY DEF Init
<1>3. WindowsCounted
  BY <1>2, FS_EmptySet DEF WindowsCounted, Init
<1>4. CacheOK
  BY <1>1, <1>2, <1>3
     DEF CacheOK, Init, OnePerAddress, WindowsBacked, CacheFresh, CacheBounded
<1>5. RestOK
  BY DEF RestOK, Init, PatternsKnown
<1> QED
  BY <1>4, <1>5 DEF IInv

\* Erase drops position i and keeps the others, each once.
LEMMA EraseKeeps ==
  ASSUME NEW S, NEW list \in Seq(S), NEW i \in DOMAIN list
  PROVE  /\ Erase(list, i) \in Seq(S)
         /\ Len(Erase(list, i)) = Len(list) - 1
         /\ DOMAIN Erase(list, i) = 1..(Len(list) - 1)
         /\ \A j \in DOMAIN Erase(list, i) :
              Erase(list, i)[j] = IF j < i THEN list[j] ELSE list[j + 1]
         /\ \A k \in DOMAIN list \ {i} :
              \E j \in DOMAIN Erase(list, i) : Erase(list, i)[j] = list[k]
<1> DEFINE short == Erase(list, i)
<1>1. /\ DOMAIN list = 1..Len(list) /\ Len(list) \in Nat \ {0} /\ i \in 1..Len(list)
      /\ \A k \in 1..Len(list) : list[k] \in S
  OBVIOUS
<1>2. short = [j \in 1..(Len(list) - 1) |-> IF j < i THEN list[j] ELSE list[j + 1]]
  BY DEF Erase
<1>3. short \in Seq(S) /\ Len(short) = Len(list) - 1 /\ DOMAIN short = 1..(Len(list) - 1)
  <2>1. Len(list) - 1 \in Nat
    BY <1>1
  <2>2. \A j \in 1..(Len(list) - 1) : (IF j < i THEN list[j] ELSE list[j + 1]) \in S
    BY <1>1
  <2>3. short \in [1..(Len(list) - 1) -> S]
    BY <1>2, <2>2
  <2> QED
    BY <2>1, <2>3, <1>2
<1>4. \A j \in DOMAIN short : short[j] = IF j < i THEN list[j] ELSE list[j + 1]
  BY <1>2, <1>3
<1>5. ASSUME NEW k \in DOMAIN list \ {i}
      PROVE  \E j \in DOMAIN short : short[j] = list[k]
  <2>1. CASE k < i
    <3>1. k \in DOMAIN short /\ short[k] = list[k]
      BY <1>1, <1>3, <1>4, <2>1
    <3> QED
      BY <3>1
  <2>2. CASE k > i
    <3>1. k - 1 \in DOMAIN short /\ ~ (k - 1 < i) /\ (k - 1) + 1 = k
      BY <1>1, <1>3, <2>2
    <3>2. short[k - 1] = list[k]
      BY <1>4, <3>1
    <3> QED
      BY <3>1, <3>2
  <2> QED
    BY <1>1, <2>1, <2>2
<1> QED
  BY <1>3, <1>4, <1>5

\* Erasing a function keeps the others unique and as fresh as they were.
LEMMA EraseCache ==
  ASSUME CacheOK, NEW i \in DOMAIN funcCache, NEW list, list = Erase(funcCache, i)
  PROVE  /\ list \in Seq(CachedFunctions)
         /\ Len(list) = Len(funcCache) - 1
         /\ \A j \in DOMAIN list : \E k \in DOMAIN funcCache \ {i} : list[j] = funcCache[k]
         /\ \A k \in DOMAIN funcCache \ {i} : \E j \in DOMAIN list : list[j] = funcCache[k]
         /\ \A j, k \in DOMAIN list : list[j].startAddr = list[k].startAddr => j = k
<1> DEFINE at(j) == IF j < i THEN j ELSE j + 1
<1>1. /\ funcCache \in Seq(CachedFunctions) /\ DOMAIN funcCache = 1..Len(funcCache)
      /\ Len(funcCache) \in Nat
  BY DEF CacheOK
<1>2. /\ list \in Seq(CachedFunctions)
      /\ Len(list) = Len(funcCache) - 1
      /\ DOMAIN list = 1..(Len(funcCache) - 1)
      /\ \A j \in DOMAIN list :
           list[j] = IF j < i THEN funcCache[j] ELSE funcCache[j + 1]
      /\ \A k \in DOMAIN funcCache \ {i} : \E j \in DOMAIN list : list[j] = funcCache[k]
  BY <1>1, EraseKeeps
<1>3. \A j \in DOMAIN list : at(j) \in DOMAIN funcCache \ {i} /\ list[j] = funcCache[at(j)]
  BY <1>1, <1>2
<1>4. \A j, k \in DOMAIN list : at(j) = at(k) => j = k
  BY <1>1, <1>2
<1>5. ASSUME NEW j \in DOMAIN list, NEW k \in DOMAIN list,
             list[j].startAddr = list[k].startAddr
      PROVE  j = k
  <2>1. at(j) = at(k)
    BY <1>3, <1>5 DEF CacheOK, OnePerAddress
  <2> QED
    BY <1>4, <2>1
<1>6. \A j \in DOMAIN list : \E k \in DOMAIN funcCache \ {i} : list[j] = funcCache[k]
  BY <1>3
<1> QED
  BY <1>2, <1>5, <1>6

LEMMA IndexOfCached ==
  ASSUME NEW a \in Cached
  PROVE  IndexOf(a) \in DOMAIN funcCache /\ funcCache[IndexOf(a)].startAddr = a
BY DEF Cached, IndexOf

LEMMA CachedAddress ==
  ASSUME CacheOK, NEW a \in Cached
  PROVE  a \in Address
<1>1. PICK i \in DOMAIN funcCache : a = funcCache[i].startAddr
  BY DEF Cached
<1>2. funcCache[i] \in CachedFunctions
  <2>1. funcCache \in Seq(CachedFunctions)
    BY DEF CacheOK
  <2> QED
    BY <2>1
<1> QED
  BY <1>1, <1>2 DEF CachedFunctions

\* The cache at its limit has more windows than it has functions to show.
LEMMA AllShown ==
  ASSUME CacheOK, Evictable = {}
  PROVE  Len(funcCache) <= mostGraphs
<1> DEFINE f == [i \in 1..Len(funcCache) |-> funcCache[i].startAddr]
           n == Len(funcCache)
<1>1. n \in Nat /\ DOMAIN funcCache = 1..n
  BY DEF CacheOK
<1>2. \A i \in 1..n : funcCache[i].startAddr \in DOMAIN graphs
  BY <1>1 DEF Evictable
<1>3. f \in Injection(1..n, DOMAIN graphs)
  <2>1. f \in [1..n -> DOMAIN graphs]
    BY <1>2
  <2>2. \A i, j \in 1..n : f[i] = f[j] => i = j
    BY <1>1 DEF CacheOK, OnePerAddress
  <2> QED
    BY <2>1, <2>2 DEF Injection, IsInjective
<1>4. IsFiniteSet(DOMAIN graphs) /\ Cardinality(DOMAIN graphs) <= mostGraphs
  BY DEF CacheOK, WindowsCounted
<1>5. Cardinality(1..n) <= Cardinality(DOMAIN graphs)
  BY <1>3, <1>4, FS_Injection
<1>6. Cardinality(1..n) = n
  <2>1. \A m \in Nat : Cardinality(1..m) = IF 1 > m THEN 0 ELSE m - 1 + 1
    BY FS_Interval
  <2> QED
    BY <1>1, <2>1
<1>7. Cardinality(DOMAIN graphs) \in Nat /\ mostGraphs \in Nat
  BY <1>4, FS_CardinalityType DEF CacheOK
<1> QED
  BY <1>1, <1>4, <1>5, <1>6, <1>7

\* Closing windows, one or all, keeps what is left of them.
LEMMA WithoutKeeps ==
  ASSUME CacheOK, NEW closed
  PROVE  LET left == Without(graphs, closed) IN
         /\ DOMAIN left = DOMAIN graphs \ closed
         /\ left \in [DOMAIN left -> Pointers]
         /\ \A a \in DOMAIN left : left[a] = graphs[a]
         /\ IsFiniteSet(DOMAIN left) /\ Cardinality(DOMAIN left) <= mostGraphs
<1> DEFINE left == Without(graphs, closed)
<1>1. /\ DOMAIN left = DOMAIN graphs \ closed
      /\ left \in [DOMAIN left -> Pointers]
      /\ \A a \in DOMAIN left : left[a] = graphs[a]
  BY DEF Without, CacheOK
<1> HIDE DEF left
<1>2. IsFiniteSet(DOMAIN graphs) /\ Cardinality(DOMAIN graphs) <= mostGraphs
      /\ mostGraphs \in Nat
  BY DEF CacheOK, WindowsCounted
<1>3. /\ IsFiniteSet(DOMAIN left)
      /\ Cardinality(DOMAIN left) <= Cardinality(DOMAIN graphs)
  BY <1>1, <1>2, FS_Subset
<1>4. Cardinality(DOMAIN left) \in Nat /\ Cardinality(DOMAIN graphs) \in Nat
  BY <1>2, <1>3, FS_CardinalityType
<1> QED
  BY <1>1, <1>2, <1>3, <1>4 DEF left

\* An empty cache without windows is in order.
LEMMA EmptyCache ==
  ASSUME funcCache' = <<>>, DOMAIN graphs' = {}, graphs' \in [{} -> Pointers],
         mostGraphs' \in Nat
  PROVE  CacheOK'
<1>1. DOMAIN funcCache' = {} /\ Len(funcCache') = 0
  OBVIOUS
<1>2. WindowsCounted'
  BY FS_EmptySet DEF WindowsCounted
<1>3. OnePerAddress' /\ WindowsBacked' /\ CacheFresh'
  BY <1>1 DEF OnePerAddress, WindowsBacked, CacheFresh
<1>4. CacheBounded'
  <2>1. 0 <= CacheLimit
    OBVIOUS
  <2> QED
    BY <1>1, <2>1 DEF CacheBounded
<1>5. funcCache' \in Seq(CachedFunctions)
  OBVIOUS
<1>6. DOMAIN graphs' \subseteq Address
  OBVIOUS
<1>7. graphs' \in [DOMAIN graphs' -> Pointers]
  BY Zenon
<1> QED
  BY <1>2, <1>3, <1>4, <1>5, <1>6, <1>7 DEF CacheOK

LEMMA GoneCache ==
  ASSUME ProcessGone
  PROVE  CacheOK'
<1>1. DOMAIN graphs' = {} /\ graphs' \in [{} -> Pointers]
  BY DEF ProcessGone
<1> QED
  BY <1>1, EmptyCache DEF ProcessGone

\* MarkVmpEntry: every window shows a cached function, so none is left.
LEMMA MarkCache ==
  ASSUME CacheOK, clearAllFunction
  PROVE  CacheOK'
<1>1. DOMAIN graphs \subseteq Cached
  BY DEF CacheOK, WindowsBacked, Cached
<1>2. DOMAIN graphs' = {} /\ graphs' \in [{} -> Pointers]
  BY <1>1, WithoutKeeps DEF clearAllFunction
<1> QED
  BY <1>2, EmptyCache DEF clearAllFunction, CacheOK

\* makeFunction drops no function that is on display.
LEMMA MakeCache ==
  ASSUME CacheOK, NEW a \in Address, makeFunction(a),
         UNCHANGED <<graphs, mostGraphs, isVmpEntry>>
  PROVE  CacheOK' /\ a \in Cached'
<1>1. CASE a \in Cached /\ UNCHANGED funcCache
  BY <1>1 DEF CacheOK, OnePerAddress, WindowsBacked, CacheFresh, CacheBounded,
              WindowsCounted, Cached
<1>2. CASE a \notin Cached
  <2>1. PICK list \in Kept, ptr \in Pointers : funcCache' = Append(list, Function(ptr, a))
    BY <1>2 DEF makeFunction
  <2>2. /\ list \in Seq(CachedFunctions)
        /\ \A j \in DOMAIN list : \E k \in DOMAIN funcCache : list[j] = funcCache[k]
        /\ \A j, k \in DOMAIN list : list[j].startAddr = list[k].startAddr => j = k
        /\ \A k \in DOMAIN funcCache :
             funcCache[k].startAddr \in DOMAIN graphs =>
               \E j \in DOMAIN list : list[j] = funcCache[k]
        /\ Len(list) + 1 <= CacheLimit \/ Len(list) + 1 <= mostGraphs + 1
    <3>1. CASE Len(funcCache) >= CacheLimit /\ Evictable # {}
      <4>1. PICK i \in Evictable : list = Erase(funcCache, i)
        BY <2>1, <3>1 DEF Kept, Oldest
      <4>2. i \in DOMAIN funcCache /\ funcCache[i].startAddr \notin DOMAIN graphs
        BY DEF Evictable
      <4>3. Len(funcCache) \in Nat /\ mostGraphs \in Nat /\ Len(list) = Len(funcCache) - 1
        BY <4>1, <4>2, EraseCache DEF CacheOK
      <4>4. Len(list) + 1 <= CacheLimit \/ Len(list) + 1 <= mostGraphs + 1
        BY <4>3 DEF CacheOK, CacheBounded
      <4>5. \A j \in DOMAIN list : \E k \in DOMAIN funcCache \ {i} : list[j] = funcCache[k]
        BY <4>1, <4>2, EraseCache
      <4>6. \A k \in DOMAIN funcCache \ {i} : \E j \in DOMAIN list : list[j] = funcCache[k]
        BY <4>1, <4>2, EraseCache
      <4>7. \A k \in DOMAIN funcCache :
              funcCache[k].startAddr \in DOMAIN graphs => k \in DOMAIN funcCache \ {i}
        BY <4>2
      <4>8. \A k \in DOMAIN funcCache :
              funcCache[k].startAddr \in DOMAIN graphs =>
                \E j \in DOMAIN list : list[j] = funcCache[k]
        BY <4>6, <4>7, Zenon
      <4>9. \A j \in DOMAIN list : \E k \in DOMAIN funcCache : list[j] = funcCache[k]
        BY <4>5, Zenon
      <4>10. list \in Seq(CachedFunctions)
        BY <4>1, <4>2, EraseCache
      <4>11. \A j, k \in DOMAIN list : list[j].startAddr = list[k].startAddr => j = k
        BY <4>1, <4>2, EraseCache
      <4> QED
        BY <4>4, <4>8, <4>9, <4>10, <4>11
    <3>2. CASE ~ (Len(funcCache) >= CacheLimit /\ Evictable # {})
      <4>1. list = funcCache
        BY <2>1, <3>2 DEF Kept
      <4>2. Len(funcCache) \in Nat /\ mostGraphs \in Nat
        BY DEF CacheOK
      <4>3. Len(list) + 1 <= CacheLimit \/ Len(list) + 1 <= mostGraphs + 1
        BY <3>2, <4>1, <4>2, AllShown
      <4> QED
        BY <4>1, <4>3 DEF CacheOK, OnePerAddress
    <3> QED
      BY <3>1, <3>2
  <2> DEFINE new == Function(ptr, a)
             n == Len(list)
  <2>3. new \in CachedFunctions /\ new.startAddr = a /\ new.blocks = FALSE
    BY DEF Function, CachedFunctions
  <2> HIDE DEF new
  <2>4. /\ funcCache' \in Seq(CachedFunctions)
        /\ n \in Nat /\ Len(funcCache') = n + 1
        /\ DOMAIN funcCache' = 1..(n + 1) /\ DOMAIN list = 1..n
        /\ \A j \in 1..n : funcCache'[j] = list[j]
        /\ funcCache'[n + 1] = new
    BY <2>1, <2>2, <2>3 DEF new
  <2>5. \A j \in 1..n : list[j].startAddr # a
    BY <1>2, <2>2, <2>4 DEF Cached
  <2>6. OnePerAddress'
    BY <2>2, <2>3, <2>4, <2>5 DEF OnePerAddress
  <2>7. WindowsBacked'
    <3> SUFFICES ASSUME NEW b \in DOMAIN graphs
                 PROVE  \E j \in DOMAIN funcCache' :
                          funcCache'[j].startAddr = b /\ funcCache'[j].ptr = graphs[b]
      BY DEF WindowsBacked
    <3>1. PICK k \in DOMAIN funcCache :
            funcCache[k].startAddr = b /\ funcCache[k].ptr = graphs[b]
      BY DEF CacheOK, WindowsBacked
    <3>2. PICK j \in DOMAIN list : list[j] = funcCache[k]
      BY <2>2, <3>1
    <3>3. j \in DOMAIN funcCache' /\ funcCache'[j] = funcCache[k]
      BY <2>4, <3>2
    <3> QED
      BY <3>1, <3>3
  <2>8. CacheFresh'
    <3> SUFFICES ASSUME NEW j \in DOMAIN funcCache', funcCache'[j].blocks
                 PROVE  funcCache'[j].under = isVmpEntry
      BY DEF CacheFresh
    <3>1. j \in 1..n /\ funcCache'[j] = list[j]
      BY <2>3, <2>4
    <3>2. PICK k \in DOMAIN funcCache : list[j] = funcCache[k]
      BY <2>2, <2>4, <3>1
    <3> QED
      BY <3>1, <3>2 DEF CacheOK, CacheFresh
  <2>9. CacheBounded' /\ WindowsCounted'
    BY <2>2, <2>4 DEF CacheBounded, WindowsCounted, CacheOK
  <2>10. a \in Cached'
    BY <2>3, <2>4 DEF Cached
  <2> QED
    BY <2>4, <2>6, <2>7, <2>8, <2>9, <2>10 DEF CacheOK
<1> QED
  BY <1>1, <1>2 DEF makeFunction

\* FollowVmp changes neither where a function is nor its address.
LEMMA FollowedKeeps ==
  ASSUME CacheOK, isVmpEntry \in SUBSET Address, current \in Cached,
         NEW blocks \in BOOLEAN, funcCache' = Followed(blocks)
  PROVE  /\ funcCache' \in Seq(CachedFunctions)
         /\ Len(funcCache') = Len(funcCache) /\ DOMAIN funcCache' = DOMAIN funcCache
         /\ \A i \in DOMAIN funcCache :
              /\ funcCache'[i].startAddr = funcCache[i].startAddr
              /\ funcCache'[i].ptr = funcCache[i].ptr
              /\ \/ funcCache'[i].under = isVmpEntry
                 \/ funcCache'[i] = funcCache[i]
<1> DEFINE n == IndexOf(current)
           f == [[funcCache[n] EXCEPT !.blocks = blocks] EXCEPT !.under = isVmpEntry]
<1>1. n \in DOMAIN funcCache
  BY IndexOfCached
<1>2. /\ funcCache \in Seq(CachedFunctions) /\ DOMAIN funcCache = 1..Len(funcCache)
      /\ funcCache[n] \in CachedFunctions
  BY <1>1 DEF CacheOK
<1> HIDE DEF n
<1>3. /\ f \in CachedFunctions /\ f.startAddr = funcCache[n].startAddr
      /\ f.ptr = funcCache[n].ptr /\ f.under = isVmpEntry
  BY <1>2 DEF CachedFunctions
<1>4. funcCache' = [funcCache EXCEPT ![n] = f]
  BY <1>1, <1>2 DEF Followed, n
<1> HIDE DEF f
<1>5. funcCache' \in Seq(CachedFunctions) /\ Len(funcCache') = Len(funcCache)
      /\ DOMAIN funcCache' = DOMAIN funcCache
  BY <1>1, <1>2, <1>3, <1>4
<1>6. \A i \in DOMAIN funcCache : funcCache'[i] = IF i = n THEN f ELSE funcCache[i]
  BY <1>1, <1>2, <1>4
<1> QED
  BY <1>3, <1>5, <1>6

\* A window under an address shows what is cached under it.
LEMMA CreateKeeps ==
  ASSUME CacheOK, current \in Cached, current \in Address, CreateGraph(current)
  PROVE  /\ DOMAIN graphs' = DOMAIN graphs \cup {current}
         /\ graphs' \in [DOMAIN graphs' -> Pointers]
         /\ \A a \in DOMAIN graphs' :
              \E i \in DOMAIN funcCache :
                funcCache[i].startAddr = a /\ funcCache[i].ptr = graphs'[a]
         /\ mostGraphs' \in Nat /\ mostGraphs <= mostGraphs'
         /\ WindowsCounted'
<1> DEFINE n == IndexOf(current)
<1>1. n \in DOMAIN funcCache /\ funcCache[n].startAddr = current
  BY IndexOfCached
<1>2. funcCache[n].ptr \in Pointers
  <2> HIDE DEF n
  <2>1. funcCache \in Seq(CachedFunctions)
    BY DEF CacheOK
  <2>2. funcCache[n] \in CachedFunctions
    BY <1>1, <2>1
  <2> QED
    BY <2>2 DEF CachedFunctions
<1>3. /\ DOMAIN graphs' = DOMAIN graphs \cup {current}
      /\ \A a \in DOMAIN graphs' :
           graphs'[a] = IF a \in DOMAIN graphs THEN graphs[a] ELSE funcCache[n].ptr
  BY DEF CreateGraph
<1>4. graphs' \in [DOMAIN graphs' -> Pointers]
  <2>1. \A b \in DOMAIN graphs : graphs[b] \in Pointers
    BY DEF CacheOK
  <2> QED
    BY <1>2, <2>1 DEF CreateGraph
<1> HIDE DEF n
<1>5. ASSUME NEW a \in DOMAIN graphs'
      PROVE  \E i \in DOMAIN funcCache :
               funcCache[i].startAddr = a /\ funcCache[i].ptr = graphs'[a]
  <2>1. CASE a \in DOMAIN graphs
    BY <2>1, <1>3 DEF CacheOK, WindowsBacked
  <2>2. CASE a \notin DOMAIN graphs
    BY <2>2, <1>1, <1>3, <1>5
  <2> QED
    BY <2>1, <2>2
<1>6. IsFiniteSet(DOMAIN graphs')
  BY <1>3, FS_AddElement DEF CacheOK, WindowsCounted
<1>7. Cardinality(DOMAIN graphs') \in Nat /\ mostGraphs \in Nat
  BY <1>6, FS_CardinalityType DEF CacheOK
<1>8. mostGraphs' = IF Cardinality(DOMAIN graphs') > mostGraphs
                      THEN Cardinality(DOMAIN graphs') ELSE mostGraphs
  BY DEF CreateGraph
<1>9. mostGraphs' \in Nat /\ mostGraphs <= mostGraphs' /\ WindowsCounted'
  BY <1>6, <1>7, <1>8 DEF WindowsCounted
<1> QED
  BY <1>3, <1>4, <1>5, <1>9

\* PrintGraph of a function that was built before, or has just been built.
LEMMA FollowCache ==
  ASSUME CacheOK, isVmpEntry \in SUBSET Address, current \in Cached,
         current \in Address, UNCHANGED isVmpEntry,
         CreateGraph(current) \/ UNCHANGED <<graphs, mostGraphs>>,
         UNCHANGED funcCache \/ \E blocks \in BOOLEAN : funcCache' = Followed(blocks)
  PROVE  CacheOK'
<1>1. /\ funcCache' \in Seq(CachedFunctions)
      /\ Len(funcCache') = Len(funcCache) /\ DOMAIN funcCache' = DOMAIN funcCache
      /\ \A i \in DOMAIN funcCache :
           /\ funcCache'[i].startAddr = funcCache[i].startAddr
           /\ funcCache'[i].ptr = funcCache[i].ptr
           /\ \/ funcCache'[i].under = isVmpEntry
              \/ funcCache'[i] = funcCache[i]
  <2>1. CASE UNCHANGED funcCache
    BY <2>1 DEF CacheOK
  <2>2. CASE \E blocks \in BOOLEAN : funcCache' = Followed(blocks)
    BY <2>2, FollowedKeeps
  <2> QED
    BY <2>1, <2>2
<1>2. /\ DOMAIN graphs' \subseteq Address
      /\ graphs' \in [DOMAIN graphs' -> Pointers]
      /\ \A a \in DOMAIN graphs' :
           \E i \in DOMAIN funcCache :
             funcCache[i].startAddr = a /\ funcCache[i].ptr = graphs'[a]
      /\ mostGraphs' \in Nat /\ mostGraphs <= mostGraphs'
      /\ WindowsCounted'
  <2>1. CASE CreateGraph(current)
    BY <2>1, CreateKeeps DEF CacheOK
  <2>2. CASE UNCHANGED <<graphs, mostGraphs>>
    BY <2>2 DEF CacheOK, WindowsBacked, WindowsCounted
  <2> QED
    BY <2>1, <2>2
<1>3. OnePerAddress' /\ WindowsBacked'
  BY <1>1, <1>2 DEF CacheOK, OnePerAddress, WindowsBacked
<1>4. CacheFresh'
  BY <1>1 DEF CacheOK, CacheFresh
<1>5. CacheBounded'
  <2>1. Len(funcCache) \in Nat /\ mostGraphs \in Nat
    BY DEF CacheOK
  <2> QED
    BY <1>1, <1>2, <2>1 DEF CacheOK, CacheBounded
<1> QED
  BY <1>1, <1>2, <1>3, <1>4, <1>5 DEF CacheOK

\* The user closes a window.
LEMMA CloseCache ==
  ASSUME CacheOK, NEW a, graphs' = Without(graphs, {a}),
         UNCHANGED <<funcCache, mostGraphs, isVmpEntry>>
  PROVE  CacheOK'
<1>1. /\ DOMAIN graphs' = DOMAIN graphs \ {a}
      /\ graphs' \in [DOMAIN graphs' -> Pointers]
      /\ \A b \in DOMAIN graphs' : graphs'[b] = graphs[b]
      /\ IsFiniteSet(DOMAIN graphs') /\ Cardinality(DOMAIN graphs') <= mostGraphs
  BY WithoutKeeps
<1>2. WindowsBacked'
  <2>1. \A b \in DOMAIN graphs' : b \in DOMAIN graphs /\ graphs'[b] = graphs[b]
    BY <1>1
  <2>2. \A b \in DOMAIN graphs :
          \E i \in DOMAIN funcCache :
            funcCache[i].startAddr = b /\ funcCache[i].ptr = graphs[b]
    BY DEF CacheOK, WindowsBacked
  <2> SUFFICES ASSUME NEW b \in DOMAIN graphs'
               PROVE  \E i \in DOMAIN funcCache :
                        funcCache[i].startAddr = b /\ funcCache[i].ptr = graphs'[b]
    BY DEF WindowsBacked
  <2> QED
    BY <2>1, <2>2
<1>4. WindowsCounted'
  BY <1>1 DEF WindowsCounted
<1>3. OnePerAddress' /\ CacheFresh' /\ CacheBounded'
  BY DEF CacheOK, OnePerAddress, CacheFresh, CacheBounded
<1> QED
  BY <1>1, <1>2, <1>3, <1>4 DEF CacheOK

\* clearFunction takes the window along with the function.
LEMMA ClearCache ==
  ASSUME CacheOK, current \in Cached, clearFunction(current), UNCHANGED isVmpEntry
  PROVE  CacheOK'
<1> DEFINE n == IndexOf(current)
<1>1. n \in DOMAIN funcCache /\ funcCache[n].startAddr = current
  BY IndexOfCached
<1>2. /\ DOMAIN graphs' = DOMAIN graphs \ {current}
      /\ graphs' \in [DOMAIN graphs' -> Pointers]
      /\ \A b \in DOMAIN graphs' : graphs'[b] = graphs[b]
      /\ IsFiniteSet(DOMAIN graphs') /\ Cardinality(DOMAIN graphs') <= mostGraphs
  BY WithoutKeeps DEF clearFunction
<1>3. funcCache' = Erase(funcCache, n)
  BY DEF clearFunction
<1> HIDE DEF n
<1>4. funcCache' \in Seq(CachedFunctions) /\ Len(funcCache') = Len(funcCache) - 1
  BY <1>1, <1>3, EraseCache
<1>5. \A j \in DOMAIN funcCache' :
        \E k \in DOMAIN funcCache \ {n} : funcCache'[j] = funcCache[k]
  BY <1>1, <1>3, EraseCache
<1>6. \A k \in DOMAIN funcCache \ {n} :
        \E j \in DOMAIN funcCache' : funcCache'[j] = funcCache[k]
  BY <1>1, <1>3, EraseCache
<1>7. \A j, k \in DOMAIN funcCache' :
        funcCache'[j].startAddr = funcCache'[k].startAddr => j = k
  BY <1>1, <1>3, EraseCache
<1>8. WindowsBacked'
  <2> SUFFICES ASSUME NEW a \in DOMAIN graphs'
               PROVE  \E j \in DOMAIN funcCache' :
                        funcCache'[j].startAddr = a /\ funcCache'[j].ptr = graphs'[a]
    BY DEF WindowsBacked
  <2>1. PICK k \in DOMAIN funcCache :
          funcCache[k].startAddr = a /\ funcCache[k].ptr = graphs[a]
    BY <1>2 DEF CacheOK, WindowsBacked
  <2>2. k # n
    BY <1>1, <1>2, <2>1
  <2>3. PICK j \in DOMAIN funcCache' : funcCache'[j] = funcCache[k]
    BY <1>6, <2>2
  <2> QED
    BY <1>2, <2>1, <2>3
<1>9. CacheFresh'
  BY <1>5 DEF CacheOK, CacheFresh
<1>10. CacheBounded' /\ WindowsCounted' /\ mostGraphs' \in Nat
  <2>1. Len(funcCache) \in Nat /\ mostGraphs \in Nat /\ mostGraphs' = mostGraphs
    BY DEF CacheOK, clearFunction
  <2> QED
    BY <1>2, <1>4, <2>1 DEF CacheOK, CacheBounded, WindowsCounted
<1>11. DOMAIN graphs' \subseteq Address /\ OnePerAddress'
  BY <1>2, <1>7 DEF CacheOK, OnePerAddress
<1> QED
  BY <1>2, <1>4, <1>8, <1>9, <1>10, <1>11 DEF CacheOK

\* Every step keeps the invariant, one action of the engine after the other.
LEMMA NextIInv == IInv /\ [Next]_vars => IInv'
<1> SUFFICES ASSUME IInv, [Next]_vars PROVE IInv'
  OBVIOUS
<1> USE DEF IInv
<1>1. CASE ConstructEngine
  <2>1. CacheOK' /\ Cached' = Cached
    BY <1>1 DEF ConstructEngine, cacheVars, CacheOK, OnePerAddress, WindowsBacked,
                CacheFresh, WindowsCounted, CacheBounded, Cached
  <2> QED
    BY <1>1, <2>1 DEF ConstructEngine, callVars, RestOK, PatternsKnown, LoadHandlerPattern
<1>2. CASE InstanceThrows
  <2>1. CacheOK' /\ Cached' = Cached
    BY <1>2 DEF InstanceThrows, cacheVars, CacheOK, OnePerAddress, WindowsBacked,
                CacheFresh, WindowsCounted, CacheBounded, Cached
  <2>2. vmrule' \in [state : {"absent", "torn", "whole"}, patterns : SUBSET Patterns]
    BY <1>2 DEF InstanceThrows, Saves, Tears, LoadHandlerPattern, RestOK
  <2>3. PatternsKnown' /\ unread' \in SUBSET vmrule'.patterns
    BY <1>2 DEF InstanceThrows, RestOK, PatternsKnown
  <2> QED
    BY <1>2, <2>1, <2>2, <2>3 DEF InstanceThrows, callVars, RestOK
<1>3. CASE Unload
  <2>1. CacheOK'
    BY <1>3 DEF Unload, cacheVars, CacheOK, OnePerAddress, WindowsBacked,
                CacheFresh, WindowsCounted, CacheBounded
  <2> QED
    BY <1>3, <2>1 DEF Unload, fileVars, RestOK, PatternsKnown
<1>4. CASE Crash
  <2>1. CacheOK'
    BY <1>4, GoneCache DEF Crash
  <2>2. vmrule' \in [state : {"absent", "torn", "whole"}, patterns : SUBSET Patterns]
    BY <1>4 DEF Crash, Tears, RestOK
  <2> QED
    BY <1>4, <2>1, <2>2 DEF Crash, ProcessGone, RestOK, PatternsKnown
<1>5. CASE FollowCached
  <2>1. current \in Cached
    BY <1>5 DEF FollowCached, Following, RestOK
  <2>2. current \in Address
    BY <2>1, CachedAddress
  <2>3. CacheOK'
    BY <1>5, <2>1, <2>2, FollowCache DEF FollowCached, RestOK
  <2> QED
    BY <1>5, <2>3 DEF FollowCached, fileVars, RestOK, PatternsKnown
<1>6. CASE FollowBuilds
  <2>1. current \in Cached
    BY <1>6 DEF FollowBuilds, Following, RestOK
  <2>2. current \in Address
    BY <2>1, CachedAddress
  <2>3. CacheOK'
    BY <1>6, <2>1, <2>2, FollowCache DEF FollowBuilds, RestOK
  <2> QED
    BY <1>6, <2>3 DEF FollowBuilds, RestOK, PatternsKnown
<1>7. CASE FollowThrows
  <2>1. current \in Cached
    BY <1>7 DEF FollowThrows, Following, RestOK
  <2>2. CacheOK'
    BY <1>7, <2>1, ClearCache DEF FollowThrows
  <2> QED
    BY <1>7, <2>2 DEF FollowThrows, RestOK, PatternsKnown
<1>8. CASE FollowThrowsForeign
  <2>1. current \in Cached
    BY <1>8 DEF FollowThrowsForeign, Following, RestOK
  <2>2. current \in Address
    BY <2>1, CachedAddress
  <2>3. CacheOK'
    BY <1>8, <2>1, <2>2, FollowCache DEF FollowThrowsForeign, RestOK
  <2> QED
    BY <1>8, <2>3 DEF FollowThrowsForeign, RestOK, PatternsKnown
<1>9. CASE SaveHandlerPattern
  <2>1. PICK opened \in BOOLEAN :
          /\ IF opened THEN vmrule' \in Saves(handlerPatternMap) ELSE UNCHANGED vmrule
          /\ IF pc = "exit"
               THEN ProcessGone
               ELSE /\ pc' = "idle" /\ current' = None
                    /\ unread' = IF opened THEN {} ELSE unread
                    /\ UNCHANGED <<engine, cacheVars, handlerPatternMap>>
    BY <1>9 DEF SaveHandlerPattern
  <2>2. vmrule' \in [state : {"absent", "torn", "whole"}, patterns : SUBSET Patterns]
        /\ isVmpEntry' = isVmpEntry
    BY <1>9, <2>1 DEF SaveHandlerPattern, Saves, RestOK
  <2>3. CASE pc = "exit"
    <3>1. ProcessGone
      BY <2>1, <2>3
    <3>2. CacheOK'
      BY <3>1, GoneCache
    <3> QED
      BY <2>2, <3>1, <3>2 DEF ProcessGone, RestOK, PatternsKnown
  <2>4. CASE pc # "exit"
    <3>1. pc' = "idle" /\ current' = None /\ UNCHANGED <<engine, cacheVars, handlerPatternMap>>
      BY <2>1, <2>4
    <3>2. CacheOK'
      BY <2>2, <3>1 DEF cacheVars, CacheOK, OnePerAddress, WindowsBacked,
                        CacheFresh, WindowsCounted, CacheBounded
    <3>3. unread' \in SUBSET vmrule'.patterns /\ PatternsKnown'
      BY <2>1, <2>4, <3>1 DEF Saves, RestOK, PatternsKnown
    <3> QED
      BY <2>2, <3>1, <3>2, <3>3 DEF RestOK
  <2> QED
    BY <2>3, <2>4
<1>10. ASSUME NEW a \in Address, PrintGraph(a) PROVE IInv'
  <2>1. CacheOK' /\ a \in Cached'
    BY <1>10, MakeCache DEF PrintGraph
  <2> QED
    BY <1>10, <2>1 DEF PrintGraph, fileVars, RestOK, PatternsKnown
<1>11. ASSUME NEW a \in Address, MarkVmpEntry(a) PROVE IInv'
  <2>1. CacheOK'
    BY <1>11, MarkCache DEF MarkVmpEntry
  <2> QED
    BY <1>11, <2>1 DEF MarkVmpEntry, Idle, fileVars, callVars, RestOK, PatternsKnown
<1>12. ASSUME NEW a \in Address, CloseWindow(a) PROVE IInv'
  <2>1. CacheOK'
    BY <1>12, CloseCache DEF CloseWindow
  <2> QED
    BY <1>12, <2>1 DEF CloseWindow, Idle, fileVars, callVars, RestOK, PatternsKnown
<1>13. CASE UNCHANGED vars
  BY <1>13 DEF vars, cacheVars, fileVars, callVars, CacheOK, OnePerAddress, WindowsBacked,
               CacheFresh, WindowsCounted, CacheBounded, Cached, RestOK, PatternsKnown
<1> QED
  BY <1>1, <1>2, <1>3, <1>4, <1>5, <1>6, <1>7, <1>8, <1>9, <1>10, <1>11, <1>12, <1>13
     DEF Next

LEMMA Invariance == Spec => []IInv
BY InitIInv, NextIInv, PTL DEF Spec

\* Every state of the engine has the types it should, and no address is
\* cached twice (makeFunction searches the cache first).
THEOREM EngineTypeCorrect == Spec => []TypeOK
<1>1. IInv => TypeOK
  BY DEF IInv, CacheOK, RestOK, TypeOK
<1> QED
  BY <1>1, Invariance, PTL

\* However functions are built, evicted, cleared and shown again, a graph
\* window points to the function cached under its address (makeFunction,
\* clearFunction, clearAllFunction, CreateGraph).
THEOREM WindowsBackedCorrect == Spec => []WindowsBacked
<1>1. IInv => WindowsBacked
  BY DEF IInv, CacheOK
<1> QED
  BY <1>1, Invariance, PTL

\* No blocks in the cache were built under other comments than there are now
\* (MarkVmpEntry clears every function).
THEOREM CacheFreshCorrect == Spec => []CacheFresh
<1>1. IInv => CacheFresh
  BY DEF IInv, CacheOK
<1> QED
  BY <1>1, Invariance, PTL

\* Only functions on display push the cache over its limit (makeFunction).
THEOREM CacheBoundedCorrect == Spec => []CacheBounded
<1>1. IInv => CacheBounded
  BY DEF IInv, CacheOK
<1> QED
  BY <1>1, Invariance, PTL

\* Writing the pattern file forgets nothing the file held, unless it could not
\* be opened for reading when the engine came up (LoadHandlerPattern,
\* SaveHandlerPattern).
THEOREM NothingForgottenCorrect == Spec => NothingForgotten
<1>1. ASSUME IInv, Next, engine = "up", vmrule'.state # "torn"
      PROVE  vmrule.patterns \ unread \subseteq vmrule'.patterns
  <2>1. vmrule.patterns \ unread \subseteq handlerPatternMap
    BY <1>1 DEF IInv, RestOK, PatternsKnown
  <2>2. \/ UNCHANGED vmrule
        \/ vmrule' \in Saves(handlerPatternMap) \cup Tears(handlerPatternMap)
    BY <1>1 DEF Next, ConstructEngine, InstanceThrows, Unload, Crash, FollowCached,
         FollowBuilds, FollowThrows, FollowThrowsForeign, SaveHandlerPattern,
         PrintGraph, MarkVmpEntry, CloseWindow, fileVars
  <2> QED
    BY <1>1, <2>1, <2>2 DEF Saves, Tears
<1>2. IInv /\ [Next]_vars =>
        [engine = "up" /\ vmrule'.state # "torn" =>
           vmrule.patterns \ unread \subseteq vmrule'.patterns]_vars
  BY <1>1
<1> QED
  BY <1>2, Invariance, PTL DEF Spec, NothingForgotten

=============================================================================
