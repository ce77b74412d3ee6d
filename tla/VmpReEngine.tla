---------------------------- MODULE VmpReEngine ----------------------------
(***************************************************************************)
(* The engine behind the plugin's menu (VmpCore/VmpReEngine.cpp, with      *)
(* FollowVmp and CreateGraph of GhidraExtension/VmpFunction.cpp): a cache  *)
(* of functions, graph windows that hold pointers into it, the "vmp entry" *)
(* comments the functions were built under, and the handler patterns that  *)
(* outlive the process in a .vmrule file.                                  *)
(*                                                                         *)
(* Everything runs on IDA's main thread, so a menu action is interrupted   *)
(* by nothing but the end of the process.  What BuildCFG makes of an       *)
(* address, and whether it throws, is a choice.                            *)
(***************************************************************************)
EXTENDS Naturals, Sequences, FiniteSets

CONSTANTS
  Address,     \* the addresses the user may click on
  Pointers,    \* where a VmpFunction may be allocated
  Patterns,    \* the handlers that may be learned
  CacheLimit,  \* makeFunction's 10
  None

ASSUME LimitAssumption == CacheLimit \in Nat \ {0}

VARIABLES
  engine,            \* is the singleton constructed?
  isVmpEntry,        \* the addresses with a "vmp entry" comment
  funcCache,         \* list of functions, the oldest first
  graphs,            \* the open graph windows: the function each points to
  handlerPatternMap,
  vmrule,            \* the file: [state, patterns]
  unread,            \* what it holds although it could not be read
  pc, current,       \* where PrintGraph is, and at which address
  mostGraphs         \* how many windows were ever open at once

cacheVars == <<funcCache, graphs, mostGraphs>>
fileVars == <<handlerPatternMap, vmrule, unread>>
callVars == <<pc, current>>
vars == <<engine, isVmpEntry, cacheVars, fileVars, callVars>>

\* blocks: does blocksMap hold any; under: the comments BuildCFG saw.
Function(ptr, a) == [ptr |-> ptr, startAddr |-> a, blocks |-> FALSE, under |-> {}]

Cached == {funcCache[i].startAddr : i \in DOMAIN funcCache}
IndexOf(a) == CHOOSE i \in DOMAIN funcCache : funcCache[i].startAddr = a
Erase(list, i) ==
  [j \in 1..(Len(list) - 1) |-> IF j < i THEN list[j] ELSE list[j + 1]]

Without(windows, closed) == [a \in DOMAIN windows \ closed |-> windows[a]]

\* What FollowVmp leaves in the function of the current call.
Followed(blocks) ==
  [funcCache EXCEPT ![IndexOf(current)].blocks = blocks,
                    ![IndexOf(current)].under = isVmpEntry]

Init ==
  /\ engine = "down" /\ isVmpEntry = {}
  /\ funcCache = <<>> /\ graphs = <<>> /\ mostGraphs = 0
  /\ handlerPatternMap = {}
  /\ vmrule = [state |-> "absent", patterns |-> {}] /\ unread = {}
  /\ pc = "idle" /\ current = None

Idle == engine = "up" /\ pc = "idle"

----------------------------------------------------------------------------
(* The constructor and the end of the engine.                              *)

\* Mutant: nothing is loaded.
LoadNothing == {}

\* What LoadHandlerPattern reads before it ends or throws.
LoadHandlerPattern == vmrule.patterns

\* The file after SaveHandlerPattern, and if the process dies half way.
Saves(map) == {[state |-> "whole", patterns |-> map]}
Tears(map) == {[state |-> "torn", patterns |-> written] : written \in SUBSET map}

\* The first menu action: VmpReEngine::Instance().  A file that cannot be
\* opened, torn or not, is taken for one that is not there.
ConstructEngine ==
  /\ engine = "down"
  /\ engine' = "up"
  /\ \/ /\ vmrule.state # "torn"
        /\ handlerPatternMap' = LoadHandlerPattern /\ unread' = {}
     \/ handlerPatternMap' = {} /\ unread' = vmrule.patterns
  /\ UNCHANGED <<isVmpEntry, cacheVars, vmrule, callVars>>

\* The constructor throws, on a torn file or because the decompiler does not
\* start, before anything is loaded.  If the exception unwinds,
\* ~Vmp3xHandlerFactory saves what the map holds; the next action tries again.
InstanceThrows ==
  /\ engine = "down"
  /\ \E loaded \in {{}} \cup (IF vmrule.state = "torn" THEN {LoadHandlerPattern}
                                                       ELSE {}) :
       vmrule' \in Saves(loaded) \cup Tears(loaded)
  /\ UNCHANGED <<engine, isVmpEntry, cacheVars, handlerPatternMap, unread, callVars>>

\* The static object is destroyed: SaveHandlerPattern runs.
Unload ==
  /\ Idle
  /\ pc' = "exit"
  /\ UNCHANGED <<engine, isVmpEntry, cacheVars, fileVars, current>>

ProcessGone ==
  /\ engine' = "down" /\ pc' = "idle" /\ current' = None
  /\ funcCache' = <<>> /\ graphs' = <<>> /\ mostGraphs' = 0
  /\ handlerPatternMap' = {} /\ unread' = {}

\* IDA dies, in the middle of anything; a file being written stays torn.
\* Comments that were not saved with the database are lost.
Crash ==
  /\ engine = "up"
  /\ ProcessGone
  /\ isVmpEntry' \in SUBSET isVmpEntry
  /\ \/ UNCHANGED vmrule
     \/ pc \in {"save", "exit"} /\ vmrule' \in Tears(handlerPatternMap)

----------------------------------------------------------------------------
(* PrintGraph: makeFunction, FollowVmp, CreateGraph, SaveHandlerPattern.   *)

\* Mutants: windows are not looked at; nothing is ever dropped.
EvictableAny == DOMAIN funcCache
EvictableNever == {}

Evictable == {i \in DOMAIN funcCache : funcCache[i].startAddr \notin DOMAIN graphs}
Oldest(indices) == {i \in indices : \A j \in indices : i <= j}

\* What is left at the limit, when the oldest function without a window has
\* been dropped; if all have one, the cache grows.
Kept ==
  IF Len(funcCache) >= CacheLimit /\ Evictable # {}
    THEN {Erase(funcCache, i) : i \in Oldest(Evictable)}
    ELSE {funcCache}

\* Mutant: the cache is not searched first.
makeFunctionAnew(a) ==
  \E list \in Kept : \E ptr \in Pointers \ {list[i].ptr : i \in DOMAIN list} :
    funcCache' = Append(list, Function(ptr, a))

makeFunction(a) ==
  \/ /\ a \in Cached
     /\ UNCHANGED funcCache
  \/ /\ a \notin Cached
     /\ \E list \in Kept :
          \E ptr \in Pointers \ {list[i].ptr : i \in DOMAIN list} :
            funcCache' = Append(list, Function(ptr, a))

PrintGraph(a) ==
  /\ Idle
  /\ makeFunction(a)
  /\ pc' = "follow" /\ current' = a
  /\ UNCHANGED <<engine, isVmpEntry, graphs, mostGraphs, fileVars>>

\* A window under the same title is shown again, whatever it points to.
CreateGraph(a) ==
  /\ graphs' = [b \in DOMAIN graphs \cup {a} |->
                  IF b \in DOMAIN graphs THEN graphs[b]
                                         ELSE funcCache[IndexOf(a)].ptr]
  /\ mostGraphs' = IF Cardinality(DOMAIN graphs') > mostGraphs
                     THEN Cardinality(DOMAIN graphs') ELSE mostGraphs

Following == pc = "follow"
HasBlocks == funcCache[IndexOf(current)].blocks

\* Blocks from an earlier call, complete or not, are not built again.
FollowCached ==
  /\ Following /\ HasBlocks
  /\ CreateGraph(current)
  /\ pc' = "save"
  /\ UNCHANGED <<engine, isVmpEntry, funcCache, fileVars, current>>

\* BuildCFG returns, with blocks or, when an entry is not recognised, none.
FollowBuilds ==
  /\ Following /\ ~ HasBlocks
  /\ \E learned \in SUBSET Patterns : handlerPatternMap' = handlerPatternMap \cup learned
  /\ \E blocks \in BOOLEAN : funcCache' = Followed(blocks)
  /\ CreateGraph(current)
  /\ pc' = "save"
  /\ UNCHANGED <<engine, isVmpEntry, vmrule, unread, current>>

clearFunction(a) ==
  /\ graphs' = Without(graphs, {a})
  /\ funcCache' = Erase(funcCache, IndexOf(a))
  /\ UNCHANGED mostGraphs

\* BuildCFG throws an Exception: PrintGraph catches it.
FollowThrows ==
  /\ Following /\ ~ HasBlocks
  /\ \E learned \in SUBSET Patterns : handlerPatternMap' = handlerPatternMap \cup learned
  /\ clearFunction(current)
  /\ pc' = "idle" /\ current' = None
  /\ UNCHANGED <<engine, isVmpEntry, vmrule, unread>>

\* BuildCFG throws what is no Exception, as ghidra::LowlevelError: PrintGraph
\* does not catch it, and the function stays as far as it has been built.
FollowThrowsForeign ==
  /\ Following /\ ~ HasBlocks
  /\ \E learned \in SUBSET Patterns : handlerPatternMap' = handlerPatternMap \cup learned
  /\ \E blocks \in BOOLEAN : funcCache' = Followed(blocks)
  /\ pc' = "idle" /\ current' = None
  /\ UNCHANGED <<engine, isVmpEntry, graphs, mostGraphs, vmrule, unread>>

\* The file is written, or could not be opened and is left alone.
SaveHandlerPattern ==
  /\ pc \in {"save", "exit"}
  /\ \E opened \in BOOLEAN :
       /\ IF opened THEN vmrule' \in Saves(handlerPatternMap) ELSE UNCHANGED vmrule
       /\ IF pc = "exit"
            THEN ProcessGone
            ELSE /\ pc' = "idle" /\ current' = None
                 /\ unread' = IF opened THEN {} ELSE unread
                 /\ UNCHANGED <<engine, cacheVars, handlerPatternMap>>
  /\ UNCHANGED isVmpEntry

----------------------------------------------------------------------------
(* The other actions of the user.                                          *)

\* Mutant: functions on display survive.
clearHidden ==
  /\ funcCache' = SelectSeq(funcCache, LAMBDA f : f.startAddr \in DOMAIN graphs)
  /\ UNCHANGED <<graphs, mostGraphs>>

clearAllFunction ==
  /\ graphs' = Without(graphs, Cached)
  /\ funcCache' = <<>>
  /\ UNCHANGED mostGraphs

MarkVmpEntry(a) ==
  /\ Idle
  /\ isVmpEntry' = isVmpEntry \cup {a}
  /\ clearAllFunction
  /\ UNCHANGED <<engine, fileVars, callVars>>

CloseWindow(a) ==
  /\ Idle /\ a \in DOMAIN graphs
  /\ graphs' = Without(graphs, {a})
  /\ UNCHANGED <<engine, isVmpEntry, funcCache, mostGraphs, fileVars, callVars>>

Next ==
  \/ ConstructEngine \/ InstanceThrows \/ Unload \/ Crash
  \/ FollowCached \/ FollowBuilds \/ FollowThrows \/ FollowThrowsForeign
  \/ SaveHandlerPattern
  \/ \E a \in Address : PrintGraph(a) \/ MarkVmpEntry(a) \/ CloseWindow(a)

Spec == Init /\ [][Next]_vars

----------------------------------------------------------------------------
CachedFunctions == [ptr : Pointers, startAddr : Address, blocks : BOOLEAN,
               under : SUBSET Address]

OnePerAddress ==
  \A i, j \in DOMAIN funcCache :
    funcCache[i].startAddr = funcCache[j].startAddr => i = j

TypeOK ==
  /\ engine \in {"up", "down"}
  /\ isVmpEntry \in SUBSET Address
  /\ funcCache \in Seq(CachedFunctions) /\ OnePerAddress
  /\ DOMAIN graphs \subseteq Address
  /\ graphs \in [DOMAIN graphs -> Pointers]
  /\ mostGraphs \in Nat
  /\ handlerPatternMap \in SUBSET Patterns
  /\ vmrule \in [state : {"absent", "torn", "whole"}, patterns : SUBSET Patterns]
  /\ unread \in SUBSET vmrule.patterns
  /\ pc \in {"idle", "follow", "save", "exit"}
  /\ current \in Address \cup {None}

\* A graph window points to the function that is cached under its address:
\* it is never left with a function that was erased, and Decompile, which
\* starts from the window's title, finds the function that is on display.
WindowsBacked ==
  \A a \in DOMAIN graphs :
    \E i \in DOMAIN funcCache :
      funcCache[i].startAddr = a /\ funcCache[i].ptr = graphs[a]

\* Blocks in the cache were built under the comments there are now, so no
\* graph that is shown treats a marked entry as native code.
CacheFresh ==
  \A i \in DOMAIN funcCache :
    funcCache[i].blocks => funcCache[i].under = isVmpEntry

\* The cache outgrows its limit only by what windows have pinned at one time:
\* makeFunction finds nothing to drop only if every cached function is shown.
CacheBounded ==
  Len(funcCache) <= CacheLimit \/ Len(funcCache) <= mostGraphs + 1

\* A running engine forgets no pattern the file holds, whichever builds failed,
\* caches were cleared or saves went wrong before: what it takes from the file
\* is what it failed to open the file for, and that by its first save.  Else
\* patterns are lost only when the process dies in the middle of writing or
\* the engine does not start.
NothingForgotten ==
  [][engine = "up" /\ vmrule'.state # "torn" =>
       vmrule.patterns \ unread \subseteq vmrule'.patterns]_vars

=============================================================================
