---------------------- MODULE MCVmpControlFlowBuilder ----------------------
(***************************************************************************)
(* Binaries of native code alone, and of native code with virtual code of  *)
(* three instructions behind marked entries, one of them without a         *)
(* bytecode address.                                                       *)
(***************************************************************************)
EXTENDS VmpControlFlowBuilder, TLC

CONSTANT Raw

V1 == <<8, 1>>
V2 == <<8, 2>>
V3 == <<9, 0>>
Virtuals == {V1, V2, V3}

MCVmAddress == {<<a, 0>> : a \in 1..5} \cup {<<a, a>> : a \in Raw} \cup Virtuals
MCVmStart == [a \in Raw |-> V1]

\* A normal instruction or a jcc at the last address runs off the code.
Instructions ==
  [kind : {"jmp", "jcc"}, target : Raw] \cup [kind : {"normal", "stop"}, target : {1}]
MCNative == [Raw -> Instructions]

\* The code a virtual exit may return to: its end returns or goes round, and
\* nothing lies behind it.
MCNativeBesideVirtual ==
  {n \in MCNative : /\ n[3] \in {[kind |-> "stop", target |-> 1],
                                [kind |-> "jmp", target |-> 1]}
                    /\ \A a \in Raw \ 1..3 : n[a] = [kind |-> "stop", target |-> 1]}

Op(op, to) == [op |-> op, to |-> to]

\* A loop of virtual code, an exit from it, and code run into from two places.
MCVirtual ==
  {(V1 :> Op("plain", {V2}) @@ V2 :> x[1] @@ V3 :> x[2]) : x \in
     {<<Op("jmp", {V1, V3}), Op("exit", {1})>>,
      <<Op("jmp", {V2, V3}), Op("exit", {3})>>,
      <<Op("jmp", {V3}), Op("jmpconst", {V2})>>,
      <<Op("jmpconst", {V3}), Op("exitcall", {2})>>,
      <<Op("plain", {V3}), Op("jmpconst", {V2})>>,
      <<Op("plain", {V3}), Op("dead", {})>>}}

MCNoVirtual == [v \in Virtuals |-> Op("dead", {})]

MCNativeBinaries == [native : MCNative, virtual : {MCNoVirtual}, marks : {{}}]
MCBinaries ==
  MCNativeBinaries \cup
    [native : MCNativeBesideVirtual, virtual : MCVirtual, marks : {{2}, {3}, {1, 3}}]

=============================================================================
