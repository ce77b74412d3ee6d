------------------------ MODULE MCVmpTraceFlowGraph ------------------------
(***************************************************************************)
(* Small programs for VmpTraceFlowGraph: three to five instructions laid   *)
(* out at consecutive addresses, of the kinds in Mix, jumping to Targets.  *)
(* A jcc goes both ways, and traced one way it is a jmp.                   *)
(***************************************************************************)
EXTENDS VmpTraceFlowGraph

CONSTANTS Mix, Targets

To(a) == {a} \cap Addr

\* The instructions that may stand at a: a fall-through ends at the last
\* address, where the emulator runs out of code.
At(a, k) ==
  CASE k \in {"normal", "addreg", "undecodable"} -> {To(a + 1)}
    [] k = "rep"                     -> {To(a) \cup To(a + 1)}
    [] k \in {"jmp", "jmpreg", "call", "ret"} -> {{t} : t \in Targets}
    [] k \in {"jcc", "loop"}         -> {{t} \cup To(a + 1) : t \in Targets}

Choices(a) == UNION {[kind : {k}, succ : At(a, k)] : k \in Mix}

Programs3 == {<<x, y, z>> : x \in Choices(1), y \in Choices(2), z \in Choices(3)}
Programs4 == {<<p[1], p[2], p[3], x>> : p \in Programs3, x \in Choices(4)}
\* At the last address the code ends or jumps back.
LastChoices == {c \in Choices(4) : c.kind \in {"normal", "jcc", "jmpreg"}}
Programs4Ends == {<<p[1], p[2], p[3], x>> : p \in Programs3, x \in LastChoices}
Programs5 == {<<p[1], p[2], p[3], p[4], x>> : p \in Programs4, x \in Choices(5)}

=============================================================================
