------------------------- MODULE MCVmpBlockBuilder -------------------------
(***************************************************************************)
(* Programs for VmpBlockBuilder: a prologue of four instructions (push key, *)
(* call, push, and the jump into the virtual machine) and three handlers.   *)
(***************************************************************************)
EXTENDS VmpBlockBuilder

Ins(kind, succ) == [kind |-> kind, succ |-> succ]
Does(op, role) == [op |-> op, role |-> role]

Prologue(c, d) == <<Ins("normal", {2}), Ins("call", {3}), c, d>>
Falls == Ins("normal", {4})
Jumps == Ins("jmp", {4})
Dispatch == Ins("jmpreg", {5, 6})
Back == Ins("jmpreg", {5})

\* A machine with bytes capstone rejects, one whose last handler runs on behind
\* a branch, one with a rep at the end of a handler, one with a handler that is
\* dispatched to, branched to and run into from the handler before it.
MCPrograms == {
  Prologue(Falls, Dispatch) \o <<Ins("jmpreg", {6}), Ins("undecodable", {7}), Back>>,
  Prologue(Jumps, Ins("jmpreg", {5})) \o <<Ins("jcc", {3, 6}), Ins("normal", {7}), Back>>,
  Prologue(Falls, Ins("jmpreg", {5})) \o <<Ins("rep", {5, 6}), Ins("normal", {7}), Back>>,
  Prologue(Jumps, Ins("jmpreg", {6})) \o <<Ins("jcc", {6, 7}), Ins("jmpreg", {4, 5}), Ins("ret", {5})>>}

MCHandlers ==
  {<<Does("pushkey", "A"), Does("none", "A"), Does("none", "A"), Does("push", "A"),
     Does("popreg", "A"), z[1], z[2]>> :
     z \in {<<Does("stackop", "A"), Does("exit", "A")>>,
            <<Does("popreg", "B"), Does("jmp", "A")>>,
            <<Does("jmpconst", "A"), Does("jmp", "A")>>,
            <<Does("none", "A"), Does("exit", "A")>>}}

MCSeeds == {<<1>>}
MCVmStart == [a \in Entries |-> 100]

=============================================================================
