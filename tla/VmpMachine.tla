----------------------------- MODULE VmpMachine -----------------------------
(***************************************************************************)
(* What the instructions of the protected program's virtual machine do, as *)
(* a stack of bytes with its top first: the x86 code of the handlers that  *)
(* the comments of GhidraExtension/VmpInstructionBuilder.cpp list.  It     *)
(* knows no stack pointer and no memory below it; VmpInstructionBuilder    *)
(* shows that the p-code VmpHelper emits implements it.                    *)
(*                                                                         *)
(* An operand of one byte takes a slot of two.  Left open, as any value:   *)
(* the second byte of such a slot, what x86 leaves undefined, what the     *)
(* emission marks as still to be done, and OF after a vShl (see            *)
(* ShlOverflow).                                                           *)
(***************************************************************************)
EXTENDS Integers, Sequences, FiniteSets, Bitwise

CONSTANTS
  ByteBits,    \* bits of a byte (8)
  ShiftMask,   \* what x86 keeps of a shift count (0x1F)
  FlagBit,     \* the value of each flag in eflags
  Bottom,      \* the address behind the last byte of the stack
  VmRegs,      \* the registers of the virtual machine
  Regs,        \* those of the program, eflags among them, ESP not
  Imms,        \* constants of the bytecode
  Targets,     \* addresses a branch was found to go to; 0 for none
  Contexts,    \* what a VM_INIT may push, in order
  Exits        \* the registers a VM_EXIT may pop, in order

VARIABLES
  stack,   \* the bytes of the stack, top first
  flags,   \* CF, PF, ZF, SF and OF
  vmRegs,
  regs,
  flow,    \* the calls and branches of the last instruction
  last     \* the last instruction

machine == <<stack, flags, vmRegs, regs, flow, last>>

Flags == {"CF", "PF", "ZF", "SF", "OF"}
Sizes == {1, 2, 4}
Byte == 0..(2^ByteBits - 1)
SlotOf(n) == IF n = 4 THEN 4 ELSE 2

Limit(n) == 2^(ByteBits * n)
Sign(v, n) == v >= Limit(n) \div 2

\* The n bytes of v, and the value of some bytes.
Spread(v, n) == [i \in 1..n |-> (v \div Limit(i - 1)) % Limit(1)]
Value(b) ==
  LET sum[i \in 0..Len(b)] == IF i = 0 THEN 0 ELSE sum[i - 1] + b[i] * Limit(i - 1)
  IN  sum[Len(b)]

Eflags(f) ==
  LET bit(x) == IF f[x] THEN FlagBit[x] ELSE 0
  IN  bit("CF") + bit("PF") + bit("ZF") + bit("SF") + bit("OF")

----------------------------------------------------------------------------
\* The value of n bytes that begin k bytes from the top, and what lies below.
Holds(k) == Len(stack) >= k
Read(k, n) == Value(SubSeq(stack, k + 1, k + n))
Below(k) == SubSeq(stack, k + 1, Len(stack))

\* The first k bytes make way for as many as s has and the slot of v on it.
Replaced(k, top, v, n) ==
  LET filled == Len(top) + SlotOf(n)
  IN  /\ Len(stack') = Len(stack) - k + filled
      /\ stack' \in Seq(Byte)
      /\ SubSeq(stack', 1, Len(top) + n) = top \o Spread(v, n)
      /\ SubSeq(stack', filled + 1, Len(stack')) = Below(k)

\* Any bytes go on top of what lies below k.
Scribbled(k, pushed) ==
  /\ Holds(k)
  /\ Len(stack') = Len(stack) - k + pushed
  /\ stack' \in Seq(Byte)
  /\ SubSeq(stack', pushed + 1, Len(stack')) = Below(k)

Does(op, n, x) == last' = <<op, n, x>>
GoesOn == flow' = <<>>
Quiet == UNCHANGED <<flags, vmRegs, regs>> /\ GoesOn

----------------------------------------------------------------------------
PushImm(n, v) ==
  Does("PushImm", n, v) /\ Replaced(0, <<>>, v % Limit(n), n) /\ Quiet

PushReg(n, r) ==
  Does("PushReg", n, r) /\ Replaced(0, <<>>, vmRegs[r] % Limit(n), n) /\ Quiet

\* The stack pointer as it was.
PushVSP ==
  Does("PushVSP", 4, 0) /\ Replaced(0, <<>>, Bottom - Len(stack), 4) /\ Quiet

\* The upper bytes of the register keep their value.
PopReg(n, r) ==
  /\ Does("PopReg", n, r) /\ Holds(SlotOf(n))
  /\ vmRegs' = [vmRegs EXCEPT ![r] = (@ - (@ % Limit(n))) + Read(0, n)]
  /\ stack' = Below(SlotOf(n))
  /\ UNCHANGED <<flags, regs>> /\ GoesOn

\* Where the byte i of a stack lies, counted from an address.
From(a, s, i) == Bottom - Len(s) + i - 1 - a

\* The stack from an address on; bytes that lay above its top may be anything.
WriteVSP ==
  /\ Does("WriteVSP", 4, 0) /\ Holds(4)
  /\ stack' \in Seq(Byte) /\ Len(stack') = Bottom - Read(0, 4)
  /\ \A i \in 1..Len(stack'), j \in 1..Len(stack) :
       From(0, stack', i) = From(0, stack, j) => stack'[i] = stack[j]
  /\ Quiet

\* What is read comes from the stack where the address is in it.
ReadMem(n) ==
  /\ Does("ReadMem", n, 0) /\ Scribbled(4, SlotOf(n))
  /\ \A j \in 1..Len(stack) :
       LET k == From(Read(0, 4), stack, j)
       IN  k \in 0..(n - 1) => stack'[k + 1] = stack[j]
  /\ Quiet

WriteMem(n) ==
  /\ Does("WriteMem", n, 0) /\ Holds(4 + SlotOf(n))
  /\ LET rest == Below(4 + SlotOf(n))
         k(i) == From(Read(0, 4), rest, i)
     IN  stack' = [i \in 1..Len(rest) |->
                     IF k(i) \in 0..(n - 1) THEN stack[5 + k(i)] ELSE rest[i]]
  /\ Quiet

----------------------------------------------------------------------------
(* Arithmetic: two operands make way for the result and, on top, eflags.   *)

OnesOf(v) == {i \in 0..(ByteBits - 1) : (v \div 2^i) % 2 = 1}

FlagsOf(v, n) ==
  /\ flags' \in [Flags -> BOOLEAN]
  /\ flags'["ZF"] = (v = 0)
  /\ flags'["SF"] = Sign(v, n)
  /\ flags'["PF"] = (Cardinality(OnesOf(v)) % 2 = 0)

Yields(popped, v, n) ==
  /\ Replaced(popped, Spread(Eflags(flags'), 4), v, n)
  /\ regs' = [regs EXCEPT !["eflags"] = Eflags(flags')]
  /\ UNCHANGED vmRegs /\ GoesOn

Operand(i, n) == Read(i * SlotOf(n), n)

Logic(op, n, v) ==
  /\ Does(op, n, 0) /\ Holds(2 * SlotOf(n))
  /\ FlagsOf(v, n) /\ ~flags'["CF"] /\ ~flags'["OF"]
  /\ Yields(2 * SlotOf(n), v, n)

Nand(n) == Logic("Nand", n, Limit(n) - 1 - (Operand(0, n) & Operand(1, n)))
Nor(n) == Logic("Nor", n, Limit(n) - 1 - (Operand(0, n) | Operand(1, n)))

\* OF: the signed sum is not the sum of the signed operands.
Add(n) ==
  LET a == Operand(0, n)
      b == Operand(1, n)
      v == (a + b) % Limit(n)
      signed(x) == IF Sign(x, n) THEN x - Limit(n) ELSE x
  IN  /\ Does("Add", n, 0) /\ Holds(2 * SlotOf(n))
      /\ FlagsOf(v, n)
      /\ flags'["CF"] = (a + b >= Limit(n))
      /\ flags'["OF"] = (signed(a) + signed(b) # signed(v))
      /\ Yields(2 * SlotOf(n), v, n)

\* A shift of the first operand by the byte in the slot behind it, cf the bit
\* it shifts out last and of the sets OF may be in after a shift by one.
Shift(op, n, v(_, _), cf(_, _), of(_)) ==
  LET a == Operand(0, n)
      c == Read(SlotOf(n), 1) & ShiftMask
  IN  /\ Does(op, n, 0) /\ Holds(SlotOf(n) + 2)
      /\ IF c = 0 THEN flags' = flags
         ELSE /\ FlagsOf(v(a, c), n)
              /\ c < ByteBits * n => flags'["CF"] = cf(a, c)
              /\ c = 1 => flags'["OF"] \in of(a)
      /\ Yields(SlotOf(n) + 2, v(a, c), n)

Shr(n) ==
  Shift("Shr", n, LAMBDA a, c : a \div 2^c,
                  LAMBDA a, c : (a \div 2^(c - 1)) % 2 = 1,
                  LAMBDA a : {Sign(a, n)})

Shl(n) ==
  Shift("Shl", n, LAMBDA a, c : (a * 2^c) % Limit(n),
                  LAMBDA a, c : (a * 2^c) % (2 * Limit(n)) >= Limit(n),
                  LAMBDA a : BOOLEAN)

----------------------------------------------------------------------------
(* Instructions whose result is still to be emitted: what they take and    *)
(* leave on the stack.                                                     *)

Taken == [Popfd |-> 4, Cpuid |-> 4, Rdtsc |-> 0, Shld |-> 10, Shrd |-> 10,
          Div |-> 12, Mul |-> 8]
Left == [Popfd |-> 0, Cpuid |-> 16, Rdtsc |-> 8, Shld |-> 8, Shrd |-> 8,
         Div |-> 12, Mul |-> 12]

Unfinished(op) ==
  /\ Does(op, 4, 0) /\ Scribbled(Taken[op], Left[op])
  /\ flags' \in [Flags -> BOOLEAN]
  /\ UNCHANGED <<vmRegs, regs>> /\ GoesOn

----------------------------------------------------------------------------
(* Control flow.  A branch is emitted only where its target is known.      *)

Branch(t) == IF t = 0 THEN <<>> ELSE <<[kind |-> "branch", to |-> t]>>

Jmp(t) ==
  /\ Does("Jmp", 4, t) /\ Holds(4)
  /\ stack' = Below(4)
  /\ flow' = IF t = 0 THEN <<[kind |-> "eip", to |-> Read(0, 4)]>> ELSE Branch(t)
  /\ UNCHANGED <<flags, vmRegs, regs>>

Goes(op, t) ==
  /\ Does(op, 4, t) /\ flow' = Branch(t)
  /\ UNCHANGED <<stack, flags, vmRegs, regs>>

\* The return address on the stack makes way for the call.
ExitCall(c, t) ==
  /\ Does("ExitCall", 4, <<c, t>>) /\ Holds(4)
  /\ stack' = Below(4)
  /\ flow' = <<[kind |-> "call", to |-> c]>> \o Branch(t)
  /\ UNCHANGED <<flags, vmRegs, regs>>

\* Everything in the context is pushed, its last entry ends on top.
Init(c) ==
  LET value(e) == IF e.space = "const" THEN e.value ELSE regs[e.value]
      pushed[i \in 0..Len(c)] ==
        IF i = 0 THEN stack ELSE Spread(value(c[i]), 4) \o pushed[i - 1]
  IN  Does("Init", 4, c) /\ stack' = pushed[Len(c)] /\ Quiet

\* The registers are popped in order; the one ESP names is the stack itself.
Exit(e, t) ==
  LET popped == SelectSeq(e, LAMBDA r : r # "ESP")
      at(r) == CHOOSE i \in 1..Len(popped) : popped[i] = r
      taken == {popped[i] : i \in 1..Len(popped)}
  IN  /\ Does("Exit", 4, <<e, t>>) /\ Holds(4 * Len(popped))
      /\ stack' = Below(4 * Len(popped))
      /\ regs' = [r \in Regs |-> IF r \in taken THEN Read(4 * (at(r) - 1), 4) ELSE regs[r]]
      /\ IF "eflags" \in taken THEN flags' \in [Flags -> BOOLEAN] ELSE UNCHANGED flags
      /\ flow' = Branch(t)
      /\ UNCHANGED vmRegs

----------------------------------------------------------------------------
Start ==
  /\ stack \in Seq(Byte) /\ Len(stack) <= Bottom
  /\ flags \in [Flags -> BOOLEAN]
  /\ vmRegs \in [VmRegs -> 0..(Limit(4) - 1)]
  /\ regs \in [Regs -> 0..(Limit(4) - 1)]
  /\ flow = <<>>
  /\ last = <<"none", 0, 0>>

Step ==
  \/ \E n \in Sizes : \/ \E v \in Imms : PushImm(n, v)
                      \/ \E r \in VmRegs : PushReg(n, r) \/ PopReg(n, r)
                      \/ ReadMem(n) \/ WriteMem(n)
                      \/ Nand(n) \/ Nor(n) \/ Add(n) \/ Shr(n) \/ Shl(n)
  \/ PushVSP \/ WriteVSP
  \/ \E op \in DOMAIN Taken : Unfinished(op)
  \/ \E t \in Targets : \/ Jmp(t) \/ Goes("JmpConst", t) \/ Goes("Connect", t)
                        \/ \E c \in Targets : ExitCall(c, t)
                        \/ \E e \in Exits : Exit(e, t)
  \/ \E c \in Contexts : Init(c)

MachineSpec == Start /\ [][Step]_machine

=============================================================================
