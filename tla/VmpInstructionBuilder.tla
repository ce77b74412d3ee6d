----------------------- MODULE VmpInstructionBuilder -----------------------
(***************************************************************************)
(* The p-code that BuildInstruction emits for each virtual instruction     *)
(* (GhidraExtension/VmpInstructionBuilder.cpp and FuncBuildHelper.cpp),    *)
(* run on a memory, ESP and registers.  An action runs what one            *)
(* instruction is built into, its operations in the order they are         *)
(* emitted; last keeps which it was.                                       *)
(*                                                                         *)
(* Bound: memory is the Bottom bytes of the stack, and an instruction that *)
(* would load or store outside of them is not run; MaxSteps instructions   *)
(* are.                                                                    *)
(***************************************************************************)
EXTENDS Integers, Sequences, FiniteSets, Bitwise

CONSTANTS
  ByteBits, ShiftMask, FlagBit, Bottom, VmRegs, Regs, Imms, Targets, Contexts, Exits,
  Memories,   \* what the stack may hold at first
  Tops,       \* where ESP may stand at first
  MaxSteps

ASSUME WidthAssumption ==
  /\ ByteBits \in Nat \ {0} /\ ShiftMask \in Nat /\ Bottom \in Nat
  /\ "eflags" \in Regs /\ "ESP" \notin Regs

VARIABLES ram, ESP, flags, vmRegs, regs, flow, last, steps

vars == <<ram, ESP, flags, vmRegs, regs, flow, last, steps>>

Flags == {"CF", "PF", "ZF", "SF", "OF"}
Sizes == {1, 2, 4}
Byte == 0..(2^ByteBits - 1)
Limit(n) == 2^(ByteBits * n)

\* What ESP moves by for an operand of n bytes.
SlotOf(n) == IF n = 4 THEN 4 ELSE 2

----------------------------------------------------------------------------
(* P-code operations.                                                      *)

CPUI_LOAD(a, n) ==
  LET sum[i \in 0..n] == IF i = 0 THEN 0 ELSE sum[i - 1] + ram[a + i - 1] * Limit(i - 1)
  IN  sum[n]

CPUI_STORE(m, a, v, n) ==
  [i \in DOMAIN m |-> IF i \in a..(a + n - 1) THEN (v \div Limit(i - a)) % Limit(1) ELSE m[i]]

CPUI_INT_NEGATE(v, n) == Limit(n) - 1 - v
CPUI_INT_LEFT(v, c, n) == IF c >= ByteBits * n THEN 0 ELSE (v * 2^c) % Limit(n)
CPUI_INT_RIGHT(v, c, n) == IF c >= ByteBits * n THEN 0 ELSE v \div 2^c
CPUI_INT_CARRY(v, w, n) == v + w >= Limit(n)
Negative(v, n) == v >= Limit(n) \div 2
CPUI_INT_SCARRY(v, w, n) ==
  /\ Negative(v, n) = Negative(w, n)
  /\ Negative((v + w) % Limit(n), n) # Negative(v, n)

CPUI_POPCOUNT(v) ==
  LET sum[i \in 0..ByteBits] == IF i = 0 THEN 0 ELSE sum[i - 1] + ((v \div 2^(i - 1)) % 2)
  IN  sum[ByteBits]

InRam(a, n) == a >= 0 /\ a + n <= Bottom

----------------------------------------------------------------------------
(* Results with the flags they leave.                                      *)

ResultFlags(v, n) ==
  [ZF |-> v = 0, SF |-> Negative(v, n), PF |-> CPUI_POPCOUNT(v % Limit(1)) % 2 = 0]

With(f, cf, of) == [CF |-> cf, OF |-> of, ZF |-> f.ZF, SF |-> f.SF, PF |-> f.PF]

BuildOr(v, w, n) ==
  LET out == v | w IN [out |-> out, flags |-> With(ResultFlags(out, n), FALSE, FALSE)]

BuildAnd(v, w, n) ==
  LET out == v & w IN [out |-> out, flags |-> With(ResultFlags(out, n), FALSE, FALSE)]

BuildAdd(v, w, n) ==
  LET out == (v + w) % Limit(n)
  IN  [out   |-> out,
       flags |-> With(ResultFlags(out, n), CPUI_INT_CARRY(v, w, n), CPUI_INT_SCARRY(v, w, n))]

\* A mistake for the properties to tell: a shift by 0 writes the flags as well.
ShiftedAlways(out, c, cf, of, n) ==
  [out |-> out, flags |-> With(ResultFlags(out, n), cf, IF c = 1 THEN of ELSE flags["OF"])]

\* Every flag of a shift is selected by the count: kept for 0, and OF for all
\* but 1.  c - 1 is one byte wide.
Shifted(out, c, cf, of, n) ==
  LET kept(x, new) == IF c # 0 THEN new ELSE flags[x]
      f == ResultFlags(out, n)
  IN  [out   |-> out,
       flags |-> [CF |-> kept("CF", cf), OF |-> IF c = 1 THEN of ELSE flags["OF"],
                  SF |-> kept("SF", f.SF), ZF |-> kept("ZF", f.ZF), PF |-> kept("PF", f.PF)]]

CountLess(c) == (c - 1) % Limit(1)

BuildShr(v, cl, n) ==
  LET c == cl & ShiftMask
      cf == CPUI_INT_RIGHT(v, CountLess(c), n) % 2 # 0
  IN  Shifted(CPUI_INT_RIGHT(v, c, n), c, cf, Negative(v, n), n)

\* OF is the new CF against the sign of the operand, not of the result.
BuildShl(v, cl, n) ==
  LET c == cl & ShiftMask
      cf == Negative(CPUI_INT_LEFT(v, CountLess(c), n), n)
  IN  Shifted(CPUI_INT_LEFT(v, c, n), c, cf, cf # Negative(v, n), n)

MergeEFlags(f, x) == IF f[x] THEN FlagBit[x] ELSE 0

BuildEflags(f) ==
  MergeEFlags(f, "OF") + MergeEFlags(f, "SF") + MergeEFlags(f, "ZF")
    + MergeEFlags(f, "PF") + MergeEFlags(f, "CF")

----------------------------------------------------------------------------
Runs(op, n, x) ==
  /\ steps < MaxSteps /\ steps' = steps + 1
  /\ last' = <<op, n, x>>

OnlyMemory == UNCHANGED <<flags, vmRegs, regs>> /\ flow' = <<>>

\* ESP = ESP - the slot; *(ram,ESP) = v
Push(v, n) ==
  /\ InRam(ESP - SlotOf(n), n)
  /\ ESP' = ESP - SlotOf(n)
  /\ ram' = CPUI_STORE(ram, ESP', v, n)

BuildPushImm(n, v) == Runs("PushImm", n, v) /\ Push(v, n) /\ OnlyMemory
BuildPushReg(n, r) == Runs("PushReg", n, r) /\ Push(vmRegs[r], n) /\ OnlyMemory
BuildPushVSP == Runs("PushVSP", 4, 0) /\ Push(ESP, 4) /\ OnlyMemory

\* A mistake for the properties to tell: the register is added to, not replaced.
BuildPopRegAdds(n, r) ==
  /\ Runs("PopReg", n, r) /\ InRam(ESP, SlotOf(n))
  /\ vmRegs' = [vmRegs EXCEPT ![r] = @ + CPUI_LOAD(ESP, n)]
  /\ ESP' = ESP + SlotOf(n)
  /\ UNCHANGED <<ram, flags, regs>> /\ flow' = <<>>

BuildPopReg(n, r) ==
  /\ Runs("PopReg", n, r) /\ InRam(ESP, SlotOf(n))
  /\ vmRegs' = [vmRegs EXCEPT ![r] = (@ - (@ % Limit(n))) + CPUI_LOAD(ESP, n)]
  /\ ESP' = ESP + SlotOf(n)
  /\ UNCHANGED <<ram, flags, regs>> /\ flow' = <<>>

BuildWriteVSP ==
  /\ Runs("WriteVSP", 4, 0) /\ InRam(ESP, 4)
  /\ ESP' = CPUI_LOAD(ESP, 4) /\ InRam(ESP', 0)
  /\ UNCHANGED ram /\ OnlyMemory

\* readVal = *(readAddr); ESP grows before it is stored, unless it is a dword.
BuildReadMem(n) ==
  /\ Runs("ReadMem", n, 0) /\ InRam(ESP, 4) /\ InRam(CPUI_LOAD(ESP, 4), n)
  /\ ESP' = IF n # 4 THEN ESP + 2 ELSE ESP
  /\ ram' = CPUI_STORE(ram, ESP', CPUI_LOAD(CPUI_LOAD(ESP, 4), n), n)
  /\ OnlyMemory

BuildWriteMem(n) ==
  /\ Runs("WriteMem", n, 0) /\ InRam(ESP, 4 + SlotOf(n)) /\ InRam(CPUI_LOAD(ESP, 4), n)
  /\ ram' = CPUI_STORE(ram, CPUI_LOAD(ESP, 4), CPUI_LOAD(ESP + 4, n), n)
  /\ ESP' = ESP + 4 + SlotOf(n)
  /\ OnlyMemory

\* ESP moves to top; the result is stored behind it, then eflags on it.
StoreResult(top, r, n) ==
  /\ InRam(top, 4 + SlotOf(n))
  /\ ESP' = top
  /\ flags' = r.flags
  /\ ram' = CPUI_STORE(CPUI_STORE(ram, top + 4, r.out, n), top, BuildEflags(flags'), 4)
  /\ regs' = [regs EXCEPT !["eflags"] = BuildEflags(flags')]
  /\ UNCHANGED vmRegs /\ flow' = <<>>

Operand(i, n) == CPUI_LOAD(ESP + i * SlotOf(n), n)

\* u1 at ESP, u2 behind it: two bytes are missing for eflags unless they are
\* dwords.
Binary(op, n, Build(_, _, _)) ==
  /\ Runs(op, n, 0) /\ InRam(ESP, 2 * SlotOf(n))
  /\ StoreResult(IF n # 4 THEN ESP - 2 ELSE ESP, Build(Operand(0, n), Operand(1, n), n), n)

BuildNand(n) ==
  Binary("Nand", n, LAMBDA v, w, k : BuildOr(CPUI_INT_NEGATE(v, k), CPUI_INT_NEGATE(w, k), k))
BuildNor(n) ==
  Binary("Nor", n, LAMBDA v, w, k : BuildAnd(CPUI_INT_NEGATE(v, k), CPUI_INT_NEGATE(w, k), k))
BuildAddIns(n) == Binary("Add", n, BuildAdd)

\* uCL is one byte of the slot behind the operand.
ShiftIns(op, n, Build(_, _, _)) ==
  /\ Runs(op, n, 0) /\ InRam(ESP, SlotOf(n) + 2)
  /\ StoreResult(ESP - 2, Build(Operand(0, n), CPUI_LOAD(ESP + SlotOf(n), 1), n), n)

BuildShrIns(n) == ShiftIns("Shr", n, BuildShr)
BuildShlIns(n) == ShiftIns("Shl", n, BuildShl)

----------------------------------------------------------------------------
\* "To do...": only ESP moves.
StackEffect == [Popfd |-> 4, Cpuid |-> -12, Rdtsc |-> -8, Shld |-> 2, Shrd |-> 2,
                Div |-> 0, Mul |-> -4]
Reaches == [Popfd |-> 4, Cpuid |-> 4, Rdtsc |-> 0, Shld |-> 10, Shrd |-> 10,
            Div |-> 12, Mul |-> 8]

BuildUnfinished(op) ==
  /\ Runs(op, 4, 0) /\ InRam(ESP, Reaches[op]) /\ InRam(ESP + StackEffect[op], 0)
  /\ ESP' = ESP + StackEffect[op]
  /\ UNCHANGED ram /\ OnlyMemory

----------------------------------------------------------------------------
Branch(t) == <<[kind |-> "branch", to |-> t]>>
BranchIf(t) == IF t # 0 THEN Branch(t) ELSE <<>>

\* t is branchList[0], or 0 without isBuildJmp.
BuildJmp(t) ==
  /\ Runs("Jmp", 4, t) /\ InRam(ESP, 4)
  /\ ESP' = ESP + 4
  /\ flow' = IF t # 0 THEN Branch(t) ELSE <<[kind |-> "eip", to |-> CPUI_LOAD(ESP, 4)]>>
  /\ UNCHANGED <<ram, flags, vmRegs, regs>>

\* t is targetAddr, or 0 without isBuildJmp.
BuildJmpConst(t) ==
  /\ Runs("JmpConst", 4, t) /\ flow' = BranchIf(t)
  /\ UNCHANGED <<ram, ESP, flags, vmRegs, regs>>

BuildConnect(t) ==
  /\ Runs("Connect", 4, t) /\ t # 0 /\ flow' = Branch(t)
  /\ UNCHANGED <<ram, ESP, flags, vmRegs, regs>>

BuildExitCall(c, t) ==
  /\ Runs("ExitCall", 4, <<c, t>>) /\ InRam(ESP, 4)
  /\ ESP' = ESP + 4
  /\ flow' = <<[kind |-> "call", to |-> c]>> \o BranchIf(t)
  /\ UNCHANGED <<ram, flags, vmRegs, regs>>

\* One dword for each entry of storeContext.
BuildInit(c) ==
  LET v(i) == IF c[i].space = "const" THEN c[i].value ELSE regs[c[i].value]
      pushed[i \in 0..Len(c)] ==
        IF i = 0 THEN ram ELSE CPUI_STORE(pushed[i - 1], ESP - 4 * i, v(i), 4)
  IN  /\ Runs("Init", 4, c) /\ InRam(ESP - 4 * Len(c), 0)
      /\ ESP' = ESP - 4 * Len(c)
      /\ ram' = pushed[Len(c)]
      /\ OnlyMemory

\* One dword for each entry of exitContext but ESP, which is passed over.
BuildExit(e, t) ==
  LET popped[i \in 0..Len(e)] ==
        IF i = 0 THEN [regs |-> regs, ESP |-> ESP]
        ELSE IF e[i] = "ESP" THEN popped[i - 1]
        ELSE [regs |-> [popped[i - 1].regs EXCEPT ![e[i]] = CPUI_LOAD(popped[i - 1].ESP, 4)],
              ESP  |-> popped[i - 1].ESP + 4]
  IN  /\ Runs("Exit", 4, <<e, t>>) /\ InRam(ESP, 4 * Len(e))
      /\ regs' = popped[Len(e)].regs
      /\ ESP' = popped[Len(e)].ESP
      /\ flow' = BranchIf(t)
      /\ UNCHANGED <<ram, flags, vmRegs>>

----------------------------------------------------------------------------
Init ==
  /\ ram \in Memories /\ ESP \in Tops
  /\ flags = [f \in Flags |-> f \in {"CF", "OF"}]
  /\ vmRegs = [r \in VmRegs |-> Limit(4) - 2]
  /\ regs = [r \in Regs |-> Limit(4) - 1]
  /\ flow = <<>> /\ steps = 0
  /\ last = <<"none", 0, 0>>

Next ==
  \/ \E n \in Sizes, v \in Imms : BuildPushImm(n, v)
  \/ \E n \in Sizes, r \in VmRegs : BuildPushReg(n, r) \/ BuildPopReg(n, r)
  \/ \E n \in Sizes : BuildReadMem(n) \/ BuildWriteMem(n)
  \/ \E n \in Sizes : BuildNand(n) \/ BuildNor(n) \/ BuildAddIns(n)
  \/ \E n \in Sizes : BuildShrIns(n) \/ BuildShlIns(n)
  \/ BuildPushVSP \/ BuildWriteVSP
  \/ \E op \in DOMAIN StackEffect : BuildUnfinished(op)
  \/ \E t \in Targets : BuildJmp(t) \/ BuildJmpConst(t) \/ BuildConnect(t)
  \/ \E t \in Targets, c \in Targets \ {0} : BuildExitCall(c, t)
  \/ \E c \in Contexts : BuildInit(c)
  \/ \E e \in Exits, t \in Targets : BuildExit(e, t)

PcodeSpec == Init /\ [][Next]_vars

----------------------------------------------------------------------------
(* Properties.                                                             *)

\* ESP stays in the stack and every byte, register and flag in its width:
\* no store of the arithmetic in FuncBuildHelper.cpp keeps a carry.
PcodeTypeOK ==
  /\ ram \in [0..(Bottom - 1) -> Byte] /\ ESP \in 0..Bottom
  /\ flags \in [Flags -> BOOLEAN]
  /\ vmRegs \in [VmRegs -> 0..(Limit(4) - 1)]
  /\ regs \in [Regs -> 0..(Limit(4) - 1)]

Machine == INSTANCE VmpMachine
             WITH stack <- [i \in 1..(Bottom - ESP) |-> ram[ESP + i - 1]]

\* What BuildInstruction emits does to the stack, registers and flags what the
\* handler listed beside it does, for every virtual instruction it finishes,
\* and moves the stack alike for the others.
ImplementsMachine == Machine!MachineSpec

\* "Translate the SHL instruction" (VmpInstructionBuilder.cpp:550): after a shift
\* by one OF is CF against the sign of the result, as the comment "EAX(free) <
\* #0x0" (FuncBuildHelper.cpp:322) has it of the shifted register.
ShlOverflow ==
  [][(last'[1] = "Shl" /\ CPUI_LOAD(ESP + SlotOf(last'[2]), 1) & ShiftMask = 1)
       => flags'["OF"] = (flags'["CF"] # Negative(CPUI_INT_LEFT(Operand(0, last'[2]), 1, last'[2]),
                                                  last'[2]))]_vars

=============================================================================
