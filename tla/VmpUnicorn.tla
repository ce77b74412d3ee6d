----------------------------- MODULE VmpUnicorn -----------------------------
(***************************************************************************)
(* The emulator runs behind a virtual task (VmpCore/VmpUnicorn.cpp):       *)
(* StartVmpTrace records the registers before every instruction, and when  *)
(* an instruction accesses memory that is not mapped it repairs the stack  *)
(* pointer, steps over the instruction and goes on.  At a virtual jump the *)
(* block builder emulates a second time, up to the end of the jump's       *)
(* handler, and the registers found there begin the next task              *)
(* (prepareJmpContext, executeVmJmpConst, BuildVmpBlock).                  *)
(*                                                                         *)
(* Of the registers only EIP is kept and whether ESP lies in the buffer    *)
(* the emulator has for a stack.  The emulated program is a table, and the *)
(* emulator deterministic, as emulating twice presumes.                    *)
(***************************************************************************)
EXTENDS Naturals, Sequences

CONSTANTS
  Programs,   \* the code: an Instruction by address
  Entry,      \* where the first task starts
  WalkSize,   \* StartWalk's 0x10000
  MaxRuns     \* emulations in a row: walk, replay, walk, ...

ASSUME BoundsAssumption == WalkSize \in Nat \ {0} /\ MaxRuns \in Nat /\ Entry \in Nat

\* next: where the instruction goes; after: what getNextInsAddr makes of it,
\* 0 if it cannot be decoded; esp: what it does to the stack pointer;
\* access: the memory it needs.
Esps == {"in", "out"}
Accesses == {"none", "stack", "unmapped", "protected"}
Instruction == [next : Nat, after : Nat, esp : Esps \cup {"keep"}, access : Accesses]
ASSUME ProgramsAssumption == Programs \subseteq Seq(Instruction)

Contexts == [eip : Nat, esp : Esps]
NoContext == [eip |-> 0, esp |-> "none"]
Flags == {"true", "false", "unset"}

VARIABLES
  program,
  traceList,
  cpu,          \* the registers in the emulator
  tmpContext,   \* the registers before the last instruction
  bContinue,    \* "unset" until something writes it
  guessed,      \* since the last walk began, has a loop gone on with "unset"?
  budget,       \* instructions left of the current uc_emu_start
  count,        \* StartVmpTrace's count
  phase,        \* "loop", "emulate", "stopped", "done", "crash"
  runs,         \* emulations begun
  origin,       \* the context the run began with
  behind,       \* what the walk recorded behind the handler of the jump
  repaired      \* ... and has fixStack changed anything?

emulator == <<traceList, cpu, tmpContext, bContinue, guessed, budget>>
task == <<program, count, runs, origin, behind>>
vars == <<emulator, task, phase, repaired>>

Last(s) == s[Len(s)]

\* A VmpUnicorn is constructed and StartVmpTrace called: bContinue is not
\* initialised.
Begins(ctx, n) ==
  /\ traceList' = <<>> /\ cpu' = ctx /\ tmpContext' = NoContext
  /\ bContinue' = "unset" /\ budget' = 0
  /\ origin' = ctx /\ count' = n
  /\ phase' = "loop"

Init ==
  /\ program \in Programs
  /\ traceList = <<>> /\ cpu = [eip |-> Entry, esp |-> "in"]
  /\ tmpContext = NoContext
  /\ bContinue = "unset" /\ guessed = FALSE /\ budget = 0
  /\ count = WalkSize /\ origin = cpu
  /\ phase = "loop" /\ runs = 1 /\ behind = NoContext /\ repaired = FALSE

----------------------------------------------------------------------------
(* uc_emu_start and the hooks.                                             *)

\* Mutant: every uc_emu_start gets the whole budget.
RemainingAll == count

Remaining == count - Len(traceList)

\* The head of StartVmpTrace's loop.
EmuStart ==
  /\ phase = "loop"
  /\ phase' = IF Len(traceList) < count THEN "emulate" ELSE "done"
  /\ budget' = IF Len(traceList) < count THEN Remaining ELSE 0
  /\ UNCHANGED <<traceList, cpu, tmpContext, bContinue, guessed, task, repaired>>

Emulating == phase = "emulate" /\ budget > 0
Fetched == cpu.eip \in DOMAIN program
Code == program[cpu.eip]

Faults ==
  Code.access \in {"unmapped", "protected"} \/ (Code.access = "stack" /\ cpu.esp = "out")

\* cb_hook_code records the registers before the instruction.
HookCode ==
  /\ traceList' = Append(traceList, cpu)
  /\ tmpContext' = cpu
  /\ budget' = budget - 1

Execute ==
  /\ Emulating /\ Fetched /\ ~ Faults
  /\ HookCode
  /\ cpu' = [eip |-> Code.next, esp |-> IF Code.esp = "keep" THEN cpu.esp ELSE Code.esp]
  /\ UNCHANGED <<bContinue, guessed, task, phase, repaired>>

\* cb_hook_mem stops the emulator.  Of a protection fault it remembers nothing.
MemoryFault ==
  /\ Emulating /\ Fetched /\ Faults
  /\ HookCode
  /\ bContinue' = IF Code.access = "protected" THEN bContinue ELSE "true"
  /\ phase' = "stopped"
  /\ UNCHANGED <<cpu, guessed, task, repaired>>

\* Nothing is mapped at EIP, or what is there is no instruction: then no hook
\* for memory runs.
FetchFault ==
  /\ Emulating /\ ~ Fetched
  /\ bContinue' \in {"false", bContinue}
  /\ phase' = "stopped"
  /\ UNCHANGED <<traceList, cpu, tmpContext, budget, guessed, task, repaired>>

BudgetSpent ==
  /\ phase = "emulate" /\ budget = 0
  /\ phase' = "stopped"
  /\ UNCHANGED <<emulator, task, repaired>>

----------------------------------------------------------------------------
(* What StartVmpTrace does when uc_emu_start has returned.                 *)

\* The length of traceList up to the last instruction with a good ESP.
\* popCount is the number of instructions behind it.
Good(n) ==
  /\ n \in 0..Len(traceList)
  /\ \A i \in {n} \cap DOMAIN traceList : traceList[i].esp = "in"
  /\ \A i \in (n + 1)..Len(traceList) : traceList[i].esp = "out"

\* Mutant: the first bad instruction goes as well.
LeftOneLess(n) == n

\* The size after traceList.resize(size - (popCount - 1)).
Left(n) == n + 1

\* Mutant: the trace is cut, ESP stays.
RepairedNot(size) == SubSeq(traceList, 1, size)

\* The last context left gets the ESP of the one before.
Repaired(size) ==
  [i \in 1..size |-> IF i = size THEN [traceList[i] EXCEPT !.esp = traceList[size - 1].esp]
                                 ELSE traceList[i]]

\* Mutant: jumps are stepped over as well.
getNextInsAddrPast(a) == IF a \in DOMAIN program THEN a + 1 ELSE 0

getNextInsAddr(a) == IF a \in DOMAIN program THEN program[a].after ELSE 0

\* Before anything has written it, bContinue is read as either value.
GoesOn == phase = "stopped" /\ bContinue # "false"
Stops == phase = "stopped" /\ bContinue # "true"

StopTracing ==
  /\ Stops
  /\ phase' = "done"
  /\ UNCHANGED <<emulator, task, repaired>>

StepsOver(trace) ==
  /\ traceList' = trace
  /\ bContinue' = "false" /\ guessed' = (guessed \/ bContinue = "unset")
  /\ phase' = "loop"
  /\ UNCHANGED <<tmpContext, budget, task>>

\* fixStack finds nothing to repair.
ContinueWithStack ==
  /\ GoesOn /\ traceList # <<>>
  /\ Good(Len(traceList))
  /\ StepsOver(traceList)
  /\ cpu' = [cpu EXCEPT !.eip = getNextInsAddr(Last(traceList).eip)]
  /\ UNCHANGED repaired

ContinueRepaired ==
  /\ GoesOn
  /\ \E n \in 0..(Len(traceList) - 1) :
       /\ Good(n) /\ Left(n) >= 2
       /\ LET trace == Repaired(Left(n))
          IN  /\ StepsOver(trace)
              /\ cpu' = [eip |-> getNextInsAddr(Last(trace).eip), esp |-> Last(trace).esp]
  /\ repaired' = TRUE

\* Nothing was traced, and the last element is read all the same; or one
\* element is left, and the one before is read.
ReadOutside ==
  /\ GoesOn
  /\ \/ traceList = <<>>
     \/ \E n \in 0..(Len(traceList) - 1) : Good(n) /\ Left(n) < 2
  /\ phase' = "crash" /\ guessed' = (guessed \/ bContinue = "unset")
  /\ UNCHANGED <<traceList, cpu, tmpContext, bContinue, budget, task, repaired>>

----------------------------------------------------------------------------
(* From task to task.                                                      *)

IsWalk == runs % 2 = 1

\* Mutant: the emulation stops before the instruction behind the handler.
ReplaySizeShort(n) == n - 1

\* Mutant: the emulation goes up to the handler only.
ReplaySizeIndex(n) == n - 2

\* CurrentIndex() + addrList.size() + 1: the handler and one instruction.
\* (addrList counts a rep instruction once, the trace each round of it; the
\* handlers here have none.)
ReplaySize(n) == n

\* The jump's handler ends before context n of the walk.
Replay ==
  /\ phase = "done" /\ IsWalk /\ runs < MaxRuns
  /\ \E n \in 2..(Len(traceList) + 1) :
       /\ Begins(origin, ReplaySize(n))
       /\ behind' = IF n <= Len(traceList) THEN traceList[n] ELSE NoContext
  /\ runs' = runs + 1
  /\ UNCHANGED <<program, guessed, repaired>>

\* CopyCurrentUnicornContext, and the next task's StartWalk with it.
NextWalk ==
  /\ phase = "done" /\ ~ IsWalk /\ runs < MaxRuns
  /\ Begins(tmpContext, WalkSize)
  /\ behind' = NoContext /\ runs' = runs + 1
  /\ guessed' = FALSE /\ repaired' = FALSE
  /\ UNCHANGED program

StartVmpTrace ==
  \/ EmuStart \/ Execute \/ MemoryFault \/ FetchFault \/ BudgetSpent
  \/ StopTracing \/ ContinueWithStack \/ ContinueRepaired \/ ReadOutside

Next == StartVmpTrace \/ Replay \/ NextWalk

Spec == Init /\ [][Next]_vars

\* uc_emu_start returns, its count being finite, and the loop goes on.
FairSpec == Spec /\ WF_vars(StartVmpTrace)

----------------------------------------------------------------------------
\* The type invariant.  In particular a task begins with registers that a
\* hook has recorded, never with a tmpContext that nothing was read into.
TypeOK ==
  /\ program \in Programs
  /\ traceList \in Seq(Contexts)
  /\ cpu \in Contexts /\ origin \in Contexts
  /\ {tmpContext, behind} \subseteq Contexts \cup {NoContext}
  /\ bContinue \in Flags
  /\ guessed \in BOOLEAN /\ repaired \in BOOLEAN
  /\ budget \in Nat /\ count \in Nat /\ runs \in Nat
  /\ phase \in {"loop", "emulate", "stopped", "done", "crash"}

\* However often the emulator is restarted, the trace has at most the
\* instructions that were asked for.
TraceBounded == Len(traceList) <= count

\* When StartVmpTrace restarts the emulator behind a repair, ESP is in the
\* stack, so the instruction that failed for the stack is not met again: if
\* the run began so, and bContinue was not read before it was written.
ResumesInStack ==
  phase = "loop" /\ traceList # <<>> /\ origin.esp = "in" /\ ~ guessed =>
    cpu.esp = "in"

\* fixStack and getNextInsAddr read the trace outside only if bContinue was
\* read before anything had written it, or the run began with a bad ESP.
IndexSafe == phase = "crash" => guessed \/ origin.esp = "out"

\* A context of the trace is where the instruction before it leads, or what
\* follows it if it could not be executed.
Leads(a, b) == b \in {program[a].next, program[a].after}

TraceFollowsProgram ==
  \A i \in 1..(Len(traceList) - 1) : Leads(traceList[i].eip, traceList[i + 1].eip)

\* The second emulation hands on the context that the first found behind the
\* handler, unless one of them repaired the stack or guessed bContinue.
ReplayAgrees ==
  phase = "done" /\ ~ IsWalk /\ ~ repaired /\ ~ guessed /\ behind # NoContext =>
    tmpContext = behind

\* Every run ends: the trace may shrink, but not for ever.
TraceCompletes == []<>(phase \in {"done", "crash"})

=============================================================================
