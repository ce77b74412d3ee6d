------------------------- MODULE VmpUnicornProofs -------------------------
(***************************************************************************)
(* Proofs about VmpUnicorn, for every program and every bound: types,      *)
(* TraceBounded, ResumesInStack, IndexSafe and TraceFollowsProgram, from   *)
(* one inductive invariant, and ReplayAgrees from a stronger one.          *)
(***************************************************************************)
EXTENDS VmpUnicorn, TLAPS

Running == phase \in {"loop", "emulate"}

\* A faulting instruction is the last of the trace, and left the registers
\* as they were recorded before it.
FaultOK == phase = "stopped" /\ bContinue = "true" =>
             traceList # <<>> /\ cpu = Last(traceList)

\* The trace begins with the context the run began with.
HeadOK ==
  /\ traceList # <<>> => traceList[1] = origin
  /\ Running /\ traceList = <<>> => cpu = origin
  /\ Running => bContinue # "true"

StackOK ==
  /\ phase = "loop" /\ traceList # <<>> /\ origin.esp = "in" /\ ~ guessed => cpu.esp = "in"
  /\ phase = "crash" => guessed \/ origin.esp = "out"

BudgetOK ==
  /\ Len(traceList) <= count
  /\ phase = "emulate" => Len(traceList) + budget <= count

\* What the trace records is code, and the emulator goes on where the trace
\* leads.
FollowOK ==
  /\ \A i \in 1..Len(traceList) : traceList[i].eip \in DOMAIN program
  /\ TraceFollowsProgram
  /\ Running /\ traceList # <<>> => Leads(Last(traceList).eip, cpu.eip)

\* A replay begins where a walk found code, and is asked for two instructions
\* or more, so that one is executed and recorded.
ReplayOK ==
  ~ IsWalk =>
    /\ origin.eip \in DOMAIN program /\ count >= 2
    /\ tmpContext = NoContext =>
         /\ traceList = <<>> /\ cpu = origin
         /\ phase = "loop" \/ (phase = "emulate" /\ budget > 0)

IInv == TypeOK /\ FaultOK /\ HeadOK /\ StackOK /\ BudgetOK /\ FollowOK /\ ReplayOK

----------------------------------------------------------------------------
(* Sequences of contexts.                                                  *)

\* What the hook for code does to the trace.
LEMMA AppendedTrace ==
  ASSUME NEW s \in Seq(Contexts), NEW c \in Contexts
  PROVE  /\ Append(s, c) \in Seq(Contexts)
         /\ Append(s, c) # <<>>
         /\ Len(Append(s, c)) = Len(s) + 1
         /\ \A i \in 1..Len(s) : Append(s, c)[i] = s[i]
         /\ Append(s, c)[Len(s) + 1] = c
         /\ Last(Append(s, c)) = c
  BY DEF Last

\* What fixStack does to it: the trace gets no longer and follows the same
\* addresses, and the ESP at its end is the one before.
LEMMA RepairedTrace ==
  ASSUME NEW n \in Nat, traceList \in Seq(Contexts), Left(n) >= 2, n < Len(traceList)
  PROVE  /\ Repaired(Left(n)) \in Seq(Contexts)
         /\ Len(Repaired(Left(n))) = n + 1
         /\ \A i \in 1..(n + 1) : Repaired(Left(n))[i].eip = traceList[i].eip
         /\ Repaired(Left(n))[1] = traceList[1]
         /\ Last(Repaired(Left(n))).esp = traceList[n].esp
         /\ Last(Repaired(Left(n))).eip = traceList[n + 1].eip
  <1> DEFINE r == Repaired(Left(n))
  <1>1. /\ r = [i \in 1..(n + 1) |->
                  IF i = n + 1 THEN [traceList[i] EXCEPT !.esp = traceList[n].esp]
                               ELSE traceList[i]]
        /\ n >= 1
    BY DEF Repaired, Left
  <1>2. \A i \in 1..(n + 1) : traceList[i] \in Contexts
    BY <1>1
  <1>3. \A i \in 1..(n + 1) : r[i] \in Contexts /\ r[i].eip = traceList[i].eip
    <2> SUFFICES ASSUME NEW i \in 1..(n + 1)
                 PROVE  r[i] \in Contexts /\ r[i].eip = traceList[i].eip
      OBVIOUS
    <2>1. CASE i = n + 1
      BY <1>1, <1>2, <2>1 DEF Contexts
    <2>2. CASE i # n + 1
      BY <1>1, <1>2, <2>2 DEF Contexts
    <2> QED BY <2>1, <2>2
  <1>4. r \in Seq(Contexts) /\ Len(r) = n + 1
    <2>1. DOMAIN r = 1..(n + 1) /\ r = [i \in 1..(n + 1) |-> r[i]]
      BY <1>1
    <2>2. r \in [1..(n + 1) -> Contexts]
      BY <2>1, <1>3
    <2> QED BY <2>1, <2>2
  <1>5. r[1] = traceList[1]
    BY <1>1
  <1>6. r[n + 1].esp = traceList[n].esp
    BY <1>1, <1>2 DEF Contexts
  <1> QED BY <1>3, <1>4, <1>5, <1>6 DEF Last

\* What a program says of an address.
LEMMA Coded ==
  ASSUME program \in Programs, NEW a \in DOMAIN program
  PROVE  /\ program[a] \in Instruction
         /\ getNextInsAddr(a) = program[a].after
         /\ Leads(a, program[a].next) /\ Leads(a, getNextInsAddr(a))
         /\ program[a].next \in Nat /\ getNextInsAddr(a) \in Nat
  <1>1. program \in Seq(Instruction)
    BY ProgramsAssumption
  <1>2. program[a] \in Instruction
    BY <1>1
  <1>3. program[a].next \in Nat /\ program[a].after \in Nat
    BY <1>2 DEF Instruction
  <1>4. getNextInsAddr(a) = program[a].after
    BY DEF getNextInsAddr
  <1> QED BY <1>2, <1>3, <1>4 DEF Leads

----------------------------------------------------------------------------
(* The inductive invariant.                                                *)

LEMMA InitIInv == Init => IInv
  <1> SUFFICES ASSUME Init PROVE IInv
    OBVIOUS
  <1> USE BoundsAssumption DEF Init
  <1>1. TypeOK
    <2>1. cpu \in Contexts /\ origin \in Contexts
      BY DEF Contexts, Esps
    <2>2. traceList \in Seq(Contexts)
      OBVIOUS
    <2> QED BY <2>1, <2>2 DEF TypeOK, Flags
  <1>2. IsWalk
    BY DEF IsWalk
  <1> QED
    BY <1>1, <1>2 DEF IInv, FaultOK, HeadOK, StackOK, BudgetOK, FollowOK,
         TraceFollowsProgram, ReplayOK, Running

LEMMA EmuStartIInv == IInv /\ EmuStart => IInv'
  <1> SUFFICES ASSUME IInv, EmuStart PROVE IInv'
    OBVIOUS
  <1> USE DEF EmuStart, task
  <1>1. TypeOK' /\ BudgetOK'
    BY DEF IInv, TypeOK, BudgetOK, Remaining
  <1>2. FaultOK' /\ HeadOK' /\ StackOK'
    BY DEF IInv, FaultOK, HeadOK, StackOK, Running
  <1>3. FollowOK'
    BY DEF IInv, FollowOK, TraceFollowsProgram, Leads, Running
  <1>4. ReplayOK'
    <2>1. tmpContext = NoContext /\ ~ IsWalk => Len(traceList) < count /\ Remaining > 0
      BY DEF IInv, ReplayOK, TypeOK, Remaining
    <2> QED BY <2>1 DEF IInv, ReplayOK, IsWalk
  <1> QED BY <1>1, <1>2, <1>3, <1>4 DEF IInv

\* Both ways to record a context: the instruction runs, or faults.
LEMMA HookCodeKeeps ==
  ASSUME IInv, Emulating, Fetched, HookCode, UNCHANGED <<task, guessed, repaired>>
  PROVE  /\ traceList' \in Seq(Contexts) /\ tmpContext' \in Contexts /\ budget' \in Nat
         /\ traceList' # <<>> /\ traceList'[1] = origin'
         /\ Last(traceList') = cpu
         /\ Len(traceList') <= count' /\ Len(traceList') + budget' <= count'
         /\ \A i \in 1..Len(traceList') : traceList'[i].eip \in DOMAIN program'
         /\ TraceFollowsProgram'
         /\ ReplayOK'
  <1> USE DEF Emulating, HookCode, task
  <1>1. /\ traceList \in Seq(Contexts) /\ cpu \in Contexts
        /\ Len(traceList) + budget <= count /\ budget \in Nat /\ count \in Nat
    BY DEF IInv, TypeOK, BudgetOK
  <1>2. /\ traceList' \in Seq(Contexts) /\ traceList' # <<>>
        /\ Len(traceList') = Len(traceList) + 1
        /\ \A i \in 1..Len(traceList) : traceList'[i] = traceList[i]
        /\ traceList'[Len(traceList) + 1] = cpu
        /\ Last(traceList') = cpu
    BY <1>1, AppendedTrace
  <1>3. traceList'[1] = origin'
    <2>1. CASE traceList = <<>>
      BY <2>1, <1>2 DEF IInv, HeadOK, Running
    <2>2. CASE traceList # <<>>
      BY <2>2, <1>1, <1>2 DEF IInv, HeadOK
    <2> QED BY <2>1, <2>2
  <1>4. Len(traceList') + budget' <= count' /\ budget' \in Nat
    BY <1>1, <1>2
  <1>5. \A i \in 1..Len(traceList') : traceList'[i].eip \in DOMAIN program'
    BY <1>1, <1>2 DEF IInv, FollowOK, Fetched
  <1>6. TraceFollowsProgram'
    <2> SUFFICES ASSUME NEW i \in 1..(Len(traceList') - 1)
                 PROVE  Leads(traceList'[i].eip, traceList'[i + 1].eip)
      BY DEF TraceFollowsProgram, Leads
    <2>1. CASE i = Len(traceList)
      BY <2>1, <1>1, <1>2 DEF IInv, FollowOK, Running, Last
    <2>2. CASE i # Len(traceList)
      <3>1. i \in 1..(Len(traceList) - 1)
        BY <2>2, <1>1, <1>2
      <3> QED BY <3>1, <1>1, <1>2 DEF IInv, FollowOK, TraceFollowsProgram
    <2> QED BY <2>1, <2>2
  <1>7. ReplayOK'
    <2>1. cpu # NoContext
      BY <1>1 DEF Contexts, Esps, NoContext
    <2> QED BY <2>1 DEF IInv, ReplayOK, IsWalk
  <1> QED BY <1>1, <1>2, <1>3, <1>4, <1>5, <1>6, <1>7

LEMMA ExecuteIInv == IInv /\ Execute => IInv'
  <1> SUFFICES ASSUME IInv, Execute PROVE IInv'
    OBVIOUS
  <1> USE DEF Execute, Emulating
  <1>1. UNCHANGED <<task, guessed, repaired>>
    OBVIOUS
  <1>2. /\ traceList' \in Seq(Contexts) /\ tmpContext' \in Contexts /\ budget' \in Nat
        /\ traceList' # <<>> /\ traceList'[1] = origin'
        /\ Last(traceList') = cpu
        /\ Len(traceList') <= count' /\ Len(traceList') + budget' <= count'
        /\ \A i \in 1..Len(traceList') : traceList'[i].eip \in DOMAIN program'
        /\ TraceFollowsProgram'
        /\ ReplayOK'
    BY <1>1, HookCodeKeeps
  <1>3. program \in Programs /\ cpu \in Contexts /\ cpu.eip \in DOMAIN program
    BY DEF IInv, TypeOK, Fetched
  <1>4. cpu' \in Contexts /\ Leads(cpu.eip, cpu'.eip)
    <2>1. Code \in Instruction /\ Leads(cpu.eip, Code.next)
      BY <1>3, Coded DEF Code
    <2> QED BY <2>1, <1>3 DEF Instruction, Contexts, Esps
  <1>5. TypeOK'
    BY <1>1, <1>2, <1>4 DEF IInv, TypeOK, task
  <1>6. FaultOK' /\ HeadOK' /\ StackOK' /\ BudgetOK'
    BY <1>2 DEF IInv, FaultOK, HeadOK, StackOK, BudgetOK, Running
  <1>7. FollowOK'
    BY <1>1, <1>2, <1>4 DEF FollowOK, Leads, task
  <1> QED BY <1>2, <1>5, <1>6, <1>7 DEF IInv

LEMMA MemoryFaultIInv == IInv /\ MemoryFault => IInv'
  <1> SUFFICES ASSUME IInv, MemoryFault PROVE IInv'
    OBVIOUS
  <1> USE DEF MemoryFault
  <1>1. UNCHANGED <<task, guessed, repaired>>
    OBVIOUS
  <1>2. /\ traceList' \in Seq(Contexts) /\ tmpContext' \in Contexts /\ budget' \in Nat
        /\ traceList' # <<>> /\ traceList'[1] = origin'
        /\ Last(traceList') = cpu
        /\ Len(traceList') <= count' /\ Len(traceList') + budget' <= count'
        /\ \A i \in 1..Len(traceList') : traceList'[i].eip \in DOMAIN program'
        /\ TraceFollowsProgram'
        /\ ReplayOK'
    BY <1>1, HookCodeKeeps
  <1>3. TypeOK'
    <2>1. bContinue' \in Flags
      BY DEF IInv, TypeOK, Flags
    <2> QED BY <1>1, <1>2, <2>1 DEF IInv, TypeOK, task
  <1>4. FaultOK' /\ HeadOK' /\ StackOK' /\ BudgetOK' /\ FollowOK'
    BY <1>2 DEF FaultOK, HeadOK, StackOK, BudgetOK, FollowOK, Running
  <1> QED BY <1>2, <1>3, <1>4 DEF IInv

LEMMA FetchFaultIInv == IInv /\ FetchFault => IInv'
  <1> SUFFICES ASSUME IInv, FetchFault PROVE IInv'
    OBVIOUS
  <1> USE DEF FetchFault, Emulating, task
  <1>1. bContinue # "true"
    BY DEF IInv, HeadOK, Running
  <1>2. TypeOK'
    BY DEF IInv, TypeOK, Flags
  <1>3. FaultOK' /\ HeadOK' /\ StackOK' /\ BudgetOK'
    BY <1>1 DEF IInv, FaultOK, HeadOK, StackOK, BudgetOK, Running
  <1>4. FollowOK'
    BY DEF IInv, FollowOK, TraceFollowsProgram, Leads, Running
  <1>5. ReplayOK'
    BY DEF IInv, ReplayOK, IsWalk, Fetched
  <1> QED BY <1>2, <1>3, <1>4, <1>5 DEF IInv

LEMMA BudgetSpentIInv == IInv /\ BudgetSpent => IInv'
  <1> SUFFICES ASSUME IInv, BudgetSpent PROVE IInv'
    OBVIOUS
  <1> USE DEF BudgetSpent, task, emulator
  <1>1. TypeOK'
    BY DEF IInv, TypeOK
  <1>2. FaultOK' /\ HeadOK' /\ StackOK' /\ BudgetOK'
    BY DEF IInv, FaultOK, HeadOK, StackOK, BudgetOK, Running
  <1>3. FollowOK'
    BY DEF IInv, FollowOK, TraceFollowsProgram, Leads, Running
  <1>4. ReplayOK'
    BY DEF IInv, ReplayOK, IsWalk
  <1> QED BY <1>1, <1>2, <1>3, <1>4 DEF IInv

LEMMA StopTracingIInv == IInv /\ StopTracing => IInv'
  <1> SUFFICES ASSUME IInv, StopTracing PROVE IInv'
    OBVIOUS
  <1> USE DEF StopTracing, Stops, task, emulator
  <1>1. TypeOK'
    BY DEF IInv, TypeOK
  <1>2. FaultOK' /\ HeadOK' /\ StackOK' /\ BudgetOK'
    BY DEF IInv, FaultOK, HeadOK, StackOK, BudgetOK, Running
  <1>3. FollowOK'
    BY DEF IInv, FollowOK, TraceFollowsProgram, Leads, Running
  <1>4. ReplayOK'
    BY DEF IInv, ReplayOK, IsWalk
  <1> QED BY <1>1, <1>2, <1>3, <1>4 DEF IInv

\* ESP is in the stack at the end of the trace, and a fault left it so.
LEMMA ContinueWithStackIInv == IInv /\ ContinueWithStack => IInv'
  <1> SUFFICES ASSUME IInv, ContinueWithStack PROVE IInv'
    OBVIOUS
  <1> USE DEF ContinueWithStack, StepsOver, GoesOn, task
  <1>1. /\ traceList \in Seq(Contexts) /\ traceList # <<>> /\ cpu \in Contexts
        /\ program \in Programs /\ bContinue \in Flags
    BY DEF IInv, TypeOK
  <1>2. Last(traceList).eip \in DOMAIN program
    BY <1>1 DEF IInv, FollowOK, Last
  <1>3. /\ Leads(Last(traceList).eip, cpu'.eip)
        /\ cpu' \in Contexts /\ cpu'.esp = cpu.esp
    BY <1>1, <1>2, Coded DEF Contexts
  <1>4. TypeOK'
    BY <1>1, <1>3 DEF IInv, TypeOK, Flags
  <1>5. FaultOK' /\ HeadOK' /\ BudgetOK'
    BY <1>1 DEF IInv, FaultOK, HeadOK, BudgetOK, Running
  <1>6. StackOK'
    <2>1. ASSUME ~ guessed' PROVE cpu.esp = "in"
      <3>1. bContinue = "true"
        BY <2>1, <1>1 DEF Flags
      <3>2. cpu = Last(traceList)
        BY <3>1 DEF IInv, FaultOK
      <3> QED BY <3>2, <1>1 DEF Good, Last
    <2> QED BY <2>1, <1>3 DEF StackOK
  <1>7. FollowOK'
    BY <1>3 DEF IInv, FollowOK, TraceFollowsProgram, Leads
  <1>8. ReplayOK'
    BY DEF IInv, ReplayOK, IsWalk
  <1> QED BY <1>4, <1>5, <1>6, <1>7, <1>8 DEF IInv

LEMMA ContinueRepairedIInv == IInv /\ ContinueRepaired => IInv'
  <1> SUFFICES ASSUME IInv, ContinueRepaired PROVE IInv'
    OBVIOUS
  <1> USE DEF ContinueRepaired, StepsOver, GoesOn, task
  <1>1. traceList \in Seq(Contexts) /\ program \in Programs
    BY DEF IInv, TypeOK
  <1>2. PICK n \in 0..(Len(traceList) - 1) :
          /\ Good(n) /\ Left(n) >= 2
          /\ StepsOver(Repaired(Left(n)))
          /\ cpu' = [eip |-> getNextInsAddr(Last(Repaired(Left(n))).eip),
                     esp |-> Last(Repaired(Left(n))).esp]
    OBVIOUS
  <1>3. n \in Nat /\ n < Len(traceList) /\ n >= 1
    BY <1>1, <1>2 DEF Left
  <1>4. /\ traceList' \in Seq(Contexts)
        /\ Len(traceList') = n + 1
        /\ \A i \in 1..(n + 1) : traceList'[i].eip = traceList[i].eip
        /\ traceList'[1] = traceList[1]
        /\ Last(traceList').esp = traceList[n].esp
        /\ Last(traceList').eip = traceList[n + 1].eip
    BY <1>1, <1>2, <1>3, RepairedTrace
  <1>5. traceList' # <<>> /\ traceList # <<>>
    BY <1>3, <1>4
  <1>6. traceList[n].esp = "in"
    BY <1>1, <1>2, <1>3 DEF Good
  <1>7. Last(traceList').eip \in DOMAIN program
    BY <1>1, <1>3, <1>4 DEF IInv, FollowOK
  <1>8. /\ cpu'.esp = "in" /\ cpu' \in Contexts
        /\ Leads(Last(traceList').eip, cpu'.eip)
    BY <1>1, <1>2, <1>4, <1>6, <1>7, Coded DEF Contexts, Esps
  <1>9. TypeOK'
    BY <1>2, <1>4, <1>8 DEF IInv, TypeOK, Flags
  <1>10. FaultOK' /\ HeadOK' /\ StackOK'
    BY <1>4, <1>5, <1>8 DEF IInv, FaultOK, HeadOK, StackOK, Running
  <1>11. BudgetOK'
    BY <1>1, <1>3, <1>4 DEF IInv, BudgetOK, TypeOK
  <1>12. FollowOK'
    <2>1. \A i \in 1..Len(traceList') : traceList'[i].eip \in DOMAIN program'
      BY <1>1, <1>3, <1>4 DEF IInv, FollowOK
    <2>2. TraceFollowsProgram'
      <3> SUFFICES ASSUME NEW i \in 1..(Len(traceList') - 1)
                   PROVE  Leads(traceList'[i].eip, traceList'[i + 1].eip)
        BY DEF TraceFollowsProgram, Leads
      <3>1. /\ i \in 1..(n + 1) /\ i + 1 \in 1..(n + 1)
            /\ i \in 1..(Len(traceList) - 1)
        BY <1>1, <1>3, <1>4
      <3> QED BY <3>1, <1>4 DEF IInv, FollowOK, TraceFollowsProgram
    <2> QED BY <2>1, <2>2, <1>8 DEF FollowOK, Leads
  <1>13. ReplayOK'
    BY DEF IInv, ReplayOK, IsWalk
  <1> QED BY <1>9, <1>10, <1>11, <1>12, <1>13 DEF IInv

\* With a fault there is a trace; without a good ESP in it, the first one was
\* bad already.
LEMMA ReadOutsideIInv == IInv /\ ReadOutside => IInv'
  <1> SUFFICES ASSUME IInv, ReadOutside PROVE IInv'
    OBVIOUS
  <1> USE DEF ReadOutside, GoesOn, task
  <1>1. traceList \in Seq(Contexts) /\ bContinue \in Flags /\ origin \in Contexts
    BY DEF IInv, TypeOK
  <1>2. guessed' \/ origin'.esp = "out"
    <2>1. CASE traceList = <<>>
      BY <2>1, <1>1 DEF IInv, FaultOK, Flags
    <2>2. CASE traceList # <<>>
      <3>1. Good(0) /\ traceList # <<>>
        BY <2>2, <1>1 DEF Left
      <3>2. traceList[1].esp = "out"
        BY <3>1, <1>1 DEF Good
      <3> QED BY <3>2, <2>2 DEF IInv, HeadOK
    <2> QED BY <2>1, <2>2
  <1>3. TypeOK'
    BY DEF IInv, TypeOK
  <1>4. FaultOK' /\ HeadOK' /\ StackOK' /\ BudgetOK'
    BY <1>2 DEF IInv, FaultOK, HeadOK, StackOK, BudgetOK, Running
  <1>5. FollowOK'
    BY DEF IInv, FollowOK, TraceFollowsProgram, Leads, Running
  <1>6. ReplayOK'
    BY DEF IInv, ReplayOK, IsWalk
  <1> QED BY <1>3, <1>4, <1>5, <1>6 DEF IInv

\* An emulation that has just begun.
LEMMA BeginsIInv ==
  ASSUME program \in Programs, program' = program,
         NEW c \in Contexts, NEW n \in Nat, Begins(c, n),
         behind' \in Contexts \cup {NoContext}, runs' \in Nat,
         guessed' \in BOOLEAN, repaired' \in BOOLEAN
  PROVE  TypeOK' /\ FaultOK' /\ HeadOK' /\ StackOK' /\ BudgetOK' /\ FollowOK'
  <1> USE DEF Begins
  <1>1. TypeOK'
    BY DEF TypeOK, Flags
  <1>2. FaultOK' /\ HeadOK' /\ StackOK' /\ BudgetOK'
    BY DEF FaultOK, HeadOK, StackOK, BudgetOK, Running
  <1>3. FollowOK'
    BY DEF FollowOK, TraceFollowsProgram, Running
  <1> QED BY <1>1, <1>2, <1>3

LEMMA ReplayIInv == IInv /\ Replay => IInv'
  <1> SUFFICES ASSUME IInv, Replay PROVE IInv'
    OBVIOUS
  <1> USE DEF Replay
  <1>1. /\ traceList \in Seq(Contexts) /\ origin \in Contexts /\ runs \in Nat
        /\ program \in Programs /\ guessed \in BOOLEAN /\ repaired \in BOOLEAN
    BY DEF IInv, TypeOK
  <1>2. PICK n \in 2..(Len(traceList) + 1) :
          /\ Begins(origin, n)
          /\ behind' = IF n <= Len(traceList) THEN traceList[n] ELSE NoContext
    BY DEF ReplaySize
  <1>3. behind' \in Contexts \cup {NoContext}
    BY <1>1, <1>2
  <1>4. n \in Nat /\ n >= 2 /\ traceList # <<>>
    BY <1>1, <1>2
  <1>5. TypeOK' /\ FaultOK' /\ HeadOK' /\ StackOK' /\ BudgetOK' /\ FollowOK'
    BY <1>1, <1>2, <1>3, <1>4, BeginsIInv
  <1>6. ReplayOK'
    <2>1. origin.eip \in DOMAIN program
      <3>1. traceList[1] = origin /\ 1 \in 1..Len(traceList)
        BY <1>1, <1>4 DEF IInv, HeadOK
      <3> QED BY <3>1 DEF IInv, FollowOK
    <2> QED BY <2>1, <1>2, <1>4 DEF ReplayOK, Begins
  <1> QED BY <1>5, <1>6 DEF IInv

LEMMA NextWalkIInv == IInv /\ NextWalk => IInv'
  <1> SUFFICES ASSUME IInv, NextWalk PROVE IInv'
    OBVIOUS
  <1>1. tmpContext \in Contexts
    BY DEF IInv, TypeOK, ReplayOK, NextWalk
  <1>2. program \in Programs /\ runs \in Nat /\ WalkSize \in Nat
    BY BoundsAssumption DEF IInv, TypeOK
  <1>3. /\ Begins(tmpContext, WalkSize)
        /\ program' = program /\ behind' = NoContext /\ runs' = runs + 1
        /\ guessed' = FALSE /\ repaired' = FALSE /\ ~ IsWalk
    BY DEF NextWalk
  <1>4. TypeOK' /\ FaultOK' /\ HeadOK' /\ StackOK' /\ BudgetOK' /\ FollowOK'
    <2>1. behind' \in Contexts \cup {NoContext} /\ guessed' \in BOOLEAN /\ repaired' \in BOOLEAN
      BY <1>3, Zenon
    <2>2. runs' \in Nat
      BY <1>2, <1>3
    <2> QED BY <1>1, <1>2, <1>3, <2>1, <2>2, BeginsIInv
  <1>5. IsWalk'
    BY <1>2, <1>3 DEF IsWalk
  <1> QED BY <1>4, <1>5 DEF IInv, ReplayOK

LEMMA NextIInv == IInv /\ [Next]_vars => IInv'
  <1> SUFFICES ASSUME IInv, [Next]_vars PROVE IInv'
    OBVIOUS
  <1>1. CASE StartVmpTrace
    BY <1>1, EmuStartIInv, ExecuteIInv, MemoryFaultIInv, FetchFaultIInv,
       BudgetSpentIInv, StopTracingIInv, ContinueWithStackIInv,
       ContinueRepairedIInv, ReadOutsideIInv DEF StartVmpTrace
  <1>2. CASE Replay
    BY <1>2, ReplayIInv
  <1>3. CASE NextWalk
    BY <1>3, NextWalkIInv
  <1>4. CASE UNCHANGED vars
    <2> USE <1>4 DEF vars, emulator, task
    <2>1. TypeOK'
      BY DEF IInv, TypeOK
    <2>2. FaultOK' /\ HeadOK' /\ StackOK' /\ BudgetOK'
      BY DEF IInv, FaultOK, HeadOK, StackOK, BudgetOK, Running
    <2>3. FollowOK'
      BY DEF IInv, FollowOK, TraceFollowsProgram, Leads, Running
    <2>4. ReplayOK'
      BY DEF IInv, ReplayOK, IsWalk
    <2> QED BY <2>1, <2>2, <2>3, <2>4 DEF IInv
  <1> QED BY <1>1, <1>2, <1>3, <1>4 DEF Next

LEMMA Invariance == Spec => []IInv
  BY InitIInv, NextIInv, PTL DEF Spec

----------------------------------------------------------------------------
(* What follows from it.                                                   *)

\* The state of the emulator has its types, and a task never begins with a
\* context that no hook recorded.
THEOREM EmulatorTypeCorrect == Spec => []TypeOK
  <1>1. IInv => TypeOK
    BY DEF IInv
  <1> QED BY <1>1, Invariance, PTL

\* StartVmpTrace never records more instructions than it was asked for,
\* however often it restarts the emulator.
THEOREM TraceBoundedCorrect == Spec => []TraceBounded
  <1>1. IInv => TraceBounded
    BY DEF IInv, BudgetOK, TraceBounded
  <1> QED BY <1>1, Invariance, PTL

\* After fixStack the emulator goes on with an ESP in the stack.
THEOREM ResumesInStackCorrect == Spec => []ResumesInStack
  <1>1. IInv => ResumesInStack
    BY DEF IInv, StackOK, ResumesInStack
  <1> QED BY <1>1, Invariance, PTL

\* fixStack and StartVmpTrace index the trace within its bounds, unless the
\* uninitialised bContinue was acted on or the run began outside the stack.
THEOREM IndexSafeCorrect == Spec => []IndexSafe
  <1>1. IInv => IndexSafe
    BY DEF IInv, StackOK, IndexSafe
  <1> QED BY <1>1, Invariance, PTL

\* Cutting, repairing and stepping over leave a trace of steps the program
\* makes.
THEOREM TraceFollowsProgramCorrect == Spec => []TraceFollowsProgram
  <1>1. IInv => TraceFollowsProgram
    BY DEF IInv, FollowOK
  <1> QED BY <1>1, Invariance, PTL

----------------------------------------------------------------------------
(* The second emulation of a task against the first.                       *)

\* Has nothing been repaired and bContinue never been guessed, in the walk or
\* in its replay?
Clean == ~ guessed /\ ~ repaired

FaultsIn(p, c) ==
  \/ p[c.eip].access \in {"unmapped", "protected"}
  \/ p[c.eip].access = "stack" /\ c.esp = "out"

\* The emulation gets past context c, and where to.
Passable(p, c) ==
  c.eip \in DOMAIN p /\ (FaultsIn(p, c) => p[c.eip].access # "protected")
Advance(p, c) ==
  IF FaultsIn(p, c)
    THEN [c EXCEPT !.eip = p[c.eip].after]
    ELSE [eip |-> p[c.eip].next,
          esp |-> IF p[c.eip].esp = "keep" THEN c.esp ELSE p[c.eip].esp]

Chain(p, s, n) ==
  \A i \in 1..(n - 1) : Passable(p, s[i]) /\ s[i + 1] = Advance(p, s[i])

\* Why an emulation that begins at o and stands at c ends before its count.
Stuck(p, t, c, o) ==
  \/ t # <<>> /\ ~ Passable(p, Last(t))
  \/ /\ c.eip \notin DOMAIN p
     /\ t = <<>> => c = o
     /\ t # <<>> => Passable(p, Last(t)) /\ c = Advance(p, Last(t))

\* A clean emulation is determined by the program and its first context.
RunOK ==
  Clean =>
    /\ Chain(program, traceList, Len(traceList))
    /\ traceList # <<>> => tmpContext = Last(traceList)
    /\ Running /\ traceList # <<>> =>
         Passable(program, Last(traceList)) /\ cpu = Advance(program, Last(traceList))
    /\ phase = "emulate" => Len(traceList) + budget = count
    /\ phase = "stopped" /\ bContinue = "true" =>
         FaultsIn(program, Last(traceList)) /\ Passable(program, Last(traceList))
    /\ phase = "done" \/ (phase = "stopped" /\ bContinue # "true") =>
         Len(traceList) = count \/ Stuck(program, traceList, cpu, origin)

\* What a walk has left behind: a chain s from the origin to the context behind
\* the handler.
WalkLeft(s) ==
  /\ s[1] = origin /\ Chain(program, s, count)
  /\ s[count] = behind /\ behind.eip \in DOMAIN program

\* The replay goes along the chain the walk has found.
SameOK ==
  Clean /\ ~ IsWalk /\ behind # NoContext =>
    \E s : WalkLeft(s) /\ \A i \in 1..Len(traceList) : traceList[i] = s[i]

RInv == IInv /\ RunOK /\ SameOK

LEMMA HookCodeRun ==
  ASSUME RInv, Emulating, Fetched, HookCode, UNCHANGED <<task, guessed, repaired>>
  PROVE  /\ Clean' => /\ Chain(program', traceList', Len(traceList'))
                      /\ tmpContext' = Last(traceList')
                      /\ Len(traceList') + budget' = count'
         /\ traceList' # <<>> /\ Last(traceList') = cpu
         /\ SameOK'
  <1> USE DEF task
  <1>0. Clean' = Clean
    BY DEF Clean
  <1>1. /\ traceList \in Seq(Contexts) /\ cpu \in Contexts
        /\ budget \in Nat /\ budget > 0 /\ count \in Nat
        /\ Len(traceList) + budget <= count
    BY DEF RInv, IInv, TypeOK, BudgetOK, Emulating
  <1>2. /\ traceList' # <<>> /\ Last(traceList') = cpu
        /\ Len(traceList') = Len(traceList) + 1
        /\ \A i \in 1..Len(traceList) : traceList'[i] = traceList[i]
        /\ traceList'[Len(traceList) + 1] = cpu
        /\ tmpContext' = cpu /\ budget' = budget - 1
    BY <1>1, AppendedTrace DEF HookCode
  <1>3. /\ traceList = <<>> => cpu = origin
        /\ Clean /\ traceList # <<>> =>
             /\ Passable(program, traceList[Len(traceList)])
             /\ cpu = Advance(program, traceList[Len(traceList)])
    BY DEF RInv, IInv, HeadOK, RunOK, Running, Emulating, Last
  <1>4. Clean => Chain(program', traceList', Len(traceList'))
    <2> SUFFICES ASSUME Clean, NEW i \in 1..Len(traceList)
                 PROVE  /\ Passable(program, traceList'[i])
                        /\ traceList'[i + 1] = Advance(program, traceList'[i])
      BY <1>1, <1>2 DEF Chain
    <2>1. CASE i = Len(traceList)
      BY <2>1, <1>1, <1>2, <1>3
    <2>2. CASE i # Len(traceList)
      <3>1. i \in 1..(Len(traceList) - 1) /\ i + 1 \in 1..Len(traceList)
        BY <2>2, <1>1
      <3> QED BY <3>1, <1>2 DEF RInv, RunOK, Chain
    <2> QED BY <2>1, <2>2
  <1>5. Clean => Len(traceList') + budget' = count'
    BY <1>1, <1>2 DEF RInv, RunOK, Emulating
  <1>6. SameOK'
    <2> SUFFICES ASSUME Clean, ~ IsWalk, behind # NoContext
                 PROVE  \E s : WalkLeft(s) /\ \A i \in 1..Len(traceList') : traceList'[i] = s[i]
      BY <1>0 DEF SameOK, IsWalk, WalkLeft
    <2>1. PICK s : WalkLeft(s) /\ \A i \in 1..Len(traceList) : traceList[i] = s[i]
      BY DEF RInv, SameOK
    <2>2. cpu = s[Len(traceList) + 1]
      <3>1. CASE traceList = <<>>
        BY <3>1, <2>1, <1>3 DEF WalkLeft
      <3>2. CASE traceList # <<>>
        <4>1. Len(traceList) \in 1..(count - 1) /\ Len(traceList) \in 1..Len(traceList)
          BY <3>2, <1>1
        <4> QED BY <3>2, <4>1, <2>1, <1>3 DEF WalkLeft, Chain
      <3> QED BY <3>1, <3>2
    <2>3. \A i \in 1..Len(traceList') : traceList'[i] = s[i]
      BY <2>1, <2>2, <1>1, <1>2
    <2> QED BY <2>1, <2>3
  <1> QED BY <1>0, <1>2, <1>4, <1>5, <1>6

\* The steps that leave trace and context alone.
LEMMA SameKept ==
  ASSUME RInv, UNCHANGED <<traceList, task, repaired>>, Clean' => Clean
  PROVE  SameOK'
  <1> SUFFICES ASSUME Clean, ~ IsWalk, behind # NoContext
               PROVE  \E s : WalkLeft(s) /\ \A i \in 1..Len(traceList) : traceList[i] = s[i]
    BY DEF SameOK, IsWalk, WalkLeft, task
  <1> QED BY DEF RInv, SameOK

LEMMA EmuStartRun == RInv /\ EmuStart => RunOK' /\ SameOK'
  <1> SUFFICES ASSUME RInv, EmuStart PROVE RunOK' /\ SameOK'
    OBVIOUS
  <1>1. traceList \in Seq(Contexts) /\ count \in Nat /\ Len(traceList) <= count
    BY DEF RInv, IInv, TypeOK, BudgetOK
  <1>2. RunOK'
    BY <1>1 DEF RInv, RunOK, EmuStart, Clean, Running, Remaining, task
  <1>3. SameOK'
    BY SameKept DEF EmuStart, Clean
  <1> QED BY <1>2, <1>3

LEMMA ExecuteRun == RInv /\ Execute => RunOK' /\ SameOK'
  <1> SUFFICES ASSUME RInv, Execute PROVE RunOK' /\ SameOK'
    OBVIOUS
  <1>1. /\ Emulating /\ Fetched /\ HookCode /\ ~ Faults
        /\ UNCHANGED <<task, guessed, repaired, phase, program, origin>>
        /\ cpu' = [eip |-> Code.next, esp |-> IF Code.esp = "keep" THEN cpu.esp ELSE Code.esp]
    BY DEF Execute, task
  <1>2. /\ Clean' => /\ Chain(program', traceList', Len(traceList'))
                     /\ tmpContext' = Last(traceList')
                     /\ Len(traceList') + budget' = count'
        /\ traceList' # <<>> /\ Last(traceList') = cpu
        /\ SameOK'
    BY <1>1, HookCodeRun
  <1>3. Passable(program, cpu) /\ cpu' = Advance(program, cpu)
    BY <1>1 DEF Passable, Advance, FaultsIn, Faults, Code, Fetched
  <1>4. phase' = "emulate"
    BY <1>1 DEF Emulating
  <1> QED BY <1>1, <1>2, <1>3, <1>4 DEF RunOK

LEMMA MemoryFaultRun == RInv /\ MemoryFault => RunOK' /\ SameOK'
  <1> SUFFICES ASSUME RInv, MemoryFault PROVE RunOK' /\ SameOK'
    OBVIOUS
  <1>1. /\ Emulating /\ Fetched /\ HookCode /\ Faults
        /\ UNCHANGED <<task, guessed, repaired, program, origin, cpu>>
        /\ phase' = "stopped"
        /\ bContinue' = IF Code.access = "protected" THEN bContinue ELSE "true"
    BY DEF MemoryFault, task
  <1>2. /\ Clean' => /\ Chain(program', traceList', Len(traceList'))
                     /\ tmpContext' = Last(traceList')
                     /\ Len(traceList') + budget' = count'
        /\ traceList' # <<>> /\ Last(traceList') = cpu
        /\ SameOK'
    BY <1>1, HookCodeRun
  <1>3. bContinue # "true"
    BY <1>1 DEF RInv, IInv, HeadOK, Running, Emulating
  <1>4. FaultsIn(program, cpu) /\ (Passable(program, cpu) <=> bContinue' = "true")
    BY <1>1, <1>3 DEF Passable, FaultsIn, Faults, Code, Fetched
  <1> QED BY <1>1, <1>2, <1>4 DEF RunOK, Running, Stuck

LEMMA FetchFaultRun == RInv /\ FetchFault => RunOK' /\ SameOK'
  <1> SUFFICES ASSUME RInv, FetchFault PROVE RunOK' /\ SameOK'
    OBVIOUS
  <1>1. /\ Emulating /\ ~ Fetched /\ phase' = "stopped"
        /\ UNCHANGED <<traceList, cpu, tmpContext, task, guessed, repaired, program, origin, count>>
    BY DEF FetchFault, task
  <1>2. bContinue' # "true" /\ (traceList = <<>> => cpu = origin)
    BY <1>1 DEF RInv, IInv, HeadOK, Running, Emulating, FetchFault
  <1>3. Clean => Stuck(program, traceList, cpu, origin)
    BY <1>1, <1>2 DEF RInv, RunOK, Stuck, Running, Emulating, Fetched
  <1>4. RunOK'
    BY <1>1, <1>2, <1>3 DEF RInv, RunOK, Clean, Running
  <1>5. SameOK'
    BY <1>1, SameKept DEF Clean
  <1> QED BY <1>4, <1>5

LEMMA BudgetSpentRun == RInv /\ BudgetSpent => RunOK' /\ SameOK'
  <1> SUFFICES ASSUME RInv, BudgetSpent PROVE RunOK' /\ SameOK'
    OBVIOUS
  <1>1. traceList \in Seq(Contexts) /\ count \in Nat
    BY DEF RInv, IInv, TypeOK
  <1>2. bContinue # "true"
    BY DEF RInv, IInv, HeadOK, Running, BudgetSpent
  <1>3. RunOK'
    BY <1>1, <1>2 DEF RInv, RunOK, BudgetSpent, Clean, Running, emulator, task
  <1>4. SameOK'
    BY SameKept DEF BudgetSpent, Clean, emulator
  <1> QED BY <1>3, <1>4

LEMMA StopTracingRun == RInv /\ StopTracing => RunOK' /\ SameOK'
  <1> SUFFICES ASSUME RInv, StopTracing PROVE RunOK' /\ SameOK'
    OBVIOUS
  <1>1. RunOK'
    BY DEF RInv, RunOK, StopTracing, Stops, Clean, Running, emulator, task
  <1>2. SameOK'
    BY SameKept DEF StopTracing, Clean, emulator
  <1> QED BY <1>1, <1>2

\* A clean emulation goes on only where the hook for memory said so.
LEMMA ContinueWithStackRun == RInv /\ ContinueWithStack => RunOK' /\ SameOK'
  <1> SUFFICES ASSUME RInv, ContinueWithStack PROVE RunOK' /\ SameOK'
    OBVIOUS
  <1>1. /\ traceList # <<>> /\ phase = "stopped" /\ bContinue # "false"
        /\ phase' = "loop" /\ bContinue' = "false"
        /\ cpu' = [cpu EXCEPT !.eip = getNextInsAddr(Last(traceList).eip)]
        /\ guessed' = (guessed \/ bContinue = "unset")
        /\ UNCHANGED <<traceList, tmpContext, repaired, task, program, origin, count>>
    BY DEF ContinueWithStack, GoesOn, StepsOver, task
  <1>2. bContinue \in Flags /\ guessed \in BOOLEAN
    BY DEF RInv, IInv, TypeOK
  <1>3. Clean' => Clean /\ bContinue = "true"
    BY <1>1, <1>2 DEF Clean, Flags
  <1>4. ASSUME Clean'
        PROVE  /\ Passable(program, Last(traceList))
               /\ cpu' = Advance(program, Last(traceList))
    <2>1. /\ FaultsIn(program, Last(traceList)) /\ Passable(program, Last(traceList))
          /\ cpu = Last(traceList)
      BY <1>1, <1>3, <1>4 DEF RInv, RunOK, IInv, FaultOK
    <2> QED BY <2>1, <1>1 DEF Advance, Passable, getNextInsAddr
  <1>5. RunOK'
    BY <1>1, <1>3, <1>4 DEF RInv, RunOK
  <1>6. SameOK'
    BY <1>1, <1>3, SameKept
  <1> QED BY <1>5, <1>6

LEMMA NotClean == ~ Clean' => RunOK' /\ SameOK'
  BY DEF RunOK, SameOK

LEMMA ContinueRepairedRun == ContinueRepaired => RunOK' /\ SameOK'
  BY NotClean DEF ContinueRepaired, Clean

LEMMA ReadOutsideRun == RInv /\ ReadOutside => RunOK' /\ SameOK'
  <1> SUFFICES ASSUME RInv, ReadOutside PROVE RunOK' /\ SameOK'
    OBVIOUS
  <1>1. /\ phase' = "crash" /\ (Clean' => Clean)
        /\ UNCHANGED <<traceList, cpu, tmpContext, repaired, task, program, origin, count>>
    BY DEF ReadOutside, Clean, task, RInv, IInv, TypeOK
  <1>2. RunOK'
    BY <1>1 DEF RInv, RunOK, Running
  <1>3. SameOK'
    BY <1>1, SameKept
  <1> QED BY <1>2, <1>3

LEMMA BegunRun ==
  ASSUME NEW c, NEW n \in Nat, Begins(c, n)
  PROVE  RunOK'
  BY DEF Begins, RunOK, Chain, Running

\* The walk itself is the chain its replay will follow.
LEMMA ReplayRun == RInv /\ Replay => RunOK' /\ SameOK'
  <1> SUFFICES ASSUME RInv, Replay PROVE RunOK' /\ SameOK'
    OBVIOUS
  <1>1. traceList \in Seq(Contexts) /\ program' = program /\ (Clean' => Clean)
    BY DEF RInv, IInv, TypeOK, Replay, Clean
  <1>2. PICK n \in 2..(Len(traceList) + 1) :
          /\ Begins(origin, n)
          /\ behind' = IF n <= Len(traceList) THEN traceList[n] ELSE NoContext
    BY DEF Replay, ReplaySize
  <1>3. n \in Nat /\ n >= 2 /\ traceList # <<>>
    BY <1>1, <1>2
  <1>4. RunOK'
    BY <1>2, <1>3, BegunRun
  <1>5. SameOK'
    <2> SUFFICES ASSUME Clean, behind' # NoContext
                 PROVE  /\ traceList[1] = origin' /\ Chain(program', traceList, count')
                        /\ traceList[count'] = behind' /\ behind'.eip \in DOMAIN program'
                        /\ \A i \in 1..Len(traceList') : traceList'[i] = traceList[i]
      BY <1>1 DEF SameOK, WalkLeft
    <2>1. n \in 1..Len(traceList) /\ behind' = traceList[n]
      BY <1>1, <1>2
    <2>2. origin' = origin /\ count' = n /\ traceList' = <<>>
      BY <1>2 DEF Begins
    <2>3. traceList[1] = origin
      BY <1>3 DEF RInv, IInv, HeadOK
    <2>4. Chain(program, traceList, n)
      BY <1>1, <2>1 DEF RInv, RunOK, Chain
    <2>5. behind'.eip \in DOMAIN program
      BY <2>1 DEF RInv, IInv, FollowOK
    <2> QED BY <1>1, <2>1, <2>2, <2>3, <2>4, <2>5
  <1> QED BY <1>4, <1>5

LEMMA NextWalkRun == RInv /\ NextWalk => RunOK' /\ SameOK'
  <1> SUFFICES ASSUME RInv, NextWalk PROVE RunOK' /\ SameOK'
    OBVIOUS
  <1>1. RunOK'
    BY BegunRun, BoundsAssumption DEF NextWalk
  <1>2. SameOK'
    BY DEF NextWalk, SameOK
  <1> QED BY <1>1, <1>2

LEMMA NextRInv == RInv /\ [Next]_vars => RInv'
  <1> SUFFICES ASSUME RInv, [Next]_vars PROVE RInv'
    OBVIOUS
  <1>0. IInv'
    BY NextIInv DEF RInv
  <1>1. CASE StartVmpTrace
    BY <1>0, <1>1, EmuStartRun, ExecuteRun, MemoryFaultRun, FetchFaultRun,
       BudgetSpentRun, StopTracingRun, ContinueWithStackRun,
       ContinueRepairedRun, ReadOutsideRun DEF StartVmpTrace, RInv
  <1>2. CASE Replay
    BY <1>0, <1>2, ReplayRun DEF RInv
  <1>3. CASE NextWalk
    BY <1>0, <1>3, NextWalkRun DEF RInv
  <1>4. CASE UNCHANGED vars
    <2> USE <1>4 DEF vars, emulator
    <2>1. RunOK'
      BY DEF RInv, RunOK, Clean, Running, task
    <2>2. SameOK'
      BY SameKept DEF Clean
    <2> QED BY <1>0, <2>1, <2>2 DEF RInv
  <1> QED BY <1>1, <1>2, <1>3, <1>4 DEF Next

LEMMA InitRInv == Init => RInv
  <1> SUFFICES ASSUME Init PROVE RInv
    OBVIOUS
  <1>1. RunOK
    BY DEF Init, RunOK, Chain, Running
  <1>2. SameOK
    BY DEF Init, SameOK
  <1> QED BY <1>1, <1>2, InitIInv DEF RInv

\* A clean replay cannot stop early: it would have to be stuck at a context
\* the walk got past.
LEMMA RInvAgrees == RInv => ReplayAgrees
  <1> SUFFICES ASSUME RInv, phase = "done", ~ IsWalk, Clean, behind # NoContext
               PROVE  tmpContext = behind
    BY DEF ReplayAgrees, Clean
  <1>1. /\ traceList \in Seq(Contexts) /\ count \in Nat
        /\ Len(traceList) <= count /\ count >= 2
    BY DEF RInv, IInv, TypeOK, BudgetOK, ReplayOK
  <1>2. PICK s : WalkLeft(s) /\ \A i \in 1..Len(traceList) : traceList[i] = s[i]
    BY DEF RInv, SameOK
  <1>3. traceList # <<>> => /\ Len(traceList) \in 1..Len(traceList)
                            /\ Last(traceList) = s[Len(traceList)]
    BY <1>1, <1>2 DEF Last
  <1>4. \A i \in 1..count : s[i].eip \in DOMAIN program
    <2> SUFFICES ASSUME NEW i \in 1..count PROVE s[i].eip \in DOMAIN program
      OBVIOUS
    <2>1. CASE i = count
      BY <2>1, <1>2 DEF WalkLeft
    <2>2. CASE i # count
      <3>1. i \in 1..(count - 1)
        BY <2>2, <1>1
      <3> QED BY <3>1, <1>2 DEF WalkLeft, Chain, Passable
    <2> QED BY <2>1, <2>2
  <1>5. CASE Len(traceList) = count
    <2>1. traceList # <<>> /\ Last(traceList) = behind
      BY <1>1, <1>2, <1>3, <1>5 DEF WalkLeft
    <2> QED BY <2>1 DEF RInv, RunOK
  <1>6. CASE Len(traceList) # count
    <2>1. Len(traceList) + 1 \in 1..count /\ Stuck(program, traceList, cpu, origin)
      BY <1>1, <1>6 DEF RInv, RunOK
    <2>2. CASE traceList = <<>>
      <3>1. cpu = s[1] /\ cpu.eip \notin DOMAIN program
        BY <2>1, <2>2, <1>2 DEF Stuck, WalkLeft
      <3> QED BY <3>1, <1>1, <1>4
    <2>3. CASE traceList # <<>>
      <3>1. Len(traceList) \in 1..(count - 1)
        BY <2>1, <2>3, <1>1
      <3>2. /\ Passable(program, Last(traceList))
            /\ s[Len(traceList) + 1] = Advance(program, Last(traceList))
        BY <3>1, <2>3, <1>2, <1>3 DEF WalkLeft, Chain
      <3>3. cpu = s[Len(traceList) + 1] /\ cpu.eip \notin DOMAIN program
        BY <3>2, <2>1, <2>3 DEF Stuck
      <3> QED BY <3>3, <2>1, <1>4
    <2> QED BY <2>2, <2>3
  <1> QED BY <1>5, <1>6

\* Emulating a task again, up to the end of the handler of its jump, finds the
\* registers the walk found there (executeVmJmpConst, StartVmpTrace), as long
\* as neither emulation repaired the stack or acted on the uninitialised
\* bContinue.
THEOREM ReplayAgreesCorrect == Spec => []ReplayAgrees
  BY InitRInv, NextRInv, RInvAgrees, PTL DEF Spec

=============================================================================
