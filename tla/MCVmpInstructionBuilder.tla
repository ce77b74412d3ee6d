---------------------- MODULE MCVmpInstructionBuilder ----------------------
(***************************************************************************)
(* Bytes of three bits, so that a word is 64 and a dword 4096 values wide, *)
(* shift counts kept modulo 4, and a stack of 24 bytes.                    *)
(***************************************************************************)
EXTENDS VmpInstructionBuilder, TLC

\* The bits as FuncBuildHelper.cpp has them.
MCFlagBit ==
  ("CF" :> 1) @@ ("PF" :> 4) @@ ("ZF" :> 64) @@ ("SF" :> 128) @@ ("OF" :> 2048)

\* 0; addresses in the stack, one of them odd; the greatest values of a byte,
\* a word and a dword; the least negative dwords; shift counts in every byte.
Dwords == {0, 9, 16, 63, 64, 194, 1365, 2049, 2050, 4095}

Bytes(v) == [i \in 0..3 |-> (v \div 8^i) % 8]

\* The top two dwords are free; the bytes around them count up.
MCMemories ==
  {[i \in 0..23 |-> IF i \in 10..13 THEN Bytes(p[1])[i - 10]
                    ELSE IF i \in 14..17 THEN Bytes(p[2])[i - 14]
                    ELSE i % 8] : p \in Dwords \X Dwords}

Register(r) == [space |-> "register", value |-> r]
MCContexts == {<<Register("eflags"), [space |-> "const", value |-> 1000]>>,
               <<Register("EAX")>>}
MCExits == {<<"EAX", "ESP", "eflags">>, <<"EAX">>}

=============================================================================
