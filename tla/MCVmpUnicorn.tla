--------------------------- MODULE MCVmpUnicorn ---------------------------
(***************************************************************************)
(* Programs of three instructions, each of which goes straight on or back  *)
(* to the first one: by a jump whose target getNextInsAddr finds, or by    *)
(* one through a register, which it steps over.                            *)
(***************************************************************************)
EXTENDS VmpUnicorn

Last3 == 3

Ways(a) == {<<a + 1, a + 1>>, <<1, 1>>, <<1, a + 1>>}

Effects == {<<"keep", "none">>, <<"out", "none">>, <<"in", "none">>,
            <<"keep", "stack">>, <<"keep", "unmapped">>}

Protected == [next |-> Last3, after |-> Last3, esp |-> "out", access |-> "protected"]

MCInstructions(a) ==
  {[next |-> w[1], after |-> w[2], esp |-> e[1], access |-> e[2]] :
     w \in Ways(a), e \in Effects}

MCPrograms ==
  {<<x, y, z>> : x \in {i \in MCInstructions(1) : i.next = 2},
                 y \in MCInstructions(2) \cup {Protected},
                 z \in MCInstructions(Last3)}

===========================================================================
