-------------------------- MODULE MCVmpControlFlow --------------------------
(* Graphs of a few blocks, a native one and virtual ones at one raw address. *)
EXTENDS VmpControlFlow

MCVmAddress3 == {<<1, 0>>, <<2, 1>>, <<2, 2>>}
MCVmAddress == MCVmAddress3 \cup {<<3, 0>>}
MCStarts == {<<1, 0>>}

=============================================================================
