-------------------------- MODULE MCVmpReEngine --------------------------
(***************************************************************************)
(* A cache of two for three functions.                                     *)
(***************************************************************************)
EXTENDS VmpReEngine, TLC

Symmetries == Permutations(Address) \cup Permutations(Pointers)

===========================================================================
