------------------------------ MODULE MCMuxApp ------------------------------
(* Instances of MuxApp for TLC. *)
EXTENDS MuxApp

AScreens == {[cols |-> 3, rows |-> 2]}

SomeNudges == {[axis |-> "down", grow |-> TRUE]}

SomeOps == {[kind |-> "swap", delta |-> 1]}

Interchangeable == Permutations(Pointers)
=============================================================================
