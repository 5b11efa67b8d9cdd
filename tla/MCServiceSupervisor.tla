------------------------ MODULE MCServiceSupervisor ------------------------
(* Instances of ServiceSupervisor for TLC: two actions, of which the glob   *)
(* of an onAction service matches both, and up to three calls.              *)
EXTENDS ServiceSupervisor, TLC

CONSTANTS a1, a2, c1, c2, c3

BothActions == {a1, a2}
OneAction == {a1}
SameAction == [c \in Calls |-> a1]
TwoActions == [c \in Calls |-> IF c = c1 THEN a1 ELSE a2]

CallSymmetry == Permutations(Calls)
============================================================================
