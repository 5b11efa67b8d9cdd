----------------------------- MODULE MCGuiRegistry -----------------------------
(***************************************************************************)
(* Bounds of the GuiRegistry runs: one connection with two calls, a channel *)
(* of two lines in place of 512 and the heartbeat's own two misses; or      *)
(* three connections, of which two want to be primary, without calls.       *)
(***************************************************************************)
EXTENDS GuiRegistry, TLC

CONSTANTS k1, k2, k3, c1, c2

(* k1 and k2 differ in nothing when both want to be primary and nobody     *)
(* calls a method.                                                         *)
WantingAlike == Permutations({k1, k2})
================================================================================
