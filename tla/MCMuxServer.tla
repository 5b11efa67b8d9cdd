----------------------------- MODULE MCMuxServer -----------------------------
(* Instances of MuxServer for TLC. *)
EXTENDS MuxServer, TLC

CONSTANTS c1, c2

TwoSizes == (c1 :> 2) @@ (c2 :> 1)
OneSize == (c1 :> 2)

Replacement == (c1 :> None) @@ (c2 :> c1)
NoReplacement == (c1 :> None)

Viewing == (c1 :> {"resize", "env", "chord"}) @@ (c2 :> {"redraw", "detach", "ping"})
Calling == (c1 :> {"command", "kill", "drag"})
=============================================================================
