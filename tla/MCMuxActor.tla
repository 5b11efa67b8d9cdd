----------------------------- MODULE MCMuxActor -----------------------------
(* Instances of MuxActor for TLC. *)
EXTENDS MuxActor

AViewports == {[cols |-> 6, rows |-> 3], [cols |-> 1, rows |-> 2]}

AnOps ==
  {[kind |-> "swap", delta |-> 1], [kind |-> "rotate", up |-> TRUE], [kind |-> "spread"],
   [kind |-> "preset", preset |-> "main-vertical"], [kind |-> "preset", preset |-> "tiled"]}

Blank == [pane |-> NoOne, terminal |-> NoOne]

\* A snapshot with two tabs, the second active and split off its middle.
ASaved == {<<[shape |-> Leaf(Blank), active |-> FALSE],
             [shape |-> Branch("down", 290, Leaf(Blank), Leaf(Blank)), active |-> TRUE]>>}

Interchangeable == Permutations(Clients)
=============================================================================
