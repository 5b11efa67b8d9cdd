-------------------------------- MODULE Picking --------------------------------
(* What a `retain`, a `filter` or a stable `sort_by_key` makes of a Vec: the  *)
(* elements at some places of a sequence, in their order. A SelectSeq that    *)
(* names its places, so that it can be reasoned about.                        *)
EXTENDS Integers, FiniteSets, Sequences

Picked(seq, places) ==
    [k \in 1 .. Cardinality(places) |->
        seq[CHOOSE i \in places : Cardinality({j \in places : j <= i}) = k]]
================================================================================
