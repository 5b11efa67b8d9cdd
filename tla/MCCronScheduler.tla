--------------------------- MODULE MCCronScheduler ---------------------------
(* Three triggers for TLC: one every step, one every second step, one that  *)
(* is due once and then dormant, in lists that replace one another.         *)
EXTENDS CronScheduler

CONSTANTS each, other, once

Times ==
  [t \in Triggers |-> CASE t = each  -> 1 .. MaxTime + 1
                        [] t = other -> {i \in 1 .. MaxTime + 1 : i % 2 = 0}
                        [] t = once  -> {1}]

SomeLists == {<<>>, <<once>>, <<each, other>>, <<other, once>>}
==============================================================================
