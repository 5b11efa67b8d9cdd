------------------------- MODULE CronSchedulerProofs -------------------------
(* No slot fires twice and no stale one after a reload, for any triggers,   *)
(* slots, lists, grace, length of time and number of reloads.              *)
EXTENDS CronScheduler, WellFoundedInduction, TLAPS

\* Every non-empty set of numbers has a least one, which Min chooses.
LEMMA Least ==
  ASSUME NEW S \in SUBSET Nat, S # {}
  PROVE  Min(S) \in S /\ \A y \in S : Min(S) <= y
<1>1. PICK x \in S : \A y \in S : ~ (<<y, x>> \in OpToRel(<, Nat))
  BY NatLessThanWellFounded, WFMin
<1>2. \A y \in S : ~ (y < x)
  BY <1>1, Zenon DEF OpToRel
<1>4. \A y \in S : x <= y
  BY <1>2
<1>3. QED
  BY <1>4 DEF Min

\* The next slot, if there is one, lies ahead.
LEMMA Ahead ==
  ASSUME NEW t \in Triggers, NEW time \in Nat
  PROVE  /\ Advance(t, time) \in Nat \cup {None}
         /\ Advance(t, time) # None => Advance(t, time) > time
<1> DEFINE next == {s \in Slots[t] : s > time}
<1>1. next \in SUBSET Nat
  BY CronAssumption
<1>2. CASE next = {}
  BY <1>2 DEF Advance
<1>3. CASE next # {}
  <2>1. Advance(t, time) = Min(next)
    BY <1>3 DEF Advance
  <2>2. Min(next) \in next
    BY <1>1, <1>3, Least
  <2>3. QED
    BY <1>1, <2>1, <2>2
<1>4. QED
  BY <1>2, <1>3
-----------------------------------------------------------------------------
\* A list in force, and a batch of it: no trigger twice.
IsListing(crons) ==
  /\ DOMAIN crons \in SUBSET Nat
  /\ \A i \in DOMAIN crons : crons[i] \in [trigger : Triggers, next : Nat \cup {None}]
  /\ \A i, j \in DOMAIN crons : crons[i].trigger = crons[j].trigger => i = j

IsBatch(batch) ==
  /\ DOMAIN batch \in SUBSET Nat /\ DOMAIN batch # {}
  /\ \A i \in DOMAIN batch : batch[i] \in [trigger : Triggers, next : Nat]
  /\ \A i, j \in DOMAIN batch : batch[i].trigger = batch[j].trigger => i = j

IsWorker(w) ==
  w = [at |-> w.at, batch |-> w.batch, generation |-> w.generation, horizon |-> w.horizon,
       seenAt |-> w.seenAt, deadline |-> w.deadline, notified |-> w.notified]

Dispatching == worker.at \in {"check", "dispatch"}

CronTypes ==
  /\ now \in Nat /\ generation \in Nat
  /\ IsListing(schedules)
  /\ watcher # None => IsListing(watcher)
  /\ last \in [Triggers -> [slot : Nat, generation : Nat]]
  /\ IsWorker(worker) /\ worker.generation \in Nat
  /\ Dispatching => IsBatch(worker.batch)

\* Nothing is of a list that is still to come, and what was late is of a list that is over.
Generations ==
  /\ worker.generation <= generation
  /\ \A t \in Triggers : last[t].generation <= generation
  /\ \A g \in late : g = None \/ (g \in Nat /\ g < generation)
  /\ None \in late => shutdown

\* Of the list in force, what comes next comes after what was dispatched.
ScheduleAhead ==
  \A i \in DOMAIN schedules :
    LET cron == schedules[i] IN
    cron.next # None /\ last[cron.trigger].generation = generation => last[cron.trigger].slot < cron.next

\* So does the batch, and what the list has next comes after the batch.
BatchAhead ==
  Dispatching => \A i \in DOMAIN worker.batch :
    LET cron == worker.batch[i] IN
    last[cron.trigger].generation = worker.generation => last[cron.trigger].slot < cron.next

BatchBefore ==
  Dispatching /\ worker.generation = generation =>
    \A i \in DOMAIN worker.batch, j \in DOMAIN schedules :
      worker.batch[i].trigger = schedules[j].trigger /\ schedules[j].next # None
        => worker.batch[i].next < schedules[j].next

CronInv ==
  CronTypes /\ Generations /\ ScheduleAhead /\ BatchAhead /\ BatchBefore /\ StaleFireIsLast
-----------------------------------------------------------------------------
LEMMA CompiledIsListing ==
  ASSUME NEW list \in Lists, NEW time \in Nat PROVE IsListing(Compiled(list, time))
<1>1. list \in Seq(Triggers) /\ IsInjective(list)
  BY CronAssumption
<1>2. \A i \in DOMAIN list : list[i] \in Triggers /\ Advance(list[i], time) \in Nat \cup {None}
  BY <1>1, Ahead
<1>3. DOMAIN list = 1 .. Len(list) /\ Len(list) \in Nat
  BY <1>1
<1>4. QED
  BY <1>1, <1>2, <1>3 DEF IsListing, Compiled, IsInjective

LEMMA CronInit == Init => CronInv
<1> SUFFICES ASSUME Init PROVE CronInv
  OBVIOUS
<1>1. IsListing(schedules)
  BY CompiledIsListing DEF Init
<1>2. /\ worker.at = "top" /\ worker.generation = 0 /\ IsWorker(worker)
      /\ now = 0 /\ generation = 1 /\ watcher = None /\ late = {}
      /\ last = [t \in Triggers |-> [slot |-> 0, generation |-> 0]]
  BY DEF Init, Asleep, IsWorker
<1>3. \A i \in DOMAIN schedules : last[schedules[i].trigger].generation = 0
  BY <1>1, <1>2 DEF IsListing
<1>4. QED
  BY <1>1, <1>2, <1>3
     DEF CronInv, CronTypes, Dispatching, Generations, ScheduleAhead,
         BatchAhead, BatchBefore, StaleFireIsLast

\* The watcher, the clock and the end: a new list is a new generation.
LEMMA CronOthers == CronInv /\ (Tick \/ Reload \/ Shutdown) => CronInv'
<1> SUFFICES ASSUME CronInv, Tick \/ Reload \/ Shutdown PROVE CronInv'
  OBVIOUS
<1> USE DEF CronInv, CronTypes, Generations, ScheduleAhead, BatchAhead, BatchBefore,
            StaleFireIsLast, Dispatching
<1>1. CASE Tick
  BY <1>1 DEF Tick
<1>2. CASE Reload
  BY <1>2, CompiledIsListing DEF Reload
<1>3. CASE Shutdown
  <2>1. worker' = [worker EXCEPT !.notified = @ \/ worker.at = "waiting"]
    BY <1>3 DEF Shutdown, Notified
  <2>2. QED
    BY <1>3, <2>1 DEF Shutdown, IsWorker
<1>4. QED
  BY <1>1, <1>2, <1>3

LEMMA CronSwaps == CronInv /\ Swap => CronInv'
<1> SUFFICES ASSUME CronInv, Swap PROVE CronInv'
  OBVIOUS
<1> USE DEF CronInv, CronTypes, Generations, ScheduleAhead, BatchAhead, BatchBefore,
            StaleFireIsLast, Dispatching, Swap
<1>1. worker' = [worker EXCEPT !.notified = @ \/ worker.at = "waiting"]
  BY DEF Notified
<1>2. /\ worker'.at = worker.at /\ worker'.batch = worker.batch
      /\ worker'.generation = worker.generation /\ IsWorker(worker')
  BY <1>1 DEF IsWorker
<1>3. \A t \in Triggers : last[t].generation # generation'
  OBVIOUS
<1>4. CronTypes' /\ Generations'
  BY <1>2
<1>5. ScheduleAhead'
  <2>1. \A i \in DOMAIN schedules' : schedules'[i].trigger \in Triggers
    BY DEF IsListing
  <2>2. QED
    BY <1>3, <2>1
<1>6. QED
  BY <1>2, <1>4, <1>5
-----------------------------------------------------------------------------
\* The worker, where it only goes on.
LEMMA CronGoes ==
  ASSUME CronInv, UNCHANGED <<now, schedules, generation, shutdown, watcher, last, late>>,
         IsWorker(worker'), ~Dispatching', worker'.generation = worker.generation
  PROVE  CronInv'
BY DEF CronInv, CronTypes, Generations, ScheduleAhead, BatchAhead, BatchBefore, StaleFireIsLast, Dispatching

LEMMA CronParks == CronInv /\ (Park \/ WakesUp) => CronInv'
<1> SUFFICES ASSUME CronInv, Park \/ WakesUp PROVE CronInv'
  OBVIOUS
<1>1. UNCHANGED <<now, schedules, generation, shutdown, watcher, last, late>>
  BY DEF Park, WakesUp
<1>2. IsWorker(worker') /\ worker'.generation = worker.generation /\ worker'.at \in {"ended", "top", "waiting"}
  BY DEF Park, WakesUp, Ends, Goes, WaitsUntil, CronInv, CronTypes, IsWorker
<1>3. QED
  BY <1>1, <1>2, CronGoes DEF Dispatching

LEMMA CronChecks == CronInv /\ Check => CronInv'
<1> SUFFICES ASSUME CronInv, Check PROVE CronInv'
  OBVIOUS
<1>1. UNCHANGED <<now, schedules, generation, shutdown, watcher, last, late>>
  BY DEF Check
<1>2. CASE Ends \/ Goes("top")
  <2>1. IsWorker(worker') /\ worker'.generation = worker.generation /\ worker'.at \in {"ended", "top"}
    BY <1>2 DEF Ends, Goes, CronInv, CronTypes, IsWorker
  <2>2. QED
    BY <1>1, <2>1, CronGoes DEF Dispatching
<1>3. CASE ~shutdown /\ worker.generation = generation /\ Goes("dispatch")
  <2>1. /\ IsWorker(worker') /\ worker'.generation = worker.generation
        /\ worker'.batch = worker.batch /\ Dispatching
    BY <1>3 DEF Check, Goes, CronInv, CronTypes, IsWorker, Dispatching
  <2>2. late \cap {worker.generation, None} = {}
    BY <1>3, CronAssumption DEF CronInv, CronTypes, Generations
  <2>3. QED
    BY <1>1, <2>1, <2>2
       DEF CronInv, CronTypes, Generations, ScheduleAhead, BatchAhead, BatchBefore, StaleFireIsLast,
           Dispatching
<1>4. QED
  BY <1>2, <1>3 DEF Check

-----------------------------------------------------------------------------
\* What is dispatched comes out of the batch, and only of one list.
LEMMA CronDispatches == CronInv /\ Dispatch => CronInv'
<1> SUFFICES ASSUME CronInv, Dispatch PROVE CronInv'
  OBVIOUS
<1> DEFINE batch == worker.batch
           first == First(batch)
           cron == batch[first]
           rest == DOMAIN batch \ {first}
<1>1. IsBatch(batch) /\ Dispatching
  BY DEF CronInv, CronTypes, Dispatching, Dispatch
<1>2. first \in DOMAIN batch /\ cron \in [trigger : Triggers, next : Nat]
  BY <1>1, Least DEF IsBatch, First
<1>3. /\ last' = [last EXCEPT ![cron.trigger] = [slot |-> cron.next, generation |-> worker.generation]]
      /\ late' = late \cup (IF worker.generation # generation THEN {worker.generation} ELSE {})
                      \cup (IF shutdown THEN {None} ELSE {})
      /\ worker' = [worker EXCEPT !.batch = Restrict(@, rest), !.at = IF rest = {} THEN "top" ELSE "check"]
      /\ UNCHANGED <<now, schedules, generation, shutdown, watcher>>
  BY DEF Dispatch
<1>4. /\ IsWorker(worker') /\ worker'.generation = worker.generation
      /\ worker'.batch = Restrict(batch, rest) /\ worker'.at = IF rest = {} THEN "top" ELSE "check"
  BY <1>3 DEF IsWorker, CronInv, CronTypes
<1>5. /\ DOMAIN worker'.batch = rest
      /\ \A i \in rest : worker'.batch[i] = batch[i] /\ batch[i].trigger # cron.trigger
  BY <1>1, <1>2, <1>4 DEF Restrict, IsBatch
<1>6. Dispatching' => IsBatch(worker'.batch)
  BY <1>1, <1>4, <1>5 DEF IsBatch, Dispatching
<1>7. last' \in [Triggers -> [slot : Nat, generation : Nat]]
  BY <1>2, <1>3 DEF CronInv, CronTypes
<1>8. CronTypes'
  BY <1>3, <1>4, <1>6, <1>7 DEF CronInv, CronTypes
<1>9. /\ last'[cron.trigger] = [slot |-> cron.next, generation |-> worker.generation]
      /\ \A t \in Triggers : t # cron.trigger => last'[t] = last[t]
  BY <1>2, <1>3 DEF CronInv, CronTypes
<1>10. Generations'
  <2>1. worker.generation \in Nat /\ worker.generation <= generation /\ generation \in Nat /\ None \notin Nat
    BY CronAssumption DEF CronInv, CronTypes, Generations
  <2>2. \A t \in Triggers : last'[t].generation <= generation
    BY <1>9, <2>1 DEF CronInv, Generations
  <2>3. \A g \in late' : g = None \/ (g \in Nat /\ g < generation)
    BY <1>3, <2>1 DEF CronInv, Generations
  <2>4. None \in late' => shutdown
    BY <1>3, <2>1 DEF CronInv, Generations
  <2>5. QED
    BY <1>3, <1>4, <2>1, <2>2, <2>3, <2>4 DEF Generations
<1>11. ScheduleAhead'
  <2> SUFFICES ASSUME NEW i \in DOMAIN schedules, schedules[i].next # None,
                      last'[schedules[i].trigger].generation = generation
               PROVE  last'[schedules[i].trigger].slot < schedules[i].next
    BY <1>3 DEF ScheduleAhead
  <2>1. schedules[i].trigger \in Triggers
    BY DEF CronInv, CronTypes, IsListing
  <2>2. CASE schedules[i].trigger = cron.trigger
    BY <1>1, <1>2, <1>9, <2>2 DEF CronInv, BatchBefore
  <2>3. CASE schedules[i].trigger # cron.trigger
    BY <1>9, <2>1, <2>3 DEF CronInv, ScheduleAhead
  <2>4. QED
    BY <2>2, <2>3
<1>12. BatchAhead'
  <2> SUFFICES ASSUME NEW i \in rest, last'[batch[i].trigger].generation = worker.generation
               PROVE  last'[batch[i].trigger].slot < batch[i].next
    BY <1>4, <1>5 DEF BatchAhead
  <2>1. batch[i].trigger \in Triggers /\ batch[i].trigger # cron.trigger
    BY <1>1, <1>5 DEF IsBatch
  <2>2. QED
    BY <1>1, <1>9, <2>1 DEF CronInv, BatchAhead
<1>13. BatchBefore'
  <2> SUFFICES ASSUME worker.generation = generation, NEW i \in rest, NEW j \in DOMAIN schedules,
                      batch[i].trigger = schedules[j].trigger, schedules[j].next # None
               PROVE  batch[i].next < schedules[j].next
    <3> DEFINE left == worker'.batch
    <3>1. \A i \in DOMAIN left : i \in rest /\ left[i] = batch[i]
      BY <1>5
    <3> HIDE DEF left, rest, batch
    <3>2. QED
      BY <1>3, <1>4, <3>1 DEF BatchBefore, left
  <2>1. i \in DOMAIN batch
    OBVIOUS
  <2>2. \A k \in DOMAIN batch, l \in DOMAIN schedules :
          batch[k].trigger = schedules[l].trigger /\ schedules[l].next # None
            => batch[k].next < schedules[l].next
    BY <1>1 DEF CronInv, BatchBefore
  <2> HIDE DEF rest, batch
  <2> QED BY <2>1, <2>2
<1>14. StaleFireIsLast'
  BY <1>4 DEF StaleFireIsLast
<1>15. QED
  BY <1>8, <1>10, <1>11, <1>12, <1>13, <1>14 DEF CronInv

\* What is due goes into the batch, and its next slot lies after now.
LEMMA CronEvaluates == CronInv /\ Evaluate => CronInv'
<1> SUFFICES ASSUME CronInv, Evaluate PROVE CronInv'
  OBVIOUS
<1>1. CASE UNCHANGED schedules /\ worker'.at \in {"ended", "waiting"} /\ (Ends \/ WaitsUntil(None))
  <2>1. IsWorker(worker') /\ worker'.generation = worker.generation
    BY <1>1 DEF Ends, WaitsUntil, CronInv, CronTypes, IsWorker
  <2>2. QED
    BY <1>1, <2>1, CronGoes DEF Evaluate, Dispatching
<1> DEFINE due == {i \in DOMAIN schedules : IsDue(schedules[i]) /\ ~Missed(schedules[i])}
           missed == \E i \in DOMAIN schedules : Missed(schedules[i])
           advanced == [i \in DOMAIN schedules |->
                          IF IsDue(schedules[i])
                          THEN [schedules[i] EXCEPT !.next = Advance(schedules[i].trigger, now)]
                          ELSE schedules[i]]
<1>2. CASE /\ schedules' = advanced
           /\ worker' = [worker EXCEPT
                !.at = IF due # {} THEN "check" ELSE IF missed THEN "top" ELSE "park",
                !.batch = Restrict(schedules, due), !.generation = generation,
                !.horizon = Horizon(advanced), !.seenAt = now]
  <2>1. /\ IsWorker(worker') /\ worker'.generation = generation
        /\ worker'.batch = Restrict(schedules, due)
        /\ worker'.at = IF due # {} THEN "check" ELSE IF missed THEN "top" ELSE "park"
    BY <1>2 DEF IsWorker, CronInv, CronTypes
  <2>2. UNCHANGED <<now, generation, shutdown, watcher, last, late>>
    BY DEF Evaluate
  <2>3. /\ DOMAIN schedules \in SUBSET Nat
        /\ \A i \in DOMAIN schedules : schedules[i] \in [trigger : Triggers, next : Nat \cup {None}]
        /\ \A i, j \in DOMAIN schedules : schedules[i].trigger = schedules[j].trigger => i = j
    BY DEF CronInv, CronTypes, IsListing
  <2>4. ASSUME NEW i \in DOMAIN schedules
        PROVE  /\ advanced[i] \in [trigger : Triggers, next : Nat \cup {None}]
               /\ advanced[i].trigger = schedules[i].trigger
               /\ ~IsDue(schedules[i]) => advanced[i] = schedules[i]
               /\ IsDue(schedules[i]) =>
                    /\ schedules[i].next \in Nat /\ schedules[i].next <= now
                    /\ advanced[i].next # None => schedules[i].next < advanced[i].next
    <3>1. /\ Advance(schedules[i].trigger, now) \in Nat \cup {None}
          /\ Advance(schedules[i].trigger, now) # None => Advance(schedules[i].trigger, now) > now
      BY <2>3, Ahead DEF CronInv, CronTypes
    <3>2. CASE IsDue(schedules[i])
      <4>1. schedules[i].next \in Nat /\ schedules[i].next <= now /\ now \in Nat
        BY <2>3, <3>2 DEF IsDue, CronInv, CronTypes
      <4>2. advanced[i] = [trigger |-> schedules[i].trigger, next |-> Advance(schedules[i].trigger, now)]
        BY <2>3, <3>2
      <4>3. QED
        BY <2>3, <3>1, <3>2, <4>1, <4>2
    <3>3. CASE ~IsDue(schedules[i])
      BY <2>3, <3>3
    <3>4. QED
      BY <3>2, <3>3
  <2> HIDE DEF advanced
  <2>5. IsListing(schedules')
    <3>1. DOMAIN advanced = DOMAIN schedules
      BY DEF advanced
    <3>2. QED
      BY <1>2, <2>3, <2>4, <3>1 DEF IsListing
  <2>6. DOMAIN schedules' = DOMAIN schedules /\ \A i \in DOMAIN schedules : schedules'[i] = advanced[i]
    BY <1>2 DEF advanced
  <2>7. /\ DOMAIN worker'.batch = due
        /\ \A i \in due : worker'.batch[i] = schedules[i] /\ i \in DOMAIN schedules /\ IsDue(schedules[i])
    BY <2>1 DEF Restrict
  <2>8. Dispatching' => IsBatch(worker'.batch)
    <3> SUFFICES ASSUME due # {} PROVE IsBatch(worker'.batch)
      BY <2>1 DEF Dispatching
    <3>1. \A i \in due : worker'.batch[i] \in [trigger : Triggers, next : Nat]
      BY <2>3, <2>4, <2>7
    <3>2. due \in SUBSET Nat
      BY <2>3
    <3>3. QED
      BY <2>3, <2>7, <3>1, <3>2 DEF IsBatch
  <2>9. CronTypes'
    BY <2>1, <2>2, <2>5, <2>8 DEF CronInv, CronTypes
  <2>10. Generations'
    BY <2>1, <2>2 DEF CronInv, CronTypes, Generations
  <2>11. ScheduleAhead'
    <3> SUFFICES ASSUME NEW i \in DOMAIN schedules, advanced[i].next # None,
                        last[schedules[i].trigger].generation = generation
                 PROVE  last[schedules[i].trigger].slot < advanced[i].next
      BY <2>2, <2>4, <2>6 DEF ScheduleAhead
    <3>1. schedules[i].next # None => last[schedules[i].trigger].slot < schedules[i].next
      BY DEF CronInv, ScheduleAhead
    <3>2. CASE IsDue(schedules[i])
      <4>1. schedules[i].next < advanced[i].next /\ schedules[i].next # None
        BY <2>4, <3>2 DEF IsDue
      <4>2. last[schedules[i].trigger].slot \in Nat /\ schedules[i].next \in Nat /\ advanced[i].next \in Nat
        BY <2>3, <2>4, <3>2 DEF CronInv, CronTypes
      <4>3. QED
        BY <3>1, <4>1, <4>2
    <3>3. CASE ~IsDue(schedules[i])
      BY <2>4, <3>1, <3>3
    <3>4. QED
      BY <3>2, <3>3
  <2>12. BatchAhead'
    BY <2>1, <2>2, <2>7 DEF CronInv, ScheduleAhead, BatchAhead, IsDue
  <2>13. BatchBefore'
    BY <2>2, <2>3, <2>4, <2>6, <2>7 DEF BatchBefore
  <2>14. StaleFireIsLast'
    BY <2>1 DEF StaleFireIsLast
  <2>15. QED
    BY <2>9, <2>10, <2>11, <2>12, <2>13, <2>14 DEF CronInv
<1>3. (Ends \/ WaitsUntil(None)) /\ UNCHANGED schedules => worker'.at \in {"ended", "waiting"}
  BY DEF Ends, WaitsUntil, CronInv, CronTypes, IsWorker
<1>4. QED
  BY <1>1, <1>2, <1>3 DEF Evaluate
-----------------------------------------------------------------------------
LEMMA CronStep == CronInv /\ [Next]_vars => CronInv'
<1> SUFFICES ASSUME CronInv, [Next]_vars PROVE CronInv'
  OBVIOUS
<1>1. CASE Tick \/ Reload \/ Shutdown
  BY <1>1, CronOthers
<1>2. CASE Swap
  BY <1>2, CronSwaps
<1>3. CASE Evaluate
  BY <1>3, CronEvaluates
<1>4. CASE Check
  BY <1>4, CronChecks
<1>5. CASE Dispatch
  BY <1>5, CronDispatches
<1>6. CASE Park \/ Wake \/ WakeSpuriously
  BY <1>6, CronParks DEF Wake, WakeSpuriously
<1>7. CASE UNCHANGED vars
  BY <1>7 DEF vars, CronInv, CronTypes, Generations, ScheduleAhead, BatchAhead, BatchBefore,
              StaleFireIsLast, Dispatching
<1>8. QED
  BY <1>1, <1>2, <1>3, <1>4, <1>5, <1>6, <1>7 DEF Next, Worker

LEMMA CronGoal == CronInv => FiresInForce
<1> SUFFICES ASSUME CronInv, worker.at = "dispatch" PROVE FiresForward
  BY DEF FiresInForce, FiresForward, CronInv
<1>1. IsBatch(worker.batch)
  BY DEF CronInv, CronTypes, Dispatching
<1>2. First(worker.batch) \in DOMAIN worker.batch
  BY <1>1, Least DEF IsBatch, First
<1>3. QED
  BY <1>2 DEF CronInv, BatchAhead, Dispatching, FiresForward

(* FiresInForce always: no list dispatches a slot twice, and after a reload or a shutdown at most
   what was decided before still fires, for any lists and any slots. *)
THEOREM NothingFiresTwice == Spec => []FiresInForce
<1>1. Spec => []CronInv
  BY CronInit, CronStep, PTL DEF Spec
<1>2. QED
  BY <1>1, CronGoal, PTL
==============================================================================
