---------------------------- MODULE CronScheduler ----------------------------
(***************************************************************************)
(* Triggers fired by the clock (copad-daemon/src/cron_scheduler.rs): one   *)
(* worker thread sleeps until the soonest slot, dispatches what is due and *)
(* computes what comes next; the config watcher swaps the list under it,   *)
(* and the daemon shuts it down.                                           *)
(*                                                                         *)
(* A schedule is its set of slots; one with no slot to come is dormant.    *)
(* The clock runs in whole steps and never back; GRACE is counted in them. *)
(* Each action is one section under the scheduler's lock, the dispatch     *)
(* between two sections, or a wait. What a trigger does is left out, and   *)
(* so are expressions that do not parse: reload drops them.                *)
(***************************************************************************)
EXTENDS Naturals, FiniteSets, Sequences, SequencesExt

CONSTANTS
  Triggers,
  Slots,         \* when each trigger is due
  Lists,         \* the cron triggers of a config file, in its order
  GRACE,
  None,
  MaxTime,       \* the clock stops here; slots beyond it never come
  MaxReloads     \* bounds the edits of the config file

ASSUME CronAssumption ==
  /\ MaxTime \in Nat /\ MaxReloads \in Nat /\ GRACE \in Nat
  /\ Slots \in [Triggers -> SUBSET Nat]
  /\ \A list \in Lists : list \in Seq(Triggers) /\ IsInjective(list)
  /\ None \notin Nat

VARIABLES
  now,
  schedules,     \* per trigger in force, in the order of the list, its next slot
  generation,
  shutdown,
  worker,        \* where the thread is, its batch, and what it saw under the lock
  watcher,       \* the list it has compiled and not yet swapped in
  last,          \* per trigger, its last dispatch: the slot, and the generation it was of
  late           \* the generations dispatched from when they were over; None: after the shutdown

vars == <<now, schedules, generation, shutdown, worker, watcher, last, late>>
-----------------------------------------------------------------------------
(* Mutant: the next slot may be the one that is now.                       *)
AdvanceFrom(t, time) ==
  LET next == {s \in Slots[t] : s >= time} IN IF next = {} THEN None ELSE Min(next)

\* Strictly after, or the slot would fire again within its second.
Advance(t, time) ==
  LET next == {s \in Slots[t] : s > time} IN IF next = {} THEN None ELSE Min(next)

Compiled(list, time) ==
  [i \in DOMAIN list |-> [trigger |-> list[i], next |-> Advance(list[i], time)]]

IsDue(cron) == cron.next # None /\ cron.next <= now

Missed(cron) == IsDue(cron) /\ cron.next + GRACE < now

Horizon(crons) ==
  LET nexts == {c.next : c \in ToSet(crons)} \ {None} IN IF nexts = {} THEN None ELSE Min(nexts)
-----------------------------------------------------------------------------
Asleep == [at |-> "top", batch |-> <<>>, generation |-> 0, horizon |-> None, seenAt |-> 0,
           deadline |-> None, notified |-> FALSE]

\* main: the first list is read, then the thread is spawned.
Init ==
  /\ now = 0
  /\ \E list \in Lists : schedules = Compiled(list, 0)
  /\ generation = 1
  /\ shutdown = FALSE
  /\ worker = Asleep
  /\ watcher = None
  /\ last = [t \in Triggers |-> [slot |-> 0, generation |-> 0]]
  /\ late = {}

Tick == now < MaxTime /\ now' = now + 1 /\ UNCHANGED <<schedules, generation, shutdown, worker, watcher, last, late>>
-----------------------------------------------------------------------------
(* The config watcher: reload, and the end of main *)

\* The clock is read before the lock is taken.
Reload ==
  /\ watcher = None /\ generation <= MaxReloads
  /\ \E list \in Lists : watcher' = Compiled(list, now)
  /\ UNCHANGED <<now, schedules, generation, shutdown, worker, last, late>>

Notified == [worker EXCEPT !.notified = @ \/ worker.at = "waiting"]

Swap ==
  /\ watcher # None
  /\ schedules' = watcher
  /\ generation' = generation + 1
  /\ worker' = Notified
  /\ watcher' = None
  /\ UNCHANGED <<now, shutdown, last, late>>

Shutdown ==
  /\ ~shutdown
  /\ shutdown' = TRUE
  /\ worker' = Notified
  /\ UNCHANGED <<now, schedules, generation, watcher, last, late>>
-----------------------------------------------------------------------------
(* worker_loop *)

Ends == shutdown /\ worker' = [worker EXCEPT !.at = "ended"]

Goes(place) == worker' = [worker EXCEPT !.at = place]

WaitsUntil(time) ==
  worker' = [worker EXCEPT !.at = "waiting", !.deadline = time, !.notified = FALSE]

\* Under one lock: what is due, what was missed, and what comes next. Both kinds advance.
Evaluate ==
  LET due == {i \in DOMAIN schedules : IsDue(schedules[i]) /\ ~Missed(schedules[i])}
      missed == \E i \in DOMAIN schedules : Missed(schedules[i])
      advanced == [i \in DOMAIN schedules |->
                     IF IsDue(schedules[i])
                     THEN [schedules[i] EXCEPT !.next = Advance(schedules[i].trigger, now)]
                     ELSE schedules[i]]
  IN
  /\ worker.at = "top"
  /\ \/ Ends /\ UNCHANGED schedules
     \/ ~shutdown /\ schedules = <<>> /\ WaitsUntil(None) /\ UNCHANGED schedules
     \/ /\ ~shutdown /\ schedules # <<>>
        /\ schedules' = advanced
        /\ worker' = [worker EXCEPT
             !.at = IF due # {} THEN "check" ELSE IF missed THEN "top" ELSE "park",
             !.batch = Restrict(schedules, due), !.generation = generation, !.horizon = Horizon(advanced), !.seenAt = now]
  /\ UNCHANGED <<now, generation, shutdown, watcher, last, late>>

(* Mutant: the rest of a batch is dispatched whatever happened meanwhile.  *)
CheckNothing ==
  /\ worker.at = "check"
  /\ Goes("dispatch")
  /\ UNCHANGED <<now, schedules, generation, shutdown, watcher, last, late>>

\* Between two dispatches: the rest of the batch of an older list is dropped.
Check ==
  /\ worker.at = "check"
  /\ \/ Ends
     \/ ~shutdown /\ worker.generation # generation /\ Goes("top")
     \/ ~shutdown /\ worker.generation = generation /\ Goes("dispatch")
  /\ UNCHANGED <<now, schedules, generation, shutdown, watcher, last, late>>

\* The batch keeps the places its triggers had in the list, and their order.
First(batch) == Min(DOMAIN batch)

Dispatch ==
  LET cron == worker.batch[First(worker.batch)]
      rest == DOMAIN worker.batch \ {First(worker.batch)}
  IN
  /\ worker.at = "dispatch"
  /\ last' = [last EXCEPT ![cron.trigger] = [slot |-> cron.next, generation |-> worker.generation]]
  /\ late' = late \cup (IF worker.generation # generation THEN {worker.generation} ELSE {})
                  \cup (IF shutdown THEN {None} ELSE {})
  /\ worker' = [worker EXCEPT !.batch = Restrict(@, rest), !.at = IF rest = {} THEN "top" ELSE "check"]
  /\ UNCHANGED <<now, schedules, generation, shutdown, watcher>>

\* The distance is the one that was seen, however long ago.
Deadline == IF worker.horizon = None THEN None ELSE now + (worker.horizon - worker.seenAt)

(* Mutants: the worker parks without looking again.                        *)
ParkBlindly ==
  /\ worker.at = "park"
  /\ \/ Ends
     \/ ~shutdown /\ WaitsUntil(Deadline)
  /\ UNCHANGED <<now, schedules, generation, shutdown, watcher, last, late>>

ParkForGood ==
  /\ worker.at = "park"
  /\ IF worker.horizon # None /\ worker.generation # generation THEN Goes("top")
     ELSE WaitsUntil(Deadline)
  /\ UNCHANGED <<now, schedules, generation, shutdown, watcher, last, late>>

\* With nothing to come the generation is not compared.
Park ==
  /\ worker.at = "park"
  /\ \/ Ends
     \/ ~shutdown /\ worker.horizon # None /\ worker.generation # generation /\ Goes("top")
     \/ ~shutdown /\ (worker.horizon = None \/ worker.generation = generation) /\ WaitsUntil(Deadline)
  /\ UNCHANGED <<now, schedules, generation, shutdown, watcher, last, late>>

WakesUp ==
  /\ worker.at = "waiting"
  /\ Goes(IF shutdown THEN "ended" ELSE "top")
  /\ UNCHANGED <<now, schedules, generation, shutdown, watcher, last, late>>

\* At MaxTime every later time has come, except for slots that lie beyond it.
TimedOut ==
  worker.deadline # None /\ (now >= worker.deadline \/ (now = MaxTime /\ worker.horizon <= MaxTime))

Wake == worker.at = "waiting" /\ (worker.notified \/ TimedOut) /\ WakesUp

\* A condition variable may wake its waiter for no reason.
WakeSpuriously == WakesUp
-----------------------------------------------------------------------------
Worker == Evaluate \/ Check \/ Dispatch \/ Park \/ Wake

Next == Tick \/ Reload \/ Swap \/ Shutdown \/ Worker \/ WakeSpuriously

Spec == Init /\ [][Next]_vars

\* The thread is scheduled and time passes. Nobody has to edit the file or to shut down.
FairSpec == Spec /\ WF_vars(Worker) /\ WF_vars(Tick) /\ WF_vars(Swap)
-----------------------------------------------------------------------------
(* No slot fires twice: the dispatches of one list go forward, trigger by trigger ("`next_fire` is
   recomputed at reload and after each fire so a slot never fires twice"). A list that was read
   before a slot and is swapped in after the old one fired it does fire it again, hence one list. *)
FiresForward ==
  worker.at = "dispatch" =>
    LET cron == worker.batch[First(worker.batch)] IN
    last[cron.trigger].generation = worker.generation => last[cron.trigger].slot < cron.next

(* Once a list was replaced, or the daemon is shutting down, at most the dispatch that had been
   decided already still happens (worker_loop: "a `reload()` after the fire list was cloned must
   not fire a stale schedule"). *)
StaleFireIsLast == worker.at = "dispatch" => late \cap {worker.generation, None} = {}

(* What is dispatched is in force, and new. *)
FiresInForce == FiresForward /\ StaleFireIsLast

\* The one case in which a reload wakes nobody: nothing was to come, and the swap fell between
\* the evaluation and the wait.
Stranded ==
  worker.at = "waiting" /\ worker.horizon = None /\ worker.generation < generation
    /\ worker.deadline = None /\ ~worker.notified

(* Whatever comes between, the worker gets to a slot that is due, fires or skips it, and goes on to
   the next one ("`reload()` swaps the schedules and wakes it"). *)
SlotsSettled ==
  \A t \in Triggers :
    (\E c \in ToSet(schedules) : c.trigger = t /\ IsDue(c))
      ~> (shutdown \/ Stranded \/ ~\E c \in ToSet(schedules) : c.trigger = t /\ IsDue(c))

(* The thread the daemon joins when it exits always ends, wherever the shutdown found it. *)
WorkerEnds == shutdown ~> worker.at = "ended"
==============================================================================
