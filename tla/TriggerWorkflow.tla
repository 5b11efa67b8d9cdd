---------------------------- MODULE TriggerWorkflow ----------------------------
(***************************************************************************)
(* Event -> action automation: copad-core/src/trigger.rs (TriggerEngine),   *)
(* copad-daemon/src/trigger_pump.rs and the threads of main.rs around them, *)
(* over the bus receivers of event_bus.rs and the completion events of      *)
(* action_registry.rs:                                                      *)
(*                                                                         *)
(*   - publishers, which put an event into every receiver that matches it;  *)
(*   - the pump thread: each tick one pass over the receivers, then a sweep; *)
(*   - the config watcher: on an edited file it swaps the trigger list,     *)
(*     clears the awaits, runs a pass of its own and resubscribes;          *)
(*   - the action handlers, which end with X.completed, X.failed or, when   *)
(*     they panic or are silent, with nothing.                              *)
(*                                                                         *)
(* A pass holds the pump lock; the sweep and the swap do not. A pattern is  *)
(* the set of kinds it matches. A run is one dispatched action; the payload *)
(* of its completion, and of a reply to it, name the run. Abstracted:       *)
(* the order of the trigger list, parameters, conditions, payload filters of *)
(* `when`, the privileged action, timestamps, the context service.          *)
(***************************************************************************)
EXTENDS Integers, FiniteSets, SequencesExt, Picking

CONSTANTS
    Kinds,          \* kinds published from outside the daemon's registry
    Publications,   \* what is published there: kind, origin, names a run or not
    Actions,
    Configs,        \* the trigger lists a config file may hold
    MaxEvents,      \* bound: external publishing stops at this many events
    MaxRuns,        \* bound: actions dispatched
    MaxReloads,     \* bound: edits of the config file
    None

Event(k) == <<"event", k>>
Completed(a) == <<"completed", a>>
Failed(a) == <<"failed", a>>
Awaited(n) == <<"awaited", n>>

ASSUME ConfigsAssumption ==
    \A cfg \in Configs : \A t \in cfg :
        /\ DOMAIN t = {"name", "when", "action", "await", "keyed",
                       "fallback", "external"}
        /\ t.action \in Actions
        /\ t.keyed \in BOOLEAN /\ t.fallback \in BOOLEAN /\ t.external \in BOOLEAN
ASSUME PublicationsAssumption ==
    Publications \subseteq [kind : Kinds, internal : BOOLEAN, reply : BOOLEAN]
ASSUME BoundsAssumption ==
    MaxEvents \in Nat /\ MaxRuns \in Nat /\ MaxReloads \in Nat

VARIABLES
    triggers,       \* TriggerEngine.triggers
    queue,          \* TriggerSubscriptions.receivers: pattern -> its channel
    published,      \* events published so far; the last one's id
    outside,        \* those published from outside the registry
    runs,           \* the actions dispatched: action, trigger, origin of its event
    busy,           \* runs whose handler has not returned
    preflight,      \* preflight_awaits, by run
    pending,        \* pending_awaits, by run
    result,         \* the run whose completion promoted a pending await
    overdue,        \* runs whose await is past its deadline
    lock,           \* the pump mutex: "free", "pump" or "watch"
    pumpPc, watchPc,
    passPc,         \* the pass of the thread that holds the lock
    undrained,      \* its receivers still to be drained
    batch,          \* the events it collected
    firing,         \* triggers the event at hand still has to fire
    expired,        \* to_emit of the sweep
    reloads,
    seen,           \* history: ids of the events dispatched
    awaited         \* history: the <name>.awaited events published

passVars == <<passPc, undrained, batch, firing>>
poolVars == <<preflight, pending, result>>
busVars == <<queue, published, outside>>
runVars == <<runs, busy>>
threadVars == <<lock, pumpPc, watchPc>>
history == <<seen, awaited>>
vars == <<triggers, busVars, runVars, poolVars, overdue, threadVars, passVars,
          expired, reloads, history>>

----------------------------------------------------------------------------
(* Patterns and subscriptions.                                             *)

(* What TriggerSubscriptions::reconcile asks for, before covering_patterns. *)
Patterns(ts) ==
    {t.when : t \in ts} \union
    UNION {{t.await, {Completed(t.action)}, {Failed(t.action)}} :
               t \in {u \in ts : u.await # {}}}

(* A pattern is a kind, `prefix.*` or `*`: of two, one covers the other or   *)
(* they have no kind in common.                                            *)
ASSUME PatternsAssumption ==
    \A cfg \in Configs : \A p, q \in Patterns(cfg) :
        p \subseteq q \/ q \subseteq p \/ p \intersect q = {}

(* Mutant: one receiver per distinct pattern, overlapping or not.          *)
CoveringNothing(ps) == ps

(* covering_patterns: the widest ones remain.                              *)
Covering(ps) == {p \in ps : ~\E q \in ps : q # p /\ p \subseteq q}

Needed(ts) == Covering(Patterns(ts))

(* EventBus::publish: into each matching receiver, under one lock.         *)
Publish(kind, internal, of) ==
    LET e == [id |-> published + 1, kind |-> kind, internal |-> internal, of |-> of]
    IN  /\ queue' = [p \in DOMAIN queue |->
                        IF kind \in p THEN Append(queue[p], e) ELSE queue[p]]
        /\ published' = published + 1

IsCompletion(e) == e.kind[1] \in {"completed", "failed"}

(* The trigger of an await, and whether an event satisfies its payload_match *)
(* once {action_result.X} has been interpolated.                            *)
Clause(r) == runs[r].trigger
Answers(e, r) == /\ e.kind \in Clause(r).await
                 /\ Clause(r).keyed => e.of = result[r]

Init ==
    /\ triggers \in Configs
    /\ queue = [p \in Needed(triggers) |-> <<>>]
    /\ published = 0 /\ outside = 0
    /\ runs = <<>> /\ busy = {}
    /\ preflight = <<>> /\ pending = <<>>
    /\ result = [r \in 1 .. MaxRuns |-> 0]
    /\ overdue = {}
    /\ lock = "free" /\ pumpPc = "sleep" /\ watchPc = "idle"
    /\ passPc = "drain" /\ undrained = {} /\ batch = <<>> /\ firing = {}
    /\ expired = <<>>
    /\ reloads = 0
    /\ seen = {} /\ awaited = {}

----------------------------------------------------------------------------
(* Publishers and action handlers.                                         *)

(* A plugin, a GUI or, with Origin::External, events.publish on the socket. *)
Publisher(p, of) ==
    /\ outside < MaxEvents
    /\ outside' = outside + 1
    /\ IF p.reply THEN of \in DOMAIN runs ELSE of = 0
    /\ Publish(Event(p.kind), p.internal, of)
    /\ UNCHANGED <<triggers, runVars, poolVars, overdue, threadVars, passVars,
                   expired, reloads, history>>

(* Somebody else, a socket client or a plugin, runs an action.             *)
Invoke(a) ==
    /\ Len(runs) < MaxRuns
    /\ runs' = Append(runs, [action |-> a, trigger |-> None, internal |-> FALSE])
    /\ busy' = busy \union {Len(runs) + 1}
    /\ UNCHANGED <<triggers, busVars, poolVars, overdue, threadVars, passVars,
                   expired, reloads, history>>

(* DispatchJob::run and cancel: the handler returns, fails or is refused by *)
(* a full pool, or panics (and a silent action never publishes).           *)
RunEnds(r) ==
    /\ r \in busy
    /\ busy' = busy \ {r}
    /\ \/ Publish(Completed(runs[r].action), TRUE, r)
       \/ Publish(Failed(runs[r].action), TRUE, r)
       \/ UNCHANGED <<queue, published>>
    /\ UNCHANGED outside
    /\ UNCHANGED <<triggers, runs, poolVars, overdue, threadVars, passVars,
                   expired, reloads, history>>

----------------------------------------------------------------------------
(* A pass (pump_all), by the thread that holds the pump lock.              *)

PassBegins ==
    /\ passPc' = IF DOMAIN queue = {} THEN "promote" ELSE "drain"
    /\ undrained' = DOMAIN queue
    /\ batch' = <<>> /\ firing' = {}

(* Mutant: dispatched in the order the receivers were drained in.          *)
AsDrained(b) == b

CompletionsFirst(b) ==
    LET ends == {i \in DOMAIN b : IsCompletion(b[i])}
    IN  Picked(b, ends) \o Picked(b, DOMAIN b \ ends)

(* One receiver is emptied; the HashMap yields them in any order. After the *)
(* last one the batch is sorted.                                           *)
Drain(p) ==
    /\ lock # "free" /\ passPc = "drain"
    /\ p \in undrained
    /\ undrained' = undrained \ {p}
    /\ queue' = [queue EXCEPT ![p] = <<>>]
    /\ IF undrained = {p}
       THEN batch' = CompletionsFirst(batch \o queue[p]) /\ passPc' = "promote"
       ELSE batch' = batch \o queue[p] /\ UNCHANGED passPc
    /\ UNCHANGED <<triggers, published, outside, runVars, poolVars, overdue, threadVars,
                   firing, expired, reloads, history>>

Dispatching(step) == lock # "free" /\ passPc = step /\ batch # <<>>

(* Mutant: an event from outside resolves an await like any other.         *)
EntersAwaitsAlways(e) == TRUE

(* External events stay out of the await state machine.                   *)
EntersAwaits(e) == e.internal

FirstOf(a) == SelectInSeq(preflight, LAMBDA r : runs[r].action = a)

Without(pool, i) == RemoveAt(pool, i)

(* try_promote_or_drop_preflight: the OLDEST preflight of the action, of    *)
(* whichever run.                                                          *)
Promote ==
    /\ Dispatching("promote")
    /\ LET e == Head(batch)
           i == IF EntersAwaits(e) /\ IsCompletion(e) THEN FirstOf(e.kind[2]) ELSE 0
       IN  /\ seen' = seen \union {e.id}
           /\ IF i = 0 THEN UNCHANGED poolVars
              ELSE /\ preflight' = Without(preflight, i)
                   /\ IF e.kind = Completed(e.kind[2])
                      THEN /\ pending' = Append(pending, preflight[i])
                           /\ result' = [result EXCEPT ![preflight[i]] = e.of]
                      ELSE UNCHANGED <<pending, result>>
    /\ passPc' = "match"
    /\ UNCHANGED <<triggers, busVars, runVars, overdue, threadVars, undrained,
                   batch, firing, expired, reloads, awaited>>

(* Publishing <name>.awaited for a run, with the event that resolved it or  *)
(* None for a default.                                                      *)
Emit(r, by) ==
    /\ Publish(Awaited(Clause(r).name), TRUE, r)
    /\ UNCHANGED outside
    /\ awaited' = awaited \union {[id |-> published + 1, run |-> r, by |-> by]}

(* Mutant: every entry that matches is resolved.                           *)
MatchAllPending(e) ==
    LET hits == SelectSeq(pending, LAMBDA r : EntersAwaits(e) /\ Answers(e, r))
    IN  /\ pending' = SelectSeq(pending, LAMBDA r : ~ (EntersAwaits(e) /\ Answers(e, r)))
        /\ awaited' = awaited \union
             {[id |-> published + i, run |-> hits[i], by |-> e] : i \in DOMAIN hits}
        /\ published' = published + Len(hits)
        /\ UNCHANGED <<queue, outside>>

(* try_match_pending_awaits: at most one entry, the oldest that matches.   *)
MatchPending(e) ==
    LET i == IF EntersAwaits(e)
             THEN SelectInSeq(pending, LAMBDA r : Answers(e, r)) ELSE 0
    IN  IF i = 0
        THEN UNCHANGED <<pending, busVars, awaited>>
        ELSE pending' = Without(pending, i) /\ Emit(pending[i], e)

(* Then one read of the trigger list: those that match, past the boundary.  *)
Match ==
    /\ Dispatching("match")
    /\ MatchPending(Head(batch))
    /\ firing' = {t \in triggers : /\ Head(batch).kind \in t.when
                                   /\ Head(batch).internal \/ t.external}
    /\ passPc' = "fire"
    /\ UNCHANGED <<triggers, runVars, preflight, result, overdue, threadVars,
                   undrained, batch, expired, reloads, seen>>

(* The sink takes the action, and an await is registered.                  *)
Accepted(t) ==
    /\ Len(runs) < MaxRuns
    /\ runs' = Append(runs, [action |-> t.action, trigger |-> t,
                             internal |-> Head(batch).internal])
    /\ busy' = busy \union {Len(runs) + 1}
    /\ preflight' = IF t.await # {} THEN Append(preflight, Len(runs) + 1) ELSE preflight
    /\ UNCHANGED busVars

(* It refuses it: a full queue, or the failure of a synchronous action,     *)
(* which is published all the same.                                        *)
Refused(t) ==
    /\ Publish(Failed(t.action), TRUE, 0) \/ UNCHANGED <<queue, published>>
    /\ UNCHANGED <<outside, runVars, preflight>>

Fire(t) ==
    /\ Dispatching("fire")
    /\ t \in firing
    /\ firing' = firing \ {t}
    /\ Accepted(t) \/ Refused(t)
    /\ UNCHANGED <<triggers, pending, result, overdue, threadVars, passPc,
                   undrained, batch, expired, reloads, history>>

NextEvent ==
    /\ Dispatching("fire")
    /\ firing = {}
    /\ batch' = Tail(batch)
    /\ passPc' = "promote"
    /\ UNCHANGED <<triggers, busVars, runVars, poolVars, overdue, threadVars,
                   undrained, firing, expired, reloads, history>>

PassEnded == passPc = "promote" /\ batch = <<>>

Pass ==
    \/ \E p \in DOMAIN queue : Drain(p)
    \/ Promote \/ Match
    \/ \E t \in firing : Fire(t)
    \/ NextEvent

----------------------------------------------------------------------------
(* The pump thread: a pass under the lock, then sweep_pending_awaits.      *)

PumpLocks ==
    /\ pumpPc = "sleep" /\ lock = "free"
    /\ lock' = "pump" /\ pumpPc' = "pass"
    /\ PassBegins
    /\ UNCHANGED <<triggers, busVars, runVars, poolVars, overdue, watchPc,
                   expired, reloads, history>>

PumpUnlocks ==
    /\ lock = "pump" /\ PassEnded
    /\ lock' = "free" /\ pumpPc' = "preflight"
    /\ passPc' = "drain"
    /\ UNCHANGED <<triggers, busVars, runVars, poolVars, overdue, watchPc,
                   undrained, batch, firing, expired, reloads, history>>

(* Mutant: the clock of an await starts when its action has ended.         *)
ExpiredSinceEnd(r) == r \in overdue \ busy

Expired(r) == r \in overdue

(* Mutant: an expired await keeps its place.                               *)
KeptAll(pool) == pool

Kept(pool) == Picked(pool, {i \in DOMAIN pool : ~Expired(pool[i])})
Defaults(pool) ==
    Picked(pool, {i \in DOMAIN pool : Expired(pool[i]) /\ Clause(pool[i]).fallback})

SweepPreflight ==
    /\ pumpPc = "preflight"
    /\ preflight' = Kept(preflight)
    /\ expired' = Defaults(preflight)
    /\ pumpPc' = "pending"
    /\ UNCHANGED <<triggers, busVars, runVars, pending, result, overdue, lock,
                   watchPc, passVars, reloads, history>>

SweepPending ==
    /\ pumpPc = "pending"
    /\ pending' = Kept(pending)
    /\ expired' = expired \o Defaults(pending)
    /\ pumpPc' = "emit"
    /\ UNCHANGED <<triggers, busVars, runVars, preflight, result, overdue, lock,
                   watchPc, passVars, reloads, history>>

(* FireWithDefault publishes, after the locks of the pools were released.  *)
SweepEmits ==
    /\ pumpPc = "emit"
    /\ IF expired = <<>>
       THEN pumpPc' = "sleep" /\ UNCHANGED <<busVars, expired, awaited>>
       ELSE /\ Emit(Head(expired), None)
            /\ expired' = Tail(expired)
            /\ UNCHANGED pumpPc
    /\ UNCHANGED <<triggers, runVars, poolVars, overdue, lock, watchPc,
                   passVars, reloads, seen>>

Pump == PumpLocks \/ PumpUnlocks \/ SweepPreflight \/ SweepPending \/ SweepEmits

(* timeout_seconds after its run was dispatched an await is overdue. A sweep *)
(* reads the clock once, for both pools.                                    *)
Overdue(r) ==
    /\ pumpPc # "pending"
    /\ r \in DOMAIN runs \ overdue
    /\ runs[r].trigger # None /\ Clause(r).await # {}
    /\ overdue' = overdue \union {r}
    /\ UNCHANGED <<triggers, busVars, runVars, poolVars, threadVars, passVars,
                   expired, reloads, history>>

----------------------------------------------------------------------------
(* The config watcher: apply_reloaded_triggers.                            *)

(* set_triggers: the list, then each pool, under a lock of its own.        *)
WatchSwaps ==
    /\ watchPc = "idle" /\ reloads < MaxReloads
    /\ reloads' = reloads + 1
    /\ triggers' \in Configs
    /\ watchPc' = "preflight"
    /\ UNCHANGED <<busVars, runVars, poolVars, overdue, lock, pumpPc, passVars,
                   expired, history>>

WatchClearsPreflight ==
    /\ watchPc = "preflight"
    /\ preflight' = <<>>
    /\ watchPc' = "pending"
    /\ UNCHANGED <<triggers, busVars, runVars, pending, result, overdue, lock,
                   pumpPc, passVars, expired, reloads, history>>

WatchClearsPending ==
    /\ watchPc = "pending"
    /\ pending' = <<>>
    /\ watchPc' = "lock"
    /\ UNCHANGED <<triggers, busVars, runVars, preflight, result, overdue, lock,
                   pumpPc, passVars, expired, reloads, history>>

WatchLocks ==
    /\ watchPc = "lock" /\ lock = "free"
    /\ lock' = "watch" /\ watchPc' = "pass"
    /\ PassBegins
    /\ UNCHANGED <<triggers, busVars, runVars, poolVars, overdue, pumpPc,
                   expired, reloads, history>>

(* Mutant: every receiver is replaced.                                     *)
RetainsNone(ps) == <<>>

Retained(ps) == Restrict(queue, ps \intersect DOMAIN queue)

(* reconcile, first half: the receivers no longer needed are dropped, and   *)
(* what was published into them since they were drained goes with them.     *)
WatchRetains ==
    /\ lock = "watch" /\ watchPc = "pass" /\ PassEnded
    /\ queue' = Retained(Needed(triggers))
    /\ watchPc' = "subscribe"
    /\ UNCHANGED <<triggers, published, outside, runVars, poolVars, overdue, lock, pumpPc,
                   passVars, expired, reloads, history>>

(* Second half: one subscription at a time for the patterns without one.   *)
WatchSubscribes(p) ==
    /\ watchPc = "subscribe"
    /\ p \in Needed(triggers) \ DOMAIN queue
    /\ queue' = [q \in DOMAIN queue \union {p} |->
                    IF q = p THEN <<>> ELSE queue[q]]
    /\ UNCHANGED <<triggers, published, outside, runVars, poolVars, overdue, threadVars,
                   passVars, expired, reloads, history>>

WatchUnlocks ==
    /\ watchPc = "subscribe"
    /\ Needed(triggers) \subseteq DOMAIN queue
    /\ lock' = "free" /\ watchPc' = "idle"
    /\ passPc' = "drain"
    /\ UNCHANGED <<triggers, busVars, runVars, poolVars, overdue, pumpPc,
                   undrained, batch, firing, expired, reloads, history>>

Watcher ==
    \/ WatchSwaps \/ WatchClearsPreflight \/ WatchClearsPending \/ WatchLocks
    \/ WatchRetains \/ WatchUnlocks
    \/ \E p \in Needed(triggers) : WatchSubscribes(p)

----------------------------------------------------------------------------
Next ==
    \/ \E p \in Publications, of \in 0 .. Len(runs) : Publisher(p, of)
    \/ \E a \in Actions : Invoke(a)
    \/ \E r \in busy : RunEnds(r)
    \/ Pass \/ Pump \/ Watcher
    \/ \E r \in DOMAIN runs : Overdue(r)

Spec == Init /\ [][Next]_vars

(* Both threads are scheduled and clocks advance. A handler may never end,  *)
(* nobody has to publish, and nobody has to edit the file.                 *)
Fairness ==
    /\ WF_vars(Pass)
    /\ SF_vars(PumpLocks) /\ WF_vars(Pump)
    /\ SF_vars(WatchLocks) /\ WF_vars(watchPc # "idle" /\ Watcher)
    /\ \A r \in 1 .. MaxRuns : SF_vars(Overdue(r))

FairSpec == Spec /\ Fairness

----------------------------------------------------------------------------
(* Properties.                                                             *)
AllTriggers == UNION Configs
RunIds == 1 .. MaxRuns

----------------------------------------------------------------------------
(* Safety.                                                                 *)

(* No event is dispatched twice, however the patterns of the triggers      *)
(* overlap and whatever a reload resubscribes ("duplicates would           *)
(* double-fire side effects").                                             *)
DispatchedOnce ==
    [][passPc = "promote" /\ passPc' = "match" => Head(batch).id \notin seen]_vars

Places(r) == Cardinality({i \in DOMAIN preflight : preflight[i] = r})
           + Cardinality({i \in DOMAIN pending : pending[i] = r})
           + Cardinality({i \in DOMAIN expired : expired[i] = r})
           + Cardinality({x \in awaited : x.run = r})

(* An await ends once: it is in one place of one pool, or on its way to a   *)
(* default, or <name>.awaited was published for it, once. The promotion,    *)
(* the match, the two sweeps and the clears of a reload run on two threads. *)
(* And one event ends at most one await ("broadcasting would double-fire    *)
(* downstream chains").                                                     *)
AwaitEndsOnce ==
    /\ \A r \in DOMAIN runs : Places(r) <= 1
    /\ \A x, y \in awaited : x.by # None /\ x.by = y.by => x = y

(* Events from outside neither start a trigger that did not accept them nor *)
(* resolve an await, on any path from the socket to the registry.          *)
TrustBoundary ==
    /\ \A r \in DOMAIN runs :
         runs[r].trigger # None => runs[r].internal \/ Clause(r).external
    /\ \A x \in awaited : x.by # None => x.by.internal

(* "registry-sourced completions must run BEFORE await.event_kind in the    *)
(* same tick": when a pass comes to a reply, no completion that would       *)
(* promote the await of that reply is left in the batch.                   *)
CompletionInTail(r) ==
    \E i \in 2 .. Len(batch) : batch[i].kind = Completed(runs[r].action) /\ batch[i].of = r
IsReplyTo(e, r) == /\ e.internal /\ ~IsCompletion(e)
                   /\ e.kind \in Clause(r).await
                   /\ Clause(r).keyed => e.of = r
RepliesAfterCompletions ==
    passPc = "match" /\ batch # <<>> =>
        \A i \in DOMAIN preflight :
            IsReplyTo(Head(batch), preflight[i]) => ~CompletionInTail(preflight[i])

----------------------------------------------------------------------------
(* Liveness, under FairSpec.                                               *)

(* No await is waited for for ever: a match, a failure, a reload or the     *)
(* sweep after its deadline takes it out of the pools.                     *)
InPools(r) == \/ \E i \in DOMAIN preflight : preflight[i] = r
              \/ \E i \in DOMAIN pending : pending[i] = r
AwaitsEnd == \A r \in RunIds : InPools(r) ~> ~InPools(r)

(* "Still-needed patterns keep their receivers on reload so pending events   *)
(* survive unrelated reloads": what was published into a receiver that every *)
(* configuration needs is dispatched, through any number of reloads.        *)
AlwaysNeeded(p) == \A cfg \in Configs : p \in Needed(cfg)
Received(p, id) == p \in DOMAIN queue /\ \E i \in DOMAIN queue[p] : queue[p][i].id = id
KeptEventsDispatched ==
    \A p \in UNION {Needed(cfg) : cfg \in Configs}, id \in 1 .. MaxEvents :
        AlwaysNeeded(p) => (Received(p, id) ~> id \in seen)
================================================================================
