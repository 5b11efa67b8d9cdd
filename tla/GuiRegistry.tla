------------------------------ MODULE GuiRegistry ------------------------------
(***************************************************************************)
(* The GUIs of a daemon: copad-daemon/src/gui_registry.rs, the connection   *)
(* threads of socket.rs that drive it, and what the other side              *)
(* (copad-linux/src/gui_client.rs) does with a connection:                  *)
(*                                                                         *)
(*   - per connection a reader thread, which registers the GUI, queues the  *)
(*     ack, starts its event forwarder, and resolves its responses;         *)
(*   - per registered GUI a heartbeat thread and an event forwarder;        *)
(*   - the callers, threads of other connections, which route a method to   *)
(*     the primary or to a GUI they name, and invoke it;                    *)
(*   - the GUIs, which may answer, refuse, hang, disconnect and come back   *)
(*     on a new connection.                                                 *)
(*                                                                         *)
(* A connection, its client_id, its GuiClient and the GUI's run() on it     *)
(* share one identity, an element of Conns. Abstracted: invoke ids (a call  *)
(* or a heartbeat names its own), methods and their capabilities, events,   *)
(* the socket buffers (one line with the writer's channel), durations,      *)
(* protocol versions, the GUI's environment.                                *)
(***************************************************************************)
EXTENDS Integers, Sequences, FiniteSets, SequencesExt

CONSTANTS
    Conns,
    Wants,          \* connections that register with want_primary
    Capable,        \* those with the capability of the methods called
    Calls,
    Hanging,        \* connections whose GUI may hang: all of them, or a bound
    WriterCap,      \* capacity of writer_tx (512)
    MaxMisses,      \* HEARTBEAT_MAX_MISSES (2)
    None

ASSUME ConnsAssumption ==
    /\ Wants \subseteq Conns /\ Capable \subseteq Conns /\ Hanging \subseteq Conns
    /\ IsFiniteSet(Conns)
ASSUME NoneAssumption ==
    None \notin Conns /\ None \notin {"response", "gui_disconnected"}
ASSUME BoundsAssumption ==
    WriterCap \in Nat \ {0} /\ MaxMisses \in Nat \ {0}

VARIABLES
    clients,        \* GuiRegistry.clients
    order,          \* registration order, newest last
    primary,
    entries,        \* GuiClient.pending: the calls in it
    beatEntry,      \* GuiClients with an entry for their heartbeat
    closed,         \* GuiClients whose pending is None
    failing,        \* removed clients whose fail_all_pending is not over
    shut,           \* connections the daemon hung up
    forwarding,     \* clients with a live event forwarder
    line,           \* what was queued on writer_tx and not read by the GUI
    inbox,          \* what the GUI wrote and the reader has not read
    reader,         \* the reader thread
    beat,           \* the heartbeat thread
    misses,
    beatReply,      \* the channel its invoke waits on
    gui,            \* run() of the GUI
    jobs,           \* <<connection, call>> in the GUI's pool
    pc, client,     \* the callers, and the Arc<GuiClient> each holds
    reply           \* the channel a caller waits on

electVars == <<clients, order, primary>>
pendingVars == <<entries, beatEntry, closed>>
replyVars == <<reply, beatReply>>
beatVars == <<beat, misses>>
guiVars == <<gui, jobs>>
callVars == <<pc, client>>
vars == <<electVars, pendingVars, failing, shut, forwarding, line, inbox,
          reader, beatVars, replyVars, guiVars, callVars>>

----------------------------------------------------------------------------
(* Lines to a GUI; an inbox names a response by the line it answers. A ping *)
(* that timed out is a line like any other, but no answer to it finds an    *)
(* entry any more.                                                          *)
Ack == <<"ack">>
Event == <<"event">>
Ping == <<"ping">>
StalePing == <<"stale">>
Invoke(c) == <<"invoke", c>>
Register == <<"register">>

Full(k) == Len(line[k]) >= WriterCap

(* The writer thread of a broken connection exits on its next write: until *)
(* then a line is accepted, and lost, after that it is refused.            *)
Broken(k) == gui[k] = "over" \/ k \in shut
Refuses(k) == Full(k) \/ Broken(k)

Queue(k, m) ==
    line' = IF Broken(k) THEN line ELSE [line EXCEPT ![k] = Append(@, m)]

(* seq without x, of which it holds one at most.                           *)
Without(x, seq) ==
    IF \E i \in DOMAIN seq : seq[i] = x
    THEN RemoveAt(seq, CHOOSE i \in DOMAIN seq : seq[i] = x)
    ELSE seq

(* Whether some Arc<GuiClient> is left for a Weak to upgrade to.           *)
Held(k) == k \in clients \union failing \/ \E c \in Calls : client[c] = k

Init ==
    /\ clients = {} /\ order = <<>> /\ primary = None
    /\ entries = [k \in Conns |-> {}]
    /\ beatEntry = {} /\ closed = {} /\ failing = {} /\ shut = {} /\ forwarding = {}
    /\ line = [k \in Conns |-> <<>>] /\ inbox = [k \in Conns |-> <<>>]
    /\ reader = [k \in Conns |-> "none"]
    /\ beat = [k \in Conns |-> "none"] /\ misses = [k \in Conns |-> 0]
    /\ beatReply = [k \in Conns |-> None]
    /\ gui = [k \in Conns |-> "none"]
    /\ jobs = {}
    /\ pc = [c \in Calls |-> "idle"] /\ client = [c \in Calls |-> None]
    /\ reply = [c \in Calls |-> None]

----------------------------------------------------------------------------
(* Registration and unregistration: clients, order and primary together.   *)

Newest(S, seq) ==
    IF \E i \in DOMAIN seq : seq[i] \in S
    THEN seq[CHOOSE i \in DOMAIN seq :
               seq[i] \in S /\ \A j \in DOMAIN seq : seq[j] \in S => j <= i]
    ELSE None

(* Mutant: the newest registration is promoted, whatever it asked for.     *)
AnyNewest(ids) == Newest(Conns, ids)

Promoted(ids) == Newest(Wants, ids)

(* Whoever finds the client still there has to fail its pending invokes.    *)
Unregister(k) ==
    LET rest == Without(k, order)
    IN  /\ clients' = clients \ {k}
        /\ order' = rest
        /\ primary' = IF primary = k THEN Promoted(rest) ELSE primary
        /\ failing' = IF k \in clients THEN failing \union {k} ELSE failing

(* fail_all_pending, after the locks of the registry were released: stop    *)
(* the forwarder and drain pending, then hang up.                          *)
FailAll(k) ==
    /\ k \in failing \ closed
    /\ forwarding' = forwarding \ {k}
    /\ closed' = closed \union {k}
    /\ entries' = [entries EXCEPT ![k] = {}]
    /\ beatEntry' = beatEntry \ {k}
    /\ reply' = [c \in Calls |-> IF c \in entries[k] THEN "gui_disconnected" ELSE reply[c]]
    /\ beatReply' = IF k \in beatEntry
                    THEN [beatReply EXCEPT ![k] = "gui_disconnected"] ELSE beatReply
    /\ UNCHANGED <<electVars, failing, shut, line, inbox, reader, beatVars, guiVars,
                   callVars>>

HangsUp(k) ==
    /\ k \in failing \cap closed
    /\ failing' = failing \ {k}
    /\ shut' = shut \union {k}
    /\ UNCHANGED <<electVars, pendingVars, forwarding, line, inbox, reader, beatVars,
                   replyVars, guiVars, callVars>>

----------------------------------------------------------------------------
(* The reader thread of a connection (handle_connection).                  *)

ReaderRegisters(k) ==
    /\ reader[k] = "read" /\ inbox[k] # <<>> /\ Head(inbox[k]) = Register
    /\ inbox' = [inbox EXCEPT ![k] = Tail(@)]
    /\ clients' = clients \union {k}
    /\ order' = Append(order, k)
    /\ primary' = IF primary = None /\ k \in Wants THEN k ELSE primary
    /\ beat' = [beat EXCEPT ![k] = "sleep"]
    /\ reader' = [reader EXCEPT ![k] = "ack"]
    /\ UNCHANGED <<pendingVars, failing, shut, forwarding, line, misses,
                   replyVars, guiVars, callVars>>

(* send_line blocks while the channel is full, and ignores a broken one.   *)
ReaderAcks(k) ==
    /\ reader[k] = "ack"
    /\ \/ ~Full(k) /\ Queue(k, Ack)
       \/ Broken(k) /\ UNCHANGED line
    /\ reader' = [reader EXCEPT ![k] = "forward"]
    /\ UNCHANGED <<electVars, pendingVars, failing, shut, forwarding, inbox,
                   beatVars, replyVars, guiVars, callVars>>

(* Mutant: the forwarder may be started before the ack is queued.          *)
MayForward(k) == reader[k] \in {"ack", "forward"}

AckQueued(k) == reader[k] = "forward"

(* start_event_forwarder: not for a client that is gone by now.            *)
ReaderForwards(k) ==
    /\ AckQueued(k)
    /\ forwarding' = IF k \in clients THEN forwarding \union {k} ELSE forwarding
    /\ reader' = [reader EXCEPT ![k] = IF @ = "forward" THEN "read" ELSE @]
    /\ UNCHANGED <<electVars, pendingVars, failing, shut, line, inbox, beatVars,
                   replyVars, guiVars, callVars>>

(* resolve: of a client the registry still knows, an entry still there.    *)
ReaderResolves(k) ==
    /\ reader[k] = "read" /\ inbox[k] # <<>> /\ Head(inbox[k]) # Register
    /\ inbox' = [inbox EXCEPT ![k] = Tail(@)]
    /\ LET m == Head(inbox[k])
           found == {c \in entries[k] : k \in clients /\ m = Invoke(c)}
           pinged == k \in clients \cap beatEntry /\ m = Ping
       IN  /\ entries' = [entries EXCEPT ![k] = @ \ found]
           /\ reply' = [c \in Calls |-> IF c \in found THEN "response" ELSE reply[c]]
           /\ beatEntry' = IF pinged THEN beatEntry \ {k} ELSE beatEntry
           /\ beatReply' = IF pinged
                           THEN [beatReply EXCEPT ![k] = "response"] ELSE beatReply
    /\ UNCHANGED <<electVars, closed, failing, shut, forwarding, line, reader,
                   beatVars, guiVars, callVars>>

ReaderEnds(k) ==
    /\ reader[k] = "read" /\ inbox[k] = <<>>
    /\ Broken(k)
    /\ Unregister(k)
    /\ reader' = [reader EXCEPT ![k] = "over"]
    /\ UNCHANGED <<pendingVars, shut, forwarding, line, inbox, beatVars,
                   replyVars, guiVars, callVars>>

Reader(k) ==
    \/ ReaderRegisters(k) \/ ReaderAcks(k) \/ ReaderForwards(k)
    \/ ReaderResolves(k) \/ ReaderEnds(k)

(* forwarder_loop: an event is dropped when the channel is full.           *)
Forward(k) ==
    /\ k \in forwarding /\ ~Full(k) /\ ~Broken(k)
    /\ Queue(k, Event)
    /\ UNCHANGED <<electVars, pendingVars, failing, shut, forwarding, inbox,
                   reader, beatVars, replyVars, guiVars, callVars>>

----------------------------------------------------------------------------
(* The heartbeat thread (heartbeat_loop).                                  *)

Missed(k) ==
    /\ misses' = [misses EXCEPT ![k] = @ + 1]
    /\ beat' = [beat EXCEPT ![k] = IF misses[k] + 1 >= MaxMisses THEN "drop" ELSE "sleep"]

(* Mutant: the ping waits for room in the channel.                         *)
FullBlocks(k) == FALSE

(* try_send: a full or a broken channel is a miss.                         *)
PingFails(k) == Refuses(k)

(* invoke("_ping"); a fail_all_pending between its insert and its try_send  *)
(* has the outcome of one right after it.                                  *)
BeatPings(k) ==
    /\ beat[k] = "sleep" /\ Held(k)
    /\ \/ /\ k \in closed \/ PingFails(k)
          /\ Missed(k)
          /\ UNCHANGED <<beatEntry, beatReply, line>>
       \/ /\ k \notin closed /\ ~Full(k)
          /\ beatEntry' = beatEntry \union {k}
          /\ Queue(k, Ping)
          /\ beat' = [beat EXCEPT ![k] = "wait"]
          /\ beatReply' = [beatReply EXCEPT ![k] = None]
          /\ UNCHANGED misses
    /\ UNCHANGED <<electVars, entries, closed, failing, shut, forwarding, inbox,
                   reader, reply, guiVars, callVars>>

BeatReturns(k) ==
    /\ beat[k] = "wait" /\ beatReply[k] # None
    /\ IF beatReply[k] = "response"
       THEN /\ misses' = [misses EXCEPT ![k] = 0]
            /\ beat' = [beat EXCEPT ![k] = "sleep"]
       ELSE Missed(k)
    /\ UNCHANGED <<electVars, pendingVars, failing, shut, forwarding, line, inbox,
                   reader, replyVars, guiVars, callVars>>

BeatTimesOut(k) ==
    /\ beat[k] = "wait" /\ beatReply[k] = None
    /\ beatEntry' = beatEntry \ {k}
    /\ line' = [line EXCEPT ![k] = ReplaceAll(@, Ping, StalePing)]
    /\ inbox' = [inbox EXCEPT ![k] = Without(Ping, @)]
    /\ Missed(k)
    /\ UNCHANGED <<electVars, entries, closed, failing, shut, forwarding, reader,
                   replyVars, guiVars, callVars>>

BeatDrops(k) ==
    /\ beat[k] = "drop"
    /\ Unregister(k)
    /\ beat' = [beat EXCEPT ![k] = "over"]
    /\ UNCHANGED <<pendingVars, shut, forwarding, line, inbox, reader, misses,
                   replyVars, guiVars, callVars>>

(* The Weak no longer upgrades: nobody holds the client.                   *)
BeatOver(k) ==
    /\ beat[k] = "sleep" /\ ~Held(k)
    /\ beat' = [beat EXCEPT ![k] = "over"]
    /\ UNCHANGED <<electVars, pendingVars, failing, shut, forwarding, line, inbox,
                   reader, misses, replyVars, guiVars, callVars>>

Heartbeat(k) ==
    \/ BeatPings(k) \/ BeatReturns(k) \/ BeatTimesOut(k) \/ BeatDrops(k)
    \/ BeatOver(k)

----------------------------------------------------------------------------
(* A GUI: run() of gui_client.rs and its pool.                             *)

(* What it writes reaches the daemon's reader unless the daemon hung up.   *)
Answer(k, m) ==
    inbox' = IF k \in shut THEN inbox ELSE [inbox EXCEPT ![k] = Append(@, m)]

Connect(k) ==
    /\ gui[k] = "none"
    /\ gui' = [gui EXCEPT ![k] = "registering"]
    /\ reader' = [reader EXCEPT ![k] = "read"]
    /\ Answer(k, Register)
    /\ UNCHANGED <<electVars, pendingVars, failing, shut, forwarding, line,
                   beatVars, replyVars, jobs, callVars>>

(* await_register_ack: any other first line ends the run.                  *)
GuiAwaits(k) ==
    /\ gui[k] = "registering" /\ line[k] # <<>>
    /\ IF Head(line[k]) = Ack
       THEN gui' = [gui EXCEPT ![k] = "running"] /\ line' = [line EXCEPT ![k] = Tail(@)]
       ELSE gui' = [gui EXCEPT ![k] = "over"] /\ line' = [line EXCEPT ![k] = <<>>]
    /\ UNCHANGED <<electVars, pendingVars, failing, shut, forwarding, inbox,
                   reader, beatVars, replyVars, jobs, callVars>>

(* A ping is answered at once, an invoke goes to the pool or, when that is  *)
(* full, is answered "overloaded"; an event goes to the GUI's own bus.      *)
GuiReads(k) ==
    /\ gui[k] = "running" /\ line[k] # <<>>
    /\ line' = [line EXCEPT ![k] = Tail(@)]
    /\ LET m == Head(line[k])
           calls == {c \in Calls : m = Invoke(c)}
       IN  \/ /\ jobs' = jobs \union ({k} \X calls)
              /\ IF m = Ping THEN Answer(k, Ping) ELSE UNCHANGED inbox
           \/ calls # {} /\ Answer(k, m) /\ UNCHANGED jobs
    /\ UNCHANGED <<electVars, pendingVars, failing, shut, forwarding, reader,
                   beatVars, replyVars, gui, callVars>>

(* A job of an earlier run is not dispatched (the generation gate), and its *)
(* response has no connection to go to.                                     *)
JobRuns(k, c) ==
    /\ <<k, c>> \in jobs
    /\ gui[k] \in {"running", "over"}
    /\ jobs' = jobs \ {<<k, c>>}
    /\ IF gui[k] = "running" THEN Answer(k, Invoke(c)) ELSE UNCHANGED inbox
    /\ UNCHANGED <<electVars, pendingVars, failing, shut, forwarding, line, reader,
                   beatVars, replyVars, gui, callVars>>

(* It hangs, connected.                                                    *)
GuiWedges(k) ==
    /\ k \in Hanging /\ gui[k] = "running"
    /\ gui' = [gui EXCEPT ![k] = "wedged"]
    /\ UNCHANGED <<electVars, pendingVars, failing, shut, forwarding, line, inbox,
                   reader, beatVars, replyVars, jobs, callVars>>

(* It quits, crashes, or reads the end of a connection that was shut down. *)
GuiEnds(k) ==
    /\ gui[k] \in {"registering", "running", "wedged"}
    /\ gui' = [gui EXCEPT ![k] = "over"]
    /\ line' = [line EXCEPT ![k] = <<>>]
    /\ UNCHANGED <<electVars, pendingVars, failing, shut, forwarding, inbox,
                   reader, beatVars, replyVars, jobs, callVars>>

Gui(k) ==
    \/ Connect(k) \/ GuiAwaits(k) \/ GuiReads(k) \/ GuiWedges(k) \/ GuiEnds(k)
    \/ \E c \in Calls : JobRuns(k, c)

----------------------------------------------------------------------------
(* The callers (dispatch_via_gui and invoke).                              *)

Done(c) ==
    /\ pc' = [pc EXCEPT ![c] = "done"]
    /\ client' = [client EXCEPT ![c] = None]

(* route: to the target, or without one to the primary. No primary, an     *)
(* unknown target or a client without the capability is an error;          *)
(* otherwise the caller holds an Arc of the client.                        *)
CallRoutes(c) ==
    /\ pc[c] = "idle"
    /\ \E target \in Conns \union {None} :
         LET k == IF target = None THEN primary ELSE target
         IN  IF k \in clients \cap Capable
             THEN /\ pc' = [pc EXCEPT ![c] = "insert"]
                  /\ client' = [client EXCEPT ![c] = k]
             ELSE Done(c)
    /\ UNCHANGED <<electVars, pendingVars, failing, shut, forwarding, line, inbox,
                   reader, beatVars, replyVars, guiVars>>

(* Mutant: pending is emptied, but a stale Arc can still insert into it.   *)
NeverGone(k) == FALSE

Gone(k) == k \in closed

CallInserts(c) ==
    /\ pc[c] = "insert"
    /\ IF Gone(client[c])
       THEN Done(c) /\ UNCHANGED entries
       ELSE /\ entries' = [entries EXCEPT ![client[c]] = @ \union {c}]
            /\ pc' = [pc EXCEPT ![c] = "send"]
            /\ UNCHANGED client
    /\ UNCHANGED <<electVars, beatEntry, closed, failing, shut, forwarding, line,
                   inbox, reader, beatVars, replyVars, guiVars>>

(* Mutant: a call that gives up leaves its entry behind.                   *)
LeftBehind(c) == UNCHANGED entries

Forgotten(c) == entries' = [entries EXCEPT ![client[c]] = @ \ {c}]

CallSends(c) ==
    /\ pc[c] = "send"
    /\ \/ /\ ~Full(client[c]) /\ Queue(client[c], Invoke(c))
          /\ pc' = [pc EXCEPT ![c] = "wait"]
          /\ UNCHANGED <<client, entries>>
       \/ /\ Refuses(client[c])
          /\ Forgotten(c) /\ Done(c)
          /\ UNCHANGED line
    /\ UNCHANGED <<electVars, beatEntry, closed, failing, shut, forwarding, inbox,
                   reader, beatVars, replyVars, guiVars>>

CallReturns(c) ==
    /\ pc[c] = "wait" /\ reply[c] # None
    /\ Done(c)
    /\ UNCHANGED <<electVars, pendingVars, failing, shut, forwarding, line, inbox,
                   reader, beatVars, replyVars, guiVars>>

(* recv_timeout expires; an answer resolved before remove_pending is as     *)
(* lost as one resolved after it.                                          *)
CallTimesOut(c) ==
    /\ pc[c] = "wait" /\ reply[c] = None
    /\ Forgotten(c) /\ Done(c)
    /\ UNCHANGED <<electVars, beatEntry, closed, failing, shut, forwarding, line,
                   inbox, reader, beatVars, replyVars, guiVars>>

Caller(c) ==
    \/ CallRoutes(c) \/ CallInserts(c) \/ CallSends(c) \/ CallReturns(c)
    \/ CallTimesOut(c)

----------------------------------------------------------------------------
Next ==
    \/ \E k \in Conns :
          Reader(k) \/ FailAll(k) \/ HangsUp(k) \/ Forward(k) \/ Heartbeat(k) \/ Gui(k)
    \/ \E c \in Calls : Caller(c)

(* The daemon's own threads keep running, and so does what GuiAwaits and    *)
(* GuiReads model of a GUI that is not wedged. Not assumed: that a call's   *)
(* own timeout comes, that a job answers, that a GUI connects or ends.      *)
Fairness ==
    /\ \A k \in Conns :
         /\ WF_vars(Reader(k)) /\ WF_vars(FailAll(k) \/ HangsUp(k)) /\ WF_vars(Heartbeat(k))
         /\ WF_vars(GuiAwaits(k)) /\ WF_vars(GuiReads(k))
    /\ \A c \in Calls :
         WF_vars(CallInserts(c)) /\ WF_vars(CallSends(c)) /\ WF_vars(CallReturns(c))

Spec == Init /\ [][Next]_vars

FairSpec == Spec /\ Fairness

----------------------------------------------------------------------------
(* Properties.                                                             *)

(* order lists every registered client once, the primary is a registered   *)
(* client that wants to be it, and there is one as soon as any wants to:    *)
(* a GUI that drops out while others stay never leaves the daemon without.  *)
PrimaryChosen ==
    /\ clients = {order[i] : i \in DOMAIN order}
    /\ \A i, j \in DOMAIN order : order[i] = order[j] => i = j
    /\ primary # None => primary \in clients \cap Wants
    /\ primary = None => clients \cap Wants = {}

(* A call waits for a reply, or is about to send, exactly while its entry   *)
(* is in the pending map of the client it holds, and of no other: whatever  *)
(* the order of a response, a timeout, a full channel and an unregister,    *)
(* no entry outlives its call and no call waits that nobody will resolve.  *)
EntriesAndWaiters ==
    \A c \in Calls, k \in Conns :
        c \in entries[k] <=>
            client[c] = k /\ pc[c] \in {"send", "wait"} /\ reply[c] = None

(* No event is the first line a GUI that awaits its register ack will read  *)
(* (start_event_forwarder: "MUST be called only after the `gui.register`    *)
(* ack is queued").                                                        *)
EventsAfterAck ==
    \A k \in Conns :
        gui[k] = "registering" /\ line[k] # <<>> => Head(line[k]) # Event

(* A GUI that hangs is unregistered by the heartbeat, even when its channel *)
(* is full ("blocking on a full buffer would prevent the miss-count that    *)
(* tears down a wedged GUI").                                              *)
WedgedUnregistered ==
    \A k \in Conns : gui[k] = "wedged" ~> k \notin clients

(* A call that holds a client when, or after, it was removed returns, and   *)
(* not because its own timeout (up to 120 s) came.                         *)
OrphansReturn ==
    \A c \in Calls :
        (client[c] # None /\ client[c] \notin clients) ~> client[c] = None
================================================================================
