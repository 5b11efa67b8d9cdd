--------------------------- MODULE GuiRegistryProofs ---------------------------
(* Theorems of GuiRegistry, for any connections, any number of calls, any   *)
(* capacity of the channel and any number of misses.                        *)
EXTENDS GuiRegistry, TLAPS, WellFoundedInduction

Pcs == {"idle", "insert", "send", "wait", "done"}
Lines == {Ack, Event, Ping, StalePing} \union {Invoke(c) : c \in Calls}

----------------------------------------------------------------------------
(* A call and its entry come and go together. The property is inductive     *)
(* with two facts: from its routing to its return a call holds a client,    *)
(* and before it has an entry nothing was sent to it.                       *)
CallTypes ==
  /\ entries \in [Conns -> SUBSET Calls]
  /\ pc \in [Calls -> Pcs]
  /\ client \in [Calls -> Conns \union {None}]
  /\ reply \in [Calls -> {None, "response", "gui_disconnected"}]
HoldsClient == \A c \in Calls : pc[c] \in {"insert", "send", "wait"} => client[c] \in Conns
NoReplyYet == \A c \in Calls : pc[c] \in {"idle", "insert"} => reply[c] = None

CallInv ==
  /\ CallTypes
  /\ HoldsClient
  /\ NoReplyYet
  /\ EntriesAndWaiters

LEMMA CallInit == Init => CallInv
  BY DEF Init, CallInv, CallTypes, HoldsClient, NoReplyYet, EntriesAndWaiters, Pcs

(* The steps of the caller itself.                                          *)
LEMMA CallCaller ==
  ASSUME CallInv, NEW c \in Calls, Caller(c)
  PROVE  CallInv'
  <1> USE DEF CallInv, CallTypes, HoldsClient, NoReplyYet, EntriesAndWaiters, Pcs,
              pendingVars, replyVars, callVars, Done
  <1>1. CASE CallRoutes(c)
    <2>1. PICK target \in Conns \union {None} :
            LET k == IF target = None THEN primary ELSE target
            IN  IF k \in clients \cap Capable
                THEN /\ pc' = [pc EXCEPT ![c] = "insert"]
                     /\ client' = [client EXCEPT ![c] = k]
                ELSE Done(c)
      BY <1>1 DEF CallRoutes
    <2>2. pc[c] = "idle" /\ UNCHANGED <<entries, reply>>
      BY <1>1 DEF CallRoutes
    <2>3. \A k \in Capable : k \in Conns
      BY ConnsAssumption
    <2>4. \/ \E k \in Conns : /\ pc' = [pc EXCEPT ![c] = "insert"]
                              /\ client' = [client EXCEPT ![c] = k]
          \/ Done(c)
      BY <2>1, <2>3
    <2>5. QED
      BY <2>2, <2>4, NoneAssumption
  <1>2. CASE CallInserts(c)
    BY <1>2, NoneAssumption DEF CallInserts
  <1>3. CASE CallSends(c)
    BY <1>3, NoneAssumption DEF CallSends, Forgotten
  <1>4. CASE CallReturns(c)
    BY <1>4, NoneAssumption DEF CallReturns
  <1>5. CASE CallTimesOut(c)
    BY <1>5, NoneAssumption DEF CallTimesOut, Forgotten
  <1>6. QED
    BY <1>1, <1>2, <1>3, <1>4, <1>5 DEF Caller

(* A reply takes the entry with it, whoever sends it.                       *)
LEMMA CallReader ==
  ASSUME CallInv, NEW k \in Conns, Reader(k)
  PROVE  CallInv'
  <1> USE DEF CallInv, CallTypes, HoldsClient, NoReplyYet, EntriesAndWaiters,
              pendingVars, replyVars, callVars
  <1>1. CASE ReaderResolves(k)
    <2> DEFINE found == {c \in entries[k] : k \in clients /\ Head(inbox[k]) = Invoke(c)}
    <2>1. /\ entries' = [entries EXCEPT ![k] = @ \ found]
          /\ reply' = [c \in Calls |-> IF c \in found THEN "response" ELSE reply[c]]
          /\ UNCHANGED <<pc, client>>
      BY <1>1 DEF ReaderResolves
    <2>2. found \subseteq entries[k]
      OBVIOUS
    <2> HIDE DEF found
    <2>3. QED
      BY <2>1, <2>2, NoneAssumption
  <1>2. CASE ReaderRegisters(k) \/ ReaderAcks(k) \/ ReaderForwards(k) \/ ReaderEnds(k)
    BY <1>2 DEF ReaderRegisters, ReaderAcks, ReaderForwards, ReaderEnds
  <1>3. QED
    BY <1>1, <1>2 DEF Reader

LEMMA CallFails ==
  ASSUME CallInv, NEW k \in Conns, FailAll(k)
  PROVE  CallInv'
  BY NoneAssumption DEF CallInv, CallTypes, HoldsClient, NoReplyYet, EntriesAndWaiters,
         callVars, FailAll

(* Nothing else touches a call, its entry or its channel.                   *)
LEMMA CallOthers ==
  ASSUME CallInv, NEW k \in Conns,
         HangsUp(k) \/ Forward(k) \/ Heartbeat(k) \/ Gui(k)
  PROVE  CallInv'
  <1>1. UNCHANGED <<entries, pc, client, reply>>
    <2> USE DEF pendingVars, replyVars, callVars
    <2>1. CASE HangsUp(k) \/ Forward(k)
      BY <2>1 DEF HangsUp, Forward
    <2>2. CASE Heartbeat(k)
      BY <2>2 DEF Heartbeat, BeatPings, BeatReturns, BeatTimesOut, BeatDrops, BeatOver
    <2>3. CASE Gui(k)
      BY <2>3 DEF Gui, Connect, GuiAwaits, GuiReads, GuiWedges, GuiEnds, JobRuns
    <2>4. QED
      BY <2>1, <2>2, <2>3
  <1>2. QED
    BY <1>1 DEF CallInv, CallTypes, HoldsClient, NoReplyYet, EntriesAndWaiters

LEMMA CallStep == CallInv /\ [Next]_vars => CallInv'
  <1> SUFFICES ASSUME CallInv, [Next]_vars PROVE CallInv'
    OBVIOUS
  <1>1. CASE Next
    BY <1>1, CallCaller, CallReader, CallFails, CallOthers DEF Next
  <1>2. CASE UNCHANGED vars
    BY <1>2 DEF vars, pendingVars, replyVars, callVars,
                CallInv, CallTypes, HoldsClient, NoReplyYet, EntriesAndWaiters
  <1>3. QED
    BY <1>1, <1>2

(* Whatever the order of responses, timeouts, refused sends and unregisters, *)
(* a call waits for a reply exactly while its entry is in the pending map of *)
(* the client it holds: no entry leaks and no caller is forgotten.           *)
THEOREM CallsAreEntries == Spec => []EntriesAndWaiters
  <1>1. CallInv => EntriesAndWaiters
    BY DEF CallInv
  <1>2. QED
    BY CallInit, CallStep, <1>1, PTL DEF Spec

----------------------------------------------------------------------------
(* No event before the ack. What makes it inductive is that an ack is in    *)
(* the channel before anything can put an event there, and stays in front   *)
(* of it for as long as the GUI has read nothing: only the reader thread    *)
(* starts the forwarder, and only after its send returned, be it that the   *)
(* connection was broken.                                                  *)
LineTypes == line \in [Conns -> Seq(Lines)]
Unread(k) == gui[k] \in {"none", "registering"}
AckBeforeForwarder ==
  \A k \in Conns :
    Unread(k) /\ k \notin shut /\ (k \in forwarding \/ reader[k] = "forward") =>
      \E j \in DOMAIN line[k] : line[k][j] = Ack
AckBeforeEvent ==
  \A k \in Conns : Unread(k) =>
    \A i \in DOMAIN line[k] : line[k][i] = Event =>
      \E j \in DOMAIN line[k] : j < i /\ line[k][j] = Ack

AckInv ==
  /\ LineTypes
  /\ gui \in [Conns -> {"none", "registering", "running", "wedged", "over"}]
  /\ reader \in [Conns -> {"none", "read", "ack", "forward", "over"}]
  /\ AckBeforeForwarder
  /\ AckBeforeEvent

LEMMA AckInit == Init => AckInv
  BY DEF Init, AckInv, LineTypes, AckBeforeForwarder, AckBeforeEvent, Unread

(* Lines that are not the same line.                                        *)
LEMMA LinesDiffer ==
  /\ {Ack, Event, Ping, StalePing} \subseteq Lines
  /\ \A c \in Calls : Invoke(c) \in Lines /\ Invoke(c) # Event
  /\ Ack # Event /\ Ping # Event /\ StalePing # Event /\ Ping # Ack /\ StalePing # Ack
  BY DEF Lines, Ack, Event, Ping, StalePing, Invoke

(* A line is queued behind the others; an event needs an ack before it.     *)
LEMMA QueueKeeps ==
  ASSUME AckInv, NEW k \in Conns, NEW m \in Lines, Queue(k, m),
         m = Event => k \in forwarding /\ ~Broken(k),
         UNCHANGED <<gui, shut>>
  PROVE  /\ LineTypes' /\ AckBeforeEvent'
         /\ \A h \in Conns : \A j \in DOMAIN line[h] :
                line[h][j] = Ack => j \in DOMAIN line'[h] /\ line'[h][j] = Ack
         /\ m = Ack /\ ~Broken(k) => \E j \in DOMAIN line'[k] : line'[k][j] = Ack
  <1> USE DEF AckInv, LineTypes, Unread, AckBeforeEvent, AckBeforeForwarder
  <1>1. CASE Broken(k)
    BY <1>1 DEF Queue
  <1>2. CASE ~Broken(k)
    <2>1. line' = [line EXCEPT ![k] = Append(@, m)] /\ line[k] \in Seq(Lines)
      BY <1>2 DEF Queue
    <2>2. /\ Append(line[k], m) \in Seq(Lines)
          /\ DOMAIN Append(line[k], m) = 1 .. Len(line[k]) + 1
          /\ DOMAIN line[k] = 1 .. Len(line[k]) /\ Len(line[k]) \in Nat
          /\ \A i \in 1 .. Len(line[k]) : Append(line[k], m)[i] = line[k][i]
          /\ Append(line[k], m)[Len(line[k]) + 1] = m
      BY <2>1
    <2>3. LineTypes'
      BY <2>1, <2>2
    <2>4. \A h \in Conns : \A j \in DOMAIN line[h] :
             line[h][j] = Ack => j \in DOMAIN line'[h] /\ line'[h][j] = Ack
      <3>1. \A j \in DOMAIN line[k] : j \in DOMAIN line'[k] /\ line'[k][j] = line[k][j]
        BY <2>1, <2>2
      <3>2. \A h \in Conns : h # k => line'[h] = line[h]
        BY <2>1
      <3>3. QED
        BY <3>1, <3>2
    <2>5. m = Ack => \E j \in DOMAIN line'[k] : line'[k][j] = Ack
      <3>1. Len(line[k]) + 1 \in DOMAIN line'[k] /\ line'[k][Len(line[k]) + 1] = m
        BY <2>1, <2>2
      <3>2. QED
        BY <3>1
    <2>6. AckBeforeEvent'
      <3> SUFFICES ASSUME NEW h \in Conns, Unread(h), NEW i \in DOMAIN line'[h],
                          line'[h][i] = Event
                   PROVE  \E j \in DOMAIN line'[h] : j < i /\ line'[h][j] = Ack
        BY DEF AckBeforeEvent
      <3>1. CASE h # k \/ i <= Len(line[k])
        <4>1. i \in DOMAIN line[h] /\ line[h][i] = Event
          BY <2>1, <2>2, <3>1
        <4>2. PICK j \in DOMAIN line[h] : j < i /\ line[h][j] = Ack
          BY <4>1
        <4>3. QED
          BY <2>4, <4>2
      <3>2. CASE h = k /\ ~(i <= Len(line[k]))
        <4>1. m = Event /\ i = Len(line[k]) + 1
          BY <2>1, <2>2, <3>2
        <4>2. PICK j \in DOMAIN line[k] : line[k][j] = Ack
          BY <4>1, <3>2, <1>2 DEF Broken
        <4>3. QED
          BY <2>2, <2>4, <4>1, <4>2, <3>2
      <3>3. QED
        BY <3>1, <3>2
    <2>7. QED
      BY <2>3, <2>4, <2>5, <2>6
  <1>3. QED
    BY <1>1, <1>2

(* The reader: register, ack, forwarder.                                    *)
LEMMA AckReader ==
  ASSUME AckInv, NEW k \in Conns, Reader(k)
  PROVE  AckInv'
  <1> USE DEF AckInv, Unread, guiVars
  <1>1. CASE ReaderAcks(k)
    <2>1. UNCHANGED <<gui, shut, forwarding>>
          /\ reader' = [reader EXCEPT ![k] = "forward"]
      BY <1>1 DEF ReaderAcks
    <2>2. CASE Queue(k, Ack)
      <3>1. /\ LineTypes' /\ AckBeforeEvent'
            /\ \A h \in Conns : \A j \in DOMAIN line[h] :
                   line[h][j] = Ack => j \in DOMAIN line'[h] /\ line'[h][j] = Ack
            /\ ~Broken(k) => \E j \in DOMAIN line'[k] : line'[k][j] = Ack
        BY <2>1, <2>2, QueueKeeps, LinesDiffer
      <3>2. AckBeforeForwarder'
        BY <2>1, <3>1 DEF AckBeforeForwarder, Broken
      <3>3. QED
        BY <2>1, <3>1, <3>2
    <2>3. CASE Broken(k) /\ UNCHANGED line
      BY <2>1, <2>3 DEF Broken, LineTypes, AckBeforeForwarder, AckBeforeEvent
    <2>4. QED
      BY <1>1, <2>2, <2>3 DEF ReaderAcks
  <1>2. CASE ReaderForwards(k)
    BY <1>2 DEF ReaderForwards, AckQueued, LineTypes, AckBeforeForwarder, AckBeforeEvent
  <1>3. CASE ReaderRegisters(k) \/ ReaderResolves(k) \/ ReaderEnds(k)
    <2>1. /\ UNCHANGED <<line, gui, shut, forwarding>>
          /\ \/ UNCHANGED reader
             \/ \E pos \in {"ack", "over"} : reader' = [reader EXCEPT ![k] = pos]
      BY <1>3 DEF ReaderRegisters, ReaderResolves, ReaderEnds
    <2>2. /\ reader' \in [Conns -> {"none", "read", "ack", "forward", "over"}]
          /\ \A h \in Conns : reader'[h] = "forward" => reader[h] = "forward"
      BY <2>1
    <2>3. AckBeforeForwarder'
      BY <2>1, <2>2 DEF AckBeforeForwarder
    <2>4. QED
      BY <2>1, <2>2, <2>3 DEF LineTypes, AckBeforeEvent
  <1>4. QED
    BY <1>1, <1>2, <1>3 DEF Reader

(* A line other than an event, or an event from a forwarder, is queued.     *)
LEMMA AckQueues ==
  ASSUME AckInv, NEW k \in Conns, NEW m \in Lines, Queue(k, m),
         m = Event => k \in forwarding /\ ~Broken(k),
         UNCHANGED <<gui, shut, forwarding, reader>>
  PROVE  AckInv'
  <1>1. /\ LineTypes' /\ AckBeforeEvent'
        /\ \A h \in Conns : \A j \in DOMAIN line[h] :
               line[h][j] = Ack => j \in DOMAIN line'[h] /\ line'[h][j] = Ack
    BY QueueKeeps
  <1>2. AckBeforeForwarder'
    BY <1>1 DEF AckInv, AckBeforeForwarder, Unread
  <1>3. QED
    BY <1>1, <1>2 DEF AckInv

LEMMA AckHeartbeat ==
  ASSUME AckInv, NEW k \in Conns, Heartbeat(k)
  PROVE  AckInv'
  <1>1. UNCHANGED <<gui, shut, forwarding, reader>>
    BY DEF Heartbeat, BeatPings, BeatReturns, BeatTimesOut, BeatDrops, BeatOver, guiVars
  <1>2. CASE BeatTimesOut(k)
    <2> DEFINE staled == [i \in 1 .. Len(line[k]) |->
                            IF line[k][i] = Ping THEN StalePing ELSE line[k][i]]
    <2>1. line' = [line EXCEPT ![k] = staled] /\ line[k] \in Seq(Lines)
      BY <1>2 DEF BeatTimesOut, ReplaceAll, AckInv, LineTypes
    <2>2. staled \in Seq(Lines)
      <3>1. DOMAIN line[k] = 1 .. Len(line[k]) /\ Len(line[k]) \in Nat
            /\ \A i \in DOMAIN line[k] : line[k][i] \in Lines
        BY <2>1
      <3>2. staled \in [1 .. Len(line[k]) -> Lines]
        BY <3>1, LinesDiffer
      <3>3. QED
        BY <3>1, <3>2
    <2>3. /\ DOMAIN staled = DOMAIN line[k]
          /\ \A i \in DOMAIN line[k] : (staled[i] = Ack) = (line[k][i] = Ack)
          /\ \A i \in DOMAIN line[k] : (staled[i] = Event) = (line[k][i] = Event)
      BY LinesDiffer
    <2> HIDE DEF staled
    <2>4. ASSUME NEW h \in Conns
          PROVE  /\ DOMAIN line'[h] = DOMAIN line[h]
                 /\ \A i \in DOMAIN line[h] : line[h][i] = Ack => line'[h][i] = Ack
                 /\ \A i \in DOMAIN line[h] : line'[h][i] = Event => line[h][i] = Event
      <3>1. CASE h = k
        BY <2>1, <2>3, <3>1 DEF AckInv, LineTypes
      <3>2. CASE h # k
        BY <2>1, <3>2 DEF AckInv, LineTypes
      <3>3. QED
        BY <3>1, <3>2
    <2>5. LineTypes'
      BY <2>1, <2>2 DEF AckInv, LineTypes
    <2>6. AckBeforeForwarder'
      <3> SUFFICES ASSUME NEW h \in Conns, Unread(h)', h \notin shut',
                          h \in forwarding' \/ reader'[h] = "forward"
                   PROVE  \E j \in DOMAIN line'[h] : line'[h][j] = Ack
        BY DEF AckBeforeForwarder
      <3>1. PICK j \in DOMAIN line[h] : line[h][j] = Ack
        BY <1>1 DEF AckInv, AckBeforeForwarder, Unread
      <3>2. QED
        BY <2>4, <3>1
    <2>7. AckBeforeEvent'
      <3> SUFFICES ASSUME NEW h \in Conns, Unread(h)', NEW i \in DOMAIN line'[h],
                          line'[h][i] = Event
                   PROVE  \E j \in DOMAIN line'[h] : j < i /\ line'[h][j] = Ack
        BY DEF AckBeforeEvent
      <3>1. i \in DOMAIN line[h] /\ line[h][i] = Event
        BY <2>4
      <3>2. PICK j \in DOMAIN line[h] : j < i /\ line[h][j] = Ack
        BY <1>1, <3>1 DEF AckInv, AckBeforeEvent, Unread
      <3>3. QED
        BY <2>4, <3>2
    <2>8. QED
      BY <1>1, <2>5, <2>6, <2>7 DEF AckInv
  <1>3. CASE BeatPings(k)
    BY <1>1, <1>3, AckQueues, LinesDiffer
       DEF BeatPings, AckInv, LineTypes, AckBeforeForwarder, AckBeforeEvent, Unread
  <1>4. CASE BeatReturns(k) \/ BeatDrops(k) \/ BeatOver(k)
    BY <1>1, <1>4 DEF BeatReturns, BeatDrops, BeatOver, AckInv, LineTypes,
                      AckBeforeForwarder, AckBeforeEvent, Unread
  <1>5. QED
    BY <1>2, <1>3, <1>4 DEF Heartbeat

(* The GUI reads from the front, and what it reads first ends Unread.       *)
LEMMA AckGui ==
  ASSUME AckInv, NEW k \in Conns, Gui(k)
  PROVE  AckInv'
  <1> USE DEF AckInv, LineTypes, AckBeforeForwarder, AckBeforeEvent, Unread
  <1>1. CASE Connect(k)
    <2>1. /\ UNCHANGED <<line, shut, forwarding>>
          /\ Unread(k) /\ gui' = [gui EXCEPT ![k] = "registering"]
          /\ reader' = [reader EXCEPT ![k] = "read"]
      BY <1>1 DEF Connect
    <2>2. QED
      BY <2>1
  <1>2. CASE GuiAwaits(k) \/ GuiReads(k) \/ GuiEnds(k)
    <2>1. PICK pos \in {"running", "over"} : gui' = [gui EXCEPT ![k] = pos]
      BY <1>2 DEF GuiAwaits, GuiReads, GuiEnds
    <2>2. /\ UNCHANGED <<shut, forwarding, reader>>
          /\ \/ line' = [line EXCEPT ![k] = <<>>]
             \/ line[k] # <<>> /\ line' = [line EXCEPT ![k] = Tail(@)]
      BY <1>2 DEF GuiAwaits, GuiReads, GuiEnds
    <2>3. line' \in [Conns -> Seq(Lines)] /\ \A h \in Conns : h # k => line'[h] = line[h]
      <3>1. <<>> \in Seq(Lines)
        OBVIOUS
      <3>2. line[k] # <<>> => Tail(line[k]) \in Seq(Lines)
        BY DEF LineTypes
      <3>3. QED
        BY <2>2, <3>1, <3>2
    <2>4. QED
      BY <2>1, <2>2, <2>3
  <1>3. CASE GuiWedges(k) \/ \E c \in Calls : JobRuns(k, c)
    <2>1. /\ UNCHANGED <<line, shut, forwarding, reader>>
          /\ gui' = gui \/ gui' = [gui EXCEPT ![k] = "wedged"]
      BY <1>3 DEF GuiWedges, JobRuns
    <2>2. QED
      BY <2>1
  <1>4. QED
    BY <1>1, <1>2, <1>3 DEF Gui

LEMMA AckOthers ==
  ASSUME AckInv, NEW k \in Conns, FailAll(k) \/ HangsUp(k) \/ Forward(k)
  PROVE  AckInv'
  <1>1. CASE FailAll(k) \/ HangsUp(k)
    <2>1. UNCHANGED <<line, gui, reader>> /\ shut \subseteq shut'
          /\ forwarding' \subseteq forwarding
      BY <1>1 DEF FailAll, HangsUp, guiVars
    <2>2. QED
      BY <2>1 DEF AckInv, LineTypes, AckBeforeForwarder, AckBeforeEvent, Unread
  <1>2. CASE Forward(k)
    BY <1>2, AckQueues, LinesDiffer DEF Forward, guiVars
  <1>3. QED
    BY <1>1, <1>2

LEMMA AckCaller ==
  ASSUME AckInv, NEW c \in Calls, Caller(c), HoldsClient, client \in [Calls -> Conns \union {None}]
  PROVE  AckInv'
  <1>1. UNCHANGED <<gui, shut, forwarding, reader>>
    BY DEF Caller, CallRoutes, CallInserts, CallSends, CallReturns, CallTimesOut, guiVars
  <1>2. UNCHANGED line \/ (client[c] \in Conns /\ Queue(client[c], Invoke(c)))
    BY DEF Caller, CallRoutes, CallInserts, CallSends, CallReturns, CallTimesOut,
           HoldsClient
  <1>3. CASE UNCHANGED line
    BY <1>1, <1>3 DEF AckInv, LineTypes, AckBeforeForwarder, AckBeforeEvent, Unread
  <1>4. CASE client[c] \in Conns /\ Queue(client[c], Invoke(c))
    BY <1>1, <1>4, AckQueues, LinesDiffer
  <1>5. QED
    BY <1>2, <1>3, <1>4

(* A GUI that awaits its ack never reads an event first.                    *)
THEOREM EventsFollowAck == Spec => []EventsAfterAck
  <1>1. CallInv /\ AckInv /\ [Next]_vars => CallInv' /\ AckInv'
    <2> SUFFICES ASSUME CallInv, AckInv, [Next]_vars PROVE AckInv'
      BY CallStep
    <2>1. CASE Next
      BY <2>1, AckReader, AckHeartbeat, AckGui, AckOthers, AckCaller
         DEF Next, CallInv, CallTypes
    <2>2. CASE UNCHANGED vars
      BY <2>2 DEF vars, guiVars, AckInv, LineTypes, AckBeforeForwarder,
                  AckBeforeEvent, Unread
    <2>3. QED
      BY <2>1, <2>2
  <1>2. AckInv => EventsAfterAck
    <2> SUFFICES ASSUME AckInv, NEW k \in Conns, gui[k] = "registering",
                        line[k] # <<>>, Head(line[k]) = Event
                 PROVE  FALSE
      BY DEF EventsAfterAck
    <2>1. /\ DOMAIN line[k] = 1 .. Len(line[k]) /\ Len(line[k]) \in Nat
          /\ 1 \in DOMAIN line[k] /\ line[k][1] = Event
      BY DEF AckInv, LineTypes
    <2>2. QED
      BY <2>1 DEF AckInv, AckBeforeEvent, Unread
  <1>3. QED
    BY CallInit, AckInit, <1>1, <1>2, PTL DEF Spec

----------------------------------------------------------------------------
(* The election. A set of positions has a last one, by the well-founded     *)
(* order of the naturals.                                                   *)
LEMMA LeastNatural ==
  ASSUME NEW T, T \subseteq Nat, T # {}
  PROVE  \E x \in T : \A y \in T : x <= y
  <1>1. PICK x \in T : \A y \in T : ~ (<<y, x>> \in OpToRel(<, Nat))
    BY NatLessThanWellFounded, WFMin
  <1>2. \A y \in T : ~(y < x)
    BY <1>1 DEF OpToRel
  <1>3. QED
    BY <1>2

LEMMA LastPosition ==
  ASSUME NEW n \in Nat, NEW I, I \subseteq 1 .. n, I # {}
  PROVE  \E i \in I : \A j \in I : j <= i
  <1> DEFINE D == {d \in Nat : n - d \in I}
  <1>1. D \subseteq Nat /\ D # {}
    <2>1. PICK i \in I : TRUE
      OBVIOUS
    <2>2. n - i \in Nat /\ n - (n - i) = i
      BY <2>1
    <2>3. QED
      BY <2>2
  <1>2. PICK d \in D : \A y \in D : d <= y
    <2> HIDE DEF D
    <2> QED
      BY <1>1, LeastNatural
  <1>3. n - d \in I
    BY <1>2
  <1>4. ASSUME NEW j \in I PROVE j <= n - d
    <2>1. n - j \in Nat /\ n - (n - j) = j
      OBVIOUS
    <2>2. n - j \in D
      BY <2>1
    <2>3. QED
      BY <1>2, <2>2
  <1>5. QED
    BY <1>3, <1>4

(* Newest finds an element of S whenever the list holds one.                *)
LEMMA NewestFound ==
  ASSUME NEW X, NEW seq \in Seq(X), NEW S, None \notin X
  PROVE  /\ Newest(S, seq) # None =>
              \E i \in DOMAIN seq : seq[i] = Newest(S, seq) /\ seq[i] \in S
         /\ Newest(S, seq) = None => \A i \in DOMAIN seq : seq[i] \notin S
  <1> DEFINE I == {i \in DOMAIN seq : seq[i] \in S}
  <1>1. DOMAIN seq = 1 .. Len(seq) /\ Len(seq) \in Nat /\ \A i \in DOMAIN seq : seq[i] # None
    OBVIOUS
  <1>2. CASE I = {}
    BY <1>1, <1>2 DEF Newest
  <1>3. CASE I # {}
    <2>1. \E i \in I : \A j \in I : j <= i
      <3>1. I \subseteq 1 .. Len(seq)
        BY <1>1
      <3>2. QED
        BY <1>1, <1>3, <3>1, LastPosition
    <2> DEFINE last == CHOOSE i \in DOMAIN seq :
                         seq[i] \in S /\ \A j \in DOMAIN seq : seq[j] \in S => j <= i
    <2>2. last \in DOMAIN seq /\ seq[last] \in S
      BY <2>1
    <2>3. Newest(S, seq) = seq[last]
      BY <1>3 DEF Newest
    <2>4. QED
      BY <1>1, <2>2, <2>3
  <1>4. QED
    BY <1>2, <1>3

(* What Without leaves, of a list that may hold x.                          *)
LEMMA WithoutKeeps ==
  ASSUME NEW X, NEW seq \in Seq(X), NEW x
  PROVE  /\ Without(x, seq) \in Seq(X)
         /\ \/ Without(x, seq) = seq /\ \A i \in DOMAIN seq : seq[i] # x
            \/ \E p \in DOMAIN seq :
                  /\ seq[p] = x
                  /\ Len(Without(x, seq)) = Len(seq) - 1
                  /\ \A i \in 1 .. Len(seq) - 1 :
                       Without(x, seq)[i] = IF i < p THEN seq[i] ELSE seq[i + 1]
  <1>1. CASE \E i \in DOMAIN seq : seq[i] = x
    <2> DEFINE p == CHOOSE i \in DOMAIN seq : seq[i] = x
    <2>1. p \in DOMAIN seq /\ seq[p] = x
      BY <1>1
    <2>2. Without(x, seq) = SubSeq(seq, 1, p - 1) \o SubSeq(seq, p + 1, Len(seq))
      BY <1>1 DEF Without, RemoveAt
    <2> HIDE DEF p
    <2>3. p \in 1 .. Len(seq) /\ Len(seq) \in Nat
      BY <2>1
    <2>4. /\ SubSeq(seq, 1, p - 1) \in Seq(X) /\ Len(SubSeq(seq, 1, p - 1)) = p - 1
          /\ \A i \in 1 .. p - 1 : SubSeq(seq, 1, p - 1)[i] = seq[i]
      BY <2>3
    <2>5. /\ SubSeq(seq, p + 1, Len(seq)) \in Seq(X)
          /\ Len(SubSeq(seq, p + 1, Len(seq))) = Len(seq) - p
          /\ \A i \in 1 .. Len(seq) - p : SubSeq(seq, p + 1, Len(seq))[i] = seq[i + p]
      BY <2>3
    <2> DEFINE a == SubSeq(seq, 1, p - 1)
               b == SubSeq(seq, p + 1, Len(seq))
    <2>6. /\ a \o b \in Seq(X) /\ Len(a \o b) = Len(seq) - 1
          /\ \A i \in 1 .. Len(seq) - 1 :
                (a \o b)[i] = IF i <= p - 1 THEN a[i] ELSE b[i - (p - 1)]
      <3> HIDE DEF a, b
      <3>1. a \in Seq(X) /\ b \in Seq(X) /\ Len(a) = p - 1 /\ Len(b) = Len(seq) - p
        BY <2>4, <2>5 DEF a, b
      <3>2. QED
        BY <2>3, <3>1
    <2>7. \A i \in 1 .. Len(seq) - 1 : (a \o b)[i] = IF i < p THEN seq[i] ELSE seq[i + 1]
      <3> SUFFICES ASSUME NEW i \in 1 .. Len(seq) - 1
                   PROVE  (a \o b)[i] = IF i < p THEN seq[i] ELSE seq[i + 1]
        OBVIOUS
      <3>1. CASE i < p
        BY <2>3, <2>4, <2>6, <3>1
      <3>2. CASE ~(i < p)
        <4>1. i - (p - 1) \in 1 .. Len(seq) - p /\ (i - (p - 1)) + p = i + 1 /\ ~(i <= p - 1)
          BY <2>3, <3>2
        <4>2. QED
          BY <2>5, <2>6, <3>2, <4>1
      <3>3. QED
        BY <3>1, <3>2
    <2>8. QED
      BY <2>1, <2>2, <2>6, <2>7
  <1>2. CASE ~ \E i \in DOMAIN seq : seq[i] = x
    BY <1>2 DEF Without
  <1>3. QED
    BY <1>1, <1>2

(* Removing k from the registration order leaves the others, each once.     *)
LEMMA OrderWithout ==
  ASSUME order \in Seq(Conns), NEW k \in Conns,
         \A i, j \in DOMAIN order : order[i] = order[j] => i = j
  PROVE  LET rest == Without(k, order)
         IN  /\ rest \in Seq(Conns)
             /\ {rest[i] : i \in DOMAIN rest} = {order[i] : i \in DOMAIN order} \ {k}
             /\ \A i, j \in DOMAIN rest : rest[i] = rest[j] => i = j
  <1> DEFINE rest == Without(k, order)
  <1>1. rest \in Seq(Conns)
    BY WithoutKeeps
  <1>2. CASE rest = order /\ \A i \in DOMAIN order : order[i] # k
    <2>1. k \notin {order[i] : i \in DOMAIN order}
      BY <1>2
    <2> HIDE DEF rest
    <2>2. {rest[i] : i \in DOMAIN rest} = {order[i] : i \in DOMAIN order} \ {k}
      BY <1>2, <2>1
    <2>3. \A i, j \in DOMAIN rest : rest[i] = rest[j] => i = j
      BY <1>2
    <2>4. QED
      BY <1>1, <2>2, <2>3 DEF rest
  <1>3. ASSUME NEW p \in DOMAIN order, order[p] = k, Len(rest) = Len(order) - 1,
               \A i \in 1 .. Len(order) - 1 :
                  rest[i] = IF i < p THEN order[i] ELSE order[i + 1]
        PROVE  /\ {rest[i] : i \in DOMAIN rest} = {order[i] : i \in DOMAIN order} \ {k}
               /\ \A i, j \in DOMAIN rest : rest[i] = rest[j] => i = j
    <2> HIDE DEF rest
    <2>1. /\ DOMAIN order = 1 .. Len(order) /\ Len(order) \in Nat
          /\ DOMAIN rest = 1 .. Len(order) - 1
      BY <1>1, <1>3
    <2> DEFINE at(i) == IF i < p THEN i ELSE i + 1
    <2>2. \A i \in DOMAIN rest :
             at(i) \in DOMAIN order /\ at(i) # p /\ rest[i] = order[at(i)]
      BY <1>3, <2>1
    <2>3. \A i \in DOMAIN rest : order[at(i)] # k
      BY <1>3, <2>2
    <2>4. \A j \in DOMAIN order : order[j] # k => \E i \in DOMAIN rest : at(i) = j
      <3> SUFFICES ASSUME NEW j \in DOMAIN order, order[j] # k
                   PROVE  \E i \in DOMAIN rest : at(i) = j
        OBVIOUS
      <3>1. j # p
        BY <1>3
      <3>2. CASE j < p
        BY <2>1, <3>2
      <3>3. CASE j > p
        <4>1. j - 1 \in DOMAIN rest /\ at(j - 1) = j
          BY <2>1, <3>3
        <4>2. QED
          BY <4>1
      <3>4. QED
        BY <2>1, <3>1, <3>2, <3>3
    <2>5. \A i, j \in DOMAIN rest : at(i) = at(j) => i = j
      BY <2>1
    <2> HIDE DEF at
    <2>6. {rest[i] : i \in DOMAIN rest} = {order[i] : i \in DOMAIN order} \ {k}
      <3>1. \A i \in DOMAIN rest : rest[i] \in {order[j] : j \in DOMAIN order} \ {k}
        BY <2>2, <2>3
      <3>2. \A j \in DOMAIN order : order[j] # k => order[j] \in {rest[i] : i \in DOMAIN rest}
        BY <2>2, <2>4
      <3>3. QED
        BY <3>1, <3>2
    <2>7. \A i, j \in DOMAIN rest : rest[i] = rest[j] => i = j
      BY <2>2, <2>5
    <2>8. QED
      BY <2>6, <2>7
  <1>4. QED
    BY <1>1, <1>2, <1>3, WithoutKeeps

(* The invariant: beside the property itself, that a connection registers   *)
(* once. Its Register is the first thing in its inbox, and it is no client  *)
(* before that was read.                                                    *)
Messages == {Register, Ping} \union {Invoke(c) : c \in Calls}

InboxTypes ==
  /\ inbox \in [Conns -> Seq(Messages)]
  /\ gui \in [Conns -> {"none", "registering", "running", "wedged", "over"}]
RegistersFirst ==
  \A k \in Conns :
    /\ gui[k] = "none" => inbox[k] = <<>> /\ k \notin clients
    /\ \A i \in DOMAIN inbox[k] : inbox[k][i] = Register => i = 1 /\ k \notin clients
ElectTypes ==
  order \in Seq(Conns) /\ clients \subseteq Conns /\ primary \in Conns \union {None}

ElectInv == InboxTypes /\ RegistersFirst /\ ElectTypes /\ PrimaryChosen

LEMMA ElectInit == Init => ElectInv
  BY DEF Init, ElectInv, InboxTypes, RegistersFirst, ElectTypes, PrimaryChosen

LEMMA MessagesDiffer ==
  /\ Register \in Messages /\ Ping \in Messages /\ Register # Ping
  /\ \A c \in Calls : Invoke(c) \in Messages /\ Invoke(c) # Register
  BY DEF Messages, Register, Ping, Invoke

LEMMA RegisterKeeps ==
  ASSUME ElectInv, NEW k \in Conns, ReaderRegisters(k)
  PROVE  ElectInv'
  <1> USE DEF ElectInv, InboxTypes, ElectTypes
  <1>1. /\ inbox[k] # <<>> /\ Head(inbox[k]) = Register
        /\ inbox' = [inbox EXCEPT ![k] = Tail(@)]
        /\ clients' = clients \union {k} /\ order' = Append(order, k)
        /\ primary' = IF primary = None /\ k \in Wants THEN k ELSE primary
        /\ UNCHANGED gui
    BY DEF ReaderRegisters, guiVars
  <1>2. /\ inbox[k] \in Seq(Messages) /\ 1 \in DOMAIN inbox[k] /\ inbox[k][1] = Register
        /\ Tail(inbox[k]) \in Seq(Messages)
        /\ \A i \in DOMAIN Tail(inbox[k]) :
              i + 1 \in DOMAIN inbox[k] /\ i + 1 # 1 /\ Tail(inbox[k])[i] = inbox[k][i + 1]
    BY <1>1
  <1>3. k \notin clients /\ gui[k] # "none"
    BY <1>1, <1>2 DEF RegistersFirst
  <1>4. \A i \in DOMAIN Tail(inbox[k]) : Tail(inbox[k])[i] # Register
    BY <1>2 DEF RegistersFirst
  <1>5. InboxTypes'
    BY <1>1, <1>2
  <1>6. RegistersFirst'
    <2> SUFFICES ASSUME NEW h \in Conns
                 PROVE  /\ gui'[h] = "none" => inbox'[h] = <<>> /\ h \notin clients'
                        /\ \A i \in DOMAIN inbox'[h] :
                              inbox'[h][i] = Register => i = 1 /\ h \notin clients'
      BY DEF RegistersFirst
    <2>1. CASE h = k
      BY <1>1, <1>3, <1>4, <2>1
    <2>2. CASE h # k
      BY <1>1, <2>2 DEF RegistersFirst
    <2>3. QED
      BY <2>1, <2>2
  <1>7. ElectTypes'
    BY <1>1
  <1>8. PrimaryChosen'
    <2>1. /\ DOMAIN order = 1 .. Len(order) /\ Len(order) \in Nat
          /\ DOMAIN order' = 1 .. Len(order) + 1 /\ order'[Len(order) + 1] = k
          /\ \A i \in DOMAIN order : order'[i] = order[i] /\ order[i] \in clients
      BY <1>1 DEF PrimaryChosen
    <2>2. clients' = {order'[i] : i \in DOMAIN order'}
      <3>1. \A h \in clients' : \E i \in DOMAIN order' : order'[i] = h
        <4>1. Len(order) + 1 \in DOMAIN order' /\ DOMAIN order \subseteq DOMAIN order'
          BY <2>1
        <4>2. \A h \in clients : \E i \in DOMAIN order : order[i] = h
          BY DEF PrimaryChosen
        <4>3. QED
          BY <1>1, <2>1, <4>1, <4>2
      <3>2. \A i \in DOMAIN order' : order'[i] \in clients'
        BY <1>1, <2>1
      <3>3. QED
        BY <3>1, <3>2
    <2>3. \A i, j \in DOMAIN order' : order'[i] = order'[j] => i = j
      <3> SUFFICES ASSUME NEW i \in DOMAIN order', NEW j \in DOMAIN order',
                          order'[i] = order'[j]
                   PROVE  i = j
        OBVIOUS
      <3>1. (i \in DOMAIN order \/ i = Len(order) + 1) /\ (j \in DOMAIN order \/ j = Len(order) + 1)
        BY <2>1
      <3>2. QED
        BY <1>3, <2>1, <3>1 DEF PrimaryChosen
    <2>4. (primary' # None => primary' \in clients' \cap Wants)
          /\ (primary' = None => clients' \cap Wants = {})
      BY <1>1, NoneAssumption DEF PrimaryChosen
    <2>5. QED
      BY <2>2, <2>3, <2>4 DEF PrimaryChosen
  <1>9. QED
    BY <1>5, <1>6, <1>7, <1>8

(* Whoever unregisters: the order without it, and the next primary in it.   *)
LEMMA UnregisterKeeps ==
  ASSUME ElectInv, NEW k \in Conns, Unregister(k), UNCHANGED <<inbox, gui>>
  PROVE  ElectInv'
  <1> DEFINE rest == Without(k, order)
  <1>1. /\ clients' = clients \ {k} /\ order' = rest
        /\ primary' = IF primary = k THEN Promoted(rest) ELSE primary
    BY DEF Unregister
  <1>2. /\ order \in Seq(Conns)
        /\ rest \in Seq(Conns)
        /\ {rest[i] : i \in DOMAIN rest} = {order[i] : i \in DOMAIN order} \ {k}
        /\ \A i, j \in DOMAIN rest : rest[i] = rest[j] => i = j
    BY OrderWithout DEF ElectInv, ElectTypes, PrimaryChosen
  <1> HIDE DEF rest
  <1>3. clients' = {order'[i] : i \in DOMAIN order'}
        /\ \A i, j \in DOMAIN order' : order'[i] = order'[j] => i = j
    BY <1>1, <1>2 DEF ElectInv, PrimaryChosen
  <1>4. /\ Promoted(rest) # None => Promoted(rest) \in clients' \cap Wants
        /\ Promoted(rest) = None => clients' \cap Wants = {}
    <2>1. /\ Newest(Wants, rest) # None =>
                \E i \in DOMAIN rest : rest[i] = Newest(Wants, rest) /\ rest[i] \in Wants
          /\ Newest(Wants, rest) = None => \A i \in DOMAIN rest : rest[i] \notin Wants
      BY <1>2, NewestFound, NoneAssumption
    <2>2. QED
      BY <1>1, <1>3, <2>1 DEF Promoted
  <1>5. (primary' # None => primary' \in clients' \cap Wants)
        /\ (primary' = None => clients' \cap Wants = {})
    BY <1>1, <1>4 DEF ElectInv, PrimaryChosen
  <1>6. ElectTypes'
    BY <1>1, <1>2, <1>4 DEF ElectInv, ElectTypes
  <1>7. InboxTypes' /\ RegistersFirst'
    BY <1>1 DEF ElectInv, InboxTypes, RegistersFirst
  <1>8. QED
    BY <1>3, <1>5, <1>6, <1>7 DEF ElectInv, PrimaryChosen

(* The inbox changes otherwise by a Tail, a ping taken out, or something    *)
(* else than a Register put behind what is there.                           *)
LEMMA InboxKeeps ==
  ASSUME ElectInv, NEW k \in Conns, UNCHANGED electVars, gui[k] # "none",
         \/ UNCHANGED inbox
         \/ inbox[k] # <<>> /\ inbox' = [inbox EXCEPT ![k] = Tail(@)]
         \/ inbox' = [inbox EXCEPT ![k] = Without(Ping, @)]
         \/ \E m \in Messages \ {Register} : inbox' = [inbox EXCEPT ![k] = Append(@, m)],
         \/ UNCHANGED gui
         \/ \E pos \in {"running", "wedged", "over"} : gui' = [gui EXCEPT ![k] = pos]
  PROVE  ElectInv'
  <1>1. ElectTypes' /\ PrimaryChosen' /\ UNCHANGED clients
    BY DEF electVars, ElectInv, ElectTypes, PrimaryChosen
  <1>2. /\ inbox'[k] \in Seq(Messages)
        /\ \A i \in DOMAIN inbox'[k] : inbox'[k][i] = Register =>
              1 \in DOMAIN inbox[k] /\ inbox[k][1] = Register /\ i = 1
    <2> USE DEF ElectInv, InboxTypes
    <2> inbox[k] \in Seq(Messages)
      OBVIOUS
    <2>0. /\ inbox \in [Conns -> Seq(Messages)] /\ inbox[k] \in Seq(Messages)
          /\ DOMAIN inbox[k] = 1 .. Len(inbox[k]) /\ Len(inbox[k]) \in Nat
          /\ \A i \in DOMAIN inbox[k] : inbox[k][i] = Register => i = 1
      BY DEF RegistersFirst
    <2>1. CASE UNCHANGED inbox
      BY <2>0, <2>1
    <2>2. CASE inbox[k] # <<>> /\ inbox' = [inbox EXCEPT ![k] = Tail(@)]
      <3>1. /\ Tail(inbox[k]) \in Seq(Messages)
            /\ \A i \in DOMAIN Tail(inbox[k]) :
                  i + 1 \in DOMAIN inbox[k] /\ i + 1 # 1 /\ Tail(inbox[k])[i] = inbox[k][i + 1]
        BY <2>2
      <3>2. QED
        <4> DEFINE rest == Tail(inbox[k])
        <4>1. inbox'[k] = rest
          BY <2>0, <2>2, Zenon
        <4>2. /\ rest \in Seq(Messages)
              /\ \A i \in DOMAIN rest :
                    i + 1 \in DOMAIN inbox[k] /\ i + 1 # 1 /\ rest[i] = inbox[k][i + 1]
          BY <3>1
        <4> HIDE DEF rest, ElectInv, InboxTypes
        <4>3. \A i \in DOMAIN rest : rest[i] # Register
          BY <2>0, <4>2, Zenon
        <4> QED
          BY <4>1, <4>2, <4>3, Zenon
    <2>3. CASE inbox' = [inbox EXCEPT ![k] = Without(Ping, @)]
      <3> DEFINE left == Without(Ping, inbox[k])
      <3>1. /\ left \in Seq(Messages)
            /\ \/ left = inbox[k]
               \/ \E p \in DOMAIN inbox[k] :
                     /\ inbox[k][p] = Ping
                     /\ Len(left) = Len(inbox[k]) - 1
                     /\ \A i \in 1 .. Len(inbox[k]) - 1 :
                          left[i] = IF i < p THEN inbox[k][i] ELSE inbox[k][i + 1]
        BY WithoutKeeps
      <3>2. inbox'[k] = left
        BY <2>0, <2>3
      <3> HIDE DEF left
      <3>3. CASE left = inbox[k]
        BY <2>0, <3>2, <3>3
      <3>4. ASSUME NEW p \in DOMAIN inbox[k], Len(left) = Len(inbox[k]) - 1,
                   \A i \in 1 .. Len(inbox[k]) - 1 :
                      left[i] = IF i < p THEN inbox[k][i] ELSE inbox[k][i + 1],
                   NEW i \in DOMAIN left, left[i] = Register
            PROVE  1 \in DOMAIN inbox[k] /\ inbox[k][1] = Register /\ i = 1
        <4>1. i \in 1 .. Len(inbox[k]) - 1
          BY <2>0, <3>1, <3>4
        <4>2. i \in DOMAIN inbox[k] /\ i + 1 \in DOMAIN inbox[k] /\ i + 1 # 1
          BY <2>0, <4>1
        <4>3. inbox[k][i] = Register
          BY <2>0, <3>4, <4>1, <4>2
        <4>4. QED
          BY <2>0, <4>2, <4>3
      <3>5. QED
        BY <3>1, <3>2, <3>3, <3>4
    <2>4. ASSUME NEW m \in Messages \ {Register}, inbox' = [inbox EXCEPT ![k] = Append(@, m)]
          PROVE  /\ inbox'[k] \in Seq(Messages)
                 /\ \A i \in DOMAIN inbox'[k] : inbox'[k][i] = Register =>
                       1 \in DOMAIN inbox[k] /\ inbox[k][1] = Register /\ i = 1
      <3>1. /\ Append(inbox[k], m) \in Seq(Messages)
            /\ \A i \in DOMAIN Append(inbox[k], m) :
                  \/ i \in DOMAIN inbox[k] /\ Append(inbox[k], m)[i] = inbox[k][i]
                  \/ Append(inbox[k], m)[i] = m
        BY <2>0
      <3>2. QED
        <4> DEFINE more == Append(inbox[k], m)
        <4>1. inbox'[k] = more
          BY <2>0, <2>4, Zenon
        <4>2. /\ more \in Seq(Messages)
              /\ \A i \in DOMAIN more :
                    \/ i \in DOMAIN inbox[k] /\ more[i] = inbox[k][i]
                    \/ more[i] = m
          BY <3>1
        <4> HIDE DEF more, ElectInv, InboxTypes
        <4>3. \A i \in DOMAIN more : more[i] = Register => i \in DOMAIN inbox[k] /\ inbox[k][i] = Register
          BY <2>4, <4>2, Zenon
        <4>4. \A i \in DOMAIN more : more[i] = Register => i = 1
          BY <2>0, <4>3, Zenon
        <4> QED
          BY <4>1, <4>2, <4>3, <4>4, Zenon
    <2>5. QED
      BY <2>1, <2>2, <2>3, <2>4
  <1>3. /\ DOMAIN inbox' = Conns /\ \A h \in Conns : h # k => inbox'[h] = inbox[h]
        /\ inbox' \in [Conns -> Seq(Messages)]
    BY <1>2 DEF ElectInv, InboxTypes
  <1>4. /\ gui' \in [Conns -> {"none", "registering", "running", "wedged", "over"}]
        /\ \A h \in Conns : gui'[h] = "none" => h # k /\ gui[h] = "none"
    BY DEF ElectInv, InboxTypes
  <1>5. RegistersFirst'
    <2> SUFFICES ASSUME NEW h \in Conns
                 PROVE  /\ gui'[h] = "none" => inbox'[h] = <<>> /\ h \notin clients'
                        /\ \A i \in DOMAIN inbox'[h] :
                              inbox'[h][i] = Register => i = 1 /\ h \notin clients'
      BY DEF RegistersFirst
    <2>1. CASE h = k
      BY <1>1, <1>2, <1>4, <2>1 DEF ElectInv, RegistersFirst
    <2>2. CASE h # k
      BY <1>1, <1>3, <1>4, <2>2 DEF ElectInv, RegistersFirst
    <2>3. QED
      BY <2>1, <2>2
  <1>6. QED
    BY <1>1, <1>3, <1>4, <1>5 DEF ElectInv, InboxTypes

LEMMA ElectReader ==
  ASSUME ElectInv, NEW k \in Conns, Reader(k), reader[k] # "none" => gui[k] # "none"
  PROVE  ElectInv'
  <1>1. CASE ReaderRegisters(k)
    BY <1>1, RegisterKeeps
  <1>2. CASE ReaderEnds(k)
    BY <1>2, UnregisterKeeps DEF ReaderEnds, guiVars
  <1>3. CASE ReaderResolves(k)
    BY <1>3, InboxKeeps DEF ReaderResolves, guiVars
  <1>4. CASE ReaderAcks(k) \/ ReaderForwards(k)
    BY <1>4, InboxKeeps DEF ReaderAcks, ReaderForwards, AckQueued, guiVars
  <1>5. QED
    BY <1>1, <1>2, <1>3, <1>4 DEF Reader

LEMMA ElectHeartbeat ==
  ASSUME ElectInv, NEW k \in Conns, Heartbeat(k), beat[k] # "none" => gui[k] # "none"
  PROVE  ElectInv'
  <1>1. CASE BeatDrops(k)
    BY <1>1, UnregisterKeeps DEF BeatDrops, guiVars
  <1>2. CASE BeatTimesOut(k)
    BY <1>2, InboxKeeps DEF BeatTimesOut, guiVars
  <1>3. CASE BeatPings(k) \/ BeatReturns(k) \/ BeatOver(k)
    BY <1>3, InboxKeeps DEF BeatPings, BeatReturns, BeatOver, guiVars
  <1>4. QED
    BY <1>1, <1>2, <1>3 DEF Heartbeat

LEMMA ElectGui ==
  ASSUME ElectInv, NEW k \in Conns, Gui(k)
  PROVE  ElectInv'
  <1>1. CASE Connect(k)
    <2>1. /\ gui[k] = "none" /\ gui' = [gui EXCEPT ![k] = "registering"]
          /\ UNCHANGED electVars
          /\ \/ UNCHANGED inbox
             \/ inbox' = [inbox EXCEPT ![k] = Append(@, Register)]
      BY <1>1 DEF Connect, Answer
    <2>2. inbox[k] = <<>> /\ k \notin clients
      BY <2>1 DEF ElectInv, RegistersFirst
    <2>3. /\ Append(inbox[k], Register) \in Seq(Messages)
          /\ \A i \in DOMAIN Append(inbox[k], Register) : i = 1
      BY <2>2, MessagesDiffer
    <2>4. /\ inbox' \in [Conns -> Seq(Messages)]
          /\ \A h \in Conns \ {k} : inbox'[h] = inbox[h]
          /\ \A i \in DOMAIN inbox'[k] : i = 1
      <3>1. inbox \in [Conns -> Seq(Messages)] /\ \A i \in DOMAIN inbox[k] : i = 1
        BY <2>2 DEF ElectInv, InboxTypes
      <3>2. CASE UNCHANGED inbox
        BY <3>1, <3>2
      <3>3. CASE inbox' = [inbox EXCEPT ![k] = Append(@, Register)]
        BY <2>3, <3>1, <3>3
      <3>4. QED
        BY <2>1, <3>2, <3>3
    <2>5. ElectTypes' /\ PrimaryChosen' /\ UNCHANGED clients
      BY <2>1 DEF electVars, ElectInv, ElectTypes, PrimaryChosen
    <2>a. /\ gui' \in [Conns -> {"none", "registering", "running", "wedged", "over"}]
          /\ gui'[k] = "registering" /\ \A h \in Conns \ {k} : gui'[h] = gui[h]
      BY <2>1 DEF ElectInv, InboxTypes
    <2>6. RegistersFirst'
      <3> SUFFICES ASSUME NEW h \in Conns
                   PROVE  /\ gui'[h] = "none" => inbox'[h] = <<>> /\ h \notin clients'
                          /\ \A i \in DOMAIN inbox'[h] :
                                inbox'[h][i] = Register => i = 1 /\ h \notin clients'
        BY DEF RegistersFirst
      <3>1. CASE h = k
        BY <2>2, <2>4, <2>5, <2>a, <3>1
      <3>2. CASE h # k
        BY <2>4, <2>5, <2>a, <3>2 DEF ElectInv, RegistersFirst
      <3>3. QED
        BY <3>1, <3>2
    <2>7. QED
      BY <2>4, <2>5, <2>a, <2>6 DEF ElectInv, InboxTypes
  <1>2. CASE GuiAwaits(k) \/ GuiWedges(k) \/ GuiEnds(k)
    <2>1. UNCHANGED <<electVars, inbox>> /\ gui[k] # "none"
          /\ \E pos \in {"running", "wedged", "over"} : gui' = [gui EXCEPT ![k] = pos]
      BY <1>2 DEF GuiAwaits, GuiWedges, GuiEnds
    <2>2. QED
      BY <2>1, InboxKeeps
  <1>3. CASE GuiReads(k)
    <2>1. UNCHANGED <<electVars, gui>> /\ gui[k] # "none"
      BY <1>3 DEF GuiReads
    <2>2. \/ UNCHANGED inbox
          \/ \E m \in Messages \ {Register} : inbox' = [inbox EXCEPT ![k] = Append(@, m)]
      <3>1. \/ UNCHANGED inbox
            \/ Answer(k, Ping)
            \/ \E c \in Calls : Answer(k, Invoke(c))
        BY <1>3 DEF GuiReads
      <3>2. QED
        BY <3>1, MessagesDiffer DEF Answer
    <2>3. QED
      BY <2>1, <2>2, InboxKeeps
  <1>4. ASSUME NEW c \in Calls, JobRuns(k, c) PROVE ElectInv'
    <2>1. UNCHANGED <<electVars, gui>> /\ gui[k] # "none"
      BY <1>4 DEF JobRuns
    <2>2. \/ UNCHANGED inbox
          \/ \E m \in Messages \ {Register} : inbox' = [inbox EXCEPT ![k] = Append(@, m)]
      BY <1>4, MessagesDiffer DEF JobRuns, Answer
    <2>3. QED
      BY <2>1, <2>2, InboxKeeps
  <1>5. QED
    BY <1>1, <1>2, <1>3, <1>4 DEF Gui

LEMMA ElectOthers ==
  ASSUME ElectInv, UNCHANGED <<electVars, inbox, gui>>
  PROVE  ElectInv'
  BY DEF electVars, ElectInv, ElectTypes, PrimaryChosen, InboxTypes, RegistersFirst

(* The threads of a connection exist once it does.                          *)
ThreadsStarted ==
  /\ gui \in [Conns -> {"none", "registering", "running", "wedged", "over"}]
  /\ reader \in [Conns -> {"none", "read", "ack", "forward", "over"}]
  /\ beat \in [Conns -> {"none", "sleep", "wait", "drop", "over"}]
  /\ \A k \in Conns : gui[k] = "none" => reader[k] = "none" /\ beat[k] = "none"

LEMMA ThreadsStart ==
  /\ Init => ThreadsStarted
  /\ ThreadsStarted /\ [Next]_vars => ThreadsStarted'
  <1> USE DEF ThreadsStarted
  <1>1. Init => ThreadsStarted
    BY DEF Init
  <1>2. ASSUME ThreadsStarted, NEW k \in Conns, Reader(k) PROVE ThreadsStarted'
    <2>1. /\ UNCHANGED gui /\ reader[k] # "none"
          /\ \/ UNCHANGED reader
             \/ \E pos \in {"read", "ack", "forward", "over"} :
                   reader' = [reader EXCEPT ![k] = pos]
          /\ UNCHANGED beat \/ beat' = [beat EXCEPT ![k] = "sleep"]
      <3>1. CASE ReaderForwards(k)
        BY <3>1 DEF ReaderForwards, AckQueued, guiVars, beatVars
      <3>2. CASE ReaderRegisters(k) \/ ReaderAcks(k) \/ ReaderResolves(k) \/ ReaderEnds(k)
        BY <3>2 DEF ReaderRegisters, ReaderAcks, ReaderResolves, ReaderEnds, guiVars, beatVars
      <3>3. QED
        BY <1>2, <3>1, <3>2 DEF Reader
    <2>2. QED
      BY <1>2, <2>1
  <1>3. ASSUME ThreadsStarted, NEW k \in Conns, Heartbeat(k) PROVE ThreadsStarted'
    <2>1. /\ UNCHANGED <<gui, reader>> /\ beat[k] # "none"
          /\ \/ UNCHANGED beat
             \/ \E pos \in {"sleep", "wait", "drop", "over"} : beat' = [beat EXCEPT ![k] = pos]
      BY <1>3 DEF Heartbeat, BeatPings, BeatReturns, BeatTimesOut, BeatDrops, BeatOver, Missed, guiVars
    <2>2. QED
      BY <1>3, <2>1
  <1>4. ASSUME ThreadsStarted, NEW k \in Conns, Gui(k) PROVE ThreadsStarted'
    <2>1. /\ UNCHANGED beat
          /\ UNCHANGED reader \/ reader' = [reader EXCEPT ![k] = "read"]
          /\ \/ UNCHANGED gui /\ UNCHANGED reader
             \/ \E pos \in {"registering", "running", "wedged", "over"} :
                   gui' = [gui EXCEPT ![k] = pos]
      BY <1>4 DEF Gui, Connect, GuiAwaits, GuiReads, GuiWedges, GuiEnds, JobRuns, beatVars
    <2>2. QED
      BY <1>4, <2>1
  <1>5. ASSUME ThreadsStarted, NEW k \in Conns, FailAll(k) \/ HangsUp(k) \/ Forward(k)
        PROVE  ThreadsStarted'
    BY <1>5 DEF FailAll, HangsUp, Forward, guiVars, beatVars
  <1>6. ASSUME ThreadsStarted, NEW c \in Calls, Caller(c) PROVE ThreadsStarted'
    BY <1>6 DEF Caller, CallRoutes, CallInserts, CallSends, CallReturns, CallTimesOut,
                guiVars, beatVars
  <1>7. ASSUME ThreadsStarted, UNCHANGED vars PROVE ThreadsStarted'
    BY <1>7 DEF vars, guiVars, beatVars
  <1>8. QED
    BY <1>1, <1>2, <1>3, <1>4, <1>5, <1>6, <1>7 DEF Next

(* There is a primary exactly while a registered GUI wants to be one, and   *)
(* it is one of those, in whatever order GUIs register and leave.           *)
THEOREM PrimaryAlways == Spec => []PrimaryChosen
  <1>1. ElectInv /\ ThreadsStarted /\ [Next]_vars => ElectInv'
    <2> SUFFICES ASSUME ElectInv, ThreadsStarted, [Next]_vars PROVE ElectInv'
      OBVIOUS
    <2>1. ASSUME NEW k \in Conns, Reader(k) PROVE ElectInv'
      BY <2>1, ElectReader DEF ThreadsStarted
    <2>2. ASSUME NEW k \in Conns, Heartbeat(k) PROVE ElectInv'
      BY <2>2, ElectHeartbeat DEF ThreadsStarted
    <2>3. ASSUME NEW k \in Conns, Gui(k) PROVE ElectInv'
      BY <2>3, ElectGui
    <2>4. ASSUME NEW k \in Conns, FailAll(k) \/ HangsUp(k) \/ Forward(k) PROVE ElectInv'
      BY <2>4, ElectOthers DEF FailAll, HangsUp, Forward, guiVars
    <2>5. ASSUME NEW c \in Calls, Caller(c) PROVE ElectInv'
      BY <2>5, ElectOthers
         DEF Caller, CallRoutes, CallInserts, CallSends, CallReturns, CallTimesOut, guiVars
    <2>6. CASE UNCHANGED vars
      BY <2>6, ElectOthers DEF vars, guiVars
    <2>7. QED
      BY <2>1, <2>2, <2>3, <2>4, <2>5, <2>6 DEF Next
  <1>2. ElectInv => PrimaryChosen
    BY DEF ElectInv
  <1>3. QED
    BY ElectInit, ThreadsStart, <1>1, <1>2, PTL DEF Spec
================================================================================
