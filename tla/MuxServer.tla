------------------------------ MODULE MuxServer ------------------------------
(***************************************************************************)
(* The comux server and its attached clients (copad-mux/src/server.rs, the *)
(* receiving half of client.rs, and the threads of the panes in term.rs):  *)
(* one main loop that owns everything, per connection a reader thread, a   *)
(* writer thread and between the loop and the writer a channel of one      *)
(* message, so that a client that does not read costs no memory and never  *)
(* blocks the loop.                                                        *)
(*                                                                         *)
(* A screen is a sequence of rows. The first is the status bar, which      *)
(* shows whether some client is in the middle of a chord; the others show  *)
(* what the panes have drawn. Columns, cursor, images, titles and bells,   *)
(* the host's subscribers and the bytes of the replies are left out.       *)
(*                                                                         *)
(* A step is what a thread does up to the next point where another thread  *)
(* can tell the difference. The main loop takes a phase that has nothing   *)
(* to do together with the one before; copies and frames go to all clients *)
(* in one step, since a writer that takes its message in between does what *)
(* it could do before; a write that does not block is one step with taking *)
(* the message.                                                            *)
(***************************************************************************)
EXTENDS Naturals, FiniteSets, Sequences, SequencesExt, Picking

CONSTANTS
  Clients, Panes, None,
  Size,          \* the rows a client opens at
  Tall,          \* the most rows of a terminal
  Says,          \* the kinds of message each client sends after it attached
  Replaces,      \* the attachment each client says it replaces, or None
  Heartbeats,    \* the clients that promised to ping
  Hanging,       \* the clients that may be suspended
  Dying,         \* the clients that may exit at any moment
  HalfDying,     \* the clients whose connection may fail in one direction only
  REPLY_QUEUE, REPLY_HARD,
  ROOM,          \* lines a socket buffers
  SelfHeal,      \* whether reconcile_secs is on
  ShellsExit,    \* whether the last shell may exit
  Draws,         \* whether the panes draw
  MaxInputs      \* bounds what is said, drawn and copied, and what goes wrong, together

(* What a client may send after it attached; a second attach is not sent.  *)
Kinds == {"env", "chord", "redraw", "drag", "resize", "detach", "command", "kill", "ping"}

ASSUME ServerAssumption ==
  /\ None \notin Clients
  /\ Tall \in Nat \ {0} /\ Size \in [Clients -> 1 .. Tall]
  /\ Says \in [Clients -> SUBSET Kinds] /\ Replaces \in [Clients -> Clients \cup {None}]
  /\ REPLY_QUEUE \in Nat \ {0} /\ REPLY_HARD \in Nat /\ REPLY_QUEUE <= REPLY_HARD
  /\ ROOM \in Nat \ {0}

VARIABLES
  loop,          \* the main loop: where it is, whom it still has to serve, what it found
  mux,           \* clients in the order they attached, what is kept of each, and the viewport
  conn,          \* per connection: the queues between the loop and the client, and the threads
  peer,          \* the clients
  panes,         \* what the panes' threads have drawn and put on the clipboard
  handled,       \* per client, what became of its commands, in the order they were handled
  executed,      \* the commands that were executed
  inputs         \* how much was said and done

vars == <<loop, mux, conn, peer, panes, handled, executed, inputs>>

Input == inputs < MaxInputs /\ inputs' = inputs + 1
-----------------------------------------------------------------------------
(* Screens and frames *)

\* A cell no screen shows: the server does not know what the client has there.
Unknown == 2

Blank(rows) == [i \in 1 .. rows |-> 0]

Changed(old, new) == {i \in DOMAIN new : old[i] # new[i]}

\* What one client is sent, from what the server keeps of it (s).
Frame(s, screen) ==
  [t |-> "frame", full |-> s.needsFull, rows |-> Len(screen),
   cells |-> [i \in Changed(s.last, screen) |-> screen[i]]]

\* A delta for another size is skipped: a full frame follows.
Applied(view, f) ==
  LET base == IF f.full THEN Blank(f.rows) ELSE view IN
  IF Len(base) # f.rows THEN view
  ELSE [i \in 1 .. f.rows |-> IF i \in DOMAIN f.cells THEN f.cells[i] ELSE base[i]]

Bye == [t |-> "bye"]
-----------------------------------------------------------------------------
(* The loop's own state: pure functions of it *)

Attached == ToSet(mux.att)

Detached ==
  [last |-> <<>>, needsFull |-> FALSE, pending |-> FALSE, rows |-> 0, armed |-> FALSE,
   tagged |-> FALSE, copy |-> 0, replies |-> <<>>, overflowed |-> FALSE]

AnyArmed(m) == \E c \in ToSet(m.att) : m.srv[c].armed

Baseline(s, rows) == [s EXCEPT !.last = Blank(rows), !.needsFull = TRUE]

Each(m, Op(_)) == [m EXCEPT !.srv = [c \in Clients |-> IF c \in ToSet(m.att) THEN Op(@[c]) ELSE @[c]]]

\* The smallest attached client; with none, the size stays.
RecomputeViewport(m) ==
  LET rows == Min({m.srv[c].rows : c \in ToSet(m.att)}) IN
  IF m.att = <<>> \/ rows = m.viewport THEN m
  ELSE Each([m EXCEPT !.viewport = rows], LAMBDA s : Baseline(s, rows))

Without(m, gone) ==
  RecomputeViewport([m EXCEPT !.att = Picked(@, {i \in DOMAIN @ : @[i] \notin gone}),
                              !.srv = [c \in Clients |-> IF c \in gone THEN Detached ELSE @[c]]])

(* Mutant: nobody looks again at the frame that was just sent.             *)
PrunedQuietly(m, dead) == Without(m, dead)

\* The status bar may name a chord of a client that is no longer there: one more frame.
PruneDeadClients(m, dead) ==
  LET n == Without(m, dead) IN
  IF n.armed = AnyArmed(n) \/ dead = {} THEN n
  ELSE Each(n, LAMBDA s : [s EXCEPT !.pending = TRUE])

(* Mutant: a reply too many is dropped and the client kept.                *)
ReplyDropped(s, reply) ==
  IF Len(s.replies) >= REPLY_HARD THEN s ELSE [s EXCEPT !.replies = Append(@, reply)]

\* A client that is this far behind is disconnected.
QueueReply(s, reply) ==
  IF Len(s.replies) >= REPLY_HARD THEN [s EXCEPT !.overflowed = TRUE]
  ELSE [s EXCEPT !.replies = Append(@, reply)]

QueueCopy(s, seq) == IF seq > s.copy THEN [s EXCEPT !.copy = seq] ELSE s
-----------------------------------------------------------------------------
(* The channel of one *)

Accepts(c) == conn[c].writer # "ended" /\ conn[c].chan = <<>>
Full(c) == conn[c].writer # "ended" /\ conn[c].chan # <<>>
WriterGone(c) == conn[c].writer = "ended"

\* Bye if there is room, then the socket is shut; the client leaves either way.
DetachClients(cn, gone) ==
  [c \in Clients |->
     IF c \notin gone THEN cn[c]
     ELSE [cn[c] EXCEPT !.chan = IF @ = <<>> /\ cn[c].writer # "ended" THEN <<Bye>> ELSE @,
                        !.link = "shut", !.out = FALSE]]
-----------------------------------------------------------------------------
Init ==
  /\ loop = [at |-> "receive", todo |-> <<>>, dead |-> {}, dirty |-> FALSE, kill |-> FALSE,
             late |-> FALSE, byes |-> 0, unread |-> {}, latest |-> 0, due |-> {}]
  /\ mux = [att |-> <<>>, srv |-> [c \in Clients |-> Detached], viewport |-> Tall,
            armed |-> FALSE, seenAlt |-> FALSE, relayed |-> 0]
  /\ conn = [c \in Clients |-> [inbox |-> <<>>, reader |-> "none", out |-> FALSE, chan |-> <<>>,
                                writer |-> "none", held |-> <<>>, wire |-> <<>>, link |-> "none"]]
  /\ peer = [c \in Clients |-> [state |-> "new", rows |-> Size[c], view |-> Blank(1), said |-> 0,
                                asked |-> {}, got |-> <<>>, pasted |-> 0]]
  /\ panes = [drawn |-> 0, alt |-> FALSE, unseen |-> FALSE, woken |-> FALSE,
              slot |-> [p \in Panes |-> 0], stamped |-> [p \in Panes |-> 0], ticket |-> 1]
  /\ handled = [c \in Clients |-> <<>>]
  /\ executed = {}
  /\ inputs = 0
-----------------------------------------------------------------------------
(* Clients and their connections *)

Reading(c) == peer[c].state \in {"attached", "resumed"}

PeerAttaches(c) ==
  /\ peer[c].state = "new" /\ loop.at # "exited"
  /\ peer' = [peer EXCEPT ![c].state = "attached"]
  /\ conn' = [conn EXCEPT ![c] = [@ EXCEPT !.inbox = <<[t |-> "attach"]>>,
                !.reader = "reading", !.writer = "idle", !.out = TRUE, !.link = "up"]]
  /\ UNCHANGED <<loop, mux, panes, handled, executed, inputs>>

PeerSays(c) ==
  /\ Reading(c) /\ conn[c].link = "up" /\ Input
  /\ \E kind \in Says[c], rows \in 1 .. Tall :
       LET resized == kind = "resize" IN
       /\ resized => rows # peer[c].rows
       /\ ~resized => rows = peer[c].rows
       /\ peer' = [peer EXCEPT ![c].said = @ + 1, ![c].rows = rows,
                     ![c].asked = IF kind \in {"command", "kill", "ping"} THEN @ \cup {peer[c].said + 1} ELSE @]
       /\ conn' = [conn EXCEPT ![c].inbox =
                     Append(@, [t |-> kind, n |-> IF resized THEN rows ELSE peer[c].said + 1])]
  /\ UNCHANGED <<loop, mux, panes, handled, executed>>

Received(p, msg) ==
  CASE msg.t = "frame" -> [p EXCEPT !.view = Applied(@, msg)]
    [] msg.t = "reply" -> [p EXCEPT !.got = Append(@, [id |-> msg.id, code |-> msg.code])]
    [] msg.t = "copy"  -> [p EXCEPT !.pasted = msg.seq]
    [] msg.t = "bye"   -> [p EXCEPT !.state = "gone"]

PeerReads(c) ==
  /\ Reading(c) /\ conn[c].wire # <<>>
  /\ peer' = [peer EXCEPT ![c] = Received(@, Head(conn[c].wire))]
  /\ conn' = [conn EXCEPT ![c].wire = Tail(@)]
  /\ UNCHANGED <<loop, mux, panes, handled, executed, inputs>>

PeerState(c, from, to) ==
  /\ peer[c].state \in from
  /\ peer' = [peer EXCEPT ![c].state = to]
  /\ UNCHANGED <<loop, mux, conn, panes, handled, executed>>

PeerSeesEof(c) ==
  /\ conn[c].wire = <<>> /\ conn[c].link = "shut"
  /\ PeerState(c, {"attached", "resumed"}, "gone")
  /\ UNCHANGED inputs

PeerDies(c) == c \in Dying /\ Input /\ PeerState(c, {"attached", "hung", "resumed"}, "gone")

PeerHangs(c) == c \in Hanging /\ Input /\ PeerState(c, {"attached"}, "hung")

PeerResumes(c) == PeerState(c, {"hung"}, "resumed") /\ UNCHANGED inputs

LinkBreaks(c) ==
  /\ c \in HalfDying /\ conn[c].link = "up" /\ Input
  /\ conn' = [conn EXCEPT ![c].link = "broken"]
  /\ UNCHANGED <<loop, mux, peer, panes, handled, executed>>

\* A connection that failed in the other direction only leaves the reader waiting.
ReaderEnds(c) ==
  /\ conn[c].reader = "reading"
  /\ conn[c].link = "shut" \/ (conn[c].link = "up" /\ peer[c].state = "gone")
  /\ conn' = [conn EXCEPT ![c].reader = "ended", ![c].inbox = Append(@, [t |-> "disconnect"])]
  /\ UNCHANGED <<loop, mux, peer, panes, handled, executed, inputs>>

Broken(c) == conn[c].link # "up" \/ peer[c].state = "gone"

Writable(c) == ~Broken(c) /\ Len(conn[c].wire) < ROOM

Written(c, line) ==
  conn' = [conn EXCEPT ![c].wire = @ \o line, ![c].held = <<>>,
             ![c].chan = IF conn[c].held = <<>> THEN <<>> ELSE @,
             ![c].writer = IF line = <<Bye>> THEN "ended" ELSE "idle"]

WriterSends(c) ==
  /\ conn[c].writer = "idle" /\ conn[c].chan # <<>> /\ Writable(c)
  /\ Written(c, conn[c].chan)
  /\ UNCHANGED <<loop, mux, peer, panes, handled, executed, inputs>>

WriterBlocks(c) ==
  /\ conn[c].writer = "idle" /\ conn[c].chan # <<>> /\ ~Writable(c)
  /\ conn' = [conn EXCEPT ![c].writer = "holding", ![c].held = conn[c].chan, ![c].chan = <<>>]
  /\ UNCHANGED <<loop, mux, peer, panes, handled, executed, inputs>>

WriterResumes(c) ==
  /\ conn[c].writer = "holding" /\ Writable(c)
  /\ Written(c, conn[c].held)
  /\ UNCHANGED <<loop, mux, peer, panes, handled, executed, inputs>>

WriterEnds(c) ==
  /\ \/ conn[c].writer = "holding" /\ Broken(c)
     \/ conn[c].writer = "idle" /\ conn[c].chan = <<>> /\ ~conn[c].out
  /\ conn' = [conn EXCEPT ![c].writer = "ended", ![c].held = <<>>, ![c].chan = <<>>]
  /\ UNCHANGED <<loop, mux, peer, panes, handled, executed, inputs>>
-----------------------------------------------------------------------------
(* The panes' threads *)

PaneDraws ==
  /\ Draws /\ Input
  /\ \E alt \in BOOLEAN :
       panes' = [panes EXCEPT !.drawn = 1 - @, !.alt = alt, !.unseen = TRUE]
  /\ UNCHANGED <<loop, mux, conn, peer, handled, executed>>

PaneWakes ==
  /\ panes.unseen
  /\ panes' = [panes EXCEPT !.unseen = FALSE, !.woken = TRUE]
  /\ UNCHANGED <<loop, mux, conn, peer, handled, executed, inputs>>

\* The ticket is taken with the pane's slot locked (SlotFree).
PaneStamps(p) ==
  /\ panes.stamped[p] = 0 /\ Input
  /\ panes' = [panes EXCEPT !.stamped[p] = panes.ticket, !.ticket = @ + 1]
  /\ UNCHANGED <<loop, mux, conn, peer, handled, executed>>

PaneStores(p) ==
  /\ panes.stamped[p] # 0
  /\ panes' = [panes EXCEPT !.slot[p] = panes.stamped[p], !.stamped[p] = 0]
  /\ UNCHANGED <<loop, mux, conn, peer, handled, executed, inputs>>

(* Mutant: the ticket is taken before the slot is locked.                  *)
SlotUnlocked(p) == TRUE

SlotFree(p) == panes.stamped[p] = 0
-----------------------------------------------------------------------------
(* The main loop: handle_incoming *)

Taking(c, kind) ==
  /\ loop.at = "receive" /\ conn[c].inbox # <<>> /\ Head(conn[c].inbox).t = kind
  /\ kind # "attach" => c \in Attached

Taken(c) == [conn EXCEPT ![c].inbox = Tail(@)]

Dirtied == loop' = [loop EXCEPT !.dirty = TRUE]

Attachment(rows) == [Detached EXCEPT !.last = Blank(rows), !.needsFull = TRUE, !.rows = rows]

HandleAttach(c) ==
  LET replaced == {Replaces[c]} \cap {o \in Attached : mux.srv[o].tagged}
      m == PruneDeadClients(mux, replaced)
  IN
  /\ Taking(c, "attach")
  /\ mux' = RecomputeViewport([m EXCEPT !.att = Append(@, c), !.srv[c] = Attachment(Size[c])])
  /\ conn' = DetachClients(Taken(c), replaced)
  /\ Dirtied
  /\ UNCHANGED <<peer, panes, handled, executed, inputs>>

\* What a client sent before it was detached, and the end of its connection.
HandleStale(c) ==
  /\ loop.at = "receive" /\ conn[c].inbox # <<>> /\ c \notin Attached
  /\ Head(conn[c].inbox).t # "attach"
  /\ conn' = Taken(c)
  /\ loop' = [loop EXCEPT !.dirty = @ \/ Head(conn[c].inbox).t = "disconnect"]
  /\ UNCHANGED <<mux, peer, panes, handled, executed, inputs>>

HandleEnv(c) ==
  /\ Taking(c, "env")
  /\ mux' = [mux EXCEPT !.srv[c].tagged = TRUE]
  /\ conn' = Taken(c)
  /\ UNCHANGED <<loop, peer, panes, handled, executed, inputs>>

HandleChord(c) ==
  /\ Taking(c, "chord")
  /\ mux' = [mux EXCEPT !.srv[c].armed = ~@]
  /\ conn' = Taken(c)
  /\ Dirtied
  /\ UNCHANGED <<peer, panes, handled, executed, inputs>>

HandleRedraw(c) ==
  /\ Taking(c, "redraw")
  /\ mux' = [mux EXCEPT !.srv[c] = Baseline(@, Len(@.last))]
  /\ conn' = Taken(c)
  /\ Dirtied
  /\ UNCHANGED <<peer, panes, handled, executed, inputs>>

HandleDrag(c) ==
  /\ Taking(c, "drag")
  /\ mux' = [mux EXCEPT !.srv[c] = QueueCopy(@, panes.ticket)]
  /\ panes' = [panes EXCEPT !.ticket = @ + 1]
  /\ conn' = Taken(c)
  /\ Dirtied
  /\ UNCHANGED <<peer, handled, executed, inputs>>

HandleResize(c) ==
  /\ Taking(c, "resize")
  /\ mux' = RecomputeViewport([mux EXCEPT !.srv[c].rows = Head(conn[c].inbox).n])
  /\ conn' = Taken(c)
  /\ Dirtied
  /\ UNCHANGED <<peer, panes, handled, executed, inputs>>

HandleDetach(c) ==
  /\ Taking(c, "detach")
  /\ mux' = Without(mux, {c})
  /\ conn' = DetachClients(Taken(c), {c})
  /\ Dirtied
  /\ UNCHANGED <<peer, panes, handled, executed, inputs>>

HandleDisconnect(c) ==
  /\ Taking(c, "disconnect")
  /\ mux' = Without(mux, {c})
  /\ conn' = [Taken(c) EXCEPT ![c].out = FALSE]
  /\ Dirtied
  /\ UNCHANGED <<peer, panes, handled, executed, inputs>>

Answered(c, id, code) ==
  /\ mux' = [mux EXCEPT !.srv[c] = QueueReply(@, [t |-> "reply", id |-> id, code |-> code])]
  /\ handled' = [handled EXCEPT ![c] = Append(@, [id |-> id, code |-> code])]
  /\ conn' = Taken(c)
  /\ UNCHANGED <<peer, panes, inputs>>

Busy(c) == Len(mux.srv[c].replies) >= REPLY_QUEUE

HandleCommand(c) ==
  LET id == Head(conn[c].inbox).n IN
  /\ Taking(c, "command")
  /\ IF Busy(c)
     THEN Answered(c, id, "busy") /\ UNCHANGED <<loop, executed>>
     ELSE /\ Answered(c, id, "ok")
          /\ executed' = executed \cup {<<c, id>>}
          /\ \E mutates \in BOOLEAN : loop' = [loop EXCEPT !.dirty = @ \/ mutates]

HandleKillServer(c) ==
  LET id == Head(conn[c].inbox).n IN
  /\ Taking(c, "kill")
  /\ IF Busy(c)
     THEN Answered(c, id, "busy") /\ UNCHANGED <<loop, executed>>
     ELSE /\ Answered(c, id, "ok")
          /\ executed' = executed \cup {<<c, id>>}
          /\ loop' = [loop EXCEPT !.kill = TRUE]

HandlePing(c) ==
  /\ Taking(c, "ping")
  /\ Answered(c, Head(conn[c].inbox).n, "pong")
  /\ UNCHANGED <<loop, executed>>

HandleIncoming(c) ==
  \/ HandleAttach(c) \/ HandleStale(c) \/ HandleEnv(c) \/ HandleChord(c) \/ HandleRedraw(c)
  \/ HandleDrag(c) \/ HandleResize(c) \/ HandleDetach(c) \/ HandleDisconnect(c)
  \/ HandleCommand(c) \/ HandleKillServer(c) \/ HandlePing(c)
-----------------------------------------------------------------------------
(* The main loop: one pass *)

Owed(m) ==
  Picked(m.att, {i \in DOMAIN m.att : LET s == m.srv[m.att[i]] IN s.replies # <<>> /\ ~s.overflowed})

Overflowed(m) == {c \in ToSet(m.att) : m.srv[c].overflowed}

\* Nothing was heard of them for HEARTBEAT_EXPIRY.
Silent(m) ==
  {c \in ToSet(m.att) \cap Heartbeats : peer[c].state = "hung" /\ conn[c].inbox = <<>>}

\* From each phase to the next that has something to do.
ToFrames(l) == [l EXCEPT !.at = IF l.dirty THEN "frames" ELSE "receive"]

ToCopies(l, m) ==
  IF \A c \in ToSet(m.att) : m.srv[c].copy = 0 THEN ToFrames(l) ELSE [l EXCEPT !.at = "copies"]

ToReplies(l, m) ==
  IF Owed(m) = <<>> /\ Overflowed(m) = {} THEN ToCopies(l, m)
  ELSE [l EXCEPT !.at = "replies", !.todo = Owed(m), !.dead = Overflowed(m)]

ToExpire(l, m) == IF Silent(m) = {} THEN ToReplies(l, m) ELSE [l EXCEPT !.at = "expire"]

LastShellExits ==
  /\ loop.at = "receive" /\ ~loop.kill /\ ShellsExit
  /\ loop' = [loop EXCEPT !.at = "exit"]
  /\ UNCHANGED <<mux, conn, peer, panes, handled, executed, inputs>>

Settle ==
  LET swapped == panes.woken /\ panes.alt # mux.seenAlt
      m == IF ~swapped THEN mux
           ELSE Each([mux EXCEPT !.seenAlt = panes.alt], LAMBDA s : Baseline(s, Len(s.last)))
      l == [loop EXCEPT !.unread = Panes,
              !.dirty = \/ @ \/ panes.woken \/ loop.due \cap Attached # {}
                        \/ \E c \in Attached : m.srv[c].needsFull \/ m.srv[c].pending]
  IN
  /\ loop.at = "receive" /\ ~loop.kill
  /\ mux' = m
  /\ panes' = [panes EXCEPT !.woken = FALSE]
  /\ loop' = IF Panes = {} THEN ToExpire(l, m) ELSE [l EXCEPT !.at = "clipboard"]
  /\ UNCHANGED <<conn, peer, handled, executed, inputs>>

TakeClipboard(p) ==
  /\ loop.at = "clipboard" /\ p \in loop.unread /\ SlotFree(p)
  /\ loop' = [loop EXCEPT !.unread = @ \ {p}, !.latest = Max({@, panes.slot[p]})]
  /\ panes' = [panes EXCEPT !.slot[p] = 0]
  /\ UNCHANGED <<mux, conn, peer, handled, executed, inputs>>

\* What a pane stored only after a later copy had been relayed is dropped.
RelayClipboard ==
  LET m == IF loop.latest <= mux.relayed THEN mux
           ELSE Each([mux EXCEPT !.relayed = loop.latest], LAMBDA s : QueueCopy(s, loop.latest))
  IN
  /\ loop.at = "clipboard" /\ loop.unread = {}
  /\ mux' = m
  /\ loop' = ToExpire([loop EXCEPT !.latest = 0], m)
  /\ UNCHANGED <<conn, peer, panes, handled, executed, inputs>>

ExpireSilentClients ==
  /\ loop.at = "expire"
  /\ \E silent \in SUBSET Silent(mux) :
       LET m == PruneDeadClients(mux, silent) IN
       /\ mux' = m
       /\ conn' = DetachClients(conn, silent)
       /\ loop' = ToReplies([loop EXCEPT !.dirty = @ \/ silent # {}], m)
  /\ UNCHANGED <<peer, panes, handled, executed, inputs>>

(* Mutant: a reply that finds no room goes to the end of the queue.        *)
PutLast(s, reply) == [s EXCEPT !.replies = Append(@, reply)]

PutBack(s, reply) == [s EXCEPT !.replies = <<reply>> \o @]

\* One reply at a time; the last one of a client whose writer is gone is forgotten.
SendReply ==
  LET c == Head(loop.todo)
      s == mux.srv[c]
      popped == [mux EXCEPT !.srv[c].replies = Tail(@)]
      rest == [loop EXCEPT !.todo = Tail(@)]
  IN
  /\ loop.at = "replies" /\ loop.todo # <<>>
  /\ \/ /\ s.replies # <<>> /\ Accepts(c)
        /\ mux' = popped
        /\ conn' = [conn EXCEPT ![c].chan = <<Head(s.replies)>>]
        /\ UNCHANGED loop
     \/ s.replies = <<>> /\ loop' = rest /\ UNCHANGED <<mux, conn>>
     \/ /\ s.replies # <<>> /\ Full(c)
        /\ mux' = [mux EXCEPT !.srv[c] = PutBack(popped.srv[c], Head(s.replies))]
        /\ loop' = rest
        /\ UNCHANGED conn
     \/ /\ s.replies # <<>> /\ WriterGone(c)
        /\ mux' = popped
        /\ loop' = [rest EXCEPT !.dead = @ \cup {c}]
        /\ UNCHANGED conn
  /\ UNCHANGED <<peer, panes, handled, executed, inputs>>

EndReplies ==
  LET m == PruneDeadClients(mux, loop.dead)
      l == [loop EXCEPT !.dead = {}]
  IN
  /\ loop.at = "replies" /\ loop.todo = <<>>
  /\ mux' = m
  /\ conn' = DetachClients(conn, loop.dead)
  /\ loop' = IF loop.kill THEN [l EXCEPT !.at = "flush"] ELSE ToCopies(l, m)
  /\ UNCHANGED <<peer, panes, handled, executed, inputs>>

SendCopies ==
  LET copying == {c \in Attached : mux.srv[c].copy # 0}
      dead == {c \in copying : WriterGone(c)}
      sent == {c \in copying : Accepts(c)}
      m == PruneDeadClients([mux EXCEPT !.srv = [c \in Clients |->
              IF c \in sent THEN [@[c] EXCEPT !.copy = 0] ELSE @[c]]], dead)
  IN
  /\ loop.at = "copies"
  /\ mux' = m
  /\ conn' = DetachClients([c \in Clients |->
                IF c \in sent THEN [conn[c] EXCEPT !.chan = <<[t |-> "copy", seq |-> mux.srv[c].copy]>>]
                ELSE conn[c]], dead)
  /\ loop' = ToFrames(loop)
  /\ UNCHANGED <<peer, panes, handled, executed, inputs>>

\* FRAME_INTERVAL has not passed.
SkipFrame ==
  /\ loop.at = "frames"
  /\ loop' = [loop EXCEPT !.at = "receive"]
  /\ UNCHANGED <<mux, conn, peer, panes, handled, executed, inputs>>

Bit(b) == IF b THEN 1 ELSE 0

Render(m) == [i \in 1 .. m.viewport |-> IF i = 1 THEN Bit(AnyArmed(m)) ELSE panes.drawn]

\* The clock of the self-heal.
ResyncDue(c) ==
  /\ SelfHeal /\ c \in Attached \ loop.due /\ Input
  /\ loop' = [loop EXCEPT !.due = @ \cup {c}]
  /\ UNCHANGED <<mux, conn, peer, panes, handled, executed>>

Resyncs(c) == c \in loop.due /\ ~mux.srv[c].needsFull /\ ~mux.srv[c].pending

\* The baseline a frame is diffed against: of the screen's size, the row whose turn it is unknown.
Diffed(c, screen, row) ==
  LET s == mux.srv[c] IN
  IF Len(s.last) # Len(screen) THEN Baseline(s, Len(screen))
  ELSE IF Resyncs(c) THEN [s EXCEPT !.last[row] = Unknown]
  ELSE s

Idle(s, screen) == Changed(s.last, screen) = {} /\ ~s.needsFull

(* Mutant: a client that missed a frame is owed a full one, which then     *)
(* carries only a delta.                                                   *)
MissedAll(s) == [s EXCEPT !.pending = TRUE, !.needsFull = TRUE]

Missed(s) == [s EXCEPT !.pending = TRUE]

Pushed(c, s, screen) ==
  IF Idle(s, screen) THEN [s EXCEPT !.pending = FALSE]
  ELSE IF Accepts(c) THEN [s EXCEPT !.last = screen, !.needsFull = FALSE, !.pending = FALSE]
  ELSE IF Full(c) THEN Missed(s)
  ELSE s

PushFrames ==
  LET screen == Render(mux) IN
  /\ loop.at = "frames"
  /\ \E row \in IF \E c \in Attached : Resyncs(c) THEN DOMAIN screen ELSE {1} :
       LET base(c) == Diffed(c, screen, row)
           speaking == {c \in Attached : ~Idle(base(c), screen)}
           dead == {c \in speaking : WriterGone(c)}
           sent == {c \in speaking : Accepts(c)}
           m == [mux EXCEPT
                  !.armed = IF mux.att = <<>> THEN @ ELSE AnyArmed(mux),
                  !.srv = [c \in Clients |-> IF c \in Attached THEN Pushed(c, base(c), screen) ELSE @[c]]]
       IN
       /\ mux' = PruneDeadClients(m, dead)
       /\ conn' = DetachClients([c \in Clients |->
                     IF c \in sent THEN [conn[c] EXCEPT !.chan = <<Frame(base(c), screen)>>]
                     ELSE conn[c]], dead)
       /\ loop' = [loop EXCEPT !.at = "receive", !.dirty = FALSE,
                     !.due = @ \ {c \in Attached : Resyncs(c)}]
  /\ UNCHANGED <<peer, panes, handled, executed, inputs>>
-----------------------------------------------------------------------------
(* The main loop: shutdown *)

DeadlinePasses ==
  /\ loop.kill /\ loop.at \in {"flush", "replies", "byes"} /\ ~loop.late
  /\ loop' = [loop EXCEPT !.late = TRUE]
  /\ UNCHANGED <<mux, conn, peer, panes, handled, executed, inputs>>

FlushBeforeShutdown ==
  LET waiting == \E c \in Attached : mux.srv[c].replies # <<>> IN
  /\ loop.kill /\ loop.at \in {"receive", "flush"}
  /\ loop' = IF waiting /\ ~loop.late THEN ToReplies(loop, mux)
             ELSE [loop EXCEPT !.at = "byes", !.todo = mux.att]
  /\ UNCHANGED <<mux, conn, peer, panes, handled, executed, inputs>>

(* Mutant: one farewell, which finds room before the replies are written.  *)
JustOne == 1

\* The second finds room only once the first was taken, after all that was queued before it.
Farewells == 2

SendBye ==
  LET c == Head(loop.todo)
      next == [loop EXCEPT !.todo = Tail(@), !.byes = 0]
  IN
  /\ loop.at = "byes" /\ loop.todo # <<>>
  /\ \/ /\ ~loop.late /\ Accepts(c)
        /\ conn' = [conn EXCEPT ![c].chan = <<Bye>>]
        /\ loop' = IF loop.byes + 1 = Farewells THEN next ELSE [loop EXCEPT !.byes = @ + 1]
     \/ (loop.late \/ WriterGone(c)) /\ loop' = next /\ UNCHANGED conn
  /\ UNCHANGED <<mux, peer, panes, handled, executed, inputs>>

EndByes ==
  /\ loop.at = "byes" /\ loop.todo = <<>>
  /\ loop' = [loop EXCEPT !.at = "exit"]
  /\ UNCHANGED <<mux, conn, peer, panes, handled, executed, inputs>>

\* Every socket is shut, and with the process every thread of the server is gone.
Exit ==
  /\ loop.at = "exit"
  /\ loop' = [loop EXCEPT !.at = "exited"]
  /\ mux' = [mux EXCEPT !.att = <<>>, !.srv = [c \in Clients |-> Detached]]
  /\ conn' = [c \in Clients |->
                IF conn[c].link = "none" THEN conn[c]
                ELSE [conn[c] EXCEPT !.chan = <<>>, !.held = <<>>, !.writer = "ended", !.out = FALSE,
                        !.inbox = <<>>, !.reader = "ended", !.link = "shut"]]
  /\ UNCHANGED <<peer, panes, handled, executed, inputs>>
-----------------------------------------------------------------------------
Pass ==
  \/ Settle \/ (\E p \in Panes : TakeClipboard(p)) \/ RelayClipboard
  \/ ExpireSilentClients \/ SendReply \/ EndReplies \/ SendCopies \/ SkipFrame \/ PushFrames
  \/ FlushBeforeShutdown \/ SendBye \/ EndByes \/ Exit

Writer(c) == WriterSends(c) \/ WriterBlocks(c) \/ WriterResumes(c) \/ WriterEnds(c)

Next ==
  \/ Pass \/ LastShellExits \/ DeadlinePasses
  \/ PaneDraws \/ PaneWakes
  \/ \E p \in Panes : PaneStamps(p) \/ PaneStores(p)
  \/ \E c \in Clients :
       \/ HandleIncoming(c) \/ Writer(c) \/ ReaderEnds(c) \/ ResyncDue(c)
       \/ PeerAttaches(c) \/ PeerSays(c) \/ PeerReads(c) \/ PeerSeesEof(c)
       \/ PeerDies(c) \/ PeerHangs(c) \/ PeerResumes(c) \/ LinkBreaks(c)

Spec == Init /\ [][Next]_vars

(* The operating system schedules every thread; the receive queue is first in, first out, and
   each pass takes at least one message of it; FRAME_INTERVAL passes. A client that is not
   suspended reads. *)
Fairness ==
  /\ WF_vars(Pass) /\ SF_vars(PushFrames) /\ WF_vars(PaneWakes)
  /\ \A p \in Panes : WF_vars(PaneStores(p))
  /\ \A c \in Clients :
       /\ SF_vars(HandleIncoming(c)) /\ WF_vars(Writer(c)) /\ WF_vars(ReaderEnds(c))
       /\ WF_vars(ResyncDue(c)) /\ WF_vars(PeerReads(c)) /\ WF_vars(PeerSeesEof(c))

FairSpec == Spec /\ Fairness
-----------------------------------------------------------------------------
Connected(c) == c \in Attached /\ conn[c].writer # "ended" /\ conn[c].link = "up" /\ peer[c].state # "gone"

InFlight(c) == conn[c].wire \o conn[c].held \o conn[c].chan

(* A client once it has received some messages, one after the other.      *)
After(p, msgs) ==
  LET after[n \in 0 .. Len(msgs)] == IF n = 0 THEN p ELSE Received(after[n - 1], msgs[n])
  IN after[Len(msgs)]

(* What the server believes a client shows (`last`) is what the client will show once it has
   applied every frame on its way, whichever frames were dropped for want of room (push_frames:
   "the next diff is the delta that catches it up"). *)
BaselineHeld ==
  \A c \in Clients : Connected(c) /\ ~mux.srv[c].needsFull =>
    LET last == mux.srv[c].last
        view == After(peer[c], InFlight(c)).view
    IN Len(view) = Len(last) /\ \A i \in DOMAIN last : last[i] \in {Unknown, view[i]}

Answers(msgs) == [i \in DOMAIN msgs |-> [id |-> msgs[i].id, code |-> msgs[i].code]]

Reaching(c) == After(peer[c], conn[c].wire).got

InOrder(c) ==
  /\ IsPrefix(Reaching(c), handled[c])
  /\ Connected(c) /\ ~mux.srv[c].overflowed =>
       After(peer[c], InFlight(c)).got \o Answers(mux.srv[c].replies) = handled[c]

BusyNeverRan(c) ==
  \A i \in DOMAIN handled[c] : handled[c][i].code = "busy" => <<c, handled[c][i].id>> \notin executed

Flushed(c) == Broken(c) \/ Reaching(c) = handled[c]

(* Commands are answered in the order they came, each once: whatever becomes of a client, what
   reaches it is the first answers, and to one that is still connected every answer is on its way.
   What was answered with "busy" never ran (handle_command: "so a client never has to wonder whether
   a mutation it got no answer for happened"). When kill-server ends the server in time, every reply
   is in the socket or was read, that of kill-server itself included (flush_before_shutdown). *)
RepliesDelivered ==
  /\ \A c \in Clients : InOrder(c) /\ BusyNeverRan(c)
  /\ loop.at = "exit" /\ loop.kill /\ ~loop.late => \A c \in Attached : Flushed(c)

(* The clipboard of a client never goes back to an older copy, whichever of two panes and a drag
   made it and whatever waits for room (queue_copy, drain_pane_clipboard, next_clipboard_seq). *)
CopiesInOrder ==
  \A c \in Clients :
    LET msgs == InFlight(c)
        copies == {i \in DOMAIN msgs : msgs[i].t = "copy"}
        queued == mux.srv[c].copy
    IN /\ \A i, j \in copies : i < j => msgs[i].seq < msgs[j].seq
       /\ \A i \in copies : peer[c].pasted < msgs[i].seq /\ (queued # 0 => msgs[i].seq < queued)
       /\ queued # 0 => peer[c].pasted < queued

Newest == [i \in 1 .. Min({mux.srv[c].rows : c \in Attached}) |->
             IF i = 1 THEN Bit(AnyArmed(mux)) ELSE panes.drawn]

(* A loop that sees nothing to do leaves no client behind: each one's baseline is the newest screen,
   of the size of the smallest attached client, or the client is marked for another frame. So a
   client that left, died or was replaced pins neither the size nor the status bar
   (recompute_viewport, prune_dead_clients, drain_pane_dirty). *)
NobodyLeftBehind ==
  ~loop.dirty /\ ~panes.unseen /\ ~panes.woken =>
    \A c \in Attached :
      LET s == mux.srv[c] IN
      \/ s.needsFull \/ s.pending
      \/ /\ Len(s.last) = Len(Newest)
         /\ \A i \in DOMAIN Newest : s.last[i] \in {Unknown, Newest[i]}

(* Whoever sends a command and goes on reading gets its answer or sees the connection end, however
   many are unanswered and whenever the server is killed or its last shell exits (queue_reply:
   "closing beats leaving requests hanging"). A client sends finitely many, so again and again
   there is a moment at which none is left unanswered. *)
CommandsEnd ==
  \A c \in Clients :
    []<>(\/ peer[c].state \in {"gone", "hung"} \/ conn[c].link = "broken"
         \/ peer[c].asked \subseteq {peer[c].got[i].id : i \in DOMAIN peer[c].got})
=============================================================================
