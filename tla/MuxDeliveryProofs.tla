--------------------------- MODULE MuxDeliveryProofs ---------------------------
(* Proofs about what reaches a client of the comux server: the frames its     *)
(* view is made of, and the replies to its commands up to the end of the      *)
(* server.                                                                    *)
EXTENDS MuxServerProofs

--------------------------------------------------------------------------------
(* Whom the loop still has to serve                                           *)

(* The clients the loop serves one after the other are attached, and none of  *)
(* those that are sent replies lost one.                                      *)
PlaceInv ==
  /\ loop.at \in {"replies", "byes"} => ToSet(loop.todo) \subseteq Attached
  /\ loop.at = "replies" =>
       loop.dead \subseteq Attached /\ \A c \in ToSet(loop.todo) : ~mux.srv[c].overflowed
  /\ loop.at \in {"flush", "byes"} => loop.kill
  /\ loop.byes \in {0, 1}
  /\ loop.byes = 1 => loop.at = "byes" /\ loop.todo # <<>>
  /\ loop.late => loop.kill

LEMMA HeadAndTail ==
  ASSUME NEW S, NEW s \in Seq(S), s # <<>>
  PROVE  Head(s) \in ToSet(s) /\ ToSet(Tail(s)) \subseteq ToSet(s) /\ ToSet(s) \subseteq {Head(s)} \cup ToSet(Tail(s))
<1>1. Len(s) \in Nat \ {0} /\ DOMAIN s = 1 .. Len(s) /\ Head(s) = s[1]
  BY EmptySeq
<1>2. /\ Tail(s) \in Seq(S) /\ Len(Tail(s)) = Len(s) - 1
      /\ \A i \in 1 .. Len(Tail(s)) : Tail(s)[i] = s[i + 1]
  BY HeadTailProperties
<1>3. DOMAIN Tail(s) = 1 .. Len(s) - 1
  BY <1>2
<1>4. ASSUME NEW i \in 1 .. Len(s)
      PROVE  i = 1 \/ (i - 1 \in 1 .. Len(s) - 1 /\ s[i] = Tail(s)[i - 1])
  <2>1. CASE i # 1
    <3>1. i - 1 \in 1 .. Len(Tail(s)) /\ (i - 1) + 1 = i
      BY <1>1, <1>2, <2>1
    <3> QED
      BY <1>2, <3>1
  <2> QED
    BY <2>1
<1>5. ASSUME NEW i \in 1 .. Len(s) - 1
      PROVE  i + 1 \in 1 .. Len(s) /\ Tail(s)[i] = s[i + 1]
  BY <1>1, <1>2
<1>6. 1 \in 1 .. Len(s)
  BY <1>1
<1>7. ToSet(Tail(s)) = {Tail(s)[i] : i \in 1 .. Len(s) - 1} /\ ToSet(s) = {s[i] : i \in 1 .. Len(s)}
  BY <1>1, <1>3 DEF ToSet
<1>8. Head(s) \in ToSet(s)
  BY <1>1, <1>6, <1>7
<1>9. ToSet(Tail(s)) \subseteq ToSet(s)
  BY <1>5, <1>7
<1>10. ToSet(s) \subseteq {Head(s)} \cup ToSet(Tail(s))
  <2> SUFFICES ASSUME NEW x \in ToSet(s), x # Head(s)
               PROVE  x \in ToSet(Tail(s))
    OBVIOUS
  <2>1. PICK i \in 1 .. Len(s) : x = s[i]
    BY <1>7
  <2>2. i # 1
    BY <1>1, <2>1
  <2>3. i - 1 \in 1 .. Len(s) - 1 /\ s[i] = Tail(s)[i - 1]
    BY <1>4, <2>2
  <2> QED
    BY <1>7, <2>1, <2>3
<1> QED
  BY <1>8, <1>9, <1>10

(* Where the loop goes on, when it is not for the farewells.                  *)
Forward(l, m, n) ==
  /\ n \in Loops /\ n = [l EXCEPT !.at = n.at, !.todo = n.todo, !.dead = n.dead]
  /\ n.at \in {"expire", "replies", "copies", "frames", "receive"}
  /\ n.at = "replies" => n.todo = Owed(m) /\ n.dead = Overflowed(m)

LEMMA ForwardFrom ==
  ASSUME NEW l \in Loops, NEW m \in Muxes
  PROVE  /\ Forward(l, m, ToExpire(l, m)) /\ Forward(l, m, ToReplies(l, m))
         /\ Forward(l, m, ToCopies(l, m)) /\ Forward(l, m, ToFrames(l))
<1>1. Forward(l, m, ToReplies(l, m))
  <2> DEFINE n == ToReplies(l, m)
  <2>1. /\ n \in Loops /\ n = [l EXCEPT !.at = n.at, !.todo = n.todo, !.dead = n.dead]
        /\ \/ n.at = "replies" /\ n.todo = Owed(m) /\ n.dead = Overflowed(m)
           \/ n.at \in {"copies", "frames", "receive"}
    BY RepliesNext
  <2> HIDE DEF n
  <2>2. Forward(l, m, n)
    BY <2>1 DEF Forward
  <2> QED
    BY <2>2 DEF n
<1>2. Forward(l, m, ToExpire(l, m))
  <2>1. CASE ToExpire(l, m) = [l EXCEPT !.at = "expire"]
    BY <2>1 DEF Forward, Loops, Phases
  <2> QED
    BY <1>1, <2>1 DEF ToExpire
<1>3. Forward(l, m, ToCopies(l, m))
  <2> DEFINE n == ToCopies(l, m)
  <2>1. n \in Loops /\ n = [l EXCEPT !.at = n.at] /\ n.at \in {"copies", "frames", "receive"}
    BY CopiesNext
  <2> HIDE DEF n
  <2>2. Forward(l, m, n)
    BY <2>1 DEF Forward, Loops
  <2> QED
    BY <2>2 DEF n
<1>4. Forward(l, m, ToFrames(l))
  <2> DEFINE n == ToFrames(l)
  <2>1. n \in Loops /\ n = [l EXCEPT !.at = n.at] /\ n.at \in {"frames", "receive"}
    BY FramesNext
  <2> HIDE DEF n
  <2>2. Forward(l, m, n)
    BY <2>1 DEF Forward, Loops
  <2> QED
    BY <2>2 DEF n
<1> QED
  BY <1>1, <1>2, <1>3, <1>4

LEMMA ForwardPlaces ==
  ASSUME mux' \in Muxes, NEW l, l.byes = 0, l.late => l.kill, l \in Loops, Forward(l, mux', loop')
  PROVE  PlaceInv'
<1>1. loop'.byes = 0 /\ (loop'.late => loop'.kill) /\ loop'.at \notin {"byes", "flush"}
  BY DEF Forward, Loops
<1>2. CASE loop'.at # "replies"
  BY <1>1, <1>2 DEF PlaceInv
<1>3. CASE loop'.at = "replies"
  <2>1. loop'.todo = Owed(mux') /\ loop'.dead = Overflowed(mux')
    BY <1>3 DEF Forward
  <2>2. ToSet(loop'.todo) = {c \in ToSet(mux'.att) : mux'.srv[c].replies # <<>> /\ ~mux'.srv[c].overflowed}
    BY <2>1, OwedAre
  <2>3. loop'.dead \subseteq Attached'
    BY <2>1 DEF Overflowed, Attached
  <2> QED
    BY <1>1, <1>3, <2>2, <2>3 DEF PlaceInv, Attached
<1> QED
  BY <1>2, <1>3

LEMMA PlaceInit == Init => PlaceInv
  BY DEF Init, PlaceInv

LEMMA PlaceStep == Types /\ Types' /\ PlaceInv /\ [Next]_vars => PlaceInv'
<1> SUFFICES ASSUME Types, Types', PlaceInv, [Next]_vars PROVE PlaceInv'
  OBVIOUS
<1>1. loop \in Loops /\ mux \in Muxes /\ loop' \in Loops /\ mux' \in Muxes
  BY DEF Types
<1>2. ASSUME mux' = mux, loop'.at = loop.at, loop'.todo = loop.todo, loop'.dead = loop.dead,
             loop'.kill = loop.kill, loop'.byes = loop.byes, loop'.late = loop.late
      PROVE  PlaceInv'
  BY <1>2 DEF PlaceInv, Attached
<1>3. CASE UNCHANGED vars
  BY <1>2, <1>3 DEF vars
<1>4. CASE PaneDraws \/ PaneWakes \/ \E p \in Panes : PaneStamps(p) \/ PaneStores(p)
  BY <1>2, <1>4, ZenonT(40) DEF PaneDraws, PaneWakes, PaneStamps, PaneStores
<1>5. ASSUME NEW c \in Clients,
             \/ Writer(c) \/ ReaderEnds(c) \/ PeerAttaches(c) \/ PeerSays(c) \/ PeerReads(c)
             \/ PeerSeesEof(c) \/ PeerDies(c) \/ PeerHangs(c) \/ PeerResumes(c) \/ LinkBreaks(c)
      PROVE  PlaceInv'
  BY <1>2, <1>5 DEF Writer, WriterSends, WriterBlocks, WriterResumes, WriterEnds, ReaderEnds, PeerAttaches,
     PeerSays, PeerReads, PeerSeesEof, PeerDies, PeerHangs, PeerResumes, PeerState, LinkBreaks
<1>6. ASSUME NEW c \in Clients, ResyncDue(c)
      PROVE  PlaceInv'
  <2>1. loop' = [loop EXCEPT !.due = loop.due \cup {c}] /\ mux' = mux
    BY <1>6 DEF ResyncDue
  <2> QED
    BY <1>1, <1>2, <2>1 DEF Loops
<1>7. ASSUME NEW c \in Clients, HandleIncoming(c)
      PROVE  PlaceInv'
  <2>1. loop.at = "receive" /\ loop'.at = "receive"
    BY <1>7, QueuesOfHandlers
  <2>2. loop'.byes = loop.byes /\ loop'.late = loop.late /\ (loop.kill => loop'.kill)
    BY <1>1, <1>7 DEF HandleIncoming, HandleAttach, HandleStale, HandleEnv, HandleChord, HandleRedraw, HandleDrag,
       HandleResize, HandleDetach, HandleDisconnect, HandleCommand, HandleKillServer, HandlePing, Dirtied, Loops
  <2> QED
    BY <2>1, <2>2 DEF PlaceInv
<1>8. CASE Settle
  <2>1. loop.at = "receive"
    BY <1>8 DEF Settle
  <2>2. PICK dirty \in BOOLEAN :
             loop' = IF Panes = {} THEN ToExpire([loop EXCEPT !.unread = Panes, !.dirty = dirty], mux')
                     ELSE [[loop EXCEPT !.unread = Panes, !.dirty = dirty] EXCEPT !.at = "clipboard"]
    <3> DEFINE dirty(m) == \/ loop.dirty \/ panes.woken \/ loop.due \cap Attached # {}
                           \/ \E c \in Attached : m.srv[c].needsFull \/ m.srv[c].pending
    <3>1. dirty(mux') \in BOOLEAN
      BY <1>1 DEF Loops, Types, Threads
    <3>2. loop' = IF Panes = {} THEN ToExpire([loop EXCEPT !.unread = Panes, !.dirty = dirty(mux')], mux')
                  ELSE [[loop EXCEPT !.unread = Panes, !.dirty = dirty(mux')] EXCEPT !.at = "clipboard"]
      BY <1>8 DEF Settle
    <3> HIDE DEF dirty
    <3> QED
      BY <3>1, <3>2
  <2> DEFINE l == [loop EXCEPT !.unread = Panes, !.dirty = dirty]
  <2>3. l \in Loops /\ l.byes = loop.byes /\ l.late = loop.late /\ l.kill = loop.kill
    BY <1>1 DEF Loops
  <2>4. l.byes = 0 /\ (l.late => l.kill)
    BY <2>1, <2>3 DEF PlaceInv
  <2> HIDE DEF l
  <2>5. CASE loop' = ToExpire(l, mux')
    BY <1>1, <2>3, <2>4, <2>5, ForwardFrom, ForwardPlaces
  <2>6. CASE loop' = [l EXCEPT !.at = "clipboard"]
    <3>1. loop'.at = "clipboard" /\ loop'.byes = 0 /\ (loop'.late => loop'.kill)
      BY <2>3, <2>4, <2>6 DEF Loops
    <3> QED
      BY <3>1 DEF PlaceInv
  <2> QED
    BY <2>2, <2>5, <2>6 DEF l
<1>9. ASSUME NEW p \in Panes, TakeClipboard(p)
      PROVE  PlaceInv'
  <2>1. loop.at = "clipboard" /\ loop'.at = "clipboard" /\ loop'.byes = loop.byes /\ loop'.late = loop.late
        /\ loop'.kill = loop.kill
    BY <1>1, <1>9 DEF TakeClipboard, Loops
  <2> QED
    BY <2>1 DEF PlaceInv
<1>10. CASE RelayClipboard
  <2>1. loop' = ToExpire([loop EXCEPT !.latest = 0], mux') /\ loop.at = "clipboard"
    BY <1>10 DEF RelayClipboard
  <2>2. /\ [loop EXCEPT !.latest = 0] \in Loops /\ [loop EXCEPT !.latest = 0].byes = 0
        /\ [loop EXCEPT !.latest = 0].late => [loop EXCEPT !.latest = 0].kill
    BY <1>1, <2>1 DEF Loops, PlaceInv
  <2> QED
    BY <1>1, <2>1, <2>2, ForwardFrom, ForwardPlaces
<1>11. CASE ExpireSilentClients
  <2>1. loop.at = "expire" /\ \E silent : loop' = ToReplies([loop EXCEPT !.dirty = loop.dirty \/ silent # {}], mux')
    BY <1>11 DEF ExpireSilentClients
  <2>2. PICK dirty \in BOOLEAN : loop' = ToReplies([loop EXCEPT !.dirty = dirty], mux')
    BY <1>1, <2>1 DEF Loops
  <2>3. /\ [loop EXCEPT !.dirty = dirty] \in Loops /\ [loop EXCEPT !.dirty = dirty].byes = 0
        /\ [loop EXCEPT !.dirty = dirty].late => [loop EXCEPT !.dirty = dirty].kill
    BY <1>1, <2>1 DEF Loops, PlaceInv
  <2> QED
    BY <1>1, <2>2, <2>3, ForwardFrom, ForwardPlaces
<1>12. CASE SendReply
  <2> DEFINE d == Head(loop.todo)
             s == mux.srv[d]
             one == [s EXCEPT !.replies = Tail(s.replies)]
  <2>1. /\ loop.at = "replies" /\ loop.todo # <<>> /\ d \in Clients
        /\ mux' = mux \/ mux' = [mux EXCEPT !.srv = [mux.srv EXCEPT ![d] = one]]
        /\ \/ loop' = loop
           \/ loop' = [loop EXCEPT !.todo = Tail(loop.todo)]
           \/ loop' = [loop EXCEPT !.todo = Tail(loop.todo), !.dead = loop.dead \cup {d}]
    BY <1>12, ReplyIs
  <2>2. loop.todo \in Seq(Clients)
    BY <1>1 DEF Loops
  <2>3. d \in ToSet(loop.todo) /\ ToSet(Tail(loop.todo)) \subseteq ToSet(loop.todo)
    BY <2>1, <2>2, HeadAndTail
  <2> HIDE DEF d
  <2>4. s \in Srv /\ one.overflowed = s.overflowed
    BY <1>1, <2>1 DEF Muxes, Srv
  <2> HIDE DEF one
  <2>5. mux'.att = mux.att /\ \A c \in Clients : mux'.srv[c].overflowed = mux.srv[c].overflowed
    BY <1>1, <2>1, <2>4 DEF Muxes
  <2>6. loop'.at = "replies" /\ loop'.kill = loop.kill /\ loop'.byes = loop.byes /\ loop'.late = loop.late
        /\ ToSet(loop'.todo) \subseteq ToSet(loop.todo) /\ loop'.dead \subseteq loop.dead \cup {d}
    BY <1>1, <2>1, <2>3 DEF Loops
  <2>7. ToSet(loop.todo) \subseteq Attached /\ loop.dead \subseteq Attached /\ Attached \subseteq Clients
    BY <1>1, <2>1, AttachedType DEF PlaceInv, Attached
  <2>8. Attached' = Attached
    BY <2>5 DEF Attached
  <2>9. \A c \in ToSet(loop'.todo) : ~mux'.srv[c].overflowed
    BY <2>1, <2>5, <2>6, <2>7 DEF PlaceInv
  <2>10. loop.byes = 0 /\ (loop.late => loop.kill)
    BY <2>1 DEF PlaceInv
  <2> QED
    BY <2>3, <2>6, <2>7, <2>8, <2>9, <2>10 DEF PlaceInv
<1>13. CASE EndReplies
  <2> DEFINE l == [loop EXCEPT !.dead = {}]
  <2>1. loop.at = "replies" /\ loop' = IF loop.kill THEN [l EXCEPT !.at = "flush"] ELSE ToCopies(l, mux')
    BY <1>13 DEF EndReplies
  <2>2. l \in Loops /\ l.byes = 0 /\ (l.late => l.kill) /\ l.kill = loop.kill
    BY <1>1, <2>1 DEF Loops, PlaceInv
  <2> HIDE DEF l
  <2>3. CASE ~loop.kill
    BY <1>1, <2>1, <2>2, <2>3, ForwardFrom, ForwardPlaces
  <2>4. CASE loop.kill
    <3>1. loop' = [l EXCEPT !.at = "flush"]
      BY <2>1, <2>4
    <3>2. loop'.at = "flush" /\ loop'.kill /\ loop'.byes = 0
      BY <2>2, <2>4, <3>1 DEF Loops
    <3> QED
      BY <3>2 DEF PlaceInv
  <2> QED
    BY <2>3, <2>4
<1>14. CASE SendCopies
  <2>1. loop' = ToFrames(loop) /\ loop.at = "copies"
    BY <1>14 DEF SendCopies
  <2>2. loop.byes = 0 /\ (loop.late => loop.kill)
    BY <2>1 DEF PlaceInv
  <2> QED
    BY <1>1, <2>1, <2>2, ForwardFrom, ForwardPlaces
<1>15. CASE SkipFrame \/ PushFrames \/ LastShellExits
  <2>1. /\ loop.at \in {"frames", "receive"} /\ loop'.at \in {"receive", "exit"} /\ loop'.byes = loop.byes
        /\ loop'.late = loop.late /\ loop'.kill = loop.kill
    <3>1. CASE PushFrames
      <4>1. loop' = [loop EXCEPT !.at = "receive", !.dirty = FALSE, !.due = loop'.due] /\ loop.at = "frames"
        BY <3>1, PushIs
      <4> QED
        BY <1>1, <4>1 DEF Loops
    <3> QED
      BY <1>1, <1>15, <3>1 DEF SkipFrame, LastShellExits, Loops
  <2> QED
    BY <2>1 DEF PlaceInv
<1>16. CASE DeadlinePasses
  <2>1. loop.kill /\ loop' = [loop EXCEPT !.late = TRUE] /\ mux' = mux
    BY <1>16 DEF DeadlinePasses
  <2>2. loop'.at = loop.at /\ loop'.todo = loop.todo /\ loop'.dead = loop.dead /\ loop'.kill
        /\ loop'.byes = loop.byes
    BY <1>1, <2>1 DEF Loops
  <2> QED
    BY <2>1, <2>2 DEF PlaceInv, Attached
<1>17. CASE FlushBeforeShutdown
  <2>1. loop.kill /\ loop.at \in {"receive", "flush"} /\ mux' = mux
        /\ (loop' = ToReplies(loop, mux) \/ loop' = [loop EXCEPT !.at = "byes", !.todo = mux.att])
    BY <1>17 DEF FlushBeforeShutdown
  <2>2. loop.byes = 0
    BY <2>1 DEF PlaceInv
  <2>3. CASE loop' = ToReplies(loop, mux')
    BY <1>1, <2>1, <2>2, <2>3, ForwardFrom, ForwardPlaces
  <2>4. CASE loop' = [loop EXCEPT !.at = "byes", !.todo = mux.att]
    <3>1. loop'.at = "byes" /\ loop'.todo = mux.att /\ loop'.kill /\ loop'.byes = 0
      BY <1>1, <2>1, <2>2, <2>4 DEF Loops
    <3> QED
      BY <2>1, <3>1 DEF PlaceInv, Attached
  <2> QED
    BY <2>1, <2>3, <2>4
<1>18. CASE SendBye
  <2> DEFINE next == [loop EXCEPT !.todo = Tail(loop.todo), !.byes = 0]
             one == [loop EXCEPT !.byes = loop.byes + 1]
  <2>1. /\ loop.at = "byes" /\ loop.todo # <<>> /\ mux' = mux
        /\ loop' = next \/ (loop.byes + 1 # Farewells /\ loop' = one)
    BY <1>18, ByeIs
  <2>2. loop.todo \in Seq(Clients)
    BY <1>1 DEF Loops
  <2>3. ToSet(Tail(loop.todo)) \subseteq ToSet(loop.todo)
    BY <2>1, <2>2, HeadAndTail
  <2>4. CASE loop' = next
    <3>1. loop'.at = "byes" /\ loop'.todo = Tail(loop.todo) /\ loop'.byes = 0 /\ loop'.kill = loop.kill
          /\ loop'.late = loop.late
      BY <1>1, <2>1, <2>4 DEF Loops
    <3> QED
      BY <2>1, <2>3, <3>1 DEF PlaceInv, Attached
  <2>5. CASE loop.byes + 1 # Farewells /\ loop' = one
    <3>1. loop.byes = 0
      BY <2>5 DEF PlaceInv, Farewells
    <3>2. loop'.at = "byes" /\ loop'.todo = loop.todo /\ loop'.byes = 1 /\ loop'.kill = loop.kill
          /\ loop'.late = loop.late
      BY <1>1, <2>1, <2>5, <3>1 DEF Loops
    <3> QED
      BY <2>1, <3>2 DEF PlaceInv, Attached
  <2> QED
    BY <2>1, <2>4, <2>5
<1>19. CASE EndByes \/ Exit
  <2>1. /\ loop.at \in {"byes", "exit"} /\ (loop.at = "byes" => loop.todo = <<>>)
        /\ loop'.at \in {"exit", "exited"} /\ loop'.byes = loop.byes /\ loop'.late = loop.late /\ loop'.kill = loop.kill
    BY <1>1, <1>19 DEF EndByes, Exit, Loops
  <2> QED
    BY <2>1 DEF PlaceInv
<1> QED
  BY <1>3, <1>4, <1>5, <1>6, <1>7, <1>8, <1>9, <1>10, <1>11, <1>12, <1>13, <1>14, <1>15, <1>16, <1>17, <1>18,
     <1>19 DEF Next, Pass

--------------------------------------------------------------------------------
(* What a step does to a connection                                           *)

(* The loop leaves the threads of a connection and what they hold alone.      *)
Apart(c) ==
  /\ conn'[c].reader = conn[c].reader /\ conn'[c].writer = conn[c].writer
  /\ conn'[c].held = conn[c].held /\ conn'[c].wire = conn[c].wire

Linked(c) == conn'[c].link = conn[c].link /\ conn'[c].out = conn[c].out

(* Nor does it speak to the client.                                           *)
Unspoken(c) == Linked(c) /\ conn'[c].chan = conn[c].chan

(* The loop lets go of a client it served.                                    *)
LetGo(c) == c \in Attached /\ ~conn'[c].out /\ conn'[c].link \in {conn[c].link, "shut"}

LEMMA ToldIs ==
  ASSUME NEW k \in Conn, NEW n, Told(k, n)
  PROVE  /\ n.inbox = k.inbox /\ n.reader = k.reader /\ n.writer = k.writer /\ n.held = k.held /\ n.wire = k.wire
         /\ n.link = "shut" /\ ~n.out /\ (n.chan = k.chan \/ (n.chan = <<Bye>> /\ k.chan = <<>>))
  BY DEF Told, Conn

(* Who is attached once a client has attached.                                *)
LEMMA AttachedAfter ==
  ASSUME Types, NEW d \in Clients, HandleAttach(d)
  PROVE  Attached' = (Attached \ ({Replaces[d]} \cap {o \in Attached : mux.srv[o].tagged})) \cup {d}
<1>1. mux \in Muxes
  BY DEF Types
<1> DEFINE replaced == {Replaces[d]} \cap {o \in Attached : mux.srv[o].tagged}
           m == PruneDeadClients(mux, replaced)
           k == [m EXCEPT !.att = Append(m.att, d), !.srv[d] = Attachment(Size[d])]
<1>2. Left(mux, m, replaced)
  BY <1>1, PruneLeft
<1>3. Size[d] \in Nat
  BY ServerAssumption
<1>4. mux' = RecomputeViewport(k)
  BY DEF HandleAttach
<1> HIDE DEF m, replaced
<1>5. Attachment(Size[d]) \in Srv /\ m \in Muxes
  BY <1>2, <1>3, AttachmentType DEF Left
<1>6. k \in Muxes /\ k.att = Append(m.att, d)
  <2>1. m.att \in Seq(Clients)
    BY <1>5 DEF Muxes
  <2>2. Append(m.att, d) \in Seq(Clients)
    BY <2>1
  <2>3. m.srv \in [Clients -> Srv]
    BY <1>5 DEF Muxes
  <2>4. [m.srv EXCEPT ![d] = Attachment(Size[d])] \in [Clients -> Srv]
    BY <1>5, <2>3
  <2>5. k = [m EXCEPT !.att = Append(m.att, d), !.srv = [m.srv EXCEPT ![d] = Attachment(Size[d])]]
    BY <1>5 DEF Muxes
  <2> HIDE DEF k
  <2> QED
    BY <1>5, <2>2, <2>4, <2>5 DEF Muxes
<1> HIDE DEF k
<1>7. ToSet(k.att) = ToSet(m.att) \cup {d}
  <2>1. m.att \in Seq(Clients)
    BY <1>5 DEF Muxes
  <2>2. DOMAIN Append(m.att, d) = 1 .. Len(m.att) + 1 /\ DOMAIN m.att = 1 .. Len(m.att)
        /\ Append(m.att, d)[Len(m.att) + 1] = d /\ \A i \in 1 .. Len(m.att) : Append(m.att, d)[i] = m.att[i]
    BY <2>1
  <2> QED
    BY <1>6, <2>2 DEF ToSet
<1>8. ToSet(mux'.att) = ToSet(k.att)
  BY <1>4, <1>6, RecomputeRedraws
<1> QED
  BY <1>2, <1>7, <1>8 DEF Left, Attached, replaced

LEMMA ConnOfHandlers ==
  ASSUME Types, NEW d \in Clients, HandleIncoming(d), NEW c \in Clients
  PROVE  /\ peer' = peer /\ conn[d].inbox # <<>> /\ Apart(c)
         /\ conn'[c].inbox = IF c = d THEN Tail(conn[c].inbox) ELSE conn[c].inbox
         /\ Unspoken(c) \/ (LetGo(c) /\ (c \notin Attached' \/ (c = d /\ HandleAttach(d))))
<1>1. conn[d].inbox # <<>> /\ peer' = peer
  BY DEF HandleIncoming, HandleAttach, HandleStale, HandleEnv, HandleChord, HandleRedraw, HandleDrag, Answered,
         HandleResize, HandleDetach, HandleDisconnect, HandleCommand, HandleKillServer, HandlePing, Taking
<1>2. /\ Taken(d) \in [Clients -> Conn] /\ Taken(d)[c] = [conn[c] EXCEPT !.inbox = Taken(d)[c].inbox]
      /\ conn \in [Clients -> Conn] /\ conn[c] \in Conn /\ Taken(d)[c] \in Conn /\ mux \in Muxes
  BY <1>1, TakenType DEF Types
<1>3. Taken(d)[c].inbox = IF c = d THEN Tail(conn[c].inbox) ELSE conn[c].inbox
  BY <1>2 DEF Taken, Conn
<1> DEFINE k == Taken(d)[c]
<1>4. k.reader = conn[c].reader /\ k.writer = conn[c].writer /\ k.held = conn[c].held /\ k.wire = conn[c].wire
      /\ k.link = conn[c].link /\ k.out = conn[c].out /\ k.chan = conn[c].chan
  BY <1>2 DEF Conn
<1> HIDE DEF k
<1>5. CASE conn' = Taken(d)
  BY <1>1, <1>3, <1>4, <1>5 DEF Apart, Linked, Unspoken, k
<1>6. ASSUME NEW gone, conn' = DetachClients(Taken(d), gone),
             c \in gone => c \in Attached /\ (c \notin Attached' \/ (c = d /\ HandleAttach(d)))
      PROVE  /\ Apart(c) /\ conn'[c].inbox = k.inbox
             /\ Unspoken(c) \/ (LetGo(c) /\ (c \notin Attached' \/ (c = d /\ HandleAttach(d))))
  <2>1. CASE c \notin gone
    <3>1. conn'[c] = k
      BY <1>2, <1>6, <2>1, DetachTells DEF k
    <3> QED
      BY <1>4, <3>1 DEF Apart, Linked, Unspoken
  <2>2. CASE c \in gone
    <3>1. Told(k, conn'[c]) /\ k \in Conn
      BY <1>2, <1>6, <2>2, DetachTells DEF k
    <3> QED
      BY <1>4, <1>6, <2>2, <3>1, ToldIs DEF Apart, LetGo
  <2> QED
    BY <2>1, <2>2
<1>7. CASE HandleAttach(d)
  <2> DEFINE replaced == {Replaces[d]} \cap {o \in Attached : mux.srv[o].tagged}
  <2>1. conn' = DetachClients(Taken(d), replaced) /\ replaced \subseteq Attached
    BY <1>7 DEF HandleAttach
  <2>2. Attached' = (Attached \ replaced) \cup {d}
    BY <1>7, AttachedAfter
  <2> HIDE DEF replaced
  <2> QED
    BY <1>1, <1>3, <1>6, <1>7, <2>1, <2>2 DEF k
<1>8. CASE HandleDetach(d) \/ HandleDisconnect(d)
  <2>1. mux' = Without(mux, {d}) /\ d \in Attached
    BY <1>8 DEF HandleDetach, HandleDisconnect, Taking
  <2>2. d \notin Attached'
    BY <1>2, <2>1, WithoutLeft DEF Left, Attached
  <2>3. CASE HandleDetach(d)
    <3>1. conn' = DetachClients(Taken(d), {d})
      BY <2>3 DEF HandleDetach
    <3> QED
      BY <1>1, <1>3, <1>6, <2>1, <2>2, <3>1 DEF k
  <2>4. CASE HandleDisconnect(d)
    <3>1. conn' = [Taken(d) EXCEPT ![d].out = FALSE]
      BY <2>4 DEF HandleDisconnect
    <3>2. CASE c # d
      <4>1. conn'[c] = k
        BY <1>2, <3>1, <3>2 DEF k
      <4> QED
        BY <1>1, <1>3, <1>4, <4>1 DEF Apart, Linked, Unspoken, k
    <3>3. CASE c = d
      <4>1. conn'[c] = [k EXCEPT !.out = FALSE]
        BY <1>2, <3>1, <3>3 DEF k
      <4>2. k \in Conn
        BY <1>2 DEF k
      <4>3. ~conn'[c].out /\ conn'[c].link = k.link /\ conn'[c].inbox = k.inbox /\ conn'[c].chan = k.chan
            /\ conn'[c].reader = k.reader /\ conn'[c].writer = k.writer /\ conn'[c].held = k.held
            /\ conn'[c].wire = k.wire
        BY <4>1, <4>2 DEF Conn
      <4> QED
        BY <1>1, <1>3, <1>4, <2>1, <2>2, <3>3, <4>3 DEF Apart, LetGo, k
    <3> QED
      BY <3>2, <3>3
  <2> QED
    BY <1>8, <2>3, <2>4
<1> QED
  BY <1>1, <1>5, <1>7, <1>8 DEF HandleIncoming, HandleStale, HandleEnv, HandleChord, HandleRedraw,
     HandleDrag, HandleResize, HandleCommand, HandleKillServer, HandlePing, Answered

(* One message for the client, into a channel that has room: a reply, a copy  *)
(* or a frame, and a farewell in the phase of the farewells only.             *)
Speaks(c) ==
  /\ c \in Attached /\ Accepts(c) /\ Linked(c)
  /\ \E msg \in Message : conn'[c].chan = <<msg>> /\ (msg = Bye <=> SendBye)

LEMMA ByeIsNone ==
  ASSUME NEW msg \in Frames \cup Reply \cup Copies
  PROVE  msg # Bye /\ msg \in Message
  BY DEF Frames, Reply, Copies, Bye, Message

LEMMA ConnOfLoop ==
  ASSUME Types, PlaceInv, NEW c \in Clients,
         Settle \/ (\E p \in Panes : TakeClipboard(p)) \/ RelayClipboard \/ ExpireSilentClients \/ SendReply
         \/ EndReplies \/ SendCopies \/ SkipFrame \/ PushFrames \/ FlushBeforeShutdown \/ SendBye \/ EndByes
         \/ LastShellExits \/ DeadlinePasses \/ PaneDraws \/ PaneWakes
         \/ \E p \in Panes : PaneStamps(p) \/ PaneStores(p)
  PROVE  /\ peer' = peer /\ Apart(c) /\ conn'[c].inbox = conn[c].inbox
         /\ Unspoken(c) \/ (LetGo(c) /\ c \notin Attached') \/ Speaks(c)
<1>1. conn \in [Clients -> Conn] /\ conn[c] \in Conn /\ mux \in Muxes /\ loop \in Loops /\ panes \in Threads
      /\ mux.srv[c] \in Srv
  BY DEF Types, Muxes
<1>2. CASE conn' = conn /\ peer' = peer
  BY <1>2 DEF Apart, Linked, Unspoken
<1>3. ASSUME NEW cn \in [Clients -> Conn], NEW gone, conn' = DetachClients(cn, gone),
             cn[c] = conn[c], NEW m \in Muxes, m.att = mux.att, mux' = PruneDeadClients(m, gone),
             gone \subseteq Attached
      PROVE  /\ Apart(c) /\ conn'[c].inbox = conn[c].inbox
             /\ Unspoken(c) \/ (LetGo(c) /\ c \notin Attached')
  <2>1. CASE c \notin gone
    <3>1. conn'[c] = conn[c]
      BY <1>3, <2>1, DetachTells
    <3> QED
      BY <3>1 DEF Apart, Linked, Unspoken
  <2>2. CASE c \in gone
    <3>1. Told(conn[c], conn'[c])
      BY <1>3, <2>2, DetachTells
    <3>2. c \notin Attached'
      BY <1>3, <2>2, PruneLeft DEF Left, Attached
    <3> QED
      BY <1>1, <1>3, <2>2, <3>1, <3>2, ToldIs DEF Apart, LetGo
  <2> QED
    BY <2>1, <2>2
(* the channel of one client *)
<1>4. ASSUME NEW msg \in Message, Accepts(c), c \in Attached, msg = Bye <=> SendBye,
             conn'[c] = [conn[c] EXCEPT !.chan = <<msg>>]
      PROVE  Apart(c) /\ conn'[c].inbox = conn[c].inbox /\ Speaks(c)
  BY <1>1, <1>4 DEF Conn, Apart, Linked, Speaks
<1>5. CASE ExpireSilentClients
  <2>1. PICK silent \in SUBSET Silent(mux) :
             mux' = PruneDeadClients(mux, silent) /\ conn' = DetachClients(conn, silent)
    BY <1>5 DEF ExpireSilentClients
  <2>2. silent \subseteq Attached /\ peer' = peer
    BY <1>5 DEF Silent, Attached, ExpireSilentClients
  <2> QED
    BY <1>1, <1>3, <2>1, <2>2
<1>6. CASE EndReplies
  <2>1. mux' = PruneDeadClients(mux, loop.dead) /\ conn' = DetachClients(conn, loop.dead) /\ loop.at = "replies"
        /\ peer' = peer
    BY <1>6 DEF EndReplies
  <2>2. loop.dead \subseteq Attached
    BY <2>1 DEF PlaceInv
  <2> QED
    BY <1>1, <1>3, <2>1, <2>2
<1>7. CASE SendReply
  <2> DEFINE d == Head(loop.todo)
             s == mux.srv[d]
  <2>1. /\ loop.at = "replies" /\ loop.todo # <<>> /\ d \in Clients /\ peer' = peer
        /\ \/ conn' = conn
           \/ /\ s.replies # <<>> /\ Accepts(d)
              /\ conn' = [conn EXCEPT ![d] = [conn[d] EXCEPT !.chan = <<Head(s.replies)>>]]
    BY <1>7, ReplyIs
  <2>2. loop.todo \in Seq(Clients)
    BY <1>1 DEF Loops
  <2>3. d \in Attached
    BY <2>1, <2>2, HeadAndTail DEF PlaceInv
  <2>4. s.replies # <<>> => Head(s.replies) \in Reply
    BY <1>1, <2>1 DEF Muxes, Srv
  <2> HIDE DEF d
  <2>5. CASE conn' = conn \/ c # d
    <3>1. conn'[c] = conn[c]
      BY <1>1, <2>1, <2>5
    <3> QED
      BY <2>1, <3>1 DEF Apart, Linked, Unspoken
  <2>6. CASE s.replies # <<>> /\ Accepts(d) /\ c = d
             /\ conn' = [conn EXCEPT ![d] = [conn[d] EXCEPT !.chan = <<Head(s.replies)>>]]
    <3>1. ~SendBye
      BY <2>1 DEF SendBye
    <3>2. Head(s.replies) \in Message /\ Head(s.replies) # Bye
      BY <2>4, <2>6, ByeIsNone
    <3>3. conn'[c] = [conn[c] EXCEPT !.chan = <<Head(s.replies)>>]
      BY <1>1, <2>6
    <3> HIDE DEF s
    <3>4. Apart(c) /\ conn'[c].inbox = conn[c].inbox /\ Speaks(c)
      BY <1>4, <2>3, <2>6, <3>1, <3>2, <3>3
    <3> QED
      BY <2>1, <3>4
  <2> QED
    BY <2>1, <2>5, <2>6
<1>8. CASE SendCopies
  <2> DEFINE copying == {d \in Attached : mux.srv[d].copy # 0}
             dead == {d \in copying : WriterGone(d)}
             sent == {d \in copying : Accepts(d)}
             copy(d) == [t |-> "copy", seq |-> mux.srv[d].copy]
             srv == [d \in Clients |-> IF d \in sent THEN [mux.srv[d] EXCEPT !.copy = 0] ELSE mux.srv[d]]
             cn == [d \in Clients |-> IF d \in sent THEN [conn[d] EXCEPT !.chan = <<copy(d)>>] ELSE conn[d]]
             m == [mux EXCEPT !.srv = srv]
  <2>1. peer' = peer /\ conn' = DetachClients(cn, dead) /\ mux' = PruneDeadClients(m, dead) /\ loop.at = "copies"
    BY <1>8 DEF SendCopies
  <2>2. \A d \in Clients : d \in sent => copy(d) \in Copies
    BY DEF Types, Muxes, Srv, Copies
  <2>3. cn \in [Clients -> Conn]
    <3>1. \A d \in Clients : d \in sent => <<copy(d)>> \in Slot
      BY <2>2 DEF Slot, Message
    <3> HIDE DEF copy, sent
    <3> QED
      BY <1>1, <3>1, ChanType
  <2>4. m \in Muxes /\ m.att = mux.att
    <3>1. srv \in [Clients -> Srv]
      <4> HIDE DEF sent
      <4> QED
        BY <1>1 DEF Srv, Muxes
    <3> HIDE DEF srv
    <3> QED
      BY <1>1, <3>1 DEF Muxes
  <2>5. dead \subseteq Attached
    OBVIOUS
  <2>6. CASE c \notin sent
    <3>1. cn[c] = conn[c]
      BY <2>6
    <3> HIDE DEF cn, dead, m
    <3> QED
      BY <1>3, <2>1, <2>3, <2>4, <2>5, <3>1
  <2>7. CASE c \in sent
    <3>1. c \notin dead /\ c \in Attached /\ Accepts(c)
      BY <2>7 DEF Accepts, WriterGone
    <3>2. conn'[c] = cn[c]
      <4> HIDE DEF cn, dead
      <4> QED
        BY <2>1, <2>3, <3>1, DetachTells
    <3>3. conn'[c] = [conn[c] EXCEPT !.chan = <<copy(c)>>]
      BY <2>7, <3>2
    <3>4. copy(c) \in Copies /\ ~SendBye
      BY <2>1, <2>2, <2>7 DEF SendBye
    <3> HIDE DEF copy
    <3>5. copy(c) \in Message /\ copy(c) # Bye
      BY <3>4, ByeIsNone
    <3>6. Apart(c) /\ conn'[c].inbox = conn[c].inbox /\ Speaks(c)
      BY <1>4, <3>1, <3>3, <3>4, <3>5
    <3> QED
      BY <2>1, <3>6
  <2> QED
    BY <2>6, <2>7
<1>9. CASE PushFrames
  <2> DEFINE screen == Render(mux)
  <2>1. PICK row \in Nat :
              /\ \A d \in Attached : Resyncs(d) => row \in DOMAIN screen
              /\ PushedMux(screen, row) \in Muxes
              /\ PushedConn(screen, row) \in [Clients -> Conn]
              /\ mux' = PruneDeadClients(PushedMux(screen, row), DeadOf(screen, row))
              /\ conn' = DetachClients(PushedConn(screen, row), DeadOf(screen, row))
              /\ peer' = peer /\ loop.at = "frames"
    BY <1>9, PushIs
  <2>2. screen \in Seq(Nat)
    BY <1>1, RenderType
  <2> HIDE DEF screen
  <2> DEFINE cn == PushedConn(screen, row)
             dead == DeadOf(screen, row)
             frame == Frame(Diffed(c, screen, row), screen)
             m == PushedMux(screen, row)
  <2>3. m.att = mux.att /\ dead \subseteq Attached
    BY <1>1 DEF PushedMux, Muxes, DeadOf, Speaking
  <2>4. CASE ~(c \in Speaking(screen, row) /\ Accepts(c))
    <3>1. cn[c] = conn[c]
      BY <2>4 DEF PushedConn
    <3> HIDE DEF cn, dead, m
    <3>2. /\ cn \in [Clients -> Conn] /\ conn' = DetachClients(cn, dead) /\ m \in Muxes
          /\ mux' = PruneDeadClients(m, dead)
      BY <2>1 DEF cn, dead, m
    <3> QED
      BY <1>3, <2>1, <2>3, <3>1, <3>2
  <2>5. CASE c \in Speaking(screen, row) /\ Accepts(c)
    <3>1. c \notin dead /\ c \in Attached
      BY <2>5 DEF Accepts, WriterGone, DeadOf, Speaking
    <3>2. conn'[c] = cn[c]
      <4> HIDE DEF cn, dead
      <4>1. cn \in [Clients -> Conn] /\ conn' = DetachClients(cn, dead)
        BY <2>1 DEF cn, dead
      <4> QED
        BY <3>1, <4>1, DetachTells
    <3>3. conn'[c] = [conn[c] EXCEPT !.chan = <<frame>>]
      BY <2>5, <3>2 DEF PushedConn
    <3>4. Diffed(c, screen, row) \in Srv
      BY <2>1, <2>2, <3>1, DiffedType
    <3>5. frame \in Frames /\ ~SendBye
      BY <2>1, <2>2, <3>4, FrameType DEF SendBye
    <3> HIDE DEF frame
    <3>6. frame \in Message /\ frame # Bye
      BY <3>5, ByeIsNone
    <3>7. Apart(c) /\ conn'[c].inbox = conn[c].inbox /\ Speaks(c)
      BY <1>4, <2>5, <3>1, <3>3, <3>5, <3>6
    <3> QED
      BY <2>1, <3>7
  <2> QED
    BY <2>4, <2>5
<1>10. CASE SendBye
  <2> DEFINE d == Head(loop.todo)
  <2>1. /\ d \in Clients /\ peer' = peer /\ loop.at = "byes" /\ loop.todo # <<>>
        /\ conn' = conn \/ (Accepts(d) /\ conn' = [conn EXCEPT ![d] = [conn[d] EXCEPT !.chan = <<Bye>>]])
    BY <1>10, ByeIs
  <2>2. loop.todo \in Seq(Clients)
    BY <1>1 DEF Loops
  <2>3. d \in Attached
    BY <2>1, <2>2, HeadAndTail DEF PlaceInv
  <2> HIDE DEF d
  <2>4. CASE conn' = conn \/ c # d
    <3>1. conn'[c] = conn[c]
      BY <1>1, <2>1, <2>4
    <3> QED
      BY <2>1, <3>1 DEF Apart, Linked, Unspoken
  <2>5. CASE c = d /\ Accepts(d) /\ conn' = [conn EXCEPT ![d] = [conn[d] EXCEPT !.chan = <<Bye>>]]
    <3>1. Bye \in Message
      BY DEF Message
    <3>2. conn'[c] = [conn[c] EXCEPT !.chan = <<Bye>>]
      BY <1>1, <2>5
    <3>3. Apart(c) /\ conn'[c].inbox = conn[c].inbox /\ Speaks(c)
      BY <1>4, <1>10, <2>3, <2>5, <3>1, <3>2
    <3> QED
      BY <2>1, <3>3
  <2> QED
    BY <2>1, <2>4, <2>5
<1> QED
  BY <1>2, <1>5, <1>6, <1>7, <1>8, <1>9, <1>10, Zenon DEF Settle, TakeClipboard, RelayClipboard, SkipFrame,
     FlushBeforeShutdown, EndByes, LastShellExits, DeadlinePasses, PaneDraws, PaneWakes, PaneStamps, PaneStores

--------------------------------------------------------------------------------
(* What a step does to a client and its threads                               *)

(* A client comes once and goes for good, and so do its connection and its    *)
(* writer.                                                                    *)
Ages(c) ==
  /\ conn'[c].writer # "ended" => conn[c].writer # "ended"
  /\ conn'[c].writer = "none" => conn[c].writer = "none"
  /\ conn'[c].link = "up" => conn[c].link = "up"
  /\ conn'[c].out => conn[c].out
  /\ peer'[c].state # "gone" => peer[c].state # "gone"
  /\ peer'[c].state = "new" <=> peer[c].state = "new"

LEMMA AgesOfClients ==
  ASSUME Types, NEW c \in Clients, NEW d \in Clients,
         PeerAttaches(d) \/ PeerSays(d) \/ PeerReads(d) \/ PeerSeesEof(d) \/ PeerDies(d)
         \/ PeerHangs(d) \/ PeerResumes(d) \/ LinkBreaks(d) \/ ReaderEnds(d) \/ ResyncDue(d)
  PROVE  Ages(c) \/ PeerAttaches(c)
<1>1. conn \in [Clients -> Conn] /\ peer \in [Clients -> Peer] /\ conn[c] \in Conn /\ peer[c] \in Peer
  BY DEF Types
<1>2. CASE PeerAttaches(d) /\ c # d
  <2>1. conn'[c] = conn[c] /\ peer'[c] = peer[c]
    BY <1>1, <1>2 DEF PeerAttaches
  <2> QED
    BY <2>1 DEF Ages
<1>3. CASE PeerSays(d)
  <2>0. PICK kind \in Says[d], rows \in 1 .. Tall :
             /\ peer' = [peer EXCEPT ![d].said = @ + 1, ![d].rows = rows,
                  ![d].asked = IF kind \in {"command", "kill", "ping"} THEN @ \cup {peer[d].said + 1} ELSE @]
             /\ conn' = [conn EXCEPT ![d].inbox =
                  Append(@, [t |-> kind, n |-> IF kind = "resize" THEN rows ELSE peer[d].said + 1])]
    BY <1>3 DEF PeerSays
  <2>1. conn'[c].writer = conn[c].writer /\ conn'[c].link = conn[c].link /\ conn'[c].out = conn[c].out
    BY <1>1, <2>0 DEF Conn
  <2>2. peer'[c].state = peer[c].state
    BY <1>1, <2>0 DEF Peer
  <2> QED
    BY <2>1, <2>2 DEF Ages
<1>4. CASE PeerReads(d)
  <2>1. conn'[c].writer = conn[c].writer /\ conn'[c].link = conn[c].link /\ conn'[c].out = conn[c].out
    BY <1>1, <1>4 DEF PeerReads, Conn
  <2>2. CASE c # d
    BY <1>1, <1>4, <2>1, <2>2 DEF PeerReads, Ages
  <2>3. CASE c = d
    <3>1. Head(conn[c].wire) \in Message /\ peer'[c] = Received(peer[c], Head(conn[c].wire)) /\ Reading(c)
      BY <1>1, <1>4, <2>3 DEF PeerReads, Conn
    <3>2. Received(peer[c], Head(conn[c].wire)).state \in {peer[c].state, "gone"}
      BY <1>1, <3>1 DEF Received, Message, Frames, Reply, Copies, Bye, Peer
    <3> QED
      BY <2>1, <3>1, <3>2 DEF Ages, Reading
  <2> QED
    BY <2>2, <2>3
<1>5. ASSUME NEW from, NEW to, PeerState(d, from, to), "gone" \notin from, "new" \notin from, to # "new"
      PROVE  Ages(c)
  BY <1>1, <1>5 DEF PeerState, Ages, Peer
<1>6. CASE PeerSeesEof(d) \/ PeerDies(d) \/ PeerHangs(d) \/ PeerResumes(d)
  BY <1>5, <1>6 DEF PeerSeesEof, PeerDies, PeerHangs, PeerResumes
<1>7. CASE LinkBreaks(d)
  <2>1. conn'[c].writer = conn[c].writer /\ conn'[c].link \in {conn[c].link, "broken"} /\ conn'[c].out = conn[c].out
        /\ peer' = peer
    BY <1>1, <1>7 DEF LinkBreaks, Conn
  <2> QED
    BY <2>1 DEF Ages
<1>8. CASE ReaderEnds(d)
  <2>1. conn'[c].writer = conn[c].writer /\ conn'[c].link = conn[c].link /\ conn'[c].out = conn[c].out /\ peer' = peer
    BY <1>1, <1>8 DEF ReaderEnds, Conn
  <2> QED
    BY <2>1 DEF Ages
<1>9. CASE ResyncDue(d)
  BY <1>9 DEF ResyncDue, Ages
<1> QED
  BY <1>2, <1>3, <1>4, <1>6, <1>7, <1>8, <1>9

LEMMA AgesOfWriters ==
  ASSUME Types, NEW c \in Clients, NEW d \in Clients, Writer(d)
  PROVE  Ages(c)
<1>1. conn \in [Clients -> Conn] /\ conn[c] \in Conn /\ peer' = peer
  BY DEF Types, Writer, WriterSends, WriterBlocks, WriterResumes, WriterEnds
<1>2. ASSUME NEW line, Written(d, line), conn[d].writer \in {"idle", "holding"}
      PROVE  Ages(c)
  <2>1. conn'[c].link = conn[c].link /\ conn'[c].out = conn[c].out
        /\ (conn'[c].writer = conn[c].writer \/ (c = d /\ conn'[c].writer \in {"idle", "ended"}))
    BY <1>1, <1>2 DEF Written, Conn
  <2> QED
    BY <1>1, <1>2, <2>1 DEF Ages
<1>3. CASE WriterSends(d) \/ WriterResumes(d)
  BY <1>2, <1>3 DEF WriterSends, WriterResumes
<1>4. CASE WriterBlocks(d)
  <2>1. conn'[c].link = conn[c].link /\ conn'[c].out = conn[c].out
        /\ (conn'[c].writer = conn[c].writer \/ (c = d /\ conn'[c].writer = "holding")) /\ conn[d].writer = "idle"
    BY <1>1, <1>4 DEF WriterBlocks, Conn
  <2> QED
    BY <1>1, <2>1 DEF Ages
<1>5. CASE WriterEnds(d)
  <2>1. conn'[c].link = conn[c].link /\ conn'[c].out = conn[c].out
        /\ (conn'[c].writer = conn[c].writer \/ conn'[c].writer = "ended")
    BY <1>1, <1>5 DEF WriterEnds, Conn
  <2> QED
    BY <1>1, <2>1 DEF Ages
<1> QED
  BY <1>3, <1>4, <1>5 DEF Writer

LEMMA AgesStep ==
  ASSUME Types, PlaceInv, [Next]_vars, NEW c \in Clients
  PROVE  Ages(c) \/ PeerAttaches(c)
<1>1. conn \in [Clients -> Conn] /\ conn[c] \in Conn
  BY DEF Types
<1>2. ASSUME Apart(c), peer' = peer, Linked(c) \/ (~conn'[c].out /\ conn'[c].link \in {conn[c].link, "shut"})
      PROVE  Ages(c)
  BY <1>2 DEF Apart, Linked, Ages
<1>3. CASE UNCHANGED vars
  BY <1>3 DEF vars, Ages
<1>4. ASSUME NEW d \in Clients, HandleIncoming(d)
      PROVE  Ages(c)
  BY <1>2, <1>4, ConnOfHandlers DEF Unspoken, LetGo
<1>5. ASSUME NEW d \in Clients, Writer(d)
      PROVE  Ages(c)
  BY <1>5, AgesOfWriters
<1>6. ASSUME NEW d \in Clients,
              \/ ReaderEnds(d) \/ ResyncDue(d) \/ PeerAttaches(d) \/ PeerSays(d) \/ PeerReads(d)
              \/ PeerSeesEof(d) \/ PeerDies(d) \/ PeerHangs(d) \/ PeerResumes(d) \/ LinkBreaks(d)
      PROVE  Ages(c) \/ PeerAttaches(c)
  BY <1>6, AgesOfClients
<1>7. CASE Exit
  <2>1. peer' = peer /\ (conn'[c] = conn[c] \/ (conn'[c].writer = "ended" /\ conn'[c].link = "shut" /\ ~conn'[c].out))
    BY <1>1, <1>7 DEF Exit, Conn
  <2> QED
    BY <2>1 DEF Ages
<1>8. CASE Settle \/ (\E p \in Panes : TakeClipboard(p)) \/ RelayClipboard \/ ExpireSilentClients \/ SendReply
         \/ EndReplies \/ SendCopies \/ SkipFrame \/ PushFrames \/ FlushBeforeShutdown \/ SendBye \/ EndByes
         \/ LastShellExits \/ DeadlinePasses \/ PaneDraws \/ PaneWakes
         \/ \E p \in Panes : PaneStamps(p) \/ PaneStores(p)
  <2>1. peer' = peer /\ Apart(c) /\ (Unspoken(c) \/ (LetGo(c) /\ c \notin Attached') \/ Speaks(c))
    BY <1>8, ConnOfLoop
  <2> QED
    BY <1>2, <2>1 DEF Unspoken, LetGo, Speaks
<1> QED
  BY <1>3, <1>4, <1>5, <1>6, <1>7, <1>8 DEF Next, Pass

--------------------------------------------------------------------------------
(* What a client will show                                                    *)

(* Clients that show, got and pasted the same make the same of a message,     *)
(* whatever else they are.                                                    *)
Alike(p, q) == p.view = q.view /\ p.got = q.got /\ p.pasted = q.pasted

LEMMA ReceivedAlike ==
  ASSUME NEW p \in Peer, NEW q \in Peer, Alike(p, q), NEW msg \in Message
  PROVE  Alike(Received(p, msg), Received(q, msg))
<1>1. CASE msg \in Frames
  <2>1. Received(p, msg) = [p EXCEPT !.view = Applied(p.view, msg)]
        /\ Received(q, msg) = [q EXCEPT !.view = Applied(q.view, msg)]
    BY <1>1 DEF Received, Frames
  <2> QED
    BY <2>1 DEF Alike, Peer
<1>2. CASE msg \in Reply
  <2>1. Received(p, msg) = [p EXCEPT !.got = Append(p.got, [id |-> msg.id, code |-> msg.code])]
        /\ Received(q, msg) = [q EXCEPT !.got = Append(q.got, [id |-> msg.id, code |-> msg.code])]
    BY <1>2 DEF Received, Reply
  <2> QED
    BY <2>1 DEF Alike, Peer
<1>3. CASE msg \in Copies
  BY <1>3 DEF Received, Copies, Alike, Peer
<1>4. CASE msg = Bye
  BY <1>4 DEF Received, Bye, Alike, Peer
<1> QED
  BY <1>1, <1>2, <1>3, <1>4 DEF Message

LEMMA AfterAlike ==
  ASSUME NEW p \in Peer, NEW q \in Peer, Alike(p, q), NEW msgs \in Seq(Message)
  PROVE  Alike(After(p, msgs), After(q, msgs))
<1>1. PICK f \in [0 .. Len(msgs) -> Peer] : Follows(f, p, msgs) /\ After(p, msgs) = f[Len(msgs)]
  BY AfterFolds
<1>2. PICK g \in [0 .. Len(msgs) -> Peer] : Follows(g, q, msgs) /\ After(q, msgs) = g[Len(msgs)]
  BY AfterFolds
<1> DEFINE bad == {n \in 0 .. Len(msgs) : ~Alike(f[n], g[n])}
<1>3. SUFFICES ASSUME bad # {} PROVE FALSE
  <2>1. Len(msgs) \in 0 .. Len(msgs)
    OBVIOUS
  <2> QED
    BY <1>1, <1>2, <2>1
<1>4. bad \subseteq Nat
  OBVIOUS
<1>5. Min(bad) \in bad /\ \A k \in bad : Min(bad) <= k
  <2> HIDE DEF bad
  <2> QED
    BY <1>3, <1>4, LeastNatural
<1> DEFINE n == Min(bad)
<1>6. n \in 0 .. Len(msgs) /\ ~Alike(f[n], g[n]) /\ n # 0
  <2>1. n \in bad
    BY <1>5
  <2>2. 0 \notin bad
    BY <1>1, <1>2 DEF Follows
  <2> HIDE DEF n
  <2> QED
    BY <2>1, <2>2
<1>7. n - 1 \in 0 .. Len(msgs) /\ n - 1 \notin bad /\ n \in 1 .. Len(msgs)
  BY <1>5, <1>6
<1> HIDE DEF n
<1>8. Alike(f[n - 1], g[n - 1]) /\ f[n - 1] \in Peer /\ g[n - 1] \in Peer /\ msgs[n] \in Message
  BY <1>7
<1>9. f[n] = Received(f[n - 1], msgs[n]) /\ g[n] = Received(g[n - 1], msgs[n])
  BY <1>1, <1>2, <1>7 DEF Follows
<1> QED
  BY <1>6, <1>8, <1>9, ReceivedAlike

(* What the client will be once it received all that is on its way.           *)
Final(c) == After(peer[c], InFlight(c))

LEMMA FinalType ==
  ASSUME Types, NEW c \in Clients
  PROVE  Final(c) \in Peer /\ InFlight(c) \in Seq(Message) /\ peer[c] \in Peer /\ conn[c] \in Conn
<1>1. conn[c] \in Conn /\ InFlight(c) = Line(conn[c]) /\ peer[c] \in Peer
  BY DEF Types, InFlight, Line
<1>2. InFlight(c) \in Seq(Message)
  BY <1>1, LineType
<1> QED
  BY <1>1, <1>2, AfterType DEF Final

LEMMA FinalStill ==
  ASSUME Types, Types', NEW c \in Clients, Still(c) \/ Reads(c)
  PROVE  Alike(Final(c)', Final(c))
<1>1. peer[c] \in Peer /\ InFlight(c) \in Seq(Message)
  BY FinalType
<1>2. peer'[c] \in Peer
  BY DEF Types
<1>3. Final(c)' = After(peer'[c], InFlight(c)')
  BY DEF Final
<1>4. CASE Still(c)
  <2>1. Alike(peer'[c], peer[c]) /\ InFlight(c)' = InFlight(c)
    BY <1>4 DEF Still, Alike
  <2> QED
    BY <1>1, <1>2, <1>3, <2>1, AfterAlike DEF Final
<1>5. CASE Reads(c)
  <2>1. /\ InFlight(c) # <<>> /\ InFlight(c)' = Tail(InFlight(c))
        /\ peer'[c] = Received(peer[c], Head(InFlight(c)))
    BY <1>5 DEF Reads
  <2>2. Final(c)' = Final(c)
    BY <1>1, <1>3, <2>1, AfterReads DEF Final
  <2> QED
    BY <2>2 DEF Alike
<1> QED
  BY <1>4, <1>5

LEMMA FinalSends ==
  ASSUME Types, Types', NEW c \in Clients, NEW msg \in Message, Sends(c, msg)
  PROVE  Final(c)' = Received(Final(c), msg)
<1>1. peer[c] \in Peer /\ InFlight(c) \in Seq(Message)
  BY FinalType
<1>2. peer'[c] = peer[c] /\ InFlight(c)' = Append(InFlight(c), msg)
  BY DEF Sends
<1>3. Final(c)' = After(peer[c], Append(InFlight(c), msg))
  BY <1>2 DEF Final
<1> QED
  BY <1>1, <1>3, AfterSends DEF Final

(* Only a frame and the end change a baseline otherwise than to a blank one.  *)
LEMMA RedrawnStep ==
  ASSUME Types, Fits(mux), [Next]_vars
  PROVE  PushFrames \/ Exit \/ Redrawn(mux, mux')
<1>1. CASE mux' = mux
  BY <1>1, SameScreens
<1>2. ASSUME NEW d \in Clients, HandleIncoming(d)
      PROVE  Redrawn(mux, mux')
  BY <1>2, ScreensOfHandlers
<1>3. CASE Settle
  BY <1>3, ScreensOfSettle
<1>4. CASE (\E p \in Panes : TakeClipboard(p)) \/ RelayClipboard \/ ExpireSilentClients \/ SendReply \/ EndReplies
           \/ SendCopies \/ SkipFrame \/ FlushBeforeShutdown \/ SendBye \/ EndByes \/ LastShellExits \/ DeadlinePasses
  BY <1>4, ScreensOfLoop
<1>5. ASSUME NEW d \in Clients,
              \/ Writer(d) \/ ReaderEnds(d) \/ ResyncDue(d) \/ PeerAttaches(d) \/ PeerSays(d) \/ PeerReads(d)
              \/ PeerSeesEof(d) \/ PeerDies(d) \/ PeerHangs(d) \/ PeerResumes(d) \/ LinkBreaks(d)
      PROVE  mux' = mux
  BY <1>5, ZenonT(40) DEF Writer, WriterSends, WriterBlocks, WriterResumes, WriterEnds, ReaderEnds, ResyncDue, PeerAttaches,
     PeerSays, PeerReads, PeerSeesEof, PeerDies, PeerHangs, PeerResumes, PeerState, LinkBreaks
<1>6. CASE PaneDraws \/ PaneWakes \/ \E p \in Panes : PaneStamps(p) \/ PaneStores(p)
  BY <1>1, <1>6 DEF PaneDraws, PaneWakes, PaneStamps, PaneStores
<1>7. CASE UNCHANGED vars
  BY <1>1, <1>7 DEF vars
<1> QED
  BY <1>1, <1>2, <1>3, <1>4, <1>5, <1>6, <1>7 DEF Next, Pass

(* Nobody is attached but by its first message.                               *)
LEMMA AttachedStep ==
  ASSUME Types, Fits(mux), [Next]_vars, NEW c \in Clients, c \in Attached'
  PROVE  c \in Attached \/ HandleAttach(c)
<1>1. CASE mux' = mux
  BY <1>1 DEF Attached
<1>2. ASSUME NEW d \in Clients, HandleIncoming(d)
      PROVE  c \in Attached \/ HandleAttach(c)
  <2>1. Attached' \subseteq Attached \/ (HandleAttach(d) /\ Attached' \subseteq Attached \cup {d})
    BY <1>2, ScreensOfHandlers
  <2> QED
    BY <2>1
<1>3. CASE Settle
  BY <1>3, ScreensOfSettle
<1>4. CASE (\E p \in Panes : TakeClipboard(p)) \/ RelayClipboard \/ ExpireSilentClients \/ SendReply \/ EndReplies
           \/ SendCopies \/ SkipFrame \/ FlushBeforeShutdown \/ SendBye \/ EndByes \/ LastShellExits \/ DeadlinePasses
  BY <1>4, ScreensOfLoop
<1>5. CASE PushFrames \/ Exit
  BY <1>5, QueuesOfLoop
<1>6. ASSUME NEW d \in Clients,
              \/ Writer(d) \/ ReaderEnds(d) \/ ResyncDue(d) \/ PeerAttaches(d) \/ PeerSays(d) \/ PeerReads(d)
              \/ PeerSeesEof(d) \/ PeerDies(d) \/ PeerHangs(d) \/ PeerResumes(d) \/ LinkBreaks(d)
      PROVE  mux' = mux
  BY <1>6, ZenonT(40) DEF Writer, WriterSends, WriterBlocks, WriterResumes, WriterEnds, ReaderEnds, ResyncDue, PeerAttaches,
     PeerSays, PeerReads, PeerSeesEof, PeerDies, PeerHangs, PeerResumes, PeerState, LinkBreaks
<1>7. CASE PaneDraws \/ PaneWakes \/ \E p \in Panes : PaneStamps(p) \/ PaneStores(p)
  BY <1>1, <1>7 DEF PaneDraws, PaneWakes, PaneStamps, PaneStores
<1>8. CASE UNCHANGED vars
  BY <1>1, <1>8 DEF vars
<1> QED
  BY <1>1, <1>2, <1>3, <1>4, <1>5, <1>6, <1>7, <1>8 DEF Next, Pass

(* A client that was not started has no connection.                           *)
NewInv ==
  \A c \in Clients : peer[c].state = "new" =>
    conn[c].inbox = <<>> /\ conn[c].reader = "none" /\ conn[c].link = "none" /\ c \notin Attached

LEMMA NewInit == Init => NewInv
  BY DEF Init, NewInv, Attached, ToSet

LEMMA NewStep ==
  ASSUME Types, Fits(mux), PlaceInv, NewInv, [Next]_vars
  PROVE  NewInv'
<1> SUFFICES ASSUME NEW c \in Clients, peer'[c].state = "new"
             PROVE  conn'[c].inbox = <<>> /\ conn'[c].reader = "none" /\ conn'[c].link = "none" /\ c \notin Attached'
  BY DEF NewInv
<1>1. conn \in [Clients -> Conn] /\ conn[c] \in Conn /\ peer \in [Clients -> Peer] /\ peer[c] \in Peer
  BY DEF Types
<1>2. peer[c].state = "new"
  <2>1. ~PeerAttaches(c)
    BY <1>1 DEF PeerAttaches, Peer
  <2> QED
    BY <2>1, AgesStep DEF Ages
<1>3. conn[c].inbox = <<>> /\ conn[c].reader = "none" /\ conn[c].link = "none" /\ c \notin Attached
  BY <1>2 DEF NewInv
<1>4. c \notin Attached'
  BY <1>3, AttachedStep DEF HandleAttach, Taking
<1>5. conn'[c].inbox = <<>> /\ conn'[c].reader = "none" /\ conn'[c].link = "none"
  <2>1. CASE conn'[c] = conn[c]
    BY <1>3, <2>1
  <2>2. ASSUME NEW d \in Clients, HandleIncoming(d)
        PROVE  conn'[c].inbox = <<>> /\ conn'[c].reader = "none" /\ conn'[c].link = "none"
    <3>1. /\ conn[d].inbox # <<>> /\ Apart(c)
          /\ conn'[c].inbox = IF c = d THEN Tail(conn[c].inbox) ELSE conn[c].inbox
          /\ Unspoken(c) \/ LetGo(c)
      BY <2>2, ConnOfHandlers
    <3> QED
      BY <1>3, <3>1 DEF Apart, Unspoken, Linked, LetGo
  <2>3. CASE Settle \/ (\E p \in Panes : TakeClipboard(p)) \/ RelayClipboard \/ ExpireSilentClients \/ SendReply
         \/ EndReplies \/ SendCopies \/ SkipFrame \/ PushFrames \/ FlushBeforeShutdown \/ SendBye \/ EndByes
         \/ LastShellExits \/ DeadlinePasses \/ PaneDraws \/ PaneWakes
         \/ \E p \in Panes : PaneStamps(p) \/ PaneStores(p)
    <3>1. Apart(c) /\ conn'[c].inbox = conn[c].inbox /\ (Unspoken(c) \/ LetGo(c) \/ Speaks(c))
      BY <2>3, ConnOfLoop
    <3> QED
      BY <1>3, <3>1 DEF Apart, Unspoken, Linked, LetGo, Speaks
  <2>4. CASE Exit
    BY <1>1, <1>3, <2>1, <2>4 DEF Exit
  <2>5. ASSUME NEW d \in Clients, Writer(d)
        PROVE  conn'[c].inbox = conn[c].inbox /\ conn'[c].reader = conn[c].reader /\ conn'[c].link = conn[c].link
    <3>1. CASE WriterBlocks(d) \/ WriterEnds(d)
      <4>1. CASE WriterBlocks(d)
        BY <1>1, <4>1 DEF WriterBlocks, Conn
      <4>2. CASE WriterEnds(d)
        <5>1. conn' = [conn EXCEPT ![d] = [conn[d] EXCEPT !.writer = "ended", !.held = <<>>, !.chan = <<>>]]
          BY <4>2 DEF WriterEnds
        <5> QED
          BY <1>1, <5>1 DEF Conn
      <4> QED
        BY <3>1, <4>1, <4>2
    <3>2. CASE WriterSends(d)
      <4>1. Written(d, conn[d].chan)
        BY <3>2 DEF WriterSends
      <4> QED
        BY <1>1, <4>1 DEF Written, Conn
    <3>3. CASE WriterResumes(d)
      <4>1. Written(d, conn[d].held)
        BY <3>3 DEF WriterResumes
      <4> QED
        BY <1>1, <4>1 DEF Written, Conn
    <3> QED
      BY <2>5, <3>1, <3>2, <3>3 DEF Writer
  <2>6. ASSUME NEW d \in Clients,
              \/ ReaderEnds(d) \/ ResyncDue(d) \/ PeerAttaches(d) \/ PeerSays(d) \/ PeerReads(d)
              \/ PeerSeesEof(d) \/ PeerDies(d) \/ PeerHangs(d) \/ PeerResumes(d) \/ LinkBreaks(d)
        PROVE  conn'[c] = conn[c]
    <3>1. ~(d = c /\ (PeerAttaches(d) \/ PeerSays(d) \/ PeerReads(d) \/ ReaderEnds(d) \/ LinkBreaks(d)))
      <4>1. d = c => ~PeerSays(d) /\ ~PeerReads(d) /\ ~ReaderEnds(d) /\ ~LinkBreaks(d)
        BY <1>2, <1>3 DEF PeerSays, PeerReads, Reading, ReaderEnds, LinkBreaks
      <4>2. d = c => ~PeerAttaches(d)
        BY <1>1 DEF PeerAttaches, Peer
      <4> QED
        BY <4>1, <4>2
    <3> QED
      BY <1>1, <2>6, <3>1 DEF ReaderEnds, ResyncDue, PeerAttaches, PeerSays, PeerReads, PeerSeesEof, PeerDies, PeerHangs,
         PeerResumes, PeerState, LinkBreaks
  <2>7. CASE UNCHANGED vars
    BY <2>1, <2>7 DEF vars
  <2> QED
    BY <1>3, <2>1, <2>2, <2>3, <2>4, <2>5, <2>6, <2>7 DEF Next, Pass
<1> QED
  BY <1>4, <1>5

--------------------------------------------------------------------------------
(* The baseline of a client is what it will show                              *)

Truth(last, view) == Len(view) = Len(last) /\ \A i \in DOMAIN last : last[i] \in {Unknown, view[i]}

(* A frame makes of a client that shows the baseline one that shows the       *)
(* screen: a full one starts with blank rows, and so does its baseline.       *)
LEMMA FrameShows ==
  ASSUME NEW p \in Peer, NEW s \in Srv, NEW screen \in Seq({0, 1}), Len(s.last) = Len(screen),
         s.needsFull => Blanked(s), ~s.needsFull => Truth(s.last, p.view)
  PROVE  Truth(screen, Received(p, Frame(s, screen)).view)
<1> DEFINE frame == Frame(s, screen)
           rows == Len(screen)
           base == IF frame.full THEN Blank(frame.rows) ELSE p.view
           n == Received(p, frame)
<1>1. screen \in Seq(Nat) /\ rows \in Nat /\ DOMAIN screen = 1 .. rows /\ \A i \in 1 .. rows : screen[i] \in {0, 1}
  OBVIOUS
<1>2. /\ frame \in Frames /\ frame.full = s.needsFull /\ frame.rows = rows
      /\ DOMAIN frame.cells = Changed(s.last, screen)
      /\ \A i \in Changed(s.last, screen) : frame.cells[i] = screen[i]
  BY <1>1, FrameType
<1>3. s.last \in Seq(Nat) /\ DOMAIN s.last = 1 .. rows /\ p.view \in Seq(Nat) /\ s.needsFull \in BOOLEAN
  BY DEF Srv, Peer
<1> HIDE DEF frame
<1>4. /\ Len(base) = rows
      /\ \A i \in 1 .. rows : i \notin Changed(s.last, screen) => base[i] = screen[i]
  <2>1. \A i \in 1 .. rows : i \notin Changed(s.last, screen) => s.last[i] = screen[i]
    BY <1>1 DEF Changed
  <2>2. CASE frame.full
    <3>1. base = Blank(rows) /\ s.last = Blank(rows)
      BY <1>2, <2>2 DEF Blanked
    <3> QED
      BY <1>1, <2>1, <3>1, BlankType
  <2>3. CASE ~frame.full
    <3>1. base = p.view /\ Len(p.view) = Len(s.last) /\ \A i \in 1 .. rows : s.last[i] \in {Unknown, p.view[i]}
      BY <1>2, <1>3, <2>3 DEF Truth
    <3>2. ASSUME NEW i \in 1 .. rows, i \notin Changed(s.last, screen)
          PROVE  p.view[i] = screen[i]
      <4>1. screen[i] # Unknown /\ s.last[i] = screen[i]
        BY <1>1, <2>1, <3>2 DEF Unknown
      <4> QED
        BY <3>1, <4>1
    <3> QED
      BY <3>1, <3>2
  <2> QED
    BY <2>2, <2>3
<1>5. n.view = [i \in 1 .. rows |-> IF i \in DOMAIN frame.cells THEN frame.cells[i] ELSE base[i]]
  <2>1. n = [p EXCEPT !.view = Applied(p.view, frame)]
    BY <1>2 DEF Received, Frames
  <2>2. n.view = Applied(p.view, frame)
    BY <2>1 DEF Peer
  <2> QED
    BY <1>2, <1>4, <2>2 DEF Applied
<1>6. n.view \in Seq(Nat)
  BY <1>2, ReceivedType DEF Message, Peer
<1>7. DOMAIN n.view = 1 .. rows /\ Len(n.view) = rows
  <2>1. DOMAIN n.view = 1 .. rows
    BY <1>5
  <2> HIDE DEF n
  <2> QED
    BY <1>1, <1>6, <2>1
<1>8. \A i \in 1 .. rows : n.view[i] = screen[i]
  BY <1>2, <1>4, <1>5
<1> HIDE DEF n
<1> QED
  BY <1>1, <1>7, <1>8 DEF Truth, frame, n

(* What is not a frame leaves the screen alone.                               *)
LEMMA ViewKept ==
  ASSUME Types, Types', NEW c \in Clients,
         \/ Still(c) \/ Reads(c)
         \/ \E msg \in Reply \cup Copies \cup {Bye} : Sends(c, msg)
  PROVE  Final(c)'.view = Final(c).view
<1>1. CASE Still(c) \/ Reads(c)
  BY <1>1, FinalStill DEF Alike
<1>2. CASE \E msg \in Reply \cup Copies \cup {Bye} : Sends(c, msg)
  <2>1. PICK msg \in Reply \cup Copies \cup {Bye} : Sends(c, msg)
    BY <1>2
  <2>2. msg \in Message /\ Final(c) \in Peer
    BY FinalType DEF Message
  <2>3. Final(c)' = Received(Final(c), msg)
    BY <2>1, <2>2, FinalSends
  <2> DEFINE p == Final(c)
  <2> HIDE DEF p
  <2>4. Received(p, msg).view = p.view
    BY <2>2 DEF Received, Reply, Copies, Bye, Peer, p
  <2> QED
    BY <2>3, <2>4 DEF p
<1> QED
  BY <1>1, <1>2

(* Only push_frames sends frames, and only a writer that is gone drops what   *)
(* it was given.                                                              *)
LEMMA LineStep ==
  ASSUME Types, Wired, [Next]_vars, ~PushFrames, NEW c \in Clients
  PROVE  \/ Still(c) \/ Reads(c) \/ Drops(c)
         \/ \E msg \in Reply \cup Copies \cup {Bye} : Sends(c, msg)
<1>1. ASSUME NEW d \in Clients, HandleIncoming(d)
      PROVE  Still(c) \/ Sends(c, Bye)
  BY <1>1, LineOfHandlers
<1>2. ASSUME NEW d \in Clients, Writer(d)
      PROVE  Still(c) \/ Drops(c)
  BY <1>2, LineOfWriters
<1>3. ASSUME NEW d \in Clients,
              \/ ReaderEnds(d) \/ ResyncDue(d) \/ PeerAttaches(d) \/ PeerSays(d) \/ PeerReads(d)
              \/ PeerSeesEof(d) \/ PeerDies(d) \/ PeerHangs(d) \/ PeerResumes(d) \/ LinkBreaks(d)
      PROVE  Still(c) \/ Reads(c)
  BY <1>3, LineOfClients
<1>4. CASE Settle \/ (\E p \in Panes : TakeClipboard(p)) \/ RelayClipboard \/ ExpireSilentClients
         \/ EndReplies \/ SkipFrame \/ FlushBeforeShutdown \/ SendBye \/ EndByes
         \/ LastShellExits \/ DeadlinePasses \/ PaneDraws \/ PaneWakes
         \/ \E p \in Panes : PaneStamps(p) \/ PaneStores(p)
  BY <1>4, LineOfLoop
<1>5. CASE SendReply
  BY <1>5, LineOfReply
<1>6. CASE SendCopies
  <2>1. mux.srv[c].copy # 0 => [t |-> "copy", seq |-> mux.srv[c].copy] \in Copies
    BY DEF Types, Muxes, Srv, Copies
  <2> QED
    BY <1>6, <2>1, LineOfCopies
<1>7. CASE Exit
  BY <1>7, LineOfExit
<1>8. CASE UNCHANGED vars
  <2>1. conn' = conn /\ peer' = peer
    BY <1>8 DEF vars
  <2> QED
    BY <2>1, LineStill
<1> QED
  BY <1>1, <1>2, <1>3, <1>4, <1>5, <1>6, <1>7, <1>8 DEF Next, Pass

(* A client is owed a full frame only while its baseline is blank; the        *)
(* baseline of any other that is connected is what it will show.              *)
FrameInv ==
  \A c \in Clients :
    /\ mux.srv[c].needsFull => Blanked(mux.srv[c])
    /\ Connected(c) /\ ~mux.srv[c].needsFull => Truth(mux.srv[c].last, Final(c).view)

LEMMA FrameInit == Init => FrameInv
<1> SUFFICES ASSUME Init, NEW c \in Clients PROVE ~mux.srv[c].needsFull /\ ~Connected(c)
  BY DEF FrameInv
<1>1. mux.att = <<>> /\ mux.srv[c] = Detached
  BY DEF Init
<1> QED
  BY <1>1 DEF Detached, Connected, Attached, ToSet

(* Who is connected after a step was before.                                  *)
LEMMA ConnectedBefore ==
  ASSUME Types, Fits(mux), PlaceInv, NewInv, [Next]_vars, NEW c \in Clients, Connected(c)', ~HandleAttach(c)
  PROVE  Connected(c)
<1>1. c \in Attached
  BY AttachedStep DEF Connected
<1>2. Ages(c)
  <2>1. CASE PeerAttaches(c)
    BY <1>1, <2>1 DEF PeerAttaches, NewInv
  <2> QED
    BY <2>1, AgesStep
<1> QED
  BY <1>1, <1>2 DEF Connected, Ages

LEMMA FrameKept ==
  ASSUME Types, Types', Fits(mux), PlaceInv, NewInv, Wired, FrameInv, [Next]_vars, Redrawn(mux, mux'), ~PushFrames
  PROVE  FrameInv'
<1> SUFFICES ASSUME NEW c \in Clients
             PROVE  /\ mux'.srv[c].needsFull => Blanked(mux'.srv[c])
                    /\ Connected(c)' /\ ~mux'.srv[c].needsFull => Truth(mux'.srv[c].last, Final(c)'.view)
  BY DEF FrameInv
<1>1. /\ \/ ~mux'.srv[c].needsFull \/ Blanked(mux'.srv[c])
         \/ mux'.srv[c].last = mux.srv[c].last /\ mux'.srv[c].needsFull = mux.srv[c].needsFull
      /\ c \in ToSet(mux'.att) =>
         \/ mux'.srv[c].needsFull
         \/ /\ c \in ToSet(mux.att) /\ mux'.srv[c].last = mux.srv[c].last
            /\ mux'.srv[c].needsFull = mux.srv[c].needsFull
  BY DEF Redrawn
<1>2. mux'.srv[c].needsFull => Blanked(mux'.srv[c])
  BY <1>1 DEF FrameInv, Blanked
<1>3. ASSUME Connected(c)', ~mux'.srv[c].needsFull
      PROVE  Truth(mux'.srv[c].last, Final(c)'.view)
  <2>1. /\ c \in Attached /\ mux'.srv[c].last = mux.srv[c].last
        /\ ~mux.srv[c].needsFull
    BY <1>1, <1>3 DEF Connected, Attached
  <2>2. Connected(c)
    <3>1. CASE HandleAttach(c)
      <4>1. Apart(c) /\ peer' = peer /\ (Linked(c) \/ (~conn'[c].out /\ conn'[c].link \in {conn[c].link, "shut"}))
        <5>1. HandleIncoming(c)
          BY <3>1 DEF HandleIncoming
        <5> QED
          BY <5>1, ConnOfHandlers DEF Unspoken, LetGo
      <4> QED
        BY <1>3, <2>1, <4>1 DEF Connected, Apart, Linked
    <3> QED
      BY <1>3, <3>1, ConnectedBefore
  <2>3. Truth(mux.srv[c].last, Final(c).view)
    BY <2>1, <2>2 DEF FrameInv
  <2>4. ~Drops(c)
    BY <1>3 DEF Connected, Drops
  <2>5. Final(c)'.view = Final(c).view
    BY <2>4, LineStep, ViewKept
  <2> QED
    BY <2>1, <2>3, <2>5
<1> QED
  BY <1>2, <1>3

LEMMA FrameOfPush ==
  ASSUME Types, Types', Fits(mux), PlaceInv, NewInv, FrameInv, PushFrames
  PROVE  FrameInv'
<1> DEFINE screen == Render(mux)
<1>1. PICK row \in Nat :
        /\ \A c \in Attached : Resyncs(c) => row \in DOMAIN screen
        /\ PushedMux(screen, row) \in Muxes
        /\ \A c \in Clients :
             PushedMux(screen, row).srv[c] =
               IF c \in Attached THEN Pushed(c, Diffed(c, screen, row), screen) ELSE mux.srv[c]
        /\ PushedConn(screen, row) \in [Clients -> Conn]
        /\ mux' = PruneDeadClients(PushedMux(screen, row), DeadOf(screen, row))
        /\ conn' = DetachClients(PushedConn(screen, row), DeadOf(screen, row))
        /\ UNCHANGED peer
  BY PushIs
<1>2. mux \in Muxes /\ panes \in Threads
  BY DEF Types
<1>3. screen \in Seq({0, 1}) /\ screen \in Seq(Nat)
  BY <1>2, RenderType
<1> HIDE DEF screen
<1> DEFINE m == PushedMux(screen, row)
           dead == DeadOf(screen, row)
<1>4. Redrawn(m, mux') /\ ToSet(mux'.att) = ToSet(mux.att) \ dead
  <2>1. m.att = mux.att
    BY <1>2 DEF PushedMux, Muxes
  <2> HIDE DEF m, dead
  <2>2. m \in Muxes /\ mux' = PruneDeadClients(m, dead)
    BY <1>1 DEF m, dead
  <2> QED
    BY <2>1, <2>2, PruneRedraws
<1> HIDE DEF m, dead
<1> SUFFICES ASSUME NEW c \in Clients
             PROVE  /\ mux'.srv[c].needsFull => Blanked(mux'.srv[c])
                    /\ Connected(c)' /\ ~mux'.srv[c].needsFull => Truth(mux'.srv[c].last, Final(c)'.view)
  BY DEF FrameInv
<1>5. /\ \/ ~mux'.srv[c].needsFull \/ Blanked(mux'.srv[c])
         \/ mux'.srv[c].last = m.srv[c].last /\ mux'.srv[c].needsFull = m.srv[c].needsFull
      /\ c \in ToSet(mux'.att) =>
         \/ mux'.srv[c].needsFull
         \/ mux'.srv[c].last = m.srv[c].last /\ mux'.srv[c].needsFull = m.srv[c].needsFull
  BY <1>4 DEF Redrawn
<1>6. CASE c \notin Attached
  <2>1. m.srv[c] = mux.srv[c]
    BY <1>1, <1>6 DEF m
  <2>2. c \notin Attached'
    BY <1>4, <1>6 DEF Attached
  <2> QED
    BY <1>5, <2>1, <2>2 DEF FrameInv, Blanked, Connected
<1>7. CASE c \in Attached
  <2> DEFINE s == Diffed(c, screen, row)
             t == mux.srv[c]
  <2>1. /\ s \in Srv /\ Len(s.last) = Len(screen)
        /\ \/ s.needsFull /\ s.last = Blank(Len(screen))
           \/ /\ Len(t.last) = Len(screen) /\ s.needsFull = t.needsFull
              /\ \/ s.last = t.last
                 \/ ~s.needsFull /\ \A i \in 1 .. Len(screen) : s.last[i] \in {Unknown, t.last[i]}
    BY <1>1, <1>3, <1>7, DiffedType
  <2>2. m.srv[c] = Pushed(c, s, screen)
    BY <1>1, <1>7 DEF m
  <2>3. t.needsFull => Blanked(t)
    BY DEF FrameInv
  <2>4. Connected(c) /\ ~t.needsFull => Truth(t.last, Final(c).view)
    BY DEF FrameInv
  <2>5. t \in Srv
    BY <1>2 DEF Muxes
  <2> DEFINE line == c \in Speaking(screen, row) /\ Accepts(c)
  <2>6. \/ ~line /\ (Still(c) \/ Sends(c, Bye))
        \/ line /\ Sends(c, Frame(s, screen))
    BY <1>1, <1>3, LineOfFrames
  <2>7. line <=> ~Idle(s, screen) /\ Accepts(c)
    BY <1>7 DEF Speaking
  <2> HIDE DEF line, s, t
  <2>8. s.needsFull => Blanked(s)
    BY <2>1, <2>3 DEF Blanked
  <2>9. Connected(c) /\ ~s.needsFull => Truth(s.last, Final(c).view)
    <3> SUFFICES ASSUME Connected(c), ~s.needsFull PROVE Truth(s.last, Final(c).view)
      OBVIOUS
    <3>1. /\ ~t.needsFull /\ Len(t.last) = Len(screen)
          /\ s.last = t.last \/ \A i \in 1 .. Len(screen) : s.last[i] \in {Unknown, t.last[i]}
      BY <2>1
    <3>2. Len(Final(c).view) = Len(t.last) /\ \A i \in DOMAIN t.last : t.last[i] \in {Unknown, Final(c).view[i]}
      BY <2>4, <3>1 DEF Truth
    <3>3. DOMAIN s.last = 1 .. Len(screen) /\ DOMAIN t.last = 1 .. Len(screen)
      BY <2>1, <2>5, <3>1 DEF Srv
    <3> QED
      BY <2>1, <3>1, <3>2, <3>3 DEF Truth
  <2>10. \/ line /\ m.srv[c] = [s EXCEPT !.last = screen, !.needsFull = FALSE, !.pending = FALSE]
         \/ ~line /\ m.srv[c].last = s.last /\ m.srv[c].needsFull = s.needsFull
    BY <2>1, <2>2, <2>7 DEF Pushed, Missed, Srv
  <2>11. mux'.srv[c].needsFull => Blanked(mux'.srv[c])
    <3>1. m.srv[c].needsFull => Blanked(m.srv[c])
      BY <2>1, <2>8, <2>10 DEF Blanked, Srv
    <3> QED
      BY <1>5, <3>1 DEF Blanked
  <2>12. ASSUME Connected(c)', ~mux'.srv[c].needsFull
         PROVE  Truth(mux'.srv[c].last, Final(c)'.view)
    <3>1. c \in ToSet(mux'.att) /\ mux'.srv[c].last = m.srv[c].last /\ ~m.srv[c].needsFull
      BY <1>5, <2>12 DEF Connected, Attached
    <3>2. Connected(c)
      <4>1. [Next]_vars
        BY DEF Next, Pass
      <4>2. ~HandleAttach(c)
        BY DEF HandleAttach, Taking, PushFrames
      <4> QED
        BY <2>12, <4>1, <4>2, ConnectedBefore
    <3>3. Final(c) \in Peer
      BY FinalType
    <3>4. CASE line
      <4>1. mux'.srv[c].last = screen
        BY <2>1, <2>10, <3>1, <3>4 DEF Srv
      <4>2. Frame(s, screen) \in Message
        BY <1>3, <2>1, FrameType DEF Message
      <4>3. Final(c)' = Received(Final(c), Frame(s, screen))
        BY <2>6, <3>4, <4>2, FinalSends
      <4>4. ~s.needsFull => Truth(s.last, Final(c).view)
        BY <2>9, <3>2
      <4> DEFINE p == Final(c)
      <4> HIDE DEF p
      <4>5. p \in Peer /\ (~s.needsFull => Truth(s.last, p.view))
        BY <3>3, <4>4 DEF p
      <4>6. Truth(screen, Received(p, Frame(s, screen)).view)
        BY <1>3, <2>1, <2>8, <4>5, FrameShows
      <4> QED
        BY <4>1, <4>3, <4>6 DEF p
    <3>5. CASE ~line
      <4>1. mux'.srv[c].last = s.last /\ ~s.needsFull
        BY <2>10, <3>1, <3>5
      <4>2. Final(c)'.view = Final(c).view
        BY <2>6, <3>5, ViewKept
      <4> QED
        BY <2>9, <3>2, <4>1, <4>2
    <3> QED
      BY <3>4, <3>5
  <2> QED
    BY <2>11, <2>12
<1> QED
  BY <1>6, <1>7

LEMMA FrameStep ==
  ASSUME Types, Types', Fits(mux), PlaceInv, NewInv, Wired, FrameInv, [Next]_vars
  PROVE  FrameInv'
<1>1. CASE PushFrames
  BY <1>1, FrameOfPush
<1>2. CASE Exit /\ ~PushFrames
  <2> SUFFICES ASSUME NEW c \in Clients PROVE ~mux'.srv[c].needsFull /\ ~Connected(c)'
    BY DEF FrameInv
  <2>1. mux'.att = <<>> /\ mux'.srv[c] = Detached
    BY <1>2 DEF Exit, Types, Muxes
  <2> QED
    BY <2>1 DEF Detached, Connected, Attached, ToSet
<1>3. CASE Redrawn(mux, mux') /\ ~PushFrames
  BY <1>3, FrameKept
<1> QED
  BY <1>1, <1>2, <1>3, RedrawnStep

(* What the server believes a client shows is what the client will show once  *)
(* it has applied every frame on its way, whichever frames were dropped for   *)
(* want of room (push_frames, run_attached).                                  *)
THEOREM BaselinesHold == Spec => []BaselineHeld
<1> DEFINE Inv == Types /\ WiredInv /\ PlaceInv /\ ScreenInv /\ NewInv /\ FrameInv
<1>1. Init => Inv
  BY TypesInit, WiredInit, PlaceInit, ScreenInit, NewInit, FrameInit
<1>2. Inv /\ [Next]_vars => Inv'
  <2> SUFFICES ASSUME Inv, [Next]_vars PROVE Inv'
    OBVIOUS
  <2>1. Types'
    BY TypesStep
  <2>2. WiredInv' /\ PlaceInv' /\ ScreenInv'
    BY <2>1, WiredStep, PlaceStep, ScreenStep
  <2>3. Fits(mux) /\ Wired
    BY DEF ScreenInv, WiredInv
  <2>4. NewInv'
    BY <2>3, NewStep
  <2>5. FrameInv'
    BY <2>1, <2>3, FrameStep
  <2> QED
    BY <2>1, <2>2, <2>4, <2>5
<1>3. Inv => BaselineHeld
  <2> SUFFICES ASSUME FrameInv PROVE BaselineHeld
    OBVIOUS
  <2>1. \A c \in Clients : Connected(c) /\ ~mux.srv[c].needsFull =>
           /\ Len(Final(c).view) = Len(mux.srv[c].last)
           /\ \A i \in DOMAIN mux.srv[c].last : mux.srv[c].last[i] \in {Unknown, Final(c).view[i]}
    BY DEF FrameInv, Truth
  <2> QED
    BY <2>1 DEF BaselineHeld, Final
<1> QED
  BY <1>1, <1>2, <1>3, PTL DEF Spec

--------------------------------------------------------------------------------
(* What a client asked                                                        *)

Asked(msg) == msg.t \in {"command", "kill", "ping"}

(* A message that is answered, and a command that is not answered "busy" or a *)
(* ping runs.                                                                 *)
Handles(c, msg) ==
  \E code \in Codes :
    /\ handled' = [handled EXCEPT ![c] = Append(handled[c], [id |-> msg.n, code |-> code])]
    /\ mux' = [mux EXCEPT !.srv = [mux.srv EXCEPT ![c] =
                 QueueReply(mux.srv[c], [t |-> "reply", id |-> msg.n, code |-> code])]]
    /\ executed' = executed \/ (code # "busy" /\ executed' = executed \cup {<<c, msg.n>>})

LEMMA HandledBy ==
  ASSUME Types, NEW c \in Clients, HandleIncoming(c)
  PROVE  \/ handled' = handled /\ executed' = executed
            /\ ~HandleCommand(c) /\ ~HandleKillServer(c) /\ ~HandlePing(c)
         \/ /\ Asked(Head(conn[c].inbox)) /\ c \in Attached /\ conn' = Taken(c)
            /\ Handles(c, Head(conn[c].inbox)) /\ UNCHANGED <<peer, panes>>
<1> DEFINE msg == Head(conn[c].inbox)
<1>1. CASE HandleCommand(c) \/ HandleKillServer(c) \/ HandlePing(c)
  <2>1. \E code \in Codes : /\ Answered(c, msg.n, code)
                            /\ executed' = executed \/ (code # "busy" /\ executed' = executed \cup {<<c, msg.n>>})
    <3>1. CASE HandleCommand(c)
      BY <3>1 DEF HandleCommand, Codes
    <3>2. CASE HandleKillServer(c)
      BY <3>2 DEF HandleKillServer, Codes
    <3>3. CASE HandlePing(c)
      BY <3>3 DEF HandlePing, Codes
    <3> QED
      BY <1>1, <3>1, <3>2, <3>3
  <2>2. Asked(msg) /\ c \in Attached
    BY <1>1 DEF HandleCommand, HandleKillServer, HandlePing, Taking, Asked
  <2> HIDE DEF msg
  <2>3. Handles(c, msg) /\ conn' = Taken(c) /\ UNCHANGED <<peer, panes>>
    BY <2>1 DEF Answered, Handles
  <2> QED
    BY <2>2, <2>3 DEF msg
<1>2. CASE ~(HandleCommand(c) \/ HandleKillServer(c) \/ HandlePing(c))
  BY <1>2 DEF HandleIncoming, HandleAttach, HandleStale, HandleEnv, HandleChord, HandleRedraw, HandleDrag,
     HandleResize, HandleDetach, HandleDisconnect
<1> QED
  BY <1>1, <1>2

LEMMA ReceivedSays ==
  ASSUME NEW p \in Peer, NEW msg \in Message
  PROVE  Received(p, msg).said = p.said
<1>1. CASE msg \in Frames
  BY <1>1 DEF Received, Frames, Peer
<1>2. CASE msg \in Reply
  BY <1>2 DEF Received, Reply, Peer
<1>3. CASE msg \in Copies
  BY <1>3 DEF Received, Copies, Peer
<1>4. CASE msg = Bye
  BY <1>4 DEF Received, Bye, Peer
<1> QED
  BY <1>1, <1>2, <1>3, <1>4 DEF Message

(* Nothing the client asked was handled.                                      *)
Unhandled(c) == handled'[c] = handled[c] /\ \A id \in Nat : <<c, id>> \in executed' <=> <<c, id>> \in executed

(* One more message of the client.                                            *)
Adds(c) ==
  \E msg \in Request :
    /\ conn'[c].inbox = Append(conn[c].inbox, msg) /\ msg.t # "attach"
    /\ \/ peer'[c].said = peer[c].said + 1 /\ (Asked(msg) => msg.n = peer'[c].said)
       \/ peer'[c].said = peer[c].said /\ ~Asked(msg)

LEMMA InboxStep ==
  ASSUME Types, PlaceInv, [Next]_vars, NEW c \in Clients
  PROVE  \/ HandleIncoming(c)
         \/ Unhandled(c) /\ \/ conn'[c].inbox \in {conn[c].inbox, <<>>} /\ peer'[c].said = peer[c].said
                            \/ PeerAttaches(c) /\ peer'[c].said = peer[c].said
                            \/ Adds(c)
<1>1. conn \in [Clients -> Conn] /\ conn[c] \in Conn /\ peer \in [Clients -> Peer] /\ peer[c] \in Peer
      /\ handled \in [Clients -> Seq(Answer)]
  BY DEF Types
<1> DEFINE same == conn'[c].inbox = conn[c].inbox /\ peer'[c].said = peer[c].said
<1>2. ASSUME NEW d \in Clients, HandleIncoming(d), c # d
      PROVE  Unhandled(c) /\ same
  <2>1. same
    BY <1>2, ConnOfHandlers
  <2>2. Unhandled(c)
    <3>1. CASE handled' = handled /\ executed' = executed
      BY <3>1 DEF Unhandled
    <3>2. CASE Handles(d, Head(conn[d].inbox))
      <4>1. /\ handled' = [handled EXCEPT ![d] = handled'[d]]
            /\ executed' = executed \/ executed' = executed \cup {<<d, Head(conn[d].inbox).n>>}
        BY <1>1, <3>2 DEF Handles
      <4> QED
        BY <1>1, <1>2, <4>1 DEF Unhandled
    <3> QED
      BY <1>2, <3>1, <3>2, HandledBy
  <2> QED
    BY <2>1, <2>2
<1>3. CASE Settle \/ (\E p \in Panes : TakeClipboard(p)) \/ RelayClipboard \/ ExpireSilentClients \/ SendReply
         \/ EndReplies \/ SendCopies \/ SkipFrame \/ PushFrames \/ FlushBeforeShutdown \/ SendBye \/ EndByes
         \/ LastShellExits \/ DeadlinePasses \/ PaneDraws \/ PaneWakes
         \/ \E p \in Panes : PaneStamps(p) \/ PaneStores(p)
  <2>1. same
    BY <1>3, ConnOfLoop
  <2>2. handled' = handled /\ executed' = executed
    BY <1>3, Zenon DEF Settle, TakeClipboard, RelayClipboard, ExpireSilentClients, SendReply, EndReplies, SendCopies,
       SkipFrame, PushFrames, FlushBeforeShutdown, SendBye, EndByes, LastShellExits, DeadlinePasses, PaneDraws,
       PaneWakes, PaneStamps, PaneStores
  <2> QED
    BY <2>1, <2>2 DEF Unhandled
<1>4. CASE Exit
  <2>1. peer' = peer /\ handled' = handled /\ executed' = executed
    BY <1>4 DEF Exit
  <2>2. conn'[c].inbox \in {conn[c].inbox, <<>>}
    BY <1>1, <1>4 DEF Exit, Conn
  <2> QED
    BY <2>1, <2>2 DEF Unhandled
<1>5. ASSUME NEW d \in Clients, Writer(d)
      PROVE  Unhandled(c) /\ same
  <2>1. peer' = peer /\ handled' = handled /\ executed' = executed
    BY <1>5 DEF Writer, WriterSends, WriterBlocks, WriterResumes, WriterEnds
  <2>2. conn'[c].inbox = conn[c].inbox
    <3>1. CASE WriterBlocks(d)
      BY <1>1, <3>1 DEF WriterBlocks, Conn
    <3>2. CASE WriterEnds(d)
      <4>1. conn' = [conn EXCEPT ![d] = [conn[d] EXCEPT !.writer = "ended", !.held = <<>>, !.chan = <<>>]]
        BY <3>2 DEF WriterEnds
      <4> QED
        BY <1>1, <4>1 DEF Conn
    <3>3. CASE WriterSends(d)
      <4>1. Written(d, conn[d].chan)
        BY <3>3 DEF WriterSends
      <4> QED
        BY <1>1, <4>1 DEF Written, Conn
    <3>4. CASE WriterResumes(d)
      <4>1. Written(d, conn[d].held)
        BY <3>4 DEF WriterResumes
      <4> QED
        BY <1>1, <4>1 DEF Written, Conn
    <3> QED
      BY <1>5, <3>1, <3>2, <3>3, <3>4 DEF Writer
  <2> QED
    BY <2>1, <2>2 DEF Unhandled
<1>6. ASSUME NEW d \in Clients,
              \/ ReaderEnds(d) \/ ResyncDue(d) \/ PeerAttaches(d) \/ PeerSays(d) \/ PeerReads(d)
              \/ PeerSeesEof(d) \/ PeerDies(d) \/ PeerHangs(d) \/ PeerResumes(d) \/ LinkBreaks(d)
      PROVE  Unhandled(c) /\ (same \/ (PeerAttaches(c) /\ peer'[c].said = peer[c].said) \/ Adds(c))
  <2>1. handled' = handled /\ executed' = executed
    BY <1>6 DEF ReaderEnds, ResyncDue, PeerAttaches, PeerSays, PeerReads, PeerSeesEof, PeerDies, PeerHangs,
       PeerResumes, PeerState, LinkBreaks
  <2>2. Unhandled(c)
    BY <2>1 DEF Unhandled
  <2>3. CASE ResyncDue(d) \/ LinkBreaks(d)
    <3>1. CASE ResyncDue(d)
      BY <2>2, <3>1 DEF ResyncDue
    <3>2. CASE LinkBreaks(d)
      <4>1. conn' = [conn EXCEPT ![d] = [conn[d] EXCEPT !.link = "broken"]] /\ peer' = peer
        BY <3>2 DEF LinkBreaks
      <4>2. conn'[c].inbox = conn[c].inbox
        BY <1>1, <4>1 DEF Conn
      <4> QED
        BY <2>2, <4>1, <4>2
    <3> QED
      BY <2>3, <3>1, <3>2
  <2>4. CASE PeerSeesEof(d) \/ PeerDies(d) \/ PeerHangs(d) \/ PeerResumes(d)
    <3>1. conn' = conn /\ \E state : peer' = [peer EXCEPT ![d] = [peer[d] EXCEPT !.state = state]]
      BY <2>4 DEF PeerSeesEof, PeerDies, PeerHangs, PeerResumes, PeerState
    <3>2. peer'[c].said = peer[c].said
      BY <1>1, <3>1 DEF Peer
    <3> QED
      BY <2>2, <3>1, <3>2
  <2>5. CASE PeerAttaches(d)
    BY <1>1, <2>2, <2>5 DEF PeerAttaches, Peer
  <2>6. CASE PeerReads(d)
    <3>1. conn'[c].inbox = conn[c].inbox
      BY <1>1, <2>6 DEF PeerReads, Conn
    <3>2. conn[d] \in Conn /\ peer[d] \in Peer /\ conn[d].wire # <<>>
          /\ peer' = [peer EXCEPT ![d] = Received(peer[d], Head(conn[d].wire))]
      BY <1>1, <2>6 DEF PeerReads
    <3>3. conn[d].wire \in Seq(Message)
      BY <3>2 DEF Conn
    <3>4. Head(conn[d].wire) \in Message
      BY <3>2, <3>3
    <3>5. peer'[c].said = peer[c].said
      BY <1>1, <3>2, <3>4, ReceivedSays
    <3> QED
      BY <2>2, <3>1, <3>5
  <2>7. CASE ReaderEnds(d)
    <3>1. CASE d = c
      <4> DEFINE msg == [t |-> "disconnect"]
      <4>1. msg \in Request /\ msg.t # "attach" /\ ~Asked(msg)
        BY DEF Request, Asked
      <4>2. peer' = peer /\ conn'[c].inbox = Append(conn[c].inbox, msg)
        BY <1>1, <2>7, <3>1 DEF ReaderEnds, Conn
      <4> QED
        BY <2>2, <4>1, <4>2 DEF Adds
    <3>2. CASE d # c
      BY <1>1, <2>2, <2>7, <3>2 DEF ReaderEnds
    <3> QED
      BY <3>1, <3>2
  <2>8. CASE PeerSays(d)
    <3>1. CASE d # c
      BY <1>1, <2>2, <2>8, <3>1 DEF PeerSays
    <3>2. CASE d = c
      <4>1. PeerSays(c)
        BY <2>8, <3>2
      <4>2. PICK kind \in Says[c], rows \in 1 .. Tall :
              /\ peer' = [peer EXCEPT ![c].said = peer[c].said + 1, ![c].rows = rows,
                   ![c].asked = IF kind \in {"command", "kill", "ping"} THEN peer[c].asked \cup {peer[c].said + 1}
                                ELSE peer[c].asked]
              /\ conn' = [conn EXCEPT ![c] = [conn[c] EXCEPT !.inbox =
                     Append(conn[c].inbox, [t |-> kind, n |-> IF kind = "resize" THEN rows ELSE peer[c].said + 1])]]
        BY <4>1 DEF PeerSays
      <4> DEFINE msg == [t |-> kind, n |-> IF kind = "resize" THEN rows ELSE peer[c].said + 1]
      <4>3. kind \in Kinds /\ Tall \in Nat
        BY ServerAssumption
      <4>4. peer[c].said \in Nat
        BY <1>1 DEF Peer
      <4>5. msg \in Request /\ msg.t # "attach" /\ (Asked(msg) => msg.n = peer[c].said + 1)
        BY <4>3, <4>4 DEF Request, Kinds, Asked
      <4>6. conn'[c].inbox = Append(conn[c].inbox, msg)
        BY <1>1, <4>2 DEF Conn
      <4>7. peer'[c].said = peer[c].said + 1
        BY <1>1, <4>2 DEF Peer
      <4> HIDE DEF msg
      <4> QED
        BY <2>2, <4>5, <4>6, <4>7 DEF Adds
    <3> QED
      BY <3>1, <3>2
  <2> QED
    BY <1>6, <2>3, <2>4, <2>5, <2>6, <2>7, <2>8
<1>7. CASE UNCHANGED vars
  BY <1>7 DEF vars, Unhandled
<1> QED
  BY <1>2, <1>3, <1>4, <1>5, <1>6, <1>7 DEF Next, Pass

(* The loop says nothing to whom it does not serve.                           *)
LEMMA SilentStep ==
  ASSUME Types, Wired, PlaceInv, [Next]_vars, NEW c \in Clients, c \notin Attached
  PROVE  Still(c) \/ Reads(c) \/ Drops(c)
<1>1. ASSUME NEW d \in Clients, HandleIncoming(d)
      PROVE  Still(c)
  <2>1. peer' = peer /\ Apart(c) /\ Unspoken(c)
    BY <1>1, ConnOfHandlers DEF LetGo
  <2> QED
    BY <2>1, LineStill DEF Apart, Unspoken
<1>2. CASE Settle \/ (\E p \in Panes : TakeClipboard(p)) \/ RelayClipboard \/ ExpireSilentClients \/ SendReply
         \/ EndReplies \/ SendCopies \/ SkipFrame \/ PushFrames \/ FlushBeforeShutdown \/ SendBye \/ EndByes
         \/ LastShellExits \/ DeadlinePasses \/ PaneDraws \/ PaneWakes
         \/ \E p \in Panes : PaneStamps(p) \/ PaneStores(p)
  <2>1. peer' = peer /\ Apart(c) /\ Unspoken(c)
    BY <1>2, ConnOfLoop DEF LetGo, Speaks
  <2> QED
    BY <2>1, LineStill DEF Apart, Unspoken
<1>3. CASE Exit
  BY <1>3, LineOfExit
<1>4. ASSUME NEW d \in Clients, Writer(d)
      PROVE  Still(c) \/ Drops(c)
  BY <1>4, LineOfWriters
<1>5. ASSUME NEW d \in Clients,
              \/ ReaderEnds(d) \/ ResyncDue(d) \/ PeerAttaches(d) \/ PeerSays(d) \/ PeerReads(d)
              \/ PeerSeesEof(d) \/ PeerDies(d) \/ PeerHangs(d) \/ PeerResumes(d) \/ LinkBreaks(d)
      PROVE  Still(c) \/ Reads(c)
  BY <1>5, LineOfClients
<1>6. CASE UNCHANGED vars
  <2>1. conn' = conn /\ peer' = peer
    BY <1>6 DEF vars
  <2> QED
    BY <2>1, LineStill
<1> QED
  BY <1>1, <1>2, <1>3, <1>4, <1>5, <1>6 DEF Next, Pass

LEMMA EmptyLine ==
  ASSUME NEW k \in Conn
  PROVE  Line(k) = <<>> <=> k.wire = <<>> /\ k.held = <<>> /\ k.chan = <<>>
<1>1. k.wire \in Seq(Message) /\ k.held \in Seq(Message) /\ k.chan \in Seq(Message)
  BY LineType
<1> DEFINE a == k.wire
           b == k.held
           d == k.chan
<1>2. Line(k) = (a \o b) \o d
  BY DEF Line
<1> HIDE DEF a, b, d
<1>3. a \in Seq(Message) /\ b \in Seq(Message) /\ d \in Seq(Message)
  BY <1>1 DEF a, b, d
<1>4. a \o b \in Seq(Message) /\ Len(a \o b) = Len(a) + Len(b)
  BY <1>3
<1>5. (a \o b) \o d \in Seq(Message) /\ Len((a \o b) \o d) = Len(a) + Len(b) + Len(d)
  BY <1>3, <1>4
<1>6. \A s \in Seq(Message) : s = <<>> <=> Len(s) = 0
  BY EmptySeq
<1>7. Len(a) \in Nat /\ Len(b) \in Nat /\ Len(d) \in Nat
  BY <1>3
<1>8. (a \o b) \o d = <<>> <=> Len(a) = 0 /\ Len(b) = 0 /\ Len(d) = 0
  BY <1>5, <1>6, <1>7
<1> QED
  BY <1>2, <1>3, <1>6, <1>8 DEF a, b, d

(* A client attaches with its first message, and before the loop has taken    *)
(* that one nothing was answered or sent and the writer waits.                *)
First(c) == conn[c].inbox # <<>> /\ Head(conn[c].inbox).t = "attach"

Nothing(c) == c \notin Attached /\ handled[c] = <<>> /\ peer[c].got = <<>> /\ InFlight(c) = <<>>

FirstInv ==
  \A c \in Clients :
    /\ \A i \in DOMAIN conn[c].inbox : conn[c].inbox[i].t = "attach" => i = 1
    /\ peer[c].state = "new" \/ First(c) => Nothing(c)
    /\ First(c) => conn[c].out /\ conn[c].writer = "idle"

LEMMA FirstInit == Init => FirstInv
<1> SUFFICES ASSUME Init, NEW c \in Clients
             PROVE  conn[c].inbox = <<>> /\ Nothing(c)
  BY DEF FirstInv, First
<1>1. /\ mux.att = <<>> /\ handled[c] = <<>> /\ peer[c].got = <<>>
      /\ conn[c].inbox = <<>> /\ conn[c].wire = <<>> /\ conn[c].held = <<>> /\ conn[c].chan = <<>>
  BY DEF Init
<1>2. InFlight(c) = <<>>
  <2>1. conn[c] \in Conn
    BY TypesInit DEF Types
  <2> QED
    BY <1>1, <2>1, EmptyLine DEF InFlight, Line
<1> QED
  BY <1>1, <1>2 DEF Nothing, Attached, ToSet

(* The client's end leaves what the server has for it alone.                  *)
Held(c) ==
  /\ conn'[c].out = conn[c].out /\ conn'[c].writer = conn[c].writer
  /\ conn'[c].held = conn[c].held /\ conn'[c].chan = conn[c].chan

LEMMA HeldByClients ==
  ASSUME Types, NEW c \in Clients, NEW d \in Clients,
         \/ ReaderEnds(d) \/ ResyncDue(d) \/ PeerAttaches(d) \/ PeerSays(d) \/ PeerReads(d)
         \/ PeerSeesEof(d) \/ PeerDies(d) \/ PeerHangs(d) \/ PeerResumes(d) \/ LinkBreaks(d)
  PROVE  Held(c) \/ PeerAttaches(c)
<1>1. conn \in [Clients -> Conn] /\ conn[c] \in Conn
  BY DEF Types
<1>2. CASE d # c
  <2>1. conn'[c] = conn[c]
    BY <1>1, <1>2 DEF ReaderEnds, ResyncDue, PeerAttaches, PeerSays, PeerReads, PeerSeesEof, PeerDies, PeerHangs,
       PeerResumes, PeerState, LinkBreaks
  <2> QED
    BY <2>1 DEF Held
<1>3. CASE d = c
  <2>1. CASE ReaderEnds(c)
    BY <1>1, <2>1 DEF ReaderEnds, Conn, Held
  <2>2. CASE PeerSays(c)
    <3>1. \E q : conn' = [conn EXCEPT ![c] = [conn[c] EXCEPT !.inbox = q]]
      BY <2>2 DEF PeerSays
    <3> QED
      BY <1>1, <3>1 DEF Conn, Held
  <2>3. CASE PeerReads(c) \/ LinkBreaks(c)
    <3>1. conn' = [conn EXCEPT ![c] = [conn[c] EXCEPT !.wire = Tail(conn[c].wire)]]
          \/ conn' = [conn EXCEPT ![c] = [conn[c] EXCEPT !.link = "broken"]]
      BY <2>3 DEF PeerReads, LinkBreaks
    <3> QED
      BY <1>1, <3>1 DEF Conn, Held
  <2>4. CASE ResyncDue(c) \/ PeerSeesEof(c) \/ PeerDies(c) \/ PeerHangs(c) \/ PeerResumes(c)
    BY <2>4 DEF ResyncDue, PeerSeesEof, PeerDies, PeerHangs, PeerResumes, PeerState, Held
  <2> QED
    BY <1>3, <2>1, <2>2, <2>3, <2>4
<1> QED
  BY <1>2, <1>3

LEMMA WaitingStep ==
  ASSUME Types, Wired, PlaceInv, [Next]_vars, NEW c \in Clients, c \notin Attached,
         conn[c].held = <<>>, conn[c].chan = <<>>, conn[c].out, conn[c].writer = "idle"
  PROVE  (conn'[c].out /\ conn'[c].writer = "idle") \/ conn'[c].inbox = <<>>
<1>1. conn \in [Clients -> Conn] /\ conn[c] \in Conn
  BY DEF Types
<1> DEFINE waits == conn'[c].out /\ conn'[c].writer = "idle"
<1>2. ASSUME NEW d \in Clients, HandleIncoming(d)
      PROVE  waits
  BY <1>2, ConnOfHandlers DEF Apart, Unspoken, Linked, LetGo
<1>3. CASE Settle \/ (\E p \in Panes : TakeClipboard(p)) \/ RelayClipboard \/ ExpireSilentClients \/ SendReply
         \/ EndReplies \/ SendCopies \/ SkipFrame \/ PushFrames \/ FlushBeforeShutdown \/ SendBye \/ EndByes
         \/ LastShellExits \/ DeadlinePasses \/ PaneDraws \/ PaneWakes
         \/ \E p \in Panes : PaneStamps(p) \/ PaneStores(p)
  BY <1>3, ConnOfLoop DEF Apart, Unspoken, Linked, LetGo, Speaks
<1>4. CASE Exit
  BY <1>1, <1>4 DEF Exit, Conn
<1>5. ASSUME NEW d \in Clients, Writer(d)
      PROVE  waits
  <2>1. d # c
    BY <1>5 DEF Writer, WriterSends, WriterBlocks, WriterResumes, WriterEnds
  <2>2. conn'[c] = conn[c]
    BY <1>1, <1>5, <2>1 DEF Writer, WriterSends, WriterBlocks, WriterResumes, WriterEnds, Written
  <2> QED
    BY <2>2
<1>6. ASSUME NEW d \in Clients,
              \/ ReaderEnds(d) \/ ResyncDue(d) \/ PeerAttaches(d) \/ PeerSays(d) \/ PeerReads(d)
              \/ PeerSeesEof(d) \/ PeerDies(d) \/ PeerHangs(d) \/ PeerResumes(d) \/ LinkBreaks(d)
      PROVE  waits
  <2>1. PeerAttaches(c) => waits
    BY <1>1 DEF PeerAttaches, Conn
  <2> QED
    BY <1>6, <2>1, HeldByClients DEF Held
<1>7. CASE UNCHANGED vars
  BY <1>7 DEF vars
<1> QED
  BY <1>2, <1>3, <1>4, <1>5, <1>6, <1>7 DEF Next, Pass

LEMMA FirstStep ==
  ASSUME Types, Types', Fits(mux), Wired, PlaceInv, NewInv, FirstInv, [Next]_vars
  PROVE  FirstInv'
<1> SUFFICES ASSUME NEW c \in Clients
             PROVE  /\ \A i \in DOMAIN conn'[c].inbox : conn'[c].inbox[i].t = "attach" => i = 1
                    /\ peer'[c].state = "new" \/ First(c)' => Nothing(c)'
                    /\ First(c)' => conn'[c].out /\ conn'[c].writer = "idle"
  BY DEF FirstInv
<1>1. conn[c] \in Conn /\ conn'[c] \in Conn /\ peer[c] \in Peer
  BY DEF Types
<1>2. conn[c].inbox \in Seq(Request)
  BY <1>1 DEF Conn
<1>3. \A i \in DOMAIN conn[c].inbox : conn[c].inbox[i].t = "attach" => i = 1
  BY DEF FirstInv
<1> DEFINE q == conn[c].inbox
           r == conn'[c].inbox
<1>4. ASSUME HandleIncoming(c)
      PROVE  q # <<>> /\ r = Tail(q) /\ \A i \in DOMAIN r : r[i].t # "attach"
  <2>1. q # <<>> /\ r = Tail(q)
    BY <1>4, ConnOfHandlers
  <2> HIDE DEF q, r
  <2>2. q \in Seq(Request) /\ \A i \in DOMAIN q : q[i].t = "attach" => i = 1
    BY <1>2, <1>3 DEF q
  <2>3. /\ r \in Seq(Request) /\ Len(r) = Len(q) - 1 /\ Len(q) \in Nat \ {0}
        /\ \A i \in 1 .. Len(r) : r[i] = q[i + 1]
    BY <2>1, <2>2
  <2>4. \A i \in 1 .. Len(r) : i + 1 \in DOMAIN q /\ i + 1 # 1
    BY <2>2, <2>3
  <2> QED
    BY <2>1, <2>2, <2>3, <2>4
<1>5. ASSUME NEW msg \in Request, r = Append(q, msg), msg.t # "attach"
      PROVE  /\ \A i \in DOMAIN r : r[i].t = "attach" => i = 1
             /\ r # <<>> /\ Head(r).t = "attach" => q # <<>> /\ Head(q).t = "attach"
  <2> HIDE DEF q, r
  <2>1. q \in Seq(Request) /\ \A i \in DOMAIN q : q[i].t = "attach" => i = 1
    BY <1>2, <1>3 DEF q
  <2>2. /\ r \in Seq(Request) /\ Len(r) = Len(q) + 1 /\ r[Len(q) + 1] = msg
        /\ \A i \in 1 .. Len(q) : r[i] = q[i]
    BY <1>5, <2>1
  <2>3. Len(q) \in Nat /\ DOMAIN r = 1 .. Len(q) + 1 /\ DOMAIN q = 1 .. Len(q)
    BY <2>1, <2>2
  <2>4. \A i \in DOMAIN r : r[i].t = "attach" => i = 1
    BY <1>5, <2>1, <2>2, <2>3
  <2>5. Head(r) = r[1]
    BY <2>2
  <2>6. CASE q = <<>>
    <3>1. Len(q) = 0
      BY <2>6
    <3> QED
      BY <1>5, <2>2, <2>4, <2>5, <3>1
  <2>7. CASE q # <<>>
    <3>1. Len(q) >= 1 /\ Head(q) = q[1]
      BY <2>1, <2>3, <2>7, EmptySeq
    <3> QED
      BY <2>2, <2>3, <2>4, <2>5, <2>7, <3>1
  <2> QED
    BY <2>6, <2>7
<1>6. PeerAttaches(c) => peer[c].state = "new" /\ r = <<[t |-> "attach"]>> /\ conn'[c].out /\ conn'[c].writer = "idle"
                         /\ peer'[c].state # "new"
  BY <1>1 DEF PeerAttaches, Types, Conn, Peer
<1>7. \/ HandleIncoming(c)
      \/ Unhandled(c) /\ \/ r \in {q, <<>>} \/ PeerAttaches(c)
                         \/ \E msg \in Request : r = Append(q, msg) /\ msg.t # "attach"
  BY InboxStep DEF Adds
<1>8. \A i \in DOMAIN r : r[i].t = "attach" => i = 1
  <2>1. CASE r = <<>>
    BY <2>1
  <2>2. CASE r = q
    BY <1>3, <2>2
  <2>3. CASE r = <<[t |-> "attach"]>>
    BY <2>3
  <2> HIDE DEF q, r
  <2> QED
    BY <1>4, <1>5, <1>6, <1>7, <2>1, <2>2, <2>3
<1>9. ASSUME peer'[c].state = "new" \/ First(c)'
      PROVE  /\ peer[c].state = "new" \/ First(c)
             /\ ~HandleIncoming(c) /\ Unhandled(c)
             /\ First(c)' => First(c) \/ PeerAttaches(c)
  <2>1. peer'[c].state = "new" => peer[c].state = "new"
    BY <1>6, AgesStep DEF Ages
  <2>2. ~HandleIncoming(c)
    <3> SUFFICES ASSUME HandleIncoming(c) PROVE FALSE
      OBVIOUS
    <3>1. q # <<>> /\ r = Tail(q) /\ \A i \in DOMAIN r : r[i].t # "attach"
      BY <1>4
    <3>2. peer[c].state # "new"
      BY <3>1 DEF NewInv
    <3>3. First(c)'
      BY <1>9, <2>1, <3>2
    <3>4. r # <<>> /\ Head(r).t = "attach"
      BY <3>3 DEF First
    <3> HIDE DEF q, r
    <3>5. r \in Seq(Request)
      BY <1>1 DEF r, Conn
    <3>6. 1 \in DOMAIN r /\ Head(r) = r[1]
      BY <3>4, <3>5, EmptySeq
    <3> QED
      BY <3>1, <3>4, <3>6
  <2>3. First(c)' => First(c) \/ PeerAttaches(c)
    <3> SUFFICES ASSUME r # <<>>, Head(r).t = "attach", ~PeerAttaches(c)
                 PROVE  q # <<>> /\ Head(q).t = "attach"
      BY DEF First
    <3> HIDE DEF q, r
    <3> QED
      BY <1>5, <1>7, <2>2
  <2> QED
    BY <1>6, <1>7, <1>9, <2>1, <2>2, <2>3
<1>10. ASSUME peer'[c].state = "new" \/ First(c)'
       PROVE  Nothing(c)'
  <2>1. Nothing(c) /\ Unhandled(c) /\ ~HandleIncoming(c)
    BY <1>9, <1>10 DEF FirstInv
  <2>2. c \notin Attached'
    BY <2>1, AttachedStep DEF Nothing, HandleIncoming
  <2>3. handled'[c] = <<>>
    BY <2>1 DEF Unhandled, Nothing
  <2>4. Still(c) \/ Drops(c)
    BY <2>1, SilentStep DEF Nothing, Reads
  <2>5. peer'[c].got = <<>>
    BY <2>1, <2>4 DEF Still, Drops, Nothing
  <2>6. InFlight(c)' = <<>>
    <3>1. CASE Still(c)
      BY <2>1, <3>1 DEF Still, Nothing
    <3>2. CASE Drops(c)
      <4>1. Line(conn[c]) = <<>>
        BY <2>1 DEF Nothing, InFlight, Line
      <4>2. conn'[c].wire = <<>> /\ conn'[c].held = <<>> /\ conn'[c].chan = <<>>
        BY <1>1, <3>2, <4>1, EmptyLine DEF Drops
      <4>3. Line(conn'[c]) = <<>>
        BY <1>1, <4>2, EmptyLine
      <4> QED
        BY <4>3 DEF InFlight, Line
    <3> QED
      BY <2>4, <3>1, <3>2
  <2> QED
    BY <2>2, <2>3, <2>5, <2>6 DEF Nothing
<1>11. ASSUME First(c)'
       PROVE  conn'[c].out /\ conn'[c].writer = "idle"
  <2>1. CASE PeerAttaches(c)
    BY <1>6, <2>1
  <2>2. CASE ~PeerAttaches(c)
    <3>1. First(c)
      BY <1>9, <1>11, <2>2
    <3>2. Nothing(c) /\ conn[c].out /\ conn[c].writer = "idle"
      BY <3>1 DEF FirstInv
    <3>3. conn[c].held = <<>> /\ conn[c].chan = <<>>
      BY <1>1, <3>2, EmptyLine DEF Nothing, InFlight, Line
    <3>4. conn'[c].inbox # <<>>
      BY <1>11 DEF First
    <3> QED
      BY <3>2, <3>3, <3>4, WaitingStep DEF Nothing
  <2> QED
    BY <2>1, <2>2
<1> QED
  BY <1>8, <1>10, <1>11

(* What a queue is after its first message was taken, and with one more.      *)
LEMMA TailIs ==
  ASSUME NEW S, NEW q \in Seq(S), q # <<>>
  PROVE  /\ Tail(q) \in Seq(S) /\ 1 \in DOMAIN q /\ Head(q) = q[1] /\ q[1] \in S
         /\ \A i \in DOMAIN Tail(q) : i \in Nat /\ i + 1 \in DOMAIN q /\ 1 < i + 1 /\ Tail(q)[i] = q[i + 1]
<1>1. Len(q) \in Nat \ {0} /\ DOMAIN q = 1 .. Len(q) /\ Head(q) = q[1]
  BY EmptySeq
<1>2. /\ Tail(q) \in Seq(S) /\ Len(Tail(q)) = Len(q) - 1
      /\ \A i \in 1 .. Len(Tail(q)) : Tail(q)[i] = q[i + 1]
  BY HeadTailProperties
<1>3. DOMAIN Tail(q) = 1 .. Len(q) - 1
  BY <1>2
<1>4. \A i \in 1 .. Len(q) - 1 : i \in Nat /\ i + 1 \in 1 .. Len(q) /\ 1 < i + 1
  BY <1>1
<1>5. 1 \in 1 .. Len(q) /\ q[1] \in S
  BY <1>1
<1> QED
  BY <1>1, <1>2, <1>3, <1>4, <1>5

LEMMA AppendIs ==
  ASSUME NEW S, NEW q \in Seq(S), NEW x \in S
  PROVE  /\ Append(q, x) \in Seq(S) /\ Len(q) \in Nat
         /\ \A i \in DOMAIN Append(q, x) :
              \/ i \in DOMAIN q /\ Append(q, x)[i] = q[i]
              \/ i = Len(q) + 1 /\ Append(q, x)[i] = x
         /\ \A i \in DOMAIN q : i \in DOMAIN Append(q, x) /\ Append(q, x)[i] = q[i] /\ i < Len(q) + 1
  OBVIOUS

(* What a client asked is numbered in the order it was asked, and what is     *)
(* still to be handled comes after all that was.                              *)
Rising(q) == \A i, j \in DOMAIN q : i < j /\ Asked(q[i]) /\ Asked(q[j]) => q[i].n < q[j].n

Behind(c, answers, ran, v) ==
  /\ \A i \in DOMAIN answers : answers[i].id < v
  /\ \A id \in Nat : <<c, id>> \in ran => id < v

AskInv ==
  \A c \in Clients :
    /\ Rising(conn[c].inbox)
    /\ \A i \in DOMAIN conn[c].inbox : Asked(conn[c].inbox[i]) =>
         conn[c].inbox[i].n <= peer[c].said /\ Behind(c, handled[c], executed, conn[c].inbox[i].n)
    /\ Behind(c, handled[c], executed, peer[c].said + 1)
    /\ BusyNeverRan(c)

LEMMA AskInit == Init => AskInv
  BY DEF Init, AskInv, Rising, Behind, BusyNeverRan

LEMMA AskedType ==
  ASSUME NEW msg \in Request, Asked(msg)
  PROVE  msg.n \in Nat
  BY DEF Request, Asked

(* Handling the next one leaves all it asked later behind.                    *)
LEMMA BehindNext ==
  ASSUME Types, NEW c \in Clients, NEW msg \in Request, Asked(msg), Handles(c, msg), Behind(c, handled[c], executed, msg.n),
         BusyNeverRan(c)
  PROVE  /\ BusyNeverRan(c)'
         /\ \A v \in Nat : msg.n < v => Behind(c, handled'[c], executed', v)
<1>1. handled \in [Clients -> Seq(Answer)] /\ msg.n \in Nat /\ handled[c] \in Seq(Answer)
  BY AskedType DEF Types
<1>2. PICK code \in Codes :
        /\ handled' = [handled EXCEPT ![c] = Append(handled[c], [id |-> msg.n, code |-> code])]
        /\ executed' = executed \/ (code # "busy" /\ executed' = executed \cup {<<c, msg.n>>})
  BY DEF Handles
<1> DEFINE h == handled[c]
           answer == [id |-> msg.n, code |-> code]
           k == handled'[c]
<1>3. answer \in Answer /\ answer.id = msg.n /\ answer.code = code
  BY <1>1 DEF Answer
<1>4. h \in Seq(Answer) /\ k = Append(h, answer)
  BY <1>1, <1>2
<1> HIDE DEF h, k, answer
<1>5. \A i \in DOMAIN k : (i \in DOMAIN h /\ k[i] = h[i]) \/ k[i] = answer
  BY <1>3, <1>4, AppendIs
<1>6. \A i \in DOMAIN h : h[i].id \in Nat /\ h[i].id < msg.n
  <2>1. \A i \in DOMAIN h : h[i] \in Answer
    BY <1>4
  <2> QED
    BY <2>1 DEF Behind, Answer, h
<1>7. \A id \in Nat : <<c, id>> \in executed => id < msg.n
  BY DEF Behind
<1>8. \A id \in Nat : <<c, id>> \in executed' => <<c, id>> \in executed \/ (id = msg.n /\ code # "busy")
  BY <1>2
<1>9. ASSUME NEW v \in Nat, msg.n < v
      PROVE  Behind(c, handled'[c], executed', v)
  <2>1. \A i \in DOMAIN k : k[i].id < v
    BY <1>1, <1>3, <1>5, <1>6, <1>9
  <2>2. \A id \in Nat : <<c, id>> \in executed' => id < v
    BY <1>1, <1>7, <1>8, <1>9
  <2> QED
    BY <2>1, <2>2 DEF Behind, k
<1>10. BusyNeverRan(c)'
  <2> SUFFICES ASSUME NEW i \in DOMAIN k, k[i].code = "busy"
               PROVE  <<c, k[i].id>> \notin executed'
    BY DEF BusyNeverRan, k
  <2>1. CASE k[i] = answer
    <3>1. <<c, msg.n>> \notin executed
      BY <1>1, <1>7
    <3> QED
      BY <1>1, <1>3, <1>8, <2>1, <3>1
  <2>2. CASE i \in DOMAIN h /\ k[i] = h[i]
    <3>1. <<c, h[i].id>> \notin executed
      BY <2>2 DEF BusyNeverRan, h
    <3> QED
      BY <1>1, <1>6, <1>8, <2>2, <3>1
  <2> QED
    BY <1>5, <2>1, <2>2
<1> QED
  BY <1>9, <1>10

LEMMA BehindKept ==
  ASSUME NEW c, Unhandled(c), NEW v, Behind(c, handled[c], executed, v)
  PROVE  Behind(c, handled'[c], executed', v)
  BY DEF Unhandled, Behind

LEMMA BusyKept ==
  ASSUME Types, NEW c \in Clients, Unhandled(c), BusyNeverRan(c)
  PROVE  BusyNeverRan(c)'
<1>1. \A i \in DOMAIN handled[c] : handled[c][i].id \in Nat
  <2>1. handled[c] \in Seq(Answer)
    BY DEF Types
  <2>2. \A i \in DOMAIN handled[c] : handled[c][i] \in Answer
    BY <2>1
  <2> QED
    BY <2>2 DEF Answer
<1> QED
  BY <1>1 DEF Unhandled, BusyNeverRan

LEMMA AskStep ==
  ASSUME Types, Types', Wired, PlaceInv, AskInv, [Next]_vars
  PROVE  AskInv'
<1> SUFFICES ASSUME NEW c \in Clients
             PROVE  /\ Rising(conn'[c].inbox)
                    /\ \A i \in DOMAIN conn'[c].inbox : Asked(conn'[c].inbox[i]) =>
                         /\ conn'[c].inbox[i].n <= peer'[c].said
                         /\ Behind(c, handled'[c], executed', conn'[c].inbox[i].n)
                    /\ Behind(c, handled'[c], executed', peer'[c].said + 1)
                    /\ BusyNeverRan(c)'
  BY DEF AskInv
<1> DEFINE q == conn[c].inbox
           r == conn'[c].inbox
           said == peer[c].said
           later == peer'[c].said
           Was(v) == Behind(c, handled[c], executed, v)
           Is(v) == Behind(c, handled'[c], executed', v)
<1>1. q \in Seq(Request) /\ r \in Seq(Request) /\ said \in Nat /\ later \in Nat
  BY DEF Types, Conn, Peer
<1>2. /\ Rising(q) /\ Was(said + 1) /\ BusyNeverRan(c)
      /\ \A i \in DOMAIN q : Asked(q[i]) => q[i].n <= said /\ Was(q[i].n)
  BY DEF AskInv
<1>3. \/ HandleIncoming(c)
      \/ Unhandled(c) /\ \/ r \in {q, <<>>} /\ later = said
                         \/ PeerAttaches(c) /\ later = said
                         \/ \E msg \in Request :
                              /\ r = Append(q, msg)
                              /\ \/ later = said + 1 /\ (Asked(msg) => msg.n = later)
                                 \/ later = said /\ ~Asked(msg)
  BY InboxStep DEF Adds
<1>4. PeerAttaches(c) => r = <<[t |-> "attach"]>>
  BY DEF PeerAttaches, Types, Conn
<1>5. \A i \in DOMAIN q : Asked(q[i]) => q[i].n \in Nat
  BY <1>1, AskedType
<1> SUFFICES Rising(r) /\ Is(later + 1) /\ BusyNeverRan(c)'
             /\ \A i \in DOMAIN r : Asked(r[i]) => r[i].n <= later /\ Is(r[i].n)
  OBVIOUS
<1>6. Unhandled(c) => BusyNeverRan(c)' /\ \A v : Was(v) => Is(v)
  BY <1>2, BehindKept, BusyKept
<1>7. \A v \in Nat, w \in Nat : Was(v) /\ v <= w => Was(w)
  <2>1. \A i \in DOMAIN handled[c] : handled[c][i].id \in Nat
    <3>1. handled[c] \in Seq(Answer)
      BY DEF Types
    <3>2. \A i \in DOMAIN handled[c] : handled[c][i] \in Answer
      BY <3>1
    <3> QED
      BY <3>2 DEF Answer
  <2> QED
    BY <2>1 DEF Behind
<1> HIDE DEF Was, Is
<1>8. CASE HandleIncoming(c)
  <2>1. q # <<>> /\ r = Tail(q) /\ later = said
    BY <1>8, ConnOfHandlers
  <2>2. \/ handled' = handled /\ executed' = executed
        \/ Asked(Head(q)) /\ Handles(c, Head(q))
    BY <1>8, HandledBy
  <2> HIDE DEF q, r, said, later
  <2>3. /\ 1 \in DOMAIN q /\ Head(q) = q[1] /\ q[1] \in Request
        /\ \A i \in DOMAIN r : i \in Nat /\ i + 1 \in DOMAIN q /\ 1 < i + 1 /\ r[i] = q[i + 1]
    BY <1>1, <2>1, TailIs
  <2>4. Rising(r)
    <3> SUFFICES ASSUME NEW i \in DOMAIN r, NEW j \in DOMAIN r, i < j, Asked(r[i]), Asked(r[j])
                 PROVE  r[i].n < r[j].n
      BY DEF Rising
    <3>1. i + 1 \in DOMAIN q /\ j + 1 \in DOMAIN q /\ i + 1 < j + 1 /\ r[i] = q[i + 1] /\ r[j] = q[j + 1]
      BY <2>3
    <3> QED
      BY <1>2, <3>1 DEF Rising
  <2>5. CASE handled' = handled /\ executed' = executed
    <3>1. Unhandled(c)
      BY <2>5 DEF Unhandled
    <3>2. \A i \in DOMAIN r : Asked(r[i]) => r[i].n <= later /\ Was(r[i].n)
      BY <1>2, <2>1, <2>3
    <3> QED
      BY <1>2, <1>6, <2>1, <2>4, <3>1, <3>2
  <2>6. CASE Asked(Head(q)) /\ Handles(c, Head(q))
    <3> DEFINE msg == Head(q)
    <3>1. msg \in Request /\ Asked(msg) /\ Handles(c, msg) /\ Was(msg.n) /\ msg.n \in Nat /\ msg.n <= said
      BY <1>2, <2>3, <2>6, AskedType
    <3> HIDE DEF msg
    <3>2. BusyNeverRan(c)' /\ \A v \in Nat : msg.n < v => Is(v)
      BY <1>2, <3>1, BehindNext DEF Was, Is
    <3>3. Is(later + 1)
      <4>1. said + 1 \in Nat /\ msg.n < said + 1
        BY <1>1, <3>1
      <4> QED
        BY <2>1, <3>2, <4>1
    <3>4. ASSUME NEW i \in DOMAIN r, Asked(r[i])
          PROVE  r[i].n <= later /\ Is(r[i].n)
      <4>1. i + 1 \in DOMAIN q /\ 1 < i + 1 /\ r[i] = q[i + 1] /\ 1 \in DOMAIN q /\ msg = q[1]
        BY <2>3 DEF msg
      <4>2. q[i + 1].n \in Nat /\ q[i + 1].n <= said /\ msg.n < q[i + 1].n
        BY <1>2, <1>5, <3>1, <3>4, <4>1 DEF Rising
      <4> QED
        BY <2>1, <3>2, <4>1, <4>2
    <3> QED
      BY <2>4, <3>2, <3>3, <3>4
  <2> QED
    BY <2>2, <2>5, <2>6
<1>9. ASSUME Unhandled(c), r \in {q, <<>>} /\ later = said
      PROVE  Rising(r) /\ Is(later + 1) /\ BusyNeverRan(c)'
             /\ \A i \in DOMAIN r : Asked(r[i]) => r[i].n <= later /\ Is(r[i].n)
  <2> HIDE DEF q, r, said, later
  <2>1. Rising(<<>>)
    BY DEF Rising
  <2> QED
    BY <1>2, <1>6, <1>9, <2>1
<1>10. ASSUME Unhandled(c), r = <<[t |-> "attach"]>>, later = said
       PROVE  Rising(r) /\ Is(later + 1) /\ BusyNeverRan(c)'
              /\ \A i \in DOMAIN r : Asked(r[i]) => r[i].n <= later /\ Is(r[i].n)
  <2>1. \A i \in DOMAIN r : ~Asked(r[i])
    <3> HIDE DEF q, r, said, later
    <3> QED
      BY <1>10 DEF Asked
  <2> HIDE DEF q, r, said, later
  <2> QED
    BY <1>2, <1>6, <1>10, <2>1 DEF Rising
<1>11. ASSUME Unhandled(c), NEW msg \in Request, r = Append(q, msg),
              (later = said + 1 /\ (Asked(msg) => msg.n = later)) \/ (later = said /\ ~Asked(msg))
       PROVE  Rising(r) /\ Is(later + 1) /\ BusyNeverRan(c)'
              /\ \A i \in DOMAIN r : Asked(r[i]) => r[i].n <= later /\ Is(r[i].n)
  <2> HIDE DEF q, r, said, later
  <2>1. /\ Len(q) \in Nat
        /\ \A i \in DOMAIN r : \/ i \in DOMAIN q /\ r[i] = q[i] /\ i < Len(q) + 1
                               \/ i = Len(q) + 1 /\ r[i] = msg
    BY <1>1, <1>11, AppendIs
  <2>2. Rising(r)
    <3> SUFFICES ASSUME NEW i \in DOMAIN r, NEW j \in DOMAIN r, i < j, Asked(r[i]), Asked(r[j])
                 PROVE  r[i].n < r[j].n
      BY DEF Rising
    <3>1. CASE j \in DOMAIN q /\ r[j] = q[j] /\ j < Len(q) + 1
      <4>1. i \in DOMAIN q /\ r[i] = q[i]
        BY <2>1, <3>1
      <4> QED
        BY <1>2, <3>1, <4>1 DEF Rising
    <3>2. CASE j = Len(q) + 1 /\ r[j] = msg
      <4>1. i \in DOMAIN q /\ r[i] = q[i]
        BY <2>1, <3>2
      <4>2. q[i].n <= said /\ q[i].n \in Nat
        BY <1>2, <1>5, <4>1
      <4> QED
        BY <1>1, <1>11, <3>2, <4>1, <4>2
    <3> QED
      BY <2>1, <3>1, <3>2
  <2>3. said + 1 \in Nat /\ later + 1 \in Nat /\ said + 1 <= later + 1 /\ (later = said + 1 => said + 1 <= later)
        /\ said <= later
    BY <1>1, <1>11
  <2>4. Is(later + 1)
    BY <1>2, <1>6, <1>7, <1>11, <2>3
  <2>5. ASSUME NEW i \in DOMAIN r, Asked(r[i])
        PROVE  r[i].n <= later /\ Is(r[i].n)
    <3>1. CASE i \in DOMAIN q /\ r[i] = q[i]
      <4>1. q[i].n <= said /\ q[i].n \in Nat /\ Was(q[i].n)
        BY <1>2, <1>5, <2>5, <3>1
      <4> QED
        BY <1>1, <1>6, <1>11, <2>3, <3>1, <4>1
    <3>2. CASE r[i] = msg
      <4>1. later = said + 1 /\ msg.n = later
        BY <1>11, <2>5, <3>2
      <4>2. Is(later)
        BY <1>2, <1>6, <1>11, <4>1
      <4> QED
        BY <1>1, <3>2, <4>1, <4>2
    <3> QED
      BY <2>1, <3>1, <3>2
  <2> QED
    BY <1>6, <1>11, <2>2, <2>4, <2>5
<1>12. CASE Unhandled(c) /\ r \in {q, <<>>} /\ later = said
  BY <1>9, <1>12
<1>13. CASE Unhandled(c) /\ PeerAttaches(c) /\ later = said
  BY <1>4, <1>10, <1>13
<1>14. CASE Unhandled(c) /\ \E msg \in Request :
              /\ r = Append(q, msg)
              /\ \/ later = said + 1 /\ (Asked(msg) => msg.n = later)
                 \/ later = said /\ ~Asked(msg)
  <2>1. PICK msg \in Request :
               /\ r = Append(q, msg)
               /\ (later = said + 1 /\ (Asked(msg) => msg.n = later)) \/ (later = said /\ ~Asked(msg))
    BY <1>14
  <2>2. Unhandled(c)
    BY <1>14
  <2> HIDE DEF q, r, said, later
  <2> QED
    BY <1>11, <2>1, <2>2
<1> QED
  BY <1>3, <1>8, <1>12, <1>13, <1>14

--------------------------------------------------------------------------------
(* What is answered and what was handled                                      *)

LEMMA PrefixIs ==
  ASSUME NEW S, NEW s \in Seq(S), NEW t \in Seq(S)
  PROVE  IsPrefix(s, t) <=> Len(s) <= Len(t) /\ \A i \in 1 .. Len(s) : s[i] = t[i]
<1>1. Len(s) \in Nat /\ Len(t) \in Nat /\ 1 \in Nat
  OBVIOUS
<1>2. ASSUME Len(s) <= Len(t)
      PROVE  SubSeq(s, 1, Len(s)) = SubSeq(t, 1, Len(s)) <=> \A i \in 1 .. Len(s) : s[i] = t[i]
  <2>1. \A i \in 1 .. Len(s) : s[i] \in S /\ t[i] \in S
    BY <1>1, <1>2
  <2>2. /\ SubSeq(s, 1, Len(s)) = [i \in 1 .. Len(s) |-> s[i]]
        /\ SubSeq(t, 1, Len(s)) = [i \in 1 .. Len(s) |-> t[i]]
    <3>1. SubSeq(s, 1, Len(s)) = [i \in 1 .. (1 + Len(s) - 1) |-> s[i + 1 - 1]]
          /\ SubSeq(t, 1, Len(s)) = [i \in 1 .. (1 + Len(s) - 1) |-> t[i + 1 - 1]]
      BY <1>1, <1>2, SubSeqProperties
    <3>2. 1 + Len(s) - 1 = Len(s) /\ \A i \in 1 .. Len(s) : i + 1 - 1 = i
      BY <1>1
    <3> QED
      BY <3>1, <3>2
  <2> QED
    BY <2>2
<1> QED
  BY <1>2 DEF IsPrefix

LEMMA PrefixThen ==
  ASSUME NEW S, NEW s \in Seq(S), NEW t \in Seq(S), NEW u \in Seq(S), IsPrefix(s, t), IsPrefix(t, u)
  PROVE  IsPrefix(s, u)
<1>1. /\ Len(s) <= Len(t) /\ \A i \in 1 .. Len(s) : s[i] = t[i]
      /\ Len(t) <= Len(u) /\ \A i \in 1 .. Len(t) : t[i] = u[i]
  BY PrefixIs
<1>2. Len(s) \in Nat /\ Len(t) \in Nat /\ Len(u) \in Nat
  OBVIOUS
<1>3. Len(s) <= Len(u) /\ \A i \in 1 .. Len(s) : i \in 1 .. Len(t)
  BY <1>1, <1>2
<1>4. Len(s) <= Len(u) /\ \A i \in 1 .. Len(s) : s[i] = u[i]
  BY <1>1, <1>3
<1> QED
  BY <1>4, PrefixIs

LEMMA PrefixOfAll ==
  ASSUME NEW S, NEW s \in Seq(S), NEW t \in Seq(S)
  PROVE  IsPrefix(s, s) /\ IsPrefix(s, s \o t)
<1>1. IsPrefix(s, s)
  BY DEF IsPrefix
<1>2. s \o t \in Seq(S) /\ Len(s \o t) = Len(s) + Len(t) /\ Len(s) \in Nat /\ Len(t) \in Nat
  OBVIOUS
<1>3. Len(s) <= Len(s \o t)
  BY <1>2
<1>4. \A i \in 1 .. Len(s) : s[i] = (s \o t)[i]
  OBVIOUS
<1> QED
  BY <1>1, <1>2, <1>3, <1>4, PrefixIs

LEMMA PrefixAppended ==
  ASSUME NEW S, NEW s \in Seq(S), NEW t \in Seq(S), NEW x \in S, IsPrefix(s, t)
  PROVE  IsPrefix(s, Append(t, x))
<1>1. Append(t, x) \in Seq(S) /\ Len(Append(t, x)) = Len(t) + 1 /\ Len(s) \in Nat /\ Len(t) \in Nat
      /\ \A i \in 1 .. Len(t) : Append(t, x)[i] = t[i]
  OBVIOUS
<1>2. Len(t) <= Len(Append(t, x))
  BY <1>1
<1>3. IsPrefix(t, Append(t, x))
  BY <1>1, <1>2, PrefixIs
<1> QED
  BY <1>1, <1>3, PrefixThen

LEMMA Lengthened ==
  ASSUME NEW S, NEW s \in Seq(S), NEW x \in S
  PROVE  Append(s, x) # <<>>
<1>1. Len(Append(s, x)) = Len(s) + 1 /\ Len(s) \in Nat
  OBVIOUS
<1>2. Len(<<>>) = 0
  OBVIOUS
<1> QED
  BY <1>1, <1>2

LEMMA ConcatAppend ==
  ASSUME NEW S, NEW s \in Seq(S), NEW t \in Seq(S), NEW x \in S
  PROVE  s \o Append(t, x) = Append(s \o t, x)
<1>1. <<x>> \in Seq(S) /\ s \o t \in Seq(S)
  OBVIOUS
<1>2. Append(t, x) = t \o <<x>> /\ Append(s \o t, x) = (s \o t) \o <<x>>
  BY <1>1, AppendIsConcat
<1>3. (s \o t) \o <<x>> = s \o (t \o <<x>>)
  BY <1>1, ConcatAssociative
<1> QED
  BY <1>2, <1>3

(* The first of what was to come has come.                                    *)
LEMMA Shifted ==
  ASSUME NEW S, NEW s \in Seq(S), NEW t \in Seq(S), t # <<>>
  PROVE  Append(s, Head(t)) \in Seq(S) /\ Tail(t) \in Seq(S) /\ Append(s, Head(t)) \o Tail(t) = s \o t
<1> DEFINE h == Head(t)
           r == Tail(t)
           one == <<h>>
<1>1. h \in S /\ r \in Seq(S) /\ Len(r) = Len(t) - 1 /\ Len(t) \in Nat \ {0} /\ h = t[1]
      /\ \A i \in 1 .. Len(r) : r[i] = t[i + 1]
  BY EmptySeq, HeadTailProperties
<1>2. one \in Seq(S) /\ Len(one) = 1 /\ one[1] = h
  BY <1>1
<1> HIDE DEF h, r
<1>3. Append(s, h) \in Seq(S) /\ Append(s, h) = s \o one
  BY <1>1, AppendIsConcat
<1> HIDE DEF one
<1>4. one \in Seq(S) /\ r \in Seq(S) /\ Len(one) = 1
  BY <1>1, <1>2
<1>5. /\ one \o r \in Seq(S) /\ Len(one \o r) = Len(one) + Len(r)
      /\ \A i \in 1 .. Len(one) + Len(r) : (one \o r)[i] = IF i <= Len(one) THEN one[i] ELSE r[i - Len(one)]
  BY <1>4, ConcatProperties
<1>6. /\ one \o r \in Seq(S) /\ Len(one \o r) = 1 + Len(r)
      /\ \A i \in 1 .. 1 + Len(r) : (one \o r)[i] = IF i <= 1 THEN one[i] ELSE r[i - 1]
  BY <1>4, <1>5
<1>7. \A i \in 1 .. Len(t) : (one \o r)[i] = t[i]
  <2> TAKE i \in 1 .. Len(t)
  <2>1. CASE i = 1
    BY <1>1, <1>2, <1>6, <2>1
  <2>2. CASE i # 1
    <3>1. i - 1 \in 1 .. Len(r) /\ (i - 1) + 1 = i
      BY <1>1, <2>2
    <3> QED
      BY <1>1, <1>6, <2>2, <3>1
  <2> QED
    BY <2>1, <2>2
<1>8. one \o r = t
  <2>1. Len(one \o r) = Len(t)
    BY <1>1, <1>6
  <2> QED
    BY <1>6, <1>7, <2>1, SeqEqual
<1>9. (s \o one) \o r = s \o (one \o r)
  <2>1. s \in Seq(S) /\ one \in Seq(S) /\ r \in Seq(S)
    BY <1>4
  <2> QED
    BY <2>1, ConcatAssociative
<1> QED
  BY <1>1, <1>3, <1>8, <1>9 DEF h, r

LEMMA AnswersOf ==
  ASSUME NEW q \in Seq(Reply)
  PROVE  /\ Answers(q) \in Seq(Answer) /\ Len(Answers(q)) = Len(q)
         /\ \A i \in 1 .. Len(q) : Answers(q)[i] = [id |-> q[i].id, code |-> q[i].code]
         /\ q = <<>> => Answers(q) = <<>>
         /\ q # <<>> => /\ Answers(q) # <<>> /\ Answers(Tail(q)) = Tail(Answers(q))
                        /\ Head(Answers(q)) = [id |-> Head(q).id, code |-> Head(q).code]
         /\ \A r \in Reply : Answers(Append(q, r)) = Append(Answers(q), [id |-> r.id, code |-> r.code])
<1> DEFINE One(r) == [id |-> r.id, code |-> r.code]
<1>1. \A r \in Reply : One(r) \in Answer
  BY DEF Reply, Answer
<1> HIDE DEF One
<1>2. ASSUME NEW t \in Seq(Reply)
      PROVE  /\ Answers(t) \in Seq(Answer) /\ Len(Answers(t)) = Len(t)
             /\ \A i \in 1 .. Len(t) : Answers(t)[i] = One(t[i])
  <2>1. Answers(t) = [i \in 1 .. Len(t) |-> One(t[i])]
    BY DEF Answers, One
  <2>2. \A i \in 1 .. Len(t) : One(t[i]) \in Answer
    BY <1>1
  <2>3. Len(t) \in Nat
    OBVIOUS
  <2> QED
    BY <2>1, <2>2, <2>3
<1>3. ASSUME q = <<>> PROVE Answers(q) = <<>>
  BY <1>2, <1>3, EmptySeq
<1>4. ASSUME q # <<>>
      PROVE  Answers(q) # <<>> /\ Answers(Tail(q)) = Tail(Answers(q)) /\ Head(Answers(q)) = One(Head(q))
  <2>1. /\ Tail(q) \in Seq(Reply) /\ Len(Tail(q)) = Len(q) - 1 /\ Len(q) \in Nat \ {0} /\ Head(q) = q[1]
        /\ \A i \in 1 .. Len(Tail(q)) : Tail(q)[i] = q[i + 1]
    BY <1>4, EmptySeq, HeadTailProperties
  <2> DEFINE a == Answers(q)
             b == Answers(Tail(q))
  <2>2. a \in Seq(Answer) /\ Len(a) = Len(q) /\ \A i \in 1 .. Len(q) : a[i] = One(q[i])
    BY <1>2
  <2>3. b \in Seq(Answer) /\ Len(b) = Len(q) - 1 /\ \A i \in 1 .. Len(q) - 1 : b[i] = One(Tail(q)[i])
    BY <1>2, <2>1, Zenon
  <2> HIDE DEF a, b
  <2>4. a # <<>>
    BY <2>1, <2>2
  <2>5. /\ Tail(a) \in Seq(Answer) /\ Len(Tail(a)) = Len(q) - 1
        /\ \A i \in 1 .. Len(q) - 1 : Tail(a)[i] = a[i + 1]
    BY <2>2, <2>4, HeadTailProperties
  <2>6. \A i \in 1 .. Len(q) - 1 : b[i] = Tail(a)[i]
    <3> TAKE i \in 1 .. Len(q) - 1
    <3>1. i + 1 \in 1 .. Len(q) /\ i \in 1 .. Len(Tail(q))
      BY <2>1
    <3> QED
      BY <2>1, <2>2, <2>3, <2>5, <3>1
  <2>7. b = Tail(a)
    BY <2>3, <2>5, <2>6
  <2>8. Head(a) = a[1] /\ 1 \in 1 .. Len(q)
    BY <2>1, <2>2, <2>4
  <2> QED
    BY <2>1, <2>2, <2>4, <2>7, <2>8 DEF a, b
<1>5. ASSUME NEW r \in Reply
      PROVE  Answers(Append(q, r)) = Append(Answers(q), One(r))
  <2>1. Append(q, r) \in Seq(Reply) /\ Len(Append(q, r)) = Len(q) + 1 /\ Len(q) \in Nat
        /\ Append(q, r)[Len(q) + 1] = r /\ \A i \in 1 .. Len(q) : Append(q, r)[i] = q[i]
    OBVIOUS
  <2> DEFINE w == Append(q, r)
             a == Answers(q)
             b == Answers(w)
             x == One(r)
  <2>2. a \in Seq(Answer) /\ Len(a) = Len(q) /\ \A i \in 1 .. Len(q) : a[i] = One(q[i])
    BY <1>2
  <2>3. b \in Seq(Answer) /\ Len(b) = Len(q) + 1 /\ \A i \in 1 .. Len(q) + 1 : b[i] = One(w[i])
    <3> HIDE DEF w
    <3> QED
      BY <1>2, <2>1 DEF w
  <2>4. x \in Answer
    BY <1>1
  <2> HIDE DEF a, b, w
  <2>5. b[Len(q) + 1] = x /\ \A i \in 1 .. Len(q) : b[i] = a[i]
    BY <2>1, <2>2, <2>3 DEF w
  <2> HIDE DEF x
  <2>6. Append(a, x) \in Seq(Answer) /\ Len(Append(a, x)) = Len(q) + 1 /\ Append(a, x)[Len(q) + 1] = x
        /\ \A i \in 1 .. Len(q) : Append(a, x)[i] = a[i]
    BY <2>2, <2>4
  <2>7. \A i \in 1 .. Len(q) + 1 : b[i] = Append(a, x)[i]
    BY <2>1, <2>5, <2>6
  <2>8. b = Append(a, x)
    BY <2>3, <2>6, <2>7
  <2> QED
    BY <2>8 DEF a, b, w, x
<1> QED
  BY <1>2, <1>3, <1>4, <1>5 DEF One

(* A client never loses an answer.                                            *)
LEMMA GotGrows ==
  ASSUME NEW p \in Peer, NEW msg \in Message
  PROVE  /\ p.got \in Seq(Answer) /\ Received(p, msg).got \in Seq(Answer)
         /\ IsPrefix(p.got, Received(p, msg).got)
         /\ msg \notin Reply => Received(p, msg).got = p.got
         /\ msg \in Reply => Received(p, msg).got = Append(p.got, [id |-> msg.id, code |-> msg.code])
<1>1. Received(p, msg) \in Peer
  BY ReceivedType
<1>2. p.got \in Seq(Answer) /\ Received(p, msg).got \in Seq(Answer)
  BY <1>1 DEF Peer
<1>3. CASE msg \in Reply
  <2>1. Received(p, msg).got = Append(p.got, [id |-> msg.id, code |-> msg.code])
    BY <1>3 DEF Received, Reply, Peer
  <2>2. [id |-> msg.id, code |-> msg.code] \in Answer
    BY <1>3 DEF Reply, Answer
  <2>3. IsPrefix(p.got, p.got)
    BY <1>2, PrefixOfAll
  <2> QED
    BY <1>2, <1>3, <2>1, <2>2, <2>3, PrefixAppended
<1>4. CASE msg \notin Reply
  <2>1. Received(p, msg).got = p.got
    <3>1. CASE msg \in Frames
      BY <3>1 DEF Received, Frames, Peer
    <3>2. CASE msg \in Copies
      BY <3>2 DEF Received, Copies, Peer
    <3>3. CASE msg = Bye
      BY <3>3 DEF Received, Bye, Peer
    <3> QED
      BY <1>4, <3>1, <3>2, <3>3 DEF Message
  <2> QED
    BY <1>2, <1>4, <2>1, PrefixOfAll
<1> QED
  BY <1>3, <1>4

LEMMA AfterGrows ==
  ASSUME NEW p \in Peer, NEW msgs \in Seq(Message)
  PROVE  IsPrefix(p.got, After(p, msgs).got)
<1>1. PICK f \in [0 .. Len(msgs) -> Peer] : Follows(f, p, msgs) /\ After(p, msgs) = f[Len(msgs)]
  BY AfterFolds
<1> DEFINE bad == {n \in 0 .. Len(msgs) : ~IsPrefix(p.got, f[n].got)}
<1>2. SUFFICES ASSUME bad # {} PROVE FALSE
  <2>1. Len(msgs) \in 0 .. Len(msgs)
    OBVIOUS
  <2> QED
    BY <1>1, <2>1
<1>3. bad \subseteq Nat
  OBVIOUS
<1>4. Min(bad) \in bad /\ \A k \in bad : Min(bad) <= k
  <2> HIDE DEF bad
  <2> QED
    BY <1>2, <1>3, LeastNatural
<1> DEFINE n == Min(bad)
<1>5. p.got \in Seq(Answer)
  BY DEF Peer
<1>6. n \in 0 .. Len(msgs) /\ ~IsPrefix(p.got, f[n].got) /\ n # 0
  <2>1. n \in bad
    BY <1>4
  <2>2. 0 \notin bad
    BY <1>1, <1>5, PrefixOfAll DEF Follows
  <2> HIDE DEF n
  <2> QED
    BY <2>1, <2>2
<1>7. n - 1 \in 0 .. Len(msgs) /\ n - 1 \notin bad /\ n \in 1 .. Len(msgs)
  BY <1>4, <1>6
<1> HIDE DEF n
<1>8. IsPrefix(p.got, f[n - 1].got) /\ f[n - 1] \in Peer /\ msgs[n] \in Message
  BY <1>7
<1>9. f[n] = Received(f[n - 1], msgs[n])
  BY <1>1, <1>7 DEF Follows
<1>10. IsPrefix(f[n - 1].got, f[n].got) /\ f[n - 1].got \in Seq(Answer) /\ f[n].got \in Seq(Answer)
  BY <1>8, <1>9, GotGrows
<1> QED
  BY <1>5, <1>6, <1>8, <1>10, PrefixThen

(* What a client was answered by what has reached its socket is the first of  *)
(* what it will have been answered by all that is on its way.                 *)
LEMMA AfterPart ==
  ASSUME NEW p \in Peer, NEW a \in Seq(Message), NEW b \in Seq(Message)
  PROVE  IsPrefix(After(p, a).got, After(p, a \o b).got)
<1> DEFINE m == Len(a)
           n == Len(b)
           all == a \o b
<1>1. /\ m \in Nat /\ n \in Nat /\ all \in Seq(Message) /\ Len(all) = m + n
      /\ \A k \in 1 .. m : all[k] = a[k]
      /\ \A k \in 1 .. n : all[m + k] = b[k]
  <2>1. m \in Nat /\ n \in Nat
    OBVIOUS
  <2>2. /\ all \in Seq(Message) /\ Len(all) = Len(a) + Len(b)
        /\ \A k \in 1 .. Len(a) + Len(b) : all[k] = IF k <= Len(a) THEN a[k] ELSE b[k - Len(a)]
    BY ConcatProperties
  <2> HIDE DEF all
  <2>3. \A k \in 1 .. m : k \in 1 .. m + n /\ k <= m
    BY <2>1
  <2>4. \A k \in 1 .. n : m + k \in 1 .. m + n /\ ~(m + k <= m) /\ (m + k) - m = k
    BY <2>1
  <2> QED
    BY <2>1, <2>2, <2>3, <2>4
<1> HIDE DEF all
<1>2. PICK f \in [0 .. Len(all) -> Peer] : Follows(f, p, all) /\ After(p, all) = f[Len(all)]
  BY <1>1, AfterFolds
<1>3. f[0] = p /\ \A k \in 1 .. m + n : f[k] = Received(f[k - 1], all[k])
  BY <1>1, <1>2 DEF Follows
<1>4. Follows(f, p, a)
  <2>1. \A k \in 1 .. m : k \in 1 .. m + n
    BY <1>1
  <2> QED
    BY <1>1, <1>3, <2>1 DEF Follows
<1>5. After(p, a) = f[m]
  BY <1>4, AfterIs
<1> DEFINE g == [k \in 0 .. n |-> f[m + k]]
<1>6. f[m] \in Peer
  <2>1. m \in 0 .. Len(all)
    BY <1>1
  <2> QED
    BY <1>2, <2>1
<1>7. g[0] = f[m] /\ g[n] = f[m + n]
  BY <1>1
<1>8. \A k \in 1 .. n : g[k] = Received(g[k - 1], b[k])
  <2> TAKE k \in 1 .. n
  <2>1. k \in 0 .. n /\ k - 1 \in 0 .. n /\ m + (k - 1) = (m + k) - 1 /\ m + k \in 1 .. m + n
    BY <1>1
  <2>2. g[k] = f[m + k] /\ g[k - 1] = f[(m + k) - 1]
    BY <2>1
  <2> HIDE DEF g
  <2>3. f[m + k] = Received(f[(m + k) - 1], all[m + k])
    BY <1>3, <2>1
  <2> QED
    BY <1>1, <2>2, <2>3
<1> HIDE DEF g
<1>9. After(f[m], b) = g[n]
  <2>1. Follows(g, f[m], b)
    BY <1>7, <1>8 DEF Follows
  <2> QED
    BY <1>6, <2>1, AfterIs
<1>10. IsPrefix(f[m].got, After(f[m], b).got)
  BY <1>6, AfterGrows
<1> QED
  BY <1>1, <1>2, <1>5, <1>7, <1>9, <1>10 DEF all

(* A step answers a client nothing unless it sends it a reply.                *)
LEMMA GotKept ==
  ASSUME Types, Types', NEW c \in Clients,
         Still(c) \/ Reads(c) \/ \E msg \in Frames \cup Copies \cup {Bye} : Sends(c, msg)
  PROVE  Final(c)'.got = Final(c).got
<1>1. CASE Still(c) \/ Reads(c)
  BY <1>1, FinalStill DEF Alike
<1>2. CASE \E msg \in Frames \cup Copies \cup {Bye} : Sends(c, msg)
  <2>1. PICK msg \in Frames \cup Copies \cup {Bye} : Sends(c, msg)
    BY <1>2
  <2>2. msg \in Message /\ msg \notin Reply
    BY DEF Message, Frames, Copies, Bye, Reply
  <2>3. Final(c)' = Received(Final(c), msg) /\ Final(c) \in Peer
    BY <2>1, <2>2, FinalSends, FinalType
  <2> QED
    BY <2>2, <2>3, GotGrows
<1> QED
  BY <1>1, <1>2

LEMMA GotDropped ==
  ASSUME Types, Types', NEW c \in Clients, Drops(c)
  PROVE  IsPrefix(Final(c)'.got, Final(c).got)
<1> DEFINE w == conn[c].wire
           more == conn[c].held \o conn[c].chan
<1>1. peer[c] \in Peer /\ conn[c] \in Conn /\ conn'[c] \in Conn
  BY DEF Types
<1>2. w \in Seq(Message) /\ conn[c].held \in Seq(Message) /\ conn[c].chan \in Seq(Message) /\ more \in Seq(Message)
  BY <1>1, LineType
<1>3. InFlight(c) = w \o more
  BY <1>2, Regroup DEF InFlight
<1>4. InFlight(c)' = w /\ peer'[c] = peer[c]
  <2>1. Line(conn'[c]) = conn'[c].wire
    BY <1>1, LineType DEF Drops
  <2> QED
    BY <2>1 DEF Drops, InFlight, Line
<1> HIDE DEF w, more
<1>5. IsPrefix(After(peer[c], w).got, After(peer[c], w \o more).got)
  BY <1>1, <1>2, AfterPart
<1>6. Final(c)' = After(peer[c], w)
  BY <1>4 DEF Final
<1> QED
  BY <1>3, <1>5, <1>6 DEF Final

LEMMA GotStep ==
  ASSUME Types, Types', Wired, [Next]_vars, ~SendReply, NEW c \in Clients
  PROVE  \/ Final(c)'.got = Final(c).got
         \/ conn'[c].writer = "ended" /\ IsPrefix(Final(c)'.got, Final(c).got)
<1>1. CASE PushFrames
  <2> DEFINE screen == Render(mux)
  <2>1. PICK row \in Nat :
          /\ \A d \in Attached : Resyncs(d) => row \in DOMAIN screen
          /\ PushedConn(screen, row) \in [Clients -> Conn]
          /\ conn' = DetachClients(PushedConn(screen, row), DeadOf(screen, row))
          /\ peer' = peer
    BY <1>1, PushIs
  <2>2. screen \in Seq(Nat) /\ mux \in Muxes
    BY RenderType DEF Types
  <2> HIDE DEF screen
  <2>3. \/ Still(c) \/ Sends(c, Bye)
        \/ c \in Speaking(screen, row) /\ Sends(c, Frame(Diffed(c, screen, row), screen))
    BY <2>1, <2>2, LineOfFrames
  <2>4. c \in Speaking(screen, row) => Frame(Diffed(c, screen, row), screen) \in Frames
    <3>1. c \in Speaking(screen, row) => c \in Attached
      BY DEF Speaking
    <3>2. c \in Attached => Diffed(c, screen, row) \in Srv
      BY <2>1, <2>2, DiffedType
    <3> QED
      BY <2>2, <3>1, <3>2, FrameType
  <2>5. Still(c) \/ \E msg \in Frames \cup Copies \cup {Bye} : Sends(c, msg)
    BY <2>3, <2>4
  <2> QED
    BY <2>5, GotKept
<1>2. CASE \/ Settle \/ (\E p \in Panes : TakeClipboard(p)) \/ RelayClipboard \/ ExpireSilentClients
           \/ EndReplies \/ SkipFrame \/ FlushBeforeShutdown \/ SendBye \/ EndByes
           \/ LastShellExits \/ DeadlinePasses \/ PaneDraws \/ PaneWakes
           \/ (\E p \in Panes : PaneStamps(p) \/ PaneStores(p))
           \/ \E d \in Clients : HandleIncoming(d)
  <2>1. Still(c) \/ Sends(c, Bye)
    BY <1>2, LineOfLoop, LineOfHandlers
  <2> QED
    BY <2>1, GotKept
<1>3. CASE SendCopies
  <2>1. mux.srv[c].copy # 0 => [t |-> "copy", seq |-> mux.srv[c].copy] \in Copies
    BY DEF Types, Muxes, Srv, Copies
  <2>2. Still(c) \/ \E msg \in Frames \cup Copies \cup {Bye} : Sends(c, msg)
    BY <1>3, <2>1, LineOfCopies
  <2> QED
    BY <2>2, GotKept
<1>4. CASE Exit \/ \E d \in Clients : Writer(d)
  <2>1. Still(c) \/ Drops(c)
    BY <1>4, LineOfExit, LineOfWriters
  <2> QED
    BY <2>1, GotKept, GotDropped DEF Drops
<1>5. ASSUME NEW d \in Clients,
              \/ ReaderEnds(d) \/ ResyncDue(d) \/ PeerAttaches(d) \/ PeerSays(d) \/ PeerReads(d)
              \/ PeerSeesEof(d) \/ PeerDies(d) \/ PeerHangs(d) \/ PeerResumes(d) \/ LinkBreaks(d)
      PROVE  Final(c)'.got = Final(c).got
  <2>1. Still(c) \/ Reads(c)
    BY <1>5, LineOfClients
  <2> QED
    BY <2>1, GotKept
<1>6. CASE UNCHANGED vars
  <2>1. conn' = conn /\ peer' = peer
    BY <1>6 DEF vars
  <2>2. Still(c)
    BY <2>1, LineStill
  <2> QED
    BY <2>2, GotKept
<1> QED
  BY <1>1, <1>2, <1>3, <1>4, <1>5, <1>6 DEF Next, Pass

(* A step that sends no reply leaves the replies owed to a client alone, lets *)
(* the client go with them, or adds the answer to what it asked.              *)
SameReplies(s, t) == t.replies = s.replies /\ t.overflowed = s.overflowed

LEMMA RepliesAlone ==
  ASSUME Types, Types', [Next]_vars, ~SendReply, NEW c \in Clients, \A d \in Clients : ~HandleIncoming(d)
  PROVE  \/ SameReplies(mux.srv[c], mux'.srv[c]) /\ (c \in Attached' => c \in Attached)
         \/ Emptyhanded(mux'.srv[c]) /\ c \notin Attached'
<1>1. mux \in Muxes /\ mux.srv \in [Clients -> Srv] /\ mux.srv[c] \in Srv /\ loop \in Loops
  BY DEF Types, Muxes
<1>2. CASE mux' = mux
  BY <1>2 DEF SameReplies, Attached
<1>3. CASE Settle \/ ExpireSilentClients \/ EndReplies \/ PushFrames \/ Exit
  BY <1>3, QueuesOfLoop DEF Queued, SameReplies
<1>4. CASE RelayClipboard
  <2> DEFINE n == Each([mux EXCEPT !.relayed = loop.latest], LAMBDA s : QueueCopy(s, loop.latest))
  <2>1. mux' = mux \/ mux' = n
    BY <1>4 DEF RelayClipboard
  <2>2. loop.latest \in Nat
    BY <1>1 DEF Loops
  <2>3. /\ n = [mux EXCEPT !.srv = n.srv, !.relayed = loop.latest]
        /\ \A d \in Clients :
             n.srv[d] = [mux.srv[d] EXCEPT !.copy = IF d \in ToSet(mux.att) /\ loop.latest > mux.srv[d].copy
                                                    THEN loop.latest ELSE mux.srv[d].copy]
    BY <1>1, <2>2, EachCopy
  <2> HIDE DEF n
  <2>4. n.att = mux.att /\ SameReplies(mux.srv[c], n.srv[c])
    BY <1>1, <2>3 DEF Muxes, Srv, SameReplies
  <2> QED
    BY <1>2, <2>1, <2>4 DEF Attached
<1>5. CASE SendCopies
  <2> DEFINE copying == {d \in Attached : mux.srv[d].copy # 0}
             dead == {d \in copying : WriterGone(d)}
             sent == {d \in copying : Accepts(d)}
             srv == [d \in Clients |-> IF d \in sent THEN [mux.srv[d] EXCEPT !.copy = 0] ELSE mux.srv[d]]
             k == [mux EXCEPT !.srv = srv]
  <2>1. mux' = PruneDeadClients(k, dead)
    BY <1>5 DEF SendCopies
  <2> HIDE DEF sent, dead
  <2>2. srv \in [Clients -> Srv] /\ SameReplies(mux.srv[c], srv[c])
    BY <1>1 DEF Srv, SameReplies
  <2> HIDE DEF srv
  <2>3. k \in Muxes /\ k.srv = srv /\ k.att = mux.att
    BY <1>1, <2>2 DEF Muxes
  <2> HIDE DEF k
  <2>4. Left(k, mux', dead)
    BY <2>1, <2>3, PruneLeft
  <2>5. CASE c \in dead
    BY <2>4, <2>5 DEF Left, Attached, Emptyhanded, Detached
  <2>6. CASE c \notin dead
    <3>1. Kept(k.srv[c], mux'.srv[c]) /\ ToSet(mux'.att) \subseteq ToSet(k.att)
      BY <2>4, <2>6 DEF Left
    <3> QED
      BY <2>2, <2>3, <3>1 DEF Kept, SameReplies, Attached
  <2> QED
    BY <2>5, <2>6
<1>6. CASE \/ \E p \in Panes : TakeClipboard(p) \/ PaneStamps(p) \/ PaneStores(p)
           \/ SkipFrame \/ FlushBeforeShutdown \/ SendBye \/ EndByes \/ LastShellExits \/ DeadlinePasses
           \/ PaneDraws \/ PaneWakes
  <2>1. mux' = mux
    BY <1>6, ZenonT(40) DEF TakeClipboard, PaneStamps, PaneStores, SkipFrame, FlushBeforeShutdown, SendBye, EndByes,
       LastShellExits, DeadlinePasses, PaneDraws, PaneWakes
  <2> QED
    BY <1>2, <2>1
<1>7. CASE \E d \in Clients :
              \/ Writer(d) \/ ReaderEnds(d) \/ ResyncDue(d) \/ PeerAttaches(d) \/ PeerSays(d) \/ PeerReads(d)
              \/ PeerSeesEof(d) \/ PeerDies(d) \/ PeerHangs(d) \/ PeerResumes(d) \/ LinkBreaks(d)
  <2>1. mux' = mux
    BY <1>7, ZenonT(40) DEF Writer, WriterSends, WriterBlocks, WriterResumes, WriterEnds, ReaderEnds, ResyncDue,
       PeerAttaches, PeerSays, PeerReads, PeerSeesEof, PeerDies, PeerHangs, PeerResumes, PeerState, LinkBreaks
  <2> QED
    BY <1>2, <2>1
<1>8. CASE UNCHANGED vars
  BY <1>2, <1>8 DEF vars
<1> QED
  BY <1>3, <1>4, <1>5, <1>6, <1>7, <1>8 DEF Next, Pass

LEMMA QueueStep ==
  ASSUME Types, Types', PlaceInv, [Next]_vars, ~SendReply, NEW c \in Clients
  PROVE  \/ /\ handled'[c] = handled[c]
            /\ \/ SameReplies(mux.srv[c], mux'.srv[c]) /\ (c \in Attached' => c \in Attached)
               \/ Emptyhanded(mux'.srv[c]) /\ (c \in Attached' => HandleAttach(c))
         \/ /\ HandleIncoming(c) /\ c \in Attached /\ Head(conn[c].inbox) \in Request
            /\ Asked(Head(conn[c].inbox)) /\ Handles(c, Head(conn[c].inbox))
<1>1. mux \in Muxes /\ mux.srv \in [Clients -> Srv] /\ mux.srv[c] \in Srv
  BY DEF Types, Muxes
<1>2. CASE HandleIncoming(c)
  <2>1. CASE Asked(Head(conn[c].inbox)) /\ c \in Attached /\ Handles(c, Head(conn[c].inbox))
    <3>1. conn[c].inbox # <<>>
      BY <1>2, ConnOfHandlers
    <3> QED
      BY <1>2, <2>1, <3>1, TakenType
  <2>2. CASE handled' = handled /\ ~HandleCommand(c) /\ ~HandleKillServer(c) /\ ~HandlePing(c)
    <3>1. HandleDrag(c) => SameReplies(mux.srv[c], mux'.srv[c]) /\ (c \in Attached' => c \in Attached)
      BY <1>1 DEF HandleDrag, QueueCopy, SameReplies, Srv, Muxes, Attached
    <3>2. \/ Queued(mux.srv[c], mux'.srv[c]) /\ (c \in Attached' => c \in Attached)
          \/ Emptyhanded(mux'.srv[c]) /\ (c \in Attached' => HandleAttach(c))
          \/ HandleDrag(c)
      BY <1>2, <2>2, QueuesOfHandlers
    <3> QED
      BY <2>2, <3>1, <3>2 DEF Queued, SameReplies
  <2> QED
    BY <1>2, <2>1, <2>2, HandledBy
<1>3. CASE ~HandleIncoming(c)
  <2>1. handled'[c] = handled[c]
    BY <1>3, InboxStep DEF Unhandled
  <2>2. ASSUME NEW d \in Clients, HandleIncoming(d)
        PROVE  \/ SameReplies(mux.srv[c], mux'.srv[c]) /\ (c \in Attached' => c \in Attached)
               \/ Emptyhanded(mux'.srv[c]) /\ c \notin Attached'
    <3>1. c # d
      BY <1>3, <2>2
    <3> QED
      BY <2>2, <3>1, QueuesOfHandlers DEF Queued, SameReplies
  <2> QED
    BY <2>1, <2>2, RepliesAlone
<1> QED
  BY <1>2, <1>3

(* What a client was answered are the first of the answers; with what it is   *)
(* still owed they are all of them, unless it is on its way out.              *)
Owes(c) ==
  /\ IsPrefix(Final(c).got, handled[c])
  /\ c \in Attached /\ conn[c].writer # "ended" /\ ~mux.srv[c].overflowed =>
       Final(c).got \o Answers(mux.srv[c].replies) = handled[c]
  /\ mux.srv[c].overflowed => mux.srv[c].replies # <<>>

ReplyInv == \A c \in Clients : Owes(c)

LEMMA ReplyInit == Init => ReplyInv
<1> SUFFICES ASSUME Init, NEW c \in Clients
             PROVE  Owes(c)
  BY DEF ReplyInv
<1>1. Types /\ NewInv /\ FirstInv
  BY TypesInit, NewInit, FirstInit
<1>2. peer[c].state = "new" /\ c \notin Attached /\ ~mux.srv[c].overflowed /\ handled[c] = <<>> /\ peer[c].got = <<>>
  BY DEF Init, Attached, ToSet, Detached
<1>3. InFlight(c) = <<>> /\ peer[c] \in Peer
  BY <1>1, <1>2 DEF FirstInv, Nothing, Types
<1>4. Final(c) = peer[c]
  BY <1>3, AfterNothing DEF Final
<1>5. handled[c] \in Seq(Answer)
  BY <1>1 DEF Types
<1>6. IsPrefix(Final(c).got, handled[c])
  BY <1>2, <1>4, <1>5, PrefixOfAll
<1> QED
  BY <1>2, <1>6 DEF Owes

LEMMA OwedTypes ==
  ASSUME Types, NEW c \in Clients
  PROVE  /\ Final(c).got \in Seq(Answer) /\ handled[c] \in Seq(Answer) /\ mux.srv[c].replies \in Seq(Reply)
         /\ Answers(mux.srv[c].replies) \in Seq(Answer) /\ mux.srv[c] \in Srv
<1>1. handled[c] \in Seq(Answer) /\ mux.srv[c] \in Srv
  BY DEF Types, Muxes
<1>2. mux.srv[c].replies \in Seq(Reply)
  BY <1>1 DEF Srv
<1>3. Final(c) \in Peer
  BY FinalType
<1>4. Final(c).got \in Seq(Answer)
  BY <1>3 DEF Peer
<1> QED
  BY <1>1, <1>2, <1>4, AnswersOf

(* The reply that is sent is the answer that comes next.                      *)
LEMMA ReplyOfSend ==
  ASSUME Types, Types', PlaceInv, ReplyInv, SendReply, NEW c \in Clients
  PROVE  Owes(c)'
<1> DEFINE h == Head(loop.todo)
           s == mux.srv[h]
           popped == [mux EXCEPT !.srv = [mux.srv EXCEPT ![h] = [s EXCEPT !.replies = Tail(s.replies)]]]
<1>1. /\ loop.at = "replies" /\ loop.todo # <<>> /\ h \in Clients
      /\ UNCHANGED <<peer, handled>>
      /\ \/ /\ s.replies # <<>> /\ Accepts(h) /\ mux' = popped
            /\ conn' = [conn EXCEPT ![h] = [conn[h] EXCEPT !.chan = <<Head(s.replies)>>]]
         \/ mux' = mux /\ conn' = conn
         \/ s.replies # <<>> /\ WriterGone(h) /\ mux' = popped /\ conn' = conn
  BY ReplyIs
<1>2. mux \in Muxes /\ mux.srv \in [Clients -> Srv] /\ s \in Srv /\ conn \in [Clients -> Conn] /\ loop.todo \in Seq(Clients)
  BY <1>1 DEF Types, Muxes, Loops
<1>3. h \in Attached /\ ~s.overflowed
  <2>1. h \in ToSet(loop.todo)
    BY <1>1, <1>2, HeadAndTail
  <2> QED
    BY <1>1, <2>1 DEF PlaceInv
<1> HIDE DEF h
<1>4. mux' = popped => /\ mux'.att = mux.att
                       /\ mux'.srv[h].replies = Tail(s.replies) /\ mux'.srv[h].overflowed = s.overflowed
                       /\ c # h => mux'.srv[c] = mux.srv[c]
  BY <1>1, <1>2 DEF Muxes, Srv
<1>5. Owes(c)
  BY DEF ReplyInv
<1>6. ASSUME conn'[c] = conn[c]
      PROVE  Final(c)'.got = Final(c).got
  <2>1. Still(c)
    BY <1>1, <1>6, LineStill
  <2> QED
    BY <2>1, GotKept
<1> HIDE DEF popped, s
<1>7. CASE mux' = mux /\ conn' = conn
  BY <1>1, <1>5, <1>6, <1>7 DEF Owes, Attached
<1>8. CASE c # h /\ mux' = popped /\ (conn' = conn \/ conn' = [conn EXCEPT ![h] = conn'[h]])
  <2>1. conn'[c] = conn[c]
    BY <1>2, <1>8
  <2> QED
    BY <1>1, <1>4, <1>5, <1>6, <1>8, <2>1 DEF Owes, Attached
<1>9. CASE c = h /\ s.replies # <<>> /\ WriterGone(h) /\ mux' = popped /\ conn' = conn
  <2>1. ~mux'.srv[c].overflowed /\ conn'[c].writer = "ended"
    BY <1>3, <1>4, <1>9 DEF WriterGone, s
  <2> QED
    BY <1>1, <1>5, <1>6, <1>9, <2>1 DEF Owes
<1>10. CASE /\ c = h /\ s.replies # <<>> /\ Accepts(h) /\ mux' = popped
            /\ conn' = [conn EXCEPT ![h] = [conn[h] EXCEPT !.chan = <<Head(s.replies)>>]]
  <2> DEFINE q == s.replies
             r == Head(q)
             got == Final(c).got
             answers == Answers(q)
             one == [id |-> r.id, code |-> r.code]
  <2>1. q \in Seq(Reply) /\ answers \in Seq(Answer) /\ got \in Seq(Answer) /\ handled[c] \in Seq(Answer)
    BY <1>10, OwedTypes DEF s
  <2>2. r \in Reply /\ r \in Message /\ q # <<>>
    <3>1. r \in Reply
      BY <1>10, <2>1
    <3> QED
      BY <1>10, <3>1 DEF Message
  <2>3. answers # <<>> /\ Head(answers) = one /\ Tail(answers) = Answers(Tail(q))
    BY <2>1, <2>2, AnswersOf
  <2>4. got \o answers = handled[c]
    BY <1>3, <1>5, <1>10 DEF Owes, Accepts, s
  <2>5. Sends(c, r)
    <3>1. conn[c] \in Conn /\ conn[c].chan = <<>> /\ conn'[c] = [conn[c] EXCEPT !.chan = <<r>>]
      BY <1>2, <1>10 DEF Accepts
    <3> HIDE DEF r
    <3>2. Line(conn'[c]) = Append(Line(conn[c]), r)
      BY <2>2, <3>1, LineSends
    <3>3. InFlight(c)' = Line(conn'[c]) /\ InFlight(c) = Line(conn[c])
      BY DEF InFlight, Line
    <3> QED
      BY <1>1, <3>2, <3>3 DEF Sends
  <2>6. Final(c)'.got = Append(got, one)
    <3>1. Final(c)' = Received(Final(c), r) /\ Final(c) \in Peer
      BY <2>2, <2>5, FinalSends, FinalType
    <3> QED
      BY <2>2, <3>1, GotGrows
  <2>7. mux'.srv[c].replies = Tail(q) /\ ~mux'.srv[c].overflowed /\ handled' = handled
    BY <1>1, <1>3, <1>4, <1>10 DEF s
  <2> HIDE DEF q, r, got, answers, one
  <2>8. /\ Append(got, one) \in Seq(Answer) /\ Tail(answers) \in Seq(Answer)
        /\ Append(got, one) \o Tail(answers) = handled[c]
    <3>1. /\ Append(got, Head(answers)) \in Seq(Answer) /\ Tail(answers) \in Seq(Answer)
          /\ Append(got, Head(answers)) \o Tail(answers) = got \o answers
      BY <2>1, <2>3, Shifted
    <3> QED
      BY <2>3, <2>4, <3>1
  <2>9. IsPrefix(Append(got, one), handled[c])
    BY <2>8, PrefixOfAll
  <2> QED
    BY <2>3, <2>6, <2>7, <2>8, <2>9 DEF Owes
<1> QED
  BY <1>1, <1>2, <1>7, <1>8, <1>9, <1>10

LEMMA FinalLater ==
  ASSUME Types', NEW c \in Clients
  PROVE  Final(c)'.got \in Seq(Answer)
<1>1. conn'[c] \in Conn /\ InFlight(c)' = Line(conn'[c]) /\ peer'[c] \in Peer
  BY DEF Types, InFlight, Line
<1>2. InFlight(c)' \in Seq(Message)
  BY <1>1, LineType
<1>3. Final(c)' = After(peer'[c], InFlight(c)')
  BY DEF Final
<1>4. Final(c)' \in Peer
  BY <1>1, <1>2, <1>3, AfterType
<1> QED
  BY <1>4 DEF Peer

(* What a client asked is answered after all that it asked before.            *)
LEMMA ReplyOfAsked ==
  ASSUME Types, Types', NEW c \in Clients, Owes(c), c \in Attached,
         NEW msg \in Request, Asked(msg), Handles(c, msg), conn'[c].writer = conn[c].writer,
         \/ Final(c)'.got = Final(c).got
         \/ conn'[c].writer = "ended" /\ IsPrefix(Final(c)'.got, Final(c).got)
  PROVE  Owes(c)'
<1> DEFINE got == Final(c).got
           later == Final(c)'.got
           h == handled[c]
           s == mux.srv[c]
           q == s.replies
           answers == Answers(q)
<1>1. /\ got \in Seq(Answer) /\ h \in Seq(Answer) /\ q \in Seq(Reply) /\ answers \in Seq(Answer) /\ s \in Srv
  BY OwedTypes
<1>2. later \in Seq(Answer)
  BY FinalLater
<1>3. PICK code \in Codes :
        /\ handled' = [handled EXCEPT ![c] = Append(handled[c], [id |-> msg.n, code |-> code])]
        /\ mux' = [mux EXCEPT !.srv = [mux.srv EXCEPT ![c] =
                     QueueReply(mux.srv[c], [t |-> "reply", id |-> msg.n, code |-> code])]]
  BY DEF Handles
<1> DEFINE one == [id |-> msg.n, code |-> code]
           reply == [t |-> "reply", id |-> msg.n, code |-> code]
<1>4. one \in Answer /\ reply \in Reply /\ one = [id |-> reply.id, code |-> reply.code]
  BY AskedType DEF Answer, Reply
<1>5. handled'[c] = Append(h, one) /\ mux'.srv[c] = QueueReply(s, reply)
  BY <1>3 DEF Types, Muxes
<1> HIDE DEF one, reply
<1>6. \/ mux'.srv[c].overflowed /\ mux'.srv[c].replies = q /\ Len(q) >= REPLY_HARD
      \/ mux'.srv[c].overflowed = s.overflowed /\ mux'.srv[c].replies = Append(q, reply)
  BY <1>1, <1>5 DEF QueueReply, Srv
<1>7. /\ \/ later = got
         \/ conn'[c].writer = "ended" /\ IsPrefix(later, got)
      /\ IsPrefix(got, h)
      /\ conn'[c].writer # "ended" /\ ~s.overflowed => got \o answers = h
  BY DEF Owes
<1> HIDE DEF got, later, h, q, answers
<1>8. IsPrefix(later, Append(h, one))
  <2>1. IsPrefix(later, h)
    BY <1>1, <1>2, <1>7, PrefixThen
  <2> QED
    BY <1>1, <1>2, <1>4, <2>1, PrefixAppended
<1>9. Append(q, reply) # <<>> /\ Answers(Append(q, reply)) = Append(answers, one)
  <2>1. Append(q, reply) # <<>>
    BY <1>1, <1>4, Lengthened
  <2> QED
    BY <1>1, <1>4, <2>1, AnswersOf DEF answers
<1>10. got \o Append(answers, one) = Append(got \o answers, one)
  BY <1>1, <1>4, ConcatAppend
<1>11. Len(q) >= REPLY_HARD => q # <<>>
  <2>1. REPLY_HARD >= 1 /\ REPLY_HARD \in Nat
    BY ServerAssumption
  <2> QED
    BY <1>1, <2>1, EmptySeq
<1>12. mux'.srv[c].overflowed => mux'.srv[c].replies # <<>>
  BY <1>6, <1>9, <1>11
<1>13. conn'[c].writer # "ended" /\ ~mux'.srv[c].overflowed =>
         later \o Answers(mux'.srv[c].replies) = Append(h, one)
  BY <1>6, <1>7, <1>9, <1>10
<1> QED
  BY <1>5, <1>8, <1>12, <1>13 DEF Owes, later

LEMMA ReplyStep ==
  ASSUME Types, Types', PlaceInv, Wired, NewInv, FirstInv, ReplyInv, [Next]_vars
  PROVE  ReplyInv'
<1> SUFFICES ASSUME NEW c \in Clients, ~SendReply
             PROVE  Owes(c)'
  BY ReplyOfSend DEF ReplyInv
<1> DEFINE got == Final(c).got
           later == Final(c)'.got
           h == handled[c]
<1>1. Owes(c) /\ got \in Seq(Answer) /\ h \in Seq(Answer)
  BY OwedTypes DEF ReplyInv
<1>2. later \in Seq(Answer)
  BY FinalLater
<1>3. later = got \/ (conn'[c].writer = "ended" /\ IsPrefix(later, got))
  BY GotStep
<1>4. IsPrefix(later, h)
  <2>1. IsPrefix(got, h)
    BY <1>1 DEF Owes
  <2> HIDE DEF got, later, h
  <2> QED
    BY <1>1, <1>2, <1>3, <2>1, PrefixThen
<1>5. CASE /\ HandleIncoming(c) /\ c \in Attached /\ Head(conn[c].inbox) \in Request
           /\ Asked(Head(conn[c].inbox)) /\ Handles(c, Head(conn[c].inbox))
  <2> DEFINE msg == Head(conn[c].inbox)
  <2>1. conn'[c].writer = conn[c].writer
    BY <1>5, ConnOfHandlers DEF Apart
  <2>2. msg \in Request /\ Asked(msg) /\ Handles(c, msg) /\ c \in Attached
    BY <1>5
  <2> HIDE DEF msg
  <2> QED
    BY <1>1, <1>3, <2>1, <2>2, ReplyOfAsked
<1>6. CASE /\ handled'[c] = h
           /\ SameReplies(mux.srv[c], mux'.srv[c]) /\ (c \in Attached' => c \in Attached)
  <2>1. conn'[c].writer # "ended" /\ c \in Attached => conn[c].writer # "ended"
    BY AgesStep DEF Ages, PeerAttaches, NewInv
  <2> QED
    BY <1>1, <1>3, <1>4, <1>6, <2>1 DEF Owes, SameReplies
<1>7. CASE /\ handled'[c] = h
           /\ Emptyhanded(mux'.srv[c]) /\ (c \in Attached' => HandleAttach(c))
  <2>1. ASSUME c \in Attached', conn'[c].writer # "ended"
        PROVE  later \o Answers(<<>>) = h
    <3>1. Taking(c, "attach")
      BY <1>7, <2>1 DEF HandleAttach
    <3>2. Nothing(c)
      BY <3>1 DEF FirstInv, First, Taking
    <3>3. Final(c) = peer[c]
      BY <3>2, AfterNothing, FinalType DEF Final, Nothing
    <3>4. later = <<>> /\ h = <<>>
      BY <1>3, <2>1, <3>2, <3>3 DEF Nothing
    <3>5. Answers(<<>>) = <<>>
      BY DEF Answers
    <3> QED
      BY <3>4, <3>5
  <2> QED
    BY <1>4, <1>7, <2>1 DEF Owes, Emptyhanded
<1> QED
  BY <1>5, <1>6, <1>7, QueueStep

--------------------------------------------------------------------------------
(* The farewells                                                              *)

Only(q) == q \in {<<>>, <<Bye>>}

(* The phases in which clients are told that the server goes.                 *)
Ending == loop.at \in {"byes", "exit", "exited"}

(* The step that did not begin there began the farewells or went on.          *)
LEMMA EndingStep ==
  ASSUME Types, [Next]_vars, Ending
  PROVE  \/ SendBye \/ EndByes \/ Exit \/ (DeadlinePasses /\ mux' = mux /\ conn' = conn)
         \/ /\ mux' = mux /\ handled' = handled
            /\ loop'.at = loop.at /\ loop'.todo = loop.todo /\ loop'.byes = loop.byes
            /\ loop'.kill = loop.kill /\ loop'.late = loop.late
            /\ \/ conn' = conn /\ peer' = peer
               \/ \E d \in Clients : Writer(d)
               \/ \E d \in Clients :
                    \/ ReaderEnds(d) \/ ResyncDue(d) \/ PeerAttaches(d) \/ PeerSays(d) \/ PeerReads(d)
                    \/ PeerSeesEof(d) \/ PeerDies(d) \/ PeerHangs(d) \/ PeerResumes(d) \/ LinkBreaks(d)
<1>1. loop \in Loops
  BY DEF Types
<1>2. ASSUME NEW d \in Clients, HandleIncoming(d)
      PROVE  FALSE
  BY <1>2, QueuesOfHandlers DEF Ending
<1>3. ASSUME Settle \/ (\E p \in Panes : TakeClipboard(p)) \/ RelayClipboard \/ ExpireSilentClients \/ SendReply
         \/ EndReplies \/ SendCopies \/ SkipFrame \/ PushFrames \/ FlushBeforeShutdown \/ LastShellExits
      PROVE  FALSE
  BY <1>3, Zenon DEF Settle, TakeClipboard, RelayClipboard, ExpireSilentClients, SendReply, EndReplies, SendCopies,
     SkipFrame, PushFrames, FlushBeforeShutdown, LastShellExits, Ending
<1>4. CASE DeadlinePasses
  BY <1>4 DEF DeadlinePasses
<1>5. CASE PaneDraws \/ PaneWakes \/ \E p \in Panes : PaneStamps(p) \/ PaneStores(p)
  BY <1>5, Zenon DEF PaneDraws, PaneWakes, PaneStamps, PaneStores
<1>6. ASSUME NEW d \in Clients, Writer(d)
      PROVE  mux' = mux /\ handled' = handled /\ loop' = loop
  BY <1>6 DEF Writer, WriterSends, WriterBlocks, WriterResumes, WriterEnds
<1>7. ASSUME NEW d \in Clients,
              \/ ReaderEnds(d) \/ PeerAttaches(d) \/ PeerSays(d) \/ PeerReads(d)
              \/ PeerSeesEof(d) \/ PeerDies(d) \/ PeerHangs(d) \/ PeerResumes(d) \/ LinkBreaks(d)
      PROVE  mux' = mux /\ handled' = handled /\ loop' = loop
  BY <1>7 DEF ReaderEnds, PeerAttaches, PeerSays, PeerReads, PeerSeesEof, PeerDies, PeerHangs, PeerResumes,
     PeerState, LinkBreaks
<1>8. ASSUME NEW d \in Clients, ResyncDue(d)
      PROVE  /\ mux' = mux /\ handled' = handled
             /\ loop'.at = loop.at /\ loop'.todo = loop.todo /\ loop'.byes = loop.byes
             /\ loop'.kill = loop.kill /\ loop'.late = loop.late
  BY <1>1, <1>8 DEF ResyncDue, Loops
<1>9. CASE UNCHANGED vars
  BY <1>9 DEF vars
<1> QED
  BY <1>2, <1>3, <1>4, <1>5, <1>6, <1>7, <1>8, <1>9 DEF Next, Pass

(* What a writer does with what it is given.                                  *)
LEMMA WriterDoes ==
  ASSUME Types, Wired, NEW c \in Clients, NEW d \in Clients, Writer(d)
  PROVE  /\ conn'[c].out = conn[c].out /\ conn'[c].link = conn[c].link /\ peer' = peer /\ loop' = loop
         /\ \/ Held(c)
            \/ /\ conn[c].held = <<>> /\ conn[c].chan # <<>> /\ conn'[c].held = <<>> /\ conn'[c].chan = <<>>
               /\ conn'[c].writer = IF conn[c].chan = <<Bye>> THEN "ended" ELSE "idle"
            \/ /\ conn[c].held = <<>> /\ conn[c].chan # <<>>
               /\ conn'[c].held = conn[c].chan /\ conn'[c].chan = <<>> /\ conn'[c].writer = "holding"
            \/ /\ conn[c].held # <<>> /\ conn'[c].held = <<>> /\ conn'[c].chan = conn[c].chan
               /\ conn'[c].writer = IF conn[c].held = <<Bye>> THEN "ended" ELSE "idle"
            \/ /\ conn'[c].held = <<>> /\ conn'[c].chan = <<>> /\ conn'[c].writer = "ended"
               /\ Broken(c) \/ ~conn[c].out
<1>1. conn \in [Clients -> Conn] /\ conn[c] \in Conn
  BY DEF Types
<1>2. peer' = peer /\ loop' = loop
  BY DEF Writer, WriterSends, WriterBlocks, WriterResumes, WriterEnds
<1>3. CASE d # c
  <2>1. conn'[c] = conn[c]
    BY <1>1, <1>3 DEF Writer, WriterSends, WriterBlocks, WriterResumes, WriterEnds, Written
  <2> QED
    BY <1>2, <2>1 DEF Held
<1>4. CASE d = c
  <2>1. conn[c].held # <<>> <=> conn[c].writer = "holding"
    BY DEF Wired
  <2>2. CASE WriterSends(c)
    <3>1. Written(c, conn[c].chan) /\ conn[c].held = <<>> /\ conn[c].chan # <<>>
      BY <2>1, <2>2 DEF WriterSends
    <3> QED
      BY <1>1, <1>2, <3>1 DEF Written, Conn
  <2>3. CASE WriterBlocks(c)
    <3>1. conn[c].held = <<>> /\ conn[c].chan # <<>>
      BY <2>1, <2>3 DEF WriterBlocks
    <3> QED
      BY <1>1, <1>2, <2>3, <3>1 DEF WriterBlocks, Conn
  <2>4. CASE WriterResumes(c)
    <3>1. Written(c, conn[c].held) /\ conn[c].held # <<>>
      BY <2>1, <2>4 DEF WriterResumes
    <3> QED
      BY <1>1, <1>2, <3>1 DEF Written, Conn
  <2>5. CASE WriterEnds(c)
    BY <1>1, <1>2, <2>5 DEF WriterEnds, Conn
  <2> QED
    BY <1>4, <2>2, <2>3, <2>4, <2>5 DEF Writer
<1> QED
  BY <1>3, <1>4

(* No client the loop serves is told that the server goes before the          *)
(* farewells, and until then no writer ends but on a broken connection; a     *)
(* farewell is followed by nothing but the second one.                        *)
ByeOf(c) ==
  /\ conn[c].out
  /\ conn[c].held = <<Bye>> => Only(conn[c].chan)
  /\ conn[c].writer = "ended" => Broken(c) \/ Only(conn[c].chan)
  /\ ~Ending => conn[c].held # <<Bye>> /\ conn[c].chan # <<Bye>> /\ (conn[c].writer = "ended" => Broken(c))

ByeInv == \A c \in Attached : ByeOf(c)

LEMMA BrokenStays ==
  ASSUME NEW c, Ages(c), Broken(c)
  PROVE  Broken(c)'
  BY DEF Ages, Broken

LEMMA ByeInit == Init => ByeInv
  BY DEF Init, ByeInv, Attached, ToSet

LEMMA ByeKept ==
  ASSUME NEW c, ByeOf(c), Held(c), Ages(c), Ending => Ending'
  PROVE  ByeOf(c)'
  BY BrokenStays DEF Held, ByeOf

LEMMA ByeStep ==
  ASSUME Types, Types', Fits(mux), Wired, PlaceInv, NewInv, FirstInv, ByeInv, [Next]_vars
  PROVE  ByeInv'
<1> SUFFICES ASSUME NEW c \in Attached'
             PROVE  ByeOf(c)'
  BY DEF ByeInv
<1>1. c \in Clients /\ Attached \subseteq Clients
  BY AttachedType DEF Types, Attached
<1>2. conn[c] \in Conn
  BY <1>1 DEF Types
<1>3. Ending => Ending'
  <2> SUFFICES ASSUME Ending PROVE Ending'
    OBVIOUS
  <2>1. loop \in Loops
    BY DEF Types
  <2>2. SendBye => Ending'
    <3> SUFFICES ASSUME SendBye PROVE loop'.at = "byes"
      BY DEF Ending
    <3>1. /\ loop.at = "byes"
          /\ \/ loop' = [loop EXCEPT !.todo = Tail(loop.todo), !.byes = 0]
             \/ loop' = [loop EXCEPT !.byes = loop.byes + 1]
      BY ByeIs
    <3> QED
      BY <2>1, <3>1 DEF Loops
  <2>3. EndByes \/ Exit \/ DeadlinePasses => Ending'
    BY <2>1 DEF EndByes, Exit, DeadlinePasses, Ending, Loops
  <2> QED
    BY <2>2, <2>3, EndingStep DEF Ending
<1>4. ~Exit
  <2> SUFFICES ASSUME Exit PROVE Attached' = {}
    OBVIOUS
  <2>1. mux'.att = <<>>
    BY DEF Exit, Types, Muxes
  <2> QED
    BY <2>1 DEF Attached, ToSet
<1>5. CASE HandleAttach(c)
  <2>1. Taking(c, "attach")
    BY <1>5 DEF HandleAttach
  <2>2. Nothing(c) /\ conn[c].out /\ conn[c].writer = "idle"
    BY <1>1, <2>1 DEF FirstInv, First, Taking
  <2>3. conn[c].held = <<>> /\ conn[c].chan = <<>>
    BY <1>2, <2>2, EmptyLine DEF Nothing, InFlight, Line
  <2>4. Apart(c) /\ Unspoken(c)
    <3>1. HandleIncoming(c)
      BY <1>5 DEF HandleIncoming
    <3> QED
      BY <1>1, <2>2, <3>1, ConnOfHandlers DEF LetGo, Nothing
  <2> QED
    BY <2>2, <2>3, <2>4 DEF ByeOf, Apart, Unspoken, Linked, Only
<1>6. CASE ~HandleAttach(c)
  <2>1. c \in Attached /\ ByeOf(c)
    BY <1>1, <1>6, AttachedStep DEF ByeInv
  <2>2. Ages(c) /\ ~PeerAttaches(c)
    BY <1>1, <2>1, AgesStep DEF NewInv, PeerAttaches
  <2>3. ASSUME Held(c) PROVE ByeOf(c)'
    BY <1>3, <2>1, <2>2, <2>3, ByeKept
  <2>4. ASSUME NEW d \in Clients, HandleIncoming(d)
        PROVE  ByeOf(c)'
    <3>1. Apart(c) /\ Unspoken(c)
      BY <1>1, <1>6, <2>4, ConnOfHandlers
    <3> QED
      BY <2>3, <3>1 DEF Apart, Unspoken, Linked, Held
  <2>5. CASE Settle \/ (\E p \in Panes : TakeClipboard(p)) \/ RelayClipboard \/ ExpireSilentClients \/ SendReply
           \/ EndReplies \/ SendCopies \/ SkipFrame \/ PushFrames \/ FlushBeforeShutdown \/ SendBye \/ EndByes
           \/ LastShellExits \/ DeadlinePasses \/ PaneDraws \/ PaneWakes
           \/ \E p \in Panes : PaneStamps(p) \/ PaneStores(p)
    <3>1. Apart(c) /\ (Unspoken(c) \/ Speaks(c))
      BY <1>1, <2>5, ConnOfLoop
    <3>2. CASE Unspoken(c)
      BY <2>3, <3>1, <3>2 DEF Apart, Unspoken, Linked, Held
    <3>3. CASE Speaks(c)
      <4>1. PICK msg \in Message : conn'[c].chan = <<msg>> /\ (msg = Bye <=> SendBye)
        BY <3>3 DEF Speaks
      <4>2. conn[c].chan = <<>> /\ conn[c].writer # "ended" /\ conn'[c].out = conn[c].out
        BY <3>3 DEF Speaks, Accepts, Linked
      <4>3. conn'[c].writer # "ended" /\ conn'[c].held = conn[c].held
        BY <3>1, <4>2 DEF Apart
      <4>4. conn'[c].chan # <<>>
        <5>1. <<msg>> \in Seq(Message) /\ Len(<<msg>>) = 1
          OBVIOUS
        <5> QED
          BY <4>1, <5>1
      <4>5. CASE SendBye
        <5>1. Ending'
          BY <1>3, <4>5 DEF SendBye, Ending
        <5>2. conn'[c].chan = <<Bye>>
          BY <4>1, <4>5
        <5> QED
          BY <2>1, <4>2, <4>3, <5>1, <5>2 DEF ByeOf, Only
      <4>6. CASE ~SendBye
        <5>1. conn'[c] # conn[c]
          BY <4>2, <4>4
        <5>2. ~Ending
          <6> SUFFICES ASSUME Ending PROVE FALSE
            OBVIOUS
          <6>1. ~EndByes /\ ~(DeadlinePasses /\ conn' = conn) /\ ~(conn' = conn /\ peer' = peer)
            BY <5>1 DEF EndByes
          <6>2. ~Exit
            BY <1>4
          <6>3. \A d \in Clients : ~Writer(d)
            BY <1>1, <4>2, <4>4, WriterDoes DEF Held
          <6>4. \A d \in Clients :
                  ~(\/ ReaderEnds(d) \/ ResyncDue(d) \/ PeerAttaches(d) \/ PeerSays(d) \/ PeerReads(d)
                    \/ PeerSeesEof(d) \/ PeerDies(d) \/ PeerHangs(d) \/ PeerResumes(d) \/ LinkBreaks(d))
            BY <1>1, <2>2, <4>2, <4>4, HeldByClients DEF Held
          <6> QED
            BY <4>6, <6>1, <6>2, <6>3, <6>4, EndingStep
        <5>3. conn'[c].chan # <<Bye>>
          BY <4>1, <4>6
        <5> QED
          BY <2>1, <4>2, <4>3, <5>2, <5>3 DEF ByeOf
      <4> QED
        BY <4>5, <4>6
    <3> QED
      BY <3>1, <3>2, <3>3
  <2>6. CASE Exit
    BY <1>4, <2>6
  <2>7. ASSUME NEW d \in Clients, Writer(d)
        PROVE  ByeOf(c)'
    <3>1. /\ conn'[c].out = conn[c].out /\ Ending' = Ending /\ (Broken(c) => Broken(c)')
          /\ \/ Held(c)
             \/ /\ conn[c].held = <<>> /\ conn[c].chan # <<>> /\ conn'[c].held = <<>> /\ conn'[c].chan = <<>>
                /\ conn'[c].writer = IF conn[c].chan = <<Bye>> THEN "ended" ELSE "idle"
             \/ /\ conn[c].held = <<>> /\ conn[c].chan # <<>>
                /\ conn'[c].held = conn[c].chan /\ conn'[c].chan = <<>> /\ conn'[c].writer = "holding"
             \/ /\ conn[c].held # <<>> /\ conn'[c].held = <<>> /\ conn'[c].chan = conn[c].chan
                /\ conn'[c].writer = IF conn[c].held = <<Bye>> THEN "ended" ELSE "idle"
             \/ /\ conn'[c].held = <<>> /\ conn'[c].chan = <<>> /\ conn'[c].writer = "ended"
                /\ Broken(c) \/ ~conn[c].out
      BY <1>1, <2>2, <2>7, WriterDoes, BrokenStays DEF Ending
    <3>2. CASE /\ conn[c].held = <<>> /\ conn[c].chan # <<>>
               /\ conn'[c].held = conn[c].chan /\ conn'[c].chan = <<>> /\ conn'[c].writer = "holding"
      BY <2>1, <3>1, <3>2 DEF ByeOf, Only
    <3>3. CASE /\ conn[c].held = <<>> /\ conn[c].chan # <<>> /\ conn'[c].held = <<>> /\ conn'[c].chan = <<>>
               /\ conn'[c].writer = IF conn[c].chan = <<Bye>> THEN "ended" ELSE "idle"
      BY <2>1, <3>1, <3>3 DEF ByeOf, Only
    <3>4. CASE /\ conn[c].held # <<>> /\ conn'[c].held = <<>> /\ conn'[c].chan = conn[c].chan
               /\ conn'[c].writer = IF conn[c].held = <<Bye>> THEN "ended" ELSE "idle"
      BY <2>1, <3>1, <3>4 DEF ByeOf, Only
    <3> QED
      BY <2>1, <2>3, <3>1, <3>2, <3>3, <3>4 DEF ByeOf, Only
  <2>8. ASSUME NEW d \in Clients,
                \/ ReaderEnds(d) \/ ResyncDue(d) \/ PeerAttaches(d) \/ PeerSays(d) \/ PeerReads(d)
                \/ PeerSeesEof(d) \/ PeerDies(d) \/ PeerHangs(d) \/ PeerResumes(d) \/ LinkBreaks(d)
        PROVE  ByeOf(c)'
    BY <1>1, <2>2, <2>3, <2>8, HeldByClients
  <2>9. CASE UNCHANGED vars
    BY <2>3, <2>9 DEF vars, Held
  <2> QED
    BY <2>4, <2>5, <2>6, <2>7, <2>8, <2>9 DEF Next, Pass
<1> QED
  BY <1>5, <1>6

(* The first farewell is on its way when the second is tried.                 *)
Behaves(k) == k.writer = "ended" \/ k.chan = <<Bye>> \/ (k.chan = <<>> /\ k.held = <<Bye>>)

SecondInv == loop.byes = 1 => Behaves(conn[Head(loop.todo)])

(* The farewells begin when no reply is owed, or too late for them, or, with  *)
(* the last shell, not at all.                                                *)
LEMMA BeginStep ==
  ASSUME Types, Types', [Next]_vars, ~Ending, Ending'
  PROVE  \/ LastShellExits
         \/ /\ loop' = [loop EXCEPT !.at = "byes", !.todo = mux.att] /\ loop.kill /\ loop.at \in {"receive", "flush"}
            /\ loop.late \/ \A c \in Attached : mux.srv[c].replies = <<>>
            /\ mux' = mux /\ conn' = conn /\ peer' = peer /\ handled' = handled
<1>1. loop \in Loops /\ mux \in Muxes /\ mux' \in Muxes
  BY DEF Types
<1>2. ASSUME NEW l \in Loops, Forward(l, mux', loop') \/ Forward(l, mux, loop')
      PROVE  FALSE
  BY <1>2 DEF Forward, Ending
<1>3. ASSUME loop'.at = loop.at
      PROVE  FALSE
  BY <1>3 DEF Ending
<1>4. ASSUME NEW d \in Clients, HandleIncoming(d)
      PROVE  FALSE
  BY <1>4, QueuesOfHandlers DEF Ending
<1>5. CASE Settle
  <2> DEFINE l == [loop EXCEPT !.unread = Panes,
                     !.dirty = \/ loop.dirty \/ panes.woken \/ loop.due \cap Attached # {}
                               \/ \E c \in Attached : mux'.srv[c].needsFull \/ mux'.srv[c].pending]
  <2>1. loop' = IF Panes = {} THEN ToExpire(l, mux') ELSE [l EXCEPT !.at = "clipboard"]
    BY <1>5 DEF Settle
  <2>2. l \in Loops
    BY <1>1 DEF Loops
  <2> HIDE DEF l
  <2>3. CASE loop' = ToExpire(l, mux')
    BY <1>1, <1>2, <2>2, <2>3, ForwardFrom
  <2>4. CASE loop' = [l EXCEPT !.at = "clipboard"]
    BY <2>2, <2>4 DEF Loops, Ending
  <2> QED
    BY <2>1, <2>3, <2>4
<1>6. ASSUME NEW p \in Panes, TakeClipboard(p)
      PROVE  FALSE
  BY <1>1, <1>3, <1>6 DEF TakeClipboard, Loops
<1>7. CASE RelayClipboard
  <2> DEFINE l == [loop EXCEPT !.latest = 0]
  <2>1. loop' = ToExpire(l, mux') /\ l \in Loops
    BY <1>1, <1>7 DEF RelayClipboard, Loops
  <2> HIDE DEF l
  <2> QED
    BY <1>1, <1>2, <2>1, ForwardFrom
<1>8. CASE ExpireSilentClients
  <2>1. \E dirty \in BOOLEAN : loop' = ToReplies([loop EXCEPT !.dirty = dirty], mux')
    BY <1>1, <1>8 DEF ExpireSilentClients, Loops
  <2>2. PICK dirty \in BOOLEAN : loop' = ToReplies([loop EXCEPT !.dirty = dirty], mux')
    BY <2>1
  <2> DEFINE l == [loop EXCEPT !.dirty = dirty]
  <2>3. l \in Loops
    BY <1>1 DEF Loops
  <2> HIDE DEF l
  <2> QED
    BY <1>1, <1>2, <2>2, <2>3, ForwardFrom DEF l
<1>9. CASE SendReply
  <2>1. loop.at = "replies" /\ \E todo, dead : loop' = [loop EXCEPT !.todo = todo, !.dead = dead] \/ loop' = [loop EXCEPT !.todo = todo]
                                              \/ loop' = loop
    BY <1>9, ReplyIs
  <2> QED
    BY <1>1, <1>3, <2>1 DEF Loops
<1>10. CASE EndReplies
  <2> DEFINE l == [loop EXCEPT !.dead = {}]
  <2>1. loop' = (IF loop.kill THEN [l EXCEPT !.at = "flush"] ELSE ToCopies(l, mux')) /\ l \in Loops
    BY <1>1, <1>10 DEF EndReplies, Loops
  <2> HIDE DEF l
  <2>2. loop' = [l EXCEPT !.at = "flush"] => loop'.at = "flush"
    BY <2>1 DEF Loops
  <2> QED
    BY <1>1, <1>2, <2>1, <2>2, ForwardFrom DEF Ending
<1>11. CASE SendCopies
  BY <1>1, <1>2, <1>11, ForwardFrom DEF SendCopies
<1>12. CASE SkipFrame \/ PushFrames
  <2>1. loop'.at = "receive"
    BY <1>1, <1>12 DEF SkipFrame, PushFrames, Loops
  <2> QED
    BY <2>1 DEF Ending
<1>13. CASE FlushBeforeShutdown
  <2>1. loop' # ToReplies(loop, mux)
    BY <1>1, <1>2, ForwardFrom
  <2> QED
    BY <1>13, <2>1 DEF FlushBeforeShutdown
<1>14. ASSUME SendBye \/ EndByes \/ Exit
       PROVE  FALSE
  BY <1>14 DEF SendBye, EndByes, Exit, Ending
<1>15. ASSUME DeadlinePasses
       PROVE  FALSE
  BY <1>1, <1>3, <1>15 DEF DeadlinePasses, Loops
<1>16. ASSUME PaneDraws \/ PaneWakes \/ \E p \in Panes : PaneStamps(p) \/ PaneStores(p)
       PROVE  FALSE
  BY <1>3, <1>16 DEF PaneDraws, PaneWakes, PaneStamps, PaneStores
<1>17. ASSUME NEW d \in Clients,
               \/ Writer(d) \/ ReaderEnds(d) \/ ResyncDue(d) \/ PeerAttaches(d) \/ PeerSays(d) \/ PeerReads(d)
               \/ PeerSeesEof(d) \/ PeerDies(d) \/ PeerHangs(d) \/ PeerResumes(d) \/ LinkBreaks(d)
       PROVE  FALSE
  <2>1. loop' = loop \/ \E due : loop' = [loop EXCEPT !.due = due]
    BY <1>17 DEF Writer, WriterSends, WriterBlocks, WriterResumes, WriterEnds, ReaderEnds, ResyncDue,
       PeerAttaches, PeerSays, PeerReads, PeerSeesEof, PeerDies, PeerHangs, PeerResumes, PeerState, LinkBreaks
  <2> QED
    BY <1>1, <1>3, <2>1 DEF Loops
<1>18. ASSUME UNCHANGED vars
       PROVE  FALSE
  BY <1>3, <1>18 DEF vars
<1> QED
  BY <1>4, <1>5, <1>6, <1>7, <1>8, <1>9, <1>10, <1>11, <1>12, <1>13, <1>14, <1>15, <1>16, <1>17, <1>18
  DEF Next, Pass

LEMMA SecondStep ==
  ASSUME Types, Types', Wired, PlaceInv, PlaceInv', NewInv, SecondInv, [Next]_vars
  PROVE  SecondInv'
<1> SUFFICES ASSUME loop'.byes = 1
             PROVE  Behaves(conn'[Head(loop'.todo)])
  BY DEF SecondInv
<1> DEFINE h == Head(loop.todo)
<1>1. loop \in Loops /\ loop.todo \in Seq(Clients) /\ conn \in [Clients -> Conn] /\ loop'.at = "byes"
  BY DEF Types, Loops, PlaceInv
<1>2. Ending
  <2> SUFFICES ASSUME ~Ending PROVE FALSE
    OBVIOUS
  <2>1. Ending' /\ loop.byes = 0
    BY <1>1 DEF Ending, PlaceInv
  <2>2. LastShellExits => loop'.at = "exit"
    BY <1>1 DEF LastShellExits, Loops
  <2>3. loop' = [loop EXCEPT !.at = "byes", !.todo = mux.att] => loop'.byes = loop.byes
    BY <1>1 DEF Loops
  <2> QED
    BY <1>1, <2>1, <2>2, <2>3, BeginStep
<1>3. ASSUME loop.byes = 1
      PROVE  h \in Clients /\ Behaves(conn[h]) /\ peer[h].state # "new" /\ Head(loop.todo) = h
  <2>1. loop.at = "byes" /\ loop.todo # <<>>
    BY <1>3 DEF PlaceInv
  <2>2. h \in ToSet(loop.todo)
    BY <1>1, <2>1, HeadAndTail
  <2>3. h \in Attached /\ h \in Clients
    BY <1>1, <2>1, <2>2 DEF PlaceInv
  <2> QED
    BY <1>3, <2>3 DEF SecondInv, NewInv
<1>4. CASE SendBye
  <2>1. /\ h \in Clients
        /\ \/ /\ conn' = [conn EXCEPT ![h] = [conn[h] EXCEPT !.chan = <<Bye>>]]
              /\ \/ loop' = [loop EXCEPT !.byes = loop.byes + 1]
                 \/ loop' = [loop EXCEPT !.todo = Tail(loop.todo), !.byes = 0]
           \/ loop' = [loop EXCEPT !.todo = Tail(loop.todo), !.byes = 0]
    BY <1>4, ByeIs
  <2> DEFINE rest == Tail(loop.todo)
  <2> HIDE DEF h, rest
  <2>2. loop' = [loop EXCEPT !.todo = rest, !.byes = 0] => loop'.byes = 0
    BY <1>1 DEF Loops
  <2>3. loop' = [loop EXCEPT !.byes = loop.byes + 1] => loop'.todo = loop.todo
    BY <1>1 DEF Loops
  <2>4. conn' = [conn EXCEPT ![h] = [conn[h] EXCEPT !.chan = <<Bye>>]] => conn'[h].chan = <<Bye>>
    BY <1>1, <2>1 DEF Conn
  <2>5. loop' # [loop EXCEPT !.todo = rest, !.byes = 0]
    BY <2>2
  <2>6. loop'.todo = loop.todo /\ conn'[h].chan = <<Bye>>
    BY <2>1, <2>3, <2>4, <2>5 DEF rest
  <2> QED
    BY <2>6 DEF Behaves, h
<1>5. ASSUME EndByes \/ Exit
      PROVE  FALSE
  BY <1>1, <1>5 DEF EndByes, Exit, Loops
<1>6. CASE DeadlinePasses /\ mux' = mux /\ conn' = conn
  <2>1. loop'.byes = loop.byes /\ loop'.todo = loop.todo
    BY <1>1, <1>6 DEF DeadlinePasses, Loops
  <2> QED
    BY <1>3, <1>6, <2>1
<1>7. ASSUME loop'.todo = loop.todo, loop'.byes = loop.byes, Held(h)
      PROVE  Behaves(conn'[Head(loop'.todo)])
  BY <1>3, <1>7 DEF Held, Behaves
<1>8. ASSUME loop'.todo = loop.todo, loop'.byes = loop.byes, NEW d \in Clients, Writer(d)
      PROVE  Behaves(conn'[Head(loop'.todo)])
  <2>1. h \in Clients /\ Behaves(conn[h]) /\ Head(loop'.todo) = h
    BY <1>3, <1>8
  <2> HIDE DEF h
  <2>2. \/ Held(h)
        \/ /\ conn[h].held = <<>> /\ conn[h].chan # <<>> /\ conn'[h].held = <<>> /\ conn'[h].chan = <<>>
           /\ conn'[h].writer = IF conn[h].chan = <<Bye>> THEN "ended" ELSE "idle"
        \/ /\ conn[h].held = <<>> /\ conn[h].chan # <<>>
           /\ conn'[h].held = conn[h].chan /\ conn'[h].chan = <<>> /\ conn'[h].writer = "holding"
        \/ /\ conn[h].held # <<>> /\ conn'[h].held = <<>> /\ conn'[h].chan = conn[h].chan
           /\ conn'[h].writer = IF conn[h].held = <<Bye>> THEN "ended" ELSE "idle"
        \/ conn'[h].writer = "ended"
    BY <1>8, <2>1, WriterDoes
  <2>3. conn[h].writer = "ended" => conn'[h].writer = "ended"
    BY <1>8, <2>1, AgesOfWriters DEF Ages
  <2> QED
    BY <2>1, <2>2, <2>3 DEF Behaves, Held
<1> QED
  BY <1>2, <1>3, <1>4, <1>5, <1>6, <1>7, <1>8, EndingStep, HeldByClients DEF Held, PeerAttaches

LEMMA SecondInit == Init => SecondInv
  BY DEF Init, SecondInv

(* While the server tells its clients that it goes, in time, it owes none of  *)
(* them a reply, all that is on its way to one that can still be reached is   *)
(* every answer, and after the reply that was last to one it is done with     *)
(* there are farewells only.                                                  *)
Parting(c) ==
  /\ mux.srv[c].replies = <<>>
  /\ Broken(c) \/ Final(c).got = handled[c]
  /\ \/ loop.at = "byes" /\ c \in ToSet(loop.todo)
     \/ Broken(c)
     \/ Only(conn[c].held) /\ Only(conn[c].chan)

FarewellInv == loop.at \in {"byes", "exit"} /\ loop.kill /\ ~loop.late => \A c \in Attached : Parting(c)

LEMMA FarewellInit == Init => FarewellInv
  BY DEF Init, FarewellInv

LEMMA FarewellBegins ==
  ASSUME Types, Types', ReplyInv, ByeInv, [Next]_vars, ~Ending, Ending',
         loop'.at \in {"byes", "exit"}, loop'.kill, ~loop'.late, NEW c \in Clients, c \in Attached'
  PROVE  Parting(c)'
<1>1. loop \in Loops
  BY DEF Types
<1>2. ~LastShellExits
  BY <1>1 DEF LastShellExits, Loops
<1>3. /\ loop' = [loop EXCEPT !.at = "byes", !.todo = mux.att]
      /\ loop.late \/ \A d \in Attached : mux.srv[d].replies = <<>>
      /\ mux' = mux /\ conn' = conn /\ peer' = peer /\ handled' = handled
  BY <1>2, BeginStep
<1>4. loop'.at = "byes" /\ loop'.todo = mux.att /\ ~loop.late /\ c \in Attached
  BY <1>1, <1>3 DEF Attached, Loops
<1>5. mux.srv[c].replies = <<>> /\ c \in ToSet(loop'.todo)
  BY <1>3, <1>4 DEF Attached
<1>6. Owes(c) /\ ByeOf(c)
  BY <1>4 DEF ReplyInv, ByeInv
<1>7. Broken(c) \/ Final(c).got \o Answers(mux.srv[c].replies) = handled[c]
  BY <1>4, <1>5, <1>6 DEF Owes, ByeOf
<1>8. Final(c).got \in Seq(Answer) /\ Answers(mux.srv[c].replies) = <<>>
  BY <1>5, OwedTypes, AnswersOf
<1> DEFINE got == Final(c).got
<1> HIDE DEF got
<1>9. got \o <<>> = got
  BY <1>8 DEF got
<1>10. Final(c)'.got = Final(c).got
  <2>1. Still(c)
    BY <1>3, LineStill
  <2> QED
    BY <2>1, GotKept
<1>11. Broken(c)' <=> Broken(c)
  BY <1>3 DEF Broken
<1> QED
  BY <1>3, <1>4, <1>5, <1>7, <1>8, <1>9, <1>10, <1>11 DEF Parting, got

(* The second farewell finds room when the first was taken, and before the    *)
(* first there was nothing but replies.                                       *)
LEMMA FarewellOfBye ==
  ASSUME Types, Wired, PlaceInv, SecondInv, NEW c \in Clients, SendBye, ~loop.late, Parting(c), ByeOf(c),
         Broken(c) => Broken(c)'
  PROVE  \/ loop'.at = "byes" /\ c \in ToSet(loop'.todo)
         \/ Broken(c)'
         \/ Only(conn'[c].held) /\ Only(conn'[c].chan)
<1> DEFINE h == Head(loop.todo)
           rest == Tail(loop.todo)
<1>1. /\ loop.at = "byes" /\ loop.todo # <<>> /\ h \in Clients /\ rest \in Seq(Clients)
      /\ \/ /\ Accepts(h)
            /\ conn' = [conn EXCEPT ![h] = [conn[h] EXCEPT !.chan = <<Bye>>]]
            /\ loop' = IF loop.byes + 1 = Farewells THEN [loop EXCEPT !.todo = rest, !.byes = 0]
                       ELSE [loop EXCEPT !.byes = loop.byes + 1]
         \/ WriterGone(h) /\ loop' = [loop EXCEPT !.todo = rest, !.byes = 0] /\ conn' = conn
  BY ByeIs
<1>2. loop \in Loops /\ loop.todo \in Seq(Clients) /\ conn \in [Clients -> Conn] /\ conn[c] \in Conn
  BY DEF Types, Loops
<1>3. ToSet(loop.todo) \subseteq {h} \cup ToSet(rest)
  BY <1>1, <1>2, HeadAndTail
<1>4. loop.byes = 1 => Behaves(conn[h])
  BY DEF SecondInv
<1> HIDE DEF h, rest
<1>5. loop' = [loop EXCEPT !.byes = loop.byes + 1] => loop'.at = "byes" /\ loop'.todo = loop.todo
  BY <1>1, <1>2 DEF Loops
<1>6. loop' = [loop EXCEPT !.todo = rest, !.byes = 0] => loop'.at = "byes" /\ loop'.todo = rest
  BY <1>1, <1>2 DEF Loops
<1>7. loop.byes \in {0, 1}
  BY DEF PlaceInv
<1>8. CASE c # h
  <2>1. conn'[c] = conn[c]
    BY <1>1, <1>2, <1>8
  <2> QED
    BY <1>1, <1>3, <1>5, <1>6, <1>8, <2>1 DEF Parting
<1>9. CASE c = h /\ loop' = [loop EXCEPT !.byes = loop.byes + 1] /\ conn' = [conn EXCEPT ![h] = [conn[h] EXCEPT !.chan = <<Bye>>]]
  <2>1. conn'[c].held = conn[c].held /\ conn'[c].chan = <<Bye>>
    BY <1>1, <1>2, <1>9 DEF Conn
  <2> QED
    BY <1>5, <1>9, <2>1 DEF Parting, Only
<1>10. CASE /\ c = h /\ Accepts(h) /\ loop.byes + 1 = Farewells
            /\ conn' = [conn EXCEPT ![h] = [conn[h] EXCEPT !.chan = <<Bye>>]]
  <2>1. conn'[c].held = conn[c].held /\ conn'[c].chan = <<Bye>>
    BY <1>1, <1>2, <1>10 DEF Conn
  <2>2. loop.byes = 1
    BY <1>7, <1>10 DEF Farewells
  <2>3. conn[c].chan # <<Bye>>
    <3>1. Len(<<Bye>>) = 1 /\ Len(<<>>) = 0
      OBVIOUS
    <3> QED
      BY <1>10, <3>1 DEF Accepts
  <2>4. conn[c].held = <<Bye>>
    BY <1>4, <1>10, <2>2, <2>3 DEF Behaves, Accepts
  <2> QED
    BY <2>1, <2>4 DEF Only
<1>11. CASE c = h /\ WriterGone(h) /\ conn' = conn
  <2>1. conn[c].held = <<>>
    BY <1>11 DEF Wired, WriterGone
  <2> QED
    BY <1>11, <2>1 DEF ByeOf, WriterGone, Only
<1> QED
  BY <1>1, <1>8, <1>9, <1>10, <1>11

LEMMA FarewellStep ==
  ASSUME Types, Types', Wired, PlaceInv, NewInv, ReplyInv, ByeInv, SecondInv, FarewellInv, [Next]_vars
  PROVE  FarewellInv'
<1> SUFFICES ASSUME loop'.at \in {"byes", "exit"}, loop'.kill, ~loop'.late, NEW c \in Attached'
             PROVE  Parting(c)'
  BY DEF FarewellInv
<1>1. c \in Clients /\ loop \in Loops /\ Ending'
  BY AttachedType DEF Types, Attached, Ending
<1>2. CASE ~Ending
  BY <1>1, <1>2, FarewellBegins
<1>3. CASE Ending
  <2>1. ~Exit /\ ~DeadlinePasses /\ ~SendReply
    BY <1>1, <1>3 DEF Exit, DeadlinePasses, SendReply, Loops, Ending
  <2>2. /\ mux' = mux /\ handled' = handled
        /\ loop.at \in {"byes", "exit"} /\ loop.kill /\ ~loop.late
    <3>1. CASE SendBye
      <4>1. /\ loop.at = "byes" /\ mux' = mux /\ handled' = handled
            /\ \/ loop' = [loop EXCEPT !.todo = Tail(loop.todo), !.byes = 0]
               \/ loop' = [loop EXCEPT !.byes = loop.byes + 1]
        BY <3>1, ByeIs
      <4> QED
        BY <1>1, <4>1 DEF Loops
    <3>2. CASE EndByes
      BY <1>1, <3>2 DEF EndByes, Loops
    <3> QED
      BY <1>3, <2>1, <3>1, <3>2, EndingStep
  <2>3. c \in Attached /\ Parting(c) /\ ByeOf(c)
    BY <2>2 DEF FarewellInv, ByeInv, Attached
  <2>4. Ages(c) /\ ~PeerAttaches(c)
    BY <1>1, <2>3, AgesStep DEF NewInv, PeerAttaches
  <2>5. Broken(c) => Broken(c)'
    BY <2>4, BrokenStays
  <2>6. Broken(c)' \/ Final(c)'.got = Final(c).got
    <3>1. CASE SendBye \/ EndByes
      BY <1>1, <3>1, LineOfLoop, GotKept
    <3>2. CASE conn' = conn /\ peer' = peer
      <4>1. Still(c)
        BY <1>1, <3>2, LineStill
      <4> QED
        BY <1>1, <4>1, GotKept
    <3>3. ASSUME NEW d \in Clients, Writer(d)
          PROVE  Broken(c)' \/ Final(c)'.got = Final(c).got
      <4>1. CASE Still(c)
        BY <1>1, <4>1, GotKept
      <4>2. CASE WriterEnds(c)
        BY <2>3, <2>5, <4>2 DEF WriterEnds, ByeOf
      <4> QED
        BY <1>1, <3>3, <4>1, <4>2, LineOfWriters
    <3>4. ASSUME NEW d \in Clients,
                  \/ ReaderEnds(d) \/ ResyncDue(d) \/ PeerAttaches(d) \/ PeerSays(d) \/ PeerReads(d)
                  \/ PeerSeesEof(d) \/ PeerDies(d) \/ PeerHangs(d) \/ PeerResumes(d) \/ LinkBreaks(d)
          PROVE  Final(c)'.got = Final(c).got
      BY <1>1, <3>4, LineOfClients, GotKept
    <3> QED
      BY <1>3, <2>1, <3>1, <3>2, <3>3, <3>4, EndingStep
  <2>7. ASSUME loop'.at = loop.at, loop'.todo = loop.todo, Only(conn[c].held) /\ Only(conn[c].chan) =>
                 Broken(c)' \/ (Only(conn'[c].held) /\ Only(conn'[c].chan))
        PROVE  \/ loop'.at = "byes" /\ c \in ToSet(loop'.todo)
               \/ Broken(c)'
               \/ Only(conn'[c].held) /\ Only(conn'[c].chan)
    BY <2>3, <2>5, <2>7 DEF Parting
  <2>8. \/ loop'.at = "byes" /\ c \in ToSet(loop'.todo)
        \/ Broken(c)'
        \/ Only(conn'[c].held) /\ Only(conn'[c].chan)
    <3>1. CASE SendBye
      BY <1>1, <2>2, <2>3, <2>5, <3>1, FarewellOfBye
    <3>2. CASE EndByes
      <4>1. c \notin ToSet(loop.todo) /\ conn' = conn
        BY <3>2 DEF EndByes, ToSet
      <4> QED
        BY <2>3, <2>5, <4>1 DEF Parting
    <3>3. CASE loop'.at = loop.at /\ loop'.todo = loop.todo /\ conn' = conn /\ peer' = peer
      BY <2>7, <3>3
    <3>4. ASSUME loop'.at = loop.at, loop'.todo = loop.todo, NEW d \in Clients, Writer(d)
          PROVE  Only(conn[c].held) /\ Only(conn[c].chan) => Only(conn'[c].held) /\ Only(conn'[c].chan)
      BY <1>1, <3>4, WriterDoes DEF Only, Held
    <3>5. ASSUME loop'.at = loop.at, loop'.todo = loop.todo, NEW d \in Clients,
                  \/ ReaderEnds(d) \/ ResyncDue(d) \/ PeerAttaches(d) \/ PeerSays(d) \/ PeerReads(d)
                  \/ PeerSeesEof(d) \/ PeerDies(d) \/ PeerHangs(d) \/ PeerResumes(d) \/ LinkBreaks(d)
          PROVE  Only(conn[c].held) /\ Only(conn[c].chan) => Only(conn'[c].held) /\ Only(conn'[c].chan)
      BY <1>1, <2>4, <3>5, HeldByClients DEF Held
    <3> QED
      BY <1>3, <2>1, <2>7, <3>1, <3>2, <3>3, <3>4, <3>5, EndingStep
  <2> QED
    BY <2>2, <2>3, <2>5, <2>6, <2>8 DEF Parting
<1> QED
  BY <1>2, <1>3

(* After farewells there is no answer.                                        *)
LEMMA OnlyByes ==
  ASSUME Types, NEW c \in Clients, Only(conn[c].held), Only(conn[c].chan)
  PROVE  Final(c).got = Reaching(c)
<1> DEFINE w == conn[c].wire
           p == peer[c]
<1>1. conn[c] \in Conn /\ p \in Peer
  BY DEF Types
<1>2. w \in Seq(Message) /\ Bye \in Message /\ Bye \notin Reply
  BY <1>1, LineType DEF Message, Bye, Reply
<1>3. ASSUME NEW s \in Seq(Message), NEW q \in {<<>>, <<Bye>>}
      PROVE  s \o q \in Seq(Message) /\ After(p, s \o q).got = After(p, s).got
  <2>1. CASE q = <<>>
    <3>1. s \o <<>> = s
      OBVIOUS
    <3> QED
      BY <2>1, <3>1
  <2>2. CASE q = <<Bye>>
    <3>1. s \o <<Bye>> = Append(s, Bye) /\ Append(s, Bye) \in Seq(Message)
      BY <1>2
    <3>2. After(p, Append(s, Bye)) = Received(After(p, s), Bye) /\ After(p, s) \in Peer
      BY <1>1, <1>2, AfterSends, AfterType
    <3>3. Received(After(p, s), Bye).got = After(p, s).got
      BY <1>2, <3>2, GotGrows
    <3> QED
      BY <2>2, <3>1, <3>2, <3>3
  <2> QED
    BY <1>3, <2>1, <2>2
<1>4. InFlight(c) = (w \o conn[c].held) \o conn[c].chan
  BY DEF InFlight
<1> HIDE DEF w, p
<1>5. w \o conn[c].held \in Seq(Message) /\ After(p, w \o conn[c].held).got = After(p, w).got
  BY <1>2, <1>3 DEF Only
<1>6. After(p, (w \o conn[c].held) \o conn[c].chan).got = After(p, w \o conn[c].held).got
  BY <1>3, <1>5 DEF Only
<1> QED
  BY <1>4, <1>5, <1>6 DEF Final, Reaching, w, p

LEMMA ReachingFirst ==
  ASSUME Types, NEW c \in Clients
  PROVE  Reaching(c) \in Seq(Answer) /\ IsPrefix(Reaching(c), Final(c).got)
<1> DEFINE more == conn[c].held \o conn[c].chan
           w == conn[c].wire
<1>1. conn[c] \in Conn /\ peer[c] \in Peer
  BY DEF Types
<1>2. w \in Seq(Message) /\ conn[c].held \in Seq(Message) /\ conn[c].chan \in Seq(Message) /\ more \in Seq(Message)
  BY <1>1, LineType
<1>3. InFlight(c) = w \o more
  BY <1>2, Regroup DEF InFlight
<1>4. After(peer[c], w) \in Peer
  BY <1>1, <1>2, AfterType
<1> HIDE DEF w, more
<1>5. IsPrefix(After(peer[c], w).got, After(peer[c], w \o more).got)
  BY <1>1, <1>2, AfterPart
<1> QED
  BY <1>3, <1>4, <1>5 DEF Final, Reaching, Peer, w

LEMMA RepliesAre ==
  ASSUME Types, PlaceInv, AskInv, ReplyInv, FarewellInv
  PROVE  RepliesDelivered
<1>1. ASSUME NEW c \in Clients
      PROVE  InOrder(c) /\ BusyNeverRan(c)
  <2>1. Owes(c)
    BY DEF ReplyInv
  <2>2. IsPrefix(Reaching(c), handled[c])
    <3>1. /\ Final(c).got \in Seq(Answer) /\ handled[c] \in Seq(Answer) /\ Reaching(c) \in Seq(Answer)
          /\ IsPrefix(Reaching(c), Final(c).got) /\ IsPrefix(Final(c).got, handled[c])
      BY <2>1, OwedTypes, ReachingFirst DEF Owes
    <3> QED
      BY <3>1, PrefixThen
  <2>3. Connected(c) /\ ~mux.srv[c].overflowed => Final(c).got \o Answers(mux.srv[c].replies) = handled[c]
    BY <2>1 DEF Owes, Connected
  <2>4. BusyNeverRan(c)
    BY DEF AskInv, Behind
  <2> QED
    BY <2>2, <2>3, <2>4 DEF InOrder, Final
<1>2. ASSUME loop.at = "exit", loop.kill, ~loop.late, NEW c \in Attached
      PROVE  Flushed(c)
  <2>1. Parting(c) /\ c \in Clients
    BY <1>2, AttachedType DEF FarewellInv, Types, Attached
  <2>2. Broken(c) \/ (Final(c).got = handled[c] /\ Only(conn[c].held) /\ Only(conn[c].chan))
    BY <1>2, <2>1 DEF Parting
  <2> QED
    BY <2>1, <2>2, OnlyByes DEF Flushed
<1> QED
  BY <1>1, <1>2 DEF RepliesDelivered

(* Commands are answered in the order they came, each once, and what was      *)
(* answered with "busy" never ran; what reaches a client is the first         *)
(* answers, to one that is still connected every answer is on its way, and    *)
(* when kill-server ends the server in time every one is in the socket or was *)
(* read (handle_command, queue_reply, drain_replies, flush_before_shutdown).  *)
THEOREM EveryReplyDelivered == Spec => []RepliesDelivered
<1> DEFINE Inv == /\ Types /\ WiredInv /\ PlaceInv /\ ScreenInv /\ NewInv /\ FirstInv /\ AskInv
                  /\ ReplyInv /\ ByeInv /\ SecondInv /\ FarewellInv
<1>1. Init => Inv
  BY TypesInit, WiredInit, PlaceInit, ScreenInit, NewInit, FirstInit, AskInit, ReplyInit, ByeInit, SecondInit,
     FarewellInit
<1>2. Inv /\ [Next]_vars => Inv'
  <2> SUFFICES ASSUME Inv, [Next]_vars PROVE Inv'
    OBVIOUS
  <2>1. Types'
    BY TypesStep
  <2>2. WiredInv' /\ PlaceInv' /\ ScreenInv'
    BY <2>1, WiredStep, PlaceStep, ScreenStep
  <2>3. Fits(mux) /\ Wired
    BY DEF ScreenInv, WiredInv
  <2>4. NewInv' /\ FirstInv' /\ AskInv'
    BY <2>1, <2>3, NewStep, FirstStep, AskStep
  <2>5. ReplyInv' /\ ByeInv'
    BY <2>1, <2>3, ReplyStep, ByeStep
  <2>6. SecondInv' /\ FarewellInv'
    BY <2>1, <2>2, <2>3, SecondStep, FarewellStep
  <2> QED
    BY <2>1, <2>2, <2>4, <2>5, <2>6
<1>3. Inv => RepliesDelivered
  BY RepliesAre
<1> QED
  BY <1>1, <1>2, <1>3, PTL DEF Spec
================================================================================
