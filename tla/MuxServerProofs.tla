---------------------------- MODULE MuxServerProofs ----------------------------
(* Proofs about the comux server: types, the line to each client, what it is  *)
(* sent for its clipboard and the screens a pass leaves behind, however the   *)
(* loop, the writers and the clients take their turns.                        *)
EXTENDS MuxServer, FiniteSetsExt, SequenceTheorems, FiniteSetTheorems, WellFoundedInduction, TLAPS

--------------------------------------------------------------------------------
(* Types *)

Cells == UNION {[D -> Nat] : D \in SUBSET Nat}

Codes == {"ok", "busy", "pong"}

Answer == [id : Nat, code : Codes]
Reply == [t : {"reply"}, id : Nat, code : Codes]
Frames == [t : {"frame"}, full : BOOLEAN, rows : Nat, cells : Cells]
Copies == [t : {"copy"}, seq : Nat \ {0}]
Message == Frames \cup Reply \cup Copies \cup {Bye}

Request == [t : Kinds, n : Nat] \cup [t : {"attach", "disconnect"}]

Peer == [state : {"new", "attached", "hung", "resumed", "gone"}, rows : Nat, view : Seq(Nat),
         said : Nat, asked : SUBSET Nat, got : Seq(Answer), pasted : Nat]

--------------------------------------------------------------------------------
(* The clients a pass keeps or owes an answer: picked elements of a sequence. *)

LEMMA PlacesFinite ==
  ASSUME NEW n \in Nat, NEW places \in SUBSET (1 .. n)
  PROVE  IsFiniteSet(places) /\ Cardinality(places) \in Nat
  <1>1. IsFiniteSet(1 .. n)
    BY FS_Interval
  <1>2. IsFiniteSet(places)
    BY <1>1, FS_Subset
  <1>3. QED
    BY <1>2, FS_CardinalityType

(* The rank of a place of the selection, and that no two places share one.   *)
LEMMA RanksDiffer ==
  ASSUME NEW n \in Nat, NEW places \in SUBSET (1 .. n)
  PROVE  /\ \A i \in places : Cardinality({j \in places : j <= i}) \in 1 .. Cardinality(places)
         /\ \A i, k \in places :
              Cardinality({j \in places : j <= i}) = Cardinality({j \in places : j <= k}) => i = k
  <1> DEFINE upTo(i) == {j \in places : j <= i}
             rank == [i \in places |-> Cardinality(upTo(i))]
             c == Cardinality(places)
  <1>1. IsFiniteSet(places) /\ c \in Nat
    BY PlacesFinite
  <1>2. \A i \in places : IsFiniteSet(upTo(i)) /\ Cardinality(upTo(i)) \in 1 .. c
    <2> SUFFICES ASSUME NEW i \in places
                 PROVE  IsFiniteSet(upTo(i)) /\ Cardinality(upTo(i)) \in 1 .. c
      OBVIOUS
    <2>1. upTo(i) \in SUBSET places /\ upTo(i) # {}
      OBVIOUS
    <2> HIDE DEF upTo
    <2>2. IsFiniteSet(upTo(i)) /\ Cardinality(upTo(i)) <= c /\ Cardinality(upTo(i)) \in Nat
      BY <1>1, <2>1, FS_Subset, FS_CardinalityType
    <2>3. Cardinality(upTo(i)) # 0
      BY <2>1, <2>2, FS_EmptySet
    <2> HIDE DEF c
    <2>4. QED
      BY <1>1, <2>2, <2>3
  <1>3. ASSUME NEW i \in places, NEW j \in places, i < j
        PROVE  rank[i] # rank[j]
    <2>1. upTo(i) \in SUBSET upTo(j) /\ j \in upTo(j) /\ j \notin upTo(i)
      <3>1. \A x \in places : x \in Int
        OBVIOUS
      <3>2. \A x \in places : x <= i => x <= j
        BY <1>3, <3>1
      <3>3. j <= j /\ ~(j <= i)
        BY <1>3, <3>1
      <3>4. QED
        BY <3>2, <3>3
    <2>2. IsFiniteSet(upTo(j))
      BY <1>2
    <2>3. upTo(i) # upTo(j)
      BY <2>1
    <2>4. Cardinality(upTo(i)) # Cardinality(upTo(j))
      <3> HIDE DEF upTo
      <3>1. QED
        BY <2>1, <2>2, <2>3, FS_Subset
    <2>5. QED
      BY <2>4
  <1>4. ASSUME NEW i \in places, NEW j \in places, rank[i] = rank[j]
        PROVE  i = j
    <2> HIDE DEF rank
    <2>1. ~(i < j) /\ ~(j < i)
      BY <1>3, <1>4
    <2>2. QED
      BY <2>1
  <1>5. QED
    BY <1>2, <1>4

(* And all ranks occur.                                                     *)
LEMMA RanksOccur ==
  ASSUME NEW n \in Nat, NEW places \in SUBSET (1 .. n),
         NEW k \in 1 .. Cardinality(places)
  PROVE  \E i \in places : Cardinality({j \in places : j <= i}) = k
  <1> DEFINE upTo(i) == {j \in places : j <= i}
             rank == [i \in places |-> Cardinality(upTo(i))]
             c == Cardinality(places)
  <1>1. IsFiniteSet(places) /\ c \in Nat
    BY PlacesFinite
  <1>4. rank \in Injection(places, 1 .. c)
    <2>1. rank \in [places -> 1 .. c]
      BY RanksDiffer
    <2>2. \A i, j \in places : rank[i] = rank[j] => i = j
      BY RanksDiffer
    <2> HIDE DEF rank, c
    <2>3. QED
      BY <2>1, <2>2 DEF Injection, IsInjective
  <1>5. Cardinality(1 .. c) = c /\ IsFiniteSet(1 .. c)
    BY <1>1, FS_Interval
  <1>6. rank \in Surjection(places, 1 .. c)
    <2> HIDE DEF rank, c
    <2>1. QED
      BY <1>4, <1>5, FS_Injection DEF c
  <1>7. \E i \in places : rank[i] = k
    BY <1>6 DEF Surjection
  <1>8. QED
    BY <1>7

(* What is picked is of the type of the sequence, and nothing is lost.        *)
LEMMA PickedKeeps ==
  ASSUME NEW S, NEW seq \in Seq(S), NEW places \in SUBSET DOMAIN seq
  PROVE  /\ Picked(seq, places) \in Seq(S)
         /\ {Picked(seq, places)[k] : k \in DOMAIN Picked(seq, places)} = {seq[i] : i \in places}
  <1> DEFINE rank(i) == Cardinality({j \in places : j <= i})
             c == Cardinality(places)
             f(k) == CHOOSE i \in places : rank(i) = k
             part == Picked(seq, places)
  <1>1. Len(seq) \in Nat /\ DOMAIN seq = 1 .. Len(seq)
    OBVIOUS
  <1>2. places \in SUBSET (1 .. Len(seq))
    BY <1>1
  <1>3. /\ \A i \in places : rank(i) \in 1 .. c
        /\ \A i, k \in places : rank(i) = rank(k) => i = k
    BY <1>1, <1>2, RanksDiffer
  <1>4. \A k \in 1 .. c : \E i \in places : rank(i) = k
    BY <1>1, <1>2, RanksOccur
  <1>5. part = [k \in 1 .. c |-> seq[f(k)]]
    BY DEF Picked
  <1> HIDE DEF rank, c, part
  <1>6. \A k \in 1 .. c : f(k) \in places /\ rank(f(k)) = k
    BY <1>4
  <1> HIDE DEF f
  <1>7. \A i \in places : f(rank(i)) = i
    BY <1>3, <1>6
  <1>8. ASSUME NEW k \in DOMAIN part PROVE part[k] \in {seq[i] : i \in places}
    BY <1>5, <1>6
  <1>9. ASSUME NEW i \in places PROVE seq[i] \in {part[k] : k \in DOMAIN part}
    <2>1. rank(i) \in DOMAIN part /\ part[rank(i)] = seq[i]
      BY <1>3, <1>5, <1>7
    <2>2. QED
      BY <2>1
  <1>10. part \in Seq(S)
    <2>1. \A k \in 1 .. c : seq[f(k)] \in S
      BY <1>1, <1>2, <1>6
    <2>2. c \in Nat
      BY <1>1, <1>2, PlacesFinite DEF c
    <2>3. QED
      BY <1>5, <2>1, <2>2
  <1>11. QED
    BY <1>8, <1>9, <1>10 DEF part

(* A set of naturals has a least element.                                    *)
LEMMA LeastNatural ==
  ASSUME NEW T, T \subseteq Nat, T # {}
  PROVE  Min(T) \in T /\ \A y \in T : Min(T) <= y
  <1>1. PICK x \in T : \A y \in T : ~ (<<y, x>> \in OpToRel(<, Nat))
    BY NatLessThanWellFounded, WFMin
  <1>2. \A y \in T : ~(y < x)
    BY <1>1 DEF OpToRel
  <1>3. \A y \in T : x <= y
    BY <1>2
  <1>4. QED
    BY <1>3 DEF Min

--------------------------------------------------------------------------------
(* What a client is once it has received some messages *)

(* The type of what each message makes of a client.                           *)
LEMMA ReceivedType ==
  ASSUME NEW p \in Peer, NEW msg \in Message
  PROVE  Received(p, msg) \in Peer
<1>1. CASE msg \in Frames
  <2> DEFINE base == IF msg.full THEN Blank(msg.rows) ELSE p.view
  <2>1. msg.rows \in Nat /\ msg.cells \in Cells /\ msg.t = "frame"
    BY <1>1 DEF Frames
  <2>2. PICK D \in SUBSET Nat : msg.cells \in [D -> Nat]
    BY <2>1 DEF Cells
  <2>3. \A i \in 1 .. msg.rows : i \in DOMAIN msg.cells => msg.cells[i] \in Nat
    BY <2>2
  <2>4. base \in Seq(Nat)
    BY <2>1 DEF Blank, Peer
  <2>5. Applied(p.view, msg) \in Seq(Nat)
    <3>1. CASE Len(base) # msg.rows
      BY <3>1 DEF Applied, Peer
    <3>2. CASE Len(base) = msg.rows
      <4>1. \A i \in 1 .. msg.rows : base[i] \in Nat
        BY <3>2, <2>4
      <4>2. Applied(p.view, msg) = [i \in 1 .. msg.rows |-> IF i \in DOMAIN msg.cells THEN msg.cells[i] ELSE base[i]]
        BY <3>2 DEF Applied
      <4> QED
        <5>1. \A i \in 1 .. msg.rows : (IF i \in DOMAIN msg.cells THEN msg.cells[i] ELSE base[i]) \in Nat
          BY <4>1, <2>3
        <5> HIDE DEF base
        <5>2. Applied(p.view, msg) \in [1 .. msg.rows -> Nat]
          BY <4>2, <5>1
        <5> QED
          BY <5>2, <2>1, SeqDef
    <3> QED
      BY <3>1, <3>2
  <2>6. Received(p, msg) = [p EXCEPT !.view = Applied(p.view, msg)]
    BY <2>1 DEF Received
  <2> QED
    BY <2>5, <2>6 DEF Peer
<1>2. CASE msg \in Reply
  <2>1. Received(p, msg) = [p EXCEPT !.got = Append(p.got, [id |-> msg.id, code |-> msg.code])]
    BY <1>2 DEF Received, Reply
  <2>2. [id |-> msg.id, code |-> msg.code] \in Answer
    BY <1>2 DEF Reply, Answer
  <2>3. p.got \in Seq(Answer)
    BY DEF Peer
  <2>4. Append(p.got, [id |-> msg.id, code |-> msg.code]) \in Seq(Answer)
    BY <2>2, <2>3
  <2> QED
    BY <2>1, <2>4 DEF Peer
<1>3. CASE msg \in Copies
  BY <1>3 DEF Received, Copies, Peer
<1>4. CASE msg = Bye
  BY <1>4 DEF Received, Bye, Peer
<1> QED
  BY <1>1, <1>2, <1>3, <1>4 DEF Message

(* f[n] is what the client is after n of the messages.                        *)
Follows(f, p, msgs) ==
  f[0] = p /\ \A n \in 1 .. Len(msgs) : f[n] = Received(f[n - 1], msgs[n])

(* `after` of After exists: what the client is after n of the messages.       *)
LEMMA AfterSteps ==
  ASSUME NEW p \in Peer, NEW msgs \in Seq(Message)
  PROVE  \E f \in [0 .. Len(msgs) -> Peer] : Follows(f, p, msgs)
<1> DEFINE good(n) == \E f \in [0 .. n -> Peer] :
                        f[0] = p /\ \A k \in 1 .. n : f[k] = Received(f[k - 1], msgs[k])
           bad == {n \in 0 .. Len(msgs) : ~good(n)}
<1>1. good(0)
  <2> DEFINE f == [k \in 0 .. 0 |-> p]
  <2>1. f \in [0 .. 0 -> Peer] /\ f[0] = p
    OBVIOUS
  <2>2. \A k \in 1 .. 0 : FALSE
    OBVIOUS
  <2> HIDE DEF f
  <2> QED
    BY <2>1, <2>2
<1>2. ASSUME NEW n \in 0 .. Len(msgs), n # 0, good(n - 1)
      PROVE  good(n)
  <2>1. PICK f \in [0 .. n - 1 -> Peer] :
               f[0] = p /\ \A k \in 1 .. n - 1 : f[k] = Received(f[k - 1], msgs[k])
    BY <1>2
  <2> DEFINE g == [k \in 0 .. n |-> IF k = n THEN Received(f[n - 1], msgs[n]) ELSE f[k]]
  <2>2. msgs[n] \in Message /\ f[n - 1] \in Peer
    BY <1>2
  <2>3. g \in [0 .. n -> Peer]
    BY <2>2, <1>2, ReceivedType
  <2>4. g[0] = p
    <3>1. 0 \in 0 .. n /\ f[0] = p
      BY <2>1, <1>2
    <3> QED
      BY <3>1, <1>2
  <2>5. \A k \in 1 .. n : g[k] = Received(g[k - 1], msgs[k])
    <3>1. \A k \in 1 .. n : k \in 0 .. n /\ k - 1 \in 0 .. n /\ k - 1 # n
      BY <1>2
    <3>2. \A k \in 1 .. n : k # n => k \in 1 .. n - 1
      BY <1>2
    <3> QED
      BY <2>1, <3>1, <3>2
  <2> HIDE DEF g
  <2> QED
    BY <2>3, <2>4, <2>5
<1> HIDE DEF good
<1>3. bad = {}
  <2>1. SUFFICES ASSUME bad # {} PROVE FALSE
    OBVIOUS
  <2>2. Min(bad) \in bad
    <3>1. bad \subseteq Nat
      OBVIOUS
    <3> HIDE DEF bad
    <3> QED
      BY <2>1, <3>1, LeastNatural
  <2>3. \A k \in bad : Min(bad) <= k
    <3>1. bad \subseteq Nat
      OBVIOUS
    <3> HIDE DEF bad
    <3> QED
      BY <2>1, <3>1, LeastNatural
  <2>4. Min(bad) # 0
    BY <2>2, <1>1
  <2>5. Min(bad) - 1 \in 0 .. Len(msgs) /\ Min(bad) - 1 \notin bad
    BY <2>2, <2>3, <2>4
  <2>6. good(Min(bad) - 1)
    BY <2>5
  <2> QED
    BY <2>2, <2>4, <2>6, <1>2
<1>4. good(Len(msgs))
  BY <1>3
<1> QED
  BY <1>4 DEF good, Follows

(* Nothing else satisfies the recurrence.                                     *)
LEMMA StepsAgree ==
  ASSUME NEW p, NEW msgs \in Seq(Message),
         NEW f, Follows(f, p, msgs), NEW g, Follows(g, p, msgs)
  PROVE  f[Len(msgs)] = g[Len(msgs)]
<1> DEFINE bad == {n \in 0 .. Len(msgs) : f[n] # g[n]}
<1>1. SUFFICES ASSUME bad # {} PROVE FALSE
  <2>1. Len(msgs) \in 0 .. Len(msgs)
    OBVIOUS
  <2> QED
    BY <2>1
<1>2. bad \subseteq Nat
  OBVIOUS
<1>3. Min(bad) \in bad /\ \A k \in bad : Min(bad) <= k
  <2> HIDE DEF bad
  <2> QED
    BY <1>1, <1>2, LeastNatural
<1> DEFINE n == Min(bad)
<1>4. n \in 0 .. Len(msgs) /\ f[n] # g[n] /\ n # 0
  <2>1. n \in bad
    BY <1>3
  <2>2. 0 \notin bad
    BY DEF Follows
  <2> HIDE DEF n
  <2> QED
    BY <2>1, <2>2
<1>5. n - 1 \in 0 .. Len(msgs) /\ n - 1 \notin bad /\ n \in 1 .. Len(msgs)
  BY <1>3, <1>4
<1> HIDE DEF n
<1>6. f[n - 1] = g[n - 1]
  BY <1>5
<1> QED
  BY <1>4, <1>5, <1>6 DEF Follows

LEMMA AfterIs ==
  ASSUME NEW p \in Peer, NEW msgs \in Seq(Message),
         NEW f, Follows(f, p, msgs)
  PROVE  After(p, msgs) = f[Len(msgs)]
<1> DEFINE step(h) == [n \in 0 .. Len(msgs) |-> IF n = 0 THEN p ELSE Received(h[n - 1], msgs[n])]
           after == CHOOSE h : h = step(h)
<1>1. PICK h \in [0 .. Len(msgs) -> Peer] : Follows(h, p, msgs)
  BY AfterSteps
<1>2. h = step(h)
  <2>1. \A n \in 0 .. Len(msgs) : h[n] = IF n = 0 THEN p ELSE Received(h[n - 1], msgs[n])
    BY <1>1 DEF Follows
  <2> QED
    BY <2>1
<1>3. after = step(after)
  <2> HIDE DEF step
  <2> QED
    BY <1>2
<1>4. Follows(after, p, msgs)
  <2> HIDE DEF after
  <2>1. \A n \in 0 .. Len(msgs) : after[n] = IF n = 0 THEN p ELSE Received(after[n - 1], msgs[n])
    BY <1>3
  <2> QED
    BY <2>1 DEF Follows
<1>5. After(p, msgs) = after[Len(msgs)]
  BY DEF After
<1> HIDE DEF after
<1> QED
  BY <1>4, <1>5, StepsAgree

LEMMA AfterFolds ==
  ASSUME NEW p \in Peer, NEW msgs \in Seq(Message)
  PROVE  \E f \in [0 .. Len(msgs) -> Peer] :
           Follows(f, p, msgs) /\ After(p, msgs) = f[Len(msgs)]
<1>1. PICK f \in [0 .. Len(msgs) -> Peer] : Follows(f, p, msgs)
  BY AfterSteps
<1>2. After(p, msgs) = f[Len(msgs)]
  BY <1>1, AfterIs
<1> QED
  BY <1>1, <1>2

(* Nothing was received.                                                      *)
LEMMA AfterNothing ==
  ASSUME NEW p \in Peer
  PROVE  After(p, <<>>) = p
<1> DEFINE none == <<>>
<1>1. none \in Seq(Message) /\ Len(none) = 0
  OBVIOUS
<1> HIDE DEF none
<1>2. PICK f \in [0 .. Len(none) -> Peer] : Follows(f, p, none) /\ After(p, none) = f[Len(none)]
  BY <1>1, AfterFolds
<1> QED
  BY <1>1, <1>2 DEF Follows, none

LEMMA AfterType ==
  ASSUME NEW p \in Peer, NEW msgs \in Seq(Message)
  PROVE  After(p, msgs) \in Peer
<1>1. Len(msgs) \in 0 .. Len(msgs)
  OBVIOUS
<1> QED
  BY <1>1, AfterFolds

(* One more message was sent.                                                 *)
LEMMA AfterSends ==
  ASSUME NEW p \in Peer, NEW msgs \in Seq(Message), NEW msg \in Message
  PROVE  After(p, Append(msgs, msg)) = Received(After(p, msgs), msg)
<1> DEFINE n == Len(msgs)
           longer == Append(msgs, msg)
<1>1. PICK f \in [0 .. n -> Peer] :
           /\ f[0] = p
           /\ \A k \in 1 .. n : f[k] = Received(f[k - 1], msgs[k])
           /\ After(p, msgs) = f[n]
  BY AfterFolds DEF Follows
<1> DEFINE g == [k \in 0 .. n + 1 |-> IF k = n + 1 THEN Received(f[n], msg) ELSE f[k]]
<1>2. /\ n \in Nat /\ longer \in Seq(Message) /\ Len(longer) = n + 1
      /\ longer[n + 1] = msg /\ \A k \in 1 .. n : longer[k] = msgs[k]
  OBVIOUS
<1>3. g[0] = p /\ g[n + 1] = Received(f[n], msg)
  BY <1>1, <1>2
<1>4. \A k \in 1 .. n + 1 : g[k] = Received(g[k - 1], longer[k])
  <2> HIDE DEF longer
  <2>1. \A k \in 1 .. n : g[k] = f[k] /\ g[k - 1] = f[k - 1]
    BY <1>2
  <2>2. g[n] = f[n]
    BY <1>2
  <2>3. \A k \in 1 .. n + 1 : k \in 1 .. n \/ k = n + 1
    BY <1>2
  <2>4. (n + 1) - 1 = n
    BY <1>2
  <2> HIDE DEF g
  <2> QED
    BY <1>1, <1>2, <1>3, <2>1, <2>2, <2>3, <2>4
<1> HIDE DEF g, longer
<1>5. Follows(g, p, longer)
  BY <1>2, <1>3, <1>4 DEF Follows
<1>6. After(p, longer) = g[n + 1]
  BY <1>2, <1>5, AfterIs
<1> QED
  BY <1>1, <1>3, <1>6 DEF longer

(* The first message was read.                                                *)
LEMMA AfterReads ==
  ASSUME NEW p \in Peer, NEW msgs \in Seq(Message), msgs # <<>>
  PROVE  /\ Received(p, Head(msgs)) \in Peer
         /\ After(Received(p, Head(msgs)), Tail(msgs)) = After(p, msgs)
<1> DEFINE n == Len(msgs)
           rest == Tail(msgs)
<1>1. PICK f \in [0 .. n -> Peer] :
           /\ f[0] = p
           /\ \A k \in 1 .. n : f[k] = Received(f[k - 1], msgs[k])
           /\ After(p, msgs) = f[n]
  BY AfterFolds DEF Follows
<1> DEFINE g == [k \in 0 .. n - 1 |-> f[k + 1]]
<1>2. /\ n \in Nat \ {0} /\ rest \in Seq(Message) /\ Len(rest) = n - 1
      /\ Head(msgs) = msgs[1] /\ Head(msgs) \in Message
      /\ \A k \in 1 .. n - 1 : rest[k] = msgs[k + 1]
  OBVIOUS
<1>3. g[0] = Received(p, Head(msgs)) /\ g[n - 1] = f[n]
  BY <1>1, <1>2
<1>4. \A k \in 1 .. n - 1 : g[k] = Received(g[k - 1], rest[k])
  <2> SUFFICES ASSUME NEW k \in 1 .. n - 1
               PROVE  g[k] = Received(g[k - 1], rest[k])
    OBVIOUS
  <2>1. k \in 0 .. n - 1 /\ k - 1 \in 0 .. n - 1 /\ k + 1 \in 1 .. n /\ (k + 1) - 1 = k /\ (k - 1) + 1 = k
    BY <1>2
  <2>2. g[k] = f[k + 1] /\ g[k - 1] = f[k]
    BY <2>1
  <2>3. f[k + 1] = Received(f[(k + 1) - 1], msgs[k + 1])
    BY <1>1, <2>1
  <2> QED
    BY <1>2, <2>1, <2>2, <2>3
<1> HIDE DEF g, rest
<1>5. Received(p, Head(msgs)) \in Peer
  BY <1>2, ReceivedType
<1>6. Follows(g, Received(p, Head(msgs)), rest)
  BY <1>2, <1>3, <1>4 DEF Follows
<1>7. After(Received(p, Head(msgs)), rest) = g[n - 1]
  BY <1>2, <1>5, <1>6, AfterIs
<1> QED
  BY <1>1, <1>3, <1>5, <1>7 DEF rest

--------------------------------------------------------------------------------
(* What the loop keeps of its clients                                         *)

Srv == [last : Seq(Nat), needsFull : BOOLEAN, pending : BOOLEAN, rows : Nat, armed : BOOLEAN,
        tagged : BOOLEAN, copy : Nat, replies : Seq(Reply), overflowed : BOOLEAN]

Muxes == [att : Seq(Clients), srv : [Clients -> Srv], viewport : Nat, armed : BOOLEAN,
          seenAlt : BOOLEAN, relayed : Nat]

(* What a client's place in the fleet changes is its baseline and the marks   *)
(* of a frame it is owed, never its queues.                                   *)
Kept(s, t) ==
  /\ t.rows = s.rows /\ t.armed = s.armed /\ t.tagged = s.tagged /\ t.copy = s.copy
  /\ t.replies = s.replies /\ t.overflowed = s.overflowed

Blanked(t) == t.needsFull /\ t.last = Blank(Len(t.last))

Marked(s, t) ==
  /\ (t.last = s.last /\ t.needsFull = s.needsFull) \/ Blanked(t)
  /\ s.pending => t.pending

LEMMA BlankType ==
  ASSUME NEW rows \in Nat
  PROVE  Blank(rows) \in Seq(Nat) /\ Len(Blank(rows)) = rows
  BY DEF Blank

LEMMA BaselineType ==
  ASSUME NEW s \in Srv, NEW rows \in Nat
  PROVE  /\ Baseline(s, rows) \in Srv /\ Kept(s, Baseline(s, rows)) /\ Marked(s, Baseline(s, rows))
         /\ Baseline(s, rows).last = Blank(rows) /\ Baseline(s, rows).needsFull
         /\ Baseline(s, rows).pending = s.pending
<1>1. Blank(rows) \in Seq(Nat) /\ Len(Blank(rows)) = rows
  BY BlankType
<1> QED
  BY <1>1 DEF Baseline, Srv, Kept, Marked, Blanked

LEMMA DetachedType == Detached \in Srv
  BY DEF Detached, Srv

LEMMA EachBaseline ==
  ASSUME NEW m \in Muxes, NEW rows \in Nat
  PROVE  LET n == Each(m, LAMBDA s : Baseline(s, rows))
         IN /\ n \in Muxes /\ n = [m EXCEPT !.srv = n.srv]
            /\ \A c \in Clients : n.srv[c] = IF c \in ToSet(m.att) THEN Baseline(m.srv[c], rows) ELSE m.srv[c]
<1> DEFINE n == Each(m, LAMBDA s : Baseline(s, rows))
           srv == [c \in Clients |-> IF c \in ToSet(m.att) THEN Baseline(m.srv[c], rows) ELSE m.srv[c]]
<1>1. n = [m EXCEPT !.srv = srv]
  BY DEF Each
<1>2. srv \in [Clients -> Srv]
  BY BaselineType DEF Muxes
<1> QED
  BY <1>1, <1>2 DEF Muxes

LEMMA EachPending ==
  ASSUME NEW m \in Muxes
  PROVE  LET n == Each(m, LAMBDA s : [s EXCEPT !.pending = TRUE])
         IN /\ n \in Muxes /\ n = [m EXCEPT !.srv = n.srv]
            /\ \A c \in Clients :
                 n.srv[c] = IF c \in ToSet(m.att) THEN [m.srv[c] EXCEPT !.pending = TRUE] ELSE m.srv[c]
<1> DEFINE n == Each(m, LAMBDA s : [s EXCEPT !.pending = TRUE])
           srv == [c \in Clients |-> IF c \in ToSet(m.att) THEN [m.srv[c] EXCEPT !.pending = TRUE] ELSE m.srv[c]]
<1>1. n = [m EXCEPT !.srv = srv]
  BY DEF Each
<1>2. srv \in [Clients -> Srv]
  <2>1. \A k \in Srv : [k EXCEPT !.pending = TRUE] \in Srv
    BY DEF Srv
  <2> QED
    BY <2>1 DEF Muxes
<1> QED
  BY <1>1, <1>2 DEF Muxes

(* The smallest of the attached clients, whose size the screens have.         *)
Fits(m) == m.att # <<>> => m.viewport = Min({m.srv[c].rows : c \in ToSet(m.att)})

LEMMA Smallest ==
  ASSUME NEW m \in Muxes, m.att # <<>>
  PROVE  /\ Min({m.srv[c].rows : c \in ToSet(m.att)}) \in Nat
         /\ \E c \in ToSet(m.att) : Min({m.srv[d].rows : d \in ToSet(m.att)}) = m.srv[c].rows
<1> DEFINE T == {m.srv[c].rows : c \in ToSet(m.att)}
<1>1. m.att \in Seq(Clients)
  BY DEF Muxes
<1>2. 1 \in DOMAIN m.att /\ ToSet(m.att) \subseteq Clients
  BY <1>1 DEF ToSet
<1>3. T \subseteq Nat
  BY <1>2 DEF Muxes, Srv
<1>4. m.att[1] \in ToSet(m.att)
  BY <1>2 DEF ToSet
<1>5. T # {}
  BY <1>4
<1>6. Min(T) \in T
  <2> HIDE DEF T
  <2> QED
    BY <1>3, <1>5, LeastNatural
<1> QED
  BY <1>3, <1>6

(* The size follows; then every attached client starts from a blank screen.   *)
LEMMA Recomputed ==
  ASSUME NEW m \in Muxes
  PROVE  LET n == RecomputeViewport(m)
         IN /\ n \in Muxes /\ Fits(n)
            /\ n = [m EXCEPT !.srv = n.srv, !.viewport = n.viewport]
            /\ \A c \in Clients : Kept(m.srv[c], n.srv[c]) /\ Marked(m.srv[c], n.srv[c])
            /\ \A c \in Clients : c \notin ToSet(m.att) => n.srv[c] = m.srv[c]
            /\ n.viewport # m.viewport => \A c \in ToSet(m.att) : n.srv[c].needsFull
            /\ n.viewport = m.viewport => n = m
<1> DEFINE rows == Min({m.srv[c].rows : c \in ToSet(m.att)})
           n == RecomputeViewport(m)
           k == [m EXCEPT !.viewport = rows]
<1>1. CASE m.att = <<>> \/ rows = m.viewport
  <2>1. n = m
    BY <1>1 DEF RecomputeViewport
  <2>2. m = [m EXCEPT !.srv = m.srv, !.viewport = m.viewport]
    BY DEF Muxes
  <2>3. Fits(m)
    BY <1>1 DEF Fits
  <2>4. \A c \in Clients : Kept(m.srv[c], m.srv[c]) /\ Marked(m.srv[c], m.srv[c])
    BY DEF Kept, Marked
  <2> HIDE DEF n
  <2> QED
    BY <2>1, <2>2, <2>3, <2>4 DEF n
<1>2. CASE m.att # <<>> /\ rows # m.viewport
  <2>1. rows \in Nat
    BY <1>2, Smallest
  <2>2. n = Each(k, LAMBDA s : Baseline(s, rows))
    BY <1>2 DEF RecomputeViewport
  <2> HIDE DEF rows
  <2>3. k \in Muxes /\ k.att = m.att /\ k.srv = m.srv /\ k.viewport = rows
    BY <2>1 DEF Muxes
  <2> HIDE DEF n, k
  <2>4. /\ n \in Muxes /\ n = [k EXCEPT !.srv = n.srv]
        /\ \A c \in Clients : n.srv[c] = IF c \in ToSet(k.att) THEN Baseline(k.srv[c], rows) ELSE k.srv[c]
    BY <2>1, <2>2, <2>3, EachBaseline
  <2>5. n = [m EXCEPT !.srv = n.srv, !.viewport = n.viewport] /\ n.viewport = rows /\ n.att = m.att
    BY <2>3, <2>4 DEF k, Muxes
  <2>6. \A c \in Clients : m.srv[c] \in Srv
    BY DEF Muxes
  <2>7. \A c \in Clients : Kept(m.srv[c], n.srv[c]) /\ Marked(m.srv[c], n.srv[c])
    <3>1. \A c \in Clients : n.srv[c] = Baseline(m.srv[c], rows) \/ n.srv[c] = m.srv[c]
      BY <2>3, <2>4
    <3>2. \A c \in Clients : Kept(m.srv[c], m.srv[c]) /\ Marked(m.srv[c], m.srv[c])
      BY DEF Kept, Marked
    <3> QED
      BY <2>1, <2>6, <3>1, <3>2, BaselineType
  <2>8. ToSet(m.att) \subseteq Clients
    BY DEF Muxes, ToSet
  <2>9. \A c \in ToSet(m.att) : n.srv[c].needsFull /\ n.srv[c].rows = m.srv[c].rows
    BY <2>1, <2>3, <2>4, <2>6, <2>7, <2>8, BaselineType DEF Kept
  <2>10. Fits(n)
    <3>1. {n.srv[c].rows : c \in ToSet(n.att)} = {m.srv[c].rows : c \in ToSet(m.att)}
      BY <2>5, <2>9
    <3> QED
      BY <2>5, <3>1 DEF Fits, rows
  <2>11. \A c \in Clients : c \notin ToSet(m.att) => n.srv[c] = m.srv[c]
    BY <2>3, <2>4
  <2> QED
    BY <1>2, <2>4, <2>5, <2>7, <2>9, <2>10, <2>11 DEF n
<1> QED
  BY <1>1, <1>2

(* Some clients are gone, and nobody else's queues changed.                   *)
Left(m, n, gone) ==
  /\ n \in Muxes
  /\ ToSet(n.att) = ToSet(m.att) \ gone
  /\ n.relayed = m.relayed /\ n.seenAlt = m.seenAlt /\ n.armed = m.armed
  /\ \A c \in Clients \cap gone : n.srv[c] = Detached
  /\ \A c \in Clients \ gone : Kept(m.srv[c], n.srv[c]) /\ Marked(m.srv[c], n.srv[c])

LEMMA WithoutLeft ==
  ASSUME NEW m \in Muxes, NEW gone
  PROVE  LET n == Without(m, gone)
         IN /\ Left(m, n, gone) /\ Fits(n)
            /\ n.viewport # m.viewport => \A c \in ToSet(n.att) : n.srv[c].needsFull
            /\ n.viewport = m.viewport => \A c \in Clients \ gone : n.srv[c] = m.srv[c]
<1> DEFINE places == {i \in DOMAIN m.att : m.att[i] \notin gone}
           srv == [c \in Clients |-> IF c \in gone THEN Detached ELSE m.srv[c]]
           k == [m EXCEPT !.att = Picked(m.att, places), !.srv = srv]
           n == RecomputeViewport(k)
<1>1. n = Without(m, gone)
  BY DEF Without
<1>2. m.att \in Seq(Clients) /\ places \in SUBSET DOMAIN m.att
  BY DEF Muxes
<1>3. /\ Picked(m.att, places) \in Seq(Clients)
      /\ {Picked(m.att, places)[j] : j \in DOMAIN Picked(m.att, places)} = {m.att[i] : i \in places}
  <2> HIDE DEF places
  <2>1. Picked(m.att, places) \in Seq(Clients)
    BY <1>2, PickedKeeps
  <2>2. {Picked(m.att, places)[j] : j \in DOMAIN Picked(m.att, places)} = {m.att[i] : i \in places}
    BY <1>2, PickedKeeps
  <2> QED
    BY <2>1, <2>2
<1>4. srv \in [Clients -> Srv]
  BY DetachedType DEF Muxes
<1>5. k \in Muxes /\ k.srv = srv /\ k.viewport = m.viewport
      /\ k.relayed = m.relayed /\ k.seenAlt = m.seenAlt /\ k.armed = m.armed
      /\ k.att = Picked(m.att, places)
  BY <1>3, <1>4 DEF Muxes
<1>6. ToSet(k.att) = ToSet(m.att) \ gone
  <2>1. ToSet(k.att) = {m.att[i] : i \in places}
    <3> HIDE DEF places, k
    <3>1. ToSet(Picked(m.att, places)) = {Picked(m.att, places)[j] : j \in DOMAIN Picked(m.att, places)}
      BY DEF ToSet
    <3> QED
      BY <1>3, <1>5, <3>1
  <2>2. {m.att[i] : i \in places} = ToSet(m.att) \ gone
    BY DEF ToSet
  <2> QED
    BY <2>1, <2>2
<1>7. \A c \in Clients : k.srv[c] = IF c \in gone THEN Detached ELSE m.srv[c]
  BY <1>5
<1> HIDE DEF k, srv, places
<1>8. /\ n \in Muxes /\ Fits(n)
      /\ n = [k EXCEPT !.srv = n.srv, !.viewport = n.viewport]
      /\ \A c \in Clients : Kept(k.srv[c], n.srv[c]) /\ Marked(k.srv[c], n.srv[c])
      /\ \A c \in Clients : c \notin ToSet(k.att) => n.srv[c] = k.srv[c]
      /\ n.viewport # k.viewport => \A c \in ToSet(k.att) : n.srv[c].needsFull
      /\ n.viewport = k.viewport => n = k
  BY <1>5, Recomputed
<1> HIDE DEF n
<1>9. n.att = k.att /\ n.relayed = k.relayed /\ n.seenAlt = k.seenAlt /\ n.armed = k.armed
  BY <1>5, <1>8 DEF Muxes
<1>10. \A c \in Clients \cap gone : n.srv[c] = Detached
  BY <1>6, <1>7, <1>8
<1>11. \A c \in Clients \ gone : k.srv[c] = m.srv[c]
  BY <1>7
<1>12. Left(m, n, gone)
  BY <1>5, <1>6, <1>8, <1>9, <1>10, <1>11 DEF Left
<1> QED
  BY <1>1, <1>5, <1>8, <1>9, <1>11, <1>12

LEMMA PruneLeft ==
  ASSUME NEW m \in Muxes, NEW dead
  PROVE  LET n == PruneDeadClients(m, dead)
         IN /\ Left(m, n, dead) /\ Fits(n)
            /\ n.viewport # m.viewport => \A c \in ToSet(n.att) : n.srv[c].needsFull
            /\ \/ \A c \in ToSet(n.att) : n.srv[c].pending
               \/ /\ n.armed = AnyArmed(n) \/ dead = {}
                  /\ n.viewport = m.viewport => \A c \in Clients \ dead : n.srv[c] = m.srv[c]
<1> DEFINE k == Without(m, dead)
           n == PruneDeadClients(m, dead)
<1>1. /\ Left(m, k, dead) /\ Fits(k)
      /\ k.viewport # m.viewport => \A c \in ToSet(k.att) : k.srv[c].needsFull
      /\ k.viewport = m.viewport => \A c \in Clients \ dead : k.srv[c] = m.srv[c]
  BY WithoutLeft
<1>2. CASE k.armed = AnyArmed(k) \/ dead = {}
  <2>1. n = k
    BY <1>2 DEF PruneDeadClients
  <2> HIDE DEF k, n
  <2> QED
    BY <1>1, <1>2, <2>1 DEF n
<1>3. CASE ~(k.armed = AnyArmed(k) \/ dead = {})
  <2>1. n = Each(k, LAMBDA s : [s EXCEPT !.pending = TRUE])
    BY <1>3 DEF PruneDeadClients
  <2>2. k \in Muxes
    BY <1>1 DEF Left
  <2> HIDE DEF k, n
  <2>3. /\ n \in Muxes /\ n = [k EXCEPT !.srv = n.srv]
        /\ \A c \in Clients :
             n.srv[c] = IF c \in ToSet(k.att) THEN [k.srv[c] EXCEPT !.pending = TRUE] ELSE k.srv[c]
    BY <2>1, <2>2, EachPending
  <2>4. /\ n.att = k.att /\ n.relayed = k.relayed /\ n.seenAlt = k.seenAlt /\ n.armed = k.armed
        /\ n.viewport = k.viewport
    BY <2>2, <2>3 DEF Muxes
  <2>5. ToSet(k.att) = ToSet(m.att) \ dead /\ ToSet(k.att) \subseteq Clients
    BY <1>1, <2>2 DEF Left, Muxes, ToSet
  <2>6. \A c \in Clients : k.srv[c] \in Srv
    BY <2>2 DEF Muxes
  <2>7. \A c \in Clients : Kept(k.srv[c], n.srv[c]) /\ Marked(k.srv[c], n.srv[c])
    <3> TAKE c \in Clients
    <3>1. CASE n.srv[c] = k.srv[c]
      BY <3>1 DEF Kept, Marked
    <3>2. CASE n.srv[c] = [k.srv[c] EXCEPT !.pending = TRUE]
      BY <2>6, <3>2 DEF Kept, Marked, Srv
    <3> QED
      BY <2>3, <3>1, <3>2
  <2>8. \A c \in Clients \ dead : Kept(m.srv[c], n.srv[c]) /\ Marked(m.srv[c], n.srv[c])
    <3> TAKE c \in Clients \ dead
    <3>1. Kept(m.srv[c], k.srv[c]) /\ Marked(m.srv[c], k.srv[c])
      BY <1>1 DEF Left
    <3>2. Kept(k.srv[c], n.srv[c]) /\ Marked(k.srv[c], n.srv[c])
      BY <2>7
    <3>3. Kept(m.srv[c], n.srv[c])
      BY <3>1, <3>2 DEF Kept
    <3>4. Marked(m.srv[c], n.srv[c])
      BY <3>1, <3>2 DEF Marked, Blanked
    <3> QED
      BY <3>3, <3>4
  <2>9. \A c \in Clients \cap dead : n.srv[c] = Detached
    BY <1>1, <2>3, <2>5 DEF Left
  <2>10. Left(m, n, dead)
    BY <1>1, <2>3, <2>4, <2>5, <2>8, <2>9 DEF Left
  <2>11. \A c \in ToSet(n.att) : n.srv[c].pending
    BY <2>3, <2>4, <2>5, <2>6 DEF Srv
  <2>12. \A c \in ToSet(k.att) : n.srv[c].rows = k.srv[c].rows /\ (k.srv[c].needsFull => n.srv[c].needsFull)
    <3> TAKE c \in ToSet(k.att)
    <3>1. n.srv[c] = [k.srv[c] EXCEPT !.pending = TRUE] /\ k.srv[c] \in Srv
      BY <2>3, <2>5, <2>6
    <3> QED
      BY <3>1 DEF Srv
  <2>13. Fits(n)
    <3>1. {n.srv[c].rows : c \in ToSet(n.att)} = {k.srv[c].rows : c \in ToSet(k.att)}
      BY <2>4, <2>12
    <3> QED
      BY <1>1, <2>4, <3>1 DEF Fits
  <2>14. n.viewport # m.viewport => \A c \in ToSet(n.att) : n.srv[c].needsFull
    BY <1>1, <2>4, <2>12
  <2> QED
    BY <2>10, <2>11, <2>13, <2>14 DEF n
<1> QED
  BY <1>2, <1>3

--------------------------------------------------------------------------------
(* The types of the state                                                     *)

(* The channel and the writer hold at most one message each.                  *)
Slot == {<<>>} \cup {<<msg>> : msg \in Message}

Conn ==
  [inbox : Seq(Request), reader : {"none", "reading", "ended"}, out : BOOLEAN, chan : Slot,
   writer : {"none", "idle", "holding", "ended"}, held : Slot, wire : Seq(Message),
   link : {"none", "up", "broken", "shut"}]

Threads ==
  [drawn : {0, 1}, alt : BOOLEAN, unseen : BOOLEAN, woken : BOOLEAN,
   slot : [Panes -> Nat], stamped : [Panes -> Nat], ticket : Nat \ {0}]

Phases == {"receive", "clipboard", "expire", "replies", "copies", "frames", "flush", "byes",
           "exit", "exited"}

Loops ==
  [at : Phases, todo : Seq(Clients), dead : SUBSET Clients, dirty : BOOLEAN, kill : BOOLEAN,
   late : BOOLEAN, byes : Nat, unread : SUBSET Panes, latest : Nat, due : SUBSET Clients]

Types ==
  /\ loop \in Loops /\ mux \in Muxes /\ conn \in [Clients -> Conn] /\ peer \in [Clients -> Peer]
  /\ panes \in Threads /\ handled \in [Clients -> Seq(Answer)]
  /\ executed \in SUBSET (Clients \X Nat) /\ inputs \in Nat

(* From a phase to the next one that has something to do.                     *)
LEMMA FramesNext ==
  ASSUME NEW l \in Loops
  PROVE  /\ ToFrames(l) \in Loops /\ ToFrames(l) = [l EXCEPT !.at = ToFrames(l).at]
         /\ ToFrames(l).at \in {"frames", "receive"}
  BY DEF ToFrames, Loops, Phases

LEMMA CopiesNext ==
  ASSUME NEW l \in Loops, NEW m
  PROVE  /\ ToCopies(l, m) \in Loops /\ ToCopies(l, m) = [l EXCEPT !.at = ToCopies(l, m).at]
         /\ ToCopies(l, m).at \in {"copies", "frames", "receive"}
<1>1. CASE ToCopies(l, m) = ToFrames(l)
  BY <1>1, FramesNext
<1>2. CASE ToCopies(l, m) = [l EXCEPT !.at = "copies"]
  BY <1>2 DEF Loops, Phases
<1> QED
  BY <1>1, <1>2 DEF ToCopies

(* Those that are owed a reply are attached, and each of them has one.        *)
LEMMA OwedAre ==
  ASSUME NEW m \in Muxes
  PROVE  /\ Owed(m) \in Seq(Clients)
         /\ ToSet(Owed(m)) = {c \in ToSet(m.att) : m.srv[c].replies # <<>> /\ ~m.srv[c].overflowed}
<1> DEFINE places == {i \in DOMAIN m.att : m.srv[m.att[i]].replies # <<>> /\ ~m.srv[m.att[i]].overflowed}
<1>1. m.att \in Seq(Clients) /\ places \in SUBSET DOMAIN m.att
  BY DEF Muxes
<1>2. Owed(m) = Picked(m.att, places)
  BY Zenon DEF Owed
<1>3. Picked(m.att, places) \in Seq(Clients)
  <2> HIDE DEF places
  <2> QED
    BY <1>1, PickedKeeps
<1>4. ToSet(Owed(m)) = {m.att[i] : i \in places}
  <2>1. {Picked(m.att, places)[j] : j \in DOMAIN Picked(m.att, places)} = {m.att[i] : i \in places}
    <3> HIDE DEF places
    <3> QED
      BY <1>1, PickedKeeps
  <2> QED
    BY <1>2, <2>1 DEF ToSet
<1>5. {m.att[i] : i \in places} = {c \in ToSet(m.att) : m.srv[c].replies # <<>> /\ ~m.srv[c].overflowed}
  BY DEF ToSet
<1> QED
  BY <1>2, <1>3, <1>4, <1>5, Zenon

LEMMA RepliesNext ==
  ASSUME NEW l \in Loops, NEW m \in Muxes
  PROVE  LET n == ToReplies(l, m)
         IN /\ n \in Loops /\ n = [l EXCEPT !.at = n.at, !.todo = n.todo, !.dead = n.dead]
            /\ \/ n.at = "replies" /\ n.todo = Owed(m) /\ n.dead = Overflowed(m)
               \/ /\ n.at \in {"copies", "frames", "receive"} /\ n.todo = l.todo /\ n.dead = l.dead
                  /\ Owed(m) = <<>> /\ Overflowed(m) = {}
<1>1. CASE Owed(m) = <<>> /\ Overflowed(m) = {}
  <2>1. ToReplies(l, m) = ToCopies(l, m)
    BY <1>1 DEF ToReplies
  <2>2. /\ ToCopies(l, m) \in Loops /\ ToCopies(l, m) = [l EXCEPT !.at = ToCopies(l, m).at]
        /\ ToCopies(l, m).at \in {"copies", "frames", "receive"}
    BY CopiesNext
  <2> DEFINE n == ToCopies(l, m)
  <2> HIDE DEF n
  <2>3. n \in Loops /\ n = [l EXCEPT !.at = n.at] /\ n.at \in {"copies", "frames", "receive"}
    BY <2>2 DEF n
  <2>4. n.todo = l.todo /\ n.dead = l.dead
    BY <2>3 DEF Loops
  <2>5. n = [l EXCEPT !.at = n.at, !.todo = n.todo, !.dead = n.dead]
    BY <2>3, <2>4 DEF Loops
  <2> QED
    BY <1>1, <2>1, <2>3, <2>4, <2>5 DEF n
<1>2. CASE ~(Owed(m) = <<>> /\ Overflowed(m) = {})
  <2>1. ToReplies(l, m) = [l EXCEPT !.at = "replies", !.todo = Owed(m), !.dead = Overflowed(m)]
    BY <1>2 DEF ToReplies
  <2>2. Owed(m) \in Seq(Clients)
    BY OwedAre
  <2>3. Overflowed(m) \in SUBSET Clients
    BY DEF Overflowed, ToSet, Muxes
  <2> QED
    BY <2>1, <2>2, <2>3 DEF Loops, Phases
<1> QED
  BY <1>1, <1>2

LEMMA ExpireNext ==
  ASSUME NEW l \in Loops, NEW m \in Muxes
  PROVE  LET n == ToExpire(l, m)
         IN /\ n \in Loops /\ n = [l EXCEPT !.at = n.at, !.todo = n.todo, !.dead = n.dead]
            /\ \/ n.at = "expire" /\ n.todo = l.todo /\ n.dead = l.dead
               \/ n.at = "replies" /\ n.todo = Owed(m) /\ n.dead = Overflowed(m)
               \/ n.at \in {"copies", "frames", "receive"} /\ n.todo = l.todo /\ n.dead = l.dead
<1>1. CASE ToExpire(l, m) = ToReplies(l, m)
  <2> DEFINE n == ToReplies(l, m)
  <2>1. /\ n \in Loops /\ n = [l EXCEPT !.at = n.at, !.todo = n.todo, !.dead = n.dead]
        /\ \/ n.at = "replies" /\ n.todo = Owed(m) /\ n.dead = Overflowed(m)
           \/ n.at \in {"copies", "frames", "receive"} /\ n.todo = l.todo /\ n.dead = l.dead
    BY RepliesNext
  <2> QED
    BY <1>1, <2>1
<1>2. CASE ToExpire(l, m) = [l EXCEPT !.at = "expire"]
  BY <1>2 DEF Loops, Phases
<1> QED
  BY <1>1, <1>2 DEF ToExpire

(* The channel a client that is detached is told by.                          *)
Told(k, n) ==
  /\ n = [k EXCEPT !.chan = n.chan, !.link = "shut", !.out = FALSE]
  /\ n.chan = k.chan \/ (k.chan = <<>> /\ n.chan = <<Bye>> /\ k.writer # "ended")

LEMMA DetachTells ==
  ASSUME NEW cn \in [Clients -> Conn], NEW gone
  PROVE  /\ DetachClients(cn, gone) \in [Clients -> Conn]
         /\ \A c \in Clients \ gone : DetachClients(cn, gone)[c] = cn[c]
         /\ \A c \in Clients \cap gone : Told(cn[c], DetachClients(cn, gone)[c])
<1> DEFINE told(k) == [k EXCEPT !.chan = IF @ = <<>> /\ k.writer # "ended" THEN <<Bye>> ELSE @,
                                !.link = "shut", !.out = FALSE]
<1>1. ASSUME NEW k \in Conn
      PROVE  told(k) \in Conn /\ Told(k, told(k))
  <2>1. Bye \in Message /\ <<Bye>> \in Slot
    BY DEF Message, Slot
  <2>2. CASE k.chan = <<>> /\ k.writer # "ended"
    <3>1. told(k) = [k EXCEPT !.chan = <<Bye>>, !.link = "shut", !.out = FALSE]
      BY <2>2
    <3> QED
      BY <2>1, <2>2, <3>1 DEF Conn, Told
  <2>3. CASE ~(k.chan = <<>> /\ k.writer # "ended")
    <3>1. told(k) = [k EXCEPT !.chan = k.chan, !.link = "shut", !.out = FALSE]
      BY <2>3
    <3> QED
      BY <3>1 DEF Conn, Told
  <2> QED
    BY <2>2, <2>3
<1>2. DetachClients(cn, gone) = [c \in Clients |-> IF c \in gone THEN told(cn[c]) ELSE cn[c]]
  BY DEF DetachClients
<1> HIDE DEF told
<1> QED
  BY <1>1, <1>2

LEMMA SlotIs ==
  ASSUME NEW s \in Slot
  PROVE  s \in Seq(Message) /\ (s = <<>> \/ \E msg \in Message : s = <<msg>>)
<1>1. s = <<>> \/ \E msg \in Message : s = <<msg>>
  BY DEF Slot
<1>2. CASE s = <<>>
  BY <1>2
<1>3. ASSUME NEW msg \in Message, s = <<msg>>
      PROVE  s \in Seq(Message)
  BY <1>3
<1> QED
  BY <1>1, <1>2, <1>3

LEMMA ChanType ==
  ASSUME NEW k \in Conn, NEW line \in Slot
  PROVE  [k EXCEPT !.chan = line] \in Conn
  BY DEF Conn

(* A connection whose channel was filled.                                     *)
LEMMA FilledType ==
  ASSUME NEW k \in Conn, NEW q \in Slot
  PROVE  [k EXCEPT !.chan = q] \in Conn
  BY DEF Conn

(* What one client makes of its connection and of itself.                     *)
LEMMA TypesOfClients ==
  ASSUME Types, NEW c \in Clients,
         PeerAttaches(c) \/ PeerSays(c) \/ PeerReads(c) \/ PeerSeesEof(c) \/ PeerDies(c)
         \/ PeerHangs(c) \/ PeerResumes(c) \/ LinkBreaks(c) \/ ReaderEnds(c) \/ ResyncDue(c)
  PROVE  Types'
<1>1. /\ loop \in Loops /\ mux \in Muxes /\ conn \in [Clients -> Conn] /\ peer \in [Clients -> Peer]
      /\ panes \in Threads /\ handled \in [Clients -> Seq(Answer)]
      /\ executed \in SUBSET (Clients \X Nat) /\ inputs \in Nat
      /\ conn[c] \in Conn /\ peer[c] \in Peer
  BY DEF Types
<1>2. Input => inputs' \in Nat
  BY <1>1 DEF Input
<1>3. CASE PeerAttaches(c)
  <2>1. [t |-> "attach"] \in Request
    BY DEF Request
  <2>2. conn'[c] \in Conn /\ conn' \in [Clients -> Conn]
    <3>1. <<[t |-> "attach"]>> \in Seq(Request)
      BY <2>1
    <3>2. conn' = [conn EXCEPT ![c] = [conn[c] EXCEPT !.inbox = <<[t |-> "attach"]>>,
                !.reader = "reading", !.writer = "idle", !.out = TRUE, !.link = "up"]]
      BY <1>3 DEF PeerAttaches
    <3> QED
      BY <1>1, <3>1, <3>2 DEF Conn
  <2>3. peer' \in [Clients -> Peer]
    BY <1>1, <1>3 DEF PeerAttaches, Peer
  <2> QED
    BY <1>1, <1>3, <2>2, <2>3 DEF PeerAttaches, Types
<1>4. CASE PeerSays(c)
  <2>1. PICK kind \in Says[c], rows \in 1 .. Tall :
             /\ peer' = [peer EXCEPT ![c].said = @ + 1, ![c].rows = rows,
                  ![c].asked = IF kind \in {"command", "kill", "ping"} THEN @ \cup {peer[c].said + 1} ELSE @]
             /\ conn' = [conn EXCEPT ![c].inbox =
                  Append(@, [t |-> kind, n |-> IF kind = "resize" THEN rows ELSE peer[c].said + 1])]
    BY <1>4 DEF PeerSays
  <2>2. kind \in Kinds /\ rows \in Nat /\ peer[c].said + 1 \in Nat
    BY <1>1, ServerAssumption DEF Peer
  <2>3. [t |-> kind, n |-> IF kind = "resize" THEN rows ELSE peer[c].said + 1] \in Request
    BY <2>2 DEF Request
  <2>4. conn[c].inbox \in Seq(Request)
    BY <1>1 DEF Conn
  <2>5. Append(conn[c].inbox, [t |-> kind, n |-> IF kind = "resize" THEN rows ELSE peer[c].said + 1]) \in Seq(Request)
    BY <2>3, <2>4
  <2>6. conn' \in [Clients -> Conn]
    BY <1>1, <2>1, <2>5 DEF Conn
  <2>7. (IF kind \in {"command", "kill", "ping"} THEN peer[c].asked \cup {peer[c].said + 1} ELSE peer[c].asked)
          \in SUBSET Nat
    BY <1>1, <2>2 DEF Peer
  <2>8. peer' \in [Clients -> Peer]
    BY <1>1, <2>1, <2>2, <2>7 DEF Peer
  <2> QED
    BY <1>1, <1>2, <1>4, <2>6, <2>8 DEF PeerSays, Types
<1>5. CASE PeerReads(c)
  <2>1. conn[c].wire \in Seq(Message) /\ conn[c].wire # <<>>
    BY <1>1, <1>5 DEF PeerReads, Conn
  <2>2. Head(conn[c].wire) \in Message /\ Tail(conn[c].wire) \in Seq(Message)
    BY <2>1
  <2>3. Received(peer[c], Head(conn[c].wire)) \in Peer
    BY <1>1, <2>2, ReceivedType
  <2>4. peer' \in [Clients -> Peer]
    BY <1>1, <1>5, <2>3 DEF PeerReads
  <2>5. conn' \in [Clients -> Conn]
    BY <1>1, <1>5, <2>2 DEF PeerReads, Conn
  <2> QED
    BY <1>1, <1>5, <2>4, <2>5 DEF PeerReads, Types
<1>6. ASSUME NEW from, NEW to \in {"gone", "hung", "resumed"}, PeerState(c, from, to)
      PROVE  /\ peer' \in [Clients -> Peer]
             /\ UNCHANGED <<loop, mux, conn, panes, handled, executed>>
  BY <1>1, <1>6 DEF PeerState, Peer
<1>7. CASE PeerSeesEof(c) \/ PeerDies(c) \/ PeerHangs(c) \/ PeerResumes(c)
  <2>1. inputs' \in Nat
    BY <1>1, <1>2, <1>7 DEF PeerSeesEof, PeerDies, PeerHangs, PeerResumes
  <2>2. peer' \in [Clients -> Peer] /\ UNCHANGED <<loop, mux, conn, panes, handled, executed>>
    BY <1>6, <1>7 DEF PeerSeesEof, PeerDies, PeerHangs, PeerResumes
  <2> QED
    BY <1>1, <2>1, <2>2 DEF Types
<1>8. CASE LinkBreaks(c)
  <2>1. conn' \in [Clients -> Conn]
    BY <1>1, <1>8 DEF LinkBreaks, Conn
  <2> QED
    BY <1>1, <1>2, <1>8, <2>1 DEF LinkBreaks, Types
<1>9. CASE ReaderEnds(c)
  <2>1. [t |-> "disconnect"] \in Request /\ conn[c].inbox \in Seq(Request)
    BY <1>1 DEF Request, Conn
  <2>2. Append(conn[c].inbox, [t |-> "disconnect"]) \in Seq(Request)
    BY <2>1
  <2>3. conn' \in [Clients -> Conn]
    BY <1>1, <1>9, <2>2 DEF ReaderEnds, Conn
  <2> QED
    BY <1>1, <1>9, <2>3 DEF ReaderEnds, Types
<1>10. CASE ResyncDue(c)
  <2>1. loop' \in Loops
    BY <1>1, <1>10 DEF ResyncDue, Loops
  <2> QED
    BY <1>1, <1>2, <1>10, <2>1 DEF ResyncDue, Types
<1> QED
  BY <1>3, <1>4, <1>5, <1>7, <1>8, <1>9, <1>10

LEMMA TypesOfWriters ==
  ASSUME Types, NEW c \in Clients, Writer(c)
  PROVE  Types'
<1>1. /\ loop \in Loops /\ mux \in Muxes /\ conn \in [Clients -> Conn] /\ peer \in [Clients -> Peer]
      /\ panes \in Threads /\ handled \in [Clients -> Seq(Answer)]
      /\ executed \in SUBSET (Clients \X Nat) /\ inputs \in Nat
      /\ conn[c] \in Conn
  BY DEF Types
<1>2. UNCHANGED <<loop, mux, peer, panes, handled, executed, inputs>>
  BY DEF Writer, WriterSends, WriterBlocks, WriterResumes, WriterEnds
<1>3. <<>> \in Slot
  BY DEF Slot
<1>4. ASSUME NEW line \in Slot, Written(c, line)
      PROVE  conn' \in [Clients -> Conn]
  <2>1. line \in Seq(Message) /\ conn[c].wire \in Seq(Message)
    BY <1>1, SlotIs DEF Conn
  <2>2. conn[c].wire \o line \in Seq(Message)
    BY <2>1
  <2>3. conn' = [conn EXCEPT ![c] = [conn[c] EXCEPT !.wire = conn[c].wire \o line, !.held = <<>>,
             !.chan = IF conn[c].held = <<>> THEN <<>> ELSE conn[c].chan,
             !.writer = IF line = <<Bye>> THEN "ended" ELSE "idle"]]
    BY <1>1, <1>4 DEF Written, Conn
  <2>4. (IF conn[c].held = <<>> THEN <<>> ELSE conn[c].chan) \in Slot
    BY <1>1, <1>3 DEF Conn
  <2>5. (IF line = <<Bye>> THEN "ended" ELSE "idle") \in {"ended", "idle"}
    OBVIOUS
  <2> QED
    BY <1>1, <1>3, <2>2, <2>3, <2>4, <2>5 DEF Conn
<1>5. conn[c].chan \in Slot /\ conn[c].held \in Slot
  BY <1>1 DEF Conn
<1>6. CASE WriterSends(c) \/ WriterResumes(c)
  <2>1. conn' \in [Clients -> Conn]
    BY <1>4, <1>5, <1>6 DEF WriterSends, WriterResumes
  <2> QED
    BY <1>1, <1>2, <2>1 DEF Types
<1>7. CASE WriterBlocks(c)
  <2>1. conn' \in [Clients -> Conn]
    BY <1>1, <1>3, <1>5, <1>7 DEF WriterBlocks, Conn
  <2> QED
    BY <1>1, <1>2, <2>1 DEF Types
<1>8. CASE WriterEnds(c)
  <2>1. conn' = [conn EXCEPT ![c] = [conn[c] EXCEPT !.writer = "ended", !.held = <<>>, !.chan = <<>>]]
    BY <1>1, <1>8 DEF WriterEnds
  <2>2. conn' \in [Clients -> Conn]
    BY <1>1, <1>3, <2>1 DEF Conn
  <2> QED
    BY <1>1, <1>2, <2>2 DEF Types
<1> QED
  BY <1>6, <1>7, <1>8 DEF Writer

LEMMA TypesOfPanes ==
  ASSUME Types, PaneDraws \/ PaneWakes \/ \E p \in Panes : PaneStamps(p) \/ PaneStores(p)
  PROVE  Types'
<1>1. /\ loop \in Loops /\ mux \in Muxes /\ conn \in [Clients -> Conn] /\ peer \in [Clients -> Peer]
      /\ panes \in Threads /\ handled \in [Clients -> Seq(Answer)]
      /\ executed \in SUBSET (Clients \X Nat) /\ inputs \in Nat
  BY DEF Types
<1>2. Input => inputs' \in Nat
  BY <1>1 DEF Input
<1>3. CASE PaneDraws
  <2>1. PICK alt \in BOOLEAN : panes' = [panes EXCEPT !.drawn = 1 - panes.drawn, !.alt = alt, !.unseen = TRUE]
    BY <1>3 DEF PaneDraws
  <2>2. 1 - panes.drawn \in {0, 1}
    BY <1>1 DEF Threads
  <2>3. panes' \in Threads
    BY <1>1, <2>1, <2>2 DEF Threads
  <2> QED
    BY <1>1, <1>2, <1>3, <2>3 DEF PaneDraws, Types
<1>4. CASE PaneWakes
  <2>1. panes' \in Threads
    BY <1>1, <1>4 DEF PaneWakes, Threads
  <2> QED
    BY <1>1, <1>4, <2>1 DEF PaneWakes, Types
<1>5. ASSUME NEW p \in Panes, PaneStamps(p)
      PROVE  Types'
  <2>1. panes' = [panes EXCEPT !.stamped = [panes.stamped EXCEPT ![p] = panes.ticket], !.ticket = panes.ticket + 1]
    BY <1>1, <1>5 DEF PaneStamps, Threads
  <2>2. panes.ticket \in Nat /\ panes.ticket + 1 \in Nat \ {0}
    BY <1>1 DEF Threads
  <2>3. panes' \in Threads
    BY <1>1, <2>1, <2>2 DEF Threads
  <2> QED
    BY <1>1, <1>2, <1>5, <2>3 DEF PaneStamps, Types
<1>6. ASSUME NEW p \in Panes, PaneStores(p)
      PROVE  Types'
  <2>1. panes' = [panes EXCEPT !.slot = [panes.slot EXCEPT ![p] = panes.stamped[p]],
                               !.stamped = [panes.stamped EXCEPT ![p] = 0]]
    BY <1>1, <1>6 DEF PaneStores, Threads
  <2>2. panes' \in Threads
    BY <1>1, <2>1 DEF Threads
  <2> QED
    BY <1>1, <1>6, <2>2 DEF PaneStores, Types
<1> QED
  BY <1>3, <1>4, <1>5, <1>6

(* A request that is taken off the inbox, and what kind it is.                *)
LEMMA TakenType ==
  ASSUME Types, NEW c \in Clients, conn[c].inbox # <<>>
  PROVE  /\ Taken(c) \in [Clients -> Conn]
         /\ \A d \in Clients : Taken(c)[d] = [conn[d] EXCEPT !.inbox = Taken(c)[d].inbox]
         /\ Head(conn[c].inbox) \in Request
         /\ Head(conn[c].inbox).t \in Kinds => Head(conn[c].inbox).n \in Nat
<1>1. conn \in [Clients -> Conn] /\ conn[c].inbox \in Seq(Request)
  BY DEF Types, Conn
<1>2. Tail(conn[c].inbox) \in Seq(Request) /\ Head(conn[c].inbox) \in Request
  BY <1>1
<1>3. Taken(c) = [conn EXCEPT ![c] = [conn[c] EXCEPT !.inbox = Tail(conn[c].inbox)]]
  BY <1>1 DEF Taken
<1>4. Taken(c) \in [Clients -> Conn]
  <2>1. [conn[c] EXCEPT !.inbox = Tail(conn[c].inbox)] \in Conn
    BY <1>1, <1>2 DEF Conn
  <2> QED
    BY <1>1, <1>3, <2>1
<1>5. \A d \in Clients : Taken(c)[d] = [conn[d] EXCEPT !.inbox = Taken(c)[d].inbox]
  <2> TAKE d \in Clients
  <2>1. conn[d] \in Conn
    BY <1>1
  <2>2. CASE d = c
    BY <1>1, <1>3, <2>1, <2>2 DEF Conn
  <2>3. CASE d # c
    <3>1. Taken(c)[d] = conn[d]
      BY <1>1, <1>3, <2>3
    <3> QED
      BY <2>1, <3>1 DEF Conn
  <2> QED
    BY <2>2, <2>3
<1>6. Head(conn[c].inbox).t \in Kinds => Head(conn[c].inbox).n \in Nat
  BY <1>2 DEF Request, Kinds
<1> QED
  BY <1>2, <1>4, <1>5, <1>6

LEMMA AttachmentType ==
  ASSUME NEW rows \in Nat
  PROVE  Attachment(rows) \in Srv
<1>1. Blank(rows) \in Seq(Nat)
  BY BlankType
<1> QED
  BY <1>1, DetachedType DEF Attachment, Srv

LEMMA QueueReplyType ==
  ASSUME NEW s \in Srv, NEW reply \in Reply
  PROVE  QueueReply(s, reply) \in Srv
<1>1. Append(s.replies, reply) \in Seq(Reply)
  BY DEF Srv
<1> QED
  BY <1>1 DEF QueueReply, Srv

(* What each request makes of the server.                                     *)
LEMMA TypesOfHandlers ==
  ASSUME Types, NEW c \in Clients, HandleIncoming(c)
  PROVE  Types'
<1>1. /\ loop \in Loops /\ mux \in Muxes /\ conn \in [Clients -> Conn] /\ peer \in [Clients -> Peer]
      /\ panes \in Threads /\ handled \in [Clients -> Seq(Answer)]
      /\ executed \in SUBSET (Clients \X Nat) /\ inputs \in Nat
      /\ mux.srv[c] \in Srv
  BY DEF Types, Muxes
<1>2. conn[c].inbox # <<>>
  BY DEF HandleIncoming, HandleAttach, HandleStale, HandleEnv, HandleChord, HandleRedraw, HandleDrag,
         HandleResize, HandleDetach, HandleDisconnect, HandleCommand, HandleKillServer, HandlePing, Taking
<1>3. /\ Taken(c) \in [Clients -> Conn]
      /\ Head(conn[c].inbox).t \in Kinds => Head(conn[c].inbox).n \in Nat
  BY <1>2, TakenType
<1>4. Dirtied => loop' \in Loops
  BY <1>1 DEF Dirtied, Loops
<1>5. \A kind \in Kinds : Taking(c, kind) => Head(conn[c].inbox).n \in Nat
  BY <1>3 DEF Taking
<1>6. CASE HandleAttach(c)
  <2> DEFINE replaced == {Replaces[c]} \cap {o \in Attached : mux.srv[o].tagged}
             m == PruneDeadClients(mux, replaced)
             k == [m EXCEPT !.att = Append(m.att, c), !.srv[c] = Attachment(Size[c])]
  <2>1. m \in Muxes
    BY <1>1, PruneLeft DEF Left
  <2>2. Size[c] \in Nat
    BY ServerAssumption
  <2>3. m.att \in Seq(Clients)
    BY <2>1 DEF Muxes
  <2>4. Append(m.att, c) \in Seq(Clients)
    BY <2>3
  <2>5. k \in Muxes
    <3> HIDE DEF m
    <3> QED
      BY <2>1, <2>2, <2>4, AttachmentType DEF Muxes
  <2>6. mux' = RecomputeViewport(k)
    BY <1>6 DEF HandleAttach
  <2>7. mux' \in Muxes
    <3> HIDE DEF k
    <3> QED
      BY <2>5, <2>6, Recomputed
  <2>8. conn' \in [Clients -> Conn]
    BY <1>3, <1>6, DetachTells DEF HandleAttach
  <2> QED
    BY <1>1, <1>4, <1>6, <2>7, <2>8 DEF HandleAttach, Types
<1>7. CASE HandleStale(c)
  <2>1. loop' \in Loops
    BY <1>1, <1>7 DEF HandleStale, Loops
  <2> QED
    BY <1>1, <1>3, <1>7, <2>1 DEF HandleStale, Types
<1>8. CASE HandleEnv(c)
  <2>1. mux' = [mux EXCEPT !.srv = [mux.srv EXCEPT ![c] = [mux.srv[c] EXCEPT !.tagged = TRUE]]]
    BY <1>1, <1>8 DEF HandleEnv
  <2>2. mux' \in Muxes
    BY <1>1, <2>1 DEF Muxes, Srv
  <2> QED
    BY <1>1, <1>3, <1>8, <2>2 DEF HandleEnv, Types
<1>9. CASE HandleChord(c)
  <2>1. mux' = [mux EXCEPT !.srv = [mux.srv EXCEPT ![c] = [mux.srv[c] EXCEPT !.armed = ~mux.srv[c].armed]]]
    BY <1>1, <1>9 DEF HandleChord
  <2>2. mux' \in Muxes
    BY <1>1, <2>1 DEF Muxes, Srv
  <2> QED
    BY <1>1, <1>3, <1>4, <1>9, <2>2 DEF HandleChord, Types
<1>10. CASE HandleRedraw(c)
  <2>1. mux' = [mux EXCEPT !.srv = [mux.srv EXCEPT ![c] = Baseline(mux.srv[c], Len(mux.srv[c].last))]]
    BY <1>1, <1>10 DEF HandleRedraw
  <2>2. Len(mux.srv[c].last) \in Nat
    BY <1>1 DEF Srv
  <2>3. mux' \in Muxes
    BY <1>1, <2>1, <2>2, BaselineType DEF Muxes
  <2> QED
    BY <1>1, <1>3, <1>4, <1>10, <2>3 DEF HandleRedraw, Types
<1>11. CASE HandleDrag(c)
  <2>1. mux' = [mux EXCEPT !.srv = [mux.srv EXCEPT ![c] = QueueCopy(mux.srv[c], panes.ticket)]]
    BY <1>1, <1>11 DEF HandleDrag
  <2>2. panes.ticket \in Nat /\ panes.ticket + 1 \in Nat \ {0}
    BY <1>1 DEF Threads
  <2>3. QueueCopy(mux.srv[c], panes.ticket) \in Srv
    BY <1>1, <2>2 DEF QueueCopy, Srv
  <2>4. mux' \in Muxes
    BY <1>1, <2>1, <2>3 DEF Muxes
  <2>5. panes' \in Threads
    BY <1>1, <1>11, <2>2 DEF HandleDrag, Threads
  <2> QED
    BY <1>1, <1>3, <1>4, <1>11, <2>4, <2>5 DEF HandleDrag, Types
<1>12. CASE HandleResize(c)
  <2> DEFINE k == [mux EXCEPT !.srv = [mux.srv EXCEPT ![c] = [mux.srv[c] EXCEPT !.rows = Head(conn[c].inbox).n]]]
  <2>1. mux' = RecomputeViewport(k)
    BY <1>1, <1>12 DEF HandleResize
  <2>2. Head(conn[c].inbox).n \in Nat
    BY <1>5, <1>12 DEF HandleResize, Kinds
  <2>3. k \in Muxes
    BY <1>1, <2>2 DEF Muxes, Srv
  <2>4. mux' \in Muxes
    <3> HIDE DEF k
    <3> QED
      BY <2>1, <2>3, Recomputed
  <2> QED
    BY <1>1, <1>3, <1>4, <1>12, <2>4 DEF HandleResize, Types
<1>13. CASE HandleDetach(c)
  <2>1. mux' \in Muxes
    BY <1>1, <1>13, WithoutLeft DEF HandleDetach, Left
  <2>2. conn' \in [Clients -> Conn]
    BY <1>3, <1>13, DetachTells DEF HandleDetach
  <2> QED
    BY <1>1, <1>4, <1>13, <2>1, <2>2 DEF HandleDetach, Types
<1>14. CASE HandleDisconnect(c)
  <2>1. mux' \in Muxes
    BY <1>1, <1>14, WithoutLeft DEF HandleDisconnect, Left
  <2>2. conn' \in [Clients -> Conn]
    <3> DEFINE cn == Taken(c)
    <3>1. conn' = [cn EXCEPT ![c] = [cn[c] EXCEPT !.out = FALSE]]
      BY <1>14 DEF HandleDisconnect
    <3> HIDE DEF cn
    <3>2. cn \in [Clients -> Conn]
      BY <1>3 DEF cn
    <3>3. [cn[c] EXCEPT !.out = FALSE] \in Conn
      BY <3>2 DEF Conn
    <3> QED
      BY <3>1, <3>2, <3>3
  <2> QED
    BY <1>1, <1>4, <1>14, <2>1, <2>2 DEF HandleDisconnect, Types
<1>15. ASSUME NEW id \in Nat, NEW code \in Codes, Answered(c, id, code)
       PROVE  /\ mux' \in Muxes /\ handled' \in [Clients -> Seq(Answer)] /\ conn' \in [Clients -> Conn]
              /\ peer' = peer /\ panes' = panes /\ inputs' = inputs
  <2> DEFINE reply == [t |-> "reply", id |-> id, code |-> code]
             answer == [id |-> id, code |-> code]
  <2>1. reply \in Reply /\ answer \in Answer
    BY DEF Reply, Answer
  <2>2. QueueReply(mux.srv[c], reply) \in Srv
    <3> HIDE DEF reply
    <3> QED
      BY <1>1, <2>1, QueueReplyType
  <2>3. mux' = [mux EXCEPT !.srv = [mux.srv EXCEPT ![c] = QueueReply(mux.srv[c], reply)]]
    BY <1>1, <1>15 DEF Answered
  <2>4. mux' \in Muxes
    <3> HIDE DEF reply
    <3> QED
      BY <1>1, <2>2, <2>3 DEF Muxes
  <2>5. handled[c] \in Seq(Answer)
    BY <1>1
  <2>6. Append(handled[c], answer) \in Seq(Answer)
    BY <2>1, <2>5
  <2>7. handled' \in [Clients -> Seq(Answer)]
    BY <1>1, <1>15, <2>6 DEF Answered
  <2> QED
    BY <1>3, <1>15, <2>4, <2>7 DEF Answered
<1>16. CASE HandleCommand(c) \/ HandleKillServer(c) \/ HandlePing(c)
  <2> DEFINE id == Head(conn[c].inbox).n
  <2>1. id \in Nat
    BY <1>5, <1>16 DEF HandleCommand, HandleKillServer, HandlePing, Kinds
  <2>2. \E code \in Codes : Answered(c, id, code)
    BY <1>16 DEF HandleCommand, HandleKillServer, HandlePing, Codes
  <2>3. loop' \in Loops
    BY <1>1, <1>16 DEF HandleCommand, HandleKillServer, HandlePing, Loops
  <2>4. executed' \in SUBSET (Clients \X Nat)
    <3>1. <<c, id>> \in Clients \X Nat
      BY <2>1
    <3>2. executed' = executed \/ executed' = executed \cup {<<c, id>>}
      BY <1>16 DEF HandleCommand, HandleKillServer, HandlePing
    <3> QED
      BY <1>1, <3>1, <3>2
  <2> HIDE DEF id
  <2> QED
    BY <1>1, <1>15, <2>1, <2>2, <2>3, <2>4 DEF Types
<1> QED
  BY <1>6, <1>7, <1>8, <1>9, <1>10, <1>11, <1>12, <1>13, <1>14, <1>16 DEF HandleIncoming

(* Screens and frames.                                                        *)
LEMMA RenderType ==
  ASSUME NEW m \in Muxes, panes \in Threads
  PROVE  /\ Render(m) \in Seq({0, 1}) /\ Render(m) \in Seq(Nat) /\ Len(Render(m)) = m.viewport
         /\ \A i \in 1 .. m.viewport : Render(m)[i] = IF i = 1 THEN Bit(AnyArmed(m)) ELSE panes.drawn
<1>1. m.viewport \in Nat
  BY DEF Muxes
<1>2. \A i \in 1 .. m.viewport : (IF i = 1 THEN Bit(AnyArmed(m)) ELSE panes.drawn) \in {0, 1}
  BY DEF Bit, Threads
<1>3. Render(m) \in [1 .. m.viewport -> {0, 1}]
  BY <1>2 DEF Render
<1>4. Render(m) \in Seq({0, 1}) /\ Render(m) \in Seq(Nat) /\ Len(Render(m)) = m.viewport
  BY <1>1, <1>3, SeqDef
<1> QED
  BY <1>4 DEF Render

LEMMA FrameType ==
  ASSUME NEW s \in Srv, NEW screen \in Seq(Nat)
  PROVE  /\ Frame(s, screen) \in Frames
         /\ Frame(s, screen).full = s.needsFull /\ Frame(s, screen).rows = Len(screen)
         /\ DOMAIN Frame(s, screen).cells = Changed(s.last, screen)
         /\ \A i \in Changed(s.last, screen) : Frame(s, screen).cells[i] = screen[i]
<1> DEFINE cells == [i \in Changed(s.last, screen) |-> screen[i]]
<1>1. Changed(s.last, screen) \in SUBSET Nat /\ Changed(s.last, screen) \subseteq 1 .. Len(screen)
  BY DEF Changed
<1>2. \A i \in Changed(s.last, screen) : screen[i] \in Nat
  BY <1>1
<1>3. cells \in [Changed(s.last, screen) -> Nat]
  BY <1>2
<1>4. cells \in Cells
  BY <1>1, <1>3 DEF Cells
<1>5. Frame(s, screen) = [t |-> "frame", full |-> s.needsFull, rows |-> Len(screen), cells |-> cells]
  BY DEF Frame
<1>6. s.needsFull \in BOOLEAN /\ Len(screen) \in Nat
  BY DEF Srv
<1>7. DOMAIN cells = Changed(s.last, screen) /\ \A i \in Changed(s.last, screen) : cells[i] = screen[i]
  OBVIOUS
<1> HIDE DEF cells
<1> QED
  BY <1>4, <1>5, <1>6, <1>7 DEF Frames

(* The baseline a frame is diffed against, and what the client's record is    *)
(* then; only the baseline and the marks of a frame owed change.              *)
LEMMA DiffedType ==
  ASSUME Types, NEW c \in Clients, NEW screen \in Seq(Nat), NEW row \in Nat,
         Resyncs(c) => row \in DOMAIN screen
  PROVE  LET s == Diffed(c, screen, row)
         IN /\ s \in Srv /\ Kept(mux.srv[c], s) /\ Len(s.last) = Len(screen)
            /\ s.pending = mux.srv[c].pending
            /\ \/ Len(mux.srv[c].last) # Len(screen) /\ s.needsFull /\ s.last = Blank(Len(screen))
               \/ /\ Len(mux.srv[c].last) = Len(screen) /\ s.needsFull = mux.srv[c].needsFull
                  /\ \/ s.last = mux.srv[c].last
                     \/ /\ ~s.needsFull
                        /\ \A i \in 1 .. Len(screen) : s.last[i] \in {Unknown, mux.srv[c].last[i]}
<1> DEFINE s == mux.srv[c]
           d == Diffed(c, screen, row)
<1>1. s \in Srv /\ s.last \in Seq(Nat)
  BY DEF Types, Muxes, Srv
<1>2. CASE Len(s.last) # Len(screen)
  <2>1. d = Baseline(s, Len(screen)) /\ Len(screen) \in Nat
    BY <1>2 DEF Diffed
  <2>2. /\ Baseline(s, Len(screen)) \in Srv /\ Kept(s, Baseline(s, Len(screen)))
        /\ Baseline(s, Len(screen)).last = Blank(Len(screen)) /\ Baseline(s, Len(screen)).needsFull
        /\ Baseline(s, Len(screen)).pending = s.pending
    BY <1>1, <2>1, BaselineType
  <2>3. Len(Blank(Len(screen))) = Len(screen)
    BY <2>1, BlankType
  <2>4. d \in Srv /\ Kept(s, d) /\ d.last = Blank(Len(screen)) /\ d.needsFull /\ d.pending = s.pending
    BY <2>1, <2>2
  <2>5. Len(d.last) = Len(screen)
    BY <2>3, <2>4
  <2> QED
    BY <1>2, <2>4, <2>5
<1>3. CASE Len(s.last) = Len(screen) /\ Resyncs(c)
  <2>1. d = [s EXCEPT !.last = [s.last EXCEPT ![row] = Unknown]] /\ ~s.needsFull
    BY <1>1, <1>3 DEF Diffed, Resyncs, Srv
  <2>2. [s.last EXCEPT ![row] = Unknown] \in Seq(Nat) /\ Len([s.last EXCEPT ![row] = Unknown]) = Len(s.last)
    <3>1. row \in 1 .. Len(s.last) /\ Unknown \in Nat
      BY <1>3 DEF Unknown
    <3> QED
      BY <1>1, <3>1, ExceptSeq
  <2>3. \A i \in 1 .. Len(screen) : [s.last EXCEPT ![row] = Unknown][i] \in {Unknown, s.last[i]}
    BY <1>1, <1>3
  <2>4. d \in Srv /\ Kept(s, d) /\ d.last = [s.last EXCEPT ![row] = Unknown]
        /\ d.needsFull = s.needsFull /\ d.pending = s.pending
    BY <1>1, <2>1, <2>2 DEF Srv, Kept
  <2> QED
    BY <1>3, <2>1, <2>2, <2>3, <2>4
<1>4. CASE Len(s.last) = Len(screen) /\ ~Resyncs(c)
  <2>1. d = s
    BY <1>4 DEF Diffed
  <2> QED
    BY <1>1, <1>4, <2>1 DEF Kept
<1> QED
  BY <1>2, <1>3, <1>4

LEMMA PushedType ==
  ASSUME NEW c \in Clients, NEW s \in Srv, NEW screen \in Seq(Nat)
  PROVE  Pushed(c, s, screen) \in Srv /\ Kept(s, Pushed(c, s, screen))
  BY DEF Pushed, Missed, Srv, Kept

(* Every attached client starts from a blank screen of its own size.          *)
LEMMA EachRestart ==
  ASSUME NEW m \in Muxes
  PROVE  LET n == Each(m, LAMBDA s : Baseline(s, Len(s.last)))
         IN /\ n \in Muxes /\ n = [m EXCEPT !.srv = n.srv]
            /\ \A c \in Clients : Kept(m.srv[c], n.srv[c]) /\ Marked(m.srv[c], n.srv[c])
            /\ \A c \in Clients : c \notin ToSet(m.att) => n.srv[c] = m.srv[c]
            /\ \A c \in ToSet(m.att) : n.srv[c].needsFull
<1> DEFINE n == Each(m, LAMBDA s : Baseline(s, Len(s.last)))
           srv == [c \in Clients |-> IF c \in ToSet(m.att) THEN Baseline(m.srv[c], Len(m.srv[c].last)) ELSE m.srv[c]]
<1>1. n = [m EXCEPT !.srv = srv]
  BY DEF Each
<1>2. \A c \in Clients : m.srv[c] \in Srv /\ Len(m.srv[c].last) \in Nat
  BY DEF Muxes, Srv
<1>3. srv \in [Clients -> Srv]
  BY <1>2, BaselineType
<1>4. n \in Muxes /\ n.srv = srv /\ n = [m EXCEPT !.srv = n.srv]
  BY <1>1, <1>3 DEF Muxes
<1>5. \A c \in Clients : Kept(m.srv[c], srv[c]) /\ Marked(m.srv[c], srv[c])
  <2> TAKE c \in Clients
  <2>1. Kept(m.srv[c], m.srv[c]) /\ Marked(m.srv[c], m.srv[c])
    BY DEF Kept, Marked
  <2>2. Kept(m.srv[c], Baseline(m.srv[c], Len(m.srv[c].last)))
        /\ Marked(m.srv[c], Baseline(m.srv[c], Len(m.srv[c].last)))
    BY <1>2, BaselineType
  <2> QED
    BY <2>1, <2>2
<1>6. \A c \in ToSet(m.att) : srv[c].needsFull
  <2>1. ToSet(m.att) \subseteq Clients
    BY DEF Muxes, ToSet
  <2> QED
    BY <1>2, <2>1, BaselineType
<1>7. \A c \in Clients : c \notin ToSet(m.att) => srv[c] = m.srv[c]
  OBVIOUS
<1> HIDE DEF srv, n
<1> QED
  BY <1>4, <1>5, <1>6, <1>7 DEF n

(* A copy is queued for every attached client.                                *)
LEMMA EachCopy ==
  ASSUME NEW m \in Muxes, NEW seq \in Nat
  PROVE  LET n == Each([m EXCEPT !.relayed = seq], LAMBDA s : QueueCopy(s, seq))
         IN /\ n \in Muxes /\ n = [m EXCEPT !.srv = n.srv, !.relayed = seq]
            /\ \A c \in Clients :
                 n.srv[c] = [m.srv[c] EXCEPT !.copy = IF c \in ToSet(m.att) /\ seq > m.srv[c].copy
                                                      THEN seq ELSE m.srv[c].copy]
<1> DEFINE n == Each([m EXCEPT !.relayed = seq], LAMBDA s : QueueCopy(s, seq))
           srv == [c \in Clients |-> IF c \in ToSet(m.att) THEN QueueCopy(m.srv[c], seq) ELSE m.srv[c]]
<1>1. n = [m EXCEPT !.relayed = seq, !.srv = srv]
  BY DEF Each, Muxes
<1>2. \A c \in Clients : m.srv[c] \in Srv
  BY DEF Muxes
<1>3. \A c \in Clients : QueueCopy(m.srv[c], seq) \in Srv
  BY <1>2 DEF QueueCopy, Srv
<1>4. srv \in [Clients -> Srv]
  BY <1>2, <1>3
<1>5. n \in Muxes /\ n.srv = srv /\ n = [m EXCEPT !.srv = n.srv, !.relayed = seq]
  BY <1>1, <1>4 DEF Muxes
<1>6. \A c \in Clients :
        srv[c] = [m.srv[c] EXCEPT !.copy = IF c \in ToSet(m.att) /\ seq > m.srv[c].copy
                                           THEN seq ELSE m.srv[c].copy]
  BY <1>2 DEF QueueCopy, Srv
<1> HIDE DEF srv, n
<1> QED
  BY <1>5, <1>6 DEF n

(* What the loop keeps once the frames are pushed, before the dead leave.     *)
PushedMux(screen, row) ==
  [mux EXCEPT !.armed = IF mux.att = <<>> THEN @ ELSE AnyArmed(mux),
              !.srv = [c \in Clients |-> IF c \in Attached THEN Pushed(c, Diffed(c, screen, row), screen)
                                         ELSE @[c]]]

Speaking(screen, row) == {c \in Attached : ~Idle(Diffed(c, screen, row), screen)}

PushedConn(screen, row) ==
  [c \in Clients |-> IF c \in Speaking(screen, row) /\ Accepts(c)
                     THEN [conn[c] EXCEPT !.chan = <<Frame(Diffed(c, screen, row), screen)>>] ELSE conn[c]]

DeadOf(screen, row) == {c \in Speaking(screen, row) : WriterGone(c)}

LEMMA PushIs ==
  ASSUME Types, PushFrames
  PROVE  LET screen == Render(mux)
         IN \E row \in Nat :
              /\ \A c \in Attached : Resyncs(c) => row \in DOMAIN screen
              /\ PushedMux(screen, row) \in Muxes
              /\ \A c \in Clients :
                   PushedMux(screen, row).srv[c] =
                     IF c \in Attached THEN Pushed(c, Diffed(c, screen, row), screen) ELSE mux.srv[c]
              /\ PushedConn(screen, row) \in [Clients -> Conn]
              /\ mux' = PruneDeadClients(PushedMux(screen, row), DeadOf(screen, row))
              /\ conn' = DetachClients(PushedConn(screen, row), DeadOf(screen, row))
              /\ loop.at = "frames"
              /\ loop' = [loop EXCEPT !.at = "receive", !.dirty = FALSE, !.due = loop'.due]
              /\ loop'.due \in SUBSET Clients
              /\ UNCHANGED <<peer, panes, handled, executed, inputs>>
<1> DEFINE screen == Render(mux)
<1>1. mux \in Muxes /\ panes \in Threads /\ conn \in [Clients -> Conn] /\ loop \in Loops
  BY DEF Types
<1>2. screen \in Seq(Nat)
  BY <1>1, RenderType
<1>3. PICK row \in IF \E c \in Attached : Resyncs(c) THEN DOMAIN screen ELSE {1} :
        LET base(c) == Diffed(c, screen, row)
            speaking == {c \in Attached : ~Idle(base(c), screen)}
            dead == {c \in speaking : WriterGone(c)}
            sent == {c \in speaking : Accepts(c)}
            m == [mux EXCEPT
                   !.armed = IF mux.att = <<>> THEN @ ELSE AnyArmed(mux),
                   !.srv = [c \in Clients |-> IF c \in Attached THEN Pushed(c, base(c), screen) ELSE @[c]]]
        IN
        /\ mux' = PruneDeadClients(m, dead)
        /\ conn' = DetachClients([c \in Clients |->
                      IF c \in sent THEN [conn[c] EXCEPT !.chan = <<Frame(base(c), screen)>>]
                      ELSE conn[c]], dead)
        /\ loop' = [loop EXCEPT !.at = "receive", !.dirty = FALSE,
                      !.due = @ \ {c \in Attached : Resyncs(c)}]
  BY DEF PushFrames
<1>4. row \in Nat /\ \A c \in Attached : Resyncs(c) => row \in DOMAIN screen
  BY <1>2, <1>3
<1> HIDE DEF screen
<1>5. DeadOf(screen, row) = {c \in {d \in Attached : ~Idle(Diffed(d, screen, row), screen)} : WriterGone(c)}
  BY DEF DeadOf, Speaking
<1>6. PushedMux(screen, row) =
        [mux EXCEPT !.armed = IF mux.att = <<>> THEN @ ELSE AnyArmed(mux),
                    !.srv = [c \in Clients |-> IF c \in Attached THEN Pushed(c, Diffed(c, screen, row), screen)
                                               ELSE @[c]]]
  BY DEF PushedMux
<1>7. PushedConn(screen, row) =
        [c \in Clients |->
           IF c \in {d \in {e \in Attached : ~Idle(Diffed(e, screen, row), screen)} : Accepts(d)}
           THEN [conn[c] EXCEPT !.chan = <<Frame(Diffed(c, screen, row), screen)>>] ELSE conn[c]]
  BY DEF PushedConn, Speaking
<1>8. /\ mux' = PruneDeadClients(PushedMux(screen, row), DeadOf(screen, row))
      /\ conn' = DetachClients(PushedConn(screen, row), DeadOf(screen, row))
  BY <1>3, <1>5, <1>6, <1>7
<1>9. \A c \in Clients : c \in Attached => Diffed(c, screen, row) \in Srv
  BY <1>2, <1>4, DiffedType
<1>10. \A c \in Clients : mux.srv[c] \in Srv
  BY <1>1 DEF Muxes
<1>11. \A c \in Clients : c \in Attached => Pushed(c, Diffed(c, screen, row), screen) \in Srv
  BY <1>2, <1>9, PushedType
<1>12. AnyArmed(mux) \in BOOLEAN
  BY DEF AnyArmed
<1> DEFINE srv == [c \in Clients |-> IF c \in Attached THEN Pushed(c, Diffed(c, screen, row), screen)
                                     ELSE mux.srv[c]]
<1>13. srv \in [Clients -> Srv]
  BY <1>10, <1>11
<1>14. PushedMux(screen, row) = [mux EXCEPT !.armed = IF mux.att = <<>> THEN mux.armed ELSE AnyArmed(mux), !.srv = srv]
  BY <1>6
<1>15. PushedMux(screen, row) \in Muxes /\ PushedMux(screen, row).srv = srv
  <2> HIDE DEF srv
  <2> QED
    BY <1>1, <1>12, <1>13, <1>14 DEF Muxes
<1>16. \A c \in Clients : c \in Attached => <<Frame(Diffed(c, screen, row), screen)>> \in Slot
  BY <1>2, <1>9, FrameType DEF Slot, Message
<1>17. \A c \in Clients :
         PushedConn(screen, row)[c] \in Conn
  <2> TAKE c \in Clients
  <2>1. CASE c \in Speaking(screen, row) /\ Accepts(c)
    <3>1. c \in Attached
      BY <2>1 DEF Speaking
    <3>2. PushedConn(screen, row)[c] = [conn[c] EXCEPT !.chan = <<Frame(Diffed(c, screen, row), screen)>>]
      BY <2>1 DEF PushedConn
    <3> DEFINE q == <<Frame(Diffed(c, screen, row), screen)>>
    <3>3. conn[c] \in Conn
      BY <1>1
    <3>4. q \in Slot
      BY <1>16, <3>1
    <3> HIDE DEF q
    <3>5. [conn[c] EXCEPT !.chan = q] \in Conn
      BY <3>3, <3>4, FilledType
    <3> QED
      BY <3>2, <3>5 DEF q
  <2>2. CASE ~(c \in Speaking(screen, row) /\ Accepts(c))
    BY <1>1, <2>2 DEF PushedConn
  <2> QED
    BY <2>1, <2>2
<1>18. PushedConn(screen, row) \in [Clients -> Conn]
  BY <1>17 DEF PushedConn
<1>19. loop'.due \in SUBSET Clients /\ loop' = [loop EXCEPT !.at = "receive", !.dirty = FALSE, !.due = loop'.due]
  BY <1>1, <1>3 DEF Loops
<1>20. loop.at = "frames" /\ UNCHANGED <<peer, panes, handled, executed, inputs>>
  BY DEF PushFrames
<1>21. \A c \in Clients : PushedMux(screen, row).srv[c] =
         IF c \in Attached THEN Pushed(c, Diffed(c, screen, row), screen) ELSE mux.srv[c]
  BY <1>15
<1> HIDE DEF srv
<1> QED
  BY <1>4, <1>8, <1>15, <1>18, <1>19, <1>20, <1>21 DEF screen

LEMMA HeadThenTail ==
  ASSUME NEW S, NEW q \in Seq(S), q # <<>>
  PROVE  <<Head(q)>> \o Tail(q) = q
<1>1. Len(q) \in Nat \ {0} /\ q \in [1 .. Len(q) -> S]
  BY EmptySeq
<1> QED
  BY <1>1

(* What the loop does with the first reply of the client whose turn it is: it *)
(* goes into the channel, stays, or is forgotten with the writer.             *)
LEMMA ReplyIs ==
  ASSUME Types, SendReply
  PROVE  LET c == Head(loop.todo)
             s == mux.srv[c]
             popped == [mux EXCEPT !.srv = [mux.srv EXCEPT ![c] = [s EXCEPT !.replies = Tail(s.replies)]]]
         IN /\ loop.at = "replies" /\ loop.todo # <<>> /\ c \in Clients /\ Tail(loop.todo) \in Seq(Clients)
            /\ UNCHANGED <<peer, panes, handled, executed, inputs>>
            /\ \/ /\ s.replies # <<>> /\ Accepts(c) /\ mux' = popped /\ loop' = loop
                  /\ conn' = [conn EXCEPT ![c] = [conn[c] EXCEPT !.chan = <<Head(s.replies)>>]]
               \/ /\ s.replies = <<>> /\ mux' = mux /\ conn' = conn
                  /\ loop' = [loop EXCEPT !.todo = Tail(loop.todo)]
               \/ /\ s.replies # <<>> /\ Full(c) /\ mux' = mux /\ conn' = conn
                  /\ loop' = [loop EXCEPT !.todo = Tail(loop.todo)]
               \/ /\ s.replies # <<>> /\ WriterGone(c) /\ mux' = popped /\ conn' = conn
                  /\ loop' = [loop EXCEPT !.todo = Tail(loop.todo), !.dead = loop.dead \cup {c}]
<1> DEFINE c == Head(loop.todo)
           s == mux.srv[c]
           one == [s EXCEPT !.replies = Tail(s.replies)]
           popped == [mux EXCEPT !.srv = [mux.srv EXCEPT ![c] = one]]
<1>1. loop.todo \in Seq(Clients) /\ loop.todo # <<>> /\ loop.at = "replies" /\ mux \in Muxes
      /\ conn \in [Clients -> Conn] /\ loop \in Loops
  BY DEF Types, SendReply, Loops
<1>2. c \in Clients /\ Tail(loop.todo) \in Seq(Clients)
  BY <1>1
<1>3. s \in Srv /\ s.replies \in Seq(Reply)
  BY <1>1, <1>2 DEF Muxes, Srv
<1>4. [mux EXCEPT !.srv[c].replies = Tail(@)] = popped
  BY <1>1, <1>2, <1>3 DEF Muxes, Srv
<1>5. UNCHANGED <<peer, panes, handled, executed, inputs>>
  BY DEF SendReply
<1>6. CASE s.replies # <<>> /\ Accepts(c) /\ mux' = [mux EXCEPT !.srv[c].replies = Tail(@)]
           /\ conn' = [conn EXCEPT ![c].chan = <<Head(s.replies)>>] /\ loop' = loop
  <2>1. conn' = [conn EXCEPT ![c] = [conn[c] EXCEPT !.chan = <<Head(s.replies)>>]]
    BY <1>1, <1>2, <1>6
  <2> HIDE DEF popped
  <2> QED
    BY <1>1, <1>2, <1>4, <1>5, <1>6, <2>1 DEF popped
<1>7. CASE s.replies = <<>> /\ loop' = [loop EXCEPT !.todo = Tail(@)] /\ mux' = mux /\ conn' = conn
  BY <1>1, <1>2, <1>5, <1>7
<1>8. CASE s.replies # <<>> /\ Full(c) /\ loop' = [loop EXCEPT !.todo = Tail(@)] /\ conn' = conn
           /\ mux' = [mux EXCEPT !.srv[c] = PutBack([mux EXCEPT !.srv[c].replies = Tail(@)].srv[c], Head(s.replies))]
  <2>1. <<Head(s.replies)>> \o Tail(s.replies) = s.replies
    BY <1>3, <1>8, HeadThenTail
  <2>2. [mux EXCEPT !.srv[c].replies = Tail(@)].srv[c] = one
    BY <1>1, <1>2, <1>3 DEF Muxes
  <2>3. PutBack(one, Head(s.replies)) = s
    <3>1. one.replies = Tail(s.replies)
      BY <1>3 DEF Srv
    <3>2. PutBack(one, Head(s.replies)) = [one EXCEPT !.replies = s.replies]
      BY <2>1, <3>1, Zenon DEF PutBack
    <3> QED
      BY <1>3, <3>2, Zenon DEF Srv
  <2>4. mux' = mux
    BY <1>1, <1>2, <1>8, <2>2, <2>3 DEF Muxes
  <2> QED
    BY <1>1, <1>2, <1>5, <1>8, <2>4
<1>9. CASE s.replies # <<>> /\ WriterGone(c) /\ mux' = [mux EXCEPT !.srv[c].replies = Tail(@)] /\ conn' = conn
           /\ loop' = [[loop EXCEPT !.todo = Tail(@)] EXCEPT !.dead = @ \cup {c}]
  <2>1. loop' = [loop EXCEPT !.todo = Tail(loop.todo), !.dead = loop.dead \cup {c}]
    BY <1>1, <1>9 DEF Loops
  <2> HIDE DEF popped
  <2> QED
    BY <1>1, <1>2, <1>4, <1>5, <1>9, <2>1 DEF popped
<1> QED
  BY <1>6, <1>7, <1>8, <1>9, Zenon DEF SendReply

(* What the loop does with the next farewell.                                 *)
LEMMA ByeIs ==
  ASSUME Types, SendBye
  PROVE  LET c == Head(loop.todo)
             next == [loop EXCEPT !.todo = Tail(loop.todo), !.byes = 0]
         IN /\ loop.at = "byes" /\ loop.todo # <<>> /\ c \in Clients /\ Tail(loop.todo) \in Seq(Clients)
            /\ UNCHANGED <<mux, peer, panes, handled, executed, inputs>>
            /\ \/ /\ ~loop.late /\ Accepts(c)
                  /\ conn' = [conn EXCEPT ![c] = [conn[c] EXCEPT !.chan = <<Bye>>]]
                  /\ loop' = IF loop.byes + 1 = Farewells THEN next ELSE [loop EXCEPT !.byes = loop.byes + 1]
               \/ (loop.late \/ WriterGone(c)) /\ loop' = next /\ conn' = conn
<1>1. loop.todo \in Seq(Clients) /\ loop.todo # <<>> /\ loop \in Loops /\ conn \in [Clients -> Conn]
  BY DEF Types, SendBye, Loops
<1>2. Head(loop.todo) \in Clients /\ Tail(loop.todo) \in Seq(Clients)
  BY <1>1
<1>3. [conn EXCEPT ![Head(loop.todo)].chan = <<Bye>>]
        = [conn EXCEPT ![Head(loop.todo)] = [conn[Head(loop.todo)] EXCEPT !.chan = <<Bye>>]]
  BY <1>1, <1>2
<1> QED
  BY <1>1, <1>2, <1>3 DEF SendBye

(* What one pass of the loop makes of the state.                              *)
LEMMA SettleTypes ==
  ASSUME Types, Settle
  PROVE  Types'
<1>1. loop \in Loops /\ mux \in Muxes /\ panes \in Threads
  BY DEF Types
<1> DEFINE swapped == panes.woken /\ panes.alt # mux.seenAlt
           k == [mux EXCEPT !.seenAlt = panes.alt]
           m == IF ~swapped THEN mux ELSE Each(k, LAMBDA s : Baseline(s, Len(s.last)))
           l == [loop EXCEPT !.unread = Panes,
                   !.dirty = \/ @ \/ panes.woken \/ loop.due \cap Attached # {}
                             \/ \E c \in Attached : m.srv[c].needsFull \/ m.srv[c].pending]
<1>2. k \in Muxes
  BY <1>1 DEF Muxes, Threads
<1>3. m \in Muxes
  <2> HIDE DEF k
  <2> QED
    BY <1>1, <1>2, EachRestart
<1>4. l \in Loops
  <2> HIDE DEF m
  <2> QED
    BY <1>1 DEF Loops, Threads
<1>5. mux' = m /\ loop' = (IF Panes = {} THEN ToExpire(l, m) ELSE [l EXCEPT !.at = "clipboard"])
      /\ panes' = [panes EXCEPT !.woken = FALSE]
      /\ UNCHANGED <<conn, peer, handled, executed, inputs>>
  BY DEF Settle
<1> HIDE DEF l, m
<1>6. loop' \in Loops
  <2>1. ToExpire(l, m) \in Loops
    BY <1>3, <1>4, ExpireNext
  <2>2. [l EXCEPT !.at = "clipboard"] \in Loops
    BY <1>4 DEF Loops, Phases
  <2> QED
    BY <1>5, <2>1, <2>2
<1>7. panes' \in Threads
  BY <1>1, <1>5 DEF Threads
<1> QED
  BY <1>3, <1>5, <1>6, <1>7 DEF Types

LEMMA TypesOfPass ==
  ASSUME Types, Pass
  PROVE  Types'
<1>1. /\ loop \in Loops /\ mux \in Muxes /\ conn \in [Clients -> Conn] /\ peer \in [Clients -> Peer]
      /\ panes \in Threads /\ handled \in [Clients -> Seq(Answer)]
      /\ executed \in SUBSET (Clients \X Nat) /\ inputs \in Nat
      /\ \A c \in Clients : mux.srv[c] \in Srv
  BY DEF Types, Muxes
<1>2. CASE Settle
  BY <1>2, SettleTypes
<1>3. ASSUME NEW p \in Panes, TakeClipboard(p)
      PROVE  Types'
  <2>1. panes.slot[p] \in Nat /\ loop.latest \in Nat
    BY <1>1 DEF Threads, Loops
  <2>2. Max({loop.latest, panes.slot[p]}) \in Nat
    BY <2>1 DEF Max
  <2>3. loop' \in Loops
    BY <1>1, <1>3, <2>2 DEF TakeClipboard, Loops
  <2>4. panes' = [panes EXCEPT !.slot = [panes.slot EXCEPT ![p] = 0]]
    BY <1>1, <1>3 DEF TakeClipboard
  <2>5. panes' \in Threads
    BY <1>1, <2>4 DEF Threads
  <2> QED
    BY <1>1, <1>3, <2>3, <2>5 DEF TakeClipboard, Types
<1>4. CASE RelayClipboard
  <2> DEFINE m == IF loop.latest <= mux.relayed THEN mux
                  ELSE Each([mux EXCEPT !.relayed = loop.latest], LAMBDA s : QueueCopy(s, loop.latest))
             l == [loop EXCEPT !.latest = 0]
  <2>1. loop.latest \in Nat /\ l \in Loops
    BY <1>1 DEF Loops
  <2>2. m \in Muxes
    BY <1>1, <2>1, EachCopy
  <2>3. mux' = m /\ loop' = ToExpire(l, m) /\ UNCHANGED <<conn, peer, panes, handled, executed, inputs>>
    BY <1>4 DEF RelayClipboard
  <2> HIDE DEF m, l
  <2>4. loop' \in Loops
    BY <2>1, <2>2, <2>3, ExpireNext
  <2> QED
    BY <1>1, <2>2, <2>3, <2>4 DEF Types
<1>5. CASE ExpireSilentClients
  <2>1. PICK silent \in SUBSET Silent(mux) :
             /\ mux' = PruneDeadClients(mux, silent)
             /\ conn' = DetachClients(conn, silent)
             /\ loop' = ToReplies([loop EXCEPT !.dirty = @ \/ silent # {}], PruneDeadClients(mux, silent))
    BY <1>5 DEF ExpireSilentClients
  <2>2. mux' \in Muxes
    BY <1>1, <2>1, PruneLeft DEF Left
  <2>3. conn' \in [Clients -> Conn]
    BY <1>1, <2>1, DetachTells
  <2>4. [loop EXCEPT !.dirty = @ \/ silent # {}] \in Loops
    BY <1>1 DEF Loops
  <2>5. loop' \in Loops
    BY <2>1, <2>2, <2>4, RepliesNext
  <2> QED
    BY <1>1, <1>5, <2>2, <2>3, <2>5 DEF ExpireSilentClients, Types
<1>6. CASE SendReply
  <2> DEFINE c == Head(loop.todo)
             s == mux.srv[c]
             one == [s EXCEPT !.replies = Tail(s.replies)]
  <2>1. /\ c \in Clients /\ Tail(loop.todo) \in Seq(Clients)
        /\ UNCHANGED <<peer, panes, handled, executed, inputs>>
        /\ \/ mux' = mux
           \/ s.replies # <<>> /\ mux' = [mux EXCEPT !.srv = [mux.srv EXCEPT ![c] = one]]
        /\ \/ conn' = conn
           \/ s.replies # <<>> /\ conn' = [conn EXCEPT ![c] = [conn[c] EXCEPT !.chan = <<Head(s.replies)>>]]
        /\ \/ loop' = loop
           \/ loop' = [loop EXCEPT !.todo = Tail(loop.todo)]
           \/ loop' = [loop EXCEPT !.todo = Tail(loop.todo), !.dead = loop.dead \cup {c}]
    BY <1>6, ReplyIs
  <2> HIDE DEF c
  <2>2. loop' \in Loops
    <3>1. [loop EXCEPT !.todo = Tail(loop.todo)] \in Loops
      BY <1>1, <2>1 DEF Loops
    <3>2. [loop EXCEPT !.todo = Tail(loop.todo), !.dead = loop.dead \cup {c}] \in Loops
      BY <1>1, <2>1 DEF Loops
    <3> QED
      BY <1>1, <2>1, <3>1, <3>2
  <2>3. s \in Srv /\ s.replies \in Seq(Reply)
    BY <1>1, <2>1 DEF Srv
  <2>4. s.replies # <<>> => Head(s.replies) \in Reply /\ Tail(s.replies) \in Seq(Reply)
    BY <2>3
  <2>5. s.replies # <<>> => one \in Srv /\ <<Head(s.replies)>> \in Slot
    BY <2>3, <2>4 DEF Srv, Slot, Message
  <2> HIDE DEF s, one
  <2>6. mux' \in Muxes
    <3>1. s.replies # <<>> => [mux EXCEPT !.srv = [mux.srv EXCEPT ![c] = one]] \in Muxes
      BY <1>1, <2>1, <2>5 DEF Muxes
    <3> QED
      BY <1>1, <2>1, <3>1
  <2>7. conn' \in [Clients -> Conn]
    <3>1. s.replies # <<>> => [conn EXCEPT ![c] = [conn[c] EXCEPT !.chan = <<Head(s.replies)>>]] \in [Clients -> Conn]
      <4>1. s.replies # <<>> => [conn[c] EXCEPT !.chan = <<Head(s.replies)>>] \in Conn
        BY <1>1, <2>1, <2>5, ChanType
      <4> QED
        BY <1>1, <2>1, <4>1
    <3> QED
      BY <1>1, <2>1, <3>1
  <2> QED
    BY <1>1, <2>1, <2>2, <2>6, <2>7 DEF Types
<1>7. CASE EndReplies
  <2> DEFINE m == PruneDeadClients(mux, loop.dead)
             l == [loop EXCEPT !.dead = {}]
  <2>1. m \in Muxes /\ l \in Loops
    BY <1>1, PruneLeft DEF Left, Loops
  <2>2. DetachClients(conn, loop.dead) \in [Clients -> Conn]
    BY <1>1, DetachTells
  <2>3. mux' = m /\ conn' = DetachClients(conn, loop.dead)
        /\ loop' = (IF loop.kill THEN [l EXCEPT !.at = "flush"] ELSE ToCopies(l, m))
        /\ UNCHANGED <<peer, panes, handled, executed, inputs>>
    BY <1>7 DEF EndReplies
  <2> HIDE DEF m, l
  <2>4. [l EXCEPT !.at = "flush"] \in Loops
    BY <2>1 DEF Loops, Phases
  <2>5. loop' \in Loops
    BY <2>1, <2>3, <2>4, CopiesNext
  <2> QED
    BY <1>1, <2>1, <2>2, <2>3, <2>5 DEF Types
<1>8. CASE SendCopies
  <2> DEFINE copying == {c \in Attached : mux.srv[c].copy # 0}
             dead == {c \in copying : WriterGone(c)}
             sent == {c \in copying : Accepts(c)}
             srv == [c \in Clients |-> IF c \in sent THEN [mux.srv[c] EXCEPT !.copy = 0] ELSE mux.srv[c]]
             cn == [c \in Clients |->
                      IF c \in sent THEN [conn[c] EXCEPT !.chan = <<[t |-> "copy", seq |-> mux.srv[c].copy]>>]
                      ELSE conn[c]]
  <2>1. srv \in [Clients -> Srv]
    BY <1>1 DEF Srv
  <2>2. [mux EXCEPT !.srv = srv] \in Muxes
    <3> HIDE DEF srv
    <3> QED
      BY <1>1, <2>1 DEF Muxes
  <2>3. \A c \in Clients : c \in sent => <<[t |-> "copy", seq |-> mux.srv[c].copy]>> \in Slot
    <3>1. \A c \in Clients : c \in sent => [t |-> "copy", seq |-> mux.srv[c].copy] \in Copies
      BY <1>1 DEF Copies, Srv
    <3> QED
      BY <3>1 DEF Slot, Message
  <2>4. cn \in [Clients -> Conn]
    <3> HIDE DEF sent
    <3> QED
      BY <1>1, <2>3, FilledType
  <2>5. mux' = PruneDeadClients([mux EXCEPT !.srv = srv], dead) /\ conn' = DetachClients(cn, dead)
        /\ loop' = ToFrames(loop) /\ UNCHANGED <<peer, panes, handled, executed, inputs>>
    BY <1>8 DEF SendCopies
  <2> HIDE DEF srv, cn, dead
  <2>6. mux' \in Muxes
    BY <2>2, <2>5, PruneLeft DEF Left
  <2>7. conn' \in [Clients -> Conn]
    BY <2>4, <2>5, DetachTells
  <2>8. loop' \in Loops
    BY <1>1, <2>5, FramesNext
  <2> QED
    BY <1>1, <2>5, <2>6, <2>7, <2>8 DEF Types
<1>9. CASE SkipFrame
  <2>1. loop' \in Loops
    BY <1>1, <1>9 DEF SkipFrame, Loops, Phases
  <2> QED
    BY <1>1, <1>9, <2>1 DEF SkipFrame, Types
<1>10. CASE PushFrames
  <2> DEFINE screen == Render(mux)
  <2>1. PICK row \in Nat :
              /\ PushedMux(screen, row) \in Muxes
              /\ PushedConn(screen, row) \in [Clients -> Conn]
              /\ mux' = PruneDeadClients(PushedMux(screen, row), DeadOf(screen, row))
              /\ conn' = DetachClients(PushedConn(screen, row), DeadOf(screen, row))
              /\ loop' = [loop EXCEPT !.at = "receive", !.dirty = FALSE, !.due = loop'.due]
              /\ loop'.due \in SUBSET Clients
              /\ UNCHANGED <<peer, panes, handled, executed, inputs>>
    BY <1>10, PushIs
  <2> HIDE DEF screen
  <2>2. mux' \in Muxes
    BY <2>1, PruneLeft DEF Left
  <2>3. conn' \in [Clients -> Conn]
    BY <2>1, DetachTells
  <2>4. loop' \in Loops
    BY <1>1, <2>1 DEF Loops, Phases
  <2> QED
    BY <1>1, <2>1, <2>2, <2>3, <2>4 DEF Types
<1>11. CASE FlushBeforeShutdown
  <2>1. ToReplies(loop, mux) \in Loops
    BY <1>1, RepliesNext
  <2>2. [loop EXCEPT !.at = "byes", !.todo = mux.att] \in Loops
    BY <1>1 DEF Loops, Muxes, Phases
  <2> QED
    BY <1>1, <1>11, <2>1, <2>2 DEF FlushBeforeShutdown, Types
<1>12. CASE SendBye
  <2> DEFINE c == Head(loop.todo)
  <2>1. /\ c \in Clients /\ Tail(loop.todo) \in Seq(Clients)
        /\ UNCHANGED <<mux, peer, panes, handled, executed, inputs>>
        /\ conn' = conn \/ conn' = [conn EXCEPT ![c] = [conn[c] EXCEPT !.chan = <<Bye>>]]
        /\ loop' = [loop EXCEPT !.todo = Tail(loop.todo), !.byes = 0] \/ loop' = [loop EXCEPT !.byes = loop.byes + 1]
    BY <1>12, ByeIs
  <2>2. <<Bye>> \in Slot
    BY DEF Slot, Message
  <2> HIDE DEF c
  <2>3. conn' \in [Clients -> Conn]
    <3> DEFINE k == [conn[c] EXCEPT !.chan = <<Bye>>]
    <3>1. k \in Conn
      <4>1. conn[c] \in Conn
        BY <1>1, <2>1
      <4> QED
        BY <2>2, <4>1, FilledType
    <3>2. conn' = conn \/ conn' = [conn EXCEPT ![c] = k]
      BY <2>1
    <3> HIDE DEF k
    <3> QED
      BY <1>1, <2>1, <3>1, <3>2
  <2>4. loop' \in Loops
    <3>1. [loop EXCEPT !.todo = Tail(loop.todo), !.byes = 0] \in Loops
      BY <1>1, <2>1 DEF Loops
    <3>2. [loop EXCEPT !.byes = loop.byes + 1] \in Loops
      <4>1. loop.byes \in Nat /\ loop.byes + 1 \in Nat
        BY <1>1 DEF Loops
      <4> QED
        BY <1>1, <4>1 DEF Loops
    <3> QED
      BY <2>1, <3>1, <3>2
  <2> QED
    BY <1>1, <2>1, <2>3, <2>4 DEF Types
<1>13. CASE EndByes
  <2>1. loop' \in Loops
    BY <1>1, <1>13 DEF EndByes, Loops, Phases
  <2> QED
    BY <1>1, <1>13, <2>1 DEF EndByes, Types
<1>14. CASE Exit
  <2>1. loop' \in Loops
    BY <1>1, <1>14 DEF Exit, Loops, Phases
  <2>2. [c \in Clients |-> Detached] \in [Clients -> Srv] /\ <<>> \in Seq(Clients)
    BY DetachedType
  <2>3. mux' \in Muxes
    BY <1>1, <1>14, <2>2 DEF Exit, Muxes
  <2>4. <<>> \in Slot /\ <<>> \in Seq(Request)
    BY DEF Slot
  <2>5. \A c \in Clients : [conn[c] EXCEPT !.chan = <<>>, !.held = <<>>, !.writer = "ended", !.out = FALSE,
                        !.inbox = <<>>, !.reader = "ended", !.link = "shut"] \in Conn
    <3> TAKE c \in Clients
    <3>1. conn[c] \in Conn
      BY <1>1
    <3> QED
      BY <2>4, <3>1 DEF Conn
  <2>6. conn' \in [Clients -> Conn]
    BY <1>1, <1>14, <2>5 DEF Exit
  <2> QED
    BY <1>1, <1>14, <2>1, <2>3, <2>6 DEF Exit, Types
<1> QED
  BY <1>2, <1>3, <1>4, <1>5, <1>6, <1>7, <1>8, <1>9, <1>10, <1>11, <1>12, <1>13, <1>14 DEF Pass

LEMMA TypesInit == Init => Types
<1> SUFFICES ASSUME Init PROVE Types
  OBVIOUS
<1>1. <<>> \in Seq(Clients) /\ <<>> \in Seq(Request) /\ <<>> \in Seq(Answer) /\ <<>> \in Seq(Message)
      /\ <<>> \in Slot
  BY DEF Slot
<1>2. loop \in Loops
  BY <1>1 DEF Init, Loops, Phases
<1>3. mux \in Muxes
  BY <1>1, DetachedType, ServerAssumption DEF Init, Muxes
<1>4. conn \in [Clients -> Conn]
  BY <1>1 DEF Init, Conn
<1>5. Blank(1) \in Seq(Nat) /\ \A c \in Clients : Size[c] \in Nat
  BY BlankType, ServerAssumption
<1>6. peer \in [Clients -> Peer]
  BY <1>1, <1>5 DEF Init, Peer
<1>7. panes \in Threads
  BY DEF Init, Threads
<1>8. handled \in [Clients -> Seq(Answer)] /\ executed \in SUBSET (Clients \X Nat) /\ inputs \in Nat
  BY <1>1 DEF Init
<1> QED
  BY <1>2, <1>3, <1>4, <1>6, <1>7, <1>8 DEF Types

LEMMA TypesStep == Types /\ [Next]_vars => Types'
<1> SUFFICES ASSUME Types, [Next]_vars PROVE Types'
  OBVIOUS
<1>1. CASE UNCHANGED vars
  BY <1>1 DEF vars, Types
<1>2. CASE LastShellExits \/ DeadlinePasses
  <2>1. loop' \in Loops
    BY <1>2 DEF LastShellExits, DeadlinePasses, Types, Loops, Phases
  <2> QED
    BY <1>2, <2>1 DEF LastShellExits, DeadlinePasses, Types
<1> QED
  BY <1>1, <1>2, TypesOfClients, TypesOfWriters, TypesOfPanes, TypesOfHandlers, TypesOfPass DEF Next

--------------------------------------------------------------------------------
(* What is on its way to a client                                             *)

Line(k) == k.wire \o k.held \o k.chan

(* The writer holds a message exactly while it waits for the socket.          *)
Wired == \A c \in Clients : conn[c].held # <<>> <=> conn[c].writer = "holding"

LEMMA ConcatTail ==
  ASSUME NEW S, NEW s \in Seq(S), NEW t \in Seq(S), s # <<>>
  PROVE  s \o t # <<>> /\ Head(s \o t) = Head(s) /\ Tail(s \o t) = Tail(s) \o t
<1>1. /\ s \o t \in Seq(S) /\ Len(s \o t) = Len(s) + Len(t)
      /\ \A i \in 1 .. Len(s) + Len(t) : (s \o t)[i] = IF i <= Len(s) THEN s[i] ELSE t[i - Len(s)]
  BY ConcatProperties
<1>2. Len(s) \in Nat /\ Len(s) # 0 /\ Len(t) \in Nat
  BY EmptySeq
<1>3. /\ Tail(s) \in Seq(S) /\ Len(Tail(s)) = Len(s) - 1
      /\ \A i \in 1 .. Len(Tail(s)) : Tail(s)[i] = s[i + 1]
  BY HeadTailProperties
<1>4. s \o t # <<>>
  BY <1>1, <1>2
<1>5. /\ Tail(s \o t) \in Seq(S) /\ Len(Tail(s \o t)) = Len(s \o t) - 1
      /\ \A i \in 1 .. Len(Tail(s \o t)) : Tail(s \o t)[i] = (s \o t)[i + 1]
  BY <1>1, <1>4, HeadTailProperties
<1>6. /\ Tail(s) \o t \in Seq(S) /\ Len(Tail(s) \o t) = Len(Tail(s)) + Len(t)
      /\ \A i \in 1 .. Len(Tail(s)) + Len(t) :
           (Tail(s) \o t)[i] = IF i <= Len(Tail(s)) THEN Tail(s)[i] ELSE t[i - Len(Tail(s))]
  BY <1>3, ConcatProperties
<1>7. Len(Tail(s \o t)) = Len(Tail(s) \o t)
  BY <1>1, <1>2, <1>3, <1>5, <1>6
<1>8. \A i \in 1 .. Len(Tail(s \o t)) : Tail(s \o t)[i] = (Tail(s) \o t)[i]
  <2> SUFFICES ASSUME NEW i \in 1 .. Len(Tail(s \o t))
               PROVE  Tail(s \o t)[i] = (Tail(s) \o t)[i]
    OBVIOUS
  <2>1. i \in Nat /\ i + 1 \in 1 .. Len(s) + Len(t) /\ i \in 1 .. Len(Tail(s)) + Len(t)
    BY <1>1, <1>2, <1>3, <1>5
  <2>2. Tail(s \o t)[i] = IF i + 1 <= Len(s) THEN s[i + 1] ELSE t[(i + 1) - Len(s)]
    BY <1>1, <1>5, <2>1
  <2>3. (Tail(s) \o t)[i] = IF i <= Len(s) - 1 THEN Tail(s)[i] ELSE t[i - (Len(s) - 1)]
    BY <1>3, <1>6, <2>1
  <2>4. (i + 1) - Len(s) = i - (Len(s) - 1) /\ (i + 1 <= Len(s) <=> i <= Len(s) - 1)
    BY <1>2, <2>1
  <2>5. i <= Len(s) - 1 => Tail(s)[i] = s[i + 1]
    BY <1>2, <1>3, <2>1
  <2> QED
    BY <2>2, <2>3, <2>4, <2>5
<1>9. Tail(s \o t) = Tail(s) \o t
  BY <1>5, <1>6, <1>7, <1>8, SeqEqual
<1>10. Head(s \o t) = Head(s)
  BY <1>1, <1>2, <1>4
<1> QED
  BY <1>4, <1>9, <1>10

LEMMA LineType ==
  ASSUME NEW k \in Conn
  PROVE  /\ Line(k) \in Seq(Message) /\ k.wire \in Seq(Message)
         /\ k.held \in Seq(Message) /\ k.chan \in Seq(Message)
         /\ k.held = <<>> /\ k.chan = <<>> => Line(k) = k.wire
<1>1. k.wire \in Seq(Message) /\ k.held \in Slot /\ k.chan \in Slot
  BY DEF Conn
<1>2. k.held \in Seq(Message) /\ k.chan \in Seq(Message)
  BY <1>1, SlotIs
<1>3. Line(k) \in Seq(Message)
  BY <1>1, <1>2 DEF Line
<1>4. k.held = <<>> /\ k.chan = <<>> => Line(k) = k.wire
  BY <1>1, ConcatEmptySeq DEF Line
<1> QED
  BY <1>1, <1>2, <1>3, <1>4

(* A message that finds the channel empty comes after all others.             *)
LEMMA LineSends ==
  ASSUME NEW k \in Conn, k.chan = <<>>, NEW msg \in Message
  PROVE  /\ Line([k EXCEPT !.chan = <<msg>>]) = Append(Line(k), msg)
         /\ k.wire \o k.held \o <<msg>> = Append(Line(k), msg)
<1> DEFINE first == k.wire \o k.held
           n == [k EXCEPT !.chan = <<msg>>]
<1>1. k.wire \in Seq(Message) /\ k.held \in Seq(Message)
  BY LineType
<1>2. first \in Seq(Message)
  BY <1>1
<1>3. n.wire = k.wire /\ n.held = k.held /\ n.chan = <<msg>>
  BY DEF Conn
<1> HIDE DEF first
<1>4. first \o <<msg>> = Append(first, msg)
  BY <1>2
<1>5. first \o <<>> = first
  BY <1>2, ConcatEmptySeq
<1> HIDE DEF n
<1>6. Line(k) = first /\ Line(n) = first \o <<msg>>
  BY <1>3, <1>5 DEF Line, first
<1> QED
  BY <1>4, <1>6 DEF n, first

LEMMA LineTold ==
  ASSUME NEW k \in Conn, NEW n \in Conn, Told(k, n)
  PROVE  Line(n) = Line(k) \/ Line(n) = Append(Line(k), Bye)
<1>1. n.wire = k.wire /\ n.held = k.held
  BY DEF Told, Conn
<1>2. CASE n.chan = k.chan
  BY <1>1, <1>2 DEF Line
<1>3. CASE k.chan = <<>> /\ n.chan = <<Bye>>
  <2>1. Line(n) = k.wire \o k.held \o <<Bye>>
    BY <1>1, <1>3 DEF Line
  <2>2. Bye \in Message
    BY DEF Message
  <2> QED
    BY <1>3, <2>1, <2>2, LineSends
<1> QED
  BY <1>2, <1>3 DEF Told

(* What a step may do to what is on its way to a client.                      *)
Still(c) ==
  /\ InFlight(c)' = InFlight(c)
  /\ peer'[c].view = peer[c].view /\ peer'[c].got = peer[c].got /\ peer'[c].pasted = peer[c].pasted

Reads(c) ==
  /\ InFlight(c) # <<>> /\ InFlight(c)' = Tail(InFlight(c))
  /\ peer'[c] = Received(peer[c], Head(InFlight(c)))

Sends(c, msg) == InFlight(c)' = Append(InFlight(c), msg) /\ peer' = peer

Drops(c) ==
  /\ conn'[c].wire = conn[c].wire /\ conn'[c].held = <<>> /\ conn'[c].chan = <<>>
  /\ conn'[c].writer = "ended" /\ peer' = peer

(* The same three queues and the same client.                                 *)
LEMMA LineStill ==
  ASSUME Types, NEW c \in Clients, conn'[c].wire = conn[c].wire, conn'[c].held = conn[c].held,
         conn'[c].chan = conn[c].chan, peer' = peer
  PROVE  Still(c)
  BY DEF Still, InFlight

LEMMA Regroup ==
  ASSUME NEW a \in Seq(Message), NEW b \in Seq(Message), NEW d \in Seq(Message)
  PROVE  (a \o b) \o d = a \o (b \o d)
<1> DEFINE S == Message
<1>1. a \in Seq(S) /\ b \in Seq(S) /\ d \in Seq(S)
  OBVIOUS
<1> HIDE DEF S
<1> QED
  BY <1>1, ConcatAssociative

LEMMA LineOfClients ==
  ASSUME Types, NEW c \in Clients, NEW d \in Clients,
         PeerAttaches(d) \/ PeerSays(d) \/ PeerReads(d) \/ PeerSeesEof(d) \/ PeerDies(d)
         \/ PeerHangs(d) \/ PeerResumes(d) \/ LinkBreaks(d) \/ ReaderEnds(d) \/ ResyncDue(d)
  PROVE  Still(c) \/ Reads(c)
<1>1. conn \in [Clients -> Conn] /\ peer \in [Clients -> Peer] /\ conn[c] \in Conn /\ peer[c] \in Peer
  BY DEF Types
<1>2. CASE PeerAttaches(d)
  <2>1. conn'[c].wire = conn[c].wire /\ conn'[c].held = conn[c].held /\ conn'[c].chan = conn[c].chan
    BY <1>1, <1>2 DEF PeerAttaches, Conn
  <2>2. peer'[c].view = peer[c].view /\ peer'[c].got = peer[c].got /\ peer'[c].pasted = peer[c].pasted
    BY <1>1, <1>2 DEF PeerAttaches, Peer
  <2> QED
    BY <2>1, <2>2 DEF Still, InFlight
<1>3. CASE PeerSays(d)
  <2>0. PICK kind \in Says[d], rows \in 1 .. Tall :
             /\ peer' = [peer EXCEPT ![d].said = @ + 1, ![d].rows = rows,
                  ![d].asked = IF kind \in {"command", "kill", "ping"} THEN @ \cup {peer[d].said + 1} ELSE @]
             /\ conn' = [conn EXCEPT ![d].inbox =
                  Append(@, [t |-> kind, n |-> IF kind = "resize" THEN rows ELSE peer[d].said + 1])]
    BY <1>3 DEF PeerSays
  <2>1. conn'[c].wire = conn[c].wire /\ conn'[c].held = conn[c].held /\ conn'[c].chan = conn[c].chan
    BY <1>1, <2>0 DEF Conn
  <2>2. peer'[c].view = peer[c].view /\ peer'[c].got = peer[c].got /\ peer'[c].pasted = peer[c].pasted
    BY <1>1, <2>0 DEF Peer
  <2> QED
    BY <2>1, <2>2 DEF Still, InFlight
<1>4. CASE PeerReads(d) /\ d = c
  <2> DEFINE k == conn[c]
             rest == k.held \o k.chan
  <2>1. k.wire \in Seq(Message) /\ k.held \in Seq(Message) /\ k.chan \in Seq(Message) /\ k.wire # <<>>
    BY <1>1, <1>4, LineType DEF PeerReads
  <2>2. conn'[c].wire = Tail(k.wire) /\ conn'[c].held = k.held /\ conn'[c].chan = k.chan
        /\ peer'[c] = Received(peer[c], Head(k.wire))
    BY <1>1, <1>4 DEF PeerReads, Conn
  <2> HIDE DEF k
  <2>3. rest \in Seq(Message) /\ Tail(k.wire) \in Seq(Message)
    BY <2>1
  <2>4. k.wire \o k.held \o k.chan = k.wire \o rest /\ Tail(k.wire) \o k.held \o k.chan = Tail(k.wire) \o rest
    <3>1. (k.wire \o k.held) \o k.chan = k.wire \o (k.held \o k.chan)
      BY <2>1, Regroup
    <3>2. (Tail(k.wire) \o k.held) \o k.chan = Tail(k.wire) \o (k.held \o k.chan)
      <4> DEFINE w == Tail(k.wire)
      <4>1. w \in Seq(Message)
        BY <2>3
      <4> HIDE DEF w
      <4>2. (w \o k.held) \o k.chan = w \o (k.held \o k.chan)
        BY <2>1, <4>1, Regroup
      <4> QED
        BY <4>2 DEF w
    <3> QED
      BY <3>1, <3>2
  <2> HIDE DEF rest
  <2>5. k.wire \o rest # <<>> /\ Head(k.wire \o rest) = Head(k.wire) /\ Tail(k.wire \o rest) = Tail(k.wire) \o rest
    BY <2>1, <2>3, ConcatTail
  <2>6. InFlight(c) = k.wire \o rest /\ InFlight(c)' = Tail(k.wire) \o rest
    BY <2>2, <2>4 DEF InFlight, k
  <2> QED
    BY <2>2, <2>5, <2>6 DEF Reads
<1>5. CASE PeerReads(d) /\ d # c
  BY <1>1, <1>5 DEF PeerReads, Still, InFlight
<1>6. ASSUME NEW from, NEW to, PeerState(d, from, to)
      PROVE  Still(c)
  BY <1>1, <1>6 DEF PeerState, Still, InFlight, Peer
<1>7. CASE LinkBreaks(d)
  BY <1>1, <1>7 DEF LinkBreaks, Still, InFlight, Conn
<1>8. CASE ReaderEnds(d)
  BY <1>1, <1>8 DEF ReaderEnds, Still, InFlight, Conn
<1>9. CASE ResyncDue(d)
  BY <1>9 DEF ResyncDue, Still, InFlight
<1>10. CASE PeerSeesEof(d) \/ PeerDies(d) \/ PeerHangs(d) \/ PeerResumes(d)
  BY <1>6, <1>10 DEF PeerSeesEof, PeerDies, PeerHangs, PeerResumes
<1> QED
  BY <1>2, <1>3, <1>4, <1>5, <1>7, <1>8, <1>9, <1>10

LEMMA LineOfWriters ==
  ASSUME Types, Wired, NEW c \in Clients, NEW d \in Clients, Writer(d)
  PROVE  Still(c) \/ (Drops(c) /\ WriterEnds(c))
<1>1. conn \in [Clients -> Conn] /\ conn[c] \in Conn /\ peer' = peer
  BY DEF Types, Writer, WriterSends, WriterBlocks, WriterResumes, WriterEnds
<1>2. CASE d # c
  <2>1. conn'[c] = conn[c]
    BY <1>1, <1>2 DEF Writer, WriterSends, WriterBlocks, WriterResumes, WriterEnds, Written
  <2> QED
    BY <1>1, <2>1 DEF Still, InFlight
<1> DEFINE k == conn[c]
<1>3. k.wire \in Seq(Message) /\ k.held \in Seq(Message) /\ k.chan \in Seq(Message) /\ <<>> \in Seq(Message)
  BY <1>1, LineType
<1>4. CASE WriterSends(c)
  <2>1. k.held = <<>>
    BY <1>4 DEF WriterSends, Wired
  <2>2. conn'[c].wire = k.wire \o k.chan /\ conn'[c].held = <<>> /\ conn'[c].chan = <<>>
    BY <1>1, <1>4, <2>1 DEF WriterSends, Written, Conn
  <2>3. InFlight(c) = (k.wire \o <<>>) \o k.chan /\ InFlight(c)' = ((k.wire \o k.chan) \o <<>>) \o <<>>
    BY <2>1, <2>2 DEF InFlight
  <2> HIDE DEF k
  <2>4. k.wire \o <<>> = k.wire /\ k.wire \o k.chan \in Seq(Message)
    BY <1>3, ConcatEmptySeq
  <2>5. (k.wire \o k.chan) \o <<>> = k.wire \o k.chan
    BY <2>4, ConcatEmptySeq
  <2> QED
    BY <1>1, <2>3, <2>4, <2>5 DEF Still
<1>5. CASE WriterBlocks(c)
  <2>1. k.held = <<>>
    BY <1>5 DEF WriterBlocks, Wired
  <2>2. conn'[c].wire = k.wire /\ conn'[c].held = k.chan /\ conn'[c].chan = <<>>
    BY <1>1, <1>5 DEF WriterBlocks, Conn
  <2>3. InFlight(c) = (k.wire \o <<>>) \o k.chan /\ InFlight(c)' = (k.wire \o k.chan) \o <<>>
    BY <2>1, <2>2 DEF InFlight
  <2> HIDE DEF k
  <2>4. k.wire \o <<>> = k.wire /\ k.wire \o k.chan \in Seq(Message)
    BY <1>3, ConcatEmptySeq
  <2>5. (k.wire \o k.chan) \o <<>> = k.wire \o k.chan
    BY <2>4, ConcatEmptySeq
  <2> QED
    BY <1>1, <2>3, <2>4, <2>5 DEF Still
<1>6. CASE WriterResumes(c)
  <2>1. k.held # <<>>
    BY <1>6 DEF WriterResumes, Wired
  <2>2. conn'[c].wire = k.wire \o k.held /\ conn'[c].held = <<>> /\ conn'[c].chan = k.chan
    BY <1>1, <1>6, <2>1 DEF WriterResumes, Written, Conn
  <2>3. InFlight(c) = (k.wire \o k.held) \o k.chan /\ InFlight(c)' = ((k.wire \o k.held) \o <<>>) \o k.chan
    BY <2>2 DEF InFlight
  <2> HIDE DEF k
  <2>4. k.wire \o k.held \in Seq(Message)
    BY <1>3
  <2>5. (k.wire \o k.held) \o <<>> = k.wire \o k.held
    BY <2>4, ConcatEmptySeq
  <2> QED
    BY <1>1, <2>3, <2>5 DEF Still
<1>7. CASE WriterEnds(c)
  BY <1>1, <1>7 DEF WriterEnds, Drops, Conn
<1> QED
  BY <1>2, <1>4, <1>5, <1>6, <1>7 DEF Writer

(* Clients that are told to go, in a step that otherwise left their queues.   *)
LEMMA LineDetached ==
  ASSUME Types, NEW cn \in [Clients -> Conn], NEW gone, conn' = DetachClients(cn, gone), peer' = peer,
         NEW c \in Clients,
         cn[c].wire = conn[c].wire, cn[c].held = conn[c].held, cn[c].chan = conn[c].chan
  PROVE  Still(c) \/ Sends(c, Bye)
<1>1. conn' \in [Clients -> Conn] /\ conn'[c] \in Conn /\ cn[c] \in Conn
  BY DetachTells
<1>2. InFlight(c) = Line(cn[c]) /\ InFlight(c)' = Line(conn'[c])
  BY DEF InFlight, Line
<1>3. conn'[c] = cn[c] \/ Told(cn[c], conn'[c])
  BY DetachTells
<1>4. Line(conn'[c]) = Line(cn[c]) \/ Line(conn'[c]) = Append(Line(cn[c]), Bye)
  BY <1>1, <1>3, LineTold
<1> QED
  BY <1>2, <1>4 DEF Still, Sends

LEMMA LineOfHandlers ==
  ASSUME Types, NEW c \in Clients, NEW d \in Clients, HandleIncoming(d)
  PROVE  Still(c) \/ Sends(c, Bye)
<1>1. conn[d].inbox # <<>> /\ peer' = peer
  BY DEF HandleIncoming, HandleAttach, HandleStale, HandleEnv, HandleChord, HandleRedraw, HandleDrag, Answered,
         HandleResize, HandleDetach, HandleDisconnect, HandleCommand, HandleKillServer, HandlePing, Taking
<1>2. Taken(d) \in [Clients -> Conn] /\ Taken(d)[c] = [conn[c] EXCEPT !.inbox = Taken(d)[c].inbox]
  BY <1>1, TakenType
<1>3. Taken(d)[c].wire = conn[c].wire /\ Taken(d)[c].held = conn[c].held /\ Taken(d)[c].chan = conn[c].chan
  BY <1>2 DEF Types, Conn
<1>4. CASE \E gone : conn' = DetachClients(Taken(d), gone)
  BY <1>1, <1>2, <1>3, <1>4, LineDetached
<1>5. CASE conn' = Taken(d)
  BY <1>1, <1>3, <1>5 DEF Still, InFlight
<1>6. CASE conn' = [Taken(d) EXCEPT ![d].out = FALSE]
  <2>1. conn'[c].wire = conn[c].wire /\ conn'[c].held = conn[c].held /\ conn'[c].chan = conn[c].chan
    BY <1>2, <1>3, <1>6 DEF Conn
  <2> QED
    BY <1>1, <2>1 DEF Still, InFlight
<1> QED
  BY <1>4, <1>5, <1>6 DEF HandleIncoming, HandleAttach, HandleStale, HandleEnv, HandleChord, HandleRedraw,
     HandleDrag, HandleResize, HandleDetach, HandleDisconnect, HandleCommand, HandleKillServer, HandlePing, Answered

LEMMA LineOfReply ==
  ASSUME Types, NEW c \in Clients, SendReply
  PROVE  \/ Still(c)
         \/ /\ c = Head(loop.todo) /\ Accepts(c) /\ mux.srv[c].replies # <<>>
            /\ Sends(c, Head(mux.srv[c].replies)) /\ Head(mux.srv[c].replies) \in Reply
<1> DEFINE d == Head(loop.todo)
           s == mux.srv[d]
<1>1. /\ d \in Clients /\ peer' = peer
      /\ \/ conn' = conn
         \/ /\ s.replies # <<>> /\ Accepts(d)
            /\ conn' = [conn EXCEPT ![d] = [conn[d] EXCEPT !.chan = <<Head(s.replies)>>]]
  BY ReplyIs
<1> HIDE DEF d
<1>2. conn \in [Clients -> Conn] /\ conn[c] \in Conn
  BY DEF Types
<1>3. s.replies # <<>> => Head(s.replies) \in Reply
  BY <1>1 DEF Types, Muxes, Srv
<1>4. CASE conn' = conn
  BY <1>1, <1>4 DEF Still, InFlight
<1>5. CASE c # d /\ conn' = [conn EXCEPT ![d] = [conn[d] EXCEPT !.chan = <<Head(s.replies)>>]]
  BY <1>1, <1>2, <1>5 DEF Still, InFlight
<1>6. CASE c = d /\ s.replies # <<>> /\ Accepts(d)
           /\ conn' = [conn EXCEPT ![d] = [conn[d] EXCEPT !.chan = <<Head(s.replies)>>]]
  <2>1. conn[c].chan = <<>> /\ Head(s.replies) \in Message
    BY <1>3, <1>6 DEF Accepts, Message
  <2>2. conn'[c] = [conn[c] EXCEPT !.chan = <<Head(s.replies)>>]
    BY <1>2, <1>6
  <2>3. Line([conn[c] EXCEPT !.chan = <<Head(s.replies)>>]) = Append(Line(conn[c]), Head(s.replies))
    BY <1>2, <2>1, LineSends
  <2>4. InFlight(c) = Line(conn[c]) /\ InFlight(c)' = Line(conn'[c])
    BY DEF InFlight, Line
  <2> HIDE DEF s
  <2>5. Sends(c, Head(s.replies))
    BY <1>1, <2>2, <2>3, <2>4 DEF Sends
  <2> QED
    BY <1>3, <1>6, <2>5 DEF d, s
<1> QED
  BY <1>1, <1>4, <1>5, <1>6

LEMMA LineOfCopies ==
  ASSUME Types, NEW c \in Clients, SendCopies
  PROVE  \/ Still(c) \/ Sends(c, Bye)
         \/ /\ c \in Attached /\ mux.srv[c].copy # 0 /\ Accepts(c)
            /\ Sends(c, [t |-> "copy", seq |-> mux.srv[c].copy])
<1> DEFINE copying == {d \in Attached : mux.srv[d].copy # 0}
           dead == {d \in copying : WriterGone(d)}
           sent == {d \in copying : Accepts(d)}
           copy(d) == [t |-> "copy", seq |-> mux.srv[d].copy]
           cn == [d \in Clients |-> IF d \in sent THEN [conn[d] EXCEPT !.chan = <<copy(d)>>] ELSE conn[d]]
<1>1. conn \in [Clients -> Conn] /\ conn[c] \in Conn /\ peer' = peer /\ conn' = DetachClients(cn, dead)
  BY DEF Types, SendCopies
<1>2. \A d \in Clients : d \in sent => copy(d) \in Message
  BY DEF Types, Muxes, Srv, Message, Copies
<1>3. cn \in [Clients -> Conn]
  <2>1. \A d \in Clients : d \in sent => <<copy(d)>> \in Slot
    BY <1>2 DEF Slot
  <2> HIDE DEF copy, sent
  <2> QED
    BY <1>1, <2>1, ChanType
<1>4. CASE c \notin sent
  <2>1. cn[c] = conn[c]
    BY <1>4
  <2> HIDE DEF cn, dead
  <2> QED
    BY <1>1, <1>3, <2>1, LineDetached
<1>5. CASE c \in sent
  <2>1. c \notin dead
    BY <1>5 DEF Accepts, WriterGone
  <2>2. conn'[c] = cn[c]
    <3> HIDE DEF cn, dead
    <3> QED
      BY <1>1, <1>3, <2>1, DetachTells
  <2>3. conn'[c] = [conn[c] EXCEPT !.chan = <<copy(c)>>]
    BY <1>5, <2>2
  <2>4. conn[c].chan = <<>> /\ copy(c) \in Message
    BY <1>2, <1>5 DEF Accepts
  <2> HIDE DEF copy
  <2>5. Line([conn[c] EXCEPT !.chan = <<copy(c)>>]) = Append(Line(conn[c]), copy(c))
    BY <1>1, <2>4, LineSends
  <2>6. InFlight(c) = Line(conn[c]) /\ InFlight(c)' = Line(conn'[c])
    BY DEF InFlight, Line
  <2>7. Sends(c, copy(c))
    BY <1>1, <2>3, <2>5, <2>6 DEF Sends
  <2> QED
    BY <1>5, <2>7 DEF copy
<1> QED
  BY <1>4, <1>5

(* The frames: whoever accepts one is sent it, whoever is gone is let go.     *)
LEMMA LineOfFrames ==
  ASSUME Types, NEW screen \in Seq(Nat), NEW row \in Nat,
         \A d \in Attached : Resyncs(d) => row \in DOMAIN screen,
         PushedConn(screen, row) \in [Clients -> Conn],
         conn' = DetachClients(PushedConn(screen, row), DeadOf(screen, row)), peer' = peer,
         NEW c \in Clients
  PROVE  \/ ~(c \in Speaking(screen, row) /\ Accepts(c)) /\ (Still(c) \/ Sends(c, Bye))
         \/ /\ c \in Speaking(screen, row) /\ Accepts(c)
            /\ Sends(c, Frame(Diffed(c, screen, row), screen))
<1> DEFINE cn == PushedConn(screen, row)
           dead == DeadOf(screen, row)
           frame == Frame(Diffed(c, screen, row), screen)
<1>1. conn \in [Clients -> Conn] /\ conn[c] \in Conn
  BY DEF Types
<1>2. CASE ~(c \in Speaking(screen, row) /\ Accepts(c))
  <2>1. cn[c] = conn[c]
    BY <1>2 DEF PushedConn
  <2> HIDE DEF cn, dead
  <2>2. cn \in [Clients -> Conn] /\ conn' = DetachClients(cn, dead)
    BY DEF cn, dead
  <2> QED
    BY <1>1, <1>2, <2>1, <2>2, LineDetached
<1>3. CASE c \in Speaking(screen, row) /\ Accepts(c)
  <2>1. c \notin dead
    BY <1>3 DEF Accepts, WriterGone, DeadOf
  <2>2. conn'[c] = cn[c]
    <3> HIDE DEF cn, dead
    <3>1. cn \in [Clients -> Conn] /\ conn' = DetachClients(cn, dead)
      BY DEF cn, dead
    <3> QED
      BY <2>1, <3>1, DetachTells
  <2>3. cn[c] = [conn[c] EXCEPT !.chan = <<frame>>]
    BY <1>3 DEF PushedConn
  <2>4. Diffed(c, screen, row) \in Srv
    BY <1>3, DiffedType DEF Speaking
  <2>5. frame \in Message /\ conn[c].chan = <<>>
    BY <1>3, <2>4, FrameType DEF Message, Accepts
  <2> HIDE DEF frame
  <2>6. Line([conn[c] EXCEPT !.chan = <<frame>>]) = Append(Line(conn[c]), frame)
    BY <1>1, <2>5, LineSends
  <2>7. InFlight(c) = Line(conn[c]) /\ InFlight(c)' = Line(conn'[c])
    BY DEF InFlight, Line
  <2>8. Sends(c, frame)
    BY <2>2, <2>3, <2>6, <2>7, Zenon DEF Sends
  <2> QED
    BY <1>3, <2>8 DEF frame
<1> QED
  BY <1>2, <1>3

(* The other steps of the loop send nobody anything but a farewell.           *)
LEMMA LineOfLoop ==
  ASSUME Types, NEW c \in Clients,
         Settle \/ (\E p \in Panes : TakeClipboard(p)) \/ RelayClipboard \/ ExpireSilentClients
         \/ EndReplies \/ SkipFrame \/ FlushBeforeShutdown \/ SendBye \/ EndByes
         \/ LastShellExits \/ DeadlinePasses \/ PaneDraws \/ PaneWakes
         \/ \E p \in Panes : PaneStamps(p) \/ PaneStores(p)
  PROVE  Still(c) \/ Sends(c, Bye)
<1>1. conn \in [Clients -> Conn] /\ conn[c] \in Conn
  BY DEF Types
<1>2. CASE conn' = conn /\ peer' = peer
  BY <1>2 DEF Still, InFlight
<1>3. CASE (\E gone : conn' = DetachClients(conn, gone)) /\ peer' = peer
  BY <1>1, <1>3, LineDetached
<1>4. CASE SendBye
  <2> DEFINE d == Head(loop.todo)
  <2>1. /\ d \in Clients /\ peer' = peer
        /\ conn' = conn \/ (Accepts(d) /\ conn' = [conn EXCEPT ![d] = [conn[d] EXCEPT !.chan = <<Bye>>]])
    BY <1>4, ByeIs
  <2> HIDE DEF d
  <2>2. CASE conn' = conn \/ d # c
    <3>1. conn'[c] = conn[c]
      BY <1>1, <2>1, <2>2
    <3> QED
      BY <2>1, <3>1 DEF Still, InFlight
  <2>3. CASE d = c /\ Accepts(c) /\ conn' = [conn EXCEPT ![d] = [conn[d] EXCEPT !.chan = <<Bye>>]]
    <3>1. Bye \in Message /\ conn[c].chan = <<>>
      BY <2>3 DEF Message, Accepts
    <3>2. Line([conn[c] EXCEPT !.chan = <<Bye>>]) = Append(Line(conn[c]), Bye)
      BY <1>1, <3>1, LineSends
    <3>3. conn'[c] = [conn[c] EXCEPT !.chan = <<Bye>>]
      BY <1>1, <2>3
    <3>4. InFlight(c) = Line(conn[c]) /\ InFlight(c)' = Line(conn'[c])
      BY DEF InFlight, Line
    <3> QED
      BY <2>1, <3>2, <3>3, <3>4 DEF Sends
  <2> QED
    BY <2>1, <2>2, <2>3
<1> QED
  BY <1>2, <1>3, <1>4, Zenon DEF Settle, TakeClipboard, RelayClipboard, ExpireSilentClients, EndReplies, SkipFrame,
     FlushBeforeShutdown, EndByes, LastShellExits, DeadlinePasses, PaneDraws, PaneWakes, PaneStamps, PaneStores

LEMMA LineOfExit ==
  ASSUME Types, NEW c \in Clients, Exit
  PROVE  Still(c) \/ Drops(c)
<1>1. conn \in [Clients -> Conn] /\ conn[c] \in Conn /\ peer' = peer
  BY DEF Types, Exit
<1>2. CASE conn[c].link = "none"
  <2>1. conn'[c] = conn[c]
    BY <1>1, <1>2 DEF Exit
  <2> QED
    BY <1>1, <2>1 DEF Still, InFlight
<1>3. CASE conn[c].link # "none"
  BY <1>1, <1>3 DEF Exit, Drops, Conn
<1> QED
  BY <1>2, <1>3

(* A client that has not attached has no writer yet.                          *)
WiredInv ==
  /\ Wired
  /\ \A c \in Clients : peer[c].state = "new" => conn[c].writer \in {"none", "ended"}

LEMMA WiredInit == Init => WiredInv
  BY DEF Init, WiredInv, Wired

LEMMA WiredStep == Types /\ WiredInv /\ [Next]_vars => WiredInv'
<1> SUFFICES ASSUME Types, WiredInv, [Next]_vars PROVE WiredInv'
  OBVIOUS
<1>1. conn \in [Clients -> Conn] /\ peer \in [Clients -> Peer]
  BY DEF Types
<1> DEFINE fine(c) == /\ conn'[c].held # <<>> <=> conn'[c].writer = "holding"
                      /\ peer'[c].state = "new" => conn'[c].writer \in {"none", "ended"}
<1>2. ASSUME NEW c \in Clients, conn'[c].held = conn[c].held, conn'[c].writer = conn[c].writer,
             peer'[c].state = "new" => peer[c].state = "new"
      PROVE  fine(c)
  BY <1>2 DEF WiredInv, Wired
<1> HIDE DEF fine
<1>3. ASSUME \A c \in Clients : fine(c) PROVE WiredInv'
  BY <1>3 DEF WiredInv, Wired, fine
<1>4. ASSUME peer' = peer, \A c \in Clients : conn'[c].held = conn[c].held /\ conn'[c].writer = conn[c].writer
      PROVE  WiredInv'
  BY <1>2, <1>3, <1>4
<1>5. ASSUME peer' = peer, conn' = conn PROVE WiredInv'
  BY <1>4, <1>5
<1>6. ASSUME peer' = peer, NEW cn \in [Clients -> Conn], NEW gone, conn' = DetachClients(cn, gone),
             \A c \in Clients : cn[c].held = conn[c].held /\ cn[c].writer = conn[c].writer
      PROVE  WiredInv'
  <2>1. \A c \in Clients : conn'[c] = cn[c] \/ Told(cn[c], conn'[c])
    BY <1>6, DetachTells
  <2>2. \A c \in Clients : conn'[c].held = cn[c].held /\ conn'[c].writer = cn[c].writer
    <3>1. ASSUME NEW c \in Clients, Told(cn[c], conn'[c])
          PROVE  conn'[c].held = cn[c].held /\ conn'[c].writer = cn[c].writer
      <4>1. cn[c] \in Conn
        BY <1>6
      <4> QED
        BY <3>1, <4>1 DEF Told, Conn
    <3> QED
      BY <2>1, <3>1
  <2> QED
    BY <1>4, <1>6, <2>2
<1>7. CASE UNCHANGED vars
  BY <1>5, <1>7 DEF vars
<1>8. ASSUME NEW d \in Clients, PeerAttaches(d) PROVE WiredInv'
  <2>1. conn[d].held = <<>>
    BY <1>8 DEF PeerAttaches, WiredInv, Wired
  <2>2. conn'[d].held = <<>> /\ conn'[d].writer = "idle" /\ peer'[d].state = "attached"
    BY <1>1, <1>8, <2>1 DEF PeerAttaches, Conn, Peer
  <2>3. \A c \in Clients \ {d} : conn'[c] = conn[c] /\ peer'[c] = peer[c]
    BY <1>1, <1>8 DEF PeerAttaches
  <2> QED
    BY <1>2, <1>3, <2>2, <2>3 DEF fine
<1>9. ASSUME NEW d \in Clients, PeerSays(d) PROVE WiredInv'
  <2>1. PICK kind \in Says[d], rows \in 1 .. Tall :
             /\ peer' = [peer EXCEPT ![d].said = @ + 1, ![d].rows = rows,
                  ![d].asked = IF kind \in {"command", "kill", "ping"} THEN @ \cup {peer[d].said + 1} ELSE @]
             /\ conn' = [conn EXCEPT ![d].inbox =
                  Append(@, [t |-> kind, n |-> IF kind = "resize" THEN rows ELSE peer[d].said + 1])]
    BY <1>9 DEF PeerSays
  <2>2. \A c \in Clients : conn'[c].held = conn[c].held /\ conn'[c].writer = conn[c].writer
    BY <1>1, <2>1 DEF Conn
  <2>3. \A c \in Clients : peer'[c].state = peer[c].state
    BY <1>1, <2>1 DEF Peer
  <2> QED
    BY <1>2, <1>3, <2>2, <2>3
<1>10. ASSUME NEW d \in Clients, PeerReads(d) PROVE WiredInv'
  <2>1. \A c \in Clients : conn'[c].held = conn[c].held /\ conn'[c].writer = conn[c].writer
    BY <1>1, <1>10 DEF PeerReads, Conn
  <2>2. peer[d].state # "new" /\ Head(conn[d].wire) \in Message
    BY <1>1, <1>10 DEF PeerReads, Reading, Conn
  <2>3. Received(peer[d], Head(conn[d].wire)).state # "new"
    BY <1>1, <2>2 DEF Received, Message, Frames, Reply, Copies, Bye, Peer
  <2>4. \A c \in Clients : peer'[c].state = "new" => peer[c].state = "new"
    BY <1>1, <1>10, <2>3 DEF PeerReads
  <2> QED
    BY <1>2, <1>3, <2>1, <2>4
<1>11. ASSUME NEW d \in Clients, NEW from, NEW to \in {"gone", "hung", "resumed"}, PeerState(d, from, to)
       PROVE  WiredInv'
  BY <1>1, <1>2, <1>3, <1>11 DEF PeerState, Peer
<1>12. ASSUME NEW d \in Clients, LinkBreaks(d) \/ ReaderEnds(d) \/ ResyncDue(d) PROVE WiredInv'
  BY <1>1, <1>4, <1>12 DEF LinkBreaks, ReaderEnds, ResyncDue, Conn
<1>13. ASSUME NEW d \in Clients, PeerSeesEof(d) \/ PeerDies(d) \/ PeerHangs(d) \/ PeerResumes(d) PROVE WiredInv'
  BY <1>11, <1>13 DEF PeerSeesEof, PeerDies, PeerHangs, PeerResumes
<1>14. ASSUME NEW d \in Clients, Writer(d) PROVE WiredInv'
  <2>1. peer' = peer /\ \A c \in Clients \ {d} : conn'[c] = conn[c]
    BY <1>1, <1>14 DEF Writer, WriterSends, WriterBlocks, WriterResumes, WriterEnds, Written
  <2>2. conn'[d].held # <<>> <=> conn'[d].writer = "holding"
    <3>1. CASE WriterSends(d) \/ WriterResumes(d)
      <4>1. PICK line : Written(d, line)
        BY <3>1 DEF WriterSends, WriterResumes
      <4>2. conn' = [conn EXCEPT ![d] = [conn[d] EXCEPT !.wire = conn[d].wire \o line, !.held = <<>>,
                       !.chan = IF conn[d].held = <<>> THEN <<>> ELSE conn[d].chan,
                       !.writer = IF line = <<Bye>> THEN "ended" ELSE "idle"]]
        BY <1>1, <4>1 DEF Written, Conn
      <4>3. conn'[d].held = <<>> /\ conn'[d].writer = IF line = <<Bye>> THEN "ended" ELSE "idle"
        BY <1>1, <4>2 DEF Conn
      <4> QED
        BY <4>3
    <3>2. CASE WriterBlocks(d)
      <4>1. conn'[d].held = conn[d].chan /\ conn'[d].writer = "holding" /\ conn[d].chan # <<>>
        BY <1>1, <3>2 DEF WriterBlocks, Conn
      <4> QED
        BY <4>1
    <3>3. CASE WriterEnds(d)
      <4>1. conn'[d].held = <<>> /\ conn'[d].writer = "ended"
        BY <1>1, <3>3 DEF WriterEnds, Conn
      <4> QED
        BY <4>1
    <3> QED
      BY <1>14, <3>1, <3>2, <3>3 DEF Writer
  <2>3. peer[d].state # "new"
    BY <1>14 DEF Writer, WriterSends, WriterBlocks, WriterResumes, WriterEnds, WiredInv
  <2> QED
    BY <1>2, <1>3, <2>1, <2>2, <2>3 DEF fine
<1>15. ASSUME NEW d \in Clients, HandleIncoming(d) PROVE WiredInv'
  <2>1. conn[d].inbox # <<>> /\ peer' = peer
    BY <1>15 DEF HandleIncoming, HandleAttach, HandleStale, HandleEnv, HandleChord, HandleRedraw, HandleDrag, Answered,
         HandleResize, HandleDetach, HandleDisconnect, HandleCommand, HandleKillServer, HandlePing, Taking
  <2>2. Taken(d) \in [Clients -> Conn]
        /\ \A c \in Clients : Taken(d)[c] = [conn[c] EXCEPT !.inbox = Taken(d)[c].inbox]
    BY <2>1, TakenType
  <2>3. \A c \in Clients : Taken(d)[c].held = conn[c].held /\ Taken(d)[c].writer = conn[c].writer
    BY <1>1, <2>2 DEF Conn
  <2>4. CASE \E gone : conn' = DetachClients(Taken(d), gone)
    BY <1>6, <2>1, <2>2, <2>3, <2>4
  <2>5. CASE conn' = Taken(d)
    BY <1>4, <2>1, <2>3, <2>5
  <2>6. CASE conn' = [Taken(d) EXCEPT ![d].out = FALSE]
    <3>1. \A c \in Clients : conn'[c].held = Taken(d)[c].held /\ conn'[c].writer = Taken(d)[c].writer
      BY <2>2, <2>6 DEF Conn
    <3> QED
      BY <1>4, <2>1, <2>3, <3>1
  <2> QED
    BY <1>15, <2>4, <2>5, <2>6 DEF HandleIncoming, HandleAttach, HandleStale, HandleEnv, HandleChord, HandleRedraw,
       HandleDrag, HandleResize, HandleDetach, HandleDisconnect, HandleCommand, HandleKillServer, HandlePing, Answered
<1>16. CASE PushFrames
  <2> DEFINE screen == Render(mux)
  <2>1. PICK row \in Nat :
              /\ PushedConn(screen, row) \in [Clients -> Conn]
              /\ conn' = DetachClients(PushedConn(screen, row), DeadOf(screen, row)) /\ peer' = peer
    BY <1>16, PushIs
  <2> HIDE DEF screen
  <2>2. \A c \in Clients : /\ PushedConn(screen, row)[c].held = conn[c].held
                           /\ PushedConn(screen, row)[c].writer = conn[c].writer
    BY <1>1 DEF PushedConn, Conn
  <2> QED
    BY <1>6, <2>1, <2>2
<1>17. CASE SendCopies
  <2> DEFINE copying == {c \in Attached : mux.srv[c].copy # 0}
             dead == {c \in copying : WriterGone(c)}
             sent == {c \in copying : Accepts(c)}
             cn == [c \in Clients |->
                      IF c \in sent THEN [conn[c] EXCEPT !.chan = <<[t |-> "copy", seq |-> mux.srv[c].copy]>>]
                      ELSE conn[c]]
  <2>1. peer' = peer /\ conn' = DetachClients(cn, dead)
    BY <1>17 DEF SendCopies
  <2>2. \A c \in Clients : c \in sent => <<[t |-> "copy", seq |-> mux.srv[c].copy]>> \in Slot
    <3>1. \A c \in Clients : c \in sent => [t |-> "copy", seq |-> mux.srv[c].copy] \in Message
      BY DEF Copies, Srv, Message, Types, Muxes
    <3> QED
      BY <3>1 DEF Slot
  <2> HIDE DEF sent, dead
  <2>3. cn \in [Clients -> Conn]
    BY <1>1, <2>2, ChanType
  <2>4. \A c \in Clients : cn[c].held = conn[c].held /\ cn[c].writer = conn[c].writer
    BY <1>1 DEF Conn
  <2> HIDE DEF cn
  <2> QED
    BY <1>6, <2>1, <2>3, <2>4
<1>18. CASE SendReply
  <2> DEFINE d == Head(loop.todo)
             m == Head(mux.srv[d].replies)
  <2>1. /\ d \in Clients /\ peer' = peer
        /\ conn' = conn \/ conn' = [conn EXCEPT ![d] = [conn[d] EXCEPT !.chan = <<m>>]]
    BY <1>18, ReplyIs
  <2> HIDE DEF d, m
  <2>2. \A c \in Clients : conn'[c].held = conn[c].held /\ conn'[c].writer = conn[c].writer
    <3> TAKE c \in Clients
    <3>1. conn'[c] = conn[c] \/ conn'[c] = [conn[c] EXCEPT !.chan = <<m>>]
      BY <1>1, <2>1
    <3> QED
      BY <1>1, <3>1 DEF Conn
  <2> QED
    BY <1>4, <2>1, <2>2
<1>19. CASE SendBye
  <2> DEFINE d == Head(loop.todo)
  <2>1. /\ d \in Clients /\ peer' = peer
        /\ conn' = conn \/ conn' = [conn EXCEPT ![d] = [conn[d] EXCEPT !.chan = <<Bye>>]]
    BY <1>19, ByeIs
  <2> HIDE DEF d
  <2>2. \A c \in Clients : conn'[c].held = conn[c].held /\ conn'[c].writer = conn[c].writer
    <3> TAKE c \in Clients
    <3>1. conn'[c] = conn[c] \/ conn'[c] = [conn[c] EXCEPT !.chan = <<Bye>>]
      BY <1>1, <2>1
    <3> QED
      BY <1>1, <3>1 DEF Conn
  <2> QED
    BY <1>4, <2>1, <2>2
<1>20. CASE ExpireSilentClients \/ EndReplies
  <2>1. \E gone : conn' = DetachClients(conn, gone) /\ peer' = peer
    BY <1>20 DEF ExpireSilentClients, EndReplies
  <2> QED
    BY <1>1, <1>6, <2>1
<1>21. CASE Exit
  <2>1. \A c \in Clients : conn'[c] = conn[c] \/ (conn'[c].held = <<>> /\ conn'[c].writer = "ended")
    BY <1>1, <1>21, ZenonT(40) DEF Exit, Conn
  <2>2. peer' = peer
    BY <1>21 DEF Exit
  <2> QED
    BY <1>2, <1>3, <2>1, <2>2 DEF fine
<1>22. CASE Settle \/ (\E p \in Panes : TakeClipboard(p)) \/ RelayClipboard \/ SkipFrame
            \/ FlushBeforeShutdown \/ EndByes \/ LastShellExits \/ DeadlinePasses \/ PaneDraws \/ PaneWakes
            \/ \E p \in Panes : PaneStamps(p) \/ PaneStores(p)
  BY <1>5, <1>22, Zenon DEF Settle, TakeClipboard, RelayClipboard, SkipFrame,
     FlushBeforeShutdown, EndByes, LastShellExits, DeadlinePasses, PaneDraws, PaneWakes, PaneStamps, PaneStores
<1> QED
  BY <1>7, <1>8, <1>9, <1>10, <1>12, <1>13, <1>14, <1>15, <1>16, <1>17, <1>18, <1>19, <1>20, <1>21, <1>22 DEF Next, Pass

--------------------------------------------------------------------------------
(* The clipboards of the clients                                              *)

(* The copies a client has or is on the way to having, oldest first.          *)
Sorted(p, msgs) ==
  /\ \A i, j \in DOMAIN msgs :
       msgs[i].t = "copy" /\ msgs[j].t = "copy" /\ i < j => msgs[i].seq < msgs[j].seq
  /\ \A i \in DOMAIN msgs : msgs[i].t = "copy" => p.pasted < msgs[i].seq

(* A copy newer than all of them.                                             *)
Beyond(v, p, msgs) == v > p.pasted /\ \A i \in DOMAIN msgs : msgs[i].t = "copy" => v > msgs[i].seq

(* A copy that was relayed to no client yet is newer than what any of them    *)
(* was sent.                                                                  *)
Fresh(v) == v = 0 \/ v <= mux.relayed \/ \A c \in Clients : Beyond(v, peer[c], InFlight(c))

(* The loop has looked at a pane's slot in this pass, and relayed what was    *)
(* there or will before any client is sent its copy: what the pane has now is *)
(* newer than what is queued.                                                 *)
Emptied(p) ==
  \/ loop.at = "clipboard" /\ p \notin loop.unread
  \/ loop.at \in {"expire", "copies"}
  \/ loop.at = "replies" /\ ~loop.kill

Later(v) == v = 0 \/ v <= mux.relayed \/ \A c \in Clients : v > mux.srv[c].copy

OrderInv ==
  \A c \in Clients :
    /\ Sorted(peer[c], InFlight(c))
    /\ mux.srv[c].copy # 0 => Beyond(mux.srv[c].copy, peer[c], InFlight(c))
    /\ Beyond(panes.ticket, peer[c], InFlight(c)) /\ mux.srv[c].copy < panes.ticket

PanesInv ==
  /\ mux.relayed < panes.ticket /\ loop.latest < panes.ticket /\ Fresh(loop.latest)
  /\ \A p \in Panes :
       /\ panes.slot[p] < panes.ticket /\ panes.stamped[p] < panes.ticket
       /\ Fresh(panes.slot[p]) /\ Fresh(panes.stamped[p])
       /\ Emptied(p) => Later(panes.slot[p]) /\ Later(panes.stamped[p])

PhaseInv ==
  /\ loop.at # "clipboard" => loop.latest = 0
  /\ loop.at \in {"clipboard", "expire", "copies", "frames"} => ~loop.kill

CopyInv == OrderInv /\ PanesInv /\ PhaseInv

(* A step that does not send a client a copy.                                 *)
Tame(c) ==
  /\ Sorted(peer'[c], InFlight(c)')
  /\ \A v \in Nat : Beyond(v, peer[c], InFlight(c)) => Beyond(v, peer'[c], InFlight(c)')

LEMMA TameReads ==
  ASSUME NEW p \in Peer, NEW msgs \in Seq(Message), msgs # <<>>, Sorted(p, msgs),
         NEW v \in Nat
  PROVE  /\ Sorted(Received(p, Head(msgs)), Tail(msgs))
         /\ Beyond(v, p, msgs) => Beyond(v, Received(p, Head(msgs)), Tail(msgs))
<1> DEFINE q == Received(p, Head(msgs))
           rest == Tail(msgs)
<1>1. /\ msgs[1] \in Message /\ Head(msgs) = msgs[1] /\ 1 \in DOMAIN msgs
      /\ \A i \in DOMAIN rest : i + 1 \in DOMAIN msgs /\ rest[i] = msgs[i + 1] /\ i \in Nat /\ 1 < i + 1
      /\ \A i, j \in DOMAIN rest : i < j => i + 1 < j + 1
  OBVIOUS
<1>2. q.pasted = p.pasted \/ (msgs[1].t = "copy" /\ q.pasted = msgs[1].seq)
  BY <1>1 DEF Received, Message, Frames, Reply, Copies, Bye, Peer
<1> HIDE DEF q, rest
<1>3. Sorted(q, rest)
  BY <1>1, <1>2 DEF Sorted
<1>4. Beyond(v, p, msgs) => Beyond(v, q, rest)
  BY <1>1, <1>2 DEF Beyond
<1> QED
  BY <1>3, <1>4 DEF q, rest

LEMMA TameSends ==
  ASSUME NEW p, NEW msgs \in Seq(Message), NEW msg \in Message, msg.t # "copy", Sorted(p, msgs),
         NEW v \in Nat
  PROVE  /\ Sorted(p, Append(msgs, msg))
         /\ Beyond(v, p, msgs) => Beyond(v, p, Append(msgs, msg))
<1> DEFINE more == Append(msgs, msg)
<1>1. \A i \in DOMAIN more : more[i].t = "copy" => i \in DOMAIN msgs /\ more[i] = msgs[i]
  OBVIOUS
<1> HIDE DEF more
<1>2. Sorted(p, more)
  BY <1>1 DEF Sorted
<1>3. Beyond(v, p, msgs) => Beyond(v, p, more)
  BY <1>1 DEF Beyond
<1> QED
  BY <1>2, <1>3 DEF more

LEMMA TameDrops ==
  ASSUME NEW p, NEW k \in Conn, NEW n \in Conn, n.wire = k.wire, n.held = <<>>, n.chan = <<>>,
         Sorted(p, Line(k)), NEW v \in Nat
  PROVE  Sorted(p, Line(n)) /\ (Beyond(v, p, Line(k)) => Beyond(v, p, Line(n)))
<1>1. k.wire \in Seq(Message) /\ k.held \in Seq(Message) /\ k.chan \in Seq(Message)
  BY LineType
<1>2. Line(n) = k.wire
  BY LineType
<1> DEFINE rest == k.held \o k.chan
<1>3. Line(k) = k.wire \o rest /\ rest \in Seq(Message)
  <2>1. (k.wire \o k.held) \o k.chan = k.wire \o (k.held \o k.chan)
    BY <1>1, Regroup
  <2> QED
    BY <1>1, <2>1 DEF Line
<1> HIDE DEF rest
<1>4. \A i \in DOMAIN Line(n) : i \in DOMAIN Line(k) /\ Line(n)[i] = Line(k)[i]
  BY <1>1, <1>2, <1>3
<1>5. Sorted(p, Line(n))
  BY <1>4 DEF Sorted
<1> QED
  BY <1>4, <1>5 DEF Beyond

LEMMA TameStep ==
  ASSUME Types, Types', NEW c \in Clients, Sorted(peer[c], InFlight(c)),
         \/ Still(c) \/ Reads(c) \/ Drops(c)
         \/ \E msg \in Message : msg.t # "copy" /\ Sends(c, msg)
  PROVE  Tame(c)
<1>1. /\ peer[c] \in Peer /\ conn[c] \in Conn /\ conn'[c] \in Conn
      /\ InFlight(c) = Line(conn[c]) /\ InFlight(c)' = Line(conn'[c])
  BY DEF Types, InFlight, Line
<1>2. InFlight(c) \in Seq(Message)
  BY <1>1, LineType
<1>3. CASE Still(c)
  BY <1>3 DEF Still, Tame, Sorted, Beyond
<1>4. CASE Reads(c)
  BY <1>1, <1>2, <1>4, TameReads DEF Reads, Tame
<1>5. CASE Drops(c)
  <2>1. /\ conn'[c].wire = conn[c].wire /\ conn'[c].held = <<>> /\ conn'[c].chan = <<>>
        /\ peer' = peer /\ Sorted(peer[c], Line(conn[c]))
    BY <1>1, <1>5 DEF Drops
  <2>2. ASSUME NEW v \in Nat
        PROVE  /\ Sorted(peer[c], Line(conn'[c]))
               /\ Beyond(v, peer[c], Line(conn[c])) => Beyond(v, peer[c], Line(conn'[c]))
    BY <1>1, <2>1, TameDrops
  <2>3. Sorted(peer[c], Line(conn'[c]))
    <3>1. 0 \in Nat
      OBVIOUS
    <3> QED
      BY <2>2, <3>1
  <2>4. peer'[c] = peer[c]
    BY <2>1
  <2>5. Sorted(peer'[c], InFlight(c)')
    BY <1>1, <2>3, <2>4
  <2>6. \A v \in Nat : Beyond(v, peer[c], InFlight(c)) => Beyond(v, peer'[c], InFlight(c)')
    BY <1>1, <2>2, <2>4
  <2> QED
    BY <2>5, <2>6 DEF Tame
<1>6. CASE \E msg \in Message : msg.t # "copy" /\ Sends(c, msg)
  BY <1>2, <1>6, TameSends DEF Sends, Tame
<1> QED
  BY <1>3, <1>4, <1>5, <1>6

(* A step that makes no copy, sends none and relays none.                     *)
LEMMA CopiesUntouched ==
  ASSUME Types, Types', CopyInv, \A c \in Clients : Tame(c),
         \A c \in Clients : mux'.srv[c].copy \in {0, mux.srv[c].copy},
         mux'.relayed = mux.relayed, panes'.ticket = panes.ticket,
         panes'.slot = panes.slot, panes'.stamped = panes.stamped,
         loop'.latest \in {0, loop.latest}, \A p \in Panes : Emptied(p)' => Emptied(p),
         PhaseInv'
  PROVE  CopyInv'
<1>1. /\ panes.ticket \in Nat /\ loop.latest \in Nat /\ mux.relayed \in Nat
      /\ \A p \in Panes : panes.slot[p] \in Nat /\ panes.stamped[p] \in Nat
      /\ \A c \in Clients : mux.srv[c].copy \in Nat
  BY DEF Types, Threads, Loops, Muxes, Srv
<1>2. OrderInv'
  <2> SUFFICES ASSUME NEW c \in Clients
               PROVE  /\ Sorted(peer[c], InFlight(c))'
                      /\ (mux.srv[c].copy # 0 => Beyond(mux.srv[c].copy, peer[c], InFlight(c)))'
                      /\ (Beyond(panes.ticket, peer[c], InFlight(c)) /\ mux.srv[c].copy < panes.ticket)'
    BY DEF OrderInv
  <2>1. Tame(c) /\ mux'.srv[c].copy \in {0, mux.srv[c].copy}
    OBVIOUS
  <2> QED
    BY <1>1, <2>1 DEF CopyInv, OrderInv, Tame
<1>3. ASSUME NEW v \in Nat, Fresh(v) PROVE Fresh(v)'
  <2>1. \A c \in Clients : Beyond(v, peer[c], InFlight(c)) => Beyond(v, peer'[c], InFlight(c)')
    BY DEF Tame
  <2> QED
    BY <1>3, <2>1 DEF Fresh
<1>4. ASSUME NEW v \in Nat, Later(v) PROVE Later(v)'
  <2>1. \A c \in Clients : v > mux.srv[c].copy => v = 0 \/ v > mux'.srv[c].copy
    BY <1>1
  <2> QED
    BY <1>4, <2>1 DEF Later
<1>5. PanesInv'
  <2>1. mux'.relayed < panes'.ticket /\ loop'.latest < panes'.ticket
    BY <1>1 DEF CopyInv, PanesInv
  <2>2. Fresh(loop.latest)'
    <3>1. CASE loop'.latest = 0
      BY <3>1 DEF Fresh
    <3>2. CASE loop'.latest = loop.latest
      <4>1. loop.latest \in Nat /\ Fresh(loop.latest)
        BY <1>1 DEF CopyInv, PanesInv
      <4>2. PICK v \in Nat : v = loop.latest /\ Fresh(v)
        BY <4>1
      <4>3. Fresh(v)'
        BY <1>3, <4>2
      <4> QED
        BY <3>2, <4>2, <4>3 DEF Fresh
    <3> QED
      BY <3>1, <3>2
  <2>3. ASSUME NEW p \in Panes
        PROVE  /\ (panes.slot[p] < panes.ticket /\ panes.stamped[p] < panes.ticket)'
               /\ Fresh(panes.slot[p])' /\ Fresh(panes.stamped[p])'
               /\ (Emptied(p) => Later(panes.slot[p]) /\ Later(panes.stamped[p]))'
    <3>1. PICK v \in Nat, w \in Nat : v = panes.slot[p] /\ w = panes.stamped[p]
      BY <1>1
    <3>2. v = panes'.slot[p] /\ w = panes'.stamped[p]
      BY <3>1
    <3>3. Fresh(v) /\ Fresh(w) /\ (Emptied(p) => Later(v) /\ Later(w))
      BY <3>1 DEF CopyInv, PanesInv
    <3>4. Fresh(v)' /\ Fresh(w)' /\ (Emptied(p)' => Later(v)' /\ Later(w)')
      BY <1>3, <1>4, <3>3
    <3>5. Fresh(panes.slot[p])' /\ Fresh(panes.stamped[p])'
      BY <3>2, <3>4 DEF Fresh
    <3>6. (Emptied(p) => Later(panes.slot[p]) /\ Later(panes.stamped[p]))'
      BY <3>2, <3>4 DEF Later
    <3>7. (panes.slot[p] < panes.ticket /\ panes.stamped[p] < panes.ticket)'
      BY DEF CopyInv, PanesInv
    <3> QED
      BY <3>5, <3>6, <3>7
  <2> QED
    BY <2>1, <2>2, <2>3 DEF PanesInv
<1> QED
  BY <1>2, <1>5 DEF CopyInv

(* What a handler may do to the queues of each client: whoever is not         *)
(* attached after it has none, and the other handlers leave those of the      *)
(* attached ones alone.                                                       *)
Queued(s, t) == t.copy = s.copy /\ t.replies = s.replies /\ t.overflowed = s.overflowed

Emptyhanded(t) == t.copy = 0 /\ t.replies = <<>> /\ ~t.overflowed

LEMMA QueuesOfHandlers ==
  ASSUME Types, NEW d \in Clients, HandleIncoming(d), NEW c \in Clients
  PROVE  /\ mux'.relayed = mux.relayed /\ loop.at = "receive" /\ loop'.at = "receive"
         /\ loop'.latest = loop.latest
         /\ \/ Queued(mux.srv[c], mux'.srv[c]) /\ (c \in Attached' => c \in Attached)
            \/ Emptyhanded(mux'.srv[c]) /\ (c \in Attached' => c = d /\ HandleAttach(d))
            \/ c = d /\ HandleDrag(d)
            \/ c = d /\ (HandleCommand(d) \/ HandleKillServer(d) \/ HandlePing(d))
               /\ mux'.srv[c].copy = mux.srv[c].copy
<1>1. mux \in Muxes /\ mux.srv \in [Clients -> Srv] /\ mux.srv[c] \in Srv /\ mux.srv[d] \in Srv /\ loop \in Loops
  BY DEF Types, Muxes
<1>2. Emptyhanded(Detached)
  BY DEF Emptyhanded, Detached
<1>3. ASSUME NEW m \in Muxes, NEW n, NEW gone, Left(m, n, gone)
      PROVE  /\ n.relayed = m.relayed
             /\ \/ Queued(m.srv[c], n.srv[c]) /\ (c \in ToSet(n.att) => c \in ToSet(m.att))
                \/ Emptyhanded(n.srv[c]) /\ c \notin ToSet(n.att)
  BY <1>2, <1>3 DEF Left, Kept, Queued
<1>4. CASE HandleAttach(d)
  <2> DEFINE replaced == {Replaces[d]} \cap {o \in Attached : mux.srv[o].tagged}
             m == PruneDeadClients(mux, replaced)
             k == [m EXCEPT !.att = Append(m.att, d), !.srv[d] = Attachment(Size[d])]
  <2>1. Left(mux, m, replaced)
    BY <1>1, PruneLeft
  <2>2. Size[d] \in Nat
    BY ServerAssumption
  <2>3. mux' = RecomputeViewport(k) /\ loop' = [loop EXCEPT !.dirty = TRUE] /\ loop.at = "receive"
    BY <1>4 DEF HandleAttach, Dirtied, Taking
  <2> HIDE DEF m
  <2>4. Attachment(Size[d]) \in Srv /\ m \in Muxes
    BY <2>1, <2>2, AttachmentType DEF Left
  <2>5. k \in Muxes /\ k.relayed = m.relayed /\ k.att = Append(m.att, d)
        /\ k.srv = [m.srv EXCEPT ![d] = Attachment(Size[d])]
    <3>1. m.att \in Seq(Clients)
      BY <2>4 DEF Muxes
    <3>2. Append(m.att, d) \in Seq(Clients)
      BY <3>1
    <3>3. m.srv \in [Clients -> Srv]
      BY <2>4 DEF Muxes
    <3>4. [m.srv EXCEPT ![d] = Attachment(Size[d])] \in [Clients -> Srv]
      BY <2>4, <3>3
    <3>5. k = [m EXCEPT !.att = Append(m.att, d), !.srv = [m.srv EXCEPT ![d] = Attachment(Size[d])]]
      BY <2>4 DEF Muxes
    <3> HIDE DEF k
    <3> QED
      BY <2>4, <3>2, <3>4, <3>5 DEF Muxes
  <2>6. IF c = d THEN Emptyhanded(k.srv[c]) ELSE Queued(m.srv[c], k.srv[c])
    <3>1. Emptyhanded(Attachment(Size[d]))
      BY DEF Attachment, Detached, Emptyhanded
    <3> QED
      BY <2>4, <2>5, <3>1 DEF Queued, Muxes
  <2> HIDE DEF k
  <2>9. ToSet(k.att) = ToSet(m.att) \cup {d}
    <3>1. m.att \in Seq(Clients)
      BY <2>4 DEF Muxes
    <3>2. DOMAIN Append(m.att, d) = 1 .. Len(m.att) + 1 /\ DOMAIN m.att = 1 .. Len(m.att)
          /\ Append(m.att, d)[Len(m.att) + 1] = d /\ \A i \in 1 .. Len(m.att) : Append(m.att, d)[i] = m.att[i]
      BY <3>1
    <3> QED
      BY <2>5, <3>2 DEF ToSet
  <2>7. mux'.relayed = k.relayed /\ Kept(k.srv[c], mux'.srv[c]) /\ mux'.att = k.att
    <3> DEFINE n == RecomputeViewport(k)
    <3>1. n = [k EXCEPT !.srv = n.srv, !.viewport = n.viewport] /\ Kept(k.srv[c], n.srv[c])
      BY <2>5, Recomputed
    <3> HIDE DEF n
    <3>2. n.relayed = k.relayed /\ n.att = k.att
      BY <2>5, <3>1 DEF Muxes
    <3> QED
      BY <2>3, <3>1, <3>2 DEF n
  <2>8. /\ mux'.relayed = mux.relayed
        /\ \/ Queued(mux.srv[c], mux'.srv[c]) /\ (c \in Attached' => c \in Attached)
           \/ Emptyhanded(mux'.srv[c]) /\ (c \in Attached' => c = d)
    <3>1. /\ m.relayed = mux.relayed
          /\ \/ Queued(mux.srv[c], m.srv[c]) /\ (c \in ToSet(m.att) => c \in ToSet(mux.att))
             \/ Emptyhanded(m.srv[c]) /\ c \notin ToSet(m.att)
      BY <1>1, <1>3, <2>1
    <3>2. c # d => (c \in Attached' <=> c \in ToSet(m.att))
      BY <2>7, <2>9 DEF Attached
    <3> QED
      BY <2>5, <2>6, <2>7, <3>1, <3>2 DEF Queued, Emptyhanded, Kept, Attached
  <2> QED
    BY <1>1, <1>4, <2>3, <2>8 DEF Loops
<1>5. CASE HandleStale(d)
  BY <1>1, <1>5 DEF HandleStale, Queued, Attached, Loops
<1>6. CASE HandleEnv(d)
  BY <1>1, <1>6 DEF HandleEnv, Taking, Queued, Attached, Muxes, Srv
<1>7. CASE HandleChord(d)
  BY <1>1, <1>7 DEF HandleChord, Taking, Dirtied, Queued, Attached, Muxes, Srv, Loops
<1>8. CASE HandleRedraw(d)
  BY <1>1, <1>8 DEF HandleRedraw, Taking, Dirtied, Queued, Attached, Muxes, Srv, Loops, Baseline
<1>9. CASE HandleDrag(d)
  <2>1. mux' = [mux EXCEPT !.srv = [mux.srv EXCEPT ![d] = QueueCopy(mux.srv[d], panes.ticket)]]
    BY <1>1, <1>9 DEF HandleDrag
  <2>2. mux'.relayed = mux.relayed /\ mux'.att = mux.att /\ (c # d => mux'.srv[c] = mux.srv[c])
    BY <1>1, <2>1 DEF Muxes
  <2>3. loop.at = "receive" /\ loop' = [loop EXCEPT !.dirty = TRUE]
    BY <1>9 DEF HandleDrag, Taking, Dirtied
  <2> QED
    BY <1>1, <1>9, <2>2, <2>3 DEF Queued, Loops, Attached
<1>10. CASE HandleResize(d)
  <2> DEFINE rows == Head(conn[d].inbox).n
             k == [mux EXCEPT !.srv = [mux.srv EXCEPT ![d] = [mux.srv[d] EXCEPT !.rows = rows]]]
  <2>1. conn[d].inbox # <<>> /\ Head(conn[d].inbox).t = "resize"
        /\ loop.at = "receive" /\ loop' = [loop EXCEPT !.dirty = TRUE]
    BY <1>10 DEF HandleResize, Taking, Dirtied
  <2>2. rows \in Nat
    BY <2>1, TakenType DEF Kinds
  <2>3. mux' = RecomputeViewport(k)
    BY <1>1, <1>10 DEF HandleResize
  <2> HIDE DEF rows
  <2>4. [mux.srv[d] EXCEPT !.rows = rows] \in Srv
    BY <1>1, <2>2 DEF Srv
  <2>5. k \in Muxes /\ k.relayed = mux.relayed /\ k.att = mux.att
    BY <1>1, <2>4 DEF Muxes
  <2>6. Queued(mux.srv[c], k.srv[c])
    BY <1>1, <2>2 DEF Muxes, Srv, Queued
  <2> HIDE DEF k
  <2>7. mux'.relayed = k.relayed /\ Kept(k.srv[c], mux'.srv[c]) /\ mux'.att = k.att
    <3> DEFINE n == RecomputeViewport(k)
    <3>1. n = [k EXCEPT !.srv = n.srv, !.viewport = n.viewport] /\ Kept(k.srv[c], n.srv[c])
      BY <2>5, Recomputed
    <3> HIDE DEF n
    <3>2. n.relayed = k.relayed /\ n.att = k.att
      BY <2>5, <3>1 DEF Muxes
    <3> QED
      BY <2>3, <3>1, <3>2 DEF n
  <2> QED
    BY <1>1, <2>1, <2>5, <2>6, <2>7 DEF Queued, Kept, Loops, Attached
<1>11. CASE HandleDetach(d) \/ HandleDisconnect(d)
  <2>1. mux' = Without(mux, {d}) /\ loop' = [loop EXCEPT !.dirty = TRUE] /\ loop.at = "receive"
    BY <1>11 DEF HandleDetach, HandleDisconnect, Dirtied, Taking
  <2>2. Left(mux, mux', {d})
    BY <1>1, <2>1, WithoutLeft
  <2> QED
    BY <1>1, <1>3, <2>1, <2>2 DEF Loops, Attached
<1>12. CASE HandleCommand(d) \/ HandleKillServer(d) \/ HandlePing(d)
  <2>1. PICK code \in Codes : Answered(d, Head(conn[d].inbox).n, code)
    BY <1>12 DEF HandleCommand, HandleKillServer, HandlePing, Codes
  <2> DEFINE reply == [t |-> "reply", id |-> Head(conn[d].inbox).n, code |-> code]
  <2>2. mux' = [mux EXCEPT !.srv = [mux.srv EXCEPT ![d] = QueueReply(mux.srv[d], reply)]]
    BY <1>1, <2>1 DEF Answered
  <2> HIDE DEF reply
  <2>3. mux'.relayed = mux.relayed /\ mux'.att = mux.att /\ mux'.srv = [mux.srv EXCEPT ![d] = QueueReply(mux.srv[d], reply)]
    BY <1>1, <2>2 DEF Muxes
  <2>4. QueueReply(mux.srv[d], reply).copy = mux.srv[d].copy
    BY <1>1 DEF QueueReply, Srv
  <2>5. loop.at = "receive" /\ loop'.at = "receive" /\ loop'.latest = loop.latest
    BY <1>1, <1>12 DEF HandleCommand, HandleKillServer, HandlePing, Taking, Loops
  <2> QED
    BY <1>1, <1>12, <2>3, <2>4, <2>5 DEF Queued, Attached
<1> QED
  BY <1>4, <1>5, <1>6, <1>7, <1>8, <1>9, <1>10, <1>11, <1>12 DEF HandleIncoming

(* Nor do the steps of the loop that answer nobody and relay no copy.         *)
LEMMA QueuesOfLoop ==
  ASSUME Types, NEW c \in Clients,
         Settle \/ ExpireSilentClients \/ EndReplies \/ PushFrames \/ Exit
  PROVE  /\ mux'.relayed = mux.relayed
         /\ \/ Queued(mux.srv[c], mux'.srv[c]) /\ (c \in Attached' => c \in Attached)
            \/ Emptyhanded(mux'.srv[c]) /\ c \notin Attached'
<1>1. mux \in Muxes /\ mux.srv \in [Clients -> Srv] /\ mux.srv[c] \in Srv /\ loop \in Loops
  BY DEF Types, Muxes
<1>2. Emptyhanded(Detached)
  BY DEF Emptyhanded, Detached
<1>3. ASSUME NEW m \in Muxes, NEW n, NEW gone, Left(m, n, gone)
      PROVE  /\ n.relayed = m.relayed
             /\ \/ Queued(m.srv[c], n.srv[c]) /\ (c \in ToSet(n.att) => c \in ToSet(m.att))
                \/ Emptyhanded(n.srv[c]) /\ c \notin ToSet(n.att)
  BY <1>2, <1>3 DEF Left, Kept, Queued
<1>4. CASE Settle
  <2> DEFINE swapped == panes.woken /\ panes.alt # mux.seenAlt
             k == [mux EXCEPT !.seenAlt = panes.alt]
             n == Each(k, LAMBDA s : Baseline(s, Len(s.last)))
  <2>1. mux' = IF ~swapped THEN mux ELSE n
    BY <1>4 DEF Settle
  <2>2. k \in Muxes /\ k.srv = mux.srv /\ k.relayed = mux.relayed /\ k.att = mux.att
    BY <1>1 DEF Muxes, Types, Threads
  <2> HIDE DEF k
  <2>3. n = [k EXCEPT !.srv = n.srv] /\ Kept(k.srv[c], n.srv[c])
    BY <2>2, EachRestart
  <2> HIDE DEF n
  <2>4. n.relayed = mux.relayed /\ n.att = mux.att /\ Queued(mux.srv[c], n.srv[c])
    BY <2>2, <2>3 DEF Muxes, Kept, Queued
  <2> QED
    BY <2>1, <2>4 DEF Queued, Attached
<1>5. CASE ExpireSilentClients \/ EndReplies
  <2>1. \E gone : mux' = PruneDeadClients(mux, gone)
    BY <1>5 DEF ExpireSilentClients, EndReplies
  <2> QED
    BY <1>1, <1>3, <2>1, PruneLeft DEF Attached
<1>6. CASE PushFrames
  <2> DEFINE screen == Render(mux)
  <2>1. PICK row \in Nat :
              /\ \A d \in Attached : Resyncs(d) => row \in DOMAIN screen
              /\ PushedMux(screen, row) \in Muxes
              /\ PushedMux(screen, row).srv[c] =
                   IF c \in Attached THEN Pushed(c, Diffed(c, screen, row), screen) ELSE mux.srv[c]
              /\ mux' = PruneDeadClients(PushedMux(screen, row), DeadOf(screen, row))
    BY <1>6, PushIs
  <2>2. screen \in Seq(Nat)
    BY <1>1, RenderType DEF Types
  <2> HIDE DEF screen
  <2>3. PushedMux(screen, row).relayed = mux.relayed /\ PushedMux(screen, row).att = mux.att
    BY <1>1 DEF PushedMux, Muxes
  <2>4. Queued(mux.srv[c], PushedMux(screen, row).srv[c])
    <3>1. CASE c \in Attached
      <4>1. Diffed(c, screen, row) \in Srv /\ Kept(mux.srv[c], Diffed(c, screen, row))
        BY <2>1, <2>2, <3>1, DiffedType
      <4>2. Kept(Diffed(c, screen, row), Pushed(c, Diffed(c, screen, row), screen))
        BY <2>2, <4>1, PushedType
      <4> QED
        BY <2>1, <3>1, <4>1, <4>2 DEF Kept, Queued
    <3>2. CASE c \notin Attached
      BY <2>1, <3>2 DEF Queued
    <3> QED
      BY <3>1, <3>2
  <2>5. /\ mux'.relayed = PushedMux(screen, row).relayed
        /\ \/ Queued(PushedMux(screen, row).srv[c], mux'.srv[c])
              /\ (c \in ToSet(mux'.att) => c \in ToSet(PushedMux(screen, row).att))
           \/ Emptyhanded(mux'.srv[c]) /\ c \notin ToSet(mux'.att)
    BY <1>3, <2>1, PruneLeft
  <2> QED
    BY <2>3, <2>4, <2>5 DEF Queued, Attached
<1>7. CASE Exit
  <2>1. mux'.srv[c] = Detached /\ mux'.relayed = mux.relayed /\ mux'.att = <<>>
    BY <1>1, <1>7 DEF Exit, Muxes
  <2>2. c \notin ToSet(mux'.att)
    BY <2>1 DEF ToSet
  <2> QED
    BY <1>2, <2>1, <2>2 DEF Attached
<1> QED
  BY <1>4, <1>5, <1>6, <1>7

LEMMA RelayedOfLoop ==
  ASSUME Types, Settle \/ ExpireSilentClients \/ EndReplies \/ PushFrames \/ Exit
  PROVE  mux'.relayed = mux.relayed
<1>1. mux \in Muxes /\ loop \in Loops /\ panes \in Threads
  BY DEF Types
<1>2. CASE Settle
  <2> DEFINE k == [mux EXCEPT !.seenAlt = panes.alt]
             n == Each(k, LAMBDA s : Baseline(s, Len(s.last)))
  <2>1. mux' \in {mux, n}
    BY <1>2 DEF Settle
  <2>2. k \in Muxes /\ k.relayed = mux.relayed
    BY <1>1 DEF Muxes, Threads
  <2> HIDE DEF k
  <2>3. n = [k EXCEPT !.srv = n.srv]
    BY <2>2, EachRestart
  <2> HIDE DEF n
  <2> QED
    BY <2>1, <2>2, <2>3 DEF Muxes
<1>3. CASE ExpireSilentClients \/ EndReplies
  <2>1. \E gone : mux' = PruneDeadClients(mux, gone)
    BY <1>3 DEF ExpireSilentClients, EndReplies
  <2> QED
    BY <1>1, <2>1, PruneLeft DEF Left
<1>4. CASE PushFrames
  <2> DEFINE screen == Render(mux)
  <2>1. PICK row \in Nat : PushedMux(screen, row) \in Muxes
                          /\ mux' = PruneDeadClients(PushedMux(screen, row), DeadOf(screen, row))
    BY <1>4, PushIs
  <2> HIDE DEF screen
  <2>2. PushedMux(screen, row).relayed = mux.relayed
    BY <1>1 DEF PushedMux, Muxes
  <2> QED
    BY <2>1, <2>2, PruneLeft DEF Left
<1>5. CASE Exit
  BY <1>1, <1>5 DEF Exit, Muxes
<1> QED
  BY <1>2, <1>3, <1>4, <1>5

(* The larger of two.                                                         *)
LEMMA LaterOf ==
  ASSUME NEW m \in Nat, NEW n \in Nat
  PROVE  Max({m, n}) \in {m, n} /\ Max({m, n}) >= m /\ Max({m, n}) >= n
<1>1. \E x \in {m, n} : \A y \in {m, n} : x >= y
  OBVIOUS
<1> QED
  BY <1>1 DEF Max

LEMMA CopyInit == Init => CopyInv
<1> SUFFICES ASSUME Init PROVE CopyInv
  OBVIOUS
<1>1. \A c \in Clients : InFlight(c) = <<>> /\ peer[c].pasted = 0 /\ mux.srv[c].copy = 0
  <2>1. <<>> \in Seq(Message)
    OBVIOUS
  <2>2. \A c \in Clients : InFlight(c) = (<<>> \o <<>>) \o <<>>
    BY DEF Init, InFlight
  <2>3. (<<>> \o <<>>) \o <<>> = <<>>
    BY <2>1, ConcatEmptySeq
  <2> QED
    BY <2>2, <2>3 DEF Init, Detached
<1>2. panes.ticket = 1 /\ mux.relayed = 0 /\ loop.latest = 0 /\ loop.at = "receive"
      /\ \A p \in Panes : panes.slot[p] = 0 /\ panes.stamped[p] = 0
  BY DEF Init
<1>3. OrderInv
  BY <1>1, <1>2 DEF OrderInv, Sorted, Beyond
<1>4. PanesInv
  BY <1>2 DEF PanesInv, Fresh, Later
<1> QED
  BY <1>2, <1>3, <1>4 DEF CopyInv, PhaseInv

(* A ticket is newer than every copy there is.                                *)
LEMMA CopyOfPanes ==
  ASSUME Types, Types', CopyInv, NEW p \in Panes, PaneStamps(p) \/ PaneStores(p)
  PROVE  CopyInv'
<1>1. /\ panes \in Threads /\ panes.ticket \in Nat /\ loop.latest \in Nat /\ mux.relayed \in Nat
      /\ \A q \in Panes : panes.slot[q] \in Nat /\ panes.stamped[q] \in Nat
      /\ \A c \in Clients : mux.srv[c].copy \in Nat
  BY DEF Types, Threads, Loops, Muxes, Srv
<1>2. loop' = loop /\ mux' = mux /\ conn' = conn /\ peer' = peer
  BY DEF PaneStamps, PaneStores
<1>3. \A c \in Clients : InFlight(c)' = InFlight(c)
  BY <1>2 DEF InFlight
<1>4. PhaseInv'
  BY <1>2 DEF PhaseInv, CopyInv
<1>5. /\ panes'.ticket >= panes.ticket
      /\ \A q \in Panes : panes'.slot[q] \in {panes.slot[q], panes.stamped[q]}
                          /\ \/ panes'.stamped[q] \in {panes.stamped[q], 0}
                             \/ panes'.stamped[q] = panes.ticket /\ panes'.ticket = panes.ticket + 1
  <2>1. CASE PaneStamps(p)
    <3>1. panes' = [panes EXCEPT !.stamped = [panes.stamped EXCEPT ![p] = panes.ticket], !.ticket = panes.ticket + 1]
      BY <1>1, <2>1 DEF PaneStamps, Threads
    <3> QED
      BY <1>1, <3>1 DEF Threads
  <2>2. CASE PaneStores(p)
    <3>1. panes' = [panes EXCEPT !.slot = [panes.slot EXCEPT ![p] = panes.stamped[p]],
                                 !.stamped = [panes.stamped EXCEPT ![p] = 0]]
      BY <1>1, <2>2 DEF PaneStores, Threads
    <3> QED
      BY <1>1, <3>1 DEF Threads
  <2> QED
    BY <2>1, <2>2
<1>6. panes'.ticket \in Nat
  BY DEF Types, Threads
<1>7. OrderInv'
  <2> SUFFICES ASSUME NEW c \in Clients
               PROVE  /\ Sorted(peer[c], InFlight(c))'
                      /\ (mux.srv[c].copy # 0 => Beyond(mux.srv[c].copy, peer[c], InFlight(c)))'
                      /\ (Beyond(panes.ticket, peer[c], InFlight(c)) /\ mux.srv[c].copy < panes.ticket)'
    BY DEF OrderInv
  <2>1. /\ Sorted(peer[c], InFlight(c))
        /\ mux.srv[c].copy # 0 => Beyond(mux.srv[c].copy, peer[c], InFlight(c))
        /\ Beyond(panes.ticket, peer[c], InFlight(c)) /\ mux.srv[c].copy < panes.ticket
    BY DEF CopyInv, OrderInv
  <2>2. Beyond(panes'.ticket, peer[c], InFlight(c))
    <3>1. peer[c].pasted \in Nat
      BY DEF Types, Peer
    <3>2. InFlight(c) \in Seq(Message)
      BY LineType DEF Types, InFlight, Line
    <3>3. \A i \in DOMAIN InFlight(c) : InFlight(c)[i].t = "copy" => InFlight(c)[i].seq \in Nat
      BY <3>2 DEF Message, Frames, Reply, Copies, Bye
    <3> QED
      BY <1>1, <1>5, <1>6, <2>1, <3>1, <3>3 DEF Beyond
  <2>3. mux.srv[c].copy < panes'.ticket
    BY <1>1, <1>5, <1>6, <2>1
  <2> QED
    BY <1>2, <1>3, <2>1, <2>2, <2>3
<1>8. ASSUME NEW v \in Nat, v \in {panes.ticket, 0} \/ \E q \in Panes : v \in {panes.slot[q], panes.stamped[q]}
      PROVE  Fresh(v)' /\ (v = panes.ticket => Later(v)') /\ (v = 0 => Later(v)')
  <2>1. Fresh(v)
    BY <1>8 DEF CopyInv, OrderInv, PanesInv, Fresh
  <2>2. Fresh(v)'
    BY <1>2, <1>3, <2>1 DEF Fresh
  <2>3. v = panes.ticket => Later(v)
    BY <1>1 DEF Later, CopyInv, OrderInv
  <2>4. v = 0 => Later(v)
    BY DEF Later
  <2> QED
    BY <1>2, <2>2, <2>3, <2>4 DEF Later
<1>9. PanesInv'
  <2>1. (mux.relayed < panes.ticket /\ loop.latest < panes.ticket /\ Fresh(loop.latest))'
    <3>1. mux.relayed < panes.ticket /\ loop.latest < panes.ticket /\ Fresh(loop.latest)
      BY DEF CopyInv, PanesInv
    <3>2. mux.relayed < panes'.ticket /\ loop.latest < panes'.ticket
      BY <1>1, <1>5, <1>6, <3>1
    <3> QED
      BY <1>2, <1>3, <3>1, <3>2 DEF Fresh
  <2>2. ASSUME NEW q \in Panes
        PROVE  /\ (panes.slot[q] < panes.ticket /\ panes.stamped[q] < panes.ticket)'
               /\ Fresh(panes.slot[q])' /\ Fresh(panes.stamped[q])'
               /\ (Emptied(q) => Later(panes.slot[q]) /\ Later(panes.stamped[q]))'
    <3>1. PICK v \in Nat, w \in Nat : v = panes'.slot[q] /\ w = panes'.stamped[q]
      BY DEF Types, Threads
    <3>2. /\ v \in {panes.slot[q], panes.stamped[q]}
          /\ w \in {panes.stamped[q], 0} \/ (w = panes.ticket /\ panes'.ticket = panes.ticket + 1)
      BY <1>5, <3>1
    <3>3. Fresh(v)' /\ Fresh(w)' /\ (w = panes.ticket => Later(w)') /\ (w = 0 => Later(w)')
      BY <1>8, <3>2
    <3>4. panes.slot[q] < panes.ticket /\ panes.stamped[q] < panes.ticket
          /\ (Emptied(q) => Later(panes.slot[q]) /\ Later(panes.stamped[q]))
      BY DEF CopyInv, PanesInv
    <3>5. v < panes'.ticket /\ w < panes'.ticket
      <4>1. 0 < panes'.ticket
        BY DEF Types, Threads
      <4> QED
        BY <1>1, <1>5, <1>6, <3>2, <3>4, <4>1
    <3>6. Emptied(q)' => Emptied(q)
      BY <1>2 DEF Emptied
    <3>7. Emptied(q)' => Later(v)' /\ Later(w)'
      <4>1. Emptied(q)' => Later(v) /\ (w = panes.stamped[q] => Later(w))
        BY <3>2, <3>4, <3>6
      <4>2. Later(v) => Later(v)'
        BY <1>2 DEF Later
      <4>3. Later(w) => Later(w)'
        BY <1>2 DEF Later
      <4> QED
        BY <3>2, <3>3, <4>1, <4>2, <4>3
    <3>8. Fresh(panes.slot[q])' /\ Fresh(panes.stamped[q])'
      BY <3>1, <3>3 DEF Fresh
    <3>9. (Emptied(q) => Later(panes.slot[q]) /\ Later(panes.stamped[q]))'
      BY <3>1, <3>7 DEF Later
    <3>10. (panes.slot[q] < panes.ticket /\ panes.stamped[q] < panes.ticket)'
      BY <3>1, <3>5
    <3> QED
      BY <3>8, <3>9, <3>10
  <2> QED
    BY <2>1, <2>2 DEF PanesInv
<1> QED
  BY <1>4, <1>7, <1>9 DEF CopyInv

(* The copy a drag makes is the newest of all.                                *)
LEMMA CopyOfDrag ==
  ASSUME Types, Types', CopyInv, NEW d \in Clients, HandleDrag(d), \A c \in Clients : Tame(c)
  PROVE  CopyInv'
<1>1. /\ panes \in Threads /\ panes.ticket \in Nat /\ panes.ticket # 0 /\ loop.latest \in Nat /\ mux.relayed \in Nat
      /\ \A q \in Panes : panes.slot[q] \in Nat /\ panes.stamped[q] \in Nat
      /\ mux \in Muxes /\ \A c \in Clients : mux.srv[c] \in Srv /\ mux.srv[c].copy \in Nat
  BY DEF Types, Threads, Loops, Muxes, Srv
<1>2. /\ mux' = [mux EXCEPT !.srv = [mux.srv EXCEPT ![d] = QueueCopy(mux.srv[d], panes.ticket)]]
      /\ panes' = [panes EXCEPT !.ticket = panes.ticket + 1] /\ loop' = [loop EXCEPT !.dirty = TRUE]
      /\ loop.at = "receive" /\ peer' = peer
  BY <1>1 DEF HandleDrag, Dirtied, Taking
<1>3. panes'.ticket = panes.ticket + 1 /\ panes'.slot = panes.slot /\ panes'.stamped = panes.stamped
      /\ mux'.relayed = mux.relayed /\ mux'.srv = [mux.srv EXCEPT ![d] = QueueCopy(mux.srv[d], panes.ticket)]
  BY <1>1, <1>2 DEF Threads, Muxes
<1>4. loop'.at = "receive" /\ loop'.latest = loop.latest
  BY <1>2 DEF Types, Loops
<1>5. \A c \in Clients : mux'.srv[c].copy \in {mux.srv[c].copy, panes.ticket}
  <2>1. QueueCopy(mux.srv[d], panes.ticket).copy \in {mux.srv[d].copy, panes.ticket}
    BY <1>1 DEF QueueCopy, Srv
  <2> QED
    BY <1>1, <1>3, <2>1 DEF Muxes
<1>6. \A v \in Nat : Fresh(v) => Fresh(v)'
  BY <1>3 DEF Fresh, Tame
<1>7. OrderInv'
  <2> SUFFICES ASSUME NEW c \in Clients
               PROVE  /\ Sorted(peer[c], InFlight(c))'
                      /\ (mux.srv[c].copy # 0 => Beyond(mux.srv[c].copy, peer[c], InFlight(c)))'
                      /\ (Beyond(panes.ticket, peer[c], InFlight(c)) /\ mux.srv[c].copy < panes.ticket)'
    BY DEF OrderInv
  <2>1. /\ mux.srv[c].copy # 0 => Beyond(mux.srv[c].copy, peer[c], InFlight(c))
        /\ Beyond(panes.ticket, peer[c], InFlight(c)) /\ mux.srv[c].copy < panes.ticket
    BY DEF CopyInv, OrderInv
  <2>2. /\ mux.srv[c].copy # 0 => Beyond(mux.srv[c].copy, peer'[c], InFlight(c)')
        /\ Beyond(panes.ticket, peer'[c], InFlight(c)')
    BY <1>1, <2>1 DEF Tame
  <2>3. (mux.srv[c].copy # 0 => Beyond(mux.srv[c].copy, peer[c], InFlight(c)))'
    BY <1>5, <2>2
  <2>4. mux'.srv[c].copy < panes'.ticket
    BY <1>1, <1>3, <1>5, <2>1
  <2>5. Beyond(panes.ticket + 1, peer'[c], InFlight(c)')
    <3>1. peer'[c].pasted \in Nat
      BY DEF Types, Peer
    <3>2. InFlight(c)' \in Seq(Message)
      BY LineType DEF Types, InFlight, Line
    <3>3. \A i \in DOMAIN InFlight(c)' : InFlight(c)'[i].t = "copy" => InFlight(c)'[i].seq \in Nat
      BY <3>2 DEF Message, Frames, Reply, Copies, Bye
    <3> HIDE DEF InFlight
    <3> QED
      BY <1>1, <2>2, <3>1, <3>3 DEF Beyond
  <2> QED
    BY <1>3, <2>3, <2>4, <2>5 DEF Tame
<1>8. PanesInv'
  <2>1. mux.relayed < panes.ticket /\ loop.latest < panes.ticket /\ Fresh(loop.latest)
        /\ \A q \in Panes : /\ panes.slot[q] < panes.ticket /\ panes.stamped[q] < panes.ticket
                            /\ Fresh(panes.slot[q]) /\ Fresh(panes.stamped[q])
    BY DEF CopyInv, PanesInv
  <2>2. mux'.relayed < panes'.ticket /\ loop'.latest < panes'.ticket
        /\ \A q \in Panes : panes'.slot[q] < panes'.ticket /\ panes'.stamped[q] < panes'.ticket
    BY <1>1, <1>3, <1>4, <2>1
  <2>3. Fresh(loop.latest)'
    <3>1. PICK v \in Nat : v = loop.latest
      BY <1>1
    <3>2. Fresh(v)'
      BY <1>6, <2>1, <3>1
    <3> QED
      BY <1>4, <3>1, <3>2 DEF Fresh
  <2>4. ASSUME NEW q \in Panes PROVE Fresh(panes.slot[q])' /\ Fresh(panes.stamped[q])'
    <3>1. PICK v \in Nat, w \in Nat : v = panes.slot[q] /\ w = panes.stamped[q]
      BY <1>1
    <3>2. Fresh(v)' /\ Fresh(w)'
      BY <1>6, <2>1, <3>1
    <3> QED
      BY <1>3, <3>1, <3>2 DEF Fresh
  <2>5. \A q \in Panes : ~Emptied(q)'
    BY <1>4 DEF Emptied
  <2> QED
    BY <2>2, <2>3, <2>4, <2>5 DEF PanesInv
<1>9. PhaseInv'
  BY <1>2, <1>4 DEF PhaseInv, CopyInv
<1> QED
  BY <1>7, <1>8, <1>9 DEF CopyInv

(* The loop looks at one pane's slot: the newest copy it found so far is      *)
(* still newer than anything a client was sent.                               *)
LEMMA CopyOfTake ==
  ASSUME Types, Types', CopyInv, NEW p \in Panes, TakeClipboard(p)
  PROVE  CopyInv'
<1>1. /\ panes \in Threads /\ panes.ticket \in Nat \ {0} /\ loop \in Loops /\ loop.latest \in Nat
      /\ \A q \in Panes : panes.slot[q] \in Nat /\ panes.stamped[q] \in Nat
  BY DEF Types, Threads, Loops
<1>2. /\ mux' = mux /\ conn' = conn /\ peer' = peer
      /\ loop' = [loop EXCEPT !.unread = loop.unread \ {p}, !.latest = Max({loop.latest, panes.slot[p]})]
      /\ panes' = [panes EXCEPT !.slot = [panes.slot EXCEPT ![p] = 0]]
      /\ loop.at = "clipboard" /\ panes.stamped[p] = 0
  BY <1>1 DEF TakeClipboard, SlotFree
<1>3. /\ panes'.ticket = panes.ticket /\ panes'.stamped = panes.stamped
      /\ panes'.slot[p] = 0 /\ \A q \in Panes \ {p} : panes'.slot[q] = panes.slot[q]
      /\ loop'.latest \in {loop.latest, panes.slot[p]} /\ loop'.at = "clipboard" /\ loop'.kill = loop.kill
      /\ loop'.unread = loop.unread \ {p}
  BY <1>1, <1>2, LaterOf DEF Threads, Loops
<1>4. \A c \in Clients : InFlight(c)' = InFlight(c)
  BY <1>2 DEF InFlight
<1>5. OrderInv'
  BY <1>2, <1>3, <1>4 DEF OrderInv, CopyInv
<1>6. \A v \in Nat : (Fresh(v) => Fresh(v)') /\ (Later(v) => Later(v)')
  BY <1>2, <1>4 DEF Fresh, Later
<1>7. PanesInv'
  <2>1. mux.relayed < panes.ticket /\ loop.latest < panes.ticket /\ Fresh(loop.latest)
        /\ \A q \in Panes : /\ panes.slot[q] < panes.ticket /\ panes.stamped[q] < panes.ticket
                            /\ Fresh(panes.slot[q]) /\ Fresh(panes.stamped[q])
                            /\ Emptied(q) => Later(panes.slot[q]) /\ Later(panes.stamped[q])
    BY DEF CopyInv, PanesInv
  <2>2. mux'.relayed < panes'.ticket /\ loop'.latest < panes'.ticket
    BY <1>2, <1>3, <2>1
  <2>3. Fresh(loop.latest)'
    <3>1. PICK v \in Nat : v = loop'.latest
      BY <1>1, <1>3
    <3>2. Fresh(v)
      BY <1>3, <2>1, <3>1
    <3>3. Fresh(v)'
      BY <1>6, <3>2
    <3> QED
      BY <3>1, <3>3 DEF Fresh
  <2>4. ASSUME NEW q \in Panes
        PROVE  /\ (panes.slot[q] < panes.ticket /\ panes.stamped[q] < panes.ticket)'
               /\ Fresh(panes.slot[q])' /\ Fresh(panes.stamped[q])'
               /\ (Emptied(q) => Later(panes.slot[q]) /\ Later(panes.stamped[q]))'
    <3>1. PICK v \in Nat, w \in Nat : v = panes'.slot[q] /\ w = panes'.stamped[q]
      BY <1>1, <1>3
    <3>2. v \in {panes.slot[q], 0} /\ w = panes.stamped[q] /\ (q = p => v = 0 /\ w = 0)
      BY <1>2, <1>3, <3>1
    <3>3. Fresh(0) /\ Later(0)
      BY DEF Fresh, Later
    <3>4. Fresh(v)' /\ Fresh(w)'
      BY <1>6, <2>1, <3>2, <3>3
    <3>5. Emptied(q)' => Later(v)' /\ Later(w)'
      <4>1. q # p /\ Emptied(q)' => Emptied(q)
        BY <1>2, <1>3 DEF Emptied
      <4> QED
        BY <1>6, <2>1, <3>2, <3>3, <4>1
    <3>6. v < panes.ticket /\ w < panes.ticket
      BY <1>1, <2>1, <3>2
    <3>7. Fresh(panes.slot[q])' /\ Fresh(panes.stamped[q])'
      BY <3>1, <3>4 DEF Fresh
    <3>8. (Emptied(q) => Later(panes.slot[q]) /\ Later(panes.stamped[q]))'
      BY <3>1, <3>5 DEF Later
    <3> QED
      BY <1>3, <3>1, <3>6, <3>7, <3>8
  <2> QED
    BY <2>2, <2>3, <2>4 DEF PanesInv
<1>8. PhaseInv'
  BY <1>2, <1>3 DEF PhaseInv, CopyInv
<1> QED
  BY <1>5, <1>7, <1>8 DEF CopyInv

(* From the clipboard on, every phase the loop can be in next is one in which *)
(* each slot was looked at, or the pass is over.                              *)
LEMMA CopyOfRelay ==
  ASSUME Types, Types', CopyInv, RelayClipboard
  PROVE  CopyInv'
<1>1. /\ panes \in Threads /\ panes.ticket \in Nat \ {0} /\ loop \in Loops /\ loop.latest \in Nat
      /\ \A q \in Panes : panes.slot[q] \in Nat /\ panes.stamped[q] \in Nat
      /\ mux \in Muxes /\ mux.relayed \in Nat /\ \A c \in Clients : mux.srv[c].copy \in Nat /\ mux.srv[c] \in Srv
  BY DEF Types, Threads, Loops, Muxes, Srv
<1> DEFINE n == Each([mux EXCEPT !.relayed = loop.latest], LAMBDA s : QueueCopy(s, loop.latest))
           l == [loop EXCEPT !.latest = 0]
<1>2. /\ mux' = IF loop.latest <= mux.relayed THEN mux ELSE n
      /\ loop' = ToExpire(l, mux') /\ loop.at = "clipboard" /\ loop.unread = {}
      /\ conn' = conn /\ peer' = peer /\ panes' = panes
  BY DEF RelayClipboard
<1>3. /\ n \in Muxes /\ n = [mux EXCEPT !.srv = n.srv, !.relayed = loop.latest]
      /\ \A c \in Clients :
           n.srv[c] = [mux.srv[c] EXCEPT !.copy = IF c \in ToSet(mux.att) /\ loop.latest > mux.srv[c].copy
                                                  THEN loop.latest ELSE mux.srv[c].copy]
  BY <1>1, EachCopy
<1>4. l \in Loops /\ l.kill = loop.kill /\ l.latest = 0
  BY <1>1 DEF Loops
<1>5. mux' \in Muxes
  BY DEF Types
<1> HIDE DEF n, l
<1>6. loop'.latest = 0 /\ loop'.kill = loop.kill
      /\ loop'.at \in {"expire", "replies", "copies", "frames", "receive"}
  <2> DEFINE e == ToExpire(l, mux')
  <2>1. /\ e = [l EXCEPT !.at = e.at, !.todo = e.todo, !.dead = e.dead]
        /\ e.at \in {"expire", "replies", "copies", "frames", "receive"}
    BY <1>4, <1>5, ExpireNext
  <2> HIDE DEF e
  <2>2. e.latest = l.latest /\ e.kill = l.kill
    BY <1>4, <2>1 DEF Loops
  <2> QED
    BY <1>2, <1>4, <2>1, <2>2 DEF e
<1>7. n.relayed = loop.latest
      /\ \A c \in Clients : n.srv[c].copy \in {mux.srv[c].copy, loop.latest}
  <2>1. n.relayed = loop.latest
    BY <1>1, <1>3 DEF Muxes
  <2>2. ASSUME NEW c \in Clients
        PROVE  n.srv[c].copy \in {mux.srv[c].copy, loop.latest}
    <3>1. mux.srv[c] \in Srv
      BY <1>1 DEF Muxes
    <3> QED
      BY <1>3, <3>1 DEF Srv
  <2> QED
    BY <2>1, <2>2
<1>8. mux'.relayed \in Nat /\ mux'.relayed >= mux.relayed /\ mux'.relayed >= loop.latest
      /\ mux'.relayed \in {mux.relayed, loop.latest}
  BY <1>1, <1>2, <1>7
<1>9. \A c \in Clients : \/ mux'.srv[c].copy = mux.srv[c].copy
                         \/ mux'.srv[c].copy = loop.latest /\ loop.latest > mux.relayed
  BY <1>1, <1>2, <1>7
<1>10. \A c \in Clients : InFlight(c)' = InFlight(c)
  BY <1>2 DEF InFlight
<1>11. OrderInv'
  <2> SUFFICES ASSUME NEW c \in Clients
               PROVE  /\ Sorted(peer[c], InFlight(c))'
                      /\ (mux.srv[c].copy # 0 => Beyond(mux.srv[c].copy, peer[c], InFlight(c)))'
                      /\ (Beyond(panes.ticket, peer[c], InFlight(c)) /\ mux.srv[c].copy < panes.ticket)'
    BY DEF OrderInv
  <2>1. /\ Sorted(peer[c], InFlight(c))
        /\ mux.srv[c].copy # 0 => Beyond(mux.srv[c].copy, peer[c], InFlight(c))
        /\ Beyond(panes.ticket, peer[c], InFlight(c)) /\ mux.srv[c].copy < panes.ticket
    BY DEF CopyInv, OrderInv
  <2>2. Fresh(loop.latest) /\ loop.latest < panes.ticket
    BY DEF CopyInv, PanesInv
  <2>3. loop.latest > mux.relayed => Beyond(loop.latest, peer[c], InFlight(c))
    BY <1>1, <2>2 DEF Fresh
  <2>4. mux'.srv[c].copy # 0 => Beyond(mux'.srv[c].copy, peer[c], InFlight(c))
    BY <1>9, <2>1, <2>3
  <2>5. mux'.srv[c].copy < panes.ticket
    BY <1>9, <2>1, <2>2
  <2> QED
    BY <1>2, <1>10, <2>1, <2>4, <2>5
<1>12. ASSUME NEW v \in Nat, Fresh(v) PROVE Fresh(v)'
  BY <1>1, <1>2, <1>8, <1>10, <1>12 DEF Fresh
<1>13. ASSUME NEW v \in Nat, Later(v) PROVE Later(v)'
  <2>1. CASE v = 0 \/ v <= mux.relayed \/ v <= loop.latest
    BY <1>1, <1>8, <2>1 DEF Later
  <2>2. CASE v > loop.latest /\ \A c \in Clients : v > mux.srv[c].copy
    <3>1. \A c \in Clients : v > mux'.srv[c].copy
      BY <1>9, <2>2
    <3> QED
      BY <3>1 DEF Later
  <2> QED
    BY <1>1, <1>13, <2>1, <2>2 DEF Later
<1>14. PanesInv'
  <2>1. mux.relayed < panes.ticket /\ loop.latest < panes.ticket
        /\ \A q \in Panes : /\ panes.slot[q] < panes.ticket /\ panes.stamped[q] < panes.ticket
                            /\ Fresh(panes.slot[q]) /\ Fresh(panes.stamped[q])
                            /\ Emptied(q) /\ Later(panes.slot[q]) /\ Later(panes.stamped[q])
    BY <1>2 DEF CopyInv, PanesInv, Emptied
  <2>2. mux'.relayed < panes'.ticket /\ loop'.latest < panes'.ticket
    BY <1>1, <1>2, <1>6, <1>8, <2>1
  <2>3. Fresh(loop.latest)'
    BY <1>6 DEF Fresh
  <2>4. ASSUME NEW q \in Panes
        PROVE  /\ (panes.slot[q] < panes.ticket /\ panes.stamped[q] < panes.ticket)'
               /\ Fresh(panes.slot[q])' /\ Fresh(panes.stamped[q])'
               /\ Later(panes.slot[q])' /\ Later(panes.stamped[q])'
    <3>1. PICK v \in Nat, w \in Nat : v = panes.slot[q] /\ w = panes.stamped[q]
      BY <1>1
    <3>2. Fresh(v)' /\ Fresh(w)' /\ Later(v)' /\ Later(w)'
      BY <1>12, <1>13, <2>1, <3>1
    <3>3. Fresh(panes.slot[q])' /\ Fresh(panes.stamped[q])'
      BY <1>2, <3>1, <3>2 DEF Fresh
    <3>4. Later(panes.slot[q])' /\ Later(panes.stamped[q])'
      BY <1>2, <3>1, <3>2 DEF Later
    <3> QED
      BY <1>2, <2>1, <3>3, <3>4
  <2> QED
    BY <2>2, <2>3, <2>4 DEF PanesInv
<1>15. PhaseInv'
  BY <1>2, <1>6 DEF PhaseInv, CopyInv
<1> QED
  BY <1>11, <1>14, <1>15 DEF CopyInv

(* The copy a client is sent is newer than what it was sent, and whatever the *)
(* panes have is newer still.                                                 *)
LEMMA CopyOfCopies ==
  ASSUME Types, Types', CopyInv, SendCopies
  PROVE  CopyInv'
<1>1. /\ panes \in Threads /\ panes.ticket \in Nat \ {0} /\ loop \in Loops /\ loop.latest \in Nat
      /\ \A q \in Panes : panes.slot[q] \in Nat /\ panes.stamped[q] \in Nat
      /\ mux \in Muxes /\ mux.relayed \in Nat /\ \A c \in Clients : mux.srv[c].copy \in Nat /\ mux.srv[c] \in Srv
  BY DEF Types, Threads, Loops, Muxes, Srv
<1> DEFINE copying == {c \in Attached : mux.srv[c].copy # 0}
           dead == {c \in copying : WriterGone(c)}
           sent == {c \in copying : Accepts(c)}
           srv == [c \in Clients |-> IF c \in sent THEN [mux.srv[c] EXCEPT !.copy = 0] ELSE mux.srv[c]]
           k == [mux EXCEPT !.srv = srv]
<1>2. mux' = PruneDeadClients(k, dead) /\ loop' = ToFrames(loop) /\ panes' = panes /\ loop.at = "copies"
      /\ peer' = peer
  BY DEF SendCopies
<1>3. srv \in [Clients -> Srv]
  <2> HIDE DEF sent
  <2> QED
    BY <1>1 DEF Srv
<1>4. k \in Muxes /\ k.srv = srv /\ k.relayed = mux.relayed
  <2> HIDE DEF srv
  <2> QED
    BY <1>1, <1>3 DEF Muxes
<1>5. \A c \in Clients : k.srv[c].copy = IF c \in sent THEN 0 ELSE mux.srv[c].copy
  <2> HIDE DEF sent, k
  <2> QED
    BY <1>1, <1>4 DEF Srv
<1>6. Left(k, mux', dead)
  <2> HIDE DEF k, dead
  <2> QED
    BY <1>2, <1>4, PruneLeft
<1>7. mux'.relayed = mux.relayed
      /\ \A c \in Clients : mux'.srv[c].copy \in {0, mux.srv[c].copy} /\ (c \in sent => mux'.srv[c].copy = 0)
  <2>1. Detached.copy = 0
    BY DEF Detached
  <2> HIDE DEF k, dead, sent
  <2>2. \A c \in Clients : mux'.srv[c].copy = 0 \/ mux'.srv[c].copy = k.srv[c].copy
    BY <1>6, <2>1 DEF Left, Kept
  <2> QED
    BY <1>4, <1>5, <1>6, <2>2 DEF Left
<1>8. loop'.at \in {"frames", "receive"} /\ loop'.latest = loop.latest /\ loop'.kill = loop.kill
  BY <1>1, <1>2, FramesNext DEF Loops
<1>9. \A c \in Clients : /\ peer[c] \in Peer /\ conn[c] \in Conn /\ InFlight(c) = Line(conn[c])
                         /\ InFlight(c) \in Seq(Message)
  BY LineType DEF Types, InFlight, Line
<1>10. ASSUME NEW c \in Clients
       PROVE  \/ Tame(c)
              \/ /\ c \in sent /\ mux.srv[c].copy # 0
                 /\ Sends(c, [t |-> "copy", seq |-> mux.srv[c].copy])
  <2>1. Sorted(peer[c], InFlight(c))
    BY DEF CopyInv, OrderInv
  <2>2. Bye \in Message /\ Bye.t # "copy"
    BY DEF Message, Bye
  <2> QED
    BY <2>1, <2>2, LineOfCopies, TameStep
<1> HIDE DEF sent, k, dead
<1>11. ASSUME NEW c \in Clients, mux.srv[c].copy # 0, Sends(c, [t |-> "copy", seq |-> mux.srv[c].copy])
       PROVE  /\ Sorted(peer'[c], InFlight(c)')
              /\ \A v \in Nat : v > mux.srv[c].copy /\ Beyond(v, peer[c], InFlight(c)) => Beyond(v, peer'[c], InFlight(c)')
  <2> DEFINE msgs == InFlight(c)
             seq == mux.srv[c].copy
             msg == [t |-> "copy", seq |-> seq]
             more == Append(msgs, msg)
  <2>1. InFlight(c)' = more /\ peer'[c] = peer[c]
    BY <1>11 DEF Sends
  <2>2. Sorted(peer[c], msgs) /\ Beyond(seq, peer[c], msgs)
    BY <1>11 DEF CopyInv, OrderInv
  <2>3. seq \in Nat /\ msgs \in Seq(Message) /\ msg \in Message
    BY <1>1, <1>9, <1>11 DEF Message, Copies
  <2> HIDE DEF msgs, seq, msg
  <2>4. /\ \A i \in DOMAIN more : (i \in DOMAIN msgs /\ more[i] = msgs[i]) \/ (i = Len(msgs) + 1 /\ more[i] = msg)
        /\ \A i \in DOMAIN msgs : i < Len(msgs) + 1 /\ ~(Len(msgs) + 1 < i)
    <3>1. /\ Len(msgs) \in Nat /\ DOMAIN msgs = 1 .. Len(msgs) /\ more \in Seq(Message)
          /\ Len(more) = Len(msgs) + 1 /\ DOMAIN more = 1 .. Len(more)
          /\ more[Len(msgs) + 1] = msg /\ \A i \in 1 .. Len(msgs) : more[i] = msgs[i]
      BY <2>3
    <3> HIDE DEF more
    <3> QED
      BY <3>1
  <2>5. msg.t = "copy" /\ msg.seq = seq /\ ~(Len(msgs) + 1 < Len(msgs) + 1)
    BY <2>3 DEF msg
  <2> HIDE DEF more
  <2>6. Sorted(peer[c], more)
    BY <2>2, <2>3, <2>4, <2>5 DEF Sorted, Beyond
  <2>7. \A v \in Nat : v > seq /\ Beyond(v, peer[c], msgs) => Beyond(v, peer[c], more)
    BY <2>4, <2>5 DEF Beyond
  <2> QED
    BY <2>1, <2>6, <2>7 DEF msgs, seq
<1>12. ASSUME NEW c \in Clients
       PROVE  /\ Sorted(peer'[c], InFlight(c)')
              /\ \A v \in Nat : v > mux.srv[c].copy /\ Beyond(v, peer[c], InFlight(c)) => Beyond(v, peer'[c], InFlight(c)')
              /\ c \notin sent => \A v \in Nat : Beyond(v, peer[c], InFlight(c)) => Beyond(v, peer'[c], InFlight(c)')
  BY <1>10, <1>11 DEF Tame
<1>13. OrderInv'
  <2> SUFFICES ASSUME NEW c \in Clients
               PROVE  /\ Sorted(peer[c], InFlight(c))'
                      /\ (mux.srv[c].copy # 0 => Beyond(mux.srv[c].copy, peer[c], InFlight(c)))'
                      /\ (Beyond(panes.ticket, peer[c], InFlight(c)) /\ mux.srv[c].copy < panes.ticket)'
    BY DEF OrderInv
  <2>1. /\ mux.srv[c].copy # 0 => Beyond(mux.srv[c].copy, peer[c], InFlight(c))
        /\ Beyond(panes.ticket, peer[c], InFlight(c)) /\ mux.srv[c].copy < panes.ticket
    BY DEF CopyInv, OrderInv
  <2>2. mux'.srv[c].copy # 0 => Beyond(mux'.srv[c].copy, peer'[c], InFlight(c)')
    BY <1>1, <1>7, <1>12, <2>1
  <2>3. Beyond(panes.ticket, peer'[c], InFlight(c)')
    BY <1>1, <1>12, <2>1
  <2>4. mux'.srv[c].copy < panes.ticket
    BY <1>1, <1>7, <2>1
  <2> QED
    BY <1>2, <1>12, <2>2, <2>3, <2>4
<1>14. ASSUME NEW v \in Nat, Fresh(v), Later(v) PROVE Fresh(v)'
  BY <1>7, <1>12, <1>14 DEF Fresh, Later
<1>15. PanesInv'
  <2>1. /\ mux.relayed < panes.ticket /\ loop.latest < panes.ticket /\ loop.latest = 0
        /\ \A q \in Panes : /\ panes.slot[q] < panes.ticket /\ panes.stamped[q] < panes.ticket
                            /\ Fresh(panes.slot[q]) /\ Fresh(panes.stamped[q])
                            /\ Later(panes.slot[q]) /\ Later(panes.stamped[q])
    BY <1>2 DEF CopyInv, PanesInv, PhaseInv, Emptied
  <2>2. Fresh(loop.latest)'
    BY <1>8, <2>1 DEF Fresh
  <2>3. ASSUME NEW q \in Panes PROVE Fresh(panes.slot[q])' /\ Fresh(panes.stamped[q])'
    <3>1. PICK v \in Nat, w \in Nat : v = panes.slot[q] /\ w = panes.stamped[q]
      BY <1>1
    <3>2. Fresh(v)' /\ Fresh(w)'
      BY <1>14, <2>1, <3>1
    <3> QED
      BY <1>2, <3>1, <3>2 DEF Fresh
  <2>4. \A q \in Panes : ~Emptied(q)'
    BY <1>8 DEF Emptied
  <2> QED
    BY <1>2, <1>7, <1>8, <2>1, <2>2, <2>3, <2>4 DEF PanesInv
<1>16. PhaseInv'
  BY <1>2, <1>8 DEF PhaseInv, CopyInv
<1> QED
  BY <1>13, <1>15, <1>16 DEF CopyInv

LEMMA CopyStep == Types /\ Types' /\ WiredInv /\ CopyInv /\ [Next]_vars => CopyInv'
<1> SUFFICES ASSUME Types, Types', WiredInv, CopyInv, [Next]_vars PROVE CopyInv'
  OBVIOUS
<1>1. /\ loop \in Loops /\ mux \in Muxes /\ panes \in Threads
      /\ \A c \in Clients : Sorted(peer[c], InFlight(c))
  BY DEF Types, CopyInv, OrderInv
<1>2. Bye \in Message /\ Bye.t # "copy"
  BY DEF Message, Bye
<1>3. ASSUME \A c \in Clients : Still(c) \/ Reads(c) \/ Drops(c) \/ Sends(c, Bye)
      PROVE  \A c \in Clients : Tame(c)
  BY <1>1, <1>2, <1>3, TameStep
<1>4. ASSUME \A c \in Clients : Still(c) \/ Reads(c) \/ Drops(c) \/ Sends(c, Bye), mux' = mux,
             loop'.at = loop.at, loop'.kill = loop.kill, loop'.latest = loop.latest, loop'.unread = loop.unread,
             panes'.ticket = panes.ticket, panes'.slot = panes.slot, panes'.stamped = panes.stamped
      PROVE  CopyInv'
  <2>1. \A p \in Panes : Emptied(p)' => Emptied(p)
    BY <1>4 DEF Emptied
  <2>2. PhaseInv'
    BY <1>4 DEF PhaseInv, CopyInv
  <2> QED
    BY <1>3, <1>4, <2>1, <2>2, CopiesUntouched
(* a step of the loop that ends a phase                                       *)
<1>5. ASSUME \A c \in Clients : Still(c) \/ Reads(c) \/ Drops(c) \/ Sends(c, Bye),
             \A c \in Clients : Queued(mux.srv[c], mux'.srv[c]) \/ Emptyhanded(mux'.srv[c]),
             mux'.relayed = mux.relayed, panes'.ticket = panes.ticket, panes'.slot = panes.slot,
             panes'.stamped = panes.stamped, loop'.latest \in {0, loop.latest},
             \A p \in Panes : Emptied(p)' => Emptied(p), PhaseInv'
      PROVE  CopyInv'
  <2>1. \A c \in Clients : mux'.srv[c].copy \in {0, mux.srv[c].copy}
    BY <1>5 DEF Queued, Emptyhanded
  <2> QED
    BY <1>3, <1>5, <2>1, CopiesUntouched
<1>6. CASE UNCHANGED vars
  BY <1>4, <1>6 DEF vars, Still, InFlight
<1>7. ASSUME NEW d \in Clients,
             PeerAttaches(d) \/ PeerSays(d) \/ PeerReads(d) \/ PeerSeesEof(d) \/ PeerDies(d)
             \/ PeerHangs(d) \/ PeerResumes(d) \/ LinkBreaks(d) \/ ReaderEnds(d) \/ ResyncDue(d)
      PROVE  CopyInv'
  <2>1. \A c \in Clients : Still(c) \/ Reads(c)
    BY <1>7, LineOfClients
  <2>2. mux' = mux /\ panes' = panes /\ (loop' = loop \/ loop' = [loop EXCEPT !.due = loop'.due])
    <3>1. CASE ResyncDue(d)
      <4>1. loop' = [loop EXCEPT !.due = loop.due \cup {d}]
        BY <3>1 DEF ResyncDue
      <4>2. loop'.due = loop.due \cup {d}
        BY <1>1, <4>1 DEF Loops
      <4> QED
        BY <3>1, <4>1, <4>2 DEF ResyncDue
    <3> QED
      BY <1>7, <3>1 DEF PeerAttaches, PeerSays, PeerReads, PeerSeesEof, PeerDies, PeerHangs, PeerResumes, PeerState,
         LinkBreaks, ReaderEnds
  <2>3. loop'.at = loop.at /\ loop'.kill = loop.kill /\ loop'.latest = loop.latest /\ loop'.unread = loop.unread
    BY <1>1, <2>2 DEF Loops
  <2> QED
    BY <1>4, <2>1, <2>2, <2>3
<1>8. ASSUME NEW d \in Clients, Writer(d) PROVE CopyInv'
  <2>1. \A c \in Clients : Still(c) \/ Drops(c)
    BY <1>8, LineOfWriters DEF WiredInv
  <2>2. mux' = mux /\ loop' = loop /\ panes' = panes
    BY <1>8 DEF Writer, WriterSends, WriterBlocks, WriterResumes, WriterEnds
  <2> QED
    BY <1>4, <2>1, <2>2
<1>9. ASSUME NEW d \in Clients, HandleIncoming(d) PROVE CopyInv'
  <2>1. \A c \in Clients : Still(c) \/ Sends(c, Bye)
    BY <1>9, LineOfHandlers
  <2>2. CASE HandleDrag(d)
    BY <1>3, <2>1, <2>2, CopyOfDrag
  <2>3. CASE ~HandleDrag(d)
    <3>1. /\ mux'.relayed = mux.relayed /\ loop.at = "receive" /\ loop'.at = "receive"
          /\ loop'.latest = loop.latest
          /\ \A c \in Clients : mux'.srv[c].copy \in {0, mux.srv[c].copy}
      BY <1>9, <2>3, QueuesOfHandlers DEF Queued, Emptyhanded
    <3>2. panes' = panes
      BY <1>9, <2>3 DEF HandleIncoming, HandleAttach, HandleStale, HandleEnv, HandleChord, HandleRedraw,
         HandleResize, HandleDetach, HandleDisconnect, HandleCommand, HandleKillServer, HandlePing, Answered
    <3>3. \A p \in Panes : Emptied(p)' => Emptied(p)
      BY <3>1 DEF Emptied
    <3>4. PhaseInv'
      BY <3>1 DEF PhaseInv, CopyInv
    <3> QED
      BY <1>3, <2>1, <3>1, <3>2, <3>3, <3>4, CopiesUntouched
  <2> QED
    BY <2>2, <2>3
<1>10. ASSUME NEW p \in Panes, PaneStamps(p) \/ PaneStores(p) PROVE CopyInv'
  BY <1>10, CopyOfPanes
<1>11. CASE PaneDraws \/ PaneWakes \/ LastShellExits \/ DeadlinePasses
  <2>1. \A c \in Clients : Still(c) \/ Sends(c, Bye)
    BY <1>11, LineOfLoop
  <2>2. CASE PaneDraws \/ PaneWakes
    BY <1>1, <1>4, <2>1, <2>2 DEF PaneDraws, PaneWakes, Threads
  <2>3. CASE LastShellExits
    <3>1. loop' = [loop EXCEPT !.at = "exit"] /\ mux' = mux /\ panes' = panes /\ loop.at = "receive"
      BY <2>3 DEF LastShellExits
    <3>2. loop'.at = "exit" /\ loop'.latest = loop.latest
      BY <1>1, <3>1 DEF Loops
    <3>3. \A p \in Panes : Emptied(p)' => Emptied(p)
      BY <3>2 DEF Emptied
    <3>4. PhaseInv'
      BY <3>1, <3>2 DEF PhaseInv, CopyInv
    <3> QED
      BY <1>5, <2>1, <3>1, <3>2, <3>3, <3>4 DEF Queued
  <2>4. CASE DeadlinePasses
    <3>1. loop' = [loop EXCEPT !.late = TRUE] /\ mux' = mux /\ panes' = panes
      BY <2>4 DEF DeadlinePasses
    <3> QED
      BY <1>1, <1>4, <2>1, <3>1 DEF Loops
  <2> QED
    BY <1>11, <2>2, <2>3, <2>4
<1>12. CASE Settle
  <2>1. \A c \in Clients : Still(c) \/ Sends(c, Bye)
    BY <1>12, LineOfLoop
  <2>2. panes' = [panes EXCEPT !.woken = FALSE] /\ loop.at = "receive" /\ ~loop.kill
    BY <1>12 DEF Settle
  <2>3. loop'.latest = loop.latest /\ loop'.kill = loop.kill
        /\ (Panes # {} => loop'.at = "clipboard" /\ loop'.unread = Panes)
        /\ (Panes = {} => loop'.at # "clipboard")
    <3>1. PICK dirty \in BOOLEAN :
               loop' = IF Panes = {} THEN ToExpire([loop EXCEPT !.unread = Panes, !.dirty = dirty], mux')
                       ELSE [[loop EXCEPT !.unread = Panes, !.dirty = dirty] EXCEPT !.at = "clipboard"]
      <4> DEFINE dirty(m) == \/ loop.dirty \/ panes.woken \/ loop.due \cap Attached # {}
                             \/ \E c \in Attached : m.srv[c].needsFull \/ m.srv[c].pending
      <4>1. loop' = IF Panes = {} THEN ToExpire([loop EXCEPT !.unread = Panes, !.dirty = dirty(mux')], mux')
                    ELSE [[loop EXCEPT !.unread = Panes, !.dirty = dirty(mux')] EXCEPT !.at = "clipboard"]
        BY <1>12 DEF Settle
      <4>2. dirty(mux') \in BOOLEAN
        BY <1>1 DEF Loops, Threads
      <4> HIDE DEF dirty
      <4> QED
        BY <4>1, <4>2
    <3> DEFINE l == [loop EXCEPT !.unread = Panes, !.dirty = dirty]
               e == ToExpire(l, mux')
    <3>2. l \in Loops /\ l.latest = loop.latest /\ l.kill = loop.kill /\ l.unread = Panes
      BY <1>1 DEF Loops
    <3>3. loop' = IF Panes = {} THEN e ELSE [l EXCEPT !.at = "clipboard"]
      BY <3>1
    <3>4. mux' \in Muxes
      BY DEF Types
    <3> HIDE DEF l
    <3>5. e = [l EXCEPT !.at = e.at, !.todo = e.todo, !.dead = e.dead]
          /\ e.at \in {"expire", "replies", "copies", "frames", "receive"}
      BY <3>2, <3>4, ExpireNext
    <3> HIDE DEF e
    <3>6. CASE Panes = {}
      BY <3>2, <3>3, <3>5, <3>6 DEF Loops
    <3>7. CASE Panes # {}
      BY <3>2, <3>3, <3>7 DEF Loops
    <3> QED
      BY <3>6, <3>7
  <2>4. \A p \in Panes : ~Emptied(p)'
    BY <2>3 DEF Emptied
  <2>5. PhaseInv'
    BY <2>2, <2>3 DEF PhaseInv, CopyInv
  <2>6. panes'.ticket = panes.ticket /\ panes'.slot = panes.slot /\ panes'.stamped = panes.stamped
    BY <1>1, <2>2 DEF Threads
  <2> QED
    BY <1>5, <1>12, <2>1, <2>3, <2>4, <2>5, <2>6, QueuesOfLoop, RelayedOfLoop
<1>13. ASSUME NEW p \in Panes, TakeClipboard(p) PROVE CopyInv'
  BY <1>13, CopyOfTake
<1>14. CASE RelayClipboard
  BY <1>14, CopyOfRelay
<1>15. CASE SendCopies
  BY <1>15, CopyOfCopies
<1>16. CASE ExpireSilentClients
  <2>1. \A c \in Clients : Still(c) \/ Sends(c, Bye)
    BY <1>16, LineOfLoop
  <2>2. PICK dirty \in BOOLEAN : loop' = ToReplies([loop EXCEPT !.dirty = dirty], mux')
    <3>1. PICK silent : mux' = PruneDeadClients(mux, silent)
               /\ loop' = ToReplies([loop EXCEPT !.dirty = @ \/ silent # {}], PruneDeadClients(mux, silent))
      BY <1>16 DEF ExpireSilentClients
    <3> DEFINE dirty == loop.dirty \/ silent # {}
    <3>2. loop' = ToReplies([loop EXCEPT !.dirty = dirty], mux') /\ dirty \in BOOLEAN
      BY <1>1, <3>1 DEF Loops
    <3> HIDE DEF dirty
    <3> QED
      BY <3>2
  <2>3. loop.at = "expire" /\ panes' = panes
    BY <1>16 DEF ExpireSilentClients
  <2> DEFINE l == [loop EXCEPT !.dirty = dirty]
             e == ToReplies(l, mux')
  <2>4. l \in Loops /\ l.latest = loop.latest /\ l.kill = loop.kill /\ mux' \in Muxes
    BY <1>1 DEF Loops, Types
  <2> HIDE DEF l
  <2>5. e = [l EXCEPT !.at = e.at, !.todo = e.todo, !.dead = e.dead]
        /\ e.at \in {"replies", "copies", "frames", "receive"}
    BY <2>4, RepliesNext
  <2>6. loop' = e
    BY <2>2 DEF l
  <2> HIDE DEF e
  <2>7. loop'.latest = loop.latest /\ loop'.kill = loop.kill /\ loop'.at \in {"replies", "copies", "frames", "receive"}
    BY <2>4, <2>5, <2>6 DEF Loops
  <2>8. \A p \in Panes : Emptied(p)' => Emptied(p)
    BY <2>3 DEF Emptied
  <2>9. PhaseInv'
    BY <2>3, <2>7 DEF PhaseInv, CopyInv
  <2> QED
    BY <1>5, <1>16, <2>1, <2>3, <2>7, <2>8, <2>9, QueuesOfLoop, RelayedOfLoop
<1>17. CASE EndReplies
  <2>1. \A c \in Clients : Still(c) \/ Sends(c, Bye)
    BY <1>17, LineOfLoop
  <2> DEFINE l == [loop EXCEPT !.dead = {}]
             e == ToCopies(l, mux')
  <2>2. loop.at = "replies" /\ panes' = panes /\ loop' = IF loop.kill THEN [l EXCEPT !.at = "flush"] ELSE e
    BY <1>17 DEF EndReplies
  <2>3. l \in Loops /\ l.latest = loop.latest /\ l.kill = loop.kill
    BY <1>1 DEF Loops
  <2> HIDE DEF l
  <2>4. e = [l EXCEPT !.at = e.at] /\ e.at \in {"copies", "frames", "receive"}
    BY <2>3, CopiesNext
  <2> HIDE DEF e
  <2>5. /\ loop'.latest = loop.latest /\ loop'.kill = loop.kill
        /\ loop'.at = "flush" \/ (~loop.kill /\ loop'.at \in {"copies", "frames", "receive"})
    BY <2>2, <2>3, <2>4 DEF Loops
  <2>6. \A p \in Panes : Emptied(p)' => Emptied(p)
    BY <2>2, <2>5 DEF Emptied
  <2>7. PhaseInv'
    BY <2>2, <2>5 DEF PhaseInv, CopyInv
  <2> QED
    BY <1>5, <1>17, <2>1, <2>2, <2>5, <2>6, <2>7, QueuesOfLoop, RelayedOfLoop
<1>18. CASE SendReply
  <2> DEFINE d == Head(loop.todo)
             s == mux.srv[d]
             popped == [mux EXCEPT !.srv = [mux.srv EXCEPT ![d] = [s EXCEPT !.replies = Tail(s.replies)]]]
  <2>1. /\ d \in Clients /\ loop.at = "replies" /\ panes' = panes
        /\ mux' \in {mux, popped}
        /\ \/ loop' = loop
           \/ loop' = [loop EXCEPT !.todo = Tail(loop.todo)]
           \/ loop' = [loop EXCEPT !.todo = Tail(loop.todo), !.dead = loop.dead \cup {d}]
    BY <1>18, ReplyIs
  <2>2. \A c \in Clients : Tame(c)
    <3>1. \A msg \in Reply : msg \in Message /\ msg.t # "copy"
      BY DEF Message, Reply
    <3> QED
      BY <1>1, <1>18, <3>1, LineOfReply, TameStep
  <2> HIDE DEF d
  <2>3. loop'.at = loop.at /\ loop'.kill = loop.kill /\ loop'.latest = loop.latest /\ loop'.unread = loop.unread
    BY <1>1, <2>1 DEF Loops
  <2>4. mux'.relayed = mux.relayed /\ \A c \in Clients : mux'.srv[c].copy = mux.srv[c].copy
    <3>1. mux.srv \in [Clients -> Srv] /\ s \in Srv
      BY <1>1, <2>1 DEF Muxes
    <3>2. [s EXCEPT !.replies = Tail(s.replies)].copy = s.copy
      BY <3>1 DEF Srv
    <3>3. popped.relayed = mux.relayed /\ popped.srv = [mux.srv EXCEPT ![d] = [s EXCEPT !.replies = Tail(s.replies)]]
      BY <1>1 DEF Muxes
    <3>4. \A c \in Clients : popped.srv[c].copy = mux.srv[c].copy
      BY <3>1, <3>2, <3>3
    <3> QED
      BY <2>1, <3>3, <3>4
  <2>5. \A p \in Panes : Emptied(p)' => Emptied(p)
    BY <2>3 DEF Emptied
  <2>6. PhaseInv'
    BY <2>3 DEF PhaseInv, CopyInv
  <2> QED
    BY <2>1, <2>2, <2>3, <2>4, <2>5, <2>6, CopiesUntouched
<1>19. CASE SkipFrame
  <2>1. \A c \in Clients : Still(c) \/ Sends(c, Bye)
    BY <1>19, LineOfLoop
  <2>2. loop.at = "frames" /\ loop' = [loop EXCEPT !.at = "receive"] /\ mux' = mux /\ panes' = panes
    BY <1>19 DEF SkipFrame
  <2>3. loop'.at = "receive" /\ loop'.latest = loop.latest
    BY <1>1, <2>2 DEF Loops
  <2>4. \A p \in Panes : Emptied(p)' => Emptied(p)
    BY <2>3 DEF Emptied
  <2>5. PhaseInv'
    BY <2>2, <2>3 DEF PhaseInv, CopyInv
  <2> QED
    BY <1>5, <2>1, <2>2, <2>3, <2>4, <2>5 DEF Queued
<1>20. CASE PushFrames
  <2> DEFINE screen == Render(mux)
  <2>1. PICK row \in Nat :
              /\ \A c \in Attached : Resyncs(c) => row \in DOMAIN screen
              /\ PushedConn(screen, row) \in [Clients -> Conn]
              /\ conn' = DetachClients(PushedConn(screen, row), DeadOf(screen, row))
              /\ loop.at = "frames"
              /\ loop' = [loop EXCEPT !.at = "receive", !.dirty = FALSE, !.due = loop'.due]
              /\ peer' = peer /\ panes' = panes
    BY <1>20, PushIs
  <2>2. screen \in Seq(Nat)
    BY <1>1, RenderType DEF Types
  <2> HIDE DEF screen
  <2>3. \A c \in Clients : Tame(c)
    <3> TAKE c \in Clients
    <3>1. CASE Still(c) \/ Sends(c, Bye)
      BY <1>1, <1>2, <3>1, TameStep
    <3>2. CASE c \in Speaking(screen, row) /\ Sends(c, Frame(Diffed(c, screen, row), screen))
      <4>1. Diffed(c, screen, row) \in Srv
        BY <2>1, <2>2, <3>2, DiffedType DEF Speaking
      <4>2. Frame(Diffed(c, screen, row), screen) \in Frames
        BY <2>2, <4>1, FrameType
      <4>3. \A msg \in Frames : msg \in Message /\ msg.t # "copy"
        BY DEF Message, Frames
      <4> QED
        BY <1>1, <3>2, <4>2, <4>3, TameStep
    <3> QED
      BY <2>1, <2>2, <3>1, <3>2, LineOfFrames
  <2>4. loop'.at = "receive" /\ loop'.latest = loop.latest
    BY <1>1, <2>1 DEF Loops
  <2>5. mux'.relayed = mux.relayed /\ \A c \in Clients : mux'.srv[c].copy \in {0, mux.srv[c].copy}
    BY <1>20, QueuesOfLoop, RelayedOfLoop DEF Queued, Emptyhanded
  <2>6. \A p \in Panes : Emptied(p)' => Emptied(p)
    BY <2>4 DEF Emptied
  <2>7. PhaseInv'
    BY <2>1, <2>4 DEF PhaseInv, CopyInv
  <2> QED
    BY <2>1, <2>3, <2>4, <2>5, <2>6, <2>7, CopiesUntouched
<1>21. CASE FlushBeforeShutdown
  <2>1. \A c \in Clients : Still(c) \/ Sends(c, Bye)
    BY <1>21, LineOfLoop
  <2>2. loop.kill /\ loop.at \in {"receive", "flush"} /\ mux' = mux /\ panes' = panes
    BY <1>21 DEF FlushBeforeShutdown
  <2>3. loop'.at \in {"replies", "byes"} /\ loop'.kill = loop.kill /\ loop'.latest = loop.latest
    <3>1. CASE loop' = [loop EXCEPT !.at = "byes", !.todo = mux.att]
      BY <1>1, <3>1 DEF Loops
    <3>2. CASE (\E c \in Attached : mux.srv[c].replies # <<>>) /\ loop' = ToReplies(loop, mux)
      <4> DEFINE e == ToReplies(loop, mux)
      <4>1. /\ e = [loop EXCEPT !.at = e.at, !.todo = e.todo, !.dead = e.dead]
            /\ e.at = "replies" \/ (Owed(mux) = <<>> /\ Overflowed(mux) = {})
        BY <1>1, RepliesNext
      <4>2. ~(Owed(mux) = <<>> /\ Overflowed(mux) = {})
        <5>1. PICK c \in Attached : mux.srv[c].replies # <<>>
          BY <3>2
        <5>2. c \in Clients
          BY <1>1, <5>1 DEF Attached, Muxes, ToSet
        <5>3. mux.srv[c].overflowed => c \in Overflowed(mux)
          BY <5>1 DEF Overflowed, Attached
        <5>4. ~mux.srv[c].overflowed => c \in ToSet(Owed(mux))
          BY <1>1, <5>1, OwedAre DEF Attached
        <5>5. c \notin ToSet(<<>>)
          BY DEF ToSet
        <5> QED
          BY <5>3, <5>4, <5>5
      <4> HIDE DEF e
      <4>3. e.at = "replies" /\ e.kill = loop.kill /\ e.latest = loop.latest
        BY <1>1, <4>1, <4>2 DEF Loops
      <4> QED
        BY <3>2, <4>3 DEF e
    <3> QED
      BY <1>21, <3>1, <3>2 DEF FlushBeforeShutdown
  <2>4. \A p \in Panes : Emptied(p)' => Emptied(p)
    BY <2>2, <2>3 DEF Emptied
  <2>5. PhaseInv'
    BY <2>2, <2>3 DEF PhaseInv, CopyInv
  <2> QED
    BY <1>5, <2>1, <2>2, <2>3, <2>4, <2>5 DEF Queued
<1>22. CASE SendBye
  <2>1. \A c \in Clients : Still(c) \/ Sends(c, Bye)
    BY <1>22, LineOfLoop
  <2>2. /\ mux' = mux /\ panes' = panes
        /\ \/ loop' = [loop EXCEPT !.todo = Tail(loop.todo), !.byes = 0]
           \/ loop' = [loop EXCEPT !.byes = loop.byes + 1]
    BY <1>22, ByeIs
  <2>3. loop'.at = loop.at /\ loop'.kill = loop.kill /\ loop'.latest = loop.latest /\ loop'.unread = loop.unread
    BY <1>1, <2>2 DEF Loops
  <2> QED
    BY <1>4, <2>1, <2>2, <2>3
<1>23. CASE EndByes
  <2>1. \A c \in Clients : Still(c) \/ Sends(c, Bye)
    BY <1>23, LineOfLoop
  <2>2. loop.at = "byes" /\ loop' = [loop EXCEPT !.at = "exit"] /\ mux' = mux /\ panes' = panes
    BY <1>23 DEF EndByes
  <2>3. loop'.at = "exit" /\ loop'.latest = loop.latest
    BY <1>1, <2>2 DEF Loops
  <2>4. \A p \in Panes : Emptied(p)' => Emptied(p)
    BY <2>3 DEF Emptied
  <2>5. PhaseInv'
    BY <2>2, <2>3 DEF PhaseInv, CopyInv
  <2> QED
    BY <1>5, <2>1, <2>2, <2>3, <2>4, <2>5 DEF Queued
<1>24. CASE Exit
  <2>1. \A c \in Clients : Still(c) \/ Drops(c)
    BY <1>24, LineOfExit
  <2>2. loop.at = "exit" /\ loop' = [loop EXCEPT !.at = "exited"] /\ panes' = panes
    BY <1>24 DEF Exit
  <2>3. loop'.at = "exited" /\ loop'.latest = loop.latest
    BY <1>1, <2>2 DEF Loops
  <2>4. \A p \in Panes : Emptied(p)' => Emptied(p)
    BY <2>3 DEF Emptied
  <2>5. PhaseInv'
    BY <2>2, <2>3 DEF PhaseInv, CopyInv
  <2> QED
    BY <1>5, <1>24, <2>1, <2>2, <2>3, <2>4, <2>5, QueuesOfLoop, RelayedOfLoop
<1> QED
  BY <1>6, <1>7, <1>8, <1>9, <1>10, <1>11, <1>12, <1>13, <1>14, <1>15, <1>16, <1>17, <1>18, <1>19, <1>20, <1>21,
     <1>22, <1>23, <1>24 DEF Next, Pass

(* What the run asks of the clipboards follows.                               *)
LEMMA CopiesAre == Types /\ CopyInv => CopiesInOrder
<1> SUFFICES ASSUME Types, CopyInv, NEW c \in Clients
             PROVE  LET msgs == InFlight(c)
                        copies == {i \in DOMAIN msgs : msgs[i].t = "copy"}
                        queued == mux.srv[c].copy
                    IN /\ \A i, j \in copies : i < j => msgs[i].seq < msgs[j].seq
                       /\ \A i \in copies : peer[c].pasted < msgs[i].seq /\ (queued # 0 => msgs[i].seq < queued)
                       /\ queued # 0 => peer[c].pasted < queued
  BY DEF CopiesInOrder
<1>1. /\ peer[c].pasted \in Nat /\ mux.srv[c].copy \in Nat /\ InFlight(c) \in Seq(Message)
  BY LineType DEF Types, Muxes, Srv, Peer, InFlight, Line
<1>2. \A i \in DOMAIN InFlight(c) : InFlight(c)[i].t = "copy" => InFlight(c)[i].seq \in Nat
  BY <1>1 DEF Message, Frames, Reply, Copies, Bye
<1>3. Sorted(peer[c], InFlight(c)) /\ (mux.srv[c].copy # 0 => Beyond(mux.srv[c].copy, peer[c], InFlight(c)))
  BY DEF CopyInv, OrderInv
<1> QED
  BY <1>1, <1>2, <1>3 DEF Sorted, Beyond

(* The clipboard of a client never goes back to an older copy, whichever of   *)
(* two panes and a drag made it and whatever waits for room (queue_copy,      *)
(* drain_pane_clipboard, next_clipboard_seq).                                 *)
THEOREM ClipboardsInOrder == Spec => []CopiesInOrder
<1> DEFINE Inv == Types /\ WiredInv /\ CopyInv
<1>1. Init => Inv
  BY TypesInit, WiredInit, CopyInit
<1>2. Inv /\ [Next]_vars => Inv'
  BY TypesStep, WiredStep, CopyStep
<1>3. Inv => CopiesInOrder
  BY CopiesAre
<1> QED
  BY <1>1, <1>2, <1>3, PTL DEF Spec

--------------------------------------------------------------------------------
(* What the loop keeps of the clients' screens                                *)

(* A step that draws nothing: whoever is attached after it starts again from  *)
(* a blank screen, or keeps its baseline and any mark of a frame it is owed.  *)
Redrawn(m, n) ==
  \A c \in Clients :
    /\ \/ ~n.srv[c].needsFull \/ Blanked(n.srv[c])
       \/ n.srv[c].last = m.srv[c].last /\ n.srv[c].needsFull = m.srv[c].needsFull
    /\ c \in ToSet(n.att) =>
         \/ n.srv[c].needsFull
         \/ /\ c \in ToSet(m.att) /\ n.viewport = m.viewport
            /\ n.srv[c].last = m.srv[c].last /\ n.srv[c].needsFull = m.srv[c].needsFull
            /\ m.srv[c].pending => n.srv[c].pending

(* Nor does it change what the status bar says, unless everybody is owed a    *)
(* frame.                                                                     *)
Calm(m, n) ==
  \A c \in ToSet(n.att) :
    \/ n.srv[c].needsFull \/ n.srv[c].pending
    \/ n.armed = m.armed /\ (AnyArmed(m) = m.armed => AnyArmed(n) = n.armed)

LEMMA AttachedType ==
  ASSUME NEW m \in Muxes
  PROVE  ToSet(m.att) \subseteq Clients /\ m.srv \in [Clients -> Srv]
<1>1. m.att \in Seq(Clients) /\ m.srv \in [Clients -> Srv]
  BY DEF Muxes
<1> QED
  BY <1>1 DEF ToSet

LEMMA RedrawnTwice ==
  ASSUME NEW m, NEW k, NEW n, Redrawn(m, k), Redrawn(k, n), ToSet(n.att) \subseteq Clients
  PROVE  Redrawn(m, n)
<1> SUFFICES ASSUME NEW c \in Clients
             PROVE  /\ \/ ~n.srv[c].needsFull \/ Blanked(n.srv[c])
                       \/ n.srv[c].last = m.srv[c].last /\ n.srv[c].needsFull = m.srv[c].needsFull
                    /\ c \in ToSet(n.att) =>
                         \/ n.srv[c].needsFull
                         \/ /\ c \in ToSet(m.att) /\ n.viewport = m.viewport
                            /\ n.srv[c].last = m.srv[c].last /\ n.srv[c].needsFull = m.srv[c].needsFull
                            /\ m.srv[c].pending => n.srv[c].pending
  BY DEF Redrawn
<1>1. /\ \/ ~k.srv[c].needsFull \/ Blanked(k.srv[c])
         \/ k.srv[c].last = m.srv[c].last /\ k.srv[c].needsFull = m.srv[c].needsFull
      /\ c \in ToSet(k.att) =>
           \/ k.srv[c].needsFull
           \/ /\ c \in ToSet(m.att) /\ k.viewport = m.viewport
              /\ k.srv[c].last = m.srv[c].last /\ k.srv[c].needsFull = m.srv[c].needsFull
              /\ m.srv[c].pending => k.srv[c].pending
  BY DEF Redrawn
<1>2. /\ \/ ~n.srv[c].needsFull \/ Blanked(n.srv[c])
         \/ n.srv[c].last = k.srv[c].last /\ n.srv[c].needsFull = k.srv[c].needsFull
      /\ c \in ToSet(n.att) =>
           \/ n.srv[c].needsFull
           \/ /\ c \in ToSet(k.att) /\ n.viewport = k.viewport
              /\ n.srv[c].last = k.srv[c].last /\ n.srv[c].needsFull = k.srv[c].needsFull
              /\ k.srv[c].pending => n.srv[c].pending
  BY DEF Redrawn
<1> QED
  BY <1>1, <1>2 DEF Blanked

LEMMA LeftRedraws ==
  ASSUME NEW m \in Muxes, NEW n, NEW gone, Left(m, n, gone),
         n.viewport # m.viewport => \A c \in ToSet(n.att) : n.srv[c].needsFull
  PROVE  Redrawn(m, n)
<1>1. ~Detached.needsFull
  BY DEF Detached
<1> SUFFICES ASSUME NEW c \in Clients
             PROVE  /\ \/ ~n.srv[c].needsFull \/ Blanked(n.srv[c])
                       \/ n.srv[c].last = m.srv[c].last /\ n.srv[c].needsFull = m.srv[c].needsFull
                    /\ c \in ToSet(n.att) =>
                         \/ n.srv[c].needsFull
                         \/ /\ c \in ToSet(m.att) /\ n.viewport = m.viewport
                            /\ n.srv[c].last = m.srv[c].last /\ n.srv[c].needsFull = m.srv[c].needsFull
                            /\ m.srv[c].pending => n.srv[c].pending
  BY DEF Redrawn
<1>2. CASE c \in gone
  BY <1>1, <1>2 DEF Left
<1>3. CASE c \notin gone
  <2>1. Marked(m.srv[c], n.srv[c]) /\ ToSet(n.att) \subseteq ToSet(m.att)
    BY <1>3 DEF Left
  <2> QED
    BY <2>1 DEF Marked, Blanked
<1> QED
  BY <1>2, <1>3

LEMMA RecomputeRedraws ==
  ASSUME NEW m \in Muxes
  PROVE  LET n == RecomputeViewport(m) IN n \in Muxes /\ Fits(n) /\ ToSet(n.att) = ToSet(m.att) /\ Redrawn(m, n)
<1> DEFINE n == RecomputeViewport(m)
<1>1. /\ n \in Muxes /\ Fits(n)
      /\ n = [m EXCEPT !.srv = n.srv, !.viewport = n.viewport]
      /\ \A c \in Clients : Kept(m.srv[c], n.srv[c]) /\ Marked(m.srv[c], n.srv[c])
      /\ n.viewport # m.viewport => \A c \in ToSet(m.att) : n.srv[c].needsFull
  BY Recomputed
<1> HIDE DEF n
<1>2. n.att = m.att
  BY <1>1 DEF Muxes
<1>3. Redrawn(m, n)
  <2> SUFFICES ASSUME NEW c \in Clients
               PROVE  /\ \/ ~n.srv[c].needsFull \/ Blanked(n.srv[c])
                         \/ n.srv[c].last = m.srv[c].last /\ n.srv[c].needsFull = m.srv[c].needsFull
                      /\ c \in ToSet(n.att) =>
                           \/ n.srv[c].needsFull
                           \/ /\ c \in ToSet(m.att) /\ n.viewport = m.viewport
                              /\ n.srv[c].last = m.srv[c].last /\ n.srv[c].needsFull = m.srv[c].needsFull
                              /\ m.srv[c].pending => n.srv[c].pending
    BY DEF Redrawn
  <2>1. Marked(m.srv[c], n.srv[c]) /\ ToSet(n.att) = ToSet(m.att)
    BY <1>1, <1>2
  <2> QED
    BY <1>1, <2>1 DEF Marked, Blanked
<1> QED
  BY <1>1, <1>2, <1>3 DEF n

LEMMA ArmedAlike ==
  ASSUME NEW m, NEW n, ToSet(n.att) = ToSet(m.att), \A c \in ToSet(m.att) : n.srv[c].armed = m.srv[c].armed
  PROVE  AnyArmed(n) = AnyArmed(m)
  BY DEF AnyArmed

LEMMA PruneRedraws ==
  ASSUME NEW m \in Muxes, NEW dead
  PROVE  LET n == PruneDeadClients(m, dead)
         IN n \in Muxes /\ Fits(n) /\ ToSet(n.att) = ToSet(m.att) \ dead /\ Redrawn(m, n) /\ Calm(m, n)
<1> DEFINE n == PruneDeadClients(m, dead)
<1>1. /\ Left(m, n, dead) /\ Fits(n)
      /\ n.viewport # m.viewport => \A c \in ToSet(n.att) : n.srv[c].needsFull
      /\ \/ \A c \in ToSet(n.att) : n.srv[c].pending
         \/ n.armed = AnyArmed(n) \/ dead = {}
  BY PruneLeft
<1> HIDE DEF n
<1>2. Redrawn(m, n)
  BY <1>1, LeftRedraws
<1>3. ToSet(m.att) \subseteq Clients
  BY AttachedType
<1>4. dead = {} => AnyArmed(n) = AnyArmed(m)
  <2> SUFFICES ASSUME dead = {} PROVE AnyArmed(n) = AnyArmed(m)
    OBVIOUS
  <2>1. ToSet(n.att) = ToSet(m.att) /\ \A c \in ToSet(m.att) : n.srv[c].armed = m.srv[c].armed
    BY <1>1, <1>3 DEF Left, Kept
  <2> QED
    BY <2>1, ArmedAlike
<1>5. Calm(m, n)
  BY <1>1, <1>4 DEF Calm, Left
<1> QED
  BY <1>1, <1>2, <1>5 DEF Left, n

(* The rows of those that are attached decide the size.                       *)
LEMMA FitsAlike ==
  ASSUME NEW m, NEW n, Fits(m), n.att = m.att, n.viewport = m.viewport,
         \A c \in ToSet(m.att) : n.srv[c].rows = m.srv[c].rows
  PROVE  Fits(n)
<1>1. {n.srv[c].rows : c \in ToSet(n.att)} = {m.srv[c].rows : c \in ToSet(m.att)}
  OBVIOUS
<1> QED
  BY <1>1 DEF Fits

(* Only the queues changed.                                                   *)
LEMMA UnseenRedraws ==
  ASSUME NEW m \in Muxes, NEW n, n.att = m.att, n.viewport = m.viewport, n.armed = m.armed,
         \A c \in Clients :
           /\ n.srv[c].last = m.srv[c].last /\ n.srv[c].needsFull = m.srv[c].needsFull
           /\ n.srv[c].pending = m.srv[c].pending /\ n.srv[c].rows = m.srv[c].rows
           /\ n.srv[c].armed = m.srv[c].armed
  PROVE  Redrawn(m, n) /\ Calm(m, n) /\ (Fits(m) => Fits(n))
<1>1. ToSet(m.att) \subseteq Clients
  BY AttachedType
<1>2. Fits(m) => Fits(n)
  BY <1>1, FitsAlike
<1>3. AnyArmed(n) = AnyArmed(m)
  BY <1>1, ArmedAlike
<1> QED
  BY <1>2, <1>3 DEF Redrawn, Calm

(* The messages of the clients.                                               *)
LEMMA ScreensOfHandlers ==
  ASSUME Types, Fits(mux), NEW d \in Clients, HandleIncoming(d)
  PROVE  /\ Fits(mux') /\ Redrawn(mux, mux') /\ panes'.drawn = panes.drawn
         /\ panes'.unseen = panes.unseen /\ panes'.woken = panes.woken
         /\ loop'.dirty \/ (~loop.dirty /\ Calm(mux, mux'))
         /\ Attached' \subseteq Attached \/ (HandleAttach(d) /\ Attached' \subseteq Attached \cup {d})
<1>1. /\ loop \in Loops /\ mux \in Muxes /\ panes \in Threads /\ mux.srv \in [Clients -> Srv] /\ mux.srv[d] \in Srv
      /\ mux' \in Muxes
  BY TypesOfHandlers DEF Types, Muxes
<1>2. Dirtied => loop'.dirty
  BY <1>1 DEF Dirtied, Loops
<1>3. /\ panes'.drawn = panes.drawn /\ panes'.unseen = panes.unseen /\ panes'.woken = panes.woken
  BY <1>1 DEF HandleIncoming, HandleAttach, HandleStale, HandleEnv, HandleChord, HandleRedraw, HandleDrag,
     HandleResize, HandleDetach, HandleDisconnect, HandleCommand, HandleKillServer, HandlePing, Answered, Threads
<1>4. ASSUME mux'.att = mux.att, mux'.viewport = mux.viewport, mux'.armed = mux.armed,
             \A c \in Clients :
               /\ mux'.srv[c].last = mux.srv[c].last /\ mux'.srv[c].needsFull = mux.srv[c].needsFull
               /\ mux'.srv[c].pending = mux.srv[c].pending /\ mux'.srv[c].rows = mux.srv[c].rows
               /\ mux'.srv[c].armed = mux.srv[c].armed
      PROVE  Fits(mux') /\ Redrawn(mux, mux') /\ Calm(mux, mux') /\ Attached' \subseteq Attached
  BY <1>1, <1>4, UnseenRedraws DEF Attached
<1>5. CASE HandleAttach(d)
  <2> DEFINE replaced == {Replaces[d]} \cap {o \in Attached : mux.srv[o].tagged}
             m == PruneDeadClients(mux, replaced)
             k == [m EXCEPT !.att = Append(m.att, d), !.srv[d] = Attachment(Size[d])]
  <2>1. m \in Muxes /\ ToSet(m.att) = ToSet(mux.att) \ replaced /\ Redrawn(mux, m)
    BY <1>1, PruneRedraws
  <2>2. mux' = RecomputeViewport(k) /\ Dirtied
    BY <1>5 DEF HandleAttach
  <2>3. Size[d] \in Nat
    BY ServerAssumption
  <2> HIDE DEF m
  <2>4. Attachment(Size[d]) \in Srv /\ Attachment(Size[d]).needsFull /\ Blanked(Attachment(Size[d]))
    <3>1. Blank(Size[d]) \in Seq(Nat) /\ Len(Blank(Size[d])) = Size[d]
      BY <2>3, BlankType
    <3> QED
      BY <2>3, <3>1, AttachmentType DEF Attachment, Detached, Blanked
  <2>5. k \in Muxes /\ k.att = Append(m.att, d) /\ k.viewport = m.viewport
        /\ k.srv = [m.srv EXCEPT ![d] = Attachment(Size[d])]
    <3>1. m.att \in Seq(Clients)
      BY <2>1 DEF Muxes
    <3>2. Append(m.att, d) \in Seq(Clients)
      BY <3>1
    <3>3. m.srv \in [Clients -> Srv]
      BY <2>1 DEF Muxes
    <3>4. [m.srv EXCEPT ![d] = Attachment(Size[d])] \in [Clients -> Srv]
      BY <2>4, <3>3
    <3>5. k = [m EXCEPT !.att = Append(m.att, d), !.srv = [m.srv EXCEPT ![d] = Attachment(Size[d])]]
      BY <2>1 DEF Muxes
    <3> HIDE DEF k
    <3> QED
      BY <2>1, <3>2, <3>4, <3>5 DEF Muxes
  <2> HIDE DEF k
  <2>6. ToSet(k.att) = ToSet(m.att) \cup {d}
    <3>1. m.att \in Seq(Clients)
      BY <2>1 DEF Muxes
    <3>2. DOMAIN Append(m.att, d) = 1 .. Len(m.att) + 1 /\ DOMAIN m.att = 1 .. Len(m.att)
          /\ Append(m.att, d)[Len(m.att) + 1] = d /\ \A i \in 1 .. Len(m.att) : Append(m.att, d)[i] = m.att[i]
      BY <3>1
    <3> QED
      BY <2>5, <3>2 DEF ToSet
  <2>7. Redrawn(m, k)
    <3>1. m.srv \in [Clients -> Srv]
      BY <2>1 DEF Muxes
    <3>2. k.srv[d].needsFull /\ Blanked(k.srv[d]) /\ \A c \in Clients \ {d} : k.srv[c] = m.srv[c]
      BY <2>4, <2>5, <3>1
    <3> QED
      BY <2>5, <2>6, <3>2 DEF Redrawn
  <2>8. Fits(mux') /\ ToSet(mux'.att) = ToSet(k.att) /\ Redrawn(k, mux')
    BY <2>2, <2>5, RecomputeRedraws
  <2>9. Redrawn(mux, mux')
    <3>1. ToSet(mux'.att) \subseteq Clients /\ ToSet(k.att) \subseteq Clients
      BY <2>5, <2>8, AttachedType
    <3>2. Redrawn(mux, k)
      BY <2>1, <2>7, <3>1, RedrawnTwice
    <3> QED
      BY <2>8, <3>1, <3>2, RedrawnTwice
  <2>10. Attached' \subseteq Attached \cup {d}
    BY <2>1, <2>6, <2>8 DEF Attached
  <2> QED
    BY <1>2, <1>3, <1>5, <2>2, <2>8, <2>9, <2>10
<1>6. CASE HandleStale(d)
  <2>1. mux' = mux /\ loop' = [loop EXCEPT !.dirty = loop.dirty \/ Head(conn[d].inbox).t = "disconnect"]
    BY <1>6 DEF HandleStale
  <2>2. loop'.dirty \/ ~loop.dirty
    BY <1>1, <2>1 DEF Loops
  <2> QED
    BY <1>3, <1>4, <2>1, <2>2
<1>7. CASE HandleEnv(d)
  <2>1. mux' = [mux EXCEPT !.srv = [mux.srv EXCEPT ![d] = [mux.srv[d] EXCEPT !.tagged = TRUE]]] /\ loop' = loop
    BY <1>1, <1>7 DEF HandleEnv, Muxes, Srv
  <2>2. mux'.att = mux.att /\ mux'.viewport = mux.viewport /\ mux'.armed = mux.armed
        /\ mux'.srv = [mux.srv EXCEPT ![d] = [mux.srv[d] EXCEPT !.tagged = TRUE]]
    BY <1>1, <2>1 DEF Muxes
  <2>3. \A c \in Clients :
               /\ mux'.srv[c].last = mux.srv[c].last /\ mux'.srv[c].needsFull = mux.srv[c].needsFull
               /\ mux'.srv[c].pending = mux.srv[c].pending /\ mux'.srv[c].rows = mux.srv[c].rows
               /\ mux'.srv[c].armed = mux.srv[c].armed
    BY <1>1, <2>2 DEF Srv
  <2> QED
    BY <1>1, <1>3, <1>4, <2>1, <2>2, <2>3 DEF Loops
<1>8. CASE HandleChord(d) \/ HandleRedraw(d)
  <2>1. PICK s \in Srv : /\ mux' = [mux EXCEPT !.srv = [mux.srv EXCEPT ![d] = s]] /\ Dirtied
                         /\ s.rows = mux.srv[d].rows /\ s.pending = mux.srv[d].pending
                         /\ \/ s.last = mux.srv[d].last /\ s.needsFull = mux.srv[d].needsFull
                            \/ Blanked(s)
    <3>1. CASE HandleChord(d)
      <4>1. mux' = [mux EXCEPT !.srv = [mux.srv EXCEPT ![d] = [mux.srv[d] EXCEPT !.armed = ~mux.srv[d].armed]]] /\ Dirtied
        BY <1>1, <3>1 DEF HandleChord, Muxes, Srv
      <4>2. [mux.srv[d] EXCEPT !.armed = ~mux.srv[d].armed] \in Srv
        BY <1>1 DEF Srv
      <4> QED
        BY <1>1, <4>1, <4>2 DEF Srv
    <3>2. CASE HandleRedraw(d)
      <4>1. mux' = [mux EXCEPT !.srv = [mux.srv EXCEPT ![d] = Baseline(mux.srv[d], Len(mux.srv[d].last))]] /\ Dirtied
        BY <1>1, <3>2 DEF HandleRedraw, Muxes
      <4> DEFINE b == Baseline(mux.srv[d], Len(mux.srv[d].last))
      <4>2. Len(mux.srv[d].last) \in Nat
        BY <1>1 DEF Srv
      <4>3. b \in Srv /\ Kept(mux.srv[d], b) /\ b.needsFull /\ b.pending = mux.srv[d].pending
            /\ b.last = Blank(Len(mux.srv[d].last))
        BY <1>1, <4>2, BaselineType
      <4>4. Blanked(b)
        BY <4>2, <4>3, BlankType DEF Blanked
      <4> HIDE DEF b
      <4>5. b.rows = mux.srv[d].rows
        BY <4>3 DEF Kept
      <4> QED
        BY <4>1, <4>3, <4>4, <4>5 DEF b
    <3> QED
      BY <1>8, <3>1, <3>2
  <2>2. mux'.att = mux.att /\ mux'.viewport = mux.viewport /\ mux'.srv = [mux.srv EXCEPT ![d] = s]
    BY <1>1, <2>1 DEF Muxes
  <2>3. \A c \in Clients : mux'.srv[c] = IF c = d THEN s ELSE mux.srv[c]
    BY <1>1, <2>2
  <2>4. Redrawn(mux, mux')
    <3>1. ToSet(mux'.att) = ToSet(mux.att)
      BY <2>2
    <3> QED
      BY <2>1, <2>2, <2>3, <3>1 DEF Redrawn, Blanked
  <2>5. Fits(mux')
    <3>1. \A c \in ToSet(mux.att) : mux'.srv[c].rows = mux.srv[c].rows
      BY <1>1, <2>1, <2>3, AttachedType
    <3> QED
      BY <2>2, <3>1, FitsAlike
  <2> QED
    BY <1>2, <1>3, <2>1, <2>2, <2>4, <2>5 DEF Attached
<1>9. CASE HandleDrag(d)
  <2> DEFINE s == QueueCopy(mux.srv[d], panes.ticket)
  <2>1. mux' = [mux EXCEPT !.srv = [mux.srv EXCEPT ![d] = s]] /\ Dirtied
    BY <1>1, <1>9 DEF HandleDrag, Muxes
  <2>2. s.last = mux.srv[d].last /\ s.needsFull = mux.srv[d].needsFull /\ s.armed = mux.srv[d].armed
        /\ s.pending = mux.srv[d].pending /\ s.rows = mux.srv[d].rows
    BY <1>1 DEF QueueCopy, Srv
  <2> HIDE DEF s
  <2>3. mux'.att = mux.att /\ mux'.viewport = mux.viewport /\ mux'.armed = mux.armed
        /\ mux'.srv = [mux.srv EXCEPT ![d] = s]
    BY <1>1, <2>1 DEF Muxes
  <2>4. \A c \in Clients : mux'.srv[c] = IF c = d THEN s ELSE mux.srv[c]
    BY <1>1, <2>3
  <2> QED
    BY <1>2, <1>3, <1>4, <2>1, <2>2, <2>3, <2>4
<1>10. CASE HandleResize(d)
  <2> DEFINE rows == Head(conn[d].inbox).n
             k == [mux EXCEPT !.srv = [mux.srv EXCEPT ![d] = [mux.srv[d] EXCEPT !.rows = rows]]]
  <2>1. conn[d].inbox # <<>> /\ Head(conn[d].inbox).t = "resize" /\ Dirtied
    BY <1>10 DEF HandleResize, Taking
  <2>2. rows \in Nat
    BY <2>1, TakenType DEF Kinds
  <2>3. mux' = RecomputeViewport(k)
    BY <1>1, <1>10 DEF HandleResize
  <2> HIDE DEF rows
  <2>4. [mux.srv[d] EXCEPT !.rows = rows] \in Srv
    BY <1>1, <2>2 DEF Srv
  <2>5. k \in Muxes /\ k.att = mux.att /\ k.viewport = mux.viewport
        /\ k.srv = [mux.srv EXCEPT ![d] = [mux.srv[d] EXCEPT !.rows = rows]]
    BY <1>1, <2>4 DEF Muxes
  <2> HIDE DEF k
  <2>6. Redrawn(mux, k)
    <3>1. \A c \in Clients : /\ k.srv[c].last = mux.srv[c].last /\ k.srv[c].needsFull = mux.srv[c].needsFull
                             /\ k.srv[c].pending = mux.srv[c].pending
      BY <1>1, <2>2, <2>5 DEF Srv
    <3>2. ToSet(k.att) = ToSet(mux.att)
      BY <2>5
    <3> QED
      BY <2>5, <3>1, <3>2 DEF Redrawn
  <2>7. Fits(mux') /\ ToSet(mux'.att) = ToSet(mux.att) /\ Redrawn(k, mux')
    BY <2>3, <2>5, RecomputeRedraws
  <2>8. Redrawn(mux, mux')
    BY <1>1, <2>6, <2>7, AttachedType, RedrawnTwice
  <2> QED
    BY <1>2, <1>3, <2>1, <2>7, <2>8 DEF Attached
<1>11. CASE HandleDetach(d) \/ HandleDisconnect(d)
  <2>1. mux' = Without(mux, {d}) /\ Dirtied
    BY <1>11 DEF HandleDetach, HandleDisconnect
  <2>2. /\ Left(mux, mux', {d}) /\ Fits(mux')
        /\ mux'.viewport # mux.viewport => \A c \in ToSet(mux'.att) : mux'.srv[c].needsFull
    BY <1>1, <2>1, WithoutLeft
  <2>3. Redrawn(mux, mux')
    BY <1>1, <2>2, LeftRedraws
  <2> QED
    BY <1>2, <1>3, <2>1, <2>2, <2>3 DEF Left, Attached
<1>12. CASE HandleCommand(d) \/ HandleKillServer(d) \/ HandlePing(d)
  <2>1. PICK code \in Codes : Answered(d, Head(conn[d].inbox).n, code)
    BY <1>12 DEF HandleCommand, HandleKillServer, HandlePing, Codes
  <2> DEFINE reply == [t |-> "reply", id |-> Head(conn[d].inbox).n, code |-> code]
             s == QueueReply(mux.srv[d], reply)
  <2>2. mux' = [mux EXCEPT !.srv = [mux.srv EXCEPT ![d] = s]]
    BY <1>1, <2>1 DEF Answered
  <2> HIDE DEF reply
  <2>3. s.last = mux.srv[d].last /\ s.needsFull = mux.srv[d].needsFull /\ s.armed = mux.srv[d].armed
        /\ s.pending = mux.srv[d].pending /\ s.rows = mux.srv[d].rows
    BY <1>1 DEF QueueReply, Srv
  <2> HIDE DEF s
  <2>4. mux'.att = mux.att /\ mux'.viewport = mux.viewport /\ mux'.armed = mux.armed
        /\ mux'.srv = [mux.srv EXCEPT ![d] = s]
    BY <1>1, <2>2 DEF Muxes
  <2>5. \A c \in Clients : mux'.srv[c] = IF c = d THEN s ELSE mux.srv[c]
    BY <1>1, <2>4
  <2>6. loop'.dirty \/ ~loop.dirty
    <3>1. loop' = loop \/ (\E mutates \in BOOLEAN : loop' = [loop EXCEPT !.dirty = loop.dirty \/ mutates])
          \/ loop' = [loop EXCEPT !.kill = TRUE]
      BY <1>12 DEF HandleCommand, HandleKillServer, HandlePing
    <3> QED
      BY <1>1, <3>1 DEF Loops
  <2> QED
    BY <1>3, <1>4, <2>3, <2>4, <2>5, <2>6
<1> QED
  BY <1>5, <1>6, <1>7, <1>8, <1>9, <1>10, <1>11, <1>12 DEF HandleIncoming

LEMMA SameScreens ==
  ASSUME NEW m
  PROVE  Redrawn(m, m) /\ Calm(m, m)
  BY DEF Redrawn, Calm

(* What one pass of the loop does to the screens before it draws.             *)
LEMMA ScreensOfSettle ==
  ASSUME Types, Fits(mux), Settle
  PROVE  /\ Fits(mux') /\ Redrawn(mux, mux') /\ panes'.drawn = panes.drawn
         /\ panes'.unseen = panes.unseen /\ Attached' = Attached
         /\ loop'.dirty \/ (~loop.dirty /\ ~panes.woken /\ Calm(mux, mux'))
<1>1. loop \in Loops /\ mux \in Muxes /\ panes \in Threads
  BY DEF Types
<1> DEFINE swapped == panes.woken /\ panes.alt # mux.seenAlt
           k == [mux EXCEPT !.seenAlt = panes.alt]
           m == IF ~swapped THEN mux ELSE Each(k, LAMBDA s : Baseline(s, Len(s.last)))
           dirty == \/ loop.dirty \/ panes.woken \/ loop.due \cap Attached # {}
                    \/ \E c \in Attached : m.srv[c].needsFull \/ m.srv[c].pending
           l == [loop EXCEPT !.unread = Panes, !.dirty = dirty]
<1>2. k \in Muxes /\ k.att = mux.att /\ k.viewport = mux.viewport /\ k.armed = mux.armed /\ k.srv = mux.srv
  BY <1>1 DEF Muxes, Threads
<1>3. /\ m \in Muxes /\ m.att = mux.att /\ m.viewport = mux.viewport
      /\ \A c \in Clients : Kept(mux.srv[c], m.srv[c]) /\ Marked(mux.srv[c], m.srv[c])
      /\ ~swapped => m = mux
  <2>1. CASE ~swapped
    BY <1>1, <2>1 DEF Kept, Marked
  <2>2. CASE swapped
    <3> DEFINE e == Each(k, LAMBDA s : Baseline(s, Len(s.last)))
    <3>1. /\ e \in Muxes /\ e = [k EXCEPT !.srv = e.srv]
          /\ \A c \in Clients : Kept(k.srv[c], e.srv[c]) /\ Marked(k.srv[c], e.srv[c])
      <4> HIDE DEF k
      <4> QED
        BY <1>2, EachRestart
    <3>2. m = e
      BY <2>2
    <3> HIDE DEF e, k, m
    <3>3. e.att = k.att /\ e.viewport = k.viewport
      BY <1>2, <3>1 DEF Muxes
    <3> QED
      BY <1>2, <2>2, <3>1, <3>2, <3>3
  <2> QED
    BY <2>1, <2>2
<1>4. mux' = m /\ loop' = (IF Panes = {} THEN ToExpire(l, m) ELSE [l EXCEPT !.at = "clipboard"])
      /\ panes' = [panes EXCEPT !.woken = FALSE]
  BY DEF Settle
<1> HIDE DEF m
<1>5. l \in Loops /\ l.dirty = dirty
  <2> HIDE DEF dirty
  <2>1. dirty \in BOOLEAN
    BY <1>1 DEF dirty, Loops, Threads
  <2> QED
    BY <1>1, <2>1 DEF Loops
<1> HIDE DEF l
<1>6. loop'.dirty = dirty
  <2> HIDE DEF dirty
  <2>1. ToExpire(l, m).dirty = l.dirty
    <3> DEFINE n == ToExpire(l, m)
    <3>1. n \in Loops /\ n = [l EXCEPT !.at = n.at, !.todo = n.todo, !.dead = n.dead]
      BY <1>3, <1>5, ExpireNext
    <3> HIDE DEF n
    <3>2. n.dirty = l.dirty
      BY <1>5, <3>1 DEF Loops
    <3> QED
      BY <3>2 DEF n
  <2>2. [l EXCEPT !.at = "clipboard"].dirty = l.dirty
    BY <1>5 DEF Loops
  <2> QED
    BY <1>4, <1>5, <2>1, <2>2
<1>7. panes'.drawn = panes.drawn /\ panes'.unseen = panes.unseen
  BY <1>1, <1>4 DEF Threads
<1>8. Redrawn(mux, m)
  <2> SUFFICES ASSUME NEW c \in Clients
               PROVE  /\ \/ ~m.srv[c].needsFull \/ Blanked(m.srv[c])
                         \/ m.srv[c].last = mux.srv[c].last /\ m.srv[c].needsFull = mux.srv[c].needsFull
                      /\ c \in ToSet(m.att) =>
                           \/ m.srv[c].needsFull
                           \/ /\ c \in ToSet(mux.att) /\ m.viewport = mux.viewport
                              /\ m.srv[c].last = mux.srv[c].last /\ m.srv[c].needsFull = mux.srv[c].needsFull
                              /\ mux.srv[c].pending => m.srv[c].pending
    BY DEF Redrawn
  <2>1. Marked(mux.srv[c], m.srv[c]) /\ ToSet(m.att) = ToSet(mux.att)
    BY <1>3
  <2> QED
    BY <1>3, <2>1 DEF Marked, Blanked
<1>9. Fits(m)
  <2>1. \A c \in ToSet(mux.att) : m.srv[c].rows = mux.srv[c].rows
    BY <1>1, <1>3, AttachedType DEF Kept
  <2> QED
    BY <1>3, <2>1, FitsAlike
<1>10. ~swapped => Calm(mux, m)
  BY <1>3, SameScreens
<1>11. Attached' = Attached
  BY <1>3, <1>4 DEF Attached
<1> QED
  BY <1>4, <1>6, <1>7, <1>8, <1>9, <1>10, <1>11

LEMMA ScreensOfLoop ==
  ASSUME Types, Fits(mux),
         (\E p \in Panes : TakeClipboard(p)) \/ RelayClipboard \/ ExpireSilentClients \/ SendReply \/ EndReplies
         \/ SendCopies \/ SkipFrame \/ FlushBeforeShutdown \/ SendBye \/ EndByes \/ LastShellExits \/ DeadlinePasses
  PROVE  /\ Fits(mux') /\ Redrawn(mux, mux') /\ panes'.drawn = panes.drawn
         /\ panes'.unseen = panes.unseen /\ panes'.woken = panes.woken /\ Attached' \subseteq Attached
         /\ loop'.dirty \/ (~loop.dirty /\ Calm(mux, mux'))
<1>1. loop \in Loops /\ mux \in Muxes /\ panes \in Threads /\ mux.srv \in [Clients -> Srv]
  BY DEF Types, Muxes
<1>2. ASSUME mux' = mux
      PROVE  Fits(mux') /\ Redrawn(mux, mux') /\ Calm(mux, mux') /\ Attached' \subseteq Attached
  BY <1>2, SameScreens DEF Attached
<1>3. ASSUME NEW n, mux' = n, n.att = mux.att, n.viewport = mux.viewport, n.armed = mux.armed,
             \A c \in Clients :
               /\ n.srv[c].last = mux.srv[c].last /\ n.srv[c].needsFull = mux.srv[c].needsFull
               /\ n.srv[c].pending = mux.srv[c].pending /\ n.srv[c].rows = mux.srv[c].rows
               /\ n.srv[c].armed = mux.srv[c].armed
      PROVE  Fits(mux') /\ Redrawn(mux, mux') /\ Calm(mux, mux') /\ Attached' \subseteq Attached
  BY <1>1, <1>3, UnseenRedraws DEF Attached
<1>4. CASE (\E p \in Panes : TakeClipboard(p)) \/ SkipFrame \/ SendBye \/ EndByes \/ LastShellExits \/ DeadlinePasses
  <2>1. mux' = mux
    BY <1>4 DEF TakeClipboard, SkipFrame, SendBye, EndByes, LastShellExits, DeadlinePasses
  <2>2. loop'.dirty = loop.dirty
    <3>1. CASE SendBye
      <4>1. \/ loop' = [loop EXCEPT !.todo = Tail(loop.todo), !.byes = 0]
            \/ loop' = [loop EXCEPT !.byes = loop.byes + 1]
        BY <3>1, ByeIs
      <4> QED
        BY <1>1, <4>1 DEF Loops
    <3> QED
      BY <1>1, <1>4, <3>1 DEF TakeClipboard, SkipFrame, EndByes, LastShellExits, DeadlinePasses, Loops
  <2>3. panes'.drawn = panes.drawn /\ panes'.unseen = panes.unseen /\ panes'.woken = panes.woken
    BY <1>1, <1>4 DEF TakeClipboard, SkipFrame, SendBye, EndByes, LastShellExits, DeadlinePasses, Threads
  <2> QED
    BY <1>1, <1>2, <2>1, <2>2, <2>3 DEF Loops
<1>5. CASE RelayClipboard
  <2> DEFINE m == IF loop.latest <= mux.relayed THEN mux
                  ELSE Each([mux EXCEPT !.relayed = loop.latest], LAMBDA s : QueueCopy(s, loop.latest))
             l == [loop EXCEPT !.latest = 0]
  <2>1. loop.latest \in Nat /\ l \in Loops /\ l.dirty = loop.dirty
    BY <1>1 DEF Loops
  <2>2. /\ m \in Muxes /\ m.att = mux.att /\ m.viewport = mux.viewport /\ m.armed = mux.armed
        /\ \A c \in Clients :
             /\ m.srv[c].last = mux.srv[c].last /\ m.srv[c].needsFull = mux.srv[c].needsFull
             /\ m.srv[c].pending = mux.srv[c].pending /\ m.srv[c].rows = mux.srv[c].rows
             /\ m.srv[c].armed = mux.srv[c].armed
    <3>1. CASE loop.latest <= mux.relayed
      BY <1>1, <3>1
    <3>2. CASE ~(loop.latest <= mux.relayed)
      <4> DEFINE e == Each([mux EXCEPT !.relayed = loop.latest], LAMBDA s : QueueCopy(s, loop.latest))
      <4>1. /\ e \in Muxes /\ e = [mux EXCEPT !.srv = e.srv, !.relayed = loop.latest]
            /\ \A c \in Clients :
                 e.srv[c] = [mux.srv[c] EXCEPT !.copy = IF c \in ToSet(mux.att) /\ loop.latest > mux.srv[c].copy
                                                        THEN loop.latest ELSE mux.srv[c].copy]
        BY <1>1, <2>1, EachCopy
      <4>2. m = e
        BY <3>2
      <4> HIDE DEF e, m
      <4>3. e.att = mux.att /\ e.viewport = mux.viewport /\ e.armed = mux.armed
        BY <1>1, <4>1 DEF Muxes
      <4>4. \A c \in Clients : mux.srv[c] \in Srv
        BY <1>1
      <4>5. \A c \in Clients :
             /\ e.srv[c].last = mux.srv[c].last /\ e.srv[c].needsFull = mux.srv[c].needsFull
             /\ e.srv[c].pending = mux.srv[c].pending /\ e.srv[c].rows = mux.srv[c].rows
             /\ e.srv[c].armed = mux.srv[c].armed
        <5> TAKE c \in Clients
        <5> DEFINE v == IF c \in ToSet(mux.att) /\ loop.latest > mux.srv[c].copy THEN loop.latest ELSE mux.srv[c].copy
        <5>1. e.srv[c] = [mux.srv[c] EXCEPT !.copy = v]
          BY <4>1
        <5> HIDE DEF v
        <5> QED
          BY <4>4, <5>1 DEF Srv
      <4> QED
        BY <4>1, <4>2, <4>3, <4>5
    <3> QED
      BY <3>1, <3>2
  <2>3. mux' = m /\ loop' = ToExpire(l, m) /\ panes' = panes
    BY <1>5 DEF RelayClipboard
  <2> HIDE DEF m, l
  <2>4. loop'.dirty = loop.dirty
    <3> DEFINE n == ToExpire(l, m)
    <3>1. n \in Loops /\ n = [l EXCEPT !.at = n.at, !.todo = n.todo, !.dead = n.dead]
      BY <2>1, <2>2, ExpireNext
    <3> HIDE DEF n
    <3>2. n.dirty = l.dirty
      BY <2>1, <3>1 DEF Loops
    <3> QED
      BY <2>1, <2>3, <3>2 DEF n
  <2> QED
    BY <1>1, <1>3, <2>2, <2>3, <2>4 DEF Loops
<1>6. CASE ExpireSilentClients
  <2>1. PICK silent \in SUBSET Silent(mux) :
             /\ mux' = PruneDeadClients(mux, silent)
             /\ loop' = ToReplies([loop EXCEPT !.dirty = @ \/ silent # {}], PruneDeadClients(mux, silent))
    BY <1>6 DEF ExpireSilentClients
  <2>2. panes' = panes
    BY <1>6 DEF ExpireSilentClients
  <2>3. /\ mux' \in Muxes /\ Fits(mux') /\ ToSet(mux'.att) = ToSet(mux.att) \ silent
        /\ Redrawn(mux, mux') /\ Calm(mux, mux')
    BY <1>1, <2>1, PruneRedraws
  <2> DEFINE l == [loop EXCEPT !.dirty = loop.dirty \/ silent # {}]
             n == ToReplies(l, mux')
  <2>4. l \in Loops /\ l.dirty = (loop.dirty \/ silent # {}) /\ loop' = n
    BY <1>1, <2>1 DEF Loops
  <2> HIDE DEF l
  <2>5. n \in Loops /\ n = [l EXCEPT !.at = n.at, !.todo = n.todo, !.dead = n.dead]
    BY <2>3, <2>4, RepliesNext
  <2> HIDE DEF n
  <2>6. n.dirty = l.dirty
    BY <2>4, <2>5 DEF Loops
  <2> QED
    BY <1>1, <2>2, <2>3, <2>4, <2>6 DEF Attached, Loops
<1>7. CASE SendReply
  <2> DEFINE d == Head(loop.todo)
             s == mux.srv[d]
             one == [s EXCEPT !.replies = Tail(s.replies)]
  <2>1. /\ d \in Clients /\ panes' = panes
        /\ mux' = mux \/ mux' = [mux EXCEPT !.srv = [mux.srv EXCEPT ![d] = one]]
        /\ \/ loop' = loop
           \/ loop' = [loop EXCEPT !.todo = Tail(loop.todo)]
           \/ loop' = [loop EXCEPT !.todo = Tail(loop.todo), !.dead = loop.dead \cup {d}]
    BY <1>7, ReplyIs
  <2> HIDE DEF d
  <2>2. loop'.dirty = loop.dirty
    BY <1>1, <2>1 DEF Loops
  <2>3. CASE mux' = mux
    BY <1>1, <1>2, <2>1, <2>2, <2>3 DEF Loops
  <2>4. CASE mux' = [mux EXCEPT !.srv = [mux.srv EXCEPT ![d] = one]]
    <3>1. one.last = s.last /\ one.needsFull = s.needsFull /\ one.pending = s.pending /\ one.rows = s.rows
          /\ one.armed = s.armed
      BY <1>1, <2>1 DEF Srv
    <3> HIDE DEF one
    <3>2. mux'.att = mux.att /\ mux'.viewport = mux.viewport /\ mux'.armed = mux.armed
          /\ mux'.srv = [mux.srv EXCEPT ![d] = one]
      BY <1>1, <2>4 DEF Muxes
    <3>3. \A c \in Clients : mux'.srv[c] = IF c = d THEN one ELSE mux.srv[c]
      BY <1>1, <3>2
    <3>4. \A c \in Clients :
             /\ mux'.srv[c].last = mux.srv[c].last /\ mux'.srv[c].needsFull = mux.srv[c].needsFull
             /\ mux'.srv[c].pending = mux.srv[c].pending /\ mux'.srv[c].rows = mux.srv[c].rows
             /\ mux'.srv[c].armed = mux.srv[c].armed
      BY <3>1, <3>3
    <3>5. Fits(mux') /\ Redrawn(mux, mux') /\ Calm(mux, mux') /\ Attached' \subseteq Attached
      BY <1>3, <3>2, <3>4
    <3> QED
      BY <1>1, <2>1, <2>2, <3>5 DEF Loops
  <2> QED
    BY <2>1, <2>3, <2>4
<1>8. CASE EndReplies
  <2> DEFINE l == [loop EXCEPT !.dead = {}]
             m == PruneDeadClients(mux, loop.dead)
             n == ToCopies(l, m)
  <2>1. mux' = m /\ panes' = panes /\ loop' = (IF loop.kill THEN [l EXCEPT !.at = "flush"] ELSE n)
    BY <1>8 DEF EndReplies
  <2>2. m \in Muxes /\ Fits(m) /\ ToSet(m.att) = ToSet(mux.att) \ loop.dead /\ Redrawn(mux, m) /\ Calm(mux, m)
    BY <1>1, PruneRedraws
  <2>3. l \in Loops /\ l.dirty = loop.dirty
    BY <1>1 DEF Loops
  <2> HIDE DEF l, m
  <2>4. n = [l EXCEPT !.at = n.at]
    BY <2>3, CopiesNext
  <2> HIDE DEF n
  <2>5. loop'.dirty = loop.dirty
    BY <2>1, <2>3, <2>4 DEF Loops
  <2> QED
    BY <1>1, <2>1, <2>2, <2>5 DEF Attached, Loops
<1>9. CASE SendCopies
  <2> DEFINE copying == {c \in Attached : mux.srv[c].copy # 0}
             dead == {c \in copying : WriterGone(c)}
             sent == {c \in copying : Accepts(c)}
             srv == [c \in Clients |-> IF c \in sent THEN [mux.srv[c] EXCEPT !.copy = 0] ELSE mux.srv[c]]
             k == [mux EXCEPT !.srv = srv]
  <2>1. srv \in [Clients -> Srv]
    BY <1>1 DEF Srv
  <2>2. \A c \in Clients :
             /\ srv[c].last = mux.srv[c].last /\ srv[c].needsFull = mux.srv[c].needsFull
             /\ srv[c].pending = mux.srv[c].pending /\ srv[c].rows = mux.srv[c].rows
             /\ srv[c].armed = mux.srv[c].armed
    BY <1>1 DEF Srv
  <2>3. mux' = PruneDeadClients(k, dead) /\ loop' = ToFrames(loop) /\ panes' = panes
    BY <1>9 DEF SendCopies
  <2> HIDE DEF srv
  <2>4. k \in Muxes /\ k.srv = srv /\ k.att = mux.att /\ k.viewport = mux.viewport /\ k.armed = mux.armed
    BY <1>1, <2>1 DEF Muxes
  <2> HIDE DEF k, dead
  <2>5. Redrawn(mux, k) /\ Calm(mux, k)
    BY <1>1, <2>2, <2>4, UnseenRedraws
  <2>6. mux' \in Muxes /\ Fits(mux') /\ ToSet(mux'.att) = ToSet(k.att) \ dead /\ Redrawn(k, mux') /\ Calm(k, mux')
    BY <2>3, <2>4, PruneRedraws
  <2>7. ToSet(mux'.att) \subseteq ToSet(mux.att) /\ ToSet(mux.att) \subseteq Clients
    BY <1>1, <2>4, <2>6, AttachedType
  <2>8. Redrawn(mux, mux')
    BY <2>5, <2>6, <2>7, RedrawnTwice
  <2>9. Calm(mux, mux')
    <3>1. AnyArmed(k) = AnyArmed(mux)
      BY <2>2, <2>4, <2>7, ArmedAlike
    <3> QED
      BY <2>4, <2>6, <3>1 DEF Calm
  <2>10. loop'.dirty = loop.dirty
    <3> DEFINE n == ToFrames(loop)
    <3>1. n = [loop EXCEPT !.at = n.at]
      BY <1>1, FramesNext
    <3> HIDE DEF n
    <3>2. n.dirty = loop.dirty
      BY <1>1, <3>1 DEF Loops
    <3> QED
      BY <2>3, <3>2 DEF n
  <2> QED
    BY <1>1, <2>3, <2>6, <2>7, <2>8, <2>9, <2>10 DEF Attached, Loops
<1>10. CASE FlushBeforeShutdown
  <2> DEFINE n == ToReplies(loop, mux)
  <2>1. mux' = mux /\ panes' = panes /\ (loop' = n \/ loop' = [loop EXCEPT !.at = "byes", !.todo = mux.att])
    BY <1>10 DEF FlushBeforeShutdown
  <2>2. n = [loop EXCEPT !.at = n.at, !.todo = n.todo, !.dead = n.dead]
    BY <1>1, RepliesNext
  <2> HIDE DEF n
  <2>3. loop'.dirty = loop.dirty
    BY <1>1, <2>1, <2>2 DEF Loops
  <2> QED
    BY <1>1, <1>2, <2>1, <2>3 DEF Loops
<1> QED
  BY <1>4, <1>5, <1>6, <1>7, <1>8, <1>9, <1>10

--------------------------------------------------------------------------------
(* Nobody is left behind                                                      *)

Shows(s, m, drawn) == \A i \in 1 .. m.viewport : s.last[i] = IF i = 1 THEN Bit(m.armed) ELSE drawn

(* Whoever is attached and not owed a full frame has a baseline of the size   *)
(* of the screen; in a loop that sees nothing to do, it is the newest screen, *)
(* unless a frame is owed.                                                    *)
OnScreen(m, drawn, quiet) ==
  \A c \in ToSet(m.att) :
    \/ m.srv[c].needsFull
    \/ /\ Len(m.srv[c].last) = m.viewport
       /\ quiet => m.srv[c].pending \/ (AnyArmed(m) = m.armed /\ Shows(m.srv[c], m, drawn))

Quiet == ~loop.dirty /\ ~panes.unseen /\ ~panes.woken

ScreenInv == Fits(mux) /\ OnScreen(mux, panes.drawn, Quiet)

LEMMA RedrawnThen ==
  ASSUME NEW m, NEW n, NEW drawn, NEW quiet \in BOOLEAN, NEW later, NEW still \in BOOLEAN,
         OnScreen(m, drawn, quiet), Redrawn(m, n), ToSet(n.att) \subseteq Clients,
         still => quiet /\ later = drawn /\ Calm(m, n)
  PROVE  OnScreen(n, later, still)
<1> SUFFICES ASSUME NEW c \in ToSet(n.att), ~n.srv[c].needsFull
             PROVE  /\ Len(n.srv[c].last) = n.viewport
                    /\ still => n.srv[c].pending \/ (AnyArmed(n) = n.armed /\ Shows(n.srv[c], n, later))
  BY DEF OnScreen
<1>1. /\ c \in ToSet(m.att) /\ n.viewport = m.viewport
      /\ n.srv[c].last = m.srv[c].last /\ ~m.srv[c].needsFull
      /\ m.srv[c].pending => n.srv[c].pending
  BY DEF Redrawn
<1>2. /\ Len(m.srv[c].last) = m.viewport
      /\ quiet => m.srv[c].pending \/ (AnyArmed(m) = m.armed /\ Shows(m.srv[c], m, drawn))
  BY <1>1 DEF OnScreen
<1>3. still => n.srv[c].pending \/ (n.armed = m.armed /\ (AnyArmed(m) = m.armed => AnyArmed(n) = n.armed))
  BY DEF Calm
<1> QED
  BY <1>1, <1>2, <1>3 DEF Shows

LEMMA ScreenInit == Init => ScreenInv
<1> SUFFICES ASSUME Init PROVE ScreenInv
  OBVIOUS
<1>1. mux.att = <<>>
  BY DEF Init
<1>2. ToSet(mux.att) = {}
  BY <1>1 DEF ToSet
<1> QED
  BY <1>1, <1>2 DEF ScreenInv, Fits, OnScreen

(* A client that is sent the screen, or whose baseline it already is, is up   *)
(* to date; one whose channel is full is owed a frame; the others are gone.   *)
LEMMA ScreenOfPush ==
  ASSUME Types, ScreenInv, PushFrames
  PROVE  ScreenInv'
<1> DEFINE screen == Render(mux)
<1>1. PICK row \in Nat :
        /\ \A c \in Attached : Resyncs(c) => row \in DOMAIN screen
        /\ PushedMux(screen, row) \in Muxes
        /\ \A c \in Clients :
             PushedMux(screen, row).srv[c] =
               IF c \in Attached THEN Pushed(c, Diffed(c, screen, row), screen) ELSE mux.srv[c]
        /\ mux' = PruneDeadClients(PushedMux(screen, row), DeadOf(screen, row))
        /\ UNCHANGED panes
  BY PushIs
<1>2. mux \in Muxes /\ panes \in Threads /\ loop \in Loops
  BY DEF Types
<1>3. /\ screen \in Seq(Nat) /\ Len(screen) = mux.viewport
      /\ \A i \in 1 .. mux.viewport : screen[i] = IF i = 1 THEN Bit(AnyArmed(mux)) ELSE panes.drawn
  BY <1>2, RenderType
<1>4. ToSet(mux.att) \subseteq Clients
  BY <1>2, AttachedType
<1> DEFINE m == PushedMux(screen, row)
           dead == DeadOf(screen, row)
<1>5. m \in Muxes /\ m.att = mux.att /\ m.viewport = mux.viewport /\ (mux.att # <<>> => m.armed = AnyArmed(mux))
  BY <1>1, <1>2 DEF PushedMux, Muxes
<1> HIDE DEF screen, m
<1>6. ASSUME NEW c \in ToSet(mux.att)
      PROVE  /\ m.srv[c].armed = mux.srv[c].armed
             /\ \/ c \in dead \/ m.srv[c].pending
                \/ ~m.srv[c].needsFull /\ m.srv[c].last = screen
  <2> DEFINE s == Diffed(c, screen, row)
  <2>1. c \in Clients /\ c \in Attached
    BY <1>4, <1>6 DEF Attached
  <2>2. s \in Srv /\ Kept(mux.srv[c], s) /\ Len(s.last) = Len(screen)
    BY <1>1, <1>3, <2>1, DiffedType
  <2> HIDE DEF s
  <2>3. Kept(s, Pushed(c, s, screen)) /\ m.srv[c] = Pushed(c, s, screen)
    BY <1>1, <1>3, <2>1, <2>2, PushedType DEF s, m
  <2>4. m.srv[c].armed = mux.srv[c].armed
    BY <2>2, <2>3 DEF Kept
  <2>5. CASE Idle(s, screen)
    <3>1. Pushed(c, s, screen) = [s EXCEPT !.pending = FALSE]
      BY <2>5 DEF Pushed
    <3>2. m.srv[c].last = s.last /\ m.srv[c].needsFull = s.needsFull
      BY <2>2, <2>3, <3>1 DEF Srv
    <3>3. ~s.needsFull /\ \A i \in DOMAIN screen : s.last[i] = screen[i]
      BY <2>5 DEF Idle, Changed
    <3>4. s.last = screen
      <4>1. s.last \in Seq(Nat)
        BY <2>2 DEF Srv
      <4>2. \A i \in 1 .. Len(s.last) : s.last[i] = screen[i]
        BY <1>3, <2>2, <3>3
      <4> QED
        BY <1>3, <2>2, <4>1, <4>2, SeqEqual
    <3> QED
      BY <2>4, <3>2, <3>3, <3>4
  <2>6. CASE ~Idle(s, screen) /\ Accepts(c)
    <3>1. Pushed(c, s, screen) = [s EXCEPT !.last = screen, !.needsFull = FALSE, !.pending = FALSE]
      BY <2>6 DEF Pushed
    <3> QED
      BY <2>2, <2>3, <2>4, <3>1 DEF Srv
  <2>7. CASE ~Idle(s, screen) /\ ~Accepts(c) /\ Full(c)
    <3>1. Pushed(c, s, screen) = [s EXCEPT !.pending = TRUE]
      BY <2>7 DEF Pushed, Missed
    <3> QED
      BY <2>2, <2>3, <2>4, <3>1 DEF Srv
  <2>8. CASE ~Idle(s, screen) /\ ~Accepts(c) /\ ~Full(c)
    <3>1. c \in dead
      BY <2>1, <2>8 DEF DeadOf, Speaking, Accepts, Full, WriterGone, s
    <3> QED
      BY <2>4, <3>1
  <2> QED
    BY <2>5, <2>6, <2>7, <2>8
<1>7. AnyArmed(m) = AnyArmed(mux)
  BY <1>5, <1>6, ArmedAlike
<1> HIDE DEF dead
<1>8. mux' \in Muxes /\ Fits(mux') /\ ToSet(mux'.att) = ToSet(m.att) \ dead /\ Redrawn(m, mux') /\ Calm(m, mux')
  BY <1>1, <1>5, PruneRedraws DEF m, dead
<1>9. ASSUME NEW c \in ToSet(mux'.att), ~mux'.srv[c].needsFull
      PROVE  /\ Len(mux'.srv[c].last) = mux'.viewport
             /\ mux'.srv[c].pending \/ (AnyArmed(mux') = mux'.armed /\ Shows(mux'.srv[c], mux', panes.drawn))
  <2>1. c \in ToSet(mux.att) /\ c \notin dead /\ c \in Clients /\ mux.att # <<>>
    <3>1. c \in ToSet(mux.att) /\ c \notin dead
      BY <1>5, <1>8, <1>9
    <3>2. ToSet(<<>>) = {}
      BY DEF ToSet
    <3> QED
      BY <1>4, <3>1, <3>2
  <2>2. /\ mux'.viewport = m.viewport /\ mux'.srv[c].last = m.srv[c].last /\ ~m.srv[c].needsFull
        /\ m.srv[c].pending => mux'.srv[c].pending
    BY <1>8, <1>9, <2>1 DEF Redrawn
  <2>3. Len(m.srv[c].last) = mux.viewport
    <3>1. CASE m.srv[c].last = screen
      BY <1>3, <3>1
    <3>2. CASE m.srv[c].last # screen
      <4> DEFINE s == Diffed(c, screen, row)
      <4>1. c \in Attached
        BY <2>1 DEF Attached
      <4>2. s \in Srv /\ Len(s.last) = Len(screen)
        BY <1>1, <1>3, <2>1, <4>1, DiffedType
      <4> HIDE DEF s
      <4>3. m.srv[c] = Pushed(c, s, screen)
        BY <1>1, <2>1, <4>1 DEF s, m
      <4>4. m.srv[c].last = s.last
        BY <3>2, <4>2, <4>3 DEF Pushed, Missed, Srv
      <4> QED
        BY <1>3, <4>2, <4>4
    <3> QED
      BY <3>1, <3>2
  <2>4. CASE m.srv[c].pending
    BY <1>5, <2>2, <2>3, <2>4
  <2>5. CASE ~m.srv[c].pending
    <3>1. m.srv[c].last = screen
      BY <1>6, <2>1, <2>5
    <3>2. \/ mux'.srv[c].pending
          \/ mux'.armed = m.armed /\ (AnyArmed(m) = m.armed => AnyArmed(mux') = mux'.armed)
      BY <1>8, <1>9 DEF Calm
    <3>3. m.armed = AnyArmed(mux) /\ AnyArmed(m) = m.armed
      BY <1>5, <1>7, <2>1
    <3>4. mux'.armed = m.armed => Shows(mux'.srv[c], mux', panes.drawn)
      <4>1. mux'.viewport = mux.viewport
        BY <1>5, <2>2
      <4> QED
        BY <1>3, <2>2, <3>1, <3>3, <4>1 DEF Shows
    <3> QED
      BY <1>5, <2>2, <2>3, <3>2, <3>3, <3>4
  <2> QED
    BY <2>4, <2>5
<1>10. panes'.drawn = panes.drawn
  BY <1>1
<1>11. OnScreen(mux', panes.drawn, Quiet')
  BY <1>9 DEF OnScreen
<1> QED
  BY <1>8, <1>10, <1>11 DEF ScreenInv

LEMMA ScreenStep == Types /\ Types' /\ ScreenInv /\ [Next]_vars => ScreenInv'
<1> SUFFICES ASSUME Types, Types', ScreenInv, [Next]_vars PROVE ScreenInv'
  OBVIOUS
<1>1. mux \in Muxes /\ mux' \in Muxes /\ panes \in Threads /\ panes' \in Threads /\ loop \in Loops /\ loop' \in Loops
      /\ Fits(mux) /\ OnScreen(mux, panes.drawn, Quiet)
  BY DEF Types, ScreenInv
<1>2. ToSet(mux'.att) \subseteq Clients
  BY <1>1, AttachedType
<1>3. Quiet \in BOOLEAN /\ Quiet' \in BOOLEAN
  BY <1>1 DEF Quiet, Loops, Threads
<1>4. ASSUME Fits(mux'), Redrawn(mux, mux'),
             Quiet' => Quiet /\ panes'.drawn = panes.drawn /\ Calm(mux, mux')
      PROVE  ScreenInv'
  <2>1. OnScreen(mux', panes'.drawn, Quiet')
    BY <1>1, <1>2, <1>3, <1>4, RedrawnThen
  <2> QED
    BY <1>4, <2>1 DEF ScreenInv
<1>5. ASSUME mux' = mux, Quiet' => Quiet /\ panes'.drawn = panes.drawn
      PROVE  ScreenInv'
  BY <1>1, <1>4, <1>5, SameScreens
<1>6. CASE UNCHANGED vars
  BY <1>5, <1>6 DEF vars, Quiet
<1>7. CASE PaneDraws
  BY <1>1, <1>5, <1>7 DEF PaneDraws, Quiet, Threads
<1>8. CASE PaneWakes
  BY <1>1, <1>5, <1>8 DEF PaneWakes, Quiet, Threads
<1>9. CASE \E p \in Panes : PaneStamps(p) \/ PaneStores(p)
  <2>1. mux' = mux /\ loop' = loop /\ panes'.drawn = panes.drawn /\ panes'.unseen = panes.unseen
        /\ panes'.woken = panes.woken
    BY <1>1, <1>9, ZenonT(40) DEF PaneStamps, PaneStores, Threads
  <2> QED
    BY <1>5, <2>1 DEF Quiet
<1>10. ASSUME NEW c \in Clients,
              \/ Writer(c) \/ ReaderEnds(c) \/ ResyncDue(c) \/ PeerAttaches(c) \/ PeerSays(c) \/ PeerReads(c)
              \/ PeerSeesEof(c) \/ PeerDies(c) \/ PeerHangs(c) \/ PeerResumes(c) \/ LinkBreaks(c)
       PROVE  ScreenInv'
  <2>1. mux' = mux /\ panes' = panes
    BY <1>10, Zenon DEF Writer, WriterSends, WriterBlocks, WriterResumes, WriterEnds, ReaderEnds, ResyncDue, PeerAttaches,
       PeerSays, PeerReads, PeerSeesEof, PeerDies, PeerHangs, PeerResumes, PeerState, LinkBreaks
  <2>2. loop'.dirty = loop.dirty
    BY <1>1, <1>10 DEF Writer, WriterSends, WriterBlocks, WriterResumes, WriterEnds, ReaderEnds, ResyncDue,
       PeerAttaches, PeerSays, PeerReads, PeerSeesEof, PeerDies, PeerHangs, PeerResumes, PeerState, LinkBreaks, Loops
  <2> QED
    BY <1>5, <2>1, <2>2 DEF Quiet
<1>11. ASSUME NEW c \in Clients, HandleIncoming(c)
       PROVE  ScreenInv'
  BY <1>1, <1>4, <1>11, ScreensOfHandlers DEF Quiet
<1>12. CASE Settle
  BY <1>1, <1>4, <1>12, ScreensOfSettle DEF Quiet
<1>13. CASE (\E p \in Panes : TakeClipboard(p)) \/ RelayClipboard \/ ExpireSilentClients \/ SendReply \/ EndReplies
            \/ SendCopies \/ SkipFrame \/ FlushBeforeShutdown \/ SendBye \/ EndByes \/ LastShellExits \/ DeadlinePasses
  BY <1>1, <1>4, <1>13, ScreensOfLoop DEF Quiet
<1>14. CASE PushFrames
  BY <1>14, ScreenOfPush
<1>15. CASE Exit
  <2>1. mux'.att = <<>>
    BY <1>1, <1>15 DEF Exit, Muxes
  <2>2. ToSet(mux'.att) = {}
    BY <2>1 DEF ToSet
  <2>3. Fits(mux') /\ OnScreen(mux', panes'.drawn, Quiet')
    BY <2>1, <2>2 DEF Fits, OnScreen
  <2> QED
    BY <2>3 DEF ScreenInv
<1> QED
  BY <1>6, <1>7, <1>8, <1>9, <1>10, <1>11, <1>12, <1>13, <1>14, <1>15 DEF Next, Pass

LEMMA ScreensAre == Types /\ ScreenInv => NobodyLeftBehind
<1> SUFFICES ASSUME Types, ScreenInv, Quiet, NEW c \in Attached, ~mux.srv[c].needsFull, ~mux.srv[c].pending
             PROVE  /\ Len(mux.srv[c].last) = Len(Newest)
                    /\ \A i \in DOMAIN Newest : mux.srv[c].last[i] \in {Unknown, Newest[i]}
  BY DEF NobodyLeftBehind, Quiet
<1>1. mux \in Muxes /\ panes \in Threads
  BY DEF Types
<1>2. c \in ToSet(mux.att) /\ mux.att # <<>>
  BY DEF Attached, ToSet
<1>3. mux.viewport = Min({mux.srv[d].rows : d \in Attached})
  BY <1>2 DEF ScreenInv, Fits, Attached
<1>4. Newest = Render(mux)
  BY <1>3 DEF Newest, Render
<1>5. /\ Len(Newest) = mux.viewport /\ DOMAIN Newest = 1 .. mux.viewport
      /\ \A i \in 1 .. mux.viewport : Newest[i] = IF i = 1 THEN Bit(AnyArmed(mux)) ELSE panes.drawn
  <2>1. Render(mux) \in Seq(Nat)
    BY <1>1, RenderType
  <2> QED
    BY <1>1, <1>4, <2>1, RenderType
<1>6. /\ Len(mux.srv[c].last) = mux.viewport /\ AnyArmed(mux) = mux.armed
      /\ Shows(mux.srv[c], mux, panes.drawn)
  BY <1>2 DEF ScreenInv, OnScreen
<1> QED
  BY <1>5, <1>6 DEF Shows

(* A loop that sees nothing to do leaves no client behind: each one's         *)
(* baseline is the newest screen, of the size of the smallest attached        *)
(* client, or the client is marked for another frame (recompute_viewport,     *)
(* prune_dead_clients, drain_pane_dirty, push_frames).                        *)
THEOREM NobodyIsLeftBehind == Spec => []NobodyLeftBehind
<1> DEFINE Inv == Types /\ ScreenInv
<1>1. Init => Inv
  BY TypesInit, ScreenInit
<1>2. Inv /\ [Next]_vars => Inv'
  BY TypesStep, ScreenStep
<1>3. Inv => NobodyLeftBehind
  BY ScreensAre
<1> QED
  BY <1>1, <1>2, <1>3, PTL DEF Spec
================================================================================
