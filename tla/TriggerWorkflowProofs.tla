------------------------- MODULE TriggerWorkflowProofs -------------------------
(* Theorems of TriggerWorkflow, for every trigger list whose patterns are     *)
(* nested or disjoint and every number of events, runs and reloads.           *)
EXTENDS TriggerWorkflow, OperatorProofs

(* Tail, RemoveAt and Picked all take such a part.                           *)
LEMMA TailIsPart ==
  ASSUME NEW S, NEW seq \in Seq(S), seq # <<>>
  PROVE  /\ Tail(seq) \in Seq(S) /\ IsPart(Tail(seq), seq)
         /\ Len(Tail(seq)) = Len(seq) - 1
         /\ \A i \in DOMAIN Tail(seq) : i + 1 \in DOMAIN seq /\ Tail(seq)[i] = seq[i + 1]
  <1>1. /\ Tail(seq) \in Seq(S) /\ Len(Tail(seq)) = Len(seq) - 1
        /\ \A i \in DOMAIN Tail(seq) : i + 1 \in DOMAIN seq /\ Tail(seq)[i] = seq[i + 1]
    OBVIOUS
  <1> DEFINE f == [i \in DOMAIN Tail(seq) |-> i + 1]
  <1>2. /\ f \in [DOMAIN Tail(seq) -> DOMAIN seq]
        /\ \A i \in DOMAIN Tail(seq) : f[i] = i + 1
    BY <1>1
  <1>3. \A i, j \in DOMAIN Tail(seq) : i + 1 = j + 1 => i = j
    OBVIOUS
  <1> HIDE DEF f
  <1>4. QED
    BY <1>1, <1>2, <1>3 DEF IsPart

LEMMA WithoutIsPart ==
  ASSUME NEW S, NEW seq \in Seq(S), NEW p \in DOMAIN seq
  PROVE  /\ Without(seq, p) \in Seq(S) /\ IsPart(Without(seq, p), seq)
         /\ \A i \in DOMAIN Without(seq, p) :
              \E j \in DOMAIN seq : j # p /\ Without(seq, p)[i] = seq[j]
  <1> DEFINE rest == Without(seq, p)
             a == SubSeq(seq, 1, p - 1)
             b == SubSeq(seq, p + 1, Len(seq))
  <1>1. p \in 1 .. Len(seq) /\ Len(seq) \in Nat
    OBVIOUS
  <1>2. /\ a \in Seq(S) /\ Len(a) = p - 1
        /\ \A i \in 1 .. p - 1 : a[i] = seq[i]
    BY <1>1
  <1>3. /\ b \in Seq(S) /\ Len(b) = Len(seq) - p
        /\ \A i \in 1 .. Len(seq) - p : b[i] = seq[i + p]
    BY <1>1
  <1>4. rest = a \o b
    BY DEF Without, RemoveAt
  <1> HIDE DEF a, b, rest
  <1>5. /\ rest \in Seq(S) /\ Len(rest) = Len(seq) - 1
        /\ \A i \in 1 .. Len(seq) - 1 : rest[i] = IF i <= p - 1 THEN a[i] ELSE b[i - (p - 1)]
    <2>1. a \in Seq(S) /\ b \in Seq(S) /\ Len(a) = p - 1 /\ Len(b) = Len(seq) - p
      BY <1>2, <1>3
    <2>2. QED
      BY <1>1, <1>4, <2>1, SMTT(30)
  <1> DEFINE f == [i \in DOMAIN rest |-> IF i < p THEN i ELSE i + 1]
  <1>6. DOMAIN rest = 1 .. Len(seq) - 1
    BY <1>5
  <1>7. /\ f \in [DOMAIN rest -> DOMAIN seq]
        /\ \A i \in DOMAIN rest : f[i] # p
        /\ \A i, j \in DOMAIN rest : f[i] = f[j] => i = j
    BY <1>1, <1>6
  <1>8. ASSUME NEW i \in DOMAIN rest PROVE rest[i] = seq[f[i]]
    <2>1. CASE i < p
      BY <1>1, <1>2, <1>5, <1>6, <2>1
    <2>2. CASE ~(i < p)
      <3>1. i - (p - 1) \in 1 .. Len(seq) - p /\ (i - (p - 1)) + p = i + 1 /\ ~(i <= p - 1)
        BY <1>1, <1>6, <2>2
      <3>2. rest[i] = seq[i + 1]
        BY <1>3, <1>5, <1>6, <3>1
      <3>3. QED
        BY <2>2, <3>2
    <2>3. QED
      BY <2>1, <2>2
  <1> HIDE DEF f
  <1>9. \A i \in DOMAIN rest : f[i] \in DOMAIN seq
    BY <1>7
  <1>10. QED
    BY <1>5, <1>7, <1>8, <1>9 DEF IsPart, rest

(* What SelectInSeq finds is a place of the sequence.                       *)
LEMMA FirstOfFound ==
  ASSUME NEW a, preflight \in Seq(Nat)
  PROVE  FirstOf(a) = 0 \/ FirstOf(a) \in DOMAIN preflight
  <1> DEFINE T == {i \in 1 .. Len(preflight) : runs[preflight[i]].action = a}
  <1>1. T \subseteq Nat /\ T \subseteq DOMAIN preflight
    OBVIOUS
  <1>2. FirstOf(a) = IF T # {} THEN Min(T) ELSE 0
    BY DEF FirstOf, SelectInSeq
  <1> HIDE DEF T
  <1>3. QED
    BY <1>1, <1>2, LeastNatural

(* try_match_pending_awaits, unfolded: nothing, or one pending entry of an  *)
(* internal event leaves the pool and is announced.                         *)
LEMMA MatchPendingIs ==
  ASSUME NEW e, pending \in Seq(Nat), MatchPending(e)
  PROVE  \/ UNCHANGED <<pending, busVars, awaited>>
         \/ /\ e.internal
            /\ \E i \in DOMAIN pending :
                 pending' = Without(pending, i) /\ Emit(pending[i], e)
  <1> DEFINE T == {i \in 1 .. Len(pending) : Answers(e, pending[i])}
             i == SelectInSeq(pending, LAMBDA r : Answers(e, r))
  <1>1. T \subseteq Nat /\ T \subseteq DOMAIN pending
    OBVIOUS
  <1>2. i = IF T # {} THEN Min(T) ELSE 0
    BY DEF SelectInSeq
  <1>3. i = 0 \/ i \in DOMAIN pending
    <2> HIDE DEF T, i
    <2>1. QED
      BY <1>1, <1>2, LeastNatural
  <1>4. MatchPending(e) = LET k == IF EntersAwaits(e) THEN i ELSE 0
                          IN  IF k = 0 THEN UNCHANGED <<pending, busVars, awaited>>
                              ELSE pending' = Without(pending, k) /\ Emit(pending[k], e)
    BY DEF MatchPending
  <1> HIDE DEF i
  <1>5. QED
    BY <1>3, <1>4 DEF EntersAwaits

(* The sorted batch is made of the events of the batch.                     *)
LEMMA CompletionsFirstIs ==
  ASSUME NEW S, NEW b \in Seq(S)
  PROVE  /\ CompletionsFirst(b) \in Seq(S) /\ IsPart(CompletionsFirst(b), b)
         /\ \A i, j \in DOMAIN CompletionsFirst(b) :
              i < j /\ IsCompletion(CompletionsFirst(b)[j]) => IsCompletion(CompletionsFirst(b)[i])
  <1> DEFINE ends == {i \in DOMAIN b : IsCompletion(b[i])}
             rest == DOMAIN b \ ends
             x == Picked(b, ends)
             y == Picked(b, rest)
             all == CompletionsFirst(b)
  <1>1. all = x \o y
    BY DEF CompletionsFirst
  <1>2. PICK f \in [DOMAIN x -> ends] :
          /\ \A i \in DOMAIN x : x[i] = b[f[i]]
          /\ \A i, j \in DOMAIN x : f[i] = f[j] => i = j
    <2> HIDE DEF x
    <2>1. ends \in SUBSET DOMAIN b
      OBVIOUS
    <2> HIDE DEF ends
    <2>2. QED
      BY <2>1, PickedIsPart DEF x
  <1>3. PICK g \in [DOMAIN y -> rest] :
          /\ \A i \in DOMAIN y : y[i] = b[g[i]]
          /\ \A i, j \in DOMAIN y : g[i] = g[j] => i = j
    <2> HIDE DEF y
    <2>1. rest \in SUBSET DOMAIN b
      OBVIOUS
    <2> HIDE DEF rest
    <2>2. QED
      BY <2>1, PickedIsPart DEF y
  <1>4. x \in Seq(S) /\ y \in Seq(S)
    BY PickedIsPart
  <1>5. /\ \A i \in DOMAIN x : IsCompletion(x[i]) /\ f[i] \in DOMAIN b
        /\ \A i \in DOMAIN y : ~ IsCompletion(y[i]) /\ g[i] \in DOMAIN b
        /\ \A i \in DOMAIN x, j \in DOMAIN y : f[i] # g[j]
    BY <1>2, <1>3
  <1> HIDE DEF x, y, ends, rest, all
  <1>6. /\ all \in Seq(S) /\ DOMAIN all = 1 .. Len(x) + Len(y)
        /\ Len(x) \in Nat /\ Len(y) \in Nat
        /\ DOMAIN x = 1 .. Len(x) /\ DOMAIN y = 1 .. Len(y)
        /\ \A i \in DOMAIN all : all[i] = IF i <= Len(x) THEN x[i] ELSE y[i - Len(x)]
    BY <1>1, <1>4
  <1>7. \A i \in DOMAIN all : ~(i <= Len(x)) => i - Len(x) \in DOMAIN y
    BY <1>6
  <1>8. \A i \in DOMAIN all : i <= Len(x) => i \in DOMAIN x
    BY <1>6
  <1> DEFINE h == [i \in DOMAIN all |-> IF i <= Len(x) THEN f[i] ELSE g[i - Len(x)]]
  <1>9. h \in [DOMAIN all -> DOMAIN b]
    BY <1>5, <1>7, <1>8
  <1>10. \A i \in DOMAIN all : all[i] = b[h[i]]
    BY <1>2, <1>3, <1>6, <1>7, <1>8
  <1>11. ASSUME NEW i \in DOMAIN all, NEW j \in DOMAIN all, h[i] = h[j]
         PROVE  i = j
    <2>1. CASE i <= Len(x) /\ j <= Len(x)
      BY <1>2, <1>8, <1>11, <2>1
    <2>2. CASE ~(i <= Len(x)) /\ ~(j <= Len(x))
      <3>1. i - Len(x) = j - Len(x)
        BY <1>3, <1>7, <1>11, <2>2
      <3>2. QED
        BY <1>6, <3>1
    <2>3. CASE (i <= Len(x)) # (j <= Len(x))
      BY <1>5, <1>7, <1>8, <1>11, <2>3
    <2>4. QED
      BY <2>1, <2>2, <2>3
  <1> HIDE DEF h
  <1>12. IsPart(all, b)
    BY <1>9, <1>10, <1>11 DEF IsPart
  <1>13. ASSUME NEW i \in DOMAIN all, NEW j \in DOMAIN all, i < j, IsCompletion(all[j])
         PROVE  IsCompletion(all[i])
    <2>1. j <= Len(x)
      BY <1>5, <1>6, <1>7, <1>13
    <2>2. i <= Len(x)
      BY <1>6, <1>13, <2>1
    <2>3. QED
      BY <1>5, <1>6, <1>8, <2>2
  <1>14. QED
    BY <1>6, <1>12, <1>13 DEF all

(* try_promote_or_drop_preflight, unfolded.                                 *)
LEMMA PromoteIs ==
  ASSUME preflight \in Seq(Nat), Promote
  PROVE  \/ UNCHANGED <<preflight, pending>>
         \/ \E i \in DOMAIN preflight :
              /\ preflight' = Without(preflight, i)
              /\ pending' = pending \/ pending' = Append(pending, preflight[i])
  <1> DEFINE e == Head(batch)
             i == IF EntersAwaits(e) /\ IsCompletion(e) THEN FirstOf(e.kind[2]) ELSE 0
  <1>1. i = 0 \/ i \in DOMAIN preflight
    BY FirstOfFound
  <1>2. IF i = 0 THEN UNCHANGED poolVars
        ELSE /\ preflight' = Without(preflight, i)
             /\ IF e.kind = Completed(e.kind[2])
                THEN pending' = Append(pending, preflight[i])
                ELSE UNCHANGED pending
    BY DEF Promote
  <1> HIDE DEF i
  <1>3. QED
    BY <1>1, <1>2 DEF poolVars

----------------------------------------------------------------------------
(* What the variables hold.                                                 *)
EventKinds == {Event(k) : k \in Kinds}
              \union {Completed(a) : a \in Actions} \union {Failed(a) : a \in Actions}
              \union {Awaited(t.name) : t \in AllTriggers}
EventSet == [id : Nat, kind : EventKinds, internal : BOOLEAN, of : Nat]
RunSet == [action : Actions, trigger : AllTriggers \union {None}, internal : BOOLEAN]

(* A pool of awaits holds runs that a trigger started.                      *)
IsPool(pool) ==
  /\ pool \in Seq(Nat)
  /\ \A i \in DOMAIN pool : pool[i] \in DOMAIN runs /\ runs[pool[i]].trigger \in AllTriggers

Types ==
  /\ triggers \in Configs
  /\ published \in Nat
  /\ queue = [p \in DOMAIN queue |-> queue[p]]
  /\ \A p \in DOMAIN queue : queue[p] \in Seq(EventSet)
  /\ runs \in Seq(RunSet)
  /\ busy \subseteq DOMAIN runs
  /\ IsPool(preflight) /\ IsPool(pending) /\ IsPool(expired)
  /\ batch \in Seq(EventSet)
  /\ firing \subseteq AllTriggers
  /\ seen \subseteq Nat
  /\ \A x \in awaited : x.run \in DOMAIN runs


LEMMA PublishTypes ==
  ASSUME Types, NEW kind \in EventKinds, NEW internal \in BOOLEAN, NEW of \in Nat,
         Publish(kind, internal, of)
  PROVE  /\ published' \in Nat
         /\ DOMAIN queue' = DOMAIN queue
         /\ queue' = [p \in DOMAIN queue' |-> queue'[p]]
         /\ \A p \in DOMAIN queue' : queue'[p] \in Seq(EventSet)
  <1> DEFINE e == [id |-> published + 1, kind |-> kind, internal |-> internal, of |-> of]
  <1>1. published' = published + 1 /\ published' \in Nat
    BY DEF Publish, Types
  <1>2. e \in EventSet
    BY <1>1 DEF EventSet
  <1>3. queue' = [p \in DOMAIN queue |->
                    IF kind \in p THEN Append(queue[p], e) ELSE queue[p]]
    BY DEF Publish
  <1> HIDE DEF e
  <1>4. ASSUME NEW p \in DOMAIN queue PROVE queue'[p] \in Seq(EventSet)
    <2>1. queue[p] \in Seq(EventSet)
      BY DEF Types
    <2>2. Append(queue[p], e) \in Seq(EventSet)
      BY <1>2, <2>1
    <2>3. QED
      BY <1>3, <2>1, <2>2
  <1>5. QED
    BY <1>1, <1>3, <1>4

(* A part of a pool is a pool.                                              *)
LEMMA PoolPart ==
  ASSUME NEW pool, NEW part, IsPool(pool), part \in Seq(Nat), IsPart(part, pool)
  PROVE  IsPool(part)
  <1>1. PICK f \in [DOMAIN part -> DOMAIN pool] : \A i \in DOMAIN part : part[i] = pool[f[i]]
    BY DEF IsPart
  <1>2. QED
    BY <1>1 DEF IsPool

LEMMA PoolAppend ==
  ASSUME NEW pool, IsPool(pool), NEW r \in Nat, r \in DOMAIN runs,
         runs[r].trigger \in AllTriggers
  PROVE  IsPool(Append(pool, r))
  <1>1. pool \in Seq(Nat)
    BY DEF IsPool
  <1>2. /\ Append(pool, r) \in Seq(Nat)
        /\ \A i \in DOMAIN Append(pool, r) :
             \/ Append(pool, r)[i] = r
             \/ i \in DOMAIN pool /\ Append(pool, r)[i] = pool[i]
    BY <1>1
  <1>3. QED
    BY <1>2 DEF IsPool

LEMMA PoolConcat ==
  ASSUME NEW pool, NEW other, IsPool(pool), IsPool(other)
  PROVE  IsPool(pool \o other)
  <1>1. pool \in Seq(Nat) /\ other \in Seq(Nat)
    BY DEF IsPool
  <1>2. /\ pool \o other \in Seq(Nat)
        /\ \A i \in DOMAIN (pool \o other) :
             \/ i \in DOMAIN pool /\ (pool \o other)[i] = pool[i]
             \/ i - Len(pool) \in DOMAIN other /\ (pool \o other)[i] = other[i - Len(pool)]
    BY <1>1
  <1>3. QED
    BY <1>2 DEF IsPool

(* Publishers, invokers and action handlers.                                *)
LEMMA TypesOutside ==
  ASSUME Types,
         \/ \E p \in Publications, of \in 0 .. Len(runs) : Publisher(p, of)
         \/ \E a \in Actions : Invoke(a)
         \/ \E r \in busy : RunEnds(r)
  PROVE  Types'
  <1>1. ASSUME NEW p \in Publications, NEW of \in 0 .. Len(runs), Publisher(p, of)
        PROVE  Types'
    <2>1. Event(p.kind) \in EventKinds /\ p.internal \in BOOLEAN
      BY PublicationsAssumption DEF EventKinds
    <2>2. of \in Nat
      BY DEF Types
    <2>3. Publish(Event(p.kind), p.internal, of)
      BY <1>1 DEF Publisher
    <2>4. UNCHANGED <<triggers, runs, busy, preflight, pending, expired, batch, firing, seen, awaited>>
      BY <1>1 DEF Publisher, runVars, poolVars, passVars, history
    <2>5. QED
      BY <2>1, <2>2, <2>3, <2>4, PublishTypes DEF Types, IsPool
  <1>2. ASSUME NEW a \in Actions, Invoke(a)
        PROVE  Types'
    <2>1. /\ runs' = Append(runs, [action |-> a, trigger |-> None, internal |-> FALSE])
          /\ busy' = busy \union {Len(runs) + 1}
          /\ UNCHANGED <<triggers, queue, published, preflight, pending, expired, batch,
                         firing, seen, awaited>>
      BY <1>2 DEF Invoke, busVars, poolVars, passVars, history
    <2>2. runs \in Seq(RunSet) /\ busy \subseteq DOMAIN runs
      BY DEF Types
    <2>3. [action |-> a, trigger |-> None, internal |-> FALSE] \in RunSet
      BY DEF RunSet
    <2>4. /\ runs' \in Seq(RunSet) /\ busy' \subseteq DOMAIN runs'
          /\ \A r \in DOMAIN runs : r \in DOMAIN runs' /\ runs'[r] = runs[r]
      BY <2>1, <2>2, <2>3
    <2>5. QED
      BY <2>1, <2>4 DEF Types, IsPool
  <1>3. ASSUME NEW r \in busy, RunEnds(r)
        PROVE  Types'
    <2>1. r \in DOMAIN runs /\ runs \in Seq(RunSet)
      BY DEF Types
    <2>2. runs[r].action \in Actions /\ r \in Nat
      <3>1. runs[r] \in RunSet /\ r \in Nat
        BY <2>1
      <3>2. QED
        BY <3>1 DEF RunSet
    <2>3. Completed(runs[r].action) \in EventKinds /\ Failed(runs[r].action) \in EventKinds
      BY <2>2 DEF EventKinds
    <2>4. /\ published' \in Nat
          /\ queue' = [p \in DOMAIN queue' |-> queue'[p]]
          /\ \A p \in DOMAIN queue' : queue'[p] \in Seq(EventSet)
      <3>1. CASE \/ Publish(Completed(runs[r].action), TRUE, r)
                 \/ Publish(Failed(runs[r].action), TRUE, r)
        BY <2>2, <2>3, <3>1, PublishTypes
      <3>2. CASE UNCHANGED <<queue, published>>
        BY <3>2 DEF Types
      <3>3. QED
        BY <1>3, <3>1, <3>2 DEF RunEnds
    <2>5. /\ busy' \subseteq busy
          /\ UNCHANGED <<triggers, runs, preflight, pending, expired, batch, firing, seen, awaited>>
      BY <1>3 DEF RunEnds, poolVars, passVars, history
    <2>6. QED
      BY <2>4, <2>5 DEF Types, IsPool
  <1>4. QED
    BY <1>1, <1>2, <1>3

LEMMA EmitTypes ==
  ASSUME Types, NEW pool, IsPool(pool), NEW i \in DOMAIN pool, NEW by, Emit(pool[i], by)
  PROVE  /\ published' \in Nat
         /\ DOMAIN queue' = DOMAIN queue
         /\ queue' = [p \in DOMAIN queue' |-> queue'[p]]
         /\ \A p \in DOMAIN queue' : queue'[p] \in Seq(EventSet)
         /\ \A x \in awaited' : x.run \in DOMAIN runs
  <1>1. pool[i] \in Nat /\ pool[i] \in DOMAIN runs /\ Clause(pool[i]) \in AllTriggers
    BY DEF IsPool, Clause
  <1>2. Awaited(Clause(pool[i]).name) \in EventKinds
    BY <1>1 DEF EventKinds
  <1>3. awaited' = awaited \union {[id |-> published + 1, run |-> pool[i], by |-> by]}
    BY DEF Emit
  <1>4. Publish(Awaited(Clause(pool[i]).name), TRUE, pool[i])
    BY DEF Emit
  <1>5. /\ published' \in Nat /\ DOMAIN queue' = DOMAIN queue
        /\ queue' = [p \in DOMAIN queue' |-> queue'[p]]
        /\ \A p \in DOMAIN queue' : queue'[p] \in Seq(EventSet)
    BY <1>1, <1>2, <1>4, PublishTypes
  <1>6. \A x \in awaited' : x.run \in DOMAIN runs
    BY <1>1, <1>3 DEF Types
  <1>7. QED
    BY <1>5, <1>6

(* The steps of a pass.                                                     *)
LEMMA TypesDrain ==
  ASSUME Types, NEW p \in DOMAIN queue, Drain(p)
  PROVE  Types'
  <1>1. /\ queue' = [queue EXCEPT ![p] = <<>>]
        /\ batch' = CompletionsFirst(batch \o queue[p]) \/ batch' = batch \o queue[p]
        /\ UNCHANGED <<triggers, published, runs, busy, preflight, pending, expired,
                       firing, seen, awaited>>
    BY DEF Drain, runVars, poolVars, history
  <1>2. batch \in Seq(EventSet) /\ queue[p] \in Seq(EventSet)
    BY DEF Types
  <1>3. batch \o queue[p] \in Seq(EventSet)
    BY <1>2
  <1>4. batch' \in Seq(EventSet)
    BY <1>1, <1>3, CompletionsFirstIs
  <1>5. <<>> \in Seq(EventSet)
    OBVIOUS
  <1>6. /\ DOMAIN queue' = DOMAIN queue
        /\ \A q \in DOMAIN queue' : queue'[q] \in Seq(EventSet)
        /\ queue' = [q \in DOMAIN queue' |-> queue'[q]]
    <2> HIDE DEF Types
    <2>1. queue = [q \in DOMAIN queue |-> queue[q]] /\ \A q \in DOMAIN queue : queue[q] \in Seq(EventSet)
      BY DEF Types
    <2>2. QED
      BY <1>1, <1>5, <2>1
  <1>7. QED
    BY <1>1, <1>4, <1>6 DEF Types, IsPool

LEMMA TypesPromote ==
  ASSUME Types, Promote
  PROVE  Types'
  <1>1. /\ batch # <<>> /\ seen' = seen \union {Head(batch).id}
        /\ UNCHANGED <<triggers, queue, published, runs, busy, expired, batch, firing, awaited>>
    BY DEF Promote, Dispatching, busVars, runVars
  <1>2. batch \in Seq(EventSet) /\ preflight \in Seq(Nat) /\ pending \in Seq(Nat)
    BY DEF Types, IsPool
  <1>3. Head(batch).id \in Nat
    <2>1. Head(batch) \in EventSet
      BY <1>1, <1>2
    <2>2. QED
      BY <2>1 DEF EventSet
  <1>4. IsPool(preflight) /\ IsPool(pending)
    BY DEF Types
  <1>5. \/ UNCHANGED <<preflight, pending>>
        \/ \E i \in DOMAIN preflight :
             /\ preflight' = Without(preflight, i)
             /\ pending' = pending \/ pending' = Append(pending, preflight[i])
    BY <1>2, PromoteIs
  <1>6. IsPool(preflight') /\ IsPool(pending')
    <2>1. CASE UNCHANGED <<preflight, pending>>
      BY <1>4, <2>1
    <2>2. ASSUME NEW i \in DOMAIN preflight, preflight' = Without(preflight, i),
                 pending' = pending \/ pending' = Append(pending, preflight[i])
          PROVE  IsPool(preflight') /\ IsPool(pending')
      <3>1. preflight' \in Seq(Nat) /\ IsPart(preflight', preflight)
        BY <1>2, <2>2, WithoutIsPart
      <3>2. IsPool(preflight')
        BY <1>4, <3>1, PoolPart
      <3>3. /\ preflight[i] \in Nat /\ preflight[i] \in DOMAIN runs
            /\ runs[preflight[i]].trigger \in AllTriggers
        BY <1>4, <2>2 DEF IsPool
      <3>4. IsPool(Append(pending, preflight[i]))
        BY <1>4, <3>3, PoolAppend
      <3>5. QED
        BY <1>4, <2>2, <3>2, <3>4
    <2>3. QED
      BY <1>5, <2>1, <2>2
  <1>7. IsPool(preflight)' /\ IsPool(pending)' /\ IsPool(expired)'
    BY <1>1, <1>6 DEF IsPool, Types
  <1>8. QED
    BY <1>1, <1>3, <1>7 DEF Types

LEMMA TypesMatch ==
  ASSUME Types, Match
  PROVE  Types'
  <1>1. /\ MatchPending(Head(batch))
        /\ firing' \subseteq triggers
        /\ UNCHANGED <<triggers, runs, busy, preflight, expired, batch, seen>>
    BY DEF Match, runVars
  <1>2. IsPool(preflight) /\ IsPool(pending) /\ IsPool(expired) /\ pending \in Seq(Nat)
    BY DEF Types, IsPool
  <1>3. firing' \subseteq AllTriggers
    BY <1>1 DEF AllTriggers, Types
  <1>4. CASE UNCHANGED <<pending, busVars, awaited>>
    BY <1>1, <1>3, <1>4 DEF Types, busVars, IsPool
  <1>5. ASSUME NEW i \in DOMAIN pending, pending' = Without(pending, i),
               Emit(pending[i], Head(batch))
        PROVE  Types'
    <2>1. pending' \in Seq(Nat) /\ IsPart(pending', pending)
      BY <1>2, <1>5, WithoutIsPart
    <2>2. IsPool(pending')
      BY <1>2, <2>1, PoolPart
    <2>3. IsPool(pending)' /\ IsPool(preflight)' /\ IsPool(expired)'
      BY <1>1, <1>2, <2>2 DEF IsPool
    <2>4. /\ published' \in Nat
          /\ queue' = [p \in DOMAIN queue' |-> queue'[p]]
          /\ \A p \in DOMAIN queue' : queue'[p] \in Seq(EventSet)
          /\ \A x \in awaited' : x.run \in DOMAIN runs
      BY <1>2, <1>5, EmitTypes
    <2>5. QED
      BY <1>1, <1>3, <2>3, <2>4 DEF Types
  <1>6. QED
    BY <1>1, <1>2, <1>4, <1>5, MatchPendingIs

LEMMA TypesFire ==
  ASSUME Types, NEW t \in firing, Fire(t)
  PROVE  Types'
  <1>1. /\ batch # <<>> /\ batch \in Seq(EventSet) /\ t \in AllTriggers
        /\ runs \in Seq(RunSet) /\ busy \subseteq DOMAIN runs
        /\ firing' \subseteq firing
        /\ UNCHANGED <<triggers, pending, expired, batch, seen, awaited>>
    BY DEF Fire, Dispatching, Types, history
  <1>2. t.action \in Actions
    BY <1>1, ConfigsAssumption DEF AllTriggers
  <1>3. CASE Accepted(t)
    <2>1. /\ runs' = Append(runs, [action |-> t.action, trigger |-> t,
                                   internal |-> Head(batch).internal])
          /\ busy' = busy \union {Len(runs) + 1}
          /\ preflight' = IF t.await # {} THEN Append(preflight, Len(runs) + 1) ELSE preflight
          /\ UNCHANGED <<queue, published>>
      BY <1>3 DEF Accepted, busVars
    <2>2. [action |-> t.action, trigger |-> t, internal |-> Head(batch).internal] \in RunSet
      <3>1. Head(batch) \in EventSet
        BY <1>1
      <3>2. Head(batch).internal \in BOOLEAN
        BY <3>1 DEF EventSet
      <3>3. QED
        BY <1>1, <1>2, <3>2 DEF RunSet
    <2>3. /\ runs' \in Seq(RunSet) /\ busy' \subseteq DOMAIN runs'
          /\ Len(runs) + 1 \in DOMAIN runs' /\ Len(runs) + 1 \in Nat
          /\ runs'[Len(runs) + 1].trigger = t
          /\ \A r \in DOMAIN runs : r \in DOMAIN runs' /\ runs'[r] = runs[r]
      BY <1>1, <2>1, <2>2
    <2>4. /\ IsPool(preflight) /\ IsPool(pending) /\ IsPool(expired)
          /\ preflight \in Seq(Nat)
      BY DEF Types, IsPool
    <2>5. IsPool(pending)' /\ IsPool(expired)'
      BY <1>1, <2>3, <2>4 DEF IsPool
    <2>6. preflight' \in Seq(Nat)
      BY <2>1, <2>3, <2>4
    <2>7. \A i \in DOMAIN preflight' :
             preflight'[i] = Len(runs) + 1 \/ preflight'[i] \in {preflight[j] : j \in DOMAIN preflight}
      BY <2>1, <2>3, <2>4
    <2>8. IsPool(preflight)'
      <3>1. \A j \in DOMAIN preflight :
              /\ preflight[j] \in DOMAIN runs'
              /\ runs'[preflight[j]].trigger \in AllTriggers
        BY <2>3, <2>4 DEF IsPool
      <3>2. ASSUME NEW i \in DOMAIN preflight'
            PROVE  /\ preflight'[i] \in DOMAIN runs'
                   /\ runs'[preflight'[i]].trigger \in AllTriggers
        <4>1. CASE preflight'[i] = Len(runs) + 1
          BY <1>1, <2>3, <4>1
        <4>2. CASE preflight'[i] # Len(runs) + 1
          BY <2>7, <3>1, <4>2
        <4>3. QED
          BY <4>1, <4>2
      <3>3. QED
        BY <2>6, <3>2 DEF IsPool
    <2>9. QED
      BY <1>1, <2>1, <2>3, <2>5, <2>8 DEF Types
  <1>4. CASE Refused(t)
    <2>1. Failed(t.action) \in EventKinds
      BY <1>2 DEF EventKinds
    <2>2. /\ published' \in Nat
          /\ queue' = [p \in DOMAIN queue' |-> queue'[p]]
          /\ \A p \in DOMAIN queue' : queue'[p] \in Seq(EventSet)
      <3>1. CASE Publish(Failed(t.action), TRUE, 0)
        BY <2>1, <3>1, PublishTypes
      <3>2. CASE UNCHANGED <<queue, published>>
        BY <3>2 DEF Types
      <3>3. QED
        BY <1>4, <3>1, <3>2 DEF Refused
    <2>3. UNCHANGED <<runs, busy, preflight>>
      BY <1>4 DEF Refused, runVars
    <2>4. QED
      BY <1>1, <2>2, <2>3 DEF Types, IsPool
  <1>5. QED
    BY <1>3, <1>4 DEF Fire

LEMMA TypesNextEvent ==
  ASSUME Types, NextEvent
  PROVE  Types'
  <1>1. /\ batch # <<>> /\ batch \in Seq(EventSet) /\ batch' = Tail(batch)
        /\ UNCHANGED <<triggers, queue, published, runs, busy, preflight, pending,
                       expired, firing, seen, awaited>>
    BY DEF NextEvent, Dispatching, Types, busVars, runVars, poolVars, history
  <1>2. batch' \in Seq(EventSet)
    BY <1>1
  <1>3. QED
    BY <1>1, <1>2 DEF Types, IsPool

LEMMA TypesPass ==
  ASSUME Types, Pass
  PROVE  Types'
  BY TypesDrain, TypesPromote, TypesMatch, TypesFire, TypesNextEvent DEF Pass

(* What a sweep keeps of a pool and what it emits defaults for.             *)
LEMMA SweptIs ==
  ASSUME NEW pool \in Seq(Nat)
  PROVE  /\ Kept(pool) \in Seq(Nat) /\ IsPart(Kept(pool), pool)
         /\ Defaults(pool) \in Seq(Nat) /\ IsPart(Defaults(pool), pool)
         /\ \A i \in DOMAIN Kept(pool) : ~Expired(Kept(pool)[i])
         /\ \A i \in DOMAIN Defaults(pool) : Expired(Defaults(pool)[i])
  <1> DEFINE live == {i \in DOMAIN pool : ~Expired(pool[i])}
             over == {i \in DOMAIN pool : Expired(pool[i]) /\ Clause(pool[i]).fallback}
  <1>1. /\ Kept(pool) = Picked(pool, live) /\ Defaults(pool) = Picked(pool, over)
    BY DEF Kept, Defaults
  <1>2. /\ live \in SUBSET DOMAIN pool /\ over \in SUBSET DOMAIN pool
        /\ \A i \in live : ~Expired(pool[i])
        /\ \A i \in over : Expired(pool[i])
    OBVIOUS
  <1> HIDE DEF live, over
  <1>3. /\ Kept(pool) \in Seq(Nat) /\ IsPart(Kept(pool), pool)
        /\ \E f \in [DOMAIN Kept(pool) -> live] :
             \A i \in DOMAIN Kept(pool) : Kept(pool)[i] = pool[f[i]]
    <2>1. /\ Picked(pool, live) \in Seq(Nat) /\ IsPart(Picked(pool, live), pool)
          /\ \E f \in [DOMAIN Picked(pool, live) -> live] :
               \A i \in DOMAIN Picked(pool, live) : Picked(pool, live)[i] = pool[f[i]]
      BY <1>2, PickedIsPart
    <2>2. QED
      BY <1>1, <2>1
  <1>4. /\ Defaults(pool) \in Seq(Nat) /\ IsPart(Defaults(pool), pool)
        /\ \E f \in [DOMAIN Defaults(pool) -> over] :
             \A i \in DOMAIN Defaults(pool) : Defaults(pool)[i] = pool[f[i]]
    <2>1. /\ Picked(pool, over) \in Seq(Nat) /\ IsPart(Picked(pool, over), pool)
          /\ \E f \in [DOMAIN Picked(pool, over) -> over] :
               \A i \in DOMAIN Picked(pool, over) : Picked(pool, over)[i] = pool[f[i]]
      BY <1>2, PickedIsPart
    <2>2. QED
      BY <1>1, <2>1
  <1>5. QED
    BY <1>2, <1>3, <1>4

LEMMA TypesPump ==
  ASSUME Types, Pump
  PROVE  Types'
  <1>1. CASE PumpLocks
    <2>1. /\ batch' = <<>> /\ firing' = {}
          /\ UNCHANGED <<triggers, queue, published, runs, busy, preflight, pending,
                         expired, seen, awaited>>
      BY <1>1 DEF PumpLocks, PassBegins, busVars, runVars, poolVars, history
    <2>2. QED
      BY <2>1 DEF Types, IsPool
  <1>2. CASE PumpUnlocks
    BY <1>2 DEF PumpUnlocks, Types, IsPool, busVars, runVars, poolVars, history
  <1>3. IsPool(preflight) /\ IsPool(pending) /\ IsPool(expired)
    BY DEF Types
  <1>4. CASE SweepPreflight
    <2>1. /\ preflight' = Kept(preflight) /\ expired' = Defaults(preflight)
          /\ UNCHANGED <<triggers, queue, published, runs, busy, pending, batch, firing,
                         seen, awaited>>
      BY <1>4 DEF SweepPreflight, busVars, runVars, passVars, history
    <2>2. preflight \in Seq(Nat)
      BY <1>3 DEF IsPool
    <2>3. IsPool(Kept(preflight)) /\ IsPool(Defaults(preflight))
      BY <1>3, <2>2, SweptIs, PoolPart
    <2>4. IsPool(preflight)' /\ IsPool(expired)' /\ IsPool(pending)'
      BY <1>3, <2>1, <2>3 DEF IsPool
    <2>5. QED
      BY <2>1, <2>4 DEF Types
  <1>5. CASE SweepPending
    <2>1. /\ pending' = Kept(pending) /\ expired' = expired \o Defaults(pending)
          /\ UNCHANGED <<triggers, queue, published, runs, busy, preflight, batch, firing,
                         seen, awaited>>
      BY <1>5 DEF SweepPending, busVars, runVars, passVars, history
    <2>2. pending \in Seq(Nat)
      BY <1>3 DEF IsPool
    <2>3. IsPool(Kept(pending)) /\ IsPool(Defaults(pending))
      BY <1>3, <2>2, SweptIs, PoolPart
    <2>4. IsPool(expired \o Defaults(pending))
      BY <1>3, <2>3, PoolConcat
    <2>5. IsPool(preflight)' /\ IsPool(expired)' /\ IsPool(pending)'
      BY <1>3, <2>1, <2>3, <2>4 DEF IsPool
    <2>6. QED
      BY <2>1, <2>5 DEF Types
  <1>6. CASE SweepEmits
    <2>1. CASE expired = <<>>
      BY <1>6, <2>1 DEF SweepEmits, Types, IsPool, busVars, runVars, poolVars, passVars
    <2>2. CASE expired # <<>>
      <3>1. /\ Emit(Head(expired), None) /\ expired' = Tail(expired)
            /\ UNCHANGED <<triggers, runs, busy, preflight, pending, batch, firing, seen>>
        BY <1>6, <2>2 DEF SweepEmits, runVars, poolVars, passVars
      <3>2. expired \in Seq(Nat)
        BY <1>3 DEF IsPool
      <3>3. 1 \in DOMAIN expired /\ Head(expired) = expired[1]
        BY <2>2, <3>2
      <3>4. /\ published' \in Nat
            /\ queue' = [p \in DOMAIN queue' |-> queue'[p]]
            /\ \A p \in DOMAIN queue' : queue'[p] \in Seq(EventSet)
            /\ \A x \in awaited' : x.run \in DOMAIN runs
        BY <1>3, <3>1, <3>3, EmitTypes
      <3>5. IsPool(Tail(expired))
        BY <1>3, <2>2, <3>2, TailIsPart, PoolPart
      <3>6. IsPool(preflight)' /\ IsPool(expired)' /\ IsPool(pending)'
        BY <1>3, <3>1, <3>5 DEF IsPool
      <3>7. QED
        BY <3>1, <3>4, <3>6 DEF Types
    <2>3. QED
      BY <2>1, <2>2
  <1>7. QED
    BY <1>1, <1>2, <1>4, <1>5, <1>6 DEF Pump

(* The config watcher.                                                      *)
LEMMA TypesWatcher ==
  ASSUME Types, Watcher
  PROVE  Types'
  <1>1. IsPool(preflight) /\ IsPool(pending) /\ IsPool(expired)
    BY DEF Types
  <1>2. IsPool(<<>>)
    BY DEF IsPool
  <1>3. CASE WatchSwaps
    BY <1>3 DEF WatchSwaps, Types, IsPool, busVars, runVars, poolVars, passVars, history
  <1>4. CASE WatchClearsPreflight
    <2>1. /\ preflight' = <<>>
          /\ UNCHANGED <<triggers, queue, published, runs, busy, pending, expired, batch,
                         firing, seen, awaited>>
      BY <1>4 DEF WatchClearsPreflight, busVars, runVars, passVars, history
    <2>2. IsPool(preflight)' /\ IsPool(expired)' /\ IsPool(pending)'
      BY <1>1, <1>2, <2>1 DEF IsPool
    <2>3. QED
      BY <2>1, <2>2 DEF Types
  <1>5. CASE WatchClearsPending
    <2>1. /\ pending' = <<>>
          /\ UNCHANGED <<triggers, queue, published, runs, busy, preflight, expired, batch,
                         firing, seen, awaited>>
      BY <1>5 DEF WatchClearsPending, busVars, runVars, passVars, history
    <2>2. IsPool(preflight)' /\ IsPool(expired)' /\ IsPool(pending)'
      BY <1>1, <1>2, <2>1 DEF IsPool
    <2>3. QED
      BY <2>1, <2>2 DEF Types
  <1>6. CASE WatchLocks
    <2>1. /\ batch' = <<>> /\ firing' = {}
          /\ UNCHANGED <<triggers, queue, published, runs, busy, preflight, pending,
                         expired, seen, awaited>>
      BY <1>6 DEF WatchLocks, PassBegins, busVars, runVars, poolVars, history
    <2>2. QED
      BY <2>1 DEF Types, IsPool
  <1>7. CASE WatchRetains
    <2>1. /\ queue' = [p \in Needed(triggers) \intersect DOMAIN queue |-> queue[p]]
          /\ UNCHANGED <<triggers, published, runs, busy, preflight, pending, expired,
                         batch, firing, seen, awaited>>
      BY <1>7 DEF WatchRetains, Retained, Restrict, runVars, poolVars, passVars, history
    <2>2. QED
      BY <2>1 DEF Types, IsPool
  <1>8. CASE WatchUnlocks
    BY <1>8 DEF WatchUnlocks, Types, IsPool, busVars, runVars, poolVars, history
  <1>9. ASSUME NEW p \in Needed(triggers), WatchSubscribes(p)
        PROVE  Types'
    <2>1. /\ queue' = [q \in DOMAIN queue \union {p} |-> IF q = p THEN <<>> ELSE queue[q]]
          /\ UNCHANGED <<triggers, published, runs, busy, preflight, pending, expired,
                         batch, firing, seen, awaited>>
      BY <1>9 DEF WatchSubscribes, runVars, poolVars, passVars, history
    <2>2. QED
      BY <2>1 DEF Types, IsPool
  <1>10. QED
    BY <1>3, <1>4, <1>5, <1>6, <1>7, <1>8, <1>9 DEF Watcher

LEMMA TypesInit ==
  ASSUME Init
  PROVE  Types
  BY DEF Init, Types, IsPool

LEMMA TypesStep ==
  ASSUME Types, [Next]_vars
  PROVE  Types'
  <1>1. ASSUME NEW r \in DOMAIN runs, Overdue(r)
        PROVE  Types'
    BY <1>1 DEF Overdue, Types, IsPool, busVars, runVars, poolVars, passVars, history
  <1>2. CASE UNCHANGED vars
    BY <1>2 DEF vars, Types, IsPool, busVars, runVars, poolVars, passVars, history
  <1>3. CASE Next
    BY <1>1, <1>3, TypesOutside, TypesPass, TypesPump, TypesWatcher DEF Next
  <1>4. QED
    BY <1>2, <1>3

----------------------------------------------------------------------------
(* The boundary.                                                            *)

(* What is left to fire is what the event at the head of the batch may start. *)
FiringTrusted ==
  passPc = "fire" => \A t \in firing : Head(batch).internal \/ t.external

TrustInv == Types /\ FiringTrusted /\ TrustBoundary

LEMMA TrustKept ==
  ASSUME TrustInv, UNCHANGED <<runs, firing, batch, awaited>>,
         passPc' = passPc \/ passPc' # "fire"
  PROVE  FiringTrusted' /\ TrustBoundary'
  BY DEF TrustInv, FiringTrusted, TrustBoundary, Clause

(* Outside of "fire" only the runs and the answers matter.                  *)
LEMMA TrustElsewhere ==
  ASSUME TrustInv, UNCHANGED <<runs, awaited>>, passPc' # "fire"
  PROVE  FiringTrusted' /\ TrustBoundary'
  BY DEF TrustInv, FiringTrusted, TrustBoundary, Clause

(* The only actions that dispatch or answer.                                *)
LEMMA TrustInvoke ==
  ASSUME TrustInv, NEW a \in Actions, Invoke(a)
  PROVE  FiringTrusted' /\ TrustBoundary'
  <1>1. /\ runs' = Append(runs, [action |-> a, trigger |-> None, internal |-> FALSE])
        /\ UNCHANGED <<passPc, firing, batch, awaited>>
    BY DEF Invoke, passVars, history
  <1>2. runs \in Seq(RunSet)
    BY DEF TrustInv, Types
  <1>3. \A r \in DOMAIN runs' : \/ r \in DOMAIN runs /\ runs'[r] = runs[r]
                                \/ runs'[r].trigger = None
    BY <1>1, <1>2
  <1>4. QED
    BY <1>1, <1>3 DEF TrustInv, FiringTrusted, TrustBoundary, Clause

LEMMA TrustMatch ==
  ASSUME TrustInv, Match
  PROVE  FiringTrusted' /\ TrustBoundary'
  <1>1. /\ MatchPending(Head(batch))
        /\ firing' = {t \in triggers : /\ Head(batch).kind \in t.when
                                       /\ Head(batch).internal \/ t.external}
        /\ UNCHANGED <<runs, batch>>
    BY DEF Match, runVars
  <1>2. FiringTrusted'
    BY <1>1 DEF FiringTrusted
  <1>3. pending \in Seq(Nat)
    BY DEF TrustInv, Types, IsPool
  <1>4. \/ awaited' = awaited
        \/ Head(batch).internal /\ \E r : awaited' = awaited \union
             {[id |-> published + 1, run |-> r, by |-> Head(batch)]}
    BY <1>1, <1>3, MatchPendingIs DEF Emit
  <1>5. \A x \in awaited' : x \in awaited \/ x.by.internal
    BY <1>4
  <1>6. TrustBoundary'
    BY <1>1, <1>5 DEF TrustInv, TrustBoundary, Clause
  <1>7. QED
    BY <1>2, <1>6

LEMMA TrustFire ==
  ASSUME TrustInv, NEW t \in firing, Fire(t)
  PROVE  FiringTrusted' /\ TrustBoundary'
  <1>1. /\ passPc = "fire" /\ firing' \subseteq firing
        /\ UNCHANGED <<passPc, batch, awaited>>
        /\ Accepted(t) \/ Refused(t)
    BY DEF Fire, Dispatching, history
  <1>2. Head(batch).internal \/ t.external
    BY <1>1 DEF TrustInv, FiringTrusted
  <1>3. runs \in Seq(RunSet)
    BY DEF TrustInv, Types
  <1>4. \/ runs' = runs
        \/ runs' = Append(runs, [action |-> t.action, trigger |-> t,
                                 internal |-> Head(batch).internal])
    BY <1>1 DEF Accepted, Refused, runVars
  <1>5. \A r \in DOMAIN runs' : \/ r \in DOMAIN runs /\ runs'[r] = runs[r]
                                \/ runs'[r].internal \/ runs'[r].trigger.external
    BY <1>2, <1>3, <1>4
  <1>6. TrustBoundary'
    BY <1>1, <1>5 DEF TrustInv, TrustBoundary, Clause
  <1>7. FiringTrusted'
    BY <1>1 DEF TrustInv, FiringTrusted
  <1>8. QED
    BY <1>6, <1>7

LEMMA TrustEmits ==
  ASSUME TrustInv, SweepEmits
  PROVE  FiringTrusted' /\ TrustBoundary'
  <1>1. /\ \/ awaited' = awaited
           \/ \E r : awaited' = awaited \union {[id |-> published + 1, run |-> r, by |-> None]}
        /\ UNCHANGED <<runs, passPc, firing, batch>>
    BY DEF SweepEmits, Emit, runVars, passVars
  <1>2. \A x \in awaited' : x \in awaited \/ x.by = None
    BY <1>1
  <1>3. QED
    BY <1>1, <1>2 DEF TrustInv, FiringTrusted, TrustBoundary, Clause

LEMMA TrustStep ==
  ASSUME TrustInv, [Next]_vars
  PROVE  TrustInv'
  <1> SUFFICES FiringTrusted' /\ TrustBoundary'
    BY TypesStep DEF TrustInv
  <1>2. ASSUME NEW p \in Publications, NEW of \in 0 .. Len(runs), Publisher(p, of)
        PROVE  FiringTrusted' /\ TrustBoundary'
    BY <1>2, TrustKept DEF Publisher, runVars, passVars, history
  <1>3. ASSUME NEW r \in busy, RunEnds(r)
        PROVE  FiringTrusted' /\ TrustBoundary'
    BY <1>3, TrustKept DEF RunEnds, passVars, history
  <1>4. CASE Pass
    <2>1. ASSUME NEW p \in DOMAIN queue, Drain(p)
          PROVE  FiringTrusted' /\ TrustBoundary'
      <3>1. passPc' # "fire" /\ UNCHANGED <<runs, awaited>>
        BY <2>1 DEF Drain, runVars, history
      <3>2. QED
        BY <3>1, TrustElsewhere
    <2>2. CASE Promote
      <3>1. passPc' # "fire" /\ UNCHANGED <<runs, awaited>>
        BY <2>2 DEF Promote, runVars
      <3>2. QED
        BY <3>1, TrustElsewhere
    <2>3. CASE NextEvent
      <3>1. passPc' # "fire" /\ UNCHANGED <<runs, awaited>>
        BY <2>3 DEF NextEvent, runVars, history
      <3>2. QED
        BY <3>1, TrustElsewhere
    <2>4. QED
      BY <1>4, <2>1, <2>2, <2>3, TrustMatch, TrustFire DEF Pass
  <1>5. CASE Pump
    <2>1. CASE PumpLocks \/ PumpUnlocks
      <3>1. passPc' # "fire" /\ UNCHANGED <<runs, awaited>>
        BY <2>1 DEF PumpLocks, PumpUnlocks, PassBegins, runVars, history
      <3>2. QED
        BY <3>1, TrustElsewhere
    <2>2. CASE SweepPreflight \/ SweepPending
      BY <2>2, TrustKept DEF SweepPreflight, SweepPending, runVars, passVars, history
    <2>3. QED
      BY <1>5, <2>1, <2>2, TrustEmits DEF Pump
  <1>6. CASE Watcher
    <2>1. CASE WatchLocks \/ WatchUnlocks
      <3>1. passPc' # "fire" /\ UNCHANGED <<runs, awaited>>
        BY <2>1 DEF WatchLocks, WatchUnlocks, PassBegins, runVars, history
      <3>2. QED
        BY <3>1, TrustElsewhere
    <2>2. CASE WatchSwaps \/ WatchClearsPreflight \/ WatchClearsPending \/ WatchRetains
      BY <2>2, TrustKept DEF WatchSwaps, WatchClearsPreflight, WatchClearsPending,
           WatchRetains, runVars, passVars, history
    <2>3. ASSUME NEW p \in Needed(triggers), WatchSubscribes(p)
          PROVE  FiringTrusted' /\ TrustBoundary'
      BY <2>3, TrustKept DEF WatchSubscribes, runVars, passVars, history
    <2>4. QED
      BY <1>6, <2>1, <2>2, <2>3 DEF Watcher
  <1>7. ASSUME NEW r \in DOMAIN runs, Overdue(r)
        PROVE  FiringTrusted' /\ TrustBoundary'
    BY <1>7, TrustKept DEF Overdue, runVars, passVars, history
  <1>8. CASE UNCHANGED vars
    BY <1>8, TrustKept DEF vars, runVars, passVars, history
  <1>9. QED
    BY <1>2, <1>3, <1>4, <1>5, <1>6, <1>7, <1>8, TrustInvoke DEF Next

(* An event from outside starts no trigger that did not accept it and ends   *)
(* no await, whatever the trigger list holds and however it is reloaded.     *)
THEOREM BoundaryHolds == Spec => []TrustBoundary
  <1>1. Init => TrustInv
    <2> SUFFICES ASSUME Init PROVE TrustInv
      OBVIOUS
    <2>1. Types
      BY TypesInit
    <2>2. FiringTrusted /\ TrustBoundary
      BY DEF Init, FiringTrusted, TrustBoundary
    <2>3. QED
      BY <2>1, <2>2 DEF TrustInv
  <1>2. TrustInv /\ [Next]_vars => TrustInv'
    BY TrustStep
  <1>3. TrustInv => TrustBoundary
    BY DEF TrustInv
  <1>4. QED
    BY <1>1, <1>2, <1>3, PTL DEF Spec

----------------------------------------------------------------------------
(* Every event is dispatched once.                                          *)

(* The watcher resubscribes with the lock held and its own pass at an end.  *)
Exclusion ==
  /\ watchPc \in {"pass", "subscribe"} => lock = "watch"
  /\ watchPc = "subscribe" => PassEnded

(* The receivers never overlap, since a reload only ever subscribes to what  *)
(* the list it keeps needs.                                                 *)
ReceiversApart ==
  /\ \A p, q \in DOMAIN queue : p # q => p \intersect q = {}
  /\ watchPc = "subscribe" => DOMAIN queue \subseteq Needed(triggers)

(* An event is in one receiver, at one place.                               *)
QueuedOnce ==
  /\ \A p \in DOMAIN queue : \A i \in DOMAIN queue[p] : queue[p][i].id <= published
  /\ \A p, q \in DOMAIN queue : \A i \in DOMAIN queue[p], j \in DOMAIN queue[q] :
       queue[p][i].id = queue[q][j].id => p = q /\ i = j

(* Or at one place of the batch.                                            *)
BatchedOnce ==
  /\ \A i \in DOMAIN batch : batch[i].id <= published
  /\ \A i, j \in DOMAIN batch : batch[i].id = batch[j].id => i = j
  /\ \A i \in DOMAIN batch : \A p \in DOMAIN queue : \A j \in DOMAIN queue[p] :
       batch[i].id # queue[p][j].id

(* Or it was dispatched, as the head of the batch has been from "match" on.  *)
HeadSeen == passPc \in {"match", "fire"}
SeenOnce ==
  /\ \A n \in seen : n <= published
  /\ \A p \in DOMAIN queue : \A i \in DOMAIN queue[p] : queue[p][i].id \notin seen
  /\ \A i \in DOMAIN batch : ~HeadSeen \/ i # 1 => batch[i].id \notin seen

EventsOnce == QueuedOnce /\ BatchedOnce /\ SeenOnce

OnceInv == Types /\ Exclusion /\ ReceiversApart /\ EventsOnce

LEMMA ExclusionStep ==
  ASSUME Exclusion, [Next]_vars
  PROVE  Exclusion'
  <1>1. ASSUME NEW p \in Publications, NEW of \in 0 .. Len(runs), Publisher(p, of)
        PROVE  Exclusion'
    BY <1>1 DEF Publisher, Exclusion, PassEnded, threadVars, passVars
  <1>2. ASSUME NEW a \in Actions, Invoke(a)
        PROVE  Exclusion'
    BY <1>2 DEF Invoke, Exclusion, PassEnded, threadVars, passVars
  <1>3. ASSUME NEW r \in busy, RunEnds(r)
        PROVE  Exclusion'
    BY <1>3 DEF RunEnds, Exclusion, PassEnded, threadVars, passVars
  <1>4. ASSUME NEW p \in DOMAIN queue, Drain(p)
        PROVE  Exclusion'
    BY <1>4 DEF Drain, Exclusion, PassEnded, threadVars
  <1>5. CASE Promote \/ Match \/ NextEvent
    BY <1>5 DEF Promote, Match, NextEvent, Dispatching, Exclusion, PassEnded, threadVars
  <1>6. ASSUME NEW t \in firing, Fire(t)
        PROVE  Exclusion'
    BY <1>6 DEF Fire, Dispatching, Exclusion, PassEnded, threadVars
  <1>7. CASE PumpLocks
    BY <1>7 DEF PumpLocks, Exclusion
  <1>8. CASE PumpUnlocks
    BY <1>8 DEF PumpUnlocks, Exclusion
  <1>9. CASE SweepPreflight \/ SweepPending \/ SweepEmits
    BY <1>9 DEF SweepPreflight, SweepPending, SweepEmits, Exclusion, PassEnded, passVars
  <1>10. CASE WatchSwaps \/ WatchClearsPreflight \/ WatchClearsPending
    BY <1>10 DEF WatchSwaps, WatchClearsPreflight, WatchClearsPending, Exclusion
  <1>11. CASE WatchLocks
    BY <1>11 DEF WatchLocks, Exclusion
  <1>12. CASE WatchRetains
    BY <1>12 DEF WatchRetains, Exclusion, PassEnded, passVars
  <1>13. CASE WatchUnlocks
    BY <1>13 DEF WatchUnlocks, Exclusion
  <1>14. ASSUME NEW p \in Needed(triggers), WatchSubscribes(p)
         PROVE  Exclusion'
    BY <1>14 DEF WatchSubscribes, Exclusion, PassEnded, threadVars, passVars
  <1>15. ASSUME NEW r \in DOMAIN runs, Overdue(r)
         PROVE  Exclusion'
    BY <1>15 DEF Overdue, Exclusion, PassEnded, threadVars, passVars
  <1>16. CASE UNCHANGED vars
    BY <1>16 DEF vars, Exclusion, PassEnded, threadVars, passVars
  <1>17. QED
    BY <1>1, <1>2, <1>3, <1>4, <1>5, <1>6, <1>7, <1>8, <1>9, <1>10, <1>11, <1>12,
       <1>13, <1>14, <1>15, <1>16 DEF Next, Pass, Pump, Watcher

(* covering_patterns leaves patterns that have no kind in common.           *)
LEMMA NeededApart ==
  ASSUME NEW cfg \in Configs, NEW p \in Needed(cfg), NEW q \in Needed(cfg), p # q
  PROVE  p \intersect q = {}
  <1>1. p \in Patterns(cfg) /\ q \in Patterns(cfg) /\ ~(p \subseteq q) /\ ~(q \subseteq p)
    BY DEF Needed, Covering
  <1>2. QED
    BY <1>1, PatternsAssumption

LEMMA PublishKeepsReceivers ==
  ASSUME NEW kind, NEW internal, NEW of, Publish(kind, internal, of)
  PROVE  DOMAIN queue' = DOMAIN queue
  BY DEF Publish

LEMMA EmitPublishes ==
  ASSUME NEW r, NEW by, Emit(r, by)
  PROVE  \E kind : Publish(kind, TRUE, r)
  BY DEF Emit

LEMMA ReceiversKept ==
  ASSUME ReceiversApart, DOMAIN queue' = DOMAIN queue,
         watchPc' = "subscribe" => UNCHANGED <<watchPc, triggers>>
  PROVE  ReceiversApart'
  BY DEF ReceiversApart

LEMMA ReceiversStep ==
  ASSUME Types, ReceiversApart, [Next]_vars
  PROVE  ReceiversApart'
  <1> DEFINE Same == /\ DOMAIN queue' = DOMAIN queue
                     /\ watchPc' = "subscribe" => UNCHANGED <<watchPc, triggers>>
  <1> SUFFICES Same \/ ReceiversApart'
    BY ReceiversKept
  <1>1. ASSUME NEW p \in Publications, NEW of \in 0 .. Len(runs), Publisher(p, of)
        PROVE  Same
    BY <1>1, PublishKeepsReceivers DEF Publisher, threadVars
  <1>2. ASSUME NEW a \in Actions, Invoke(a)
        PROVE  Same
    BY <1>2 DEF Invoke, threadVars, busVars
  <1>3. ASSUME NEW r \in busy, RunEnds(r)
        PROVE  Same
    BY <1>3, PublishKeepsReceivers DEF RunEnds, threadVars
  <1>4. ASSUME NEW p \in DOMAIN queue, Drain(p)
        PROVE  Same
    BY <1>4 DEF Drain, threadVars
  <1>5. CASE Promote \/ NextEvent
    BY <1>5 DEF Promote, NextEvent, threadVars, busVars
  <1>6. CASE Match
    <2>1. MatchPending(Head(batch)) /\ UNCHANGED <<watchPc, triggers>>
      BY <1>6 DEF Match, threadVars
    <2>2. pending \in Seq(Nat)
      BY DEF Types, IsPool
    <2>3. UNCHANGED queue \/ \E r : Emit(r, Head(batch))
      BY <2>1, <2>2, MatchPendingIs DEF busVars
    <2>4. DOMAIN queue' = DOMAIN queue
      BY <2>3, EmitPublishes, PublishKeepsReceivers
    <2>5. QED
      BY <2>1, <2>4
  <1>7. ASSUME NEW t \in firing, Fire(t)
        PROVE  Same
    BY <1>7, PublishKeepsReceivers DEF Fire, Accepted, Refused, threadVars, busVars
  <1>8. CASE PumpLocks \/ PumpUnlocks \/ SweepPreflight \/ SweepPending
    BY <1>8 DEF PumpLocks, PumpUnlocks, SweepPreflight, SweepPending, busVars
  <1>9. CASE SweepEmits
    <2>1. UNCHANGED queue \/ Emit(Head(expired), None)
      BY <1>9 DEF SweepEmits, busVars
    <2>2. DOMAIN queue' = DOMAIN queue
      BY <2>1, EmitPublishes, PublishKeepsReceivers
    <2>3. QED
      BY <1>9, <2>2 DEF SweepEmits
  <1>10. CASE WatchSwaps \/ WatchClearsPreflight \/ WatchClearsPending \/ WatchLocks
    BY <1>10 DEF WatchSwaps, WatchClearsPreflight, WatchClearsPending, WatchLocks, busVars
  <1>11. CASE WatchUnlocks
    BY <1>11 DEF WatchUnlocks, busVars
  <1>12. CASE WatchRetains
    <2>1. /\ queue' = [p \in Needed(triggers) \intersect DOMAIN queue |-> queue[p]]
          /\ triggers' = triggers
      BY <1>12 DEF WatchRetains, Retained, Restrict
    <2>2. QED
      BY <2>1 DEF ReceiversApart
  <1>13. ASSUME NEW p \in Needed(triggers), WatchSubscribes(p)
         PROVE  ReceiversApart'
    <2>1. /\ watchPc = "subscribe" /\ DOMAIN queue' = DOMAIN queue \union {p}
          /\ UNCHANGED <<triggers, watchPc>>
      BY <1>13 DEF WatchSubscribes, threadVars
    <2>2. DOMAIN queue' \subseteq Needed(triggers) /\ triggers \in Configs
      BY <2>1 DEF ReceiversApart, Types
    <2>3. QED
      BY <2>1, <2>2, NeededApart DEF ReceiversApart
  <1>14. ASSUME NEW r \in DOMAIN runs, Overdue(r)
         PROVE  Same
    BY <1>14 DEF Overdue, threadVars, busVars
  <1>15. CASE UNCHANGED vars
    BY <1>15 DEF vars, threadVars, busVars
  <1>16. QED
    BY <1>1, <1>2, <1>3, <1>4, <1>5, <1>6, <1>7, <1>8, <1>9, <1>10, <1>11, <1>12,
       <1>13, <1>14, <1>15 DEF Next, Pass, Pump, Watcher

(* An event published is new, and goes into one receiver.                   *)
LEMMA PublishOnce ==
  ASSUME OnceInv, NEW kind, NEW internal, NEW of, Publish(kind, internal, of),
         UNCHANGED <<batch, seen>>, HeadSeen' = HeadSeen
  PROVE  EventsOnce'
  <1> DEFINE Old(p, i) == i \in DOMAIN queue[p] /\ queue'[p][i] = queue[p][i]
             New(p, i) == kind \in p /\ i = Len(queue[p]) + 1 /\ queue'[p][i].id = published + 1
  <1>1. published' = published + 1 /\ published \in Nat /\ DOMAIN queue' = DOMAIN queue
    BY DEF Publish, OnceInv, Types
  <1>2. ASSUME NEW p \in DOMAIN queue, NEW i \in DOMAIN queue'[p]
        PROVE  Old(p, i) \/ New(p, i)
    <2> DEFINE e == [id |-> published + 1, kind |-> kind, internal |-> internal, of |-> of]
    <2>1. queue'[p] = IF kind \in p THEN Append(queue[p], e) ELSE queue[p]
      BY DEF Publish
    <2>2. queue[p] \in Seq(EventSet)
      BY DEF OnceInv, Types
    <2>3. e.id = published + 1
      OBVIOUS
    <2> HIDE DEF e
    <2>4. QED
      BY <2>1, <2>2, <2>3
  <1>3. /\ \A p \in DOMAIN queue : \A i \in DOMAIN queue[p] : queue[p][i].id <= published
        /\ \A i \in DOMAIN batch : batch[i].id <= published
        /\ \A n \in seen : n <= published
    BY DEF OnceInv, EventsOnce, QueuedOnce, BatchedOnce, SeenOnce
  <1> HIDE DEF Old, New
  <1>4. QueuedOnce'
    <2>1. ASSUME NEW p \in DOMAIN queue', NEW i \in DOMAIN queue'[p]
          PROVE  queue'[p][i].id <= published'
      <3>1. CASE Old(p, i)
        <4>1. queue'[p][i].id <= published
          BY <1>1, <1>3, <3>1 DEF Old
        <4>2. queue'[p][i].id \in Nat
          <5>1. queue[p] \in Seq(EventSet)
            BY <1>1 DEF OnceInv, Types
          <5>2. queue[p][i] \in EventSet
            BY <3>1, <5>1 DEF Old
          <5>3. QED
            BY <3>1, <5>2 DEF Old, EventSet
        <4>3. QED
          BY <1>1, <4>1, <4>2
      <3>2. CASE New(p, i)
        BY <1>1, <3>2 DEF New
      <3>3. QED
        BY <1>1, <1>2, <3>1, <3>2
    <2>2. ASSUME NEW p \in DOMAIN queue', NEW q \in DOMAIN queue',
                 NEW i \in DOMAIN queue'[p], NEW j \in DOMAIN queue'[q],
                 queue'[p][i].id = queue'[q][j].id
          PROVE  p = q /\ i = j
      <3>1. CASE Old(p, i) /\ Old(q, j)
        BY <1>1, <2>2, <3>1 DEF Old, OnceInv, EventsOnce, QueuedOnce
      <3>2. CASE New(p, i) /\ New(q, j)
        <4>1. p = q
          BY <1>1, <3>2 DEF New, OnceInv, ReceiversApart
        <4>2. QED
          BY <3>2, <4>1 DEF New
      <3>3. CASE Old(p, i) /\ New(q, j)
        BY <1>1, <1>3, <2>2, <3>3 DEF Old, New
      <3>4. CASE New(p, i) /\ Old(q, j)
        BY <1>1, <1>3, <2>2, <3>4 DEF Old, New
      <3>5. QED
        BY <1>1, <1>2, <3>1, <3>2, <3>3, <3>4
    <2>3. QED
      BY <2>1, <2>2 DEF QueuedOnce
  <1>5. BatchedOnce'
    <2>1. ASSUME NEW k \in DOMAIN batch PROVE batch[k].id <= published'
      <3>1. batch \in Seq(EventSet)
        BY DEF OnceInv, Types
      <3>2. batch[k] \in EventSet
        BY <3>1
      <3>3. QED
        BY <1>1, <1>3, <3>2 DEF EventSet
    <2>2. ASSUME NEW k \in DOMAIN batch, NEW p \in DOMAIN queue', NEW i \in DOMAIN queue'[p]
          PROVE  batch[k].id # queue'[p][i].id
      <3>1. CASE Old(p, i)
        BY <1>1, <3>1 DEF Old, OnceInv, EventsOnce, BatchedOnce
      <3>2. CASE New(p, i)
        BY <1>1, <1>3, <3>2 DEF New
      <3>3. QED
        BY <1>1, <1>2, <3>1, <3>2
    <2>3. QED
      BY <2>1, <2>2 DEF BatchedOnce, OnceInv, EventsOnce
  <1>6. SeenOnce'
    <2>1. ASSUME NEW n \in seen PROVE n <= published'
      <3>1. n \in Nat
        BY DEF OnceInv, Types
      <3>2. QED
        BY <1>1, <1>3, <3>1
    <2>2. ASSUME NEW p \in DOMAIN queue', NEW i \in DOMAIN queue'[p]
          PROVE  queue'[p][i].id \notin seen
      <3>1. CASE Old(p, i)
        BY <1>1, <3>1 DEF Old, OnceInv, EventsOnce, SeenOnce
      <3>2. CASE New(p, i)
        BY <1>1, <1>3, <3>2 DEF New
      <3>3. QED
        BY <1>1, <1>2, <3>1, <3>2
    <2>3. QED
      BY <2>1, <2>2 DEF SeenOnce, OnceInv, EventsOnce
  <1>7. QED
    BY <1>4, <1>5, <1>6 DEF EventsOnce

(* Nothing new in the receivers, nothing new in the batch.                  *)
LEMMA OnceShrunk ==
  ASSUME OnceInv, UNCHANGED <<published, seen>>,
         \A p \in DOMAIN queue' :
            queue'[p] = <<>> \/ (p \in DOMAIN queue /\ queue'[p] = queue[p]),
         \/ batch' = <<>>
         \/ batch' = batch /\ HeadSeen' = HeadSeen
  PROVE  EventsOnce'
  <1>1. /\ EventsOnce
        /\ DOMAIN <<>> = {}
    BY DEF OnceInv
  <1>2. QueuedOnce'
    BY <1>1 DEF EventsOnce, QueuedOnce
  <1>3. BatchedOnce'
    BY <1>1 DEF EventsOnce, BatchedOnce
  <1>4. SeenOnce'
    BY <1>1 DEF EventsOnce, SeenOnce
  <1>5. QED
    BY <1>2, <1>3, <1>4 DEF EventsOnce

LEMMA OnceDrain ==
  ASSUME OnceInv, NEW p \in DOMAIN queue, Drain(p)
  PROVE  EventsOnce'
  <1> DEFINE b == batch \o queue[p]
             FromBatch(i) == i \in DOMAIN batch /\ b[i] = batch[i]
             FromQueue(i) == /\ i - Len(batch) \in DOMAIN queue[p]
                             /\ b[i] = queue[p][i - Len(batch)]
  <1>1. /\ queue' = [queue EXCEPT ![p] = <<>>]
        /\ batch' = CompletionsFirst(b) \/ batch' = b
        /\ ~HeadSeen /\ ~HeadSeen'
        /\ UNCHANGED <<published, seen>>
    BY DEF Drain, HeadSeen, history
  <1>2. batch \in Seq(EventSet) /\ queue[p] \in Seq(EventSet)
    BY DEF OnceInv, Types
  <1>3. /\ b \in Seq(EventSet)
        /\ \A i \in DOMAIN b : i \in Nat /\ (FromBatch(i) \/ FromQueue(i))
    BY <1>2
  <1>4. Len(batch) \in Nat
    BY <1>2
  <1> HIDE DEF b
  <1>5. /\ \A i \in DOMAIN b : b[i].id <= published /\ b[i].id \notin seen
        /\ \A i, j \in DOMAIN b : b[i].id = b[j].id => i = j
        /\ \A i \in DOMAIN b : \A q \in DOMAIN queue : \A j \in DOMAIN queue[q] :
             q # p => b[i].id # queue[q][j].id
    <2>1. /\ \A i \in DOMAIN b : b[i].id <= published /\ b[i].id \notin seen
          /\ \A i \in DOMAIN b : \A q \in DOMAIN queue : \A j \in DOMAIN queue[q] :
               q # p => b[i].id # queue[q][j].id
      BY <1>1, <1>3 DEF OnceInv, EventsOnce, QueuedOnce, BatchedOnce, SeenOnce
    <2>2. ASSUME NEW i \in DOMAIN b, NEW j \in DOMAIN b, b[i].id = b[j].id
          PROVE  i = j
      <3>1. CASE FromBatch(i) /\ FromBatch(j)
        BY <2>2, <3>1 DEF OnceInv, EventsOnce, BatchedOnce
      <3>2. CASE FromQueue(i) /\ FromQueue(j)
        <4>1. i - Len(batch) = j - Len(batch)
          BY <2>2, <3>2 DEF OnceInv, EventsOnce, QueuedOnce
        <4>2. QED
          BY <1>3, <1>4, <4>1
      <3>3. CASE FromBatch(i) /\ FromQueue(j)
        BY <2>2, <3>3 DEF OnceInv, EventsOnce, BatchedOnce
      <3>4. CASE FromQueue(i) /\ FromBatch(j)
        <4>1. batch[j].id # queue[p][i - Len(batch)].id
          BY <3>4 DEF OnceInv, EventsOnce, BatchedOnce
        <4>2. QED
          BY <2>2, <3>4, <4>1
      <3>5. QED
        BY <1>3, <3>1, <3>2, <3>3, <3>4
    <2>3. QED
      BY <2>1, <2>2
  <1>6. IsPart(batch', b)
    <2>1. IsPart(CompletionsFirst(b), b)
      BY <1>3, CompletionsFirstIs
    <2>2. IsPart(b, b)
      <3> DEFINE f == [i \in DOMAIN b |-> i]
      <3>1. f \in [DOMAIN b -> DOMAIN b] /\ \A i \in DOMAIN b : f[i] = i
        OBVIOUS
      <3> HIDE DEF f
      <3>2. QED
        BY <3>1 DEF IsPart
    <2>3. QED
      BY <1>1, <2>1, <2>2
  <1>7. PICK f \in [DOMAIN batch' -> DOMAIN b] :
          /\ \A i \in DOMAIN batch' : batch'[i] = b[f[i]]
          /\ \A i, j \in DOMAIN batch' : f[i] = f[j] => i = j
    BY <1>6 DEF IsPart
  <1>8. /\ DOMAIN queue' = DOMAIN queue /\ queue'[p] = <<>>
        /\ \A q \in DOMAIN queue : q # p => queue'[q] = queue[q]
    <2>1. queue = [q \in DOMAIN queue |-> queue[q]]
      BY DEF OnceInv, Types
    <2>2. QED
      BY <1>1, <2>1
  <1>9. QueuedOnce'
    BY <1>1, <1>8 DEF QueuedOnce, OnceInv, EventsOnce
  <1>10. BatchedOnce'
    <2>1. \A i \in DOMAIN batch' : f[i] \in DOMAIN b
      BY <1>7
    <2>2. \A i \in DOMAIN batch' : batch'[i].id <= published'
      BY <1>1, <1>5, <1>7, <2>1
    <2>3. \A i, j \in DOMAIN batch' : batch'[i].id = batch'[j].id => i = j
      BY <1>5, <1>7, <2>1
    <2>4. ASSUME NEW i \in DOMAIN batch', NEW q \in DOMAIN queue', NEW j \in DOMAIN queue'[q]
          PROVE  batch'[i].id # queue'[q][j].id
      <3>1. q # p
        BY <1>8
      <3>2. QED
        BY <1>5, <1>7, <1>8, <2>1, <3>1
    <2>5. QED
      BY <2>2, <2>3, <2>4 DEF BatchedOnce
  <1>11. SeenOnce'
    <2>1. \A i \in DOMAIN batch' : batch'[i].id \notin seen'
      BY <1>1, <1>5, <1>7
    <2>2. \A q \in DOMAIN queue' : \A i \in DOMAIN queue'[q] : queue'[q][i].id \notin seen'
      BY <1>1, <1>8 DEF OnceInv, EventsOnce, SeenOnce
    <2>3. QED
      BY <1>1, <2>1, <2>2 DEF OnceInv, EventsOnce, SeenOnce
  <1>12. QED
    BY <1>9, <1>10, <1>11 DEF EventsOnce

LEMMA OncePromote ==
  ASSUME OnceInv, Promote
  PROVE  EventsOnce'
  <1>1. /\ batch # <<>> /\ seen' = seen \union {Head(batch).id} /\ HeadSeen'
        /\ UNCHANGED <<queue, published, batch>>
    BY DEF Promote, Dispatching, HeadSeen, busVars
  <1>2. batch \in Seq(EventSet)
    BY DEF OnceInv, Types
  <1>3. Head(batch) = batch[1] /\ 1 \in DOMAIN batch
    BY <1>1, <1>2
  <1>4. QueuedOnce' /\ BatchedOnce'
    BY <1>1 DEF OnceInv, EventsOnce, QueuedOnce, BatchedOnce
  <1>5. SeenOnce'
    <2>1. \A n \in seen' : n <= published'
      BY <1>1, <1>3 DEF OnceInv, EventsOnce, BatchedOnce, SeenOnce
    <2>2. \A p \in DOMAIN queue' : \A i \in DOMAIN queue'[p] : queue'[p][i].id \notin seen'
      BY <1>1, <1>3 DEF OnceInv, EventsOnce, BatchedOnce, SeenOnce
    <2>3. \A i \in DOMAIN batch' : i # 1 => batch'[i].id \notin seen'
      BY <1>1, <1>3 DEF OnceInv, EventsOnce, BatchedOnce, SeenOnce
    <2>4. QED
      BY <1>1, <2>1, <2>2, <2>3 DEF SeenOnce
  <1>6. QED
    BY <1>4, <1>5 DEF EventsOnce

LEMMA OnceNextEvent ==
  ASSUME OnceInv, NextEvent
  PROVE  EventsOnce'
  <1>1. /\ batch # <<>> /\ batch' = Tail(batch) /\ HeadSeen
        /\ UNCHANGED <<queue, published, seen>>
    BY DEF NextEvent, Dispatching, HeadSeen, busVars, history
  <1>2. batch \in Seq(EventSet)
    BY DEF OnceInv, Types
  <1>3. \A i \in DOMAIN batch' : /\ i + 1 \in DOMAIN batch /\ batch'[i] = batch[i + 1]
                                 /\ i + 1 # 1
    <2>1. \A i \in DOMAIN Tail(batch) : i + 1 \in DOMAIN batch /\ Tail(batch)[i] = batch[i + 1]
      BY <1>1, <1>2, TailIsPart
    <2>2. \A i \in DOMAIN Tail(batch) : i + 1 # 1
      BY <1>1, <1>2
    <2>3. QED
      BY <1>1, <2>1, <2>2
  <1>4. QueuedOnce'
    BY <1>1 DEF OnceInv, EventsOnce, QueuedOnce
  <1>5. BatchedOnce'
    <2>1. \A i, j \in DOMAIN batch' : i + 1 = j + 1 => i = j
      BY <1>1, <1>2
    <2>2. \A i, j \in DOMAIN batch' : batch'[i].id = batch'[j].id => i = j
      BY <1>3, <2>1 DEF OnceInv, EventsOnce, BatchedOnce
    <2>3. QED
      BY <1>1, <1>3, <2>2 DEF OnceInv, EventsOnce, BatchedOnce
  <1>6. SeenOnce'
    BY <1>1, <1>3 DEF OnceInv, EventsOnce, SeenOnce
  <1>7. QED
    BY <1>4, <1>5, <1>6 DEF EventsOnce

LEMMA OnceStep ==
  ASSUME OnceInv, [Next]_vars
  PROVE  OnceInv'
  <1> SUFFICES EventsOnce'
    BY TypesStep, ExclusionStep, ReceiversStep DEF OnceInv
  <1> DEFINE Published == /\ \E kind, internal, of : Publish(kind, internal, of)
                          /\ UNCHANGED <<batch, seen>> /\ HeadSeen' = HeadSeen
             Shrunk == /\ UNCHANGED <<published, seen>>
                       /\ \A p \in DOMAIN queue' :
                            queue'[p] = <<>> \/ (p \in DOMAIN queue /\ queue'[p] = queue[p])
                       /\ \/ batch' = <<>>
                          \/ batch' = batch /\ HeadSeen' = HeadSeen
  <1> SUFFICES Published \/ Shrunk \/ EventsOnce'
    BY PublishOnce, OnceShrunk
  <1>1. ASSUME NEW p \in Publications, NEW of \in 0 .. Len(runs), Publisher(p, of)
        PROVE  Published
    BY <1>1 DEF Publisher, HeadSeen, passVars, history
  <1>2. ASSUME NEW a \in Actions, Invoke(a)
        PROVE  Shrunk
    BY <1>2 DEF Invoke, HeadSeen, passVars, busVars, history
  <1>3. ASSUME NEW r \in busy, RunEnds(r)
        PROVE  Published \/ Shrunk
    BY <1>3 DEF RunEnds, HeadSeen, passVars, history
  <1>4. CASE Match
    <2>1. MatchPending(Head(batch)) /\ UNCHANGED <<batch, seen>> /\ HeadSeen' = HeadSeen
      BY <1>4 DEF Match, Dispatching, HeadSeen
    <2>2. pending \in Seq(Nat)
      BY DEF OnceInv, Types, IsPool
    <2>3. UNCHANGED <<queue, published>> \/ \E r : Emit(r, Head(batch))
      BY <2>1, <2>2, MatchPendingIs DEF busVars
    <2>4. QED
      BY <2>1, <2>3, EmitPublishes
  <1>5. ASSUME NEW t \in firing, Fire(t)
        PROVE  Published \/ Shrunk
    BY <1>5 DEF Fire, Accepted, Refused, HeadSeen, busVars, history
  <1>6. CASE PumpLocks \/ WatchLocks
    BY <1>6 DEF PumpLocks, WatchLocks, PassBegins, busVars, history
  <1>7. CASE PumpUnlocks
    BY <1>7 DEF PumpUnlocks, PassEnded, busVars, history
  <1>8. CASE WatchUnlocks
    <2>1. PassEnded
      BY <1>8 DEF WatchUnlocks, OnceInv, Exclusion
    <2>2. QED
      BY <1>8, <2>1 DEF WatchUnlocks, PassEnded, busVars, history
  <1>9. CASE SweepPreflight \/ SweepPending
    BY <1>9 DEF SweepPreflight, SweepPending, HeadSeen, busVars, passVars, history
  <1>10. CASE SweepEmits
    <2>1. UNCHANGED <<batch, seen>> /\ HeadSeen' = HeadSeen
      BY <1>10 DEF SweepEmits, HeadSeen, passVars
    <2>2. UNCHANGED <<queue, published>> \/ Emit(Head(expired), None)
      BY <1>10 DEF SweepEmits, busVars
    <2>3. QED
      BY <2>1, <2>2, EmitPublishes
  <1>11. CASE WatchSwaps \/ WatchClearsPreflight \/ WatchClearsPending
    BY <1>11 DEF WatchSwaps, WatchClearsPreflight, WatchClearsPending, HeadSeen,
         busVars, passVars, history
  <1>12. CASE WatchRetains
    <2>1. /\ queue' = [p \in Needed(triggers) \intersect DOMAIN queue |-> queue[p]]
          /\ UNCHANGED <<published, seen, batch>> /\ HeadSeen' = HeadSeen
      BY <1>12 DEF WatchRetains, Retained, Restrict, HeadSeen, passVars, history
    <2>2. QED
      BY <2>1
  <1>13. ASSUME NEW p \in Needed(triggers), WatchSubscribes(p)
         PROVE  Shrunk
    <2>1. /\ queue' = [q \in DOMAIN queue \union {p} |-> IF q = p THEN <<>> ELSE queue[q]]
          /\ UNCHANGED <<published, seen, batch>> /\ HeadSeen' = HeadSeen
      BY <1>13 DEF WatchSubscribes, HeadSeen, passVars, history
    <2>2. ASSUME NEW q \in DOMAIN queue'
          PROVE  queue'[q] = <<>> \/ (q \in DOMAIN queue /\ queue'[q] = queue[q])
      BY <2>1
    <2>3. QED
      BY <2>1, <2>2
  <1>14. ASSUME NEW r \in DOMAIN runs, Overdue(r)
         PROVE  Shrunk
    BY <1>14 DEF Overdue, HeadSeen, busVars, passVars, history
  <1>15. CASE UNCHANGED vars
    BY <1>15 DEF vars, HeadSeen, busVars, passVars, history
  <1>16. QED
    BY <1>1, <1>2, <1>3, <1>4, <1>5, <1>6, <1>7, <1>8, <1>9, <1>10, <1>11, <1>12,
       <1>13, <1>14, <1>15, OnceDrain, OncePromote, OnceNextEvent
       DEF Next, Pass, Pump, Watcher

LEMMA PromoteFindsUnseen ==
  ASSUME OnceInv, [Next]_vars, passPc = "promote", passPc' = "match"
  PROVE  Head(batch).id \notin seen
  <1>1. batch # <<>>
    <2>1. ASSUME NEW p \in DOMAIN queue, Drain(p)
          PROVE  FALSE
      BY <2>1 DEF Drain
    <2>2. ASSUME NEW t \in firing, Fire(t)
          PROVE  FALSE
      BY <2>2 DEF Fire, Dispatching
    <2>3. CASE Promote \/ Match \/ NextEvent
      BY <2>3 DEF Promote, Match, NextEvent, Dispatching
    <2>4. CASE Pump
      BY <2>4 DEF Pump, PumpLocks, PumpUnlocks, SweepPreflight, SweepPending, SweepEmits,
           PassBegins, passVars
    <2>5. CASE Watcher
      BY <2>5 DEF Watcher, WatchSwaps, WatchClearsPreflight, WatchClearsPending, WatchLocks,
           WatchRetains, WatchSubscribes, WatchUnlocks, PassBegins, passVars
    <2>6. QED
      BY <2>1, <2>2, <2>3, <2>4, <2>5
         DEF Next, Pass, Publisher, Invoke, RunEnds, Overdue, passVars, vars
  <1>2. batch \in Seq(EventSet)
    BY DEF OnceInv, Types
  <1>3. Head(batch) = batch[1] /\ 1 \in DOMAIN batch
    BY <1>1, <1>2
  <1>4. QED
    BY <1>3 DEF OnceInv, EventsOnce, SeenOnce, HeadSeen

LEMMA OnceInit ==
  ASSUME Init
  PROVE  OnceInv
  <1>1. Types
    BY TypesInit
  <1>2. /\ triggers \in Configs /\ queue = [p \in Needed(triggers) |-> <<>>]
        /\ watchPc = "idle" /\ batch = <<>> /\ seen = {}
    BY DEF Init
  <1>3. Exclusion
    BY <1>2 DEF Exclusion
  <1>4. ReceiversApart
    BY <1>2, NeededApart DEF ReceiversApart
  <1>5. EventsOnce
    BY <1>2 DEF EventsOnce, QueuedOnce, BatchedOnce, SeenOnce
  <1>6. QED
    BY <1>1, <1>3, <1>4, <1>5 DEF OnceInv

(* A pass never dispatches an event that some pass dispatched before: it is  *)
(* in one receiver, then at one place of one batch.                         *)
THEOREM NoEventTwice == Spec => DispatchedOnce
  <1>1. Init => OnceInv
    BY OnceInit
  <1>2. OnceInv /\ [Next]_vars => OnceInv'
    BY OnceStep
  <1>3. OnceInv /\ [Next]_vars =>
          [passPc = "promote" /\ passPc' = "match" => Head(batch).id \notin seen]_vars
    BY PromoteFindsUnseen
  <1>4. QED
    BY <1>1, <1>2, <1>3, PTL DEF Spec, DispatchedOnce

----------------------------------------------------------------------------
(* Completions come before replies.                                         *)

(* Once a batch is collected its completions come first.                    *)
BatchSorted ==
  passPc # "drain" =>
    \A i, j \in DOMAIN batch : i < j /\ IsCompletion(batch[j]) => IsCompletion(batch[i])

LEMMA SortedKept ==
  ASSUME BatchSorted,
         \/ batch' = <<>>
         \/ batch' = batch /\ (passPc' = passPc \/ passPc # "drain")
         \/ passPc' = "drain"
  PROVE  BatchSorted'
  BY DEF BatchSorted, IsCompletion

LEMMA SortedStep ==
  ASSUME Types, BatchSorted, [Next]_vars
  PROVE  BatchSorted'
  <1> DEFINE Same == \/ batch' = <<>>
                     \/ batch' = batch /\ (passPc' = passPc \/ passPc # "drain")
                     \/ passPc' = "drain"
  <1> SUFFICES Same \/ BatchSorted'
    BY SortedKept
  <1>1. ASSUME NEW p \in Publications, NEW of \in 0 .. Len(runs), Publisher(p, of)
        PROVE  Same
    BY <1>1 DEF Publisher, passVars
  <1>2. ASSUME NEW a \in Actions, Invoke(a)
        PROVE  Same
    BY <1>2 DEF Invoke, passVars
  <1>3. ASSUME NEW r \in busy, RunEnds(r)
        PROVE  Same
    BY <1>3 DEF RunEnds, passVars
  <1>4. ASSUME NEW p \in DOMAIN queue, Drain(p)
        PROVE  Same \/ BatchSorted'
    <2>1. \/ passPc' = "drain"
          \/ batch' = CompletionsFirst(batch \o queue[p])
      BY <1>4 DEF Drain
    <2>2. batch \o queue[p] \in Seq(EventSet)
      <3>1. batch \in Seq(EventSet) /\ queue[p] \in Seq(EventSet)
        BY DEF Types
      <3>2. QED
        BY <3>1
    <2>3. CASE batch' = CompletionsFirst(batch \o queue[p])
      <3> DEFINE b == batch \o queue[p]
      <3>1. b \in Seq(EventSet) /\ batch' = CompletionsFirst(b)
        BY <2>2, <2>3
      <3> HIDE DEF b
      <3>2. \A i, j \in DOMAIN batch' :
              i < j /\ IsCompletion(batch'[j]) => IsCompletion(batch'[i])
        BY <3>1, CompletionsFirstIs
      <3>3. QED
        BY <3>2 DEF BatchSorted, IsCompletion
    <2>4. QED
      BY <2>1, <2>3
  <1>5. CASE Promote \/ Match
    BY <1>5 DEF Promote, Match, Dispatching
  <1>6. ASSUME NEW t \in firing, Fire(t)
        PROVE  Same
    BY <1>6 DEF Fire
  <1>7. CASE NextEvent
    <2>1. batch # <<>> /\ batch' = Tail(batch) /\ passPc # "drain" /\ batch \in Seq(EventSet)
      BY <1>7 DEF NextEvent, Dispatching, Types
    <2>2. \A i \in DOMAIN batch' : i + 1 \in DOMAIN batch /\ batch'[i] = batch[i + 1]
      BY <2>1, TailIsPart
    <2>3. \A i, j \in DOMAIN batch' : i < j => i + 1 < j + 1
      BY <2>1
    <2>4. QED
      BY <2>1, <2>2, <2>3 DEF BatchSorted, IsCompletion
  <1>8. CASE Pump
    BY <1>8 DEF Pump, PumpLocks, PumpUnlocks, SweepPreflight, SweepPending, SweepEmits,
         PassBegins, passVars
  <1>9. CASE Watcher
    BY <1>9 DEF Watcher, WatchSwaps, WatchClearsPreflight, WatchClearsPending, WatchLocks,
         WatchRetains, WatchSubscribes, WatchUnlocks, PassBegins, passVars
  <1>10. ASSUME NEW r \in DOMAIN runs, Overdue(r)
         PROVE  Same
    BY <1>10 DEF Overdue, passVars
  <1>11. CASE UNCHANGED vars
    BY <1>11 DEF vars, passVars
  <1>12. QED
    BY <1>1, <1>2, <1>3, <1>4, <1>5, <1>6, <1>7, <1>8, <1>9, <1>10, <1>11 DEF Next, Pass

LEMMA SortedSuffices ==
  ASSUME Types, BatchSorted
  PROVE  RepliesAfterCompletions
  <1> SUFFICES ASSUME passPc = "match", batch # <<>>, NEW k \in DOMAIN preflight,
                      IsReplyTo(Head(batch), preflight[k]), CompletionInTail(preflight[k])
               PROVE  FALSE
    BY DEF RepliesAfterCompletions
  <1>1. PICK i \in 2 .. Len(batch) : batch[i].kind = Completed(runs[preflight[k]].action)
    BY DEF CompletionInTail
  <1>2. batch \in Seq(EventSet)
    BY DEF Types
  <1>3. Head(batch) = batch[1] /\ 1 \in DOMAIN batch /\ i \in DOMAIN batch /\ 1 < i
    BY <1>2
  <1>4. IsCompletion(batch[i])
    BY <1>1 DEF IsCompletion, Completed
  <1>5. IsCompletion(batch[1])
    BY <1>3, <1>4 DEF BatchSorted
  <1>6. ~IsCompletion(batch[1])
    BY <1>3 DEF IsReplyTo
  <1>7. QED
    BY <1>5, <1>6

(* A reply is never looked at while a completion that would promote its     *)
(* await is still behind it in the batch.                                   *)
THEOREM CompletionsBeforeReplies == Spec => []RepliesAfterCompletions
  <1>1. Init => Types /\ BatchSorted
    BY TypesInit DEF Init, BatchSorted
  <1>2. Types /\ BatchSorted /\ [Next]_vars => (Types /\ BatchSorted)'
    BY TypesStep, SortedStep
  <1>3. Types /\ BatchSorted => RepliesAfterCompletions
    BY SortedSuffices
  <1>4. QED
    BY <1>1, <1>2, <1>3, PTL DEF Spec

----------------------------------------------------------------------------
(* An await ends once.                                                      *)

(* A run is at one place of one pool, or it has been answered.              *)
Once(pool) == \A i, j \in DOMAIN pool : pool[i] = pool[j] => i = j
Apart(pool, other) == \A i \in DOMAIN pool, j \in DOMAIN other : pool[i] # other[j]
Unanswered(pool) == \A i \in DOMAIN pool : \A x \in awaited : x.run # pool[i]
AwaitsApart ==
  /\ Once(preflight) /\ Once(pending) /\ Once(expired)
  /\ Apart(preflight, pending) /\ Apart(preflight, expired) /\ Apart(pending, expired)
  /\ Unanswered(preflight) /\ Unanswered(pending) /\ Unanswered(expired)
  /\ \A x, y \in awaited : x.run = y.run => x = y

(* An event that ended an await was dispatched before the one at hand.      *)
AnsweredBySeen ==
  /\ passPc = "match" => Head(batch).id \in seen
  /\ \A x \in awaited : x.by # None =>
       /\ x.by.id \in seen
       /\ passPc = "match" => x.by.id # Head(batch).id
  /\ \A x, y \in awaited : x.by # None /\ x.by = y.by => x = y

AwaitInv == OnceInv /\ AwaitsApart /\ AnsweredBySeen

(* What is drawn from a pool shares its properties.                         *)
LEMMA PartShares ==
  ASSUME NEW part, NEW pool, IsPart(part, pool)
  PROVE  /\ Once(pool) => Once(part)
         /\ \A other : Apart(pool, other) => Apart(part, other)
         /\ \A other : Apart(other, pool) => Apart(other, part)
         /\ Unanswered(pool) => Unanswered(part)
  <1>1. PICK f \in [DOMAIN part -> DOMAIN pool] :
          /\ \A i \in DOMAIN part : part[i] = pool[f[i]]
          /\ \A i, j \in DOMAIN part : f[i] = f[j] => i = j
    BY DEF IsPart
  <1>2. \A i \in DOMAIN part : f[i] \in DOMAIN pool
    BY <1>1
  <1>3. Once(pool) => Once(part)
    BY <1>1, <1>2 DEF Once
  <1>4. \A other : Apart(pool, other) => Apart(part, other)
    BY <1>1, <1>2 DEF Apart
  <1>5. \A other : Apart(other, pool) => Apart(other, part)
    BY <1>1, <1>2 DEF Apart
  <1>6. Unanswered(pool) => Unanswered(part)
    BY <1>1, <1>2 DEF Unanswered
  <1>7. QED
    BY <1>3, <1>4, <1>5, <1>6

LEMMA AppendShares ==
  ASSUME NEW pool \in Seq(Nat), NEW r \in Nat
  PROVE  /\ Once(pool) /\ (\A i \in DOMAIN pool : pool[i] # r) => Once(Append(pool, r))
         /\ \A i \in DOMAIN Append(pool, r) :
              \/ Append(pool, r)[i] = r
              \/ i \in DOMAIN pool /\ Append(pool, r)[i] = pool[i]
  BY DEF Once

LEMMA ConcatShares ==
  ASSUME NEW pool \in Seq(Nat), NEW other \in Seq(Nat)
  PROVE  /\ Once(pool) /\ Once(other) /\ Apart(pool, other) => Once(pool \o other)
         /\ \A i \in DOMAIN (pool \o other) :
              \/ i \in DOMAIN pool /\ (pool \o other)[i] = pool[i]
              \/ \E j \in DOMAIN other : (pool \o other)[i] = other[j]
  <1> DEFINE all == pool \o other
  <1>1. /\ Len(pool) \in Nat /\ DOMAIN all \subseteq Nat
        /\ \A i \in DOMAIN all :
             \/ i \in DOMAIN pool /\ all[i] = pool[i]
             \/ i - Len(pool) \in DOMAIN other /\ all[i] = other[i - Len(pool)]
    OBVIOUS
  <1> HIDE DEF all
  <1>2. ASSUME Once(pool), Once(other), Apart(pool, other)
        PROVE  Once(all)
    <2> SUFFICES ASSUME NEW i \in DOMAIN all, NEW j \in DOMAIN all, all[i] = all[j]
                 PROVE  i = j
      BY DEF Once
    <2>1. CASE /\ i \in DOMAIN pool /\ all[i] = pool[i]
               /\ j \in DOMAIN pool /\ all[j] = pool[j]
      BY <1>2, <2>1 DEF Once
    <2>2. CASE /\ i - Len(pool) \in DOMAIN other /\ all[i] = other[i - Len(pool)]
               /\ j - Len(pool) \in DOMAIN other /\ all[j] = other[j - Len(pool)]
      <3>1. i - Len(pool) = j - Len(pool)
        BY <1>2, <2>2 DEF Once
      <3>2. QED
        BY <1>1, <3>1
    <2>3. QED
      BY <1>1, <1>2, <2>1, <2>2 DEF Apart
  <1>3. QED
    BY <1>1, <1>2 DEF all

LEMMA AwaitsKept ==
  ASSUME AwaitsApart, UNCHANGED <<preflight, pending, expired, awaited>>
  PROVE  AwaitsApart'
  BY DEF AwaitsApart, Once, Apart, Unanswered

(* A pool may be emptied or lose entries.                                   *)
LEMMA AwaitsDropped ==
  ASSUME AwaitsApart, UNCHANGED <<expired, awaited>>,
         preflight' = <<>> \/ preflight' = preflight,
         pending' = <<>> \/ pending' = pending
  PROVE  AwaitsApart'
  <1>1. DOMAIN <<>> = {}
    OBVIOUS
  <1>2. QED
    BY <1>1 DEF AwaitsApart, Once, Apart, Unanswered

(* The entry of a pool leaves it with an answer.                            *)
LEMMA AnswerLeaves ==
  ASSUME NEW pool, NEW rest, NEW p \in DOMAIN pool, NEW id, NEW by,
         Once(pool), Unanswered(pool), IsPart(rest, pool),
         \A i \in DOMAIN rest : rest[i] # pool[p],
         awaited' = awaited \union {[id |-> id, run |-> pool[p], by |-> by]},
         \A x, y \in awaited : x.run = y.run => x = y
  PROVE  /\ \A i \in DOMAIN rest : \A x \in awaited' : x.run # rest[i]
         /\ \A other : Unanswered(other) /\ (\A i \in DOMAIN other : other[i] # pool[p]) =>
              \A i \in DOMAIN other : \A x \in awaited' : x.run # other[i]
         /\ \A x, y \in awaited' : x.run = y.run => x = y
  <1> DEFINE z == [id |-> id, run |-> pool[p], by |-> by]
  <1>1. z.run = pool[p] /\ awaited' = awaited \union {z}
    OBVIOUS
  <1> HIDE DEF z
  <1>2. \A x \in awaited : x.run # z.run
    BY <1>1 DEF Unanswered
  <1>3. \A x, y \in awaited' : x.run = y.run => x = y
    BY <1>1, <1>2
  <1>4. Unanswered(rest)
    BY PartShares
  <1>5. \A i \in DOMAIN rest : \A x \in awaited' : x.run # rest[i]
    BY <1>1, <1>4 DEF Unanswered
  <1>6. \A other : Unanswered(other) /\ (\A i \in DOMAIN other : other[i] # pool[p]) =>
              \A i \in DOMAIN other : \A x \in awaited' : x.run # other[i]
    BY <1>1 DEF Unanswered
  <1>7. QED
    BY <1>3, <1>5, <1>6

LEMMA WithoutShares ==
  ASSUME NEW pool \in Seq(Nat), NEW p \in DOMAIN pool, Once(pool)
  PROVE  /\ IsPart(Without(pool, p), pool)
         /\ \A i \in DOMAIN Without(pool, p) : Without(pool, p)[i] # pool[p]
  <1>1. /\ IsPart(Without(pool, p), pool)
        /\ \A i \in DOMAIN Without(pool, p) :
             \E j \in DOMAIN pool : j # p /\ Without(pool, p)[i] = pool[j]
    BY WithoutIsPart
  <1>2. QED
    BY <1>1 DEF Once

LEMMA AwaitsPromote ==
  ASSUME Types, AwaitsApart, Promote
  PROVE  AwaitsApart'
  <1>1. UNCHANGED <<expired, awaited>>
    BY DEF Promote
  <1>2. preflight \in Seq(Nat) /\ pending \in Seq(Nat)
    BY DEF Types, IsPool
  <1>3. CASE UNCHANGED <<preflight, pending>>
    BY <1>1, <1>3, AwaitsKept
  <1>4. ASSUME NEW i \in DOMAIN preflight, preflight' = Without(preflight, i),
               pending' = pending \/ pending' = Append(pending, preflight[i])
        PROVE  AwaitsApart'
    <2>1. /\ IsPart(preflight', preflight)
          /\ \A k \in DOMAIN preflight' : preflight'[k] # preflight[i]
      BY <1>2, <1>4, WithoutShares DEF AwaitsApart
    <2>2. /\ Once(preflight') /\ Unanswered(preflight')
          /\ Apart(preflight', pending) /\ Apart(preflight', expired)
      BY <2>1, PartShares DEF AwaitsApart
    <2>3. preflight[i] \in Nat
      BY <1>2
    <2>4. /\ \A k \in DOMAIN pending : pending[k] # preflight[i]
          /\ \A k \in DOMAIN expired : expired[k] # preflight[i]
          /\ \A x \in awaited : x.run # preflight[i]
      BY DEF AwaitsApart, Apart, Unanswered
    <2>5. /\ Once(pending')
          /\ \A k \in DOMAIN pending' :
               \/ pending'[k] = preflight[i]
               \/ k \in DOMAIN pending /\ pending'[k] = pending[k]
      <3>1. Once(pending)
        BY DEF AwaitsApart
      <3>2. CASE pending' = pending
        BY <3>1, <3>2
      <3>3. CASE pending' = Append(pending, preflight[i])
        <4>1. /\ Once(Append(pending, preflight[i]))
              /\ \A k \in DOMAIN Append(pending, preflight[i]) :
                   \/ Append(pending, preflight[i])[k] = preflight[i]
                   \/ /\ k \in DOMAIN pending
                      /\ Append(pending, preflight[i])[k] = pending[k]
          BY <1>2, <2>3, <2>4, <3>1, AppendShares
        <4>2. QED
          BY <3>3, <4>1
      <3>4. QED
        BY <1>4, <3>2, <3>3
    <2>6. Apart(preflight', pending') /\ Apart(pending', expired) /\ Unanswered(pending')
      BY <2>1, <2>2, <2>4, <2>5 DEF AwaitsApart, Apart, Unanswered
    <2>7. QED
      BY <1>1, <2>2, <2>5, <2>6 DEF AwaitsApart, Once, Apart, Unanswered
  <1>5. QED
    BY <1>2, <1>3, <1>4, PromoteIs

LEMMA AwaitsMatch ==
  ASSUME Types, AwaitsApart, Match
  PROVE  AwaitsApart'
  <1>1. UNCHANGED <<preflight, expired>> /\ MatchPending(Head(batch))
    BY DEF Match
  <1>2. pending \in Seq(Nat)
    BY DEF Types, IsPool
  <1>3. CASE UNCHANGED <<pending, busVars, awaited>>
    BY <1>1, <1>3, AwaitsKept
  <1>4. ASSUME NEW p \in DOMAIN pending, pending' = Without(pending, p),
               Emit(pending[p], Head(batch))
        PROVE  AwaitsApart'
    <2>1. /\ IsPart(pending', pending)
          /\ \A i \in DOMAIN pending' : pending'[i] # pending[p]
      BY <1>2, <1>4, WithoutShares DEF AwaitsApart
    <2>2. /\ Once(pending') /\ Apart(preflight, pending') /\ Apart(pending', expired)
      BY <2>1, PartShares DEF AwaitsApart
    <2>3. awaited' = awaited \union
             {[id |-> published + 1, run |-> pending[p], by |-> Head(batch)]}
      BY <1>4 DEF Emit
    <2>4. /\ \A i \in DOMAIN preflight : preflight[i] # pending[p]
          /\ \A i \in DOMAIN expired : expired[i] # pending[p]
      BY DEF AwaitsApart, Apart
    <2>5. /\ Once(pending) /\ Unanswered(pending) /\ Unanswered(preflight)
          /\ Unanswered(expired) /\ \A x, y \in awaited : x.run = y.run => x = y
      BY DEF AwaitsApart
    <2>6. /\ \A i \in DOMAIN pending' : \A x \in awaited' : x.run # pending'[i]
          /\ \A i \in DOMAIN preflight : \A x \in awaited' : x.run # preflight[i]
          /\ \A i \in DOMAIN expired : \A x \in awaited' : x.run # expired[i]
          /\ \A x, y \in awaited' : x.run = y.run => x = y
      <3>1. /\ \A i \in DOMAIN pending' : \A x \in awaited' : x.run # pending'[i]
            /\ \A other : Unanswered(other) /\ (\A i \in DOMAIN other : other[i] # pending[p]) =>
                 \A i \in DOMAIN other : \A x \in awaited' : x.run # other[i]
            /\ \A x, y \in awaited' : x.run = y.run => x = y
        BY <2>1, <2>3, <2>5, AnswerLeaves
      <3>2. QED
        BY <2>4, <2>5, <3>1
    <2>7. QED
      BY <1>1, <2>2, <2>6 DEF AwaitsApart, Once, Apart, Unanswered
  <1>5. QED
    BY <1>1, <1>2, <1>3, <1>4, MatchPendingIs

LEMMA AwaitsFire ==
  ASSUME Types, AwaitsApart, NEW t \in firing, Fire(t)
  PROVE  AwaitsApart'
  <1>1. /\ UNCHANGED <<pending, expired, awaited>>
        /\ preflight' = preflight \/ preflight' = Append(preflight, Len(runs) + 1)
    BY DEF Fire, Accepted, Refused, history
  <1>2. CASE preflight' = preflight
    BY <1>1, <1>2, AwaitsKept
  <1>3. CASE preflight' = Append(preflight, Len(runs) + 1)
    <2>1. preflight \in Seq(Nat) /\ runs \in Seq(RunSet)
      BY DEF Types, IsPool
    <2>2. Len(runs) + 1 \in Nat /\ Len(runs) + 1 \notin DOMAIN runs
      BY <2>1
    <2>3. /\ \A i \in DOMAIN preflight : preflight[i] # Len(runs) + 1
          /\ \A i \in DOMAIN pending : pending[i] # Len(runs) + 1
          /\ \A i \in DOMAIN expired : expired[i] # Len(runs) + 1
          /\ \A x \in awaited : x.run # Len(runs) + 1
      BY <2>2 DEF Types, IsPool
    <2>4. /\ Once(preflight')
          /\ \A k \in DOMAIN preflight' :
               \/ preflight'[k] = Len(runs) + 1
               \/ k \in DOMAIN preflight /\ preflight'[k] = preflight[k]
      <3> DEFINE r == Len(runs) + 1
      <3>1. r \in Nat /\ (\A i \in DOMAIN preflight : preflight[i] # r)
            /\ preflight' = Append(preflight, r)
        BY <1>3, <2>2, <2>3
      <3> HIDE DEF r
      <3>2. /\ Once(preflight')
            /\ \A k \in DOMAIN preflight' :
                 \/ preflight'[k] = r
                 \/ k \in DOMAIN preflight /\ preflight'[k] = preflight[k]
        BY <2>1, <3>1, AppendShares DEF AwaitsApart
      <3>3. QED
        BY <3>2 DEF r
    <2>5. Apart(preflight', pending) /\ Apart(preflight', expired) /\ Unanswered(preflight')
      BY <2>3, <2>4 DEF AwaitsApart, Apart, Unanswered
    <2>6. QED
      BY <1>1, <2>4, <2>5 DEF AwaitsApart, Once, Apart, Unanswered
  <1>4. QED
    BY <1>1, <1>2, <1>3

(* The two halves of a sweep are apart: one is overdue, the other is not.    *)
LEMMA SweptShares ==
  ASSUME NEW pool \in Seq(Nat), Once(pool), Unanswered(pool)
  PROVE  /\ Once(Kept(pool)) /\ Once(Defaults(pool))
         /\ Unanswered(Kept(pool)) /\ Unanswered(Defaults(pool))
         /\ Apart(Kept(pool), Defaults(pool))
         /\ \A other : Apart(pool, other) =>
              Apart(Kept(pool), other) /\ Apart(Defaults(pool), other)
         /\ \A other : Apart(other, pool) =>
              Apart(other, Kept(pool)) /\ Apart(other, Defaults(pool))
  <1>1. /\ IsPart(Kept(pool), pool) /\ IsPart(Defaults(pool), pool)
        /\ \A i \in DOMAIN Kept(pool) : ~Expired(Kept(pool)[i])
        /\ \A i \in DOMAIN Defaults(pool) : Expired(Defaults(pool)[i])
    BY SweptIs
  <1>2. Apart(Kept(pool), Defaults(pool))
    BY <1>1 DEF Apart
  <1>3. QED
    BY <1>1, <1>2, PartShares

LEMMA AwaitsSweep ==
  ASSUME Types, AwaitsApart, SweepPreflight \/ SweepPending
  PROVE  AwaitsApart'
  <1>1. preflight \in Seq(Nat) /\ pending \in Seq(Nat) /\ expired \in Seq(Nat)
    BY DEF Types, IsPool
  <1>2. CASE SweepPreflight
    <2>1. /\ preflight' = Kept(preflight) /\ expired' = Defaults(preflight)
          /\ UNCHANGED <<pending, awaited>>
      BY <1>2 DEF SweepPreflight, history
    <2>2. /\ Once(Kept(preflight)) /\ Once(Defaults(preflight))
          /\ Unanswered(Kept(preflight)) /\ Unanswered(Defaults(preflight))
          /\ Apart(Kept(preflight), Defaults(preflight))
          /\ Apart(Kept(preflight), pending) /\ Apart(Defaults(preflight), pending)
      BY <1>1, SweptShares DEF AwaitsApart
    <2>3. Apart(pending, Defaults(preflight))
      BY <2>2 DEF Apart
    <2>4. QED
      BY <2>1, <2>2, <2>3 DEF AwaitsApart, Once, Apart, Unanswered
  <1>3. CASE SweepPending
    <2>1. /\ pending' = Kept(pending) /\ expired' = expired \o Defaults(pending)
          /\ UNCHANGED <<preflight, awaited>>
      BY <1>3 DEF SweepPending, history
    <2>2. /\ Once(Kept(pending)) /\ Once(Defaults(pending))
          /\ Unanswered(Kept(pending)) /\ Unanswered(Defaults(pending))
          /\ Apart(Kept(pending), Defaults(pending))
          /\ Apart(Kept(pending), expired) /\ Apart(Defaults(pending), expired)
          /\ Apart(preflight, Kept(pending)) /\ Apart(preflight, Defaults(pending))
      BY <1>1, SweptShares DEF AwaitsApart
    <2>3. Defaults(pending) \in Seq(Nat)
      BY <1>1, SweptIs
    <2>4. Apart(expired, Defaults(pending))
      BY <2>2 DEF Apart
    <2>5. Once(expired) /\ Unanswered(expired) /\ Apart(preflight, expired)
      BY DEF AwaitsApart
    <2>6. /\ Once(expired')
          /\ \A i \in DOMAIN expired' :
               \/ i \in DOMAIN expired /\ expired'[i] = expired[i]
               \/ \E j \in DOMAIN Defaults(pending) : expired'[i] = Defaults(pending)[j]
      BY <1>1, <2>1, <2>2, <2>3, <2>4, <2>5, ConcatShares
    <2>7. /\ Apart(preflight, expired') /\ Apart(Kept(pending), expired')
          /\ Unanswered(expired')
      BY <2>2, <2>5, <2>6 DEF Apart, Unanswered
    <2>8. QED
      BY <2>1, <2>2, <2>6, <2>7 DEF AwaitsApart, Once, Apart, Unanswered
  <1>4. QED
    BY <1>2, <1>3

LEMMA AwaitsEmits ==
  ASSUME Types, AwaitsApart, SweepEmits
  PROVE  AwaitsApart'
  <1>1. UNCHANGED <<preflight, pending>> /\ expired \in Seq(Nat)
    BY DEF SweepEmits, poolVars, Types, IsPool
  <1>2. CASE expired = <<>>
    BY <1>1, <1>2, AwaitsKept DEF SweepEmits
  <1>3. CASE expired # <<>>
    <2>1. /\ expired' = Tail(expired)
          /\ awaited' = awaited \union
               {[id |-> published + 1, run |-> Head(expired), by |-> None]}
      BY <1>3 DEF SweepEmits, Emit
    <2>2. 1 \in DOMAIN expired /\ Head(expired) = expired[1]
      BY <1>1, <1>3
    <2>3. /\ IsPart(expired', expired)
          /\ \A i \in DOMAIN expired' : i + 1 \in DOMAIN expired /\ expired'[i] = expired[i + 1]
      BY <1>1, <1>3, <2>1, TailIsPart
    <2>4. /\ Once(expired) /\ Unanswered(expired) /\ Unanswered(preflight)
          /\ Unanswered(pending) /\ \A x, y \in awaited : x.run = y.run => x = y
      BY DEF AwaitsApart
    <2>5. \A i \in DOMAIN expired' : expired'[i] # expired[1]
      <3>1. \A i \in DOMAIN expired' : i + 1 # 1
        BY <1>1, <1>3, <2>1
      <3>2. QED
        BY <2>2, <2>3, <2>4, <3>1 DEF Once
    <2>6. /\ \A i \in DOMAIN preflight : preflight[i] # expired[1]
          /\ \A i \in DOMAIN pending : pending[i] # expired[1]
      BY <2>2 DEF AwaitsApart, Apart
    <2>7. /\ Once(expired') /\ Apart(preflight, expired') /\ Apart(pending, expired')
      BY <2>3, PartShares DEF AwaitsApart
    <2>8. /\ \A i \in DOMAIN expired' : \A x \in awaited' : x.run # expired'[i]
          /\ \A i \in DOMAIN preflight : \A x \in awaited' : x.run # preflight[i]
          /\ \A i \in DOMAIN pending : \A x \in awaited' : x.run # pending[i]
          /\ \A x, y \in awaited' : x.run = y.run => x = y
      <3>1. awaited' = awaited \union
               {[id |-> published + 1, run |-> expired[1], by |-> None]}
        BY <2>1, <2>2
      <3>2. /\ \A i \in DOMAIN expired' : \A x \in awaited' : x.run # expired'[i]
            /\ \A other : Unanswered(other) /\ (\A i \in DOMAIN other : other[i] # expired[1]) =>
                 \A i \in DOMAIN other : \A x \in awaited' : x.run # other[i]
            /\ \A x, y \in awaited' : x.run = y.run => x = y
        BY <2>2, <2>3, <2>4, <2>5, <3>1, AnswerLeaves
      <3>3. QED
        BY <2>4, <2>6, <3>2
    <2>9. QED
      BY <1>1, <2>7, <2>8 DEF AwaitsApart, Once, Apart, Unanswered
  <1>4. QED
    BY <1>2, <1>3

LEMMA AwaitsStep ==
  ASSUME Types, AwaitsApart, [Next]_vars
  PROVE  AwaitsApart'
  <1> DEFINE Dropped == /\ UNCHANGED <<expired, awaited>>
                        /\ preflight' = <<>> \/ preflight' = preflight
                        /\ pending' = <<>> \/ pending' = pending
  <1> SUFFICES Dropped \/ AwaitsApart'
    BY AwaitsDropped
  <1>1. ASSUME NEW p \in Publications, NEW of \in 0 .. Len(runs), Publisher(p, of)
        PROVE  Dropped
    BY <1>1 DEF Publisher, poolVars, history
  <1>2. ASSUME NEW a \in Actions, Invoke(a)
        PROVE  Dropped
    BY <1>2 DEF Invoke, poolVars, history
  <1>3. ASSUME NEW r \in busy, RunEnds(r)
        PROVE  Dropped
    BY <1>3 DEF RunEnds, poolVars, history
  <1>4. ASSUME NEW p \in DOMAIN queue, Drain(p)
        PROVE  Dropped
    BY <1>4 DEF Drain, poolVars, history
  <1>5. CASE NextEvent
    BY <1>5 DEF NextEvent, poolVars, history
  <1>6. CASE PumpLocks \/ PumpUnlocks
    BY <1>6 DEF PumpLocks, PumpUnlocks, poolVars, history
  <1>7. CASE WatchSwaps \/ WatchClearsPreflight \/ WatchClearsPending
    BY <1>7 DEF WatchSwaps, WatchClearsPreflight, WatchClearsPending, poolVars, history
  <1>8. CASE WatchLocks \/ WatchRetains \/ WatchUnlocks
    BY <1>8 DEF WatchLocks, WatchRetains, WatchUnlocks, poolVars, history
  <1>9. ASSUME NEW p \in Needed(triggers), WatchSubscribes(p)
        PROVE  Dropped
    BY <1>9 DEF WatchSubscribes, poolVars, history
  <1>10. ASSUME NEW r \in DOMAIN runs, Overdue(r)
         PROVE  Dropped
    BY <1>10 DEF Overdue, poolVars, history
  <1>11. CASE UNCHANGED vars
    BY <1>11 DEF vars, poolVars, history
  <1>12. QED
    BY <1>1, <1>2, <1>3, <1>4, <1>5, <1>6, <1>7, <1>8, <1>9, <1>10, <1>11,
       AwaitsPromote, AwaitsMatch, AwaitsFire, AwaitsSweep, AwaitsEmits
       DEF Next, Pass, Pump, Watcher

LEMMA AnsweredKept ==
  ASSUME AnsweredBySeen, UNCHANGED <<seen, awaited>>,
         \/ passPc' # "match"
         \/ UNCHANGED <<passPc, batch>>
  PROVE  AnsweredBySeen'
  BY DEF AnsweredBySeen

LEMMA AnsweredPromote ==
  ASSUME OnceInv, AnsweredBySeen, Promote
  PROVE  AnsweredBySeen'
  <1>1. /\ passPc = "promote" /\ batch # <<>> /\ seen' = seen \union {Head(batch).id}
        /\ UNCHANGED <<batch, awaited>>
    BY DEF Promote, Dispatching
  <1>2. batch \in Seq(EventSet)
    BY DEF OnceInv, Types
  <1>3. Head(batch) = batch[1] /\ 1 \in DOMAIN batch
    BY <1>1, <1>2
  <1>4. Head(batch).id \notin seen
    BY <1>1, <1>3 DEF OnceInv, EventsOnce, SeenOnce, HeadSeen
  <1>5. QED
    BY <1>1, <1>4 DEF AnsweredBySeen

LEMMA AnsweredMatch ==
  ASSUME OnceInv, AnsweredBySeen, Match
  PROVE  AnsweredBySeen'
  <1>1. /\ passPc = "match" /\ passPc' = "fire" /\ MatchPending(Head(batch))
        /\ UNCHANGED seen
    BY DEF Match, Dispatching
  <1>2. pending \in Seq(Nat)
    BY DEF OnceInv, Types, IsPool
  <1>3. \/ awaited' = awaited
        \/ \E z : awaited' = awaited \union {z} /\ z.by = Head(batch)
    <2>1. ASSUME NEW r, Emit(r, Head(batch))
          PROVE  \E z : awaited' = awaited \union {z} /\ z.by = Head(batch)
      <3>1. [id |-> published + 1, run |-> r, by |-> Head(batch)].by = Head(batch)
        OBVIOUS
      <3>2. QED
        BY <2>1, <3>1 DEF Emit
    <2>2. QED
      BY <1>1, <1>2, <2>1, MatchPendingIs
  <1>4. CASE awaited' = awaited
    BY <1>1, <1>4 DEF AnsweredBySeen
  <1>5. ASSUME NEW z, awaited' = awaited \union {z}, z.by = Head(batch)
        PROVE  AnsweredBySeen'
    <2>1. /\ Head(batch).id \in seen
          /\ \A x \in awaited : x.by # None => x.by.id \in seen /\ x.by # Head(batch)
          /\ \A x, y \in awaited : x.by # None /\ x.by = y.by => x = y
      BY <1>1 DEF AnsweredBySeen
    <2>2. \A x \in awaited' : x.by # None => x.by.id \in seen
      BY <1>5, <2>1
    <2>3. \A x, y \in awaited' : x.by # None /\ x.by = y.by => x = y
      BY <1>5, <2>1
    <2>4. QED
      BY <1>1, <2>2, <2>3 DEF AnsweredBySeen
  <1>6. QED
    BY <1>3, <1>4, <1>5

LEMMA AnsweredEmits ==
  ASSUME AnsweredBySeen, SweepEmits
  PROVE  AnsweredBySeen'
  <1>1. /\ UNCHANGED <<seen, passPc, batch>>
        /\ \/ awaited' = awaited
           \/ awaited' = awaited \union
                {[id |-> published + 1, run |-> Head(expired), by |-> None]}
    BY DEF SweepEmits, Emit, passVars
  <1>2. \A x \in awaited' : x \in awaited \/ x.by = None
    BY <1>1
  <1>3. QED
    BY <1>1, <1>2 DEF AnsweredBySeen

LEMMA AnsweredStep ==
  ASSUME OnceInv, AnsweredBySeen, [Next]_vars
  PROVE  AnsweredBySeen'
  <1> DEFINE Same == /\ UNCHANGED <<seen, awaited>>
                     /\ passPc' # "match" \/ UNCHANGED <<passPc, batch>>
  <1> SUFFICES Same \/ AnsweredBySeen'
    BY AnsweredKept
  <1>1. ASSUME NEW p \in Publications, NEW of \in 0 .. Len(runs), Publisher(p, of)
        PROVE  Same
    BY <1>1 DEF Publisher, passVars, history
  <1>2. ASSUME NEW a \in Actions, Invoke(a)
        PROVE  Same
    BY <1>2 DEF Invoke, passVars, history
  <1>3. ASSUME NEW r \in busy, RunEnds(r)
        PROVE  Same
    BY <1>3 DEF RunEnds, passVars, history
  <1>4. ASSUME NEW p \in DOMAIN queue, Drain(p)
        PROVE  Same
    BY <1>4 DEF Drain, history
  <1>5. CASE NextEvent
    BY <1>5 DEF NextEvent, history
  <1>6. ASSUME NEW t \in firing, Fire(t)
        PROVE  Same
    BY <1>6 DEF Fire, history
  <1>7. CASE PumpLocks \/ PumpUnlocks
    BY <1>7 DEF PumpLocks, PumpUnlocks, PassBegins, history
  <1>8. CASE SweepPreflight \/ SweepPending
    BY <1>8 DEF SweepPreflight, SweepPending, passVars, history
  <1>9. CASE WatchSwaps \/ WatchClearsPreflight \/ WatchClearsPending
    BY <1>9 DEF WatchSwaps, WatchClearsPreflight, WatchClearsPending, passVars, history
  <1>10. CASE WatchLocks \/ WatchRetains \/ WatchUnlocks
    BY <1>10 DEF WatchLocks, WatchRetains, WatchUnlocks, PassBegins, passVars, history
  <1>11. ASSUME NEW p \in Needed(triggers), WatchSubscribes(p)
         PROVE  Same
    BY <1>11 DEF WatchSubscribes, passVars, history
  <1>12. ASSUME NEW r \in DOMAIN runs, Overdue(r)
         PROVE  Same
    BY <1>12 DEF Overdue, passVars, history
  <1>13. CASE UNCHANGED vars
    BY <1>13 DEF vars, passVars, history
  <1>14. QED
    BY <1>1, <1>2, <1>3, <1>4, <1>5, <1>6, <1>7, <1>8, <1>9, <1>10, <1>11, <1>12,
       <1>13, AnsweredPromote, AnsweredMatch, AnsweredEmits DEF Next, Pass, Pump, Watcher

LEMMA AtMostOne ==
  ASSUME NEW T, \A x, y \in T : x = y
  PROVE  /\ Cardinality(T) = 0 \/ Cardinality(T) = 1
         /\ T = {} => Cardinality(T) = 0
  <1>1. CASE T = {}
    BY <1>1, FS_EmptySet
  <1>2. CASE T # {}
    <2>1. PICK x \in T : TRUE
      BY <1>2
    <2>2. T = {x}
      BY <2>1
    <2>3. Cardinality({x}) = 1
      BY FS_Singleton
    <2>4. QED
      BY <1>2, <2>2, <2>3
  <1>3. QED
    BY <1>1, <1>2

LEMMA AwaitsSuffice ==
  ASSUME AwaitsApart, AnsweredBySeen
  PROVE  AwaitEndsOnce
  <1>1. ASSUME NEW r \in DOMAIN runs
        PROVE  Places(r) <= 1
    <2> DEFINE A == {i \in DOMAIN preflight : preflight[i] = r}
               B == {i \in DOMAIN pending : pending[i] = r}
               C == {i \in DOMAIN expired : expired[i] = r}
               D == {x \in awaited : x.run = r}
    <2>1. /\ \A x, y \in A : x = y
          /\ \A x, y \in B : x = y
          /\ \A x, y \in C : x = y
          /\ \A x, y \in D : x = y
      BY DEF AwaitsApart, Once
    <2>2. /\ A # {} => B = {} /\ C = {} /\ D = {}
          /\ B # {} => C = {} /\ D = {}
          /\ C # {} => D = {}
      BY DEF AwaitsApart, Apart, Unanswered
    <2>3. Places(r) = Cardinality(A) + Cardinality(B) + Cardinality(C) + Cardinality(D)
      BY DEF Places
    <2> HIDE DEF A, B, C, D
    <2>4. /\ Cardinality(A) = 0 \/ Cardinality(A) = 1
          /\ Cardinality(B) = 0 \/ Cardinality(B) = 1
          /\ Cardinality(C) = 0 \/ Cardinality(C) = 1
          /\ Cardinality(D) = 0 \/ Cardinality(D) = 1
          /\ A = {} => Cardinality(A) = 0
          /\ B = {} => Cardinality(B) = 0
          /\ C = {} => Cardinality(C) = 0
          /\ D = {} => Cardinality(D) = 0
      BY <2>1, AtMostOne
    <2>5. QED
      BY <2>2, <2>3, <2>4
  <1>2. QED
    BY <1>1 DEF AwaitEndsOnce, AnsweredBySeen

(* No await ends twice, and no event ends two: for every trigger list, every *)
(* number of runs and every interleaving of the pump with a reload.         *)
THEOREM AwaitsEndOnce == Spec => []AwaitEndsOnce
  <1>1. Init => AwaitInv
    <2> SUFFICES ASSUME Init PROVE AwaitInv
      OBVIOUS
    <2>1. AwaitsApart /\ AnsweredBySeen
      BY DEF Init, AwaitsApart, Once, Apart, Unanswered, AnsweredBySeen
    <2>2. QED
      BY <2>1, OnceInit DEF AwaitInv
  <1>2. AwaitInv /\ [Next]_vars => AwaitInv'
    BY OnceStep, AwaitsStep, AnsweredStep DEF AwaitInv, OnceInv
  <1>3. AwaitInv => AwaitEndsOnce
    BY AwaitsSuffice DEF AwaitInv
  <1>4. QED
    BY <1>1, <1>2, <1>3, PTL DEF Spec
================================================================================
