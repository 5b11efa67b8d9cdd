---------------------------- MODULE OperatorProofs ----------------------------
(***************************************************************************)
(* What is known of the operators of Picking and of SplitTree, whatever    *)
(* they are applied to: parts of sequences, paths, trees, and what each    *)
(* operation makes of the panes of a tree.                                 *)
(***************************************************************************)
EXTENDS SplitTree, Picking, FiniteSetsExt, SequenceTheorems, FiniteSetTheorems,
        WellFoundedInduction, TLAPS

(* A sequence made of elements of another, each taken at most once.          *)
IsPart(part, whole) ==
  \E f \in [DOMAIN part -> DOMAIN whole] :
    /\ \A i \in DOMAIN part : part[i] = whole[f[i]]
    /\ \A i, j \in DOMAIN part : f[i] = f[j] => i = j

LEMMA PlacesFinite ==
  ASSUME NEW n \in Nat, NEW places \in SUBSET (1 .. n)
  PROVE  IsFiniteSet(places) /\ Cardinality(places) \in Nat
  <1>1. IsFiniteSet(1 .. n)
    BY FS_Interval
  <1>2. IsFiniteSet(places)
    BY <1>1, FS_Subset
  <1>3. QED
    BY <1>2, FS_CardinalityType

(* The rank of a place of the selection, and that no two places share one.   *)
LEMMA RanksDiffer ==
  ASSUME NEW n \in Nat, NEW places \in SUBSET (1 .. n)
  PROVE  /\ \A i \in places : Cardinality({j \in places : j <= i}) \in 1 .. Cardinality(places)
         /\ \A i, k \in places :
              Cardinality({j \in places : j <= i}) = Cardinality({j \in places : j <= k}) => i = k
  <1> DEFINE upTo(i) == {j \in places : j <= i}
             rank == [i \in places |-> Cardinality(upTo(i))]
             c == Cardinality(places)
  <1>1. IsFiniteSet(places) /\ c \in Nat
    BY PlacesFinite
  <1>2. \A i \in places : IsFiniteSet(upTo(i)) /\ Cardinality(upTo(i)) \in 1 .. c
    <2> SUFFICES ASSUME NEW i \in places
                 PROVE  IsFiniteSet(upTo(i)) /\ Cardinality(upTo(i)) \in 1 .. c
      OBVIOUS
    <2>1. upTo(i) \in SUBSET places /\ upTo(i) # {}
      OBVIOUS
    <2> HIDE DEF upTo
    <2>2. IsFiniteSet(upTo(i)) /\ Cardinality(upTo(i)) <= c /\ Cardinality(upTo(i)) \in Nat
      BY <1>1, <2>1, FS_Subset, FS_CardinalityType
    <2>3. Cardinality(upTo(i)) # 0
      BY <2>1, <2>2, FS_EmptySet
    <2> HIDE DEF c
    <2>4. QED
      BY <1>1, <2>2, <2>3
  <1>3. ASSUME NEW i \in places, NEW j \in places, i < j
        PROVE  rank[i] # rank[j]
    <2>1. upTo(i) \in SUBSET upTo(j) /\ j \in upTo(j) /\ j \notin upTo(i)
      <3>1. \A x \in places : x \in Int
        OBVIOUS
      <3>2. \A x \in places : x <= i => x <= j
        BY <1>3, <3>1
      <3>3. j <= j /\ ~(j <= i)
        BY <1>3, <3>1
      <3>4. QED
        BY <3>2, <3>3
    <2>2. IsFiniteSet(upTo(j))
      BY <1>2
    <2>3. upTo(i) # upTo(j)
      BY <2>1
    <2>4. Cardinality(upTo(i)) # Cardinality(upTo(j))
      <3> HIDE DEF upTo
      <3>1. QED
        BY <2>1, <2>2, <2>3, FS_Subset
    <2>5. QED
      BY <2>4
  <1>4. ASSUME NEW i \in places, NEW j \in places, rank[i] = rank[j]
        PROVE  i = j
    <2> HIDE DEF rank
    <2>1. ~(i < j) /\ ~(j < i)
      BY <1>3, <1>4
    <2>2. QED
      BY <2>1
  <1>5. QED
    BY <1>2, <1>4

(* And all ranks occur.                                                     *)
LEMMA RanksOccur ==
  ASSUME NEW n \in Nat, NEW places \in SUBSET (1 .. n),
         NEW k \in 1 .. Cardinality(places)
  PROVE  \E i \in places : Cardinality({j \in places : j <= i}) = k
  <1> DEFINE upTo(i) == {j \in places : j <= i}
             rank == [i \in places |-> Cardinality(upTo(i))]
             c == Cardinality(places)
  <1>1. IsFiniteSet(places) /\ c \in Nat
    BY PlacesFinite
  <1>4. rank \in Injection(places, 1 .. c)
    <2>1. rank \in [places -> 1 .. c]
      BY RanksDiffer
    <2>2. \A i, j \in places : rank[i] = rank[j] => i = j
      BY RanksDiffer
    <2> HIDE DEF rank, c
    <2>3. QED
      BY <2>1, <2>2 DEF Injection, IsInjective
  <1>5. Cardinality(1 .. c) = c /\ IsFiniteSet(1 .. c)
    BY <1>1, FS_Interval
  <1>6. rank \in Surjection(places, 1 .. c)
    <2> HIDE DEF rank, c
    <2>1. QED
      BY <1>4, <1>5, FS_Injection DEF c
  <1>7. \E i \in places : rank[i] = k
    BY <1>6 DEF Surjection
  <1>8. QED
    BY <1>7

LEMMA PickedIsPart ==
  ASSUME NEW S, NEW seq \in Seq(S), NEW places \in SUBSET DOMAIN seq
  PROVE  /\ Picked(seq, places) \in Seq(S) /\ IsPart(Picked(seq, places), seq)
         /\ \E f \in [DOMAIN Picked(seq, places) -> places] :
              /\ \A i \in DOMAIN Picked(seq, places) : Picked(seq, places)[i] = seq[f[i]]
              /\ \A i, j \in DOMAIN Picked(seq, places) : f[i] = f[j] => i = j
  <1> DEFINE rank(i) == Cardinality({j \in places : j <= i})
             c == Cardinality(places)
             f == [k \in 1 .. c |-> CHOOSE i \in places : rank(i) = k]
             part == Picked(seq, places)
  <1>1. Len(seq) \in Nat /\ DOMAIN seq = 1 .. Len(seq) /\ c \in Nat
    <2>1. Len(seq) \in Nat /\ DOMAIN seq = 1 .. Len(seq)
      OBVIOUS
    <2>2. QED
      BY <2>1, PlacesFinite
  <1>2. \A k \in 1 .. c : f[k] \in places /\ rank(f[k]) = k
    <2>1. places \in SUBSET (1 .. Len(seq))
      BY <1>1
    <2>2. \A k \in 1 .. c : \E i \in places : rank(i) = k
      BY <1>1, <2>1, RanksOccur
    <2> HIDE DEF rank, c
    <2>3. QED
      BY <2>2
  <1>3. part = [k \in 1 .. c |-> seq[f[k]]]
    BY DEF Picked
  <1> HIDE DEF f, c, rank
  <1>4. DOMAIN part = 1 .. c /\ f \in [1 .. c -> places]
    BY <1>2, <1>3 DEF f
  <1>5. part \in Seq(S)
    <2>1. part \in [1 .. c -> S]
      BY <1>2, <1>3
    <2> HIDE DEF part
    <2>2. QED
      BY <1>1, <2>1
  <1>6. \A i, j \in 1 .. c : f[i] = f[j] => i = j
    BY <1>2
  <1>7. f \in [1 .. c -> DOMAIN seq]
    BY <1>4
  <1>8. \A i \in 1 .. c : part[i] = seq[f[i]]
    BY <1>3
  <1> HIDE DEF part
  <1>9. IsPart(part, seq)
    BY <1>4, <1>6, <1>7, <1>8 DEF IsPart
  <1>10. QED
    BY <1>4, <1>5, <1>6, <1>8, <1>9 DEF part

(* No element at those places is lost.                                      *)
LEMMA PickedHasAll ==
  ASSUME NEW S, NEW seq \in Seq(S), NEW places \in SUBSET DOMAIN seq
  PROVE  {Picked(seq, places)[k] : k \in DOMAIN Picked(seq, places)} = {seq[i] : i \in places}
  <1> DEFINE rank(i) == Cardinality({j \in places : j <= i})
             c == Cardinality(places)
             f(k) == CHOOSE i \in places : rank(i) = k
             part == Picked(seq, places)
  <1>1. Len(seq) \in Nat /\ DOMAIN seq = 1 .. Len(seq)
    OBVIOUS
  <1>2. places \in SUBSET (1 .. Len(seq))
    BY <1>1
  <1>3. /\ \A i \in places : rank(i) \in 1 .. c
        /\ \A i, k \in places : rank(i) = rank(k) => i = k
    BY <1>1, <1>2, RanksDiffer
  <1>4. \A k \in 1 .. c : \E i \in places : rank(i) = k
    BY <1>1, <1>2, RanksOccur
  <1>5. part = [k \in 1 .. c |-> seq[f(k)]]
    BY DEF Picked
  <1> HIDE DEF rank, c, part
  <1>6. \A k \in 1 .. c : f(k) \in places /\ rank(f(k)) = k
    BY <1>4
  <1> HIDE DEF f
  <1>7. \A i \in places : f(rank(i)) = i
    BY <1>3, <1>6
  <1>8. ASSUME NEW k \in DOMAIN part PROVE part[k] \in {seq[i] : i \in places}
    BY <1>5, <1>6
  <1>9. ASSUME NEW i \in places PROVE seq[i] \in {part[k] : k \in DOMAIN part}
    <2>1. rank(i) \in DOMAIN part /\ part[rank(i)] = seq[i]
      BY <1>3, <1>5, <1>7
    <2>2. QED
      BY <2>1
  <1>10. QED
    BY <1>8, <1>9 DEF part

(* A set of naturals has a least element.                                    *)
LEMMA LeastNatural ==
  ASSUME NEW T, T \subseteq Nat, T # {}
  PROVE  Min(T) \in T /\ \A y \in T : Min(T) <= y
  <1>1. PICK x \in T : \A y \in T : ~ (<<y, x>> \in OpToRel(<, Nat))
    BY NatLessThanWellFounded, WFMin
  <1>2. \A y \in T : ~(y < x)
    BY <1>1 DEF OpToRel
  <1>3. \A y \in T : x <= y
    BY <1>2
  <1>4. QED
    BY <1>3 DEF Min
-------------------------------------------------------------------------------
(* Paths. *)
Paths == Seq({0, 1})

LEMMA PathAlgebra ==
  /\ <<>> \in Paths /\ \A i \in {0, 1} : <<i>> \in Paths
  /\ \A p \in Paths : Len(p) \in Nat /\ p \o <<>> = p /\ <<>> \o p = p
  /\ \A p, q \in Paths : p \o q \in Paths /\ Len(p \o q) = Len(p) + Len(q)
  /\ \A p, q, r \in Paths : (p \o q) \o r = p \o (q \o r)
  /\ \A p, q, r \in Paths : p \o q = p \o r => q = r
  /\ \A p, q \in Paths : p \o q = p => q = <<>>
<1> USE DEF Paths
<1>1. <<>> \in Paths /\ \A i \in {0, 1} : <<i>> \in Paths
  OBVIOUS
<1>2. \A p \in Paths : Len(p) \in Nat /\ p \o <<>> = p /\ <<>> \o p = p
  BY LenProperties, ConcatEmptySeq
<1>3. \A p, q \in Paths : p \o q \in Paths /\ Len(p \o q) = Len(p) + Len(q)
  BY ConcatProperties
<1>4. \A p, q, r \in Paths : (p \o q) \o r = p \o (q \o r)
  BY ConcatAssociative
<1>5. \A p, q, r \in Paths : p \o q = p \o r => q = r
  BY ConcatSimplifications, Zenon
<1>6. \A p, q \in Paths : p \o q = p => q = <<>>
  BY ConcatEqualIffEmpty
<1> QED BY <1>1, <1>2, <1>3, <1>4, <1>5, <1>6

\* One instance at a time of what PathAlgebra says.
LEMMA Assoc ==
  ASSUME NEW p \in Paths, NEW q \in Paths, NEW r \in Paths
  PROVE  (p \o q) \o r = p \o (q \o r)
BY ConcatAssociative DEF Paths

LEMMA ConcatIn ==
  ASSUME NEW p \in Paths, NEW q \in Paths
  PROVE  p \o q \in Paths
BY PathAlgebra

LEMMA OneStep ==
  ASSUME NEW i \in {0, 1}
  PROVE  <<i>> \in Paths
BY PathAlgebra

LEMMA StepOn ==
  ASSUME NEW p \in Paths, NEW i \in {0, 1}
  PROVE  p \o <<i>> \in Paths
BY OneStep, ConcatIn

LEMMA ConsIn ==
  ASSUME NEW p \in Paths, NEW i \in {0, 1}
  PROVE  <<i>> \o p \in Paths
BY OneStep, ConcatIn

LEMMA AssocStep ==
  ASSUME NEW p \in Paths, NEW q \in Paths, NEW i \in {0, 1}
  PROVE  (p \o q) \o <<i>> = p \o (q \o <<i>>)
BY OneStep, Assoc

\* The same with the concatenation left unexpanded.
Cat(p, q) == p \o q
One(i) == <<i>>

LEMMA CatIn ==
  /\ \A p, q \in Paths : Cat(p, q) \in Paths
  /\ \A i \in {0, 1} : One(i) \in Paths
BY ConcatIn, OneStep DEF Cat, One

LEMMA CatAssoc ==
  \A p, q, r \in Paths : Cat(Cat(p, q), r) = Cat(p, Cat(q, r))
BY Assoc DEF Cat

LEMMA CatFour ==
  ASSUME NEW p \in Paths, NEW s \in Paths, NEW q \in Paths, NEW r \in Paths
  PROVE  Cat(Cat(p, Cat(s, q)), r) = Cat(p, Cat(s, Cat(q, r)))
<1>1. Cat(s, q) \in Paths
  BY CatIn
<1>2. Cat(Cat(p, Cat(s, q)), r) = Cat(p, Cat(Cat(s, q), r))
  BY <1>1, CatAssoc
<1>3. Cat(Cat(s, q), r) = Cat(s, Cat(q, r))
  BY CatAssoc
<1> QED BY <1>2, <1>3

\* The first step of a path, and the last.
LEMMA PathEnds ==
  /\ \A p \in Paths, i \in {0, 1} :
       /\ <<i>> \o p # <<>> /\ (<<i>> \o p)[1] = i /\ Tail(<<i>> \o p) = p
       /\ p \o <<i>> # <<>> /\ Front(p \o <<i>>) = p /\ Last(p \o <<i>>) = i
  /\ \A p \in Paths \ {<<>>} :
       /\ \E i \in {0, 1}, q \in Paths : p = <<i>> \o q
       /\ Front(p) \in Paths /\ Last(p) \in {0, 1} /\ p = Front(p) \o <<Last(p)>>
       /\ Len(Front(p)) = Len(p) - 1
<1> USE DEF Paths
<1>1. ASSUME NEW p \in Paths, NEW i \in {0, 1}
      PROVE  /\ <<i>> \o p # <<>> /\ (<<i>> \o p)[1] = i /\ Tail(<<i>> \o p) = p
  <2> DEFINE c == <<i>> \o p
  <2>1. <<i>> \in Seq({0, 1}) /\ Len(<<i>>) = 1 /\ <<i>>[1] = i /\ Len(p) \in Nat
    BY LenProperties
  <2>2. /\ c \in Seq({0, 1}) /\ Len(c) = 1 + Len(p)
        /\ \A k \in 1 .. 1 + Len(p) : c[k] = IF k <= 1 THEN <<i>>[k] ELSE p[k - 1]
    BY <2>1, ConcatProperties
  <2> HIDE DEF c
  <2>3. c # <<>> /\ c[1] = i
    BY <2>1, <2>2
  <2>4. Tail(c) \in Seq({0, 1}) /\ Len(Tail(c)) = Len(p) /\ \A k \in 1 .. Len(p) : Tail(c)[k] = c[k + 1]
    BY <2>1, <2>2, <2>3, HeadTailProperties
  <2>5. \A k \in 1 .. Len(p) : Tail(c)[k] = p[k]
    BY <2>1, <2>2, <2>4
  <2>6. Tail(c) = p
    BY <2>4, <2>5, SeqEqual
  <2> QED BY <2>3, <2>6 DEF c
<1>2. ASSUME NEW p \in Paths, NEW i \in {0, 1}
      PROVE  /\ p \o <<i>> # <<>> /\ Front(p \o <<i>>) = p /\ Last(p \o <<i>>) = i
  <2> DEFINE c == p \o <<i>>
  <2>1. <<i>> \in Seq({0, 1}) /\ Len(<<i>>) = 1 /\ <<i>>[1] = i /\ Len(p) \in Nat
    BY LenProperties
  <2>2. /\ c \in Seq({0, 1}) /\ Len(c) = Len(p) + 1
        /\ \A k \in 1 .. Len(p) + 1 : c[k] = IF k <= Len(p) THEN p[k] ELSE <<i>>[k - Len(p)]
    BY <2>1, ConcatProperties
  <2> HIDE DEF c
  <2>3. c # <<>> /\ c[Len(c)] = i
    BY <2>1, <2>2
  <2>4. \A k \in 1 .. Len(p) : c[k] = p[k] /\ c[k] \in {0, 1}
    BY <2>1, <2>2
  <2>5. /\ SubSeq(c, 1, Len(p)) \in Seq({0, 1}) /\ Len(SubSeq(c, 1, Len(p))) = Len(p)
        /\ \A k \in 1 .. Len(p) : SubSeq(c, 1, Len(p))[k] = c[k]
    BY <2>1, <2>4, SubSeqProperties
  <2>6. SubSeq(c, 1, Len(p)) = p
    BY <2>4, <2>5, SeqEqual
  <2>7. Len(c) - 1 = Len(p)
    BY <2>1, <2>2
  <2> QED BY <2>3, <2>6, <2>7 DEF c, Front, Last
<1>3. ASSUME NEW p \in Paths \ {<<>>}
      PROVE  \E i \in {0, 1}, q \in Paths : p = <<i>> \o q
  <2>1. Len(p) \in Nat \ {0} /\ DOMAIN p = 1 .. Len(p)
    BY EmptySeq, LenProperties
  <2>2. SubSeq(p, 1, Len(p)) = <<p[1]>> \o SubSeq(p, 2, Len(p))
    <3>1. 1 \in 1 .. Len(p) /\ Len(p) \in 1 .. Len(p)
      BY <2>1
    <3>2. SubSeq(p, 1, Len(p)) = <<p[1]>> \o SubSeq(p, 1 + 1, Len(p))
      BY <3>1, SubSeqRecursiveFirst
    <3> QED BY <3>2
  <2>3. SubSeq(p, 1, Len(p)) = p
    BY SubSeqFull
  <2>4. \A k \in 1 .. Len(p) : p[k] \in {0, 1}
    BY ElementOfSeq
  <2>5. SubSeq(p, 2, Len(p)) \in Seq({0, 1})
    BY <2>1, <2>4, SubSeqProperties
  <2>6. p[1] \in {0, 1}
    BY <2>1, <2>4
  <2> QED BY <2>2, <2>3, <2>5, <2>6
<1>4. ASSUME NEW p \in Paths \ {<<>>}
      PROVE  /\ Front(p) \in Paths /\ Last(p) \in {0, 1} /\ p = Front(p) \o <<Last(p)>>
             /\ Len(Front(p)) = Len(p) - 1
  <2>1. Len(p) \in Nat \ {0} /\ DOMAIN p = 1 .. Len(p)
    BY EmptySeq, LenProperties
  <2>2. 1 \in 1 .. Len(p) /\ Len(p) \in 1 .. Len(p)
    BY <2>1
  <2>3. SubSeq(p, 1, Len(p)) = SubSeq(p, 1, Len(p) - 1) \o <<p[Len(p)]>>
    BY <2>2, SubSeqRecursiveSecond
  <2>4. SubSeq(p, 1, Len(p)) = p
    BY SubSeqFull
  <2>5. \A k \in 1 .. Len(p) : p[k] \in {0, 1}
    BY ElementOfSeq
  <2>6. \A k \in 1 .. Len(p) - 1 : p[k] \in {0, 1}
    BY <2>1, <2>5
  <2>7. SubSeq(p, 1, Len(p) - 1) \in Seq({0, 1}) /\ Len(SubSeq(p, 1, Len(p) - 1)) = Len(p) - 1
    <3>1. Len(p) - 1 \in Int /\ (1 <= Len(p) - 1 => (Len(p) - 1) - 1 + 1 = Len(p) - 1) /\ (~(1 <= Len(p) - 1) => Len(p) - 1 = 0)
      BY <2>1
    <3> DEFINE n == Len(p) - 1
    <3>2. SubSeq(p, 1, n) \in Seq({0, 1}) /\ Len(SubSeq(p, 1, n)) = IF 1 <= n THEN n - 1 + 1 ELSE 0
      BY <2>6, <3>1, SubSeqProperties
    <3> QED BY <3>1, <3>2
  <2>8. p[Len(p)] \in {0, 1}
    BY <2>2, <2>5
  <2> QED BY <2>3, <2>4, <2>7, <2>8 DEF Front, Last
<1> QED BY <1>1, <1>2, <1>3, <1>4
-------------------------------------------------------------------------------
LEMMA CancelLeft ==
  ASSUME NEW p \in Paths, NEW q \in Paths, NEW r \in Paths, p \o q = p \o r
  PROVE  q = r
BY DEF Paths

LEMMA ConcatAt ==
  ASSUME NEW p \in Paths, NEW q \in Paths
  PROVE  /\ Len(p \o q) = Len(p) + Len(q)
         /\ \A k \in 1 .. Len(p) + Len(q) : (p \o q)[k] = IF k <= Len(p) THEN p[k] ELSE q[k - Len(p)]
BY ConcatProperties DEF Paths

\* A path and its beginnings.
LEMMA PathParts ==
  ASSUME NEW p \in Paths, NEW n \in 0 .. Len(p)
  PROVE  /\ SubSeq(p, 1, n) \in Paths /\ Len(SubSeq(p, 1, n)) = n
         /\ \A k \in 1 .. n : SubSeq(p, 1, n)[k] = p[k]
         /\ SubSeq(p, n + 1, Len(p)) \in Paths /\ Len(SubSeq(p, n + 1, Len(p))) = Len(p) - n
         /\ \A k \in 1 .. Len(p) - n : SubSeq(p, n + 1, Len(p))[k] = p[n + k]
         /\ p = SubSeq(p, 1, n) \o SubSeq(p, n + 1, Len(p))
<1> USE DEF Paths
<1>1. Len(p) \in Nat /\ n \in Nat /\ n <= Len(p) /\ DOMAIN p = 1 .. Len(p)
  BY LenProperties
<1>2. \A k \in 1 .. Len(p) : p[k] \in {0, 1}
  BY ElementOfSeq
<1>3. /\ SubSeq(p, 1, n) \in Paths /\ Len(SubSeq(p, 1, n)) = n
      /\ \A k \in 1 .. n : SubSeq(p, 1, n)[k] = p[k]
  <2>1. \A k \in 1 .. n : p[k] \in {0, 1}
    BY <1>1, <1>2
  <2>2. /\ SubSeq(p, 1, n) \in Seq({0, 1})
        /\ Len(SubSeq(p, 1, n)) = IF 1 <= n THEN n - 1 + 1 ELSE 0
        /\ \A k \in 1 .. n - 1 + 1 : SubSeq(p, 1, n)[k] = p[1 + k - 1]
    BY <1>1, <2>1, SubSeqProperties
  <2>3. (IF 1 <= n THEN n - 1 + 1 ELSE 0) = n /\ n - 1 + 1 = n
    BY <1>1
  <2>4. \A k \in 1 .. n : 1 + k - 1 = k
    BY <1>1
  <2> QED BY <2>2, <2>3, <2>4
<1>4. /\ SubSeq(p, n + 1, Len(p)) \in Paths /\ Len(SubSeq(p, n + 1, Len(p))) = Len(p) - n
      /\ \A k \in 1 .. Len(p) - n : SubSeq(p, n + 1, Len(p))[k] = p[n + k]
  <2> DEFINE a == n + 1
             b == Len(p)
  <2>1. a \in Int /\ b \in Int /\ \A k \in a .. b : p[k] \in {0, 1}
    BY <1>1, <1>2
  <2>2. (IF a <= b THEN b - a + 1 ELSE 0) = b - n /\ b - a + 1 = b - n
    <3>1. \A x, y \in Nat : y <= x => (IF y + 1 <= x THEN x - (y + 1) + 1 ELSE 0) = x - y /\ x - (y + 1) + 1 = x - y
      OBVIOUS
    <3> QED BY <1>1, <3>1
  <2>3. \A k \in 1 .. b - n : a + k - 1 = n + k
    BY <1>1
  <2> HIDE DEF a, b
  <2>4. /\ SubSeq(p, a, b) \in Seq({0, 1})
        /\ Len(SubSeq(p, a, b)) = IF a <= b THEN b - a + 1 ELSE 0
        /\ \A k \in 1 .. b - a + 1 : SubSeq(p, a, b)[k] = p[a + k - 1]
    BY <2>1, SubSeqProperties
  <2>5. /\ SubSeq(p, a, b) \in Seq({0, 1})
        /\ Len(SubSeq(p, a, b)) = b - n
        /\ \A k \in 1 .. b - n : SubSeq(p, a, b)[k] = p[n + k]
    BY <2>2, <2>3, <2>4
  <2> QED BY <2>5 DEF a, b
<1>5. p = SubSeq(p, 1, n) \o SubSeq(p, n + 1, Len(p))
  <2>1. 1 \in 1 .. Len(p) + 1 /\ n \in 1 - 1 .. Len(p) /\ Len(p) \in n .. Len(p)
    BY <1>1
  <2>2. SubSeq(p, 1, n) \o SubSeq(p, n + 1, Len(p)) = SubSeq(p, 1, Len(p))
    BY <2>1, ConcatAdjacentSubSeq
  <2> QED BY <2>2, SubSeqFull
<1> QED BY <1>3, <1>4, <1>5

\* Paths that agree as far as one of them goes.
LEMMA SamePath ==
  ASSUME NEW p \in Paths, NEW q \in Paths, Len(p) = Len(q), \A k \in 1 .. Len(p) : p[k] = q[k]
  PROVE  p = q
BY SeqEqual DEF Paths

\* A prefix of a path is what the path goes on from.
LEMMA PrefixIs ==
  /\ \A p, q \in Paths : IsPrefix(p, q) <=> \E r \in Paths : q = p \o r
  /\ \A p, r \in Paths : /\ SubSeq(p \o r, 1, Len(p)) = p
                         /\ SubSeq(p \o r, Len(p) + 1, Len(p \o r)) = r
<1>1. ASSUME NEW p \in Paths, NEW r \in Paths
      PROVE  /\ SubSeq(p \o r, 1, Len(p)) = p
             /\ SubSeq(p \o r, Len(p) + 1, Len(p \o r)) = r
  <2> DEFINE q == p \o r
             n == Len(p)
  <2>1. q \in Paths /\ n \in Nat /\ Len(r) \in Nat /\ Len(q) = n + Len(r)
    BY PathAlgebra
  <2>2. \A k \in 1 .. n : q[k] = p[k]
    <3>1. \A k \in 1 .. n + Len(r) : q[k] = IF k <= n THEN p[k] ELSE r[k - n]
      BY ConcatAt
    <3> QED BY <2>1, <3>1
  <2> HIDE DEF q
  <2>3. n \in 0 .. Len(q)
    BY <2>1
  <2>4. /\ SubSeq(q, 1, n) \in Paths /\ Len(SubSeq(q, 1, n)) = n
        /\ \A k \in 1 .. n : SubSeq(q, 1, n)[k] = q[k]
        /\ SubSeq(q, n + 1, Len(q)) \in Paths
        /\ q = SubSeq(q, 1, n) \o SubSeq(q, n + 1, Len(q))
    BY <2>1, <2>3, PathParts
  <2>5. SubSeq(q, 1, n) = p
    <3> DEFINE f == SubSeq(q, 1, n)
    <3>1. f \in Paths /\ Len(f) = Len(p) /\ \A k \in 1 .. Len(f) : f[k] = p[k]
      BY <2>2, <2>4
    <3> HIDE DEF f
    <3>2. f = p
      BY <3>1, SamePath
    <3> QED BY <3>2 DEF f
  <2> DEFINE z == SubSeq(q, n + 1, Len(q))
  <2>6. z \in Paths /\ q = p \o z
    BY <2>4, <2>5
  <2> HIDE DEF z
  <2>8. p \o r = p \o z
    BY <2>6 DEF q
  <2>9. r = z
    BY <2>6, <2>8, CancelLeft
  <2>7. r = SubSeq(q, n + 1, Len(q))
    BY <2>9 DEF z
  <2> QED BY <2>5, <2>7 DEF q
<1>2. ASSUME NEW p \in Paths, NEW q \in Paths, IsPrefix(p, q)
      PROVE  \E r \in Paths : q = p \o r
  <2>1. Len(p) \in Nat /\ Len(q) \in Nat
    BY PathAlgebra
  <2>2. Len(p) \in 0 .. Len(q) /\ SubSeq(p, 1, Len(p)) = SubSeq(q, 1, Len(p))
    BY <1>2, <2>1 DEF IsPrefix
  <2>3. SubSeq(p, 1, Len(p)) = p
    BY SubSeqFull DEF Paths
  <2>4. SubSeq(q, Len(p) + 1, Len(q)) \in Paths /\ q = SubSeq(q, 1, Len(p)) \o SubSeq(q, Len(p) + 1, Len(q))
    BY <2>2, PathParts
  <2> QED BY <2>2, <2>3, <2>4
<1>3. ASSUME NEW p \in Paths, NEW r \in Paths
      PROVE  IsPrefix(p, p \o r)
  <2>1. Len(p) \in Nat /\ Len(r) \in Nat /\ Len(p \o r) = Len(p) + Len(r)
    BY PathAlgebra
  <2>2. SubSeq(p, 1, Len(p)) = p
    BY SubSeqFull DEF Paths
  <2>3. Len(p) <= Len(p \o r)
    BY <2>1
  <2> QED BY <1>1, <2>2, <2>3 DEF IsPrefix
<1> QED BY <1>1, <1>2, <1>3

\* The place where two paths part.
PartAt(p, q, i) ==
  /\ i \in 1 .. Len(p) /\ i \in 1 .. Len(q) /\ p[i] # q[i]
  /\ \A k \in 1 .. i - 1 : p[k] = q[k]

LEMMA PartOrFollow ==
  ASSUME NEW p \in Paths, NEW q \in Paths
  PROVE  (\E i \in Nat : PartAt(p, q, i)) \/ (\E r \in Paths : q = p \o r) \/ (\E r \in Paths : p = q \o r)
<1> DEFINE T == {i \in Nat : i \in 1 .. Len(p) /\ i \in 1 .. Len(q) /\ p[i] # q[i]}
<1>1. Len(p) \in Nat /\ Len(q) \in Nat
  BY PathAlgebra
<1>2. CASE T # {}
  <2>1. T \subseteq Nat
    OBVIOUS
  <2> HIDE DEF T
  <2>2. PICK i \in T : \A j \in T : i <= j
    BY <1>2, <2>1, LeastNatural
  <2>3. \A k \in 1 .. i - 1 : k \notin T /\ k \in Nat /\ k \in 1 .. Len(p) /\ k \in 1 .. Len(q)
    BY <1>1, <2>2 DEF T
  <2>4. \A k \in 1 .. i - 1 : p[k] = q[k]
    BY <2>3 DEF T
  <2>5. i \in Nat /\ i \in 1 .. Len(p) /\ i \in 1 .. Len(q) /\ p[i] # q[i]
    BY <2>2 DEF T
  <2>6. PartAt(p, q, i)
    BY <2>4, <2>5 DEF PartAt
  <2> QED BY <2>5, <2>6
<1>3. ASSUME T = {}, NEW a \in Paths, NEW b \in Paths, Len(a) <= Len(b),
             (a = p /\ b = q) \/ (a = q /\ b = p)
      PROVE  \E r \in Paths : b = a \o r
  <2>1. Len(a) \in Nat /\ Len(b) \in Nat /\ Len(a) \in 0 .. Len(b)
    BY <1>3, PathAlgebra
  <2>2. \A k \in 1 .. Len(a) : a[k] = b[k]
    BY <1>1, <1>3, <2>1
  <2> HIDE DEF T
  <2>3. /\ SubSeq(b, 1, Len(a)) \in Paths /\ Len(SubSeq(b, 1, Len(a))) = Len(a)
        /\ \A k \in 1 .. Len(a) : SubSeq(b, 1, Len(a))[k] = b[k]
        /\ SubSeq(b, Len(a) + 1, Len(b)) \in Paths
        /\ b = SubSeq(b, 1, Len(a)) \o SubSeq(b, Len(a) + 1, Len(b))
    BY <2>1, PathParts
  <2> DEFINE f == SubSeq(b, 1, Len(a))
  <2>4. f \in Paths /\ Len(f) = Len(a) /\ \A k \in 1 .. Len(f) : f[k] = a[k]
    BY <2>2, <2>3
  <2> HIDE DEF f
  <2>5. f = a
    BY <2>4, SamePath
  <2> QED BY <2>3, <2>5 DEF f
<1>4. Len(p) <= Len(q) \/ Len(q) <= Len(p)
  BY <1>1
<1> QED BY <1>2, <1>3, <1>4

LEMMA PartParts ==
  ASSUME NEW p \in Paths, NEW q \in Paths, NEW i \in Nat, PartAt(p, q, i)
  PROVE  \E c, r, s \in Paths : /\ p[i] \in {0, 1} /\ q[i] \in {0, 1}
                                /\ p = c \o (<<p[i]>> \o r) /\ q = c \o (<<q[i]>> \o s)
<1> DEFINE c == SubSeq(p, 1, i - 1)
           r == SubSeq(p, i + 1, Len(p))
           s == SubSeq(q, i + 1, Len(q))
<1>1. ASSUME NEW a \in Paths, i \in 1 .. Len(a)
      PROVE  /\ a[i] \in {0, 1} /\ SubSeq(a, i + 1, Len(a)) \in Paths
             /\ SubSeq(a, 1, i - 1) \in Paths /\ Len(SubSeq(a, 1, i - 1)) = i - 1
             /\ \A k \in 1 .. i - 1 : SubSeq(a, 1, i - 1)[k] = a[k]
             /\ a = SubSeq(a, 1, i - 1) \o (<<a[i]>> \o SubSeq(a, i + 1, Len(a)))
  <2>1. Len(a) \in Nat /\ i - 1 \in 0 .. Len(a) /\ i \in 0 .. Len(a) /\ Len(a) \in i .. Len(a)
    BY <1>1, PathAlgebra
  <2>2. /\ SubSeq(a, 1, i - 1) \in Paths /\ Len(SubSeq(a, 1, i - 1)) = i - 1
        /\ \A k \in 1 .. i - 1 : SubSeq(a, 1, i - 1)[k] = a[k]
        /\ a = SubSeq(a, 1, i - 1) \o SubSeq(a, (i - 1) + 1, Len(a))
    BY <2>1, PathParts
  <2>3. SubSeq(a, i + 1, Len(a)) \in Paths
    BY <2>1, PathParts
  <2>4. (i - 1) + 1 = i
    OBVIOUS
  <2>5. SubSeq(a, i, Len(a)) = <<a[i]>> \o SubSeq(a, i + 1, Len(a))
    BY <1>1, <2>1, SubSeqRecursiveFirst DEF Paths
  <2>6. a[i] \in {0, 1}
    BY <1>1, ElementOfSeq DEF Paths
  <2> QED BY <2>2, <2>3, <2>4, <2>5, <2>6
<1>2. i \in 1 .. Len(p) /\ i \in 1 .. Len(q) /\ \A k \in 1 .. i - 1 : p[k] = q[k]
  BY DEF PartAt
<1>3. SubSeq(p, 1, i - 1) = SubSeq(q, 1, i - 1)
  <2> DEFINE f == SubSeq(p, 1, i - 1)
             g == SubSeq(q, 1, i - 1)
  <2>1. f \in Paths /\ g \in Paths /\ Len(f) = i - 1 /\ Len(g) = i - 1 /\ \A k \in 1 .. i - 1 : f[k] = g[k]
    BY <1>1, <1>2
  <2> HIDE DEF f, g
  <2>2. f = g
    BY <2>1, SamePath
  <2> QED BY <2>2 DEF f, g
<1>4. c \in Paths /\ r \in Paths /\ s \in Paths /\ p[i] \in {0, 1} /\ q[i] \in {0, 1}
  BY <1>1, <1>2
<1>5. p = c \o (<<p[i]>> \o r) /\ q = c \o (<<q[i]>> \o s)
  <2>1. p = SubSeq(p, 1, i - 1) \o (<<p[i]>> \o SubSeq(p, i + 1, Len(p)))
    BY <1>1, <1>2
  <2>2. q = SubSeq(q, 1, i - 1) \o (<<q[i]>> \o SubSeq(q, i + 1, Len(q)))
    BY <1>1, <1>2
  <2> QED BY <1>3, <2>1, <2>2
<1> HIDE DEF c, r, s
<1> QED BY <1>4, <1>5

LEMMA PartsPart ==
  ASSUME NEW c \in Paths, NEW r \in Paths, NEW s \in Paths, NEW x \in {0, 1}, NEW y \in {0, 1}, x # y
  PROVE  LET i == Len(c) + 1
             p == c \o (<<x>> \o r)
             q == c \o (<<y>> \o s)
         IN i \in Nat /\ PartAt(p, q, i) /\ p[i] = x /\ q[i] = y
<1> DEFINE i == Len(c) + 1
<1>1. Len(c) \in Nat /\ i \in Nat
  BY PathAlgebra
<1>2. ASSUME NEW z \in {0, 1}, NEW t \in Paths
      PROVE  LET u == c \o (<<z>> \o t)
             IN i \in 1 .. Len(u) /\ u[i] = z /\ \A k \in 1 .. i - 1 : u[k] = c[k]
  <2> DEFINE v == <<z>> \o t
             u == c \o v
  <2>1. <<z>> \in Paths /\ Len(<<z>>) = 1 /\ <<z>>[1] = z /\ Len(t) \in Nat
    BY PathAlgebra
  <2>2. v \in Paths /\ Len(v) = 1 + Len(t) /\ v[1] = z
    BY <2>1, PathAlgebra, PathEnds
  <2> HIDE DEF v
  <2>3. Len(u) = Len(c) + Len(v) /\ \A k \in 1 .. Len(c) + Len(v) : u[k] = IF k <= Len(c) THEN c[k] ELSE v[k - Len(c)]
    BY <2>2, ConcatAt
  <2> HIDE DEF u
  <2>4. i \in 1 .. Len(c) + Len(v) /\ ~(i <= Len(c)) /\ i - Len(c) = 1
    BY <1>1, <2>1, <2>2
  <2>5. u[i] = z
    BY <2>2, <2>3, <2>4
  <2>6. \A k \in 1 .. i - 1 : k \in 1 .. Len(c) + Len(v) /\ k <= Len(c)
    BY <1>1, <2>1, <2>2
  <2>7. \A k \in 1 .. i - 1 : u[k] = c[k]
    BY <2>3, <2>6
  <2> QED BY <2>3, <2>4, <2>5, <2>7 DEF u, v
<1> HIDE DEF i
<1>3. LET p == c \o (<<x>> \o r)
          q == c \o (<<y>> \o s)
      IN PartAt(p, q, i) /\ p[i] = x /\ q[i] = y
  <2> DEFINE p == c \o (<<x>> \o r)
             q == c \o (<<y>> \o s)
  <2>1. i \in 1 .. Len(p) /\ p[i] = x /\ \A k \in 1 .. i - 1 : p[k] = c[k]
    BY <1>2
  <2>2. i \in 1 .. Len(q) /\ q[i] = y /\ \A k \in 1 .. i - 1 : q[k] = c[k]
    BY <1>2
  <2> HIDE DEF p, q
  <2>3. PartAt(p, q, i) /\ p[i] = x /\ q[i] = y
    BY <2>1, <2>2 DEF PartAt
  <2> QED BY <2>3 DEF p, q
<1> QED BY <1>1, <1>3 DEF i

\* Two paths are equal, or one goes on from the other, or they part.
LEMMA Fork ==
  ASSUME NEW p \in Paths, NEW q \in Paths, p # q
  PROVE  \/ \E i \in {0, 1}, r \in Paths : q = p \o (<<i>> \o r)
         \/ \E i \in {0, 1}, r \in Paths : p = q \o (<<i>> \o r)
         \/ \E c, r, s \in Paths, i, j \in {0, 1} : i # j /\ p = c \o (<<i>> \o r) /\ q = c \o (<<j>> \o s)
<1>1. ASSUME NEW a \in Paths, NEW b \in Paths, NEW r \in Paths, b = a \o r, a # b
      PROVE  \E i \in {0, 1}, s \in Paths : b = a \o (<<i>> \o s)
  <2>1. r # <<>>
    BY <1>1, PathAlgebra
  <2>2. PICK i \in {0, 1}, s \in Paths : r = <<i>> \o s
    BY <2>1, PathEnds
  <2> QED BY <1>1, <2>2
<1>2. ASSUME NEW i \in Nat, PartAt(p, q, i)
      PROVE  \E c, r, s \in Paths, x, y \in {0, 1} : x # y /\ p = c \o (<<x>> \o r) /\ q = c \o (<<y>> \o s)
  <2>1. PICK c, r, s \in Paths : /\ p[i] \in {0, 1} /\ q[i] \in {0, 1}
                                 /\ p = c \o (<<p[i]>> \o r) /\ q = c \o (<<q[i]>> \o s)
    BY <1>2, PartParts
  <2>2. p[i] # q[i]
    BY <1>2 DEF PartAt
  <2> QED BY <2>1, <2>2
<1>3. CASE \E r \in Paths : q = p \o r
  <2>1. PICK r \in Paths : q = p \o r
    BY <1>3
  <2> QED BY <1>1, <2>1, Zenon
<1>4. CASE \E r \in Paths : p = q \o r
  <2>1. PICK r \in Paths : p = q \o r
    BY <1>4
  <2> QED BY <1>1, <2>1, Zenon
<1>5. CASE \E i \in Nat : PartAt(p, q, i)
  BY <1>2, <1>5, Zenon
<1> QED BY <1>3, <1>4, <1>5, PartOrFollow, Zenon

\* Depth first order.
LEMMA BeforeAt ==
  ASSUME NEW p \in Paths, NEW q \in Paths
  PROVE  Before(p, q) <=> \E i \in Nat : PartAt(p, q, i) /\ p[i] < q[i]
<1>1. Len(p) \in Nat /\ Len(q) \in Nat /\ DOMAIN p = 1 .. Len(p) /\ DOMAIN q = 1 .. Len(q)
  BY LenProperties DEF Paths
<1>2. ASSUME NEW i \in 1 .. Len(p), i \in 1 .. Len(q)
      PROVE  SubSeq(p, 1, i - 1) = SubSeq(q, 1, i - 1) <=> \A k \in 1 .. i - 1 : p[k] = q[k]
  <2> DEFINE f == SubSeq(p, 1, i - 1)
             g == SubSeq(q, 1, i - 1)
  <2>1. i - 1 \in 0 .. Len(p) /\ i - 1 \in 0 .. Len(q)
    BY <1>1, <1>2
  <2>2. /\ f \in Paths /\ Len(f) = i - 1 /\ \A k \in 1 .. i - 1 : f[k] = p[k]
        /\ g \in Paths /\ Len(g) = i - 1 /\ \A k \in 1 .. i - 1 : g[k] = q[k]
    BY <2>1, PathParts
  <2> HIDE DEF f, g
  <2>3. f = g <=> \A k \in 1 .. i - 1 : f[k] = g[k]
    BY <2>2, SamePath
  <2>4. f = g <=> \A k \in 1 .. i - 1 : p[k] = q[k]
    BY <2>2, <2>3
  <2> QED BY <2>4 DEF f, g
<1>3. ASSUME NEW i \in 1 .. Len(p), i \in 1 .. Len(q), p[i] < q[i]
      PROVE  p[i] # q[i]
  <2>1. p[i] \in {0, 1} /\ q[i] \in {0, 1}
    BY <1>3, ElementOfSeq DEF Paths
  <2> QED BY <1>3, <2>1
<1>4. ASSUME Before(p, q)
      PROVE  \E i \in Nat : PartAt(p, q, i) /\ p[i] < q[i]
  <2>1. PICK i \in DOMAIN p \cap DOMAIN q : SubSeq(p, 1, i - 1) = SubSeq(q, 1, i - 1) /\ p[i] < q[i]
    BY <1>4 DEF Before
  <2>2. i \in Nat /\ i \in 1 .. Len(p) /\ i \in 1 .. Len(q)
    BY <1>1, <2>1
  <2> QED BY <1>2, <1>3, <2>1, <2>2 DEF PartAt
<1>5. ASSUME NEW i \in Nat, PartAt(p, q, i), p[i] < q[i]
      PROVE  Before(p, q)
  <2>1. i \in DOMAIN p \cap DOMAIN q /\ SubSeq(p, 1, i - 1) = SubSeq(q, 1, i - 1)
    BY <1>1, <1>2, <1>5 DEF PartAt
  <2> QED BY <1>5, <2>1 DEF Before
<1> QED BY <1>4, <1>5

LEMMA BeforeOrder ==
  /\ \A p \in Paths : ~Before(p, p)
  /\ \A p, q, r \in Paths : Before(p, q) /\ Before(q, r) => Before(p, r)
<1>1. ASSUME NEW p \in Paths PROVE ~Before(p, p)
  BY BeforeAt DEF PartAt
<1>2. ASSUME NEW p \in Paths, NEW q \in Paths, NEW r \in Paths, Before(p, q), Before(q, r)
      PROVE  Before(p, r)
  <2>1. PICK i \in Nat : PartAt(p, q, i) /\ p[i] < q[i]
    BY <1>2, BeforeAt
  <2>2. PICK j \in Nat : PartAt(q, r, j) /\ q[j] < r[j]
    BY <1>2, BeforeAt
  <2>3. Len(p) \in Nat /\ Len(q) \in Nat /\ Len(r) \in Nat
    BY PathAlgebra
  <2>4. /\ \A k \in 1 .. Len(p) : p[k] \in {0, 1}
        /\ \A k \in 1 .. Len(q) : q[k] \in {0, 1}
        /\ \A k \in 1 .. Len(r) : r[k] \in {0, 1}
    BY ElementOfSeq DEF Paths
  <2>5. CASE i < j
    <3>1. i \in 1 .. Len(r) /\ r[i] = q[i] /\ \A k \in 1 .. i - 1 : r[k] = q[k]
      BY <2>1, <2>2, <2>3, <2>5 DEF PartAt
    <3>2. PartAt(p, r, i) /\ p[i] < r[i]
      BY <2>1, <3>1 DEF PartAt
    <3> QED BY <3>2, BeforeAt
  <2>6. CASE j < i
    <3>1. j \in 1 .. Len(p) /\ p[j] = q[j] /\ \A k \in 1 .. j - 1 : p[k] = q[k]
      BY <2>1, <2>2, <2>3, <2>6 DEF PartAt
    <3>2. PartAt(p, r, j) /\ p[j] < r[j]
      BY <2>2, <3>1 DEF PartAt
    <3> QED BY <3>2, BeforeAt
  <2>7. CASE i = j
    <3>1. p[i] \in {0, 1} /\ q[i] \in {0, 1} /\ r[i] \in {0, 1}
      BY <2>1, <2>2, <2>4, <2>7 DEF PartAt
    <3>2. p[i] < r[i] /\ p[i] # r[i]
      BY <2>1, <2>2, <2>7, <3>1
    <3>3. PartAt(p, r, i)
      BY <2>1, <2>2, <2>7, <3>2 DEF PartAt
    <3> QED BY <3>2, <3>3, BeforeAt
  <2> QED BY <2>5, <2>6, <2>7
<1> QED BY <1>1, <1>2
-------------------------------------------------------------------------------
\* Concatenations that start alike go on alike.
LEMMA ConsEqual ==
  ASSUME NEW c \in Paths, NEW i \in {0, 1}, NEW j \in {0, 1}, NEW r \in Paths, NEW s \in Paths,
         c \o (<<i>> \o r) = c \o (<<j>> \o s)
  PROVE  i = j /\ r = s
<1> DEFINE x == <<i>> \o r
           y == <<j>> \o s
<1>1. x \in Paths /\ y \in Paths /\ x[1] = i /\ y[1] = j /\ Tail(x) = r /\ Tail(y) = s
  BY PathAlgebra, PathEnds
<1> HIDE DEF x, y
<1>2. c \o x = c \o y
  BY DEF x, y
<1>3. x = y
  BY <1>1, <1>2, CancelLeft
<1> QED BY <1>1, <1>3

LEMMA ConsIs ==
  ASSUME NEW i \in {0, 1}, NEW j \in {0, 1}, NEW r \in Paths, NEW s \in Paths, <<i>> \o r = <<j>> \o s
  PROVE  i = j /\ r = s
<1> DEFINE x == <<i>> \o r
           y == <<j>> \o s
<1>1. x[1] = i /\ y[1] = j /\ Tail(x) = r /\ Tail(y) = s
  BY PathEnds
<1>2. x = y
  OBVIOUS
<1> HIDE DEF x, y
<1> QED BY <1>1, <1>2

LEMMA SnocIs ==
  ASSUME NEW i \in {0, 1}, NEW j \in {0, 1}, NEW r \in Paths, NEW s \in Paths, r \o <<i>> = s \o <<j>>
  PROVE  i = j /\ r = s
<1> DEFINE x == r \o <<i>>
           y == s \o <<j>>
<1>1. Front(x) = r /\ Front(y) = s /\ Last(x) = i /\ Last(y) = j
  BY PathEnds
<1>2. x = y
  OBVIOUS
<1> HIDE DEF x, y
<1> QED BY <1>1, <1>2

\* The image of a finite set.
LEMMA ImageFinite ==
  ASSUME NEW f, IsFiniteSet(DOMAIN f)
  PROVE  IsFiniteSet({f[x] : x \in DOMAIN f})
<1> DEFINE S == DOMAIN f
           T == {f[x] : x \in S}
           g == [x \in S |-> f[x]]
<1>1. g \in Surjection(S, T)
  BY DEF Surjection
<1> HIDE DEF g, S, T
<1>2. IsFiniteSet(S)
  BY DEF S
<1>3. IsFiniteSet(T)
  BY <1>1, <1>2, FS_Surjection
<1> QED BY <1>3 DEF T, S
-----------------------------------------------------------------------------
(* Trees. *)

\* A tree: the paths on the way to a path are those of branches, and a branch has both children.
IsTree(t) ==
  /\ t = [p \in DOMAIN t |-> t[p]]
  /\ DOMAIN t \subseteq Paths /\ IsFiniteSet(DOMAIN t) /\ <<>> \in DOMAIN t
  /\ \A p \in BranchPaths(t), i \in {0, 1} : p \o <<i>> \in DOMAIN t
  /\ \A p, q \in Paths : p \o q \in DOMAIN t /\ q # <<>> => p \in BranchPaths(t)

LEMMA TreePaths ==
  ASSUME NEW t, IsTree(t)
  PROVE  /\ LeafPaths(t) \subseteq Paths /\ BranchPaths(t) \subseteq Paths
         /\ LeafPaths(t) \subseteq DOMAIN t /\ BranchPaths(t) \subseteq DOMAIN t
         /\ IsFiniteSet(LeafPaths(t))
         /\ \A p \in LeafPaths(t), q \in Paths : p \o q \in DOMAIN t => q = <<>>
         /\ \A p \in DOMAIN t : p \in LeafPaths(t) <=> IsLeaf(t[p])
         /\ \A p \in DOMAIN t : p \in BranchPaths(t) <=> ~IsLeaf(t[p])
<1>1. LeafPaths(t) \subseteq DOMAIN t /\ BranchPaths(t) \subseteq DOMAIN t
  BY DEF LeafPaths, BranchPaths
<1>2. IsFiniteSet(LeafPaths(t))
  BY <1>1, FS_Subset DEF IsTree
<1>3. ASSUME NEW p \in LeafPaths(t), NEW q \in Paths, p \o q \in DOMAIN t
      PROVE  q = <<>>
  BY <1>1, <1>3 DEF IsTree, BranchPaths
<1>4. /\ \A p \in DOMAIN t : p \in LeafPaths(t) <=> IsLeaf(t[p])
      /\ \A p \in DOMAIN t : p \in BranchPaths(t) <=> ~IsLeaf(t[p])
  BY DEF LeafPaths, BranchPaths
<1> QED BY <1>1, <1>2, <1>3, <1>4 DEF IsTree

\* A tree with the same paths and leaves at the same places is one.
LEMMA SameTree ==
  ASSUME NEW t, IsTree(t), NEW u, u = [p \in DOMAIN t |-> u[p]],
         \A p \in DOMAIN t : IsLeaf(u[p]) <=> IsLeaf(t[p])
  PROVE  IsTree(u) /\ LeafPaths(u) = LeafPaths(t) /\ BranchPaths(u) = BranchPaths(t) /\ DOMAIN u = DOMAIN t
<1>1. DOMAIN u = DOMAIN t
  OBVIOUS
<1>2. LeafPaths(u) = LeafPaths(t)
  BY <1>1 DEF LeafPaths
<1>3. BranchPaths(u) = BranchPaths(t)
  BY <1>1, <1>2 DEF BranchPaths
<1> QED BY <1>1, <1>2, <1>3 DEF IsTree

LEMMA LeafTree ==
  ASSUME NEW n, IsLeaf(n)
  PROVE  IsTree(Leaf(n)) /\ LeafPaths(Leaf(n)) = {<<>>} /\ Leaf(n)[<<>>] = n /\ BranchPaths(Leaf(n)) = {}
<1> DEFINE t == Leaf(n)
<1>1. DOMAIN t = {<<>>} /\ t[<<>>] = n /\ t = [p \in DOMAIN t |-> t[p]]
  BY DEF Leaf
<1> HIDE DEF t
<1>2. LeafPaths(t) = {<<>>} /\ BranchPaths(t) = {}
  BY <1>1 DEF LeafPaths, BranchPaths
<1>3. IsFiniteSet({<<>>})
  BY FS_Singleton
<1>4. ASSUME NEW p \in Paths, NEW q \in Paths, p \o q \in DOMAIN t, q # <<>> PROVE FALSE
  BY <1>1, <1>4, ConcatEqualIffEmpty DEF Paths
<1>5. DOMAIN t \subseteq Paths
  BY <1>1, PathAlgebra
<1>6. IsTree(t)
  BY <1>1, <1>2, <1>3, <1>4, <1>5 DEF IsTree
<1> QED BY <1>1, <1>2, <1>6 DEF t

\* Two trees under a branch.
LEMMA BranchTree ==
  ASSUME NEW a, IsTree(a), NEW b, IsTree(b), NEW dir, NEW ratio
  PROVE  LET t == Branch(dir, ratio, a, b)
         IN /\ IsTree(t)
            /\ t[<<>>] = [dir |-> dir, ratio |-> ratio]
            /\ \A q \in DOMAIN a : t[<<0>> \o q] = a[q]
            /\ \A q \in DOMAIN b : t[<<1>> \o q] = b[q]
            /\ LeafPaths(t) = {<<0>> \o q : q \in LeafPaths(a)} \cup {<<1>> \o q : q \in LeafPaths(b)}
            /\ BranchPaths(t) = {<<>>} \cup {<<0>> \o q : q \in BranchPaths(a)} \cup {<<1>> \o q : q \in BranchPaths(b)}
<1> DEFINE A == {<<0>> \o q : q \in DOMAIN a}
           B == {<<1>> \o q : q \in DOMAIN b}
           t == Branch(dir, ratio, a, b)
           n == [dir |-> dir, ratio |-> ratio]
<1>1. DOMAIN a \subseteq Paths /\ DOMAIN b \subseteq Paths /\ <<0>> \in Paths /\ <<1>> \in Paths /\ 0 \in {0, 1} /\ 1 \in {0, 1}
  BY PathAlgebra DEF IsTree
<1>2. t = [p \in {<<>>} \cup A \cup B |-> IF p = <<>> THEN n ELSE IF p[1] = 0 THEN a[Tail(p)] ELSE b[Tail(p)]]
  BY DEF Branch
<1>3. DOMAIN t = {<<>>} \cup A \cup B /\ t[<<>>] = n /\ t = [p \in DOMAIN t |-> t[p]]
  <2> HIDE DEF A, B, t, n
  <2>1. DOMAIN t = {<<>>} \cup A \cup B /\ t = [p \in DOMAIN t |-> t[p]]
    BY <1>2
  <2>2. t[<<>>] = n
    BY <1>2
  <2> QED BY <2>1, <2>2
<1>4. ASSUME NEW q \in DOMAIN a PROVE t[<<0>> \o q] = a[q] /\ <<0>> \o q # <<>> /\ <<0>> \o q \in Paths
  <2> DEFINE p == <<0>> \o q
  <2>1. p \in A
    OBVIOUS
  <2>2. p # <<>> /\ p[1] = 0 /\ Tail(p) = q /\ p \in Paths
    BY <1>1, PathEnds, PathAlgebra
  <2> HIDE DEF p, A, B, t
  <2>3. t[p] = a[q]
    BY <1>2, <2>1, <2>2
  <2> QED BY <2>2, <2>3 DEF p
<1>5. ASSUME NEW q \in DOMAIN b PROVE t[<<1>> \o q] = b[q] /\ <<1>> \o q # <<>> /\ <<1>> \o q \in Paths
  <2> DEFINE p == <<1>> \o q
  <2>1. p \in B
    OBVIOUS
  <2>2. p # <<>> /\ p[1] = 1 /\ Tail(p) = q /\ p \in Paths
    BY <1>1, PathEnds, PathAlgebra
  <2>4. p[1] # 0
    BY <2>2
  <2> HIDE DEF p, A, B, t
  <2>3. t[p] = b[q]
    BY <1>2, <2>1, <2>2, <2>4, Zenon
  <2> QED BY <2>2, <2>3 DEF p
<1> HIDE DEF t
<1>6. DOMAIN t \subseteq Paths
  <2>1. A \subseteq Paths /\ B \subseteq Paths
    BY <1>4, <1>5
  <2> QED BY <1>3, <2>1, PathAlgebra
<1>7. IsFiniteSet(DOMAIN t)
  <2> DEFINE f == [q \in DOMAIN a |-> <<0>> \o q]
             g == [q \in DOMAIN b |-> <<1>> \o q]
  <2>1. A = {f[q] : q \in DOMAIN f} /\ B = {g[q] : q \in DOMAIN g} /\ DOMAIN f = DOMAIN a /\ DOMAIN g = DOMAIN b
    OBVIOUS
  <2> HIDE DEF f, g, A, B
  <2>2. IsFiniteSet(A) /\ IsFiniteSet(B)
    BY <2>1, ImageFinite DEF IsTree
  <2>3. IsFiniteSet({<<>>})
    BY FS_Singleton
  <2>4. IsFiniteSet({<<>>} \cup A)
    BY <2>2, <2>3, FS_Union
  <2> QED BY <1>3, <2>2, <2>4, FS_Union
<1>8. ~IsLeaf(n)
  BY DEF IsLeaf
<1>9. LeafPaths(t) = {<<0>> \o q : q \in LeafPaths(a)} \cup {<<1>> \o q : q \in LeafPaths(b)}
  <2>1. ASSUME NEW p \in DOMAIN t, IsLeaf(t[p])
        PROVE  p \in {<<0>> \o q : q \in LeafPaths(a)} \cup {<<1>> \o q : q \in LeafPaths(b)}
    <3>1. CASE p = <<>>
      BY <1>3, <1>8, <2>1, <3>1
    <3>2. CASE p \in A
      <4>1. PICK q \in DOMAIN a : p = <<0>> \o q
        BY <3>2
      <4>2. q \in LeafPaths(a)
        BY <1>4, <2>1, <4>1 DEF LeafPaths
      <4> QED BY <4>1, <4>2
    <3>3. CASE p \in B
      <4>1. PICK q \in DOMAIN b : p = <<1>> \o q
        BY <3>3
      <4>2. q \in LeafPaths(b)
        BY <1>5, <2>1, <4>1 DEF LeafPaths
      <4> QED BY <4>1, <4>2
    <3> QED BY <1>3, <3>1, <3>2, <3>3
  <2>2. ASSUME NEW q \in LeafPaths(a) PROVE <<0>> \o q \in LeafPaths(t)
    BY <1>3, <1>4 DEF LeafPaths
  <2>3. ASSUME NEW q \in LeafPaths(b) PROVE <<1>> \o q \in LeafPaths(t)
    BY <1>3, <1>5 DEF LeafPaths
  <2>4. \A p \in LeafPaths(t) : p \in DOMAIN t /\ IsLeaf(t[p])
    BY DEF LeafPaths
  <2> HIDE DEF A, B
  <2> QED BY <2>1, <2>2, <2>3, <2>4
<1>10. BranchPaths(t) = {<<>>} \cup {<<0>> \o q : q \in BranchPaths(a)} \cup {<<1>> \o q : q \in BranchPaths(b)}
  <2>1. \A p \in DOMAIN t : p \in BranchPaths(t) <=> ~IsLeaf(t[p])
    BY DEF BranchPaths, LeafPaths
  <2>2. /\ \A q \in DOMAIN a : q \in BranchPaths(a) <=> ~IsLeaf(a[q])
        /\ \A q \in DOMAIN b : q \in BranchPaths(b) <=> ~IsLeaf(b[q])
    BY DEF BranchPaths, LeafPaths
  <2>3. BranchPaths(t) \subseteq DOMAIN t /\ BranchPaths(a) \subseteq DOMAIN a /\ BranchPaths(b) \subseteq DOMAIN b
    BY DEF BranchPaths
  <2>4. <<>> \in BranchPaths(t)
    BY <1>3, <1>8, <2>1
  <2>5. \A q \in DOMAIN a : <<0>> \o q \in DOMAIN t /\ (<<0>> \o q \in BranchPaths(t) <=> q \in BranchPaths(a))
    BY <1>3, <1>4, <2>1, <2>2
  <2>6. \A q \in DOMAIN b : <<1>> \o q \in DOMAIN t /\ (<<1>> \o q \in BranchPaths(t) <=> q \in BranchPaths(b))
    BY <1>3, <1>5, <2>1, <2>2
  <2>7. \A p \in DOMAIN t : p = <<>> \/ (\E q \in DOMAIN a : p = <<0>> \o q) \/ (\E q \in DOMAIN b : p = <<1>> \o q)
    BY <1>3
  <2> HIDE DEF A, B
  <2> QED BY <2>3, <2>4, <2>5, <2>6, <2>7
<1>11. ASSUME NEW p \in BranchPaths(t), NEW i \in {0, 1} PROVE p \o <<i>> \in DOMAIN t
  <2>1. <<i>> \in Paths
    BY PathAlgebra
  <2>2. CASE p = <<>>
    <3>1. p \o <<i>> = <<i>> /\ <<i>> = <<i>> \o <<>>
      BY <2>1, <2>2, PathAlgebra
    <3>2. <<>> \in DOMAIN a /\ <<>> \in DOMAIN b
      BY DEF IsTree
    <3> QED BY <1>3, <3>1, <3>2
  <2>3. \A q \in BranchPaths(a) : p = <<0>> \o q => p \o <<i>> \in DOMAIN t
    <3> TAKE q \in BranchPaths(a)
    <3> HAVE p = <<0>> \o q
    <3>1. q \o <<i>> \in DOMAIN a /\ q \in Paths
      BY <1>1, TreePaths DEF IsTree
    <3>2. p \o <<i>> = <<0>> \o (q \o <<i>>)
      BY <1>1, <2>1, <3>1, PathAlgebra
    <3> QED BY <1>3, <3>1, <3>2
  <2>4. \A q \in BranchPaths(b) : p = <<1>> \o q => p \o <<i>> \in DOMAIN t
    <3> TAKE q \in BranchPaths(b)
    <3> HAVE p = <<1>> \o q
    <3>1. q \o <<i>> \in DOMAIN b /\ q \in Paths
      BY <1>1, TreePaths DEF IsTree
    <3>2. p \o <<i>> = <<1>> \o (q \o <<i>>)
      BY <1>1, <2>1, <3>1, PathAlgebra
    <3> QED BY <1>3, <3>1, <3>2
  <2> QED BY <1>10, <2>2, <2>3, <2>4
<1>12. ASSUME NEW p \in Paths, NEW q \in Paths, p \o q \in DOMAIN t, q # <<>> PROVE p \in BranchPaths(t)
  <2>1. CASE p = <<>>
    BY <1>10, <2>1
  <2>2. CASE p # <<>>
    <3>1. PICK i \in {0, 1}, r \in Paths : p = <<i>> \o r
      BY <2>2, PathEnds
    <3>2. p \o q = <<i>> \o (r \o q) /\ r \o q \in Paths
      <4> DEFINE c == <<i>>
      <4>1. c \in Paths /\ r \in Paths /\ q \in Paths
        BY <1>12, <3>1, OneStep
      <4> HIDE DEF c
      <4>2. Cat(Cat(c, r), q) = Cat(c, Cat(r, q)) /\ Cat(r, q) \in Paths
        BY <4>1, CatAssoc, CatIn
      <4>3. p = c \o r
        BY <3>1 DEF c
      <4> QED BY <4>2, <4>3 DEF c, Cat
    <3>3. <<i>> \o (r \o q) # <<>>
      BY <3>2, PathEnds
    <3>4. \A s \in DOMAIN a : p \o q = <<0>> \o s => p \in BranchPaths(t)
      <4> TAKE s \in DOMAIN a
      <4> HAVE p \o q = <<0>> \o s
      <4>1. s \in Paths /\ 0 \in {0, 1} /\ <<i>> \o (r \o q) = <<0>> \o s
        BY <1>1, <3>2
      <4>2. i = 0 /\ r \o q = s
        BY <3>2, <4>1, ConsIs
      <4>3. r \in BranchPaths(a)
        BY <1>12, <4>2 DEF IsTree
      <4> QED BY <1>10, <3>1, <4>2, <4>3
    <3>5. \A s \in DOMAIN b : p \o q = <<1>> \o s => p \in BranchPaths(t)
      <4> TAKE s \in DOMAIN b
      <4> HAVE p \o q = <<1>> \o s
      <4>1. s \in Paths /\ 1 \in {0, 1} /\ <<i>> \o (r \o q) = <<1>> \o s
        BY <1>1, <3>2
      <4>2. i = 1 /\ r \o q = s
        BY <3>2, <4>1, ConsIs
      <4>3. r \in BranchPaths(b)
        BY <1>12, <4>2 DEF IsTree
      <4> QED BY <1>10, <3>1, <4>2, <4>3
    <3> QED BY <1>3, <1>12, <3>2, <3>3, <3>4, <3>5
  <2> QED BY <2>1, <2>2
<1>13. <<>> \in DOMAIN t
  BY <1>3
<1>14. IsTree(t)
  BY <1>3, <1>6, <1>7, <1>11, <1>12, <1>13 DEF IsTree
<1> QED BY <1>3, <1>4, <1>5, <1>9, <1>10, <1>14 DEF t
-------------------------------------------------------------------------------
\* Paths that have parted never meet again.
Meet(c, i, a, j, b) ==
  /\ c \in Paths /\ a \in Paths /\ b \in Paths /\ i \in {0, 1} /\ j \in {0, 1}
  /\ c \o (<<i>> \o a) = c \o (<<j>> \o b)

LEMMA MeetIs ==
  ASSUME NEW c, NEW i, NEW a, NEW j, NEW b, Meet(c, i, a, j, b)
  PROVE  i = j /\ a = b
<1> DEFINE x == <<i>> \o a
           y == <<j>> \o b
<1>1. x \in Paths /\ y \in Paths /\ x[1] = i /\ y[1] = j /\ Tail(x) = a /\ Tail(y) = b
  BY ConsIn, PathEnds DEF Meet
<1> HIDE DEF x, y
<1>2. c \in Paths /\ c \o x = c \o y
  BY DEF x, y, Meet
<1>3. x = y
  BY <1>1, <1>2, CancelLeft
<1> QED BY <1>1, <1>3

MeetOn(c, i, a, r, j, b, y) ==
  /\ c \in Paths /\ a \in Paths /\ b \in Paths /\ r \in Paths /\ y \in Paths
  /\ i \in {0, 1} /\ j \in {0, 1}
  /\ (c \o (<<i>> \o a)) \o r = (c \o (<<j>> \o b)) \o y

LEMMA PartedApart ==
  ASSUME NEW c, NEW i, NEW a, NEW r, NEW j, NEW b, NEW y, MeetOn(c, i, a, r, j, b, y)
  PROVE  i = j
<1>1. c \in Paths /\ a \in Paths /\ r \in Paths /\ i \in {0, 1} /\ a \o r \in Paths /\ <<i>> \in Paths
  BY OneStep, ConcatIn DEF MeetOn
<1>2. c \in Paths /\ b \in Paths /\ y \in Paths /\ j \in {0, 1} /\ b \o y \in Paths /\ <<j>> \in Paths
  BY OneStep, ConcatIn DEF MeetOn
<1>3. (c \o (<<i>> \o a)) \o r = c \o (<<i>> \o (a \o r))
  <2>1. Cat(Cat(c, Cat(<<i>>, a)), r) = Cat(c, Cat(<<i>>, Cat(a, r)))
    BY <1>1, CatFour
  <2> QED BY <2>1, Zenon DEF Cat
<1>4. (c \o (<<j>> \o b)) \o y = c \o (<<j>> \o (b \o y))
  <2>1. Cat(Cat(c, Cat(<<j>>, b)), y) = Cat(c, Cat(<<j>>, Cat(b, y)))
    BY <1>2, CatFour
  <2> QED BY <2>1, Zenon DEF Cat
<1>5. Meet(c, i, a \o r, j, b \o y)
  BY <1>1, <1>2, <1>3, <1>4 DEF Meet, MeetOn
<1> QED BY <1>5, MeetIs

\* How two paths may lie to each other.
Follows(p, q) == \E i \in {0, 1}, r \in Paths : q = p \o (<<i>> \o r)
Parted(p, q) ==
  \E c, r, s \in Paths, i, j \in {0, 1} : i # j /\ p = c \o (<<i>> \o r) /\ q = c \o (<<j>> \o s)

LEMMA ForkIs ==
  ASSUME NEW p \in Paths, NEW q \in Paths, p # q
  PROVE  Follows(p, q) \/ Follows(q, p) \/ Parted(p, q)
BY Fork, ZenonT(40) DEF Follows, Parted

LEMMA EndEmpty ==
  ASSUME NEW p \in Paths
  PROVE  p \o <<>> = p /\ <<>> \o p = p /\ <<>> \in Paths /\ Len(p) \in Nat
BY PathAlgebra

LEMMA PrefixOf ==
  ASSUME NEW p \in Paths, NEW r \in Paths
  PROVE  /\ IsPrefix(p, p \o r) /\ p \o r \in Paths
         /\ SubSeq(p \o r, Len(p) + 1, Len(p \o r)) = r
<1>1. p \o r \in Paths
  BY PathAlgebra
<1>2. IsPrefix(p, p \o r)
  BY <1>1, PrefixIs
<1> QED BY <1>1, <1>2, PrefixIs

LEMMA PrefixGives ==
  ASSUME NEW p \in Paths, NEW q \in Paths, IsPrefix(p, q)
  PROVE  \E r \in Paths : q = p \o r
BY PrefixIs

LEMMA NoWayBack ==
  ASSUME NEW p \in Paths, NEW r \in Paths, r # <<>>
  PROVE  ~IsPrefix(p \o r, p)
<1> SUFFICES ASSUME IsPrefix(p \o r, p) PROVE FALSE
  OBVIOUS
<1>1. p \o r \in Paths
  BY PathAlgebra
<1>2. PICK s \in Paths : p = (p \o r) \o s
  BY <1>1, PrefixGives
<1>3. Len(r) \in Nat /\ Len(s) \in Nat /\ Len(p) \in Nat /\ Len(p \o r) = Len(p) + Len(r)
  BY PathAlgebra
<1>4. Len((p \o r) \o s) = Len(p \o r) + Len(s)
  BY <1>1, PathAlgebra
<1>5. Len(r) # 0
  BY EmptySeq DEF Paths
<1> QED BY <1>2, <1>3, <1>4, <1>5

\* What is below a path of a tree.
Lifted(u, t, p) ==
  /\ IsTree(u)
  /\ DOMAIN u = {q \in Paths : Cat(p, q) \in DOMAIN t}
  /\ \A q \in DOMAIN u : u[q] = t[Cat(p, q)]
  /\ LeafPaths(u) = {q \in Paths : Cat(p, q) \in LeafPaths(t)}
  /\ BranchPaths(u) = {q \in Paths : Cat(p, q) \in BranchPaths(t)}

LEMMA SubtreeTree ==
  ASSUME NEW t, IsTree(t), NEW p \in DOMAIN t, NEW u, u = Subtree(t, p)
  PROVE  Lifted(u, t, p)
<1> DEFINE Below == {r \in DOMAIN t : IsPrefix(p, r)}
           f == [r \in Below |-> SubSeq(r, Len(p) + 1, Len(r))]
           D == {q \in Paths : p \o q \in DOMAIN t}
<1>1. p \in Paths /\ DOMAIN t \subseteq Paths
  BY DEF IsTree
<1>2. {SubSeq(r, Len(p) + 1, Len(r)) : r \in Below} = D
  <2>1. ASSUME NEW r \in Below PROVE SubSeq(r, Len(p) + 1, Len(r)) \in D
    <3>1. PICK q \in Paths : r = p \o q
      BY <1>1, PrefixGives
    <3>2. SubSeq(r, Len(p) + 1, Len(r)) = q
      BY <1>1, <3>1, PrefixOf
    <3>3. r \in DOMAIN t
      OBVIOUS
    <3> QED BY <3>1, <3>2, <3>3
  <2>2. ASSUME NEW q \in D PROVE \E r \in Below : q = SubSeq(r, Len(p) + 1, Len(r))
    <3>1. p \o q \in Below
      BY <1>1, PrefixOf
    <3>2. SubSeq(p \o q, Len(p) + 1, Len(p \o q)) = q
      BY <1>1, PrefixOf
    <3> QED BY <3>1, <3>2
  <2> HIDE DEF D, Below
  <2> QED BY <2>1, <2>2
<1>3. u = [q \in D |-> t[p \o q]]
  BY <1>2 DEF Subtree
<1>4. DOMAIN u = D /\ \A q \in D : u[q] = t[p \o q]
  BY <1>3
<1>5. u = [q \in DOMAIN u |-> u[q]]
  BY <1>3
<1>6. IsFiniteSet(DOMAIN u)
  <2>1. IsFiniteSet(Below)
    BY FS_Subset DEF IsTree
  <2>2. DOMAIN f = Below /\ {f[r] : r \in DOMAIN f} = D
    BY <1>2
  <2> HIDE DEF f, D, Below
  <2> QED BY <1>4, <2>1, <2>2, ImageFinite
<1>7. LeafPaths(u) = {q \in Paths : p \o q \in LeafPaths(t)}
  BY <1>4 DEF LeafPaths
<1>8. BranchPaths(u) = {q \in Paths : p \o q \in BranchPaths(t)}
  BY <1>4, <1>7 DEF BranchPaths
<1>9. <<>> \in DOMAIN u
  BY <1>1, <1>4, EndEmpty
<1>10. ASSUME NEW q \in BranchPaths(u), NEW i \in {0, 1} PROVE q \o <<i>> \in DOMAIN u
  <2>1. q \in Paths /\ p \o q \in BranchPaths(t)
    BY <1>8
  <2>2. (p \o q) \o <<i>> \in DOMAIN t
    BY <2>1 DEF IsTree
  <2>3. (p \o q) \o <<i>> = p \o (q \o <<i>>) /\ q \o <<i>> \in Paths
    BY <1>1, <2>1, AssocStep, StepOn
  <2> QED BY <1>4, <2>2, <2>3
<1>11. ASSUME NEW q \in Paths, NEW r \in Paths, q \o r \in DOMAIN u, r # <<>> PROVE q \in BranchPaths(u)
  <2>1. p \o (q \o r) \in DOMAIN t
    BY <1>4, <1>11
  <2>2. p \o (q \o r) = (p \o q) \o r /\ p \o q \in Paths
    BY <1>1, Assoc, ConcatIn
  <2>3. p \o q \in BranchPaths(t)
    BY <1>11, <2>1, <2>2 DEF IsTree
  <2> QED BY <1>8, <2>3
<1>12. DOMAIN u \subseteq Paths
  BY <1>4
<1>13. IsTree(u)
  BY <1>5, <1>6, <1>9, <1>10, <1>11, <1>12 DEF IsTree
<1> QED BY <1>4, <1>7, <1>8, <1>13 DEF Lifted, Cat

\* The paths of t that do not go through p.
Outside(t, p) == {r \in DOMAIN t : ~IsPrefix(p, r)}

\* A tree with another one in the place of what was below a path.
Grafted(g, t, p, sub) ==
  /\ IsTree(g)
  /\ DOMAIN g = Outside(t, p) \cup {Cat(p, r) : r \in DOMAIN sub}
  /\ \A r \in DOMAIN sub : g[Cat(p, r)] = sub[r]
  /\ \A q \in Outside(t, p) : g[q] = t[q]
  /\ LeafPaths(g) = (Outside(t, p) \cap LeafPaths(t)) \cup {Cat(p, r) : r \in LeafPaths(sub)}
  /\ BranchPaths(g) = (Outside(t, p) \cap BranchPaths(t)) \cup {Cat(p, r) : r \in BranchPaths(sub)}

LEMMA GraftTree ==
  ASSUME NEW t, IsTree(t), NEW p \in DOMAIN t, NEW sub, IsTree(sub), NEW g, g = Graft(t, p, sub)
  PROVE  Grafted(g, t, p, sub)
<1> DEFINE O == Outside(t, p)
           S == {Cat(p, r) : r \in DOMAIN sub}
<1>1. p \in Paths /\ DOMAIN t \subseteq Paths /\ DOMAIN sub \subseteq Paths /\ O \subseteq DOMAIN t /\ O \subseteq Paths
  BY DEF IsTree, Outside
<1>2. g = [q \in O \cup S |-> IF IsPrefix(p, q) THEN sub[SubSeq(q, Len(p) + 1, Len(q))] ELSE t[q]]
  BY DEF Graft, Outside, Cat
<1>3. DOMAIN g = O \cup S /\ g = [q \in DOMAIN g |-> g[q]]
  BY <1>2
<1>4. \A q \in O : g[q] = t[q]
  BY <1>2 DEF Outside
<1>5. ASSUME NEW r \in DOMAIN sub PROVE g[Cat(p, r)] = sub[r] /\ Cat(p, r) \in Paths
  <2> DEFINE q == Cat(p, r)
  <2>1. IsPrefix(p, q) /\ SubSeq(q, Len(p) + 1, Len(q)) = r /\ q \in Paths
    BY <1>1, PrefixOf DEF Cat
  <2>3. q \in S
    OBVIOUS
  <2> HIDE DEF q, S, O
  <2>2. g[q] = sub[r]
    BY <1>2, <2>1, <2>3
  <2> QED BY <2>1, <2>2 DEF q
<1>6. DOMAIN g \subseteq Paths
  BY <1>1, <1>3, <1>5
<1>7. IsFiniteSet(DOMAIN g)
  <2> DEFINE f == [r \in DOMAIN sub |-> Cat(p, r)]
  <2>1. S = {f[q] : q \in DOMAIN f} /\ DOMAIN f = DOMAIN sub
    OBVIOUS
  <2> HIDE DEF f, S
  <2>2. IsFiniteSet(S)
    BY <2>1, ImageFinite DEF IsTree
  <2>3. IsFiniteSet(O)
    BY <1>1, FS_Subset DEF IsTree
  <2> QED BY <1>3, <2>2, <2>3, FS_Union
<1>8. /\ \A q \in DOMAIN g : (q \in LeafPaths(g) <=> IsLeaf(g[q])) /\ (q \in BranchPaths(g) <=> ~IsLeaf(g[q]))
      /\ LeafPaths(g) \subseteq DOMAIN g /\ BranchPaths(g) \subseteq DOMAIN g
  BY DEF LeafPaths, BranchPaths
<1>9. /\ \A q \in O : (q \in LeafPaths(g) <=> q \in LeafPaths(t)) /\ (q \in BranchPaths(g) <=> q \in BranchPaths(t))
      /\ \A r \in DOMAIN sub : (Cat(p, r) \in LeafPaths(g) <=> r \in LeafPaths(sub)) /\ (Cat(p, r) \in BranchPaths(g) <=> r \in BranchPaths(sub))
  <2>1. \A q \in O : q \in DOMAIN g /\ q \in DOMAIN t
    BY <1>1, <1>3
  <2>2. \A r \in DOMAIN sub : Cat(p, r) \in DOMAIN g
    BY <1>3
  <2> HIDE DEF O, S
  <2>3. \A q \in O : (q \in LeafPaths(g) <=> q \in LeafPaths(t)) /\ (q \in BranchPaths(g) <=> q \in BranchPaths(t))
    BY <1>4, <1>8, <2>1, TreePaths
  <2>4. \A r \in DOMAIN sub : (Cat(p, r) \in LeafPaths(g) <=> r \in LeafPaths(sub)) /\ (Cat(p, r) \in BranchPaths(g) <=> r \in BranchPaths(sub))
    BY <1>5, <1>8, <2>2, TreePaths
  <2> QED BY <2>3, <2>4
<1>10. LeafPaths(g) = (O \cap LeafPaths(t)) \cup {Cat(p, r) : r \in LeafPaths(sub)}
  <2>1. LeafPaths(sub) \subseteq DOMAIN sub
    BY TreePaths
  <2>2. \A q \in DOMAIN g : q \in O \/ \E r \in DOMAIN sub : q = Cat(p, r)
    BY <1>3
  <2>3. \A q \in O : q \in DOMAIN g
    BY <1>3
  <2> HIDE DEF O, S
  <2> QED BY <1>8, <1>9, <2>1, <2>2, <2>3
<1>11. BranchPaths(g) = (O \cap BranchPaths(t)) \cup {Cat(p, r) : r \in BranchPaths(sub)}
  <2>1. BranchPaths(sub) \subseteq DOMAIN sub
    BY TreePaths
  <2>2. \A q \in DOMAIN g : q \in O \/ \E r \in DOMAIN sub : q = Cat(p, r)
    BY <1>3
  <2>3. \A q \in O : q \in DOMAIN g
    BY <1>3
  <2> HIDE DEF O, S
  <2> QED BY <1>8, <1>9, <2>1, <2>2, <2>3
<1>12. <<>> \in DOMAIN g
  <2>1. <<>> \in DOMAIN sub /\ <<>> \in DOMAIN t
    BY DEF IsTree
  <2>2. CASE p = <<>>
    <3>1. <<>> = Cat(p, <<>>)
      BY <1>1, <2>2, EndEmpty DEF Cat
    <3> QED BY <1>3, <2>1, <3>1
  <2>3. CASE p # <<>>
    <3>1. <<>> \o p = p /\ <<>> \in Paths
      BY <1>1, EndEmpty
    <3>2. ~IsPrefix(p, <<>>)
      BY <1>1, <2>3, <3>1, NoWayBack
    <3> QED BY <1>3, <2>1, <3>2 DEF Outside
  <2> QED BY <2>2, <2>3
<1>13. ASSUME NEW q \in BranchPaths(g), NEW i \in {0, 1} PROVE q \o <<i>> \in DOMAIN g
  <2>1. <<i>> \in Paths /\ q \in Paths
    BY <1>6, <1>8, OneStep
  <2>2. ASSUME NEW r \in BranchPaths(sub), q = Cat(p, r) PROVE q \o <<i>> \in DOMAIN g
    <3>1. r \o <<i>> \in DOMAIN sub /\ r \in Paths
      BY <1>1, TreePaths DEF IsTree
    <3>2. q \o <<i>> = p \o (r \o <<i>>)
      BY <1>1, <2>2, <3>1, AssocStep DEF Cat
    <3> QED BY <1>3, <3>1, <3>2 DEF Cat
  <2>3. ASSUME q \in O, q \in BranchPaths(t) PROVE q \o <<i>> \in DOMAIN g
    <3>1. q \o <<i>> \in DOMAIN t /\ q \o <<i>> \in Paths
      BY <1>1, <2>3 DEF IsTree
    <3>2. CASE ~IsPrefix(p, q \o <<i>>)
      BY <1>3, <3>1, <3>2 DEF Outside
    <3>3. CASE IsPrefix(p, q \o <<i>>)
      <4>1. PICK s \in Paths : q \o <<i>> = p \o s
        BY <1>1, <3>1, <3>3, PrefixGives
      <4>2. CASE s = <<>>
        <5>1. <<>> \in DOMAIN sub
          BY DEF IsTree
        <5>2. q \o <<i>> \in S
          BY <4>1, <4>2, <5>1 DEF Cat
        <5> QED BY <1>3, <5>2
      <4>3. CASE s # <<>>
        <5>1. Front(s) \in Paths /\ Last(s) \in {0, 1} /\ s = Front(s) \o <<Last(s)>> /\ <<Last(s)>> \in Paths
          BY <4>3, PathEnds, OneStep
        <5> DEFINE f == Front(s)
                   j == Last(s)
        <5> HIDE DEF f, j
        <5>2. f \in Paths /\ j \in {0, 1} /\ s = f \o <<j>> /\ <<j>> \in Paths
          BY <5>1 DEF f, j
        <5>3. q \o <<i>> = (p \o f) \o <<j>> /\ p \o f \in Paths
          <6>1. p \in Paths /\ f \in Paths /\ j \in {0, 1}
            BY <1>1, <5>2
          <6>2. p \o f \in Paths
            BY <6>1, ConcatIn, Zenon
          <6>3. (p \o f) \o <<j>> = p \o (f \o <<j>>)
            BY <6>1, AssocStep, Zenon
          <6> QED BY <4>1, <5>2, <6>2, <6>3
        <5>4. q = p \o f
          BY <2>1, <5>2, <5>3, SnocIs
        <5>5. IsPrefix(p, q)
          BY <1>1, <5>2, <5>4, PrefixOf
        <5> QED BY <2>3, <5>5 DEF Outside
      <4> QED BY <4>2, <4>3
    <3> QED BY <3>2, <3>3
  <2> QED BY <1>11, <2>2, <2>3
<1>14. ASSUME NEW x \in Paths, NEW y \in Paths, x \o y \in DOMAIN g, y # <<>> PROVE x \in BranchPaths(g)
  <2>1. CASE x \o y \in O
    <3>1. x \in BranchPaths(t) /\ x \in DOMAIN t
      BY <1>1, <1>14, <2>1, TreePaths DEF IsTree
    <3>2. ~IsPrefix(p, x)
      <4> SUFFICES ASSUME IsPrefix(p, x) PROVE FALSE
        OBVIOUS
      <4>1. PICK r \in Paths : x = p \o r
        BY <1>1, PrefixGives
      <4>2. (p \o r) \o y = p \o (r \o y) /\ r \o y \in Paths
        BY <1>1, Assoc, ConcatIn
      <4>3. IsPrefix(p, x \o y)
        BY <1>1, <4>1, <4>2, PrefixOf
      <4> QED BY <2>1, <4>3 DEF Outside
    <3> QED BY <1>11, <3>1, <3>2 DEF Outside
  <2>2. ASSUME NEW r \in DOMAIN sub, x \o y = p \o r PROVE x \in BranchPaths(g)
    <3>1. r \in Paths
      BY <1>1
    <3>2. ASSUME NEW s \in Paths, x = p \o s PROVE x \in BranchPaths(g)
      <4>1. x \o y = p \o (s \o y) /\ s \o y \in Paths
        BY <1>1, <3>2, Assoc, ConcatIn
      <4>2. p \o (s \o y) = p \o r
        BY <2>2, <4>1
      <4>3. s \o y = r
        BY <1>1, <3>1, <4>1, <4>2, CancelLeft
      <4>4. s \in BranchPaths(sub)
        BY <1>14, <4>3 DEF IsTree
      <4> QED BY <1>11, <3>2, <4>4 DEF Cat
    <3>3. ASSUME NEW i \in {0, 1}, NEW s \in Paths, p = x \o (<<i>> \o s) PROVE x \in BranchPaths(g)
      <4>1. <<i>> \o s \in Paths /\ <<i>> \o s # <<>>
        BY PathEnds, ConsIn
      <4>2. x \in BranchPaths(t) /\ x \in DOMAIN t
        BY <3>3, <4>1, TreePaths DEF IsTree
      <4>3. ~IsPrefix(p, x)
        <5> DEFINE k == <<i>> \o s
        <5>1. k \in Paths /\ k # <<>> /\ p = x \o k
          BY <3>3, <4>1
        <5> HIDE DEF k
        <5> QED BY <5>1, NoWayBack
      <4> QED BY <1>11, <4>2, <4>3 DEF Outside
    <3>4. ASSUME NEW c \in Paths, NEW a \in Paths, NEW b \in Paths, NEW i \in {0, 1}, NEW j \in {0, 1}, i # j,
                 p = c \o (<<i>> \o a), x = c \o (<<j>> \o b)
          PROVE  FALSE
      <4>1. MeetOn(c, i, a, r, j, b, y)
        BY <2>2, <3>1, <3>4 DEF MeetOn
      <4>2. i = j
        BY <4>1, PartedApart
      <4> QED BY <3>4, <4>2
    <3>5. CASE p = x
      <4>1. x = p \o <<>> /\ <<>> \in Paths
        BY <3>5, EndEmpty
      <4> QED BY <3>2, <4>1
    <3>6. CASE p # x
      <4>1. Follows(p, x) \/ Follows(x, p) \/ Parted(p, x)
        BY <1>1, <3>6, ForkIs
      <4>2. \A i \in {0, 1}, s \in Paths : <<i>> \o s \in Paths
        BY ConsIn
      <4>3. CASE Follows(p, x)
        BY <3>2, <4>2, <4>3 DEF Follows
      <4>4. CASE Follows(x, p)
        BY <3>3, <4>4 DEF Follows
      <4>5. CASE Parted(p, x)
        BY <3>4, <4>5 DEF Parted
      <4> QED BY <4>1, <4>3, <4>4, <4>5
    <3> QED BY <3>5, <3>6
  <2> QED BY <1>3, <1>14, <2>1, <2>2 DEF Cat
<1>15. IsTree(g)
  BY <1>3, <1>6, <1>7, <1>12, <1>13, <1>14 DEF IsTree
<1> QED BY <1>3, <1>4, <1>5, <1>10, <1>11, <1>15 DEF Grafted
-------------------------------------------------------------------------------
\* The way down a tree.
LEMMA TreeWalk ==
  ASSUME NEW t, IsTree(t)
  PROVE  /\ DOMAIN t \subseteq Paths /\ <<>> \in DOMAIN t /\ IsFiniteSet(DOMAIN t)
         /\ \A p \in BranchPaths(t), i \in {0, 1} : Cat(p, One(i)) \in DOMAIN t /\ Cat(p, One(i)) \in Paths
         /\ \A p, q \in Paths : Cat(p, q) \in DOMAIN t /\ q # <<>> => p \in BranchPaths(t)
         /\ \A p \in DOMAIN t : p # <<>> =>
              Front(p) \in BranchPaths(t) /\ Last(p) \in {0, 1} /\ p = Cat(Front(p), One(Last(p)))
<1>1. DOMAIN t \subseteq Paths /\ <<>> \in DOMAIN t /\ IsFiniteSet(DOMAIN t)
  BY DEF IsTree
<1>2. \A p \in BranchPaths(t), i \in {0, 1} : Cat(p, One(i)) \in DOMAIN t
  BY DEF IsTree, Cat, One
<1>3. \A p, q \in Paths : Cat(p, q) \in DOMAIN t /\ q # <<>> => p \in BranchPaths(t)
  BY DEF IsTree, Cat
<1>4. ASSUME NEW p \in DOMAIN t, p # <<>>
      PROVE  Front(p) \in BranchPaths(t) /\ Last(p) \in {0, 1} /\ p = Cat(Front(p), One(Last(p)))
  <2>1. Front(p) \in Paths /\ Last(p) \in {0, 1} /\ p = Cat(Front(p), One(Last(p)))
    BY <1>1, <1>4, PathEnds DEF Cat, One
  <2>2. One(Last(p)) \in Paths /\ One(Last(p)) # <<>>
    BY <2>1, CatIn DEF One
  <2> QED BY <1>3, <2>1, <2>2
<1> QED BY <1>1, <1>2, <1>3, <1>4

Below(t, p) == {q \in DOMAIN t : IsPrefix(p, q)}
Size(t, p) == Cardinality(Below(t, p))

\* There is less below a child than below its parent.
LEMMA SizeFalls ==
  ASSUME NEW t, IsTree(t)
  PROVE  /\ \A p \in DOMAIN t : Size(t, p) \in Nat
         /\ \A p \in BranchPaths(t), i \in {0, 1} : Size(t, Cat(p, One(i))) < Size(t, p)
<1>1. ASSUME NEW p \in DOMAIN t PROVE IsFiniteSet(Below(t, p)) /\ Size(t, p) \in Nat
  <2>1. IsFiniteSet(Below(t, p))
    BY TreeWalk, FS_Subset DEF Below
  <2> QED BY <2>1, FS_CardinalityType DEF Size
<1>2. ASSUME NEW p \in BranchPaths(t), NEW i \in {0, 1} PROVE Size(t, Cat(p, One(i))) < Size(t, p)
  <2> DEFINE c == Cat(p, One(i))
  <2>1. p \in DOMAIN t /\ p \in Paths /\ c \in DOMAIN t /\ c \in Paths /\ One(i) \in Paths
    BY TreePaths, TreeWalk, CatIn
  <2>2. ASSUME NEW q \in Below(t, c) PROVE q \in Below(t, p)
    <3>1. q \in DOMAIN t /\ q \in Paths /\ IsPrefix(c, q)
      BY <2>2, TreeWalk DEF Below
    <3> HIDE DEF c
    <3>2. PICK r \in Paths : q = c \o r
      BY <2>1, <3>1, PrefixGives
    <3>3. q = Cat(p, Cat(One(i), r)) /\ Cat(One(i), r) \in Paths
      <4>1. q = Cat(c, r)
        BY <3>2 DEF Cat
      <4> QED BY <2>1, <4>1, CatAssoc, CatIn DEF c
    <3> DEFINE s == Cat(One(i), r)
    <3>4. s \in Paths /\ q = p \o s
      BY <3>3 DEF Cat
    <3> HIDE DEF s
    <3>5. IsPrefix(p, q)
      BY <2>1, <3>4, PrefixOf
    <3> QED BY <3>1, <3>5 DEF Below
  <2>3. p \in Below(t, p)
    <3>1. p \o <<>> = p /\ <<>> \in Paths
      BY <2>1, EndEmpty
    <3>2. IsPrefix(p, p)
      BY <2>1, <3>1, PrefixOf
    <3> QED BY <2>1, <3>2 DEF Below
  <2>4. p \notin Below(t, c)
    <3>1. ~IsPrefix(p \o <<i>>, p)
      <4>1. <<i>> \in Paths /\ <<i>> # <<>>
        BY OneStep
      <4> QED BY <2>1, <4>1, NoWayBack
    <3> QED BY <3>1 DEF Below, Cat, One
  <2> HIDE DEF c
  <2>5. Below(t, c) \subseteq Below(t, p) /\ Below(t, c) # Below(t, p)
    BY <2>2, <2>3, <2>4
  <2>6. IsFiniteSet(Below(t, p)) /\ Size(t, p) \in Nat /\ Size(t, c) \in Nat
    BY <1>1, <2>1
  <2>7. Size(t, c) <= Size(t, p) /\ Size(t, c) # Size(t, p)
    BY <2>5, <2>6, FS_Subset DEF Size
  <2> QED BY <2>6, <2>7 DEF c
<1> QED BY <1>1, <1>2

\* A tree has a leaf.
LEMMA HasLeaf ==
  ASSUME NEW t, IsTree(t)
  PROVE  LeafPaths(t) # {}
<1> DEFINE T == {Size(t, p) : p \in DOMAIN t}
<1>1. T \subseteq Nat /\ T # {}
  BY SizeFalls, TreeWalk
<1> HIDE DEF T
<1>2. PICK n \in T : \A m \in T : n <= m
  BY <1>1, LeastNatural
<1>3. PICK p \in DOMAIN t : n = Size(t, p)
  BY <1>2 DEF T
<1>4. CASE p \in BranchPaths(t)
  <2>1. 0 \in {0, 1}
    OBVIOUS
  <2>2. Size(t, Cat(p, One(0))) < n /\ Cat(p, One(0)) \in DOMAIN t
    BY <1>3, <1>4, <2>1, SizeFalls, TreeWalk
  <2>3. Size(t, Cat(p, One(0))) \in T
    BY <2>2 DEF T
  <2>4. n \in Nat /\ Size(t, Cat(p, One(0))) \in Nat
    BY <1>1, <1>2, <2>3
  <2> QED BY <1>2, <2>2, <2>3, <2>4
<1>5. CASE p \notin BranchPaths(t)
  BY <1>3, <1>5 DEF BranchPaths
<1> QED BY <1>4, <1>5
-----------------------------------------------------------------------------
\* What the leaves of a tree carry; no two the same; branches that are a direction and a ratio.
Labels(t) == {t[p] : p \in LeafPaths(t)}
OneEach(t) == \A p, q \in LeafPaths(t) : t[p] = t[q] => p = q
Rule == [dir : {"right", "down"}, ratio : Int]
Ruled(t) == \A p \in BranchPaths(t) : t[p] \in Rule
Sound(t) == IsTree(t) /\ OneEach(t) /\ Ruled(t)

LEMMA SoundLeaf ==
  ASSUME NEW n, IsLeaf(n)
  PROVE  Sound(Leaf(n)) /\ Labels(Leaf(n)) = {n}
BY LeafTree DEF Sound, OneEach, Ruled, Labels

\* The labels of a tree made of two.
LEMMA SoundBranch ==
  ASSUME NEW a, Sound(a), NEW b, Sound(b), Labels(a) \cap Labels(b) = {},
         NEW dir \in {"right", "down"}, NEW ratio \in Int
  PROVE  Sound(Branch(dir, ratio, a, b)) /\ Labels(Branch(dir, ratio, a, b)) = Labels(a) \cup Labels(b)
<1> DEFINE t == Branch(dir, ratio, a, b)
           F(q) == Cat(One(0), q)
           G(q) == Cat(One(1), q)
<1>1. IsTree(a) /\ IsTree(b)
  BY DEF Sound
<1>2. /\ IsTree(t)
      /\ t[<<>>] = [dir |-> dir, ratio |-> ratio]
      /\ \A q \in DOMAIN a : t[<<0>> \o q] = a[q]
      /\ \A q \in DOMAIN b : t[<<1>> \o q] = b[q]
      /\ LeafPaths(t) = {<<0>> \o q : q \in LeafPaths(a)} \cup {<<1>> \o q : q \in LeafPaths(b)}
      /\ BranchPaths(t) = {<<>>} \cup {<<0>> \o q : q \in BranchPaths(a)} \cup {<<1>> \o q : q \in BranchPaths(b)}
  BY <1>1, BranchTree
<1>3. /\ \A q \in DOMAIN a : t[F(q)] = a[q]
      /\ \A q \in DOMAIN b : t[G(q)] = b[q]
      /\ LeafPaths(t) = {F(q) : q \in LeafPaths(a)} \cup {G(q) : q \in LeafPaths(b)}
      /\ BranchPaths(t) = {<<>>} \cup {F(q) : q \in BranchPaths(a)} \cup {G(q) : q \in BranchPaths(b)}
  BY <1>2, Zenon DEF Cat, One
<1>4. IsTree(t) /\ t[<<>>] = [dir |-> dir, ratio |-> ratio]
  BY <1>2
<1>5. /\ LeafPaths(a) \subseteq DOMAIN a /\ BranchPaths(a) \subseteq DOMAIN a
      /\ LeafPaths(b) \subseteq DOMAIN b /\ BranchPaths(b) \subseteq DOMAIN b
  BY DEF LeafPaths, BranchPaths
<1> HIDE DEF t, F, G
<1>6. Labels(t) = Labels(a) \cup Labels(b)
  <2>1. ASSUME NEW p \in LeafPaths(t) PROVE t[p] \in Labels(a) \cup Labels(b)
    BY <1>3, <1>5 DEF Labels
  <2>2. ASSUME NEW q \in LeafPaths(a) PROVE a[q] \in Labels(t)
    BY <1>3, <1>5 DEF Labels
  <2>3. ASSUME NEW q \in LeafPaths(b) PROVE b[q] \in Labels(t)
    BY <1>3, <1>5 DEF Labels
  <2>4. Labels(t) \subseteq Labels(a) \cup Labels(b)
    BY <2>1 DEF Labels
  <2>5. Labels(a) \subseteq Labels(t) /\ Labels(b) \subseteq Labels(t)
    BY <2>2, <2>3 DEF Labels
  <2> QED BY <2>4, <2>5
<1>7. OneEach(t)
  <2> SUFFICES ASSUME NEW p \in LeafPaths(t), NEW q \in LeafPaths(t), t[p] = t[q] PROVE p = q
    BY DEF OneEach
  <2>1. ASSUME NEW x \in LeafPaths(a), NEW y \in LeafPaths(b) PROVE a[x] # b[y]
    BY DEF Labels
  <2>2. \/ \E x \in LeafPaths(a) : p = F(x) /\ t[p] = a[x]
        \/ \E x \in LeafPaths(b) : p = G(x) /\ t[p] = b[x]
    BY <1>3, <1>5
  <2>3. \/ \E x \in LeafPaths(a) : q = F(x) /\ t[q] = a[x]
        \/ \E x \in LeafPaths(b) : q = G(x) /\ t[q] = b[x]
    BY <1>3, <1>5
  <2>4. (\A x, y \in LeafPaths(a) : a[x] = a[y] => x = y) /\ \A x, y \in LeafPaths(b) : b[x] = b[y] => x = y
    BY DEF Sound, OneEach
  <2> QED BY <2>1, <2>2, <2>3, <2>4
<1>8. Ruled(t)
  <2> SUFFICES ASSUME NEW p \in BranchPaths(t) PROVE t[p] \in Rule
    BY DEF Ruled
  <2>1. \/ p = <<>>
        \/ \E x \in BranchPaths(a) : t[p] = a[x]
        \/ \E x \in BranchPaths(b) : t[p] = b[x]
    BY <1>3, <1>5
  <2>2. [dir |-> dir, ratio |-> ratio] \in Rule
    BY DEF Rule
  <2> QED BY <1>4, <2>1, <2>2 DEF Sound, Ruled
<1>9. Sound(t)
  BY <1>4, <1>7, <1>8 DEF Sound
<1> QED BY <1>6, <1>9 DEF t

OutsideLabels(t, p) == {t[q] : q \in Outside(t, p) \cap LeafPaths(t)}

\* The labels of a tree with another one in the place of what was below a path.
LEMMA SoundGraft ==
  ASSUME NEW t, Sound(t), NEW p \in DOMAIN t, NEW sub, Sound(sub),
         OutsideLabels(t, p) \cap Labels(sub) = {}, NEW g, g = Graft(t, p, sub)
  PROVE  Sound(g) /\ Labels(g) = OutsideLabels(t, p) \cup Labels(sub)
<1> DEFINE O == Outside(t, p)
           F(r) == Cat(p, r)
<1>1. IsTree(t) /\ IsTree(sub)
  BY DEF Sound
<1> HIDE DEF O, F
<1>2. Grafted(g, t, p, sub)
  BY <1>1, GraftTree
<1>3. /\ IsTree(g)
      /\ \A r \in DOMAIN sub : g[F(r)] = sub[r]
      /\ \A q \in O : g[q] = t[q]
      /\ LeafPaths(g) = (O \cap LeafPaths(t)) \cup {F(r) : r \in LeafPaths(sub)}
      /\ BranchPaths(g) = (O \cap BranchPaths(t)) \cup {F(r) : r \in BranchPaths(sub)}
  BY <1>2 DEF Grafted, O, F
<1>4. LeafPaths(sub) \subseteq DOMAIN sub /\ BranchPaths(sub) \subseteq DOMAIN sub
  BY DEF LeafPaths, BranchPaths
<1>5. OutsideLabels(t, p) = {t[q] : q \in O \cap LeafPaths(t)}
  BY DEF OutsideLabels, O
<1>6. Labels(g) = OutsideLabels(t, p) \cup Labels(sub)
  <2>1. ASSUME NEW q \in LeafPaths(g) PROVE g[q] \in OutsideLabels(t, p) \cup Labels(sub)
    BY <1>3, <1>4, <1>5 DEF Labels
  <2>2. ASSUME NEW q \in O \cap LeafPaths(t) PROVE t[q] \in Labels(g)
    BY <1>3 DEF Labels
  <2>3. ASSUME NEW r \in LeafPaths(sub) PROVE sub[r] \in Labels(g)
    BY <1>3, <1>4 DEF Labels
  <2>4. Labels(g) \subseteq OutsideLabels(t, p) \cup Labels(sub)
    BY <2>1 DEF Labels
  <2>5. OutsideLabels(t, p) \subseteq Labels(g) /\ Labels(sub) \subseteq Labels(g)
    BY <1>5, <2>2, <2>3 DEF Labels
  <2> QED BY <2>4, <2>5
<1>7. OneEach(g)
  <2> SUFFICES ASSUME NEW x \in LeafPaths(g), NEW y \in LeafPaths(g), g[x] = g[y] PROVE x = y
    BY DEF OneEach
  <2>1. ASSUME NEW a \in O \cap LeafPaths(t), NEW b \in LeafPaths(sub) PROVE t[a] # sub[b]
    BY <1>5 DEF Labels
  <2>2. \/ x \in O \cap LeafPaths(t) /\ g[x] = t[x]
        \/ \E r \in LeafPaths(sub) : x = F(r) /\ g[x] = sub[r]
    BY <1>3, <1>4
  <2>3. \/ y \in O \cap LeafPaths(t) /\ g[y] = t[y]
        \/ \E r \in LeafPaths(sub) : y = F(r) /\ g[y] = sub[r]
    BY <1>3, <1>4
  <2>4. (\A a, b \in LeafPaths(t) : t[a] = t[b] => a = b) /\ \A a, b \in LeafPaths(sub) : sub[a] = sub[b] => a = b
    BY DEF Sound, OneEach
  <2> QED BY <2>1, <2>2, <2>3, <2>4
<1>8. Ruled(g)
  <2> SUFFICES ASSUME NEW q \in BranchPaths(g) PROVE g[q] \in Rule
    BY DEF Ruled
  <2>1. \/ q \in BranchPaths(t) /\ g[q] = t[q]
        \/ \E x \in BranchPaths(sub) : g[q] = sub[x]
    BY <1>3, <1>4
  <2> QED BY <2>1 DEF Sound, Ruled
<1>9. Sound(g)
  BY <1>3, <1>7, <1>8 DEF Sound
<1> QED BY <1>6, <1>9
-------------------------------------------------------------------------------
\* The labels below a path.
LabelsBelow(t, s) == {t[q] : q \in LeafPaths(t) \cap Below(t, s)}

LEMMA SoundSubtree ==
  ASSUME NEW t, Sound(t), NEW s \in DOMAIN t, NEW u, u = Subtree(t, s)
  PROVE  Sound(u) /\ Labels(u) = LabelsBelow(t, s)
<1>1. IsTree(t) /\ s \in Paths
  BY TreeWalk DEF Sound
<1>2. Lifted(u, t, s)
  BY <1>1, SubtreeTree
<1>3. /\ IsTree(u) /\ \A q \in DOMAIN u : u[q] = t[Cat(s, q)]
      /\ \A q \in LeafPaths(u) : q \in DOMAIN u /\ q \in Paths /\ Cat(s, q) \in LeafPaths(t)
      /\ \A q \in Paths : Cat(s, q) \in LeafPaths(t) => q \in LeafPaths(u)
      /\ \A q \in BranchPaths(u) : q \in DOMAIN u /\ Cat(s, q) \in BranchPaths(t)
  <2>1. LeafPaths(u) \subseteq DOMAIN u /\ BranchPaths(u) \subseteq DOMAIN u
    BY DEF LeafPaths, BranchPaths
  <2> QED BY <1>2, <2>1 DEF Lifted
<1>4. OneEach(u)
  <2> SUFFICES ASSUME NEW x \in LeafPaths(u), NEW y \in LeafPaths(u), u[x] = u[y] PROVE x = y
    BY DEF OneEach
  <2>1. Cat(s, x) = Cat(s, y) /\ x \in Paths /\ y \in Paths
    BY <1>3 DEF Sound, OneEach
  <2> QED BY <1>1, <2>1, CancelLeft DEF Cat
<1>5. Ruled(u)
  BY <1>3 DEF Ruled, Sound
<1>6. Labels(u) \subseteq LabelsBelow(t, s)
  <2> SUFFICES ASSUME NEW x \in LeafPaths(u) PROVE u[x] \in LabelsBelow(t, s)
    BY DEF Labels
  <2>1. u[x] = t[Cat(s, x)] /\ Cat(s, x) \in LeafPaths(t) /\ x \in Paths
    BY <1>3
  <2>2. IsPrefix(s, Cat(s, x))
    BY <1>1, <2>1, PrefixOf DEF Cat
  <2>3. Cat(s, x) \in DOMAIN t
    BY <2>1 DEF LeafPaths
  <2>4. Cat(s, x) \in Below(t, s)
    BY <2>2, <2>3 DEF Below
  <2> QED BY <2>1, <2>4 DEF LabelsBelow
<1>7. LabelsBelow(t, s) \subseteq Labels(u)
  <2> SUFFICES ASSUME NEW q \in LeafPaths(t), q \in Below(t, s) PROVE t[q] \in Labels(u)
    BY DEF LabelsBelow
  <2>1. q \in Paths /\ IsPrefix(s, q)
    BY <1>1, TreePaths DEF Below
  <2>2. PICK r \in Paths : q = s \o r
    BY <1>1, <2>1, PrefixGives
  <2>3. q = Cat(s, r)
    BY <2>2 DEF Cat
  <2>4. r \in LeafPaths(u) /\ u[r] = t[q]
    BY <1>3, <2>3
  <2> QED BY <2>4 DEF Labels
<1>8. Labels(u) = LabelsBelow(t, s)
  BY <1>6, <1>7
<1> QED BY <1>3, <1>4, <1>5, <1>8 DEF Sound

\* There is nothing below a leaf.
LEMMA LeafAlone ==
  ASSUME NEW t, IsTree(t), NEW p \in LeafPaths(t)
  PROVE  \A q \in DOMAIN t : IsPrefix(p, q) <=> q = p
<1>1. p \in Paths /\ DOMAIN t \subseteq Paths
  BY TreePaths, TreeWalk
<1>2. ASSUME NEW q \in DOMAIN t, IsPrefix(p, q) PROVE q = p
  <2>1. PICK r \in Paths : q = p \o r
    BY <1>1, <1>2, PrefixGives
  <2>2. r = <<>>
    BY <2>1, TreePaths
  <2> QED BY <1>1, <2>1, <2>2, EndEmpty
<1>3. IsPrefix(p, p)
  <2>1. p \o <<>> = p /\ <<>> \in Paths
    BY <1>1, EndEmpty
  <2> QED BY <1>1, <2>1, PrefixOf
<1> QED BY <1>2, <1>3

LEMMA PathOfIs ==
  ASSUME NEW t, NEW pane \in Panes(t)
  PROVE  PathOf(t, pane) \in LeafPaths(t) /\ t[PathOf(t, pane)].pane = pane
BY DEF PathOf, Panes

\* Splitting a leaf adds one label.
LEMMA SoundSplit ==
  ASSUME NEW t, Sound(t), NEW pane \in Panes(t), NEW dir \in {"right", "down"},
         NEW fresh, IsLeaf(fresh), fresh \notin Labels(t)
  PROVE  Sound(SplitLeaf(t, pane, dir, fresh)) /\ Labels(SplitLeaf(t, pane, dir, fresh)) = Labels(t) \cup {fresh}
<1> DEFINE p == PathOf(t, pane)
           a == Leaf(t[p])
           b == Leaf(fresh)
           sub == Branch(dir, HALF, a, b)
           g == Graft(t, p, sub)
<1>1. g = SplitLeaf(t, pane, dir, fresh)
  BY DEF SplitLeaf
<1>2. p \in LeafPaths(t)
  BY PathOfIs
<1> HIDE DEF p
<1>3. p \in DOMAIN t /\ IsLeaf(t[p]) /\ t[p] \in Labels(t) /\ IsTree(t)
  BY <1>2 DEF LeafPaths, Labels, Sound
<1>4. Sound(a) /\ Labels(a) = {t[p]} /\ Sound(b) /\ Labels(b) = {fresh}
  BY <1>3, SoundLeaf
<1>5. Labels(a) \cap Labels(b) = {} /\ HALF \in Int
  BY <1>3, <1>4 DEF HALF
<1> HIDE DEF a, b
<1>6a. Sound(sub) /\ Labels(sub) = Labels(a) \cup Labels(b)
  BY <1>4, <1>5, SoundBranch, Zenon
<1> HIDE DEF sub
<1>6. Sound(sub) /\ Labels(sub) = {t[p], fresh}
  BY <1>4, <1>6a
<1>7. OutsideLabels(t, p) = Labels(t) \ {t[p]}
  <2>1. \A q \in LeafPaths(t) : q \in DOMAIN t /\ (q \in Outside(t, p) <=> q # p)
    BY <1>2, <1>3, LeafAlone DEF Outside, LeafPaths
  <2>2. \A q \in LeafPaths(t) : t[q] = t[p] => q = p
    BY <1>2 DEF Sound, OneEach
  <2> QED BY <2>1, <2>2 DEF OutsideLabels, Labels
<1>8. OutsideLabels(t, p) \cap Labels(sub) = {}
  BY <1>6, <1>7
<1> HIDE DEF g
<1>9. Sound(g) /\ Labels(g) = OutsideLabels(t, p) \cup Labels(sub)
  BY <1>3, <1>6, <1>8, SoundGraft DEF g
<1>10. Labels(g) = Labels(t) \cup {fresh}
  BY <1>3, <1>6, <1>7, <1>9
<1> QED BY <1>1, <1>9, <1>10

\* Removing a leaf removes its label.
LEMMA SoundRemove ==
  ASSUME NEW t, Sound(t), NEW pane \in Panes(t), ~IsSingleLeaf(t)
  PROVE  /\ Sound(RemoveLeaf(t, pane))
         /\ Labels(RemoveLeaf(t, pane)) = Labels(t) \ {t[PathOf(t, pane)]}
<1> DEFINE p == PathOf(t, pane)
           f == Front(p)
           j == 1 - Last(p)
           s == Cat(f, One(j))
           sub == Subtree(t, s)
           g == Graft(t, f, sub)
<1>1. g = RemoveLeaf(t, pane)
  BY Zenon DEF RemoveLeaf, Cat, One
<1>2. p \in LeafPaths(t)
  BY PathOfIs
<1> HIDE DEF p
<1>3. IsTree(t) /\ p \in DOMAIN t /\ IsLeaf(t[p]) /\ t[p] \in Labels(t) /\ p \in Paths /\ p # <<>>
  BY <1>2, TreePaths DEF LeafPaths, Labels, Sound, IsSingleLeaf
<1>4. f \in BranchPaths(t) /\ Last(p) \in {0, 1} /\ p = Cat(f, One(Last(p))) /\ f \in DOMAIN t /\ f \in Paths
  BY <1>3, TreeWalk, TreePaths
<1>5. j \in {0, 1} /\ j # Last(p)
  BY <1>4
<1> DEFINE i == Last(p)
<1>6. i \in {0, 1} /\ p = Cat(f, One(i)) /\ i # j
  BY <1>4, <1>5
<1> HIDE DEF f, j, i
<1>7. s \in DOMAIN t /\ s \in Paths
  BY <1>3, <1>4, <1>5, TreeWalk
<1> HIDE DEF s
<1>8. Sound(sub) /\ Labels(sub) = LabelsBelow(t, s)
  BY <1>7, SoundSubtree
<1> HIDE DEF sub
<1>9. ASSUME NEW q \in LeafPaths(t)
      PROVE  (q \in Outside(t, f) \/ q \in Below(t, s)) <=> q # p
  <2>1. q \in DOMAIN t /\ q \in Paths
    BY <1>3, TreePaths
  <2>2. ASSUME q # p, IsPrefix(f, q) PROVE q \in Below(t, s)
    <3>1. PICK r \in Paths : q = f \o r
      BY <1>4, <2>1, <2>2, PrefixGives
    <3>2. r # <<>>
      <4> SUFFICES ASSUME r = <<>> PROVE FALSE
        OBVIOUS
      <4>1. q = f
        BY <1>4, <3>1, EndEmpty
      <4> QED BY <1>4, <4>1 DEF BranchPaths
    <3>3. PICK k \in {0, 1}, z \in Paths : r = <<k>> \o z
      BY <3>2, PathEnds
    <3>4. q = Cat(f, Cat(One(k), z)) /\ One(k) \in Paths
      BY <3>1, <3>3, CatIn DEF Cat, One
    <3>5. q = Cat(Cat(f, One(k)), z)
      BY <1>4, <3>4, CatAssoc
    <3>6. CASE k = j
      <4>1. q = s \o z
        BY <3>5, <3>6 DEF s, Cat
      <4>2. IsPrefix(s, q)
        BY <1>7, <4>1, PrefixOf
      <4> QED BY <2>1, <4>2 DEF Below
    <3>7. CASE k = i
      <4>1. q = p \o z
        BY <1>6, <3>5, <3>7 DEF Cat
      <4>2. IsPrefix(p, q)
        BY <1>3, <4>1, PrefixOf
      <4> QED BY <1>2, <1>3, <2>1, <2>2, <4>2, LeafAlone
    <3> QED BY <1>5, <1>6, <3>6, <3>7
  <2>3. p \notin Outside(t, f)
    <3>1. One(i) \in Paths /\ p = f \o One(i)
      BY <1>6, CatIn DEF Cat
    <3>2. IsPrefix(f, p)
      BY <1>4, <3>1, PrefixOf
    <3> QED BY <3>2 DEF Outside
  <2>4. p \notin Below(t, s)
    <3> SUFFICES ASSUME IsPrefix(s, p) PROVE FALSE
      BY DEF Below
    <3>1. PICK z \in Paths : p = s \o z
      BY <1>3, <1>7, PrefixGives
    <3>2. Cat(f, One(i)) = Cat(Cat(f, One(j)), z) /\ One(j) \in Paths /\ One(i) \in Paths
      BY <1>5, <1>6, <3>1, CatIn DEF s, Cat
    <3>3. Cat(f, One(i)) = Cat(f, Cat(One(j), z)) /\ Cat(One(j), z) \in Paths
      BY <1>4, <3>2, CatAssoc, CatIn
    <3>4. One(i) = Cat(One(j), z)
      BY <1>4, <3>2, <3>3, CancelLeft DEF Cat
    <3>5. <<i>> \o <<>> = <<j>> \o z /\ <<>> \in Paths
      <4>1. One(i) \o <<>> = One(i) /\ <<>> \in Paths
        BY <3>2, EndEmpty
      <4> QED BY <3>4, <4>1 DEF One, Cat
    <3>6. i = j
      BY <1>5, <1>6, <3>5, ConsIs
    <3> QED BY <1>6, <3>6
  <2>5. CASE q = p
    BY <2>3, <2>4, <2>5
  <2>6. CASE q # p
    BY <2>1, <2>2, <2>6 DEF Outside
  <2> QED BY <2>5, <2>6
<1>10. \A q \in LeafPaths(t) : ~(q \in Outside(t, f) /\ q \in Below(t, s))
  <2> SUFFICES ASSUME NEW q \in Paths, q \in Below(t, s) PROVE IsPrefix(f, q)
    BY <1>3, TreePaths DEF Outside
  <2>1. PICK z \in Paths : q = s \o z
    BY <1>7, PrefixGives DEF Below
  <2>2. q = Cat(Cat(f, One(j)), z) /\ One(j) \in Paths
    BY <1>5, <2>1, CatIn DEF s, Cat
  <2>3. q = Cat(f, Cat(One(j), z)) /\ Cat(One(j), z) \in Paths
    BY <1>4, <2>2, CatAssoc, CatIn
  <2> DEFINE x == Cat(One(j), z)
  <2>4. q = f \o x /\ x \in Paths
    BY <2>3 DEF Cat
  <2> HIDE DEF x
  <2> QED BY <1>4, <2>4, PrefixOf
<1>11. \A x, y \in LeafPaths(t) : t[x] = t[y] => x = y
  BY DEF Sound, OneEach
<1>12. OutsideLabels(t, f) \cap Labels(sub) = {}
  BY <1>8, <1>10, <1>11 DEF OutsideLabels, LabelsBelow
<1>13. Sound(g) /\ Labels(g) = OutsideLabels(t, f) \cup Labels(sub)
  <2> HIDE DEF g
  <2> QED BY <1>4, <1>8, <1>12, SoundGraft DEF g
<1>14. OutsideLabels(t, f) \cup LabelsBelow(t, s) = Labels(t) \ {t[p]}
  <2>1. ASSUME NEW q \in LeafPaths(t), q # p PROVE t[q] # t[p]
    BY <1>2, <1>11, <2>1
  <2>2. \A q \in LeafPaths(t) : q # p <=> q \in Outside(t, f) \cap LeafPaths(t) \/ q \in LeafPaths(t) \cap Below(t, s)
    BY <1>9
  <2>3. OutsideLabels(t, f) \cup LabelsBelow(t, s) = {t[q] : q \in LeafPaths(t) \ {p}}
    BY <2>2 DEF OutsideLabels, LabelsBelow
  <2>4. Labels(t) \ {t[p]} = {t[q] : q \in LeafPaths(t) \ {p}}
    BY <2>1 DEF Labels
  <2> QED BY <2>3, <2>4
<1>15. Labels(g) = Labels(t) \ {t[p]}
  BY <1>8, <1>13, <1>14
<1> HIDE DEF g
<1> QED BY <1>1, <1>13, <1>15 DEF p
-------------------------------------------------------------------------------
\* Depth first order puts one of two leaves before the other.
LEMMA BeforeTotal ==
  ASSUME NEW t, IsTree(t), NEW p \in LeafPaths(t), NEW q \in LeafPaths(t), p # q
  PROVE  Before(p, q) \/ Before(q, p)
<1>1. p \in Paths /\ q \in Paths /\ p \in DOMAIN t /\ q \in DOMAIN t
  BY TreePaths
<1>2. ~(\E r \in Paths : q = p \o r)
  <2> SUFFICES ASSUME NEW r \in Paths, q = p \o r PROVE FALSE
    OBVIOUS
  <2>1. r = <<>>
    BY <1>1, TreePaths
  <2> QED BY <1>1, <2>1, EndEmpty
<1>3. ~(\E r \in Paths : p = q \o r)
  <2> SUFFICES ASSUME NEW r \in Paths, p = q \o r PROVE FALSE
    OBVIOUS
  <2>1. r = <<>>
    BY <1>1, TreePaths
  <2> QED BY <1>1, <2>1, EndEmpty
<1>4. PICK i \in Nat : PartAt(p, q, i)
  BY <1>1, <1>2, <1>3, PartOrFollow
<1>5. PartAt(q, p, i)
  BY <1>4 DEF PartAt
<1>6. p[i] \in {0, 1} /\ q[i] \in {0, 1} /\ p[i] # q[i]
  BY <1>1, <1>4, PartParts DEF PartAt
<1>7. p[i] < q[i] \/ q[i] < p[i]
  BY <1>6
<1> QED BY <1>1, <1>4, <1>5, <1>7, BeforeAt

\* What Rank and Leaves say of the leaves of a tree.
Count(t) == Cardinality(LeafPaths(t))
Ranked(t) ==
  /\ Count(t) \in Nat \ {0}
  /\ \A p \in LeafPaths(t) : Rank(t, p) \in 1 .. Count(t) /\ Leaves(t)[Rank(t, p)] = t[p]
  /\ \A p, q \in LeafPaths(t) : Rank(t, p) = Rank(t, q) => p = q
  /\ \A i \in 1 .. Count(t) : \E p \in LeafPaths(t) : Rank(t, p) = i
  /\ DOMAIN Leaves(t) = 1 .. Count(t)
  /\ Leaves(t) \in Seq(Labels(t)) /\ Len(Leaves(t)) = Count(t)

LEMMA RankedTree ==
  ASSUME NEW t, IsTree(t)
  PROVE  Ranked(t)
<1> DEFINE L == LeafPaths(t)
           n == Cardinality(L)
           E(p) == {q \in L : Before(q, p)}
           f == [p \in L |-> Cardinality(E(p)) + 1]
<1>1. L \subseteq Paths /\ IsFiniteSet(L) /\ L # {}
  BY TreePaths, HasLeaf
<1>2. /\ \A p \in L : ~Before(p, p)
      /\ \A p, q, r \in L : Before(p, q) /\ Before(q, r) => Before(p, r)
      /\ \A p, q \in L : p # q => Before(p, q) \/ Before(q, p)
  BY <1>1, BeforeOrder, BeforeTotal
<1>3. \A p \in L : Rank(t, p) = f[p]
  BY DEF Rank
<1>4. n \in Nat \ {0}
  BY <1>1, FS_CardinalityType, FS_EmptySet
<1> HIDE DEF L, n
<1>5. ASSUME NEW p \in L PROVE IsFiniteSet(E(p)) /\ Cardinality(E(p)) \in Nat /\ f[p] \in 1 .. n
  <2>1. E(p) \subseteq L /\ p \notin E(p)
    BY <1>2
  <2> HIDE DEF E
  <2>2. IsFiniteSet(E(p)) /\ Cardinality(E(p)) <= n
    BY <1>1, <2>1, FS_Subset DEF n
  <2>3. Cardinality(E(p)) \in Nat
    BY <2>2, FS_CardinalityType
  <2>4. Cardinality(E(p)) # n
    BY <1>1, <2>1, FS_Subset DEF n
  <2>5. f[p] = Cardinality(E(p)) + 1
    OBVIOUS
  <2> HIDE DEF f
  <2> QED BY <1>4, <2>2, <2>3, <2>4, <2>5
<1>6. ASSUME NEW p \in L, NEW q \in L, Before(p, q) PROVE f[p] # f[q]
  <2>1. E(p) \subseteq E(q) /\ p \in E(q) /\ p \notin E(p)
    BY <1>2, <1>6
  <2>2. f[p] = Cardinality(E(p)) + 1 /\ f[q] = Cardinality(E(q)) + 1
    OBVIOUS
  <2> HIDE DEF E, f
  <2>3. Cardinality(E(p)) # Cardinality(E(q))
    BY <1>5, <2>1, FS_Subset
  <2> QED BY <1>5, <2>2, <2>3
<1>7. \A p, q \in L : f[p] = f[q] => p = q
  <2> HIDE DEF f
  <2> QED BY <1>2, <1>6
<1>8. f \in Surjection(L, 1 .. n)
  <2>1. DOMAIN f = L /\ f = [p \in L |-> f[p]]
    OBVIOUS
  <2> HIDE DEF f
  <2>2. f \in [L -> 1 .. n]
    BY <1>5, <2>1
  <2>3. f \in Injection(L, 1 .. n)
    BY <1>7, <2>2 DEF Injection, IsInjective
  <2>4. IsFiniteSet(1 .. n) /\ Cardinality(1 .. n) = n
    BY <1>4, FS_Interval
  <2>5. Cardinality(L) = Cardinality(1 .. n)
    BY <2>4 DEF n
  <2> QED BY <2>3, <2>4, <2>5, FS_Injection
<1>9. \A i \in 1 .. n : \E p \in L : f[p] = i
  <2> HIDE DEF f
  <2> QED BY <1>8 DEF Surjection
<1> HIDE DEF f, E
<1> DEFINE C(i) == CHOOSE p \in L : Rank(t, p) = i
<1>10. Leaves(t) = [i \in 1 .. n |-> t[C(i)]]
  BY DEF Leaves, n, L
<1>11. \A i \in 1 .. n : \E p \in L : Rank(t, p) = i
  BY <1>3, <1>9
<1>12. \A i \in 1 .. n : C(i) \in L /\ Rank(t, C(i)) = i
  BY <1>11
<1> HIDE DEF C
<1>13. \A p \in L : Rank(t, p) \in 1 .. n /\ C(Rank(t, p)) = p
  BY <1>3, <1>5, <1>7, <1>12
<1>14. \A p \in L : Leaves(t)[Rank(t, p)] = t[p]
  BY <1>10, <1>13
<1>15. Leaves(t) \in [1 .. n -> Labels(t)]
  BY <1>10, <1>12 DEF Labels, L
<1>16. Leaves(t) \in Seq(Labels(t)) /\ Len(Leaves(t)) = n /\ DOMAIN Leaves(t) = 1 .. n
  BY <1>4, <1>15
<1>17. \A p, q \in L : Rank(t, p) = Rank(t, q) => p = q
  BY <1>3, <1>7
<1> QED BY <1>4, <1>11, <1>13, <1>14, <1>16, <1>17 DEF Ranked, Count, n, L

LEMMA LeftmostIn ==
  ASSUME NEW t, IsTree(t)
  PROVE  LeftmostPane(t) \in Panes(t)
<1>1. Ranked(t)
  BY RankedTree
<1>2. 1 \in 1 .. Count(t)
  BY <1>1 DEF Ranked
<1>3. PICK p \in LeafPaths(t) : Rank(t, p) = 1
  BY <1>1, <1>2 DEF Ranked
<1>4. Leaves(t)[1] = t[p]
  BY <1>1, <1>3 DEF Ranked
<1> QED BY <1>4 DEF LeftmostPane, Panes

\* The leaves in another order.
Listing(seq, S) ==
  /\ \A l \in S : IsLeaf(l)
  /\ seq \in Seq(S) /\ \A l \in S : \E i \in 1 .. Len(seq) : seq[i] = l
  /\ \A i, j \in 1 .. Len(seq) : seq[i] = seq[j] => i = j

LEMMA LeavesListed ==
  ASSUME NEW t, Sound(t)
  PROVE  Listing(Leaves(t), Labels(t)) /\ Leaves(t) # <<>>
<1>1. Ranked(t) /\ OneEach(t)
  BY RankedTree DEF Sound
<1>2. \A l \in Labels(t) : IsLeaf(l)
  BY DEF Labels, LeafPaths
<1>3. \A l \in Labels(t) : \E i \in 1 .. Count(t) : Leaves(t)[i] = l
  BY <1>1 DEF Labels, Ranked
<1>4. ASSUME NEW i \in 1 .. Count(t), NEW j \in 1 .. Count(t), Leaves(t)[i] = Leaves(t)[j] PROVE i = j
  <2>1. PICK p \in LeafPaths(t) : Rank(t, p) = i
    BY <1>1 DEF Ranked
  <2>2. PICK q \in LeafPaths(t) : Rank(t, q) = j
    BY <1>1 DEF Ranked
  <2>3. t[p] = t[q]
    BY <1>1, <1>4, <2>1, <2>2 DEF Ranked
  <2> QED BY <1>1, <2>1, <2>2, <2>3 DEF OneEach
<1>5. Leaves(t) \in Seq(Labels(t)) /\ Len(Leaves(t)) = Count(t) /\ Count(t) # 0
  BY <1>1 DEF Ranked
<1> QED BY <1>2, <1>3, <1>4, <1>5 DEF Listing

LEMMA SoundRefill ==
  ASSUME NEW t, Sound(t), NEW seq, Listing(seq, Labels(t)), Len(seq) = Count(t)
  PROVE  Sound(Refill(t, seq)) /\ Labels(Refill(t, seq)) = Labels(t)
<1> DEFINE u == Refill(t, seq)
<1>1. Ranked(t) /\ IsTree(t)
  BY RankedTree DEF Sound
<1>2. u = [p \in DOMAIN t |-> IF IsLeaf(t[p]) THEN seq[Rank(t, p)] ELSE t[p]]
  BY DEF Refill
<1>3. \A p \in LeafPaths(t) : p \in DOMAIN t /\ u[p] = seq[Rank(t, p)]
  BY <1>2 DEF LeafPaths
<1>4. \A p \in BranchPaths(t) : p \in DOMAIN t /\ u[p] = t[p]
  BY <1>2 DEF LeafPaths, BranchPaths
<1>5. u = [p \in DOMAIN t |-> u[p]]
  BY <1>2
<1> HIDE DEF u
<1>6. \A i \in 1 .. Count(t) : seq[i] \in Labels(t) /\ IsLeaf(seq[i])
  BY <1>1, ElementOfSeq DEF Listing
<1>7. \A p \in DOMAIN t : IsLeaf(u[p]) <=> IsLeaf(t[p])
  <2> SUFFICES ASSUME NEW p \in DOMAIN t PROVE IsLeaf(u[p]) <=> IsLeaf(t[p])
    OBVIOUS
  <2>1. CASE p \in LeafPaths(t)
    BY <1>1, <1>3, <1>6, <2>1 DEF LeafPaths, Ranked
  <2>2. CASE p \in BranchPaths(t)
    BY <1>4, <2>2
  <2> QED BY <2>1, <2>2 DEF BranchPaths
<1>8. IsTree(u) /\ LeafPaths(u) = LeafPaths(t) /\ BranchPaths(u) = BranchPaths(t)
  BY <1>1, <1>5, <1>7, SameTree
<1>9. Labels(u) \subseteq Labels(t)
  BY <1>1, <1>3, <1>6, <1>8 DEF Ranked, Labels
<1>10. Labels(t) \subseteq Labels(u)
  <2> SUFFICES ASSUME NEW l \in Labels(t) PROVE l \in Labels(u)
    OBVIOUS
  <2>1. PICK i \in 1 .. Count(t) : seq[i] = l
    BY DEF Listing
  <2>2. PICK p \in LeafPaths(t) : Rank(t, p) = i
    BY <1>1 DEF Ranked
  <2>3. u[p] = l
    BY <1>3, <2>1, <2>2
  <2> QED BY <1>8, <2>3 DEF Labels
<1>11. OneEach(u)
  <2> SUFFICES ASSUME NEW p \in LeafPaths(t), NEW q \in LeafPaths(t), u[p] = u[q] PROVE p = q
    BY <1>8 DEF OneEach
  <2>1. Rank(t, p) \in 1 .. Count(t) /\ Rank(t, q) \in 1 .. Count(t) /\ seq[Rank(t, p)] = seq[Rank(t, q)]
    BY <1>1, <1>3 DEF Ranked
  <2>2. Rank(t, p) = Rank(t, q)
    BY <2>1 DEF Listing
  <2> QED BY <1>1, <2>2 DEF Ranked
<1>12. Ruled(u)
  BY <1>4, <1>8 DEF Ruled, Sound
<1>13. Sound(u)
  BY <1>8, <1>11, <1>12 DEF Sound
<1>14. Labels(u) = Labels(t)
  BY <1>9, <1>10
<1> QED BY <1>13, <1>14 DEF u
-------------------------------------------------------------------------------
LEMMA ModPast ==
  ASSUME NEW n \in Nat \ {0}, NEW a \in 0 .. n - 1
  PROVE  (n + a) % n = a
OBVIOUS

\* Trading two places of a listing, and turning it round.
LEMMA SwapListing ==
  ASSUME NEW S, NEW seq, Listing(seq, S), NEW i \in 1 .. Len(seq), NEW j \in 1 .. Len(seq)
  PROVE  LET new == [seq EXCEPT ![i] = seq[j], ![j] = seq[i]]
         IN Listing(new, S) /\ Len(new) = Len(seq)
<1> DEFINE new == [seq EXCEPT ![i] = seq[j], ![j] = seq[i]]
           n == Len(seq)
<1>1. seq \in Seq(S) /\ n \in Nat /\ DOMAIN seq = 1 .. n /\ \A k \in 1 .. n : seq[k] \in S
  BY LenProperties, ElementOfSeq DEF Listing
<1>2. DOMAIN new = 1 .. n
  BY <1>1
<1>3. \A k \in 1 .. n : new[k] = IF k = j THEN seq[i] ELSE IF k = i THEN seq[j] ELSE seq[k]
  BY <1>1
<1>4. new = [k \in 1 .. n |-> new[k]]
  BY <1>2
<1> HIDE DEF new, n
<1>5. i \in 1 .. n /\ j \in 1 .. n
  BY DEF n
<1>6. new \in [1 .. n -> S]
  BY <1>1, <1>3, <1>4, <1>5
<1>7. new \in Seq(S) /\ Len(new) = n
  BY <1>1, <1>6
<1>8. \A l \in S : \E k \in 1 .. n : seq[k] = l
  BY DEF Listing, n
<1>9. \A k, m \in 1 .. n : seq[k] = seq[m] => k = m
  BY DEF Listing, n
<1>10. ASSUME NEW l \in S PROVE \E k \in 1 .. n : new[k] = l
  <2>1. PICK k \in 1 .. n : seq[k] = l
    BY <1>8
  <2>2. CASE k = i
    BY <1>3, <1>5, <2>1, <2>2
  <2>3. CASE k = j
    BY <1>3, <1>5, <2>1, <2>3
  <2>4. CASE k # i /\ k # j
    BY <1>3, <2>1, <2>4
  <2> QED BY <2>2, <2>3, <2>4
<1>11. \A k, m \in 1 .. n : new[k] = new[m] => k = m
  BY <1>3, <1>5, <1>9
<1> QED BY <1>7, <1>10, <1>11 DEF Listing, n, new

Turns(f, n) ==
  /\ \A i \in 1 .. n : f[i] \in 1 .. n
  /\ \A i \in 1 .. n : \E k \in 1 .. n : f[k] = i
  /\ \A i, k \in 1 .. n : f[i] = f[k] => i = k

LEMMA TurnListing ==
  ASSUME NEW S, NEW seq, Listing(seq, S), NEW n, n = Len(seq), NEW f, Turns(f, n),
         NEW new, new = [i \in 1 .. n |-> seq[f[i]]]
  PROVE  Listing(new, S) /\ Len(new) = n
<1>1. seq \in Seq(S) /\ n \in Nat /\ \A k \in 1 .. n : seq[k] \in S
  BY LenProperties, ElementOfSeq DEF Listing
<1>2. new \in [1 .. n -> S]
  BY <1>1 DEF Turns
<1>3. new \in Seq(S) /\ Len(new) = n
  BY <1>1, <1>2
<1>4. \A k \in 1 .. n : new[k] = seq[f[k]]
  OBVIOUS
<1>5. ASSUME NEW l \in S PROVE \E k \in 1 .. n : new[k] = l
  <2>1. PICK i \in 1 .. n : seq[i] = l
    BY DEF Listing
  <2>2. PICK k \in 1 .. n : f[k] = i
    BY DEF Turns
  <2> QED BY <1>4, <2>1, <2>2
<1>6. ASSUME NEW k \in 1 .. n, NEW m \in 1 .. n, new[k] = new[m] PROVE k = m
  <2> DEFINE a == f[k]
             b == f[m]
  <2>1. seq[a] = seq[b] /\ a \in 1 .. n /\ b \in 1 .. n
    BY <1>4, <1>6 DEF Turns
  <2> HIDE DEF a, b
  <2>2. a = b
    BY <2>1 DEF Listing
  <2> QED BY <2>2 DEF a, b, Turns
<1> QED BY <1>3, <1>5, <1>6 DEF Listing

LEMMA SoundSwap ==
  ASSUME NEW t, Sound(t), NEW pane \in Panes(t), NEW delta \in Int
  PROVE  Sound(SwapWith(t, pane, delta)) /\ Labels(SwapWith(t, pane, delta)) = Labels(t)
<1> DEFINE seq == Leaves(t)
           n == Len(seq)
           i == Rank(t, PathOf(t, pane))
           j == ((i - 1 + delta) % n) + 1
           new == [seq EXCEPT ![i] = seq[j], ![j] = seq[i]]
<1>1. SwapWith(t, pane, delta) = Refill(t, new)
  BY DEF SwapWith
<1>2. Listing(seq, Labels(t)) /\ Ranked(t)
  BY LeavesListed, RankedTree DEF Sound
<1>3. PathOf(t, pane) \in LeafPaths(t)
  BY PathOfIs
<1>4. n \in Nat \ {0} /\ i \in 1 .. n /\ n = Count(t)
  BY <1>2, <1>3 DEF Ranked
<1> HIDE DEF seq, n, i
<1>5. j \in 1 .. n
  BY <1>4
<1> HIDE DEF j
<1>6. Listing(new, Labels(t)) /\ Len(new) = n
  BY <1>2, <1>4, <1>5, SwapListing DEF n
<1> HIDE DEF new
<1>7. Sound(Refill(t, new)) /\ Labels(Refill(t, new)) = Labels(t)
  BY <1>4, <1>6, SoundRefill
<1> QED BY <1>1, <1>7

LEMMA SoundRotate ==
  ASSUME NEW t, Sound(t), NEW up
  PROVE  Sound(Rotate(t, up)) /\ Labels(Rotate(t, up)) = Labels(t)
<1> DEFINE seq == Leaves(t)
           n == Len(seq)
           f == [i \in 1 .. n |-> ((i - 1 + (IF up THEN 1 ELSE n - 1)) % n) + 1]
           new == [i \in 1 .. n |-> seq[((i - 1 + (IF up THEN 1 ELSE n - 1)) % n) + 1]]
<1>1. Rotate(t, up) = Refill(t, new)
  BY DEF Rotate
<1>2. Listing(seq, Labels(t)) /\ Ranked(t)
  BY LeavesListed, RankedTree DEF Sound
<1>3. n \in Nat \ {0} /\ n = Count(t)
  BY <1>2 DEF Ranked
<1>4. new = [i \in 1 .. n |-> seq[f[i]]]
  OBVIOUS
<1> HIDE DEF seq, n, new
<1>5. Turns(f, n)
  <2>1. CASE up
    <3>1. \A i \in 1 .. n : f[i] = (i % n) + 1
      BY <1>3, <2>1
    <3>2. \A i \in 1 .. n - 1 : i % n = i
      BY <1>3
    <3>3. n % n = 0
      BY <1>3
    <3> HIDE DEF f
    <3>4. \A i \in 1 .. n : f[i] = IF i = n THEN 1 ELSE i + 1
      BY <1>3, <3>1, <3>2, <3>3
    <3>5. ASSUME NEW i \in 1 .. n PROVE \E k \in 1 .. n : f[k] = i
      <4>1. CASE i = 1
        BY <1>3, <3>4, <4>1
      <4>2. CASE i # 1
        <5>1. i - 1 \in 1 .. n /\ i - 1 # n
          BY <1>3, <4>2
        <5>2. f[i - 1] = i
          BY <1>3, <3>4, <5>1
        <5> QED BY <5>1, <5>2
      <4> QED BY <4>1, <4>2
    <3> QED BY <1>3, <3>4, <3>5 DEF Turns
  <2>2. CASE ~up
    <3>1. \A i \in 1 .. n : f[i] = ((i + n - 2) % n) + 1
      BY <1>3, <2>2
    <3>2. \A i \in 2 .. n : (i + n - 2) % n = i - 2
      <4> SUFFICES ASSUME NEW i \in 2 .. n PROVE (i + n - 2) % n = i - 2
        OBVIOUS
      <4> DEFINE a == i - 2
      <4>1. a \in 0 .. n - 1 /\ i + n - 2 = n + a
        BY <1>3
      <4> HIDE DEF a
      <4>2. (n + a) % n = a
        BY <1>3, <4>1, ModPast
      <4> QED BY <4>1, <4>2 DEF a
    <3>3. (1 + n - 2) % n = n - 1
      <4>1. 1 + n - 2 = n - 1 /\ n - 1 \in 0 .. n - 1
        BY <1>3
      <4>2. (n - 1) % n = n - 1
        BY <1>3
      <4> QED BY <4>1, <4>2
    <3> HIDE DEF f
    <3>4. \A i \in 1 .. n : f[i] = IF i = 1 THEN n ELSE i - 1
      <4> SUFFICES ASSUME NEW i \in 1 .. n PROVE f[i] = IF i = 1 THEN n ELSE i - 1
        OBVIOUS
      <4>1. CASE i = 1
        <5>1. f[1] = ((1 + n - 2) % n) + 1
          BY <3>1, <4>1
        <5> QED BY <1>3, <3>3, <4>1, <5>1
      <4>2. CASE i # 1
        <5>1. i \in 2 .. n
          BY <1>3, <4>2
        <5>2. f[i] = (i - 2) + 1
          BY <3>1, <3>2, <5>1
        <5> QED BY <4>2, <5>1, <5>2
      <4> QED BY <4>1, <4>2
    <3>5. ASSUME NEW i \in 1 .. n PROVE \E k \in 1 .. n : f[k] = i
      <4>1. CASE i = n
        BY <1>3, <3>4, <4>1
      <4>2. CASE i # n
        <5>1. i + 1 \in 1 .. n /\ i + 1 # 1
          BY <1>3, <4>2
        <5>2. f[i + 1] = i
          BY <1>3, <3>4, <5>1
        <5> QED BY <5>1, <5>2
      <4> QED BY <4>1, <4>2
    <3> QED BY <1>3, <3>4, <3>5 DEF Turns
  <2> QED BY <2>1, <2>2
<1> HIDE DEF f
<1>6. Listing(new, Labels(t)) /\ Len(new) = n
  BY <1>2, <1>4, <1>5, TurnListing DEF n
<1>7. Sound(Refill(t, new)) /\ Labels(Refill(t, new)) = Labels(t)
  BY <1>3, <1>6, SoundRefill
<1> QED BY <1>1, <1>7
-------------------------------------------------------------------------------
(* Trees along a direction, each an equal share: the recursion of EvenTrees and what it makes. *)
Slices(N) == {s \in (1 .. N) \X (1 .. N) : s[1] + s[2] <= N + 1}
Lower(s) == <<s[1], s[2] \div 2>>
Upper(s) == <<s[1] + (s[2] \div 2), s[2] - (s[2] \div 2)>>
EvenStep(trees, dir, f, s) ==
  IF s[2] = 1 THEN trees[s[1]]
  ELSE Branch(dir, (UNIT * (s[2] \div 2)) \div s[2], f[Lower(s)], f[Upper(s)])

LEMMA SliceParts ==
  ASSUME NEW N \in Nat, NEW s \in Slices(N), s[2] # 1
  PROVE  /\ Lower(s) \in Slices(N) /\ Upper(s) \in Slices(N)
         /\ s[1] \in Nat /\ s[2] \in Nat \ {0} /\ Lower(s)[2] \in Nat /\ Upper(s)[2] \in Nat
         /\ Lower(s)[2] < s[2] /\ Upper(s)[2] < s[2]
         /\ Lower(s)[1] = s[1] /\ Upper(s)[1] = s[1] + Lower(s)[2] /\ Lower(s)[2] + Upper(s)[2] = s[2]
         /\ (UNIT * (s[2] \div 2)) \div s[2] \in Int
<1> DEFINE a == s[1]
           b == s[2]
           h == s[2] \div 2
<1>1. a \in 1 .. N /\ b \in 1 .. N /\ a + b <= N + 1 /\ b # 1
  BY DEF Slices
<1>2. h \in 1 .. b - 1
  BY <1>1
<1> HIDE DEF h
<1>3. <<a, h>> \in Slices(N) /\ <<a + h, b - h>> \in Slices(N)
  BY <1>1, <1>2 DEF Slices
<1>4. Lower(s) = <<a, h>> /\ Upper(s) = <<a + h, b - h>>
  BY DEF Lower, Upper, h
<1>5. (UNIT * h) \div b \in Int
  BY <1>1, <1>2 DEF UNIT
<1> HIDE DEF a, b
<1>6. /\ <<a, h>>[1] = a /\ <<a, h>>[2] = h /\ <<a + h, b - h>>[1] = a + h /\ <<a + h, b - h>>[2] = b - h
      /\ h \in Nat /\ b - h \in Nat /\ h < b /\ b - h < b /\ h + (b - h) = b /\ a \in Nat /\ b \in Nat \ {0}
  BY <1>1, <1>2
<1> QED BY <1>3, <1>4, <1>5, <1>6 DEF a, b, h

\* As far as slices of m trees, some function is what the recursion says.
EvenUpTo(trees, dir, N, f, m) ==
  /\ f = [s \in Slices(N) |-> f[s]]
  /\ \A s \in Slices(N) : s[2] <= m => f[s] = EvenStep(trees, dir, f, s)

LEMMA EvenGoesOn ==
  ASSUME NEW trees, NEW dir, NEW N \in Nat, NEW m \in Nat, NEW f, EvenUpTo(trees, dir, N, f, m)
  PROVE  \E g : EvenUpTo(trees, dir, N, g, m + 1)
<1> DEFINE g == [s \in Slices(N) |-> IF s[2] <= m THEN f[s] ELSE EvenStep(trees, dir, f, s)]
<1>1. g = [s \in Slices(N) |-> g[s]]
  OBVIOUS
<1>2. \A s \in Slices(N) : g[s] = IF s[2] <= m THEN f[s] ELSE EvenStep(trees, dir, f, s)
  OBVIOUS
<1> HIDE DEF g
<1>3. ASSUME NEW s \in Slices(N), s[2] <= m + 1 PROVE g[s] = EvenStep(trees, dir, g, s)
  <2>1. EvenStep(trees, dir, g, s) = EvenStep(trees, dir, f, s)
    <3>1. CASE s[2] = 1
      BY <3>1 DEF EvenStep
    <3>2. CASE s[2] # 1
      <4>1. /\ Lower(s) \in Slices(N) /\ Upper(s) \in Slices(N) /\ s[2] \in Nat
            /\ Lower(s)[2] \in Nat /\ Upper(s)[2] \in Nat /\ Lower(s)[2] < s[2] /\ Upper(s)[2] < s[2]
        BY <3>2, SliceParts
      <4>2. Lower(s)[2] <= m /\ Upper(s)[2] <= m
        BY <1>3, <4>1
      <4>3. g[Lower(s)] = f[Lower(s)] /\ g[Upper(s)] = f[Upper(s)]
        BY <1>2, <4>1, <4>2
      <4> QED BY <4>3 DEF EvenStep
    <3> QED BY <3>1, <3>2
  <2>2. CASE s[2] <= m
    BY <1>2, <2>1, <2>2 DEF EvenUpTo
  <2>3. CASE ~(s[2] <= m)
    BY <1>2, <2>1, <2>3
  <2> QED BY <2>2, <2>3
<1>4. EvenUpTo(trees, dir, N, g, m + 1)
  BY <1>1, <1>3 DEF EvenUpTo
<1> QED BY <1>4

LEMMA EvenExists ==
  ASSUME NEW trees, NEW dir, NEW N \in Nat
  PROVE  \E f : f = [s \in Slices(N) |-> EvenStep(trees, dir, f, s)]
<1> DEFINE T == {m \in Nat : ~\E f : EvenUpTo(trees, dir, N, f, m)}
<1>1. T = {}
  <2> SUFFICES ASSUME T # {} PROVE FALSE
    OBVIOUS
  <2>1. T \subseteq Nat
    OBVIOUS
  <2> HIDE DEF T
  <2>2. PICK m \in T : \A k \in T : m <= k
    BY <2>1, LeastNatural
  <2>3. m \in Nat
    BY <2>1
  <2>4. CASE m = 0
    <3> DEFINE f == [s \in Slices(N) |-> 0]
    <3>1. f = [s \in Slices(N) |-> f[s]]
      OBVIOUS
    <3>2. \A s \in Slices(N) : ~(s[2] <= 0)
      BY DEF Slices
    <3> HIDE DEF f
    <3>3. EvenUpTo(trees, dir, N, f, 0)
      BY <3>1, <3>2 DEF EvenUpTo
    <3> QED BY <2>4, <3>3 DEF T
  <2>5. CASE m # 0
    <3>1. m - 1 \in Nat /\ ~(m <= m - 1) /\ (m - 1) + 1 = m
      BY <2>3, <2>5
    <3>2. m - 1 \notin T
      BY <2>2, <3>1
    <3>3. PICK f : EvenUpTo(trees, dir, N, f, m - 1)
      BY <3>1, <3>2 DEF T
    <3>4. \E g : EvenUpTo(trees, dir, N, g, (m - 1) + 1)
      BY <3>1, <3>3, EvenGoesOn
    <3>5. \E g : EvenUpTo(trees, dir, N, g, m)
      BY <3>1, <3>4
    <3> QED BY <2>2, <3>5 DEF T
  <2> QED BY <2>4, <2>5
<1>2. PICK f : EvenUpTo(trees, dir, N, f, N)
  BY <1>1
<1>3. \A s \in Slices(N) : s[2] <= N
  BY DEF Slices
<1>4. \A s \in Slices(N) : f[s] = EvenStep(trees, dir, f, s)
  BY <1>2, <1>3 DEF EvenUpTo
<1>5. f = [s \in Slices(N) |-> f[s]]
  BY <1>2 DEF EvenUpTo
<1>6. f = [s \in Slices(N) |-> EvenStep(trees, dir, f, s)]
  BY <1>4, <1>5
<1> QED BY <1>6

LEMMA EvenIs ==
  ASSUME NEW trees, NEW dir, Len(trees) \in Nat
  PROVE  \E f : /\ f = [s \in Slices(Len(trees)) |-> EvenStep(trees, dir, f, s)]
                /\ EvenTrees(trees, dir) = f[<<1, Len(trees)>>]
<1> DEFINE N == Len(trees)
           F == CHOOSE f : f = [s \in Slices(N) |-> EvenStep(trees, dir, f, s)]
<1>1. F = [s \in Slices(N) |-> EvenStep(trees, dir, F, s)]
  <2>1. \E f : f = [s \in Slices(N) |-> EvenStep(trees, dir, f, s)]
    BY EvenExists
  <2> QED BY <2>1
<1>2. EvenTrees(trees, dir) = F[<<1, N>>]
  BY DEF EvenTrees, Slices, EvenStep, Lower, Upper
<1> QED BY <1>1, <1>2
-------------------------------------------------------------------------------
Holds(t, S) == Sound(t) /\ Labels(t) = S
Joins(dir, ratio, A, B) == dir \in {"right", "down"} /\ ratio \in Int /\ A \cap B = {}

LEMMA HoldsBranch ==
  ASSUME NEW a, NEW A, Holds(a, A), NEW b, NEW B, Holds(b, B), NEW dir, NEW ratio, Joins(dir, ratio, A, B)
  PROVE  Holds(Branch(dir, ratio, a, b), A \cup B)
<1>1. Sound(a) /\ Sound(b) /\ Labels(a) = A /\ Labels(b) = B
  BY DEF Holds
<1>2. dir \in {"right", "down"} /\ ratio \in Int /\ A \cap B = {}
  BY DEF Joins
<1>3. Labels(a) \cap Labels(b) = {}
  BY <1>1, <1>2
<1> DEFINE g == Branch(dir, ratio, a, b)
<1>4. Sound(g) /\ Labels(g) = Labels(a) \cup Labels(b)
  BY <1>1, <1>2, <1>3, SoundBranch
<1> HIDE DEF g
<1>5. Holds(g, A \cup B)
  BY <1>1, <1>4 DEF Holds
<1> QED BY <1>5 DEF g

Grove(trees, N) ==
  /\ N \in Nat \ {0} /\ Len(trees) = N
  /\ \A i \in 1 .. N : Sound(trees[i])
  /\ \A i, j \in 1 .. N : i # j => Labels(trees[i]) \cap Labels(trees[j]) = {}
LabelsIn(trees, a, b) == UNION {Labels(trees[k]) : k \in a .. b}
Grown(trees, f, s) == Sound(f[s]) /\ Labels(f[s]) = LabelsIn(trees, s[1], s[1] + s[2] - 1)

LEMMA GrownStep ==
  ASSUME NEW trees, NEW N, Grove(trees, N), NEW dir \in {"right", "down"},
         NEW f, f = [s \in Slices(N) |-> EvenStep(trees, dir, f, s)],
         NEW s \in Slices(N), s[2] # 1, Grown(trees, f, Lower(s)), Grown(trees, f, Upper(s))
  PROVE  Grown(trees, f, s)
<1> DEFINE a == s[1]
           b == Lower(s)[2]
           c == Upper(s)[2]
           x == f[Lower(s)]
           y == f[Upper(s)]
           ratio == (UNIT * (s[2] \div 2)) \div s[2]
<1>1. N \in Nat
  BY DEF Grove
<1>2. /\ Lower(s) \in Slices(N) /\ Upper(s) \in Slices(N)
      /\ a \in Nat /\ s[2] \in Nat \ {0} /\ b \in Nat /\ c \in Nat /\ ratio \in Int
      /\ Lower(s)[1] = a /\ Upper(s)[1] = a + b /\ b + c = s[2]
  BY <1>1, SliceParts
<1>3. a \in 1 .. N /\ a + s[2] <= N + 1
  BY DEF Slices
<1>4. f[s] = Branch(dir, ratio, x, y)
  <2>1. f[s] = EvenStep(trees, dir, f, s)
    OBVIOUS
  <2> QED BY <2>1 DEF EvenStep
<1>5. /\ Sound(x) /\ Labels(x) = LabelsIn(trees, a, a + b - 1)
      /\ Sound(y) /\ Labels(y) = LabelsIn(trees, a + b, a + b + c - 1)
  BY <1>2 DEF Grown
<1>9. ratio \in Int
  BY <1>2
<1> HIDE DEF x, y, ratio, b, c
<1>6. Labels(x) \cap Labels(y) = {}
  <2> SUFFICES ASSUME NEW l \in Labels(x), l \in Labels(y) PROVE FALSE
    OBVIOUS
  <2>1. PICK i \in a .. a + b - 1 : l \in Labels(trees[i])
    BY <1>5 DEF LabelsIn
  <2>2. PICK j \in a + b .. a + b + c - 1 : l \in Labels(trees[j])
    BY <1>5 DEF LabelsIn
  <2>3. i \in 1 .. N /\ j \in 1 .. N /\ i # j
    BY <1>1, <1>2, <1>3
  <2> QED BY <2>1, <2>2, <2>3 DEF Grove
<1>7. LabelsIn(trees, a, a + b - 1) \cup LabelsIn(trees, a + b, a + b + c - 1) = LabelsIn(trees, a, a + s[2] - 1)
  <2>1. \A k : k \in a .. a + s[2] - 1 <=> k \in a .. a + b - 1 \/ k \in a + b .. a + b + c - 1
    BY <1>2
  <2> QED BY <2>1 DEF LabelsIn
<1>8. Holds(Branch(dir, ratio, x, y), Labels(x) \cup Labels(y))
  <2>1. Holds(x, Labels(x)) /\ Holds(y, Labels(y))
    BY <1>5 DEF Holds
  <2>2. Joins(dir, ratio, Labels(x), Labels(y))
    BY <1>6, <1>9 DEF Joins
  <2> QED BY <2>1, <2>2, HoldsBranch, Zenon
<1> QED BY <1>4, <1>5, <1>7, <1>8 DEF Grown, Holds

LEMMA GrownOne ==
  ASSUME NEW trees, NEW N, Grove(trees, N), NEW dir,
         NEW f, f = [s \in Slices(N) |-> EvenStep(trees, dir, f, s)],
         NEW s \in Slices(N), s[2] = 1
  PROVE  Grown(trees, f, s)
<1>1. s[1] \in 1 .. N /\ N \in Nat
  BY DEF Slices, Grove
<1>2. f[s] = trees[s[1]]
  <2>1. f[s] = EvenStep(trees, dir, f, s)
    OBVIOUS
  <2> QED BY <2>1 DEF EvenStep
<1>3. s[1] .. s[1] + s[2] - 1 = {s[1]}
  BY <1>1
<1>4. LabelsIn(trees, s[1], s[1] + s[2] - 1) = Labels(trees[s[1]])
  BY <1>3 DEF LabelsIn
<1> QED BY <1>1, <1>2, <1>4 DEF Grown, Grove

LEMMA SoundEven ==
  ASSUME NEW trees, NEW N, Grove(trees, N), NEW dir \in {"right", "down"}
  PROVE  Sound(EvenTrees(trees, dir)) /\ Labels(EvenTrees(trees, dir)) = LabelsIn(trees, 1, N)
<1>1. N \in Nat \ {0} /\ Len(trees) = N
  BY DEF Grove
<1>2. PICK f : f = [s \in Slices(N) |-> EvenStep(trees, dir, f, s)] /\ EvenTrees(trees, dir) = f[<<1, N>>]
  BY <1>1, EvenIs
<1> DEFINE T == {m \in Nat : \E s \in Slices(N) : s[2] = m /\ ~Grown(trees, f, s)}
<1>3. T = {}
  <2> SUFFICES ASSUME T # {} PROVE FALSE
    OBVIOUS
  <2>1. T \subseteq Nat
    OBVIOUS
  <2> HIDE DEF T
  <2>2. PICK m \in T : \A k \in T : m <= k
    BY <2>1, LeastNatural
  <2>3. PICK s \in Slices(N) : s[2] = m /\ ~Grown(trees, f, s)
    BY <2>2 DEF T
  <2>4. CASE s[2] = 1
    BY <1>2, <2>3, <2>4, GrownOne
  <2>5. CASE s[2] # 1
    <3>1. /\ Lower(s) \in Slices(N) /\ Upper(s) \in Slices(N) /\ s[2] \in Nat
          /\ Lower(s)[2] \in Nat /\ Upper(s)[2] \in Nat /\ Lower(s)[2] < s[2] /\ Upper(s)[2] < s[2]
      BY <1>1, <2>5, SliceParts
    <3>2. Lower(s)[2] \notin T /\ Upper(s)[2] \notin T
      BY <2>2, <2>3, <3>1
    <3>3. Grown(trees, f, Lower(s)) /\ Grown(trees, f, Upper(s))
      BY <3>1, <3>2 DEF T
    <3>4. f = [z \in Slices(N) |-> EvenStep(trees, dir, f, z)]
      BY <1>2
    <3>5. Grown(trees, f, s)
      BY <2>5, <3>3, <3>4, GrownStep
    <3> QED BY <2>3, <3>5
  <2> QED BY <2>4, <2>5
<1>4. <<1, N>> \in Slices(N) /\ <<1, N>>[1] = 1 /\ <<1, N>>[2] = N /\ 1 + N - 1 = N
  BY <1>1 DEF Slices
<1>5. Grown(trees, f, <<1, N>>)
  BY <1>1, <1>3, <1>4
<1> QED BY <1>2, <1>4, <1>5 DEF Grown
-----------------------------------------------------------------------------
(* The layouts a preset makes of a listing of leaves. *)
Row(seq, n) ==
  /\ n \in Nat \ {0} /\ Len(seq) = n /\ DOMAIN seq = 1 .. n
  /\ \A i \in 1 .. n : IsLeaf(seq[i])
  /\ \A i, j \in 1 .. n : seq[i] = seq[j] => i = j
Held(seq, n) == {seq[i] : i \in 1 .. n}

LEMMA SoundEvenLeaves ==
  ASSUME NEW seq, NEW n, Row(seq, n), NEW dir \in {"right", "down"}
  PROVE  Holds(EvenLeaves(seq, dir), Held(seq, n))
<1> DEFINE trees == [i \in DOMAIN seq |-> Leaf(seq[i])]
<1>1. EvenLeaves(seq, dir) = EvenTrees(trees, dir)
  BY DEF EvenLeaves
<1>2. n \in Nat \ {0} /\ DOMAIN seq = 1 .. n
  BY DEF Row
<1>3. Len(trees) = n /\ \A i \in 1 .. n : trees[i] = Leaf(seq[i])
  BY <1>2
<1> HIDE DEF trees
<1>4. \A i \in 1 .. n : Sound(trees[i]) /\ Labels(trees[i]) = {seq[i]}
  <2> SUFFICES ASSUME NEW i \in 1 .. n PROVE Sound(trees[i]) /\ Labels(trees[i]) = {seq[i]}
    OBVIOUS
  <2>1. IsLeaf(seq[i])
    BY DEF Row
  <2> QED BY <1>3, <2>1, SoundLeaf
<1>5. Grove(trees, n)
  BY <1>2, <1>3, <1>4 DEF Grove, Row
<1>6. LabelsIn(trees, 1, n) = Held(seq, n)
  BY <1>4 DEF LabelsIn, Held
<1>7. Sound(EvenTrees(trees, dir)) /\ Labels(EvenTrees(trees, dir)) = LabelsIn(trees, 1, n)
  BY <1>5, SoundEven, Zenon
<1> QED BY <1>1, <1>6, <1>7 DEF Holds

LEMMA SoundMainAnd ==
  ASSUME NEW seq, NEW n, Row(seq, n), NEW S, seq \in Seq(S),
         NEW mainDir \in {"right", "down"}, NEW restDir \in {"right", "down"}
  PROVE  Holds(MainAnd(seq, mainDir, restDir), Held(seq, n))
<1>1. n \in Nat \ {0} /\ Len(seq) = n /\ DOMAIN seq = 1 .. n /\ 1 \in 1 .. n /\ IsLeaf(seq[1])
  BY DEF Row
<1> DEFINE a == Leaf(seq[1])
<1>2. Sound(a) /\ Labels(a) = {seq[1]}
  BY <1>1, SoundLeaf
<1> HIDE DEF a
<1>3. CASE n = 1
  <2>1. MainAnd(seq, mainDir, restDir) = a
    BY <1>1, <1>3 DEF MainAnd, a
  <2>2. Held(seq, n) = {seq[1]}
    BY <1>3 DEF Held
  <2> QED BY <1>2, <2>1, <2>2 DEF Holds
<1>4. CASE n # 1
  <2> DEFINE rest == Tail(seq)
             b == EvenLeaves(rest, restDir)
  <2>1. MainAnd(seq, mainDir, restDir) = Branch(mainDir, MAIN_SHARE, a, b)
    BY <1>1, <1>4 DEF MainAnd, a
  <2>2. seq # <<>>
    BY <1>1
  <2>3. rest \in Seq(S) /\ Len(rest) = n - 1 /\ \A i \in 1 .. n - 1 : rest[i] = seq[i + 1]
    BY <1>1, <2>2, HeadTailProperties
  <2> HIDE DEF rest
  <2>4. DOMAIN rest = 1 .. n - 1 /\ n - 1 \in Nat \ {0}
    BY <1>1, <1>4, <2>3, LenProperties
  <2>5. \A i \in 1 .. n - 1 : i + 1 \in 1 .. n /\ i + 1 # 1
    BY <1>1
  <2>6. Row(rest, n - 1)
    <3>1. \A i \in 1 .. n - 1 : IsLeaf(rest[i])
      BY <2>3, <2>5 DEF Row
    <3>2. ASSUME NEW i \in 1 .. n - 1, NEW j \in 1 .. n - 1, rest[i] = rest[j] PROVE i = j
      <4>1. i + 1 = j + 1
        BY <2>3, <2>5, <3>2 DEF Row
      <4> QED BY <4>1
    <3> QED BY <2>3, <2>4, <3>1, <3>2 DEF Row
  <2>7. Sound(b) /\ Labels(b) = Held(rest, n - 1)
    <3>1. Holds(b, Held(rest, n - 1))
      BY <2>6, SoundEvenLeaves, Zenon
    <3> QED BY <3>1 DEF Holds
  <2> HIDE DEF b
  <2>8. Held(seq, n) = {seq[1]} \cup Held(rest, n - 1) /\ seq[1] \notin Held(rest, n - 1)
    <3>1. ASSUME NEW i \in 1 .. n PROVE seq[i] \in {seq[1]} \cup Held(rest, n - 1)
      <4>1. CASE i = 1
        BY <4>1
      <4>2. CASE i # 1
        <5>1. i - 1 \in 1 .. n - 1 /\ (i - 1) + 1 = i
          BY <1>1, <4>2
        <5>2. seq[i] = rest[i - 1]
          BY <2>3, <5>1
        <5> QED BY <5>1, <5>2 DEF Held
      <4> QED BY <4>1, <4>2
    <3>2. Held(rest, n - 1) \subseteq Held(seq, n)
      BY <2>3, <2>5 DEF Held
    <3>3. seq[1] \in Held(seq, n)
      BY <1>1 DEF Held
    <3>4. Held(seq, n) \subseteq {seq[1]} \cup Held(rest, n - 1)
      BY <3>1 DEF Held
    <3>5. \A i \in 1 .. n - 1 : rest[i] # seq[1]
      BY <1>1, <2>3, <2>5 DEF Row
    <3>6. seq[1] \notin Held(rest, n - 1)
      BY <3>5 DEF Held
    <3> QED BY <3>2, <3>3, <3>4, <3>6
  <2>9. MAIN_SHARE \in Int
    BY DEF MAIN_SHARE
  <2>10. Labels(a) \cap Labels(b) = {}
    BY <1>2, <2>7, <2>8
  <2>11. Holds(Branch(mainDir, MAIN_SHARE, a, b), Labels(a) \cup Labels(b))
    <3>1. Holds(a, Labels(a)) /\ Holds(b, Labels(b))
      BY <1>2, <2>7 DEF Holds
    <3>2. Joins(mainDir, MAIN_SHARE, Labels(a), Labels(b))
      BY <2>9, <2>10 DEF Joins
    <3> QED BY <3>1, <3>2, HoldsBranch, Zenon
  <2> QED BY <1>2, <2>1, <2>7, <2>8, <2>11 DEF Holds
<1> QED BY <1>3, <1>4
-------------------------------------------------------------------------------
LEMMA Products ==
  /\ \A a, b \in Nat : a * b \in Nat
  /\ \A a, b, c \in Nat : a <= b => a * c <= b * c
  /\ \A a, c \in Nat : (a + 1) * c = a * c + c
  /\ \A a \in Nat \ {0} : a <= a * a
<1>1. \A a, b \in Nat : a * b \in Nat
  OBVIOUS
<1>2. ASSUME NEW a \in Nat, NEW b \in Nat, NEW c \in Nat, a <= b PROVE a * c <= b * c
  <2>1. b - a \in Nat /\ (b - a) * c \in Nat
    BY <1>1, <1>2
  <2>2. (b - a) * c = b * c - a * c
    OBVIOUS
  <2> QED BY <1>1, <2>1, <2>2
<1>3. \A a, c \in Nat : (a + 1) * c = a * c + c
  OBVIOUS
<1>4. ASSUME NEW a \in Nat \ {0} PROVE a <= a * a
  <2>1. 1 * a <= a * a
    BY <1>2
  <2> QED BY <2>1
<1> QED BY <1>1, <1>2, <1>3, <1>4

LEMMA Quotient ==
  ASSUME NEW a \in Nat, NEW b \in Nat \ {0}
  PROVE  /\ a \div b \in Nat
         /\ (a \div b) * b <= a /\ a < (a \div b) * b + b
OBVIOUS

Columns(n) == CHOOSE c \in 1 .. n : c * c >= n /\ \A d \in 1 .. c - 1 : d * d < n

LEMMA ColumnsIn ==
  ASSUME NEW n \in Nat \ {0}
  PROVE  Columns(n) \in 1 .. n
<1> DEFINE T == {c \in Nat : c \in 1 .. n /\ c * c >= n}
<1>1. T \subseteq Nat /\ n \in T
  BY Products
<1> HIDE DEF T
<1>2. PICK m \in T : \A k \in T : m <= k
  BY <1>1, LeastNatural
<1>3. m \in 1 .. n /\ m * m >= n
  BY <1>2 DEF T
<1>4. ASSUME NEW d \in 1 .. m - 1 PROVE d * d < n
  <2>1. d \in Nat /\ d \in 1 .. n /\ d < m
    BY <1>3
  <2>2. d \notin T
    BY <1>2, <1>3, <2>1
  <2>3. ~(d * d >= n) /\ d * d \in Nat
    BY <2>1, <2>2, Products DEF T
  <2> QED BY <2>3
<1>5. \E c \in 1 .. n : c * c >= n /\ \A d \in 1 .. c - 1 : d * d < n
  BY <1>3, <1>4
<1> QED BY <1>5 DEF Columns

\* The rows of n places in columns c: where the places of row r begin and end.
From(c, r) == (r - 1) * c + 1
Upto(n, c, r) == IF r * c > n THEN n ELSE r * c
RowCount(n, c) == (n + c - 1) \div c

LEMMA RowPlaces ==
  ASSUME NEW n \in Nat \ {0}, NEW c \in 1 .. n
  PROVE  /\ RowCount(n, c) \in Nat \ {0}
         /\ \A r \in 1 .. RowCount(n, c) :
              From(c, r) \in 1 .. n /\ Upto(n, c, r) \in 1 .. n /\ From(c, r) <= Upto(n, c, r)
         /\ \A k \in 1 .. n : \E r \in 1 .. RowCount(n, c) : k \in From(c, r) .. Upto(n, c, r)
         /\ \A q, r \in 1 .. RowCount(n, c) : q < r => Upto(n, c, q) < From(c, r)
<1> DEFINE m == RowCount(n, c)
<1>1. c \in Nat \ {0} /\ n + c - 1 \in Nat
  OBVIOUS
<1>2. m \in Nat /\ m * c <= n + c - 1 /\ n + c - 1 < m * c + c
  BY <1>1, Quotient DEF RowCount
<1> HIDE DEF m
<1>3. m # 0
  <2> SUFFICES ASSUME m = 0 PROVE FALSE
    OBVIOUS
  <2>1. m * c = 0
    OBVIOUS
  <2> QED BY <1>1, <1>2, <2>1
<1>4. ASSUME NEW r \in 1 .. m
      PROVE  (r - 1) * c \in Nat /\ r * c = (r - 1) * c + c /\ r * c <= m * c /\ r * c \in Nat /\ m * c \in Nat
  <2>1. r - 1 \in Nat /\ r \in Nat /\ r <= m /\ (r - 1) + 1 = r
    BY <1>2
  <2> QED BY <1>1, <1>2, <2>1, Products
<1>5. ASSUME NEW r \in 1 .. m
      PROVE  From(c, r) \in 1 .. n /\ Upto(n, c, r) \in 1 .. n /\ From(c, r) <= Upto(n, c, r)
  BY <1>1, <1>2, <1>4 DEF From, Upto
<1>6. ASSUME NEW k \in 1 .. n PROVE \E r \in 1 .. m : k \in From(c, r) .. Upto(n, c, r)
  <2> DEFINE q == (k - 1) \div c
  <2>1. q \in Nat /\ q * c <= k - 1 /\ k - 1 < q * c + c
    BY <1>1, Quotient
  <2> HIDE DEF q
  <2>2. q * c \in Nat /\ (q + 1) * c = q * c + c /\ (q + 1) - 1 = q
    BY <1>1, <2>1, Products
  <2>3. q + 1 \in 1 .. m
    <3> SUFFICES ASSUME m <= q PROVE FALSE
      BY <1>2, <2>1
    <3>1. m * c <= q * c
      BY <1>1, <1>2, <2>1, Products
    <3> QED BY <1>1, <1>2, <2>1, <2>2, <3>1
  <2>4. From(c, q + 1) = q * c + 1
    BY <2>2 DEF From
  <2>5. Upto(n, c, q + 1) = IF q * c + c > n THEN n ELSE q * c + c
    BY <2>2 DEF Upto
  <2>6. k \in From(c, q + 1) .. Upto(n, c, q + 1)
    BY <1>1, <2>1, <2>2, <2>4, <2>5
  <2> QED BY <2>3, <2>6
<1>7. ASSUME NEW q \in 1 .. m, NEW r \in 1 .. m, q < r PROVE Upto(n, c, q) < From(c, r)
  <2>1. q <= r - 1 /\ q \in Nat /\ r - 1 \in Nat
    BY <1>2, <1>7
  <2>2. q * c <= (r - 1) * c
    BY <1>1, <2>1, Products
  <2>3. Upto(n, c, q) <= q * c
    BY <1>4 DEF Upto
  <2>4. Upto(n, c, q) \in 1 .. n
    BY <1>5
  <2> QED BY <1>4, <2>2, <2>3, <2>4 DEF From
<1> QED BY <1>2, <1>3, <1>5, <1>6, <1>7 DEF m

LEMMA RowPart ==
  ASSUME NEW seq, NEW n, Row(seq, n), NEW a \in 1 .. n, NEW b \in 1 .. n, a <= b
  PROVE  /\ Row(SubSeq(seq, a, b), b - a + 1)
         /\ Held(SubSeq(seq, a, b), b - a + 1) = {seq[k] : k \in a .. b}
<1> DEFINE S == {seq[k] : k \in 1 .. n}
           part == SubSeq(seq, a, b)
           m == b - a + 1
<1>1. n \in Nat /\ m \in Nat \ {0} /\ \A i \in a .. b : seq[i] \in S
  BY DEF Row
<1>2. part \in Seq(S) /\ Len(part) = m /\ \A i \in 1 .. m : part[i] = seq[a + i - 1]
  BY <1>1, SubSeqProperties
<1> HIDE DEF part
<1>3. DOMAIN part = 1 .. m
  BY <1>2, LenProperties
<1>4. \A i \in 1 .. m : a + i - 1 \in 1 .. n /\ a + i - 1 \in a .. b
  BY <1>1
<1>5. \A i \in 1 .. m : IsLeaf(part[i])
  BY <1>2, <1>4 DEF Row
<1>6. ASSUME NEW i \in 1 .. m, NEW j \in 1 .. m, part[i] = part[j] PROVE i = j
  <2>1. a + i - 1 = a + j - 1
    BY <1>2, <1>4, <1>6 DEF Row
  <2> QED BY <1>1, <2>1
<1>7. Row(part, m)
  BY <1>1, <1>2, <1>3, <1>5, <1>6 DEF Row
<1>8. Held(part, m) \subseteq {seq[k] : k \in a .. b}
  BY <1>2, <1>4 DEF Held
<1>9. ASSUME NEW k \in a .. b PROVE seq[k] \in Held(part, m)
  <2>1. k - a + 1 \in 1 .. m /\ a + (k - a + 1) - 1 = k
    BY <1>1
  <2>2. part[k - a + 1] = seq[k]
    BY <1>2, <2>1
  <2> QED BY <2>1, <2>2 DEF Held
<1> HIDE DEF m
<1>10. Held(part, m) = {seq[k] : k \in a .. b}
  BY <1>8, <1>9
<1> QED BY <1>7, <1>10 DEF part, m
-------------------------------------------------------------------------------
LEMMA TiledIs ==
  ASSUME NEW seq
  PROVE  LET n == Len(seq)
             c == Columns(n)
         IN Tiled(seq) = EvenTrees([r \in 1 .. RowCount(n, c) |->
                           EvenLeaves(SubSeq(seq, From(c, r), Upto(n, c, r)), "right")], "down")
BY DEF Tiled, Columns, RowCount, From, Upto

LEMMA SoundTiled ==
  ASSUME NEW seq, NEW n, Row(seq, n)
  PROVE  Holds(Tiled(seq), Held(seq, n))
<1> DEFINE c == Columns(n)
           m == RowCount(n, c)
           part(r) == SubSeq(seq, From(c, r), Upto(n, c, r))
           trees == [r \in 1 .. m |-> EvenLeaves(part(r), "right")]
           Span(r) == {seq[k] : k \in From(c, r) .. Upto(n, c, r)}
<1>1. n \in Nat \ {0} /\ Len(seq) = n
  BY DEF Row
<1>2. c \in 1 .. n
  BY <1>1, ColumnsIn
<1>3. Tiled(seq) = EvenTrees(trees, "down")
  BY <1>1, TiledIs
<1> HIDE DEF c
<1>4. /\ m \in Nat \ {0}
      /\ \A r \in 1 .. m : From(c, r) \in 1 .. n /\ Upto(n, c, r) \in 1 .. n /\ From(c, r) <= Upto(n, c, r)
      /\ \A k \in 1 .. n : \E r \in 1 .. m : k \in From(c, r) .. Upto(n, c, r)
      /\ \A q, r \in 1 .. m : q < r => Upto(n, c, q) < From(c, r)
  BY <1>1, <1>2, RowPlaces
<1> HIDE DEF m
<1>5. ASSUME NEW r \in 1 .. m PROVE Sound(trees[r]) /\ Labels(trees[r]) = Span(r)
  <2> DEFINE a == From(c, r)
             b == Upto(n, c, r)
             S == Held(part(r), b - a + 1)
  <2>1. a \in 1 .. n /\ b \in 1 .. n /\ a <= b
    BY <1>4
  <2> HIDE DEF a, b
  <2>2. /\ Row(SubSeq(seq, a, b), b - a + 1)
        /\ Held(SubSeq(seq, a, b), b - a + 1) = {seq[k] : k \in a .. b}
    BY <2>1, RowPart
  <2>3. Holds(EvenLeaves(SubSeq(seq, a, b), "right"), Held(SubSeq(seq, a, b), b - a + 1))
    BY <2>2, SoundEvenLeaves
  <2>4. trees[r] = EvenLeaves(SubSeq(seq, a, b), "right")
    BY DEF a, b
  <2>5. Span(r) = {seq[k] : k \in a .. b}
    BY DEF a, b
  <2> QED BY <2>2, <2>3, <2>4, <2>5 DEF Holds
<1>6. ASSUME NEW q \in 1 .. m, NEW r \in 1 .. m, q < r PROVE Span(q) \cap Span(r) = {}
  <2> SUFFICES ASSUME NEW i \in From(c, q) .. Upto(n, c, q), NEW j \in From(c, r) .. Upto(n, c, r), seq[i] = seq[j]
               PROVE  FALSE
    OBVIOUS
  <2>2. /\ From(c, q) \in 1 .. n /\ Upto(n, c, q) \in 1 .. n
        /\ From(c, r) \in 1 .. n /\ Upto(n, c, r) \in 1 .. n
        /\ Upto(n, c, q) < From(c, r)
    BY <1>4, <1>6
  <2>1. i \in 1 .. n /\ j \in 1 .. n /\ i < j
    BY <1>1, <2>2
  <2> QED BY <1>1, <2>1 DEF Row
<1>7. ASSUME NEW q \in 1 .. m, NEW r \in 1 .. m, q # r PROVE Span(q) \cap Span(r) = {}
  <2>1. q < r \/ r < q
    BY <1>4, <1>7
  <2> QED BY <1>6, <2>1
<1>8. Len(trees) = m
  BY <1>4
<1>9. UNION {Span(r) : r \in 1 .. m} = Held(seq, n)
  <2>1. ASSUME NEW r \in 1 .. m PROVE Span(r) \subseteq Held(seq, n)
    <3>2. From(c, r) \in 1 .. n /\ Upto(n, c, r) \in 1 .. n
      BY <1>4
    <3>1. From(c, r) .. Upto(n, c, r) \subseteq 1 .. n
      BY <1>1, <3>2
    <3> QED BY <3>1 DEF Held
  <2>2. ASSUME NEW k \in 1 .. n PROVE \E r \in 1 .. m : seq[k] \in Span(r)
    BY <1>4
  <2> HIDE DEF Span
  <2> QED BY <2>1, <2>2 DEF Held
<1> HIDE DEF trees, Span
<1>10. Grove(trees, m)
  BY <1>4, <1>5, <1>7, <1>8 DEF Grove
<1>11. LabelsIn(trees, 1, m) = Held(seq, n)
  BY <1>5, <1>9 DEF LabelsIn
<1>12. Sound(EvenTrees(trees, "down")) /\ Labels(EvenTrees(trees, "down")) = LabelsIn(trees, 1, m)
  BY <1>10, SoundEven
<1> QED BY <1>3, <1>11, <1>12 DEF Holds

LEMMA RowListed ==
  ASSUME NEW S, NEW seq, Listing(seq, S), seq # <<>>
  PROVE  Row(seq, Len(seq)) /\ Held(seq, Len(seq)) = S /\ seq \in Seq(S)
<1> DEFINE n == Len(seq)
<1>1. seq \in Seq(S) /\ n \in Nat \ {0} /\ DOMAIN seq = 1 .. n /\ \A i \in 1 .. n : seq[i] \in S
  BY LenProperties, EmptySeq, ElementOfSeq DEF Listing
<1>2. Row(seq, n)
  BY <1>1 DEF Row, Listing
<1>3. Held(seq, n) = S
  BY <1>1 DEF Held, Listing
<1> QED BY <1>1, <1>2, <1>3

LEMMA SoundPreset ==
  ASSUME NEW t, Sound(t), NEW preset
  PROVE  Holds(Preset(Leaves(t), preset), Labels(t))
<1> DEFINE seq == Leaves(t)
           n == Len(seq)
<1>1. Row(seq, n) /\ Held(seq, n) = Labels(t) /\ seq \in Seq(Labels(t))
  BY LeavesListed, RowListed
<1> HIDE DEF seq, n
<1>2. \A dir \in {"right", "down"} : Holds(EvenLeaves(seq, dir), Labels(t))
  BY <1>1, SoundEvenLeaves
<1>3. \A dir, other \in {"right", "down"} : Holds(MainAnd(seq, dir, other), Labels(t))
  BY <1>1, SoundMainAnd
<1>4. Holds(Tiled(seq), Labels(t))
  BY <1>1, SoundTiled
<1>5. \/ Preset(seq, preset) = EvenLeaves(seq, "right") \/ Preset(seq, preset) = EvenLeaves(seq, "down")
      \/ Preset(seq, preset) = MainAnd(seq, "down", "right") \/ Preset(seq, preset) = MainAnd(seq, "right", "down")
      \/ Preset(seq, preset) = Tiled(seq)
  BY DEF Preset
<1>6. Holds(Preset(seq, preset), Labels(t))
  BY <1>2, <1>3, <1>4, <1>5
<1> QED BY <1>6 DEF seq
-------------------------------------------------------------------------------
LEMMA RuleIsNoLeaf ==
  ASSUME NEW n \in Rule
  PROVE  ~IsLeaf(n) /\ n.dir \in {"right", "down"} /\ n.ratio \in Int
         /\ \A r \in Int : [n EXCEPT !.ratio = r] \in Rule
<1>1. DOMAIN n = {"dir", "ratio"}
  BY DEF Rule
<1>2. n.dir \in {"right", "down"} /\ n.ratio \in Int
  BY DEF Rule
<1>3. \A r \in Int : [n EXCEPT !.ratio = r] \in Rule
  BY DEF Rule
<1> QED BY <1>1, <1>2, <1>3 DEF IsLeaf

\* Other ratios at the branches leave the leaves where they are.
Redivides(u, t) ==
  /\ u = [p \in DOMAIN t |-> u[p]]
  /\ \A p \in LeafPaths(t) : u[p] = t[p]
  /\ \A p \in BranchPaths(t) : u[p] \in Rule

LEMMA SoundRedivided ==
  ASSUME NEW t, Sound(t), NEW u, Redivides(u, t)
  PROVE  Holds(u, Labels(t))
<1>1. IsTree(t) /\ OneEach(t)
  BY DEF Sound
<1>2. /\ u = [p \in DOMAIN t |-> u[p]]
      /\ \A p \in LeafPaths(t) : u[p] = t[p]
      /\ \A p \in BranchPaths(t) : u[p] \in Rule
  BY DEF Redivides
<1>3. ASSUME NEW p \in DOMAIN t PROVE IsLeaf(u[p]) <=> IsLeaf(t[p])
  <2>1. CASE p \in LeafPaths(t)
    BY <1>2, <2>1
  <2>2. CASE p \in BranchPaths(t)
    BY <1>1, <1>2, <2>2, RuleIsNoLeaf, TreePaths
  <2> QED BY <2>1, <2>2 DEF BranchPaths
<1>4. IsTree(u) /\ LeafPaths(u) = LeafPaths(t) /\ BranchPaths(u) = BranchPaths(t)
  BY <1>1, <1>2, <1>3, SameTree
<1>5. OneEach(u) /\ Ruled(u)
  BY <1>1, <1>2, <1>4 DEF OneEach, Ruled
<1>6. Labels(u) = Labels(t)
  BY <1>2, <1>4 DEF Labels
<1> QED BY <1>4, <1>5, <1>6 DEF Sound, Holds

LEMMA NudgedInt ==
  ASSUME NEW ratio \in Int, NEW up
  PROVE  Nudged(ratio, up) \in Int
BY StepAssumption DEF Nudged, LOWEST, HIGHEST

LEMMA ClampedInt ==
  ASSUME NEW ratio \in Int
  PROVE  Clamped(ratio) \in Int
BY DEF Clamped, LOWEST, HIGHEST

\* One branch gets another ratio.
LEMMA SoundOneRatio ==
  ASSUME NEW t, Sound(t), NEW q \in BranchPaths(t), NEW r \in Int
  PROVE  Holds([t EXCEPT ![q].ratio = r], Labels(t))
<1> DEFINE u == [t EXCEPT ![q].ratio = r]
<1>1. IsTree(t) /\ \A p \in BranchPaths(t) : t[p] \in Rule
  BY DEF Sound, Ruled
<1>2. q \in DOMAIN t /\ q \notin LeafPaths(t) /\ t = [p \in DOMAIN t |-> t[p]]
  BY <1>1 DEF BranchPaths, IsTree
<1>3. u = [p \in DOMAIN t |-> IF p = q THEN [t[q] EXCEPT !.ratio = r] ELSE t[p]]
  BY <1>2
<1> HIDE DEF u
<1>4. u = [p \in DOMAIN t |-> u[p]]
  BY <1>3
<1>5. \A p \in LeafPaths(t) : u[p] = t[p]
  BY <1>2, <1>3 DEF LeafPaths
<1>6. [t[q] EXCEPT !.ratio = r] \in Rule
  BY <1>1, RuleIsNoLeaf
<1>7. ASSUME NEW p \in BranchPaths(t) PROVE u[p] \in Rule
  BY <1>1, <1>3, <1>6 DEF BranchPaths
<1>8. Redivides(u, t)
  BY <1>4, <1>5, <1>7 DEF Redivides
<1>9. Holds(u, Labels(t))
  BY <1>8, SoundRedivided
<1> QED BY <1>9 DEF u

\* Of paths no longer than a number one is the longest.
LEMMA FarthestOf ==
  ASSUME NEW M, M # {}, NEW n \in Nat, \A q \in M : Len(q) \in 0 .. n
  PROVE  \E q \in M : \A r \in M : Len(r) <= Len(q)
<1> DEFINE f == [q \in M |-> Len(q)]
           L == {f[q] : q \in M}
<1>2. L \subseteq Nat /\ L # {}
  OBVIOUS
<1> DEFINE B == {m \in Nat : \A k \in L : k <= m}
<1>3. \A k \in L : k <= n
  OBVIOUS
<1>4. n \in B /\ B \subseteq Nat
  BY <1>3
<1> HIDE DEF B
<1>5. PICK m \in B : \A k \in B : m <= k
  BY <1>4, LeastNatural
<1>6. m \in Nat /\ \A k \in L : k <= m
  BY <1>5 DEF B
<1>7. m \in L
  <2> SUFFICES ASSUME m \notin L PROVE FALSE
    OBVIOUS
  <2> HIDE DEF L
  <2>1. PICK k \in L : TRUE
    BY <1>2
  <2>2. k \in Nat /\ k <= m /\ k # m
    BY <1>2, <1>6, <2>1
  <2>3. m - 1 \in Nat
    BY <1>6, <2>2
  <2>4. ASSUME NEW j \in L PROVE j <= m - 1
    <3>1. j \in Nat /\ j <= m /\ j # m
      BY <1>2, <1>6
    <3> QED BY <1>6, <3>1
  <2>5. m - 1 \in B
    BY <2>3, <2>4 DEF B
  <2>6. m <= m - 1
    BY <1>5, <2>5
  <2> QED BY <1>6, <2>6
<1> QED BY <1>6, <1>7

LEMMA SoundSame ==
  ASSUME NEW t, Sound(t)
  PROVE  Holds(t, Labels(t))
BY DEF Holds

LEMMA SoundSetRatio ==
  ASSUME NEW t, Sound(t), NEW path, NEW want \in Int
  PROVE  Holds(SetRatioAt(t, path, want), Labels(t))
<1>1. CASE path \in BranchPaths(t)
  <2>1. SetRatioAt(t, path, want) = [t EXCEPT ![path].ratio = Clamped(want)]
    BY <1>1 DEF SetRatioAt
  <2> QED BY <1>1, <2>1, ClampedInt, SoundOneRatio
<1>2. CASE path \notin BranchPaths(t)
  BY <1>2, SoundSame DEF SetRatioAt
<1> QED BY <1>1, <1>2

LEMMA SoundResize ==
  ASSUME NEW t, Sound(t), NEW pane \in Panes(t), NEW axis, NEW grow
  PROVE  Holds(Resize(t, pane, axis, grow), Labels(t))
<1> DEFINE p == PathOf(t, pane)
           New(q) == Nudged(t[q].ratio, (p[Len(q) + 1] = 0) = grow)
           movable == {q \in BranchPaths(t) : IsStrictPrefix(q, p) /\ t[q].dir = axis /\ New(q) # t[q].ratio}
           deepest == CHOOSE q \in movable : \A r \in movable : Len(r) <= Len(q)
<1>1. Resize(t, pane, axis, grow) = IF movable = {} THEN t ELSE [t EXCEPT ![deepest].ratio = New(deepest)]
  BY DEF Resize
<1>2. CASE movable = {}
  BY <1>1, <1>2, SoundSame
<1>3. CASE movable # {}
  <2>1. IsTree(t) /\ \A q \in BranchPaths(t) : t[q] \in Rule
    BY DEF Sound, Ruled
  <2> DEFINE lengths == {Len(q) : q \in movable}
  <2>2. \E q \in movable : \A r \in movable : Len(r) <= Len(q)
    <3>1. p \in Paths /\ Len(p) \in Nat
      BY <2>1, PathOfIs, TreePaths, EndEmpty
    <3>2. \A q \in movable : q \in Paths /\ IsPrefix(q, p)
      BY <2>1, TreePaths DEF IsStrictPrefix
    <3> HIDE DEF movable, p
    <3>3. ASSUME NEW q \in movable PROVE Len(q) \in 0 .. Len(p)
      <4>1. q \in Paths /\ Len(q) \in Nat
        BY <3>2, EndEmpty
      <4>2. Len(q) <= Len(p)
        BY <3>2 DEF IsPrefix
      <4> QED BY <3>1, <4>1, <4>2
    <3> QED BY <3>1, <3>3, <1>3, FarthestOf
  <2>3. deepest \in movable
    BY <2>2
  <2>4. deepest \in BranchPaths(t)
    BY <2>3
  <2>5. New(deepest) \in Int
    BY <2>1, <2>4, RuleIsNoLeaf, NudgedInt
  <2> HIDE DEF deepest
  <2>6. Holds([t EXCEPT ![deepest].ratio = New(deepest)], Labels(t))
    BY <2>4, <2>5, SoundOneRatio
  <2> QED BY <1>1, <1>3, <2>6
<1> QED BY <1>2, <1>3
-------------------------------------------------------------------------------
(* How many panes each subtree lines up: the recursion of SlotsAlong. *)
SlotStep(t, dir, f, p) ==
  IF IsLeaf(t[p]) THEN 1
  ELSE IF t[p].dir = dir THEN f[Cat(p, One(0))] + f[Cat(p, One(1))]
  ELSE IF f[Cat(p, One(0))] > f[Cat(p, One(1))] THEN f[Cat(p, One(0))] ELSE f[Cat(p, One(1))]

\* As far as subtrees of m paths, some function is what the recursion says.
SlotsUpTo(t, dir, f, m) ==
  /\ f = [p \in DOMAIN t |-> f[p]]
  /\ \A p \in DOMAIN t : Size(t, p) <= m => f[p] = SlotStep(t, dir, f, p)

LEMMA SlotsGoOn ==
  ASSUME NEW t, IsTree(t), NEW dir, NEW m \in Nat, NEW f, SlotsUpTo(t, dir, f, m)
  PROVE  \E g : SlotsUpTo(t, dir, g, m + 1)
<1> DEFINE g == [p \in DOMAIN t |-> IF Size(t, p) <= m THEN f[p] ELSE SlotStep(t, dir, f, p)]
<1>1. g = [p \in DOMAIN t |-> g[p]]
  OBVIOUS
<1>2. \A p \in DOMAIN t : g[p] = IF Size(t, p) <= m THEN f[p] ELSE SlotStep(t, dir, f, p)
  OBVIOUS
<1> HIDE DEF g
<1>3. ASSUME NEW p \in DOMAIN t, Size(t, p) <= m + 1 PROVE g[p] = SlotStep(t, dir, g, p)
  <2>1. SlotStep(t, dir, g, p) = SlotStep(t, dir, f, p)
    <3>1. CASE IsLeaf(t[p])
      BY <3>1 DEF SlotStep
    <3>2. CASE ~IsLeaf(t[p])
      <4> DEFINE a == Cat(p, One(0))
                 b == Cat(p, One(1))
      <4>1. p \in BranchPaths(t)
        BY <3>2, TreePaths
      <4>2. a \in DOMAIN t /\ b \in DOMAIN t
        BY <4>1, TreeWalk
      <4>3. Size(t, a) \in Nat /\ Size(t, b) \in Nat /\ Size(t, p) \in Nat
        BY <4>2, SizeFalls
      <4>4. Size(t, a) < Size(t, p) /\ Size(t, b) < Size(t, p)
        BY <4>1, SizeFalls
      <4>5. Size(t, a) <= m /\ Size(t, b) <= m
        BY <1>3, <4>3, <4>4
      <4>6. g[a] = f[a] /\ g[b] = f[b]
        BY <1>2, <4>2, <4>5
      <4> QED BY <4>6 DEF SlotStep
    <3> QED BY <3>1, <3>2
  <2>2. CASE Size(t, p) <= m
    BY <1>2, <2>1, <2>2 DEF SlotsUpTo
  <2>3. CASE ~(Size(t, p) <= m)
    BY <1>2, <2>1, <2>3
  <2> QED BY <2>2, <2>3
<1>4. SlotsUpTo(t, dir, g, m + 1)
  BY <1>1, <1>3 DEF SlotsUpTo
<1> QED BY <1>4

LEMMA SizePositive ==
  ASSUME NEW t, IsTree(t), NEW p \in DOMAIN t
  PROVE  Size(t, p) \in Nat /\ ~(Size(t, p) <= 0)
<1>1. IsFiniteSet(Below(t, p)) /\ Size(t, p) \in Nat
  <2>1. IsFiniteSet(DOMAIN t) /\ Below(t, p) \subseteq DOMAIN t
    BY TreeWalk DEF Below
  <2> QED BY <2>1, FS_Subset, FS_CardinalityType DEF Size
<1>2. p \in Paths
  BY TreeWalk
<1>3. p \o <<>> = p /\ <<>> \in Paths
  BY <1>2, EndEmpty
<1>4. IsPrefix(p, p)
  BY <1>2, <1>3, PrefixOf
<1>5. p \in Below(t, p)
  BY <1>4 DEF Below
<1>6. Size(t, p) # 0
  BY <1>1, <1>5, FS_EmptySet DEF Size
<1> QED BY <1>1, <1>6

LEMMA SlotsExist ==
  ASSUME NEW t, IsTree(t), NEW dir
  PROVE  \E f : f = [p \in DOMAIN t |-> SlotStep(t, dir, f, p)]
<1> DEFINE T == {m \in Nat : ~\E f : SlotsUpTo(t, dir, f, m)}
<1>1. T = {}
  <2> SUFFICES ASSUME T # {} PROVE FALSE
    OBVIOUS
  <2>1. T \subseteq Nat
    OBVIOUS
  <2> HIDE DEF T
  <2>2. PICK m \in T : \A k \in T : m <= k
    BY <2>1, LeastNatural
  <2>3. m \in Nat
    BY <2>1
  <2>4. CASE m = 0
    <3> DEFINE f == [p \in DOMAIN t |-> 0]
    <3>1. f = [p \in DOMAIN t |-> f[p]]
      OBVIOUS
    <3>2. \A p \in DOMAIN t : ~(Size(t, p) <= 0)
      BY SizePositive
    <3> HIDE DEF f
    <3>3. SlotsUpTo(t, dir, f, 0)
      BY <3>1, <3>2 DEF SlotsUpTo
    <3> QED BY <2>2, <2>4, <3>3 DEF T
  <2>5. CASE m # 0
    <3>1. m - 1 \in Nat /\ ~(m <= m - 1) /\ (m - 1) + 1 = m
      BY <2>3, <2>5
    <3>2. m - 1 \notin T
      BY <2>2, <3>1
    <3>3. PICK f : SlotsUpTo(t, dir, f, m - 1)
      BY <3>1, <3>2 DEF T
    <3>4. \E g : SlotsUpTo(t, dir, g, (m - 1) + 1)
      BY <3>1, <3>3, SlotsGoOn
    <3>5. \E g : SlotsUpTo(t, dir, g, m)
      BY <3>1, <3>4
    <3> QED BY <2>2, <3>5 DEF T
  <2> QED BY <2>4, <2>5
<1> DEFINE n == Cardinality(DOMAIN t)
<1>2. n \in Nat /\ \A p \in DOMAIN t : Size(t, p) <= n
  <2>1. IsFiniteSet(DOMAIN t)
    BY TreeWalk
  <2>2. \A p \in DOMAIN t : Below(t, p) \subseteq DOMAIN t
    BY DEF Below
  <2> QED BY <2>1, <2>2, FS_Subset, FS_CardinalityType DEF Size
<1> HIDE DEF n
<1>3. PICK f : SlotsUpTo(t, dir, f, n)
  BY <1>1, <1>2
<1>4. \A p \in DOMAIN t : f[p] = SlotStep(t, dir, f, p)
  BY <1>2, <1>3 DEF SlotsUpTo
<1>5. f = [p \in DOMAIN t |-> f[p]]
  BY <1>3 DEF SlotsUpTo
<1>6. f = [p \in DOMAIN t |-> SlotStep(t, dir, f, p)]
  BY <1>4, <1>5
<1> QED BY <1>6

LEMMA SlotsAre ==
  ASSUME NEW t, IsTree(t), NEW dir, NEW F, F = SlotsAlong(t, dir)
  PROVE  F = [p \in DOMAIN t |-> SlotStep(t, dir, F, p)]
<1> DEFINE G == CHOOSE f : f = [p \in DOMAIN t |-> SlotStep(t, dir, f, p)]
<1>1. G = [p \in DOMAIN t |-> SlotStep(t, dir, G, p)]
  <2>1. \E f : f = [p \in DOMAIN t |-> SlotStep(t, dir, f, p)]
    BY SlotsExist
  <2> QED BY <2>1
<1>2. F = G
  BY Zenon DEF SlotsAlong, SlotStep, Cat, One
<1> QED BY <1>1, <1>2

LEMMA SlotsPositive ==
  ASSUME NEW t, IsTree(t), NEW dir
  PROVE  \A p \in DOMAIN t : SlotsAlong(t, dir)[p] \in Nat \ {0}
<1> DEFINE F == SlotsAlong(t, dir)
           T == {m \in Nat : \E p \in DOMAIN t : Size(t, p) = m /\ F[p] \notin Nat \ {0}}
<1>1. \A p \in DOMAIN t : F[p] = SlotStep(t, dir, F, p)
  <2>1. F = [p \in DOMAIN t |-> SlotStep(t, dir, F, p)]
    BY SlotsAre
  <2> HIDE DEF F
  <2> QED BY <2>1
<1> HIDE DEF F
<1>2. T = {}
  <2> SUFFICES ASSUME T # {} PROVE FALSE
    OBVIOUS
  <2>1. T \subseteq Nat
    OBVIOUS
  <2> HIDE DEF T
  <2>2. PICK m \in T : \A k \in T : m <= k
    BY <2>1, LeastNatural
  <2>3. PICK p \in DOMAIN t : Size(t, p) = m /\ F[p] \notin Nat \ {0}
    BY <2>2 DEF T
  <2>4. CASE IsLeaf(t[p])
    BY <1>1, <2>3, <2>4 DEF SlotStep
  <2>5. CASE ~IsLeaf(t[p])
    <3> DEFINE a == Cat(p, One(0))
               b == Cat(p, One(1))
    <3>1. p \in BranchPaths(t)
      BY <2>5, TreePaths
    <3>2. a \in DOMAIN t /\ b \in DOMAIN t
      BY <3>1, TreeWalk
    <3>3. Size(t, a) \in Nat /\ Size(t, b) \in Nat /\ Size(t, p) \in Nat
      BY <3>2, SizeFalls
    <3>4. Size(t, a) < Size(t, p) /\ Size(t, b) < Size(t, p)
      BY <3>1, SizeFalls
    <3>5. Size(t, a) \notin T /\ Size(t, b) \notin T
      BY <2>2, <2>3, <3>3, <3>4
    <3>6. F[a] \in Nat \ {0} /\ F[b] \in Nat \ {0}
      BY <3>2, <3>3, <3>5 DEF T
    <3>7. F[p] = IF t[p].dir = dir THEN F[a] + F[b] ELSE IF F[a] > F[b] THEN F[a] ELSE F[b]
      BY <1>1, <2>5 DEF SlotStep
    <3> HIDE DEF a, b
    <3> QED BY <2>3, <3>6, <3>7
  <2> QED BY <2>4, <2>5
<1>3. ASSUME NEW p \in DOMAIN t PROVE F[p] \in Nat \ {0}
  <2>1. Size(t, p) \in Nat
    BY SizeFalls
  <2> QED BY <1>2, <2>1
<1> QED BY <1>3 DEF F

LEMMA ShareInt ==
  ASSUME NEW a \in Nat \ {0}, NEW b \in Nat \ {0}
  PROVE  (UNIT * a) \div (a + b) \in Int
<1>1. UNIT * a \in Nat /\ a + b \in Nat \ {0}
  BY DEF UNIT
<1> QED BY <1>1, Quotient

LEMMA SoundSpread ==
  ASSUME NEW t, Sound(t)
  PROVE  Holds(Spread(t), Labels(t))
<1>1. IsTree(t) /\ \A p \in BranchPaths(t) : t[p] \in Rule
  BY DEF Sound, Ruled
<1> DEFINE u == Spread(t)
           slots(p) == SlotsAlong(t, t[p].dir)
<1>2. u = [p \in DOMAIN t |-> IF IsLeaf(t[p]) THEN t[p]
            ELSE [t[p] EXCEPT !.ratio = (UNIT * slots(p)[Cat(p, One(0))]) \div
                                        (slots(p)[Cat(p, One(0))] + slots(p)[Cat(p, One(1))])]]
  BY Zenon DEF Spread, Cat, One
<1> HIDE DEF u
<1>3. ASSUME NEW p \in BranchPaths(t) PROVE u[p] \in Rule
  <2> DEFINE a == slots(p)[Cat(p, One(0))]
             b == slots(p)[Cat(p, One(1))]
  <2>1. p \in DOMAIN t /\ ~IsLeaf(t[p]) /\ t[p] \in Rule
    BY <1>1, TreePaths
  <2>2. Cat(p, One(0)) \in DOMAIN t /\ Cat(p, One(1)) \in DOMAIN t
    BY <1>1, TreeWalk
  <2>3. a \in Nat \ {0} /\ b \in Nat \ {0}
    BY <1>1, <2>2, SlotsPositive
  <2>4. u[p] = [t[p] EXCEPT !.ratio = (UNIT * a) \div (a + b)]
    BY <1>2, <2>1
  <2> HIDE DEF a, b
  <2> QED BY <2>1, <2>3, <2>4, ShareInt, RuleIsNoLeaf
<1>4. \A p \in LeafPaths(t) : u[p] = t[p]
  BY <1>2 DEF LeafPaths
<1>5. u = [p \in DOMAIN t |-> u[p]]
  BY <1>2
<1>6. Redivides(u, t)
  BY <1>3, <1>4, <1>5 DEF Redivides
<1>7. Holds(u, Labels(t))
  BY <1>6, SoundRedivided
<1> QED BY <1>7 DEF u
===============================================================================
