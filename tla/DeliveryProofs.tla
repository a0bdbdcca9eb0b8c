---------------------------- MODULE DeliveryProofs ----------------------------
(***************************************************************************)
(* What the users of two channels get, for every value of the parameters.  *)
(* The channels implement OrderedDelivery for the guaranteed messages of   *)
(* each stream (ChannelDelivers).  The game, whose messages may be split   *)
(* into several of the channel's, gets OrderedDelivery of whole messages   *)
(* (GameDelivers).  Both hold as long as the masks stay ahead of the peer  *)
(* (Undisturbed); a message they leave behind is lost to the stream.       *)
(*                                                                         *)
(* A stream is a selection from a sequence, so that the first part is      *)
(* about selections.  Connection is the inductive invariant of the game.   *)
(***************************************************************************)
EXTENDS UserMessages, NetChannelRecords, FunctionTheorems
-----------------------------------------------------------------------------
(***************************************************************************)
(* Selections: the places in a set, counted from the first.                *)
(***************************************************************************)
\* Induction over the natural numbers, for a set instead of a predicate.
LEMMA Induction ==
    ASSUME NEW S, 0 \in S, \A n \in Nat : n \in S => n + 1 \in S
    PROVE  Nat \subseteq S
  <1> DEFINE T == Nat \ S
  <1> SUFFICES ASSUME T # {} PROVE FALSE
    OBVIOUS
  <1>1. IsWellFoundedOn(OpToRel(<, Nat), Nat)
    BY NatLessThanWellFounded
  <1>2. PICK x \in T : \A y \in T : ~(<<y, x>> \in OpToRel(<, Nat))
    <2>1. T \subseteq Nat
      OBVIOUS
    <2> HIDE DEF T
    <2> QED BY <1>1, <2>1, WFMin
  <1>3. x # 0
    OBVIOUS
  <1>4. x - 1 \in Nat /\ x - 1 \notin S
    BY <1>3
  <1>5. <<x - 1, x>> \in OpToRel(<, Nat)
    BY <1>4 DEF OpToRel
  <1> QED BY <1>2, <1>4, <1>5

UpTo(I, n) == {j \in I : j <= n}

\* How many places there are up to a number grows with the number.
LEMMA UpToGrows ==
    ASSUME NEW I, \A i \in I : i \in Nat \ {0}, NEW n \in Nat
    PROVE  /\ IsFiniteSet(UpTo(I, n)) /\ Cardinality(UpTo(I, n)) \in Nat
           /\ UpTo(I, 0) = {}
           /\ Cardinality(UpTo(I, n + 1)) =
                  IF n + 1 \in I THEN Cardinality(UpTo(I, n)) + 1
                                 ELSE Cardinality(UpTo(I, n))
  <1>1. IsFiniteSet(UpTo(I, n))
    <2>1. UpTo(I, n) \in SUBSET (1 .. n)
      BY DEF UpTo
    <2> QED BY <2>1, FS_Interval, FS_Subset
  <1>2. Cardinality(UpTo(I, n)) \in Nat
    BY <1>1, FS_CardinalityType
  <1>3. UpTo(I, 0) = {}
    BY DEF UpTo
  <1>4. CASE n + 1 \in I
    <2>1. UpTo(I, n + 1) = UpTo(I, n) \cup {n + 1} /\ n + 1 \notin UpTo(I, n)
      BY <1>4 DEF UpTo
    <2> QED BY <1>1, <1>2, <1>3, <1>4, <2>1, FS_AddElement
  <1>5. CASE n + 1 \notin I
    <2>1. UpTo(I, n + 1) = UpTo(I, n)
      BY <1>5 DEF UpTo
    <2> QED BY <1>1, <1>2, <1>3, <1>5, <2>1
  <1> QED BY <1>4, <1>5

\* Two places have different numbers of places before them.
LEMMA UpToApart ==
    ASSUME NEW I, \A i \in I : i \in Nat \ {0}, NEW i \in I, NEW j \in I, i < j
    PROVE  Cardinality(UpTo(I, i)) < Cardinality(UpTo(I, j))
  <1>1. /\ IsFiniteSet(UpTo(I, j)) /\ Cardinality(UpTo(I, j)) \in Nat
        /\ Cardinality(UpTo(I, i)) \in Nat
    BY UpToGrows
  <1>2. UpTo(I, i) \in SUBSET UpTo(I, j) /\ j \in UpTo(I, j) /\ j \notin UpTo(I, i)
    BY DEF UpTo
  <1> QED BY <1>1, <1>2, FS_Subset

\* The number of places before it tells which place it is.
LEMMA NthPlace ==
    ASSUME NEW I, \A i \in I : i \in Nat \ {0}, NEW i \in I
    PROVE  Nth(I, Cardinality(UpTo(I, i))) = i
  <1>1. \A j \in I : Cardinality({x \in I : x <= j}) = Cardinality(UpTo(I, j))
    BY DEF UpTo
  <1>2. \A j \in I : Cardinality(UpTo(I, j)) = Cardinality(UpTo(I, i)) => j = i
    <2> SUFFICES ASSUME NEW j \in I, j # i
                 PROVE  Cardinality(UpTo(I, j)) # Cardinality(UpTo(I, i))
      OBVIOUS
    <2>1. j < i \/ i < j
      OBVIOUS
    <2>2. /\ Cardinality(UpTo(I, j)) \in Nat /\ Cardinality(UpTo(I, i)) \in Nat
      BY UpToGrows
    <2> QED BY <2>1, <2>2, UpToApart
  <1> QED BY <1>1, <1>2 DEF Nth

\* Every number up to the number of places has its place.
LEMMA PlacesCounted ==
    ASSUME NEW m \in Nat, NEW I, \A i \in I : i \in 1 .. m
    PROVE  /\ IsFiniteSet(I) /\ Cardinality(I) \in Nat
           /\ \A i \in I : Cardinality(UpTo(I, i)) \in 1 .. Cardinality(I)
           /\ \A k \in 1 .. Cardinality(I) :
                 /\ Nth(I, k) \in I
                 /\ Cardinality(UpTo(I, Nth(I, k))) = k
  <1>0. \A i \in I : i \in Nat \ {0}
    OBVIOUS
  <1> DEFINE C(n) == Cardinality(UpTo(I, n))
             S == {n \in Nat : \A k \in 1 .. C(n) : \E i \in I : C(i) = k}
  <1>1. \A n \in Nat : C(n) \in Nat /\ IsFiniteSet(UpTo(I, n))
    BY <1>0, UpToGrows
  <1>2. 0 \in S
    <2>1. C(0) = 0
      BY <1>0, UpToGrows, FS_EmptySet
    <2> HIDE DEF C
    <2> QED BY <2>1
  <1>3. ASSUME NEW n \in Nat, n \in S PROVE n + 1 \in S
    <2>1. C(n + 1) = IF n + 1 \in I THEN C(n) + 1 ELSE C(n)
      BY <1>0, UpToGrows
    <2>2. C(n) \in Nat
      BY <1>1
    <2> HIDE DEF C
    <2>3. \A k \in 1 .. C(n + 1) : k \in 1 .. C(n) \/ (n + 1 \in I /\ k = C(n + 1))
      BY <2>1, <2>2
    <2> QED BY <1>3, <2>3
  <1>4. m \in S
    <2> HIDE DEF S
    <2> QED BY <1>2, <1>3, Induction
  <1>5. UpTo(I, m) = I
    BY DEF UpTo
  <1>6. ASSUME NEW i \in I PROVE C(i) \in 1 .. Cardinality(I)
    <2>1. UpTo(I, i) \in SUBSET I /\ i \in UpTo(I, i)
      BY <1>0 DEF UpTo
    <2>2. C(i) \in Nat /\ IsFiniteSet(I) /\ Cardinality(I) \in Nat /\ C(i) # 0
      BY <1>0, <1>1, <1>5, <2>1, FS_EmptySet
    <2> QED BY <2>1, <2>2, FS_Subset
  <1>7. ASSUME NEW k \in 1 .. Cardinality(I)
        PROVE  Nth(I, k) \in I /\ C(Nth(I, k)) = k
    <2>1. PICK i \in I : C(i) = k
      BY <1>4, <1>5
    <2>2. Nth(I, k) = i
      BY <1>0, <2>1, NthPlace
    <2> QED BY <2>1, <2>2
  <1> QED BY <1>1, <1>5, <1>6, <1>7

\* Set I holds places of a sequence that is m long, and what is there is in S;
\* two sequences have the same there.
Within(I, m) == \A i \in I : i \in 1 .. m
Holds(s, I, S) == \A i \in I : s[i] \in S
Agree(s, t, I) == \A i \in I : s[i] = t[i]

\* What is selected is a sequence of elements of the sequence.
LEMMA SelectType ==
    ASSUME NEW m \in Nat, NEW I, Within(I, m), NEW S, NEW s, Holds(s, I, S)
    PROVE  /\ Select(s, I) \in Seq(S) /\ Len(Select(s, I)) = Cardinality(I)
           /\ Cardinality(I) \in Nat
           /\ \A k \in 1 .. Cardinality(I) :
                 Select(s, I)[k] = s[Nth(I, k)] /\ Nth(I, k) \in I
  <1>1. Cardinality(I) \in Nat /\ \A k \in 1 .. Cardinality(I) : Nth(I, k) \in I
    BY PlacesCounted DEF Within
  <1> DEFINE n == Cardinality(I)
  <1>2. Select(s, I) = [k \in 1 .. n |-> s[Nth(I, k)]]
    BY DEF Select
  <1>3. Select(s, I) \in [1 .. n -> S]
    BY <1>1, <1>2 DEF Holds
  <1> QED BY <1>1, <1>2, <1>3

\* A selection depends on the selected places only.
LEMMA SelectSame ==
    ASSUME NEW m \in Nat, NEW I, Within(I, m), NEW s, NEW t, Agree(s, t, I)
    PROVE  Select(s, I) = Select(t, I)
  <1>1. \A k \in 1 .. Cardinality(I) : Nth(I, k) \in I
    BY PlacesCounted DEF Within
  <1> QED BY <1>1 DEF Select, Agree

\* A place behind the others makes the selection longer by one element.
LEMMA SelectGrows ==
    ASSUME NEW m \in Nat, NEW I, Within(I, m), NEW s, NEW t, Agree(s, t, I)
    PROVE  Select(t, I \cup {m + 1}) = Append(Select(s, I), t[m + 1])
  <1> DEFINE n == m + 1
             J == I \cup {n}
             c == Cardinality(I)
             S == {s[i] : i \in I} \cup {t[n]}
  <1>0. (\A i \in I : i \in 1 .. m) /\ (\A i \in I : s[i] = t[i])
    BY DEF Within, Agree
  <1>1. /\ IsFiniteSet(I) /\ c \in Nat
        /\ \A k \in 1 .. c : Nth(I, k) \in I /\ Cardinality(UpTo(I, Nth(I, k))) = k
    BY <1>0, PlacesCounted
  <1>2. n \notin I /\ Cardinality(J) = c + 1
    <2>1. n \notin I
      BY <1>0
    <2> QED BY <1>1, <2>1, FS_AddElement
  <1>3. (\A j \in J : j \in Nat \ {0}) /\ Within(J, n) /\ n \in Nat
    BY <1>0 DEF Within
  <1>4. ASSUME NEW k \in 1 .. c PROVE Nth(J, k) = Nth(I, k)
    <2>1. Nth(I, k) \in I /\ Cardinality(UpTo(I, Nth(I, k))) = k
      BY <1>1
    <2>2. \A i \in I : UpTo(J, i) = UpTo(I, i)
      BY <1>0 DEF UpTo
    <2> QED BY <1>3, <2>1, <2>2, NthPlace
  <1>5. Nth(J, c + 1) = n
    <2>1. UpTo(J, n) = J
      BY <1>0 DEF UpTo
    <2> QED BY <1>2, <1>3, <2>1, NthPlace
  <1>6. /\ Select(s, I) \in Seq(S) /\ Len(Select(s, I)) = c
        /\ \A k \in 1 .. c : Select(s, I)[k] = s[Nth(I, k)]
    <2>1. Holds(s, I, S)
      BY DEF Holds
    <2> HIDE DEF S
    <2> QED BY <2>1, SelectType
  <1>7. /\ Select(t, J) \in Seq(S) /\ Len(Select(t, J)) = c + 1
        /\ \A k \in 1 .. c + 1 : Select(t, J)[k] = t[Nth(J, k)]
    <2>1. Holds(t, J, S)
      BY <1>0 DEF Holds
    <2> HIDE DEF J, c, S, n
    <2>2. /\ Select(t, J) \in Seq(S) /\ Len(Select(t, J)) = Cardinality(J)
          /\ \A k \in 1 .. Cardinality(J) : Select(t, J)[k] = t[Nth(J, k)]
      BY <1>3, <2>1, SelectType
    <2> QED BY <1>2, <2>2
  <1>8. /\ Append(Select(s, I), t[n]) \in Seq(S)
        /\ Len(Append(Select(s, I), t[n])) = c + 1
        /\ \A k \in 1 .. c : Append(Select(s, I), t[n])[k] = s[Nth(I, k)]
        /\ Append(Select(s, I), t[n])[c + 1] = t[n]
    <2>1. t[n] \in S
      OBVIOUS
    <2> HIDE DEF S
    <2> QED BY <1>6, <2>1, AppendProperties
  <1> HIDE DEF J, c, S, n
  <1>9. ASSUME NEW k \in 1 .. c + 1
        PROVE  Select(t, J)[k] = Append(Select(s, I), t[n])[k]
    <2>1. CASE k = c + 1
      BY <1>5, <1>7, <1>8, <2>1
    <2>2. CASE k # c + 1
      <3>1. k \in 1 .. c
        BY <1>1, <2>2
      <3>2. Nth(I, k) \in I
        BY <1>1, <3>1
      <3> QED BY <1>0, <1>4, <1>7, <1>8, <3>1, <3>2
    <2> QED BY <2>1, <2>2
  <1> QED BY <1>7, <1>8, <1>9, SeqEqual DEF J, n

\* The elements of f at places I are in G, increase and leave none out.
Through(I, f, G) ==
    /\ \A i \in I : f[i] \in G
    /\ \A i, j \in I : i < j => f[i] < f[j]
    /\ \A i \in I : \A g \in G : g < f[i] => \E j \in I : j < i /\ f[j] = g

\* Then they go through G from its first element on.
LEMMA GoesThrough ==
    ASSUME NEW a \in Nat, NEW I, Within(I, a), NEW b \in Nat, NEW G, Within(G, b),
           NEW f, Through(I, f, G)
    PROVE  /\ Cardinality(I) <= Cardinality(G)
           /\ \A k \in 1 .. Cardinality(I) : Nth(G, k) = f[Nth(I, k)]
  <1>1. /\ Cardinality(I) \in Nat
        /\ \A k \in 1 .. Cardinality(I) :
              Nth(I, k) \in I /\ Cardinality(UpTo(I, Nth(I, k))) = k
    BY PlacesCounted DEF Within
  <1>2. /\ Cardinality(G) \in Nat
        /\ \A g \in G : Cardinality(UpTo(G, g)) \in 1 .. Cardinality(G)
    BY PlacesCounted DEF Within
  <1>3. /\ \A i \in I : i \in Nat \ {0}
        /\ \A g \in G : g \in Nat \ {0}
    BY DEF Within
  <1>0. /\ \A i \in I : f[i] \in G
        /\ \A i, j \in I : i < j => f[i] < f[j]
        /\ \A i \in I : \A g \in G : g < f[i] => \E j \in I : j < i /\ f[j] = g
    BY DEF Through
  <1>4. ASSUME NEW i \in I
        PROVE  Cardinality(UpTo(G, f[i])) = Cardinality(UpTo(I, i))
    <2> DEFINE A == UpTo(I, i)
               B == UpTo(G, f[i])
               h == [j \in A |-> f[j]]
    <2>1. A \subseteq I /\ \A j \in A : j <= i
      BY DEF UpTo
    <2>2. \A j \in A : f[j] \in B
      <3> SUFFICES ASSUME NEW j \in A PROVE f[j] \in B
        OBVIOUS
      <3>1. j \in I /\ (j < i \/ j = i)
        BY <2>1, <1>3
      <3>2. f[j] \in G /\ f[i] \in G /\ (f[j] < f[i] \/ f[j] = f[i])
        BY <1>0, <3>1
      <3>3. f[j] <= f[i]
        BY <3>2, <1>3
      <3> QED BY <3>2, <3>3 DEF UpTo
    <2>3. \A g \in B : \E j \in A : f[j] = g
      <3> SUFFICES ASSUME NEW g \in B PROVE \E j \in A : f[j] = g
        OBVIOUS
      <3>1. g \in G /\ g <= f[i] /\ f[i] \in G
        BY <1>0 DEF UpTo
      <3>2. g < f[i] \/ g = f[i]
        BY <1>3, <3>1
      <3>3. \A j \in I : j < i \/ j = i => j \in A
        BY <1>3 DEF UpTo
      <3> HIDE DEF A
      <3> QED BY <1>0, <3>1, <3>2, <3>3
    <2>4. \A j, k \in A : f[j] = f[k] => j = k
      <3> SUFFICES ASSUME NEW j \in A, NEW k \in A, j # k PROVE f[j] # f[k]
        OBVIOUS
      <3>1. j \in I /\ k \in I /\ (j < k \/ k < j)
        BY <1>3, <2>1
      <3>2. f[j] \in Nat /\ f[k] \in Nat /\ (f[j] < f[k] \/ f[k] < f[j])
        BY <1>0, <1>3, <3>1
      <3> QED BY <3>2
    <2>5. IsFiniteSet(A)
      BY <1>3, UpToGrows
    <2> HIDE DEF A, B
    <2>6. h \in Bijection(A, B)
      <3>1. h \in [A -> B]
        BY <2>2
      <3>2. \A j, k \in A : h[j] = h[k] => j = k
        BY <2>4
      <3>3. \A g \in B : \E j \in A : h[j] = g
        BY <2>3
      <3> HIDE DEF h
      <3> QED BY <3>1, <3>2, <3>3, Fun_IsBij
    <2>7. ExistsBijection(A, B)
      BY <2>6 DEF ExistsBijection
    <2> QED BY <2>5, <2>7, FS_Bijection DEF A, B
  <1>5. ASSUME NEW k \in 1 .. Cardinality(I) PROVE Nth(G, k) = f[Nth(I, k)]
    <2>1. Nth(I, k) \in I /\ Cardinality(UpTo(I, Nth(I, k))) = k
      BY <1>1
    <2>2. f[Nth(I, k)] \in G /\ Cardinality(UpTo(G, f[Nth(I, k)])) = k
      BY <1>0, <1>4, <2>1
    <2> QED BY <1>3, <2>2, NthPlace
  <1>6. Cardinality(I) <= Cardinality(G)
    <2>1. CASE Cardinality(I) = 0
      BY <1>2, <2>1
    <2>2. CASE Cardinality(I) # 0
      <3> DEFINE k == Cardinality(I)
      <3>1. k \in 1 .. k
        BY <1>1, <2>2
      <3>2. Nth(I, k) \in I /\ Cardinality(UpTo(I, Nth(I, k))) = k
        BY <1>1, <3>1
      <3>3. f[Nth(I, k)] \in G /\ Cardinality(UpTo(G, f[Nth(I, k)])) = k
        BY <1>0, <1>4, <3>2
      <3> QED BY <1>2, <3>3
    <2> QED BY <2>1, <2>2
  <1> QED BY <1>5, <1>6
-----------------------------------------------------------------------------
(***************************************************************************)
(* The channels implement ordered delivery of each stream.                 *)
(***************************************************************************)
Delivery == INSTANCE OrderedDelivery WITH
    Id <- Nat,
    submitted <- [e \in End |-> [c \in Stream |-> PartsSent(e, c)]],
    handed <- [e \in End |-> [c \in Stream |-> PartsHanded(e, c)]]

\* The messages of stream c among those q refers to.
OfStream(s, c, q) == {k \in DOMAIN q : s.msgs[q[k]].class = c}

\* The parts of a stream are a sequence of numbers, each at a selected place.
LEMMA PartsOfType ==
    ASSUME NEW s, NEW c, NEW q \in Seq(Nat)
    PROVE  LET I == OfStream(s, c, q)
           IN /\ PartsOf(s, c, q) \in Seq(Nat)
              /\ Len(PartsOf(s, c, q)) = Cardinality(I)
              /\ \A k \in 1 .. Cardinality(I) :
                    PartsOf(s, c, q)[k] = q[Nth(I, k)] /\ Nth(I, k) \in I
              /\ \A k \in I : k \in 1 .. Len(q)
              /\ Len(q) \in Nat /\ DOMAIN q = 1 .. Len(q)
  <1> DEFINE I == OfStream(s, c, q)
  <1>1. Len(q) \in Nat /\ DOMAIN q = 1 .. Len(q) /\ \A k \in 1 .. Len(q) : q[k] \in Nat
    BY RangeOfMember
  <1>2. (\A k \in I : k \in 1 .. Len(q)) /\ (\A k \in I : q[k] \in Nat)
    BY <1>1 DEF OfStream
  <1>3. PartsOf(s, c, q) = Select(q, I)
    BY DEF PartsOf, OfStream
  <1> HIDE DEF I
  <1>4. /\ Select(q, I) \in Seq(Nat) /\ Len(Select(q, I)) = Cardinality(I)
        /\ \A k \in 1 .. Cardinality(I) :
              Select(q, I)[k] = q[Nth(I, k)] /\ Nth(I, k) \in I
    <2>1. Within(I, Len(q)) /\ Holds(q, I, Nat)
      BY <1>2 DEF Within, Holds
    <2> QED BY <1>1, <2>1, SelectType
  <1> QED BY <1>1, <1>2, <1>3, <1>4 DEF I

\* What an output side still holds reads the same when messages are added.
LEMMA PartsOfKept ==
    ASSUME NEW s, SndOK(s), NEW t, Keeps(s, t), NEW c,
           NEW q \in Seq(Nat), Range(q) \subseteq 1 .. Len(s.msgs)
    PROVE  PartsOf(t, c, q) = PartsOf(s, c, q)
  <1>1. DOMAIN q = 1 .. Len(q) /\ \A k \in 1 .. Len(q) : q[k] \in Range(q)
    BY RangeOfMember
  <1>2. \A k \in DOMAIN q : t.msgs[q[k]].class = s.msgs[q[k]].class
    BY <1>1 DEF Keeps
  <1>3. {k \in DOMAIN q : t.msgs[q[k]].class = c}
            = {k \in DOMAIN q : s.msgs[q[k]].class = c}
    BY <1>2
  <1> QED BY <1>3 DEF PartsOf

\* One message more is one more of its stream.
LEMMA PartsOfAppend ==
    ASSUME NEW s, NEW c, NEW q \in Seq(Nat), NEW x \in Nat
    PROVE  PartsOf(s, c, Append(q, x)) =
               IF s.msgs[x].class = c THEN Append(PartsOf(s, c, q), x)
                                      ELSE PartsOf(s, c, q)
  <1> DEFINE r == Append(q, x)
             I == {k \in DOMAIN q : s.msgs[q[k]].class = c}
             J == {k \in DOMAIN r : s.msgs[r[k]].class = c}
             n == Len(q)
  <1>1. n \in Nat /\ DOMAIN q = 1 .. n /\ \A k \in 1 .. n : q[k] \in Nat
    BY RangeOfMember
  <1>2. /\ r \in Seq(Nat) /\ Len(r) = n + 1 /\ DOMAIN r = 1 .. n + 1
        /\ \A k \in 1 .. n : r[k] = q[k]
        /\ r[n + 1] = x
    BY AppendProperties, LenProperties
  <1> HIDE DEF r, n
  <1>3. (\A k \in I : k \in 1 .. n) /\ \A k \in I : q[k] = r[k] /\ q[k] \in Nat
    BY <1>1, <1>2
  <1>4. J = IF s.msgs[x].class = c THEN I \cup {n + 1} ELSE I
    BY <1>1, <1>2
  <1>5. PartsOf(s, c, q) = Select(q, I) /\ PartsOf(s, c, r) = Select(r, J)
    BY DEF PartsOf
  <1> HIDE DEF I, J
  <1>6. CASE s.msgs[x].class = c
    <2>1. Within(I, n) /\ Agree(q, r, I)
      BY <1>3 DEF Within, Agree
    <2>2. Select(r, I \cup {n + 1}) = Append(Select(q, I), r[n + 1])
      BY <1>1, <2>1, SelectGrows
    <2> QED BY <1>2, <1>4, <1>5, <1>6, <2>2 DEF r
  <1>7. CASE s.msgs[x].class # c
    <2>1. Within(I, n) /\ Agree(q, r, I)
      BY <1>3 DEF Within, Agree
    <2>2. Select(q, I) = Select(r, I)
      BY <1>1, <2>1, SelectSame
    <2> QED BY <1>4, <1>5, <1>7, <2>2 DEF r
  <1> QED BY <1>6, <1>7

\* All the messages of a sender, by their identities.
Ids(s) == [i \in DOMAIN s.msgs |-> i]

\* The identities are a sequence of numbers.
LEMMA IdsType ==
    ASSUME NEW s, SndOK(s)
    PROVE  /\ Ids(s) \in Seq(Nat) /\ Len(Ids(s)) = Len(s.msgs)
           /\ Range(Ids(s)) = 1 .. Len(s.msgs)
           /\ DOMAIN Ids(s) = 1 .. Len(s.msgs)
           /\ \A i \in 1 .. Len(s.msgs) : Ids(s)[i] = i
  <1>1. Len(s.msgs) \in Nat /\ DOMAIN s.msgs = 1 .. Len(s.msgs)
    BY SndFields
  <1> DEFINE n == Len(s.msgs)
  <1>2. Ids(s) = [i \in 1 .. n |-> i]
    BY <1>1 DEF Ids
  <1> HIDE DEF n
  <1>3. [i \in 1 .. n |-> i] \in [1 .. n -> Nat] /\ n \in Nat
    BY <1>1 DEF n
  <1>4. Ids(s) \in Seq(Nat) /\ Len(Ids(s)) = n
    BY <1>2, <1>3
  <1>5. Range(Ids(s)) = 1 .. n
    BY <1>2 DEF Range
  <1> QED BY <1>2, <1>4, <1>5 DEF n

\* The messages a step adds are not guaranteed ones.
Quiet(s, t) ==
    \A i \in 1 .. Len(t.msgs) : i > Len(s.msgs) => t.msgs[i].class \notin Stream

\* No guaranteed message more: the streams stay as they are.
LEMMA SentKept ==
    ASSUME NEW s, SndOK(s), NEW t, SndOK(t), Keeps(s, t), NEW c \in Stream, Quiet(s, t)
    PROVE  PartsOf(t, c, Ids(t)) = PartsOf(s, c, Ids(s))
  <1> DEFINE I == {k \in DOMAIN Ids(s) : s.msgs[Ids(s)[k]].class = c}
             J == {k \in DOMAIN Ids(t) : t.msgs[Ids(t)[k]].class = c}
  <1>1. /\ DOMAIN Ids(s) = 1 .. Len(s.msgs) /\ DOMAIN Ids(t) = 1 .. Len(t.msgs)
        /\ \A i \in 1 .. Len(s.msgs) : Ids(s)[i] = i
        /\ \A i \in 1 .. Len(t.msgs) : Ids(t)[i] = i
    BY IdsType
  <1>2. /\ Len(s.msgs) \in Nat /\ Len(t.msgs) \in Nat
        /\ Len(s.msgs) <= Len(t.msgs)
        /\ \A i \in 1 .. Len(s.msgs) : t.msgs[i].class = s.msgs[i].class
    BY SndFields DEF Keeps
  <1>3. \A i \in 1 .. Len(t.msgs) :
            t.msgs[i].class = c => i \in 1 .. Len(s.msgs)
    BY <1>2 DEF Quiet
  <1>4. I = J
    BY <1>1, <1>2, <1>3
  <1>5. (\A i \in I : i \in 1 .. Len(s.msgs)) /\ \A i \in I : Ids(s)[i] = Ids(t)[i]
    BY <1>1, <1>2
  <1>6. PartsOf(s, c, Ids(s)) = Select(Ids(s), I) /\ PartsOf(t, c, Ids(t)) = Select(Ids(t), J)
    BY DEF PartsOf
  <1> HIDE DEF I, J
  <1>7. Select(Ids(s), I) = Select(Ids(t), I)
    <2>1. Within(I, Len(s.msgs)) /\ Agree(Ids(s), Ids(t), I)
      BY <1>5 DEF Within, Agree
    <2> QED BY <1>2, <2>1, SelectSame
  <1> QED BY <1>4, <1>6, <1>7

\* One message more.
LEMMA SentMore ==
    ASSUME NEW s, SndOK(s), NEW t, SndOK(t), Keeps(s, t), NEW c,
           Len(t.msgs) = Len(s.msgs) + 1
    PROVE  PartsOf(t, c, Ids(t)) =
               IF t.msgs[Len(t.msgs)].class = c
               THEN Append(PartsOf(s, c, Ids(s)), Len(t.msgs))
               ELSE PartsOf(s, c, Ids(s))
  <1> DEFINE n == Len(s.msgs)
  <1>1. /\ Ids(s) \in Seq(Nat) /\ Len(Ids(s)) = n /\ Range(Ids(s)) = 1 .. n
        /\ \A i \in 1 .. n : Ids(s)[i] = i
        /\ Ids(t) \in Seq(Nat) /\ Len(Ids(t)) = n + 1
        /\ \A i \in 1 .. n + 1 : Ids(t)[i] = i
        /\ n \in Nat
    BY IdsType, SndFields
  <1> HIDE DEF n
  <1>2. Ids(t) = Append(Ids(s), n + 1)
    <2>1. /\ Append(Ids(s), n + 1) \in Seq(Nat) /\ Len(Append(Ids(s), n + 1)) = n + 1
          /\ \A i \in 1 .. n : Append(Ids(s), n + 1)[i] = i
          /\ Append(Ids(s), n + 1)[n + 1] = n + 1
      BY <1>1, AppendProperties
    <2>2. \A i \in 1 .. n + 1 : Append(Ids(s), n + 1)[i] = Ids(t)[i]
      <3> SUFFICES ASSUME NEW i \in 1 .. n + 1
                   PROVE  Append(Ids(s), n + 1)[i] = Ids(t)[i]
        OBVIOUS
      <3>1. i \in 1 .. n \/ i = n + 1
        BY <1>1
      <3> QED BY <1>1, <2>1, <3>1
    <2> QED BY <1>1, <2>1, <2>2, SeqEqual
  <1>3. PartsOf(t, c, Ids(s)) = PartsOf(s, c, Ids(s))
    BY <1>1, PartsOfKept DEF n
  <1>4. PartsOf(t, c, Append(Ids(s), n + 1)) =
            IF t.msgs[n + 1].class = c THEN Append(PartsOf(t, c, Ids(s)), n + 1)
                                       ELSE PartsOf(t, c, Ids(s))
    <2>1. Ids(s) \in Seq(Nat) /\ n + 1 \in Nat
      BY <1>1
    <2>2. PICK x \in Nat : x = n + 1
      BY <2>1
    <2>3. PartsOf(t, c, Append(Ids(s), x)) =
              IF t.msgs[x].class = c THEN Append(PartsOf(t, c, Ids(s)), x)
                                     ELSE PartsOf(t, c, Ids(s))
      BY <2>1, PartsOfAppend
    <2> QED BY <2>2, <2>3
  <1> QED BY <1>2, <1>3, <1>4 DEF n

\* What was handed over of a stream is what was sent of it, up to some message.
LEMMA HandedIsPrefix ==
    ASSUME NEW s, SndOK(s), NEW d \in Seq(Nat), Range(d) \subseteq 1 .. Len(s.msgs),
           InOrder(s, d), NoGap(s, d), NEW c \in Stream
    PROVE  /\ PartsOf(s, c, d) \in Seq(Nat) /\ PartsOf(s, c, Ids(s)) \in Seq(Nat)
           /\ Len(PartsOf(s, c, d)) <= Len(PartsOf(s, c, Ids(s)))
           /\ \A k \in 1 .. Len(PartsOf(s, c, d)) :
                 PartsOf(s, c, d)[k] = PartsOf(s, c, Ids(s))[k]
  <1> DEFINE q == Ids(s)
             D == OfStream(s, c, d)
             C == OfStream(s, c, q)
  <1>2. /\ Len(s.msgs) \in Nat
        /\ q \in Seq(Nat) /\ DOMAIN q = 1 .. Len(s.msgs)
        /\ \A i \in 1 .. Len(s.msgs) : q[i] = i
    BY SndFields, IdsType
  <1>3. /\ Len(d) \in Nat /\ DOMAIN d = 1 .. Len(d)
        /\ \A k \in 1 .. Len(d) : d[k] \in Nat /\ d[k] \in 1 .. Len(s.msgs)
    BY RangeOfMember
  <1>4. /\ \A j, k \in 1 .. Len(d) :
              j < k /\ s.msgs[d[j]].class = c /\ s.msgs[d[k]].class = c
                  => d[j] < d[k]
        /\ \A k \in 1 .. Len(d) : \A i \in 1 .. d[k] - 1 :
              s.msgs[i].class = c /\ s.msgs[d[k]].class = c
                  => \E j \in 1 .. k - 1 : d[j] = i
    BY <1>3 DEF InOrder, NoGap
  <1>6. /\ \A k \in D : k \in 1 .. Len(d) /\ s.msgs[d[k]].class = c
        /\ \A k \in C : k \in 1 .. Len(s.msgs) /\ s.msgs[k].class = c
        /\ \A k \in 1 .. Len(d) : s.msgs[d[k]].class = c => k \in D
        /\ \A k \in 1 .. Len(s.msgs) : s.msgs[k].class = c => k \in C
    BY <1>2, <1>3 DEF OfStream
  <1>7. /\ PartsOf(s, c, d) \in Seq(Nat) /\ Len(PartsOf(s, c, d)) = Cardinality(D)
        /\ \A k \in 1 .. Cardinality(D) :
              PartsOf(s, c, d)[k] = d[Nth(D, k)] /\ Nth(D, k) \in D
        /\ PartsOf(s, c, q) \in Seq(Nat) /\ Len(PartsOf(s, c, q)) = Cardinality(C)
        /\ \A k \in 1 .. Cardinality(C) :
              PartsOf(s, c, q)[k] = q[Nth(C, k)] /\ Nth(C, k) \in C
    <2> HIDE DEF q
    <2> QED BY <1>2, PartsOfType
  <1> HIDE DEF q, C, D
  <1>8. /\ Cardinality(D) <= Cardinality(C)
        /\ \A k \in 1 .. Cardinality(D) : Nth(C, k) = d[Nth(D, k)]
    <2>1. Within(D, Len(d)) /\ Within(C, Len(s.msgs))
      BY <1>6 DEF Within
    <2>2. \A i \in D : d[i] \in C
      BY <1>3, <1>6
    <2>3. \A i, j \in D : i < j => d[i] < d[j]
      BY <1>4, <1>6
    <2>4. \A i \in D : \A g \in C : g < d[i] => \E j \in D : j < i /\ d[j] = g
      <3> SUFFICES ASSUME NEW i \in D, NEW g \in C, g < d[i]
                   PROVE  \E j \in D : j < i /\ d[j] = g
        OBVIOUS
      <3>1. i \in 1 .. Len(d) /\ g \in 1 .. d[i] - 1 /\ d[i] \in Nat
        BY <1>3, <1>6
      <3>2. \E j \in 1 .. i - 1 : d[j] = g
        BY <1>4, <1>6, <3>1
      <3> QED BY <1>3, <1>6, <3>1, <3>2
    <2>5. Len(d) \in Nat /\ Len(s.msgs) \in Nat
      BY <1>2, <1>3
    <2>6. Through(D, d, C)
      BY <2>2, <2>3, <2>4 DEF Through
    <2> QED BY <2>1, <2>5, <2>6, GoesThrough
  <1>9. /\ Cardinality(D) \in Nat /\ Cardinality(C) \in Nat
    BY <1>2, <1>3, <1>6, PlacesCounted
  <1>10. \A k \in 1 .. Cardinality(D) : PartsOf(s, c, d)[k] = PartsOf(s, c, q)[k]
    <2> SUFFICES ASSUME NEW k \in 1 .. Cardinality(D)
                 PROVE  PartsOf(s, c, d)[k] = PartsOf(s, c, q)[k]
      OBVIOUS
    <2>1. k \in 1 .. Cardinality(C)
      BY <1>8, <1>9
    <2>2. Nth(C, k) \in 1 .. Len(s.msgs)
      BY <1>6, <1>7, <2>1
    <2> QED BY <1>2, <1>7, <1>8, <2>1, <2>2
  <1> QED BY <1>7, <1>8, <1>10 DEF q
-----------------------------------------------------------------------------
(***************************************************************************)
(* A step submits a guaranteed message, hands one over, or does neither.   *)
(***************************************************************************)
LEMMA SameLength ==
    ASSUME NEW s, SndOK(s), NEW t, SndOK(t), DOMAIN t.msgs = DOMAIN s.msgs
    PROVE  Quiet(s, t)
  <1>1. /\ Len(s.msgs) \in Nat /\ DOMAIN s.msgs = 1 .. Len(s.msgs)
        /\ Len(t.msgs) \in Nat /\ DOMAIN t.msgs = 1 .. Len(t.msgs)
    BY SndFields
  <1> QED BY <1>1 DEF Quiet

\* Two steps that submit no guaranteed message submit none together.
LEMMA QuietTrans ==
    ASSUME NEW s, NEW t, NEW u, SndOK(s), SndOK(t), SndOK(u), Keeps(t, u),
           Quiet(s, t), Quiet(t, u)
    PROVE  Quiet(s, u)
  <1>1. /\ Len(s.msgs) \in Nat /\ Len(t.msgs) \in Nat /\ Len(u.msgs) \in Nat
        /\ \A i \in 1 .. Len(t.msgs) : u.msgs[i].class = t.msgs[i].class
    BY SndFields DEF Keeps
  <1> SUFFICES ASSUME NEW i \in 1 .. Len(u.msgs), i > Len(s.msgs)
               PROVE  u.msgs[i].class \notin Stream
    BY DEF Quiet
  <1>2. CASE i > Len(t.msgs)
    BY <1>2 DEF Quiet
  <1>3. CASE i \in 1 .. Len(t.msgs)
    BY <1>1, <1>3 DEF Quiet
  <1> QED BY <1>1, <1>2, <1>3

\* A dummy message is not a guaranteed one ...
LEMMA DummyQuiet ==
    ASSUME NEW s, SndOK(s), NEW instant \in BOOLEAN, NEW reply \in 0 .. MaxSerial
    PROVE  Quiet(s, PutDummy(s, instant, reply))
  <1> DEFINE m == [NewMsg("dummy", 0) EXCEPT !.instant = instant, !.reply = reply]
             t == PutDummy(s, instant, reply)
  <1>1. m \in Msg /\ m.class = "dummy"
    <2>1. NewMsg("dummy", 0) \in Msg /\ NewMsg("dummy", 0).class = "dummy"
      BY NewMsgType DEF NewMsg
    <2> QED BY <2>1 DEF Msg
  <1>2. s.msgs \in Seq(Msg)
    BY SndFields
  <1>3. t.msgs = Append(s.msgs, m)
    BY DEF SndOK, Snd, PutDummy
  <1> HIDE DEF m, t
  <1>4. /\ Len(s.msgs) \in Nat /\ Len(t.msgs) = Len(s.msgs) + 1
        /\ t.msgs[Len(s.msgs) + 1] = m
    BY <1>1, <1>2, <1>3, AppendMsg
  <1>5. Quiet(s, t)
    BY <1>1, <1>4 DEF Quiet, Stream
  <1> QED BY <1>5 DEF t

\* ... nor is a heartbeat ...
LEMMA BeatQuiet ==
    ASSUME NEW s, SndOK(s), NEW ping \in BOOLEAN
    PROVE  Quiet(s, Beat(s, ping))
  <1>1. CASE s.urgentQ = <<>>
    BY <1>1, DummyQuiet, ParameterTypes DEF Beat
  <1>2. CASE s.urgentQ # <<>>
    <2>1. DOMAIN Beat(s, ping).msgs = DOMAIN s.msgs
      BY <1>2 DEF Beat, SndOK, Snd
    <2> QED BY <2>1, BeatOK, SameLength
  <1> QED BY <1>1, <1>2

\* ... nor the answer to a ping.
LEMMA ReplyToQuiet ==
    ASSUME NEW s, SndOK(s), NEW request \in 0 .. MaxSerial
    PROVE  Quiet(s, ReplyTo(s, request))
  <1> DEFINE i == SelectInSeq(s.urgentQ, LAMBDA id : ~IsShort(s.msgs[id]))
  <1>1. ReplyTo(s, request) =
           IF i # 0
           THEN [s EXCEPT !.msgs[s.urgentQ[i]].reply = request]
           ELSE IF s.commonQ = <<>>
           THEN PutDummy(s, FALSE, request)
           ELSE [s EXCEPT !.msgs[Head(s.commonQ)].reply = request,
                          !.urgentQ = Append(@, Head(s.commonQ)),
                          !.commonQ = Tail(@)]
    BY DEF ReplyTo
  <1> HIDE DEF i
  <1>2. CASE i = 0 /\ s.commonQ = <<>>
    BY <1>1, <1>2, DummyQuiet
  <1>3. CASE ~(i = 0 /\ s.commonQ = <<>>)
    <2>1. ASSUME i # 0 PROVE DOMAIN ReplyTo(s, request).msgs = DOMAIN s.msgs
      <3>1. ReplyTo(s, request).msgs = [s.msgs EXCEPT ![s.urgentQ[i]].reply = request]
        BY <1>1, <2>1 DEF SndOK, Snd
      <3> QED BY <3>1
    <2>2. ASSUME i = 0, s.commonQ # <<>>
          PROVE  DOMAIN ReplyTo(s, request).msgs = DOMAIN s.msgs
      <3> DEFINE j == Head(s.commonQ)
      <3>1. ReplyTo(s, request).msgs = [s.msgs EXCEPT ![j].reply = request]
        BY <1>1, <2>2 DEF SndOK, Snd
      <3> QED BY <3>1
    <2>3. DOMAIN ReplyTo(s, request).msgs = DOMAIN s.msgs
      BY <1>3, <2>1, <2>2
    <2> QED BY <2>3, ReplyToOK, SameLength
  <1> QED BY <1>2, <1>3

\* Acknowledgments submit nothing.
LEMMA AckInQuiet ==
    ASSUME NEW s, SndOK(s), NEW acks \in SUBSET Serial
    PROVE  Quiet(s, AckIn(s, acks))
  <1>1. DOMAIN AckIn(s, acks).msgs = DOMAIN s.msgs
    BY DEF AckIn, SndOK, Snd
  <1> QED BY <1>1, AckInOK, SameLength

\* Neither end submits a guaranteed message.
AllQuiet == \A x \in End : Quiet(snd[x], snd'[x])

\* One output side changes without a guaranteed message ...
LEMMA QuietTo ==
    ASSUME TypeOK, NEW e \in End, NEW t, snd' = [snd EXCEPT ![e] = t],
           Quiet(snd[e], t)
    PROVE  AllQuiet
  <1>1. \A x \in End : SndOK(snd[x])
    BY TypeParts
  <1>2. \A x \in End : Quiet(snd[x], snd[x])
    BY <1>1, SameLength
  <1>3. \A x \in End : snd'[x] = IF x = e THEN t ELSE snd[x]
    BY TypeParts
  <1> QED BY <1>2, <1>3 DEF AllQuiet

\* ... or none changes.
LEMMA QuietNot ==
    ASSUME TypeOK, snd' = snd
    PROVE  AllQuiet
  <1>1. \A x \in End : SndOK(snd[x])
    BY TypeParts
  <1> QED BY <1>1, SameLength DEF AllQuiet

\* An output side with as many messages as before submitted none.
LEMMA QuietDomain ==
    ASSUME TypeOK, TypeOK', NEW e \in End,
           \A x \in End : x # e => snd'[x] = snd[x],
           DOMAIN snd'[e].msgs = DOMAIN snd[e].msgs
    PROVE  AllQuiet
  <1>1. \A x \in End : SndOK(snd[x]) /\ SndOK(snd'[x])
    BY DEF TypeOK, SndOK
  <1>2. \A x \in End : DOMAIN snd'[x].msgs = DOMAIN snd[x].msgs
    OBVIOUS
  <1> QED BY <1>1, <1>2, SameLength DEF AllQuiet

\* The sending thread submits no guaranteed message ...
LEMMA SenderQuiet ==
    ASSUME TypeOK, TypeOK', NEW e \in End, Sender(e) \/ Close(e)
    PROVE  AllQuiet /\ delivered' = delivered
  <1>1. snd \in [End -> Snd] /\ SndOK(snd[e])
    BY TypeParts
  <1>2. CASE Close(e)
    <2> DEFINE s == snd[e]
               queued == Range(s.urgentQ) \cup Range(s.vimQ) \cup Range(s.commonQ)
               q == [i \in DOMAIN s.msgs |->
                        IF i \in queued
                        THEN [s.msgs[i] EXCEPT !.status = "cancelled"]
                        ELSE s.msgs[i]]
               t == [s EXCEPT !.msgs = q, !.urgentQ = <<>>, !.vimQ = <<>>,
                              !.commonQ = <<>>, !.lastUrgent = 0, !.lastVIM = 0,
                              !.revisited = {}]
    <2>1. snd' = [snd EXCEPT ![e] = t]
      BY <1>1, <1>2 DEF Close
    <2>2. DOMAIN q = DOMAIN s.msgs
      OBVIOUS
    <2> HIDE DEF q
    <2>3. t.msgs = q
      BY <1>1 DEF SndOK, Snd
    <2> HIDE DEF t
    <2>4. /\ \A x \in End : x # e => snd'[x] = snd[x]
          /\ DOMAIN snd'[e].msgs = DOMAIN snd[e].msgs
      BY <1>1, <2>1, <2>2, <2>3
    <2> QED BY <1>2, <2>4, QuietDomain DEF Close
  <1>3. CASE Send(e)
    <2>1. NextQueue(snd[e]) # <<>> /\ Numbered(snd[e], Head(NextQueue(snd[e]))).serial <= MaxSerial
      BY <1>3 DEF Send
    <2>2. snd' = [snd EXCEPT ![e] = AfterSend(snd[e])]
      BY <1>1, <1>3 DEF Send, AfterSend
    <2>3. Len(AfterSend(snd[e]).msgs) = Len(snd[e].msgs)
      BY <1>1, <2>1, SentParts
    <2>4. SndOK(AfterSend(snd[e]))
      BY <1>1, <2>1, SentOK
    <2>5. DOMAIN AfterSend(snd[e]).msgs = DOMAIN snd[e].msgs
      BY <1>1, <2>3, <2>4, SndFields
    <2> QED BY <1>1, <1>3, <2>2, <2>4, <2>5, SameLength, QuietTo DEF Send
  <1>4. CASE PostSend(e)
    <2>1. /\ \A x \in End : x # e => snd'[x] = snd[x]
          /\ DOMAIN snd'[e].msgs = DOMAIN snd[e].msgs
      BY <1>1, <1>4 DEF PostSend, Snd
    <2> QED BY <1>4, <2>1, QuietDomain DEF PostSend
  <1>5. CASE Expire(e)
    <2>1. /\ \A x \in End : x # e => snd'[x] = snd[x]
          /\ DOMAIN snd'[e].msgs = DOMAIN snd[e].msgs
      BY <1>1, <1>5 DEF Expire, Snd
    <2> QED BY <1>5, <2>1, QuietDomain DEF Expire
  <1>6. ASSUME NEW i \in snd[e].revisited, Timeout(e, i)
        PROVE  AllQuiet /\ delivered' = delivered
    <2>1. /\ \A x \in End : x # e => snd'[x] = snd[x]
          /\ DOMAIN snd'[e].msgs = DOMAIN snd[e].msgs
      BY <1>1, <1>6 DEF Timeout, Snd
    <2> QED BY <1>6, <2>1, QuietDomain DEF Timeout
  <1>7. ASSUME NEW ping \in BOOLEAN, CheckConnectivity(e, ping)
        PROVE  AllQuiet /\ delivered' = delivered
    <2>1. Quiet(snd[e], Beat(snd[e], ping))
      BY <1>1, BeatQuiet
    <2> QED BY <1>7, <2>1, QuietTo DEF CheckConnectivity
  <1> QED BY <1>2, <1>3, <1>4, <1>5, <1>6, <1>7 DEF Sender

\* ... nor does the receiving one.
LEMMA ReceiveQuiet ==
    ASSUME TypeOK, NEW e \in End, NEW p \in net[e], Receive(e, p)
    PROVE  AllQuiet /\ delivered' = delivered
  <1>1. snd \in [End -> Snd] /\ SndOK(snd[e]) /\ p \in Packet
    BY TypeParts, KnownParts
  <1>2. p.acks \in SUBSET Serial /\ p.serial \in 0 .. MaxSerial
    BY <1>1, ParameterTypes DEF Packet, Serial
  <1>3. CASE ReceiveResent(e, p)
    BY <1>3, QuietNot DEF ReceiveResent
  <1>4. CASE ReceiveFar(e, p)
    <2>1. Quiet(snd[e], IF p.instant THEN ReplyTo(snd[e], p.serial) ELSE snd[e])
      BY <1>1, <1>2, ReplyToQuiet, SameLength
    <2>2. snd' = [snd EXCEPT ![e] = IF p.instant THEN ReplyTo(snd[e], p.serial) ELSE snd[e]]
      BY <1>4 DEF ReceiveFar
    <2> QED BY <1>4, <2>1, <2>2, QuietTo DEF ReceiveFar
  <1>5. ASSUME NEW beat \in BOOLEAN, NEW ping \in BOOLEAN,
               ReceiveNew(e, p, beat, ping)
        PROVE  AllQuiet /\ delivered' = delivered
    <2> DEFINE s == snd[e]
               h == AckIn(s, p.acks)
               b == IF beat THEN Beat(h, ping) ELSE h
               t == IF p.instant THEN ReplyTo(b, p.serial) ELSE b
    <2>1. SndOK(h) /\ Quiet(s, h)
      BY <1>1, <1>2, AckInOK, AckInQuiet
    <2>2. SndOK(b) /\ Quiet(s, b)
      BY <1>1, <2>1, BeatOK, BeatQuiet, QuietTrans
    <2>3. snd' = [snd EXCEPT ![e] = t]
      BY <1>5 DEF ReceiveNew
    <2> HIDE DEF b, s
    <2>4. Quiet(s, t)
      BY <1>1, <1>2, <2>2, ReplyToOK, ReplyToQuiet, QuietTrans DEF s
    <2> QED BY <1>5, <2>3, <2>4, QuietTo DEF ReceiveNew, s
  <1> QED BY <1>3, <1>4, <1>5 DEF Receive

\* So only Dispatch does, and only HandOver hands a message to the user.
LEMMA NextQuiet ==
    ASSUME TypeOK, TypeOK', [Next]_vars
    PROVE  \/ \E e \in End, c \in Stream : Dispatch(e, c)
           \/ \E e \in End : HandOver(e)
           \/ AllQuiet /\ delivered' = delivered
  <1>1. CASE UNCHANGED vars
    BY <1>1, QuietNot DEF vars
  <1>2. ASSUME NEW e \in End, Dispatch(e, "common")
        PROVE  AllQuiet /\ delivered' = delivered
    <2> DEFINE s == snd[e]
               m == NewMsg("common", 0)
               t == PutMessage(s, "common")
    <2>1. SndOK(s)
      BY TypeParts
    <2>2. m \in Msg /\ m.class = "common" /\ s.msgs \in Seq(Msg)
      BY <2>1, NewMsgType, SndFields DEF NewMsg, Class
    <2>3. t.msgs = Append(s.msgs, m)
      BY <2>1 DEF PutMessage, SndOK, Snd
    <2>4. snd' = [snd EXCEPT ![e] = t]
      BY <1>2 DEF Dispatch
    <2> HIDE DEF m, t, s
    <2>5. /\ Len(s.msgs) \in Nat /\ Len(t.msgs) = Len(s.msgs) + 1
          /\ t.msgs[Len(s.msgs) + 1] = m
      BY <2>2, <2>3, AppendMsg
    <2>6. Quiet(s, t)
      BY <2>2, <2>5 DEF Quiet, Stream
    <2> QED BY <1>2, <2>4, <2>6, QuietTo DEF Dispatch, s
  <1>3. ASSUME NEW e \in End, Listener(e) \/ Sender(e) \/ Close(e)
        PROVE  HandOver(e) \/ (AllQuiet /\ delivered' = delivered)
    <2>1. CASE Sender(e) \/ Close(e)
      BY <2>1, SenderQuiet
    <2>2. CASE ProcessVIM(e)
      BY <2>2, QuietNot DEF ProcessVIM
    <2>3. ASSUME NEW p \in net[e], Lose(e, p)
          PROVE  AllQuiet /\ delivered' = delivered
      BY <2>3, QuietNot DEF Lose
    <2>4. ASSUME NEW p \in net[e], Receive(e, p)
          PROVE  AllQuiet /\ delivered' = delivered
      BY <2>4, ReceiveQuiet
    <2> QED BY <1>3, <2>1, <2>2, <2>3, <2>4 DEF Listener
  <1> QED BY <1>1, <1>2, <1>3 DEF Next, User, Class
-----------------------------------------------------------------------------
\* What Dispatch does to an output side.
LEMMA SentMessage ==
    ASSUME NEW s, SndOK(s), NEW c \in Stream
    PROVE  LET t == PutMessage(s, c)
           IN /\ SndOK(t) /\ Keeps(s, t)
              /\ Len(t.msgs) = Len(s.msgs) + 1 /\ Len(s.msgs) \in Nat
              /\ t.msgs[Len(s.msgs) + 1].class = c
  <1> DEFINE t == PutMessage(s, c)
             pred == IF c = "urgent" THEN s.lastUrgent ELSE s.lastVIM
             m == NewMsg(c, pred)
  <1>1. SndOK(t) /\ Keeps(s, t)
    BY PutMessageOK DEF Class
  <1>2. m \in Msg /\ m.class = c /\ s.msgs \in Seq(Msg)
    BY NewMsgType, SndFields DEF NewMsg, Class
  <1>3. t.msgs = Append(s.msgs, m)
    BY DEF PutMessage, SndOK, Snd, Stream
  <1> HIDE DEF m, t
  <1>4. /\ Len(s.msgs) \in Nat /\ Len(t.msgs) = Len(s.msgs) + 1
        /\ t.msgs[Len(s.msgs) + 1] = m
    BY <1>2, <1>3, AppendMsg
  <1> QED BY <1>1, <1>2, <1>4 DEF t

\* Streams before and after a step.
LEMMA StreamsThen ==
    ASSUME NEW e \in End, NEW c \in Stream
    PROVE  /\ PartsSent(e, c) = PartsOf(snd[e], c, Ids(snd[e]))
           /\ PartsSent(e, c)' = PartsOf(snd'[e], c, Ids(snd'[e]))
           /\ PartsHanded(e, c) = PartsOf(snd[Peer(e)], c, delivered[e])
           /\ PartsHanded(e, c)' = PartsOf(snd'[Peer(e)], c, delivered'[e])
  BY DEF PartsSent, PartsHanded, Ids

\* What was handed over stays the same when only more is sent.
LEMMA HandedKept ==
    ASSUME TypeOK, \A x \in End : Keeps(snd[x], snd'[x]), delivered' = delivered,
           NEW e \in End, NEW c \in Stream
    PROVE  PartsHanded(e, c)' = PartsHanded(e, c)
  <1>1. /\ SndOK(snd[Peer(e)]) /\ delivered[e] \in Seq(Nat)
        /\ Range(delivered[e]) \subseteq 1 .. Len(snd[Peer(e)].msgs)
    BY PeerType, TypeParts, KnownParts, SndFields
  <1>2. Keeps(snd[Peer(e)], snd'[Peer(e)])
    BY PeerType
  <1>3. PartsOf(snd'[Peer(e)], c, delivered[e]) = PartsOf(snd[Peer(e)], c, delivered[e])
    BY <1>1, <1>2, PartsOfKept
  <1> QED BY <1>3, StreamsThen

\* Steps that neither submit nor hand over are none of the abstraction.
LEMMA QuietStutters ==
    ASSUME TypeOK, TypeOK', \A x \in End : Keeps(snd[x], snd'[x]),
           AllQuiet, delivered' = delivered
    PROVE  UNCHANGED Delivery!vars
  <1>1. \A e \in End : SndOK(snd[e]) /\ SndOK(snd'[e])
    BY DEF TypeOK, SndOK
  <1>2. ASSUME NEW e \in End, NEW c \in Stream
        PROVE  PartsSent(e, c)' = PartsSent(e, c)
    <2>1. PartsOf(snd'[e], c, Ids(snd'[e])) = PartsOf(snd[e], c, Ids(snd[e]))
      BY <1>1, SentKept DEF AllQuiet
    <2> QED BY <2>1, StreamsThen
  <1>3. ASSUME NEW e \in End, NEW c \in Stream
        PROVE  PartsHanded(e, c)' = PartsHanded(e, c)
    BY HandedKept
  <1> QED BY <1>2, <1>3 DEF Delivery!vars

\* A message more in the stream it was submitted to, and in no other.
LEMMA DispatchSubmits ==
    ASSUME TypeOK, TypeOK', NEW e \in End, NEW c \in Stream, Dispatch(e, c)
    PROVE  Delivery!Submit(e, c)
  <1> DEFINE s == snd[e]
             t == PutMessage(s, c)
             n == Len(s.msgs) + 1
  <1>1. SndOK(s) /\ (\A x \in End : SndOK(snd[x])) /\ snd \in [End -> Snd]
    BY TypeParts
  <1>2. /\ SndOK(t) /\ Keeps(s, t)
        /\ Len(t.msgs) = Len(s.msgs) + 1 /\ n \in Nat /\ Len(t.msgs) = n
        /\ t.msgs[n].class = c
    BY <1>1, SentMessage
  <1>3. snd' = [snd EXCEPT ![e] = t] /\ delivered' = delivered
    BY DEF Dispatch
  <1>4. \A x \in End : snd'[x] = IF x = e THEN t ELSE snd[x]
    BY <1>1, <1>3
  <1> HIDE DEF s, t, n
  <1>5. \A d \in Stream : PartsOf(t, d, Ids(t)) =
            IF d = c THEN Append(PartsOf(s, d, Ids(s)), n)
                     ELSE PartsOf(s, d, Ids(s))
    BY <1>1, <1>2, SentMore
  <1>6. \A x \in End : Keeps(snd[x], snd'[x])
    BY <1>1, <1>2, <1>4, KeepsRefl DEF s
  <1>7. ASSUME NEW x \in End, NEW d \in Stream
        PROVE  PartsSent(x, d)' = IF x = e /\ d = c
                                  THEN Append(PartsSent(x, d), n)
                                  ELSE PartsSent(x, d)
    BY <1>4, <1>5, StreamsThen DEF s
  <1>8. ASSUME NEW x \in End, NEW d \in Stream
        PROVE  PartsHanded(x, d)' = PartsHanded(x, d)
    BY <1>3, <1>6, HandedKept
  <1>9. PartsSent(e, c) \in Seq(Nat)
    <2>1. Ids(s) \in Seq(Nat)
      BY <1>1, IdsType
    <2> QED BY <2>1, PartsOfType, StreamsThen DEF s
  <1>10. Len(Append(PartsSent(e, c), n)) = Len(PartsSent(e, c)) + 1
    BY <1>2, <1>9, AppendProperties
  <1> DEFINE before == [x \in End |-> [d \in Stream |-> PartsSent(x, d)]]
             after == [x \in End |-> [d \in Stream |-> PartsSent(x, d)']]
             given == [x \in End |-> [d \in Stream |-> PartsHanded(x, d)]]
             given2 == [x \in End |-> [d \in Stream |-> PartsHanded(x, d)']]
  <1>11. after = [before EXCEPT ![e][c] = Append(@, n)]
    BY <1>7
  <1>12. given2 = given
    BY <1>8
  <1>13. Len(after[e][c]) = Len(before[e][c]) + 1
    BY <1>7, <1>10
  <1>14. \E id \in Nat : after = [before EXCEPT ![e][c] = Append(@, id)]
    BY <1>2, <1>11
  <1> QED BY <1>12, <1>13, <1>14 DEF Delivery!Submit

\* What an end was handed has neither holes nor repetitions.
Sound(e) == InOrder(snd[Peer(e)], delivered[e]) /\ NoGap(snd[Peer(e)], delivered[e])

\* While the masks stay ahead it has neither.
LEMMA SoundStreams ==
    ASSUME Records, NEW e \in End, Undisturbed(e)
    PROVE  Sound(e)
  <1>1. /\ PairInv(rcv[e], snd[Peer(e)], delivered[e], opened[e], net[Peer(e)])
        /\ RcvInv(rcv[e], snd[Peer(e)], delivered[e], opened[e])
        /\ SndOK(snd[Peer(e)])
    BY PairParts
  <1>2. KeptUp(rcv[e], snd[Peer(e)], delivered[e])
    BY <1>1, SndFields DEF Undisturbed, LeftBehind, KeptUp, IsVIM
  <1> QED BY <1>1, <1>2 DEF Sound, Undisturbed, PairInv, RcvInv

\* The message handed over is the next of its stream.
LEMMA HandOverHands ==
    ASSUME TypeOK, OrderInv, TypeOK', NEW e \in End, HandOver(e), Sound(e)'
    PROVE  \E c \in Stream : Delivery!Hand(Peer(e), e, c)
  <1> DEFINE s == snd[Peer(e)]
             d == delivered[e]
             x == Head(rcv[e].stack)
             i == x.id
             c == s.msgs[i].class
  <1>1. /\ SndOK(s) /\ RcvOK(rcv[e]) /\ d \in Seq(Nat)
        /\ RcvInv(rcv[e], s, d, opened[e])
    BY OrderParts
  <1>2. rcv[e].stack # <<>>
    BY <1>1 DEF HandOver, RcvOK
  <1>3. i \in 1 .. Len(s.msgs) /\ c \in Stream /\ i \in Nat
    <2>1. x \in Waiting(rcv[e])
      BY <1>1, <1>2, ProcessedOK
    <2>2. Len(s.msgs) \in Nat
      BY <1>1, SndFields
    <2> QED BY <1>1, <2>1, <2>2 DEF RcvInv, Truthful
  <1>4. snd' = snd /\ delivered' = [delivered EXCEPT ![e] = Append(d, i)]
    BY DEF HandOver
  <1>5. /\ \A y \in End : delivered'[y] = IF y = e THEN Append(d, i) ELSE delivered[y]
        /\ Append(d, i) \in Seq(Nat)
    BY <1>1, <1>3, <1>4, TypeParts
  <1>6. InOrder(s, Append(d, i)) /\ NoGap(s, Append(d, i))
    BY <1>4, <1>5 DEF Sound
  <1>7. Range(Append(d, i)) \subseteq 1 .. Len(s.msgs)
    <2>1. Range(d) \subseteq 1 .. Len(s.msgs)
      BY <1>1, KnownParts, SndFields, TypeParts
    <2> QED BY <1>1, <1>3, <2>1, RangeOfAppend
  <1> DEFINE h == PartsOf(s, c, d)
             p == PartsOf(s, c, Ids(s))
  <1> HIDE DEF s, d, i, c
  <1>8. \A b \in Stream : PartsOf(s, b, Append(d, i)) =
            IF b = c THEN Append(PartsOf(s, b, d), i) ELSE PartsOf(s, b, d)
    BY <1>1, <1>3, PartsOfAppend DEF c
  <1>9. /\ h \in Seq(Nat) /\ PartsOf(s, c, Append(d, i)) = Append(h, i)
        /\ Len(PartsOf(s, c, Append(d, i))) <= Len(p)
        /\ p \in Seq(Nat)
        /\ \A k \in 1 .. Len(PartsOf(s, c, Append(d, i))) :
              PartsOf(s, c, Append(d, i))[k] = p[k]
    BY <1>1, <1>3, <1>5, <1>6, <1>7, <1>8, HandedIsPrefix, PartsOfType
  <1> HIDE DEF h, p
  <1>10. Len(h) < Len(p) /\ p[Len(h) + 1] = i
    <2>1. /\ Len(Append(h, i)) = Len(h) + 1 /\ Append(h, i)[Len(h) + 1] = i
          /\ Len(h) \in Nat /\ Len(p) \in Nat
      BY <1>3, <1>9, AppendProperties, LenProperties
    <2> QED BY <1>9, <2>1
  <1>11. ASSUME NEW y \in End, NEW b \in Stream
         PROVE  /\ PartsSent(y, b)' = PartsSent(y, b)
                /\ PartsHanded(y, b)' = IF y = e /\ b = c
                                        THEN Append(PartsHanded(y, b), i)
                                        ELSE PartsHanded(y, b)
    <2>1. PartsSent(y, b)' = PartsSent(y, b)
      BY <1>4, StreamsThen
    <2>2. CASE y = e
      <3>1. delivered'[e] = Append(d, i) /\ delivered[e] = d /\ snd[Peer(e)] = s
        BY <1>5 DEF d, s
      <3>2. PartsHanded(e, b)' = PartsOf(s, b, Append(d, i))
            /\ PartsHanded(e, b) = PartsOf(s, b, d)
        BY <1>4, <3>1, StreamsThen
      <3> QED BY <1>8, <2>1, <2>2, <3>2
    <2>3. CASE y # e
      <3>1. delivered'[y] = delivered[y]
        BY <1>5, <2>3
      <3> QED BY <1>4, <2>1, <2>3, <3>1, StreamsThen
    <2> QED BY <2>2, <2>3
  <1>12. PartsHanded(e, c) = h /\ PartsSent(Peer(e), c) = p
    BY <1>3, PeerType, StreamsThen DEF s, d, h, p
  <1>13. Delivery!Hand(Peer(e), e, c)
    <2>1. PICK a \in Stream : a = c
      BY <1>3
    <2> DEFINE before == [y \in End |-> [b \in Stream |-> PartsHanded(y, b)]]
               after == [y \in End |-> [b \in Stream |-> PartsHanded(y, b)']]
               given == [y \in End |-> [b \in Stream |-> PartsSent(y, b)]]
               given2 == [y \in End |-> [b \in Stream |-> PartsSent(y, b)']]
    <2>2. given2 = given
      BY <1>11
    <2>3. after = [before EXCEPT ![e][a] = Append(@, i)]
      BY <1>11, <2>1
    <2>4. before[e][a] = h /\ given[Peer(e)][a] = p /\ Peer(e) \in End
      BY <1>12, <2>1, PeerType
    <2>5. Delivery!Hand(Peer(e), e, a)
      BY <1>10, <2>2, <2>3, <2>4 DEF Delivery!Hand
    <2> QED BY <2>1, <2>5
  <1> QED BY <1>3, <1>13

\* Nothing was submitted or handed over in the beginning.
LEMMA DeliveryInit == Init => Delivery!Init
  <1> SUFFICES ASSUME Init PROVE Delivery!Init
    OBVIOUS
  <1>1. TypeOK
    BY InitType
  <1>2. ASSUME NEW e \in End, NEW c \in Stream
        PROVE  PartsSent(e, c) = <<>> /\ PartsHanded(e, c) = <<>>
    <2>1. \A x \in End : snd[x].msgs = <<>> /\ delivered[x] = <<>>
      BY DEF Init
    <2>2. ASSUME NEW s, NEW q \in Seq(Nat), DOMAIN q = {}
          PROVE  PartsOf(s, c, q) = <<>>
      <3>1. OfStream(s, c, q) = {} /\ Cardinality({}) = 0
        BY <2>2, FS_EmptySet DEF OfStream
      <3>2. PartsOf(s, c, q) \in Seq(Nat) /\ Len(PartsOf(s, c, q)) = 0
        BY <3>1, PartsOfType
      <3> QED BY <3>2, EmptySeq
    <2>3. DOMAIN Ids(snd[e]) = {} /\ DOMAIN delivered[Peer(e)] = {}
          /\ DOMAIN delivered[e] = {}
      BY <2>1, PeerType DEF Ids
    <2>4. Ids(snd[e]) \in Seq(Nat) /\ delivered[e] \in Seq(Nat)
      BY <1>1, TypeParts, IdsType
    <2> QED BY <2>2, <2>3, <2>4, StreamsThen
  <1> QED BY <1>2 DEF Delivery!Init

\* The channels implement ordered delivery: each end is handed the guaranteed
\* messages of its peer, those of a stream in the order in which they were
\* submitted and none of them twice, as long as the masks stay ahead.
THEOREM ChannelDelivers ==
    Spec /\ [](\A e \in End : Undisturbed(e)) => Delivery!Spec
  <1> DEFINE U == \A e \in End : Undisturbed(e)
             V == \A e \in End : Sound(e)
  <1>1. Records /\ U => V
    BY SoundStreams
  <1>2. Records /\ Records' /\ V' /\ [Next]_vars => [Delivery!Next]_Delivery!vars
    <2> SUFFICES ASSUME Records, Records', V', [Next]_vars
                 PROVE  [Delivery!Next]_Delivery!vars
      OBVIOUS
    <2>1. TypeOK /\ TypeOK' /\ OrderInv /\ Outputs
      BY DEF Records
    <2>2. CASE \E e \in End, c \in Stream : Dispatch(e, c)
      BY <2>1, <2>2, DispatchSubmits DEF Delivery!Next
    <2>3. CASE \E e \in End : HandOver(e)
      <3>1. PICK e \in End : HandOver(e)
        BY <2>3
      <3>2. PICK c \in Stream : Delivery!Hand(Peer(e), e, c)
        BY <2>1, <3>1, HandOverHands
      <3> QED BY <3>2, PeerType DEF Delivery!Next
    <2>4. CASE AllQuiet /\ delivered' = delivered
      <3>1. \A x \in End : Keeps(snd[x], snd'[x])
        BY <2>1, NextMoves DEF Moves, Follows
      <3> QED BY <2>1, <2>4, <3>1, QuietStutters
    <2> QED BY <2>1, <2>2, <2>3, <2>4, NextQuiet
  <1> HIDE DEF U, V
  <1>3. Spec => []Records
    BY TypeCorrect, OrderAlways, OutputsAlways, InputsAlways, PairsAlways, PTL
       DEF Records
  <1>4. Spec /\ []U => Delivery!Spec
    BY <1>1, <1>2, <1>3, DeliveryInit, PTL DEF Spec, Delivery!Spec
  <1> QED BY <1>4 DEF U
-----------------------------------------------------------------------------
(***************************************************************************)
(* The messages of the game and their parts.  Below s is the output side   *)
(* of an end, m the messages its game sends, d what the other end was      *)
(* handed, w the parts that wait there, q its queue and h what was shown.  *)
(***************************************************************************)
Message == [class : Stream, size : Nat \ {0}, parts : Seq(Nat)]

\* Part p of the k-th message is message i of the channel.
At(m, k, p, i) == /\ k \in 1 .. Len(m) /\ p \in 1 .. Len(m[k].parts)
                  /\ m[k].parts[p] = i

\* Every message has its first part, and all but the last have all parts.
Sized(m) ==
    \A k \in 1 .. Len(m) : /\ Len(m[k].parts) \in 1 .. m[k].size
                           /\ k < Len(m) => Len(m[k].parts) = m[k].size

\* The parts are messages of the channel, submitted one message after another.
Owned(s, m) ==
    \A k, p, i : At(m, k, p, i) =>
        i \in 1 .. Len(s.msgs) /\ s.msgs[i].class = m[k].class

Arranged(m) ==
    \A k, p, i, l, o, j : At(m, k, p, i) /\ At(m, l, o, j) =>
        (i < j <=> k < l \/ (k = l /\ p < o))

\* There are no guaranteed messages but the parts.
Covered(s, m) ==
    \A i \in 1 .. Len(s.msgs) :
        s.msgs[i].class \in Stream => \E k, p : At(m, k, p, i)

Composes(s, m) ==
    m \in Seq(Message) /\ Sized(m) /\ Owned(s, m) /\ Arranged(m) /\ Covered(s, m)

\* Types of the messages of an end and their parts.
LEMMA MessageType ==
    ASSUME NEW m \in Seq(Message)
    PROVE  /\ Len(m) \in Nat /\ DOMAIN m = 1 .. Len(m)
           /\ \A k \in 1 .. Len(m) :
                 /\ m[k] \in Message /\ m[k].parts \in Seq(Nat)
                 /\ Len(m[k].parts) \in Nat
                 /\ DOMAIN m[k].parts = 1 .. Len(m[k].parts)
                 /\ m[k].size \in Nat \ {0} /\ m[k].class \in Stream
                 /\ \A p \in 1 .. Len(m[k].parts) : m[k].parts[p] \in Nat
  <1>1. Len(m) \in Nat /\ DOMAIN m = 1 .. Len(m) /\ \A k \in 1 .. Len(m) : m[k] \in Message
    BY RangeOfMember
  <1>2. ASSUME NEW k \in 1 .. Len(m)
        PROVE  /\ m[k].parts \in Seq(Nat)
               /\ m[k].size \in Nat \ {0} /\ m[k].class \in Stream
    BY <1>1 DEF Message
  <1>3. ASSUME NEW q \in Seq(Nat)
        PROVE  /\ Len(q) \in Nat /\ DOMAIN q = 1 .. Len(q)
               /\ \A p \in 1 .. Len(q) : q[p] \in Nat
    BY RangeOfMember
  <1> QED BY <1>1, <1>2, <1>3

\* Types of a part and its place.
LEMMA AtType ==
    ASSUME NEW s, SndOK(s), NEW m, Composes(s, m), NEW k, NEW p, NEW i,
           At(m, k, p, i)
    PROVE  /\ k \in Nat /\ k \in 1 .. Len(m) /\ Len(m) \in Nat
           /\ p \in Nat /\ p \in 1 .. Len(m[k].parts) /\ p <= m[k].size
           /\ i \in Nat /\ i \in 1 .. Len(s.msgs) /\ m[k].parts[p] = i
           /\ s.msgs[i].class = m[k].class /\ m[k].class \in Stream
  <1>1. m \in Seq(Message) /\ Sized(m)
    BY DEF Composes
  <1>2. k \in 1 .. Len(m) /\ p \in 1 .. Len(m[k].parts) /\ m[k].parts[p] = i
    BY DEF At
  <1>3. /\ Len(m) \in Nat /\ Len(m[k].parts) \in Nat /\ m[k].size \in Nat
        /\ m[k].class \in Stream /\ i \in Nat
    BY <1>1, <1>2, MessageType
  <1>4. Len(m[k].parts) <= m[k].size
    BY <1>1, <1>2, <1>3 DEF Sized
  <1>5. i \in 1 .. Len(s.msgs) /\ s.msgs[i].class = m[k].class
    BY DEF Composes, Owned
  <1> QED BY <1>2, <1>3, <1>4, <1>5

\* A message of the channel has one place only.
LEMMA AtOnce ==
    ASSUME NEW s, SndOK(s), NEW m, Composes(s, m), NEW k, NEW p, NEW i,
           At(m, k, p, i), NEW l, NEW o, At(m, l, o, i)
    PROVE  k = l /\ p = o
  <1>1. k \in Nat /\ p \in Nat /\ l \in Nat /\ o \in Nat /\ i \in Nat
    BY AtType
  <1>2. (i < i <=> k < l \/ (k = l /\ p < o)) /\ (i < i <=> l < k \/ (l = k /\ o < p))
    BY DEF Composes, Arranged
  <1> QED BY <1>1, <1>2

\* Messages differ in their parts.
LEMMA PartsApart ==
    ASSUME NEW s, SndOK(s), NEW m, Composes(s, m),
           NEW k \in 1 .. Len(m), NEW l \in 1 .. Len(m), m[k].parts = m[l].parts
    PROVE  k = l
  <1>1. 1 \in 1 .. Len(m[k].parts)
    <2>1. m \in Seq(Message) /\ Sized(m)
      BY DEF Composes
    <2>2. Len(m[k].parts) \in Nat /\ Len(m[k].parts) \in 1 .. m[k].size
      BY <2>1, MessageType DEF Sized
    <2> QED BY <2>2
  <1>2. At(m, k, 1, m[k].parts[1]) /\ At(m, l, 1, m[k].parts[1])
    BY <1>1 DEF At
  <1> QED BY <1>2, AtOnce

\* Steps that submit no guaranteed message keep the composition.
LEMMA ComposesKept ==
    ASSUME NEW s, SndOK(s), NEW t, SndOK(t), Keeps(s, t), Quiet(s, t),
           NEW m, Composes(s, m)
    PROVE  Composes(t, m)
  <1>1. /\ Len(s.msgs) \in Nat /\ Len(t.msgs) \in Nat
        /\ Len(s.msgs) <= Len(t.msgs)
        /\ \A i \in 1 .. Len(s.msgs) : t.msgs[i].class = s.msgs[i].class
    BY SndFields DEF Keeps
  <1>2. ASSUME NEW k, NEW p, NEW i, At(m, k, p, i)
        PROVE  i \in 1 .. Len(t.msgs) /\ t.msgs[i].class = m[k].class
    <2>1. i \in 1 .. Len(s.msgs) /\ s.msgs[i].class = m[k].class
      BY <1>2 DEF Composes, Owned
    <2> QED BY <1>1, <2>1
  <1>3. ASSUME NEW i \in 1 .. Len(t.msgs), t.msgs[i].class \in Stream
        PROVE  \E k, p : At(m, k, p, i)
    <2>1. i \in 1 .. Len(s.msgs)
      BY <1>1, <1>3 DEF Quiet
    <2> QED BY <1>1, <1>3, <2>1 DEF Composes, Covered
  <1> QED BY <1>2, <1>3 DEF Composes, Owned, Covered

\* In u there is one part more than in m, part b of message a, behind all others.
OneMore(m, u, a, b, n) ==
    /\ \A k, p, i : At(u, k, p, i) <=>
           At(m, k, p, i) \/ (k = a /\ p = b /\ i = n)
    /\ \A k, p, i : At(m, k, p, i) =>
           u[k].class = m[k].class /\ (k < a \/ (k = a /\ p < b))

\* One message more in the channel is one part more.
LEMMA ComposesGrows ==
    ASSUME NEW s, SndOK(s), NEW t, SndOK(t), Keeps(s, t),
           NEW n, n = Len(s.msgs) + 1, Len(t.msgs) = n,
           NEW m, Composes(s, m), NEW u, u \in Seq(Message), Sized(u),
           NEW a \in Nat, NEW b \in Nat,
           OneMore(m, u, a, b, n),
           t.msgs[n].class = u[a].class
    PROVE  Composes(t, u)
  <1>1. /\ Len(s.msgs) \in Nat /\ n \in Nat
        /\ \A i \in 1 .. Len(s.msgs) : t.msgs[i].class = s.msgs[i].class
    BY SndFields DEF Keeps
  <1>2. /\ \A k, p, i : At(u, k, p, i) <=>
               At(m, k, p, i) \/ (k = a /\ p = b /\ i = n)
        /\ \A k, p, i : At(m, k, p, i) =>
               u[k].class = m[k].class /\ (k < a \/ (k = a /\ p < b))
    BY DEF OneMore
  <1>3. ASSUME NEW k, NEW p, NEW i, At(u, k, p, i)
        PROVE  i \in 1 .. Len(t.msgs) /\ t.msgs[i].class = u[k].class
    <2>1. CASE At(m, k, p, i)
      <3>1. i \in 1 .. Len(s.msgs) /\ s.msgs[i].class = m[k].class
        BY <2>1 DEF Composes, Owned
      <3> QED BY <1>1, <1>2, <2>1, <3>1
    <2>2. CASE k = a /\ p = b /\ i = n
      BY <1>1, <2>2
    <2> QED BY <1>3, <1>2, <2>1, <2>2
  <1>4. ASSUME NEW k, NEW p, NEW i, At(u, k, p, i), NEW l, NEW o, NEW j, At(u, l, o, j)
        PROVE  i < j <=> k < l \/ (k = l /\ p < o)
    <2>1. \A x, y, z : At(m, x, y, z) =>
              x \in Nat /\ y \in Nat /\ z \in Nat /\ z < n
      BY <1>1, AtType
    <2>2. CASE At(m, k, p, i) /\ At(m, l, o, j)
      BY <2>2 DEF Composes, Arranged
    <2>3. CASE At(m, k, p, i) /\ l = a /\ o = b /\ j = n
      BY <1>2, <2>1, <2>3
    <2>4. CASE k = a /\ p = b /\ i = n /\ At(m, l, o, j)
      BY <1>1, <1>2, <2>1, <2>4
    <2>5. CASE k = a /\ p = b /\ i = n /\ l = a /\ o = b /\ j = n
      BY <1>1, <2>5
    <2> QED BY <1>4, <1>2, <2>2, <2>3, <2>4, <2>5
  <1>5. ASSUME NEW i \in 1 .. Len(t.msgs), t.msgs[i].class \in Stream
        PROVE  \E k, p : At(u, k, p, i)
    <2>1. CASE i = n
      BY <1>2, <2>1
    <2>2. CASE i # n
      <3>1. i \in 1 .. Len(s.msgs)
        BY <1>1, <2>2
      <3>2. \E k, p : At(m, k, p, i)
        BY <1>1, <1>5, <3>1 DEF Composes, Covered
      <3> QED BY <1>2, <3>2
    <2> QED BY <2>1, <2>2
  <1> QED BY <1>3, <1>4, <1>5 DEF Composes, Owned, Arranged, Covered
-----------------------------------------------------------------------------
(***************************************************************************)
(* What the receiving end makes of the parts.                              *)
(***************************************************************************)
\* The last message of stream c that was handed over is the j-th.
Newest(s, d, c, j) == /\ j \in 1 .. Len(d) /\ s.msgs[d[j]].class = c
                      /\ \A l \in j + 1 .. Len(d) : s.msgs[d[l]].class # c

\* Sequence w consists of the first n parts of a message.
Opened(w, message, n) == /\ w \in Seq(Nat) /\ Len(w) = n
                         /\ \A p \in 1 .. n : w[p] = message.parts[p]

\* What waits of a stream are the parts of its newest message, if that is not
\* complete.
Awaited(s, m, d, c, w) ==
    /\ (\A j \in 1 .. Len(d) : s.msgs[d[j]].class # c) => w = <<>>
    /\ \A j, k, p : Newest(s, d, c, j) /\ At(m, k, p, d[j]) =>
          Opened(w, m[k], IF p = m[k].size THEN 0 ELSE p)

SplitInv(s, m, d, w) ==
    w \in [Stream -> Seq(Nat)] /\ \A c \in Stream : Awaited(s, m, d, c, w[c])

\* A set of places that is not empty has a last one.
LEMMA MaxOfPositions ==
    ASSUME NEW n \in Nat, NEW T \in SUBSET (1 .. n), T # {}
    PROVE  \E x \in T : \A y \in T : y <= x
  <1> DEFINE U == {b \in Nat : \A y \in T : y <= b}
  <1>1. n \in U
    OBVIOUS
  <1>2. U \in SUBSET Nat /\ U # {}
    BY <1>1
  <1>3. Min(U) \in U /\ \A b \in U : Min(U) <= b
    <2> HIDE DEF U
    <2> QED BY <1>2, MinOfNaturals
  <1>4. PICK b \in U : \A x \in U : b <= x
    BY <1>3
  <1>5. b \in T
    <2> SUFFICES ASSUME b \notin T PROVE FALSE
      OBVIOUS
    <2>1. \A y \in T : y \in Nat /\ y >= 1 /\ y <= b /\ y # b
      BY <1>4
    <2>2. b >= 1
      <3>1. PICK y \in T : TRUE
        OBVIOUS
      <3>2. b \in Nat /\ y \in Nat /\ y >= 1 /\ y <= b
        BY <1>4, <2>1
      <3> QED BY <3>2
    <2>3. b - 1 \in U
      BY <2>1, <2>2
    <2> QED BY <1>4, <2>3
  <1> QED BY <1>4, <1>5

\* What an end was handed before message i, when i is the next to come.
Before(s, d, i) ==
    /\ Len(d) \in Nat
    /\ \A j \in 1 .. Len(d) : d[j] \in Nat /\ d[j] \in 1 .. Len(s.msgs)
    /\ Len(Append(d, i)) = Len(d) + 1 /\ Append(d, i)[Len(d) + 1] = i
    /\ \A j \in 1 .. Len(d) : Append(d, i)[j] = d[j]
    /\ \A j \in 1 .. Len(d) : s.msgs[d[j]].class = s.msgs[i].class => d[j] < i
    /\ \A x \in 1 .. i - 1 : s.msgs[x].class = s.msgs[i].class =>
          \E j \in 1 .. Len(d) : d[j] = x
    /\ \A j, l \in 1 .. Len(d) :
          /\ j < l /\ s.msgs[d[j]].class = s.msgs[i].class
          /\ s.msgs[d[l]].class = s.msgs[i].class
          => d[j] < d[l]

\* Order and completeness of what was handed over, seen from its last message.
LEMMA BeforeNext ==
    ASSUME NEW s, SndOK(s), NEW d \in Seq(Nat), Range(d) \subseteq 1 .. Len(s.msgs),
           NEW i \in Nat, s.msgs[i].class \in Stream,
           InOrder(s, Append(d, i)), NoGap(s, Append(d, i))
    PROVE  Before(s, d, i)
  <1> DEFINE n == Len(d)
             e == Append(d, i)
  <1>1. n \in Nat /\ \A j \in 1 .. n : d[j] \in Nat /\ d[j] \in 1 .. Len(s.msgs)
    BY RangeOfMember
  <1>2. /\ Len(e) = n + 1 /\ e[n + 1] = i
        /\ \A j \in 1 .. n : e[j] = d[j]
    BY AppendProperties
  <1> HIDE DEF n, e
  <1>3. \A j, l \in 1 .. n + 1 :
            /\ j < l /\ s.msgs[e[j]].class \in Stream
            /\ s.msgs[e[j]].class = s.msgs[e[l]].class
            => e[j] < e[l]
    BY <1>2 DEF InOrder, e
  <1>4. PICK z \in 1 .. Len(e) : z = n + 1 /\ e[z] = i
    BY <1>1, <1>2
  <1>5. ASSUME NEW x \in 1 .. i - 1, s.msgs[x].class = s.msgs[i].class
        PROVE  \E j \in 1 .. n : d[j] = x
    <2>1. x \in 1 .. e[z] - 1 /\ s.msgs[x].class = s.msgs[e[z]].class
      BY <1>4, <1>5
    <2>2. s.msgs[x].class \in Stream
      BY <1>5
    <2>3. NoGap(s, e)
      BY DEF e
    <2>4. PICK j \in 1 .. z - 1 : e[j] = x
      BY <2>1, <2>2, <2>3 DEF NoGap
    <2>5. j \in 1 .. n
      BY <1>1, <1>4, <2>4
    <2> QED BY <1>2, <2>4, <2>5
  <1>6. ASSUME NEW j \in 1 .. n, s.msgs[d[j]].class = s.msgs[i].class
        PROVE  d[j] < i
    <2>1. j \in 1 .. n + 1 /\ n + 1 \in 1 .. n + 1 /\ j < n + 1
      BY <1>1
    <2>2. e[j] = d[j] /\ e[n + 1] = i
      BY <1>2
    <2> QED BY <1>3, <1>6, <2>1, <2>2
  <1>7. ASSUME NEW j \in 1 .. n, NEW l \in 1 .. n, j < l,
               s.msgs[d[j]].class = s.msgs[i].class,
               s.msgs[d[l]].class = s.msgs[i].class
        PROVE  d[j] < d[l]
    <2>1. j \in 1 .. n + 1 /\ l \in 1 .. n + 1
      BY <1>1
    <2>2. e[j] = d[j] /\ e[l] = d[l]
      BY <1>2
    <2> QED BY <1>3, <1>7, <2>1, <2>2
  <1> QED BY <1>1, <1>2, <1>5, <1>6, <1>7 DEF n, e, Before

\* The parts that wait for part p of a message are those before it.
LEMMA PartsBefore ==
    ASSUME NEW s, SndOK(s), NEW m, Composes(s, m), NEW k, NEW p, NEW i,
           At(m, k, p, i),
           NEW d \in Seq(Nat), Range(d) \subseteq 1 .. Len(s.msgs),
           InOrder(s, Append(d, i)), NoGap(s, Append(d, i)),
           NEW w, Awaited(s, m, d, m[k].class, w)
    PROVE  Opened(w, m[k], p - 1)
  <1> DEFINE c == m[k].class
             n == Len(d)
  <1>1. /\ k \in Nat /\ k \in 1 .. Len(m) /\ Len(m) \in Nat
        /\ p \in Nat /\ p \in 1 .. Len(m[k].parts) /\ p <= m[k].size
        /\ i \in Nat /\ s.msgs[i].class = c /\ c \in Stream
        /\ s.msgs[i].class \in Stream
        /\ Len(m[k].parts) \in Nat /\ m[k].size \in Nat /\ m \in Seq(Message)
    BY AtType, MessageType DEF Composes
  <1>2. /\ n \in Nat
        /\ \A j \in 1 .. n : d[j] \in Nat /\ d[j] \in 1 .. Len(s.msgs)
        /\ \A j \in 1 .. n : s.msgs[d[j]].class = c => d[j] < i
        /\ \A x \in 1 .. i - 1 : s.msgs[x].class = c => \E j \in 1 .. n : d[j] = x
        /\ \A j, l \in 1 .. n :
              j < l /\ s.msgs[d[j]].class = c /\ s.msgs[d[l]].class = c
                  => d[j] < d[l]
    <2>1. s.msgs[i].class \in Stream
      BY <1>1
    <2>2. Before(s, d, i)
      BY <1>1, <2>1, BeforeNext
    <2> QED BY <1>1, <2>2 DEF Before
  <1>3. \A l, o, x : At(m, l, o, x) =>
            /\ l \in Nat /\ o \in Nat /\ x \in Nat /\ x >= 1
            /\ s.msgs[x].class = m[l].class
            /\ x < i <=> l < k \/ (l = k /\ o < p)
    BY AtType DEF Composes, Arranged
  <1>4. \A j \in 1 .. n : s.msgs[d[j]].class = c => \E l, o : At(m, l, o, d[j])
    BY <1>1, <1>2 DEF Composes, Covered
  <1>5. \A j, l, o : Newest(s, d, c, j) /\ At(m, l, o, d[j])
            => Opened(w, m[l], IF o = m[l].size THEN 0 ELSE o)
    BY DEF Awaited
  <1> HIDE DEF c, n
  <1>6. CASE p > 1
    <2> DEFINE x == m[k].parts[p - 1]
    <2>1. At(m, k, p - 1, x)
      BY <1>1, <1>6 DEF At
    <2> HIDE DEF x
    <2>2. x \in 1 .. i - 1 /\ s.msgs[x].class = c
      BY <1>1, <1>3, <2>1 DEF c
    <2>3. PICK j \in 1 .. n : d[j] = x
      BY <1>2, <2>2
    <2>4. ASSUME NEW l \in j + 1 .. n, s.msgs[d[l]].class = c
          PROVE  FALSE
      <3>1. l \in 1 .. n /\ j < l
        BY <1>2
      <3>2. x < d[l] /\ d[l] < i
        BY <1>2, <2>2, <2>3, <2>4, <3>1
      <3>3. PICK y, o : At(m, y, o, d[l])
        BY <1>4, <2>4, <3>1
      <3>4. x < d[l] <=> k < y \/ (k = y /\ p - 1 < o)
        BY <2>1, <3>3 DEF Composes, Arranged
      <3>5. /\ y \in Nat /\ o \in Nat /\ k \in Nat /\ p \in Nat
            /\ d[l] < i <=> y < k \/ (y = k /\ o < p)
        BY <1>1, <1>3, <3>3
      <3> QED BY <3>2, <3>4, <3>5
    <2>5. Newest(s, d, c, j)
      BY <2>2, <2>3, <2>4 DEF Newest, n
    <2>6. Opened(w, m[k], IF p - 1 = m[k].size THEN 0 ELSE p - 1)
      BY <1>5, <2>1, <2>3, <2>5
    <2> QED BY <1>1, <2>6
  <1>7. CASE p = 1
    <2>1. CASE \A j \in 1 .. n : s.msgs[d[j]].class # c
      <3>1. w = <<>>
        BY <2>1 DEF Awaited, c, n
      <3>2. w \in Seq(Nat) /\ Len(w) = 0
        BY <3>1, EmptySeq
      <3> QED BY <1>7, <3>2 DEF Opened
    <2>2. CASE \E j \in 1 .. n : s.msgs[d[j]].class = c
      <3> DEFINE T == {j \in 1 .. n : s.msgs[d[j]].class = c}
      <3>1. PICK j \in T : \A l \in T : l <= j
        <4>1. T \in SUBSET (1 .. n) /\ T # {}
          BY <2>2
        <4> HIDE DEF T
        <4> QED BY <1>2, <4>1, MaxOfPositions
      <3>2. j \in 1 .. n /\ s.msgs[d[j]].class = c
        BY <3>1
      <3>3. Newest(s, d, c, j)
        <4> SUFFICES ASSUME NEW l \in j + 1 .. n, s.msgs[d[l]].class = c PROVE FALSE
          BY <3>2 DEF Newest, n
        <4>1. l \in T /\ l > j
          BY <1>2, <3>2
        <4> QED BY <1>2, <3>1, <3>2, <4>1
      <3> HIDE DEF T
      <3>4. PICK l, o : At(m, l, o, d[j])
        BY <1>4, <3>2
      <3>5. /\ l \in 1 .. Len(m) /\ l \in Nat /\ l < k /\ m[l].class = c
            /\ o \in Nat /\ o \in 1 .. Len(m[l].parts) /\ o <= m[l].size
        <4>1. d[j] < i
          BY <1>2, <3>2
        <4>2. /\ l \in 1 .. Len(m) /\ l \in Nat /\ m[l].class = s.msgs[d[j]].class
              /\ o \in Nat /\ o \in 1 .. Len(m[l].parts) /\ o <= m[l].size
          BY <3>4, AtType
        <4>3. l < k \/ (l = k /\ o < p)
          BY <1>3, <3>4, <4>1
        <4> QED BY <1>7, <3>2, <4>2, <4>3
      <3>6. Len(m[l].parts) = m[l].size /\ m[l].size \in Nat
        BY <1>1, <3>5, MessageType DEF Composes, Sized
      <3>7. o = m[l].size
        <4> SUFFICES ASSUME o # m[l].size PROVE FALSE
          OBVIOUS
        <4> DEFINE y == m[l].parts[o + 1]
        <4>1. At(m, l, o + 1, y)
          BY <3>5, <3>6 DEF At
        <4> HIDE DEF y
        <4>2. y \in 1 .. i - 1 /\ s.msgs[y].class = c
          BY <1>1, <1>3, <3>5, <4>1
        <4>3. PICK z \in 1 .. n : d[z] = y
          BY <1>2, <4>2
        <4>4. d[j] < y
          BY <3>4, <3>5, <4>1 DEF Composes, Arranged
        <4>5. z > j
          <5> SUFFICES ASSUME z <= j PROVE FALSE
            BY <1>2, <3>2
          <5>1. z = j \/ z < j
            BY <1>2, <3>2
          <5> QED BY <1>2, <3>2, <4>2, <4>3, <4>4, <5>1
        <4>6. z \in j + 1 .. n
          BY <1>2, <3>2, <4>5
        <4> QED BY <3>3, <4>2, <4>3, <4>6 DEF Newest, n
      <3>8. Opened(w, m[l], 0)
        BY <1>5, <3>3, <3>4, <3>7
      <3> QED BY <1>7, <3>8 DEF Opened
    <2> QED BY <2>1, <2>2
  <1> QED BY <1>1, <1>6, <1>7

\* The invariant of the parts that wait, when one more was handed over.
LEMMA SplitNext ==
    ASSUME NEW s, SndOK(s), NEW m, Composes(s, m), NEW k, NEW p, NEW i,
           At(m, k, p, i),
           NEW d \in Seq(Nat), Range(d) \subseteq 1 .. Len(s.msgs),
           InOrder(s, Append(d, i)), NoGap(s, Append(d, i)),
           NEW w, SplitInv(s, m, d, w), NEW v \in [Stream -> Seq(Nat)],
           \A b \in Stream : b # m[k].class => v[b] = w[b],
           Opened(v[m[k].class], m[k], IF p = m[k].size THEN 0 ELSE p)
    PROVE  SplitInv(s, m, Append(d, i), v)
  <1> DEFINE c == m[k].class
             n == Len(d)
             e == Append(d, i)
  <1>1. i \in Nat /\ s.msgs[i].class = c /\ c \in Stream
    BY AtType
  <1>2. /\ n \in Nat /\ Len(e) = n + 1 /\ e[n + 1] = i
        /\ \A j \in 1 .. n : e[j] = d[j]
    <2>1. s.msgs[i].class \in Stream
      BY <1>1
    <2>2. Before(s, d, i)
      BY <1>1, <2>1, BeforeNext
    <2> QED BY <2>2 DEF Before
  <1> HIDE DEF n, e, c
  <1>3. Awaited(s, m, e, c, v[c])
    <2>1. n + 1 \in 1 .. Len(e) /\ s.msgs[e[n + 1]].class = c
      BY <1>1, <1>2
    <2>2. ASSUME NEW j, NEW l, NEW o, Newest(s, e, c, j), At(m, l, o, e[j])
          PROVE  Opened(v[c], m[l], IF o = m[l].size THEN 0 ELSE o)
      <3>1. j \in 1 .. n + 1
        BY <1>2, <2>2 DEF Newest
      <3>2. j = n + 1
        <4> SUFFICES ASSUME j # n + 1 PROVE FALSE
          OBVIOUS
        <4>1. n + 1 \in j + 1 .. Len(e)
          BY <1>2, <3>1
        <4> QED BY <2>1, <2>2, <4>1 DEF Newest
      <3>3. l = k /\ o = p
        BY <1>2, <2>2, <3>2, AtOnce
      <3> QED BY <3>3 DEF c
    <2> QED BY <2>1, <2>2 DEF Awaited
  <1>4. ASSUME NEW b \in Stream, b # c
        PROVE  Awaited(s, m, e, b, v[b])
    <2>1. v[b] = w[b] /\ Awaited(s, m, d, b, w[b])
      BY <1>4 DEF SplitInv, c
    <2>2. ASSUME \A j \in 1 .. Len(e) : s.msgs[e[j]].class # b
          PROVE  v[b] = <<>>
      <3>1. \A j \in 1 .. n : j \in 1 .. Len(e) /\ e[j] = d[j]
        BY <1>2
      <3>2. \A j \in 1 .. n : s.msgs[d[j]].class # b
        BY <2>2, <3>1
      <3> QED BY <2>1, <3>2 DEF Awaited, n
    <2>3. ASSUME NEW j, NEW l, NEW o, Newest(s, e, b, j), At(m, l, o, e[j])
          PROVE  Opened(v[b], m[l], IF o = m[l].size THEN 0 ELSE o)
      <3>1. j \in 1 .. n + 1 /\ s.msgs[e[j]].class = b
        BY <1>2, <2>3 DEF Newest
      <3>2. j \in 1 .. n /\ e[j] = d[j]
        BY <1>1, <1>2, <1>4, <3>1
      <3>3. ASSUME NEW z \in j + 1 .. n
            PROVE  s.msgs[d[z]].class # b
        <4>1. z \in j + 1 .. Len(e) /\ z \in 1 .. n
          BY <1>2, <3>2
        <4> QED BY <1>2, <2>3, <4>1 DEF Newest
      <3>4. Newest(s, d, b, j)
        BY <3>1, <3>2, <3>3 DEF Newest, n
      <3> QED BY <2>1, <2>3, <3>2, <3>4 DEF Awaited
    <2> QED BY <2>2, <2>3 DEF Awaited
  <1> QED BY <1>3, <1>4 DEF SplitInv, e
-----------------------------------------------------------------------------
(***************************************************************************)
(* The queue of whole messages and what was shown.  Below E[k] is the k-th *)
(* message as it stands in the queue and C[k] its stream; D are the        *)
(* messages of which all parts were handed over.                           *)
(***************************************************************************)
Queued == [parts : Seq(Nat), serial : Nat]

Sorted(q) == \A i, j \in 1 .. Len(q) : i < j => q[i].serial < q[j].serial

\* Messages have serials and parts of their own, and within a stream the
\* serials grow.
EntriesApart(E, C, D) ==
    /\ D \subseteq Nat
    /\ \A k \in D : E[k] \in Queued
    /\ \A k, l \in D : k # l => /\ E[k].serial # E[l].serial
                                /\ E[k].parts # E[l].parts
    /\ \A k, l \in D : k < l /\ C[k] = C[l] => E[k].serial < E[l].serial

\* The queue holds, or the game was shown, what is whole, and nothing else.
\* The queue is sorted, and what was shown came in order and before what is
\* queued of its stream.
QueueInv(E, C, D, q, h) ==
    /\ Sorted(q)
    /\ \A j \in 1 .. Len(q) : \E k \in D : q[j] = E[k]
    /\ \A i \in 1 .. Len(h) : \E k \in D : h[i] = E[k].parts
    /\ \A k \in D : \/ \E j \in 1 .. Len(q) : q[j] = E[k]
                    \/ \E i \in 1 .. Len(h) : h[i] = E[k].parts
    /\ \A k, l \in D : C[k] = C[l] =>
          /\ \A i, j \in 1 .. Len(h) :
                i < j /\ h[i] = E[k].parts /\ h[j] = E[l].parts => k < l
          /\ \A i \in 1 .. Len(h), j \in 1 .. Len(q) :
                h[i] = E[k].parts /\ q[j] = E[l] => k < l

\* Types of the elements of a queue.
LEMMA QueuedType ==
    ASSUME NEW q \in Seq(Queued)
    PROVE  /\ Len(q) \in Nat
           /\ \A j \in 1 .. Len(q) : q[j] \in Queued /\ q[j].serial \in Nat
  <1>1. Len(q) \in Nat /\ \A j \in 1 .. Len(q) : q[j] \in Queued
    BY RangeOfMember
  <1> QED BY <1>1 DEF Queued

\* insertReceived puts a message before those with higher serials.
LEMMA InsertPlace ==
    ASSUME NEW q \in Seq(Queued), Sorted(q), NEW x \in Queued
    PROVE  /\ Insert(q, x) \in Seq(Queued)
           /\ \E i : /\ Inserted(q, Insert(q, x), x, i)
                     /\ \A j \in 1 .. i - 1 : q[j].serial <= x.serial
                     /\ \A j \in i .. Len(q) : q[j].serial > x.serial
  <1> DEFINE Higher == {k \in 1 .. Len(q) : q[k].serial > x.serial}
             i == IF Higher # {} THEN Min(Higher) ELSE 0
             u == Insert(q, x)
  <1>1. /\ Len(q) \in Nat /\ x.serial \in Nat
        /\ \A j \in 1 .. Len(q) : q[j] \in Queued /\ q[j].serial \in Nat
    BY QueuedType DEF Queued
  <1>2. u = IF i = 0 THEN Append(q, x) ELSE InsertAt(q, i, x)
    BY DEF Insert, SelectInSeq
  <1>3. Higher \in SUBSET Nat
    BY <1>1
  <1>4. Higher # {} => Min(Higher) \in Higher /\ \A j \in Higher : Min(Higher) <= j
    BY <1>3, MinOfNaturals
  <1> HIDE DEF u
  <1>5. CASE Higher = {}
    <2>1. u = Append(q, x) /\ \A j \in 1 .. Len(q) : q[j].serial <= x.serial
      BY <1>1, <1>2, <1>5
    <2>2. /\ Append(q, x) \in Seq(Queued) /\ Len(Append(q, x)) = Len(q) + 1
          /\ \A j \in 1 .. Len(q) : Append(q, x)[j] = q[j]
          /\ Append(q, x)[Len(q) + 1] = x
      BY AppendProperties
    <2> DEFINE a == Len(q) + 1
    <2>3. /\ a \in 1 .. Len(q) + 1 /\ Len(u) = Len(q) + 1
          /\ \A j \in 1 .. Len(q) + 1 :
                u[j] = IF j < a THEN q[j] ELSE IF j = a THEN x ELSE q[j - 1]
      BY <1>1, <2>1, <2>2
    <2>4. /\ Inserted(q, u, x, a)
          /\ \A j \in 1 .. a - 1 : q[j].serial <= x.serial
          /\ \A j \in a .. Len(q) : q[j].serial > x.serial
      BY <1>1, <2>1, <2>3 DEF Inserted
    <2> HIDE DEF a
    <2> QED BY <2>1, <2>2, <2>4 DEF u
  <1>6. CASE Higher # {}
    <2>1. /\ i \in 1 .. Len(q) /\ q[i].serial > x.serial /\ u = InsertAt(q, i, x)
          /\ \A j \in 1 .. Len(q) : q[j].serial > x.serial => i <= j
      <3>1. i = Min(Higher) /\ i \in Higher /\ \A j \in Higher : i <= j
        BY <1>4, <1>6
      <3>2. i \in 1 .. Len(q) /\ q[i].serial > x.serial
        <4> HIDE DEF i
        <4> QED BY <3>1
      <3>3. \A j \in 1 .. Len(q) : q[j].serial > x.serial => i <= j
        <4> HIDE DEF i
        <4> QED BY <3>1
      <3>4. u = InsertAt(q, i, x)
        <4> HIDE DEF i
        <4> QED BY <1>1, <1>2, <3>2
      <3> QED BY <3>2, <3>3, <3>4
    <2> HIDE DEF i
    <2>2. /\ InsertAt(q, i, x) \in Seq(Queued)
          /\ Inserted(q, InsertAt(q, i, x), x, i)
      BY <2>1, InsertAtPlaces
    <2>3. Inserted(q, u, x, i)
      BY <2>1, <2>2
    <2>4. ASSUME NEW j \in 1 .. i - 1
          PROVE  q[j].serial <= x.serial
      BY <1>1, <2>1
    <2>5. ASSUME NEW j \in i .. Len(q)
          PROVE  q[j].serial > x.serial
      <3>1. CASE j = i
        BY <2>1, <3>1
      <3>2. CASE j # i
        <4>1. j \in 1 .. Len(q) /\ i < j /\ i \in 1 .. Len(q)
          BY <1>1, <2>1, <3>2
        <4>2. q[i].serial < q[j].serial
          BY <4>1 DEF Sorted
        <4> QED BY <1>1, <2>1, <4>1, <4>2
      <3> QED BY <3>1, <3>2
    <2> QED BY <2>1, <2>2, <2>3, <2>4, <2>5 DEF u
  <1> QED BY <1>5, <1>6

\* One message more is whole: it goes into the queue.
LEMMA WholeQueued ==
    ASSUME NEW E, NEW C, NEW D, NEW k, k \notin D, EntriesApart(E, C, D \cup {k}),
           NEW q \in Seq(Queued), NEW h, QueueInv(E, C, D, q, h),
           \A l \in D : C[l] = C[k] => l < k
    PROVE  /\ Insert(q, E[k]) \in Seq(Queued)
           /\ QueueInv(E, C, D \cup {k}, Insert(q, E[k]), h)
  <1> DEFINE x == E[k]
             u == Insert(q, x)
             F == D \cup {k}
  <1>1. /\ F \subseteq Nat /\ x \in Queued /\ x.serial \in Nat
        /\ \A l \in D : E[l] \in Queued /\ E[l].serial \in Nat
                        /\ E[l].serial # x.serial /\ E[l].parts # x.parts
        /\ \A l \in D : E[l] # x
    BY DEF EntriesApart, Queued
  <1>2. Sorted(q)
    BY DEF QueueInv
  <1> HIDE DEF u, x
  <1>3. u \in Seq(Queued)
    BY <1>1, <1>2, InsertPlace DEF u
  <1>4. PICK i : /\ Inserted(q, u, x, i)
                 /\ \A j \in 1 .. i - 1 : q[j].serial <= x.serial
                 /\ \A j \in i .. Len(q) : q[j].serial > x.serial
    BY <1>1, <1>2, InsertPlace DEF u
  <1>5. /\ Len(q) \in Nat /\ i \in 1 .. Len(q) + 1 /\ Len(u) = Len(q) + 1
        /\ u[i] = x
        /\ \A j \in 1 .. Len(u) :
              /\ j < i => j \in 1 .. Len(q) /\ u[j] = q[j]
              /\ j > i => j - 1 \in 1 .. Len(q) /\ j - 1 >= i /\ u[j] = q[j - 1]
        /\ \A j \in 1 .. Len(q) : q[j].serial \in Nat
    BY <1>4, QueuedType DEF Inserted
  <1>6. \A j \in 1 .. Len(q) : \E l \in D : q[j] = E[l]
    BY DEF QueueInv
  <1>7. \A j \in 1 .. Len(q) : /\ q[j].serial # x.serial
                              /\ (j < i => q[j].serial < x.serial)
                              /\ (j >= i => q[j].serial > x.serial)
    BY <1>1, <1>4, <1>5, <1>6
  <1>8. Sorted(u)
    <2> SUFFICES ASSUME NEW a \in 1 .. Len(u), NEW b \in 1 .. Len(u), a < b
                 PROVE  u[a].serial < u[b].serial
      BY DEF Sorted
    <2>1. CASE b < i
      BY <1>2, <1>5, <2>1 DEF Sorted
    <2>2. CASE b = i
      BY <1>5, <1>7, <2>2
    <2>3. CASE b > i /\ a < i
      <3>1. /\ a \in 1 .. Len(q) /\ b - 1 \in 1 .. Len(q) /\ a < b - 1
            /\ u[a] = q[a] /\ u[b] = q[b - 1]
        BY <1>5, <2>3
      <3> QED BY <1>2, <3>1 DEF Sorted
    <2>4. CASE b > i /\ a = i
      BY <1>5, <1>7, <2>4
    <2>5. CASE b > i /\ a > i
      <3>1. /\ a - 1 \in 1 .. Len(q) /\ b - 1 \in 1 .. Len(q) /\ a - 1 < b - 1
            /\ u[a] = q[a - 1] /\ u[b] = q[b - 1]
        BY <1>5, <2>5
      <3> QED BY <1>2, <3>1 DEF Sorted
    <2> QED BY <1>5, <2>1, <2>2, <2>3, <2>4, <2>5
  <1>9. ASSUME NEW j \in 1 .. Len(u)
        PROVE  j = i \/ \E l \in 1 .. Len(q) : u[j] = q[l]
    <2>1. j < i \/ j = i \/ j > i
      BY <1>5
    <2> QED BY <1>5, <2>1
  <1>10. ASSUME NEW l \in 1 .. Len(q)
         PROVE  \E j \in 1 .. Len(u) : u[j] = q[l]
    <2>1. CASE l < i
      <3>1. l \in 1 .. Len(u) /\ u[l] = q[l]
        BY <1>5, <2>1
      <3> QED BY <3>1
    <2>2. CASE l >= i
      <3> DEFINE j == l + 1
      <3>1. j \in 1 .. Len(u) /\ j > i /\ j - 1 = l
        BY <1>5, <2>2
      <3> HIDE DEF j
      <3>2. u[j] = q[l]
        BY <1>5, <3>1
      <3> QED BY <3>1, <3>2
    <2> QED BY <1>5, <2>1, <2>2
  <1>11. ASSUME NEW j \in 1 .. Len(u)
         PROVE  \E l \in F : u[j] = E[l]
    <2>1. CASE j = i
      BY <1>5, <2>1 DEF x
    <2>2. CASE j # i
      <3>1. PICK z \in 1 .. Len(q) : u[j] = q[z]
        BY <1>9, <2>2
      <3> QED BY <1>6, <3>1
    <2> QED BY <2>1, <2>2
  <1>12. \A j \in 1 .. Len(h) : \E l \in F : h[j] = E[l].parts
    BY DEF QueueInv
  <1>13. \A l \in F : \/ \E j \in 1 .. Len(u) : u[j] = E[l]
                      \/ \E j \in 1 .. Len(h) : h[j] = E[l].parts
    <2>1. ASSUME NEW l \in D
          PROVE  \/ \E j \in 1 .. Len(u) : u[j] = E[l]
                 \/ \E j \in 1 .. Len(h) : h[j] = E[l].parts
      <3>1. \/ \E j \in 1 .. Len(q) : q[j] = E[l]
            \/ \E j \in 1 .. Len(h) : h[j] = E[l].parts
        BY DEF QueueInv
      <3> QED BY <1>10, <3>1
    <2>2. i \in 1 .. Len(u) /\ u[i] = E[k]
      BY <1>5 DEF x
    <2> QED BY <2>1, <2>2
  <1>14. ASSUME NEW a \in F, NEW b \in F, C[a] = C[b], NEW j \in 1 .. Len(h),
                h[j] = E[a].parts
         PROVE  /\ a \in D
                /\ \A l \in 1 .. Len(h) : j < l /\ h[l] = E[b].parts => a < b
                /\ \A l \in 1 .. Len(u) : u[l] = E[b] => a < b
    <2>1. \A l \in 1 .. Len(h) : \E z \in D : h[l] = E[z].parts
      BY DEF QueueInv
    <2>2. \A l \in 1 .. Len(h) : h[l] # x.parts
      BY <1>1, <2>1
    <2>3. a \in D
      BY <1>14, <2>2 DEF x
    <2>4. ASSUME NEW l \in 1 .. Len(h), j < l, h[l] = E[b].parts
          PROVE  a < b
      <3>1. b \in D
        BY <2>2, <2>4 DEF x
      <3> QED BY <1>14, <2>3, <2>4, <3>1 DEF QueueInv
    <2>5. ASSUME NEW l \in 1 .. Len(u), u[l] = E[b]
          PROVE  a < b
      <3>1. CASE b = k
        BY <1>14, <2>3, <3>1
      <3>2. CASE b # k
        <4>1. b \in D /\ l # i
          BY <1>1, <1>5, <2>5, <3>2 DEF x
        <4>2. PICK z \in 1 .. Len(q) : q[z] = E[b]
          BY <1>9, <2>5, <4>1
        <4> QED BY <1>14, <2>3, <4>1, <4>2 DEF QueueInv
      <3> QED BY <3>1, <3>2
    <2> QED BY <2>3, <2>4, <2>5
  <1>15. QueueInv(E, C, F, u, h)
    BY <1>8, <1>11, <1>12, <1>13, <1>14 DEF QueueInv
  <1> QED BY <1>3, <1>15 DEF u, x

\* The game is shown the first message of the queue.
LEMMA WholeShown ==
    ASSUME NEW E, NEW C, NEW D, EntriesApart(E, C, D), NEW q \in Seq(Queued), q # <<>>,
           NEW h \in Seq(Seq(Nat)), QueueInv(E, C, D, q, h)
    PROVE  /\ Tail(q) \in Seq(Queued) /\ Append(h, Head(q).parts) \in Seq(Seq(Nat))
           /\ QueueInv(E, C, D, Tail(q), Append(h, Head(q).parts))
  <1> DEFINE x == Head(q).parts
             u == Tail(q)
             g == Append(h, x)
             n == Len(h) + 1
  <1>1. /\ Len(q) \in Nat /\ Len(q) >= 1 /\ q[1] = Head(q) /\ q[1] \in Queued
        /\ u \in Seq(Queued) /\ Len(u) = Len(q) - 1
        /\ \A j \in 1 .. Len(q) - 1 : u[j] = q[j + 1]
    <2>1. Len(q) \in Nat \ {0} /\ Head(q) = q[1]
      BY EmptySeq, LenProperties
    <2>2. \A j \in 1 .. Len(q) : q[j] \in Queued
      BY QueuedType
    <2> QED BY <2>1, <2>2, HeadTailProperties
  <1>2. x \in Seq(Nat) /\ x = q[1].parts
    BY <1>1 DEF Queued
  <1> HIDE DEF x
  <1>3. /\ g \in Seq(Seq(Nat)) /\ Len(h) \in Nat /\ Len(g) = n /\ g[n] = x
        /\ \A j \in 1 .. Len(h) : g[j] = h[j]
    BY <1>2, AppendProperties, LenProperties
  <1> HIDE DEF g, u
  <1>4. /\ n \in Nat /\ n \in 1 .. Len(g)
        /\ \A j \in 1 .. Len(g) : j # n => j \in 1 .. Len(h) /\ g[j] = h[j] /\ j < n
        /\ \A j \in 1 .. Len(h) : j \in 1 .. Len(g) /\ g[j] = h[j]
        /\ 1 \in 1 .. Len(q)
    BY SMTT(30), <1>1, <1>3
  <1>5. ASSUME NEW j \in 1 .. Len(u)
         PROVE  j + 1 \in 1 .. Len(q) /\ u[j] = q[j + 1] /\ 1 < j + 1
    <2>1. j \in 1 .. Len(q) - 1
      BY <1>1
    <2> QED BY <1>1, <2>1
  <1>6. ASSUME NEW j \in 1 .. Len(q), j # 1
         PROVE  \E z \in 1 .. Len(u) : u[z] = q[j]
    <2> DEFINE z == j - 1
    <2>1. z \in 1 .. Len(u) /\ z + 1 = j
      BY <1>1, <1>6
    <2> HIDE DEF z
    <2>2. u[z] = q[j]
      BY <1>5, <2>1
    <2> QED BY <2>1, <2>2
  <1> HIDE DEF n
  <1>7. PICK t \in D : q[1] = E[t]
    BY <1>4 DEF QueueInv
  <1>8. \A k \in D : E[k].parts = x => k = t
    BY <1>2, <1>7 DEF EntriesApart
  <1>9. Sorted(u)
    <2> SUFFICES ASSUME NEW a \in 1 .. Len(u), NEW b \in 1 .. Len(u), a < b
                 PROVE  u[a].serial < u[b].serial
      BY DEF Sorted
    <2>1. /\ a + 1 \in 1 .. Len(q) /\ u[a] = q[a + 1] /\ a + 1 < b + 1
          /\ b + 1 \in 1 .. Len(q) /\ u[b] = q[b + 1]
      BY <1>1, <1>5
    <2> QED BY <2>1 DEF QueueInv, Sorted
  <1>10. ASSUME NEW j \in 1 .. Len(u)
        PROVE  \E k \in D : u[j] = E[k]
    BY <1>5 DEF QueueInv
  <1>11. ASSUME NEW i \in 1 .. Len(g)
        PROVE  \E k \in D : g[i] = E[k].parts
    <2>1. CASE i = n
      BY <1>2, <1>3, <1>7, <2>1
    <2>2. CASE i # n
      BY <1>4, <2>2 DEF QueueInv
    <2> QED BY <2>1, <2>2
  <1>12. ASSUME NEW k \in D
         PROVE  \/ \E j \in 1 .. Len(u) : u[j] = E[k]
                \/ \E i \in 1 .. Len(g) : g[i] = E[k].parts
    <2>1. CASE \E j \in 1 .. Len(q) : q[j] = E[k]
      <3>1. PICK j \in 1 .. Len(q) : q[j] = E[k]
        BY <2>1
      <3>2. CASE j = 1
        BY <1>2, <1>3, <1>4, <3>1, <3>2
      <3>3. CASE j # 1
        BY <1>6, <3>1, <3>3
      <3> QED BY <3>2, <3>3
    <2>2. CASE \E i \in 1 .. Len(h) : h[i] = E[k].parts
      BY <1>4, <2>2
    <2> QED BY <2>1, <2>2 DEF QueueInv
  <1>13. ASSUME NEW k \in D, NEW l \in D, C[k] = C[l], NEW i \in 1 .. Len(g),
                g[i] = E[k].parts
         PROVE  /\ \A j \in 1 .. Len(g) : i < j /\ g[j] = E[l].parts => k < l
                /\ \A j \in 1 .. Len(u) : u[j] = E[l] => k < l
    <2>1. CASE i # n
      <3>1. i \in 1 .. Len(h) /\ h[i] = E[k].parts
        BY <1>4, <1>13, <2>1
      <3>2. ASSUME NEW j \in 1 .. Len(g), i < j, g[j] = E[l].parts
            PROVE  k < l
        <4>1. CASE j = n
          <5>1. l = t
            BY <1>3, <1>8, <3>2, <4>1
          <5>2. 1 \in 1 .. Len(q) /\ q[1] = E[l]
            BY <1>4, <1>7, <5>1
          <5> QED BY <1>13, <3>1, <5>2 DEF QueueInv
        <4>2. CASE j # n
          <5>1. j \in 1 .. Len(h) /\ h[j] = E[l].parts
            BY <1>4, <3>2, <4>2
          <5> QED BY <1>13, <3>1, <3>2, <5>1 DEF QueueInv
        <4> QED BY <4>1, <4>2
      <3>3. ASSUME NEW j \in 1 .. Len(u), u[j] = E[l]
            PROVE  k < l
        <4>1. PICK z \in 1 .. Len(q) : q[z] = E[l]
          BY <1>5, <3>3
        <4> QED BY <1>13, <3>1, <4>1 DEF QueueInv
      <3> QED BY <3>2, <3>3
    <2>2. CASE i = n
      <3>1. k = t
        BY <1>3, <1>8, <1>13, <2>2
      <3>2. ASSUME NEW j \in 1 .. Len(u), u[j] = E[l]
            PROVE  k < l
        <4>1. /\ j + 1 \in 1 .. Len(q) /\ q[j + 1] = E[l] /\ 1 < j + 1
              /\ 1 \in 1 .. Len(q)
          BY <1>4, <1>5, <3>2
        <4>2. q[1].serial < q[j + 1].serial
          BY <4>1 DEF QueueInv, Sorted
        <4>3. E[k].serial < E[l].serial
          BY <1>7, <3>1, <4>1, <4>2
        <4>4. /\ k \in Nat /\ l \in Nat /\ E[k].serial \in Nat /\ E[l].serial \in Nat
              /\ l < k => E[l].serial < E[k].serial
          BY <1>13 DEF EntriesApart, Queued
        <4> QED BY <4>3, <4>4
      <3>3. \A j \in 1 .. Len(g) : ~(i < j)
        BY <1>3, <1>4, <2>2
      <3> QED BY <3>2, <3>3
    <2> QED BY <2>1, <2>2
  <1>14. QueueInv(E, C, D, u, g)
    BY <1>9, <1>10, <1>11, <1>12, <1>13 DEF QueueInv
  <1> QED BY <1>1, <1>3, <1>14 DEF u, g, x

\* Only what is whole counts.
LEMMA WholesKept ==
    ASSUME NEW E, NEW C, NEW D, NEW q, NEW h, QueueInv(E, C, D, q, h),
           NEW F, NEW B, \A k \in D : F[k] = E[k] /\ B[k] = C[k]
    PROVE  QueueInv(F, B, D, q, h)
  <1>1. /\ \A j \in 1 .. Len(q) : \E k \in D : q[j] = F[k]
        /\ \A i \in 1 .. Len(h) : \E k \in D : h[i] = F[k].parts
        /\ \A k \in D : \/ \E j \in 1 .. Len(q) : q[j] = F[k]
                        \/ \E i \in 1 .. Len(h) : h[i] = F[k].parts
    BY DEF QueueInv
  <1>2. ASSUME NEW k \in D, NEW l \in D, B[k] = B[l]
        PROVE  /\ \A i, j \in 1 .. Len(h) :
                     i < j /\ h[i] = F[k].parts /\ h[j] = F[l].parts => k < l
               /\ \A i \in 1 .. Len(h), j \in 1 .. Len(q) :
                     h[i] = F[k].parts /\ q[j] = F[l] => k < l
    <2>1. F[k] = E[k] /\ F[l] = E[l] /\ C[k] = C[l]
      BY <1>2
    <2>2. /\ \A i, j \in 1 .. Len(h) :
                i < j /\ h[i] = E[k].parts /\ h[j] = E[l].parts => k < l
          /\ \A i \in 1 .. Len(h), j \in 1 .. Len(q) :
                h[i] = E[k].parts /\ q[j] = E[l] => k < l
      BY <2>1 DEF QueueInv
    <2> QED BY <2>1, <2>2
  <1> QED BY <1>1, <1>2 DEF QueueInv
-----------------------------------------------------------------------------
(***************************************************************************)
(* What the sender does to the messages of its game.                       *)
(***************************************************************************)
\* None disappears, parts are only added, and a whole message stays as it is.
Grown(m, u) ==
    /\ Len(m) <= Len(u)
    /\ \A k \in 1 .. Len(m) :
          /\ u[k].class = m[k].class /\ u[k].size = m[k].size
          /\ Len(m[k].parts) = m[k].size => u[k] = m[k]
          /\ Len(m[k].parts) <= Len(u[k].parts)
          /\ \A p \in 1 .. Len(m[k].parts) : u[k].parts[p] = m[k].parts[p]

\* A step that adds nothing.
LEMMA GrownRefl ==
    ASSUME NEW m \in Seq(Message)
    PROVE  Grown(m, m)
  <1>1. /\ Len(m) \in Nat /\ \A k \in 1 .. Len(m) : Len(m[k].parts) \in Nat
    BY MessageType
  <1> QED BY <1>1 DEF Grown

\* SendMsg with the first part.
LEMMA MessageBegun ==
    ASSUME NEW s, SndOK(s), NEW c \in Stream, NEW m, Composes(s, m),
           \A k \in 1 .. Len(m) : Len(m[k].parts) = m[k].size,
           NEW x \in Message, x.class = c, x.parts = <<Len(s.msgs) + 1>>
    PROVE  Composes(PutMessage(s, c), Append(m, x)) /\ Grown(m, Append(m, x))
  <1> DEFINE t == PutMessage(s, c)
             u == Append(m, x)
             n == Len(s.msgs) + 1
             a == Len(m) + 1
  <1>1. /\ SndOK(t) /\ Keeps(s, t) /\ Len(t.msgs) = n /\ Len(s.msgs) \in Nat
        /\ t.msgs[n].class = c
    BY SentMessage
  <1>2. /\ m \in Seq(Message) /\ Len(m) \in Nat
        /\ \A k \in 1 .. Len(m) : Len(m[k].parts) \in Nat /\ m[k].size \in Nat \ {0}
    BY MessageType DEF Composes
  <1>3. /\ u \in Seq(Message) /\ Len(u) = Len(m) + 1 /\ u[Len(m) + 1] = x
        /\ \A k \in 1 .. Len(m) : u[k] = m[k]
    BY <1>2, AppendProperties
  <1> HIDE DEF t, u
  <1>4. /\ x.size \in Nat \ {0} /\ Len(x.parts) = 1 /\ x.parts[1] = n
    <2>1. n \in Nat
      BY <1>1
    <2> QED BY <2>1, OneElement DEF Message
  <1> HIDE DEF n
  <1>5. /\ a \in Nat /\ u[a] = x /\ a \in 1 .. Len(u)
        /\ \A k \in 1 .. Len(u) : k = a \/ k \in 1 .. Len(m)
        /\ \A k \in 1 .. Len(m) : k \in 1 .. Len(u) /\ k < a
    BY <1>2, <1>3
  <1> HIDE DEF a
  <1>6. Sized(u)
    <2> SUFFICES ASSUME NEW k \in 1 .. Len(u)
                 PROVE  /\ Len(u[k].parts) \in 1 .. u[k].size
                        /\ Len(u[k].parts) = u[k].size \/ ~(k < Len(u))
      BY DEF Sized
    <2>1. CASE k = a
      <3>1. ~(k < Len(u))
        BY <1>2, <1>3, <2>1 DEF a
      <3>2. u[k] = x /\ Len(x.parts) = 1 /\ 1 \in 1 .. x.size
        BY <1>4, <1>5, <2>1
      <3> QED BY <3>1, <3>2
    <2>2. CASE k # a
      <3>1. k \in 1 .. Len(m) /\ u[k] = m[k]
        BY <1>3, <1>5, <2>2
      <3>2. /\ Len(m[k].parts) = m[k].size /\ m[k].size \in Nat
            /\ m[k].size # 0
        BY <1>2, <3>1
      <3>3. m[k].size \in 1 .. m[k].size
        BY <3>2
      <3> QED BY <3>1, <3>2, <3>3
    <2> QED BY <2>1, <2>2
  <1>7. ASSUME NEW k, NEW p, NEW i
        PROVE  At(u, k, p, i) <=> At(m, k, p, i) \/ (k = a /\ p = 1 /\ i = n)
    <2>1. CASE k = a
      <3>1. k \notin 1 .. Len(m)
        BY <1>2, <2>1 DEF a
      <3>2. p \in 1 .. Len(x.parts) <=> p = 1
        BY <1>4
      <3> QED BY <1>4, <1>5, <2>1, <3>1, <3>2 DEF At
    <2>2. CASE k # a
      BY <1>3, <1>5, <2>2 DEF At
    <2> QED BY <2>1, <2>2
  <1>8. ASSUME NEW k, NEW p, NEW i, At(m, k, p, i)
        PROVE  u[k].class = m[k].class /\ (k < a \/ (k = a /\ p < 1))
    BY <1>3, <1>5, <1>8 DEF At
  <1>9. Composes(t, u)
    <2>1. n = Len(s.msgs) + 1 /\ t.msgs[n].class = u[a].class
      BY <1>1, <1>5 DEF n
    <2>2. OneMore(m, u, a, 1, n)
      BY <1>7, <1>8 DEF OneMore
    <2> QED BY <1>1, <1>3, <1>5, <1>6, <2>1, <2>2, ComposesGrows
  <1>10. Grown(m, u)
    BY <1>2, <1>3, <1>5 DEF Grown
  <1> QED BY <1>9, <1>10 DEF t, u

\* SendMsg with another part.
LEMMA PartAdded ==
    ASSUME NEW s, SndOK(s), NEW m, Composes(s, m),
           NEW a \in 1 .. Len(m), Len(m[a].parts) < m[a].size
    PROVE  LET u == [m EXCEPT ![a].parts = Append(@, Len(s.msgs) + 1)]
           IN Composes(PutMessage(s, m[a].class), u) /\ Grown(m, u)
  <1> DEFINE c == m[a].class
             t == PutMessage(s, c)
             n == Len(s.msgs) + 1
             q == Append(m[a].parts, n)
             x == [m[a] EXCEPT !.parts = q]
             u == [m EXCEPT ![a].parts = Append(@, n)]
             b == Len(m[a].parts) + 1
  <1>1. /\ m \in Seq(Message) /\ Sized(m) /\ Len(m) \in Nat
        /\ \A k \in 1 .. Len(m) : Len(m[k].parts) \in Nat /\ m[k].size \in Nat \ {0}
        /\ m[a] \in Message /\ c \in Stream /\ m[a].parts \in Seq(Nat)
        /\ a \in Nat /\ DOMAIN m = 1 .. Len(m)
    BY MessageType DEF Composes
  <1>2. /\ SndOK(t) /\ Keeps(s, t) /\ Len(t.msgs) = n /\ Len(s.msgs) \in Nat
        /\ t.msgs[n].class = c /\ n \in Nat
    BY <1>1, SentMessage
  <1> HIDE DEF t, n
  <1>3. /\ q \in Seq(Nat) /\ Len(q) = Len(m[a].parts) + 1
        /\ \A p \in 1 .. Len(m[a].parts) : q[p] = m[a].parts[p]
        /\ q[Len(m[a].parts) + 1] = n
    BY <1>1, <1>2, AppendProperties
  <1>4. u = [m EXCEPT ![a] = x]
    OBVIOUS
  <1> HIDE DEF q
  <1>5. /\ x \in Message /\ x.parts = q /\ x.size = m[a].size /\ x.class = c
    BY <1>1, <1>3 DEF Message
  <1> HIDE DEF x
  <1>6. /\ u \in Seq(Message) /\ Len(u) = Len(m) /\ u[a] = x
        /\ \A k \in 1 .. Len(m) : k # a => u[k] = m[k]
    <2> DEFINE v == [m EXCEPT ![a] = x]
    <2>1. /\ v \in Seq(Message) /\ Len(v) = Len(m)
          /\ \A k \in 1 .. Len(m) : v[k] = IF k = a THEN x ELSE m[k]
      BY <1>1, <1>5, ExceptSeq
    <2>2. u = v
      BY <1>4
    <2> HIDE DEF v, u
    <2> QED BY <2>1, <2>2
  <1> HIDE DEF u
  <1>7. /\ b \in Nat /\ b \in 1 .. Len(x.parts) /\ x.parts[b] = n
        /\ Len(x.parts) = b /\ b <= x.size
        /\ \A p \in 1 .. Len(x.parts) : p = b \/ p \in 1 .. Len(m[a].parts)
        /\ \A p \in 1 .. Len(m[a].parts) :
              /\ p \in 1 .. Len(x.parts) /\ p < b
              /\ x.parts[p] = m[a].parts[p]
        /\ b \notin 1 .. Len(m[a].parts)
    <2>1. /\ Len(m[a].parts) \in Nat /\ m[a].size \in Nat
          /\ Len(x.parts) = Len(m[a].parts) + 1
          /\ x.parts[Len(m[a].parts) + 1] = n
          /\ \A p \in 1 .. Len(m[a].parts) : x.parts[p] = m[a].parts[p]
      BY <1>1, <1>3, <1>5
    <2> QED BY <1>5, <2>1
  <1> HIDE DEF b
  <1>8. a \in Nat /\ Len(m) \in Nat /\ Len(m) <= a
    <2>1. /\ Len(m[a].parts) \in Nat /\ m[a].size \in Nat
          /\ a \in Nat /\ Len(m) \in Nat
      BY <1>1
    <2>2. a < Len(m) => Len(m[a].parts) = m[a].size
      BY <1>1 DEF Sized
    <2> QED BY <2>1, <2>2
  <1>9. Sized(u)
    <2> SUFFICES ASSUME NEW k \in 1 .. Len(u)
                 PROVE  /\ Len(u[k].parts) \in 1 .. u[k].size
                        /\ Len(u[k].parts) = u[k].size \/ ~(k < Len(u))
      BY DEF Sized
    <2>1. CASE k = a
      <3>1. u[k] = x /\ b \in 1 .. x.size /\ Len(x.parts) = b
        <4>1. x.size \in Nat
          BY <1>1, <1>5
        <4> QED BY <1>6, <1>7, <2>1, <4>1
      <3>2. ~(k < Len(u))
        BY <1>6, <1>8, <2>1
      <3> QED BY <3>1, <3>2
    <2>2. CASE k # a
      BY <1>1, <1>6, <2>2 DEF Sized
    <2> QED BY <2>1, <2>2
  <1>10. ASSUME NEW k, NEW p, NEW i
         PROVE  At(u, k, p, i) <=> At(m, k, p, i) \/ (k = a /\ p = b /\ i = n)
    <2>1. CASE k = a
      BY <1>6, <1>7, <2>1 DEF At
    <2>2. CASE k # a
      BY <1>6, <2>2 DEF At
    <2> QED BY <2>1, <2>2
  <1>11. ASSUME NEW k, NEW p, NEW i, At(m, k, p, i)
         PROVE  u[k].class = m[k].class /\ (k < a \/ (k = a /\ p < b))
    <2>1. CASE k = a
      BY <1>5, <1>6, <1>7, <1>11, <2>1 DEF At
    <2>2. CASE k # a
      <3>1. k \in 1 .. Len(m)
        BY <1>11 DEF At
      <3>2. k < a
        BY <1>8, <2>2, <3>1
      <3> QED BY <1>6, <2>2, <3>1, <3>2
    <2> QED BY <2>1, <2>2
  <1>12. Composes(t, u)
    <2>1. n = Len(s.msgs) + 1 /\ t.msgs[n].class = u[a].class
      BY <1>2, <1>5, <1>6 DEF n
    <2>2. a \in Nat /\ b \in Nat /\ u \in Seq(Message) /\ Len(t.msgs) = n
      BY <1>1, <1>2, <1>6, <1>7
    <2>3. SndOK(t) /\ Keeps(s, t)
      BY <1>2
    <2>4. OneMore(m, u, a, b, n)
      BY <1>10, <1>11 DEF OneMore
    <2> QED BY <1>9, <2>1, <2>2, <2>3, <2>4, ComposesGrows
  <1>13. Grown(m, u)
    <2> SUFFICES ASSUME NEW k \in 1 .. Len(m)
                 PROVE  /\ u[k].class = m[k].class /\ u[k].size = m[k].size
                        /\ Len(m[k].parts) = m[k].size => u[k] = m[k]
                        /\ Len(m[k].parts) <= Len(u[k].parts)
                        /\ \A p \in 1 .. Len(m[k].parts) :
                              u[k].parts[p] = m[k].parts[p]
      BY <1>1, <1>6 DEF Grown
    <2>1. CASE k = a
      <3>1. Len(m[a].parts) <= Len(x.parts) /\ Len(m[a].parts) # m[a].size
        BY <1>1, <1>3, <1>5
      <3> QED BY <1>5, <1>6, <1>7, <2>1, <3>1
    <2>2. CASE k # a
      BY <1>1, <1>6, <2>2
    <2> QED BY <2>1, <2>2
  <1> QED BY <1>12, <1>13 DEF t, u, n
-----------------------------------------------------------------------------
(***************************************************************************)
(* The invariant of a connection, seen from the end that receives.         *)
(***************************************************************************)
Entries(s, m) ==
    [k \in 1 .. Len(m) |->
        [parts |-> m[k].parts, serial |-> s.msgs[m[k].parts[m[k].size]].serial]]

Classes(m) == [k \in 1 .. Len(m) |-> m[k].class]

\* The messages all parts of which were handed over.
Complete(m, d) ==
    {k \in 1 .. Len(m) : /\ Len(m[k].parts) = m[k].size
                         /\ m[k].parts[m[k].size] \in Range(d)}

EndInv(s, m, d, w, q, h) ==
    SplitInv(s, m, d, w) /\ QueueInv(Entries(s, m), Classes(m), Complete(m, d), q, h)

\* What was handed over is a message of the sender and has a serial number.
HandedKnown(s, d) == \A j \in 1 .. Len(d) : /\ d[j] \in Nat /\ d[j] \in 1 .. Len(s.msgs)
                                       /\ s.msgs[d[j]].serial # 0

\* A complete message has its last part among those handed over.
LEMMA CompleteAt ==
    ASSUME NEW s, SndOK(s), NEW m, Composes(s, m), NEW d \in Seq(Nat),
           NEW k \in Complete(m, d)
    PROVE  /\ k \in 1 .. Len(m) /\ k \in Nat /\ Len(m[k].parts) = m[k].size
           /\ m[k].size \in Nat \ {0}
           /\ \E j \in 1 .. Len(d) : At(m, k, m[k].size, d[j])
  <1>1. /\ k \in 1 .. Len(m) /\ Len(m[k].parts) = m[k].size
        /\ m[k].parts[m[k].size] \in Range(d)
    BY DEF Complete
  <1>2. Len(m) \in Nat /\ m[k].size \in Nat \ {0}
    BY <1>1, MessageType DEF Composes
  <1>3. PICK j \in 1 .. Len(d) : d[j] = m[k].parts[m[k].size]
    BY <1>1, RangeEquality
  <1>4. At(m, k, m[k].size, d[j])
    BY <1>1, <1>2, <1>3 DEF At
  <1> QED BY <1>1, <1>2, <1>4

\* Nothing the sender does disturbs it.
LEMMA EndKept ==
    ASSUME NEW s, SndOK(s), NEW t, SndOK(t), Keeps(s, t),
           NEW m, Composes(s, m), NEW u, Composes(t, u), Grown(m, u),
           NEW d \in Seq(Nat), HandedKnown(s, d),
           NEW w, NEW q, NEW h, EndInv(s, m, d, w, q, h)
    PROVE  EndInv(t, u, d, w, q, h)
  <1>1. /\ Len(s.msgs) \in Nat /\ Len(t.msgs) \in Nat /\ Len(d) \in Nat
        /\ \A i \in 1 .. Len(s.msgs) :
              /\ t.msgs[i].class = s.msgs[i].class
              /\ s.msgs[i].serial # 0 => t.msgs[i].serial = s.msgs[i].serial
              /\ i \in 1 .. Len(t.msgs)
    BY SndFields, LenProperties DEF Keeps
  <1>2. /\ m \in Seq(Message) /\ Len(m) \in Nat
        /\ u \in Seq(Message) /\ Len(u) \in Nat /\ Len(m) <= Len(u)
        /\ \A k \in 1 .. Len(m) : Len(m[k].parts) \in Nat /\ Len(u[k].parts) \in Nat
                                  /\ k \in 1 .. Len(u)
    BY MessageType DEF Composes, Grown
  <1>3. ASSUME NEW k, NEW p, NEW i, At(m, k, p, i)
        PROVE  At(u, k, p, i)
    <2>1. k \in 1 .. Len(m) /\ p \in 1 .. Len(m[k].parts) /\ m[k].parts[p] = i
      BY <1>3 DEF At
    <2>2. Len(m[k].parts) <= Len(u[k].parts) /\ u[k].parts[p] = m[k].parts[p]
      BY <2>1 DEF Grown
    <2> QED BY <1>2, <2>1, <2>2 DEF At
  <1>4. ASSUME NEW k, NEW p, NEW i \in 1 .. Len(s.msgs), At(u, k, p, i)
        PROVE  At(m, k, p, i)
    <2>1. s.msgs[i].class \in Stream
      BY <1>1, <1>4, AtType
    <2>2. PICK l, o : At(m, l, o, i)
      BY <2>1 DEF Composes, Covered
    <2>3. At(u, l, o, i)
      BY <1>3, <2>2
    <2>4. k = l /\ p = o
      BY <1>4, <2>3, AtOnce
    <2> QED BY <2>2, <2>4
  <1>5. \A j \in 1 .. Len(d) : /\ d[j] \in 1 .. Len(s.msgs)
                               /\ t.msgs[d[j]].class = s.msgs[d[j]].class
                               /\ t.msgs[d[j]].serial = s.msgs[d[j]].serial
    BY <1>1 DEF HandedKnown
  <1>6. SplitInv(t, u, d, w)
    <2>1. w \in [Stream -> Seq(Nat)]
      BY DEF EndInv, SplitInv
    <2>2. ASSUME NEW c \in Stream
          PROVE  Awaited(t, u, d, c, w[c])
      <3>1. Awaited(s, m, d, c, w[c])
        BY DEF EndInv, SplitInv
      <3>2. ASSUME \A j \in 1 .. Len(d) : t.msgs[d[j]].class # c
            PROVE  w[c] = <<>>
        <4>1. \A j \in 1 .. Len(d) : s.msgs[d[j]].class # c
          BY <1>5, <3>2
        <4> QED BY <3>1, <4>1 DEF Awaited
      <3>3. ASSUME NEW j, NEW k, NEW p, Newest(t, d, c, j), At(u, k, p, d[j])
            PROVE  Opened(w[c], u[k], IF p = u[k].size THEN 0 ELSE p)
        <4>1. j \in 1 .. Len(d)
          BY <3>3 DEF Newest
        <4>2. \A l \in j + 1 .. Len(d) : l \in 1 .. Len(d)
          BY <1>1, <4>1
        <4>3. Newest(s, d, c, j)
          BY <1>5, <3>3, <4>1, <4>2 DEF Newest
        <4>4. At(m, k, p, d[j])
          BY <1>4, <1>5, <3>3, <4>1
        <4> DEFINE n == IF p = m[k].size THEN 0 ELSE p
        <4>5. Opened(w[c], m[k], n)
          BY <3>1, <4>3, <4>4 DEF Awaited
        <4>6. /\ k \in 1 .. Len(m) /\ p \in 1 .. Len(m[k].parts)
              /\ Len(m[k].parts) \in Nat
          BY <1>2, <4>4 DEF At
        <4>7. n \in Nat /\ n <= Len(m[k].parts) /\ u[k].size = m[k].size
          BY <4>6 DEF Grown
        <4>8. n = IF p = u[k].size THEN 0 ELSE p
          BY <4>7
        <4> HIDE DEF n
        <4>9. \A o \in 1 .. n : u[k].parts[o] = m[k].parts[o]
          BY <4>6, <4>7 DEF Grown
        <4>10. Opened(w[c], u[k], n)
          BY <4>5, <4>9 DEF Opened
        <4> QED BY <4>8, <4>10
      <3> QED BY <3>2, <3>3 DEF Awaited
    <2> QED BY <2>1, <2>2 DEF SplitInv
  <1>7. \A k \in Complete(m, d) : k \in 1 .. Len(m) /\ u[k] = m[k]
    BY DEF Complete, Grown
  <1>8. Complete(u, d) = Complete(m, d)
    <2>1. ASSUME NEW k \in Complete(m, d)
          PROVE  k \in Complete(u, d)
      BY <1>2, <1>7 DEF Complete
    <2>2. ASSUME NEW k \in Complete(u, d)
          PROVE  k \in Complete(m, d)
      <3>1. /\ k \in 1 .. Len(u) /\ Len(u[k].parts) = u[k].size
            /\ u[k].parts[u[k].size] \in Range(d)
        BY DEF Complete
      <3>2. PICK j \in 1 .. Len(d) : At(u, k, u[k].size, d[j])
        BY CompleteAt
      <3>3. At(m, k, u[k].size, d[j])
        BY <1>4, <1>5, <3>2
      <3>4. k \in 1 .. Len(m) /\ u[k].size \in 1 .. Len(m[k].parts)
        BY <3>3 DEF At
      <3>5. /\ u[k].size = m[k].size /\ Len(m[k].parts) <= Len(u[k].parts)
            /\ Len(m[k].parts) \in Nat /\ Len(u[k].parts) \in Nat
        BY <1>2, <3>4 DEF Grown
      <3>6. Len(m[k].parts) = m[k].size
        BY <3>1, <3>4, <3>5
      <3>7. u[k] = m[k]
        BY <3>4, <3>6 DEF Grown
      <3> QED BY <3>1, <3>4, <3>7 DEF Complete
    <2> QED BY <2>1, <2>2
  <1>9. ASSUME NEW k \in Complete(m, d)
        PROVE  Entries(t, u)[k] = Entries(s, m)[k] /\ Classes(u)[k] = Classes(m)[k]
    <2>1. k \in 1 .. Len(m) /\ k \in 1 .. Len(u) /\ u[k] = m[k]
      BY <1>2, <1>7
    <2>2. PICK j \in 1 .. Len(d) : At(m, k, m[k].size, d[j])
      BY CompleteAt
    <2>3. t.msgs[m[k].parts[m[k].size]].serial = s.msgs[m[k].parts[m[k].size]].serial
      BY <1>5, <2>2 DEF At
    <2> QED BY <2>1, <2>3 DEF Entries, Classes
  <1>10. QueueInv(Entries(t, u), Classes(u), Complete(m, d), q, h)
    <2> DEFINE E == Entries(s, m)
               F == Entries(t, u)
               C == Classes(m)
               B == Classes(u)
               D == Complete(m, d)
    <2>1. QueueInv(E, C, D, q, h)
      BY DEF EndInv
    <2>2. \A k \in D : F[k] = E[k] /\ B[k] = C[k]
      BY <1>9
    <2> HIDE DEF E, F, C, B, D
    <2>3. QueueInv(F, B, D, q, h)
      BY <2>1, <2>2, WholesKept
    <2> QED BY <2>3 DEF F, B, D
  <1> QED BY <1>6, <1>8, <1>10 DEF EndInv
-----------------------------------------------------------------------------
(***************************************************************************)
(* One part more is handed over.                                           *)
(***************************************************************************)
LEMMA CompleteApart ==
    ASSUME NEW s, SndOK(s), SerialsUsedOnce(s), StreamsNumbered(s),
           NEW m, Composes(s, m), NEW d \in Seq(Nat), HandedKnown(s, d)
    PROVE  EntriesApart(Entries(s, m), Classes(m), Complete(m, d))
  <1> DEFINE E == Entries(s, m)
             C == Classes(m)
             D == Complete(m, d)
             EndOf(k) == m[k].parts[m[k].size]
  <1>1. ASSUME NEW k \in D
        PROVE  /\ k \in Nat /\ k \in 1 .. Len(m) /\ C[k] = m[k].class
               /\ E[k] = [parts |-> m[k].parts, serial |-> s.msgs[EndOf(k)].serial]
               /\ At(m, k, m[k].size, EndOf(k))
               /\ EndOf(k) \in Nat /\ EndOf(k) \in 1 .. Len(s.msgs)
               /\ s.msgs[EndOf(k)].serial \in Nat
               /\ s.msgs[EndOf(k)].serial # 0
               /\ m[k].parts \in Seq(Nat)
               /\ s.msgs[EndOf(k)].class = m[k].class /\ m[k].class \in Stream
    <2>1. /\ k \in 1 .. Len(m) /\ k \in Nat
          /\ \E j \in 1 .. Len(d) : At(m, k, m[k].size, d[j])
      BY CompleteAt
    <2>2. PICK j \in 1 .. Len(d) : At(m, k, m[k].size, d[j])
      BY <2>1
    <2>3. d[j] = EndOf(k)
      BY <2>2 DEF At
    <2>4. /\ d[j] \in Nat /\ d[j] \in 1 .. Len(s.msgs) /\ s.msgs[d[j]].serial # 0
      BY DEF HandedKnown
    <2>5. s.msgs[d[j]].serial \in Nat
      BY <2>4, SerialType
    <2>6. m[k].parts \in Seq(Nat)
      BY <2>1, MessageType DEF Composes
    <2>7. s.msgs[d[j]].class = m[k].class /\ m[k].class \in Stream
      BY <2>2, AtType
    <2>8. /\ C[k] = m[k].class
          /\ E[k] = [parts |-> m[k].parts, serial |-> s.msgs[EndOf(k)].serial]
      BY <2>1 DEF Entries, Classes
    <2> HIDE DEF EndOf, C, E
    <2> QED BY <2>1, <2>2, <2>3, <2>4, <2>5, <2>6, <2>7, <2>8
  <1> HIDE DEF C, E, D, EndOf
  <1>2. ASSUME NEW k \in D
        PROVE  /\ E[k] \in Queued /\ E[k].parts = m[k].parts
               /\ E[k].serial = s.msgs[EndOf(k)].serial
    <2> DEFINE z == s.msgs[EndOf(k)].serial
               q == m[k].parts
    <2>1. E[k] = [parts |-> q, serial |-> z] /\ z \in Nat /\ q \in Seq(Nat)
      BY <1>1
    <2> HIDE DEF z, q
    <2>2. E[k] \in Queued /\ E[k].parts = q /\ E[k].serial = z
      BY <2>1 DEF Queued
    <2> QED BY <2>2 DEF z, q
  <1>3. ASSUME NEW k \in D, NEW l \in D, k # l
        PROVE  E[k].serial # E[l].serial /\ E[k].parts # E[l].parts
    <2>1. m[k].parts # m[l].parts
      BY <1>1, <1>3, PartsApart
    <2>2. EndOf(k) # EndOf(l)
      <3> SUFFICES ASSUME EndOf(k) = EndOf(l) PROVE FALSE
        OBVIOUS
      <3>1. PICK z : z = EndOf(k)
        OBVIOUS
      <3>2. At(m, k, m[k].size, z) /\ At(m, l, m[l].size, z)
        BY <1>1, <3>1
      <3>3. k = l
        BY <3>2, AtOnce
      <3> QED BY <1>3, <3>3
    <2>3. s.msgs[EndOf(k)].serial # s.msgs[EndOf(l)].serial
      BY <1>1, <2>2 DEF SerialsUsedOnce
    <2> QED BY <1>2, <2>1, <2>3
  <1>4. ASSUME NEW k \in D, NEW l \in D, k < l, C[k] = C[l]
        PROVE  E[k].serial < E[l].serial
    <2>1. EndOf(k) < EndOf(l)
      <3>1. At(m, k, m[k].size, EndOf(k)) /\ At(m, l, m[l].size, EndOf(l))
        BY <1>1
      <3> QED BY <1>4, <3>1 DEF Composes, Arranged
    <2>2. s.msgs[EndOf(k)].serial < s.msgs[EndOf(l)].serial
      BY <1>1, <1>4, <2>1 DEF StreamsNumbered
    <2> QED BY <1>2, <2>2
  <1>5. D \subseteq Nat
    BY <1>1
  <1>6. EntriesApart(E, C, D)
    BY <1>2, <1>3, <1>4, <1>5 DEF EntriesApart
  <1> QED BY <1>6 DEF E, C, D

\* The message that part i completes was not complete, and those of its stream
\* that are were sent before it.
LEMMA CompleteNext ==
    ASSUME NEW s, SndOK(s), NEW m, Composes(s, m), NEW k, NEW p, NEW i,
           At(m, k, p, i),
           NEW d \in Seq(Nat), Range(d) \subseteq 1 .. Len(s.msgs),
           InOrder(s, Append(d, i)), NoGap(s, Append(d, i))
    PROVE  /\ k \notin Complete(m, d)
           /\ \A l \in Complete(m, d) : m[l].class = m[k].class => l < k
           /\ Complete(m, Append(d, i)) =
                  IF p = m[k].size THEN Complete(m, d) \cup {k} ELSE Complete(m, d)
  <1>1. /\ k \in Nat /\ k \in 1 .. Len(m) /\ Len(m) \in Nat
        /\ p \in Nat /\ p \in 1 .. Len(m[k].parts) /\ p <= m[k].size
        /\ i \in Nat /\ s.msgs[i].class = m[k].class
        /\ m[k].class \in Stream /\ m[k].parts[p] = i
        /\ Len(m[k].parts) \in Nat /\ m[k].size \in Nat
        /\ Len(m[k].parts) <= m[k].size
    <2>1. m \in Seq(Message) /\ Sized(m)
      BY DEF Composes
    <2>2. /\ k \in Nat /\ k \in 1 .. Len(m) /\ Len(m) \in Nat
          /\ p \in Nat /\ p \in 1 .. Len(m[k].parts) /\ p <= m[k].size
          /\ i \in Nat /\ s.msgs[i].class = m[k].class
          /\ m[k].class \in Stream /\ m[k].parts[p] = i
      BY AtType
    <2>3. Len(m[k].parts) \in Nat /\ m[k].size \in Nat
      BY <2>1, <2>2, MessageType
    <2>4. Len(m[k].parts) <= m[k].size
      BY <2>1, <2>2, <2>3 DEF Sized
    <2> QED BY <2>2, <2>3, <2>4
  <1>2. Before(s, d, i)
    <2>1. s.msgs[i].class \in Stream
      BY <1>1
    <2> QED BY <1>1, <2>1, BeforeNext
  <1>3. \A j \in 1 .. Len(d) : s.msgs[d[j]].class = m[k].class => d[j] < i /\ d[j] \in Nat
    BY <1>1, <1>2 DEF Before
  <1>4. Range(Append(d, i)) = Range(d) \cup {i}
    BY <1>1, RangeOfAppend
  <1>5. ASSUME NEW l \in Complete(m, d), m[l].class = m[k].class
        PROVE  l < k
    <2>1. PICK j \in 1 .. Len(d) : At(m, l, m[l].size, d[j])
      BY CompleteAt
    <2>2. /\ l \in Nat /\ l \in 1 .. Len(m) /\ Len(m[l].parts) = m[l].size
          /\ s.msgs[d[j]].class = m[l].class
      <3>1. l \in Nat /\ l \in 1 .. Len(m) /\ Len(m[l].parts) = m[l].size
        BY CompleteAt
      <3>2. s.msgs[d[j]].class = m[l].class
        BY <2>1, AtType
      <3> QED BY <3>1, <3>2
    <2>3. d[j] < i
      BY <1>3, <1>5, <2>2
    <2>4. d[j] < i <=> l < k \/ (l = k /\ m[l].size < p)
      BY <2>1 DEF Composes, Arranged
    <2> QED BY <1>1, <2>2, <2>3, <2>4
  <1>6. k \notin Complete(m, d)
    BY <1>1, <1>5
  <1>7. ASSUME NEW l \in Complete(m, Append(d, i)), l \notin Complete(m, d)
        PROVE  l = k /\ p = m[k].size
    <2>1. /\ l \in 1 .. Len(m) /\ Len(m[l].parts) = m[l].size
          /\ m[l].parts[m[l].size] = i
      BY <1>4, <1>7 DEF Complete
    <2>2. m[l].size \in Nat \ {0}
      BY <2>1, MessageType DEF Composes
    <2>3. At(m, l, m[l].size, i)
      BY <2>1, <2>2 DEF At
    <2> QED BY <2>3, AtOnce
  <1>8. Complete(m, d) \subseteq Complete(m, Append(d, i))
    BY <1>4 DEF Complete
  <1>9. ASSUME p = m[k].size
        PROVE  k \in Complete(m, Append(d, i))
    <2>1. Len(m[k].parts) = m[k].size
      BY <1>1, <1>9
    <2> QED BY <1>1, <1>4, <1>9, <2>1 DEF Complete
  <1> QED BY <1>5, <1>6, <1>7, <1>8, <1>9

Closes(m, k, p) == p = m[k].size

\* The last part: the message goes into the queue.
LEMMA PartCloses ==
    ASSUME NEW s, SndOK(s), SerialsUsedOnce(s), StreamsNumbered(s),
           NEW m, Composes(s, m), NEW k, NEW p, NEW i, At(m, k, p, i), Closes(m, k, p),
           NEW d \in Seq(Nat), Range(d) \subseteq 1 .. Len(s.msgs),
           InOrder(s, Append(d, i)), NoGap(s, Append(d, i)),
           HandedKnown(s, Append(d, i)),
           NEW w, NEW q \in Seq(Queued), NEW h, EndInv(s, m, d, w, q, h),
           NEW v \in [Stream -> Seq(Nat)],
           \A b \in Stream : b # m[k].class => v[b] = w[b], v[m[k].class] = <<>>
    PROVE  EndInv(s, m, Append(d, i), v, Insert(q, Entries(s, m)[k]), h)
  <1>1. SplitInv(s, m, d, w)
    BY DEF EndInv
  <1>2. Opened(v[m[k].class], m[k], 0)
    <2>1. <<>> \in Seq(Nat) /\ Len(<<>>) = 0
      BY EmptySeq
    <2> QED BY <2>1 DEF Opened
  <1>3. SplitInv(s, m, Append(d, i), v)
    <2>1. Opened(v[m[k].class], m[k], IF p = m[k].size THEN 0 ELSE p)
      BY <1>2 DEF Closes
    <2> QED BY <1>1, <2>1, SplitNext, ZenonT(60)
  <1>4. i \in Nat /\ k \in 1 .. Len(m)
    BY AtType
  <1>5. Append(d, i) \in Seq(Nat)
    BY <1>4, RangeOfAppend
  <1> DEFINE E == Entries(s, m)
             C == Classes(m)
             D == Complete(m, d)
  <1>6. QueueInv(E, C, D, q, h)
    BY DEF EndInv
  <1>7. /\ k \notin D /\ Complete(m, Append(d, i)) = D \cup {k}
        /\ \A l \in D : m[l].class = m[k].class => l < k
    BY CompleteNext DEF Closes
  <1>8. \A l \in D : C[l] = C[k] => l < k
    <2>1. \A l \in D : l \in 1 .. Len(m)
      BY DEF Complete
    <2> QED BY <1>4, <1>7, <2>1 DEF Classes
  <1>9. EntriesApart(E, C, D \cup {k})
    <2>1. EntriesApart(E, C, Complete(m, Append(d, i)))
      BY <1>5, CompleteApart
    <2> HIDE DEF E, C, D
    <2> QED BY <1>7, <2>1
  <1> HIDE DEF E, C, D
  <1>10. QueueInv(E, C, D \cup {k}, Insert(q, E[k]), h)
    BY <1>6, <1>7, <1>8, <1>9, WholeQueued
  <1> QED BY <1>3, <1>7, <1>10 DEF EndInv, E, C, D

\* Another part: it waits with those before it.
LEMMA PartWaits ==
    ASSUME NEW s, SndOK(s),
           NEW m, Composes(s, m), NEW k, NEW p, NEW i, At(m, k, p, i), ~Closes(m, k, p),
           NEW d \in Seq(Nat), Range(d) \subseteq 1 .. Len(s.msgs),
           InOrder(s, Append(d, i)), NoGap(s, Append(d, i)),
           NEW w, NEW q, NEW h, EndInv(s, m, d, w, q, h),
           NEW v \in [Stream -> Seq(Nat)],
           \A b \in Stream : b # m[k].class => v[b] = w[b],
           v[m[k].class] = Append(w[m[k].class], i)
    PROVE  EndInv(s, m, Append(d, i), v, q, h)
  <1> DEFINE c == m[k].class
  <1>1. /\ i \in Nat /\ k \in 1 .. Len(m) /\ c \in Stream /\ m[k].parts[p] = i
        /\ p \in Nat /\ p \in 1 .. Len(m[k].parts)
    BY AtType
  <1>2. SplitInv(s, m, d, w)
    BY DEF EndInv
  <1>3. Opened(w[c], m[k], p - 1)
    <2>1. Awaited(s, m, d, m[k].class, w[m[k].class])
      BY <1>1, <1>2 DEF SplitInv
    <2> QED BY <2>1, PartsBefore
  <1>4. Opened(v[c], m[k], p)
    <2> DEFINE a == w[c]
               z == Append(a, i)
    <2>1. a \in Seq(Nat) /\ Len(a) = p - 1 /\ \A o \in 1 .. p - 1 : a[o] = m[k].parts[o]
      BY <1>3 DEF Opened
    <2> HIDE DEF a
    <2>2. /\ z \in Seq(Nat) /\ Len(z) = Len(a) + 1
          /\ \A o \in 1 .. Len(a) : z[o] = a[o]
          /\ z[Len(a) + 1] = i
      BY <1>1, <2>1, AppendProperties
    <2> HIDE DEF z
    <2>3. Len(z) = p
      BY <1>1, <2>1, <2>2
    <2>4. ASSUME NEW o \in 1 .. p
          PROVE  z[o] = m[k].parts[o]
      <3>1. CASE o = p
        <4>1. z[p] = i
          BY <1>1, <2>1, <2>2
        <4> QED BY <1>1, <3>1, <4>1
      <3>2. CASE o # p
        <4>1. o \in 1 .. p - 1 /\ o \in 1 .. Len(a)
          BY <1>1, <2>1, <3>2
        <4> QED BY <2>1, <2>2, <4>1
      <3> QED BY <3>1, <3>2
    <2>5. v[c] = z
      BY DEF z, a
    <2> QED BY <2>2, <2>3, <2>4, <2>5 DEF Opened
  <1>5. SplitInv(s, m, Append(d, i), v)
    <2>1. Opened(v[m[k].class], m[k], IF p = m[k].size THEN 0 ELSE p)
      BY <1>4 DEF Closes
    <2> QED BY <1>2, <2>1, SplitNext
  <1>6. Complete(m, Append(d, i)) = Complete(m, d)
    BY CompleteNext DEF Closes
  <1> QED BY <1>5, <1>6 DEF EndInv
-----------------------------------------------------------------------------
(***************************************************************************)
(* The steps of the two ends.                                              *)
(***************************************************************************)
SentType == sent \in [End -> Seq(Message)]

QueueType == /\ split \in [End -> [Stream -> Seq(Nat)]]
             /\ received \in [End -> Seq(Queued)]
             /\ shown \in [End -> Seq(Seq(Nat))]

Composition == \A e \in End : Composes(snd[e], sent[e])

\* What end e makes of what it was handed.
Game(e) == EndInv(snd[Peer(e)], sent[Peer(e)], delivered[e],
                  split[e], received[e], shown[e])

GameInv == \A e \in End : Undisturbed(e) => Game(e)

\* Types of a message that has parts to come.
LEMMA NextUnfinished ==
    ASSUME SentType, NEW e \in End, NEW k \in Unfinished(e)
    PROVE  /\ k \in 1 .. Len(sent[e]) /\ sent[e] \in Seq(Message)
           /\ sent[e][k].class \in Stream
           /\ Len(sent[e][k].parts) < sent[e][k].size
  <1>1. sent[e] \in Seq(Message) /\ DOMAIN sent[e] = 1 .. Len(sent[e])
    BY MessageType DEF SentType
  <1>2. k \in 1 .. Len(sent[e]) /\ Len(sent[e][k].parts) < sent[e][k].size
    BY <1>1 DEF Unfinished
  <1> QED BY <1>1, <1>2, MessageType

\* A step of the game is one of the channels or touches none of them.
LEMMA UserStepIsNext ==
    ASSUME SentType, [UserNext]_userVars
    PROVE  [Next]_vars
  <1>1. CASE UNCHANGED userVars
    BY <1>1 DEF userVars
  <1>2. ASSUME NEW e \in End, NEW c \in Stream, Dispatch(e, c)
        PROVE  Next
    BY <1>2 DEF Next, User, Stream, Class
  <1>3. ASSUME NEW e \in End, NEW c \in Stream, SendMsg(e, c)
        PROVE  Next
    BY <1>2, <1>3 DEF SendMsg, Begin
  <1>4. ASSUME NEW e \in End, SendNextPart(e)
        PROVE  Next
    <2>1. PICK k \in Unfinished(e) : Dispatch(e, sent[e][k].class)
      BY <1>4 DEF SendNextPart
    <2> QED BY <1>2, <2>1, NextUnfinished
  <1>5. ASSUME NEW e \in End, ReceiveUser(e)
        PROVE  Next
    BY <1>5 DEF ReceiveUser, Next, Listener
  <1>6. ASSUME NEW e \in End, ChannelStep(e)
        PROVE  Next
    BY <1>6 DEF ChannelStep, Next, Listener
  <1>7. ASSUME NEW e \in End, ProcessUserMessages(e)
        PROVE  UNCHANGED vars
    BY <1>7 DEF ProcessUserMessages
  <1> QED BY <1>1, <1>3, <1>4, <1>5, <1>6, <1>7 DEF UserNext

\* The steps by what they do to the state of the game.
LEMMA UserSteps ==
    ASSUME TypeOK, TypeOK', [UserNext]_userVars
    PROVE  \/ \E e \in End, c \in Stream : SendMsg(e, c)
           \/ \E e \in End : SendNextPart(e)
           \/ \E e \in End : ReceiveUser(e)
           \/ \E e \in End : ProcessUserMessages(e)
           \/ AllQuiet /\ UNCHANGED <<delivered, sent, split, received, shown>>
  <1>1. CASE UNCHANGED userVars
    BY <1>1, QuietNot DEF userVars, vars
  <1>2. ASSUME NEW e \in End, ChannelStep(e)
        PROVE  AllQuiet /\ UNCHANGED <<delivered, sent, split, received, shown>>
    <2>1. UNCHANGED <<sent, split, received, shown>>
      BY <1>2 DEF ChannelStep
    <2>2. CASE Sender(e)
      BY <2>1, <2>2, SenderQuiet
    <2>3. CASE ProcessVIM(e)
      BY <2>1, <2>3, QuietNot DEF ProcessVIM
    <2>4. ASSUME NEW p \in net[e], Receive(e, p)
          PROVE  AllQuiet /\ delivered' = delivered
      BY <2>4, ReceiveQuiet
    <2>5. ASSUME NEW p \in net[e], Lose(e, p)
          PROVE  AllQuiet /\ delivered' = delivered
      BY <2>5, QuietNot DEF Lose
    <2> QED BY <1>2, <2>1, <2>2, <2>3, <2>4, <2>5 DEF ChannelStep
  <1> QED BY <1>1, <1>2 DEF UserNext

\* What the invariants of the channels say about a connection.
LEMMA RecordsKnown ==
    ASSUME Records, NEW e \in End
    PROVE  /\ SndOK(snd[e]) /\ SndOK(snd[Peer(e)]) /\ Peer(e) \in End
           /\ SerialsUsedOnce(snd[Peer(e)]) /\ StreamsNumbered(snd[Peer(e)])
           /\ delivered[e] \in Seq(Nat) /\ HandedKnown(snd[Peer(e)], delivered[e])
           /\ Range(delivered[e]) \subseteq 1 .. Len(snd[Peer(e)].msgs)
  <1>1. /\ Peer(e) \in End /\ SndOK(snd[e]) /\ SndOK(snd[Peer(e)])
        /\ SerialsUsedOnce(snd[Peer(e)]) /\ StreamsNumbered(snd[Peer(e)])
        /\ delivered[e] \in Seq(Nat)
        /\ HandedPassed(rcv[e], snd[Peer(e)], delivered[e])
    BY PeerType, PairParts, TypeParts DEF Records, PairInv
  <1>2. /\ Len(delivered[e]) \in Nat
        /\ \A j \in 1 .. Len(delivered[e]) : delivered[e][j] \in Nat
    BY <1>1, RangeOfMember
  <1>3. HandedKnown(snd[Peer(e)], delivered[e])
    BY <1>1, <1>2 DEF HandedPassed, HandedKnown
  <1>4. Range(delivered[e]) = {delivered[e][j] : j \in 1 .. Len(delivered[e])}
    BY <1>1, RangeEquality
  <1> QED BY <1>1, <1>3, <1>4 DEF HandedPassed

\* Only SendMsg adds to the messages of an end.
LEMMA SentStep ==
    ASSUME Records, Records', SentType, Composition, [UserNext]_userVars
    PROVE  /\ SentType'
           /\ \A x \in End : /\ Composes(snd'[x], sent'[x]) /\ Grown(sent[x], sent'[x])
                             /\ Keeps(snd[x], snd'[x])
  <1>1. TypeOK /\ TypeOK' /\ OrderInv /\ Outputs
    BY DEF Records
  <1>2. \A x \in End : Keeps(snd[x], snd'[x])
    BY <1>1, UserStepIsNext, NextMoves DEF Moves, Follows
  <1>3. \A x \in End : SndOK(snd[x]) /\ SndOK(snd'[x])
    BY <1>1 DEF TypeOK, SndOK
  <1>4. ASSUME AllQuiet, sent' = sent
        PROVE  \A x \in End : Composes(snd'[x], sent'[x]) /\ Grown(sent[x], sent'[x])
    <2> SUFFICES ASSUME NEW x \in End
                 PROVE  Composes(snd'[x], sent[x]) /\ Grown(sent[x], sent[x])
      BY <1>4
    <2>1. Composes(snd[x], sent[x]) /\ sent[x] \in Seq(Message)
      BY DEF Composition, SentType
    <2> QED BY <1>2, <1>3, <1>4, <2>1, ComposesKept, GrownRefl DEF AllQuiet
  <1>5. ASSUME NEW e \in End, NEW u, NEW t, sent' = [sent EXCEPT ![e] = u],
               snd' = [snd EXCEPT ![e] = t], Composes(t, u), Grown(sent[e], u)
        PROVE  /\ SentType'
               /\ \A x \in End : Composes(snd'[x], sent'[x]) /\ Grown(sent[x], sent'[x])
    <2>1. \A x \in End : /\ sent'[x] = IF x = e THEN u ELSE sent[x]
                         /\ snd'[x] = IF x = e THEN t ELSE snd[x]
      BY <1>1, <1>5, TypeParts DEF SentType
    <2>2. u \in Seq(Message)
      BY <1>5 DEF Composes
    <2>3. SentType'
      BY <1>5, <2>2 DEF SentType
    <2>4. \A x \in End : Composes(snd[x], sent[x]) /\ Grown(sent[x], sent[x])
      BY GrownRefl DEF Composition, SentType
    <2> QED BY <1>5, <2>1, <2>3, <2>4
  <1>6. CASE \E e \in End, c \in Stream : SendMsg(e, c)
    <2>1. PICK e \in End, c \in Stream : SendMsg(e, c)
      BY <1>6
    <2>2. PICK n \in Sizes(e, c) :
              sent' = [sent EXCEPT ![e] =
                  Append(@, [class |-> c, size |-> n, parts |-> <<NewPart(e)>>])]
      BY <2>1 DEF SendMsg, Begin
    <2> DEFINE x == [class |-> c, size |-> n, parts |-> <<Len(snd[e].msgs) + 1>>]
               u == Append(sent[e], x)
               t == PutMessage(snd[e], c)
    <2>3. sent' = [sent EXCEPT ![e] = u]
      BY <2>2 DEF NewPart
    <2>4. snd' = [snd EXCEPT ![e] = t]
      BY <2>1 DEF SendMsg, Begin, Dispatch
    <2>5. n \in Nat \ {0} /\ Len(snd[e].msgs) + 1 \in Nat
      BY <1>3, <2>2, SndFields, PartsAssumption DEF Sizes
    <2>6. /\ x \in Message /\ x.class = c /\ x.parts = <<Len(snd[e].msgs) + 1>>
      <3>1. <<Len(snd[e].msgs) + 1>> \in Seq(Nat)
        BY <2>5, OneElement
      <3> QED BY <2>5, <3>1 DEF Message
    <2>7. /\ SndOK(snd[e]) /\ Composes(snd[e], sent[e])
      BY <1>3 DEF Composition
    <2>8. \A k \in 1 .. Len(sent[e]) : Len(sent[e][k].parts) = sent[e][k].size
      <3>1. Unfinished(e) = {}
        BY <2>1 DEF SendMsg
      <3>2. sent[e] \in Seq(Message) /\ Sized(sent[e])
        BY <2>7 DEF Composes
      <3>3. /\ DOMAIN sent[e] = 1 .. Len(sent[e])
            /\ \A k \in 1 .. Len(sent[e]) :
                  Len(sent[e][k].parts) \in Nat /\ sent[e][k].size \in Nat
        BY <3>2, MessageType
      <3>4. \A k \in 1 .. Len(sent[e]) :
                /\ ~(Len(sent[e][k].parts) < sent[e][k].size)
                /\ Len(sent[e][k].parts) <= sent[e][k].size
        BY <3>1, <3>2, <3>3 DEF Unfinished, Sized
      <3> QED BY <3>3, <3>4
    <2> HIDE DEF x
    <2>9. Composes(t, u) /\ Grown(sent[e], u)
      BY <2>6, <2>7, <2>8, MessageBegun
    <2> HIDE DEF t, u
    <2> QED BY <1>2, <1>5, <2>3, <2>4, <2>9
  <1>7. CASE \E e \in End : SendNextPart(e)
    <2>1. PICK e \in End : SendNextPart(e)
      BY <1>7
    <2>2. PICK k \in Unfinished(e) :
              /\ Dispatch(e, sent[e][k].class)
              /\ sent' = [sent EXCEPT ![e][k].parts = Append(@, NewPart(e))]
      BY <2>1 DEF SendNextPart
    <2> DEFINE u == [sent[e] EXCEPT ![k].parts = Append(@, Len(snd[e].msgs) + 1)]
               t == PutMessage(snd[e], sent[e][k].class)
    <2>3. sent' = [sent EXCEPT ![e] = u]
      BY <2>2 DEF NewPart
    <2>4. snd' = [snd EXCEPT ![e] = t]
      BY <2>2 DEF Dispatch
    <2>5. k \in 1 .. Len(sent[e]) /\ Len(sent[e][k].parts) < sent[e][k].size
      BY NextUnfinished
    <2>6. SndOK(snd[e]) /\ Composes(snd[e], sent[e])
      BY <1>3 DEF Composition
    <2>7. Composes(t, u) /\ Grown(sent[e], u)
      BY <2>5, <2>6, PartAdded
    <2> HIDE DEF t, u
    <2> QED BY <1>2, <1>5, <2>3, <2>4, <2>7
  <1>8. CASE \E e \in End : ReceiveUser(e)
    BY <1>1, <1>2, <1>4, <1>8, QuietNot
       DEF ReceiveUser, UserReceive, HandOver, SentType
  <1>9. CASE \E e \in End : ProcessUserMessages(e)
    BY <1>1, <1>2, <1>4, <1>9, QuietNot DEF ProcessUserMessages, vars, SentType
  <1>10. CASE AllQuiet /\ UNCHANGED <<delivered, sent, split, received, shown>>
    BY <1>2, <1>4, <1>10 DEF SentType
  <1> QED BY <1>1, <1>6, <1>7, <1>8, <1>9, <1>10, UserSteps
-----------------------------------------------------------------------------
\* The message that is handed over is a guaranteed one and carries its serial.
LEMMA HandedNow ==
    ASSUME TypeOK, OrderInv, NEW e \in End, HandOver(e)
    PROVE  LET s == snd[Peer(e)]
               x == Head(rcv[e].stack)
           IN /\ x.id \in Nat /\ x.id \in 1 .. Len(s.msgs)
              /\ s.msgs[x.id].class \in Stream /\ s.msgs[x.id].serial # 0
              /\ s.msgs[x.id].serial = x.serial
  <1> DEFINE s == snd[Peer(e)]
             x == Head(rcv[e].stack)
  <1>1. /\ SndOK(s) /\ RcvOK(rcv[e]) /\ RcvInv(rcv[e], s, delivered[e], opened[e])
    BY OrderParts
  <1>2. rcv[e].stack # <<>>
    BY <1>1 DEF HandOver, RcvOK
  <1>3. x \in Waiting(rcv[e])
    BY <1>1, <1>2, ProcessedOK
  <1>4. Len(s.msgs) \in Nat
    BY <1>1, SndFields
  <1> QED BY SMTT(30), <1>1, <1>3, <1>4 DEF RcvInv, Truthful

\* Once disturbed, an end stays so: a message left behind is never handed over.
LEMMA UndisturbedBefore ==
    ASSUME Records, TypeOK', [Next]_vars, NEW e \in End, Undisturbed(e)'
    PROVE  Undisturbed(e)
  <1> DEFINE s == snd[Peer(e)]
             t == snd'[Peer(e)]
             r == rcv[e]
             u == rcv'[e]
             d == delivered[e]
  <1>1. TypeOK /\ OrderInv /\ Outputs /\ Inputs
    BY DEF Records
  <1>2. Onward(r, u) /\ InInv(r) /\ RcvOK(r)
    BY <1>1, NextTakes, InputParts DEF Takes
  <1>3. /\ SndOK(s) /\ SndOK(t) /\ Keeps(s, t) /\ d \in Seq(Nat)
        /\ delivered \in [End -> Seq(Nat)]
    <2>1. Peer(e) \in End
      BY PeerType
    <2>2. Keeps(s, t)
      BY <1>1, <2>1, NextMoves DEF Moves, Follows
    <2> QED BY <1>1, <2>1, <2>2, TypeParts DEF TypeOK, SndOK
  <1>4. ~u.rejected
        /\ {i \in DOMAIN t.msgs : /\ t.msgs[i].class \in Stream
                                  /\ t.msgs[i].serial \in 1 .. u.maskMin - 1
                                  /\ i \notin Range(delivered'[e])} = {}
    BY DEF Undisturbed, LeftBehind, IsVIM
  <1> SUFFICES ASSUME NEW i \in DOMAIN s.msgs, s.msgs[i].class \in Stream,
                      s.msgs[i].serial \in 1 .. r.maskMin - 1, i \notin Range(d)
               PROVE  FALSE
    BY <1>2, <1>4 DEF Undisturbed, LeftBehind, IsVIM, Onward
  <1>5. /\ i \in 1 .. Len(s.msgs) /\ i \in DOMAIN t.msgs
        /\ s.msgs[i].serial \in Nat /\ s.msgs[i].serial # 0
        /\ s.msgs[i].serial < r.maskMin
        /\ t.msgs[i].class \in Stream /\ t.msgs[i].serial \in 1 .. u.maskMin - 1
    <2>1. /\ i \in 1 .. Len(s.msgs) /\ Len(s.msgs) \in Nat /\ Len(t.msgs) \in Nat
          /\ DOMAIN t.msgs = 1 .. Len(t.msgs) /\ Len(s.msgs) <= Len(t.msgs)
      BY <1>3, SndFields DEF Keeps
    <2>2. /\ s.msgs[i].serial \in Nat /\ s.msgs[i].serial # 0
          /\ s.msgs[i].serial < r.maskMin /\ r.maskMin \in Nat /\ u.maskMin \in Nat
      <3>1. r \in Rcv /\ u \in Rcv
        BY <1>1, TypeParts DEF TypeOK
      <3>2. r.maskMin \in Nat /\ u.maskMin \in Nat
        BY <3>1 DEF Rcv
      <3> QED BY <3>2
    <2>3. t.msgs[i].class = s.msgs[i].class /\ t.msgs[i].serial = s.msgs[i].serial
      BY <1>3, <2>1, <2>2 DEF Keeps
    <2>4. r.maskMin <= u.maskMin
      BY <1>2 DEF Onward
    <2> QED BY <2>1, <2>2, <2>3, <2>4
  <1>6. i \in Range(delivered'[e])
    BY <1>4, <1>5
  <1>7. delivered'[e] # d
    BY <1>6
  <1>8. PICK a \in End : HandOver(a)
    BY <1>1, <1>7, NextQuiet DEF Dispatch
  <1>9. a = e
    BY <1>3, <1>7, <1>8 DEF HandOver
  <1>10. delivered'[e] = Append(d, Head(r.stack).id) /\ r.handing
    BY <1>3, <1>8, <1>9 DEF HandOver
  <1>11. Head(r.stack).id \in Nat /\ s.msgs[Head(r.stack).id].serial = Head(r.stack).serial
    BY <1>1, <1>8, <1>9, HandedNow
  <1>12. Range(delivered'[e]) = Range(d) \cup {Head(r.stack).id}
    BY <1>3, <1>10, <1>11, RangeOfAppend
  <1>13. s.msgs[i].serial = Head(r.stack).serial
    BY <1>6, <1>11, <1>12
  <1>14. Head(r.stack).serial >= r.maskMin /\ r.maskMin \in Nat
    BY <1>2, <1>10 DEF InInv, RcvOK, Rcv
  <1> QED BY <1>5, <1>13, <1>14

\* What the header of part i says is what its message is.
LEMMA WholeIs ==
    ASSUME NEW e \in End, SndOK(snd[e]), Composes(snd[e], sent[e]),
           NEW k, NEW p, NEW i, At(sent[e], k, p, i)
    PROVE  /\ Whole(e, i) = sent[e][k]
           /\ Closing(e, i) <=> p = sent[e][k].size
  <1> DEFINE m == sent[e]
  <1>1. m \in Seq(Message) /\ Sized(m) /\ DOMAIN m = 1 .. Len(m)
    BY MessageType DEF Composes
  <1>2. ASSUME NEW l \in 1 .. Len(m)
        PROVE  i \in Range(m[l].parts) <=> \E o : At(m, l, o, i)
    <2>1. m[l].parts \in Seq(Nat)
      BY <1>1, MessageType
    <2>2. Range(m[l].parts) = {m[l].parts[o] : o \in 1 .. Len(m[l].parts)}
      BY <2>1, RangeEquality
    <2> QED BY <2>2 DEF At
  <1>3. k \in 1 .. Len(m) /\ k \in Nat /\ p \in Nat /\ p \in 1 .. Len(m[k].parts)
        /\ p <= m[k].size /\ m[k].parts[p] = i
    BY AtType
  <1>4. \A l \in 1 .. Len(m) : i \in Range(m[l].parts) => l = k
    BY <1>2, AtOnce
  <1>5. i \in Range(m[k].parts)
    BY <1>2, <1>3
  <1>6. (CHOOSE l \in DOMAIN m : i \in Range(m[l].parts)) = k
    BY <1>1, <1>3, <1>4, <1>5
  <1>7. Whole(e, i) = m[k]
    BY <1>6 DEF Whole
  <1>8. Closing(e, i) <=> Len(m[k].parts) = m[k].size /\ i = m[k].parts[Len(m[k].parts)]
    BY <1>7 DEF Closing, Last
  <1>9. Len(m[k].parts) \in Nat /\ m[k].size \in Nat /\ Len(m[k].parts) \in 1 .. m[k].size
    BY <1>1, <1>3, MessageType DEF Sized
  <1>10. ASSUME Len(m[k].parts) = m[k].size, i = m[k].parts[Len(m[k].parts)]
         PROVE  p = m[k].size
    <2>1. At(m, k, Len(m[k].parts), i)
      BY <1>3, <1>9, <1>10 DEF At
    <2> QED BY <1>10, <2>1, AtOnce
  <1>11. ASSUME p = m[k].size
         PROVE  Len(m[k].parts) = m[k].size /\ i = m[k].parts[Len(m[k].parts)]
    BY <1>3, <1>9, <1>11
  <1> QED BY <1>7, <1>8, <1>10, <1>11

\* insertReceived keeps the type of the queue.
LEMMA InsertType ==
    ASSUME NEW q \in Seq(Queued), NEW x \in Queued
    PROVE  Insert(q, x) \in Seq(Queued)
  <1> DEFINE Higher == {k \in 1 .. Len(q) : q[k].serial > x.serial}
             i == IF Higher # {} THEN Min(Higher) ELSE 0
  <1>1. Len(q) \in Nat
    BY QueuedType
  <1>2. Insert(q, x) = IF i = 0 THEN Append(q, x) ELSE InsertAt(q, i, x)
    BY DEF Insert, SelectInSeq
  <1>3. Higher \in SUBSET Nat
    BY <1>1
  <1>4. Higher # {} => Min(Higher) \in Higher
    BY <1>3, MinOfNaturals
  <1>5. i = 0 \/ i \in 1 .. Len(q)
    BY <1>4
  <1> HIDE DEF i
  <1>6. Append(q, x) \in Seq(Queued)
    BY RangeOfAppend
  <1>7. i \in 1 .. Len(q) => InsertAt(q, i, x) \in Seq(Queued)
    BY InsertAtRange
  <1> QED BY <1>2, <1>5, <1>6, <1>7
-----------------------------------------------------------------------------
\* The part that is handed over next.
Coming(e) == Head(rcv[e].stack).id

\* HandOver takes a part of a message the peer sent.
LEMMA HandedPart ==
    ASSUME Records, Composition, NEW e \in End, HandOver(e)
    PROVE  /\ Coming(e) \in Nat /\ Coming(e) \in 1 .. Len(snd[Peer(e)].msgs)
           /\ \E k, p : At(sent[Peer(e)], k, p, Coming(e))
           /\ snd' = snd
           /\ delivered' = [delivered EXCEPT ![e] = Append(delivered[e], Coming(e))]
           /\ delivered'[e] = Append(delivered[e], Coming(e))
           /\ HandedKnown(snd[Peer(e)], Append(delivered[e], Coming(e)))
  <1> DEFINE i == Coming(e)
             s == snd[Peer(e)]
             d == delivered[e]
  <1>1. /\ i \in Nat /\ i \in 1 .. Len(s.msgs)
        /\ s.msgs[i].class \in Stream /\ s.msgs[i].serial # 0
    BY HandedNow DEF Records, Coming
  <1>2. Composes(s, sent[Peer(e)])
    BY PeerType DEF Composition
  <1>3. \E k, p : At(sent[Peer(e)], k, p, i)
    BY <1>1, <1>2 DEF Composes, Covered
  <1>4. snd' = snd /\ delivered' = [delivered EXCEPT ![e] = Append(d, i)]
    BY DEF HandOver, Coming
  <1>5. d \in Seq(Nat) /\ HandedKnown(s, d) /\ delivered \in [End -> Seq(Nat)]
    BY RecordsKnown, TypeParts DEF Records
  <1> HIDE DEF i, s, d
  <1>6. /\ Len(d) \in Nat /\ Len(Append(d, i)) = Len(d) + 1
        /\ Append(d, i)[Len(d) + 1] = i
        /\ \A j \in 1 .. Len(d) : Append(d, i)[j] = d[j]
    BY <1>1, <1>5, AppendProperties, LenProperties
  <1>7. HandedKnown(s, Append(d, i))
    <2> SUFFICES ASSUME NEW j \in 1 .. Len(d) + 1
                 PROVE  /\ Append(d, i)[j] \in Nat
                        /\ Append(d, i)[j] \in 1 .. Len(s.msgs)
                        /\ s.msgs[Append(d, i)[j]].serial # 0
      BY <1>6 DEF HandedKnown
    <2>1. CASE j \in 1 .. Len(d)
      BY <1>5, <1>6, <2>1 DEF HandedKnown
    <2>2. CASE j = Len(d) + 1
      BY <1>1, <1>6, <2>2
    <2> QED BY <1>6, <2>1, <2>2
  <1> QED BY <1>1, <1>3, <1>4, <1>5, <1>7 DEF i, s, d

\* What the user's routine makes of a part, by the place the part has in its
\* message.
LEMMA UserRoutine ==
    ASSUME Records, Composition, QueueType, NEW e \in End, ReceiveUser(e),
           NEW k, NEW p, At(sent[Peer(e)], k, p, Coming(e))
    PROVE  LET c == sent[Peer(e)][k].class
               n == sent[Peer(e)][k].size
               q(w) == Insert(received[e], Merged(e, Coming(e), w))
               w == split[e][c]
           IN /\ sent' = sent /\ shown' = shown
              /\ \/ /\ n <= 1
                    /\ received' = [received EXCEPT ![e] = q(<<Coming(e)>>)]
                    /\ split' = split
                 \/ n > 1 /\ p = n /\ w = <<>> /\ UNCHANGED <<split, received>>
                 \/ /\ n > 1 /\ p = n /\ w # <<>>
                    /\ received' = [received EXCEPT ![e] = q(Append(w, Coming(e)))]
                    /\ split' = [split EXCEPT ![e][c] = <<>>]
                 \/ /\ n > 1 /\ p # n /\ received' = received
                    /\ split' = [split EXCEPT ![e][c] = Append(w, Coming(e))]
  <1> DEFINE i == Coming(e)
             m == sent[Peer(e)]
             c == m[k].class
  <1>1. UserReceive(e, i)
    BY DEF ReceiveUser, Coming
  <1>2. /\ SndOK(snd[Peer(e)]) /\ Composes(snd[Peer(e)], m) /\ Peer(e) \in End
        /\ At(m, k, p, i)
    BY RecordsKnown DEF Composition
  <1>3. Whole(Peer(e), i) = m[k] /\ (Closing(Peer(e), i) <=> p = m[k].size)
    BY <1>2, WholeIs
  <1>4. m[k].size \in Nat /\ c \in Stream
    BY <1>2, AtType, MessageType DEF Composes
  <1>5. IsPart(Peer(e), i) <=> m[k].size > 1
    BY <1>3 DEF IsPart
  <1> HIDE DEF i, m
  <1>6. sent' = sent /\ shown' = shown
    BY <1>1 DEF UserReceive
  <1>7. CASE ~IsPart(Peer(e), i)
    BY <1>1, <1>4, <1>5, <1>6, <1>7 DEF UserReceive, i, m
  <1>8. CASE IsPart(Peer(e), i) /\ Closing(Peer(e), i) /\ split[e][c] = <<>>
    <2>1. UNCHANGED <<split, received>>
      BY <1>1, <1>3, <1>8 DEF UserReceive, MergeParts
    <2> QED BY <1>3, <1>5, <1>6, <1>8, <2>1 DEF i, m
  <1>9. CASE IsPart(Peer(e), i) /\ Closing(Peer(e), i) /\ split[e][c] # <<>>
    <2>1. /\ received' = [received EXCEPT
                ![e] = Insert(received[e], Merged(e, i, Append(split[e][c], i)))]
          /\ split' = [split EXCEPT ![e][c] = <<>>]
      BY <1>1, <1>3, <1>9 DEF UserReceive, MergeParts
    <2> QED BY <1>3, <1>5, <1>6, <1>9, <2>1 DEF i, m
  <1>10. CASE IsPart(Peer(e), i) /\ ~Closing(Peer(e), i)
    <2>1. /\ received' = received
          /\ split' = [split EXCEPT ![e][c] = Append(split[e][c], i)]
      BY <1>1, <1>3, <1>10 DEF UserReceive, KeepPart
    <2> QED BY <1>3, <1>5, <1>6, <1>10, <2>1 DEF i, m
  <1> QED BY <1>7, <1>8, <1>9, <1>10

\* Types of the queues and their elements.
LEMMA MergedType ==
    ASSUME Records, Composition, NEW e \in End, HandOver(e), NEW w \in Seq(Nat)
    PROVE  Merged(e, Coming(e), w) \in Queued
  <1>1. snd[Peer(e)].msgs[Coming(e)].serial \in Nat
    BY HandedPart, RecordsKnown, SerialType
  <1> QED BY <1>1 DEF Merged, SerialOf, Queued

\* The queues keep their types.
LEMMA QueuesTyped ==
    ASSUME Records, Records', Composition, QueueType, [UserNext]_userVars
    PROVE  QueueType'
  <1>1. TypeOK /\ TypeOK'
    BY DEF Records
  <1>2. ASSUME UNCHANGED <<split, received, shown>>
        PROVE  QueueType'
    BY <1>2 DEF QueueType
  <1>3. ASSUME NEW e \in End, ReceiveUser(e)
        PROVE  QueueType'
    <2>1. HandOver(e)
      BY <1>3 DEF ReceiveUser
    <2>2. PICK k, p : At(sent[Peer(e)], k, p, Coming(e))
      BY <2>1, HandedPart
    <2> DEFINE c == sent[Peer(e)][k].class
               w == split[e][c]
    <2>3. c \in Stream
      BY <2>2, RecordsKnown, AtType DEF Composition
    <2>4. /\ received[e] \in Seq(Queued) /\ split[e] \in [Stream -> Seq(Nat)]
          /\ w \in Seq(Nat) /\ Coming(e) \in Nat
      BY <2>1, <2>3, HandedPart DEF QueueType
    <2>5. /\ <<Coming(e)>> \in Seq(Nat) /\ Append(w, Coming(e)) \in Seq(Nat)
          /\ <<>> \in Seq(Nat)
      BY <2>4, OneElement, AppendProperties, EmptySeq
    <2>6. \A v \in Seq(Nat) :
              Insert(received[e], Merged(e, Coming(e), v)) \in Seq(Queued)
      BY <2>1, <2>4, MergedType, InsertType
    <2> HIDE DEF w
    <2>7. /\ shown' = shown
          /\ \/ received' = received
             \/ \E v \in Seq(Nat) : received' =
                  [received EXCEPT ![e] = Insert(received[e], Merged(e, Coming(e), v))]
          /\ \/ split' = split
             \/ \E v \in Seq(Nat) : split' = [split EXCEPT ![e][c] = v]
      BY <1>3, <2>2, <2>5, UserRoutine DEF w
    <2> HIDE DEF c
    <2>8. \A r \in Seq(Queued) : [received EXCEPT ![e] = r] \in [End -> Seq(Queued)]
      BY DEF QueueType
    <2>9. \A v \in Seq(Nat) :
              [split EXCEPT ![e][c] = v] \in [End -> [Stream -> Seq(Nat)]]
      BY <2>3 DEF QueueType
    <2>10. received' \in [End -> Seq(Queued)]
      BY <2>6, <2>7, <2>8 DEF QueueType
    <2>11. split' \in [End -> [Stream -> Seq(Nat)]]
      BY <2>7, <2>9 DEF QueueType
    <2> QED BY <2>7, <2>10, <2>11 DEF QueueType
  <1>4. ASSUME NEW e \in End, ProcessUserMessages(e)
        PROVE  QueueType'
    <2>1. /\ received[e] \in Seq(Queued) /\ received[e] # <<>>
          /\ shown[e] \in Seq(Seq(Nat))
      BY <1>4 DEF ProcessUserMessages, QueueType
    <2>2. Tail(received[e]) \in Seq(Queued) /\ Head(received[e]) \in Queued
      BY <2>1, HeadTailProperties
    <2>3. Append(shown[e], Head(received[e]).parts) \in Seq(Seq(Nat))
      <3>1. Head(received[e]).parts \in Seq(Nat)
        BY <2>2 DEF Queued
      <3> QED BY <2>1, <3>1, AppendProperties
    <2> QED BY <1>4, <2>2, <2>3 DEF ProcessUserMessages, QueueType
  <1>5. CASE \E e \in End, c \in Stream : SendMsg(e, c)
    BY <1>2, <1>5 DEF SendMsg, Begin
  <1>6. CASE \E e \in End : SendNextPart(e)
    BY <1>2, <1>6 DEF SendNextPart
  <1> QED BY <1>1, <1>2, <1>3, <1>4, <1>5, <1>6, UserSteps
-----------------------------------------------------------------------------
\* The receiving end keeps its invariant when a part is handed over ...
LEMMA ReceiveGame ==
    ASSUME Records, Records', Composition, QueueType, QueueType', NEW e \in End,
           ReceiveUser(e), Game(e), Sound(e)'
    PROVE  Game(e)'
  <1> DEFINE s == snd[Peer(e)]
             m == sent[Peer(e)]
             d == delivered[e]
             i == Coming(e)
             q == received[e]
             h == shown[e]
  <1>1. HandOver(e)
    BY DEF ReceiveUser
  <1>2. PICK k, p : At(m, k, p, i)
    BY <1>1, HandedPart
  <1> DEFINE c == m[k].class
             w == split[e]
             n == m[k].size
  <1>3. /\ SndOK(s) /\ SerialsUsedOnce(s) /\ StreamsNumbered(s) /\ Composes(s, m)
        /\ d \in Seq(Nat) /\ Range(d) \subseteq 1 .. Len(s.msgs)
        /\ HandedKnown(s, Append(d, i)) /\ i \in Nat
        /\ snd' = snd /\ delivered'[e] = Append(d, i)
    BY <1>1, RecordsKnown, HandedPart DEF Composition
  <1>4. InOrder(s, Append(d, i)) /\ NoGap(s, Append(d, i))
    BY <1>3 DEF Sound
  <1>5. /\ k \in Nat /\ k \in 1 .. Len(m) /\ p \in Nat /\ p \in 1 .. Len(m[k].parts)
        /\ p <= n /\ m[k].parts[p] = i /\ s.msgs[i].class = c /\ c \in Stream
    BY <1>2, <1>3, AtType
  <1>6. /\ m[k].parts \in Seq(Nat) /\ Len(m[k].parts) \in Nat /\ n \in Nat \ {0}
        /\ Len(m[k].parts) <= n
    BY <1>3, <1>5, MessageType DEF Composes, Sized
  <1>7. EndInv(s, m, d, w, q, h)
    BY DEF Game
  <1>8. /\ w \in [Stream -> Seq(Nat)] /\ q \in Seq(Queued)
        /\ split \in [End -> [Stream -> Seq(Nat)]] /\ received \in [End -> Seq(Queued)]
        /\ split'[e] \in [Stream -> Seq(Nat)]
    BY DEF QueueType
  <1>9. Opened(w[c], m[k], p - 1)
    <2>1. Awaited(s, m, d, c, w[c])
      BY <1>5, <1>7 DEF EndInv, SplitInv
    <2> QED BY <1>2, <1>3, <1>4, <2>1, PartsBefore
  <1>10. sent' = sent /\ shown' = shown
    BY <1>2, UserRoutine
  <1> DEFINE one(v) == Insert(q, Merged(e, i, v))
  <1>11. \/ n <= 1 /\ received' = [received EXCEPT ![e] = one(<<i>>)] /\ split' = split
         \/ n > 1 /\ p = n /\ w[c] = <<>> /\ UNCHANGED <<split, received>>
         \/ /\ n > 1 /\ p = n /\ w[c] # <<>>
            /\ received' = [received EXCEPT ![e] = one(Append(w[c], i))]
            /\ split' = [split EXCEPT ![e][c] = <<>>]
         \/ /\ n > 1 /\ p # n /\ received' = received
            /\ split' = [split EXCEPT ![e][c] = Append(w[c], i)]
    BY <1>2, UserRoutine
  <1>12. SUFFICES EndInv(s, m, Append(d, i), split'[e], received'[e], h)
    BY <1>3, <1>10 DEF Game
  \* A whole message is the last of its parts, with those before it in front.
  <1>13. ASSUME NEW v \in Seq(Nat), Opened(v, m[k], n), p = n
         PROVE  Merged(e, i, v) = Entries(s, m)[k]
    <2>1. Len(m[k].parts) = n
      BY <1>5, <1>6, <1>13
    <2>2. v = m[k].parts
      BY <1>6, <1>13, <2>1, SeqEqual DEF Opened
    <2> QED BY <1>5, <1>13, <2>2 DEF Merged, SerialOf, Entries
  <1> HIDE DEF s, m, d, i, q, h, c, w, n, one
  <1>14. w[c] \in Seq(Nat) /\ Len(w[c]) = p - 1 /\ Len(w[c]) \in Nat
         /\ \A o \in 1 .. p - 1 : w[c][o] = m[k].parts[o]
    BY <1>5, <1>8, <1>9 DEF Opened
  <1>15. Opened(Append(w[c], i), m[k], p)
    <2>1. /\ Append(w[c], i) \in Seq(Nat) /\ Len(Append(w[c], i)) = Len(w[c]) + 1
          /\ \A o \in 1 .. Len(w[c]) : Append(w[c], i)[o] = w[c][o]
          /\ Append(w[c], i)[Len(w[c]) + 1] = i
      BY <1>3, <1>14, AppendProperties
    <2> SUFFICES ASSUME NEW o \in 1 .. p PROVE Append(w[c], i)[o] = m[k].parts[o]
      BY <1>5, <1>14, <2>1 DEF Opened
    <2>2. CASE o = p
      BY <1>5, <1>14, <2>1, <2>2
    <2>3. CASE o # p
      BY <1>5, <1>14, <2>1, <2>3
    <2> QED BY <2>2, <2>3
  <1>16. CASE n <= 1 /\ received' = [received EXCEPT ![e] = one(<<i>>)] /\ split' = split
    <2>1. n = 1 /\ p = 1
      BY <1>5, <1>6, <1>16
    <2>2. w[c] = <<>>
      BY <1>14, <2>1, EmptySeq
    <2>3. <<i>> \in Seq(Nat) /\ <<i>> = Append(<<>>, i)
      BY <1>3, OneElement
    <2>4. Merged(e, i, <<i>>) = Entries(s, m)[k]
      BY <1>13, <1>15, <2>1, <2>2, <2>3
    <2>5. received'[e] = Insert(q, Entries(s, m)[k]) /\ split'[e] = w
      BY <1>8, <1>16, <2>4 DEF one, w
    <2>6. Closes(m, k, p)
      BY <2>1 DEF Closes, n
    <2>7. EndInv(s, m, Append(d, i), w, Insert(q, Entries(s, m)[k]), h)
      BY <1>2, <1>3, <1>4, <1>7, <1>8, <2>2, <2>6, PartCloses DEF c
    <2> QED BY <2>5, <2>7
  <1>17. CASE n > 1 /\ p = n /\ w[c] = <<>>
    <2>1. Len(w[c]) = 0
      BY <1>17, EmptySeq
    <2> QED BY <1>5, <1>6, <1>14, <1>17, <2>1
  <1>18. CASE /\ n > 1 /\ p = n
              /\ received' = [received EXCEPT ![e] = one(Append(w[c], i))]
              /\ split' = [split EXCEPT ![e][c] = <<>>]
    <2>1. Append(w[c], i) \in Seq(Nat)
      BY <1>3, <1>14, AppendProperties
    <2>2. Merged(e, i, Append(w[c], i)) = Entries(s, m)[k]
      BY <1>13, <1>15, <1>18, <2>1
    <2>3. received'[e] = Insert(q, Entries(s, m)[k])
      BY <1>8, <1>18, <2>2 DEF one
    <2>4. /\ split'[e][c] = <<>>
          /\ \A b \in Stream : b # c => split'[e][b] = w[b]
      BY <1>5, <1>8, <1>18 DEF w
    <2>5. Closes(m, k, p)
      BY <1>18 DEF Closes, n
    <2>6. EndInv(s, m, Append(d, i), split'[e], Insert(q, Entries(s, m)[k]), h)
      BY <1>2, <1>3, <1>4, <1>7, <1>8, <2>4, <2>5, PartCloses DEF c
    <2> QED BY <2>3, <2>6
  <1>19. CASE /\ n > 1 /\ p # n /\ received' = received
              /\ split' = [split EXCEPT ![e][c] = Append(w[c], i)]
    <2>1. received'[e] = q
      BY <1>19 DEF q
    <2>2. /\ split'[e][c] = Append(w[c], i)
          /\ \A b \in Stream : b # c => split'[e][b] = w[b]
      BY <1>5, <1>8, <1>19 DEF w
    <2>3. ~Closes(m, k, p)
      BY <1>19 DEF Closes, n
    <2>4. \A v \in [Stream -> Seq(Nat)] :
              /\ v[c] = Append(w[c], i)
              /\ \A b \in Stream : b # c => v[b] = w[b]
              => EndInv(s, m, Append(d, i), v, q, h)
      BY <1>2, <1>3, <1>4, <1>7, <2>3, PartWaits, SMTT(30) DEF c
    <2> QED BY <1>8, <2>1, <2>2, <2>4
  <1> QED BY <1>11, <1>16, <1>17, <1>18, <1>19

\* ... and when the game is shown a message.
LEMMA ShowGame ==
    ASSUME Records, Composition, QueueType, NEW e \in End, ProcessUserMessages(e), Game(e)
    PROVE  Game(e)'
  <1> DEFINE s == snd[Peer(e)]
             m == sent[Peer(e)]
             d == delivered[e]
             w == split[e]
             q == received[e]
             h == shown[e]
  <1>1. /\ SndOK(s) /\ SerialsUsedOnce(s) /\ StreamsNumbered(s) /\ Composes(s, m)
        /\ d \in Seq(Nat) /\ HandedKnown(s, d)
    BY RecordsKnown DEF Composition
  <1>2. /\ snd' = snd /\ sent' = sent /\ delivered' = delivered /\ split' = split
        /\ received' = [received EXCEPT ![e] = Tail(q)]
        /\ shown' = [shown EXCEPT ![e] = Append(h, Head(q).parts)]
        /\ q # <<>>
    BY DEF ProcessUserMessages, vars
  <1>3. q \in Seq(Queued) /\ h \in Seq(Seq(Nat))
    BY DEF QueueType
  <1>4. received'[e] = Tail(q) /\ shown'[e] = Append(h, Head(q).parts)
    BY <1>2 DEF QueueType
  <1>5. SUFFICES EndInv(s, m, d, w, Tail(q), Append(h, Head(q).parts))
    BY <1>2, <1>4 DEF Game
  <1>6. EndInv(s, m, d, w, q, h)
    BY DEF Game
  <1> HIDE DEF s, m, d, w, q, h
  <1>7. EntriesApart(Entries(s, m), Classes(m), Complete(m, d))
    BY <1>1, CompleteApart
  <1>8. QueueInv(Entries(s, m), Classes(m), Complete(m, d), q, h)
    BY <1>6 DEF EndInv
  <1>9. QueueInv(Entries(s, m), Classes(m), Complete(m, d),
                 Tail(q), Append(h, Head(q).parts))
    BY <1>2, <1>3, <1>7, <1>8, WholeShown
  <1> QED BY <1>6, <1>9 DEF EndInv

\* Whatever leaves an end's own state alone keeps its invariant.
LEMMA OtherGame ==
    ASSUME Records, Records', SentType, Composition, [UserNext]_userVars, NEW e \in End,
           Game(e), delivered'[e] = delivered[e], split'[e] = split[e],
           received'[e] = received[e], shown'[e] = shown[e]
    PROVE  Game(e)'
  <1> DEFINE s == snd[Peer(e)]
             t == snd'[Peer(e)]
             m == sent[Peer(e)]
             u == sent'[Peer(e)]
  <1>1. Peer(e) \in End /\ SndOK(s) /\ delivered[e] \in Seq(Nat)
        /\ HandedKnown(s, delivered[e])
    BY RecordsKnown
  <1>2. Composes(t, u) /\ Grown(m, u) /\ Keeps(s, t)
    BY <1>1, SentStep
  <1>3. SndOK(t)
    BY <1>1 DEF Records, TypeOK, SndOK
  <1>4. Composes(s, m)
    BY <1>1 DEF Composition
  <1>5. EndInv(s, m, delivered[e], split[e], received[e], shown[e])
    BY DEF Game
  <1>6. EndInv(t, u, delivered[e], split[e], received[e], shown[e])
    BY <1>1, <1>2, <1>3, <1>4, <1>5, EndKept
  <1> QED BY <1>6 DEF Game
-----------------------------------------------------------------------------
\* Every step keeps the invariant.
LEMMA GameStep ==
    ASSUME Records, Records', SentType, QueueType, QueueType', Composition, GameInv,
           (\A e \in End : Undisturbed(e) => Sound(e))', [UserNext]_userVars
    PROVE  GameInv'
  <1>1. ASSUME NEW e \in End, Undisturbed(e)'
        PROVE  Game(e) /\ Sound(e)'
    <2>1. TypeOK' /\ [Next]_vars
      BY UserStepIsNext DEF Records
    <2>2. Undisturbed(e)
      BY <1>1, <2>1, UndisturbedBefore
    <2> QED BY <1>1, <2>2 DEF GameInv
  <1>2. ASSUME NEW e \in End, Game(e), delivered'[e] = delivered[e],
               split'[e] = split[e], received'[e] = received[e], shown'[e] = shown[e]
        PROVE  Game(e)'
    BY <1>2, OtherGame
  <1>3. SUFFICES ASSUME NEW e \in End, Game(e), Sound(e)'
                 PROVE  Game(e)'
    BY <1>1 DEF GameInv
  <1>4. CASE \E x \in End : ReceiveUser(x)
    <2>1. PICK x \in End : ReceiveUser(x)
      BY <1>4
    <2>2. CASE x = e
      BY <1>3, <2>1, <2>2, ReceiveGame
    <2>3. CASE x # e
      <3>1. HandOver(x)
        BY <2>1 DEF ReceiveUser
      <3>2. /\ \E v : split' = [split EXCEPT ![x] = v]
            /\ \E v : received' = [received EXCEPT ![x] = v]
            /\ shown' = shown
        <4>1. PICK k, p : At(sent[Peer(x)], k, p, Coming(x))
          BY <3>1, HandedPart
        <4> DEFINE c == sent[Peer(x)][k].class
        <4>2. \A v : [split EXCEPT ![x][c] = v]
                         = [split EXCEPT ![x] = [split[x] EXCEPT ![c] = v]]
          OBVIOUS
        <4>3. /\ split = [split EXCEPT ![x] = split[x]]
              /\ received = [received EXCEPT ![x] = received[x]]
          BY DEF QueueType
        <4>4. /\ shown' = shown
              /\ \/ received' = received
                 \/ \E v : received' = [received EXCEPT ![x] = v]
              /\ \/ split' = split
                 \/ \E v : split' = [split EXCEPT ![x][c] = v]
          BY <2>1, <4>1, UserRoutine
        <4>5. \E v : received' = [received EXCEPT ![x] = v]
          BY <4>3, <4>4
        <4>6. \E v : split' = [split EXCEPT ![x] = v]
          BY <4>2, <4>3, <4>4
        <4> QED BY <4>4, <4>5, <4>6
      <3>3. delivered'[e] = delivered[e]
        BY <2>3, <3>1, TypeParts DEF Records, HandOver
      <3>4. split'[e] = split[e] /\ received'[e] = received[e] /\ shown'[e] = shown[e]
        BY <2>3, <3>2 DEF QueueType
      <3> QED BY <1>2, <1>3, <3>3, <3>4
    <2> QED BY <2>2, <2>3
  <1>5. CASE \E x \in End : ProcessUserMessages(x)
    <2>1. PICK x \in End : ProcessUserMessages(x)
      BY <1>5
    <2>2. CASE x = e
      BY <1>3, <2>1, <2>2, ShowGame
    <2>3. CASE x # e
      <3>1. /\ delivered' = delivered /\ split' = split
            /\ received'[e] = received[e] /\ shown'[e] = shown[e]
        BY <2>1, <2>3 DEF ProcessUserMessages, vars, QueueType
      <3> QED BY <1>2, <1>3, <3>1
    <2> QED BY <2>2, <2>3
  <1>6. CASE UNCHANGED <<delivered, split, received, shown>>
    BY <1>2, <1>3, <1>6
  <1>7. CASE \E x \in End, c \in Stream : SendMsg(x, c)
    BY <1>6, <1>7 DEF SendMsg, Begin, Dispatch
  <1>8. CASE \E x \in End : SendNextPart(x)
    BY <1>6, <1>8 DEF SendNextPart, Dispatch
  <1>9. TypeOK /\ TypeOK'
    BY DEF Records
  <1> QED BY <1>4, <1>5, <1>6, <1>7, <1>8, <1>9, UserSteps

\* The messages of the game keep their type.
LEMMA SentTyped ==
    ASSUME TypeOK, SentType, [UserNext]_userVars
    PROVE  SentType'
  <1>1. ASSUME sent' = sent PROVE SentType'
    BY <1>1 DEF SentType
  <1>2. ASSUME NEW e \in End, NEW u \in Seq(Message), sent' = [sent EXCEPT ![e] = u]
        PROVE  SentType'
    BY <1>2 DEF SentType
  <1>3. \A e \in End : Len(snd[e].msgs) + 1 \in Nat
    BY TypeParts, SndFields
  <1>4. ASSUME NEW e \in End, NEW c \in Stream, SendMsg(e, c)
        PROVE  SentType'
    <2>1. PICK n \in Sizes(e, c) :
              sent' = [sent EXCEPT ![e] =
                  Append(sent[e], [class |-> c, size |-> n, parts |-> <<NewPart(e)>>])]
      BY <1>4 DEF SendMsg, Begin
    <2> DEFINE x == [class |-> c, size |-> n, parts |-> <<NewPart(e)>>]
    <2>2. x \in Message
      <3>1. NewPart(e) \in Nat /\ n \in Nat \ {0}
        BY <1>3, <2>1, PartsAssumption DEF Sizes, NewPart
      <3>2. <<NewPart(e)>> \in Seq(Nat)
        BY <3>1, OneElement
      <3> QED BY <3>1, <3>2 DEF Message
    <2> HIDE DEF x
    <2>3. Append(sent[e], x) \in Seq(Message)
      BY <2>2, AppendProperties DEF SentType
    <2> QED BY <1>2, <2>1, <2>3 DEF x
  <1>5. ASSUME NEW e \in End, SendNextPart(e)
        PROVE  SentType'
    <2>1. PICK k \in Unfinished(e) :
              sent' = [sent EXCEPT ![e][k].parts = Append(@, NewPart(e))]
      BY <1>5 DEF SendNextPart
    <2>2. k \in 1 .. Len(sent[e]) /\ sent[e] \in Seq(Message)
      BY NextUnfinished
    <2> DEFINE q == Append(sent[e][k].parts, NewPart(e))
               x == [sent[e][k] EXCEPT !.parts = q]
               u == [sent[e] EXCEPT ![k] = x]
    <2>3. x \in Message
      <3>1. q \in Seq(Nat)
        BY <1>3, <2>2, MessageType, AppendProperties DEF NewPart
      <3>2. sent[e][k] \in Message
        BY <2>2, MessageType
      <3> HIDE DEF q
      <3> QED BY <3>1, <3>2 DEF Message
    <2>4. sent' = [sent EXCEPT ![e] = u]
      BY <2>1
    <2> HIDE DEF x
    <2>5. u \in Seq(Message)
      BY <2>2, <2>3, ExceptSeq
    <2> HIDE DEF u
    <2> QED BY <1>2, <2>4, <2>5
  <1> QED
    BY <1>1, <1>4, <1>5
       DEF UserNext, userVars, ReceiveUser, UserReceive, ChannelStep, ProcessUserMessages

\* In the beginning there are no messages.
LEMMA GameInit ==
    ASSUME UserInit
    PROVE  SentType /\ QueueType /\ Composition /\ GameInv
  <1>1. <<>> \in Seq(Message) /\ <<>> \in Seq(Nat) /\ <<>> \in Seq(Queued)
        /\ <<>> \in Seq(Seq(Nat))
    BY EmptySeq
  <1>2. SentType /\ QueueType
    BY <1>1 DEF UserInit, SentType, QueueType
  <1>3. ASSUME NEW e \in End
        PROVE  /\ snd[e].msgs = <<>> /\ sent[e] = <<>> /\ delivered[e] = <<>>
               /\ split[e] = [c \in Stream |-> <<>>] /\ received[e] = <<>>
               /\ shown[e] = <<>>
    BY DEF UserInit, Init
  <1>4. ASSUME NEW s, s.msgs = <<>>
        PROVE  Composes(s, <<>>)
    BY <1>1, <1>4, EmptySeq DEF Composes, Sized, Owned, Arranged, Covered, At
  <1>5. ASSUME NEW s, NEW w, w = [c \in Stream |-> <<>>]
        PROVE  EndInv(s, <<>>, <<>>, w, <<>>, <<>>)
    <2>1. Len(<<>>) = 0 /\ w \in [Stream -> Seq(Nat)] /\ \A c \in Stream : w[c] = <<>>
      BY <1>1, <1>5
    <2>2. SplitInv(s, <<>>, <<>>, w)
      BY <2>1 DEF SplitInv, Awaited, Newest
    <2>3. Complete(<<>>, <<>>) = {}
      BY <2>1 DEF Complete
    <2>4. QueueInv(Entries(s, <<>>), Classes(<<>>), {}, <<>>, <<>>)
      BY <2>1 DEF QueueInv, Sorted
    <2> QED BY <2>2, <2>3, <2>4 DEF EndInv
  <1>6. Composition
    BY <1>3, <1>4 DEF Composition
  <1>7. GameInv
    BY <1>3, <1>5, PeerType DEF GameInv, Game
  <1> QED BY <1>2, <1>6, <1>7
-----------------------------------------------------------------------------
\* The game only adds to what the channels do.
LEMMA UsesChannels == UserSpec => Spec
  <1>1. UserInit => Init /\ TypeOK /\ SentType
    BY InitType, GameInit DEF UserInit
  <1>2. TypeOK /\ SentType /\ [UserNext]_userVars => TypeOK' /\ SentType' /\ [Next]_vars
    BY UserStepIsNext, NextType, SentTyped
  <1> QED BY <1>1, <1>2, PTL DEF UserSpec, Spec

\* What holds of the game and its channels in every state.
Connection == Records /\ SentType /\ QueueType /\ Composition /\ GameInv

\* The invariant of the game and its channels: messages are composed of the
\* parts the channel carries; what waits in split are the first parts of the
\* message to come, and received and shown hold what is whole, once and in order.
THEOREM GameCorrect == UserSpec => []Connection
  <1>1. UserInit => SentType /\ QueueType /\ Composition /\ GameInv
    BY GameInit
  <1>2. Records => \A e \in End : Undisturbed(e) => Sound(e)
    BY SoundStreams
  <1>3. Records /\ Records' /\ SentType /\ Composition /\ [UserNext]_userVars
            => SentType' /\ Composition'
    <2> SUFFICES ASSUME Records, Records', SentType, Composition, [UserNext]_userVars
                 PROVE  SentType' /\ Composition'
      OBVIOUS
    <2> QED BY SentStep DEF Composition
  <1>4. Records /\ Records' /\ QueueType /\ Composition /\ [UserNext]_userVars
            => QueueType'
    BY QueuesTyped
  <1>5. /\ Records /\ Records' /\ SentType /\ QueueType /\ QueueType' /\ Composition
        /\ GameInv /\ (\A e \in End : Undisturbed(e) => Sound(e))' /\ [UserNext]_userVars
        => GameInv'
    BY GameStep
  <1>6. UserSpec => []Records
    BY UsesChannels, TypeCorrect, OrderAlways, OutputsAlways, InputsAlways,
       PairsAlways, PTL DEF Records
  <1> DEFINE U == \A e \in End : Undisturbed(e) => Sound(e)
  <1> HIDE DEF U
  <1>7. (Records => U) /\ (/\ Records /\ Records' /\ SentType /\ QueueType /\ QueueType'
                           /\ Composition /\ GameInv /\ U' /\ [UserNext]_userVars
                           => GameInv')
    BY <1>2, <1>5 DEF U
  <1> QED BY <1>1, <1>3, <1>4, <1>6, <1>7, PTL DEF UserSpec, Connection

\* The messages of a stream all parts of which are submitted, and those shown.
OfSent(m, c) ==
    Select([k \in DOMAIN m |-> m[k].parts],
           {k \in DOMAIN m : m[k].class = c /\ ~(Len(m[k].parts) < m[k].size)})

OfShown(s, h, c) ==
    Select(h, {j \in DOMAIN h : s.msgs[Head(h[j])].class = c})

ShownAs(s, m, h, c) == IsPrefix(OfShown(s, h, c), OfSent(m, c))

\* What was shown of a stream are the first of its messages.
LEMMA ShownOf ==
    ASSUME NEW s, SndOK(s), NEW m, Composes(s, m), NEW d \in Seq(Nat), HandedKnown(s, d),
           InOrder(s, d), NoGap(s, d),
           NEW q \in Seq(Queued), NEW h \in Seq(Seq(Nat)), NEW w,
           EndInv(s, m, d, w, q, h), NEW c \in Stream
    PROVE  ShownAs(s, m, h, c)
  <1> DEFINE I == {j \in DOMAIN h : s.msgs[Head(h[j])].class = c}
             p == [k \in DOMAIN m |-> m[k].parts]
             G == {k \in DOMAIN m : m[k].class = c /\ ~(Len(m[k].parts) < m[k].size)}
             D == Complete(m, d)
             E == Entries(s, m)
             C == Classes(m)
  <1>1. /\ m \in Seq(Message) /\ Sized(m) /\ Len(m) \in Nat /\ DOMAIN m = 1 .. Len(m)
        /\ \A k \in 1 .. Len(m) : /\ m[k].parts \in Seq(Nat) /\ Len(m[k].parts) \in Nat
                                  /\ m[k].size \in Nat \ {0}
                                  /\ Len(m[k].parts) \in 1 .. m[k].size
                                  /\ k \in Nat
    BY MessageType DEF Composes, Sized
  <1>2. /\ Len(h) \in Nat /\ DOMAIN h = 1 .. Len(h)
        /\ \A j \in 1 .. Len(h) : h[j] \in Seq(Nat)
    BY RangeOfMember
  <1>3. QueueInv(E, C, D, q, h)
    BY DEF EndInv
  <1>4. ASSUME NEW k \in D
        PROVE  /\ k \in 1 .. Len(m) /\ k \in Nat /\ Len(m[k].parts) = m[k].size
               /\ E[k].parts = m[k].parts /\ C[k] = m[k].class
               /\ At(m, k, 1, Head(m[k].parts))
               /\ s.msgs[Head(m[k].parts)].class = m[k].class
    <2>1. k \in 1 .. Len(m) /\ k \in Nat /\ Len(m[k].parts) = m[k].size
      BY CompleteAt
    <2>2. E[k].parts = m[k].parts /\ C[k] = m[k].class
      BY <2>1 DEF Entries, Classes
    <2>3. At(m, k, 1, Head(m[k].parts))
      <3>1. 1 \in 1 .. Len(m[k].parts) /\ Head(m[k].parts) = m[k].parts[1]
        BY <1>1, <2>1
      <3> QED BY <2>1, <3>1 DEF At
    <2> QED BY <2>1, <2>2, <2>3, AtType
  <1>5. ASSUME NEW k \in D, NEW x \in 1 .. Len(m), x < k, m[x].class = m[k].class
        PROVE  x \in D
    <2>1. /\ k \in 1 .. Len(m) /\ k \in Nat /\ Len(m) \in Nat
          /\ \E j \in 1 .. Len(d) : At(m, k, m[k].size, d[j])
      BY <1>1, CompleteAt
    <2>2. PICK j \in 1 .. Len(d) : At(m, k, m[k].size, d[j])
      BY <2>1
    <2>3. Len(m[x].parts) = m[x].size /\ m[x].size \in 1 .. Len(m[x].parts)
      <3>1. x < Len(m)
        BY <1>5, <2>1
      <3> QED BY <1>1, <3>1 DEF Sized
    <2> DEFINE y == m[x].parts[m[x].size]
    <2>4. At(m, x, m[x].size, y)
      BY <2>3 DEF At
    <2> HIDE DEF y
    <2>5. y < d[j]
      BY <1>5, <2>2, <2>4 DEF Composes, Arranged
    <2>6. y \in Nat /\ y \in 1 .. Len(s.msgs) /\ d[j] \in Nat
          /\ s.msgs[y].class = m[x].class /\ s.msgs[d[j]].class = m[k].class
          /\ m[x].class \in Stream
      <3>1. y \in Nat /\ y \in 1 .. Len(s.msgs) /\ s.msgs[y].class = m[x].class
            /\ m[x].class \in Stream
        BY <2>4, AtType
      <3>2. d[j] \in Nat /\ s.msgs[d[j]].class = m[k].class
        BY <2>2, AtType
      <3> QED BY <3>1, <3>2
    <2>7. Len(d) \in Nat /\ Range(d) = {d[z] : z \in 1 .. Len(d)}
      BY RangeEquality, LenProperties
    <2>8. y \in 1 .. d[j] - 1 /\ s.msgs[y].class = s.msgs[d[j]].class
      BY <1>5, <2>5, <2>6
    <2>9. PICK z \in 1 .. j - 1 : d[z] = y
      BY <2>6, <2>8 DEF NoGap
    <2>10. y \in Range(d)
      BY <2>7, <2>9
    <2> QED BY <2>3, <2>10 DEF Complete, y
  \* What was shown at place j is message f[j].
  <1> DEFINE f == [j \in I |-> CHOOSE k \in D : h[j] = E[k].parts]
  <1>6. ASSUME NEW j \in I
        PROVE  /\ f[j] \in D /\ h[j] = E[f[j]].parts /\ C[f[j]] = c
               /\ j \in 1 .. Len(h)
    <2>1. j \in 1 .. Len(h) /\ s.msgs[Head(h[j])].class = c
      BY <1>2
    <2>2. \E k \in D : h[j] = E[k].parts
      BY <1>3, <2>1 DEF QueueInv
    <2>3. f[j] \in D /\ h[j] = E[f[j]].parts
      <3>1. f[j] = CHOOSE k \in D : h[j] = E[k].parts
        OBVIOUS
      <3> HIDE DEF f, E, D
      <3> QED BY <2>2, <3>1
    <2> HIDE DEF f, E, D, C
    <2> QED BY <1>4, <2>1, <2>3
  <1>7. ASSUME NEW j \in 1 .. Len(h), NEW k \in D, h[j] = E[k].parts, C[k] = c
        PROVE  j \in I /\ f[j] = k
    <2>1. j \in I
      <3> HIDE DEF E, D, C
      <3>1. s.msgs[Head(h[j])].class = c
        BY <1>4, <1>7
      <3> QED BY <1>2, <3>1
    <2>2. f[j] \in D /\ h[j] = E[f[j]].parts
      BY <1>6, <2>1
    <2> HIDE DEF f, E, D, C, I
    <2>3. k \in 1 .. Len(m) /\ f[j] \in 1 .. Len(m) /\ m[k].parts = m[f[j]].parts
      BY <1>4, <1>7, <2>2
    <2> QED BY <2>1, <2>3, PartsApart
  <1>8. ASSUME NEW g \in G
        PROVE  g \in 1 .. Len(m) /\ g \in Nat /\ m[g].class = c
               /\ Len(m[g].parts) = m[g].size
    BY <1>1
  <1>9. ASSUME NEW k \in D, C[k] = c
        PROVE  k \in G
    <2>1. k \in 1 .. Len(m) /\ Len(m[k].parts) = m[k].size /\ m[k].class = c
      <3> HIDE DEF D, C
      <3> QED BY <1>4, <1>9
    <2> QED BY <1>1, <2>1
  <1>10. \A k, l \in D : C[k] = C[l] =>
            /\ \A i, j \in 1 .. Len(h) :
                  i < j /\ h[i] = E[k].parts /\ h[j] = E[l].parts => k < l
            /\ \A i \in 1 .. Len(h), j \in 1 .. Len(q) :
                  h[i] = E[k].parts /\ q[j] = E[l] => k < l
    <2> HIDE DEF D, C, E
    <2> QED BY <1>3 DEF QueueInv
  <1>11. \A k \in D : \/ \E j \in 1 .. Len(q) : q[j] = E[k]
                      \/ \E i \in 1 .. Len(h) : h[i] = E[k].parts
    <2> HIDE DEF D, C, E
    <2> QED BY <1>3 DEF QueueInv
  <1> HIDE DEF I, G, D, E, C, f
  <1>12. Through(I, f, G)
    <2>1. \A j \in I : f[j] \in G
      BY <1>6, <1>9
    <2>2. ASSUME NEW i \in I, NEW j \in I, i < j
          PROVE  f[i] < f[j]
      <3>1. /\ f[i] \in D /\ h[i] = E[f[i]].parts /\ C[f[i]] = c /\ i \in 1 .. Len(h)
            /\ f[j] \in D /\ h[j] = E[f[j]].parts /\ C[f[j]] = c /\ j \in 1 .. Len(h)
        BY <1>6
      <3> QED BY <1>10, <2>2, <3>1
    <2>3. ASSUME NEW j \in I, NEW g \in G, g < f[j]
          PROVE  \E i \in I : i < j /\ f[i] = g
      <3>1. /\ f[j] \in D /\ h[j] = E[f[j]].parts /\ C[f[j]] = c /\ j \in 1 .. Len(h)
            /\ f[j] \in Nat /\ m[f[j]].class = c
        BY <1>4, <1>6
      <3>2. g \in D /\ C[g] = c /\ g \in Nat
        <4>1. g \in D
          BY <1>5, <1>8, <2>3, <3>1
        <4> QED BY <1>4, <1>8, <4>1
      <3>3. ASSUME NEW i \in 1 .. Len(q), q[i] = E[g]
            PROVE  FALSE
        <4>1. f[j] < g
          BY <1>10, <3>1, <3>2, <3>3
        <4> QED BY <2>3, <3>1, <3>2, <4>1
      <3>4. PICK i \in 1 .. Len(h) : h[i] = E[g].parts
        BY <1>11, <3>2, <3>3
      <3>5. i \in I /\ f[i] = g
        BY <1>7, <3>2, <3>4
      <3>6. ~(j < i)
        <4> SUFFICES ASSUME j < i PROVE FALSE
          OBVIOUS
        <4>1. f[j] < g
          BY <2>2, <3>5
        <4> QED BY <2>3, <3>1, <3>2, <4>1
      <3>7. i # j
        BY <2>3, <3>1, <3>5
      <3>8. i < j
        BY <1>2, <3>1, <3>6, <3>7
      <3> QED BY <3>5, <3>8
    <2> QED BY <2>1, <2>2, <2>3 DEF Through
  <1>13. Within(I, Len(h)) /\ Within(G, Len(m))
    BY <1>6, <1>8 DEF Within
  <1>14. /\ Cardinality(I) <= Cardinality(G)
         /\ \A k \in 1 .. Cardinality(I) : Nth(G, k) = f[Nth(I, k)]
    BY <1>1, <1>2, <1>12, <1>13, GoesThrough
  <1>15. /\ Select(h, I) \in Seq(Seq(Nat)) /\ Len(Select(h, I)) = Cardinality(I)
         /\ Cardinality(I) \in Nat
         /\ \A k \in 1 .. Cardinality(I) :
               Select(h, I)[k] = h[Nth(I, k)] /\ Nth(I, k) \in I
    <2>1. Holds(h, I, Seq(Nat))
      BY <1>2, <1>6 DEF Holds
    <2> QED BY <1>2, <1>13, <2>1, SelectType
  <1>16. \A k \in 1 .. Len(m) : p[k] = m[k].parts /\ p[k] \in Seq(Nat)
    BY <1>1
  <1> HIDE DEF p
  <1>17. /\ Select(p, G) \in Seq(Seq(Nat)) /\ Len(Select(p, G)) = Cardinality(G)
         /\ Cardinality(G) \in Nat
         /\ \A k \in 1 .. Cardinality(G) :
               Select(p, G)[k] = p[Nth(G, k)] /\ Nth(G, k) \in G
    <2>1. Holds(p, G, Seq(Nat))
      BY <1>8, <1>16 DEF Holds
    <2> QED BY <1>1, <1>13, <2>1, SelectType
  <1>18. ASSUME NEW k \in 1 .. Cardinality(I)
         PROVE  Select(h, I)[k] = Select(p, G)[k]
    <2>1. k \in 1 .. Cardinality(G) /\ Nth(I, k) \in I /\ Nth(G, k) = f[Nth(I, k)]
      BY <1>14, <1>15, <1>17
    <2>2. /\ f[Nth(I, k)] \in D /\ h[Nth(I, k)] = E[f[Nth(I, k)]].parts
      BY <1>6, <2>1
    <2>3. h[Nth(I, k)] = m[Nth(G, k)].parts /\ Nth(G, k) \in 1 .. Len(m)
      BY <1>4, <2>1, <2>2
    <2> QED BY <1>15, <1>16, <1>17, <2>1, <2>3
  <1>19. IsPrefix(Select(h, I), Select(p, G))
    <2> DEFINE a == Select(h, I)
               b == Select(p, G)
    <2> HIDE DEF a, b
    <2>1. /\ a \in Seq(Seq(Nat)) /\ b \in Seq(Seq(Nat)) /\ Len(a) \in Nat /\ Len(b) \in Nat
          /\ Len(a) <= Len(b) /\ \A k \in 1 .. Len(a) : a[k] = b[k]
      BY <1>14, <1>15, <1>17, <1>18 DEF a, b
    <2>2. SubSeq(a, 1, Len(a)) = SubSeq(b, 1, Len(a))
      BY <2>1
    <2> QED BY <2>1, <2>2 DEF IsPrefix, a, b
  <1> QED BY <1>19 DEF I, G, p, ShownAs, OfSent, OfShown

\* The same in terms of the variables.
LEMMA StreamsOf ==
    ASSUME NEW e \in End, NEW c \in Stream
    PROVE  /\ Sent(e, c) = OfSent(sent[e], c)
           /\ Sent(e, c)' = OfSent(sent'[e], c)
           /\ Shown(e, c) = OfShown(snd[Peer(e)], shown[e], c)
           /\ Shown(e, c)' = OfShown(snd'[Peer(e)], shown'[e], c)
  BY DEF Sent, Shown, Finished, Unfinished, OfSent, OfShown

\* What ShownInOrder says of one stream, from the invariant.
LEMMA ShownPrefix ==
    ASSUME Connection, NEW e \in End, Undisturbed(e), NEW c \in Stream
    PROVE  IsPrefix(Shown(e, c), Sent(Peer(e), c))
  <1> DEFINE s == snd[Peer(e)]
             m == sent[Peer(e)]
  <1>1. /\ SndOK(s) /\ Composes(s, m) /\ delivered[e] \in Seq(Nat) /\ Peer(e) \in End
        /\ HandedKnown(s, delivered[e])
    BY RecordsKnown DEF Connection, Composition
  <1>2. InOrder(s, delivered[e]) /\ NoGap(s, delivered[e])
    BY SoundStreams DEF Connection, Sound
  <1>3. EndInv(s, m, delivered[e], split[e], received[e], shown[e])
    BY DEF Connection, GameInv, Game
  <1>4. received[e] \in Seq(Queued) /\ shown[e] \in Seq(Seq(Nat))
    BY DEF Connection, QueueType
  <1>5. ShownAs(s, m, shown[e], c)
    <2> HIDE DEF s, m
    <2> QED BY <1>1, <1>2, <1>3, <1>4, ShownOf
  <1> QED BY <1>1, <1>5, StreamsOf DEF ShownAs

\* The game is shown the messages of each stream whole, once each and in the
\* order in which its peer called SendMsg (ShownInOrder), for any workload.
THEOREM GameShown == UserSpec => []ShownInOrder
  <1>1. Connection => ShownInOrder
    BY ShownPrefix DEF ShownInOrder
  <1> QED BY <1>1, GameCorrect, PTL

\* The last part of a message always finds the parts before it (OpenerThere).
THEOREM OpenerAlwaysThere == UserSpec => OpenerThere
  <1> DEFINE V == \A e \in End : Undisturbed(e) => Sound(e)
             A == \A e \in End :
                      delivered'[e] # delivered[e] /\ Undisturbed(e)' =>
                          LET i == Last(delivered'[e])
                          IN IsPart(Peer(e), i) /\ Closing(Peer(e), i)
                                 => split[e][Whole(Peer(e), i).class] # <<>>
  <1>1. Connection => V
    BY SoundStreams DEF Connection
  <1>2. ASSUME Connection, Connection', V', UserNext
        PROVE  A
    <2> SUFFICES ASSUME NEW e \in End, delivered'[e] # delivered[e], Undisturbed(e)',
                        IsPart(Peer(e), Last(delivered'[e])),
                        Closing(Peer(e), Last(delivered'[e])),
                        split[e][Whole(Peer(e), Last(delivered'[e])).class] = <<>>
                 PROVE  FALSE
      OBVIOUS
    <2> DEFINE s == snd[Peer(e)]
               m == sent[Peer(e)]
               d == delivered[e]
               i == Coming(e)
    <2>1. Records /\ Records' /\ SentType /\ QueueType /\ Composition /\ GameInv
          /\ TypeOK /\ TypeOK' /\ OrderInv
      BY <1>2 DEF Connection, Records
    <2>2. /\ Undisturbed(e) /\ Sound(e)'
      <3>1. [Next]_vars
        BY <1>2, <2>1, UserStepIsNext
      <3> QED BY <1>2, <2>1, <3>1, UndisturbedBefore
    <2>3. HandOver(e)
      <3>1. PICK x \in End : ReceiveUser(x)
        <4>1. \A x \in End, c \in Stream : SendMsg(x, c) => delivered' = delivered
          BY DEF SendMsg, Begin, Dispatch
        <4>2. \A x \in End : SendNextPart(x) => delivered' = delivered
          BY DEF SendNextPart, Dispatch
        <4>3. \A x \in End : ProcessUserMessages(x) => delivered' = delivered
          BY DEF ProcessUserMessages, vars
        <4> QED BY <1>2, <2>1, <4>1, <4>2, <4>3, UserSteps
      <3>2. x = e
        BY <2>1, <3>1, TypeParts DEF ReceiveUser, HandOver
      <3> QED BY <3>1, <3>2 DEF ReceiveUser
    <2>4. PICK k, p : At(m, k, p, i)
      BY <2>1, <2>3, HandedPart
    <2>5. /\ SndOK(s) /\ Composes(s, m) /\ Peer(e) \in End /\ SndOK(snd[Peer(e)])
          /\ d \in Seq(Nat) /\ Range(d) \subseteq 1 .. Len(s.msgs) /\ i \in Nat
          /\ snd' = snd /\ delivered'[e] = Append(d, i)
      BY <2>1, <2>3, RecordsKnown, HandedPart DEF Composition
    <2>6. InOrder(s, Append(d, i)) /\ NoGap(s, Append(d, i))
      BY <2>2, <2>5 DEF Sound
    <2> HIDE DEF i
    <2>7. Last(Append(d, i)) = i
      BY <2>5, AppendProperties DEF Last
    <2>8. Whole(Peer(e), i) = m[k] /\ (Closing(Peer(e), i) <=> p = m[k].size)
      BY <2>4, <2>5, WholeIs
    <2>9. m[k].size > 1 /\ p = m[k].size /\ split[e][m[k].class] = <<>>
      BY <2>5, <2>7, <2>8 DEF IsPart
    <2>10. Awaited(s, m, d, m[k].class, split[e][m[k].class])
      <3>1. m[k].class \in Stream
        BY <2>4, <2>5, AtType
      <3> QED BY <2>1, <2>2, <3>1 DEF GameInv, Game, EndInv, SplitInv
    <2> HIDE DEF s, m, d
    <2>11. Opened(split[e][m[k].class], m[k], p - 1)
      BY <2>4, <2>5, <2>6, <2>10, PartsBefore
    <2>12. p \in Nat /\ Len(<<>>) = p - 1
      BY <2>4, <2>5, <2>9, <2>11, AtType DEF Opened
    <2> QED BY <2>9, <2>12, EmptySeq
  <1>3. ASSUME UNCHANGED userVars
        PROVE  A
    BY <1>3 DEF userVars, vars
  <1> HIDE DEF A, V
  <1>4. Connection /\ Connection' /\ V' /\ [UserNext]_userVars => [A]_userVars
    BY <1>2, <1>3
  <1>5. UserSpec => [][A]_userVars
    BY <1>1, <1>4, GameCorrect, PTL DEF UserSpec
  <1> QED BY <1>5 DEF OpenerThere, A
-----------------------------------------------------------------------------
(***************************************************************************)
(* The game gets ordered delivery of its messages.                         *)
(***************************************************************************)
GameDelivery == INSTANCE OrderedDelivery WITH
    Id <- Seq(Nat),
    submitted <- [e \in End |-> [c \in Stream |-> Sent(e, c)]],
    handed <- [e \in End |-> [c \in Stream |-> Shown(e, c)]]

\* The messages of a stream are sequences of parts.
LEMMA OfSentType ==
    ASSUME NEW m \in Seq(Message), NEW c \in Stream
    PROVE  OfSent(m, c) \in Seq(Seq(Nat))
  <1> DEFINE I == {k \in DOMAIN m : m[k].class = c /\ ~(Len(m[k].parts) < m[k].size)}
             p == [k \in DOMAIN m |-> m[k].parts]
  <1>1. /\ DOMAIN m = 1 .. Len(m) /\ Len(m) \in Nat
        /\ \A k \in 1 .. Len(m) : m[k].parts \in Seq(Nat)
    BY MessageType
  <1>2. \A k \in I : k \in 1 .. Len(m) /\ p[k] \in Seq(Nat)
    BY <1>1
  <1>3. OfSent(m, c) = Select(p, I)
    BY DEF OfSent
  <1> HIDE DEF I, p
  <1>4. Within(I, Len(m)) /\ Holds(p, I, Seq(Nat))
    BY <1>2 DEF Within, Holds
  <1> QED BY <1>1, <1>3, <1>4, SelectType

\* From m to u message a is begun or gets a part more, and is the last.
LastChanged(m, u, a) ==
    /\ Len(u) = a /\ a # 0
    /\ \A k \in 1 .. a - 1 : k \in 1 .. Len(m) /\ u[k] = m[k]
    /\ \A k \in 1 .. Len(m) :
          k <= a - 1 \/ (k = a /\ Len(m[k].parts) < m[k].size)

\* It becomes the last of its stream when it has all its parts.
LEMMA OfSentGrows ==
    ASSUME NEW m \in Seq(Message), NEW u \in Seq(Message), NEW a \in Nat,
           LastChanged(m, u, a), NEW c \in Stream
    PROVE  /\ OfSent(u, c) = IF u[a].class = c /\ ~(Len(u[a].parts) < u[a].size)
                             THEN Append(OfSent(m, c), u[a].parts) ELSE OfSent(m, c)
           /\ u[a].class \in Stream /\ u[a].parts \in Seq(Nat)
  <1> DEFINE I == {k \in DOMAIN m : m[k].class = c /\ ~(Len(m[k].parts) < m[k].size)}
             J == {k \in DOMAIN u : u[k].class = c /\ ~(Len(u[k].parts) < u[k].size)}
             p == [k \in DOMAIN m |-> m[k].parts]
             q == [k \in DOMAIN u |-> u[k].parts]
  <1>1. /\ DOMAIN m = 1 .. Len(m) /\ DOMAIN u = 1 .. Len(u)
        /\ Len(m) \in Nat /\ Len(u) \in Nat
        /\ \A k \in 1 .. Len(m) : m[k].parts \in Seq(Nat)
        /\ \A k \in 1 .. Len(u) : u[k].parts \in Seq(Nat) /\ u[k].class \in Stream
    BY MessageType
  <1>2. /\ Len(u) = a /\ a # 0
        /\ \A k \in 1 .. a - 1 : k \in 1 .. Len(m) /\ u[k] = m[k]
        /\ \A k \in 1 .. Len(m) :
              k <= a - 1 \/ (k = a /\ Len(m[k].parts) < m[k].size)
    BY DEF LastChanged
  <1>3. PICK b \in Nat : a = b + 1 /\ b = a - 1
    <2>1. a - 1 \in Nat /\ a = (a - 1) + 1
      BY <1>2
    <2> QED BY <2>1
  <1>4. ASSUME NEW k \in I
        PROVE  k \in 1 .. b /\ p[k] = q[k] /\ p[k] \in Seq(Nat) /\ k \in J
    <2>1. k \in 1 .. Len(m) /\ m[k].class = c /\ ~(Len(m[k].parts) < m[k].size)
      BY <1>1
    <2>2. k \in 1 .. b /\ u[k] = m[k]
      BY <1>2, <1>3, <2>1
    <2>3. k \in 1 .. Len(u)
      BY <1>2, <1>3, <2>2
    <2>4. p[k] = m[k].parts /\ q[k] = u[k].parts
      BY <1>1, <2>1, <2>3
    <2> QED BY <1>1, <2>1, <2>2, <2>3, <2>4
  <1>5. ASSUME NEW k \in J, k # a
        PROVE  k \in I
    <2>1. k \in 1 .. Len(u) /\ u[k].class = c /\ ~(Len(u[k].parts) < u[k].size)
      BY <1>1
    <2>2. k \in 1 .. b /\ k \in 1 .. Len(m) /\ u[k] = m[k]
      BY <1>2, <1>3, <1>5, <2>1
    <2> QED BY <1>1, <2>1, <2>2
  <1>6. /\ a \in 1 .. Len(u) /\ q[a] = u[a].parts
        /\ a \in J <=> u[a].class = c /\ ~(Len(u[a].parts) < u[a].size)
    <2>1. a \in 1 .. Len(u)
      BY <1>2
    <2> QED BY <1>1, <2>1
  <1>7. OfSent(m, c) = Select(p, I) /\ OfSent(u, c) = Select(q, J)
    BY DEF OfSent
  <1> HIDE DEF I, J, p, q
  <1>8. Within(I, b) /\ Agree(p, q, I)
    BY <1>4 DEF Within, Agree
  <1>9. CASE a \in J
    <2>1. J = I \cup {b + 1}
      BY <1>3, <1>4, <1>5, <1>9
    <2>2. Select(q, I \cup {b + 1}) = Append(Select(p, I), q[b + 1])
      BY <1>8, SelectGrows
    <2> QED BY <1>1, <1>3, <1>6, <1>7, <1>9, <2>1, <2>2
  <1>10. CASE a \notin J
    <2>1. J = I
      BY <1>4, <1>5, <1>10
    <2>2. Select(p, I) = Select(q, I)
      BY <1>8, SelectSame
    <2> QED BY <1>1, <1>6, <1>7, <1>10, <2>1, <2>2
  <1> QED BY <1>9, <1>10

\* What was shown refers to messages of the sender.
Refers(s, h) == \A j \in 1 .. Len(h) : Head(h[j]) \in 1 .. Len(s.msgs)

\* What was shown reads the same when the sender adds messages ...
LEMMA OfShownKept ==
    ASSUME NEW s, NEW t, Keeps(s, t), NEW h \in Seq(Seq(Nat)), Refers(s, h), NEW c
    PROVE  OfShown(t, h, c) = OfShown(s, h, c)
  <1>1. DOMAIN h = 1 .. Len(h)
    BY LenProperties
  <1>2. \A j \in DOMAIN h : t.msgs[Head(h[j])].class = s.msgs[Head(h[j])].class
    BY <1>1 DEF Refers, Keeps
  <1>3. {j \in DOMAIN h : t.msgs[Head(h[j])].class = c}
            = {j \in DOMAIN h : s.msgs[Head(h[j])].class = c}
    BY <1>2
  <1> QED BY <1>3 DEF OfShown

\* ... and one message shown more is one more of its stream.
LEMMA OfShownGrows ==
    ASSUME NEW s, NEW h \in Seq(Seq(Nat)), NEW x \in Seq(Nat), NEW c
    PROVE  /\ OfShown(s, Append(h, x), c) = IF s.msgs[Head(x)].class = c
                                            THEN Append(OfShown(s, h, c), x)
                                            ELSE OfShown(s, h, c)
           /\ OfShown(s, h, c) \in Seq(Seq(Nat))
  <1> DEFINE g == Append(h, x)
             I == {k \in DOMAIN h : s.msgs[Head(h[k])].class = c}
             J == {k \in DOMAIN g : s.msgs[Head(g[k])].class = c}
             n == Len(h)
  <1>1. n \in Nat /\ DOMAIN h = 1 .. n /\ \A k \in 1 .. n : h[k] \in Seq(Nat)
    BY RangeOfMember
  <1>2. /\ g \in Seq(Seq(Nat)) /\ Len(g) = n + 1 /\ DOMAIN g = 1 .. n + 1
        /\ \A k \in 1 .. n : g[k] = h[k]
        /\ g[n + 1] = x
    BY AppendProperties, LenProperties
  <1> HIDE DEF g, n
  <1>3. (\A k \in I : k \in 1 .. n) /\ \A k \in I : h[k] = g[k] /\ h[k] \in Seq(Nat)
    BY <1>1, <1>2
  <1>4. J = IF s.msgs[Head(x)].class = c THEN I \cup {n + 1} ELSE I
    <2> DEFINE K(y) == s.msgs[Head(y)].class = c
    <2>1. I = {k \in 1 .. n : K(h[k])} /\ J = {k \in 1 .. n + 1 : K(g[k])}
      BY <1>1, <1>2
    <2> HIDE DEF K, I, J
    <2>2. J = IF K(x) THEN I \cup {n + 1} ELSE I
      BY <1>1, <1>2, <2>1
    <2> QED BY <2>2 DEF K
  <1>5. OfShown(s, h, c) = Select(h, I) /\ OfShown(s, g, c) = Select(g, J)
    BY DEF OfShown
  <1> HIDE DEF I, J
  <1>6. Within(I, n) /\ Agree(h, g, I) /\ Holds(h, I, Seq(Nat))
    BY <1>3 DEF Within, Agree, Holds
  <1>7. Select(h, I) \in Seq(Seq(Nat))
    BY <1>1, <1>6, SelectType
  <1>8. Select(g, I \cup {n + 1}) = Append(Select(h, I), g[n + 1])
    BY <1>1, <1>6, SelectGrows
  <1>9. Select(h, I) = Select(g, I)
    BY <1>1, <1>6, SelectSame
  <1> QED BY <1>2, <1>4, <1>5, <1>7, <1>8, <1>9 DEF g

\* What was shown are messages of the sender.
LEMMA ShownRefers ==
    ASSUME Connection, NEW e \in End, Undisturbed(e)
    PROVE  Refers(snd[Peer(e)], shown[e])
  <1> DEFINE s == snd[Peer(e)]
             m == sent[Peer(e)]
             d == delivered[e]
             h == shown[e]
  <1>1. /\ SndOK(s) /\ Composes(s, m) /\ d \in Seq(Nat) /\ Peer(e) \in End
        /\ HandedKnown(s, d)
    BY RecordsKnown DEF Connection, Composition
  <1>2. QueueInv(Entries(s, m), Classes(m), Complete(m, d), received[e], h)
    BY DEF Connection, GameInv, Game, EndInv
  <1> HIDE DEF s, m, d, h
  <1> SUFFICES ASSUME NEW j \in 1 .. Len(h) PROVE Head(h[j]) \in 1 .. Len(s.msgs)
    BY DEF Refers, s, h
  <1>3. PICK k \in Complete(m, d) : h[j] = Entries(s, m)[k].parts
    BY <1>2 DEF QueueInv
  <1>4. k \in 1 .. Len(m) /\ Len(m[k].parts) = m[k].size /\ m[k].size \in Nat \ {0}
    BY <1>1, CompleteAt
  <1>5. h[j] = m[k].parts
    BY <1>3, <1>4 DEF Entries
  <1>6. At(m, k, 1, Head(m[k].parts))
    <2>1. 1 \in 1 .. Len(m[k].parts) /\ Head(m[k].parts) = m[k].parts[1]
      BY <1>4
    <2> QED BY <1>4, <2>1 DEF At
  <1> QED BY <1>1, <1>5, <1>6, AtType

\* What was shown stays the same while the queue is not touched.
LEMMA ShownKept ==
    ASSUME Connection, Connection', [UserNext]_userVars, NEW e \in End, Undisturbed(e),
           NEW c \in Stream, shown'[e] = shown[e]
    PROVE  Shown(e, c)' = Shown(e, c)
  <1>1. /\ Peer(e) \in End /\ Keeps(snd[Peer(e)], snd'[Peer(e)])
        /\ shown[e] \in Seq(Seq(Nat))
    <2>1. Peer(e) \in End
      BY PeerType
    <2> QED BY <2>1, SentStep DEF Connection, QueueType
  <1>2. Refers(snd[Peer(e)], shown[e])
    BY ShownRefers
  <1> QED BY <1>1, <1>2, OfShownKept, StreamsOf

\* A message begun or a part more: the game submits a message or waits for the
\* other parts.
LEMMA SendSubmits ==
    ASSUME Connection, Connection', [UserNext]_userVars, \A x \in End : Undisturbed(x),
           shown' = shown, NEW e \in End, NEW u \in Seq(Message),
           sent' = [sent EXCEPT ![e] = u], NEW a \in Nat, LastChanged(sent[e], u, a)
    PROVE  [GameDelivery!Next]_GameDelivery!vars
  <1> DEFINE c == u[a].class
             x == u[a].parts
             m == sent[e]
  <1>1. sent \in [End -> Seq(Message)] /\ m \in Seq(Message)
    BY DEF Connection, SentType
  <1>2. \A y \in End : sent'[y] = IF y = e THEN u ELSE sent[y]
    BY <1>1
  <1>3. ASSUME NEW y \in End, NEW b \in Stream
        PROVE  Shown(y, b)' = Shown(y, b)
    BY <1>3, ShownKept
  <1>4. ASSUME NEW y \in End, NEW b \in Stream
        PROVE  Sent(y, b)' = IF y = e /\ b = c /\ ~(Len(x) < u[a].size)
                             THEN Append(Sent(y, b), x) ELSE Sent(y, b)
    <2>1. OfSent(u, b) = IF c = b /\ ~(Len(x) < u[a].size)
                         THEN Append(OfSent(m, b), x) ELSE OfSent(m, b)
      BY <1>1, OfSentGrows
    <2>2. Sent(y, b)' = OfSent(sent'[y], b) /\ Sent(y, b) = OfSent(sent[y], b)
      BY StreamsOf
    <2> HIDE DEF c, x
    <2>3. CASE y = e
      BY <1>2, <2>1, <2>2, <2>3
    <2>4. CASE y # e
      BY <1>2, <2>2, <2>4
    <2> QED BY <2>3, <2>4
  <1>5. c \in Stream /\ x \in Seq(Nat)
    BY <1>1, OfSentGrows DEF Stream
  <1>6. Sent(e, c) \in Seq(Seq(Nat))
    <2>1. OfSent(m, c) \in Seq(Seq(Nat))
      <3> HIDE DEF c
      <3> QED BY <1>1, <1>5, OfSentType
    <2> QED BY <1>5, <2>1, StreamsOf
  <1> HIDE DEF c, x
  <1>7. Len(Append(Sent(e, c), x)) = Len(Sent(e, c)) + 1
    BY <1>5, <1>6, AppendProperties
  <1> DEFINE before == [y \in End |-> [b \in Stream |-> Sent(y, b)]]
             after == [y \in End |-> [b \in Stream |-> Sent(y, b)']]
             given == [y \in End |-> [b \in Stream |-> Shown(y, b)]]
             given2 == [y \in End |-> [b \in Stream |-> Shown(y, b)']]
  <1>8. given2 = given
    BY <1>3
  <1>9. CASE Len(x) < u[a].size
    <2>1. after = before
      BY <1>4, <1>9
    <2> QED BY <1>8, <2>1 DEF GameDelivery!vars
  <1>10. CASE ~(Len(x) < u[a].size)
    <2>1. after = [before EXCEPT ![e][c] = Append(@, x)]
      BY <1>4, <1>10
    <2>2. Len(after[e][c]) = Len(before[e][c]) + 1
      BY <1>4, <1>5, <1>7, <1>10
    <2>3. \E id \in Seq(Nat) : after = [before EXCEPT ![e][c] = Append(@, id)]
      BY <1>5, <2>1
    <2>4. GameDelivery!Submit(e, c)
      BY <1>8, <2>2, <2>3 DEF GameDelivery!Submit
    <2> QED BY <1>5, <2>4 DEF GameDelivery!Next
  <1> QED BY <1>9, <1>10

EachPrefix ==
    \A e \in End, c \in Stream : IsPrefix(Shown(e, c), Sent(Peer(e), c))

\* One element more is the next one.
LEMMA NextOfPrefix ==
    ASSUME NEW S, NEW p \in Seq(S), NEW q \in Seq(S), NEW x \in S,
           IsPrefix(Append(p, x), q)
    PROVE  Len(p) < Len(q) /\ q[Len(p) + 1] = x
  <1> DEFINE n == Len(p) + 1
             t == Append(p, x)
  <1>1. Len(p) \in Nat /\ Len(q) \in Nat /\ n \in Nat /\ n # 0
    BY LenProperties
  <1>2. Len(t) = n /\ t[n] = x /\ t \in Seq(S)
    BY AppendProperties
  <1>3. n <= Len(q) /\ SubSeq(t, 1, n) = SubSeq(q, 1, n)
    BY <1>2 DEF IsPrefix
  <1> HIDE DEF n, t
  <1>4. SubSeq(t, 1, n)[n] = t[n] /\ SubSeq(q, 1, n)[n] = q[n]
    BY <1>1, <1>2, <1>3
  <1> QED BY <1>1, <1>2, <1>3, <1>4 DEF n

\* The message that the game is shown is the next of its stream.
LEMMA ShowHands ==
    ASSUME Connection, Connection', [UserNext]_userVars, \A x \in End : Undisturbed(x),
           EachPrefix', NEW e \in End, ProcessUserMessages(e)
    PROVE  [GameDelivery!Next]_GameDelivery!vars
  <1> DEFINE s == snd[Peer(e)]
             h == shown[e]
             x == Head(received[e]).parts
             c == s.msgs[Head(x)].class
  <1>1. /\ snd' = snd /\ sent' = sent
        /\ shown' = [shown EXCEPT ![e] = Append(h, x)] /\ received[e] # <<>>
    BY DEF ProcessUserMessages, vars
  <1>2. /\ h \in Seq(Seq(Nat)) /\ shown \in [End -> Seq(Seq(Nat))]
        /\ received[e] \in Seq(Queued)
    BY DEF Connection, QueueType
  <1>3. Peer(e) \in End /\ Peer(e) # e
    BY PeerType
  <1>4. x \in Seq(Nat)
    <2>1. Head(received[e]) \in Queued
      BY <1>1, <1>2, HeadTailProperties
    <2> QED BY <2>1 DEF Queued
  <1>5. \A y \in End : shown'[y] = IF y = e THEN Append(h, x) ELSE shown[y]
    BY <1>1, <1>2
  <1> HIDE DEF s, h, x, c
  <1>6. ASSUME NEW y \in End, NEW b \in Stream
        PROVE  /\ Sent(y, b)' = Sent(y, b)
               /\ Shown(y, b)' = IF y = e /\ b = c
                                 THEN Append(Shown(y, b), x) ELSE Shown(y, b)
    <2>1. Sent(y, b)' = Sent(y, b)
      BY <1>1, StreamsOf
    <2>2. /\ Shown(y, b) = OfShown(snd[Peer(y)], shown[y], b)
          /\ Shown(y, b)' = OfShown(snd'[Peer(y)], shown'[y], b)
      BY StreamsOf
    <2>3. OfShown(s, Append(h, x), b) = IF b = c THEN Append(OfShown(s, h, b), x)
                                                 ELSE OfShown(s, h, b)
      BY <1>2, <1>4, OfShownGrows DEF c
    <2>4. CASE y = e
      BY <1>1, <1>5, <2>1, <2>2, <2>3, <2>4 DEF s, h
    <2>5. CASE y # e
      BY <1>1, <1>5, <2>1, <2>2, <2>5
    <2> QED BY <2>4, <2>5
  <1> DEFINE before == [y \in End |-> [b \in Stream |-> Shown(y, b)]]
             after == [y \in End |-> [b \in Stream |-> Shown(y, b)']]
             given == [y \in End |-> [b \in Stream |-> Sent(y, b)]]
             given2 == [y \in End |-> [b \in Stream |-> Sent(y, b)']]
  <1>7. given2 = given
    BY <1>6
  <1>8. CASE c \notin Stream
    <2>1. after = before
      BY <1>6, <1>8
    <2> QED BY <1>7, <2>1 DEF GameDelivery!vars
  <1>9. CASE c \in Stream
    <2>1. PICK a \in Stream : a = c
      BY <1>9
    <2> DEFINE p == Shown(e, a)
               q == Sent(Peer(e), a)
    <2>2. IsPrefix(Append(p, x), q)
      <3>1. Shown(e, a)' = Append(p, x) /\ Sent(Peer(e), a)' = q
        BY <1>3, <1>6, <2>1
      <3>2. IsPrefix(Shown(e, a)', Sent(Peer(e), a)')
        BY <1>3 DEF EachPrefix
      <3> HIDE DEF p, q
      <3> QED BY <3>1, <3>2
    <2>3. p \in Seq(Seq(Nat))
      <3>1. p = OfShown(s, h, a)
        BY StreamsOf DEF s, h
      <3> QED BY <1>2, <1>4, <3>1, OfShownGrows
    <2>4. q \in Seq(Seq(Nat))
      <3>1. sent[Peer(e)] \in Seq(Message)
        BY <1>3 DEF Connection, SentType
      <3> QED BY <1>3, <3>1, OfSentType, StreamsOf
    <2>5. Len(p) < Len(q) /\ q[Len(p) + 1] = x
      <3> HIDE DEF p, q
      <3> QED BY <1>4, <2>2, <2>3, <2>4, NextOfPrefix
    <2>6. after = [before EXCEPT ![e][a] = Append(@, x)]
      BY <1>6, <2>1
    <2>7. /\ before[e][a] = p /\ given[Peer(e)][a] = q
      BY <1>3
    <2>8. GameDelivery!Hand(Peer(e), e, a)
      BY <1>7, <2>5, <2>6, <2>7 DEF GameDelivery!Hand
    <2> QED BY <1>3, <2>8 DEF GameDelivery!Next
  <1> QED BY <1>8, <1>9

\* In the beginning nothing is sent or shown.
LEMMA GameDeliveryInit == UserInit => GameDelivery!Init
  <1> SUFFICES ASSUME UserInit, NEW e \in End, NEW c \in Stream
               PROVE  Sent(e, c) = <<>> /\ Shown(e, c) = <<>>
    BY DEF GameDelivery!Init
  <1>1. sent[e] = <<>> /\ shown[e] = <<>>
    BY DEF UserInit
  <1>2. ASSUME NEW p, NEW I, I = {}
        PROVE  Select(p, I) = <<>>
    <2>1. Within(I, 0) /\ Holds(p, I, Nat)
      BY <1>2 DEF Within, Holds
    <2>2. Cardinality(I) = 0
      BY <1>2, FS_EmptySet
    <2>3. Select(p, I) \in Seq(Nat) /\ Len(Select(p, I)) = Cardinality(I)
      BY <2>1, SelectType
    <2> QED BY <2>2, <2>3, EmptySeq
  <1>3. DOMAIN <<>> = {}
    OBVIOUS
  <1>4. OfSent(<<>>, c) = <<>> /\ OfShown(snd[Peer(e)], <<>>, c) = <<>>
    BY <1>2, <1>3 DEF OfSent, OfShown
  <1> QED BY <1>1, <1>4, StreamsOf

\* The game gets ordered delivery of whole messages: it is shown those of its
\* peer, each stream's in the order of the calls of SendMsg and none of them
\* twice, as long as the masks stay ahead.
THEOREM GameDelivers ==
    UserSpec /\ [](\A e \in End : Undisturbed(e)) => GameDelivery!Spec
  <1> DEFINE U == \A e \in End : Undisturbed(e)
  <1>1. Connection /\ U => EachPrefix
    BY ShownPrefix DEF EachPrefix
  <1>2. Connection /\ Connection' /\ U /\ EachPrefix' /\ [UserNext]_userVars
            => [GameDelivery!Next]_GameDelivery!vars
    <2> SUFFICES ASSUME Connection, Connection', U, EachPrefix', [UserNext]_userVars
                 PROVE  [GameDelivery!Next]_GameDelivery!vars
      OBVIOUS
    <2>1. /\ Records /\ Records' /\ SentType /\ Composition /\ QueueType
          /\ TypeOK /\ TypeOK'
      BY DEF Connection, Records
    <2>2. ASSUME sent' = sent, shown' = shown
          PROVE  [GameDelivery!Next]_GameDelivery!vars
      <3>1. ASSUME NEW e \in End, NEW c \in Stream
            PROVE  Sent(e, c)' = Sent(e, c) /\ Shown(e, c)' = Shown(e, c)
        BY <2>2, <3>1, ShownKept, StreamsOf
      <3> QED BY <3>1 DEF GameDelivery!vars
    <2>3. CASE \E e \in End, c \in Stream : SendMsg(e, c)
      <3>1. PICK e \in End, c \in Stream : SendMsg(e, c)
        BY <2>3
      <3>2. PICK n \in Sizes(e, c) :
                sent' = [sent EXCEPT ![e] = Append(sent[e],
                    [class |-> c, size |-> n, parts |-> <<NewPart(e)>>])]
        BY <3>1 DEF SendMsg, Begin
      <3> DEFINE m == sent[e]
                 x == [class |-> c, size |-> n, parts |-> <<NewPart(e)>>]
                 u == Append(m, x)
      <3>3. /\ m \in Seq(Message) /\ Len(m) \in Nat /\ Len(m) + 1 \in Nat
        BY <2>1, LenProperties DEF SentType
      <3>4. /\ u = sent'[e] /\ u \in Seq(Message)
        <4>1. sent' \in [End -> Seq(Message)] /\ sent'[e] = u
          BY <2>1, <3>2, SentTyped DEF SentType
        <4> HIDE DEF u
        <4> QED BY <4>1
      <3>5. Len(u) = Len(m) + 1 /\ \A k \in 1 .. Len(m) : u[k] = m[k]
        BY <3>3 
      <3>6. LastChanged(m, u, Len(m) + 1)
        <4> HIDE DEF u, m
        <4> QED BY <3>3, <3>5 DEF LastChanged
      <3>7. \A y \in End : Undisturbed(y)
        BY DEF U
      <3>8. shown' = shown /\ sent' = [sent EXCEPT ![e] = u]
        BY <3>1, <3>2 DEF SendMsg, Begin
      <3> HIDE DEF u
      <3> QED BY <3>3, <3>4, <3>6, <3>7, <3>8, SendSubmits
    <2>4. CASE \E e \in End : SendNextPart(e)
      <3>1. PICK e \in End : SendNextPart(e)
        BY <2>4
      <3>2. PICK k \in Unfinished(e) :
                sent' = [sent EXCEPT ![e][k].parts = Append(@, NewPart(e))]
        BY <3>1 DEF SendNextPart
      <3> DEFINE m == sent[e]
                 u == [m EXCEPT ![k].parts = Append(@, NewPart(e))]
      <3>3. /\ m \in Seq(Message) /\ Len(m) \in Nat /\ Sized(m)
            /\ k \in 1 .. Len(m) /\ Len(m[k].parts) < m[k].size /\ DOMAIN m = 1 .. Len(m)
            /\ Len(m[k].parts) \in Nat /\ m[k].size \in Nat
        BY <2>1, NextUnfinished, MessageType DEF Composition, Composes
      <3>4. /\ shown' = shown /\ sent' = [sent EXCEPT ![e] = u]
        BY <3>1, <3>2 DEF SendNextPart
      <3>5. u \in Seq(Message)
        <4>1. sent' \in [End -> Seq(Message)] /\ sent'[e] = u
          BY <2>1, <3>4, SentTyped DEF SentType
        <4> HIDE DEF u
        <4> QED BY <4>1
      <3>6. k = Len(m)
        BY <3>3 DEF Sized
      <3>7. Len(u) = Len(m) /\ \A j \in 1 .. Len(m) : j # k => u[j] = m[j]
        BY <3>3
      <3>8. LastChanged(m, u, Len(m))
        <4>0. Len(m) \in Nat /\ Len(m) # 0 /\ Len(m) = k
          BY <3>3, <3>6
        <4> HIDE DEF u, m
        <4>1. PICK a \in Nat : a = Len(m) /\ a = k /\ a # 0
          BY <4>0
        <4>2. \A j \in 1 .. a : j <= a - 1 \/ j = a
          BY <4>1
        <4>3. \A j \in 1 .. a - 1 : j \in 1 .. a /\ j # a
          BY <4>1
        <4>4. Len(m[a].parts) < m[a].size
          BY <3>3, <4>1
        <4>5. Len(u) = a /\ \A j \in 1 .. a : j # a => u[j] = m[j]
          BY <3>7, <4>1
        <4> QED BY <4>1, <4>2, <4>3, <4>4, <4>5 DEF LastChanged
      <3>9. \A y \in End : Undisturbed(y)
        BY DEF U
      <3> HIDE DEF u
      <3> QED BY <3>3, <3>4, <3>5, <3>8, <3>9, SendSubmits
    <2>5. CASE \E e \in End : ReceiveUser(e)
      BY <2>2, <2>5 DEF ReceiveUser, UserReceive
    <2>6. CASE \E e \in End : ProcessUserMessages(e)
      <3>1. \A y \in End : Undisturbed(y)
        BY DEF U
      <3> QED BY <2>6, <3>1, ShowHands
    <2>7. CASE AllQuiet /\ UNCHANGED <<delivered, sent, split, received, shown>>
      BY <2>2, <2>7
    <2> QED BY <2>1, <2>3, <2>4, <2>5, <2>6, <2>7, UserSteps
  <1> HIDE DEF U
  <1>3. UserSpec /\ []U => GameDelivery!Spec
    BY <1>1, <1>2, GameCorrect, GameDeliveryInit, PTL DEF UserSpec, GameDelivery!Spec
  <1> QED BY <1>3 DEF U
=============================================================================
