------------------------- MODULE KafkaConsumer_proof -------------------------
(***************************************************************************)
(* Theorems about KafkaConsumer, for any partitions, messages and bounds.   *)
(***************************************************************************)
EXTENDS KafkaConsumer, FiniteSetTheorems, SequenceTheorems, TLAPS

-----------------------------------------------------------------------------
(* Sequences and the sets of what they hold.                                *)

LEMMA ElementsOf ==
  ASSUME NEW S, NEW s \in Seq(S)
  PROVE  Elements(s) \subseteq S /\ \A i \in 1..Len(s) : s[i] \in Elements(s)
  BY DEF Elements

LEMMA ElementsOfEmpty == Elements(<<>>) = {}
  BY DEF Elements

LEMMA ElementsOfOne ==
  ASSUME NEW x
  PROVE  Elements(<<x>>) = {x}
<1>1. DOMAIN <<x>> = 1..1 /\ <<x>>[1] = x
  OBVIOUS
<1>2. QED
  BY <1>1 DEF Elements

LEMMA ElementsConcat ==
  ASSUME NEW S, NEW s \in Seq(S), NEW t \in Seq(S)
  PROVE  s \o t \in Seq(S) /\ Elements(s \o t) = Elements(s) \cup Elements(t)
<1> DEFINE st == s \o t
<1>1. /\ st \in Seq(S) /\ Len(st) = Len(s) + Len(t)
      /\ \A i \in 1..Len(s) + Len(t) : st[i] = IF i <= Len(s) THEN s[i] ELSE t[i - Len(s)]
  BY ConcatProperties
<1> HIDE DEF st
<1>2. Len(s) \in Nat /\ Len(t) \in Nat /\ DOMAIN s = 1..Len(s) /\ DOMAIN t = 1..Len(t)
      /\ DOMAIN st = 1..Len(st)
  BY <1>1
<1>3. ASSUME NEW x \in Elements(st) PROVE x \in Elements(s) \cup Elements(t)
  <2>1. PICK i \in 1..Len(st) : x = st[i]
    BY <1>2 DEF Elements
  <2>2. CASE i <= Len(s)
    <3>1. i \in 1..Len(s) /\ x = s[i]
      BY <1>1, <1>2, <2>1, <2>2
    <3>2. QED
      BY <1>2, <3>1 DEF Elements
  <2>3. CASE i > Len(s)
    <3>1. i - Len(s) \in 1..Len(t) /\ x = t[i - Len(s)]
      BY <1>1, <1>2, <2>1, <2>3
    <3>2. QED
      BY <1>2, <3>1 DEF Elements
  <2>4. QED
    BY <1>1, <1>2, <2>1, <2>2, <2>3
<1>4. ASSUME NEW x \in Elements(s) PROVE x \in Elements(st)
  <2>1. PICK i \in 1..Len(s) : x = s[i]
    BY <1>2 DEF Elements
  <2>2. i \in 1..Len(st) /\ x = st[i]
    BY <1>1, <1>2, <2>1
  <2>3. QED
    BY <1>2, <2>2 DEF Elements
<1>5. ASSUME NEW x \in Elements(t) PROVE x \in Elements(st)
  <2>1. PICK i \in 1..Len(t) : x = t[i]
    BY <1>2 DEF Elements
  <2>2. i + Len(s) \in 1..Len(st) /\ ~(i + Len(s) <= Len(s)) /\ (i + Len(s)) - Len(s) = i
    BY <1>1, <1>2
  <2>3. x = st[i + Len(s)]
    BY <1>1, <2>1, <2>2
  <2>4. QED
    BY <1>2, <2>2, <2>3 DEF Elements
<1>6. QED
  BY <1>1, <1>3, <1>4, <1>5 DEF st

\* The first of a sequence, and the rest.
LEMMA HeadAndTail ==
  ASSUME NEW S, NEW s \in Seq(S), s # <<>>
  PROVE  /\ Head(s) \in S /\ Tail(s) \in Seq(S) /\ <<Head(s)>> \in Seq(S)
         /\ <<Head(s)>> \o Tail(s) = s
         /\ Elements(s) = {Head(s)} \cup Elements(Tail(s))
<1>1. /\ Head(s) \in S /\ Tail(s) \in Seq(S) /\ Len(Tail(s)) = Len(s) - 1
      /\ \A i \in 1..Len(Tail(s)) : Tail(s)[i] = s[i + 1]
  BY HeadTailProperties
<1>2. <<Head(s)>> \in Seq(S) /\ Len(<<Head(s)>>) = 1 /\ <<Head(s)>>[1] = s[1]
  BY <1>1
<1> DEFINE h == <<Head(s)>>
           t == Tail(s)
           ht == h \o t
<1>3. /\ ht \in Seq(S) /\ Len(ht) = Len(h) + Len(t)
      /\ \A i \in 1..Len(h) + Len(t) : ht[i] = IF i <= Len(h) THEN h[i] ELSE t[i - Len(h)]
  BY <1>1, <1>2, ConcatProperties
<1>4. Len(s) \in Nat /\ Len(h) = 1 /\ h[1] = s[1] /\ Len(t) = Len(s) - 1
      /\ \A i \in 1..Len(t) : t[i] = s[i + 1]
  BY <1>1, <1>2
<1> HIDE DEF h, t, ht
<1>5. Len(ht) = Len(s)
  BY <1>3, <1>4
<1>6. ASSUME NEW i \in 1..Len(ht) PROVE ht[i] = s[i]
  <2>1. CASE i = 1
    BY <1>3, <1>4, <1>5, <2>1
  <2>2. CASE i # 1
    <3>1. i - 1 \in 1..Len(t) /\ ht[i] = t[i - 1] /\ (i - 1) + 1 = i
      BY <1>3, <1>4, <1>5, <2>2
    <3>2. QED
      BY <1>4, <3>1
  <2>3. QED
    BY <2>1, <2>2
<1>7. ht = s
  BY <1>3, <1>5, <1>6, SeqEqual
<1>8. Elements(ht) = Elements(h) \cup Elements(t)
  BY <1>1, <1>2, ElementsConcat DEF h, t, ht
<1>9. QED
  BY <1>1, <1>2, <1>7, <1>8, ElementsOfOne DEF h, t, ht

LEMMA InjectsConcat ==
  ASSUME NEW S, NEW s \in Seq(S), NEW t \in Seq(S)
  PROVE  Injects(s \o t) <=>
           Injects(s) /\ Injects(t) /\ Elements(s) \cap Elements(t) = {}
<1> DEFINE st == s \o t
<1>1. /\ st \in Seq(S) /\ Len(st) = Len(s) + Len(t)
      /\ \A i \in 1..Len(s) + Len(t) : st[i] = IF i <= Len(s) THEN s[i] ELSE t[i - Len(s)]
  BY ConcatProperties
<1> HIDE DEF st
<1>2. Len(s) \in Nat /\ Len(t) \in Nat /\ DOMAIN s = 1..Len(s) /\ DOMAIN t = 1..Len(t)
      /\ DOMAIN st = 1..Len(st)
  BY <1>1
<1>3. \A i \in DOMAIN s : i \in DOMAIN st /\ st[i] = s[i]
  BY <1>1, <1>2
<1>4. \A i \in DOMAIN t : i + Len(s) \in DOMAIN st /\ st[i + Len(s)] = t[i]
  BY <1>1, <1>2
<1>5. \A i \in DOMAIN st : i \in DOMAIN s \/ (i - Len(s) \in DOMAIN t /\ st[i] = t[i - Len(s)])
  BY <1>1, <1>2
<1>6. ASSUME Injects(st) PROVE Injects(s) /\ Injects(t) /\ Elements(s) \cap Elements(t) = {}
  <2>1. Injects(s)
    BY <1>3, <1>6 DEF Injects
  <2>2. ASSUME NEW i \in DOMAIN t, NEW j \in DOMAIN t, t[i] = t[j] PROVE i = j
    <3>1. i + Len(s) = j + Len(s)
      BY <1>4, <1>6, <2>2 DEF Injects
    <3>2. QED
      BY <1>2, <3>1
  <2>3. ASSUME NEW i \in DOMAIN s, NEW j \in DOMAIN t, s[i] = t[j] PROVE FALSE
    <3>1. i = j + Len(s)
      BY <1>3, <1>4, <1>6, <2>3 DEF Injects
    <3>2. QED
      BY <1>2, <3>1
  <2>4. QED
    BY <2>1, <2>2, <2>3 DEF Injects, Elements
<1>7. ASSUME Injects(s), Injects(t), Elements(s) \cap Elements(t) = {} PROVE Injects(st)
  <2> SUFFICES ASSUME NEW i \in DOMAIN st, NEW j \in DOMAIN st, st[i] = st[j] PROVE i = j
    BY DEF Injects
  <2>1. CASE i \in DOMAIN s /\ j \in DOMAIN s
    BY <1>3, <1>7, <2>1 DEF Injects
  <2>2. CASE i \notin DOMAIN s /\ j \notin DOMAIN s
    <3>1. i - Len(s) \in DOMAIN t /\ j - Len(s) \in DOMAIN t /\ t[i - Len(s)] = t[j - Len(s)]
      BY <1>5, <2>2
    <3>2. i - Len(s) = j - Len(s)
      BY <1>7, <3>1 DEF Injects
    <3>3. QED
      BY <1>1, <1>2, <3>2
  <2>3. CASE i \in DOMAIN s /\ j \notin DOMAIN s
    BY <1>3, <1>5, <1>7, <2>3 DEF Elements
  <2>4. CASE i \notin DOMAIN s /\ j \in DOMAIN s
    BY <1>3, <1>5, <1>7, <2>4 DEF Elements
  <2>5. QED
    BY <2>1, <2>2, <2>3, <2>4
<1>8. QED
  BY <1>6, <1>7 DEF st

LEMMA AscendsConcat ==
  ASSUME NEW s \in Seq(Records), NEW t \in Seq(Records), Ascends(s), Ascends(t),
         \A x \in Elements(s), y \in Elements(t) : x[1] = y[1] => x[2] < y[2]
  PROVE  Ascends(s \o t)
<1> DEFINE st == s \o t
<1>1. /\ st \in Seq(Records) /\ Len(st) = Len(s) + Len(t)
      /\ \A i \in 1..Len(s) + Len(t) : st[i] = IF i <= Len(s) THEN s[i] ELSE t[i - Len(s)]
  BY ConcatProperties
<1> HIDE DEF st
<1>2. Len(s) \in Nat /\ Len(t) \in Nat /\ DOMAIN s = 1..Len(s) /\ DOMAIN t = 1..Len(t)
      /\ DOMAIN st = 1..Len(st)
  BY <1>1
<1>3. ASSUME NEW i \in DOMAIN st
      PROVE  \/ i \in DOMAIN s /\ st[i] = s[i]
             \/ i > Len(s) /\ i - Len(s) \in DOMAIN t /\ st[i] = t[i - Len(s)]
  BY <1>1, <1>2
<1> SUFFICES ASSUME NEW i \in DOMAIN st, NEW j \in DOMAIN st, i < j, st[i][1] = st[j][1]
             PROVE  st[i][2] < st[j][2]
  BY DEF Ascends, st
<1>4. CASE i \in DOMAIN s /\ j \in DOMAIN s
  BY <1>1, <1>2, <1>4 DEF Ascends
<1>5. CASE i \notin DOMAIN s /\ j \notin DOMAIN s
  <2> DEFINE k == i - Len(s)
             l == j - Len(s)
  <2>1. k \in DOMAIN t /\ l \in DOMAIN t /\ st[i] = t[k] /\ st[j] = t[l]
    BY <1>3, <1>5
  <2>2. k < l
    BY <1>1, <1>2
  <2> HIDE DEF k, l
  <2>3. QED
    BY <2>1, <2>2 DEF Ascends
<1>6. CASE i \in DOMAIN s /\ j \notin DOMAIN s
  <2>1. st[i] = s[i] /\ j - Len(s) \in DOMAIN t /\ st[j] = t[j - Len(s)]
    BY <1>1, <1>2, <1>3, <1>6
  <2>2. QED
    BY <2>1, <1>6 DEF Elements
<1>7. CASE i \notin DOMAIN s /\ j \in DOMAIN s
  BY <1>1, <1>2, <1>7
<1>8. QED
  BY <1>4, <1>5, <1>6, <1>7

-----------------------------------------------------------------------------
(* What a poll returns.                                                     *)

\* An ordering of a finite set holds each of its records once, and those of a
\* partition by offset.
LEMMA OrderingHolds ==
  ASSUME NEW S \in SUBSET Records, IsFiniteSet(S), NEW b \in Orderings(S)
  PROVE  b \in Seq(Records) /\ Elements(b) = S /\ Injects(b) /\ Ascends(b)
<1>1. Cardinality(S) \in Nat
  BY FS_CardinalityType
<1>2. /\ b \in [1..Cardinality(S) -> S]
      /\ \A r \in S : \E i \in DOMAIN b : b[i] = r
      /\ \A i, j \in DOMAIN b : i < j /\ b[i][1] = b[j][1] => b[i][2] < b[j][2]
  BY DEF Orderings
<1>3. b \in Seq(Records) /\ DOMAIN b = 1..Cardinality(S) /\ \A i \in DOMAIN b : b[i] \in S
  BY <1>1, <1>2
<1>4. Elements(b) = S
  BY <1>2, <1>3 DEF Elements
<1>5. Ascends(b)
  BY <1>2 DEF Ascends
<1>6. \A x \in S : x[2] \in Int
  BY DEF Records, Offsets
<1>7. ASSUME NEW i \in DOMAIN b, NEW j \in DOMAIN b, b[i] = b[j] PROVE i = j
  <2>1. ~(i < j) /\ ~(j < i)
    BY <1>2, <1>3, <1>6, <1>7
  <2>2. QED
    BY <1>1, <1>3, <2>1
<1>8. QED
  BY <1>3, <1>4, <1>5, <1>7 DEF Injects

LEMMA SizesType ==
  ASSUME ConsumerTypeOK, NEW n \in Sizes
  PROVE  /\ \A p \in subscribed : n[p] \in Nat /\ position[p] + n[p] <= Len(log[p])
         /\ subscribed \subseteq Partitions
         /\ \A p \in Partitions : /\ position[p] \in Nat /\ base[p] \in Nat
                                  /\ Len(log[p]) \in Nat /\ Len(log[p]) <= MaxOffset
<1>1. /\ n \in [subscribed -> 0..MaxBatch]
      /\ \A p \in subscribed : position[p] + n[p] <= Len(log[p])
  BY DEF Sizes
<1>2. subscribed \subseteq Partitions /\ position \in [Partitions -> 0..MaxOffset]
      /\ base \in [Partitions -> 0..MaxOffset]
  BY DEF ConsumerTypeOK
<1>3. \A p \in Partitions : Len(log[p]) \in Nat /\ Len(log[p]) <= MaxOffset
  BY DEF ConsumerTypeOK
<1>4. QED
  BY <1>1, <1>2, <1>3, ConsumerBounds

\* A poll fetches what is next in the topics that are subscribed.
LEMMA FetchedAre ==
  ASSUME ConsumerTypeOK, NEW n \in Sizes
  PROVE  /\ Fetched(n) =
              {r \in Records : r[1] \in subscribed
                 /\ r[2] > position[r[1]] /\ r[2] <= position[r[1]] + n[r[1]]}
         /\ IsFiniteSet(Fetched(n))
<1>1. ASSUME NEW r \in Fetched(n)
      PROVE  r \in Records /\ r[1] \in subscribed
             /\ r[2] > position[r[1]] /\ r[2] <= position[r[1]] + n[r[1]]
  <2>1. PICK p \in subscribed : r \in {p} \X (position[p] + 1 .. position[p] + n[p])
    BY DEF Fetched
  <2>2. r = <<p, r[2]>> /\ r[1] = p /\ r[2] \in position[p] + 1 .. position[p] + n[p]
    BY <2>1
  <2>3. r[2] \in 1..MaxOffset
    BY <2>2, SizesType, ConsumerBounds
  <2>4. QED
    BY <2>2, <2>3, SizesType DEF Records, Offsets
<1>2. ASSUME NEW r \in Records, r[1] \in subscribed,
             r[2] > position[r[1]], r[2] <= position[r[1]] + n[r[1]]
      PROVE  r \in Fetched(n)
  <2> DEFINE p == r[1]
  <2>1. r = <<p, r[2]>> /\ r[2] \in Int
    BY DEF Records, Offsets
  <2>2. r[2] \in position[p] + 1 .. position[p] + n[p]
    BY <1>2, <2>1, SizesType
  <2>3. r \in {p} \X (position[p] + 1 .. position[p] + n[p])
    BY <2>1, <2>2
  <2>4. QED
    BY <1>2, <2>3 DEF Fetched
<1>3. IsFiniteSet(Records)
  <2>1. IsFiniteSet(Offsets)
    BY FS_Interval, ConsumerBounds DEF Offsets
  <2>2. QED
    BY <2>1, FS_Product, ConsumerBounds DEF Records
<1>4. Fetched(n) \subseteq Records
  BY <1>1
<1>5. IsFiniteSet(Fetched(n))
  BY <1>3, <1>4, FS_Subset
<1>6. QED
  BY <1>1, <1>2, <1>5

\* What a poll does to the consumer's side of the invariant.
LEMMA PollFetches ==
  ASSUME ConsumerTypeOK, \A p \in Partitions : base[p] <= position[p],
         NEW n \in Sizes, NEW batch \in Orderings(Fetched(n)), Poll(n)
  PROVE  /\ position' \in [Partitions -> 0..MaxOffset]
         /\ \A p \in Partitions : position[p] <= position'[p] /\ position'[p] <= Len(log[p])
         /\ \A r \in Records : r[2] <= position'[r[1]] /\ ~(r[2] <= position[r[1]]) =>
              r \in Fetched(n)
         /\ FetchedNow' = FetchedNow \cup Fetched(n)
         /\ \A r \in Fetched(n) : r[2] > position[r[1]] /\ r[2] <= Len(log[r[1]])
         /\ batch \in Seq(Records) /\ Elements(batch) = Fetched(n)
         /\ Injects(batch) /\ Ascends(batch)
<1>1. /\ position' = [p \in Partitions |->
                       IF p \in subscribed THEN position[p] + n[p] ELSE position[p]]
      /\ log' = log /\ base' = base
  BY DEF Poll
<1>2. \A p \in Partitions : position[p] \in 0..MaxOffset /\ position[p] <= Len(log[p])
  BY DEF ConsumerTypeOK
<1>3. \A p \in Partitions : /\ position'[p] \in 0..MaxOffset
                            /\ position[p] <= position'[p] /\ position'[p] <= Len(log[p])
  BY <1>1, <1>2, SizesType, ConsumerBounds
<1>4. position' \in [Partitions -> 0..MaxOffset]
  BY <1>1, <1>3
<1>5. \A r \in Records : r[1] \in Partitions /\ r[2] \in Nat /\ r[2] > 0
  BY ConsumerBounds DEF Records, Offsets
<1>6. ASSUME NEW r \in Records
      PROVE  r \in Fetched(n) <=> r[2] <= position'[r[1]] /\ ~(r[2] <= position[r[1]])
  BY <1>1, <1>5, SizesType, FetchedAre
<1>7. ASSUME NEW r \in Records
      PROVE  r \in FetchedNow' <=> r \in FetchedNow \/ r \in Fetched(n)
  <2> DEFINE p == r[1]
  <2>1. base[p] \in Nat /\ position[p] \in Nat /\ position'[p] \in Nat /\ r[2] \in Nat
        /\ base[p] <= position[p] /\ position[p] <= position'[p]
    BY <1>3, <1>5, SizesType
  <2>2. r \in FetchedNow' <=> r[2] \in base[p] + 1 .. position'[p]
    BY <1>1 DEF FetchedNow
  <2>3. r \in FetchedNow <=> r[2] \in base[p] + 1 .. position[p]
    BY DEF FetchedNow
  <2>4. QED
    BY <1>6, <2>1, <2>2, <2>3
<1>8. FetchedNow' \subseteq Records /\ FetchedNow \subseteq Records /\ Fetched(n) \subseteq Records
  BY FetchedAre DEF FetchedNow
<1>9. FetchedNow' = FetchedNow \cup Fetched(n)
  BY <1>7, <1>8
<1>10. \A r \in Fetched(n) : r[2] > position[r[1]] /\ r[2] <= Len(log[r[1]])
  BY <1>3, <1>5, <1>6, <1>8, SizesType, FetchedAre
<1>11. batch \in Seq(Records) /\ Elements(batch) = Fetched(n) /\ Injects(batch) /\ Ascends(batch)
  BY <1>8, FetchedAre, OrderingHolds
<1>12. QED
  BY <1>3, <1>4, <1>6, <1>9, <1>10, <1>11

-----------------------------------------------------------------------------
(* The invariant holds at the start.                                        *)

LEMMA WaitingType ==
  ASSUME ConsumerTypeOK
  PROVE  Waiting \subseteq Records /\ handled \subseteq Records /\ excused \subseteq Records
  BY ElementsOf DEF ConsumerTypeOK, Waiting

\* While nothing was fetched, nothing can be lost.
Fresh ==
  ConsumerTypeOK /\ base = position /\ given = <<>> /\ pending = <<>> /\ logged = NeverLogged
LEMMA NothingFetched == Fresh => NothingDropped
<1> SUFFICES ASSUME Fresh PROVE NothingDropped
  OBVIOUS
<1> USE DEF Fresh
<1>1. FetchedNow = {}
  <2>1. ASSUME NEW r \in FetchedNow PROVE FALSE
    <3>1. r[1] \in Partitions /\ r[2] \in base[r[1]] + 1 .. position[r[1]]
      BY DEF FetchedNow, Records
    <3>2. base[r[1]] \in Nat /\ position[r[1]] = base[r[1]]
      BY <3>1, ConsumerBounds DEF ConsumerTypeOK
    <3>3. QED
      BY <3>1, <3>2
  <2>2. QED
    BY <2>1
<1>2. given \o pending = <<>>
  OBVIOUS
<1>3. Injects(<<>>) /\ Ascends(<<>>)
  BY DEF Injects, Ascends
<1>4. QED
  BY <1>1, <1>2, <1>3, ElementsOfEmpty DEF NothingDropped, NeverLogged

LEMMA InitInv == ConsumerInit => ConsumerInv
<1> SUFFICES ASSUME ConsumerInit PROVE ConsumerInv
  OBVIOUS
<1>1. ConsumerTypeOK
  <2>1. log \in [Partitions -> Seq(Messages)] /\ \A p \in Partitions : log[p] = <<>>
    BY DEF ConsumerInit
  <2>2. logged \in [Records -> Nat]
    BY DEF ConsumerInit, NeverLogged
  <2>3. \A p \in Partitions : Len(log[p]) = 0 /\ position[p] = 0
    BY <2>1 DEF ConsumerInit, AtStart
  <2>4. /\ <<>> \in Seq(Records) /\ 0 \in 0..MaxOffset /\ 0 \in 0..MaxStarts
        /\ 0 <= MaxOffset /\ 0 <= 0 /\ NoOffset \in NoOffset..MaxOffset
    BY ConsumerBounds DEF NoOffset
  <2>5. /\ committed \in [Partitions -> NoOffset..MaxOffset]
        /\ position \in [Partitions -> 0..MaxOffset] /\ base \in [Partitions -> 0..MaxOffset]
    BY <2>4 DEF ConsumerInit, AtStart
  <2>6. /\ pending = <<>> /\ hand = <<>> /\ given = <<>> /\ handled = {} /\ excused = {}
        /\ open = FALSE /\ over = FALSE /\ mixed = FALSE /\ subscribed = {} /\ starts = 0
    BY DEF ConsumerInit
  <2>7. /\ open \in BOOLEAN /\ over \in BOOLEAN /\ mixed \in BOOLEAN
        /\ subscribed \subseteq Partitions /\ handled \subseteq Records /\ excused \subseteq Records
        /\ pending \in Seq(Records) /\ hand \in Seq(Records) /\ given \in Seq(Records)
        /\ starts \in 0..MaxStarts
    BY <2>4, <2>6
  <2>8. \A p \in Partitions : Len(log[p]) <= MaxOffset /\ position[p] <= Len(log[p])
    BY <2>3, <2>4
  <2>9. QED
    BY <2>1, <2>2, <2>5, <2>7, <2>8 DEF ConsumerTypeOK
<1>2. Waiting = {} /\ handled = {} /\ ~open
  BY ElementsOfEmpty DEF ConsumerInit, Waiting
<1>3. LogInv
  BY <1>2 DEF ConsumerInit, LogInv, AtStart, NoOffset
<1>4. AtLeastOnce
  BY ConsumerBounds DEF ConsumerInit, AtLeastOnce, Records, Offsets, NoOffset
<1>5. NothingDropped
  BY <1>1, NothingFetched DEF ConsumerInit, Fresh
<1>6. QED
  BY <1>1, <1>2, <1>3, <1>4, <1>5 DEF ConsumerInv, PositionInv

-----------------------------------------------------------------------------
(* Kafka, and the owner's own steps.                                        *)

\* A record that exists keeps its message when another one is published.
LEMMA PublishKeeps ==
  ASSUME ConsumerTypeOK, NEW p \in Partitions, NEW m \in Messages, Publish(p, m)
  PROVE  /\ log' \in [Partitions -> Seq(Messages)]
         /\ \A q \in Partitions : Len(log'[q]) <= MaxOffset /\ Len(log[q]) <= Len(log'[q])
         /\ \A r \in Records : r[2] <= Len(log[r[1]]) =>
              MessageOf(r)' = MessageOf(r) /\ HasError(r)' = HasError(r)
<1>1. log \in [Partitions -> Seq(Messages)] /\ \A q \in Partitions : Len(log[q]) <= MaxOffset
  BY DEF ConsumerTypeOK
<1>2. Len(log[p]) < MaxOffset /\ log' = [log EXCEPT ![p] = Append(@, m)]
  BY DEF Publish
<1>3. /\ Append(log[p], m) \in Seq(Messages) /\ Len(Append(log[p], m)) = Len(log[p]) + 1
      /\ \A i \in 1..Len(log[p]) : Append(log[p], m)[i] = log[p][i]
  BY <1>1, AppendProperties
<1>4. log'[p] = Append(log[p], m) /\ \A q \in Partitions \ {p} : log'[q] = log[q]
  BY <1>1, <1>2
<1>5. log' \in [Partitions -> Seq(Messages)]
  BY <1>1, <1>2, <1>3
<1>6. \A q \in Partitions : Len(log[q]) \in Nat
  BY <1>1
<1>7. \A q \in Partitions : Len(log'[q]) <= MaxOffset /\ Len(log[q]) <= Len(log'[q])
  BY <1>1, <1>2, <1>3, <1>4, <1>6, ConsumerBounds
<1>8. ASSUME NEW r \in Records, r[2] <= Len(log[r[1]]) PROVE log'[r[1]][r[2]] = log[r[1]][r[2]]
  <2>1. r[1] \in Partitions /\ r[2] \in 1..Len(log[r[1]])
    BY <1>6, <1>8, ConsumerBounds DEF Records, Offsets
  <2>2. QED
    BY <1>3, <1>4, <2>1
<1>9. QED
  BY <1>5, <1>7, <1>8 DEF HasError, MessageOf

LEMMA PublishInv ==
  ASSUME ConsumerInv, NEW p \in Partitions, NEW m \in Messages, Publish(p, m)
  PROVE  ConsumerInv'
<1>1. ConsumerTypeOK /\ LogInv /\ PositionInv /\ AtLeastOnce /\ NothingDropped
  BY DEF ConsumerInv
<1>2. /\ log' \in [Partitions -> Seq(Messages)]
      /\ \A q \in Partitions : Len(log'[q]) <= MaxOffset /\ Len(log[q]) <= Len(log'[q])
      /\ \A r \in Records : r[2] <= Len(log[r[1]]) => HasError(r)' = HasError(r)
  BY <1>1, PublishKeeps
<1>3. UNCHANGED <<committed, consumer, middleware, owner>>
  BY DEF Publish
<1> USE <1>3 DEF consumer, middleware, owner
<1>4. \A q \in Partitions : /\ Len(log[q]) \in Nat /\ Len(log'[q]) \in Nat
                            /\ committed[q] \in Int /\ position[q] \in Nat
                            /\ position[q] <= Len(log[q])
  BY <1>1, <1>2, ConsumerBounds DEF ConsumerTypeOK, NoOffset
<1>5. ConsumerTypeOK'
  <2>1. \A q \in Partitions : position[q] <= Len(log'[q])
    BY <1>2, <1>4
  <2>2. QED
    BY <1>1, <1>2, <2>1 DEF ConsumerTypeOK
<1>6. Waiting' = Waiting /\ FetchedNow' = FetchedNow
  BY DEF Waiting, FetchedNow
<1>7. \A r \in Records : r[1] \in Partitions /\ r[2] \in Nat
  BY ConsumerBounds DEF Records, Offsets
<1>8. LogInv'
  <2>1. \A q \in Partitions : committed[q] <= Len(log'[q]) /\ base[q] <= position[q]
    BY <1>1, <1>2, <1>4 DEF LogInv
  <2>2. ASSUME NEW r \in handled \cup Waiting PROVE r[2] <= Len(log'[r[1]])
    <3>1. r \in Records /\ r[2] <= Len(log[r[1]])
      BY <1>1, <2>2, WaitingType DEF LogInv
    <3>2. QED
      BY <1>2, <1>4, <1>7, <3>1
  <2>3. QED
    BY <1>6, <2>1, <2>2 DEF LogInv
<1>9. NothingDropped'
  <2>1. \A r \in FetchedNow : r \in Records /\ r[2] <= Len(log[r[1]])
    <3>1. ASSUME NEW r \in FetchedNow PROVE r \in Records /\ r[2] <= Len(log[r[1]])
      <4>1. r \in Records /\ r[1] \in Partitions /\ r[2] \in Nat
            /\ r[2] \in base[r[1]] + 1 .. position[r[1]]
        BY <1>7 DEF FetchedNow
      <4>2. base[r[1]] \in Nat
        BY <1>1, <4>1, ConsumerBounds DEF ConsumerTypeOK
      <4>3. QED
        BY <1>4, <4>1, <4>2
    <3>2. QED
      BY <3>1
  <2>2. \A r \in FetchedNow : HasError(r)' = HasError(r)
    BY <1>2, <2>1
  <2>3. QED
    BY <1>1, <1>6, <2>2 DEF NothingDropped
<1>10. PositionInv' /\ AtLeastOnce'
  BY <1>1, <1>6 DEF PositionInv, AtLeastOnce
<1>11. QED
  BY <1>5, <1>8, <1>9, <1>10 DEF ConsumerInv

\* Where a new consumer begins: no further than what was published, and all
\* that lies behind was handled, is excused, or is behind it by its setting.
LEMMA BeginsWithin ==
  ASSUME ConsumerTypeOK, LogInv, AtLeastOnce, NEW reset, NEW topics \in SUBSET Partitions
  PROVE  /\ BeginsAt(reset, topics) \in [Partitions -> 0..MaxOffset]
         /\ \A p \in Partitions : BeginsAt(reset, topics)[p] <= Len(log[p])
         /\ Behind(reset, topics) \subseteq Records
         /\ \A r \in Records : r[2] <= BeginsAt(reset, topics)[r[1]]
              => r \in handled \cup excused \cup Behind(reset, topics)
<1>1. \A p \in Partitions : /\ committed[p] \in NoOffset..MaxOffset
                             /\ Len(log[p]) \in Nat /\ Len(log[p]) <= MaxOffset
                             /\ committed[p] <= Len(log[p])
  BY DEF ConsumerTypeOK, LogInv
<1>2. ASSUME NEW p \in Partitions
      PROVE  BeginsAt(reset, topics)[p] \in 0..MaxOffset /\ BeginsAt(reset, topics)[p] <= Len(log[p])
  <2>1. /\ committed[p] \in NoOffset..MaxOffset /\ Len(log[p]) \in Nat /\ Len(log[p]) <= MaxOffset
        /\ committed[p] <= Len(log[p])
    BY <1>1
  <2>2. BeginsAt(reset, topics)[p] \in {0, Len(log[p])}
        \/ (committed[p] # NoOffset /\ BeginsAt(reset, topics)[p] = committed[p])
    BY DEF BeginsAt, Begin
  <2>3. QED
    BY <2>1, <2>2, ConsumerBounds DEF NoOffset
<1>3. ASSUME NEW r \in Records, r[2] <= BeginsAt(reset, topics)[r[1]]
      PROVE  r \in handled \cup excused \cup Behind(reset, topics)
  <2>1. r[1] \in Partitions /\ r[2] \in Nat /\ r[2] # 0
    BY ConsumerBounds DEF Records, Offsets
  <2>2. CASE committed[r[1]] # NoOffset
    BY <1>3, <2>1, <2>2 DEF BeginsAt, AtLeastOnce
  <2>3. CASE committed[r[1]] = NoOffset
    <3>1. BeginsAt(reset, topics)[r[1]] = IF r[1] \in topics THEN Begin(reset, r[1]) ELSE 0
      BY <2>1, <2>3 DEF BeginsAt
    <3>2. reset = "latest" /\ r[1] \in topics /\ r[2] <= Len(log[r[1]])
      BY <1>3, <2>1, <3>1 DEF Begin
    <3>3. QED
      BY <2>3, <3>2 DEF Behind
  <2>4. QED
    BY <2>2, <2>3
<1>4. BeginsAt(reset, topics) \in [Partitions -> 0..MaxOffset]
  <2> DEFINE f == BeginsAt(reset, topics)
  <2>1. f = [p \in Partitions |-> f[p]]
    BY DEF BeginsAt
  <2>2. \A p \in Partitions : f[p] \in 0..MaxOffset
    BY <1>2
  <2> HIDE DEF f
  <2>3. f \in [Partitions -> 0..MaxOffset]
    BY <2>1, <2>2
  <2>4. QED
    BY <2>3 DEF f
<1>5. QED
  BY <1>2, <1>3, <1>4 DEF Behind

LEMMA StartInv ==
  ASSUME ConsumerInv, NEW reset \in Resets, NEW topics \in SUBSET Partitions, Start(reset, topics)
  PROVE  ConsumerInv'
<1>1. ConsumerTypeOK /\ LogInv /\ AtLeastOnce
  BY DEF ConsumerInv
<1>2. PICK at : /\ at = BeginsAt(reset, topics)
                /\ starts < MaxStarts /\ starts' = starts + 1 /\ open' = TRUE /\ subscribed' = topics
                /\ position' = at /\ base' = at
                /\ pending' = <<>> /\ given' = <<>> /\ logged' = NeverLogged /\ mixed' = FALSE
                /\ hand' = <<>> /\ over' = FALSE
                /\ log' = log /\ committed' = committed /\ handled' = handled
                /\ excused' = excused \cup Behind(reset, topics)
  BY DEF Start, broker
<1>2a. /\ at \in [Partitions -> 0..MaxOffset] /\ \A p \in Partitions : at[p] <= Len(log[p])
       /\ Behind(reset, topics) \subseteq Records
       /\ \A r \in Records : r[2] <= at[r[1]] => r \in handled \cup excused'
  BY <1>1, <1>2, BeginsWithin
<1>3. ConsumerTypeOK'
  <2>1. /\ log \in [Partitions -> Seq(Messages)]
        /\ \A p \in Partitions : Len(log[p]) <= MaxOffset
        /\ committed \in [Partitions -> NoOffset..MaxOffset]
        /\ handled \subseteq Records /\ excused \subseteq Records
    BY <1>1 DEF ConsumerTypeOK
  <2>3. starts' \in 0..MaxStarts
    BY <1>1, <1>2, ConsumerBounds DEF ConsumerTypeOK
  <2>4. NeverLogged \in [Records -> Nat]
    BY DEF NeverLogged
  <2>5. <<>> \in Seq(Records)
    OBVIOUS
  <2>6. subscribed' \subseteq Partitions
    BY <1>2
  <2>7. /\ open' \in BOOLEAN /\ over' \in BOOLEAN /\ mixed' \in BOOLEAN
        /\ pending' \in Seq(Records) /\ hand' \in Seq(Records) /\ given' \in Seq(Records)
    BY <1>2, <2>5
  <2>8. \A p \in Partitions : Len(log'[p]) <= MaxOffset /\ position'[p] <= Len(log'[p])
    BY <1>2, <1>2a, <2>1
  <2>9. logged' \in [Records -> Nat] /\ position' \in [Partitions -> 0..MaxOffset]
        /\ committed' \in [Partitions -> NoOffset..MaxOffset] /\ base' \in [Partitions -> 0..MaxOffset]
    BY <1>2, <1>2a, <2>1, <2>4
  <2>10. log' \in [Partitions -> Seq(Messages)] /\ handled' \subseteq Records
         /\ excused' \subseteq Records
    BY <1>2, <1>2a, <2>1
  <2>11. QED
    BY <2>3, <2>6, <2>7, <2>8, <2>9, <2>10 DEF ConsumerTypeOK
<1>4. Waiting' = {}
  BY <1>2, ElementsOfEmpty DEF Waiting
<1>5. LogInv'
  <2>1. \A p \in Partitions : at[p] <= at[p]
    BY <1>2a, ConsumerBounds
  <2>2. QED
    BY <1>1, <1>2, <1>4, <2>1 DEF LogInv
<1>6. PositionInv' /\ AtLeastOnce'
  BY <1>1, <1>2, <1>2a DEF PositionInv, AtLeastOnce
<1>7. NothingDropped'
  <2>1. Fresh'
    BY <1>2, <1>3 DEF Fresh, NeverLogged
  <2>2. QED
    BY <2>1, NothingFetched, PTL
<1>8. QED
  BY <1>3, <1>5, <1>6, <1>7 DEF ConsumerInv

LEMMA HandleInv ==
  ASSUME ConsumerInv, Handle
  PROVE  ConsumerInv'
<1>1. ConsumerTypeOK /\ LogInv /\ PositionInv /\ AtLeastOnce /\ NothingDropped
  BY DEF ConsumerInv
<1>2. /\ hand # <<>> /\ handled' = handled \cup {Head(hand)} /\ hand' = Tail(hand)
      /\ UNCHANGED <<broker, consumer, middleware, over, excused>>
  BY DEF Handle
<1> USE DEF broker, consumer, middleware
<1>3. Head(hand) \in Records /\ Tail(hand) \in Seq(Records)
      /\ Elements(hand) = {Head(hand)} \cup Elements(Tail(hand))
  BY <1>1, <1>2, HeadAndTail DEF ConsumerTypeOK
<1>4. ConsumerTypeOK'
  BY <1>1, <1>2, <1>3 DEF ConsumerTypeOK
<1>5. /\ Waiting' \subseteq Waiting /\ Head(hand) \in Waiting
      /\ handled' \cup Waiting' = handled \cup Waiting
  BY <1>2, <1>3 DEF Waiting
<1>6. LogInv' /\ PositionInv' /\ AtLeastOnce'
  BY <1>1, <1>2, <1>5 DEF LogInv, PositionInv, AtLeastOnce
<1>7. NothingDropped'
  BY <1>1, <1>2 DEF NothingDropped, FetchedNow, HasError, MessageOf
<1>8. QED
  BY <1>4, <1>6, <1>7 DEF ConsumerInv

-----------------------------------------------------------------------------
(* Commits and polls.                                                       *)

\* What lies below a committed offset was handled or is excused.
LEMMA CommitKeeps ==
  ASSUME ConsumerTypeOK, LogInv, PositionInv, AtLeastOnce, open, AutoCommit
  PROVE  /\ committed' \in [Partitions -> NoOffset..MaxOffset]
         /\ \A p \in Partitions : committed'[p] <= Len(log[p])
         /\ excused \subseteq excused' /\ excused' \subseteq Records
         /\ \A r \in Records : r[2] <= committed'[r[1]] => r \in handled \cup excused'
<1>1. /\ committed \in [Partitions -> NoOffset..MaxOffset]
      /\ position \in [Partitions -> 0..MaxOffset]
      /\ \A p \in Partitions : position[p] <= Len(log[p])
      /\ excused \subseteq Records
  BY DEF ConsumerTypeOK
<1>2. \A p \in Partitions : committed[p] <= Len(log[p])
  BY DEF LogInv
<1>3. CASE UNCHANGED <<committed, excused>>
  BY <1>1, <1>2, <1>3 DEF AtLeastOnce
<1>4. CASE CommitPosition
  <2>1. /\ committed' = [p \in Partitions |-> IF p \in subscribed THEN position[p] ELSE committed[p]]
        /\ excused' = excused \cup Waiting
    BY <1>4 DEF CommitPosition
  <2>2. \A p \in Partitions : committed'[p] \in {position[p], committed[p]}
    BY <2>1
  <2>3. \A r \in Records : r[2] <= position[r[1]] \/ r[2] <= committed[r[1]]
          => r \in handled \cup excused \cup Waiting
    BY DEF PositionInv, AtLeastOnce
  <2>4. \A p \in Partitions : committed'[p] \in NoOffset..MaxOffset /\ committed'[p] <= Len(log[p])
    BY <1>1, <1>2, <2>2, ConsumerBounds DEF NoOffset
  <2>5. committed' \in [Partitions -> NoOffset..MaxOffset]
    BY <2>1, <2>4
  <2>6. \A r \in Records : r[1] \in Partitions
    BY DEF Records
  <2>7. \A r \in Records : r[2] <= committed'[r[1]] => r \in handled \cup excused'
    BY <2>1, <2>2, <2>3, <2>6
  <2>8. QED
    BY <1>1, <2>1, <2>4, <2>5, <2>7, WaitingType
<1>5. QED
  BY <1>3, <1>4 DEF AutoCommit

\* Every new record that is no error was logged for the first time.
LEMMA LogsNew ==
  ASSUME ConsumerTypeOK, NothingDropped, NEW batch, LogEach(batch), log' = log,
         FetchedNow' = FetchedNow \cup Elements(batch),
         Elements(batch) \cap FetchedNow = {}
  PROVE  /\ logged' \in [Records -> Nat]
         /\ \A r \in Records : logged'[r] = IF r \in FetchedNow' /\ ~HasError(r)' THEN 1 ELSE 0
<1> DEFINE new == {r \in Elements(batch) : ~HasError(r)}
<1>1. logged' = [r \in Records |-> IF r \in new THEN logged[r] + 1 ELSE logged[r]]
  BY DEF LogEach, Logged
<1>2. \A r \in Records : logged[r] = IF r \in FetchedNow /\ ~HasError(r) THEN 1 ELSE 0
  BY DEF NothingDropped
<1>3. \A r \in Records : HasError(r)' = HasError(r)
  BY DEF HasError, MessageOf
<1>4. logged \in [Records -> Nat]
  BY DEF ConsumerTypeOK
<1>5. ASSUME NEW r \in Records
      PROVE  logged'[r] = IF r \in FetchedNow' /\ ~HasError(r) THEN 1 ELSE 0
  <2>1. CASE r \in new
    <3>1. r \notin FetchedNow /\ r \in FetchedNow' /\ ~HasError(r)
      BY <2>1
    <3>2. logged'[r] = 0 + 1
      BY <1>1, <1>2, <2>1, <3>1
    <3>3. QED
      BY <3>1, <3>2
  <2>2. CASE r \notin new
    <3>1. logged'[r] = logged[r]
      BY <1>1, <2>2
    <3>2. r \in FetchedNow' /\ ~HasError(r) <=> r \in FetchedNow /\ ~HasError(r)
      BY <2>2
    <3>3. QED
      BY <1>2, <3>1, <3>2
  <2>3. QED
    BY <2>1, <2>2
<1>6. logged' \in [Records -> Nat]
  BY <1>1, <1>4
<1>7. QED
  BY <1>3, <1>5, <1>6

\* Whoever polls: the records fetched are new, they are logged, and none is
\* committed past before it is handled.
LEMMA PollKeeps ==
  ASSUME ConsumerInv, NEW n \in Sizes, NEW batch \in Orderings(Fetched(n)),
         Poll(n), LogEach(batch), handled' = handled
  PROVE  /\ batch \in Seq(Records) /\ Elements(batch) = Fetched(n)
         /\ Injects(batch) /\ Ascends(batch)
         /\ FetchedNow' = FetchedNow \cup Elements(batch)
         /\ \A x \in FetchedNow, y \in Elements(batch) : x[1] = y[1] => x[2] < y[2]
         /\ Elements(batch) \cap FetchedNow = {}
         /\ \A r \in Records : logged'[r] = IF r \in FetchedNow' /\ ~HasError(r)' THEN 1 ELSE 0
         /\ AtLeastOnce'
         /\ Waiting' = Waiting \cup Elements(batch) => LogInv' /\ PositionInv'
         /\ (/\ pending' \in Seq(Records) /\ hand' \in Seq(Records) /\ given' \in Seq(Records)
             /\ over' \in BOOLEAN /\ mixed' \in BOOLEAN) => ConsumerTypeOK'
<1>1. ConsumerTypeOK /\ LogInv /\ PositionInv /\ AtLeastOnce /\ NothingDropped
  BY DEF ConsumerInv
<1>2. open /\ AutoCommit /\ UNCHANGED <<log, open, subscribed, starts, base>>
  BY DEF Poll
<1>3. \A p \in Partitions : base[p] <= position[p]
  BY <1>1 DEF LogInv
<1>4. /\ position' \in [Partitions -> 0..MaxOffset]
      /\ \A p \in Partitions : position[p] <= position'[p] /\ position'[p] <= Len(log[p])
      /\ \A r \in Records : r[2] <= position'[r[1]] /\ ~(r[2] <= position[r[1]]) =>
           r \in Fetched(n)
      /\ FetchedNow' = FetchedNow \cup Fetched(n)
      /\ \A r \in Fetched(n) : r[2] > position[r[1]] /\ r[2] <= Len(log[r[1]])
      /\ batch \in Seq(Records) /\ Elements(batch) = Fetched(n)
      /\ Injects(batch) /\ Ascends(batch)
  BY <1>1, <1>3, PollFetches
<1>5. /\ committed' \in [Partitions -> NoOffset..MaxOffset]
      /\ \A p \in Partitions : committed'[p] <= Len(log[p])
      /\ excused \subseteq excused' /\ excused' \subseteq Records
      /\ \A r \in Records : r[2] <= committed'[r[1]] => r \in handled \cup excused'
  BY <1>1, <1>2, CommitKeeps
<1>6. \A r \in Records : r[1] \in Partitions /\ r[2] \in Nat
  BY ConsumerBounds DEF Records, Offsets
<1>7. \A p \in Partitions : position[p] \in Nat /\ base[p] \in Nat /\ position'[p] \in Nat
  BY <1>1, <1>4, ConsumerBounds DEF ConsumerTypeOK
<1>8. Fetched(n) \subseteq Records
  BY <1>1, FetchedAre
<1>9. ASSUME NEW x \in FetchedNow, NEW y \in Elements(batch), x[1] = y[1] PROVE x[2] < y[2]
  <2>1. x \in Records /\ x[2] \in base[x[1]] + 1 .. position[x[1]]
    BY DEF FetchedNow
  <2>2. y \in Records /\ y[2] > position[y[1]]
    BY <1>4, <1>8
  <2>3. QED
    BY <1>6, <1>7, <1>9, <2>1, <2>2
<1>10. Elements(batch) \cap FetchedNow = {}
  <2>1. ASSUME NEW x \in Elements(batch), x \in FetchedNow PROVE FALSE
    <3>1. x[2] < x[2] /\ x[2] \in Nat
      BY <1>4, <1>6, <1>8, <1>9, <2>1
    <3>2. QED
      BY <3>1
  <2>2. QED
    BY <2>1
<1>11. /\ logged' \in [Records -> Nat]
       /\ \A r \in Records : logged'[r] = IF r \in FetchedNow' /\ ~HasError(r)' THEN 1 ELSE 0
  BY <1>1, <1>2, <1>4, <1>10, LogsNew
<1>12. AtLeastOnce'
  BY <1>5 DEF AtLeastOnce
<1>13. ASSUME Waiting' = Waiting \cup Elements(batch) PROVE LogInv' /\ PositionInv'
  <2>1. \A p \in Partitions : base'[p] <= position'[p]
    BY <1>2, <1>3, <1>4, <1>7
  <2>2. \A r \in handled' \cup Waiting' : r[2] <= Len(log'[r[1]])
    BY <1>1, <1>2, <1>4, <1>13 DEF LogInv
  <2>3. LogInv'
    BY <1>2, <1>5, <2>1, <2>2 DEF LogInv
  <2>4. ASSUME NEW r \in Records, r[2] <= position'[r[1]]
        PROVE  r \in handled' \cup excused' \cup Waiting'
    <3>1. CASE r[2] <= position[r[1]]
      BY <1>1, <1>2, <1>5, <1>13, <3>1 DEF PositionInv
    <3>2. CASE ~(r[2] <= position[r[1]])
      BY <1>4, <1>13, <2>4, <3>2
    <3>3. QED
      BY <3>1, <3>2
  <2>5. QED
    BY <2>3, <2>4 DEF PositionInv
<1>14. ASSUME /\ pending' \in Seq(Records) /\ hand' \in Seq(Records) /\ given' \in Seq(Records)
              /\ over' \in BOOLEAN /\ mixed' \in BOOLEAN
       PROVE  ConsumerTypeOK'
  <2>1. /\ log' \in [Partitions -> Seq(Messages)]
        /\ \A p \in Partitions : Len(log'[p]) <= MaxOffset
        /\ open' \in BOOLEAN /\ subscribed' \subseteq Partitions
        /\ starts' \in 0..MaxStarts /\ base' \in [Partitions -> 0..MaxOffset]
        /\ handled' \subseteq Records
    BY <1>1, <1>2 DEF ConsumerTypeOK
  <2>2. \A p \in Partitions : position'[p] <= Len(log'[p])
    BY <1>2, <1>4
  <2>3. QED
    BY <1>4, <1>5, <1>11, <1>14, <2>1, <2>2 DEF ConsumerTypeOK
<1>15. QED
  BY <1>4, <1>9, <1>10, <1>11, <1>12, <1>13, <1>14

-----------------------------------------------------------------------------
(* The steps of the middleware.                                             *)

\* poll(): the batch comes between what was given and what is pending.
LEMMA OwnerPollsInv ==
  ASSUME ConsumerInv, OwnerPolls
  PROVE  ConsumerInv'
<1>1. ConsumerTypeOK /\ NothingDropped
  BY DEF ConsumerInv
<1>0. PICK n \in Sizes : \E batch \in Orderings(Fetched(n)) :
        Poll(n) /\ LogEach(batch) /\ given' = given \o batch /\ hand' = batch
  BY DEF OwnerPolls, Gives
<1>2. PICK batch \in Orderings(Fetched(n)) :
        Poll(n) /\ LogEach(batch) /\ given' = given \o batch /\ hand' = batch
  BY <1>0
<1>3. hand = <<>> /\ mixed' = (mixed \/ pending # <<>>) /\ pending' = pending
      /\ over' = over /\ handled' = handled
  BY DEF OwnerPolls
<1>4. /\ batch \in Seq(Records) /\ Elements(batch) = Fetched(n)
      /\ Injects(batch) /\ Ascends(batch)
      /\ FetchedNow' = FetchedNow \cup Elements(batch)
      /\ \A x \in FetchedNow, y \in Elements(batch) : x[1] = y[1] => x[2] < y[2]
      /\ Elements(batch) \cap FetchedNow = {}
      /\ \A r \in Records : logged'[r] = IF r \in FetchedNow' /\ ~HasError(r)' THEN 1 ELSE 0
      /\ AtLeastOnce'
      /\ Waiting' = Waiting \cup Elements(batch) => LogInv' /\ PositionInv'
      /\ (/\ pending' \in Seq(Records) /\ hand' \in Seq(Records) /\ given' \in Seq(Records)
          /\ over' \in BOOLEAN /\ mixed' \in BOOLEAN) => ConsumerTypeOK'
  BY <1>2, <1>3, PollKeeps
<1>5. given \in Seq(Records) /\ pending \in Seq(Records)
  BY <1>1 DEF ConsumerTypeOK
<1>6. /\ Elements(given \o pending) = FetchedNow /\ Injects(given \o pending)
      /\ mixed \/ Ascends(given \o pending)
  BY <1>1 DEF NothingDropped
<1>7. given \o batch \in Seq(Records)
      /\ Elements(given \o batch) = Elements(given) \cup Elements(batch)
  BY <1>4, <1>5, ElementsConcat
<1>8. ConsumerTypeOK'
  <2>1. over' \in BOOLEAN
    BY <1>1, <1>3 DEF ConsumerTypeOK
  <2>2. QED
    BY <1>2, <1>3, <1>4, <1>5, <1>7, <2>1
<1>9. Waiting' = Waiting \cup Elements(batch)
  BY <1>2, <1>3, ElementsOfEmpty DEF Waiting
<1>10. /\ Elements(given \o pending) = Elements(given) \cup Elements(pending)
       /\ Elements((given \o batch) \o pending) = Elements(given \o batch) \cup Elements(pending)
  <2>1. Elements(given \o pending) = Elements(given) \cup Elements(pending)
    BY <1>5, ElementsConcat
  <2> DEFINE given2 == given \o batch
  <2>2. given2 \in Seq(Records) /\ pending \in Seq(Records)
    BY <1>5, <1>7
  <2> HIDE DEF given2
  <2>3. Elements(given2 \o pending) = Elements(given2) \cup Elements(pending)
    BY <2>2, ElementsConcat
  <2>4. QED
    BY <2>1, <2>3 DEF given2
<1>11. Elements(given' \o pending') = FetchedNow'
  BY <1>2, <1>3, <1>4, <1>6, <1>7, <1>10
<1>12. Injects(given' \o pending')
  <2>1. Injects(given) /\ Injects(pending) /\ Elements(given) \cap Elements(pending) = {}
    BY <1>5, <1>6, InjectsConcat
  <2>2. Injects(given \o batch)
    BY <1>4, <1>5, <1>6, <1>10, <2>1, InjectsConcat
  <2>3. Elements(given \o batch) \cap Elements(pending) = {}
    BY <1>4, <1>6, <1>7, <1>10, <2>1
  <2>4. Injects((given \o batch) \o pending)
    BY <1>5, <1>7, <2>1, <2>2, <2>3, InjectsConcat
  <2>5. QED
    BY <1>2, <1>3, <2>4
<1>13. mixed' \/ Ascends(given' \o pending')
  <2> SUFFICES ASSUME ~mixed' PROVE Ascends(given' \o pending')
    OBVIOUS
  <2>1. ~mixed /\ pending = <<>>
    BY <1>3
  <2>2. given \o pending = given /\ (given \o batch) \o pending = given \o batch
    BY <1>5, <1>7, <2>1, ConcatEmptySeq
  <2>3. Ascends(given) /\ Elements(given) = FetchedNow
    BY <1>6, <2>1, <2>2
  <2>4. Ascends(given \o batch)
    BY <1>4, <1>5, <2>3, AscendsConcat
  <2>5. QED
    BY <1>2, <1>3, <2>2, <2>4
<1>14. NothingDropped'
  BY <1>4, <1>11, <1>12, <1>13 DEF NothingDropped
<1>15. QED
  BY <1>4, <1>8, <1>9, <1>14 DEF ConsumerInv

\* next_message() with something pending: one goes from here to there.
LEMMA NextServesInv ==
  ASSUME ConsumerInv, NextServes
  PROVE  ConsumerInv'
<1>1. ConsumerTypeOK /\ LogInv /\ PositionInv /\ AtLeastOnce /\ NothingDropped
  BY DEF ConsumerInv
<1>2. /\ hand = <<>> /\ pending # <<>> /\ pending' = Tail(pending)
      /\ given' = given \o <<Head(pending)>> /\ hand' = <<Head(pending)>>
      /\ UNCHANGED <<broker, consumer, logged, mixed, over, handled, excused>>
  BY DEF NextServes, InLoop, Gives
<1>3. given \in Seq(Records) /\ pending \in Seq(Records)
  BY <1>1 DEF ConsumerTypeOK
<1>4. /\ Tail(pending) \in Seq(Records) /\ <<Head(pending)>> \in Seq(Records)
      /\ <<Head(pending)>> \o Tail(pending) = pending
      /\ Elements(pending) = {Head(pending)} \cup Elements(Tail(pending))
      /\ Elements(<<Head(pending)>>) = {Head(pending)}
  BY <1>2, <1>3, HeadAndTail, ElementsOfOne
<1>5. given' \o pending' = given \o pending
  BY <1>2, <1>3, <1>4, ConcatAssociative
<1>6. given' \in Seq(Records)
  BY <1>2, <1>3, <1>4, ElementsConcat
<1>7. UNCHANGED <<log, committed, open, subscribed, position, starts, base, logged, mixed, over,
                  handled, excused>>
  BY <1>2 DEF broker, consumer
<1>8. Waiting' = Waiting /\ FetchedNow' = FetchedNow
  BY <1>2, <1>4, <1>7, ElementsOfEmpty DEF Waiting, FetchedNow
<1>9. ConsumerTypeOK'
  <2>1. pending' \in Seq(Records) /\ hand' \in Seq(Records)
    BY <1>2, <1>4
  <2>2. QED
    BY <1>1, <1>6, <1>7, <2>1 DEF ConsumerTypeOK
<1>10. NothingDropped'
  BY <1>1, <1>5, <1>7, <1>8 DEF NothingDropped, HasError, MessageOf
<1>11. LogInv' /\ PositionInv' /\ AtLeastOnce'
  BY <1>1, <1>7, <1>8 DEF LogInv, PositionInv, AtLeastOnce
<1>12. QED
  BY <1>9, <1>10, <1>11 DEF ConsumerInv

\* next_message() that polls: the first is given, the others are pending.
LEMMA NextPollsInv ==
  ASSUME ConsumerInv, NextPolls
  PROVE  ConsumerInv'
<1>1. ConsumerTypeOK /\ NothingDropped
  BY DEF ConsumerInv
<1>0. PICK n \in Sizes : \E batch \in Orderings(Fetched(n)) :
        /\ batch # <<>> /\ Poll(n) /\ LogEach(batch) /\ pending' = Tail(batch)
        /\ given' = given \o <<Head(batch)>> /\ hand' = <<Head(batch)>>
  BY DEF NextPolls, Gives, Kept
<1>2. PICK batch \in Orderings(Fetched(n)) :
        /\ batch # <<>> /\ Poll(n) /\ LogEach(batch) /\ pending' = Tail(batch)
        /\ given' = given \o <<Head(batch)>> /\ hand' = <<Head(batch)>>
  BY <1>0
<1>3. hand = <<>> /\ pending = <<>> /\ mixed' = mixed /\ over' = over /\ handled' = handled
  BY DEF NextPolls, InLoop
<1>4. /\ batch \in Seq(Records) /\ Elements(batch) = Fetched(n)
      /\ Injects(batch) /\ Ascends(batch)
      /\ FetchedNow' = FetchedNow \cup Elements(batch)
      /\ \A x \in FetchedNow, y \in Elements(batch) : x[1] = y[1] => x[2] < y[2]
      /\ Elements(batch) \cap FetchedNow = {}
      /\ \A r \in Records : logged'[r] = IF r \in FetchedNow' /\ ~HasError(r)' THEN 1 ELSE 0
      /\ AtLeastOnce'
      /\ Waiting' = Waiting \cup Elements(batch) => LogInv' /\ PositionInv'
      /\ (/\ pending' \in Seq(Records) /\ hand' \in Seq(Records) /\ given' \in Seq(Records)
          /\ over' \in BOOLEAN /\ mixed' \in BOOLEAN) => ConsumerTypeOK'
  BY <1>2, <1>3, PollKeeps
<1>5. given \in Seq(Records) /\ mixed \in BOOLEAN /\ over \in BOOLEAN
  BY <1>1 DEF ConsumerTypeOK
<1>6. Elements(given) = FetchedNow /\ Injects(given) /\ (mixed \/ Ascends(given))
  <2>1. given \o pending = given
    BY <1>3, <1>5, ConcatEmptySeq
  <2>2. QED
    BY <1>1, <2>1 DEF NothingDropped
<1>7. /\ Tail(batch) \in Seq(Records) /\ <<Head(batch)>> \in Seq(Records)
      /\ <<Head(batch)>> \o Tail(batch) = batch
      /\ Elements(batch) = {Head(batch)} \cup Elements(Tail(batch))
      /\ Elements(<<Head(batch)>>) = {Head(batch)}
  BY <1>2, <1>4, HeadAndTail, ElementsOfOne
<1>8. given' \o pending' = given \o batch /\ given' \in Seq(Records)
  BY <1>2, <1>5, <1>7, ConcatAssociative, ElementsConcat
<1>9. ConsumerTypeOK'
  BY <1>2, <1>3, <1>4, <1>5, <1>7, <1>8
<1>10. Waiting' = Waiting \cup Elements(batch)
  BY <1>2, <1>3, <1>7, ElementsOfEmpty DEF Waiting
<1>11. Elements(given \o batch) = FetchedNow'
  BY <1>4, <1>5, <1>6, ElementsConcat
<1>12. Injects(given \o batch)
  BY <1>4, <1>5, <1>6, InjectsConcat
<1>13. mixed \/ Ascends(given \o batch)
  BY <1>4, <1>5, <1>6, AscendsConcat
<1>14. NothingDropped'
  BY <1>3, <1>4, <1>8, <1>11, <1>12, <1>13 DEF NothingDropped
<1>15. QED
  BY <1>4, <1>9, <1>10, <1>14 DEF ConsumerInv

\* A step that commits, at most, and leaves what was fetched as it is.
LEMMA CommitsInv ==
  ASSUME ConsumerInv, UNCHANGED <<log, middleware, hand, handled>>,
         UNCHANGED <<subscribed, position, starts, base>>,
         open' \in BOOLEAN, open' => open, over' \in BOOLEAN,
         (open /\ AutoCommit) \/ UNCHANGED <<committed, excused>>
  PROVE  ConsumerInv'
<1>1. ConsumerTypeOK /\ LogInv /\ PositionInv /\ AtLeastOnce /\ NothingDropped
  BY DEF ConsumerInv
<1>2. UNCHANGED <<pending, given, logged, mixed>>
  BY DEF middleware
<1>3. /\ committed' \in [Partitions -> NoOffset..MaxOffset]
      /\ \A p \in Partitions : committed'[p] <= Len(log[p])
      /\ excused \subseteq excused' /\ excused' \subseteq Records
      /\ \A r \in Records : r[2] <= committed'[r[1]] => r \in handled \cup excused'
  <2>1. CASE open /\ AutoCommit
    BY <1>1, <2>1, CommitKeeps
  <2>2. CASE UNCHANGED <<committed, excused>>
    BY <1>1, <2>2 DEF ConsumerTypeOK, LogInv, AtLeastOnce
  <2>3. QED
    BY <2>1, <2>2
<1>4. Waiting' = Waiting /\ FetchedNow' = FetchedNow
  BY <1>2 DEF Waiting, FetchedNow
<1>5. ConsumerTypeOK'
  BY <1>1, <1>2, <1>3 DEF ConsumerTypeOK
<1>6. LogInv' /\ PositionInv' /\ AtLeastOnce'
  BY <1>1, <1>3, <1>4 DEF LogInv, PositionInv, AtLeastOnce
<1>7. NothingDropped'
  BY <1>1, <1>2, <1>4 DEF NothingDropped, HasError, MessageOf
<1>8. QED
  BY <1>5, <1>6, <1>7 DEF ConsumerInv

LEMMA CrashInv ==
  ASSUME ConsumerInv, Crash
  PROVE  ConsumerInv'
<1>1. ConsumerTypeOK /\ LogInv /\ AtLeastOnce
  BY DEF ConsumerInv
<1>2. /\ open' = FALSE /\ over' = TRUE /\ pending' = <<>> /\ hand' = <<>>
      /\ subscribed' = {} /\ position' = AtStart /\ base' = AtStart
      /\ given' = <<>> /\ logged' = NeverLogged /\ mixed' = FALSE
      /\ UNCHANGED <<log, committed, starts, handled, excused>>
  BY DEF Crash, broker
<1>2a. /\ AtStart \in [Partitions -> 0..MaxOffset]
       /\ \A p \in Partitions : AtStart[p] <= Len(log[p])
  <2>1. \A p \in Partitions : Len(log[p]) \in Nat
    BY <1>1 DEF ConsumerTypeOK
  <2>2. QED
    BY <2>1, ConsumerBounds DEF AtStart
<1>3. ConsumerTypeOK'
  <2>1. <<>> \in Seq(Records)
    OBVIOUS
  <2>2. NeverLogged \in [Records -> Nat]
    BY DEF NeverLogged
  <2>3. pending' \in Seq(Records) /\ hand' \in Seq(Records) /\ given' \in Seq(Records)
    BY <1>2, <2>1
  <2>4. /\ open' \in BOOLEAN /\ over' \in BOOLEAN /\ mixed' \in BOOLEAN
        /\ subscribed' \subseteq Partitions
    BY <1>2
  <2>5. QED
    BY <1>1, <1>2, <1>2a, <2>2, <2>3, <2>4 DEF ConsumerTypeOK
<1>4. Waiting' = {}
  BY <1>2, ElementsOfEmpty DEF Waiting
<1>5. LogInv'
  <2>1. \A p \in Partitions : AtStart[p] <= AtStart[p]
    BY DEF AtStart
  <2>2. QED
    BY <1>1, <1>2, <1>4, <2>1 DEF LogInv
<1>6. PositionInv' /\ AtLeastOnce'
  BY <1>1, <1>2 DEF PositionInv, AtLeastOnce
<1>7. NothingDropped'
  <2>1. Fresh'
    BY <1>2, <1>3 DEF Fresh, NeverLogged
  <2>2. QED
    BY <2>1, NothingFetched, PTL
<1>8. QED
  BY <1>3, <1>5, <1>6, <1>7 DEF ConsumerInv

-----------------------------------------------------------------------------
(* The theorems.                                                            *)

LEMMA ReadStepInv ==
  ASSUME ConsumerInv, ReadStep
  PROVE  ConsumerInv'
<1>1. open \in BOOLEAN /\ over \in BOOLEAN
  BY DEF ConsumerInv, ConsumerTypeOK
<1>2. CASE OwnerPolls
  BY <1>2, OwnerPollsInv
<1>3. CASE NextServes
  BY <1>3, NextServesInv
<1>4. CASE NextPolls
  BY <1>4, NextPollsInv
<1>5. CASE NextEnds
  <2>1. /\ UNCHANGED <<log, consumer, middleware, hand, handled>> /\ over' = TRUE
        /\ IF open THEN AutoCommit ELSE UNCHANGED <<committed, excused>>
    BY <1>5 DEF NextEnds
  <2>2. QED
    BY <1>1, <2>1, CommitsInv DEF consumer
<1>6. CASE LoopAgain
  <2>1. /\ UNCHANGED <<broker, consumer, middleware, hand, handled, excused>> /\ over' = FALSE
    BY <1>6 DEF LoopAgain
  <2>2. QED
    BY <1>1, <2>1, CommitsInv DEF broker, consumer
<1>7. CASE Commit
  <2>1. /\ open /\ AutoCommit /\ UNCHANGED <<log, consumer, middleware, hand, over, handled>>
    BY <1>7 DEF Commit, AutoCommit
  <2>2. QED
    BY <1>1, <2>1, CommitsInv DEF consumer
<1>8. CASE Close
  <2>1. /\ open /\ AutoCommit /\ open' = FALSE
        /\ UNCHANGED <<log, subscribed, position, starts, base, middleware, hand, over, handled>>
    BY <1>8 DEF Close, AutoCommit
  <2>2. QED
    BY <1>1, <2>1, CommitsInv
<1>9. CASE Crash
  BY <1>9, CrashInv
<1>10. QED
  BY <1>2, <1>3, <1>4, <1>5, <1>6, <1>7, <1>8, <1>9 DEF ReadStep

LEMMA StutterInv ==
  ASSUME ConsumerInv, UNCHANGED consumerVars
  PROVE  ConsumerInv'
<1>1. UNCHANGED <<log, middleware, hand, handled>>
      /\ UNCHANGED <<subscribed, position, starts, base>>
      /\ UNCHANGED <<committed, excused>> /\ open' = open /\ over' = over
  BY DEF consumerVars, broker, consumer, owner
<1>2. open \in BOOLEAN /\ over \in BOOLEAN
  BY DEF ConsumerInv, ConsumerTypeOK
<1>3. QED
  BY <1>1, <1>2, CommitsInv

LEMMA StepInv == ConsumerInv /\ [ConsumerNext]_consumerVars => ConsumerInv'
<1> SUFFICES ASSUME ConsumerInv, [ConsumerNext]_consumerVars PROVE ConsumerInv'
  OBVIOUS
<1>1. CASE \E p \in Partitions, m \in Messages : Publish(p, m)
  BY <1>1, PublishInv
<1>2. CASE \E reset \in Resets, topics \in SUBSET Partitions : Start(reset, topics)
  BY <1>2, StartInv
<1>3. CASE Handle
  BY <1>3, HandleInv
<1>4. CASE ReadStep
  BY <1>4, ReadStepInv
<1>5. CASE UNCHANGED consumerVars
  BY <1>5, StutterInv
<1>6. QED
  BY <1>1, <1>2, <1>3, <1>4, <1>5 DEF ConsumerNext

LEMMA Invariant == ConsumerSpec => []ConsumerInv
<1>1. ConsumerInit => ConsumerInv
  BY InitInv
<1>2. ConsumerInv /\ [ConsumerNext]_consumerVars => ConsumerInv'
  BY StepInv
<1>3. QED
  BY <1>1, <1>2, PTL DEF ConsumerSpec

\* Every variable keeps its type; no position is beyond what was published.
THEOREM ConsumerTypeCorrect == ConsumerSpec => []ConsumerTypeOK
<1>1. ConsumerInv => ConsumerTypeOK
  BY DEF ConsumerInv
<1>2. QED
  BY <1>1, Invariant, PTL

\* consumer.py:217-232: whatever the owner calls, and when, a record that was
\* fetched is given out or pending, once, and was logged once unless it is an
\* error.
THEOREM NoRecordDropped == ConsumerSpec => []NothingDropped
<1>1. ConsumerInv => NothingDropped
  BY DEF ConsumerInv
<1>2. QED
  BY <1>1, Invariant, PTL

\* Crashes and restarts lose nothing that a consumer did not begin behind and
\* that was not waiting when somebody committed past it, whatever is committed
\* and whatever auto_offset_reset says.
THEOREM NoRecordLost == ConsumerSpec => []AtLeastOnce
<1>1. ConsumerInv => AtLeastOnce
  BY DEF ConsumerInv
<1>2. QED
  BY <1>1, Invariant, PTL
=============================================================================
