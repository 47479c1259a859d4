--------------------------- MODULE QueueSetProofs ---------------------------
(***************************************************************************)
(* Counting handles: what a send, a select and the length of the set do to *)
(* the number of handles of each queue.                                    *)
(***************************************************************************)
EXTENDS QueueSet, FiniteSetTheorems, SequenceTheorems, FunctionTheorems, TLAPS

\* The numbers from 1 to n are n.
LEMMA CardinalityUpTo ==
  ASSUME NEW n \in Nat
  PROVE  Cardinality(1 .. n) = n
<1>1. Cardinality(1 .. n) = IF 1 > n THEN 0 ELSE n - 1 + 1
  BY FS_Interval
<1>. QED
  BY <1>1

\* A handle in front of a sequence of handles.
LEMMA InFront ==
  ASSUME NEW S, NEW x \in S, NEW s \in Seq(S)
  PROVE  /\ <<x>> \o s \in Seq(S)
         /\ <<x>> \o s # <<>>
         /\ (<<x>> \o s)[1] = x
         /\ Tail(<<x>> \o s) = s
         /\ \A y \in S : <<x>> \o Append(s, y) = Append(<<x>> \o s, y)
<1>. DEFINE t == <<x>> \o s
<1>1. <<x>> \in Seq(S) /\ Len(<<x>>) = 1 /\ <<x>>[1] = x
  OBVIOUS
<1>2. Len(s) \in Nat
  BY LenProperties
<1>3. /\ t \in Seq(S) /\ Len(t) = 1 + Len(s)
      /\ \A k \in 1 .. 1 + Len(s) : t[k] = IF k <= 1 THEN x ELSE s[k - 1]
  BY <1>1, ConcatProperties
<1>. HIDE DEF t
<1>4. t # <<>> /\ t[1] = x
  BY <1>2, <1>3, EmptySeq
<1>5. Tail(t) = s
  <2>1. /\ Tail(t) \in Seq(S) /\ Len(Tail(t)) = Len(t) - 1
        /\ \A k \in 1 .. Len(Tail(t)) : Tail(t)[k] = t[k + 1]
    BY <1>3, <1>4, HeadTailProperties
  <2>2. Len(Tail(t)) = Len(s)
    BY <1>2, <1>3, <2>1
  <2>3. \A k \in 1 .. Len(Tail(t)) : Tail(t)[k] = s[k]
    BY <1>2, <1>3, <2>1, <2>2
  <2>. QED
    BY <2>1, <2>2, <2>3, SeqEqual
<1>6. ASSUME NEW y \in S PROVE <<x>> \o Append(s, y) = Append(t, y)
  <2>1. /\ Append(s, y) \in Seq(S) /\ Len(Append(s, y)) = Len(s) + 1
        /\ \A k \in 1 .. Len(s) : Append(s, y)[k] = s[k]
        /\ Append(s, y)[Len(s) + 1] = y
    BY AppendProperties
  <2>2. /\ Append(t, y) \in Seq(S) /\ Len(Append(t, y)) = Len(t) + 1
        /\ \A k \in 1 .. Len(t) : Append(t, y)[k] = t[k]
        /\ Append(t, y)[Len(t) + 1] = y
    BY <1>3, AppendProperties
  <2>. DEFINE u == <<x>> \o Append(s, y)
  <2>3. /\ u \in Seq(S) /\ Len(u) = 1 + (Len(s) + 1)
        /\ \A k \in 1 .. 1 + (Len(s) + 1) :
             u[k] = IF k <= 1 THEN x ELSE Append(s, y)[k - 1]
    BY <1>1, <2>1, ConcatProperties
  <2>. HIDE DEF u
  <2>4. Len(u) = Len(Append(t, y))
    BY <1>2, <1>3, <2>2, <2>3
  <2>5. ASSUME NEW k \in 1 .. Len(u) PROVE u[k] = Append(t, y)[k]
    <3>1. CASE k = 1 + (Len(s) + 1)
      BY <1>2, <1>3, <2>1, <2>2, <2>3, <3>1
    <3>2. CASE k # 1 + (Len(s) + 1)
      <4>1. k \in 1 .. 1 + Len(s)
        BY <1>2, <2>3, <3>2
      <4>. QED
        BY <1>2, <1>3, <2>1, <2>2, <2>3, <4>1
    <3>. QED
      BY <3>1, <3>2
  <2>. QED
    BY <2>2, <2>3, <2>4, <2>5, SeqEqual DEF u
<1>. QED
  BY <1>3, <1>4, <1>5, <1>6 DEF t

\* The places of a handle are finitely many.
LEMMA PlacesFinite ==
  ASSUME NEW S, NEW s \in Seq(S), NEW q
  PROVE  /\ IsFiniteSet(Places(s, q))
         /\ Occurrences(s, q) \in Nat
<1>1. Len(s) \in Nat
  BY LenProperties
<1>2. IsFiniteSet(1 .. Len(s))
  BY <1>1, FS_Interval
<1>3. Places(s, q) \in SUBSET (1 .. Len(s))
  BY DEF Places
<1>4. IsFiniteSet(Places(s, q))
  BY <1>2, <1>3, FS_Subset
<1>. QED
  BY <1>4, FS_CardinalityType DEF Occurrences

\* An empty set holds no handle.
LEMMA OccurrencesEmpty ==
  ASSUME NEW q
  PROVE  Occurrences(<<>>, q) = 0
<1>1. Places(<<>>, q) = {}
  BY DEF Places
<1>. QED
  BY <1>1, FS_EmptySet DEF Occurrences

\* Posting a handle adds one occurrence of it and of no other.
LEMMA OccurrencesAppend ==
  ASSUME NEW S, NEW s \in Seq(S), NEW x \in S, NEW q
  PROVE  Occurrences(Append(s, x), q) =
           Occurrences(s, q) + (IF x = q THEN 1 ELSE 0)
<1>1. Len(s) \in Nat
  BY LenProperties
<1>2. /\ Len(Append(s, x)) = Len(s) + 1
      /\ \A k \in 1 .. Len(s) : Append(s, x)[k] = s[k]
      /\ Append(s, x)[Len(s) + 1] = x
  BY AppendProperties
<1>3. CASE x = q
  <2>1. Places(Append(s, x), q) = Places(s, q) \cup {Len(s) + 1}
    BY <1>1, <1>2, <1>3 DEF Places
  <2>2. Len(s) + 1 \notin Places(s, q)
    BY <1>1 DEF Places
  <2>. QED
    BY <1>3, <2>1, <2>2, PlacesFinite, FS_AddElement DEF Occurrences
<1>4. CASE x # q
  <2>1. Places(Append(s, x), q) = Places(s, q)
    BY <1>1, <1>2, <1>4 DEF Places
  <2>. QED
    BY <1>4, <2>1, PlacesFinite DEF Occurrences
<1>. QED
  BY <1>3, <1>4

\* Taking the first handle removes one occurrence of it and of no other.
LEMMA OccurrencesTail ==
  ASSUME NEW S, NEW s \in Seq(S), s # <<>>, NEW q
  PROVE  Occurrences(s, q) =
           Occurrences(Tail(s), q) + (IF s[1] = q THEN 1 ELSE 0)
<1>. DEFINE rest == Places(s, q) \ {1}
            shift == [k \in Places(Tail(s), q) |-> k + 1]
<1>1. Len(s) \in Nat \ {0}
  BY EmptySeq
<1>2. /\ Tail(s) \in Seq(S)
      /\ Len(Tail(s)) = Len(s) - 1
      /\ \A k \in 1 .. Len(Tail(s)) : Tail(s)[k] = s[k+1]
  BY HeadTailProperties
<1>3. ASSUME NEW k \in Places(Tail(s), q) PROVE k \in Int /\ k + 1 \in rest
  BY <1>1, <1>2 DEF Places
<1>4. ASSUME NEW k \in rest PROVE k \in Int /\ k - 1 \in Places(Tail(s), q)
  <2>1. k \in 2 .. Len(s) /\ s[k] = q
    BY <1>1 DEF Places
  <2>2. k - 1 \in 1 .. Len(Tail(s)) /\ (k - 1) + 1 = k
    BY <1>1, <1>2, <2>1
  <2>. QED
    BY <1>2, <2>1, <2>2 DEF Places
<1>5. shift \in Bijection(Places(Tail(s), q), rest)
  <2>1. shift \in [Places(Tail(s), q) -> rest]
    BY <1>3
  <2>2. \A a, b \in Places(Tail(s), q) : shift[a] = shift[b] => a = b
    BY <1>3
  <2>3. \A c \in rest : \E a \in Places(Tail(s), q) : shift[a] = c
    <3>. TAKE c \in rest
    <3>1. c - 1 \in Places(Tail(s), q) /\ c \in Int
      BY <1>4
    <3>2. shift[c - 1] = c
      BY <3>1
    <3>. QED
      BY <3>1, <3>2
  <2>. QED
    BY <2>1, <2>2, <2>3, Fun_IsBij
<1>6. Cardinality(rest) = Occurrences(Tail(s), q)
  <2>1. ExistsBijection(Places(Tail(s), q), rest)
    BY <1>5 DEF ExistsBijection
  <2>2. IsFiniteSet(Places(Tail(s), q))
    BY <1>2, PlacesFinite
  <2>. HIDE DEF rest
  <2>. QED
    BY <2>1, <2>2, FS_Bijection DEF Occurrences
<1>7. Cardinality(rest) =
        IF 1 \in Places(s, q) THEN Occurrences(s, q) - 1 ELSE Occurrences(s, q)
  BY PlacesFinite, FS_RemoveElement DEF Occurrences
<1>8. 1 \in Places(s, q) <=> s[1] = q
  BY <1>1 DEF Places
<1>9. Occurrences(s, q) \in Nat /\ Occurrences(Tail(s), q) \in Nat
  BY <1>2, PlacesFinite
<1>. QED
  BY <1>6, <1>7, <1>8, <1>9

\* The rank of a handle is between 1 and the number of its occurrences, and
\* two handles of the same queue have different ranks.
LEMMA RankBounds ==
  ASSUME NEW S, NEW s \in Seq(S), NEW k \in 1 .. Len(s)
  PROVE  Rank(s, k) \in 1 .. Occurrences(s, s[k])
<1>. DEFINE before == {j \in 1 .. k : s[j] = s[k]}
<1>1. Len(s) \in Nat
  BY LenProperties
<1>2. before \in SUBSET Places(s, s[k])
  BY <1>1 DEF Places
<1>3. k \in before
  BY <1>1
<1>4. IsFiniteSet(before) /\ Cardinality(before) <= Occurrences(s, s[k])
  BY <1>2, PlacesFinite, FS_Subset DEF Occurrences
<1>5. Cardinality(before) \in Nat /\ Cardinality(before) # 0
  BY <1>3, <1>4, FS_CardinalityType, FS_EmptySet
<1>. QED
  BY <1>4, <1>5, PlacesFinite DEF Rank

LEMMA RankInjective ==
  ASSUME NEW S, NEW s \in Seq(S), NEW k \in 1 .. Len(s), NEW l \in 1 .. Len(s),
         s[k] = s[l], k < l
  PROVE  Rank(s, k) # Rank(s, l)
<1>. DEFINE upTo(m) == {j \in 1 .. m : s[j] = s[l]}
<1>1. Len(s) \in Nat
  BY LenProperties
<1>2. upTo(k) \in SUBSET upTo(l) /\ l \in upTo(l) /\ l \notin upTo(k)
  BY <1>1
<1>3. upTo(l) \in SUBSET Places(s, s[l])
  BY <1>1 DEF Places
<1>4. IsFiniteSet(upTo(l))
  BY <1>3, PlacesFinite, FS_Subset
<1>5. Cardinality(upTo(l)) # Cardinality(upTo(k))
  BY <1>2, <1>4, FS_Subset
<1>. QED
  BY <1>5 DEF Rank

\* The rank of a handle counts its queue in the handles up to it.
LEMMA RankInPrefix ==
  ASSUME NEW S, NEW s \in Seq(S), NEW k \in 1 .. Len(s)
  PROVE  /\ SubSeq(s, 1, k) \in Seq(S) /\ Len(SubSeq(s, 1, k)) = k
         /\ \A j \in 1 .. k : SubSeq(s, 1, k)[j] = s[j]
         /\ Rank(s, k) = Occurrences(SubSeq(s, 1, k), s[k])
<1>. DEFINE p == SubSeq(s, 1, k)
<1>1. Len(s) \in Nat /\ k \in Nat /\ 1 <= k /\ k <= Len(s)
  BY LenProperties
<1>2. \A j \in 1 .. k : s[j] \in S
  BY <1>1, ElementOfSeq
<1>3. /\ p \in Seq(S) /\ Len(p) = IF 1 <= k THEN k - 1 + 1 ELSE 0
      /\ \A j \in 1 .. k - 1 + 1 : p[j] = s[1 + j - 1]
  BY <1>1, <1>2, SubSeqProperties
<1>4. p \in Seq(S) /\ Len(p) = k
  BY <1>1, <1>3
<1>5. ASSUME NEW j \in 1 .. k PROVE p[j] = s[j]
  <2>1. j \in 1 .. k - 1 + 1 /\ 1 + j - 1 = j
    BY <1>1
  <2>. QED
    BY <1>3, <2>1
<1>6. Places(p, s[k]) = {j \in 1 .. k : s[j] = s[k]}
  BY <1>4, <1>5 DEF Places
<1>. QED
  BY <1>4, <1>5, <1>6 DEF Rank, Occurrences

\* A handle posted leaves the ranks of the others, and is itself the last of
\* its queue.
LEMMA RankAppend ==
  ASSUME NEW S, NEW s \in Seq(S), NEW x \in S
  PROVE  /\ \A k \in 1 .. Len(s) : Rank(Append(s, x), k) = Rank(s, k)
         /\ Rank(Append(s, x), Len(s) + 1) = Occurrences(s, x) + 1
<1>1. /\ Append(s, x) \in Seq(S) /\ Len(Append(s, x)) = Len(s) + 1
      /\ Len(s) \in Nat
      /\ \A k \in 1 .. Len(s) : Append(s, x)[k] = s[k]
      /\ Append(s, x)[Len(s) + 1] = x
  BY AppendProperties, LenProperties
<1>2. ASSUME NEW k \in 1 .. Len(s)
      PROVE  Rank(Append(s, x), k) = Rank(s, k)
  <2>1. \A j \in 1 .. k : Append(s, x)[j] = s[j]
    BY <1>1
  <2>2. {j \in 1 .. k : Append(s, x)[j] = Append(s, x)[k]}
          = {j \in 1 .. k : s[j] = s[k]}
    BY <1>1, <2>1
  <2>. QED
    BY <2>2 DEF Rank
<1>3. Rank(Append(s, x), Len(s) + 1) = Occurrences(s, x) + 1
  <2>1. {j \in 1 .. Len(s) + 1 : Append(s, x)[j] = Append(s, x)[Len(s) + 1]}
          = Places(Append(s, x), x)
    BY <1>1 DEF Places
  <2>2. Rank(Append(s, x), Len(s) + 1) = Occurrences(Append(s, x), x)
    BY <2>1 DEF Rank, Occurrences
  <2>3. Occurrences(Append(s, x), x) =
          Occurrences(s, x) + (IF x = x THEN 1 ELSE 0)
    BY OccurrencesAppend
  <2>. QED
    BY <2>2, <2>3
<1>. QED
  BY <1>2, <1>3

\* The first handle is the first of its queue; taken away, it lowers the ranks
\* of the others of its queue and of no other.
LEMMA RankTail ==
  ASSUME NEW S, NEW s \in Seq(S), s # <<>>
  PROVE  /\ Rank(s, 1) = 1
         /\ \A k \in 1 .. Len(Tail(s)) :
              Rank(s, k + 1) =
                Rank(Tail(s), k) + (IF s[1] = s[k + 1] THEN 1 ELSE 0)
<1>1. /\ Tail(s) \in Seq(S) /\ Len(Tail(s)) = Len(s) - 1
      /\ Len(s) \in Nat \ {0}
      /\ \A k \in 1 .. Len(Tail(s)) : Tail(s)[k] = s[k + 1]
  BY HeadTailProperties, EmptySeq
<1>2. Rank(s, 1) = 1
  <2>1. {j \in 1 .. 1 : s[j] = s[1]} = {1}
    OBVIOUS
  <2>. QED
    BY <2>1, FS_Singleton DEF Rank
<1>3. ASSUME NEW k \in 1 .. Len(Tail(s))
      PROVE  Rank(s, k + 1) =
               Rank(Tail(s), k) + (IF s[1] = s[k + 1] THEN 1 ELSE 0)
  <2>. DEFINE p == SubSeq(s, 1, k + 1)
              t == SubSeq(Tail(s), 1, k)
  <2>0. k + 1 \in 1 .. Len(s) /\ k \in Nat \ {0} /\ Tail(s)[k] = s[k + 1]
    BY <1>1
  <2>1. /\ p \in Seq(S) /\ Len(p) = k + 1
        /\ \A j \in 1 .. k + 1 : p[j] = s[j]
        /\ Rank(s, k + 1) = Occurrences(p, s[k + 1])
    BY <2>0, RankInPrefix
  <2>2. /\ t \in Seq(S) /\ Len(t) = k
        /\ \A j \in 1 .. k : t[j] = Tail(s)[j]
        /\ Rank(Tail(s), k) = Occurrences(t, Tail(s)[k])
    BY <1>1, RankInPrefix
  <2>. HIDE DEF p, t
  <2>3. p # <<>>
    BY <2>0, <2>1, EmptySeq
  <2>4. /\ Tail(p) \in Seq(S) /\ Len(Tail(p)) = Len(p) - 1
        /\ \A j \in 1 .. Len(Tail(p)) : Tail(p)[j] = p[j + 1]
    BY <2>1, <2>3, HeadTailProperties
  <2>5. Len(Tail(p)) = k
    BY <2>0, <2>1, <2>4
  <2>6. ASSUME NEW j \in 1 .. Len(Tail(p)) PROVE Tail(p)[j] = t[j]
    <3>1. j \in 1 .. k /\ j + 1 \in 1 .. k + 1 /\ j \in 1 .. Len(Tail(s))
      BY <1>1, <2>0, <2>5
    <3>. QED
      BY <1>1, <2>1, <2>2, <2>4, <3>1
  <2>7. Tail(p) = t
    BY <2>2, <2>4, <2>5, <2>6, SeqEqual
  <2>8. Occurrences(p, s[k + 1]) =
          Occurrences(Tail(p), s[k + 1]) + (IF p[1] = s[k + 1] THEN 1 ELSE 0)
    BY <2>1, <2>3, OccurrencesTail
  <2>9. p[1] = s[1]
    BY <2>0, <2>1
  <2>. QED
    BY <2>0, <2>1, <2>2, <2>7, <2>8, <2>9
<1>. QED
  BY <1>2, <1>3

\* A set long enough for the messages of all its members is never full while
\* one of them has room: with N members of at most `cap' messages each, fewer
\* than cap * N handles are in it.
LEMMA RoomForAHandle ==
  ASSUME NEW N \in Nat, NEW cap \in Nat, NEW s \in Seq(0 .. N-1),
         \A q \in 0 .. N-1 : Occurrences(s, q) <= cap,
         NEW i \in 0 .. N-1, Occurrences(s, i) < cap
  PROVE  Len(s) < cap * N
<1>. DEFINE all == (0 .. N-1) \X (1 .. cap)
            others == all \ {<<i, cap>>}
            place == [k \in 1 .. Len(s) |-> <<s[k], Rank(s, k)>>]
<1>1. Len(s) \in Nat
  BY LenProperties
<1>2. Occurrences(s, i) \in Nat
  BY PlacesFinite
<1>3. IsFiniteSet(all) /\ Cardinality(all) = N * cap
  <2>1. IsFiniteSet(0 .. N-1) /\ Cardinality(0 .. N-1) = N
    BY FS_Interval
  <2>2. IsFiniteSet(1 .. cap) /\ Cardinality(1 .. cap) = cap
    BY FS_Interval
  <2>. QED
    BY <2>1, <2>2, FS_Product
<1>4. <<i, cap>> \in all
  BY <1>2
<1>5. IsFiniteSet(others) /\ Cardinality(others) = N * cap - 1
  <2>. HIDE DEF all
  <2>. QED
    BY <1>3, <1>4, FS_RemoveElement
<1>6. place \in Injection(1 .. Len(s), others)
  <2>1. ASSUME NEW k \in 1 .. Len(s) PROVE <<s[k], Rank(s, k)>> \in others
    <3>1. s[k] \in 0 .. N-1
      BY ElementOfSeq
    <3>2. Rank(s, k) \in 1 .. Occurrences(s, s[k])
      BY RankBounds
    <3>3. Occurrences(s, s[k]) \in Nat /\ Occurrences(s, s[k]) <= cap
      BY <3>1, PlacesFinite
    <3>4. s[k] = i => Rank(s, k) # cap
      BY <1>2, <3>2
    <3>. QED
      BY <3>1, <3>2, <3>3, <3>4
  <2>2. ASSUME NEW k \in 1 .. Len(s), NEW l \in 1 .. Len(s), place[k] = place[l]
        PROVE  k = l
    <3>1. s[k] = s[l] /\ Rank(s, k) = Rank(s, l)
      BY <2>2
    <3>2. ~(k < l) /\ ~(l < k)
      BY <3>1, RankInjective
    <3>. QED
      BY <1>1, <3>2
  <2>. QED
    BY <2>1, <2>2, Fun_IsInj
<1>7. Cardinality(1 .. Len(s)) <= Cardinality(others)
  BY <1>5, <1>6, FS_Injection
<1>8. Cardinality(1 .. Len(s)) = Len(s)
  BY <1>1, CardinalityUpTo
<1>9. cap * N = N * cap /\ N * cap \in Nat
  OBVIOUS
<1>. QED
  BY <1>1, <1>5, <1>7, <1>8, <1>9

=============================================================================
