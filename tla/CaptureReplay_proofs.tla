------------------------ MODULE CaptureReplay_proofs ------------------------
(* Proofs about captures and their replay, for every capture, width of the     *)
(* sequence numbers, number of faults and of connections, and every HTTP/1     *)
(* message length and target: what is kept of a flow is one piece of what was  *)
(* said, the turns of a flow kept whole are those of its conversation, and the *)
(* two ends of a replayed connection play the same conversation.               *)
(*                                                                            *)
(* The model joins sequences with FlattenSeq and Reassemble, which recur: what *)
(* they return is proved here first, by induction over a set of numbers.       *)
EXTENDS CaptureReplay, WellFoundedInduction, SequenceTheorems, FiniteSetTheorems, TLAPS

-----------------------------------------------------------------------------
(* Induction over the numbers, for sets of numbers.                           *)

LEMMA LeastOf ==
  ASSUME NEW N, N \subseteq Nat, N # {}
  PROVE  \E x \in N : \A y \in N : x <= y
<1> DEFINE R == OpToRel(<, Nat)
<1>1. IsWellFoundedOn(R, Nat)
  BY NatLessThanWellFounded
<1>2. \A x, y \in Nat : x < y => <<x, y>> \in R
  BY DEF OpToRel
<1> HIDE DEF R
<1>3. \E x \in N : \A y \in N : ~ (<<y, x>> \in R)
  BY <1>1, WFMin
<1>4. PICK x \in N : \A y \in N : ~ (<<y, x>> \in R)
  BY <1>3
<1>5. \A y \in N : ~(y < x)
  BY <1>2, <1>4
<1> HIDE <1>2, <1>3, <1>4
<1> QED BY <1>5

LEMMA InductionOn ==
  ASSUME NEW N, N \subseteq Nat, 0 \in N, \A n \in N : n + 1 \in N
  PROVE  N = Nat
<1> SUFFICES ASSUME Nat \ N # {} PROVE FALSE
  OBVIOUS
<1>1. PICK x \in Nat \ N : \A y \in Nat \ N : x <= y
  BY LeastOf
<1>2. x # 0 /\ x - 1 \in Nat
  BY <1>1
<1>3. x - 1 \in N
  BY <1>1, <1>2
<1>4. (x - 1) + 1 \in N
  BY <1>3
<1> QED BY <1>1, <1>2, <1>4

LEMMA MinOf ==
  ASSUME NEW N, N \subseteq Nat, N # {}
  PROVE  Min(N) \in N /\ \A y \in N : Min(N) <= y
<1>1. \E x \in N : \A y \in N : x <= y
  BY LeastOf
<1> QED BY <1>1 DEF Min

-----------------------------------------------------------------------------
(* FlattenSeq                                                                 *)

(* The function of its definition, for the first n sequences.                 *)
Flattens(g, seqs, n) ==
  \A i \in 1 .. n : g[i] = IF i = 1 THEN seqs[i] ELSE g[i - 1] \o seqs[i]

(* Sequences of which nothing matters but that joining two gives one.          *)
Joins(X) == \A x, y \in X : x \o y \in X

LEMMA FlattenIs ==
  ASSUME NEW X, NEW seqs \in Seq(X), seqs # <<>>,
         NEW g \in [1 .. Len(seqs) -> X], Flattens(g, seqs, Len(seqs))
  PROVE  FlattenSeq(seqs) = g[Len(seqs)]
<1> DEFINE N == Len(seqs)
           Is(h) == h = [i \in 1 .. N |-> IF i = 1 THEN seqs[i] ELSE h[i - 1] \o seqs[i]]
           f == CHOOSE h : Is(h)
<1>1. N \in Nat \ {0}
  OBVIOUS
<1>2. Is(g)
  BY DEF Flattens
<1>3. Is(f)
  BY <1>2
<1>4. FlattenSeq(seqs) = f[N]
  BY <1>1 DEF FlattenSeq
<1>5. \A i \in 1 .. N : /\ f[i] = IF i = 1 THEN seqs[i] ELSE f[i - 1] \o seqs[i]
                        /\ g[i] = IF i = 1 THEN seqs[i] ELSE g[i - 1] \o seqs[i]
  BY <1>2, <1>3
<1> HIDE DEF f, Is
<1> HIDE <1>2, <1>3
<1>5a. f[1] = seqs[1] /\ g[1] = seqs[1]
  <2>1. 1 \in 1 .. N
    BY <1>1
  <2> QED BY <1>5, <2>1, Zenon
<1>5b. ASSUME NEW n \in Nat, n # 0, n + 1 \in 1 .. N
       PROVE  f[n + 1] = f[n] \o seqs[n + 1] /\ g[n + 1] = g[n] \o seqs[n + 1]
  <2>1. n + 1 # 1 /\ (n + 1) - 1 = n
    BY <1>5b
  <2> QED BY <1>5, <1>5b, <2>1, Zenon
<1> DEFINE S == {n \in Nat : n \in 1 .. N => f[n] = g[n]}
<1>6. 0 \in S
  OBVIOUS
<1>7. ASSUME NEW n \in S PROVE n + 1 \in S
  <2> SUFFICES ASSUME n + 1 \in 1 .. N PROVE f[n + 1] = g[n + 1]
    OBVIOUS
  <2>1. n \in Nat /\ (n + 1) - 1 = n
    OBVIOUS
  <2>2. CASE n = 0
    BY <1>5a, <2>2
  <2>3. CASE n # 0
    <3>1. n \in 1 .. N
      BY <2>1, <2>3
    <3>2. f[n] = g[n]
      BY <3>1
    <3>3. f[n + 1] = f[n] \o seqs[n + 1] /\ g[n + 1] = g[n] \o seqs[n + 1]
      BY <1>5b, <2>1, <2>3
    <3> QED BY <3>2, <3>3
  <2> QED  BY <2>2, <2>3
<1>8. S = Nat
  <2>1. S \subseteq Nat
    OBVIOUS
  <2> HIDE DEF S
  <2> QED BY <1>6, <1>7, <2>1, InductionOn
<1>9. f[N] = g[N]
  <2>1. N \in S
    BY <1>1, <1>8
  <2> QED BY <1>1, <2>1
<1> QED BY <1>4, <1>9

LEMMA FlattenExists ==
  ASSUME NEW X, Joins(X), NEW seqs \in Seq(X)
  PROVE  \E g \in [1 .. Len(seqs) -> X] : Flattens(g, seqs, Len(seqs))
<1> DEFINE N == Len(seqs)
           P(n) == \E g \in [1 .. n -> X] : Flattens(g, seqs, n)
           S == {n \in Nat : n <= N => P(n)}
<1>0. N \in Nat
  OBVIOUS
<1>1. P(0)
  <2> DEFINE g == [i \in 1 .. 0 |-> <<>>]
  <2>1. g \in [1 .. 0 -> X]
    OBVIOUS
  <2>2. Flattens(g, seqs, 0)
    BY DEF Flattens
  <2> QED BY <2>1, <2>2
<1>2. ASSUME NEW n \in Nat, n + 1 <= N, P(n) PROVE P(n + 1)
  <2>1. PICK g \in [1 .. n -> X] : Flattens(g, seqs, n)
    BY <1>2
  <2> DEFINE last == IF n = 0 THEN seqs[1] ELSE g[n] \o seqs[n + 1]
             h == [i \in 1 .. n + 1 |-> IF i = n + 1 THEN last ELSE g[i]]
  <2>2. last \in X
    <3>1. seqs[n + 1] \in X
      BY <1>0, <1>2
    <3>2. n # 0 => g[n] \in X
      OBVIOUS
    <3> QED BY <3>1, <3>2 DEF Joins
  <2>3. last = IF n + 1 = 1 THEN seqs[n + 1] ELSE g[n] \o seqs[n + 1]
    OBVIOUS
  <2> HIDE DEF last
  <2>4. h \in [1 .. n + 1 -> X]
    BY <2>2
  <2>5. Flattens(h, seqs, n + 1)
    <3> SUFFICES ASSUME NEW i \in 1 .. n + 1
                 PROVE  h[i] = IF i = 1 THEN seqs[i] ELSE h[i - 1] \o seqs[i]
      BY DEF Flattens
    <3>1. CASE i = n + 1
      <4>1. n # 0 => h[n] = g[n]
        OBVIOUS
      <4> QED BY <2>3, <3>1, <4>1
    <3>2. CASE i # n + 1
      <4>1. i \in 1 .. n
        BY <3>2
      <4>2. h[i] = g[i] /\ (i # 1 => h[i - 1] = g[i - 1])
        BY <4>1
      <4> QED BY <2>1, <4>1, <4>2 DEF Flattens
    <3> QED BY <3>1, <3>2
  <2> QED BY <2>4, <2>5
<1> HIDE DEF P
<1>3. 0 \in S
  BY <1>1
<1>4. ASSUME NEW n \in S PROVE n + 1 \in S
  BY <1>0, <1>2
<1>5. S = Nat
  <2>1. S \subseteq Nat
    OBVIOUS
  <2> HIDE DEF S
  <2> QED BY <1>3, <1>4, <2>1, InductionOn
<1>6. P(N)
  BY <1>0, <1>5
<1> QED BY <1>6 DEF P

LEMMA FlattenNone == FlattenSeq(<<>>) = <<>>
BY DEF FlattenSeq

LEMMA FlattenJoins ==
  ASSUME NEW X, Joins(X), NEW seqs \in Seq(X), seqs # <<>>
  PROVE  FlattenSeq(seqs) \in X
<1>1. Len(seqs) \in Nat \ {0}
  OBVIOUS
<1>2. PICK g \in [1 .. Len(seqs) -> X] : Flattens(g, seqs, Len(seqs))
  BY FlattenExists
<1>3. g[Len(seqs)] \in X
  BY <1>1
<1> QED BY <1>2, <1>3, FlattenIs

LEMMA FlattenJoinsAppend ==
  ASSUME NEW X, Joins(X), NEW seqs \in Seq(X), seqs # <<>>, NEW s \in X
  PROVE  FlattenSeq(Append(seqs, s)) = FlattenSeq(seqs) \o s
<1> DEFINE N == Len(seqs)
           all == Append(seqs, s)
<1>0. /\ all \in Seq(X) /\ Len(all) = N + 1 /\ all # <<>> /\ N \in Nat \ {0}
      /\ all[N + 1] = s /\ \A i \in 1 .. N : all[i] = seqs[i]
  OBVIOUS
<1> HIDE DEF all
<1>1. PICK g \in [1 .. N -> X] : Flattens(g, seqs, N)
  BY FlattenExists
<1>2. FlattenSeq(seqs) = g[N]
  BY <1>1, FlattenIs
<1>3. g[N] \in X
  BY <1>0
<1> DEFINE last == g[N] \o s
           h == [i \in 1 .. N + 1 |-> IF i = N + 1 THEN last ELSE g[i]]
<1>4. last \in X
  BY <1>3 DEF Joins
<1> HIDE DEF last
<1>5. h \in [1 .. Len(all) -> X]
  BY <1>0, <1>4
<1>6. Flattens(h, all, Len(all))
  <2> SUFFICES ASSUME NEW i \in 1 .. N + 1
               PROVE  h[i] = IF i = 1 THEN all[i] ELSE h[i - 1] \o all[i]
    BY <1>0 DEF Flattens
  <2>1. CASE i = N + 1
    <3>1. h[N] = g[N] /\ h[N + 1] = last /\ i # 1 /\ i - 1 = N
      BY <1>0, <2>1
    <3>2. last = g[N] \o all[N + 1]
      BY <1>0 DEF last
    <3> HIDE DEF h
    <3> QED BY <2>1, <3>1, <3>2, Zenon
  <2>2. CASE i # N + 1
    <3>1. i \in 1 .. N
      BY <2>2
    <3>2. h[i] = g[i] /\ (i # 1 => h[i - 1] = g[i - 1])
      BY <3>1
    <3> QED BY <1>0, <1>1, <3>1, <3>2 DEF Flattens
  <2> QED BY <2>1, <2>2
<1>7. h[N + 1] = last
  BY <1>0
<1>8. FlattenSeq(all) = h[Len(all)]
  <2> HIDE DEF h
  <2> QED BY <1>0, <1>5, <1>6, FlattenIs
<1> QED BY <1>0, <1>2, <1>7, <1>8 DEF all, last

LEMMA SequencesJoin ==
  ASSUME NEW T
  PROVE  Joins(Seq(T))
BY DEF Joins

LEMMA FlattenType ==
  ASSUME NEW T, NEW seqs \in Seq(Seq(T))
  PROVE  FlattenSeq(seqs) \in Seq(T)
<1>0. <<>> \in Seq(T)
  OBVIOUS
<1>1. CASE seqs = <<>>
  BY <1>0, <1>1, FlattenNone, Zenon
<1>2. CASE seqs # <<>>
  <2> DEFINE X == Seq(T)
  <2>1. Joins(X)
    BY SequencesJoin
  <2> HIDE DEF X
  <2>2. seqs \in Seq(X)
    BY DEF X
  <2>3. FlattenSeq(seqs) \in X
    BY <1>2, <2>1, <2>2, FlattenJoins
  <2> QED BY <2>3 DEF X
<1> QED BY <1>1, <1>2

LEMMA FlattenAppend ==
  ASSUME NEW T, NEW seqs \in Seq(Seq(T)), NEW s \in Seq(T)
  PROVE  FlattenSeq(Append(seqs, s)) = FlattenSeq(seqs) \o s
<1> DEFINE X == Seq(T)
<1>1. Joins(X)
  BY SequencesJoin
<1>2. <<>> \o s = s
  BY ConcatEmptySeq
<1> HIDE DEF X
<1>3. seqs \in Seq(X) /\ s \in X
  BY DEF X
<1>4. CASE seqs = <<>>
  <2> DEFINE h == [i \in 1 .. 1 |-> s]
  <2>1. /\ Append(seqs, s) \in Seq(X) /\ Len(Append(seqs, s)) = 1 /\ Append(seqs, s) # <<>>
        /\ Append(seqs, s)[1] = s
    BY <1>3, <1>4
  <2>2. h \in [1 .. Len(Append(seqs, s)) -> X]
    BY <1>3, <2>1
  <2>3. Flattens(h, Append(seqs, s), Len(Append(seqs, s)))
    BY <2>1 DEF Flattens
  <2>4. FlattenSeq(Append(seqs, s)) = h[1]
    BY <2>1, <2>2, <2>3, FlattenIs
  <2> QED BY <1>2, <1>4, <2>4, FlattenNone
<1>5. CASE seqs # <<>>
  BY <1>1, <1>3, <1>5, FlattenJoinsAppend
<1> QED BY <1>4, <1>5
-----------------------------------------------------------------------------
(* What a side has sent after n packets of a talk, or n turns of a plan.       *)

Packet == [from : Side, bytes : Seq(Letter)]

LEMMA SentNone ==
  ASSUME NEW talk, NEW side
  PROVE  SentBy(talk, side, 0) = <<>>
<1>1. [i \in 1 .. 0 |-> IF talk[i].from = side THEN talk[i].bytes ELSE <<>>] = <<>>
  OBVIOUS
<1> QED BY <1>1, FlattenNone, Zenon DEF SentBy

LEMMA SentStep ==
  ASSUME NEW talk \in Seq(Packet), NEW side, NEW n \in Nat, n + 1 <= Len(talk)
  PROVE  /\ SentBy(talk, side, n) \in Seq(Letter)
         /\ SentBy(talk, side, n + 1) \in Seq(Letter)
         /\ SentBy(talk, side, n + 1) =
              SentBy(talk, side, n) \o IF talk[n + 1].from = side THEN talk[n + 1].bytes ELSE <<>>
<1> DEFINE B == Seq(Letter)
           b == [i \in 1 .. Len(talk) |-> IF talk[i].from = side THEN talk[i].bytes ELSE <<>>]
           first(k) == [i \in 1 .. k |-> IF talk[i].from = side THEN talk[i].bytes ELSE <<>>]
<1>1. ASSUME NEW i \in 1 .. Len(talk) PROVE talk[i].bytes \in B
  <2>1. talk[i] \in Packet
    OBVIOUS
  <2> QED BY <2>1 DEF Packet
<1>2. <<>> \in B
  OBVIOUS
<1>3. \A i \in 1 .. Len(talk) : b[i] \in B
  BY <1>1, <1>2
<1> HIDE DEF B
<1>4. \A k \in 0 .. Len(talk) : first(k) = [i \in 1 .. k |-> b[i]]
  OBVIOUS
<1> HIDE DEF b, first
<1>5. /\ first(n) \in Seq(B) /\ first(n + 1) \in Seq(B) /\ b[n + 1] \in B
      /\ first(n + 1) = Append(first(n), b[n + 1])
  <2>1. Len(talk) \in Nat /\ n \in 0 .. Len(talk) /\ n + 1 \in 0 .. Len(talk)
    OBVIOUS
  <2>2. first(n) = [i \in 1 .. n |-> b[i]] /\ first(n + 1) = [i \in 1 .. n + 1 |-> b[i]]
    BY <1>4, <2>1
  <2>3. n + 1 \in 1 .. Len(talk) /\ \A i \in 1 .. n : i \in 1 .. Len(talk)
    BY <2>1
  <2> HIDE DEF first
  <2>4. b[n + 1] \in B /\ \A i \in 1 .. n + 1 : b[i] \in B
    BY <1>3, <2>1
  <2>5. first(n) \in Seq(B) /\ Len(first(n)) = n
    BY <2>2, <2>4
  <2>6. first(n + 1) \in Seq(B) /\ Len(first(n + 1)) = n + 1
    BY <2>2, <2>4
  <2>7. first(n + 1) = Append(first(n), b[n + 1])
    BY <2>2, <2>4, <2>5, <2>6
  <2> QED BY <2>4, <2>5, <2>6, <2>7
<1>6. FlattenSeq(first(n + 1)) = FlattenSeq(first(n)) \o b[n + 1]
  BY <1>5, FlattenAppend DEF B
<1>7. FlattenSeq(first(n)) \in B /\ FlattenSeq(first(n + 1)) \in B
  BY <1>5, FlattenType DEF B
<1>8. b[n + 1] = IF talk[n + 1].from = side THEN talk[n + 1].bytes ELSE <<>>
  BY DEF b
<1> QED BY <1>6, <1>7, <1>8 DEF SentBy, first, B

LEMMA SentType ==
  ASSUME NEW talk \in Seq(Packet), NEW side, NEW n \in 0 .. Len(talk)
  PROVE  SentBy(talk, side, n) \in Seq(Letter)
<1>0. <<>> \in Seq(Letter)
  OBVIOUS
<1>1. CASE n = 0
  BY <1>0, <1>1, SentNone, Zenon
<1>2. CASE n # 0
  <2>1. n - 1 \in Nat /\ (n - 1) + 1 = n /\ (n - 1) + 1 <= Len(talk)
    BY <1>2
  <2>2. SentBy(talk, side, (n - 1) + 1) \in Seq(Letter)
    BY <2>1, SentStep
  <2> QED BY <2>1, <2>2
<1> QED BY <1>1, <1>2

LEMMA SentGrows ==
  ASSUME NEW talk \in Seq(Packet), NEW side, NEW m \in Nat, NEW n \in Nat,
         m <= n, n <= Len(talk)
  PROVE  \E rest \in Seq(Letter) :
           SentBy(talk, side, n) = SentBy(talk, side, m) \o rest
<1> DEFINE P(k) == \E rest \in Seq(Letter) :
                     SentBy(talk, side, m + k) = SentBy(talk, side, m) \o rest
           S == {k \in Nat : m + k <= n => P(k)}
<1>1. P(0)
  <2>1. SentBy(talk, side, m) \in Seq(Letter) /\ <<>> \in Seq(Letter)
    BY SentType
  <2>2. SentBy(talk, side, m) \o <<>> = SentBy(talk, side, m)
    BY <2>1, ConcatEmptySeq
  <2>3. m + 0 = m
    OBVIOUS
  <2> QED BY <2>1, <2>2, <2>3, Zenon
<1>2. ASSUME NEW k \in Nat, m + (k + 1) <= n, P(k) PROVE P(k + 1)
  <2>1. PICK rest \in Seq(Letter) : SentBy(talk, side, m + k) = SentBy(talk, side, m) \o rest
    BY <1>2
  <2> DEFINE more == IF talk[m + k + 1].from = side THEN talk[m + k + 1].bytes ELSE <<>>
  <2>2. m + k \in Nat /\ (m + k) + 1 <= Len(talk) /\ m + (k + 1) = (m + k) + 1
    BY <1>2
  <2>3. SentBy(talk, side, (m + k) + 1) = SentBy(talk, side, m + k) \o more
    BY <2>2, SentStep
  <2>4. more \in Seq(Letter)
    <3>1. talk[(m + k) + 1] \in Packet
      BY <2>2
    <3> QED BY <3>1 DEF Packet
  <2>5. SentBy(talk, side, m) \in Seq(Letter)
    BY SentType
  <2> HIDE DEF more
  <2>6. (SentBy(talk, side, m) \o rest) \o more = SentBy(talk, side, m) \o (rest \o more)
    BY <2>4, <2>5, ConcatAssociative
  <2>7. rest \o more \in Seq(Letter)
    BY <2>4
  <2> QED BY <2>1, <2>2, <2>3, <2>6, <2>7
<1> HIDE DEF P
<1>3. 0 \in S
  BY <1>1
<1>4. ASSUME NEW k \in S PROVE k + 1 \in S
  BY <1>2
<1>5. S = Nat
  <2>1. S \subseteq Nat
    OBVIOUS
  <2> HIDE DEF S
  <2> QED BY <1>3, <1>4, <2>1, InductionOn
<1>6. P(n - m)
  <2>1. n - m \in Nat /\ m + (n - m) = n
    OBVIOUS
  <2> QED BY <1>5, <2>1
<1>7. m + (n - m) = n
  OBVIOUS
<1> QED BY <1>6, <1>7 DEF P

-----------------------------------------------------------------------------
(* What is under way from a writer w of the turns P, which is at turn n + 1,   *)
(* to a reader at turn m + 1.                                                 *)

PlannedTurn == [from : Side, bytes : Seq(Letter) \ {<<>>}]

LEMMA TurnIsPacket ==
  ASSUME NEW P \in Seq(PlannedTurn)
  PROVE  /\ P \in Seq(Packet)
         /\ \A m \in 1 .. Len(P) :
              /\ P[m].from \in Side /\ P[m].bytes \in Seq(Letter)
              /\ Len(P[m].bytes) \in Nat \ {0}
<1>1. PlannedTurn \subseteq Packet
  BY DEF PlannedTurn, Packet
<1>2. P \in Seq(Packet)
  BY <1>1
<1>3. ASSUME NEW m \in 1 .. Len(P)
      PROVE  P[m].from \in Side /\ P[m].bytes \in Seq(Letter) /\ Len(P[m].bytes) \in Nat \ {0}
  <2>1. P[m] \in PlannedTurn
    OBVIOUS
  <2>2. P[m].from \in Side /\ P[m].bytes \in Seq(Letter) /\ P[m].bytes # <<>>
    BY <2>1 DEF PlannedTurn
  <2> QED BY <2>2
<1> QED BY <1>2, <1>3

LEMMA JoinedBytes ==
  /\ \A s, t \in Seq(Letter) : s \o t \in Seq(Letter) /\ Len(s \o t) = Len(s) + Len(t)
  /\ \A s, t, u \in Seq(Letter) : (s \o t) \o u = s \o (t \o u)
  /\ \A s, t, u \in Seq(Letter) : s \o t = s \o u => t = u
  /\ \A s \in Seq(Letter) : s \o <<>> = s /\ <<>> \o s = s
<1>1. \A s, t \in Seq(Letter) : s \o t \in Seq(Letter) /\ Len(s \o t) = Len(s) + Len(t)
  BY ConcatProperties
<1>2. \A s, t, u \in Seq(Letter) : (s \o t) \o u = s \o (t \o u)
  BY ConcatAssociative
<1>3. \A s, t, u \in Seq(Letter) : s \o t = s \o u => t = u
  BY ConcatSimplifications
<1>4. \A s \in Seq(Letter) : s \o <<>> = s /\ <<>> \o s = s
  BY ConcatEmptySeq
<1> QED BY <1>1, <1>2, <1>3, <1>4

LEMMA WritesOn ==
  ASSUME NEW P \in Seq(PlannedTurn), NEW w \in Side, NEW n \in 1 .. Len(P)
  PROVE  /\ P[n].from = w => SentBy(P, w, n) = SentBy(P, w, n - 1) \o P[n].bytes
         /\ P[n].from # w => SentBy(P, w, n) = SentBy(P, w, n - 1)
         /\ SentBy(P, w, n) \in Seq(Letter) /\ SentBy(P, w, n - 1) \in Seq(Letter)
<1> DEFINE more == IF P[n].from = w THEN P[n].bytes ELSE <<>>
<1>1. P \in Seq(Packet)
  BY TurnIsPacket
<1>2. n - 1 \in Nat /\ (n - 1) + 1 = n /\ (n - 1) + 1 <= Len(P)
  OBVIOUS
<1>3. /\ SentBy(P, w, n - 1) \in Seq(Letter) /\ SentBy(P, w, (n - 1) + 1) \in Seq(Letter)
      /\ SentBy(P, w, (n - 1) + 1) =
           SentBy(P, w, n - 1) \o IF P[(n - 1) + 1].from = w THEN P[(n - 1) + 1].bytes ELSE <<>>
  BY <1>1, <1>2, SentStep
<1>4. SentBy(P, w, n) = SentBy(P, w, n - 1) \o more
  BY <1>2, <1>3, Zenon
<1>5. SentBy(P, w, n - 1) \o <<>> = SentBy(P, w, n - 1)
  BY <1>3, ConcatEmptySeq
<1>6. SentBy(P, w, n) \in Seq(Letter)
  BY <1>2, <1>3, Zenon
<1> QED BY <1>3, <1>4, <1>5, <1>6

(* A reader that waits for more than is under way is not behind its writer.    *)
LEMMA WaitsForWriter ==
  ASSUME NEW P \in Seq(PlannedTurn), NEW w \in Side,
         NEW m \in 1 .. Len(P), NEW n \in m + 1 .. Len(P) + 1, NEW T \in Seq(Letter),
         P[m].from = w,
         SentBy(P, w, n - 1) = SentBy(P, w, m - 1) \o T
  PROVE  \E rest \in Seq(Letter) : /\ T = P[m].bytes \o rest
                                   /\ SentBy(P, w, n - 1) = SentBy(P, w, m) \o rest
<1> DEFINE before == SentBy(P, w, m - 1)
           b == P[m].bytes
<1>1. P \in Seq(Packet)
  BY TurnIsPacket
<1>2. SentBy(P, w, m) = before \o b /\ before \in Seq(Letter)
  BY WritesOn
<1>3. PICK rest \in Seq(Letter) : SentBy(P, w, n - 1) = SentBy(P, w, m) \o rest
  <2>1. m \in Nat /\ n - 1 \in Nat /\ m <= n - 1 /\ n - 1 <= Len(P)
    OBVIOUS
  <2> QED BY <1>1, <2>1, SentGrows
<1>4. b \in Seq(Letter)
  BY TurnIsPacket
<1>4a. before \in Seq(Letter)
  BY <1>2
<1> HIDE DEF before, b
<1>5. (before \o b) \o rest = before \o (b \o rest)
  <2>1. b \in Seq(Letter) /\ before \in Seq(Letter) /\ rest \in Seq(Letter)
    BY <1>4, <1>4a
  <2>2. \A s, t, u \in Seq(Letter) : (s \o t) \o u = s \o (t \o u)
    BY JoinedBytes
  <2> QED BY <2>1, <2>2, Zenon
<1>6. before \o T = before \o (b \o rest)
  BY <1>2, <1>3, <1>5 DEF before
<1>7. b \o rest \in Seq(Letter)
  BY <1>4
<1>8. T = b \o rest
  BY ZenonT(90), <1>2, <1>6, <1>7, JoinedBytes
<1> QED BY <1>3, <1>8 DEF b

(* What was read was written.                                                 *)
LEMMA NotAhead ==
  ASSUME NEW P \in Seq(PlannedTurn), NEW w \in Side,
         NEW n \in 1 .. Len(P), NEW m \in n + 1 .. Len(P) + 1, NEW T \in Seq(Letter),
         P[n].from = w
  PROVE  SentBy(P, w, n - 1) # SentBy(P, w, m - 1) \o T
<1> SUFFICES ASSUME SentBy(P, w, n - 1) = SentBy(P, w, m - 1) \o T PROVE FALSE
  OBVIOUS
<1>1. P \in Seq(Packet)
  BY TurnIsPacket
<1> DEFINE was == SentBy(P, w, n - 1)
           is == SentBy(P, w, n)
           read == SentBy(P, w, m - 1)
           b == P[n].bytes
<1>2. is = was \o b /\ is \in Seq(Letter) /\ was \in Seq(Letter)
  BY WritesOn
<1>3. PICK rest \in Seq(Letter) : read = is \o rest
  <2>1. n \in Nat /\ m - 1 \in Nat /\ n <= m - 1 /\ m - 1 <= Len(P)
    OBVIOUS
  <2> QED BY <1>1, <2>1, SentGrows
<1>4. b \in Seq(Letter) /\ Len(b) \in Nat \ {0}
  BY TurnIsPacket
<1>5. was = read \o T
  OBVIOUS
<1> HIDE DEF was, is, read, b
<1>6. read \in Seq(Letter) /\ Len(read) = Len(is) + Len(rest)
  BY <1>2, <1>3, JoinedBytes
<1>7. Len(is) = Len(was) + Len(b)
  BY <1>2, <1>4, JoinedBytes
<1>8. Len(was) = Len(read) + Len(T)
  BY <1>5, <1>6, JoinedBytes
<1> QED BY <1>2, <1>4, <1>6, <1>7, <1>8

(* read_exact_count.                                                          *)
LEMMA ReadsOn ==
  ASSUME NEW P \in Seq(PlannedTurn), NEW w \in Side,
         NEW m \in 1 .. Len(P), NEW n \in 1 .. Len(P) + 1, NEW T \in Seq(Letter),
         P[m].from = w, Len(T) >= Len(P[m].bytes),
         SentBy(P, w, n - 1) = SentBy(P, w, m - 1) \o T
  PROVE  /\ SubSeq(T, Len(P[m].bytes) + 1, Len(T)) \in Seq(Letter)
         /\ SentBy(P, w, n - 1) = SentBy(P, w, m) \o SubSeq(T, Len(P[m].bytes) + 1, Len(T))
<1> DEFINE b == P[m].bytes
<1>1. P \in Seq(Packet)
  BY TurnIsPacket
<1>2. b \in Seq(Letter) /\ Len(b) \in Nat \ {0}
  BY TurnIsPacket
<1>3. SentBy(P, w, m - 1) \in Seq(Letter)
  BY WritesOn
<1>4. n >= m + 1
  <2> SUFFICES ASSUME n <= m PROVE FALSE
    OBVIOUS
  <2>1. n - 1 \in Nat /\ m - 1 \in Nat /\ n - 1 <= m - 1 /\ m - 1 <= Len(P)
    OBVIOUS
  <2>2. PICK rest \in Seq(Letter) : SentBy(P, w, m - 1) = SentBy(P, w, n - 1) \o rest
    BY <1>1, <2>1, SentGrows
  <2>3. SentBy(P, w, n - 1) \in Seq(Letter)
    BY <1>1, SentType
  <2>4. Len(SentBy(P, w, m - 1)) = Len(SentBy(P, w, n - 1)) + Len(rest)
    BY <2>2, <2>3
  <2>5. Len(SentBy(P, w, n - 1)) = Len(SentBy(P, w, m - 1)) + Len(T)
    BY <1>3
  <2> HIDE <2>2
  <2> QED BY <1>2, <1>3, <2>3, <2>4, <2>5
<1>5. n \in m + 1 .. Len(P) + 1
  BY <1>4
<1>6. PICK rest \in Seq(Letter) : /\ T = b \o rest
                                  /\ SentBy(P, w, n - 1) = SentBy(P, w, m) \o rest
  BY <1>5, WaitsForWriter
<1> HIDE DEF b
<1>7. SubSeq(T, Len(b) + 1, Len(T)) = rest
  <2>1. Len(T) = Len(b) + Len(rest) /\ Len(rest) \in Nat /\ Len(b) \in Nat
    BY <1>2, <1>6
  <2> DEFINE r == SubSeq(T, Len(b) + 1, Len(T))
  <2>2. \A i \in Len(b) + 1 .. Len(T) : T[i] \in Letter
    BY <2>1
  <2>3. /\ r \in Seq(Letter) /\ Len(r) = Len(rest)
        /\ \A i \in 1 .. Len(rest) : r[i] = T[Len(b) + i]
    <3>1. /\ Len(b) + 1 \in Int /\ Len(T) \in Int
          /\ Len(T) - (Len(b) + 1) + 1 = Len(rest)
          /\ Len(rest) = IF Len(b) + 1 <= Len(T) THEN Len(rest) ELSE 0
          /\ \A i \in 1 .. Len(rest) : Len(b) + 1 + i - 1 = Len(b) + i
      BY <2>1
    <3>2. /\ r \in Seq(Letter)
          /\ Len(r) = IF Len(b) + 1 <= Len(T) THEN Len(T) - (Len(b) + 1) + 1 ELSE 0
          /\ \A i \in 1 .. Len(T) - (Len(b) + 1) + 1 : r[i] = T[Len(b) + 1 + i - 1]
      BY <2>2, <3>1, SubSeqProperties
    <3> HIDE DEF r
    <3> QED BY <3>1, <3>2
  <2>4. ASSUME NEW i \in 1 .. Len(rest) PROVE T[Len(b) + i] = rest[i]
    BY <1>2, <1>6, <2>1
  <2> HIDE DEF r
  <2>5. \A i \in 1 .. Len(r) : r[i] = rest[i]
    BY <2>3, <2>4
  <2>6. r = rest
    BY <2>3, <2>5, SeqEqual
  <2> QED BY <2>6 DEF r
<1> QED BY <1>6, <1>7 DEF b
-----------------------------------------------------------------------------
(* The replay                                                                 *)

(* What the server reads of a client's bytes.                                 *)
Carried(bytes) ==
  IF capture.absolute THEN <<OriginForm[Head(bytes)]>> \o Tail(bytes) ELSE bytes

Matches(c, s) ==
  /\ c.from = s.from
  /\ c.from = "client" => Carried(c.bytes) = s.bytes
  /\ c.from = "server" => c.bytes = s.bytes

(* Both endpoints have the same flows and the same turns.                      *)
PlansMatch ==
  /\ \A role \in Side : plan[role] \in Seq(Seq(PlannedTurn)) /\ ValidFlows(plan[role])
  /\ Len(plan["client"]) = Len(plan["server"])
  /\ \A n \in 1 .. Len(plan["server"]) :
       /\ Len(plan["client"][n]) = Len(plan["server"][n])
       /\ \A m \in 1 .. Len(plan["server"][n]) :
            Matches(plan["client"][n][m], plan["server"][n][m])

(* The flow of this connection, as the server reads and writes it.            *)
Played == plan["server"][flow]

(* What an endpoint has read of what the other sent.                          *)
Has(side) ==
  IF side = "server" /\ played = 0 THEN received
  ELSE SentBy(Played, Other(side), turn[side] - 1)

(* What one end has sent is what the other has read and what is under way.     *)
UnderWay ==
  ~hung => \A side \in Side :
             SentBy(Played, Other(side), turn[Other(side)] - 1) = Has(side) \o transit[side]

ReplayTypes ==
  /\ phase \in {"capturing", "analysed", "replaying", "refused"}
  /\ connections \in 0 .. MaxConnections
  /\ flow \in Nat /\ played \in Nat
  /\ turn \in [Side -> Nat]
  /\ state \in [Side -> {"detect", "play", "done", "failed"}]
  /\ received \in Seq(Letter)
  /\ transit \in [Side -> Seq(Letter)]
  /\ hung \in BOOLEAN /\ disturbed \in BOOLEAN

(* Before the first connection.                                               *)
Idle ==
  /\ flow = 0 /\ played = 0
  /\ \A side \in Side : state[side] = "done"

(* On a connection.                                                           *)
Playing ==
  /\ phase = "replaying" /\ flow \in 1 .. Len(plan["server"])
  /\ \A side \in Side : turn[side] \in 1 .. Len(Played) + 1
  /\ state["client"] # "detect"
  /\ played = 0 => turn["server"] = 1 /\ state["server"] \in {"detect", "failed"}
  /\ played # 0 => played = flow /\ state["server"] # "detect"
  /\ \A side \in Side : state[side] = "done" => turn[side] = Len(Played) + 1
  /\ state["server"] = "detect" =>
       IsPrefix(received, Played[1].bytes) /\ received # Played[1].bytes
  /\ hung => disturbed /\ \A side \in Side : transit[side] = <<>>
  /\ UnderWay

OnlyDisturbedFail == \A side \in Side : state[side] = "failed" => disturbed

ReplayInv ==
  /\ ReplayTypes
  /\ phase = "replaying" => PlansMatch
  /\ IF connections = 0 THEN Idle ELSE Playing
  /\ OnlyDisturbedFail

LEMMA PlayedTurns ==
  ASSUME ReplayInv, connections # 0
  PROVE  /\ PlansMatch /\ flow \in 1 .. Len(plan["server"])
         /\ Played \in Seq(PlannedTurn) /\ Len(Played) \in Nat \ {0}
         /\ Played[1].from = "client" /\ Len(Played[1].bytes) \in Nat \ {0}
         /\ Played[1].bytes \in Seq(Letter)
<1>1. Playing /\ PlansMatch
  BY DEF ReplayInv, Playing
<1>2. flow \in 1 .. Len(plan["server"])
  BY <1>1 DEF Playing
<1> DEFINE S == Seq(PlannedTurn)
<1>3. plan["server"] \in Seq(S) /\ ValidFlows(plan["server"])
  BY <1>1 DEF PlansMatch, Side
<1> HIDE DEF S
<1>4. Played \in S
  BY <1>2, <1>3 DEF Played
<1> USE DEF S
<1>5. StartsWithClient(Played)
  BY <1>2, <1>3 DEF ValidFlows, Played
<1>6. Played # <<>> /\ Played[1].from = "client"
  BY <1>5 DEF StartsWithClient
<1>7. Len(Played) \in Nat \ {0} /\ 1 \in 1 .. Len(Played)
  BY <1>4, <1>6
<1>8. Len(Played[1].bytes) \in Nat \ {0} /\ Played[1].bytes \in Seq(Letter)
  BY <1>4, <1>7, TurnIsPacket
<1> QED BY <1>1, <1>2, <1>4, <1>6, <1>7, <1>8

LEMMA TurnsMatch ==
  ASSUME ReplayInv, connections # 0, NEW side \in Side, state[side] = "play"
  PROVE  /\ Len(Turns(side)) = Len(Played)
         /\ \A m \in 1 .. Len(Played) :
              /\ Turns(side)[m].from = Played[m].from
              /\ Played[m].from # side => Turns(side)[m].bytes = Played[m].bytes
              /\ Played[m].from = side /\ ~hung =>
                   Forwarded(side, Turns(side)[m].bytes) = Played[m].bytes
<1>1. PlansMatch /\ flow \in 1 .. Len(plan["server"]) /\ Playing
  BY PlayedTurns DEF ReplayInv
<1>2. CASE side = "client"
  <2>1. Turns(side) = plan["client"][flow]
    BY <1>2 DEF Turns
  <2>2. /\ Len(plan["client"][flow]) = Len(Played)
        /\ \A m \in 1 .. Len(Played) : Matches(plan["client"][flow][m], Played[m])
    BY <1>1 DEF PlansMatch, Played
  <2>3. ASSUME NEW m \in 1 .. Len(Played)
        PROVE  /\ Turns(side)[m].from = Played[m].from
               /\ Played[m].from # side => Turns(side)[m].bytes = Played[m].bytes
               /\ Played[m].from = side /\ ~hung =>
                    Forwarded(side, Turns(side)[m].bytes) = Played[m].bytes
    <3>1. Matches(Turns(side)[m], Played[m])
      BY <2>1, <2>2, <2>3
    <3>2. Played[m].from \in Side
      BY PlayedTurns, TurnIsPacket
    <3> QED BY <1>2, <3>1, <3>2 DEF Matches, Forwarded, Carried, Side
  <2> QED BY <2>1, <2>2, <2>3
<1>3. CASE side = "server"
  <2>1. played = flow
    BY <1>1, <1>3 DEF Playing
  <2>2. Turns(side) = Played
    BY <1>3, <2>1 DEF Turns, Played
  <2>3. \A bytes : ~hung => Forwarded(side, bytes) = bytes
    BY <1>3 DEF Forwarded
  <2> QED BY <2>2, <2>3
<1> QED BY <1>2, <1>3 DEF Side
-----------------------------------------------------------------------------
(* Prefixes                                                                   *)

LEMMA PrefixOfConcat ==
  ASSUME NEW s \in Seq(Letter), NEW t \in Seq(Letter)
  PROVE  IsPrefix(s, s \o t)
<1>1. /\ s \o t \in Seq(Letter) /\ Len(s \o t) = Len(s) + Len(t)
      /\ Len(s) \in Nat /\ Len(t) \in Nat /\ \A i \in 1 .. Len(s) : (s \o t)[i] = s[i]
  BY ConcatProperties
<1> DEFINE st == s \o t
<1> HIDE DEF st
<1>2. Len(s) <= Len(st) /\ \A i \in 1 .. Len(s) : st[i] = s[i]
  BY <1>1 DEF st
<1>3. SubSeq(s, 1, Len(s)) = [i \in 1 .. Len(s) |-> s[i]]
  BY <1>1
<1>4. SubSeq(st, 1, Len(s)) = [i \in 1 .. Len(s) |-> st[i]]
  BY <1>1, <1>2 DEF st
<1> QED BY <1>2, <1>3, <1>4 DEF IsPrefix, st

LEMMA PrefixIs ==
  ASSUME NEW r \in Seq(Letter), NEW F \in Seq(Letter), IsPrefix(r, F)
  PROVE  \E u \in Seq(Letter) : F = r \o u
<1> DEFINE u == SubSeq(F, Len(r) + 1, Len(F))
<1>1. /\ Len(r) \in Nat /\ Len(F) \in Nat /\ Len(r) <= Len(F)
      /\ SubSeq(r, 1, Len(r)) = SubSeq(F, 1, Len(r))
  BY DEF IsPrefix
<1>2. u \in Seq(Letter)
  <2>1. \A i \in Len(r) + 1 .. Len(F) : F[i] \in Letter
    BY <1>1
  <2> QED BY <1>1, <2>1, SubSeqProperties
<1>3. SubSeq(F, 1, Len(F)) = F /\ SubSeq(r, 1, Len(r)) = r
  BY SubSeqFull
<1>4. SubSeq(F, 1, Len(r)) \o u = SubSeq(F, 1, Len(F))
  <2> DEFINE k == Len(r)
             n == Len(F)
  <2>1. 1 \in 1 .. Len(F) + 1 /\ k \in 1 - 1 .. Len(F) /\ n \in k .. Len(F)
    BY <1>1
  <2> HIDE DEF k, n
  <2>2. SubSeq(F, 1, k) \o SubSeq(F, k + 1, n) = SubSeq(F, 1, n)
    BY <2>1, ConcatAdjacentSubSeq
  <2> QED BY <2>2 DEF k, n
<1> QED BY <1>1, <1>2, <1>3, <1>4

(* A byte more, of a sequence that begins with all of F.                      *)
LEMMA PrefixNext ==
  ASSUME NEW r \in Seq(Letter), NEW F \in Seq(Letter), IsPrefix(r, F), r # F,
         NEW T \in Seq(Letter), T # <<>>, NEW rest \in Seq(Letter), r \o T = F \o rest
  PROVE  /\ Append(r, Head(T)) \in Seq(Letter) /\ Tail(T) \in Seq(Letter)
         /\ IsPrefix(Append(r, Head(T)), F)
         /\ Append(r, Head(T)) \o Tail(T) = r \o T
<1>1. PICK u \in Seq(Letter) : F = r \o u
  BY PrefixIs
<1>2. T = u \o rest
  <2>1. (r \o u) \o rest = r \o (u \o rest) /\ u \o rest \in Seq(Letter)
    BY JoinedBytes, SMTT(90)
  <2>2. r \o T = r \o (u \o rest)
    BY <1>1, <2>1, Zenon
  <2> QED BY <2>1, <2>2, JoinedBytes
<1>3. u # <<>>
  BY <1>1, JoinedBytes
<1>4. \A s \in Seq(Letter) : s # <<>> =>
        /\ Head(s) \in Letter /\ Tail(s) \in Seq(Letter) /\ <<Head(s)>> \in Seq(Letter)
        /\ s = <<Head(s)>> \o Tail(s) /\ Append(r, Head(s)) = r \o <<Head(s)>>
  <2> TAKE s \in Seq(Letter)
  <2> HAVE s # <<>>
  <2>1. Head(s) \in Letter /\ Tail(s) \in Seq(Letter)
    BY HeadTailProperties
  <2>2. s = <<Head(s)>> \o Tail(s)
    OBVIOUS
  <2>3. Append(r, Head(s)) = r \o <<Head(s)>>
    BY <2>1, AppendIsConcat
  <2> QED BY <2>1, <2>2, <2>3
<1>5. Head(T) = Head(u)
  <2>1. Len(u) \in Nat \ {0} /\ T[1] = u[1]
    BY <1>2, <1>3
  <2>2. Head(T) = T[1] /\ Head(u) = u[1]
    OBVIOUS
  <2> QED BY <2>1, <2>2
<1> DEFINE h == <<Head(T)>>
           tt == Tail(T)
           tu == Tail(u)
<1>6. /\ h \in Seq(Letter) /\ tt \in Seq(Letter) /\ tu \in Seq(Letter)
      /\ T = h \o tt /\ u = h \o tu /\ Append(r, Head(T)) = r \o h
  BY <1>3, <1>4, <1>5
<1> HIDE DEF h, tt, tu
<1>7. (r \o h) \o tt = r \o (h \o tt) /\ (r \o h) \o tu = r \o (h \o tu) /\ r \o h \in Seq(Letter)
  <2>1. r \in Seq(Letter) /\ h \in Seq(Letter) /\ tt \in Seq(Letter) /\ tu \in Seq(Letter)
    BY <1>6
  <2>2. \A x, y, z \in Seq(Letter) : (x \o y) \o z = x \o (y \o z)
    BY JoinedBytes
  <2>3. (r \o h) \o tt = r \o (h \o tt)
    BY <2>1, <2>2, ZenonT(90)
  <2>4. (r \o h) \o tu = r \o (h \o tu)
    BY <2>1, <2>2, ZenonT(90)
  <2>5. r \o h \in Seq(Letter)
    BY <2>1, JoinedBytes
  <2> QED BY <2>3, <2>4, <2>5
<1>8. IsPrefix(r \o h, F)
  BY <1>1, <1>6, <1>7, PrefixOfConcat
<1> QED BY <1>6, <1>7, <1>8 DEF tt

(* A prefix of full length.                                                   *)
LEMMA PrefixAll ==
  ASSUME NEW r \in Seq(Letter), NEW F \in Seq(Letter), IsPrefix(r, F)
  PROVE  /\ Len(r) = Len(F) => r = F
         /\ r # F => Len(r) < Len(F)
<1>1. PICK u \in Seq(Letter) : F = r \o u
  BY PrefixIs
<1>2. Len(F) = Len(r) + Len(u) /\ Len(r) \in Nat /\ Len(u) \in Nat
  BY <1>1, JoinedBytes
<1>3. Len(u) = 0 => u = <<>>
  OBVIOUS
<1>4. u = <<>> => F = r
  BY <1>1, JoinedBytes
<1> QED BY <1>2, <1>3, <1>4
-----------------------------------------------------------------------------
(* The steps of a connection                                                  *)

LEMMA Sides ==
  /\ Side = {"client", "server"}
  /\ \A s \in Side : Other(s) \in Side /\ Other(s) # s /\ Other(Other(s)) = s
  /\ \A s, t \in Side : t # s => t = Other(s)
BY DEF Side, Other

LEMMA PlansStay ==
  ASSUME PlansMatch, UNCHANGED <<capture, plan>>
  PROVE  PlansMatch'
BY ZenonT(90) DEF PlansMatch, ValidFlows, StartsWithClient, Matches, Carried, PlannedTurn, Side

LEMMA ConnectionKeeps ==
  ASSUME ReplayInv, connections # 0, Connection
  PROVE  /\ ReplayTypes /\ Playing /\ UnderWay /\ OnlyDisturbedFail
         /\ PlansMatch' /\ Played' = Played
         /\ UNCHANGED <<phase, connections, flow, plan, capture>>
<1>1. ReplayTypes /\ Playing /\ UnderWay /\ OnlyDisturbedFail /\ PlansMatch
  BY PlayedTurns DEF ReplayInv, Playing
<1>2. UNCHANGED <<phase, connections, flow, plan, capture>>
  BY DEF Connection, Replaying, captureVars, planVars
<1>3. PlansMatch'
  BY <1>1, <1>2, PlansStay
<1>4. Played' = Played
  BY <1>2 DEF Played
<1> QED BY <1>1, <1>2, <1>3, <1>4

(* A connection goes on if what its steps change is right again.              *)
LEMMA GoesOn ==
  ASSUME ReplayInv, connections # 0, Connection,
         turn' \in [Side -> Nat],
         state' \in [Side -> {"detect", "play", "done", "failed"}],
         played' \in Nat, received' \in Seq(Letter), transit' \in [Side -> Seq(Letter)],
         hung' \in BOOLEAN, disturbed' \in BOOLEAN,
         \A side \in Side : turn'[side] \in 1 .. Len(Played) + 1,
         state'["client"] # "detect",
         played' = 0 => turn'["server"] = 1 /\ state'["server"] \in {"detect", "failed"},
         played' # 0 => played' = flow /\ state'["server"] # "detect",
         \A side \in Side : state'[side] = "done" => turn'[side] = Len(Played) + 1,
         state'["server"] = "detect" =>
           IsPrefix(received', Played[1].bytes) /\ received' # Played[1].bytes,
         hung' => disturbed' /\ \A side \in Side : transit'[side] = <<>>,
         UnderWay', OnlyDisturbedFail'
  PROVE  ReplayInv'
<1>1. /\ ReplayTypes /\ Playing /\ PlansMatch' /\ Played' = Played
      /\ UNCHANGED <<phase, connections, flow, plan, capture>>
  BY ConnectionKeeps
<1>2. ReplayTypes'
  BY <1>1 DEF ReplayTypes
<1>3. Playing'
  BY <1>1 DEF Playing
<1> QED BY <1>1, <1>2, <1>3 DEF ReplayInv

(* What an endpoint has read, but for the server before it knows the flow.    *)
LEMMA HasRead ==
  ASSUME ReplayInv, connections # 0, NEW side \in Side, state[side] \in {"play", "done"}
  PROVE  Has(side) = SentBy(Played, Other(side), turn[side] - 1)
<1>1. Playing
  BY DEF ReplayInv
<1>2. CASE side = "client"
  BY <1>2 DEF Has
<1>3. CASE side = "server"
  <2>1. played # 0
    BY <1>1, <1>3 DEF Playing
  <2> QED BY <1>3, <2>1 DEF Has
<1> QED BY <1>2, <1>3 DEF Side

(* The turn that an endpoint is at.                                           *)
LEMMA TurnIsPlayed ==
  ASSUME ReplayInv, connections # 0, NEW side \in Side, AtTurn(side)
  PROVE  /\ turn[side] \in 1 .. Len(Played)
         /\ Turn(side).from = Played[turn[side]].from
         /\ Turn(side).from # side =>
              Turn(side).from = Other(side) /\ Turn(side).bytes = Played[turn[side]].bytes
         /\ Turn(side).from = side /\ ~hung =>
              Forwarded(side, Turn(side).bytes) = Played[turn[side]].bytes
         /\ Played[turn[side]].bytes \in Seq(Letter)
         /\ Len(Played[turn[side]].bytes) \in Nat \ {0}
         /\ Has(side) = SentBy(Played, Other(side), turn[side] - 1)
<1> DEFINE m == turn[side]
<1>1. state[side] = "play" /\ m <= Len(Turns(side))
  BY DEF AtTurn
<1>2. Playing /\ Played \in Seq(PlannedTurn) /\ Len(Played) \in Nat \ {0}
  BY PlayedTurns DEF ReplayInv
<1>3. m \in 1 .. Len(Played) + 1
  BY <1>2 DEF Playing
<1>4. Len(Turns(side)) = Len(Played)
  BY <1>1, TurnsMatch
<1>5. m \in 1 .. Len(Played)
  BY <1>1, <1>2, <1>3, <1>4
<1>6. Played[m].from \in Side /\ Played[m].bytes \in Seq(Letter) /\ Len(Played[m].bytes) \in Nat \ {0}
  BY <1>2, <1>5, TurnIsPacket
<1>7. /\ Turn(side).from = Played[m].from
      /\ Played[m].from # side => Turn(side).bytes = Played[m].bytes
      /\ Played[m].from = side /\ ~hung => Forwarded(side, Turn(side).bytes) = Played[m].bytes
  BY <1>1, <1>5, TurnsMatch DEF Turn
<1>8. Has(side) = SentBy(Played, Other(side), m - 1)
  BY <1>1, HasRead
<1>9. Played[m].from # side => Played[m].from = Other(side)
  BY <1>6, Sides
<1> HIDE DEF m
<1> QED BY <1>5, <1>6, <1>7, <1>8, <1>9 DEF m
LEMMA WriteStep ==
  ASSUME ReplayInv, connections # 0, NEW side \in Side, Write(side)
  PROVE  ReplayInv'
<1> DEFINE n == turn[side]
           to == Other(side)
           sent == Forwarded(side, Turn(side).bytes)
           b == Played[n].bytes
<1>1. Connection /\ AtTurn(side) /\ Turn(side).from = side
  BY DEF Write
<1>2. /\ turn' = [turn EXCEPT ![side] = n + 1]
      /\ transit' = [transit EXCEPT ![to] = @ \o sent]
      /\ UNCHANGED <<state, played, received, hung, disturbed>>
  BY DEF Write
<1>3. /\ ReplayTypes /\ Playing /\ UnderWay /\ OnlyDisturbedFail /\ Played' = Played
      /\ Played \in Seq(PlannedTurn) /\ Len(Played) \in Nat
  BY <1>1, ConnectionKeeps, PlayedTurns
<1>4. /\ n \in 1 .. Len(Played) /\ Played[n].from = side
      /\ ~hung => sent = b
      /\ b \in Seq(Letter)
      /\ Has(side) = SentBy(Played, to, n - 1)
  BY <1>1, TurnIsPlayed
<1>5. state[side] = "play" /\ state[side] # "detect"
  BY <1>1 DEF AtTurn
<1>6. to \in Side /\ to # side /\ Other(to) = side /\ \A s \in Side : s = side \/ s = to
  BY Sides
<1>7. hung => sent = <<>>
  BY DEF Forwarded
<1>8. sent \in Seq(Letter)
  <2>1. CASE hung
    <3>1. <<>> \in Seq(Letter)
      OBVIOUS
    <3> QED BY <1>7, <2>1, <3>1, Zenon
  <2>2. CASE ~hung
    BY <1>4, <2>2
  <2> QED BY <2>1, <2>2
<1>9. /\ turn \in [Side -> Nat] /\ transit \in [Side -> Seq(Letter)]
      /\ turn[to] \in 1 .. Len(Played) + 1
  BY <1>3, <1>6 DEF ReplayTypes, Playing
<1> HIDE DEF n, to, sent, b
<1>10. /\ turn' \in [Side -> Nat] /\ turn'[side] = n + 1 /\ turn'[to] = turn[to]
  BY <1>2, <1>4, <1>6, <1>9
<1>11. /\ transit' \in [Side -> Seq(Letter)] /\ transit'[side] = transit[side]
       /\ transit'[to] = transit[to] \o sent
  <2>1. transit[to] \o sent \in Seq(Letter)
    BY <1>6, <1>8, <1>9, JoinedBytes
  <2> QED BY <1>2, <1>6, <1>9, <2>1
<1>12. \A s \in Side : turn'[s] \in 1 .. Len(Played) + 1
  <2>1. n + 1 \in 1 .. Len(Played) + 1
    BY <1>3, <1>4
  <2>2. turn'[side] \in 1 .. Len(Played) + 1 /\ turn'[to] \in 1 .. Len(Played) + 1
    BY <1>9, <1>10, <2>1
  <2> QED BY <1>6, <2>2, Zenon
<1>13. played' = 0 => turn'["server"] = 1 /\ state'["server"] \in {"detect", "failed"}
  <2> SUFFICES ASSUME played = 0
               PROVE turn'["server"] = 1 /\ state'["server"] \in {"detect", "failed"}
    BY <1>2
  <2>1. turn["server"] = 1 /\ state["server"] \in {"detect", "failed"}
    BY <1>3 DEF Playing
  <2>2. side # "server"
    BY <1>5, <2>1
  <2>3. "server" \in Side
    BY DEF Side
  <2> QED BY <1>2, <1>6, <1>10, <2>1, <2>2, <2>3
<1>14. \A s \in Side : state'[s] = "done" => turn'[s] = Len(Played) + 1
  BY <1>2, <1>3, <1>5, <1>6, <1>10 DEF Playing
<1>15. hung' => disturbed' /\ \A s \in Side : transit'[s] = <<>>
  <2> SUFFICES ASSUME hung PROVE disturbed' /\ \A s \in Side : transit'[s] = <<>>
    BY <1>2
  <2>1. disturbed /\ \A s \in Side : transit[s] = <<>>
    BY <1>3 DEF Playing
  <2>2. transit[to] \o sent = <<>>
    BY <1>6, <1>7, <2>1
  <2> QED BY <1>2, <1>6, <1>11, <2>1, <2>2
<1>16. UnderWay'
  <2> SUFFICES ASSUME ~hung, NEW s \in Side
               PROVE  SentBy(Played, Other(s), turn'[Other(s)] - 1) = Has(s)' \o transit'[s]
    BY <1>2, <1>3 DEF UnderWay
  <2>1. SentBy(Played, Other(s), turn[Other(s)] - 1) = Has(s) \o transit[s]
    BY <1>3 DEF UnderWay
  <2>2. CASE s = to
    <3>1. Has(s)' = Has(s)
      BY <1>2, <1>3, <1>6, <1>10, <2>2 DEF Has
    <3>2. /\ SentBy(Played, side, n) = SentBy(Played, side, n - 1) \o b
          /\ SentBy(Played, side, n - 1) \in Seq(Letter)
      BY <1>3, <1>4, WritesOn DEF b
    <3>3. SentBy(Played, side, n - 1) = Has(s) \o transit[s]
      BY <1>6, <2>1, <2>2 DEF n
    <3>4. Has(s) \in Seq(Letter)
      <4>1. turn[s] - 1 \in 0 .. Len(Played)
        BY <1>3, <1>9, <2>2
      <4> QED BY <1>3, <4>1, SentType, TurnIsPacket DEF Has, ReplayTypes
    <3>5. transit[s] \in Seq(Letter)
      BY <1>9
    <3>6. (Has(s) \o transit[s]) \o b = Has(s) \o (transit[s] \o b)
      <4> DEFINE h == Has(s)
                 t == transit[s]
      <4>1. h \in Seq(Letter) /\ t \in Seq(Letter) /\ b \in Seq(Letter)
        BY <1>4, <3>4, <3>5
      <4>2. \A x, y, z \in Seq(Letter) : (x \o y) \o z = x \o (y \o z)
        BY JoinedBytes
      <4> HIDE DEF h, t
      <4>3. (h \o t) \o b = h \o (t \o b)
        BY <4>1, <4>2, Zenon
      <4> QED BY <4>3 DEF h, t
    <3>7. turn'[Other(s)] - 1 = n
      BY <1>4, <1>6, <1>10, <2>2
    <3>8. transit'[s] = transit[s] \o b
      BY <1>4, <1>11, <2>2
    <3> QED BY <1>6, <2>2, <3>1, <3>2, <3>3, <3>6, <3>7, <3>8
  <2>3. CASE s = side
    <3>1. Has(s)' = SentBy(Played, to, (n + 1) - 1)
      <4>1. ~(side = "server" /\ played = 0)
        BY <1>3, <1>5 DEF Playing
      <4> QED BY <1>2, <1>3, <1>10, <2>3, <4>1 DEF Has, to
    <3>2. (n + 1) - 1 = n
      BY <1>4
    <3>3. SentBy(Played, to, n) = SentBy(Played, to, n - 1)
      BY <1>3, <1>4, <1>6, WritesOn
    <3>4. Has(s) = SentBy(Played, to, n - 1)
      BY <1>4, <2>3
    <3> QED BY <1>10, <1>11, <2>1, <2>3, <3>1, <3>2, <3>3, <3>4 DEF to
  <2> QED BY <1>6, <2>2, <2>3
<1>17. /\ state'["client"] # "detect"
       /\ played' # 0 => played' = flow /\ state'["server"] # "detect"
       /\ state'["server"] = "detect" =>
            IsPrefix(received', Played[1].bytes) /\ received' # Played[1].bytes
  BY <1>2, <1>3 DEF Playing
<1>18. OnlyDisturbedFail'
  BY <1>2, <1>3 DEF OnlyDisturbedFail
<1>19. /\ state' \in [Side -> {"detect", "play", "done", "failed"}]
       /\ played' \in Nat /\ received' \in Seq(Letter)
       /\ hung' \in BOOLEAN /\ disturbed' \in BOOLEAN
  BY <1>2, <1>3 DEF ReplayTypes
<1> QED BY <1>1, <1>10, <1>11, <1>12, <1>13, <1>14, <1>15, <1>16, <1>17, <1>18, <1>19, GoesOn
LEMMA ReadStep ==
  ASSUME ReplayInv, connections # 0, NEW side \in Side, Read(side)
  PROVE  ReplayInv'
<1> DEFINE m == turn[side]
           to == Other(side)
           b == Played[m].bytes
           T == transit[side]
           left == SubSeq(T, Len(b) + 1, Len(T))
<1>1. Connection /\ AtTurn(side) /\ Turn(side).from # side
  BY DEF Read
<1>3. /\ ReplayTypes /\ Playing /\ UnderWay /\ OnlyDisturbedFail /\ Played' = Played
      /\ Played \in Seq(PlannedTurn) /\ Len(Played) \in Nat
  BY <1>1, ConnectionKeeps, PlayedTurns
<1>4. /\ m \in 1 .. Len(Played) /\ Played[m].from = to
      /\ Turn(side).bytes = b
      /\ b \in Seq(Letter) /\ Len(b) \in Nat \ {0}
      /\ Has(side) = SentBy(Played, to, m - 1)
  BY <1>1, TurnIsPlayed
<1>2. /\ turn' = [turn EXCEPT ![side] = m + 1]
      /\ transit' = [transit EXCEPT ![side] = left]
      /\ Len(T) >= Len(b)
      /\ UNCHANGED <<state, played, received, hung, disturbed>>
  BY <1>4 DEF Read
<1>5. state[side] = "play" /\ state[side] # "detect"
  BY <1>1 DEF AtTurn
<1>6. to \in Side /\ to # side /\ Other(to) = side /\ \A s \in Side : s = side \/ s = to
  BY Sides
<1>9. /\ turn \in [Side -> Nat] /\ transit \in [Side -> Seq(Letter)] /\ T \in Seq(Letter)
      /\ turn[to] \in 1 .. Len(Played) + 1
  BY <1>3, <1>6 DEF ReplayTypes, Playing
<1>7. ~hung
  <2> SUFFICES ASSUME hung PROVE FALSE
    OBVIOUS
  <2>1. T = <<>>
    BY <1>3 DEF Playing
  <2>2. Len(T) = 0
    BY <2>1
  <2> HIDE DEF T, b
  <2> QED BY <1>2, <1>4, <2>2
<1>8. /\ left \in Seq(Letter)
      /\ SentBy(Played, to, turn[to] - 1) = SentBy(Played, to, m) \o left
  <2>1. SentBy(Played, to, turn[to] - 1) = SentBy(Played, to, m - 1) \o T
    BY <1>3, <1>4, <1>7 DEF UnderWay
  <2> DEFINE n == turn[to]
  <2>2. n \in 1 .. Len(Played) + 1 /\ SentBy(Played, to, n - 1) = SentBy(Played, to, m - 1) \o T
    BY <1>9, <2>1
  <2>3. /\ Played \in Seq(PlannedTurn) /\ to \in Side /\ m \in 1 .. Len(Played)
        /\ T \in Seq(Letter) /\ Played[m].from = to /\ Len(T) >= Len(Played[m].bytes)
    BY <1>2, <1>3, <1>4, <1>6, <1>9
  <2> HIDE DEF n, m, T, to
  <2>4. /\ SubSeq(T, Len(Played[m].bytes) + 1, Len(T)) \in Seq(Letter)
        /\ SentBy(Played, to, n - 1) =
             SentBy(Played, to, m) \o SubSeq(T, Len(Played[m].bytes) + 1, Len(T))
    BY <2>2, <2>3, ReadsOn
  <2> QED BY <2>4 DEF n
<1> HIDE DEF m, to, b, T, left
<1>10. /\ turn' \in [Side -> Nat] /\ turn'[side] = m + 1 /\ turn'[to] = turn[to]
  BY <1>2, <1>4, <1>6, <1>9
<1>11. /\ transit' \in [Side -> Seq(Letter)] /\ transit'[side] = left
       /\ transit'[to] = transit[to]
  BY <1>2, <1>6, <1>8, <1>9
<1>12. \A s \in Side : turn'[s] \in 1 .. Len(Played) + 1
  <2>1. m + 1 \in 1 .. Len(Played) + 1
    BY <1>3, <1>4
  <2>2. turn'[side] \in 1 .. Len(Played) + 1 /\ turn'[to] \in 1 .. Len(Played) + 1
    BY <1>9, <1>10, <2>1
  <2> QED BY <1>6, <2>2, Zenon
<1>13. played' = 0 => turn'["server"] = 1 /\ state'["server"] \in {"detect", "failed"}
  <2> SUFFICES ASSUME played = 0
               PROVE turn'["server"] = 1 /\ state'["server"] \in {"detect", "failed"}
    BY <1>2
  <2>1. turn["server"] = 1 /\ state["server"] \in {"detect", "failed"}
    BY <1>3 DEF Playing
  <2>2. side # "server"
    BY <1>5, <2>1
  <2>3. "server" \in Side
    BY DEF Side
  <2> QED BY <1>2, <1>6, <1>10, <2>1, <2>2, <2>3
<1>14. \A s \in Side : state'[s] = "done" => turn'[s] = Len(Played) + 1
  BY <1>2, <1>3, <1>5, <1>6, <1>10 DEF Playing
<1>16. UnderWay'
  <2> SUFFICES ASSUME NEW s \in Side
               PROVE  SentBy(Played, Other(s), turn'[Other(s)] - 1) = Has(s)' \o transit'[s]
    BY <1>2, <1>3 DEF UnderWay
  <2>2. CASE s = to
    <3>1. Has(s)' = Has(s)
      BY <1>2, <1>3, <1>6, <1>10, <2>2 DEF Has
    <3>2. SentBy(Played, side, m) = SentBy(Played, side, m - 1)
      BY <1>3, <1>4, <1>6, WritesOn
    <3>3. SentBy(Played, side, m - 1) = Has(s) \o transit[s]
      BY <1>3, <1>6, <1>7, <2>2 DEF m, UnderWay
    <3>4. (m + 1) - 1 = m
      BY <1>4
    <3> QED BY <1>6, <1>10, <1>11, <2>2, <3>1, <3>2, <3>3, <3>4
  <2>3. CASE s = side
    <3>1. Has(s)' = SentBy(Played, to, (m + 1) - 1)
      <4>1. ~(side = "server" /\ played = 0)
        BY <1>3, <1>5 DEF Playing
      <4> QED BY <1>2, <1>3, <1>10, <2>3, <4>1 DEF Has, to
    <3>2. (m + 1) - 1 = m
      BY <1>4
    <3> QED BY <1>8, <1>10, <1>11, <2>3, <3>1, <3>2 DEF to
  <2> QED BY <1>6, <2>2, <2>3
<1>17. /\ state'["client"] # "detect"
       /\ played' # 0 => played' = flow /\ state'["server"] # "detect"
       /\ state'["server"] = "detect" =>
            IsPrefix(received', Played[1].bytes) /\ received' # Played[1].bytes
       /\ ~hung'
  BY <1>2, <1>3, <1>7 DEF Playing
<1>18. OnlyDisturbedFail'
  BY <1>2, <1>3 DEF OnlyDisturbedFail
<1>19. /\ state' \in [Side -> {"detect", "play", "done", "failed"}]
       /\ played' \in Nat /\ received' \in Seq(Letter)
       /\ hung' \in BOOLEAN /\ disturbed' \in BOOLEAN
  BY <1>2, <1>3 DEF ReplayTypes
<1> QED BY <1>1, <1>10, <1>11, <1>12, <1>13, <1>14, <1>16, <1>17, <1>18, <1>19, GoesOn

(* A step that changes only the state of an endpoint.                         *)
LEMMA StateStep ==
  ASSUME ReplayInv, connections # 0, NEW side \in Side, Connection,
         NEW is \in {"done", "failed"}, state' = [state EXCEPT ![side] = is],
         UNCHANGED <<turn, played, received, transit, hung>>,
         disturbed' \in BOOLEAN, disturbed => disturbed',
         is = "done" => turn[side] = Len(Played) + 1 /\ state[side] = "play",
         is = "failed" => disturbed'
  PROVE  ReplayInv'
<1>1. ReplayTypes /\ Playing /\ UnderWay /\ OnlyDisturbedFail /\ Played' = Played
  BY ConnectionKeeps
<1>2. /\ state' \in [Side -> {"detect", "play", "done", "failed"}]
      /\ \A s \in Side : IF s = side THEN state'[s] = is ELSE state'[s] = state[s]
  BY <1>1 DEF ReplayTypes
<1>3. \A s \in Side : state'[s] = "done" => turn'[s] = Len(Played) + 1
  BY <1>1, <1>2 DEF Playing
<1>4. played' = 0 => turn'["server"] = 1 /\ state'["server"] \in {"detect", "failed"}
  <2> SUFFICES ASSUME played = 0 PROVE turn["server"] = 1 /\ state'["server"] \in {"detect", "failed"}
    OBVIOUS
  <2>1. turn["server"] = 1 /\ state["server"] \in {"detect", "failed"} /\ "server" \in Side
    BY <1>1 DEF Playing, Side
  <2> QED BY <1>2, <2>1
<1>5. /\ state'["client"] # "detect"
      /\ played' # 0 => played' = flow /\ state'["server"] # "detect"
      /\ state'["server"] = "detect" => state["server"] = "detect"
  <2>1. "client" \in Side /\ "server" \in Side
    BY DEF Side
  <2> QED BY <1>1, <1>2, <2>1 DEF Playing
<1>6. state'["server"] = "detect" =>
        IsPrefix(received', Played[1].bytes) /\ received' # Played[1].bytes
  BY <1>1, <1>5 DEF Playing
<1>7. UnderWay'
  <2>1. \A s \in Side : Has(s)' = Has(s)
    BY <1>1 DEF Has
  <2> QED BY <1>1, <2>1 DEF UnderWay
<1>8. OnlyDisturbedFail'
  BY <1>1, <1>2 DEF OnlyDisturbedFail
<1>9. /\ turn' \in [Side -> Nat] /\ played' \in Nat /\ received' \in Seq(Letter)
      /\ transit' \in [Side -> Seq(Letter)] /\ hung' \in BOOLEAN
      /\ \A s \in Side : turn'[s] \in 1 .. Len(Played) + 1
      /\ hung' => disturbed' /\ \A s \in Side : transit'[s] = <<>>
  BY <1>1 DEF ReplayTypes, Playing
<1> QED BY <1>2, <1>3, <1>4, <1>5, <1>6, <1>7, <1>8, <1>9, GoesOn

LEMMA FinishStep ==
  ASSUME ReplayInv, connections # 0, NEW side \in Side, Finish(side)
  PROVE  ReplayInv'
<1>1. /\ Connection /\ state[side] = "play" /\ turn[side] > Len(Turns(side))
      /\ state' = [state EXCEPT ![side] = "done"]
      /\ UNCHANGED <<turn, played, received, transit, hung, disturbed>>
  BY DEF Finish
<1>2. Len(Turns(side)) = Len(Played)
  BY <1>1, TurnsMatch
<1>3. turn[side] \in 1 .. Len(Played) + 1 /\ Len(Played) \in Nat /\ disturbed \in BOOLEAN
  BY <1>1, ConnectionKeeps, PlayedTurns DEF Playing, ReplayTypes
<1>4. turn[side] = Len(Played) + 1
  BY <1>1, <1>2, <1>3
<1> QED BY <1>1, <1>3, <1>4, StateStep
-----------------------------------------------------------------------------
(* No end waits for an end that is done, or that waits itself: an end that     *)
(* waits is at a turn of the other, which is not further than it.              *)

LEMMA ServerDetects ==
  ASSUME ReplayInv, connections # 0, state["server"] = "detect", ~hung
  PROVE  /\ played = 0 /\ turn["server"] = 1 /\ Has("server") = received
         /\ IsPrefix(received, Played[1].bytes) /\ received # Played[1].bytes
         /\ received \in Seq(Letter) /\ transit["server"] \in Seq(Letter)
         /\ SentBy(Played, "client", turn["client"] - 1) = received \o transit["server"]
         /\ turn["client"] > 1 =>
              \E rest \in Seq(Letter) :
                SentBy(Played, "client", turn["client"] - 1) = Played[1].bytes \o rest
<1>1. Playing /\ UnderWay /\ ReplayTypes /\ Played \in Seq(PlannedTurn) /\ Len(Played) \in Nat \ {0}
  BY PlayedTurns DEF ReplayInv, Playing
<1>2. played = 0 /\ turn["server"] = 1
  BY <1>1 DEF Playing
<1>3. Has("server") = received
  BY <1>2 DEF Has
<1>4. IsPrefix(received, Played[1].bytes) /\ received # Played[1].bytes
  BY <1>1 DEF Playing
<1>5. "server" \in Side /\ "client" \in Side /\ Other("server") = "client"
  BY DEF Side, Other
<1>6. received \in Seq(Letter) /\ transit["server"] \in Seq(Letter)
  BY <1>1, <1>5 DEF ReplayTypes
<1>7. SentBy(Played, "client", turn["client"] - 1) = received \o transit["server"]
  BY <1>1, <1>3, <1>5 DEF UnderWay
<1>8. ASSUME turn["client"] > 1
      PROVE  \E rest \in Seq(Letter) :
               SentBy(Played, "client", turn["client"] - 1) = Played[1].bytes \o rest
  <2> DEFINE n == turn["client"] - 1
  <2>1. turn["client"] \in 1 .. Len(Played) + 1
    BY <1>1, <1>5 DEF Playing
  <2>2. n \in Nat /\ 1 <= n /\ n <= Len(Played)
    BY <1>1, <1>8, <2>1
  <2> HIDE DEF n
  <2>3. PICK rest \in Seq(Letter) : SentBy(Played, "client", n) = SentBy(Played, "client", 1) \o rest
    <3> DEFINE one == 1
               P == Played
    <3>1. P \in Seq(Packet) /\ one \in Nat /\ n \in Nat /\ one <= n /\ n <= Len(P)
      BY <1>1, <2>2, TurnIsPacket
    <3> HIDE DEF one, P
    <3>2. \E rest \in Seq(Letter) : SentBy(P, "client", n) = SentBy(P, "client", one) \o rest
      BY ZenonT(90), <3>1, SentGrows
    <3> QED BY <3>2 DEF one, P
  <2>4. SentBy(Played, "client", 1) = Played[1].bytes
    <3>1. Played[1].from = "client" /\ Played[1].bytes \in Seq(Letter)
      BY PlayedTurns
    <3>2. SentBy(Played, "client", 0) = <<>>
      BY SentNone
    <3>3. 1 \in 1 .. Len(Played)
      BY <1>1
    <3>4. SentBy(Played, "client", 1) = SentBy(Played, "client", 1 - 1) \o Played[1].bytes
      BY <1>1, <1>5, <3>1, <3>3, WritesOn
    <3>5. 1 - 1 = 0
      OBVIOUS
    <3>6. SentBy(Played, "client", 1) = <<>> \o Played[1].bytes
      BY <3>2, <3>4, <3>5, Zenon
    <3> QED BY <3>1, <3>6, JoinedBytes
  <2> QED BY <2>3, <2>4 DEF n
<1> QED BY <1>2, <1>3, <1>4, <1>6, <1>7, <1>8

LEMMA WaitsForOther ==
  ASSUME ReplayInv, connections # 0, NEW side \in Side, Waits(side), ~hung
  PROVE  /\ turn[side] \in 1 .. Len(Played)
         /\ Played[turn[side]].from = Other(side)
         /\ turn[Other(side)] \in Nat /\ turn[Other(side)] <= turn[side]
<1> DEFINE to == Other(side)
<1>1. /\ Playing /\ UnderWay /\ ReplayTypes
      /\ Played \in Seq(PlannedTurn) /\ Len(Played) \in Nat \ {0} /\ Played[1].from = "client"
  BY PlayedTurns DEF ReplayInv, Playing
<1>2. to \in Side /\ to # side /\ turn[to] \in 1 .. Len(Played) + 1 /\ turn[side] \in Nat
  BY <1>1, Sides DEF Playing, ReplayTypes
<1>3. CASE state[side] = "detect" /\ transit[side] = <<>>
  <2>1. side = "server" /\ to = "client"
    BY <1>1, <1>3 DEF Playing, Side, Other
  <2>2. /\ turn["server"] = 1 /\ received \in Seq(Letter)
        /\ IsPrefix(received, Played[1].bytes) /\ received # Played[1].bytes
        /\ SentBy(Played, "client", turn["client"] - 1) = received \o transit["server"]
        /\ turn["client"] > 1 =>
             \E rest \in Seq(Letter) :
               SentBy(Played, "client", turn["client"] - 1) = Played[1].bytes \o rest
    BY <1>3, <2>1, ServerDetects
  <2>3. SentBy(Played, "client", turn["client"] - 1) = received
    BY <1>3, <2>1, <2>2, JoinedBytes
  <2>4. ASSUME turn["client"] > 1 PROVE FALSE
    <3>1. PICK rest \in Seq(Letter) : received = Played[1].bytes \o rest
      BY <2>2, <2>3, <2>4
    <3>2. Played[1].bytes \in Seq(Letter)
      BY PlayedTurns
    <3>3. Len(received) = Len(Played[1].bytes) + Len(rest)
      BY <3>1, <3>2, JoinedBytes
    <3>4. Len(received) < Len(Played[1].bytes)
      BY <2>2, <3>2, PrefixAll
    <3>5. Len(rest) \in Nat /\ Len(received) \in Nat /\ Len(Played[1].bytes) \in Nat
      BY <2>2, <3>2
    <3> QED BY <3>3, <3>4, <3>5
  <2>5. turn["client"] <= 1
    BY <1>2, <2>1, <2>4
  <2> QED BY <1>1, <1>2, <2>1, <2>2, <2>5
<1>4. CASE AtTurn(side) /\ Turn(side).from # side /\ Len(transit[side]) < Len(Turn(side).bytes)
  <2> DEFINE m == turn[side]
             n == turn[to]
             T == transit[side]
  <2>1. /\ m \in 1 .. Len(Played) /\ Played[m].from = to
        /\ Len(T) < Len(Played[m].bytes)
        /\ Played[m].bytes \in Seq(Letter) /\ Len(Played[m].bytes) \in Nat
        /\ Has(side) = SentBy(Played, to, m - 1)
    BY <1>4, TurnIsPlayed
  <2>2. T \in Seq(Letter) /\ Len(T) \in Nat
    BY <1>1 DEF ReplayTypes
  <2>3. SentBy(Played, to, n - 1) = SentBy(Played, to, m - 1) \o T
    BY <1>1, <2>1 DEF UnderWay
  <2>4. n \in 1 .. Len(Played) + 1
    BY <1>2
  <2>5. ASSUME n > m PROVE FALSE
    <3> HIDE DEF n, m, T, to
    <3>1. n \in m + 1 .. Len(Played) + 1
      BY <2>1, <2>4, <2>5
    <3>2. PICK rest \in Seq(Letter) : T = Played[m].bytes \o rest
      <4>1. /\ Played \in Seq(PlannedTurn) /\ to \in Side /\ m \in 1 .. Len(Played)
            /\ T \in Seq(Letter) /\ Played[m].from = to
        BY <1>1, <1>2, <2>1, <2>2
      <4> QED BY <2>3, <3>1, <4>1, WaitsForWriter
    <3>3. Len(T) = Len(Played[m].bytes) + Len(rest) /\ Len(rest) \in Nat
      BY <2>1, <3>2, JoinedBytes
    <3> QED BY <2>1, <2>2, <3>3
  <2> HIDE DEF T
  <2> QED BY <1>2, <2>1, <2>4, <2>5
<1> QED BY <1>3, <1>4 DEF Waits

LEMMA OtherGoesOn ==
  ASSUME ReplayInv, connections # 0, NEW side \in Side, Waits(side), ~hung, ~disturbed
  PROVE  ~Ended(Other(side)) /\ ~Waits(Other(side))
<1> DEFINE to == Other(side)
<1>1. to \in Side /\ to # side /\ Other(to) = side
  BY Sides
<1>2. /\ turn[side] \in 1 .. Len(Played) /\ Played[turn[side]].from = to
      /\ turn[to] \in Nat /\ turn[to] <= turn[side]
  BY WaitsForOther
<1>3. Playing /\ OnlyDisturbedFail /\ Len(Played) \in Nat
  BY PlayedTurns DEF ReplayInv
<1>4. ~Ended(to)
  <2>1. state[to] # "failed"
    BY <1>1, <1>3 DEF OnlyDisturbedFail
  <2>2. state[to] = "done" => turn[to] = Len(Played) + 1
    BY <1>1, <1>3 DEF Playing
  <2>3. state[to] # "done"
    BY <1>2, <1>3, <2>2
  <2> QED BY <2>1, <2>3 DEF Ended
<1>5. ~Waits(to)
  <2> SUFFICES ASSUME Waits(to) PROVE FALSE
    OBVIOUS
  <2>1. /\ turn[to] \in 1 .. Len(Played) /\ Played[turn[to]].from = side
        /\ turn[side] <= turn[to]
    BY <1>1, WaitsForOther
  <2>2. turn[side] = turn[to]
    BY <1>2, <2>1
  <2> QED BY <1>1, <1>2, <2>1, <2>2
<1> QED BY <1>4, <1>5

LEMMA SeesEndStep ==
  ASSUME ReplayInv, connections # 0, NEW side \in Side, SeesEnd(side)
  PROVE  ReplayInv'
<1>1. /\ Connection /\ Waits(side) /\ Ended(Other(side)) /\ ~hung
      /\ state' = [state EXCEPT ![side] = "failed"]
      /\ UNCHANGED <<turn, played, received, transit, hung, disturbed>>
  BY DEF SeesEnd, Fails
<1>2. disturbed /\ disturbed \in BOOLEAN
  BY <1>1, OtherGoesOn DEF ReplayInv, ReplayTypes
<1> QED BY <1>1, <1>2, StateStep

LEMMA TimesOutStep ==
  ASSUME ReplayInv, connections # 0, NEW side \in Side, TimesOut(side)
  PROVE  ReplayInv'
<1>1. /\ Connection /\ Waits(side)
      /\ state' = [state EXCEPT ![side] = "failed"]
      /\ UNCHANGED <<turn, played, received, transit, hung>>
      /\ \/ Dead(side) /\ disturbed' = disturbed
         \/ disturbed' = TRUE
  BY DEF TimesOut, Fails
<1>2. Playing /\ ReplayTypes
  BY <1>1, ConnectionKeeps
<1>3. Dead(side) => disturbed
  <2>1. hung => disturbed
    BY <1>2 DEF Playing
  <2> QED BY <1>1, <2>1, OtherGoesOn DEF Dead
<1>4. disturbed' = TRUE
  BY <1>1, <1>2, <1>3 DEF ReplayTypes
<1> QED BY <1>1, <1>4, StateStep

LEMMA WriteFailsStep ==
  ASSUME ReplayInv, connections # 0, NEW side \in Side, WriteFails(side)
  PROVE  ReplayInv'
<1> DEFINE n == turn[side]
           to == Other(side)
           m == turn[to]
           T == transit[to]
<1>1. /\ Connection /\ AtTurn(side) /\ Turn(side).from = side /\ Ended(to) /\ ~hung
      /\ state' = [state EXCEPT ![side] = "failed"]
      /\ UNCHANGED <<turn, played, received, transit, hung, disturbed>>
  BY DEF WriteFails, Fails
<1>2. /\ Playing /\ ReplayTypes /\ UnderWay /\ OnlyDisturbedFail
      /\ Played \in Seq(PlannedTurn) /\ Len(Played) \in Nat
  BY <1>1, ConnectionKeeps, PlayedTurns
<1>3. to \in Side /\ Other(to) = side
  BY Sides
<1>4. state[to] # "done"
  <2> SUFFICES ASSUME state[to] = "done" PROVE FALSE
    OBVIOUS
  <2>1. m = Len(Played) + 1
    BY <1>2, <1>3 DEF Playing
  <2>2. n \in 1 .. Len(Played) /\ Played[n].from = side
    BY <1>1, TurnIsPlayed
  <2>3. Has(to) = SentBy(Played, side, m - 1)
    BY <1>3, HasRead
  <2>4. SentBy(Played, side, n - 1) = SentBy(Played, side, m - 1) \o T
    BY <1>1, <1>2, <1>3, <2>3 DEF UnderWay
  <2>5. T \in Seq(Letter)
    BY <1>2, <1>3 DEF ReplayTypes
  <2> HIDE DEF n, m, T
  <2>6. m \in n + 1 .. Len(Played) + 1
    BY <1>2, <2>1, <2>2
  <2> QED BY <1>2, <2>2, <2>4, <2>5, <2>6, NotAhead
<1>5. disturbed /\ disturbed \in BOOLEAN
  BY <1>1, <1>2, <1>3, <1>4 DEF Ended, OnlyDisturbedFail, ReplayTypes
<1> QED BY <1>1, <1>5, StateStep
LEMMA HangStep ==
  ASSUME ReplayInv, connections # 0, Hang
  PROVE  ReplayInv'
<1>1. /\ Connection /\ hung' = TRUE /\ disturbed' = TRUE /\ transit' = NoTraffic
      /\ UNCHANGED <<turn, state, played, received>>
  BY DEF Hang
<1>2. ReplayTypes /\ Playing /\ Played' = Played
  BY <1>1, ConnectionKeeps
<1>3. transit' \in [Side -> Seq(Letter)] /\ \A s \in Side : transit'[s] = <<>>
  BY <1>1 DEF NoTraffic
<1>4. UnderWay' /\ OnlyDisturbedFail'
  BY <1>1 DEF UnderWay, OnlyDisturbedFail
<1>5. /\ turn' \in [Side -> Nat] /\ state' \in [Side -> {"detect", "play", "done", "failed"}]
      /\ played' \in Nat /\ received' \in Seq(Letter)
      /\ \A side \in Side : turn'[side] \in 1 .. Len(Played) + 1
      /\ state'["client"] # "detect"
      /\ played' = 0 => turn'["server"] = 1 /\ state'["server"] \in {"detect", "failed"}
      /\ played' # 0 => played' = flow /\ state'["server"] # "detect"
      /\ \A side \in Side : state'[side] = "done" => turn'[side] = Len(Played) + 1
      /\ state'["server"] = "detect" =>
           IsPrefix(received', Played[1].bytes) /\ received' # Played[1].bytes
  BY <1>1, <1>2 DEF ReplayTypes, Playing
<1> QED BY <1>1, <1>3, <1>4, <1>5, GoesOn

(* What the server reads before it knows the flow begins the first turn of     *)
(* that which the client replays, and of no other once all of it is there.     *)
LEMMA DetectStep ==
  ASSUME ReplayInv, connections # 0, Detect
  PROVE  ReplayInv'
<1> DEFINE T == transit["server"]
           bytes == Append(received, Head(T))
           F == Played[1].bytes
<1>1. /\ Connection /\ state["server"] = "detect" /\ T # <<>>
      /\ received' = bytes /\ transit' = [transit EXCEPT !["server"] = Tail(T)]
      /\ UNCHANGED <<hung, disturbed>>
  BY DEF Detect
<1>2. \/ /\ Candidates(bytes) = {}
         /\ state' = [state EXCEPT !["server"] = "failed"]
         /\ UNCHANGED <<turn, played>>
      \/ /\ Candidates(bytes) # {} /\ Detected(bytes) = {}
         /\ UNCHANGED <<state, turn, played>>
      \/ \E n \in Detected(bytes) :
           /\ played' = n
           /\ turn' = [turn EXCEPT !["server"] = 2]
           /\ state' = [state EXCEPT !["server"] = "play"]
  BY DEF Detect
<1>3. /\ ReplayTypes /\ Playing /\ UnderWay /\ OnlyDisturbedFail /\ Played' = Played
      /\ Played \in Seq(PlannedTurn) /\ Len(Played) \in Nat \ {0} /\ Played[1].from = "client"
      /\ F \in Seq(Letter) /\ PlansMatch /\ flow \in 1 .. Len(plan["server"])
  BY <1>1, ConnectionKeeps, PlayedTurns
<1>4. "server" \in Side /\ "client" \in Side /\ Other("server") = "client" /\ Other("client") = "server"
      /\ \A s \in Side : s = "client" \/ s = "server"
  BY DEF Side, Other
<1>5. ~hung
  BY <1>1, <1>3, <1>4 DEF Playing
<1>6. /\ played = 0 /\ turn["server"] = 1
      /\ IsPrefix(received, F) /\ received # F
      /\ received \in Seq(Letter) /\ T \in Seq(Letter)
      /\ SentBy(Played, "client", turn["client"] - 1) = received \o T
      /\ turn["client"] > 1 =>
           \E rest \in Seq(Letter) :
             SentBy(Played, "client", turn["client"] - 1) = F \o rest
  BY <1>1, <1>5, ServerDetects
<1>7. turn["client"] > 1
  <2> SUFFICES ASSUME ~(turn["client"] > 1) PROVE FALSE
    OBVIOUS
  <2>1. turn["client"] \in 1 .. Len(Played) + 1
    BY <1>3, <1>4 DEF Playing
  <2>2. turn["client"] - 1 = 0
    BY <1>3, <2>1
  <2>3. SentBy(Played, "client", turn["client"] - 1) = <<>>
    BY <2>2, SentNone, Zenon
  <2>4. Len(received \o T) = Len(received) + Len(T) /\ Len(T) # 0 /\ Len(T) \in Nat /\ Len(received) \in Nat
    BY <1>1, <1>6, JoinedBytes
  <2>5. received \o T = <<>>
    BY <1>6, <2>3
  <2>6. Len(received \o T) = 0
    BY <2>5
  <2> HIDE DEF T
  <2> QED BY <2>4, <2>6
<1>8. PICK rest \in Seq(Letter) : received \o T = F \o rest
  BY <1>6, <1>7
<1>9. /\ bytes \in Seq(Letter) /\ Tail(T) \in Seq(Letter) /\ IsPrefix(bytes, F)
      /\ bytes \o Tail(T) = received \o T
  <2>1. /\ received \in Seq(Letter) /\ F \in Seq(Letter) /\ IsPrefix(received, F) /\ received # F
        /\ T \in Seq(Letter) /\ T # <<>>
    BY <1>1, <1>3, <1>6
  <2> HIDE DEF T, F
  <2>2. /\ Append(received, Head(T)) \in Seq(Letter) /\ Tail(T) \in Seq(Letter)
        /\ IsPrefix(Append(received, Head(T)), F)
        /\ Append(received, Head(T)) \o Tail(T) = received \o T
    BY ZenonT(90), <1>8, <2>1, PrefixNext
  <2> QED BY <2>2
<1>10. F = plan["server"][flow][1].bytes /\ plan["server"] \in Seq(Seq(PlannedTurn))
       /\ DOMAIN plan["server"] = 1 .. Len(plan["server"])
  <2>1. plan["server"] \in Seq(Seq(PlannedTurn))
    BY <1>3, <1>4 DEF PlansMatch
  <2> DEFINE S == Seq(PlannedTurn)
  <2>2. plan["server"] \in Seq(S)
    BY <2>1
  <2> HIDE DEF S
  <2>3. DOMAIN plan["server"] = 1 .. Len(plan["server"])
    BY <2>2
  <2> QED BY <2>1, <2>3 DEF Played
<1>11. flow \in Candidates(bytes)
  BY <1>3, <1>9, <1>10 DEF Candidates
<1>12. ValidFlows(plan["server"])
  BY <1>3, <1>4 DEF PlansMatch
<1> HIDE DEF bytes, F, T
<1>13. Candidates(F) = {flow}
  <2>1. \A n \in DOMAIN plan["server"] : n # flow => ~IsPrefix(F, plan["server"][n][1].bytes)
    BY <1>3, <1>10, <1>12 DEF ValidFlows
  <2>2. IsPrefix(F, F)
    <3>1. SubSeq(F, 1, Len(F)) = F
      BY <1>3, SubSeqFull
    <3> QED BY <1>3 DEF IsPrefix
  <2> QED BY <1>3, <1>10, <2>1, <2>2 DEF Candidates
<1>14. bytes = F => Detected(bytes) = {flow}
  BY <1>10, <1>13 DEF Detected
<1>15. /\ transit' \in [Side -> Seq(Letter)] /\ transit'["server"] = Tail(T)
       /\ transit'["client"] = transit["client"]
  <2>1. transit \in [Side -> Seq(Letter)]
    BY <1>3 DEF ReplayTypes
  <2> QED BY <1>1, <1>4, <1>9, <2>1
<1>16. /\ received' \in Seq(Letter) /\ hung' \in BOOLEAN /\ disturbed' \in BOOLEAN /\ ~hung'
  BY <1>1, <1>3, <1>5, <1>9 DEF ReplayTypes
<1>17. SentBy(Played, "server", turn["server"] - 1) = Has("client") \o transit["client"]
  BY <1>3, <1>4, <1>5 DEF UnderWay
<1>18. CASE Candidates(bytes) # {} /\ Detected(bytes) = {} /\ UNCHANGED <<state, turn, played>>
  <2>1. received' # F
    BY <1>1, <1>14, <1>18
  <2>2. UnderWay'
    <3>1. Has("server")' = bytes
      BY <1>1, <1>6, <1>18 DEF Has
    <3>2. Has("client")' = Has("client")
      BY <1>3, <1>18 DEF Has
    <3>3. SentBy(Played, "client", turn["client"] - 1) = Has("server")' \o transit'["server"]
      BY <1>6, <1>9, <1>15, <3>1
    <3>4. SentBy(Played, "server", turn["server"] - 1) = Has("client")' \o transit'["client"]
      BY <1>15, <1>17, <3>2
    <3> QED BY <1>3, <1>4, <1>18, <3>3, <3>4 DEF UnderWay
  <2>3. /\ turn' \in [Side -> Nat] /\ state' \in [Side -> {"detect", "play", "done", "failed"}]
        /\ played' \in Nat
        /\ \A side \in Side : turn'[side] \in 1 .. Len(Played) + 1
        /\ state'["client"] # "detect"
        /\ played' = 0 => turn'["server"] = 1 /\ state'["server"] \in {"detect", "failed"}
        /\ played' # 0 => played' = flow /\ state'["server"] # "detect"
        /\ \A side \in Side : state'[side] = "done" => turn'[side] = Len(Played) + 1
    BY <1>3, <1>18 DEF ReplayTypes, Playing
  <2>4. OnlyDisturbedFail'
    BY <1>1, <1>3, <1>18 DEF OnlyDisturbedFail
  <2>5. IsPrefix(received', Played[1].bytes) /\ received' # Played[1].bytes
    BY <1>1, <1>9, <2>1 DEF F
  <2> QED BY <1>1, <1>15, <1>16, <2>2, <2>3, <2>4, <2>5, GoesOn
<1>19. CASE \E n \in Detected(bytes) :
              /\ played' = n
              /\ turn' = [turn EXCEPT !["server"] = 2]
              /\ state' = [state EXCEPT !["server"] = "play"]
  <2>1. PICK n \in Detected(bytes) :
              /\ played' = n
              /\ turn' = [turn EXCEPT !["server"] = 2]
              /\ state' = [state EXCEPT !["server"] = "play"]
    BY <1>19
  <2>2. n = flow /\ Len(F) = Len(bytes)
    BY <1>10, <1>11, <2>1 DEF Detected
  <2>3. bytes = F
    BY <1>3, <1>9, <2>2, PrefixAll
  <2>4. turn \in [Side -> Nat] /\ state \in [Side -> {"detect", "play", "done", "failed"}]
    BY <1>3 DEF ReplayTypes
  <2>5. /\ turn' \in [Side -> Nat] /\ turn'["server"] = 2 /\ turn'["client"] = turn["client"]
        /\ state' \in [Side -> {"detect", "play", "done", "failed"}]
        /\ state'["server"] = "play" /\ state'["client"] = state["client"]
    BY <1>4, <2>1, <2>4
  <2>6. \A side \in Side : turn'[side] \in 1 .. Len(Played) + 1
    <3>1. 2 \in 1 .. Len(Played) + 1 /\ turn["client"] \in 1 .. Len(Played) + 1
      BY <1>3, <1>4 DEF Playing
    <3>2. turn'["server"] \in 1 .. Len(Played) + 1 /\ turn'["client"] \in 1 .. Len(Played) + 1
      BY <2>5, <3>1
    <3> QED BY <1>4, <3>2, Zenon
  <2>7. UnderWay'
    <3>1. 1 \in 1 .. Len(Played) /\ 1 - 1 = 0 /\ 2 - 1 = 1
      BY <1>3
    <3>2. SentBy(Played, "client", 1) = SentBy(Played, "client", 1 - 1) \o F
      BY <1>3, <1>4, <3>1, WritesOn DEF F
    <3>3. SentBy(Played, "client", 1) = <<>> \o F
      BY <3>1, <3>2, SentNone, Zenon
    <3>4. SentBy(Played, "client", 1) = F
      BY <1>3, <3>3, JoinedBytes
    <3>5. SentBy(Played, "server", 1) = SentBy(Played, "server", 1 - 1)
      BY <1>3, <1>4, <3>1, WritesOn
    <3>6. Has("server")' = F
      <4>1. played' # 0
        BY <1>3, <2>1, <2>2
      <4>2. Has("server")' = SentBy(Played, "client", 2 - 1)
        BY <1>3, <1>4, <2>5, <4>1 DEF Has
      <4> QED BY <3>1, <3>4, <4>2
    <3>7. Has("client")' = Has("client")
      BY <1>3, <1>4, <2>5 DEF Has
    <3>8. SentBy(Played, "client", turn["client"] - 1) = Has("server")' \o transit'["server"]
      BY <1>6, <1>9, <1>15, <2>3, <3>6
    <3>9. SentBy(Played, "server", 2 - 1) = Has("client")' \o transit'["client"]
      BY <1>6, <1>15, <1>17, <3>1, <3>5, <3>7
    <3> QED BY <1>3, <1>4, <2>5, <3>8, <3>9 DEF UnderWay
  <2>8. OnlyDisturbedFail'
    <3>1. state["client"] = "failed" => disturbed
      BY <1>3, <1>4 DEF OnlyDisturbedFail
    <3> QED BY <1>1, <1>4, <2>5, <3>1 DEF OnlyDisturbedFail
  <2>9. \A side \in Side : state'[side] = "done" => turn'[side] = Len(Played) + 1
    BY <1>3, <1>4, <2>5 DEF Playing
  <2>10. /\ played' \in Nat /\ played' = flow /\ played' # 0
         /\ state'["client"] # "detect" /\ state'["server"] # "detect"
    BY <1>3, <2>1, <2>2, <2>5 DEF Playing
  <2> QED BY <1>1, <1>15, <1>16, <2>5, <2>6, <2>7, <2>8, <2>9, <2>10, GoesOn
<1> QED BY <1>2, <1>11, <1>18, <1>19

LEMMA ConnectStep ==
  ASSUME ReplayInv, Connect
  PROVE  ReplayInv'
<1>1. /\ Replaying /\ connections < MaxConnections
      /\ connections' = connections + 1 /\ flow' = NextFlow
      /\ turn' = [side \in Side |-> 1]
      /\ state' = [client |-> "play", server |-> "detect"]
      /\ played' = 0 /\ received' = <<>> /\ transit' = NoTraffic
      /\ hung' = FALSE /\ disturbed' = FALSE
  BY DEF Connect
<1>2. phase = "replaying" /\ UNCHANGED <<capture, phase, plan>>
  BY <1>1 DEF Replaying, captureVars, planVars
<1>3. ReplayTypes /\ PlansMatch /\ PlansMatch'
  BY <1>2, PlansStay DEF ReplayInv
<1> DEFINE S == Seq(PlannedTurn)
<1>4. /\ plan["client"] \in Seq(S) /\ plan["server"] \in Seq(S)
      /\ Len(plan["client"]) = Len(plan["server"])
      /\ ValidFlows(plan["client"]) /\ ValidFlows(plan["server"])
  BY <1>3 DEF PlansMatch, Side
<1> HIDE DEF S
<1>5. plan["client"] # <<>>
  BY <1>4 DEF ValidFlows
<1>6. Len(plan["client"]) \in Nat \ {0}
  BY <1>4, <1>5
<1>7. connections \in Nat /\ MaxConnections \in Nat
  BY <1>3, CaptureAssumption DEF ReplayTypes
<1>8. flow' \in 1 .. Len(plan["server"]) /\ flow' \in Nat
  <2> DEFINE k == connections
             N == Len(plan["client"])
  <2>0. k \in Nat /\ N \in Nat \ {0}
    BY <1>6, <1>7
  <2> HIDE DEF k, N
  <2>1a. k % N \in 0 .. N - 1
    BY <2>0
  <2>1. connections % Len(plan["client"]) \in 0 .. Len(plan["client"]) - 1
    BY <2>1a DEF k, N
  <2> QED BY <1>1, <1>4, <1>6, <2>1 DEF NextFlow
<1>9. Played' = plan["server"][flow']
  BY <1>2 DEF Played
<1> DEFINE P == plan["server"][flow']
<1>10. /\ P \in Seq(PlannedTurn) /\ StartsWithClient(P)
  <2>1. P \in S
    BY <1>4, <1>8
  <2>2. DOMAIN plan["server"] = 1 .. Len(plan["server"])
    BY <1>4
  <2> QED BY <1>4, <1>8, <2>1, <2>2 DEF ValidFlows, S
<1> HIDE DEF P
<1>11. Len(P) \in Nat \ {0} /\ P[1].bytes \in Seq(Letter) /\ Len(P[1].bytes) \in Nat \ {0}
  <2>1. P # <<>>
    BY <1>10 DEF StartsWithClient
  <2>2. Len(P) \in Nat \ {0} /\ 1 \in 1 .. Len(P)
    BY <1>10, <2>1
  <2> QED BY <1>10, <2>2, TurnIsPacket
<1>12. IsPrefix(<<>>, P[1].bytes) /\ <<>> # P[1].bytes /\ <<>> \in Seq(Letter)
  <2>1. <<>> \in Seq(Letter) /\ <<>> \o P[1].bytes = P[1].bytes
    BY <1>11, JoinedBytes
  <2>2. IsPrefix(<<>>, <<>> \o P[1].bytes)
    BY <1>11, <2>1, PrefixOfConcat
  <2>3. IsPrefix(<<>>, P[1].bytes)
    BY <2>1, <2>2, Zenon
  <2>4. Len(<<>>) = 0
    OBVIOUS
  <2>5. <<>> # P[1].bytes
    BY <1>11, <2>4
  <2> QED BY <2>1, <2>3, <2>5
<1>13. /\ "server" \in Side /\ "client" \in Side
       /\ \A s \in Side : Other(s) \in Side
       /\ \A s \in Side : s = "client" \/ s = "server"
  BY DEF Side, Other
<1>14. ReplayTypes'
  <2>1. connections' \in 0 .. MaxConnections
    BY <1>1, <1>7
  <2>2. turn' \in [Side -> Nat] /\ state' \in [Side -> {"detect", "play", "done", "failed"}]
    BY <1>1 DEF Side
  <2>3. transit' \in [Side -> Seq(Letter)]
    BY <1>1, <1>12 DEF NoTraffic
  <2>4. received' \in Seq(Letter)
    BY <1>1, <1>12, Zenon
  <2> QED BY <1>1, <1>2, <1>8, <2>1, <2>2, <2>3, <2>4 DEF ReplayTypes
<1>15. UnderWay'
  <2> SUFFICES ASSUME NEW s \in Side
               PROVE  SentBy(P, Other(s), turn'[Other(s)] - 1) = Has(s)' \o transit'[s]
    BY <1>9 DEF UnderWay, P
  <2>1. turn'[Other(s)] - 1 = 0 /\ turn'[s] - 1 = 0 /\ transit'[s] = <<>>
    BY <1>1, <1>13 DEF NoTraffic
  <2>2. Has(s)' = IF s = "server" /\ played' = 0 THEN received'
                  ELSE SentBy(P, Other(s), turn'[s] - 1)
    BY <1>9 DEF Has, P
  <2>3. Has(s)' = <<>>
    BY <1>1, <2>1, <2>2, SentNone, Zenon
  <2>4. SentBy(P, Other(s), turn'[Other(s)] - 1) = <<>>
    BY <2>1, SentNone, Zenon
  <2>5. <<>> \o <<>> = <<>>
    OBVIOUS
  <2> QED BY <2>1, <2>3, <2>4, <2>5, Zenon
<1>16. Playing'
  <2>1. state'["client"] = "play" /\ state'["server"] = "detect"
    BY <1>1
  <2>2. \A s \in Side : turn'[s] \in 1 .. Len(P) + 1 /\ turn'[s] = 1 /\ state'[s] # "done"
    BY <1>1, <1>11, <1>13, <2>1
  <2> QED BY <1>1, <1>2, <1>8, <1>9, <1>12, <1>13, <1>15, <2>1, <2>2 DEF Playing, P
<1>17. OnlyDisturbedFail'
  BY <1>1, <1>13 DEF OnlyDisturbedFail
<1>18. connections' # 0
  BY <1>1, <1>7
<1> QED BY <1>3, <1>14, <1>16, <1>17, <1>18 DEF ReplayInv
-----------------------------------------------------------------------------
(* Reassembly                                                                 *)

(* A function that is defined by what it is before.                           *)
Follows(g, x, step, n) ==
  \A m \in 0 .. n : g[m] = IF m = 0 THEN x ELSE step[m][g[m - 1]]

LEMMA StepsExist ==
  ASSUME NEW X, NEW x \in X, NEW M \in Nat, NEW step \in [1 .. M -> [X -> X]]
  PROVE  \E g \in [0 .. M -> X] : Follows(g, x, step, M)
<1> DEFINE P(m) == \E g \in [0 .. m -> X] : Follows(g, x, step, m)
           S == {m \in Nat : m <= M => P(m)}
<1>1. P(0)
  <2> DEFINE g == [n \in 0 .. 0 |-> x]
  <2>1. g \in [0 .. 0 -> X] /\ g[0] = x
    OBVIOUS
  <2>2. \A n \in 0 .. 0 : n = 0
    OBVIOUS
  <2> HIDE DEF g
  <2>3. \A n \in 0 .. 0 : g[n] = IF n = 0 THEN x ELSE step[n][g[n - 1]]
    BY <2>1, <2>2, Zenon
  <2> QED BY <2>1, <2>3 DEF Follows
<1>2. ASSUME NEW m \in Nat, m + 1 <= M, P(m) PROVE P(m + 1)
  <2>1. PICK g \in [0 .. m -> X] : Follows(g, x, step, m)
    BY <1>2
  <2> DEFINE last == step[m + 1][g[m]]
             h == [n \in 0 .. m + 1 |-> IF n = m + 1 THEN last ELSE g[n]]
  <2>2. last \in X
    <3>1. m + 1 \in 1 .. M /\ m \in 0 .. m
      BY <1>2
    <3>2. step[m + 1] \in [X -> X] /\ g[m] \in X
      BY <3>1
    <3> QED BY <3>2
  <2> HIDE DEF last
  <2>3. h \in [0 .. m + 1 -> X]
    BY <2>2
  <2>4. ASSUME NEW n \in 0 .. m + 1
        PROVE  h[n] = IF n = 0 THEN x ELSE step[n][h[n - 1]]
    <3>1. CASE n = m + 1
      <4>1. h[n] = last /\ h[n - 1] = g[m] /\ n # 0
        BY <3>1
      <4>2. last = step[n][g[m]]
        BY <3>1 DEF last
      <4> HIDE DEF h
      <4> QED BY <4>1, <4>2, Zenon
    <3>2. CASE n # m + 1
      <4>1. n \in 0 .. m
        BY <3>2
      <4>2. h[n] = g[n] /\ (n # 0 => h[n - 1] = g[n - 1])
        BY <4>1
      <4>3. g[n] = IF n = 0 THEN x ELSE step[n][g[n - 1]]
        BY <2>1, <4>1 DEF Follows
      <4> HIDE DEF h
      <4> QED BY <4>2, <4>3, Zenon
    <3> QED BY <3>1, <3>2
  <2> HIDE DEF h
  <2>5. Follows(h, x, step, m + 1)
    BY <2>4 DEF Follows
  <2> QED BY <2>3, <2>5
<1> HIDE DEF P
<1>3. 0 \in S
  BY <1>1
<1>4. ASSUME NEW m \in S PROVE m + 1 \in S
  BY <1>2
<1>5. S = Nat
  <2>1. S \subseteq Nat
    OBVIOUS
  <2> HIDE DEF S
  <2> QED BY <1>3, <1>4, <2>1, InductionOn
<1>6. P(M)
  BY <1>5
<1> QED BY <1>6 DEF P

(* The streams of reassemble, before each number.                             *)
Takes(g, segments) ==
  /\ g[0] = [out |-> <<>>, next |-> Min(DOMAIN segments), gap |-> FALSE]
  /\ \A n \in 0 .. 2 ^ SeqBits - 1 :
       g[n + 1] = IF n \in DOMAIN segments THEN Segment(g[n], n, segments[n]) ELSE g[n]

LEMMA ReassembleTakes ==
  ASSUME NEW X, NEW segments, DOMAIN segments \subseteq 0 .. 2 ^ SeqBits - 1,
         DOMAIN segments # {},
         [out |-> <<>>, next |-> Min(DOMAIN segments), gap |-> FALSE] \in X,
         \A s \in X : \A k \in DOMAIN segments : Segment(s, k, segments[k]) \in X
  PROVE  \E g \in [0 .. 2 ^ SeqBits -> X] :
           Takes(g, segments) /\ Reassemble(segments) = g[2 ^ SeqBits]
<1> DEFINE numbers == DOMAIN segments
           M == 2 ^ SeqBits
           x == [out |-> <<>>, next |-> Min(DOMAIN segments), gap |-> FALSE]
           Body(h, n) == IF n = 0 THEN x
                         ELSE IF n - 1 \in numbers
                         THEN Segment(h[n - 1], n - 1, segments[n - 1])
                         ELSE h[n - 1]
           Is(h) == h = [n \in 0 .. M |-> Body(h, n)]
           stream == CHOOSE h : Is(h)
           step == [n \in 1 .. M |-> [s \in X |->
                      IF n - 1 \in numbers THEN Segment(s, n - 1, segments[n - 1]) ELSE s]]
<1>1. M \in Nat \ {0} /\ x \in X
  BY CaptureAssumption
<1>2. Reassemble(segments) = stream[M]
  BY DEF Reassemble
<1> HIDE DEF M, x
<1>3. step \in [1 .. M -> [X -> X]]
  OBVIOUS
<1>4. PICK g \in [0 .. M -> X] : Follows(g, x, step, M)
  <2> HIDE DEF step
  <2>1. x \in X /\ M \in Nat /\ step \in [1 .. M -> [X -> X]]
    BY <1>1, <1>3
  <2> QED BY <2>1, StepsExist
<1>5. ASSUME NEW n \in 0 .. M PROVE g[n] = Body(g, n)
  <2>1. CASE n = 0
    BY <1>4, <2>1 DEF Follows
  <2>2. CASE n # 0
    <3>1. n \in 1 .. M /\ n - 1 \in 0 .. M
      BY <1>1, <2>2
    <3>2. g[n - 1] \in X
      BY <3>1
    <3>3. g[n] = step[n][g[n - 1]]
      BY <1>4, <2>2 DEF Follows
    <3>4. step[n][g[n - 1]] = IF n - 1 \in numbers
                              THEN Segment(g[n - 1], n - 1, segments[n - 1]) ELSE g[n - 1]
      BY <3>1, <3>2
    <3> HIDE DEF step
    <3> QED BY <2>2, <3>3, <3>4
  <2> QED BY <2>1, <2>2
<1> HIDE DEF step
<1>6. Is(g)
  <2> HIDE DEF Body
  <2> QED BY <1>5
<1>7. Is(stream)
  <2> HIDE DEF Is
  <2> QED BY <1>6
<1> HIDE DEF stream
<1>8. \A n \in 0 .. M : stream[n] = Body(stream, n)
  <2> HIDE DEF Body
  <2> QED BY <1>7
<1> HIDE DEF Is
<1> DEFINE S == {n \in Nat : n <= M => stream[n] \in X}
<1>9. 0 \in S
  <2>1. 0 \in 0 .. M
    BY <1>1
  <2> QED BY <1>1, <1>8, <2>1
<1>10. ASSUME NEW n \in S PROVE n + 1 \in S
  <2> SUFFICES ASSUME n + 1 <= M PROVE stream[n + 1] \in X
    OBVIOUS
  <2>1. n \in Nat /\ n + 1 \in 0 .. M /\ (n + 1) - 1 = n /\ n + 1 # 0 /\ n <= M
    BY <1>1
  <2>2. stream[n] \in X
    BY <2>1
  <2>3. stream[n + 1] = IF n \in numbers THEN Segment(stream[n], n, segments[n]) ELSE stream[n]
    <3>1. stream[n + 1] = Body(stream, n + 1)
      BY <1>8, <2>1
    <3> QED BY <2>1, <3>1, Zenon
  <2> QED BY <2>2, <2>3
<1>11. S = Nat
  <2>1. S \subseteq Nat
    OBVIOUS
  <2> HIDE DEF S
  <2> QED BY <1>9, <1>10, <2>1, InductionOn
<1>12. stream \in [0 .. M -> X]
  <2>1. \A n \in 0 .. M : n \in Nat /\ n <= M
    BY <1>1
  <2>2. \A n \in 0 .. M : stream[n] \in X
    BY <1>11, <2>1
  <2>3. stream = [n \in 0 .. M |-> Body(stream, n)]
    BY <1>7 DEF Is
  <2> HIDE DEF Body
  <2>4. stream = [n \in 0 .. M |-> stream[n]]
    BY <2>3
  <2> QED BY <2>2, <2>4
<1>13. ASSUME NEW n \in 0 .. M - 1
       PROVE  stream[n + 1] = IF n \in numbers THEN Segment(stream[n], n, segments[n]) ELSE stream[n]
  <2>1. n + 1 \in 0 .. M /\ (n + 1) - 1 = n /\ n + 1 # 0
    BY <1>1
  <2>2. stream[n + 1] = Body(stream, n + 1)
    BY <1>8, <2>1
  <2> QED BY <2>1, <2>2, Zenon
<1>14. stream[0] = x
  <2>1. 0 \in 0 .. M
    BY <1>1
  <2> QED BY <1>8, <2>1
<1>15. Takes(stream, segments)
  BY <1>13, <1>14 DEF Takes, x, M
<1> QED BY <1>2, <1>12, <1>15 DEF M

(* Whatever holds of an empty stream, and on with every segment, holds in the  *)
(* end.                                                                       *)
LEMMA ReassembleIn ==
  ASSUME NEW X, NEW segments, DOMAIN segments \subseteq 0 .. 2 ^ SeqBits - 1,
         DOMAIN segments # {},
         [out |-> <<>>, next |-> Min(DOMAIN segments), gap |-> FALSE] \in X,
         \A s \in X : \A k \in DOMAIN segments : Segment(s, k, segments[k]) \in X
  PROVE  Reassemble(segments) \in X
<1>1. PICK g \in [0 .. 2 ^ SeqBits -> X] : Reassemble(segments) = g[2 ^ SeqBits]
  BY ReassembleTakes, Zenon
<1>2. 2 ^ SeqBits \in 0 .. 2 ^ SeqBits
  BY CaptureAssumption
<1> QED BY <1>1, <1>2
-----------------------------------------------------------------------------
(* The analysis                                                               *)

(* No side of a flow sends so much that its sequence numbers come again.       *)
ShortFlows ==
  \A c \in Capture : \A f \in DOMAIN c.flows : \A side \in Side :
    Len(SentBy(c.flows[f].talk, side, Len(c.flows[f].talk))) < 2 ^ SeqBits

Event == [from : Side, number : 0 .. 2 ^ SeqBits - 1, bytes : Seq(Letter) \ {<<>>}, turn : Nat]

(* Bytes that were sent after the first p of all that was sent.                *)
Piece(bytes, whole, p) ==
  p + Len(bytes) <= Len(whole) /\ bytes = SubSeq(whole, p + 1, p + Len(bytes))

IsPieceOf(bytes, whole) == \E p \in 0 .. Len(whole) : Piece(bytes, whole, p)

Numbered(e, whole, isn) ==
  \E p \in 0 .. Len(whole) : e.number = (isn + p) % 2 ^ SeqBits /\ Piece(e.bytes, whole, p)

(* An event is a piece of what its sender has sent, after so many packets of   *)
(* every flow, and is numbered so.                                            *)
SentAs(e, entry, counts) ==
  LET sender == Sender(entry, e.from)
  IN  Numbered(e, SentBy(Talk(entry.flow), sender, counts[entry.flow]),
               capture.flows[entry.flow].isn[sender])

(* It is told by one of the first n packets of its flow, or by two that go     *)
(* together, and is in their turn.                                            *)
OfPacket(e, entry, n) ==
  LET f == entry.flow
      talk == Talk(f)
      sender == Sender(entry, e.from)
  IN  \E p \in 1 .. n :
        /\ talk[p].from = sender /\ talk[p].bytes # <<>>
        /\ e.number = SequenceNumber(f, p) /\ e.turn = TurnOf(f, p)
        /\ \/ e.bytes = talk[p].bytes
           \/ /\ p + 1 <= n /\ talk[p + 1].from = sender
              /\ e.bytes = talk[p].bytes \o talk[p + 1].bytes

EntryType == [flow : Flow, client : Side, events : Seq(Event)]

EntryAfter(counts) ==
  {entry \in EntryType :
     \A i \in 1 .. Len(entry.events) :
       /\ SentAs(entry.events[i], entry, counts)
       /\ OfPacket(entry.events[i], entry, counts[entry.flow])}

KeptType ==
  [flow : Flow, client : Side, up : Seq(Letter), down : Seq(Letter), turns : Seq(PlannedTurn)]

Kept ==
  {k \in KeptType :
     ShortFlows => IsPieceOf(k.up, Sent(k, "client")) /\ IsPieceOf(k.down, Sent(k, "server"))}

AnalysisInv ==
  /\ capture \in Capture
  /\ passed \in [Flow -> Nat] /\ \A f \in Flow : passed[f] <= Len(Talk(f))
  /\ phase = "capturing" => table \in Seq(EntryAfter(passed))
  /\ phase = "analysed" =>
       table \in Seq(EntryAfter(passed)) /\ kept \in Seq(Kept) /\ kept = FinishAnalysis
-----------------------------------------------------------------------------
(* Sequence numbers                                                           *)

LEMMA Times ==
  ASSUME NEW M \in Nat \ {0}, NEW d \in Int
  PROVE  /\ d >= 1 => M * d >= M
         /\ d <= -1 => M * d <= -M
         /\ d <= -2 => M * d <= -(2 * M)
         /\ M * d \in Int
OBVIOUS

LEMMA Remainder ==
  ASSUME NEW M \in Nat \ {0}, NEW a \in Nat
  PROVE  /\ a % M \in 0 .. M - 1
         /\ \E q \in Int : a = M * q + (a % M)
<1>1. a % M \in 0 .. M - 1
  OBVIOUS
<1>2. a \div M \in Int /\ a = M * (a \div M) + (a % M)
  OBVIOUS
<1> QED BY <1>1, <1>2

LEMMA RemainderIs ==
  ASSUME NEW M \in Nat \ {0}, NEW a \in Nat, NEW q \in Int, NEW r \in 0 .. M - 1, a = M * q + r
  PROVE  a % M = r
<1>1. a % M \in 0 .. M - 1
  BY Remainder
<1>2. PICK u \in Int : a = M * u + (a % M)
  BY Remainder
<1> DEFINE s == a % M
           d == u - q
<1>3. s \in 0 .. M - 1 /\ a = M * u + s /\ d \in Int
  BY <1>1, <1>2
<1>4. M * d = M * u - M * q
  OBVIOUS
<1> HIDE DEF s, d
<1>5. M * q \in Int /\ M * u \in Int
  BY Times
<1>6. M * d = r - s
  BY <1>3, <1>4, <1>5
<1>7. ~(d >= 1) /\ ~(d <= -1)
  <2>1. d >= 1 => M * d >= M
    BY <1>3, Times
  <2>2. d <= -1 => M * d <= -M
    BY <1>3, Times
  <2> QED BY <1>3, <1>6, <2>1, <2>2
<1>8. d = 0
  BY <1>3, <1>7
<1>9. M * d = 0
  BY <1>8
<1>10. r = s
  BY <1>3, <1>6, <1>9
<1> QED BY <1>10 DEF s

(* The number after a segment.                                                *)
LEMMA NextNumber ==
  ASSUME NEW M \in Nat \ {0}, NEW a \in Nat, NEW b \in Nat
  PROVE  ((a % M) + b) % M = (a + b) % M
<1> DEFINE r == a % M
<1>1. PICK q \in Int : a = M * q + r
  BY Remainder
<1>2. r \in Nat
  BY Remainder
<1> HIDE DEF r
<1>3. r + b \in Nat /\ a + b \in Nat
  BY <1>2
<1> DEFINE t == (r + b) % M
<1>4. PICK u \in Int : r + b = M * u + t
  BY <1>3, Remainder
<1>5. t \in 0 .. M - 1
  BY <1>3, Remainder
<1> HIDE DEF t
<1>6. M * (q + u) = M * q + M * u /\ q + u \in Int /\ M * q \in Int /\ M * u \in Int
  OBVIOUS
<1>7. a + b = M * (q + u) + t
  BY <1>1, <1>2, <1>4, <1>5, <1>6
<1>8. (a + b) % M = t
  BY <1>3, <1>5, <1>6, <1>7, RemainderIs
<1> QED BY <1>8 DEF r, t

(* The distance of two numbers is that of what they number, or wraps.         *)
LEMMA Distance ==
  ASSUME NEW M \in Nat \ {0}, NEW isn \in Nat, NEW e \in 0 .. M - 1, NEW p \in 0 .. M - 1,
         (isn + p) % M <= (isn + e) % M
  PROVE  \/ e - p = ((isn + e) % M) - ((isn + p) % M)
         \/ e - p = ((isn + e) % M) - ((isn + p) % M) - M
<1> DEFINE next == (isn + e) % M
           k == (isn + p) % M
<1>1. isn + e \in Nat /\ isn + p \in Nat
  OBVIOUS
<1>2. PICK q \in Int : isn + e = M * q + next
  BY <1>1, Remainder
<1>3. PICK u \in Int : isn + p = M * u + k
  BY <1>1, Remainder
<1>4. next \in 0 .. M - 1 /\ k \in 0 .. M - 1 /\ k <= next
  BY <1>1, Remainder
<1> HIDE DEF next, k
<1> DEFINE d == q - u
<1>5. M * d = M * q - M * u /\ d \in Int /\ M * q \in Int /\ M * u \in Int /\ M * d \in Int
  OBVIOUS
<1> HIDE DEF d
<1>6. e - p = M * d + (next - k)
  BY <1>2, <1>3, <1>4, <1>5
<1>7. ~(d >= 1)
  <2>1. d >= 1 => M * d >= M
    BY <1>5, Times
  <2> QED BY <1>4, <1>5, <1>6, <2>1
<1>8. ~(d <= -2)
  <2>1. d <= -2 => M * d <= -(2 * M)
    BY <1>5, Times
  <2> QED BY <1>4, <1>5, <1>6, <2>1
<1>9. d = 0 \/ d = -1
  BY <1>5, <1>7, <1>8
<1>10. CASE d = 0
  <2>1. M * d = 0
    BY <1>10
  <2> QED BY <1>4, <1>6, <2>1 DEF next, k
<1>11. CASE d = -1
  <2>1. M * d = -M
    BY <1>11
  <2> QED BY <1>4, <1>6, <2>1 DEF next, k
<1> QED BY <1>9, <1>10, <1>11
-----------------------------------------------------------------------------
(* Pieces of what was sent                                                    *)

LEMMA PieceGoesOn ==
  ASSUME NEW whole \in Seq(Letter), NEW out, NEW a \in Nat, NEW e \in Nat,
         a <= e, e <= Len(whole), out = SubSeq(whole, a + 1, e),
         NEW bytes, NEW p \in Nat, NEW len \in Nat, NEW ov \in Nat,
         p + len <= Len(whole), bytes = SubSeq(whole, p + 1, p + len), ov < len, p + ov = e
  PROVE  out \o SubSeq(bytes, ov + 1, len) = SubSeq(whole, a + 1, p + len)
<1> DEFINE i == p + 1
           j == p + len
           m == ov + 1
           L == Len(whole)
<1>1. L \in Nat /\ e + 1 \in Nat /\ i + m - 1 = e + 1 /\ i + len - 1 = j
  OBVIOUS
<1>2. /\ i \in 1 .. L /\ j \in 1 .. L
      /\ m \in 1 .. j - i + 1 /\ len \in 1 .. j - i + 1
  BY <1>1
<1>3. bytes = SubSeq(whole, i, j)
  OBVIOUS
<1>4. a + 1 \in 1 .. L + 1 /\ e \in (a + 1) - 1 .. L /\ j \in e .. L
  BY <1>1
<1> HIDE DEF i, j, m
<1>5. SubSeq(bytes, m, len) = SubSeq(whole, i + m - 1, i + len - 1)
  BY <1>2, <1>3, SubSeqOfSubSeq DEF L
<1>6. SubSeq(bytes, m, len) = SubSeq(whole, e + 1, j)
  BY <1>1, <1>5
<1>7. SubSeq(whole, a + 1, e) \o SubSeq(whole, e + 1, j) = SubSeq(whole, a + 1, j)
  BY <1>4, ConcatAdjacentSubSeq DEF L
<1> QED BY <1>6, <1>7 DEF m, j

StreamType == [out : Seq(Letter), next : Nat, gap : BOOLEAN]

LEMMA SegmentType ==
  ASSUME NEW s \in StreamType, NEW k \in Nat, NEW bytes \in Seq(Letter)
  PROVE  Segment(s, k, bytes) \in StreamType
<1> DEFINE next == IF k > s.next THEN k ELSE s.next
           ov == next - k
           rest == SubSeq(bytes, ov + 1, Len(bytes))
           M == 2 ^ SeqBits
<1>1. s.out \in Seq(Letter) /\ s.next \in Nat /\ s.gap \in BOOLEAN /\ Len(bytes) \in Nat
  BY DEF StreamType
<1>2. next \in Nat /\ ov \in Nat
  BY <1>1
<1>3. M \in Nat \ {0}
  BY CaptureAssumption
<1> HIDE DEF M, ov
<1>4. (k + Len(bytes)) % M \in Nat
  BY <1>1, <1>3
<1>5. rest \in Seq(Letter)
  <2>1. \A i \in ov + 1 .. Len(bytes) : bytes[i] \in Letter
    BY <1>2
  <2> QED BY <1>1, <1>2, <2>1, SubSeqProperties
<1> HIDE DEF rest
<1>6. s.out \o rest \in Seq(Letter)
  BY <1>1, <1>5, JoinedBytes
<1>7. (s.gap \/ k > s.next) \in BOOLEAN
  BY Zenon
<1> HIDE DEF next
<1>8. Segment(s, k, bytes) =
        IF ov < Len(bytes)
        THEN [out |-> s.out \o rest, next |-> (k + Len(bytes)) % M, gap |-> s.gap \/ k > s.next]
        ELSE [out |-> s.out, next |-> next, gap |-> s.gap \/ k > s.next]
  BY DEF Segment, next, ov, rest, M
<1> QED BY <1>1, <1>2, <1>4, <1>6, <1>7, <1>8 DEF StreamType

(* A stream without a gap has come to the end of a piece, which begins at a.   *)
ReachedFrom(a, s, whole, isn) ==
  Piece(s.out, whole, a) /\ s.next = (isn + (a + Len(s.out))) % 2 ^ SeqBits

Reached(s, whole, isn) == \E a \in 0 .. Len(whole) : ReachedFrom(a, s, whole, isn)

LEMMA NaturalSums ==
  /\ \A x, y, z \in Nat : x + y \in Nat /\ (x + y) + z = x + (y + z)
  /\ \A x, y, z \in Nat : x <= y /\ y < z => x \in 0 .. z - 1
OBVIOUS

LEMMA SegmentReachesFrom ==
  ASSUME NEW whole \in Seq(Letter), Len(whole) < 2 ^ SeqBits, NEW isn \in Nat,
         NEW s \in StreamType, NEW k \in Nat, NEW bytes \in Seq(Letter), bytes # <<>>,
         NEW p \in 0 .. Len(whole), k = (isn + p) % 2 ^ SeqBits, Piece(bytes, whole, p),
         k <= s.next, NEW a \in 0 .. Len(whole),
         ReachedFrom(a, s, whole, isn) \/ (s.out = <<>> /\ s.next = k /\ a = p)
  PROVE  ReachedFrom(a, Segment(s, k, bytes), whole, isn)
<1> DEFINE M == 2 ^ SeqBits
           L == Len(whole)
           len == Len(bytes)
           ov == s.next - k
           rest == SubSeq(bytes, ov + 1, len)
           gap == s.gap \/ k > s.next
<1>1. /\ M \in Nat \ {0} /\ L \in Nat /\ L < M
      /\ s.out \in Seq(Letter) /\ s.next \in Nat /\ len \in Nat /\ len # 0
  BY CaptureAssumption DEF StreamType
<1>2. ov \in Nat
  BY <1>1
<1>3. p + len <= L /\ bytes = SubSeq(whole, p + 1, p + len) /\ p \in Nat
  BY DEF Piece
<1>4. k = (isn + p) % M
  OBVIOUS
<1> DEFINE new == Segment(s, k, bytes)
<1>5. new = IF ov < len
            THEN [out |-> s.out \o rest, next |-> (k + len) % M, gap |-> gap]
            ELSE [out |-> s.out, next |-> s.next, gap |-> gap]
  <2>1. ~(k > s.next)
    BY <1>1
  <2> HIDE DEF gap, rest, ov, len
  <2> QED BY <2>1 DEF Segment, gap, rest, ov, len
<1> HIDE DEF new, gap
<1>6. (k + len) % M = (isn + (p + len)) % M
  <2> HIDE DEF M, len
  <2>1. isn + p \in Nat /\ (isn + p) + len = isn + (p + len)
    <3>1. isn \in Nat /\ p \in Nat /\ len \in Nat
      BY <1>1, <1>3
    <3> QED BY <3>1, NaturalSums
  <2>2. (((isn + p) % M) + len) % M = ((isn + p) + len) % M
    BY <1>1, <2>1, NextNumber
  <2> QED BY <1>4, <2>1, <2>2
<1>7. CASE s.out = <<>> /\ s.next = k /\ a = p
  <2>1. ov = 0 /\ ov < len
    BY <1>1, <1>7
  <2>2. rest = bytes
    <3>1. rest = SubSeq(bytes, 0 + 1, Len(bytes))
      BY <2>1, Zenon
    <3>2. SubSeq(bytes, 1, Len(bytes)) = bytes
      BY SubSeqFull
    <3> HIDE DEF rest
    <3> QED BY <3>1, <3>2
  <2>3. s.out \o rest = bytes
    BY <1>7, <2>2, JoinedBytes
  <2> HIDE DEF M, rest, ov, len
  <2>4. new.out = bytes /\ new.next = (isn + (p + len)) % M
    BY <1>5, <1>6, <2>1, <2>3
  <2>5. Piece(new.out, whole, p) /\ new.next = (isn + (p + Len(new.out))) % 2 ^ SeqBits
    BY <2>4 DEF M, len
  <2> QED BY <1>7, <2>5 DEF ReachedFrom, new
<1>8. CASE ReachedFrom(a, s, whole, isn) /\ ~(ov < len)
  <2>1. new.out = s.out /\ new.next = s.next
    BY <1>5, <1>8
  <2> QED BY <1>8, <2>1 DEF ReachedFrom, new
<1>9. CASE ReachedFrom(a, s, whole, isn) /\ ov < len
  <2>1. Piece(s.out, whole, a) /\ s.next = (isn + (a + Len(s.out))) % 2 ^ SeqBits
    BY <1>9 DEF ReachedFrom
  <2> DEFINE e == a + Len(s.out)
  <2>2. /\ a \in Nat /\ e \in Nat /\ a <= e /\ e <= L
        /\ s.out = SubSeq(whole, a + 1, e) /\ s.next = (isn + e) % M
    BY SMTT(90), <1>1, <2>1 DEF Piece
  <2> HIDE DEF M, L, len, rest, e
  <2>3. e \in 0 .. M - 1 /\ p \in 0 .. M - 1
    <3>1. p <= L
      BY DEF L
    <3>2. \A x \in Nat : x <= L => x \in 0 .. M - 1
      BY <1>1, NaturalSums, Zenon
    <3> QED BY <1>3, <2>2, <3>1, <3>2, Zenon
  <2>4. e - p = ov \/ e - p = ov - M
    <3>1. (isn + p) % M <= (isn + e) % M
      BY <1>4, <2>2
    <3>2. \/ e - p = ((isn + e) % M) - ((isn + p) % M)
          \/ e - p = ((isn + e) % M) - ((isn + p) % M) - M
      BY <1>1, <2>3, <3>1, Distance
    <3> QED BY <1>4, <2>2, <3>2
  <2>4a. /\ p \in Nat /\ e \in Nat /\ ov \in Nat /\ len \in Nat /\ L \in Nat /\ M \in Nat
         /\ ov < len /\ p + len <= L /\ L < M
    BY <1>1, <1>2, <1>3, <1>9, <2>2
  <2> HIDE DEF ov
  <2>5. p + ov = e
    BY <2>4, <2>4a
  <2>6. s.out \o rest = SubSeq(whole, a + 1, p + len)
    <3>1. /\ a \in Nat /\ a <= e /\ e <= Len(whole) /\ s.out = SubSeq(whole, a + 1, e)
          /\ p + len <= Len(whole) /\ bytes = SubSeq(whole, p + 1, p + len)
      BY <1>3, <2>2 DEF L
    <3> QED BY <2>4a, <2>5, <3>1, PieceGoesOn, SMTT(90) DEF rest
  <2>7. new.out = SubSeq(whole, a + 1, p + len) /\ new.next = (isn + (p + len)) % M
    BY <1>5, <1>6, <1>9, <2>6
  <2>8. a <= p + len /\ p + len <= L /\ p + len \in Nat
    BY <2>2, <2>4a, <2>5
  <2>9. Len(new.out) = (p + len) - a
    <3> DEFINE x == p + len
    <3>1. x \in Nat /\ a <= x /\ x <= Len(whole) /\ a \in Nat
      BY <2>2, <2>8 DEF L
    <3> HIDE DEF x
    <3>2. \A i \in a + 1 .. x : whole[i] \in Letter
      BY <3>1
    <3>3. Len(SubSeq(whole, a + 1, x)) = IF a + 1 <= x THEN x - (a + 1) + 1 ELSE 0
      BY <3>1, <3>2, SubSeqProperties
    <3>4. Len(SubSeq(whole, a + 1, x)) = x - a
      BY <3>1, <3>3
    <3> QED BY <2>7, <3>4 DEF x
  <2>10. a + Len(new.out) = p + len
    BY <2>2, <2>8, <2>9
  <2>11. Piece(new.out, whole, a) /\ new.next = (isn + (a + Len(new.out))) % 2 ^ SeqBits
    BY <2>7, <2>8, <2>10 DEF Piece, L, M
  <2> QED BY <2>11 DEF ReachedFrom, new
<1> QED BY <1>7, <1>8, <1>9

LEMMA SegmentReaches ==
  ASSUME NEW whole \in Seq(Letter), Len(whole) < 2 ^ SeqBits, NEW isn \in Nat,
         NEW s \in StreamType, NEW k \in Nat, NEW bytes \in Seq(Letter), bytes # <<>>,
         NEW p \in 0 .. Len(whole), k = (isn + p) % 2 ^ SeqBits, Piece(bytes, whole, p),
         k <= s.next,
         Reached(s, whole, isn) \/ (s.out = <<>> /\ s.next = k)
  PROVE  Reached(Segment(s, k, bytes), whole, isn)
<1>1. PICK a \in 0 .. Len(whole) :
        ReachedFrom(a, s, whole, isn) \/ (s.out = <<>> /\ s.next = k /\ a = p)
  BY DEF Reached
<1>2. ReachedFrom(a, Segment(s, k, bytes), whole, isn)
  BY <1>1, SegmentReachesFrom
<1> QED BY <1>2 DEF Reached
LEMMA EventIs ==
  ASSUME NEW e \in Event
  PROVE  /\ e.from \in Side /\ e.number \in 0 .. 2 ^ SeqBits - 1
         /\ e.bytes \in Seq(Letter) /\ e.bytes # <<>>
BY DEF Event

(* A segment of FirstByNumber is the first event with its number.              *)
IsFirst(i, events, side, k) ==
  /\ events[i].from = side /\ events[i].number = k
  /\ \A j \in 1 .. Len(events) : events[j].from = side /\ events[j].number = k => i <= j

LEMMA FirstByNumberFinds ==
  ASSUME NEW events \in Seq(Event), NEW side
  PROVE  /\ DOMAIN FirstByNumber(events, side) \subseteq 0 .. 2 ^ SeqBits - 1
         /\ \A k \in DOMAIN FirstByNumber(events, side) :
              \E i \in 1 .. Len(events) :
                IsFirst(i, events, side, k) /\ FirstByNumber(events, side)[k] = events[i].bytes
         /\ \A i \in 1 .. Len(events) :
              events[i].from = side => events[i].number \in DOMAIN FirstByNumber(events, side)
         /\ FirstByNumber(events, side) =
              [k \in DOMAIN FirstByNumber(events, side) |-> FirstByNumber(events, side)[k]]
<1> DEFINE numbers == {e.number : e \in {x \in ToSet(events) : x.from = side}}
           Index(k) == {i \in 1 .. Len(events) : events[i].from = side /\ events[i].number = k}
           First(k) == SelectInSeq(events, LAMBDA e : e.from = side /\ e.number = k)
           segs == FirstByNumber(events, side)
<1>1. segs = [k \in numbers |-> events[First(k)].bytes]
  BY DEF FirstByNumber
<1>2. ASSUME NEW k \in numbers
      PROVE  /\ k \in 0 .. 2 ^ SeqBits - 1
             /\ First(k) \in Index(k) /\ \A i \in Index(k) : First(k) <= i
  <2>1. PICK e \in ToSet(events) : e.from = side /\ e.number = k
    OBVIOUS
  <2>2. PICK i \in 1 .. Len(events) : e = events[i]
    BY <2>1 DEF ToSet
  <2>3. events[i] \in Event
    OBVIOUS
  <2>4. k \in 0 .. 2 ^ SeqBits - 1
    BY <2>1, <2>2, <2>3, EventIs
  <2>5. i \in Index(k)
    BY <2>1, <2>2
  <2>6. First(k) = Min(Index(k))
    BY <2>5 DEF SelectInSeq
  <2>7. Index(k) \subseteq Nat /\ Index(k) # {}
    BY <2>5
  <2> HIDE DEF Index, First
  <2>8. First(k) \in Index(k) /\ \A m \in Index(k) : First(k) <= m
    BY <2>6, <2>7, MinOf
  <2> QED BY <2>4, <2>8
<1>3. ASSUME NEW i \in 1 .. Len(events), events[i].from = side PROVE events[i].number \in numbers
  <2>1. events[i] \in ToSet(events)
    BY DEF ToSet
  <2> QED BY <1>3, <2>1
<1> HIDE DEF First, numbers
<1>4. DOMAIN segs = numbers /\ \A k \in numbers : segs[k] = events[First(k)].bytes
  BY <1>1
<1>5. segs = [k \in DOMAIN segs |-> segs[k]]
  BY <1>1
<1> HIDE DEF segs
<1>6. \A k \in DOMAIN segs : \E i \in 1 .. Len(events) :
        IsFirst(i, events, side, k) /\ segs[k] = events[i].bytes
  BY <1>2, <1>4 DEF IsFirst
<1> QED BY <1>2, <1>3, <1>4, <1>5, <1>6 DEF segs

LEMMA FirstByNumberIs ==
  ASSUME NEW events \in Seq(Event), NEW side
  PROVE  /\ DOMAIN FirstByNumber(events, side) \subseteq 0 .. 2 ^ SeqBits - 1
         /\ \A k \in DOMAIN FirstByNumber(events, side) :
              \E i \in 1 .. Len(events) :
                /\ events[i].from = side /\ events[i].number = k
                /\ FirstByNumber(events, side)[k] = events[i].bytes
BY FirstByNumberFinds DEF IsFirst

LEMMA StreamIsTyped ==
  ASSUME NEW events \in Seq(Event), NEW side
  PROVE  Stream(events, side) \in StreamType
<1> DEFINE segs == FirstByNumber(events, side)
<1>1. /\ DOMAIN segs \subseteq 0 .. 2 ^ SeqBits - 1
      /\ \A k \in DOMAIN segs : segs[k] \in Seq(Letter)
  <2>1. ASSUME NEW k \in DOMAIN segs PROVE segs[k] \in Seq(Letter)
    <3>1. PICK i \in 1 .. Len(events) : segs[k] = events[i].bytes
      BY FirstByNumberIs
    <3>2. events[i] \in Event
      OBVIOUS
    <3> QED BY <3>1, <3>2, EventIs
  <2> QED BY <2>1, FirstByNumberIs
<1> HIDE DEF segs
<1>2. <<>> \in Seq(Letter)
  OBVIOUS
<1>3. CASE DOMAIN segs = {}
  <2>1. Reassemble(segs) = [out |-> <<>>, next |-> 0, gap |-> FALSE]
    BY <1>3 DEF Reassemble
  <2> QED BY <1>2, <2>1 DEF Stream, segs, StreamType
<1>4. CASE DOMAIN segs # {}
  <2>1. 2 ^ SeqBits \in Nat
    BY CaptureAssumption
  <2>2. DOMAIN segs \subseteq Nat
    BY <1>1, <2>1
  <2>3. Min(DOMAIN segs) \in Nat
    BY <1>4, <2>2, MinOf
  <2>4. [out |-> <<>>, next |-> Min(DOMAIN segs), gap |-> FALSE] \in StreamType
    BY <1>2, <2>3 DEF StreamType
  <2>5. \A s \in StreamType : \A k \in DOMAIN segs : Segment(s, k, segs[k]) \in StreamType
    BY <1>1, <2>2, SegmentType
  <2>6. Reassemble(segs) \in StreamType
    BY <1>1, <1>4, <2>4, <2>5, ReassembleIn
  <2> QED BY <2>6 DEF Stream, segs
<1> QED BY <1>3, <1>4

(* reassemble: no gap, and no wrap among the bytes that were sent, then what   *)
(* comes out was sent as it is.                                               *)
LEMMA StreamIsPiece ==
  ASSUME NEW events \in Seq(Event), NEW side,
         NEW whole \in Seq(Letter), Len(whole) < 2 ^ SeqBits, NEW isn \in Nat,
         \A i \in 1 .. Len(events) : events[i].from = side => Numbered(events[i], whole, isn),
         ~Stream(events, side).gap, Stream(events, side).out # <<>>
  PROVE  IsPieceOf(Stream(events, side).out, whole)
<1> DEFINE segs == FirstByNumber(events, side)
           Starts(s) == s.out = <<>> /\ s.next = Min(DOMAIN segs)
           X == {s \in StreamType : s.gap \/ Starts(s) \/ Reached(s, whole, isn)}
<1>1. /\ DOMAIN segs \subseteq 0 .. 2 ^ SeqBits - 1
      /\ \A k \in DOMAIN segs : \E i \in 1 .. Len(events) :
           events[i].from = side /\ events[i].number = k /\ segs[k] = events[i].bytes
  BY FirstByNumberIs
<1>2. Stream(events, side) = Reassemble(segs)
  BY DEF Stream
<1> HIDE DEF segs
<1>3. <<>> \in Seq(Letter) /\ 2 ^ SeqBits \in Nat
  BY CaptureAssumption
<1>4. DOMAIN segs # {}
  <2> SUFFICES ASSUME DOMAIN segs = {} PROVE FALSE
    OBVIOUS
  <2>1. Reassemble(segs) = [out |-> <<>>, next |-> 0, gap |-> FALSE]
    BY DEF Reassemble
  <2> QED BY <1>2, <2>1
<1>5. DOMAIN segs \subseteq Nat
  BY <1>1, <1>3
<1>6. Min(DOMAIN segs) \in Nat /\ \A k \in DOMAIN segs : Min(DOMAIN segs) <= k
  BY <1>4, <1>5, MinOf
<1>7. [out |-> <<>>, next |-> Min(DOMAIN segs), gap |-> FALSE] \in X
  BY <1>3, <1>6 DEF StreamType
<1>8. ASSUME NEW s \in X, NEW k \in DOMAIN segs PROVE Segment(s, k, segs[k]) \in X
  <2>1. PICK i \in 1 .. Len(events) :
          events[i].from = side /\ events[i].number = k /\ segs[k] = events[i].bytes
    BY <1>1
  <2>2. events[i] \in Event
    OBVIOUS
  <2>3. segs[k] \in Seq(Letter) /\ segs[k] # <<>> /\ k \in Nat
    BY <1>5, <2>1, <2>2, EventIs
  <2>4. PICK p \in 0 .. Len(whole) : k = (isn + p) % 2 ^ SeqBits /\ Piece(segs[k], whole, p)
    BY <2>1 DEF Numbered
  <2>5. s \in StreamType /\ s.next \in Nat
    BY DEF StreamType
  <2>6. Segment(s, k, segs[k]) \in StreamType
    BY <2>3, <2>5, SegmentType
  <2>7. Segment(s, k, segs[k]).gap = (s.gap \/ k > s.next)
    BY DEF Segment
  <2>8. CASE s.gap \/ k > s.next
    BY <2>6, <2>7, <2>8
  <2>9. CASE ~(s.gap \/ k > s.next)
    <3>1. k <= s.next
      BY <2>3, <2>5, <2>9
    <3>2. Starts(s) => s.next = k
      BY <1>6, <2>3, <2>5, <3>1
    <3>3. Reached(s, whole, isn) \/ (s.out = <<>> /\ s.next = k)
      BY <2>9, <3>2
    <3>4. Reached(Segment(s, k, segs[k]), whole, isn)
      BY <2>3, <2>4, <2>5, <3>1, <3>3, SegmentReaches
    <3> QED BY <2>6, <3>4
  <2> QED BY <2>8, <2>9
<1>9. Reassemble(segs) \in X
  <2> HIDE DEF X
  <2> QED BY <1>1, <1>4, <1>7, <1>8, ReassembleIn
<1>10. Reached(Reassemble(segs), whole, isn)
  BY <1>2, <1>9
<1> QED BY <1>2, <1>10 DEF Reached, ReachedFrom, IsPieceOf
LEMMA FlattenFunction ==
  ASSUME NEW T, NEW N \in Nat, NEW f \in [1 .. N -> Seq(T)]
  PROVE  FlattenSeq(f) \in Seq(T)
<1> DEFINE X == Seq(T)
<1> HIDE DEF X
<1>1. f \in [1 .. N -> X]
  BY DEF X
<1>2. f \in Seq(X)
  BY <1>1
<1> QED BY <1>2, FlattenType DEF X

LEMMA GroupsAre ==
  ASSUME NEW events \in Seq(Event)
  PROVE  Groups(events) \in Seq(Seq(Event) \ {<<>>})
<1> DEFINE T == Seq(Event) \ {<<>>}
           Begins(i) == i = 1 \/ events[i - 1].from # events[i].from
           Ends(j) == j = Len(events) \/ events[j + 1].from # events[j].from
           Rest(i) == {j \in i .. Len(events) : Ends(j)}
           LastOf(i) == Min(Rest(i))
           f == [i \in 1 .. Len(events) |->
                   IF Begins(i) THEN <<SubSeq(events, i, LastOf(i))>> ELSE <<>>]
<1>1. Len(events) \in Nat /\ DOMAIN events = 1 .. Len(events)
  OBVIOUS
<1>2. Groups(events) = FlattenSeq(f)
  BY <1>1 DEF Groups
<1>3. ASSUME NEW i \in 1 .. Len(events) PROVE SubSeq(events, i, LastOf(i)) \in T
  <2>1. Len(events) \in Rest(i) /\ Rest(i) \subseteq Nat
    BY <1>1
  <2> HIDE DEF Ends
  <2>2. LastOf(i) \in Rest(i)
    <3> HIDE DEF Rest
    <3>1. Rest(i) # {} /\ Rest(i) \subseteq Nat
      BY <2>1
    <3> QED BY <3>1, MinOf
  <2> DEFINE l == LastOf(i)
  <2>3. l \in i .. Len(events)
    BY <2>2
  <2> HIDE DEF l
  <2>4. \A j \in i .. l : events[j] \in Event
    BY <1>1, <2>3
  <2>5. SubSeq(events, i, l) \in Seq(Event) /\ Len(SubSeq(events, i, l)) = l - i + 1
    BY <2>3, <2>4
  <2>6. SubSeq(events, i, l) # <<>>
    BY <2>3, <2>5
  <2> QED BY <2>5, <2>6 DEF l
<1> HIDE DEF T, Begins, LastOf
<1>4. f \in [1 .. Len(events) -> Seq(T)]
  BY <1>3
<1> HIDE DEF f
<1>5. FlattenSeq(f) \in Seq(T)
  BY <1>1, <1>4, FlattenFunction
<1> QED BY <1>2, <1>5 DEF T

LEMMA TurnsAre ==
  ASSUME NEW events \in Seq(Event)
  PROVE  BuildTurns(events) \in Seq(PlannedTurn)
<1> DEFINE groups == Groups(events)
           T == Seq(Event) \ {<<>>}
<1>1. groups \in Seq(T)
  BY GroupsAre
<1> HIDE DEF groups, T
<1>2. Len(groups) \in Nat /\ DOMAIN groups = 1 .. Len(groups)
  BY <1>1
<1> DEFINE from(i) == groups[i][1].from
           stream(i) == Stream(groups[i], from(i))
           f == [i \in 1 .. Len(groups) |->
                   IF stream(i).out # <<>> /\ ~stream(i).gap
                   THEN <<[from |-> from(i), bytes |-> stream(i).out]>> ELSE <<>>]
<1>3. BuildTurns(events) = FlattenSeq(f)
  BY <1>2 DEF BuildTurns, groups
<1>4. ASSUME NEW i \in 1 .. Len(groups)
      PROVE  from(i) \in Side /\ stream(i).out \in Seq(Letter)
  <2>1. groups[i] \in T
    BY <1>1
  <2>2. groups[i] \in Seq(Event) /\ groups[i] # <<>>
    BY <2>1 DEF T
  <2>3. groups[i][1] \in Event
    BY <2>2
  <2>4. stream(i) \in StreamType
    BY <2>2, StreamIsTyped
  <2> HIDE DEF stream
  <2> QED BY <2>3, <2>4, EventIs DEF StreamType
<1> HIDE DEF from, stream
<1>5. f \in [1 .. Len(groups) -> Seq(PlannedTurn)]
  <2>1. ASSUME NEW i \in 1 .. Len(groups), stream(i).out # <<>>
        PROVE  [from |-> from(i), bytes |-> stream(i).out] \in PlannedTurn
    BY <1>4, <2>1 DEF PlannedTurn
  <2> QED BY <2>1
<1> HIDE DEF f
<1>6. FlattenSeq(f) \in Seq(PlannedTurn)
  BY <1>2, <1>5, FlattenFunction
<1> QED BY <1>3, <1>6

LEMMA FlowsAre ==
  ASSUME AnalysisInv, NEW f \in Flow
  PROVE  /\ Talk(f) \in Seq(Packet) /\ Talk(f) # <<>> /\ Len(Talk(f)) \in Nat \ {0}
         /\ capture.flows[f].isn \in [Side -> Nat]
         /\ passed[f] \in 0 .. Len(Talk(f))
<1>1. capture \in Capture /\ f \in DOMAIN capture.flows /\ passed[f] \in Nat /\ passed[f] <= Len(Talk(f))
  BY DEF AnalysisInv, Flow
<1>2. Talk(f) \in Seq(Packet) /\ Talk(f) # <<>> /\ capture.flows[f].isn \in [Side -> Nat]
  BY <1>1, CaptureAssumption DEF Talk, Packet
<1>3. Len(Talk(f)) \in Nat \ {0}
  BY <1>2
<1>4. passed[f] \in 0 .. Len(Talk(f))
  BY <1>1, <1>3
<1> QED BY <1>2, <1>3, <1>4

(* What a side of a kept flow, or of a flow of the table, has sent.            *)
LEMMA SentIs ==
  ASSUME AnalysisInv, NEW k, k.flow \in Flow, k.client \in Side, NEW side \in Side
  PROVE  /\ Sent(k, side) \in Seq(Letter) /\ Sender(k, side) \in Side
         /\ capture.flows[k.flow].isn[Sender(k, side)] \in Nat
         /\ ShortFlows => Len(Sent(k, side)) < 2 ^ SeqBits
<1> DEFINE f == k.flow
           sender == Sender(k, side)
<1>1. sender \in Side
  BY Sides DEF Sender
<1>2. /\ Talk(f) \in Seq(Packet) /\ capture.flows[f].isn \in [Side -> Nat]
      /\ passed[f] \in 0 .. Len(Talk(f)) /\ Len(Talk(f)) \in Nat
  BY FlowsAre
<1> HIDE DEF sender
<1>3. Sent(k, side) = SentBy(Talk(f), sender, passed[f])
  BY DEF Sent, sender
<1>4. Sent(k, side) \in Seq(Letter)
  BY <1>2, <1>3, SentType
<1>5. ASSUME ShortFlows PROVE Len(Sent(k, side)) < 2 ^ SeqBits
  <2> DEFINE was == SentBy(Talk(f), sender, passed[f])
             all == SentBy(Talk(f), sender, Len(Talk(f)))
  <2>1. Len(all) < 2 ^ SeqBits
    BY <1>1, <1>5 DEF ShortFlows, AnalysisInv, Flow, Talk
  <2>2. passed[f] \in Nat /\ passed[f] <= Len(Talk(f))
    BY <1>2
  <2>3. PICK rest \in Seq(Letter) : all = was \o rest
    <3> DEFINE talk == Talk(f)
               n == passed[f]
               N == Len(Talk(f))
    <3>1. talk \in Seq(Packet) /\ n \in Nat /\ N \in Nat /\ n <= N /\ N <= Len(talk)
      BY <1>2, <2>2
    <3> HIDE DEF talk, n, N
    <3>2. \E rest \in Seq(Letter) : SentBy(talk, sender, N) = SentBy(talk, sender, n) \o rest
      BY ZenonT(90), <3>1, SentGrows
    <3> QED BY <3>2 DEF talk, n, N
  <2>4. was \in Seq(Letter)
    BY <1>3, <1>4
  <2> HIDE DEF was, all
  <2>5. Len(all) = Len(was) + Len(rest) /\ Len(was) \in Nat /\ Len(rest) \in Nat
    BY <2>3, <2>4, JoinedBytes
  <2>6. Len(was) < 2 ^ SeqBits
    BY <2>1, <2>5, CaptureAssumption
  <2> QED BY <1>3, <2>6 DEF was
<1> QED BY <1>1, <1>2, <1>4, <1>5 DEF sender
LEMMA FinishIs ==
  ASSUME AnalysisInv, table \in Seq(EntryAfter(passed))
  PROVE  FinishAnalysis \in Seq(Kept)
<1>1. Len(table) \in Nat /\ DOMAIN table = 1 .. Len(table)
  OBVIOUS
<1> DEFINE up(n) == Stream(table[n].events, "client")
           down(n) == Stream(table[n].events, "server")
           rec(n) == [flow |-> table[n].flow, client |-> table[n].client, up |-> up(n).out,
                      down |-> down(n).out, turns |-> BuildTurns(table[n].events)]
           f == [n \in 1 .. Len(table) |-> IF Keeps(up(n), down(n)) THEN <<rec(n)>> ELSE <<>>]
<1>2. FinishAnalysis = FlattenSeq(f)
  BY <1>1 DEF FinishAnalysis
<1>3. ASSUME NEW n \in 1 .. Len(table), Keeps(up(n), down(n)) PROVE rec(n) \in Kept
  <2> DEFINE entry == table[n]
             k == rec(n)
  <2>1. entry \in EntryAfter(passed)
    BY <1>1
  <2>2. /\ entry.flow \in Flow /\ entry.client \in Side /\ entry.events \in Seq(Event)
        /\ \A i \in 1 .. Len(entry.events) : SentAs(entry.events[i], entry, passed)
    BY <2>1 DEF EntryAfter, EntryType
  <2>3. up(n) \in StreamType /\ down(n) \in StreamType
    BY <2>2, StreamIsTyped
  <2>4. up(n).out # <<>> /\ down(n).out # <<>> /\ ~up(n).gap /\ ~down(n).gap
    BY <1>3 DEF Keeps
  <2>5. BuildTurns(entry.events) \in Seq(PlannedTurn)
    BY <2>2, TurnsAre
  <2>6. /\ k.flow = entry.flow /\ k.client = entry.client
        /\ k.up = up(n).out /\ k.down = down(n).out
    OBVIOUS
  <2>7. k \in KeptType
    <3>1. up(n).out \in Seq(Letter) /\ down(n).out \in Seq(Letter)
      BY <2>3 DEF StreamType
    <3> HIDE DEF up, down
    <3> QED BY <2>2, <2>5, <3>1 DEF KeptType
  <2>8. ASSUME ShortFlows, NEW side \in Side,
               ~Stream(entry.events, side).gap, Stream(entry.events, side).out # <<>>
        PROVE  IsPieceOf(Stream(entry.events, side).out, Sent(k, side))
    <3> DEFINE whole == Sent(entry, side)
               isn == capture.flows[entry.flow].isn[Sender(entry, side)]
    <3>1. whole \in Seq(Letter) /\ isn \in Nat /\ Len(whole) < 2 ^ SeqBits
      BY <2>2, <2>8, SentIs
    <3>2. \A i \in 1 .. Len(entry.events) :
            entry.events[i].from = side => Numbered(entry.events[i], whole, isn)
      BY <2>2 DEF SentAs, Sent
    <3>3. Sent(k, side) = whole
      BY <2>6 DEF Sent, Sender
    <3> HIDE DEF whole, isn, entry, k
    <3>4. IsPieceOf(Stream(entry.events, side).out, whole)
      BY <2>2, <2>8, <3>1, <3>2, StreamIsPiece
    <3> QED BY <3>3, <3>4
  <2>9. ShortFlows => IsPieceOf(k.up, Sent(k, "client")) /\ IsPieceOf(k.down, Sent(k, "server"))
    <3>1. "client" \in Side /\ "server" \in Side
      BY DEF Side
    <3>2. up(n) = Stream(entry.events, "client") /\ down(n) = Stream(entry.events, "server")
      OBVIOUS
    <3> HIDE DEF k, entry, up, down
    <3> QED BY <2>4, <2>6, <2>8, <3>1, <3>2
  <2> HIDE DEF k
  <2>10. k \in Kept
    BY <2>7, <2>9 DEF Kept
  <2> QED BY <2>10 DEF k
<1> HIDE DEF up, down, rec
<1>4. f \in [1 .. Len(table) -> Seq(Kept)]
  BY <1>3
<1> HIDE DEF f
<1> QED BY <1>1, <1>2, <1>4, FlattenFunction

-----------------------------------------------------------------------------
(* Packets                                                                    *)

LEMMA PieceStays ==
  ASSUME NEW whole \in Seq(Letter), NEW rest \in Seq(Letter), NEW bytes \in Seq(Letter),
         bytes # <<>>, NEW p \in 0 .. Len(whole), Piece(bytes, whole, p)
  PROVE  p \in 0 .. Len(whole \o rest) /\ Piece(bytes, whole \o rest, p)
<1>1. /\ Len(whole \o rest) = Len(whole) + Len(rest)
      /\ Len(whole) \in Nat /\ Len(rest) \in Nat /\ Len(bytes) \in Nat \ {0}
  BY JoinedBytes
<1>2. p + Len(bytes) <= Len(whole) /\ bytes = SubSeq(whole, p + 1, p + Len(bytes))
  BY DEF Piece
<1> DEFINE m == p + 1
           n == p + Len(bytes)
<1>3. m \in 1 .. Len(whole) /\ n \in 1 .. Len(whole) /\ n <= Len(whole \o rest)
  BY <1>1, <1>2
<1>4. p \in 0 .. Len(whole \o rest)
  BY <1>1
<1> HIDE DEF m, n
<1>5. SubSeq(whole \o rest, m, n) = SubSeq(whole, m, n)
  BY <1>3, SubSeqOfConcat1
<1> QED BY <1>2, <1>3, <1>4, <1>5 DEF Piece, m, n

LEMMA PieceOfConcat ==
  ASSUME NEW before \in Seq(Letter), NEW bytes \in Seq(Letter), bytes # <<>>,
         NEW rest \in Seq(Letter)
  PROVE  /\ Len(before) \in 0 .. Len((before \o bytes) \o rest)
         /\ Piece(bytes, (before \o bytes) \o rest, Len(before))
<1> DEFINE whole == before \o bytes
           p == Len(before)
           m == p + 1
           n == p + Len(bytes)
<1>1. /\ whole \in Seq(Letter) /\ Len(whole) = p + Len(bytes)
      /\ p \in Nat /\ Len(bytes) \in Nat \ {0}
  BY JoinedBytes
<1>2. SubSeq(whole, m, n) = bytes
  <2>1. m \in Len(before) + 1 .. Len(before) + Len(bytes)
        /\ n \in Len(before) + 1 .. Len(before) + Len(bytes)
        /\ m - Len(before) = 1 /\ n - Len(before) = Len(bytes)
    BY <1>1
  <2> HIDE DEF m, n
  <2>2. SubSeq(whole, m, n) = SubSeq(bytes, m - Len(before), n - Len(before))
    BY <2>1, SubSeqOfConcat2
  <2>3. SubSeq(bytes, 1, Len(bytes)) = bytes
    BY SubSeqFull
  <2> QED BY <2>1, <2>2, <2>3
<1>3. p \in 0 .. Len(whole) /\ Piece(bytes, whole, p)
  BY <1>1, <1>2 DEF Piece
<1> HIDE DEF whole
<1>4. p \in 0 .. Len(whole \o rest) /\ Piece(bytes, whole \o rest, p)
  BY <1>1, <1>3, PieceStays
<1> QED BY <1>4 DEF whole
(* The bytes of packet i, or of packets i and i + 1 of one sender, as an event *)
(* has them.                                                                  *)
LEMMA PacketIsPiece ==
  ASSUME NEW talk \in Seq(Packet), NEW i \in 1 .. Len(talk), NEW j \in 1 .. Len(talk),
         NEW n \in 1 .. Len(talk), j <= n, NEW sender, talk[i].from = sender,
         NEW bytes \in Seq(Letter), bytes # <<>>,
         \/ j = i /\ bytes = talk[i].bytes
         \/ j = i + 1 /\ talk[j].from = sender /\ bytes = talk[i].bytes \o talk[j].bytes
  PROVE  /\ Len(SentBy(talk, sender, i - 1)) \in 0 .. Len(SentBy(talk, sender, n))
         /\ Piece(bytes, SentBy(talk, sender, n), Len(SentBy(talk, sender, i - 1)))
<1> DEFINE before == SentBy(talk, sender, i - 1)
           b == talk[i].bytes
<1>1. /\ i - 1 \in Nat /\ (i - 1) + 1 = i /\ i \in Nat /\ j \in Nat /\ n \in Nat
      /\ n <= Len(talk) /\ i <= Len(talk) /\ j <= Len(talk)
  OBVIOUS
<1>2. \A m \in 1 .. Len(talk) : talk[m].bytes \in Seq(Letter)
  <2> TAKE m \in 1 .. Len(talk)
  <2>1. talk[m] \in Packet
    OBVIOUS
  <2> QED BY <2>1 DEF Packet
<1>3. before \in Seq(Letter) /\ SentBy(talk, sender, i) = before \o b
  <2>1. /\ SentBy(talk, sender, i - 1) \in Seq(Letter)
        /\ SentBy(talk, sender, (i - 1) + 1) =
             SentBy(talk, sender, i - 1) \o
               IF talk[(i - 1) + 1].from = sender THEN talk[(i - 1) + 1].bytes ELSE <<>>
    BY <1>1, SentStep
  <2> QED BY <1>1, <2>1, Zenon
<1>4. SentBy(talk, sender, j) = before \o bytes
  <2>1. CASE j = i /\ bytes = talk[i].bytes
    BY <1>3, <2>1
  <2>2. CASE j = i + 1 /\ talk[j].from = sender /\ bytes = talk[i].bytes \o talk[j].bytes
    <3>1. /\ SentBy(talk, sender, i + 1) =
               SentBy(talk, sender, i) \o IF talk[i + 1].from = sender THEN talk[i + 1].bytes ELSE <<>>
      BY <1>1, <2>2, SentStep
    <3> DEFINE c == talk[j].bytes
    <3>2. SentBy(talk, sender, j) = (before \o b) \o c
      BY <1>3, <2>2, <3>1, Zenon
    <3>3. b \in Seq(Letter) /\ c \in Seq(Letter) /\ before \in Seq(Letter)
      BY <1>2, <1>3
    <3>4. bytes = b \o c
      BY <2>2
    <3> HIDE DEF before, b, c
    <3>5. \A x, y, z \in Seq(Letter) : (x \o y) \o z = x \o (y \o z)
      BY JoinedBytes
    <3>6. (before \o b) \o c = before \o (b \o c)
      BY <3>3, <3>5, Zenon
    <3> QED BY <3>2, <3>4, <3>6
  <2> QED BY <2>1, <2>2
<1>5. PICK rest \in Seq(Letter) : SentBy(talk, sender, n) = SentBy(talk, sender, j) \o rest
  <2>1. j \in Nat /\ n \in Nat /\ j <= n /\ n <= Len(talk)
    BY <1>1
  <2> HIDE DEF before, b
  <2>2. \E rest \in Seq(Letter) : SentBy(talk, sender, n) = SentBy(talk, sender, j) \o rest
    BY <2>1, SentGrows, ZenonT(90)
  <2> QED BY <2>2
<1> DEFINE whole == (before \o bytes) \o rest
<1>6. SentBy(talk, sender, n) = whole
  BY <1>4, <1>5
<1> HIDE DEF before
<1>7. Len(before) \in 0 .. Len(whole) /\ Piece(bytes, whole, Len(before))
  BY <1>3, PieceOfConcat
<1> HIDE DEF whole
<1> QED BY <1>6, <1>7 DEF before

LEMMA TurnOfIsNat ==
  ASSUME NEW f, NEW i \in Nat
  PROVE  TurnOf(f, i) \in Nat
<1> DEFINE T == {j \in 1 .. i - 1 : j = 1 \/ Talk(f)[j].from # Talk(f)[j + 1].from}
<1>1. IsFiniteSet(1 .. i - 1)
  BY FS_Interval
<1>2. T \subseteq 1 .. i - 1
  OBVIOUS
<1> HIDE DEF T
<1>3. IsFiniteSet(T)
  BY <1>1, <1>2, FS_Subset
<1>4. Cardinality(T) \in Nat
  BY <1>3, FS_CardinalityType
<1> QED BY <1>4 DEF TurnOf, T

(* parse_ethernet, for a table of whatever entries.                           *)
LEMMA ParsedIn ==
  ASSUME NEW X, table \in Seq(X), NEW f, NEW i, NEW bytes,
         [flow |-> f, client |-> Talk(f)[i].from, events |-> <<>>] \in X,
         \A entry \in X : entry.flow = f /\ bytes # <<>> =>
           [entry EXCEPT !.events =
              Append(@, [from |-> IF Talk(f)[i].from = entry.client THEN "client" ELSE "server",
                         number |-> SequenceNumber(f, i), bytes |-> bytes,
                         turn |-> TurnOf(f, i)])] \in X
  PROVE  Parsed(f, i, bytes) \in Seq(X)
<1> DEFINE from == Talk(f)[i].from
           I == {m \in 1 .. Len(table) : table[m].flow = f}
           known == SelectInSeq(table, LAMBDA entry : entry.flow = f)
           fresh == [flow |-> f, client |-> from, events |-> <<>>]
           entries == IF known > 0 THEN table ELSE Append(table, fresh)
           n == IF known > 0 THEN known ELSE Len(entries)
           event == [from |-> IF from = entries[n].client THEN "client" ELSE "server",
                     number |-> SequenceNumber(f, i), bytes |-> bytes, turn |-> TurnOf(f, i)]
           new == [entries[n] EXCEPT !.events = Append(@, event)]
<1>1. Parsed(f, i, bytes) = IF bytes = <<>> THEN entries ELSE [entries EXCEPT ![n] = new]
  BY DEF Parsed
<1>2. Len(table) \in Nat /\ fresh \in X
  OBVIOUS
<1>3. known \in 0 .. Len(table) /\ (known > 0 => table[known].flow = f)
  <2>1. known = IF I # {} THEN Min(I) ELSE 0
    BY DEF SelectInSeq
  <2>2. I \subseteq Nat
    OBVIOUS
  <2>3. I # {} => Min(I) \in I
    BY <2>2, MinOf
  <2> HIDE DEF known
  <2>4. CASE I = {}
    BY <1>2, <2>1, <2>4
  <2>5. CASE I # {}
    <3>1. known \in I
      BY <2>1, <2>3, <2>5
    <3> QED BY <1>2, <3>1
  <2> QED BY <2>4, <2>5
<1> HIDE DEF known, fresh
<1>4. entries \in Seq(X) /\ n \in 1 .. Len(entries) /\ entries[n].flow = f
  <2>1. CASE known > 0
    BY <1>2, <1>3, <2>1
  <2>2. CASE ~(known > 0)
    <3>1. entries = Append(table, fresh) /\ n = Len(entries)
      BY <2>2
    <3>2. /\ Append(table, fresh) \in Seq(X) /\ Len(Append(table, fresh)) = Len(table) + 1
          /\ Append(table, fresh)[Len(table) + 1] = fresh
      BY <1>2
    <3>3. fresh.flow = f
      BY DEF fresh
    <3> HIDE DEF entries, n
    <3> QED BY <1>2, <3>1, <3>2, <3>3
  <2> QED BY <2>1, <2>2
<1>5. entries[n] \in X
  BY <1>4
<1>6. bytes # <<>> => new \in X
  <2> HIDE DEF entries, n
  <2> QED BY <1>4, <1>5
<1> HIDE DEF entries, n, new
<1>7. bytes # <<>> => [entries EXCEPT ![n] = new] \in Seq(X)
  BY <1>4, <1>6
<1> QED BY <1>1, <1>4, <1>7
(* What was sent stays what was sent.                                         *)
LEMMA EntriesStay ==
  ASSUME AnalysisInv, capture' = capture,
         \A g \in Flow : passed'[g] \in 0 .. Len(Talk(g)) /\ passed[g] <= passed'[g]
  PROVE  EntryAfter(passed) \subseteq EntryAfter(passed')
<1> SUFFICES ASSUME NEW entry \in EntryAfter(passed) PROVE entry \in EntryAfter(passed')
  OBVIOUS
<1>1. /\ entry \in EntryType /\ entry.flow \in Flow /\ entry.client \in Side
      /\ entry.events \in Seq(Event)
      /\ \A i \in 1 .. Len(entry.events) :
           /\ SentAs(entry.events[i], entry, passed)
           /\ OfPacket(entry.events[i], entry, passed[entry.flow])
  BY DEF EntryAfter, EntryType
<1>2. ASSUME NEW i \in 1 .. Len(entry.events)
      PROVE  OfPacket(entry.events[i], entry, passed'[entry.flow])
  <2> DEFINE m == passed[entry.flow]
             n == passed'[entry.flow]
  <2>1. m \in Nat /\ n \in Nat /\ m <= n
    <3>1. m \in 0 .. Len(Talk(entry.flow)) /\ n \in 0 .. Len(Talk(entry.flow)) /\ m <= n
      BY <1>1, FlowsAre
    <3> QED BY <3>1
  <2>2. OfPacket(entry.events[i], entry, m)
    BY <1>1
  <2> HIDE DEF m, n
  <2>3. \A p : (p \in 1 .. m => p \in 1 .. n) /\ (p + 1 <= m /\ p \in 1 .. m => p + 1 <= n)
    BY <2>1
  <2>4. OfPacket(entry.events[i], entry, n)
    BY <2>2, <2>3 DEF OfPacket
  <2> QED BY <2>4 DEF n
<1>3. ASSUME NEW i \in 1 .. Len(entry.events) PROVE SentAs(entry.events[i], entry, passed')
  <2> DEFINE e == entry.events[i]
             f == entry.flow
             sender == Sender(entry, e.from)
             isn == capture.flows[f].isn[sender]
             talk == Talk(f)
             whole == SentBy(talk, sender, passed[f])
             more == SentBy(talk, sender, passed'[f])
  <2>1. e \in Event
    BY <1>1
  <2>2. e.from \in Side /\ e.bytes \in Seq(Letter) /\ e.bytes # <<>>
    BY <2>1, EventIs
  <2>3. Numbered(e, whole, isn)
    BY <1>1 DEF SentAs
  <2>4. /\ talk \in Seq(Packet) /\ passed[f] \in Nat /\ passed'[f] \in Nat
        /\ passed[f] <= passed'[f] /\ passed'[f] <= Len(talk)
    BY <1>1, FlowsAre
  <2>5. PICK rest \in Seq(Letter) : more = whole \o rest
    <3> DEFINE m == passed[f]
               n == passed'[f]
    <3>1. m \in Nat /\ n \in Nat /\ m <= n /\ n <= Len(talk) /\ talk \in Seq(Packet)
      BY <2>4
    <3> HIDE DEF m, n, talk, sender
    <3>2. \E rest \in Seq(Letter) : SentBy(talk, sender, n) = SentBy(talk, sender, m) \o rest
      BY ZenonT(90), <3>1, SentGrows
    <3> QED BY <3>2 DEF m, n
  <2>6. whole \in Seq(Letter)
    <3>1. passed[f] \in 0 .. Len(talk)
      BY <2>4
    <3> HIDE DEF talk, sender
    <3> QED BY <2>4, <3>1, SentType
  <2>7. PICK p \in 0 .. Len(whole) : e.number = (isn + p) % 2 ^ SeqBits /\ Piece(e.bytes, whole, p)
    BY <2>3 DEF Numbered
  <2> HIDE DEF whole, more, e, isn
  <2>8. p \in 0 .. Len(more) /\ Piece(e.bytes, more, p)
    BY <2>2, <2>5, <2>6, <2>7, PieceStays
  <2>9. Numbered(e, more, isn)
    BY <2>7, <2>8 DEF Numbered
  <2> QED BY <2>9 DEF SentAs, isn, e, more
<1> QED BY <1>1, <1>2, <1>3 DEF EntryAfter

(* What is seen is told by a packet with bytes: the second of two, if the      *)
(* first has none.                                                            *)
LEMMA EventOfPacket ==
  ASSUME AnalysisInv, NEW f \in Flow, NEW n, NEW i \in 1 .. Len(Talk(f)),
         NEW j \in 1 .. Len(Talk(f)), n \in Nat, j <= n, n <= Len(Talk(f)),
         NEW e, NEW entry, entry.flow = f, Sender(entry, e.from) = Talk(f)[i].from,
         e.number = SequenceNumber(f, i), e.turn = TurnOf(f, i), e.bytes # <<>>,
         \/ j = i /\ e.bytes = Talk(f)[i].bytes
         \/ /\ i > 1 /\ j = i + 1 /\ Talk(f)[j].from = Talk(f)[i].from
            /\ e.bytes = Talk(f)[i].bytes \o Talk(f)[j].bytes
  PROVE  OfPacket(e, entry, n)
<1> DEFINE talk == Talk(f)
           sender == talk[i].from
<1>1. talk \in Seq(Packet) /\ Len(talk) \in Nat
  BY FlowsAre
<1>2. i \in Nat /\ j \in Nat /\ i \in 1 .. n /\ (j = i + 1 => i + 1 <= n) /\ j \in 1 .. n
  <2>1. i >= 1 /\ j >= 1 /\ i \in Nat /\ j \in Nat
    BY <1>1
  <2>2. j = i \/ j = i + 1
    OBVIOUS
  <2> HIDE DEF talk
  <2> QED BY <2>1, <2>2
<1>3. CASE talk[i].bytes # <<>>
  BY <1>2, <1>3 DEF OfPacket
<1>4. CASE talk[i].bytes = <<>>
  <2>1. /\ i > 1 /\ j = i + 1 /\ talk[j].from = sender /\ e.bytes = talk[i].bytes \o talk[j].bytes
    BY <1>4
  <2>2. e.bytes = talk[j].bytes
    <3> DEFINE b == talk[j].bytes
    <3>1. b \in Seq(Letter)
      <4>1. talk[j] \in Packet
        BY <1>1
      <4> QED BY <4>1 DEF Packet
    <3>2. e.bytes = <<>> \o b
      BY <1>4, <2>1
    <3> HIDE DEF b
    <3>3. <<>> \o b = b
      BY <3>1, JoinedBytes
    <3> QED BY <3>2, <3>3 DEF b
  <2>3. SequenceNumber(f, j) = SequenceNumber(f, i)
    <3>1. SentBy(talk, sender, i) = SentBy(talk, sender, i - 1)
      <4> DEFINE m == i - 1
                 s == SentBy(talk, sender, m)
      <4>1. m \in Nat /\ m + 1 = i /\ m + 1 <= Len(talk)
        BY <1>2, <1>1
      <4> HIDE DEF m
      <4>2. s \in Seq(Letter) /\ SentBy(talk, sender, m + 1) =
              s \o IF talk[m + 1].from = sender THEN talk[m + 1].bytes ELSE <<>>
        <5> HIDE DEF talk, sender, s
        <5>1. /\ SentBy(talk, sender, m) \in Seq(Letter)
              /\ SentBy(talk, sender, m + 1) =
                   SentBy(talk, sender, m) \o
                     IF talk[m + 1].from = sender THEN talk[m + 1].bytes ELSE <<>>
          BY <1>1, <4>1, SentStep
        <5> QED BY <5>1, Zenon DEF s
      <4>3. SentBy(talk, sender, i) = s \o <<>>
        BY <1>4, <4>1, <4>2
      <4> HIDE DEF s
      <4>4. s \o <<>> = s
        BY <4>2, JoinedBytes
      <4> QED BY <4>3, <4>4 DEF s, m
    <3>2. j - 1 = i
      BY <1>2, <2>1
    <3> QED BY <2>1, <3>1, <3>2 DEF SequenceNumber
  <2>4. TurnOf(f, j) = TurnOf(f, i)
    <3>1. {x \in 1 .. j - 1 : x = 1 \/ talk[x].from # talk[x + 1].from} =
            {x \in 1 .. i - 1 : x = 1 \/ talk[x].from # talk[x + 1].from}
      <4>1. \A x : x \in 1 .. j - 1 <=> (x \in 1 .. i - 1 \/ x = i)
        BY <1>2, <2>1
      <4>2. i # 1 /\ talk[i].from = talk[i + 1].from
        BY <1>2, <2>1
      <4> HIDE DEF talk
      <4> QED BY <4>1, <4>2
    <3> QED BY <3>1 DEF TurnOf
  <2>5. talk[j].bytes # <<>>
    BY <2>2
  <2> QED BY <1>2, <2>1, <2>2, <2>3, <2>4, <2>5 DEF OfPacket
<1> QED BY <1>3, <1>4

LEMMA WithEvent ==
  ASSUME NEW entry \in EntryType, NEW e \in Event
  PROVE  LET new == [entry EXCEPT !.events = Append(@, e)]
         IN  /\ new \in EntryType /\ new.flow = entry.flow /\ new.client = entry.client
             /\ new.events = Append(entry.events, e)
BY DEF EntryType

(* A packet that has passed, or two that go together, are seen.               *)
LEMMA TableStep ==
  ASSUME AnalysisInv, phase = "capturing", capture' = capture, NEW f \in Flow,
         \A g \in Flow : passed'[g] \in 0 .. Len(Talk(g)) /\ passed[g] <= passed'[g],
         NEW i \in 1 .. Len(Talk(f)), NEW j \in 1 .. passed'[f], NEW bytes,
         \/ j = i /\ bytes = Talk(f)[i].bytes
         \/ /\ i > 1 /\ j = i + 1 /\ Talk(f)[j].from = Talk(f)[i].from
            /\ bytes = Talk(f)[i].bytes \o Talk(f)[j].bytes,
         table' = Parsed(f, i, bytes)
  PROVE  table' \in Seq(EntryAfter(passed'))
<1> DEFINE talk == Talk(f)
           sender == talk[i].from
           n == passed'[f]
           number == SequenceNumber(f, i)
           X == EntryAfter(passed')
           event(entry) == [from |-> IF sender = entry.client THEN "client" ELSE "server",
                            number |-> number, bytes |-> bytes, turn |-> TurnOf(f, i)]
           isn == capture.flows[f].isn[sender]
           p == Len(SentBy(talk, sender, i - 1))
           whole == SentBy(talk, sender, n)
<1>1. table \in Seq(X)
  <2>1. table \in Seq(EntryAfter(passed)) /\ EntryAfter(passed) \subseteq X
    BY EntriesStay DEF AnalysisInv
  <2> HIDE DEF X
  <2> QED BY <2>1
<1>2. /\ talk \in Seq(Packet) /\ Len(talk) \in Nat /\ capture.flows[f].isn \in [Side -> Nat]
      /\ n \in 1 .. Len(talk) /\ j <= n /\ j \in 1 .. Len(talk)
  <2>1. talk \in Seq(Packet) /\ Len(talk) \in Nat /\ capture.flows[f].isn \in [Side -> Nat]
    BY FlowsAre
  <2>2. n \in 0 .. Len(talk)
    OBVIOUS
  <2> HIDE DEF talk, n
  <2> QED BY <2>1, <2>2 DEF n
<1>3. \A m \in 1 .. Len(talk) : talk[m].from \in Side /\ talk[m].bytes \in Seq(Letter)
  <2> HIDE DEF talk
  <2> TAKE m \in 1 .. Len(talk)
  <2>1. talk[m] \in Packet
    BY <1>2
  <2> QED BY <2>1 DEF Packet
<1>4. sender \in Side /\ bytes \in Seq(Letter) /\ isn \in Nat
  <2>1. sender \in Side /\ talk[i].bytes \in Seq(Letter) /\ talk[j].bytes \in Seq(Letter)
    BY <1>2, <1>3
  <2>2. talk[i].bytes \o talk[j].bytes \in Seq(Letter)
    <3> DEFINE b == talk[i].bytes
               c == talk[j].bytes
    <3>1. b \in Seq(Letter) /\ c \in Seq(Letter)
      BY <2>1
    <3> HIDE DEF b, c
    <3>2. b \o c \in Seq(Letter)
      BY <3>1, JoinedBytes
    <3> QED BY <3>2 DEF b, c
  <2>3. bytes = talk[i].bytes \/ bytes = talk[i].bytes \o talk[j].bytes
    OBVIOUS
  <2>4. bytes \in Seq(Letter)
    BY <2>1, <2>2, <2>3
  <2> QED BY <1>2, <2>1, <2>4
<1>5. number = (isn + p) % 2 ^ SeqBits
  BY DEF SequenceNumber
<1>6. number \in 0 .. 2 ^ SeqBits - 1
  <2> DEFINE M == 2 ^ SeqBits
             a == isn + p
  <2>1. M \in Nat \ {0}
    BY CaptureAssumption
  <2>2. p \in Nat
    <3>1. i - 1 \in 0 .. Len(talk)
      BY <1>2
    <3> HIDE DEF talk, sender
    <3>2. SentBy(talk, sender, i - 1) \in Seq(Letter)
      BY <1>2, <3>1, SentType
    <3> QED BY <3>2
  <2>3. a \in Nat
    BY <1>4, <2>2
  <2> HIDE DEF M, a
  <2>4. a % M \in 0 .. M - 1
    BY <2>1, <2>3
  <2> QED BY <1>5, <2>4 DEF M, a
<1>7. bytes # <<>> => p \in 0 .. Len(whole) /\ Piece(bytes, whole, p)
  <2> HIDE DEF talk, n, sender
  <2>1. talk[i].from = sender /\ i \in 1 .. Len(talk)
    BY DEF talk, sender
  <2>2. \/ j = i /\ bytes = talk[i].bytes
        \/ j = i + 1 /\ talk[j].from = sender /\ bytes = talk[i].bytes \o talk[j].bytes
    BY DEF talk, sender
  <2> QED BY <1>2, <1>4, <2>1, <2>2, PacketIsPiece
<1>9. TurnOf(f, i) \in Nat
  BY TurnOfIsNat
<1>10. [flow |-> f, client |-> sender, events |-> <<>>] \in X
  <2> DEFINE entry == [flow |-> f, client |-> sender, events |-> <<>>]
  <2>1. <<>> \in Seq(Event) /\ Len(<<>>) = 0
    OBVIOUS
  <2>2. entry \in EntryType
    BY <1>4, <2>1 DEF EntryType
  <2>3. 1 .. Len(entry.events) = {}
    BY <2>1
  <2> HIDE DEF entry
  <2> QED BY <2>2, <2>3 DEF EntryAfter, entry
<1>11. ASSUME NEW entry \in X, entry.flow = f, bytes # <<>>
       PROVE  [entry EXCEPT !.events = Append(@, event(entry))] \in X
  <2> DEFINE e == event(entry)
             new == [entry EXCEPT !.events = Append(@, e)]
  <2>1. /\ entry \in EntryType /\ entry.client \in Side /\ entry.events \in Seq(Event)
        /\ \A m \in 1 .. Len(entry.events) :
             /\ SentAs(entry.events[m], entry, passed')
             /\ OfPacket(entry.events[m], entry, passed'[entry.flow])
    <3>1. /\ entry \in EntryType
          /\ \A m \in 1 .. Len(entry.events) :
               /\ SentAs(entry.events[m], entry, passed')
               /\ OfPacket(entry.events[m], entry, passed'[entry.flow])
      BY DEF EntryAfter
    <3> QED BY <3>1 DEF EntryType
  <2>2. /\ e.from = IF sender = entry.client THEN "client" ELSE "server"
        /\ e.number = number /\ e.bytes = bytes /\ e.turn = TurnOf(f, i)
    OBVIOUS
  <2>3. e \in Event
    <3>1. e.from \in Side
      BY <2>2 DEF Side
    <3> HIDE DEF number
    <3> QED BY <1>4, <1>6, <1>9, <1>11, <3>1 DEF Event
  <2>4. Sender(entry, e.from) = sender
    <3>1. entry.client \in {"client", "server"} /\ sender \in {"client", "server"}
      BY <1>4, <2>1 DEF Side
    <3> HIDE DEF e, sender
    <3> QED BY <2>2, <3>1 DEF Sender, Other
  <2> HIDE DEF e
  <2>5. /\ new \in EntryType /\ new.flow = entry.flow /\ new.client = entry.client
        /\ new.events = Append(entry.events, e)
    <3>1. entry \in EntryType /\ e \in Event
      BY <2>1, <2>3
    <3> QED BY <3>1, WithEvent
  <2> HIDE DEF new
  <2>6. \A any : SentAs(any, new, passed') <=> SentAs(any, entry, passed')
    BY <2>5 DEF SentAs, Sender
  <2>6a. \A any, m : OfPacket(any, new, m) <=> OfPacket(any, entry, m)
    BY <2>5 DEF OfPacket, Sender
  <2>6b. OfPacket(e, entry, passed'[entry.flow])
    <3> DEFINE q == passed'[f]
    <3>1. q \in Nat /\ j <= q /\ q <= Len(Talk(f)) /\ j \in 1 .. Len(Talk(f))
      BY <1>2
    <3>2. /\ Sender(entry, e.from) = Talk(f)[i].from /\ e.number = SequenceNumber(f, i)
          /\ e.turn = TurnOf(f, i) /\ e.bytes # <<>> /\ e.bytes = bytes
      BY <1>11, <2>2, <2>4
    <3>3. \/ j = i /\ e.bytes = Talk(f)[i].bytes
          \/ /\ i > 1 /\ j = i + 1 /\ Talk(f)[j].from = Talk(f)[i].from
             /\ e.bytes = Talk(f)[i].bytes \o Talk(f)[j].bytes
      BY <3>2
    <3> HIDE DEF q, talk, sender, n, number, X, event, isn, p, whole
    <3>4. OfPacket(e, entry, q)
      BY <1>11, <3>1, <3>2, <3>3, EventOfPacket
    <3> QED BY <1>11, <3>4 DEF q
  <2>7. SentAs(e, entry, passed')
    <3>2. Numbered(e, whole, isn)
      <4> HIDE DEF whole, p, isn, number
      <4> QED BY <1>5, <1>7, <1>11, <2>2 DEF Numbered
    <3> QED BY <1>11, <2>4, <3>2 DEF SentAs
  <2>8. ASSUME NEW m \in 1 .. Len(new.events)
        PROVE  /\ SentAs(new.events[m], new, passed')
               /\ OfPacket(new.events[m], new, passed'[new.flow])
    <3>1. CASE m \in 1 .. Len(entry.events)
      <4>1. new.events[m] = entry.events[m]
        BY <2>1, <2>3, <2>5, <3>1
      <4> QED BY <2>1, <2>5, <2>6, <2>6a, <3>1, <4>1
    <3>2. CASE m = Len(entry.events) + 1
      <4>1. new.events[m] = e
        BY <2>1, <2>3, <2>5, <3>2
      <4> QED BY <2>5, <2>6, <2>6a, <2>6b, <2>7, <4>1
    <3>3. m \in 1 .. Len(entry.events) \/ m = Len(entry.events) + 1
      BY <2>1, <2>3, <2>5
    <3> QED BY <3>1, <3>2, <3>3
  <2>9. new \in X
    BY <2>5, <2>8 DEF EntryAfter
  <2> QED BY <2>9 DEF new, e
<1> HIDE DEF X, event
<1>12. Parsed(f, i, bytes) \in Seq(X)
  <2>1. \A entry \in X : entry.flow = f /\ bytes # <<>> =>
          [entry EXCEPT !.events =
             Append(@, [from |-> IF Talk(f)[i].from = entry.client THEN "client" ELSE "server",
                        number |-> SequenceNumber(f, i), bytes |-> bytes,
                        turn |-> TurnOf(f, i)])] \in X
    BY <1>11 DEF event
  <2>2. [flow |-> f, client |-> Talk(f)[i].from, events |-> <<>>] \in X
    BY <1>10
  <2> QED BY <1>1, <2>1, <2>2, ParsedIn
<1> QED BY <1>12 DEF X
LEMMA InitAnalysis ==
  ASSUME Init
  PROVE  AnalysisInv
<1>1. capture \in Capture /\ phase = "capturing" /\ passed = [f \in Flow |-> 0] /\ table = <<>>
  BY DEF Init
<1>2. table \in Seq(EntryAfter(passed))
  <2> DEFINE X == EntryAfter(passed)
  <2> HIDE DEF X
  <2>1. <<>> \in Seq(X)
    OBVIOUS
  <2> QED BY <1>1, <2>1 DEF X
<1>3. \A f \in Flow : passed[f] <= Len(Talk(f))
  <2> TAKE f \in Flow
  <2>1. Talk(f) \in Seq(Packet)
    BY <1>1, CaptureAssumption DEF Flow, Talk, Packet
  <2>2. Len(Talk(f)) \in Nat
    BY <2>1
  <2> QED BY <1>1, <2>2
<1>4. passed \in [Flow -> Nat]
  BY <1>1
<1> QED BY <1>1, <1>2, <1>3, <1>4 DEF AnalysisInv

(* A step of the capture.                                                     *)
LEMMA CaptureStep ==
  ASSUME AnalysisInv, phase = "capturing", phase' = phase, capture' = capture,
         \A g \in Flow : passed'[g] \in 0 .. Len(Talk(g)),
         passed' \in [Flow -> Nat], table' \in Seq(EntryAfter(passed'))
  PROVE  AnalysisInv'
<1>1. Flow' = Flow /\ \A g : Talk(g)' = Talk(g)
  BY DEF Flow, Talk
<1>2. \A g \in Flow : passed'[g] <= Len(Talk(g))
  <2> TAKE g \in Flow
  <2>1. Len(Talk(g)) \in Nat
    BY FlowsAre
  <2> QED BY <2>1
<1>3. EntryAfter(passed)' = EntryAfter(passed')
  <2>1. EntryType' = EntryType
    BY <1>1 DEF EntryType
  <2>2. \A e, entry : SentAs(e, entry, passed)' = SentAs(e, entry, passed')
    BY <1>1 DEF SentAs, Sender
  <2>3. \A e, entry, n : OfPacket(e, entry, n)' = OfPacket(e, entry, n)
    BY DEF OfPacket, SequenceNumber, TurnOf, Talk, Sender
  <2> QED BY <2>1, <2>2, <2>3 DEF EntryAfter
<1> QED BY <1>1, <1>2, <1>3 DEF AnalysisInv

LEMMA AnalysisStep ==
  ASSUME AnalysisInv, [Next]_vars
  PROVE  AnalysisInv'
<1> USE DEF Capturing
<1>0. \A g \in Flow : passed[g] \in 0 .. Len(Talk(g)) /\ Len(Talk(g)) \in Nat
  BY FlowsAre
<1>1. passed \in [Flow -> Nat]
  BY DEF AnalysisInv
<1>2. ASSUME NEW f \in Flow, Passes(f)
      PROVE  /\ passed' \in [Flow -> Nat] /\ passed[f] + 1 \in 1 .. Len(Talk(f))
             /\ passed'[f] = passed[f] + 1
             /\ \A g \in Flow : passed'[g] \in 0 .. Len(Talk(g)) /\ passed[g] <= passed'[g]
  <2>1. passed[f] < Len(Talk(f)) /\ passed' = [passed EXCEPT ![f] = passed[f] + 1]
    BY <1>2 DEF Passes
  <2>2. passed[f] \in Nat /\ passed[f] + 1 \in 1 .. Len(Talk(f))
    BY <1>0, <2>1
  <2>3. \A g \in Flow : passed'[g] = IF g = f THEN passed[f] + 1 ELSE passed[g]
    BY <1>1, <2>1
  <2>4. passed' \in [Flow -> Nat]
    BY <1>1, <2>1, <2>2
  <2> HIDE <1>0
  <2>5. ASSUME NEW g \in Flow
        PROVE  passed'[g] \in 0 .. Len(Talk(g)) /\ passed[g] <= passed'[g]
    <3>1. passed[g] \in 0 .. Len(Talk(g)) /\ Len(Talk(g)) \in Nat
      BY <1>0
    <3>2. CASE g = f
      BY <2>2, <2>3, <3>1, <3>2
    <3>3. CASE g # f
      BY <2>3, <3>1, <3>3
    <3> QED BY <3>2, <3>3
  <2>6. passed'[f] = passed[f] + 1
    BY <2>3
  <2> QED BY <2>2, <2>4, <2>5, <2>6
<1>3. ASSUME NEW f \in Flow, Seen(f) PROVE AnalysisInv'
  <2> DEFINE i == passed[f] + 1
  <2>1. /\ phase = "capturing" /\ phase' = phase /\ capture' = capture /\ Passes(f)
        /\ table' = Parsed(f, i, Talk(f)[i].bytes)
    BY <1>3 DEF Seen
  <2>2. i \in 1 .. Len(Talk(f)) /\ i \in 1 .. passed'[f]
    BY <1>2, <2>1
  <2> HIDE DEF i
  <2>3. table' \in Seq(EntryAfter(passed'))
    BY <1>2, <2>1, <2>2, TableStep
  <2> QED BY <1>2, <2>1, <2>3, CaptureStep
<1>4. ASSUME NEW f \in Flow, Miss(f) PROVE AnalysisInv'
  <2>1. /\ phase = "capturing" /\ phase' = phase /\ capture' = capture /\ Passes(f)
        /\ table' = table
    BY <1>4 DEF Miss
  <2> DEFINE X == EntryAfter(passed')
  <2>2. table \in Seq(EntryAfter(passed)) /\ EntryAfter(passed) \subseteq X
    BY <1>2, <2>1, EntriesStay DEF AnalysisInv
  <2> HIDE DEF X
  <2>3. table' \in Seq(X)
    BY <2>1, <2>2
  <2> QED BY <1>2, <2>1, <2>3, CaptureStep DEF X
<1>5. ASSUME NEW f \in Flow, NEW i \in DOMAIN Talk(f), CaptureAgain(f, i) \/ CaptureTwo(f, i)
      PROVE  AnalysisInv'
  <2>1. phase = "capturing" /\ phase' = phase /\ capture' = capture /\ passed' = passed
    BY <1>5 DEF CaptureAgain, CaptureTwo
  <2>2. /\ i \in 1 .. Len(Talk(f)) /\ passed[f] \in 0 .. Len(Talk(f))
        /\ \A g \in Flow : passed'[g] \in 0 .. Len(Talk(g)) /\ passed[g] <= passed'[g]
    <3>1. Talk(f) \in Seq(Packet)
      BY FlowsAre
    <3>2. DOMAIN Talk(f) = 1 .. Len(Talk(f))
      BY <3>1
    <3> QED BY <1>0, <2>1, <3>2
  <2>3. CASE CaptureAgain(f, i)
    <3>1. i <= passed[f] /\ table' = Parsed(f, i, Talk(f)[i].bytes)
      BY <2>3 DEF CaptureAgain
    <3>2. i \in 1 .. passed'[f]
      BY <2>1, <2>2, <3>1
    <3>3. table' \in Seq(EntryAfter(passed'))
      BY <2>1, <2>2, <3>1, <3>2, TableStep
    <3> QED BY <1>1, <2>1, <2>2, <3>3, CaptureStep
  <2>4. CASE CaptureTwo(f, i)
    <3> DEFINE j == i + 1
    <3>1. /\ i > 1 /\ i < passed[f] /\ Talk(f)[i].from = Talk(f)[j].from
          /\ table' = Parsed(f, i, Talk(f)[i].bytes \o Talk(f)[j].bytes)
      BY <2>4 DEF CaptureTwo
    <3>2. j \in 1 .. passed'[f] /\ j = i + 1
      BY <2>1, <2>2, <3>1
    <3> HIDE DEF j
    <3>3. table' \in Seq(EntryAfter(passed'))
      BY <2>1, <2>2, <3>1, <3>2, TableStep
    <3> QED BY <1>1, <2>1, <2>2, <3>3, CaptureStep
  <2> QED BY <1>5, <2>3, <2>4
<1>6. ASSUME Analyse PROVE AnalysisInv'
  <2>1. /\ phase = "capturing" /\ phase' = "analysed" /\ kept' = FinishAnalysis
        /\ UNCHANGED <<capture, passed, table>>
    BY <1>6 DEF Analyse, captureVars
  <2>2. table \in Seq(EntryAfter(passed))
    BY <2>1 DEF AnalysisInv
  <2>3. kept' \in Seq(Kept) /\ FinishAnalysis' = FinishAnalysis
    BY <2>1, <2>2, FinishIs DEF FinishAnalysis
  <2>4. /\ Kept' = Kept /\ EntryAfter(passed)' = EntryAfter(passed)
        /\ Flow' = Flow /\ \A g : Talk(g)' = Talk(g)
    BY <2>1 DEF Kept, KeptType, EntryAfter, EntryType, SentAs, OfPacket, SequenceNumber, TurnOf,
                Sent, Sender, Flow, Talk
  <2> QED BY <2>1, <2>2, <2>3, <2>4 DEF AnalysisInv
<1>7. ASSUME MakePlan PROVE AnalysisInv'
  <2>1. capture' = capture /\ phase' \in {"replaying", "refused"} /\ passed' = [f \in Flow |-> 0]
    BY <1>7 DEF MakePlan
  <2>2. Flow' = Flow /\ \A g : Talk(g)' = Talk(g)
    BY <2>1 DEF Flow, Talk
  <2>3. \A g \in Flow : passed'[g] <= Len(Talk(g))
    BY <1>0, <2>1
  <2> QED BY <2>1, <2>2, <2>3 DEF AnalysisInv
<1>8. ASSUME UNCHANGED <<captureVars, phase, planVars>> PROVE AnalysisInv'
  <2>1. UNCHANGED <<capture, passed, table, phase, kept>>
    BY <1>8 DEF captureVars, planVars
  <2>2. /\ Kept' = Kept /\ EntryAfter(passed)' = EntryAfter(passed)
        /\ Flow' = Flow /\ FinishAnalysis' = FinishAnalysis /\ \A g : Talk(g)' = Talk(g)
    BY <2>1 DEF Kept, KeptType, EntryAfter, EntryType, SentAs, OfPacket, SequenceNumber, TurnOf,
                Sent, Sender, FinishAnalysis, Flow, Talk
  <2> QED BY <2>1, <2>2 DEF AnalysisInv
<1>9. ASSUME Connect \/ Detect \/ Hang \/ \E side \in Side : Steps(side)
      PROVE  UNCHANGED <<captureVars, phase, planVars>>
  BY <1>9 DEF Connect, Detect, Hang, Steps, Write, Read, Finish, SeesEnd, WriteFails, TimesOut,
              Connection, Replaying
<1>10. CASE UNCHANGED vars
  BY <1>8, <1>10 DEF vars
<1>11. CASE Next
  BY <1>3, <1>4, <1>5, <1>6, <1>7, <1>8, <1>9, <1>11 DEF Next
<1> QED BY <1>10, <1>11
-----------------------------------------------------------------------------
(* The plan                                                                   *)

(* A step of split_http_messages.                                             *)
SplitAt(stream, heads, from, i) ==
  LET end == i + MessageLength[stream[i]] - 1
  IN  IF i > Len(stream) THEN <<>>
      ELSE IF stream[i] \notin heads \/ end > Len(stream) THEN <<>>
      ELSE <<SubSeq(stream, i, end)>> \o from[end + 1]

Message(heads) == {m \in Seq(Letter) : m # <<>> /\ Head(m) \in heads}

LEMMA SplitIs ==
  ASSUME NEW stream \in Seq(Letter), NEW heads, heads \subseteq DOMAIN MessageLength,
         NEW i \in 1 .. Len(stream) + 1
  PROVE  /\ \A g : (\A j \in i + 1 .. Len(stream) + 1 : g[j] \in Seq(Message(heads))) =>
                     SplitAt(stream, heads, g, i) \in Seq(Message(heads))
         /\ \A g, h : (\A j \in i + 1 .. Len(stream) + 1 : g[j] = h[j]) =>
                        SplitAt(stream, heads, g, i) = SplitAt(stream, heads, h, i)
<1> DEFINE L == Len(stream)
           end == i + MessageLength[stream[i]] - 1
           X == Seq(Message(heads))
           Goes == ~(i > L) /\ stream[i] \in heads /\ ~(end > L)
           m == SubSeq(stream, i, end)
<1>1. L \in Nat /\ i \in Nat
  OBVIOUS
<1>2. \A g : SplitAt(stream, heads, g, i) = IF Goes THEN <<m>> \o g[end + 1] ELSE <<>>
  BY DEF SplitAt
<1>3. ASSUME Goes
      PROVE  m \in Message(heads) /\ end + 1 \in i + 1 .. L + 1
  <2>1. stream[i] \in heads /\ i \in 1 .. L
    BY <1>1, <1>3
  <2>2. MessageLength[stream[i]] \in Nat \ {0}
    BY <2>1, HttpAssumption
  <2>3. end \in i .. L
    BY <1>1, <1>3, <2>1, <2>2
  <2> HIDE DEF end
  <2>4. \A j \in i .. end : stream[j] \in Letter
    BY <1>1, <2>1, <2>3
  <2>5. m \in Seq(Letter) /\ Len(m) = end - i + 1 /\ m[1] = stream[i]
    BY <1>1, <2>3, <2>4
  <2>6. m # <<>> /\ Head(m) = m[1]
    BY <1>1, <2>3, <2>5
  <2> HIDE DEF m
  <2> QED BY <1>1, <2>1, <2>3, <2>5, <2>6 DEF Message
<1>4. \A g : (\A j \in i + 1 .. L + 1 : g[j] \in X) => SplitAt(stream, heads, g, i) \in X
  <2> TAKE g
  <2> HAVE \A j \in i + 1 .. L + 1 : g[j] \in X
  <2>1. CASE Goes
    <3> DEFINE t == g[end + 1]
    <3>1. m \in Message(heads) /\ t \in X
      BY <1>3, <2>1
    <3> HIDE DEF m, t
    <3>2. <<m>> \o t \in X
      BY <3>1
    <3> QED BY <1>2, <2>1, <3>2 DEF t
  <2>2. CASE ~Goes
    <3>1. <<>> \in X
      OBVIOUS
    <3> QED BY <1>2, <2>2, <3>1
  <2> QED BY <2>1, <2>2
<1> HIDE DEF Goes, m, end
<1>5. \A g, h : (\A j \in i + 1 .. L + 1 : g[j] = h[j]) =>
                  SplitAt(stream, heads, g, i) = SplitAt(stream, heads, h, i)
  <2> TAKE g, h
  <2> HAVE \A j \in i + 1 .. L + 1 : g[j] = h[j]
  <2>1. Goes => g[end + 1] = h[end + 1]
    BY <1>3
  <2> QED BY <1>2, <2>1
<1> QED BY <1>4, <1>5

LEMMA MessagesAre ==
  ASSUME NEW stream \in Seq(Letter), NEW heads, heads \subseteq DOMAIN MessageLength
  PROVE  Messages(stream, heads) \in Seq(Message(heads))
<1> DEFINE L == Len(stream)
           N == L + 1
           X == Seq(Message(heads))
           Body(g, i) == SplitAt(stream, heads, g, i)
           Is(h) == h = [i \in 1 .. N |-> Body(h, i)]
           from == CHOOSE h : Is(h)
           P(k) == \E g : \A i \in N - k .. N : g[i] = Body(g, i)
           S == {k \in Nat : k <= L => P(k)}
<1>1. L \in Nat
  OBVIOUS
<1>2. Messages(stream, heads) = from[1]
  BY DEF Messages, SplitAt
<1> HIDE DEF X, Body, L
<1>3. ASSUME NEW i \in 1 .. N
      PROVE  /\ \A g : (\A j \in i + 1 .. N : g[j] \in X) => Body(g, i) \in X
             /\ \A g, h : (\A j \in i + 1 .. N : g[j] = h[j]) => Body(g, i) = Body(h, i)
  BY <1>3, SplitIs DEF X, Body, L
<1>4. P(0)
  <2> DEFINE any == [i \in {N} |-> 0]
             g == [i \in {N} |-> Body(any, N)]
  <2>1. N \in 1 .. N /\ N + 1 .. N = {} /\ N - 0 .. N = {N}
    BY <1>1
  <2>2. Body(g, N) = Body(any, N)
    <3> HIDE DEF g, any
    <3> QED BY <1>3, <2>1
  <2>3. g[N] = Body(g, N)
    BY <2>2
  <2> HIDE DEF g
  <2>4. \A i \in N - 0 .. N : g[i] = Body(g, i)
    BY <2>1, <2>3
  <2> QED BY <2>4
<1>5. ASSUME NEW k \in Nat, k + 1 <= L, P(k) PROVE P(k + 1)
  <2>1. PICK g : \A i \in N - k .. N : g[i] = Body(g, i)
    BY <1>5
  <2> DEFINE lo == N - (k + 1)
             h == [i \in lo .. N |-> IF i = lo THEN Body(g, lo) ELSE g[i]]
  <2>2. /\ lo \in 1 .. N /\ lo \in Nat /\ lo + 1 = N - k /\ N \in Nat
        /\ \A i \in lo .. N : i \in 1 .. N /\ (i # lo => i \in N - k .. N)
        /\ \A i \in lo .. N : \A j \in i + 1 .. N : j # lo /\ j \in lo .. N
    BY <1>1, <1>5
  <2> HIDE DEF lo
  <2>3. /\ h[lo] = Body(g, lo)
        /\ \A i \in lo .. N : i # lo => h[i] = g[i]
    BY <2>2
  <2> HIDE DEF h
  <2>4. ASSUME NEW i \in lo .. N PROVE h[i] = Body(h, i)
    <3>1. \A j \in i + 1 .. N : g[j] = h[j]
      BY <2>2, <2>3
    <3>2. Body(g, i) = Body(h, i)
      BY <1>3, <2>2, <3>1
    <3>3. CASE i = lo
      BY <2>3, <3>2, <3>3
    <3>4. CASE i # lo
      BY <2>1, <2>2, <2>3, <3>2, <3>4
    <3> QED BY <3>3, <3>4
  <2> QED BY <2>4 DEF lo
<1> HIDE DEF P
<1>6. P(L)
  <2>1. 0 \in S
    BY <1>4
  <2>2. ASSUME NEW k \in S PROVE k + 1 \in S
    BY <1>1, <1>5
  <2>3. S \subseteq Nat
    OBVIOUS
  <2>4. S = Nat
    <3> HIDE DEF S
    <3> QED BY <2>1, <2>2, <2>3, InductionOn
  <2> QED BY <1>1, <2>4
<1>7. PICK g : \A i \in 1 .. N : g[i] = Body(g, i)
  <2>1. N - L = 1
    BY <1>1
  <2>2. PICK g : \A i \in N - L .. N : g[i] = Body(g, i)
    BY <1>6 DEF P
  <2> QED BY <2>1, <2>2, Zenon
<1>8. Is(from)
  <2> DEFINE h == [i \in 1 .. N |-> g[i]]
  <2>1. ASSUME NEW i \in 1 .. N PROVE Body(h, i) = g[i]
    <3>1. \A j \in i + 1 .. N : g[j] = h[j]
      BY <1>1, <2>1
    <3> HIDE DEF h
    <3>2. Body(g, i) = Body(h, i)
      BY <1>3, <3>1
    <3> QED BY <1>7, <3>2
  <2>2. Is(h)
    BY <2>1
  <2> HIDE DEF Is, h
  <2> QED BY <2>2
<1> HIDE DEF from
<1>9. \A i \in 1 .. N : from[i] = Body(from, i)
  BY <1>8
<1> HIDE DEF Is
<1> DEFINE R == {k \in Nat : k <= L => \A i \in N - k .. N : from[i] \in X}
<1>10. 0 \in R
  <2>1. N \in 1 .. N /\ N + 1 .. N = {} /\ N - 0 .. N = {N}
    BY <1>1
  <2>2. Body(from, N) \in X
    BY <1>3, <2>1
  <2> QED BY <1>9, <2>1, <2>2
<1>11. ASSUME NEW k \in R PROVE k + 1 \in R
  <2> SUFFICES ASSUME k + 1 <= L PROVE \A i \in N - (k + 1) .. N : from[i] \in X
    OBVIOUS
  <2> DEFINE lo == N - (k + 1)
  <2>1. k \in Nat /\ \A i \in N - k .. N : from[i] \in X
    BY <1>1
  <2>2. /\ lo \in 1 .. N /\ lo + 1 = N - k
        /\ \A i \in lo .. N : i = lo \/ i \in N - k .. N
    BY <1>1, <2>1
  <2> HIDE DEF lo
  <2>3. Body(from, lo) \in X
    BY <1>3, <2>1, <2>2
  <2>4. from[lo] \in X
    BY <1>9, <2>2, <2>3
  <2>5. \A i \in lo .. N : from[i] \in X
    BY <2>1, <2>2, <2>4
  <2> QED BY <2>5 DEF lo
<1>12. R = Nat
  <2>1. R \subseteq Nat
    OBVIOUS
  <2> HIDE DEF R
  <2> QED BY <1>10, <1>11, <2>1, InductionOn
<1>13. from[1] \in X
  <2>1. L \in R /\ 1 \in N - L .. N
    BY SMTT(90), <1>1, <1>12
  <2> QED BY <1>1, <2>1
<1> QED BY <1>2, <1>13 DEF X
(* Two sequences of which each two elements are related.                      *)
Pairs(x, y, R) == Len(x) = Len(y) /\ \A m \in 1 .. Len(x) : <<x[m], y[m]>> \in R

LEMMA PairsJoin ==
  ASSUME NEW A, NEW R, NEW x \in Seq(A), NEW y \in Seq(A), NEW u \in Seq(A), NEW v \in Seq(A),
         Pairs(x, y, R), Pairs(u, v, R)
  PROVE  Pairs(x \o u, y \o v, R)
<1>1. /\ Len(x \o u) = Len(x) + Len(u) /\ Len(y \o v) = Len(y) + Len(v)
      /\ Len(x) = Len(y) /\ Len(u) = Len(v) /\ Len(x) \in Nat /\ Len(u) \in Nat
  BY SMTT(90) DEF Pairs
<1>2. ASSUME NEW m \in 1 .. Len(x) + Len(u) PROVE <<(x \o u)[m], (y \o v)[m]>> \in R
  <2>1. CASE m <= Len(x)
    <3>1. m \in 1 .. Len(x) /\ (x \o u)[m] = x[m] /\ (y \o v)[m] = y[m]
      BY <1>1, <2>1
    <3> QED BY <3>1 DEF Pairs
  <2>2. CASE m > Len(x)
    <3>1. /\ m - Len(x) \in 1 .. Len(u)
          /\ (x \o u)[m] = u[m - Len(x)] /\ (y \o v)[m] = v[m - Len(x)]
      BY <1>1, <2>2
    <3> QED BY <3>1 DEF Pairs
  <2>3. m <= Len(x) \/ m > Len(x)
    BY <1>1
  <2> QED BY <2>1, <2>2, <2>3
<1> QED BY <1>1, <1>2 DEF Pairs

LEMMA FlattenFirst ==
  ASSUME NEW T, NEW N \in Nat, NEW f \in [1 .. N -> Seq(T)], NEW k \in Nat, k + 1 <= N
  PROVE  /\ FlattenSeq([i \in 1 .. k |-> f[i]]) \in Seq(T) /\ f[k + 1] \in Seq(T)
         /\ FlattenSeq([i \in 1 .. k + 1 |-> f[i]]) = FlattenSeq([i \in 1 .. k |-> f[i]]) \o f[k + 1]
<1> DEFINE X == Seq(T)
           a == [i \in 1 .. k |-> f[i]]
           b == [i \in 1 .. k + 1 |-> f[i]]
<1> HIDE DEF X
<1>1. f \in [1 .. N -> X]
  BY DEF X
<1>2. a \in Seq(X) /\ b \in Seq(X) /\ f[k + 1] \in X /\ b = Append(a, f[k + 1])
  <2>1. k + 1 \in 1 .. N /\ \A i \in 1 .. k + 1 : f[i] \in X
    BY <1>1
  <2>2. a \in Seq(X) /\ Len(a) = k
    BY <2>1
  <2>3. b \in Seq(X) /\ Len(b) = k + 1
    BY <2>1
  <2>4. b = Append(a, f[k + 1])
    BY <2>1, <2>2, <2>3
  <2> QED BY <2>1, <2>2, <2>3, <2>4
<1> HIDE DEF a, b
<1>3. FlattenSeq(a) \in X
  BY <1>2, FlattenType DEF X
<1>4. FlattenSeq(b) = FlattenSeq(a) \o f[k + 1]
  BY <1>2, FlattenAppend DEF X
<1> QED BY <1>2, <1>3, <1>4 DEF X, a, b

LEMMA FlattenPairs ==
  ASSUME NEW A, NEW R, NEW N \in Nat, NEW f \in [1 .. N -> Seq(A)], NEW g \in [1 .. N -> Seq(A)],
         \A n \in 1 .. N : Pairs(f[n], g[n], R)
  PROVE  Pairs(FlattenSeq(f), FlattenSeq(g), R)
<1> DEFINE F(k) == FlattenSeq([i \in 1 .. k |-> f[i]])
           G(k) == FlattenSeq([i \in 1 .. k |-> g[i]])
           S == {k \in Nat : k <= N => Pairs(F(k), G(k), R)}
<1>1. 0 \in S
  <2>1. [i \in 1 .. 0 |-> f[i]] = <<>> /\ [i \in 1 .. 0 |-> g[i]] = <<>>
    OBVIOUS
  <2>2. F(0) = <<>> /\ G(0) = <<>>
    BY <2>1, FlattenNone, Zenon
  <2>3. Len(<<>>) = 0 /\ 1 .. 0 = {}
    OBVIOUS
  <2> HIDE DEF F, G
  <2>4. Pairs(F(0), G(0), R)
    BY <2>2, <2>3 DEF Pairs
  <2> QED BY <2>4
<1>2. ASSUME NEW k \in S PROVE k + 1 \in S
  <2> SUFFICES ASSUME k + 1 <= N PROVE Pairs(F(k + 1), G(k + 1), R)
    OBVIOUS
  <2>1. Pairs(F(k), G(k), R)
    OBVIOUS
  <2>2. F(k) \in Seq(A) /\ f[k + 1] \in Seq(A) /\ F(k + 1) = F(k) \o f[k + 1]
    BY FlattenFirst, ZenonT(90)
  <2>3. G(k) \in Seq(A) /\ g[k + 1] \in Seq(A) /\ G(k + 1) = G(k) \o g[k + 1]
    BY FlattenFirst, ZenonT(90)
  <2>4. Pairs(f[k + 1], g[k + 1], R)
    OBVIOUS
  <2> HIDE DEF F, G
  <2>5. Pairs(F(k) \o f[k + 1], G(k) \o g[k + 1], R)
    BY <2>1, <2>2, <2>3, <2>4, PairsJoin
  <2> QED BY <2>2, <2>3, <2>5
<1>3. S = Nat
  <2>1. S \subseteq Nat
    OBVIOUS
  <2> HIDE DEF S
  <2> QED BY <1>1, <1>2, <2>1, InductionOn
<1>4. Pairs(F(N), G(N), R)
  <2> HIDE DEF F, G
  <2> QED BY <1>3
<1>5. [i \in 1 .. N |-> f[i]] = f /\ [i \in 1 .. N |-> g[i]] = g
  OBVIOUS
<1> QED BY <1>4, <1>5, Zenon

MatchingTurns == {z \in PlannedTurn \X PlannedTurn : Matches(z[1], z[2])}

(* rewrite_http_request: the system under test undoes on the way what the      *)
(* client's plan does to a target.                                            *)
LEMMA RewrittenIs ==
  ASSUME NEW r \in Message(DOMAIN OriginForm)
  PROVE  /\ \A role : Rewritten(r, role) \in Seq(Letter) \ {<<>>}
         /\ Carried(Rewritten(r, "client")) = Rewritten(r, "server")
<1> DEFINE path == OriginForm[Head(r)]
           absolute == AbsoluteForm[path]
           rest == Tail(r)
<1>1. r \in Seq(Letter) /\ r # <<>> /\ Head(r) \in DOMAIN OriginForm
  BY DEF Message
<1>2. rest \in Seq(Letter)
  BY <1>1
<1>3. path \in Letter /\ absolute \in Letter /\ OriginForm[absolute] = path
  BY <1>1, HttpAssumption
<1> HIDE DEF path, absolute, rest
<1>4. \A l \in Letter : /\ <<l>> \o rest \in Seq(Letter) /\ <<l>> \o rest # <<>>
                        /\ Head(<<l>> \o rest) = l /\ Tail(<<l>> \o rest) = rest
  <2> TAKE l \in Letter
  <2> DEFINE s == <<l>> \o rest
  <2>1. <<l>> \in Seq(Letter) /\ Len(<<l>>) = 1 /\ Len(rest) \in Nat
    BY <1>2
  <2>2. s \in Seq(Letter) /\ Len(s) = 1 + Len(rest) /\ s[1] = l
        /\ \A i \in 1 .. Len(rest) : s[1 + i] = rest[i]
    BY <1>2, <2>1
  <2> HIDE DEF s
  <2>3. s # <<>> /\ Head(s) = l
    BY <2>1, <2>2
  <2>4. Tail(s) \in Seq(Letter) /\ Len(Tail(s)) = Len(rest)
        /\ \A i \in 1 .. Len(rest) : Tail(s)[i] = rest[i]
    BY <2>1, <2>2, <2>3
  <2>5. Tail(s) = rest
    BY <1>2, <2>4, SeqEqual
  <2> QED BY <2>2, <2>3, <2>5 DEF s
<1>5. \A role : Rewritten(r, role) =
        <<IF role = "client" /\ capture.absolute THEN absolute ELSE path>> \o rest
  BY DEF Rewritten, path, absolute, rest
<1>6. \A role : Rewritten(r, role) \in Seq(Letter) \ {<<>>}
  BY <1>3, <1>4, <1>5
<1>7. Rewritten(r, "server") = <<path>> \o rest
  BY <1>5
<1>8. CASE capture.absolute
  <2>1. Rewritten(r, "client") = <<absolute>> \o rest
    BY <1>5, <1>8
  <2>2. Carried(Rewritten(r, "client")) = <<OriginForm[absolute]>> \o rest
    BY <1>3, <1>4, <1>8, <2>1 DEF Carried
  <2> QED BY <1>3, <1>6, <1>7, <2>2
<1>9. CASE ~capture.absolute
  <2>1. Rewritten(r, "client") = <<path>> \o rest
    BY <1>5, <1>9
  <2> QED BY <1>6, <1>7, <1>9, <2>1 DEF Carried
<1> QED BY <1>8, <1>9
LEMMA PairOfTwo ==
  ASSUME NEW a, NEW b, NEW c, NEW d, NEW R, <<a, c>> \in R, <<b, d>> \in R
  PROVE  Pairs(<<a, b>>, <<c, d>>, R)
<1> DEFINE s == <<a, b>>
           t == <<c, d>>
<1>1. Len(s) = 2 /\ Len(t) = 2 /\ s[1] = a /\ s[2] = b /\ t[1] = c /\ t[2] = d
  OBVIOUS
<1> HIDE DEF s, t
<1>2. \A n \in 1 .. Len(s) : n = 1 \/ n = 2
  BY <1>1
<1>3. \A n \in 1 .. Len(s) : <<s[n], t[n]>> \in R
  BY <1>1, <1>2, Zenon
<1>4. Pairs(s, t, R)
  BY <1>1, <1>3 DEF Pairs
<1> QED BY <1>4 DEF s, t

LEMMA TransactionsMatch ==
  ASSUME NEW k, k.up \in Seq(Letter), k.down \in Seq(Letter)
  PROVE  /\ \A role : Transactions(k, role) \in Seq(PlannedTurn)
         /\ Pairs(Transactions(k, "client"), Transactions(k, "server"), MatchingTurns)
<1> DEFINE requests == Messages(k.up, DOMAIN OriginForm)
           responses == Messages(k.down, DOMAIN MessageLength \ DOMAIN OriginForm)
           Q == Message(DOMAIN OriginForm)
           A == Message(DOMAIN MessageLength \ DOMAIN OriginForm)
           Complete == /\ FlattenSeq(requests) = k.up /\ FlattenSeq(responses) = k.down
                       /\ Len(requests) = Len(responses)
           N == Len(requests)
           c(i, role) == [from |-> "client", bytes |-> Rewritten(requests[i], role)]
           s(i) == [from |-> "server", bytes |-> responses[i]]
           f(role) == [i \in 1 .. N |-> <<c(i, role), s(i)>>]
<1>1. DOMAIN OriginForm \subseteq DOMAIN MessageLength
  BY HttpAssumption
<1>2. requests \in Seq(Q)
  BY <1>1, MessagesAre
<1>3. responses \in Seq(A)
  BY MessagesAre
<1> HIDE DEF requests, responses, Q, A
<1>4. N \in Nat /\ DOMAIN requests = 1 .. N
  BY <1>2
<1>5. \A role : Transactions(k, role) = IF Complete THEN FlattenSeq(f(role)) ELSE <<>>
  BY <1>4 DEF Transactions, requests, responses
<1>6. ASSUME Complete, NEW i \in 1 .. N
      PROVE  /\ \A role : c(i, role) \in PlannedTurn
             /\ s(i) \in PlannedTurn
             /\ Matches(c(i, "client"), c(i, "server")) /\ Matches(s(i), s(i))
  <2>1. requests[i] \in Message(DOMAIN OriginForm)
    BY <1>2 DEF Q
  <2>2. responses[i] \in A
    BY <1>3, <1>6
  <2>3. responses[i] \in Seq(Letter) \ {<<>>}
    BY <2>2 DEF A, Message
  <2>4. /\ \A role : Rewritten(requests[i], role) \in Seq(Letter) \ {<<>>}
        /\ Carried(Rewritten(requests[i], "client")) = Rewritten(requests[i], "server")
    BY <2>1, RewrittenIs
  <2>5. \A role : c(i, role) \in PlannedTurn
    BY <2>4 DEF PlannedTurn, Side
  <2>6. s(i) \in PlannedTurn
    BY <2>3 DEF PlannedTurn, Side
  <2>7. Matches(c(i, "client"), c(i, "server")) /\ Matches(s(i), s(i))
    BY <2>4 DEF Matches
  <2> QED BY <2>5, <2>6, <2>7
<1> HIDE DEF c, s
<1>7. CASE ~Complete
  <2>1. \A role : Transactions(k, role) = <<>>
    BY <1>5, <1>7
  <2>2. <<>> \in Seq(PlannedTurn) /\ Len(<<>>) = 0
    OBVIOUS
  <2>3. \A role : Transactions(k, role) \in Seq(PlannedTurn)
    BY <2>1, <2>2, Zenon
  <2>4. Pairs(<<>>, <<>>, MatchingTurns)
    BY <2>2 DEF Pairs
  <2>5. Transactions(k, "client") = <<>> /\ Transactions(k, "server") = <<>>
    BY <2>1
  <2>6. Pairs(Transactions(k, "client"), Transactions(k, "server"), MatchingTurns)
    BY <2>4, <2>5, Zenon
  <2> QED BY <2>3, <2>6
<1>8. CASE Complete
  <2>1. \A role : f(role) \in [1 .. N -> Seq(PlannedTurn)]
    <3> TAKE role
    <3>1. ASSUME NEW i \in 1 .. N PROVE <<c(i, role), s(i)>> \in Seq(PlannedTurn)
      <4>1. c(i, role) \in PlannedTurn /\ s(i) \in PlannedTurn
        BY <1>6, <1>8
      <4> QED BY <4>1
    <3> QED BY <3>1
  <2>2. \A n \in 1 .. N : Pairs(f("client")[n], f("server")[n], MatchingTurns)
    <3> TAKE n \in 1 .. N
    <3>1. /\ c(n, "client") \in PlannedTurn /\ c(n, "server") \in PlannedTurn /\ s(n) \in PlannedTurn
          /\ Matches(c(n, "client"), c(n, "server")) /\ Matches(s(n), s(n))
      BY <1>6, <1>8
    <3>2. <<c(n, "client"), c(n, "server")>> \in MatchingTurns /\ <<s(n), s(n)>> \in MatchingTurns
      BY <3>1 DEF MatchingTurns
    <3>3. f("client")[n] = <<c(n, "client"), s(n)>> /\ f("server")[n] = <<c(n, "server"), s(n)>>
      OBVIOUS
    <3> HIDE DEF f
    <3>4. Pairs(<<c(n, "client"), s(n)>>, <<c(n, "server"), s(n)>>, MatchingTurns)
      BY <3>2, PairOfTwo
    <3> QED BY <3>3, <3>4, Zenon
  <2> HIDE DEF f, Complete
  <2>3. \A role : FlattenSeq(f(role)) \in Seq(PlannedTurn)
    BY <1>4, <2>1, FlattenFunction
  <2>4. Pairs(FlattenSeq(f("client")), FlattenSeq(f("server")), MatchingTurns)
    BY <1>4, <2>1, <2>2, FlattenPairs
  <2> QED BY <1>5, <1>8, <2>3, <2>4
<1> QED BY <1>7, <1>8

MatchingFlows == {z \in Seq(PlannedTurn) \X Seq(PlannedTurn) : Pairs(z[1], z[2], MatchingTurns)}

LEMMA PlansAre ==
  ASSUME capture \in Capture, kept \in Seq(Kept)
  PROVE  /\ \A role : ReplayPlan(role) \in Seq(Seq(PlannedTurn))
         /\ Pairs(ReplayPlan("client"), ReplayPlan("server"), MatchingFlows)
<1> DEFINE N == Len(kept)
           T == Seq(PlannedTurn)
<1>1. N \in Nat /\ DOMAIN kept = 1 .. N
  OBVIOUS
<1>2. ASSUME NEW n \in 1 .. N
      PROVE  kept[n].up \in Seq(Letter) /\ kept[n].down \in Seq(Letter) /\ kept[n].turns \in T
  <2>1. kept[n] \in Kept
    OBVIOUS
  <2> QED BY <2>1 DEF Kept, KeptType
<1>3. CASE capture.protocol = "http1"
  <2> DEFINE turns(n, role) == Transactions(kept[n], role)
             f(role) == [n \in 1 .. N |->
                           IF turns(n, role) # <<>> THEN <<turns(n, role)>> ELSE <<>>]
  <2>1. \A role : ReplayPlan(role) = FlattenSeq(f(role))
    BY <1>1, <1>3 DEF ReplayPlan
  <2>2. ASSUME NEW n \in 1 .. N
        PROVE  /\ \A role : turns(n, role) \in T
               /\ Pairs(turns(n, "client"), turns(n, "server"), MatchingTurns)
    BY <1>2, TransactionsMatch
  <2> HIDE DEF turns, T
  <2>3. \A role : f(role) \in [1 .. N -> Seq(T)]
    BY <2>2
  <2>4. \A n \in 1 .. N : Pairs(f("client")[n], f("server")[n], MatchingFlows)
    <3> TAKE n \in 1 .. N
    <3> DEFINE c == turns(n, "client")
               s == turns(n, "server")
    <3>1. c \in T /\ s \in T /\ Pairs(c, s, MatchingTurns)
      BY <2>2
    <3>2. /\ f("client")[n] = IF c # <<>> THEN <<c>> ELSE <<>>
          /\ f("server")[n] = IF s # <<>> THEN <<s>> ELSE <<>>
      OBVIOUS
    <3> HIDE DEF f, c, s
    <3>3. <<c, s>> \in MatchingFlows
      BY <3>1 DEF MatchingFlows, T
    <3>4. (c = <<>>) <=> (s = <<>>)
      <4>1. Len(c) = Len(s)
        BY <3>1 DEF Pairs
      <4>2. (c = <<>> <=> Len(c) = 0) /\ (s = <<>> <=> Len(s) = 0)
        BY <3>1 DEF T
      <4> QED BY <4>1, <4>2
    <3>5. CASE c = <<>>
      <4>1. f("client")[n] = <<>> /\ f("server")[n] = <<>>
        BY <3>2, <3>4, <3>5
      <4>2. Len(<<>>) = 0 /\ 1 .. 0 = {}
        OBVIOUS
      <4> QED BY <4>1, <4>2 DEF Pairs
    <3>6. CASE c # <<>>
      <4>1. f("client")[n] = <<c>> /\ f("server")[n] = <<s>>
        BY <3>2, <3>4, <3>6
      <4> QED BY <3>3, <4>1 DEF Pairs
    <3> QED BY <3>5, <3>6
  <2> HIDE DEF f
  <2>5. \A role : FlattenSeq(f(role)) \in Seq(T)
    BY <1>1, <2>3, FlattenFunction
  <2>6. Pairs(FlattenSeq(f("client")), FlattenSeq(f("server")), MatchingFlows)
    BY <1>1, <2>3, <2>4, FlattenPairs
  <2> QED BY <2>1, <2>5, <2>6 DEF T
<1>4. CASE capture.protocol # "http1"
  <2> DEFINE f == [n \in 1 .. N |-> kept[n].turns]
  <2>1. \A role : ReplayPlan(role) = f
    BY <1>1, <1>4 DEF ReplayPlan
  <2>2. ~capture.absolute
    BY <1>4, HttpAssumption
  <2> HIDE DEF T
  <2>3. f \in Seq(T) /\ Len(f) = N
    BY <1>1, <1>2
  <2>4. ASSUME NEW n \in 1 .. N PROVE <<f[n], f[n]>> \in MatchingFlows
    <3> DEFINE t == f[n]
    <3>1. t \in T
      BY <2>3
    <3>2. t \in Seq(PlannedTurn)
      BY <3>1 DEF T
    <3> HIDE DEF t
    <3>3. ASSUME NEW m \in 1 .. Len(t) PROVE <<t[m], t[m]>> \in MatchingTurns
      <4>1. t[m] \in PlannedTurn
        BY <3>2
      <4>2. Matches(t[m], t[m])
        BY <2>2 DEF Matches, Carried
      <4> QED BY <4>1, <4>2 DEF MatchingTurns
    <3>4. Pairs(t, t, MatchingTurns)
      BY <3>3 DEF Pairs
    <3> QED BY <3>2, <3>4 DEF MatchingFlows, t
  <2> HIDE DEF f
  <2>5. Pairs(f, f, MatchingFlows)
    BY <2>3, <2>4 DEF Pairs
  <2> QED BY <2>1, <2>3, <2>5 DEF T
<1> QED BY <1>3, <1>4

(* MakePlan.                                                                  *)
LEMMA PlansMatchNow ==
  ASSUME AnalysisInv, MakePlan, phase' = "replaying"
  PROVE  PlansMatch'
<1>1. /\ phase = "analysed" /\ plan' = [role \in Side |-> ReplayPlan(role)] /\ capture' = capture
      /\ \A role \in Side : ValidFlows(plan'[role])
  BY DEF MakePlan
<1>2. capture \in Capture /\ kept \in Seq(Kept)
  BY <1>1 DEF AnalysisInv
<1> DEFINE c == ReplayPlan("client")
           s == ReplayPlan("server")
<1>3. /\ \A role : ReplayPlan(role) \in Seq(Seq(PlannedTurn))
      /\ Pairs(c, s, MatchingFlows)
  BY <1>2, PlansAre
<1>4. "client" \in Side /\ "server" \in Side
  BY DEF Side
<1>5. plan'["client"] = c /\ plan'["server"] = s
  BY <1>1, <1>4
<1>6. \A role \in Side : plan'[role] \in Seq(Seq(PlannedTurn)) /\ ValidFlows(plan'[role])
  <2> TAKE role \in Side
  <2>1. plan'[role] = ReplayPlan(role)
    BY <1>1
  <2> QED BY <1>1, <1>3, <2>1
<1> HIDE DEF c, s
<1>7. Len(c) = Len(s) /\ \A n \in 1 .. Len(c) : <<c[n], s[n]>> \in MatchingFlows
  BY <1>3 DEF Pairs
<1>8. ASSUME NEW n \in 1 .. Len(s)
      PROVE  Len(c[n]) = Len(s[n]) /\ \A m \in 1 .. Len(s[n]) : Matches(c[n][m], s[n][m])
  <2>1. <<c[n], s[n]>> \in MatchingFlows
    BY <1>7, <1>8
  <2>2. Pairs(c[n], s[n], MatchingTurns)
    BY <2>1 DEF MatchingFlows
  <2>3. Len(c[n]) = Len(s[n]) /\ \A m \in 1 .. Len(c[n]) : <<c[n][m], s[n][m]>> \in MatchingTurns
    BY <2>2 DEF Pairs
  <2> QED BY <2>3 DEF MatchingTurns
<1>9. \A role \in Side : (plan[role] \in Seq(Seq(PlannedTurn)))' /\ ValidFlows(plan[role])'
  BY <1>6 DEF ValidFlows, StartsWithClient, PlannedTurn, Side
<1>10. (Len(plan["client"]) = Len(plan["server"]))'
  BY <1>5, <1>7
<1>11. ASSUME NEW n \in 1 .. Len(plan'["server"])
       PROVE  /\ Len(plan'["client"][n]) = Len(plan'["server"][n])
              /\ \A m \in 1 .. Len(plan'["server"][n]) :
                   LET x == plan'["client"][n][m]
                       y == plan'["server"][n][m]
                   IN  /\ x.from = y.from
                       /\ x.from = "client" =>
                            (IF capture'.absolute
                             THEN <<OriginForm[Head(x.bytes)]>> \o Tail(x.bytes)
                             ELSE x.bytes) = y.bytes
                       /\ x.from = "server" => x.bytes = y.bytes
  <2>1. n \in 1 .. Len(s)
    BY <1>5
  <2>2. capture'.absolute = capture.absolute
    BY <1>1
  <2> QED BY <1>5, <1>8, <2>1, <2>2 DEF Matches, Carried
<1>12. (\A n \in 1 .. Len(plan["server"]) :
          /\ Len(plan["client"][n]) = Len(plan["server"][n])
          /\ \A m \in 1 .. Len(plan["server"][n]) :
               Matches(plan["client"][n][m], plan["server"][n][m]))'
  BY <1>11 DEF Matches, Carried
<1> QED BY <1>9, <1>10, <1>12 DEF PlansMatch
-----------------------------------------------------------------------------
(* The invariant                                                              *)

(* Init.                                                                      *)
LEMMA InitReplay ==
  ASSUME Init
  PROVE  ReplayInv
<1>1. MaxConnections \in Nat /\ <<>> \in Seq(Letter)
  BY CaptureAssumption
<1> DEFINE B == Seq(Letter)
<1>0. /\ phase = "capturing" /\ connections = 0 /\ flow = 0 /\ played = 0 /\ received = <<>>
      /\ turn = [side \in Side |-> 0] /\ state = [side \in Side |-> "done"]
      /\ transit = [side \in Side |-> <<>>] /\ hung = FALSE /\ disturbed = FALSE
  BY DEF Init, NoTraffic
<1> HIDE DEF B
<1>a. received \in B /\ transit \in [Side -> B]
  BY <1>0, <1>1, Zenon DEF B
<1>b. turn \in [Side -> Nat] /\ state \in [Side -> {"detect", "play", "done", "failed"}]
  BY <1>0
<1>c. phase \in {"capturing", "analysed", "replaying", "refused"} /\ hung \in BOOLEAN /\ disturbed \in BOOLEAN
  BY <1>0
<1>d. connections \in 0 .. MaxConnections /\ flow \in Nat /\ played \in Nat
  BY <1>0, <1>1
<1>2. ReplayTypes
  BY <1>a, <1>b, <1>c, <1>d DEF ReplayTypes, B
<1>3. Idle /\ OnlyDisturbedFail /\ connections = 0 /\ phase = "capturing"
  BY DEF Init, Idle, OnlyDisturbedFail
<1> QED BY <1>2, <1>3 DEF ReplayInv

(* Before the first connection, neither endpoint does anything.                *)
LEMMA NothingWhenIdle ==
  ASSUME ReplayInv, connections = 0
  PROVE  ~Detect /\ ~Hang /\ \A side \in Side : ~Steps(side)
<1>1. \A side \in Side : state[side] = "done"
  BY DEF ReplayInv, Idle
<1>2. "server" \in Side
  BY DEF Side
<1>3. ~Detect /\ ~Hang
  BY <1>1, <1>2 DEF Detect, Hang, Ended
<1>4. \A side \in Side : ~AtTurn(side) /\ ~Waits(side)
  BY <1>1 DEF AtTurn, Waits
<1>5. \A side \in Side : ~Steps(side)
  BY <1>1, <1>4 DEF Steps, Write, Read, Finish, SeesEnd, WriteFails, TimesOut
<1> QED BY <1>3, <1>5

(* The capture and its analysis leave the replay alone.                        *)
LEMMA ReplayWaits ==
  ASSUME ReplayInv, UNCHANGED replayVars, phase # "replaying",
         phase' \in {"capturing", "analysed", "replaying", "refused"},
         phase' = "replaying" => PlansMatch'
  PROVE  ReplayInv'
<1>1. connections = 0 /\ Idle /\ ReplayTypes /\ OnlyDisturbedFail
  BY DEF ReplayInv, Playing
<1>2. UNCHANGED <<connections, flow, turn, state, played, received, transit, hung, disturbed>>
  BY DEF replayVars
<1>3. ReplayTypes' /\ Idle' /\ OnlyDisturbedFail' /\ connections' = 0
  BY <1>1, <1>2 DEF ReplayTypes, Idle, OnlyDisturbedFail
<1> QED BY <1>3 DEF ReplayInv

LEMMA ReplayStep ==
  ASSUME ReplayInv, AnalysisInv, [Next]_vars
  PROVE  ReplayInv'
<1>1. phase \in {"capturing", "analysed", "replaying", "refused"}
  BY DEF ReplayInv, ReplayTypes
<1>2. ASSUME NEW f \in Flow,
             \/ Seen(f) \/ Miss(f)
             \/ \E i \in DOMAIN Talk(f) : CaptureAgain(f, i) \/ CaptureTwo(f, i)
      PROVE  ReplayInv'
  <2>1. phase = "capturing" /\ phase' = phase /\ UNCHANGED replayVars
    BY <1>2 DEF Seen, Miss, CaptureAgain, CaptureTwo, Capturing
  <2> QED BY <1>1, <2>1, ReplayWaits
<1>3. ASSUME Analyse PROVE ReplayInv'
  <2>1. phase = "capturing" /\ phase' = "analysed" /\ UNCHANGED replayVars
    BY <1>3 DEF Analyse
  <2> QED BY <2>1, ReplayWaits
<1>4. ASSUME MakePlan PROVE ReplayInv'
  <2>1. phase = "analysed" /\ phase' \in {"replaying", "refused"} /\ UNCHANGED replayVars
    BY <1>4 DEF MakePlan
  <2>2. phase' = "replaying" => PlansMatch'
    BY <1>4, PlansMatchNow
  <2> QED BY <2>1, <2>2, ReplayWaits
<1>5. ASSUME Connect PROVE ReplayInv'
  BY <1>5, ConnectStep
<1>6. ASSUME Detect PROVE ReplayInv'
  BY <1>6, NothingWhenIdle, DetectStep
<1>7. ASSUME Hang PROVE ReplayInv'
  BY <1>7, NothingWhenIdle, HangStep
<1>8. ASSUME NEW side \in Side, Steps(side) PROVE ReplayInv'
  <2>1. connections # 0
    BY <1>8, NothingWhenIdle
  <2> QED BY <1>8, <2>1, WriteStep, ReadStep, FinishStep, SeesEndStep, WriteFailsStep,
             TimesOutStep DEF Steps
<1>9. CASE UNCHANGED vars
  <2>1. UNCHANGED <<capture, plan, phase, connections, flow, turn, state, played, received,
                    transit, hung, disturbed>>
    BY <1>9 DEF vars, captureVars, planVars, replayVars
  <2>2. phase' = "replaying" => PlansMatch'
    BY <2>1, PlansStay DEF ReplayInv
  <2>3. ReplayTypes' /\ OnlyDisturbedFail'
    BY <2>1 DEF ReplayInv, ReplayTypes, OnlyDisturbedFail
  <2>4. IF connections' = 0 THEN Idle' ELSE Playing'
    BY <2>1 DEF ReplayInv, Idle, Playing, Played, UnderWay, Has
  <2> QED BY <2>2, <2>3, <2>4 DEF ReplayInv
<1>10. CASE Next
  BY <1>2, <1>3, <1>4, <1>5, <1>6, <1>7, <1>8, <1>10 DEF Next
<1> QED BY <1>9, <1>10

LEMMA ReplayInvariant == Spec => [](ReplayInv /\ AnalysisInv)
<1>1. Init => ReplayInv /\ AnalysisInv
  BY InitReplay, InitAnalysis
<1>2. ReplayInv /\ AnalysisInv /\ [Next]_vars => (ReplayInv /\ AnalysisInv)'
  BY ReplayStep, AnalysisStep
<1> QED BY <1>1, <1>2, PTL DEF Spec

(* What is awaited from a turn on is what the other sends from there.          *)
LEMMA AwaitedIs ==
  ASSUME NEW P \in Seq(PlannedTurn), NEW side \in Side, NEW k \in 1 .. Len(P) + 1
  PROVE  /\ Awaited(P, k, side) \in Seq(Letter)
         /\ SentBy(P, Other(side), Len(P)) =
              SentBy(P, Other(side), k - 1) \o Awaited(P, k, side)
<1> DEFINE w == Other(side)
           L == Len(P) - k + 1
           later == [m \in 1 .. L |-> P[k + m - 1]]
           B == Seq(Letter)
           before == SentBy(P, w, k - 1)
           since(n) == SentBy(later, w, n)
           S == {n \in Nat : n <= L => SentBy(P, w, (k - 1) + n) = before \o since(n)}
<1>1. Len(P) \in Nat /\ L \in Nat /\ k - 1 \in Nat /\ (k - 1) + L = Len(P) /\ k \in Nat
  OBVIOUS
<1>2. P \in Seq(Packet) /\ \A m \in 1 .. Len(P) : P[m].from \in Side
  BY TurnIsPacket
<1>3. \A m \in 1 .. L : k + m - 1 \in 1 .. Len(P) /\ (k - 1) + m = k + m - 1
  BY <1>1
<1>4. later \in Seq(Packet) /\ Len(later) = L
  <2>1. \A m \in 1 .. L : P[k + m - 1] \in Packet
    BY <1>2, <1>3
  <2> QED BY <1>1, <2>1
<1>5. Awaited(P, k, side) = since(L)
  <2>1. \A m \in 1 .. L :
          (IF P[k + m - 1].from # side THEN P[k + m - 1].bytes ELSE <<>>)
            = (IF later[m].from = w THEN later[m].bytes ELSE <<>>)
    BY <1>2, <1>3, Sides
  <2> HIDE DEF later, w
  <2>2. [m \in 1 .. L |-> IF P[k + m - 1].from # side THEN P[k + m - 1].bytes ELSE <<>>]
          = [m \in 1 .. L |-> IF later[m].from = w THEN later[m].bytes ELSE <<>>]
    BY <2>1
  <2> QED BY <2>2 DEF Awaited, SentBy
<1>6. \A m \in 1 .. L : later[m] = P[(k - 1) + m]
  BY <1>3
<1> HIDE DEF later, w, L
<1>7. \A n \in 0 .. L : since(n) \in B
  BY <1>4, SentType
<1>8. before \in B
  <2>1. k - 1 \in 0 .. Len(P)
    BY <1>1 DEF L
  <2> QED BY <1>2, <2>1, SentType
<1>9. 0 \in S
  <2>1. since(0) = <<>> /\ (k - 1) + 0 = k - 1
    BY <1>1, SentNone
  <2>2. before \o <<>> = before
    BY <1>8, JoinedBytes
  <2>3. SentBy(P, w, (k - 1) + 0) = before \o since(0)
    BY <2>1, <2>2, Zenon
  <2> QED BY <2>3
<1>10. ASSUME NEW n \in S PROVE n + 1 \in S
  <2> SUFFICES ASSUME n + 1 <= L
               PROVE  SentBy(P, w, (k - 1) + (n + 1)) = before \o since(n + 1)
    OBVIOUS
  <2> DEFINE m == (k - 1) + n
             more == IF P[m + 1].from = w THEN P[m + 1].bytes ELSE <<>>
  <2>1. /\ n \in Nat /\ n + 1 <= Len(later) /\ n + 1 \in 1 .. L /\ n \in 0 .. L /\ n <= L
        /\ m \in Nat /\ m + 1 <= Len(P) /\ (k - 1) + (n + 1) = m + 1
    BY <1>1, <1>4
  <2>2. SentBy(P, w, m) = before \o since(n)
    BY <2>1
  <2>3. later[n + 1] = P[m + 1]
    BY <1>6, <2>1
  <2> HIDE DEF m
  <2>4. SentBy(P, w, m + 1) = SentBy(P, w, m) \o more
    BY <1>2, <2>1, SentStep
  <2>5. since(n + 1) = since(n) \o more
    <3>1. since(n + 1) = since(n) \o IF later[n + 1].from = w THEN later[n + 1].bytes ELSE <<>>
      BY <1>4, <2>1, SentStep
    <3> HIDE DEF since
    <3> QED BY <2>3, <3>1
  <2>6. more \in B
    <3>1. m + 1 \in 1 .. Len(P) /\ <<>> \in B
      BY <2>1, <1>1
    <3>2. P[m + 1].bytes \in B
      BY <3>1, TurnIsPacket
    <3> QED BY <3>1, <3>2
  <2>7. since(n) \in B /\ \A x, y, z \in B : (x \o y) \o z = x \o (y \o z)
    BY <1>7, <2>1, JoinedBytes
  <2> HIDE DEF more, B, before, since
  <2>8. SentBy(P, w, m + 1) = before \o (since(n) \o more)
    <3>1. (before \o since(n)) \o more = before \o (since(n) \o more)
      BY <1>8, <2>6, <2>7
    <3> QED BY <2>2, <2>4, <3>1, Zenon
  <2> QED BY <2>1, <2>5, <2>8, Zenon
<1>11. S \subseteq Nat
  OBVIOUS
<1>12. L \in S
  <2> HIDE DEF S
  <2> QED BY <1>1, <1>9, <1>10, <1>11, InductionOn DEF L
<1>13. SentBy(P, w, Len(P)) = before \o since(L)
  <2>1. L <= L /\ (k - 1) + L = Len(P)
    BY <1>1 DEF L
  <2> QED BY <1>12, <2>1
<1>14. since(L) \in B
  <2>1. L \in 0 .. L
    BY <1>1 DEF L
  <2> QED BY <1>7, <2>1
<1> QED BY <1>5, <1>13, <1>14 DEF w

LEMMA PrefixOfRest ==
  ASSUME NEW x \in Seq(Letter), NEW T \in Seq(Letter), NEW rest \in Seq(Letter),
         NEW A \in Seq(Letter), (x \o T) \o rest = x \o A
  PROVE  IsPrefix(T, A)
<1>0. \A s, t, u \in Seq(Letter) : (s \o t) \o u = s \o (t \o u)
  BY JoinedBytes
<1>1. T \o rest \in Seq(Letter) /\ (x \o T) \o rest = x \o (T \o rest)
  <2>1. T \o rest \in Seq(Letter)
    OBVIOUS
  <2>2. (x \o T) \o rest = x \o (T \o rest)
    BY <1>0, Zenon
  <2> QED BY <2>1, <2>2
<1>2. x \o A = x \o (T \o rest)
  BY <1>1
<1>3. A = T \o rest
  BY <1>1, <1>2, JoinedBytes
<1> QED BY <1>3, PrefixOfConcat

(* What is under way to an endpoint that plays a flow is awaited there.        *)
LEMMA UnderWayIsAwaited ==
  ASSUME ReplayInv, NEW side \in Side, state[side] = "play"
  PROVE  IsPrefix(transit[side], Awaited(Turns(side), turn[side], side))
<1>1. connections # 0
  BY DEF ReplayInv, Idle
<1> DEFINE P == Played
           w == Other(side)
           k == turn[side]
           n == turn[w] - 1
           A == Awaited(P, k, side)
           T == transit[side]
           sent(i) == SentBy(P, w, i)
<1>2. ReplayTypes /\ Playing /\ P \in Seq(PlannedTurn) /\ Len(P) \in Nat
  BY <1>1, PlayedTurns DEF ReplayInv
<1>3. w \in Side /\ T \in Seq(Letter) /\ k \in 1 .. Len(P) + 1 /\ turn[w] \in 1 .. Len(P) + 1
  BY <1>2, Sides DEF ReplayTypes, Playing
<1>4. Awaited(Turns(side), k, side) = A
  <2> DEFINE Q == Turns(side)
  <2>1. /\ Len(Q) = Len(P)
        /\ \A m \in 1 .. Len(P) : /\ Q[m].from = P[m].from
                                  /\ P[m].from # side => Q[m].bytes = P[m].bytes
    BY <1>1, TurnsMatch
  <2>2. \A m \in 1 .. Len(P) - k + 1 : k + m - 1 \in 1 .. Len(P)
    BY <1>2, <1>3
  <2> HIDE DEF Q, P, k
  <2>3. \A m \in 1 .. Len(P) - k + 1 :
          (IF Q[k + m - 1].from # side THEN Q[k + m - 1].bytes ELSE <<>>)
            = (IF P[k + m - 1].from # side THEN P[k + m - 1].bytes ELSE <<>>)
    BY <2>1, <2>2
  <2>4. [m \in 1 .. Len(P) - k + 1 |-> IF Q[k + m - 1].from # side THEN Q[k + m - 1].bytes ELSE <<>>]
          = [m \in 1 .. Len(P) - k + 1 |-> IF P[k + m - 1].from # side THEN P[k + m - 1].bytes ELSE <<>>]
    BY <2>3
  <2>5. Awaited(Q, k, side) = Awaited(P, k, side)
    BY <2>1, <2>4 DEF Awaited
  <2> QED BY <2>5 DEF Q
<1>5. A \in Seq(Letter) /\ sent(Len(P)) = sent(k - 1) \o A
  BY <1>2, <1>3, AwaitedIs
<1>6. CASE hung
  <2>1. T = <<>> /\ <<>> \in Seq(Letter)
    BY <1>2, <1>6 DEF Playing
  <2>2. <<>> \o A = A
    BY <1>5, JoinedBytes
  <2>3. IsPrefix(<<>>, <<>> \o A)
    BY <1>5, <2>1, PrefixOfConcat
  <2>4. IsPrefix(T, A)
    BY <2>1, <2>2, <2>3, Zenon
  <2> QED BY <1>4, <2>4
<1>7. CASE ~hung
  <2>1. sent(n) = sent(k - 1) \o T
    <3>1. Has(side) = sent(k - 1)
      BY <1>1, HasRead
    <3>2. SentBy(Played, Other(side), turn[Other(side)] - 1) = Has(side) \o transit[side]
      BY <1>2, <1>7 DEF Playing, UnderWay
    <3> QED BY <3>1, <3>2
  <2>2. P \in Seq(Packet) /\ n \in Nat /\ n <= Len(P) /\ k - 1 \in 0 .. Len(P)
    BY <1>2, <1>3, TurnIsPacket
  <2> HIDE DEF P, w, k, n, T
  <2>0. Len(P) \in Nat /\ Len(P) <= Len(P)
    BY <1>2
  <2>3. PICK rest \in Seq(Letter) : sent(Len(P)) = sent(n) \o rest
    BY ZenonT(90), <2>0, <2>2, SentGrows
  <2>4. sent(k - 1) \in Seq(Letter)
    BY <2>2, SentType
  <2> HIDE DEF A, sent
  <2>5. (sent(k - 1) \o T) \o rest = sent(k - 1) \o A
    BY <1>5, <2>1, <2>3, Zenon
  <2>6. IsPrefix(T, A)
    BY <1>3, <1>5, <2>4, <2>5, PrefixOfRest
  <2> QED BY <1>4, <2>6 DEF T, k
<1> QED BY <1>6, <1>7

(* What is under way to an endpoint is what its plan has it read next, though  *)
(* no endpoint compares what it reads once the flow is known, and the server   *)
(* plays the flow that the client replays (replay_server_detect).              *)
THEOREM ReadsThePlan == Spec => []ReadsWhatIsPlanned
<1>1. ReplayInv => ReadsWhatIsPlanned
  <2> SUFFICES ASSUME ReplayInv PROVE ReadsWhatIsPlanned
    OBVIOUS
  <2>1. "client" \in Side /\ "server" \in Side
    BY DEF Side
  <2>2. ASSUME state["server"] = "play" PROVE played = flow
    <3>1. connections # 0
      BY <2>1, <2>2 DEF ReplayInv, Idle
    <3> QED BY <2>2, <3>1 DEF ReplayInv, Playing
  <2> QED BY <2>1, <2>2, UnderWayIsAwaited DEF ReadsWhatIsPlanned
<1> QED BY <1>1, ReplayInvariant, PTL

(* A replayed connection fails at neither end unless the system under test     *)
(* hangs or is too slow for a deadline: each end writes what the other reads,  *)
(* so that neither waits for the other (replay_client, replay_server).         *)
THEOREM UndisturbedConnectionsSucceed == Spec => []UndisturbedSucceeds
<1>1. ReplayInv => UndisturbedSucceeds
  BY DEF ReplayInv, OnlyDisturbedFail, UndisturbedSucceeds
<1> QED BY <1>1, ReplayInvariant, PTL

(* Whatever the capture missed, saw late or saw again, what the analysis keeps *)
(* of a side of a flow is one piece of what that side sent (reassemble,        *)
(* finish_analysis), as long as no side sends so many bytes that a sequence    *)
(* number comes again.                                                        *)
THEOREM KeepsOnePiece ==
  ASSUME ShortFlows
  PROVE  Spec => []KeptIsOnePiece
<1>1. AnalysisInv => KeptIsOnePiece
  <2> SUFFICES ASSUME AnalysisInv, phase = "analysed", NEW n \in DOMAIN kept
               PROVE  LET k == kept[n]
                          IsPiece(piece, whole) ==
                            \E m \in 0 .. Len(whole) - Len(piece) :
                              piece = SubSeq(whole, m + 1, m + Len(piece))
                      IN  IsPiece(k.up, Sent(k, "client")) /\ IsPiece(k.down, Sent(k, "server"))
    BY DEF KeptIsOnePiece
  <2> DEFINE k == kept[n]
  <2>1. kept \in Seq(Kept)
    BY DEF AnalysisInv
  <2>2. k \in Kept
    BY <2>1
  <2>3. /\ k \in KeptType
        /\ IsPieceOf(k.up, Sent(k, "client")) /\ IsPieceOf(k.down, Sent(k, "server"))
    BY <2>2 DEF Kept
  <2>4. k.up \in Seq(Letter) /\ k.down \in Seq(Letter) /\ k.flow \in Flow
    BY <2>3 DEF KeptType
  <2>5. \A s : Sent(k, s) \in Seq(Letter)
    <3>1. Talk(k.flow) \in Seq(Packet) /\ passed[k.flow] \in 0 .. Len(Talk(k.flow))
      BY <2>4, FlowsAre
    <3> QED BY <3>1, SentType DEF Sent
  <2> HIDE DEF k
  <2>6. ASSUME NEW piece \in Seq(Letter), NEW whole \in Seq(Letter), IsPieceOf(piece, whole)
        PROVE  \E m \in 0 .. Len(whole) - Len(piece) :
                 piece = SubSeq(whole, m + 1, m + Len(piece))
    <3>1. PICK p \in 0 .. Len(whole) : Piece(piece, whole, p)
      BY <2>6 DEF IsPieceOf
    <3>2. p \in 0 .. Len(whole) - Len(piece)
      BY <3>1 DEF Piece
    <3> QED BY <3>1, <3>2 DEF Piece
  <2> QED BY <2>3, <2>4, <2>5, <2>6 DEF k
<1>2. Spec => [](ReplayInv /\ AnalysisInv)
  BY ReplayInvariant
<1> QED BY <1>1, <1>2, PTL
(* Every reachable state of a capture and its replay is type correct.          *)
THEOREM CaptureReplayTypes == Spec => []TypeOK
<1> DEFINE Faults == faults \in 0 .. MaxFaults
<1>1. Init => Faults
  BY CaptureAssumption DEF Init
<1>2. Faults /\ [Next]_vars => Faults'
  <2> SUFFICES ASSUME Faults, [Next]_vars PROVE Faults'
    OBVIOUS
  <2>1. CASE UNCHANGED vars
    BY <2>1 DEF vars, captureVars
  <2>2. CASE Next
    <3>1. faults' \in {0, faults} \/ Fault
      BY <2>2 DEF Next, Seen, Miss, CaptureAgain, CaptureTwo, Analyse, MakePlan, Connect, Detect,
                  Hang, Steps, Write, Read, Finish, SeesEnd, WriteFails, TimesOut, Connection,
                  Replaying, captureVars
    <3> QED BY <3>1, CaptureAssumption DEF Fault
  <2> QED BY <2>1, <2>2
<1>3. Faults /\ ReplayInv /\ AnalysisInv => TypeOK
  <2> SUFFICES ASSUME Faults, ReplayInv, AnalysisInv PROVE TypeOK
    OBVIOUS
  <2>1. "client" \in Side /\ "server" \in Side
    BY DEF Side
  <2>2. ReplayTypes
    BY DEF ReplayInv
  <2>3. CASE connections = 0
    BY <2>1, <2>2, <2>3 DEF ReplayInv, ReplayTypes, AnalysisInv, Idle, TypeOK
  <2>4. CASE connections # 0
    <3>1. Playing /\ PlansMatch /\ flow \in 1 .. Len(plan["server"])
      BY <2>4, PlayedTurns DEF ReplayInv
    <3>2. DOMAIN plan["client"] = 1 .. Len(plan["server"]) /\ DOMAIN plan["server"] = 1 .. Len(plan["server"])
      BY <2>1, <3>1 DEF PlansMatch
    <3>3. flow \in DOMAIN plan["client"] /\ played \in {0} \cup DOMAIN plan["server"]
      BY <3>1, <3>2 DEF Playing
    <3>4. state["client"] # "detect"
      BY <3>1 DEF Playing
    <3> QED BY <2>1, <2>2, <2>4, <3>3, <3>4 DEF ReplayTypes, AnalysisInv, TypeOK
  <2> QED BY <2>3, <2>4
<1> QED BY <1>1, <1>2, <1>3, ReplayInvariant, PTL DEF Spec

-----------------------------------------------------------------------------
(* A side of a flow, read to its end                                          *)

(* The segments of a side that has sent whole, the first of them with number   *)
(* first, and no wrap: a segment stands where its number says.                 *)
StandWhere(segments, whole, first) ==
  /\ first \in 0 .. 2 ^ SeqBits - 1 /\ DOMAIN segments \subseteq first .. 2 ^ SeqBits - 1
  /\ \A k \in DOMAIN segments :
       segments[k] \in Seq(Letter) \ {<<>>} /\ Piece(segments[k], whole, k - first)

(* The streams of reassemble come to the end without a gap: before number k    *)
(* they have reached its place, and after it at least the end of its segment.  *)
ReadsAll(g, segments, whole, first) ==
  /\ g \in [0 .. 2 ^ SeqBits -> StreamType] /\ Takes(g, segments)
  /\ g[2 ^ SeqBits].out = whole
  /\ \A n \in 0 .. 2 ^ SeqBits : ~g[n].gap /\ Piece(g[n].out, whole, 0)
  /\ \A k \in DOMAIN segments :
       /\ g[k].next = first + Len(g[k].out) /\ k <= g[k].next
       /\ LET end == k - first + Len(segments[k])
          IN  Len(g[k + 1].out) = IF Len(g[k].out) < end THEN end ELSE Len(g[k].out)

LEMMA WidthIs == 2 ^ SeqBits \in Nat \ {0}
BY CaptureAssumption

(* A segment, for a stream that has reached its place from the beginning.      *)
LEMMA SegmentTakes ==
  ASSUME NEW whole \in Seq(Letter), Len(whole) < 2 ^ SeqBits, NEW isn \in Nat,
         NEW s \in StreamType, ReachedFrom(0, s, whole, isn), NEW first, first = isn % 2 ^ SeqBits,
         NEW k \in first .. 2 ^ SeqBits - 1, NEW bytes \in Seq(Letter) \ {<<>>},
         Piece(bytes, whole, k - first), k <= s.next
  PROVE  /\ ReachedFrom(0, Segment(s, k, bytes), whole, isn)
         /\ s.next = first + Len(s.out)
         /\ LET end == k - first + Len(bytes)
            IN  Len(Segment(s, k, bytes).out) =
                  IF Len(s.out) < end THEN end ELSE Len(s.out)
<1> DEFINE M == 2 ^ SeqBits
           L == Len(whole)
           p == k - first
           e == Len(s.out)
           new == Segment(s, k, bytes)
<1>1. /\ M \in Nat \ {0} /\ L \in Nat /\ L < M /\ Len(bytes) \in Nat \ {0}
      /\ s.out \in Seq(Letter) /\ e \in Nat /\ s.next \in Nat
  BY WidthIs DEF StreamType
<1>2. first \in 0 .. M - 1 /\ k \in Nat /\ p \in Nat
  <2>1. first \in 0 .. M - 1
    BY <1>1, Remainder
  <2> HIDE DEF M
  <2> QED BY <1>1, <2>1 DEF M
<1>3. p + Len(bytes) <= L /\ e <= L /\ s.next = (isn + e) % M
  <2>1. 0 + e = e
    BY <1>1
  <2>2. s.next = (isn + (0 + e)) % M /\ 0 + e <= L
    BY DEF Piece, ReachedFrom
  <2>3. p + Len(bytes) <= L
    BY DEF Piece
  <2> HIDE DEF M, e, L
  <2> QED BY <2>1, <2>2, <2>3
<1>4. isn % M <= (isn + e) % M
  <2>1. first = isn % M /\ first <= k /\ k <= s.next
    BY <1>1, <1>2
  <2>2. s.next = (isn + e) % M
    BY <1>3
  <2> HIDE DEF M, e
  <2>3. first <= s.next
    BY <1>1, <1>2, <2>1
  <2> QED BY <2>1, <2>2, <2>3
<1> HIDE DEF M, L, e, new, p
<1>5. (isn + 0) % M = isn % M
  OBVIOUS
<1>6. s.next = first + e
  <2>1. /\ e \in 0 .. M - 1 /\ 0 \in 0 .. M - 1 /\ (isn + 0) % M <= (isn + e) % M
    BY <1>1, <1>3, <1>4, <1>5
  <2>2. \/ e - 0 = ((isn + e) % M) - ((isn + 0) % M)
        \/ e - 0 = ((isn + e) % M) - ((isn + 0) % M) - M
    BY <1>1, <2>1, Distance
  <2>3. first = isn % M
    BY DEF M
  <2>4. e = s.next - first \/ e = s.next - first - M
    <3>1. s.next = (isn + e) % M /\ first = (isn + 0) % M
      BY <1>3, <1>5, <2>3, Zenon
    <3>2. e - 0 = s.next - first \/ e - 0 = s.next - first - M
      BY <2>2, <3>1, Zenon
    <3>3. e - 0 = e
      BY <1>1
    <3> QED BY <3>2, <3>3, Zenon
  <2>5. s.next \in 0 .. M - 1
    BY <1>1, <1>3, Remainder
  <2> QED BY <1>1, <1>2, <2>4, <2>5
<1>7. k = (isn + p) % M
  <2>1. PICK q \in Int : isn = M * q + first
    BY <1>1, Remainder DEF M
  <2>2. isn + p = M * q + k
    BY <1>1, <1>2, <2>1, Times DEF p
  <2>3. isn + p \in Nat /\ k \in 0 .. M - 1
    BY <1>1, <1>2 DEF M
  <2> QED BY <1>1, <2>2, <2>3, RemainderIs
<1>8. ReachedFrom(0, new, whole, isn)
  <2>1. p \in 0 .. Len(whole) /\ 0 \in 0 .. Len(whole)
    BY <1>1, <1>2, <1>3 DEF L
  <2>2. bytes \in Seq(Letter) /\ bytes # <<>> /\ Piece(bytes, whole, p) /\ k \in Nat
    BY <1>2 DEF p
  <2> QED BY <1>7, <2>1, <2>2, SegmentReachesFrom DEF M, new
<1>9. Len(new.out) = IF e < p + Len(bytes) THEN p + Len(bytes) ELSE e
  <2> DEFINE len == Len(bytes)
             ov == s.next - k
             rest == SubSeq(bytes, ov + 1, len)
  <2>1. ov = e - p /\ ov \in Nat /\ (ov < len <=> e < p + len)
    <3>1. /\ len \in Nat /\ e \in Nat /\ s.next \in Nat /\ first \in Nat /\ k \in Nat
          /\ k <= s.next /\ s.next = first + e /\ p = k - first /\ ov = s.next - k
      BY <1>1, <1>2, <1>6 DEF p
    <3> HIDE DEF len, ov, rest
    <3>2. ov = e - p /\ ov \in Nat
      BY <3>1, SMTT(90)
    <3>3. ov < len => e < p + len
      BY <3>1, <3>2, SMTT(90)
    <3>4. e < p + len => ov < len
      BY <3>1, <3>2, SMTT(90)
    <3> QED BY <3>2, <3>3, <3>4
  <2>2. ~(k > s.next)
    BY <1>1, <1>2
  <2>3. new.out = IF ov < len THEN s.out \o rest ELSE s.out
    <3> HIDE DEF ov, rest, len
    <3> QED BY <2>2 DEF new, Segment, ov, rest, len
  <2>4. ov < len => Len(s.out \o rest) = p + len
    <3> SUFFICES ASSUME ov < len PROVE Len(s.out \o rest) = p + len
      OBVIOUS
    <3> HIDE DEF ov, len
    <3>1. ov \in Nat /\ len \in Nat /\ ov = e - p
      BY <1>1, <1>2, <1>6, <2>1 DEF len, ov, p
    <3>2. \A i \in ov + 1 .. len : bytes[i] \in Letter
      BY <3>1 DEF len
    <3>3. rest \in Seq(Letter) /\ Len(rest) = IF ov + 1 <= len THEN len - (ov + 1) + 1 ELSE 0
      BY <3>1, <3>2, SubSeqProperties
    <3>4. Len(rest) = len - ov
      BY <3>1, <3>3
    <3> HIDE DEF rest
    <3>5. Len(s.out \o rest) = e + Len(rest)
      BY <1>1, <3>3, JoinedBytes DEF e
    <3> QED BY <1>1, <1>2, <3>1, <3>4, <3>5
  <2> HIDE DEF ov, rest, len
  <2>5. e < p + len => ov < len
    BY <2>1
  <2>6. ~(e < p + len) => ~(ov < len)
    BY <1>1, <1>2, <1>6, SMTT(90) DEF ov, len, p
  <2>7. CASE e < p + len
    BY <2>3, <2>4, <2>5, <2>7 DEF len
  <2>8. CASE ~(e < p + len)
    BY <2>3, <2>6, <2>8 DEF len, e
  <2> QED BY <2>7, <2>8 DEF len
<1> QED BY <1>6, <1>8, <1>9 DEF new, e, p

LEMMA NumberIsPlace ==
  ASSUME NEW M \in Nat \ {0}, NEW isn \in Nat, NEW p \in 0 .. M - 1, isn % M <= (isn + p) % M
  PROVE  (isn + p) % M = (isn % M) + p
<1> DEFINE k == (isn + p) % M
           first == isn % M
<1>1. k \in 0 .. M - 1 /\ first \in 0 .. M - 1
  BY Remainder
<1>2. (isn + 0) % M = first
  OBVIOUS
<1>3. \/ p - 0 = ((isn + p) % M) - ((isn + 0) % M)
      \/ p - 0 = ((isn + p) % M) - ((isn + 0) % M) - M
  <2>1. 0 \in 0 .. M - 1 /\ (isn + 0) % M <= (isn + p) % M
    BY <1>2
  <2> HIDE DEF k, first
  <2> QED BY <2>1, Distance
<1>4. p = k - first \/ p = k - first - M
  BY <1>2, <1>3
<1> HIDE DEF k, first
<1>5. k = first + p
  BY <1>1, <1>4
<1> QED BY <1>5 DEF k, first

LEMMA ReadsToTheEnd ==
  ASSUME NEW whole \in Seq(Letter), Len(whole) < 2 ^ SeqBits, whole # <<>>, NEW isn \in Nat,
         NEW segments, DOMAIN segments \subseteq 0 .. 2 ^ SeqBits - 1, DOMAIN segments # {},
         \A k \in DOMAIN segments :
           /\ segments[k] \in Seq(Letter) \ {<<>>}
           /\ \E p \in 0 .. Len(whole) :
                k = (isn + p) % 2 ^ SeqBits /\ Piece(segments[k], whole, p),
         ~Reassemble(segments).gap, Reassemble(segments).out = whole
  PROVE  /\ StandWhere(segments, whole, isn % 2 ^ SeqBits)
         /\ \E g : ReadsAll(g, segments, whole, isn % 2 ^ SeqBits)
<1> DEFINE M == 2 ^ SeqBits
           L == Len(whole)
           first == isn % M
           k0 == Min(DOMAIN segments)
<1>1. M \in Nat \ {0} /\ L \in Nat \ {0} /\ L < M
  BY WidthIs
<1>2. first \in 0 .. M - 1
  <2> HIDE DEF M
  <2> QED BY <1>1, Remainder
<1>3. DOMAIN segments \subseteq Nat
  BY <1>1
<1>4. k0 \in DOMAIN segments /\ k0 \in Nat /\ \A k \in DOMAIN segments : k0 <= k
  BY <1>3, MinOf
<1>5. PICK g \in [0 .. M -> StreamType] : Takes(g, segments) /\ Reassemble(segments) = g[M]
  <2>1. [out |-> <<>>, next |-> k0, gap |-> FALSE] \in StreamType
    <3>1. <<>> \in Seq(Letter)
      OBVIOUS
    <3> HIDE DEF k0
    <3> QED BY <1>4, <3>1 DEF StreamType
  <2>2. \A s \in StreamType : \A k \in DOMAIN segments : Segment(s, k, segments[k]) \in StreamType
    BY <1>3, SegmentType
  <2> QED BY <2>1, <2>2, ReassembleTakes
<1> HIDE DEF M, L, first, k0
<1>6. ASSUME NEW n \in 0 .. M
      PROVE  /\ g[n] \in StreamType /\ g[n].out \in Seq(Letter) /\ g[n].next \in Nat
             /\ g[n].gap \in BOOLEAN
  BY DEF StreamType
<1>7. ASSUME NEW n \in 0 .. M - 1
      PROVE  /\ n \in 0 .. M /\ n + 1 \in 0 .. M
             /\ g[n + 1] = IF n \in DOMAIN segments THEN Segment(g[n], n, segments[n]) ELSE g[n]
  BY <1>1, <1>5, SMTT(90) DEF Takes, M
<1>8. \A n \in 0 .. M : ~g[n].gap
  <2> DEFINE S == {d \in Nat : d <= M => ~g[M - d].gap}
  <2>1. 0 \in S
    <3>1. M - 0 = M /\ ~g[M].gap
      BY <1>1, <1>5
    <3> QED BY <3>1
  <2>2. ASSUME NEW d \in S PROVE d + 1 \in S
    <3> SUFFICES ASSUME d + 1 <= M PROVE ~g[M - (d + 1)].gap
      OBVIOUS
    <3> DEFINE n == M - (d + 1)
    <3>1. n \in 0 .. M - 1 /\ n + 1 = M - d /\ d <= M
      BY <1>1
    <3>2. ~g[n + 1].gap
      BY <3>1
    <3> HIDE DEF n
    <3>3. g[n + 1].gap = g[n].gap \/ g[n + 1].gap = (g[n].gap \/ n > g[n].next)
      <4>1. \A s, k, b : Segment(s, k, b).gap = (s.gap \/ k > s.next)
        BY DEF Segment
      <4> QED BY <1>7, <3>1, <4>1
    <3>4. ~g[n].gap
      BY <3>2, <3>3, Zenon
    <3> QED BY <3>4 DEF n
  <2>3. S = Nat
    <3>1. S \subseteq Nat
      OBVIOUS
    <3> HIDE DEF S
    <3> QED BY <2>1, <2>2, <3>1, InductionOn
  <2> TAKE n \in 0 .. M
  <2>4. M - n \in Nat /\ M - n <= M /\ M - (M - n) = n
    BY <1>1
  <2>5. M - n \in S
    BY <2>3, <2>4
  <2> QED BY <2>4, <2>5
<1>9. ASSUME NEW n \in 0 .. M - 1, n \in DOMAIN segments PROVE n <= g[n].next
  <2>1. Segment(g[n], n, segments[n]).gap = (g[n].gap \/ n > g[n].next)
    BY DEF Segment
  <2>2. ~(n > g[n].next)
    BY <1>7, <1>8, <1>9, <2>1
  <2> QED BY <1>6, <1>7, <2>2
<1>10. PICK p0 \in 0 .. L : k0 = (isn + p0) % M /\ Piece(segments[k0], whole, p0)
  BY <1>4 DEF M, L
<1> DEFINE Starts(s) == s.out = <<>> /\ s.next = k0
           At(n) == Starts(g[n]) \/ ReachedFrom(p0, g[n], whole, isn)
<1>11. \A n \in 0 .. M : At(n)
  <2> DEFINE S == {n \in Nat : n <= M => At(n)}
  <2>1. 0 \in S
    BY <1>5 DEF Takes, k0
  <2>2. ASSUME NEW n \in S PROVE n + 1 \in S
    <3> SUFFICES ASSUME n + 1 <= M PROVE At(n + 1)
      BY DEF At
    <3>1. n \in 0 .. M - 1 /\ n <= M
      BY <1>1
    <3>2. At(n)
      BY <3>1
    <3>3. CASE n \notin DOMAIN segments
      <4>1. g[n + 1] = g[n]
        BY <1>7, <3>1, <3>3
      <4> QED BY <3>2, <4>1
    <3>4. CASE n \in DOMAIN segments
      <4>1. n <= g[n].next /\ n \in Nat /\ g[n] \in StreamType /\ g[n].next \in Nat
        BY <1>6, <1>7, <1>9, <3>1, <3>4
      <4>2. PICK p \in 0 .. L :
              /\ n = (isn + p) % M /\ Piece(segments[n], whole, p)
              /\ Starts(g[n]) => p = p0 /\ n = k0
        <5>1. CASE Starts(g[n])
          <6>1. n = k0
            BY <1>4, <3>4, <4>1, <5>1
          <6> QED BY <1>10, <6>1
        <5>2. CASE ~Starts(g[n])
          BY <3>4, <5>2 DEF M, L
        <5> QED BY <5>1, <5>2
      <4>3. ReachedFrom(p0, g[n], whole, isn) \/ (g[n].out = <<>> /\ g[n].next = n /\ p0 = p)
        BY <3>2, <4>2
      <4>4. segments[n] \in Seq(Letter) /\ segments[n] # <<>>
        BY <3>4
      <4> HIDE DEF At
      <4>5. ReachedFrom(p0, Segment(g[n], n, segments[n]), whole, isn)
        BY <4>1, <4>2, <4>3, <4>4, SegmentReachesFrom DEF M, L
      <4> QED BY <1>7, <3>1, <3>4, <4>5 DEF At
    <3> QED BY <3>3, <3>4
  <2>3. S = Nat
    <3>1. S \subseteq Nat
      OBVIOUS
    <3> HIDE DEF S
    <3> QED BY <2>1, <2>2, <3>1, InductionOn
  <2> HIDE DEF At
  <2> QED BY <1>1, <2>3
<1>12. p0 = 0 /\ k0 = first
  <2>1. M \in 0 .. M /\ g[M].out = whole
    BY <1>1, <1>5
  <2>2. ReachedFrom(p0, g[M], whole, isn)
    BY <1>11, <2>1
  <2>3. p0 + L <= L
    BY <2>1, <2>2 DEF ReachedFrom, Piece, L
  <2>4. p0 = 0
    BY <1>1, <2>3
  <2>5. isn + 0 = isn
    OBVIOUS
  <2> QED BY <1>10, <2>4, <2>5 DEF first
<1>13. ASSUME NEW k \in DOMAIN segments
       PROVE  /\ k \in first .. M - 1 /\ segments[k] \in Seq(Letter) \ {<<>>}
              /\ Piece(segments[k], whole, k - first)
  <2>1. PICK p \in 0 .. L : k = (isn + p) % M /\ Piece(segments[k], whole, p)
    BY DEF M, L
  <2>2. first <= k /\ k \in 0 .. M - 1
    BY <1>4, <1>12 DEF M
  <2>3. p \in 0 .. M - 1
    BY <1>1
  <2>4. k = first + p
    <3>1. isn % M <= (isn + p) % M
      BY <2>1, <2>2 DEF first
    <3>2. (isn + p) % M = (isn % M) + p
      <4>1. M \in Nat \ {0}
        BY <1>1
      <4> QED BY <2>3, <3>1, <4>1, NumberIsPlace, ZenonT(90)
    <3> QED BY <2>1, <3>2 DEF first
  <2>5. k - first = p /\ k \in first .. M - 1
    BY <1>1, <1>2, <2>2, <2>4
  <2> QED BY <2>1, <2>5
<1>14. StandWhere(segments, whole, first)
  BY <1>2, <1>13 DEF StandWhere, M
<1>15. ASSUME NEW n \in 0 .. M PROVE ReachedFrom(0, g[n], whole, isn)
  <2>1. CASE Starts(g[n])
    <3>1. g[n].out = <<>> /\ g[n].next = first /\ Len(<<>>) = 0
      BY <1>12, <2>1
    <3>2. Piece(<<>>, whole, 0)
      <4>1. SubSeq(whole, 1, 0) = <<>>
        BY SubSeqEmpty
      <4> QED BY <1>1, <3>1, <4>1 DEF Piece, L
    <3>3. isn + (0 + 0) = isn
      OBVIOUS
    <3> QED BY <3>1, <3>2, <3>3 DEF ReachedFrom, first, M
  <2>2. CASE ~Starts(g[n])
    BY <1>11, <1>12, <2>2
  <2> QED BY <2>1, <2>2
<1>16. ASSUME NEW k \in DOMAIN segments
       PROVE  /\ g[k].next = first + Len(g[k].out) /\ k <= g[k].next
              /\ LET end == k - first + Len(segments[k])
                 IN  Len(g[k + 1].out) = IF Len(g[k].out) < end THEN end ELSE Len(g[k].out)
  <2>1. k \in 0 .. M - 1 /\ k \in first .. M - 1
    BY <1>1, <1>2, <1>13
  <2>2. k \in 0 .. M /\ g[k + 1] = Segment(g[k], k, segments[k]) /\ k <= g[k].next
    BY <1>7, <1>9, <2>1
  <2>3. g[k] \in StreamType /\ ReachedFrom(0, g[k], whole, isn)
    BY <1>6, <1>15, <2>2
  <2> QED BY <1>13, <2>1, <2>2, <2>3, SegmentTakes DEF M, first
<1>17. \A n \in 0 .. M : ~g[n].gap /\ Piece(g[n].out, whole, 0)
  BY <1>8, <1>15 DEF ReachedFrom
<1>18. ReadsAll(g, segments, whole, first)
  BY <1>5, <1>16, <1>17 DEF ReadsAll, M
<1> QED BY <1>14, <1>18 DEF first, M

(* A place that no segment crosses.                                           *)
Boundary(E, segments, whole, first) ==
  /\ E \in 0 .. Len(whole)
  /\ \A k \in DOMAIN segments : k - first < E => k - first + Len(segments[k]) <= E

(* The number of a place, or of the end.                                      *)
NumberOf(E, first) == IF first + E <= 2 ^ SeqBits THEN first + E ELSE 2 ^ SeqBits

(* Where there are no segments, a stream stays as it is.                       *)
LEMMA TakesNothing ==
  ASSUME NEW g, NEW segments, Takes(g, segments), NEW m \in Nat, NEW n \in m .. 2 ^ SeqBits,
         \A k \in DOMAIN segments : ~(m <= k /\ k < n)
  PROVE  g[n] = g[m]
<1> DEFINE S == {d \in Nat : m + d <= n => g[m + d] = g[m]}
<1>1. 2 ^ SeqBits \in Nat
  BY WidthIs
<1>2. 0 \in S
  OBVIOUS
<1>3. ASSUME NEW d \in S PROVE d + 1 \in S
  <2> SUFFICES ASSUME m + (d + 1) <= n PROVE g[m + (d + 1)] = g[m]
    OBVIOUS
  <2> DEFINE k == m + d
  <2>1. k + 1 = m + (d + 1) /\ k \in 0 .. 2 ^ SeqBits - 1 /\ m <= k /\ k < n /\ m + d <= n
    BY <1>1
  <2>2. k \notin DOMAIN segments /\ g[k] = g[m]
    BY <2>1
  <2> HIDE DEF k
  <2>3. g[k + 1] = g[k]
    BY <2>1, <2>2 DEF Takes
  <2> QED BY <2>1, <2>2, <2>3
<1>4. S = Nat
  <2>1. S \subseteq Nat
    OBVIOUS
  <2> HIDE DEF S
  <2> QED BY <1>2, <1>3, <2>1, InductionOn
<1>5. n - m \in Nat /\ m + (n - m) = n /\ n <= n
  BY <1>1
<1>6. m + (n - m) <= n => g[m + (n - m)] = g[m]
  <2>1. n - m \in S
    BY <1>4, <1>5
  <2> QED BY <2>1
<1> QED BY <1>5, <1>6

LEMMA ReadsTypes ==
  ASSUME NEW whole \in Seq(Letter), NEW first, NEW segments, StandWhere(segments, whole, first),
         NEW g, ReadsAll(g, segments, whole, first)
  PROVE  /\ 2 ^ SeqBits \in Nat \ {0} /\ first \in Nat /\ Len(whole) \in Nat
         /\ \A n \in 0 .. 2 ^ SeqBits :
              /\ g[n] \in StreamType /\ g[n].out \in Seq(Letter) /\ Len(g[n].out) \in Nat
              /\ g[n].out = SubSeq(whole, 1, Len(g[n].out)) /\ Len(g[n].out) <= Len(whole)
         /\ \A k \in DOMAIN segments :
              /\ k \in Nat /\ first <= k /\ k + 1 <= 2 ^ SeqBits
              /\ segments[k] \in Seq(Letter) /\ Len(segments[k]) \in Nat \ {0}
              /\ k - first + Len(segments[k]) <= Len(whole)
<1>1. 2 ^ SeqBits \in Nat \ {0} /\ first \in Nat /\ Len(whole) \in Nat
  BY WidthIs DEF StandWhere
<1>2. ASSUME NEW n \in 0 .. 2 ^ SeqBits
      PROVE  /\ g[n] \in StreamType /\ g[n].out \in Seq(Letter) /\ Len(g[n].out) \in Nat
             /\ g[n].out = SubSeq(whole, 1, Len(g[n].out)) /\ Len(g[n].out) <= Len(whole)
  <2>1. g[n] \in StreamType /\ Piece(g[n].out, whole, 0)
    BY DEF ReadsAll
  <2>2. g[n].out \in Seq(Letter)
    BY <2>1 DEF StreamType
  <2> DEFINE e == Len(g[n].out)
  <2>3. e \in Nat
    BY <2>2
  <2>4. g[n].out = SubSeq(whole, 0 + 1, 0 + e) /\ 0 + e <= Len(whole)
    BY <2>1 DEF Piece
  <2> HIDE DEF e
  <2>5. 0 + 1 = 1 /\ 0 + e = e
    BY <2>3
  <2> QED BY <2>1, <2>2, <2>3, <2>4, <2>5 DEF e
<1>3. ASSUME NEW k \in DOMAIN segments
      PROVE  /\ k \in Nat /\ first <= k /\ k + 1 <= 2 ^ SeqBits
             /\ segments[k] \in Seq(Letter) /\ Len(segments[k]) \in Nat \ {0}
             /\ k - first + Len(segments[k]) <= Len(whole)
  <2>1. /\ k \in first .. 2 ^ SeqBits - 1 /\ segments[k] \in Seq(Letter) /\ segments[k] # <<>>
        /\ Piece(segments[k], whole, k - first)
    BY DEF StandWhere
  <2>2. k - first + Len(segments[k]) <= Len(whole)
    BY <2>1 DEF Piece
  <2> QED BY <1>1, <2>1, <2>2
<1> QED BY <1>1, <1>2, <1>3

(* Where reassemble comes to a boundary, it has read all before it.            *)
LEMMA ReadsToBoundary ==
  ASSUME NEW whole \in Seq(Letter), NEW first, NEW segments, StandWhere(segments, whole, first),
         NEW g, ReadsAll(g, segments, whole, first), NEW E, Boundary(E, segments, whole, first)
  PROVE  NumberOf(E, first) \in 0 .. 2 ^ SeqBits /\ Len(g[NumberOf(E, first)].out) = E
<1> DEFINE M == 2 ^ SeqBits
           L == Len(whole)
           n == NumberOf(E, first)
           r(m) == Len(g[m].out)
<1>1. /\ M \in Nat \ {0} /\ first \in Nat /\ L \in Nat /\ E \in Nat /\ E <= L
      /\ \A m \in 0 .. M : r(m) \in Nat
  BY ReadsTypes DEF Boundary
<1>2. n \in 0 .. M /\ n <= first + E /\ (n = first + E \/ n = M)
  BY <1>1 DEF NumberOf
<1>3. ASSUME NEW k \in DOMAIN segments
      PROVE  /\ k \in Nat /\ first <= k /\ k + 1 <= M /\ Len(segments[k]) \in Nat
             /\ k - first < E => k - first + Len(segments[k]) <= E
             /\ g[k].next = first + r(k) /\ k <= g[k].next
             /\ r(k + 1) = IF r(k) < k - first + Len(segments[k])
                           THEN k - first + Len(segments[k]) ELSE r(k)
  <2>1. /\ k \in Nat /\ first <= k /\ k + 1 <= M /\ Len(segments[k]) \in Nat
    BY ReadsTypes
  <2>2. k - first < E => k - first + Len(segments[k]) <= E
    BY DEF Boundary
  <2>3. /\ g[k].next = first + r(k) /\ k <= g[k].next
        /\ r(k + 1) = IF r(k) < k - first + Len(segments[k])
                      THEN k - first + Len(segments[k]) ELSE r(k)
    BY Zenon DEF ReadsAll
  <2> QED BY <2>1, <2>2, <2>3
<1>4. Takes(g, segments) /\ g[M].out = whole
  BY DEF ReadsAll
<1>5. \A m \in 0 .. M - 1 : m \notin DOMAIN segments => r(m + 1) = r(m)
  BY <1>4 DEF Takes
<1>6. r(0) = 0
  BY <1>4 DEF Takes
<1> HIDE DEF M, L, n, r
<1>7. r(n) <= E
  <2> DEFINE S == {m \in Nat : m <= n => r(m) <= E}
  <2>1. 0 \in S
    BY <1>1, <1>6
  <2>2. ASSUME NEW m \in S PROVE m + 1 \in S
    <3> SUFFICES ASSUME m + 1 <= n PROVE r(m + 1) <= E
      OBVIOUS
    <3>1. /\ m \in 0 .. M - 1 /\ m \in 0 .. M /\ m < first + E /\ r(m) <= E /\ r(m) \in Nat
      BY <1>1, <1>2
    <3>2. CASE m \in DOMAIN segments
      <4>1. m - first + Len(segments[m]) <= E
        <5>1. m - first < E
          BY <1>1, <3>1
        <5> QED BY <1>3, <3>2, <5>1
      <4>2. r(m + 1) \in {m - first + Len(segments[m]), r(m)}
        BY <1>3, <3>2
      <4> QED BY <3>1, <4>1, <4>2
    <3>3. CASE m \notin DOMAIN segments
      BY <1>5, <3>1, <3>3
    <3> QED BY <3>2, <3>3
  <2>3. S = Nat
    <3>1. S \subseteq Nat
      OBVIOUS
    <3> HIDE DEF S
    <3> QED BY <2>1, <2>2, <3>1, InductionOn
  <2> QED BY <1>1, <1>2, <2>3
<1>8. r(n) >= E
  <2> DEFINE N == {k \in DOMAIN segments : n <= k}
  <2>1. CASE N = {}
    <3>1. g[M] = g[n]
      <4>1. M \in n .. M /\ n \in Nat
        BY <1>1, <1>2
      <4>2. \A k \in DOMAIN segments : ~(n <= k /\ k < M)
        BY <2>1
      <4> QED BY <1>4, <4>1, <4>2, TakesNothing DEF M
    <3>2. r(n) = L
      BY <1>4, <3>1 DEF r, L
    <3> QED BY <1>1, <3>2
  <2>2. CASE N # {}
    <3> DEFINE k == Min(N)
    <3>1. N \subseteq Nat
      BY <1>3
    <3>2. k \in N /\ \A y \in N : k <= y
      <4> HIDE DEF N
      <4> QED BY <2>2, <3>1, MinOf
    <3> HIDE DEF k
    <3>3. /\ k \in DOMAIN segments /\ n <= k /\ k \in Nat /\ k + 1 <= M
      BY <1>3, <3>2
    <3>4. g[k] = g[n]
      <4>1. k \in n .. M /\ n \in Nat
        BY <1>1, <1>2, <3>3
      <4>2. \A y \in DOMAIN segments : ~(n <= y /\ y < k)
        BY <1>2, <1>3, <3>2, <3>3
      <4> QED BY <1>4, <4>1, <4>2, TakesNothing DEF M
    <3>5. n = first + E
      BY <1>1, <1>2, <3>3
    <3>6. r(k) = r(n)
      BY <3>4 DEF r
    <3>7. k <= first + r(k)
      BY <1>3, <3>3
    <3> QED BY <1>1, <1>2, <3>3, <3>5, <3>6, <3>7
  <2> QED BY <2>1, <2>2
<1>9. r(n) = E
  BY <1>1, <1>2, <1>7, <1>8
<1> QED BY <1>2, <1>9 DEF r, n, M

(* The segments between two boundaries.                                       *)
Between(segments, first, E, F) == {k \in DOMAIN segments : E <= k - first /\ k - first < F}

(* Segments that stand one behind the other add the same to any stream that    *)
(* has come as far.                                                           *)
LEMMA SegmentAdds ==
  ASSUME NEW s \in StreamType, NEW t \in StreamType, NEW before \in Seq(Letter),
         s.out = before \o t.out, s.next = t.next, NEW k \in Nat, NEW bytes \in Seq(Letter),
         ~Segment(s, k, bytes).gap, ~t.gap
  PROVE  /\ Segment(s, k, bytes).out = before \o Segment(t, k, bytes).out
         /\ Segment(s, k, bytes).next = Segment(t, k, bytes).next
         /\ ~Segment(t, k, bytes).gap
<1> DEFINE next == IF k > s.next THEN k ELSE s.next
           ov == next - k
           rest == SubSeq(bytes, ov + 1, Len(bytes))
           new == Segment(s, k, bytes)
           other == Segment(t, k, bytes)
           end == (k + Len(bytes)) % 2 ^ SeqBits
<1>1. /\ s.next \in Nat /\ t.out \in Seq(Letter) /\ Len(bytes) \in Nat
  BY DEF StreamType
<1>2. new = IF ov < Len(bytes)
            THEN [out |-> s.out \o rest, next |-> end, gap |-> s.gap \/ k > s.next]
            ELSE [out |-> s.out, next |-> next, gap |-> s.gap \/ k > s.next]
  BY DEF Segment
<1>3. other = IF ov < Len(bytes)
              THEN [out |-> t.out \o rest, next |-> end, gap |-> t.gap \/ k > s.next]
              ELSE [out |-> t.out, next |-> next, gap |-> t.gap \/ k > s.next]
  BY DEF Segment
<1>4. ov \in Nat
  BY <1>1
<1>5. rest \in Seq(Letter)
  <2> HIDE DEF ov
  <2>1. \A i \in ov + 1 .. Len(bytes) : bytes[i] \in Letter
    BY <1>1, <1>4
  <2> QED BY <1>1, <1>4, <2>1, SubSeqProperties
<1>6. s.out \o rest = before \o (t.out \o rest)
  <2>1. \A x, y, z \in Seq(Letter) : (x \o y) \o z = x \o (y \o z)
    BY ConcatAssociative, SMTT(90)
  <2> DEFINE tail == t.out
  <2>2. tail \in Seq(Letter) /\ s.out = before \o tail
    BY <1>1
  <2> HIDE DEF rest, tail
  <2>3. (before \o tail) \o rest = before \o (tail \o rest)
    BY <1>5, <2>1, <2>2
  <2> QED BY <2>2, <2>3 DEF tail
<1> HIDE DEF next, ov, rest, new, other, end
<1>7. new.gap = (s.gap \/ k > s.next) /\ other.gap = (t.gap \/ k > s.next)
  BY <1>2, <1>3
<1>8. ~other.gap
  <2>1. ~new.gap
    BY DEF new
  <2> QED BY <1>7, <2>1, Zenon
<1>9. new.out = before \o other.out /\ new.next = other.next
  <2>1. CASE ov < Len(bytes)
    BY <1>2, <1>3, <1>6, <2>1
  <2>2. CASE ~(ov < Len(bytes))
    BY <1>2, <1>3, <2>2
  <2> QED BY <2>1, <2>2
<1> QED BY <1>8, <1>9 DEF new, other

(* What reassemble makes of the segments between two boundaries is what was    *)
(* sent between them; there are some.                                         *)
LEMMA ReadsBetween ==
  ASSUME NEW whole \in Seq(Letter), NEW first, NEW segments, StandWhere(segments, whole, first),
         NEW g, ReadsAll(g, segments, whole, first),
         NEW E, Boundary(E, segments, whole, first), NEW F, Boundary(F, segments, whole, first),
         E < F, NEW N, N = Between(segments, first, E, F)
  PROVE  /\ N # {}
         /\ LET part == Reassemble([k \in N |-> segments[k]])
            IN  part.out = SubSeq(whole, E + 1, F) /\ ~part.gap
<1> DEFINE M == 2 ^ SeqBits
           L == Len(whole)
           m == NumberOf(E, first)
           n == NumberOf(F, first)
<1>1. /\ M \in Nat \ {0} /\ first \in Nat /\ L \in Nat /\ E \in Nat /\ F \in Nat /\ F <= L
      /\ \A i \in 0 .. M : g[i] \in StreamType /\ g[i].out \in Seq(Letter)
  BY ReadsTypes DEF Boundary
<1>2. /\ \A k \in DOMAIN segments :
           /\ k \in Nat /\ first <= k /\ k + 1 <= M /\ segments[k] \in Seq(Letter)
           /\ g[k].next = first + Len(g[k].out) /\ k <= g[k].next
      /\ Takes(g, segments) /\ g[M].out = whole /\ \A i \in 0 .. M : ~g[i].gap
  <2>1. \A k \in DOMAIN segments :
           k \in Nat /\ first <= k /\ k + 1 <= M /\ segments[k] \in Seq(Letter)
    BY ReadsTypes
  <2> QED BY <2>1 DEF ReadsAll
<1>3. m \in 0 .. M /\ n \in 0 .. M /\ m <= n /\ m <= first + E /\ n <= first + F
  BY <1>1 DEF NumberOf
<1>4. Len(g[m].out) = E /\ Len(g[n].out) = F
  BY ReadsToBoundary
<1>5. \A k \in DOMAIN segments : k \in N <=> m <= k /\ k < n
  BY <1>1, <1>2 DEF NumberOf, Between
<1> HIDE DEF M, L, m, n
<1>6. N # {}
  <2> SUFFICES ASSUME N = {} PROVE FALSE
    OBVIOUS
  <2>1. g[n] = g[m]
    <3>1. n \in m .. M /\ m \in Nat
      BY <1>3
    <3>2. \A k \in DOMAIN segments : ~(m <= k /\ k < n)
      BY <1>5
    <3> QED BY <1>2, <3>1, <3>2, TakesNothing DEF M
  <2> QED BY <1>1, <1>4, <2>1
<1>7. N \subseteq DOMAIN segments /\ N \subseteq Nat
  BY <1>2 DEF Between
<1> DEFINE k0 == Min(N)
           part == [k \in N |-> segments[k]]
<1>8. k0 \in N /\ \A k \in N : k0 <= k
  BY <1>6, <1>7, MinOf
<1> HIDE DEF k0
<1>9. /\ k0 \in Nat /\ m <= k0 /\ k0 < n /\ k0 \in 0 .. M /\ k0 \in DOMAIN segments
      /\ E <= k0 - first
  BY <1>1, <1>2, <1>3, <1>5, <1>7, <1>8 DEF Between
<1>10. g[k0] = g[m]
  <2>1. k0 \in m .. M /\ m \in Nat
    BY <1>3, <1>9
  <2>2. \A k \in DOMAIN segments : ~(m <= k /\ k < k0)
    BY <1>2, <1>3, <1>5, <1>8, <1>9
  <2> QED BY <1>2, <2>1, <2>2, TakesNothing DEF M
<1>11. g[k0].next = k0
  <2> DEFINE next == g[k0].next
  <2>1. next = first + E
    BY <1>2, <1>4, <1>9, <1>10
  <2>2. k0 <= next
    BY <1>2, <1>9
  <2> HIDE DEF next
  <2>3. next = k0
    BY <1>1, <1>9, <2>1, <2>2
  <2> QED BY <2>3 DEF next
<1>12. /\ DOMAIN part = N /\ \A k \in N : part[k] = segments[k]
  OBVIOUS
<1> HIDE DEF part
<1>13. PICK h \in [0 .. M -> StreamType] : Takes(h, part) /\ Reassemble(part) = h[M]
  <2>1. [out |-> <<>>, next |-> k0, gap |-> FALSE] \in StreamType
    <3>1. <<>> \in Seq(Letter)
      OBVIOUS
    <3> QED BY <1>9, <3>1 DEF StreamType
  <2>2. \A s \in StreamType : \A k \in DOMAIN part : Segment(s, k, part[k]) \in StreamType
    <3>1. \A k \in DOMAIN part : k \in Nat /\ part[k] \in Seq(Letter)
      BY <1>2, <1>7, <1>12
    <3> QED BY <3>1, SegmentType
  <2>3. DOMAIN part \subseteq 0 .. 2 ^ SeqBits - 1 /\ DOMAIN part # {}
    BY <1>1, <1>2, <1>6, <1>7, <1>12 DEF M
  <2>4. Min(DOMAIN part) = k0
    BY <1>12 DEF k0
  <2> QED BY <2>1, <2>2, <2>3, <2>4, ReassembleTakes DEF M
<1>14. h[0] = [out |-> <<>>, next |-> k0, gap |-> FALSE]
  BY <1>12, <1>13 DEF Takes, k0
<1>15. h[k0] = h[0]
  <2>1. k0 \in 0 .. M /\ 0 \in Nat
    BY <1>9
  <2>2. \A k \in DOMAIN part : ~(0 <= k /\ k < k0)
    BY <1>7, <1>8, <1>9, <1>12
  <2> QED BY <1>13, <2>1, <2>2, TakesNothing DEF M
<1> DEFINE before == g[m].out
           Same(i) == g[i].out = before \o h[i].out /\ g[i].next = h[i].next /\ ~h[i].gap
           S == {d \in Nat : k0 + d <= n => Same(k0 + d)}
<1>16. before \in Seq(Letter)
  BY <1>1, <1>3
<1>17. 0 \in S
  <2>1. Same(k0)
    <3>1. before \o <<>> = before
      BY <1>16, ConcatEmptySeq
    <3> HIDE DEF before
    <3>2. g[k0].out = before
      BY <1>10 DEF before
    <3>3. h[k0].out = <<>> /\ h[k0].next = k0 /\ ~h[k0].gap
      BY <1>14, <1>15
    <3>4. g[k0].out = before \o h[k0].out
      BY <3>1, <3>2, <3>3
    <3>5. Same(k0)
      BY <1>11, <3>3, <3>4
    <3> QED BY <3>5
  <2> HIDE DEF Same
  <2> QED BY <1>9, <2>1
<1>18. ASSUME NEW d \in S PROVE d + 1 \in S
  <2> HIDE DEF Same
  <2> SUFFICES ASSUME k0 + (d + 1) <= n PROVE Same(k0 + (d + 1))
    OBVIOUS
  <2> DEFINE k == k0 + d
  <2>0. d \in Nat /\ (k0 + d <= n => Same(k0 + d))
    OBVIOUS
  <2>1. /\ k + 1 = k0 + (d + 1) /\ k0 + d <= n /\ k \in Nat /\ k \in 0 .. M - 1 /\ k \in 0 .. M
        /\ k + 1 \in 0 .. M /\ m <= k /\ k < n /\ k0 <= k
    <3> HIDE DEF S
    <3> QED BY <1>1, <1>3, <1>9, <2>0
  <2>2. Same(k)
    BY <2>0, <2>1
  <2> HIDE DEF k
  <2>3. /\ g[k + 1] = IF k \in DOMAIN segments THEN Segment(g[k], k, segments[k]) ELSE g[k]
        /\ h[k + 1] = IF k \in N THEN Segment(h[k], k, part[k]) ELSE h[k]
    BY <1>2, <1>12, <1>13, <2>1 DEF Takes, M
  <2>4. Same(k + 1)
    <3>1. CASE k \in DOMAIN segments
      <4>1. k \in N /\ part[k] = segments[k] /\ segments[k] \in Seq(Letter)
        BY <1>2, <1>5, <1>12, <2>1, <3>1
      <4>2. g[k + 1] = Segment(g[k], k, segments[k]) /\ h[k + 1] = Segment(h[k], k, segments[k])
        BY <2>3, <3>1, <4>1
      <4>3. g[k] \in StreamType /\ h[k] \in StreamType /\ ~g[k + 1].gap
        BY <1>1, <1>2, <1>13, <2>1
      <4> HIDE DEF before
      <4>4. ~Segment(g[k], k, segments[k]).gap
        BY <4>2, <4>3
      <4>5. /\ g[k].out = before \o h[k].out /\ g[k].next = h[k].next /\ ~h[k].gap
        BY <2>2 DEF Same
      <4> DEFINE a == g[k]
                 b == h[k]
                 w == segments[k]
      <4>6. /\ a \in StreamType /\ b \in StreamType /\ before \in Seq(Letter)
            /\ a.out = before \o b.out /\ a.next = b.next /\ k \in Nat /\ w \in Seq(Letter)
            /\ ~Segment(a, k, w).gap /\ ~b.gap
        BY <1>16, <2>1, <4>1, <4>3, <4>4, <4>5
      <4> HIDE DEF a, b, w
      <4>7. /\ Segment(a, k, w).out = before \o Segment(b, k, w).out
            /\ Segment(a, k, w).next = Segment(b, k, w).next
            /\ ~Segment(b, k, w).gap
        BY <4>6, SegmentAdds, ZenonT(90)
      <4> QED BY <4>2, <4>7 DEF a, b, w, Same
    <3>2. CASE k \notin DOMAIN segments
      <4>1. g[k + 1] = g[k] /\ h[k + 1] = h[k]
        BY <1>7, <2>3, <3>2
      <4> QED BY <2>2, <4>1 DEF Same
    <3> QED BY <3>1, <3>2
  <2> QED BY <2>1, <2>4
<1>19. Same(n)
  <2>1. S = Nat
    <3>1. S \subseteq Nat
      OBVIOUS
    <3> HIDE DEF S
    <3> QED BY <1>17, <1>18, <3>1, InductionOn
  <2>2. n - k0 \in Nat /\ k0 + (n - k0) = n /\ n <= n
    BY <1>3, <1>9
  <2> HIDE DEF Same
  <2>3. k0 + (n - k0) <= n => Same(k0 + (n - k0))
    BY <2>1, <2>2
  <2> QED BY <2>2, <2>3
<1>20. h[M] = h[n]
  <2>1. M \in n .. M /\ n \in Nat
    BY <1>1, <1>3
  <2>2. \A k \in DOMAIN part : ~(n <= k /\ k < M)
    BY <1>3, <1>5, <1>7, <1>12
  <2> QED BY <1>13, <2>1, <2>2, TakesNothing DEF M
<1>21. Reassemble(part).out = h[n].out /\ ~Reassemble(part).gap /\ g[n].out = before \o h[n].out
  BY <1>13, <1>19, <1>20
<1>22. h[n].out = SubSeq(whole, E + 1, F)
  <2> DEFINE o == h[n].out
             c == before \o o
  <2>1. o \in Seq(Letter) /\ before \in Seq(Letter) /\ Len(before) = E
    BY <1>3, <1>4, <1>13, <1>16 DEF StreamType
  <2>2. before = SubSeq(whole, 1, E) /\ c = SubSeq(whole, 1, F)
    <3>1. g[m].out = SubSeq(whole, 1, Len(g[m].out)) /\ g[n].out = SubSeq(whole, 1, Len(g[n].out))
      BY <1>3, ReadsTypes DEF M
    <3> QED BY <1>4, <1>21, <3>1
  <2>3. SubSeq(whole, 1, F) = SubSeq(whole, 1, E) \o SubSeq(whole, E + 1, F)
    <3>1. 1 \in 1 .. Len(whole) + 1 /\ E \in 1 - 1 .. Len(whole) /\ F \in E .. Len(whole)
      BY <1>1 DEF L
    <3> QED BY <3>1, ConcatAdjacentSubSeq
  <2>4. SubSeq(whole, E + 1, F) \in Seq(Letter)
    <3>1. \A i \in E + 1 .. F : whole[i] \in Letter
      BY <1>1 DEF L
    <3> QED BY <1>1, <3>1, SubSeqProperties
  <2> HIDE DEF o, before
  <2> DEFINE rest == SubSeq(whole, E + 1, F)
  <2>5. before \o o = before \o rest
    BY <2>2, <2>3
  <2> HIDE DEF rest
  <2>6. o = rest
    <3>1. \A s, t, v \in Seq(Letter) : s \o t = s \o v => t = v
      BY ConcatSimplifications
    <3>2. rest \in Seq(Letter)
      BY <2>4 DEF rest
    <3> QED BY <2>1, <2>5, <3>1, <3>2, Zenon
  <2> QED BY <2>6 DEF o, rest
<1> QED BY <1>6, <1>21, <1>22 DEF part

-----------------------------------------------------------------------------
(* Groups                                                                     *)

(* Of a sequence of what either side said: g tells of each element which of    *)
(* the M groups it is in, and h of each group who said it.                    *)
Ranks(g, h, said, M) ==
  /\ g \in [1 .. Len(said) -> 1 .. M] /\ h \in [1 .. M -> Side]
  /\ \A i \in 1 .. Len(said) : said[i].from = h[g[i]]
  /\ \A i, j \in 1 .. Len(said) : i <= j => g[i] <= g[j]
  /\ \A k \in 1 .. M : \E i \in 1 .. Len(said) : g[i] = k
  /\ \A k \in 1 .. M : k + 1 <= M => h[k] # h[k + 1]

LEMMA RanksAre ==
  ASSUME NEW T, NEW said \in Seq(T), NEW M \in Nat, NEW g, NEW h, Ranks(g, h, said, M)
  PROVE  /\ \A i \in 1 .. Len(said) : g[i] \in 1 .. M
         /\ \A i \in 1 .. Len(said) : i = 1 => g[i] = 1
         /\ \A i \in 1 .. Len(said) : i = Len(said) => g[i] = M
         /\ \A i \in 1 .. Len(said) : i + 1 <= Len(said) =>
              /\ said[i].from = said[i + 1].from => g[i + 1] = g[i]
              /\ said[i].from # said[i + 1].from => g[i + 1] = g[i] + 1
<1> DEFINE N == Len(said)
<1>1. /\ N \in Nat /\ g \in [1 .. N -> 1 .. M]
      /\ \A i \in 1 .. N : said[i].from = h[g[i]]
      /\ \A i, j \in 1 .. N : i <= j => g[i] <= g[j]
      /\ \A k \in 1 .. M : \E i \in 1 .. N : g[i] = k
      /\ \A k \in 1 .. M : k + 1 <= M => h[k] # h[k + 1]
  BY DEF Ranks
<1> HIDE DEF N
<1>2. \A i \in 1 .. N : g[i] \in 1 .. M
  BY <1>1
<1>3. ASSUME NEW i \in 1 .. N, i = 1 PROVE g[i] = 1
  <2>1. g[i] \in 1 .. M
    BY <1>2
  <2>2. 1 \in 1 .. M
    BY <2>1
  <2>3. PICK j \in 1 .. N : g[j] = 1
    BY <1>1, <2>2
  <2>4. g[i] <= g[j]
    BY <1>1, <1>3
  <2> QED BY <2>1, <2>3, <2>4
<1>4. ASSUME NEW i \in 1 .. N, i = N PROVE g[i] = M
  <2>1. g[i] \in 1 .. M
    BY <1>2
  <2>2. M \in 1 .. M
    BY <2>1
  <2>3. PICK j \in 1 .. N : g[j] = M
    BY <1>1, <2>2
  <2>4. g[j] <= g[i]
    BY <1>1, <1>4
  <2> QED BY <2>1, <2>3, <2>4
<1>5. ASSUME NEW i \in 1 .. N, i + 1 <= N
      PROVE  /\ said[i].from = said[i + 1].from => g[i + 1] = g[i]
             /\ said[i].from # said[i + 1].from => g[i + 1] = g[i] + 1
  <2>1. /\ i + 1 \in 1 .. N /\ g[i] \in 1 .. M /\ g[i + 1] \in 1 .. M /\ g[i] <= g[i + 1]
    <3>1. i + 1 \in 1 .. N /\ i <= i + 1
      BY <1>5
    <3>2. g[i] \in 1 .. M /\ g[i + 1] \in 1 .. M
      BY <1>2, <3>1
    <3>3. g[i] <= g[i + 1]
      BY <1>1, <3>1
    <3> QED BY <3>1, <3>2, <3>3
  <2> DEFINE a == g[i]
             b == g[i + 1]
  <2>2. b <= a + 1
    <3> SUFFICES ASSUME b > a + 1 PROVE FALSE
      BY <2>1
    <3>1. a + 1 \in 1 .. M
      BY <2>1
    <3>2. PICK j \in 1 .. N : g[j] = a + 1
      <4> HIDE DEF a
      <4> QED BY <1>1, <3>1
    <3>3. CASE j <= i
      <4>1. g[j] <= a
        BY <1>1, <3>3
      <4> HIDE DEF a, b
      <4> QED BY <2>1, <3>2, <4>1 DEF a
    <3>4. CASE i + 1 <= j
      <4>1. b <= g[j]
        BY <1>1, <2>1, <3>4
      <4>2. a \in Nat /\ b \in Nat
        BY <2>1
      <4> HIDE DEF a, b
      <4> QED BY <3>2, <4>1, <4>2
    <3> QED BY <3>3, <3>4
  <2>3. said[i].from = h[a] /\ said[i + 1].from = h[b]
    BY <1>1, <2>1
  <2>4. a \in 1 .. M /\ b \in 1 .. M /\ (b = a \/ b = a + 1)
    <3>1. a \in 1 .. M /\ b \in 1 .. M /\ a <= b
      BY <2>1
    <3> HIDE DEF a, b
    <3> QED BY <2>2, <3>1
  <2>5. b = a + 1 => h[a] # h[b]
    BY <1>1, <2>4
  <2> HIDE DEF a, b
  <2> QED BY <2>3, <2>4, <2>5 DEF a, b
<1> QED BY <1>2, <1>3, <1>4, <1>5 DEF N

(* The elements of a group stand together, the first at lo, the last at hi.    *)
Stands(k, lo, hi, g, said) ==
  lo <= hi /\ \A i \in 1 .. Len(said) : g[i] = k <=> (lo <= i /\ i <= hi)

LEMMA RankRun ==
  ASSUME NEW T, NEW said \in Seq(T), NEW M \in Nat, NEW g, NEW h, Ranks(g, h, said, M),
         NEW k \in 1 .. M
  PROVE  \E lo, hi \in 1 .. Len(said) : Stands(k, lo, hi, g, said)
<1> DEFINE N == Len(said)
           A == {i \in 1 .. N : g[i] = k}
           B == {j \in Nat : \A i \in A : i <= j}
<1>1. /\ N \in Nat /\ \A i \in 1 .. N : g[i] \in 1 .. M
      /\ \A i, j \in 1 .. N : i <= j => g[i] <= g[j]
      /\ A # {}
  <2>1. /\ g \in [1 .. N -> 1 .. M] /\ \A i, j \in 1 .. N : i <= j => g[i] <= g[j]
        /\ \E i \in 1 .. N : g[i] = k
    BY DEF Ranks
  <2>2. N \in Nat /\ A # {}
    BY <2>1
  <2> HIDE DEF N, A
  <2> QED BY <2>1, <2>2
<1>2. PICK lo \in A : \A i \in A : lo <= i
  <2>1. A \subseteq Nat
    OBVIOUS
  <2> HIDE DEF A
  <2> QED BY <1>1, <2>1, LeastOf
<1>3. PICK hi \in B : \A j \in B : hi <= j
  <2>1. N \in B /\ B \subseteq Nat
    BY <1>1
  <2>2. B # {}
    BY <2>1
  <2> HIDE DEF B
  <2> QED BY <2>1, <2>2, LeastOf
<1>4. lo \in 1 .. N /\ hi \in Nat /\ lo <= hi /\ \A i \in A : i <= hi
  <2>1. lo \in 1 .. N
    BY <1>2
  <2>2. hi \in Nat /\ \A i \in A : i <= hi
    <3> HIDE DEF A
    <3> QED BY <1>3
  <2> HIDE DEF A, B
  <2> QED BY <1>2, <2>1, <2>2
<1>5. hi \in A
  <2> SUFFICES ASSUME hi \notin A PROVE FALSE
    OBVIOUS
  <2>1. hi - 1 \in Nat
    BY <1>4
  <2>2. ASSUME NEW i \in A PROVE i <= hi - 1
    <3>1. i <= hi /\ i # hi /\ i \in Nat
      BY <1>4
    <3> QED BY <1>4, <3>1
  <2>3. hi - 1 \in B
    BY <2>1, <2>2
  <2>4. hi <= hi - 1
    BY <1>3, <2>3
  <2> QED BY <1>4, <2>4
<1>6. ASSUME NEW i \in 1 .. N PROVE g[i] = k <=> (lo <= i /\ i <= hi)
  <2>1. g[i] = k => lo <= i /\ i <= hi
    BY <1>2, <1>4
  <2>2. ASSUME lo <= i, i <= hi PROVE g[i] = k
    <3>1. g[lo] = k /\ g[hi] = k /\ hi \in 1 .. N
      BY <1>2, <1>5
    <3>2. g[lo] <= g[i] /\ g[i] <= g[hi]
      BY <1>1, <1>4, <2>2, <3>1
    <3> QED BY <1>1, <3>1, <3>2
  <2> QED BY <2>1, <2>2
<1>7. hi \in 1 .. N
  BY <1>5
<1>8. Stands(k, lo, hi, g, said)
  BY <1>4, <1>6 DEF Stands
<1> QED BY <1>4, <1>7, <1>8

(* Every sequence has groups.                                                 *)
LEMMA RankExists ==
  ASSUME NEW T, NEW said \in Seq(T), \A i \in 1 .. Len(said) : said[i].from \in Side
  PROVE  \E M \in Nat : \E g, h : Ranks(g, h, said, M)
<1> DEFINE N == Len(said)
           Upto(n, M, g, h) ==
             /\ g \in [1 .. n -> 1 .. M] /\ h \in [1 .. M -> Side]
             /\ \A i \in 1 .. n : said[i].from = h[g[i]]
             /\ \A i, j \in 1 .. n : i <= j => g[i] <= g[j]
             /\ \A k \in 1 .. M : \E i \in 1 .. n : g[i] = k
             /\ \A k \in 1 .. M : k + 1 <= M => h[k] # h[k + 1]
           P(n) == \E M \in Nat : \E g, h : Upto(n, M, g, h)
           S == {n \in Nat : n <= N => P(n)}
<1>0. N \in Nat
  OBVIOUS
<1>1. P(0)
  <2> DEFINE e == [i \in 1 .. 0 |-> 0]
  <2>1. e \in [1 .. 0 -> 1 .. 0] /\ e \in [1 .. 0 -> Side] /\ 1 .. 0 = {}
    OBVIOUS
  <2> HIDE DEF e
  <2>2. Upto(0, 0, e, e)
    BY <2>1
  <2> HIDE DEF Upto
  <2> QED BY <2>2
<1>2. ASSUME NEW n \in Nat, n + 1 <= N, P(n) PROVE P(n + 1)
  <2>1. PICK M \in Nat : \E g, h : Upto(n, M, g, h)
    BY <1>2
  <2>2. PICK g, h : Upto(n, M, g, h)
    BY <2>1
  <2> DEFINE x == said[n + 1].from
  <2>3. x \in Side
    BY <1>0, <1>2
  <2> HIDE DEF x
  <2>4. /\ \A i \in 1 .. n : g[i] \in 1 .. M
        /\ \A k \in 1 .. M : h[k] \in Side
    BY <2>2
  <2>5. \A i \in 1 .. n + 1 : i \in 1 .. n \/ i = n + 1
    OBVIOUS
  <2>6. CASE M # 0 /\ x = h[M]
    <3> DEFINE g1 == [i \in 1 .. n + 1 |-> IF i = n + 1 THEN M ELSE g[i]]
    <3>1. M \in 1 .. M
      BY <2>6
    <3>2. g1[n + 1] = M /\ \A i \in 1 .. n : g1[i] = g[i]
      BY <2>4
    <3>3. g1 \in [1 .. n + 1 -> 1 .. M]
      BY <2>4, <3>1
    <3> HIDE DEF g1
    <3>4. \A i \in 1 .. n + 1 : said[i].from = h[g1[i]]
      BY <2>2, <2>5, <2>6, <3>2 DEF x
    <3>5. \A i, j \in 1 .. n + 1 : i <= j => g1[i] <= g1[j]
      <4> TAKE i, j \in 1 .. n + 1
      <4> HAVE i <= j
      <4>1. CASE j = n + 1
        <5>1. g1[i] \in 1 .. M
          BY <3>3
        <5> QED BY <3>2, <4>1, <5>1
      <4>2. CASE j \in 1 .. n
        <5>1. i \in 1 .. n
          BY <4>2
        <5> QED BY <2>2, <3>2, <4>2, <5>1
      <4> QED BY <2>5, <4>1, <4>2
    <3>6. \A k \in 1 .. M : \E i \in 1 .. n + 1 : g1[i] = k
      <4> TAKE k \in 1 .. M
      <4>1. PICK i \in 1 .. n : g[i] = k
        BY <2>2
      <4>2. i \in 1 .. n + 1 /\ g1[i] = k
        BY <3>2, <4>1
      <4> QED BY <4>2
    <3>7. Upto(n + 1, M, g1, h)
      BY <2>2, <3>3, <3>4, <3>5, <3>6
    <3> HIDE DEF Upto
    <3> QED BY <3>7
  <2>7. CASE ~(M # 0 /\ x = h[M])
    <3> DEFINE g1 == [i \in 1 .. n + 1 |-> IF i = n + 1 THEN M + 1 ELSE g[i]]
               h1 == [k \in 1 .. M + 1 |-> IF k = M + 1 THEN x ELSE h[k]]
    <3>1. /\ g1[n + 1] = M + 1 /\ \A i \in 1 .. n : g1[i] = g[i]
          /\ h1[M + 1] = x /\ \A k \in 1 .. M : h1[k] = h[k]
      BY <2>4
    <3>2. g1 \in [1 .. n + 1 -> 1 .. M + 1]
      <4>1. \A i \in 1 .. n + 1 : (IF i = n + 1 THEN M + 1 ELSE g[i]) \in 1 .. M + 1
        <5> TAKE i \in 1 .. n + 1
        <5>1. CASE i = n + 1
          BY <5>1
        <5>2. CASE i \in 1 .. n
          BY <2>4, <5>2
        <5> QED BY <2>5, <5>1, <5>2
      <4> QED BY <4>1
    <3>3. h1 \in [1 .. M + 1 -> Side]
      BY <2>3, <2>4
    <3> HIDE DEF g1, h1
    <3>4. \A i \in 1 .. n + 1 : said[i].from = h1[g1[i]]
      <4> TAKE i \in 1 .. n + 1
      <4>1. CASE i = n + 1
        BY <3>1, <4>1 DEF x
      <4>2. CASE i \in 1 .. n
        BY <2>2, <2>4, <3>1, <4>2
      <4> QED BY <2>5, <4>1, <4>2
    <3>5. \A i, j \in 1 .. n + 1 : i <= j => g1[i] <= g1[j]
      <4> TAKE i, j \in 1 .. n + 1
      <4> HAVE i <= j
      <4>1. CASE j = n + 1
        <5>1. g1[i] \in 1 .. M + 1
          BY <3>2
        <5> QED BY <3>1, <4>1, <5>1
      <4>2. CASE j \in 1 .. n
        <5>1. i \in 1 .. n
          BY <4>2
        <5> QED BY <2>2, <3>1, <4>2, <5>1
      <4> QED BY <2>5, <4>1, <4>2
    <3>6. \A k \in 1 .. M + 1 : \E i \in 1 .. n + 1 : g1[i] = k
      <4> TAKE k \in 1 .. M + 1
      <4>1. CASE k = M + 1
        BY <3>1, <4>1
      <4>2. CASE k \in 1 .. M
        <5>1. PICK i \in 1 .. n : g[i] = k
          BY <2>2, <4>2
        <5>2. i \in 1 .. n + 1 /\ g1[i] = k
          BY <3>1, <5>1
        <5> QED BY <5>2
      <4> QED BY <4>1, <4>2
    <3>7. \A k \in 1 .. M + 1 : k + 1 <= M + 1 => h1[k] # h1[k + 1]
      <4> TAKE k \in 1 .. M + 1
      <4> HAVE k + 1 <= M + 1
      <4>1. k \in 1 .. M
        OBVIOUS
      <4>2. CASE k = M
        BY <2>7, <3>1, <4>1, <4>2
      <4>3. CASE k # M
        <5>1. k + 1 \in 1 .. M /\ k + 1 <= M
          BY <4>1, <4>3
        <5> QED BY <2>2, <3>1, <4>1, <5>1
      <4> QED BY <4>2, <4>3
    <3>8. M + 1 \in Nat /\ Upto(n + 1, M + 1, g1, h1)
      BY <3>2, <3>3, <3>4, <3>5, <3>6, <3>7
    <3> HIDE DEF Upto
    <3> QED BY <3>8
  <2> QED BY <2>6, <2>7
<1>3. P(N)
  <2> HIDE DEF P
  <2>1. 0 \in S
    BY <1>1
  <2>2. ASSUME NEW n \in S PROVE n + 1 \in S
    BY <1>0, <1>2
  <2>3. S = Nat
    <3>1. S \subseteq Nat
      OBVIOUS
    <3> HIDE DEF S
    <3> QED BY <2>1, <2>2, <3>1, InductionOn
  <2> QED BY <1>0, <2>3
<1> QED BY <1>3 DEF Ranks

(* The k-th group, as Groups has it.                                          *)
IsGroup(group, said, g, k) ==
  \E lo, hi \in 1 .. Len(said) :
    Stands(k, lo, hi, g, said) /\ group = SubSeq(said, lo, hi)

LEMMA GroupsByRank ==
  ASSUME NEW T, NEW said \in Seq(T), NEW M \in Nat, NEW g, NEW h, Ranks(g, h, said, M)
  PROVE  /\ Groups(said) \in Seq(Seq(T)) /\ Len(Groups(said)) = M
         /\ \A k \in 1 .. M : IsGroup(Groups(said)[k], said, g, k)
<1> DEFINE N == Len(said)
           Begins(i) == i = 1 \/ said[i - 1].from # said[i].from
           Ends(j) == j = Len(said) \/ said[j + 1].from # said[j].from
           Rest(i) == {j \in i .. Len(said) : Ends(j)}
           LastOf(i) == Min(Rest(i))
           F == [i \in 1 .. N |-> IF Begins(i) THEN <<SubSeq(said, i, LastOf(i))>> ELSE <<>>]
           out(n) == FlattenSeq([i \in 1 .. n |-> F[i]])
           G(n) == IF n = 0 THEN 0 ELSE g[n]
<1>1. N \in Nat /\ DOMAIN said = 1 .. N
  OBVIOUS
<1>2. Groups(said) = FlattenSeq(F)
  BY <1>1 DEF Groups
<1>3. /\ \A i \in 1 .. N : g[i] \in 1 .. M
      /\ \A i \in 1 .. N : i = 1 => g[i] = 1
      /\ \A i \in 1 .. N : i = N => g[i] = M
      /\ \A i \in 1 .. N : i + 1 <= N =>
           /\ said[i].from = said[i + 1].from => g[i + 1] = g[i]
           /\ said[i].from # said[i + 1].from => g[i + 1] = g[i] + 1
  BY RanksAre
<1>4. /\ \A i, j \in 1 .. N : i <= j => g[i] <= g[j]
      /\ \A k \in 1 .. M : \E i \in 1 .. N : g[i] = k
      /\ \A i \in 1 .. N : said[i].from = h[g[i]]
  BY DEF Ranks
<1>4a. \A k \in 1 .. M : \E lo, hi \in 1 .. N : Stands(k, lo, hi, g, said)
  <2> HIDE DEF Begins, LastOf, F
  <2> QED BY RankRun
<1> HIDE DEF N
<1>5. ASSUME NEW i \in 1 .. N, Begins(i)
      PROVE  LastOf(i) \in i .. N /\ IsGroup(SubSeq(said, i, LastOf(i)), said, g, g[i])
  <2>1. g[i] \in 1 .. M
    BY <1>3
  <2>2. PICK lo, hi \in 1 .. N :
          lo <= hi /\ \A j \in 1 .. N : g[j] = g[i] <=> (lo <= j /\ j <= hi)
    <3>1. PICK lo, hi \in 1 .. N : Stands(g[i], lo, hi, g, said)
      BY <1>4a, <2>1
    <3> QED BY <3>1 DEF Stands, N
  <2>3. lo <= i /\ i <= hi
    BY <2>2
  <2>4. lo = i
    <3> SUFFICES ASSUME lo # i PROVE FALSE
      OBVIOUS
    <3> DEFINE p == i - 1
    <3>1. p \in 1 .. N /\ p + 1 = i /\ p + 1 <= N /\ lo <= p /\ p <= hi /\ i # 1
      <4> HIDE DEF Begins
      <4>1. lo \in Nat /\ hi \in Nat /\ i \in Nat /\ 1 <= lo /\ lo < i /\ i <= N
        BY <1>1, <2>3
      <4> QED BY <1>1, <2>3, <4>1
    <3>2. said[p].from # said[i].from
      BY <1>5, <3>1
    <3> HIDE DEF p
    <3>3. g[i] = g[p] + 1
      <4>1. said[p].from # said[p + 1].from => g[p + 1] = g[p] + 1
        BY <1>3, <3>1
      <4> QED BY <3>1, <3>2, <4>1
    <3>4. g[p] = g[i]
      BY <2>2, <3>1
    <3>5. g[p] \in Nat
      <4>1. g[p] \in 1 .. M
        BY <1>3, <3>1
      <4> QED BY <4>1
    <3> QED BY <3>3, <3>4, <3>5
  <2>5. hi \in Rest(i)
    <3>1. hi \in i .. Len(said) /\ (hi = N \/ hi + 1 \in 1 .. N)
      <4>1. hi \in i .. N /\ (hi = N \/ hi + 1 \in 1 .. N)
        <5> HIDE DEF Begins
        <5> QED BY <1>1, <2>3
      <4> QED BY <4>1 DEF N
    <3>2. ASSUME hi # N PROVE said[hi + 1].from # said[hi].from
      <4>1. hi + 1 \in 1 .. N /\ hi + 1 <= N /\ ~(hi + 1 <= hi)
        BY <3>1, <3>2
      <4>2. g[hi + 1] # g[i] /\ g[hi] = g[i]
        <5>1. lo <= hi /\ hi <= hi
          BY <2>2
        <5> QED BY <2>2, <4>1, <5>1
      <4>3. said[hi].from = said[hi + 1].from => g[hi + 1] = g[hi]
        BY <1>3, <4>1
      <4> QED BY <4>2, <4>3
    <3> QED BY <3>1, <3>2 DEF N
  <2>6. ASSUME NEW j \in Rest(i) PROVE hi <= j
    <3> SUFFICES ASSUME ~(hi <= j) PROVE FALSE
      OBVIOUS
    <3>1. j \in 1 .. N /\ i <= j /\ j < hi /\ j + 1 \in 1 .. N /\ j + 1 <= N /\ j # N
          /\ j + 1 <= hi /\ i <= j + 1 /\ j <= hi
      <4>1. j \in i .. N
        BY DEF N
      <4> HIDE DEF Begins, Rest
      <4> QED BY <1>1, <4>1
    <3>2. said[j + 1].from # said[j].from
      BY <3>1 DEF N
    <3>3. g[j] = g[i] /\ g[j + 1] = g[i]
      BY <2>2, <2>4, <3>1
    <3>4. said[j].from = h[g[j]] /\ said[j + 1].from = h[g[j + 1]]
      BY <1>4, <3>1
    <3> QED BY <3>2, <3>3, <3>4
  <2>7. LastOf(i) = hi
    <3>1. Rest(i) \subseteq Nat
      OBVIOUS
    <3>2. Rest(i) # {}
      BY <2>5
    <3>3. hi \in Nat
      BY <1>1
    <3> HIDE DEF Rest
    <3>4. LastOf(i) \in Rest(i) /\ \A j \in Rest(i) : LastOf(i) <= j
      BY <3>1, <3>2, MinOf
    <3>5. LastOf(i) \in Nat
      BY <3>1, <3>4
    <3>6. hi <= LastOf(i) /\ LastOf(i) <= hi
      BY <2>5, <2>6, <3>4
    <3> HIDE DEF LastOf
    <3> QED BY <3>3, <3>5, <3>6
  <2> HIDE DEF LastOf, Begins
  <2>8. IsGroup(SubSeq(said, i, hi), said, g, g[i])
    BY <2>2, <2>4 DEF IsGroup, Stands, N
  <2> QED BY <2>3, <2>7, <2>8
<1>6. F \in [1 .. N -> Seq(Seq(T))]
  <2>1. ASSUME NEW i \in 1 .. N, Begins(i) PROVE SubSeq(said, i, LastOf(i)) \in Seq(T)
    <3>1. LastOf(i) \in i .. N
      BY <1>5, <2>1
    <3> HIDE DEF LastOf, Begins
    <3> DEFINE l == LastOf(i)
    <3>2. l \in i .. N
      BY <3>1
    <3> HIDE DEF l
    <3>3. \A j \in i .. l : said[j] \in T
      BY <1>1, <3>2 DEF N
    <3>4. SubSeq(said, i, l) \in Seq(T)
      BY <1>1, <3>2, <3>3
    <3> QED BY <3>4 DEF l
  <2> DEFINE X == Seq(T)
  <2> HIDE DEF X
  <2>2. \A i \in 1 .. N : Begins(i) => SubSeq(said, i, LastOf(i)) \in X
    BY <2>1 DEF X
  <2> HIDE DEF LastOf, Begins
  <2>3. F \in [1 .. N -> Seq(X)]
    BY <2>2
  <2> HIDE DEF F
  <2> QED BY <2>3 DEF X
<1>7. \A i \in 1 .. N : F[i] = IF Begins(i) THEN <<SubSeq(said, i, LastOf(i))>> ELSE <<>>
  OBVIOUS
<1> HIDE DEF F, LastOf
<1> DEFINE OK(s, m) == s \in Seq(Seq(T)) /\ Len(s) = m /\ \A k \in 1 .. m : IsGroup(s[k], said, g, k)
           S == {n \in Nat : n <= N => OK(out(n), G(n))}
<1>8. 0 \in S
  <2>1. [i \in 1 .. 0 |-> F[i]] = <<>>
    OBVIOUS
  <2>2. out(0) = <<>> /\ G(0) = 0
    BY <2>1, FlattenNone, Zenon
  <2>3. <<>> \in Seq(Seq(T)) /\ Len(<<>>) = 0 /\ 1 .. 0 = {}
    OBVIOUS
  <2> HIDE DEF out, G
  <2>4. OK(out(0), G(0))
    BY <2>2, <2>3
  <2> QED BY <2>4
<1>9. ASSUME NEW n \in S PROVE n + 1 \in S
  <2> HIDE DEF OK, G, out, Begins
  <2> SUFFICES ASSUME n + 1 <= N PROVE OK(out(n + 1), G(n + 1))
    OBVIOUS
  <2>0. n \in Nat /\ n <= N /\ (n <= N => OK(out(n), G(n)))
    BY <1>1
  <2> HIDE DEF S
  <2>1. n + 1 \in 1 .. N /\ (n + 1) - 1 = n /\ n + 1 # 0
    BY <2>0
  <2>2. OK(out(n), G(n))
    BY <2>0
  <2>3. /\ out(n) \in Seq(Seq(T)) /\ F[n + 1] \in Seq(Seq(T)) /\ out(n + 1) = out(n) \o F[n + 1]
    <3> DEFINE X == Seq(T)
    <3> HIDE DEF X
    <3>1. N \in Nat /\ F \in [1 .. N -> Seq(X)] /\ n \in Nat /\ n + 1 <= N
      BY <1>1, <1>6, <2>0 DEF X
    <3>2. /\ FlattenSeq([i \in 1 .. n |-> F[i]]) \in Seq(X) /\ F[n + 1] \in Seq(X)
          /\ FlattenSeq([i \in 1 .. n + 1 |-> F[i]]) = FlattenSeq([i \in 1 .. n |-> F[i]]) \o F[n + 1]
      BY <3>1, FlattenFirst, ZenonT(90)
    <3> QED BY <3>2 DEF X, out
  <2>4. G(n + 1) = g[n + 1]
    BY <2>1, Zenon DEF G
  <2>5. CASE Begins(n + 1)
    <3> DEFINE b == SubSeq(said, n + 1, LastOf(n + 1))
               s == out(n)
               m == G(n)
    <3>1. F[n + 1] = <<b>>
      BY <1>7, <2>1, <2>5
    <3>2. IsGroup(b, said, g, g[n + 1])
      BY <1>5, <2>1, <2>5
    <3>3. m \in Nat /\ g[n + 1] = m + 1
      <4>1. CASE n = 0
        <5>1. G(n) = 0
          BY <4>1 DEF G
        <5>2. g[n + 1] = 1
          BY <1>3, <2>1, <4>1
        <5> QED BY <5>1, <5>2
      <4>2. CASE n # 0
        <5>1. n \in 1 .. N /\ n + 1 <= N /\ n + 1 # 1
          BY <2>0, <2>1, <4>2
        <5>2. G(n) = g[n]
          BY <4>2 DEF G
        <5>3. said[n].from # said[n + 1].from
          <6>1. said[(n + 1) - 1].from # said[n + 1].from
            BY <2>5, <5>1 DEF Begins
          <6> QED BY <2>1, <6>1
        <5>4. g[n + 1] = g[n] + 1 /\ g[n] \in 1 .. M
          BY <1>3, <5>1, <5>3
        <5> QED BY <5>2, <5>4
      <4> QED BY <4>1, <4>2
    <3>4. s \in Seq(Seq(T)) /\ <<b>> \in Seq(Seq(T)) /\ out(n + 1) = s \o <<b>>
      <4>1. out(n + 1) = out(n) \o <<b>> /\ <<b>> \in Seq(Seq(T))
        <5> HIDE DEF b
        <5> QED BY <2>3, <3>1
      <4> QED BY <2>3, <4>1
    <3>5. Len(s) = m /\ \A k \in 1 .. m : IsGroup(s[k], said, g, k)
      BY <2>2 DEF OK
    <3> HIDE DEF b, s, m
    <3> DEFINE X == Seq(T)
               t == s \o <<b>>
    <3> HIDE DEF X
    <3>6. s \in Seq(X) /\ <<b>> \in Seq(X)
      BY <3>4 DEF X
    <3>7. t \in Seq(X) /\ Len(t) = m + 1 /\ t[m + 1] = b /\ \A k \in 1 .. m : t[k] = s[k]
      BY <3>3, <3>5, <3>6
    <3> HIDE DEF t
    <3>8. \A k \in 1 .. m + 1 : IsGroup(t[k], said, g, k)
      <4> TAKE k \in 1 .. m + 1
      <4>1. CASE k = m + 1
        BY <3>2, <3>3, <3>7, <4>1
      <4>2. CASE k \in 1 .. m
        BY <3>5, <3>7, <4>2
      <4>3. k = m + 1 \/ k \in 1 .. m
        BY <3>3
      <4> QED BY <4>1, <4>2, <4>3
    <3>9. OK(t, m + 1)
      BY <3>7, <3>8 DEF OK, X
    <3> QED BY <2>4, <3>3, <3>4, <3>9 DEF t
  <2>6. CASE ~Begins(n + 1)
    <3>1. n \in 1 .. N /\ n + 1 <= N /\ n # 0 /\ said[n].from = said[n + 1].from
      <4>1. n + 1 # 1 /\ said[(n + 1) - 1].from = said[n + 1].from
        BY <2>6 DEF Begins
      <4> QED BY <2>0, <2>1, <4>1
    <3>2. g[n + 1] = g[n] /\ G(n) = g[n]
      BY <1>3, <3>1 DEF G
    <3>3. F[n + 1] = <<>>
      BY <1>7, <2>1, <2>6
    <3> DEFINE X == Seq(T)
               s == out(n)
    <3> HIDE DEF X
    <3>4. s \in Seq(X)
      BY <2>3 DEF X
    <3> HIDE DEF s
    <3>5. s \o <<>> = s
      BY <3>4, ConcatEmptySeq
    <3> QED BY <2>2, <2>3, <2>4, <3>2, <3>3, <3>5 DEF s
  <2> QED BY <2>5, <2>6
<1>10. OK(out(N), G(N))
  <2> HIDE DEF OK, out, G
  <2>1. S \subseteq Nat
    OBVIOUS
  <2>2. S = Nat
    <3> HIDE DEF S
    <3> QED BY <1>8, <1>9, <2>1, InductionOn
  <2> QED BY <1>1, <2>2
<1>11. G(N) = M
  <2>1. CASE N = 0
    <3>1. \A k \in 1 .. M : FALSE
      BY <1>4, <2>1
    <3> QED BY <2>1, <3>1
  <2>2. CASE N # 0
    BY <1>1, <1>3, <2>2
  <2> QED BY <2>1, <2>2
<1>12. [i \in 1 .. N |-> F[i]] = F
  BY <1>6
<1>13. out(N) = Groups(said)
  BY <1>2, <1>12
<1> HIDE DEF out, G
<1> QED BY <1>10, <1>11, <1>13

(* A sequence of one element each.                                            *)
LEMMA FlattenSingles ==
  ASSUME NEW T, NEW s \in Seq(T)
  PROVE  FlattenSeq([i \in 1 .. Len(s) |-> <<s[i]>>]) = s
<1> DEFINE N == Len(s)
           f == [i \in 1 .. N |-> <<s[i]>>]
           out(n) == FlattenSeq([i \in 1 .. n |-> f[i]])
           S == {n \in Nat : n <= N => out(n) = SubSeq(s, 1, n)}
<1>1. N \in Nat /\ \A i \in 1 .. N : s[i] \in T
  OBVIOUS
<1>2. f \in [1 .. N -> Seq(T)] /\ \A i \in 1 .. N : f[i] = <<s[i]>>
  BY <1>1
<1> HIDE DEF f
<1>3. 0 \in S
  <2>1. [i \in 1 .. 0 |-> f[i]] = <<>> /\ SubSeq(s, 1, 0) = <<>>
    BY SubSeqEmpty
  <2> QED BY <2>1, FlattenNone, Zenon
<1>4. ASSUME NEW n \in S PROVE n + 1 \in S
  <2> HIDE DEF out
  <2> SUFFICES ASSUME n + 1 <= N PROVE out(n + 1) = SubSeq(s, 1, n + 1)
    OBVIOUS
  <2>1. n \in Nat /\ n <= N /\ (n <= N => out(n) = SubSeq(s, 1, n))
    BY <1>1
  <2> HIDE DEF S
  <2>2. out(n + 1) = out(n) \o f[n + 1]
    BY <1>1, <1>2, <2>1, FlattenFirst DEF out
  <2>3. f[n + 1] = <<s[n + 1]>>
    <3>1. n + 1 \in 1 .. N
      BY <2>1
    <3> QED BY <1>2, <3>1
  <2>4. SubSeq(s, 1, n) \o <<s[n + 1]>> = SubSeq(s, 1, n + 1)
    <3>1. n + 1 \in 1 .. N
      BY <2>1
    <3> QED BY <1>1, <2>1, <3>1
  <2> QED BY <2>1, <2>2, <2>3, <2>4
<1>5. out(N) = SubSeq(s, 1, N)
  <2> HIDE DEF out
  <2>1. S \subseteq Nat
    OBVIOUS
  <2>2. S = Nat
    <3> HIDE DEF S
    <3> QED BY <1>3, <1>4, <2>1, InductionOn
  <2> QED BY <1>1, <2>2
<1>6. SubSeq(s, 1, N) = s
  BY SubSeqFull
<1>7. [i \in 1 .. N |-> f[i]] = f
  BY <1>2
<1> QED BY <1>5, <1>6, <1>7, Zenon DEF f, N

-----------------------------------------------------------------------------
(* The events of a flow, and the packets with bytes that were told            *)

(* How much a side has sent with so many of what was told.                    *)
Upto(told, side, m) == Len(SentBy(told, side, m))

LEMMA UptoIs ==
  ASSUME NEW told \in Seq(PlannedTurn), NEW side \in Side
  PROVE  /\ Len(told) \in Nat
         /\ \A m \in 0 .. Len(told) : Upto(told, side, m) \in Nat
         /\ \A m \in 1 .. Len(told) : told[m].from = side =>
              Upto(told, side, m - 1) < Upto(told, side, m)
         /\ \A m, n \in 0 .. Len(told) : m <= n => Upto(told, side, m) <= Upto(told, side, n)
<1> DEFINE N == Len(told)
<1>1. told \in Seq(Packet) /\ N \in Nat
  BY TurnIsPacket
<1>2. ASSUME NEW m \in 0 .. N PROVE SentBy(told, side, m) \in Seq(Letter)
  BY <1>1, SentType
<1>3. \A m \in 0 .. N : Upto(told, side, m) \in Nat
  <2> TAKE m \in 0 .. N
  <2> DEFINE s == SentBy(told, side, m)
  <2>1. s \in Seq(Letter)
    BY <1>2
  <2> HIDE DEF s
  <2>2. Len(s) \in Nat
    BY <2>1
  <2> QED BY <2>2 DEF Upto, s
<1>4. ASSUME NEW m \in 1 .. N, told[m].from = side
      PROVE  Upto(told, side, m - 1) < Upto(told, side, m)
  <2> DEFINE s == SentBy(told, side, m - 1)
             b == told[m].bytes
  <2>1. SentBy(told, side, m) = s \o b /\ s \in Seq(Letter)
    BY <1>4, WritesOn
  <2>2. b \in Seq(Letter) /\ Len(b) \in Nat \ {0}
    BY TurnIsPacket
  <2> HIDE DEF s, b
  <2>3. Len(s \o b) = Len(s) + Len(b) /\ Len(s) \in Nat
    BY <2>1, <2>2, JoinedBytes
  <2>4. Len(s) < Len(s \o b)
    BY <2>2, <2>3
  <2> QED BY <2>1, <2>4 DEF Upto, s
<1>5. ASSUME NEW m \in 0 .. N, NEW n \in 0 .. N, m <= n
      PROVE  Upto(told, side, m) <= Upto(told, side, n)
  <2>1. told \in Seq(Packet) /\ m \in Nat /\ n \in Nat /\ m <= n /\ n <= Len(told)
    BY <1>1, <1>5
  <2> HIDE DEF N
  <2>2. \E rest \in Seq(Letter) : SentBy(told, side, n) = SentBy(told, side, m) \o rest
    BY <2>1, SentGrows, ZenonT(90)
  <2>3. PICK rest \in Seq(Letter) : SentBy(told, side, n) = SentBy(told, side, m) \o rest
    BY <2>2
  <2> DEFINE s == SentBy(told, side, m)
  <2>4. s \in Seq(Letter)
    BY <1>2
  <2> HIDE DEF s
  <2>5. Len(s \o rest) = Len(s) + Len(rest) /\ Len(s) \in Nat /\ Len(rest) \in Nat
    BY <2>4, JoinedBytes
  <2>6. Len(s) <= Len(s \o rest)
    BY <2>5
  <2> QED BY <2>3, <2>6 DEF Upto, s
<1> QED BY <1>1, <1>3, <1>4, <1>5

(* Event i has the number of told packet u[i], and ends where v[i] ends, which *)
(* is in the same group.                                                      *)
PlacedAt(e, told, side, a, b, isn) ==
  /\ told[a].from = side
  /\ e.number = (isn[side] + Upto(told, side, a - 1)) % 2 ^ SeqBits
  /\ Upto(told, side, a - 1) + Len(e.bytes) = Upto(told, side, b)

Placed(events, told, u, v, g, isn) ==
  /\ u \in [1 .. Len(events) -> 1 .. Len(told)] /\ v \in [1 .. Len(events) -> 1 .. Len(told)]
  /\ \A i \in 1 .. Len(events) :
       PlacedAt(events[i], told, events[i].from, u[i], v[i], isn) /\ g[v[i]] = g[u[i]]

(* All that a side has told is kept.                                          *)
AllOf(side, events, told, isn) ==
  LET whole == SentBy(told, side, Len(told))
  IN  /\ whole # <<>> /\ Len(whole) < 2 ^ SeqBits
      /\ Stream(events, side).out = whole /\ ~Stream(events, side).gap
      /\ \A i \in 1 .. Len(events) :
           events[i].from = side => Numbered(events[i], whole, isn[side])

(* Then every segment stands at the place of its packet.                      *)
LEMMA SegmentsStand ==
  ASSUME NEW told \in Seq(PlannedTurn), NEW events \in Seq(Event), NEW isn \in [Side -> Nat],
         NEW side \in Side, AllOf(side, events, told, isn), NEW u, NEW v, NEW g,
         Placed(events, told, u, v, g, isn)
  PROVE  LET whole == SentBy(told, side, Len(told))
             segments == FirstByNumber(events, side)
             first == isn[side] % 2 ^ SeqBits
         IN  /\ whole \in Seq(Letter) /\ StandWhere(segments, whole, first)
             /\ \E r : ReadsAll(r, segments, whole, first)
             /\ \A i \in 1 .. Len(events) : events[i].from = side =>
                  events[i].number - first = Upto(told, side, u[i] - 1)
<1> DEFINE M == 2 ^ SeqBits
           whole == SentBy(told, side, Len(told))
           segments == FirstByNumber(events, side)
           first == isn[side] % M
<1>1. /\ whole # <<>> /\ Len(whole) < M
      /\ Reassemble(segments).out = whole /\ ~Reassemble(segments).gap
      /\ \A i \in 1 .. Len(events) :
           events[i].from = side => Numbered(events[i], whole, isn[side])
  BY DEF AllOf, Stream
<1>2. /\ DOMAIN segments \subseteq 0 .. M - 1
      /\ \A k \in DOMAIN segments : \E i \in 1 .. Len(events) :
           events[i].from = side /\ events[i].number = k /\ segments[k] = events[i].bytes
      /\ \A i \in 1 .. Len(events) : events[i].from = side => events[i].number \in DOMAIN segments
  BY FirstByNumberFinds DEF IsFirst
<1> HIDE DEF segments, M
<1>3. whole \in Seq(Letter) /\ Len(whole) \in Nat
  <2>1. told \in Seq(Packet) /\ Len(told) \in 0 .. Len(told)
    BY TurnIsPacket
  <2>2. whole \in Seq(Letter)
    BY <2>1, SentType
  <2> HIDE DEF whole
  <2> QED BY <2>2
<1>4. M \in Nat \ {0} /\ isn[side] \in Nat
  BY WidthIs DEF M
<1>5. Len(whole) = Upto(told, side, Len(told))
  BY DEF Upto
<1> HIDE DEF whole
<1>6. DOMAIN segments # {}
  <2> SUFFICES ASSUME DOMAIN segments = {} PROVE FALSE
    OBVIOUS
  <2>1. Reassemble(segments) = [out |-> <<>>, next |-> 0, gap |-> FALSE]
    BY DEF Reassemble
  <2> QED BY <1>1, <2>1
<1>7. ASSUME NEW k \in DOMAIN segments
      PROVE  /\ segments[k] \in Seq(Letter) \ {<<>>}
             /\ \E p \in 0 .. Len(whole) : k = (isn[side] + p) % M /\ Piece(segments[k], whole, p)
  <2>1. PICK i \in 1 .. Len(events) :
          events[i].from = side /\ events[i].number = k /\ segments[k] = events[i].bytes
    BY <1>2
  <2>2. events[i] \in Event
    OBVIOUS
  <2>3. Numbered(events[i], whole, isn[side])
    BY <1>1, <2>1
  <2>4. segments[k] \in Seq(Letter) \ {<<>>}
    BY <2>1, <2>2, EventIs
  <2> QED BY <2>1, <2>3, <2>4 DEF Numbered, M
<1>8. /\ StandWhere(segments, whole, first)
      /\ \E r : ReadsAll(r, segments, whole, first)
  BY <1>1, <1>2, <1>3, <1>4, <1>6, <1>7, ReadsToTheEnd DEF M
<1>9. ASSUME NEW i \in 1 .. Len(events), events[i].from = side
      PROVE  events[i].number - first = Upto(told, side, u[i] - 1)
  <2> DEFINE k == events[i].number
             p == Upto(told, side, u[i] - 1)
             N == Len(told)
  <2>1. /\ k = (isn[side] + p) % M /\ u[i] \in 1 .. N
    BY <1>9 DEF Placed, PlacedAt, M
  <2>2. k \in first .. M - 1
    BY <1>2, <1>8, <1>9 DEF StandWhere, M
  <2>3. N \in Nat /\ u[i] - 1 \in 0 .. N /\ N \in 0 .. N /\ u[i] - 1 <= N
    BY <2>1
  <2>4. p \in Nat /\ p <= Len(whole)
    BY <1>5, <2>3, UptoIs
  <2> HIDE DEF k, p, N
  <2>5. p \in 0 .. M - 1
    BY <1>1, <1>3, <1>4, <2>4
  <2>6. isn[side] % M <= (isn[side] + p) % M
    <3>1. first <= k
      <4>1. first \in 0 .. M - 1
        BY <1>4, Remainder
      <4> HIDE DEF first
      <4> QED BY <1>4, <2>2, <4>1
    <3> QED BY <2>1, <3>1
  <2>7. (isn[side] + p) % M = (isn[side] % M) + p
    BY <1>4, <2>5, <2>6, NumberIsPlace, Zenon
  <2>8. first \in Nat
    <3>1. first \in 0 .. M - 1
      BY <1>4, Remainder
    <3> HIDE DEF first
    <3> QED BY <1>4, <3>1
  <2>9. k = first + p
    BY <2>1, <2>7
  <2> HIDE DEF first
  <2>10. k - first = p
    BY <2>4, <2>8, <2>9
  <2> QED BY <2>10 DEF k, p
<1> QED BY <1>3, <1>8, <1>9 DEF M, whole, segments

(* The places where a group begins and ends are boundaries, and the events     *)
(* between them are those of the group.                                       *)
GroupIsAt(E, F, side, events, told, isn, u, g, k) ==
  LET whole == SentBy(told, side, Len(told))
      segments == FirstByNumber(events, side)
      first == isn[side] % 2 ^ SeqBits
  IN  /\ E < F /\ Boundary(E, segments, whole, first) /\ Boundary(F, segments, whole, first)
      /\ \A i \in 1 .. Len(events) :
           /\ g[u[i]] = k => events[i].from = side
           /\ events[i].from = side =>
                ((E <= events[i].number - first /\ events[i].number - first < F) <=> g[u[i]] = k)

LEMMA GroupPlaces ==
  ASSUME NEW told \in Seq(PlannedTurn), NEW events \in Seq(Event), NEW isn \in [Side -> Nat],
         NEW side \in Side, AllOf(side, events, told, isn), NEW u, NEW v, NEW M \in Nat,
         NEW g, NEW h, Ranks(g, h, told, M), Placed(events, told, u, v, g, isn),
         NEW k \in 1 .. M, h[k] = side, NEW a \in 1 .. Len(told), NEW b \in 1 .. Len(told),
         Stands(k, a, b, g, told)
  PROVE  GroupIsAt(Upto(told, side, a - 1), Upto(told, side, b), side, events, told, isn, u, g, k)
<1> DEFINE whole == SentBy(told, side, Len(told))
           segments == FirstByNumber(events, side)
           first == isn[side] % 2 ^ SeqBits
           E == Upto(told, side, a - 1)
           F == Upto(told, side, b)
           N == Len(told)
           P(m) == Upto(told, side, m)
<1>1. /\ N \in Nat /\ \A m \in 0 .. N : P(m) \in Nat
      /\ \A m \in 1 .. N : told[m].from = side => P(m - 1) < P(m)
      /\ \A m, n \in 0 .. N : m <= n => P(m) <= P(n)
  BY UptoIs
<1>2. /\ \A i \in 1 .. Len(events) : events[i].from = side => events[i].number - first = P(u[i] - 1)
  BY SegmentsStand
<1>3. /\ a \in 1 .. N /\ b \in 1 .. N /\ a <= b
      /\ \A i \in 1 .. N : g[i] = k <=> (a <= i /\ i <= b)
  BY DEF Stands
<1>4. /\ \A i \in 1 .. N : g[i] \in 1 .. M /\ told[i].from = h[g[i]]
      /\ \A i, j \in 1 .. N : i <= j => g[i] <= g[j]
  BY DEF Ranks
<1>5. ASSUME NEW i \in 1 .. Len(events)
      PROVE  /\ u[i] \in 1 .. N /\ v[i] \in 1 .. N /\ g[v[i]] = g[u[i]]
             /\ told[u[i]].from = events[i].from
             /\ events[i].from = side => P(u[i] - 1) + Len(events[i].bytes) = P(v[i])
  BY DEF Placed, PlacedAt
<1>6. P(N) = Len(whole)
  BY DEF Upto
<1>7. \A x \in DOMAIN segments : \E i \in 1 .. Len(events) :
           events[i].from = side /\ events[i].number = x /\ segments[x] = events[i].bytes
  BY FirstByNumberFinds DEF IsFirst
<1>8. E = P(a - 1) /\ F = P(b)
  OBVIOUS
<1> HIDE DEF whole, segments, first, E, F, N, P
<1>9. E \in Nat /\ F \in Nat /\ E <= P(N) /\ F <= P(N) /\ a - 1 \in 0 .. N
      /\ \A m \in 1 .. N : m \in 0 .. N /\ m - 1 \in 0 .. N
  <2>1. /\ a - 1 \in 0 .. N /\ b \in 0 .. N /\ N \in 0 .. N /\ a - 1 <= N /\ b <= N
        /\ \A m \in 1 .. N : m \in 0 .. N /\ m - 1 \in 0 .. N
    BY <1>1, <1>3
  <2> QED BY <1>1, <1>8, <2>1
<1>10. told[a].from = side
  <2>1. g[a] = k
    <3>1. a <= a /\ a <= b
      BY <1>1, <1>3
    <3> QED BY <1>3, <3>1
  <2> QED BY <1>3, <1>4, <2>1
<1>11. E < F
  <2>1. P(a - 1) < P(a)
    BY <1>1, <1>3, <1>10
  <2>2. P(a) <= P(b) /\ P(a) \in Nat
    BY <1>1, <1>3, <1>9
  <2> QED BY <1>8, <1>9, <2>1, <2>2
<1>12. ASSUME NEW m \in 1 .. N, NEW n \in 0 .. N, P(m - 1) < P(n) PROVE m <= n
  <2> SUFFICES ASSUME ~(m <= n) PROVE FALSE
    OBVIOUS
  <2>1. n <= m - 1 /\ m - 1 \in 0 .. N
    BY <1>1
  <2>2. P(n) <= P(m - 1) /\ P(n) \in Nat /\ P(m - 1) \in Nat
    BY <1>1, <2>1
  <2> QED BY <1>12, <2>2
<1>13. ASSUME NEW x \in DOMAIN segments
       PROVE  /\ x - first < E => x - first + Len(segments[x]) <= E
              /\ x - first < F => x - first + Len(segments[x]) <= F
  <2>1. PICK i \in 1 .. Len(events) :
          events[i].from = side /\ events[i].number = x /\ segments[x] = events[i].bytes
    BY <1>7
  <2> DEFINE m == u[i]
             n == v[i]
  <2>2. /\ m \in 1 .. N /\ n \in 1 .. N /\ g[n] = g[m] /\ x - first = P(m - 1)
        /\ P(m - 1) + Len(segments[x]) = P(n)
    BY <1>2, <1>5, <2>1
  <2> HIDE DEF m, n
  <2>2a. x - first + Len(segments[x]) = P(n)
    BY <2>2
  <2>3. ASSUME x - first < E PROVE P(n) <= E
    <3>1. m <= a - 1
      BY <1>8, <1>9, <1>12, <2>2, <2>3
    <3>2. m < a /\ m <= a
      BY <1>1, <1>3, <2>2, <3>1
    <3>3. g[m] # k /\ g[a] = k
      <4>1. ~(a <= m) /\ a <= a
        BY <1>1, <1>3, <2>2, <3>2
      <4> QED BY <1>3, <2>2, <4>1
    <3>4. g[m] <= g[a]
      BY <1>3, <1>4, <2>2, <3>2
    <3>5. n <= a - 1
      <4> SUFFICES ASSUME ~(n <= a - 1) PROVE FALSE
        OBVIOUS
      <4>1. a <= n
        BY <1>1, <1>3, <2>2
      <4>2. g[a] <= g[n]
        BY <1>3, <1>4, <2>2, <4>1
      <4>3. g[a] \in 1 .. M /\ g[m] \in 1 .. M /\ g[n] \in 1 .. M
        BY <1>3, <1>4, <2>2
      <4> QED BY <2>2, <3>3, <3>4, <4>2, <4>3
    <3> QED BY <1>1, <1>8, <1>9, <2>2, <3>5
  <2>4. ASSUME x - first < F PROVE P(n) <= F
    <3>1. m <= b
      BY <1>3, <1>8, <1>9, <1>12, <2>2, <2>4
    <3>2. n <= b
      <4> SUFFICES ASSUME ~(n <= b) PROVE FALSE
        OBVIOUS
      <4>1. b <= n
        BY <1>1, <1>3, <2>2
      <4>2. g[b] <= g[n] /\ g[m] <= g[b]
        BY <1>3, <1>4, <2>2, <3>1, <4>1
      <4>3. g[b] = k
        <5>1. b <= b /\ a <= b
          BY <1>1, <1>3
        <5> QED BY <1>3, <5>1
      <4>4. g[b] \in 1 .. M /\ g[m] \in 1 .. M /\ g[n] \in 1 .. M
        BY <1>3, <1>4, <2>2
      <4>5. g[n] = k
        BY <2>2, <4>2, <4>3, <4>4
      <4>6. n <= b
        BY <1>3, <2>2, <4>5
      <4> QED BY <4>6
    <3> QED BY <1>1, <1>3, <1>8, <1>9, <2>2, <3>2
  <2> QED BY <2>2a, <2>3, <2>4
<1>14. E \in 0 .. Len(whole) /\ F \in 0 .. Len(whole)
  BY <1>1, <1>6, <1>9
<1>15. Boundary(E, segments, whole, first) /\ Boundary(F, segments, whole, first)
  BY <1>13, <1>14 DEF Boundary
<1>16. ASSUME NEW i \in 1 .. Len(events)
       PROVE  /\ g[u[i]] = k => events[i].from = side
              /\ events[i].from = side =>
                   ((E <= events[i].number - first /\ events[i].number - first < F) <=> g[u[i]] = k)
  <2> DEFINE m == u[i]
             place == events[i].number - first
  <2>1. m \in 1 .. N /\ told[m].from = events[i].from
    BY <1>5
  <2>2. g[m] = k => events[i].from = side
    BY <1>4, <2>1
  <2>3. ASSUME events[i].from = side PROVE (E <= place /\ place < F) <=> g[m] = k
    <3>1. place = P(m - 1) /\ m \in 1 .. N /\ told[m].from = side
      BY <1>2, <2>1, <2>3
    <3> HIDE DEF m, place
    <3>2. P(m - 1) < P(m) /\ P(m - 1) \in Nat /\ P(m) \in Nat /\ m \in 0 .. N /\ m - 1 \in 0 .. N
      BY <1>1, <1>9, <3>1
    <3>3. ASSUME g[m] = k PROVE E <= place /\ place < F
      <4>1. a <= m /\ m <= b
        BY <1>3, <3>1, <3>3
      <4>2. a - 1 <= m - 1
        BY <1>1, <1>3, <3>1, <4>1
      <4>3. P(a - 1) <= P(m - 1)
        BY <1>1, <1>9, <3>2, <4>2
      <4>4. P(m) <= P(b)
        BY <1>1, <1>3, <1>9, <3>2, <4>1
      <4> QED BY <1>8, <1>9, <3>1, <3>2, <4>3, <4>4
    <3>4. ASSUME E <= place, place < F PROVE g[m] = k
      <4>1. m <= b
        BY <1>3, <1>8, <1>9, <1>12, <3>1, <3>4
      <4>2. a <= m
        <5> SUFFICES ASSUME ~(a <= m) PROVE FALSE
          OBVIOUS
        <5>1. m <= a - 1
          BY <1>1, <1>3, <3>1
        <5>2. P(m) <= P(a - 1)
          BY <1>1, <1>9, <3>2, <5>1
        <5> QED BY <1>8, <1>9, <3>1, <3>2, <3>4, <5>2
      <4> QED BY <1>3, <3>1, <4>1, <4>2
    <3> QED BY <3>3, <3>4
  <2> QED BY <2>2, <2>3
<1> QED BY <1>11, <1>15, <1>16 DEF whole, segments, first, E, F, GroupIsAt

(* The bytes of a run of turns; a function, for some of its domain only.       *)
BytesOf(run) == FlattenSeq([m \in DOMAIN run |-> run[m].bytes])

BytesBetween(told, a, b) == BytesOf(SubSeq(told, a, b))

Only(f, N) == [x \in N |-> f[x]]

(* The maps of a group of events are those of all, for the numbers of the      *)
(* group.                                                                     *)
LEMMA GroupSegments ==
  ASSUME NEW events \in Seq(Event), NEW side, NEW lo \in 1 .. Len(events),
         NEW hi \in 1 .. Len(events), lo <= hi,
         NEW N, N \subseteq DOMAIN FirstByNumber(events, side),
         \A i \in 1 .. Len(events) : lo <= i /\ i <= hi => events[i].from = side,
         \A i \in 1 .. Len(events) : events[i].from = side =>
           (events[i].number \in N <=> (lo <= i /\ i <= hi))
  PROVE  FirstByNumber(SubSeq(events, lo, hi), side) = Only(FirstByNumber(events, side), N)
<1> DEFINE all == FirstByNumber(events, side)
           group == SubSeq(events, lo, hi)
           segs == FirstByNumber(group, side)
           L == Len(events)
           K == hi - lo + 1
<1>1. L \in Nat /\ lo \in 1 .. L /\ hi \in 1 .. L /\ K \in Nat
  OBVIOUS
<1>2. /\ group \in Seq(Event) /\ Len(group) = K
      /\ \A j \in 1 .. K : lo + j - 1 \in 1 .. L /\ group[j] = events[lo + j - 1]
  <2>1. \A i \in lo .. hi : events[i] \in Event
    OBVIOUS
  <2>2. group \in Seq(Event) /\ Len(group) = K
    BY <2>1
  <2>3. \A j \in 1 .. K : lo + j - 1 \in 1 .. L /\ group[j] = events[lo + j - 1]
    OBVIOUS
  <2> QED BY <2>2, <2>3
<1>3. /\ \A x \in DOMAIN all : \E i \in 1 .. L :
           IsFirst(i, events, side, x) /\ all[x] = events[i].bytes
      /\ \A i \in 1 .. L : events[i].from = side => events[i].number \in DOMAIN all
  BY FirstByNumberFinds
<1> HIDE DEF group, K, all, L
<1>4. /\ \A x \in DOMAIN segs : \E i \in 1 .. K :
           IsFirst(i, group, side, x) /\ segs[x] = group[i].bytes
      /\ \A i \in 1 .. K : group[i].from = side => group[i].number \in DOMAIN segs
      /\ segs = [x \in DOMAIN segs |-> segs[x]]
  <2>1. group \in Seq(Event)
    BY <1>2
  <2>2. /\ \A x \in DOMAIN FirstByNumber(group, side) : \E i \in 1 .. Len(group) :
             IsFirst(i, group, side, x) /\ FirstByNumber(group, side)[x] = group[i].bytes
        /\ \A i \in 1 .. Len(group) :
             group[i].from = side => group[i].number \in DOMAIN FirstByNumber(group, side)
        /\ FirstByNumber(group, side) =
             [x \in DOMAIN FirstByNumber(group, side) |-> FirstByNumber(group, side)[x]]
    <3> HIDE DEF segs
    <3> QED BY <2>1, FirstByNumberFinds
  <2> QED BY <1>2, <2>2
<1> HIDE DEF segs
<1>5. \A i \in 1 .. L : lo <= i /\ i <= hi =>
        i - lo + 1 \in 1 .. K /\ group[i - lo + 1] = events[i]
  <2> TAKE i \in 1 .. L
  <2> HAVE lo <= i /\ i <= hi
  <2> DEFINE j == i - lo + 1
  <2>1. j \in 1 .. K /\ lo + j - 1 = i
    BY <1>1 DEF K
  <2> HIDE DEF j
  <2>2. group[j] = events[i]
    BY <1>2, <2>1
  <2> QED BY <2>1, <2>2 DEF j
<1>6. ASSUME NEW x \in DOMAIN segs PROVE x \in N
  <2>1. PICK j \in 1 .. K : IsFirst(j, group, side, x)
    BY <1>4
  <2> DEFINE i == lo + j - 1
  <2>2. /\ i \in 1 .. L /\ lo <= i /\ i <= hi
    BY <1>1 DEF K
  <2>3. events[i].from = side /\ events[i].number = x
    BY <1>2, <2>1 DEF IsFirst
  <2> HIDE DEF i
  <2> QED BY <2>2, <2>3 DEF L
<1>7. ASSUME NEW x \in N PROVE x \in DOMAIN segs /\ segs[x] = all[x]
  <2>1. PICK i \in 1 .. L : IsFirst(i, events, side, x) /\ all[x] = events[i].bytes
    BY <1>3 DEF all
  <2>2. events[i].from = side /\ events[i].number = x
    BY <2>1 DEF IsFirst
  <2>3. lo <= i /\ i <= hi
    BY <2>2 DEF L
  <2> DEFINE j == i - lo + 1
  <2>4. j \in 1 .. K /\ group[j] = events[i]
    BY <1>5, <2>3
  <2>5. x \in DOMAIN segs
    <3> HIDE DEF j
    <3> QED BY <1>4, <2>2, <2>4
  <2>6. PICK m \in 1 .. K : IsFirst(m, group, side, x) /\ segs[x] = group[m].bytes
    BY <1>4, <2>5
  <2>7. m <= j
    <3> HIDE DEF j
    <3> QED BY <1>2, <2>2, <2>4, <2>6 DEF IsFirst
  <2> DEFINE n == lo + m - 1
  <2>8. n \in 1 .. L /\ group[m] = events[n]
    BY <1>2
  <2>9. i <= n
    <3> HIDE DEF n
    <3>1. events[n].from = side /\ events[n].number = x
      BY <2>6, <2>8 DEF IsFirst
    <3> QED BY <2>1, <2>8, <3>1 DEF IsFirst, L
  <2>10. m = j
    BY <1>1, <2>3, <2>7, <2>9
  <2> HIDE DEF j, n
  <2> QED BY <2>1, <2>4, <2>5, <2>6, <2>10
<1>8. DOMAIN segs = N
  BY <1>6, <1>7
<1>9. segs = [x \in N |-> all[x]]
  BY <1>4, <1>7, <1>8
<1> QED BY <1>9 DEF segs, group, all, Only

(* The bytes of what a side told in one go.                                   *)
LEMMA BytesOfRun ==
  ASSUME NEW told \in Seq(PlannedTurn), NEW side \in Side, NEW a \in 1 .. Len(told),
         NEW b \in 1 .. Len(told), a <= b,
         \A m \in 1 .. Len(told) : a <= m /\ m <= b => told[m].from = side
  PROVE  BytesBetween(told, a, b) =
           SubSeq(SentBy(told, side, Len(told)), Upto(told, side, a - 1) + 1, Upto(told, side, b))
<1> DEFINE L == Len(told)
           K == b - a + 1
           run == SubSeq(told, a, b)
           f == [m \in 1 .. K |-> run[m].bytes]
           out(n) == FlattenSeq([i \in 1 .. n |-> f[i]])
           before == SentBy(told, side, a - 1)
           S == {n \in Nat : n <= K => SentBy(told, side, (a - 1) + n) = before \o out(n)}
<1>1. L \in Nat /\ a \in 1 .. L /\ b \in 1 .. L /\ K \in Nat \ {0} /\ told \in Seq(Packet)
  BY TurnIsPacket
<1>2. /\ Len(run) = K /\ DOMAIN run = 1 .. K
      /\ \A m \in 1 .. K : /\ (a - 1) + m \in 1 .. L /\ run[m] = told[(a - 1) + m]
                           /\ told[(a - 1) + m].from = side
  <2>1. \A i \in a .. b : told[i] \in PlannedTurn
    OBVIOUS
  <2>2. Len(run) = K /\ DOMAIN run = 1 .. K
    BY <2>1
  <2>3. \A m \in 1 .. K : (a - 1) + m \in 1 .. L /\ run[m] = told[a + m - 1]
    OBVIOUS
  <2>4. \A m \in 1 .. K : (a - 1) + m = a + m - 1 /\ a <= (a - 1) + m /\ (a - 1) + m <= b
    OBVIOUS
  <2> QED BY <2>2, <2>3, <2>4
<1> HIDE DEF run
<1>3. /\ f \in [1 .. K -> Seq(Letter)] /\ \A m \in 1 .. K : f[m] = told[(a - 1) + m].bytes
  <2>1. \A m \in 1 .. L : told[m].bytes \in Seq(Letter)
    BY TurnIsPacket
  <2> HIDE DEF K, L
  <2> QED BY <1>2, <2>1
<1> HIDE DEF L, K, f
<1>4. before \in Seq(Letter)
  <2>1. a - 1 \in 0 .. Len(told)
    OBVIOUS
  <2> QED BY <1>1, <2>1, SentType
<1>5. 0 \in S
  <2>1. [i \in 1 .. 0 |-> f[i]] = <<>> /\ (a - 1) + 0 = a - 1
    BY <1>1
  <2>2. out(0) = <<>>
    BY <2>1, FlattenNone, Zenon
  <2> HIDE DEF out, before
  <2>3. before \o <<>> = before
    BY <1>4, JoinedBytes
  <2>4. SentBy(told, side, (a - 1) + 0) = before \o out(0)
    BY <2>1, <2>2, <2>3 DEF before
  <2> QED BY <2>4
<1>6. ASSUME NEW n \in S PROVE n + 1 \in S
  <2> HIDE DEF out
  <2> SUFFICES ASSUME n + 1 <= K PROVE SentBy(told, side, (a - 1) + (n + 1)) = before \o out(n + 1)
    OBVIOUS
  <2>0. n \in Nat /\ (n <= K => SentBy(told, side, (a - 1) + n) = before \o out(n))
    OBVIOUS
  <2> HIDE DEF S
  <2>1. n <= K /\ n + 1 \in 1 .. K
    BY <1>1, <2>0
  <2>2. out(n + 1) = out(n) \o f[n + 1] /\ out(n) \in Seq(Letter) /\ f[n + 1] \in Seq(Letter)
    <3> DEFINE X == Letter
    <3>1. K \in Nat /\ f \in [1 .. K -> Seq(X)] /\ n \in Nat /\ n + 1 <= K
      BY <1>1, <1>3, <2>0
    <3> HIDE DEF X, before
    <3>2. /\ FlattenSeq([i \in 1 .. n |-> f[i]]) \in Seq(X) /\ f[n + 1] \in Seq(X)
          /\ FlattenSeq([i \in 1 .. n + 1 |-> f[i]]) = FlattenSeq([i \in 1 .. n |-> f[i]]) \o f[n + 1]
      BY <3>1, FlattenFirst, ZenonT(90)
    <3> QED BY <3>2 DEF X, out
  <2> DEFINE m == (a - 1) + (n + 1)
  <2>3. m \in 1 .. L /\ m - 1 = (a - 1) + n
    BY <1>1, <1>2, <2>0, <2>1
  <2>4. told[m].from = side /\ f[n + 1] = told[m].bytes
    BY <1>2, <1>3, <2>1
  <2> HIDE DEF m
  <2>5. SentBy(told, side, m) = SentBy(told, side, m - 1) \o told[m].bytes
    BY <2>3, <2>4, WritesOn DEF L
  <2> DEFINE o == out(n)
             c == f[n + 1]
  <2>6. SentBy(told, side, m) = (before \o o) \o c
    BY <2>0, <2>1, <2>3, <2>4, <2>5
  <2>7. o \in Seq(Letter) /\ c \in Seq(Letter) /\ out(n + 1) = o \o c
    BY <2>2
  <2> HIDE DEF before, o, c
  <2>8. \A x, y, z \in Seq(Letter) : (x \o y) \o z = x \o (y \o z)
    BY JoinedBytes
  <2>9. (before \o o) \o c = before \o (o \o c)
    BY <1>4, <2>7, <2>8, Zenon
  <2> QED BY <2>6, <2>7, <2>9 DEF m
<1>7. SentBy(told, side, b) = before \o out(K)
  <2> HIDE DEF out, before
  <2>1. S \subseteq Nat
    OBVIOUS
  <2>2. S = Nat
    <3> HIDE DEF S
    <3> QED BY <1>5, <1>6, <2>1, InductionOn
  <2>3. (a - 1) + K = b
    BY <1>1 DEF K
  <2>4. SentBy(told, side, (a - 1) + K) = before \o out(K)
    <3>1. K <= K /\ K \in Nat
      BY <1>1
    <3>2. K \in S
      BY <2>2, <3>1, Zenon
    <3> HIDE DEF K
    <3> QED BY <3>1, <3>2, Zenon
  <2> QED BY <2>3, <2>4
<1>8. out(K) = BytesOf(run)
  <2>1. [i \in 1 .. K |-> f[i]] = [m \in DOMAIN run |-> run[m].bytes]
    BY <1>2 DEF f
  <2> QED BY <2>1 DEF BytesOf
<1>9. out(K) \in Seq(Letter)
  <2>1. [i \in 1 .. K |-> f[i]] \in [1 .. K -> Seq(Letter)] /\ K \in Nat
    BY <1>1, <1>3
  <2> QED BY <2>1, FlattenFunction
<1>10. PICK rest \in Seq(Letter) : SentBy(told, side, L) = SentBy(told, side, b) \o rest
  <2>1. told \in Seq(Packet) /\ b \in Nat /\ L \in Nat /\ b <= L /\ L <= Len(told)
    BY <1>1 DEF L
  <2> HIDE DEF L
  <2>2. \E rest \in Seq(Letter) : SentBy(told, side, L) = SentBy(told, side, b) \o rest
    BY <2>1, SentGrows, ZenonT(90)
  <2> QED BY <2>2
<1> DEFINE o == out(K)
           e == Len(before)
<1>11. Upto(told, side, a - 1) = e /\ Upto(told, side, b) = Len(before \o o)
  BY <1>7 DEF Upto
<1>12. SentBy(told, side, L) = (before \o o) \o rest
  BY <1>7, <1>10
<1>13. o # <<>>
  <2> DEFINE P(m) == Upto(told, side, m)
  <2>1. /\ P(a - 1) < P(a) /\ P(a) <= P(b) /\ P(a) \in Nat /\ P(a - 1) \in Nat
    <3>1. a \in 1 .. L /\ a \in 0 .. L /\ b \in 0 .. L /\ a - 1 \in 0 .. L
      BY <1>1
    <3>2. told[a].from = side
      OBVIOUS
    <3> HIDE DEF P
    <3> QED BY <3>1, <3>2, UptoIs DEF P, L
  <2> HIDE DEF P, before, out
  <2>2. o = <<>> => Len(before \o o) = e
    <3>1. before \o <<>> = before
      BY <1>4, JoinedBytes
    <3> QED BY <3>1
  <2>3. P(b) = Len(before \o o) /\ P(a - 1) = e
    BY <1>11 DEF P
  <2> HIDE DEF o, e
  <2>4. P(b) \in Nat
    <3>1. b \in 0 .. L
      BY <1>1
    <3> QED BY <3>1, UptoIs DEF P, L
  <2> QED BY <2>1, <2>2, <2>3, <2>4
<1> HIDE DEF o, before
<1>14. o \in Seq(Letter)
  BY <1>9 DEF o
<1>15. Len(before \o o) = e + Len(o)
  BY <1>4, <1>14, JoinedBytes
<1>16. Piece(o, (before \o o) \o rest, e)
  BY <1>4, <1>13, <1>14, PieceOfConcat
<1>17. o = SubSeq((before \o o) \o rest, e + 1, e + Len(o))
  BY <1>16 DEF Piece
<1> QED BY <1>8, <1>11, <1>12, <1>15, <1>17 DEF L, o, run, BytesBetween

(* The groups of the events, by those of what they tell.                       *)
RanksOf(events, u, g) == [i \in 1 .. Len(events) |-> g[u[i]]]

(* A group of what was told has events, and what reassemble makes of them is   *)
(* the bytes of the group.                                                    *)
GroupRead(group, side, bytes) ==
  LET stream == Stream(group, side)
  IN  group[1].from = side /\ stream.out # <<>> /\ ~stream.gap /\ stream.out = bytes

IsRead(k, a, b, events, told, u, g, side) ==
  /\ \E i \in 1 .. Len(events) : g[u[i]] = k
  /\ told[a].from = side
  /\ \A lo, hi \in 1 .. Len(events) :
       Stands(k, lo, hi, RanksOf(events, u, g), events) =>
         GroupRead(SubSeq(events, lo, hi), side, BytesBetween(told, a, b))

LEMMA GroupReads ==
  ASSUME NEW told \in Seq(PlannedTurn), NEW events \in Seq(Event), NEW isn \in [Side -> Nat],
         \A side \in Side : AllOf(side, events, told, isn), NEW u, NEW v, NEW M \in Nat,
         NEW g, NEW h, Ranks(g, h, told, M), Placed(events, told, u, v, g, isn)
  PROVE  \A k \in 1 .. M : \A a, b \in 1 .. Len(told) :
           Stands(k, a, b, g, told) => IsRead(k, a, b, events, told, u, g, h[k])
<1> SUFFICES ASSUME NEW k \in 1 .. M, NEW a \in 1 .. Len(told), NEW b \in 1 .. Len(told),
                    Stands(k, a, b, g, told)
             PROVE  IsRead(k, a, b, events, told, u, g, h[k])
  OBVIOUS
<1> DEFINE side == h[k]
           whole == SentBy(told, side, Len(told))
           segments == FirstByNumber(events, side)
           first == isn[side] % 2 ^ SeqBits
           E == Upto(told, side, a - 1)
           F == Upto(told, side, b)
           N == Between(segments, first, E, F)
<1>1. /\ side \in Side /\ AllOf(side, events, told, isn)
      /\ \A i \in 1 .. Len(told) : told[i].from = h[g[i]]
  BY DEF Ranks
<1>2. a <= b /\ \A i \in 1 .. Len(told) : g[i] = k <=> (a <= i /\ i <= b)
  BY DEF Stands
<1>3. \A m \in 1 .. Len(told) : a <= m /\ m <= b => told[m].from = side
  BY <1>1, <1>2
<1> HIDE DEF side
<1>4. /\ E < F /\ Boundary(E, segments, whole, first) /\ Boundary(F, segments, whole, first)
      /\ \A i \in 1 .. Len(events) :
           /\ g[u[i]] = k => events[i].from = side
           /\ events[i].from = side =>
                ((E <= events[i].number - first /\ events[i].number - first < F) <=> g[u[i]] = k)
  <2>1. side \in Side /\ AllOf(side, events, told, isn) /\ h[k] = side
    BY <1>1 DEF side
  <2>2. GroupIsAt(Upto(told, side, a - 1), Upto(told, side, b), side, events, told, isn, u, g, k)
    <3> HIDE DEF whole, segments, first, E, F, N
    <3> QED BY <2>1, GroupPlaces
  <2> QED BY <2>2 DEF GroupIsAt
<1>5. /\ whole \in Seq(Letter) /\ StandWhere(segments, whole, first)
      /\ \E r : ReadsAll(r, segments, whole, first)
  BY <1>1, SegmentsStand
<1>6. BytesBetween(told, a, b) = SubSeq(whole, E + 1, F)
  <2>1. BytesBetween(told, a, b) =
          SubSeq(SentBy(told, side, Len(told)), Upto(told, side, a - 1) + 1, Upto(told, side, b))
    <3> HIDE DEF whole, segments, first, E, F, N
    <3> QED BY <1>1, <1>2, <1>3, BytesOfRun
  <2> QED BY <2>1
<1>7. /\ \A x \in DOMAIN segments : \E i \in 1 .. Len(events) :
           events[i].from = side /\ events[i].number = x
      /\ \A i \in 1 .. Len(events) : events[i].from = side => events[i].number \in DOMAIN segments
  <2>1. /\ \A x \in DOMAIN FirstByNumber(events, side) : \E i \in 1 .. Len(events) :
             IsFirst(i, events, side, x) /\ FirstByNumber(events, side)[x] = events[i].bytes
        /\ \A i \in 1 .. Len(events) :
             events[i].from = side => events[i].number \in DOMAIN FirstByNumber(events, side)
    BY FirstByNumberFinds
  <2> QED BY <2>1 DEF IsFirst
<1>8. E \in 0 .. Len(whole) /\ F \in 0 .. Len(whole) /\ Len(whole) \in Nat
  <2>1. Len(whole) \in Nat
    <3> HIDE DEF whole
    <3> QED BY <1>5
  <2> QED BY <1>4, <2>1 DEF Boundary
<1>9. told[a].from = side
  BY <1>2, <1>3
<1> HIDE DEF whole, segments, first, E, F
<1>10. /\ N # {}
       /\ LET part == Reassemble([x \in N |-> segments[x]])
          IN  part.out = SubSeq(whole, E + 1, F) /\ ~part.gap
  <2>1. PICK r : ReadsAll(r, segments, whole, first)
    BY <1>5
  <2> HIDE DEF N
  <2> QED BY <1>4, <1>5, <2>1, ReadsBetween DEF N
<1>11. N \subseteq DOMAIN segments
  BY DEF Between
<1>12. \A i \in 1 .. Len(events) : events[i].from = side => (events[i].number \in N <=> g[u[i]] = k)
  BY <1>4, <1>7 DEF Between
<1> HIDE DEF N
<1>13. \E i \in 1 .. Len(events) : g[u[i]] = k
  <2>1. PICK x \in N : x \in DOMAIN segments
    BY <1>10, <1>11
  <2>2. PICK i \in 1 .. Len(events) : events[i].from = side /\ events[i].number = x
    BY <1>7, <2>1
  <2> QED BY <1>12, <2>1, <2>2
<1>14. SubSeq(whole, E + 1, F) # <<>>
  <2>1. \A i \in E + 1 .. F : whole[i] \in Letter
    BY <1>5, <1>8
  <2>2. Len(SubSeq(whole, E + 1, F)) = F - E
    BY <1>4, <1>8, <2>1
  <2>3. F - E # 0 /\ Len(<<>>) = 0
    BY <1>4, <1>8
  <2> QED BY <2>2, <2>3
<1>15. ASSUME NEW lo \in 1 .. Len(events), NEW hi \in 1 .. Len(events),
              Stands(k, lo, hi, RanksOf(events, u, g), events)
       PROVE  GroupRead(SubSeq(events, lo, hi), side, BytesBetween(told, a, b))
  <2> DEFINE group == SubSeq(events, lo, hi)
  <2>1. lo <= hi /\ \A i \in 1 .. Len(events) : g[u[i]] = k <=> (lo <= i /\ i <= hi)
    <3> DEFINE ge == RanksOf(events, u, g)
    <3>1. \A i \in 1 .. Len(events) : ge[i] = g[u[i]]
      BY DEF RanksOf
    <3> HIDE DEF ge
    <3>2. Stands(k, lo, hi, ge, events)
      BY <1>15 DEF ge
    <3> QED BY <3>1, <3>2 DEF Stands
  <2>2. \A i \in 1 .. Len(events) : lo <= i /\ i <= hi => events[i].from = side
    BY <1>4, <2>1
  <2>3. \A i \in 1 .. Len(events) : events[i].from = side =>
          (events[i].number \in N <=> (lo <= i /\ i <= hi))
    BY <1>12, <2>1
  <2>4. FirstByNumber(group, side) = [x \in N |-> segments[x]]
    <3>1. N \subseteq DOMAIN FirstByNumber(events, side)
      BY <1>11 DEF segments
    <3>2. FirstByNumber(SubSeq(events, lo, hi), side) = Only(FirstByNumber(events, side), N)
      BY <2>1, <2>2, <2>3, <3>1, GroupSegments
    <3> QED BY <3>2 DEF segments, Only
  <2>5. Stream(group, side) = Reassemble([x \in N |-> segments[x]])
    BY <2>4 DEF Stream
  <2>6. group[1].from = side
    <3>1. \A i \in lo .. hi : events[i] \in Event
      OBVIOUS
    <3>2. group[1] = events[lo]
      BY <2>1, <3>1
    <3>3. events[lo].from = side
      <4>1. lo <= lo
        OBVIOUS
      <4> QED BY <2>1, <2>2, <4>1
    <3> QED BY <3>2, <3>3
  <2> HIDE DEF group
  <2> QED BY <1>6, <1>10, <1>14, <2>5, <2>6 DEF group, GroupRead
<1> QED BY <1>9, <1>13, <1>15 DEF side, IsRead

(* build_turns: if all that either side told is kept, and no event comes after *)
(* one of a later group, it makes the groups of what was told.                 *)
LEMMA TurnsAsTold ==
  ASSUME NEW told \in Seq(PlannedTurn), NEW events \in Seq(Event), NEW isn \in [Side -> Nat],
         \A side \in Side : AllOf(side, events, told, isn), NEW u, NEW v, NEW M \in Nat,
         NEW g, NEW h, Ranks(g, h, told, M), Placed(events, told, u, v, g, isn),
         \A i, j \in 1 .. Len(events) : i <= j => g[u[i]] <= g[u[j]]
  PROVE  LET turns == Groups(told)
         IN  BuildTurns(events) =
               [n \in DOMAIN turns |-> [from |-> turns[n][1].from, bytes |-> BytesOf(turns[n])]]
<1>0. \A k \in 1 .. M : \A a, b \in 1 .. Len(told) :
        Stands(k, a, b, g, told) => IsRead(k, a, b, events, told, u, g, h[k])
  BY GroupReads
<1>01. \A k \in 1 .. M : \E a, b \in 1 .. Len(told) : Stands(k, a, b, g, told)
  BY RankRun
<1> DEFINE turns == Groups(told)
           groups == Groups(events)
           ge == RanksOf(events, u, g)
           Turned(n) == [from |-> turns[n][1].from,
                         bytes |-> BytesOf(turns[n])]
           Stream1(n) == Stream(groups[n], groups[n][1].from)
           Built(n) == IF Stream1(n).out # <<>> /\ ~Stream1(n).gap
                       THEN <<[from |-> groups[n][1].from, bytes |-> Stream1(n).out]>> ELSE <<>>
<1>1. /\ Len(turns) = M /\ DOMAIN turns = 1 .. M /\ \A k \in 1 .. M : IsGroup(turns[k], told, g, k)
  <2>1. /\ turns \in Seq(Seq(PlannedTurn)) /\ Len(turns) = M
        /\ \A k \in 1 .. M : IsGroup(turns[k], told, g, k)
    BY GroupsByRank
  <2>2. DOMAIN turns = 1 .. M
    <3> HIDE DEF turns
    <3> QED BY <2>1
  <2> QED BY <2>1, <2>2
<1>2. Ranks(ge, h, events, M)
  <2>1. /\ g \in [1 .. Len(told) -> 1 .. M] /\ h \in [1 .. M -> Side]
        /\ \A i \in 1 .. Len(told) : told[i].from = h[g[i]]
        /\ \A k \in 1 .. M : k + 1 <= M => h[k] # h[k + 1]
    BY DEF Ranks
  <2>2. ASSUME NEW i \in 1 .. Len(events)
        PROVE  u[i] \in 1 .. Len(told) /\ told[u[i]].from = events[i].from
    BY DEF Placed, PlacedAt
  <2>3. ASSUME NEW k \in 1 .. M PROVE \E i \in 1 .. Len(events) : g[u[i]] = k
    <3>1. PICK a, b \in 1 .. Len(told) : Stands(k, a, b, g, told)
      BY <1>01
    <3>2. IsRead(k, a, b, events, told, u, g, h[k])
      BY <1>0, <3>1
    <3> QED BY <3>2 DEF IsRead
  <2>4. /\ ge \in [1 .. Len(events) -> 1 .. M]
        /\ \A i \in 1 .. Len(events) : ge[i] = g[u[i]]
    BY <2>1, <2>2 DEF RanksOf
  <2> HIDE DEF ge
  <2>5. \A i \in 1 .. Len(events) : events[i].from = h[ge[i]]
    BY <2>1, <2>2, <2>4, ZenonT(90)
  <2>6. \A i, j \in 1 .. Len(events) : i <= j => ge[i] <= ge[j]
    BY <2>4
  <2>7. \A k \in 1 .. M : \E i \in 1 .. Len(events) : ge[i] = k
    BY <2>3, <2>4
  <2> HIDE DEF turns, groups, Turned, Built, Stream1
  <2> QED BY <2>1, <2>4, <2>5, <2>6, <2>7 DEF Ranks
<1>3. /\ Len(groups) = M /\ DOMAIN groups = 1 .. M
      /\ \A k \in 1 .. M : IsGroup(groups[k], events, ge, k)
  <2>1. /\ groups \in Seq(Seq(Event)) /\ Len(groups) = M
        /\ \A k \in 1 .. M : IsGroup(groups[k], events, ge, k)
    <3> HIDE DEF ge, turns
    <3>1. /\ Groups(events) \in Seq(Seq(Event)) /\ Len(Groups(events)) = M
          /\ \A k \in 1 .. M : IsGroup(Groups(events)[k], events, ge, k)
      BY <1>2, GroupsByRank, SMTT(90)
    <3> QED BY <3>1
  <2>2. DOMAIN groups = 1 .. M
    <3> HIDE DEF groups
    <3> QED BY <2>1
  <2> QED BY <2>1, <2>2
<1> HIDE DEF turns, groups
<1>4. ASSUME NEW k \in 1 .. M PROVE Built(k) = <<Turned(k)>>
  <2>1. PICK a, b \in 1 .. Len(told) : Stands(k, a, b, g, told) /\ turns[k] = SubSeq(told, a, b)
    BY <1>1 DEF IsGroup
  <2>2. PICK lo, hi \in 1 .. Len(events) :
          Stands(k, lo, hi, ge, events) /\ groups[k] = SubSeq(events, lo, hi)
    <3> HIDE DEF ge
    <3> QED BY <1>3 DEF IsGroup
  <2> DEFINE run == turns[k]
             s == Stream(groups[k], h[k])
  <2>3. /\ run[1].from = h[k]
        /\ groups[k][1].from = h[k] /\ s.out # <<>> /\ ~s.gap /\ s.out = BytesOf(run)
    <3>1. IsRead(k, a, b, events, told, u, g, h[k])
      BY <1>0, <2>1
    <3>2. BytesBetween(told, a, b) = BytesOf(run)
      BY <2>1 DEF BytesBetween
    <3>3. run[1] = told[a]
      <4>1. a <= b /\ \A i \in a .. b : told[i] \in PlannedTurn
        BY <2>1 DEF Stands
      <4>2. run = SubSeq(told, a, b)
        BY <2>1
      <4> HIDE DEF run
      <4> QED BY <4>1, <4>2
    <3>4. GroupRead(groups[k], h[k], BytesOf(run))
      BY <2>2, <3>1, <3>2 DEF IsRead
    <3>5. told[a].from = h[k]
      BY <3>1 DEF IsRead
    <3> HIDE DEF run
    <3> QED BY <3>3, <3>4, <3>5 DEF GroupRead
  <2>4. Stream1(k) = s
    BY <2>3
  <2> HIDE DEF Stream1
  <2>5. Built(k) = <<[from |-> h[k], bytes |-> s.out]>>
    <3> HIDE DEF s
    <3> QED BY <2>3, <2>4
  <2>6. Turned(k) = [from |-> h[k], bytes |-> s.out]
    <3> HIDE DEF s
    <3> QED BY <2>3
  <2> HIDE DEF Built, Turned
  <2> QED BY <2>5, <2>6
<1>5. BuildTurns(events) = FlattenSeq([k \in 1 .. M |-> Built(k)])
  <2>1. BuildTurns(events) = FlattenSeq([k \in DOMAIN groups |-> Built(k)])
    BY DEF BuildTurns, groups
  <2> HIDE DEF Built
  <2> QED BY <1>3, <2>1
<1> HIDE DEF Built, Turned
<1> DEFINE want == [n \in 1 .. M |-> Turned(n)]
           X == {Turned(n) : n \in 1 .. M}
<1>6. want \in Seq(X) /\ Len(want) = M /\ \A n \in 1 .. M : want[n] = Turned(n)
  OBVIOUS
<1>7. [k \in 1 .. M |-> Built(k)] = [k \in 1 .. Len(want) |-> <<want[k]>>]
  <2> HIDE DEF want
  <2>1. \A k \in 1 .. M : Built(k) = <<want[k]>>
    BY <1>4, <1>6
  <2> QED BY <1>6, <2>1
<1>8. FlattenSeq([k \in 1 .. Len(want) |-> <<want[k]>>]) = want
  <2> HIDE DEF want, X
  <2> QED BY <1>6, FlattenSingles
<1>9. BuildTurns(events) = want
  <2> HIDE DEF want
  <2> QED BY <1>5, <1>7, <1>8
<1>10. want = [n \in DOMAIN turns |-> Turned(n)]
  BY <1>1
<1> HIDE DEF want
<1>11. BuildTurns(events) = [n \in DOMAIN turns |-> Turned(n)]
  BY <1>9, <1>10
<1> QED BY <1>11 DEF Turned, turns

-----------------------------------------------------------------------------
(* What was told: the packets with bytes                                      *)

Told(talk, n) ==
  FlattenSeq([i \in 1 .. n |-> IF talk[i].bytes # <<>> THEN <<talk[i]>> ELSE <<>>])

(* t tells of what was told which packets those are.                          *)
Tells(t, told, talk, n) ==
  /\ told \in Seq(PlannedTurn) /\ t \in [1 .. Len(told) -> 1 .. n]
  /\ \A m \in 1 .. Len(told) : told[m] = talk[t[m]]
  /\ \A a, b \in 1 .. Len(told) : a < b => t[a] < t[b]
  /\ \A p \in 1 .. n : talk[p].bytes # <<>> => \E m \in 1 .. Len(told) : t[m] = p
  /\ \A side \in Side : SentBy(talk, side, n) = SentBy(told, side, Len(told))
  /\ \A side \in Side : \A m \in 1 .. Len(told) :
       SentBy(talk, side, t[m] - 1) = SentBy(told, side, m - 1)

LEMMA SentOfPrefix ==
  ASSUME NEW a, NEW b, NEW side, NEW m \in Nat, \A i \in 1 .. m : a[i] = b[i]
  PROVE  SentBy(a, side, m) = SentBy(b, side, m)
<1>1. [i \in 1 .. m |-> IF a[i].from = side THEN a[i].bytes ELSE <<>>] =
        [i \in 1 .. m |-> IF b[i].from = side THEN b[i].bytes ELSE <<>>]
  OBVIOUS
<1> QED BY <1>1, Zenon DEF SentBy

(* A packet without bytes is not told.                                        *)
LEMMA NothingTold ==
  ASSUME NEW talk \in Seq(Packet), NEW n \in Nat, n + 1 <= Len(talk), NEW t, NEW told,
         Tells(t, told, talk, n), talk[n + 1].bytes = <<>>
  PROVE  Tells(t, told, talk, n + 1)
<1>1. /\ told \in Seq(PlannedTurn) /\ t \in [1 .. Len(told) -> 1 .. n]
      /\ \A m \in 1 .. Len(told) : told[m] = talk[t[m]]
      /\ \A a, b \in 1 .. Len(told) : a < b => t[a] < t[b]
      /\ \A p \in 1 .. n : talk[p].bytes # <<>> => \E m \in 1 .. Len(told) : t[m] = p
      /\ \A side \in Side : SentBy(talk, side, n) = SentBy(told, side, Len(told))
      /\ \A side \in Side : \A m \in 1 .. Len(told) :
           SentBy(talk, side, t[m] - 1) = SentBy(told, side, m - 1)
  BY DEF Tells
<1>2. t \in [1 .. Len(told) -> 1 .. n + 1]
  BY <1>1
<1>3. \A p \in 1 .. n + 1 : talk[p].bytes # <<>> => \E m \in 1 .. Len(told) : t[m] = p
  <2> TAKE p \in 1 .. n + 1
  <2>1. p = n + 1 \/ p \in 1 .. n
    OBVIOUS
  <2> QED BY <1>1, <2>1
<1>4. ASSUME NEW side \in Side PROVE SentBy(talk, side, n + 1) = SentBy(told, side, Len(told))
  <2>1. /\ SentBy(talk, side, n) \in Seq(Letter)
        /\ SentBy(talk, side, n + 1) =
             SentBy(talk, side, n) \o IF talk[n + 1].from = side THEN talk[n + 1].bytes ELSE <<>>
    BY SentStep, ZenonT(90)
  <2> DEFINE s == SentBy(talk, side, n)
  <2>2. SentBy(talk, side, n + 1) = s \o <<>>
    BY <2>1
  <2>3. s \in Seq(Letter) /\ s = SentBy(told, side, Len(told))
    BY <1>1, <2>1
  <2> HIDE DEF s
  <2>4. s \o <<>> = s
    BY <2>3, JoinedBytes
  <2> QED BY <2>2, <2>3, <2>4
<1> QED BY <1>1, <1>2, <1>3, <1>4 DEF Tells

(* One with bytes is.                                                         *)
LEMMA MoreTold ==
  ASSUME NEW talk \in Seq(Packet), NEW n \in Nat, n + 1 <= Len(talk), NEW t, NEW told,
         Tells(t, told, talk, n), talk[n + 1].bytes # <<>>
  PROVE  \E u : Tells(u, told \o <<talk[n + 1]>>, talk, n + 1)
<1> DEFINE p == talk[n + 1]
           N == Len(told)
           new == told \o <<p>>
           u == [m \in 1 .. N + 1 |-> IF m = N + 1 THEN n + 1 ELSE t[m]]
<1>1. /\ told \in Seq(PlannedTurn) /\ t \in [1 .. N -> 1 .. n] /\ N \in Nat
      /\ \A m \in 1 .. N : told[m] = talk[t[m]]
      /\ \A a, b \in 1 .. N : a < b => t[a] < t[b]
      /\ \A q \in 1 .. n : talk[q].bytes # <<>> => \E m \in 1 .. N : t[m] = q
      /\ \A side \in Side : SentBy(talk, side, n) = SentBy(told, side, N)
      /\ \A side \in Side : \A m \in 1 .. N :
           SentBy(talk, side, t[m] - 1) = SentBy(told, side, m - 1)
  BY DEF Tells
<1>2. p \in PlannedTurn
  <2>1. n + 1 \in 1 .. Len(talk)
    OBVIOUS
  <2>2. p \in Packet
    BY <2>1
  <2> HIDE DEF p
  <2>3. p.bytes # <<>>
    BY DEF p
  <2> QED BY <2>2, <2>3 DEF Packet, PlannedTurn
<1> HIDE DEF N
<1>3. /\ new \in Seq(PlannedTurn) /\ Len(new) = N + 1 /\ new[N + 1] = p
      /\ \A m \in 1 .. N : new[m] = told[m]
  <2> HIDE DEF p
  <2> QED BY <1>1, <1>2 DEF N
<1>4. /\ u \in [1 .. N + 1 -> 1 .. n + 1] /\ u[N + 1] = n + 1 /\ N + 1 \in 1 .. N + 1
      /\ \A m \in 1 .. N : u[m] = t[m] /\ m \in 1 .. N + 1 /\ m # N + 1
      /\ \A m \in 1 .. N + 1 : m = N + 1 \/ m \in 1 .. N
  BY <1>1
<1> HIDE DEF u, new
<1>5. \A m \in 1 .. N + 1 : new[m] = talk[u[m]]
  BY <1>1, <1>3, <1>4 DEF p
<1>6. \A a, b \in 1 .. N + 1 : a < b => u[a] < u[b]
  <2> TAKE a, b \in 1 .. N + 1
  <2> HAVE a < b
  <2>1. a \in 1 .. N
    BY <1>1
  <2>2. CASE b \in 1 .. N
    BY <1>1, <1>4, <2>1, <2>2
  <2>3. CASE b = N + 1
    <3>1. u[a] \in 1 .. n /\ u[b] = n + 1
      BY <1>1, <1>4, <2>1, <2>3
    <3> QED BY <3>1
  <2> QED BY <1>4, <2>2, <2>3
<1>7. \A q \in 1 .. n + 1 : talk[q].bytes # <<>> => \E m \in 1 .. N + 1 : u[m] = q
  <2> TAKE q \in 1 .. n + 1
  <2>1. q = n + 1 \/ q \in 1 .. n
    OBVIOUS
  <2> QED BY <1>1, <1>4, <2>1
<1>8. ASSUME NEW side \in Side, NEW m \in 0 .. N PROVE SentBy(new, side, m) = SentBy(told, side, m)
  <2>1. m \in Nat /\ \A i \in 1 .. m : new[i] = told[i]
    BY <1>1, <1>3
  <2> QED BY <2>1, SentOfPrefix
<1>9. ASSUME NEW side \in Side PROVE SentBy(talk, side, n + 1) = SentBy(new, side, N + 1)
  <2>1. SentBy(talk, side, n + 1) =
          SentBy(talk, side, n) \o IF talk[n + 1].from = side THEN talk[n + 1].bytes ELSE <<>>
    BY SentStep, ZenonT(90)
  <2>2. N \in 0 .. N /\ (N + 1) - 1 = N
    BY <1>1
  <2>3. SentBy(talk, side, n) = SentBy(new, side, N) /\ SentBy(new, side, N) \in Seq(Letter)
    <3>1. new \in Seq(Packet) /\ N \in 0 .. Len(new)
      BY <1>1, <1>3, TurnIsPacket
    <3>2. SentBy(new, side, N) \in Seq(Letter)
      BY <3>1, SentType
    <3> QED BY <1>1, <1>8, <2>2, <3>2
  <2>4. /\ new[N + 1].from = side => SentBy(new, side, N + 1) = SentBy(new, side, N) \o new[N + 1].bytes
        /\ new[N + 1].from # side => SentBy(new, side, N + 1) = SentBy(new, side, N)
    <3> DEFINE j == N + 1
    <3>1. j \in 1 .. Len(new) /\ j - 1 = N
      BY <1>1, <1>3
    <3> HIDE DEF j
    <3>2. /\ new[j].from = side => SentBy(new, side, j) = SentBy(new, side, j - 1) \o new[j].bytes
          /\ new[j].from # side => SentBy(new, side, j) = SentBy(new, side, j - 1)
      BY <1>3, <3>1, WritesOn
    <3> QED BY <3>1, <3>2 DEF j
  <2>5. CASE p.from = side
    <3> HIDE DEF p
    <3>1. SentBy(talk, side, n + 1) = SentBy(talk, side, n) \o p.bytes
      BY <2>1, <2>5 DEF p
    <3> QED BY <1>3, <2>3, <2>4, <2>5, <3>1
  <2>6. CASE p.from # side
    <3> DEFINE s == SentBy(new, side, N)
    <3>1. SentBy(talk, side, n + 1) = s \o <<>>
      BY <2>1, <2>3, <2>6
    <3>2. s \in Seq(Letter)
      BY <2>3
    <3>3. SentBy(new, side, N + 1) = s
      <4> HIDE DEF p
      <4> QED BY <1>3, <2>4, <2>6
    <3> HIDE DEF s
    <3>4. s \o <<>> = s
      BY <3>2, JoinedBytes
    <3> QED BY <3>1, <3>3, <3>4
  <2> QED BY <2>5, <2>6
<1>10. ASSUME NEW side \in Side, NEW m \in 1 .. N + 1
       PROVE  SentBy(talk, side, u[m] - 1) = SentBy(new, side, m - 1)
  <2>1. CASE m = N + 1
    <3>1. u[m] - 1 = n /\ m - 1 = N /\ N \in 0 .. N
      BY <1>1, <1>4, <2>1
    <3> QED BY <1>1, <1>8, <3>1
  <2>2. CASE m \in 1 .. N
    <3>1. u[m] = t[m] /\ m - 1 \in 0 .. N
      BY <1>1, <1>4, <2>2
    <3>2. SentBy(talk, side, t[m] - 1) = SentBy(told, side, m - 1)
      BY <1>1, <2>2
    <3>3. SentBy(new, side, m - 1) = SentBy(told, side, m - 1)
      BY <1>8, <3>1
    <3> QED BY <3>1, <3>2, <3>3
  <2> QED BY <1>4, <2>1, <2>2
<1>11. Tells(u, new, talk, n + 1)
  BY <1>3, <1>4, <1>5, <1>6, <1>7, <1>9, <1>10 DEF Tells
<1> QED BY <1>11 DEF new

LEMMA ToldIs ==
  ASSUME NEW talk \in Seq(Packet), NEW n \in 0 .. Len(talk)
  PROVE  \E t : Tells(t, Told(talk, n), talk, n)
<1> DEFINE N == Len(talk)
           f == [i \in 1 .. N |-> IF talk[i].bytes # <<>> THEN <<talk[i]>> ELSE <<>>]
           P(m) == \E t : Tells(t, Told(talk, m), talk, m)
           S == {m \in Nat : m <= N => P(m)}
<1>1. N \in Nat /\ \A i \in 1 .. N : talk[i] \in Packet
  OBVIOUS
<1>2. f \in [1 .. N -> Seq(PlannedTurn)]
  <2>1. ASSUME NEW i \in 1 .. N PROVE f[i] \in Seq(PlannedTurn)
    <3> DEFINE x == talk[i]
    <3>1. f[i] = IF x.bytes # <<>> THEN <<x>> ELSE <<>>
      OBVIOUS
    <3>2. x \in Packet
      BY <1>1
    <3> HIDE DEF x, f
    <3>3. x.bytes # <<>> => x \in PlannedTurn
      BY <3>2 DEF Packet, PlannedTurn
    <3> QED BY <3>1, <3>3
  <2> HIDE DEF N
  <2> QED BY <2>1
<1>3. \A m \in 0 .. N : Told(talk, m) = FlattenSeq([i \in 1 .. m |-> f[i]])
  <2> TAKE m \in 0 .. N
  <2>1. [i \in 1 .. m |-> f[i]] =
          [i \in 1 .. m |-> IF talk[i].bytes # <<>> THEN <<talk[i]>> ELSE <<>>]
    OBVIOUS
  <2> QED BY <2>1, Zenon DEF Told
<1>4. \A m \in 1 .. N : f[m] = IF talk[m].bytes # <<>> THEN <<talk[m]>> ELSE <<>>
  OBVIOUS
<1> HIDE DEF f, N
<1>5. P(0)
  <2>1. [i \in 1 .. 0 |-> f[i]] = <<>> /\ 0 \in 0 .. N
    BY <1>1
  <2>2. Told(talk, 0) = <<>>
    BY <1>3, <2>1, FlattenNone
  <2> DEFINE told == <<>>
             t == <<>>
  <2>3. told \in Seq(PlannedTurn) /\ Len(told) = 0 /\ 1 .. 0 = {} /\ t \in [1 .. 0 -> 1 .. 0]
    OBVIOUS
  <2>4. \A side \in Side : SentBy(talk, side, 0) = SentBy(told, side, 0)
    BY SentNone
  <2> HIDE DEF told, t
  <2>5. Tells(t, told, talk, 0)
    BY <2>3, <2>4 DEF Tells
  <2> QED BY <2>2, <2>5 DEF told
<1>6. 0 \in S
  <2> HIDE DEF P
  <2> QED BY <1>5
<1>7. ASSUME NEW m \in S PROVE m + 1 \in S
  <2> HIDE DEF P
  <2> SUFFICES ASSUME m + 1 <= N PROVE P(m + 1)
    OBVIOUS
  <2>0. m \in Nat /\ (m <= N => P(m))
    OBVIOUS
  <2> HIDE DEF S
  <2>1. m <= N /\ m + 1 \in 1 .. N /\ m \in 0 .. N /\ m + 1 \in 0 .. N
    BY <1>1, <2>0
  <2>2. PICK t : Tells(t, Told(talk, m), talk, m)
    BY <2>0, <2>1 DEF P
  <2>3. Told(talk, m + 1) = Told(talk, m) \o f[m + 1]
    <3> DEFINE X == PlannedTurn
    <3>1. N \in Nat /\ f \in [1 .. N -> Seq(X)] /\ m \in Nat /\ m + 1 <= N
      BY <1>1, <1>2, <2>0
    <3> HIDE DEF X
    <3>2. /\ FlattenSeq([i \in 1 .. m |-> f[i]]) \in Seq(X) /\ f[m + 1] \in Seq(X)
          /\ FlattenSeq([i \in 1 .. m + 1 |-> f[i]]) = FlattenSeq([i \in 1 .. m |-> f[i]]) \o f[m + 1]
      BY <3>1, FlattenFirst
    <3> QED BY <1>3, <2>1, <3>2
  <2> DEFINE told == Told(talk, m)
  <2>4. told \in Seq(PlannedTurn)
    BY <2>2 DEF Tells
  <2>5. m + 1 <= Len(talk)
    BY DEF N
  <2> HIDE DEF told
  <2>6. CASE talk[m + 1].bytes = <<>>
    <3>1. f[m + 1] = <<>>
      BY <1>4, <2>1, <2>6
    <3>2. told \o <<>> = told
      BY <2>4, ConcatEmptySeq
    <3>3. Told(talk, m + 1) = told
      BY <2>3, <3>1, <3>2 DEF told
    <3>4. Tells(t, told, talk, m + 1)
      BY <2>0, <2>2, <2>5, <2>6, NothingTold DEF told
    <3> QED BY <3>3, <3>4 DEF P
  <2>7. CASE talk[m + 1].bytes # <<>>
    <3>1. f[m + 1] = <<talk[m + 1]>>
      BY <1>4, <2>1, <2>7
    <3>2. Told(talk, m + 1) = told \o <<talk[m + 1]>>
      BY <2>3, <3>1 DEF told
    <3>3. \E u : Tells(u, told \o <<talk[m + 1]>>, talk, m + 1)
      BY <2>0, <2>2, <2>5, <2>7, MoreTold DEF told
    <3> QED BY <3>2, <3>3 DEF P
  <2> QED BY <2>6, <2>7
<1>8. S = Nat
  <2>1. S \subseteq Nat
    OBVIOUS
  <2> HIDE DEF S
  <2> QED BY <1>6, <1>7, <2>1, InductionOn
<1>9. P(n)
  <2>1. n \in S /\ n <= N
    BY <1>1, <1>8 DEF N
  <2> HIDE DEF P
  <2> QED BY <2>1
<1> QED BY <1>9

-----------------------------------------------------------------------------
(* Turns of the conversation                                                  *)

(* Between packets of either side, someone else begins to talk.               *)
LEMMA DirectionChanges ==
  ASSUME NEW talk, NEW p \in Nat, NEW q \in Nat, p < q, talk[p].from # talk[q].from
  PROVE  \E c \in Nat : p <= c /\ c < q /\ talk[c].from # talk[c + 1].from
<1> DEFINE D == {d \in Nat : p < d /\ d <= q /\ talk[d].from # talk[p].from}
<1>1. D \subseteq Nat /\ D # {}
  <2>1. q \in D
    OBVIOUS
  <2> QED BY <2>1
<1> HIDE DEF D
<1>2. PICK d \in D : \A x \in D : d <= x
  BY <1>1, LeastOf
<1>3. d \in Nat /\ p < d /\ d <= q /\ talk[d].from # talk[p].from
  BY <1>2 DEF D
<1> DEFINE c == d - 1
<1>4. c \in Nat /\ p <= c /\ c < q /\ c + 1 = d /\ c <= q /\ ~(d <= c)
  BY <1>3
<1>5. c \notin D
  BY <1>2, <1>4
<1> HIDE DEF c
<1>6. talk[c].from = talk[p].from
  BY <1>4, <1>5 DEF D
<1> QED BY <1>3, <1>4, <1>6

(* Then the turn of the later one is a later one.                             *)
LEMMA LaterTurn ==
  ASSUME NEW f, NEW p \in Nat, NEW q \in Nat, 1 <= p, NEW c \in Nat, p <= c, c < q,
         Talk(f)[c].from # Talk(f)[c + 1].from
  PROVE  TurnOf(f, p) < TurnOf(f, q)
<1> DEFINE T(i) == {j \in 1 .. i - 1 : j = 1 \/ Talk(f)[j].from # Talk(f)[j + 1].from}
<1>1. /\ T(p) \subseteq T(q) /\ c \in T(q) /\ c \notin T(p) /\ T(q) \subseteq 1 .. q - 1
  OBVIOUS
<1>2. TurnOf(f, p) = Cardinality(T(p)) /\ TurnOf(f, q) = Cardinality(T(q))
  BY DEF TurnOf
<1>3. TurnOf(f, p) \in Nat /\ TurnOf(f, q) \in Nat
  BY TurnOfIsNat
<1> HIDE DEF T
<1>4. IsFiniteSet(T(q))
  <2>1. IsFiniteSet(1 .. q - 1)
    BY FS_Interval
  <2> QED BY <1>1, <2>1, FS_Subset
<1>5. /\ Cardinality(T(p)) <= Cardinality(T(q))
      /\ Cardinality(T(q)) = Cardinality(T(p)) => T(q) = T(p)
  BY <1>1, <1>4, FS_Subset
<1>6. T(q) # T(p)
  BY <1>1
<1> QED BY <1>2, <1>3, <1>5, <1>6

(* What was told in different groups is of different turns.                   *)
LEMMA GroupsAreTurns ==
  ASSUME NEW f, NEW n \in Nat, NEW t, NEW told, Tells(t, told, Talk(f), n), NEW M \in Nat,
         NEW g, NEW h, Ranks(g, h, told, M), NEW a \in 1 .. Len(told), NEW b \in 1 .. Len(told),
         g[a] < g[b]
  PROVE  TurnOf(f, t[a]) < TurnOf(f, t[b])
<1> DEFINE N == Len(told)
           D == {d \in Nat : a < d /\ d <= b /\ g[d] # g[a]}
<1>1. /\ told \in Seq(PlannedTurn) /\ N \in Nat /\ t \in [1 .. N -> 1 .. n]
      /\ \A m \in 1 .. N : told[m] = Talk(f)[t[m]]
      /\ \A x, y \in 1 .. N : x < y => t[x] < t[y]
  BY DEF Tells
<1>2. /\ \A i \in 1 .. N : g[i] \in 1 .. M
      /\ \A i \in 1 .. N : i + 1 <= N => (told[i].from = told[i + 1].from => g[i + 1] = g[i])
  BY <1>1, RanksAre
<1>3. \A i, j \in 1 .. N : i <= j => g[i] <= g[j]
  BY DEF Ranks
<1> HIDE DEF N
<1>4. a \in 1 .. N /\ b \in 1 .. N /\ g[a] \in Nat /\ g[b] \in Nat /\ g[a] # g[b]
  <2>1. a \in 1 .. N /\ b \in 1 .. N
    BY DEF N
  <2>2. g[a] \in 1 .. M /\ g[b] \in 1 .. M
    BY <1>2, <2>1
  <2> QED BY <2>1, <2>2
<1>5. a < b
  <2> SUFFICES ASSUME ~(a < b) PROVE FALSE
    OBVIOUS
  <2>1. b <= a
    BY <1>1, <1>4
  <2>2. g[b] <= g[a]
    BY <1>3, <1>4, <2>1
  <2> QED BY <1>4, <2>2
<1>6. b \in D
  BY <1>1, <1>4, <1>5
<1>7. D \subseteq Nat /\ D # {}
  BY <1>6
<1> HIDE DEF D
<1>8. PICK d \in D : \A x \in D : d <= x
  BY <1>7, LeastOf
<1>9. d \in Nat /\ a < d /\ d <= b /\ g[d] # g[a]
  BY <1>8 DEF D
<1> DEFINE m == d - 1
<1>10. /\ m \in Nat /\ m \in 1 .. N /\ a <= m /\ m + 1 = d /\ m + 1 <= N /\ d \in 1 .. N
       /\ m <= b /\ ~(d <= m) /\ m < d
  BY <1>1, <1>4, <1>9
<1> HIDE DEF m
<1>11. g[m] = g[a]
  <2>1. m \notin D
    BY <1>8, <1>10
  <2>2. m = a \/ a < m
    BY <1>1, <1>4, <1>10
  <2> QED BY <1>10, <2>1, <2>2 DEF D
<1>12. told[m].from # told[d].from
  BY <1>2, <1>9, <1>10, <1>11
<1>13. /\ t[m] \in Nat /\ t[d] \in Nat /\ t[m] < t[d] /\ t[a] \in Nat /\ t[b] \in Nat /\ 1 <= t[a]
       /\ t[a] <= t[m] /\ t[d] <= t[b]
  <2>1. \A x \in 1 .. N : t[x] \in 1 .. n
    BY <1>1
  <2>2. t[m] \in 1 .. n /\ t[d] \in 1 .. n /\ t[a] \in 1 .. n /\ t[b] \in 1 .. n /\ t[m] < t[d]
    BY <1>1, <1>4, <1>10, <2>1
  <2>3. t[a] <= t[m]
    <3>1. a = m \/ a < m
      BY <1>1, <1>4, <1>10
    <3>2. a < m => t[a] < t[m]
      BY <1>1, <1>4, <1>10
    <3> QED BY <2>2, <3>1, <3>2
  <2>4. t[d] <= t[b]
    <3>1. d = b \/ d < b
      BY <1>1, <1>4, <1>9
    <3>2. d < b => t[d] < t[b]
      BY <1>1, <1>4, <1>10
    <3> QED BY <2>2, <3>1, <3>2
  <2> QED BY <2>2, <2>3, <2>4
<1>14. Talk(f)[t[m]].from # Talk(f)[t[d]].from
  BY <1>1, <1>10, <1>12
<1>15. PICK c \in Nat : t[m] <= c /\ c < t[d] /\ Talk(f)[c].from # Talk(f)[c + 1].from
  BY <1>13, <1>14, DirectionChanges
<1>16. t[a] <= c /\ c < t[b]
  BY <1>13, <1>15
<1> QED BY <1>13, <1>15, <1>16, LaterTurn

(* An event that a packet tells has a place among what was told, and the turn  *)
(* of that place.                                                             *)
HasPlace(e, told, t, f, a, b, g, isn) ==
  PlacedAt(e, told, e.from, a, b, isn) /\ g[b] = g[a] /\ e.turn = TurnOf(f, t[a])

LEMMA EventHasPlace ==
  ASSUME NEW f, NEW n \in Nat, n <= Len(Talk(f)), Talk(f) \in Seq(Packet), NEW t, NEW told,
         Tells(t, told, Talk(f), n), NEW M \in Nat, NEW g, NEW h, Ranks(g, h, told, M),
         NEW entry, entry.flow = f, entry.client = "client", NEW e \in Event, OfPacket(e, entry, n)
  PROVE  \E a, b \in 1 .. Len(told) : HasPlace(e, told, t, f, a, b, g, capture.flows[f].isn)
<1> DEFINE N == Len(told)
           talk == Talk(f)
           side == e.from
           isn == capture.flows[f].isn
           P(m) == Upto(told, side, m)
<1>1. /\ told \in Seq(PlannedTurn) /\ N \in Nat /\ t \in [1 .. N -> 1 .. n]
      /\ \A m \in 1 .. N : told[m] = talk[t[m]]
      /\ \A x, y \in 1 .. N : x < y => t[x] < t[y]
      /\ \A p \in 1 .. n : talk[p].bytes # <<>> => \E m \in 1 .. N : t[m] = p
      /\ \A s \in Side : \A m \in 1 .. N : SentBy(talk, s, t[m] - 1) = SentBy(told, s, m - 1)
  BY DEF Tells
<1>2. side \in Side /\ Sender(entry, side) = side /\ e.bytes # <<>>
  BY EventIs DEF Sender
<1>3. PICK p \in 1 .. n :
        /\ talk[p].from = side /\ talk[p].bytes # <<>>
        /\ e.number = SequenceNumber(f, p) /\ e.turn = TurnOf(f, p)
        /\ \/ e.bytes = talk[p].bytes
           \/ /\ p + 1 <= n /\ talk[p + 1].from = side
              /\ e.bytes = talk[p].bytes \o talk[p + 1].bytes
  BY <1>2 DEF OfPacket
<1>4. PICK a \in 1 .. N : t[a] = p
  BY <1>1, <1>3
<1>5. told[a].from = side /\ told[a].bytes = talk[p].bytes
  BY <1>1, <1>3, <1>4
<1>6. e.number = (isn[side] + P(a - 1)) % 2 ^ SeqBits
  <2>1. e.number = (isn[side] + Len(SentBy(talk, side, p - 1))) % 2 ^ SeqBits
    BY <1>3 DEF SequenceNumber
  <2>2. SentBy(talk, side, p - 1) = SentBy(told, side, a - 1)
    BY <1>1, <1>2, <1>4
  <2> QED BY <2>1, <2>2 DEF Upto
<1>7. ASSUME NEW m \in 1 .. N, told[m].from = side
      PROVE  P(m) = P(m - 1) + Len(told[m].bytes) /\ P(m - 1) \in Nat /\ Len(told[m].bytes) \in Nat
  <2> DEFINE s == SentBy(told, side, m - 1)
             b == told[m].bytes
  <2>1. SentBy(told, side, m) = s \o b /\ s \in Seq(Letter)
    BY <1>1, <1>2, <1>7, WritesOn
  <2>2. b \in Seq(Letter)
    BY <1>1, <1>7, TurnIsPacket
  <2> HIDE DEF s, b
  <2>3. Len(s \o b) = Len(s) + Len(b) /\ Len(s) \in Nat /\ Len(b) \in Nat
    BY <2>1, <2>2, JoinedBytes
  <2> QED BY <2>1, <2>3 DEF Upto, s, b
<1> HIDE DEF N, P, talk, side, isn
<1>8. ASSUME e.bytes = talk[p].bytes PROVE HasPlace(e, told, t, f, a, a, g, isn)
  <2>1. P(a - 1) + Len(e.bytes) = P(a)
    BY <1>5, <1>7, <1>8
  <2> QED BY <1>3, <1>4, <1>5, <1>6, <2>1 DEF HasPlace, PlacedAt, P, side
<1>9. ASSUME p + 1 <= n, talk[p + 1].from = side, e.bytes = talk[p].bytes \o talk[p + 1].bytes,
             talk[p + 1].bytes # <<>>
      PROVE  \E b \in 1 .. N : HasPlace(e, told, t, f, a, b, g, isn)
  <2>1. p + 1 \in 1 .. n
    BY <1>9
  <2>2. PICK b \in 1 .. N : t[b] = p + 1
    BY <1>1, <1>9, <2>1
  <2>3. \A x \in 1 .. N : t[x] \in 1 .. n
    BY <1>1
  <2>4. b = a + 1 /\ a + 1 <= N
    <3>1. a < b
      <4> SUFFICES ASSUME ~(a < b) PROVE FALSE
        OBVIOUS
      <4>1. b = a \/ b < a
        BY <1>1
      <4>2. b < a => t[b] < t[a]
        BY <1>1
      <4> QED BY <1>4, <2>2, <4>1, <4>2
    <3>2. ~(a + 1 < b)
      <4> SUFFICES ASSUME a + 1 < b PROVE FALSE
        OBVIOUS
      <4> DEFINE x == a + 1
      <4>1. x \in 1 .. N /\ a < x /\ x < b
        BY <1>1
      <4> HIDE DEF x
      <4>2. t[x] \in 1 .. n /\ t[a] < t[x] /\ t[x] < t[b]
        BY <1>1, <2>3, <4>1
      <4> QED BY <1>4, <2>2, <4>2
    <3> QED BY <1>1, <3>1, <3>2
  <2>5. told[b].from = side /\ told[b].bytes = talk[p + 1].bytes
    BY <1>1, <1>9, <2>2
  <2>6. g[b] = g[a]
    <3>1. \A i \in 1 .. Len(told) : i + 1 <= Len(told) =>
            (told[i].from = told[i + 1].from => g[i + 1] = g[i])
      BY <1>1, RanksAre
    <3> QED BY <1>5, <2>4, <2>5, <3>1 DEF N
  <2>7. P(a - 1) + Len(e.bytes) = P(b)
    <3> DEFINE x == told[a].bytes
               y == told[b].bytes
    <3>1. x \in Seq(Letter) /\ y \in Seq(Letter)
      BY <1>1, TurnIsPacket DEF N
    <3>2. /\ P(a) = P(a - 1) + Len(x) /\ P(a - 1) \in Nat
      BY <1>5, <1>7
    <3>3. P(b) = P(b - 1) + Len(y)
      BY <1>7, <2>5
    <3>4. b - 1 = a
      BY <1>1, <2>4
    <3>5. e.bytes = x \o y
      BY <1>5, <1>9, <2>5
    <3> HIDE DEF x, y
    <3>6. Len(x \o y) = Len(x) + Len(y) /\ Len(x) \in Nat /\ Len(y) \in Nat
      BY <3>1, JoinedBytes
    <3>7. P(b) = P(a) + Len(y)
      BY <3>3, <3>4
    <3> QED BY <3>2, <3>5, <3>6, <3>7
  <2> QED BY <1>3, <1>4, <1>5, <1>6, <2>6, <2>7 DEF HasPlace, PlacedAt, P, side
<1>10. ASSUME e.bytes = talk[p].bytes \o talk[p + 1].bytes, talk[p + 1].bytes = <<>>
       PROVE  e.bytes = talk[p].bytes
  <2> DEFINE x == talk[p].bytes
  <2>1. x \in Seq(Letter)
    <3>1. told[a].bytes \in Seq(Letter)
      BY <1>1, TurnIsPacket DEF N
    <3> QED BY <1>5, <3>1
  <2>2. e.bytes = x \o <<>>
    BY <1>10
  <2> HIDE DEF x
  <2>3. x \o <<>> = x
    BY <2>1, JoinedBytes
  <2> QED BY <2>2, <2>3 DEF x
<1>11. \E b \in 1 .. N : HasPlace(e, told, t, f, a, b, g, isn)
  BY <1>3, <1>8, <1>9, <1>10
<1> QED BY <1>11 DEF N, isn

-----------------------------------------------------------------------------
(* The turns of a kept flow                                                   *)

(* Functions that tell of every event its place.                              *)
LEMMA EventsHavePlaces ==
  ASSUME NEW f, NEW n \in Nat, n <= Len(Talk(f)), Talk(f) \in Seq(Packet), NEW t, NEW told,
         Tells(t, told, Talk(f), n), NEW M \in Nat, NEW g, NEW h, Ranks(g, h, told, M),
         NEW entry, entry.flow = f, entry.client = "client", NEW events \in Seq(Event),
         \A i \in 1 .. Len(events) : OfPacket(events[i], entry, n),
         \A i, j \in 1 .. Len(events) : i < j => events[i].turn <= events[j].turn
  PROVE  \E u, v : /\ Placed(events, told, u, v, g, capture.flows[f].isn)
                   /\ \A i, j \in 1 .. Len(events) : i <= j => g[u[i]] <= g[u[j]]
<1> DEFINE L == Len(events)
           N == Len(told)
           isn == capture.flows[f].isn
           At(i, a, b) == HasPlace(events[i], told, t, f, a, b, g, isn)
           From(i) == CHOOSE a \in 1 .. N : \E b \in 1 .. N : At(i, a, b)
           To(i) == CHOOSE b \in 1 .. N : At(i, From(i), b)
           u == [i \in 1 .. L |-> From(i)]
           v == [i \in 1 .. L |-> To(i)]
<1>1. L \in Nat /\ \A i \in 1 .. L : events[i] \in Event
  OBVIOUS
<1>2. ASSUME NEW i \in 1 .. L PROVE \E a \in 1 .. N : \E b \in 1 .. N : At(i, a, b)
  <2> DEFINE e == events[i]
  <2>1. e \in Event /\ OfPacket(e, entry, n)
    BY <1>1
  <2> HIDE DEF e
  <2>2. \E a, b \in 1 .. Len(told) : HasPlace(e, told, t, f, a, b, g, capture.flows[f].isn)
    BY <2>1, EventHasPlace
  <2> QED BY <2>2 DEF e
<1> HIDE DEF L, N, At
<1>3. ASSUME NEW i \in 1 .. L PROVE From(i) \in 1 .. N /\ \E b \in 1 .. N : At(i, From(i), b)
  BY <1>2
<1> HIDE DEF From
<1>4. ASSUME NEW i \in 1 .. L PROVE To(i) \in 1 .. N /\ At(i, From(i), To(i))
  BY <1>3
<1> HIDE DEF To
<1>5. /\ u \in [1 .. L -> 1 .. N] /\ v \in [1 .. L -> 1 .. N]
      /\ \A i \in 1 .. L : u[i] \in 1 .. N /\ v[i] \in 1 .. N /\ At(i, u[i], v[i])
  BY <1>3, <1>4
<1> HIDE DEF u, v
<1>6. ASSUME NEW i \in 1 .. L
      PROVE  /\ PlacedAt(events[i], told, events[i].from, u[i], v[i], isn) /\ g[v[i]] = g[u[i]]
             /\ events[i].turn = TurnOf(f, t[u[i]])
  BY <1>5 DEF At, HasPlace
<1>7. Placed(events, told, u, v, g, isn)
  BY <1>5, <1>6 DEF Placed, L, N
<1>8. ASSUME NEW i \in 1 .. L, NEW j \in 1 .. L, i <= j PROVE g[u[i]] <= g[u[j]]
  <2>1. CASE i = j
    <3>1. g[u[i]] \in 1 .. M
      BY <1>5 DEF Ranks, N
    <3> QED BY <2>1, <3>1
  <2>2. CASE i # j
    <3> DEFINE a == u[i]
               b == u[j]
    <3>1. a \in 1 .. N /\ b \in 1 .. N
      BY <1>5
    <3>2. events[i].turn <= events[j].turn
      <4>1. i < j
        BY <1>1, <1>8, <2>2
      <4> QED BY <4>1 DEF L
    <3>3. TurnOf(f, t[a]) <= TurnOf(f, t[b])
      BY <1>6, <3>2
    <3>4. t[a] \in Nat /\ t[b] \in Nat
      BY <3>1 DEF Tells, N
    <3>5. TurnOf(f, t[a]) \in Nat /\ TurnOf(f, t[b]) \in Nat
      BY <3>4, TurnOfIsNat
    <3> HIDE DEF a, b
    <3>6. g[a] \in 1 .. M /\ g[b] \in 1 .. M
      BY <3>1 DEF Ranks, N
    <3>7. ~(g[b] < g[a])
      <4> SUFFICES ASSUME g[b] < g[a] PROVE FALSE
        OBVIOUS
      <4>1. TurnOf(f, t[b]) < TurnOf(f, t[a])
        BY <3>1, GroupsAreTurns DEF N
      <4> QED BY <3>3, <3>5, <4>1
    <3>8. g[a] <= g[b]
      BY <3>6, <3>7
    <3> QED BY <3>8 DEF a, b
  <2> QED BY <2>1, <2>2
<1> QED BY <1>7, <1>8 DEF isn, L

(* A flow of which all is kept, and of which no packet was seen after one of a *)
(* later turn, is replayed as it was.                                         *)
LEMMA FlowTurns ==
  ASSUME AnalysisInv, ShortFlows, NEW entry \in EntryAfter(passed), entry.client = "client",
         \A side \in Side :
           LET stream == Stream(entry.events, side)
           IN  stream.out # <<>> /\ ~stream.gap /\ stream.out = Sent(entry, side),
         \A i, j \in 1 .. Len(entry.events) :
           i < j => entry.events[i].turn <= entry.events[j].turn
  PROVE  BuildTurns(entry.events) = Conversation(entry.flow)
<1> DEFINE f == entry.flow
           n == passed[f]
           events == entry.events
           isn == capture.flows[f].isn
           told == Told(Talk(f), n)
<1>1. /\ f \in Flow /\ events \in Seq(Event)
      /\ \A i \in 1 .. Len(events) : SentAs(events[i], entry, passed) /\ OfPacket(events[i], entry, n)
  BY DEF EntryAfter, EntryType
<1>2. /\ Talk(f) \in Seq(Packet) /\ isn \in [Side -> Nat] /\ n \in 0 .. Len(Talk(f))
      /\ n \in Nat /\ n <= Len(Talk(f))
  <2>1. Talk(f) \in Seq(Packet) /\ isn \in [Side -> Nat] /\ n \in 0 .. Len(Talk(f)) /\ Len(Talk(f)) \in Nat
    BY <1>1, FlowsAre
  <2> HIDE DEF n
  <2> QED BY <2>1
<1>3. PICK t : Tells(t, told, Talk(f), n)
  BY <1>2, ToldIs
<1> HIDE DEF told
<1>4. /\ told \in Seq(PlannedTurn)
      /\ \A side \in Side : SentBy(Talk(f), side, n) = SentBy(told, side, Len(told))
  BY <1>3 DEF Tells
<1>5. PICK M \in Nat : \E g, h : Ranks(g, h, told, M)
  <2>1. \A i \in 1 .. Len(told) : told[i].from \in Side
    BY <1>4, TurnIsPacket
  <2> QED BY <1>4, <2>1, RankExists
<1>6. PICK g, h : Ranks(g, h, told, M)
  BY <1>5
<1>7. \A side \in Side : AllOf(side, events, told, isn)
  <2> TAKE side \in Side
  <2> DEFINE whole == SentBy(told, side, Len(told))
  <2>1. \A s : Sender(entry, s) = s
    BY DEF Sender
  <2>2. Sent(entry, side) = whole
    BY <1>4, <2>1 DEF Sent
  <2>3. Len(whole) < 2 ^ SeqBits
    <3>1. entry.flow \in Flow /\ entry.client \in Side
      BY <1>1 DEF Side
    <3>2. Len(Sent(entry, side)) < 2 ^ SeqBits
      BY <3>1, SentIs
    <3> QED BY <2>2, <3>2
  <2>4. ASSUME NEW i \in 1 .. Len(events), events[i].from = side
        PROVE  Numbered(events[i], whole, isn[side])
    <3>1. SentAs(events[i], entry, passed)
      BY <1>1
    <3>2. Numbered(events[i], SentBy(Talk(f), side, n), isn[side])
      BY <2>1, <2>4, <3>1 DEF SentAs
    <3> QED BY <1>4, <3>2
  <2>5. whole # <<>> /\ Stream(events, side).out = whole /\ ~Stream(events, side).gap
    BY <2>2
  <2> QED BY <2>3, <2>4, <2>5 DEF AllOf
<1>8. PICK u, v : /\ Placed(events, told, u, v, g, isn)
                  /\ \A i, j \in 1 .. Len(events) : i <= j => g[u[i]] <= g[u[j]]
  <2>1. \A i, j \in 1 .. Len(events) : i < j => events[i].turn <= events[j].turn
    OBVIOUS
  <2>2. entry.flow = f /\ entry.client = "client"
    OBVIOUS
  <2> HIDE DEF f, n, events
  <2>3. \E u, v : /\ Placed(events, told, u, v, g, capture.flows[f].isn)
                  /\ \A i, j \in 1 .. Len(events) : i <= j => g[u[i]] <= g[u[j]]
    BY <1>1, <1>2, <1>3, <1>6, <2>1, <2>2, EventsHavePlaces
  <2> QED BY <2>3
<1>9. LET turns == Groups(told)
      IN  BuildTurns(events) =
            [m \in DOMAIN turns |-> [from |-> turns[m][1].from, bytes |-> BytesOf(turns[m])]]
  <2> HIDE DEF f, n, events, isn
  <2> QED BY <1>1, <1>2, <1>4, <1>6, <1>7, <1>8, TurnsAsTold
<1>10. Conversation(f) =
         LET turns == Groups(told)
         IN  [m \in DOMAIN turns |-> [from |-> turns[m][1].from, bytes |-> BytesOf(turns[m])]]
  BY DEF Conversation, told, Told, BytesOf
<1> QED BY <1>9, <1>10

(* Every flow that is kept is what the analysis makes of an entry of the table. *)
LEMMA KeptIsOfEntry ==
  ASSUME AnalysisInv, phase = "analysed", NEW n \in DOMAIN kept
  PROVE  \E m \in DOMAIN table :
           /\ table[m] \in EntryAfter(passed)
           /\ Keeps(Stream(table[m].events, "client"), Stream(table[m].events, "server"))
           /\ kept[n].flow = table[m].flow /\ kept[n].client = table[m].client
           /\ kept[n].up = Stream(table[m].events, "client").out
           /\ kept[n].down = Stream(table[m].events, "server").out
           /\ kept[n].turns = BuildTurns(table[m].events)
<1> DEFINE N == Len(table)
           up(m) == Stream(table[m].events, "client")
           down(m) == Stream(table[m].events, "server")
           rec(m) == [flow |-> table[m].flow, client |-> table[m].client, up |-> up(m).out,
                      down |-> down(m).out, turns |-> BuildTurns(table[m].events)]
           F == [m \in 1 .. N |-> IF Keeps(up(m), down(m)) THEN <<rec(m)>> ELSE <<>>]
           X == {rec(m) : m \in {x \in 1 .. N : Keeps(up(x), down(x))}}
<1>1. /\ table \in Seq(EntryAfter(passed)) /\ kept = FinishAnalysis
      /\ N \in Nat /\ DOMAIN table = 1 .. N
  <2>1. table \in Seq(EntryAfter(passed)) /\ kept = FinishAnalysis
    BY DEF AnalysisInv
  <2> DEFINE Y == EntryAfter(passed)
  <2> HIDE DEF Y
  <2>2. table \in Seq(Y)
    BY <2>1 DEF Y
  <2>3. N \in Nat /\ DOMAIN table = 1 .. N
    BY <2>2
  <2> QED BY <2>1, <2>3
<1>2. kept = FlattenSeq(F)
  BY <1>1 DEF FinishAnalysis
<1> HIDE DEF N
<1>3. F \in [1 .. N -> Seq(X)]
  <2>1. \A m \in 1 .. N : Keeps(up(m), down(m)) => rec(m) \in X
    OBVIOUS
  <2> HIDE DEF X, rec, up, down
  <2> QED BY <2>1
<1> HIDE DEF F, X
<1>4. kept \in Seq(X)
  BY <1>1, <1>2, <1>3, FlattenFunction
<1>5. kept[n] \in X
  BY <1>4
<1>6. PICK m \in 1 .. N : Keeps(up(m), down(m)) /\ kept[n] = rec(m)
  BY <1>5 DEF X
<1>7. table[m] \in EntryAfter(passed)
  <2> DEFINE Y == EntryAfter(passed)
  <2>1. table \in Seq(Y)
    BY <1>1
  <2> HIDE DEF Y
  <2>2. table[m] \in Y
    BY <1>1, <2>1
  <2> QED BY <2>2 DEF Y
<1>8. /\ kept[n].flow = table[m].flow /\ kept[n].client = table[m].client
      /\ kept[n].up = up(m).out /\ kept[n].down = down(m).out
      /\ kept[n].turns = BuildTurns(table[m].events)
  <2> HIDE DEF up, down
  <2> QED BY <1>6
<1> QED BY <1>1, <1>6, <1>7, <1>8

(* If all that either side of a flow sent is kept, and the capture saw no      *)
(* packet after one of a later turn, the turns to replay (build_turns) are     *)
(* those of the conversation, byte for byte: packets that were seen out of     *)
(* order, again, or two in one within a turn change nothing, as long as no     *)
(* side sends so many bytes that a sequence number comes again.               *)
THEOREM ReplaysTheConversation ==
  ASSUME ShortFlows
  PROVE  Spec => []TurnsAreTheConversation
<1>1. AnalysisInv => TurnsAreTheConversation
  <2> SUFFICES ASSUME AnalysisInv, phase = "analysed", NEW n \in DOMAIN kept,
                      kept[n].client = "client", kept[n].up = Sent(kept[n], "client"),
                      kept[n].down = Sent(kept[n], "server"), InTurn(kept[n].flow)
               PROVE  kept[n].turns = Conversation(kept[n].flow)
    BY DEF TurnsAreTheConversation
  <2>1. PICK m \in DOMAIN table :
          /\ table[m] \in EntryAfter(passed)
          /\ Keeps(Stream(table[m].events, "client"), Stream(table[m].events, "server"))
          /\ kept[n].flow = table[m].flow /\ kept[n].client = table[m].client
          /\ kept[n].up = Stream(table[m].events, "client").out
          /\ kept[n].down = Stream(table[m].events, "server").out
          /\ kept[n].turns = BuildTurns(table[m].events)
    BY KeptIsOfEntry
  <2> DEFINE entry == table[m]
  <2>2. \A side \in Side : Sent(kept[n], side) = Sent(entry, side)
    BY <2>1 DEF Sent, Sender
  <2>3. \A side \in Side :
          LET stream == Stream(entry.events, side)
          IN  stream.out # <<>> /\ ~stream.gap /\ stream.out = Sent(entry, side)
    BY <2>1, <2>2 DEF Keeps, Side
  <2>4. \A i, j \in 1 .. Len(entry.events) :
          i < j => entry.events[i].turn <= entry.events[j].turn
    <3>1. entry.events \in Seq(Event)
      BY <2>1 DEF EntryAfter, EntryType
    <3>2. DOMAIN entry.events = 1 .. Len(entry.events)
      BY <3>1
    <3> QED BY <2>1, <3>2 DEF InTurn
  <2> HIDE DEF entry
  <2>5. BuildTurns(entry.events) = Conversation(entry.flow)
    <3>1. entry \in EntryAfter(passed) /\ entry.client = "client"
      BY <2>1 DEF entry
    <3> QED BY <2>3, <2>4, <3>1, FlowTurns
  <2> QED BY <2>1, <2>5 DEF entry
<1>2. Spec => [](ReplayInv /\ AnalysisInv)
  BY ReplayInvariant
<1> QED BY <1>1, <1>2, PTL
=============================================================================
