----------------------------- MODULE SeqLemmas -----------------------------
(***************************************************************************)
(* Facts that the proofs about the queues and lists of mocf share: what is *)
(* left of a sequence when elements are taken off the front or put at the  *)
(* end, how many there are of a kind, and induction over the natural       *)
(* numbers with what follows from it about recursive definitions.          *)
(***************************************************************************)
EXTENDS Sequences, Integers, SequenceTheorems, FiniteSetTheorems, TLAPS

(* The first n elements of a sequence, which ReaderTakes and put() cut off. *)
LEMMA PrefixType ==
    ASSUME NEW S, NEW s \in Seq(S), NEW n \in 0..Len(s)
    PROVE  SubSeq(s, 1, n) \in Seq(S) /\ Len(SubSeq(s, 1, n)) = n
  OBVIOUS

(* The elements after the first n. *)
LEMMA SuffixType ==
    ASSUME NEW S, NEW s \in Seq(S), NEW n \in 0..Len(s)
    PROVE  SubSeq(s, n + 1, Len(s)) \in Seq(S) /\ Len(SubSeq(s, n + 1, Len(s))) = Len(s) - n
  OBVIOUS

LEMMA SuffixElements ==
    ASSUME NEW S, NEW s \in Seq(S), NEW n \in 0..Len(s)
    PROVE  \A i \in 1..(Len(s) - n) : SubSeq(s, n + 1, Len(s))[i] = s[n + i]
  OBVIOUS

(* An element of a sequence is an element of its set. *)
LEMMA ElementType ==
    ASSUME NEW S, NEW s \in Seq(S), NEW i \in 1..Len(s)
    PROVE  s[i] \in S
  OBVIOUS

(* Length and type of a concatenation. *)
LEMMA ConcatType ==
    ASSUME NEW S, NEW s \in Seq(S), NEW t \in Seq(S)
    PROVE  s \o t \in Seq(S) /\ Len(s \o t) = Len(s) + Len(t)
  OBVIOUS

(* The empty sequence, as a start value and as the result of a clear(). *)
LEMMA EmptyType == ASSUME NEW S PROVE <<>> \in Seq(S) /\ Len(<<>>) = 0
  OBVIOUS

(* A sequence of length 0 is the empty one. *)
LEMMA EmptyByLength ==
    ASSUME NEW S, NEW s \in Seq(S), Len(s) = 0
    PROVE  s = <<>>
  OBVIOUS

(* A sequence cut in two and put together again. *)
LEMMA SplitSeq ==
    ASSUME NEW S, NEW s \in Seq(S), NEW n \in 0..Len(s)
    PROVE  SubSeq(s, 1, n) \o SubSeq(s, n + 1, Len(s)) = s
<1> DEFINE a == SubSeq(s, 1, n)
           b == SubSeq(s, n + 1, Len(s))
<1>1. a \in Seq(S) /\ Len(a) = n /\ \A i \in 1..n : a[i] = s[i]
  OBVIOUS
<1>2. b \in Seq(S) /\ Len(b) = Len(s) - n /\ \A i \in 1..(Len(s) - n) : b[i] = s[n + i]
  OBVIOUS
<1> HIDE DEF a, b
<1>3. a \o b \in Seq(S) /\ Len(a \o b) = Len(s)
  <2>1. a \in Seq(S) /\ b \in Seq(S) /\ Len(a) + Len(b) = Len(s)
    BY <1>1, <1>2
  <2> QED
    BY <2>1, ConcatProperties
<1>4. ASSUME NEW i \in 1..Len(s) PROVE (a \o b)[i] = s[i]
  <2>1. (a \o b)[i] = IF i <= Len(a) THEN a[i] ELSE b[i - Len(a)]
    BY <1>1, <1>2, ConcatProperties
  <2> QED
    BY <1>1, <1>2, <2>1
<1>5. a \o b = s
  BY <1>3, <1>4, SeqEqual
<1> QED
  BY <1>5 DEF a, b

(* What comes off the front of a concatenation comes off its first part.   *)
LEMMA DropFromConcat ==
    ASSUME NEW S, NEW s \in Seq(S), NEW t \in Seq(S), NEW n \in 0..Len(s)
    PROVE  SubSeq(s \o t, n + 1, Len(s \o t)) = SubSeq(s, n + 1, Len(s)) \o t
<1> DEFINE all  == s \o t
           rest == SubSeq(all, n + 1, Len(all))
           back == SubSeq(s, n + 1, Len(s))
<1>1. all \in Seq(S) /\ Len(all) = Len(s) + Len(t)
      /\ \A i \in 1..(Len(s) + Len(t)) :
           all[i] = IF i <= Len(s) THEN s[i] ELSE t[i - Len(s)]
  BY ConcatProperties
<1> HIDE DEF all
<1>2. rest \in Seq(S) /\ Len(rest) = Len(s) + Len(t) - n
      /\ \A i \in 1..(Len(s) + Len(t) - n) : rest[i] = all[n + i]
  <2>1. all \in Seq(S) /\ n \in 0..Len(all) /\ Len(all) = Len(s) + Len(t)
    BY <1>1
  <2> QED
    BY <2>1, SuffixType, SuffixElements
<1>3. back \in Seq(S) /\ Len(back) = Len(s) - n
      /\ \A i \in 1..(Len(s) - n) : back[i] = s[n + i]
  OBVIOUS
<1> HIDE DEF rest, back
<1>4. back \o t \in Seq(S) /\ Len(back \o t) = Len(rest)
      /\ \A i \in 1..Len(rest) :
           (back \o t)[i] = IF i <= Len(s) - n THEN back[i] ELSE t[i - (Len(s) - n)]
  <2>1. back \in Seq(S) /\ Len(back) = Len(s) - n /\ Len(back) + Len(t) = Len(rest)
    BY <1>2, <1>3
  <2> QED
    BY <2>1, ConcatProperties
<1>5. ASSUME NEW i \in 1..Len(rest) PROVE rest[i] = (back \o t)[i]
  <2>1. n + i \in 1..(Len(s) + Len(t)) /\ rest[i] = all[n + i]
    BY <1>2
  <2>2. rest[i] = IF n + i <= Len(s) THEN s[n + i] ELSE t[n + i - Len(s)]
    BY <2>1, <1>1
  <2>3. (back \o t)[i] = IF i <= Len(s) - n THEN back[i] ELSE t[i - (Len(s) - n)]
    BY <1>4
  <2>4. CASE i <= Len(s) - n
    BY <2>2, <2>3, <2>4, <1>3
  <2>5. CASE ~(i <= Len(s) - n)
    <3>1. n + i - Len(s) = i - (Len(s) - n)
      BY <1>2
    <3> QED
      BY <2>2, <2>3, <2>5, <3>1, <1>2
  <2> QED
    BY <2>4, <2>5
<1>6. rest = back \o t
  BY <1>2, <1>4, <1>5, SeqEqual
<1> QED
  BY <1>6 DEF rest, back, all

(* Taking elements off twice. *)
LEMMA DropTwice ==
    ASSUME NEW S, NEW s \in Seq(S), NEW m \in 0..Len(s), NEW n \in 0..(Len(s) - m)
    PROVE  LET r == SubSeq(s, m + 1, Len(s))
           IN  SubSeq(r, n + 1, Len(r)) = SubSeq(s, m + n + 1, Len(s))
  OBVIOUS

(* Concatenation is associative. *)
LEMMA ConcatAssoc ==
    ASSUME NEW S, NEW s \in Seq(S), NEW t \in Seq(S), NEW u \in Seq(S)
    PROVE  s \o (t \o u) = (s \o t) \o u
  OBVIOUS

(* Appending an element, and putting the head back, as concatenations.     *)
LEMMA AppendAsConcat ==
    ASSUME NEW S, NEW s \in Seq(S), NEW e \in S
    PROVE  Append(s, e) = s \o <<e>> /\ <<e>> \in Seq(S) /\ Append(s, e) \in Seq(S)
  OBVIOUS

(* A sequence that is not empty is its head and its tail. *)
LEMMA HeadThenTail ==
    ASSUME NEW S, NEW s \in Seq(S), s # <<>>
    PROVE  /\ Head(s) \in S
           /\ Tail(s) \in Seq(S)
           /\ <<Head(s)>> \o Tail(s) = s
  OBVIOUS

-----------------------------------------------------------------------------
(* Induction over the natural numbers, for sets: were m missing, adding one *)
(* would map the members of T up to m into those of them that are not 0.   *)
LEMMA SetInduction ==
    ASSUME NEW T, 0 \in T, \A n \in Nat : n \in T => n + 1 \in T
    PROVE  Nat \subseteq T
<1> SUFFICES ASSUME NEW m \in Nat, m \notin T PROVE FALSE
  OBVIOUS
<1> DEFINE A == {k \in 0..m : k \in T}
           up == [k \in A |-> k + 1]
<1>1. IsFiniteSet(A) /\ Cardinality(A) \in Nat
  <2>1. m \in Int /\ 0 \in Int
    OBVIOUS
  <2>2. IsFiniteSet(0..m)
    BY <2>1, FS_Interval
  <2>3. A \in SUBSET (0..m)
    OBVIOUS
  <2> HIDE DEF A
  <2> QED
    BY <2>2, <2>3, FS_Subset, FS_CardinalityType
<1>2. IsFiniteSet(A \ {0}) /\ Cardinality(A \ {0}) = Cardinality(A) - 1
  <2>1. 0 \in A
    OBVIOUS
  <2> HIDE DEF A
  <2> QED
    BY <1>1, <2>1, FS_RemoveElement
<1>3. ASSUME NEW k \in A PROVE k + 1 \in A \ {0}
  <2>1. k \in Nat /\ k <= m /\ k \in T /\ k # m
    OBVIOUS
  <2> QED
    BY <2>1
<1>4. up \in Injection(A, A \ {0})
  <2>1. up \in [A -> A \ {0}]
    BY <1>3
  <2>2. A \subseteq Nat
    OBVIOUS
  <2> HIDE DEF A
  <2> QED
    BY <2>1, <2>2 DEF Injection, IsInjective
<1> HIDE DEF A, up
<1>5. Cardinality(A) <= Cardinality(A \ {0})
  BY <1>2, <1>4, FS_Injection
<1> QED
  BY <1>1, <1>2, <1>5

(* A set of natural numbers that is not empty has a least one... *)
LEMMA LeastNat ==
    ASSUME NEW U, U \subseteq Nat, U # {}
    PROVE  \E m \in U : \A k \in U : m <= k
<1> SUFFICES ASSUME \A m \in U : \E k \in U : k < m PROVE FALSE
  <2>1. ASSUME NEW m \in U, NEW k \in U, ~(m <= k) PROVE k < m
    BY <2>1
  <2> QED
    BY <2>1
<1> DEFINE T == {n \in Nat : \A k \in 0..n : k \notin U}
<1>1. 0 \in T
  OBVIOUS
<1>2. ASSUME NEW n \in Nat, n \in T PROVE n + 1 \in T
  <2>1. ASSUME NEW k \in 0..(n + 1) PROVE k \notin U
    <3>1. CASE k \in 0..n
      BY <3>1, <1>2
    <3>2. CASE k = n + 1
      <4>1. \A j \in Nat : j < n + 1 => j \in 0..n
        OBVIOUS
      <4> QED
        BY <3>2, <4>1, <1>2
    <3> QED
      BY <3>1, <3>2
  <2> QED
    BY <2>1
<1>3. Nat \subseteq T
  <2> HIDE DEF T
  <2> QED
    BY <1>1, <1>2, SetInduction
<1>4. \A n \in Nat : n \in 0..n
  OBVIOUS
<1> QED
  BY <1>3, <1>4

(* ...and, if it is bounded, a greatest one. *)
LEMMA GreatestNat ==
    ASSUME NEW U, U \subseteq Nat, U # {}, NEW b \in Nat, \A k \in U : k <= b
    PROVE  \E m \in U : \A k \in U : k <= m
<1> DEFINE V == {n \in 0..b : b - n \in U}
<1>1. PICK k \in U : TRUE
  OBVIOUS
<1>2. b - k \in V
  <2>1. k \in Nat /\ k <= b
    BY <1>1
  <2>2. b - (b - k) = k /\ b - k \in 0..b
    BY <2>1
  <2> QED
    BY <2>2
<1>3. PICK n \in V : \A j \in V : n <= j
  <2>1. V \subseteq Nat
    OBVIOUS
  <2> HIDE DEF V
  <2> QED
    BY <1>2, <2>1, LeastNat
<1>4. ASSUME NEW j \in U PROVE j <= b - n
  <2>1. j \in Nat /\ j <= b
    OBVIOUS
  <2>2. b - (b - j) = j /\ b - j \in 0..b
    BY <2>1
  <2>3. n <= b - j
    BY <2>2, <1>3
  <2> QED
    BY <2>1, <2>3
<1> QED
  BY <1>4

(* A function that is defined by recursion up to L, from a, by the steps h  *)
(* takes, exists: what has to be known before the equation of a recursive  *)
(* definition may be used.                                                 *)
Unrolls(g, a, L, h) == g[0] = a /\ \A n \in 1..L : g[n] = h[<<g[n - 1], n>>]

LEMMA Recursion ==
    ASSUME NEW S, NEW a \in S, NEW L \in Nat, NEW h \in [S \X (1..L) -> S]
    PROVE  \E g \in [0..L -> S] : Unrolls(g, a, L, h)
<1> DEFINE Upto(g, m) == Unrolls(g, a, m, h)
           T == {m \in Nat : m <= L => \E g \in [0..m -> S] : Upto(g, m)}
<1>1. 0 \in T
  <2> DEFINE g == [n \in 0..0 |-> a]
  <2>1. g \in [0..0 -> S] /\ Upto(g, 0)
    BY DEF Unrolls
  <2> HIDE DEF Upto, g
  <2> QED
    BY <2>1
<1>2. ASSUME NEW m \in Nat, m \in T PROVE m + 1 \in T
  <2> SUFFICES ASSUME m + 1 <= L PROVE \E g \in [0..(m + 1) -> S] : Upto(g, m + 1)
    OBVIOUS
  <2> HIDE DEF Upto
  <2>1. PICK f \in [0..m -> S] : Upto(f, m)
    BY <1>2
  <2> DEFINE g == [n \in 0..(m + 1) |-> IF n <= m THEN f[n] ELSE h[<<f[m], m + 1>>]]
  <2>2. h[<<f[m], m + 1>>] \in S
    <3>1. m + 1 \in 1..L /\ f[m] \in S
      OBVIOUS
    <3> QED
      BY <3>1
  <2>3. g \in [0..(m + 1) -> S]
    <3>1. ASSUME NEW n \in 0..(m + 1), n <= m PROVE f[n] \in S
      BY <3>1
    <3> QED
      BY <2>2, <3>1
  <2>4. g[0] = a
    <3>1. g[0] = f[0]
      OBVIOUS
    <3> QED
      BY <2>1, <3>1 DEF Upto, Unrolls
  <2>5. ASSUME NEW n \in 1..(m + 1) PROVE g[n] = h[<<g[n - 1], n>>]
    <3>1. n - 1 \in 0..(m + 1) /\ n - 1 <= m /\ g[n - 1] = f[n - 1]
      OBVIOUS
    <3>2. CASE n <= m
      <4>1. g[n] = f[n] /\ n \in 1..m
        BY <3>2
      <4>2. f[n] = h[<<f[n - 1], n>>]
        BY <2>1, <4>1 DEF Upto, Unrolls
      <4> HIDE DEF g
      <4> QED
        BY <4>1, <4>2, <3>1
    <3>3. CASE ~(n <= m)
      <4>1. n = m + 1 /\ n - 1 = m /\ g[n] = h[<<f[m], m + 1>>]
        BY <3>3
      <4> HIDE DEF g
      <4> QED
        BY <4>1, <3>1
    <3> QED
      BY <3>2, <3>3
  <2> HIDE DEF g
  <2> QED
    BY <2>3, <2>4, <2>5 DEF Upto, Unrolls
<1>3. L \in T
  <2> HIDE DEF T
  <2> QED
    BY <1>1, <1>2, SetInduction
<1> QED
  BY <1>3

-----------------------------------------------------------------------------
(* Where in a sequence the elements of W stand, to count them. *)
Places(s, W) == {i \in DOMAIN s : s[i] \in W}

(* A finite number of places. *)
LEMMA PlacesFinite ==
    ASSUME NEW S, NEW s \in Seq(S), NEW W
    PROVE  IsFiniteSet(Places(s, W)) /\ Cardinality(Places(s, W)) \in Nat
<1>1. Places(s, W) \in SUBSET (1..Len(s))
  BY DEF Places
<1>2. IsFiniteSet(1..Len(s))
  <2>1. 1 \in Int /\ Len(s) \in Int
    OBVIOUS
  <2> QED
    BY <2>1, FS_Interval
<1> QED
  BY <1>1, <1>2, FS_Subset, FS_CardinalityType

(* The elements of W in a concatenation are those of its parts. *)
LEMMA CountConcat ==
    ASSUME NEW S, NEW s \in Seq(S), NEW t \in Seq(S), NEW W
    PROVE  Cardinality(Places(s \o t, W)) = Cardinality(Places(s, W)) + Cardinality(Places(t, W))
<1> DEFINE A == Places(s, W)
           B == Places(t, W)
           C == {Len(s) + i : i \in B}
           f == [i \in B |-> Len(s) + i]
<1>1. IsFiniteSet(A) /\ IsFiniteSet(B) /\ Cardinality(A) \in Nat /\ Cardinality(B) \in Nat
  BY PlacesFinite
<1>2. A \subseteq 1..Len(s) /\ B \subseteq 1..Len(t)
  BY DEF Places
<1>3. Places(s \o t, W) = A \cup C
  <2>1. s \o t \in Seq(S) /\ Len(s \o t) = Len(s) + Len(t)
        /\ \A i \in 1..(Len(s) + Len(t)) :
             (s \o t)[i] = IF i <= Len(s) THEN s[i] ELSE t[i - Len(s)]
    BY ConcatProperties
  <2>2. ASSUME NEW i \in Places(s \o t, W) PROVE i \in A \cup C
    <3>1. i \in 1..(Len(s) + Len(t)) /\ (s \o t)[i] \in W
      BY <2>1 DEF Places
    <3>2. CASE i <= Len(s)
      BY <2>1, <3>1, <3>2 DEF Places
    <3>3. CASE ~(i <= Len(s))
      <4>1. i - Len(s) \in 1..Len(t) /\ t[i - Len(s)] \in W
        BY <2>1, <3>1, <3>3
      <4>2. i - Len(s) \in B /\ Len(s) + (i - Len(s)) = i
        BY <3>1, <4>1 DEF Places
      <4> QED
        BY <4>2
    <3> QED
      BY <3>2, <3>3
  <2>3. ASSUME NEW i \in A PROVE i \in Places(s \o t, W)
    <3>1. i \in 1..Len(s) /\ s[i] \in W
      BY DEF Places
    <3>2. i \in 1..(Len(s) + Len(t)) /\ i <= Len(s)
      BY <3>1
    <3> QED
      BY <2>1, <3>1, <3>2 DEF Places
  <2>4. ASSUME NEW i \in B PROVE Len(s) + i \in Places(s \o t, W)
    <3>1. i \in 1..Len(t) /\ t[i] \in W
      BY DEF Places
    <3>2. Len(s) + i \in 1..(Len(s) + Len(t)) /\ ~(Len(s) + i <= Len(s)) /\ Len(s) + i - Len(s) = i
      BY <3>1
    <3> QED
      BY <2>1, <3>1, <3>2 DEF Places
  <2> HIDE DEF A, B
  <2> QED
    BY <2>2, <2>3, <2>4
<1> HIDE DEF A, B
<1>4. f \in Bijection(B, C)
  <2>1. f \in [B -> C]
    OBVIOUS
  <2>2. ASSUME NEW i \in B, NEW j \in B, f[i] = f[j] PROVE i = j
    <3>1. i \in Nat /\ j \in Nat /\ Len(s) + i = Len(s) + j
      BY <1>2, <2>2
    <3> QED
      BY <3>1
  <2>3. \A c \in C : \E i \in B : f[i] = c
    OBVIOUS
  <2> HIDE DEF f, C
  <2> QED
    BY <2>1, <2>2, <2>3 DEF Bijection, Injection, Surjection, IsInjective
<1>5. IsFiniteSet(C) /\ Cardinality(C) = Cardinality(B)
  <2>1. ExistsBijection(B, C)
    BY <1>4 DEF ExistsBijection
  <2> HIDE DEF C
  <2> QED
    BY <1>1, <2>1, FS_Bijection
<1>6. A \cap C = {}
  <2>1. ASSUME NEW i \in B PROVE Len(s) + i \notin A
    BY <1>2
  <2> QED
    BY <2>1
<1>7. Cardinality(A \cup C) = Cardinality(A) + Cardinality(C) - Cardinality({})
  <2> HIDE DEF C
  <2> QED
    BY <1>1, <1>5, <1>6, FS_Union
<1>8. Cardinality({}) = 0
  BY FS_EmptySet
<1> HIDE DEF C
<1> QED
  BY <1>1, <1>3, <1>5, <1>7, <1>8 DEF A, B

(* Counting in a sequence of one element. *)
LEMMA CountOne ==
    ASSUME NEW e, NEW W
    PROVE  Cardinality(Places(<<e>>, W)) = IF e \in W THEN 1 ELSE 0
<1>1. CASE e \in W
  <2>1. Places(<<e>>, W) = {1}
    BY <1>1 DEF Places
  <2> QED
    BY <1>1, <2>1, FS_Singleton
<1>2. CASE e \notin W
  <2>1. Places(<<e>>, W) = {}
    BY <1>2 DEF Places
  <2> QED
    BY <1>2, <2>1, FS_EmptySet
<1> QED
  BY <1>1, <1>2

(* Counting after an element was put at the end. *)
LEMMA CountAppend ==
    ASSUME NEW S, NEW s \in Seq(S), NEW e \in S, NEW W
    PROVE  Cardinality(Places(Append(s, e), W))
             = Cardinality(Places(s, W)) + (IF e \in W THEN 1 ELSE 0)
<1>1. Append(s, e) = s \o <<e>> /\ <<e>> \in Seq(S)
  BY AppendAsConcat
<1>2. Cardinality(Places(s \o <<e>>, W)) = Cardinality(Places(s, W)) + Cardinality(Places(<<e>>, W))
  BY <1>1, CountConcat
<1>3. Cardinality(Places(<<e>>, W)) = IF e \in W THEN 1 ELSE 0
  BY CountOne
<1> QED
  BY <1>1, <1>2, <1>3

(* Counting after the head was taken off. *)
LEMMA CountTail ==
    ASSUME NEW S, NEW s \in Seq(S), s # <<>>, NEW W
    PROVE  Cardinality(Places(s, W))
             = Cardinality(Places(Tail(s), W)) + (IF Head(s) \in W THEN 1 ELSE 0)
<1> DEFINE h == Head(s)
           t == Tail(s)
<1>1. t \in Seq(S) /\ h \in S /\ s = <<h>> \o t /\ <<h>> \in Seq(S)
  BY HeadThenTail
<1> HIDE DEF h, t
<1>2. Cardinality(Places(<<h>> \o t, W)) = Cardinality(Places(<<h>>, W)) + Cardinality(Places(t, W))
  BY <1>1, CountConcat
<1>3. Cardinality(Places(<<h>>, W)) = IF h \in W THEN 1 ELSE 0
  BY CountOne
<1>4. Cardinality(Places(t, W)) \in Nat
  BY <1>1, PlacesFinite
<1>5. Cardinality(Places(s, W)) = Cardinality(Places(t, W)) + (IF h \in W THEN 1 ELSE 0)
  BY <1>1, <1>2, <1>3, <1>4
<1> QED
  BY <1>5 DEF h, t

=============================================================================
