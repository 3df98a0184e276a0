---------------------------- MODULE SseParserProofs ----------------------------
(***************************************************************************)
(* Proofs about the parser of server-sent events: for every stream and     *)
(* every way to cut it, feed() returns the events of the stream read as a  *)
(* whole and stays within its limit, and observe_sse_chunk sees the first  *)
(* data and the end once.                                                  *)
(*                                                                         *)
(* The loop of feed() is a recursive function, so what it computes needs   *)
(* an induction over the text.  The library's induction theorems have an   *)
(* operator as parameter; SetInduction and Recursion below are the same    *)
(* for sets and functions, from the well-foundedness of the numbers.       *)
(***************************************************************************)
EXTENDS SseParser, FiniteSetTheorems, SequenceTheorems, WellFoundedInduction, TLAPS

-----------------------------------------------------------------------------
(***************************************************************************)
(* Induction and recursion                                                 *)
(***************************************************************************)

(* Every set of natural numbers that is not empty has a least one.        *)
LEMMA LeastNumber ==
  ASSUME NEW T, T \subseteq Nat, T # {}
  PROVE  \E m \in T : \A k \in T : m <= k
<1> DEFINE R == OpToRel(<, Nat)
<1>1. IsWellFoundedOn(R, Nat)
  BY NatLessThanWellFounded, Zenon DEF OpToRel
<1>2. PICK m \in T : \A k \in T : ~(<<k, m>> \in R)
  BY <1>1, WFMin
<1>3. \A k \in T : ~(k < m)
  BY <1>2 DEF OpToRel
<1> QED
  BY <1>3

(* Induction over the natural numbers, for a set.                          *)
LEMMA SetInduction ==
  ASSUME NEW T, 0 \in T, \A n \in Nat : n \in T => n + 1 \in T
  PROVE  \A n \in Nat : n \in T
<1> SUFFICES ASSUME Nat \ T # {} PROVE FALSE
  OBVIOUS
<1>1. PICK m \in Nat \ T : \A k \in Nat \ T : m <= k
  BY LeastNumber
<1>2. m # 0 /\ m - 1 \in Nat
  BY <1>1
<1>3. m - 1 \in T
  BY <1>1, <1>2
<1> QED
  BY <1>1, <1>2, <1>3

(* A recursive function of 0..n exists, whatever function its step is.     *)
Iterates(f, n, S, a, step) ==
  f \in [0..n -> S] /\ f[0] = a /\ \A k \in 1..n : f[k] = step[<<k, f[k - 1]>>]

LEMMA Recursion ==
  ASSUME NEW S, NEW a \in S, NEW step \in [Nat \X S -> S], NEW n \in Nat
  PROVE  \E f : Iterates(f, n, S, a, step)
<1> DEFINE Run(f, m) == Iterates(f, m, S, a, step)
           T == {m \in Nat : \E f : Run(f, m)}
<1>1. 0 \in T
  <2>1. Run([k \in 0..0 |-> a], 0)
    BY DEF Iterates
  <2> QED
    BY <2>1
<1>2. ASSUME NEW m \in Nat, m \in T
      PROVE  m + 1 \in T
  <2>1. PICK f : Run(f, m)
    BY <1>2
  <2> DEFINE g == [k \in 0..(m + 1) |-> IF k = m + 1 THEN step[<<m + 1, f[m]>>] ELSE f[k]]
  <2>2. Run(g, m + 1)
    <3>1. step[<<m + 1, f[m]>>] \in S
      BY <2>1 DEF Iterates
    <3>2. g \in [0..(m + 1) -> S] /\ g[0] = a
      BY <2>1, <3>1 DEF Iterates
    <3>3. ASSUME NEW k \in 1..(m + 1)
          PROVE  g[k] = step[<<k, g[k - 1]>>]
      <4>1. k - 1 \in 0..m /\ g[k - 1] = f[k - 1]
        OBVIOUS
      <4>2. CASE k = m + 1
        <5>1. g[k] = step[<<m + 1, f[m]>>] /\ k - 1 = m
          BY <4>2
        <5> HIDE DEF g
        <5> QED
          BY <4>1, <4>2, <5>1
      <4>3. CASE k \in 1..m
        BY <2>1, <4>1, <4>3 DEF Iterates
      <4> QED
        BY <4>2, <4>3
    <3> QED
      BY <3>2, <3>3 DEF Iterates
  <2> HIDE DEF Run
  <2> QED
    BY <2>2
<1> HIDE DEF T
<1>3. n \in T
  BY <1>1, <1>2, SetInduction
<1> QED
  BY <1>3 DEF T
-----------------------------------------------------------------------------
(***************************************************************************)
(* Extract: a finite set of positions in increasing order                  *)
(***************************************************************************)
Enumerates(f, n, S) ==
  /\ f \in [1..n -> S]
  /\ \A i \in S : \E k \in 1..n : f[k] = i
  /\ \A j, k \in 1..n : j < k => f[j] < f[k]

LEMMA EnumerationFacts ==
  ASSUME NEW n \in Nat, NEW S, S \subseteq Int, NEW f, Enumerates(f, n, S)
  PROVE  /\ \A k \in 1..n : f[k] \in S /\ f[k] \in Int
         /\ \A j, k \in 1..n : j <= k => f[j] <= f[k]
         /\ \A j, k \in 1..n : f[j] <= f[k] => j <= k
         /\ \A j, k \in 1..n : f[j] = f[k] => j = k
<1>1. \A k \in 1..n : f[k] \in S
  BY DEF Enumerates
<1>2. \A k \in 1..n : f[k] \in Int
  BY <1>1
<1>3. \A j, k \in 1..n : j < k => f[j] < f[k]
  BY DEF Enumerates
<1> QED
  BY <1>1, <1>2, <1>3

LEMMA EnumerationExists ==
  ASSUME NEW n \in Nat, NEW S \in SUBSET (1..n)
  PROVE  \E m \in Nat : \E f : Enumerates(f, m, S)
<1> DEFINE T == {l \in Nat : \A U \in SUBSET (1..l) : \E m \in Nat : \E f : Enumerates(f, m, U)}
<1>1. 0 \in T
  <2>1. ASSUME NEW U \in SUBSET (1..0)
        PROVE  Enumerates(<<>>, 0, U)
    BY DEF Enumerates
  <2> QED
    BY <2>1
<1>2. ASSUME NEW l \in Nat, l \in T
      PROVE  l + 1 \in T
  <2> SUFFICES ASSUME NEW U \in SUBSET (1..(l + 1))
               PROVE  \E m \in Nat : \E f : Enumerates(f, m, U)
    OBVIOUS
  <2>1. U \ {l + 1} \in SUBSET (1..l)
    OBVIOUS
  <2>size. PICK m \in Nat : \E f : Enumerates(f, m, U \ {l + 1})
    BY <1>2, <2>1
  <2>2. PICK f : Enumerates(f, m, U \ {l + 1})
    BY <2>size
  <2>3. CASE l + 1 \notin U
    BY <2>2, <2>3
  <2>4. CASE l + 1 \in U
    <3> DEFINE g == [k \in 1..(m + 1) |-> IF k = m + 1 THEN l + 1 ELSE f[k]]
    <3>1. g \in [1..(m + 1) -> U]
      BY <2>2, <2>4 DEF Enumerates
    <3>2. ASSUME NEW i \in U
          PROVE  \E k \in 1..(m + 1) : g[k] = i
      <4>1. CASE i = l + 1
        BY <4>1
      <4>2. CASE i # l + 1
        <5>1. PICK k \in 1..m : f[k] = i
          BY <2>2, <4>2 DEF Enumerates
        <5> QED
          BY <5>1
      <4> QED
        BY <4>1, <4>2
    <3>3. ASSUME NEW j \in 1..(m + 1), NEW k \in 1..(m + 1), j < k
          PROVE  g[j] < g[k]
      <4>1. j \in 1..m /\ g[j] = f[j]
        BY <3>3
      <4>4. f[j] \in U \ {l + 1}
        BY <2>2, <4>1 DEF Enumerates
      <4>5. f[j] \in 1..l
        BY <2>1, <4>4
      <4>2. CASE k = m + 1
        BY <4>1, <4>2, <4>5
      <4>3. CASE k # m + 1
        BY <2>2, <3>3, <4>1, <4>3 DEF Enumerates
      <4> QED
        BY <4>2, <4>3
    <3>4. Enumerates(g, m + 1, U)
      BY <3>1, <3>2, <3>3 DEF Enumerates
    <3> QED
      BY <3>4
  <2> QED
    BY <2>3, <2>4
<1> HIDE DEF T
<1>3. n \in T
  BY <1>1, <1>2, SetInduction
<1> QED
  BY <1>3 DEF T

LEMMA EnumerationCounts ==
  ASSUME NEW n \in Nat, NEW S, S \subseteq Int, NEW f, Enumerates(f, n, S)
  PROVE  Cardinality(S) = n
<1>1. f \in Bijection(1..n, S)
  <2>1. \A j, k \in 1..n : f[j] = f[k] => j = k
    BY EnumerationFacts
  <2> QED
    BY <2>1 DEF Enumerates, Bijection, Injection, Surjection, IsInjective
<1> QED
  BY <1>1, FS_CountingElements DEF ExistsBijection

(* The k-th position is the one with k positions up to it.                 *)
LEMMA EnumerationRank ==
  ASSUME NEW n \in Nat, NEW S, S \subseteq Int, NEW f, Enumerates(f, n, S), NEW k \in 1..n
  PROVE  Cardinality(UpTo(S, f[k])) = k
<1> DEFINE U == UpTo(S, f[k])
           g == [i \in 1..k |-> f[i]]
<1>1. ASSUME NEW i \in 1..k
      PROVE  i \in 1..n /\ f[i] \in S /\ f[i] \in Int /\ f[i] <= f[k]
  <2>1. i \in 1..n /\ i <= k
    OBVIOUS
  <2> QED
    BY <2>1, EnumerationFacts
<1>2. g \in [1..k -> U] /\ \A i \in 1..k : g[i] = f[i]
  BY <1>1 DEF UpTo
<1>3. ASSUME NEW i \in U
      PROVE  \E j \in 1..k : g[j] = i
  <2>1. PICK j \in 1..n : f[j] = i
    BY DEF Enumerates, UpTo
  <2>2. j <= k
    BY <2>1, EnumerationFacts DEF UpTo
  <2> QED
    BY <1>2, <2>1, <2>2
<1>4. \A i, j \in 1..k : i < j => g[i] < g[j]
  BY <1>1, <1>2 DEF Enumerates
<1>5. Enumerates(g, k, U)
  BY <1>2, <1>3, <1>4 DEF Enumerates
<1>6. U \subseteq Int
  BY DEF UpTo
<1> QED
  BY <1>5, <1>6, EnumerationCounts

Follows(e, s, f, n, V) == e \in Seq(V) /\ Len(e) = n /\ \A k \in 1..n : e[k] = s[f[k]]

LEMMA ExtractEnumerated ==
  ASSUME NEW n \in Nat, NEW S, S \subseteq Int, NEW f, Enumerates(f, n, S), NEW s,
         NEW V, \A i \in S : s[i] \in V
  PROVE  Follows(Extract(s, S), s, f, n, V)
<1>1. Cardinality(S) = n
  BY EnumerationCounts
<1>2. ASSUME NEW k \in 1..n
      PROVE  (CHOOSE i \in S : Cardinality(UpTo(S, i)) = k) = f[k]
  <2>1. f[k] \in S /\ Cardinality(UpTo(S, f[k])) = k
    BY EnumerationRank DEF Enumerates
  <2>2. ASSUME NEW i \in S, Cardinality(UpTo(S, i)) = k
        PROVE  i = f[k]
    <3>1. PICK l \in 1..n : f[l] = i
      BY DEF Enumerates
    <3>2. l = k
      BY <2>2, <3>1, EnumerationRank
    <3> QED
      BY <3>1, <3>2
  <2> QED
    BY <2>1, <2>2
<1>3. Extract(s, S) = [k \in 1..n |-> s[CHOOSE i \in S : Cardinality(UpTo(S, i)) = k]]
  BY <1>1 DEF Extract
<1>4. Extract(s, S) = [k \in 1..n |-> s[f[k]]]
  BY <1>2, <1>3
<1>5. \A k \in 1..n : s[f[k]] \in V
  BY EnumerationFacts
<1> QED
  BY <1>4, <1>5 DEF Follows

LEMMA ExtractAgree ==
  ASSUME NEW n \in Nat, NEW S \in SUBSET (1..n), NEW s, NEW r, \A i \in S : s[i] = r[i]
  PROVE  Extract(s, S) = Extract(r, S)
<1>size. PICK m \in Nat : \E f : Enumerates(f, m, S)
  BY EnumerationExists
<1>1. PICK f : Enumerates(f, m, S)
  BY <1>size
<1>2. S \subseteq Int
  OBVIOUS
<1>3. \A k \in 1..m : f[k] \in S
  BY <1>1, <1>2, EnumerationFacts
<1>4. PICK V : \A i \in S : s[i] \in V /\ r[i] \in V
  <2>1. \A i \in S : s[i] \in {s[j] : j \in S}
    OBVIOUS
  <2> QED
    BY <2>1
<1>5. Follows(Extract(s, S), s, f, m, V) /\ Follows(Extract(r, S), r, f, m, V)
  BY <1>1, <1>2, <1>4, ExtractEnumerated
<1>6. \A k \in 1..m : Extract(s, S)[k] = Extract(r, S)[k]
  BY <1>3, <1>5 DEF Follows
<1> QED
  BY <1>5, <1>6, SeqEqual DEF Follows

LEMMA ExtractType ==
  ASSUME NEW V, NEW s \in Seq(V), NEW S \in SUBSET (1..Len(s))
  PROVE  Extract(s, S) \in Seq(V)
<1>1. Len(s) \in Nat /\ S \subseteq Int
  OBVIOUS
<1>size. PICK m \in Nat : \E f : Enumerates(f, m, S)
  BY <1>1, EnumerationExists
<1>2. PICK f : Enumerates(f, m, S)
  BY <1>size
<1>3. \A i \in S : s[i] \in V
  OBVIOUS
<1> QED
  BY <1>1, <1>2, <1>3, ExtractEnumerated DEF Follows

LEMMA ExtractNothing ==
  ASSUME NEW s
  PROVE  Extract(s, {}) = <<>>
<1>1. Enumerates(<<>>, 0, {})
  BY DEF Enumerates
<1>2. Extract(s, {}) \in Seq({}) /\ Len(Extract(s, {})) = 0
  BY <1>1, ExtractEnumerated DEF Follows
<1> QED
  BY <1>2

LEMMA ExtractInterval ==
  ASSUME NEW V, NEW s \in Seq(V), NEW a \in 1..(Len(s) + 1), NEW b \in (a - 1)..Len(s)
  PROVE  Extract(s, a..b) = SubSeq(s, a, b)
<1> DEFINE m == b - a + 1
           f == [k \in 1..m |-> a + k - 1]
<1>1. m \in Nat /\ a \in Int /\ b \in Int
  OBVIOUS
<1>2. Enumerates(f, m, a..b)
  <2>1. f \in [1..m -> a..b]
    BY <1>1
  <2>2. ASSUME NEW i \in a..b
        PROVE  \E k \in 1..m : f[k] = i
    <3>1. i - a + 1 \in 1..m /\ f[i - a + 1] = i
      BY <1>1
    <3> QED
      BY <3>1
  <2> QED
    BY <1>1, <2>1, <2>2 DEF Enumerates
<1>3. \A k \in 1..m : f[k] = a + k - 1
  OBVIOUS
<1>4. a..b \subseteq Int /\ \A i \in a..b : s[i] \in V
  OBVIOUS
<1>5. SubSeq(s, a, b) \in Seq(V) /\ Len(SubSeq(s, a, b)) = m
  OBVIOUS
<1>6. \A k \in 1..m : SubSeq(s, a, b)[k] = s[a + k - 1]
  OBVIOUS
<1> HIDE DEF f, m
<1>7. Follows(Extract(s, a..b), s, f, m, V)
  BY <1>1, <1>2, <1>4, ExtractEnumerated
<1>8. \A k \in 1..m : Extract(s, a..b)[k] = SubSeq(s, a, b)[k]
  BY <1>3, <1>6, <1>7 DEF Follows
<1> QED
  BY <1>5, <1>7, <1>8, SeqEqual DEF Follows

(* Positions in two parts, one before the other.                           *)
LEMMA ExtractUnion ==
  ASSUME NEW V, NEW s \in Seq(V), NEW A \in SUBSET (1..Len(s)), NEW B \in SUBSET (1..Len(s)),
         \A a \in A, b \in B : a < b
  PROVE  Extract(s, A \union B) = Extract(s, A) \o Extract(s, B)
<1>0. Len(s) \in Nat
  OBVIOUS
<1>sizeA. PICK m \in Nat : \E f : Enumerates(f, m, A)
  BY <1>0, EnumerationExists
<1>1. PICK f : Enumerates(f, m, A)
  BY <1>sizeA
<1>sizeB. PICK n \in Nat : \E g : Enumerates(g, n, B)
  BY <1>0, EnumerationExists
<1>2. PICK g : Enumerates(g, n, B)
  BY <1>sizeB
<1> DEFINE h == [k \in 1..(m + n) |-> IF k <= m THEN f[k] ELSE g[k - m]]
<1>3. A \subseteq Int /\ B \subseteq Int /\ A \union B \subseteq Int
  OBVIOUS
<1>4. /\ \A k \in 1..m : f[k] \in A /\ f[k] \in Int
      /\ \A k \in 1..n : g[k] \in B /\ g[k] \in Int
  BY <1>1, <1>2, <1>3, EnumerationFacts
<1>5. Enumerates(h, m + n, A \union B)
  <2>1. \A k \in 1..(m + n) : ~(k <= m) => k - m \in 1..n
    OBVIOUS
  <2>2. h \in [1..(m + n) -> A \union B]
    BY <1>4, <2>1
  <2>3. ASSUME NEW i \in A \union B
        PROVE  \E k \in 1..(m + n) : h[k] = i
    <3>1. CASE i \in A
      <4>1. PICK k \in 1..m : f[k] = i
        BY <1>1, <3>1 DEF Enumerates
      <4> QED
        BY <4>1
    <3>2. CASE i \in B
      <4>1. PICK k \in 1..n : g[k] = i
        BY <1>2, <3>2 DEF Enumerates
      <4>2. m + k \in 1..(m + n) /\ ~(m + k <= m) /\ (m + k) - m = k
        OBVIOUS
      <4>3. h[m + k] = i
        BY <4>1, <4>2
      <4> QED
        BY <4>2, <4>3
    <3> QED
      BY <3>1, <3>2
  <2>4. ASSUME NEW j \in 1..(m + n), NEW k \in 1..(m + n), j < k
        PROVE  h[j] < h[k]
    <3>1. CASE k <= m
      BY <1>1, <2>4, <3>1 DEF Enumerates
    <3>2. CASE ~(j <= m)
      <4>1. j - m \in 1..n /\ k - m \in 1..n /\ j - m < k - m
        BY <2>4, <3>2
      <4>2. g[j - m] < g[k - m]
        BY <1>2, <4>1 DEF Enumerates
      <4> QED
        BY <2>4, <3>2, <4>2
    <3>3. CASE j <= m /\ ~(k <= m)
      <4>1. f[j] \in A /\ g[k - m] \in B
        BY <1>4, <2>1, <3>3
      <4> QED
        BY <3>3, <4>1
    <3> QED
      BY <2>4, <3>1, <3>2, <3>3
  <2> QED
    BY <2>2, <2>3, <2>4 DEF Enumerates
<1>6. \A k \in 1..(m + n) : h[k] = IF k <= m THEN f[k] ELSE g[k - m]
  OBVIOUS
<1> HIDE DEF h
<1> DEFINE C == Extract(s, A \union B)
           X == Extract(s, A)
           Y == Extract(s, B)
<1>7. /\ \A i \in A : s[i] \in V
      /\ \A i \in B : s[i] \in V
      /\ \A i \in A \union B : s[i] \in V
  OBVIOUS
<1>8. Follows(C, s, h, m + n, V)
  <2>1. m + n \in Nat
    OBVIOUS
  <2> QED
    BY <1>3, <1>5, <1>7, <2>1, ExtractEnumerated
<1>9. Follows(X, s, f, m, V) /\ Follows(Y, s, g, n, V)
  BY <1>1, <1>2, <1>3, <1>7, ExtractEnumerated
<1> HIDE DEF C, X, Y
<1>10. /\ C \in Seq(V) /\ Len(C) = m + n /\ X \in Seq(V) /\ Len(X) = m
       /\ Y \in Seq(V) /\ Len(Y) = n
  BY <1>8, <1>9 DEF Follows
<1>11. ASSUME NEW k \in 1..(m + n)
       PROVE  C[k] = (X \o Y)[k]
  <2>1. CASE k <= m
    <3>1. C[k] = s[f[k]] /\ X[k] = s[f[k]]
      BY <1>6, <1>8, <1>9, <2>1 DEF Follows
    <3> QED
      BY <1>10, <2>1, <3>1
  <2>2. CASE ~(k <= m)
    <3>1. k - m \in 1..n
      BY <2>2
    <3>2. C[k] = s[g[k - m]] /\ Y[k - m] = s[g[k - m]]
      BY <1>6, <1>8, <1>9, <2>2, <3>1 DEF Follows
    <3> QED
      BY <1>10, <2>2, <3>1, <3>2
  <2> QED
    BY <2>1, <2>2
<1> DEFINE Z == X \o Y
<1>12. Z \in Seq(V) /\ Len(Z) = m + n
  BY <1>10, ConcatProperties
<1>13. \A k \in 1..Len(C) : C[k] = Z[k]
  BY <1>10, <1>11
<1>14. C = Z
  <2> HIDE DEF Z
  <2> QED
    BY <1>10, <1>12, <1>13, SeqEqual
<1> QED
  BY <1>14 DEF C, X, Y

-----------------------------------------------------------------------------
(***************************************************************************)
(* The loop of feed()                                                      *)
(***************************************************************************)
ScanState ==
  [line : Seq(Symbol), current : Seq(Symbol), has_data : BOOLEAN,
   events : Seq(Seq(Symbol)), failed : BOOLEAN]

LEMMA StripType ==
  ASSUME NEW s \in Seq(Symbol)
  PROVE  StripCr(s) \in Seq(Symbol) /\ StripSingleLeadingSpace(s) \in Seq(Symbol)
  BY DEF StripCr, StripSingleLeadingSpace, WithoutLast, Last

LEMMA AppendDataLineType ==
  ASSUME NEW p \in ScanState, NEW value \in Seq(Symbol)
  PROVE  AppendDataLine(p, value) \in ScanState
<1>1. "lf" \in Symbol
  BY DEF Symbol
<1>2. (IF p.has_data THEN Append(p.current, "lf") ELSE p.current) \o value \in Seq(Symbol)
  BY <1>1, ConcatProperties DEF ScanState
<1> QED
  BY <1>2 DEF AppendDataLine, ScanState

LEMMA HandleLineType ==
  ASSUME NEW p \in ScanState, NEW line \in Seq(Symbol)
  PROVE  HandleLine(p, line) \in ScanState
<1>1. EndEvent(p) \in ScanState
  <2>1. p.events \in Seq(Seq(Symbol)) /\ p.current \in Seq(Symbol)
    BY DEF ScanState
  <2>2. Append(p.events, p.current) \in Seq(Seq(Symbol)) /\ <<>> \in Seq(Symbol)
    BY <2>1
  <2> QED
    BY <2>2 DEF EndEvent, ScanState
<1>2. SubSeq(line, Len(DataPrefix) + 1, Len(line)) \in Seq(Symbol)
  BY DEF DataPrefix
<1>3. AppendDataLine(p, StripSingleLeadingSpace(SubSeq(line, Len(DataPrefix) + 1, Len(line))))
        \in ScanState
  BY <1>2, StripType, AppendDataLineType
<1> QED
  BY <1>1, <1>3 DEF HandleLine

LEMMA ScanType ==
  ASSUME NEW p \in ScanState, NEW symbol \in Symbol
  PROVE  Scan(p, symbol) \in ScanState
<1>1. p.line \in Seq(Symbol)
  BY DEF ScanState
<1>2. <<>> \in Seq(Symbol) /\ Append(p.line, symbol) \in Seq(Symbol)
  BY <1>1
<1>3. [p EXCEPT !.line = <<>>] \in ScanState /\ [p EXCEPT !.line = Append(@, symbol)] \in ScanState
  BY <1>2 DEF ScanState
<1>4. StripCr(p.line) \in Seq(Symbol)
  BY <1>1, StripType
<1> QED
  BY <1>3, <1>4, HandleLineType DEF Scan

(* The states of the loop, one per symbol.                                 *)
IsRun(f, start, text) ==
  /\ f \in [0..Len(text) -> ScanState]
  /\ f[0] = start
  /\ \A k \in 1..Len(text) : f[k] = Scan(f[k - 1], text[k])

LEMMA RunExists ==
  ASSUME NEW start \in ScanState, NEW text \in Seq(Symbol)
  PROVE  \E f : IsRun(f, start, text)
<1> DEFINE n == Len(text)
           step == [q \in Nat \X ScanState |->
                      IF q[1] \in 1..n THEN Scan(q[2], text[q[1]]) ELSE q[2]]
<1>1. n \in Nat
  OBVIOUS
<1>2. step \in [Nat \X ScanState -> ScanState]
  <2>1. ASSUME NEW q \in Nat \X ScanState
        PROVE  (IF q[1] \in 1..n THEN Scan(q[2], text[q[1]]) ELSE q[2]) \in ScanState
    <3>1. q[2] \in ScanState /\ (q[1] \in 1..n => text[q[1]] \in Symbol)
      OBVIOUS
    <3> QED
      BY <3>1, ScanType
  <2> QED
    BY <2>1
<1>3. PICK f : Iterates(f, n, ScanState, start, step)
  <2> HIDE DEF step, n
  <2> QED
    BY <1>1, <1>2, Recursion
<1>4. ASSUME NEW k \in 1..n
      PROVE  f[k] = Scan(f[k - 1], text[k])
  <2>1. k \in Nat /\ f[k - 1] \in ScanState
    BY <1>3 DEF Iterates
  <2>2. <<k, f[k - 1]>> \in Nat \X ScanState
    BY <2>1
  <2>3. step[<<k, f[k - 1]>>] = Scan(f[k - 1], text[k])
    BY <2>2
  <2> QED
    BY <1>3, <2>3 DEF Iterates
<1> QED
  BY <1>3, <1>4 DEF IsRun, Iterates

LEMMA ScannedRun ==
  ASSUME NEW start \in ScanState, NEW text \in Seq(Symbol)
  PROVE  \E f : IsRun(f, start, text) /\ Scanned(start, text) = f[Len(text)]
<1> DEFINE n == Len(text)
           Solves(p) == p = [k \in 0..n |-> IF k = 0 THEN start ELSE Scan(p[k - 1], text[k])]
           p0 == CHOOSE p : Solves(p)
<1>1. n \in Nat
  OBVIOUS
<1>2. \E p : Solves(p)
  <2>1. PICK f : IsRun(f, start, text)
    BY RunExists
  <2>2. Solves(f)
    BY <2>1 DEF IsRun
  <2> QED
    BY <2>2
<1>3. Solves(p0)
  BY <1>2
<1>4. Scanned(start, text) = p0[n]
  BY DEF Scanned
<1> HIDE DEF p0
<1>5. p0 = [k \in 0..n |-> IF k = 0 THEN start ELSE Scan(p0[k - 1], text[k])]
  BY <1>3
<1>6. p0[0] = start /\ \A k \in 1..n : p0[k] = Scan(p0[k - 1], text[k])
  BY <1>1, <1>5
<1> DEFINE T == {k \in Nat : k <= n => p0[k] \in ScanState}
<1>7. 0 \in T
  BY <1>6
<1>8. ASSUME NEW k \in Nat, k \in T
      PROVE  k + 1 \in T
  <2>1. CASE k + 1 <= n
    <3>1. k + 1 \in 1..n /\ (k + 1) - 1 = k /\ text[k + 1] \in Symbol
      BY <1>1, <2>1
    <3>2. p0[k + 1] = Scan(p0[k], text[k + 1]) /\ p0[k] \in ScanState
      BY <1>6, <1>8, <3>1
    <3> QED
      BY <3>1, <3>2, ScanType
  <2>2. CASE ~(k + 1 <= n)
    BY <2>2
  <2> QED
    BY <2>1, <2>2
<1> HIDE DEF T
<1>9. \A k \in Nat : k \in T
  BY <1>7, <1>8, SetInduction
<1>10. p0 \in [0..n -> ScanState]
  BY <1>1, <1>5, <1>9 DEF T
<1>11. IsRun(p0, start, text)
  BY <1>6, <1>10 DEF IsRun
<1> QED
  BY <1>4, <1>11

-----------------------------------------------------------------------------
(***************************************************************************)
(* The reference, one symbol further                                       *)
(***************************************************************************)
IsPreviousEnd(t, i, b) ==
  /\ b \in 0..(i - 1)
  /\ b = 0 \/ t[b] = "lf"
  /\ \A j \in (b + 1)..(i - 1) : t[j] # "lf"

LEMMA PreviousEndIs ==
  ASSUME NEW t, NEW n \in Nat
  PROVE  IsPreviousEnd(t, n + 1, PreviousEnd(t, n + 1))
<1> DEFINE T == {m \in Nat : \E b \in 0..m : IsPreviousEnd(t, m + 1, b)}
<1>1. 0 \in T
  BY DEF IsPreviousEnd
<1>2. ASSUME NEW m \in Nat, m \in T
      PROVE  m + 1 \in T
  <2>1. PICK b \in 0..m : IsPreviousEnd(t, m + 1, b)
    BY <1>2
  <2>2. CASE t[m + 1] = "lf"
    <3>1. IsPreviousEnd(t, m + 2, m + 1)
      BY <2>2 DEF IsPreviousEnd
    <3> QED
      BY <3>1
  <2>3. CASE t[m + 1] # "lf"
    <3>1. IsPreviousEnd(t, m + 2, b)
      BY <2>1, <2>3 DEF IsPreviousEnd
    <3> QED
      BY <3>1
  <2> QED
    BY <2>2, <2>3
<1> HIDE DEF T
<1>3. n \in T
  BY <1>1, <1>2, SetInduction
<1>4. PICK b \in 0..n : IsPreviousEnd(t, n + 1, b)
  BY <1>3 DEF T
<1>5. \E c \in 0..((n + 1) - 1) : /\ c = 0 \/ t[c] = "lf"
                                  /\ \A j \in (c + 1)..((n + 1) - 1) : t[j] # "lf"
  BY <1>4 DEF IsPreviousEnd
<1> QED
  BY <1>5 DEF PreviousEnd, IsPreviousEnd

LEMMA PreviousEndUnique ==
  ASSUME NEW t, NEW n \in Nat, NEW b, NEW c,
         IsPreviousEnd(t, n + 1, b), IsPreviousEnd(t, n + 1, c)
  PROVE  b = c
<1>1. b \in 0..n /\ c \in 0..n
  BY DEF IsPreviousEnd
<1>2. ~(b < c) /\ ~(c < b)
  BY <1>1 DEF IsPreviousEnd
<1> QED
  BY <1>1, <1>2

LEMMA PreviousEndNext ==
  ASSUME NEW t, NEW n \in Nat
  PROVE  PreviousEnd(t, n + 2) = IF t[n + 1] = "lf" THEN n + 1 ELSE PreviousEnd(t, n + 1)
<1> DEFINE b == PreviousEnd(t, n + 1)
<1>1. IsPreviousEnd(t, n + 1, b)
  BY PreviousEndIs
<1>2. IsPreviousEnd(t, (n + 1) + 1, IF t[n + 1] = "lf" THEN n + 1 ELSE b)
  <2> HIDE DEF b
  <2> QED
    BY <1>1 DEF IsPreviousEnd
<1>3. IsPreviousEnd(t, (n + 1) + 1, PreviousEnd(t, (n + 1) + 1))
  BY PreviousEndIs
<1> QED
  BY <1>2, <1>3, PreviousEndUnique

(* Where the line is that a newline at n + 1 ends.                         *)
LEMMA LineBounds ==
  ASSUME NEW t, NEW n \in Nat
  PROVE  /\ PreviousEnd(t, n + 1) \in 0..n
         /\ LineLast(t, n + 1) \in PreviousEnd(t, n + 1)..n
         /\ \A j \in (PreviousEnd(t, n + 1) + 1)..n : t[j] # "lf"
<1>1. IsPreviousEnd(t, n + 1, PreviousEnd(t, n + 1))
  BY PreviousEndIs
<1> QED
  BY <1>1 DEF IsPreviousEnd, LineLast

LEMMA OpenNext ==
  ASSUME NEW t, NEW n \in Nat
  PROVE  /\ ~(BlankAt(t, n + 1) /\ DataAt(t, n + 1))
         /\ BlankAt(t, n + 1) => OpenLines(t, n + 1) = {}
         /\ DataAt(t, n + 1) => OpenLines(t, n + 1) = OpenLines(t, n) \union {n + 1}
         /\ ~BlankAt(t, n + 1) /\ ~DataAt(t, n + 1) => OpenLines(t, n + 1) = OpenLines(t, n)
<1>1. ~(BlankAt(t, n + 1) /\ DataAt(t, n + 1))
  <2>1. PreviousEnd(t, n + 1) \in 0..n
    BY LineBounds
  <2> QED
    BY <2>1 DEF BlankAt, DataAt
<1>2. ASSUME NEW j \in 1..(n + 1)
      PROVE  (\A k \in j..(n + 1) : ~BlankAt(t, k)) <=>
               ~BlankAt(t, n + 1) /\ \A k \in j..n : ~BlankAt(t, k)
  OBVIOUS
<1>3. OpenLines(t, n + 1) =
        {j \in 1..(n + 1) : DataAt(t, j) /\ ~BlankAt(t, n + 1) /\ \A k \in j..n : ~BlankAt(t, k)}
  BY <1>2 DEF OpenLines
<1>4. \A k \in (n + 1)..n : ~BlankAt(t, k)
  OBVIOUS
<1> QED
  BY <1>1, <1>3, <1>4 DEF OpenLines

LEMMA EndsNext ==
  ASSUME NEW t, NEW n \in Nat
  PROVE  EventEnds(t, n + 1) =
           IF BlankAt(t, n + 1) /\ OpenLines(t, n) # {}
           THEN EventEnds(t, n) \union {n + 1} ELSE EventEnds(t, n)
<1>1. (n + 1) - 1 = n
  OBVIOUS
<1>2. 1..(n + 1) = 1..n \union {n + 1} /\ n + 1 \notin 1..n
  OBVIOUS
<1> QED
  BY <1>1, <1>2 DEF EventEnds

LEMMA GreatestNumber ==
  ASSUME NEW n \in Nat, NEW S \in SUBSET (1..n), S # {}
  PROVE  \E m \in S : \A k \in S : k <= m
<1> DEFINE T == {n - k : k \in S}
<1>1. T \subseteq Nat /\ T # {}
  <2>1. ASSUME NEW k \in S
        PROVE  n - k \in Nat
    <3>1. k \in 1..n
      OBVIOUS
    <3> QED
      BY <3>1
  <2> QED
    BY <2>1
<1>2. PICK l \in T : \A k \in T : l <= k
  BY <1>1, LeastNumber
<1>3. PICK m \in S : l = n - m
  OBVIOUS
<1>4. ASSUME NEW k \in S
      PROVE  k <= m
  <2>1. n - m <= n - k
    BY <1>2, <1>3
  <2> QED
    BY <2>1
<1> QED
  BY <1>4

LEMMA ValueBounds ==
  ASSUME NEW t, NEW j \in Nat \ {0}, NEW q \in ValueAt(t, j)
  PROVE  q \in 1..(j - 1)
<1>1. j - 1 \in Nat /\ (j - 1) + 1 = j
  OBVIOUS
<1>2. PreviousEnd(t, j) \in 0..(j - 1) /\ LineLast(t, j) \in PreviousEnd(t, j)..(j - 1)
  BY <1>1, LineBounds
<1>3. q \in (PreviousEnd(t, j) + 3)..LineLast(t, j)
  BY DEF ValueAt
<1> QED
  BY <1>2, <1>3

(* The text of the open event lies before its last newline.                *)
LEMMA OpenTextBounds ==
  ASSUME NEW t, NEW n \in Nat
  PROVE  /\ OpenLines(t, n) \subseteq 1..n
         /\ \A q \in OpenText(t, n) : q \in 1..n /\ \E k \in OpenLines(t, n) : q < k
<1>1. OpenLines(t, n) \subseteq 1..n
  BY DEF OpenLines
<1>2. ASSUME NEW q \in OpenText(t, n)
      PROVE  q \in 1..n /\ \E k \in OpenLines(t, n) : q < k
  <2>1. PICK j \in OpenLines(t, n) :
          q \in ValueAt(t, j) \/ (q = j /\ \E k \in OpenLines(t, n) : j < k)
    BY DEF OpenText
  <2>2. CASE q \in ValueAt(t, j)
    <3>1. j \in 1..n /\ j \in Nat \ {0}
      BY <1>1
    <3>2. q \in 1..(j - 1)
      BY <2>2, <3>1, ValueBounds
    <3>3. q \in 1..n /\ q < j
      BY <3>1, <3>2
    <3> QED
      BY <3>3
  <2> QED
    BY <1>1, <2>1, <2>2
<1> QED
  BY <1>1, <1>2

(* A data line adds its value, and the newline of the line before it.      *)
LEMMA OpenTextNext ==
  ASSUME NEW t, NEW n \in Nat, DataAt(t, n + 1), NEW m \in OpenLines(t, n),
         \A k \in OpenLines(t, n) : k <= m
  PROVE  /\ OpenText(t, n + 1) = (OpenText(t, n) \union {m}) \union ValueAt(t, n + 1)
         /\ \A q \in OpenText(t, n) : q \in Int /\ q < m
         /\ m \in 1..n /\ t[m] = "lf" /\ m <= PreviousEnd(t, n + 1)
<1> DEFINE O == OpenLines(t, n)
<1>1. O \subseteq 1..n /\ m \in 1..n
  BY OpenTextBounds
<1>2. OpenLines(t, n + 1) = O \union {n + 1}
  BY OpenNext
<1>3. \A q \in OpenText(t, n) : q \in Int /\ q < m
  <2> SUFFICES ASSUME NEW q \in OpenText(t, n) PROVE q \in Int /\ q < m
    OBVIOUS
  <2>1. PICK k \in O : q < k /\ q \in 1..n
    BY OpenTextBounds
  <2>2. k \in 1..n /\ k <= m
    BY <1>1, <2>1
  <2> QED
    BY <1>1, <2>1, <2>2
<1>4. ValueAt(t, n + 1) \subseteq 1..n
  <2>1. n + 1 \in Nat \ {0} /\ (n + 1) - 1 = n
    OBVIOUS
  <2> QED
    BY <2>1, ValueBounds
<1>5. ASSUME NEW q \in OpenText(t, n + 1)
      PROVE  q \in (OpenText(t, n) \union {m}) \union ValueAt(t, n + 1)
  <2>1. PICK j \in O \union {n + 1} :
          q \in ValueAt(t, j) \/ (q = j /\ \E k \in O \union {n + 1} : j < k)
    BY <1>2 DEF OpenText
  <2>2. CASE j = n + 1
    BY <1>1, <2>1, <2>2
  <2>3. CASE j \in O /\ q \in ValueAt(t, j)
    <3>1. j \in 1..n /\ j \in Nat \ {0}
      BY <1>1, <2>3
    <3>2. q \in 1..(j - 1)
      BY <2>3, <3>1, ValueBounds
    <3>3. q \in 1..n
      BY <3>1, <3>2
    <3> QED
      BY <2>3, <3>3 DEF OpenText
  <2>4. CASE j \in O /\ q = j
    <3>1. j \in 1..n /\ j <= m
      BY <1>1, <2>4
    <3>2. CASE j < m
      BY <2>4, <3>1, <3>2 DEF OpenText
    <3> QED
      BY <1>1, <2>4, <3>1, <3>2
  <2> QED
    BY <2>1, <2>2, <2>3, <2>4
<1>6. ASSUME NEW q \in (OpenText(t, n) \union {m}) \union ValueAt(t, n + 1)
      PROVE  q \in OpenText(t, n + 1)
  <2>1. CASE q \in OpenText(t, n)
    BY <1>2, <2>1 DEF OpenText
  <2>2. CASE q = m
    BY <1>1, <1>2, <2>2 DEF OpenText
  <2>3. CASE q \in ValueAt(t, n + 1)
    BY <1>2, <1>4, <2>3 DEF OpenText
  <2> QED
    BY <2>1, <2>2, <2>3
<1>7. t[m] = "lf"
  BY DEF OpenLines, DataAt
<1>8. m <= PreviousEnd(t, n + 1)
  <2>1. PreviousEnd(t, n + 1) \in 0..n /\ \A j \in (PreviousEnd(t, n + 1) + 1)..n : t[j] # "lf"
    BY LineBounds
  <2> QED
    BY <1>1, <1>7, <2>1
<1> QED
  BY <1>1, <1>3, <1>5, <1>6, <1>7, <1>8

LEMMA OpenTextFirst ==
  ASSUME NEW t, NEW n \in Nat, DataAt(t, n + 1), OpenLines(t, n) = {}
  PROVE  OpenText(t, n + 1) = ValueAt(t, n + 1)
<1>1. OpenLines(t, n + 1) = {n + 1}
  BY OpenNext
<1>2. ValueAt(t, n + 1) \subseteq 1..n
  <2>1. n + 1 \in Nat \ {0} /\ (n + 1) - 1 = n
    OBVIOUS
  <2> QED
    BY <2>1, ValueBounds
<1> QED
  BY <1>1, <1>2 DEF OpenText

(* The text of every event, open or ended, is made of symbols of t.        *)
LEMMA OpenTextType ==
  ASSUME NEW t \in Seq(Symbol), NEW n \in 0..Len(t)
  PROVE  OpenText(t, n) \in SUBSET (1..Len(t)) /\ Extract(t, OpenText(t, n)) \in Seq(Symbol)
<1>1. n \in Nat /\ Len(t) \in Nat
  OBVIOUS
<1>2. OpenText(t, n) \in SUBSET (1..Len(t))
  BY <1>1, OpenTextBounds
<1> QED
  BY <1>2, ExtractType

EventTexts(t, n) == [i \in 1..n |-> Extract(t, OpenText(t, i - 1))]

LEMMA EventTextsType ==
  ASSUME NEW t \in Seq(Symbol), NEW n \in 0..Len(t)
  PROVE  /\ EventTexts(t, n) \in Seq(Seq(Symbol)) /\ Len(EventTexts(t, n)) = n
         /\ \A i \in 1..n : EventTexts(t, n)[i] = Extract(t, OpenText(t, i - 1))
<1>1. n \in Nat /\ \A i \in 1..n : i - 1 \in 0..Len(t)
  OBVIOUS
<1>2. \A i \in 1..n : Extract(t, OpenText(t, i - 1)) \in Seq(Symbol)
  BY <1>1, OpenTextType
<1> QED
  BY <1>1, <1>2 DEF EventTexts

LEMMA ReferenceNext ==
  ASSUME NEW t \in Seq(Symbol), NEW n \in Nat, n + 1 <= Len(t)
  PROVE  /\ ReferenceEvents(t, n) \in Seq(Seq(Symbol))
         /\ ReferenceEvents(t, n + 1) =
              IF BlankAt(t, n + 1) /\ OpenLines(t, n) # {}
              THEN Append(ReferenceEvents(t, n), Extract(t, OpenText(t, n)))
              ELSE ReferenceEvents(t, n)
<1> DEFINE e == EventTexts(t, n)
           f == EventTexts(t, n + 1)
           E == EventEnds(t, n)
           x == Extract(t, OpenText(t, n))
<1>1. n \in 0..Len(t) /\ n + 1 \in 0..Len(t) /\ (n + 1) - 1 = n /\ n + 1 \in 1..(n + 1)
  OBVIOUS
<1>2. /\ e \in Seq(Seq(Symbol)) /\ Len(e) = n
      /\ f \in Seq(Seq(Symbol)) /\ Len(f) = n + 1
      /\ \A i \in 1..n : e[i] = Extract(t, OpenText(t, i - 1))
      /\ \A i \in 1..(n + 1) : f[i] = Extract(t, OpenText(t, i - 1))
  BY <1>1, EventTextsType
<1>3. E \in SUBSET (1..n) /\ E \in SUBSET (1..(n + 1))
  BY DEF EventEnds
<1>4. ReferenceEvents(t, n) = Extract(e, E) /\ ReferenceEvents(t, n + 1) = Extract(f, EventEnds(t, n + 1))
  BY DEF ReferenceEvents, EventTexts
<1>5. \A i \in E : e[i] = f[i]
  BY <1>2, <1>3
<1>6. f[n + 1] = x /\ x \in Seq(Symbol)
  BY <1>1, <1>2, OpenTextType
<1> HIDE DEF e, f, E, x
<1>7. Extract(e, E) = Extract(f, E)
  BY <1>3, <1>5, ExtractAgree
<1>8. Extract(e, E) \in Seq(Seq(Symbol))
  BY <1>2, <1>3, ExtractType
<1>9. CASE ~(BlankAt(t, n + 1) /\ OpenLines(t, n) # {})
  <2>1. EventEnds(t, n + 1) = E
    BY <1>9, EndsNext DEF E
  <2> QED
    BY <1>4, <1>7, <1>8, <1>9, <2>1
<1>10. CASE BlankAt(t, n + 1) /\ OpenLines(t, n) # {}
  <2>1. EventEnds(t, n + 1) = E \union ((n + 1)..(n + 1))
    <3>1. (n + 1)..(n + 1) = {n + 1}
      OBVIOUS
    <3> QED
      BY <1>10, <3>1, EndsNext DEF E
  <2>2. Extract(f, (n + 1)..(n + 1)) = SubSeq(f, n + 1, n + 1)
    <3>1. n + 1 \in 1..(Len(f) + 1) /\ n + 1 \in ((n + 1) - 1)..Len(f)
      BY <1>2
    <3> QED
      BY <1>2, <3>1, ExtractInterval
  <2>3. SubSeq(f, n + 1, n + 1) = <<x>>
    <3> DEFINE y == SubSeq(f, n + 1, n + 1)
    <3>1. y \in Seq(Seq(Symbol)) /\ Len(y) = 1
      BY <1>2
    <3>2. y[1] = x
      BY <1>2, <1>6
    <3>3. <<x>> \in Seq(Seq(Symbol)) /\ Len(<<x>>) = 1 /\ <<x>>[1] = x
      BY <1>6
    <3> HIDE DEF y
    <3>4. \A i \in 1..Len(y) : i = 1
      BY <3>1
    <3>5. \A i \in 1..Len(y) : y[i] = <<x>>[i]
      BY <3>2, <3>3, <3>4
    <3>6. y = <<x>>
      BY <3>1, <3>3, <3>5, SeqEqual
    <3> QED
      BY <3>6 DEF y
  <2>4. Extract(f, E \union ((n + 1)..(n + 1))) = Extract(f, E) \o Extract(f, (n + 1)..(n + 1))
    <3>1. \A a \in E, b \in (n + 1)..(n + 1) : a < b
      BY <1>3
    <3>2. E \in SUBSET (1..Len(f)) /\ (n + 1)..(n + 1) \in SUBSET (1..Len(f))
      BY <1>2, <1>3
    <3> QED
      BY <1>2, <3>1, <3>2, ExtractUnion
  <2>5. Extract(f, E) \o <<x>> = Append(Extract(f, E), x)
    BY <1>6, <1>7, <1>8, AppendIsConcat
  <2> QED
    BY <1>4, <1>7, <1>8, <1>10, <2>1, <2>2, <2>3, <2>4, <2>5 DEF x
<1> QED
  BY <1>9, <1>10

-----------------------------------------------------------------------------
(***************************************************************************)
(* A line of the parser and the same line in the reference                 *)
(***************************************************************************)
LineText(t, i) == SubSeq(t, PreviousEnd(t, i) + 1, LineLast(t, i))

LEMMA LineStripped ==
  ASSUME NEW t \in Seq(Symbol), NEW n \in Nat, n + 1 <= Len(t)
  PROVE  StripCr(SubSeq(t, PreviousEnd(t, n + 1) + 1, n)) = LineText(t, n + 1)
<1> DEFINE b == PreviousEnd(t, n + 1)
           s == SubSeq(t, b + 1, n)
<1>1. b \in 0..n
  BY LineBounds
<1>2. LineLast(t, n + 1) = IF n > b /\ t[n] = "cr" THEN n - 1 ELSE n
  BY <1>1 DEF LineLast
<1> HIDE DEF b
<1>3. /\ s \in Seq(Symbol) /\ Len(s) = n - b
      /\ \A i \in 1..(n - b) : s[i] = t[b + i]
  BY <1>1
<1>4. CASE n > b
  <2>1. s # <<>> /\ s[Len(s)] = t[n]
    <3>1. n - b \in 1..(n - b) /\ b + (n - b) = n
      BY <1>1, <1>4
    <3> QED
      BY <1>3, <3>1
  <2>2. SubSeq(s, 1, Len(s) - 1) = SubSeq(t, b + 1, n - 1)
    BY <1>1, <1>3, <1>4
  <2> QED
    BY <1>2, <1>4, <2>1, <2>2 DEF StripCr, WithoutLast, Last, LineText, b
<1>5. CASE n = b
  <2>1. s = <<>>
    BY <1>1, <1>3, <1>5
  <2> QED
    BY <1>2, <1>5, <2>1 DEF StripCr, LineText, b
<1> QED
  BY <1>1, <1>4, <1>5

LEMMA LineKinds ==
  ASSUME NEW t \in Seq(Symbol), NEW n \in Nat, n + 1 <= Len(t), t[n + 1] = "lf"
  PROVE  /\ LineText(t, n + 1) \in Seq(Symbol)
         /\ LineText(t, n + 1) = <<>> <=> BlankAt(t, n + 1)
         /\ LineText(t, n + 1) # <<>> =>
              (Head(LineText(t, n + 1)) # ":" /\ IsPrefix(DataPrefix, LineText(t, n + 1))
                 <=> DataAt(t, n + 1))
<1> DEFINE b == PreviousEnd(t, n + 1)
           l == LineLast(t, n + 1)
           s == LineText(t, n + 1)
<1>1. b \in 0..n /\ l \in b..n
  BY LineBounds
<1>2. s = SubSeq(t, b + 1, l)
  BY DEF LineText
<1>3. /\ BlankAt(t, n + 1) <=> l = b
      /\ DataAt(t, n + 1) <=> b + 2 <= l /\ t[b + 1] = "da" /\ t[b + 2] = "ta:"
  BY DEF BlankAt, DataAt
<1> HIDE DEF b, l, s
<1>4. /\ s \in Seq(Symbol) /\ Len(s) = l - b
      /\ \A i \in 1..(l - b) : s[i] = t[b + i]
  BY <1>1, <1>2
<1>5. s = <<>> <=> l = b
  BY <1>1, <1>4
<1>6. IsPrefix(DataPrefix, s) <=> 2 <= Len(s) /\ s[1] = "da" /\ s[2] = "ta:"
  <2>1. CASE 2 <= Len(s)
    <3>1. /\ SubSeq(s, 1, 2) \in Seq(Symbol) /\ Len(SubSeq(s, 1, 2)) = 2
          /\ SubSeq(s, 1, 2)[1] = s[1] /\ SubSeq(s, 1, 2)[2] = s[2]
      BY <1>4, <2>1
    <3>2. DataPrefix \in Seq(Symbol) /\ Len(DataPrefix) = 2 /\ DataPrefix[1] = "da" /\ DataPrefix[2] = "ta:"
      BY DEF DataPrefix, Symbol
    <3>3. SubSeq(DataPrefix, 1, 2) = DataPrefix
      BY <3>2
    <3>4. DataPrefix = SubSeq(s, 1, 2) <=> s[1] = "da" /\ s[2] = "ta:"
      <4>1. ASSUME s[1] = "da", s[2] = "ta:"
            PROVE  \A i \in 1..Len(DataPrefix) : DataPrefix[i] = SubSeq(s, 1, 2)[i]
        BY <3>1, <3>2, <4>1
      <4> QED
        BY <3>1, <3>2, <4>1, SeqEqual
    <3> QED
      BY <2>1, <3>2, <3>3, <3>4 DEF IsPrefix
  <2>2. CASE ~(2 <= Len(s))
    BY <2>2 DEF IsPrefix, DataPrefix
  <2> QED
    BY <2>1, <2>2
<1>7. s # <<>> => Head(s) = s[1]
  BY <1>4
<1>8. 2 <= Len(s) <=> b + 2 <= l
  BY <1>1, <1>4
<1>9. 2 <= Len(s) => s[1] = t[b + 1] /\ s[2] = t[b + 2]
  BY <1>1, <1>4
<1>10. s # <<>> => (Head(s) # ":" /\ IsPrefix(DataPrefix, s) <=> DataAt(t, n + 1))
  BY <1>3, <1>6, <1>7, <1>8, <1>9
<1> QED
  BY <1>3, <1>4, <1>5, <1>10 DEF s

LEMMA LineValue ==
  ASSUME NEW t \in Seq(Symbol), NEW n \in Nat, n + 1 <= Len(t), DataAt(t, n + 1)
  PROVE  StripSingleLeadingSpace(SubSeq(LineText(t, n + 1), Len(DataPrefix) + 1, Len(LineText(t, n + 1))))
           = Extract(t, ValueAt(t, n + 1))
<1> DEFINE b == PreviousEnd(t, n + 1)
           l == LineLast(t, n + 1)
           s == LineText(t, n + 1)
           v == SubSeq(s, Len(DataPrefix) + 1, Len(s))
<1>1. b \in 0..n /\ l \in b..n /\ b + 2 <= l
  BY LineBounds DEF DataAt
<1>2. s = SubSeq(t, b + 1, l)
  BY DEF LineText
<1>3. \A q : q \in ValueAt(t, n + 1) <=> q \in (b + 3)..l /\ ~(q = b + 3 /\ t[q] = "sp")
  BY DEF ValueAt
<1>4. Len(DataPrefix) = 2
  BY DEF DataPrefix
<1> HIDE DEF b, l, s
<1>5. v = SubSeq(t, b + 3, l)
  BY <1>1, <1>2, <1>4
<1> HIDE DEF v
<1>6. /\ v \in Seq(Symbol) /\ Len(v) = l - (b + 2)
      /\ \A i \in 1..(l - (b + 2)) : v[i] = t[b + 2 + i]
  BY <1>1, <1>5
<1>7. CASE b + 3 <= l /\ t[b + 3] = "sp"
  <2>1. ValueAt(t, n + 1) = (b + 4)..l
    <3>1. \A q : q \in (b + 3)..l /\ q # b + 3 <=> q \in (b + 4)..l
      BY <1>1
    <3> QED
      BY <1>3, <1>7, <3>1
  <2>2. v # <<>> /\ Head(v) = "sp"
    BY <1>1, <1>6, <1>7
  <2>3. Tail(v) = SubSeq(t, b + 4, l)
    BY <1>1, <1>5, <1>6, <1>7
  <2>4. b + 4 \in 1..(Len(t) + 1) /\ l \in ((b + 4) - 1)..Len(t)
    BY <1>1, <1>7
  <2>5. Extract(t, (b + 4)..l) = SubSeq(t, b + 4, l)
    BY <2>4, ExtractInterval
  <2>6. StripSingleLeadingSpace(v) = SubSeq(t, b + 4, l)
    BY <2>2, <2>3 DEF StripSingleLeadingSpace
  <2> QED
    BY <2>1, <2>5, <2>6 DEF s, v
<1>8. CASE ~(b + 3 <= l /\ t[b + 3] = "sp")
  <2>1. ValueAt(t, n + 1) = (b + 3)..l
    <3>1. \A q \in (b + 3)..l : b + 3 <= l
      BY <1>1
    <3> QED
      BY <1>3, <1>8, <3>1
  <2>2. ~(v # <<>> /\ Head(v) = "sp")
    BY <1>1, <1>6, <1>8
  <2>3. b + 3 \in 1..(Len(t) + 1) /\ l \in ((b + 3) - 1)..Len(t)
    BY <1>1
  <2>4. Extract(t, (b + 3)..l) = SubSeq(t, b + 3, l)
    BY <2>3, ExtractInterval
  <2>5. StripSingleLeadingSpace(v) = v
    BY <2>2 DEF StripSingleLeadingSpace
  <2> QED
    BY <1>5, <2>1, <2>4, <2>5 DEF s, v
<1> QED
  BY <1>7, <1>8

-----------------------------------------------------------------------------
(***************************************************************************)
(* One symbol further, the loop still agrees with the reference            *)
(***************************************************************************)

(* The loop's state p, begun when the events prior were known, is that of  *)
(* the stream t read up to n.                                              *)
Agrees(p, prior, t, n) ==
  /\ p.line = SubSeq(t, PreviousEnd(t, n + 1) + 1, n)
  /\ p.has_data <=> OpenLines(t, n) # {}
  /\ p.current = Extract(t, OpenText(t, n))
  /\ prior \o p.events = ReferenceEvents(t, n)

LEMMA OpenTextSame ==
  ASSUME NEW t, NEW n \in Nat, OpenLines(t, n + 1) = OpenLines(t, n)
  PROVE  OpenText(t, n + 1) = OpenText(t, n)
<1>1. n + 1 \in Nat
  OBVIOUS
<1>2. ASSUME NEW q \in OpenText(t, n + 1)
      PROVE  q \in 1..n
  <2>1. q \in 1..(n + 1) /\ \E k \in OpenLines(t, n) : q < k
    BY <1>1, OpenTextBounds
  <2>2. OpenLines(t, n) \subseteq 1..n
    BY OpenTextBounds
  <2> QED
    BY <2>1, <2>2
<1> QED
  BY <1>2 DEF OpenText

LEMMA ScanOther ==
  ASSUME NEW p \in ScanState, NEW prior, NEW t \in Seq(Symbol), NEW n \in Nat, n + 1 <= Len(t),
         Agrees(p, prior, t, n), ~p.failed, t[n + 1] # "lf"
  PROVE  Agrees(Scan(p, t[n + 1]), prior, t, n + 1)
<1> DEFINE b == PreviousEnd(t, n + 1)
           r == Scan(p, t[n + 1])
<1>1. r = [p EXCEPT !.line = Append(p.line, t[n + 1])]
  BY DEF Scan
<1>2. /\ r.line = Append(p.line, t[n + 1]) /\ r.has_data = p.has_data
      /\ r.current = p.current /\ r.events = p.events
  BY <1>1 DEF ScanState
<1>3. ~BlankAt(t, n + 1) /\ ~DataAt(t, n + 1)
  BY DEF BlankAt, DataAt
<1>4. OpenLines(t, n + 1) = OpenLines(t, n) /\ OpenText(t, n + 1) = OpenText(t, n)
  BY <1>3, OpenNext, OpenTextSame
<1>5. ReferenceEvents(t, n + 1) = ReferenceEvents(t, n)
  BY <1>3, ReferenceNext
<1>6. b \in 0..n /\ PreviousEnd(t, n + 2) = b
  BY LineBounds, PreviousEndNext
<1> HIDE DEF b, r
<1>7. Append(SubSeq(t, b + 1, n), t[n + 1]) = SubSeq(t, b + 1, n + 1)
  BY <1>6
<1>8. (n + 1) + 1 = n + 2
  OBVIOUS
<1>9. Agrees(r, prior, t, n + 1)
  BY <1>2, <1>4, <1>5, <1>6, <1>7, <1>8 DEF Agrees, b
<1> QED
  BY <1>9 DEF r

LineTaken(p) == [p EXCEPT !.line = <<>>]

LEMMA LineTakenFields ==
  ASSUME NEW p \in ScanState
  PROVE  /\ LineTaken(p) \in ScanState /\ LineTaken(p).line = <<>>
         /\ LineTaken(p).has_data = p.has_data /\ LineTaken(p).current = p.current
         /\ LineTaken(p).events = p.events /\ LineTaken(p).failed = p.failed
BY EmptySeq DEF LineTaken, ScanState

(* What a newline does, by the kind of the line that it ends.              *)
LEMMA ScanNewline ==
  ASSUME NEW p \in ScanState, NEW prior, NEW t \in Seq(Symbol), NEW n \in Nat, n + 1 <= Len(t),
         Agrees(p, prior, t, n), ~p.failed, t[n + 1] = "lf"
  PROVE  /\ BlankAt(t, n + 1) => Scan(p, t[n + 1]) = EndEvent(LineTaken(p))
         /\ DataAt(t, n + 1) =>
              Scan(p, t[n + 1]) = AppendDataLine(LineTaken(p), Extract(t, ValueAt(t, n + 1)))
         /\ ~BlankAt(t, n + 1) /\ ~DataAt(t, n + 1) => Scan(p, t[n + 1]) = LineTaken(p)
<1> DEFINE p0 == LineTaken(p)
           s == LineText(t, n + 1)
<1>1. StripCr(p.line) = s
  BY LineStripped DEF Agrees
<1>2. Scan(p, t[n + 1]) = HandleLine(p0, s)
  BY <1>1 DEF Scan, LineTaken
<1>3. /\ s = <<>> <=> BlankAt(t, n + 1)
      /\ s # <<>> => (Head(s) # ":" /\ IsPrefix(DataPrefix, s) <=> DataAt(t, n + 1))
  BY LineKinds
<1>4. DataAt(t, n + 1) => StripSingleLeadingSpace(SubSeq(s, Len(DataPrefix) + 1, Len(s)))
                            = Extract(t, ValueAt(t, n + 1))
  BY LineValue
<1>5. ~(BlankAt(t, n + 1) /\ DataAt(t, n + 1))
  BY OpenNext
<1> HIDE DEF s, p0
<1>6. /\ BlankAt(t, n + 1) => HandleLine(p0, s) = EndEvent(p0)
      /\ DataAt(t, n + 1) => HandleLine(p0, s) = AppendDataLine(p0, Extract(t, ValueAt(t, n + 1)))
      /\ ~BlankAt(t, n + 1) /\ ~DataAt(t, n + 1) => HandleLine(p0, s) = p0
  BY <1>3, <1>4, <1>5 DEF HandleLine
<1> QED
  BY <1>2, <1>6 DEF p0

LEMMA ConcatAppend ==
  ASSUME NEW S, NEW a \in Seq(S), NEW b \in Seq(S), NEW e \in S
  PROVE  a \o Append(b, e) = Append(a \o b, e)
<1>1. a \o b \in Seq(S) /\ Append(b, e) \in Seq(S)
  OBVIOUS
<1>2. /\ a \o Append(b, e) \in Seq(S) /\ Append(a \o b, e) \in Seq(S)
      /\ Len(a \o Append(b, e)) = Len(Append(a \o b, e))
  BY <1>1
<1>3. \A i \in 1..Len(a \o Append(b, e)) : (a \o Append(b, e))[i] = Append(a \o b, e)[i]
  BY <1>1
<1> HIDE <1>1
<1> QED
  BY <1>2, <1>3, SeqEqual

(* After a newline the loop is at the beginning of a line.                 *)
LEMMA LineBegins ==
  ASSUME NEW t \in Seq(Symbol), NEW n \in Nat, n + 1 <= Len(t), t[n + 1] = "lf"
  PROVE  SubSeq(t, PreviousEnd(t, (n + 1) + 1) + 1, n + 1) = <<>>
<1>1. (n + 1) + 1 = n + 2
  OBVIOUS
<1>2. PreviousEnd(t, (n + 1) + 1) = n + 1
  BY <1>1, PreviousEndNext
<1>3. SubSeq(t, (n + 1) + 1, n + 1) = <<>>
  OBVIOUS
<1> QED
  BY <1>2, <1>3

LEMMA ScanIgnored ==
  ASSUME NEW p \in ScanState, NEW prior, NEW t \in Seq(Symbol), NEW n \in Nat, n + 1 <= Len(t),
         Agrees(p, prior, t, n), ~p.failed, t[n + 1] = "lf",
         ~BlankAt(t, n + 1), ~DataAt(t, n + 1)
  PROVE  Agrees(Scan(p, t[n + 1]), prior, t, n + 1)
<1> DEFINE r == Scan(p, t[n + 1])
<1>1. r = LineTaken(p)
  BY ScanNewline
<1> HIDE DEF r
<1>2. r.line = <<>> /\ r.has_data = p.has_data /\ r.current = p.current /\ r.events = p.events
  BY <1>1, LineTakenFields
<1>3. OpenLines(t, n + 1) = OpenLines(t, n) /\ OpenText(t, n + 1) = OpenText(t, n)
  BY OpenNext, OpenTextSame
<1>4. ReferenceEvents(t, n + 1) = ReferenceEvents(t, n)
  BY ReferenceNext
<1>5. Agrees(r, prior, t, n + 1)
  BY <1>2, <1>3, <1>4, LineBegins DEF Agrees
<1> QED
  BY <1>5 DEF r

LEMMA ScanBlank ==
  ASSUME NEW p \in ScanState, NEW prior \in Seq(Seq(Symbol)), NEW t \in Seq(Symbol),
         NEW n \in Nat, n + 1 <= Len(t),
         Agrees(p, prior, t, n), ~p.failed, t[n + 1] = "lf", BlankAt(t, n + 1)
  PROVE  Agrees(Scan(p, t[n + 1]), prior, t, n + 1)
<1> DEFINE r == Scan(p, t[n + 1])
           p0 == LineTaken(p)
<1>1. r = EndEvent(p0)
  BY ScanNewline
<1>2. /\ p0.line = <<>> /\ p0.has_data = p.has_data /\ p0.current = p.current
      /\ p0.events = p.events /\ p0 \in ScanState
  BY LineTakenFields
<1> HIDE DEF r, p0
<1>3. OpenLines(t, n + 1) = {} /\ OpenText(t, n + 1) = {}
  <2>1. OpenLines(t, n + 1) = {}
    BY OpenNext
  <2> QED
    BY <2>1 DEF OpenText
<1>4. Extract(t, OpenText(t, n + 1)) = <<>>
  BY <1>3, ExtractNothing
<1>5. CASE p.has_data
  <2>1. r = [p0 EXCEPT !.events = Append(p0.events, p0.current), !.current = <<>>, !.has_data = FALSE]
    BY <1>1, <1>2, <1>5 DEF EndEvent
  <2>2. r.line = <<>> /\ ~r.has_data /\ r.current = <<>> /\ r.events = Append(p.events, p.current)
    BY <1>2, <2>1 DEF ScanState
  <2>3. ReferenceEvents(t, n + 1) = Append(ReferenceEvents(t, n), p.current)
    BY <1>5, ReferenceNext DEF Agrees
  <2>4. p.events \in Seq(Seq(Symbol)) /\ p.current \in Seq(Symbol)
    BY DEF ScanState
  <2>5. prior \o Append(p.events, p.current) = Append(prior \o p.events, p.current)
    BY <2>4, ConcatAppend
  <2>6. prior \o p.events = ReferenceEvents(t, n)
    BY DEF Agrees
  <2>7. Agrees(r, prior, t, n + 1)
    BY <1>3, <1>4, <2>2, <2>3, <2>5, <2>6, LineBegins DEF Agrees
  <2> QED
    BY <2>7 DEF r
<1>6. CASE ~p.has_data
  <2>1. r = p0
    BY <1>1, <1>2, <1>6 DEF EndEvent
  <2>2. OpenLines(t, n) = {} /\ p.current = Extract(t, OpenText(t, n)) /\ prior \o p.events = ReferenceEvents(t, n)
    BY <1>6 DEF Agrees
  <2>3. OpenText(t, n) = {}
    BY <2>2 DEF OpenText
  <2>4. p.current = <<>>
    BY <2>2, <2>3, ExtractNothing
  <2>5. ReferenceEvents(t, n + 1) = ReferenceEvents(t, n)
    BY <2>2, ReferenceNext
  <2>6. Agrees(r, prior, t, n + 1)
    BY <1>2, <1>3, <1>4, <1>6, <2>1, <2>2, <2>4, <2>5, LineBegins DEF Agrees
  <2> QED
    BY <2>6 DEF r
<1> QED
  BY <1>5, <1>6

(* The text of the open event grows by the value of a data line, and by a  *)
(* newline before it if it had a line already.                             *)
LEMMA ExtractData ==
  ASSUME NEW t \in Seq(Symbol), NEW n \in Nat, n + 1 <= Len(t), DataAt(t, n + 1)
  PROVE  Extract(t, OpenText(t, n + 1)) =
           (IF OpenLines(t, n) # {} THEN Append(Extract(t, OpenText(t, n)), "lf")
                                    ELSE Extract(t, OpenText(t, n)))
             \o Extract(t, ValueAt(t, n + 1))
<1> DEFINE b == PreviousEnd(t, n + 1)
           V == ValueAt(t, n + 1)
           E == OpenText(t, n)
<1>1. V \in SUBSET (1..Len(t)) /\ \A q \in V : q > b
  <2>1. b \in 0..n /\ LineLast(t, n + 1) \in b..n
    BY LineBounds
  <2>2. V \subseteq (b + 3)..LineLast(t, n + 1)
    BY DEF ValueAt
  <2> QED
    BY <2>1, <2>2
<1>2. n \in 0..Len(t)
  OBVIOUS
<1>3. E \in SUBSET (1..Len(t)) /\ Extract(t, E) \in Seq(Symbol)
  BY <1>2, OpenTextType
<1>4. Extract(t, V) \in Seq(Symbol)
  BY <1>1, ExtractType
<1>5. CASE OpenLines(t, n) = {}
  <2>1. E = {} /\ OpenText(t, n + 1) = V
    BY <1>5, OpenTextFirst DEF OpenText
  <2>2. Extract(t, E) = <<>>
    BY <2>1, ExtractNothing
  <2>3. <<>> \o Extract(t, V) = Extract(t, V)
    BY <1>4
  <2> QED
    BY <1>5, <2>1, <2>2, <2>3
<1>6. CASE OpenLines(t, n) # {}
  <2>1. OpenLines(t, n) \in SUBSET (1..n)
    BY OpenTextBounds
  <2>2. PICK m \in OpenLines(t, n) : \A k \in OpenLines(t, n) : k <= m
    BY <1>6, <2>1, GreatestNumber
  <2>3. /\ OpenText(t, n + 1) = (E \union {m}) \union V
        /\ \A q \in E : q \in Int /\ q < m
        /\ m \in 1..n /\ t[m] = "lf" /\ m <= b
    BY <2>2, OpenTextNext
  <2> HIDE DEF b, V, E
  <2>4. {m} \in SUBSET (1..Len(t)) /\ (E \union {m}) \in SUBSET (1..Len(t))
    BY <1>3, <2>3
  <2>5. \A x \in E, y \in {m} : x < y
    BY <2>3
  <2>6. b \in Int
    BY LineBounds DEF b
  <2>7. \A x \in E \union {m}, y \in V : x < y
    BY <1>1, <2>3, <2>6
  <2>8. Extract(t, {m}) = <<"lf">>
    <3>1. {m} = m..m
      BY <2>3
    <3>2. m \in 1..(Len(t) + 1) /\ m \in (m - 1)..Len(t)
      BY <2>3
    <3>3. Extract(t, m..m) = SubSeq(t, m, m)
      BY <3>2, ExtractInterval
    <3>4. SubSeq(t, m, m) = <<t[m]>>
      <4>1. m \in 1..Len(t)
        BY <2>3
      <4>2. /\ SubSeq(t, m, m) \in Seq(Symbol) /\ Len(SubSeq(t, m, m)) = 1
            /\ SubSeq(t, m, m)[1] = t[m]
        BY <4>1, SubSeqProperties
      <4>3. <<t[m]>> \in Seq(Symbol) /\ Len(<<t[m]>>) = 1 /\ <<t[m]>>[1] = t[m]
        BY <4>1
      <4>4. \A i \in 1..Len(<<t[m]>>) : SubSeq(t, m, m)[i] = <<t[m]>>[i]
        BY <4>2, <4>3
      <4> QED
        BY <4>2, <4>3, <4>4, SeqEqual
    <3> QED
      BY <2>3, <3>1, <3>3, <3>4
  <2>9. Extract(t, E \union {m}) = Extract(t, E) \o <<"lf">>
    BY <1>3, <2>4, <2>5, <2>8, ExtractUnion
  <2>10. Extract(t, (E \union {m}) \union V) = Extract(t, E \union {m}) \o Extract(t, V)
    BY <1>1, <2>4, <2>7, ExtractUnion
  <2>11. Append(Extract(t, E), "lf") = Extract(t, E) \o <<"lf">>
    <3>1. "lf" \in Symbol
      BY DEF Symbol
    <3> QED
      BY <1>3, <3>1, AppendIsConcat
  <2> QED
    BY <1>6, <2>3, <2>9, <2>10, <2>11 DEF E, V
<1> QED
  BY <1>5, <1>6

LEMMA ScanData ==
  ASSUME NEW p \in ScanState, NEW prior, NEW t \in Seq(Symbol), NEW n \in Nat, n + 1 <= Len(t),
         Agrees(p, prior, t, n), ~p.failed, t[n + 1] = "lf", DataAt(t, n + 1),
         ~Scan(p, t[n + 1]).failed
  PROVE  Agrees(Scan(p, t[n + 1]), prior, t, n + 1)
<1> DEFINE r == Scan(p, t[n + 1])
           p0 == LineTaken(p)
           v == Extract(t, ValueAt(t, n + 1))
<1>1. r = AppendDataLine(p0, v)
  BY ScanNewline
<1>2. /\ p0.line = <<>> /\ p0.has_data = p.has_data /\ p0.current = p.current
      /\ p0.events = p.events /\ p0 \in ScanState
  BY LineTakenFields
<1>3. ~r.failed
  OBVIOUS
<1> HIDE DEF r, p0, v
<1>4. r = [p0 EXCEPT !.current = (IF p0.has_data THEN Append(p0.current, "lf") ELSE p0.current) \o v,
                     !.has_data = TRUE]
  BY <1>1, <1>2, <1>3 DEF AppendDataLine, ScanState
<1>5. /\ r.line = <<>> /\ r.has_data /\ r.events = p.events
      /\ r.current = (IF p.has_data THEN Append(p.current, "lf") ELSE p.current) \o v
  BY <1>2, <1>4 DEF ScanState
<1>6. OpenLines(t, n + 1) # {}
  BY OpenNext
<1>7. ReferenceEvents(t, n + 1) = ReferenceEvents(t, n)
  BY OpenNext, ReferenceNext
<1>8. r.current = Extract(t, OpenText(t, n + 1))
  BY <1>5, ExtractData DEF Agrees, v
<1>9. Agrees(r, prior, t, n + 1)
  BY <1>5, <1>6, <1>7, <1>8, LineBegins DEF Agrees
<1> QED
  BY <1>9 DEF r

LEMMA ScanAgrees ==
  ASSUME NEW p \in ScanState, NEW prior \in Seq(Seq(Symbol)), NEW t \in Seq(Symbol),
         NEW n \in Nat, n + 1 <= Len(t),
         Agrees(p, prior, t, n), ~p.failed, ~Scan(p, t[n + 1]).failed
  PROVE  Agrees(Scan(p, t[n + 1]), prior, t, n + 1)
BY ScanOther, ScanIgnored, ScanBlank, ScanData

-----------------------------------------------------------------------------
(***************************************************************************)
(* The loop over a text: it begins with what the buffer holds, in which    *)
(* there is no newline, and goes on with a chunk of the stream             *)
(***************************************************************************)

(* The loop ends with the first exception.                                 *)
LEMMA RunSucceeds ==
  ASSUME NEW text \in Seq(Symbol), NEW start, NEW f, IsRun(f, start, text),
         ~f[Len(text)].failed, NEW k \in 0..Len(text)
  PROVE  ~f[k].failed
<1> DEFINE T == {d \in Nat : d <= Len(text) => ~f[Len(text) - d].failed}
<1>1. Len(text) \in Nat
  OBVIOUS
<1>2. 0 \in T
  BY <1>1
<1>3. ASSUME NEW d \in Nat, d \in T
      PROVE  d + 1 \in T
  <2> SUFFICES ASSUME d + 1 <= Len(text)
               PROVE  ~f[Len(text) - (d + 1)].failed
    OBVIOUS
  <2>1. ~f[Len(text) - d].failed
    BY <1>1, <1>3
  <2>2. Len(text) - d \in 1..Len(text) /\ (Len(text) - d) - 1 = Len(text) - (d + 1)
    BY <1>1
  <2>3. f[Len(text) - d] = Scan(f[Len(text) - (d + 1)], text[Len(text) - d])
    BY <2>2 DEF IsRun
  <2> QED
    BY <2>1, <2>3 DEF Scan
<1> HIDE DEF T
<1>4. \A d \in Nat : d \in T
  BY <1>2, <1>3, SetInduction
<1>5. Len(text) - k \in Nat /\ Len(text) - k <= Len(text) /\ Len(text) - (Len(text) - k) = k
  BY <1>1
<1> QED
  BY <1>4, <1>5 DEF T

(* What was left in the buffer is a line without its end.                  *)
Collected(p, start, text, k) ==
  /\ p.line = SubSeq(text, 1, k) /\ p.current = start.current
  /\ p.has_data = start.has_data /\ p.events = start.events /\ ~p.failed

LEMMA RunCollects ==
  ASSUME NEW text \in Seq(Symbol), NEW start \in ScanState, start.line = <<>>, ~start.failed,
         NEW f, IsRun(f, start, text),
         NEW m \in 0..Len(text), \A j \in 1..m : text[j] # "lf"
  PROVE  Collected(f[m], start, text, m)
<1> DEFINE T == {k \in Nat : k <= m => Collected(f[k], start, text, k)}
<1>1. Len(text) \in Nat /\ m \in Nat /\ m <= Len(text)
  OBVIOUS
<1>2. 0 \in T
  <2>1. SubSeq(text, 1, 0) = <<>>
    OBVIOUS
  <2>2. f[0] = start
    BY DEF IsRun
  <2>3. Collected(f[0], start, text, 0)
    BY <2>1, <2>2 DEF Collected
  <2> QED
    BY <2>3
<1>3. ASSUME NEW k \in Nat, k \in T
      PROVE  k + 1 \in T
  <2> SUFFICES ASSUME k + 1 <= m
               PROVE  Collected(f[k + 1], start, text, k + 1)
    OBVIOUS
  <2>1. Collected(f[k], start, text, k)
    BY <1>1, <1>3
  <2>2. k + 1 \in 1..Len(text) /\ (k + 1) - 1 = k /\ k \in 0..Len(text)
    BY <1>1
  <2>3. f[k + 1] = Scan(f[k], text[k + 1]) /\ f[k] \in ScanState
    BY <2>2 DEF IsRun
  <2>4. text[k + 1] # "lf"
    BY <1>1
  <2>5. f[k + 1] = [f[k] EXCEPT !.line = Append(f[k].line, text[k + 1])]
    BY <2>1, <2>3, <2>4 DEF Scan, Collected
  <2>6. /\ f[k + 1].line = Append(f[k].line, text[k + 1]) /\ f[k + 1].current = f[k].current
        /\ f[k + 1].has_data = f[k].has_data /\ f[k + 1].events = f[k].events
        /\ f[k + 1].failed = f[k].failed
    BY <2>3, <2>5 DEF ScanState
  <2>7. Append(SubSeq(text, 1, k), text[k + 1]) = SubSeq(text, 1, k + 1)
    BY <2>2
  <2> QED
    BY <2>1, <2>6, <2>7 DEF Collected
<1> HIDE DEF T
<1>4. m \in T
  BY <1>1, <1>2, <1>3, SetInduction
<1> QED
  BY <1>1, <1>4 DEF T

(* Over a chunk of the stream t, the loop agrees with the reference.       *)
LEMMA RunAgrees ==
  ASSUME NEW text \in Seq(Symbol), NEW start, NEW f, IsRun(f, start, text),
         ~f[Len(text)].failed,
         NEW t \in Seq(Symbol), NEW at \in Nat, NEW m \in Nat, NEW n \in Nat,
         at + n <= Len(t), Len(text) = m + n,
         \A d \in 1..n : text[m + d] = t[at + d],
         NEW prior \in Seq(Seq(Symbol)), Agrees(f[m], prior, t, at)
  PROVE  Agrees(f[m + n], prior, t, at + n)
<1> DEFINE T == {d \in Nat : d <= n => Agrees(f[m + d], prior, t, at + d)}
<1>1. 0 \in T
  <2>1. m + 0 = m /\ at + 0 = at
    OBVIOUS
  <2> QED
    BY <2>1
<1>2. ASSUME NEW d \in Nat, d \in T
      PROVE  d + 1 \in T
  <2> SUFFICES ASSUME d + 1 <= n
               PROVE  Agrees(f[m + (d + 1)], prior, t, at + (d + 1))
    OBVIOUS
  <2>1. Agrees(f[m + d], prior, t, at + d)
    BY <1>2
  <2>2. /\ m + (d + 1) \in 1..Len(text) /\ (m + (d + 1)) - 1 = m + d
        /\ m + d \in 0..Len(text) /\ m + (d + 1) \in 0..Len(text)
        /\ at + d \in Nat /\ at + (d + 1) = (at + d) + 1 /\ (at + d) + 1 <= Len(t)
    OBVIOUS
  <2>3. text[m + (d + 1)] = t[(at + d) + 1]
    <3>1. d + 1 \in 1..n
      OBVIOUS
    <3> QED
      BY <2>2, <3>1
  <2>4. f[m + (d + 1)] = Scan(f[m + d], t[(at + d) + 1]) /\ f[m + d] \in ScanState
    BY <2>2, <2>3 DEF IsRun
  <2>5. ~f[m + d].failed /\ ~f[m + (d + 1)].failed
    BY <2>2, RunSucceeds
  <2>6. Agrees(Scan(f[m + d], t[(at + d) + 1]), prior, t, (at + d) + 1)
    BY <2>1, <2>2, <2>4, <2>5, ScanAgrees
  <2> QED
    BY <2>2, <2>4, <2>6
<1> HIDE DEF T
<1>3. n \in T
  BY <1>1, <1>2, SetInduction
<1> QED
  BY <1>3 DEF T

(* The limits: a line has at most the symbols read so far, and an event    *)
(* never outgrows MaxBuffer.                                               *)
LEMMA AppendDataLineBound ==
  ASSUME NEW p \in ScanState, Len(p.current) <= MaxBuffer, NEW value \in Seq(Symbol)
  PROVE  Len(AppendDataLine(p, value).current) <= MaxBuffer /\ AppendDataLine(p, value).line = p.line
<1> DEFINE r == AppendDataLine(p, value)
           separator == IF p.has_data THEN 1 ELSE 0
           head == IF p.has_data THEN Append(p.current, "lf") ELSE p.current
<1>1. MaxBuffer \in Nat /\ p.current \in Seq(Symbol) /\ "lf" \in Symbol
  BY ParserAssumption DEF ScanState, Symbol
<1>2. CASE Len(p.current) + Len(value) + separator > MaxBuffer
  <2>1. r = [p EXCEPT !.failed = TRUE]
    BY <1>2 DEF AppendDataLine
  <2>2. r.current = p.current /\ r.line = p.line
    BY <2>1 DEF ScanState
  <2> QED
    BY <2>2
<1>3. CASE ~(Len(p.current) + Len(value) + separator > MaxBuffer)
  <2>1. r = [p EXCEPT !.current = head \o value, !.has_data = TRUE]
    BY <1>3 DEF AppendDataLine
  <2>2. r.current = head \o value /\ r.line = p.line
    BY <2>1 DEF ScanState
  <2>3. head \in Seq(Symbol) /\ Len(head) = Len(p.current) + separator
    <3>1. Append(p.current, "lf") \in Seq(Symbol) /\ Len(Append(p.current, "lf")) = Len(p.current) + 1
      BY <1>1, AppendProperties
    <3>2. Len(p.current) + 0 = Len(p.current)
      BY <1>1
    <3> QED
      BY <1>1, <3>1, <3>2
  <2>4. Len(head \o value) = Len(head) + Len(value)
    BY <2>3
  <2>5. Len(head) + Len(value) <= MaxBuffer
    <3>1. Len(p.current) \in Nat /\ Len(value) \in Nat /\ separator \in Nat
      BY <1>1
    <3> HIDE DEF head, separator
    <3> QED
      BY <1>1, <1>3, <2>3, <3>1
  <2> HIDE DEF r, head
  <2>6. Len(r.current) <= MaxBuffer
    BY <2>2, <2>4, <2>5
  <2> QED
    BY <2>2, <2>6 DEF r
<1> QED
  BY <1>2, <1>3

LEMMA ScanBound ==
  ASSUME NEW p \in ScanState, Len(p.current) <= MaxBuffer, NEW symbol \in Symbol
  PROVE  /\ Len(Scan(p, symbol).current) <= MaxBuffer
         /\ Len(Scan(p, symbol).line) <= Len(p.line) + 1
<1>0. MaxBuffer \in Nat /\ p.line \in Seq(Symbol) /\ Len(p.line) \in Nat /\ Len(<<>>) = 0
  BY ParserAssumption DEF ScanState
<1>1. CASE p.failed
  BY <1>0, <1>1 DEF Scan
<1>2. CASE ~p.failed /\ symbol # "lf"
  <2>1. Scan(p, symbol) = [p EXCEPT !.line = Append(p.line, symbol)]
    BY <1>2 DEF Scan
  <2>2. Scan(p, symbol).line = Append(p.line, symbol) /\ Scan(p, symbol).current = p.current
    BY <2>1 DEF ScanState
  <2> QED
    BY <1>0, <2>2
<1>3. CASE ~p.failed /\ symbol = "lf"
  <2> DEFINE p0 == LineTaken(p)
             s  == StripCr(p.line)
             v  == StripSingleLeadingSpace(SubSeq(s, Len(DataPrefix) + 1, Len(s)))
  <2>1. Scan(p, symbol) = HandleLine(p0, s)
    BY <1>3 DEF Scan, LineTaken
  <2>2. p0 \in ScanState /\ p0.line = <<>> /\ p0.current = p.current
    BY LineTakenFields
  <2>3. s \in Seq(Symbol)
    BY <1>0, StripType
  <2>4. v \in Seq(Symbol)
    <3>1. Len(DataPrefix) = 2
      BY DEF DataPrefix
    <3>2. SubSeq(s, Len(DataPrefix) + 1, Len(s)) \in Seq(Symbol)
      BY <2>3, <3>1
    <3> QED
      BY <3>2, StripType
  <2> HIDE DEF p0, s
  <2>5. CASE s = <<>>
    <3>1. Scan(p, symbol) = EndEvent(p0)
      BY <2>1, <2>5 DEF HandleLine
    <3>2. EndEvent(p0).line = <<>> /\ (EndEvent(p0).current = <<>> \/ EndEvent(p0).current = p.current)
      BY <2>2 DEF EndEvent, ScanState
    <3> QED
      BY <1>0, <3>1, <3>2
  <2>6. CASE s # <<>> /\ Head(s) # ":" /\ IsPrefix(DataPrefix, s)
    <3>1. Scan(p, symbol) = AppendDataLine(p0, v)
      BY <2>1, <2>6 DEF HandleLine
    <3> HIDE DEF v
    <3>2. Len(AppendDataLine(p0, v).current) <= MaxBuffer /\ AppendDataLine(p0, v).line = <<>>
      BY <2>2, <2>4, AppendDataLineBound
    <3> QED
      BY <1>0, <3>1, <3>2
  <2>7. CASE s # <<>> /\ ~(Head(s) # ":" /\ IsPrefix(DataPrefix, s))
    <3>1. Scan(p, symbol) = p0
      BY <2>1, <2>7 DEF HandleLine
    <3> QED
      BY <1>0, <2>2, <3>1
  <2> QED
    BY <2>5, <2>6, <2>7
<1> QED
  BY <1>1, <1>2, <1>3

LEMMA RunBound ==
  ASSUME NEW text \in Seq(Symbol), NEW start \in ScanState, start.line = <<>>,
         Len(start.current) <= MaxBuffer, NEW f, IsRun(f, start, text)
  PROVE  Len(f[Len(text)].line) <= Len(text) /\ Len(f[Len(text)].current) <= MaxBuffer
<1> DEFINE T == {k \in Nat : k <= Len(text) =>
                   Len(f[k].line) <= k /\ Len(f[k].current) <= MaxBuffer}
<1>1. Len(text) \in Nat
  OBVIOUS
<1>2. 0 \in T
  BY DEF IsRun
<1>3. ASSUME NEW k \in Nat, k \in T
      PROVE  k + 1 \in T
  <2> SUFFICES ASSUME k + 1 <= Len(text)
               PROVE  Len(f[k + 1].line) <= k + 1 /\ Len(f[k + 1].current) <= MaxBuffer
    OBVIOUS
  <2>1. Len(f[k].line) <= k /\ Len(f[k].current) <= MaxBuffer
    BY <1>1, <1>3
  <2>2. k + 1 \in 1..Len(text) /\ (k + 1) - 1 = k /\ k \in 0..Len(text) /\ k + 1 \in 0..Len(text)
    BY <1>1
  <2>3. f[k + 1] = Scan(f[k], text[k + 1]) /\ f[k] \in ScanState /\ text[k + 1] \in Symbol
    BY <2>2 DEF IsRun
  <2>4. Len(f[k + 1].line) <= Len(f[k].line) + 1 /\ Len(f[k + 1].current) <= MaxBuffer
    BY <2>1, <2>3, ScanBound
  <2>5. f[k + 1] \in ScanState
    BY <2>2 DEF IsRun
  <2>6. Len(f[k].line) \in Nat /\ Len(f[k + 1].line) \in Nat
    BY <2>3, <2>5 DEF ScanState
  <2> QED
    BY <2>1, <2>4, <2>6
<1> HIDE DEF T
<1>4. Len(text) \in T
  BY <1>1, <1>2, <1>3, SetInduction
<1> QED
  BY <1>1, <1>4 DEF T

-----------------------------------------------------------------------------
(***************************************************************************)
(* The inductive invariant                                                 *)
(***************************************************************************)
Typed ==
  /\ stream \in Seq(Symbol) /\ fed \in 0..Len(stream)
  /\ buffer \in Seq(Symbol) /\ current \in Seq(Symbol) /\ has_data \in BOOLEAN
  /\ events \in Seq(Seq(Symbol))
  /\ first_seen \in BOOLEAN /\ done \in BOOLEAN /\ failed \in BOOLEAN

(* Between two calls the parser keeps what the rest of the stream needs:   *)
(* the line without its end, and the text of the open event.               *)
Resumable ==
  /\ buffer = SubSeq(stream, PreviousEnd(stream, fed + 1) + 1, fed)
  /\ has_data <=> OpenLines(stream, fed) # {}
  /\ current = Extract(stream, OpenText(stream, fed))

Holds(list, S) == \E k \in DOMAIN list : list[k] \in S
DoneTexts == {<<"[DONE]">>}
DataTexts == Seq(Symbol) \ {<<>>}

Watched ==
  /\ failed => done
  /\ ~failed => (done <=> Holds(events, DoneTexts))
  /\ first_seen <=> Holds(events, DataTexts)
  /\ ttfts = IF first_seen THEN 1 ELSE 0

ParserInv ==
  Typed /\ CutIndependent /\ BufferBounded /\ (~failed => Resumable) /\ Watched

LEMMA HoldsConcat ==
  ASSUME NEW S, NEW a \in Seq(Seq(Symbol)), NEW b \in Seq(Seq(Symbol))
  PROVE  Holds(a \o b, S) <=> Holds(a, S) \/ Holds(b, S)
<1> DEFINE c == a \o b
<1>1. /\ DOMAIN a = 1..Len(a) /\ DOMAIN b = 1..Len(b) /\ DOMAIN c = 1..(Len(a) + Len(b))
      /\ Len(a) \in Nat /\ Len(b) \in Nat
      /\ \A i \in 1..(Len(a) + Len(b)) : c[i] = IF i <= Len(a) THEN a[i] ELSE b[i - Len(a)]
  OBVIOUS
<1> HIDE DEF c
<1>2. ASSUME NEW k \in DOMAIN a, a[k] \in S
      PROVE  \E i \in DOMAIN c : c[i] \in S
  BY <1>1, <1>2
<1>3. ASSUME NEW k \in DOMAIN b, b[k] \in S
      PROVE  \E i \in DOMAIN c : c[i] \in S
  <2>1. /\ Len(a) + k \in DOMAIN c /\ ~(Len(a) + k <= Len(a)) /\ (Len(a) + k) - Len(a) = k
    BY <1>1
  <2>2. c[Len(a) + k] = b[k]
    BY <1>1, <2>1
  <2> QED
    BY <1>3, <2>1, <2>2
<1>4. ASSUME NEW i \in DOMAIN c, c[i] \in S
      PROVE  (\E k \in DOMAIN a : a[k] \in S) \/ (\E k \in DOMAIN b : b[k] \in S)
  <2>1. CASE i <= Len(a)
    BY <1>1, <1>4, <2>1
  <2>2. CASE ~(i <= Len(a))
    <3>1. i - Len(a) \in DOMAIN b /\ c[i] = b[i - Len(a)]
      BY <1>1, <2>2
    <3> QED
      BY <1>4, <3>1
  <2> QED
    BY <2>1, <2>2
<1> QED
  BY <1>2, <1>3, <1>4 DEF Holds, c

LEMMA HoldsNothing ==
  ASSUME NEW S
  PROVE  ~Holds(<<>>, S)
BY DEF Holds

(* Before its first symbol a stream has no event, and nothing is open.     *)
LEMMA ReferenceBegins ==
  ASSUME NEW t \in Seq(Symbol)
  PROVE  /\ ReferenceEvents(t, 0) = <<>> /\ OpenLines(t, 0) = {} /\ OpenText(t, 0) = {}
         /\ SubSeq(t, PreviousEnd(t, 0 + 1) + 1, 0) = <<>>
<1>1. OpenLines(t, 0) = {} /\ OpenText(t, 0) = {} /\ EventEnds(t, 0) = {}
  BY DEF OpenLines, OpenText, EventEnds
<1>2. ReferenceEvents(t, 0) = <<>>
  BY <1>1, ExtractNothing DEF ReferenceEvents
<1>3. PreviousEnd(t, 0 + 1) = 0
  BY LineBounds
<1>4. SubSeq(t, 0 + 1, 0) = <<>>
  OBVIOUS
<1> QED
  BY <1>1, <1>2, <1>3, <1>4

Begun ==
  /\ stream \in Seq(Symbol) /\ fed = 0
  /\ buffer = <<>> /\ current = <<>> /\ has_data = FALSE
  /\ events = <<>> /\ first_seen = FALSE /\ ttfts = 0
  /\ done = FALSE /\ failed = FALSE

LEMMA Beginning == Begun => ParserInv
<1> SUFFICES ASSUME Begun PROVE ParserInv
  OBVIOUS
<1> USE DEF Begun
<1>1. /\ <<>> \in Seq(Symbol) /\ <<>> \in Seq(Seq(Symbol)) /\ Len(<<>>) = 0
      /\ 0 \in 0..Len(stream)
  OBVIOUS
<1>2. Typed
  BY <1>1 DEF Typed
<1>3. BufferBounded
  BY <1>1, ParserAssumption DEF BufferBounded
<1>4. CutIndependent
  BY ReferenceBegins DEF CutIndependent
<1>5. Extract(stream, OpenText(stream, 0)) = <<>>
  BY ReferenceBegins, ExtractNothing
<1>6. Resumable
  BY <1>5, ReferenceBegins DEF Resumable
<1>7. Watched
  BY HoldsNothing DEF Watched
<1> QED
  BY <1>2, <1>3, <1>4, <1>6, <1>7 DEF ParserInv

LEMMA InitInv == Init => ParserInv
<1> SUFFICES ASSUME Init PROVE ParserInv
  OBVIOUS
<1>1. stream \in Seq(Symbol)
  BY ParserAssumption DEF Init
<1> QED
  BY <1>1, Beginning DEF Init, Begun

(* A call of feed() on the buffer and the next n symbols.                  *)
LEMMA FeedAgrees ==
  ASSUME Typed, CutIndependent, BufferBounded, Resumable,
         NEW n \in Nat, n <= Len(stream) - fed,
         NEW text, text = buffer \o SubSeq(stream, fed + 1, fed + n)
  PROVE  /\ text \in Seq(Symbol) /\ Len(text) = Len(buffer) + n
         /\ Parsed(text) \in ScanState
         /\ Len(Parsed(text).line) <= Len(text) /\ Len(Parsed(text).current) <= MaxBuffer
         /\ ~Parsed(text).failed => Agrees(Parsed(text), events, stream, fed + n)
<1> DEFINE m == Len(buffer)
           chunk == SubSeq(stream, fed + 1, fed + n)
           b == PreviousEnd(stream, fed + 1)
<1>1. /\ stream \in Seq(Symbol) /\ fed \in Nat /\ fed + n \in Nat /\ fed + n <= Len(stream)
      /\ buffer \in Seq(Symbol) /\ m \in Nat /\ events \in Seq(Seq(Symbol))
  BY DEF Typed
<1>2. /\ chunk \in Seq(Symbol) /\ Len(chunk) = n
      /\ \A d \in 1..n : chunk[d] = stream[fed + d]
  <2>1. /\ fed + 1 \in Int /\ fed + n \in Int /\ (fed + n) - (fed + 1) + 1 = n
        /\ (fed + 1 <= fed + n <=> n # 0)
        /\ \A d \in 1..n : (fed + 1) + d - 1 = fed + d
    BY <1>1
  <2>2. \A i \in (fed + 1)..(fed + n) : stream[i] \in Symbol
    BY <1>1
  <2>3. /\ chunk \in Seq(Symbol)
        /\ Len(chunk) = IF fed + 1 <= fed + n THEN (fed + n) - (fed + 1) + 1 ELSE 0
        /\ \A i \in 1..((fed + n) - (fed + 1) + 1) : chunk[i] = stream[(fed + 1) + i - 1]
    BY <2>1, <2>2, SubSeqProperties
  <2> QED
    BY <2>1, <2>3
<1>3. /\ text \in Seq(Symbol) /\ Len(text) = m + n
      /\ \A i \in 1..m : text[i] = buffer[i]
      /\ \A d \in 1..n : text[m + d] = chunk[d]
  <2> HIDE DEF chunk
  <2>1. text = buffer \o chunk
    BY DEF chunk
  <2>2. /\ text \in Seq(Symbol) /\ Len(text) = m + n
        /\ \A i \in 1..(m + n) : text[i] = IF i <= m THEN buffer[i] ELSE chunk[i - m]
    <3>1. /\ buffer \o chunk \in Seq(Symbol) /\ Len(buffer \o chunk) = m + n
          /\ \A i \in 1..(m + n) : (buffer \o chunk)[i] = IF i <= m THEN buffer[i] ELSE chunk[i - m]
      <4>1. buffer \in Seq(Symbol) /\ chunk \in Seq(Symbol) /\ Len(chunk) = n
        BY <1>1, <1>2
      <4>2. /\ buffer \o chunk \in Seq(Symbol) /\ Len(buffer \o chunk) = Len(buffer) + Len(chunk)
            /\ \A i \in 1..(Len(buffer) + Len(chunk)) :
                 (buffer \o chunk)[i] = IF i <= Len(buffer) THEN buffer[i] ELSE chunk[i - Len(buffer)]
        BY <4>1, ConcatProperties
      <4> QED
        BY <4>1, <4>2
    <3> QED
      BY <2>1, <3>1
  <2>3. ASSUME NEW d \in 1..n
        PROVE  text[m + d] = chunk[d]
    <3>1. m + d \in 1..(m + n) /\ ~(m + d <= m) /\ (m + d) - m = d
      BY <1>1
    <3> QED
      BY <2>2, <3>1
  <2>4. \A i \in 1..m : i \in 1..(m + n) /\ i <= m
    BY <1>1
  <2> QED
    BY <2>2, <2>3, <2>4
<1>4. b \in 0..fed /\ \A j \in (b + 1)..fed : stream[j] # "lf"
  BY <1>1, LineBounds
<1>5. buffer = SubSeq(stream, b + 1, fed)
  BY DEF Resumable
<1> HIDE DEF chunk, b
<1>6. \A j \in 1..m : text[j] # "lf"
  <2>1. m = fed - b /\ \A i \in 1..(fed - b) : buffer[i] = stream[b + i]
    BY <1>1, <1>4, <1>5
  <2>2. \A i \in 1..(fed - b) : b + i \in (b + 1)..fed
    BY <1>1, <1>4
  <2> QED
    BY <1>3, <1>4, <2>1, <2>2
<1>7. /\ ScanStart \in ScanState /\ ScanStart.line = <<>> /\ ScanStart.current = current
      /\ ScanStart.has_data = has_data /\ ScanStart.events = <<>> /\ ~ScanStart.failed
  BY EmptySeq DEF ScanStart, ScanState, Typed
<1>8. PICK f : IsRun(f, ScanStart, text) /\ Scanned(ScanStart, text) = f[Len(text)]
  BY <1>3, <1>7, ScannedRun
<1>9. Parsed(text) = f[Len(text)]
  BY <1>8 DEF Parsed
<1>10. Parsed(text) \in ScanState
  <2>1. Len(text) \in 0..Len(text)
    BY <1>3
  <2> QED
    BY <1>8, <1>9, <2>1 DEF IsRun
<1>11. Len(Parsed(text).line) <= Len(text) /\ Len(Parsed(text).current) <= MaxBuffer
  <2>1. Len(ScanStart.current) <= MaxBuffer
    BY <1>7 DEF BufferBounded
  <2> QED
    BY <1>3, <1>7, <1>8, <1>9, <2>1, RunBound
<1>12. ASSUME ~Parsed(text).failed
       PROVE  Agrees(Parsed(text), events, stream, fed + n)
  <2>1. m \in 0..Len(text)
    BY <1>1, <1>3
  <2>2. Collected(f[m], ScanStart, text, m)
    BY <1>3, <1>6, <1>7, <1>8, <2>1, RunCollects
  <2>3. SubSeq(text, 1, m) = buffer
    <3>1. /\ SubSeq(text, 1, m) \in Seq(Symbol) /\ Len(SubSeq(text, 1, m)) = m
          /\ \A i \in 1..m : SubSeq(text, 1, m)[i] = text[i]
      BY <1>1, <1>3
    <3>2. \A i \in 1..Len(buffer) : buffer[i] = SubSeq(text, 1, m)[i]
      BY <1>3, <3>1
    <3> QED
      BY <1>1, <3>1, <3>2, SeqEqual
  <2>4. events \o <<>> = events
    BY <1>1, ConcatEmptySeq
  <2>5. Agrees(f[m], events, stream, fed)
    BY <1>7, <2>2, <2>3, <2>4 DEF Agrees, Collected, Resumable, CutIndependent
  <2>6. \A d \in 1..n : text[m + d] = stream[fed + d]
    BY <1>2, <1>3
  <2>7. Agrees(f[m + n], events, stream, fed + n)
    BY <1>1, <1>3, <1>8, <1>9, <1>12, <2>5, <2>6, RunAgrees
  <2> QED
    BY <1>3, <1>9, <2>7
<1> QED
  BY <1>3, <1>10, <1>11, <1>12

-----------------------------------------------------------------------------
(***************************************************************************)
(* Every step keeps the invariant                                          *)
(***************************************************************************)

(* The events of a call, in terms of the sets that Watched speaks of.      *)
LEMMA NewEvents ==
  ASSUME NEW new \in Seq(Seq(Symbol))
  PROVE  /\ (\E k \in DOMAIN new : IsDone(new[k])) <=> Holds(new, DoneTexts)
         /\ {k \in DOMAIN new : new[k] # <<>>} # {} <=> Holds(new, DataTexts)
<1>1. \A k \in DOMAIN new : new[k] \in Seq(Symbol)
  OBVIOUS
<1>2. \A e : IsDone(e) <=> e \in DoneTexts
  BY DEF IsDone, DoneTexts
<1>3. \A k \in DOMAIN new : new[k] # <<>> <=> new[k] \in DataTexts
  BY <1>1 DEF DataTexts
<1>4. {k \in DOMAIN new : new[k] # <<>>} # {} <=> \E k \in DOMAIN new : new[k] # <<>>
  BY Zenon
<1> QED
  BY <1>2, <1>3, <1>4 DEF Holds

LEMMA ObserveKeeps ==
  ASSUME Typed, Watched, ~failed, ~done, NEW new \in Seq(Seq(Symbol)), Observe(new),
         events' = events \o new, failed' = failed
  PROVE  Watched' /\ first_seen' \in BOOLEAN /\ done' \in BOOLEAN
<1>1. /\ Holds(events', DoneTexts) <=> Holds(events, DoneTexts) \/ Holds(new, DoneTexts)
      /\ Holds(events', DataTexts) <=> Holds(events, DataTexts) \/ Holds(new, DataTexts)
  BY HoldsConcat DEF Typed
<1>2. /\ done' <=> Holds(new, DoneTexts)
      /\ done' \in BOOLEAN
  BY NewEvents DEF Observe
<1>3. /\ first_seen' = (first_seen \/ {k \in DOMAIN new : new[k] # <<>>} # {})
      /\ ttfts' = IF ~first_seen /\ {k \in DOMAIN new : new[k] # <<>>} # {} THEN ttfts + 1 ELSE ttfts
  BY DEF Observe
<1>4. {k \in DOMAIN new : new[k] # <<>>} # {} <=> Holds(new, DataTexts)
  BY NewEvents
<1>5. /\ first_seen' <=> first_seen \/ Holds(new, DataTexts)
      /\ first_seen' \in BOOLEAN
      /\ ttfts' = IF ~first_seen /\ Holds(new, DataTexts) THEN ttfts + 1 ELSE ttfts
  BY <1>3, <1>4
<1>6. /\ first_seen <=> Holds(events, DataTexts)
      /\ ~Holds(events, DoneTexts)
      /\ ttfts = IF first_seen THEN 1 ELSE 0
  BY DEF Watched
<1>7. ttfts' = IF first_seen' THEN 1 ELSE 0
  BY <1>5, <1>6
<1> QED
  BY <1>1, <1>2, <1>5, <1>6, <1>7 DEF Watched

LEMMA ChunkKeeps ==
  ASSUME ParserInv, NEW n \in 1..MaxChunk, ObserveSseChunk(n)
  PROVE  ParserInv'
<1>1. /\ ~done /\ n <= Len(stream) - fed /\ stream' = stream
      /\ Typed /\ CutIndependent /\ BufferBounded /\ Watched /\ n \in Nat
  BY ParserAssumption DEF ParserInv, ObserveSseChunk
<1>2. ~failed /\ Resumable
  BY <1>1 DEF Watched, ParserInv
<1>3. MaxBuffer \in Nat
  BY ParserAssumption
<1>4. ASSUME ObserveException
      PROVE  /\ CutIndependent' /\ Watched' /\ failed'
             /\ fed' \in 0..Len(stream') /\ events' \in Seq(Seq(Symbol))
             /\ first_seen' \in BOOLEAN /\ done' \in BOOLEAN /\ failed' \in BOOLEAN
  <2>1. /\ failed' = TRUE /\ done' = TRUE /\ fed' = fed /\ events' = events
        /\ first_seen' = first_seen /\ ttfts' = ttfts
    BY <1>4 DEF ObserveException
  <2>2. CutIndependent'
    BY <1>1, <2>1 DEF CutIndependent
  <2>3. Watched'
    BY <1>1, <2>1 DEF Watched
  <2> QED
    BY <1>1, <2>1, <2>2, <2>3 DEF Typed
<1>5. CASE Len(buffer) + n > MaxBuffer
  <2>1. ObserveException /\ buffer' = buffer /\ current' = current /\ has_data' = has_data
    BY <1>5 DEF ObserveSseChunk, parserVars
  <2>2. Typed' /\ BufferBounded'
    BY <1>1, <1>4, <2>1 DEF Typed, BufferBounded
  <2> QED
    BY <1>4, <2>1, <2>2 DEF ParserInv
<1>6. CASE ~(Len(buffer) + n > MaxBuffer)
  <2> DEFINE text == buffer \o SubSeq(stream, fed + 1, fed + n)
             p    == Parsed(text)
  <2>1. /\ current' = p.current /\ has_data' = p.has_data
        /\ p.failed => buffer' = text /\ ObserveException
        /\ ~p.failed => /\ buffer' = p.line /\ fed' = fed + n /\ events' = events \o p.events
                        /\ Observe(p.events) /\ failed' = failed
    BY <1>6 DEF ObserveSseChunk
  <2> HIDE DEF text
  <2>2. /\ text \in Seq(Symbol) /\ Len(text) = Len(buffer) + n
        /\ p \in ScanState
        /\ Len(p.line) <= Len(text) /\ Len(p.current) <= MaxBuffer
        /\ ~p.failed => Agrees(p, events, stream, fed + n)
    BY <1>1, <1>2, FeedAgrees DEF text
  <2> HIDE DEF p
  <2>3. /\ p.line \in Seq(Symbol) /\ p.current \in Seq(Symbol) /\ p.has_data \in BOOLEAN
        /\ p.events \in Seq(Seq(Symbol)) /\ p.failed \in BOOLEAN
    BY <2>2 DEF ScanState
  <2>4. Len(text) \in Nat /\ Len(text) <= MaxBuffer /\ Len(buffer) \in Nat /\ Len(p.line) \in Nat
    BY <1>1, <1>3, <1>6, <2>2, <2>3 DEF Typed
  <2>5. CASE p.failed
    <3>1. ObserveException /\ buffer' = text
      BY <2>1, <2>5
    <3>2. Typed'
      BY <1>1, <1>4, <2>1, <2>2, <2>3, <3>1 DEF Typed
    <3>3. BufferBounded'
      BY <2>1, <2>2, <2>4, <3>1 DEF BufferBounded
    <3> QED
      BY <1>4, <3>1, <3>2, <3>3 DEF ParserInv
  <2>6. CASE ~p.failed
    <3>1. /\ buffer' = p.line /\ fed' = fed + n /\ events' = events \o p.events
          /\ Observe(p.events) /\ failed' = failed
      BY <2>1, <2>6
    <3>2. Agrees(p, events, stream, fed + n)
      BY <2>2, <2>6
    <3>3. Watched' /\ first_seen' \in BOOLEAN /\ done' \in BOOLEAN
      BY <1>1, <1>2, <2>3, <3>1, ObserveKeeps
    <3>4. fed' \in 0..Len(stream') /\ events' \in Seq(Seq(Symbol)) /\ failed' \in BOOLEAN
      BY <1>1, <2>3, <3>1 DEF Typed
    <3>5. Typed'
      BY <1>1, <2>1, <2>3, <3>1, <3>3, <3>4 DEF Typed
    <3>6. BufferBounded'
      <4>1. Len(p.line) <= MaxBuffer
        BY <1>3, <2>2, <2>4
      <4> QED
        BY <2>1, <2>2, <3>1, <4>1 DEF BufferBounded
    <3>7. CutIndependent'
      BY <1>1, <3>1, <3>2 DEF CutIndependent, Agrees
    <3>8. Resumable'
      BY <1>1, <2>1, <3>1, <3>2 DEF Resumable, Agrees
    <3> QED
      BY <3>3, <3>5, <3>6, <3>7, <3>8 DEF ParserInv
  <2> QED
    BY <2>5, <2>6
<1> QED
  BY <1>5, <1>6

LEMMA ResetKeeps == ParserInv /\ Reset => ParserInv'
<1>1. ParserInv /\ Reset => Begun'
  BY DEF Reset, ParserInv, Typed, Begun
<1> QED
  BY <1>1, Beginning, PTL

LEMMA NextInv == ParserInv /\ [Next]_vars => ParserInv'
<1> SUFFICES ASSUME ParserInv, [Next]_vars
             PROVE  ParserInv'
  OBVIOUS
<1>1. CASE Reset
  BY <1>1, ResetKeeps
<1>2. CASE \E n \in 1..MaxChunk : ObserveSseChunk(n)
  BY <1>2, ChunkKeeps
<1>3. CASE UNCHANGED vars
  BY <1>3 DEF vars, parserVars, ParserInv, Typed, CutIndependent, BufferBounded, Resumable, Watched
<1> QED
  BY <1>1, <1>2, <1>3 DEF Next

(***************************************************************************)
(* The parser keeps the invariant, for every set of streams, every limit   *)
(* and every size of the network's pieces.                                 *)
(***************************************************************************)
THEOREM ParserInvariant == Spec => []ParserInv
BY InitInv, NextInv, PTL DEF Spec

(***************************************************************************)
(* feed() gives its caller the events of the stream read as a whole,       *)
(* however the network cuts it: what the loop, the line buffer and the open*)
(* event make of any sequence of chunks is what the reference reads in the *)
(* stream.                                                                 *)
(***************************************************************************)
THEOREM FeedCutIndependent == Spec => []CutIndependent
<1>1. ParserInv => CutIndependent
  BY DEF ParserInv
<1> QED
  BY <1>1, ParserInvariant, PTL

(***************************************************************************)
(* enforce_limit and append_data_line together keep both the line buffer   *)
(* and the event under construction within max_buffer_size.                *)
(***************************************************************************)
THEOREM FeedBounded == Spec => []BufferBounded
<1>1. ParserInv => BufferBounded
  BY DEF ParserInv
<1> QED
  BY <1>1, ParserInvariant, PTL

(***************************************************************************)
(* observe_sse_chunk ends a response exactly with a [DONE] event or an     *)
(* exception of feed(), and counts the first token once.                   *)
(***************************************************************************)
THEOREM ChunksObserved == Spec => []Observed
<1>1. ASSUME ParserInv
      PROVE  Observed
  <2>1. Typed /\ Watched /\ events = ReferenceEvents(stream, fed)
    BY <1>1 DEF ParserInv, CutIndependent
  <2>2. events \in Seq(Seq(Symbol))
    BY <2>1 DEF Typed
  <2>3. (\E k \in DOMAIN events : IsDone(events[k])) <=> Holds(events, DoneTexts)
    BY <2>2, NewEvents
  <2>4. (\E k \in DOMAIN events : events[k] # <<>>) <=> Holds(events, DataTexts)
    <3>1. {k \in DOMAIN events : events[k] # <<>>} # {} <=> \E k \in DOMAIN events : events[k] # <<>>
      BY Zenon
    <3> QED
      BY <2>2, <3>1, NewEvents
  <2>5. done <=> failed \/ \E k \in DOMAIN events : IsDone(events[k])
    <3>1. failed => done
      BY <2>1 DEF Watched
    <3>2. ~failed => (done <=> Holds(events, DoneTexts))
      BY <2>1 DEF Watched
    <3> QED
      BY <2>3, <3>1, <3>2
  <2>6. ttfts = IF \E k \in DOMAIN events : events[k] # <<>> THEN 1 ELSE 0
    BY <2>1, <2>4 DEF Watched
  <2> QED
    BY <2>1, <2>5, <2>6 DEF Observed
<1> QED
  BY <1>1, ParserInvariant, PTL
=============================================================================
