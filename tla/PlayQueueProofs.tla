--------------------------- MODULE PlayQueueProofs ---------------------------
(***************************************************************************)
(* What the operations of a bot's queue return, for any tracks, any queue  *)
(* and any limit of the history.                                           *)
(***************************************************************************)
EXTENDS PlayQueue, TLAPS, SequenceTheorems, FunctionTheorems, FiniteSetTheorems

------------------------------------------------------------------------------
(* Sequences *)

LEMMA Removing ==
  ASSUME NEW S, NEW s \in Seq(S), NEW i \in DOMAIN s
  PROVE  LET r == RemoveAt(s, i) IN
         /\ r \in Seq(S) /\ Len(r) = Len(s) - 1 /\ Len(s) \in Nat \ {0} /\ i \in 1 .. Len(s)
         /\ \A k \in 1 .. Len(r) : r[k] = IF k < i THEN s[k] ELSE s[k + 1]
<1> DEFINE a == SubSeq(s, 1, i - 1)
           b == SubSeq(s, i + 1, Len(s))
<1>1. i \in 1 .. Len(s) /\ Len(s) \in Nat /\ \A k \in 1 .. Len(s) : s[k] \in S
  BY LenProperties, ElementOfSeq
<1>2. /\ a \in Seq(S) /\ Len(a) = i - 1
      /\ \A k \in 1 .. i - 1 : a[k] = s[k]
  <2>1. 1 \in Int /\ i - 1 \in Int /\ \A k \in 1 .. i - 1 : s[k] \in S
    BY <1>1
  <2>2. /\ a \in Seq(S) /\ Len(a) = (IF 1 <= i - 1 THEN (i - 1) - 1 + 1 ELSE 0)
        /\ \A k \in 1 .. (i - 1) - 1 + 1 : a[k] = s[1 + k - 1]
    BY <2>1, SubSeqProperties
  <2> QED BY <1>1, <2>2
<1>3. /\ b \in Seq(S) /\ Len(b) = Len(s) - i
      /\ \A k \in 1 .. Len(s) - i : b[k] = s[k + i]
  <2>1. i + 1 \in Int /\ Len(s) \in Int /\ \A k \in i + 1 .. Len(s) : s[k] \in S
    BY <1>1
  <2>2. /\ b \in Seq(S) /\ Len(b) = (IF i + 1 <= Len(s) THEN Len(s) - (i + 1) + 1 ELSE 0)
        /\ \A k \in 1 .. Len(s) - (i + 1) + 1 : b[k] = s[(i + 1) + k - 1]
    BY <2>1, SubSeqProperties
  <2> QED BY <1>1, <2>2
<1> HIDE DEF a, b
<1>4. /\ a \o b \in Seq(S) /\ Len(a \o b) = Len(a) + Len(b)
      /\ \A k \in 1 .. Len(a) + Len(b) : (a \o b)[k] = IF k <= Len(a) THEN a[k] ELSE b[k - Len(a)]
  BY <1>2, <1>3, ConcatProperties
<1>5. Len(a \o b) = Len(s) - 1
  BY <1>1, <1>2, <1>3, <1>4
<1>6. ASSUME NEW k \in 1 .. Len(s) - 1
      PROVE  (a \o b)[k] = IF k < i THEN s[k] ELSE s[k + 1]
  <2>1. CASE k < i
    BY <1>1, <1>2, <1>3, <1>4, <2>1
  <2>2. CASE ~(k < i)
    <3>1. k - Len(a) \in 1 .. Len(s) - i /\ ~(k <= Len(a)) /\ (k - Len(a)) + i = k + 1
      BY <1>1, <1>2, <2>2
    <3>2. b[k - Len(a)] = s[k + 1]
      BY <1>3, <3>1
    <3>3. (a \o b)[k] = b[k - Len(a)]
      <4>1. k \in 1 .. Len(a) + Len(b)
        BY <1>1, <1>2, <1>3
      <4> QED BY <1>4, <3>1, <4>1
    <3> QED BY <2>2, <3>2, <3>3
  <2> QED BY <2>1, <2>2
<1>7. RemoveAt(s, i) = a \o b
  BY DEF RemoveAt, a, b
<1> QED BY <1>1, <1>4, <1>5, <1>6, <1>7

LEMMA Inserting ==
  ASSUME NEW S, NEW s \in Seq(S), NEW i \in 1 .. Len(s) + 1, NEW t \in S
  PROVE  LET r == InsertAt(s, i, t) IN
         /\ r \in Seq(S) /\ Len(r) = Len(s) + 1 /\ Len(s) \in Nat
         /\ \A k \in 1 .. Len(r) : r[k] = IF k < i THEN s[k] ELSE IF k = i THEN t ELSE s[k - 1]
<1> DEFINE a == SubSeq(s, 1, i - 1)
           b == SubSeq(s, i, Len(s))
<1>1. Len(s) \in Nat /\ i \in 1 .. Len(s) + 1 /\ \A k \in 1 .. Len(s) : s[k] \in S
  BY LenProperties, ElementOfSeq
<1>2. /\ a \in Seq(S) /\ Len(a) = i - 1
      /\ \A k \in 1 .. i - 1 : a[k] = s[k]
  <2>1. 1 \in Int /\ i - 1 \in Int /\ \A k \in 1 .. i - 1 : s[k] \in S
    BY <1>1
  <2>2. /\ a \in Seq(S) /\ Len(a) = (IF 1 <= i - 1 THEN (i - 1) - 1 + 1 ELSE 0)
        /\ \A k \in 1 .. (i - 1) - 1 + 1 : a[k] = s[1 + k - 1]
    BY <2>1, SubSeqProperties
  <2> QED BY <1>1, <2>2
<1>3. /\ b \in Seq(S) /\ Len(b) = Len(s) - i + 1
      /\ \A k \in 1 .. Len(s) - i + 1 : b[k] = s[k + i - 1]
  <2>1. i \in Int /\ Len(s) \in Int /\ \A k \in i .. Len(s) : s[k] \in S
    BY <1>1
  <2>2. /\ b \in Seq(S) /\ Len(b) = (IF i <= Len(s) THEN Len(s) - i + 1 ELSE 0)
        /\ \A k \in 1 .. Len(s) - i + 1 : b[k] = s[i + k - 1]
    BY <2>1, SubSeqProperties
  <2> QED BY <1>1, <2>2
<1> HIDE DEF a, b
<1> DEFINE c == a \o <<t>>
<1>4. /\ c \in Seq(S) /\ Len(c) = i
      /\ \A k \in 1 .. i : c[k] = IF k < i THEN s[k] ELSE t
  <2>1. <<t>> \in Seq(S) /\ Len(<<t>>) = 1 /\ <<t>>[1] = t
    OBVIOUS
  <2>2. /\ c \in Seq(S) /\ Len(c) = Len(a) + 1
        /\ \A k \in 1 .. Len(a) + 1 : c[k] = IF k <= Len(a) THEN a[k] ELSE <<t>>[k - Len(a)]
    BY <1>2, <2>1, ConcatProperties
  <2> QED BY <1>1, <1>2, <2>1, <2>2
<1> HIDE DEF c
<1>5. /\ c \o b \in Seq(S) /\ Len(c \o b) = Len(s) + 1
      /\ \A k \in 1 .. Len(s) + 1 : (c \o b)[k] = IF k <= i THEN c[k] ELSE b[k - i]
  <2>1. /\ c \o b \in Seq(S) /\ Len(c \o b) = Len(c) + Len(b)
        /\ \A k \in 1 .. Len(c) + Len(b) : (c \o b)[k] = IF k <= Len(c) THEN c[k] ELSE b[k - Len(c)]
    BY <1>3, <1>4, ConcatProperties
  <2> QED BY <1>1, <1>3, <1>4, <2>1
<1>6. ASSUME NEW k \in 1 .. Len(s) + 1
      PROVE  (c \o b)[k] = IF k < i THEN s[k] ELSE IF k = i THEN t ELSE s[k - 1]
  <2>1. CASE k <= i
    BY <1>1, <1>4, <1>5, <2>1
  <2>2. CASE ~(k <= i)
    <3>1. k - i \in 1 .. Len(s) - i + 1 /\ (k - i) + i - 1 = k - 1
      BY <1>1, <2>2
    <3> QED BY <1>1, <1>3, <1>5, <2>2, <3>1
  <2> QED BY <2>1, <2>2
<1>7. InsertAt(s, i, t) = c \o b
  BY DEF InsertAt, a, b, c
<1> QED BY <1>1, <1>5, <1>6, <1>7

LEMMA Prefixing ==
  ASSUME NEW S, NEW s \in Seq(S), NEW t \in S
  PROVE  LET r == <<t>> \o s IN
         /\ r \in Seq(S) /\ r # <<>> /\ Head(r) = t /\ Len(r) = Len(s) + 1
         /\ r[1] = t /\ \A k \in 1 .. Len(s) : r[k + 1] = s[k]
<1>1. <<t>> \in Seq(S) /\ Len(<<t>>) = 1 /\ <<t>>[1] = t /\ Len(s) \in Nat
  OBVIOUS
<1> DEFINE r == <<t>> \o s
<1>2. /\ r \in Seq(S) /\ Len(r) = 1 + Len(s)
      /\ \A k \in 1 .. 1 + Len(s) : r[k] = IF k <= 1 THEN <<t>>[k] ELSE s[k - 1]
  BY <1>1, ConcatProperties
<1> HIDE DEF r
<1>3. r[1] = t /\ \A k \in 1 .. Len(s) : r[k + 1] = s[k]
  BY <1>1, <1>2
<1>4. r # <<>> /\ Head(r) = t
  BY <1>1, <1>2, <1>3
<1> QED BY <1>1, <1>2, <1>3, <1>4 DEF r

\* A permutation of the elements of s, as SetToSeqs gives it.
LEMMA Permuting ==
  ASSUME NEW S, NEW s \in Seq(S), NEW u \in SetToSeqs(ToSet(s))
  PROVE  /\ u \in Seq(S) /\ IsInjective(u) /\ ToSet(u) = ToSet(s)
         /\ u = <<>> <=> s = <<>>
         /\ IsInjective(s) => Len(u) = Len(s)
<1> DEFINE A == ToSet(s)
           D == 1 .. Len(s)
<1>1. Len(s) \in Nat /\ DOMAIN s = D /\ s \in [D -> S]
  BY LenProperties
<1>2. A = Range(s) /\ A \subseteq S
  BY <1>1 DEF ToSet, Range
<1>3. s \in Surjection(D, A)
  BY <1>1, <1>2, Fun_RangeProperties
<1>4. IsFiniteSet(D) /\ Cardinality(D) = Len(s)
  BY <1>1, FS_Interval
<1>5. /\ IsFiniteSet(A)
      /\ Cardinality(A) = Len(s) <=> s \in Injection(D, A)
  BY <1>3, <1>4, FS_Surjection
<1>6. Cardinality(A) \in Nat
  BY <1>5, FS_CardinalityType
<1> DEFINE C == 1 .. Cardinality(A)
<1>7. u \in [C -> A] /\ IsInjective(u)
  BY DEF SetToSeqs, IsInjective
<1>8. u \in Injection(C, A)
  BY <1>7 DEF Injection
<1>9. IsFiniteSet(C) /\ Cardinality(C) = Cardinality(A)
  BY <1>6, FS_Interval
<1>10. u \in Surjection(C, A)
  BY <1>5, <1>8, <1>9, FS_Injection
<1>11. ToSet(u) = A
  <2>1. DOMAIN u = C /\ \A k \in C : u[k] \in A
    BY <1>7
  <2>2. \A t \in A : \E k \in C : u[k] = t
    BY <1>10 DEF Surjection
  <2>3. ToSet(u) = {u[k] : k \in DOMAIN u}
    BY DEF ToSet
  <2> HIDE DEF A, C
  <2> QED BY <2>1, <2>2, <2>3
<1>12. u \in Seq(S) /\ Len(u) = Cardinality(A)
  <2>1. u \in [C -> S]
    BY <1>2, <1>7
  <2>2. \E n \in Nat : u \in [1 .. n -> S]
    BY <1>6, <2>1
  <2>3. u \in Seq(S) /\ DOMAIN u = C
    BY <2>1, <2>2
  <2>4. DOMAIN u = 1 .. Len(u) /\ Len(u) \in Nat
    BY <2>3, LenProperties
  <2> QED BY <1>6, <2>3, <2>4
<1>13. u = <<>> <=> s = <<>>
  <2>1. A = {} <=> Cardinality(A) = 0
    BY <1>5, FS_EmptySet
  <2>2. A = {} <=> Len(s) = 0
    <3>1. A = {s[k] : k \in D}
      BY <1>1 DEF ToSet
    <3>2. CASE Len(s) = 0
      BY <3>1, <3>2
    <3>3. CASE Len(s) # 0
      <4>1. 1 \in D
        BY <1>1, <3>3
      <4> HIDE DEF A, D
      <4> QED BY <3>1, <3>3, <4>1
    <3> QED BY <3>2, <3>3
  <2>3. (Len(s) = 0 <=> s = <<>>) /\ (Len(u) = 0 <=> u = <<>>)
    BY <1>12, EmptySeq
  <2> QED BY <1>12, <2>1, <2>2, <2>3
<1>14. IsInjective(s) => Len(u) = Len(s)
  BY <1>1, <1>3, <1>5, <1>12 DEF Injection, Surjection
<1> QED BY <1>7, <1>11, <1>12, <1>13, <1>14

\* What the pieces of a sequence hold, and that nothing in them appears twice.
LEMMA RemovedOnce ==
  ASSUME NEW S, NEW s \in Seq(S), NEW i \in DOMAIN s
  PROVE  LET r == RemoveAt(s, i) IN
         /\ ToSet(s) = ToSet(r) \cup {s[i]}
         /\ IsInjective(s) => IsInjective(r) /\ s[i] \notin ToSet(r)
<1> DEFINE r == RemoveAt(s, i)
<1>1. /\ r \in Seq(S) /\ Len(r) = Len(s) - 1 /\ Len(s) \in Nat \ {0} /\ i \in 1 .. Len(s)
      /\ \A k \in 1 .. Len(r) : r[k] = IF k < i THEN s[k] ELSE s[k + 1]
  BY Removing
<1>2. DOMAIN r = 1 .. Len(s) - 1 /\ DOMAIN s = 1 .. Len(s)
  BY <1>1, LenProperties
<1> HIDE DEF r
<1>3. ASSUME NEW k \in DOMAIN s, k # i PROVE \E j \in DOMAIN r : r[j] = s[k]
  <2>1. CASE k < i
    BY <1>1, <1>2, <2>1
  <2>2. CASE ~(k < i)
    <3>1. k - 1 \in DOMAIN r /\ ~(k - 1 < i) /\ (k - 1) + 1 = k
      BY <1>1, <1>2, <1>3, <2>2
    <3> QED BY <1>1, <1>2, <3>1
  <2> QED BY <2>1, <2>2
<1>4. ASSUME NEW j \in DOMAIN r PROVE \E k \in DOMAIN s : k # i /\ r[j] = s[k]
  BY <1>1, <1>2
<1>5. ToSet(s) = ToSet(r) \cup {s[i]}
  BY <1>3, <1>4 DEF ToSet
<1>6. ASSUME IsInjective(s) PROVE IsInjective(r) /\ s[i] \notin ToSet(r)
  <2>1. s[i] \notin ToSet(r)
    BY <1>4, <1>6 DEF ToSet, IsInjective
  <2>2. ASSUME NEW a \in DOMAIN r, NEW b \in DOMAIN r, r[a] = r[b] PROVE a = b
    <3> DEFINE f(k) == IF k < i THEN k ELSE k + 1
    <3>1. /\ f(a) \in DOMAIN s /\ f(b) \in DOMAIN s /\ r[a] = s[f(a)] /\ r[b] = s[f(b)]
          /\ a \in Nat /\ b \in Nat /\ i \in Nat
      BY <1>1, <1>2
    <3>2. f(a) = f(b)
      BY <1>6, <2>2, <3>1 DEF IsInjective
    <3> QED BY <3>1, <3>2
  <2> QED BY <2>1, <2>2 DEF IsInjective
<1> QED BY <1>5, <1>6 DEF r

LEMMA InsertedOnce ==
  ASSUME NEW S, NEW s \in Seq(S), NEW i \in 1 .. Len(s) + 1, NEW t \in S
  PROVE  LET r == InsertAt(s, i, t) IN
         /\ ToSet(r) = ToSet(s) \cup {t} /\ r # <<>>
         /\ IsInjective(s) /\ t \notin ToSet(s) => IsInjective(r)
<1> DEFINE r == InsertAt(s, i, t)
<1>1. /\ r \in Seq(S) /\ Len(r) = Len(s) + 1 /\ Len(s) \in Nat
      /\ \A k \in 1 .. Len(r) : r[k] = IF k < i THEN s[k] ELSE IF k = i THEN t ELSE s[k - 1]
  BY Inserting
<1>2. DOMAIN r = 1 .. Len(s) + 1 /\ DOMAIN s = 1 .. Len(s)
  BY <1>1, LenProperties
<1> HIDE DEF r
<1>3. ASSUME NEW k \in DOMAIN s PROVE \E j \in DOMAIN r : r[j] = s[k]
  <2>1. CASE k < i
    BY <1>1, <1>2, <2>1
  <2>2. CASE ~(k < i)
    <3>1. k + 1 \in DOMAIN r /\ ~(k + 1 < i) /\ k + 1 # i /\ (k + 1) - 1 = k
      BY <1>1, <1>2, <2>2
    <3>2. r[k + 1] = s[(k + 1) - 1]
      BY <1>1, <1>2, <3>1
    <3> QED BY <3>1, <3>2
  <2> QED BY <2>1, <2>2
<1>4. ASSUME NEW j \in DOMAIN r PROVE r[j] = t \/ \E k \in DOMAIN s : r[j] = s[k]
  <2>1. CASE j < i
    BY <1>1, <1>2, <2>1
  <2>2. CASE j = i
    BY <1>1, <1>2, <2>2
  <2>3. CASE j > i
    <3>1. j - 1 \in DOMAIN s /\ r[j] = s[j - 1]
      BY <1>1, <1>2, <2>3
    <3> QED BY <3>1
  <2> QED BY <1>2, <2>1, <2>2, <2>3
<1>5. i \in DOMAIN r /\ r[i] = t
  BY <1>1, <1>2
<1>6. ToSet(r) = ToSet(s) \cup {t} /\ r # <<>>
  <2>1. ToSet(r) = ToSet(s) \cup {t}
    BY <1>3, <1>4, <1>5 DEF ToSet
  <2> QED BY <1>1, <2>1
<1>7. ASSUME IsInjective(s), t \notin ToSet(s) PROVE IsInjective(r)
  <2> SUFFICES ASSUME NEW a \in DOMAIN r, NEW b \in DOMAIN r, r[a] = r[b], a < b PROVE FALSE
    BY <1>1, <1>2 DEF IsInjective
  <2>1. \A k \in DOMAIN s : s[k] # t
    BY <1>7 DEF ToSet
  <2> DEFINE f(k) == IF k < i THEN k ELSE k - 1
  <2>2. \A k \in DOMAIN r : k # i => f(k) \in DOMAIN s /\ r[k] = s[f(k)]
    BY <1>1, <1>2
  <2>3. a # i /\ b # i
    BY <1>5, <2>1, <2>2
  <2>4. f(a) = f(b)
    BY <1>7, <2>2, <2>3 DEF IsInjective
  <2> QED BY <1>2, <2>3, <2>4
<1> QED BY <1>6, <1>7 DEF r

LEMMA PrefixedOnce ==
  ASSUME NEW S, NEW s \in Seq(S), NEW t \in S
  PROVE  LET r == <<t>> \o s IN
         /\ ToSet(r) = ToSet(s) \cup {t}
         /\ IsInjective(s) /\ t \notin ToSet(s) => IsInjective(r)
<1> DEFINE r == <<t>> \o s
<1>1. /\ r \in Seq(S) /\ Len(r) = Len(s) + 1 /\ Len(s) \in Nat
      /\ r[1] = t /\ \A k \in 1 .. Len(s) : r[k + 1] = s[k]
  BY Prefixing
<1>2. DOMAIN r = 1 .. Len(s) + 1 /\ DOMAIN s = 1 .. Len(s)
  BY <1>1, LenProperties
<1> HIDE DEF r
<1>3. ASSUME NEW k \in DOMAIN s PROVE \E j \in DOMAIN r : r[j] = s[k]
  <2>1. k + 1 \in DOMAIN r /\ r[k + 1] = s[k]
    BY <1>1, <1>2
  <2> QED BY <2>1
<1>4. \A j \in DOMAIN r : j # 1 => j - 1 \in DOMAIN s /\ r[j] = s[j - 1]
  <2> SUFFICES ASSUME NEW j \in DOMAIN r, j # 1 PROVE j - 1 \in DOMAIN s /\ r[j] = s[j - 1]
    OBVIOUS
  <2>1. j - 1 \in 1 .. Len(s) /\ (j - 1) + 1 = j
    BY <1>1, <1>2
  <2> QED BY <1>1, <1>2, <2>1
<1>5. ToSet(r) = ToSet(s) \cup {t}
  <2>1. 1 \in DOMAIN r
    BY <1>1, <1>2
  <2>2. \A j \in DOMAIN r : r[j] = t \/ \E k \in DOMAIN s : r[j] = s[k]
    BY <1>1, <1>4
  <2>3. t \in ToSet(r)
    BY <1>1, <2>1 DEF ToSet
  <2> QED BY <1>3, <2>2, <2>3 DEF ToSet
<1>6. ASSUME IsInjective(s), t \notin ToSet(s) PROVE IsInjective(r)
  <2> SUFFICES ASSUME NEW a \in DOMAIN r, NEW b \in DOMAIN r, r[a] = r[b], a < b PROVE FALSE
    BY <1>1, <1>2 DEF IsInjective
  <2>1. \A k \in DOMAIN s : s[k] # t
    BY <1>6 DEF ToSet
  <2>2. a # 1
    <3>1. b # 1 /\ b - 1 \in DOMAIN s
      BY <1>2, <1>4
    <3> QED BY <1>1, <1>4, <2>1, <3>1
  <2>3. a - 1 = b - 1
    BY <1>2, <1>4, <1>6, <2>2 DEF IsInjective
  <2> QED BY <1>2, <2>3
<1> QED BY <1>5, <1>6 DEF r

LEMMA TailOnce ==
  ASSUME NEW S, NEW s \in Seq(S), s # <<>>
  PROVE  /\ Head(s) \in S /\ Tail(s) \in Seq(S)
         /\ ToSet(s) = ToSet(Tail(s)) \cup {Head(s)}
         /\ IsInjective(s) => IsInjective(Tail(s)) /\ Head(s) \notin ToSet(Tail(s))
<1>1. 1 \in DOMAIN s /\ Head(s) = s[1] /\ Len(s) \in Nat
  BY LenProperties, EmptySeq
<1>2. RemoveAt(s, 1) = Tail(s)
  <2>1. SubSeq(s, 1, 0) = <<>>
    BY SubSeqEmpty
  <2>2. SubSeq(s, 2, Len(s)) = Tail(s) /\ Tail(s) \in Seq(S)
    BY TailIsSubSeq, HeadTailProperties
  <2>3. RemoveAt(s, 1) = SubSeq(s, 1, 0) \o SubSeq(s, 2, Len(s))
    BY DEF RemoveAt
  <2> QED BY <2>1, <2>2, <2>3, ConcatEmptySeq
<1>3. /\ ToSet(s) = ToSet(RemoveAt(s, 1)) \cup {s[1]}
      /\ IsInjective(s) => IsInjective(RemoveAt(s, 1)) /\ s[1] \notin ToSet(RemoveAt(s, 1))
  BY <1>1, RemovedOnce
<1> QED BY <1>1, <1>2, <1>3, HeadTailProperties

LEMMA AppendedOnce ==
  ASSUME NEW S, NEW s \in Seq(S), NEW t \in S
  PROVE  LET r == Append(s, t) IN
         /\ r \in Seq(S) /\ r # <<>> /\ ToSet(r) = ToSet(s) \cup {t} /\ Last(r) = t /\ Front(r) = s
         /\ IsInjective(s) /\ t \notin ToSet(s) => IsInjective(r)
<1> DEFINE r == Append(s, t)
<1>1. /\ r \in Seq(S) /\ r # <<>> /\ Len(r) = Len(s) + 1 /\ Len(s) \in Nat
      /\ \A k \in 1 .. Len(s) : r[k] = s[k]
      /\ r[Len(s) + 1] = t
  BY AppendProperties, LenProperties
<1>2. DOMAIN r = 1 .. Len(s) + 1 /\ DOMAIN s = 1 .. Len(s)
  BY <1>1, LenProperties
<1> HIDE DEF r
<1>3. ToSet(r) = ToSet(s) \cup {t}
  <2>1. Len(s) + 1 \in DOMAIN r /\ DOMAIN s \subseteq DOMAIN r
    BY <1>1, <1>2
  <2>2. \A k \in DOMAIN r : k \in DOMAIN s \/ k = Len(s) + 1
    BY <1>1, <1>2
  <2> QED BY <1>1, <1>2, <2>1, <2>2 DEF ToSet
<1>4. Last(r) = t
  BY <1>1 DEF Last
<1>5. Front(r) = s
  <2>1. Front(r) = SubSeq(r, 1, Len(s))
    BY <1>1 DEF Front
  <2>2. 1 \in Int /\ Len(s) \in Int /\ \A k \in 1 .. Len(s) : r[k] \in S
    BY <1>1, ElementOfSeq
  <2>3. /\ Front(r) \in Seq(S)
        /\ Len(Front(r)) = IF 1 <= Len(s) THEN Len(s) - 1 + 1 ELSE 0
        /\ \A k \in 1 .. Len(s) - 1 + 1 : Front(r)[k] = r[1 + k - 1]
    BY <2>1, <2>2, SubSeqProperties
  <2>4. Len(Front(r)) = Len(s)
    BY <1>1, <2>3
  <2>5. ASSUME NEW k \in 1 .. Len(s) PROVE Front(r)[k] = s[k]
    <3>1. k \in 1 .. Len(s) - 1 + 1 /\ 1 + k - 1 = k
      BY <1>1
    <3> QED BY <1>1, <2>3, <3>1
  <2> QED BY <2>3, <2>4, <2>5, SeqEqual
<1>6. ASSUME IsInjective(s), t \notin ToSet(s) PROVE IsInjective(r)
  <2> SUFFICES ASSUME NEW a \in DOMAIN r, NEW b \in DOMAIN r, r[a] = r[b], a < b PROVE FALSE
    BY <1>1, <1>2 DEF IsInjective
  <2>1. \A k \in DOMAIN s : s[k] # t
    BY <1>6 DEF ToSet
  <2>2. a \in DOMAIN s /\ (b \in DOMAIN s \/ b = Len(s) + 1)
    BY <1>1, <1>2
  <2> QED BY <1>1, <1>2, <1>6, <2>1, <2>2 DEF IsInjective
<1> QED BY <1>1, <1>3, <1>4, <1>5, <1>6 DEF r

LEMMA FrontOnce ==
  ASSUME NEW S, NEW s \in Seq(S), s # <<>>
  PROVE  /\ Last(s) \in S /\ Front(s) \in Seq(S)
         /\ ToSet(s) = ToSet(Front(s)) \cup {Last(s)}
         /\ IsInjective(s) => IsInjective(Front(s)) /\ Last(s) \notin ToSet(Front(s))
<1>1. Len(s) \in DOMAIN s /\ Len(s) \in Nat /\ Last(s) = s[Len(s)]
  BY LenProperties, EmptySeq DEF Last
<1>2. RemoveAt(s, Len(s)) = Front(s) /\ Front(s) \in Seq(S)
  <2>1. SubSeq(s, Len(s) + 1, Len(s)) = <<>>
    BY <1>1, SubSeqEmpty
  <2>2. \A k \in 1 .. Len(s) - 1 : s[k] \in S
    BY <1>1, ElementOfSeq
  <2>3. Front(s) \in Seq(S)
    BY <1>1, <2>2, SubSeqProperties DEF Front
  <2>4. RemoveAt(s, Len(s)) = Front(s) \o SubSeq(s, Len(s) + 1, Len(s))
    BY DEF RemoveAt, Front
  <2> QED BY <2>1, <2>3, <2>4, ConcatEmptySeq
<1>3. Last(s) \in S
  BY <1>1, ElementOfSeq, LenProperties
<1> QED BY <1>1, <1>2, <1>3, RemovedOnce

------------------------------------------------------------------------------
(* Queues *)

Queues(T) ==
  {r \in [items : Seq(T), hasCurrent : BOOLEAN, history : Seq(T), shuffle : BOOLEAN] :
     r.hasCurrent => r.items # <<>>}

\* The tracks of a queue, each of them in one place.
Tracks(q) == ToSet(q.items) \cup ToSet(q.history)
Once(q) ==
  IsInjective(q.items) /\ IsInjective(q.history) /\ ToSet(q.items) \cap ToSet(q.history) = {}

LEMMA UpcomingIs ==
  ASSUME NEW T, NEW q \in Queues(T)
  PROVE  /\ Upcoming(q) = IF q.hasCurrent THEN Tail(q.items) ELSE q.items
         /\ Upcoming(q) \in Seq(T)
         /\ q.items = IF q.hasCurrent THEN <<Head(q.items)>> \o Upcoming(q) ELSE Upcoming(q)
         /\ Upcoming(q) = <<>> <=> Len(q.items) = IF q.hasCurrent THEN 1 ELSE 0
         /\ q.hasCurrent => Current(q) \in T
<1>1. /\ q.items \in Seq(T) /\ q.hasCurrent \in BOOLEAN /\ (q.hasCurrent => q.items # <<>>)
      /\ Len(q.items) \in Nat
  BY LenProperties DEF Queues
<1>2. CASE q.hasCurrent
  <2>1. /\ Upcoming(q) = Tail(q.items) /\ Tail(q.items) \in Seq(T) /\ Head(q.items) \in T
        /\ Len(Tail(q.items)) = Len(q.items) - 1
    BY <1>1, <1>2, TailIsSubSeq, HeadTailProperties DEF Upcoming, FirstUpcoming
  <2>2. q.items = <<Head(q.items)>> \o Tail(q.items)
    BY <1>1, <1>2
  <2>3. Tail(q.items) = <<>> <=> Len(Tail(q.items)) = 0
    BY <2>1, EmptySeq
  <2> QED BY <1>1, <1>2, <2>1, <2>2, <2>3 DEF Current
<1>3. CASE ~q.hasCurrent
  <2>1. Upcoming(q) = q.items
    BY <1>1, <1>3, SubSeqFull DEF Upcoming, FirstUpcoming
  <2> QED BY <1>1, <1>3, <2>1, EmptySeq
<1> QED BY <1>2, <1>3

LEMMA EmptyIsAQueue ==
  ASSUME NEW T
  PROVE  EmptyQueue \in Queues(T) /\ Once(EmptyQueue) /\ Tracks(EmptyQueue) = {}
BY DEF EmptyQueue, Queues, Once, Tracks, ToSet, IsInjective

LEMMA MoreTracks ==
  ASSUME NEW T, NEW U, T \subseteq U, NEW q \in Queues(T)
  PROVE  q \in Queues(U)
<1>1. q.items \in Seq(U) /\ q.history \in Seq(U)
  BY SeqMonotonic DEF Queues
<1> QED BY <1>1 DEF Queues

LEMMA TracksOf ==
  ASSUME NEW T, NEW q \in Queues(T)
  PROVE  Tracks(q) \subseteq T
<1>1. \A s \in Seq(T) : ToSet(s) \subseteq T
  BY LenProperties, ElementOfSeq DEF ToSet
<1> QED BY <1>1 DEF Queues, Tracks

LEMMA RecentOnce ==
  ASSUME NEW T, NEW h \in Seq(T)
  PROVE  /\ Recent(h) \in Seq(T) /\ ToSet(Recent(h)) \subseteq ToSet(h)
         /\ IsInjective(h) => IsInjective(Recent(h))
<1>1. CASE Len(h) > HistoryLimit
  <2>1. h # <<>>
    BY <1>1, QueueAssumption
  <2> QED BY <1>1, <2>1, TailOnce DEF Recent
<1>2. CASE ~(Len(h) > HistoryLimit)
  BY <1>2 DEF Recent
<1> QED BY <1>1, <1>2

LEMMA Retires ==
  ASSUME NEW T, NEW q \in Queues(T)
  PROVE  LET r == Retired(q) IN
         /\ r \in Queues(T) /\ r.hasCurrent = FALSE /\ r.items = Upcoming(q)
         /\ Tracks(r) \subseteq Tracks(q)
         /\ Once(q) => Once(r)
<1> DEFINE r == Retired(q)
<1>1. CASE ~q.hasCurrent
  BY <1>1, UpcomingIs DEF Retired, Queues
<1>2. CASE q.hasCurrent
  <2> DEFINE h == Append(q.history, Head(q.items))
  <2>1. q.items \in Seq(T) /\ q.items # <<>> /\ q.history \in Seq(T)
    BY <1>2 DEF Queues
  <2>2. /\ Head(q.items) \in T /\ Tail(q.items) \in Seq(T)
        /\ ToSet(q.items) = ToSet(Tail(q.items)) \cup {Head(q.items)}
        /\ IsInjective(q.items) => IsInjective(Tail(q.items)) /\ Head(q.items) \notin ToSet(Tail(q.items))
    BY <2>1, TailOnce
  <2>3. /\ h \in Seq(T) /\ ToSet(h) = ToSet(q.history) \cup {Head(q.items)}
        /\ IsInjective(q.history) /\ Head(q.items) \notin ToSet(q.history) => IsInjective(h)
    BY <2>1, <2>2, AppendedOnce
  <2>4. /\ Recent(h) \in Seq(T) /\ ToSet(Recent(h)) \subseteq ToSet(h)
        /\ IsInjective(h) => IsInjective(Recent(h))
    BY <2>3, RecentOnce
  <2>5. /\ r \in Queues(T) /\ r.hasCurrent = FALSE /\ r.items = Tail(q.items) /\ r.history = Recent(h)
    <3>1. r = [q EXCEPT !.items = Tail(q.items), !.hasCurrent = FALSE, !.history = Recent(h)]
      BY <1>2 DEF Retired
    <3> HIDE DEF h, r
    <3> QED BY <2>2, <2>4, <3>1 DEF Queues
  <2>6. Upcoming(q) = Tail(q.items)
    BY <1>2, UpcomingIs
  <2> HIDE DEF r, h
  <2>7. Tracks(r) \subseteq Tracks(q)
    BY <2>2, <2>3, <2>4, <2>5 DEF Tracks
  <2>8. Once(q) => Once(r)
    BY <2>2, <2>3, <2>4, <2>5 DEF Once
  <2> QED BY <2>5, <2>6, <2>7, <2>8 DEF r
<1> QED BY <1>1, <1>2 DEF Queues

\* add: the current track stays ahead, also when a shuffled queue takes the new one anywhere.
LEMMA Adds ==
  ASSUME NEW T, NEW q \in Queues(T), NEW t \in T, NEW r \in Added(q, t)
  PROVE  /\ r \in Queues(T) /\ r.hasCurrent = q.hasCurrent /\ Current(r) = Current(q)
         /\ r.items # <<>> /\ Tracks(r) = Tracks(q) \cup {t}
         /\ Once(q) /\ t \notin Tracks(q) => Once(r)
<1>1. /\ q.items \in Seq(T) /\ q.history \in Seq(T) /\ q.hasCurrent \in BOOLEAN /\ q.shuffle \in BOOLEAN
      /\ Len(q.items) \in Nat /\ (q.hasCurrent => q.items # <<>> /\ Len(q.items) >= 1)
  BY LenProperties, EmptySeq DEF Queues
<1>2. PICK i \in FirstUpcoming(q) .. Len(q.items) + 1 : r = [q EXCEPT !.items = InsertAt(@, i, t)]
  BY <1>1 DEF Added, FirstUpcoming
<1>3. i \in 1 .. Len(q.items) + 1 /\ (q.hasCurrent => 1 < i)
  BY <1>1 DEF FirstUpcoming
<1> DEFINE s == InsertAt(q.items, i, t)
<1>4. /\ s \in Seq(T) /\ s # <<>> /\ Len(s) = Len(q.items) + 1
      /\ 1 < i => s[1] = q.items[1]
  <2>1. /\ s \in Seq(T) /\ Len(s) = Len(q.items) + 1
        /\ \A k \in 1 .. Len(s) : s[k] = IF k < i THEN q.items[k] ELSE IF k = i THEN t ELSE q.items[k - 1]
    <3>1. q.items \in Seq(T) /\ i \in 1 .. Len(q.items) + 1
      BY <1>1, <1>3
    <3> QED BY <3>1, Inserting
  <2>2. s # <<>>
    BY <1>1, <1>3, InsertedOnce
  <2> QED BY <1>1, <2>1, <2>2
<1>5. /\ ToSet(s) = ToSet(q.items) \cup {t}
      /\ IsInjective(q.items) /\ t \notin ToSet(q.items) => IsInjective(s)
  BY <1>1, <1>3, InsertedOnce
<1>6. r = [q EXCEPT !.items = s]
  BY <1>2
<1> HIDE DEF s
<1>7. /\ r \in Queues(T) /\ r.items = s /\ r.hasCurrent = q.hasCurrent /\ r.history = q.history
  BY <1>1, <1>4, <1>6 DEF Queues
<1>8. Current(r) = Current(q)
  <2>1. ASSUME q.hasCurrent PROVE Head(s) = Head(q.items)
    BY <1>1, <1>3, <1>4, <2>1
  <2> QED BY <1>7, <2>1 DEF Current
<1>9. Once(q) /\ t \notin Tracks(q) => Once(r)
  BY <1>5, <1>7 DEF Once, Tracks
<1> QED BY <1>4, <1>5, <1>7, <1>8, <1>9 DEF Tracks

\* insertNext: the new track is the current one.
LEMMA InsertsNext ==
  ASSUME NEW T, NEW q \in Queues(T), NEW t \in T
  PROVE  LET r == InsertNext(q, t) IN
         /\ r \in Queues(T) /\ r.hasCurrent = TRUE /\ Current(r) = t
         /\ Tracks(r) \subseteq Tracks(q) \cup {t}
         /\ Once(q) /\ t \notin Tracks(q) => Once(r)
<1> DEFINE k == Retired(q)
           s == <<t>> \o k.items
           r == InsertNext(q, t)
<1>1. /\ k \in Queues(T) /\ Tracks(k) \subseteq Tracks(q)
      /\ Once(q) => Once(k)
  BY Retires
<1>2. r = [k EXCEPT !.items = s, !.hasCurrent = TRUE]
  BY DEF InsertNext
<1> HIDE DEF k
<1>3. k.items \in Seq(T) /\ k.history \in Seq(T)
  BY <1>1 DEF Queues
<1>4. s \in Seq(T) /\ s # <<>> /\ Head(s) = t
  BY <1>3, Prefixing
<1>5. /\ ToSet(s) = ToSet(k.items) \cup {t}
      /\ IsInjective(k.items) /\ t \notin ToSet(k.items) => IsInjective(s)
  BY <1>3, PrefixedOnce
<1> HIDE DEF s, r
<1>6. r \in Queues(T) /\ r.items = s /\ r.hasCurrent = TRUE /\ r.history = k.history
  BY <1>1, <1>2, <1>4 DEF Queues
<1>7. Current(r) = t
  BY <1>4, <1>6 DEF Current
<1>8. Tracks(r) \subseteq Tracks(q) \cup {t}
  BY <1>1, <1>5, <1>6 DEF Tracks
<1>9. Once(q) /\ t \notin Tracks(q) => Once(r)
  BY <1>1, <1>5, <1>6 DEF Tracks, Once
<1> QED BY <1>6, <1>7, <1>8, <1>9 DEF r

\* removeAt: what is left of the queue; only the current track can stop being it.
LEMMA Removes ==
  ASSUME NEW T, NEW q \in Queues(T), NEW i \in DOMAIN q.items
  PROVE  LET r == Removed(q, i) IN
         /\ r \in Queues(T) /\ (r.hasCurrent => q.hasCurrent /\ Current(r) = Current(q))
         /\ Upcoming(r) # <<>> => Upcoming(q) # <<>>
         /\ Tracks(r) \subseteq Tracks(q)
         /\ Once(q) => Once(r)
<1> DEFINE s == RemoveAt(q.items, i)
           r == Removed(q, i)
<1>1. /\ q.items \in Seq(T) /\ q.history \in Seq(T) /\ q.hasCurrent \in BOOLEAN
  BY DEF Queues
<1>2. /\ s \in Seq(T) /\ Len(s) = Len(q.items) - 1 /\ Len(q.items) \in Nat /\ i \in 1 .. Len(q.items)
      /\ 1 < i => s[1] = q.items[1]
  <2>1. /\ s \in Seq(T) /\ Len(s) = Len(q.items) - 1 /\ Len(q.items) \in Nat \ {0}
        /\ i \in 1 .. Len(q.items)
        /\ \A k \in 1 .. Len(s) : s[k] = IF k < i THEN q.items[k] ELSE q.items[k + 1]
    BY <1>1, Removing
  <2> QED BY <2>1
<1>3. /\ ToSet(q.items) = ToSet(s) \cup {q.items[i]}
      /\ IsInjective(q.items) => IsInjective(s)
  BY <1>1, RemovedOnce
<1>4. r = [q EXCEPT !.items = s, !.hasCurrent = @ /\ i # 1]
  BY DEF Removed
<1> HIDE DEF s, r
<1>5. /\ r \in Queues(T) /\ r.items = s /\ r.history = q.history
      /\ r.hasCurrent = (q.hasCurrent /\ i # 1)
  <2>1. i # 1 => s # <<>>
    BY <1>2
  <2> QED BY <1>1, <1>2, <1>4, <2>1 DEF Queues
<1>6. r.hasCurrent => q.hasCurrent /\ Current(r) = Current(q)
  <2>1. ASSUME i # 1 PROVE Head(s) = Head(q.items)
    BY <1>2, <2>1
  <2> QED BY <1>1, <1>5, <2>1 DEF Current
<1>7. Upcoming(r) # <<>> => Upcoming(q) # <<>>
  <2>1. Upcoming(q) = <<>> <=> Len(q.items) = IF q.hasCurrent THEN 1 ELSE 0
    BY UpcomingIs
  <2>2. Upcoming(r) = <<>> <=> Len(s) = IF r.hasCurrent THEN 1 ELSE 0
    BY <1>5, UpcomingIs
  <2>3. CASE q.hasCurrent /\ i # 1
    BY <1>2, <1>5, <2>1, <2>2, <2>3
  <2>4. CASE ~(q.hasCurrent /\ i # 1)
    <3>1. Upcoming(r) = <<>> <=> Len(s) = 0
      BY <1>5, <2>2, <2>4
    <3>2. Len(q.items) >= 1 /\ Len(q.items) \in Nat /\ Len(s) = Len(q.items) - 1
      BY <1>1, <1>2
    <3>3. Len(s) # 0 => Len(q.items) # 1 /\ Len(q.items) # 0
      <4>1. PICK n \in Nat : n = Len(q.items)
        BY <3>2
      <4> HIDE DEF s
      <4> QED BY <3>2, <4>1
    <3> QED BY <2>1, <3>1, <3>3
  <2> QED BY <2>3, <2>4
<1>8. Tracks(r) \subseteq Tracks(q) /\ (Once(q) => Once(r))
  BY <1>3, <1>5 DEF Tracks, Once
<1> QED BY <1>5, <1>6, <1>7, <1>8 DEF r

\* playNow: the item chosen is the current one, and no longer among the upcoming.
LEMMA PlaysNow ==
  ASSUME NEW T, NEW q \in Queues(T), NEW i \in DOMAIN q.items
  PROVE  LET r == PlayNow(q, i) IN
         /\ r \in Queues(T) /\ r.hasCurrent = TRUE /\ Current(r) = q.items[i] /\ q.items[i] \in T
         /\ Tracks(r) \subseteq Tracks(q)
         /\ Once(q) => Once(r)
<1>1. /\ q.items \in Seq(T) /\ q.items # <<>> /\ q.history \in Seq(T) /\ q.hasCurrent \in BOOLEAN
      /\ q.items[i] \in T /\ q.items[i] \in ToSet(q.items)
  BY LenProperties, ElementOfSeq, EmptySeq DEF Queues, ToSet
<1>2. CASE i = 1 /\ q.hasCurrent
  BY <1>1, <1>2 DEF PlayNow, Current, Queues
<1>3. CASE ~(i = 1 /\ q.hasCurrent)
  <2> DEFINE s == RemoveAt(q.items, i)
             k == [q EXCEPT !.items = s]
  <2>1. /\ s \in Seq(T) /\ Len(s) = Len(q.items) - 1 /\ Len(q.items) \in Nat
        /\ i \in 1 .. Len(q.items)
    BY <1>1, Removing
  <2>2. /\ ToSet(q.items) = ToSet(s) \cup {q.items[i]}
        /\ IsInjective(q.items) => IsInjective(s) /\ q.items[i] \notin ToSet(s)
    BY <1>1, RemovedOnce
  <2>3. q.hasCurrent => s # <<>>
    BY <1>1, <1>3, <2>1
  <2> HIDE DEF s
  <2>4. k \in Queues(T) /\ k.items = s /\ k.history = q.history
    BY <2>1, <2>3 DEF Queues
  <2>5. Tracks(k) \cup {q.items[i]} = Tracks(q)
    BY <1>1, <2>2, <2>4 DEF Tracks
  <2>6. Once(q) => Once(k) /\ q.items[i] \notin Tracks(k)
    BY <1>1, <2>2, <2>4 DEF Once, Tracks
  <2>7. PlayNow(q, i) = InsertNext(k, q.items[i])
    BY <1>3 DEF PlayNow, s
  <2> HIDE DEF k
  <2> DEFINE r == InsertNext(k, q.items[i])
  <2>8. /\ r \in Queues(T) /\ r.hasCurrent = TRUE /\ Current(r) = q.items[i]
        /\ Tracks(r) \subseteq Tracks(k) \cup {q.items[i]}
        /\ Once(k) /\ q.items[i] \notin Tracks(k) => Once(r)
    BY <1>1, <2>4, InsertsNext
  <2> HIDE DEF r
  <2>9. PlayNow(q, i) = r
    BY <2>7 DEF r
  <2> QED BY <1>1, <2>5, <2>6, <2>8, <2>9
<1> QED BY <1>2, <1>3

\* next: the first upcoming track becomes current; only an exhausted queue has none then.
LEMMA GoesToNext ==
  ASSUME NEW T, NEW q \in Queues(T), NoTrack \notin T
  PROVE  LET r == NextOf(q) IN
         /\ r \in Queues(T)
         /\ Current(r) = NoTrack <=> Upcoming(q) = <<>>
         /\ Current(r) = NoTrack => r.items = <<>> /\ r.hasCurrent = FALSE
         /\ Current(r) # NoTrack => r.hasCurrent = TRUE /\ Current(r) \in T
         /\ Tracks(r) \subseteq Tracks(q)
         /\ Once(q) => Once(r)
<1> DEFINE k == Retired(q)
           r == NextOf(q)
<1>1. /\ k \in Queues(T) /\ k.items = Upcoming(q) /\ Tracks(k) \subseteq Tracks(q)
      /\ Once(q) => Once(k)
  BY Retires
<1>2. r = [k EXCEPT !.hasCurrent = (k.items # <<>>)]
  BY DEF NextOf
<1> HIDE DEF k, r
<1>3. /\ r \in Queues(T) /\ r.items = Upcoming(q) /\ r.history = k.history
      /\ r.hasCurrent = (Upcoming(q) # <<>>)
  BY <1>1, <1>2 DEF Queues
<1>4. Tracks(r) \subseteq Tracks(q) /\ (Once(q) => Once(r))
  BY <1>1, <1>3 DEF Tracks, Once
<1>5. r.hasCurrent => Current(r) \in T
  BY <1>3, UpcomingIs
<1>6. ~r.hasCurrent => Current(r) = NoTrack
  BY DEF Current
<1> QED BY <1>3, <1>4, <1>5, <1>6 DEF r

\* previous: the last finished track is current again, and nothing changes without one.
LEMMA StepsBack ==
  ASSUME NEW T, NEW q \in Queues(T), NoTrack \notin T
  PROVE  LET r == Previous(q) IN
         /\ r \in Queues(T)
         /\ r.hasCurrent => Current(r) \in T
         /\ Current(r) = NoTrack => r = q
         /\ Tracks(r) \subseteq Tracks(q)
         /\ Once(q) => Once(r)
<1> DEFINE r == Previous(q)
           t == Last(q.history)
           s == <<t>> \o q.items
<1>1. CASE q.history = <<>>
  BY <1>1, UpcomingIs DEF Previous
<1>2. CASE q.history # <<>>
  <2>1. q.items \in Seq(T) /\ q.history \in Seq(T)
    BY DEF Queues
  <2>2. /\ t \in T /\ Front(q.history) \in Seq(T)
        /\ ToSet(q.history) = ToSet(Front(q.history)) \cup {t}
        /\ IsInjective(q.history) => IsInjective(Front(q.history)) /\ t \notin ToSet(Front(q.history))
    BY <1>2, <2>1, FrontOnce
  <2>3. s \in Seq(T) /\ s # <<>> /\ Head(s) = t
    BY <2>1, <2>2, Prefixing
  <2>4. /\ ToSet(s) = ToSet(q.items) \cup {t}
        /\ IsInjective(q.items) /\ t \notin ToSet(q.items) => IsInjective(s)
    BY <2>1, <2>2, PrefixedOnce
  <2>5. r = [q EXCEPT !.items = s, !.history = Front(q.history), !.hasCurrent = TRUE]
    BY <1>2 DEF Previous
  <2> HIDE DEF r, s, t
  <2>6. r \in Queues(T) /\ r.items = s /\ r.history = Front(q.history) /\ r.hasCurrent = TRUE
    BY <2>2, <2>3, <2>5 DEF Queues
  <2>7. Current(r) = t
    BY <2>3, <2>6 DEF Current
  <2>8. Tracks(r) \subseteq Tracks(q) /\ (Once(q) => Once(r))
    BY <2>2, <2>4, <2>6 DEF Tracks, Once
  <2> QED BY <2>2, <2>6, <2>7, <2>8 DEF r
<1> QED BY <1>1, <1>2

LEMMA Clears ==
  ASSUME NEW T, NEW q \in Queues(T)
  PROVE  LET r == Cleared(q) IN
         /\ r \in Queues(T) /\ r.hasCurrent = FALSE /\ r.items = <<>> /\ Upcoming(r) = <<>>
         /\ Tracks(r) = {} /\ Once(r)
<1> DEFINE r == Cleared(q)
<1>1. r \in Queues(T) /\ r.hasCurrent = FALSE /\ r.items = <<>> /\ r.history = <<>>
  <2>1. <<>> \in Seq(T)
    OBVIOUS
  <2>2. r = [q EXCEPT !.items = <<>>, !.history = <<>>, !.hasCurrent = FALSE]
    BY DEF Cleared
  <2>3. q \in [items : Seq(T), hasCurrent : BOOLEAN, history : Seq(T), shuffle : BOOLEAN]
    BY DEF Queues
  <2>4. r.hasCurrent = FALSE /\ r.items = <<>> /\ r.history = <<>>
    BY <2>2, <2>3
  <2>5. r \in [items : Seq(T), hasCurrent : BOOLEAN, history : Seq(T), shuffle : BOOLEAN]
    BY <2>1, <2>2, <2>3
  <2> QED BY <2>4, <2>5 DEF Queues
<1> HIDE DEF r
<1>2. Tracks(r) = {} /\ Once(r)
  BY <1>1 DEF Tracks, Once, ToSet, IsInjective
<1> QED BY <1>1, <1>2, UpcomingIs DEF r

\* move: upcoming tracks change their places, and nothing else.
LEMMA Moves ==
  ASSUME NEW T, NEW q \in Queues(T), NEW i \in Places(q), NEW j \in Places(q)
  PROVE  LET r == Moved(q, i, j) IN
         /\ r \in Queues(T) /\ r.hasCurrent = q.hasCurrent /\ Current(r) = Current(q)
         /\ Upcoming(r) = <<>> <=> Upcoming(q) = <<>>
         /\ Len(r.items) = Len(q.items) /\ Tracks(r) = Tracks(q)
         /\ Once(q) => Once(r)
<1> DEFINE a == RemoveAt(q.items, i)
           t == q.items[i]
           s == InsertAt(a, j, t)
           r == Moved(q, i, j)
<1>1. /\ q.items \in Seq(T) /\ q.history \in Seq(T) /\ q.hasCurrent \in BOOLEAN
      /\ Len(q.items) \in Nat /\ DOMAIN q.items = 1 .. Len(q.items)
  BY LenProperties DEF Queues
<1>2. /\ i \in 1 .. Len(q.items) /\ j \in 1 .. Len(q.items) /\ i \in DOMAIN q.items
      /\ q.hasCurrent => 1 < i /\ 1 < j
  BY <1>1 DEF Places, FirstUpcoming
<1>3. t \in T
  BY <1>1, <1>2, ElementOfSeq
<1>4. /\ a \in Seq(T) /\ Len(a) = Len(q.items) - 1
      /\ 1 < i => a[1] = q.items[1]
  <2>1. /\ a \in Seq(T) /\ Len(a) = Len(q.items) - 1
        /\ \A k \in 1 .. Len(a) : a[k] = IF k < i THEN q.items[k] ELSE q.items[k + 1]
    BY <1>1, <1>2, Removing
  <2> QED BY <1>1, <1>2, <2>1
<1>5. /\ ToSet(q.items) = ToSet(a) \cup {t}
      /\ IsInjective(q.items) => IsInjective(a) /\ t \notin ToSet(a)
  BY <1>1, <1>2, RemovedOnce
<1> HIDE DEF a, t
<1>6. j \in 1 .. Len(a) + 1
  BY <1>1, <1>2, <1>4
<1>7. /\ s \in Seq(T) /\ Len(s) = Len(q.items) /\ s # <<>>
      /\ 1 < j => s[1] = a[1]
  <2>1. /\ s \in Seq(T) /\ Len(s) = Len(a) + 1
        /\ \A k \in 1 .. Len(s) : s[k] = IF k < j THEN a[k] ELSE IF k = j THEN t ELSE a[k - 1]
    BY <1>3, <1>4, <1>6, Inserting
  <2>2. s # <<>>
    BY <1>3, <1>4, <1>6, InsertedOnce
  <2> QED BY <1>1, <1>2, <1>4, <2>1, <2>2
<1>8. /\ ToSet(s) = ToSet(a) \cup {t}
      /\ IsInjective(a) /\ t \notin ToSet(a) => IsInjective(s)
  BY <1>3, <1>4, <1>6, InsertedOnce
<1>9. r = [q EXCEPT !.items = s]
  BY DEF Moved, a, t
<1> HIDE DEF s, r
<1>10. /\ r \in Queues(T) /\ r.items = s /\ r.history = q.history /\ r.hasCurrent = q.hasCurrent
  BY <1>1, <1>7, <1>9 DEF Queues
<1>11. Current(r) = Current(q)
  <2>1. ASSUME q.hasCurrent PROVE Head(s) = Head(q.items)
    BY <1>1, <1>2, <1>4, <1>7, <2>1
  <2> QED BY <1>1, <1>10, <2>1 DEF Current
<1>12. Upcoming(r) = <<>> <=> Upcoming(q) = <<>>
  <2>1. Upcoming(q) = <<>> <=> Len(q.items) = IF q.hasCurrent THEN 1 ELSE 0
    BY UpcomingIs
  <2>2. Upcoming(r) = <<>> <=> Len(s) = IF q.hasCurrent THEN 1 ELSE 0
    BY <1>10, UpcomingIs
  <2> QED BY <1>7, <2>1, <2>2
<1>13. Tracks(r) = Tracks(q) /\ (Once(q) => Once(r))
  BY <1>5, <1>8, <1>10 DEF Tracks, Once
<1> QED BY <1>7, <1>10, <1>11, <1>12, <1>13 DEF r

\* setShuffle: a permutation of what is upcoming, behind the current track.
LEMMA Rearranges ==
  ASSUME NEW T, NEW q \in Queues(T), NEW r \in Shuffled(q) \cup Unshuffled(q)
  PROVE  /\ r \in Queues(T) /\ r.hasCurrent = q.hasCurrent /\ Current(r) = Current(q)
         /\ Upcoming(r) = <<>> <=> Upcoming(q) = <<>>
         /\ Once(q) => Once(r) /\ Tracks(r) = Tracks(q) /\ Len(r.items) = Len(q.items)
<1> DEFINE up == Upcoming(q)
<1>1. PICK u \in SetToSeqs(ToSet(up)), shuffle \in BOOLEAN :
        r = [Reordered(q, u) EXCEPT !.shuffle = shuffle]
  BY DEF Shuffled, Unshuffled
<1>2. /\ q.items \in Seq(T) /\ q.history \in Seq(T) /\ q.hasCurrent \in BOOLEAN
      /\ up \in Seq(T) /\ Len(up) \in Nat
      /\ q.items = IF q.hasCurrent THEN <<Head(q.items)>> \o up ELSE up
      /\ q.hasCurrent => q.items # <<>> /\ Head(q.items) \in T
  BY UpcomingIs, LenProperties, HeadTailProperties DEF Queues
<1>3. /\ u \in Seq(T) /\ IsInjective(u) /\ ToSet(u) = ToSet(up)
      /\ u = <<>> <=> up = <<>>
      /\ IsInjective(up) => Len(u) = Len(up)
  BY <1>1, <1>2, Permuting
<1> DEFINE s == IF q.hasCurrent THEN <<Head(q.items)>> \o u ELSE u
<1>4. SubSeq(q.items, 1, FirstUpcoming(q) - 1) \o u = s
  <2>1. CASE q.hasCurrent
    <3>1. 1 \in 1 .. Len(q.items) /\ q.items[1] = Head(q.items)
      BY <1>2, <2>1, EmptySeq
    <3>2. SubSeq(q.items, 1, 1) = <<Head(q.items)>> \o SubSeq(q.items, 2, 1)
      BY <1>2, <3>1, SubSeqRecursiveFirst
    <3>3. SubSeq(q.items, 2, 1) = <<>> /\ <<Head(q.items)>> \in Seq(T)
      BY <1>2, <2>1, SubSeqEmpty
    <3>4. SubSeq(q.items, 1, 1) = <<Head(q.items)>>
      BY <3>2, <3>3, ConcatEmptySeq
    <3> QED BY <2>1, <3>4 DEF FirstUpcoming
  <2>2. CASE ~q.hasCurrent
    <3>1. SubSeq(q.items, 1, 0) = <<>>
      BY SubSeqEmpty
    <3> QED BY <1>3, <2>2, <3>1, ConcatEmptySeq DEF FirstUpcoming
  <2> QED BY <2>1, <2>2
<1>5. /\ s \in Seq(T) /\ (q.hasCurrent => s # <<>> /\ Head(s) = Head(q.items))
      /\ Len(s) = IF q.hasCurrent THEN Len(u) + 1 ELSE Len(u)
      /\ ToSet(s) = IF q.hasCurrent THEN ToSet(u) \cup {Head(q.items)} ELSE ToSet(u)
  <2>1. CASE q.hasCurrent
    <3> DEFINE c == <<Head(q.items)>> \o u
    <3>1. c \in Seq(T) /\ c # <<>> /\ Head(c) = Head(q.items) /\ Len(c) = Len(u) + 1
      BY <1>2, <1>3, <2>1, Prefixing
    <3>2. ToSet(c) = ToSet(u) \cup {Head(q.items)}
      BY <1>2, <1>3, <2>1, PrefixedOnce
    <3> QED BY <2>1, <3>1, <3>2
  <2>2. CASE ~q.hasCurrent
    BY <1>3, <2>2
  <2> QED BY <1>2, <2>1, <2>2
<1>6. /\ ToSet(q.items) = IF q.hasCurrent THEN ToSet(up) \cup {Head(q.items)} ELSE ToSet(up)
      /\ Len(q.items) = IF q.hasCurrent THEN Len(up) + 1 ELSE Len(up)
      /\ IsInjective(q.items) =>
           /\ IsInjective(up)
           /\ q.hasCurrent => Head(q.items) \notin ToSet(up)
  <2>1. CASE q.hasCurrent
    <3>1. up = Tail(q.items) /\ Len(up) = Len(q.items) - 1 /\ Len(q.items) \in Nat
      BY <1>2, <2>1, UpcomingIs, HeadTailProperties, LenProperties
    <3> HIDE DEF up
    <3> QED BY <1>2, <2>1, <3>1, TailOnce
  <2>2. CASE ~q.hasCurrent
    BY <1>2, <2>2
  <2> QED BY <2>1, <2>2
<1>7. r = [q EXCEPT !.items = s, !.shuffle = shuffle]
  BY <1>1, <1>4 DEF Reordered
<1> HIDE DEF s, up
<1>8. /\ r \in Queues(T) /\ r.items = s /\ r.history = q.history /\ r.hasCurrent = q.hasCurrent
  BY <1>2, <1>5, <1>7 DEF Queues
<1>9. Current(r) = Current(q)
  BY <1>5, <1>8 DEF Current
<1>10. Upcoming(r) = <<>> <=> up = <<>>
  <2>1. Upcoming(r) = <<>> <=> Len(s) = IF q.hasCurrent THEN 1 ELSE 0
    BY <1>8, UpcomingIs
  <2>2. Len(u) \in Nat /\ (u = <<>> <=> Len(u) = 0)
    BY <1>3, LenProperties, EmptySeq
  <2> QED BY <1>3, <1>5, <2>1, <2>2
<1>11. Once(q) => Once(r) /\ Tracks(r) = Tracks(q) /\ Len(r.items) = Len(q.items)
  <2> SUFFICES ASSUME Once(q) PROVE Once(r) /\ Tracks(r) = Tracks(q) /\ Len(r.items) = Len(q.items)
    OBVIOUS
  <2>1. ToSet(s) = ToSet(q.items) /\ Len(s) = Len(q.items)
    BY <1>3, <1>5, <1>6 DEF Once
  <2>2. IsInjective(s)
    BY <1>2, <1>3, <1>6, PrefixedOnce DEF Once, s
  <2> QED BY <1>8, <2>1, <2>2 DEF Once, Tracks
<1> QED BY <1>8, <1>9, <1>10, <1>11 DEF up

\* Stepping back undoes stepping on: the track that was left is the current one again, ahead of
\* what waited behind it; of a full history only the oldest track is lost (PlayQueue.next, previous).
THEOREM BackUndoesNext ==
  ASSUME NEW T, NEW q \in Queues(T), q.hasCurrent
  PROVE  LET r == Previous(NextOf(q)) IN
         /\ r.items = q.items /\ r.hasCurrent = TRUE /\ Current(r) = Current(q)
         /\ Upcoming(r) = Upcoming(q)
         /\ Len(q.history) < HistoryLimit => r = q
<1> DEFINE t == Head(q.items)
           h == Append(q.history, t)
           n == NextOf(q)
           r == Previous(n)
<1>1. /\ q.items \in Seq(T) /\ q.items # <<>> /\ q.history \in Seq(T) /\ q.hasCurrent = TRUE
      /\ t \in T /\ Tail(q.items) \in Seq(T) /\ Len(q.history) \in Nat
  BY HeadTailProperties, LenProperties DEF Queues
<1>2. <<t>> \o Tail(q.items) = q.items
  BY <1>1
<1>3. /\ h \in Seq(T) /\ h # <<>> /\ Len(h) = Len(q.history) + 1 /\ Last(h) = t
      /\ Front(h) = q.history
  BY <1>1, AppendProperties DEF Last, Front
<1>4. /\ Recent(h) \in Seq(T) /\ Recent(h) # <<>> /\ Last(Recent(h)) = t
      /\ Len(q.history) < HistoryLimit => Recent(h) = h
  <2>1. CASE Len(h) > HistoryLimit
    <3>1. Recent(h) = Tail(h) /\ Len(h) > 1 /\ HistoryLimit \in Nat
      BY <1>1, <1>3, <2>1, QueueAssumption DEF Recent
    <3> HIDE DEF h
    <3>2. /\ Tail(h) \in Seq(T) /\ Len(Tail(h)) = Len(h) - 1
          /\ \A k \in 1 .. Len(h) - 1 : Tail(h)[k] = h[k + 1]
      BY <1>3, HeadTailProperties
    <3>3. Tail(h) # <<>> /\ Last(Tail(h)) = Last(h)
      <4> DEFINE m == Len(h) - 1
      <4>1. m \in 1 .. Len(h) - 1 /\ m + 1 = Len(h)
        BY <1>1, <1>3, <3>1
      <4>2. Tail(h)[m] = h[Len(h)] /\ Len(Tail(h)) = m /\ m # 0
        BY <3>2, <4>1
      <4>3. Tail(h) # <<>>
        BY <3>2, <4>2, EmptySeq
      <4> QED BY <4>2, <4>3 DEF Last
    <3> QED BY <1>1, <1>3, <2>1, <3>1, <3>2, <3>3
  <2>2. CASE ~(Len(h) > HistoryLimit)
    BY <1>3, <2>2 DEF Recent
  <2> QED BY <2>1, <2>2
<1> HIDE DEF h
<1>5. n = [q EXCEPT !.items = Tail(q.items), !.history = Recent(h),
                    !.hasCurrent = Tail(q.items) # <<>>]
  <2> DEFINE k == Retired(q)
  <2>1. k = [q EXCEPT !.items = Tail(q.items), !.hasCurrent = FALSE, !.history = Recent(h)]
    BY <1>1 DEF Retired, h
  <2>2. n = [k EXCEPT !.hasCurrent = k.items # <<>>]
    BY DEF NextOf
  <2> HIDE DEF k
  <2> QED BY <2>1, <2>2 DEF Queues
<1> HIDE DEF n, t
<1>6. n.items = Tail(q.items) /\ n.history = Recent(h)
  BY <1>5 DEF Queues
<1>7. r = [n EXCEPT !.items = q.items, !.history = Front(Recent(h)), !.hasCurrent = TRUE]
  BY <1>2, <1>4, <1>6 DEF Previous
<1>8. r = [q EXCEPT !.items = q.items, !.history = Front(Recent(h)), !.hasCurrent = TRUE]
  BY <1>5, <1>7 DEF Queues
<1> HIDE DEF r
<1>9. r.items = q.items /\ r.hasCurrent = TRUE
  BY <1>8 DEF Queues
<1>10. ASSUME Len(q.history) < HistoryLimit PROVE r = q
  <2>1. r = [q EXCEPT !.items = q.items, !.history = q.history, !.hasCurrent = q.hasCurrent]
    BY <1>1, <1>3, <1>4, <1>8, <1>10
  <2> QED BY <2>1 DEF Queues
<1>11. Current(r) = Current(q) /\ Upcoming(r) = Upcoming(q)
  BY <1>1, <1>9 DEF Current, Upcoming, FirstUpcoming
<1> QED BY <1>9, <1>10, <1>11 DEF r, n
================================================================================
