-------------------------- MODULE TokenCacheProofs --------------------------
(***************************************************************************)
(* Proofs about TokenCache for every set of payloads and tokens, every     *)
(* size and every value of the two caps.                                   *)
(***************************************************************************)
EXTENDS TokenCache, SequenceTheorems, FiniteSetTheorems, WellFoundedInduction, TLAPS

-----------------------------------------------------------------------------
(* Lemmas about the recency order *)

\* A token that the order names has a position in it.
LEMMA PositionOfMember ==
    ASSUME NEW q \in Seq(Token), NEW t \in ToSet(q)
    PROVE  Position(q, t) \in 1..Len(q) /\ q[Position(q, t)] = t
<1>1. PICK i \in 1..Len(q) : q[i] = t
  BY DEF ToSet
<1> QED BY <1>1 DEF Position

\* Taking a token out of the order removes it and nothing else.
LEMMA RemovedFacts ==
    ASSUME NEW q \in Seq(Token), IsInjective(q), NEW t \in ToSet(q)
    PROVE  /\ Removed(q, t) \in Seq(Token)
           /\ IsInjective(Removed(q, t))
           /\ ToSet(Removed(q, t)) = ToSet(q) \ {t}
           /\ Len(Removed(q, t)) = Len(q) - 1
<1> DEFINE n == Position(q, t)
           r == Removed(q, t)
<1>1. n \in 1..Len(q) /\ q[n] = t
  BY PositionOfMember
<1>2. Len(q) \in Nat /\ DOMAIN q = 1..Len(q) /\ \A i \in 1..Len(q) : q[i] \in Token
  BY LenProperties, ElementOfSeq
<1>3. /\ r \in Seq(Token)
      /\ Len(r) = Len(q) - 1
      /\ \A i \in 1..(Len(q) - 1) : r[i] = IF i < n THEN q[i] ELSE q[i + 1]
  <2> DEFINE a == SubSeq(q, 1, n - 1)
             b == SubSeq(q, n + 1, Len(q))
  <2>1. /\ a \in Seq(Token)
        /\ Len(a) = n - 1
        /\ \A i \in 1..(n - 1) : a[i] = q[i]
    <3>1. \A i \in 1..(n - 1) : q[i] \in Token
      BY <1>1, <1>2
    <3>2. 1 \in Int /\ n - 1 \in Int
      BY <1>1
    <3> QED BY <1>1, <3>1, <3>2, SubSeqProperties
  <2>2. /\ b \in Seq(Token)
        /\ Len(b) = Len(q) - n
        /\ \A i \in 1..(Len(q) - n) : b[i] = q[n + i]
    <3>1. \A i \in (n + 1)..Len(q) : q[i] \in Token
      BY <1>1, <1>2
    <3>2. n + 1 \in Int /\ Len(q) \in Int
      BY <1>1, <1>2
    <3>3. /\ b \in Seq(Token)
          /\ Len(b) = IF n + 1 <= Len(q) THEN Len(q) - (n + 1) + 1 ELSE 0
          /\ \A i \in 1..(Len(q) - (n + 1) + 1) : b[i] = q[(n + 1) + i - 1]
      BY <3>1, <3>2, SubSeqProperties
    <3> QED BY <1>1, <1>2, <3>3
  <2>3. r = a \o b
    BY DEF Removed, RemoveAt
  <2>4. /\ a \o b \in Seq(Token)
        /\ Len(a \o b) = Len(a) + Len(b)
        /\ \A i \in 1..(Len(a) + Len(b)) :
              (a \o b)[i] = IF i <= Len(a) THEN a[i] ELSE b[i - Len(a)]
    BY <2>1, <2>2, ConcatProperties
  <2> HIDE DEF a, b, r, n
  <2>5. r \in Seq(Token) /\ Len(r) = Len(q) - 1
    BY <1>1, <1>2, <2>1, <2>2, <2>3, <2>4
  <2>6. ASSUME NEW i \in 1..(Len(q) - 1)
        PROVE  r[i] = IF i < n THEN q[i] ELSE q[i + 1]
    <3>1. r[i] = IF i <= n - 1 THEN a[i] ELSE b[i - (n - 1)]
      BY <1>1, <1>2, <2>1, <2>2, <2>3, <2>4
    <3>2. CASE i < n
      BY <1>1, <1>2, <2>1, <3>1, <3>2
    <3>3. CASE ~(i < n)
      <4>1. i - (n - 1) \in 1..(Len(q) - n) /\ n + (i - (n - 1)) = i + 1
        BY <1>1, <1>2, <3>3
      <4>2. b[i - (n - 1)] = q[n + (i - (n - 1))]
        BY <2>2, <4>1
      <4> QED BY <1>1, <1>2, <3>1, <3>3, <4>1, <4>2
    <3> QED BY <3>2, <3>3
  <2> QED BY <2>5, <2>6
<1>4. DOMAIN r = 1..(Len(q) - 1)
  BY <1>3, LenProperties
<1>5. IsInjective(r)
  <2>1. \A i, j \in DOMAIN q : q[i] = q[j] => i = j
    BY DEF IsInjective
  <2>2. ASSUME NEW i \in DOMAIN r, NEW j \in DOMAIN r, r[i] = r[j]
        PROVE  i = j
    <3> DEFINE at(k) == IF k < n THEN k ELSE k + 1
    <3>1. i \in 1..(Len(q) - 1) /\ j \in 1..(Len(q) - 1)
      BY <1>4, <2>2
    <3>2. r[i] = q[at(i)] /\ r[j] = q[at(j)]
      BY <1>3, <3>1
    <3>3. at(i) \in DOMAIN q /\ at(j) \in DOMAIN q
      BY <1>1, <1>2, <3>1, LenProperties
    <3>4. at(i) = at(j)
      <4> HIDE DEF at
      <4> QED BY <2>1, <2>2, <3>2, <3>3
    <3> QED BY <1>1, <1>2, <3>1, <3>4
  <2> QED BY <2>2 DEF IsInjective
<1>6. ToSet(r) = ToSet(q) \ {t}
  <2>1. ToSet(r) \subseteq ToSet(q) \ {t}
    BY <1>1, <1>2, <1>3, <1>4 DEF ToSet, IsInjective
  <2>2. ASSUME NEW u \in ToSet(q) \ {t} PROVE u \in ToSet(r)
    <3>1. PICK i \in 1..Len(q) : q[i] = u
      BY <1>2 DEF ToSet
    <3>2. i # n
      BY <1>1, <3>1
    <3>3. CASE i < n
      <4>1. i \in 1..(Len(q) - 1) /\ r[i] = u
        BY <1>1, <1>2, <1>3, <3>1, <3>3
      <4> QED BY <1>4, <4>1 DEF ToSet
    <3>4. CASE i > n
      <4>1. i - 1 \in 1..(Len(q) - 1) /\ r[i - 1] = u
        BY <1>1, <1>2, <1>3, <3>1, <3>4
      <4> QED BY <1>4, <4>1 DEF ToSet
    <3> QED BY <1>1, <1>2, <3>2, <3>3, <3>4
  <2> QED BY <2>1, <2>2
<1> QED BY <1>3, <1>5, <1>6

\* Adding a new token at the young end adds it and nothing else.
LEMMA AppendFacts ==
    ASSUME NEW q \in Seq(Token), IsInjective(q), NEW t \in Token, t \notin ToSet(q)
    PROVE  /\ Append(q, t) \in Seq(Token)
           /\ IsInjective(Append(q, t))
           /\ ToSet(Append(q, t)) = ToSet(q) \cup {t}
           /\ Len(Append(q, t)) = Len(q) + 1
<1> DEFINE r == Append(q, t)
<1>1. Len(q) \in Nat /\ DOMAIN q = 1..Len(q)
  BY LenProperties
<1>2. /\ r \in Seq(Token)
      /\ Len(r) = Len(q) + 1
      /\ DOMAIN r = 1..(Len(q) + 1)
      /\ \A i \in 1..Len(q) : r[i] = q[i]
      /\ r[Len(q) + 1] = t
  BY <1>1
<1>3. IsInjective(r)
  <2> SUFFICES ASSUME NEW a \in DOMAIN r, NEW b \in DOMAIN r, r[a] = r[b]
               PROVE  a = b
    BY DEF IsInjective
  <2>1. \A i \in 1..Len(q) : q[i] # t
    BY <1>1 DEF ToSet
  <2> QED BY <1>1, <1>2, <2>1 DEF IsInjective
<1>4. ToSet(r) = ToSet(q) \cup {t}
  <2>1. ToSet(r) \subseteq ToSet(q) \cup {t}
    BY <1>1, <1>2 DEF ToSet
  <2>2. ToSet(q) \subseteq ToSet(r)
    BY <1>1, <1>2 DEF ToSet
  <2>3. t \in ToSet(r)
    BY <1>1, <1>2 DEF ToSet
  <2> QED BY <2>1, <2>2, <2>3
<1> QED BY <1>2, <1>3, <1>4

\* Refreshing a token changes the order only.
LEMMA MoveToEndFacts ==
    ASSUME NEW q \in Seq(Token), IsInjective(q), NEW t \in ToSet(q)
    PROVE  /\ MoveToEnd(q, t) \in Seq(Token)
           /\ IsInjective(MoveToEnd(q, t))
           /\ ToSet(MoveToEnd(q, t)) = ToSet(q)
           /\ Len(MoveToEnd(q, t)) = Len(q)
<1>1. t \in Token
  BY LenProperties, ElementOfSeq DEF ToSet
<1>2. /\ Removed(q, t) \in Seq(Token)
      /\ IsInjective(Removed(q, t))
      /\ ToSet(Removed(q, t)) = ToSet(q) \ {t}
      /\ Len(Removed(q, t)) = Len(q) - 1
  BY RemovedFacts
<1>3. Len(q) \in Nat
  BY LenProperties
<1> DEFINE r == Removed(q, t)
<1> HIDE DEF r
<1>4. r \in Seq(Token) /\ IsInjective(r) /\ t \notin ToSet(r)
      /\ ToSet(r) = ToSet(q) \ {t} /\ Len(r) = Len(q) - 1
  BY <1>2 DEF r
<1>5. /\ Append(r, t) \in Seq(Token)
      /\ IsInjective(Append(r, t))
      /\ ToSet(Append(r, t)) = ToSet(r) \cup {t}
      /\ Len(Append(r, t)) = Len(r) + 1
  BY <1>1, <1>4, AppendFacts
<1> QED BY <1>3, <1>4, <1>5 DEF MoveToEnd, r

\* What is left when the k oldest entries have gone.
LEMMA NewestFacts ==
    ASSUME NEW q \in Seq(Token), IsInjective(q), NEW k \in 0..Len(q)
    PROVE  /\ Newest(q, k) \in Seq(Token)
           /\ IsInjective(Newest(q, k))
           /\ ToSet(Newest(q, k)) = ToSet(q) \ ToSet(SubSeq(q, 1, k))
           /\ ToSet(SubSeq(q, 1, k)) \subseteq ToSet(q)
           /\ Len(Newest(q, k)) = Len(q) - k
<1> DEFINE new == Newest(q, k)
           old == SubSeq(q, 1, k)
<1>1. Len(q) \in Nat /\ DOMAIN q = 1..Len(q) /\ \A i \in 1..Len(q) : q[i] \in Token
  BY LenProperties, ElementOfSeq
<1>len. Len(q) \in Nat
  BY LenProperties
<1>k. k \in Nat /\ k <= Len(q)
  BY <1>len
<1>2. /\ new \in Seq(Token)
      /\ Len(new) = Len(q) - k
      /\ \A i \in 1..(Len(q) - k) : new[i] = q[k + i]
  <2>1. \A i \in (k + 1)..Len(q) : q[i] \in Token
    BY <1>1
  <2>2. k + 1 \in Int /\ Len(q) \in Int
    BY <1>1
  <2>3. /\ SubSeq(q, k + 1, Len(q)) \in Seq(Token)
        /\ Len(SubSeq(q, k + 1, Len(q)))
              = IF k + 1 <= Len(q) THEN Len(q) - (k + 1) + 1 ELSE 0
        /\ \A i \in 1..(Len(q) - (k + 1) + 1) :
              SubSeq(q, k + 1, Len(q))[i] = q[(k + 1) + i - 1]
    BY <2>1, <2>2, SubSeqProperties
  <2>4. new = SubSeq(q, k + 1, Len(q))
    BY DEF Newest
  <2> HIDE DEF new
  <2>5. new \in Seq(Token) /\ Len(new) = Len(q) - k
    <3>1. CASE k = Len(q)
      <4>1. ~(k + 1 <= Len(q)) /\ Len(q) - k = 0
        BY <1>1, <3>1
      <4> QED BY <2>3, <2>4, <4>1
    <3>2. CASE k < Len(q)
      <4>1. k + 1 <= Len(q) /\ Len(q) - (k + 1) + 1 = Len(q) - k
        BY <1>1, <3>2
      <4> QED BY <2>3, <2>4, <4>1
    <3>3. k = Len(q) \/ k < Len(q)
      BY <1>len, <1>k
    <3> QED BY <3>1, <3>2, <3>3
  <2>6. ASSUME NEW i \in 1..(Len(q) - k) PROVE new[i] = q[k + i]
    <3>1. i \in 1..(Len(q) - (k + 1) + 1) /\ (k + 1) + i - 1 = k + i
      BY <1>1
    <3>2. new[i] = q[(k + 1) + i - 1]
      BY <2>3, <2>4, <3>1
    <3> QED BY <3>1, <3>2
  <2> QED BY <2>5, <2>6
<1>3. /\ old \in Seq(Token)
      /\ Len(old) = k
      /\ \A i \in 1..k : old[i] = q[i]
  BY <1>1
<1>4. DOMAIN new = 1..(Len(q) - k) /\ DOMAIN old = 1..k
  BY <1>2, <1>3, LenProperties
<1> HIDE DEF new, old
<1>5. IsInjective(new)
  <2> SUFFICES ASSUME NEW a \in 1..(Len(q) - k), NEW b \in 1..(Len(q) - k),
                      new[a] = new[b]
               PROVE  a = b
    BY <1>4 DEF IsInjective
  <2>1. k + a \in DOMAIN q /\ k + b \in DOMAIN q /\ q[k + a] = q[k + b]
    BY <1>1, <1>2
  <2>2. k + a = k + b
    BY <2>1 DEF IsInjective
  <2> QED BY <2>2
<1>6. ToSet(old) \subseteq ToSet(q)
  BY <1>1, <1>3, <1>4 DEF ToSet
<1>7. ToSet(new) \subseteq ToSet(q) \ ToSet(old)
  <2> SUFFICES ASSUME NEW i \in 1..(Len(q) - k)
               PROVE  new[i] \in ToSet(q) \ ToSet(old)
    BY <1>4 DEF ToSet
  <2>1. k + i \in 1..Len(q) /\ k + i > k /\ new[i] = q[k + i]
    BY <1>1, <1>2
  <2>2. new[i] \in ToSet(q)
    BY <1>1, <2>1 DEF ToSet
  <2>3. ASSUME NEW j \in 1..k, old[j] = new[i] PROVE FALSE
    <3>1. q[j] = q[k + i] /\ j \in 1..Len(q)
      BY <1>1, <1>3, <2>1, <2>3
    <3>2. j = k + i
      BY <1>1, <2>1, <3>1 DEF IsInjective
    <3> QED BY <2>1, <3>2
  <2> QED BY <1>4, <2>2, <2>3 DEF ToSet
<1>8. ToSet(q) \ ToSet(old) \subseteq ToSet(new)
  <2> SUFFICES ASSUME NEW i \in 1..Len(q), q[i] \notin ToSet(old)
               PROVE  q[i] \in ToSet(new)
    BY <1>1 DEF ToSet
  <2>1. i > k
    <3>1. SUFFICES ASSUME i \in 1..k PROVE FALSE
      BY <1>1
    <3>2. old[i] = q[i] /\ old[i] \in ToSet(old)
      BY <1>3, <1>4, <3>1 DEF ToSet
    <3> QED BY <3>2
  <2>2. i - k \in 1..(Len(q) - k) /\ k + (i - k) = i
    BY <1>1, <2>1
  <2>3. new[i - k] = q[i]
    BY <1>2, <2>2
  <2> QED BY <1>4, <2>2, <2>3 DEF ToSet
<1> QED BY <1>2, <1>5, <1>6, <1>7, <1>8 DEF new, old

-----------------------------------------------------------------------------
(* Lemmas about the bytes of a set of tokens *)

\* The least of some numbers
LEMMA LeastOf ==
    ASSUME NEW N \in SUBSET Nat, N # {}
    PROVE  \E n \in N : \A m \in N : n <= m
<1>1. PICK n \in N : \A m \in N : ~ (<<m, n>> \in OpToRel(<, Nat))
  BY NatLessThanWellFounded, WFMin
<1>2. ASSUME NEW m \in N
      PROVE  n <= m
  <2>1. m \in Nat /\ n \in Nat /\ ~ (m < n)
    BY <1>1 DEF OpToRel
  <2> QED BY <2>1
<1> QED BY <1>2

\* A family of finite sets that is not empty has a smallest member.
LEMMA SmallestSet ==
    ASSUME NEW F, F # {}, \A s \in F : IsFiniteSet(s)
    PROVE  \E s \in F : \A u \in F : Cardinality(s) <= Cardinality(u)
<1> DEFINE N == {Cardinality(s) : s \in F}
<1>1. N \in SUBSET Nat /\ N # {}
  BY FS_CardinalityType
<1>2. \E n \in N : \A m \in N : n <= m
  <2> HIDE DEF N
  <2> QED BY <1>1, LeastOf
<1> QED BY <1>2

\* The token of s that MapThenSumSet counts first
Chosen(s) == CHOOSE x \in s : TRUE

\* A finite set without one of its members is smaller.
LEMMA RestIsSmaller ==
    ASSUME NEW s, IsFiniteSet(s), NEW x \in s
    PROVE  /\ IsFiniteSet(s \ {x}) /\ Cardinality(s \ {x}) < Cardinality(s)
           /\ Cardinality(s) \in Nat /\ Cardinality(s \ {x}) \in Nat
  BY FS_RemoveElement, FS_CardinalityType

\* ... and so what is left is not of the size of the whole.
LEMMA RestIsNotAsLarge ==
    ASSUME NEW s, IsFiniteSet(s), NEW x \in s
    PROVE  ~ (Cardinality(s) <= Cardinality(s \ {x}))
<1> DEFINE m == Cardinality(s)
           n == Cardinality(s \ {x})
<1>1. n < m /\ m \in Nat /\ n \in Nat
  BY RestIsSmaller
<1> HIDE DEF m, n
<1>2. ~ (m <= n)
  BY <1>1
<1> QED BY <1>2 DEF m, n

\* What MapThenSumSet makes of s, given the sums g of what is smaller
SumOf(s, sha, g) == IF s = {} THEN 0 ELSE Size[sha[Chosen(s)]] + g[s \ {Chosen(s)}]

\* The function that MapThenSumSet defines by recursion
Adds(S, sha, g) == g = [s \in SUBSET S |-> SumOf(s, sha, g)]

\* ... as far as sets of n tokens
AddsTo(S, sha, n, g) ==
    g = [s \in {u \in SUBSET S : Cardinality(u) <= n} |-> SumOf(s, sha, g)]

\* The function MapThenSumSet is defined by exists; by the least size without one.
LEMMA SumsExist ==
    ASSUME NEW S, IsFiniteSet(S), NEW sha
    PROVE  \E g : Adds(S, sha, g)
<1> DEFINE Bad == {n \in Nat : ~ \E g : AddsTo(S, sha, n, g)}
<1>0. \A u \in SUBSET S : /\ IsFiniteSet(u) /\ Cardinality(u) \in Nat
                          /\ Cardinality(u) <= Cardinality(S)
  BY FS_Subset, FS_CardinalityType
<1>1. Bad = {}
  <2> SUFFICES ASSUME Bad # {} PROVE FALSE
    OBVIOUS
  <2>1. PICK n \in Bad : \A m \in Bad : n <= m
    <3>1. Bad \in SUBSET Nat
      OBVIOUS
    <3> HIDE DEF Bad
    <3> QED BY <3>1, LeastOf
  <2>2. n \in Nat /\ ~ \E g : AddsTo(S, sha, n, g)
    OBVIOUS
  <2>3. CASE n = 0
    <3> DEFINE g == [s \in {u \in SUBSET S : Cardinality(u) <= 0} |-> 0]
    <3>1. \A u \in SUBSET S : Cardinality(u) <= 0 => u = {}
      BY <1>0, FS_EmptySet
    <3>2. AddsTo(S, sha, 0, g)
      <4>1. \A s \in {u \in SUBSET S : Cardinality(u) <= 0} : SumOf(s, sha, g) = 0
        BY <3>1 DEF SumOf
      <4>2. g = [s \in {u \in SUBSET S : Cardinality(u) <= 0} |-> SumOf(s, sha, g)]
        BY <4>1
      <4> HIDE DEF g
      <4> QED BY <4>2 DEF AddsTo
    <3> QED BY <2>2, <2>3, <3>2
  <2>4. CASE n # 0
    <3>1. n - 1 \in Nat /\ ~ (n <= n - 1)
      BY <2>2, <2>4
    <3>2. n - 1 \notin Bad
      BY <2>1, <3>1
    <3>3. PICK g : AddsTo(S, sha, n - 1, g)
      BY <3>1, <3>2
    <3> HIDE DEF Bad
    <3> DEFINE D(m) == {u \in SUBSET S : Cardinality(u) <= m}
               h == [s \in D(n) |-> SumOf(s, sha, g)]
    <3>4. \A s \in D(n - 1) : s \in D(n)
      BY <1>0, <2>2
    <3>5. \A s \in D(n - 1) : g[s] = SumOf(s, sha, g)
      BY <3>3 DEF AddsTo
    <3>6. \A s \in D(n - 1) : h[s] = g[s]
      BY <3>4, <3>5
    <3>7. ASSUME NEW s \in D(n)
          PROVE  SumOf(s, sha, g) = SumOf(s, sha, h)
      <4>1. CASE s = {}
        BY <4>1 DEF SumOf
      <4>2. CASE s # {}
        <5>1. Chosen(s) \in s
          BY <4>2 DEF Chosen
        <5>2. s \in SUBSET S /\ Cardinality(s) \in Nat /\ IsFiniteSet(s) /\ Cardinality(s) <= n
          BY <1>0
        <5>3. s \ {Chosen(s)} \in D(n - 1)
          <6>1. Cardinality(s \ {Chosen(s)}) \in Nat
                /\ Cardinality(s \ {Chosen(s)}) < Cardinality(s)
            BY <5>1, <5>2, RestIsSmaller
          <6>2. Cardinality(s \ {Chosen(s)}) <= n - 1
            BY <2>2, <5>2, <6>1
          <6> QED BY <5>2, <6>2
        <5>4. g[s \ {Chosen(s)}] = h[s \ {Chosen(s)}]
          BY <3>6, <5>3
        <5> HIDE DEF h
        <5> QED BY <4>2, <5>4 DEF SumOf
      <4> QED BY <4>1, <4>2
    <3>8. h = [s \in D(n) |-> SumOf(s, sha, h)]
      <4>1. [s \in D(n) |-> SumOf(s, sha, g)] = [s \in D(n) |-> SumOf(s, sha, h)]
        <5> HIDE DEF h, D
        <5> QED BY <3>7
      <4> QED BY <4>1
    <3> HIDE DEF h
    <3>9. AddsTo(S, sha, n, h)
      BY <3>8 DEF AddsTo
    <3> QED BY <2>2, <3>9
  <2> QED BY <2>3, <2>4
<1>2. Cardinality(S) \in Nat
  BY FS_CardinalityType
<1>3. PICK g : AddsTo(S, sha, Cardinality(S), g)
  BY <1>1, <1>2
<1>4. {u \in SUBSET S : Cardinality(u) <= Cardinality(S)} = SUBSET S
  BY <1>0
<1> QED BY <1>3, <1>4 DEF AddsTo, Adds

\* A set has one sum, whichever set it is counted as a part of.
LEMMA SumsAgree ==
    ASSUME NEW S, NEW T, NEW sha, NEW g, NEW h, Adds(S, sha, g), Adds(T, sha, h),
           NEW s \in SUBSET S, s \in SUBSET T, IsFiniteSet(S)
    PROVE  g[s] = h[s]
<1> DEFINE Bad == {u \in SUBSET (S \cap T) : g[u] # h[u]}
<1> SUFFICES ASSUME Bad # {} PROVE FALSE
  BY DEF Adds
<1>1. \A u \in Bad : IsFiniteSet(u)
  BY FS_Subset
<1>2. PICK u \in Bad : \A v \in Bad : Cardinality(u) <= Cardinality(v)
  <2> HIDE DEF Bad
  <2> QED BY <1>1, SmallestSet
<1>3. u \in SUBSET S /\ u \in SUBSET T /\ g[u] # h[u] /\ IsFiniteSet(u)
  BY <1>1
<1>4. g[u] = SumOf(u, sha, g) /\ h[u] = SumOf(u, sha, h)
  BY <1>3 DEF Adds
<1>5. u # {}
  BY <1>3, <1>4 DEF SumOf
<1> DEFINE x == Chosen(u)
<1>6. x \in u
  BY <1>5 DEF Chosen
<1>7. ~ (Cardinality(u) <= Cardinality(u \ {x}))
  <2> HIDE DEF x, Bad
  <2> QED BY <1>3, <1>6, RestIsNotAsLarge
<1>8. u \ {x} \notin Bad /\ u \ {x} \in SUBSET (S \cap T)
  BY <1>2, <1>3, <1>7
<1>9. g[u \ {x}] = h[u \ {x}]
  BY <1>8
<1> QED BY <1>3, <1>4, <1>5, <1>9 DEF SumOf

\* The recursion by which the bytes are counted
LEMMA BytesStep ==
    ASSUME NEW T, IsFiniteSet(T), NEW sha
    PROVE  Bytes(T, sha) = IF T = {} THEN 0
                           ELSE Size[sha[Chosen(T)]] + Bytes(T \ {Chosen(T)}, sha)
<1>1. ASSUME NEW U, IsFiniteSet(U)
      PROVE  \E g : Adds(U, sha, g) /\ Bytes(U, sha) = g[U]
  <2>1. \E g : Adds(U, sha, g)
    BY <1>1, SumsExist
  <2>2. Bytes(U, sha) = (CHOOSE g : Adds(U, sha, g))[U]
    BY DEF Bytes, MapThenSumSet, MapThenFoldSet, Adds, SumOf, Chosen
  <2> QED BY <2>1, <2>2
<1> DEFINE R == T \ {Chosen(T)}
<1>2. IsFiniteSet(R) /\ R \in SUBSET T
  BY FS_Subset
<1>3. PICK g : Adds(T, sha, g) /\ Bytes(T, sha) = g[T]
  BY <1>1
<1>4. PICK h : Adds(R, sha, h) /\ Bytes(R, sha) = h[R]
  <2> HIDE DEF R
  <2> QED BY <1>1, <1>2
<1>5. g[R] = h[R]
  <2> HIDE DEF R
  <2> QED BY <1>2, <1>3, <1>4, SumsAgree
<1>6. g[T] = SumOf(T, sha, g)
  BY <1>3 DEF Adds
<1> QED BY <1>3, <1>4, <1>5, <1>6 DEF SumOf

\* The bytes are a number, and a matter of the payloads of these tokens alone.
LEMMA BytesCongruent ==
    ASSUME NEW T, IsFiniteSet(T), NEW sha, NEW s2, \A t \in T : sha[t] = s2[t] /\ sha[t] \in Payload
    PROVE  Bytes(T, sha) \in Nat /\ Bytes(T, sha) = Bytes(T, s2)
<1> DEFINE Bad == {u \in SUBSET T : ~ (Bytes(u, sha) \in Nat /\ Bytes(u, sha) = Bytes(u, s2))}
<1> SUFFICES ASSUME Bad # {} PROVE FALSE
  OBVIOUS
<1>1. \A u \in Bad : IsFiniteSet(u)
  BY FS_Subset
<1>2. PICK u \in Bad : \A v \in Bad : Cardinality(u) <= Cardinality(v)
  <2> HIDE DEF Bad
  <2> QED BY <1>1, SmallestSet
<1>3. u \in SUBSET T /\ IsFiniteSet(u) /\ ~ (Bytes(u, sha) \in Nat /\ Bytes(u, sha) = Bytes(u, s2))
  BY <1>1
<1>4. u # {}
  <2>1. Bytes({}, sha) = 0 /\ Bytes({}, s2) = 0
    BY FS_EmptySet, BytesStep
  <2> QED BY <1>3, <2>1
<1> DEFINE x == Chosen(u)
           r == u \ {x}
<1>5. x \in u
  BY <1>4 DEF Chosen
<1>6. r \notin Bad /\ r \in SUBSET T
  <2>1. ~ (Cardinality(u) <= Cardinality(r))
    <3> HIDE DEF x, Bad
    <3> QED BY <1>3, <1>5, RestIsNotAsLarge
  <2> QED BY <1>2, <1>3, <2>1
<1>7. Bytes(r, sha) \in Nat /\ Bytes(r, sha) = Bytes(r, s2)
  BY <1>6
<1>8. /\ Bytes(u, sha) = Size[sha[x]] + Bytes(r, sha)
      /\ Bytes(u, s2) = Size[s2[x]] + Bytes(r, s2)
  BY <1>3, <1>4, BytesStep
<1>9. sha[x] = s2[x] /\ Size[sha[x]] \in Nat
  BY <1>3, <1>5, CacheAssumption
<1> HIDE DEF x, r
<1> QED BY <1>3, <1>7, <1>8, <1>9

\* It does not matter which token is counted first, so taking one away takes
\* its bytes away.
LEMMA BytesWithout ==
    ASSUME NEW T, IsFiniteSet(T), NEW sha, \A t \in T : sha[t] \in Payload, NEW y \in T
    PROVE  Bytes(T, sha) = Size[sha[y]] + Bytes(T \ {y}, sha)
<1> DEFINE Bad == {u \in SUBSET T : \E z \in u : Bytes(u, sha) # Size[sha[z]] + Bytes(u \ {z}, sha)}
<1> SUFFICES ASSUME Bad # {} PROVE FALSE
  OBVIOUS
<1>1. \A u \in Bad : IsFiniteSet(u)
  BY FS_Subset
<1>2. PICK u \in Bad : \A v \in Bad : Cardinality(u) <= Cardinality(v)
  <2> HIDE DEF Bad
  <2> QED BY <1>1, SmallestSet
<1>3. PICK z \in u : Bytes(u, sha) # Size[sha[z]] + Bytes(u \ {z}, sha)
  OBVIOUS
<1>4. u \in SUBSET T /\ IsFiniteSet(u)
  BY <1>1
<1> DEFINE x == Chosen(u)
<1>5. x \in u
  BY <1>3 DEF Chosen
<1>6. Bytes(u, sha) = Size[sha[x]] + Bytes(u \ {x}, sha)
  BY <1>3, <1>4, BytesStep
<1>7. ASSUME NEW v \in u, NEW w \in u, v # w
      PROVE  Bytes(u \ {v}, sha) = Size[sha[w]] + Bytes(u \ {v, w}, sha)
  <2> DEFINE r == u \ {v}
  <2>1. ~ (Cardinality(u) <= Cardinality(r)) /\ r \in SUBSET T
    <3>1. /\ Cardinality(r) < Cardinality(u)
          /\ Cardinality(u) \in Nat /\ Cardinality(r) \in Nat
      BY <1>4, RestIsSmaller
    <3>2. r \in SUBSET T
      BY <1>4
    <3> HIDE DEF r
    <3> QED BY <3>1, <3>2
  <2>2. r \notin Bad
    BY <1>2, <2>1
  <2>3. w \in r /\ r \ {w} = u \ {v, w}
    BY <1>7
  <2>4. Bytes(r, sha) = Size[sha[w]] + Bytes(r \ {w}, sha)
    BY <2>1, <2>2, <2>3
  <2> QED BY <2>3, <2>4
<1>8. x # z
  BY <1>3, <1>6
<1>9. /\ Bytes(u \ {x}, sha) = Size[sha[z]] + Bytes(u \ {x, z}, sha)
      /\ Bytes(u \ {z}, sha) = Size[sha[x]] + Bytes(u \ {x, z}, sha)
  <2>1. u \ {z, x} = u \ {x, z}
    OBVIOUS
  <2> QED BY <1>5, <1>7, <1>8, <2>1
<1>10. Size[sha[x]] \in Nat /\ Size[sha[z]] \in Nat
  BY <1>4, <1>5, CacheAssumption
<1>11. Bytes(u \ {x, z}, sha) \in Nat
  <2>1. IsFiniteSet(u \ {x, z})
    BY <1>4, FS_Subset
  <2> QED BY <1>4, <2>1, BytesCongruent
<1> HIDE DEF x
<1> QED BY <1>3, <1>6, <1>9, <1>10, <1>11

\* Fewer tokens have no more bytes.
LEMMA BytesMonotone ==
    ASSUME NEW T, IsFiniteSet(T), NEW sha, \A t \in T : sha[t] \in Payload, NEW U \in SUBSET T
    PROVE  /\ Bytes(U, sha) \in Nat /\ Bytes(T, sha) \in Nat
           /\ Bytes(U, sha) <= Bytes(T, sha)
<1> DEFINE Bad == {u \in SUBSET T : U \subseteq u /\ ~ (Bytes(U, sha) <= Bytes(u, sha))}
<1>1. \A u \in SUBSET T : IsFiniteSet(u) /\ Bytes(u, sha) \in Nat
  <2> SUFFICES ASSUME NEW u \in SUBSET T PROVE IsFiniteSet(u) /\ Bytes(u, sha) \in Nat
    OBVIOUS
  <2>1. IsFiniteSet(u)
    BY FS_Subset
  <2> QED BY <2>1, BytesCongruent
<1> SUFFICES ASSUME Bad # {} PROVE FALSE
  BY <1>1
<1>2. PICK u \in Bad : \A v \in Bad : Cardinality(u) <= Cardinality(v)
  <2>1. \A u \in Bad : IsFiniteSet(u)
    BY <1>1
  <2> HIDE DEF Bad
  <2> QED BY <2>1, SmallestSet
<1>3. u \in SUBSET T /\ U \subseteq u /\ ~ (Bytes(U, sha) <= Bytes(u, sha)) /\ u # U
  BY <1>1
<1>4. PICK y \in u : y \notin U
  BY <1>3
<1> DEFINE r == u \ {y}
<1>5. /\ Cardinality(r) < Cardinality(u)
      /\ Cardinality(u) \in Nat /\ Cardinality(r) \in Nat
  BY <1>1, <1>3, RestIsSmaller
<1>6. r \in SUBSET T /\ U \subseteq r
  BY <1>3, <1>4
<1>7. Bytes(U, sha) <= Bytes(r, sha)
  <2>1. ~ (Cardinality(u) <= Cardinality(r))
    <3> HIDE DEF r
    <3> QED BY <1>5
  <2>2. r \notin Bad
    BY <1>2, <2>1
  <2> QED BY <1>6, <2>2
<1>8. Bytes(u, sha) = Size[sha[y]] + Bytes(r, sha) /\ Size[sha[y]] \in Nat
  BY <1>1, <1>3, BytesWithout, CacheAssumption
<1>9. Bytes(r, sha) \in Nat /\ Bytes(U, sha) \in Nat
  BY <1>1, <1>6
<1> HIDE DEF r
<1> QED BY <1>3, <1>7, <1>8, <1>9

-----------------------------------------------------------------------------
(* Lemmas about the eviction loops *)

\* A popping loop halts at the first count at which its condition fails.
LEMMA LoopHalts ==
    ASSUME NEW n \in Nat, NEW from \in 0..n,
           NEW on, n \notin on
    PROVE  /\ PopWhile(on, from, n) \in from..n
           /\ PopWhile(on, from, n) \notin on
           /\ \A j \in from..(PopWhile(on, from, n) - 1) : j \in on
<1> DEFINE Recurs(g) == g = [k \in from..n |-> IF k \in on THEN g[k + 1] ELSE k]
           Halts(k) == {j \in k..n : j \notin on}
           First(k, j) == j \in Halts(k) /\ \A i \in Halts(k) : j <= i
           first == [k \in from..n |-> CHOOSE j : First(k, j)]
           pops == CHOOSE g : Recurs(g)
<1>1. \A k \in from..n : First(k, first[k])
  <2> SUFFICES ASSUME NEW k \in from..n PROVE \E j : First(k, j)
    OBVIOUS
  <2>1. Halts(k) \in SUBSET Nat /\ Halts(k) # {}
    OBVIOUS
  <2>2. \E j \in Halts(k) : \A i \in Halts(k) : j <= i
    <3> HIDE DEF Halts
    <3> QED BY <2>1, LeastOf
  <2> QED BY <2>2
<1>2. Recurs(first)
  <2> SUFFICES ASSUME NEW k \in from..n
               PROVE  first[k] = IF k \in on THEN first[k + 1] ELSE k
    OBVIOUS
  <2>0. First(k, first[k])
    BY <1>1
  <2>1. CASE k \notin on
    <3> HIDE DEF first
    <3> QED BY <2>0, <2>1
  <2>2. CASE k \in on
    <3>1. k + 1 \in from..n
      BY <2>2
    <3>2. First(k + 1, first[k + 1])
      BY <1>1, <3>1
    <3> HIDE DEF first
    <3> QED BY <2>0, <2>2, <3>1, <3>2
  <2> QED BY <2>1, <2>2
<1>3. Recurs(pops)
  <2> HIDE DEF Recurs, first
  <2> QED BY <1>2
<1>4. PopWhile(on, from, n) = pops[from]
  BY DEF PopWhile
<1> DEFINE Bad == {d \in 0..(n - from) : ~ First(n - d, pops[n - d])}
<1>5. Bad = {}
  <2> SUFFICES ASSUME Bad # {} PROVE FALSE
    OBVIOUS
  <2>1. Bad \in SUBSET Nat
    OBVIOUS
  <2>2. PICK d \in Bad : \A e \in Bad : d <= e
    <3> HIDE DEF Bad
    <3> QED BY <2>1, LeastOf
  <2> DEFINE k == n - d
  <2>3. k \in from..n /\ ~ First(k, pops[k])
    BY <2>2
  <2>4. pops[k] = IF k \in on THEN pops[k + 1] ELSE k
    <3> HIDE DEF pops, k
    <3> QED BY <1>3, <2>3
  <2>5. CASE k \notin on
    <3> HIDE DEF pops
    <3> QED BY <2>3, <2>4, <2>5
  <2>6. CASE k \in on
    <3>1. k # n /\ d - 1 \in 0..(n - from) /\ n - (d - 1) = k + 1 /\ ~ (d <= d - 1)
      BY <2>3, <2>6
    <3>2. d - 1 \notin Bad
      <4> HIDE DEF Bad
      <4> QED BY <2>2, <3>1
    <3>3. First(k + 1, pops[k + 1])
      BY <3>1, <3>2
    <3> HIDE DEF pops
    <3> QED BY <2>3, <2>4, <2>6, <3>1, <3>3
  <2> QED BY <2>5, <2>6
<1>6. First(from, pops[from])
  <2>1. n - from \in 0..(n - from) /\ n - (n - from) = from
    OBVIOUS
  <2>2. n - from \notin Bad
    BY <1>5
  <2> HIDE DEF pops
  <2> QED BY <2>1, <2>2
<1> HIDE DEF pops
<1> QED BY <1>4, <1>6

\* The entries a further pop leaves are those before it without the oldest.
LEMMA NewestSheds ==
    ASSUME NEW q \in Seq(Token), IsInjective(q), NEW k \in 1..Len(q)
    PROVE  /\ q[k] \in ToSet(Newest(q, k - 1))
           /\ ToSet(Newest(q, k)) = ToSet(Newest(q, k - 1)) \ {q[k]}
<1>1. Len(q) \in Nat /\ DOMAIN q = 1..Len(q) /\ \A i \in 1..Len(q) : q[i] \in Token
  BY LenProperties, ElementOfSeq
<1>2. ASSUME NEW j \in 0..Len(q)
      PROVE  ToSet(Newest(q, j)) = {q[i] : i \in (j + 1)..Len(q)}
  <2>1. /\ SubSeq(q, j + 1, Len(q)) \in Seq(Token)
        /\ Len(SubSeq(q, j + 1, Len(q)))
              = IF j + 1 <= Len(q) THEN Len(q) - (j + 1) + 1 ELSE 0
        /\ \A i \in 1..(Len(q) - (j + 1) + 1) :
              SubSeq(q, j + 1, Len(q))[i] = q[(j + 1) + i - 1]
    <3>1. \A i \in (j + 1)..Len(q) : q[i] \in Token
      BY <1>1
    <3>2. j + 1 \in Int /\ Len(q) \in Int
      BY <1>1
    <3> QED BY <3>1, <3>2, SubSeqProperties
  <2> DEFINE new == Newest(q, j)
  <2>2. new = SubSeq(q, j + 1, Len(q))
    BY DEF Newest
  <2> HIDE DEF new
  <2>3. new \in Seq(Token) /\ Len(new) = Len(q) - j
    <3>1. new = Newest(q, j)
      BY DEF new
    <3> QED BY <3>1, NewestFacts
  <2>4. DOMAIN new = 1..(Len(q) - j)
    BY <2>3, LenProperties
  <2>5. \A i \in 1..(Len(q) - j) : new[i] = q[j + i]
    <3> SUFFICES ASSUME NEW i \in 1..(Len(q) - j) PROVE new[i] = q[j + i]
      OBVIOUS
    <3>1. i \in 1..(Len(q) - (j + 1) + 1) /\ (j + 1) + i - 1 = j + i
      BY <1>1
    <3>2. new[i] = q[(j + 1) + i - 1]
      BY <2>1, <2>2, <3>1
    <3> QED BY <3>1, <3>2
  <2>6. ASSUME NEW i \in (j + 1)..Len(q) PROVE q[i] \in ToSet(new)
    <3>1. i - j \in 1..(Len(q) - j) /\ j + (i - j) = i
      BY <1>1
    <3>2. new[i - j] = q[i]
      BY <2>5, <3>1
    <3> QED BY <2>4, <3>1, <3>2 DEF ToSet
  <2>7. ASSUME NEW i \in 1..(Len(q) - j) PROVE j + i \in (j + 1)..Len(q)
    BY <1>1
  <2>8. ToSet(new) = {new[i] : i \in 1..(Len(q) - j)}
    BY <2>4 DEF ToSet
  <2>9. ToSet(new) \subseteq {q[i] : i \in (j + 1)..Len(q)}
    <3> SUFFICES ASSUME NEW i \in 1..(Len(q) - j)
                 PROVE  new[i] \in {q[m] : m \in (j + 1)..Len(q)}
      BY <2>8
    <3>1. new[i] = q[j + i] /\ j + i \in (j + 1)..Len(q)
      BY <2>5, <2>7
    <3> QED BY <3>1
  <2>10. {q[i] : i \in (j + 1)..Len(q)} \subseteq ToSet(new)
    BY <2>6
  <2>11. ToSet(new) = {q[i] : i \in (j + 1)..Len(q)}
    BY <2>9, <2>10
  <2> QED BY <2>11 DEF new
<1> DEFINE old == {q[i] : i \in ((k - 1) + 1)..Len(q)}
           new == {q[i] : i \in (k + 1)..Len(q)}
<1>3. ToSet(Newest(q, k - 1)) = old /\ ToSet(Newest(q, k)) = new
  <2>1. k - 1 \in 0..Len(q) /\ k \in 0..Len(q)
    BY <1>1
  <2> QED BY <1>2, <2>1
<1>4. q[k] \in old
  BY <1>1
<1>5. new \subseteq old \ {q[k]}
  <2> SUFFICES ASSUME NEW i \in (k + 1)..Len(q) PROVE q[i] \in old \ {q[k]}
    OBVIOUS
  <2>1. i \in DOMAIN q /\ k \in DOMAIN q /\ i # k /\ i \in ((k - 1) + 1)..Len(q)
    BY <1>1
  <2>2. q[i] # q[k]
    BY <2>1 DEF IsInjective
  <2> QED BY <2>1, <2>2
<1>6. old \ {q[k]} \subseteq new
  <2> SUFFICES ASSUME NEW i \in ((k - 1) + 1)..Len(q), q[i] # q[k] PROVE q[i] \in new
    OBVIOUS
  <2>1. i \in (k + 1)..Len(q)
    BY <1>1
  <2> QED BY <2>1
<1> QED BY <1>3, <1>4, <1>5, <1>6

\* The tokens of a sequence are finitely many.
LEMMA OrderIsFinite ==
    ASSUME NEW q \in Seq(Token)
    PROVE  IsFiniteSet(ToSet(q))
<1> DEFINE f == [i \in 1..Len(q) |-> q[i]]
<1>0. Len(q) \in Nat
  BY LenProperties
<1>1. IsFiniteSet(1..Len(q)) /\ DOMAIN q = 1..Len(q)
  BY <1>0, FS_Interval, LenProperties
<1>2. f \in Surjection(1..Len(q), ToSet(q))
  BY <1>1 DEF Surjection, ToSet
<1> QED BY <1>1, <1>2, FS_Surjection

\* The total the second loop keeps by subtraction is at every pop the sum of
\* the sizes that are left.
LEMMA TotalIsBytes ==
    ASSUME NEW q \in Seq(Token), IsInjective(q), NEW sha,
           \A t \in ToSet(q) : sha[t] \in Payload, NEW from \in 0..Len(q)
    PROVE  \A k \in from..Len(q) :
              RunningTotal(q, sha, from)[k] = Bytes(ToSet(Newest(q, k)), sha)
<1> DEFINE n == Len(q)
           Sum(k) == Bytes(ToSet(Newest(q, k)), sha)
           Recurs(g) == g = [k \in from..n |-> IF k = from THEN Sum(from)
                                               ELSE g[k - 1] - Size[sha[q[k]]]]
           sums == [k \in from..n |-> Sum(k)]
           total == CHOOSE g : Recurs(g)
<1>1. n \in Nat
  BY LenProperties
<1>2. ASSUME NEW k \in from..n, k # from
      PROVE  /\ Sum(k - 1) = Size[sha[q[k]]] + Sum(k)
             /\ Sum(k) \in Nat /\ Size[sha[q[k]]] \in Nat
  <2>1. k \in 1..Len(q) /\ k - 1 \in 0..Len(q) /\ k \in 0..Len(q)
    BY <1>1, <1>2
  <2> DEFINE T == ToSet(Newest(q, k - 1))
  <2>2. T \subseteq ToSet(q) /\ Newest(q, k - 1) \in Seq(Token)
    BY <2>1, NewestFacts
  <2>3. IsFiniteSet(T)
    BY <2>2, OrderIsFinite
  <2>4. q[k] \in T /\ ToSet(Newest(q, k)) = T \ {q[k]}
    BY <2>1, NewestSheds
  <2> HIDE DEF T
  <2>5. \A t \in T : sha[t] \in Payload
    BY <2>2
  <2>6. Bytes(T, sha) = Size[sha[q[k]]] + Bytes(T \ {q[k]}, sha)
    BY <2>3, <2>4, <2>5, BytesWithout
  <2>7. IsFiniteSet(T \ {q[k]}) /\ \A t \in T \ {q[k]} : sha[t] \in Payload
    BY <2>3, <2>5, FS_Subset
  <2>8. Bytes(T \ {q[k]}, sha) \in Nat
    BY <2>7, BytesMonotone
  <2> QED BY <2>4, <2>5, <2>6, <2>8, CacheAssumption DEF T
<1> HIDE DEF Sum
<1>3. Recurs(sums)
  <2> SUFFICES ASSUME NEW k \in from..n
               PROVE  sums[k] = IF k = from THEN Sum(from)
                                ELSE sums[k - 1] - Size[sha[q[k]]]
    OBVIOUS
  <2>1. CASE k = from
    BY <2>1
  <2>2. CASE k # from
    <3>1. k - 1 \in from..n
      BY <1>1, <2>2
    <3> QED BY <1>2, <2>2, <3>1
  <2> QED BY <2>1, <2>2
<1>4. Recurs(total)
  <2> HIDE DEF Recurs, sums
  <2> QED BY <1>3
<1>5. RunningTotal(q, sha, from) = total
  BY DEF RunningTotal, Sum
<1> DEFINE Bad == {k \in from..n : total[k] # Sum(k)}
<1>6. Bad = {}
  <2> SUFFICES ASSUME Bad # {} PROVE FALSE
    OBVIOUS
  <2>1. Bad \in SUBSET Nat
    BY <1>1
  <2>2. PICK k \in Bad : \A e \in Bad : k <= e
    <3> HIDE DEF Bad
    <3> QED BY <2>1, LeastOf
  <2>3. k \in from..n /\ total[k] # Sum(k)
    BY <2>2
  <2>4. total[k] = IF k = from THEN Sum(from) ELSE total[k - 1] - Size[sha[q[k]]]
    <3> HIDE DEF total
    <3> QED BY <1>4, <2>3
  <2>5. k # from
    BY <2>3, <2>4
  <2>6. k - 1 \in from..n /\ ~ (k <= k - 1)
    BY <1>1, <2>3, <2>5
  <2>7. k - 1 \notin Bad
    <3> HIDE DEF Bad
    <3> QED BY <2>2, <2>6
  <2>8. total[k - 1] = Sum(k - 1)
    BY <2>6, <2>7
  <2>9. /\ Sum(k - 1) = Size[sha[q[k]]] + Sum(k)
        /\ Sum(k) \in Nat /\ Size[sha[q[k]]] \in Nat
    BY <1>2, <2>3, <2>5
  <2> HIDE DEF total
  <2> QED BY <2>3, <2>4, <2>5, <2>8, <2>9
<1> HIDE DEF total
<1> QED BY <1>5, <1>6 DEF Sum

\* The two loops of eviction leave entries that fit, the youngest among them,
\* and stop at the first count at which the entries fit.
LEMMA SurplusFacts ==
    ASSUME NEW q \in Seq(Token), IsInjective(q), Len(q) > 0, NEW sha,
           \A t \in ToSet(q) : sha[t] \in Payload
    PROVE  /\ Surplus(q, sha) \in 0..(Len(q) - 1)
           /\ Fits(Newest(q, Surplus(q, sha)), sha)
           /\ \A j \in 0..(Surplus(q, sha) - 1) : ~Fits(Newest(q, j), sha)
<1> DEFINE n == Len(q)
           many == {k \in 0..n : n - k > FileCap /\ n - k > 1}
           from == PoppedForCount(q)
           total == RunningTotal(q, sha, from)
           heavy == {k \in from..n : total[k] > MaxBytes /\ n - k > 1}
           last == Surplus(q, sha)
           Sum(k) == Bytes(ToSet(Newest(q, k)), sha)
<1>1. n \in Nat /\ FileCap \in Int /\ FileCap >= 1 /\ MaxBytes \in Int
  BY CacheAssumption, LenProperties DEF FileCap
<1>2. n \notin many /\ 0 \in 0..n
  BY <1>1
<1>3. /\ from \in 0..n
      /\ from \notin many
      /\ \A j \in 0..(from - 1) : j \in many
  <2>1. from = PopWhile(many, 0, n)
    BY DEF PoppedForCount
  <2> HIDE DEF from, many, n
  <2> QED BY <1>1, <1>2, <2>1, LoopHalts
<1>4. /\ ~ (n - from > FileCap /\ n - from > 1)
      /\ \A j \in 0..(from - 1) : n - j > FileCap /\ n - j > 1
  BY <1>1, <1>3
<1>5. last = PopWhile(heavy, from, n)
  BY DEF Surplus
<1>6. \A k \in from..n : total[k] = Sum(k)
  BY <1>3, TotalIsBytes
<1> HIDE DEF from, total, many, last
<1>7. n \notin heavy
  BY <1>1, <1>3
<1>8. last \in from..n /\ last \notin heavy /\ \A j \in from..(last - 1) : j \in heavy
  <2> HIDE DEF heavy, n
  <2> QED BY <1>1, <1>3, <1>5, <1>7, LoopHalts
<1> HIDE DEF Sum
<1>9. /\ ~ (Sum(last) > MaxBytes /\ n - last > 1)
      /\ \A j \in from..(last - 1) : Sum(j) > MaxBytes /\ n - j > 1
  BY <1>1, <1>3, <1>6, <1>8
<1>10. \A k \in 0..n : Len(Newest(q, k)) = n - k
  BY NewestFacts
<1>11. \A k \in 0..n : Sum(k) \in Nat
  <2> SUFFICES ASSUME NEW k \in 0..n PROVE Sum(k) \in Nat
    OBVIOUS
  <2>1. Newest(q, k) \in Seq(Token) /\ ToSet(Newest(q, k)) \subseteq ToSet(q)
    BY NewestFacts
  <2>2. IsFiniteSet(ToSet(Newest(q, k)))
    BY <2>1, OrderIsFinite
  <2> QED BY <2>1, <2>2, BytesMonotone DEF Sum
<1>12. last \in 0..(n - 1)
  <2>1. from # n
    <3>1. CASE from = 0
      BY <1>1, <3>1
    <3>2. CASE from # 0
      <4>1. from - 1 \in 0..(from - 1)
        BY <1>1, <1>3, <3>2
      <4>2. n - (from - 1) > 1
        BY <1>4, <4>1
      <4> QED BY <1>1, <1>3, <4>2
    <3> QED BY <3>1, <3>2
  <2>2. last # n
    <3>1. CASE last = from
      BY <2>1, <3>1
    <3>2. CASE last # from
      <4>1. last - 1 \in from..(last - 1)
        BY <1>1, <1>3, <1>8, <3>2
      <4>2. n - (last - 1) > 1
        BY <1>9, <4>1
      <4> QED BY <1>1, <1>3, <1>8, <4>2
    <3> QED BY <3>1, <3>2
  <2> QED BY <1>1, <1>3, <1>8, <2>2
<1>13. Fits(Newest(q, last), sha)
  <2>1. last \in 0..n /\ Len(Newest(q, last)) = n - last
    BY <1>1, <1>10, <1>12
  <2>2. n - last <= 1 \/ (n - last <= FileCap /\ Sum(last) <= MaxBytes)
    BY <1>1, <1>3, <1>4, <1>8, <1>9, <1>11, <2>1
  <2> QED BY <2>1, <2>2 DEF Fits, Sum
<1>14. ASSUME NEW j \in 0..(last - 1)
       PROVE  ~ Fits(Newest(q, j), sha)
  <2>1. j \in 0..n /\ Len(Newest(q, j)) = n - j /\ Sum(j) \in Nat
    BY <1>1, <1>10, <1>11, <1>12
  <2>2. ~ (n - j <= 1) /\ ~ (n - j <= FileCap /\ Sum(j) <= MaxBytes)
    <3>1. CASE j < from
      <4>1. j \in 0..(from - 1)
        BY <1>1, <1>3, <3>1
      <4> QED BY <1>1, <1>4, <2>1, <4>1
    <3>2. CASE ~ (j < from)
      <4>1. j \in from..(last - 1)
        BY <1>1, <1>3, <1>12, <3>2
      <4> QED BY <1>1, <1>9, <2>1, <4>1
    <3> QED BY <3>1, <3>2
  <2> QED BY <2>1, <2>2 DEF Fits, Sum
<1> HIDE DEF n
<1> QED BY <1>12, <1>13, <1>14 DEF last, n

\* Whether the entries fit is a matter of how many there are, which, and of
\* their payloads.
LEMMA FitsCongruent ==
    ASSUME NEW q \in Seq(Token), NEW r \in Seq(Token), Len(r) <= Len(q), ToSet(r) \subseteq ToSet(q),
           NEW sha, NEW s2, \A t \in ToSet(r) : sha[t] = s2[t],
           \A t \in ToSet(q) : sha[t] \in Payload, Fits(q, sha)
    PROVE  Fits(r, s2)
<1>1. Len(q) \in Nat /\ Len(r) \in Nat /\ FileCap \in Int /\ MaxBytes \in Int
  BY CacheAssumption, LenProperties DEF FileCap
<1>2. IsFiniteSet(ToSet(q))
  BY OrderIsFinite
<1>3. Bytes(ToSet(r), sha) = Bytes(ToSet(r), s2)
  BY <1>2, FS_Subset, BytesCongruent
<1>4. Bytes(ToSet(r), sha) \in Nat /\ Bytes(ToSet(q), sha) \in Nat
      /\ Bytes(ToSet(r), sha) <= Bytes(ToSet(q), sha)
  BY <1>2, BytesMonotone
<1> QED BY <1>1, <1>3, <1>4 DEF Fits

-----------------------------------------------------------------------------
(* The inductive invariant *)

\* The cache starts empty and consistent.
LEMMA InitCacheInv == Init => CacheInv
<1> SUFFICES ASSUME Init PROVE CacheInv
  OBVIOUS
<1>1. Live = {} /\ DOMAIN entries = {}
  BY DEF Init, Live, ToSet
<1> QED
  BY <1>1, CacheAssumption
  DEF Init, CacheInv, TypeOK, IndexConsistent, NoDuplicates, IsInjective,
      IndexInverse, LiveFileOnDisk

\* Refreshing a live token keeps the invariant (path, and put of known bytes).
LEMMA TouchCacheInv ==
    ASSUME CacheInv, NEW t \in Live,
           entries' = MoveToEnd(entries, t),
           UNCHANGED <<shaOf, tokenOf, files, partials, issued>>
    PROVE  CacheInv'
<1> USE DEF CacheInv, IndexConsistent
<1>1. entries \in Seq(Token) /\ IsInjective(entries) /\ t \in ToSet(entries)
  BY DEF TypeOK, NoDuplicates, Live
<1>2. /\ entries' \in Seq(Token)
      /\ IsInjective(entries')
      /\ ToSet(entries') = ToSet(entries)
  BY <1>1, MoveToEndFacts
<1>3. Live' = Live
  BY <1>2 DEF Live
<1>4. TypeOK'
  BY <1>2, <1>3 DEF TypeOK
<1>5. NoDuplicates' /\ IndexInverse' /\ LiveFileOnDisk'
  BY <1>2, <1>3 DEF NoDuplicates, IndexInverse, LiveFileOnDisk
<1> QED BY <1>4, <1>5

\* An index that has been emptied is consistent whatever files remain.
LEMMA EmptyCacheInv ==
    ASSUME CacheInv, Forget,
           files' \in SUBSET Payload,
           partials' \in 0..MaxPartials,
           issued' \in SUBSET Token
    PROVE  CacheInv'
<1>1. Live' = {} /\ entries' \in Seq(Token) /\ DOMAIN entries' = {}
  BY DEF Forget, Live, ToSet
<1> QED
  BY <1>1
  DEF Forget, CacheInv, TypeOK, IndexConsistent, NoDuplicates, IsInjective,
      IndexInverse, LiveFileOnDisk

\* Deleting one token takes its hash and its file and no other.
LEMMA DeleteCacheInv ==
    ASSUME CacheInv, NEW t \in Token, Delete(t)
    PROVE  CacheInv'
<1> USE DEF CacheInv, IndexConsistent
<1>1. entries \in Seq(Token) /\ IsInjective(entries) /\ t \in ToSet(entries)
  BY DEF Delete, TypeOK, NoDuplicates, Live
<1>2. /\ entries' \in Seq(Token)
      /\ IsInjective(entries')
      /\ ToSet(entries') = ToSet(entries) \ {t}
  BY <1>1, RemovedFacts DEF Delete
<1>3. Live' = Live \ {t} /\ t \in Live
  BY <1>1, <1>2 DEF Live
<1>4. /\ shaOf \in [Live -> Payload]
      /\ DOMAIN shaOf' = Live'
      /\ \A u \in Live' : shaOf'[u] = shaOf[u]
      /\ shaOf' = [u \in Live' |-> shaOf[u]]
  BY <1>3 DEF Delete, TypeOK, Without, Restrict
<1>5. /\ DOMAIN tokenOf' = DOMAIN tokenOf \ {shaOf[t]}
      /\ \A p \in DOMAIN tokenOf' : tokenOf'[p] = tokenOf[p]
  BY DEF Delete, Without, Restrict
<1>6. \A u \in Live' : shaOf[u] # shaOf[t]
  BY <1>3 DEF IndexInverse
<1>7. TypeOK'
  BY <1>2, <1>3, <1>4, <1>5 DEF TypeOK, Delete
<1>8. NoDuplicates'
  BY <1>2 DEF NoDuplicates
<1>9. IndexInverse'
  BY <1>3, <1>4, <1>5, <1>6 DEF IndexInverse
<1>10. LiveFileOnDisk'
  BY <1>3, <1>4, <1>6 DEF LiveFileOnDisk, Delete
<1> QED BY <1>7, <1>8, <1>9, <1>10

\* Storing new bytes and evicting the oldest entries keeps the invariant: no
\* evicted entry shares its file with one that stays.
LEMMA PutNewCacheInv ==
    ASSUME CacheInv, NEW p \in Payload, NEW t \in Token, PutNew(p, t)
    PROVE  CacheInv'
<1> USE DEF CacheInv, IndexConsistent
<1> DEFINE q == Append(entries, t)
           sha == Assign(shaOf, t, p)
           k == Surplus(q, sha)
           gone == ToSet(SubSeq(q, 1, k))
           lost == {sha[u] : u \in gone}
<1>1. /\ entries \in Seq(Token) /\ IsInjective(entries)
      /\ t \notin ToSet(entries) /\ t \notin Live
  BY DEF PutNew, TypeOK, NoDuplicates, Live
<1>2. /\ q \in Seq(Token)
      /\ IsInjective(q)
      /\ ToSet(q) = Live \cup {t}
      /\ Len(q) = Len(entries) + 1
  BY <1>1, AppendFacts DEF Live
<1>3. Len(entries) \in Nat
  BY <1>1, LenProperties
<1>4. Len(q) \in Nat /\ Len(q) > 0
  BY <1>2, <1>3
<1>5. k \in 0..Len(q)
  <2>0. \A u \in ToSet(q) : sha[u] \in Payload
    BY <1>1, <1>2 DEF TypeOK, Assign
  <2> HIDE DEF q, sha
  <2>1. k \in 0..(Len(q) - 1)
    BY <1>2, <1>4, <2>0, SurplusFacts
  <2> QED BY <1>4, <2>1
<1>6. /\ entries' = Newest(q, k)
      /\ shaOf' = Without(sha, gone)
      /\ tokenOf' = Without(Assign(tokenOf, p, t), lost)
      /\ files' = (files \cup {p}) \ lost
      /\ issued' = issued \cup {t}
      /\ partials' = partials
      /\ p \notin DOMAIN tokenOf
  BY DEF PutNew
<1>7. /\ shaOf \in [Live -> Payload]
      /\ DOMAIN sha = Live \cup {t}
      /\ sha[t] = p
      /\ \A u \in Live : sha[u] = shaOf[u]
  BY <1>1 DEF TypeOK, Assign
<1> HIDE DEF q, sha, k
<1>8. /\ entries' \in Seq(Token)
      /\ IsInjective(entries')
      /\ Live' = (Live \cup {t}) \ gone
      /\ gone \subseteq Live \cup {t}
  BY <1>2, <1>5, <1>6, NewestFacts DEF Live
<1> HIDE DEF gone
<1>9. \A u \in Live : shaOf[u] # p
  BY <1>6 DEF IndexInverse
<1>10. \A u, v \in Live \cup {t} : sha[u] = sha[v] => u = v
  <2>1. \A u, v \in Live : shaOf[u] = shaOf[v] => u = v
    BY DEF IndexInverse
  <2> QED BY <1>7, <1>9, <2>1
<1>11. /\ DOMAIN shaOf' = Live'
       /\ \A u \in Live' : shaOf'[u] = sha[u]
       /\ shaOf' = [u \in Live' |-> sha[u]]
  BY <1>6, <1>7, <1>8 DEF Without, Restrict
<1>12. /\ DOMAIN tokenOf' = (DOMAIN tokenOf \cup {p}) \ lost
       /\ \A r \in DOMAIN tokenOf' : tokenOf'[r] = IF r = p THEN t ELSE tokenOf[r]
  BY <1>6 DEF Without, Restrict, Assign
<1>13. \A u \in Live \cup {t} : sha[u] \in lost <=> u \in gone
  BY <1>8, <1>10
<1> HIDE DEF lost
<1>14. TypeOK'
  <2>1. \A u \in Live' : sha[u] \in Payload
    BY <1>7, <1>8
  <2>2. shaOf' \in [Live' -> Payload]
    BY <1>11, <2>1
  <2>3. \A r \in DOMAIN tokenOf' : r \in Payload /\ tokenOf'[r] \in Token
    BY <1>12 DEF TypeOK
  <2>4. files' \subseteq Payload /\ partials' \in 0..MaxPartials
    BY <1>6 DEF TypeOK
  <2>5. issued' \subseteq Token /\ Live' \subseteq issued'
    BY <1>6, <1>8 DEF TypeOK
  <2> QED BY <1>8, <2>2, <2>3, <2>4, <2>5 DEF TypeOK
<1>15. NoDuplicates'
  BY <1>8 DEF NoDuplicates
<1>16. IndexInverse'
  <2>1. ASSUME NEW u \in Live'
        PROVE  sha[u] \in DOMAIN tokenOf' /\ tokenOf'[sha[u]] = u
    <3>1. u \in Live \cup {t} /\ sha[u] \notin lost
      BY <1>8, <1>13
    <3>2. CASE u = t
      BY <1>7, <1>12, <3>1, <3>2
    <3>3. CASE u \in Live
      <4>1. shaOf[u] \in DOMAIN tokenOf /\ tokenOf[shaOf[u]] = u
        BY <3>3 DEF IndexInverse
      <4> QED BY <1>7, <1>9, <1>12, <3>1, <3>3, <4>1
    <3> QED BY <3>1, <3>2, <3>3
  <2>2. ASSUME NEW r \in DOMAIN tokenOf'
        PROVE  \E u \in Live' : sha[u] = r
    <3>1. r \in DOMAIN tokenOf \cup {p} /\ r \notin lost
      BY <1>12
    <3>2. PICK u \in Live \cup {t} : sha[u] = r
      BY <1>7, <3>1 DEF IndexInverse
    <3> QED BY <1>8, <1>13, <3>1, <3>2
  <2> QED BY <1>11, <2>1, <2>2 DEF IndexInverse
<1>17. LiveFileOnDisk'
  <2> SUFFICES ASSUME NEW u \in Live' PROVE sha[u] \in files'
    BY <1>11 DEF LiveFileOnDisk
  <2>1. u \in Live \cup {t} /\ sha[u] \notin lost
    BY <1>8, <1>13
  <2> QED BY <1>6, <1>7, <2>1 DEF LiveFileOnDisk
<1> QED BY <1>14, <1>15, <1>16, <1>17

\* Every step of the cache, a crash at any point included, keeps the invariant.
LEMMA NextCacheInv == CacheInv /\ [Next]_cacheVars => CacheInv'
<1> SUFFICES ASSUME CacheInv, [Next]_cacheVars PROVE CacheInv'
  OBVIOUS
<1>1. ASSUME NEW p \in Payload, NEW t \in Token, Put(p, t) PROVE CacheInv'
  <2>1. CASE PutKnown(p, t)
    <3>1. t \in Live
      BY <2>1 DEF PutKnown, CacheInv, IndexConsistent, IndexInverse
    <3> QED BY <2>1, <3>1, TouchCacheInv DEF PutKnown
  <2>2. CASE PutNew(p, t)
    BY <2>2, PutNewCacheInv
  <2> QED BY <1>1, <2>1, <2>2 DEF Put
<1>2. ASSUME NEW p \in Payload, NEW t \in Token, PutFails(p, t) PROVE CacheInv'
  BY <1>2, CacheAssumption
  DEF PutFails, CacheInv, TypeOK, IndexConsistent, NoDuplicates, IndexInverse,
      LiveFileOnDisk, Live
<1>3. ASSUME NEW p \in Payload, NEW t \in Token, CrashInEviction(p, t) PROVE CacheInv'
  <2>1. files' \in SUBSET Payload /\ issued' \in SUBSET Token
    BY <1>3 DEF CrashInEviction, CacheInv, TypeOK
  <2>2. partials' \in 0..MaxPartials /\ Forget
    BY <1>3 DEF CrashInEviction, CacheInv, TypeOK
  <2> QED BY <2>1, <2>2, EmptyCacheInv
<1>4. ASSUME NEW t \in Token, Path(t) PROVE CacheInv'
  BY <1>4, TouchCacheInv DEF Path
<1>5. ASSUME NEW t \in Token, Delete(t) PROVE CacheInv'
  BY <1>5, DeleteCacheInv
<1>6. ASSUME NEW p \in Payload, CrashInWrite(p) PROVE CacheInv'
  <2>1. files' \in SUBSET Payload /\ issued' \in SUBSET Token
    BY <1>6 DEF CrashInWrite, CacheInv, TypeOK
  <2>2. partials' \in 0..MaxPartials /\ Forget
    BY <1>6, CacheAssumption DEF CrashInWrite, CacheInv, TypeOK
  <2> QED BY <2>1, <2>2, EmptyCacheInv
<1>7. ASSUME Clear \/ Restart \/ CrashInClear PROVE CacheInv'
  <2>1. files' \in SUBSET Payload /\ issued' \in SUBSET Token
    BY <1>7 DEF Clear, Restart, CrashInClear, CacheInv, TypeOK
  <2>2. partials' \in 0..MaxPartials /\ Forget
    BY <1>7 DEF Clear, Restart, CrashInClear, Forget, CacheInv, TypeOK
  <2> QED BY <2>1, <2>2, EmptyCacheInv
<1>8. CASE UNCHANGED cacheVars
  BY <1>8
  DEF cacheVars, CacheInv, TypeOK, IndexConsistent, NoDuplicates, IndexInverse,
      LiveFileOnDisk, Live
<1> QED BY <1>1, <1>2, <1>3, <1>4, <1>5, <1>6, <1>7, <1>8 DEF Next

\* A put of new bytes evicts a prefix of the order, without the entry it
\* returns and without anything the caps had room for.
LEMMA PutNewEvicts ==
    ASSUME CacheInv, NEW p \in Payload, NEW t \in Token, PutNew(p, t)
    PROVE  LET q == Append(entries, t)
               k == Len(q) - Len(entries')
           IN /\ t \in ToSet(entries')
              /\ entries' = Newest(q, k)
              /\ k > 0 => ~Fits(Newest(q, k - 1), Assign(shaOf, t, p))
<1> DEFINE q == Append(entries, t)
           sha == Assign(shaOf, t, p)
           k == Surplus(q, sha)
           last == Len(q) - k
<1>1. /\ entries \in Seq(Token) /\ IsInjective(entries) /\ t \notin ToSet(entries)
      /\ entries' = Newest(q, k)
  BY DEF PutNew, CacheInv, TypeOK, IndexConsistent, NoDuplicates, Live
<1>2. /\ q \in Seq(Token) /\ IsInjective(q) /\ Len(q) = Len(entries) + 1
      /\ q[Len(q)] = t
  BY <1>1, AppendFacts
<1>3. Len(entries) \in Nat
  BY <1>1, LenProperties
<1>s. \A u \in ToSet(q) : sha[u] \in Payload
  BY <1>1, AppendFacts DEF CacheInv, TypeOK, Live, Assign
<1> HIDE DEF q, sha
<1>4. /\ k \in 0..(Len(q) - 1)
      /\ \A j \in 0..(k - 1) : ~Fits(Newest(q, j), sha)
  BY <1>2, <1>3, <1>s, SurplusFacts
<1>5. k \in 0..Len(q) /\ k \in Nat /\ Len(q) \in Nat
  BY <1>2, <1>3, <1>4
<1> HIDE DEF k
<1>6. Len(Newest(q, k)) = Len(q) - k
  BY <1>2, <1>5, NewestFacts
<1>7. Len(q) - Len(entries') = k
  BY <1>1, <1>5, <1>6
<1>8. t \in ToSet(entries')
  <2>1. \A i \in (k + 1)..Len(q) : q[i] \in Token
    BY <1>2, <1>5, ElementOfSeq
  <2>2. /\ SubSeq(q, k + 1, Len(q)) \in Seq(Token)
        /\ \A i \in 1..(Len(q) - (k + 1) + 1) :
              SubSeq(q, k + 1, Len(q))[i] = q[(k + 1) + i - 1]
    BY <1>5, <2>1, SubSeqProperties
  <2>3. last \in 1..(Len(q) - (k + 1) + 1) /\ (k + 1) + last - 1 = Len(q)
    BY <1>2, <1>3, <1>4, <1>5
  <2>4. entries' = SubSeq(q, k + 1, Len(q))
    BY <1>1 DEF Newest
  <2>5. entries'[last] = t
    BY <1>2, <2>2, <2>3, <2>4
  <2>6. last \in DOMAIN entries'
    <3>1. DOMAIN entries' = 1..Len(entries')
      BY <2>2, <2>4, LenProperties
    <3> QED BY <1>1, <1>2, <1>3, <1>4, <1>5, <1>6, <3>1
  <2> QED BY <2>5, <2>6 DEF ToSet
<1>9. k > 0 => ~Fits(Newest(q, k - 1), sha)
  BY <1>4, <1>5
<1> QED BY <1>1, <1>7, <1>8, <1>9 DEF q, sha

\* What a put of new bytes leaves of the map from tokens to payloads.
LEMMA PutNewDenotes ==
    ASSUME CacheInv, NEW p \in Payload, NEW t \in Token, PutNew(p, t)
    PROVE  /\ t \in Live'
           /\ Live' \subseteq Live \cup {t}
           /\ shaOf' = [u \in Live' |-> IF u = t THEN p ELSE shaOf[u]]
<1> DEFINE q == Append(entries, t)
           sha == Assign(shaOf, t, p)
           k == Surplus(q, sha)
           gone == ToSet(SubSeq(q, 1, k))
<1>1. /\ entries \in Seq(Token) /\ IsInjective(entries) /\ t \notin ToSet(entries)
      /\ entries' = Newest(q, k)
      /\ shaOf' = Without(sha, gone)
      /\ DOMAIN shaOf = Live
  BY DEF PutNew, CacheInv, TypeOK, IndexConsistent, NoDuplicates, Live
<1>2. /\ q \in Seq(Token)
      /\ IsInjective(q)
      /\ ToSet(q) = Live \cup {t}
      /\ Len(q) = Len(entries) + 1
  BY <1>1, AppendFacts DEF Live
<1>3. Len(entries) \in Nat
  BY <1>1, LenProperties
<1>s. \A u \in ToSet(q) : sha[u] \in Payload
  BY <1>1, <1>2 DEF CacheInv, TypeOK, Live, Assign
<1> HIDE DEF q, sha
<1>4. k \in 0..Len(q)
  <2>1. k \in 0..(Len(q) - 1)
    BY <1>2, <1>3, <1>s, SurplusFacts
  <2> QED BY <1>2, <1>3, <2>1
<1> HIDE DEF k
<1>5. Live' = (Live \cup {t}) \ gone
  BY <1>1, <1>2, <1>4, NewestFacts DEF Live
<1>6. t \in Live'
  BY PutNewEvicts DEF Live
<1>7. /\ DOMAIN sha = Live \cup {t}
      /\ \A u \in Live \cup {t} : sha[u] = IF u = t THEN p ELSE shaOf[u]
  BY <1>1 DEF sha, Assign
<1> QED BY <1>1, <1>5, <1>6, <1>7 DEF Without, Restrict

\* Every step leaves entries that fit: a put evicts until they do, a refresh
\* changes their order alone, and a delete leaves fewer.
LEMMA StepFits ==
    ASSUME CacheInv, CapsRespected, [Next]_cacheVars
    PROVE  CapsRespected'
<1>0. /\ entries \in Seq(Token) /\ IsInjective(entries) /\ Fits(entries, shaOf)
      /\ \A u \in ToSet(entries) : shaOf[u] \in Payload
  BY DEF CacheInv, TypeOK, IndexConsistent, NoDuplicates, Live, CapsRespected
<1>1. ASSUME NEW t \in Live, entries' = MoveToEnd(entries, t), shaOf' = shaOf
      PROVE  CapsRespected'
  <2>1. /\ entries' \in Seq(Token) /\ ToSet(entries') = ToSet(entries)
        /\ Len(entries') = Len(entries)
    BY <1>0, <1>1, MoveToEndFacts DEF Live
  <2> QED BY <1>0, <1>1, <2>1 DEF CapsRespected, Fits
<1>2. ASSUME Forget
      PROVE  CapsRespected'
  BY <1>2 DEF Forget, CapsRespected, Fits
<1>3. ASSUME NEW p \in Payload, NEW t \in Token, PutKnown(p, t)
      PROVE  CapsRespected'
  <2>1. t \in Live
    BY <1>3 DEF PutKnown, CacheInv, IndexConsistent, IndexInverse
  <2> QED BY <1>1, <1>3, <2>1 DEF PutKnown
<1>4. ASSUME NEW p \in Payload, NEW t \in Token, PutNew(p, t)
      PROVE  CapsRespected'
  <2> DEFINE q   == Append(entries, t)
             sha == Assign(shaOf, t, p)
             k   == Surplus(q, sha)
             new == Newest(q, k)
  <2>1. entries' = new /\ t \notin ToSet(entries) /\ DOMAIN shaOf = Live
    BY <1>4 DEF PutNew, CacheInv, TypeOK, Live
  <2>2. q \in Seq(Token) /\ IsInjective(q) /\ ToSet(q) = Live \cup {t} /\ Len(q) = Len(entries) + 1
    BY <1>0, <2>1, AppendFacts DEF Live
  <2>3. Len(entries) \in Nat
    BY <1>0, LenProperties
  <2>4. \A u \in ToSet(q) : sha[u] = IF u = t THEN p ELSE shaOf[u]
    BY <2>1, <2>2 DEF Assign
  <2>5. \A u \in ToSet(q) : sha[u] \in Payload
    BY <1>0, <2>2, <2>4 DEF Live
  <2> HIDE DEF q, sha
  <2>6. k \in 0..(Len(q) - 1) /\ Fits(new, sha)
    BY <2>2, <2>3, <2>5, SurplusFacts
  <2>7. k \in 0..Len(q)
    BY <2>2, <2>3, <2>6
  <2> HIDE DEF k
  <2>8. new \in Seq(Token) /\ ToSet(new) \subseteq ToSet(q)
    BY <2>2, <2>7, NewestFacts
  <2> HIDE DEF new
  <2>9. ToSet(new) = Live' /\ shaOf' = [u \in Live' |-> IF u = t THEN p ELSE shaOf[u]]
    BY <1>4, <2>1, PutNewDenotes DEF Live
  <2>10. \A u \in ToSet(new) : sha[u] = shaOf'[u]
    BY <2>4, <2>8, <2>9
  <2>11. Len(new) <= Len(new)
    BY <2>8, LenProperties
  <2>12. \A u \in ToSet(new) : sha[u] \in Payload
    BY <2>5, <2>8
  <2>13. Fits(new, shaOf')
    BY <2>6, <2>8, <2>10, <2>11, <2>12, FitsCongruent
  <2> QED BY <2>1, <2>13 DEF CapsRespected
<1>5. ASSUME NEW t \in Token, Delete(t)
      PROVE  CapsRespected'
  <2>1. t \in ToSet(entries) /\ entries' = Removed(entries, t)
    BY <1>5 DEF Delete, Live
  <2>2. /\ entries' \in Seq(Token) /\ ToSet(entries') = ToSet(entries) \ {t}
        /\ Len(entries') = Len(entries) - 1
    BY <1>0, <2>1, RemovedFacts
  <2>3. Len(entries') <= Len(entries)
    <3>1. Len(entries) \in Nat
      BY <1>0, LenProperties
    <3> QED BY <2>2, <3>1
  <2>4. \A u \in ToSet(entries') : shaOf[u] = shaOf'[u]
    BY <1>5, <2>2 DEF Delete, CacheInv, TypeOK, Live, Without, Restrict
  <2>5. Fits(entries', shaOf')
    BY <1>0, <2>2, <2>3, <2>4, FitsCongruent
  <2> QED BY <2>5 DEF CapsRespected
<1>6. ASSUME UNCHANGED <<entries, shaOf>>
      PROVE  CapsRespected'
  BY <1>6 DEF CapsRespected
<1>7. ASSUME NEW p \in Payload, NEW t \in Token, PutFails(p, t)
      PROVE  CapsRespected'
  BY <1>6, <1>7 DEF PutFails
<1>8. ASSUME NEW t \in Token, Path(t)
      PROVE  CapsRespected'
  BY <1>1, <1>8 DEF Path
<1>9. CASE Clear
  BY <1>9, <1>2 DEF Clear, Forget
<1>10. ASSUME NEW p \in Payload, NEW t \in Token, CrashInEviction(p, t)
       PROVE  CapsRespected'
  BY <1>2, <1>10 DEF CrashInEviction
<1>11. ASSUME Restart \/ CrashInClear \/ \E p \in Payload : CrashInWrite(p)
       PROVE  CapsRespected'
  BY <1>2, <1>11 DEF Restart, CrashInClear, CrashInWrite
<1>12. CASE UNCHANGED cacheVars
  BY <1>6, <1>12 DEF cacheVars
<1> QED BY <1>3, <1>4, <1>5, <1>7, <1>8, <1>9, <1>10, <1>11, <1>12 DEF Next, Put

-----------------------------------------------------------------------------
(* Theorems *)

\* Every variable of the cache keeps its type.
THEOREM TypeCorrect == Spec => []TypeOK
<1>1. CacheInv => TypeOK
  BY DEF CacheInv
<1> QED BY <1>1, InitCacheInv, NextCacheInv, PTL DEF Spec

\* The order, the two indexes and the disk never disagree: one token for each
\* payload, and a file behind every live token, across evictions and crashes.
THEOREM AlwaysConsistent == Spec => []IndexConsistent
<1>1. CacheInv => IndexConsistent
  BY DEF CacheInv
<1> QED BY <1>1, InitCacheInv, NextCacheInv, PTL DEF Spec

\* An eviction takes the oldest entries only, as few as the caps allow, and
\* never the entry that the put returns.
THEOREM EvictionCorrect == Spec => EvictionIsMinimalLRU
<1> DEFINE Minimal(p, t) ==
        PutNew(p, t) =>
          LET q == Append(entries, t)
              k == Len(q) - Len(entries')
          IN /\ t \in ToSet(entries')
             /\ entries' = Newest(q, k)
             /\ k > 0 => ~Fits(Newest(q, k - 1), Assign(shaOf, t, p))
<1>1. CacheInv /\ [Next]_cacheVars
        => [\A p \in Payload, t \in Token : Minimal(p, t)]_cacheVars
  BY PutNewEvicts
<1> QED BY <1>1, InitCacheInv, NextCacheInv, PTL DEF Spec, EvictionIsMinimalLRU

\* The live entries respect both caps in every state, whatever was put, read,
\* deleted and lost in a crash before, and whatever the sizes and the caps are.
THEOREM CapsHold == Spec => []CapsRespected
<1>1. Init => CapsRespected
  BY DEF Init, CapsRespected, Fits
<1>2. CacheInv /\ CapsRespected /\ [Next]_cacheVars => CapsRespected'
  BY StepFits
<1> QED BY <1>1, <1>2, InitCacheInv, NextCacheInv, PTL DEF Spec

\* The cache, with its order, files and crashes, is a content store: no token
\* that a client has ever held comes to denote other bytes.
THEOREM CacheImplementsStore == Spec => ImplementsStore
<1>1. Init => Store!Init
  BY DEF Init, Store!Init
<1>2. CacheInv /\ [Next]_cacheVars => [Store!Next]_(Store!storeVars)
  <2> SUFFICES ASSUME CacheInv, [Next]_cacheVars
               PROVE  [Store!Next]_(Store!storeVars)
    OBVIOUS
  <2> USE DEF Store!storeVars, Store!Next
  <2>0. DOMAIN shaOf = Live
    BY DEF CacheInv, TypeOK
  <2>1. ASSUME NEW p \in Payload, NEW t \in Token, PutNew(p, t)
        PROVE  Store!Store(p, t)
    <3>1. /\ t \in Live'
          /\ Live' \subseteq Live \cup {t}
          /\ shaOf' = [u \in Live' |-> IF u = t THEN p ELSE shaOf[u]]
      BY <2>1, PutNewDenotes
    <3>2. \A u \in DOMAIN shaOf : shaOf[u] # p
      BY <2>0, <2>1 DEF PutNew, CacheInv, IndexConsistent, IndexInverse
    <3>3. Live' \ {t} \in SUBSET DOMAIN shaOf /\ (Live' \ {t}) \cup {t} = Live'
      BY <2>0, <3>1
    <3>4. shaOf' = [u \in (Live' \ {t}) \cup {t} |-> IF u = t THEN p ELSE shaOf[u]]
      BY <3>1, <3>3
    <3> QED BY <2>1, <3>2, <3>3, <3>4 DEF PutNew, Store!Store
  <2>2. ASSUME NEW t \in Token, Delete(t) PROVE Store!Lose
    BY <2>0, <2>2 DEF Delete, Without, Restrict, Store!Lose
  <2>3. ASSUME Forget, UNCHANGED issued PROVE Store!Lose
    <3>1. shaOf' = [u \in {} |-> shaOf[u]]
      BY <2>3 DEF Forget
    <3> QED BY <2>3, <3>1 DEF Store!Lose
  <2>4. ASSUME NEW p \in Payload, NEW t \in Token, CrashInEviction(p, t)
        PROVE  Store!Waste(t)
    BY <2>4 DEF CrashInEviction, Forget, Store!Waste
  <2>5. ASSUME NEW p \in Payload, NEW t \in Token, PutFails(p, t)
        PROVE  Store!Waste(t)
    BY <2>5 DEF PutFails, Store!Waste
  <2>6. ASSUME NEW p \in Payload, NEW t \in Token, PutKnown(p, t)
        PROVE  UNCHANGED Store!storeVars
    BY <2>6 DEF PutKnown
  <2>7. ASSUME NEW t \in Token, Path(t) PROVE UNCHANGED Store!storeVars
    BY <2>7 DEF Path
  <2>8. CASE Clear \/ Restart \/ CrashInClear \/ \E p \in Payload : CrashInWrite(p)
    BY <2>3, <2>8 DEF Clear, Restart, CrashInClear, CrashInWrite, Forget
  <2>9. CASE UNCHANGED cacheVars
    BY <2>9 DEF cacheVars
  <2> QED BY <2>1, <2>2, <2>4, <2>5, <2>6, <2>7, <2>8, <2>9 DEF Next, Put
<1> QED BY <1>1, <1>2, InitCacheInv, NextCacheInv, PTL
        DEF Spec, ImplementsStore, Store!Spec

=============================================================================
