----------------------------- MODULE DataLemmas ------------------------------
(***************************************************************************)
(* Facts about operators of the community modules that several proofs      *)
(* need.  Min, Max, MapThenSumSet and FoldLeft are defined with CHOOSE,    *)
(* the last two through a recursive function on the subsets of a set.      *)
(***************************************************************************)
EXTENDS SequencesExt, Integers, WellFoundedInduction, FiniteSetTheorems, SequenceTheorems, TLAPS

(* A set of natural numbers that is not empty has a least element.          *)
LEMMA MinOfNat ==
  ASSUME NEW S \in SUBSET Nat, S # {}
  PROVE  Min(S) \in S /\ \A y \in S : Min(S) <= y
<1> DEFINE R == {ss \in Nat \X Nat : ss[1] < ss[2]}
<1>1. IsWellFoundedOn(R, Nat)
  BY NatLessThanWellFounded DEF OpToRel
<1>2. PICK x \in S : \A y \in S : ~(<<y, x>> \in R)
  <2> HIDE DEF R
  <2> QED
    BY <1>1, WFMin
<1>3. \A y \in S : ~(y < x)
  <2> SUFFICES ASSUME NEW y \in S, y < x PROVE FALSE
    OBVIOUS
  <2>1. <<y, x>> \in Nat \X Nat
    OBVIOUS
  <2> QED
    BY <2>1, <1>2
<1>4. \A y \in S : x <= y
  BY <1>3
<1> QED
  BY <1>4 DEF Min

(* The sum of f over S, with f an argument a lemma can be applied to.       *)
SumOver(f, S) == MapThenSumSet(LAMBDA s : f[s], S)

(* The sum over no element, and over one.                                   *)
LEMMA SumOfNone == ASSUME NEW f, NEW S, S = {} PROVE SumOver(f, S) = 0
<1> DEFINE g == [t \in SUBSET S |-> 0]
           It(h) == h = [t \in SUBSET S |->
                           IF t = {} THEN 0
                           ELSE f[CHOOSE x \in t : TRUE] + h[t \ {CHOOSE x \in t : TRUE}]]
<1>1. SumOver(f, S) = (CHOOSE h : It(h))[S]
  BY DEF SumOver, MapThenSumSet, MapThenFoldSet
<1>2. S = {} /\ SUBSET S = {{}}
  OBVIOUS
<1>3. \A h : It(h) => h[S] = 0
  BY <1>2
<1>4. It(g)
  <2>1. \A t \in SUBSET S :
          g[t] = IF t = {} THEN 0
                 ELSE f[CHOOSE x \in t : TRUE] + g[t \ {CHOOSE x \in t : TRUE}]
    BY <1>2
  <2> QED
    BY <2>1
<1>5. It(CHOOSE h : It(h))
  BY <1>4
<1> QED
  BY <1>1, <1>3, <1>5

LEMMA SumOfOne ==
  ASSUME NEW a, NEW f, f[a] \in Int
  PROVE  SumOver(f, {a}) = f[a]
<1> DEFINE g == [t \in SUBSET {a} |-> IF t = {} THEN 0 ELSE f[a]]
           It(h) == h = [t \in SUBSET {a} |->
                           IF t = {} THEN 0
                           ELSE f[CHOOSE x \in t : TRUE] + h[t \ {CHOOSE x \in t : TRUE}]]
<1>1. SumOver(f, {a}) = (CHOOSE h : It(h))[{a}]
  BY DEF SumOver, MapThenSumSet, MapThenFoldSet
<1>2. SUBSET {a} = {{}, {a}}
  OBVIOUS
<1>3. (CHOOSE x \in {a} : TRUE) = a
  OBVIOUS
<1>4. \A h : It(h) => h[{a}] = f[a]
  <2> SUFFICES ASSUME NEW h, It(h) PROVE h[{a}] = f[a]
    OBVIOUS
  <2>1. h[{}] = 0
    BY <1>2
  <2>2. h[{a}] = f[a] + h[{a} \ {a}]
    BY <1>2, <1>3
  <2> QED
    BY <2>1, <2>2
<1>5. It(g)
  <2>1. \A t \in SUBSET {a} :
          g[t] = IF t = {} THEN 0
                 ELSE f[CHOOSE x \in t : TRUE] + g[t \ {CHOOSE x \in t : TRUE}]
    BY <1>2, <1>3
  <2> QED
    BY <2>1
<1>6. It(CHOOSE h : It(h))
  BY <1>5
<1> QED
  BY <1>1, <1>4, <1>6

(* A set with no two elements counts at most one.                           *)
LEMMA AtMostOne ==
  ASSUME NEW S, \A a, b \in S : a = b
  PROVE  Cardinality(S) \in {0, 1} /\ (S = {} <=> Cardinality(S) = 0)
<1>1. S = {} \/ \E a : S = {a}
  OBVIOUS
<1>2. ASSUME NEW a, S = {a} PROVE Cardinality(S) = 1 /\ S # {}
  BY <1>2, FS_Singleton
<1>3. CASE S = {}
  BY <1>3, FS_EmptySet
<1> QED
  BY <1>1, <1>2, <1>3

(* An injection that misses an element goes into a larger set.              *)
LEMMA Pigeonhole ==
  ASSUME NEW S, NEW T, IsFiniteSet(T), NEW x \in T, NEW g,
         \A s \in S : g[s] \in T \ {x},
         \A s, t \in S : g[s] = g[t] => s = t
  PROVE  IsFiniteSet(S) /\ Cardinality(S) < Cardinality(T)
<1> DEFINE h == [s \in S |-> g[s]]
<1>1. h \in Injection(S, T \ {x})
  BY DEF Injection, IsInjective
<1>2. /\ IsFiniteSet(T \ {x}) /\ Cardinality(T \ {x}) = Cardinality(T) - 1
      /\ Cardinality(T) \in Nat
  BY FS_RemoveElement, FS_CardinalityType
<1> HIDE DEF h
<1>3. IsFiniteSet(S) /\ Cardinality(S) <= Cardinality(T \ {x})
  BY <1>1, <1>2, FS_Injection
<1>4. Cardinality(S) \in Nat
  BY <1>3, FS_CardinalityType
<1> QED
  BY <1>2, <1>3, <1>4

-----------------------------------------------------------------------------
(* Sequences without repetition, and what they contain when an element      *)
(* leaves or enters.                                                        *)

LEMMA WithoutHead ==
  ASSUME NEW S, NEW q \in Seq(S), IsInjective(q), q # <<>>
  PROVE  /\ Head(q) \in ToSet(q) /\ Tail(q) \in Seq(S) /\ IsInjective(Tail(q))
         /\ ToSet(Tail(q)) = ToSet(q) \ {Head(q)}
<1>1. /\ Tail(q) \in Seq(S) /\ Len(Tail(q)) = Len(q) - 1 /\ Len(q) \in Nat \ {0}
      /\ \A n \in 1 .. Len(q) - 1 : Tail(q)[n] = q[n + 1]
      /\ Head(q) = q[1] /\ DOMAIN q = 1 .. Len(q) /\ DOMAIN Tail(q) = 1 .. Len(q) - 1
  OBVIOUS
<1>2. IsInjective(Tail(q))
  <2> SUFFICES ASSUME NEW m \in 1 .. Len(q) - 1, NEW n \in 1 .. Len(q) - 1,
                      q[m + 1] = q[n + 1]
               PROVE  m = n
    BY <1>1 DEF IsInjective
  <2> QED
    BY <1>1 DEF IsInjective
<1>3. ToSet(Tail(q)) \subseteq ToSet(q) \ {Head(q)}
  <2> SUFFICES ASSUME NEW n \in 1 .. Len(q) - 1
               PROVE  q[n + 1] \in ToSet(q) /\ q[n + 1] # q[1]
    BY <1>1 DEF ToSet
  <2>1. n + 1 \in DOMAIN q /\ 1 \in DOMAIN q /\ n + 1 # 1
    BY <1>1
  <2> QED
    BY <2>1 DEF ToSet, IsInjective
<1>4. ToSet(q) \ {Head(q)} \subseteq ToSet(Tail(q))
  <2> SUFFICES ASSUME NEW n \in 1 .. Len(q), n # 1 PROVE q[n] \in ToSet(Tail(q))
    BY <1>1 DEF ToSet
  <2>1. n - 1 \in DOMAIN Tail(q) /\ Tail(q)[n - 1] = q[n]
    BY <1>1
  <2> QED
    BY <2>1 DEF ToSet
<1>5. Head(q) \in ToSet(q)
  <2>1. 1 \in DOMAIN q /\ Head(q) = q[1]
    BY <1>1
  <2> QED
    BY <2>1 DEF ToSet
<1> QED
  BY <1>1, <1>2, <1>3, <1>4, <1>5

(* r is q with e in place k.                                                *)
Inserted(r, q, k, e) ==
  \A n \in 1 .. Len(q) + 1 : /\ n < k => r[n] = q[n]
                             /\ n = k => r[n] = e
                             /\ n > k => r[n] = q[n - 1]

LEMMA InsertedAt ==
  ASSUME NEW S, NEW q \in Seq(S), NEW e \in S, NEW k \in 1 .. Len(q) + 1,
         NEW r, r = InsertAt(q, k, e)
  PROVE  r \in Seq(S) /\ Len(r) = Len(q) + 1 /\ Inserted(r, q, k, e)
<1> DEFINE a == SubSeq(q, 1, k - 1)
           b == SubSeq(q, k, Len(q))
           len == Len(q)
<1>1. len \in Nat /\ k \in Int /\ DOMAIN q = 1 .. len /\ \A n \in 1 .. len : q[n] \in S
  OBVIOUS
<1>2. a \in Seq(S) /\ Len(a) = k - 1 /\ \A n \in 1 .. k - 1 : a[n] = q[n]
  BY <1>1, SubSeqProperties
<1>3. b \in Seq(S) /\ Len(b) = len - k + 1 /\ \A n \in 1 .. len - k + 1 : b[n] = q[k + n - 1]
  BY <1>1, SubSeqProperties
<1>4. <<e>> \in Seq(S) /\ Len(<<e>>) = 1 /\ <<e>>[1] = e
  OBVIOUS
<1> HIDE DEF a, b
<1>5. /\ a \o <<e>> \in Seq(S) /\ Len(a \o <<e>>) = k
      /\ \A n \in 1 .. k : (a \o <<e>>)[n] = IF n <= k - 1 THEN q[n] ELSE e
  BY <1>1, <1>2, <1>4
<1>6. /\ r \in Seq(S) /\ Len(r) = len + 1
      /\ \A n \in 1 .. len + 1 : r[n] = IF n <= k THEN (a \o <<e>>)[n] ELSE b[n - k]
  <2>1. r = (a \o <<e>>) \o b
    BY DEF InsertAt, a, b
  <2> DEFINE c == a \o <<e>>
  <2>2. c \in Seq(S) /\ Len(c) = k
    BY <1>5
  <2> HIDE DEF c
  <2>3. r = c \o b
    BY <2>1 DEF c
  <2>4. /\ r \in Seq(S) /\ Len(r) = len + 1
        /\ \A n \in 1 .. len + 1 : r[n] = IF n <= k THEN c[n] ELSE b[n - k]
    <3>1. /\ r \in Seq(S) /\ Len(r) = Len(c) + Len(b)
          /\ \A n \in 1 .. Len(c) + Len(b) : r[n] = IF n <= Len(c) THEN c[n] ELSE b[n - Len(c)]
      <4>1. b \in Seq(S) /\ c \in Seq(S)
        BY <1>3, <2>2
      <4>2. /\ c \o b \in Seq(S) /\ Len(c \o b) = Len(c) + Len(b)
            /\ \A n \in 1 .. Len(c) + Len(b) :
                 (c \o b)[n] = IF n <= Len(c) THEN c[n] ELSE b[n - Len(c)]
        BY <4>1, ConcatProperties
      <4> QED
        BY <2>3, <4>2
    <3>2. Len(c) = k /\ Len(c) + Len(b) = len + 1
      BY <1>1, <1>3, <2>2
    <3> QED
      BY <3>1, <3>2
  <2> QED
    BY <2>4 DEF c
<1>7. \A n \in 1 .. len + 1 : /\ n < k => r[n] = q[n]
                              /\ n = k => r[n] = e
                              /\ n > k => r[n] = q[n - 1]
  <2> SUFFICES ASSUME NEW n \in 1 .. len + 1
               PROVE  /\ n < k => r[n] = q[n]
                      /\ n = k => r[n] = e
                      /\ n > k => r[n] = q[n - 1]
    OBVIOUS
  <2>1. CASE n <= k
    BY <1>1, <1>5, <1>6, <2>1
  <2>2. CASE n > k
    <3>1. r[n] = b[n - k]
      BY <1>1, <1>6, <2>2
    <3>2. n - k \in 1 .. len - k + 1 /\ k + (n - k) - 1 = n - 1
      BY <1>1, <2>2
    <3> QED
      BY <1>1, <1>3, <2>2, <3>1, <3>2
  <2> QED
    BY <1>1, <2>1, <2>2
<1> QED
  BY <1>6, <1>7 DEF Inserted

LEMMA WithElement ==
  ASSUME NEW S, NEW q \in Seq(S), IsInjective(q), NEW e \in S, e \notin ToSet(q),
         NEW k \in 1 .. Len(q) + 1
  PROVE  /\ InsertAt(q, k, e) \in Seq(S) /\ IsInjective(InsertAt(q, k, e))
         /\ ToSet(InsertAt(q, k, e)) = ToSet(q) \cup {e}
<1> DEFINE r == InsertAt(q, k, e)
           len == Len(q)
<1>1. len \in Nat /\ k \in Int /\ DOMAIN q = 1 .. len /\ \A n \in 1 .. len : q[n] \in S
  OBVIOUS
<1> HIDE DEF r
<1>2. r \in Seq(S) /\ Len(r) = len + 1 /\ Inserted(r, q, k, e)
  BY InsertedAt DEF r
<1>3. \A n \in 1 .. Len(q) + 1 : /\ n < k => r[n] = q[n]
                                 /\ n = k => r[n] = e
                                 /\ n > k => r[n] = q[n - 1]
  BY <1>2 DEF Inserted
<1>4. DOMAIN r = 1 .. len + 1
  BY <1>2
<1>5. \A n \in 1 .. len : q[n] # e
  BY <1>1 DEF ToSet
<1>6. IsInjective(r)
  <2> SUFFICES ASSUME NEW m \in 1 .. len + 1, NEW n \in 1 .. len + 1, r[m] = r[n]
               PROVE  m = n
    BY <1>4 DEF IsInjective
  <2> DEFINE old(x) == IF x < k THEN x ELSE x - 1
  <2>1. \A x \in 1 .. len + 1 : x # k => old(x) \in 1 .. len /\ r[x] = q[old(x)] /\ r[x] # e
    BY <1>1, <1>3, <1>5
  <2>2. \A x \in 1 .. len + 1, y \in 1 .. len + 1 : x # k /\ y # k /\ old(x) = old(y) => x = y
    BY <1>1
  <2> HIDE DEF old
  <2>3. CASE m = k \/ n = k
    BY <1>3, <2>1, <2>3
  <2>4. CASE m # k /\ n # k
    <3>1. q[old(m)] = q[old(n)] /\ old(m) \in DOMAIN q /\ old(n) \in DOMAIN q
      BY <1>1, <2>1, <2>4
    <3>2. old(m) = old(n)
      BY <3>1 DEF IsInjective
    <3> QED
      BY <2>2, <2>4, <3>2
  <2> QED
    BY <2>3, <2>4
<1>7. ToSet(r) \subseteq ToSet(q) \cup {e}
  <2> SUFFICES ASSUME NEW n \in 1 .. len + 1 PROVE r[n] \in ToSet(q) \cup {e}
    BY <1>4 DEF ToSet
  <2>1. CASE n = k
    BY <1>3, <2>1
  <2>2. CASE n < k
    <3>1. n \in DOMAIN q /\ r[n] = q[n]
      BY <1>1, <1>3, <2>2
    <3> QED
      BY <3>1 DEF ToSet
  <2>3. CASE n > k
    <3>1. n - 1 \in DOMAIN q /\ r[n] = q[n - 1]
      BY <1>1, <1>3, <2>3
    <3> QED
      BY <3>1 DEF ToSet
  <2> QED
    BY <1>1, <2>1, <2>2, <2>3
<1>8. ToSet(q) \cup {e} \subseteq ToSet(r)
  <2>1. e \in ToSet(r)
    BY <1>1, <1>3, <1>4 DEF ToSet
  <2>2. ASSUME NEW n \in 1 .. len PROVE q[n] \in ToSet(r)
    <3>1. CASE n < k
      BY <1>1, <1>3, <1>4, <3>1 DEF ToSet
    <3>2. CASE n >= k
      <4>1. n + 1 \in DOMAIN r /\ r[n + 1] = q[n]
        BY <1>1, <1>3, <1>4, <3>2
      <4> QED
        BY <4>1 DEF ToSet
    <3> QED
      BY <1>1, <3>1, <3>2
  <2> QED
    BY <1>1, <2>1, <2>2 DEF ToSet
<1> QED
  BY <1>2, <1>6, <1>7, <1>8 DEF r

LEMMA WithFront ==
  ASSUME NEW S, NEW q \in Seq(S), IsInjective(q), NEW e \in S, e \notin ToSet(q)
  PROVE  /\ <<e>> \o q \in Seq(S) /\ IsInjective(<<e>> \o q)
         /\ ToSet(<<e>> \o q) = ToSet(q) \cup {e}
<1> DEFINE r == <<e>> \o q
<1>1. Len(q) \in Nat /\ DOMAIN q = 1 .. Len(q)
  OBVIOUS
<1>2. /\ r \in Seq(S) /\ Len(r) = Len(q) + 1 /\ r[1] = e
      /\ \A n \in 1 .. Len(q) + 1 : n > 1 => r[n] = q[n - 1]
  OBVIOUS
<1>3. DOMAIN r = 1 .. Len(q) + 1
  BY <1>2
<1> HIDE DEF r
<1>4. \A n \in 1 .. Len(q) : q[n] # e
  BY <1>1 DEF ToSet
<1>5. IsInjective(r)
  <2> SUFFICES ASSUME NEW m \in 1 .. Len(q) + 1, NEW n \in 1 .. Len(q) + 1, r[m] = r[n]
               PROVE  m = n
    BY <1>3 DEF IsInjective
  <2> QED
    BY <1>1, <1>2, <1>4 DEF IsInjective
<1>6. ToSet(r) \subseteq ToSet(q) \cup {e}
  <2> SUFFICES ASSUME NEW n \in 1 .. Len(q) + 1 PROVE r[n] \in ToSet(q) \cup {e}
    BY <1>3 DEF ToSet
  <2>1. CASE n = 1
    BY <1>2, <2>1
  <2>2. CASE n # 1
    <3>1. n - 1 \in DOMAIN q /\ r[n] = q[n - 1]
      BY <1>1, <1>2, <2>2
    <3> QED
      BY <3>1 DEF ToSet
  <2> QED
    BY <2>1, <2>2
<1>7. ToSet(q) \cup {e} \subseteq ToSet(r)
  <2>1. e \in ToSet(r)
    BY <1>1, <1>2, <1>3 DEF ToSet
  <2>2. ASSUME NEW n \in 1 .. Len(q) PROVE q[n] \in ToSet(r)
    <3>1. n + 1 \in DOMAIN r /\ r[n + 1] = q[n]
      BY <1>1, <1>2, <1>3
    <3> QED
      BY <3>1 DEF ToSet
  <2> QED
    BY <1>1, <2>1, <2>2 DEF ToSet
<1> QED
  BY <1>2, <1>5, <1>6, <1>7 DEF r

LEMMA WithoutElement ==
  ASSUME NEW S, NEW q \in Seq(S), IsInjective(q), NEW e
  PROVE  /\ RemoveFirst(q, e) \in Seq(S) /\ IsInjective(RemoveFirst(q, e))
         /\ ToSet(RemoveFirst(q, e)) = ToSet(q) \ {e}
<1> DEFINE len == Len(q)
           I == {n \in 1 .. len : q[n] = e}
           k == Min(I)
           r == RemoveFirst(q, e)
<1>1. len \in Nat /\ DOMAIN q = 1 .. len /\ \A n \in 1 .. len : q[n] \in S
  OBVIOUS
<1>2. CASE I = {}
  BY <1>1, <1>2 DEF RemoveFirst, ToSet
<1>3. CASE I # {}
  <2> DEFINE a == SubSeq(q, 1, k - 1)
             b == SubSeq(q, k + 1, len)
  <2>1. k \in I
    <3>1. I \in SUBSET Nat
      BY <1>1
    <3> HIDE DEF I
    <3> QED
      BY <1>3, <3>1, MinOfNat
  <2>2. r = a \o b
    BY <1>3 DEF RemoveFirst, RemoveAt, SelectInSeq
  <2> HIDE DEF k, r
  <2>3. k \in 1 .. len /\ q[k] = e
    BY <2>1
  <2>4. a \in Seq(S) /\ Len(a) = k - 1 /\ \A n \in 1 .. k - 1 : a[n] = q[n]
    BY <1>1, <2>3, SubSeqProperties
  <2>5. b \in Seq(S) /\ Len(b) = len - k /\ \A n \in 1 .. len - k : b[n] = q[k + n]
    <3>1. k + 1 \in Int /\ len \in Int /\ \A n \in k + 1 .. len : q[n] \in S
      BY <1>1, <2>3
    <3>2. /\ b \in Seq(S)
          /\ Len(b) = IF k + 1 <= len THEN len - (k + 1) + 1 ELSE 0
          /\ \A n \in 1 .. len - (k + 1) + 1 : b[n] = q[(k + 1) + n - 1]
      BY <3>1, SubSeqProperties
    <3>3. len - (k + 1) + 1 = len - k /\ \A n \in 1 .. len - k : (k + 1) + n - 1 = k + n
      BY <1>1, <2>3
    <3> HIDE DEF b
    <3>4. Len(b) = len - k
      <4>1. CASE k + 1 <= len
        BY <1>1, <2>3, <3>2, <4>1
      <4>2. CASE k = len
        <5>1. ~(k + 1 <= len) /\ len - k = 0
          BY <1>1, <4>2
        <5> QED
          BY <3>2, <5>1
      <4>3. k + 1 <= len \/ k = len
        <5>1. k \in 1 .. len /\ len \in Nat
          BY <1>1, <2>3
        <5> QED
          BY <5>1
      <4> QED
        BY <4>1, <4>2, <4>3
    <3>5. \A n \in 1 .. len - k : b[n] = q[k + n]
      <4> SUFFICES ASSUME NEW n \in 1 .. len - k PROVE b[n] = q[k + n]
        OBVIOUS
      <4>1. b[n] = q[(k + 1) + n - 1] /\ (k + 1) + n - 1 = k + n
        BY <3>2, <3>3
      <4> QED
        BY <4>1
    <3> QED
      BY <3>2, <3>4, <3>5
  <2> HIDE DEF a, b, I
  <2>6. /\ r \in Seq(S) /\ Len(r) = len - 1
        /\ \A n \in 1 .. len - 1 : r[n] = IF n <= k - 1 THEN a[n] ELSE b[n - (k - 1)]
    <3>1. /\ r \in Seq(S) /\ Len(r) = Len(a) + Len(b)
          /\ \A n \in 1 .. Len(a) + Len(b) : r[n] = IF n <= Len(a) THEN a[n] ELSE b[n - Len(a)]
      BY <2>2, <2>4, <2>5, ConcatProperties
    <3>2. Len(a) + Len(b) = len - 1
      BY <1>1, <2>3, <2>4, <2>5
    <3> QED
      BY <2>4, <3>1, <3>2
  <2>7. \A n \in 1 .. len - 1 : /\ n < k => r[n] = q[n]
                                /\ n >= k => r[n] = q[n + 1]
    <3> SUFFICES ASSUME NEW n \in 1 .. len - 1
                 PROVE  /\ n < k => r[n] = q[n]
                        /\ n >= k => r[n] = q[n + 1]
      OBVIOUS
    <3>1. CASE n < k
      BY <1>1, <2>3, <2>4, <2>6, <3>1
    <3>2. CASE n >= k
      <4>1. n - (k - 1) \in 1 .. len - k /\ k + (n - (k - 1)) = n + 1
        BY <1>1, <2>3, <3>2
      <4>2. r[n] = b[n - (k - 1)]
        BY <1>1, <2>3, <2>6, <3>2
      <4> QED
        BY <1>1, <2>3, <2>5, <3>2, <4>1, <4>2
    <3> QED
      BY <1>1, <2>3, <3>1, <3>2
  <2>8. DOMAIN r = 1 .. len - 1
    BY <1>1, <2>6
  <2>9. \A n \in 1 .. len : q[n] = e => n = k
    BY <1>1, <2>3 DEF IsInjective
  <2>10. IsInjective(r)
    <3> SUFFICES ASSUME NEW m \in 1 .. len - 1, NEW n \in 1 .. len - 1, r[m] = r[n]
                 PROVE  m = n
      BY <2>8 DEF IsInjective
    <3> QED
      BY <1>1, <2>3, <2>7 DEF IsInjective
  <2>11. ToSet(r) \subseteq ToSet(q) \ {e}
    <3> SUFFICES ASSUME NEW n \in 1 .. len - 1 PROVE r[n] \in ToSet(q) \ {e}
      BY <2>8 DEF ToSet
    <3>1. n \in DOMAIN q /\ n + 1 \in DOMAIN q
      BY <1>1
    <3> QED
      BY <1>1, <2>3, <2>7, <2>9, <3>1 DEF ToSet
  <2>12. ToSet(q) \ {e} \subseteq ToSet(r)
    <3> SUFFICES ASSUME NEW n \in 1 .. len, q[n] # e PROVE q[n] \in ToSet(r)
      BY <1>1 DEF ToSet
    <3>1. CASE n < k
      BY <1>1, <2>3, <2>7, <2>8, <3>1 DEF ToSet
    <3>2. CASE n > k
      <4>1. n - 1 \in DOMAIN r /\ r[n - 1] = q[n]
        BY <1>1, <2>3, <2>7, <2>8, <3>2
      <4> QED
        BY <4>1 DEF ToSet
    <3> QED
      BY <1>1, <2>3, <3>1, <3>2
  <2> QED
    BY <2>6, <2>10, <2>11, <2>12 DEF r
<1> QED
  BY <1>2, <1>3

LEMMA Concatenation ==
  ASSUME NEW S, NEW p \in Seq(S), NEW q \in Seq(S), IsInjective(p), IsInjective(q),
         ToSet(p) \cap ToSet(q) = {}
  PROVE  /\ p \o q \in Seq(S) /\ IsInjective(p \o q) /\ Len(p \o q) = Len(p) + Len(q)
         /\ ToSet(p \o q) = ToSet(p) \cup ToSet(q)
<1> DEFINE r == p \o q
           i == Len(p)
           j == Len(q)
<1>1. /\ i \in Nat /\ DOMAIN p = 1 .. i /\ j \in Nat /\ DOMAIN q = 1 .. j
  OBVIOUS
<1>2. /\ r \in Seq(S) /\ Len(r) = i + j
      /\ \A n \in 1 .. i + j : r[n] = IF n <= i THEN p[n] ELSE q[n - i]
  BY ConcatProperties
<1>3. DOMAIN r = 1 .. i + j
  BY <1>1, <1>2
<1> HIDE DEF r, i, j
<1>4. \A n \in 1 .. i : n \in 1 .. i + j /\ r[n] = p[n]
  BY <1>1, <1>2
<1>5. \A n \in 1 .. j : i + n \in 1 .. i + j /\ r[i + n] = q[n]
  <2> SUFFICES ASSUME NEW n \in 1 .. j PROVE i + n \in 1 .. i + j /\ r[i + n] = q[n]
    OBVIOUS
  <2>1. i + n \in 1 .. i + j /\ ~(i + n <= i) /\ (i + n) - i = n
    BY <1>1
  <2> QED
    BY <1>2, <2>1
<1>6. \A n \in 1 .. i + j : n \in 1 .. i \/ \E k \in 1 .. j : n = i + k
  <2> SUFFICES ASSUME NEW n \in 1 .. i + j, n \notin 1 .. i PROVE \E k \in 1 .. j : n = i + k
    OBVIOUS
  <2>1. n - i \in 1 .. j /\ n = i + (n - i)
    BY <1>1
  <2> QED
    BY <2>1
<1>7. IsInjective(r)
  <2> SUFFICES ASSUME NEW m \in 1 .. i + j, NEW n \in 1 .. i + j, r[m] = r[n]
               PROVE  m = n
    BY <1>3 DEF IsInjective
  <2>1. CASE m \in 1 .. i /\ n \in 1 .. i
    BY <1>1, <1>4, <2>1 DEF IsInjective
  <2>2. CASE m \in 1 .. i /\ n \notin 1 .. i
    <3>1. PICK l \in 1 .. j : n = i + l
      BY <1>6, <2>2
    <3>2. p[m] = q[l] /\ p[m] \in ToSet(p) /\ q[l] \in ToSet(q)
      BY <1>1, <1>4, <1>5, <2>2, <3>1 DEF ToSet
    <3> QED
      BY <3>2
  <2>3. CASE m \notin 1 .. i /\ n \in 1 .. i
    <3>1. PICK l \in 1 .. j : m = i + l
      BY <1>6, <2>3
    <3>2. p[n] = q[l] /\ p[n] \in ToSet(p) /\ q[l] \in ToSet(q)
      BY <1>1, <1>4, <1>5, <2>3, <3>1 DEF ToSet
    <3> QED
      BY <3>2
  <2>4. CASE m \notin 1 .. i /\ n \notin 1 .. i
    <3>1. PICK k \in 1 .. j, l \in 1 .. j : m = i + k /\ n = i + l
      BY <1>6, <2>4
    <3>2. q[k] = q[l]
      BY <1>5, <3>1
    <3> QED
      BY <1>1, <3>1, <3>2 DEF IsInjective
  <2> QED
    BY <2>1, <2>2, <2>3, <2>4
<1>8. ToSet(r) \subseteq ToSet(p) \cup ToSet(q)
  <2> SUFFICES ASSUME NEW n \in 1 .. i + j PROVE r[n] \in ToSet(p) \cup ToSet(q)
    BY <1>3 DEF ToSet
  <2>1. CASE n \in 1 .. i
    BY <1>1, <1>4, <2>1 DEF ToSet
  <2>2. CASE n \notin 1 .. i
    <3>1. PICK l \in 1 .. j : n = i + l
      BY <1>6, <2>2
    <3> QED
      BY <1>1, <1>5, <3>1 DEF ToSet
  <2> QED
    BY <2>1, <2>2
<1>9. ToSet(p) \subseteq ToSet(r) /\ ToSet(q) \subseteq ToSet(r)
  <2>1. ASSUME NEW n \in 1 .. i PROVE p[n] \in ToSet(r)
    BY <1>3, <1>4 DEF ToSet
  <2>2. ASSUME NEW n \in 1 .. j PROVE q[n] \in ToSet(r)
    BY <1>3, <1>5 DEF ToSet
  <2> QED
    BY <1>1, <2>1, <2>2 DEF ToSet
<1> QED
  BY <1>2, <1>7, <1>8, <1>9 DEF r, i, j

(* A sequence cut after its first n elements.                               *)
LEMMA CutInTwo ==
  ASSUME NEW S, NEW q \in Seq(S), IsInjective(q), NEW n \in 0 .. Len(q)
  PROVE  LET a == SubSeq(q, 1, n)
             b == SubSeq(q, n + 1, Len(q))
         IN  /\ a \in Seq(S) /\ IsInjective(a) /\ Len(a) = n
             /\ b \in Seq(S) /\ IsInjective(b) /\ Len(b) = Len(q) - n
             /\ ToSet(a) \cap ToSet(b) = {} /\ ToSet(a) \cup ToSet(b) = ToSet(q)
<1> DEFINE a == SubSeq(q, 1, n)
           len == Len(q)
           b == SubSeq(q, n + 1, len)
<1>1. len \in Nat /\ n \in Nat /\ n <= len /\ DOMAIN q = 1 .. len /\ \A k \in 1 .. len : q[k] \in S
  OBVIOUS
<1>2. /\ a \in Seq(S) /\ Len(a) = n
      /\ \A k \in 1 .. n : a[k] = q[k]
  <2>1. n \in Int /\ \A k \in 1 .. n : q[k] \in S
    BY <1>1
  <2>2. /\ a \in Seq(S) /\ Len(a) = IF 1 <= n THEN n - 1 + 1 ELSE 0
        /\ \A k \in 1 .. n - 1 + 1 : a[k] = q[1 + k - 1]
    BY <2>1, SubSeqProperties
  <2> HIDE DEF a, len
  <2>3. Len(a) = n
    BY <1>1, <2>2
  <2>4. n - 1 + 1 = n /\ \A k \in 1 .. n : 1 + k - 1 = k
    BY <1>1
  <2> QED
    BY <2>2, <2>3, <2>4
<1>3. /\ b \in Seq(S) /\ Len(b) = len - n
      /\ \A k \in 1 .. len - n : b[k] = q[n + k]
  <2>1. n + 1 \in Int /\ len \in Int /\ \A k \in n + 1 .. len : q[k] \in S
    BY <1>1
  <2>2. /\ b \in Seq(S) /\ Len(b) = IF n + 1 <= len THEN len - (n + 1) + 1 ELSE 0
        /\ \A k \in 1 .. len - (n + 1) + 1 : b[k] = q[(n + 1) + k - 1]
    BY <2>1, SubSeqProperties
  <2> HIDE DEF b, len
  <2>3. Len(b) = len - n
    <3>1. CASE n + 1 <= len
      BY <1>1, <2>2, <3>1
    <3>2. CASE n = len
      BY <1>1, <2>2, <3>2
    <3> QED
      BY <1>1, <3>1, <3>2
  <2>4. len - (n + 1) + 1 = len - n /\ \A k \in 1 .. len - n : (n + 1) + k - 1 = n + k
    BY <1>1
  <2> QED
    BY <2>2, <2>3, <2>4
<1> HIDE DEF a, b, len
<1>4. DOMAIN a = 1 .. n /\ DOMAIN b = 1 .. len - n
  BY <1>2, <1>3, LenProperties
<1>5. /\ \A k \in 1 .. n : k \in 1 .. len
      /\ \A k \in 1 .. len - n : n + k \in 1 .. len /\ n + k \notin 1 .. n
  BY <1>1
<1>6. \A k, l \in 1 .. len : q[k] = q[l] => k = l
  BY <1>1 DEF IsInjective
<1>7. IsInjective(a)
  BY <1>2, <1>4, <1>5, <1>6 DEF IsInjective
<1>8. IsInjective(b)
  <2> SUFFICES ASSUME NEW k \in 1 .. len - n, NEW l \in 1 .. len - n, b[k] = b[l]
               PROVE  k = l
    BY <1>4 DEF IsInjective
  <2>1. n + k = n + l
    BY <1>3, <1>5, <1>6
  <2> QED
    BY <1>1, <2>1
<1>9. ToSet(a) \cap ToSet(b) = {}
  <2> SUFFICES ASSUME NEW k \in 1 .. n, NEW l \in 1 .. len - n, a[k] = b[l]
               PROVE  FALSE
    BY <1>4 DEF ToSet
  <2>1. k = n + l
    BY <1>2, <1>3, <1>5, <1>6
  <2> QED
    BY <1>5, <2>1
<1>10. ToSet(a) \subseteq ToSet(q) /\ ToSet(b) \subseteq ToSet(q)
  BY <1>1, <1>2, <1>3, <1>4, <1>5 DEF ToSet
<1>11. ToSet(q) \subseteq ToSet(a) \cup ToSet(b)
  <2> SUFFICES ASSUME NEW k \in 1 .. len PROVE q[k] \in ToSet(a) \cup ToSet(b)
    BY <1>1 DEF ToSet
  <2>1. CASE k <= n
    <3>1. k \in DOMAIN a /\ a[k] = q[k]
      BY <1>1, <1>2, <1>4, <2>1
    <3> QED
      BY <3>1 DEF ToSet
  <2>2. CASE k > n
    <3>1. k - n \in 1 .. len - n /\ n + (k - n) = k
      BY <1>1, <2>2
    <3>2. b[k - n] = q[k]
      BY <1>3, <3>1
    <3> QED
      BY <1>4, <3>1, <3>2 DEF ToSet
  <2> QED
    BY <1>1, <2>1, <2>2
<1> QED
  BY <1>2, <1>3, <1>7, <1>8, <1>9, <1>10, <1>11 DEF a, b, len

(* A sequence without repetition has as many elements as it is long.        *)
LEMMA CountOfSequence ==
  ASSUME NEW S, NEW q \in Seq(S), IsInjective(q)
  PROVE  IsFiniteSet(ToSet(q)) /\ Cardinality(ToSet(q)) = Len(q)
<1> DEFINE len == Len(q)
<1>1. len \in Nat /\ DOMAIN q = 1 .. len /\ q \in [1 .. len -> ToSet(q)]
  <2>1. Len(q) \in Nat /\ q \in [1 .. Len(q) -> S] /\ DOMAIN q = 1 .. Len(q)
    BY LenProperties
  <2> QED
    BY <2>1 DEF ToSet
<1>2. q \in Bijection(1 .. len, ToSet(q))
  <2>1. q \in Injection(1 .. len, ToSet(q))
    BY <1>1 DEF Injection, IsInjective
  <2>2. q \in Surjection(1 .. len, ToSet(q))
    BY <1>1 DEF Surjection, ToSet
  <2> QED
    BY <2>1, <2>2 DEF Bijection
<1>3. IsFiniteSet(1 .. len)
  BY <1>1, FS_Interval
<1> HIDE DEF len
<1>4. ExistsBijection(1 .. len, ToSet(q))
  BY <1>2 DEF ExistsBijection
<1> QED
  BY <1>1, <1>3, <1>4, FS_CountingElements, FS_Bijection DEF len

-----------------------------------------------------------------------------
(* Numbers that count n to the row: the row and the place in the row.       *)

LEMMA RowAndPlace ==
  ASSUME NEW n \in Nat \ {0}, NEW x \in Nat
  PROVE  /\ x \div n \in Nat /\ x % n \in 0 .. n - 1
         /\ x = n * (x \div n) + (x % n)
<1>1. x \div n \in Nat
  BY Z3
<1>2. x % n \in 0 .. n - 1
  BY Z3
<1>3. x = n * (x \div n) + (x % n)
  BY Z3
<1> QED
  BY <1>1, <1>2, <1>3

LEMMA RowWithin ==
  ASSUME NEW n \in Nat \ {0}, NEW m \in Nat, NEW x \in Nat, x < m * n
  PROVE  x \div n < m
<1> DEFINE q == x \div n
           r == x % n
<1>1. q \in Nat /\ r \in 0 .. n - 1 /\ x = n * q + r
  BY RowAndPlace
<1> HIDE DEF q, r
<1>2. r \in Nat /\ n * q + r < m * n
  BY <1>1
<1>3. q < m
  BY <1>1, <1>2, Z3
<1> QED
  BY <1>3 DEF q

LEMMA NumberOf ==
  ASSUME NEW n \in Nat \ {0}, NEW m \in Nat, NEW q \in 0 .. m - 1, NEW r \in 0 .. n - 1
  PROVE  /\ q * n + r \in Nat /\ q * n + r < m * n
         /\ (q * n + r) \div n = q /\ (q * n + r) % n = r
<1>1. q \in Nat /\ q < m /\ r \in Nat
  OBVIOUS
<1>2. q * n + r \in Nat
  BY <1>1, Z3
<1>3. q * n + r < m * n
  BY <1>1, Z3
<1>4. (q * n + r) \div n = q
  BY <1>1, Z3
<1>5. (q * n + r) % n = r
  BY <1>1, Z3
<1> QED
  BY <1>2, <1>3, <1>4, <1>5

(* A sequence made of a function.                                           *)
LEMMA SeqOfFunction ==
  ASSUME NEW n \in Nat, NEW S, NEW f \in [1 .. n -> S]
  PROVE  f \in Seq(S) /\ Len(f) = n
<1>1. f \in Seq(S)
  BY SeqDef
<1> DEFINE k == Len(f)
<1>2. 1 .. k = 1 .. n /\ k \in Nat
  BY <1>1, LenProperties
<1> HIDE DEF k
<1>3. CASE k < n
  <2>1. n \in 1 .. n /\ n \notin 1 .. k
    BY <1>2, <1>3
  <2> QED
    BY <1>2, <2>1
<1>4. CASE k > n
  <2>1. k \in 1 .. k /\ k \notin 1 .. n
    BY <1>2, <1>4
  <2> QED
    BY <1>2, <2>1
<1>5. k = n
  BY <1>2, <1>3, <1>4
<1> QED
  BY <1>1, <1>5 DEF k

(* A sequence is what a front of it and the rest make together.             *)
LEMMA FrontAndRest ==
  ASSUME NEW S, NEW p \in Seq(S), NEW n \in 1 .. Len(p)
  PROVE  /\ SubSeq(p, 1, n) \in Seq(S) /\ SubSeq(p, n + 1, Len(p)) \in Seq(S)
         /\ SubSeq(p, 1, n) \o SubSeq(p, n + 1, Len(p)) = p
         /\ n = Len(p) => SubSeq(p, n + 1, Len(p)) = <<>> /\ SubSeq(p, 1, n) = p
<1> DEFINE a == SubSeq(p, 1, n)
           r == SubSeq(p, n + 1, Len(p))
           len == Len(p)
<1>1. len \in Nat /\ n \in 1 .. len /\ \A k \in 1 .. len : p[k] \in S
  BY LenProperties, ElementOfSeq
<1>2. a \in Seq(S)
  <2>1. 1 \in Int /\ n \in Int /\ \A k \in 1 .. n : p[k] \in S
    BY <1>1
  <2> QED
    BY <2>1, SubSeqProperties
<1>3. r \in Seq(S)
  <2>1. n + 1 \in Int /\ len \in Int /\ \A k \in n + 1 .. len : p[k] \in S
    BY <1>1
  <2> QED
    BY <2>1, SubSeqProperties
<1>4. a \o r = p
  <2>1. 1 \in 1 .. len + 1 /\ n \in 1 - 1 .. len /\ len \in n .. len
    BY <1>1
  <2>2. a \o r = SubSeq(p, 1, len)
    BY <2>1, ConcatAdjacentSubSeq
  <2> QED
    BY <2>2, SubSeqFull
<1>5. n = len => r = <<>> /\ a = p
  <2>1. n = len => len < n + 1 /\ n + 1 \in Int /\ len \in Int
    BY <1>1
  <2> QED
    BY <2>1, SubSeqEmpty, SubSeqFull
<1> HIDE DEF a, r
<1> QED
  BY <1>2, <1>3, <1>4, <1>5 DEF a, r, len
-----------------------------------------------------------------------------
(* Sums over finite sets of natural numbers.                                *)

(* h has the sum of f over every subset of S, computed as MapThenFoldSet does. *)
Adds(f, S, h) ==
  h = [t \in SUBSET S |->
         IF t = {} THEN 0
         ELSE f[CHOOSE x \in t : TRUE] + h[t \ {CHOOSE x \in t : TRUE}]]

LEMMA AddsOf ==
  ASSUME NEW f, NEW S, NEW h, Adds(f, S, h), NEW t \in SUBSET S
  PROVE  /\ t = {} => h[t] = 0
         /\ t # {} => \E x \in t : x = (CHOOSE y \in t : TRUE) /\ h[t] = f[x] + h[t \ {x}]
<1>1. h[t] = IF t = {} THEN 0 ELSE f[CHOOSE x \in t : TRUE] + h[t \ {CHOOSE x \in t : TRUE}]
  BY DEF Adds
<1>2. t # {} => (CHOOSE y \in t : TRUE) \in t
  OBVIOUS
<1> QED
  BY <1>1, <1>2

(* A property of finite sets that fails for none smaller fails for none.    *)
LEMMA SmallestOne ==
  ASSUME NEW C, NEW D \in SUBSET C, \A t \in C : IsFiniteSet(t), D # {}
  PROVE  \E t \in D : \A u \in C : Cardinality(u) < Cardinality(t) => u \notin D
<1> DEFINE N == {Cardinality(t) : t \in D}
<1>1. N \in SUBSET Nat /\ N # {}
  BY FS_CardinalityType
<1>2. Min(N) \in N /\ \A y \in N : Min(N) <= y
  BY <1>1, MinOfNat
<1>3. PICK t \in D : Cardinality(t) = Min(N)
  BY <1>2
<1>4. ASSUME NEW u \in C, Cardinality(u) < Cardinality(t), u \in D PROVE FALSE
  <2>1. Cardinality(u) \in N /\ Cardinality(u) \in Nat /\ Min(N) \in Nat
    BY <1>1, <1>2, <1>4
  <2> QED
    BY <1>2, <1>3, <1>4, <2>1
<1> QED
  BY <1>4

LEMMA AddsUnique ==
  ASSUME NEW f, NEW S, IsFiniteSet(S), NEW T, S \subseteq T, NEW g, NEW h,
         Adds(f, S, g), Adds(f, T, h)
  PROVE  g[S] = h[S]
<1> DEFINE D == {t \in SUBSET S : g[t] # h[t]}
<1>1. \A t \in SUBSET S : IsFiniteSet(t)
  BY FS_Subset
<1> SUFFICES ASSUME D # {} PROVE FALSE
  OBVIOUS
<1>2. PICK t \in D : \A u \in SUBSET S : Cardinality(u) < Cardinality(t) => u \notin D
  <2>1. D \in SUBSET SUBSET S
    OBVIOUS
  <2> HIDE DEF D
  <2> QED
    BY <1>1, <2>1, SmallestOne
<1>3. t \in SUBSET S /\ t \in SUBSET T /\ g[t] # h[t]
  OBVIOUS
<1>4. t # {}
  BY <1>3, AddsOf
<1>5. PICK x \in t : x = (CHOOSE y \in t : TRUE) /\ g[t] = f[x] + g[t \ {x}]
  BY <1>3, <1>4, AddsOf
<1>6. h[t] = f[x] + h[t \ {x}]
  <2>1. PICK z \in t : z = (CHOOSE y \in t : TRUE) /\ h[t] = f[z] + h[t \ {z}]
    BY <1>3, <1>4, AddsOf
  <2>2. z = x
    BY <1>5, <2>1
  <2> QED
    BY <2>1, <2>2
<1>7. t \ {x} \in SUBSET S /\ Cardinality(t \ {x}) < Cardinality(t)
  <2>1. IsFiniteSet(t) /\ x \in t
    BY <1>1
  <2>2. Cardinality(t \ {x}) = Cardinality(t) - 1 /\ Cardinality(t) \in Nat
    BY <2>1, FS_RemoveElement, FS_CardinalityType
  <2> QED
    BY <2>2
<1>8. g[t \ {x}] = h[t \ {x}]
  BY <1>2, <1>7
<1>9. f[x] + g[t \ {x}] = f[x] + h[t \ {x}]
  BY <1>8
<1> HIDE DEF D
<1> QED
  BY <1>3, <1>5, <1>6, <1>9

(* The subsets of S with k elements at most, and a function that has their sums. *)
UpToSize(S, k) == {t \in SUBSET S : Cardinality(t) <= k}
AddsUpTo(f, S, k, h) ==
  /\ h \in [UpToSize(S, k) -> Nat]
  /\ \A t \in UpToSize(S, k) :
       h[t] = IF t = {} THEN 0 ELSE f[CHOOSE x \in t : TRUE] + h[t \ {CHOOSE x \in t : TRUE}]

LEMMA SmallSets ==
  ASSUME NEW S, IsFiniteSet(S), NEW k \in Nat
  PROVE  /\ UpToSize(S, 0) = {{}} /\ UpToSize(S, Cardinality(S)) = SUBSET S /\ Cardinality(S) \in Nat
         /\ UpToSize(S, k) \subseteq UpToSize(S, k + 1)
         /\ \A t \in UpToSize(S, k + 1) : \A x \in t : t \ {x} \in UpToSize(S, k)
<1>1. \A t \in SUBSET S : IsFiniteSet(t) /\ Cardinality(t) \in Nat /\ Cardinality(t) <= Cardinality(S)
  BY FS_Subset, FS_CardinalityType
<1>2. UpToSize(S, 0) = {{}}
  <2>1. \A t \in SUBSET S : Cardinality(t) <= 0 <=> t = {}
    BY <1>1, FS_EmptySet
  <2> QED
    BY <2>1 DEF UpToSize
<1>3. UpToSize(S, Cardinality(S)) = SUBSET S
  BY <1>1 DEF UpToSize
<1>4. ASSUME NEW t \in UpToSize(S, k) PROVE t \in UpToSize(S, k + 1)
  <2>1. t \in SUBSET S /\ Cardinality(t) <= k
    BY DEF UpToSize
  <2>2. PICK a \in Nat : a = Cardinality(t)
    BY <1>1, <2>1
  <2>3. a <= k + 1
    BY <2>1, <2>2
  <2> QED
    BY <2>1, <2>2, <2>3 DEF UpToSize
<1>5. ASSUME NEW t \in UpToSize(S, k + 1), NEW x \in t PROVE t \ {x} \in UpToSize(S, k)
  <2>1. t \in SUBSET S /\ Cardinality(t) <= k + 1
    BY DEF UpToSize
  <2>2. PICK a \in Nat : a = Cardinality(t)
    BY <1>1, <2>1
  <2>3. Cardinality(t \ {x}) = a - 1
    BY <1>1, <2>1, <2>2, FS_RemoveElement
  <2>4. a - 1 <= k
    BY <2>1, <2>2
  <2> QED
    BY <2>1, <2>3, <2>4 DEF UpToSize
<1>6. Cardinality(S) \in Nat
  BY FS_CardinalityType
<1> QED
  BY <1>2, <1>3, <1>4, <1>5, <1>6

LEMMA AddsMore ==
  ASSUME NEW S, IsFiniteSet(S), NEW f, \A x \in S : f[x] \in Nat, NEW k \in Nat,
         NEW g, AddsUpTo(f, S, k, g)
  PROVE  \E h : AddsUpTo(f, S, k + 1, h)
<1> DEFINE c(t) == CHOOSE x \in t : TRUE
           U == UpToSize(S, k)
           V == UpToSize(S, k + 1)
           h == [t \in V |-> IF t = {} THEN 0 ELSE f[c(t)] + g[t \ {c(t)}]]
<1>1. \A t \in V : t # {} => c(t) \in t /\ f[c(t)] \in Nat
  BY DEF UpToSize
<1>2. \A t \in U : g[t] = IF t = {} THEN 0 ELSE f[c(t)] + g[t \ {c(t)}]
  BY DEF AddsUpTo
<1> HIDE DEF c
<1>3. U \subseteq V /\ \A t \in V : t # {} => t \ {c(t)} \in U
  BY <1>1, SmallSets
<1>4. g \in [U -> Nat]
  BY DEF AddsUpTo
<1> HIDE DEF U, V
<1>5. h \in [V -> Nat]
  BY <1>1, <1>3, <1>4
<1>6. \A t \in U : h[t] = g[t]
  BY <1>2, <1>3
<1>7. \A t \in V : h[t] = IF t = {} THEN 0 ELSE f[c(t)] + h[t \ {c(t)}]
  BY <1>3, <1>6
<1> HIDE DEF h
<1> QED
  BY <1>5, <1>7 DEF AddsUpTo, U, V, c

LEMMA AddsExists ==
  ASSUME NEW S, IsFiniteSet(S), NEW f, \A x \in S : f[x] \in Nat
  PROVE  \E h \in [SUBSET S -> Nat] : Adds(f, S, h)
<1> DEFINE K == {k \in Nat : \A h : ~AddsUpTo(f, S, k, h)}
<1>1. 0 \notin K
  <2> DEFINE h == [t \in UpToSize(S, 0) |-> 0]
  <2>1. UpToSize(S, 0) = {{}}
    BY SmallSets
  <2>2. AddsUpTo(f, S, 0, h)
    BY <2>1 DEF AddsUpTo
  <2> QED
    BY <2>2
<1>2. \A k \in Nat : k + 1 \in K => k \in K
  BY AddsMore
<1>3. K \in SUBSET Nat
  OBVIOUS
<1>4. ASSUME NEW k \in Nat PROVE \E h : AddsUpTo(f, S, k, h)
  <2>1. k \notin K => \E h : AddsUpTo(f, S, k, h)
    OBVIOUS
  <2> HIDE DEF K
  <2>2. ASSUME K # {} PROVE FALSE
    <3>1. PICK m \in K : \A j \in K : m <= j
      BY <1>3, <2>2, MinOfNat
    <3>2. m \in Nat /\ m # 0
      BY <1>1, <1>3, <3>1
    <3>3. PICK j \in Nat : m = j + 1
      <4>1. m - 1 \in Nat /\ m = (m - 1) + 1
        BY <3>2
      <4> QED
        BY <4>1
    <3>4. j \in K
      BY <1>2, <3>1, <3>3
    <3> QED
      BY <3>1, <3>3, <3>4
  <2> QED
    BY <2>1, <2>2
<1>5. Cardinality(S) \in Nat /\ UpToSize(S, Cardinality(S)) = SUBSET S
  BY SmallSets
<1>6. PICK h : AddsUpTo(f, S, Cardinality(S), h)
  BY <1>4, <1>5
<1>7. h \in [SUBSET S -> Nat]
  BY <1>5, <1>6 DEF AddsUpTo
<1>8. \A t \in SUBSET S :
        h[t] = IF t = {} THEN 0 ELSE f[CHOOSE x \in t : TRUE] + h[t \ {CHOOSE x \in t : TRUE}]
  BY <1>5, <1>6 DEF AddsUpTo
<1>9. Adds(f, S, h)
  BY <1>7, <1>8 DEF Adds
<1> QED
  BY <1>7, <1>9

LEMMA SumIs ==
  ASSUME NEW S, IsFiniteSet(S), NEW f, \A x \in S : f[x] \in Nat
  PROVE  /\ SumOver(f, S) \in Nat
         /\ \A T, h : S \subseteq T /\ Adds(f, T, h) => SumOver(f, S) = h[S]
<1> DEFINE s == CHOOSE h : Adds(f, S, h)
<1>1. SumOver(f, S) = s[S]
  BY DEF SumOver, MapThenSumSet, MapThenFoldSet, Adds
<1>2. PICK g \in [SUBSET S -> Nat] : Adds(f, S, g)
  BY AddsExists
<1>3. Adds(f, S, s)
  BY <1>2
<1> HIDE DEF s
<1>4. s[S] = g[S]
  BY <1>2, <1>3, AddsUnique
<1>5. ASSUME NEW T, NEW h, S \subseteq T, Adds(f, T, h) PROVE SumOver(f, S) = h[S]
  BY <1>1, <1>3, <1>5, AddsUnique
<1> QED
  BY <1>1, <1>2, <1>4, <1>5

(* The sum of f over the elements of S, taken one by one.                   *)
LEMMA SumTakeOne ==
  ASSUME NEW S, IsFiniteSet(S), S # {}, NEW f, \A x \in S : f[x] \in Nat
  PROVE  \E x \in S : SumOver(f, S) = f[x] + SumOver(f, S \ {x})
<1>1. PICK h \in [SUBSET S -> Nat] : Adds(f, S, h)
  BY AddsExists
<1>2. SumOver(f, S) = h[S]
  BY <1>1, SumIs
<1>3. S \in SUBSET S
  OBVIOUS
<1>4. PICK x \in S : h[S] = f[x] + h[S \ {x}]
  BY <1>1, <1>3, AddsOf
<1>5. SumOver(f, S \ {x}) = h[S \ {x}]
  <2>1. IsFiniteSet(S \ {x}) /\ S \ {x} \subseteq S
    BY FS_Subset
  <2> QED
    BY <1>1, <2>1, SumIs
<1> QED
  BY <1>2, <1>4, <1>5

(* It does not matter which one is taken.                                   *)
LEMMA SumTakeAny ==
  ASSUME NEW S, IsFiniteSet(S), NEW f, \A x \in S : f[x] \in Nat, NEW b \in S
  PROVE  SumOver(f, S) = f[b] + SumOver(f, S \ {b})
<1> DEFINE Holds(t) == \A a \in t : SumOver(f, t) = f[a] + SumOver(f, t \ {a})
           D == {t \in SUBSET S : ~Holds(t)}
<1>1. \A t \in SUBSET S : IsFiniteSet(t) /\ \A x \in t : f[x] \in Nat
  BY FS_Subset
<1>2. ASSUME D # {} PROVE FALSE
  <2>1. PICK t \in D : \A u \in SUBSET S : Cardinality(u) < Cardinality(t) => u \notin D
    <3>1. D \in SUBSET SUBSET S
      OBVIOUS
    <3> HIDE DEF D
    <3> QED
      BY <1>1, <1>2, <3>1, SmallestOne
  <2>2. t \in SUBSET S /\ IsFiniteSet(t) /\ \A x \in t : f[x] \in Nat
    BY <1>1
  <2>3. PICK a \in t : SumOver(f, t) # f[a] + SumOver(f, t \ {a})
    OBVIOUS
  <2>4. PICK x \in t : SumOver(f, t) = f[x] + SumOver(f, t \ {x})
    BY <2>2, <2>3, SumTakeOne
  <2>5. x # a
    BY <2>3, <2>4
  <2>6. \A y \in t : t \ {y} \in SUBSET S /\ Holds(t \ {y})
    <3> SUFFICES ASSUME NEW y \in t PROVE t \ {y} \in SUBSET S /\ t \ {y} \notin D
      OBVIOUS
    <3>1. t \ {y} \in SUBSET S
      OBVIOUS
    <3>2. Cardinality(t \ {y}) = Cardinality(t) - 1 /\ Cardinality(t) \in Nat
      BY <2>2, FS_RemoveElement, FS_CardinalityType
    <3>3. Cardinality(t \ {y}) < Cardinality(t)
      BY <3>2
    <3> HIDE DEF D
    <3> QED
      BY <2>1, <3>1, <3>3
  <2>7. /\ SumOver(f, t \ {x}) = f[a] + SumOver(f, (t \ {x}) \ {a})
        /\ SumOver(f, t \ {a}) = f[x] + SumOver(f, (t \ {a}) \ {x})
    BY <2>5, <2>6
  <2>8. (t \ {x}) \ {a} = (t \ {a}) \ {x}
    OBVIOUS
  <2>9. SumOver(f, (t \ {x}) \ {a}) \in Nat /\ f[x] \in Nat /\ f[a] \in Nat
    <3>1. (t \ {x}) \ {a} \in SUBSET S
      OBVIOUS
    <3> QED
      BY <1>1, <2>2, <3>1, SumIs
  <2>10. PICK m \in Nat, p \in Nat, q \in Nat :
           m = SumOver(f, (t \ {x}) \ {a}) /\ p = f[x] /\ q = f[a]
    BY <2>9
  <2>11. SumOver(f, t) = p + (q + m) /\ f[a] + SumOver(f, t \ {a}) = q + (p + m)
    BY <2>4, <2>7, <2>8, <2>10
  <2> QED
    BY <2>3, <2>10, <2>11
<1> QED
  BY <1>2

(* Only what f is on S counts.                                              *)
LEMMA SumSame ==
  ASSUME NEW S, IsFiniteSet(S), NEW f, NEW g, \A x \in S : f[x] \in Nat /\ g[x] = f[x]
  PROVE  SumOver(f, S) = SumOver(g, S)
<1>1. PICK h \in [SUBSET S -> Nat] : Adds(f, S, h)
  BY AddsExists
<1>2. Adds(g, S, h)
  <2>1. \A t \in SUBSET S : t # {} => (CHOOSE x \in t : TRUE) \in S
    OBVIOUS
  <2>2. \A t \in SUBSET S :
          h[t] = IF t = {} THEN 0 ELSE g[CHOOSE x \in t : TRUE] + h[t \ {CHOOSE x \in t : TRUE}]
    BY <1>1, <2>1 DEF Adds
  <2> QED
    BY <2>2 DEF Adds
<1> QED
  BY <1>1, <1>2, SumIs

(* When one number grows, the sum grows by as much.                         *)
LEMMA SumGrows ==
  ASSUME NEW S, IsFiniteSet(S), NEW f, NEW g, NEW b \in S, NEW d \in Nat,
         \A x \in S : f[x] \in Nat, g[b] = f[b] + d, \A x \in S \ {b} : g[x] = f[x]
  PROVE  SumOver(g, S) = SumOver(f, S) + d
<1>1. \A x \in S : g[x] \in Nat
  OBVIOUS
<1>2. SumOver(g, S) = g[b] + SumOver(g, S \ {b}) /\ SumOver(f, S) = f[b] + SumOver(f, S \ {b})
  BY <1>1, SumTakeAny
<1>3. IsFiniteSet(S \ {b})
  BY FS_Subset
<1>4. SumOver(g, S \ {b}) = SumOver(f, S \ {b}) /\ SumOver(f, S \ {b}) \in Nat
  BY <1>3, SumSame, SumIs
<1>5. PICK m \in Nat, n \in Nat : m = SumOver(f, S \ {b}) /\ n = f[b]
  BY <1>4
<1> QED
  BY <1>2, <1>4, <1>5

(* One number more at the end.                                              *)
LEMMA SumExtended ==
  ASSUME NEW n \in Nat, NEW f, NEW g, \A k \in 1 .. n : f[k] \in Nat /\ g[k] = f[k], g[n + 1] \in Nat
  PROVE  SumOver(g, 1 .. n + 1) = SumOver(f, 1 .. n) + g[n + 1]
<1>1. PICK b \in Nat : b = n + 1
  OBVIOUS
<1>2. b \in 1 .. b /\ (1 .. b) \ {b} = 1 .. n /\ IsFiniteSet(1 .. b) /\ IsFiniteSet(1 .. n)
  <2>1. \A k \in Int : k \in (1 .. b) \ {b} <=> k \in 1 .. n
    BY <1>1
  <2>2. (1 .. b) \ {b} \subseteq Int /\ 1 .. n \subseteq Int
    OBVIOUS
  <2>3. (1 .. b) \ {b} = 1 .. n
    BY <2>1, <2>2
  <2>4. IsFiniteSet(1 .. b) /\ IsFiniteSet(1 .. n)
    <3>1. 1 \in Int /\ b \in Int /\ n \in Int
      OBVIOUS
    <3> QED
      BY <3>1, FS_Interval
  <2>5. b \in 1 .. b
    BY <1>1
  <2> QED
    BY <2>3, <2>4, <2>5
<1>3. \A k \in 1 .. b : g[k] \in Nat
  <2>1. \A k \in 1 .. b : k \in 1 .. n \/ k = b
    BY <1>1
  <2> QED
    BY <1>1, <2>1
<1>4. SumOver(g, 1 .. b) = g[b] + SumOver(g, (1 .. b) \ {b})
  BY <1>2, <1>3, SumTakeAny
<1>5. SumOver(g, 1 .. n) = SumOver(f, 1 .. n) /\ SumOver(f, 1 .. n) \in Nat
  BY <1>2, SumSame, SumIs
<1>6. PICK x \in Nat, y \in Nat : x = g[b] /\ y = SumOver(f, 1 .. n)
  BY <1>1, <1>5
<1>7. SumOver(g, 1 .. b) = x + y
  BY <1>2, <1>4, <1>5, <1>6
<1> QED
  BY <1>1, <1>6, <1>7

LEMMA SumOfZeros ==
  ASSUME NEW S, IsFiniteSet(S), NEW f, \A x \in S : f[x] = 0
  PROVE  SumOver(f, S) = 0
<1> DEFINE h == [t \in SUBSET S |-> 0]
<1>1. Adds(f, S, h)
  <2>1. \A t \in SUBSET S : t # {} => (CHOOSE x \in t : TRUE) \in S
    OBVIOUS
  <2>2. \A t \in SUBSET S :
          h[t] = IF t = {} THEN 0 ELSE f[CHOOSE x \in t : TRUE] + h[t \ {CHOOSE x \in t : TRUE}]
    BY <2>1
  <2> QED
    BY <2>2 DEF Adds
<1>2. h[S] = 0
  OBVIOUS
<1> HIDE DEF h
<1>3. SumOver(f, S) = h[S]
  BY <1>1, SumIs
<1> QED
  BY <1>2, <1>3
-----------------------------------------------------------------------------
(* A property of the numbers up to n that holds at 0 and goes from each to  *)
(* the next holds for all of them.                                          *)
LEMMA UpToAll ==
  ASSUME NEW n \in Nat, NEW Q \in SUBSET (0 .. n), 0 \in Q,
         \A k \in 0 .. n - 1 : k \in Q => k + 1 \in Q
  PROVE  Q = 0 .. n
<1> DEFINE K == (0 .. n) \ Q
<1> SUFFICES ASSUME K # {} PROVE FALSE
  OBVIOUS
<1>1. K \in SUBSET Nat
  OBVIOUS
<1>2. Min(K) \in K /\ \A j \in K : Min(K) <= j
  BY <1>1, MinOfNat
<1>3. PICK m \in Nat : m \in K /\ \A j \in K : m <= j
  BY <1>1, <1>2
<1>4. m # 0 /\ m - 1 \in 0 .. n - 1
  BY <1>3
<1>5. m - 1 \notin K
  BY <1>3, <1>4
<1>6. (m - 1) + 1 = m
  BY <1>3
<1> QED
  BY <1>3, <1>4, <1>5, <1>6

(* Folds over sequences.                                                    *)

(* h has the fold of op from the left over every subset of 1 .. n, computed *)
(* as FoldLeft does; op[<<k, a>>] is what element k makes of a.             *)
Folded(op, base, n, h) ==
  h = [t \in SUBSET (1 .. n) |-> IF t = {} THEN base ELSE op[<<Max(t), h[t \ {Max(t)}]>>]]

(* Max is the element no other is larger than, and there is one.            *)
LEMMA MaxIs ==
  ASSUME NEW T \in SUBSET Int, NEW m \in T, \A y \in T : m >= y
  PROVE  Max(T) = m
<1>1. \A x \in T : (\A y \in T : x >= y) => x = m
  OBVIOUS
<1>2. \E x \in T : \A y \in T : x >= y
  OBVIOUS
<1> QED
  BY <1>1, <1>2 DEF Max

LEMMA MaxOfNat ==
  ASSUME NEW n \in Nat, NEW T \in SUBSET (1 .. n), T # {}
  PROVE  Max(T) \in T
<1> DEFINE S == {y \in 0 .. n : n - y \in T}
<1>1. S \in SUBSET Nat
  OBVIOUS
<1>2. PICK x \in T : TRUE
  OBVIOUS
<1>3. n - x \in S
  BY <1>2
<1>4. Min(S) \in S /\ \A y \in S : Min(S) <= y
  <2> HIDE DEF S
  <2> QED
    BY <1>1, <1>3, MinOfNat
<1>5. PICK m \in 0 .. n : n - m \in T /\ \A y \in S : m <= y
  BY <1>4
<1>6. \A y \in T : n - m >= y
  <2> TAKE y \in T
  <2>1. n - y \in S
    OBVIOUS
  <2>2. m <= n - y /\ y \in 1 .. n
    BY <1>5, <2>1
  <2> QED
    BY <2>2
<1>7. T \in SUBSET Int
  OBVIOUS
<1> QED
  BY <1>5, <1>6, <1>7, MaxIs

(* The fold over the subsets of 1 .. k, carried on to those of 1 .. k + 1.  *)
LEMMA FoldMore ==
  ASSUME NEW A, NEW base \in A, NEW k \in Nat, NEW op,
         \A i \in 1 .. k + 1 : \A a \in A : op[<<i, a>>] \in A,
         NEW g \in [SUBSET (1 .. k) -> A], Folded(op, base, k, g)
  PROVE  \E h \in [SUBSET (1 .. k + 1) -> A] : Folded(op, base, k + 1, h)
<1> DEFINE U == SUBSET (1 .. k)
           V == SUBSET (1 .. k + 1)
           h == [t \in V |-> IF k + 1 \in t THEN op[<<k + 1, g[t \ {k + 1}]>>] ELSE g[t]]
<1>1. \A t \in V : t \ {k + 1} \in U /\ (k + 1 \notin t => t \in U)
  OBVIOUS
<1>2. k + 1 \in 1 .. k + 1 /\ \A t \in U : k + 1 \notin t /\ g[t] \in A
  OBVIOUS
<1>3. h \in [V -> A]
  <2> SUFFICES ASSUME NEW t \in V
               PROVE  (IF k + 1 \in t THEN op[<<k + 1, g[t \ {k + 1}]>>] ELSE g[t]) \in A
    OBVIOUS
  <2> QED
    BY <1>1, <1>2
<1>4. ASSUME NEW t \in V
      PROVE  h[t] = IF t = {} THEN base ELSE op[<<Max(t), h[t \ {Max(t)}]>>]
  <2>1. CASE k + 1 \in t
    <3>1. Max(t) = k + 1
      <4>1. t \in SUBSET Int /\ k + 1 \in t /\ \A y \in t : k + 1 >= y
        BY <2>1
      <4> QED
        BY <4>1, MaxIs
    <3>2. t \ {k + 1} \in V /\ t \ {k + 1} \in U
      BY <1>1
    <3>3. h[t \ {k + 1}] = g[t \ {k + 1}]
      BY <3>2
    <3>4. h[t] = op[<<k + 1, g[t \ {k + 1}]>>] /\ t # {}
      BY <2>1
    <3> HIDE DEF h
    <3> QED
      BY <3>1, <3>3, <3>4
  <2>2. CASE k + 1 \notin t
    <3>1. t \in U
      BY <1>1, <2>2
    <3>2. g[t] = IF t = {} THEN base ELSE op[<<Max(t), g[t \ {Max(t)}]>>]
      BY <3>1 DEF Folded
    <3>3. h[t] = g[t]
      BY <2>2
    <3>4. t \ {Max(t)} \in V /\ k + 1 \notin t \ {Max(t)}
      BY <2>2
    <3>5. h[t \ {Max(t)}] = g[t \ {Max(t)}]
      BY <3>4
    <3> HIDE DEF h
    <3> QED
      BY <3>2, <3>3, <3>5
  <2> QED
    BY <2>1, <2>2
<1>5. h = [t \in V |-> h[t]]
  OBVIOUS
<1> HIDE DEF h
<1>6. Folded(op, base, k + 1, h)
  BY <1>4, <1>5 DEF Folded
<1> QED
  BY <1>3, <1>6

(* There is a function that has the folds.                                  *)
LEMMA FoldExists ==
  ASSUME NEW A, NEW base \in A, NEW n \in Nat, NEW op,
         \A i \in 1 .. n : \A a \in A : op[<<i, a>>] \in A
  PROVE  \E h \in [SUBSET (1 .. n) -> A] : Folded(op, base, n, h)
<1> DEFINE Q == {k \in 0 .. n : \E h \in [SUBSET (1 .. k) -> A] : Folded(op, base, k, h)}
<1>1. 0 \in Q
  <2> DEFINE h == [t \in SUBSET (1 .. 0) |-> base]
  <2>1. SUBSET (1 .. 0) = {{}}
    OBVIOUS
  <2>2. h \in [SUBSET (1 .. 0) -> A] /\ Folded(op, base, 0, h)
    BY <2>1 DEF Folded
  <2> QED
    BY <2>2
<1>2. ASSUME NEW k \in 0 .. n - 1, k \in Q PROVE k + 1 \in Q
  <2>1. PICK g \in [SUBSET (1 .. k) -> A] : Folded(op, base, k, g)
    BY <1>2
  <2>2. k \in Nat /\ k + 1 \in 0 .. n /\ \A i \in 1 .. k + 1 : \A a \in A : op[<<i, a>>] \in A
    OBVIOUS
  <2> QED
    BY <2>1, <2>2, FoldMore
<1>3. Q \in SUBSET (0 .. n) /\ (n \in Q => \E h \in [SUBSET (1 .. n) -> A] : Folded(op, base, n, h))
  OBVIOUS
<1> HIDE DEF Q
<1>4. Q \in SUBSET (0 .. n) /\ \A k \in 0 .. n - 1 : k \in Q => k + 1 \in Q
  BY <1>2, <1>3
<1>5. Q = 0 .. n
  BY <1>1, <1>4, UpToAll
<1>6. n \in Q
  BY <1>5
<1> QED
  BY <1>3, <1>6
=============================================================================
