-------------------------- MODULE ThreadCacheProofs --------------------------
(***************************************************************************)
(* The thread caches for any number of threads, any small request sizes,   *)
(* batch and span sizes.  The inductive invariant says who owns which      *)
(* cache, which shelf (a free list of a cache, or a central list) holds    *)
(* which objects, and which lengths are those of the lists.                *)
(***************************************************************************)
EXTENDS ThreadCache, DataLemmas

Cache == [tid : Threads \cup {NULL}, list : [Classes -> Seq(Objs)],
          end : [Classes -> Word], len : [Classes -> Int]]

(* A thread has a cache from its first critical section on, and can find it *)
(* from the moment its tid is written; every cache has been made by one     *)
(* thread, and caches is never reordered.                                   *)
OwnInv ==
  /\ \A t \in Threads : mine[t] \in 0 .. Len(caches) /\ (mine[t] = 0 <=> pc[t] = "start")
  /\ \A t \in Threads : pc[t] = "join" => caches[mine[t]] = NewCache
  /\ \A t \in Threads : pc[t] \notin {"start", "join"} => caches[mine[t]].tid = t
  /\ \A t, u \in Threads : mine[t] = mine[u] /\ mine[t] # 0 => t = u
  /\ \A k \in 1 .. Len(caches) : \E t \in Threads : mine[t] = k

(* What a thread holds between two steps of one operation.                  *)
PhaseInv ==
  \A t \in Threads :
    /\ ptr[t] # NoObject <=> pc[t] \in {"find", "push"}
    /\ pc[t] \in {"find", "push"} => req[t] = spanSize[ptr[t][1]]
    /\ pc[t] \in {"alloc", "filled"} => req[t] \in Sizes

(* What a thread last wrote as a list and as the end of it.                 *)
Own(u, c)    == caches[mine[u]].list[c]
OwnEnd(u, c) == caches[mine[u]].end[c]

(* The shelves: those of NULL are the central lists.                        *)
Owners == Threads \cup {NULL}

Shelf(u, c) == IF u = NULL THEN central[c] ELSE IF mine[u] = 0 THEN <<>> ELSE Own(u, c)

(* Every object anywhere was cut from a span, a shelf has objects of its    *)
(* class alone, and a caller's object is large enough.                      *)
CarvedInv ==
  /\ \A l \in live : l.obj \in CarvedObjs /\ l.asked <= spanSize[l.obj[1]]
  /\ \A t \in Threads : ptr[t] # NoObject => ptr[t] \in CarvedObjs
  /\ \A u \in Owners, c \in Classes : \A o \in ToSet(Shelf(u, c)) :
       o \in CarvedObjs /\ spanSize[o[1]] = SizeOf(c)

(* No object is at two places, as conjuncts the steps can be held against.  *)
ApartInv ==
  /\ \A u \in Owners, c \in Classes : IsInjective(Shelf(u, c))
  /\ \A u, v \in Owners, c, d \in Classes : \A o \in ToSet(Shelf(u, c)) :
       o \in ToSet(Shelf(v, d)) => u = v /\ c = d
  /\ \A u \in Owners, c \in Classes : \A o \in ToSet(Shelf(u, c)) :
       (\A l \in live : l.obj # o) /\ (\A t \in Threads : ptr[t] # o)
  /\ \A l \in live, t \in Threads : l.obj # ptr[t]
  /\ \A t, u \in Threads : ptr[t] = ptr[u] /\ ptr[t] # NoObject => t = u
  /\ \A l, m \in live : l.obj = m.obj => l = m

(* No object is nowhere that only untouched lists can hold.                 *)
KeptInv ==
  \A o \in CarvedObjs : Safe(o) =>
    \/ \E l \in live : l.obj = o
    \/ \E t \in Threads : ptr[t] = o
    \/ \E u \in Owners, c \in Classes : o \in ToSet(Shelf(u, c))

(* The lengths: Refill would drop the objects of a list it takes for empty. *)
Filling(t, c) == pc[t] = "filled" /\ c = AllocClass(req[t])

LengthInv ==
  \A t \in Threads, c \in Classes : mine[t] # 0 =>
    /\ Filling(t, c) => Length(t, c) = 0 /\ Len(Own(t, c)) = Batch
    /\ c \in Untouched => /\ OwnEnd(t, c) = NoPtr
                          /\ ~Filling(t, c) => Length(t, c) = Len(Own(t, c))

IInv == TypeOK /\ OwnInv /\ PhaseInv /\ CarvedInv /\ ApartInv /\ KeptInv /\ LengthInv

-----------------------------------------------------------------------------
(* A request of list 2 is rounded up to at most 2048 bytes.                 *)
LEMMA ToUnit64 ==
  \A n \in Nat : /\ RoundUp(n, 64) \in Nat /\ RoundUp(n, 64) % 64 = 0 /\ n <= RoundUp(n, 64)
                 /\ n < 2048 => RoundUp(n, 64) <= 2048
BY Z3 DEF RoundUp

(* A request of list 3 is rounded up to its unit.                           *)
LEMMA ToUnit256 ==
  \A n \in Nat : RoundUp(n, 256) \in Nat /\ RoundUp(n, 256) % 256 = 0 /\ n <= RoundUp(n, 256)
BY Z3 DEF RoundUp

(* Size classes: an object is as large as its class says and large enough,  *)
(* and comes back to a list for its size, be it at index -1.                *)
LEMMA ClassOf ==
  ASSUME NEW n \in Sizes
  PROVE  /\ AllocClass(n) \in Classes /\ FreeClass(ObjSize(n)) \in Classes
         /\ ObjSize(n) \in Nat /\ n <= ObjSize(n)
         /\ SizeOf(AllocClass(n)) = ObjSize(n) /\ SizeOf(FreeClass(ObjSize(n))) = ObjSize(n)
<1> DEFINE m == ObjSize(n)
           l == ListOf(n)
<1>1. AllocClass(n) \in Classes /\ FreeClass(m) \in Classes /\ n \in Nat /\ 1 <= n
  <2>1. AllocClass(n) \in Classes /\ FreeClass(m) \in Classes
    BY DEF Classes
  <2>2. n \in 1 .. MaxSmall
    BY ThreadCacheAssumption
  <2> QED
    BY <2>1, <2>2 DEF MaxSmall
<1>2. l \in {1, 2, 3}
  BY <1>1 DEF ListOf
<1>3. m = RoundUp(n, Unit[l])
  BY DEF ObjSize
<1>4. AllocClass(n) = Class(l, m) /\ FreeClass(m) = Class(ListOf(m), m)
  BY DEF AllocClass, FreeClass
<1>5. ListOf(m) \in {1, 2, 3} /\ ListOf(m) >= l /\ m \in Nat /\ n <= m /\ m % Unit[ListOf(m)] = 0
      /\ m % Unit[l] = 0
  <2> HIDE DEF m
  <2>1. CASE l = 1
    <3>1. n < 64
      BY <1>1, <2>1 DEF ListOf, l
    <3>2. m \in Nat /\ n <= m /\ m <= 64 /\ m % 8 = 0
      BY <1>1, <1>3, <2>1, <3>1, Z3 DEF RoundUp, Unit
    <3>3. ListOf(m) = 1 \/ (ListOf(m) = 2 /\ m = 64)
      BY <3>2 DEF ListOf
    <3> QED
      BY <2>1, <3>2, <3>3 DEF Unit
  <2>2. CASE l = 2
    <3>1. 64 <= n /\ n < 2048
      BY <1>1, <2>2 DEF ListOf, l
    <3>2. m = RoundUp(n, 64)
      BY <1>3, <2>2 DEF Unit
    <3>3. m \in Nat /\ n <= m /\ m <= 2048 /\ m % 64 = 0
      BY <1>1, <3>1, <3>2, ToUnit64
    <3>4. ListOf(m) = 2 \/ (ListOf(m) = 3 /\ m = 2048)
      BY <1>1, <3>1, <3>3 DEF ListOf
    <3> QED
      BY <2>2, <3>3, <3>4 DEF Unit
  <2>3. CASE l = 3
    <3>1. 2048 <= n
      BY <1>1, <2>3 DEF ListOf, l
    <3>2. m = RoundUp(n, 256)
      BY <1>3, <2>3 DEF Unit
    <3>3. m \in Nat /\ n <= m /\ m % 256 = 0
      BY <1>1, <3>1, <3>2, ToUnit256
    <3>4. ListOf(m) = 3
      BY <1>1, <3>1, <3>3 DEF ListOf
    <3> QED
      BY <2>3, <3>3, <3>4 DEF Unit
  <2> QED
    BY <1>2, <2>1, <2>2, <2>3
<1>6. ASSUME NEW k \in {1, 2, 3}, m % Unit[k] = 0 PROVE SizeOf(Class(k, m)) = m
  <2> HIDE DEF m
  <2>1. SizeOf(Class(k, m)) = (m \div Unit[k] - Skip[k] + Skip[k]) * Unit[k]
    BY DEF SizeOf, Class, size_list
  <2>2. CASE k = 1
    BY <1>5, <1>6, <2>1, <2>2 DEF Unit, Skip
  <2>3. CASE k = 2
    BY <1>5, <1>6, <2>1, <2>3 DEF Unit, Skip
  <2>4. CASE k = 3
    BY <1>5, <1>6, <2>1, <2>4 DEF Unit, Skip
  <2> QED
    BY <2>2, <2>3, <2>4
<1>7. SizeOf(Class(l, m)) = m /\ SizeOf(Class(ListOf(m), m)) = m
  <2> HIDE DEF m, l
  <2> QED
    BY <1>2, <1>5, <1>6
<1> QED
  BY <1>1, <1>4, <1>5, <1>7

(* A central list serves the size of the lists it refills.                  *)
LEMMA CentralOfClass ==
  ASSUME NEW c \in Classes
  PROVE  CentralOf(c) \in Classes /\ SizeOf(CentralOf(c)) = SizeOf(c)
<1>1. PICK n \in Sizes : c = AllocClass(n) \/ c = FreeClass(ObjSize(n))
  BY DEF Classes
<1>2. SizeOf(c) = ObjSize(n)
  BY <1>1, ClassOf
<1> QED
  BY <1>2, ClassOf DEF CentralOf

-----------------------------------------------------------------------------
(* What the invariant implies.                                              *)

(* The fields of the caches there are.                                      *)
LEMMA CacheType ==
  ASSUME TypeOK
  PROVE  /\ caches \in Seq(Cache) /\ DOMAIN caches = 1 .. Len(caches) /\ Len(caches) \in Nat
         /\ \A k \in DOMAIN caches : /\ caches[k] \in Cache
                                     /\ \A c \in Classes : /\ caches[k].list[c] \in Seq(Objs)
                                                           /\ caches[k].end[c] \in Word
                                                           /\ caches[k].len[c] \in Int
<1>1. caches \in Seq(Cache)
  BY DEF TypeOK, Cache
<1>2. \A k \in DOMAIN caches : caches[k] \in Cache
  BY <1>1
<1>3. \A r \in Cache : /\ r.list \in [Classes -> Seq(Objs)]
                      /\ r.end \in [Classes -> Word] /\ r.len \in [Classes -> Int]
  BY DEF Cache
<1> QED
  BY <1>1, <1>2, <1>3

LEMMA FindsOwn ==
  ASSUME TypeOK, OwnInv, NEW t \in Threads, pc[t] \notin {"start", "join"}
  PROVE  CachesOf(t) = {mine[t]} /\ mine[t] \in 1 .. Len(caches)
<1>1. DOMAIN caches = 1 .. Len(caches) /\ Len(caches) \in Nat
  BY DEF TypeOK
<1>2. mine[t] \in 1 .. Len(caches)
  BY <1>1 DEF OwnInv
<1>3. caches[mine[t]].tid = t
  BY DEF OwnInv
<1>4. ASSUME NEW k \in 1 .. Len(caches), caches[k].tid = t PROVE k = mine[t]
  <2>1. PICK u \in Threads : mine[u] = k
    BY DEF OwnInv
  <2>2. pc[u] # "start"
    BY <1>1, <2>1 DEF OwnInv
  <2>3. pc[u] # "join"
    <3>1. NewCache.tid = NULL /\ t # NULL
      BY ThreadCacheAssumption DEF NewCache
    <3> QED
      BY <1>4, <2>1, <3>1 DEF OwnInv
  <2>4. caches[k].tid = u
    BY <2>1, <2>2, <2>3 DEF OwnInv
  <2> QED
    BY <1>4, <2>1, <2>4
<1> QED
  BY <1>1, <1>2, <1>3, <1>4 DEF CachesOf

(* The last match and the first are the only one.                           *)
LEMMA OnlyMatch == \A k : Max({k}) = k /\ Min({k}) = k
BY DEF Max, Min

LEMMA OwnCacheHolds == TypeOK /\ OwnInv => OwnCache
BY FindsOwn DEF OwnCache, OwnInv

LEMMA LargeEnoughHolds == CarvedInv => LargeEnough
BY DEF CarvedInv, LargeEnough

(* What a list head holds is a word.                                        *)
LEMMA HeadIsWord ==
  ASSUME NEW q \in Seq(Objs), NEW e \in Word
  PROVE  HeadOf(q, e) \in Word /\ HeadOf(q, e)[1] \in Int /\ HeadOf(q, e)[2] \in Int
<1>1. HeadOf(q, e) \in Word
  <2>1. CASE q = <<>>
    BY <2>1 DEF HeadOf
  <2>2. CASE q # <<>>
    <3>1. Head(q) \in Objs
      BY <2>2
    <3> QED
      BY <2>2, <3>1, ThreadCacheAssumption DEF HeadOf
  <2> QED
    BY <2>1, <2>2
<1> QED
  BY <1>1 DEF Word

(* A thread sees its list as it wrote it, or none of it; and as it wrote it *)
(* when no other list in use lies over the head.                            *)
LEMMA WhatIsSeen ==
  ASSUME TypeOK, OwnInv, NEW t \in Threads, mine[t] # 0, NEW c \in Classes
  PROVE  /\ Own(t, c) \in Seq(Objs) /\ OwnEnd(t, c) \in Word
         /\ List(t, c) \in Seq(Objs) /\ End(t, c) \in Word /\ Length(t, c) \in Int
         /\ List(t, c) # <<>> => List(t, c) = Own(t, c) /\ End(t, c) = OwnEnd(t, c)
         /\ c \in Untouched => List(t, c) = Own(t, c) /\ End(t, c) = OwnEnd(t, c)
<1> DEFINE k == mine[t]
           w == Written(k, c)
           low == Half(k, LowOf(c), w[1])
           high == Half(k, HighOf(c), w[2])
<1>1. k \in DOMAIN caches
  BY CacheType DEF OwnInv
<1>2. /\ Own(t, c) \in Seq(Objs) /\ OwnEnd(t, c) \in Word
      /\ \A d \in Classes : caches[k].len[d] \in Int
  BY <1>1, CacheType DEF Own, OwnEnd
<1>3. w = HeadOf(Own(t, c), OwnEnd(t, c))
  BY DEF Written, Own, OwnEnd
<1>4. w \in Word /\ w[1] \in Int /\ w[2] \in Int
  BY <1>2, <1>3, HeadIsWord
<1>5. InMemory(k, c) = <<low, high>>
  BY DEF InMemory
<1> HIDE DEF k, w
<1>6. \A over, x : x \in Int => Half(k, over, x) \in Int
  <2> SUFFICES ASSUME NEW over, NEW x \in Int PROVE Half(k, over, x) \in Int
    OBVIOUS
  <2>1. CASE over \cap Classes = {}
    BY <2>1 DEF Half
  <2>2. CASE over \cap Classes # {}
    <3>1. (CHOOSE d \in over \cap Classes : TRUE) \in Classes
      BY <2>2
    <3> QED
      BY <1>2, <2>2, <3>1 DEF Half
  <2> QED
    BY <2>1, <2>2
<1>7. InMemory(k, c) \in Word
  BY <1>4, <1>5, <1>6 DEF Word
<1>8. ASSUME c \in Untouched PROVE InMemory(k, c) = w
  <2>1. LowOf(c) \cap Classes = {} /\ HighOf(c) \cap Classes = {}
    BY <1>8 DEF Untouched, Shares
  <2>2. low = w[1] /\ high = w[2]
    BY <2>1 DEF Half
  <2> QED
    BY <1>4, <1>5, <2>2 DEF Word
<1>9. Length(t, c) \in Int
  BY <1>2 DEF Length, k
<1>10. Intact(t, c) <=> InMemory(k, c) = w
  BY DEF Intact, k, w
<1>11. CASE Intact(t, c)
  <2>1. List(t, c) = Own(t, c) /\ End(t, c) = OwnEnd(t, c)
    BY <1>11 DEF List, End, Own, OwnEnd
  <2> QED
    BY <1>2, <1>9, <2>1
<1>12. CASE ~Intact(t, c)
  <2>1. List(t, c) = <<>> /\ End(t, c) = InMemory(k, c)
    BY <1>12 DEF List, End, k
  <2>2. c \notin Untouched
    BY <1>8, <1>10, <1>12
  <2> QED
    BY <1>2, <1>7, <1>9, <2>1, <2>2
<1> QED
  BY <1>11, <1>12

LEMMA LengthsTrueHolds == TypeOK /\ OwnInv /\ LengthInv => LengthsTrue
<1> SUFFICES ASSUME TypeOK, OwnInv, LengthInv,
                    NEW t \in Threads, NEW c \in Untouched, mine[t] # 0
             PROVE  \/ Length(t, c) = Len(List(t, c))
                    \/ pc[t] = "filled" /\ c = AllocClass(req[t]) /\ Length(t, c) = 0
                       /\ Len(List(t, c)) = Batch
  BY DEF LengthsTrue
<1>1. c \in Classes
  BY DEF Untouched
<1>2. List(t, c) = Own(t, c)
  BY <1>1, WhatIsSeen
<1> QED
  BY <1>1, <1>2 DEF LengthInv, Filling

(* The lists of the caches are the shelves of the threads.                  *)
LEMMA ShelfOfCache ==
  ASSUME TypeOK, OwnInv, NEW k \in DOMAIN caches
  PROVE  \E t \in Threads : mine[t] = k /\ \A c : Shelf(t, c) = caches[k].list[c]
<1>1. k \in 1 .. Len(caches) /\ Len(caches) \in Nat
  BY DEF TypeOK
<1>2. PICK t \in Threads : mine[t] = k
  BY <1>1 DEF OwnInv
<1>3. t # NULL /\ mine[t] # 0
  BY <1>1, <1>2, ThreadCacheAssumption
<1> QED
  BY <1>2, <1>3 DEF Shelf, Own

LEMMA ShelfOfThread ==
  ASSUME TypeOK, OwnInv, NEW u \in Threads, NEW c, NEW o \in ToSet(Shelf(u, c))
  PROVE  mine[u] \in DOMAIN caches /\ o \in ToSet(caches[mine[u]].list[c])
<1>1. u # NULL
  BY ThreadCacheAssumption
<1>2. mine[u] # 0
  BY <1>1 DEF Shelf, ToSet
<1> QED
  BY <1>1, <1>2 DEF Shelf, Own, TypeOK, OwnInv

(* The counts that make up Places, each of them 0 or 1.                     *)
InLists(o) == {d \in DOMAIN FreeLists : o \in ToSet(FreeLists[d])}
InCentral(o) == {c \in Classes : o \in ToSet(central[c])}

LEMMA CountsOf ==
  ASSUME TypeOK, OwnInv, ApartInv, NEW o
  PROVE  /\ Cardinality(InLists(o)) \in {0, 1} /\ (InLists(o) = {} <=> Cardinality(InLists(o)) = 0)
         /\ Cardinality(InCentral(o)) \in {0, 1} /\ (InCentral(o) = {} <=> Cardinality(InCentral(o)) = 0)
         /\ \A d \in InLists(o) : \E t \in Threads, c \in Classes : o \in ToSet(Shelf(t, c))
         /\ \A c \in InCentral(o) : NULL \in Owners /\ o \in ToSet(Shelf(NULL, c))
<1>1. ASSUME NEW d \in InLists(o)
      PROVE  \E t \in Threads, c \in Classes : mine[t] = d[1] /\ c = d[2] /\ o \in ToSet(Shelf(t, c))
  <2>1. d \in (DOMAIN caches) \X Classes /\ o \in ToSet(caches[d[1]].list[d[2]])
    BY DEF InLists, FreeLists
  <2>2. d[1] \in DOMAIN caches /\ d[2] \in Classes
    BY <2>1
  <2>3. PICK t \in Threads : mine[t] = d[1] /\ \A c : Shelf(t, c) = caches[d[1]].list[c]
    BY <2>2, ShelfOfCache
  <2> QED
    BY <2>1, <2>2, <2>3
<1>2. \A c \in InCentral(o) : NULL \in Owners /\ o \in ToSet(Shelf(NULL, c))
  BY DEF InCentral, Owners, Shelf
<1>3. \A d, e \in InLists(o) : d = e
  <2> SUFFICES ASSUME NEW d \in InLists(o), NEW e \in InLists(o) PROVE d = e
    OBVIOUS
  <2>1. PICK t \in Threads, c \in Classes : mine[t] = d[1] /\ c = d[2] /\ o \in ToSet(Shelf(t, c))
    BY <1>1
  <2>2. PICK u \in Threads, b \in Classes : mine[u] = e[1] /\ b = e[2] /\ o \in ToSet(Shelf(u, b))
    BY <1>1
  <2>3. t = u /\ c = b
    BY <2>1, <2>2 DEF ApartInv, Owners
  <2>4. d = <<d[1], d[2]>> /\ e = <<e[1], e[2]>>
    <3>1. d \in (DOMAIN caches) \X Classes /\ e \in (DOMAIN caches) \X Classes
      BY DEF InLists, FreeLists
    <3> QED
      BY <3>1
  <2> QED
    BY <2>1, <2>2, <2>3, <2>4
<1>4. \A c, d \in InCentral(o) : c = d
  <2> SUFFICES ASSUME NEW c \in InCentral(o), NEW d \in InCentral(o) PROVE c = d
    OBVIOUS
  <2>1. c \in Classes /\ d \in Classes
    BY DEF InCentral
  <2> QED
    BY <1>2, <2>1 DEF ApartInv
<1> QED
  BY <1>1, <1>2, <1>3, <1>4, AtMostOne

LEMMA StoredIs == ASSUME NEW o PROVE Stored(o) = Cardinality(InLists(o)) + Cardinality(InCentral(o))
BY DEF Stored, InLists, InCentral

LEMMA NeverTwiceHolds == TypeOK /\ OwnInv /\ PhaseInv /\ ApartInv => NeverTwice
<1> SUFFICES ASSUME TypeOK, OwnInv, PhaseInv, ApartInv PROVE NeverTwice
  OBVIOUS
<1>1. ASSUME NEW o \in CarvedObjs PROVE Places(o) <= 1
  <2> DEFINE n == Cardinality(InLists(o))
             m == Cardinality(InCentral(o))
             h == IF o \in InHands THEN 1 ELSE 0
             w == IF o \in Moving THEN 1 ELSE 0
  <2>1. /\ n \in {0, 1} /\ (InLists(o) = {} <=> n = 0)
        /\ m \in {0, 1} /\ (InCentral(o) = {} <=> m = 0)
    BY CountsOf
  <2>2. n = 1 => \E t \in Threads, c \in Classes : o \in ToSet(Shelf(t, c))
    BY <2>1, CountsOf
  <2>3. m = 1 => \E c \in Classes : NULL \in Owners /\ o \in ToSet(Shelf(NULL, c))
    BY <2>1, CountsOf DEF InCentral
  <2>4. o \in InHands => \E l \in live : l.obj = o
    BY DEF InHands
  <2>5. o \in Moving => \E t \in Threads : ptr[t] = o
    BY DEF Moving
  <2>6. Places(o) = n + m + h + w
    BY StoredIs DEF Places
  <2> HIDE DEF n, m
  <2>7. ~(n = 1 /\ m = 1)
    BY <2>2, <2>3, ThreadCacheAssumption DEF ApartInv, Owners
  <2>8. n = 1 \/ m = 1 => o \notin InHands /\ o \notin Moving
    BY <2>2, <2>3, <2>4, <2>5 DEF ApartInv, Owners
  <2>9. ~(o \in InHands /\ o \in Moving)
    BY <2>4, <2>5 DEF ApartInv
  <2> QED
    BY <2>1, <2>6, <2>7, <2>8, <2>9
<1>2. ASSUME NEW q \in InCaches PROVE Cardinality(ToSet(q)) = Len(q)
  <2>1. PICK k \in DOMAIN caches, c \in Classes : q = caches[k].list[c]
    BY DEF InCaches
  <2>2. PICK t \in Threads : mine[t] = k /\ \A d : Shelf(t, d) = caches[k].list[d]
    BY ShelfOfCache
  <2>3. IsInjective(q)
    BY <2>1, <2>2 DEF ApartInv, Owners
  <2>4. q \in Seq(Objs)
    BY <2>1, CacheType
  <2> QED
    BY <2>3, <2>4, CountOfSequence
<1>3. Cardinality(InHands) = Cardinality(live)
  <2> DEFINE f == [l \in live |-> l.obj]
  <2>1. f \in Surjection(live, InHands)
    BY DEF Surjection, InHands
  <2>2. f \in Injection(live, InHands) /\ f \in Injection(live, Objs)
    <3>1. \A l \in live : l.obj \in Objs /\ l.obj \in InHands
      BY DEF TypeOK, InHands
    <3>2. \A l, k \in live : l.obj = k.obj => l = k
      BY DEF ApartInv
    <3> QED
      BY <3>1, <3>2 DEF Injection, IsInjective
  <2> HIDE DEF f
  <2>3. IsFiniteSet(Objs)
    <3>1. MaxSpans \in Int /\ ObjsPerSpan \in Int
      BY ThreadCacheAssumption
    <3>2. IsFiniteSet(1 .. MaxSpans) /\ IsFiniteSet(1 .. ObjsPerSpan)
      BY <3>1, FS_Interval
    <3> QED
      BY <3>2, FS_Product DEF Objs
  <2>4. IsFiniteSet(live)
    BY <2>2, <2>3, FS_Injection
  <2> QED
    BY <2>1, <2>2, <2>4, FS_Surjection
<1> QED
  BY <1>1, <1>2, <1>3 DEF NeverTwice

LEMMA NoneLostHolds == TypeOK /\ OwnInv /\ PhaseInv /\ ApartInv /\ KeptInv /\ CarvedInv => NoneLost
<1> SUFFICES ASSUME TypeOK, OwnInv, PhaseInv, ApartInv, KeptInv, CarvedInv,
                    NEW o \in CarvedObjs, Safe(o)
             PROVE  Places(o) >= 1
  BY DEF NoneLost
<1> DEFINE n == Cardinality(InLists(o))
           m == Cardinality(InCentral(o))
           h == IF o \in InHands THEN 1 ELSE 0
           w == IF o \in Moving THEN 1 ELSE 0
<1>1. /\ n \in {0, 1} /\ (InLists(o) = {} <=> n = 0)
      /\ m \in {0, 1} /\ (InCentral(o) = {} <=> m = 0)
  BY CountsOf
<1>2. Places(o) = n + m + h + w
  BY StoredIs DEF Places
<1> HIDE DEF n, m
<1>3. CASE \E l \in live : l.obj = o
  <2>1. o \in InHands
    BY <1>3 DEF InHands
  <2> QED
    BY <1>1, <1>2, <2>1
<1>4. CASE \E t \in Threads : ptr[t] = o
  <2>1. o # NoObject
    <3>1. o[1] \in DOMAIN spanSize /\ DOMAIN spanSize = 1 .. Len(spanSize)
      BY DEF CarvedObjs, TypeOK
    <3> QED
      BY <3>1 DEF NoObject
  <2>2. o \in Moving
    BY <1>4, <2>1 DEF Moving
  <2> QED
    BY <1>1, <1>2, <2>2
<1>5. ASSUME NEW u \in Owners, NEW c \in Classes, o \in ToSet(Shelf(u, c)) PROVE n = 1 \/ m = 1
  <2>1. CASE u = NULL
    <3>1. c \in InCentral(o)
      BY <1>5, <2>1 DEF InCentral, Shelf
    <3> QED
      BY <1>1, <3>1
  <2>2. CASE u # NULL
    <3>1. mine[u] \in DOMAIN caches /\ o \in ToSet(caches[mine[u]].list[c])
      BY <1>5, <2>2, ShelfOfThread DEF Owners
    <3>2. <<mine[u], c>> \in InLists(o)
      BY <3>1 DEF InLists, FreeLists
    <3> QED
      BY <1>1, <3>2
  <2> QED
    BY <2>1, <2>2
<1>6. (n = 1 \/ m = 1) => Places(o) >= 1
  BY <1>1, <1>2
<1> QED
  BY <1>3, <1>4, <1>5, <1>6 DEF KeptInv

-----------------------------------------------------------------------------
(* What steps have in common.                                               *)

(* The cache of the thread gets one new list with its length; no other list *)
(* changes, nor a length that lies over no head.                            *)
LEMMA StoreFacts ==
  ASSUME TypeOK, OwnInv, NEW t \in Threads, pc[t] \notin {"start", "join"},
         NEW c \in Classes, NEW q \in Seq(Objs), NEW e \in Word, NEW n \in Int,
         Store(t, c, q, e, n), mine' = mine
  PROVE  /\ caches' \in Seq(Cache) /\ Len(caches') = Len(caches)
         /\ \A k \in 1 .. Len(caches) : /\ caches'[k].tid = caches[k].tid
                                        /\ k # mine[t] => caches'[k] = caches[k]
         /\ \A u \in Threads, d \in Classes : mine[u] # 0 =>
              /\ Own(u, d)' = IF u = t /\ d = c THEN q ELSE Own(u, d)
              /\ OwnEnd(u, d)' = IF u = t /\ d = c THEN e ELSE OwnEnd(u, d)
              /\ u = t /\ d = c => Length(u, d)' = n
              /\ u # t \/ (d # c /\ d \in Untouched) => Length(u, d)' = Length(u, d)
<1> DEFINE k == mine[t]
           r == caches[k]
           w == HeadOf(q, e)
           len == [d \in Classes |-> CASE d = c -> n
                                      [] d # c /\ d \in LowOf(c)  -> w[1]
                                      [] d # c /\ d \in HighOf(c) -> w[2]
                                      [] OTHER -> Length(t, d)]
           s == [r EXCEPT !.list[c] = q, !.end[c] = e, !.len = len]
<1>1. k \in 1 .. Len(caches)
  BY FindsOwn
<1>2. /\ caches \in Seq(Cache) /\ DOMAIN caches = 1 .. Len(caches) /\ Len(caches) \in Nat
      /\ r \in Cache
  BY <1>1, CacheType
<1>3. caches' = [caches EXCEPT ![k] = s]
  BY DEF Store
<1>4. w[1] \in Int /\ w[2] \in Int
  BY HeadIsWord
<1> HIDE DEF r, w
<1>5. r.list \in [Classes -> Seq(Objs)] /\ r.end \in [Classes -> Word] /\ r.len \in [Classes -> Int]
  BY <1>2 DEF Cache
<1>6. /\ len \in [Classes -> Int] /\ len[c] = n
      /\ \A d \in Untouched : d # c => len[d] = Length(t, d)
  <2>1. \A d \in Classes : (CASE d = c -> n
                            [] d # c /\ d \in LowOf(c)  -> w[1]
                            [] d # c /\ d \in HighOf(c) -> w[2]
                            [] OTHER -> Length(t, d)) \in Int
    BY <1>4, <1>5 DEF Length, r
  <2>2. \A d \in Untouched : d \in Classes /\ d \notin LowOf(c) /\ d \notin HighOf(c)
    BY DEF Untouched, Shares
  <2> QED
    BY <2>1, <2>2
<1> HIDE DEF len
<1>7. /\ s \in Cache /\ s.tid = r.tid
      /\ s.list = [r.list EXCEPT ![c] = q] /\ s.end = [r.end EXCEPT ![c] = e] /\ s.len = len
  BY <1>2, <1>6 DEF Cache
<1>8. \A d \in Classes : /\ s.list[d] = IF d = c THEN q ELSE r.list[d]
                         /\ s.end[d] = IF d = c THEN e ELSE r.end[d]
  BY <1>5, <1>7
<1> HIDE DEF s
<1>9. /\ caches' \in Seq(Cache) /\ Len(caches') = Len(caches)
      /\ \A j \in 1 .. Len(caches) : caches'[j] = IF j = k THEN s ELSE caches[j]
  BY <1>1, <1>2, <1>3, <1>7, ExceptSeq
<1>10. ASSUME NEW u \in Threads, NEW d \in Classes, mine[u] # 0
       PROVE  /\ Own(u, d)' = IF u = t /\ d = c THEN q ELSE Own(u, d)
              /\ OwnEnd(u, d)' = IF u = t /\ d = c THEN e ELSE OwnEnd(u, d)
              /\ u = t /\ d = c => Length(u, d)' = n
              /\ u # t \/ (d # c /\ d \in Untouched) => Length(u, d)' = Length(u, d)
  <2>1. mine[u] \in 1 .. Len(caches) /\ (mine[u] = k <=> u = t)
    BY <1>1, <1>2, <1>10 DEF OwnInv
  <2>2. /\ Own(u, d)' = caches'[mine[u]].list[d] /\ OwnEnd(u, d)' = caches'[mine[u]].end[d]
        /\ Length(u, d)' = caches'[mine[u]].len[d]
    BY DEF Own, OwnEnd, Length
  <2>3. CASE u = t
    <3>1. caches'[mine[u]] = s
      BY <1>9, <2>1, <2>3
    <3>2. /\ Own(u, d)' = IF d = c THEN q ELSE r.list[d]
          /\ OwnEnd(u, d)' = IF d = c THEN e ELSE r.end[d]
          /\ Length(u, d)' = len[d]
      BY <1>7, <1>8, <2>2, <3>1
    <3>3. Own(u, d) = r.list[d] /\ OwnEnd(u, d) = r.end[d]
      BY <2>3 DEF Own, OwnEnd, r
    <3> QED
      BY <1>6, <2>3, <3>2, <3>3
  <2>4. CASE u # t
    BY <1>9, <2>1, <2>2, <2>4 DEF Own, OwnEnd, Length
  <2> QED
    BY <2>3, <2>4
<1> QED
  BY <1>7, <1>9, <1>10 DEF r

(* A thread that has joined works with its cache: the owners stay.          *)
LEMMA OwnKept ==
  ASSUME TypeOK, OwnInv, NEW t \in Threads, pc[t] \notin {"start", "join"},
         NEW x, x \notin {"start", "join"}, Goto(t, x),
         mine' = mine, Len(caches') = Len(caches),
         \A k \in 1 .. Len(caches) : /\ caches'[k].tid = caches[k].tid
                                     /\ k # mine[t] => caches'[k] = caches[k]
  PROVE  OwnInv'
<1>1. \A u \in Threads : pc'[u] = IF u = t THEN x ELSE pc[u]
  BY DEF Goto, TypeOK
<1>2. \A u \in Threads : /\ pc'[u] = "start" <=> pc[u] = "start"
                         /\ pc'[u] = "join" <=> pc[u] = "join"
  BY <1>1
<1>3. ASSUME NEW u \in Threads, pc[u] # "start" PROVE mine[u] \in 1 .. Len(caches)
  BY <1>3, CacheType DEF OwnInv
<1>4. \A u \in Threads : mine'[u] \in 0 .. Len(caches') /\ (mine'[u] = 0 <=> pc'[u] = "start")
  BY <1>2 DEF OwnInv
<1>5. ASSUME NEW u \in Threads, pc'[u] = "join" PROVE caches'[mine'[u]] = NewCache'
  <2>1. pc[u] = "join" /\ u # t
    BY <1>2, <1>5
  <2>2. mine[u] \in 1 .. Len(caches) /\ mine[u] # mine[t] /\ caches[mine[u]] = NewCache
    BY <1>3, <2>1, CacheType DEF OwnInv
  <2> QED
    BY <2>2 DEF NewCache
<1>6. ASSUME NEW u \in Threads, pc'[u] \notin {"start", "join"} PROVE caches'[mine'[u]].tid = u
  <2>1. pc[u] \notin {"start", "join"}
    BY <1>2, <1>6
  <2> QED
    BY <1>3, <2>1 DEF OwnInv
<1>7. \A u, v \in Threads : mine'[u] = mine'[v] /\ mine'[u] # 0 => u = v
  BY DEF OwnInv
<1>8. \A k \in 1 .. Len(caches') : \E u \in Threads : mine'[u] = k
  BY DEF OwnInv
<1> QED
  BY <1>4, <1>5, <1>6, <1>7, <1>8 DEF OwnInv

(* Steps that move no object.                                               *)
LEMMA NothingMoved ==
  ASSUME CarvedInv, ApartInv, KeptInv, UNCHANGED <<spanSize, live, ptr>>,
         \A u \in Owners, c \in Classes : Shelf(u, c)' = Shelf(u, c)
  PROVE  CarvedInv' /\ ApartInv' /\ KeptInv'
<1>1. CarvedObjs' = CarvedObjs
  BY DEF CarvedObjs
<1>2. CarvedInv'
  BY <1>1 DEF CarvedInv
<1>3. ApartInv'
  BY DEF ApartInv
<1>4. KeptInv'
  BY <1>1 DEF KeptInv, Safe
<1> QED
  BY <1>2, <1>3, <1>4

LEMMA ShelvesKept ==
  ASSUME UNCHANGED <<caches, central, mine>>
  PROVE  /\ \A u \in Owners, c \in Classes : Shelf(u, c)' = Shelf(u, c)
         /\ \A u \in Threads, c \in Classes : /\ Own(u, c)' = Own(u, c) /\ OwnEnd(u, c)' = OwnEnd(u, c)
                                             /\ Length(u, c)' = Length(u, c)
BY DEF Shelf, Own, OwnEnd, Length

(* When all lists and lengths stay, and no batch comes or goes.             *)
LEMMA LengthsKept ==
  ASSUME LengthInv, UNCHANGED <<caches, mine>>, NEW t \in Threads,
         \A u \in Threads : u # t => pc'[u] = pc[u] /\ req'[u] = req[u],
         pc[t] # "filled", pc'[t] # "filled"
  PROVE  LengthInv'
<1>1. \A u \in Threads, c \in Classes : Filling(u, c)' <=> Filling(u, c)
  BY DEF Filling
<1>2. \A u \in Threads, c \in Classes : /\ Own(u, c)' = Own(u, c) /\ OwnEnd(u, c)' = OwnEnd(u, c)
                                        /\ Length(u, c)' = Length(u, c)
  BY DEF Own, OwnEnd, Length
<1> QED
  BY <1>1, <1>2 DEF LengthInv

LEMMA InitInv == Init => IInv
<1> SUFFICES ASSUME Init PROVE IInv
  OBVIOUS
<1>1. caches = <<>> /\ Len(caches) = 0 /\ spanSize = <<>> /\ Len(spanSize) = 0 /\ DOMAIN spanSize = {}
  BY DEF Init
<1>2. TypeOK
  <2>1. caches \in Seq(Cache) /\ spanSize \in Seq({ObjSize(n) : n \in Sizes})
    BY <1>1
  <2>2. 0 \in 0 .. Cardinality(Threads)
    BY ThreadCacheAssumption, FS_CardinalityType
  <2>3. Batch \in Nat /\ ObjsPerSpan \in Nat \ {0} /\ MaxSpans \in Nat
    BY ThreadCacheAssumption
  <2> QED
    BY <1>1, <2>1, <2>2, <2>3 DEF Init, TypeOK, Cache
<1>3. OwnInv
  BY <1>1 DEF OwnInv, Init
<1>4. PhaseInv
  BY DEF PhaseInv, Init
<1>5. \A u \in Owners, c \in Classes : Shelf(u, c) = <<>>
  BY DEF Init, Shelf, Owners
<1>6. \A u \in Owners, c \in Classes : ToSet(Shelf(u, c)) = {} /\ IsInjective(Shelf(u, c))
  BY <1>5 DEF ToSet, IsInjective
<1>7. CarvedInv /\ ApartInv
  BY <1>6 DEF CarvedInv, ApartInv, Init
<1>8. KeptInv
  BY <1>1 DEF KeptInv, CarvedObjs
<1>9. LengthInv
  BY DEF LengthInv, Init
<1> QED
  BY <1>2, <1>3, <1>4, <1>7, <1>8, <1>9 DEF IInv

-----------------------------------------------------------------------------
(* tc_thread_init.                                                          *)

(* Every cache belongs to a thread that has joined, so there is room.       *)
LEMMA FewerCaches ==
  ASSUME TypeOK, OwnInv, NEW t \in Threads, pc[t] = "start"
  PROVE  Len(caches) + 1 <= Cardinality(Threads)
<1> DEFINE g == [k \in 1 .. Len(caches) |-> CHOOSE u \in Threads : mine[u] = k]
           S == 1 .. Len(caches)
<1>1. Len(caches) \in Nat /\ mine[t] = 0
  BY CacheType DEF OwnInv
<1>2. \A k \in S : g[k] \in Threads /\ mine[g[k]] = k
  BY DEF OwnInv
<1> HIDE DEF g
<1>3. \A k \in S : g[k] \in Threads \ {t}
  BY <1>1, <1>2
<1>4. \A k, l \in S : g[k] = g[l] => k = l
  BY <1>2
<1>5. IsFiniteSet(S) /\ Cardinality(S) = Len(caches)
  <2>1. PICK n \in Nat : n = Len(caches)
    BY <1>1
  <2>2. 1 \in Int /\ n \in Int
    BY <2>1
  <2>3. IsFiniteSet(1 .. n) /\ Cardinality(1 .. n) = IF 1 > n THEN 0 ELSE n - 1 + 1
    BY <2>2, FS_Interval
  <2>4. Cardinality(1 .. n) = n
    BY <2>1, <2>3
  <2> QED
    BY <2>1, <2>3, <2>4
<1> HIDE DEF S
<1>6. Cardinality(S) < Cardinality(Threads)
  BY <1>3, <1>4, Pigeonhole, ThreadCacheAssumption
<1>7. Cardinality(Threads) \in Nat
  BY ThreadCacheAssumption, FS_CardinalityType
<1> QED
  BY <1>1, <1>5, <1>6, <1>7

LEMMA NewCacheType ==
  /\ NewCache \in Cache /\ NewCache.tid = NULL
  /\ \A c \in Classes : NewCache.list[c] = <<>> /\ NewCache.end[c] = NoPtr /\ NewCache.len[c] = 0
BY DEF NewCache, Cache, Word, NoPtr

LEMMA LinkCacheStep == ASSUME IInv, NEW t \in Threads, LinkCache(t) PROVE IInv'
<1> DEFINE n == Len(caches) + 1
<1>1. TypeOK /\ OwnInv /\ PhaseInv /\ CarvedInv /\ ApartInv /\ KeptInv /\ LengthInv
  BY DEF IInv
<1>2. /\ pc[t] = "start" /\ Goto(t, "join") /\ caches' = Append(caches, NewCache)
      /\ mine' = [mine EXCEPT ![t] = n] /\ UNCHANGED <<central, spanSize, live, req, ptr>>
  BY DEF LinkCache
<1>3. /\ caches \in Seq(Cache) /\ Len(caches) \in Nat
      /\ n \in Nat /\ n <= Cardinality(Threads) /\ n # 0 /\ mine[t] = 0
  BY <1>1, <1>2, CacheType, FewerCaches DEF OwnInv
<1>4. /\ caches' \in Seq(Cache) /\ Len(caches') = n /\ caches'[n] = NewCache
      /\ \A k \in 1 .. Len(caches) : caches'[k] = caches[k]
  BY <1>2, <1>3, NewCacheType, AppendProperties
<1>5. \A u \in Threads : /\ mine'[u] = IF u = t THEN n ELSE mine[u]
                         /\ pc'[u] = IF u = t THEN "join" ELSE pc[u]
  BY <1>1, <1>2 DEF TypeOK, Goto
<1>6. \A u \in Threads : mine[u] \in 0 .. Len(caches)
  BY <1>1 DEF OwnInv
<1> HIDE DEF n
<1>7. TypeOK'
  <2>1. mine' \in [Threads -> 0 .. Cardinality(Threads)]
    <3>1. Cardinality(Threads) \in Nat
      BY ThreadCacheAssumption, FS_CardinalityType
    <3>2. n \in 0 .. Cardinality(Threads)
      BY <1>3, <3>1
    <3>3. mine \in [Threads -> 0 .. Cardinality(Threads)]
      BY <1>1 DEF TypeOK
    <3> QED
      BY <1>2, <3>2, <3>3
  <2>2. pc' \in [Threads -> {"start", "join", "idle", "alloc", "filled", "find", "push", "crash", "wild"}]
    BY <1>1, <1>2 DEF TypeOK, Goto
  <2> QED
    BY <1>1, <1>2, <1>4, <2>1, <2>2 DEF TypeOK, Cache
<1>8. OwnInv'
  <2>1. n = Len(caches) + 1
    BY DEF n
  <2>2. \A u \in Threads : mine'[u] \in 0 .. Len(caches') /\ (mine'[u] = 0 <=> pc'[u] = "start")
    BY <1>1, <1>3, <1>4, <1>5, <1>6, <2>1 DEF OwnInv
  <2>3. \A u \in Threads : u # t /\ pc[u] # "start" => caches'[mine'[u]] = caches[mine[u]]
    BY <1>1, <1>3, <1>4, <1>5, <1>6 DEF OwnInv
  <2>4. \A u \in Threads : pc'[u] = "join" => caches'[mine'[u]] = NewCache'
    <3>1. NewCache' = NewCache
      BY DEF NewCache
    <3> QED
      BY <1>1, <1>4, <1>5, <2>3, <3>1 DEF OwnInv
  <2>5. \A u \in Threads : pc'[u] \notin {"start", "join"} => caches'[mine'[u]].tid = u
    BY <1>1, <1>5, <2>3 DEF OwnInv
  <2>6. \A u, v \in Threads : mine'[u] = mine'[v] /\ mine'[u] # 0 => u = v
    BY <1>1, <1>3, <1>5, <1>6, <2>1 DEF OwnInv
  <2>7. ASSUME NEW k \in 1 .. Len(caches') PROVE \E u \in Threads : mine'[u] = k
    <3>1. CASE k = n
      BY <1>5, <3>1
    <3>2. CASE k # n
      <4>1. k \in 1 .. Len(caches)
        BY <1>3, <1>4, <2>1, <3>2
      <4>2. PICK u \in Threads : mine[u] = k
        BY <1>1, <4>1 DEF OwnInv
      <4>3. u # t
        BY <1>3, <4>1, <4>2
      <4> QED
        BY <1>5, <4>2, <4>3
    <3> QED
      BY <3>1, <3>2
  <2> QED
    BY <2>2, <2>4, <2>5, <2>6, <2>7 DEF OwnInv
<1>9. PhaseInv'
  BY <1>1, <1>2, <1>5 DEF PhaseInv
<1>10. ASSUME NEW u \in Threads, NEW c \in Classes, u # t, mine[u] # 0
       PROVE  Own(u, c)' = Own(u, c) /\ OwnEnd(u, c)' = OwnEnd(u, c) /\ Length(u, c)' = Length(u, c)
  <2>1. mine[u] \in 1 .. Len(caches) /\ mine'[u] = mine[u]
    BY <1>3, <1>5, <1>6, <1>10
  <2> QED
    BY <1>4, <2>1 DEF Own, OwnEnd, Length
<1>11. \A c \in Classes : Own(t, c)' = <<>> /\ OwnEnd(t, c)' = NoPtr /\ Length(t, c)' = 0
  BY <1>4, <1>5, NewCacheType DEF Own, OwnEnd, Length
<1>12. ASSUME NEW u \in Owners, NEW c \in Classes PROVE Shelf(u, c)' = Shelf(u, c)
  <2>1. CASE u = NULL
    BY <1>2, <2>1 DEF Shelf
  <2>2. CASE u # NULL /\ u = t
    BY <1>3, <1>5, <1>11, <2>2 DEF Shelf
  <2>3. CASE u # NULL /\ u # t
    BY <1>5, <1>10, <2>3 DEF Shelf, Owners
  <2> QED
    BY <2>1, <2>2, <2>3
<1>13. CarvedInv' /\ ApartInv' /\ KeptInv'
  BY <1>1, <1>2, <1>12, NothingMoved
<1>14. LengthInv'
  <2> SUFFICES ASSUME NEW u \in Threads, NEW c \in Classes, mine'[u] # 0
               PROVE  /\ Filling(u, c)' => Length(u, c)' = 0 /\ Len(Own(u, c)') = Batch
                      /\ c \in Untouched => /\ OwnEnd(u, c)' = NoPtr
                                            /\ ~Filling(u, c)' => Length(u, c)' = Len(Own(u, c)')
    BY DEF LengthInv, Untouched
  <2>1. CASE u = t
    BY <1>5, <1>11, <2>1 DEF Filling
  <2>2. CASE u # t
    <3>1. mine[u] # 0 /\ (Filling(u, c)' <=> Filling(u, c))
      BY <1>2, <1>5, <2>2 DEF Filling
    <3> QED
      BY <1>1, <1>10, <2>2, <3>1 DEF LengthInv
  <2> QED
    BY <2>1, <2>2
<1> QED
  BY <1>7, <1>8, <1>9, <1>13, <1>14 DEF IInv

LEMMA WriteTidStep == ASSUME IInv, NEW t \in Threads, WriteTid(t) PROVE IInv'
<1> DEFINE k == mine[t]
           r == [NewCache EXCEPT !.tid = t]
<1>1. TypeOK /\ OwnInv /\ PhaseInv /\ CarvedInv /\ ApartInv /\ KeptInv /\ LengthInv
  BY DEF IInv
<1>2. /\ pc[t] = "join" /\ Goto(t, "idle") /\ caches' = [caches EXCEPT ![k] = r]
      /\ UNCHANGED <<central, spanSize, live, mine, req, ptr>>
  BY DEF WriteTid
<1>3. /\ caches \in Seq(Cache) /\ Len(caches) \in Nat
      /\ k \in 1 .. Len(caches) /\ caches[k] = NewCache
  <2>1. caches \in Seq(Cache) /\ Len(caches) \in Nat
    BY <1>1, CacheType
  <2> QED
    BY <1>1, <1>2, <2>1 DEF OwnInv
<1>4. /\ r \in Cache /\ r.tid = t
      /\ r.list = NewCache.list /\ r.end = NewCache.end /\ r.len = NewCache.len
  <2>1. r = [tid |-> t, list |-> NewCache.list, end |-> NewCache.end, len |-> NewCache.len]
    BY DEF NewCache
  <2> QED
    BY <2>1, NewCacheType DEF Cache
<1> HIDE DEF r, k
<1>5. /\ caches' \in Seq(Cache) /\ Len(caches') = Len(caches)
      /\ \A j \in 1 .. Len(caches) : caches'[j] = IF j = k THEN r ELSE caches[j]
  BY <1>2, <1>3, <1>4, ExceptSeq
<1>6. \A u \in Threads : pc'[u] = IF u = t THEN "idle" ELSE pc[u]
  BY <1>1, <1>2 DEF TypeOK, Goto
<1>7. TypeOK'
  <2>1. pc' \in [Threads -> {"start", "join", "idle", "alloc", "filled", "find", "push", "crash", "wild"}]
    BY <1>1, <1>2 DEF TypeOK, Goto
  <2> QED
    BY <1>1, <1>2, <1>5, <2>1 DEF TypeOK, Cache
<1>8. \A u \in Threads : u # t /\ pc[u] # "start" =>
        mine[u] \in 1 .. Len(caches) /\ caches'[mine[u]] = caches[mine[u]]
  <2> SUFFICES ASSUME NEW u \in Threads, u # t, pc[u] # "start"
               PROVE  mine[u] \in 1 .. Len(caches) /\ caches'[mine[u]] = caches[mine[u]]
    OBVIOUS
  <2>1. mine[u] \in 1 .. Len(caches)
    BY <1>1, <1>3 DEF OwnInv
  <2>2. mine[u] # k
    BY <1>1, <2>1 DEF OwnInv, k
  <2> QED
    BY <1>5, <2>1, <2>2
<1>9. OwnInv'
  <2>1. \A u \in Threads : mine'[u] \in 0 .. Len(caches') /\ (mine'[u] = 0 <=> pc'[u] = "start")
    BY <1>1, <1>2, <1>5, <1>6 DEF OwnInv
  <2>2. \A u \in Threads : pc'[u] = "join" => caches'[mine'[u]] = NewCache'
    <3>1. NewCache' = NewCache
      BY DEF NewCache
    <3> QED
      BY <1>1, <1>2, <1>6, <1>8, <3>1 DEF OwnInv
  <2>3. \A u \in Threads : pc'[u] \notin {"start", "join"} => caches'[mine'[u]].tid = u
    <3>1. caches'[mine[t]].tid = t
      BY <1>3, <1>4, <1>5 DEF k
    <3> QED
      BY <1>1, <1>2, <1>6, <1>8, <3>1 DEF OwnInv
  <2>4. \A u, v \in Threads : mine'[u] = mine'[v] /\ mine'[u] # 0 => u = v
    BY <1>1, <1>2 DEF OwnInv
  <2>5. \A j \in 1 .. Len(caches') : \E u \in Threads : mine'[u] = j
    BY <1>1, <1>2, <1>5 DEF OwnInv
  <2> QED
    BY <2>1, <2>2, <2>3, <2>4, <2>5 DEF OwnInv
<1>10. PhaseInv'
  BY <1>1, <1>2, <1>6 DEF PhaseInv
<1>11. ASSUME NEW u \in Threads, NEW c \in Classes, mine[u] # 0
       PROVE  Own(u, c)' = Own(u, c) /\ OwnEnd(u, c)' = OwnEnd(u, c) /\ Length(u, c)' = Length(u, c)
  <2>1. CASE u = t
    BY <1>2, <1>3, <1>4, <1>5, <2>1 DEF Own, OwnEnd, Length, k
  <2>2. CASE u # t
    <3>1. pc[u] # "start"
      BY <1>1, <1>11 DEF OwnInv
    <3> QED
      BY <1>2, <1>8, <2>2, <3>1 DEF Own, OwnEnd, Length
  <2> QED
    BY <2>1, <2>2
<1>12. \A u \in Owners, c \in Classes : Shelf(u, c)' = Shelf(u, c)
  BY <1>2, <1>11 DEF Shelf, Owners
<1>13. CarvedInv' /\ ApartInv' /\ KeptInv'
  BY <1>1, <1>2, <1>12, NothingMoved
<1>14. LengthInv'
  <2>1. \A u \in Threads, c \in Classes : Filling(u, c)' <=> Filling(u, c)
    BY <1>2, <1>6 DEF Filling
  <2> QED
    BY <1>1, <1>2, <1>11, <2>1 DEF LengthInv, Untouched
<1> QED
  BY <1>7, <1>9, <1>10, <1>13, <1>14 DEF IInv

-----------------------------------------------------------------------------
(* The steps that leave all lists as they are.                              *)

LEMMA QuietStep ==
  ASSUME IInv, NEW t \in Threads, pc[t] \notin {"start", "join", "filled"},
         NEW x \in {"alloc", "push", "crash", "wild"}, Goto(t, x),
         UNCHANGED <<caches, central, spanSize, live, mine, ptr>>,
         req' \in [Threads -> {0} \cup Sizes \cup {ObjSize(n) : n \in Sizes}],
         \A u \in Threads : u # t => req'[u] = req[u],
         x = "alloc" => pc[t] = "idle" /\ req'[t] \in Sizes,
         x = "push" => pc[t] = "find" /\ req'[t] = req[t],
         x \in {"crash", "wild"} => pc[t] = "alloc"
  PROVE  IInv'
<1>1. TypeOK /\ OwnInv /\ PhaseInv /\ CarvedInv /\ ApartInv /\ KeptInv /\ LengthInv
  BY DEF IInv
<1>2. \A u \in Threads : pc'[u] = IF u = t THEN x ELSE pc[u]
  BY <1>1 DEF TypeOK, Goto
<1>3. TypeOK'
  <2>1. pc' \in [Threads -> {"start", "join", "idle", "alloc", "filled", "find", "push", "crash", "wild"}]
    BY <1>1 DEF TypeOK, Goto
  <2> QED
    BY <1>1, <2>1 DEF TypeOK
<1>4. OwnInv'
  BY <1>1, OwnKept
<1>5. PhaseInv'
  BY <1>1, <1>2 DEF PhaseInv
<1>6. CarvedInv' /\ ApartInv' /\ KeptInv'
  BY <1>1, ShelvesKept, NothingMoved
<1>7. LengthInv'
  BY <1>1, <1>2, LengthsKept
<1> QED
  BY <1>3, <1>4, <1>5, <1>6, <1>7 DEF IInv

(* The search finds the thread's own cache, curr_tc as it was.              *)
LEMMA SameCache ==
  ASSUME TypeOK, OwnInv, NEW t \in Threads, pc[t] \notin {"start", "join"},
         \/ mine' = [mine EXCEPT ![t] = Max(CachesOf(t))]
         \/ mine' = [mine EXCEPT ![t] = Min(CachesOf(t))]
  PROVE  mine' = mine
<1>1. Max(CachesOf(t)) = mine[t] /\ Min(CachesOf(t)) = mine[t]
  BY FindsOwn, OnlyMatch
<1> QED
  BY <1>1 DEF TypeOK

LEMMA RequestStep == ASSUME IInv, NEW t \in Threads, NEW n \in Sizes, Request(t, n) PROVE IInv'
<1>1. TypeOK /\ OwnInv
  BY DEF IInv
<1>2. /\ pc[t] = "idle" /\ Goto(t, "alloc") /\ req' = [req EXCEPT ![t] = n]
      /\ UNCHANGED <<caches, central, spanSize, live, ptr>>
  BY DEF Request
<1>3. mine' = mine
  BY <1>1, <1>2, SameCache DEF Request
<1>4. /\ req' \in [Threads -> {0} \cup Sizes \cup {ObjSize(k) : k \in Sizes}]
      /\ \A u \in Threads : req'[u] = IF u = t THEN n ELSE req[u]
  BY <1>1, <1>2 DEF TypeOK
<1> QED
  BY <1>2, <1>3, <1>4, QuietStep

LEMMA FindCacheStep == ASSUME IInv, NEW t \in Threads, FindCache(t) PROVE IInv'
<1>1. TypeOK /\ OwnInv
  BY DEF IInv
<1>2. pc[t] = "find" /\ Goto(t, "push") /\ UNCHANGED <<caches, central, spanSize, live, req, ptr>>
  BY DEF FindCache
<1>3. mine' = mine
  BY <1>1, <1>2, SameCache DEF FindCache
<1>4. req' \in [Threads -> {0} \cup Sizes \cup {ObjSize(k) : k \in Sizes}]
  BY <1>1, <1>2 DEF TypeOK
<1> QED
  BY <1>2, <1>3, <1>4, QuietStep

LEMMA PopNothingStep ==
  ASSUME IInv, NEW t \in Threads, pc[t] = "alloc", NEW c, PopNothing(t, c)
  PROVE  IInv'
<1>1. PICK x \in {"crash", "wild"} :
        Goto(t, x) /\ UNCHANGED <<caches, central, spanSize, live, mine, req, ptr>>
  BY DEF PopNothing
<1>2. req' \in [Threads -> {0} \cup Sizes \cup {ObjSize(k) : k \in Sizes}]
  BY <1>1 DEF TypeOK, IInv
<1> QED
  BY <1>1, <1>2, QuietStep

-----------------------------------------------------------------------------
(* The first critical section of tc_free: the object is on its way.         *)
LEMMA FindSizeStep ==
  ASSUME IInv, NEW t \in Threads, NEW l \in live, FindSize(t, l)
  PROVE  IInv'
<1>1. TypeOK /\ OwnInv /\ PhaseInv /\ CarvedInv /\ ApartInv /\ KeptInv /\ LengthInv
  BY DEF IInv
<1>2. /\ pc[t] = "idle" /\ Goto(t, "find") /\ live' = live \ {l}
      /\ ptr' = [ptr EXCEPT ![t] = l.obj] /\ req' = [req EXCEPT ![t] = spanSize[l.obj[1]]]
      /\ UNCHANGED <<caches, central, spanSize, mine>>
  BY DEF FindSize
<1>3. /\ l.obj \in CarvedObjs /\ l.obj \in Objs /\ l.obj # NoObject
      /\ spanSize[l.obj[1]] \in {ObjSize(n) : n \in Sizes}
  <2>1. l.obj \in CarvedObjs /\ l.obj \in Objs
    BY <1>1 DEF CarvedInv, TypeOK
  <2>2. l.obj[1] \in DOMAIN spanSize /\ DOMAIN spanSize = 1 .. Len(spanSize)
    BY <1>1, <2>1 DEF CarvedObjs, TypeOK
  <2>3. l.obj # NoObject
    BY <2>2 DEF NoObject
  <2>4. spanSize \in Seq({ObjSize(n) : n \in Sizes})
    BY <1>1 DEF TypeOK
  <2>5. spanSize[l.obj[1]] \in {ObjSize(n) : n \in Sizes}
    BY <2>2, <2>4, ElementOfSeq
  <2> QED
    BY <2>1, <2>3, <2>5
<1>4. \A u \in Threads : /\ pc'[u] = IF u = t THEN "find" ELSE pc[u]
                         /\ ptr'[u] = IF u = t THEN l.obj ELSE ptr[u]
                         /\ req'[u] = IF u = t THEN spanSize[l.obj[1]] ELSE req[u]
  BY <1>1, <1>2 DEF TypeOK, Goto
<1>5. TypeOK'
  <2>1. pc' \in [Threads -> {"start", "join", "idle", "alloc", "filled", "find", "push", "crash", "wild"}]
    BY <1>1, <1>2 DEF TypeOK, Goto
  <2>2. ptr' \in [Threads -> Objs \cup {NoObject}]
    BY <1>1, <1>2, <1>3 DEF TypeOK
  <2>3. req' \in [Threads -> {0} \cup Sizes \cup {ObjSize(n) : n \in Sizes}]
    BY <1>1, <1>2, <1>3 DEF TypeOK
  <2>4. live' \subseteq [obj : Objs, asked : Sizes]
    BY <1>1, <1>2 DEF TypeOK
  <2> QED
    BY <1>1, <1>2, <2>1, <2>2, <2>3, <2>4 DEF TypeOK
<1>6. OwnInv'
  BY <1>1, <1>2, OwnKept
<1>7. PhaseInv'
  BY <1>1, <1>2, <1>3, <1>4 DEF PhaseInv
<1>8. /\ CarvedObjs' = CarvedObjs
      /\ \A u \in Owners, c \in Classes : Shelf(u, c)' = Shelf(u, c)
  BY <1>2, ShelvesKept DEF CarvedObjs
<1>9. CarvedInv'
  BY <1>1, <1>2, <1>3, <1>4, <1>8 DEF CarvedInv
<1>10. ApartInv'
  <2>1. \A u \in Owners, c \in Classes : \A o \in ToSet(Shelf(u, c)) :
          (\A m \in live' : m.obj # o) /\ (\A u1 \in Threads : ptr'[u1] # o)
    BY <1>1, <1>2, <1>4 DEF ApartInv
  <2>2. \A m \in live' : m \in live /\ m.obj # l.obj
    BY <1>1, <1>2 DEF ApartInv
  <2>3. \A m \in live', u \in Threads : m.obj # ptr'[u]
    BY <1>1, <1>4, <2>2 DEF ApartInv
  <2>4. \A u, v \in Threads : ptr'[u] = ptr'[v] /\ ptr'[u] # NoObject => u = v
    BY <1>1, <1>4 DEF ApartInv
  <2>5. \A k, m \in live' : k.obj = m.obj => k = m
    BY <1>1, <2>2 DEF ApartInv
  <2>6. /\ \A u \in Owners, c \in Classes : IsInjective(Shelf(u, c)')
        /\ \A u, v \in Owners, c, d \in Classes : \A o \in ToSet(Shelf(u, c)') :
             o \in ToSet(Shelf(v, d)') => u = v /\ c = d
    BY <1>1, <1>8 DEF ApartInv
  <2> QED
    BY <1>8, <2>1, <2>3, <2>4, <2>5, <2>6 DEF ApartInv
<1>11. KeptInv'
  <2> SUFFICES ASSUME NEW o \in CarvedObjs, Safe(o)
               PROVE  \/ \E m \in live' : m.obj = o
                      \/ \E u \in Threads : ptr'[u] = o
                      \/ \E u \in Owners, c \in Classes : o \in ToSet(Shelf(u, c)')
    BY <1>2, <1>8 DEF KeptInv, Safe
  <2>1. CASE o = l.obj
    BY <1>4, <2>1
  <2>2. CASE o # l.obj
    <3>1. \A m \in live : m.obj = o => m \in live'
      BY <1>2, <2>2
    <3>2. \A u \in Threads : ptr[u] = o => ptr'[u] = o
      <4>1. CarvedObjs \subseteq (1 .. Len(spanSize)) \X (1 .. ObjsPerSpan)
        BY <1>1 DEF CarvedObjs, TypeOK
      <4>2. o # NoObject
        BY <4>1 DEF NoObject
      <4> QED
        BY <1>1, <1>2, <1>4, <4>2 DEF PhaseInv
    <3> QED
      BY <1>1, <1>8, <3>1, <3>2 DEF KeptInv
  <2> QED
    BY <2>1, <2>2
<1>12. LengthInv'
  BY <1>1, <1>2, <1>4, LengthsKept
<1> QED
  BY <1>5, <1>6, <1>7, <1>9, <1>10, <1>11, <1>12 DEF IInv

-----------------------------------------------------------------------------
(* One object leaves or enters the list of a cache.                         *)

LEMMA ShelfAfter ==
  ASSUME TypeOK, OwnInv, NEW t \in Threads, pc[t] \notin {"start", "join"},
         NEW c \in Classes, NEW q \in Seq(Objs), NEW e \in Word, NEW n \in Int,
         Store(t, c, q, e, n), mine' = mine
  PROVE  /\ mine[t] # 0 /\ Shelf(t, c) = Own(t, c)
         /\ \A u \in Threads, d \in Classes :
              Shelf(u, d)' = IF u = t /\ d = c THEN q ELSE Shelf(u, d)
         /\ \A d \in Classes : Shelf(NULL, d) = central[d] /\ Shelf(NULL, d)' = central'[d]
<1>1. \A u \in Threads : u # NULL
  BY ThreadCacheAssumption
<1>2. mine[t] # 0
  BY FindsOwn, CacheType
<1>3. \A u \in Threads, d \in Classes : mine[u] # 0 =>
        Own(u, d)' = IF u = t /\ d = c THEN q ELSE Own(u, d)
  BY StoreFacts
<1> QED
  BY <1>1, <1>2, <1>3 DEF Shelf

LEMMA PopStep ==
  ASSUME IInv, NEW t \in Threads, pc[t] \in {"alloc", "filled"}, NEW n \in Int,
         NEW c, c = AllocClass(req[t]), Pop(t, c, n),
         c \in Untouched => n = Len(Own(t, c))
  PROVE  IInv'
<1> DEFINE q == Own(t, c)
           z == OwnEnd(t, c)
           o == Head(q)
           rest == Tail(q)
           len == n - 1
           e == [obj |-> o, asked |-> req[t]]
<1>1. TypeOK /\ OwnInv /\ PhaseInv /\ CarvedInv /\ ApartInv /\ KeptInv /\ LengthInv
  BY DEF IInv
<1>2. /\ req[t] \in Sizes /\ c \in Classes /\ SizeOf(c) = ObjSize(req[t])
      /\ req[t] <= ObjSize(req[t]) /\ mine[t] # 0
  <2>1. req[t] \in Sizes
    BY <1>1 DEF PhaseInv
  <2>2. mine[t] # 0
    BY <1>1 DEF OwnInv
  <2> QED
    BY <2>1, <2>2, ClassOf
<1>3. /\ q # <<>> /\ Store(t, c, rest, z, len) /\ live' = live \cup {e}
      /\ req' = [req EXCEPT ![t] = 0] /\ Goto(t, "idle") /\ UNCHANGED <<central, spanSize, mine, ptr>>
  <2>1. List(t, c) # <<>>
    BY DEF Pop
  <2>2. List(t, c) = q /\ End(t, c) = z
    BY <1>1, <1>2, <2>1, WhatIsSeen
  <2> QED
    BY <2>1, <2>2 DEF Pop
<1>4. q \in Seq(Objs) /\ z \in Word /\ t \in Owners /\ mine[t] \in 1 .. Len(caches)
  BY <1>1, <1>2, FindsOwn, WhatIsSeen DEF Owners
<1>5. rest \in Seq(Objs) /\ len \in Int /\ Len(rest) = Len(q) - 1 /\ Len(q) \in Nat
  BY <1>3, <1>4
<1> HIDE DEF q, e, rest, len, z
<1>6. /\ caches' \in Seq(Cache) /\ Len(caches') = Len(caches)
      /\ \A k \in 1 .. Len(caches) : /\ caches'[k].tid = caches[k].tid
                                     /\ k # mine[t] => caches'[k] = caches[k]
      /\ \A u \in Threads, d \in Classes : mine[u] # 0 =>
           /\ Own(u, d)' = IF u = t /\ d = c THEN rest ELSE Own(u, d)
           /\ OwnEnd(u, d)' = IF u = t /\ d = c THEN z ELSE OwnEnd(u, d)
           /\ u = t /\ d = c => Length(u, d)' = len
           /\ u # t \/ (d # c /\ d \in Untouched) => Length(u, d)' = Length(u, d)
  <2>1. pc[t] \notin {"start", "join"} /\ mine' = mine /\ Store(t, c, rest, z, len)
    BY <1>3
  <2> QED
    BY <1>1, <1>2, <1>4, <1>5, <2>1, StoreFacts
<1>7. /\ mine[t] # 0 /\ Shelf(t, c) = q
      /\ \A u \in Owners, d \in Classes :
           Shelf(u, d)' = IF u = t /\ d = c THEN rest ELSE Shelf(u, d)
  <2>1. /\ mine[t] # 0 /\ Shelf(t, c) = Own(t, c)
        /\ \A u \in Threads, d \in Classes :
             Shelf(u, d)' = IF u = t /\ d = c THEN rest ELSE Shelf(u, d)
        /\ \A d \in Classes : Shelf(NULL, d) = central[d] /\ Shelf(NULL, d)' = central'[d]
    BY <1>1, <1>2, <1>3, <1>4, <1>5, ShelfAfter
  <2>2. t # NULL
    BY ThreadCacheAssumption
  <2> QED
    BY <1>3, <2>1, <2>2 DEF Owners, q
<1>8. IsInjective(q)
  BY <1>1, <1>2, <1>4, <1>7 DEF ApartInv
<1>9. o \in ToSet(q) /\ IsInjective(rest) /\ ToSet(rest) = ToSet(q) \ {o}
  BY <1>3, <1>4, <1>8, WithoutHead DEF rest
<1> HIDE DEF o
<1>10. o \in CarvedObjs /\ spanSize[o[1]] = SizeOf(c) /\ o \in Objs
  <2>1. o \in CarvedObjs /\ spanSize[o[1]] = SizeOf(c)
    BY <1>1, <1>2, <1>4, <1>7, <1>9 DEF CarvedInv
  <2>2. o \in Objs
    BY <1>4, <1>9 DEF ToSet
  <2> QED
    BY <2>1, <2>2
<1>11. /\ e.obj = o /\ e.asked = req[t] /\ e \in [obj : Objs, asked : Sizes]
  BY <1>2, <1>10 DEF e
<1>12. \A u \in Owners, d \in Classes :
         /\ ToSet(Shelf(u, d)') \subseteq ToSet(Shelf(u, d)) \ {o}
         /\ ToSet(Shelf(u, d)) \subseteq ToSet(Shelf(u, d)') \cup {o}
         /\ IsInjective(Shelf(u, d)')
  <2> SUFFICES ASSUME NEW u \in Owners, NEW d \in Classes
               PROVE  /\ ToSet(Shelf(u, d)') \subseteq ToSet(Shelf(u, d)) \ {o}
                      /\ ToSet(Shelf(u, d)) \subseteq ToSet(Shelf(u, d)') \cup {o}
                      /\ IsInjective(Shelf(u, d)')
    OBVIOUS
  <2>1. CASE u = t /\ d = c
    <3>1. Shelf(u, d) = q /\ Shelf(u, d)' = rest
      BY <1>2, <1>4, <1>7, <2>1
    <3> QED
      BY <1>9, <3>1
  <2>2. CASE ~(u = t /\ d = c)
    <3>1. Shelf(u, d)' = Shelf(u, d)
      BY <1>7, <2>2
    <3>2. o \notin ToSet(Shelf(u, d))
      BY <1>1, <1>2, <1>4, <1>7, <1>9, <2>2 DEF ApartInv
    <3>3. IsInjective(Shelf(u, d))
      BY <1>1 DEF ApartInv
    <3> QED
      BY <3>1, <3>2, <3>3
  <2> QED
    BY <2>1, <2>2
<1>13. \A u \in Threads : /\ pc'[u] = IF u = t THEN "idle" ELSE pc[u]
                          /\ req'[u] = IF u = t THEN 0 ELSE req[u]
  BY <1>1, <1>3 DEF TypeOK, Goto
<1>14. TypeOK'
  <2>1. pc' \in [Threads -> {"start", "join", "idle", "alloc", "filled", "find", "push", "crash", "wild"}]
    BY <1>1, <1>3 DEF TypeOK, Goto
  <2>2. req' \in [Threads -> {0} \cup Sizes \cup {ObjSize(k) : k \in Sizes}]
    BY <1>1, <1>3 DEF TypeOK
  <2>3. live' \subseteq [obj : Objs, asked : Sizes]
    BY <1>1, <1>3, <1>11 DEF TypeOK
  <2> QED
    BY <1>1, <1>3, <1>6, <2>1, <2>2, <2>3 DEF TypeOK, Cache
<1>15. OwnInv'
  BY <1>1, <1>3, <1>6, OwnKept
<1>16. PhaseInv'
  BY <1>1, <1>3, <1>13 DEF PhaseInv
<1>17. CarvedObjs' = CarvedObjs
  BY <1>3 DEF CarvedObjs
<1>18. CarvedInv'
  <2>1. \A l \in live' : l.obj \in CarvedObjs /\ l.asked <= spanSize[l.obj[1]]
    <3>1. e.obj \in CarvedObjs /\ e.asked <= spanSize[e.obj[1]]
      BY <1>2, <1>10, <1>11
    <3> QED
      BY <1>1, <1>3, <3>1 DEF CarvedInv
  <2>2. \A u \in Owners, d \in Classes : \A o1 \in ToSet(Shelf(u, d)') :
          o1 \in CarvedObjs /\ spanSize[o1[1]] = SizeOf(d)
    BY <1>1, <1>12 DEF CarvedInv
  <2> QED
    BY <1>1, <1>3, <1>17, <2>1, <2>2 DEF CarvedInv
<1>19. ApartInv'
  <2>1. /\ \A l \in live : l.obj # o
        /\ \A u \in Threads : ptr[u] # o
    BY <1>1, <1>2, <1>4, <1>7, <1>9 DEF ApartInv
  <2>2. \A u \in Owners, d \in Classes : IsInjective(Shelf(u, d)')
    BY <1>12
  <2>3. \A u, v \in Owners, b, d \in Classes : \A o1 \in ToSet(Shelf(u, b)') :
          o1 \in ToSet(Shelf(v, d)') => u = v /\ b = d
    <3>1. \A u \in Owners, d \in Classes : \A o1 \in ToSet(Shelf(u, d)') : o1 \in ToSet(Shelf(u, d))
      BY <1>12
    <3> QED
      BY <1>1, <3>1 DEF ApartInv
  <2>4. \A u \in Owners, d \in Classes : \A o1 \in ToSet(Shelf(u, d)') :
          (\A l \in live' : l.obj # o1) /\ (\A u1 \in Threads : ptr'[u1] # o1)
    <3>1. \A u \in Owners, d \in Classes : \A o1 \in ToSet(Shelf(u, d)') :
            o1 \in ToSet(Shelf(u, d)) /\ o1 # o
      BY <1>12
    <3> QED
      BY <1>1, <1>3, <1>11, <3>1 DEF ApartInv
  <2>5. \A l \in live', u \in Threads : l.obj # ptr'[u]
    BY <1>1, <1>3, <1>11, <2>1 DEF ApartInv
  <2>6. \A l, m \in live' : l.obj = m.obj => l = m
    BY <1>1, <1>3, <1>11, <2>1 DEF ApartInv
  <2>7. \A u, v \in Threads : ptr'[u] = ptr'[v] /\ ptr'[u] # NoObject => u = v
    BY <1>1, <1>3 DEF ApartInv
  <2> QED
    BY <2>2, <2>3, <2>4, <2>5, <2>6, <2>7 DEF ApartInv
<1>20. KeptInv'
  <2> SUFFICES ASSUME NEW o1 \in CarvedObjs, Safe(o1)
               PROVE  \/ \E l \in live' : l.obj = o1
                      \/ \E u \in Threads : ptr'[u] = o1
                      \/ \E u \in Owners, d \in Classes : o1 \in ToSet(Shelf(u, d)')
    BY <1>3, <1>17 DEF KeptInv, Safe
  <2>1. CASE o1 = o
    BY <1>3, <1>11, <2>1
  <2>2. CASE o1 # o
    <3>1. \A u \in Owners, d \in Classes : o1 \in ToSet(Shelf(u, d)) => o1 \in ToSet(Shelf(u, d)')
      BY <1>12, <2>2
    <3> QED
      BY <1>1, <1>3, <3>1 DEF KeptInv
  <2> QED
    BY <2>1, <2>2
<1>21. LengthInv'
  <2> SUFFICES ASSUME NEW u \in Threads, NEW d \in Classes, mine[u] # 0
               PROVE  /\ Filling(u, d)' => Length(u, d)' = 0 /\ Len(Own(u, d)') = Batch
                      /\ d \in Untouched => /\ OwnEnd(u, d)' = NoPtr
                                            /\ ~Filling(u, d)' => Length(u, d)' = Len(Own(u, d)')
    BY <1>3 DEF LengthInv, Untouched
  <2>1. CASE u = t /\ d = c
    <3>1. ~Filling(u, d)'
      BY <1>13, <2>1 DEF Filling
    <3>2. Length(u, d)' = len /\ Own(u, d)' = rest /\ OwnEnd(u, d)' = z
      BY <1>2, <1>6, <2>1
    <3>3. c \in Untouched => n = Len(q) /\ z = NoPtr
      BY <1>1, <1>2 DEF q, z, LengthInv
    <3>4. len = n - 1
      BY DEF len
    <3> QED
      BY <1>5, <2>1, <3>1, <3>2, <3>3, <3>4
  <2>2. CASE u = t /\ d # c
    <3>1. ~Filling(u, d)' /\ ~Filling(u, d)
      BY <1>13, <2>2 DEF Filling
    <3>2. /\ Own(u, d)' = Own(u, d) /\ OwnEnd(u, d)' = OwnEnd(u, d)
          /\ d \in Untouched => Length(u, d)' = Length(u, d)
      BY <1>6, <2>2
    <3> QED
      BY <1>1, <3>1, <3>2 DEF LengthInv
  <2>3. CASE u # t
    <3>1. Filling(u, d)' <=> Filling(u, d)
      BY <1>13, <2>3 DEF Filling
    <3>2. Own(u, d)' = Own(u, d) /\ OwnEnd(u, d)' = OwnEnd(u, d) /\ Length(u, d)' = Length(u, d)
      BY <1>6, <2>3
    <3> QED
      BY <1>1, <3>1, <3>2 DEF LengthInv
  <2> QED
    BY <2>1, <2>2, <2>3
<1> QED
  BY <1>14, <1>15, <1>16, <1>18, <1>19, <1>20, <1>21 DEF IInv

LEMMA TakeCachedStep == ASSUME IInv, NEW t \in Threads, TakeCached(t) PROVE IInv'
<1> DEFINE c == AllocClass(req[t])
<1>1. TypeOK /\ OwnInv /\ PhaseInv /\ LengthInv
  BY DEF IInv
<1>2. pc[t] = "alloc" /\ Length(t, c) # 0 /\ (Pop(t, c, Length(t, c)) \/ PopNothing(t, c))
  BY DEF TakeCached
<1>3. c \in Classes /\ mine[t] \in 1 .. Len(caches)
  <2>1. req[t] \in Sizes
    BY <1>1, <1>2 DEF PhaseInv
  <2> QED
    BY <1>1, <1>2, <2>1, ClassOf, FindsOwn
<1>4. mine[t] # 0 /\ Length(t, c) \in Int
  <2>1. mine[t] # 0
    BY <1>1, <1>3, CacheType
  <2> QED
    BY <1>1, <1>3, <2>1, WhatIsSeen
<1>5. c \in Untouched => Length(t, c) = Len(Own(t, c))
  <2>1. ~Filling(t, c)
    BY <1>2 DEF Filling
  <2> QED
    BY <1>1, <1>3, <1>4, <2>1 DEF LengthInv
<1>6. CASE Pop(t, c, Length(t, c))
  BY <1>2, <1>4, <1>5, <1>6, PopStep
<1>7. CASE PopNothing(t, c)
  BY <1>2, <1>7, PopNothingStep
<1> QED
  BY <1>2, <1>6, <1>7

LEMMA TakeFilledStep == ASSUME IInv, NEW t \in Threads, TakeFilled(t) PROVE IInv'
<1> DEFINE c == AllocClass(req[t])
<1>1. TypeOK /\ OwnInv /\ PhaseInv /\ LengthInv
  BY DEF IInv
<1>2. pc[t] = "filled" /\ Pop(t, c, Batch)
  BY DEF TakeFilled
<1>3. c \in Classes /\ mine[t] # 0 /\ Filling(t, c)
  <2>1. req[t] \in Sizes
    BY <1>1, <1>2 DEF PhaseInv
  <2> QED
    BY <1>1, <1>2, <2>1, ClassOf, FindsOwn, CacheType DEF Filling
<1>4. Len(Own(t, c)) = Batch /\ Batch \in Int
  BY <1>1, <1>3, ThreadCacheAssumption DEF LengthInv
<1> QED
  BY <1>2, <1>4, PopStep

-----------------------------------------------------------------------------
(* The last step of tc_free.                                                *)

(* The object tc_free holds, and the size it has found.                     *)
LEMMA OnItsWay ==
  ASSUME TypeOK, PhaseInv, CarvedInv, NEW t \in Threads, pc[t] = "push"
  PROVE  /\ ptr[t] \in CarvedObjs /\ ptr[t] \in Objs /\ ptr[t] # NoObject
         /\ req[t] = spanSize[ptr[t][1]]
         /\ \E n \in Sizes : req[t] = ObjSize(n)
<1>1. ptr[t] # NoObject /\ ptr[t] \in CarvedObjs /\ req[t] = spanSize[ptr[t][1]]
  BY DEF PhaseInv, CarvedInv
<1>2. ptr[t] \in Objs
  BY <1>1 DEF TypeOK
<1>3. ptr[t][1] \in 1 .. Len(spanSize) /\ spanSize \in Seq({ObjSize(n) : n \in Sizes})
  BY <1>1 DEF CarvedObjs, TypeOK
<1>4. spanSize[ptr[t][1]] \in {ObjSize(n) : n \in Sizes}
  BY <1>3, ElementOfSeq
<1> QED
  BY <1>1, <1>2, <1>4

LEMMA FreedFacts ==
  ASSUME TypeOK, PhaseInv, NEW t \in Threads, pc[t] = "push", Freed(t)
  PROVE  /\ \A u \in Threads : /\ pc'[u] = IF u = t THEN "idle" ELSE pc[u]
                               /\ req'[u] = IF u = t THEN 0 ELSE req[u]
                               /\ ptr'[u] = IF u = t THEN NoObject ELSE ptr[u]
         /\ pc' \in [Threads -> {"start", "join", "idle", "alloc", "filled", "find", "push", "crash", "wild"}]
         /\ req' \in [Threads -> {0} \cup Sizes \cup {ObjSize(n) : n \in Sizes}]
         /\ ptr' \in [Threads -> Objs \cup {NoObject}]
         /\ PhaseInv' /\ CarvedObjs' = CarvedObjs
<1>1. \A u \in Threads : /\ pc'[u] = IF u = t THEN "idle" ELSE pc[u]
                         /\ req'[u] = IF u = t THEN 0 ELSE req[u]
                         /\ ptr'[u] = IF u = t THEN NoObject ELSE ptr[u]
  BY DEF TypeOK, Freed, Goto
<1>2. pc' \in [Threads -> {"start", "join", "idle", "alloc", "filled", "find", "push", "crash", "wild"}]
  BY DEF TypeOK, Freed, Goto
<1>3. req' \in [Threads -> {0} \cup Sizes \cup {ObjSize(n) : n \in Sizes}]
  BY DEF TypeOK, Freed
<1>4. ptr' \in [Threads -> Objs \cup {NoObject}]
  BY DEF TypeOK, Freed
<1>5. PhaseInv'
  BY <1>1 DEF PhaseInv, Freed
<1>6. CarvedObjs' = CarvedObjs
  BY DEF CarvedObjs, Freed
<1> QED
  BY <1>1, <1>2, <1>3, <1>4, <1>5, <1>6

LEMMA PushStep == ASSUME IInv, NEW t \in Threads, Push(t) PROVE IInv'
<1> DEFINE c == FreeClass(req[t])
           q == List(t, c)
           z == End(t, c)
           o == ptr[t]
           more == <<o>> \o q
           len == Length(t, c) + 1
<1>1. TypeOK /\ OwnInv /\ PhaseInv /\ CarvedInv /\ ApartInv /\ KeptInv /\ LengthInv
  BY DEF IInv
<1>2. pc[t] = "push" /\ Store(t, c, more, z, len) /\ Freed(t)
  BY DEF Push
<1>3. o \in CarvedObjs /\ o \in Objs /\ o # NoObject /\ req[t] = spanSize[o[1]]
  BY <1>1, <1>2, OnItsWay
<1>4. c \in Classes /\ spanSize[o[1]] = SizeOf(c)
  <2>1. PICK n \in Sizes : req[t] = ObjSize(n)
    BY <1>1, <1>2, OnItsWay
  <2> QED
    BY <1>3, <2>1, ClassOf
<1> HIDE DEF c
<1>5. t \in Owners /\ mine[t] \in 1 .. Len(caches) /\ mine[t] # 0 /\ t # NULL
  BY <1>1, <1>2, FindsOwn, CacheType, ThreadCacheAssumption DEF Owners
<1>6. /\ q \in Seq(Objs) /\ z \in Word /\ Length(t, c) \in Int
      /\ q = <<>> \/ q = Shelf(t, c)
      /\ c \in Untouched => q = Shelf(t, c) /\ q = Own(t, c) /\ z = OwnEnd(t, c)
  <2>1. Shelf(t, c) = Own(t, c)
    BY <1>5 DEF Shelf
  <2> QED
    BY <1>1, <1>4, <1>5, <2>1, WhatIsSeen
<1> HIDE DEF q, o, z
<1>7. o \notin ToSet(q) /\ IsInjective(q) /\ ToSet(q) \subseteq ToSet(Shelf(t, c))
  <2>1. o \notin ToSet(Shelf(t, c)) /\ IsInjective(Shelf(t, c))
    BY <1>1, <1>4, <1>5 DEF ApartInv, o
  <2>2. ToSet(<<>>) = {} /\ IsInjective(<<>>)
    BY DEF ToSet, IsInjective
  <2> QED
    BY <1>6, <2>1, <2>2
<1>8. /\ more \in Seq(Objs) /\ IsInjective(more) /\ ToSet(more) = ToSet(q) \cup {o}
      /\ Len(more) = Len(q) + 1 /\ Len(q) \in Nat /\ len \in Int
  <2>1. more \in Seq(Objs) /\ IsInjective(more) /\ ToSet(more) = ToSet(q) \cup {o}
    BY <1>3, <1>6, <1>7, WithFront
  <2> QED
    BY <1>3, <1>6, <2>1
<1> HIDE DEF more, len
<1>9. UNCHANGED <<central, spanSize, live, mine>> /\ Goto(t, "idle")
  BY <1>2 DEF Freed
<1>10. /\ caches' \in Seq(Cache) /\ Len(caches') = Len(caches)
       /\ \A k \in 1 .. Len(caches) : /\ caches'[k].tid = caches[k].tid
                                      /\ k # mine[t] => caches'[k] = caches[k]
       /\ \A u \in Threads, d \in Classes : mine[u] # 0 =>
            /\ Own(u, d)' = IF u = t /\ d = c THEN more ELSE Own(u, d)
            /\ OwnEnd(u, d)' = IF u = t /\ d = c THEN z ELSE OwnEnd(u, d)
            /\ u = t /\ d = c => Length(u, d)' = len
            /\ u # t \/ (d # c /\ d \in Untouched) => Length(u, d)' = Length(u, d)
  BY <1>1, <1>2, <1>4, <1>6, <1>8, <1>9, StoreFacts
<1>11. \A u \in Owners, d \in Classes :
         Shelf(u, d)' = IF u = t /\ d = c THEN more ELSE Shelf(u, d)
  <2>1. /\ \A u \in Threads, d \in Classes :
             Shelf(u, d)' = IF u = t /\ d = c THEN more ELSE Shelf(u, d)
        /\ \A d \in Classes : Shelf(NULL, d) = central[d] /\ Shelf(NULL, d)' = central'[d]
    BY <1>1, <1>2, <1>4, <1>6, <1>8, <1>9, ShelfAfter
  <2> QED
    BY <1>5, <1>9, <2>1 DEF Owners
<1>12. \A u \in Owners, d \in Classes :
         /\ ToSet(Shelf(u, d)') = IF u = t /\ d = c THEN ToSet(q) \cup {o} ELSE ToSet(Shelf(u, d))
         /\ IsInjective(Shelf(u, d)')
  <2> SUFFICES ASSUME NEW u \in Owners, NEW d \in Classes
               PROVE  /\ ToSet(Shelf(u, d)') = IF u = t /\ d = c THEN ToSet(q) \cup {o}
                                                                 ELSE ToSet(Shelf(u, d))
                      /\ IsInjective(Shelf(u, d)')
    OBVIOUS
  <2>1. CASE u = t /\ d = c
    BY <1>8, <1>11, <2>1
  <2>2. CASE ~(u = t /\ d = c)
    <3>1. Shelf(u, d)' = Shelf(u, d)
      BY <1>11, <2>2
    <3>2. IsInjective(Shelf(u, d))
      BY <1>1 DEF ApartInv
    <3> QED
      BY <2>2, <3>1, <3>2
  <2> QED
    BY <2>1, <2>2
<1>13. \A u \in Owners, d \in Classes : \A p \in ToSet(Shelf(u, d)') :
         p \in ToSet(Shelf(u, d)) \/ (p = o /\ u = t /\ d = c)
  BY <1>7, <1>12
<1>14. /\ \A u \in Threads : /\ pc'[u] = IF u = t THEN "idle" ELSE pc[u]
                             /\ req'[u] = IF u = t THEN 0 ELSE req[u]
                             /\ ptr'[u] = IF u = t THEN NoObject ELSE ptr[u]
       /\ PhaseInv' /\ CarvedObjs' = CarvedObjs
  BY <1>1, <1>2, FreedFacts
<1>15. TypeOK'
  <2>1. /\ pc' \in [Threads -> {"start", "join", "idle", "alloc", "filled", "find", "push", "crash", "wild"}]
        /\ req' \in [Threads -> {0} \cup Sizes \cup {ObjSize(n) : n \in Sizes}]
        /\ ptr' \in [Threads -> Objs \cup {NoObject}]
    BY <1>1, <1>2, FreedFacts
  <2> QED
    BY <1>1, <1>9, <1>10, <2>1 DEF TypeOK, Cache
<1>16. OwnInv'
  BY <1>1, <1>2, <1>9, <1>10, OwnKept
<1>17. CarvedInv'
  <2>1. \A u \in Owners, d \in Classes : \A p \in ToSet(Shelf(u, d)') :
          p \in CarvedObjs /\ spanSize[p[1]] = SizeOf(d)
    BY <1>1, <1>3, <1>4, <1>13 DEF CarvedInv
  <2> QED
    BY <1>1, <1>9, <1>14, <2>1 DEF CarvedInv
<1>18. ApartInv'
  <2>1. /\ \A u \in Owners, d \in Classes : o \notin ToSet(Shelf(u, d))
        /\ \A l \in live : l.obj # o
        /\ \A u \in Threads : u # t => ptr[u] # o
    BY <1>1, <1>3 DEF ApartInv, o
  <2>2. \A u \in Owners, d \in Classes : IsInjective(Shelf(u, d)')
    BY <1>12
  <2>3. \A u, v \in Owners, b, d \in Classes : \A p \in ToSet(Shelf(u, b)') :
          p \in ToSet(Shelf(v, d)') => u = v /\ b = d
    BY <1>1, <1>13, <2>1 DEF ApartInv
  <2>4. \A u \in Threads : ptr'[u] = ptr[u] \/ ptr'[u] = NoObject
    BY <1>14
  <2>5. \A p \in CarvedObjs : p # NoObject
    <3>1. CarvedObjs \subseteq (1 .. Len(spanSize)) \X (1 .. ObjsPerSpan)
      BY <1>1 DEF CarvedObjs, TypeOK
    <3> QED
      BY <3>1 DEF NoObject
  <2>6. \A u \in Owners, d \in Classes : \A p \in ToSet(Shelf(u, d)') :
          (\A l \in live : l.obj # p) /\ (\A v \in Threads : ptr'[v] # p)
    <3> SUFFICES ASSUME NEW u \in Owners, NEW d \in Classes, NEW p \in ToSet(Shelf(u, d)')
                 PROVE  (\A l \in live : l.obj # p) /\ (\A v \in Threads : ptr'[v] # p)
      OBVIOUS
    <3>1. p # NoObject
      <4>1. p \in CarvedObjs
        BY <1>1, <1>3, <1>13 DEF CarvedInv
      <4> QED
        BY <2>5, <4>1
    <3>2. CASE p \in ToSet(Shelf(u, d))
      <4>1. (\A l \in live : l.obj # p) /\ (\A v \in Threads : ptr[v] # p)
        BY <1>1, <3>2 DEF ApartInv
      <4> QED
        BY <2>4, <3>1, <4>1
    <3>3. CASE p = o
      BY <1>3, <1>14, <2>1, <3>3
    <3> QED
      BY <1>13, <3>2, <3>3
  <2>7. \A l \in live, u \in Threads : l.obj # ptr'[u]
    BY <1>1, <2>4, <2>5 DEF ApartInv, CarvedInv
  <2>8. \A u, v \in Threads : ptr'[u] = ptr'[v] /\ ptr'[u] # NoObject => u = v
    BY <1>1, <1>14 DEF ApartInv
  <2>9. \A l, m \in live : l.obj = m.obj => l = m
    BY <1>1 DEF ApartInv
  <2> QED
    BY <1>9, <2>2, <2>3, <2>6, <2>7, <2>8, <2>9 DEF ApartInv
<1>19. KeptInv'
  <2> SUFFICES ASSUME NEW p \in CarvedObjs, Safe(p)
               PROVE  \/ \E l \in live : l.obj = p
                      \/ \E u \in Threads : ptr'[u] = p
                      \/ \E u \in Owners, d \in Classes : p \in ToSet(Shelf(u, d)')
    BY <1>9, <1>14 DEF KeptInv, Safe
  <2>1. CASE p = o
    <3>1. \A u \in Owners, d \in Classes : u = t /\ d = c => p \in ToSet(Shelf(u, d)')
      BY <1>12, <2>1
    <3> QED
      BY <1>4, <1>5, <3>1
  <2>2. CASE p # o
    <3>1. \A u \in Threads : ptr[u] = p => ptr'[u] = p
      BY <1>14, <2>2 DEF o
    <3>2. ASSUME NEW u \in Owners, NEW d \in Classes, p \in ToSet(Shelf(u, d))
          PROVE  p \in ToSet(Shelf(u, d)')
      <4>1. CASE u = t /\ d = c
        <5>1. spanSize[p[1]] = SizeOf(c)
          BY <1>1, <3>2, <4>1 DEF CarvedInv
        <5>2. c \in Untouched
          BY <1>4, <5>1 DEF Safe
        <5> QED
          BY <1>6, <1>12, <3>2, <4>1, <5>2
      <4>2. CASE ~(u = t /\ d = c)
        BY <1>12, <3>2, <4>2
      <4> QED
        BY <4>1, <4>2
    <3> QED
      BY <1>1, <3>1, <3>2 DEF KeptInv
  <2> QED
    BY <2>1, <2>2
<1>20. LengthInv'
  <2> SUFFICES ASSUME NEW u \in Threads, NEW d \in Classes, mine[u] # 0
               PROVE  /\ Filling(u, d)' => Length(u, d)' = 0 /\ Len(Own(u, d)') = Batch
                      /\ d \in Untouched => /\ OwnEnd(u, d)' = NoPtr
                                            /\ ~Filling(u, d)' => Length(u, d)' = Len(Own(u, d)')
    BY <1>9 DEF LengthInv, Untouched
  <2>1. Filling(u, d)' <=> Filling(u, d)
    BY <1>2, <1>14 DEF Filling
  <2>2. CASE u = t /\ d = c
    <3>1. ~Filling(t, c)
      BY <1>2 DEF Filling
    <3>2. c \in Untouched => Length(t, c) = Len(q) /\ z = NoPtr
      BY <1>1, <1>4, <1>5, <1>6, <3>1 DEF LengthInv
    <3>3. Length(u, d)' = Length(t, c) + 1 /\ Own(u, d)' = more /\ OwnEnd(u, d)' = z
      BY <1>4, <1>5, <1>10, <2>2 DEF len
    <3> QED
      BY <1>6, <1>8, <2>1, <2>2, <3>1, <3>2, <3>3
  <2>3. CASE u = t /\ d # c
    <3>1. ~Filling(u, d)
      BY <1>2, <2>3 DEF Filling
    <3>2. /\ Own(u, d)' = Own(u, d) /\ OwnEnd(u, d)' = OwnEnd(u, d)
          /\ d \in Untouched => Length(u, d)' = Length(u, d)
      BY <1>10, <2>3
    <3> QED
      BY <1>1, <2>1, <3>1, <3>2 DEF LengthInv
  <2>4. CASE u # t
    <3>1. Own(u, d)' = Own(u, d) /\ OwnEnd(u, d)' = OwnEnd(u, d) /\ Length(u, d)' = Length(u, d)
      BY <1>10, <2>4
    <3> QED
      BY <1>1, <2>1, <3>1 DEF LengthInv
  <2> QED
    BY <2>2, <2>3, <2>4
<1> QED
  BY <1>14, <1>15, <1>16, <1>17, <1>18, <1>19, <1>20 DEF IInv

-----------------------------------------------------------------------------
(* A batch moves from the central list into a cache.                        *)

(* The loop takes spans until there are enough objects, and no more.        *)
LEMMA SpansNeeded ==
  ASSUME TypeOK, NEW c \in Classes
  PROVE  /\ NewSpans(c) \in Nat
         /\ Len(central[CentralOf(c)]) + NewSpans(c) * ObjsPerSpan >= Batch
         /\ Len(central[CentralOf(c)]) + NewSpans(c) * ObjsPerSpan < Batch + ObjsPerSpan
         /\ Len(central[CentralOf(c)]) \in Nat /\ NewSpans(c) * ObjsPerSpan \in Nat
<1> DEFINE len == Len(central[CentralOf(c)])
           n == ObjsPerSpan
           S == {m \in Nat : len + m * n >= Batch}
           k == Min(S)
           Right(m) == len + m * n >= Batch /\ (m > 0 => len + (m - 1) * n < Batch)
           m0 == NewSpans(c)
<1>1. len \in Nat /\ n \in Nat \ {0} /\ Batch \in Nat \ {0} /\ len < n
  BY CentralOfClass, ThreadCacheAssumption DEF TypeOK
<1> HIDE DEF len, n
<1>2. \A m \in Nat : m * n \in Nat /\ m <= m * n
  <2> SUFFICES ASSUME NEW m \in Nat PROVE m * n \in Nat /\ m <= m * n
    OBVIOUS
  <2>1. m * n \in Nat
    BY <1>1, Z3
  <2>2. m <= m * n
    BY <1>1, Z3
  <2> QED
    BY <2>1, <2>2
<1>3. Batch \in S
  BY <1>1, <1>2
<1>4. k \in S /\ \A m \in S : k <= m
  <2>1. S \in SUBSET Nat /\ S # {}
    BY <1>3
  <2> HIDE DEF S
  <2> QED
    BY <2>1, MinOfNat
<1>5. k \in 0 .. Batch /\ len + k * n >= Batch
  BY <1>1, <1>3, <1>4
<1>6. k > 0 => len + (k - 1) * n < Batch
  <2> SUFFICES ASSUME k > 0 PROVE len + (k - 1) * n < Batch
    OBVIOUS
  <2> DEFINE j == k - 1
  <2>1. j \in Nat /\ j < k
    BY <1>5
  <2> HIDE DEF k
  <2>2. j \notin S
    BY <1>4, <1>5, <2>1
  <2>3. ~(len + j * n >= Batch) /\ j * n \in Nat
    BY <1>2, <2>1, <2>2
  <2> HIDE DEF j, S
  <2>4. len + j * n < Batch
    BY <1>1, <2>3
  <2> QED
    BY <2>4 DEF j
<1>7. \E m \in 0 .. Batch : Right(m)
  <2> HIDE DEF k
  <2> QED
    BY <1>5, <1>6
<1>8. m0 \in 0 .. Batch /\ Right(m0)
  <2>1. m0 = CHOOSE m \in 0 .. Batch : Right(m)
    BY DEF NewSpans, len, n
  <2> HIDE DEF Right, m0
  <2> QED
    BY <1>7, <2>1
<1> HIDE DEF m0
<1>9. m0 \in Nat /\ m0 * n \in Nat
  BY <1>1, <1>2, <1>8
<1>10. len + m0 * n < Batch + n
  <2>1. CASE m0 = 0
    <3>1. m0 * n = 0
      BY <1>1, <2>1
    <3> QED
      BY <1>1, <3>1
  <2>2. CASE m0 > 0
    <3> DEFINE p == m0 * n
    <3>1. (m0 - 1) * n = m0 * n - n
      BY <1>1, <1>9, Z3
    <3>2. len + (p - n) < Batch
      BY <1>8, <2>2, <3>1
    <3>3. p \in Nat
      BY <1>9
    <3> HIDE DEF p
    <3>4. len + p < Batch + n
      BY <1>1, <3>2, <3>3
    <3> QED
      BY <3>4 DEF p
  <2> QED
    BY <1>9, <2>1, <2>2
<1> QED
  BY <1>1, <1>8, <1>9, <1>10 DEF len, n, m0

(* What is cut from m spans: every position of each, once.                  *)
LEMMA WhatIsCarved ==
  ASSUME TypeOK, NEW m \in Nat, Len(spanSize) + m <= MaxSpans
  PROVE  /\ Carved(m) \in Seq(Objs) /\ Len(Carved(m)) = m * ObjsPerSpan
         /\ IsInjective(Carved(m))
         /\ ToSet(Carved(m)) = (Len(spanSize) + 1 .. Len(spanSize) + m) \X (1 .. ObjsPerSpan)
<1> DEFINE n == ObjsPerSpan
           b == Len(spanSize)
           q == Carved(m)
           len == m * n
           T == (b + 1 .. b + m) \X (1 .. n)
           row(k) == (k - 1) \div n
           place(k) == (k - 1) % n
<1>1. n \in Nat \ {0} /\ b \in Nat /\ MaxSpans \in Nat /\ b + m <= MaxSpans
  BY ThreadCacheAssumption DEF TypeOK
<1>2. len \in Nat
  BY <1>1, Z3
<1>3. q = [k \in 1 .. len |-> <<b + 1 + row(k), 1 + place(k)>>]
  BY DEF Carved
<1> HIDE DEF n, b, q, len
<1>4. \A k \in 1 .. len : /\ row(k) \in 0 .. m - 1 /\ place(k) \in 0 .. n - 1
                          /\ k = n * row(k) + place(k) + 1
  <2> SUFFICES ASSUME NEW k \in 1 .. len
               PROVE  /\ row(k) \in 0 .. m - 1 /\ place(k) \in 0 .. n - 1
                      /\ k = n * row(k) + place(k) + 1
    OBVIOUS
  <2> DEFINE x == k - 1
  <2>1. x \in Nat /\ x < len
    BY <1>2
  <2>2. x < m * n
    BY <2>1 DEF len
  <2> HIDE DEF x
  <2>3. x \div n \in Nat /\ x % n \in 0 .. n - 1 /\ x = n * (x \div n) + (x % n)
    BY <1>1, <2>1, RowAndPlace
  <2>4. x \div n < m
    BY <1>1, <2>1, <2>2, RowWithin
  <2>5. x \div n = row(k) /\ x % n = place(k) /\ k = x + 1
    BY DEF x
  <2> HIDE DEF row, place
  <2>6. row(k) \in 0 .. m - 1 /\ place(k) \in 0 .. n - 1
    BY <2>3, <2>4, <2>5
  <2> QED
    BY <2>3, <2>5, <2>6
<1>5. \A i \in 0 .. m - 1, j \in 0 .. n - 1 : \E k \in 1 .. len : row(k) = i /\ place(k) = j
  <2> SUFFICES ASSUME NEW i \in 0 .. m - 1, NEW j \in 0 .. n - 1
               PROVE  \E k \in 1 .. len : row(k) = i /\ place(k) = j
    OBVIOUS
  <2> DEFINE x == i * n + j
  <2>1. x \in Nat /\ x < m * n /\ x \div n = i /\ x % n = j
    BY <1>1, NumberOf
  <2> HIDE DEF x
  <2>2. x + 1 \in 1 .. len /\ (x + 1) - 1 = x
    BY <1>2, <2>1 DEF len
  <2> QED
    BY <2>1, <2>2
<1> HIDE DEF row, place
<1>6. \A k \in 1 .. len : q[k] = <<b + 1 + row(k), 1 + place(k)>>
  BY <1>3
<1>7. \A k \in 1 .. len : q[k] \in T
  <2> SUFFICES ASSUME NEW k \in 1 .. len PROVE q[k] \in T
    OBVIOUS
  <2>1. row(k) \in 0 .. m - 1 /\ place(k) \in 0 .. n - 1
    BY <1>4
  <2>2. b + 1 + row(k) \in b + 1 .. b + m
    BY <1>1, <2>1
  <2>3. 1 + place(k) \in 1 .. n
    BY <1>1, <2>1
  <2> DEFINE i == b + 1 + row(k)
             j == 1 + place(k)
  <2>4. q[k] = <<i, j>>
    BY <1>6
  <2> HIDE DEF i, j
  <2>5. <<i, j>> \in T
    BY <2>2, <2>3 DEF i, j
  <2> QED
    BY <2>4, <2>5
<1>8. T \subseteq Objs
  <2>1. b + 1 .. b + m \subseteq 1 .. MaxSpans
    BY <1>1
  <2> QED
    BY <2>1 DEF Objs, n
<1>9. q \in Seq(Objs) /\ Len(q) = len /\ DOMAIN q = 1 .. len
  <2>1. q \in [1 .. len -> Objs]
    BY <1>3, <1>6, <1>7, <1>8
  <2> QED
    BY <1>2, <2>1, SeqOfFunction
<1>10. IsInjective(q)
  <2> SUFFICES ASSUME NEW k \in 1 .. len, NEW l \in 1 .. len, q[k] = q[l] PROVE k = l
    BY <1>9 DEF IsInjective
  <2>1. b + 1 + row(k) = b + 1 + row(l) /\ 1 + place(k) = 1 + place(l)
    BY <1>6
  <2>2. row(k) \in Int /\ row(l) \in Int /\ place(k) \in Int /\ place(l) \in Int
    BY <1>4
  <2>3. row(k) = row(l) /\ place(k) = place(l)
    BY <1>1, <2>1, <2>2
  <2> QED
    BY <1>4, <2>3
<1>11. T \subseteq ToSet(q)
  <2> SUFFICES ASSUME NEW i \in b + 1 .. b + m, NEW j \in 1 .. n PROVE <<i, j>> \in ToSet(q)
    OBVIOUS
  <2>1. i - b - 1 \in 0 .. m - 1 /\ j - 1 \in 0 .. n - 1
    BY <1>1
  <2>2. PICK k \in 1 .. len : row(k) = i - b - 1 /\ place(k) = j - 1
    BY <1>5, <2>1
  <2>3. b + 1 + row(k) = i /\ 1 + place(k) = j
    BY <1>1, <2>2
  <2>4. q[k] = <<i, j>>
    BY <1>6, <2>3
  <2> QED
    BY <1>9, <2>4 DEF ToSet
<1>12. ToSet(q) \subseteq T
  BY <1>7, <1>9 DEF ToSet
<1> QED
  BY <1>9, <1>10, <1>11, <1>12 DEF q, len, n, b

(* The objects the next m spans will have.                                  *)
Fresh(m) == (Len(spanSize) + 1 .. Len(spanSize) + m) \X (1 .. ObjsPerSpan)

LEMMA FreshIsNew ==
  ASSUME TypeOK, NEW m \in Nat
  PROVE  Fresh(m) \cap CarvedObjs = {}
<1> DEFINE b == Len(spanSize)
<1>1. b \in Nat /\ DOMAIN spanSize = 1 .. b
  BY DEF TypeOK
<1> HIDE DEF b
<1>2. (b + 1 .. b + m) \cap (1 .. b) = {}
  BY <1>1
<1> QED
  BY <1>1, <1>2 DEF Fresh, CarvedObjs, b

(* The supply is what the central list has and what the new spans give, and *)
(* it is cut after the batch.                                               *)
LEMMA BatchAndRest ==
  ASSUME TypeOK, CarvedInv, ApartInv, NEW c \in Classes,
         Len(spanSize) + NewSpans(c) <= MaxSpans
  PROVE  LET a == SubSeq(Supply(c), 1, Batch)
             b == SubSeq(Supply(c), Batch + 1, Len(Supply(c)))
         IN  /\ a \in Seq(Objs) /\ IsInjective(a) /\ Len(a) = Batch
             /\ b \in Seq(Objs) /\ IsInjective(b) /\ Len(b) < ObjsPerSpan
             /\ ToSet(a) \cap ToSet(b) = {}
             /\ ToSet(a) \cup ToSet(b) = ToSet(central[CentralOf(c)]) \cup Fresh(NewSpans(c))
<1> DEFINE m == NewSpans(c)
           q == Supply(c)
           old == central[CentralOf(c)]
           new == Carved(m)
           len == Len(q)
           a == SubSeq(q, 1, Batch)
           b == SubSeq(q, Batch + 1, len)
<1>1. /\ m \in Nat
      /\ Len(old) + m * ObjsPerSpan >= Batch
      /\ Len(old) + m * ObjsPerSpan < Batch + ObjsPerSpan
      /\ Len(old) \in Nat /\ m * ObjsPerSpan \in Nat
  BY SpansNeeded
<1> HIDE DEF m
<1>2. /\ new \in Seq(Objs) /\ Len(new) = m * ObjsPerSpan /\ IsInjective(new)
      /\ ToSet(new) = Fresh(m)
  BY <1>1, WhatIsCarved DEF Fresh, m
<1>3. old \in Seq(Objs) /\ IsInjective(old) /\ ToSet(old) \subseteq CarvedObjs
  <2>1. NULL \in Owners /\ CentralOf(c) \in Classes /\ Shelf(NULL, CentralOf(c)) = old
    BY CentralOfClass DEF Owners, Shelf
  <2>2. old \in Seq(Objs)
    BY <2>1 DEF TypeOK
  <2> QED
    BY <2>1, <2>2 DEF CarvedInv, ApartInv
<1>4. ToSet(old) \cap ToSet(new) = {}
  BY <1>1, <1>2, <1>3, FreshIsNew
<1>5. q = old \o new
  BY DEF Supply, m
<1> HIDE DEF old, new, q
<1>6. /\ q \in Seq(Objs) /\ IsInjective(q) /\ len = Len(old) + Len(new)
      /\ ToSet(q) = ToSet(old) \cup ToSet(new)
  <2>1. old \in Seq(Objs) /\ new \in Seq(Objs)
    BY <1>2, <1>3
  <2>2. IsInjective(old) /\ IsInjective(new)
    BY <1>2, <1>3
  <2>3. /\ old \o new \in Seq(Objs) /\ IsInjective(old \o new)
        /\ Len(old \o new) = Len(old) + Len(new)
        /\ ToSet(old \o new) = ToSet(old) \cup ToSet(new)
    BY ONLY <1>4, <2>1, <2>2, Concatenation
  <2> QED
    BY <1>5, <2>3
<1>7. Batch \in Nat /\ ObjsPerSpan \in Nat
  BY ThreadCacheAssumption
<1>8. Batch \in 0 .. len /\ len \in Nat /\ len - Batch < ObjsPerSpan
  <2> DEFINE n == m * ObjsPerSpan
  <2>1. len = Len(old) + n /\ n \in Nat /\ Len(old) + n >= Batch /\ Len(old) + n < Batch + ObjsPerSpan
    BY <1>1, <1>2, <1>6
  <2> HIDE DEF n, len
  <2> QED
    BY <1>1, <1>7, <2>1
<1>9. /\ a \in Seq(Objs) /\ IsInjective(a) /\ Len(a) = Batch
      /\ b \in Seq(Objs) /\ IsInjective(b) /\ Len(b) = len - Batch
      /\ ToSet(a) \cap ToSet(b) = {} /\ ToSet(a) \cup ToSet(b) = ToSet(q)
  BY <1>6, <1>8, CutInTwo
<1> HIDE DEF a, b
<1> QED
  BY <1>2, <1>6, <1>8, <1>9 DEF a, b, len, q, old, m

LEMMA RefillStep == ASSUME IInv, NEW t \in Threads, Refill(t) PROVE IInv'
<1>1. TypeOK /\ OwnInv /\ PhaseInv /\ CarvedInv /\ ApartInv /\ KeptInv /\ LengthInv
  BY DEF IInv
<1>2. pc[t] = "alloc" /\ req[t] \in Sizes
  BY <1>1 DEF Refill, PhaseInv
<1>3. PICK c \in Classes : c = AllocClass(req[t])
  BY <1>2, ClassOf
<1>29. PICK cc \in Classes : cc = CentralOf(c) /\ SizeOf(cc) = SizeOf(c)
  BY CentralOfClass
<1>4. PICK m \in Nat : m = NewSpans(c)
  BY <1>1, SpansNeeded
<1>5. PICK sz : sz = ObjSize(req[t])
  OBVIOUS
<1> DEFINE len == Len(spanSize)
           a0 == SubSeq(Supply(c), 1, Batch)
           b0 == SubSeq(Supply(c), Batch + 1, Len(Supply(c)))
           old == ToSet(central[cc])
           new == Fresh(m)
<1>6. /\ Length(t, c) = 0 /\ len + m <= MaxSpans
      /\ spanSize' = spanSize \o [k \in 1 .. m |-> sz]
      /\ Store(t, c, a0, NoPtr, 0) /\ central' = [central EXCEPT ![cc] = b0]
      /\ Goto(t, "filled") /\ UNCHANGED <<live, mine, req, ptr>>
  BY <1>3, <1>4, <1>5, <1>29 DEF Refill
<1>7. /\ a0 \in Seq(Objs) /\ IsInjective(a0) /\ Len(a0) = Batch
      /\ b0 \in Seq(Objs) /\ IsInjective(b0) /\ Len(b0) < ObjsPerSpan
      /\ ToSet(a0) \cap ToSet(b0) = {}
      /\ ToSet(a0) \cup ToSet(b0) = old \cup new
  BY <1>1, <1>4, <1>6, <1>29, BatchAndRest
<1> HIDE DEF a0, b0, new
<1>8. PICK a \in Seq(Objs), b \in Seq(Objs) : a = a0 /\ b = b0
  BY <1>7
<1>9. /\ IsInjective(a) /\ Len(a) = Batch /\ IsInjective(b) /\ Len(b) < ObjsPerSpan
      /\ ToSet(a) \cap ToSet(b) = {} /\ ToSet(a) \cup ToSet(b) = old \cup new
      /\ Store(t, c, a, NoPtr, 0) /\ central' = [central EXCEPT ![cc] = b]
  BY <1>6, <1>7, <1>8
<1>10. NoPtr \in Word /\ t \in Owners /\ NULL \in Owners /\ t # NULL
  BY ThreadCacheAssumption DEF Owners, NoPtr, Word
\* The spans.
<1>11. /\ len \in Nat /\ MaxSpans \in Nat /\ DOMAIN spanSize = 1 .. len
       /\ sz \in {ObjSize(n) : n \in Sizes} /\ sz = SizeOf(c) /\ spanSize \in Seq({ObjSize(n) : n \in Sizes})
  BY <1>1, <1>2, <1>3, <1>5, ClassOf, ThreadCacheAssumption DEF TypeOK
<1>12. /\ spanSize' \in Seq({ObjSize(n) : n \in Sizes}) /\ Len(spanSize') = len + m
       /\ \A k \in 1 .. len : spanSize'[k] = spanSize[k]
       /\ \A k \in len + 1 .. len + m : spanSize'[k] = sz
  <2> DEFINE more == [k \in 1 .. m |-> sz]
             S == {ObjSize(n) : n \in Sizes}
  <2>1. more \in [1 .. m -> S] /\ \A k \in 1 .. m : more[k] = sz
    BY <1>11
  <2> HIDE DEF S, more
  <2>2. more \in Seq(S) /\ Len(more) = m
    BY <2>1, SeqOfFunction
  <2>3. spanSize \in Seq(S) /\ spanSize' = spanSize \o more
    BY <1>6, <1>11 DEF S, more
  <2>4. /\ spanSize' \in Seq(S) /\ Len(spanSize') = len + m
        /\ \A k \in 1 .. len + m : spanSize'[k] = IF k <= len THEN spanSize[k] ELSE more[k - len]
    BY <2>2, <2>3, ConcatProperties
  <2> HIDE DEF len
  <2>5. \A k \in 1 .. len : k \in 1 .. len + m /\ k <= len
    BY <1>11
  <2>6. \A k \in len + 1 .. len + m : k \in 1 .. len + m /\ ~(k <= len) /\ k - len \in 1 .. m
    BY <1>11
  <2> QED
    BY <2>1, <2>4, <2>5, <2>6 DEF S, len
<1> HIDE DEF len
<1>13. /\ CarvedObjs' = CarvedObjs \cup new /\ CarvedObjs \cap new = {}
       /\ \A p \in CarvedObjs : spanSize'[p[1]] = spanSize[p[1]] /\ p # NoObject
       /\ \A p \in new : spanSize'[p[1]] = sz /\ p # NoObject
  <2>1. DOMAIN spanSize' = 1 .. len + m
    BY <1>12, LenProperties
  <2>2. CarvedObjs = (1 .. len) \X (1 .. ObjsPerSpan) /\ CarvedObjs' = (1 .. len + m) \X (1 .. ObjsPerSpan)
    BY <1>11, <2>1 DEF CarvedObjs
  <2>3. new = (len + 1 .. len + m) \X (1 .. ObjsPerSpan)
    BY DEF new, Fresh, len
  <2>4. 1 .. len + m = (1 .. len) \cup (len + 1 .. len + m)
    BY <1>11
  <2>5. CarvedObjs' = CarvedObjs \cup new
    BY <2>2, <2>3, <2>4
  <2>6. CarvedObjs \cap new = {}
    BY <1>1, FreshIsNew DEF new
  <2>7. \A p \in CarvedObjs : p[1] \in 1 .. len /\ p # NoObject
    BY <1>11, <2>2 DEF NoObject
  <2>8. \A p \in new : p[1] \in len + 1 .. len + m /\ p # NoObject
    BY <1>11, <2>3 DEF NoObject
  <2> QED
    BY <1>12, <2>5, <2>6, <2>7, <2>8
\* The shelves.
<1>14. /\ caches' \in Seq(Cache) /\ Len(caches') = Len(caches)
       /\ \A k \in 1 .. Len(caches) : /\ caches'[k].tid = caches[k].tid
                                      /\ k # mine[t] => caches'[k] = caches[k]
       /\ \A u \in Threads, d \in Classes : mine[u] # 0 =>
            /\ Own(u, d)' = IF u = t /\ d = c THEN a ELSE Own(u, d)
            /\ OwnEnd(u, d)' = IF u = t /\ d = c THEN NoPtr ELSE OwnEnd(u, d)
            /\ u = t /\ d = c => Length(u, d)' = 0
            /\ u # t \/ (d # c /\ d \in Untouched) => Length(u, d)' = Length(u, d)
  <2>1. PICK n \in Int : n = 0
    OBVIOUS
  <2>2. Store(t, c, a, NoPtr, n) /\ mine' = mine /\ pc[t] \notin {"start", "join"}
    BY <1>2, <1>6, <1>9, <2>1
  <2>3. /\ caches' \in Seq(Cache) /\ Len(caches') = Len(caches)
        /\ \A k \in 1 .. Len(caches) : /\ caches'[k].tid = caches[k].tid
                                       /\ k # mine[t] => caches'[k] = caches[k]
        /\ \A u \in Threads, d \in Classes : mine[u] # 0 =>
             /\ Own(u, d)' = IF u = t /\ d = c THEN a ELSE Own(u, d)
             /\ OwnEnd(u, d)' = IF u = t /\ d = c THEN NoPtr ELSE OwnEnd(u, d)
             /\ u = t /\ d = c => Length(u, d)' = n
             /\ u # t \/ (d # c /\ d \in Untouched) => Length(u, d)' = Length(u, d)
    BY <1>1, <1>10, <2>2, StoreFacts
  <2> QED
    BY <2>1, <2>3
<1>15. /\ mine[t] # 0 /\ Shelf(t, c) = Own(t, c)
       /\ \A u \in Threads, d \in Classes : Shelf(u, d)' = IF u = t /\ d = c THEN a ELSE Shelf(u, d)
       /\ \A d \in Classes : Shelf(NULL, d) = central[d] /\ Shelf(NULL, d)' = central'[d]
  BY <1>1, <1>2, <1>6, <1>9, <1>10, ShelfAfter
<1>16. c \in Untouched => Shelf(t, c) = <<>>
  <2>1. ~Filling(t, c)
    BY <1>2 DEF Filling
  <2>2. c \in Untouched => Len(Own(t, c)) = 0
    BY <1>1, <1>6, <1>15, <2>1 DEF LengthInv
  <2>3. Own(t, c) \in Seq(Objs)
    BY <1>1, <1>15, WhatIsSeen
  <2> QED
    BY <1>15, <2>2, <2>3, EmptySeq
<1>17. \A d \in Classes : central'[d] = IF d = cc THEN b ELSE central[d]
  BY <1>1, <1>9 DEF TypeOK
<1> DEFINE near(u, d) == (u = t /\ d = c) \/ (u = NULL /\ d = cc)
<1>18. \A u \in Owners, d \in Classes :
         /\ Shelf(u, d)' = IF near(u, d) THEN (IF u = t THEN a ELSE b) ELSE Shelf(u, d)
         /\ IsInjective(Shelf(u, d)')
  <2> SUFFICES ASSUME NEW u \in Owners, NEW d \in Classes
               PROVE  /\ Shelf(u, d)' = IF near(u, d) THEN (IF u = t THEN a ELSE b) ELSE Shelf(u, d)
                      /\ IsInjective(Shelf(u, d)')
    OBVIOUS
  <2>1. Shelf(u, d)' = IF near(u, d) THEN (IF u = t THEN a ELSE b) ELSE Shelf(u, d)
    <3>1. CASE u = NULL
      BY <1>10, <1>15, <1>17, <3>1
    <3>2. CASE u # NULL
      BY <1>15, <3>2 DEF Owners
    <3> QED
      BY <3>1, <3>2
  <2>2. IsInjective(Shelf(u, d))
    BY <1>1 DEF ApartInv
  <2> QED
    BY <1>9, <2>1, <2>2
<1>19. /\ \A u \in Owners, d \in Classes : \A p \in ToSet(Shelf(u, d)) : p \in CarvedObjs
       /\ old = ToSet(Shelf(NULL, cc))
  BY <1>1, <1>15 DEF CarvedInv
<1>20. \A u \in Owners, d \in Classes : \A p \in ToSet(Shelf(u, d)') :
         /\ ~near(u, d) => p \in ToSet(Shelf(u, d))
         /\ near(u, d) => p \in new \/ p \in ToSet(Shelf(NULL, cc))
  BY <1>9, <1>18, <1>19
<1> HIDE DEF near, old
\* The conjuncts.
<1>21. \A u \in Threads : pc'[u] = IF u = t THEN "filled" ELSE pc[u]
  BY <1>1, <1>6 DEF TypeOK, Goto
<1>22. TypeOK'
  <2>1. pc' \in [Threads -> {"start", "join", "idle", "alloc", "filled", "find", "push", "crash", "wild"}]
    BY <1>1, <1>6 DEF TypeOK, Goto
  <2>2. central' \in [Classes -> Seq(Objs)]
    BY <1>1, <1>9 DEF TypeOK
  <2>3. \A d \in Classes : Len(central'[d]) < ObjsPerSpan
    BY <1>1, <1>9, <1>17 DEF TypeOK
  <2>4. Len(spanSize') <= MaxSpans
    BY <1>6, <1>12 DEF len
  <2> QED
    BY <1>1, <1>6, <1>12, <1>14, <2>1, <2>2, <2>3, <2>4 DEF TypeOK, Cache
<1>23. OwnInv'
  BY <1>1, <1>2, <1>6, <1>14, OwnKept
<1>24. PhaseInv'
  <2>1. \A u \in Threads : ptr[u] # NoObject => spanSize'[ptr[u][1]] = spanSize[ptr[u][1]]
    BY <1>1, <1>13 DEF CarvedInv
  <2> QED
    BY <1>1, <1>2, <1>6, <1>21, <2>1 DEF PhaseInv
<1>25. CarvedInv'
  <2>1. \A l \in live : l.obj \in CarvedObjs' /\ l.asked <= spanSize'[l.obj[1]]
    BY <1>1, <1>13 DEF CarvedInv
  <2>2. \A u \in Threads : ptr[u] # NoObject => ptr[u] \in CarvedObjs'
    BY <1>1, <1>13 DEF CarvedInv
  <2>3. ASSUME NEW u \in Owners, NEW d \in Classes, NEW p \in ToSet(Shelf(u, d)')
        PROVE  p \in CarvedObjs' /\ spanSize'[p[1]] = SizeOf(d)
    <3>1. CASE ~near(u, d)
      <4>1. p \in CarvedObjs /\ spanSize[p[1]] = SizeOf(d)
        BY <1>1, <1>20, <3>1 DEF CarvedInv
      <4> QED
        BY <1>13, <4>1
    <3>2. CASE near(u, d)
      <4>1. SizeOf(d) = SizeOf(c)
        BY <1>29, <3>2 DEF near
      <4>2. CASE p \in new
        BY <1>11, <1>13, <4>1, <4>2
      <4>3. CASE p \in ToSet(Shelf(NULL, cc))
        <5>1. p \in CarvedObjs /\ spanSize[p[1]] = SizeOf(c)
          BY <1>1, <1>10, <1>29, <4>3 DEF CarvedInv
        <5> QED
          BY <1>13, <4>1, <5>1
      <4> QED
        BY <1>20, <3>2, <4>2, <4>3
    <3> QED
      BY <3>1, <3>2
  <2> QED
    BY <1>6, <2>1, <2>2, <2>3 DEF CarvedInv
<1>26. ApartInv'
  <2>1. \A l \in live : l.obj \in CarvedObjs
    BY <1>1 DEF CarvedInv
  <2>2. \A u \in Threads : ptr[u] \in CarvedObjs \/ ptr[u] = NoObject
    BY <1>1 DEF CarvedInv
  <2>3. ASSUME NEW u \in Owners, NEW v \in Owners, NEW d \in Classes, NEW e \in Classes,
               NEW p \in ToSet(Shelf(u, d)'), p \in ToSet(Shelf(v, e)')
        PROVE  u = v /\ d = e
    <3>1. CASE near(u, d) /\ near(v, e)
      <4>1. /\ u \in {t, NULL} /\ v \in {t, NULL}
            /\ d = IF u = t THEN c ELSE cc
            /\ e = IF v = t THEN c ELSE cc
        BY <1>10, <3>1 DEF near
      <4>2. /\ Shelf(u, d)' = IF u = t THEN a ELSE b
            /\ Shelf(v, e)' = IF v = t THEN a ELSE b
        BY <1>18, <3>1
      <4>3. u = v
        BY <1>9, <2>3, <4>1, <4>2
      <4> QED
        BY <4>1, <4>3
    <3>2. CASE near(u, d) /\ ~near(v, e)
      <4>1. p \in ToSet(Shelf(v, e)) /\ p \in CarvedObjs
        BY <1>19, <1>20, <2>3, <3>2
      <4>2. p \in ToSet(Shelf(NULL, cc))
        BY <1>13, <1>20, <3>2, <4>1
      <4>3. v = NULL /\ e = cc
        BY <1>1, <1>10, <4>1, <4>2 DEF ApartInv
      <4> QED
        BY <3>2, <4>3 DEF near
    <3>3. CASE ~near(u, d) /\ near(v, e)
      <4>1. p \in ToSet(Shelf(u, d)) /\ p \in CarvedObjs
        BY <1>19, <1>20, <3>3
      <4>2. p \in ToSet(Shelf(NULL, cc))
        BY <1>13, <1>20, <2>3, <3>3, <4>1
      <4>3. u = NULL /\ d = cc
        BY <1>1, <1>10, <4>1, <4>2 DEF ApartInv
      <4> QED
        BY <3>3, <4>3 DEF near
    <3>4. CASE ~near(u, d) /\ ~near(v, e)
      <4>1. p \in ToSet(Shelf(u, d)) /\ p \in ToSet(Shelf(v, e))
        BY <1>20, <2>3, <3>4
      <4> QED
        BY <1>1, <4>1 DEF ApartInv
    <3> QED
      BY <3>1, <3>2, <3>3, <3>4
  <2>4. ASSUME NEW u \in Owners, NEW d \in Classes, NEW p \in ToSet(Shelf(u, d)')
        PROVE  (\A l \in live : l.obj # p) /\ (\A v \in Threads : ptr[v] # p)
    <3>1. CASE p \in new
      BY <1>13, <2>1, <2>2, <3>1
    <3>2. CASE \E v \in Owners, e \in Classes : p \in ToSet(Shelf(v, e))
      BY <1>1, <3>2 DEF ApartInv
    <3> QED
      BY <1>3, <1>10, <1>20, <3>1, <3>2
  <2>5. /\ \A l \in live, u \in Threads : l.obj # ptr[u]
        /\ \A u, v \in Threads : ptr[u] = ptr[v] /\ ptr[u] # NoObject => u = v
        /\ \A l, k \in live : l.obj = k.obj => l = k
    BY <1>1 DEF ApartInv
  <2>6. \A u \in Owners, d \in Classes : IsInjective(Shelf(u, d)')
    BY <1>18
  <2> QED
    BY <1>6, <2>3, <2>4, <2>5, <2>6 DEF ApartInv
<1>27. KeptInv'
  <2>1. \A p : p \in new \/ p \in ToSet(Shelf(NULL, cc)) =>
          \E u \in Owners, d \in Classes : p \in ToSet(Shelf(u, d)')
    <3>1. \A u \in Owners, d \in Classes : /\ u = t /\ d = c => Shelf(u, d)' = a
                                           /\ u = NULL /\ d = cc => Shelf(u, d)' = b
      BY <1>10, <1>18 DEF near
    <3>2. \A p : p \in new \/ p \in ToSet(Shelf(NULL, cc)) => p \in ToSet(a) \/ p \in ToSet(b)
      BY <1>9, <1>19
    <3>3. \A p \in ToSet(a) : \E u \in Owners, d \in Classes : p \in ToSet(Shelf(u, d)')
      BY <1>10, <3>1
    <3>4. \A p \in ToSet(b) : \E u \in Owners, d \in Classes : p \in ToSet(Shelf(u, d)')
      BY <1>10, <3>1
    <3> QED
      BY <3>2, <3>3, <3>4
  <2>2. ASSUME NEW u \in Owners, NEW d \in Classes, NEW p \in ToSet(Shelf(u, d)), Safe(p)
        PROVE  \E v \in Owners, e \in Classes : p \in ToSet(Shelf(v, e)')
    <3>1. CASE near(u, d)
      <4>1. ~(u = t /\ d = c)
        <5> SUFFICES ASSUME u = t, d = c PROVE FALSE
          OBVIOUS
        <5>1. spanSize[p[1]] = SizeOf(c)
          BY <1>1 DEF CarvedInv
        <5>2. c \in Untouched
          BY <2>2, <5>1 DEF Safe
        <5> QED
          BY <1>16, <5>2 DEF ToSet
      <4>2. p \in ToSet(Shelf(NULL, cc))
        BY <3>1, <4>1 DEF near
      <4> QED
        BY <2>1, <4>2
    <3>2. CASE ~near(u, d)
      BY <1>18, <3>2
    <3> QED
      BY <3>1, <3>2
  <2> SUFFICES ASSUME NEW p \in CarvedObjs', Safe(p)'
               PROVE  \/ \E l \in live : l.obj = p
                      \/ \E u \in Threads : ptr[u] = p
                      \/ \E u \in Owners, d \in Classes : p \in ToSet(Shelf(u, d)')
    BY <1>6 DEF KeptInv
  <2>3. CASE p \in new
    BY <2>1, <2>3
  <2>4. CASE p \in CarvedObjs
    <3>1. Safe(p)
      BY <1>13, <2>4 DEF Safe
    <3>2. \/ \E l \in live : l.obj = p
          \/ \E u \in Threads : ptr[u] = p
          \/ \E u \in Owners, d \in Classes : p \in ToSet(Shelf(u, d))
      BY <1>1, <2>4, <3>1 DEF KeptInv
    <3> QED
      BY <2>2, <3>1, <3>2
  <2> QED
    BY <1>13, <2>3, <2>4
<1>28. LengthInv'
  <2> SUFFICES ASSUME NEW u \in Threads, NEW d \in Classes, mine[u] # 0
               PROVE  /\ Filling(u, d)' => Length(u, d)' = 0 /\ Len(Own(u, d)') = Batch
                      /\ d \in Untouched => /\ OwnEnd(u, d)' = NoPtr
                                            /\ ~Filling(u, d)' => Length(u, d)' = Len(Own(u, d)')
    BY <1>6 DEF LengthInv, Untouched
  <2>1. CASE u = t /\ d = c
    <3>1. Filling(u, d)'
      BY <1>3, <1>6, <1>21, <2>1 DEF Filling
    <3> QED
      BY <1>9, <1>14, <2>1, <3>1
  <2>2. CASE u = t /\ d # c
    <3>1. ~Filling(u, d)' /\ ~Filling(u, d)
      BY <1>2, <1>3, <1>6, <1>21, <2>2 DEF Filling
    <3>2. /\ Own(u, d)' = Own(u, d) /\ OwnEnd(u, d)' = OwnEnd(u, d)
          /\ d \in Untouched => Length(u, d)' = Length(u, d)
      BY <1>14, <2>2
    <3> QED
      BY <1>1, <3>1, <3>2 DEF LengthInv
  <2>3. CASE u # t
    <3>1. Filling(u, d)' <=> Filling(u, d)
      BY <1>6, <1>21, <2>3 DEF Filling
    <3>2. Own(u, d)' = Own(u, d) /\ OwnEnd(u, d)' = OwnEnd(u, d) /\ Length(u, d)' = Length(u, d)
      BY <1>14, <2>3
    <3> QED
      BY <1>1, <3>1, <3>2 DEF LengthInv
  <2> QED
    BY <2>1, <2>2, <2>3
<1> QED
  BY <1>22, <1>23, <1>24, <1>25, <1>26, <1>27, <1>28 DEF IInv

-----------------------------------------------------------------------------
(* Every step of every thread keeps the invariant.                          *)
LEMMA NextStep == IInv /\ [Next]_vars => IInv'
<1> SUFFICES ASSUME IInv, [Next]_vars PROVE IInv'
  OBVIOUS
<1>1. CASE UNCHANGED vars
  <2>1. \A u \in Owners, c \in Classes : Shelf(u, c)' = Shelf(u, c)
    BY <1>1, ShelvesKept DEF vars
  <2>2. TypeOK' /\ OwnInv' /\ PhaseInv'
    BY <1>1 DEF IInv, TypeOK, OwnInv, PhaseInv, vars
  <2>3. CarvedInv' /\ ApartInv' /\ KeptInv'
    BY <1>1, <2>1, NothingMoved DEF IInv, vars
  <2>4. LengthInv'
    <3>1. \A u \in Threads, c \in Classes : /\ Own(u, c)' = Own(u, c) /\ OwnEnd(u, c)' = OwnEnd(u, c)
                                            /\ Length(u, c)' = Length(u, c)
      BY <1>1, ShelvesKept DEF vars
    <3>2. mine' = mine /\ \A u \in Threads, c \in Classes : Filling(u, c)' <=> Filling(u, c)
      BY <1>1 DEF vars, Filling
    <3> QED
      BY <3>1, <3>2 DEF IInv, LengthInv
  <2> QED
    BY <2>2, <2>3, <2>4 DEF IInv
<1>2. CASE Next
  <2> SUFFICES ASSUME NEW t \in Threads, Step(t) PROVE IInv'
    BY <1>2 DEF Next
  <2>1. CASE LinkCache(t)
    BY <2>1, LinkCacheStep
  <2>2. CASE WriteTid(t)
    BY <2>2, WriteTidStep
  <2>3. CASE \E n \in Sizes : Request(t, n)
    BY <2>3, RequestStep
  <2>4. CASE Refill(t)
    BY <2>4, RefillStep
  <2>5. CASE TakeCached(t)
    BY <2>5, TakeCachedStep
  <2>6. CASE TakeFilled(t)
    BY <2>6, TakeFilledStep
  <2>7. CASE \E l \in live : FindSize(t, l)
    BY <2>7, FindSizeStep
  <2>8. CASE FindCache(t)
    BY <2>8, FindCacheStep
  <2>9. CASE Push(t)
    BY <2>9, PushStep
  <2> QED
    BY <2>1, <2>2, <2>3, <2>4, <2>5, <2>6, <2>7, <2>8, <2>9 DEF Step
<1> QED
  BY <1>1, <1>2

(* The invariant holds in every state of every run of the allocator.        *)
THEOREM Invariance == Spec => []IInv
BY InitInv, NextStep, PTL DEF Spec

-----------------------------------------------------------------------------
(* The caches, the central lists and the requests have their types; a       *)
(* central list keeps less than one span from batch to batch                *)
(* (alloc_small_1, 2 and 3).                                                *)
THEOREM TypeCorrect == Spec => []TypeOK
<1>1. IInv => TypeOK
  BY DEF IInv
<1> QED
  BY Invariance, <1>1, PTL

(* A thread finds its own cache, whatever the others have linked and not    *)
(* yet signed with a tid (tc_thread_init; the searches of tc_malloc and     *)
(* tc_free).                                                                *)
THEOREM OwnCacheOnly == Spec => []OwnCache
<1>1. IInv => OwnCache
  BY OwnCacheHolds DEF IInv
<1> QED
  BY Invariance, <1>1, PTL

(* No object is handed out while a caller has it or a list holds it         *)
(* (tc_malloc and tc_free of small objects).                                *)
THEOREM NoObjectTwice == Spec => []NeverTwice
<1>1. IInv => NeverTwice
  BY NeverTwiceHolds DEF IInv
<1> QED
  BY Invariance, <1>1, PTL

(* Batches and returns lose no object of a size whose lists share their     *)
(* memory with no other list in use (tc_malloc and tc_free).                *)
THEOREM NoObjectLost == Spec => []NoneLost
<1>1. IInv => NoneLost
  BY NoneLostHolds DEF IInv
<1> QED
  BY Invariance, <1>1, PTL

(* The length of a list that shares its memory with no other list in use is *)
(* that of the list, except between the two parts of a refill, for requests *)
(* of every size, those of 64 and 2048 bytes with them.                     *)
THEOREM LengthsStayTrue == Spec => []LengthsTrue
<1>1. IInv => LengthsTrue
  BY LengthsTrueHolds DEF IInv
<1> QED
  BY Invariance, <1>1, PTL

(* An object is large enough for whoever holds it, also the second time it  *)
(* is handed out, and by another thread.                                    *)
THEOREM AlwaysLargeEnough == Spec => []LargeEnough
<1>1. IInv => LargeEnough
  BY LargeEnoughHolds DEF IInv
<1> QED
  BY Invariance, <1>1, PTL

(* Where NoCrash fails, a list at index -1 is to blame: when no two of the  *)
(* lists in use share memory, no thread ever takes the head of an empty     *)
(* list or of one that leads nowhere.                                       *)
THEOREM CrashNeedsBorder == Untouched = Classes => (Spec => []NoCrash)
<1> SUFFICES ASSUME Untouched = Classes PROVE Spec => []NoCrash
  OBVIOUS
<1>1. Init => Running
  BY DEF Init, Running
<1>2. IInv /\ Running /\ [Next]_vars => Running'
  <2> SUFFICES ASSUME IInv, Running, Next PROVE Running'
    BY DEF Running, vars
  <2>1. PICK t \in Threads : Step(t)
    BY DEF Next
  <2>2. TypeOK /\ LengthInv /\ PhaseInv /\ OwnInv
    BY DEF IInv
  <2>3. ASSUME NEW c, c = AllocClass(req[t]), pc[t] = "alloc", Length(t, c) # 0,
               List(t, c) = <<>>
        PROVE  FALSE
    <3>1. c \in Classes /\ mine[t] # 0
      BY <2>2, <2>3, ClassOf DEF PhaseInv, OwnInv
    <3>2. ~Filling(t, c)
      BY <2>3 DEF Filling
    <3>3. Length(t, c) = Len(Own(t, c)) /\ List(t, c) = Own(t, c)
      BY <2>2, <3>1, <3>2, WhatIsSeen DEF LengthInv
    <3> QED
      BY <2>3, <3>3
  <2>4. ~(TakeCached(t) /\ PopNothing(t, AllocClass(req[t])))
    BY <2>3 DEF TakeCached, PopNothing
  <2>5. \E x \in {"join", "idle", "alloc", "filled", "find", "push"} : Goto(t, x)
    <3>1. CASE TakeCached(t)
      BY <2>4, <3>1 DEF TakeCached, Pop
    <3>2. CASE ~TakeCached(t)
      BY <2>1, <3>2 DEF Step, LinkCache, WriteTid, Request, Refill, TakeFilled, Pop, FindSize,
                        FindCache, Push, Freed
    <3> QED
      BY <3>1, <3>2
  <2> QED
    BY <2>2, <2>5 DEF Goto, Running, TypeOK
<1> QED
  BY Invariance, <1>1, <1>2, PTL DEF Spec, NoCrash
=============================================================================
