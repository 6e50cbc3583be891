----------------------------- MODULE ThreadCache -----------------------------
(***************************************************************************)
(* Small objects in strings/tc_malloc.c: the list of thread caches, the    *)
(* free lists of each, and the central lists that refill them.             *)
(*                                                                         *)
(* s_lock guards the list of caches and the central lists; a cache's own   *)
(* free lists are touched by its thread alone, without the lock.  Each     *)
(* critical section is a step, and so is each run of code between two.     *)
(* tc_thread_init links the new cache under the lock and writes its tid    *)
(* after the unlock, so a search may meet a cache whose tid is still 0.    *)
(*                                                                         *)
(* Objects are pairs of a span and a position in it; a span's free list is *)
(* in the order of positions.  Left out: the recycled objects of a central *)
(* list (re_head_obj, num_re), which only tc_garbage_collect fills, and    *)
(* its call is commented out; and the lists of used-up spans (empty),      *)
(* which nothing reads.                                                    *)
(***************************************************************************)
EXTENDS SizeClass, Sequences, FiniteSets, SequencesExt, FiniteSetsExt

CONSTANTS
  Threads,
  Sizes,        \* the small sizes asked for
  Batch,        \* batch_size
  ObjsPerSpan,  \* objects a span is cut into
  MaxSpans,     \* bound for TLC: spans the page heap can give
  Addr,         \* the address of each object
  NULL

Objs == (1 .. MaxSpans) \X (1 .. ObjsPerSpan)

(* A word of memory that can hold a pointer: its lower and its upper half.  *)
Word  == Int \X Int
NoPtr == <<0, 0>>

ASSUME ThreadCacheAssumption ==
  /\ Sizes \subseteq 1 .. MaxSmall
  /\ Batch \in Nat \ {0} /\ ObjsPerSpan \in Nat \ {0} /\ MaxSpans \in Nat
  /\ Addr \in [Objs -> Word] /\ \A o \in Objs : Addr[o] # NoPtr
  /\ IsFiniteSet(Threads) /\ NULL \notin Threads \cup Sizes

(* The free lists in use, those that lie at index -1 of an array with them. *)
Classes == {AllocClass(n) : n \in Sizes} \cup {FreeClass(ObjSize(n)) : n \in Sizes}

SizeOf(c) == size_list(c.list, c.index)

(* The central list behind index -1 of an array of pointers is the last one *)
(* of the array before it, and serves the same size.                        *)
CentralOf(c) == FreeClass(SizeOf(c))

VARIABLES
  caches,    \* the list from first_thread_cache: tid, free lists, their lengths
  central,   \* free_objects of each central list's non_empty span
  spanSize,  \* size of each span there is
  live,      \* objects in the callers' hands, with the size each was asked for
  pc,        \* start, join, idle, alloc, filled, find, push; crash after *NULL,
             \* wild after the use of a pointer that leads to no object
  mine,      \* curr_tc
  req,       \* size: the request of tc_malloc
  ptr        \* the object given to tc_free

vars == <<caches, central, spanSize, live, pc, mine, req, ptr>>

NoObject == <<0, 0>>

Init ==
  /\ caches = <<>>
  /\ central = [c \in Classes |-> <<>>]
  /\ spanSize = <<>>
  /\ live = {}
  /\ pc = [t \in Threads |-> "start"]
  /\ mine = [t \in Threads |-> 0]
  /\ req = [t \in Threads |-> 0]
  /\ ptr = [t \in Threads |-> NoObject]

Goto(t, label) == pc' = [pc EXCEPT ![t] = label]

-----------------------------------------------------------------------------
(* The memory of a thread cache.  A list is kept as the objects its head    *)
(* led to when it was last written, and what the last of them points to:    *)
(* NULL, unless the list was built in front of a broken pointer.            *)

(* Index -1: list_2[-1] is len_list_1[6] and [7], and list_3[-1] begins     *)
(* with len_list_2[30]; len_list_2[-1] is the upper half of list_2[30], and *)
(* len_list_3[-1] that of list_3[119].  The lists whose length is the lower *)
(* and the upper half of the head of c:                                     *)
LowOf(c) == CASE c = Class(2, 64)   -> {Class(1, 56)}
              [] c = Class(3, 2048) -> {Class(2, 2048)}
              [] OTHER -> {}

HighOf(c) == CASE c = Class(2, 64)     -> {Class(1, 64)}
               [] c = Class(2, 2048)   -> {Class(2, 64)}
               [] c = Class(3, 32768)  -> {Class(3, 2048)}
               [] OTHER -> {}

HeadOf(q, e) == IF q = <<>> THEN e ELSE Addr[Head(q)]

(* A half of a head: what was written to the length in its place, if any.   *)
Half(k, over, own) ==
  IF over \cap Classes = {} THEN own
  ELSE caches[k].len[CHOOSE d \in over \cap Classes : TRUE]

(* The head of list c of cache k as it was last written, and as it is.      *)
Written(k, c)  == HeadOf(caches[k].list[c], caches[k].end[c])
InMemory(k, c) == <<Half(k, LowOf(c), Written(k, c)[1]), Half(k, HighOf(c), Written(k, c)[2])>>

Intact(t, c) == InMemory(mine[t], c) = Written(mine[t], c)

(* Where the head of the list of class c leads the thread, what is behind   *)
(* that, and the length.                                                    *)
List(t, c)   == IF Intact(t, c) THEN caches[mine[t]].list[c] ELSE <<>>
End(t, c)    == IF Intact(t, c) THEN caches[mine[t]].end[c] ELSE InMemory(mine[t], c)
Length(t, c) == caches[mine[t]].len[c]

(* The cache of t gets q, and e behind it, as its list of class c, and n as *)
(* the length.                                                              *)
Store(t, c, q, e, n) ==
  caches' = [caches EXCEPT ![mine[t]] =
    [@ EXCEPT !.list[c] = q, !.end[c] = e,
              !.len = [d \in Classes |-> CASE d = c -> n
                                          [] d # c /\ d \in LowOf(c)  -> HeadOf(q, e)[1]
                                          [] d # c /\ d \in HighOf(c) -> HeadOf(q, e)[2]
                                          [] OTHER -> Length(t, d)]]]

-----------------------------------------------------------------------------
(* tc_thread_init.                                                          *)

NewCache == [tid |-> NULL, list |-> [c \in Classes |-> <<>>],
             end |-> [c \in Classes |-> NoPtr], len |-> [c \in Classes |-> 0]]

(* Fault: the new cache always becomes the first one. *)
LinkCache_First(t) ==
  /\ pc[t] = "start"
  /\ caches' = <<NewCache>>
  /\ mine' = [mine EXCEPT ![t] = 1]
  /\ Goto(t, "join")
  /\ UNCHANGED <<central, spanSize, live, req, ptr>>

(* Under the lock: the new cache becomes the last one. *)
LinkCache(t) ==
  /\ pc[t] = "start"
  /\ caches' = Append(caches, NewCache)
  /\ mine' = [mine EXCEPT ![t] = Len(caches) + 1]
  /\ Goto(t, "join")
  /\ UNCHANGED <<central, spanSize, live, req, ptr>>

(* After the unlock: tid and the empty lists. *)
WriteTid(t) ==
  /\ pc[t] = "join"
  /\ caches' = [caches EXCEPT ![mine[t]] = [NewCache EXCEPT !.tid = t]]
  /\ Goto(t, "idle")
  /\ UNCHANGED <<central, spanSize, live, mine, req, ptr>>

-----------------------------------------------------------------------------
(* tc_malloc.                                                               *)

CachesOf(t) == {k \in DOMAIN caches : caches[k].tid = t}

(* The search goes on after a match, so the last one counts. *)
Request(t, n) ==
  /\ pc[t] = "idle"
  /\ CachesOf(t) # {}
  /\ mine' = [mine EXCEPT ![t] = Max(CachesOf(t))]
  /\ req' = [req EXCEPT ![t] = n]
  /\ Goto(t, "alloc")
  /\ UNCHANGED <<caches, central, spanSize, live, ptr>>

(* Spans the loop takes from the page heap: it asks for one when it needs   *)
(* another object and has none.                                             *)
NewSpans(c) == CHOOSE m \in 0 .. Batch :
                 /\ Len(central[CentralOf(c)]) + m * ObjsPerSpan >= Batch
                 /\ m > 0 => Len(central[CentralOf(c)]) + (m - 1) * ObjsPerSpan < Batch

(* The objects of the next m spans, in the order they are cut. *)
Carved(m) == [k \in 1 .. m * ObjsPerSpan |->
                <<Len(spanSize) + 1 + ((k - 1) \div ObjsPerSpan), 1 + ((k - 1) % ObjsPerSpan)>>]

(* The objects the loop goes through, and more than it needs. *)
Supply(c) == central[CentralOf(c)] \o Carved(NewSpans(c))

(* Fault: the objects taken stay in the span's free list. *)
Refill_KeepObjects(t) ==
  LET c == AllocClass(req[t]) IN
  /\ pc[t] = "alloc" /\ Length(t, c) = 0
  /\ Len(spanSize) + NewSpans(c) <= MaxSpans
  /\ spanSize' = spanSize \o [k \in 1 .. NewSpans(c) |-> ObjSize(req[t])]
  /\ Store(t, c, SubSeq(Supply(c), 1, Batch), NoPtr, 0)
  /\ central' = [central EXCEPT ![CentralOf(c)] = Supply(c)]
  /\ Goto(t, "filled")
  /\ UNCHANGED <<live, mine, req, ptr>>

(* Fault: a new batch starts with a new span. *)
Refill_DropRest(t) ==
  LET c == AllocClass(req[t]) IN
  /\ pc[t] = "alloc" /\ Length(t, c) = 0
  /\ Len(spanSize) + NewSpans(c) <= MaxSpans
  /\ spanSize' = spanSize \o [k \in 1 .. NewSpans(c) |-> ObjSize(req[t])]
  /\ Store(t, c, SubSeq(Supply(c), 1, Batch), NoPtr, 0)
  /\ central' = [central EXCEPT ![CentralOf(c)] = <<>>]
  /\ Goto(t, "filled")
  /\ UNCHANGED <<live, mine, req, ptr>>

(* alloc_small_1, 2 and 3 with an empty list, under the lock: Batch objects *)
(* move from the central list into the cache; its length is set later.      *)
Refill(t) ==
  LET c == AllocClass(req[t]) IN
  /\ pc[t] = "alloc" /\ Length(t, c) = 0
  /\ Len(spanSize) + NewSpans(c) <= MaxSpans
  /\ spanSize' = spanSize \o [k \in 1 .. NewSpans(c) |-> ObjSize(req[t])]
  /\ Store(t, c, SubSeq(Supply(c), 1, Batch), NoPtr, 0)
  /\ central' = [central EXCEPT ![CentralOf(c)] = SubSeq(Supply(c), Batch + 1, Len(Supply(c)))]
  /\ Goto(t, "filled")
  /\ UNCHANGED <<live, mine, req, ptr>>

(* Fault: the length is not counted down. *)
Pop_KeepLength(t, c, n) ==
  /\ List(t, c) # <<>>
  /\ Store(t, c, Tail(List(t, c)), End(t, c), n)
  /\ live' = live \cup {[obj |-> Head(List(t, c)), asked |-> req[t]]}
  /\ req' = [req EXCEPT ![t] = 0]
  /\ Goto(t, "idle")
  /\ UNCHANGED <<central, spanSize, mine, ptr>>

(* The common end, with n as the length found: hand out the first object.   *)
Pop(t, c, n) ==
  /\ List(t, c) # <<>>
  /\ Store(t, c, Tail(List(t, c)), End(t, c), n - 1)
  /\ live' = live \cup {[obj |-> Head(List(t, c)), asked |-> req[t]]}
  /\ req' = [req EXCEPT ![t] = 0]
  /\ Goto(t, "idle")
  /\ UNCHANGED <<central, spanSize, mine, ptr>>

(* There is no object: *result_addr with result_addr NULL, or with one that *)
(* is broken; what the program does behind that is left out.                *)
PopNothing(t, c) ==
  /\ List(t, c) = <<>>
  /\ Goto(t, IF End(t, c) = NoPtr THEN "crash" ELSE "wild")
  /\ UNCHANGED <<caches, central, spanSize, live, mine, req, ptr>>

TakeCached(t) ==
  LET c == AllocClass(req[t]) IN
  /\ pc[t] = "alloc" /\ Length(t, c) # 0
  /\ Pop(t, c, Length(t, c)) \/ PopNothing(t, c)

TakeFilled(t) ==
  LET c == AllocClass(req[t]) IN
  /\ pc[t] = "filled"
  /\ Pop(t, c, Batch)

-----------------------------------------------------------------------------
(* tc_free of a small object; any thread may free it.                       *)

(* First critical section: the size comes from the object's span. *)
FindSize(t, l) ==
  /\ pc[t] = "idle"
  /\ live' = live \ {l}
  /\ ptr' = [ptr EXCEPT ![t] = l.obj]
  /\ req' = [req EXCEPT ![t] = spanSize[l.obj[1]]]
  /\ Goto(t, "find")
  /\ UNCHANGED <<caches, central, spanSize, mine>>

(* Second critical section: the first cache with the thread's tid. *)
FindCache(t) ==
  /\ pc[t] = "find"
  /\ CachesOf(t) # {}
  /\ mine' = [mine EXCEPT ![t] = Min(CachesOf(t))]
  /\ Goto(t, "push")
  /\ UNCHANGED <<caches, central, spanSize, live, req, ptr>>

Freed(t) ==
  /\ ptr' = [ptr EXCEPT ![t] = NoObject]
  /\ req' = [req EXCEPT ![t] = 0]
  /\ Goto(t, "idle")
  /\ UNCHANGED <<central, spanSize, live, mine>>

(* The object goes in front of what the head holds, also at index -1.       *)
Push(t) ==
  LET c == FreeClass(req[t]) IN
  /\ pc[t] = "push"
  /\ Store(t, c, <<ptr[t]>> \o List(t, c), End(t, c), Length(t, c) + 1)
  /\ Freed(t)

-----------------------------------------------------------------------------
Step(t) == \/ LinkCache(t) \/ WriteTid(t)
           \/ \E n \in Sizes : Request(t, n)
           \/ Refill(t) \/ TakeCached(t) \/ TakeFilled(t)
           \/ \E l \in live : FindSize(t, l)
           \/ FindCache(t) \/ Push(t)

(* A crash ends the process; a broken pointer, what is said of it here. *)
Running == \A t \in Threads : pc[t] \notin {"crash", "wild"}

Next == Running /\ \E t \in Threads : Step(t)

Spec == Init /\ [][Next]_vars

-----------------------------------------------------------------------------
(* Type invariant. *)
TypeOK ==
  /\ caches \in Seq([tid : Threads \cup {NULL}, list : [Classes -> Seq(Objs)],
                     end : [Classes -> Word], len : [Classes -> Int]])
  /\ central \in [Classes -> Seq(Objs)]
  /\ \A c \in Classes : Len(central[c]) < ObjsPerSpan
  /\ spanSize \in Seq({ObjSize(n) : n \in Sizes}) /\ Len(spanSize) <= MaxSpans
  /\ live \subseteq [obj : Objs, asked : Sizes]
  /\ pc \in [Threads -> {"start", "join", "idle", "alloc", "filled", "find", "push",
                        "crash", "wild"}]
  /\ mine \in [Threads -> 0 .. Cardinality(Threads)]
  /\ req \in [Threads -> {0} \cup Sizes \cup {ObjSize(n) : n \in Sizes}]
  /\ ptr \in [Threads -> Objs \cup {NoObject}]

(* Every thread that has called tc_thread_init has exactly one cache, the   *)
(* one it made, and works on no other: two threads never share free lists   *)
(* that no lock guards, although caches are linked before their tid is      *)
(* written, and tc_malloc takes the last match and tc_free the first        *)
(* (lines 1011-1031, 1080-1093, 1294-1306).                                 *)
OwnCache ==
  /\ \A t \in Threads : pc[t] \notin {"start", "join"} => CachesOf(t) = {mine[t]}
  /\ \A t, u \in Threads : mine[t] = mine[u] /\ mine[t] # 0 => t = u

(* The places an object can be. *)
InCaches  == {caches[k].list[c] : k \in DOMAIN caches, c \in Classes}
FreeLists == [d \in (DOMAIN caches) \X Classes |-> caches[d[1]].list[d[2]]]

InHands == {l.obj : l \in live}
Moving  == {ptr[t] : t \in Threads} \ {NoObject}

Stored(o) == Cardinality({d \in DOMAIN FreeLists : o \in ToSet(FreeLists[d])})
             + Cardinality({c \in Classes : o \in ToSet(central[c])})

Places(o) == Stored(o) + (IF o \in InHands THEN 1 ELSE 0) + (IF o \in Moving THEN 1 ELSE 0)

CarvedObjs == (DOMAIN spanSize) \X (1 .. ObjsPerSpan)

(* No object is in two places: it is not handed out while a caller has it   *)
(* or a list holds it, while batches move and threads free each other's     *)
(* objects.                                                                 *)
NeverTwice ==
  /\ \A o \in CarvedObjs : Places(o) <= 1
  /\ \A q \in InCaches : Cardinality(ToSet(q)) = Len(q)
  /\ Cardinality(InHands) = Cardinality(live)

(* The lists that share no memory with another one in use.                  *)
Shares(c, d) == d \in LowOf(c) \cup HighOf(c)

Untouched == {c \in Classes : \A d \in Classes : ~Shares(c, d) /\ ~Shares(d, c)}

(* The lists for the size of o are among them.                              *)
Safe(o) == \A c \in Classes : SizeOf(c) = spanSize[o[1]] => c \in Untouched

(* Every object is somewhere, a caller has it, it is on its way back, or a  *)
(* free list holds it, when the lists for its size share no memory with     *)
(* another one: refills write over the head of a list that has length 0.    *)
NoneLost == \A o \in CarvedObjs : Safe(o) => Places(o) >= 1

(* The length of a free list is what its thread believes it is: tc_malloc   *)
(* relies on it and dereferences the head of the list without a test.  Only *)
(* the use of index -1 breaks it, by a request of just 64 or 2048 bytes or  *)
(* by the return of an object of that size, and only for the lists that     *)
(* share their memory with it (lines 611, 703, 717 and 1315-1325).          *)
LengthsTrue ==
  \A t \in Threads, c \in Untouched : mine[t] # 0 =>
    \/ Length(t, c) = Len(List(t, c))
    \/ pc[t] = "filled" /\ c = AllocClass(req[t]) /\ Length(t, c) = 0 /\ Len(List(t, c)) = Batch

(* Whoever asked for n bytes has at least n bytes, wherever the object has  *)
(* been before.                                                             *)
LargeEnough == \A l \in live : l.asked <= spanSize[l.obj[1]]

(* No thread takes an object from a list that is empty or broken: list_1 of *)
(* the cache holds the objects of up to 64 bytes.                           *)
NoCrash == Running
=============================================================================
