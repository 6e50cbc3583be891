------------------------------ MODULE PageHeap ------------------------------
(***************************************************************************)
(* The page heap of strings/tc_malloc.c: spans of pages, the bins of free  *)
(* spans, and the radix tree that leads from a page to its span.           *)
(*                                                                         *)
(* Two kinds of callers take pages: tc_malloc for an object above 32768    *)
(* bytes, and the central lists, SpanPages at a time, for small objects.   *)
(* All that happens under s_lock is one step.  tc_free takes the lock      *)
(* twice: the span found the first time is used the second time, and other *)
(* threads may split and merge spans in between.                           *)
(*                                                                         *)
(* Addresses are counted in pages.  Requests are for at most MaxBin pages: *)
(* alloc_pages' branch for larger ones is left out.  An answer of this     *)
(* server stays below that size, merged free spans do not, so the last bin *)
(* is here.                                                                *)
(***************************************************************************)
EXTENDS Integers, Sequences, FiniteSets, SequencesExt

CONSTANTS
  Threads,
  NPages,        \* pages of the address space mmap chooses from
  MaxBin,        \* 255: bin b holds the free spans of b pages
  Requests,      \* numbers of pages asked for by large allocations
  SpanPages,     \* 100: pages of a span for small objects
  ObjsPerSpan,   \* objects such a span is cut into
  MaxSpans,      \* span records that fit in the metadata area
  NULL

ASSUME PageHeapAssumption ==
  /\ NPages \in Nat \ {0} /\ MaxBin \in Nat \ {0} /\ MaxSpans \in Nat \ {0}
  /\ SpanPages \in 1 .. MaxBin
  /\ Requests \subseteq 1 .. MaxBin
  /\ ObjsPerSpan \in Nat \ {0, 1}  \* at least 100 * 4096 / 32768
  /\ NULL \notin Nat

Pages == 0 .. NPages - 1
BigBin == MaxBin + 1   \* all larger free spans, smallest first
Bins == 1 .. BigBin

VARIABLES
  spans,    \* the span records, in the order they were taken from meta_addr
  pagemap,  \* the bins: lists of indices into spans
  db,       \* the radix tree: the span of each page
  cur,      \* cur_Span of each thread between its two critical sections in tc_free
  blocks    \* what the callers hold: the blocks handed out and not given back

vars == <<spans, pagemap, db, cur, blocks>>

(* small stands for size <= 32768; the size of a free span is never read. *)
Span == [start : Pages, pages : 1 .. NPages, small : BOOLEAN, free_objects : Pages,
         num_free : 0 .. ObjsPerSpan, num_alloc : 0 .. ObjsPerSpan]

Init ==
  /\ spans = <<>>
  /\ pagemap = [b \in Bins |-> <<>>]
  /\ db = [p \in Pages |-> NULL]
  /\ cur = [t \in Threads |-> NULL]
  /\ blocks = {}

-----------------------------------------------------------------------------
(* Helpers.                                                                 *)

SpanRange(s) == s.start .. s.start + s.pages - 1

search_tree(p) == IF p \in Pages THEN db[p] ELSE NULL

(* add_Span, with add_one_node for each page. *)
add_Span(tree, id, s) == [p \in Pages |-> IF p \in SpanRange(s) THEN id ELSE tree[p]]

BinOf(n) == IF n <= MaxBin THEN n ELSE BigBin

(* A free span of n pages is put in front of its bin, in the last bin behind *)
(* the spans that are not larger.                                            *)
Insert(bins, id, n) ==
  LET q == bins[BinOf(n)]
      k == IF n <= MaxBin THEN 1
           ELSE Cardinality({m \in DOMAIN q : spans[q[m]].pages <= n}) + 1
  IN  [bins EXCEPT ![BinOf(n)] = InsertAt(q, k, id)]

(* merge_spans takes a span out of the bin of its size, wherever it is. *)
Unlink(bins, id) == [bins EXCEPT ![BinOf(spans[id].pages)] = RemoveFirst(@, id)]

-----------------------------------------------------------------------------
(* alloc_pages.                                                             *)

Fitting(n) == {b \in n .. MaxBin : pagemap[b] # <<>>}

(* The span as alloc_pages and its caller leave it: one object, in use, or  *)
(* a list of free ones.                                                     *)
Handed(s, n, small) ==
  [start |-> s.start, pages |-> n, small |-> small,
   free_objects |-> IF small THEN s.start ELSE s.free_objects,
   num_free     |-> IF small THEN ObjsPerSpan ELSE 0,
   num_alloc    |-> IF small THEN 0 ELSE 1]

HandOut(s) ==
  blocks' = blocks \cup {[addr |-> s.free_objects, pages |-> s.pages, small |-> s.small]}

TakeWhole(n, small) ==
  LET b  == Min(Fitting(n))
      id == Head(pagemap[b])
      s  == Handed(spans[id], n, small)
  IN
  /\ Fitting(n) # {} /\ b = n
  /\ pagemap' = [pagemap EXCEPT ![b] = Tail(@)]
  /\ spans' = [spans EXCEPT ![id] = s]
  /\ HandOut(s)
  /\ UNCHANGED <<db, cur>>

(* Fault: the remainder keeps the counters of a span in use. *)
Remainder_Used(s, n) ==
  [start |-> s.start + n, pages |-> s.pages - n, small |-> FALSE,
   free_objects |-> s.start + n, num_free |-> 0, num_alloc |-> 0]

Remainder(s, n) ==
  [start |-> s.start + n, pages |-> s.pages - n, small |-> FALSE,
   free_objects |-> s.start + n, num_free |-> 1, num_alloc |-> 0]

(* Fault: the remainder is not entered in the radix tree. *)
Split_NoAddSpan(n, small) ==
  LET b  == Min(Fitting(n))
      id == Head(pagemap[b])
      s  == Handed(spans[id], n, small)
      r  == Remainder(spans[id], n)
      rid == Len(spans) + 1
  IN
  /\ Fitting(n) # {} /\ b > n
  /\ rid <= MaxSpans
  /\ pagemap' = [pagemap EXCEPT ![b] = Tail(@), ![b - n] = <<rid>> \o @]
  /\ spans' = Append([spans EXCEPT ![id] = s], r)
  /\ db' = add_Span(db, id, s)
  /\ HandOut(s)
  /\ UNCHANGED cur

(* A larger span gives its first n pages; the rest becomes a new free span. *)
Split(n, small) ==
  LET b  == Min(Fitting(n))
      id == Head(pagemap[b])
      s  == Handed(spans[id], n, small)
      r  == Remainder(spans[id], n)
      rid == Len(spans) + 1
  IN
  /\ Fitting(n) # {} /\ b > n
  /\ rid <= MaxSpans
  /\ pagemap' = [pagemap EXCEPT ![b] = Tail(@), ![b - n] = <<rid>> \o @]
  /\ spans' = Append([spans EXCEPT ![id] = s], r)
  /\ db' = add_Span(add_Span(db, rid, r), id, s)
  /\ HandOut(s)
  /\ UNCHANGED cur

(* No bin has enough: the kernel maps n fresh pages, anywhere. *)
MapPages(n, small) ==
  \E a \in Pages :
    LET fresh == [start |-> a, pages |-> n, small |-> small, free_objects |-> a,
                  num_free |-> 0, num_alloc |-> 0]
        s  == Handed(fresh, n, small)
        id == Len(spans) + 1
    IN
    /\ Fitting(n) = {}
    /\ id <= MaxSpans
    /\ SpanRange(s) \subseteq {p \in Pages : db[p] = NULL}
    /\ spans' = Append(spans, s)
    /\ db' = add_Span(db, id, s)
    /\ HandOut(s)
    /\ UNCHANGED <<pagemap, cur>>

alloc_pages(n, small) == TakeWhole(n, small) \/ Split(n, small) \/ MapPages(n, small)

(* tc_malloc of more than 32768 bytes. *)
MallocLarge == \E n \in Requests : alloc_pages(n, FALSE)

(* A central list's new non_empty span. *)
NewSmallSpan == alloc_pages(SpanPages, TRUE)

(* A thread cache takes an object from a span of the central list. *)
TakeObject ==
  \E b \in blocks :
    LET id == db[b.addr] IN
    /\ b.small /\ spans[id].num_free > 0
    /\ spans' = [spans EXCEPT ![id].num_alloc = @ + 1, ![id].num_free = @ - 1]
    /\ UNCHANGED <<pagemap, db, cur, blocks>>

-----------------------------------------------------------------------------
(* tc_free of a large object.                                               *)

(* First critical section: find the span and read its size. *)
FindSpan(t) ==
  \E b \in blocks :
    /\ cur[t] = NULL /\ ~b.small
    /\ cur' = [cur EXCEPT ![t] = search_tree(b.addr)]
    /\ blocks' = blocks \ {b}
    /\ UNCHANGED <<spans, pagemap, db>>

(* Fault: a neighbour in use is merged when it has one free object. *)
IsFree_AnyAlloc(id) == id # NULL /\ spans[id].num_free = 1

IsFree(id) == id # NULL /\ spans[id].num_alloc = 0 /\ spans[id].num_free = 1

(* Fault: free_objects is left as it was. *)
merge_spans_KeepObjects(base, id) ==
  LET add == spans[id]
      first == IF base.start > add.start THEN add.start ELSE base.start
  IN  [base EXCEPT !.start = first, !.pages = @ + add.pages,
                   !.num_alloc = 0, !.num_free = 1]

(* The span record base takes the pages of the span id. *)
merge_spans(base, id) ==
  LET add == spans[id]
      first == IF base.start > add.start THEN add.start ELSE base.start
  IN  [base EXCEPT !.start = first, !.pages = @ + add.pages, !.free_objects = first,
                   !.num_alloc = 0, !.num_free = 1]

(* Fault: the page itself is looked up, not the one before. *)
FrontOf_Itself(s) == search_tree(s.start)

FrontOf(s) == search_tree(s.start - 1)
BackOf(s)  == search_tree(s.start + s.pages)

Joined(s, id) == IF IsFree(id) THEN merge_spans(s, id) ELSE s

Without(bins, id) == IF IsFree(id) THEN Unlink(bins, id) ELSE bins

GivenBack(s) == [s EXCEPT !.num_alloc = @ - 1, !.num_free = @ + 1]

(* Second critical section: give back the object, merge with the free       *)
(* neighbours, file the result.                                             *)
FreeSpan(t) ==
  LET id    == cur[t]
      given == GivenBack(spans[id])
      front == FrontOf(given)
      back  == BackOf(given)
      s     == Joined(Joined(given, front), back)
      rest  == Without(Without(pagemap, front), back)
  IN
  /\ cur[t] # NULL
  /\ spans' = [spans EXCEPT ![id] = s]
  /\ db' = IF IsFree(front) \/ IsFree(back) THEN add_Span(db, id, s) ELSE db
  /\ pagemap' = Insert(rest, id, s.pages)
  /\ cur' = [cur EXCEPT ![t] = NULL]
  /\ UNCHANGED blocks

-----------------------------------------------------------------------------
Next == \/ MallocLarge \/ NewSmallSpan \/ TakeObject
        \/ \E t \in Threads : FindSpan(t) \/ FreeSpan(t)

Spec == Init /\ [][Next]_vars

-----------------------------------------------------------------------------
(* Derived state.                                                           *)

BlockPages(b) == b.addr .. b.addr + b.pages - 1

Binned == UNION {ToSet(pagemap[b]) : b \in Bins}

BeingFreed == {cur[t] : t \in Threads} \ {NULL}

InUse == {id \in DOMAIN spans : \E b \in blocks : db[b.addr] = id}

(* The spans that count; the others were merged away. *)
Current == Binned \cup BeingFreed \cup InUse

-----------------------------------------------------------------------------
(* Type invariant. *)
TypeOK ==
  /\ spans \in Seq(Span) /\ Len(spans) <= MaxSpans
  /\ pagemap \in [Bins -> Seq(1 .. Len(spans))]
  /\ db \in [Pages -> (1 .. Len(spans)) \cup {NULL}]
  /\ cur \in [Threads -> (1 .. Len(spans)) \cup {NULL}]
  /\ \A b \in blocks : b.addr \in Pages /\ b.pages \in 1 .. NPages /\ b.small \in BOOLEAN

(* The radix tree is exact: every page that was ever mapped belongs to one  *)
(* current span, the one the tree names, however spans were split and       *)
(* merged since; tc_free of any address inside a span finds that span       *)
(* (lines 136-241 under all of alloc_pages and tc_free).                    *)
RadixExact == \A p \in Pages : {id \in Current : p \in SpanRange(spans[id])} = {db[p]} \ {NULL}

(* The test by which tc_free recognises a free neighbour, 0 objects in use  *)
(* and 1 free, holds for the spans in the bins and for no other current     *)
(* span, not even one for small objects; and each is filed once, under its  *)
(* size, where merge_spans will look for it (lines 1217-1230, 249-285).     *)
BinsExact ==
  /\ {id \in Current : IsFree(id)} = Binned
  /\ \A id \in Binned :
       \A b \in Bins : Cardinality({n \in DOMAIN pagemap[b] : pagemap[b][n] = id})
                         = IF b = BinOf(spans[id].pages) THEN 1 ELSE 0
  /\ Binned \cap (BeingFreed \cup InUse) = {} /\ BeingFreed \cap InUse = {}

(* Free memory does not fragment: no two free spans are neighbours          *)
(* (tc_free merges on both sides, and splitting cannot undo it).            *)
Coalesced == \A id \in Binned : BackOf(spans[id]) \notin Binned

(* No memory is handed out twice or shared by two blocks, and the address a *)
(* caller gets is the start of the pages it asked for.                      *)
Heap == INSTANCE PageAllocator

HeapSpec == Heap!Spec
=============================================================================
