--------------------------- MODULE PageHeapProofs ----------------------------
(***************************************************************************)
(* Proofs about PageHeap, for any number of threads, pages, bins and span  *)
(* records, and any request sizes.                                         *)
(*                                                                         *)
(* The radix tree is what holds the heap together: the current spans are   *)
(* those it names, each for exactly the pages it covers, so that they      *)
(* cannot overlap.  That a free neighbour can be told by its two counters  *)
(* needs to be known of every current span, in the bins or not, and that a *)
(* block begins where its span does needs free_objects to follow the start *)
(* through splits and merges.                                              *)
(***************************************************************************)
EXTENDS PageHeap, DataLemmas, TLAPS

(* A current span covers pages that the radix tree leads to it.             *)
SpanInv ==
  \A id \in Current :
    /\ spans[id].free_objects = spans[id].start
    /\ \A p \in SpanRange(spans[id]) : p \in Pages /\ db[p] = id

(* The radix tree leads to current spans, and from their own pages.         *)
TreeInv ==
  \A p \in Pages : db[p] # NULL => db[p] \in Current /\ p \in SpanRange(spans[db[p]])

(* The bins hold free spans of their size, each once.                       *)
BinInv ==
  /\ \A b \in Bins : /\ IsInjective(pagemap[b])
                     /\ \A id \in ToSet(pagemap[b]) : BinOf(spans[id].pages) = b
  /\ \A id \in Binned : spans[id].num_alloc = 0 /\ spans[id].num_free = 1

(* A span that is being freed has one object in use, and one thread.        *)
FreeingInv ==
  /\ \A t \in Threads : cur[t] # NULL =>
       /\ spans[cur[t]].num_alloc = 1 /\ spans[cur[t]].num_free = 0
       /\ cur[t] \notin Binned
  /\ \A t, u \in Threads : cur[t] # NULL /\ cur[t] = cur[u] => t = u

(* A block is a span in use.                                                *)
BlockInv ==
  \A b \in blocks :
    /\ db[b.addr] # NULL /\ db[b.addr] \notin Binned \cup BeingFreed
    /\ b = [addr |-> spans[db[b.addr]].start, pages |-> spans[db[b.addr]].pages,
            small |-> spans[db[b.addr]].small]
    /\ IF b.small
       THEN spans[db[b.addr]].num_free + spans[db[b.addr]].num_alloc = ObjsPerSpan
       ELSE spans[db[b.addr]].num_free = 0 /\ spans[db[b.addr]].num_alloc = 1

IInv == TypeOK /\ SpanInv /\ TreeInv /\ BinInv /\ FreeingInv /\ BlockInv /\ Coalesced

-----------------------------------------------------------------------------
(* What the invariant says of spans, in the form the steps need it.         *)

LEMMA SpanFacts ==
  ASSUME IInv
  PROVE  /\ Len(spans) \in Nat /\ DOMAIN spans = 1 .. Len(spans)
         /\ Current \subseteq DOMAIN spans
         /\ \A id \in DOMAIN spans : spans[id] \in Span /\ id # NULL
         /\ \A id \in Current :
              /\ spans[id].free_objects = spans[id].start
              /\ spans[id].start \in SpanRange(spans[id])
              /\ \A p \in SpanRange(spans[id]) : p \in Pages /\ db[p] = id
<1> USE PageHeapAssumption
<1>1. spans \in Seq(Span)
  BY DEF IInv, TypeOK
<1>2. /\ Len(spans) \in Nat /\ DOMAIN spans = 1 .. Len(spans)
      /\ \A id \in DOMAIN spans : spans[id] \in Span /\ id # NULL
  BY <1>1
<1>3. Binned \subseteq 1 .. Len(spans)
  <2>1. \A b \in Bins : pagemap[b] \in Seq(1 .. Len(spans))
    BY DEF IInv, TypeOK
  <2>2. \A b \in Bins : \A n \in DOMAIN pagemap[b] : pagemap[b][n] \in 1 .. Len(spans)
    BY <2>1
  <2> QED
    BY <2>2 DEF Binned, ToSet
<1>4. Current \subseteq DOMAIN spans
  BY <1>2, <1>3 DEF Current, BeingFreed, InUse, IInv, TypeOK
<1>5. \A id \in DOMAIN spans : spans[id].start \in SpanRange(spans[id])
  BY <1>2 DEF Span, SpanRange, Pages
<1>6. \A id \in Current : /\ spans[id].free_objects = spans[id].start
                          /\ \A p \in SpanRange(spans[id]) : p \in Pages /\ db[p] = id
  BY DEF IInv, SpanInv
<1> QED
  BY <1>2, <1>4, <1>5, <1>6

(* A current span is free by its counters if and only if it is in a bin.    *)
LEMMA FreeIsBinned ==
  ASSUME IInv
  PROVE  /\ \A id \in Current : IsFree(id) <=> id \in Binned
         /\ Binned \cap BeingFreed = {} /\ Binned \cap InUse = {} /\ BeingFreed \cap InUse = {}
<1> USE PageHeapAssumption
<1>1. \A id \in Binned : IsFree(id)
  BY SpanFacts DEF IInv, BinInv, IsFree, Current
<1>2. \A id \in BeingFreed : ~IsFree(id) /\ id \notin Binned
  BY DEF IInv, FreeingInv, IsFree, BeingFreed
<1>3. \A id \in InUse : ~IsFree(id) /\ id \notin Binned \cup BeingFreed
  <2> SUFFICES ASSUME NEW b \in blocks
               PROVE  ~IsFree(db[b.addr]) /\ db[b.addr] \notin Binned \cup BeingFreed
    BY DEF InUse
  <2>1. IF b.small
        THEN spans[db[b.addr]].num_free + spans[db[b.addr]].num_alloc = ObjsPerSpan
        ELSE spans[db[b.addr]].num_free = 0 /\ spans[db[b.addr]].num_alloc = 1
    BY DEF IInv, BlockInv
  <2> QED
    BY <2>1 DEF IInv, BlockInv, IsFree
<1> QED
  BY <1>1, <1>2, <1>3 DEF Current

(* The first span of a bin.                                                 *)
LEMMA BinHead ==
  ASSUME IInv, NEW n \in 1 .. MaxBin, Fitting(n) # {}
  PROVE  LET b  == Min(Fitting(n))
             id == Head(pagemap[b])
         IN  /\ b \in n .. MaxBin /\ b \in Bins
             /\ id \in Binned /\ id \in Current /\ id \in DOMAIN spans
             /\ spans[id].pages = b
             /\ Tail(pagemap[b]) \in Seq(DOMAIN spans) /\ IsInjective(Tail(pagemap[b]))
             /\ ToSet(Tail(pagemap[b])) = ToSet(pagemap[b]) \ {id}
             /\ \A c \in Bins \ {b} : id \notin ToSet(pagemap[c])
<1> USE PageHeapAssumption
<1> DEFINE b  == Min(Fitting(n))
           id == Head(pagemap[b])
<1>1. b \in Fitting(n)
  <2>1. Fitting(n) \in SUBSET Nat
    BY DEF Fitting
  <2> QED
    BY <2>1, MinOfNat
<1> HIDE DEF b
<1>2. b \in n .. MaxBin /\ b \in Bins /\ pagemap[b] # <<>>
  BY <1>1 DEF Fitting, Bins, BigBin
<1>3. pagemap[b] \in Seq(DOMAIN spans)
  BY <1>2, SpanFacts DEF IInv, TypeOK
<1>4. IsInjective(pagemap[b])
  BY <1>2 DEF IInv, BinInv
<1>5. /\ id \in ToSet(pagemap[b]) /\ Tail(pagemap[b]) \in Seq(DOMAIN spans)
      /\ IsInjective(Tail(pagemap[b]))
      /\ ToSet(Tail(pagemap[b])) = ToSet(pagemap[b]) \ {id}
  BY <1>2, <1>3, <1>4, WithoutHead
<1> HIDE DEF id
<1>6. id \in Binned /\ id \in Current /\ id \in DOMAIN spans
  BY <1>2, <1>5, SpanFacts DEF Binned, Current
<1>7. /\ BinOf(spans[id].pages) = b
      /\ \A c \in Bins : id \in ToSet(pagemap[c]) => BinOf(spans[id].pages) = c
  BY <1>2, <1>5 DEF IInv, BinInv
<1>8. spans[id].pages = b
  BY <1>2, <1>6, <1>7, SpanFacts DEF BinOf, BigBin, Span
<1> QED
  BY <1>2, <1>5, <1>6, <1>7, <1>8 DEF b, id

LEMMA HandedFacts ==
  ASSUME NEW s \in Span, NEW n \in 1 .. NPages, NEW small \in BOOLEAN
  PROVE  LET h == Handed(s, n, small) IN
         /\ h \in Span /\ h.start = s.start /\ h.pages = n /\ h.small = small
         /\ h.free_objects = IF small THEN s.start ELSE s.free_objects
         /\ IF small THEN h.num_free + h.num_alloc = ObjsPerSpan
                     ELSE h.num_free = 0 /\ h.num_alloc = 1
<1> DEFINE h == Handed(s, n, small)
<1>1. s.start \in Pages /\ s.free_objects \in Pages
  BY DEF Span
<1>2. CASE small = TRUE
  <2>1. h = [start |-> s.start, pages |-> n, small |-> TRUE, free_objects |-> s.start,
             num_free |-> ObjsPerSpan, num_alloc |-> 0]
    BY <1>2 DEF Handed, Span
  <2> HIDE DEF h
  <2>2. h \in Span /\ h.num_free + h.num_alloc = ObjsPerSpan
    BY <1>1, <2>1, PageHeapAssumption DEF Span
  <2>3. h.start = s.start /\ h.pages = n /\ h.small = small /\ h.free_objects = s.start
    BY <1>2, <2>1
  <2> QED
    BY <1>2, <2>2, <2>3 DEF h
<1>3. CASE small = FALSE
  <2>1. h = [start |-> s.start, pages |-> n, small |-> FALSE,
             free_objects |-> s.free_objects, num_free |-> 0, num_alloc |-> 1]
    BY <1>3 DEF Handed, Span
  <2> HIDE DEF h
  <2>2. h \in Span
    BY <1>1, <2>1, PageHeapAssumption DEF Span
  <2>3. /\ h.start = s.start /\ h.pages = n /\ h.small = small
        /\ h.free_objects = s.free_objects /\ h.num_free = 0 /\ h.num_alloc = 1
    BY <1>3, <2>1
  <2> QED
    BY <1>3, <2>2, <2>3 DEF h
<1> QED
  BY <1>2, <1>3

LEMMA RequestSizes == Requests \subseteq 1 .. MaxBin /\ SpanPages \in 1 .. MaxBin
BY PageHeapAssumption

-----------------------------------------------------------------------------
LEMMA InitInv == Init => IInv
<1> SUFFICES ASSUME Init PROVE IInv
  OBVIOUS
<1> USE PageHeapAssumption DEF Init
<1>1. \A b \in Bins : ToSet(pagemap[b]) = {} /\ IsInjective(pagemap[b])
  BY DEF ToSet, IsInjective
<1>2. Binned = {} /\ BeingFreed = {} /\ InUse = {}
  BY <1>1 DEF Binned, BeingFreed, InUse
<1>3. TypeOK
  <2>1. Len(spans) = 0 /\ spans \in Seq(Span)
    OBVIOUS
  <2>2. pagemap \in [Bins -> Seq(1 .. Len(spans))]
    OBVIOUS
  <2> QED
    BY <2>1, <2>2 DEF TypeOK
<1>4. Current = {}
  BY <1>2 DEF Current
<1> QED
  BY <1>1, <1>2, <1>3, <1>4
  DEF IInv, SpanInv, TreeInv, BinInv, FreeingInv, BlockInv, Coalesced

-----------------------------------------------------------------------------
(* alloc_pages.                                                             *)

LEMMA TakeWholeStep ==
  ASSUME IInv, NEW n \in 1 .. MaxBin, NEW small \in BOOLEAN, TakeWhole(n, small)
  PROVE  IInv' /\ \E b : b \notin blocks /\ blocks' = blocks \cup {b}
<1> USE PageHeapAssumption
<1> DEFINE k == Head(pagemap[n])
           s == Handed(spans[k], n, small)
           new == [addr |-> s.free_objects, pages |-> s.pages, small |-> s.small]
<1>1. /\ Fitting(n) # {} /\ Min(Fitting(n)) = n
      /\ pagemap' = [pagemap EXCEPT ![n] = Tail(pagemap[n])]
      /\ spans' = [spans EXCEPT ![k] = s]
      /\ blocks' = blocks \cup {new}
      /\ UNCHANGED <<db, cur>>
  BY DEF TakeWhole, HandOut
<1>2. /\ n \in Bins /\ k \in Binned /\ k \in Current /\ k \in DOMAIN spans
      /\ spans[k].pages = n
      /\ Tail(pagemap[n]) \in Seq(DOMAIN spans) /\ IsInjective(Tail(pagemap[n]))
      /\ ToSet(Tail(pagemap[n])) = ToSet(pagemap[n]) \ {k}
      /\ \A c \in Bins \ {n} : k \notin ToSet(pagemap[c])
  BY <1>1, BinHead
<1>3. /\ Len(spans) \in Nat /\ DOMAIN spans = 1 .. Len(spans)
      /\ \A id \in DOMAIN spans : spans[id] \in Span /\ id # NULL
      /\ Current \subseteq DOMAIN spans
  BY SpanFacts
<1>4. /\ s \in Span /\ s.start = spans[k].start /\ s.pages = n /\ s.small = small
      /\ s.free_objects = s.start
      /\ IF small THEN s.num_free + s.num_alloc = ObjsPerSpan
                  ELSE s.num_free = 0 /\ s.num_alloc = 1
  <2>1. spans[k] \in Span /\ n \in 1 .. NPages /\ spans[k].free_objects = spans[k].start
    BY <1>2, <1>3, SpanFacts DEF Span
  <2> QED
    BY <2>1, HandedFacts
<1>5. new = [addr |-> spans[k].start, pages |-> n, small |-> small]
  BY <1>4
<1> HIDE DEF k, s, new
<1>6. TypeOK
  BY DEF IInv
<1>7. /\ spans' \in Seq(Span) /\ Len(spans') = Len(spans) /\ DOMAIN spans' = DOMAIN spans
      /\ spans'[k] = s /\ \A id \in DOMAIN spans \ {k} : spans'[id] = spans[id]
  <2>1. spans \in Seq(Span)
    BY <1>6 DEF TypeOK
  <2> QED
    BY <1>1, <1>2, <1>4, <2>1
<1>8. /\ pagemap'[n] = Tail(pagemap[n]) /\ \A c \in Bins \ {n} : pagemap'[c] = pagemap[c]
      /\ pagemap' \in [Bins -> Seq(1 .. Len(spans))]
  <2>1. pagemap \in [Bins -> Seq(1 .. Len(spans))]
    BY <1>6 DEF TypeOK
  <2> QED
    BY <1>1, <1>2, <1>3, <2>1
<1>9. TypeOK'
  <2>1. new.addr \in Pages /\ new.pages \in 1 .. NPages /\ new.small \in BOOLEAN
    BY <1>2, <1>3, <1>5 DEF Span
  <2> QED
    BY <1>1, <1>6, <1>7, <1>8, <2>1 DEF TypeOK
<1>10. \A id \in DOMAIN spans : spans'[id].start = spans[id].start /\ spans'[id].pages = spans[id].pages
  BY <1>2, <1>4, <1>7
<1>11. Binned' = Binned \ {k}
  <2>1. \A id : id \in Binned <=> \E b \in Bins : id \in ToSet(pagemap[b])
    BY DEF Binned
  <2>2. \A id : id \in Binned' <=> \E b \in Bins : id \in ToSet(pagemap'[b])
    BY DEF Binned
  <2>3. ASSUME NEW b \in Bins PROVE ToSet(pagemap'[b]) = ToSet(pagemap[b]) \ {k}
    <3>1. CASE b = n
      BY <1>2, <1>8, <3>1
    <3>2. CASE b # n
      <4>1. pagemap'[b] = pagemap[b] /\ k \notin ToSet(pagemap[b])
        BY <1>2, <1>8, <3>2
      <4> QED
        BY <4>1
    <3> QED
      BY <3>1, <3>2
  <2> QED
    BY <2>1, <2>2, <2>3
<1>12. InUse' = InUse \cup {k} /\ BeingFreed' = BeingFreed
  <2>1. db[new.addr] = k
    BY <1>2, <1>5, SpanFacts
  <2> QED
    BY <1>1, <1>2, <1>7, <2>1 DEF InUse, BeingFreed
<1>13. Current' = Current
  BY <1>2, <1>11, <1>12 DEF Current
<1>14. SpanInv'
  <2>1. \A id \in Current : SpanRange(spans'[id]) = SpanRange(spans[id])
                            /\ spans'[id].free_objects = spans'[id].start
    BY <1>3, <1>4, <1>7, <1>10, SpanFacts DEF SpanRange
  <2> QED
    BY <1>1, <1>13, <2>1 DEF IInv, SpanInv
<1>15. TreeInv'
  BY <1>1, <1>3, <1>10, <1>13 DEF IInv, TreeInv, SpanRange
<1>16. BinInv'
  <2>1. \A id \in Binned' : id \in Binned /\ id \in DOMAIN spans /\ spans'[id] = spans[id]
    BY <1>3, <1>7, <1>11 DEF Current
  <2>2. \A b \in Bins : IsInjective(pagemap'[b]) /\ ToSet(pagemap'[b]) \subseteq ToSet(pagemap[b])
    BY <1>2, <1>8 DEF IInv, BinInv
  <2>3. \A b \in Bins : ToSet(pagemap'[b]) \subseteq Binned'
    BY DEF Binned
  <2> QED
    BY <2>1, <2>2, <2>3 DEF IInv, BinInv
<1>17. FreeingInv'
  <2>1. \A t \in Threads : cur[t] # NULL => cur[t] # k /\ cur[t] \in DOMAIN spans
    BY <1>2, <1>3, <1>6 DEF IInv, FreeingInv, TypeOK
  <2> QED
    BY <1>1, <1>7, <1>11, <2>1 DEF IInv, FreeingInv
<1>18. k \notin BeingFreed
  BY <1>2, FreeIsBinned
<1>19. \A b \in blocks : db[b.addr] # k /\ db[b.addr] \in DOMAIN spans
  BY <1>2, <1>3, <1>6 DEF IInv, BlockInv, TypeOK
<1>20. BlockInv'
  <2>1. \A b \in blocks : spans'[db[b.addr]] = spans[db[b.addr]]
    BY <1>7, <1>19
  <2>2. db[new.addr] = k /\ new.small = small
    BY <1>2, <1>5, SpanFacts
  <2>3. new = [addr |-> spans'[k].start, pages |-> spans'[k].pages, small |-> spans'[k].small]
    BY <1>4, <1>5, <1>7
  <2>4. k # NULL /\ k \notin Binned' \cup BeingFreed'
    BY <1>2, <1>3, <1>11, <1>12, <1>18
  <2>5. /\ db'[new.addr] # NULL /\ db'[new.addr] \notin Binned' \cup BeingFreed'
        /\ new = [addr |-> spans'[db'[new.addr]].start, pages |-> spans'[db'[new.addr]].pages,
                  small |-> spans'[db'[new.addr]].small]
        /\ IF new.small
           THEN spans'[db'[new.addr]].num_free + spans'[db'[new.addr]].num_alloc = ObjsPerSpan
           ELSE spans'[db'[new.addr]].num_free = 0 /\ spans'[db'[new.addr]].num_alloc = 1
    BY <1>1, <1>4, <1>7, <2>2, <2>3, <2>4
  <2>6. \A b \in blocks : db'[b.addr] = db[b.addr] /\ db[b.addr] \notin Binned' \cup BeingFreed'
    BY <1>1, <1>11, <1>12 DEF IInv, BlockInv
  <2>7. \A b \in blocks' : b \in blocks \/ b = new
    BY <1>1
  <2> QED
    BY <2>1, <2>5, <2>6, <2>7 DEF IInv, BlockInv
<1>21. Coalesced'
  <2>1. \A id \in Binned' : id \in Binned /\ BackOf(spans[id])' = BackOf(spans[id])
    BY <1>1, <1>3, <1>10, <1>11 DEF BackOf, search_tree, Current
  <2> QED
    BY <1>11, <2>1 DEF IInv, Coalesced
<1>22. new \notin blocks
  BY <1>2, <1>5, <1>19, SpanFacts
<1> QED
  BY <1>1, <1>9, <1>14, <1>15, <1>16, <1>17, <1>20, <1>21, <1>22 DEF IInv

LEMMA SplitStep ==
  ASSUME IInv, NEW n \in 1 .. MaxBin, NEW small \in BOOLEAN, Split(n, small)
  PROVE  IInv' /\ \E b : b \notin blocks /\ blocks' = blocks \cup {b}
<1> USE PageHeapAssumption
<1> DEFINE b == Min(Fitting(n))
           k == Head(pagemap[b])
           s == Handed(spans[k], n, small)
           r == Remainder(spans[k], n)
           rid == Len(spans) + 1
           new == [addr |-> s.free_objects, pages |-> s.pages, small |-> s.small]
<1>1. /\ Fitting(n) # {} /\ b > n /\ rid <= MaxSpans
      /\ pagemap' = [pagemap EXCEPT ![b] = Tail(pagemap[b]), ![b - n] = <<rid>> \o @]
      /\ spans' = Append([spans EXCEPT ![k] = s], r)
      /\ db' = add_Span(add_Span(db, rid, r), k, s)
      /\ blocks' = blocks \cup {new}
      /\ cur' = cur
  BY DEF Split, HandOut
<1>2. /\ b \in n .. MaxBin /\ b \in Bins
      /\ k \in Binned /\ k \in Current /\ k \in DOMAIN spans
      /\ spans[k].pages = b
      /\ Tail(pagemap[b]) \in Seq(DOMAIN spans) /\ IsInjective(Tail(pagemap[b]))
      /\ ToSet(Tail(pagemap[b])) = ToSet(pagemap[b]) \ {k}
      /\ \A c \in Bins \ {b} : k \notin ToSet(pagemap[c])
  BY <1>1, BinHead
<1>3. /\ Len(spans) \in Nat /\ DOMAIN spans = 1 .. Len(spans)
      /\ \A id \in DOMAIN spans : spans[id] \in Span /\ id # NULL
      /\ Current \subseteq DOMAIN spans
  BY SpanFacts
<1>4. /\ s \in Span /\ s.start = spans[k].start /\ s.pages = n /\ s.small = small
      /\ s.free_objects = s.start
      /\ IF small THEN s.num_free + s.num_alloc = ObjsPerSpan
                  ELSE s.num_free = 0 /\ s.num_alloc = 1
  <2>1. spans[k] \in Span /\ n \in 1 .. NPages /\ spans[k].free_objects = spans[k].start
    BY <1>2, <1>3, SpanFacts DEF Span
  <2> QED
    BY <2>1, HandedFacts
<1>5. /\ r \in Span /\ r.start = spans[k].start + n /\ r.pages = b - n
      /\ r.free_objects = r.start /\ r.num_free = 1 /\ r.num_alloc = 0
  <2>1. r = [start |-> spans[k].start + n, pages |-> b - n, small |-> FALSE,
             free_objects |-> spans[k].start + n, num_free |-> 1, num_alloc |-> 0]
    BY <1>2 DEF Remainder
  <2>2. spans[k].start \in Nat /\ spans[k].pages \in 1 .. NPages
    BY <1>2, <1>3 DEF Span, Pages
  <2>3. spans[k].start + n \in SpanRange(spans[k])
    BY <1>1, <1>2, <2>2 DEF SpanRange
  <2>4. spans[k].start + n \in Pages
    BY <1>2, <2>3, SpanFacts
  <2> HIDE DEF r
  <2>5. b - n \in 1 .. NPages
    BY <1>1, <1>2, <2>2
  <2> QED
    BY <2>1, <2>4, <2>5 DEF Span
<1>6. new = [addr |-> spans[k].start, pages |-> n, small |-> small]
  BY <1>4
<1> HIDE DEF b, k, s, r, new
<1>7. TypeOK
  BY DEF IInv
<1>8. /\ spans' \in Seq(Span) /\ Len(spans') = rid /\ DOMAIN spans' = DOMAIN spans \cup {rid}
      /\ spans'[k] = s /\ spans'[rid] = r
      /\ \A id \in DOMAIN spans \ {k} : spans'[id] = spans[id]
      /\ rid \notin DOMAIN spans /\ rid # NULL
  <2> DEFINE t == [spans EXCEPT ![k] = s]
  <2>1. /\ t \in Seq(Span) /\ Len(t) = Len(spans) /\ DOMAIN t = DOMAIN spans
        /\ t[k] = s /\ \A id \in DOMAIN spans \ {k} : t[id] = spans[id]
    <3>1. spans \in Seq(Span)
      BY <1>7 DEF TypeOK
    <3> QED
      BY <1>2, <1>4, <3>1
  <2> HIDE DEF t
  <2>2. spans' = Append(t, r)
    BY <1>1 DEF t
  <2>3. /\ spans' \in Seq(Span) /\ Len(spans') = Len(t) + 1
        /\ \A id \in 1 .. Len(t) : spans'[id] = t[id]
        /\ spans'[Len(t) + 1] = r
    BY <1>5, <2>1, <2>2, AppendProperties
  <2>4. DOMAIN spans' = 1 .. rid
    BY <2>1, <2>3
  <2>5. rid \notin DOMAIN spans /\ rid # NULL /\ 1 .. rid = DOMAIN spans \cup {rid}
    BY <1>3
  <2> QED
    BY <1>2, <1>3, <2>1, <2>3, <2>4, <2>5
<1>9. /\ pagemap'[b] = Tail(pagemap[b]) /\ pagemap'[b - n] = <<rid>> \o pagemap[b - n]
      /\ \A c \in Bins \ {b, b - n} : pagemap'[c] = pagemap[c]
      /\ DOMAIN pagemap' = Bins /\ pagemap' = [c \in Bins |-> pagemap'[c]]
      /\ b - n \in Bins /\ b - n # b /\ BinOf(b - n) = b - n
  <2>1. b - n \in Bins /\ b - n # b /\ BinOf(b - n) = b - n
    BY <1>1, <1>2 DEF Bins, BigBin, BinOf
  <2>2. DOMAIN pagemap = Bins
    BY <1>7 DEF TypeOK
  <2> HIDE DEF rid
  <2> QED
    BY <1>1, <1>2, <2>1, <2>2
<1>10. /\ \A c \in Bins : pagemap'[c] \in Seq(1 .. rid) /\ IsInjective(pagemap'[c])
       /\ ToSet(pagemap'[b - n]) = ToSet(pagemap[b - n]) \cup {rid}
  <2>1. \A c \in Bins : pagemap[c] \in Seq(1 .. rid) /\ IsInjective(pagemap[c])
    <3>1. \A c \in Bins : pagemap[c] \in Seq(1 .. Len(spans))
      BY <1>7 DEF TypeOK
    <3> QED
      BY <1>3, <3>1 DEF IInv, BinInv
  <2>2. rid \notin ToSet(pagemap[b - n])
    BY <1>3, <1>8, <1>9 DEF Current, Binned
  <2>3. Tail(pagemap[b]) \in Seq(1 .. rid)
    BY <1>2, <1>3
  <2>4. /\ <<rid>> \o pagemap[b - n] \in Seq(1 .. rid) /\ IsInjective(<<rid>> \o pagemap[b - n])
        /\ ToSet(<<rid>> \o pagemap[b - n]) = ToSet(pagemap[b - n]) \cup {rid}
    <3>1. rid \in 1 .. rid
      BY <1>3
    <3> HIDE DEF rid
    <3> QED
      BY <1>9, <2>1, <2>2, <3>1, WithFront
  <2> HIDE DEF rid
  <2>5. ASSUME NEW c \in Bins PROVE pagemap'[c] \in Seq(1 .. rid) /\ IsInjective(pagemap'[c])
    BY <1>2, <1>9, <2>1, <2>3, <2>4
  <2> QED
    BY <1>9, <2>4, <2>5
<1> HIDE DEF rid
<1>11a. ASSUME NEW c \in Bins
        PROVE  ToSet(pagemap'[c]) = (ToSet(pagemap[c]) \ {k}) \cup IF c = b - n THEN {rid} ELSE {}
  <2>1. CASE c = b
    BY <1>2, <1>9, <2>1
  <2>2. CASE c = b - n
    <3>1. k \notin ToSet(pagemap[c])
      BY <1>2, <1>9, <2>2
    <3> QED
      BY <1>10, <2>2, <3>1
  <2>3. CASE c \notin {b, b - n}
    <3>1. pagemap'[c] = pagemap[c] /\ k \notin ToSet(pagemap[c])
      BY <1>2, <1>9, <2>3
    <3> QED
      BY <2>3, <3>1
  <2> QED
    BY <2>1, <2>2, <2>3
<1>11. Binned' = (Binned \ {k}) \cup {rid}
  <2>1. \A id : id \in Binned <=> \E c \in Bins : id \in ToSet(pagemap[c])
    BY DEF Binned
  <2>2. \A id : id \in Binned' <=> \E c \in Bins : id \in ToSet(pagemap'[c])
    BY DEF Binned
  <2>3. k # rid
    BY <1>2, <1>8
  <2> QED
    BY <1>9, <1>11a, <2>1, <2>2, <2>3
(* The pages of span k are shared out; those of other spans stay.           *)
<1>12. \A p \in Pages : db[p] = k <=> p \in SpanRange(spans[k])
  BY <1>2, <1>3, SpanFacts DEF IInv, TreeInv
<1>13. /\ \A p \in SpanRange(spans[k]) : p \in SpanRange(s) <=> ~(p \in SpanRange(r))
       /\ SpanRange(s) \subseteq SpanRange(spans[k]) /\ SpanRange(r) \subseteq SpanRange(spans[k])
       /\ spans[k].start \in SpanRange(s)
  <2> DEFINE a == spans[k].start
  <2>1. a \in Nat
    BY <1>2, <1>3 DEF Span, Pages
  <2>2. /\ SpanRange(spans[k]) = a .. a + b - 1 /\ SpanRange(s) = a .. a + n - 1
        /\ SpanRange(r) = a + n .. a + n + (b - n) - 1
    BY <1>2, <1>4, <1>5 DEF SpanRange
  <2> HIDE DEF a
  <2>3. /\ \A p \in a .. a + b - 1 : p \in a .. a + n - 1 <=> ~(p \in a + n .. a + n + (b - n) - 1)
        /\ a .. a + n - 1 \subseteq a .. a + b - 1
        /\ a + n .. a + n + (b - n) - 1 \subseteq a .. a + b - 1
        /\ a \in a .. a + n - 1
    BY <1>1, <1>2, <2>1
  <2> QED
    BY <2>2, <2>3 DEF a
<1>15. /\ DOMAIN db' = Pages /\ db' = [p \in Pages |-> db'[p]]
       /\ \A p \in Pages : /\ db[p] # k => db'[p] = db[p]
                           /\ p \in SpanRange(s) => db'[p] = k
                           /\ p \in SpanRange(r) => db'[p] = rid
  <2>1. db' = [p \in Pages |-> IF p \in SpanRange(s) THEN k
                               ELSE IF p \in SpanRange(r) THEN rid ELSE db[p]]
    BY <1>1 DEF add_Span
  <2> QED
    BY <1>12, <1>13, <2>1
<1>16. TypeOK'
  <2>1. new.addr \in Pages /\ new.pages \in 1 .. NPages /\ new.small \in BOOLEAN
    BY <1>2, <1>3, <1>4, <1>6 DEF Span
  <2>2. \A x \in blocks' : x.addr \in Pages /\ x.pages \in 1 .. NPages /\ x.small \in BOOLEAN
    BY <1>1, <1>7, <2>1 DEF TypeOK
  <2>3. \A p \in Pages : db'[p] \in (1 .. rid) \cup {NULL}
    <3>1. \A p \in Pages : db[p] \in DOMAIN spans \cup {NULL}
      BY <1>3, <1>7 DEF TypeOK
    <3>2. DOMAIN spans \subseteq 1 .. rid /\ k \in 1 .. rid /\ rid \in 1 .. rid
      BY <1>2, <1>3 DEF rid
    <3> QED
      BY <1>12, <1>13, <1>15, <3>1, <3>2
  <2>4. db' \in [Pages -> (1 .. rid) \cup {NULL}]
    BY <1>15, <2>3
  <2>5. cur' \in [Threads -> (1 .. rid) \cup {NULL}]
    <3>1. 1 .. Len(spans) \subseteq 1 .. rid
      BY <1>3 DEF rid
    <3> QED
      BY <1>1, <1>7, <3>1 DEF TypeOK
  <2>6. pagemap' \in [Bins -> Seq(1 .. rid)]
    BY <1>9, <1>10
  <2> QED
    BY <1>1, <1>8, <2>2, <2>4, <2>5, <2>6 DEF TypeOK
<1>17. \A x \in blocks : /\ db[x.addr] # k /\ db[x.addr] # rid /\ db[x.addr] \in DOMAIN spans
                        /\ db'[x.addr] = db[x.addr] /\ x.addr \in Pages
  <2> SUFFICES ASSUME NEW x \in blocks
               PROVE  /\ db[x.addr] # k /\ db[x.addr] # rid /\ db[x.addr] \in DOMAIN spans
                      /\ db'[x.addr] = db[x.addr] /\ x.addr \in Pages
    OBVIOUS
  <2>1. x.addr \in Pages /\ db[x.addr] \in 1 .. Len(spans) \cup {NULL}
    BY <1>7 DEF TypeOK
  <2>2. db[x.addr] # NULL /\ db[x.addr] \notin Binned
    BY DEF IInv, BlockInv
  <2> QED
    BY <1>2, <1>3, <1>8, <1>15, <2>1, <2>2
<1>18. db'[new.addr] = k
  <2>1. spans[k].start \in Pages
    BY <1>2, <1>3 DEF Span
  <2> QED
    BY <1>6, <1>13, <1>15, <2>1
<1>19. InUse' = InUse \cup {k} /\ BeingFreed' = BeingFreed
  <2>1. ASSUME NEW id PROVE id \in InUse' <=> id \in InUse \/ id = k
    BY <1>1, <1>2, <1>8, <1>17, <1>18 DEF InUse
  <2> QED
    BY <1>1, <2>1 DEF BeingFreed
<1>20. Current' = Current \cup {rid} /\ rid \notin Current /\ rid # k
  BY <1>2, <1>3, <1>8, <1>11, <1>19 DEF Current
<1>21. SpanInv'
  <2>1. ASSUME NEW id \in Current, id # k
        PROVE  /\ spans'[id].free_objects = spans'[id].start
               /\ \A p \in SpanRange(spans'[id]) : p \in Pages /\ db'[p] = id
    <3>1. spans'[id] = spans[id]
      BY <1>3, <1>8, <2>1
    <3> QED
      BY <1>15, <2>1, <3>1, SpanFacts
  <2>2. ASSUME NEW id \in {k, rid}
        PROVE  /\ spans'[id].free_objects = spans'[id].start
               /\ \A p \in SpanRange(spans'[id]) : p \in Pages /\ db'[p] = id
    BY <1>2, <1>4, <1>5, <1>8, <1>13, <1>15, SpanFacts
  <2> QED
    BY <1>20, <2>1, <2>2 DEF SpanInv
<1>22. TreeInv'
  <2> SUFFICES ASSUME NEW p \in Pages, db'[p] # NULL
               PROVE  db'[p] \in Current' /\ p \in SpanRange(spans'[db'[p]])
    BY DEF TreeInv
  <2>1. CASE db[p] = k
    BY <1>2, <1>8, <1>12, <1>13, <1>15, <1>20, <2>1
  <2>2. CASE db[p] # k
    <3>1. db'[p] = db[p]
      BY <1>15, <2>2
    <3>2. db[p] \in Current /\ p \in SpanRange(spans[db[p]])
      BY <3>1 DEF IInv, TreeInv
    <3>3. spans'[db[p]] = spans[db[p]]
      BY <1>3, <1>8, <2>2, <3>2
    <3> QED
      BY <1>20, <3>1, <3>2, <3>3
  <2> QED
    BY <2>1, <2>2
<1>23. BinInv'
  <2>1. \A id \in Binned \ {k} : id \in DOMAIN spans /\ spans'[id] = spans[id]
    BY <1>3, <1>8 DEF Current
  <2>2. ASSUME NEW c \in Bins, NEW id \in ToSet(pagemap'[c])
        PROVE  BinOf(spans'[id].pages) = c
    <3>1. CASE id = rid
      <4>1. c = b - n
        <5>1. rid \notin Binned
          BY <1>20 DEF Current
        <5>2. rid \notin ToSet(pagemap[c]) /\ rid \notin ToSet(pagemap[b])
          BY <1>2, <5>1 DEF Binned
        <5> QED
          BY <1>2, <1>9, <2>2, <3>1, <5>2
      <4> QED
        BY <1>5, <1>8, <1>9, <3>1, <4>1
    <3>2. CASE id # rid
      <4>1. id \in ToSet(pagemap[c]) /\ id # k
        BY <1>11a, <2>2, <3>2
      <4>2. id \in Binned \ {k}
        BY <4>1 DEF Binned
      <4> QED
        BY <2>1, <4>1, <4>2 DEF IInv, BinInv
    <3> QED
      BY <3>1, <3>2
  <2>3. \A id \in Binned' : spans'[id].num_alloc = 0 /\ spans'[id].num_free = 1
    BY <1>5, <1>8, <1>11, <2>1 DEF IInv, BinInv
  <2> QED
    BY <1>10, <2>2, <2>3 DEF BinInv
<1>24. FreeingInv'
  <2>1. \A t \in Threads : cur[t] # NULL =>
           cur[t] # k /\ cur[t] # rid /\ cur[t] \in DOMAIN spans
    BY <1>2, <1>3, <1>7, <1>8 DEF IInv, FreeingInv, TypeOK
  <2>2. \A t \in Threads : cur[t] # NULL =>
          /\ spans'[cur[t]].num_alloc = 1 /\ spans'[cur[t]].num_free = 0
          /\ cur[t] \notin Binned'
    BY <1>8, <1>11, <2>1 DEF IInv, FreeingInv
  <2> QED
    BY <1>1, <2>2 DEF IInv, FreeingInv
<1>25. BlockInv'
  <2>1. \A x \in blocks : spans'[db[x.addr]] = spans[db[x.addr]]
    BY <1>8, <1>17
  <2>2. new = [addr |-> spans'[k].start, pages |-> spans'[k].pages, small |-> spans'[k].small]
    BY <1>4, <1>6, <1>8
  <2>3. k # NULL /\ k \notin Binned' \cup BeingFreed'
    BY <1>2, <1>3, <1>11, <1>19, <1>20, FreeIsBinned
  <2>4. /\ db'[new.addr] # NULL /\ db'[new.addr] \notin Binned' \cup BeingFreed'
        /\ new = [addr |-> spans'[db'[new.addr]].start, pages |-> spans'[db'[new.addr]].pages,
                  small |-> spans'[db'[new.addr]].small]
        /\ IF new.small
           THEN spans'[db'[new.addr]].num_free + spans'[db'[new.addr]].num_alloc = ObjsPerSpan
           ELSE spans'[db'[new.addr]].num_free = 0 /\ spans'[db'[new.addr]].num_alloc = 1
    BY <1>4, <1>6, <1>8, <1>18, <2>2, <2>3
  <2>5. \A x \in blocks : db'[x.addr] = db[x.addr] /\ db[x.addr] \notin Binned' \cup BeingFreed'
    BY <1>11, <1>17, <1>19 DEF IInv, BlockInv
  <2>6. \A x \in blocks' : x \in blocks \/ x = new
    BY <1>1
  <2> QED
    BY <2>1, <2>4, <2>5, <2>6 DEF IInv, BlockInv
<1>26. Coalesced'
  <2> SUFFICES ASSUME NEW id \in Binned' PROVE BackOf(spans[id])' \notin Binned'
    BY DEF Coalesced
  <2>1. ASSUME NEW p, IF p \in Pages THEN db[p] \notin Binned ELSE TRUE
        PROVE  (IF p \in Pages THEN db'[p] ELSE NULL) \notin Binned'
    <3>1. NULL \notin Binned'
      <4>1. NULL \notin Binned
        BY <1>3 DEF Current
      <4> QED
        BY <1>8, <1>11, <4>1
    <3>2. CASE p \in Pages
      <4>1. db[p] \in DOMAIN spans \cup {NULL}
        BY <1>3, <1>7, <3>2 DEF TypeOK
      <4>2. db[p] # k /\ db[p] \notin Binned'
        BY <1>2, <1>8, <1>11, <2>1, <3>2, <4>1
      <4> QED
        BY <1>15, <3>2, <4>2
    <3> QED
      BY <3>1, <3>2
  <2>2. \A x \in Binned : IF spans[x].start + spans[x].pages \in Pages
                          THEN db[spans[x].start + spans[x].pages] \notin Binned ELSE TRUE
    BY DEF IInv, Coalesced, BackOf, search_tree
  <2>3. (IF spans'[id].start + spans'[id].pages \in Pages
         THEN db'[spans'[id].start + spans'[id].pages] ELSE NULL) \notin Binned'
    <3>1. CASE id = rid
      <4>1. spans'[id].start + spans'[id].pages = spans[k].start + spans[k].pages
        <5>1. spans[k].start \in Nat
          BY <1>2, <1>3 DEF Span, Pages
        <5> QED
          BY <1>2, <1>5, <1>8, <3>1, <5>1
      <4> QED
        BY <1>2, <2>1, <2>2, <4>1
    <3>2. CASE id # rid
      <4>1. id \in Binned /\ id \in DOMAIN spans /\ spans'[id] = spans[id]
        BY <1>3, <1>8, <1>11, <3>2 DEF Current
      <4> QED
        BY <2>1, <2>2, <4>1
    <3> QED
      BY <3>1, <3>2
  <2> QED
    BY <2>3 DEF BackOf, search_tree
<1>27. new \notin blocks
  <2>1. db[new.addr] = k
    BY <1>2, <1>3, <1>6, SpanFacts
  <2> QED
    BY <1>17, <2>1
<1> QED
  BY <1>1, <1>16, <1>21, <1>22, <1>23, <1>24, <1>25, <1>26, <1>27 DEF IInv

LEMMA MapPagesStep ==
  ASSUME IInv, NEW n \in 1 .. MaxBin, NEW small \in BOOLEAN, MapPages(n, small)
  PROVE  IInv' /\ \E b : b \notin blocks /\ blocks' = blocks \cup {b}
<1> USE PageHeapAssumption
<1> DEFINE fresh(a) == [start |-> a, pages |-> n, small |-> small, free_objects |-> a,
                        num_free |-> 0, num_alloc |-> 0]
<1>1. PICK a \in Pages :
        LET s == Handed(fresh(a), n, small) IN
        /\ Len(spans) + 1 <= MaxSpans
        /\ SpanRange(s) \subseteq {p \in Pages : db[p] = NULL}
        /\ spans' = Append(spans, s)
        /\ db' = add_Span(db, Len(spans) + 1, s)
        /\ blocks' = blocks \cup {[addr |-> s.free_objects, pages |-> s.pages, small |-> s.small]}
        /\ pagemap' = pagemap /\ cur' = cur
  BY DEF MapPages, HandOut
<1> DEFINE s == Handed(fresh(a), n, small)
           rid == Len(spans) + 1
           new == [addr |-> s.free_objects, pages |-> s.pages, small |-> s.small]
<1>2. /\ rid <= MaxSpans /\ SpanRange(s) \subseteq {p \in Pages : db[p] = NULL}
      /\ spans' = Append(spans, s) /\ db' = add_Span(db, rid, s)
      /\ blocks' = blocks \cup {new} /\ pagemap' = pagemap /\ cur' = cur
  BY <1>1
<1>3. /\ Len(spans) \in Nat /\ DOMAIN spans = 1 .. Len(spans)
      /\ \A id \in DOMAIN spans : spans[id] \in Span /\ id # NULL
      /\ Current \subseteq DOMAIN spans
  BY SpanFacts
<1>4. /\ s \in Span /\ s.start = a /\ s.pages = n /\ s.small = small
      /\ s.free_objects = s.start
      /\ IF small THEN s.num_free + s.num_alloc = ObjsPerSpan
                  ELSE s.num_free = 0 /\ s.num_alloc = 1
  <2>1. s.start = a /\ s.pages = n
    BY DEF Handed
  <2> HIDE DEF s
  <2>2. a \in Nat /\ a + n - 1 \in a .. a + n - 1 /\ a .. a + n - 1 \subseteq Pages
    BY <1>2, <2>1 DEF SpanRange, Pages
  <2>3. n \in 1 .. NPages
    BY <2>2 DEF Pages
  <2>4. /\ fresh(a) \in Span /\ fresh(a).start = a /\ fresh(a).free_objects = a
    BY <2>3 DEF Span
  <2> HIDE DEF fresh
  <2> QED
    BY <2>3, <2>4, HandedFacts DEF s
<1>5. new = [addr |-> a, pages |-> n, small |-> small]
  BY <1>4
<1> HIDE DEF s, new, fresh
<1>6. TypeOK
  BY DEF IInv
<1>7. /\ spans' \in Seq(Span) /\ Len(spans') = rid /\ DOMAIN spans' = DOMAIN spans \cup {rid}
      /\ spans'[rid] = s /\ \A id \in DOMAIN spans : spans'[id] = spans[id]
      /\ rid \notin DOMAIN spans /\ rid # NULL
  <2>1. spans \in Seq(Span)
    BY <1>6 DEF TypeOK
  <2>2. /\ spans' \in Seq(Span) /\ Len(spans') = Len(spans) + 1
        /\ \A id \in 1 .. Len(spans) : spans'[id] = spans[id]
        /\ spans'[Len(spans) + 1] = s
    BY <1>2, <1>4, <2>1, AppendProperties
  <2>3. DOMAIN spans' = 1 .. rid
    BY <2>2
  <2>4. rid \notin DOMAIN spans /\ rid # NULL /\ 1 .. rid = DOMAIN spans \cup {rid}
    BY <1>3
  <2> QED
    BY <1>3, <2>2, <2>3, <2>4
<1>8. DOMAIN spans \subseteq 1 .. rid /\ 1 .. Len(spans) \subseteq 1 .. rid /\ rid \in 1 .. rid
  BY <1>3
<1> HIDE DEF rid
<1>9. /\ SpanRange(s) \subseteq Pages /\ a \in SpanRange(s)
      /\ \A p \in SpanRange(s) : db[p] = NULL /\ db'[p] = rid
      /\ \A p \in Pages : p \notin SpanRange(s) => db'[p] = db[p]
      /\ DOMAIN db' = Pages /\ db' = [p \in Pages |-> db'[p]]
  <2>1. a \in SpanRange(s)
    BY <1>4 DEF SpanRange, Pages
  <2> QED
    BY <1>2, <2>1 DEF add_Span
<1>10. TypeOK'
  <2>1. new.addr \in Pages /\ new.pages \in 1 .. NPages /\ new.small \in BOOLEAN
    BY <1>4, <1>5 DEF Span
  <2>2. \A x \in blocks' : x.addr \in Pages /\ x.pages \in 1 .. NPages /\ x.small \in BOOLEAN
    BY <1>2, <1>6, <2>1 DEF TypeOK
  <2>3. \A p \in Pages : db'[p] \in (1 .. rid) \cup {NULL}
    <3>1. \A p \in Pages : db[p] \in 1 .. Len(spans) \cup {NULL}
      BY <1>6 DEF TypeOK
    <3> QED
      BY <1>8, <1>9, <3>1
  <2>4. db' \in [Pages -> (1 .. rid) \cup {NULL}]
    BY <1>9, <2>3
  <2>5. cur' \in [Threads -> (1 .. rid) \cup {NULL}]
    BY <1>2, <1>6, <1>8 DEF TypeOK
  <2>6. pagemap' \in [Bins -> Seq(1 .. rid)]
    <3>1. pagemap \in [Bins -> Seq(1 .. Len(spans))]
      BY <1>6 DEF TypeOK
    <3>2. \A c \in Bins : pagemap[c] \in Seq(1 .. rid)
      BY <1>8, <3>1
    <3> QED
      BY <1>2, <3>1, <3>2
  <2> QED
    BY <1>2, <1>7, <2>2, <2>4, <2>5, <2>6 DEF TypeOK
<1>11. \A x \in blocks : /\ x.addr \in Pages /\ db[x.addr] \in DOMAIN spans
                        /\ db[x.addr] # NULL /\ db'[x.addr] = db[x.addr]
  <2> SUFFICES ASSUME NEW x \in blocks
               PROVE  /\ x.addr \in Pages /\ db[x.addr] \in DOMAIN spans
                      /\ db[x.addr] # NULL /\ db'[x.addr] = db[x.addr]
    OBVIOUS
  <2>1. x.addr \in Pages /\ db[x.addr] \in 1 .. Len(spans) \cup {NULL}
    BY <1>6 DEF TypeOK
  <2>2. db[x.addr] # NULL
    BY DEF IInv, BlockInv
  <2> QED
    BY <1>3, <1>9, <2>1, <2>2
<1>12. a \in Pages /\ db[new.addr] = NULL /\ db'[new.addr] = rid
  BY <1>5, <1>9
<1>13. Binned' = Binned /\ BeingFreed' = BeingFreed
  BY <1>2 DEF Binned, BeingFreed
<1>14. InUse' = InUse \cup {rid}
  <2>1. ASSUME NEW id PROVE id \in InUse' <=> id \in InUse \/ id = rid
    BY <1>2, <1>7, <1>11, <1>12 DEF InUse
  <2> QED
    BY <2>1
<1>15. Current' = Current \cup {rid} /\ rid \notin Current
  BY <1>3, <1>7, <1>13, <1>14 DEF Current
<1>16. SpanInv'
  <2>1. ASSUME NEW id \in Current
        PROVE  /\ spans'[id].free_objects = spans'[id].start
               /\ \A p \in SpanRange(spans'[id]) : p \in Pages /\ db'[p] = id
    <3>1. spans'[id] = spans[id] /\ id # NULL
      BY <1>3, <1>7, <2>1
    <3>2. \A p \in SpanRange(spans[id]) : p \notin SpanRange(s)
      BY <1>9, <3>1, SpanFacts
    <3> QED
      BY <1>9, <3>1, <3>2, SpanFacts
  <2>2. /\ spans'[rid].free_objects = spans'[rid].start
        /\ \A p \in SpanRange(spans'[rid]) : p \in Pages /\ db'[p] = rid
    BY <1>4, <1>7, <1>9
  <2> QED
    BY <1>15, <2>1, <2>2 DEF SpanInv
<1>17. TreeInv'
  <2> SUFFICES ASSUME NEW p \in Pages, db'[p] # NULL
               PROVE  db'[p] \in Current' /\ p \in SpanRange(spans'[db'[p]])
    BY DEF TreeInv
  <2>1. CASE p \in SpanRange(s)
    BY <1>7, <1>9, <1>15, <2>1
  <2>2. CASE p \notin SpanRange(s)
    <3>1. db'[p] = db[p]
      BY <1>9, <2>2
    <3>2. db[p] \in Current /\ p \in SpanRange(spans[db[p]])
      BY <3>1 DEF IInv, TreeInv
    <3>3. spans'[db[p]] = spans[db[p]]
      BY <1>3, <1>7, <3>2
    <3> QED
      BY <1>15, <3>1, <3>2, <3>3
  <2> QED
    BY <2>1, <2>2
<1>18. \A id \in Binned : id \in DOMAIN spans /\ spans'[id] = spans[id] /\ id # rid
  BY <1>3, <1>7 DEF Current
<1>19. BinInv'
  <2>1. \A b \in Bins : \A id \in ToSet(pagemap[b]) : id \in Binned
    BY DEF Binned
  <2> QED
    BY <1>2, <1>13, <1>18, <2>1 DEF IInv, BinInv
<1>20. FreeingInv'
  <2>1. \A t \in Threads : cur[t] # NULL => cur[t] \in DOMAIN spans
    BY <1>3, <1>6 DEF TypeOK
  <2> QED
    BY <1>2, <1>7, <1>13, <2>1 DEF IInv, FreeingInv
<1>21. BlockInv'
  <2>1. \A x \in blocks : spans'[db[x.addr]] = spans[db[x.addr]]
    BY <1>7, <1>11
  <2>2. new = [addr |-> spans'[rid].start, pages |-> spans'[rid].pages, small |-> spans'[rid].small]
    BY <1>4, <1>5, <1>7
  <2>3. rid # NULL /\ rid \notin Binned' \cup BeingFreed'
    BY <1>7, <1>13, <1>15 DEF Current
  <2>4. /\ db'[new.addr] # NULL /\ db'[new.addr] \notin Binned' \cup BeingFreed'
        /\ new = [addr |-> spans'[db'[new.addr]].start, pages |-> spans'[db'[new.addr]].pages,
                  small |-> spans'[db'[new.addr]].small]
        /\ IF new.small
           THEN spans'[db'[new.addr]].num_free + spans'[db'[new.addr]].num_alloc = ObjsPerSpan
           ELSE spans'[db'[new.addr]].num_free = 0 /\ spans'[db'[new.addr]].num_alloc = 1
    BY <1>4, <1>5, <1>7, <1>12, <2>2, <2>3
  <2>5. \A x \in blocks : db'[x.addr] = db[x.addr] /\ db[x.addr] \notin Binned' \cup BeingFreed'
    BY <1>11, <1>13 DEF IInv, BlockInv
  <2>6. \A x \in blocks' : x \in blocks \/ x = new
    BY <1>2
  <2> QED
    BY <2>1, <2>4, <2>5, <2>6 DEF IInv, BlockInv
<1>22. Coalesced'
  <2> SUFFICES ASSUME NEW id \in Binned PROVE BackOf(spans[id])' \notin Binned
    BY <1>13 DEF Coalesced
  <2> DEFINE q == spans[id].start + spans[id].pages
  <2>1. (IF q \in Pages THEN db[q] ELSE NULL) \notin Binned
    BY DEF IInv, Coalesced, BackOf, search_tree
  <2>2. q' = q
    BY <1>18
  <2> HIDE DEF q
  <2>3. (IF q \in Pages THEN db'[q] ELSE NULL) \notin Binned
    BY <1>9, <1>18, <2>1
  <2>4. BackOf(spans[id])' = IF q' \in Pages THEN db'[q'] ELSE NULL
    BY DEF BackOf, search_tree, q
  <2> QED
    BY <2>2, <2>3, <2>4
<1>23. new \notin blocks
  BY <1>11, <1>12
<1> QED
  BY <1>2, <1>10, <1>16, <1>17, <1>19, <1>20, <1>21, <1>22, <1>23 DEF IInv

(* An object of a small span is taken.                                      *)
LEMMA TakeObjectStep ==
  ASSUME IInv, TakeObject
  PROVE  IInv' /\ UNCHANGED blocks
<1> USE PageHeapAssumption
<1>1. PICK b \in blocks :
        /\ b.small /\ spans[db[b.addr]].num_free > 0
        /\ spans' = [spans EXCEPT ![db[b.addr]].num_alloc = @ + 1, ![db[b.addr]].num_free = @ - 1]
        /\ UNCHANGED <<pagemap, db, cur, blocks>>
  BY DEF TakeObject
<1> DEFINE k == db[b.addr]
           s == [[spans[k] EXCEPT !.num_alloc = @ + 1] EXCEPT !.num_free = @ - 1]
<1>2. /\ Len(spans) \in Nat /\ DOMAIN spans = 1 .. Len(spans)
      /\ \A id \in DOMAIN spans : spans[id] \in Span /\ id # NULL
      /\ Current \subseteq DOMAIN spans
  BY SpanFacts
<1>3. TypeOK
  BY DEF IInv
<1>4. /\ k \in DOMAIN spans /\ k \notin Binned \cup BeingFreed
      /\ spans[k].num_free + spans[k].num_alloc = ObjsPerSpan
      /\ spans[k].small = TRUE
  <2>1. k # NULL /\ k \in (1 .. Len(spans)) \cup {NULL}
    BY <1>3 DEF TypeOK, IInv, BlockInv
  <2>2. /\ b.small = TRUE /\ b.small = spans[k].small /\ k \notin Binned \cup BeingFreed
        /\ spans[k].num_free + spans[k].num_alloc = ObjsPerSpan
    BY <1>1, <1>3 DEF TypeOK, IInv, BlockInv
  <2> QED
    BY <1>2, <2>1, <2>2
<1>5. /\ s \in Span /\ s.start = spans[k].start /\ s.pages = spans[k].pages /\ s.small = spans[k].small
      /\ s.free_objects = spans[k].free_objects /\ s.num_free + s.num_alloc = ObjsPerSpan
  <2>1. spans[k] \in Span /\ spans[k].num_free > 0
    BY <1>1, <1>2, <1>4
  <2>2. spans[k].num_alloc + 1 \in 0 .. ObjsPerSpan /\ spans[k].num_free - 1 \in 0 .. ObjsPerSpan
    BY <1>4, <2>1 DEF Span
  <2> HIDE DEF k
  <2> DEFINE x == [spans[k] EXCEPT !.num_alloc = @ + 1]
  <2>3. /\ x \in Span /\ x.start = spans[k].start /\ x.pages = spans[k].pages
        /\ x.small = spans[k].small /\ x.free_objects = spans[k].free_objects
        /\ x.num_alloc = spans[k].num_alloc + 1 /\ x.num_free = spans[k].num_free
    BY <2>1, <2>2 DEF Span
  <2> HIDE DEF x
  <2>4. s = [x EXCEPT !.num_free = @ - 1]
    BY DEF x
  <2> HIDE DEF s
  <2>5. /\ s \in Span /\ s.start = x.start /\ s.pages = x.pages
        /\ s.small = x.small /\ s.free_objects = x.free_objects
        /\ s.num_alloc = x.num_alloc /\ s.num_free = x.num_free - 1
    BY <2>2, <2>3, <2>4 DEF Span
  <2>6. spans[k].num_alloc \in Int /\ spans[k].num_free \in Int
    BY <2>1 DEF Span
  <2> QED
    BY <1>4, <2>3, <2>5, <2>6
<1>6. /\ spans' \in Seq(Span) /\ Len(spans') = Len(spans) /\ DOMAIN spans' = DOMAIN spans
      /\ spans'[k] = s /\ \A id \in DOMAIN spans \ {k} : spans'[id] = spans[id]
  <2>1. spans \in Seq(Span)
    BY <1>3 DEF TypeOK
  <2>2. spans' = [spans EXCEPT ![k] = s]
    BY <1>1, <1>4, <2>1
  <2> HIDE DEF k, s
  <2> QED
    BY <1>4, <1>5, <2>1, <2>2
<1> HIDE DEF s
<1>7. k = db[b.addr]
  OBVIOUS
<1> HIDE DEF k
<1>8a. UNCHANGED <<pagemap, db, cur, blocks>>
  BY <1>1
<1>8. /\ \A id \in DOMAIN spans : /\ spans'[id].start = spans[id].start
                                  /\ spans'[id].pages = spans[id].pages
                                  /\ spans'[id].small = spans[id].small
                                  /\ spans'[id].free_objects = spans[id].free_objects
                                  /\ SpanRange(spans'[id]) = SpanRange(spans[id])
  BY <1>5, <1>6 DEF SpanRange
<1>9. TypeOK'
  BY <1>8a, <1>3, <1>6 DEF TypeOK
<1>10. Binned' = Binned /\ BeingFreed' = BeingFreed /\ InUse' = InUse
  BY <1>8a, <1>6 DEF Binned, BeingFreed, InUse
<1>11. Current' = Current
  BY <1>10 DEF Current
<1>12. SpanInv' /\ TreeInv'
  <2>1. SpanInv'
    BY <1>8a, <1>2, <1>8, <1>11, SpanFacts DEF SpanInv
  <2>2. ASSUME NEW p \in Pages, db[p] # NULL
        PROVE  db[p] \in Current /\ p \in SpanRange(spans'[db[p]])
    BY <1>2, <1>8, <2>2 DEF IInv, TreeInv
  <2> QED
    BY <1>8a, <1>11, <2>1, <2>2 DEF TreeInv
<1>13. \A id \in Binned : id \in DOMAIN spans /\ spans'[id] = spans[id]
  BY <1>2, <1>4, <1>6 DEF Current
<1>14. BinInv'
  <2>1. \A c \in Bins : \A id \in ToSet(pagemap[c]) : id \in Binned
    BY DEF Binned
  <2>2. BinInv
    BY DEF IInv
  <2> QED
    BY <1>8a, <1>10, <1>13, <2>1, <2>2 DEF BinInv
<1>15. FreeingInv'
  <2>1. \A t \in Threads : cur[t] # NULL => cur[t] # k /\ cur[t] \in DOMAIN spans
    BY <1>2, <1>3, <1>4 DEF TypeOK, BeingFreed
  <2>2. FreeingInv
    BY DEF IInv
  <2> QED
    BY <1>8a, <1>6, <1>10, <2>1, <2>2 DEF FreeingInv
<1>16. BlockInv'
  <2> SUFFICES ASSUME NEW x \in blocks
               PROVE  /\ db[x.addr] # NULL /\ db[x.addr] \notin Binned \cup BeingFreed
                      /\ x = [addr |-> spans'[db[x.addr]].start, pages |-> spans'[db[x.addr]].pages,
                              small |-> spans'[db[x.addr]].small]
                      /\ IF x.small
                         THEN spans'[db[x.addr]].num_free + spans'[db[x.addr]].num_alloc = ObjsPerSpan
                         ELSE spans'[db[x.addr]].num_free = 0 /\ spans'[db[x.addr]].num_alloc = 1
    BY <1>8a, <1>10 DEF BlockInv
  <2> DEFINE d == db[x.addr]
  <2>1. /\ d # NULL /\ d \notin Binned \cup BeingFreed /\ x.small \in BOOLEAN
        /\ x = [addr |-> spans[d].start, pages |-> spans[d].pages, small |-> spans[d].small]
        /\ IF x.small
           THEN spans[d].num_free + spans[d].num_alloc = ObjsPerSpan
           ELSE spans[d].num_free = 0 /\ spans[d].num_alloc = 1
    BY <1>3 DEF TypeOK, IInv, BlockInv
  <2>2. d \in DOMAIN spans
    BY <1>2, <1>3, <2>1 DEF TypeOK
  <2> HIDE DEF d
  <2>3. x = [addr |-> spans'[d].start, pages |-> spans'[d].pages, small |-> spans'[d].small]
    BY <1>8, <2>1, <2>2
  <2>4. IF x.small
        THEN spans'[d].num_free + spans'[d].num_alloc = ObjsPerSpan
        ELSE spans'[d].num_free = 0 /\ spans'[d].num_alloc = 1
    <3>1. CASE d = k
      <4>1. x.small = TRUE
        BY <1>4, <2>1, <3>1
      <4> QED
        BY <1>5, <1>6, <3>1, <4>1
    <3>2. CASE d # k
      BY <1>6, <2>1, <2>2, <3>2
    <3> QED
      BY <3>1, <3>2
  <2> QED
    BY <2>1, <2>3, <2>4 DEF d
<1>17. Coalesced'
  BY <1>8a, <1>8, <1>10, <1>13 DEF IInv, Coalesced, BackOf, search_tree
<1> QED
  BY <1>8a, <1>9, <1>12, <1>14, <1>15, <1>16, <1>17 DEF IInv

-----------------------------------------------------------------------------
(* tc_free: the block leaves, its span is kept by the thread.               *)

LEMMA FindSpanStep ==
  ASSUME IInv, NEW t \in Threads, FindSpan(t)
  PROVE  IInv' /\ \E b \in blocks : blocks' = blocks \ {b}
<1> USE PageHeapAssumption
<1>1. PICK b \in blocks :
        /\ cur[t] = NULL /\ ~b.small
        /\ cur' = [cur EXCEPT ![t] = search_tree(b.addr)]
        /\ blocks' = blocks \ {b}
        /\ UNCHANGED <<spans, pagemap, db>>
  BY DEF FindSpan
<1> DEFINE k == db[b.addr]
<1>2. TypeOK /\ BlockInv /\ FreeingInv
  BY DEF IInv
<1>3. /\ Len(spans) \in Nat /\ DOMAIN spans = 1 .. Len(spans)
      /\ \A id \in DOMAIN spans : spans[id] \in Span /\ id # NULL
      /\ Current \subseteq DOMAIN spans
  BY SpanFacts
<1>4. /\ k \in DOMAIN spans /\ k # NULL /\ k \notin Binned \cup BeingFreed
      /\ spans[k].num_free = 0 /\ spans[k].num_alloc = 1
      /\ search_tree(b.addr) = k
  <2>1. b.addr \in Pages /\ k \in (1 .. Len(spans)) \cup {NULL}
    BY <1>2 DEF TypeOK
  <2> QED
    BY <1>1, <1>2, <1>3, <2>1 DEF BlockInv, search_tree
<1>5. \A x \in blocks' : x \in blocks /\ db[x.addr] # k
  BY <1>1, <1>2 DEF BlockInv
<1>6. k = db[b.addr]
  OBVIOUS
<1> HIDE DEF k
<1>7. /\ cur'[t] = k /\ \A u \in Threads \ {t} : cur'[u] = cur[u]
      /\ cur' \in [Threads -> (1 .. Len(spans)) \cup {NULL}]
  <2>1. cur \in [Threads -> (1 .. Len(spans)) \cup {NULL}]
    BY <1>2 DEF TypeOK
  <2> QED
    BY <1>1, <1>3, <1>4, <2>1
<1>8. TypeOK'
  <2>1. blocks' \subseteq blocks
    BY <1>1
  <2> QED
    BY <1>1, <1>2, <1>7, <2>1 DEF TypeOK
<1>9. Binned' = Binned
  BY <1>1 DEF Binned
<1>10. BeingFreed' = BeingFreed \cup {k}
  <2>1. ASSUME NEW id PROVE id \in BeingFreed' <=> id \in BeingFreed \/ id = k
    BY <1>1, <1>4, <1>7 DEF BeingFreed
  <2> QED
    BY <2>1
<1>11. InUse' = InUse \ {k} /\ k \in InUse
  <2>1. ASSUME NEW id PROVE id \in InUse' <=> id \in InUse /\ id # k
    BY <1>1, <1>5, <1>6 DEF InUse
  <2> QED
    BY <1>4, <1>6, <2>1 DEF InUse
<1>12. Current' = Current
  BY <1>9, <1>10, <1>11 DEF Current
<1>13. SpanInv' /\ TreeInv' /\ BinInv' /\ Coalesced'
  <2>1. SpanInv /\ TreeInv /\ BinInv /\ Coalesced
    BY DEF IInv
  <2>2. SpanInv' /\ TreeInv'
    BY <1>1, <1>12, <2>1 DEF SpanInv, TreeInv
  <2>3. BinInv'
    BY <1>1, <1>9, <2>1 DEF BinInv
  <2>4. Coalesced'
    BY <1>1, <1>9, <2>1 DEF Coalesced, BackOf, search_tree
  <2> QED
    BY <2>2, <2>3, <2>4
<1>14. FreeingInv'
  <2>1. ASSUME NEW u \in Threads, cur'[u] # NULL
        PROVE  spans[cur'[u]].num_alloc = 1 /\ spans[cur'[u]].num_free = 0 /\ cur'[u] \notin Binned
    BY <1>2, <1>4, <1>7, <2>1 DEF FreeingInv
  <2>2. \A u \in Threads : cur[u] # k
    BY <1>4 DEF BeingFreed
  <2>3. ASSUME NEW u \in Threads, NEW v \in Threads, cur'[u] # NULL, cur'[u] = cur'[v]
        PROVE  u = v
    BY <1>2, <1>7, <2>2, <2>3 DEF FreeingInv
  <2> QED
    BY <1>1, <1>9, <2>1, <2>3 DEF FreeingInv
<1>15. BlockInv'
  BY <1>1, <1>2, <1>5, <1>9, <1>10 DEF BlockInv
<1> QED
  BY <1>1, <1>8, <1>13, <1>14, <1>15 DEF IInv

-----------------------------------------------------------------------------
(* tc_free: the span is merged with its free neighbours and filed.          *)

(* The operators on bins.                                                   *)
BinsOver(bins, S) ==
  DOMAIN bins = Bins /\ \A b \in Bins : bins[b] \in Seq(S) /\ IsInjective(bins[b])

LEMMA UnlinkFacts ==
  ASSUME NEW S, NEW bins, BinsOver(bins, S), NEW id \in S, spans[id].pages \in Nat \ {0},
         \A b \in Bins : id \in ToSet(bins[b]) => BinOf(spans[id].pages) = b
  PROVE  /\ BinsOver(Unlink(bins, id), S)
         /\ \A b \in Bins : ToSet(Unlink(bins, id)[b]) = ToSet(bins[b]) \ {id}
<1> USE DEF BinsOver
<1> DEFINE c == BinOf(spans[id].pages)
<1>1. c \in Bins
  BY PageHeapAssumption DEF BinOf, Bins, BigBin
<1>2. /\ RemoveFirst(bins[c], id) \in Seq(S) /\ IsInjective(RemoveFirst(bins[c], id))
      /\ ToSet(RemoveFirst(bins[c], id)) = ToSet(bins[c]) \ {id}
  BY <1>1, WithoutElement
<1>3. \A b \in Bins : id \in ToSet(bins[b]) => c = b
  OBVIOUS
<1>4. Unlink(bins, id) = [bins EXCEPT ![c] = RemoveFirst(bins[c], id)]
  BY DEF Unlink
<1> HIDE DEF c
<1>5. DOMAIN Unlink(bins, id) = Bins
  BY <1>4
<1>6. Unlink(bins, id)[c] = RemoveFirst(bins[c], id)
  BY <1>1, <1>4
<1>7. ASSUME NEW b \in Bins
      PROVE  /\ Unlink(bins, id)[b] \in Seq(S) /\ IsInjective(Unlink(bins, id)[b])
             /\ ToSet(Unlink(bins, id)[b]) = ToSet(bins[b]) \ {id}
  <2>1. CASE b = c
    BY <1>2, <1>6, <2>1
  <2>2. CASE b # c
    <3>1. Unlink(bins, id)[b] = bins[b] /\ id \notin ToSet(bins[b])
      BY <1>3, <1>4, <2>2
    <3> QED
      BY <3>1
  <2> QED
    BY <2>1, <2>2
<1> QED
  BY <1>5, <1>7

LEMMA InsertFacts ==
  ASSUME NEW S, NEW bins, BinsOver(bins, S), NEW id \in S, NEW n \in Nat \ {0},
         \A b \in Bins : id \notin ToSet(bins[b])
  PROVE  /\ BinsOver(Insert(bins, id, n), S)
         /\ \A b \in Bins : ToSet(Insert(bins, id, n)[b])
                               = ToSet(bins[b]) \cup IF b = BinOf(n) THEN {id} ELSE {}
<1> USE DEF BinsOver
<1> DEFINE c == BinOf(n)
           q == bins[c]
           D == {m \in DOMAIN q : spans[q[m]].pages <= n}
           k == IF n <= MaxBin THEN 1 ELSE Cardinality(D) + 1
<1>1. c \in Bins
  BY PageHeapAssumption DEF BinOf, Bins, BigBin
<1>2. q \in Seq(S) /\ IsInjective(q) /\ id \notin ToSet(q)
  BY <1>1
<1>3. k \in 1 .. Len(q) + 1
  <2>1. Len(q) \in Nat /\ DOMAIN q = 1 .. Len(q)
    BY <1>2
  <2>2. IsFiniteSet(1 .. Len(q)) /\ Cardinality(1 .. Len(q)) = Len(q)
    BY <2>1, FS_Interval
  <2>3. D \subseteq 1 .. Len(q)
    BY <2>1
  <2> HIDE DEF D, q
  <2>4. IsFiniteSet(D) /\ Cardinality(D) <= Len(q)
    BY <2>2, <2>3, FS_Subset
  <2>5. Cardinality(D) \in Nat
    BY <2>4, FS_CardinalityType
  <2> QED
    BY <2>1, <2>4, <2>5
<1>4. Insert(bins, id, n) = [bins EXCEPT ![c] = InsertAt(q, k, id)]
  BY DEF Insert
<1> HIDE DEF k
<1>5. /\ InsertAt(q, k, id) \in Seq(S) /\ IsInjective(InsertAt(q, k, id))
      /\ ToSet(InsertAt(q, k, id)) = ToSet(q) \cup {id}
  BY <1>2, <1>3, WithElement
<1>6. c = BinOf(n)
  OBVIOUS
<1> HIDE DEF c
<1>7. DOMAIN Insert(bins, id, n) = Bins /\ Insert(bins, id, n)[c] = InsertAt(q, k, id)
  BY <1>1, <1>4
<1>8. ASSUME NEW b \in Bins
      PROVE  /\ Insert(bins, id, n)[b] \in Seq(S) /\ IsInjective(Insert(bins, id, n)[b])
             /\ ToSet(Insert(bins, id, n)[b]) = ToSet(bins[b]) \cup IF b = BinOf(n) THEN {id} ELSE {}
  <2>1. CASE b = c
    BY <1>5, <1>6, <1>7, <2>1
  <2>2. CASE b # c
    <3>1. Insert(bins, id, n)[b] = bins[b]
      BY <1>4, <2>2
    <3> QED
      BY <1>6, <2>2, <3>1
  <2> QED
    BY <2>1, <2>2
<1> QED
  BY <1>7, <1>8

(* merge_spans on a span id that begins where base ends, or ends where base *)
(* begins.                                                                  *)
LEMMA MergeFacts ==
  ASSUME NEW base, NEW id, base \in Span, spans[id] \in Span, base.free_objects = base.start,
         NEW lo \in Pages, NEW hi \in Nat, hi - 1 \in Pages,
         \/ /\ base.start = lo /\ base.start + base.pages = spans[id].start
            /\ spans[id].start + spans[id].pages = hi
         \/ /\ spans[id].start = lo /\ spans[id].start + spans[id].pages = base.start
            /\ base.start + base.pages = hi
  PROVE  LET s == merge_spans(base, id) IN
         /\ s \in Span /\ s.start = lo /\ s.start + s.pages = hi /\ s.free_objects = s.start
         /\ s.num_alloc = 0 /\ s.num_free = 1
         /\ SpanRange(s) = SpanRange(base) \cup SpanRange(spans[id])
<1> DEFINE s == merge_spans(base, id)
           first == IF base.start > spans[id].start THEN spans[id].start ELSE base.start
<1>1. /\ base.start \in Nat /\ base.pages \in Nat \ {0} /\ base.small \in BOOLEAN
      /\ spans[id].start \in Nat /\ spans[id].pages \in Nat \ {0} /\ lo \in Nat
  BY PageHeapAssumption DEF Span, Pages
<1>2. first = lo /\ lo + (base.pages + spans[id].pages) = hi
  BY <1>1
<1>3. base.pages + spans[id].pages \in 1 .. NPages
  BY <1>1, <1>2, PageHeapAssumption DEF Pages
<1>4. SpanRange(base) \cup SpanRange(spans[id]) = lo .. lo + (base.pages + spans[id].pages) - 1
  BY <1>1, <1>2 DEF SpanRange
<1>5. s = [start |-> lo, pages |-> base.pages + spans[id].pages, small |-> base.small,
           free_objects |-> lo, num_free |-> 1, num_alloc |-> 0]
  <2> DEFINE n == spans[id].pages
  <2>1. s = [base EXCEPT !.start = first, !.pages = @ + n, !.free_objects = first,
                         !.num_alloc = 0, !.num_free = 1]
    BY DEF merge_spans
  <2>2. first = lo
    BY <1>2
  <2> HIDE DEF first, s, n
  <2>3. s = [base EXCEPT !.start = lo, !.pages = @ + n, !.free_objects = lo,
                         !.num_alloc = 0, !.num_free = 1]
    BY <2>1, <2>2
  <2>4. s = [start |-> lo, pages |-> base.pages + n, small |-> base.small,
             free_objects |-> lo, num_free |-> 1, num_alloc |-> 0]
    BY <2>3 DEF Span
  <2> QED
    BY <2>4 DEF n
<1> HIDE DEF s, first
<1>6. /\ s \in Span /\ s.start = lo /\ s.pages = base.pages + spans[id].pages
      /\ s.free_objects = lo /\ s.num_alloc = 0 /\ s.num_free = 1
  BY <1>1, <1>3, <1>5, PageHeapAssumption DEF Span
<1>7. SpanRange(s) = lo .. lo + (base.pages + spans[id].pages) - 1
  BY <1>6 DEF SpanRange
<1> QED
  BY <1>2, <1>4, <1>6, <1>7 DEF s

(* A page just before or behind a current span, in another current span,    *)
(* is the last or the first of that one.                                    *)
LEMMA NextTo ==
  ASSUME IInv, NEW k \in Current, NEW p \in Pages, db[p] # NULL, db[p] # k
  PROVE  /\ db[p] \in Current /\ db[p] \in DOMAIN spans
         /\ p = spans[k].start - 1 => spans[db[p]].start + spans[db[p]].pages = spans[k].start
         /\ p = spans[k].start + spans[k].pages => spans[db[p]].start = p
<1> DEFINE f == db[p]
<1>1. f \in Current /\ f \in DOMAIN spans /\ p \in SpanRange(spans[f]) /\ f # k
  BY SpanFacts DEF IInv, TreeInv
<1> HIDE DEF f
<1>2. \A q \in SpanRange(spans[f]) : q \notin SpanRange(spans[k])
  <2>1. \A id \in Current : \A q \in SpanRange(spans[id]) : db[q] = id
    BY SpanFacts
  <2> QED
    BY <1>1, <2>1
<1>3. /\ spans[f].start \in Nat /\ spans[f].pages \in Nat \ {0}
      /\ spans[k].start \in Nat /\ spans[k].pages \in Nat \ {0} /\ p \in Nat
  BY <1>1, SpanFacts, PageHeapAssumption DEF Span, Pages
<1>4. ASSUME p = spans[k].start - 1
      PROVE  spans[f].start + spans[f].pages = spans[k].start
  <2>1. spans[k].start \in SpanRange(spans[k])
    BY <1>3 DEF SpanRange
  <2>2. spans[k].start \notin SpanRange(spans[f])
    BY <1>2, <2>1
  <2> QED
    BY <1>1, <1>3, <1>4, <2>2 DEF SpanRange
<1>5. ASSUME p = spans[k].start + spans[k].pages PROVE spans[f].start = p
  <2>1. p - 1 \in SpanRange(spans[k])
    BY <1>3, <1>5 DEF SpanRange
  <2>2. p - 1 \notin SpanRange(spans[f])
    BY <1>2, <2>1
  <2> QED
    BY <1>1, <1>3, <1>5, <2>2 DEF SpanRange
<1> QED
  BY <1>1, <1>4, <1>5 DEF f

(* The span that FreeSpan files.                                            *)
LEMMA JoinedFacts ==
  ASSUME IInv, NEW t \in Threads, NEW k, k = cur[t], k # NULL,
         NEW g, g = GivenBack(spans[k]),
         NEW f, f = FrontOf(g), NEW c, c = BackOf(g), NEW s, s = Joined(Joined(g, f), c)
  PROVE  /\ k \in BeingFreed /\ k \in Current /\ k \in DOMAIN spans
         /\ IsFree(f) => f \in Binned /\ (IsFree(c) => f # c)
         /\ IsFree(c) => c \in Binned
         /\ s \in Span /\ s.free_objects = s.start
         /\ s.num_alloc = 0 /\ s.num_free = 1
         /\ SpanRange(s) = SpanRange(spans[k])
                             \cup (IF IsFree(f) THEN SpanRange(spans[f]) ELSE {})
                             \cup (IF IsFree(c) THEN SpanRange(spans[c]) ELSE {})
         /\ s.start + s.pages \in Pages => db[s.start + s.pages] \notin Binned
         /\ spans[k].start - 1 \in Pages => f = db[spans[k].start - 1]
<1> USE PageHeapAssumption
<1>1. /\ k \in BeingFreed /\ k \in Current /\ k \in DOMAIN spans /\ k \notin Binned
      /\ spans[k] \in Span /\ spans[k].num_alloc = 1 /\ spans[k].num_free = 0
      /\ spans[k].free_objects = spans[k].start
      /\ spans[k].start \in SpanRange(spans[k])
      /\ \A p \in SpanRange(spans[k]) : p \in Pages /\ db[p] = k
  BY SpanFacts DEF BeingFreed, Current, IInv, FreeingInv
<1> DEFINE a == spans[k].start
           m == spans[k].pages
<1>2. a \in Nat /\ m \in Nat \ {0} /\ a \in Pages /\ a + m - 1 \in Pages
  <2>1. a \in Nat /\ m \in Nat \ {0}
    BY <1>1 DEF Span, Pages
  <2>2. a + m - 1 \in SpanRange(spans[k])
    BY <2>1 DEF SpanRange
  <2> QED
    BY <1>1, <2>1, <2>2
<1>3. /\ g \in Span /\ g.start = a /\ g.pages = m /\ g.free_objects = a
      /\ g.num_alloc = 0 /\ g.num_free = 1
  <2> DEFINE x == spans[k]
  <2>1. /\ x \in Span /\ x.num_alloc = 1 /\ x.num_free = 0 /\ x.free_objects = x.start
        /\ a = x.start /\ m = x.pages /\ g = GivenBack(x)
    BY <1>1
  <2> HIDE DEF x, a, m
  <2>2. g = [x EXCEPT !.num_alloc = 0, !.num_free = 1]
    BY <2>1 DEF GivenBack
  <2>3. 0 \in 0 .. ObjsPerSpan /\ 1 \in 0 .. ObjsPerSpan
    OBVIOUS
  <2> QED
    BY <2>1, <2>2, <2>3 DEF Span
<1>4. /\ f = IF a - 1 \in Pages THEN db[a - 1] ELSE NULL
      /\ c = IF a + m \in Pages THEN db[a + m] ELSE NULL
  BY <1>3 DEF FrontOf, BackOf, search_tree
<1>5. SpanRange(g) = SpanRange(spans[k])
  BY <1>3 DEF SpanRange
<1>6. IsFree(f) => /\ f \in Binned /\ spans[f] \in Span /\ spans[f].start + spans[f].pages = a
                   /\ spans[f].start \in Pages
  <2> SUFFICES ASSUME IsFree(f)
               PROVE  /\ f \in Binned /\ spans[f] \in Span /\ spans[f].start + spans[f].pages = a
                      /\ spans[f].start \in Pages
    OBVIOUS
  <2>1. f # NULL /\ a - 1 \in Pages /\ f = db[a - 1]
    BY <1>4 DEF IsFree
  <2>2. f # k
    BY <1>1, FreeIsBinned
  <2>3. f \in Current /\ f \in DOMAIN spans /\ spans[f].start + spans[f].pages = a
    <3> DEFINE p == a - 1
    <3>1. p \in Pages /\ db[p] = f /\ p = spans[k].start - 1
      BY <2>1
    <3> HIDE DEF p
    <3>2. db[p] # NULL /\ db[p] # k /\ k \in Current
      BY <1>1, <2>1, <2>2, <3>1
    <3> QED
      BY <3>1, <3>2, NextTo
  <2>4. f \in Binned /\ spans[f] \in Span
    BY <2>3, FreeIsBinned, SpanFacts
  <2> QED
    BY <2>3, <2>4 DEF Span
<1>7. IsFree(c) => /\ c \in Binned /\ spans[c] \in Span /\ spans[c].start = a + m
                   /\ spans[c].start + spans[c].pages - 1 \in Pages
  <2> SUFFICES ASSUME IsFree(c)
               PROVE  /\ c \in Binned /\ spans[c] \in Span /\ spans[c].start = a + m
                      /\ spans[c].start + spans[c].pages - 1 \in Pages
    OBVIOUS
  <2>1. c # NULL /\ a + m \in Pages /\ c = db[a + m]
    BY <1>4 DEF IsFree
  <2>2. c # k
    BY <1>1, FreeIsBinned
  <2>3. c \in Current /\ c \in DOMAIN spans /\ spans[c].start = a + m
    <3> DEFINE p == a + m
    <3>1. p \in Pages /\ db[p] = c /\ p = spans[k].start + spans[k].pages
      BY <2>1
    <3> HIDE DEF p
    <3>2. db[p] # NULL /\ db[p] # k /\ k \in Current
      BY <1>1, <2>1, <2>2, <3>1
    <3>3. p = a + m
      BY <3>1
    <3> QED
      BY <3>1, <3>2, <3>3, NextTo
  <2>4. c \in Binned /\ spans[c] \in Span
    BY <2>3, FreeIsBinned, SpanFacts
  <2>5. spans[c].start + spans[c].pages - 1 \in SpanRange(spans[c])
    BY <2>4 DEF Span, SpanRange, Pages
  <2> QED
    BY <2>3, <2>4, <2>5, SpanFacts
<1>8. IsFree(f) /\ IsFree(c) => f # c
  BY <1>2, <1>6, <1>7 DEF Span
(* First the front, then the back.                                          *)
<1> DEFINE j == Joined(g, f)
           lo == IF IsFree(f) THEN spans[f].start ELSE a
           hi == IF IsFree(c) THEN spans[c].start + spans[c].pages ELSE a + m
<1>9. /\ lo \in Pages /\ hi \in Nat /\ hi - 1 \in Pages
  BY <1>2, <1>6, <1>7 DEF Span, Pages
<1>10. /\ j \in Span /\ j.start = lo /\ j.start + j.pages = a + m /\ j.free_objects = j.start
       /\ j.num_alloc = 0 /\ j.num_free = 1
       /\ SpanRange(j) = SpanRange(spans[k]) \cup (IF IsFree(f) THEN SpanRange(spans[f]) ELSE {})
  <2>1. CASE IsFree(f)
    <3>1. j = merge_spans(g, f) /\ lo = spans[f].start
      BY <2>1 DEF Joined
    <3>2. a + m \in Nat /\ g.start + g.pages = a + m /\ g.free_objects = g.start
      BY <1>2, <1>3
    <3>3. spans[f].start = lo /\ spans[f].start + spans[f].pages = g.start
      BY <1>3, <1>6, <2>1, <3>1
    <3> DEFINE e == a + m
    <3>4. e \in Nat /\ e - 1 \in Pages /\ e = a + m /\ g.start + g.pages = e
      BY <1>2, <3>2
    <3> HIDE DEF j, lo, hi, a, m, e
    <3>5. g \in Span /\ spans[f] \in Span /\ g.free_objects = g.start /\ lo \in Pages
      BY <1>3, <1>6, <1>9, <2>1, <3>2
    <3>6. /\ j \in Span /\ j.start = lo /\ j.start + j.pages = e /\ j.free_objects = j.start
          /\ j.num_alloc = 0 /\ j.num_free = 1
          /\ SpanRange(j) = SpanRange(g) \cup SpanRange(spans[f])
      BY <3>1, <3>3, <3>4, <3>5, MergeFacts
    <3> QED
      BY <1>5, <2>1, <3>4, <3>6
  <2>2. CASE ~IsFree(f)
    <3>1. j = g /\ lo = a
      BY <2>2 DEF Joined
    <3> HIDE DEF j, lo, hi, a, m
    <3> QED
      BY <1>3, <1>5, <2>2, <3>1
  <2> QED
    BY <2>1, <2>2
<1>11. /\ s \in Span /\ s.start = lo /\ s.start + s.pages = hi /\ s.free_objects = s.start
       /\ s.num_alloc = 0 /\ s.num_free = 1
       /\ SpanRange(s) = SpanRange(j) \cup (IF IsFree(c) THEN SpanRange(spans[c]) ELSE {})
  <2>1. s = Joined(j, c)
    OBVIOUS
  <2> HIDE DEF j
  <2>2. CASE IsFree(c)
    <3>1. s = merge_spans(j, c) /\ hi = spans[c].start + spans[c].pages
      BY <2>1, <2>2 DEF Joined
    <3>2. j.start + j.pages = spans[c].start
      BY <1>7, <1>10, <2>2
    <3> HIDE DEF lo, hi, a, m
    <3> QED
      BY <1>7, <1>9, <1>10, <2>2, <3>1, <3>2, MergeFacts
  <2>3. CASE ~IsFree(c)
    <3>1. s = j /\ hi = a + m
      BY <2>1, <2>3 DEF Joined
    <3> HIDE DEF lo, hi, a, m
    <3> QED
      BY <1>10, <2>3, <3>1
  <2> QED
    BY <2>2, <2>3
<1>12. hi \in Pages => db[hi] \notin Binned
  <2>1. CASE IsFree(c)
    <3>1. BackOf(spans[c]) \notin Binned
      BY <1>7, <2>1 DEF IInv, Coalesced
    <3>2. hi = spans[c].start + spans[c].pages
      BY <2>1
    <3> HIDE DEF hi
    <3>3. BackOf(spans[c]) = search_tree(hi)
      BY <3>2 DEF BackOf
    <3> QED
      BY <3>1, <3>3 DEF search_tree
  <2>2. CASE ~IsFree(c)
    <3>1. hi = a + m
      BY <2>2
    <3> HIDE DEF hi, a, m
    <3>2. c \notin Binned
      BY <2>2, FreeIsBinned DEF Current
    <3> QED
      BY <1>4, <3>1, <3>2
  <2> QED
    BY <2>1, <2>2
<1>13. a - 1 \in Pages => f = db[a - 1]
  BY <1>4
<1> HIDE DEF j, lo, hi, a, m
<1>14. SpanRange(s) = SpanRange(spans[k])
                       \cup (IF IsFree(f) THEN SpanRange(spans[f]) ELSE {})
                       \cup (IF IsFree(c) THEN SpanRange(spans[c]) ELSE {})
  BY <1>10, <1>11
<1>15. /\ s \in Span /\ s.free_objects = s.start /\ s.num_alloc = 0 /\ s.num_free = 1
       /\ s.start + s.pages \in Pages => db[s.start + s.pages] \notin Binned
  BY <1>11, <1>12
<1> QED
  BY <1>1, <1>6, <1>7, <1>8, <1>13, <1>14, <1>15 DEF a, m

LEMMA FreeSpanStep ==
  ASSUME IInv, NEW t \in Threads, FreeSpan(t)
  PROVE  IInv' /\ UNCHANGED blocks
<1> USE PageHeapAssumption
<1> DEFINE k == cur[t]
           g == GivenBack(spans[k])
           f == FrontOf(g)
           c == BackOf(g)
           s == Joined(Joined(g, f), c)
           rest == Without(Without(pagemap, f), c)
           adds == {x \in {f, c} : IsFree(x)}
<1>1. /\ k # NULL
      /\ spans' = [spans EXCEPT ![k] = s]
      /\ db' = IF IsFree(f) \/ IsFree(c) THEN add_Span(db, k, s) ELSE db
      /\ pagemap' = Insert(rest, k, s.pages)
      /\ cur' = [cur EXCEPT ![t] = NULL]
      /\ UNCHANGED blocks
  BY DEF FreeSpan
<1>1a. /\ k = cur[t] /\ g = GivenBack(spans[k])
       /\ f = FrontOf(g) /\ c = BackOf(g) /\ s = Joined(Joined(g, f), c)
  OBVIOUS
<1> HIDE DEF s, f, c, g, k
<1>2. /\ k \in BeingFreed /\ k \in Current /\ k \in DOMAIN spans
      /\ IsFree(f) => f \in Binned /\ (IsFree(c) => f # c)
      /\ IsFree(c) => c \in Binned
      /\ s \in Span /\ s.free_objects = s.start
      /\ s.num_alloc = 0 /\ s.num_free = 1
      /\ SpanRange(s) = SpanRange(spans[k])
                          \cup (IF IsFree(f) THEN SpanRange(spans[f]) ELSE {})
                          \cup (IF IsFree(c) THEN SpanRange(spans[c]) ELSE {})
      /\ s.start + s.pages \in Pages => db[s.start + s.pages] \notin Binned
      /\ spans[k].start - 1 \in Pages => f = db[spans[k].start - 1]
  BY <1>1, <1>1a, JoinedFacts
<1>3. /\ Len(spans) \in Nat /\ DOMAIN spans = 1 .. Len(spans)
      /\ \A id \in DOMAIN spans : spans[id] \in Span /\ id # NULL
      /\ Current \subseteq DOMAIN spans
  BY SpanFacts
<1>4. /\ adds \subseteq Binned /\ adds \subseteq Current /\ k \notin adds /\ k \notin Binned
      /\ \A p : p \in SpanRange(s) <=> \E x \in adds \cup {k} : p \in SpanRange(spans[x])
  <2>1. k \notin Binned
    BY <1>2, FreeIsBinned
  <2>2. adds \subseteq Binned /\ adds \subseteq Current
    BY <1>2 DEF Current
  <2>3. \A x : x \in adds <=> IsFree(x) /\ (x = f \/ x = c)
    OBVIOUS
  <2> HIDE DEF adds
  <2>4. \A p : p \in SpanRange(s) <=> \E x \in adds \cup {k} : p \in SpanRange(spans[x])
    <3>1. \A p : p \in SpanRange(s) <=>
                   (\/ p \in SpanRange(spans[k])
                    \/ IsFree(f) /\ p \in SpanRange(spans[f])
                    \/ IsFree(c) /\ p \in SpanRange(spans[c]))
      BY <1>2
    <3> QED
      BY <2>3, <3>1
  <2> QED
    BY <2>1, <2>2, <2>4
<1>5. \A x : x \in adds <=> IsFree(x) /\ (x = f \/ x = c)
  OBVIOUS
<1>7. TypeOK /\ BinInv /\ FreeingInv /\ BlockInv
  BY DEF IInv
(* The bins.                                                                *)
<1>8. /\ BinsOver(rest, DOMAIN spans)
      /\ \A b \in Bins : ToSet(rest[b]) = ToSet(pagemap[b]) \ adds
  <2> DEFINE one == Without(pagemap, f)
             S == DOMAIN spans
             F == {x \in {f} : IsFree(x)}
             C == {x \in {c} : IsFree(x)}
  <2>1. BinsOver(pagemap, S)
    BY <1>3, <1>7 DEF TypeOK, BinInv, BinsOver
  <2>2. \A id \in Binned : spans[id].pages \in Nat \ {0} /\ id \in S
    BY <1>3 DEF Current, Span
  <2>3. \A b \in Bins : \A id \in ToSet(pagemap[b]) : BinOf(spans[id].pages) = b
    BY <1>7 DEF BinInv
  <2>4. \A b \in Bins : ToSet(pagemap[b]) \ adds = (ToSet(pagemap[b]) \ F) \ C
    BY <1>5
  <2> HIDE DEF adds, S
  <2>5. BinsOver(one, S) /\ \A b \in Bins : ToSet(one[b]) = ToSet(pagemap[b]) \ F
    <3>1. CASE IsFree(f)
      <4>1. one = Unlink(pagemap, f) /\ F = {f}
        BY <3>1 DEF Without
      <4>2. spans[f].pages \in Nat \ {0} /\ f \in S
        BY <1>2, <2>2, <3>1
      <4>3. \A b \in Bins : f \in ToSet(pagemap[b]) => BinOf(spans[f].pages) = b
        BY <2>3
      <4> HIDE DEF one, F
      <4>4. /\ BinsOver(Unlink(pagemap, f), S)
            /\ \A b \in Bins : ToSet(Unlink(pagemap, f)[b]) = ToSet(pagemap[b]) \ {f}
        BY <2>1, <4>2, <4>3, UnlinkFacts
      <4> QED
        BY <4>1, <4>4
    <3>2. CASE ~IsFree(f)
      <4>1. one = pagemap /\ F = {}
        BY <3>2 DEF Without
      <4> HIDE DEF one, F
      <4> QED
        BY <2>1, <4>1
    <3> QED
      BY <3>1, <3>2
  <2>6. rest = Without(one, c)
    OBVIOUS
  <2> HIDE DEF one, rest, F
  <2>7. CASE IsFree(c)
    <3>1. rest = Unlink(one, c) /\ C = {c}
      BY <2>6, <2>7 DEF Without
    <3>2. spans[c].pages \in Nat \ {0} /\ c \in S
      BY <1>2, <2>2, <2>7
    <3>3. \A b \in Bins : c \in ToSet(one[b]) => BinOf(spans[c].pages) = b
      BY <2>3, <2>5
    <3> HIDE DEF C
    <3>4. /\ BinsOver(Unlink(one, c), S)
          /\ \A b \in Bins : ToSet(Unlink(one, c)[b]) = ToSet(one[b]) \ {c}
      BY <2>5, <3>2, <3>3, UnlinkFacts
    <3> QED
      BY <2>4, <2>5, <3>1, <3>4 DEF S
  <2>8. CASE ~IsFree(c)
    <3>1. rest = one /\ C = {}
      BY <2>6, <2>8 DEF Without
    <3> HIDE DEF C
    <3> QED
      BY <2>4, <2>5, <3>1 DEF S
  <2> QED
    BY <2>7, <2>8
<1> HIDE DEF rest, adds
<1>9. \A b \in Bins : ToSet(pagemap[b]) \subseteq Binned
  BY DEF Binned
<1>10. s.pages \in Nat \ {0}
  BY <1>2 DEF Span
<1>11. /\ BinsOver(pagemap', DOMAIN spans)
       /\ \A b \in Bins : ToSet(pagemap'[b]) = (ToSet(pagemap[b]) \ adds)
                                                 \cup IF b = BinOf(s.pages) THEN {k} ELSE {}
  <2> DEFINE n == s.pages
             S == DOMAIN spans
  <2>1. BinsOver(rest, S) /\ k \in S /\ \A b \in Bins : k \notin ToSet(rest[b])
    BY <1>2, <1>4, <1>8, <1>9
  <2>2. n \in Nat \ {0} /\ pagemap' = Insert(rest, k, n)
    BY <1>1, <1>10
  <2>3. n = s.pages /\ S = DOMAIN spans
    OBVIOUS
  <2> HIDE DEF n, S
  <2>4. /\ BinsOver(Insert(rest, k, n), S)
        /\ \A b \in Bins : ToSet(Insert(rest, k, n)[b])
                              = ToSet(rest[b]) \cup IF b = BinOf(n) THEN {k} ELSE {}
    BY <2>1, <2>2, InsertFacts
  <2> QED
    BY <1>8, <2>2, <2>3, <2>4
<1>12. Binned' = (Binned \ adds) \cup {k}
  <2>1. \A id : id \in Binned <=> \E b \in Bins : id \in ToSet(pagemap[b])
    BY DEF Binned
  <2>2. \A id : id \in Binned' <=> \E b \in Bins : id \in ToSet(pagemap'[b])
    BY DEF Binned
  <2>3. BinOf(s.pages) \in Bins
    BY <1>10 DEF BinOf, Bins, BigBin
  <2> QED
    BY <1>11, <2>1, <2>2, <2>3
(* The records, the radix tree and the thread.                              *)
<1>13. /\ spans' \in Seq(Span) /\ Len(spans') = Len(spans) /\ DOMAIN spans' = DOMAIN spans
       /\ spans'[k] = s /\ \A id \in DOMAIN spans \ {k} : spans'[id] = spans[id]
  <2>1. spans \in Seq(Span)
    BY <1>7 DEF TypeOK
  <2> QED
    BY <1>1, <1>2, <2>1
<1>14. \A p \in SpanRange(s) : p \in Pages /\ db[p] \in adds \cup {k}
  BY <1>2, <1>4, SpanFacts
<1>15. \A p \in Pages : db[p] \in adds \cup {k} => p \in SpanRange(s)
  <2>1. \A p \in Pages : db[p] \in adds \cup {k} => p \in SpanRange(spans[db[p]])
    BY <1>1, <1>3, <1>4 DEF IInv, TreeInv
  <2> QED
    BY <1>4, <2>1
<1>16. /\ DOMAIN db' = Pages
       /\ \A p \in Pages : db'[p] = IF p \in SpanRange(s) THEN k ELSE db[p]
  <2>1. CASE IsFree(f) \/ IsFree(c)
    BY <1>1, <2>1 DEF add_Span
  <2>2. CASE ~(IsFree(f) \/ IsFree(c))
    <3>1. adds = {} /\ db' = db
      BY <1>1, <1>5, <2>2
    <3> QED
      BY <1>7, <1>14, <3>1 DEF TypeOK
  <2> QED
    BY <2>1, <2>2
<1>17. /\ cur'[t] = NULL /\ \A u \in Threads \ {t} : cur'[u] = cur[u] /\ cur[u] # k
       /\ cur' \in [Threads -> (1 .. Len(spans)) \cup {NULL}]
  <2>1. cur \in [Threads -> (1 .. Len(spans)) \cup {NULL}]
    BY <1>7 DEF TypeOK
  <2>2. \A u \in Threads \ {t} : cur[u] # k
    BY <1>1, <1>1a, <1>7 DEF FreeingInv
  <2> QED
    BY <1>1, <2>1, <2>2
<1>18. TypeOK'
  <2>1. pagemap' \in [Bins -> Seq(1 .. Len(spans))]
    <3>1. pagemap' = [b \in Bins |-> pagemap'[b]]
      BY <1>1, <1>8 DEF Insert, BinsOver
    <3> QED
      BY <1>3, <1>11, <3>1 DEF BinsOver
  <2>2. db' \in [Pages -> (1 .. Len(spans)) \cup {NULL}]
    <3>1. db \in [Pages -> (1 .. Len(spans)) \cup {NULL}] /\ k \in 1 .. Len(spans)
      BY <1>2, <1>3, <1>7 DEF TypeOK
    <3> QED
      BY <1>1, <3>1 DEF add_Span
  <2> QED
    BY <1>1, <1>7, <1>13, <1>17, <2>1, <2>2 DEF TypeOK
<1>19. BeingFreed' = BeingFreed \ {k}
  <2>1. ASSUME NEW id PROVE id \in BeingFreed' <=> id \in BeingFreed /\ id # k
    BY <1>1a, <1>17 DEF BeingFreed
  <2> QED
    BY <2>1
<1>20. \A x \in blocks : /\ x.addr \in Pages /\ db[x.addr] \in DOMAIN spans \ {k}
                        /\ db[x.addr] \notin adds /\ db'[x.addr] = db[x.addr]
  <2> SUFFICES ASSUME NEW x \in blocks
               PROVE  /\ x.addr \in Pages /\ db[x.addr] \in DOMAIN spans \ {k}
                      /\ db[x.addr] \notin adds /\ db'[x.addr] = db[x.addr]
    OBVIOUS
  <2>1. x.addr \in Pages /\ db[x.addr] \in (1 .. Len(spans)) \cup {NULL}
    BY <1>7 DEF TypeOK
  <2>2. db[x.addr] # NULL /\ db[x.addr] \notin Binned \cup BeingFreed
    BY <1>7 DEF BlockInv
  <2> QED
    BY <1>2, <1>3, <1>4, <1>14, <1>16, <2>1, <2>2
<1>21. InUse' = InUse
  <2>1. ASSUME NEW id PROVE id \in InUse' <=> id \in InUse
    BY <1>1, <1>13, <1>20 DEF InUse
  <2> QED
    BY <2>1
<1>22. k \notin InUse /\ adds \cap InUse = {} /\ adds \cap BeingFreed = {}
  BY <1>2, <1>4, FreeIsBinned
<1>23. Current' = Current \ adds
  BY <1>2, <1>4, <1>12, <1>19, <1>21, <1>22 DEF Current
<1>24. SpanInv'
  <2>1. ASSUME NEW id \in Current, id # k, id \notin adds
        PROVE  /\ spans'[id].free_objects = spans'[id].start
               /\ \A p \in SpanRange(spans'[id]) : p \in Pages /\ db'[p] = id
    <3>1. spans'[id] = spans[id]
      BY <1>3, <1>13, <2>1
    <3>2. \A p \in SpanRange(spans[id]) : p \in Pages /\ db[p] = id /\ p \notin SpanRange(s)
      BY <1>14, <2>1, SpanFacts
    <3> QED
      BY <1>16, <2>1, <3>1, <3>2, SpanFacts
  <2>2. /\ spans'[k].free_objects = spans'[k].start
        /\ \A p \in SpanRange(spans'[k]) : p \in Pages /\ db'[p] = k
    BY <1>2, <1>13, <1>14, <1>16
  <2> QED
    BY <1>23, <2>1, <2>2 DEF SpanInv
<1>25. TreeInv'
  <2> SUFFICES ASSUME NEW p \in Pages, db'[p] # NULL
               PROVE  db'[p] \in Current' /\ p \in SpanRange(spans'[db'[p]])
    BY DEF TreeInv
  <2>1. CASE p \in SpanRange(s)
    BY <1>2, <1>4, <1>13, <1>16, <1>23, <2>1
  <2>2. CASE p \notin SpanRange(s)
    <3>1. db'[p] = db[p] /\ db[p] \notin adds \cup {k}
      BY <1>15, <1>16, <2>2
    <3>2. db[p] \in Current /\ p \in SpanRange(spans[db[p]])
      BY <3>1 DEF IInv, TreeInv
    <3>3. spans'[db[p]] = spans[db[p]]
      BY <1>3, <1>13, <3>1, <3>2
    <3> QED
      BY <1>23, <3>1, <3>2, <3>3
  <2> QED
    BY <2>1, <2>2
<1>26. \A id \in Binned : id \in DOMAIN spans /\ spans'[id] = spans[id]
  BY <1>3, <1>4, <1>13 DEF Current
<1>27. BinInv'
  <2>1. ASSUME NEW b \in Bins, NEW id \in ToSet(pagemap'[b])
        PROVE  BinOf(spans'[id].pages) = b
    <3>1. CASE id = k
      <4>1. k \notin ToSet(pagemap[b])
        BY <1>4, <1>9
      <4>2. b = BinOf(s.pages)
        BY <1>11, <2>1, <3>1, <4>1
      <4> QED
        BY <1>13, <3>1, <4>2
    <3>2. CASE id # k
      <4>1. id \in ToSet(pagemap[b])
        BY <1>11, <2>1, <3>2
      <4> QED
        BY <1>7, <1>9, <1>26, <4>1 DEF BinInv
    <3> QED
      BY <3>1, <3>2
  <2>2. \A id \in Binned' : spans'[id].num_alloc = 0 /\ spans'[id].num_free = 1
    BY <1>2, <1>7, <1>12, <1>13, <1>26 DEF BinInv
  <2> QED
    BY <1>11, <2>1, <2>2 DEF BinInv, BinsOver
<1>28. FreeingInv'
  <2>1. ASSUME NEW u \in Threads, cur'[u] # NULL
        PROVE  /\ u # t /\ cur'[u] = cur[u] /\ spans'[cur'[u]] = spans[cur[u]]
               /\ cur'[u] \notin Binned'
    <3>1. u # t /\ cur'[u] = cur[u] /\ cur[u] # k
      BY <1>17, <2>1
    <3>2. cur[u] \in DOMAIN spans /\ cur[u] \notin Binned
      BY <1>3, <1>7, <2>1, <3>1 DEF TypeOK, FreeingInv
    <3> QED
      BY <1>12, <1>13, <3>1, <3>2
  <2>2. \A u \in Threads : cur'[u] # NULL =>
          /\ spans'[cur'[u]].num_alloc = 1 /\ spans'[cur'[u]].num_free = 0
          /\ cur'[u] \notin Binned'
    BY <1>7, <2>1 DEF FreeingInv
  <2>3. ASSUME NEW u \in Threads, NEW v \in Threads, cur'[u] # NULL, cur'[u] = cur'[v]
        PROVE  u = v
    BY <1>7, <2>1, <2>3 DEF FreeingInv
  <2> QED
    BY <2>2, <2>3 DEF FreeingInv
<1>29. BlockInv'
  <2>1. \A x \in blocks : spans'[db[x.addr]] = spans[db[x.addr]] /\ db'[x.addr] = db[x.addr]
    BY <1>13, <1>20
  <2>2. \A x \in blocks : db[x.addr] \notin Binned' \cup BeingFreed'
    BY <1>7, <1>12, <1>19, <1>20 DEF BlockInv
  <2> QED
    BY <1>1, <1>7, <2>1, <2>2 DEF BlockInv
(* No free span is left beside the one that was filed.                      *)
<1>30. Coalesced'
  <2>1. NULL \notin Binned'
    BY <1>2, <1>3, <1>12 DEF Current
  <2> DEFINE end(id) == spans'[id].start + spans'[id].pages
  <2>2. ASSUME NEW id \in Binned', end(id) \in Pages
        PROVE  db'[end(id)] \notin Binned'
    <3>1. CASE id = k
      <4> DEFINE q == end(id)
      <4>1. q = s.start + s.pages
        BY <1>13, <3>1
      <4>2. q \notin SpanRange(s)
        BY <1>2, <4>1 DEF SpanRange, Span, Pages
      <4>3. q \in Pages /\ db[q] \notin Binned
        BY <1>2, <2>2, <4>1
      <4> HIDE DEF q
      <4>4. db'[q] = db[q] /\ db[q] # k
        BY <1>15, <1>16, <4>2, <4>3
      <4> QED
        BY <1>12, <4>3, <4>4 DEF q
    <3>2. CASE id # k
      <4>1. id \in Binned /\ id \notin adds /\ id \in Current /\ id \in DOMAIN spans
            /\ spans'[id] = spans[id]
        BY <1>12, <1>26, <3>2 DEF Current
      <4> DEFINE q == spans[id].start + spans[id].pages
      <4>2. q = end(id) /\ q \in Pages
        BY <2>2, <4>1
      <4>3. db[q] \notin Binned
        BY <4>1, <4>2 DEF IInv, Coalesced, BackOf, search_tree
      <4>4. q - 1 \in SpanRange(spans[id])
        BY <1>3, <4>1 DEF SpanRange, Span, Pages
      <4>5. db[q - 1] = id /\ q - 1 \in Pages
        BY <4>1, <4>4, SpanFacts
      <4> HIDE DEF q
      <4>6. db[q] # k
        <5> SUFFICES ASSUME db[q] = k PROVE FALSE
          OBVIOUS
        <5>1. k # NULL /\ q \in SpanRange(spans[k])
          BY <1>1, <4>2 DEF IInv, TreeInv
        <5>2. q - 1 \notin SpanRange(spans[k])
          BY <1>2, <3>2, <4>5, SpanFacts
        <5>3. spans[k].start = q
          BY <1>2, <1>3, <5>1, <5>2 DEF SpanRange, Span, Pages
        <5>4. f = id
          BY <1>2, <4>5, <5>3
        <5>5. IsFree(id)
          BY <4>1, FreeIsBinned
        <5> QED
          BY <1>5, <4>1, <5>4, <5>5
      <4>7. q \notin SpanRange(s)
        BY <1>4, <1>14, <4>3, <4>6
      <4>8. db'[q] = db[q]
        BY <1>16, <4>2, <4>7
      <4> QED
        BY <1>12, <4>2, <4>3, <4>6, <4>8
    <3> QED
      BY <3>1, <3>2
  <2>3. ASSUME NEW id \in Binned' PROVE BackOf(spans[id])' \notin Binned'
    BY <2>1, <2>2 DEF BackOf, search_tree
  <2> QED
    BY <2>3 DEF Coalesced
<1> QED
  BY <1>1, <1>18, <1>24, <1>25, <1>27, <1>28, <1>29, <1>30 DEF IInv

-----------------------------------------------------------------------------
(* Every step keeps the invariant, and hands out or takes back at most one  *)
(* block.                                                                   *)
LEMMA AllocStep ==
  ASSUME IInv, NEW n \in 1 .. MaxBin, NEW small \in BOOLEAN, alloc_pages(n, small)
  PROVE  IInv' /\ \E b : b \notin blocks /\ blocks' = blocks \cup {b}
BY TakeWholeStep, SplitStep, MapPagesStep DEF alloc_pages

LEMMA NextStep ==
  ASSUME IInv, [Next]_vars
  PROVE  /\ IInv'
         /\ \/ UNCHANGED blocks
            \/ \E b : b \notin blocks /\ blocks' = blocks \cup {b}
            \/ \E t \in Threads : FindSpan(t)
<1>1. CASE MallocLarge
  <2>1. PICK n \in Requests : alloc_pages(n, FALSE)
    BY <1>1 DEF MallocLarge
  <2> QED
    BY <2>1, RequestSizes, AllocStep
<1>2. CASE NewSmallSpan
  BY <1>2, RequestSizes, AllocStep DEF NewSmallSpan
<1>3. CASE TakeObject
  BY <1>3, TakeObjectStep
<1>4. ASSUME NEW t \in Threads, FindSpan(t) PROVE IInv'
  BY <1>4, FindSpanStep
<1>5. ASSUME NEW t \in Threads, FreeSpan(t) PROVE IInv' /\ UNCHANGED blocks
  BY <1>5, FreeSpanStep
<1>6. CASE UNCHANGED vars
  <2>1. IInv'
    <3>1. UNCHANGED <<spans, pagemap, db, cur, blocks>>
      BY <1>6 DEF vars
    <3>2. UNCHANGED <<Binned, BeingFreed, InUse, Current>>
      BY <3>1 DEF Binned, BeingFreed, InUse, Current
    <3>3. TypeOK' /\ SpanInv' /\ TreeInv' /\ BinInv'
      BY <3>1, <3>2 DEF IInv, TypeOK, SpanInv, TreeInv, BinInv
    <3>4. FreeingInv' /\ BlockInv'
      BY <3>1, <3>2 DEF IInv, FreeingInv, BlockInv
    <3>5. Coalesced'
      BY <3>1, <3>2 DEF IInv, Coalesced, BackOf, search_tree
    <3> QED
      BY <3>3, <3>4, <3>5 DEF IInv
  <2> QED
    BY <1>6, <2>1 DEF vars
<1> QED
  BY <1>1, <1>2, <1>3, <1>4, <1>5, <1>6 DEF Next

LEMMA Invariance == Spec => []IInv
<1>1. IInv /\ [Next]_vars => IInv'
  BY NextStep
<1> QED
  BY InitInv, <1>1, PTL DEF Spec

-----------------------------------------------------------------------------
(* The records, the bins, the tree and the blocks have their types.         *)
THEOREM TypeCorrect == Spec => []TypeOK
<1>1. IInv => TypeOK
  BY DEF IInv
<1> QED
  BY Invariance, <1>1, PTL

(* Every page that was ever mapped belongs to the one current span that the *)
(* tree names (search_tree, add_Span and all of alloc_pages and tc_free).   *)
THEOREM TreeIsExact == Spec => []RadixExact
<1>1. IInv => RadixExact
  <2> SUFFICES ASSUME IInv, NEW p \in Pages
               PROVE  {id \in Current : p \in SpanRange(spans[id])} = {db[p]} \ {NULL}
    BY DEF RadixExact
  <2>1. ASSUME NEW id \in Current, p \in SpanRange(spans[id]) PROVE id = db[p] /\ id # NULL
    <3>1. id \in DOMAIN spans /\ db[p] = id
      BY <2>1, SpanFacts
    <3> QED
      BY <3>1, SpanFacts
  <2>2. db[p] # NULL => db[p] \in Current /\ p \in SpanRange(spans[db[p]])
    BY DEF IInv, TreeInv
  <2> QED
    BY <2>1, <2>2
<1> QED
  BY Invariance, <1>1, PTL

(* A free span is told by its counters, and filed once, under its size      *)
(* (tc_free, lines 1217-1230, and merge_spans).                             *)
THEOREM BinsAreExact == Spec => []BinsExact
<1>1. IInv => BinsExact
  <2> SUFFICES ASSUME IInv PROVE BinsExact
    OBVIOUS
  <2>1. {id \in Current : IsFree(id)} = Binned
    BY FreeIsBinned DEF Current
  <2>2. ASSUME NEW id \in Binned, NEW b \in Bins
        PROVE  Cardinality({n \in DOMAIN pagemap[b] : pagemap[b][n] = id})
                 = IF b = BinOf(spans[id].pages) THEN 1 ELSE 0
    <3> DEFINE N == {n \in DOMAIN pagemap[b] : pagemap[b][n] = id}
    <3>1. \A m, n \in N : m = n
      BY DEF IInv, BinInv, IsInjective
    <3>2. Cardinality(N) \in {0, 1} /\ (N = {} <=> Cardinality(N) = 0)
      <4> HIDE DEF N
      <4> QED
        BY <3>1, AtMostOne
    <3>3. N # {} <=> id \in ToSet(pagemap[b])
      BY DEF ToSet
    <3>4. PICK c \in Bins : id \in ToSet(pagemap[c])
      BY DEF Binned
    <3>5. \A d \in Bins : id \in ToSet(pagemap[d]) => d = BinOf(spans[id].pages)
      BY DEF IInv, BinInv
    <3>6. id \in ToSet(pagemap[b]) <=> b = BinOf(spans[id].pages)
      BY <3>4, <3>5
    <3> HIDE DEF N
    <3>7. Cardinality(N) = IF b = BinOf(spans[id].pages) THEN 1 ELSE 0
      BY <3>2, <3>3, <3>6
    <3> QED
      BY <3>7 DEF N
  <2>3. Binned \cap (BeingFreed \cup InUse) = {} /\ BeingFreed \cap InUse = {}
    BY FreeIsBinned
  <2> QED
    BY <2>1, <2>2, <2>3 DEF BinsExact
<1> QED
  BY Invariance, <1>1, PTL

(* No two free spans are neighbours (tc_free merges on both sides, and      *)
(* alloc_pages splits so that the rest is beside a span in use).            *)
THEOREM NoFragmentation == Spec => []Coalesced
<1>1. IInv => Coalesced
  BY DEF IInv
<1> QED
  BY Invariance, <1>1, PTL

(* The pages of a block are those of its span.                              *)
BlocksApart ==
  \A b \in blocks : /\ b \in Heap!Block /\ Heap!PagesOf(b) \subseteq Pages
                    /\ \A c \in blocks \ {b} : Heap!PagesOf(b) \cap Heap!PagesOf(c) = {}

LEMMA BlockPagesApart == IInv => BlocksApart
<1> SUFFICES ASSUME IInv, NEW b \in blocks
             PROVE  /\ b \in Heap!Block /\ Heap!PagesOf(b) \subseteq Pages
                    /\ \A c \in blocks \ {b} : Heap!PagesOf(b) \cap Heap!PagesOf(c) = {}
  BY DEF BlocksApart
<1>1. ASSUME NEW c \in blocks
      PROVE  /\ c = [addr |-> spans[db[c.addr]].start, pages |-> spans[db[c.addr]].pages,
                     small |-> spans[db[c.addr]].small]
             /\ spans[db[c.addr]] \in Span
             /\ Heap!PagesOf(c) = SpanRange(spans[db[c.addr]])
             /\ \A p \in Heap!PagesOf(c) : p \in Pages /\ db[p] = db[c.addr]
  <2> DEFINE d == db[c.addr]
  <2>1. /\ c.addr \in Pages /\ d \in (1 .. Len(spans)) \cup {NULL} /\ d # NULL
        /\ c = [addr |-> spans[d].start, pages |-> spans[d].pages, small |-> spans[d].small]
    BY DEF IInv, TypeOK, BlockInv
  <2>2. d \in Current /\ spans[d] \in Span
    BY <2>1, SpanFacts DEF IInv, TreeInv
  <2> HIDE DEF d
  <2>3. Heap!PagesOf(c) = SpanRange(spans[d])
    BY <2>1 DEF Heap!PagesOf, SpanRange
  <2> QED
    BY <2>1, <2>2, <2>3, SpanFacts DEF d
<1>2. b \in Heap!Block
  BY <1>1 DEF Span, Pages, Heap!Block
<1>3. ASSUME NEW c \in blocks, c # b PROVE Heap!PagesOf(b) \cap Heap!PagesOf(c) = {}
  <2>1. db[b.addr] # db[c.addr]
    BY <1>1, <1>3
  <2> QED
    BY <1>1, <2>1
<1> QED
  BY <1>1, <1>2, <1>3

(* The heap keeps the allocator's promise: what alloc_pages hands out lies  *)
(* in the address space and overlaps no block in use, and only blocks that  *)
(* were handed out come back.                                               *)
THEOREM KeepsPromise == Spec => HeapSpec
<1>1. Init => Heap!Init
  BY DEF Init, Heap!Init
<1>2. IInv' => BlocksApart'
  BY BlockPagesApart, PTL
<1>3. IInv /\ [Next]_vars => [Heap!Next]_blocks
  <2> SUFFICES ASSUME IInv, [Next]_vars PROVE [Heap!Next]_blocks
    OBVIOUS
  <2>1. BlocksApart'
    BY <1>2, NextStep
  <2>2. ASSUME NEW b, b \notin blocks, blocks' = blocks \cup {b} PROVE Heap!Next
    <3>1. b \in blocks' /\ \A c \in blocks : c \in blocks' \ {b}
      BY <2>2
    <3>2. /\ b \in Heap!Block /\ Heap!PagesOf(b) \subseteq Pages
          /\ \A c \in blocks' \ {b} : Heap!PagesOf(b) \cap Heap!PagesOf(c) = {}
      BY <2>1, <3>1 DEF BlocksApart
    <3>3. Heap!Allocate(b)
      BY <2>2, <3>1, <3>2 DEF Heap!Allocate, Pages
    <3> QED
      BY <3>2, <3>3 DEF Heap!Next
  <2>3. ASSUME NEW t \in Threads, FindSpan(t) PROVE Heap!Next
    <3>1. PICK b \in blocks : ~b.small /\ blocks' = blocks \ {b}
      BY <2>3 DEF FindSpan
    <3>2. b \in Heap!Block
      BY BlockPagesApart DEF BlocksApart
    <3> QED
      BY <3>1, <3>2 DEF Heap!Next, Heap!Release
  <2> QED
    BY <2>2, <2>3, NextStep
<1> QED
  BY Invariance, <1>1, <1>3, PTL DEF Spec, HeapSpec, Heap!Spec
=============================================================================
