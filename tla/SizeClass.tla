----------------------------- MODULE SizeClass ------------------------------
(***************************************************************************)
(* The size classes of strings/tc_malloc.c: which free list of a thread    *)
(* cache serves a request, which one takes the object back, and how many   *)
(* pages a large object gets.  List 1 steps by 8 bytes up to 64, list 2 by *)
(* 64 up to 2048, list 3 by 256 up to 32768.                               *)
(***************************************************************************)
EXTENDS Integers

PAGE_SIZE == 4096
MaxSmall  == 32768   \* size_list_3[119]

Lists == 1 .. 3

num_ind == <<8, 31, 120>>
Unit    == <<8, 64, 256>>
Skip    == <<1, 2, 9>>

(* size_list_l[k]: the object size of class k of list l. *)
size_list(l, k) == (k + Skip[l]) * Unit[l]

(* The comparison made with the size of a request in tc_malloc, and with    *)
(* the size of a span in tc_free.                                           *)
ListOf(size) == IF size < 64 THEN 1 ELSE IF size < 2048 THEN 2 ELSE 3

(* Fault: a multiple of the unit is rounded up, too. *)
RoundUp_Always(size, unit) == size - (size % unit) + unit

RoundUp(size, unit) == IF size % unit # 0 THEN size - (size % unit) + unit ELSE size

(* The object size a small request is served with. *)
ObjSize(size) == RoundUp(size, Unit[ListOf(size)])

Class(l, objsize) == [list |-> l, index |-> objsize \div Unit[l] - Skip[l]]

(* alloc_small_1, 2 or 3, as the request says; its index cnt. *)
AllocClass(size) == Class(ListOf(size), ObjSize(size))

(* Fault: the index of the next class. *)
FreeClass_Next(objsize) == [Class(ListOf(objsize), objsize) EXCEPT !.index = @ + 1]

(* The list and the index tc_free computes from the size of the span. *)
FreeClass(objsize) == Class(ListOf(objsize), objsize)

(* Fault: a span of one page. *)
Objects_OnePage(objsize) == PAGE_SIZE \div objsize

(* Objects in a span for small objects, always 100 pages. *)
Objects(objsize) == (100 * PAGE_SIZE) \div objsize

(* Pages for a large request. *)
LargePages(size) == size \div PAGE_SIZE

InRange(c) == 0 <= c.index /\ c.index < num_ind[c.list]

(* The request sizes that end up at the border of two lists. *)
Borders == {0} \cup (57 .. 64) \cup (1985 .. 2048)

-----------------------------------------------------------------------------
(* What a class should be: it exists, its objects are large enough but not  *)
(* larger than needed, and tc_free returns them to the list they came from. *)
ClassRight(n) ==
  LET c == AllocClass(n) IN
  /\ InRange(c)
  /\ size_list(c.list, c.index) = ObjSize(n)
  /\ n <= ObjSize(n) /\ ObjSize(n) < n + Unit[c.list]
  /\ FreeClass(ObjSize(n)) = c
=============================================================================
