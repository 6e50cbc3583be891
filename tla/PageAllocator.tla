---------------------------- MODULE PageAllocator ----------------------------
(***************************************************************************)
(* What the page heap promises its callers: every block of pages it hands  *)
(* out lies in the address space and is nobody else's until it is given    *)
(* back, and only blocks that were handed out are given back.              *)
(***************************************************************************)
EXTENDS Naturals

CONSTANT NPages  \* pages of the address space

VARIABLE blocks  \* the blocks handed out and not given back

Block == [addr : 0 .. NPages - 1, pages : 1 .. NPages, small : BOOLEAN]

PagesOf(b) == b.addr .. b.addr + b.pages - 1

Init == blocks = {}

Allocate(b) ==
  /\ PagesOf(b) \subseteq 0 .. NPages - 1
  /\ \A c \in blocks : PagesOf(b) \cap PagesOf(c) = {}
  /\ blocks' = blocks \cup {b}

(* A block for small objects is never given back. *)
Release(b) ==
  /\ b \in blocks /\ ~b.small
  /\ blocks' = blocks \ {b}

Next == \E b \in Block : Allocate(b) \/ Release(b)

Spec == Init /\ [][Next]_blocks
=============================================================================
