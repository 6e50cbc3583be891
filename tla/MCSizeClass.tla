---------------------------- MODULE MCSizeClass -----------------------------
(* SizeClass applied to every request size, one after the other.            *)
EXTENDS SizeClass

CONSTANT MaxSize  \* the largest request looked at

ASSUME MaxSizeAssumption == MaxSize \in Nat \ {0}

VARIABLE request

Init == request = 1
Next == request < MaxSize /\ request' = request + 1
Spec == Init /\ [][Next]_request

Small == request <= MaxSmall

(* Away from the borders of the lists, a request is served by a class that  *)
(* exists, whose objects are large enough, and tc_free returns the object   *)
(* to the list it came from (lines 1134-1163 against 1304-1325).            *)
ClassSound == Small /\ request \notin Borders => ClassRight(request)

(* A span holds two objects at least: while one of its objects is free and  *)
(* none in use, another is free too, and tc_free's test for a free span,    *)
(* which counts objects, cannot take it for one (lines 1218 and 1227).      *)
SpanNotFree == Small => Objects(ObjSize(request)) >= 2

(* A large object fits into the pages it gets. *)
LargeFits == ~Small => request <= LargePages(request) * PAGE_SIZE
=============================================================================
