------------------------------- MODULE MCWire --------------------------------
(* Wire with bytes of eleven values and ints of two bytes.  Where MaxLine is *)
(* 8, the answer of length 4 does not fit into the client's buffer, and the  *)
(* one of length 3 does if nothing was left over; the one of length 5 has an *)
(* EOF in its total_length.                                                  *)
EXTENDS Wire

Places == <<1, 11>>

(* A socket buffer for every answer, and one too small for the larger ones. *)
AllNets == {[room |-> 11, whole |-> TRUE], [room |-> 11, whole |-> FALSE],
            [room |-> 6, whole |-> TRUE]}

GoodNets == {[room |-> 11, whole |-> TRUE]}
=============================================================================
