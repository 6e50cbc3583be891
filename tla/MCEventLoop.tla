---------------------------- MODULE MCEventLoop -----------------------------
(* EventLoop on a small instance: the clients are interchangeable.          *)
EXTENDS EventLoop, TLC

ClientSymmetry == Permutations(Clients)

(* Room for everybody, and clients that wait for their answers. *)
Calm == [fds |-> Fds, slots |-> NSlots, die |-> FALSE, whole |-> TRUE]

(* One slot and two descriptors. *)
Crowded == [fds |-> {Min(Fds), Min(Fds) + 1}, slots |-> 1, die |-> FALSE, whole |-> TRUE]

(* Two slots, and answers that are not read to the last byte. *)
Ragged == [Crowded EXCEPT !.slots = 2, !.whole = FALSE]

CalmSetups == {Calm}
AllSetups == {Calm, Crowded, Ragged, [Crowded EXCEPT !.die = TRUE]}
=============================================================================
