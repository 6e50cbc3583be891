--------------------------- MODULE RequestService ---------------------------
(***************************************************************************)
(* What the server's request path promises, whatever threads carry it out. *)
(*                                                                         *)
(* A connection has at most one request in flight (a client of this server *)
(* blocks on its answer).  The request is read by the main thread, queued, *)
(* assigned to a worker in the order of the queue, and answered once, on   *)
(* the connection it came from.                                            *)
(***************************************************************************)
EXTENDS Naturals, Sequences

CONSTANT Fds  \* the descriptors of the client connections

VARIABLES
  arrived,   \* connections whose request was read and is not queued yet
  queue,     \* connections whose request is queued, oldest first
  assigned   \* connections whose request is in the hands of a worker

vars == <<arrived, queue, assigned>>

Queued == {queue[n] : n \in DOMAIN queue}

InFlight == arrived \cup Queued \cup assigned

Init == /\ arrived = {}
        /\ queue = <<>>
        /\ assigned = {}

(* The main thread reads a complete request of a connection at rest. *)
Arrive(f) == /\ f \notin InFlight
             /\ arrived' = arrived \cup {f}
             /\ UNCHANGED <<queue, assigned>>

Enqueue(f) == /\ f \in arrived
              /\ arrived' = arrived \ {f}
              /\ queue' = Append(queue, f)
              /\ UNCHANGED assigned

(* Requests leave the queue in the order in which they entered it. *)
Assign == /\ queue # <<>>
          /\ queue' = Tail(queue)
          /\ assigned' = assigned \cup {Head(queue)}
          /\ UNCHANGED arrived

Answer(f) == /\ f \in assigned
             /\ assigned' = assigned \ {f}
             /\ UNCHANGED <<arrived, queue>>

Next == \/ \E f \in Fds : Arrive(f) \/ Enqueue(f) \/ Answer(f)
        \/ Assign

Spec == Init /\ [][Next]_vars

Fairness == /\ \A f \in Fds : WF_vars(Enqueue(f)) /\ WF_vars(Answer(f))
            /\ WF_vars(Assign)

FairSpec == Spec /\ Fairness
=============================================================================
