--------------------------- MODULE EventLoopProofs ---------------------------
(***************************************************************************)
(* Proofs about EventLoop, for any number of clients, descriptors, slots,  *)
(* workers and pieces of a request, and for every setup.                   *)
(*                                                                         *)
(* The properties need each other.  That an answer reaches the right       *)
(* client rests on the bytes of the connection being accounted for, since  *)
(* otherwise a second request could be read from it; and on the main       *)
(* thread closing only connections whose client is gone, which is known    *)
(* from what select saw, several steps before.  IInv says how the          *)
(* connections, the pool, the round of the main thread, the requests and   *)
(* the bytes hang together.                                                *)
(***************************************************************************)
EXTENDS EventLoop, SequenceTheorems, DataLemmas, TLAPS

(* A client has one connection at most, accepted or waiting to be, and none *)
(* before it connects.                                                      *)
ConnInv ==
  /\ \A f, g \in Fds : conn[f] # NULL /\ conn[f] = conn[g] => f = g
  /\ \A m, n \in DOMAIN backlog : backlog[m] = backlog[n] => m = n
  /\ \A f \in Fds : ~Backlogged(conn[f])
  /\ \A c \in Clients : cstate[c] = "off" => ~Connected(c) /\ ~Backlogged(c)

(* Descriptors come from the setup. *)
OpenInv == \A f \in Fds : conn[f] # NULL => f \in setup.fds

(* What select found ready is so until its turn has come; nothing that is   *)
(* accepted in the meantime is taken for ready.                             *)
RoundInv ==
  /\ pc = "accept" => ready_set \subseteq read_set /\ i = 0
  /\ pc \in {"accept", "check", "push"} =>
       \A s \in Pooled :
         /\ clientfd[s] \in ready_set
         /\ s >= i
         /\ pc = "push" => s # i
         => Readable(clientfd[s])
  /\ pc = "push" => i <= maxi /\ new_task # NULL
  /\ pc \in {"select", "accept", "check"} => new_task = NULL

(* The requests being worked on are of connections that differ. *)
Apart ==
  /\ new_task # NULL =>
       /\ \A n \in DOMAIN reqs : reqs[n].connfd # new_task.connfd
       /\ \A w \in Workers : worker[w] # NULL => worker[w].connfd # new_task.connfd
  /\ \A m, n \in DOMAIN reqs : reqs[m].connfd = reqs[n].connfd => m = n
  /\ \A n \in DOMAIN reqs, w \in Workers :
       worker[w] # NULL => worker[w].connfd # reqs[n].connfd
  /\ \A v, w \in Workers :
       worker[v] # NULL /\ worker[w] # NULL /\ worker[v].connfd = worker[w].connfd => v = w

CallInv ==
  ~setup.die => /\ \A r \in InFlight : conn[r.connfd] = r.from /\ cstate[r.from] = "waiting"
                /\ Apart

(* The pieces of client c that are on their way to the server. *)
Due(c) == IF cstate[c] = "waiting" /\ \A r \in InFlight : r.from # c THEN MsgLen ELSE 0

(* BytesConserved, slot by slot. *)
ByteInv ==
  ~setup.die => \A c \in Clients :
    /\ \A s \in Pooled : conn[clientfd[s]] = c => wire[c] + inbuf[c] + rio_cnt[s] = Due(c)
    /\ (\A s \in Pooled : conn[clientfd[s]] # c) => wire[c] + inbuf[c] = Due(c)

IInv == /\ TypeOK /\ ConnInv /\ OpenInv /\ PoolSound /\ RoundInv
        /\ CallInv /\ ByteInv /\ NoneForgotten /\ NoAbort

(* Who reads every answer to its last byte leaves in order.                 *)
WholeInv ==
  ~setup.die /\ setup.whole => unread = {} /\ \A c \in Clients : cstate[c] # "reset"

-----------------------------------------------------------------------------
(* Steps that leave a part of the state alone.                              *)

LEMMA KeepConn ==
  ASSUME ConnInv, UNCHANGED <<conn, backlog, cstate>>
  PROVE  ConnInv'
BY DEF ConnInv, Connected, Backlogged

LEMMA KeepPool ==
  ASSUME PoolSound, OpenInv, NoneForgotten,
         UNCHANGED <<setup, conn, clientfd, read_set, maxi>>
  PROVE  PoolSound' /\ OpenInv' /\ NoneForgotten'
BY DEF PoolSound, OpenInv, NoneForgotten, Pooled, Open

LEMMA KeepFlight ==
  ASSUME UNCHANGED <<new_task, reqs, worker>>
  PROVE  InFlight' = InFlight
BY DEF InFlight, Read, Queued, InHands

LEMMA KeepCall ==
  ASSUME CallInv, UNCHANGED <<setup, new_task, reqs, worker, conn>>,
         ~setup.die => \A r \in InFlight : cstate'[r.from] = cstate[r.from]
  PROVE  CallInv'
BY KeepFlight DEF CallInv, Apart

LEMMA KeepBytes ==
  ASSUME ByteInv, UNCHANGED <<setup, clientfd, conn, rio_cnt, wire, inbuf>>,
         InFlight' = InFlight,
         ~setup.die => \A c \in Clients : cstate'[c] = "waiting" <=> cstate[c] = "waiting"
  PROVE  ByteInv'
BY DEF ByteInv, Pooled, Due

(* A ready connection stays ready while nobody reads from it: bytes only    *)
(* arrive, and who is gone comes back only after it was closed.             *)
LEMMA KeepRound ==
  ASSUME RoundInv, UNCHANGED <<conn, poolVars, mainVars>>,
         \A f \in Fds : Readable(f) => Readable(f)',
         TypeOK
  PROVE  RoundInv'
<1>1. UNCHANGED Pooled
  BY DEF Pooled, poolVars
<1>2. \A s \in Pooled : clientfd[s] \in Fds
  BY DEF Pooled, TypeOK
<1> QED
  BY <1>1, <1>2 DEF RoundInv, poolVars, mainVars

-----------------------------------------------------------------------------
LEMMA InitInv == Init => IInv
<1> SUFFICES ASSUME Init PROVE IInv
  OBVIOUS
<1> USE EventLoopAssumption DEF Init
<1>1. TypeOK
  BY DEF TypeOK, Slots
<1>2. ConnInv /\ OpenInv
  BY DEF ConnInv, OpenInv, Connected, Backlogged
<1>3. Pooled = {} /\ Open = {}
  BY DEF Pooled, Open
<1>4. PoolSound /\ RoundInv /\ NoneForgotten /\ NoAbort
  BY <1>3 DEF PoolSound, RoundInv, NoneForgotten, NoAbort
<1>5. InFlight = {}
  BY DEF InFlight, Read, Queued, InHands
<1>6. CallInv
  BY <1>5 DEF CallInv, Apart
<1>7. ByteInv
  BY <1>3, <1>5 DEF ByteInv, Due
<1> QED
  BY <1>1, <1>2, <1>4, <1>6, <1>7 DEF IInv

-----------------------------------------------------------------------------
(* The clients.                                                             *)

(* The clients of requests are waiting: nobody else's state matters. *)
LEMMA InFlightFrom ==
  ASSUME TypeOK
  PROVE  \A r \in InFlight : r \in Request
BY DEF InFlight, Read, Queued, InHands, TypeOK

LEMMA ConnectStep == ASSUME IInv, NEW c \in Clients, Connect(c) PROVE IInv'
<1> USE EventLoopAssumption DEF Connect, poolVars, mainVars, IInv
<1>1. TypeOK'
  BY DEF TypeOK
<1>2. ConnInv'
  <2>1. /\ backlog \in Seq(Clients) /\ backlog' = Append(backlog, c)
        /\ conn \in [Fds -> Clients \cup {NULL}]
        /\ cstate \in [Clients -> {"off", "idle", "waiting", "gone", "reset"}]
    BY DEF TypeOK
  <2>2. /\ Len(backlog') = Len(backlog) + 1 /\ DOMAIN backlog' = 1 .. Len(backlog')
        /\ DOMAIN backlog = 1 .. Len(backlog)
        /\ \A n \in 1 .. Len(backlog) : backlog'[n] = backlog[n]
        /\ backlog'[Len(backlog) + 1] = c
    BY <2>1
  <2>3. \A n \in DOMAIN backlog : backlog[n] # c
    BY DEF ConnInv, Backlogged
  <2>4. \A f \in Fds : conn[f] # c
    BY DEF ConnInv, Connected
  <2> QED
    BY <2>1, <2>2, <2>3, <2>4 DEF ConnInv, Connected, Backlogged
<1>3. PoolSound' /\ OpenInv' /\ NoneForgotten' /\ NoAbort'
  BY KeepPool DEF NoAbort
<1>4. \A f \in Fds : Readable(f) => Readable(f)'
  BY DEF Readable, Gone, TypeOK
<1>5. RoundInv'
  BY <1>4, KeepRound
<1>6. CallInv'
  BY KeepCall, InFlightFrom DEF CallInv, TypeOK, Request
<1>7. ByteInv'
  BY KeepBytes, KeepFlight DEF TypeOK
<1> QED
  BY <1>1, <1>2, <1>3, <1>5, <1>6, <1>7

LEMMA SendStep == ASSUME IInv, NEW c \in Clients, Send(c) PROVE IInv'
<1> USE EventLoopAssumption DEF Send, poolVars, mainVars, IInv
<1>1. TypeOK'
  BY DEF TypeOK
<1>2. ConnInv'
  BY DEF ConnInv, Connected, Backlogged, TypeOK
<1>3. PoolSound' /\ OpenInv' /\ NoneForgotten' /\ NoAbort'
  BY KeepPool DEF NoAbort
<1>4. \A f \in Fds : Readable(f) => Readable(f)'
  BY DEF Readable, Gone, TypeOK
<1>5. RoundInv'
  BY <1>4, KeepRound
<1>6. CallInv'
  BY KeepCall, InFlightFrom DEF CallInv, TypeOK, Request
<1>7. ByteInv'
  <2> SUFFICES ASSUME ~setup.die, NEW d \in Clients
               PROVE  /\ \A s \in Pooled : conn[clientfd[s]] = d =>
                                             wire'[d] + inbuf[d] + rio_cnt[s] = Due(d)'
                      /\ (\A s \in Pooled : conn[clientfd[s]] # d) =>
                                             wire'[d] + inbuf[d] = Due(d)'
    BY DEF ByteInv, Pooled
  <2>1. InFlight' = InFlight
    BY KeepFlight
  <2>2. CASE d # c
    <3>1. Due(d)' = Due(d) /\ wire'[d] = wire[d]
      BY <2>1, <2>2 DEF Due, TypeOK
    <3> QED
      BY <3>1 DEF ByteInv
  <2>3. CASE d = c
    <3>1. \A r \in InFlight : r.from # c
      BY DEF CallInv
    <3>2. Due(c) = 0 /\ Due(c)' = MsgLen
      BY <2>1, <3>1 DEF Due, TypeOK
    <3>3. wire'[c] = wire[c] + MsgLen /\ wire[c] \in Nat /\ inbuf[c] \in Nat
          /\ \A s \in Pooled : rio_cnt[s] \in Nat
      BY DEF TypeOK, Pooled
    <3> QED
      BY <2>3, <3>2, <3>3 DEF ByteInv
  <2> QED
    BY <2>2, <2>3
<1> QED
  BY <1>1, <1>2, <1>3, <1>5, <1>6, <1>7

LEMMA DeliverStep == ASSUME IInv, NEW c \in Clients, Deliver(c) PROVE IInv'
<1> USE EventLoopAssumption DEF Deliver, poolVars, mainVars, IInv
<1>1. TypeOK'
  <2>1. wire' \in [Clients -> Nat] /\ inbuf' \in [Clients -> Nat]
    BY DEF TypeOK
  <2>2. UNCHANGED <<setup, cstate, unread, backlog, conn, clientfd, rio_cnt, read_set, ready_set,
                    nready, maxi, pc, i, new_task, reqs, worker>>
    OBVIOUS
  <2> HIDE DEF IInv, Deliver
  <2>3. TypeOK
    BY DEF IInv
  <2> QED
    BY <2>1, <2>2, <2>3 DEF TypeOK
<1>2. ConnInv' /\ PoolSound' /\ OpenInv' /\ NoneForgotten' /\ NoAbort'
  BY KeepConn, KeepPool DEF NoAbort
<1>3. \A f \in Fds : Readable(f) => Readable(f)'
  BY DEF Readable, Gone, TypeOK
<1>4. RoundInv'
  BY <1>3, KeepRound
<1>5. CallInv'
  BY KeepCall
<1>6. ByteInv'
  <2>1. InFlight' = InFlight
    BY KeepFlight
  <2>2. \A d \in Clients : wire'[d] + inbuf'[d] = wire[d] + inbuf[d]
                           /\ wire[d] \in Nat /\ inbuf[d] \in Nat
                           /\ wire'[d] \in Nat /\ inbuf'[d] \in Nat
    <3>1. /\ wire \in [Clients -> Nat] /\ inbuf \in [Clients -> Nat]
          /\ wire' = [wire EXCEPT ![c] = @ - 1] /\ inbuf' = [inbuf EXCEPT ![c] = @ + 1]
          /\ wire[c] > 0
      BY DEF TypeOK
    <3> HIDE DEF IInv, Deliver
    <3>2. wire'[c] = wire[c] - 1 /\ inbuf'[c] = inbuf[c] + 1
          /\ wire[c] \in Nat /\ inbuf[c] \in Nat
      BY <3>1
    <3>3. \A d \in Clients \ {c} : wire'[d] = wire[d] /\ inbuf'[d] = inbuf[d]
                                   /\ wire[d] \in Nat /\ inbuf[d] \in Nat
      BY <3>1
    <3> QED
      BY <3>1, <3>2, <3>3
  <2>3. \A d \in Clients : Due(d)' = Due(d)
    BY <2>1 DEF Due
  <2>4. \A s \in Pooled : rio_cnt[s] \in Nat
    BY DEF TypeOK, Pooled
  <2> SUFFICES ASSUME ~setup.die, NEW d \in Clients
               PROVE  /\ \A s \in Pooled : conn[clientfd[s]] = d =>
                                             wire'[d] + inbuf'[d] + rio_cnt[s] = Due(d)
                      /\ (\A s \in Pooled : conn[clientfd[s]] # d) =>
                                             wire'[d] + inbuf'[d] = Due(d)
    BY <2>3 DEF ByteInv, Pooled
  <2> QED
    BY <2>2, <2>4 DEF ByteInv
<1> QED
  BY <1>1, <1>2, <1>4, <1>5, <1>6

(* How its connection ended matters to nobody but its client.               *)
LEMMA HangupKeeps ==
  ASSUME TypeOK, ConnInv, NEW c \in Clients, Hangup(c), cstate[c] # "off"
  PROVE  TypeOK' /\ ConnInv'
<1>1. /\ cstate' \in [Clients -> {"off", "idle", "waiting", "gone", "reset"}]
      /\ \A d \in Clients : cstate'[d] = "off" => cstate[d] = "off"
  <2>1. cstate \in [Clients -> {"off", "idle", "waiting", "gone", "reset"}]
    BY DEF TypeOK
  <2>2. CASE cstate' = [cstate EXCEPT ![c] = "gone"]
    BY <2>1, <2>2
  <2>3. CASE cstate' = [cstate EXCEPT ![c] = "reset"]
    BY <2>1, <2>3
  <2> QED
    BY <2>2, <2>3 DEF Hangup
<1>2. wire' \in [Clients -> Nat] /\ unread' \subseteq Clients
  BY DEF Hangup, TypeOK
<1>3. UNCHANGED <<setup, inbuf, backlog, conn, clientfd, rio_cnt, read_set, ready_set, nready,
                  maxi, pc, i, new_task, reqs, worker>>
  BY DEF Hangup, poolVars, mainVars
<1>4. TypeOK'
  BY <1>1, <1>2, <1>3 DEF TypeOK
<1>5. ConnInv'
  BY <1>1, <1>3 DEF ConnInv, Connected, Backlogged
<1> QED
  BY <1>4, <1>5

LEMMA LeaveStep == ASSUME IInv, NEW c \in Clients, Leave(c) PROVE IInv'
<1>1. TypeOK' /\ ConnInv'
  BY HangupKeeps DEF Leave, IInv
<1> USE EventLoopAssumption DEF Leave, Hangup, poolVars, mainVars, IInv
<1>3. PoolSound' /\ OpenInv' /\ NoneForgotten' /\ NoAbort'
  BY KeepPool DEF NoAbort
<1>4. \A f \in Fds : Readable(f) => Readable(f)'
  BY DEF Readable, Gone, TypeOK
<1>5. RoundInv'
  BY <1>4, KeepRound
<1>6. CallInv'
  BY KeepCall, InFlightFrom DEF CallInv, TypeOK, Request
<1>7. ByteInv'
  <2> SUFFICES ASSUME ~setup.die, NEW d \in Clients
               PROVE  /\ \A s \in Pooled : conn[clientfd[s]] = d =>
                                             wire'[d] + inbuf[d] + rio_cnt[s] = Due(d)'
                      /\ (\A s \in Pooled : conn[clientfd[s]] # d) =>
                                             wire'[d] + inbuf[d] = Due(d)'
    BY DEF ByteInv, Pooled
  <2>1. /\ InFlight' = InFlight
        /\ \A s \in Pooled : rio_cnt[s] \in Nat
        /\ wire \in [Clients -> Nat] /\ inbuf[d] \in Nat /\ cstate[c] = "idle"
    BY KeepFlight DEF TypeOK, Pooled
  <2>2. (\A s \in Pooled : conn[clientfd[s]] # d) \/ \E s \in Pooled : conn[clientfd[s]] = d
    OBVIOUS
  <2>3. CASE d = c
    <3>1. Due(c) = 0 /\ Due(c)' = 0
      BY <2>1 DEF Due, TypeOK
    <3>2. wire[c] = 0 /\ wire'[c] = 0
      BY <2>1, <2>2, <2>3, <3>1 DEF ByteInv
    <3> QED
      BY <2>3, <3>1, <3>2 DEF ByteInv
  <2>4. CASE d # c
    <3>1. wire'[d] = wire[d] /\ Due(d)' = Due(d)
      BY <2>1, <2>4 DEF Due, TypeOK
    <3> QED
      BY <3>1 DEF ByteInv
  <2> QED
    BY <2>3, <2>4
<1> QED
  BY <1>1, <1>3, <1>5, <1>6, <1>7

LEMMA DieStep == ASSUME IInv, NEW c \in Clients, Die(c) PROVE IInv'
<1>1. TypeOK' /\ ConnInv'
  BY HangupKeeps DEF Die, IInv
<1> USE EventLoopAssumption DEF Die, Hangup, poolVars, mainVars, IInv
<1>3. PoolSound' /\ OpenInv' /\ NoneForgotten' /\ NoAbort'
  BY KeepPool DEF NoAbort
<1>4. \A f \in Fds : Readable(f) => Readable(f)'
  BY DEF Readable, Gone, TypeOK
<1>5. RoundInv'
  BY <1>4, KeepRound
<1>6. CallInv' /\ ByteInv'
  BY DEF CallInv, ByteInv
<1> QED
  BY <1>1, <1>3, <1>5, <1>6

LEMMA ReturnStep == ASSUME IInv, NEW c \in Clients, Return(c) PROVE IInv'
<1> USE EventLoopAssumption DEF Return, Gone, poolVars, mainVars, IInv
<1>1. TypeOK'
  BY DEF TypeOK
<1>2. ConnInv'
  BY DEF ConnInv, Connected, Backlogged, TypeOK
<1>3. PoolSound' /\ OpenInv' /\ NoneForgotten' /\ NoAbort'
  BY KeepPool DEF NoAbort
<1>4. \A f \in Fds : Readable(f) => Readable(f)'
  BY DEF Readable, Gone, TypeOK, Connected
<1>5. RoundInv'
  BY <1>4, KeepRound
<1>6. CallInv'
  BY KeepCall, InFlightFrom DEF CallInv, TypeOK, Request
<1>7. ByteInv'
  BY KeepBytes, KeepFlight DEF TypeOK
<1> QED
  BY <1>1, <1>2, <1>3, <1>5, <1>6, <1>7

-----------------------------------------------------------------------------
(* select and accept.                                                       *)

LEMMA SelectStep == ASSUME IInv, Select PROVE IInv'
<1> USE EventLoopAssumption DEF IInv
<1> DEFINE ready == {f \in read_set : Readable(f)}
<1>0. /\ ready_set' = ready /\ pc = "select" /\ i' = 0
      /\ pc' \in {"accept", "check"}
      /\ UNCHANGED <<setup, clientVars, inbuf, backlog, conn, clientfd, rio_cnt, read_set,
                     maxi, new_task, reqs, worker>>
  BY DEF Select
<1>1. TypeOK'
  <2>1. IsFiniteSet(ready)
    <3>1. ready \subseteq Fds
      BY DEF TypeOK
    <3> QED
      BY <3>1, FS_Subset
  <2>2. nready' \in Int
    BY <2>1, FS_CardinalityType DEF Select
  <2> HIDE DEF ready
  <2>3. ready \subseteq Fds
    BY DEF ready, TypeOK
  <2> QED
    BY <1>0, <2>2, <2>3 DEF TypeOK, clientVars
<1>2. ConnInv' /\ PoolSound' /\ OpenInv' /\ NoneForgotten' /\ NoAbort'
  BY <1>0, KeepConn, KeepPool DEF NoAbort, clientVars
<1>3. RoundInv'
  <2>1. \A f \in read_set : Readable(f)' <=> Readable(f)
    BY <1>0 DEF Readable, Gone, clientVars
  <2> QED
    BY <1>0, <2>1 DEF RoundInv, Pooled
<1>4. CallInv'
  BY <1>0, KeepCall DEF clientVars
<1>5. ByteInv'
  BY <1>0, KeepBytes, KeepFlight DEF clientVars
<1> QED
  BY <1>1, <1>2, <1>3, <1>4, <1>5

(* What accept and add_client pick, and the client that is next.            *)
LEMMA NextInLine ==
  ASSUME TypeOK, backlog # <<>>
  PROVE  /\ Head(backlog) \in Clients /\ Head(backlog) # NULL /\ Backlogged(Head(backlog))
         /\ Tail(backlog) \in Seq(Clients)
         /\ \A n \in DOMAIN Tail(backlog) :
              n + 1 \in DOMAIN backlog /\ Tail(backlog)[n] = backlog[n + 1] /\ n \in Nat \ {0}
         /\ Head(backlog) = backlog[1] /\ 1 \in DOMAIN backlog
<1>1. backlog \in Seq(Clients)
  BY DEF TypeOK
<1> QED
  BY <1>1, EventLoopAssumption DEF Backlogged

LEMMA FreeFd ==
  ASSUME TypeOK, FreeFds # {}
  PROVE  Min(FreeFds) \in Fds /\ Min(FreeFds) \in setup.fds /\ conn[Min(FreeFds)] = NULL
<1>1. FreeFds \subseteq Fds /\ Fds \subseteq Nat
  BY EventLoopAssumption DEF FreeFds, TypeOK, Setup
<1>2. Min(FreeFds) \in FreeFds
  BY <1>1, MinOfNat
<1> QED
  BY <1>1, <1>2 DEF FreeFds

LEMMA FreeSlot ==
  ASSUME FreeSlots # {}
  PROVE  Min(FreeSlots) \in Slots /\ clientfd[Min(FreeSlots)] = NULL
<1>1. FreeSlots \subseteq Nat
  BY EventLoopAssumption DEF FreeSlots, Slots
<1>2. Min(FreeSlots) \in FreeSlots
  BY <1>1, MinOfNat
<1> QED
  BY <1>2 DEF FreeSlots

(* An accepted connection.                                                  *)
LEMMA AcceptConn ==
  ASSUME TypeOK, ConnInv, OpenInv, backlog # <<>>, NEW f \in setup.fds, f \in Fds,
         conn[f] = NULL, conn' = [conn EXCEPT ![f] = Head(backlog)],
         backlog' = Tail(backlog), UNCHANGED <<setup, cstate>>
  PROVE  ConnInv' /\ OpenInv'
<1> DEFINE h == Head(backlog)
<1>1. /\ conn \in [Fds -> Clients \cup {NULL}]
      /\ conn'[f] = h /\ \A g \in Fds \ {f} : conn'[g] = conn[g]
  BY DEF TypeOK
<1>2. /\ h \in Clients /\ h # NULL /\ Backlogged(h)
      /\ \A g \in Fds : conn[g] # h
  BY NextInLine DEF ConnInv
<1>3. \A n \in DOMAIN backlog' : n + 1 \in DOMAIN backlog /\ backlog'[n] = backlog[n + 1]
                                 /\ n \in Nat \ {0}
  BY NextInLine
<1>4. h = backlog[1] /\ 1 \in DOMAIN backlog
  BY NextInLine
<1> HIDE DEF h
<1>5. \A g, k \in Fds : conn'[g] # NULL /\ conn'[g] = conn'[k] => g = k
  BY <1>1, <1>2 DEF ConnInv
<1>6. \A m, n \in DOMAIN backlog' : backlog'[m] = backlog'[n] => m = n
  BY <1>3 DEF ConnInv
<1>7. \A g \in Fds : \A n \in DOMAIN backlog' : backlog'[n] # conn'[g]
  BY <1>1, <1>3, <1>4 DEF ConnInv, Backlogged
<1>8. \A c \in Clients : cstate[c] = "off" =>
        (\A g \in Fds : conn'[g] # c) /\ \A n \in DOMAIN backlog' : backlog'[n] # c
  BY <1>1, <1>2, <1>3 DEF ConnInv, Connected, Backlogged
<1> QED
  BY <1>1, <1>5, <1>6, <1>7, <1>8 DEF ConnInv, OpenInv, Connected, Backlogged

(* A descriptor that was free has no request.                               *)
LEMMA AcceptCall ==
  ASSUME TypeOK, CallInv, NEW f \in Fds, conn[f] = NULL, NEW h \in Clients,
         conn' = [conn EXCEPT ![f] = h],
         UNCHANGED <<setup, cstate, new_task, reqs, worker>>
  PROVE  CallInv'
<1>1. \A r \in InFlight : r \in Request
  BY InFlightFrom
<1>2. \A g \in Fds \ {f} : conn'[g] = conn[g]
  BY DEF TypeOK
<1>3. ~setup.die => \A r \in InFlight : conn'[r.connfd] = conn[r.connfd]
  BY <1>1, <1>2, EventLoopAssumption DEF CallInv, Request
<1> QED
  BY <1>3, KeepFlight DEF CallInv, Apart

LEMMA AcceptStep == ASSUME IInv, Accept PROVE IInv'
<1> USE EventLoopAssumption DEF IInv
<1> DEFINE f == Min(FreeFds)
           s == Min(FreeSlots)
           h == Head(backlog)
<1>0. /\ pc = "accept" /\ backlog # <<>> /\ FreeFds # {} /\ FreeSlots # {}
      /\ conn' = [conn EXCEPT ![f] = h]
      /\ backlog' = Tail(backlog)
      /\ nready' = nready - 1
      /\ clientfd' = [clientfd EXCEPT ![s] = f]
      /\ rio_cnt' = [rio_cnt EXCEPT ![s] = 0]
      /\ read_set' = read_set \cup {f}
      /\ maxi' = IF s > maxi THEN s ELSE maxi
      /\ UNCHANGED <<setup, cstate, wire, unread, inbuf, ready_set, pc, i, new_task, reqs, worker>>
  BY DEF Accept, clientVars, mainVars
<1>1. f \in Fds /\ f \in setup.fds /\ conn[f] = NULL
  BY <1>0, FreeFd
<1>2. s \in Slots /\ clientfd[s] = NULL
  BY <1>0, FreeSlot
<1>3. h \in Clients /\ h # NULL /\ backlog' \in Seq(Clients) /\ Backlogged(h)
  BY <1>0, NextInLine
<1> HIDE DEF f, s, h
<1>4. TypeOK'
  <2>1. /\ conn' \in [Fds -> Clients \cup {NULL}] /\ clientfd' \in [Slots -> Fds \cup {NULL}]
        /\ rio_cnt' \in [Slots -> 0 .. MsgLen - 1] /\ read_set' \subseteq Fds
    <3>1. /\ conn \in [Fds -> Clients \cup {NULL}] /\ clientfd \in [Slots -> Fds \cup {NULL}]
          /\ rio_cnt \in [Slots -> 0 .. MsgLen - 1] /\ read_set \subseteq Fds
          /\ 0 \in 0 .. MsgLen - 1
      BY DEF TypeOK
    <3> HIDE DEF IInv
    <3> QED
      BY <1>0, <1>1, <1>2, <1>3, <3>1
  <2>2. nready' \in Int /\ maxi' \in Slots
    BY <1>0, <1>2 DEF TypeOK
  <2> QED
    BY <1>0, <1>3, <2>1, <2>2 DEF TypeOK
<1>5. ConnInv' /\ OpenInv'
  BY <1>0, <1>1, AcceptConn DEF h
<1>6. /\ conn'[f] = h /\ \A g \in Fds \ {f} : conn'[g] = conn[g]
      /\ clientfd'[s] = f /\ \A t \in Slots \ {s} : clientfd'[t] = clientfd[t]
      /\ rio_cnt'[s] = 0 /\ \A t \in Slots \ {s} : rio_cnt'[t] = rio_cnt[t]
  BY <1>0, <1>1, <1>2 DEF TypeOK
<1>7. Pooled' = Pooled \cup {s} /\ s \notin Pooled /\ Open' = Open \cup {f} /\ f \notin Open
  <2> HIDE DEF IInv
  <2>1. f # NULL
    BY <1>1
  <2>2. Pooled' = Pooled \cup {s} /\ s \notin Pooled
    <3>1. \A t \in Slots : clientfd'[t] # NULL <=> t = s \/ clientfd[t] # NULL
      BY <1>6, <2>1
    <3> QED
      BY <1>2, <3>1 DEF Pooled
  <2>3. Open' = Open \cup {f} /\ f \notin Open
    <3>1. \A g \in Fds : conn'[g] # NULL <=> g = f \/ conn[g] # NULL
      BY <1>3, <1>6
    <3> QED
      BY <1>1, <3>1 DEF Open
  <2> QED
    BY <2>2, <2>3
<1>8. /\ f \notin read_set /\ f \notin ready_set
      /\ \A t \in Pooled : clientfd[t] \in Fds /\ clientfd[t] # f /\ t # s /\ t \in Slots
  BY <1>0, <1>2, <1>7 DEF PoolSound, RoundInv, Pooled, TypeOK
<1>9. \A t \in Pooled : clientfd'[t] = clientfd[t] /\ conn'[clientfd'[t]] = conn[clientfd[t]]
                        /\ rio_cnt'[t] = rio_cnt[t]
  <2> HIDE DEF IInv
  <2> QED
    BY <1>6, <1>8
<1>10. PoolSound'
  <2>1. {clientfd'[t] : t \in Pooled'} = read_set'
    BY <1>0, <1>6, <1>7, <1>9 DEF PoolSound
  <2>2. \A t, p \in Pooled' : clientfd'[t] = clientfd'[p] => t = p
    <3>1. \A t, p \in Pooled : clientfd[t] = clientfd[p] => t = p
      BY DEF PoolSound
    <3> HIDE DEF IInv
    <3>2. \A t \in Pooled : clientfd'[t] # clientfd'[s]
      BY <1>6, <1>8, <1>9
    <3>3. \A t, p \in Pooled : clientfd'[t] = clientfd'[p] => t = p
      BY <1>9, <3>1
    <3>4. \A t \in Pooled' : t = s \/ t \in Pooled
      BY <1>7
    <3> QED
      BY <3>2, <3>3, <3>4
  <2>3. \A t \in Pooled' : t <= maxi'
    <3>1. (\A t \in Pooled : t <= maxi) /\ maxi \in Slots
      BY DEF PoolSound, TypeOK
    <3> HIDE DEF IInv
    <3> QED
      BY <1>0, <1>2, <1>7, <1>8, <3>1 DEF Slots
  <2> QED
    BY <1>0, <1>7, <2>1, <2>2, <2>3 DEF PoolSound
<1>11. NoneForgotten'
  BY <1>0, <1>6, <1>7, <1>9 DEF NoneForgotten
<1>12. NoAbort'
  BY <1>0 DEF NoAbort
<1>13. RoundInv'
  <2>1. \A t \in Pooled : Readable(clientfd[t]) => Readable(clientfd[t])'
    BY <1>0, <1>9 DEF Readable, Gone
  <2>2. clientfd'[s] \notin ready_set'
    BY <1>0, <1>6, <1>8
  <2>3. \A t \in Pooled' : clientfd'[t] \in ready_set' => t \in Pooled /\ clientfd'[t] = clientfd[t]
    BY <1>7, <1>9, <2>2
  <2>4. /\ ready_set \subseteq read_set /\ i = 0 /\ new_task = NULL
        /\ \A t \in Pooled : clientfd[t] \in ready_set /\ t >= i => Readable(clientfd[t])
    BY <1>0 DEF RoundInv
  <2>5. \A t \in Pooled' : clientfd'[t] \in ready_set' /\ t >= i' => Readable(clientfd[t])'
    BY <1>0, <2>1, <2>3, <2>4
  <2> QED
    BY <1>0, <2>4, <2>5 DEF RoundInv
<1>14. InFlight' = InFlight
  BY <1>0, KeepFlight
<1>15. CallInv'
  BY <1>0, <1>1, <1>3, AcceptCall
<1>16. ByteInv'
  <2> SUFFICES ASSUME ~setup.die, NEW c \in Clients
               PROVE  /\ \A t \in Pooled' : conn'[clientfd'[t]] = c =>
                                              wire[c] + inbuf[c] + rio_cnt'[t] = Due(c)
                      /\ (\A t \in Pooled' : conn'[clientfd'[t]] # c) =>
                                              wire[c] + inbuf[c] = Due(c)
    BY <1>0, <1>14 DEF ByteInv, Due
  <2>1. \A t \in Pooled : conn[clientfd[t]] # h
    <3>1. ConnInv
      OBVIOUS
    <3> HIDE DEF IInv
    <3> QED
      BY <1>3, <1>8, <3>1 DEF ConnInv, Backlogged
  <2>2. wire[c] \in Nat /\ inbuf[c] \in Nat
    BY DEF TypeOK
  <2>3. CASE c = h
    <3>1. wire[h] + inbuf[h] = Due(h)
      BY <1>3, <2>1 DEF ByteInv
    <3> QED
      BY <1>6, <1>7, <1>9, <2>1, <2>2, <2>3, <3>1
  <2>4. CASE c # h
    BY <1>6, <1>7, <1>9, <2>4 DEF ByteInv
  <2> QED
    BY <2>3, <2>4
<1> QED
  BY <1>4, <1>5, <1>10, <1>11, <1>12, <1>13, <1>15, <1>16

LEMMA AcceptNoSlotStep == ASSUME IInv, AcceptNoSlot PROVE IInv'
<1> USE EventLoopAssumption
<1> DEFINE f == Min(FreeFds)
           h == Head(backlog)
<1>I. /\ TypeOK /\ ConnInv /\ OpenInv /\ PoolSound /\ RoundInv
      /\ CallInv /\ ByteInv /\ NoneForgotten /\ NoAbort
  BY DEF IInv
<1>0. /\ pc = "accept" /\ backlog # <<>> /\ FreeFds # {} /\ FreeSlots = {}
      /\ conn' = [conn EXCEPT ![f] = h]
      /\ backlog' = Tail(backlog)
      /\ nready' = nready - 1
      /\ UNCHANGED <<setup, cstate, wire, unread, inbuf, clientfd, rio_cnt, read_set, ready_set,
                     maxi, pc, i, new_task, reqs, worker>>
  BY DEF AcceptNoSlot, clientVars, mainVars
<1>1. f \in Fds /\ f \in setup.fds /\ conn[f] = NULL
  BY <1>0, <1>I, FreeFd
<1>2. h \in Clients /\ h # NULL /\ backlog' \in Seq(Clients) /\ Backlogged(h)
  BY <1>0, <1>I, NextInLine
<1> HIDE DEF f, h
<1>3. TypeOK'
  <2>1. conn' \in [Fds -> Clients \cup {NULL}] /\ nready' \in Int
    BY <1>0, <1>1, <1>2, <1>I DEF TypeOK
  <2> QED
    BY <1>0, <1>2, <1>I, <2>1 DEF TypeOK
<1>4. ConnInv' /\ OpenInv'
  BY <1>0, <1>1, <1>I, AcceptConn DEF h
<1>5. CallInv'
  BY <1>0, <1>1, <1>2, <1>I, AcceptCall
<1>6. conn'[f] = h /\ \A g \in Fds \ {f} : conn'[g] = conn[g]
  BY <1>0, <1>1, <1>I DEF TypeOK
<1>7. Pooled' = Pooled /\ Open' = Open \cup {f} /\ f \notin read_set
  BY <1>0, <1>1, <1>2, <1>6, <1>I DEF Pooled, Open, PoolSound
<1>8. PoolSound'
  BY <1>0, <1>7, <1>I DEF PoolSound
<1>9. \A t \in Pooled : /\ clientfd[t] \in Fds /\ clientfd[t] # f
                        /\ conn[clientfd[t]] \in Clients /\ conn[clientfd[t]] # h
                        /\ conn'[clientfd[t]] = conn[clientfd[t]]
  <2>1. \A t \in Pooled : clientfd[t] \in Fds /\ clientfd[t] # f /\ clientfd[t] \in Open
    BY <1>7, <1>I DEF PoolSound, Pooled, TypeOK
  <2>2. \A g \in Open : conn[g] \in Clients /\ g \in Fds
    BY <1>I DEF Open, TypeOK
  <2>3. \A g \in Fds : conn[g] # h
    BY <1>2, <1>I DEF ConnInv, Backlogged
  <2> QED
    BY <1>6, <2>1, <2>2, <2>3
<1>10. NoneForgotten'
  <2> DEFINE used == 0 .. setup.slots - 1
             g == [s \in Slots |-> conn[clientfd[s]]]
  <2>1. setup.slots \in 1 .. NSlots
    BY <1>I DEF TypeOK, Setup
  <2>2. \A s \in used : s \in Pooled
    BY <1>0, <2>1 DEF FreeSlots, Pooled, Slots
  <2>3. \A s \in used : g[s] \in Clients \ {h} /\ g[s] = conn[clientfd[s]]
    BY <1>9, <2>2 DEF Pooled
  <2>4. \A s, t \in used : g[s] = g[t] => s = t
    <3>1. \A s, t \in used : g[s] = g[t] => clientfd[s] = clientfd[t]
      <4> SUFFICES ASSUME NEW s \in used, NEW t \in used, g[s] = g[t]
                   PROVE  clientfd[s] = clientfd[t]
        OBVIOUS
      <4>1. conn[clientfd[s]] = conn[clientfd[t]] /\ conn[clientfd[s]] # NULL
            /\ clientfd[s] \in Fds /\ clientfd[t] \in Fds
        BY <1>9, <2>2, <2>3
      <4> QED
        BY <1>I, <4>1 DEF ConnInv
    <3> QED
      BY <1>I, <2>2, <3>1 DEF PoolSound
  <2> HIDE DEF g
  <2>5. Cardinality(used) < Cardinality(Clients)
    BY <1>2, <2>3, <2>4, Pigeonhole
  <2>6. Cardinality(used) = setup.slots
    BY <2>1, FS_Interval
  <2>7. Cardinality(Clients) \in Nat
    BY FS_CardinalityType
  <2> QED
    BY <1>0, <2>1, <2>5, <2>6, <2>7 DEF NoneForgotten
<1>11. NoAbort'
  BY <1>0 DEF NoAbort
<1>12. RoundInv'
  <2>1. \A t \in Pooled : Readable(clientfd[t]) => Readable(clientfd[t])'
    BY <1>0, <1>9 DEF Readable, Gone
  <2> QED
    BY <1>0, <1>7, <1>I, <2>1 DEF RoundInv
<1>13. ByteInv'
  <2>1. InFlight' = InFlight
    BY <1>0, KeepFlight
  <2> QED
    BY <1>0, <1>7, <1>9, <1>I, <2>1 DEF ByteInv, Due
<1> QED
  BY <1>3, <1>4, <1>5, <1>8, <1>10, <1>11, <1>12, <1>13 DEF IInv

(* The server gives up only when it has fewer descriptors than clients.     *)
LEMMA AcceptNoFdStep == ASSUME IInv, AcceptNoFd PROVE IInv'
<1> USE EventLoopAssumption
<1> DEFINE h == Head(backlog)
<1>I. /\ TypeOK /\ ConnInv /\ OpenInv /\ PoolSound /\ RoundInv
      /\ CallInv /\ ByteInv /\ NoneForgotten /\ NoAbort
  BY DEF IInv
<1>0. /\ pc = "accept" /\ backlog # <<>> /\ FreeFds = {} /\ pc' = "down"
      /\ UNCHANGED <<setup, cstate, wire, unread, inbuf, backlog, conn, clientfd, rio_cnt, read_set,
                     ready_set, nready, maxi, i, new_task, reqs, worker>>
  BY DEF AcceptNoFd, clientVars, poolVars
<1>1. TypeOK'
  BY <1>0, <1>I DEF TypeOK
<1>2. ConnInv' /\ PoolSound' /\ OpenInv' /\ NoneForgotten' /\ CallInv' /\ ByteInv'
  BY <1>0, <1>I, KeepConn, KeepPool, KeepCall, KeepBytes, KeepFlight
<1>3. RoundInv'
  BY <1>0 DEF RoundInv
<1>4. NoAbort'
  <2>1. h \in Clients /\ Backlogged(h)
    BY <1>0, <1>I, NextInLine
  <2> HIDE DEF h
  <2>2. setup.fds \subseteq Fds
    BY <1>I DEF TypeOK, Setup
  <2>3. \A g \in setup.fds : conn[g] \in Clients
    BY <1>0, <1>I, <2>2 DEF FreeFds, TypeOK
  <2>4. \A g \in setup.fds : conn[g] \in Clients \ {h}
    <3>1. \A g \in Fds : conn[g] # h
      BY <1>I, <2>1 DEF ConnInv, Backlogged
    <3> QED
      BY <2>2, <2>3, <3>1
  <2>5. \A g, k \in setup.fds : conn[g] = conn[k] => g = k
    <3>1. \A g, k \in Fds : conn[g] # NULL /\ conn[g] = conn[k] => g = k
      BY <1>I DEF ConnInv
    <3>2. \A g \in setup.fds : conn[g] # NULL
      BY <2>3
    <3> QED
      BY <2>2, <3>1, <3>2
  <2>6. Cardinality(setup.fds) < Cardinality(Clients) /\ IsFiniteSet(setup.fds)
    BY <2>1, <2>4, <2>5, Pigeonhole
  <2>7. Cardinality(Clients) \in Nat /\ Cardinality(setup.fds) \in Nat
    BY <2>6, FS_CardinalityType
  <2> QED
    BY <1>0, <2>6, <2>7 DEF NoAbort
<1> QED
  BY <1>1, <1>2, <1>3, <1>4 DEF IInv

LEMMA EndAcceptStep == ASSUME IInv, EndAccept PROVE IInv'
<1> USE DEF IInv
<1>0. /\ pc = "accept" /\ pc' = "check"
      /\ UNCHANGED <<setup, cstate, wire, unread, inbuf, backlog, conn, clientfd, rio_cnt, read_set,
                     ready_set, nready, maxi, i, new_task, reqs, worker>>
  BY DEF EndAccept, clientVars, poolVars
<1>1. TypeOK'
  BY <1>0 DEF TypeOK
<1>2. /\ ConnInv' /\ PoolSound' /\ OpenInv' /\ NoneForgotten' /\ CallInv' /\ ByteInv'
      /\ NoAbort'
  BY <1>0, KeepConn, KeepPool, KeepCall, KeepBytes, KeepFlight DEF NoAbort
<1>3. RoundInv'
  BY <1>0 DEF RoundInv, Pooled, Readable, Gone
<1> QED
  BY <1>1, <1>2, <1>3

-----------------------------------------------------------------------------
(* check_clients().                                                         *)

(* What is known of the slot whose turn it is.                              *)
LEMMA TurnFacts ==
  ASSUME IInv, Turn
  PROVE  /\ pc = "check" /\ i \in Pooled /\ i \in Slots /\ i + 1 \in 0 .. NSlots /\ new_task = NULL
         /\ clientfd[i] \in Fds /\ clientfd[i] # NULL
         /\ Peer \in Clients /\ Peer # NULL /\ Readable(clientfd[i])
         /\ rio_cnt[i] \in Nat /\ inbuf[Peer] \in Nat /\ wire[Peer] \in Nat
         /\ \A s \in Pooled \ {i} :
              /\ clientfd[s] \in Fds /\ s \in Slots
              /\ clientfd[s] # clientfd[i] /\ conn[clientfd[s]] # Peer
              /\ conn[clientfd[s]] \in Clients
<1> USE EventLoopAssumption
<1>I. /\ TypeOK /\ ConnInv /\ OpenInv /\ PoolSound /\ RoundInv
  BY DEF IInv
<1>1. pc = "check" /\ i <= maxi /\ clientfd[i] # NULL /\ clientfd[i] \in ready_set
  BY <1>I DEF Turn, CheckOver, Ready, TypeOK, Slots
<1>2. i \in Slots /\ i + 1 \in 0 .. NSlots
  BY <1>1, <1>I DEF TypeOK, Slots
<1>3. i \in Pooled
  BY <1>1, <1>2 DEF Pooled
<1>4. \A s \in Pooled : /\ s \in Slots /\ clientfd[s] \in Fds /\ clientfd[s] \in Open
                        /\ conn[clientfd[s]] \in Clients
  <2>1. \A s \in Pooled : s \in Slots /\ clientfd[s] \in Fds /\ clientfd[s] \in Open
    BY <1>I DEF PoolSound, Pooled, TypeOK
  <2>2. \A g \in Open : conn[g] \in Clients
    BY <1>I DEF Open, TypeOK
  <2> QED
    BY <2>1, <2>2
<1>5. Readable(clientfd[i]) /\ new_task = NULL
  BY <1>1, <1>2, <1>3, <1>I DEF RoundInv, Slots
<1>6. \A s \in Pooled \ {i} : clientfd[s] # clientfd[i]
  BY <1>3, <1>I DEF PoolSound
<1>7. \A s \in Pooled \ {i} : conn[clientfd[s]] # Peer
  <2>1. conn[clientfd[i]] # NULL /\ clientfd[i] \in Fds
    BY <1>3, <1>4
  <2> QED
    BY <1>4, <1>6, <1>I, <2>1 DEF ConnInv, Peer
<1>8. Peer \in Clients /\ Peer # NULL
  BY <1>3, <1>4 DEF Peer
<1>9. rio_cnt[i] \in Nat /\ inbuf[Peer] \in Nat /\ wire[Peer] \in Nat
  BY <1>2, <1>8, <1>I DEF TypeOK
<1> QED
  BY <1>1, <1>2, <1>3, <1>4, <1>5, <1>6, <1>7, <1>8, <1>9

LEMMA SkipSlotStep == ASSUME IInv, SkipSlot PROVE IInv'
<1> USE EventLoopAssumption DEF IInv
<1>0. /\ pc = "check" /\ i <= maxi /\ ~Ready(i) /\ i' = i + 1
      /\ UNCHANGED <<setup, cstate, wire, unread, inbuf, backlog, conn, clientfd, rio_cnt, read_set,
                     ready_set, nready, maxi, pc, new_task, reqs, worker>>
  BY DEF SkipSlot, CheckOver, clientVars, poolVars, TypeOK, Slots
<1>1. TypeOK'
  BY <1>0 DEF TypeOK, Slots
<1>2. /\ ConnInv' /\ PoolSound' /\ OpenInv' /\ NoneForgotten' /\ CallInv' /\ ByteInv'
      /\ NoAbort'
  BY <1>0, KeepConn, KeepPool, KeepCall, KeepBytes, KeepFlight DEF NoAbort
<1>3. RoundInv'
  <2>1. \A s \in Pooled : s \in Int /\ i \in Int /\ (s >= i + 1 => s >= i)
    BY DEF Pooled, Slots, TypeOK
  <2> QED
    BY <1>0, <2>1 DEF RoundInv, Pooled, Readable, Gone
<1> QED
  BY <1>1, <1>2, <1>3

(* A read fails only where a byte was left unread.                          *)
LEMMA ReadFailsStep == ASSUME IInv, WholeInv, ReadFails PROVE IInv'
<1> USE EventLoopAssumption
<1>I. /\ TypeOK /\ ConnInv /\ OpenInv /\ PoolSound /\ RoundInv
      /\ CallInv /\ ByteInv /\ NoneForgotten /\ NoAbort
  BY DEF IInv
<1>0. /\ Turn /\ cstate[Peer] = "reset" /\ pc' = "down"
      /\ UNCHANGED <<setup, cstate, wire, unread, inbuf, backlog, conn, clientfd, rio_cnt,
                     read_set, ready_set, nready, maxi, i, new_task, reqs, worker>>
  BY DEF ReadFails, ReadError, clientVars, poolVars
<1>1. setup.die \/ ~setup.whole
  BY <1>0, TurnFacts DEF WholeInv
<1>2. TypeOK'
  BY <1>0, <1>I DEF TypeOK
<1>3. ConnInv' /\ PoolSound' /\ OpenInv' /\ NoneForgotten' /\ CallInv' /\ ByteInv'
  BY <1>0, <1>I, KeepConn, KeepPool, KeepCall, KeepBytes, KeepFlight
<1>4. RoundInv' /\ NoAbort'
  BY <1>0, <1>1 DEF RoundInv, NoAbort
<1> QED
  BY <1>2, <1>3, <1>4 DEF IInv

(* Only a connection whose client is gone is closed.                        *)
LEMMA CloseClientStep == ASSUME IInv, CloseClient PROVE IInv'
<1> USE EventLoopAssumption
<1> DEFINE f == clientfd[i]
           c == Peer
<1>I. /\ TypeOK /\ ConnInv /\ OpenInv /\ PoolSound /\ RoundInv
      /\ CallInv /\ ByteInv /\ NoneForgotten /\ NoAbort
  BY DEF IInv
<1>0. /\ Turn /\ rio_cnt[i] + inbuf[c] = 0
      /\ cstate[c] # "reset" \/ inbuf[c] # 0
      /\ conn' = [conn EXCEPT ![f] = NULL]
      /\ read_set' = read_set \ {f}
      /\ clientfd' = [clientfd EXCEPT ![i] = NULL]
      /\ nready' = nready - 1
      /\ i' = i + 1
      /\ UNCHANGED <<setup, cstate, wire, unread, inbuf, backlog, rio_cnt, ready_set, maxi, pc, new_task,
                     reqs, worker>>
  BY DEF CloseClient, HasRead, ReadError, Received, clientVars
<1>1. /\ pc = "check" /\ i \in Pooled /\ i \in Slots /\ i + 1 \in 0 .. NSlots /\ new_task = NULL
      /\ f \in Fds /\ f # NULL /\ c \in Clients /\ c # NULL /\ Readable(f)
      /\ rio_cnt[i] \in Nat /\ inbuf[c] \in Nat /\ wire[c] \in Nat
      /\ \A s \in Pooled \ {i} : /\ clientfd[s] \in Fds /\ s \in Slots
                                 /\ clientfd[s] # f /\ conn[clientfd[s]] # c
                                 /\ conn[clientfd[s]] \in Clients
      /\ conn[f] = c
  BY <1>0, TurnFacts DEF Peer
<1> HIDE DEF f, c
<1>2. rio_cnt[i] = 0 /\ inbuf[c] = 0 /\ cstate[c] = "gone" /\ wire[c] = 0
  BY <1>0, <1>1 DEF Readable, Gone
<1>3. TypeOK'
  <2>1. conn' \in [Fds -> Clients \cup {NULL}] /\ clientfd' \in [Slots -> Fds \cup {NULL}]
    BY <1>0, <1>1, <1>I DEF TypeOK
  <2>2. nready' \in Int
    BY <1>0, <1>I DEF TypeOK
  <2> QED
    BY <1>0, <1>1, <1>I, <2>1, <2>2 DEF TypeOK
<1>4. /\ conn'[f] = NULL /\ \A g \in Fds \ {f} : conn'[g] = conn[g]
      /\ clientfd'[i] = NULL /\ \A s \in Slots \ {i} : clientfd'[s] = clientfd[s]
  BY <1>0, <1>1, <1>I DEF TypeOK
<1>5. Pooled' = Pooled \ {i} /\ Open' = Open \ {f}
  <2>1. \A s \in Slots : clientfd'[s] # NULL <=> s # i /\ clientfd[s] # NULL
    BY <1>4
  <2>2. \A g \in Fds : conn'[g] # NULL <=> g # f /\ conn[g] # NULL
    BY <1>4
  <2>3. Pooled' = Pooled \ {i}
    BY <2>1 DEF Pooled
  <2>4. Open' = Open \ {f}
    BY <2>2 DEF Open
  <2> QED
    BY <2>3, <2>4
<1>6. \A s \in Pooled' : clientfd'[s] = clientfd[s] /\ conn'[clientfd'[s]] = conn[clientfd[s]]
  <2> SUFFICES ASSUME NEW s \in Pooled \ {i}
               PROVE  clientfd'[s] = clientfd[s] /\ conn'[clientfd'[s]] = conn[clientfd[s]]
    BY <1>5
  <2>1. s \in Slots \ {i} /\ clientfd[s] \in Fds \ {f}
    BY <1>1
  <2> QED
    BY <1>4, <2>1
<1>7. ConnInv'
  <2>1. \A n \in DOMAIN backlog : backlog[n] # NULL
    BY <1>I DEF TypeOK
  <2>2. \A g, k \in Fds : conn'[g] # NULL /\ conn'[g] = conn'[k] => g = k
    BY <1>4, <1>I DEF ConnInv
  <2>3. \A g \in Fds : \A n \in DOMAIN backlog : backlog[n] # conn'[g]
    BY <1>4, <1>I, <2>1 DEF ConnInv, Backlogged
  <2>4. \A d \in Clients : cstate[d] = "off" =>
          (\A g \in Fds : conn'[g] # d) /\ \A n \in DOMAIN backlog : backlog[n] # d
    BY <1>4, <1>I DEF ConnInv, Connected, Backlogged
  <2> QED
    BY <1>0, <1>I, <2>2, <2>3, <2>4 DEF ConnInv, Connected, Backlogged
<1>8. OpenInv'
  BY <1>0, <1>4, <1>I DEF OpenInv
<1>9. PoolSound'
  <2>1. {clientfd'[s] : s \in Pooled'} = read_set'
    <3>1. read_set = {clientfd[s] : s \in Pooled}
      BY <1>I DEF PoolSound
    <3>2. f = clientfd[i]
      BY DEF f
    <3> QED
      BY <1>0, <1>1, <1>5, <1>6, <3>1, <3>2
  <2> QED
    BY <1>0, <1>5, <1>6, <1>I, <2>1 DEF PoolSound
<1>10. NoneForgotten'
  <2>1. f = clientfd[i]
    BY DEF f
  <2> QED
    BY <1>0, <1>1, <1>5, <1>6, <1>I, <2>1 DEF NoneForgotten
<1>11. NoAbort'
  BY <1>0, <1>1 DEF NoAbort
<1>12. RoundInv'
  <2>1. \A s \in Pooled' : Readable(clientfd[s]) => Readable(clientfd[s])'
    BY <1>0, <1>1, <1>5, <1>6 DEF Readable, Gone
  <2>2. \A s \in Pooled' : s \in Int /\ i \in Int /\ (s >= i + 1 => s >= i)
    BY <1>1, <1>5 DEF Slots
  <2>3. \A s \in Pooled' : clientfd'[s] \in ready_set' /\ s >= i' => Readable(clientfd[s])'
    BY <1>0, <1>1, <1>5, <1>6, <1>I, <2>1, <2>2 DEF RoundInv
  <2> QED
    BY <1>0, <1>1, <2>3 DEF RoundInv
<1>13. CallInv'
  <2> SUFFICES ASSUME ~setup.die PROVE CallInv'
    BY <1>0 DEF CallInv
  <2>1. \A r \in InFlight : r \in Request /\ r.connfd # f
    BY <1>1, <1>2, <1>I, InFlightFrom DEF CallInv
  <2>2. \A r \in InFlight : conn'[r.connfd] = conn[r.connfd]
    BY <1>4, <2>1 DEF Request
  <2>3. InFlight' = InFlight
    BY <1>0, KeepFlight
  <2> QED
    BY <1>0, <1>I, <2>2, <2>3 DEF CallInv, Apart
<1>14. ByteInv'
  <2> SUFFICES ASSUME ~setup.die, NEW d \in Clients
               PROVE  /\ \A s \in Pooled' : conn'[clientfd'[s]] = d =>
                                              wire[d] + inbuf[d] + rio_cnt[s] = Due(d)
                      /\ (\A s \in Pooled' : conn'[clientfd'[s]] # d) =>
                                              wire[d] + inbuf[d] = Due(d)
    BY <1>0, KeepFlight DEF ByteInv, Due
  <2>1. CASE d = c
    BY <1>1, <1>2, <1>5, <1>6, <2>1 DEF Due
  <2>2. CASE d # c
    <3>1. f = clientfd[i]
      BY DEF f
    <3> QED
      BY <1>1, <1>5, <1>6, <1>I, <2>2, <3>1 DEF ByteInv
  <2> QED
    BY <2>1, <2>2
<1> QED
  BY <1>3, <1>7, <1>8, <1>9, <1>10, <1>11, <1>12, <1>13, <1>14 DEF IInv

(* After the turn of slot i, what was ready is so still, but for slot i.    *)
LEMMA TurnOver ==
  ASSUME IInv, Turn, inbuf' = [inbuf EXCEPT ![Peer] = 0],
         UNCHANGED <<cstate, wire, conn, clientfd, ready_set>>
  PROVE  \A s \in Pooled' : clientfd[s] \in ready_set /\ s >= i /\ s # i => Readable(clientfd[s])'
<1> SUFFICES ASSUME NEW s \in Pooled, s # i, clientfd[s] \in ready_set, s >= i
             PROVE  Readable(clientfd[s])'
  BY DEF Pooled
<1>1. Readable(clientfd[s])
  BY TurnFacts DEF IInv, RoundInv
<1>2. conn[clientfd[s]] # Peer /\ conn[clientfd[s]] \in Clients
  BY TurnFacts
<1>3. inbuf'[conn[clientfd[s]]] = inbuf[conn[clientfd[s]]]
  BY <1>2 DEF IInv, TypeOK
<1> QED
  BY <1>1, <1>3 DEF Readable, Gone

LEMMA ReadPartStep == ASSUME IInv, ReadPart PROVE IInv'
<1> USE EventLoopAssumption
<1> DEFINE c == Peer
<1>I. /\ TypeOK /\ ConnInv /\ OpenInv /\ PoolSound /\ RoundInv
      /\ CallInv /\ ByteInv /\ NoneForgotten /\ NoAbort
  BY DEF IInv
<1>0. /\ Turn /\ Received \in 1 .. MsgLen - 1 /\ Received = rio_cnt[i] + inbuf[c]
      /\ rio_cnt' = [rio_cnt EXCEPT ![i] = Received]
      /\ inbuf' = [inbuf EXCEPT ![c] = 0]
      /\ nready' = nready - 1
      /\ i' = i + 1
      /\ UNCHANGED <<setup, cstate, wire, unread, backlog, conn, clientfd, read_set, ready_set, maxi, pc,
                     new_task, reqs, worker>>
  BY DEF ReadPart, HasRead, Received, clientVars
<1>1. /\ pc = "check" /\ i \in Pooled /\ i \in Slots /\ i + 1 \in 0 .. NSlots /\ new_task = NULL
      /\ c \in Clients /\ conn[clientfd[i]] = c
      /\ rio_cnt[i] \in Nat /\ inbuf[c] \in Nat /\ wire[c] \in Nat
      /\ \A s \in Pooled \ {i} : conn[clientfd[s]] # c /\ s \in Slots
  BY <1>0, TurnFacts DEF Peer
<1>2. \A s \in Pooled' : clientfd[s] \in ready_set /\ s >= i /\ s # i => Readable(clientfd[s])'
  BY <1>0, TurnOver
<1> HIDE DEF c
<1>3. TypeOK'
  <2>1. rio_cnt' \in [Slots -> 0 .. MsgLen - 1]
    <3>1. Received \in 0 .. MsgLen - 1
      BY <1>0
    <3> QED
      BY <1>0, <1>1, <1>I, <3>1 DEF TypeOK
  <2>2. inbuf' \in [Clients -> Nat] /\ nready' \in Int
    BY <1>0, <1>1, <1>I DEF TypeOK
  <2> QED
    BY <1>0, <1>1, <1>I, <2>1, <2>2 DEF TypeOK
<1>4. ConnInv' /\ PoolSound' /\ OpenInv' /\ NoneForgotten' /\ CallInv' /\ NoAbort'
  BY <1>0, <1>I, KeepConn, KeepPool, KeepCall DEF NoAbort
<1>5. RoundInv'
  <2>1. \A s \in Pooled' : s \in Int /\ i \in Int /\ (s >= i + 1 => s >= i /\ s # i)
    BY <1>0, <1>1 DEF Slots, Pooled
  <2> QED
    BY <1>0, <1>1, <1>2, <2>1 DEF RoundInv
<1>6. ByteInv'
  <2> SUFFICES ASSUME ~setup.die, NEW d \in Clients
               PROVE  /\ \A s \in Pooled : conn[clientfd[s]] = d =>
                                             wire[d] + inbuf'[d] + rio_cnt'[s] = Due(d)
                      /\ (\A s \in Pooled : conn[clientfd[s]] # d) =>
                                             wire[d] + inbuf'[d] = Due(d)
    BY <1>0, KeepFlight DEF ByteInv, Due, Pooled
  <2>1. CASE d = c
    <3>1. wire[c] + inbuf[c] + rio_cnt[i] = Due(c)
      BY <1>1, <1>I DEF ByteInv
    <3>2. inbuf'[c] = 0 /\ rio_cnt'[i] = rio_cnt[i] + inbuf[c]
      BY <1>0, <1>1, <1>I DEF TypeOK
    <3> QED
      BY <1>1, <2>1, <3>1, <3>2
  <2>2. CASE d # c
    <3>1. inbuf'[d] = inbuf[d] /\ \A s \in Slots \ {i} : rio_cnt'[s] = rio_cnt[s]
      BY <1>0, <1>1, <1>I, <2>2 DEF TypeOK
    <3> QED
      BY <1>1, <1>I, <2>2, <3>1 DEF ByteInv, Pooled
  <2> QED
    BY <2>1, <2>2
<1> QED
  BY <1>3, <1>4, <1>5, <1>6 DEF IInv

(* A whole request is there only when its client waits, and then nothing    *)
(* else is: the buffer can be emptied.                                      *)
LEMMA ReadRequestStep == ASSUME IInv, ReadRequest PROVE IInv'
<1> USE EventLoopAssumption
<1> DEFINE c == Peer
           f == clientfd[i]
<1>I. /\ TypeOK /\ ConnInv /\ OpenInv /\ PoolSound /\ RoundInv
      /\ CallInv /\ ByteInv /\ NoneForgotten /\ NoAbort
  BY DEF IInv
<1>0. /\ Turn /\ rio_cnt[i] + inbuf[c] >= MsgLen
      /\ rio_cnt' = [rio_cnt EXCEPT ![i] = 0]
      /\ inbuf' = [inbuf EXCEPT ![c] = 0]
      /\ nready' = nready - 1
      /\ new_task' = [connfd |-> f, from |-> c]
      /\ pc' = "push"
      /\ UNCHANGED <<setup, cstate, wire, unread, backlog, conn, clientfd, read_set, ready_set, maxi, i,
                     reqs, worker>>
  BY DEF ReadRequest, HasRead, Received, clientVars
<1>1. /\ i \in Pooled /\ i \in Slots /\ new_task = NULL
      /\ f \in Fds /\ c \in Clients /\ conn[f] = c /\ f = clientfd[i]
      /\ rio_cnt[i] \in Nat /\ inbuf[c] \in Nat /\ wire[c] \in Nat
      /\ \A s \in Pooled \ {i} : conn[clientfd[s]] # c /\ s \in Slots
  BY <1>0, TurnFacts DEF Peer
<1>2. \A s \in Pooled' : clientfd[s] \in ready_set /\ s >= i /\ s # i => Readable(clientfd[s])'
  BY <1>0, TurnOver
<1> HIDE DEF c, f
<1>3. new_task' \in Request /\ new_task' # NULL /\ new_task'.connfd = f /\ new_task'.from = c
  BY <1>0, <1>1 DEF Request
<1>4. TypeOK'
  <2>1. rio_cnt' \in [Slots -> 0 .. MsgLen - 1]
    <3>1. 0 \in 0 .. MsgLen - 1
      OBVIOUS
    <3> QED
      BY <1>0, <1>1, <1>I, <3>1 DEF TypeOK
  <2>2. inbuf' \in [Clients -> Nat] /\ nready' \in Int
    BY <1>0, <1>1, <1>I DEF TypeOK
  <2> QED
    BY <1>0, <1>3, <1>I, <2>1, <2>2 DEF TypeOK
<1>5. ConnInv' /\ PoolSound' /\ OpenInv' /\ NoneForgotten' /\ NoAbort'
  BY <1>0, <1>I, KeepConn, KeepPool DEF NoAbort
<1>6. RoundInv'
  <2>1. i <= maxi
    BY <1>1, <1>I DEF PoolSound
  <2> QED
    BY <1>0, <1>2, <1>3, <2>1 DEF RoundInv
<1>7. InFlight' = InFlight \cup {new_task'}
  BY <1>0, <1>1, <1>3 DEF InFlight, Read, Queued, InHands
<1>8. ~setup.die => /\ cstate[c] = "waiting" /\ \A r \in InFlight : r.from # c
                    /\ wire[c] = 0
  <2> SUFFICES ASSUME ~setup.die
               PROVE  /\ cstate[c] = "waiting" /\ \A r \in InFlight : r.from # c
                      /\ wire[c] = 0
    OBVIOUS
  <2>1. wire[c] + inbuf[c] + rio_cnt[i] = Due(c)
    BY <1>1, <1>I DEF ByteInv
  <2>2. Due(c) # 0
    BY <1>0, <1>1, <2>1
  <2>3. cstate[c] = "waiting" /\ (\A r \in InFlight : r.from # c) /\ Due(c) = MsgLen
    BY <2>2 DEF Due
  <2> QED
    BY <1>0, <1>1, <2>1, <2>3
<1>9. CallInv'
  <2> SUFFICES ASSUME ~setup.die PROVE CallInv'
    BY <1>0 DEF CallInv
  <2>1. \A r \in InFlight : r.connfd # f
    BY <1>1, <1>8, <1>I DEF CallInv
  <2>2. \A r \in InFlight' : conn'[r.connfd] = r.from /\ cstate'[r.from] = "waiting"
    BY <1>0, <1>1, <1>3, <1>7, <1>8, <1>I DEF CallInv
  <2>3. \A n \in DOMAIN reqs : reqs[n].connfd # f
    BY <2>1 DEF InFlight, Queued
  <2>4. \A w \in Workers : worker[w] # NULL => worker[w].connfd # f
    BY <2>1 DEF InFlight, InHands
  <2>5. Apart'
    BY <1>0, <1>3, <1>I, <2>3, <2>4 DEF Apart, CallInv
  <2> QED
    BY <2>2, <2>5 DEF CallInv
<1>10. ByteInv'
  <2> SUFFICES ASSUME ~setup.die, NEW d \in Clients
               PROVE  /\ \A s \in Pooled : conn[clientfd[s]] = d =>
                                             wire[d] + inbuf'[d] + rio_cnt'[s] = Due(d)'
                      /\ (\A s \in Pooled : conn[clientfd[s]] # d) =>
                                             wire[d] + inbuf'[d] = Due(d)'
    BY <1>0 DEF ByteInv, Pooled
  <2>1. CASE d = c
    <3>1. inbuf'[c] = 0 /\ rio_cnt'[i] = 0
      BY <1>0, <1>1, <1>I DEF TypeOK
    <3>2. Due(d)' = 0
      <4>1. new_task' \in InFlight' /\ new_task'.from = d
        BY <1>3, <1>7, <2>1
      <4> QED
        BY <4>1 DEF Due
    <3> QED
      BY <1>1, <1>8, <2>1, <3>1, <3>2
  <2>2. CASE d # c
    <3>1. inbuf'[d] = inbuf[d] /\ \A s \in Slots \ {i} : rio_cnt'[s] = rio_cnt[s]
      BY <1>0, <1>1, <1>I, <2>2 DEF TypeOK
    <3>2. Due(d)' = Due(d)
      <4>1. (\A r \in InFlight' : r.from # d) <=> (\A r \in InFlight : r.from # d)
        BY <1>3, <1>7, <2>2
      <4> QED
        BY <1>0, <4>1 DEF Due
    <3>3. \A s \in Pooled : conn[clientfd[s]] = d => rio_cnt'[s] = rio_cnt[s]
      BY <1>1, <2>2, <3>1
    <3>4. /\ \A s \in Pooled : conn[clientfd[s]] = d => wire[d] + inbuf[d] + rio_cnt[s] = Due(d)
          /\ (\A s \in Pooled : conn[clientfd[s]] # d) => wire[d] + inbuf[d] = Due(d)
      BY <1>I DEF ByteInv
    <3> QED
      BY <3>1, <3>2, <3>3, <3>4
  <2> QED
    BY <2>1, <2>2
<1> QED
  BY <1>4, <1>5, <1>6, <1>9, <1>10 DEF IInv

LEMMA PushTaskStep == ASSUME IInv, PushTask PROVE IInv'
<1> USE EventLoopAssumption
<1>I. /\ TypeOK /\ ConnInv /\ OpenInv /\ PoolSound /\ RoundInv
      /\ CallInv /\ ByteInv /\ NoneForgotten /\ NoAbort
  BY DEF IInv
<1>0. /\ pc = "push" /\ pc' = "check" /\ i' = i + 1 /\ new_task' = NULL
      /\ reqs' = Append(reqs, new_task)
      /\ UNCHANGED <<setup, cstate, wire, unread, inbuf, backlog, conn, clientfd, rio_cnt, read_set,
                     ready_set, nready, maxi, worker>>
  BY DEF PushTask, clientVars, poolVars
<1>1. new_task # NULL /\ new_task \in Request /\ i <= maxi
  BY <1>0, <1>I DEF RoundInv, TypeOK
<1>2. reqs \in Seq(Request) /\ reqs' \in Seq(Request)
  BY <1>0, <1>1, <1>I DEF TypeOK
<1>3. /\ DOMAIN reqs' = DOMAIN reqs \cup {Len(reqs) + 1}
      /\ \A n \in DOMAIN reqs : reqs'[n] = reqs[n] /\ n # Len(reqs) + 1
      /\ reqs'[Len(reqs) + 1] = new_task
  BY <1>0, <1>1, <1>2
<1>4. TypeOK'
  BY <1>0, <1>1, <1>2, <1>I DEF TypeOK, Slots
<1>5. ConnInv' /\ PoolSound' /\ OpenInv' /\ NoneForgotten' /\ NoAbort'
  BY <1>0, <1>I, KeepConn, KeepPool DEF NoAbort
<1>6. InFlight' = InFlight
  <2>1. Queued' = Queued \cup {new_task}
    BY <1>3 DEF Queued
  <2> QED
    BY <1>0, <1>1, <2>1 DEF InFlight, Read, InHands
<1>7. CallInv'
  BY <1>0, <1>1, <1>3, <1>6, <1>I DEF CallInv, Apart
<1>8. ByteInv'
  BY <1>0, <1>6, <1>I, KeepBytes
<1>9. RoundInv'
  <2>1. \A s \in Pooled : s \in Int /\ i \in Int /\ (s >= i + 1 => s >= i /\ s # i)
    BY <1>I DEF Pooled, Slots, TypeOK
  <2> QED
    BY <1>0, <1>I, <2>1 DEF RoundInv, Pooled, Readable, Gone
<1> QED
  BY <1>4, <1>5, <1>7, <1>8, <1>9 DEF IInv

LEMMA EndCheckStep == ASSUME IInv, EndCheck PROVE IInv'
<1> USE DEF IInv
<1>0. /\ pc = "check" /\ pc' = "select"
      /\ UNCHANGED <<setup, cstate, wire, unread, inbuf, backlog, conn, clientfd, rio_cnt, read_set,
                     ready_set, nready, maxi, i, new_task, reqs, worker>>
  BY DEF EndCheck, clientVars, poolVars
<1>1. TypeOK'
  BY <1>0 DEF TypeOK
<1>2. /\ ConnInv' /\ PoolSound' /\ OpenInv' /\ NoneForgotten' /\ CallInv' /\ ByteInv'
      /\ NoAbort'
  BY <1>0, KeepConn, KeepPool, KeepCall, KeepBytes, KeepFlight DEF NoAbort
<1>3. RoundInv'
  BY <1>0 DEF RoundInv
<1> QED
  BY <1>1, <1>2, <1>3

-----------------------------------------------------------------------------
(* The workers.                                                             *)

LEMMA AssignStep == ASSUME IInv, NEW w \in Workers, Assign(w) PROVE IInv'
<1> USE EventLoopAssumption
<1>I. /\ TypeOK /\ ConnInv /\ OpenInv /\ PoolSound /\ RoundInv
      /\ CallInv /\ ByteInv /\ NoneForgotten /\ NoAbort
  BY DEF IInv
<1>0. /\ worker[w] = NULL /\ reqs # <<>>
      /\ worker' = [worker EXCEPT ![w] = Head(reqs)]
      /\ reqs' = Tail(reqs)
      /\ UNCHANGED <<setup, cstate, wire, unread, inbuf, backlog, conn, clientfd, rio_cnt, read_set,
                     ready_set, nready, maxi, pc, i, new_task>>
  BY DEF Assign, clientVars, poolVars, mainVars
<1>1. reqs \in Seq(Request) /\ worker \in [Workers -> Request \cup {NULL}]
  BY <1>I DEF TypeOK
<1>2. /\ Head(reqs) \in Request /\ Head(reqs) = reqs[1] /\ 1 \in DOMAIN reqs
      /\ Head(reqs) # NULL /\ reqs' \in Seq(Request)
      /\ \A n \in DOMAIN reqs' : n \in Nat \ {0} /\ n + 1 \in DOMAIN reqs /\ reqs'[n] = reqs[n + 1]
      /\ \A n \in DOMAIN reqs : n = 1 \/ n - 1 \in DOMAIN reqs'
  <2>1. \A n \in DOMAIN reqs : n = 1 \/ n - 1 \in DOMAIN reqs'
    BY <1>0, <1>1
  <2>2. /\ Head(reqs) \in Request /\ Head(reqs) = reqs[1] /\ 1 \in DOMAIN reqs
        /\ reqs' \in Seq(Request)
    BY <1>0, <1>1
  <2>3. Head(reqs) # NULL
    BY <2>2 DEF Request
  <2>4. \A n \in DOMAIN reqs' : n \in Nat \ {0} /\ n + 1 \in DOMAIN reqs /\ reqs'[n] = reqs[n + 1]
    BY <1>0, <1>1
  <2> QED
    BY <2>1, <2>2, <2>3, <2>4
<1>3. /\ worker'[w] = Head(reqs) /\ worker' \in [Workers -> Request \cup {NULL}]
      /\ \A v \in Workers \ {w} : worker'[v] = worker[v]
  BY <1>0, <1>1, <1>2
<1>4. TypeOK'
  BY <1>0, <1>2, <1>3, <1>I DEF TypeOK
<1>5. ConnInv' /\ PoolSound' /\ OpenInv' /\ NoneForgotten' /\ NoAbort'
  BY <1>0, <1>I, KeepConn, KeepPool DEF NoAbort
<1>6. InFlight' = InFlight
  <2>1. Queued = Queued' \cup {Head(reqs)}
    <3>1. Queued \subseteq Queued' \cup {Head(reqs)}
      <4> SUFFICES ASSUME NEW n \in DOMAIN reqs, n # 1 PROVE reqs[n] \in Queued'
        BY <1>2 DEF Queued
      <4>1. n - 1 \in DOMAIN reqs' /\ reqs'[n - 1] = reqs[(n - 1) + 1]
        BY <1>2
      <4>2. (n - 1) + 1 = n
        BY <1>1
      <4> QED
        BY <4>1, <4>2 DEF Queued
    <3>2. Queued' \cup {Head(reqs)} \subseteq Queued
      BY <1>2 DEF Queued
    <3> QED
      BY <3>1, <3>2
  <2>2. InHands' = InHands \cup {Head(reqs)}
    BY <1>0, <1>2, <1>3 DEF InHands
  <2>3. Read' = Read
    BY <1>0 DEF Read
  <2> QED
    BY <2>1, <2>2, <2>3 DEF InFlight
<1>7. CallInv'
  <2> SUFFICES ASSUME ~setup.die PROVE Apart'
    BY <1>0, <1>6, <1>I DEF CallInv
  <2>1. Apart
    BY <1>I DEF CallInv
  <2>2. new_task # NULL =>
          /\ \A n \in DOMAIN reqs' : reqs'[n].connfd # new_task.connfd
          /\ \A v \in Workers : worker'[v] # NULL => worker'[v].connfd # new_task.connfd
    BY <1>2, <1>3, <2>1 DEF Apart
  <2>3. \A m, n \in DOMAIN reqs' : reqs'[m].connfd = reqs'[n].connfd => m = n
    BY <1>2, <2>1 DEF Apart
  <2>4. \A n \in DOMAIN reqs' : Head(reqs).connfd # reqs'[n].connfd
    BY <1>2, <2>1 DEF Apart
  <2>5. \A n \in DOMAIN reqs', v \in Workers :
          worker'[v] # NULL => worker'[v].connfd # reqs'[n].connfd
    BY <1>2, <1>3, <2>1, <2>4 DEF Apart
  <2>6. \A v \in Workers \ {w} : worker[v] # NULL => worker[v].connfd # Head(reqs).connfd
    BY <1>2, <2>1 DEF Apart
  <2>7. \A u, v \in Workers :
          worker'[u] # NULL /\ worker'[v] # NULL /\ worker'[u].connfd = worker'[v].connfd => u = v
    BY <1>3, <2>1, <2>6 DEF Apart
  <2> QED
    BY <1>0, <2>2, <2>3, <2>5, <2>7 DEF Apart
<1>8. ByteInv'
  BY <1>0, <1>6, <1>I, KeepBytes
<1>9. RoundInv'
  BY <1>0, <1>I, KeepRound DEF poolVars, mainVars, Readable, Gone
<1> QED
  BY <1>4, <1>5, <1>7, <1>8, <1>9 DEF IInv

(* The answer reaches the client of the request, and no other: nobody else  *)
(* is let go, and no other request is of this client.                       *)
LEMMA AnswerStep == ASSUME IInv, NEW w \in Workers, Answer(w) PROVE IInv'
<1> USE EventLoopAssumption
<1> DEFINE f == worker[w].connfd
           c == conn[f]
<1>I. /\ TypeOK /\ ConnInv /\ OpenInv /\ PoolSound /\ RoundInv
      /\ CallInv /\ ByteInv /\ NoneForgotten /\ NoAbort
  BY DEF IInv
<1>0. /\ worker[w] # NULL /\ c # NULL
      /\ cstate' = [cstate EXCEPT ![c] = IF @ = "waiting" THEN "idle" ELSE @]
      /\ worker' = [worker EXCEPT ![w] = NULL]
      /\ unread' \in {unread \ {c}, unread \cup {c}}
      /\ UNCHANGED <<setup, wire, inbuf, backlog, conn, clientfd, rio_cnt, read_set,
                     ready_set, nready, maxi, pc, i, new_task, reqs>>
  BY DEF Answer, poolVars, mainVars
<1>1. /\ worker[w] \in Request /\ f \in Fds /\ c \in Clients /\ worker[w] \in InFlight
  BY <1>0, <1>I DEF TypeOK, Request, InFlight, InHands
<1>2. f = worker[w].connfd /\ c = conn[f]
  OBVIOUS
<1> HIDE DEF f, c
<1>3. /\ worker'[w] = NULL /\ worker' \in [Workers -> Request \cup {NULL}]
      /\ \A v \in Workers \ {w} : worker'[v] = worker[v]
  BY <1>0, <1>I DEF TypeOK
<1>4. /\ cstate' \in [Clients -> {"off", "idle", "waiting", "gone", "reset"}]
      /\ \A d \in Clients \ {c} : cstate'[d] = cstate[d]
      /\ cstate[c] # "waiting" => cstate'[c] = cstate[c]
      /\ cstate[c] = "waiting" => cstate'[c] = "idle"
  BY <1>0, <1>1, <1>I DEF TypeOK
<1>5. TypeOK'
  BY <1>0, <1>1, <1>3, <1>4, <1>I DEF TypeOK
<1>6. PoolSound' /\ OpenInv' /\ NoneForgotten' /\ NoAbort'
  BY <1>0, <1>I, KeepPool DEF NoAbort
<1>7. ConnInv'
  BY <1>0, <1>4, <1>I DEF ConnInv, Connected, Backlogged
<1>8. RoundInv'
  <2>1. \A d \in Clients : Gone(d) => Gone(d)'
    BY <1>1, <1>4 DEF Gone
  <2>2. \A g \in Fds : conn[g] # NULL => conn[g] \in Clients
    BY <1>I DEF TypeOK
  <2>3. \A g \in Fds : Readable(g) => Readable(g)'
    BY <1>0, <2>1, <2>2 DEF Readable
  <2> QED
    BY <1>0, <1>I, <2>3, KeepRound DEF poolVars, mainVars
<1>9. InFlight = InFlight' \cup {worker[w]}
  <2>1. InHands = InHands' \cup {worker[w]}
    BY <1>0, <1>3 DEF InHands
  <2> QED
    BY <1>0, <2>1 DEF InFlight, Read, Queued
<1>10. ~setup.die => /\ cstate[c] = "waiting" /\ worker[w].from = c
                     /\ \A r \in InFlight' : r.from # c
  <2> SUFFICES ASSUME ~setup.die
               PROVE  /\ cstate[c] = "waiting" /\ worker[w].from = c
                      /\ \A r \in InFlight' : r.from # c
    OBVIOUS
  <2>1. cstate[c] = "waiting" /\ worker[w].from = c
    BY <1>1, <1>2, <1>I DEF CallInv
  <2>2. Apart
    BY <1>I DEF CallInv
  <2>3. \A r \in InFlight' : r.connfd # f
    <3>1. \A r \in Read' : r.connfd # f
      BY <1>0, <1>2, <2>2 DEF Apart, Read
    <3>2. \A r \in Queued' : r.connfd # f
      BY <1>0, <1>2, <2>2 DEF Apart, Queued
    <3>3. \A r \in InHands' : r.connfd # f
      BY <1>0, <1>2, <1>3, <2>2 DEF Apart, InHands
    <3> QED
      BY <3>1, <3>2, <3>3 DEF InFlight
  <2>4. \A r \in InFlight' : r.connfd \in Fds /\ conn[r.connfd] = r.from
    BY <1>9, <1>I, InFlightFrom DEF CallInv, Request
  <2>5. \A g \in Fds : conn[g] = c => g = f
    BY <1>0, <1>1, <1>2, <1>I DEF ConnInv
  <2> QED
    BY <2>1, <2>3, <2>4, <2>5
<1>11. CallInv'
  <2> SUFFICES ASSUME ~setup.die PROVE CallInv'
    BY <1>0 DEF CallInv
  <2>1. \A r \in InFlight' : conn[r.connfd] = r.from /\ cstate'[r.from] = "waiting"
    <3>1. \A r \in InFlight' : r.from \in Clients /\ r \in InFlight
      BY <1>9, <1>I, InFlightFrom DEF Request
    <3> QED
      BY <1>4, <1>10, <1>I, <3>1 DEF CallInv
  <2>2. Apart'
    BY <1>0, <1>3, <1>I DEF Apart, CallInv
  <2> QED
    BY <1>0, <2>1, <2>2 DEF CallInv
<1>12. ByteInv'
  <2>1. ~setup.die => \A d \in Clients : Due(d)' = Due(d)
    <3> SUFFICES ASSUME ~setup.die, NEW d \in Clients PROVE Due(d)' = Due(d)
      OBVIOUS
    <3>1. CASE d = c
      BY <1>1, <1>4, <1>10, <3>1 DEF Due
    <3>2. CASE d # c
      <4>1. (\A r \in InFlight' : r.from # d) <=> (\A r \in InFlight : r.from # d)
        BY <1>9, <1>10, <3>2
      <4> QED
        BY <1>4, <3>2, <4>1 DEF Due
    <3> QED
      BY <3>1, <3>2
  <2> QED
    BY <1>0, <1>I, <2>1 DEF ByteInv, Pooled
<1> QED
  BY <1>5, <1>6, <1>7, <1>8, <1>11, <1>12 DEF IInv

(* While clients wait for their answers and these fit, no write fails.      *)
LEMMA AnswerFailsStep == ASSUME IInv, NEW w \in Workers, AnswerFails(w) PROVE IInv'
<1> USE EventLoopAssumption
<1>I. /\ TypeOK /\ ConnInv /\ OpenInv /\ PoolSound /\ RoundInv
      /\ CallInv /\ ByteInv /\ NoneForgotten /\ NoAbort
  BY DEF IInv
<1>0. /\ worker[w] # NULL /\ pc' = "down"
      /\ ~setup.whole \/ ~\E c \in Clients : conn[worker[w].connfd] = c /\ ~Gone(c)
      /\ UNCHANGED <<setup, cstate, wire, unread, inbuf, backlog, conn, clientfd, rio_cnt, read_set,
                     ready_set, nready, maxi, i, new_task, reqs, worker>>
  BY DEF AnswerFails, clientVars, poolVars
<1>1. setup.die \/ ~setup.whole
  <2>1. worker[w] \in InFlight /\ worker[w].from \in Clients
    BY <1>0, <1>I DEF TypeOK, Request, InFlight, InHands
  <2> QED
    BY <1>0, <1>I, <2>1 DEF CallInv, Gone
<1>2. TypeOK'
  BY <1>0, <1>I DEF TypeOK
<1>3. ConnInv' /\ PoolSound' /\ OpenInv' /\ NoneForgotten' /\ CallInv' /\ ByteInv'
  BY <1>0, <1>I, KeepConn, KeepPool, KeepCall, KeepBytes, KeepFlight
<1>4. RoundInv' /\ NoAbort'
  BY <1>0, <1>1 DEF RoundInv, NoAbort
<1> QED
  BY <1>2, <1>3, <1>4 DEF IInv

-----------------------------------------------------------------------------
(* Only an answer leaves a byte unread, and only with its client's: that    *)
(* the client is the one who waits for it is CallInv's.                     *)
LEMMA WholeKept == ASSUME IInv, WholeInv, [Next]_vars PROVE WholeInv'
<1>1. setup' = setup
  BY DEF Next, Client, Connect, Send, Deliver, Leave, Die, Hangup, Return, Main, Select, Accept,
     AcceptNoSlot, AcceptNoFd, EndAccept, SkipSlot, ReadFails, CloseClient, ReadPart,
     ReadRequest, PushTask, EndCheck, Worker, Assign, Answer, AnswerFails, vars
<1> SUFFICES ASSUME ~setup.die, setup.whole
             PROVE  unread' = {} /\ \A c \in Clients : cstate'[c] # "reset"
  BY <1>1 DEF WholeInv
<1>2. /\ unread = {} /\ \A c \in Clients : cstate[c] # "reset"
      /\ TypeOK /\ CallInv
  BY DEF WholeInv, IInv
<1>3. ASSUME NEW c \in Clients, Client(c)
      PROVE  unread' = {} /\ \A d \in Clients : cstate'[d] # "reset"
  BY <1>2, <1>3 DEF Client, Connect, Send, Deliver, Leave, Die, Hangup, Return, TypeOK
<1>4. CASE Main
  BY <1>2, <1>4 DEF Main, Select, Accept, AcceptNoSlot, AcceptNoFd, EndAccept, SkipSlot, ReadFails,
     CloseClient, ReadPart, ReadRequest, PushTask, EndCheck, clientVars
<1>5. ASSUME NEW w \in Workers, Answer(w)
      PROVE  unread' = {} /\ \A d \in Clients : cstate'[d] # "reset"
  <2> DEFINE c == conn[worker[w].connfd]
  <2>1. /\ worker[w] # NULL /\ c # NULL
        /\ unread' \in {unread \ {c}, unread \cup {c}}
        /\ c \in unread' => cstate[c] = "idle"
        /\ cstate' = [cstate EXCEPT ![c] = IF @ = "waiting" THEN "idle" ELSE @]
    BY <1>5 DEF Answer
  <2>2. worker[w] \in InFlight
    BY <2>1 DEF InFlight, InHands
  <2>3. cstate[c] = "waiting"
    BY <1>2, <2>2 DEF CallInv
  <2> HIDE DEF c
  <2> QED
    BY <1>2, <2>1, <2>3 DEF TypeOK
<1>6. ASSUME NEW w \in Workers, Assign(w) \/ AnswerFails(w)
      PROVE  unread' = {} /\ \A d \in Clients : cstate'[d] # "reset"
  BY <1>2, <1>6 DEF Assign, AnswerFails, clientVars
<1>7. CASE UNCHANGED vars
  BY <1>2, <1>7 DEF vars, clientVars
<1> QED
  BY <1>3, <1>4, <1>5, <1>6, <1>7 DEF Next, Worker

LEMMA Inductive == IInv /\ WholeInv /\ [Next]_vars => IInv' /\ WholeInv'
<1> SUFFICES ASSUME IInv, WholeInv, [Next]_vars PROVE IInv'
  BY WholeKept
<1>1. ASSUME NEW c \in Clients, Client(c) PROVE IInv'
  BY <1>1, ConnectStep, SendStep, DeliverStep, LeaveStep, DieStep, ReturnStep DEF Client
<1>2. CASE Main
  BY <1>2, SelectStep, AcceptStep, AcceptNoSlotStep, AcceptNoFdStep, EndAcceptStep,
     SkipSlotStep, ReadFailsStep, CloseClientStep, ReadPartStep, ReadRequestStep, PushTaskStep, EndCheckStep
     DEF Main
<1>3. ASSUME NEW w \in Workers, Worker(w) PROVE IInv'
  BY <1>3, AssignStep, AnswerStep, AnswerFailsStep DEF Worker
<1>4. CASE UNCHANGED vars
  <2> USE DEF IInv
  <2>0. UNCHANGED <<setup, cstate, wire, unread, inbuf, backlog, conn, clientfd, rio_cnt, read_set,
                    ready_set, nready, maxi, pc, i, new_task, reqs, worker>>
    BY <1>4 DEF vars, clientVars, poolVars, mainVars
  <2>1. TypeOK'
    BY <2>0 DEF TypeOK
  <2>2. /\ ConnInv' /\ PoolSound' /\ OpenInv' /\ NoneForgotten' /\ CallInv' /\ ByteInv'
        /\ NoAbort'
    BY <2>0, KeepConn, KeepPool, KeepCall, KeepBytes, KeepFlight DEF NoAbort
  <2>3. RoundInv'
    BY <2>0 DEF RoundInv, Pooled, Readable, Gone
  <2> QED
    BY <2>1, <2>2, <2>3
<1> QED
  BY <1>1, <1>2, <1>3, <1>4 DEF Next

LEMMA Invariance == Spec => []IInv
<1>1. Init => WholeInv
  BY DEF Init, WholeInv
<1> QED
  BY <1>1, InitInv, Inductive, PTL DEF Spec

(* Every variable keeps its type.                                           *)
THEOREM TypeCorrect == Spec => []TypeOK
<1>1. IInv => TypeOK
  BY DEF IInv
<1> QED
  BY Invariance, <1>1, PTL

(* The pool, the descriptor set and the descriptor table agree, even when   *)
(* clients die in the middle of a request or find no slot (add_client,      *)
(* lines 297-311, and check_clients, 346-351).                              *)
THEOREM PoolIsSound == Spec => []PoolSound
<1>1. IInv => PoolSound
  BY DEF IInv
<1> QED
  BY Invariance, <1>1, PTL

(* With a slot for everybody, every open connection is in the pool.         *)
THEOREM NobodyForgotten == Spec => []NoneForgotten
<1>1. IInv => NoneForgotten
  BY DEF IInv
<1> QED
  BY Invariance, <1>1, PTL

(* Neither accept nor a read nor a worker's write ends the server, while no *)
(* client dies waiting, every answer fits into the socket's buffer and is   *)
(* read to its last byte, and there is a descriptor for each client (lines  *)
(* 246-255, 334-344 and 189).                                               *)
THEOREM ServerStaysUp == Spec => []NoAbort
<1>1. IInv => NoAbort
  BY DEF IInv
<1> QED
  BY Invariance, <1>1, PTL

(* Requests and connections: the answer goes where the request came from,   *)
(* and a descriptor has one request at a time (lines 179 and 189 against    *)
(* 346-351 and 510-533).                                                    *)
THEOREM AnswersGoRight == Spec => []RightClient
<1>1. IInv => RightClient
  <2> SUFFICES ASSUME IInv, ~setup.die, NEW f \in Fds PROVE Places(f) <= 1
    BY DEF IInv, CallInv, RightClient
  <2> DEFINE Q == {n \in DOMAIN reqs : reqs[n].connfd = f}
             H == {w \in Workers : worker[w] # NULL /\ worker[w].connfd = f}
             N == new_task # NULL /\ new_task.connfd = f
  <2>1. Apart
    BY DEF IInv, CallInv
  <2>2. \A a, b \in Q : a = b
    BY <2>1 DEF Apart
  <2>3. \A a, b \in H : a = b
    BY <2>1 DEF Apart
  <2>4. (Q = {} \/ H = {}) /\ (N => Q = {} /\ H = {})
    BY <2>1 DEF Apart
  <2>5. Places(f) = (IF N THEN 1 ELSE 0) + Cardinality(Q) + Cardinality(H)
    BY DEF Places
  <2> HIDE DEF Q, H, N
  <2>6. Cardinality(Q) \in {0, 1} /\ (Q = {} <=> Cardinality(Q) = 0)
    BY <2>2, AtMostOne
  <2>7. Cardinality(H) \in {0, 1} /\ (H = {} <=> Cardinality(H) = 0)
    BY <2>3, AtMostOne
  <2> QED
    BY <2>4, <2>5, <2>6, <2>7
<1> QED
  BY Invariance, <1>1, PTL

(* No piece of a request is lost, read twice or taken for one of another    *)
(* request (rio_read_custom, lines 42-65, and check_clients, 354-365).      *)
THEOREM NoByteLost == Spec => []BytesConserved
<1>1. IInv => BytesConserved
  <2> SUFFICES ASSUME IInv, ~setup.die, NEW c \in Clients
               PROVE  wire[c] + inbuf[c] + Buffered(c) = Due(c)
    BY DEF BytesConserved, Due
  <2> DEFINE S == {s \in Pooled : conn[clientfd[s]] = c}
  <2>1. /\ TypeOK /\ ConnInv /\ PoolSound
        /\ \A s \in S : wire[c] + inbuf[c] + rio_cnt[s] = Due(c)
        /\ S = {} => wire[c] + inbuf[c] = Due(c)
    BY DEF IInv, ByteInv
  <2>2. Buffered(c) = SumOver(rio_cnt, S)
    BY DEF Buffered, SumOver
  <2>3. \A s, t \in S : s = t
    <3>1. \A s \in Pooled : clientfd[s] \in Fds
      BY <2>1 DEF Pooled, TypeOK
    <3>2. c # NULL
      BY EventLoopAssumption
    <3>3. \A s, t \in S : clientfd[s] = clientfd[t]
      BY <2>1, <3>1, <3>2 DEF ConnInv
    <3> QED
      BY <2>1, <3>3 DEF PoolSound
  <2>4. wire[c] \in Nat /\ inbuf[c] \in Nat
    BY <2>1 DEF TypeOK
  <2>5. CASE S = {}
    <3>1. Buffered(c) = 0
      BY <2>2, <2>5, SumOfNone
    <3> QED
      BY <2>1, <2>4, <2>5, <3>1
  <2>6. CASE S # {}
    <3>1. PICK a \in S : S = {a}
      BY <2>3, <2>6
    <3>2. rio_cnt[a] \in Int
      BY <2>1 DEF TypeOK, Pooled
    <3>3. Buffered(c) = rio_cnt[a]
      BY <2>2, <3>1, <3>2, SumOfOne
    <3> QED
      BY <2>1, <3>1, <3>3
  <2> QED
    BY <2>5, <2>6
<1> QED
  BY Invariance, <1>1, PTL

-----------------------------------------------------------------------------
(* The server as a whole offers the request service, to clients that wait   *)
(* for their answers.                                                       *)

(* The state of the service in that of the event loop.                      *)
Arrived == {r.connfd : r \in Read}
Order   == [n \in DOMAIN reqs |-> reqs[n].connfd]
Held    == {r.connfd : r \in InHands}

LEMMA OrderView ==
  ASSUME NEW q \in Seq(Request)
  PROVE  LET o == [n \in DOMAIN q |-> q[n].connfd]
         IN  o \in Seq(Fds) /\ Len(o) = Len(q) /\ \A n \in 1 .. Len(q) : o[n] = q[n].connfd
<1> DEFINE o == [n \in DOMAIN q |-> q[n].connfd]
<1>1. Len(q) \in Nat /\ DOMAIN q = 1 .. Len(q) /\ \A n \in 1 .. Len(q) : q[n] \in Request
  OBVIOUS
<1>2. o \in [1 .. Len(q) -> Fds]
  BY <1>1 DEF Request
<1>3. o \in Seq(Fds)
  BY <1>1, <1>2, SeqDef
<1>4. Len(o) = Len(q)
  BY <1>1, <1>2, <1>3
<1> QED
  BY <1>1, <1>3, <1>4

LEMMA QuietService ==
  ASSUME UNCHANGED <<new_task, reqs, worker>>
  PROVE  UNCHANGED Service!vars
BY DEF Service!vars, Read, InHands

LEMMA ReadRequestService ==
  ASSUME IInv, ~setup.die, ReadRequest
  PROVE  \E f \in Fds : Service!Arrive(f)
<1> DEFINE f == clientfd[i]
<1>1. /\ new_task' = [connfd |-> f, from |-> Peer] /\ UNCHANGED <<reqs, worker, setup>>
      /\ Turn
  BY DEF ReadRequest, HasRead
<1>2. f \in Fds /\ Peer \in Clients /\ new_task = NULL
  BY <1>1, TurnFacts
<1>3. new_task' # NULL /\ new_task'.connfd = f
  BY <1>1, <1>2, EventLoopAssumption
<1>4. Apart'
  BY <1>1, ReadRequestStep DEF IInv, CallInv
<1> HIDE DEF f
<1>5. Arrived = {} /\ Arrived' = {f}
  BY <1>2, <1>3 DEF Arrived, Read
<1>6. \A n \in DOMAIN Order : Order[n] # f
  BY <1>1, <1>3, <1>4 DEF Apart, Order
<1>7. \A g \in Held : g # f
  BY <1>1, <1>3, <1>4 DEF Apart, Held, InHands
<1>8. Order' = Order /\ Held' = Held
  BY <1>1 DEF Order, Held, InHands
<1> QED
  BY <1>2, <1>5, <1>6, <1>7, <1>8
  DEF Service!Arrive, Service!InFlight, Service!Queued, Arrived, Order, Held

LEMMA PushTaskService ==
  ASSUME IInv, PushTask
  PROVE  \E f \in Fds : Service!Enqueue(f)
<1> DEFINE f == new_task.connfd
<1>1. /\ pc = "push" /\ new_task' = NULL /\ reqs' = Append(reqs, new_task)
      /\ UNCHANGED worker
  BY DEF PushTask
<1>2. new_task \in Request /\ new_task # NULL /\ reqs \in Seq(Request)
  BY <1>1 DEF IInv, TypeOK, RoundInv
<1>3. f \in Fds
  BY <1>2 DEF Request
<1>4. Arrived = {f} /\ Arrived' = {}
  BY <1>1, <1>2 DEF Arrived, Read
<1>5. Order' = Append(Order, f)
  <2>1. /\ Order \in Seq(Fds) /\ Len(Order) = Len(reqs)
        /\ \A n \in 1 .. Len(reqs) : Order[n] = reqs[n].connfd
    BY <1>2, OrderView DEF Order
  <2>2. reqs' \in Seq(Request)
    BY <1>1, <1>2
  <2>3. /\ Order' \in Seq(Fds) /\ Len(Order') = Len(reqs')
        /\ \A n \in 1 .. Len(reqs') : Order'[n] = reqs'[n].connfd
    BY <2>2, OrderView DEF Order
  <2> HIDE DEF f
  <2>4. Append(Order, f) \in Seq(Fds) /\ Len(Append(Order, f)) = Len(Order')
    BY <1>1, <1>2, <1>3, <2>1, <2>3
  <2>5. \A n \in 1 .. Len(reqs') : Append(Order, f)[n] = reqs'[n].connfd
    <3>1. /\ \A n \in 1 .. Len(reqs) : Append(Order, f)[n] = Order[n] /\ reqs'[n] = reqs[n]
          /\ Append(Order, f)[Len(reqs) + 1] = f /\ reqs'[Len(reqs) + 1] = new_task
          /\ Len(reqs') = Len(reqs) + 1 /\ Len(reqs) \in Nat
      BY <1>1, <1>2, <1>3, <2>1
    <3>2. reqs'[Len(reqs) + 1].connfd = f
      BY <3>1 DEF f
    <3> QED
      BY <2>1, <3>1, <3>2
  <2> QED
    BY <2>3, <2>4, <2>5, SeqEqual
<1>6. Held' = Held
  BY <1>1 DEF Held, InHands
<1> HIDE DEF f
<1> QED
  BY <1>3, <1>4, <1>5, <1>6 DEF Service!Enqueue, Arrived, Order, Held

LEMMA AssignService ==
  ASSUME IInv, NEW w \in Workers, Assign(w)
  PROVE  Service!Assign
<1>1. /\ worker[w] = NULL /\ reqs # <<>> /\ worker' = [worker EXCEPT ![w] = Head(reqs)]
      /\ reqs' = Tail(reqs) /\ new_task' = new_task
  BY DEF Assign, mainVars
<1>2. reqs \in Seq(Request) /\ worker \in [Workers -> Request \cup {NULL}]
  BY DEF IInv, TypeOK
<1>3. Head(reqs) \in Request /\ Head(reqs) # NULL
  <2>1. Head(reqs) \in Request
    BY <1>1, <1>2
  <2> QED
    BY <2>1, EventLoopAssumption DEF Request
<1>4. Order # <<>> /\ Head(Order) = Head(reqs).connfd /\ Order' = Tail(Order)
  <2>1. /\ Order \in Seq(Fds) /\ Len(Order) = Len(reqs)
        /\ \A n \in 1 .. Len(reqs) : Order[n] = reqs[n].connfd
    BY <1>2, OrderView DEF Order
  <2>2. Len(reqs) \in Nat \ {0} /\ Head(reqs) = reqs[1]
    BY <1>1, <1>2
  <2>3. /\ reqs' \in Seq(Request) /\ Len(reqs') = Len(reqs) - 1
        /\ \A n \in 1 .. Len(reqs) - 1 : reqs'[n] = reqs[n + 1]
    BY <1>1, <1>2
  <2>4. /\ Order' \in Seq(Fds) /\ Len(Order') = Len(reqs')
        /\ \A n \in 1 .. Len(reqs') : Order'[n] = reqs'[n].connfd
    BY <2>3, OrderView DEF Order
  <2>5. /\ Order # <<>> /\ Head(Order) = Order[1]
        /\ Tail(Order) \in Seq(Fds) /\ Len(Tail(Order)) = Len(reqs) - 1
        /\ \A n \in 1 .. Len(reqs) - 1 : Tail(Order)[n] = Order[n + 1]
    BY <2>1, <2>2
  <2>6. \A n \in 1 .. Len(Order') : Order'[n] = Tail(Order)[n]
    <3> SUFFICES ASSUME NEW n \in 1 .. Len(reqs) - 1 PROVE Order'[n] = Tail(Order)[n]
      BY <2>3, <2>4
    <3>1. n \in 1 .. Len(reqs') /\ n + 1 \in 1 .. Len(reqs)
      BY <2>2, <2>3
    <3> QED
      BY <2>1, <2>3, <2>4, <2>5, <3>1
  <2>7. Order' = Tail(Order)
    BY <2>3, <2>4, <2>5, <2>6, SeqEqual
  <2> QED
    BY <2>1, <2>2, <2>5, <2>7
<1>5. Held' = Held \cup {Head(reqs).connfd}
  <2>1. InHands' = InHands \cup {Head(reqs)}
    BY <1>1, <1>2, <1>3 DEF InHands
  <2> QED
    BY <2>1 DEF Held
<1>6. Arrived' = Arrived
  BY <1>1 DEF Arrived, Read
<1> QED
  BY <1>4, <1>5, <1>6 DEF Service!Assign, Arrived, Order, Held

LEMMA AnswerService ==
  ASSUME IInv, ~setup.die, NEW w \in Workers, Answer(w)
  PROVE  \E f \in Fds : Service!Answer(f)
<1> DEFINE f == worker[w].connfd
<1>1. /\ worker[w] # NULL /\ worker' = [worker EXCEPT ![w] = NULL]
      /\ UNCHANGED <<new_task, reqs>>
  BY DEF Answer, mainVars
<1>2. worker \in [Workers -> Request \cup {NULL}]
  BY DEF IInv, TypeOK
<1>3. worker[w] \in Request /\ f \in Fds
  BY <1>1, <1>2 DEF Request
<1>4. worker'[w] = NULL /\ \A v \in Workers \ {w} : worker'[v] = worker[v]
  BY <1>1, <1>2
<1>5. \A v \in Workers \ {w} : worker[v] # NULL => worker[v].connfd # f
  BY <1>1 DEF IInv, CallInv, Apart
<1>6. f \in Held
  BY <1>1 DEF Held, InHands
<1>7. Held' = Held \ {f}
  <2>1. Held' \subseteq Held \ {f}
    BY <1>1, <1>4, <1>5 DEF Held, InHands
  <2>2. Held \ {f} \subseteq Held'
    BY <1>1, <1>4 DEF Held, InHands
  <2> QED
    BY <2>1, <2>2
<1>8. Arrived' = Arrived /\ Order' = Order
  BY <1>1 DEF Arrived, Read, Order
<1> HIDE DEF f
<1> QED
  BY <1>3, <1>6, <1>7, <1>8 DEF Service!Answer, Arrived, Order, Held

(* The refinement: every step of the event loop, its clients and its        *)
(* workers is a step of RequestService or leaves it alone, in a server      *)
(* whose clients wait for their answers.                                    *)
THEOREM OffersService == Spec /\ ~setup.die => ServiceSpec
<1>1. ASSUME Init PROVE Service!Init
  <2> USE <1>1 DEF Init
  <2>1. Arrived = {} /\ Held = {}
    BY DEF Arrived, Held, Read, InHands
  <2>2. Order = <<>>
    BY DEF Order
  <2> QED
    BY <2>1, <2>2 DEF Service!Init, Arrived, Held, Order
<1>2. ASSUME IInv, ~setup.die, [Next]_vars PROVE [Service!Next]_(Service!vars)
  <2> USE <1>2
  <2>1. ASSUME NEW c \in Clients, Client(c) PROVE UNCHANGED Service!vars
    BY <2>1, QuietService
    DEF Client, Connect, Send, Deliver, Leave, Die, Hangup, Return, mainVars
  <2>2. CASE Main
    <3>1. CASE ReadRequest
      BY <3>1, ReadRequestService DEF Service!Next
    <3>2. CASE PushTask
      BY <3>2, PushTaskService DEF Service!Next
    <3>3. CASE ~ReadRequest /\ ~PushTask
      <4>1. UNCHANGED <<new_task, reqs, worker>>
        BY <2>2, <3>3
        DEF Main, Select, Accept, AcceptNoSlot, AcceptNoFd, EndAccept, SkipSlot, ReadFails, CloseClient,
            ReadPart, EndCheck, mainVars
      <4> QED
        BY <4>1, QuietService
    <3> QED
      BY <3>1, <3>2, <3>3
  <2>3. ASSUME NEW w \in Workers, Worker(w) PROVE [Service!Next]_(Service!vars)
    <3>1. CASE Assign(w)
      BY <3>1, AssignService DEF Service!Next
    <3>2. CASE Answer(w)
      BY <3>2, AnswerService DEF Service!Next
    <3>3. CASE AnswerFails(w)
      BY <3>3, QuietService DEF AnswerFails
    <3> QED
      BY <2>3, <3>1, <3>2, <3>3 DEF Worker
  <2>4. CASE UNCHANGED vars
    BY <2>4, QuietService DEF vars, mainVars
  <2> QED
    BY <2>1, <2>2, <2>3, <2>4 DEF Next
<1>3. ASSUME [Next]_vars PROVE setup' = setup
  BY <1>3 DEF Next, Client, Connect, Send, Deliver, Leave, Die, Hangup, Return, Main, Select, Accept,
     AcceptNoSlot, AcceptNoFd, EndAccept, SkipSlot, ReadFails, CloseClient, ReadPart, ReadRequest,
     PushTask, EndCheck, Worker, Assign, Answer, AnswerFails, vars
<1> DEFINE Calm == ~setup.die
<1>4. Calm /\ [Next]_vars => Calm'
  BY <1>3
<1>5. IInv /\ Calm /\ [Next]_vars => [Service!Next]_(Service!vars)
  BY <1>2
<1>6. Init => Service!Init
  BY <1>1
<1> HIDE DEF Calm
<1>7. Spec /\ Calm => ServiceSpec
  BY <1>4, <1>5, <1>6, Invariance, PTL DEF Spec, ServiceSpec, Service!Spec
<1> QED
  BY <1>7 DEF Calm
=============================================================================
