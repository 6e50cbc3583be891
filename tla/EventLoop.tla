------------------------------ MODULE EventLoop ------------------------------
(***************************************************************************)
(* The main thread of server_tc.c with the connections it serves: the      *)
(* select loop, accept and add_client, check_clients and the reassembly of *)
(* requests that arrive in pieces.                                         *)
(*                                                                         *)
(* The worker threads appear as RequestService describes them, which       *)
(* WorkerPool is shown to implement: a worker takes the head of the queue  *)
(* and later writes one answer.  Clients are those of client_1.c and       *)
(* client_2.c: connect, then send a request and block until its answer.    *)
(* The kernel is modelled by what the server sees of it: a backlog, a      *)
(* descriptor table that hands out the lowest free number, and bytes that  *)
(* arrive some time after they were sent.  Bytes are counted in pieces of  *)
(* a request, MsgLen of them in each.                                      *)
(***************************************************************************)
EXTENDS Integers, Sequences, FiniteSets, FiniteSetsExt

CONSTANTS
  Clients,
  Fds,       \* descriptor numbers for connections, at most
  NSlots,    \* entries of clientfd and clientrio, at most
  NWorkers,  \* thr_num
  MsgLen,    \* pieces of a request
  Setups,    \* the circumstances the server may run in, see Setup
  MaxQueue,  \* bound for TLC: where clients die, nobody connects to a longer queue
  NULL

(* The circumstances of a run: the descriptors the process is allowed (its  *)
(* limit of open files), the length of the pool's tables (FD_SETSIZE),      *)
(* whether clients may disappear while they wait for an answer, and whether *)
(* every answer fits into the socket's buffer and is read in one piece, with*)
(* the byte behind it (Wire has the details).                               *)
Setup == [fds : SUBSET Fds, slots : 1 .. NSlots, die : BOOLEAN, whole : BOOLEAN]

ASSUME EventLoopAssumption ==
  /\ Fds \subseteq Nat \ {0} /\ IsFiniteSet(Fds) /\ IsFiniteSet(Clients)
  /\ NSlots \in Nat \ {0} /\ NWorkers \in Nat \ {0} /\ MsgLen \in Nat \ {0}
  /\ MaxQueue \in Nat \ {0}
  /\ Setups \subseteq Setup
  /\ NULL \notin Clients \cup Nat
  /\ NULL \notin [connfd : Fds, from : Clients]

Slots   == 0 .. NSlots - 1
Workers == 1 .. NWorkers

(* A request: the connection it came from and, for the properties only, the *)
(* client that sent it.                                                     *)
Request == [connfd : Fds, from : Clients]

VARIABLES
  setup,     \* the circumstances, which do not change
  cstate,    \* what each client does: off, idle, waiting (for an answer), or how
             \* its connection ended: gone (in order) or reset
  wire,      \* pieces each client has sent and the server's kernel not received
  unread,    \* clients whose kernel holds, or will, a byte they have not read
  inbuf,     \* pieces received by the kernel and not read
  backlog,   \* clients whose connection was not accepted yet
  conn,      \* the descriptor table: which client each descriptor leads to
  clientfd,  \* the pool: descriptor of each slot, NULL for -1
  rio_cnt,   \* the pool: pieces of an incomplete request in each slot's buffer
  read_set,  \* the pool: descriptors select watches, listenfd apart
  ready_set, \* the pool: the ready ones of this round
  nready,    \* the pool: what select returned, less what was handled
  maxi,      \* the pool: highest slot ever used
  pc,        \* main thread: select, accept, check or push; down after an assert(0)
  i,         \* check_clients' loop variable
  new_task,  \* a request that was read and not queued yet
  reqs,      \* the request queue
  worker     \* the request each worker serves

clientVars == <<cstate, wire, unread>>
poolVars == <<clientfd, rio_cnt, read_set, ready_set, nready, maxi>>
mainVars == <<pc, i, new_task>>
vars == <<setup, clientVars, inbuf, backlog, conn, poolVars, mainVars, reqs, worker>>

Init ==
  /\ setup \in Setups
  /\ cstate = [c \in Clients |-> "off"]
  /\ wire = [c \in Clients |-> 0]
  /\ unread = {}
  /\ inbuf = [c \in Clients |-> 0]
  /\ backlog = <<>>
  /\ conn = [f \in Fds |-> NULL]
  /\ clientfd = [s \in Slots |-> NULL]
  /\ rio_cnt = [s \in Slots |-> 0]
  /\ read_set = {} /\ ready_set = {} /\ nready = 0
  /\ maxi = 0      \* never assigned: the pool lies in fresh, zeroed pages
  /\ pc = "select" /\ i = 0 /\ new_task = NULL
  /\ reqs = <<>>
  /\ worker = [w \in Workers |-> NULL]

-----------------------------------------------------------------------------
(* Clients and network.                                                     *)

Connect(c) ==
  /\ cstate[c] = "off"
  /\ setup.die => Len(reqs) < MaxQueue
  /\ cstate' = [cstate EXCEPT ![c] = "idle"]
  /\ backlog' = Append(backlog, c)
  /\ UNCHANGED <<setup, wire, unread, inbuf, conn, poolVars, mainVars, reqs, worker>>

Send(c) ==
  /\ cstate[c] = "idle"
  /\ cstate' = [cstate EXCEPT ![c] = "waiting"]
  /\ wire' = [wire EXCEPT ![c] = @ + MsgLen]
  /\ UNCHANGED <<setup, unread, inbuf, backlog, conn, poolVars, mainVars, reqs, worker>>

Deliver(c) ==
  /\ wire[c] > 0
  /\ wire' = [wire EXCEPT ![c] = @ - 1]
  /\ inbuf' = [inbuf EXCEPT ![c] = @ + 1]
  /\ UNCHANGED <<setup, cstate, unread, backlog, conn, poolVars, mainVars, reqs, worker>>

(* The client's kernel closes the connection: in order, or with a reset if  *)
(* a byte was not read, which takes what is on the wire with it.            *)
Hangup(c) ==
  /\ \/ /\ cstate' = [cstate EXCEPT ![c] = "gone"]
        /\ UNCHANGED wire
     \/ /\ c \in unread
        /\ cstate' = [cstate EXCEPT ![c] = "reset"]
        /\ wire' = [wire EXCEPT ![c] = 0]
  /\ unread' = unread \ {c}
  /\ UNCHANGED <<setup, inbuf, backlog, conn, poolVars, mainVars, reqs, worker>>

(* The process ends: between two requests, or (Die) within one. *)
Leave(c) == cstate[c] = "idle" /\ Hangup(c)

Die(c) == setup.die /\ cstate[c] = "waiting" /\ Hangup(c)

Gone(c) == cstate[c] \in {"gone", "reset"}

Connected(c) == \E f \in Fds : conn[f] = c
Backlogged(c) == \E n \in DOMAIN backlog : backlog[n] = c

(* The next process of the same user. *)
Return(c) ==
  /\ Gone(c) /\ ~Connected(c) /\ ~Backlogged(c)
  /\ cstate' = [cstate EXCEPT ![c] = "off"]
  /\ UNCHANGED <<setup, wire, unread, inbuf, backlog, conn, poolVars, mainVars, reqs, worker>>

-----------------------------------------------------------------------------
(* main(): select and accept.                                               *)

(* There is data, or an end: the client is gone and all it sent was read. *)
Readable(f) ==
  /\ conn[f] # NULL
  /\ \/ inbuf[conn[f]] > 0
     \/ Gone(conn[f]) /\ wire[conn[f]] = 0

(* select polls (tv is zero after the first call); a round in which nothing *)
(* is ready changes nothing.                                                *)
Select ==
  LET ready == {f \in read_set : Readable(f)} IN
  /\ pc = "select"
  /\ ready # {} \/ backlog # <<>>
  /\ ready_set' = ready
  /\ nready' = Cardinality(ready) + (IF backlog # <<>> THEN 1 ELSE 0)
  /\ pc' = IF backlog # <<>> THEN "accept" ELSE "check"
  /\ i' = 0
  /\ UNCHANGED <<setup, clientVars, inbuf, backlog, conn, clientfd, rio_cnt, read_set, maxi,
                 new_task, reqs, worker>>

FreeFds   == {f \in setup.fds : conn[f] = NULL}
FreeSlots == {s \in Slots : s < setup.slots /\ clientfd[s] = NULL}

(* Fault: maxi counts the slots in use instead of naming the last one. *)
Accept_MaxIsCount ==
  LET f == Min(FreeFds)
      s == Min(FreeSlots)
  IN
  /\ pc = "accept" /\ backlog # <<>> /\ FreeFds # {} /\ FreeSlots # {}
  /\ conn' = [conn EXCEPT ![f] = Head(backlog)]
  /\ backlog' = Tail(backlog)
  /\ nready' = nready - 1
  /\ clientfd' = [clientfd EXCEPT ![s] = f]
  /\ rio_cnt' = [rio_cnt EXCEPT ![s] = 0]
  /\ read_set' = read_set \cup {f}
  /\ maxi' = IF s + 1 > maxi THEN s + 1 ELSE maxi
  /\ UNCHANGED <<setup, clientVars, inbuf, ready_set, mainVars, reqs, worker>>

(* accept, and add_client: listenfd counts once in nready, every accepted   *)
(* connection is deducted.                                                  *)
Accept ==
  LET f == Min(FreeFds)
      s == Min(FreeSlots)
  IN
  /\ pc = "accept" /\ backlog # <<>> /\ FreeFds # {} /\ FreeSlots # {}
  /\ conn' = [conn EXCEPT ![f] = Head(backlog)]
  /\ backlog' = Tail(backlog)
  /\ nready' = nready - 1
  /\ clientfd' = [clientfd EXCEPT ![s] = f]
  /\ rio_cnt' = [rio_cnt EXCEPT ![s] = 0]
  /\ read_set' = read_set \cup {f}
  /\ maxi' = IF s > maxi THEN s ELSE maxi
  /\ UNCHANGED <<setup, clientVars, inbuf, ready_set, mainVars, reqs, worker>>

(* add_client finds no slot: the connection stays open, in nobody's care. *)
AcceptNoSlot ==
  /\ pc = "accept" /\ backlog # <<>> /\ FreeFds # {} /\ FreeSlots = {}
  /\ conn' = [conn EXCEPT ![Min(FreeFds)] = Head(backlog)]
  /\ backlog' = Tail(backlog)
  /\ nready' = nready - 1
  /\ UNCHANGED <<setup, clientVars, inbuf, clientfd, rio_cnt, read_set, ready_set, maxi,
                 mainVars, reqs, worker>>

(* Fault: the empty backlog of a non-blocking accept is an error too. *)
AcceptNoFd_OrEmpty ==
  /\ pc = "accept"
  /\ backlog = <<>> \/ FreeFds = {}
  /\ pc' = "down"
  /\ UNCHANGED <<setup, clientVars, inbuf, backlog, conn, poolVars, i, new_task, reqs, worker>>

(* accept fails with another error than EWOULDBLOCK: EMFILE. *)
AcceptNoFd ==
  /\ pc = "accept" /\ backlog # <<>> /\ FreeFds = {}
  /\ pc' = "down"
  /\ UNCHANGED <<setup, clientVars, inbuf, backlog, conn, poolVars, i, new_task, reqs, worker>>

EndAccept ==
  /\ pc = "accept" /\ backlog = <<>>
  /\ pc' = "check"
  /\ UNCHANGED <<setup, clientVars, inbuf, backlog, conn, poolVars, i, new_task, reqs, worker>>

-----------------------------------------------------------------------------
(* check_clients().                                                         *)

(* Fault: the last slot is left out. *)
CheckOver_OffByOne == i >= maxi \/ nready <= 0

CheckOver == i > maxi \/ nready <= 0

Ready(s) == clientfd[s] # NULL /\ clientfd[s] \in ready_set

SkipSlot ==
  /\ pc = "check" /\ ~CheckOver /\ ~Ready(i)
  /\ i' = i + 1
  /\ UNCHANGED <<setup, clientVars, inbuf, backlog, conn, poolVars, pc, new_task, reqs, worker>>

(* What rio_read_custom finds for slot i, and what it returns. *)
Peer     == conn[clientfd[i]]
(* Fault: the pointer is reset before every read, as in the line commented  *)
(* out of rio_read_custom.                                                  *)
Received_Overwrite == inbuf[Peer]

Received == rio_cnt[i] + inbuf[Peer]

Turn == pc = "check" /\ ~CheckOver /\ Ready(i)

(* read() returns what was received before it tells of the reset. *)
ReadError == cstate[Peer] = "reset" /\ inbuf[Peer] = 0

HasRead == Turn /\ ~ReadError

(* ECONNRESET is not EWOULDBLOCK: Close, and assert(0), which ends the      *)
(* process with all its descriptors and leaves nothing to keep track of.    *)
ReadFails ==
  /\ Turn /\ ReadError
  /\ pc' = "down"
  /\ UNCHANGED <<setup, clientVars, inbuf, backlog, conn, poolVars, i, new_task, reqs, worker>>

(* Fault: Close without FD_CLR. *)
CloseClient_KeepSet ==
  /\ HasRead /\ Received = 0
  /\ conn' = [conn EXCEPT ![clientfd[i]] = NULL]
  /\ clientfd' = [clientfd EXCEPT ![i] = NULL]
  /\ nready' = nready - 1
  /\ i' = i + 1
  /\ UNCHANGED <<setup, clientVars, inbuf, backlog, rio_cnt, read_set, ready_set, maxi, pc,
                 new_task, reqs, worker>>

(* Fault: FD_CLR without Close. *)
CloseClient_NoClose ==
  /\ HasRead /\ Received = 0
  /\ read_set' = read_set \ {clientfd[i]}
  /\ clientfd' = [clientfd EXCEPT ![i] = NULL]
  /\ nready' = nready - 1
  /\ i' = i + 1
  /\ UNCHANGED <<setup, clientVars, inbuf, backlog, conn, rio_cnt, ready_set, maxi, pc, new_task,
                 reqs, worker>>

(* 0: end of file with an empty buffer.  The kernel forgets the client. *)
CloseClient ==
  /\ HasRead /\ Received = 0
  /\ conn' = [conn EXCEPT ![clientfd[i]] = NULL]
  /\ read_set' = read_set \ {clientfd[i]}
  /\ clientfd' = [clientfd EXCEPT ![i] = NULL]
  /\ nready' = nready - 1
  /\ i' = i + 1
  /\ UNCHANGED <<setup, clientVars, inbuf, backlog, rio_cnt, ready_set, maxi, pc, new_task,
                 reqs, worker>>

(* Less than a request; also end of file after a part of one, which leaves  *)
(* everything as it is.                                                     *)
ReadPart ==
  /\ HasRead /\ Received \in 1 .. MsgLen - 1
  /\ rio_cnt' = [rio_cnt EXCEPT ![i] = Received]
  /\ inbuf' = [inbuf EXCEPT ![Peer] = 0]
  /\ nready' = nready - 1
  /\ i' = i + 1
  /\ UNCHANGED <<setup, clientVars, backlog, conn, clientfd, read_set, ready_set, maxi, pc,
                 new_task, reqs, worker>>

(* Fault: rio_cnt is not reset after a request. *)
ReadRequest_KeepCount ==
  /\ HasRead /\ Received >= MsgLen
  /\ rio_cnt' = [rio_cnt EXCEPT ![i] = Received]
  /\ inbuf' = [inbuf EXCEPT ![Peer] = 0]
  /\ nready' = nready - 1
  /\ new_task' = [connfd |-> clientfd[i], from |-> Peer]
  /\ pc' = "push"
  /\ UNCHANGED <<setup, clientVars, backlog, conn, clientfd, read_set, ready_set, maxi, i,
                 reqs, worker>>

(* A whole request: the buffer is emptied, whatever else it holds. *)
ReadRequest ==
  /\ HasRead /\ Received >= MsgLen
  /\ rio_cnt' = [rio_cnt EXCEPT ![i] = 0]
  /\ inbuf' = [inbuf EXCEPT ![Peer] = 0]
  /\ nready' = nready - 1
  /\ new_task' = [connfd |-> clientfd[i], from |-> Peer]
  /\ pc' = "push"
  /\ UNCHANGED <<setup, clientVars, backlog, conn, clientfd, read_set, ready_set, maxi, i,
                 reqs, worker>>

(* Fault: the request is linked in front of req_init. *)
PushTask_Front ==
  /\ pc = "push"
  /\ reqs' = <<new_task>> \o reqs
  /\ new_task' = NULL
  /\ i' = i + 1
  /\ pc' = "check"
  /\ UNCHANGED <<setup, clientVars, inbuf, backlog, conn, poolVars, worker>>

PushTask ==
  /\ pc = "push"
  /\ reqs' = Append(reqs, new_task)
  /\ new_task' = NULL
  /\ i' = i + 1
  /\ pc' = "check"
  /\ UNCHANGED <<setup, clientVars, inbuf, backlog, conn, poolVars, worker>>

EndCheck ==
  /\ pc = "check" /\ CheckOver
  /\ pc' = "select"
  /\ UNCHANGED <<setup, clientVars, inbuf, backlog, conn, poolVars, i, new_task, reqs, worker>>

-----------------------------------------------------------------------------
(* The workers.                                                             *)

Assign(w) ==
  /\ pc # "down" /\ worker[w] = NULL /\ reqs # <<>>
  /\ worker' = [worker EXCEPT ![w] = Head(reqs)]
  /\ reqs' = Tail(reqs)
  /\ UNCHANGED <<setup, clientVars, inbuf, backlog, conn, poolVars, mainVars>>

(* Rio_writen on the request's descriptor, wherever it leads by now.  A     *)
(* write to a client that is gone may succeed.  The byte behind the answer  *)
(* may come after its client has read the line, and one that waits for      *)
(* nothing does not read at all.                                            *)
Answer(w) ==
  LET f == worker[w].connfd
      c == conn[f]
  IN
  /\ pc # "down" /\ worker[w] # NULL
  /\ c # NULL
  /\ unread' \in {unread \ {c}, unread \cup {c}}
  /\ c \in unread' => cstate[c] = "idle" \/ (cstate[c] = "waiting" /\ ~setup.whole)
  /\ cstate[c] = "idle" => c \in unread'
  /\ cstate' = [cstate EXCEPT ![c] = IF @ = "waiting" THEN "idle" ELSE @]
  /\ worker' = [worker EXCEPT ![w] = NULL]
  /\ UNCHANGED <<setup, wire, inbuf, backlog, conn, poolVars, mainVars, reqs>>

(* The descriptor is closed, or the client gone and the kernel knows it, or *)
(* the answer too large for the socket, which does not block (EAGAIN):      *)
(* Rio_writen calls unix_error, which ends in assert(0) (or SIGPIPE ends    *)
(* the process before).                                                     *)
AnswerFails(w) ==
  LET f == worker[w].connfd IN
  /\ pc # "down" /\ worker[w] # NULL
  /\ ~setup.whole \/ ~\E c \in Clients : conn[f] = c /\ ~Gone(c)
  /\ pc' = "down"
  /\ UNCHANGED <<setup, clientVars, inbuf, backlog, conn, poolVars, i, new_task, reqs, worker>>

-----------------------------------------------------------------------------
Client(c) == Connect(c) \/ Send(c) \/ Deliver(c) \/ Leave(c) \/ Die(c) \/ Return(c)

Main == \/ Select \/ Accept \/ AcceptNoSlot \/ AcceptNoFd \/ EndAccept
        \/ SkipSlot \/ ReadFails \/ CloseClient \/ ReadPart \/ ReadRequest \/ PushTask \/ EndCheck

Worker(w) == Assign(w) \/ Answer(w) \/ AnswerFails(w)

Next == \/ \E c \in Clients : Client(c)
        \/ Main
        \/ \E w \in Workers : Worker(w)

Spec == Init /\ [][Next]_vars

(* Every thread keeps running, every request is served in the end (which is  *)
(* checked of WorkerPool), and the network delivers.  Clients owe nothing.   *)
Fairness == /\ WF_vars(Main)
            /\ \A w \in Workers : WF_vars(Worker(w))
            /\ \A c \in Clients : WF_vars(Deliver(c))

FairSpec == Spec /\ Fairness

-----------------------------------------------------------------------------
(* Derived state.                                                           *)

(* The requests the server is working on, at each place one can be. *)
Read  == {r \in {new_task} : r # NULL}
Queued == {reqs[n] : n \in DOMAIN reqs}
InHands == {r \in {worker[w] : w \in Workers} : r # NULL}
InFlight == Read \cup Queued \cup InHands

(* Places that hold a request of descriptor f. *)
Places(f) == (IF new_task # NULL /\ new_task.connfd = f THEN 1 ELSE 0)
             + Cardinality({n \in DOMAIN reqs : reqs[n].connfd = f})
             + Cardinality({w \in Workers : worker[w] # NULL /\ worker[w].connfd = f})

Pooled == {s \in Slots : clientfd[s] # NULL}

Buffered(c) == MapThenSumSet(LAMBDA s : rio_cnt[s], {s \in Pooled : conn[clientfd[s]] = c})

Open == {f \in Fds : conn[f] # NULL}

-----------------------------------------------------------------------------
(* Type invariant. *)
TypeOK ==
  /\ setup \in Setups
  /\ cstate \in [Clients -> {"off", "idle", "waiting", "gone", "reset"}]
  /\ wire \in [Clients -> Nat]
  /\ unread \subseteq Clients
  /\ inbuf \in [Clients -> Nat]
  /\ backlog \in Seq(Clients)
  /\ conn \in [Fds -> Clients \cup {NULL}]
  /\ clientfd \in [Slots -> Fds \cup {NULL}]
  /\ rio_cnt \in [Slots -> 0 .. MsgLen - 1]
  /\ read_set \subseteq Fds /\ ready_set \subseteq Fds
  /\ nready \in Int
  /\ maxi \in Slots
  /\ pc \in {"select", "accept", "check", "push", "down"}
  /\ i \in 0 .. NSlots
  /\ new_task \in Request \cup {NULL}
  /\ reqs \in Seq(Request)
  /\ worker \in [Workers -> Request \cup {NULL}]

(* The descriptor of every request the server works on still leads to the   *)
(* client that sent it, which still waits, and a descriptor has one request *)
(* at a time: no close and reuse of a descriptor comes between a request    *)
(* and its answer (lines 346-351 and 510-533 against 179 and 189).          *)
RightClient ==
  ~setup.die => /\ \A r \in InFlight : conn[r.connfd] = r.from /\ cstate[r.from] = "waiting"
                /\ \A f \in Fds : Places(f) <= 1

(* No piece of a request is lost, read twice or taken for one of another    *)
(* request or of an earlier user of the slot: a waiting client's request is *)
(* either being served or lies, complete, in the network, the kernel and    *)
(* the slot's buffer; and there is nothing else in there (lines 42-65,      *)
(* 302 and 354-365).                                                        *)
BytesConserved ==
  ~setup.die => \A c \in Clients :
    wire[c] + inbuf[c] + Buffered(c)
      = IF cstate[c] = "waiting" /\ \A r \in InFlight : r.from # c THEN MsgLen ELSE 0

(* The pool and the descriptor set agree: a descriptor in the pool is in one *)
(* slot, within maxi, watched by select, and open; even when clients die in *)
(* the middle of a request or find no slot (lines 297-311 and 346-351).     *)
PoolSound ==
  /\ \A s, p \in Pooled : clientfd[s] = clientfd[p] => s = p
  /\ {clientfd[s] : s \in Pooled} = read_set
  /\ read_set \subseteq Open
  /\ \A s \in Pooled : s <= maxi

(* With a slot for everybody, every open connection is in the pool: none is *)
(* forgotten by a close, or by an accept in the same round.                 *)
NoneForgotten ==
  setup.slots >= Cardinality(Clients) => Open \subseteq {clientfd[s] : s \in Pooled}

(* Clients that wait for their answers do not end the server, as long as    *)
(* these are read to the last byte, fit into the socket's buffer, and there *)
(* is a descriptor for everybody: no other line with an assert(0) or a      *)
(* failing write is reached (lines 189, 340, 368 and 516).                  *)
NoAbort ==
  ~setup.die /\ setup.whole /\ Cardinality(setup.fds) >= Cardinality(Clients) => pc # "down"

(* The round counts fewer ready connections than it has yet to look at, and *)
(* will end before it has seen them: it accepted two clients or more, each  *)
(* deducted from nready, where select counted listenfd once (line 296).     *)
Short == pc = "check" /\ nready < Cardinality({s \in Slots : s >= i /\ Ready(s)})

(* Every client that waits is answered, whatever the others do, unless      *)
(* rounds keep being short for ever.                                        *)
EveryRequestAnswered ==
  <>[]~Short => \A c \in Clients : cstate[c] = "waiting" ~> cstate[c] # "waiting"

(* The descriptor of a client that left is given back, with the same        *)
(* reservation.                                                             *)
EveryLeaverClosed ==
  <>[]~Short => \A c \in Clients : cstate[c] = "gone" ~> ~Connected(c)

(* The server as a whole offers the request service. *)
Service == INSTANCE RequestService WITH
             arrived  <- {r.connfd : r \in Read},
             queue    <- [n \in DOMAIN reqs |-> reqs[n].connfd],
             assigned <- {r.connfd : r \in InHands}

ServiceSpec == Service!Spec
=============================================================================
