----------------------------- MODULE WorkerPool -----------------------------
(***************************************************************************)
(* The request queue and the worker threads of server_tc.c.                *)
(*                                                                         *)
(* The main thread copies each request into a fresh buffer and pushes a    *)
(* req_node under req_lock.  There is no condition variable: every idle    *)
(* worker spins.  In each turn of its loop a worker looks at its own slot  *)
(* of the thread table WITHOUT the lock, serves the request it finds       *)
(* there, gives the slot back under the lock, and then tries the lock to   *)
(* become, for one pass over the table, the dispatcher that moves requests *)
(* from the queue to free slots, its own or another worker's.              *)
(*                                                                         *)
(* Steps are as fine as the unlocked reads can tell apart: the stores of   *)
(* the dispatcher and those of a finishing worker are steps of their own.  *)
(* The build is unoptimised (-g, no -O) for a total-store-order machine,   *)
(* so stores reach the other threads in program order.                     *)
(***************************************************************************)
EXTENDS Integers, Sequences

CONSTANTS
  NThreads,  \* thr_num
  Fds,       \* descriptors of client connections
  Bufs,      \* heap blocks that string_copy can return for an input
  NULL,
  Garbage    \* content of memory nobody has written yet

(* A queued request: the two fields of struct req_node that are used. *)
Node == [connfd : Fds, input : Bufs]

ASSUME WorkerPoolAssumption ==
  /\ NThreads \in Nat \ {0}
  /\ Fds \subseteq Nat \ {0}
  /\ NULL \notin Bufs \cup Nat /\ NULL \notin Node
  /\ Garbage \notin Bufs \cup Nat \cup {NULL}

Threads == 0 .. NThreads - 1

VARIABLES
  reqs,            \* the req_node list from req_init to req_last; Len is *req_num
  req_lock,        \* the thread that holds req_lock, or NULL
  thread_stat,     \* 1 when a request is assigned to the slot
  thread_keyword,  \* the slot's input buffer
  thread_fd,       \* the slot's connection
  pc,              \* where each worker is in finding()
  keyword,         \* each worker's local variable keyword
  idx,             \* each worker's loop variable i of the dispatching pass
  mem,             \* which connection's request a heap block holds; NULL when free
  new_task,        \* the main thread's new_task, until it is pushed
  waiting          \* connections whose client waits for an answer

slotVars == <<thread_stat, thread_keyword, thread_fd>>
vars == <<reqs, req_lock, slotVars, pc, keyword, idx, mem, new_task, waiting>>

(* server_init allocates thread_keyword and thread_fd and leaves them as    *)
(* malloc returned them; only thread_stat is cleared.                       *)
Init ==
  /\ reqs = <<>>
  /\ req_lock = NULL
  /\ thread_stat = [t \in Threads |-> 0]
  /\ thread_keyword \in [Threads -> {NULL, Garbage}]
  /\ thread_fd = [t \in Threads |-> Garbage]
  /\ pc = [t \in Threads |-> "top"]
  /\ keyword = [t \in Threads |-> NULL]
  /\ idx = [t \in Threads |-> 0]
  /\ mem = [b \in Bufs |-> NULL]
  /\ new_task = NULL
  /\ waiting = {}

-----------------------------------------------------------------------------
(* The main thread, in check_clients().                                     *)

(* A complete request of connection f was read: allocate the node and copy  *)
(* the input.                                                               *)
NewTask(f, b) ==
  /\ new_task = NULL
  /\ mem[b] = NULL
  /\ mem' = [mem EXCEPT ![b] = f]
  /\ new_task' = [connfd |-> f, input |-> b]
  /\ waiting' = waiting \cup {f}
  /\ UNCHANGED <<reqs, req_lock, slotVars, pc, keyword, idx>>

(* Fault: the request is linked in front of req_init. *)
PushTask_Front ==
  /\ new_task # NULL
  /\ req_lock = NULL
  /\ reqs' = <<new_task>> \o reqs
  /\ new_task' = NULL
  /\ UNCHANGED <<req_lock, slotVars, pc, keyword, idx, mem, waiting>>

(* Lock, push_req_node, unlock. *)
PushTask ==
  /\ new_task # NULL
  /\ req_lock = NULL
  /\ reqs' = Append(reqs, new_task)
  /\ new_task' = NULL
  /\ UNCHANGED <<req_lock, slotVars, pc, keyword, idx, mem, waiting>>

-----------------------------------------------------------------------------
(* A worker and its slot.                                                   *)

Goto(t, label) == pc' = [pc EXCEPT ![t] = label]

HasWork(t) == thread_stat[t] = 1 /\ thread_keyword[t] # NULL

(* The unlocked test at the top of the loop. *)
TakeWork(t) ==
  /\ pc[t] = "top"
  /\ HasWork(t)
  /\ keyword' = [keyword EXCEPT ![t] = thread_keyword[t]]
  /\ Goto(t, "serve")
  /\ UNCHANGED <<reqs, req_lock, slotVars, idx, mem, new_task, waiting>>

NoWork(t) ==
  /\ pc[t] = "top"
  /\ ~HasWork(t)
  /\ Goto(t, "try")
  /\ UNCHANGED <<reqs, req_lock, slotVars, keyword, idx, mem, new_task, waiting>>

(* Compute the answer to keyword and write it to the slot's connection. *)
Reply(t) ==
  /\ pc[t] = "serve"
  /\ waiting' = waiting \ {thread_fd[t]}
  /\ Goto(t, "finish")
  /\ UNCHANGED <<reqs, req_lock, slotVars, keyword, idx, mem, new_task>>

(* Fault: the slot is given back without taking the lock. *)
LockToFinish_NoLock(t) ==
  /\ pc[t] = "finish"
  /\ Goto(t, "clear")
  /\ UNCHANGED <<reqs, req_lock, slotVars, keyword, idx, mem, new_task, waiting>>

(* Giving the slot back: pthread_mutex_lock, then the three stores. *)
LockToFinish(t) ==
  /\ pc[t] = "finish"
  /\ req_lock = NULL
  /\ req_lock' = t
  /\ Goto(t, "clear")
  /\ UNCHANGED <<reqs, slotVars, keyword, idx, mem, new_task, waiting>>

ClearStat(t) ==
  /\ pc[t] = "clear"
  /\ thread_stat' = [thread_stat EXCEPT ![t] = 0]
  /\ Goto(t, "wipe")
  /\ UNCHANGED <<reqs, req_lock, thread_keyword, thread_fd, keyword, idx, mem,
                 new_task, waiting>>

(* Fault: the empty slot is marked by -1, as in the pool's clientfd. *)
WipeSlot_MinusOne(t) ==
  /\ pc[t] = "wipe"
  /\ thread_keyword' = [thread_keyword EXCEPT ![t] = NULL]
  /\ thread_fd' = [thread_fd EXCEPT ![t] = -1]
  /\ req_lock' = NULL
  /\ Goto(t, "free")
  /\ UNCHANGED <<reqs, thread_stat, keyword, idx, mem, new_task, waiting>>

WipeSlot(t) ==
  /\ pc[t] = "wipe"
  /\ thread_keyword' = [thread_keyword EXCEPT ![t] = NULL]
  /\ thread_fd' = [thread_fd EXCEPT ![t] = 0]
  /\ req_lock' = NULL
  /\ Goto(t, "free")
  /\ UNCHANGED <<reqs, thread_stat, keyword, idx, mem, new_task, waiting>>

(* Fault: the free is forgotten. *)
FreeKeyword_Leak(t) ==
  /\ pc[t] = "free"
  /\ keyword' = [keyword EXCEPT ![t] = NULL]
  /\ Goto(t, "try")
  /\ UNCHANGED <<reqs, req_lock, slotVars, idx, mem, new_task, waiting>>

(* free(keyword), outside the lock. *)
FreeKeyword(t) ==
  /\ pc[t] = "free"
  /\ mem' = [mem EXCEPT ![keyword[t]] = NULL]
  /\ keyword' = [keyword EXCEPT ![t] = NULL]
  /\ Goto(t, "try")
  /\ UNCHANGED <<reqs, req_lock, slotVars, idx, new_task, waiting>>

-----------------------------------------------------------------------------
(* A worker as the dispatcher.                                              *)

(* pthread_mutex_trylock. *)
TryLock(t) ==
  /\ pc[t] = "try"
  /\ req_lock = NULL
  /\ req_lock' = t
  /\ Goto(t, "scan")
  /\ UNCHANGED <<reqs, slotVars, keyword, idx, mem, new_task, waiting>>

LockBusy(t) ==
  /\ pc[t] = "try"
  /\ req_lock # NULL
  /\ Goto(t, "top")
  /\ UNCHANGED <<reqs, req_lock, slotVars, keyword, idx, mem, new_task, waiting>>

(* The pass ends after the last slot; with an empty queue it never starts. *)
ScanOver(t) == idx[t] = NThreads \/ (idx[t] = 0 /\ reqs = <<>>)

(* Fault: requests go to busy slots too. *)
Dispatchable_AnySlot(s) == reqs # <<>>

Dispatchable(s) == reqs # <<>> /\ thread_stat[s] = 0

SkipSlot(t) ==
  /\ pc[t] = "scan"
  /\ ~ScanOver(t)
  /\ ~Dispatchable(idx[t])
  /\ idx' = [idx EXCEPT ![t] = @ + 1]
  /\ UNCHANGED <<reqs, req_lock, slotVars, pc, keyword, mem, new_task, waiting>>

FillSlot(t) ==
  /\ pc[t] = "scan"
  /\ ~ScanOver(t)
  /\ Dispatchable(idx[t])
  /\ thread_fd' = [thread_fd EXCEPT ![idx[t]] = Head(reqs).connfd]
  /\ thread_keyword' = [thread_keyword EXCEPT ![idx[t]] = Head(reqs).input]
  /\ Goto(t, "publish")
  /\ UNCHANGED <<reqs, req_lock, thread_stat, keyword, idx, mem, new_task, waiting>>

(* From here on the slot's worker may start, unlocked. *)
PublishSlot(t) ==
  /\ pc[t] = "publish"
  /\ thread_stat' = [thread_stat EXCEPT ![idx[t]] = 1]
  /\ Goto(t, "pop")
  /\ UNCHANGED <<reqs, req_lock, thread_keyword, thread_fd, keyword, idx, mem,
                 new_task, waiting>>

PopRequest(t) ==
  /\ pc[t] = "pop"
  /\ reqs' = Tail(reqs)
  /\ idx' = [idx EXCEPT ![t] = @ + 1]
  /\ Goto(t, "scan")
  /\ UNCHANGED <<req_lock, slotVars, keyword, mem, new_task, waiting>>

(* Fault: the unlock is inside the test of *req_num. *)
EndScan_KeepLock(t) ==
  /\ pc[t] = "scan"
  /\ ScanOver(t)
  /\ req_lock' = IF idx[t] = 0 THEN req_lock ELSE NULL
  /\ idx' = [idx EXCEPT ![t] = 0]
  /\ Goto(t, "top")
  /\ UNCHANGED <<reqs, slotVars, keyword, mem, new_task, waiting>>

EndScan(t) ==
  /\ pc[t] = "scan"
  /\ ScanOver(t)
  /\ req_lock' = NULL
  /\ idx' = [idx EXCEPT ![t] = 0]
  /\ Goto(t, "top")
  /\ UNCHANGED <<reqs, slotVars, keyword, mem, new_task, waiting>>

-----------------------------------------------------------------------------
Worker(t) == \/ TakeWork(t) \/ NoWork(t) \/ Reply(t)
             \/ LockToFinish(t) \/ ClearStat(t) \/ WipeSlot(t) \/ FreeKeyword(t)
             \/ TryLock(t) \/ LockBusy(t) \/ SkipSlot(t) \/ FillSlot(t)
             \/ PublishSlot(t) \/ PopRequest(t) \/ EndScan(t)

(* A client sends its next request only when the last one was answered. *)
Next == \/ \E f \in Fds \ waiting, b \in Bufs : NewTask(f, b)
        \/ PushTask
        \/ \E t \in Threads : Worker(t)

Spec == Init /\ [][Next]_vars

(* The operating system keeps running every thread, and the main thread,     *)
(* when it is blocked in pthread_mutex_lock on a lock that is released again *)
(* and again, gets it in the end.  Nothing more is assumed of the contention *)
(* among workers: which of the spinning ones dispatches is left to chance,   *)
(* and a finishing worker may wait for the lock for ever.                    *)
Fairness == /\ SF_vars(PushTask)
            /\ \A t \in Threads : WF_vars(Worker(t))

FairSpec == Spec /\ Fairness

-----------------------------------------------------------------------------
(* Derived state.                                                           *)

(* A dispatcher has published the head of the queue and not popped it yet:  *)
(* the head is still linked but no longer waits for a worker.               *)
HeadTaken == \E t \in Threads : pc[t] = "pop"

Pending == IF HeadTaken THEN 2 .. Len(reqs) ELSE 1 .. Len(reqs)

(* The slot holds a request its worker has not answered yet. *)
Open(t) == thread_stat[t] = 1 /\ pc[t] \notin {"finish", "clear"}

HoldsLock(t) == pc[t] \in {"clear", "wipe", "scan", "publish", "pop"}

(* The worker still has a buffer to free for a request it has answered. *)
Finishing(t) == pc[t] \in {"finish", "clear", "wipe", "free"}

Arrived  == {f \in Fds : new_task # NULL /\ new_task.connfd = f}
Queued   == {reqs[n].connfd : n \in Pending}
Assigned == {thread_fd[t] : t \in {s \in Threads : Open(s)}}

-----------------------------------------------------------------------------
(* Type invariant: the ranges of the thread table, the queue and the locals *)
(* of finding(), garbage included.                                          *)
TypeOK ==
  /\ reqs \in Seq(Node)
  /\ req_lock \in Threads \cup {NULL}
  /\ thread_stat \in [Threads -> {0, 1}]
  /\ thread_keyword \in [Threads -> Bufs \cup {NULL, Garbage}]
  /\ thread_fd \in [Threads -> Fds \cup {0, Garbage}]
  /\ pc \in [Threads -> {"top", "serve", "finish", "clear", "wipe", "free",
                         "try", "scan", "publish", "pop"}]
  /\ keyword \in [Threads -> Bufs \cup {NULL}]
  /\ idx \in [Threads -> 0 .. NThreads]
  /\ mem \in [Bufs -> Fds \cup {NULL}]
  /\ new_task \in Node \cup {NULL}
  /\ waiting \subseteq Fds

(* A worker that is about to write an answer computes it from the request   *)
(* of the very connection it writes to, and that connection's client is     *)
(* waiting: the unlocked read of the slot never mixes two requests, or a    *)
(* request with stale or uninitialised fields (finding, lines 135-192).     *)
RightRecipient ==
  \A t \in Threads : pc[t] = "serve" =>
    /\ thread_fd[t] \in waiting
    /\ mem[keyword[t]] = thread_fd[t]

(* A request whose client waits is always on its way: in the main thread's  *)
(* hands, in the queue, or open in the slot of a worker.  In particular the *)
(* stores of a finishing worker never erase a request that a dispatcher has *)
(* just put in its slot (lines 203-207 against 216-222).                    *)
NoLostRequest == waiting = Arrived \cup Queued \cup Assigned

(* Who may still dereference or free the heap block b. *)
HeldByMain(b)      == new_task # NULL /\ new_task.input = b
HeldByQueue(n, b)  == n \in Pending /\ reqs[n].input = b
HeldByThread(t, b) == \/ Open(t) /\ thread_keyword[t] = b
                      \/ Finishing(t) /\ keyword[t] = b

(* An input buffer is allocated exactly as long as somebody holds it, and   *)
(* never has two holders: no request is served twice, nothing is used after *)
(* free(keyword), freed twice or leaked (string_copy at line 376 to free at *)
(* line 208).                                                               *)
OneOwner ==
  \A b \in Bufs :
    /\ mem[b] # NULL <=> \/ HeldByMain(b)
                         \/ \E n \in DOMAIN reqs : HeldByQueue(n, b)
                         \/ \E t \in Threads : HeldByThread(t, b)
    /\ \A m, n \in DOMAIN reqs : HeldByQueue(m, b) /\ HeldByQueue(n, b) => m = n
    /\ \A t, u \in Threads : HeldByThread(t, b) /\ HeldByThread(u, b) => t = u
    /\ \A n \in DOMAIN reqs, t \in Threads : ~(HeldByQueue(n, b) /\ HeldByThread(t, b))
    /\ HeldByMain(b) => /\ \A n \in DOMAIN reqs : ~HeldByQueue(n, b)
                        /\ \A t \in Threads : ~HeldByThread(t, b)

(* Every request whose client waits is answered in the end, although no     *)
(* worker is guaranteed to win trylock and the dispatcher's pass visits     *)
(* every slot once only (lines 214-225).                                    *)
EveryRequestAnswered == \A f \in Fds : f \in waiting ~> f \notin waiting

(* The queue as a client sees it. *)
Offset == IF HeadTaken THEN 1 ELSE 0

ServiceQueue == [n \in 1 .. Len(reqs) - Offset |-> reqs[n + Offset].connfd]

(* The pool implements the request service: first come first assigned,      *)
(* each request assigned and answered once.                                 *)
Service == INSTANCE RequestService WITH
             arrived <- Arrived, queue <- ServiceQueue, assigned <- Assigned

ServiceSpec == Service!Spec
=============================================================================
