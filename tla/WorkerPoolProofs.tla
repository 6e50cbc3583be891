-------------------------- MODULE WorkerPoolProofs --------------------------
(***************************************************************************)
(* Proofs about WorkerPool, for any number of threads, connections and     *)
(* buffers.                                                                *)
(*                                                                         *)
(* The safety properties are not inductive: that a worker answers the      *)
(* right connection depends on what every request still on its way looks   *)
(* like, wherever it is.  IInv says it for the four places a request can   *)
(* be in: the main thread, the queue, an open slot, and (its buffer only)  *)
(* a worker that has answered it and has not freed the buffer yet.         *)
(***************************************************************************)
EXTENDS WorkerPool, SequenceTheorems, TLAPS

(* A thread inside a critical section is the one req_lock names. *)
LockInv == \A t \in Threads : HoldsLock(t) => req_lock = t

(* What a worker's own slot looks like while it serves and gives it back. *)
SlotInv ==
  \A t \in Threads :
    /\ pc[t] \in {"serve", "finish", "clear"} => /\ thread_stat[t] = 1
                                                 /\ keyword[t] = thread_keyword[t]
    /\ pc[t] = "wipe" => thread_stat[t] = 0
    /\ pc[t] \in {"serve", "finish", "clear", "wipe", "free"} => keyword[t] \in Bufs

(* What a dispatcher knows between the stores of one hand-over. *)
DispatchInv ==
  \A t \in Threads :
    /\ pc[t] = "publish" => /\ idx[t] \in Threads
                            /\ reqs # <<>>
                            /\ thread_stat[idx[t]] = 0
                            /\ thread_fd[idx[t]] = reqs[1].connfd
                            /\ thread_keyword[idx[t]] = reqs[1].input
    /\ pc[t] = "pop" => idx[t] \in Threads /\ reqs # <<>>

(* Buffer b holds the request of connection f, which waits for its answer. *)
Live(f, b) == f \in waiting /\ b \in Bufs /\ mem[b] = f

QueueInv ==
  \A n \in Pending :
    /\ Live(reqs[n].connfd, reqs[n].input)
    /\ \A m \in Pending : reqs[m].connfd = reqs[n].connfd => m = n
    /\ \A t \in Threads : Open(t) => thread_fd[t] # reqs[n].connfd

OpenInv ==
  \A t \in Threads : Open(t) =>
    /\ Live(thread_fd[t], thread_keyword[t])
    /\ \A u \in Threads : Open(u) /\ thread_fd[u] = thread_fd[t] => u = t

MainInv ==
  new_task # NULL =>
    /\ Live(new_task.connfd, new_task.input)
    /\ \A n \in Pending : reqs[n].connfd # new_task.connfd
    /\ \A t \in Threads : Open(t) => thread_fd[t] # new_task.connfd

(* The buffer of an answered request belongs to its worker alone. *)
FinishInv ==
  \A t \in Threads : Finishing(t) =>
    /\ mem[keyword[t]] # NULL
    /\ \A n \in Pending : reqs[n].input # keyword[t]
    /\ \A u \in Threads : Open(u) => thread_keyword[u] # keyword[t]
    /\ \A u \in Threads : Finishing(u) /\ keyword[u] = keyword[t] => u = t
    /\ new_task # NULL => new_task.input # keyword[t]

IInv == /\ TypeOK /\ LockInv /\ SlotInv /\ DispatchInv
        /\ QueueInv /\ OpenInv /\ MainInv /\ FinishInv

-----------------------------------------------------------------------------
(* Initially no request is anywhere, so only the types are at stake.        *)
LEMMA InitInv == Init => IInv
<1> SUFFICES ASSUME Init PROVE IInv
  OBVIOUS
<1> USE WorkerPoolAssumption DEF Init
<1>1. TypeOK
  BY DEF TypeOK, Threads, Node
<1>2. LockInv /\ SlotInv /\ DispatchInv /\ FinishInv
  BY DEF LockInv, HoldsLock, SlotInv, DispatchInv, FinishInv, Finishing
<1>3. Pending = {} /\ \A t \in Threads : ~Open(t)
  BY DEF Pending, HeadTaken, Open
<1>4. QueueInv /\ OpenInv /\ MainInv
  BY <1>3 DEF QueueInv, OpenInv, MainInv
<1> QED
  BY <1>1, <1>2, <1>4 DEF IInv

(* A step that leaves the requests where they are keeps what is said about  *)
(* them.                                                                    *)
LEMMA Quiet ==
  ASSUME IInv,
         UNCHANGED <<reqs, mem, new_task, waiting>>,
         HeadTaken' <=> HeadTaken,
         \A t \in Threads : Open(t)' => /\ Open(t)
                                       /\ thread_fd'[t] = thread_fd[t]
                                       /\ thread_keyword'[t] = thread_keyword[t],
         \A t \in Threads : Finishing(t)' => Finishing(t) /\ keyword'[t] = keyword[t]
  PROVE  QueueInv' /\ OpenInv' /\ MainInv' /\ FinishInv'
<1>1. Pending' = Pending
  BY DEF Pending
<1>2. QueueInv'
  BY <1>1 DEF IInv, QueueInv, Live
<1>3. OpenInv'
  BY DEF IInv, OpenInv, Live
<1>4. MainInv'
  BY <1>1 DEF IInv, MainInv, Live
<1>5. FinishInv'
  BY <1>1 DEF IInv, FinishInv
<1> QED
  BY <1>2, <1>3, <1>4, <1>5

LEMMA NoWorkStep == ASSUME IInv, NEW t \in Threads, NoWork(t) PROVE IInv'
<1> USE WorkerPoolAssumption DEF NoWork, Goto, slotVars
<1>1. TypeOK'
  BY DEF IInv, TypeOK
<1>2. LockInv' /\ SlotInv' /\ DispatchInv'
  BY DEF IInv, TypeOK, LockInv, SlotInv, DispatchInv, HoldsLock
<1>3. QueueInv' /\ OpenInv' /\ MainInv' /\ FinishInv'
  <2>1. HeadTaken' <=> HeadTaken
    BY DEF IInv, TypeOK, HeadTaken
  <2>2. \A s \in Threads : Open(s)' => /\ Open(s)
                                      /\ thread_fd'[s] = thread_fd[s]
                                      /\ thread_keyword'[s] = thread_keyword[s]
    BY DEF IInv, TypeOK, Open
  <2>3. \A s \in Threads : Finishing(s)' => Finishing(s) /\ keyword'[s] = keyword[s]
    BY DEF IInv, TypeOK, Finishing
  <2> QED
    BY <2>1, <2>2, <2>3, Quiet
<1> QED
  BY <1>1, <1>2, <1>3 DEF IInv

LEMMA TakeWorkStep == ASSUME IInv, NEW t \in Threads, TakeWork(t) PROVE IInv'
<1> USE WorkerPoolAssumption DEF TakeWork, Goto, slotVars, HasWork
<1>0. thread_keyword[t] \in Bufs
  BY DEF IInv, OpenInv, Open, Live
<1>1. TypeOK'
  BY <1>0 DEF IInv, TypeOK
<1>2. LockInv' /\ SlotInv' /\ DispatchInv'
  BY <1>0 DEF IInv, TypeOK, LockInv, SlotInv, DispatchInv, HoldsLock
<1>3. QueueInv' /\ OpenInv' /\ MainInv' /\ FinishInv'
  <2>1. HeadTaken' <=> HeadTaken
    BY DEF IInv, TypeOK, HeadTaken
  <2>2. \A s \in Threads : Open(s)' => /\ Open(s)
                                      /\ thread_fd'[s] = thread_fd[s]
                                      /\ thread_keyword'[s] = thread_keyword[s]
    BY DEF IInv, TypeOK, Open
  <2>3. \A s \in Threads : Finishing(s)' => Finishing(s) /\ keyword'[s] = keyword[s]
    BY DEF IInv, TypeOK, Finishing
  <2> QED
    BY <2>1, <2>2, <2>3, Quiet
<1> QED
  BY <1>1, <1>2, <1>3 DEF IInv

LEMMA LockToFinishStep == ASSUME IInv, NEW t \in Threads, LockToFinish(t) PROVE IInv'
<1> USE WorkerPoolAssumption DEF LockToFinish, Goto, slotVars
<1>1. TypeOK'
  BY DEF IInv, TypeOK
<1>2. LockInv' /\ SlotInv' /\ DispatchInv'
  <2>0. \A s \in Threads : HoldsLock(s) => s = t
    BY DEF IInv, LockInv, HoldsLock, TypeOK, Threads
  <2>1. LockInv'
    BY <2>0 DEF IInv, TypeOK, LockInv, HoldsLock
  <2>2. SlotInv'
    BY <2>0 DEF IInv, TypeOK, SlotInv, HoldsLock
  <2>3. DispatchInv'
    BY <2>0 DEF IInv, TypeOK, DispatchInv, HoldsLock
  <2> QED
    BY <2>1, <2>2, <2>3
<1>3. QueueInv' /\ OpenInv' /\ MainInv' /\ FinishInv'
  <2>1. HeadTaken' <=> HeadTaken
    BY DEF IInv, TypeOK, HeadTaken
  <2>2. \A s \in Threads : Open(s)' => /\ Open(s)
                                      /\ thread_fd'[s] = thread_fd[s]
                                      /\ thread_keyword'[s] = thread_keyword[s]
    BY DEF IInv, TypeOK, Open
  <2>3. \A s \in Threads : Finishing(s)' => Finishing(s) /\ keyword'[s] = keyword[s]
    BY DEF IInv, TypeOK, Finishing
  <2> QED
    BY <2>1, <2>2, <2>3, Quiet
<1> QED
  BY <1>1, <1>2, <1>3 DEF IInv

LEMMA ClearStatStep == ASSUME IInv, NEW t \in Threads, ClearStat(t) PROVE IInv'
<1> USE WorkerPoolAssumption DEF ClearStat, Goto, slotVars
<1>1. TypeOK'
  BY DEF IInv, TypeOK
<1>2. LockInv' /\ SlotInv' /\ DispatchInv'
  BY DEF IInv, TypeOK, LockInv, SlotInv, DispatchInv, HoldsLock
<1>3. QueueInv' /\ OpenInv' /\ MainInv' /\ FinishInv'
  <2>1. HeadTaken' <=> HeadTaken
    BY DEF IInv, TypeOK, HeadTaken
  <2>2. \A s \in Threads : Open(s)' => /\ Open(s)
                                      /\ thread_fd'[s] = thread_fd[s]
                                      /\ thread_keyword'[s] = thread_keyword[s]
    <3> SUFFICES ASSUME NEW s \in Threads, Open(s)'
                 PROVE  Open(s) /\ thread_fd'[s] = thread_fd[s]
                                /\ thread_keyword'[s] = thread_keyword[s]
      OBVIOUS
    <3>1. s # t
      BY DEF IInv, TypeOK, Open
    <3> QED
      BY <3>1 DEF IInv, TypeOK, Open
  <2>3. \A s \in Threads : Finishing(s)' => Finishing(s) /\ keyword'[s] = keyword[s]
    BY DEF IInv, TypeOK, Finishing
  <2> QED
    BY <2>1, <2>2, <2>3, Quiet
<1> QED
  BY <1>1, <1>2, <1>3 DEF IInv

LEMMA WipeSlotStep == ASSUME IInv, NEW t \in Threads, WipeSlot(t) PROVE IInv'
<1> USE WorkerPoolAssumption DEF WipeSlot, Goto, slotVars
<1>1. TypeOK'
  BY DEF IInv, TypeOK
<1>2. LockInv' /\ SlotInv' /\ DispatchInv'
  <2>0. \A s \in Threads : HoldsLock(s) => s = t
    BY DEF IInv, LockInv, HoldsLock, TypeOK, Threads
  <2>1. LockInv'
    BY <2>0 DEF IInv, TypeOK, LockInv, HoldsLock
  <2>2. SlotInv'
    BY <2>0 DEF IInv, TypeOK, SlotInv, HoldsLock
  <2>3. DispatchInv'
    BY <2>0 DEF IInv, TypeOK, DispatchInv, HoldsLock
  <2> QED
    BY <2>1, <2>2, <2>3
<1>3. QueueInv' /\ OpenInv' /\ MainInv' /\ FinishInv'
  <2>1. HeadTaken' <=> HeadTaken
    BY DEF IInv, TypeOK, HeadTaken
  <2>2. \A s \in Threads : Open(s)' => /\ Open(s)
                                      /\ thread_fd'[s] = thread_fd[s]
                                      /\ thread_keyword'[s] = thread_keyword[s]
    <3> SUFFICES ASSUME NEW s \in Threads, Open(s)'
                 PROVE  Open(s) /\ thread_fd'[s] = thread_fd[s]
                                /\ thread_keyword'[s] = thread_keyword[s]
      OBVIOUS
    <3>1. s # t
      BY DEF IInv, TypeOK, SlotInv, Open
    <3> QED
      BY <3>1 DEF IInv, TypeOK, Open
  <2>3. \A s \in Threads : Finishing(s)' => Finishing(s) /\ keyword'[s] = keyword[s]
    BY DEF IInv, TypeOK, Finishing
  <2> QED
    BY <2>1, <2>2, <2>3, Quiet
<1> QED
  BY <1>1, <1>2, <1>3 DEF IInv

LEMMA TryLockStep == ASSUME IInv, NEW t \in Threads, TryLock(t) PROVE IInv'
<1> USE WorkerPoolAssumption DEF TryLock, Goto, slotVars
<1>1. TypeOK'
  BY DEF IInv, TypeOK
<1>2. LockInv' /\ SlotInv' /\ DispatchInv'
  <2>1. LockInv'
    BY DEF IInv, TypeOK, LockInv, HoldsLock, Threads
  <2>2. SlotInv' /\ DispatchInv'
    BY DEF IInv, TypeOK, SlotInv, DispatchInv
  <2> QED
    BY <2>1, <2>2
<1>3. QueueInv' /\ OpenInv' /\ MainInv' /\ FinishInv'
  <2>1. HeadTaken' <=> HeadTaken
    BY DEF IInv, TypeOK, HeadTaken
  <2>2. \A s \in Threads : Open(s)' => /\ Open(s)
                                      /\ thread_fd'[s] = thread_fd[s]
                                      /\ thread_keyword'[s] = thread_keyword[s]
    BY DEF IInv, TypeOK, Open
  <2>3. \A s \in Threads : Finishing(s)' => Finishing(s) /\ keyword'[s] = keyword[s]
    BY DEF IInv, TypeOK, Finishing
  <2> QED
    BY <2>1, <2>2, <2>3, Quiet
<1> QED
  BY <1>1, <1>2, <1>3 DEF IInv

LEMMA LockBusyStep == ASSUME IInv, NEW t \in Threads, LockBusy(t) PROVE IInv'
<1> USE WorkerPoolAssumption DEF LockBusy, Goto, slotVars
<1>1. TypeOK'
  BY DEF IInv, TypeOK
<1>2. LockInv' /\ SlotInv' /\ DispatchInv'
  BY DEF IInv, TypeOK, LockInv, SlotInv, DispatchInv, HoldsLock
<1>3. QueueInv' /\ OpenInv' /\ MainInv' /\ FinishInv'
  <2>1. HeadTaken' <=> HeadTaken
    BY DEF IInv, TypeOK, HeadTaken
  <2>2. \A s \in Threads : Open(s)' => /\ Open(s)
                                      /\ thread_fd'[s] = thread_fd[s]
                                      /\ thread_keyword'[s] = thread_keyword[s]
    BY DEF IInv, TypeOK, Open
  <2>3. \A s \in Threads : Finishing(s)' => Finishing(s) /\ keyword'[s] = keyword[s]
    BY DEF IInv, TypeOK, Finishing
  <2> QED
    BY <2>1, <2>2, <2>3, Quiet
<1> QED
  BY <1>1, <1>2, <1>3 DEF IInv

LEMMA SkipSlotStep == ASSUME IInv, NEW t \in Threads, SkipSlot(t) PROVE IInv'
<1> USE WorkerPoolAssumption DEF SkipSlot, Goto, slotVars, ScanOver
<1>1. TypeOK'
  BY DEF IInv, TypeOK, Threads
<1>2. LockInv' /\ SlotInv' /\ DispatchInv'
  BY DEF IInv, TypeOK, LockInv, SlotInv, DispatchInv, HoldsLock
<1>3. QueueInv' /\ OpenInv' /\ MainInv' /\ FinishInv'
  <2>1. HeadTaken' <=> HeadTaken
    BY DEF IInv, TypeOK, HeadTaken
  <2>2. \A s \in Threads : Open(s)' => /\ Open(s)
                                      /\ thread_fd'[s] = thread_fd[s]
                                      /\ thread_keyword'[s] = thread_keyword[s]
    BY DEF IInv, TypeOK, Open
  <2>3. \A s \in Threads : Finishing(s)' => Finishing(s) /\ keyword'[s] = keyword[s]
    BY DEF IInv, TypeOK, Finishing
  <2> QED
    BY <2>1, <2>2, <2>3, Quiet
<1> QED
  BY <1>1, <1>2, <1>3 DEF IInv

LEMMA FillSlotStep == ASSUME IInv, NEW t \in Threads, FillSlot(t) PROVE IInv'
<1> USE WorkerPoolAssumption DEF FillSlot, Goto, slotVars, ScanOver, Dispatchable
<1>0. idx[t] \in Threads /\ reqs[1] \in Node /\ Head(reqs) = reqs[1]
  BY DEF IInv, TypeOK, Threads
<1>1. TypeOK'
  BY <1>0 DEF IInv, TypeOK, Threads, Node
<1>2. LockInv' /\ SlotInv' /\ DispatchInv'
  <2>0. \A s \in Threads : HoldsLock(s) => s = t
    BY DEF IInv, LockInv, HoldsLock, TypeOK, Threads
  <2>1. LockInv'
    BY <2>0 DEF IInv, TypeOK, LockInv, HoldsLock
  <2>2. SlotInv'
    BY <2>0 DEF IInv, TypeOK, SlotInv, HoldsLock
  <2>3. DispatchInv'
    BY <1>0, <2>0 DEF IInv, TypeOK, DispatchInv, HoldsLock
  <2> QED
    BY <2>1, <2>2, <2>3
<1>3. QueueInv' /\ OpenInv' /\ MainInv' /\ FinishInv'
  <2>1. HeadTaken' <=> HeadTaken
    BY DEF IInv, TypeOK, HeadTaken
  <2>2. \A s \in Threads : Open(s)' => /\ Open(s)
                                      /\ thread_fd'[s] = thread_fd[s]
                                      /\ thread_keyword'[s] = thread_keyword[s]
    BY DEF IInv, TypeOK, Open
  <2>3. \A s \in Threads : Finishing(s)' => Finishing(s) /\ keyword'[s] = keyword[s]
    BY DEF IInv, TypeOK, Finishing
  <2> QED
    BY <2>1, <2>2, <2>3, Quiet
<1> QED
  BY <1>1, <1>2, <1>3 DEF IInv

LEMMA EndScanStep == ASSUME IInv, NEW t \in Threads, EndScan(t) PROVE IInv'
<1> USE WorkerPoolAssumption DEF EndScan, Goto, slotVars
<1>1. TypeOK'
  BY DEF IInv, TypeOK, Threads
<1>2. LockInv' /\ SlotInv' /\ DispatchInv'
  BY DEF IInv, TypeOK, LockInv, SlotInv, DispatchInv, HoldsLock
<1>3. QueueInv' /\ OpenInv' /\ MainInv' /\ FinishInv'
  <2>1. HeadTaken' <=> HeadTaken
    BY DEF IInv, TypeOK, HeadTaken
  <2>2. \A s \in Threads : Open(s)' => /\ Open(s)
                                      /\ thread_fd'[s] = thread_fd[s]
                                      /\ thread_keyword'[s] = thread_keyword[s]
    BY DEF IInv, TypeOK, Open
  <2>3. \A s \in Threads : Finishing(s)' => Finishing(s) /\ keyword'[s] = keyword[s]
    BY DEF IInv, TypeOK, Finishing
  <2> QED
    BY <2>1, <2>2, <2>3, Quiet
<1> QED
  BY <1>1, <1>2, <1>3 DEF IInv

LEMMA NewTaskStep ==
  ASSUME IInv, NEW f \in Fds \ waiting, NEW b \in Bufs, NewTask(f, b)
  PROVE  IInv'
<1> USE WorkerPoolAssumption DEF NewTask, slotVars
<1>1. TypeOK' /\ new_task' \in Node
  BY DEF IInv, TypeOK, Node
<1>2. LockInv' /\ SlotInv' /\ DispatchInv'
  BY DEF IInv, TypeOK, LockInv, SlotInv, DispatchInv, HoldsLock
<1>3. /\ Pending' = Pending
      /\ \A t \in Threads : Open(t)' <=> Open(t)
      /\ \A t \in Threads : Finishing(t)' <=> Finishing(t)
  BY DEF Pending, HeadTaken, Open, Finishing
<1>4. \A g, c : Live(g, c) => g # f /\ c # b /\ Live(g, c)'
  BY DEF IInv, TypeOK, Live
<1>5. UNCHANGED <<reqs, thread_fd, thread_keyword, keyword>>
  OBVIOUS
<1> HIDE DEF NewTask
<1>6. QueueInv'
  BY <1>3, <1>4, <1>5 DEF IInv, QueueInv
<1>7. OpenInv'
  BY <1>3, <1>4, <1>5 DEF IInv, OpenInv
<1>8. MainInv'
  <2>1. Live(f, b)'
    BY DEF NewTask, IInv, TypeOK, Live
  <2>2. new_task'.connfd = f /\ new_task'.input = b
    BY DEF NewTask
  <2> QED
    BY <2>1, <2>2, <1>3, <1>4, <1>5 DEF IInv, MainInv, QueueInv, OpenInv
<1>9. FinishInv'
  <2>1. \A t \in Threads : Finishing(t) => /\ keyword[t] \in Bufs \ {b}
                                           /\ mem'[keyword[t]] = mem[keyword[t]]
    BY DEF NewTask, IInv, TypeOK, FinishInv, SlotInv, Finishing
  <2>2. new_task'.input = b
    BY DEF NewTask
  <2> QED
    BY <1>3, <1>5, <2>1, <2>2 DEF IInv, FinishInv
<1> QED
  BY <1>1, <1>2, <1>6, <1>7, <1>8, <1>9 DEF IInv

LEMMA PushTaskStep == ASSUME IInv, PushTask PROVE IInv'
<1> USE WorkerPoolAssumption DEF PushTask, slotVars
<1> DEFINE last == Len(reqs) + 1
<1>1. /\ reqs \in Seq(Node) /\ reqs' \in Seq(Node) /\ new_task \in Node
      /\ Len(reqs') = last /\ Len(reqs) \in Nat
      /\ reqs'[last] = new_task
      /\ \A n \in 1 .. Len(reqs) : reqs'[n] = reqs[n]
  BY DEF IInv, TypeOK
<1>2. TypeOK'
  BY <1>1 DEF IInv, TypeOK
<1>3. \A t \in Threads : ~HoldsLock(t)
  BY DEF IInv, LockInv, Threads
<1>4. LockInv' /\ SlotInv' /\ DispatchInv'
  BY <1>3 DEF IInv, TypeOK, LockInv, SlotInv, DispatchInv, HoldsLock
<1>5. Pending' = Pending \cup {last} /\ Pending = 1 .. Len(reqs)
  BY <1>1, <1>3 DEF Pending, HeadTaken, HoldsLock
<1>6. \A t \in Threads : /\ Open(t)' <=> Open(t)
                         /\ Finishing(t)' <=> Finishing(t)
  BY DEF Open, Finishing
<1>7. QueueInv'
  BY <1>1, <1>5, <1>6 DEF IInv, QueueInv, MainInv, Live, Node
<1>8. OpenInv' /\ MainInv'
  BY <1>6 DEF IInv, OpenInv, MainInv, Live
<1>9. FinishInv'
  BY <1>1, <1>5, <1>6 DEF IInv, FinishInv
<1> QED
  BY <1>2, <1>4, <1>7, <1>8, <1>9 DEF IInv

LEMMA ReplyStep == ASSUME IInv, NEW t \in Threads, Reply(t) PROVE IInv'
<1> USE WorkerPoolAssumption DEF Reply, Goto, slotVars
<1>1. TypeOK'
  BY DEF IInv, TypeOK
<1>2. LockInv' /\ SlotInv' /\ DispatchInv'
  BY DEF IInv, TypeOK, LockInv, SlotInv, DispatchInv, HoldsLock
<1>3. /\ Pending' = Pending
      /\ \A s \in Threads : Open(s)' <=> Open(s) /\ s # t
      /\ \A s \in Threads : Finishing(s)' <=> Finishing(s) \/ s = t
  BY DEF IInv, TypeOK, Pending, HeadTaken, Open, Finishing
<1>4. Open(t) /\ Live(thread_fd[t], thread_keyword[t]) /\ keyword[t] = thread_keyword[t]
  BY DEF IInv, TypeOK, Open, OpenInv, SlotInv
<1>5. \A g, c : Live(g, c) /\ g # thread_fd[t] => Live(g, c)' /\ c # keyword[t]
  BY <1>4 DEF Live
<1>6. QueueInv'
  BY <1>3, <1>4, <1>5 DEF IInv, QueueInv
<1>7. OpenInv'
  BY <1>3, <1>4, <1>5 DEF IInv, OpenInv
<1>8. MainInv'
  BY <1>3, <1>4, <1>5 DEF IInv, MainInv
<1>9. FinishInv'
  <2>1. mem[keyword[t]] # NULL
    BY <1>4 DEF IInv, TypeOK, Live
  <2>2. /\ \A n \in Pending : reqs[n].input # keyword[t]
        /\ \A u \in Threads : Open(u) /\ u # t => thread_keyword[u] # keyword[t]
        /\ new_task # NULL => new_task.input # keyword[t]
    BY <1>4, <1>5 DEF IInv, QueueInv, OpenInv, MainInv
  <2> QED
    BY <2>1, <2>2, <1>3, <1>4 DEF IInv, FinishInv
<1> QED
  BY <1>1, <1>2, <1>6, <1>7, <1>8, <1>9 DEF IInv

LEMMA FreeKeywordStep == ASSUME IInv, NEW t \in Threads, FreeKeyword(t) PROVE IInv'
<1> USE WorkerPoolAssumption DEF FreeKeyword, Goto, slotVars
<1>1. TypeOK'
  BY DEF IInv, TypeOK
<1>2. LockInv' /\ SlotInv' /\ DispatchInv'
  BY DEF IInv, TypeOK, LockInv, SlotInv, DispatchInv, HoldsLock
<1>3. /\ Pending' = Pending
      /\ \A s \in Threads : Open(s)' <=> Open(s)
      /\ \A s \in Threads : Finishing(s)' <=> Finishing(s) /\ s # t
  BY DEF IInv, TypeOK, Pending, HeadTaken, Open, Finishing
<1>4. Finishing(t) /\ keyword[t] \in Bufs
  BY DEF IInv, SlotInv, Finishing
<1>5. \A g, c : Live(g, c) /\ c # keyword[t] => Live(g, c)'
  BY DEF IInv, TypeOK, Live
<1>6. QueueInv'
  BY <1>3, <1>4, <1>5 DEF IInv, QueueInv, FinishInv
<1>7. OpenInv'
  BY <1>3, <1>4, <1>5 DEF IInv, OpenInv, FinishInv
<1>8. MainInv'
  BY <1>3, <1>4, <1>5 DEF IInv, MainInv, FinishInv
<1>9. FinishInv'
  BY <1>3, <1>4 DEF IInv, TypeOK, FinishInv, SlotInv, Finishing
<1> QED
  BY <1>1, <1>2, <1>6, <1>7, <1>8, <1>9 DEF IInv

LEMMA PublishSlotStep == ASSUME IInv, NEW t \in Threads, PublishSlot(t) PROVE IInv'
<1> USE WorkerPoolAssumption DEF PublishSlot, Goto, slotVars
<1> DEFINE slot == idx[t]
<1>1. /\ slot \in Threads /\ thread_stat[slot] = 0 /\ reqs # <<>>
      /\ thread_fd[slot] = reqs[1].connfd /\ thread_keyword[slot] = reqs[1].input
  BY DEF IInv, DispatchInv
<1>2. \A s \in Threads : HoldsLock(s) => s = t
  BY DEF IInv, LockInv, HoldsLock
<1>3. ~HeadTaken /\ HeadTaken'
  BY <1>2 DEF IInv, TypeOK, HeadTaken, HoldsLock
<1>4. Len(reqs) \in Nat /\ 1 \in Pending /\ Pending' = Pending \ {1}
  BY <1>1, <1>3 DEF IInv, TypeOK, Pending
<1>5. pc[slot] \notin {"serve", "finish", "clear"}
  BY <1>1 DEF IInv, SlotInv
<1>6. /\ \A s \in Threads : Open(s)' <=> Open(s) \/ s = slot
      /\ \A s \in Threads : Finishing(s)' <=> Finishing(s)
  BY <1>1, <1>5 DEF IInv, TypeOK, Open, Finishing
<1>7. TypeOK'
  BY DEF IInv, TypeOK
<1>8. LockInv' /\ SlotInv' /\ DispatchInv'
  <2>1. LockInv'
    BY <1>2 DEF IInv, TypeOK, LockInv, HoldsLock
  <2>2. pc[slot] # "wipe"
    BY <1>1, <1>2 DEF HoldsLock
  <2>3. SlotInv'
    BY <1>1, <1>5, <2>2 DEF IInv, TypeOK, SlotInv
  <2>4. DispatchInv'
    BY <1>1, <1>2 DEF IInv, TypeOK, DispatchInv, HoldsLock
  <2> QED
    BY <2>1, <2>3, <2>4
<1>9. QueueInv'
  BY <1>1, <1>4, <1>6 DEF IInv, QueueInv, Live
<1>10. OpenInv'
  BY <1>1, <1>4, <1>6 DEF IInv, OpenInv, QueueInv, Live
<1>11. MainInv'
  BY <1>1, <1>4, <1>6 DEF IInv, MainInv, Live
<1>12. FinishInv'
  BY <1>1, <1>4, <1>6 DEF IInv, FinishInv
<1> QED
  BY <1>7, <1>8, <1>9, <1>10, <1>11, <1>12 DEF IInv

LEMMA PopRequestStep == ASSUME IInv, NEW t \in Threads, PopRequest(t) PROVE IInv'
<1> USE WorkerPoolAssumption DEF PopRequest, Goto, slotVars
<1>1. /\ idx[t] \in Threads /\ reqs # <<>>
      /\ reqs \in Seq(Node) /\ Len(reqs) \in Nat /\ reqs' \in Seq(Node)
      /\ Len(reqs') = Len(reqs) - 1
      /\ \A n \in 1 .. Len(reqs') : reqs'[n] = reqs[n + 1]
  BY DEF IInv, TypeOK, DispatchInv
<1>2. TypeOK'
  BY <1>1 DEF IInv, TypeOK, Threads
<1>3. \A s \in Threads : HoldsLock(s) => s = t
  BY DEF IInv, LockInv, HoldsLock
<1>4. LockInv' /\ SlotInv' /\ DispatchInv'
  BY <1>3 DEF IInv, TypeOK, LockInv, SlotInv, DispatchInv, HoldsLock
<1>5. HeadTaken /\ ~HeadTaken'
  BY <1>3 DEF IInv, TypeOK, HeadTaken, HoldsLock
<1>6. \A n \in Pending' : n + 1 \in Pending /\ reqs'[n] = reqs[n + 1] /\ n \in Int
  BY <1>1, <1>5 DEF Pending
<1>7. \A s \in Threads : /\ Open(s)' <=> Open(s)
                         /\ Finishing(s)' <=> Finishing(s)
  BY DEF IInv, TypeOK, Open, Finishing
<1>8. QueueInv'
  <2> SUFFICES ASSUME NEW n \in Pending'
               PROVE  /\ Live(reqs[n].connfd, reqs[n].input)'
                      /\ \A m \in Pending' : reqs'[m].connfd = reqs'[n].connfd => m = n
                      /\ \A s \in Threads : Open(s)' => thread_fd'[s] # reqs'[n].connfd
    BY DEF QueueInv
  <2>1. n + 1 \in Pending /\ reqs'[n] = reqs[n + 1] /\ n \in Int
    BY <1>6
  <2>2. Live(reqs[n].connfd, reqs[n].input)'
    BY <2>1 DEF IInv, QueueInv, Live
  <2>3. ASSUME NEW m \in Pending', reqs'[m].connfd = reqs'[n].connfd PROVE m = n
    <3>1. m + 1 \in Pending /\ reqs'[m] = reqs[m + 1] /\ m \in Int
      BY <1>6
    <3>2. m + 1 = n + 1
      BY <2>1, <2>3, <3>1 DEF IInv, QueueInv
    <3> QED
      BY <2>1, <3>1, <3>2
  <2>4. \A s \in Threads : Open(s)' => thread_fd'[s] # reqs'[n].connfd
    BY <2>1, <1>7 DEF IInv, QueueInv
  <2> QED
    BY <2>2, <2>3, <2>4
<1>9. OpenInv'
  BY <1>7 DEF IInv, OpenInv, Live
<1>10. MainInv'
  <2>1. ASSUME new_task # NULL, NEW n \in Pending' PROVE reqs'[n].connfd # new_task.connfd
    BY <1>6, <2>1 DEF IInv, MainInv
  <2> QED
    BY <1>7, <2>1 DEF IInv, MainInv, Live
<1>11. FinishInv'
  <2>1. ASSUME NEW s \in Threads, Finishing(s), NEW n \in Pending'
        PROVE  reqs'[n].input # keyword[s]
    <3>1. n + 1 \in Pending /\ reqs'[n] = reqs[n + 1]
      BY <1>6
    <3> QED
      BY <2>1, <3>1 DEF IInv, FinishInv
  <2> QED
    BY <1>7, <2>1 DEF IInv, FinishInv
<1> QED
  BY <1>2, <1>4, <1>8, <1>9, <1>10, <1>11 DEF IInv

-----------------------------------------------------------------------------
LEMMA NextInv == IInv /\ [Next]_vars => IInv'
<1> SUFFICES ASSUME IInv, [Next]_vars PROVE IInv'
  OBVIOUS
<1>1. ASSUME NEW f \in Fds \ waiting, NEW b \in Bufs, NewTask(f, b) PROVE IInv'
  BY <1>1, NewTaskStep
<1>2. CASE PushTask
  BY <1>2, PushTaskStep
<1>3. ASSUME NEW t \in Threads, Worker(t) PROVE IInv'
  BY <1>3, NoWorkStep, TakeWorkStep, ReplyStep, LockToFinishStep, ClearStatStep,
     WipeSlotStep, FreeKeywordStep, TryLockStep, LockBusyStep, SkipSlotStep,
     FillSlotStep, PublishSlotStep, PopRequestStep, EndScanStep
  DEF Worker
<1>4. CASE UNCHANGED vars
  <2>1. TypeOK' /\ LockInv' /\ SlotInv' /\ DispatchInv'
    BY <1>4 DEF IInv, vars, slotVars, TypeOK, LockInv, SlotInv, DispatchInv, HoldsLock
  <2>2. QueueInv' /\ OpenInv' /\ MainInv' /\ FinishInv'
    BY <1>4, Quiet DEF IInv, vars, slotVars, HeadTaken, Open, Finishing
  <2> QED
    BY <2>1, <2>2 DEF IInv
<1> QED
  BY <1>1, <1>2, <1>3, <1>4 DEF Next

(* The inductive invariant holds throughout. *)
THEOREM Invariance == Spec => []IInv
<1> QED
  BY InitInv, NextInv, PTL DEF Spec

(* Type correctness, of the thread table above all: whatever a worker finds *)
(* in its slot when the unlocked test succeeds is a real buffer, never the  *)
(* garbage server_init left there.                                          *)
THEOREM TypeCorrect == Spec => []TypeOK
<1>1. IInv => TypeOK
  BY DEF IInv
<1> QED
  BY <1>1, Invariance, PTL

(* A mutex that is not free is held by a thread that is still inside.       *)
HeldInv == req_lock # NULL => \E t \in Threads : req_lock = t /\ HoldsLock(t)

LEMMA HeldStep == IInv /\ HeldInv /\ [Next]_vars => HeldInv'
<1> SUFFICES ASSUME IInv, HeldInv, [Next]_vars, req_lock' # NULL
             PROVE  \E t \in Threads : req_lock' = t /\ HoldsLock(t)'
  BY DEF HeldInv
<1> USE WorkerPoolAssumption
<1>1. PICK P : pc \in [Threads -> P]
  BY DEF IInv, TypeOK
<1>2. ASSUME req_lock' = req_lock, \A t \in Threads : HoldsLock(t) => HoldsLock(t)'
      PROVE  \E t \in Threads : req_lock' = t /\ HoldsLock(t)'
  BY <1>2 DEF HeldInv
<1>3. CASE UNCHANGED vars
  BY <1>2, <1>3 DEF vars, HoldsLock
<1>4. CASE PushTask \/ \E f \in Fds \ waiting, b \in Bufs : NewTask(f, b)
  BY <1>2, <1>4 DEF PushTask, NewTask, HoldsLock
<1>5. ASSUME NEW t \in Threads, Worker(t)
      PROVE  \E u \in Threads : req_lock' = u /\ HoldsLock(u)'
  <2> USE <1>1 DEF Goto
  <2>1. CASE LockToFinish(t) \/ TryLock(t)
    BY <2>1 DEF LockToFinish, TryLock, HoldsLock
  <2>2. CASE WipeSlot(t) \/ EndScan(t)
    BY <2>2 DEF WipeSlot, EndScan
  <2>3. CASE TakeWork(t) \/ NoWork(t) \/ Reply(t) \/ FreeKeyword(t) \/ LockBusy(t)
    BY <1>2, <2>3 DEF TakeWork, NoWork, Reply, FreeKeyword, LockBusy, HoldsLock
  <2>4. CASE ClearStat(t) \/ SkipSlot(t) \/ FillSlot(t) \/ PublishSlot(t) \/ PopRequest(t)
    BY <1>2, <2>4 DEF ClearStat, SkipSlot, FillSlot, PublishSlot, PopRequest, HoldsLock
  <2> QED
    BY <1>5, <2>1, <2>2, <2>3, <2>4 DEF Worker
<1> QED
  BY <1>3, <1>4, <1>5 DEF Next

(* A thread that waits in pthread_mutex_lock (finding, line 203;            *)
(* check_clients, line 380) waits for one other thread, which is inside a   *)
(* critical section, where nothing blocks: no path keeps the lock, and no   *)
(* two threads are inside together.                                         *)
THEOREM LockedByOneInside ==
  Spec => [](IF req_lock = NULL
             THEN \A t \in Threads : ~HoldsLock(t)
             ELSE /\ req_lock \in Threads
                  /\ \A t \in Threads : HoldsLock(t) <=> t = req_lock)
<1>1. Init => HeldInv
  BY DEF Init, HeldInv
<1>2. IInv /\ HeldInv =>
        IF req_lock = NULL
        THEN \A t \in Threads : ~HoldsLock(t)
        ELSE /\ req_lock \in Threads
             /\ \A t \in Threads : HoldsLock(t) <=> t = req_lock
  BY WorkerPoolAssumption DEF IInv, LockInv, HeldInv, Threads
<1> QED
  BY <1>1, <1>2, HeldStep, Invariance, PTL DEF Spec

(* Every answer is computed from the request of the connection it is        *)
(* written to, and the client of that connection waits for it.              *)
THEOREM AnswersGoHome == Spec => []RightRecipient
<1>1. IInv => RightRecipient
  BY DEF IInv, TypeOK, SlotInv, OpenInv, Open, Live, RightRecipient
<1> QED
  BY <1>1, Invariance, PTL

-----------------------------------------------------------------------------
(* No request and no buffer gets lost: IInv says what requests on their way *)
(* look like, Accounted that there are no others.                           *)
Holds(b) == \/ HeldByMain(b)
            \/ \E n \in DOMAIN reqs : HeldByQueue(n, b)
            \/ \E t \in Threads : HeldByThread(t, b)

OnItsWay(f) == \/ new_task # NULL /\ new_task.connfd = f
               \/ \E n \in Pending : reqs[n].connfd = f
               \/ \E t \in Threads : Open(t) /\ thread_fd[t] = f

Accounted == /\ \A f \in waiting : OnItsWay(f)
             /\ \A b \in Bufs : mem[b] # NULL => Holds(b)

LEMMA QuietAccounted ==
  ASSUME Accounted,
         UNCHANGED <<reqs, mem, new_task, waiting>>,
         HeadTaken' <=> HeadTaken,
         \A t \in Threads : /\ Open(t)' <=> Open(t)
                            /\ Finishing(t)' <=> Finishing(t),
         \A t \in Threads : Open(t) => /\ thread_fd'[t] = thread_fd[t]
                                      /\ thread_keyword'[t] = thread_keyword[t],
         \A t \in Threads : Finishing(t) => keyword'[t] = keyword[t]
  PROVE  Accounted'
<1>1. Pending' = Pending
  BY DEF Pending
<1>2. \A f : OnItsWay(f) => OnItsWay(f)'
  BY <1>1 DEF OnItsWay
<1>3. \A b : Holds(b) => Holds(b)'
  BY <1>1 DEF Holds, HeldByMain, HeldByQueue, HeldByThread
<1> QED
  BY <1>2, <1>3 DEF Accounted

LEMMA WorkerQuietAccounted ==
  ASSUME IInv, Accounted, NEW t \in Threads,
         \/ NoWork(t) \/ TakeWork(t) \/ LockToFinish(t) \/ ClearStat(t) \/ WipeSlot(t)
         \/ TryLock(t) \/ LockBusy(t) \/ SkipSlot(t) \/ FillSlot(t) \/ EndScan(t)
  PROVE  Accounted'
<1> USE WorkerPoolAssumption DEF Goto, slotVars, IInv, TypeOK
<1>1. CASE NoWork(t)
  BY <1>1, QuietAccounted DEF NoWork, HeadTaken, Open, Finishing
<1>2. CASE TakeWork(t)
  BY <1>2, QuietAccounted DEF TakeWork, HeadTaken, Open, Finishing
<1>3. CASE LockToFinish(t)
  BY <1>3, QuietAccounted DEF LockToFinish, HeadTaken, Open, Finishing
<1>4. CASE ClearStat(t)
  BY <1>4, QuietAccounted DEF ClearStat, HeadTaken, Open, Finishing
<1>5. CASE WipeSlot(t)
  BY <1>5, QuietAccounted DEF WipeSlot, SlotInv, HeadTaken, Open, Finishing
<1>6. CASE TryLock(t)
  BY <1>6, QuietAccounted DEF TryLock, HeadTaken, Open, Finishing
<1>7. CASE LockBusy(t)
  BY <1>7, QuietAccounted DEF LockBusy, HeadTaken, Open, Finishing
<1>8. CASE SkipSlot(t)
  BY <1>8, QuietAccounted DEF SkipSlot, HeadTaken, Open, Finishing
<1>9. CASE FillSlot(t)
  BY <1>9, QuietAccounted DEF FillSlot, Dispatchable, HeadTaken, Open, Finishing
<1>10. CASE EndScan(t)
  BY <1>10, QuietAccounted DEF EndScan, HeadTaken, Open, Finishing
<1> QED
  BY <1>1, <1>2, <1>3, <1>4, <1>5, <1>6, <1>7, <1>8, <1>9, <1>10

LEMMA NewTaskAccounted ==
  ASSUME IInv, Accounted, NEW f \in Fds \ waiting, NEW b \in Bufs, NewTask(f, b)
  PROVE  Accounted'
<1> USE WorkerPoolAssumption DEF NewTask, slotVars
<1>1. new_task' # NULL /\ new_task'.connfd = f /\ new_task'.input = b
  <2>1. [connfd |-> f, input |-> b] \in Node
    BY DEF Node
  <2> QED
    BY <2>1
<1>2. /\ new_task = NULL
      /\ UNCHANGED <<reqs, thread_fd, thread_keyword, keyword>>
      /\ Pending' = Pending
      /\ \A t \in Threads : Open(t)' <=> Open(t)
      /\ \A t \in Threads : Finishing(t)' <=> Finishing(t)
  BY DEF Pending, HeadTaken, Open, Finishing
<1>3. waiting' = waiting \cup {f} /\ \A c \in Bufs \ {b} : mem'[c] = mem[c]
  BY DEF IInv, TypeOK
<1> HIDE DEF NewTask
<1>4. OnItsWay(f)' /\ Holds(b)'
  BY <1>1 DEF OnItsWay, Holds, HeldByMain
<1>5. \A g : OnItsWay(g) => OnItsWay(g)'
  BY <1>2 DEF OnItsWay
<1>6. \A c : Holds(c) => Holds(c)'
  BY <1>2 DEF Holds, HeldByMain, HeldByQueue, HeldByThread
<1> QED
  BY <1>3, <1>4, <1>5, <1>6 DEF Accounted

LEMMA PushTaskAccounted == ASSUME IInv, Accounted, PushTask PROVE Accounted'
<1> USE WorkerPoolAssumption DEF PushTask, slotVars
<1> DEFINE last == Len(reqs) + 1
<1>1. /\ Len(reqs) \in Nat
      /\ DOMAIN reqs = 1 .. Len(reqs) /\ DOMAIN reqs' = 1 .. last
      /\ reqs'[last] = new_task
      /\ \A n \in 1 .. Len(reqs) : reqs'[n] = reqs[n]
  BY DEF IInv, TypeOK
<1>2. Pending' = Pending \cup {last} /\ Pending = 1 .. Len(reqs)
  BY <1>1 DEF Pending, HeadTaken, HoldsLock, IInv, LockInv, TypeOK, Threads
<1>3. \A t \in Threads : /\ Open(t)' <=> Open(t)
                         /\ Finishing(t)' <=> Finishing(t)
  BY DEF Open, Finishing
<1>4. \A f : OnItsWay(f) => OnItsWay(f)'
  BY <1>1, <1>2, <1>3 DEF OnItsWay
<1>5. \A b : Holds(b) => Holds(b)'
  BY <1>1, <1>2, <1>3 DEF Holds, HeldByMain, HeldByQueue, HeldByThread
<1> QED
  BY <1>4, <1>5 DEF Accounted

LEMMA ReplyAccounted ==
  ASSUME IInv, Accounted, NEW t \in Threads, Reply(t) PROVE Accounted'
<1> USE WorkerPoolAssumption DEF Reply, Goto, slotVars
<1>1. /\ Pending' = Pending /\ DOMAIN reqs' = DOMAIN reqs
      /\ \A s \in Threads : Open(s)' <=> Open(s) /\ s # t
      /\ \A s \in Threads : Finishing(s)' <=> Finishing(s) \/ s = t
      /\ keyword[t] = thread_keyword[t]
  BY DEF IInv, TypeOK, SlotInv, Pending, HeadTaken, Open, Finishing
<1>2. \A f : OnItsWay(f) /\ f # thread_fd[t] => OnItsWay(f)'
  BY <1>1 DEF OnItsWay
<1>3. \A b : Holds(b) => Holds(b)'
  BY <1>1 DEF Holds, HeldByMain, HeldByQueue, HeldByThread
<1> QED
  BY <1>2, <1>3 DEF Accounted

LEMMA FreeKeywordAccounted ==
  ASSUME IInv, Accounted, NEW t \in Threads, FreeKeyword(t) PROVE Accounted'
<1> USE WorkerPoolAssumption DEF FreeKeyword, Goto, slotVars
<1>1. /\ Pending' = Pending /\ DOMAIN reqs' = DOMAIN reqs
      /\ \A s \in Threads : Open(s)' <=> Open(s)
      /\ \A s \in Threads : Finishing(s)' <=> Finishing(s) /\ s # t
      /\ \A s \in Threads : Finishing(s)' => keyword'[s] = keyword[s]
  BY DEF IInv, TypeOK, SlotInv, Pending, HeadTaken, Open, Finishing, OpenInv
<1>2. \A f : OnItsWay(f) => OnItsWay(f)'
  BY <1>1 DEF OnItsWay
<1>3. \A b : Holds(b) /\ b # keyword[t] => Holds(b)'
  BY <1>1 DEF Holds, HeldByMain, HeldByQueue, HeldByThread
<1>4. \A b \in Bufs : mem'[b] # NULL => b # keyword[t] /\ mem[b] # NULL
  BY DEF IInv, TypeOK
<1> QED
  BY <1>2, <1>3, <1>4 DEF Accounted

LEMMA PublishSlotAccounted ==
  ASSUME IInv, Accounted, NEW t \in Threads, PublishSlot(t) PROVE Accounted'
<1> USE WorkerPoolAssumption DEF PublishSlot, Goto, slotVars
<1> DEFINE slot == idx[t]
<1>1. /\ slot \in Threads /\ thread_stat[slot] = 0 /\ reqs # <<>>
      /\ thread_fd[slot] = reqs[1].connfd /\ thread_keyword[slot] = reqs[1].input
      /\ pc[slot] \notin {"serve", "finish", "clear"}
  BY DEF IInv, DispatchInv, SlotInv
<1>2. ~HeadTaken /\ HeadTaken'
  BY DEF IInv, TypeOK, LockInv, HeadTaken, HoldsLock
<1>3. Pending = {1} \cup Pending' /\ 1 \in Pending
  BY <1>1, <1>2 DEF IInv, TypeOK, Pending
<1>4. /\ \A s \in Threads : Open(s)' <=> Open(s) \/ s = slot
      /\ \A s \in Threads : Finishing(s)' <=> Finishing(s)
  BY <1>1 DEF IInv, TypeOK, Open, Finishing
<1>5. \A f : OnItsWay(f) => OnItsWay(f)'
  BY <1>1, <1>3, <1>4 DEF OnItsWay
<1>6. \A b : Holds(b) => Holds(b)'
  BY <1>1, <1>3, <1>4 DEF Holds, HeldByMain, HeldByQueue, HeldByThread
<1> QED
  BY <1>5, <1>6 DEF Accounted

LEMMA PopRequestAccounted ==
  ASSUME IInv, Accounted, NEW t \in Threads, PopRequest(t) PROVE Accounted'
<1> USE WorkerPoolAssumption DEF PopRequest, Goto, slotVars
<1>1. /\ reqs # <<>> /\ Len(reqs) \in Nat
      /\ DOMAIN reqs = 1 .. Len(reqs) /\ DOMAIN reqs' = 1 .. Len(reqs) - 1
      /\ Len(reqs') = Len(reqs) - 1
      /\ \A n \in 1 .. Len(reqs) - 1 : reqs'[n] = reqs[n + 1]
  BY DEF IInv, TypeOK, DispatchInv
<1>2. HeadTaken /\ ~HeadTaken'
  BY DEF IInv, TypeOK, LockInv, HeadTaken, HoldsLock
<1>3. \A n \in Pending : /\ n - 1 \in Pending' /\ n - 1 \in DOMAIN reqs'
                         /\ reqs'[n - 1] = reqs[n]
  BY <1>1, <1>2 DEF Pending
<1>4. \A s \in Threads : /\ Open(s)' <=> Open(s)
                         /\ Finishing(s)' <=> Finishing(s)
  BY DEF IInv, TypeOK, Open, Finishing
<1>5. ASSUME NEW f, OnItsWay(f) PROVE OnItsWay(f)'
  BY <1>3, <1>4, <1>5 DEF OnItsWay
<1>6. ASSUME NEW b, Holds(b) PROVE Holds(b)'
  BY <1>3, <1>4, <1>6 DEF Holds, HeldByMain, HeldByQueue, HeldByThread
<1> QED
  BY <1>5, <1>6 DEF Accounted

LEMMA NextAccounted == IInv /\ Accounted /\ [Next]_vars => Accounted'
<1> SUFFICES ASSUME IInv, Accounted, [Next]_vars PROVE Accounted'
  OBVIOUS
<1>1. ASSUME NEW f \in Fds \ waiting, NEW b \in Bufs, NewTask(f, b) PROVE Accounted'
  BY <1>1, NewTaskAccounted
<1>2. CASE PushTask
  BY <1>2, PushTaskAccounted
<1>3. ASSUME NEW t \in Threads, Worker(t) PROVE Accounted'
  BY <1>3, WorkerQuietAccounted, ReplyAccounted, FreeKeywordAccounted,
     PublishSlotAccounted, PopRequestAccounted
  DEF Worker
<1>4. CASE UNCHANGED vars
  BY <1>4, QuietAccounted DEF vars, slotVars, HeadTaken, Open, Finishing
<1> QED
  BY <1>1, <1>2, <1>3, <1>4 DEF Next

LEMMA InitAccounted == Init => Accounted
BY DEF Init, Accounted

(* Every waiting client's request has a place, at every time: the part of   *)
(* NoLostRequest that is an invariant on top of IInv.                       *)
THEOREM Accounting == Spec => []Accounted
<1> QED
  BY InitAccounted, NextAccounted, Invariance, PTL DEF Spec

(* A request whose client waits is with the main thread, in the queue or in *)
(* a worker's slot: no interleaving of the finishing worker's stores with a *)
(* dispatcher's loses one.                                                  *)
THEOREM NothingLost == Spec => []NoLostRequest
<1>1. ASSUME IInv, Accounted PROVE NoLostRequest
  <2>1. ASSUME NEW f \in waiting PROVE f \in Arrived \cup Queued \cup Assigned
    <3>1. OnItsWay(f) /\ f \in Fds
      BY <1>1 DEF Accounted, IInv, TypeOK
    <3> QED
      BY <3>1 DEF OnItsWay, Arrived, Queued, Assigned
  <2>2. Arrived \cup Queued \cup Assigned \subseteq waiting
    BY <1>1 DEF IInv, MainInv, QueueInv, OpenInv, Live, Arrived, Queued, Assigned
  <2> QED
    BY <2>1, <2>2 DEF NoLostRequest
<1> QED
  BY <1>1, Invariance, Accounting, PTL

(* An input buffer is allocated exactly while somebody holds it, and has    *)
(* one holder: none is freed twice, used after its free, or leaked.         *)
THEOREM BuffersOwned == Spec => []OneOwner
<1>1. ASSUME IInv, Accounted PROVE OneOwner
  <2> SUFFICES ASSUME NEW b \in Bufs
               PROVE  /\ mem[b] # NULL <=> Holds(b)
                      /\ \A m, n \in DOMAIN reqs : HeldByQueue(m, b) /\ HeldByQueue(n, b) => m = n
                      /\ \A t, u \in Threads : HeldByThread(t, b) /\ HeldByThread(u, b) => t = u
                      /\ \A n \in DOMAIN reqs, t \in Threads :
                           ~(HeldByQueue(n, b) /\ HeldByThread(t, b))
                      /\ HeldByMain(b) => /\ \A n \in DOMAIN reqs : ~HeldByQueue(n, b)
                                          /\ \A t \in Threads : ~HeldByThread(t, b)
    BY DEF OneOwner, Holds
  <2> USE WorkerPoolAssumption
  <2>1. \A f, c : Live(f, c) => mem[c] = f /\ f # NULL
    BY <1>1 DEF IInv, TypeOK, Live
  <2>2. mem[b] # NULL <=> Holds(b)
    BY <1>1, <2>1 DEF IInv, Accounted, Holds, HeldByMain, HeldByQueue, HeldByThread,
                      QueueInv, OpenInv, MainInv, FinishInv
  <2>3. \A m, n \in DOMAIN reqs : HeldByQueue(m, b) /\ HeldByQueue(n, b) => m = n
    BY <1>1, <2>1 DEF IInv, HeldByQueue, QueueInv
  <2>4. \A t, u \in Threads : HeldByThread(t, b) /\ HeldByThread(u, b) => t = u
    BY <1>1, <2>1 DEF IInv, HeldByThread, OpenInv, FinishInv
  <2>5. \A n \in DOMAIN reqs, t \in Threads : ~(HeldByQueue(n, b) /\ HeldByThread(t, b))
    BY <1>1, <2>1 DEF IInv, HeldByQueue, HeldByThread, QueueInv, OpenInv, FinishInv
  <2>6. HeldByMain(b) => /\ \A n \in DOMAIN reqs : ~HeldByQueue(n, b)
                         /\ \A t \in Threads : ~HeldByThread(t, b)
    BY <1>1, <2>1 DEF IInv, HeldByMain, HeldByQueue, HeldByThread, MainInv,
                      QueueInv, OpenInv, FinishInv
  <2> QED
    BY <2>2, <2>3, <2>4, <2>5, <2>6
<1> QED
  BY <1>1, Invariance, Accounting, PTL

-----------------------------------------------------------------------------
(* The pool implements RequestService.                                      *)

\* A function on 1 .. m with values in S is a sequence over S of length m: what
\* the queue's views are built as.
LEMMA SeqOfFunction ==
  ASSUME NEW S, NEW m \in Nat, NEW q, DOMAIN q = 1 .. m, q = [n \in 1 .. m |-> q[n]],
         \A n \in 1 .. m : q[n] \in S
  PROVE  q \in Seq(S) /\ Len(q) = m
<1>1. q \in [1 .. m -> S]
  OBVIOUS
<1> QED
  BY <1>1

(* The abstract queue lists the pending requests, oldest first. *)
LEMMA QueueView ==
  ASSUME IInv
  PROVE  /\ Len(reqs) \in Nat /\ Offset \in {0, 1} /\ Offset <= Len(reqs)
         /\ ServiceQueue \in Seq(Fds)
         /\ Len(ServiceQueue) = Len(reqs) - Offset
         /\ Pending = (Offset + 1) .. Len(reqs)
         /\ \A n \in 1 .. Len(reqs) - Offset : ServiceQueue[n] = reqs[n + Offset].connfd
<1> USE WorkerPoolAssumption
<1>0. Len(reqs) \in Nat /\ \A n \in 1 .. Len(reqs) : reqs[n] \in Node
  BY DEF IInv, TypeOK
<1>1. Len(reqs) \in Nat /\ \A n \in 1 .. Len(reqs) : reqs[n].connfd \in Fds
  BY <1>0 DEF Node
<1>2. Offset \in {0, 1} /\ Offset <= Len(reqs) /\ Pending = (Offset + 1) .. Len(reqs)
  BY <1>1 DEF IInv, TypeOK, DispatchInv, HeadTaken, Offset, Pending
<1>3. Len(reqs) - Offset \in Nat
  BY <1>1, <1>2
<1>4. \A n \in 1 .. Len(reqs) - Offset : reqs[n + Offset].connfd \in Fds
  BY <1>1, <1>2
<1>5. ServiceQueue = [n \in 1 .. Len(reqs) - Offset |-> reqs[n + Offset].connfd]
  BY DEF ServiceQueue
<1>6. ServiceQueue \in Seq(Fds) /\ Len(ServiceQueue) = Len(reqs) - Offset
  BY <1>3, <1>4, <1>5, SeqOfFunction
<1> QED
  BY <1>1, <1>2, <1>5, <1>6

LEMMA InFlightView == ASSUME IInv PROVE Service!InFlight \subseteq waiting
<1>1. \A n \in DOMAIN ServiceQueue : ServiceQueue[n] \in waiting
  <2> SUFFICES ASSUME NEW n \in DOMAIN ServiceQueue PROVE ServiceQueue[n] \in waiting
    OBVIOUS
  <2>1. n \in 1 .. Len(reqs) - Offset /\ n + Offset \in Pending
    BY QueueView
  <2> QED
    BY <2>1, QueueView DEF IInv, QueueInv, Live
<1>2. Arrived \cup Assigned \subseteq waiting
  BY DEF IInv, MainInv, OpenInv, Live, Arrived, Assigned
<1> QED
  BY <1>1, <1>2 DEF Service!InFlight, Service!Queued

LEMMA QuietService ==
  ASSUME UNCHANGED <<reqs, new_task>>,
         HeadTaken' <=> HeadTaken,
         \A t \in Threads : Open(t)' <=> Open(t),
         \A t \in Threads : Open(t) => thread_fd'[t] = thread_fd[t]
  PROVE  UNCHANGED Service!vars
<1>1. ServiceQueue' = ServiceQueue
  BY DEF ServiceQueue, Offset
<1>2. Arrived' = Arrived /\ Assigned' = Assigned
  BY DEF Arrived, Assigned
<1> QED
  BY <1>1, <1>2 DEF Service!vars

LEMMA NewTaskService ==
  ASSUME IInv, NEW f \in Fds \ waiting, NEW b \in Bufs, NewTask(f, b)
  PROVE  Service!Arrive(f)
<1> USE WorkerPoolAssumption DEF NewTask, slotVars
<1>1. f \notin Service!InFlight
  BY InFlightView
<1>2. Arrived' = Arrived \cup {f}
  <2>1. [connfd |-> f, input |-> b] # NULL
    BY DEF Node
  <2> QED
    BY <2>1 DEF Arrived
<1>3. ServiceQueue' = ServiceQueue /\ Assigned' = Assigned
  BY DEF ServiceQueue, Offset, HeadTaken, Assigned, Open
<1> QED
  BY <1>1, <1>2, <1>3 DEF Service!Arrive

LEMMA PushTaskService == ASSUME IInv, PushTask PROVE \E f \in Fds : Service!Enqueue(f)
<1> USE WorkerPoolAssumption DEF PushTask, slotVars
<1> DEFINE f == new_task.connfd
           last == Len(reqs) + 1
<1>1. /\ new_task \in Node /\ f \in Fds /\ Arrived = {f} /\ Arrived' = {}
  BY DEF IInv, TypeOK, Node, Arrived
<1>2. /\ Len(reqs) \in Nat
      /\ Len(reqs') = last
      /\ reqs'[last] = new_task
      /\ \A n \in 1 .. Len(reqs) : reqs'[n] = reqs[n]
  BY DEF IInv, TypeOK
<1>3. Offset = 0 /\ Offset' = 0
  BY DEF IInv, TypeOK, LockInv, HoldsLock, HeadTaken, Offset, Threads
<1>4. /\ ServiceQueue = [n \in 1 .. Len(reqs) |-> reqs[n].connfd]
      /\ ServiceQueue' = [n \in 1 .. last |-> reqs'[n].connfd]
  BY <1>2, <1>3 DEF ServiceQueue
<1>5. ServiceQueue' = Append(ServiceQueue, f)
  <2>1. ServiceQueue \in Seq(Fds) /\ Len(ServiceQueue) = Len(reqs)
    BY <1>2, <1>3, QueueView
  <2>2. /\ Append(ServiceQueue, f) = [n \in 1 .. last |-> IF n = last THEN f ELSE ServiceQueue[n]]
    BY <2>1, <1>1
  <2>3. \A n \in 1 .. last : reqs'[n].connfd = IF n = last THEN f ELSE ServiceQueue[n]
    BY <1>2, <1>4
  <2> QED
    BY <2>2, <2>3, <1>4
<1>6. Assigned' = Assigned
  BY DEF Assigned, Open
<1> QED
  BY <1>1, <1>5, <1>6 DEF Service!Enqueue

LEMMA PublishSlotService ==
  ASSUME IInv, NEW t \in Threads, PublishSlot(t) PROVE Service!Assign
<1> USE WorkerPoolAssumption DEF PublishSlot, Goto, slotVars
<1> DEFINE slot == idx[t]
<1>1. /\ slot \in Threads /\ thread_stat[slot] = 0 /\ reqs # <<>>
      /\ thread_fd[slot] = reqs[1].connfd
      /\ pc[slot] \notin {"serve", "finish", "clear"}
  BY DEF IInv, DispatchInv, SlotInv
<1>2. ~HeadTaken /\ HeadTaken'
  BY DEF IInv, TypeOK, LockInv, HeadTaken, HoldsLock
<1>3. Offset = 0 /\ Offset' = 1 /\ Len(reqs) \in Nat \ {0}
  BY <1>1, <1>2 DEF Offset, IInv, TypeOK
<1>4. /\ ServiceQueue \in Seq(Fds) /\ Len(ServiceQueue) = Len(reqs)
      /\ \A n \in 1 .. Len(reqs) : ServiceQueue[n] = reqs[n].connfd
  BY <1>3, QueueView
<1>5. ServiceQueue # <<>> /\ Head(ServiceQueue) = thread_fd[slot]
  BY <1>1, <1>3, <1>4
<1>6. ServiceQueue' = Tail(ServiceQueue)
  <2>1. ServiceQueue' = [n \in 1 .. Len(reqs) - 1 |-> reqs[n + 1].connfd]
    BY <1>3 DEF ServiceQueue
  <2>2. /\ Tail(ServiceQueue) \in Seq(Fds)
        /\ Len(Tail(ServiceQueue)) = Len(reqs) - 1
        /\ \A n \in 1 .. Len(reqs) - 1 : Tail(ServiceQueue)[n] = ServiceQueue[n + 1]
    BY <1>3, <1>4, <1>5
  <2>3. \A n \in 1 .. Len(reqs) - 1 : ServiceQueue[n + 1] = reqs[n + 1].connfd
    BY <1>3, <1>4
  <2>4. \A n \in 1 .. Len(reqs) - 1 : ServiceQueue[n + 1] \in Fds
    BY <1>3, <1>4
  <2>5. \A n \in 1 .. Len(reqs) - 1 : ServiceQueue'[n] = ServiceQueue[n + 1]
    BY <2>1, <2>3
  <2>6. ServiceQueue' \in Seq(Fds) /\ Len(ServiceQueue') = Len(reqs) - 1
    BY <1>3, <2>1, <2>4, <2>5, SeqOfFunction
  <2> QED
    BY <2>2, <2>5, <2>6, SeqEqual
<1>7. Assigned' = Assigned \cup {thread_fd[slot]}
  <2>1. \A s \in Threads : Open(s)' <=> Open(s) \/ s = slot
    BY <1>1 DEF IInv, TypeOK, Open
  <2> QED
    BY <2>1, <1>1 DEF Assigned
<1>8. Arrived' = Arrived
  BY DEF Arrived
<1> QED
  BY <1>5, <1>6, <1>7, <1>8 DEF Service!Assign

LEMMA PopRequestService ==
  ASSUME IInv, NEW t \in Threads, PopRequest(t) PROVE UNCHANGED Service!vars
<1> USE WorkerPoolAssumption DEF PopRequest, Goto, slotVars
<1>1. /\ reqs # <<>> /\ Len(reqs) \in Nat \ {0}
      /\ Len(reqs') = Len(reqs) - 1
      /\ \A n \in 1 .. Len(reqs) - 1 : reqs'[n] = reqs[n + 1]
  BY DEF IInv, TypeOK, DispatchInv
<1>2. Offset = 1 /\ Offset' = 0
  BY DEF IInv, TypeOK, LockInv, HeadTaken, HoldsLock, Offset
<1>3. /\ ServiceQueue = [n \in 1 .. Len(reqs) - 1 |-> reqs[n + 1].connfd]
      /\ ServiceQueue' = [n \in 1 .. Len(reqs) - 1 |-> reqs'[n].connfd]
  BY <1>1, <1>2 DEF ServiceQueue
<1>4. ServiceQueue' = ServiceQueue
  BY <1>1, <1>3
<1>5. Arrived' = Arrived /\ Assigned' = Assigned
  BY DEF IInv, TypeOK, Arrived, Assigned, Open
<1> QED
  BY <1>4, <1>5 DEF Service!vars

LEMMA ReplyService ==
  ASSUME IInv, NEW t \in Threads, Reply(t) PROVE \E f \in Fds : Service!Answer(f)
<1> USE WorkerPoolAssumption DEF Reply, Goto, slotVars
<1>1. Open(t) /\ thread_fd[t] \in waiting
  BY DEF IInv, SlotInv, Open, OpenInv, Live
<1>2. \A s \in Threads : /\ Open(s)' <=> Open(s) /\ s # t
                         /\ Open(s) /\ s # t => thread_fd[s] # thread_fd[t]
  BY <1>1 DEF IInv, TypeOK, Open, OpenInv
<1>3. Assigned' = Assigned \ {thread_fd[t]} /\ thread_fd[t] \in Assigned
  BY <1>1, <1>2 DEF Assigned
<1>4. Arrived' = Arrived /\ ServiceQueue' = ServiceQueue
  BY DEF IInv, TypeOK, Arrived, ServiceQueue, Offset, HeadTaken
<1>5. thread_fd[t] \in Fds
  BY <1>1 DEF IInv, TypeOK
<1> QED
  BY <1>3, <1>4, <1>5 DEF Service!Answer

LEMMA WorkerQuietService ==
  ASSUME IInv, NEW t \in Threads,
         \/ NoWork(t) \/ TakeWork(t) \/ LockToFinish(t) \/ ClearStat(t) \/ WipeSlot(t)
         \/ FreeKeyword(t) \/ TryLock(t) \/ LockBusy(t) \/ SkipSlot(t) \/ FillSlot(t)
         \/ EndScan(t)
  PROVE  UNCHANGED Service!vars
<1> USE WorkerPoolAssumption DEF Goto, slotVars, IInv, TypeOK
<1>1. CASE NoWork(t)
  BY <1>1, QuietService DEF NoWork, HeadTaken, Open
<1>2. CASE TakeWork(t)
  BY <1>2, QuietService DEF TakeWork, HeadTaken, Open
<1>3. CASE LockToFinish(t)
  BY <1>3, QuietService DEF LockToFinish, HeadTaken, Open
<1>4. CASE ClearStat(t)
  BY <1>4, QuietService DEF ClearStat, HeadTaken, Open
<1>5. CASE WipeSlot(t)
  BY <1>5, QuietService DEF WipeSlot, SlotInv, HeadTaken, Open
<1>6. CASE FreeKeyword(t)
  BY <1>6, QuietService DEF FreeKeyword, HeadTaken, Open
<1>7. CASE TryLock(t)
  BY <1>7, QuietService DEF TryLock, HeadTaken, Open
<1>8. CASE LockBusy(t)
  BY <1>8, QuietService DEF LockBusy, HeadTaken, Open
<1>9. CASE SkipSlot(t)
  BY <1>9, QuietService DEF SkipSlot, HeadTaken, Open
<1>10. CASE FillSlot(t)
  BY <1>10, QuietService DEF FillSlot, Dispatchable, HeadTaken, Open
<1>11. CASE EndScan(t)
  BY <1>11, QuietService DEF EndScan, HeadTaken, Open
<1> QED
  BY <1>1, <1>2, <1>3, <1>4, <1>5, <1>6, <1>7, <1>8, <1>9, <1>10, <1>11

(* The pool implements the request service for any number of threads,       *)
(* connections and buffers: requests are assigned in the order of their     *)
(* arrival in the queue, none twice, and each is answered once.             *)
THEOREM Implements == Spec => ServiceSpec
<1>1. ASSUME Init PROVE Service!Init
  <2> USE <1>1, WorkerPoolAssumption DEF Init
  <2>1. Arrived = {} /\ Assigned = {}
    BY DEF Arrived, Assigned, Open
  <2>2. Offset = 0
    BY DEF Offset, HeadTaken
  <2>3. ServiceQueue = [n \in 1 .. 0 |-> reqs[n + Offset].connfd]
    BY <2>2 DEF ServiceQueue
  <2>4. ServiceQueue = <<>>
    BY <2>3
  <2> QED
    BY <2>1, <2>4 DEF Service!Init
<1>2. ASSUME IInv, [Next]_vars PROVE [Service!Next]_(Service!vars)
  <2> USE <1>2
  <2>1. ASSUME NEW f \in Fds \ waiting, NEW b \in Bufs, NewTask(f, b) PROVE Service!Next
    BY <2>1, NewTaskService DEF Service!Next
  <2>2. CASE PushTask
    BY <2>2, PushTaskService DEF Service!Next
  <2>3. ASSUME NEW t \in Threads, Worker(t) PROVE [Service!Next]_(Service!vars)
    BY <2>3, WorkerQuietService, PublishSlotService, PopRequestService, ReplyService
    DEF Worker, Service!Next
  <2>4. CASE UNCHANGED vars
    BY <2>4, QuietService DEF vars, slotVars, HeadTaken, Open
  <2> QED
    BY <2>1, <2>2, <2>3, <2>4 DEF Next
<1> QED
  BY <1>1, <1>2, Invariance, PTL DEF Spec, ServiceSpec, Service!Spec
=============================================================================
