# A TLA+ model of the event-based text search server

The server (`src/server_tc.c` with `src/csapp.c` and `src/strings/`) indexes the
text files of a directory at start-up and then answers `search <word>` requests
of TCP clients. One main thread runs a `select` loop and queues requests; ten
worker threads serve them, with a thread-caching allocator of their own for the
answers. This directory holds the specifications, what TLC checks about them
and what TLAPS proves.

## 1. The system

| Part | Source | State | Operations | Modelled by |
|---|---|---|---|---|
| Event loop, connection pool | `server_tc.c` 42-65, 276-411, 460-546; `csapp.c` | `pool` (`clientfd`, `clientrio`, `read_set`, `ready_set`, `nready`, `maxi`) | `init_pool`, `add_client`, `check_clients`, `rio_read_custom`, `select`/`accept` in `main` | `EventLoop` |
| Request queue | `server_tc.c` 73-114 | `req_init`, `req_last`, `req_num`, `req_lock` | `push_req_node`, `pop_req_node` | `WorkerPool` |
| Worker threads | `server_tc.c` 117-227 | `thread_stat`, `thread_fd`, `thread_keyword` | `finding` | `WorkerPool` |
| Page heap | `tc_malloc.c` 117-506, 1109-1132, 1199-1280 | `pagemap`, `DB`, span records | `alloc_pages`, `merge_spans`, `add_Span`, `search_tree` | `PageHeap` |
| Central lists, thread caches | `tc_malloc.c` 508-814, 898-1167, 1281-1327 | `central_cache`, `first_thread_cache` | `tc_thread_init`, `tc_malloc`, `tc_free`, `alloc_small_1..3` | `ThreadCache`, `SizeClass` |
| Inverted index | `linked_list.c` | the list of terms | `add_node`, `add_doc_node`, `add_line_node` | `InvertedIndex` |
| Start-up, search | `bootstrap.c` | - | `making_inverted_index`, `search_from_list`, `bootstrapping` | `Bootstrap`, `InvertedIndex` |
| Clients | `client_1.c`, `client_2.c` | one request in flight; `buf`, reused for every answer | connect, send, wait, print, leave | `EventLoop`, `Wire` |
| Answer format, robust I/O | `server_tc.c` 145-192, `strfun.c` 12-29, `csapp.c` 559-700 | `rio_t`, socket buffers | `string_merge_lots`, `rio_writen`, `rio_read`, `rio_readlineb` | `Wire` |
| Strings | `strfun.c` 79-294 | - | `string_length`, `make_lower`, `string_compare`, `token_num`, `string_token` | `Tokens` |
| Error reporting | `error.c` | - | prints | not modelled |

How they interact: the main thread and the workers share the queue and the
thread table, under `req_lock` except for a worker's test of its own slot
(line 135). Main thread, workers and kernel share descriptors, which are reused
after `Close`. Workers share the allocator under `s_lock`, except for their own
caches. The index is written before the first worker starts and only read
afterwards, so searching needs no interleaving.

What is hard:

- **Interleaving.** The slot test without lock; a finishing worker that wipes
  its slot against a dispatcher that fills it; a thread cache linked before its
  `tid` is written; `tc_free`, which finds a span in one critical section and
  uses it in the next.
- **Liveness.** There is no condition variable: idle workers spin on
  `trylock`, and the main thread competes with them for the mutex.
- **Reuse.** Descriptors, pool slots, input buffers, spans and objects all come
  back under an old name.
- **Failure.** Clients leave or die at any time, and many error paths end in
  `assert(0)`.
- **Framing.** An answer is one byte longer than its block and ends, for the
  client, at the first byte 0xFF, wherever it stands; reads and writes may be
  partial; bytes behind a line or a request are dropped.
- **Boundaries.** Borders of size classes, rounding to pages, end of file,
  `nready` and `maxi`, full tables.

`PROJECT.json` lists each hazard at its line, with the properties against it.

## 2. The modules

```
RequestService  <--implements--  WorkerPool  <-- WorkerPoolProofs <-- MCWorkerPool
RequestService  <--implements--  EventLoop   <-- EventLoopProofs, MCEventLoop
PageAllocator   <--implements--  PageHeap    <-- PageHeapProofs, MCPageHeap
Wire <-- WireProofs, MCWire
SizeClass <-- MCSizeClass
MCSizeClass, Tokens <-- MCFunctions <-- FunctionsProofs
SizeClass <-- ThreadCache <-- ThreadCacheProofs, MCThreadCache
InvertedIndex <-- Bootstrap <-- BootstrapProofs, MCBootstrap
DataLemmas <-- EventLoopProofs, WireProofs, PageHeapProofs, ThreadCacheProofs,
               BootstrapProofs, FunctionsProofs
```

**DataLemmas** has no state: facts about sums over a set, folds over a sequence,
sequences without repetition, and pages cut into places, that several proofs
need.

**RequestService** says what the request path promises: a request arrives on a
connection that has none in flight, is queued, is assigned in the order of the
queue, and is answered once, on its own connection.

**WorkerPool** is `finding()`, `push_req_node`, `pop_req_node` and the tail of
`check_clients`. `pc[t]` names the place of worker `t` in `finding`:

| `pc` | lines | actions |
|---|---|---|
| `top` | 135-144 | `TakeWork`, `NoWork` |
| `serve` | 145-201 | `Reply` |
| `finish`, `clear`, `wipe`, `free` | 203-208 | `LockToFinish`, `ClearStat`, `WipeSlot`, `FreeKeyword` |
| `try` | 214 | `TryLock`, `LockBusy` |
| `scan`, `publish`, `pop` | 215-224 | `SkipSlot`, `FillSlot`, `PublishSlot`, `PopRequest`, `EndScan` |

The grain is that of the unlocked test in line 135, which reads `thread_stat`
and, if it is 1, `thread_keyword`. `thread_stat` is the last store of a
dispatcher and the first of a finishing worker, so these two are steps of their
own; what they leave between them may be one step (two stores of `WipeSlot`
touch a slot only its own worker tests, and that worker is the one storing).
The program is built with `-g` and no optimisation, and its stores are seen in
program order on the machines it names; a weaker memory model is outside the
model. `thread_fd` and `thread_keyword` start as what `malloc` returned.
`mem` maps heap blocks to what they hold, so that a use after free or a leak
shows.

**EventLoop** is the main thread with its pool. Clients, the network and the
kernel are modelled by what the server sees: a backlog, a descriptor table that
gives out the lowest free number, and requests that arrive piece by piece. The
workers are those of `RequestService`: `Assign` and `Answer`. `AnswerFails` is
`Rio_writen` on a closed or dead connection, or on one whose socket buffer is
full (the sockets do not block, so `write` fails with EAGAIN), which ends in
`assert(0)`. A client that leaves with a byte unread may have its connection
reset instead of closed (`Hangup`); the next read of it is `ReadFails`, the
error branch of `check_clients` (lines 334-344), and ends the server too.
`Accept` contains all of `add_client`; one turn of `check_clients`' loop is one
action, chosen by what `rio_read_custom` returns: `CloseClient`, `ReadPart`,
`ReadRequest`. A rigid variable, `setup`, holds the circumstances of a run (how
many descriptors and slots there are, whether clients may die while they wait,
whether answers fit the socket's buffer and are read to the last byte), so that
one instance compares them; the properties say under which of them they hold.
`Wire` derives the last of these from the bytes.

**Wire** is one connection in bytes. `Packet` is the answer as `finding` and
`string_merge_lots` lay it out: two ints, the text, the end, and the byte behind
the block, of any value, that `total_length` counts too. `Write` is one `write`
of `rio_writen`, `WriteFails` its error. `ReceivePart` and `ReceiveLine` are
`rio_readlineb` over one `read` of `rio_read`: it stops at the first 0xFF or at
the end of the client's buffer, and `rio_readinitb` drops the rest. `buf` keeps
the header of the answer before, which `Shows` decides by. `Base`, `IntBytes`
and `MaxLine` are 256, 4 and 8192 in the code, and `Place` is what the bytes of
an int count (1, 256, ...); the instances shrink them so that a header with a
byte 0xFF and an answer longer than the buffer stay within reach. The variable
`plain` records whether every answer so far was `Clean`, that is, had one end
that the client can reach even when a byte of the answer before comes first;
what goes wrong without that is not excluded but shown. `RequestService` and `EventLoop`
count one answer per line: `Settled` is the reason they may.

**Tokens** has the string functions with each loop as a fold, over signed
characters and all terminators `string_length` knows.

**PageHeap** is the page level of the allocator. Everything under one hold of
`s_lock` is one action: `alloc_pages` appears as `TakeWhole` (a bin has the
size), `Split` (a larger span is cut) and `MapPages` (mmap), with the counters
as its caller leaves them; `FindSpan` and `FreeSpan` are the two critical
sections of `tc_free`. `merge_spans` joins a span with its free neighbours:
`Unlink` takes them out of their bins, `Insert` files the result in its place,
and `GivenBack` is the record the first part of `FreeSpan` leaves. The radix
tree is the function from pages to spans that it represents. `blocks` records what callers hold. **PageAllocator** is its
contract: a block is nobody else's, and only blocks handed out come back.

**SizeClass** computes, for a request, the class `tc_malloc` takes it from and
the class `tc_free` returns it to, from the sizes and comparisons of the code.
The tables `size_list_1..3` are arithmetic progressions and are given as such.

**ThreadCache** is the list of caches, each with its free lists and stored
lengths, and the central lists. `LinkCache` is what `tc_thread_init` does under
the lock, `WriteTid` what it does after it. `tc_malloc` is `Request` (the
search for the cache), then `TakeCached`, or `Refill` and `TakeFilled`;
`tc_free` is `FindSize`, `FindCache` and `Push`. A refill takes the first
`Batch` objects of the `Supply`, which is the rest of the last span followed by
what is `Carved` from new ones; `Store` writes one free list of a cache and its
length. `alloc_small_1`, `_2` and `_3`
are three copies of one algorithm, and the model has it once, with the class as
parameter.

Requests and returns of just 64 or 2048 bytes use index -1 of `list_2` and
`list_3`, and the model has what lies there (`struct thread_free_list`, lines
38-52, with pointers of 8 and ints of 4 bytes):

| written as | is also |
|---|---|
| `list_2[-1]` | `len_list_1[6]` and `len_list_1[7]` |
| `len_list_2[-1]` | the upper half of `list_2[30]` |
| `list_3[-1]` | `len_list_2[30]`, and four bytes of padding |
| `len_list_3[-1]` | the upper half of `list_3[119]` |
| the central lists at index -1 | the last ones of the array before, of the same size |

A list is kept as the objects its head led to when it was last written, and
`Addr` gives the two halves of an object's address. Whoever writes the head of a
list writes the lengths in its place (`Store`); whoever reads a head that a
length was written over (`Intact`) finds a pointer that leads to no object.
`PopNothing` is `*result_addr` then: a crash if the pointer is NULL, and `wild`
if it is not, where the model stops. If a later write happens to restore the
word, the list is back. An object pushed in front of a broken pointer keeps that
pointer behind it (`end`); the objects that the pointer led to before count as
lost. Every thread of the server calls `tc_thread_init` before it allocates, so
`tc_malloc`'s own call of it, for a thread without a cache, is never taken and
left out.

**InvertedIndex** holds the list operations as operators on sequences of nodes.
They trust `total_length`, as the loops of the code do. A word is a number in
dictionary order. **Bootstrap** is `making_inverted_index` over a set of files:
`getline`, `feof`, and the buffer that keeps its content when there is nothing
more to read. Of `bootstrapping` it has what becomes of a file: `SkipFile` for
one that is no text or cannot be opened, and `DocName` for two names that
`make_lower` makes one document. What the files say is stated apart from what is
read (`OnLine`, `Truth`, `DocsWith`); `Dropped` and `Phantom` name the two places
where the end of a file makes a difference.

## 3. What TLC checks

Properties marked * are also proved (section 5).

| Run | Instance | Shows |
|---|---|---|
| `pool` | 2 workers, 3 connections, 3 buffers | `TypeOK`*, `RightRecipient`*, `NoLostRequest`*, `OneOwner`*, `ServiceSpec`*, `EveryRequestAnswered` |
| `loop_safety` | 3 clients, 2 or 3 descriptors, 1 to 3 slots, clients that may die, answers that do not fit or are not read to the end, 2 workers, requests in 2 pieces | `RightClient`*, `BytesConserved`*, `PoolSound`*, `NoneForgotten`*, `NoAbort`* |
| `loop_liveness` | 3 clients, 2 workers, requests in one piece | `ServiceSpec`*, `EveryRequestAnswered`, `EveryLeaverClosed` |
| `wire` | 2 workers, 3 requests, bytes of 11 values, 3 networks | `Settled`*, `ShownRight`*, `NoAbort`*, `EveryRequestAnswered` |
| `page_heap` | 5 pages, bins of up to 3, 4 spans, 2 threads | `RadixExact`*, `BinsExact`*, `Coalesced`*, `HeapSpec`* |
| `functions` | all sizes up to 40000; all texts of up to 4 of 13 characters | `ClassSound`*, `SpanNotFree`*, `TokensRight`*, `CompareOrders`* |
| `thread_cache` | 2 threads, sizes 60, 64, 100 and 2000, batches of 1, 2 spans of 2 objects | `OwnCache`*, `NeverTwice`*, `NoneLost`*, `LengthsTrue`*, `LargeEnough`* |
| `bootstrap` | all pairs of files of up to 2 lines, 4 words in all (3 if they are one document), text or not | `DictionaryOrder`*, `CountsTrue`*, `IndexComplete`*, `SearchFindsDocs`* |

Each module of a component with state has a type invariant besides, also
proved. Four more runs are findings
(section 4).

### Why the bounds are enough

- *Pool.* With two workers there is a dispatcher that hands a request to
  itself, to the other, to an idle worker and to one that is just finishing;
  with three connections one request can be queued while two are served. With
  three buffers one of the two can be answered and not yet freed while two
  other requests are on their way; the proofs have no such limit.
- *Loop.* With three slots there is a slot in front of, at and behind the one
  that closes; two pieces make requests complete and incomplete; the setups of
  `AllSetups` have enough of everything, too few slots, too few descriptors,
  answers that do not fit or are not read to the end, and clients that die.
  `RightClient` and `BytesConserved` are about setups where nobody dies within a
  request: with deaths TLC finds an answer that goes to the wrong client, on a
  descriptor that was closed and given out again while its request was served.
  `MaxQueue` stops connections only where clients may die and come back while
  their requests stay in the queue. Deadlock is not checked in this run, since
  the server ends in some setups; `loop_liveness` has it.
- *Loop, liveness.* Three clients make rounds in which two are accepted and a
  third one is ready, so that `nready`, from which every accepted connection is
  deducted although `select` counted the listening socket once (line 296), runs
  out before its slot (`Short`). Such rounds can starve a client: let A wait in
  slot 4, X and Y sit in slots 0 and 1, and Z and W wait to be accepted. The
  round counts A, X and Y, who leave, and the listening socket: 4. It accepts Z
  and W, in slots 2 and 3, which leaves 2, closes X and Y, and ends. The next
  round does the same with the pairs exchanged. Each thread runs and
  everything is delivered, and A is never read. Hence the premise `<>[]~Short`
  of both properties: they hold unless short rounds recur for ever. The cycle
  takes five clients, more than TLC can check here; with three, short rounds
  occur and leave out a client that waits, but not for ever.
- *Wire.* Three requests: one whose answer has no end or two, one that is served
  out of step, and one after it. Queries are "no file", an answer that fits,
  one whose end the client only reaches if nothing is left over before it, and
  one that does not fit into the client's buffer nor into the small socket
  buffer; the byte behind the block is harmless or an end of line.
  The networks deliver whole or in pieces. Two workers can answer requests of
  one client in the wrong order, once the client is ahead.
- *Strings.* Four characters give two words with something between them; the
  characters are those on both sides of every bound the code compares with, the
  terminators, and a byte that is negative as a char.
- *Page heap.* A block of three pages can be split twice; spans have neighbours
  on both sides; and five adjacent free pages exceed `MaxBin`, so the last bin
  and its ordered insertion are reached. `MaxSpans` bounds the records, which
  the code never reuses, to four.
- *Thread caches.* Requests of 60 bytes have objects that come back at index
  -1, those of 64 bytes are taken from there as well; both write over the length
  of the class of 60. The class of 2000 bytes (2048) is returned to `list_3[-1]`
  and has its own length under that head, and its head over the length of
  `list_2[-1]`. The class of 100 bytes shares nothing: `NoneLost` and
  `LengthsTrue` are about it in this instance. A batch of one object from spans
  of two gives refills that leave a rest and refills that use it up. With
  batches of two the instance is out of reach (more than four million states
  with three sizes); `thread_cache_crash` has batches of two from spans of three,
  where a refill crosses from one span to the next, and the proofs have every
  batch, span and set of sizes. `MaxSpans` ends an instance after two spans.
- *Index.* A word on two lines, twice on a line, in one or both documents; a
  new first, middle and last term of a list of up to four.

### Fairness

`WorkerPool` assumes weak fairness of each worker, since the operating system
runs every thread, and strong fairness of `PushTask`: a thread blocked in
`pthread_mutex_lock` on a mutex that is freed again and again gets it
eventually. A futex-based mutex promises no more than chance there, and without
the assumption spinning workers may starve the main thread; the README of the
code does not discuss it. No fairness among workers is assumed for `trylock`,
and none is needed.

`EventLoop` assumes weak fairness of the main thread, of each worker (that a
request in the pool is answered is what `pool` shows) and of delivery
by the network. Clients owe nothing: they may leave or stay silent. Both
liveness properties have the premise `<>[]~Short` explained above: it is a
property of the traffic, not of the scheduler.

`Wire` assumes weak fairness of the server's reads, of each worker, and of the
client's read while it blocks in `rio_readlineb`. Nobody has to send or quit,
and a failing write is not fair: an aborted server is an outcome, never a duty.

Deadlock is checked in `pool` and `loop_liveness`. It is off
where the system, or the instance, really stops: an aborted server, a heap whose
address space is used up, a counter of sizes at its end, an index that is
complete.

## 4. Findings

Four runs state what the repository says and show that the code does otherwise.

| Run | The repository says | The code does |
|---|---|---|
| `wire_no_file` (`NoFileTrue`) | message type 32 means "there is no file" | an answer whose `total_length` has a byte 0xFF (255 bytes, say) is cut within its header, and the client decides by the type of the answer before |
| `thread_cache_crash` (`NoCrash`) | list 1 holds objects of "0 to 64bytes" | 64 is compared with `<`: such objects are freed to `list_2[-1]`, over a length of list 1; when that list is used up a worker dereferences NULL |
| `bootstrap_lines` (`AllLinesRead`) | `//read all lines`, of the loop that enters the words | a file that is one line without a newline is not in the index, and a last line with its newline is entered again under the number of a line that does not exist |
| `bootstrap_search` (`SearchLinesTrue`) | a result is a document and its line | documents after the first are reported with the first one's last line |

Other deviations are part of the models and have no run of their own. A client
that dies while a worker serves it makes the write of its answer fail, and
`unix_error`'s `assert(0)` ends the server; so does an answer larger than the
free space of the socket buffer, although `csapp.c` line 556 says "robustly
write n bytes". The byte behind an answer's block, if it comes after the client
read its line and the client then quits, may turn the end of the connection into a
reset, which ends the server at `server_tc.c` line 340; if it is 0xFF, the
client is one answer behind from then on. A large block
that is not a whole number of pages gets a page too few (`tc_malloc.c` lines
1112-1117 round down in both branches), although the `README.md` of the
repository calls the string library "overflow-safe": `LargeFits` fails for it,
and `OnlyWholePagesFit` says for which sizes. The documents of a term stay in
order of arrival, although `linked_list.c` line 81 announces order of frequency.

The passing properties are stated so that they hold of the code as it is:
`Settled`, `ShownRight` and `Wire`'s `NoAbort` speak of answers with one end and
of a socket buffer that takes them; `EventLoop`'s `NoAbort` of clients that live
and read to the last byte, answers that fit, and enough descriptors; its liveness
properties of runs in which short rounds end; `ClassSound` leaves out the sizes
`Borders` names, `NoneLost` and `LengthsTrue` the lists that share memory with
another one in use; `IndexComplete` and `SearchFindsDocs` the two places at the
end of a file where `AllLinesRead` fails (`Sure`); and `SearchFindsDocs` asks for
the lines of the first document only.

## 5. What is proved

**`WorkerPoolProofs`**, for every number of threads, connections and buffers,
from `WorkerPoolAssumption` alone: `TypeCorrect`, `AnswersGoHome`
(`RightRecipient`), `NothingLost` (`NoLostRequest`), `BuffersOwned`
(`OneOwner`), and `Implements` (the pool refines `RequestService`).

None of these invariants is inductive. That a worker answers the right client
depends on what all other requests on their way look like: a request still in
the queue must not name the connection of one that is being served. `IInv`
says it for each place a request can be in:

- `LockInv`: a thread inside a critical section is the one `req_lock` names;
- `SlotInv`: what a worker knows of its own slot while it serves and returns it;
- `DispatchInv`: what a dispatcher knows between the stores of one hand-over;
- `MainInv`, `QueueInv`, `OpenInv`: a request in the main thread, the queue or
  an open slot has a waiting client and an allocated buffer that holds it, and
  no other request has that client;
- `FinishInv`: a buffer whose request is answered is its worker's alone.

`HeadTaken` is the key notion: after a dispatcher published the head of the
queue and before it popped it, the head is linked but no longer queued. There
is one lemma per action (`TakeWorkStep`, ..., `PopRequestStep`), and the steps
that move no request share the lemma `Quiet`. `NothingLost` adds the invariant
`Accounted`, and `LockedByOneInside` the converse of `LockInv`: `req_lock` is held
by a thread that is inside a critical section, where nothing blocks. That is as
much of the absence of deadlock as can be said without `ENABLED`. `Implements` maps `NewTask` to `Arrive`, `PushTask` to `Enqueue`,
`PublishSlot` to `Assign`, `Reply` to `Answer`, and all else to stuttering:
`PopRequest` too, because the head left the abstract queue before.

**`FunctionsProofs`**, about requests: `ClassesSound` and `SpansHoldTwo`, for
every request size. The invariant is that `request` is a positive number; the
work is in the lemmas on rounding and one lemma per list. `SpansHoldTwo` is what
`PageHeapAssumption` asks of `ObjsPerSpan`, and what `BinsExact` needs so that a
span for small objects is never merged as a free one. `OnlyWholePagesFit`: a
large request fits its block if and only if it is a whole number of pages
(`LargeFits`, which no run checks, since it fails for all others).

About strings: `TokensAlwaysRight` (`TokensRight`) and `CompareAlwaysOrders`
(`CompareOrders`), for texts of any length and any characters; `CharsAssumption`
only says that characters are numbers. The loops of `strfun.c` are folds, and an
invariant of a loop says what it holds after `k` characters:

- `string_token` (`HasRead`) and `token_num` (`HasCounted`) know how many letters
  the text ends on so far, and have listed or counted the words that ended
  before. `LetterMore` and `RunEnds` are the two cases of the next character, and
  `FirstAndLast` the two ends: nothing has ended before the first character, and
  everything behind the terminator, which is no letter;
- `string_compare` is described by `Before`: the shorter string is a beginning of
  the other, or there is a first character that differs. `CompareIs` shows that
  the loop finds it, `NotBothBefore` and `BeforeIsTransitive` that it is a strict
  order, which `DictionaryOrder` presupposes of the words it compares.

The induction over `k` does not use the library's induction theorems, whose
operator parameter the provers cannot instantiate: `UpToAll` states it for a
*set* of numbers, and follows from the least number outside of it. `FoldExists`
turns a fold into the recursive function it is defined by.

**`EventLoopProofs`**, for every set of clients and descriptors, any pool and
queue, and any number of pieces a request comes in: `TypeCorrect`,
`PoolIsSound`, `NobodyForgotten`, `ServerStaysUp` (`NoAbort`), `AnswersGoRight`
(`RightClient`), `NoByteLost` (`BytesConserved`) and `OffersService`
(`ServiceSpec`). `EventLoopAssumption` asks that both sets are finite, as the
kernel's tables are, and that the value for "nobody" is none of the program's
records. The properties need each other, so `IInv` has most of them as parts:

- `ConnInv`, `OpenInv`: a client has one connection at most, in the backlog or
  accepted;
- `PoolSound` and `RoundInv`: descriptors and slots agree, and what `select`
  found ready is so until its turn comes, though other connections are accepted
  in between. These hold in every setup;
- `CallInv`: while nobody dies waiting, the requests read and not yet answered
  are of different connections, all still their clients', who wait. Without the
  condition a descriptor may be another client's by the time the answer is
  written, and TLC shows that this happens;
- `ByteInv`: the pieces on the wire, in the socket and in the slot's buffer add
  up to one request if the client waits and none of its requests was read, and
  to none otherwise. So no second request can be read from a waiting client,
  which is what `CallInv` needs;
- `WholeInv`: where nobody dies within a request and answers are read to the last
  byte, no byte is ever left unread, so no connection is reset and no read fails;
- `NoneForgotten` and `NoAbort`: when there are slots and descriptors for all
  clients, `accept` finds a descriptor and `add_client` a slot, by the lemma
  `Pigeonhole`.

`OffersService` maps the read that completes a request to `Arrive`, `PushTask`
to `Enqueue`, and the workers' steps to `Assign` and `Answer`.

**`WireProofs`**, for every size of bytes, ints and buffers, any answers and
networks, and any number of workers and requests: `TypeCorrect`,
`ClientSettled` (`Settled`), `ShowsTheAnswer` (`ShownRight`) and
`ServerSurvives` (`NoAbort`). `WireAssumption` asks of the numbers what 256, 4
and 8192 satisfy: a header with its answer's end fits into the client's buffer,
and no line is so long that its length needs the highest byte of an int.

- `StepInv`: while answers are clean, the client's request is in one of four
  places: `Nowhere`, `Asked` (on its way or in the queue), `Composed` (in one
  worker's hands as a whole answer) or `Sent`. In all of them, what the client
  has not consumed, its line and the socket together, is at most one byte left
  over, which is no end, followed in `Sent` by the one answer. `ReceivePart`
  moves bytes from the socket to the line and leaves the two together alone;
- `LineOfAnswer` says where `rio_readlineb` then stops: at the end of the text,
  however the bytes arrived, so that at most the byte behind the block remains;
- `ShownOf` says what the client makes of it: the answer, or nothing if a byte
  was left over, because the highest byte of `total_length`, a zero, then lies
  where the type's lowest byte is looked for;
- `RoomForAll`: a socket buffer that takes an answer behind one byte takes all
  of it in one `write`, so none fails; `LinkInv` adds that nobody closes or
  resets the connection of a client that stays.

`WrongNoFileNeedsEOF` complements the finding `wire_no_file`: while answers are
clean and the socket buffer takes them whole, "No file" is printed only when the
server found none, however the network cuts an answer.

The proof corrected the model. `Clean` first allowed an answer that ends on the
last byte of the client's buffer; behind a byte left over such an answer is cut
one byte early, and `Settled` fails. The bounds now include that length.

**`PageHeapProofs`**, for every number of threads, pages, bins and records and
all request sizes: `TypeCorrect`, `TreeIsExact` (`RadixExact`), `BinsAreExact`,
`NoFragmentation` (`Coalesced`), and `KeepsPromise` (`HeapSpec`: the page heap
implements `PageAllocator`). The inductive core:

- the radix tree names, for every page, the one current span that has it, and a
  span that is named has just the pages between its ends. `alloc_pages` and
  `merge_spans` change records that the tree still names, so this must hold of
  the records, not only of what is handed out;
- a span is in a bin, under its size and once, if and only if its counters say
  it is free: `tc_free` and `merge_spans` look at neighbours only through their
  counters;
- a span for small objects always has more than one object (`SpansHoldTwo`), so
  its counters never read as a free span's;
- a span that `tc_free` found in its first critical section and has not returned
  in its second is in no bin and in nobody's hands, so nobody merges it away in
  between.

**`ThreadCacheProofs`**, for every number of threads, all small sizes, every
batch and span size: `TypeCorrect`, `OwnCacheOnly`, `NoObjectTwice`
(`NeverTwice`), `NoObjectLost` (`NoneLost`), `LengthsStayTrue` (`LengthsTrue`),
`AlwaysLargeEnough` (`LargeEnough`). A *shelf* is a free list of a cache or a
central list, and the invariant speaks of shelves:

- `OwnInv`: every cache was made by one thread, which works on no other. A cache
  that is linked and has no `tid` yet is found by nobody, so the last match and
  the first are the thread's own;
- `CarvedInv`: every object anywhere was cut from a span, and the objects of a
  shelf are of its size, those at index -1 with them. That a request and a
  return of one size meet lists for that size is the lemma `ClassOf`;
- `ApartInv`: shelves, callers and objects on their way back share nothing. This
  holds whatever happens at index -1: a head that was written over leads to no
  object, so nothing can be taken twice through it;
- `KeptInv`: of the sizes whose lists share no memory with another list in use,
  shelves, callers and returns have every object. The counting form of
  `NeverTwice` and `NoneLost` follows by `AtMostOne`;
- `LengthInv`: the length of such a list is true, and behind its last object
  there is NULL. Without it a refill could drop a list it takes for empty, and
  `NoneLost` would not be inductive. `StoreFacts` has the reason: to write one
  list changes no length but its own and those under its head.

No size is excluded: `ThreadCacheAssumption` asks for sizes of 1 to `MaxSmall`
bytes. `CrashNeedsBorder` complements the finding `thread_cache_crash`: where no
two lists in use share memory (`Untouched = Classes`), `NoCrash` holds. Lists at
index -1 are the only cause.

**`BootstrapProofs`**, for any words, any number of files, any number of lines
of a file and words of a line: `TypeCorrect`, `Ordered` (`DictionaryOrder`),
`Counted` (`CountsTrue`), `Complete` (`IndexComplete`) and `SearchTrue`
(`SearchFindsDocs`). The bounds `MaxLines`, `MaxWords` and `MaxTotal` are any
numbers here, so they exclude no directory. There are two arguments, one about
the data and one about the reader.

- The data: `LinesOK`, `DocsOK` and `TermsOK` say of a list of each kind that
  the length in its first node is true, that no two nodes have one key, and that
  the lists within are right too. `AddLine`, `AddDoc` and `AddNode` show
  that an insertion keeps this, adds one to the count of its word, document and
  line (`LineCount`, `DocCount`, `TermCount`), and leaves every other count
  alone. The three ways a new term can be linked in share the lemma `NewTerm`.
  The properties' own sums, folds over the lists, are the sums of these lemmas
  by `LineSum`, `DocSum` and `OccurrencesAre`.
- The reader: `IInv` says what the index has counted before the end. `Entered`
  is the number of times a word of a line was entered so far: all of a file read
  before, all of an earlier line of this file, of the current line the words
  before `i`, and nothing of a later one. `Position` says where `getline` stands,
  and that is where the last line's second number comes from: `line_num` is the
  number of lines read, and one more when the end was found after a newline,
  with the last line still in the buffer. What is entered of a file in the end
  is `Expected`, a notion of the proof only; `SureIsTrue` shows that it is the
  `Truth`, what the files say, at every line where no file ends, and that is what
  `Complete` and `SearchTrue` state.
- `Limit`: no line above the current one was entered of this file, so that a new
  line goes behind all others and the lines of a document ascend. This is false
  of files that are one document (`alike`); of those `LinesOK` only says that no
  line is listed twice.

`Complete` complements the finding `bootstrap_lines`: `AllLinesRead` fails only
where a file ends. `WrongLineNeedsTwoDocs` complements `bootstrap_search`: while
no word stands in two documents, the word is on every line a search names, but
for the line behind the end of a file.

Only model-checked: liveness (`EveryRequestAnswered`, `EveryLeaverClosed`), which
is out of the prover's reach, as is `ENABLED`, and with it the absence of
deadlock. Every safety invariant and every refinement of a passing run is proved.

## 6. Not modelled

- The branch of `alloc_pages` for more than 255 pages. A request of that size
  would need an answer of more than 1000 results, and `result[1000]`
  (`server_tc.c` line 121) overflows before it. Exhausted metadata and a failing
  `mmap`, which end the process.
- The copying functions of `strfun.c` (`string_copy`, `string_merge`,
  `get_ext`), which keep no state.
- The directory walk itself (`opendir`, `readdir`, `stat`: file system I/O),
  `error.c` (prints), the garbage collector of `tc_malloc.c` and the `delete_`
  functions of `linked_list.c` (never called), and the functions of `csapp.c`
  that only pass a system call on.
- Clients that send a second request before the answer to the first on their
  own account, and requests above the 8192 bytes of the buffer, which never
  become complete: the clients of the repository do neither. (`Wire` has the
  case where a client got ahead because an answer had two ends.)

## 7. Plan

The order of the modules follows the importance of what they model: request
path (`RequestService`, `WorkerPool`, `EventLoop`, `Wire`), allocator
(`PageHeap`, `SizeClass`, `ThreadCache`), index (`Tokens`, `InvertedIndex`,
`Bootstrap`). These exist. Next:

1. `push_req_node` and `pop_req_node` on linked nodes, refining the sequence
   `WorkerPool` uses; the same for the bins of `PageHeap`.
2. What a document's lines are when files share its name: two ascending series
   of numbers, of which `SearchFindsDocs` only says that none comes twice.
