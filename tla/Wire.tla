-------------------------------- MODULE Wire --------------------------------
(***************************************************************************)
(* One connection between a client and the server, byte by byte: the       *)
(* format of an answer (finding of server_tc.c, string_merge_lots of       *)
(* strings/strfun.c), the robust I/O of csapp.c that writes and reads it,  *)
(* and the loop of client_1.c and client_2.c that sends a request and      *)
(* waits for a line.                                                       *)
(*                                                                         *)
(* A line ends with the byte 0xFF, a char EOF.  An answer is a header of   *)
(* two ints, total_length and message_type, and a text; total_length       *)
(* counts one byte more than the block that string_merge_lots filled, so   *)
(* the byte behind the block is sent as well.  A query is named by tot_len *)
(* of its answer, 0 when there is no file, and the text of an answer is    *)
(* that number again and again.                                            *)
(***************************************************************************)
EXTENDS Integers, Sequences, FiniteSetsExt, SequencesExt

CONSTANTS
  Base,      \* 256, the values of a byte
  IntBytes,  \* 4, the bytes of an int
  Place,     \* 1, 256, 256^2, 256^3: what each of them counts
  MaxLine,   \* MAXLINE and RIO_BUFSIZE
  Result,    \* 17, the message_type of a result
  NoFile,    \* 32, the message_type when there is none
  Lens,      \* the queries
  Strays,    \* what the byte behind an answer's block may hold
  Nets,      \* the networks, see Net
  OldTypes,  \* message_type of the client's buffer before its first answer
  NWorkers,  \* workers that may serve the connection
  MaxReqs    \* req_num of client_1: requests of a client, at most

EOF == Base - 1
HeaderLen == 2 * IntBytes
Byte == 0 .. EOF

(* Free space of the server's socket buffer, and whether what one write     *)
(* sends is received in one piece.                                          *)
Net == [room : Nat \ {0}, whole : BOOLEAN]

ASSUME WireAssumption ==
  /\ Base \in Nat /\ Base > 2 /\ IntBytes \in Nat \ {0}
  /\ Place \in [1 .. IntBytes -> Nat \ {0}] /\ Place[1] = 1
  /\ \A k \in 2 .. IntBytes : Place[k] = Base * Place[k - 1]
  /\ MaxLine \in Nat /\ MaxLine > HeaderLen + 2
  /\ Place[IntBytes] > MaxLine   \* no line needs the highest byte of its length
  /\ {Result, NoFile} \subseteq 1 .. EOF - 1 /\ Result # NoFile
  /\ Lens \subseteq {0} \cup 2 .. EOF - 1
  /\ Strays \subseteq Byte /\ Nets \subseteq Net /\ OldTypes \subseteq Byte
  /\ NWorkers \in Nat \ {0} /\ MaxReqs \in Nat

Workers == 1 .. NWorkers

-----------------------------------------------------------------------------
(* The answers.                                                             *)

(* The bytes of an int, the lowest first. *)
IntOf(n) == [k \in 1 .. IntBytes |-> (n \div Place[k]) % Base]

Header(total_length, message_type) == IntOf(total_length) \o IntOf(message_type)

(* The text of an answer of length q, as string_merge_lots leaves it. *)
Text(q) == [k \in 1 .. q |-> IF k < q THEN q ELSE EOF]

(* Fault: the byte EOF of "no file" is not written. *)
Packet_NoEnd(q, s) ==
  IF q = 0 THEN Header(HeaderLen + 1, NoFile) \o <<0>>
  ELSE Header(HeaderLen + q + 1, Result) \o Text(q) \o <<s>>

(* Fault: total_length counts two bytes too many. *)
Packet_TwoMore(q, s) ==
  IF q = 0 THEN Header(HeaderLen + 1, NoFile) \o <<EOF>>
  ELSE Header(HeaderLen + q + 2, Result) \o Text(q) \o <<s, s>>

(* What a worker writes for query q, with s behind the block. *)
Packet(q, s) ==
  IF q = 0 THEN Header(HeaderLen + 1, NoFile) \o <<EOF>>
  ELSE Header(HeaderLen + q + 1, Result) \o Text(q) \o <<s>>

(* An answer the client can find the end of: it fits into the client's      *)
(* buffer, even behind a byte that was left over, and no other byte of it   *)
(* is EOF.                                                                  *)
Clean(p) == /\ \E n \in 1 .. MaxLine - 2 : n \in DOMAIN p /\ p[n] = EOF
            /\ Cardinality({n \in DOMAIN p : p[n] = EOF}) = 1

-----------------------------------------------------------------------------
VARIABLES
  net,    \* the network, which does not change
  left,   \* requests the client has yet to send
  cpc,    \* the client: idle, read (Rio_readlineb), or quit
  query,  \* the client's last query
  line,   \* what rio_readlineb has copied to buf of the current line
  buf,    \* the client's buf, its header and the byte behind it
  shown,  \* what the client made of its last line: a text, NoFileMsg or Nothing
  up,     \* requests sent and not read by the server
  reqs,   \* the request queue, as far as this connection goes
  out,    \* what each worker has yet to write
  pipe,   \* bytes written by the server and not read by the client
  reset,  \* did the connection break (RST), rather than end?
  spc,    \* the server's side: up, closed, or down after an assert(0)
  plain   \* for the properties: were all answers so far clean?

clientVars == <<left, cpc, query, line, buf, shown>>
serverVars == <<reqs, out, spc, plain>>
vars == <<net, clientVars, up, serverVars, pipe, reset>>

(* What the client may print, beside a text: that there is no file, or      *)
(* nothing.                                                                 *)
NoFileMsg == -1
Nothing   == -2

Init ==
  /\ net \in Nets
  /\ left \in 0 .. MaxReqs
  /\ cpc = "idle" /\ query = 0 /\ shown = NoFileMsg /\ line = <<>>
  /\ \E t \in OldTypes : buf = Header(0, t) \o <<0>>   \* never initialised
  /\ up = <<>> /\ reqs = <<>> /\ pipe = <<>>
  /\ out = [w \in Workers |-> <<>>]
  /\ reset = FALSE /\ spc = "up" /\ plain = TRUE

-----------------------------------------------------------------------------
(* The client.                                                              *)

(* rio_readinitb forgets what an earlier read brought in behind its line;   *)
(* ReceiveLine drops it already, as nobody looks at it in between.          *)
SendRequest ==
  /\ cpc = "idle" /\ left > 0
  /\ \E q \in Lens : query' = q /\ up' = Append(up, q)
  /\ left' = left - 1
  /\ cpc' = "read"
  /\ UNCHANGED <<net, line, buf, shown, serverVars, pipe, reset>>

(* What one read() of rio_read may return. *)
Arrivals == IF net.whole THEN {Min({Len(pipe), MaxLine})}
            ELSE 1 .. Min({Len(pipe), MaxLine})

(* Fault: the length of buf is not looked at. *)
Ends_NoLimit(s) == {k \in DOMAIN s : s[k] = EOF}

(* Where the line ends: at a byte EOF, or when buf is full. *)
Ends(s) == {k \in DOMAIN s : s[k] = EOF \/ k = MaxLine - 1}

(* buf after s and the 0 behind it were stored in it. *)
Stored(s) == [k \in DOMAIN buf |-> IF k <= Len(s) THEN s[k]
                                   ELSE IF k = Len(s) + 1 THEN 0 ELSE buf[k]]

(* What the client makes of its buffer. *)
Shows(b) == CASE SubSeq(b, IntBytes + 1, HeaderLen) = IntOf(NoFile) -> NoFileMsg
              [] SubSeq(b, IntBytes + 1, HeaderLen) = IntOf(Result) -> b[HeaderLen + 1]
              [] OTHER -> Nothing

ReceivePart ==
  /\ cpc = "read" /\ pipe # <<>>
  /\ \E n \in Arrivals : LET s == line \o SubSeq(pipe, 1, n) IN
       /\ Ends(s) = {}
       /\ line' = s
       /\ pipe' = SubSeq(pipe, n + 1, Len(pipe))
  /\ UNCHANGED <<net, left, cpc, query, buf, shown, up, serverVars, reset>>

(* Fault: no rio_readinitb before the next request. *)
ReceiveLine_KeepRest ==
  /\ cpc = "read" /\ pipe # <<>>
  /\ \E n \in Arrivals : LET s == line \o SubSeq(pipe, 1, n) IN
       /\ Ends(s) # {}
       /\ buf' = Stored(SubSeq(s, 1, Min(Ends(s))))
       /\ pipe' = SubSeq(pipe, Min(Ends(s)) - Len(line) + 1, Len(pipe))
  /\ line' = <<>>
  /\ shown' = Shows(buf')
  /\ cpc' = "idle"
  /\ UNCHANGED <<net, left, query, up, serverVars, reset>>

ReceiveLine ==
  /\ cpc = "read" /\ pipe # <<>>
  /\ \E n \in Arrivals : LET s == line \o SubSeq(pipe, 1, n) IN
       /\ Ends(s) # {}
       /\ buf' = Stored(SubSeq(s, 1, Min(Ends(s))))
       /\ pipe' = SubSeq(pipe, n + 1, Len(pipe))
  /\ line' = <<>>
  /\ shown' = Shows(buf')
  /\ cpc' = "idle"
  /\ UNCHANGED <<net, left, query, up, serverVars, reset>>

(* The server is gone and all it wrote was read: rio_readlineb returns what *)
(* it has, and the next write ends the client.                              *)
ReceiveEnd ==
  /\ cpc = "read" /\ pipe = <<>> /\ spc = "down"
  /\ buf' = IF line = <<>> THEN buf ELSE Stored(line)
  /\ line' = <<>>
  /\ shown' = Shows(buf')
  /\ cpc' = "quit"
  /\ UNCHANGED <<net, left, query, up, serverVars, pipe, reset>>

(* The client's loop is over, or its user says quit.  The kernel resets a   *)
(* connection that is closed with bytes unread; those still on their way    *)
(* may come too late for that.                                              *)
Quit ==
  /\ cpc = "idle"
  /\ cpc' = "quit"
  /\ reset' \in {FALSE, pipe # <<>>}
  /\ UNCHANGED <<net, left, query, line, buf, shown, up, serverVars, pipe>>

-----------------------------------------------------------------------------
(* The server.                                                              *)

(* check_clients reads all there is, takes the first request and drops what *)
(* lies behind it.  (Requests in pieces: see EventLoop.)                    *)
ReadRequest ==
  /\ spc = "up" /\ up # <<>>
  /\ reqs' = Append(reqs, Head(up))
  /\ up' = <<>>
  /\ UNCHANGED <<net, clientVars, out, spc, plain, pipe, reset>>

ReadEnd ==
  /\ spc = "up" /\ cpc = "quit" /\ ~reset /\ up = <<>>
  /\ spc' = "closed"
  /\ UNCHANGED <<net, clientVars, up, reqs, out, plain, pipe, reset>>

(* ECONNRESET is not EWOULDBLOCK: Close and assert(0). *)
ReadReset ==
  /\ spc = "up" /\ reset
  /\ spc' = "down"
  /\ UNCHANGED <<net, clientVars, up, reqs, out, plain, pipe, reset>>

(* Fault: the request stays in the queue. *)
Compose_NoPop(w) ==
  /\ spc # "down" /\ out[w] = <<>> /\ reqs # <<>>
  /\ \E s \in Strays :
       /\ out' = [out EXCEPT ![w] = Packet(Head(reqs), s)]
       /\ plain' = (plain /\ Clean(Packet(Head(reqs), s)))
  /\ UNCHANGED <<net, clientVars, up, reqs, spc, pipe, reset>>

Compose(w) ==
  /\ spc # "down" /\ out[w] = <<>> /\ reqs # <<>>
  /\ \E s \in Strays :
       /\ out' = [out EXCEPT ![w] = Packet(Head(reqs), s)]
       /\ plain' = (plain /\ Clean(Packet(Head(reqs), s)))
  /\ reqs' = Tail(reqs)
  /\ UNCHANGED <<net, clientVars, up, spc, pipe, reset>>

Free == net.room - Len(pipe)

(* One write() of rio_writen: as much as there is room for.  Nobody reads   *)
(* what is sent to a client that quit; its kernel answers with a reset.     *)
Write(w) ==
  LET n == Min({Free, Len(out[w])}) IN
  /\ spc = "up" /\ ~reset /\ out[w] # <<>> /\ Free > 0
  /\ out' = [out EXCEPT ![w] = SubSeq(@, n + 1, Len(@))]
  /\ pipe' = pipe \o SubSeq(out[w], 1, n)
  /\ reset' = (cpc = "quit")
  /\ UNCHANGED <<net, clientVars, up, reqs, spc, plain>>

(* EAGAIN, as the socket does not block; or an error, as it is broken or    *)
(* closed.  Rio_writen calls unix_error, which ends in assert(0).           *)
WriteFails(w) ==
  /\ spc # "down" /\ out[w] # <<>>
  /\ spc = "closed" \/ reset \/ Free <= 0
  /\ spc' = "down"
  /\ UNCHANGED <<net, clientVars, up, reqs, out, plain, pipe, reset>>

-----------------------------------------------------------------------------
Client == SendRequest \/ ReceivePart \/ ReceiveLine \/ ReceiveEnd \/ Quit

Server == \/ ReadRequest \/ ReadEnd \/ ReadReset
          \/ \E w \in Workers : Compose(w) \/ Write(w) \/ WriteFails(w)

Next == Client \/ Server

Spec == Init /\ [][Next]_vars

(* The server's threads run, the network delivers and the client takes what *)
(* it waits for; nobody has to send a request or to quit.                   *)
FairSpec == /\ Spec
            /\ WF_vars(ReceivePart \/ ReceiveLine)
            /\ WF_vars(ReadRequest)
            /\ \A w \in Workers : WF_vars(Compose(w)) /\ WF_vars(Write(w))

-----------------------------------------------------------------------------
(* The kernel takes a whole answer behind one byte that was left over. *)
Roomy == \A q \in Lens : Len(Packet(q, 0)) < net.room

(* Type invariant; a line in the making is shorter than the client's buffer. *)
TypeOK ==
  /\ net \in Nets /\ left \in 0 .. MaxReqs
  /\ cpc \in {"idle", "read", "quit"} /\ query \in Lens \cup {0}
  /\ line \in Seq(Byte) /\ Len(line) < MaxLine - 1
  /\ buf \in Seq(Byte) /\ Len(buf) = HeaderLen + 1
  /\ shown \in Byte \cup {NoFileMsg, Nothing}
  /\ up \in Seq(Lens) /\ reqs \in Seq(Lens)
  /\ out \in [Workers -> Seq(Byte)] /\ pipe \in Seq(Byte)
  /\ reset \in BOOLEAN /\ spc \in {"up", "closed", "down"} /\ plain \in BOOLEAN

(* While answers are clean, a client that is not waiting owes nothing and   *)
(* is owed nothing, except for the one byte behind its last answer: each    *)
(* line it read was one answer (client_1.c lines 69-71 against server_tc.c  *)
(* line 185).  RequestService and EventLoop take this for granted.          *)
Settled ==
  plain /\ Roomy /\ cpc = "idle" =>
    /\ up = <<>> /\ reqs = <<>> /\ \A w \in Workers : out[w] = <<>>
    /\ Len(pipe) <= 1

(* While answers are clean, what a client shows is the answer to its last   *)
(* query; if the byte behind the previous answer came late, and only then,  *)
(* it may show nothing at all (client_1.c lines 73-83).                     *)
ShownRight ==
  plain /\ Roomy /\ cpc = "idle" =>
    \/ shown = (IF query = 0 THEN NoFileMsg ELSE query)
    \/ ~net.whole /\ shown = Nothing

(* While answers are clean and received in one piece, clients that send     *)
(* their requests and quit do not end the server (server_tc.c line 340).    *)
NoAbort == plain /\ Roomy /\ net.whole => spc # "down"

(* While the server is up, no client waits for ever: not even when its      *)
(* lines ran ahead of the answers and the server dropped a request with the *)
(* bytes behind an earlier one (server_tc.c lines 363-365).                 *)
EveryRequestAnswered == (cpc = "read") ~> (cpc # "read" \/ spc = "down")

(* "No file" is printed when the server found none (client_1.c lines 73-75). *)
NoFileTrue == cpc = "idle" /\ shown = NoFileMsg => query = 0
=============================================================================
