------------------------------ MODULE WireProofs ------------------------------
(***************************************************************************)
(* The connection between a client and the server for bytes and ints of    *)
(* any size, any buffers, answers and networks, and any number of workers. *)
(*                                                                         *)
(* While all answers have one end, a request is in one place at a time:    *)
(* with the client, on its way, in the queue, in the hands of one worker   *)
(* as a whole answer, or, as an answer, between the worker's write and the *)
(* end of the client's line.  What makes this hard is the byte behind the  *)
(* block of each answer: the client may have left it in the socket, so     *)
(* that it comes first in its next line.                                   *)
(***************************************************************************)
EXTENDS Wire, DataLemmas

Good == plain /\ Roomy

(* What an answer may leave behind for the next line. *)
Leftovers == {<<>>} \cup {<<b>> : b \in Byte \ {EOF}}

Leftover(l) == l \in Leftovers /\ (net.whole => l = <<>>)

(* Two sequences, one behind the other; the proofs need it folded.          *)
Joined(a, b) == a \o b

(* Bytes the client will see before those still to be written. *)
Unread == Joined(line, pipe)

Silent == \A w \in Workers : out[w] = <<>>

(* Where the request of the client can be.                                  *)
Nowhere == /\ cpc # "read" /\ up = <<>> /\ reqs = <<>> /\ Silent
           /\ line = <<>> /\ Leftover(pipe)

Asked == /\ cpc = "read" /\ Silent /\ Leftover(Unread) /\ query \in Lens
         /\ \/ up = <<query>> /\ reqs = <<>>
            \/ up = <<>> /\ reqs = <<query>>

Composed == /\ cpc = "read" /\ up = <<>> /\ reqs = <<>> /\ Leftover(Unread) /\ query \in Lens
            /\ \E w \in Workers, s \in Strays :
                 /\ Clean(Packet(query, s))
                 /\ out[w] = Packet(query, s) /\ \A v \in Workers \ {w} : out[v] = <<>>

Sent == /\ cpc = "read" /\ up = <<>> /\ reqs = <<>> /\ Silent /\ query \in Lens
        /\ \E l \in Leftovers, s \in Strays :
             /\ Clean(Packet(query, s))
             /\ Leftover(l) /\ Unread = Joined(l, Packet(query, s))

StepInv == Good => Nowhere \/ Asked \/ Composed \/ Sent

(* Nobody closes or breaks the connection of a client that has not left.    *)
LinkInv ==
  Good => /\ cpc # "quit" => spc = "up" /\ ~reset
          /\ net.whole => spc # "down" /\ ~reset

(* A whole answer is never cut: no part of a line is kept.                  *)
WholeInv == Good /\ net.whole => line = <<>>

IInv == TypeOK /\ StepInv /\ LinkInv /\ WholeInv /\ ShownRight
-----------------------------------------------------------------------------
(* The bytes of an answer.                                                  *)

Total(q) == HeaderLen + q + 1
Kind(q)  == IF q = 0 THEN NoFile ELSE Result
EndOf(q) == HeaderLen + (IF q = 0 THEN 1 ELSE q)

LEMMA Sizes ==
  /\ Base \in Nat \ {0} /\ EOF \in Byte /\ EOF \in Nat /\ 0 \in Byte /\ 0 # EOF
  /\ IntBytes \in Nat /\ IntBytes >= 2 /\ HeaderLen \in Nat /\ HeaderLen = IntBytes + IntBytes
  /\ MaxLine \in Nat /\ MaxLine > HeaderLen + 2
  /\ Byte \subseteq Nat /\ Strays \subseteq Byte /\ Lens \subseteq Byte /\ EOF \notin Lens
  /\ NoFile \in Byte /\ Result \in Byte
<1>1. IntBytes # 1
  BY WireAssumption DEF HeaderLen
<1> QED
  BY <1>1, WireAssumption DEF EOF, Byte, HeaderLen

LEMMA IntFacts ==
  ASSUME NEW n \in Nat
  PROVE  /\ IntOf(n) \in Seq(Byte) /\ Len(IntOf(n)) = IntBytes
         /\ \A k \in 1 .. IntBytes : IntOf(n)[k] = (n \div Place[k]) % Base
<1>1. ASSUME NEW k \in 1 .. IntBytes PROVE (n \div Place[k]) % Base \in Byte
  <2>1. PICK d \in Nat \ {0} : d = Place[k]
    BY <1>1, WireAssumption
  <2>2. PICK m \in Nat : m = n \div d
    BY RowAndPlace
  <2>3. m % Base \in 0 .. Base - 1
    BY Sizes, RowAndPlace
  <2> QED
    BY <2>1, <2>2, <2>3 DEF Byte, EOF
<1>2. IntOf(n) \in [1 .. IntBytes -> Byte]
  BY <1>1 DEF IntOf
<1>3. IntOf(n) \in Seq(Byte) /\ Len(IntOf(n)) = IntBytes
  BY <1>2, Sizes, SeqOfFunction
<1> QED
  BY <1>3 DEF IntOf

(* The lowest byte of a small int is its value. *)
LEMMA LowestByte == ASSUME NEW v \in Byte PROVE IntOf(v)[1] = v
<1>1. v \in Nat /\ v < Base /\ 1 \in 1 .. IntBytes /\ Place[1] = 1
  BY Sizes, WireAssumption DEF Byte, EOF
<1>2. IntOf(v)[1] = (v \div 1) % Base
  BY <1>1, IntFacts
<1>3. v \div 1 = v
  BY <1>1, Z3
<1>4. v % Base = v
  BY <1>1, Sizes, Z3
<1> QED
  BY <1>2, <1>3, <1>4

(* The highest byte of a length is 0. *)
LEMMA HighestByte == ASSUME NEW n \in Nat, n <= MaxLine PROVE IntOf(n)[IntBytes] = 0
<1>1. IntBytes \in 1 .. IntBytes /\ Place[IntBytes] \in Nat \ {0} /\ n < Place[IntBytes]
  BY Sizes, WireAssumption
<1>2. PICK d \in Nat \ {0} : d = Place[IntBytes]
  BY <1>1
<1>3. n \div d \in Nat
  BY RowAndPlace
<1>4. n \div d < 1
  <2>1. 1 \in Nat /\ n < 1 * d
    BY <1>1, <1>2
  <2> QED
    BY <2>1, RowWithin
<1>5. n \div d = 0
  BY <1>3, <1>4
<1>6. 0 % Base = 0
  BY Sizes, Z3
<1> QED
  BY <1>1, <1>2, <1>5, <1>6, IntFacts

LEMMA PacketFacts ==
  ASSUME NEW q \in Lens, NEW s \in Byte
  PROVE  /\ Packet(q, s) \in Seq(Byte) /\ Len(Packet(q, s)) = Total(q) /\ Total(q) \in Nat
         /\ \A k \in 1 .. IntBytes : /\ Packet(q, s)[k] = IntOf(Total(q))[k]
                                     /\ Packet(q, s)[IntBytes + k] = IntOf(Kind(q))[k]
         /\ EndOf(q) \in 1 .. Total(q) /\ Packet(q, s)[EndOf(q)] = EOF
         /\ EndOf(q) >= HeaderLen + 1 /\ Total(q) <= EndOf(q) + 1
         /\ q # 0 => Packet(q, s)[HeaderLen + 1] = q
<1> DEFINE t == IntOf(Total(q))
           m == IntOf(Kind(q))
           h == t \o m
           b == IF q = 0 THEN <<EOF>> ELSE Text(q) \o <<s>>
           n == IF q = 0 THEN 1 ELSE q + 1
<1>1. /\ q \in Nat /\ q # 1 /\ Total(q) \in Nat /\ Kind(q) \in Nat /\ q < EOF
      /\ HeaderLen \in Nat /\ IntBytes \in Nat /\ HeaderLen = IntBytes + IntBytes /\ IntBytes >= 2
  <2>1. q \in Nat /\ q # 1 /\ q < EOF
    BY WireAssumption, Sizes DEF EOF
  <2> QED
    BY <2>1, Sizes DEF Total, Kind
<1>2. Packet(q, s) = h \o b
  <2>1. CASE q = 0
    BY <2>1, <1>1 DEF Packet, Header, Total, Kind
  <2>2. CASE q # 0
    <3>1. Packet(q, s) = h \o Text(q) \o <<s>>
      BY <2>2 DEF Packet, Header, Total, Kind
    <3>2. Text(q) \in Seq(Byte)
      <4>1. Text(q) \in [1 .. q -> Byte]
        BY <1>1, Sizes DEF Text
      <4> QED
        BY <1>1, <4>1, SeqOfFunction
    <3>3. t \in Seq(Byte) /\ m \in Seq(Byte) /\ <<s>> \in Seq(Byte)
      BY <1>1, IntFacts
    <3>4. h \in Seq(Byte)
      BY <3>3, ConcatProperties
    <3> HIDE DEF h
    <3> QED
      BY <2>2, <3>1, <3>2, <3>3, <3>4, ConcatAssociative
  <2> QED
    BY <2>1, <2>2
<1>3. /\ t \in Seq(Byte) /\ Len(t) = IntBytes
      /\ m \in Seq(Byte) /\ Len(m) = IntBytes
  BY <1>1, IntFacts
<1>4. /\ b \in Seq(Byte) /\ Len(b) = n /\ n \in Nat
      /\ b[EndOf(q) - HeaderLen] = EOF /\ EndOf(q) - HeaderLen \in 1 .. n
      /\ q # 0 => b[1] = q
  <2>1. CASE q = 0
    BY <1>1, <2>1, Sizes DEF EndOf
  <2>2. CASE q # 0
    <3>1. Text(q) \in [1 .. q -> Byte] /\ Text(q)[q] = EOF /\ Text(q)[1] = q
      BY <1>1, <2>2, Sizes DEF Text
    <3>2. Text(q) \in Seq(Byte) /\ Len(Text(q)) = q /\ <<s>> \in Seq(Byte) /\ Len(<<s>>) = 1
      BY <1>1, <3>1, SeqOfFunction
    <3>3. /\ Text(q) \o <<s>> \in Seq(Byte) /\ Len(Text(q) \o <<s>>) = q + 1
          /\ \A k \in 1 .. q + 1 : (Text(q) \o <<s>>)[k] = IF k <= q THEN Text(q)[k] ELSE <<s>>[k - q]
      BY <3>2, ConcatProperties
    <3>4. 1 \in 1 .. q + 1 /\ q \in 1 .. q + 1 /\ 1 <= q
      BY <1>1, <2>2
    <3>5. EndOf(q) - HeaderLen = q
      BY <1>1, <2>2 DEF EndOf
    <3> QED
      BY <1>1, <2>2, <3>1, <3>3, <3>4, <3>5
  <2> QED
    BY <2>1, <2>2
<1> HIDE DEF t, m, b
<1>5. /\ h \in Seq(Byte) /\ Len(h) = HeaderLen
      /\ \A k \in 1 .. HeaderLen : h[k] = IF k <= IntBytes THEN t[k] ELSE m[k - IntBytes]
  <2>1. /\ h \in Seq(Byte) /\ Len(h) = Len(t) + Len(m)
        /\ \A k \in 1 .. Len(t) + Len(m) : h[k] = IF k <= Len(t) THEN t[k] ELSE m[k - Len(t)]
    BY <1>3, ConcatProperties
  <2>2. Len(t) + Len(m) = HeaderLen
    BY <1>1, <1>3
  <2> HIDE DEF h
  <2> QED
    BY <1>3, <2>1, <2>2
<1> HIDE DEF h, n
<1>6. /\ h \o b \in Seq(Byte) /\ Len(h \o b) = HeaderLen + n
      /\ \A k \in 1 .. HeaderLen + n : (h \o b)[k] = IF k <= HeaderLen THEN h[k] ELSE b[k - HeaderLen]
  <2>1. /\ h \o b \in Seq(Byte) /\ Len(h \o b) = Len(h) + Len(b)
        /\ \A k \in 1 .. Len(h) + Len(b) : (h \o b)[k] = IF k <= Len(h) THEN h[k] ELSE b[k - Len(h)]
    BY <1>4, <1>5, ConcatProperties
  <2> QED
    BY <1>4, <1>5, <2>1
<1>7. HeaderLen + n = Total(q) /\ EndOf(q) \in 1 .. Total(q) /\ EndOf(q) >= HeaderLen + 1
      /\ Total(q) <= EndOf(q) + 1
  BY <1>1 DEF Total, EndOf, n
<1>8. ASSUME NEW k \in 1 .. IntBytes
      PROVE  (h \o b)[k] = t[k] /\ (h \o b)[IntBytes + k] = m[k]
  <2>1. /\ k \in 1 .. HeaderLen /\ k \in 1 .. HeaderLen + n /\ k <= HeaderLen /\ k <= IntBytes
        /\ IntBytes + k \in 1 .. HeaderLen /\ IntBytes + k \in 1 .. HeaderLen + n
        /\ IntBytes + k <= HeaderLen /\ ~(IntBytes + k <= IntBytes) /\ IntBytes + k - IntBytes = k
    BY <1>1, <1>4
  <2>2. (h \o b)[k] = h[k] /\ (h \o b)[IntBytes + k] = h[IntBytes + k]
    BY <1>6, <2>1
  <2>3. h[k] = t[k]
    BY <1>5, <2>1
  <2>4. \A j \in 1 .. HeaderLen : ~(j <= IntBytes) => h[j] = m[j - IntBytes]
    BY <1>5
  <2>5. PICK j \in 1 .. HeaderLen : j = IntBytes + k
    BY <2>1
  <2>6. j - IntBytes = k /\ ~(j <= IntBytes)
    BY <1>1, <2>1, <2>5
  <2>7. h[j] = m[k]
    BY <2>4, <2>6
  <2> QED
    BY <2>2, <2>3, <2>5, <2>7
<1>9. (h \o b)[EndOf(q)] = EOF
  <2>1. EndOf(q) \in 1 .. HeaderLen + n /\ ~(EndOf(q) <= HeaderLen)
    BY <1>1, <1>7
  <2> QED
    BY <1>4, <1>6, <2>1
<1>10. q # 0 => (h \o b)[HeaderLen + 1] = q
  <2>1. HeaderLen + 1 \in 1 .. HeaderLen + n /\ ~(HeaderLen + 1 <= HeaderLen)
        /\ HeaderLen + 1 - HeaderLen = 1
    BY <1>1, <1>7
  <2>2. \A j \in 1 .. HeaderLen + n : ~(j <= HeaderLen) => (h \o b)[j] = b[j - HeaderLen]
    BY <1>6
  <2>3. PICK j \in 1 .. HeaderLen + n : j = HeaderLen + 1
    BY <2>1
  <2>4. j - HeaderLen = 1 /\ ~(j <= HeaderLen)
    BY <1>1, <2>1, <2>3
  <2>5. (h \o b)[j] = b[1]
    BY <2>2, <2>4
  <2> QED
    BY <1>4, <2>3, <2>5
<1> QED
  BY <1>1, <1>2, <1>6, <1>7, <1>8, <1>9, <1>10 DEF t, m

(* A clean answer has one end, where the text has it, and room in front.    *)
LEMMA CleanFacts ==
  ASSUME NEW q \in Lens, NEW s \in Byte, Clean(Packet(q, s))
  PROVE  /\ EndOf(q) <= MaxLine - 2 /\ Total(q) <= MaxLine - 1
         /\ \A k \in 1 .. Total(q) : Packet(q, s)[k] = EOF => k = EndOf(q)
<1> DEFINE p == Packet(q, s)
           E == {k \in DOMAIN p : p[k] = EOF}
<1>1. /\ p \in Seq(Byte) /\ Len(p) = Total(q) /\ Total(q) \in Nat
      /\ EndOf(q) \in 1 .. Total(q) /\ p[EndOf(q)] = EOF /\ Total(q) <= EndOf(q) + 1
  BY PacketFacts
<1> HIDE DEF p
<1>2. DOMAIN p = 1 .. Total(q)
  BY <1>1, LenProperties
<1>3. Cardinality(E) = 1 /\ \E n \in 1 .. MaxLine - 2 : n \in E
  BY DEF Clean, p
<1>4. IsFiniteSet(E)
  <2>1. IsFiniteSet(1 .. Total(q))
    BY <1>1, FS_Interval
  <2> QED
    BY <1>2, <2>1, FS_Subset
<1>5. PICK e : E = {e}
  <2> HIDE DEF E
  <2> QED
    BY <1>3, <1>4, FS_Singleton
<1>6. EndOf(q) \in E
  BY <1>1, <1>2
<1>7. \A k \in E : k = EndOf(q)
  BY <1>5, <1>6
<1>8. EndOf(q) \in 1 .. MaxLine - 2
  BY <1>3, <1>7
<1>9. \A k \in 1 .. Total(q) : p[k] = EOF => k = EndOf(q)
  BY <1>2, <1>7
<1> HIDE DEF E
<1> QED
  BY <1>1, <1>8, <1>9, Sizes DEF p
-----------------------------------------------------------------------------
(* What a read brings.                                                      *)

LEMMA LesserOf == ASSUME NEW a \in Nat, NEW b \in Nat PROVE Min({a, b}) = IF a <= b THEN a ELSE b
<1>1. {a, b} \in SUBSET Nat /\ {a, b} # {}
  OBVIOUS
<1>2. Min({a, b}) \in {a, b} /\ \A y \in {a, b} : Min({a, b}) <= y
  BY <1>1, MinOfNat
<1> QED
  BY <1>2

LEMMA ArrivalFacts ==
  ASSUME TypeOK, pipe # <<>>, NEW n \in Arrivals
  PROVE  /\ n \in 1 .. Len(pipe) /\ Len(pipe) \in Nat
         /\ net.whole /\ Len(pipe) <= MaxLine => n = Len(pipe)
<1>1. Len(pipe) \in Nat \ {0} /\ MaxLine \in Nat \ {0}
  BY Sizes, EmptySeq DEF TypeOK
<1>2. PICK a \in Nat, b \in Nat : a = Len(pipe) /\ b = MaxLine
  BY <1>1
<1>3. Min({a, b}) = IF a <= b THEN a ELSE b
  BY LesserOf
<1>4. n \in IF net.whole THEN {Min({a, b})} ELSE 1 .. Min({a, b})
  BY <1>2 DEF Arrivals
<1> QED
  BY <1>1, <1>2, <1>3, <1>4

LEMMA StoredFacts ==
  ASSUME TypeOK, NEW s \in Seq(Byte)
  PROVE  /\ Stored(s) \in Seq(Byte) /\ Len(Stored(s)) = HeaderLen + 1
         /\ \A k \in 1 .. HeaderLen + 1 : k <= Len(s) => Stored(s)[k] = s[k]
<1>1. /\ DOMAIN buf = 1 .. HeaderLen + 1 /\ HeaderLen + 1 \in Nat
      /\ \A k \in 1 .. HeaderLen + 1 : buf[k] \in Byte
  BY Sizes, LenProperties, ElementOfSeq DEF TypeOK
<1>2. Len(s) \in Nat /\ \A k \in 1 .. Len(s) : s[k] \in Byte
  BY LenProperties, ElementOfSeq
<1>3. Stored(s) \in [1 .. HeaderLen + 1 -> Byte]
  BY <1>1, <1>2, Sizes DEF Stored
<1> QED
  BY <1>1, <1>3, SeqOfFunction DEF Stored

LEMMA ShowsFacts ==
  ASSUME NEW b \in Seq(Byte), Len(b) = HeaderLen + 1
  PROVE  /\ Shows(b) \in Byte \cup {NoFileMsg, Nothing}
         /\ (\A k \in 1 .. IntBytes : b[IntBytes + k] = IntOf(NoFile)[k]) => Shows(b) = NoFileMsg
         /\ (\A k \in 1 .. IntBytes : b[IntBytes + k] = IntOf(Result)[k]) => Shows(b) = b[HeaderLen + 1]
         /\ b[IntBytes + 1] = 0 => Shows(b) = Nothing
<1> DEFINE t == SubSeq(b, IntBytes + 1, HeaderLen)
<1>1. /\ IntBytes \in Nat /\ IntBytes >= 2 /\ HeaderLen \in Nat /\ HeaderLen = IntBytes + IntBytes
      /\ NoFile \in Nat /\ Result \in Nat
  BY Sizes
<1>2. \A k \in 1 .. HeaderLen + 1 : b[k] \in Byte
  BY ElementOfSeq
<1>3. t \in Seq(Byte) /\ Len(t) = IntBytes /\ \A k \in 1 .. IntBytes : t[k] = b[IntBytes + k]
  <2>1. PICK i \in Int, j \in Int : i = IntBytes + 1 /\ j = HeaderLen
    BY <1>1
  <2>2. \A k \in i .. j : b[k] \in Byte
    BY <1>1, <1>2, <2>1
  <2>3. /\ t \in Seq(Byte) /\ Len(t) = IF i <= j THEN j - i + 1 ELSE 0
        /\ \A k \in 1 .. j - i + 1 : t[k] = b[i + k - 1]
    BY <2>1, <2>2, SubSeqProperties
  <2> HIDE DEF t
  <2>4. i <= j /\ j - i + 1 = IntBytes
    BY <1>1, <2>1
  <2>5. \A k \in 1 .. IntBytes : i + k - 1 = IntBytes + k
    BY <1>1, <2>1
  <2> QED
    BY <2>3, <2>4, <2>5
<1> HIDE DEF t
<1>4. ASSUME NEW v \in Nat
      PROVE  (\A k \in 1 .. IntBytes : b[IntBytes + k] = IntOf(v)[k]) <=> t = IntOf(v)
  <2>1. IntOf(v) \in Seq(Byte) /\ Len(IntOf(v)) = IntBytes
    BY IntFacts
  <2>2. ASSUME \A k \in 1 .. IntBytes : b[IntBytes + k] = IntOf(v)[k] PROVE t = IntOf(v)
    BY <1>3, <2>1, <2>2, SeqEqual
  <2> QED
    BY <1>3, <2>2
<1>5. NoFile # 0 /\ Result # 0 /\ NoFile # Result
  BY WireAssumption
<1>6. 1 \in 1 .. IntBytes /\ IntOf(NoFile)[1] = NoFile /\ IntOf(Result)[1] = Result
  BY <1>1, Sizes, LowestByte
<1>7. IntOf(NoFile) # IntOf(Result)
  BY <1>5, <1>6
<1>8. b[IntBytes + 1] = 0 => t # IntOf(NoFile) /\ t # IntOf(Result)
  BY <1>3, <1>5, <1>6
<1>9. Shows(b) = CASE t = IntOf(NoFile) -> NoFileMsg
                   [] t = IntOf(Result) -> b[HeaderLen + 1]
                   [] OTHER -> Nothing
  BY DEF Shows, t
<1>10. HeaderLen + 1 \in 1 .. HeaderLen + 1
  BY <1>1
<1> QED
  BY <1>1, <1>2, <1>4, <1>7, <1>8, <1>9, <1>10
-----------------------------------------------------------------------------
(* The line the client reads.                                               *)

LEMMA LeftoverFacts ==
  ASSUME NEW l \in Leftovers
  PROVE  /\ l \in Seq(Byte) /\ Len(l) \in {0, 1} /\ (Len(l) = 0 => l = <<>>)
         /\ \A k \in 1 .. Len(l) : l[k] # EOF
<1>1. CASE l = <<>>
  BY <1>1
<1>2. CASE l # <<>>
  <2>1. PICK b \in Byte \ {EOF} : l = <<b>>
    BY <1>2 DEF Leftovers
  <2> QED
    BY <2>1
<1> QED
  BY <1>1, <1>2

(* What was left over is no line. *)
LEMMA NoLineYet ==
  ASSUME NEW s \in Seq(Byte), NEW r \in Seq(Byte), Joined(s, r) \in Leftovers
  PROVE  Ends(s) = {}
<1> DEFINE u == s \o r
<1>1. /\ Len(u) = Len(s) + Len(r) /\ Len(s) \in Nat /\ Len(r) \in Nat /\ DOMAIN s = 1 .. Len(s)
      /\ \A k \in 1 .. Len(s) + Len(r) : u[k] = IF k <= Len(s) THEN s[k] ELSE r[k - Len(s)]
  BY ConcatProperties, LenProperties
<1>2. u \in Leftovers
  BY DEF Joined
<1> HIDE DEF u
<1>3. Len(u) \in {0, 1} /\ \A k \in 1 .. Len(u) : u[k] # EOF
  BY <1>2, LeftoverFacts
<1>4. ASSUME NEW k \in 1 .. Len(s) PROVE s[k] # EOF /\ k # MaxLine - 1
  <2>1. k \in 1 .. Len(s) + Len(r) /\ k <= Len(s) /\ k \in 1 .. Len(u) /\ k <= 1
    BY <1>1, <1>3
  <2>2. s[k] = u[k]
    BY <1>1, <2>1
  <2>3. k # MaxLine - 1
    BY <2>1, Sizes
  <2> QED
    BY <1>3, <2>1, <2>2, <2>3
<1> QED
  BY <1>1, <1>4 DEF Ends

(* The client cuts its line where the answer ends, if it is clean, and at   *)
(* most the byte behind the block is left over.                             *)
LEMMA LineOfAnswer ==
  ASSUME NEW q \in Lens, NEW x \in Byte, Clean(Packet(q, x)), NEW l \in Leftovers,
         NEW s \in Seq(Byte), NEW r \in Seq(Byte), Joined(s, r) = Joined(l, Packet(q, x))
  PROVE  /\ EndOf(q) + Len(l) <= Len(s) <=> Ends(s) # {}
         /\ Ends(s) # {} =>
              /\ r \in Leftovers
              /\ LET z == SubSeq(s, 1, Min(Ends(s)))
                 IN  /\ z \in Seq(Byte) /\ Len(z) = Len(l) + EndOf(q)
                     /\ \A k \in 1 .. EndOf(q) : z[Len(l) + k] = Packet(q, x)[k]
<1> DEFINE p == Packet(q, x)
           u == l \o p
           e == Len(l) + EndOf(q)
           m == Len(s)
           j == Len(l)
           t == Total(q)
<1>1. /\ p \in Seq(Byte) /\ Len(p) = t /\ t \in Nat /\ EndOf(q) \in 1 .. t
      /\ p[EndOf(q)] = EOF /\ t <= EndOf(q) + 1 /\ EndOf(q) <= MaxLine - 2
      /\ \A k \in 1 .. t : p[k] = EOF => k = EndOf(q)
  BY PacketFacts, CleanFacts
<1> HIDE DEF p, t
<1>2. l \in Seq(Byte) /\ j \in {0, 1} /\ \A k \in 1 .. j : l[k] # EOF
  BY LeftoverFacts
<1>3. /\ u \in Seq(Byte) /\ Len(u) = j + t
      /\ \A k \in 1 .. j + t : u[k] = IF k <= j THEN l[k] ELSE p[k - j]
  BY <1>1, <1>2, ConcatProperties
<1>4. /\ m \in Nat /\ Len(r) \in Nat /\ m + Len(r) = j + t /\ DOMAIN s = 1 .. m
      /\ \A k \in 1 .. m + Len(r) : u[k] = IF k <= m THEN s[k] ELSE r[k - m]
  <2>1. u = s \o r
    BY DEF p, Joined
  <2>2. /\ Len(s \o r) = Len(s) + Len(r)
        /\ \A k \in 1 .. Len(s) + Len(r) : (s \o r)[k] = IF k <= Len(s) THEN s[k] ELSE r[k - Len(s)]
    BY ConcatProperties
  <2>3. m \in Nat /\ Len(r) \in Nat /\ DOMAIN s = 1 .. m
    BY LenProperties
  <2> HIDE DEF u, j
  <2> QED
    BY <1>3, <2>1, <2>2, <2>3
<1> HIDE DEF u, j, m
<1>5. e = j + EndOf(q) /\ e \in 1 .. j + t /\ e <= MaxLine - 1 /\ MaxLine \in Nat /\ e \in Nat
  <2>1. e = j + EndOf(q)
    BY DEF j
  <2> HIDE DEF e
  <2>2. MaxLine \in Nat
    BY Sizes
  <2> QED
    BY <1>1, <1>2, <2>1, <2>2
<1>6. \A k \in 1 .. EndOf(q) : u[j + k] = p[k]
  <2> SUFFICES ASSUME NEW k \in 1 .. EndOf(q) PROVE u[j + k] = p[k]
    OBVIOUS
  <2>1. PICK i \in 1 .. j + t : i = j + k
    BY <1>1, <1>2
  <2>2. ~(i <= j) /\ i - j = k
    BY <1>2, <2>1
  <2> QED
    BY <1>3, <2>1, <2>2
<1>7. \A k \in 1 .. j + t : u[k] = EOF <=> k = e
  <2>1. ASSUME NEW k \in 1 .. j + t, u[k] = EOF PROVE k = e
    <3>1. ~(k <= j)
      BY <1>2, <1>3, <2>1
    <3>2. k - j \in 1 .. t /\ p[k - j] = EOF
      BY <1>1, <1>2, <1>3, <2>1, <3>1
    <3>3. k - j = EndOf(q)
      BY <1>1, <3>2
    <3> QED
      BY <1>1, <1>2, <1>5, <3>3
  <2>2. u[e] = EOF
    <3>1. EndOf(q) \in 1 .. EndOf(q)
      BY <1>1
    <3> QED
      BY <1>1, <1>5, <1>6, <3>1
  <2> QED
    BY <2>1, <2>2
<1> HIDE DEF e
<1>8. \A k \in 1 .. m : s[k] = u[k] /\ k \in 1 .. j + t
  <2> SUFFICES ASSUME NEW k \in 1 .. m PROVE s[k] = u[k] /\ k \in 1 .. j + t
    OBVIOUS
  <2>1. k \in 1 .. m + Len(r) /\ k <= m
    BY <1>4
  <2> QED
    BY <1>4, <2>1
<1>9. Ends(s) \subseteq Nat /\ \A k \in Ends(s) : k \in 1 .. m /\ e <= k
  <2> SUFFICES ASSUME NEW k \in Ends(s) PROVE k \in 1 .. m /\ e <= k
    BY <1>4 DEF Ends
  <2>1. k \in 1 .. m /\ (s[k] = EOF \/ k = MaxLine - 1)
    BY <1>4 DEF Ends
  <2>2. CASE s[k] = EOF
    BY <1>5, <1>7, <1>8, <2>1, <2>2
  <2>3. CASE k = MaxLine - 1
    BY <1>5, <2>1, <2>3
  <2> QED
    BY <2>1, <2>2, <2>3
<1>10. e <= m => e \in Ends(s)
  <2> SUFFICES ASSUME e <= m PROVE e \in Ends(s)
    OBVIOUS
  <2>1. e \in 1 .. m
    BY <1>4, <1>5
  <2> QED
    BY <1>4, <1>7, <1>8, <2>1 DEF Ends
<1>11. e <= m <=> Ends(s) # {}
  <2>1. ASSUME Ends(s) # {} PROVE e <= m
    <3>1. PICK k \in Ends(s) : TRUE
      BY <2>1
    <3>2. k \in 1 .. m /\ e <= k
      BY <1>9
    <3> QED
      BY <1>4, <1>5, <3>2
  <2> QED
    BY <1>10, <2>1
<1>12. ASSUME Ends(s) # {}
       PROVE  /\ r \in Leftovers /\ Min(Ends(s)) = e
              /\ \A k \in 1 .. e : s[k] \in Byte
  <2>1. e \in Ends(s) /\ e <= m
    BY <1>10, <1>11, <1>12
  <2>2. Min(Ends(s)) = e
    <3>1. Min(Ends(s)) \in Ends(s) /\ Min(Ends(s)) <= e
      BY <1>9, <2>1, MinOfNat
    <3>2. e <= Min(Ends(s)) /\ Min(Ends(s)) \in Nat
      BY <1>9, <3>1
    <3> QED
      BY <1>5, <3>1, <3>2
  <2>3. Len(r) = 0 \/ Len(r) = 1
    <3>1. PICK a \in Nat : a = Len(r)
      BY <1>4
    <3>2. m + a = j + t /\ t <= EndOf(q) + 1 /\ e = j + EndOf(q) /\ e <= m
      BY <1>1, <1>4, <1>5, <2>1, <3>1
    <3>3. a <= 1
      BY <1>1, <1>2, <1>4, <3>2
    <3>4. a = 0 \/ a = 1
      BY ONLY <3>3, a \in Nat
    <3> QED
      BY <3>1, <3>4
  <2>4. ASSUME Len(r) = 0 PROVE r \in Leftovers
    <3>1. r = <<>>
      BY <2>4, EmptySeq
    <3> QED
      BY <3>1 DEF Leftovers
  <2>5. ASSUME Len(r) = 1 PROVE r \in Leftovers
    <3>1. r = <<r[1]>> /\ r[1] \in Byte
      <4>1. 1 \in 1 .. Len(r)
        BY <2>5
      <4>2. r[1] \in Byte
        BY <4>1, ElementOfSeq
      <4>3. <<r[1]>> \in Seq(Byte) /\ Len(<<r[1]>>) = 1 /\ <<r[1]>>[1] = r[1]
        BY <4>2
      <4>4. \A k \in 1 .. Len(r) : r[k] = <<r[1]>>[k]
        BY <2>5, <4>3
      <4> QED
        BY <2>5, <4>2, <4>3, <4>4, SeqEqual
    <3>2. m + 1 \in 1 .. m + Len(r) /\ ~(m + 1 <= m) /\ m + 1 - m = 1 /\ m + 1 \in 1 .. j + t /\ m + 1 # e
      BY <1>4, <1>5, <2>1, <2>5
    <3>3. u[m + 1] = r[1]
      <4>1. PICK k \in 1 .. m + Len(r) : k = m + 1
        BY <3>2
      <4>2. ~(k <= m) /\ k - m = 1
        BY <1>4, <3>2, <4>1
      <4> QED
        BY <1>4, <4>1, <4>2
    <3>4. r[1] # EOF
      BY <1>7, <3>2, <3>3
    <3>5. PICK b \in Byte \ {EOF} : r = <<b>>
      BY <3>1, <3>4
    <3> QED
      BY <3>5 DEF Leftovers
  <2>6. \A k \in 1 .. e : s[k] \in Byte
    <3>1. \A k \in 1 .. e : k \in 1 .. Len(s)
      BY <1>4, <1>5, <2>1 DEF m
    <3>2. \A k \in 1 .. Len(s) : s[k] \in Byte
      BY ElementOfSeq
    <3> QED
      BY <3>1, <3>2
  <2> QED
    BY <2>2, <2>3, <2>4, <2>5, <2>6
<1>13. ASSUME Ends(s) # {}
       PROVE  LET z == SubSeq(s, 1, Min(Ends(s)))
              IN  /\ z \in Seq(Byte) /\ Len(z) = e
                  /\ \A k \in 1 .. EndOf(q) : z[j + k] = p[k]
  <2> DEFINE z == SubSeq(s, 1, Min(Ends(s)))
  <2>1. z = SubSeq(s, 1, e) /\ 1 \in Int /\ e \in Int /\ 1 <= e /\ e <= m
    BY <1>5, <1>11, <1>12, <1>13
  <2>2. /\ SubSeq(s, 1, e) \in Seq(Byte) /\ Len(SubSeq(s, 1, e)) = IF 1 <= e THEN e - 1 + 1 ELSE 0
        /\ \A k \in 1 .. e - 1 + 1 : SubSeq(s, 1, e)[k] = s[1 + k - 1]
    BY <1>12, <1>13, <2>1, SubSeqProperties
  <2>3. e - 1 + 1 = e /\ \A k \in 1 .. e : 1 + k - 1 = k
    BY <2>1
  <2> HIDE DEF z
  <2>4. z \in Seq(Byte) /\ Len(z) = e /\ \A k \in 1 .. e : z[k] = s[k]
    BY <2>1, <2>2, <2>3
  <2>5. ASSUME NEW k \in 1 .. EndOf(q) PROVE z[j + k] = p[k]
    <3>1. PICK i \in 1 .. e : i = j + k
      BY <1>1, <1>2, <1>5
    <3>2. i \in 1 .. m
      BY <1>4, <2>1
    <3>3. z[i] = u[i]
      BY <1>8, <2>4, <3>2
    <3> QED
      BY <1>6, <3>1, <3>3
  <2> QED
    BY <2>4, <2>5 DEF z
<1> QED
  <2>1. e = Len(l) + EndOf(q) /\ m = Len(s) /\ j = Len(l) /\ p = Packet(q, x)
    BY DEF e, m, j, p
  <2>2. EndOf(q) + Len(l) = e
    BY <1>1, <1>2, <2>1
  <2> QED
    BY <1>11, <1>12, <1>13, <2>1, <2>2

(* What the client makes of such a line: the answer, unless a byte was left *)
(* over that shifts it.                                                     *)
LEMMA ShownOf ==
  ASSUME TypeOK, NEW q \in Lens, NEW x \in Byte, Clean(Packet(q, x)), NEW l \in Leftovers,
         NEW z \in Seq(Byte), Len(z) = Len(l) + EndOf(q),
         \A k \in 1 .. EndOf(q) : z[Len(l) + k] = Packet(q, x)[k]
  PROVE  Shows(Stored(z)) = IF l = <<>> THEN IF q = 0 THEN NoFileMsg ELSE q ELSE Nothing
<1> DEFINE p == Packet(q, x)
           b == Stored(z)
<1>1. /\ EndOf(q) >= HeaderLen + 1 /\ EndOf(q) \in Nat /\ Total(q) \in Nat
      /\ \A k \in 1 .. IntBytes : p[k] = IntOf(Total(q))[k] /\ p[IntBytes + k] = IntOf(Kind(q))[k]
      /\ q # 0 => p[HeaderLen + 1] = q
      /\ IntBytes \in Nat /\ IntBytes >= 2 /\ HeaderLen \in Nat /\ HeaderLen = IntBytes + IntBytes
  BY PacketFacts, Sizes
<1>2. p[IntBytes] = 0
  <2>1. Total(q) <= MaxLine
    BY CleanFacts, Sizes, <1>1
  <2>2. IntOf(Total(q))[IntBytes] = 0 /\ IntBytes \in 1 .. IntBytes
    BY <1>1, <2>1, HighestByte
  <2> QED
    BY <1>1, <2>2
<1>3. \A k \in 1 .. EndOf(q) : z[Len(l) + k] = p[k]
  OBVIOUS
<1>4. Len(l) \in {0, 1} /\ (Len(l) = 0 <=> l = <<>>)
  BY LeftoverFacts
<1>5. /\ b \in Seq(Byte) /\ Len(b) = HeaderLen + 1
      /\ \A k \in 1 .. HeaderLen + 1 : b[k] = z[k]
  <2>1. \A k \in 1 .. HeaderLen + 1 : k <= Len(z)
    BY <1>1, <1>4
  <2> QED
    BY <2>1, StoredFacts
<1> HIDE DEF p, b
<1>6. CASE l = <<>>
  <2>1. \A k \in 1 .. HeaderLen + 1 : b[k] = p[k]
    <3> SUFFICES ASSUME NEW k \in 1 .. HeaderLen + 1 PROVE b[k] = p[k]
      OBVIOUS
    <3>1. k \in 1 .. EndOf(q) /\ Len(l) + k = k
      BY <1>1, <1>4, <1>6
    <3> QED
      BY <1>3, <1>5, <3>1
  <2>2. \A k \in 1 .. IntBytes : b[IntBytes + k] = IntOf(Kind(q))[k]
    <3> SUFFICES ASSUME NEW k \in 1 .. IntBytes PROVE b[IntBytes + k] = IntOf(Kind(q))[k]
      OBVIOUS
    <3>1. IntBytes + k \in 1 .. HeaderLen + 1
      BY <1>1
    <3> QED
      BY <1>1, <2>1, <3>1
  <2>3. q # 0 => b[HeaderLen + 1] = q
    <3>1. HeaderLen + 1 \in 1 .. HeaderLen + 1
      BY <1>1
    <3> QED
      BY <1>1, <2>1, <3>1
  <2>4. CASE q = 0
    <3>1. \A k \in 1 .. IntBytes : b[IntBytes + k] = IntOf(NoFile)[k]
      BY <2>2, <2>4 DEF Kind
    <3>2. Shows(b) = NoFileMsg
      BY <1>5, <3>1, ShowsFacts
    <3> QED
      BY <1>6, <2>4, <3>2 DEF b
  <2>5. CASE q # 0
    <3>1. \A k \in 1 .. IntBytes : b[IntBytes + k] = IntOf(Result)[k]
      BY <2>2, <2>5 DEF Kind
    <3>2. Shows(b) = b[HeaderLen + 1]
      BY <1>5, <3>1, ShowsFacts
    <3> QED
      BY <1>6, <2>3, <2>5, <3>2 DEF b
  <2> QED
    BY <2>4, <2>5
<1>7. CASE l # <<>>
  <2>1. IntBytes + 1 \in 1 .. HeaderLen + 1 /\ IntBytes \in 1 .. EndOf(q) /\ Len(l) + IntBytes = IntBytes + 1
    <3>1. Len(l) = 1
      BY <1>4, <1>7
    <3>2. IntBytes + 1 \in 1 .. HeaderLen + 1 /\ IntBytes \in 1 .. EndOf(q)
      BY <1>1
    <3>3. 1 + IntBytes = IntBytes + 1
      BY <1>1
    <3> QED
      BY <3>1, <3>2, <3>3
  <2>2. b[IntBytes + 1] = z[IntBytes + 1]
    BY <1>5, <2>1
  <2>3. z[Len(l) + IntBytes] = p[IntBytes]
    BY <1>3, <2>1
  <2>4. b[IntBytes + 1] = 0
    BY <1>2, <2>1, <2>2, <2>3
  <2> QED
    BY <1>5, <1>7, <2>4, ShowsFacts DEF b
<1> QED
  BY <1>6, <1>7
-----------------------------------------------------------------------------
(* The type invariant.                                                      *)

(* A line the client has is made of bytes and fits into its buffer.         *)
LEMMA LineFacts ==
  ASSUME NEW s \in Seq(Byte)
  PROVE  /\ Ends(s) = {} => Len(s) < MaxLine - 1
         /\ Ends(s) # {} => SubSeq(s, 1, Min(Ends(s))) \in Seq(Byte)
<1>1. Len(s) \in Nat /\ DOMAIN s = 1 .. Len(s) /\ \A k \in 1 .. Len(s) : s[k] \in Byte
  BY LenProperties, ElementOfSeq
<1>2. MaxLine \in Nat /\ MaxLine > 2
  BY Sizes
<1>3. Ends(s) = {} => Len(s) < MaxLine - 1
  <2>1. MaxLine - 1 \in 1 .. Len(s) => MaxLine - 1 \in Ends(s)
    BY <1>1 DEF Ends
  <2> QED
    BY <1>1, <1>2, <2>1
<1>4. ASSUME Ends(s) # {} PROVE SubSeq(s, 1, Min(Ends(s))) \in Seq(Byte)
  <2>1. Ends(s) \in SUBSET Nat /\ Ends(s) \subseteq 1 .. Len(s)
    BY <1>1 DEF Ends
  <2>2. PICK e \in 1 .. Len(s) : e = Min(Ends(s))
    BY <1>4, <2>1, MinOfNat
  <2>3. 1 \in Int /\ e \in Int /\ \A k \in 1 .. e : s[k] \in Byte
    BY <1>1
  <2> QED
    BY <2>2, <2>3, SubSeqProperties
<1> QED
  BY <1>3, <1>4

(* What a part of a line, and a line, leave behind. *)
LEMMA PartFacts ==
  ASSUME TypeOK, pipe # <<>>, NEW n \in Arrivals
  PROVE  LET s == line \o SubSeq(pipe, 1, n)
             r == SubSeq(pipe, n + 1, Len(pipe))
         IN  /\ s \in Seq(Byte) /\ r \in Seq(Byte) /\ Joined(s, r) = Unread
             /\ net.whole /\ Len(pipe) <= MaxLine => r = <<>> /\ s = Unread
<1>1. line \in Seq(Byte) /\ pipe \in Seq(Byte)
  BY DEF TypeOK
<1>2. n \in 1 .. Len(pipe) /\ (net.whole /\ Len(pipe) <= MaxLine => n = Len(pipe))
  BY ArrivalFacts
<1> DEFINE a == SubSeq(pipe, 1, n)
           s == line \o a
           r == SubSeq(pipe, n + 1, Len(pipe))
<1>3. a \in Seq(Byte) /\ r \in Seq(Byte)
  BY <1>1, <1>2, FrontAndRest
<1>4. a \o r = pipe /\ (n = Len(pipe) => r = <<>> /\ a = pipe)
  BY <1>1, <1>2, FrontAndRest
<1> HIDE DEF a, r
<1>5. s \in Seq(Byte)
  BY <1>1, <1>3, ConcatProperties
<1>6. Joined(s, r) = Unread
  <2>1. (line \o a) \o r = line \o (a \o r)
    BY ONLY <1>1, <1>3
  <2> QED
    BY <1>4, <2>1 DEF Joined, Unread
<1>7. net.whole /\ Len(pipe) <= MaxLine => r = <<>> /\ s = Unread
  BY <1>2, <1>4 DEF Joined, Unread
<1> QED
  BY <1>3, <1>5, <1>6, <1>7 DEF a, r

LEMMA InitType == Init => TypeOK
<1> SUFFICES ASSUME Init PROVE TypeOK
  OBVIOUS
<1>1. buf \in Seq(Byte) /\ Len(buf) = HeaderLen + 1
  <2>1. PICK t \in OldTypes : buf = Header(0, t) \o <<0>>
    BY DEF Init
  <2>2. t \in Nat /\ 0 \in Nat
    BY WireAssumption, Sizes
  <2>3. IntOf(0) \in Seq(Byte) /\ Len(IntOf(0)) = IntBytes /\ IntOf(t) \in Seq(Byte) /\ Len(IntOf(t)) = IntBytes
    BY <2>2, IntFacts
  <2>4. Header(0, t) \in Seq(Byte) /\ Len(Header(0, t)) = HeaderLen
    BY <2>3, Sizes, ConcatProperties DEF Header
  <2>5. <<0>> \in Seq(Byte) /\ Len(<<0>>) = 1
    BY Sizes
  <2> QED
    BY <2>1, <2>4, <2>5, ConcatProperties
<1>2. out \in [Workers -> Seq(Byte)] /\ <<>> \in Seq(Byte) /\ <<>> \in Seq(Lens) /\ Len(<<>>) = 0
  BY DEF Init
<1>3. 0 < MaxLine - 1
  BY Sizes
<1> QED
  BY <1>1, <1>2, <1>3 DEF Init, TypeOK

LEMMA ClientType == ASSUME TypeOK, Client PROVE TypeOK'
<1>1. CASE SendRequest
  <2>1. PICK q \in Lens : query' = q /\ up' = Append(up, q)
    BY <1>1 DEF SendRequest
  <2>2. up' \in Seq(Lens)
    BY <2>1, AppendProperties DEF TypeOK
  <2>3. left - 1 \in 0 .. MaxReqs
    BY <1>1, WireAssumption DEF SendRequest, TypeOK
  <2> QED
    BY <1>1, <2>1, <2>2, <2>3 DEF SendRequest, TypeOK, serverVars
<1>2. CASE ReceivePart
  <2>1. PICK n \in Arrivals : LET s == line \o SubSeq(pipe, 1, n) IN
          Ends(s) = {} /\ line' = s /\ pipe' = SubSeq(pipe, n + 1, Len(pipe))
    BY <1>2 DEF ReceivePart
  <2>2. pipe # <<>>
    BY <1>2 DEF ReceivePart
  <2>3. line' \in Seq(Byte) /\ pipe' \in Seq(Byte) /\ Ends(line') = {}
    BY <2>1, <2>2, PartFacts
  <2>4. Len(line') < MaxLine - 1
    BY <2>3, LineFacts
  <2> QED
    BY <1>2, <2>3, <2>4 DEF ReceivePart, TypeOK, serverVars
<1>3. CASE ReceiveLine
  <2>1. PICK n \in Arrivals : LET s == line \o SubSeq(pipe, 1, n) IN
          /\ Ends(s) # {} /\ buf' = Stored(SubSeq(s, 1, Min(Ends(s))))
          /\ pipe' = SubSeq(pipe, n + 1, Len(pipe))
    BY <1>3 DEF ReceiveLine
  <2>2. pipe # <<>>
    BY <1>3 DEF ReceiveLine
  <2> DEFINE s == line \o SubSeq(pipe, 1, n)
             z == SubSeq(s, 1, Min(Ends(s)))
  <2>3. s \in Seq(Byte) /\ pipe' \in Seq(Byte)
    BY <2>1, <2>2, PartFacts
  <2>4. z \in Seq(Byte)
    <3>1. Ends(s) # {}
      BY <2>1
    <3> HIDE DEF s
    <3> QED
      BY <2>3, <3>1, LineFacts
  <2>5. buf' = Stored(z)
    BY <2>1
  <2> HIDE DEF s, z
  <2>6. buf' \in Seq(Byte) /\ Len(buf') = HeaderLen + 1
    BY <2>4, <2>5, StoredFacts
  <2>7. shown' \in Byte \cup {NoFileMsg, Nothing}
    BY <1>3, <2>6, ShowsFacts DEF ReceiveLine
  <2>8. <<>> \in Seq(Byte) /\ Len(<<>>) < MaxLine - 1
    BY Sizes
  <2> QED
    BY <1>3, <2>3, <2>6, <2>7, <2>8 DEF ReceiveLine, TypeOK, serverVars
<1>4. CASE ReceiveEnd
  <2>1. buf' \in Seq(Byte) /\ Len(buf') = HeaderLen + 1
    <3>1. line \in Seq(Byte) /\ buf \in Seq(Byte) /\ Len(buf) = HeaderLen + 1
      BY DEF TypeOK
    <3>2. Stored(line) \in Seq(Byte) /\ Len(Stored(line)) = HeaderLen + 1
      BY <3>1, StoredFacts
    <3> QED
      BY <1>4, <3>1, <3>2 DEF ReceiveEnd
  <2>2. shown' \in Byte \cup {NoFileMsg, Nothing}
    BY <1>4, <2>1, ShowsFacts DEF ReceiveEnd
  <2>3. <<>> \in Seq(Byte) /\ Len(<<>>) < MaxLine - 1
    BY Sizes
  <2> QED
    BY <1>4, <2>1, <2>2, <2>3 DEF ReceiveEnd, TypeOK, serverVars
<1>5. CASE Quit
  BY <1>5 DEF Quit, TypeOK, serverVars
<1> QED
  BY <1>1, <1>2, <1>3, <1>4, <1>5 DEF Client

(* What a write brings: the rest of the worker's answer stays with it.      *)
LEMMA WriteFacts ==
  ASSUME TypeOK, NEW w \in Workers, Write(w)
  PROVE  /\ pipe' \in Seq(Byte) /\ out' \in [Workers -> Seq(Byte)]
         /\ \A v \in Workers \ {w} : out'[v] = out[v]
         /\ Len(out[w]) <= Free => out'[w] = <<>> /\ pipe' = Joined(pipe, out[w])
<1>1. /\ pipe \in Seq(Byte) /\ out \in [Workers -> Seq(Byte)] /\ out[w] \in Seq(Byte)
      /\ Len(pipe) \in Nat /\ net.room \in Nat
  BY WireAssumption, LenProperties DEF TypeOK, Net
<1>2. PICK f \in Nat, o \in Nat : f = Free /\ o = Len(out[w]) /\ f # 0 /\ o # 0
  <2>1. Free \in Nat /\ Free # 0
    BY <1>1 DEF Free, Write
  <2>2. Len(out[w]) \in Nat /\ Len(out[w]) # 0
    BY <1>1, EmptySeq, LenProperties DEF Write
  <2> QED
    BY <2>1, <2>2
<1>3. Min({f, o}) = IF f <= o THEN f ELSE o
  BY LesserOf
<1>4. PICK n \in 1 .. o : n = Min({Free, Len(out[w])})
  BY <1>2, <1>3
<1>5. /\ out' = [out EXCEPT ![w] = SubSeq(out[w], n + 1, Len(out[w]))]
      /\ pipe' = pipe \o SubSeq(out[w], 1, n)
  BY <1>4 DEF Write
<1>6. /\ pipe' \in Seq(Byte) /\ SubSeq(out[w], n + 1, Len(out[w])) \in Seq(Byte)
      /\ n = o => SubSeq(out[w], n + 1, Len(out[w])) = <<>> /\ pipe' = pipe \o out[w]
  <2>1. PICK p \in Seq(Byte) : p = out[w]
    BY <1>1
  <2>2. n \in 1 .. Len(p) /\ o = Len(p)
    BY <1>2, <2>1
  <2> DEFINE a == SubSeq(p, 1, n)
             r == SubSeq(p, n + 1, Len(p))
  <2>3. a \in Seq(Byte) /\ r \in Seq(Byte) /\ (n = Len(p) => r = <<>> /\ a = p)
    BY <2>2, FrontAndRest
  <2>4. pipe' = pipe \o a /\ SubSeq(out[w], n + 1, Len(out[w])) = r
    BY <1>5, <2>1
  <2> HIDE DEF a, r
  <2>5. pipe \o a \in Seq(Byte)
    BY <1>1, <2>3, ConcatProperties
  <2> QED
    BY <2>1, <2>2, <2>3, <2>4, <2>5
<1>7. Len(out[w]) <= Free => n = o
  BY <1>2, <1>3, <1>4
<1> QED
  BY <1>1, <1>5, <1>6, <1>7 DEF Joined

LEMMA ServerType == ASSUME TypeOK, Server PROVE TypeOK'
<1>1. CASE ReadRequest
  <2>1. up \in Seq(Lens) /\ up # <<>> /\ reqs \in Seq(Lens) /\ <<>> \in Seq(Lens)
    BY <1>1 DEF ReadRequest, TypeOK
  <2>2. Append(reqs, Head(up)) \in Seq(Lens)
    BY <2>1, HeadTailProperties, AppendProperties
  <2> QED
    BY <1>1, <2>1, <2>2 DEF ReadRequest, TypeOK, clientVars
<1>2. CASE ReadEnd
  BY <1>2 DEF ReadEnd, TypeOK, clientVars
<1>3. CASE ReadReset
  BY <1>3 DEF ReadReset, TypeOK, clientVars
<1>4. ASSUME NEW w \in Workers, Compose(w) PROVE TypeOK'
  <2>1. PICK s \in Strays : out' = [out EXCEPT ![w] = Packet(Head(reqs), s)]
    BY <1>4 DEF Compose
  <2>2. Head(reqs) \in Lens /\ Tail(reqs) \in Seq(Lens) /\ s \in Byte
    BY <1>4, HeadTailProperties, Sizes DEF Compose, TypeOK
  <2>3. Packet(Head(reqs), s) \in Seq(Byte)
    BY <2>2, PacketFacts
  <2>4. out' \in [Workers -> Seq(Byte)]
    BY <2>1, <2>3 DEF TypeOK
  <2>5. plain' \in BOOLEAN
    <3>1. PICK t \in Strays : plain' = (plain /\ Clean(Packet(Head(reqs), t)))
      BY <1>4 DEF Compose
    <3> QED
      BY <3>1
  <2>6. reqs' = Tail(reqs) /\ UNCHANGED <<net, clientVars, up, spc, pipe, reset>>
    BY <1>4 DEF Compose
  <2> QED
    BY <2>2, <2>4, <2>5, <2>6 DEF TypeOK, clientVars
<1>5. ASSUME NEW w \in Workers, Write(w) PROVE TypeOK'
  <2>1. pipe' \in Seq(Byte) /\ out' \in [Workers -> Seq(Byte)]
    BY <1>5, WriteFacts
  <2>2. reset' \in BOOLEAN /\ UNCHANGED <<net, clientVars, up, reqs, spc, plain>>
    BY <1>5 DEF Write
  <2> QED
    BY <2>1, <2>2 DEF TypeOK, clientVars
<1>6. ASSUME NEW w \in Workers, WriteFails(w) PROVE TypeOK'
  BY <1>6 DEF WriteFails, TypeOK, clientVars
<1> QED
  BY <1>1, <1>2, <1>3, <1>4, <1>5, <1>6 DEF Server
-----------------------------------------------------------------------------
(* The invariant.                                                           *)

LEMMA InitInv == Init => IInv
<1> SUFFICES ASSUME Init PROVE IInv
  OBVIOUS
<1>1. TypeOK
  BY InitType
<1>2. /\ cpc = "idle" /\ up = <<>> /\ reqs = <<>> /\ line = <<>> /\ pipe = <<>>
      /\ reset = FALSE /\ spc = "up" /\ query = 0 /\ shown = NoFileMsg
      /\ out = [w \in Workers |-> <<>>]
  BY DEF Init
<1>3. Nowhere
  BY <1>2 DEF Nowhere, Silent, Leftover, Leftovers
<1>4. ShownRight
  BY <1>2 DEF ShownRight
<1> QED
  BY <1>1, <1>2, <1>3, <1>4 DEF IInv, StepInv, LinkInv, WholeInv

(* An answer that is not clean spoils the rest of the connection. *)
LEMMA GoodBefore == ASSUME net' = net, plain' => plain, Good' PROVE Good
BY DEF Good, Roomy

LEMMA UnreadFacts ==
  ASSUME TypeOK
  PROVE  /\ Unread \in Seq(Byte) /\ Len(Unread) = Len(line) + Len(pipe)
         /\ Len(line) \in Nat /\ Len(pipe) \in Nat
         /\ line = <<>> => Unread = pipe
         /\ Unread = <<>> => pipe = <<>>
<1>1. line \in Seq(Byte) /\ pipe \in Seq(Byte)
  BY DEF TypeOK
<1> QED
  BY <1>1, ConcatProperties, ConcatEmptySeq, ConcatEqualIffEmpty, LenProperties DEF Unread, Joined

LEMMA SendRequestStep == ASSUME IInv, TypeOK', SendRequest PROVE IInv'
<1>1. TypeOK /\ StepInv /\ LinkInv /\ WholeInv
  BY DEF IInv
<1>2. PICK q \in Lens : query' = q /\ up' = Append(up, q)
  BY DEF SendRequest
<1>3. /\ cpc = "idle" /\ cpc' = "read" /\ net' = net /\ line' = line /\ pipe' = pipe /\ reqs' = reqs
      /\ out' = out /\ spc' = spc /\ plain' = plain /\ reset' = reset
  BY DEF SendRequest, serverVars
<1>4. ASSUME Good' PROVE Asked'
  <2>1. Good
    BY <1>3, <1>4, GoodBefore
  <2>2. Nowhere
    BY <1>1, <1>3, <2>1 DEF StepInv, Asked, Composed, Sent
  <2>3. up' = <<q>> /\ reqs' = <<>>
    BY <1>2, <1>3, <2>2 DEF Nowhere
  <2>4. Unread' = pipe
    <3>1. Unread' = Unread
      BY <1>3 DEF Unread
    <3> QED
      BY <1>1, <2>2, <3>1, UnreadFacts DEF Nowhere
  <2>5. Leftover(Unread)'
    BY <1>3, <2>2, <2>4 DEF Nowhere, Leftover
  <2> QED
    BY <1>2, <1>3, <2>2, <2>3, <2>5 DEF Asked, Nowhere, Silent
<1>5. Good' => Good
  BY <1>3, GoodBefore
<1>6. LinkInv' /\ WholeInv' /\ ShownRight'
  BY <1>1, <1>3, <1>5 DEF LinkInv, WholeInv, ShownRight
<1> QED
  BY <1>4, <1>6 DEF IInv, StepInv

(* A client that waits for bytes that are there is owed an answer, whole    *)
(* and unread if the network does not cut it.                               *)
LEMMA BytesThere ==
  ASSUME IInv, Good, cpc = "read", pipe # <<>>, net.whole
  PROVE  /\ Sent /\ line = <<>> /\ Len(pipe) <= MaxLine
         /\ \E x \in Strays : /\ Clean(Packet(query, x)) /\ Unread = Joined(<<>>, Packet(query, x))
                              /\ query \in Lens /\ Unread = Packet(query, x)
<1>1. TypeOK /\ StepInv /\ WholeInv
  BY DEF IInv
<1>2. line = <<>>
  BY <1>1 DEF WholeInv
<1>3. Unread = pipe
  BY <1>1, <1>2, UnreadFacts
<1>4. Sent
  <2>1. ~Leftover(Unread)
    BY <1>3 DEF Leftover
  <2> QED
    BY <1>1, <2>1 DEF StepInv, Nowhere, Asked, Composed
<1>5. PICK l \in Leftovers, x \in Strays :
        Clean(Packet(query, x)) /\ Leftover(l) /\ Unread = Joined(l, Packet(query, x))
  BY <1>4 DEF Sent
<1>6. l = <<>> /\ query \in Lens /\ x \in Byte
  BY <1>4, <1>5, Sizes DEF Leftover, Sent
<1>7. Packet(query, x) \in Seq(Byte) /\ Len(Packet(query, x)) = Total(query) /\ Total(query) <= MaxLine - 1
      /\ Total(query) \in Nat
  BY <1>5, <1>6, PacketFacts, CleanFacts
<1>8. Joined(<<>>, Packet(query, x)) = Packet(query, x)
  BY <1>7, ConcatEmptySeq DEF Joined
<1>9. Len(pipe) <= MaxLine
  BY <1>3, <1>5, <1>6, <1>7, <1>8, Sizes
<1> QED
  BY <1>2, <1>4, <1>5, <1>6, <1>8, <1>9

LEMMA ReceivePartStep == ASSUME IInv, TypeOK', ReceivePart PROVE IInv'
<1>1. TypeOK /\ StepInv /\ LinkInv /\ WholeInv
  BY DEF IInv
<1>2. PICK n \in Arrivals : LET s == line \o SubSeq(pipe, 1, n) IN
        Ends(s) = {} /\ line' = s /\ pipe' = SubSeq(pipe, n + 1, Len(pipe))
  BY DEF ReceivePart
<1>3. /\ cpc = "read" /\ cpc' = cpc /\ pipe # <<>> /\ net' = net /\ query' = query /\ up' = up /\ reqs' = reqs
      /\ out' = out /\ spc' = spc /\ plain' = plain /\ reset' = reset
  BY DEF ReceivePart, serverVars
<1>4. /\ line' \in Seq(Byte) /\ pipe' \in Seq(Byte) /\ Joined(line', pipe') = Unread /\ Ends(line') = {}
      /\ net.whole /\ Len(pipe) <= MaxLine => pipe' = <<>> /\ line' = Unread
  BY <1>1, <1>2, <1>3, PartFacts
<1>5. Good' => Good
  BY <1>3, GoodBefore
<1>6. Unread' = Unread
  BY <1>4 DEF Unread
<1>7. StepInv'
  <2> SUFFICES ASSUME Good' PROVE Asked' \/ Composed' \/ Sent'
    BY DEF StepInv
  <2>1. Asked \/ Composed \/ Sent
    BY <1>1, <1>3, <1>5 DEF StepInv, Nowhere
  <2>2. CASE Asked
    BY <1>3, <1>6, <2>2 DEF Asked, Silent, Leftover
  <2>3. CASE Composed
    BY <1>3, <1>6, <2>3 DEF Composed, Leftover
  <2>4. CASE Sent
    BY <1>3, <1>6, <2>4 DEF Sent, Silent, Leftover
  <2> QED
    BY <2>1, <2>2, <2>3, <2>4
<1>8. ASSUME Good', net'.whole PROVE FALSE
  <2>1. PICK x \in Strays : /\ Clean(Packet(query, x)) /\ Unread = Joined(<<>>, Packet(query, x))
                            /\ query \in Lens /\ Unread = Packet(query, x)
    BY <1>3, <1>5, <1>8, BytesThere
  <2>2. Len(pipe) <= MaxLine
    BY <1>3, <1>5, <1>8, BytesThere
  <2>3. line' = Unread
    BY <1>3, <1>4, <1>8, <2>2
  <2>4. Joined(line', pipe') = Joined(<<>>, Packet(query, x)) /\ <<>> \in Leftovers /\ x \in Byte
    BY <1>4, <2>1, Sizes DEF Leftovers
  <2>5. ~(EndOf(query) + Len(<<>>) <= Len(line'))
    BY <1>4, <2>1, <2>4, LineOfAnswer
  <2>6. Len(line') = Total(query) /\ EndOf(query) \in 1 .. Total(query) /\ Total(query) \in Nat
    BY <2>1, <2>3, <2>4, PacketFacts
  <2> QED
    BY <2>5, <2>6
<1>9. LinkInv' /\ WholeInv' /\ ShownRight'
  BY <1>1, <1>3, <1>5, <1>8 DEF LinkInv, WholeInv, ShownRight
<1> QED
  BY <1>7, <1>9 DEF IInv

LEMMA ReceiveLineStep == ASSUME IInv, TypeOK', ReceiveLine PROVE IInv'
<1>1. TypeOK /\ StepInv /\ LinkInv /\ WholeInv
  BY DEF IInv
<1>2. PICK n \in Arrivals : LET s == line \o SubSeq(pipe, 1, n) IN
        /\ Ends(s) # {} /\ buf' = Stored(SubSeq(s, 1, Min(Ends(s))))
        /\ pipe' = SubSeq(pipe, n + 1, Len(pipe))
  BY DEF ReceiveLine
<1>3. /\ cpc = "read" /\ cpc' = "idle" /\ pipe # <<>> /\ net' = net /\ query' = query /\ up' = up
      /\ reqs' = reqs /\ out' = out /\ spc' = spc /\ plain' = plain /\ reset' = reset
      /\ line' = <<>> /\ shown' = Shows(buf')
  BY DEF ReceiveLine, serverVars
<1> DEFINE s == line \o SubSeq(pipe, 1, n)
           z == SubSeq(s, 1, Min(Ends(s)))
<1>4. /\ s \in Seq(Byte) /\ pipe' \in Seq(Byte) /\ Joined(s, pipe') = Unread
      /\ net.whole /\ Len(pipe) <= MaxLine => pipe' = <<>>
  BY <1>1, <1>2, <1>3, PartFacts
<1>5. Ends(s) # {} /\ buf' = Stored(z)
  BY <1>2
<1> HIDE DEF s
<1>6. Good' => Good
  BY <1>3, GoodBefore
<1>7. LinkInv' /\ WholeInv'
  BY <1>1, <1>3, <1>6 DEF LinkInv, WholeInv
<1>8. ASSUME Good'
      PROVE  /\ Nowhere'
             /\ \/ shown' = (IF query = 0 THEN NoFileMsg ELSE query)
                \/ ~net.whole /\ shown' = Nothing
  <2>1. ~Leftover(Unread)
    <3>1. Unread \in Leftovers => Ends(s) = {}
      BY <1>4, NoLineYet
    <3> QED
      BY <1>5, <3>1 DEF Leftover
  <2>2. Sent
    BY <1>1, <1>3, <1>6, <1>8, <2>1 DEF StepInv, Nowhere, Asked, Composed
  <2>3. PICK l \in Leftovers, x \in Strays :
          Clean(Packet(query, x)) /\ Leftover(l) /\ Unread = Joined(l, Packet(query, x))
    BY <2>2 DEF Sent
  <2>4. query \in Lens /\ x \in Byte /\ Joined(s, pipe') = Joined(l, Packet(query, x))
    BY <1>4, <2>2, <2>3, Sizes DEF Sent
  <2>5. /\ pipe' \in Leftovers
        /\ z \in Seq(Byte) /\ Len(z) = Len(l) + EndOf(query)
        /\ \A k \in 1 .. EndOf(query) : z[Len(l) + k] = Packet(query, x)[k]
    BY <1>4, <1>5, <2>3, <2>4, LineOfAnswer
  <2>6. net.whole => pipe' = <<>>
    BY <1>1, <1>3, <1>4, <1>6, <1>8, BytesThere
  <2>7. Nowhere'
    BY <1>3, <2>2, <2>5, <2>6 DEF Nowhere, Sent, Silent, Leftover
  <2> HIDE DEF z
  <2>8. Shows(Stored(z)) = IF l = <<>> THEN IF query = 0 THEN NoFileMsg ELSE query ELSE Nothing
    BY <1>1, <2>3, <2>4, <2>5, ShownOf
  <2>9. l # <<>> => ~net.whole
    BY <2>3 DEF Leftover
  <2>10. shown' = Shows(Stored(z))
    BY <1>3, <1>5
  <2>11. shown' = IF l = <<>> THEN IF query = 0 THEN NoFileMsg ELSE query ELSE Nothing
    BY <2>8, <2>10
  <2> QED
    BY <2>7, <2>9, <2>11
<1>9. StepInv' /\ ShownRight'
  BY <1>3, <1>8 DEF StepInv, ShownRight, Good
<1> QED
  BY <1>7, <1>9 DEF IInv

(* While answers are clean, the server does not go away under a client that *)
(* waits.                                                                   *)
LEMMA ReceiveEndStep == ASSUME IInv, TypeOK', ReceiveEnd PROVE IInv'
<1>1. LinkInv /\ cpc = "read" /\ spc = "down" /\ net' = net /\ plain' = plain
  BY DEF IInv, ReceiveEnd, serverVars
<1>2. ~Good'
  BY <1>1, GoodBefore DEF LinkInv
<1> QED
  BY <1>2 DEF IInv, StepInv, LinkInv, WholeInv, ShownRight, Good

LEMMA QuitStep == ASSUME IInv, TypeOK', Quit PROVE IInv'
<1>1. TypeOK /\ StepInv /\ LinkInv /\ WholeInv
  BY DEF IInv
<1>2. /\ cpc = "idle" /\ cpc' = "quit" /\ net' = net /\ line' = line /\ pipe' = pipe /\ up' = up
      /\ reqs' = reqs /\ out' = out /\ spc' = spc /\ plain' = plain
      /\ reset' \in {FALSE, pipe # <<>>}
  BY DEF Quit, serverVars
<1>3. Good' => Good
  BY <1>2, GoodBefore
<1>4. Good' => Nowhere
  BY <1>1, <1>2, <1>3 DEF StepInv, Asked, Composed, Sent
<1>5. Nowhere => Nowhere'
  BY <1>2 DEF Nowhere, Silent, Leftover
<1>6. LinkInv'
  <2>1. Good' /\ net'.whole => reset' = FALSE
    BY <1>2, <1>4 DEF Nowhere, Leftover
  <2> QED
    BY <1>1, <1>2, <1>3, <2>1 DEF LinkInv
<1>7. WholeInv' /\ ShownRight'
  BY <1>1, <1>2, <1>3 DEF WholeInv, ShownRight
<1> QED
  BY <1>4, <1>5, <1>6, <1>7 DEF IInv, StepInv

LEMMA ReadRequestStep == ASSUME IInv, TypeOK', ReadRequest PROVE IInv'
<1>1. TypeOK /\ StepInv /\ LinkInv /\ WholeInv /\ ShownRight
  BY DEF IInv
<1>2. /\ up # <<>> /\ reqs' = Append(reqs, Head(up)) /\ up' = <<>>
      /\ net' = net /\ left' = left /\ cpc' = cpc /\ query' = query /\ line' = line /\ buf' = buf
      /\ shown' = shown /\ out' = out /\ spc' = spc /\ plain' = plain /\ pipe' = pipe /\ reset' = reset
  BY DEF ReadRequest, clientVars
<1>3. Good' => Good
  BY <1>2, GoodBefore
<1>4. ASSUME Good' PROVE Asked'
  <2>1. Asked /\ up = <<query>> /\ reqs = <<>>
    BY <1>1, <1>2, <1>3, <1>4 DEF StepInv, Nowhere, Asked, Composed, Sent
  <2>2. reqs' = <<query>>
    BY <1>2, <2>1
  <2>3. Unread' = Unread
    BY <1>2 DEF Unread
  <2> QED
    BY <1>2, <2>1, <2>2, <2>3 DEF Asked, Silent, Leftover
<1>5. LinkInv' /\ WholeInv' /\ ShownRight'
  BY <1>1, <1>2, <1>3 DEF LinkInv, WholeInv, ShownRight, Good, Roomy
<1> QED
  BY <1>4, <1>5 DEF IInv, StepInv

(* Steps that change nothing but what the server's side has come to. *)
LEMMA PlacesKept ==
  ASSUME StepInv, WholeInv, ShownRight,
         UNCHANGED <<net, clientVars, up, reqs, out, plain, pipe>>
  PROVE  StepInv' /\ WholeInv' /\ ShownRight' /\ (Good' => Good)
<1>1. /\ net' = net /\ cpc' = cpc /\ query' = query /\ line' = line /\ shown' = shown /\ up' = up
      /\ reqs' = reqs /\ out' = out /\ plain' = plain /\ pipe' = pipe
  BY DEF clientVars
<1>2. (Good' => Good) /\ (Roomy' => Roomy)
  BY <1>1 DEF Good, Roomy
<1>3. Unread' = Unread /\ (Silent => Silent')
  BY <1>1 DEF Unread, Silent
<1>4. StepInv'
  <2> SUFFICES ASSUME Good' PROVE Nowhere' \/ Asked' \/ Composed' \/ Sent'
    BY DEF StepInv
  <2>1. Nowhere => Nowhere'
    BY <1>1, <1>3 DEF Nowhere, Leftover
  <2>2. Asked => Asked'
    BY <1>1, <1>3 DEF Asked, Leftover
  <2>3. Composed => Composed'
    BY <1>1, <1>3 DEF Composed, Leftover
  <2>4. Sent => Sent'
    BY <1>1, <1>3 DEF Sent, Leftover
  <2> QED
    BY <1>2, <2>1, <2>2, <2>3, <2>4 DEF StepInv
<1>5. WholeInv'
  BY <1>1, <1>2 DEF WholeInv
<1>6. ShownRight'
  BY <1>1, <1>2 DEF ShownRight
<1> QED
  BY <1>2, <1>4, <1>5, <1>6

LEMMA ReadEndStep == ASSUME IInv, TypeOK', ReadEnd PROVE IInv'
<1>1. StepInv' /\ WholeInv' /\ ShownRight' /\ (Good' => Good)
  BY PlacesKept DEF IInv, ReadEnd
<1>2. cpc = "quit" /\ cpc' = cpc /\ spc' = "closed" /\ reset' = reset /\ ~reset
  BY DEF ReadEnd, clientVars
<1> QED
  BY <1>1, <1>2 DEF IInv, LinkInv

LEMMA ReadResetStep == ASSUME IInv, TypeOK', ReadReset PROVE IInv'
<1>1. StepInv' /\ WholeInv' /\ ShownRight' /\ (Good' => Good)
  BY PlacesKept DEF IInv, ReadReset
<1>2. LinkInv /\ cpc' = cpc /\ net' = net /\ reset' = reset /\ reset
  BY DEF ReadReset, clientVars, IInv
<1>3. LinkInv'
  BY <1>1, <1>2 DEF LinkInv
<1> QED
  BY <1>1, <1>3 DEF IInv

LEMMA ComposeStep == ASSUME IInv, TypeOK', NEW w \in Workers, Compose(w) PROVE IInv'
<1>1. TypeOK /\ StepInv /\ LinkInv /\ WholeInv /\ ShownRight
  BY DEF IInv
<1>2. PICK x \in Strays : /\ out' = [out EXCEPT ![w] = Packet(Head(reqs), x)]
                          /\ plain' = (plain /\ Clean(Packet(Head(reqs), x)))
  BY DEF Compose
<1>3. /\ reqs # <<>> /\ reqs' = Tail(reqs) /\ net' = net /\ cpc' = cpc /\ query' = query /\ line' = line
      /\ shown' = shown /\ up' = up /\ spc' = spc /\ pipe' = pipe /\ reset' = reset
  BY DEF Compose, clientVars
<1>4. plain' => plain /\ Clean(Packet(Head(reqs), x))
  BY <1>2
<1>5. Good' => Good
  BY <1>3, <1>4, GoodBefore
<1>6. ASSUME Good' PROVE Composed'
  <2>1. Asked /\ up = <<>> /\ reqs = <<query>>
    BY <1>1, <1>3, <1>5, <1>6 DEF StepInv, Nowhere, Asked, Composed, Sent
  <2>2. Head(reqs) = query /\ reqs' = <<>>
    BY <1>3, <2>1
  <2>3. Clean(Packet(query, x))
    BY <1>4, <1>6, <2>2 DEF Good
  <2>4. out'[w] = Packet(query, x) /\ \A v \in Workers \ {w} : out'[v] = <<>>
    <3>1. out' = [out EXCEPT ![w] = Packet(query, x)] /\ out \in [Workers -> Seq(Byte)]
      BY <1>1, <1>2, <2>2 DEF TypeOK
    <3>2. \A v \in Workers : out[v] = <<>>
      BY <2>1 DEF Asked, Silent
    <3> QED
      BY <3>1, <3>2
  <2>5. Unread' = Unread
    BY <1>3 DEF Unread
  <2> QED
    BY <1>3, <2>1, <2>2, <2>3, <2>4, <2>5 DEF Asked, Composed, Leftover
<1>7. LinkInv' /\ WholeInv'
  BY <1>1, <1>3, <1>5 DEF LinkInv, WholeInv
<1>8. ShownRight'
  BY <1>1, <1>3, <1>4 DEF ShownRight, Roomy
<1> QED
  BY <1>6, <1>7, <1>8 DEF IInv, StepInv

(* A worker that has an answer can write all of it. *)
LEMMA RoomForAll ==
  ASSUME IInv, Good, NEW w \in Workers, out[w] # <<>>
  PROVE  /\ Composed /\ Len(out[w]) <= Free /\ Free > 0
         /\ \E x \in Strays : /\ Clean(Packet(query, x)) /\ out[w] = Packet(query, x)
                              /\ \A v \in Workers \ {w} : out[v] = <<>>
<1>1. TypeOK /\ StepInv
  BY DEF IInv
<1>2. Composed
  BY <1>1 DEF StepInv, Nowhere, Asked, Sent, Silent
<1>3. PICK u \in Workers, x \in Strays :
        /\ Clean(Packet(query, x)) /\ out[u] = Packet(query, x)
        /\ \A v \in Workers \ {u} : out[v] = <<>>
  BY <1>2 DEF Composed
<1>4. u = w
  BY <1>3
<1>5. query \in Lens /\ x \in Byte /\ 0 \in Byte /\ Unread \in Leftovers
  BY <1>2, Sizes DEF Composed, Leftover
<1>6. Len(pipe) \in Nat /\ Len(pipe) <= 1
  <2>1. PICK a \in Nat, b \in Nat : a = Len(line) /\ b = Len(pipe)
    BY <1>1, UnreadFacts
  <2>2. a + b \in {0, 1}
    BY <1>1, <1>5, <2>1, UnreadFacts, LeftoverFacts
  <2> QED
    BY <2>1, <2>2
<1>7. Len(Packet(query, 0)) = Total(query) /\ Len(Packet(query, x)) = Total(query) /\ Total(query) \in Nat
      /\ Total(query) > 0
  <2>1. EndOf(query) \in 1 .. Total(query) /\ Total(query) \in Nat
    BY <1>5, PacketFacts
  <2> QED
    BY <1>5, <2>1, PacketFacts
<1>8. Total(query) < net.room /\ net.room \in Nat
  <2>1. Total(query) < net.room
    BY <1>5, <1>7 DEF Good, Roomy
  <2> QED
    BY <1>1, <2>1, WireAssumption DEF TypeOK, Net
<1>9. Total(query) <= Free /\ Free > 0
  <2>1. PICK t \in Nat, a \in Nat, m \in Nat : t = Total(query) /\ a = Len(pipe) /\ m = net.room
    BY <1>6, <1>7, <1>8
  <2>2. t <= m - a /\ m - a > 0
    BY <1>6, <1>7, <1>8, <2>1
  <2> QED
    BY <2>1, <2>2 DEF Free
<1> QED
  BY <1>2, <1>3, <1>4, <1>7, <1>9

LEMMA WriteStep == ASSUME IInv, TypeOK', NEW w \in Workers, Write(w) PROVE IInv'
<1>1. TypeOK /\ StepInv /\ LinkInv /\ WholeInv /\ ShownRight
  BY DEF IInv
<1>2. /\ out[w] # <<>> /\ spc = "up" /\ reset' = (cpc = "quit")
      /\ net' = net /\ cpc' = cpc /\ query' = query /\ line' = line /\ shown' = shown
      /\ up' = up /\ reqs' = reqs /\ spc' = spc /\ plain' = plain
  BY DEF Write, clientVars
<1>3. Good' => Good
  BY <1>2, GoodBefore
<1>4. ASSUME Good' PROVE Sent' /\ cpc = "read"
  <2>1. Composed /\ Len(out[w]) <= Free
    BY <1>2, <1>3, <1>4, RoomForAll
  <2>2. PICK x \in Strays : /\ Clean(Packet(query, x)) /\ out[w] = Packet(query, x)
                            /\ \A v \in Workers \ {w} : out[v] = <<>>
    BY <1>2, <1>3, <1>4, RoomForAll
  <2>3. /\ \A v \in Workers \ {w} : out'[v] = out[v]
        /\ out'[w] = <<>> /\ pipe' = Joined(pipe, out[w])
    BY <1>1, <2>1, WriteFacts
  <2>4. Silent'
    BY <2>2, <2>3 DEF Silent
  <2>5. Unread' = Joined(Unread, Packet(query, x))
    <3>1. PICK p \in Seq(Byte) : p = Packet(query, x)
      BY <2>1, Sizes, PacketFacts DEF Composed
    <3>2. line \in Seq(Byte) /\ pipe \in Seq(Byte)
      BY <1>1 DEF TypeOK
    <3>3. (line \o pipe) \o p = line \o (pipe \o p)
      BY ONLY <3>2, p \in Seq(Byte)
    <3>4. Unread' = Joined(line, Joined(pipe, p))
      BY <1>2, <2>2, <2>3, <3>1 DEF Unread
    <3> QED
      BY <3>1, <3>3, <3>4 DEF Joined, Unread
  <2>6. Unread \in Leftovers /\ Leftover(Unread)
    BY <2>1 DEF Composed, Leftover
  <2>7. PICK l \in Leftovers : l = Unread
    BY <2>6
  <2>8. Leftover(l)'
    BY <1>2, <2>6, <2>7 DEF Leftover
  <2> QED
    BY <1>2, <2>1, <2>2, <2>4, <2>5, <2>7, <2>8 DEF Sent, Composed
<1>5. LinkInv'
  BY <1>1, <1>2, <1>3, <1>4 DEF LinkInv
<1>6. WholeInv'
  BY <1>1, <1>2, <1>3 DEF WholeInv
<1>7. ShownRight'
  BY <1>1, <1>2 DEF ShownRight, Roomy
<1> QED
  BY <1>4, <1>5, <1>6, <1>7 DEF IInv, StepInv

(* While answers are clean and nobody left, no write fails. *)
LEMMA WriteFailsStep == ASSUME IInv, TypeOK', NEW w \in Workers, WriteFails(w) PROVE IInv'
<1>1. TypeOK /\ StepInv /\ LinkInv
  BY DEF IInv
<1>2. /\ out[w] # <<>> /\ (spc = "closed" \/ reset \/ Free <= 0) /\ net' = net /\ plain' = plain
  BY DEF WriteFails
<1>3. ASSUME Good' PROVE FALSE
  <2>1. Good
    BY <1>2, <1>3, GoodBefore
  <2>2. Composed /\ Free > 0
    BY <1>2, <2>1, RoomForAll
  <2>3. cpc = "read" /\ spc = "up" /\ ~reset
    BY <1>1, <2>1, <2>2 DEF Composed, LinkInv
  <2>4. Free \in Int
    <3>1. Len(pipe) \in Nat
      BY <1>1, UnreadFacts
    <3>2. net.room \in Nat
      BY <1>1, WireAssumption DEF TypeOK, Net
    <3> QED
      BY <3>1, <3>2 DEF Free
  <2> QED
    BY <1>2, <2>2, <2>3, <2>4
<1> QED
  BY <1>3 DEF IInv, StepInv, LinkInv, WholeInv, ShownRight, Good

LEMMA NextStep == IInv /\ [Next]_vars => IInv'
<1> SUFFICES ASSUME IInv, [Next]_vars PROVE IInv'
  OBVIOUS
<1>1. CASE Next
  <2>1. TypeOK'
    BY <1>1, ClientType, ServerType DEF Next, IInv
  <2>2. CASE Client
    BY <2>1, <2>2, SendRequestStep, ReceivePartStep, ReceiveLineStep, ReceiveEndStep, QuitStep DEF Client
  <2>3. CASE Server
    BY <2>1, <2>3, ReadRequestStep, ReadEndStep, ReadResetStep, ComposeStep, WriteStep, WriteFailsStep
       DEF Server
  <2> QED
    BY <1>1, <2>2, <2>3 DEF Next
<1>2. CASE UNCHANGED vars
  <2>1. StepInv' /\ WholeInv' /\ ShownRight' /\ (Good' => Good)
    BY <1>2, PlacesKept DEF IInv, vars, clientVars, serverVars
  <2>2. TypeOK'
    BY <1>2 DEF IInv, TypeOK, vars, clientVars, serverVars
  <2>3. LinkInv'
    BY <1>2, <2>1 DEF IInv, LinkInv, vars, clientVars, serverVars
  <2> QED
    BY <2>1, <2>2, <2>3 DEF IInv
<1> QED
  BY <1>1, <1>2

(* The invariant of the specification. *)
THEOREM Invariance == Spec => []IInv
<1>1. Init => IInv
  BY InitInv
<1>2. IInv /\ [Next]_vars => IInv'
  BY NextStep
<1> QED
  BY <1>1, <1>2, PTL DEF Spec
-----------------------------------------------------------------------------
(* The properties.                                                          *)

(* Bytes stay bytes, buffers keep their lengths, and what rio_readlineb has *)
(* of a line leaves room in buf (csapp.c, rio_readlineb).                   *)
THEOREM TypeCorrect == Spec => []TypeOK
<1>1. IInv => TypeOK
  BY DEF IInv
<1> QED
  BY <1>1, Invariance, PTL

(* While answers are clean, a client that is not waiting owes nothing and   *)
(* is owed nothing but the byte behind its last answer: one line, one       *)
(* answer (client_1.c lines 69-71 against server_tc.c line 185).            *)
THEOREM ClientSettled == Spec => []Settled
<1>1. IInv => Settled
  <2> SUFFICES ASSUME IInv, Good, cpc = "idle" PROVE Nowhere /\ Len(pipe) <= 1
    BY DEF Settled, Good, Nowhere, Silent
  <2>1. Nowhere
    BY DEF IInv, StepInv, Asked, Composed, Sent
  <2>2. pipe \in Leftovers
    BY <2>1 DEF Nowhere, Leftover
  <2>3. Len(pipe) \in {0, 1}
    BY <2>2, LeftoverFacts
  <2>4. Len(pipe) <= 1
    BY <2>3
  <2> QED
    BY <2>1, <2>4
<1> QED
  BY <1>1, Invariance, PTL

(* While answers are clean, a client shows the answer to its last query or, *)
(* when the network cut the previous answer in front of its last byte,      *)
(* nothing (client_1.c lines 73-83).                                        *)
THEOREM ShowsTheAnswer == Spec => []ShownRight
<1>1. IInv => ShownRight
  BY DEF IInv
<1> QED
  BY <1>1, Invariance, PTL

(* While answers are clean and received in one piece, no order of requests, *)
(* answers and quits ends the server (server_tc.c line 340).                *)
THEOREM ServerSurvives == Spec => []NoAbort
<1>1. IInv => NoAbort
  BY DEF IInv, LinkInv, NoAbort, Good
<1> QED
  BY <1>1, Invariance, PTL

(* Where NoFileTrue fails, an answer that is not clean is to blame: as long *)
(* as there was none, "No file" is printed only when the server found none, *)
(* though the network may cut an answer in any place (client_1.c lines      *)
(* 73-75).                                                                  *)
THEOREM WrongNoFileNeedsEOF == Spec => [](plain /\ Roomy => NoFileTrue)
<1>1. TypeOK /\ ShownRight => (plain /\ Roomy => NoFileTrue)
  <2> SUFFICES ASSUME TypeOK, ShownRight, plain, Roomy, cpc = "idle", shown = NoFileMsg
               PROVE  query = 0
    BY DEF NoFileTrue
  <2>1. \/ shown = (IF query = 0 THEN NoFileMsg ELSE query)
        \/ shown = Nothing
    BY DEF ShownRight
  <2>2. query \in Nat
    BY WireAssumption DEF TypeOK, EOF
  <2>3. NoFileMsg \notin Nat /\ NoFileMsg # Nothing
    BY DEF NoFileMsg, Nothing
  <2> QED
    BY <2>1, <2>2, <2>3
<1> QED
  BY <1>1, TypeCorrect, ShowsTheAnswer, PTL
=============================================================================
