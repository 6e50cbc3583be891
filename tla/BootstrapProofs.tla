-------------------------- MODULE BootstrapProofs ----------------------------
(***************************************************************************)
(* The index for any words, any number of files, lines and words of a line.*)
(* First the lists of lines, documents and terms by themselves: what       *)
(* add_line_node, add_doc_node and add_node keep and what they count.      *)
(* Then making_inverted_index: what was entered of the file being read.    *)
(***************************************************************************)
EXTENDS Bootstrap, DataLemmas

Numbers == 1 .. MaxLines + 1

LineNode == [line_num : Numbers, line_freq : Nat \ {0}, total_length : Nat \ {0}]

DocNode == [doc_name : Docs, doc_freq : Nat \ {0}, total_length : Nat \ {0},
            line_node : Seq(LineNode)]

TermNode == [term : Words, term_freq : Nat \ {0}, total_length : Nat \ {0},
             is_initial : {0, 1}, doc_node : Seq(DocNode)]

-----------------------------------------------------------------------------
(* Lists of lines.                                                          *)

LineFreqs(ls) == [k \in DOMAIN ls |-> ls[k].line_freq]
LineTotal(ls) == SumOver(LineFreqs(ls), DOMAIN ls)

LinesOK(ls) ==
  /\ ls \in Seq(LineNode) /\ Len(ls) > 0 /\ ls[1].total_length = Len(ls)
  /\ \A j, k \in DOMAIN ls : ls[j].line_num = ls[k].line_num => j = k

(* How often the word stands on line n. *)
LineCount(ls, n) ==
  IF \E k \in DOMAIN ls : ls[k].line_num = n
  THEN ls[CHOOSE k \in DOMAIN ls : ls[k].line_num = n].line_freq ELSE 0

(* No line is above n, and they ascend. *)
RisingTo(ls, n) == /\ \A k \in DOMAIN ls : ls[k].line_num <= n
                   /\ \A j, k \in DOMAIN ls : j < k => ls[j].line_num < ls[k].line_num

LEMMA LineCountIs ==
  ASSUME NEW ls, LinesOK(ls), NEW n
  PROVE  /\ \A k \in DOMAIN ls : ls[k].line_num = n => LineCount(ls, n) = ls[k].line_freq
         /\ (\A k \in DOMAIN ls : ls[k].line_num # n) => LineCount(ls, n) = 0
<1>1. (\A k \in DOMAIN ls : ls[k].line_num # n) => LineCount(ls, n) = 0
  BY DEF LineCount
<1>2. ASSUME NEW k \in DOMAIN ls, ls[k].line_num = n PROVE LineCount(ls, n) = ls[k].line_freq
  <2> DEFINE j == CHOOSE q \in DOMAIN ls : ls[q].line_num = n
  <2>1. j \in DOMAIN ls /\ ls[j].line_num = n
    BY <1>2
  <2>2. j = k
    BY <1>2, <2>1 DEF LinesOK
  <2> QED
    BY <1>2, <2>2 DEF LineCount
<1> QED
  BY <1>1, <1>2

LEMMA LineCountOf ==
  ASSUME NEW ls, LinesOK(ls), NEW n
  PROVE  /\ LineCount(ls, n) \in Nat
         /\ LineCount(ls, n) > 0 <=> \E k \in DOMAIN ls : ls[k].line_num = n
<1>1. \A k \in DOMAIN ls : ls[k].line_freq \in Nat \ {0}
  <2>1. ls \in Seq(LineNode) /\ DOMAIN ls = 1 .. Len(ls)
    BY LenProperties DEF LinesOK
  <2>2. \A k \in DOMAIN ls : ls[k] \in LineNode
    BY <2>1, ElementOfSeq
  <2> QED
    BY <2>2 DEF LineNode
<1>2. CASE \E k \in DOMAIN ls : ls[k].line_num = n
  <2>1. PICK k \in DOMAIN ls : ls[k].line_num = n
    BY <1>2
  <2>2. LineCount(ls, n) = ls[k].line_freq
    BY <2>1, LineCountIs
  <2>3. PICK m \in Nat \ {0} : m = ls[k].line_freq
    BY <1>1
  <2> QED
    BY <1>2, <2>2, <2>3
<1>3. CASE \A k \in DOMAIN ls : ls[k].line_num # n
  <2>1. LineCount(ls, n) = 0
    BY <1>3, LineCountIs
  <2> QED
    BY <1>3, <2>1
<1> QED
  BY <1>2, <1>3

LEMMA FirstLineNode ==
  ASSUME NEW n \in Numbers
  PROVE  LET ls == <<new_line_node(n)>>
         IN  /\ LinesOK(ls) /\ LineTotal(ls) = 1 /\ RisingTo(ls, n)
             /\ \A m : LineCount(ls, m) = IF m = n THEN 1 ELSE 0
<1> DEFINE ls == <<new_line_node(n)>>
<1>1. /\ DOMAIN ls = {1} /\ ls[1].line_num = n /\ ls[1].line_freq = 1
      /\ ls[1].total_length = 1 /\ ls \in Seq(LineNode) /\ Len(ls) = 1
  BY DEF new_line_node, LineNode
<1> HIDE DEF ls
<1>2. LinesOK(ls)
  BY <1>1 DEF LinesOK
<1>3. LineTotal(ls) = 1
  <2>1. PICK f : f = LineFreqs(ls)
    OBVIOUS
  <2>2. f[1] = 1
    BY <1>1, <2>1 DEF LineFreqs
  <2>3. SumOver(f, {1}) = 1
    BY <2>2, SumOfOne
  <2> QED
    BY <1>1, <2>1, <2>3 DEF LineTotal
<1>4. \A m : LineCount(ls, m) = IF m = n THEN 1 ELSE 0
  BY <1>1, <1>2, LineCountIs
<1>5. RisingTo(ls, n)
  BY <1>1 DEF RisingTo, Numbers
<1> QED
  BY <1>2, <1>3, <1>4, <1>5 DEF ls

(* add_line_node counts one occurrence on line n. *)
LEMMA AddLine ==
  ASSUME NEW ls, LinesOK(ls), NEW n \in Numbers
  PROVE  LET r == add_line_node(ls, n)
         IN  /\ LinesOK(r) /\ LineTotal(r) = LineTotal(ls) + 1
             /\ \A m : LineCount(r, m) = LineCount(ls, m) + (IF m = n THEN 1 ELSE 0)
             /\ RisingTo(ls, n) => RisingTo(r, n)
<1> DEFINE r == add_line_node(ls, n)
           len == Len(ls)
           same == {k \in Reach(ls) : ls[k].line_num = n}
<1>1. /\ ls \in Seq(LineNode) /\ len \in Nat \ {0} /\ DOMAIN ls = 1 .. len /\ ls[1].total_length = len
      /\ \A j, k \in 1 .. len : ls[j].line_num = ls[k].line_num => j = k
      /\ \A k \in 1 .. len : ls[k] \in LineNode
  BY LenProperties, ElementOfSeq DEF LinesOK
<1>2. same = {k \in 1 .. len : ls[k].line_num = n}
  BY <1>1 DEF Reach
<1>3. IsFiniteSet(1 .. len) /\ \A k \in 1 .. len : LineFreqs(ls)[k] = ls[k].line_freq /\ ls[k].line_freq \in Nat
  <2>1. IsFiniteSet(1 .. len)
    BY <1>1, FS_Interval
  <2>2. \A k \in 1 .. len : LineFreqs(ls)[k] = ls[k].line_freq
    BY <1>1 DEF LineFreqs
  <2>3. \A k \in 1 .. len : ls[k].line_freq \in Nat
    BY <1>1 DEF LineNode
  <2> QED
    BY <2>1, <2>2, <2>3
<1>4. LineTotal(ls) = SumOver(LineFreqs(ls), 1 .. len)
  BY <1>1 DEF LineTotal
<1> HIDE DEF len
<1>5. CASE same # {}
  <2>1. PICK a \in 1 .. len : a = Min(same) /\ ls[a].line_num = n
    <3>1. same \in SUBSET Nat
      BY <1>1, <1>2
    <3>2. Min(same) \in same
      BY <1>5, <3>1, MinOfNat
    <3> HIDE DEF same
    <3> QED
      BY <1>2, <3>2
  <2> DEFINE y == [ls[a] EXCEPT !.line_freq = ls[a].line_freq + 1]
  <2>2. r = [ls EXCEPT ![a] = y]
    BY <1>5, <2>1 DEF add_line_node
  <2>3. /\ y \in LineNode /\ y.line_num = n /\ y.line_freq = ls[a].line_freq + 1
        /\ y.total_length = ls[a].total_length
    <3>1. PICK z \in LineNode : z = ls[a]
      BY <1>1
    <3>2. z.line_freq + 1 \in Nat \ {0}
      BY DEF LineNode
    <3>3. y = [z EXCEPT !.line_freq = z.line_freq + 1]
      BY <3>1
    <3> HIDE DEF y
    <3>4. y \in LineNode /\ y.line_num = z.line_num /\ y.line_freq = z.line_freq + 1
          /\ y.total_length = z.total_length
      BY <3>2, <3>3 DEF LineNode
    <3> QED
      BY <2>1, <3>1, <3>4
  <2> HIDE DEF r, y
  <2>4. /\ r \in Seq(LineNode) /\ Len(r) = len /\ DOMAIN r = 1 .. len
        /\ r[a] = y /\ \A k \in 1 .. len \ {a} : r[k] = ls[k]
    <3>1. r \in Seq(LineNode) /\ Len(r) = Len(ls)
      BY <1>1, <2>2, <2>3, ExceptSeq
    <3> QED
      BY <1>1, <2>2, <3>1 DEF len
  <2>5. \A k \in 1 .. len : /\ r[k].line_num = ls[k].line_num /\ r[k].total_length = ls[k].total_length
                            /\ k # a => r[k].line_freq = ls[k].line_freq
    BY <2>1, <2>3, <2>4
  <2>6. LinesOK(r)
    BY <1>1, <2>4, <2>5 DEF LinesOK
  <2>7. LineTotal(r) = LineTotal(ls) + 1
    <3>1. \A k \in 1 .. len : LineFreqs(r)[k] = r[k].line_freq
      BY <2>4 DEF LineFreqs
    <3>2. LineFreqs(r)[a] = LineFreqs(ls)[a] + 1
      BY <1>3, <2>3, <2>4, <3>1
    <3>3. \A k \in 1 .. len \ {a} : LineFreqs(r)[k] = LineFreqs(ls)[k]
      BY <1>3, <2>5, <3>1
    <3>4. \A k \in 1 .. len : LineFreqs(ls)[k] \in Nat
      BY <1>3
    <3>5. SumOver(LineFreqs(r), 1 .. len) = SumOver(LineFreqs(ls), 1 .. len) + 1
      <4>1. PICK f, g, S : f = LineFreqs(ls) /\ g = LineFreqs(r) /\ S = 1 .. len
        OBVIOUS
      <4>2. IsFiniteSet(S) /\ a \in S /\ g[a] = f[a] + 1 /\ 1 \in Nat
        BY <1>3, <3>2, <4>1
      <4>3. \A k \in S : f[k] \in Nat
        BY <3>4, <4>1
      <4>4. \A k \in S \ {a} : g[k] = f[k]
        BY <3>3, <4>1
      <4>5. SumOver(g, S) = SumOver(f, S) + 1
        BY <4>2, <4>3, <4>4, SumGrows
      <4> QED
        BY <4>1, <4>5
    <3> QED
      BY <1>4, <2>4, <3>5 DEF LineTotal
  <2>8. ASSUME NEW m PROVE LineCount(r, m) = LineCount(ls, m) + (IF m = n THEN 1 ELSE 0)
    <3>1. CASE m = n
      <4>1. LineCount(ls, m) = ls[a].line_freq
        BY <1>1, <2>1, <3>1, LineCountIs
      <4>2. LineCount(r, m) = r[a].line_freq
        BY <2>1, <2>4, <2>5, <2>6, <3>1, LineCountIs
      <4> QED
        BY <2>3, <2>4, <3>1, <4>1, <4>2
    <3>2. CASE m # n /\ \E k \in 1 .. len : ls[k].line_num = m
      <4>1. PICK k \in 1 .. len : ls[k].line_num = m
        BY <3>2
      <4>2. k # a
        BY <2>1, <3>2, <4>1
      <4>3. LineCount(ls, m) = ls[k].line_freq
        BY <1>1, <4>1, LineCountIs
      <4>4. LineCount(r, m) = r[k].line_freq
        BY <2>4, <2>5, <2>6, <4>1, LineCountIs
      <4>5. ls[k].line_freq \in Nat /\ r[k].line_freq = ls[k].line_freq
        BY <1>3, <2>5, <4>2
      <4> QED
        BY <3>2, <4>3, <4>4, <4>5
    <3>3. CASE m # n /\ \A k \in 1 .. len : ls[k].line_num # m
      <4>1. LineCount(ls, m) = 0
        BY <1>1, <3>3, LineCountIs
      <4>2. LineCount(r, m) = 0
        BY <2>4, <2>5, <2>6, <3>3, LineCountIs
      <4> QED
        BY <3>3, <4>1, <4>2
    <3> QED
      BY <3>1, <3>2, <3>3
  <2>9. RisingTo(ls, n) => RisingTo(r, n)
    BY <1>1, <2>4, <2>5 DEF RisingTo
  <2> QED
    BY <2>6, <2>7, <2>8, <2>9 DEF r
<1>6. CASE same = {}
  <2>1. \A k \in 1 .. len : ls[k].line_num # n
    BY <1>2, <1>6
  <2> DEFINE y == [ls[1] EXCEPT !.total_length = ls[1].total_length + 1]
             g == [ls EXCEPT ![1] = y]
             e == new_line_node(n)
  <2>2. r = Append(g, e)
    BY <1>6 DEF add_line_node, Grown
  <2>3. /\ y \in LineNode /\ y.line_num = ls[1].line_num /\ y.line_freq = ls[1].line_freq
        /\ y.total_length = len + 1
    <3>1. ls[1] \in LineNode /\ 1 \in 1 .. len
      BY <1>1
    <3> QED
      BY <1>1, <3>1 DEF LineNode
  <2>4. e \in LineNode /\ e.line_num = n /\ e.line_freq = 1
    BY DEF new_line_node, LineNode
  <2> HIDE DEF r, y, e
  <2>5. /\ g \in Seq(LineNode) /\ Len(g) = len /\ g[1] = y
        /\ \A k \in 2 .. len : g[k] = ls[k]
    <3>1. g \in Seq(LineNode) /\ Len(g) = Len(ls)
      BY <1>1, <2>3, ExceptSeq
    <3> QED
      BY <1>1, <3>1 DEF len
  <2> HIDE DEF g
  <2>6. /\ r \in Seq(LineNode) /\ Len(r) = len + 1 /\ DOMAIN r = 1 .. len + 1
        /\ r[len + 1] = e /\ \A k \in 1 .. len : r[k] = g[k]
    BY <2>2, <2>4, <2>5, AppendProperties, LenProperties
  <2>7. \A k \in 1 .. len : r[k].line_num = ls[k].line_num /\ r[k].line_freq = ls[k].line_freq
    <3>1. \A k \in 1 .. len : k = 1 \/ k \in 2 .. len
      BY <1>1
    <3> QED
      BY <2>3, <2>5, <2>6, <3>1
  <2>8. r[1].total_length = len + 1
    BY <1>1, <2>3, <2>5, <2>6
  <2>9. \A k \in 1 .. len + 1 : k \in 1 .. len \/ k = len + 1
    BY <1>1
  <2>10. LinesOK(r)
    <3>1. \A j, k \in 1 .. len + 1 : r[j].line_num = r[k].line_num => j = k
      BY <1>1, <2>1, <2>4, <2>6, <2>7, <2>9
    <3> QED
      BY <1>1, <2>6, <2>8, <3>1 DEF LinesOK
  <2>11. LineTotal(r) = LineTotal(ls) + 1
    <3>1. PICK f, h : f = LineFreqs(ls) /\ h = LineFreqs(r)
      OBVIOUS
    <3>2. len \in Nat /\ len + 1 \in 1 .. len + 1 /\ 1 .. len \subseteq 1 .. len + 1
      BY <1>1
    <3>3. \A k \in 1 .. len + 1 : h[k] = r[k].line_freq
      BY <2>6, <3>1 DEF LineFreqs
    <3>4. h[len + 1] = 1
      BY <2>4, <2>6, <3>2, <3>3
    <3>5. \A k \in 1 .. len : f[k] \in Nat /\ h[k] = f[k]
      BY <1>3, <2>7, <3>1, <3>2, <3>3
    <3>6. SumOver(h, 1 .. len + 1) = SumOver(f, 1 .. len) + 1
      <4>1. len \in Nat /\ h[len + 1] \in Nat
        BY <3>2, <3>4
      <4>2. SumOver(h, 1 .. len + 1) = SumOver(f, 1 .. len) + h[len + 1]
        BY <3>5, <4>1, SumExtended
      <4> QED
        BY <3>4, <4>2
    <3> QED
      BY <1>4, <2>6, <3>1, <3>6 DEF LineTotal
  <2>12. ASSUME NEW m PROVE LineCount(r, m) = LineCount(ls, m) + (IF m = n THEN 1 ELSE 0)
    <3>1. CASE m = n
      <4>1. LineCount(ls, m) = 0
        BY <1>1, <2>1, <3>1, LineCountIs
      <4>2. len + 1 \in DOMAIN r
        BY <1>1, <2>6
      <4>3. LineCount(r, m) = 1
        BY <2>4, <2>6, <2>10, <3>1, <4>2, LineCountIs
      <4> QED
        BY <3>1, <4>1, <4>3
    <3>2. CASE m # n /\ \E k \in 1 .. len : ls[k].line_num = m
      <4>1. PICK k \in 1 .. len : ls[k].line_num = m
        BY <3>2
      <4>2. LineCount(ls, m) = ls[k].line_freq
        BY <1>1, <4>1, LineCountIs
      <4>3. k \in DOMAIN r
        BY <1>1, <2>6
      <4>4. LineCount(r, m) = r[k].line_freq
        BY <2>7, <2>10, <4>1, <4>3, LineCountIs
      <4>5. ls[k].line_freq \in Nat /\ r[k].line_freq = ls[k].line_freq
        BY <1>3, <2>7
      <4> QED
        BY <3>2, <4>2, <4>4, <4>5
    <3>3. CASE m # n /\ \A k \in 1 .. len : ls[k].line_num # m
      <4>1. LineCount(ls, m) = 0
        BY <1>1, <3>3, LineCountIs
      <4>2. \A k \in DOMAIN r : r[k].line_num # m
        BY <2>4, <2>6, <2>7, <2>9, <3>3
      <4>3. LineCount(r, m) = 0
        BY <2>10, <4>2, LineCountIs
      <4> QED
        BY <3>3, <4>1, <4>3
    <3> QED
      BY <3>1, <3>2, <3>3
  <2>13. ASSUME RisingTo(ls, n) PROVE RisingTo(r, n)
    <3>1. \A k \in 1 .. len : ls[k].line_num < n
      <4>1. n \in Nat /\ Numbers \subseteq Nat
        BY BootstrapAssumption DEF Numbers
      <4>2. \A k \in 1 .. len : ls[k].line_num <= n
        BY <1>1, <2>13 DEF RisingTo
      <4>3. \A k \in 1 .. len : ls[k].line_num \in Numbers
        BY <1>1 DEF LineNode
      <4> SUFFICES ASSUME NEW k \in 1 .. len PROVE ls[k].line_num < n
        OBVIOUS
      <4>4. PICK m \in Nat : m = ls[k].line_num
        BY <4>1, <4>3
      <4>5. m <= n /\ m # n
        BY <2>1, <4>2, <4>4
      <4> QED
        BY <4>1, <4>4, <4>5
    <3>2. n \in Nat /\ n <= n
      BY BootstrapAssumption DEF Numbers
    <3>3. \A k \in 1 .. len + 1 : r[k].line_num <= n
      BY <2>4, <2>6, <2>7, <2>9, <2>13, <1>1, <3>2 DEF RisingTo
    <3>4. ASSUME NEW j \in 1 .. len + 1, NEW k \in 1 .. len + 1, j < k
          PROVE  r[j].line_num < r[k].line_num
      <4>1. j \in 1 .. len
        BY <1>1, <3>4
      <4>2. CASE k \in 1 .. len
        BY <1>1, <2>7, <2>13, <3>4, <4>1, <4>2 DEF RisingTo
      <4>3. CASE k = len + 1
        BY <2>4, <2>6, <2>7, <3>1, <4>1, <4>3
      <4> QED
        BY <2>9, <4>2, <4>3
    <3> QED
      BY <2>6, <3>3, <3>4 DEF RisingTo
  <2> QED
    BY <2>10, <2>11, <2>12, <2>13 DEF r
<1> QED
  BY <1>5, <1>6

-----------------------------------------------------------------------------
(* Lists of documents.                                                      *)

DocFreqs(ds) == [k \in DOMAIN ds |-> ds[k].doc_freq]
DocTotal(ds) == SumOver(DocFreqs(ds), DOMAIN ds)

DocsOK(ds) ==
  /\ ds \in Seq(DocNode) /\ Len(ds) > 0 /\ ds[1].total_length = Len(ds)
  /\ \A j, k \in DOMAIN ds : ds[j].doc_name = ds[k].doc_name => j = k
  /\ \A k \in DOMAIN ds : /\ LinesOK(ds[k].line_node)
                          /\ ds[k].doc_freq = LineTotal(ds[k].line_node)

(* How often the word stands on line n of document x. *)
DocCount(ds, x, n) ==
  IF \E k \in DOMAIN ds : ds[k].doc_name = x
  THEN LineCount(ds[CHOOSE k \in DOMAIN ds : ds[k].doc_name = x].line_node, n) ELSE 0

(* The lines of document x ascend up to n. *)
DocRisingTo(ds, x, n) ==
  \A k \in DOMAIN ds : ds[k].doc_name = x => RisingTo(ds[k].line_node, n)

LEMMA DocCountIs ==
  ASSUME NEW ds, DocsOK(ds), NEW x, NEW n
  PROVE  /\ \A k \in DOMAIN ds : ds[k].doc_name = x => DocCount(ds, x, n) = LineCount(ds[k].line_node, n)
         /\ (\A k \in DOMAIN ds : ds[k].doc_name # x) => DocCount(ds, x, n) = 0
<1>1. (\A k \in DOMAIN ds : ds[k].doc_name # x) => DocCount(ds, x, n) = 0
  BY DEF DocCount
<1>2. ASSUME NEW k \in DOMAIN ds, ds[k].doc_name = x
      PROVE  DocCount(ds, x, n) = LineCount(ds[k].line_node, n)
  <2> DEFINE j == CHOOSE q \in DOMAIN ds : ds[q].doc_name = x
  <2>1. j \in DOMAIN ds /\ ds[j].doc_name = x
    BY <1>2
  <2>2. j = k
    BY <1>2, <2>1 DEF DocsOK
  <2> QED
    BY <1>2, <2>2 DEF DocCount
<1> QED
  BY <1>1, <1>2

LEMMA DocCountOf ==
  ASSUME NEW ds, DocsOK(ds), NEW x, NEW n
  PROVE  /\ DocCount(ds, x, n) \in Nat
         /\ DocCount(ds, x, n) > 0 <=> \E k \in DOMAIN ds :
              ds[k].doc_name = x /\ \E j \in DOMAIN ds[k].line_node : ds[k].line_node[j].line_num = n
<1>1. CASE \E k \in DOMAIN ds : ds[k].doc_name = x
  <2>1. PICK k \in DOMAIN ds : ds[k].doc_name = x
    BY <1>1
  <2>2. DocCount(ds, x, n) = LineCount(ds[k].line_node, n)
    BY <2>1, DocCountIs
  <2>3. LinesOK(ds[k].line_node) /\ \A j \in DOMAIN ds : ds[j].doc_name = x => j = k
    BY <2>1 DEF DocsOK
  <2>4. PICK ls : ls = ds[k].line_node
    OBVIOUS
  <2>5. LineCount(ls, n) \in Nat /\ (LineCount(ls, n) > 0 <=> \E j \in DOMAIN ls : ls[j].line_num = n)
    BY <2>3, <2>4, LineCountOf
  <2>6. DocCount(ds, x, n) = LineCount(ls, n)
    BY <2>2, <2>4
  <2>7. (\E q \in DOMAIN ds : ds[q].doc_name = x
            /\ \E j \in DOMAIN ds[q].line_node : ds[q].line_node[j].line_num = n)
          <=> \E j \in DOMAIN ls : ls[j].line_num = n
    BY <2>1, <2>3, <2>4
  <2> QED
    BY <2>5, <2>6, <2>7
<1>2. CASE \A k \in DOMAIN ds : ds[k].doc_name # x
  <2>1. DocCount(ds, x, n) = 0
    BY <1>2, DocCountIs
  <2> QED
    BY <1>2, <2>1
<1> QED
  BY <1>1, <1>2

LEMMA FirstDocNode ==
  ASSUME NEW x \in Docs, NEW n \in Numbers
  PROVE  LET ds == <<new_doc_node(x, n)>>
         IN  /\ DocsOK(ds) /\ DocTotal(ds) = 1
             /\ DocRisingTo(ds, x, n) /\ \A y, m : y # x => DocRisingTo(ds, y, m)
             /\ \A y, m : DocCount(ds, y, m) = IF y = x /\ m = n THEN 1 ELSE 0
<1> DEFINE ls == <<new_line_node(n)>>
           e == new_doc_node(x, n)
           ds == <<e>>
<1>1. /\ LinesOK(ls) /\ LineTotal(ls) = 1 /\ RisingTo(ls, n)
      /\ \A m : LineCount(ls, m) = IF m = n THEN 1 ELSE 0
  BY FirstLineNode
<1>2. /\ e \in DocNode /\ e.doc_name = x /\ e.doc_freq = 1 /\ e.total_length = 1
      /\ e.line_node = ls
  <2>1. ls \in Seq(LineNode)
    BY <1>1 DEF LinesOK
  <2> HIDE DEF ls
  <2>2. e = [doc_name |-> x, doc_freq |-> 1, total_length |-> 1, line_node |-> ls]
    BY DEF new_doc_node, ls
  <2> HIDE DEF e
  <2> QED
    BY <2>1, <2>2 DEF DocNode
<1> HIDE DEF ls, e
<1>3. DOMAIN ds = {1} /\ ds[1] = e /\ ds \in Seq(DocNode) /\ Len(ds) = 1
  BY <1>2
<1> HIDE DEF ds
<1>4. DocsOK(ds)
  BY <1>1, <1>2, <1>3 DEF DocsOK
<1>5. DocTotal(ds) = 1
  <2>1. PICK f : f = DocFreqs(ds)
    OBVIOUS
  <2>2. f[1] = 1
    BY <1>2, <1>3, <2>1 DEF DocFreqs
  <2>3. SumOver(f, {1}) = 1
    BY <2>2, SumOfOne
  <2> QED
    BY <1>3, <2>1, <2>3 DEF DocTotal
<1>6. \A y, m : DocCount(ds, y, m) = IF y = x /\ m = n THEN 1 ELSE 0
  <2> SUFFICES ASSUME NEW y, NEW m PROVE DocCount(ds, y, m) = IF y = x /\ m = n THEN 1 ELSE 0
    OBVIOUS
  <2>1. y = x => DocCount(ds, y, m) = LineCount(ls, m)
    BY <1>2, <1>3, <1>4, DocCountIs
  <2>2. y # x => DocCount(ds, y, m) = 0
    BY <1>2, <1>3, <1>4, DocCountIs
  <2> QED
    BY <1>1, <2>1, <2>2
<1>7. DocRisingTo(ds, x, n) /\ \A y, m : y # x => DocRisingTo(ds, y, m)
  BY <1>1, <1>2, <1>3 DEF DocRisingTo
<1> QED
  BY <1>4, <1>5, <1>6, <1>7 DEF ds, e

(* add_doc_node counts one occurrence on line n of document x. *)
LEMMA AddDoc ==
  ASSUME NEW ds, DocsOK(ds), NEW x \in Docs, NEW n \in Numbers
  PROVE  LET r == add_doc_node(ds, x, n)
         IN  /\ DocsOK(r) /\ DocTotal(r) = DocTotal(ds) + 1
             /\ \A y, m : DocCount(r, y, m) = DocCount(ds, y, m) + (IF y = x /\ m = n THEN 1 ELSE 0)
             /\ DocRisingTo(ds, x, n) => DocRisingTo(r, x, n)
             /\ \A y, m : y # x /\ DocRisingTo(ds, y, m) => DocRisingTo(r, y, m)
<1> DEFINE r == add_doc_node(ds, x, n)
           len == Len(ds)
           same == {k \in Reach(ds) : ds[k].doc_name = x}
<1>1. /\ ds \in Seq(DocNode) /\ len \in Nat \ {0} /\ DOMAIN ds = 1 .. len /\ ds[1].total_length = len
      /\ \A j, k \in 1 .. len : ds[j].doc_name = ds[k].doc_name => j = k
      /\ \A k \in 1 .. len : ds[k] \in DocNode
      /\ \A k \in 1 .. len : /\ LinesOK(ds[k].line_node)
                             /\ ds[k].doc_freq = LineTotal(ds[k].line_node)
  BY LenProperties, ElementOfSeq DEF DocsOK
<1>2. same = {k \in 1 .. len : ds[k].doc_name = x}
  BY <1>1 DEF Reach
<1>3. IsFiniteSet(1 .. len) /\ \A k \in 1 .. len : DocFreqs(ds)[k] = ds[k].doc_freq /\ ds[k].doc_freq \in Nat
  <2>1. IsFiniteSet(1 .. len)
    BY <1>1, FS_Interval
  <2>2. \A k \in 1 .. len : DocFreqs(ds)[k] = ds[k].doc_freq
    BY <1>1 DEF DocFreqs
  <2>3. \A k \in 1 .. len : ds[k].doc_freq \in Nat
    BY <1>1 DEF DocNode
  <2> QED
    BY <2>1, <2>2, <2>3
<1>4. DocTotal(ds) = SumOver(DocFreqs(ds), 1 .. len)
  BY <1>1 DEF DocTotal
<1>0. \A y, m : DocCount(ds, y, m) \in Nat
  BY DocCountOf
<1> HIDE DEF len
<1>5. CASE same # {}
  <2>1. PICK a \in 1 .. len : a = Min(same) /\ ds[a].doc_name = x
    <3>1. same \in SUBSET Nat
      BY <1>1, <1>2
    <3>2. Min(same) \in same
      BY <1>5, <3>1, MinOfNat
    <3> HIDE DEF same
    <3> QED
      BY <1>2, <3>2
  <2>2. PICK z \in DocNode : z = ds[a]
    BY <1>1
  <2>3. PICK ls : z = ds[a] /\ ls = z.line_node
    BY <2>2
  <2> DEFINE q == add_line_node(ls, n)
             y == [z EXCEPT !.doc_freq = z.doc_freq + 1, !.line_node = q]
  <2>4. r = [ds EXCEPT ![a] = y]
    <3>1. r = [ds EXCEPT ![a].doc_freq = @ + 1, ![a].line_node = add_line_node(@, n)]
      BY <1>5, <2>1 DEF add_doc_node
    <3> HIDE DEF r
    <3>2. r = [ds EXCEPT ![a] = [ds[a] EXCEPT !.doc_freq = @ + 1, !.line_node = add_line_node(@, n)]]
      BY <3>1
    <3> QED
      BY <2>3, <3>2
  <2>5. /\ LinesOK(q) /\ LineTotal(q) = LineTotal(ls) + 1
        /\ \A m : LineCount(q, m) = LineCount(ls, m) + (IF m = n THEN 1 ELSE 0)
        /\ RisingTo(ls, n) => RisingTo(q, n)
    <3>1. LinesOK(ls)
      BY <1>1, <2>3
    <3> QED
      BY <3>1, AddLine
  <2> HIDE DEF q
  <2>6. /\ y \in DocNode /\ y.doc_name = x /\ y.doc_freq = z.doc_freq + 1
        /\ y.total_length = z.total_length /\ y.line_node = q
    <3>1. z.doc_freq + 1 \in Nat \ {0} /\ q \in Seq(LineNode)
      BY <2>5 DEF DocNode, LinesOK
    <3> QED
      BY <2>1, <2>3, <3>1 DEF DocNode
  <2> HIDE DEF r, y
  <2>7. /\ r \in Seq(DocNode) /\ Len(r) = len /\ DOMAIN r = 1 .. len
        /\ r[a] = y /\ \A k \in 1 .. len \ {a} : r[k] = ds[k]
    <3>1. r \in Seq(DocNode) /\ Len(r) = Len(ds)
      BY <1>1, <2>4, <2>6, ExceptSeq
    <3> QED
      BY <1>1, <2>4, <3>1 DEF len
  <2>8. \A k \in 1 .. len : r[k].doc_name = ds[k].doc_name /\ r[k].total_length = ds[k].total_length
    BY <2>1, <2>3, <2>6, <2>7
  <2>9. DocsOK(r)
    <3>1. \A k \in 1 .. len : LinesOK(r[k].line_node) /\ r[k].doc_freq = LineTotal(r[k].line_node)
      <4>1. LinesOK(r[a].line_node) /\ r[a].doc_freq = LineTotal(r[a].line_node)
        <5>1. z.doc_freq = LineTotal(ls)
          BY <1>1, <2>3
        <5> QED
          BY <2>5, <2>6, <2>7, <5>1
      <4> QED
        BY <1>1, <2>7, <4>1
    <3> QED
      BY <1>1, <2>7, <2>8, <3>1 DEF DocsOK
  <2>10. DocTotal(r) = DocTotal(ds) + 1
    <3>1. PICK f, g, S : f = DocFreqs(ds) /\ g = DocFreqs(r) /\ S = 1 .. len
      OBVIOUS
    <3>2. \A k \in S : g[k] = r[k].doc_freq
      BY <2>7, <3>1 DEF DocFreqs
    <3>3. IsFiniteSet(S) /\ a \in S /\ g[a] = f[a] + 1 /\ 1 \in Nat
      BY <1>3, <2>3, <2>6, <2>7, <3>1, <3>2
    <3>4. \A k \in S : f[k] \in Nat
      BY <1>3, <3>1
    <3>5. \A k \in S \ {a} : g[k] = f[k]
      BY <1>3, <2>7, <3>1, <3>2
    <3>6. SumOver(g, S) = SumOver(f, S) + 1
      BY <3>3, <3>4, <3>5, SumGrows
    <3> QED
      BY <1>4, <2>7, <3>1, <3>6 DEF DocTotal
  <2>11. ASSUME NEW v, NEW m
         PROVE  DocCount(r, v, m) = DocCount(ds, v, m) + (IF v = x /\ m = n THEN 1 ELSE 0)
    <3>1. CASE v = x
      <4>1. DocCount(ds, v, m) = LineCount(ls, m)
        BY <1>1, <2>1, <2>3, <3>1, DocCountIs
      <4>2. DocCount(r, v, m) = LineCount(q, m)
        BY <2>1, <2>6, <2>7, <2>9, <3>1, DocCountIs
      <4> QED
        BY <2>5, <3>1, <4>1, <4>2
    <3>2. CASE v # x /\ \E k \in 1 .. len : ds[k].doc_name = v
      <4>1. PICK k \in 1 .. len : ds[k].doc_name = v
        BY <3>2
      <4>2. k # a
        BY <2>1, <3>2, <4>1
      <4>3. DocCount(ds, v, m) = LineCount(ds[k].line_node, m)
        BY <1>1, <4>1, DocCountIs
      <4>4. DocCount(r, v, m) = LineCount(r[k].line_node, m)
        BY <2>7, <2>8, <2>9, <4>1, DocCountIs
      <4>5. r[k] = ds[k]
        BY <2>7, <4>2
      <4>6. DocCount(r, v, m) = DocCount(ds, v, m) /\ DocCount(ds, v, m) \in Nat
        BY <1>0, <4>3, <4>4, <4>5
      <4> QED
        BY <3>2, <4>6
    <3>3. CASE v # x /\ \A k \in 1 .. len : ds[k].doc_name # v
      <4>1. DocCount(ds, v, m) = 0
        BY <1>1, <3>3, DocCountIs
      <4>2. DocCount(r, v, m) = 0
        BY <2>7, <2>8, <2>9, <3>3, DocCountIs
      <4> QED
        BY <3>3, <4>1, <4>2
    <3> QED
      BY <3>1, <3>2, <3>3
  <2>12. DocRisingTo(ds, x, n) => DocRisingTo(r, x, n)
    <3> SUFFICES ASSUME DocRisingTo(ds, x, n), NEW k \in 1 .. len, r[k].doc_name = x
                 PROVE  RisingTo(r[k].line_node, n)
      BY <2>7 DEF DocRisingTo
    <3>1. k = a
      BY <1>1, <2>1, <2>8
    <3>2. RisingTo(ls, n)
      BY <1>1, <2>1, <2>3 DEF DocRisingTo
    <3> QED
      BY <2>5, <2>6, <2>7, <3>1, <3>2
  <2>13. \A v, m : v # x /\ DocRisingTo(ds, v, m) => DocRisingTo(r, v, m)
    <3> SUFFICES ASSUME NEW v, NEW m, v # x, DocRisingTo(ds, v, m), NEW k \in 1 .. len, r[k].doc_name = v
                 PROVE  RisingTo(r[k].line_node, m)
      BY <2>7 DEF DocRisingTo
    <3>1. k # a /\ ds[k].doc_name = v
      BY <2>1, <2>8
    <3> QED
      BY <1>1, <2>7, <3>1 DEF DocRisingTo
  <2> QED
    BY <2>9, <2>10, <2>11, <2>12, <2>13 DEF r
<1>6. CASE same = {}
  <2>1. \A k \in 1 .. len : ds[k].doc_name # x
    BY <1>2, <1>6
  <2> DEFINE y == [ds[1] EXCEPT !.total_length = ds[1].total_length + 1]
             g == [ds EXCEPT ![1] = y]
             e == new_doc_node(x, n)
             ls == <<new_line_node(n)>>
  <2>2. r = Append(g, e)
    BY <1>6 DEF add_doc_node, Grown
  <2>3. /\ y \in DocNode /\ y.doc_name = ds[1].doc_name /\ y.doc_freq = ds[1].doc_freq
        /\ y.total_length = len + 1 /\ y.line_node = ds[1].line_node
    <3>1. PICK z \in DocNode : z = ds[1]
      BY <1>1
    <3>2. y = [z EXCEPT !.total_length = z.total_length + 1] /\ z.total_length = len
      BY <1>1, <3>1
    <3>3. z.total_length + 1 \in Nat \ {0}
      BY DEF DocNode
    <3> HIDE DEF y
    <3>4. y \in DocNode /\ y.doc_name = z.doc_name /\ y.doc_freq = z.doc_freq
          /\ y.total_length = z.total_length + 1 /\ y.line_node = z.line_node
      BY <3>2, <3>3 DEF DocNode
    <3> QED
      BY <3>1, <3>2, <3>4
  <2>4. /\ LinesOK(ls) /\ LineTotal(ls) = 1 /\ RisingTo(ls, n)
        /\ \A m : LineCount(ls, m) = IF m = n THEN 1 ELSE 0
    BY FirstLineNode
  <2>5. e \in DocNode /\ e.doc_name = x /\ e.doc_freq = 1 /\ e.line_node = ls
    <3>1. ls \in Seq(LineNode)
      BY <2>4 DEF LinesOK
    <3> HIDE DEF ls
    <3>2. e = [doc_name |-> x, doc_freq |-> 1, total_length |-> 1, line_node |-> ls]
      BY DEF new_doc_node, ls
    <3> HIDE DEF e
    <3> QED
      BY <3>1, <3>2 DEF DocNode
  <2> HIDE DEF r, y, e, ls
  <2>6. /\ g \in Seq(DocNode) /\ Len(g) = len /\ g[1] = y
        /\ \A k \in 2 .. len : g[k] = ds[k]
    <3>1. g \in Seq(DocNode) /\ Len(g) = Len(ds)
      BY <1>1, <2>3, ExceptSeq
    <3> QED
      BY <1>1, <3>1 DEF len
  <2> HIDE DEF g
  <2>7. /\ r \in Seq(DocNode) /\ Len(r) = len + 1 /\ DOMAIN r = 1 .. len + 1
        /\ r[len + 1] = e /\ \A k \in 1 .. len : r[k] = g[k]
    BY <2>2, <2>5, <2>6, AppendProperties, LenProperties
  <2>8. \A k \in 1 .. len : /\ r[k].doc_name = ds[k].doc_name /\ r[k].doc_freq = ds[k].doc_freq
                           /\ r[k].line_node = ds[k].line_node
    <3>1. \A k \in 1 .. len : k = 1 \/ k \in 2 .. len
      BY <1>1
    <3> QED
      BY <2>3, <2>6, <2>7, <3>1
  <2>9. r[1].total_length = len + 1
    BY <1>1, <2>3, <2>6, <2>7
  <2>10. \A k \in 1 .. len + 1 : k \in 1 .. len \/ k = len + 1
    BY <1>1
  <2>11. DocsOK(r)
    <3>1. \A j, k \in 1 .. len + 1 : r[j].doc_name = r[k].doc_name => j = k
      BY <1>1, <2>1, <2>5, <2>7, <2>8, <2>10
    <3>2. \A k \in 1 .. len + 1 : LinesOK(r[k].line_node) /\ r[k].doc_freq = LineTotal(r[k].line_node)
      BY <1>1, <2>4, <2>5, <2>7, <2>8, <2>10
    <3> QED
      BY <1>1, <2>7, <2>9, <3>1, <3>2 DEF DocsOK
  <2>12. DocTotal(r) = DocTotal(ds) + 1
    <3>1. PICK f, h : f = DocFreqs(ds) /\ h = DocFreqs(r)
      OBVIOUS
    <3>2. len \in Nat /\ len + 1 \in 1 .. len + 1 /\ 1 .. len \subseteq 1 .. len + 1
      BY <1>1
    <3>3. \A k \in 1 .. len + 1 : h[k] = r[k].doc_freq
      BY <2>7, <3>1 DEF DocFreqs
    <3>4. h[len + 1] = 1
      BY <2>5, <2>7, <3>2, <3>3
    <3>5. \A k \in 1 .. len : f[k] \in Nat /\ h[k] = f[k]
      BY <1>3, <2>8, <3>1, <3>2, <3>3
    <3>6. SumOver(h, 1 .. len + 1) = SumOver(f, 1 .. len) + 1
      <4>1. len \in Nat /\ h[len + 1] \in Nat
        BY <3>2, <3>4
      <4>2. SumOver(h, 1 .. len + 1) = SumOver(f, 1 .. len) + h[len + 1]
        BY <3>5, <4>1, SumExtended
      <4> QED
        BY <3>4, <4>2
    <3> QED
      BY <1>4, <2>7, <3>1, <3>6 DEF DocTotal
  <2>13. ASSUME NEW v, NEW m
         PROVE  DocCount(r, v, m) = DocCount(ds, v, m) + (IF v = x /\ m = n THEN 1 ELSE 0)
    <3>1. CASE v = x
      <4>1. DocCount(ds, v, m) = 0
        BY <1>1, <2>1, <3>1, DocCountIs
      <4>2. len + 1 \in DOMAIN r
        BY <1>1, <2>7
      <4>3. DocCount(r, v, m) = LineCount(ls, m)
        BY <2>5, <2>7, <2>11, <3>1, <4>2, DocCountIs
      <4> QED
        BY <2>4, <3>1, <4>1, <4>3
    <3>2. CASE v # x /\ \E k \in 1 .. len : ds[k].doc_name = v
      <4>1. PICK k \in 1 .. len : ds[k].doc_name = v
        BY <3>2
      <4>2. DocCount(ds, v, m) = LineCount(ds[k].line_node, m)
        BY <1>1, <4>1, DocCountIs
      <4>3. k \in DOMAIN r
        BY <1>1, <2>7
      <4>4. DocCount(r, v, m) = LineCount(r[k].line_node, m)
        BY <2>8, <2>11, <4>1, <4>3, DocCountIs
      <4>5. DocCount(r, v, m) = DocCount(ds, v, m) /\ DocCount(ds, v, m) \in Nat
        BY <1>0, <2>8, <4>2, <4>4
      <4> QED
        BY <3>2, <4>5
    <3>3. CASE v # x /\ \A k \in 1 .. len : ds[k].doc_name # v
      <4>1. DocCount(ds, v, m) = 0
        BY <1>1, <3>3, DocCountIs
      <4>2. \A k \in DOMAIN r : r[k].doc_name # v
        BY <2>5, <2>7, <2>8, <2>10, <3>3
      <4>3. DocCount(r, v, m) = 0
        BY <2>11, <4>2, DocCountIs
      <4> QED
        BY <3>3, <4>1, <4>3
    <3> QED
      BY <3>1, <3>2, <3>3
  <2>14. DocRisingTo(ds, x, n) => DocRisingTo(r, x, n)
    <3> SUFFICES ASSUME NEW k \in 1 .. len + 1, r[k].doc_name = x
                 PROVE  RisingTo(r[k].line_node, n)
      BY <2>7 DEF DocRisingTo
    <3>1. k = len + 1
      BY <2>1, <2>8, <2>10
    <3> QED
      BY <2>4, <2>5, <2>7, <3>1
  <2>15. \A v, m : v # x /\ DocRisingTo(ds, v, m) => DocRisingTo(r, v, m)
    <3> SUFFICES ASSUME NEW v, NEW m, v # x, DocRisingTo(ds, v, m), NEW k \in 1 .. len + 1, r[k].doc_name = v
                 PROVE  RisingTo(r[k].line_node, m)
      BY <2>7 DEF DocRisingTo
    <3>1. k \in 1 .. len
      BY <2>5, <2>7, <2>10
    <3> QED
      BY <1>1, <2>8, <3>1 DEF DocRisingTo
  <2> QED
    BY <2>11, <2>12, <2>13, <2>14, <2>15 DEF r
<1> QED
  BY <1>5, <1>6

-----------------------------------------------------------------------------
(* The list of terms.                                                       *)

TermsOK(ts) ==
  /\ ts \in Seq(TermNode)
  /\ Len(ts) > 0 => ts[1].total_length = Len(ts)
  /\ \A j, k \in DOMAIN ts : j < k => ts[j].term < ts[k].term
  /\ \A k \in DOMAIN ts : /\ ts[k].is_initial = 1 <=> k = 1
                          /\ DocsOK(ts[k].doc_node)
                          /\ ts[k].term_freq = DocTotal(ts[k].doc_node)

(* How often word w stands on line n of document x. *)
TermCount(ts, w, x, n) ==
  IF \E k \in DOMAIN ts : ts[k].term = w
  THEN DocCount(ts[CHOOSE k \in DOMAIN ts : ts[k].term = w].doc_node, x, n) ELSE 0

(* The lines of document x ascend up to n, for every word. *)
TermsRisingTo(ts, x, n) == \A k \in DOMAIN ts : DocRisingTo(ts[k].doc_node, x, n)

(* r is the list ts with one occurrence more. *)
OneMore(r, ts, w, x, n) ==
  /\ TermsOK(r)
  /\ \A v, y, m : TermCount(r, v, y, m) =
                    TermCount(ts, v, y, m) + (IF v = w /\ y = x /\ m = n THEN 1 ELSE 0)
  /\ TermsRisingTo(ts, x, n) => TermsRisingTo(r, x, n)
  /\ \A y, m : y # x /\ TermsRisingTo(ts, y, m) => TermsRisingTo(r, y, m)

LEMMA TermsAre ==
  ASSUME NEW ts, TermsOK(ts)
  PROVE  /\ Len(ts) \in Nat /\ DOMAIN ts = 1 .. Len(ts)
         /\ \A k \in DOMAIN ts : ts[k] \in TermNode /\ ts[k].term \in Nat
         /\ \A j, k \in DOMAIN ts : ts[j].term = ts[k].term => j = k
<1>1. ts \in Seq(TermNode) /\ \A j, k \in DOMAIN ts : j < k => ts[j].term < ts[k].term
  BY DEF TermsOK
<1>2. Len(ts) \in Nat /\ DOMAIN ts = 1 .. Len(ts)
  BY <1>1, LenProperties
<1>3. \A k \in DOMAIN ts : ts[k] \in TermNode
  BY <1>1, <1>2, ElementOfSeq
<1>4. \A k \in DOMAIN ts : ts[k].term \in Nat
  BY <1>3, BootstrapAssumption DEF TermNode
<1>5. ASSUME NEW j \in DOMAIN ts, NEW k \in DOMAIN ts, ts[j].term = ts[k].term PROVE j = k
  <2>1. j \in Nat /\ k \in Nat
    BY <1>2
  <2>2. ~(ts[j].term < ts[k].term) /\ ~(ts[k].term < ts[j].term)
    <3>1. PICK m \in Nat : m = ts[j].term
      BY <1>4
    <3> QED
      BY <1>5, <3>1
  <2>3. ~(j < k) /\ ~(k < j)
    BY <1>1, <2>2
  <2> QED
    BY <2>1, <2>3
<1> QED
  BY <1>2, <1>3, <1>4, <1>5

LEMMA TermCountIs ==
  ASSUME NEW ts, TermsOK(ts), NEW w, NEW x, NEW n
  PROVE  /\ \A k \in DOMAIN ts : ts[k].term = w => TermCount(ts, w, x, n) = DocCount(ts[k].doc_node, x, n)
         /\ (\A k \in DOMAIN ts : ts[k].term # w) => TermCount(ts, w, x, n) = 0
<1>1. (\A k \in DOMAIN ts : ts[k].term # w) => TermCount(ts, w, x, n) = 0
  BY DEF TermCount
<1>2. ASSUME NEW k \in DOMAIN ts, ts[k].term = w
      PROVE  TermCount(ts, w, x, n) = DocCount(ts[k].doc_node, x, n)
  <2> DEFINE j == CHOOSE q \in DOMAIN ts : ts[q].term = w
  <2>1. j \in DOMAIN ts /\ ts[j].term = w
    BY <1>2
  <2>2. j = k
    BY <1>2, <2>1, TermsAre
  <2> QED
    BY <1>2, <2>2 DEF TermCount
<1> QED
  BY <1>1, <1>2

LEMMA TermCountOf ==
  ASSUME NEW ts, TermsOK(ts), NEW w, NEW x, NEW n
  PROVE  /\ TermCount(ts, w, x, n) \in Nat
         /\ TermCount(ts, w, x, n) > 0 <=>
              \E k \in DOMAIN ts : ts[k].term = w /\ DocCount(ts[k].doc_node, x, n) > 0
<1>1. CASE \E k \in DOMAIN ts : ts[k].term = w
  <2>1. PICK k \in DOMAIN ts : ts[k].term = w
    BY <1>1
  <2>2. PICK ds : ds = ts[k].doc_node
    OBVIOUS
  <2>3. TermCount(ts, w, x, n) = DocCount(ds, x, n)
    BY <2>1, <2>2, TermCountIs
  <2>4. DocsOK(ds) /\ \A j \in DOMAIN ts : ts[j].term = w => j = k
    BY <2>1, <2>2, TermsAre DEF TermsOK
  <2>5. DocCount(ds, x, n) \in Nat
    BY <2>4, DocCountOf
  <2> QED
    BY <2>1, <2>2, <2>3, <2>4, <2>5
<1>2. CASE \A k \in DOMAIN ts : ts[k].term # w
  <2>1. TermCount(ts, w, x, n) = 0
    BY <1>2, TermCountIs
  <2> QED
    BY <1>2, <2>1
<1> QED
  BY <1>1, <1>2

(* Two nodes that say the same of their term. *)
Alike(t, u) == t.term = u.term /\ t.term_freq = u.term_freq /\ t.doc_node = u.doc_node

(* A new term in place p, when the terms before it are smaller and those    *)
(* behind it are larger.                                                    *)
LEMMA NewTerm ==
  ASSUME NEW ts, TermsOK(ts), NEW w \in Words, NEW x \in Docs, NEW n \in Numbers,
         NEW p \in 1 .. Len(ts) + 1, NEW r \in Seq(TermNode), Len(r) = Len(ts) + 1,
         r[1].total_length = Len(r), \A k \in DOMAIN r : r[k].is_initial = 1 <=> k = 1,
         Alike(r[p], new_term_node(w, x, n)),
         \A k \in 1 .. Len(ts) : /\ k < p => Alike(r[k], ts[k]) /\ ts[k].term < w
                                 /\ k >= p => Alike(r[k + 1], ts[k]) /\ w < ts[k].term
  PROVE  OneMore(r, ts, w, x, n)
<1> DEFINE len == Len(ts)
           ds == <<new_doc_node(x, n)>>
           to(k) == IF k < p THEN k ELSE k + 1
<1>1. /\ len \in Nat /\ p \in Nat /\ DOMAIN ts = 1 .. len /\ DOMAIN r = 1 .. len + 1 /\ p \in 1 .. len + 1
      /\ \A k \in 1 .. len : ts[k].term \in Nat
      /\ w \in Nat
  BY TermsAre, LenProperties, BootstrapAssumption
<1>2. /\ DocsOK(ds) /\ DocTotal(ds) = 1 /\ DocRisingTo(ds, x, n)
      /\ \A y, m : y # x => DocRisingTo(ds, y, m)
      /\ \A y, m : DocCount(ds, y, m) = IF y = x /\ m = n THEN 1 ELSE 0
  BY FirstDocNode
<1>3. r[p].term = w /\ r[p].term_freq = 1 /\ r[p].doc_node = ds
  BY DEF Alike, new_term_node
<1>4. \A k \in 1 .. len : /\ to(k) \in 1 .. len + 1 /\ to(k) # p /\ Alike(r[to(k)], ts[k])
                          /\ k < p <=> to(k) < p
                          /\ k < p => ts[k].term < w
                          /\ k >= p => w < ts[k].term
  <2> SUFFICES ASSUME NEW k \in 1 .. len
               PROVE  /\ to(k) \in 1 .. len + 1 /\ to(k) # p /\ Alike(r[to(k)], ts[k])
                      /\ k < p <=> to(k) < p
                      /\ k < p => ts[k].term < w
                      /\ k >= p => w < ts[k].term
    OBVIOUS
  <2>1. CASE k < p
    BY <1>1, <2>1
  <2>2. CASE k >= p
    BY <1>1, <2>2
  <2> QED
    BY <1>1, <2>1, <2>2
<1>5. \A j \in 1 .. len + 1 : j = p \/ \E k \in 1 .. len : j = to(k)
  <2> SUFFICES ASSUME NEW j \in 1 .. len + 1, j # p PROVE \E k \in 1 .. len : j = to(k)
    OBVIOUS
  <2>1. CASE j < p
    <3>1. j \in 1 .. len /\ to(j) = j
      BY <1>1, <2>1
    <3> QED
      BY <3>1
  <2>2. CASE j > p
    <3>1. j - 1 \in 1 .. len /\ to(j - 1) = j
      BY <1>1, <2>2
    <3> QED
      BY <3>1
  <2> QED
    BY <1>1, <2>1, <2>2
<1>6. \A j, k \in 1 .. len : to(j) < to(k) <=> j < k
  BY <1>1
<1> HIDE DEF to, len, ds
<1>7. \A k \in 1 .. len : /\ ts[k].term # w /\ r[to(k)].term = ts[k].term
                          /\ r[to(k)].doc_node = ts[k].doc_node /\ r[to(k)].term_freq = ts[k].term_freq
  <2> SUFFICES ASSUME NEW k \in 1 .. len PROVE ts[k].term # w
    BY <1>4 DEF Alike
  <2>1. PICK m \in Nat : m = ts[k].term
    BY <1>1
  <2>2. m < w \/ w < m
    <3>1. k < p \/ k >= p
      BY <1>1
    <3> QED
      BY <1>4, <2>1, <3>1
  <2> QED
    BY <1>1, <2>1, <2>2
<1>8. TermsOK(r)
  <2>1. ASSUME NEW j \in 1 .. len + 1, NEW k \in 1 .. len + 1, j < k
        PROVE  r[j].term < r[k].term
    <3>1. CASE j = p
      <4>1. PICK q \in 1 .. len : k = to(q)
        BY <1>1, <1>5, <2>1, <3>1
      <4>2. q >= p
        <5>1. ~(to(q) < p)
          BY <1>1, <2>1, <3>1, <4>1
        <5> QED
          BY <1>1, <1>4, <5>1
      <4> QED
        BY <1>3, <1>4, <1>7, <3>1, <4>1, <4>2
    <3>2. CASE k = p
      <4>1. PICK q \in 1 .. len : j = to(q)
        BY <1>1, <1>5, <2>1, <3>2
      <4>2. q < p
        BY <1>4, <2>1, <3>2, <4>1
      <4> QED
        BY <1>3, <1>4, <1>7, <3>2, <4>1, <4>2
    <3>3. CASE j # p /\ k # p
      <4>1. PICK q \in 1 .. len, u \in 1 .. len : j = to(q) /\ k = to(u)
        BY <1>5, <3>3
      <4>2. q < u
        BY <1>6, <2>1, <4>1
      <4>3. ts[q].term < ts[u].term
        BY <1>1, <4>2 DEF TermsOK
      <4> QED
        BY <1>7, <4>1, <4>3
    <3> QED
      BY <3>1, <3>2, <3>3
  <2>2. ASSUME NEW j \in 1 .. len + 1
        PROVE  DocsOK(r[j].doc_node) /\ r[j].term_freq = DocTotal(r[j].doc_node)
    <3>1. CASE j = p
      BY <1>2, <1>3, <3>1
    <3>2. CASE j # p
      <4>1. PICK q \in 1 .. len : j = to(q)
        BY <1>5, <3>2
      <4>2. DocsOK(ts[q].doc_node) /\ ts[q].term_freq = DocTotal(ts[q].doc_node)
        BY <1>1 DEF TermsOK
      <4>3. r[j].doc_node = ts[q].doc_node /\ r[j].term_freq = ts[q].term_freq
        BY <1>7, <4>1
      <4> QED
        BY <4>2, <4>3
    <3> QED
      BY <3>1, <3>2
  <2> QED
    BY <1>1, <2>1, <2>2 DEF TermsOK
<1>9. ASSUME NEW v, NEW y, NEW m
      PROVE  TermCount(r, v, y, m) = TermCount(ts, v, y, m) + (IF v = w /\ y = x /\ m = n THEN 1 ELSE 0)
  <2>1. CASE v = w
    <3>1. TermCount(ts, v, y, m) = 0
      BY <1>1, <1>7, <2>1, TermCountIs
    <3>2. TermCount(r, v, y, m) = DocCount(ds, y, m)
      BY <1>1, <1>3, <1>8, <2>1, TermCountIs
    <3> QED
      BY <1>2, <2>1, <3>1, <3>2
  <2>2. CASE v # w /\ \E k \in 1 .. len : ts[k].term = v
    <3>1. PICK k \in 1 .. len : ts[k].term = v
      BY <2>2
    <3>2. TermCount(ts, v, y, m) = DocCount(ts[k].doc_node, y, m)
      BY <1>1, <3>1, TermCountIs
    <3>3. TermCount(r, v, y, m) = DocCount(r[to(k)].doc_node, y, m)
      <4>1. PICK j \in DOMAIN r : j = to(k)
        BY <1>1, <1>4
      <4>2. r[j].term = v
        BY <1>7, <3>1, <4>1
      <4> QED
        BY <1>8, <4>1, <4>2, TermCountIs
    <3>4. TermCount(r, v, y, m) = TermCount(ts, v, y, m) /\ TermCount(ts, v, y, m) \in Nat
      BY <1>7, <3>2, <3>3, TermCountOf
    <3> QED
      BY <2>2, <3>4
  <2>3. CASE v # w /\ \A k \in 1 .. len : ts[k].term # v
    <3>1. TermCount(ts, v, y, m) = 0
      BY <1>1, <2>3, TermCountIs
    <3>2. \A j \in 1 .. len + 1 : r[j].term # v
      BY <1>3, <1>5, <1>7, <2>3
    <3>3. TermCount(r, v, y, m) = 0
      BY <1>1, <1>8, <3>2, TermCountIs
    <3> QED
      BY <2>3, <3>1, <3>3
  <2> QED
    BY <2>1, <2>2, <2>3
<1>10. ASSUME NEW y, NEW m, y # x \/ m = n, TermsRisingTo(ts, y, m) PROVE TermsRisingTo(r, y, m)
  <2> SUFFICES ASSUME NEW j \in 1 .. len + 1 PROVE DocRisingTo(r[j].doc_node, y, m)
    BY <1>1 DEF TermsRisingTo
  <2>1. CASE j = p
    BY <1>2, <1>3, <1>10, <2>1
  <2>2. CASE j # p
    <3>1. PICK q \in 1 .. len : j = to(q)
      BY <1>5, <2>2
    <3> QED
      BY <1>1, <1>7, <1>10, <3>1 DEF TermsRisingTo
  <2> QED
    BY <2>1, <2>2
<1> QED
  BY <1>8, <1>9, <1>10 DEF OneMore

LEMMA NewTermNode ==
  ASSUME NEW w \in Words, NEW x \in Docs, NEW n \in Numbers
  PROVE  \E e \in TermNode : /\ e = new_term_node(w, x, n)
                             /\ e.is_initial = 1 /\ e.term = w /\ e.total_length = 1
<1> DEFINE ds == <<new_doc_node(x, n)>>
           e == [term |-> w, term_freq |-> 1, total_length |-> 1, is_initial |-> 1, doc_node |-> ds]
<1>1. ds \in Seq(DocNode)
  BY FirstDocNode DEF DocsOK
<1>2. e = new_term_node(w, x, n)
  BY DEF new_term_node
<1> HIDE DEF ds
<1>3. e \in TermNode /\ e.is_initial = 1 /\ e.term = w /\ e.total_length = 1
  BY <1>1 DEF TermNode
<1> HIDE DEF e
<1> QED
  BY <1>2, <1>3

(* A node keeps what it says of its term when its length or its mark changes. *)
LEMMA OtherLength ==
  ASSUME NEW e \in TermNode, NEW l \in Nat \ {0}, NEW d, d = [e EXCEPT !.total_length = l]
  PROVE  d \in TermNode /\ d.total_length = l /\ d.is_initial = e.is_initial /\ Alike(d, e)
  BY DEF TermNode, Alike

LEMMA OtherMark ==
  ASSUME NEW e \in TermNode, NEW d, d = [e EXCEPT !.is_initial = 0]
  PROVE  d \in TermNode /\ d.is_initial = 0 /\ d.total_length = e.total_length /\ Alike(d, e)
  BY DEF TermNode, Alike

(* The three ways a term gets a node of its own. *)
LEMMA OnlyTerm ==
  ASSUME NEW w \in Words, NEW x \in Docs, NEW n \in Numbers
  PROVE  OneMore(<<new_term_node(w, x, n)>>, <<>>, w, x, n)
<1>0. PICK e \in TermNode : e = new_term_node(w, x, n) /\ e.is_initial = 1 /\ e.total_length = 1
  BY NewTermNode
<1> DEFINE r == <<e>>
           ts == <<>>
<1>1. e \in TermNode /\ e.is_initial = 1 /\ e.total_length = 1 /\ Alike(e, e)
  BY <1>0 DEF Alike
<1>2. r \in Seq(TermNode) /\ Len(r) = 1 /\ DOMAIN r = {1} /\ r[1] = e
  BY <1>1
<1>3. ts \in Seq(TermNode) /\ Len(ts) = 0 /\ DOMAIN ts = {} /\ 1 .. Len(ts) = {} /\ 1 \in 1 .. Len(ts) + 1
  OBVIOUS
<1> HIDE DEF r, ts
<1>4. TermsOK(ts)
  BY <1>3 DEF TermsOK
<1>5. /\ r[1].total_length = Len(r) /\ Len(r) = Len(ts) + 1
      /\ \A k \in DOMAIN r : r[k].is_initial = 1 <=> k = 1
      /\ Alike(r[1], new_term_node(w, x, n))
  BY <1>0, <1>1, <1>2, <1>3
<1>6. OneMore(r, ts, w, x, n)
  BY <1>2, <1>3, <1>4, <1>5, NewTerm
<1> QED
  BY <1>0, <1>6 DEF r, ts

LEMMA FirstTerm ==
  ASSUME NEW ts, TermsOK(ts), ts # <<>>, NEW w \in Words, NEW x \in Docs, NEW n \in Numbers,
         w < ts[1].term
  PROVE  OneMore(NewFirst(ts, new_term_node(w, x, n)), ts, w, x, n)
<1>0. PICK e \in TermNode : e = new_term_node(w, x, n) /\ e.is_initial = 1
  BY NewTermNode
<1> DEFINE len == Len(ts)
           z == [ts[1] EXCEPT !.is_initial = 0]
           g == [ts EXCEPT ![1] = z]
           d == [e EXCEPT !.total_length = len + 1]
           r == NewFirst(ts, e)
<1>1. /\ ts \in Seq(TermNode) /\ len \in Nat \ {0} /\ DOMAIN ts = 1 .. len
      /\ ts[1].total_length = len
      /\ \A k \in 1 .. len : ts[k] \in TermNode /\ ts[k].term \in Nat
  <2>1. ts \in Seq(TermNode) /\ len \in Nat /\ DOMAIN ts = 1 .. len
        /\ \A k \in 1 .. len : ts[k] \in TermNode /\ ts[k].term \in Nat
    BY TermsAre DEF TermsOK
  <2>2. len # 0
    BY <2>1, EmptySeq
  <2> QED
    BY <2>1, <2>2 DEF TermsOK
<1>2. \A k \in 1 .. len : ts[k].is_initial = 1 <=> k = 1
  BY <1>1 DEF TermsOK
<1>3. \A k \in 1 .. len : w < ts[k].term
  <2> SUFFICES ASSUME NEW k \in 1 .. len, k # 1 PROVE w < ts[k].term
    OBVIOUS
  <2>1. ts[1].term < ts[k].term
    BY <1>1 DEF TermsOK
  <2>2. PICK a \in Nat, b \in Nat : a = ts[1].term /\ b = ts[k].term
    BY <1>1
  <2>3. w \in Nat
    BY BootstrapAssumption
  <2> QED
    BY <2>1, <2>2, <2>3
<1>4. z \in TermNode /\ z.is_initial = 0 /\ Alike(z, ts[1])
  <2>1. PICK t \in TermNode : t = ts[1]
    BY <1>1
  <2>2. z = [t EXCEPT !.is_initial = 0]
    BY <2>1
  <2> HIDE DEF z
  <2> QED
    BY <2>1, <2>2, OtherMark
<1>5. d \in TermNode /\ d.total_length = len + 1 /\ d.is_initial = 1 /\ Alike(d, e)
  <2>1. len + 1 \in Nat \ {0}
    BY <1>1
  <2>2. PICK l \in Nat \ {0} : l = len + 1
    BY <2>1
  <2> QED
    BY <1>0, <2>2, OtherLength
<1>6. r = <<d>> \o g
  BY <1>1 DEF NewFirst
<1> HIDE DEF z, d, r
<1>7. g \in Seq(TermNode) /\ Len(g) = len /\ g[1] = z /\ \A k \in 2 .. len : g[k] = ts[k]
  <2>1. g \in Seq(TermNode) /\ Len(g) = Len(ts)
    BY <1>1, <1>4, ExceptSeq
  <2> QED
    BY <1>1, <2>1
<1> HIDE DEF g, len
<1>8. /\ r \in Seq(TermNode) /\ Len(r) = len + 1 /\ DOMAIN r = 1 .. len + 1
      /\ r[1] = d /\ \A k \in 1 .. len : r[k + 1] = g[k]
  <2>1. r \in Seq(TermNode) /\ Len(r) = Len(g) + 1
        /\ r[1] = d /\ \A k \in 1 .. Len(g) : r[k + 1] = g[k]
    BY <1>5, <1>6, <1>7
  <2> QED
    BY <1>7, <2>1, LenProperties
<1>9. \A k \in 1 .. len : Alike(g[k], ts[k]) /\ g[k].is_initial = 0
  <2> SUFFICES ASSUME NEW k \in 1 .. len PROVE Alike(g[k], ts[k]) /\ g[k].is_initial = 0
    OBVIOUS
  <2>1. CASE k = 1
    BY <1>4, <1>7, <2>1
  <2>2. CASE k # 1
    <3>1. k \in 2 .. len
      BY <1>1, <2>2
    <3>2. ts[k].is_initial \in {0, 1}
      BY <1>1 DEF TermNode
    <3> QED
      BY <1>2, <1>7, <2>2, <3>1, <3>2 DEF Alike
  <2> QED
    BY <2>1, <2>2
<1>10. \A k \in DOMAIN r : r[k].is_initial = 1 <=> k = 1
  <2> SUFFICES ASSUME NEW k \in 1 .. len + 1 PROVE r[k].is_initial = 1 <=> k = 1
    BY <1>8
  <2>1. CASE k = 1
    BY <1>5, <1>8, <2>1
  <2>2. CASE k # 1
    <3>1. PICK j \in 1 .. len : k = j + 1
      <4>1. k - 1 \in 1 .. len /\ k = (k - 1) + 1
        BY <1>1, <2>2
      <4> QED
        BY <4>1
    <3> QED
      BY <1>8, <1>9, <2>2, <3>1
  <2> QED
    BY <2>1, <2>2
<1>11. Alike(r[1], new_term_node(w, x, n)) /\ r[1].total_length = Len(r) /\ Len(r) = Len(ts) + 1
  BY <1>0, <1>5, <1>8 DEF len
<1>12. 1 \in 1 .. Len(ts) + 1
  BY <1>1 DEF len
<1>13. \A k \in 1 .. Len(ts) : /\ k < 1 => Alike(r[k], ts[k]) /\ ts[k].term < w
                               /\ k >= 1 => Alike(r[k + 1], ts[k]) /\ w < ts[k].term
  <2> SUFFICES ASSUME NEW k \in 1 .. len
               PROVE  k >= 1 /\ Alike(r[k + 1], ts[k]) /\ w < ts[k].term
    BY DEF len
  <2> QED
    BY <1>1, <1>3, <1>8, <1>9
<1> QED
  BY <1>8, <1>10, <1>11, <1>12, <1>13, <1>0, NewTerm DEF r

LEMMA LaterTerm ==
  ASSUME NEW ts, TermsOK(ts), ts # <<>>, NEW w \in Words, NEW x \in Docs, NEW n \in Numbers,
         ~(w < ts[1].term), \A k \in DOMAIN ts : ts[k].term # w
  PROVE  OneMore(NewLater(ts, new_term_node(w, x, n)), ts, w, x, n)
<1>0. PICK e \in TermNode : e = new_term_node(w, x, n) /\ e.term = w
  BY NewTermNode
<1> DEFINE len == Len(ts)
           z == [ts[1] EXCEPT !.total_length = len + 1]
           g == [ts EXCEPT ![1] = z]
           d == [e EXCEPT !.is_initial = 0]
           later == {k \in 1 .. len : w < ts[k].term}
           p == IF later = {} THEN len + 1 ELSE Min(later)
           r == NewLater(ts, e)
<1>1. /\ ts \in Seq(TermNode) /\ len \in Nat \ {0} /\ DOMAIN ts = 1 .. len
      /\ ts[1].total_length = len
      /\ \A k \in 1 .. len : ts[k] \in TermNode /\ ts[k].term \in Nat
      /\ w \in Nat
  <2>1. ts \in Seq(TermNode) /\ len \in Nat /\ DOMAIN ts = 1 .. len
        /\ \A k \in 1 .. len : ts[k] \in TermNode /\ ts[k].term \in Nat
    BY TermsAre DEF TermsOK
  <2>2. len # 0
    BY <2>1, EmptySeq
  <2> QED
    BY <2>1, <2>2, BootstrapAssumption DEF TermsOK
<1>2. \A k \in 1 .. len : ts[k].is_initial = 1 <=> k = 1
  BY <1>1 DEF TermsOK
<1>3. r = InsertAt(g, p, d)
  <2>1. Grown(ts) = g
    BY <1>1 DEF Grown
  <2>2. {k \in Reach(ts) : e.term < ts[k].term} = later
    BY <1>0, <1>1 DEF Reach
  <2> HIDE DEF g, later, d
  <2> QED
    BY <1>1, <2>1, <2>2 DEF NewLater, d
<1>4. z \in TermNode /\ z.total_length = len + 1 /\ z.is_initial = ts[1].is_initial /\ Alike(z, ts[1])
  <2>1. PICK t \in TermNode, l \in Nat \ {0} : t = ts[1] /\ l = len + 1
    BY <1>1
  <2>2. z = [t EXCEPT !.total_length = l]
    BY <2>1
  <2> HIDE DEF z
  <2> QED
    BY <2>1, <2>2, OtherLength
<1>5. d \in TermNode /\ d.is_initial = 0 /\ Alike(d, e)
  BY OtherMark
<1>6. /\ p \in 2 .. len + 1
      /\ \A k \in 1 .. len : (k < p => ts[k].term < w) /\ (k >= p => w < ts[k].term)
  <2>1. CASE later = {}
    <3>1. p = len + 1
      BY <2>1
    <3> SUFFICES ASSUME NEW k \in 1 .. len PROVE k < p /\ ts[k].term < w
      BY <1>1, <3>1
    <3>2. PICK m \in Nat : m = ts[k].term
      BY <1>1
    <3>3. ~(w < m) /\ m # w
      BY <1>1, <2>1, <3>2
    <3> QED
      BY <1>1, <3>1, <3>2, <3>3
  <2>2. CASE later # {}
    <3>1. p \in later /\ \A k \in later : p <= k
      <4>1. later \in SUBSET Nat
        BY <1>1
      <4>2. p = Min(later)
        BY <2>2
      <4> HIDE DEF later, p
      <4> QED
        BY <2>2, <4>1, <4>2, MinOfNat
    <3> HIDE DEF p
    <3>2. p \in 1 .. len /\ w < ts[p].term /\ p # 1
      BY <3>1
    <3>3. ASSUME NEW k \in 1 .. len, k < p PROVE ts[k].term < w
      <4>1. PICK m \in Nat : m = ts[k].term
        BY <1>1
      <4>2. ~(w < m)
        BY <1>1, <3>1, <3>2, <3>3, <4>1
      <4>3. m # w
        BY <1>1, <4>1
      <4> QED
        BY <1>1, <4>1, <4>2, <4>3
    <3>4. ASSUME NEW k \in 1 .. len, k >= p PROVE w < ts[k].term
      <4>1. CASE k = p
        BY <3>2, <4>1
      <4>2. CASE k # p
        <5>1. p < k
          BY <3>2, <3>4, <4>2
        <5>2. ts[p].term < ts[k].term
          BY <1>1, <3>2, <5>1 DEF TermsOK
        <5>3. PICK a \in Nat, b \in Nat : a = ts[p].term /\ b = ts[k].term
          BY <1>1, <3>2
        <5> QED
          BY <1>1, <3>2, <5>2, <5>3
      <4> QED
        BY <4>1, <4>2
    <3>5. p \in 2 .. len + 1
      BY <1>1, <3>2
    <3> QED
      BY <3>3, <3>4, <3>5
  <2> QED
    BY <2>1, <2>2
<1> HIDE DEF z, d, p, later, r
<1>7. g \in Seq(TermNode) /\ Len(g) = len /\ g[1] = z /\ \A k \in 2 .. len : g[k] = ts[k]
  <2>1. g \in Seq(TermNode) /\ Len(g) = Len(ts)
    BY <1>1, <1>4, ExceptSeq
  <2> QED
    BY <1>1, <2>1
<1> HIDE DEF g, len
<1>8. /\ r \in Seq(TermNode) /\ Len(r) = len + 1 /\ DOMAIN r = 1 .. len + 1
      /\ \A k \in 1 .. len + 1 : /\ k < p => r[k] = g[k]
                                 /\ k = p => r[k] = d
                                 /\ k > p => r[k] = g[k - 1]
  <2>1. p \in 1 .. Len(g) + 1
    BY <1>1, <1>6, <1>7
  <2>2. r \in Seq(TermNode) /\ Len(r) = Len(g) + 1 /\ Inserted(r, g, p, d)
    BY <1>3, <1>5, <1>7, <2>1, InsertedAt
  <2> QED
    BY <1>7, <2>2, LenProperties DEF Inserted
<1>9. \A k \in 1 .. len : Alike(g[k], ts[k]) /\ g[k].is_initial = ts[k].is_initial
  <2> SUFFICES ASSUME NEW k \in 1 .. len PROVE Alike(g[k], ts[k]) /\ g[k].is_initial = ts[k].is_initial
    OBVIOUS
  <2>1. CASE k = 1
    BY <1>4, <1>7, <2>1
  <2>2. CASE k # 1
    <3>1. k \in 2 .. len
      BY <1>1, <2>2
    <3> QED
      BY <1>7, <3>1 DEF Alike
  <2> QED
    BY <2>1, <2>2
<1>10. p \in Nat /\ p \in 1 .. len + 1 /\ p # 1 /\ 1 < p /\ 1 \in 1 .. len
  BY <1>1, <1>6
<1>11. \A k \in DOMAIN r : r[k].is_initial = 1 <=> k = 1
  <2> SUFFICES ASSUME NEW k \in 1 .. len + 1 PROVE r[k].is_initial = 1 <=> k = 1
    BY <1>8
  <2>1. CASE k < p
    <3>1. k \in 1 .. len
      BY <1>1, <1>6, <2>1
    <3> QED
      BY <1>2, <1>8, <1>9, <2>1, <3>1
  <2>2. CASE k = p
    BY <1>5, <1>8, <1>10, <2>2
  <2>3. CASE k > p
    <3>1. PICK j \in 1 .. len : j = k - 1
      BY <1>1, <1>6, <2>3
    <3>2. j # 1 /\ k # 1
      BY <1>6, <2>3, <3>1
    <3> QED
      BY <1>2, <1>8, <1>9, <2>3, <3>1, <3>2
  <2> QED
    BY <1>10, <2>1, <2>2, <2>3
<1>12. Alike(r[p], new_term_node(w, x, n)) /\ Len(r) = Len(ts) + 1
  BY <1>0, <1>5, <1>8, <1>10 DEF len
<1>13. r[1].total_length = Len(r)
  <2>1. r[1] = g[1]
    BY <1>1, <1>8, <1>10
  <2> QED
    BY <1>4, <1>7, <1>8, <2>1
<1>14. \A k \in 1 .. Len(ts) : /\ k < p => Alike(r[k], ts[k]) /\ ts[k].term < w
                               /\ k >= p => Alike(r[k + 1], ts[k]) /\ w < ts[k].term
  <2> SUFFICES ASSUME NEW k \in 1 .. len
               PROVE  /\ k < p => Alike(r[k], ts[k]) /\ ts[k].term < w
                      /\ k >= p => Alike(r[k + 1], ts[k]) /\ w < ts[k].term
    BY DEF len
  <2>1. k < p => r[k] = g[k]
    <3>1. k \in 1 .. len + 1
      BY <1>1
    <3> QED
      BY <1>8, <3>1
  <2>2. k >= p => r[k + 1] = g[k]
    <3> SUFFICES ASSUME k >= p PROVE r[k + 1] = g[k]
      OBVIOUS
    <3>1. k + 1 \in 1 .. len + 1 /\ k + 1 > p /\ (k + 1) - 1 = k
      BY <1>1, <1>10
    <3> QED
      BY <1>8, <3>1
  <2> QED
    BY <1>6, <1>9, <2>1, <2>2
<1>15. p \in 1 .. Len(ts) + 1
  BY <1>10 DEF len
<1> QED
  BY <1>0, <1>8, <1>11, <1>12, <1>13, <1>14, <1>15, NewTerm DEF r

(* The term has a node already. *)
LEMMA SameTerm ==
  ASSUME NEW ts, TermsOK(ts), NEW a \in DOMAIN ts, NEW w, w = ts[a].term,
         NEW x \in Docs, NEW n \in Numbers, NEW ds, ds = ts[a].doc_node,
         NEW q, q = add_doc_node(ds, x, n),
         NEW y \in TermNode, y.term = w, y.term_freq = ts[a].term_freq + 1,
         y.total_length = ts[a].total_length, y.is_initial = ts[a].is_initial, y.doc_node = q,
         NEW r \in Seq(TermNode), Len(r) = Len(ts), DOMAIN r = DOMAIN ts,
         r[a] = y, \A k \in DOMAIN ts \ {a} : r[k] = ts[k]
  PROVE  OneMore(r, ts, w, x, n)
<1> DEFINE len == Len(ts)
<1>1. /\ ts \in Seq(TermNode) /\ len \in Nat /\ DOMAIN ts = 1 .. len /\ a \in 1 .. len
      /\ \A k \in 1 .. len : ts[k] \in TermNode
      /\ \A j, k \in 1 .. len : ts[j].term = ts[k].term => j = k
  BY TermsAre DEF TermsOK
<1>2. DocsOK(ds) /\ ts[a].term_freq = DocTotal(ds)
  BY DEF TermsOK
<1>3. /\ DocsOK(q) /\ DocTotal(q) = DocTotal(ds) + 1
      /\ \A v, m : DocCount(q, v, m) = DocCount(ds, v, m) + (IF v = x /\ m = n THEN 1 ELSE 0)
      /\ DocRisingTo(ds, x, n) => DocRisingTo(q, x, n)
      /\ \A v, m : v # x /\ DocRisingTo(ds, v, m) => DocRisingTo(q, v, m)
  BY <1>2, AddDoc
<1>4. Len(r) = len /\ DOMAIN r = 1 .. len /\ \A k \in 1 .. len \ {a} : r[k] = ts[k]
  BY <1>1
<1> HIDE DEF len
<1>5. \A k \in 1 .. len : /\ r[k].term = ts[k].term /\ r[k].is_initial = ts[k].is_initial
                          /\ r[k].total_length = ts[k].total_length
  BY <1>4
<1>6. TermsOK(r)
  <2>1. ASSUME NEW k \in 1 .. len
        PROVE  /\ r[k].is_initial = 1 <=> k = 1
               /\ DocsOK(r[k].doc_node)
               /\ r[k].term_freq = DocTotal(r[k].doc_node)
    <3>1. /\ ts[k].is_initial = 1 <=> k = 1
          /\ DocsOK(ts[k].doc_node)
          /\ ts[k].term_freq = DocTotal(ts[k].doc_node)
      BY <1>1 DEF TermsOK
    <3>2. CASE k = a
      BY <1>2, <1>3, <1>5, <3>1, <3>2
    <3>3. CASE k # a
      BY <1>4, <3>1, <3>3
    <3> QED
      BY <3>2, <3>3
  <2>2. \A j, k \in 1 .. len : j < k => r[j].term < r[k].term
    BY <1>1, <1>5 DEF TermsOK
  <2>3. Len(r) > 0 => r[1].total_length = Len(r)
    <3> SUFFICES ASSUME len > 0 PROVE r[1].total_length = len
      BY <1>4
    <3>1. ts[1].total_length = len /\ 1 \in 1 .. len
      BY <1>1 DEF TermsOK, len
    <3> QED
      BY <1>5, <3>1
  <2> QED
    BY <1>4, <2>1, <2>2, <2>3 DEF TermsOK
<1>7. ASSUME NEW v, NEW u, NEW m
      PROVE  TermCount(r, v, u, m) = TermCount(ts, v, u, m) + (IF v = w /\ u = x /\ m = n THEN 1 ELSE 0)
  <2>1. CASE v = w
    <3>1. TermCount(ts, v, u, m) = DocCount(ds, u, m)
      BY <2>1, TermCountIs
    <3>2. TermCount(r, v, u, m) = DocCount(q, u, m)
      BY <1>6, <2>1, TermCountIs
    <3> QED
      BY <1>3, <2>1, <3>1, <3>2
  <2>2. CASE v # w /\ \E k \in 1 .. len : ts[k].term = v
    <3>1. PICK k \in 1 .. len : ts[k].term = v
      BY <2>2
    <3>2. TermCount(ts, v, u, m) = DocCount(ts[k].doc_node, u, m)
      BY <1>1, <3>1, TermCountIs
    <3>3. TermCount(r, v, u, m) = DocCount(r[k].doc_node, u, m)
      BY <1>4, <1>5, <1>6, <3>1, TermCountIs
    <3>4. r[k] = ts[k]
      BY <1>4, <2>2, <3>1
    <3>5. TermCount(r, v, u, m) = TermCount(ts, v, u, m) /\ TermCount(ts, v, u, m) \in Nat
      BY <3>2, <3>3, <3>4, TermCountOf
    <3> QED
      BY <2>2, <3>5
  <2>3. CASE v # w /\ \A k \in 1 .. len : ts[k].term # v
    <3>1. TermCount(ts, v, u, m) = 0
      BY <1>1, <2>3, TermCountIs
    <3>2. TermCount(r, v, u, m) = 0
      BY <1>4, <1>5, <1>6, <2>3, TermCountIs
    <3> QED
      BY <2>3, <3>1, <3>2
  <2> QED
    BY <2>1, <2>2, <2>3
<1>8. ASSUME NEW v, NEW m, v # x \/ m = n, TermsRisingTo(ts, v, m) PROVE TermsRisingTo(r, v, m)
  <2> SUFFICES ASSUME NEW k \in 1 .. len PROVE DocRisingTo(r[k].doc_node, v, m)
    BY <1>4 DEF TermsRisingTo
  <2>1. DocRisingTo(ts[k].doc_node, v, m)
    BY <1>1, <1>8 DEF TermsRisingTo
  <2>2. CASE k = a
    <3>1. DocRisingTo(ds, v, m)
      BY <2>1, <2>2
    <3>2. DocRisingTo(q, v, m)
      BY <1>3, <1>8, <3>1
    <3> QED
      BY <2>2, <3>2
  <2>3. CASE k # a
    BY <1>4, <2>1, <2>3
  <2> QED
    BY <2>2, <2>3
<1> QED
  BY <1>6, <1>7, <1>8 DEF OneMore

(* add_node keeps the index well formed and counts one occurrence. *)
LEMMA AddNode ==
  ASSUME NEW ts, TermsOK(ts), NEW w \in Words, NEW x \in Docs, NEW n \in Numbers
  PROVE  OneMore(add_node(ts, w, x, n), ts, w, x, n)
<1> DEFINE same == {k \in Reach(ts) : ts[k].term = w}
           r == add_node(ts, w, x, n)
           e == new_term_node(w, x, n)
<1>1. CASE ts = <<>>
  <2>1. r = <<e>>
    BY <1>1 DEF add_node
  <2> QED
    BY <1>1, <2>1, OnlyTerm
<1>2. ASSUME ts # <<>> PROVE same = {k \in DOMAIN ts : ts[k].term = w}
  <2>1. ts \in Seq(TermNode) /\ Len(ts) \in Nat /\ DOMAIN ts = 1 .. Len(ts)
    BY TermsAre DEF TermsOK
  <2>2. Len(ts) # 0
    BY <1>2, <2>1, EmptySeq
  <2>3. ts[1].total_length = Len(ts)
    BY <2>1, <2>2 DEF TermsOK
  <2> QED
    BY <2>1, <2>3 DEF Reach
<1>3. CASE ts # <<>> /\ same # {}
  <2>1. PICK a \in DOMAIN ts : a = Min(same) /\ ts[a].term = w
    <3>1. same \in SUBSET Nat
      BY <1>2, <1>3, TermsAre
    <3>2. Min(same) \in same
      BY <1>3, <3>1, MinOfNat
    <3>3. same = {k \in DOMAIN ts : ts[k].term = w}
      BY <1>2, <1>3
    <3> HIDE DEF same
    <3> QED
      BY <3>2, <3>3
  <2>2. PICK z \in TermNode : z = ts[a]
    BY TermsAre
  <2>3. PICK ds, q : z = ts[a] /\ ds = z.doc_node /\ q = add_doc_node(ds, x, n)
    BY <2>2
  <2>4. r = [ts EXCEPT ![a].term_freq = @ + 1, ![a].doc_node = add_doc_node(@, x, n)]
    BY <1>3, <2>1 DEF add_node
  <2> HIDE DEF r
  <2>5. r = [ts EXCEPT ![a] = [ts[a] EXCEPT !.term_freq = @ + 1, !.doc_node = add_doc_node(@, x, n)]]
    BY <2>4
  <2>6. PICK y : y = [z EXCEPT !.term_freq = z.term_freq + 1, !.doc_node = q]
    OBVIOUS
  <2>7. r = [ts EXCEPT ![a] = y]
    BY <2>3, <2>5, <2>6
  <2>8. DocsOK(q)
    <3>1. DocsOK(ds)
      BY <2>3 DEF TermsOK
    <3> QED
      BY <2>3, <3>1, AddDoc
  <2>9. /\ y \in TermNode /\ y.term = z.term /\ y.term_freq = z.term_freq + 1
        /\ y.total_length = z.total_length /\ y.is_initial = z.is_initial /\ y.doc_node = q
    <3>1. z.term_freq + 1 \in Nat \ {0} /\ q \in Seq(DocNode)
      BY <2>8 DEF TermNode, DocsOK
    <3> QED
      BY <2>6, <3>1 DEF TermNode
  <2>10. /\ r \in Seq(TermNode) /\ Len(r) = Len(ts) /\ DOMAIN r = DOMAIN ts
        /\ r[a] = y /\ \A k \in DOMAIN ts \ {a} : r[k] = ts[k]
    <3>1. ts \in Seq(TermNode) /\ DOMAIN ts = 1 .. Len(ts)
      BY TermsAre DEF TermsOK
    <3>2. r \in Seq(TermNode) /\ Len(r) = Len(ts)
      BY <2>7, <2>9, <3>1, ExceptSeq
    <3> QED
      BY <2>7, <3>2
  <2>11. OneMore(r, ts, w, x, n)
    BY <2>1, <2>3, <2>9, <2>10, SameTerm
  <2> QED
    BY <2>11 DEF r
<1>4. CASE ts # <<>> /\ same = {} /\ w < ts[1].term
  <2>1. r = NewFirst(ts, e)
    BY <1>4 DEF add_node
  <2> HIDE DEF r, e
  <2>2. OneMore(NewFirst(ts, e), ts, w, x, n)
    BY <1>4, FirstTerm DEF e
  <2> QED
    BY <2>1, <2>2 DEF r
<1>5. CASE ts # <<>> /\ same = {} /\ ~(w < ts[1].term)
  <2>1. r = NewLater(ts, e)
    BY <1>5 DEF add_node
  <2>2. \A k \in DOMAIN ts : ts[k].term # w
    BY <1>2, <1>5
  <2> HIDE DEF r, e
  <2>3. OneMore(NewLater(ts, e), ts, w, x, n)
    BY <1>5, <2>2, LaterTerm DEF e
  <2> QED
    BY <2>1, <2>3 DEF r
<1> QED
  BY <1>1, <1>3, <1>4, <1>5

(* The sums of CountsTrue.                                                  *)
LEMMA LineSum ==
  ASSUME NEW ls, LinesOK(ls)
  PROVE  FoldSeq(LAMBDA y, n : y.line_freq + n, 0, ls) = LineTotal(ls)
<1> DEFINE D == DOMAIN ls
           It(h) == h = [t \in SUBSET D |->
                           IF t = {} THEN 0
                           ELSE ls[CHOOSE x \in t : TRUE].line_freq + h[t \ {CHOOSE x \in t : TRUE}]]
           f == LineFreqs(ls)
<1>1. FoldSeq(LAMBDA y, n : y.line_freq + n, 0, ls) = (CHOOSE h : It(h))[D]
  BY DEF FoldSeq, FoldFunction, FoldFunctionOnSet, MapThenFoldSet
<1>2. IsFiniteSet(D) /\ \A k \in D : f[k] = ls[k].line_freq /\ f[k] \in Nat
  <2>1. ls \in Seq(LineNode) /\ Len(ls) \in Nat /\ D = 1 .. Len(ls)
    BY LenProperties DEF LinesOK
  <2>2. \A k \in D : ls[k] \in LineNode
    BY <2>1, ElementOfSeq
  <2>3. IsFiniteSet(D)
    BY <2>1, FS_Interval
  <2> QED
    BY <2>2, <2>3 DEF LineFreqs, LineNode
<1>3. \A t \in SUBSET D : t # {} => (CHOOSE x \in t : TRUE) \in D
  OBVIOUS
<1> HIDE DEF D, f
<1>4. \A h : It(h) <=> Adds(f, D, h)
  BY <1>2, <1>3 DEF Adds
<1>5. \E h : Adds(f, D, h)
  <2>1. PICK S, g : S = D /\ g = f
    OBVIOUS
  <2>2. IsFiniteSet(S) /\ \A k \in S : g[k] \in Nat
    BY <1>2, <2>1
  <2>3. PICK h \in [SUBSET S -> Nat] : Adds(g, S, h)
    BY <2>2, AddsExists
  <2> QED
    BY <2>1, <2>3
<1> HIDE DEF It
<1>6. It(CHOOSE h : It(h))
  BY <1>4, <1>5
<1> QED
  <2>1. PICK h : h = (CHOOSE g : It(g)) /\ Adds(f, D, h)
    BY <1>4, <1>6
  <2>2. SumOver(f, D) = h[D]
    BY <1>2, <2>1, SumIs
  <2> QED
    BY <1>1, <2>1, <2>2 DEF LineTotal, f, D

LEMMA DocSum ==
  ASSUME NEW ds, DocsOK(ds)
  PROVE  FoldSeq(LAMBDA x, n : x.doc_freq + n, 0, ds) = DocTotal(ds)
<1> DEFINE D == DOMAIN ds
           It(h) == h = [t \in SUBSET D |->
                           IF t = {} THEN 0
                           ELSE ds[CHOOSE x \in t : TRUE].doc_freq + h[t \ {CHOOSE x \in t : TRUE}]]
           f == DocFreqs(ds)
<1>1. FoldSeq(LAMBDA x, n : x.doc_freq + n, 0, ds) = (CHOOSE h : It(h))[D]
  BY DEF FoldSeq, FoldFunction, FoldFunctionOnSet, MapThenFoldSet
<1>2. IsFiniteSet(D) /\ \A k \in D : f[k] = ds[k].doc_freq /\ f[k] \in Nat
  <2>1. ds \in Seq(DocNode) /\ Len(ds) \in Nat /\ D = 1 .. Len(ds)
    BY LenProperties DEF DocsOK
  <2>2. \A k \in D : ds[k] \in DocNode
    BY <2>1, ElementOfSeq
  <2>3. IsFiniteSet(D)
    BY <2>1, FS_Interval
  <2> QED
    BY <2>2, <2>3 DEF DocFreqs, DocNode
<1>3. \A t \in SUBSET D : t # {} => (CHOOSE x \in t : TRUE) \in D
  OBVIOUS
<1> HIDE DEF D, f
<1>4. \A h : It(h) <=> Adds(f, D, h)
  BY <1>2, <1>3 DEF Adds
<1>5. \E h : Adds(f, D, h)
  <2>1. PICK S, g : S = D /\ g = f
    OBVIOUS
  <2>2. IsFiniteSet(S) /\ \A k \in S : g[k] \in Nat
    BY <1>2, <2>1
  <2>3. PICK h \in [SUBSET S -> Nat] : Adds(g, S, h)
    BY <2>2, AddsExists
  <2> QED
    BY <2>1, <2>3
<1> HIDE DEF It
<1>6. It(CHOOSE h : It(h))
  BY <1>4, <1>5
<1> QED
  <2>1. PICK h : h = (CHOOSE g : It(g)) /\ Adds(f, D, h)
    BY <1>4, <1>6
  <2>2. SumOver(f, D) = h[D]
    BY <1>2, <2>1, SumIs
  <2> QED
    BY <1>1, <2>1, <2>2 DEF DocTotal, f, D

-----------------------------------------------------------------------------
(* Reading the files.                                                       *)

LinesOf(d) == files[d].content.lines

(* What the program enters of a file, the end of it included: files that    *)
(* end with a newline, or in a second or later line without one, are read   *)
(* to the end; the former have their last line entered again.               *)
ReadAtAll(d) == files[d].kind = "text" /\ (files[d].content.newline \/ Len(LinesOf(d)) > 1)

Extra(d) == IF files[d].content.newline THEN Len(LinesOf(d)) + 1 ELSE 0

Expected(w, d, n) ==
  IF ~ReadAtAll(d) THEN 0
  ELSE IF n = Extra(d) THEN OnLine(w, d, n - 1) ELSE OnLine(w, d, n)

ExpectedIn(w, x, n) == MapThenSumSet(LAMBDA d : Expected(w, d, n), {d \in Docs : DocName(d) = x})

(* The documents word w is entered for. *)
DocsRead(w) == {DocName(d) : d \in {e \in Docs : \E n \in 1 .. MaxLines :
                                                   ReadAtAll(e) /\ OnLine(w, e, n) > 0}}

(* How often w is among the first j words of b. *)
Times(b, j, w) == Cardinality({k \in 1 .. j : b[k] = w})

(* How often word w of line n of file d was entered up to now. *)
Entered(w, d, n) ==
  IF d < doc THEN Expected(w, d, n)
  ELSE IF d > doc \/ pc = "first" \/ n > line_num THEN 0
  ELSE IF n < line_num \/ pc = "more" THEN Expected(w, d, n)
  ELSE Times(buf, i - 1, w)

Named(x) == {d \in Docs : DocName(d) = x}

EnteredIn(w, x, n) == SumOver([d \in Docs |-> Entered(w, d, n)], Named(x))

(* Where getline stands in the file.  The line number is the number of lines *)
(* read, but for the last line that is entered again.                        *)
Position ==
  IF pc = "first"
  THEN pos = 0 /\ line_num = 0 /\ feof = FALSE /\ buf = <<>> /\ i = 1
  ELSE /\ Reading
       /\ pos \in 0 .. Len(LinesOf(doc)) /\ i \in 1 .. Len(buf) + 1
       /\ \/ LinesOf(doc) = <<>> /\ feof /\ line_num = 1 /\ pc = "more" /\ buf = <<>>
          \/ /\ pos > 0 /\ buf = LinesOf(doc)[pos]
             /\ feof => pos = Len(LinesOf(doc))
             /\ line_num = IF feof /\ files[doc].content.newline THEN pos + 1 ELSE pos
             /\ pos = Len(LinesOf(doc)) /\ ~feof => files[doc].content.newline
       /\ pc = "words" => ReadAtAll(doc)

(* No line of document d above this one was entered. *)
Limit(d) == IF d < doc THEN MaxLines + 1 ELSE IF d = doc THEN line_num ELSE 0

IInv ==
  /\ files \in [Docs -> File] /\ alike \in BOOLEAN
  /\ doc \in 1 .. NFiles + 1 /\ feof \in BOOLEAN /\ pc \in {"first", "more", "words"}
  /\ Position
  /\ TermsOK(initial)
  /\ \A w \in Words, x \in Docs, n \in Numbers : TermCount(initial, w, x, n) = EnteredIn(w, x, n)
  /\ ~alike => \A d \in Docs : TermsRisingTo(initial, d, Limit(d))

LEMMA Shape ==
  ASSUME files \in [Docs -> File], NEW d \in Docs
  PROVE  /\ LinesOf(d) \in Seq(Line) /\ Len(LinesOf(d)) \in 0 .. MaxLines
         /\ DOMAIN LinesOf(d) = 1 .. Len(LinesOf(d))
         /\ files[d].content.newline \in BOOLEAN
         /\ \A n \in 1 .. Len(LinesOf(d)) : LinesOf(d)[n] \in Line
<1>1. files[d].content \in Content
  BY DEF File
<1>2. files[d].content.newline \in BOOLEAN
  BY <1>1 DEF Content
<1>3. PICK m \in 0 .. MaxLines : LinesOf(d) \in [1 .. m -> Line]
  BY <1>1 DEF Content, LinesOf
<1>4. m \in Nat
  BY BootstrapAssumption
<1>5. LinesOf(d) \in Seq(Line) /\ Len(LinesOf(d)) = m
  BY <1>3, <1>4, SeqOfFunction
<1> QED
  BY <1>2, <1>3, <1>5

LEMMA LineShape ==
  ASSUME NEW b \in Line
  PROVE  /\ b \in Seq(Words) /\ Len(b) \in 0 .. MaxWords /\ Len(b) \in Nat /\ DOMAIN b = 1 .. Len(b)
         /\ \A k \in 1 .. Len(b) : b[k] \in Words
<1>1. PICK m \in 0 .. MaxWords : b \in [1 .. m -> Words]
  BY DEF Line
<1>2. m \in Nat
  BY BootstrapAssumption
<1>3. b \in Seq(Words) /\ Len(b) = m
  BY <1>1, <1>2, SeqOfFunction
<1> QED
  BY <1>1, <1>2, <1>3

LEMMA CountNext ==
  ASSUME NEW b, NEW j \in Nat, NEW v
  PROVE  /\ Times(b, j, v) \in Nat /\ Times(b, 0, v) = 0
         /\ Times(b, j + 1, v) = Times(b, j, v) + (IF b[j + 1] = v THEN 1 ELSE 0)
<1> DEFINE S == {k \in 1 .. j : b[k] = v}
           T == {k \in 1 .. j + 1 : b[k] = v}
<1>1. IsFiniteSet(S) /\ Cardinality(S) \in Nat
  <2>1. IsFiniteSet(1 .. j) /\ S \subseteq 1 .. j
    BY FS_Interval
  <2> HIDE DEF S
  <2> QED
    BY <2>1, FS_Subset, FS_CardinalityType
<1>2. PICK m : m = j + 1
  OBVIOUS
<1>3. m \notin S
  BY <1>2
<1>4. T = IF b[m] = v THEN S \cup {m} ELSE S
  BY <1>2
<1>5. Cardinality(S \cup {m}) = Cardinality(S) + 1
  BY <1>1, <1>3, FS_AddElement
<1> HIDE DEF S, T
<1>6. Cardinality(T) = Cardinality(S) + (IF b[m] = v THEN 1 ELSE 0)
  BY <1>1, <1>4, <1>5
<1>7. Cardinality({k \in 1 .. 0 : b[k] = v}) = 0
  BY FS_EmptySet
<1> QED
  BY <1>1, <1>2, <1>6, <1>7 DEF S, T, Times

LEMMA ExpectedIs ==
  ASSUME files \in [Docs -> File], NEW d \in Docs, NEW w, NEW n \in Nat \ {0}
  PROVE  /\ Expected(w, d, n) \in Nat
         /\ ~ReadAtAll(d) \/ LinesOf(d) = <<>> => Expected(w, d, n) = 0
         /\ n > Len(LinesOf(d)) + 1 => Expected(w, d, n) = 0
         /\ n = Len(LinesOf(d)) + 1 /\ ~files[d].content.newline => Expected(w, d, n) = 0
         /\ ReadAtAll(d) /\ n = Len(LinesOf(d)) + 1 /\ files[d].content.newline
              => Expected(w, d, n) = OnLine(w, d, Len(LinesOf(d)))
         /\ ReadAtAll(d) /\ n \in 1 .. Len(LinesOf(d)) => Expected(w, d, n) = OnLine(w, d, n)
<1> DEFINE len == Len(LinesOf(d))
<1>1. len \in Nat /\ DOMAIN LinesOf(d) = 1 .. len /\ files[d].content.newline \in BOOLEAN
      /\ \A m \in 1 .. len : LinesOf(d)[m] \in Line
  BY Shape, BootstrapAssumption
<1>2. \A m : /\ OnLine(w, d, m) \in Nat
             /\ m \notin 1 .. len => OnLine(w, d, m) = 0
  <2> SUFFICES ASSUME NEW m PROVE OnLine(w, d, m) \in Nat /\ (m \notin 1 .. len => OnLine(w, d, m) = 0)
    OBVIOUS
  <2>1. CASE m \in 1 .. len
    <3>1. PICK b \in Line : b = LinesOf(d)[m]
      BY <1>1, <2>1
    <3>2. Times(b, Len(b), w) \in Nat /\ DOMAIN b = 1 .. Len(b)
      BY LineShape, CountNext
    <3>3. OnLine(w, d, m) = Times(b, Len(b), w)
      BY <1>1, <2>1, <3>1, <3>2 DEF OnLine, LinesOf, Times
    <3> QED
      BY <2>1, <3>2, <3>3
  <2>2. CASE m \notin 1 .. len
    BY <1>1, <2>2 DEF OnLine, LinesOf
  <2> QED
    BY <2>1, <2>2
<1>3. Extra(d) = IF files[d].content.newline THEN len + 1 ELSE 0
  BY DEF Extra, LinesOf
<1>4. LinesOf(d) = <<>> => len = 0
  OBVIOUS
<1> HIDE DEF len
<1>5. Expected(w, d, n) = IF ~ReadAtAll(d) THEN 0
                          ELSE IF files[d].content.newline /\ n = len + 1 THEN OnLine(w, d, len)
                          ELSE OnLine(w, d, n)
  <2>1. n # 0 /\ (n = len + 1 => n - 1 = len)
    BY <1>1
  <2> QED
    BY <1>3, <2>1 DEF Expected
<1>6. Expected(w, d, n) \in Nat
  BY <1>2, <1>5
<1>7. 0 \notin 1 .. len /\ (n > len => n \notin 1 .. len) /\ (n > len + 1 => n > len /\ n # len + 1)
      /\ (n \in 1 .. len => n # len + 1)
  BY <1>1
<1>8. ~ReadAtAll(d) \/ len = 0 => Expected(w, d, n) = 0
  <2>1. CASE ~ReadAtAll(d)
    BY <1>5, <2>1
  <2>2. CASE len = 0
    <3>1. n \notin 1 .. len /\ len \notin 1 .. len
      BY <2>2
    <3> QED
      BY <1>2, <1>5, <3>1
  <2> QED
    BY <2>1, <2>2
<1> QED
  BY <1>1, <1>2, <1>4, <1>5, <1>6, <1>7, <1>8 DEF len

LEMMA ExpectedInIs ==
  ASSUME files \in [Docs -> File], NEW w, NEW x, NEW n \in Nat \ {0}
  PROVE  ExpectedIn(w, x, n) = SumOver([d \in Docs |-> Expected(w, d, n)], Named(x))
<1> DEFINE S == {d \in Docs : DocName(d) = x}
           It(h) == h = [t \in SUBSET S |->
                           IF t = {} THEN 0
                           ELSE Expected(w, CHOOSE y \in t : TRUE, n) + h[t \ {CHOOSE y \in t : TRUE}]]
           f == [d \in Docs |-> Expected(w, d, n)]
<1>1. ExpectedIn(w, x, n) = (CHOOSE h : It(h))[S]
  BY DEF ExpectedIn, MapThenSumSet, MapThenFoldSet
<1>2. IsFiniteSet(S) /\ \A d \in S : f[d] = Expected(w, d, n) /\ f[d] \in Nat
  <2>1. IsFiniteSet(Docs)
    <3>1. 1 \in Int /\ NFiles \in Int
      BY BootstrapAssumption
    <3> QED
      BY <3>1, FS_Interval DEF Docs
  <2>2. IsFiniteSet(S)
    BY <2>1, FS_Subset
  <2>3. \A d \in Docs : Expected(w, d, n) \in Nat
    BY ExpectedIs
  <2> QED
    BY <2>2, <2>3
<1>3. \A t \in SUBSET S : t # {} => (CHOOSE y \in t : TRUE) \in S
  OBVIOUS
<1> HIDE DEF S, f
<1>4. \A h : It(h) <=> Adds(f, S, h)
  BY <1>2, <1>3 DEF Adds
<1>5. \E h : Adds(f, S, h)
  <2>1. PICK T, g : T = S /\ g = f
    OBVIOUS
  <2>2. IsFiniteSet(T) /\ \A k \in T : g[k] \in Nat
    BY <1>2, <2>1
  <2>3. PICK h \in [SUBSET T -> Nat] : Adds(g, T, h)
    BY <2>2, AddsExists
  <2> QED
    BY <2>1, <2>3
<1> HIDE DEF It
<1>6. It(CHOOSE h : It(h))
  BY <1>4, <1>5
<1> QED
  <2>1. PICK h : h = (CHOOSE g : It(g)) /\ Adds(f, S, h)
    BY <1>4, <1>6
  <2>2. SumOver(f, S) = h[S]
    BY <1>2, <2>1, SumIs
  <2> QED
    BY <1>1, <2>1, <2>2 DEF Named, f, S

LEMMA EnteredNat ==
  ASSUME IInv, NEW w, NEW d \in Docs, NEW n \in Numbers
  PROVE  Entered(w, d, n) \in Nat
<1>1. n \in Nat \ {0} /\ files \in [Docs -> File]
  BY BootstrapAssumption DEF Numbers, IInv
<1>2. Expected(w, d, n) \in Nat
  BY <1>1, ExpectedIs
<1>3. pc \notin {"first", "more"} => i - 1 \in Nat
  <2>1. pc = "words" => i \in 1 .. Len(buf) + 1
    BY DEF IInv, Position
  <2> QED
    BY <2>1 DEF IInv
<1>4. ~(pc \in {"first", "more"}) => Times(buf, i - 1, w) \in Nat
  BY <1>3, CountNext
<1> QED
  BY <1>2, <1>4 DEF Entered

(* A limit may be raised. *)
LEMMA Raised ==
  ASSUME NEW ts, TermsOK(ts), NEW x, NEW m \in Nat, NEW n \in Nat, m <= n, TermsRisingTo(ts, x, m)
  PROVE  TermsRisingTo(ts, x, n)
<1> SUFFICES ASSUME NEW k \in DOMAIN ts, NEW j \in DOMAIN ts[k].doc_node, ts[k].doc_node[j].doc_name = x
             PROVE  RisingTo(ts[k].doc_node[j].line_node, n)
  BY DEF TermsRisingTo, DocRisingTo
<1>1. PICK ls : ls = ts[k].doc_node[j].line_node
  OBVIOUS
<1>2. LinesOK(ls)
  BY <1>1 DEF TermsOK, DocsOK
<1>3. RisingTo(ls, m)
  BY <1>1 DEF TermsRisingTo, DocRisingTo
<1>4. \A q \in DOMAIN ls : ls[q].line_num \in Nat
  <2>1. ls \in Seq(LineNode) /\ DOMAIN ls = 1 .. Len(ls)
    BY <1>2, LenProperties DEF LinesOK
  <2>2. \A q \in DOMAIN ls : ls[q] \in LineNode
    BY <2>1, ElementOfSeq
  <2> QED
    BY <2>2, BootstrapAssumption DEF LineNode, Numbers
<1>5. \A q \in DOMAIN ls : ls[q].line_num <= n
  <2> SUFFICES ASSUME NEW q \in DOMAIN ls PROVE ls[q].line_num <= n
    OBVIOUS
  <2>1. PICK u \in Nat : u = ls[q].line_num
    BY <1>4
  <2>2. u <= m
    BY <1>3, <2>1 DEF RisingTo
  <2> QED
    BY <2>1, <2>2
<1> QED
  BY <1>1, <1>3, <1>5 DEF RisingTo

(* A step that reads, but enters nothing. *)
LEMMA Quiet ==
  ASSUME IInv, files' = files, alike' = alike, initial' = initial,
         doc' \in 1 .. NFiles + 1, feof' \in BOOLEAN, pc' \in {"first", "more", "words"}, Position',
         \A w \in Words, d \in Docs, n \in Numbers : Entered(w, d, n)' = Entered(w, d, n),
         \A d \in Docs : Limit(d) \in Nat /\ Limit(d)' \in Nat /\ Limit(d) <= Limit(d)'
  PROVE  IInv'
<1>1. TermsOK(initial)'
  BY DEF IInv
<1>2. ASSUME NEW w \in Words, NEW x \in Docs, NEW n \in Numbers
      PROVE  (TermCount(initial, w, x, n) = EnteredIn(w, x, n))'
  <2>1. Named(x)' = Named(x)
    BY DEF Named, DocName
  <2>2. [d \in Docs |-> Entered(w, d, n)]' = [d \in Docs |-> Entered(w, d, n)]
    OBVIOUS
  <2>3. EnteredIn(w, x, n)' = EnteredIn(w, x, n)
    BY <2>1, <2>2 DEF EnteredIn
  <2>4. TermCount(initial, w, x, n) = EnteredIn(w, x, n)
    BY DEF IInv
  <2> QED
    BY <2>3, <2>4
<1>3. ASSUME ~alike', NEW d \in Docs PROVE TermsRisingTo(initial, d, Limit(d))'
  <2>1. PICK m \in Nat, n \in Nat : m = Limit(d) /\ n = Limit(d)' /\ m <= n
    OBVIOUS
  <2>2. TermsRisingTo(initial, d, m)
    BY <1>3, <2>1 DEF IInv
  <2>3. TermsRisingTo(initial, d, n)
    BY <2>1, <2>2, Raised DEF IInv
  <2> QED
    BY <2>1, <2>3
<1>4. files' \in [Docs -> File] /\ alike' \in BOOLEAN
  BY DEF IInv
<1> QED
  BY <1>1, <1>2, <1>3, <1>4 DEF IInv

LEMMA SameFiles ==
  ASSUME files' = files, NEW w, NEW d, NEW n
  PROVE  /\ Expected(w, d, n)' = Expected(w, d, n) /\ LinesOf(d)' = LinesOf(d)
         /\ ReadAtAll(d)' = ReadAtAll(d)
  BY DEF Expected, ReadAtAll, Extra, OnLine, LinesOf

(* The file being read, after its first line. *)
LEMMA InFile ==
  ASSUME IInv, pc # "first"
  PROVE  /\ doc \in Docs /\ doc \in Nat /\ files[doc].kind = "text"
         /\ LinesOf(doc) \in Seq(Line) /\ Len(LinesOf(doc)) \in Nat /\ Len(LinesOf(doc)) <= MaxLines
         /\ \A n \in 1 .. Len(LinesOf(doc)) : LinesOf(doc)[n] \in Line
         /\ files[doc].content.newline \in BOOLEAN
         /\ pos \in Nat /\ pos <= Len(LinesOf(doc)) /\ line_num \in Nat
         /\ i \in Nat \ {0} /\ i <= Len(buf) + 1 /\ buf \in Line /\ Len(buf) \in Nat
         /\ line_num \in Numbers
         /\ LinesOf(doc) = <<>> <=> Len(LinesOf(doc)) = 0
<1>1. Position /\ files \in [Docs -> File] /\ feof \in BOOLEAN
  BY DEF IInv
<1>2. doc \in Docs /\ doc \in Nat /\ files[doc].kind = "text"
  BY <1>1, BootstrapAssumption DEF Position, Reading, Docs
<1>3. PICK len \in Nat : len = Len(LinesOf(doc)) /\ len <= MaxLines
  BY <1>1, <1>2, Shape, BootstrapAssumption
<1>4. LinesOf(doc) \in Seq(Line) /\ files[doc].content.newline \in BOOLEAN
      /\ \A n \in 1 .. len : LinesOf(doc)[n] \in Line
  BY <1>1, <1>2, <1>3, Shape
<1>5. LinesOf(doc) = <<>> <=> len = 0
  BY <1>3, <1>4, EmptySeq
<1>6. pos \in 0 .. len /\ i \in 1 .. Len(buf) + 1
  BY <1>1, <1>3 DEF Position
<1>7. CASE LinesOf(doc) = <<>> /\ line_num = 1 /\ buf = <<>>
  <2>1. buf \in Line /\ Len(buf) = 0
    <3>1. <<>> \in [1 .. 0 -> Words]
      OBVIOUS
    <3>2. 0 \in 0 .. MaxWords
      BY BootstrapAssumption
    <3> QED
      BY <1>7, <3>1, <3>2 DEF Line
  <2>2. line_num \in Numbers
    BY <1>7, BootstrapAssumption DEF Numbers
  <2> QED
    BY <1>2, <1>3, <1>4, <1>5, <1>6, <1>7, <2>1, <2>2
<1>8. CASE pos > 0 /\ buf = LinesOf(doc)[pos]
           /\ line_num = IF feof /\ files[doc].content.newline THEN pos + 1 ELSE pos
  <2>1. buf \in Line
    BY <1>4, <1>6, <1>8
  <2>2. Len(buf) \in Nat
    BY <2>1, LineShape
  <2>3. line_num \in Numbers /\ line_num \in Nat
    BY <1>3, <1>6, <1>8, BootstrapAssumption DEF Numbers
  <2> QED
    BY <1>2, <1>3, <1>4, <1>5, <1>6, <2>1, <2>2, <2>3
<1> QED
  BY <1>1, <1>7, <1>8 DEF Position

LEMMA KeptBySkip ==
  ASSUME IInv, SkipFile
  PROVE  IInv'
<1>1. pc = "first" /\ doc \in Docs /\ doc \in Nat
  BY BootstrapAssumption DEF IInv, Position, Reading, SkipFile, Docs
<1>2. files' = files /\ alike' = alike /\ initial' = initial /\ feof' = feof /\ pc' = pc /\ doc' = doc + 1
      /\ pos' = pos /\ buf' = buf /\ i' = i /\ line_num' = line_num
  BY DEF SkipFile
<1>3. doc' \in 1 .. NFiles + 1
  BY <1>1, <1>2, BootstrapAssumption DEF Docs
<1>4. Position' /\ line_num = 0
  BY <1>1, <1>2 DEF Position, IInv
<1>5. ASSUME NEW w \in Words, NEW d \in Docs, NEW n \in Numbers
      PROVE  Entered(w, d, n)' = Entered(w, d, n)
  <2>1. Expected(w, d, n)' = Expected(w, d, n)
    BY <1>2, SameFiles
  <2>2. d \in Nat
    BY BootstrapAssumption DEF Docs
  <2>3. CASE d < doc
    BY <1>1, <1>2, <2>1, <2>2, <2>3 DEF Entered
  <2>4. CASE d > doc
    <3>1. ~(d < doc) /\ ~(d < doc')
      BY <1>1, <1>2, <2>2, <2>4
    <3> QED
      BY <1>1, <1>2, <2>4, <3>1 DEF Entered
  <2>5. CASE d = doc
    <3>1. Entered(w, d, n) = 0
      BY <1>1, <2>5 DEF Entered
    <3>2. Entered(w, d, n)' = Expected(w, d, n)
      BY <1>1, <1>2, <2>1, <2>5 DEF Entered
    <3>3. Expected(w, d, n) = 0
      BY <2>5 DEF Expected, ReadAtAll, SkipFile
    <3> QED
      BY <3>1, <3>2, <3>3
  <2> QED
    BY <1>1, <2>2, <2>3, <2>4, <2>5
<1>6. ASSUME NEW d \in Docs PROVE Limit(d) \in Nat /\ Limit(d)' \in Nat /\ Limit(d) <= Limit(d)'
  <2>1. d \in Nat /\ MaxLines + 1 \in Nat
    BY BootstrapAssumption DEF Docs
  <2> QED
    BY <1>1, <1>2, <1>4, <2>1 DEF Limit
<1> QED
  BY <1>1, <1>2, <1>3, <1>4, <1>5, <1>6, Quiet DEF IInv

LEMMA KeptByLineDone ==
  ASSUME IInv, LineDone
  PROVE  IInv'
<1>1. /\ pc = "words" /\ i \notin DOMAIN buf /\ pc' = "more"
      /\ files' = files /\ alike' = alike /\ initial' = initial /\ feof' = feof /\ doc' = doc
      /\ pos' = pos /\ buf' = buf /\ i' = i /\ line_num' = line_num
  BY DEF LineDone
<1>2. /\ doc \in Docs /\ doc \in Nat /\ files[doc].kind = "text"
      /\ LinesOf(doc) \in Seq(Line) /\ Len(LinesOf(doc)) \in Nat
      /\ \A n \in 1 .. Len(LinesOf(doc)) : LinesOf(doc)[n] \in Line
      /\ pos \in Nat /\ pos <= Len(LinesOf(doc)) /\ line_num \in Nat
      /\ i \in Nat \ {0} /\ i <= Len(buf) + 1 /\ buf \in Line /\ Len(buf) \in Nat
      /\ files[doc].content.newline \in BOOLEAN /\ feof \in BOOLEAN
  BY <1>1, InFile DEF IInv
<1>3. /\ pos > 0 /\ buf = LinesOf(doc)[pos] /\ (feof => pos = Len(LinesOf(doc)))
      /\ line_num = IF feof /\ files[doc].content.newline THEN pos + 1 ELSE pos
      /\ ReadAtAll(doc)
  BY <1>1 DEF IInv, Position
<1>4. Position'
  <2>1. LinesOf(doc)' = LinesOf(doc) /\ Reading'
    BY <1>1 DEF LinesOf, Reading, IInv, Position
  <2> QED
    BY <1>1, <2>1 DEF Position, IInv
<1>5. i - 1 = Len(buf)
  <2>1. DOMAIN buf = 1 .. Len(buf)
    BY <1>2, LineShape
  <2> QED
    BY <1>1, <1>2, <2>1
<1>6. ASSUME NEW w \in Words, NEW d \in Docs, NEW n \in Numbers
      PROVE  Entered(w, d, n)' = Entered(w, d, n)
  <2>1. Expected(w, d, n)' = Expected(w, d, n)
    BY <1>1, SameFiles
  <2>2. d \in Nat /\ n \in Nat \ {0}
    BY BootstrapAssumption DEF Docs, Numbers
  <2>3. CASE ~(d = doc /\ n = line_num)
    <3>1. d < doc \/ d > doc \/ n < line_num \/ n > line_num
      BY <1>2, <2>2, <2>3
    <3>2. d > doc => ~(d < doc)
      BY <1>2, <2>2
    <3>3. n > line_num => ~(n < line_num)
      BY <1>2, <2>2
    <3> QED
      BY <1>1, <2>1, <3>1, <3>2, <3>3 DEF Entered
  <2>4. CASE d = doc /\ n = line_num
    <3>1. ~(d < doc) /\ ~(d > doc) /\ ~(n > line_num) /\ ~(n < line_num)
      BY <1>2, <2>4
    <3>2. Entered(w, d, n) = Times(buf, Len(buf), w)
      BY <1>1, <1>5, <3>1 DEF Entered
    <3>3. Entered(w, d, n)' = Expected(w, d, n)
      BY <1>1, <2>1, <2>4, <3>1 DEF Entered
    <3>4. OnLine(w, doc, pos) = Times(buf, Len(buf), w)
      <4>1. pos \in 1 .. Len(LinesOf(doc)) /\ DOMAIN LinesOf(doc) = 1 .. Len(LinesOf(doc))
        BY <1>2, <1>3, LenProperties
      <4>2. DOMAIN buf = 1 .. Len(buf)
        BY <1>2, LineShape
      <4> QED
        BY <1>3, <4>1, <4>2 DEF OnLine, Times, LinesOf
    <3>5. Expected(w, d, n) = OnLine(w, doc, pos)
      <4>1. files \in [Docs -> File]
        BY DEF IInv
      <4>2. CASE feof /\ files[doc].content.newline
        <5>1. n = Len(LinesOf(doc)) + 1 /\ pos = Len(LinesOf(doc))
          BY <1>2, <1>3, <2>4, <4>2
        <5> QED
          BY <1>3, <2>2, <2>4, <4>1, <4>2, <5>1, ExpectedIs
      <4>3. CASE ~(feof /\ files[doc].content.newline)
        <5>1. n = pos /\ n \in 1 .. Len(LinesOf(doc))
          BY <1>2, <1>3, <2>4, <4>3
        <5> QED
          BY <1>3, <2>2, <2>4, <4>1, <5>1, ExpectedIs
      <4> QED
        BY <4>2, <4>3
    <3> QED
      BY <3>2, <3>3, <3>4, <3>5
  <2> QED
    BY <2>3, <2>4
<1>7. ASSUME NEW d \in Docs PROVE Limit(d) \in Nat /\ Limit(d)' \in Nat /\ Limit(d) <= Limit(d)'
  <2>1. MaxLines + 1 \in Nat
    BY BootstrapAssumption
  <2> QED
    BY <1>1, <1>2, <2>1 DEF Limit
<1> QED
  BY <1>1, <1>4, <1>6, <1>7, Quiet DEF IInv

LEMMA KeptByNextFile ==
  ASSUME IInv, NextFile
  PROVE  IInv'
<1>1. /\ pc = "more" /\ feof /\ doc' = doc + 1 /\ pos' = 0 /\ feof' = FALSE /\ buf' = <<>>
      /\ i' = 1 /\ line_num' = 0 /\ pc' = "first"
      /\ files' = files /\ alike' = alike /\ initial' = initial
  BY DEF NextFile
<1>2. /\ doc \in Docs /\ doc \in Nat
      /\ Len(LinesOf(doc)) \in Nat /\ pos \in Nat /\ line_num \in Nat /\ line_num \in Numbers
      /\ files[doc].content.newline \in BOOLEAN
  BY <1>1, InFile
<1>3. \/ LinesOf(doc) = <<>> /\ line_num = 1
      \/ /\ pos = Len(LinesOf(doc))
         /\ line_num = IF files[doc].content.newline THEN pos + 1 ELSE pos
  BY <1>1 DEF IInv, Position
<1>4. doc' \in 1 .. NFiles + 1 /\ Position'
  BY <1>1, <1>2, BootstrapAssumption DEF Docs, Position
<1>5. ASSUME NEW w \in Words, NEW d \in Docs, NEW n \in Numbers
      PROVE  Entered(w, d, n)' = Entered(w, d, n)
  <2>1. Expected(w, d, n)' = Expected(w, d, n)
    BY <1>1, SameFiles
  <2>2. d \in Nat /\ n \in Nat \ {0} /\ files \in [Docs -> File]
    BY BootstrapAssumption DEF Docs, Numbers, IInv
  <2>3. CASE d < doc
    BY <1>1, <1>2, <2>1, <2>2, <2>3 DEF Entered
  <2>4. CASE d > doc
    <3>1. ~(d < doc) /\ ~(d < doc')
      BY <1>1, <1>2, <2>2, <2>4
    <3> QED
      BY <1>1, <1>2, <2>4, <3>1 DEF Entered
  <2>5. CASE d = doc /\ n <= line_num
    <3>1. Entered(w, d, n) = Expected(w, d, n)
      BY <1>1, <1>2, <2>2, <2>5 DEF Entered
    <3>2. Entered(w, d, n)' = Expected(w, d, n)
      BY <1>1, <1>2, <2>1, <2>5 DEF Entered
    <3> QED
      BY <3>1, <3>2
  <2>6. CASE d = doc /\ n > line_num
    <3>1. Entered(w, d, n) = 0
      BY <1>1, <1>2, <2>2, <2>6 DEF Entered
    <3>2. Entered(w, d, n)' = Expected(w, d, n)
      BY <1>1, <1>2, <2>1, <2>6 DEF Entered
    <3>3. Expected(w, d, n) = 0
      <4>1. CASE LinesOf(doc) = <<>>
        BY <2>2, <2>6, <4>1, ExpectedIs
      <4>2. CASE pos = Len(LinesOf(doc)) /\ line_num = pos + 1
        <5>1. n > Len(LinesOf(d)) + 1
          BY <1>2, <2>2, <2>6, <4>2
        <5> QED
          BY <2>2, <5>1, ExpectedIs
      <4>3. CASE pos = Len(LinesOf(doc)) /\ line_num = pos /\ ~files[doc].content.newline
        <5>1. n > Len(LinesOf(d)) + 1 \/ n = Len(LinesOf(d)) + 1
          BY <1>2, <2>2, <2>6, <4>3
        <5> QED
          BY <2>2, <2>6, <4>3, <5>1, ExpectedIs
      <4> QED
        BY <1>2, <1>3, <4>1, <4>2, <4>3
    <3> QED
      BY <3>1, <3>2, <3>3
  <2> QED
    BY <1>2, <2>2, <2>3, <2>4, <2>5, <2>6
<1>6. ASSUME NEW d \in Docs PROVE Limit(d) \in Nat /\ Limit(d)' \in Nat /\ Limit(d) <= Limit(d)'
  <2>1. d \in Nat /\ MaxLines + 1 \in Nat /\ line_num <= MaxLines + 1
    BY <1>2, BootstrapAssumption DEF Docs, Numbers
  <2> QED
    BY <1>1, <1>2, <2>1 DEF Limit
<1> QED
  BY <1>1, <1>4, <1>5, <1>6, Quiet

(* What getline returns. *)
LEMMA GetLine ==
  ASSUME NEW lines, lines = LinesOf(doc), getline
  PROVE  /\ pos < Len(lines) => buf' = lines[pos + 1] /\ pos' = pos + 1
         /\ ~(pos < Len(lines)) => buf' = buf /\ pos' = pos
         /\ feof' = (~(pos < Len(lines)) \/ (pos + 1 = Len(lines) /\ ~files[doc].content.newline))
  BY DEF getline, LinesOf

LEMMA KeptByFirstLine ==
  ASSUME IInv, FirstLine
  PROVE  IInv'
<1>1. /\ Reading /\ pc = "first" /\ line_num' = 1 /\ i' = 1 /\ pc' = IF feof' THEN "more" ELSE "words"
      /\ files' = files /\ alike' = alike /\ initial' = initial /\ doc' = doc
      /\ pos = 0 /\ line_num = 0 /\ feof = FALSE /\ buf = <<>>
  BY DEF FirstLine, IInv, Position
<1>2. PICK lines \in Seq(Line), len \in Nat :
        lines = LinesOf(doc) /\ len = Len(lines) /\ len <= MaxLines
        /\ \A n \in 1 .. len : lines[n] \in Line
  BY <1>1, Shape, BootstrapAssumption DEF IInv, Reading
<1>3. /\ doc \in Docs /\ doc \in Nat /\ files \in [Docs -> File]
      /\ files[doc].content.newline \in BOOLEAN /\ files[doc].kind = "text"
  BY <1>1, Shape, BootstrapAssumption DEF IInv, Reading, Docs
<1>4. /\ 0 < len => buf' = lines[1] /\ pos' = 1
      /\ len = 0 => buf' = <<>> /\ pos' = 0
      /\ feof' = (len = 0 \/ (1 = len /\ ~files[doc].content.newline))
  <2>1. /\ pos < Len(lines) => buf' = lines[pos + 1] /\ pos' = pos + 1
        /\ ~(pos < Len(lines)) => buf' = buf /\ pos' = pos
        /\ feof' = (~(pos < Len(lines)) \/ (pos + 1 = Len(lines) /\ ~files[doc].content.newline))
    BY <1>2, GetLine DEF FirstLine
  <2>2. pos + 1 = 1 /\ (pos < Len(lines) <=> 0 < len) /\ (~(pos < Len(lines)) <=> len = 0)
    BY <1>1, <1>2
  <2> QED
    BY <1>1, <1>2, <2>1, <2>2
<1>5. lines = <<>> <=> len = 0
  BY <1>2, EmptySeq
<1>6. ReadAtAll(doc) <=> files[doc].content.newline \/ len > 1
  BY <1>2, <1>3 DEF ReadAtAll, LinesOf
<1>7. Position'
  <2>1. Reading' /\ LinesOf(doc)' = lines /\ (ReadAtAll(doc)' <=> ReadAtAll(doc))
    <3>1. Reading'
      BY <1>1 DEF Reading
    <3>2. LinesOf(doc)' = LinesOf(doc)
      BY <1>1 DEF LinesOf
    <3>3. ReadAtAll(doc)' <=> ReadAtAll(doc)
      BY <1>1 DEF ReadAtAll, LinesOf
    <3> QED
      BY <1>2, <3>1, <3>2, <3>3
  <2>2. Len(buf') \in Nat
    <3>1. CASE len = 0
      BY <1>4, <3>1
    <3>2. CASE 0 < len
      <4>1. lines[1] \in Line
        BY <1>2, <3>2
      <4> QED
        BY <1>4, <3>2, <4>1, LineShape
    <3> QED
      BY <1>2, <3>1, <3>2
  <2>3. pc' # "first" /\ pos' \in 0 .. Len(lines) /\ i' \in 1 .. Len(buf') + 1
    <3>1. pc' # "first"
      BY <1>1
    <3>2. pos' \in 0 .. len
      <4>1. CASE len = 0
        BY <1>4, <4>1
      <4>2. CASE 0 < len
        BY <1>2, <1>4, <4>2
      <4> QED
        BY <1>2, <4>1, <4>2
    <3>3. i' \in 1 .. Len(buf') + 1
      BY <1>1, <2>2
    <3> QED
      BY <1>2, <3>1, <3>2, <3>3
  <2>4. ASSUME pc' = "words" PROVE ReadAtAll(doc)
    <3>1. ~feof'
      BY <1>1, <2>4
    <3>2. len # 0 /\ ~(1 = len /\ ~files[doc].content.newline)
      BY <1>4, <3>1
    <3>3. files[doc].content.newline \/ len > 1
      BY <1>2, <3>2
    <3> QED
      BY <1>6, <3>3
  <2>5. CASE len = 0
    BY <1>1, <1>4, <1>5, <2>1, <2>3, <2>4, <2>5 DEF Position
  <2>6. CASE 0 < len
    <3>1. /\ pos' > 0 /\ buf' = lines[pos']
          /\ feof' => pos' = Len(lines)
          /\ line_num' = IF feof' /\ files[doc].content.newline THEN pos' + 1 ELSE pos'
          /\ pos' = Len(lines) /\ ~feof' => files[doc].content.newline
      <4>1. pos' = 1 /\ buf' = lines[1] /\ line_num' = 1 /\ len # 0
        BY <1>1, <1>2, <1>4, <2>6
      <4>2. CASE 1 = len /\ ~files[doc].content.newline
        <5>1. feof' = TRUE
          BY <1>4, <4>2
        <5>2. pos' > 0 /\ buf' = lines[pos'] /\ pos' = Len(lines)
          <6>1. 1 = len
            BY <4>2
          <6> QED
            BY <1>2, <4>1, <6>1
        <5>3. line_num' = IF feof' /\ files[doc].content.newline THEN pos' + 1 ELSE pos'
          BY <4>1, <4>2
        <5> QED
          BY <5>1, <5>2, <5>3
      <4>3. CASE ~(1 = len /\ ~files[doc].content.newline)
        <5>1. feof' = FALSE
          BY <1>4, <4>1, <4>3
        <5> QED
          BY <1>2, <4>1, <4>3, <5>1
      <4> QED
        BY <4>2, <4>3
    <3> QED
      BY <1>1, <2>1, <2>3, <2>4, <3>1 DEF Position
  <2> QED
    BY <1>2, <2>5, <2>6
<1>8. ASSUME NEW w \in Words, NEW d \in Docs, NEW n \in Numbers
      PROVE  Entered(w, d, n)' = Entered(w, d, n)
  <2>1. Expected(w, d, n)' = Expected(w, d, n)
    BY <1>1, SameFiles
  <2>2. d \in Nat /\ n \in Nat \ {0}
    BY BootstrapAssumption DEF Docs, Numbers
  <2>3. CASE d < doc
    BY <1>1, <2>1, <2>3 DEF Entered
  <2>4. CASE d > doc
    <3>1. ~(d < doc)
      BY <1>3, <2>2, <2>4
    <3> QED
      BY <1>1, <2>4, <3>1 DEF Entered
  <2>5. CASE d = doc
    <3>1. Entered(w, d, n) = 0 /\ ~(d < doc) /\ ~(d > doc)
      BY <1>1, <1>3, <2>5 DEF Entered
    <3>2. CASE n > 1
      BY <1>1, <3>1, <3>2 DEF Entered
    <3>3. CASE n = 1 /\ feof'
      <4>1. Entered(w, d, n)' = Expected(w, d, n)
        BY <1>1, <2>1, <3>1, <3>3 DEF Entered
      <4>2. ~ReadAtAll(d) \/ LinesOf(d) = <<>>
        <5>1. len = 0 \/ (1 = len /\ ~files[doc].content.newline)
          BY <1>4, <3>3
        <5>2. CASE len = 0
          BY <1>2, <1>5, <2>5, <5>2
        <5>3. CASE 1 = len /\ ~files[doc].content.newline
          BY <1>6, <2>5, <5>3
        <5> QED
          BY <5>1, <5>2, <5>3
      <4> QED
        BY <1>3, <2>2, <3>1, <4>1, <4>2, ExpectedIs
    <3>4. CASE n = 1 /\ ~feof'
      <4>1. pc' = "words" /\ i' - 1 = 0
        BY <1>1, <3>4
      <4>2. Times(buf', 0, w) = 0
        BY CountNext
      <4>3. Entered(w, d, n)' = Times(buf', 0, w)
        BY <1>1, <3>1, <3>4, <4>1 DEF Entered
      <4> QED
        BY <3>1, <4>2, <4>3
    <3> QED
      BY <2>2, <3>2, <3>3, <3>4
  <2> QED
    BY <1>3, <2>2, <2>3, <2>4, <2>5
<1>9. ASSUME NEW d \in Docs PROVE Limit(d) \in Nat /\ Limit(d)' \in Nat /\ Limit(d) <= Limit(d)'
  <2>1. d \in Nat /\ MaxLines + 1 \in Nat
    BY BootstrapAssumption DEF Docs
  <2> QED
    BY <1>1, <1>3, <2>1 DEF Limit
<1>10. doc' \in 1 .. NFiles + 1 /\ feof' \in BOOLEAN /\ pc' \in {"first", "more", "words"}
  BY <1>1, <1>4 DEF IInv
<1> QED
  BY <1>1, <1>7, <1>8, <1>9, <1>10, Quiet

LEMMA KeptByNextLine ==
  ASSUME IInv, NextLine
  PROVE  IInv'
<1>1. /\ pc = "more" /\ ~feof /\ line_num' = line_num + 1 /\ i' = 1 /\ pc' = "words"
      /\ files' = files /\ alike' = alike /\ initial' = initial /\ doc' = doc /\ Reading
  BY DEF NextLine
<1>2. PICK lines \in Seq(Line), len \in Nat :
        lines = LinesOf(doc) /\ len = Len(lines) /\ len <= MaxLines
        /\ \A n \in 1 .. len : lines[n] \in Line
  BY <1>1, InFile
<1>3. /\ doc \in Docs /\ doc \in Nat /\ files[doc].content.newline \in BOOLEAN /\ files[doc].kind = "text"
      /\ pos \in Nat /\ pos <= len
  BY <1>1, <1>2, InFile
<1>4. pos > 0 /\ buf = lines[pos] /\ line_num = pos /\ (pos = len => files[doc].content.newline)
  BY <1>1, <1>2 DEF IInv, Position
<1>5. /\ pos < len => buf' = lines[pos + 1] /\ pos' = pos + 1
      /\ pos = len => buf' = buf /\ pos' = pos
      /\ feof' = (pos = len \/ (pos + 1 = len /\ ~files[doc].content.newline))
  <2>1. /\ pos < Len(lines) => buf' = lines[pos + 1] /\ pos' = pos + 1
        /\ ~(pos < Len(lines)) => buf' = buf /\ pos' = pos
        /\ feof' = (~(pos < Len(lines)) \/ (pos + 1 = Len(lines) /\ ~files[doc].content.newline))
    BY <1>2, GetLine DEF NextLine
  <2>2. ~(pos < Len(lines)) <=> pos = len
    BY <1>2, <1>3
  <2> QED
    BY <1>2, <2>1, <2>2
<1>6. ReadAtAll(doc)
  <2>1. files[doc].content.newline \/ len > 1
    BY <1>2, <1>3, <1>4
  <2> QED
    BY <1>2, <1>3, <2>1 DEF ReadAtAll, LinesOf
<1>7. Position'
  <2>1. Reading' /\ LinesOf(doc)' = lines /\ (ReadAtAll(doc)' <=> ReadAtAll(doc))
    <3>1. Reading'
      BY <1>1 DEF Reading
    <3>2. LinesOf(doc)' = LinesOf(doc)
      BY <1>1 DEF LinesOf
    <3>3. ReadAtAll(doc)' <=> ReadAtAll(doc)
      BY <1>1 DEF ReadAtAll, LinesOf
    <3> QED
      BY <1>2, <3>1, <3>2, <3>3
  <2>2. pos' \in 1 .. len /\ buf' = lines[pos'] /\ buf' \in Line /\ Len(buf') \in Nat
    <3>1. pos' \in 1 .. len /\ buf' = lines[pos']
      BY <1>2, <1>3, <1>4, <1>5
    <3> QED
      BY <1>2, <3>1, LineShape
  <2>3. pos' \in 0 .. Len(lines) /\ i' \in 1 .. Len(buf') + 1 /\ pos' > 0
    BY <1>1, <1>2, <2>2
  <2>4. /\ feof' => pos' = Len(lines)
        /\ line_num' = IF feof' /\ files[doc].content.newline THEN pos' + 1 ELSE pos'
        /\ pos' = Len(lines) /\ ~feof' => files[doc].content.newline
    <3>1. CASE pos < len
      BY <1>1, <1>2, <1>3, <1>4, <1>5, <3>1
    <3>2. CASE pos = len
      BY <1>1, <1>2, <1>3, <1>4, <1>5, <3>2
    <3> QED
      BY <1>2, <1>3, <3>1, <3>2
  <2> QED
    BY <1>1, <1>6, <2>1, <2>2, <2>3, <2>4 DEF Position
<1>8. ASSUME NEW w \in Words, NEW d \in Docs, NEW n \in Numbers
      PROVE  Entered(w, d, n)' = Entered(w, d, n)
  <2>1. Expected(w, d, n)' = Expected(w, d, n)
    BY <1>1, SameFiles
  <2>2. d \in Nat /\ n \in Nat \ {0}
    BY BootstrapAssumption DEF Docs, Numbers
  <2>3. CASE d < doc
    BY <1>1, <2>1, <2>3 DEF Entered
  <2>4. CASE d > doc
    <3>1. ~(d < doc)
      BY <1>3, <2>2, <2>4
    <3> QED
      BY <1>1, <2>4, <3>1 DEF Entered
  <2>5. CASE d = doc
    <3>1. ~(d < doc) /\ ~(d > doc)
      BY <1>3, <2>5
    <3>2. CASE n < line_num + 1
      <4>1. ~(n > line_num) /\ ~(n > line_num')
        BY <1>1, <1>3, <1>4, <2>2, <3>2
      <4> QED
        BY <1>1, <2>1, <3>1, <3>2, <4>1 DEF Entered
    <3>3. CASE n > line_num + 1
      <4>1. n > line_num
        BY <1>3, <1>4, <2>2, <3>3
      <4> QED
        BY <1>1, <3>1, <3>3, <4>1 DEF Entered
    <3>4. CASE n = line_num + 1
      <4>1. n > line_num /\ i' - 1 = 0 /\ ~(n < line_num') /\ ~(n > line_num')
        BY <1>1, <1>3, <1>4, <3>4
      <4>2. Times(buf', 0, w) = 0
        BY CountNext
      <4>3. Entered(w, d, n)' = Times(buf', 0, w)
        BY <1>1, <3>1, <4>1 DEF Entered
      <4>4. Entered(w, d, n) = 0
        BY <1>1, <3>1, <4>1 DEF Entered
      <4> QED
        BY <4>2, <4>3, <4>4
    <3> QED
      BY <1>3, <1>4, <2>2, <3>2, <3>3, <3>4
  <2> QED
    BY <1>3, <2>2, <2>3, <2>4, <2>5
<1>9. ASSUME NEW d \in Docs PROVE Limit(d) \in Nat /\ Limit(d)' \in Nat /\ Limit(d) <= Limit(d)'
  <2>1. d \in Nat /\ MaxLines + 1 \in Nat
    BY BootstrapAssumption DEF Docs
  <2> QED
    BY <1>1, <1>3, <1>4, <2>1 DEF Limit
<1>10. doc' \in 1 .. NFiles + 1 /\ feof' \in BOOLEAN /\ pc' \in {"first", "more", "words"}
  BY <1>1, <1>5 DEF IInv
<1> QED
  BY <1>1, <1>7, <1>8, <1>9, <1>10, Quiet

LEMMA KeptByAddWord ==
  ASSUME IInv, AddWord
  PROVE  IInv'
<1>1. /\ pc = "words" /\ i \in DOMAIN buf /\ i' = i + 1
      /\ initial' = add_node(initial, buf[i], DocName(doc), line_num)
      /\ files' = files /\ alike' = alike /\ feof' = feof /\ doc' = doc
      /\ pos' = pos /\ buf' = buf /\ line_num' = line_num /\ pc' = pc
  BY DEF AddWord
<1>2. /\ doc \in Docs /\ doc \in Nat /\ line_num \in Numbers /\ line_num \in Nat
      /\ i \in Nat \ {0} /\ i <= Len(buf) + 1 /\ buf \in Line /\ Len(buf) \in Nat
      /\ files \in [Docs -> File] /\ alike \in BOOLEAN
  BY <1>1, InFile DEF IInv
<1>3. PICK w \in Words, x \in Docs : w = buf[i] /\ x = DocName(doc)
  <2>1. buf[i] \in Words
    BY <1>1, <1>2, LineShape
  <2>2. DocName(doc) \in Docs
    BY <1>2, BootstrapAssumption DEF DocName, Docs
  <2> QED
    BY <2>1, <2>2
<1>4. OneMore(initial', initial, w, x, line_num)
  BY <1>1, <1>2, <1>3, AddNode DEF IInv
<1>5. Position'
  <2>1. Reading' /\ LinesOf(doc)' = LinesOf(doc) /\ (ReadAtAll(doc)' <=> ReadAtAll(doc))
    BY <1>1 DEF Reading, LinesOf, ReadAtAll, IInv, Position
  <2>2. i' \in 1 .. Len(buf') + 1
    <3>1. DOMAIN buf = 1 .. Len(buf)
      BY <1>2, LineShape
    <3> QED
      BY <1>1, <1>2, <3>1
  <2> QED
    BY <1>1, <2>1, <2>2 DEF Position, IInv
<1>6. ASSUME NEW v \in Words, NEW d \in Docs, NEW n \in Numbers
      PROVE  Entered(v, d, n)' = Entered(v, d, n) + (IF v = w /\ d = doc /\ n = line_num THEN 1 ELSE 0)
  <2>1. Expected(v, d, n)' = Expected(v, d, n)
    BY <1>1, SameFiles
  <2>2. d \in Nat /\ n \in Nat \ {0} /\ Entered(v, d, n) \in Nat
    BY EnteredNat, BootstrapAssumption DEF Docs, Numbers
  <2>3. CASE ~(d = doc /\ n = line_num)
    <3>1. d < doc \/ d > doc \/ n < line_num \/ n > line_num
      BY <1>2, <2>2, <2>3
    <3>2. d > doc => ~(d < doc)
      BY <1>2, <2>2
    <3>3. n > line_num => ~(n < line_num)
      BY <1>2, <2>2
    <3>4. Entered(v, d, n)' = Entered(v, d, n)
      BY <1>1, <2>1, <3>1, <3>2, <3>3 DEF Entered
    <3> QED
      BY <2>2, <2>3, <3>4
  <2>4. CASE d = doc /\ n = line_num
    <3>1. ~(d < doc) /\ ~(d > doc) /\ ~(n > line_num) /\ ~(n < line_num)
      BY <1>2, <2>4
    <3>2. PICK j \in Nat : j = i - 1 /\ j + 1 = i
      BY <1>2
    <3>3. Entered(v, d, n) = Times(buf, j, v)
      BY <1>1, <3>1, <3>2 DEF Entered
    <3>4. Entered(v, d, n)' = Times(buf, j + 1, v)
      <4>1. i' - 1 = j + 1
        BY <1>1, <1>2, <3>2
      <4> QED
        BY <1>1, <3>1, <4>1 DEF Entered
    <3>5. Times(buf, j + 1, v) = Times(buf, j, v) + (IF v = w THEN 1 ELSE 0)
      BY <1>3, <3>2, CountNext
    <3> QED
      BY <2>4, <3>3, <3>4, <3>5
  <2> QED
    BY <2>3, <2>4
<1>7. ASSUME NEW v \in Words, NEW y \in Docs, NEW n \in Numbers
      PROVE  (TermCount(initial, v, y, n) = EnteredIn(v, y, n))'
  <2>1. Named(y)' = Named(y)
    BY <1>1 DEF Named, DocName
  <2>2. PICK f, g, S : /\ f = [d \in Docs |-> Entered(v, d, n)] /\ S = Named(y)
                       /\ g = [d \in Docs |-> Entered(v, d, n)']
    OBVIOUS
  <2>3. EnteredIn(v, y, n) = SumOver(f, S) /\ EnteredIn(v, y, n)' = SumOver(g, S)
    BY <2>1, <2>2 DEF EnteredIn
  <2>4. IsFiniteSet(S) /\ S \subseteq Docs
    <3>1. 1 \in Int /\ NFiles \in Int
      BY BootstrapAssumption
    <3>2. IsFiniteSet(Docs)
      BY <3>1, FS_Interval DEF Docs
    <3> QED
      BY <2>2, <3>2, FS_Subset DEF Named
  <2>5. \A d \in S : f[d] \in Nat
    BY <2>2, <2>4, EnteredNat
  <2>6. \A d \in S : g[d] = f[d] + (IF v = w /\ d = doc /\ n = line_num THEN 1 ELSE 0)
    BY <1>6, <2>2, <2>4
  <2>7. SumOver(f, S) \in Nat
    BY <2>4, <2>5, SumIs
  <2>8. TermCount(initial, v, y, n) = SumOver(f, S)
    BY <2>3 DEF IInv
  <2>9. TermCount(initial', v, y, n)
          = SumOver(f, S) + (IF v = w /\ y = x /\ n = line_num THEN 1 ELSE 0)
    BY <1>4, <2>8 DEF OneMore
  <2>10. CASE v = w /\ y = x /\ n = line_num
    <3>1. doc \in S
      BY <1>2, <1>3, <2>2, <2>10 DEF Named
    <3>2. g[doc] = f[doc] + 1 /\ 1 \in Nat
      BY <2>6, <2>10, <3>1
    <3>3. \A d \in S \ {doc} : g[d] = f[d]
      BY <2>5, <2>6
    <3>4. SumOver(g, S) = SumOver(f, S) + 1
      BY <2>4, <2>5, <3>1, <3>2, <3>3, SumGrows
    <3> QED
      BY <2>3, <2>9, <2>10, <3>4
  <2>11. CASE ~(v = w /\ y = x /\ n = line_num)
    <3>1. \A d \in S : ~(v = w /\ d = doc /\ n = line_num)
      BY <1>3, <2>2, <2>11 DEF Named
    <3>2. \A d \in S : g[d] = f[d]
      BY <2>5, <2>6, <3>1
    <3>3. SumOver(f, S) = SumOver(g, S)
      BY <2>4, <2>5, <3>2, SumSame
    <3> QED
      BY <2>3, <2>7, <2>9, <2>11, <3>3
  <2> QED
    BY <2>10, <2>11
<1>8. ASSUME ~alike', NEW d \in Docs PROVE TermsRisingTo(initial, d, Limit(d))'
  <2>1. x = doc
    BY <1>1, <1>3, <1>8 DEF DocName
  <2>2. Limit(d)' = Limit(d) /\ Limit(doc) = line_num
    BY <1>1, <1>2 DEF Limit
  <2>3. TermsRisingTo(initial, d, Limit(d))
    BY <1>1, <1>8 DEF IInv
  <2>4. TermsRisingTo(initial', d, Limit(d))
    <3>1. CASE d = doc
      BY <1>4, <2>1, <2>2, <2>3, <3>1 DEF OneMore
    <3>2. CASE d # doc
      BY <1>4, <2>1, <2>3, <3>2 DEF OneMore
    <3> QED
      BY <3>1, <3>2
  <2> QED
    BY <2>2, <2>4
<1>9. TermsOK(initial)'
  BY <1>4 DEF OneMore
<1> QED
  BY <1>1, <1>5, <1>7, <1>8, <1>9 DEF IInv

LEMMA Start == Init => IInv
<1> SUFFICES ASSUME Init PROVE IInv
  OBVIOUS
<1>1. /\ files \in [Docs -> File] /\ alike \in BOOLEAN
      /\ doc = 1 /\ pos = 0 /\ feof = FALSE /\ buf = <<>> /\ i = 1 /\ line_num = 0 /\ pc = "first"
      /\ initial = <<>>
  BY DEF Init
<1>2. initial \in Seq(TermNode) /\ Len(initial) = 0 /\ DOMAIN initial = {}
  BY <1>1
<1>3. TermsOK(initial)
  BY <1>2 DEF TermsOK
<1>4. ASSUME NEW w \in Words, NEW x \in Docs, NEW n \in Numbers
      PROVE  TermCount(initial, w, x, n) = EnteredIn(w, x, n)
  <2>1. TermCount(initial, w, x, n) = 0
    BY <1>2, <1>3, TermCountIs
  <2>2. \A d \in Docs : Entered(w, d, n) = 0
    <3> SUFFICES ASSUME NEW d \in Docs PROVE Entered(w, d, n) = 0
      OBVIOUS
    <3>1. ~(d < doc)
      BY <1>1, BootstrapAssumption DEF Docs
    <3> QED
      BY <1>1, <3>1 DEF Entered
  <2>3. PICK f, S : f = [d \in Docs |-> Entered(w, d, n)] /\ S = Named(x)
    OBVIOUS
  <2>4. IsFiniteSet(S) /\ S \subseteq Docs
    <3>1. 1 \in Int /\ NFiles \in Int
      BY BootstrapAssumption
    <3>2. IsFiniteSet(Docs)
      BY <3>1, FS_Interval DEF Docs
    <3> QED
      BY <2>3, <3>2, FS_Subset DEF Named
  <2>5. \A d \in S : f[d] = 0
    BY <2>2, <2>3, <2>4
  <2>6. SumOver(f, S) = 0
    BY <2>4, <2>5, SumOfZeros
  <2> QED
    BY <2>1, <2>3, <2>6 DEF EnteredIn
<1>5. \A d \in Docs : TermsRisingTo(initial, d, Limit(d))
  BY <1>2 DEF TermsRisingTo
<1>6. Position
  BY <1>1 DEF Position
<1>7. doc \in 1 .. NFiles + 1
  BY <1>1, BootstrapAssumption
<1> QED
  BY <1>1, <1>3, <1>4, <1>5, <1>6, <1>7 DEF IInv

(* The inductive invariant: every action keeps what was counted and where   *)
(* the reader stands.                                                       *)
LEMMA Invariant == Spec => []IInv
<1>1. IInv /\ [Next]_vars => IInv'
  <2> SUFFICES ASSUME IInv, [Next]_vars PROVE IInv'
    OBVIOUS
  <2>1. CASE SkipFile
    BY <2>1, KeptBySkip
  <2>2. CASE FirstLine
    BY <2>2, KeptByFirstLine
  <2>3. CASE NextLine
    BY <2>3, KeptByNextLine
  <2>4. CASE AddWord
    BY <2>4, KeptByAddWord
  <2>5. CASE LineDone
    BY <2>5, KeptByLineDone
  <2>6. CASE NextFile
    BY <2>6, KeptByNextFile
  <2>7. CASE UNCHANGED vars
    <3>1. /\ files' = files /\ alike' = alike /\ initial' = initial /\ feof' = feof /\ doc' = doc
          /\ pos' = pos /\ buf' = buf /\ line_num' = line_num /\ pc' = pc /\ i' = i
      BY <2>7 DEF vars, readVars
    <3>2. Position'
      BY <3>1 DEF Position, IInv, Reading, LinesOf, ReadAtAll
    <3>3. \A w \in Words, d \in Docs, n \in Numbers : Entered(w, d, n)' = Entered(w, d, n)
      BY <3>1, SameFiles DEF Entered
    <3>4. \A d \in Docs : Limit(d) \in Nat /\ Limit(d)' = Limit(d)
      <4>1. pc = "first" => line_num = 0
        BY DEF IInv, Position
      <4>2. line_num \in Nat /\ MaxLines + 1 \in Nat
        BY <4>1, InFile, BootstrapAssumption
      <4> QED
        BY <3>1, <4>2 DEF Limit
    <3>5. \A d \in Docs : Limit(d) \in Nat /\ Limit(d)' \in Nat /\ Limit(d) <= Limit(d)'
      BY <3>4
    <3> QED
      BY <3>1, <3>2, <3>3, <3>5, Quiet DEF IInv
  <2> QED
    BY <2>1, <2>2, <2>3, <2>4, <2>5, <2>6, <2>7 DEF Next
<1> QED
  BY <1>1, Start, PTL DEF Spec

-----------------------------------------------------------------------------
(* The theorems.                                                            *)

(* The variables of making_inverted_index stay in their ranges, whatever    *)
(* getline leaves at the end of a file, and every node that add_node links  *)
(* is about a word, a document and a line there are.                        *)
THEOREM TypeCorrect == Spec => []TypeOK
<1>1. IInv => TypeOK
  <2> SUFFICES ASSUME IInv PROVE TypeOK
    OBVIOUS
  <2>1. /\ pos \in 0 .. MaxLines /\ buf \in Line /\ i \in 1 .. MaxWords + 1
        /\ line_num \in 0 .. MaxLines + 1
    <3>1. <<>> \in Line /\ MaxLines \in Nat /\ MaxWords \in Nat
      <4>1. <<>> \in [1 .. 0 -> Words] /\ 0 \in 0 .. MaxWords
        BY BootstrapAssumption
      <4> QED
        BY <4>1, BootstrapAssumption DEF Line
    <3>2. CASE pc = "first"
      <4>1. pos = 0 /\ line_num = 0 /\ buf = <<>> /\ i = 1
        BY <3>2 DEF IInv, Position
      <4> QED
        BY <3>1, <4>1
    <3>3. CASE pc # "first"
      <4>1. /\ files \in [Docs -> File] /\ doc \in Docs
            /\ pos \in 0 .. Len(LinesOf(doc)) /\ i \in 1 .. Len(buf) + 1
        BY <3>3 DEF IInv, Position, Reading
      <4>2. PICK len \in 0 .. MaxLines : len = Len(LinesOf(doc)) /\ \A n \in 1 .. len : LinesOf(doc)[n] \in Line
        BY <4>1, Shape
      <4>3. pos \in 0 .. MaxLines
        BY <3>1, <4>1, <4>2
      <4>4. buf \in Line /\ line_num \in 0 .. MaxLines + 1
        <5>1. CASE line_num = 1 /\ buf = <<>>
          BY <3>1, <5>1
        <5>2. CASE pos > 0 /\ buf = LinesOf(doc)[pos] /\ line_num \in {pos, pos + 1}
          BY <3>1, <4>1, <4>2, <5>2
        <5> QED
          BY <3>3, <5>1, <5>2 DEF IInv, Position
      <4>5. Len(buf) \in 0 .. MaxWords
        BY <4>4, LineShape
      <4> QED
        BY <3>1, <4>1, <4>3, <4>4, <4>5
    <3> QED
      BY <3>2, <3>3
  <2>2. ASSUME NEW t \in ToSet(initial)
        PROVE  /\ t.term \in Words /\ t.term_freq \in Nat \ {0} /\ t.is_initial \in {0, 1}
               /\ \A x \in ToSet(t.doc_node) :
                    /\ x.doc_name \in Docs
                    /\ \A y \in ToSet(x.line_node) : y.line_num \in 1 .. MaxLines + 1
    <3>1. PICK k \in DOMAIN initial : t = initial[k]
      BY DEF ToSet
    <3>2. TermsOK(initial)
      BY DEF IInv
    <3>3. t \in TermNode /\ DocsOK(t.doc_node)
      BY <3>1, <3>2, TermsAre DEF TermsOK
    <3>4. ASSUME NEW x \in ToSet(t.doc_node)
          PROVE  x.doc_name \in Docs /\ \A y \in ToSet(x.line_node) : y.line_num \in 1 .. MaxLines + 1
      <4>1. PICK j \in DOMAIN t.doc_node : x = t.doc_node[j]
        BY DEF ToSet
      <4>2. t.doc_node \in Seq(DocNode) /\ LinesOK(x.line_node)
        BY <3>3, <4>1 DEF DocsOK
      <4>3. x \in DocNode
        BY <4>1, <4>2, LenProperties, ElementOfSeq
      <4>4. ASSUME NEW y \in ToSet(x.line_node) PROVE y.line_num \in 1 .. MaxLines + 1
        <5>1. PICK q \in DOMAIN x.line_node : y = x.line_node[q]
          BY DEF ToSet
        <5>2. x.line_node \in Seq(LineNode)
          BY <4>2 DEF LinesOK
        <5>3. y \in LineNode
          BY <5>1, <5>2, LenProperties, ElementOfSeq
        <5> QED
          BY <5>3 DEF LineNode, Numbers
      <4> QED
        BY <4>3, <4>4 DEF DocNode
    <3> QED
      BY <3>3, <3>4 DEF TermNode
  <2> QED
    BY <2>1, <2>2 DEF IInv, TypeOK
<1> QED
  BY <1>1, Invariant, PTL

(* Wherever add_node puts a new term, the terms stay in dictionary order,   *)
(* each once, and only the first node of the list is marked initial.        *)
THEOREM Ordered == Spec => []DictionaryOrder
<1>1. IInv => DictionaryOrder
  BY DEF IInv, TermsOK, DictionaryOrder
<1> QED
  BY <1>1, Invariant, PTL

(* The length in the first node, which bounds every loop of add_node, is    *)
(* the length of the list, at all three levels and also after a new first   *)
(* term took it over; and the frequencies add up.                           *)
THEOREM Counted == Spec => []CountsTrue
<1>1. IInv => CountsTrue
  <2> SUFFICES ASSUME IInv PROVE CountsTrue
    OBVIOUS
  <2>1. TermsOK(initial)
    BY DEF IInv
  <2>2. initial # <<>> => initial[1].total_length = Len(initial)
    <3>1. initial \in Seq(TermNode)
      BY <2>1 DEF TermsOK
    <3>2. initial # <<>> => Len(initial) > 0
      BY <3>1, EmptySeq, LenProperties
    <3> QED
      BY <2>1, <3>2 DEF TermsOK
  <2>3. ASSUME NEW t \in ToSet(initial)
        PROVE  /\ t.doc_node[1].total_length = Len(t.doc_node)
               /\ t.term_freq = FoldSeq(LAMBDA x, n : x.doc_freq + n, 0, t.doc_node)
               /\ \A x \in ToSet(t.doc_node) :
                    /\ x.line_node[1].total_length = Len(x.line_node)
                    /\ x.doc_freq = FoldSeq(LAMBDA y, n : y.line_freq + n, 0, x.line_node)
    <3>1. PICK k \in DOMAIN initial : t = initial[k]
      BY DEF ToSet
    <3>2. DocsOK(t.doc_node) /\ t.term_freq = DocTotal(t.doc_node)
      BY <2>1, <3>1 DEF TermsOK
    <3>3. FoldSeq(LAMBDA x, n : x.doc_freq + n, 0, t.doc_node) = DocTotal(t.doc_node)
      BY <3>2, DocSum
    <3>4. t.doc_node[1].total_length = Len(t.doc_node)
      BY <3>2 DEF DocsOK
    <3>5. ASSUME NEW x \in ToSet(t.doc_node)
          PROVE  /\ x.line_node[1].total_length = Len(x.line_node)
                 /\ x.doc_freq = FoldSeq(LAMBDA y, n : y.line_freq + n, 0, x.line_node)
      <4>1. PICK j \in DOMAIN t.doc_node : x = t.doc_node[j]
        BY DEF ToSet
      <4>2. LinesOK(x.line_node) /\ x.doc_freq = LineTotal(x.line_node)
        BY <3>2, <4>1 DEF DocsOK
      <4>3. FoldSeq(LAMBDA y, n : y.line_freq + n, 0, x.line_node) = LineTotal(x.line_node)
        BY <4>2, LineSum
      <4> QED
        BY <4>2, <4>3 DEF LinesOK
    <3> QED
      BY <3>2, <3>3, <3>4, <3>5
  <2> QED
    BY <2>2, <2>3 DEF CountsTrue
<1> QED
  BY <1>1, Invariant, PTL

LEMMA FreqSum ==
  ASSUME NEW S, IsFiniteSet(S), \A y \in S : y.line_freq \in Nat
  PROVE  MapThenSumSet(LAMBDA x : x.line_freq, S) = SumOver([y \in S |-> y.line_freq], S)
<1> DEFINE It(h) == h = [t \in SUBSET S |->
                           IF t = {} THEN 0
                           ELSE (CHOOSE y \in t : TRUE).line_freq + h[t \ {CHOOSE y \in t : TRUE}]]
           f == [y \in S |-> y.line_freq]
<1>1. MapThenSumSet(LAMBDA x : x.line_freq, S) = (CHOOSE h : It(h))[S]
  BY DEF MapThenSumSet, MapThenFoldSet
<1>2. \A y \in S : f[y] = y.line_freq /\ f[y] \in Nat
  OBVIOUS
<1>3. \A t \in SUBSET S : t # {} => (CHOOSE y \in t : TRUE) \in S
  OBVIOUS
<1> HIDE DEF f
<1>4. \A h : It(h) <=> Adds(f, S, h)
  BY <1>2, <1>3 DEF Adds
<1>5. \E h : Adds(f, S, h)
  <2>1. PICK h \in [SUBSET S -> Nat] : Adds(f, S, h)
    BY <1>2, AddsExists
  <2> QED
    BY <2>1
<1> HIDE DEF It
<1>6. It(CHOOSE h : It(h))
  BY <1>4, <1>5
<1> QED
  <2>1. PICK h : h = (CHOOSE g : It(g)) /\ Adds(f, S, h)
    BY <1>4, <1>6
  <2>2. SumOver(f, S) = h[S]
    BY <1>2, <2>1, SumIs
  <2> QED
    BY <1>1, <2>1, <2>2 DEF f

(* Node q of the lines of document j of term k is about line n of x and w.  *)
At(ts, w, x, n, k, j, q) ==
  /\ k \in DOMAIN ts /\ ts[k].term = w
  /\ j \in DOMAIN ts[k].doc_node /\ ts[k].doc_node[j].doc_name = x
  /\ q \in DOMAIN ts[k].doc_node[j].line_node /\ ts[k].doc_node[j].line_node[q].line_num = n

(* There is one such node at most, and it has the count. *)
LEMMA TheNode ==
  ASSUME NEW ts, TermsOK(ts), NEW w, NEW x, NEW n, NEW k, NEW j, NEW q, At(ts, w, x, n, k, j, q)
  PROVE  /\ TermCount(ts, w, x, n) = ts[k].doc_node[j].line_node[q].line_freq
         /\ TermCount(ts, w, x, n) > 0
         /\ \A l, h, p : At(ts, w, x, n, l, h, p) => l = k /\ h = j /\ p = q
<1>1. PICK ds : ds = ts[k].doc_node
  OBVIOUS
<1>2. PICK ls : ls = ds[j].line_node
  OBVIOUS
<1>3. /\ k \in DOMAIN ts /\ ts[k].term = w /\ j \in DOMAIN ds /\ ds[j].doc_name = x
      /\ q \in DOMAIN ls /\ ls[q].line_num = n
  BY <1>1, <1>2 DEF At
<1>4. DocsOK(ds)
  BY <1>1, <1>3 DEF TermsOK
<1>5. LinesOK(ls)
  BY <1>2, <1>3, <1>4 DEF DocsOK
<1>6. TermCount(ts, w, x, n) = DocCount(ds, x, n)
  BY <1>1, <1>3, TermCountIs
<1>7. DocCount(ds, x, n) = LineCount(ls, n)
  BY <1>2, <1>3, <1>4, DocCountIs
<1>8. LineCount(ls, n) = ls[q].line_freq
  BY <1>3, <1>5, LineCountIs
<1>9. LineCount(ls, n) > 0
  BY <1>3, <1>5, LineCountOf
<1>10. ASSUME NEW l, NEW h, NEW p, At(ts, w, x, n, l, h, p) PROVE l = k /\ h = j /\ p = q
  <2>1. l = k
    BY <1>3, <1>10, TermsAre DEF At
  <2>2. h = j
    BY <1>1, <1>3, <1>4, <1>10, <2>1 DEF At, DocsOK
  <2>3. p = q
    BY <1>1, <1>2, <1>3, <1>5, <1>10, <2>1, <2>2 DEF At, LinesOK
  <2> QED
    BY <2>1, <2>2, <2>3
<1> QED
  BY <1>1, <1>2, <1>6, <1>7, <1>8, <1>9, <1>10

(* The node of what was counted. *)
LEMMA OneNode ==
  ASSUME NEW ts, TermsOK(ts), NEW w, NEW x, NEW n
  PROVE  /\ TermCount(ts, w, x, n) \in Nat
         /\ TermCount(ts, w, x, n) > 0 <=> \E k, j, q : At(ts, w, x, n, k, j, q)
<1>1. (\E k, j, q : At(ts, w, x, n, k, j, q)) => TermCount(ts, w, x, n) > 0
  BY TheNode
<1>2. ASSUME TermCount(ts, w, x, n) > 0 PROVE \E k, j, q : At(ts, w, x, n, k, j, q)
  <2>1. PICK k \in DOMAIN ts : ts[k].term = w /\ DocCount(ts[k].doc_node, x, n) > 0
    BY <1>2, TermCountOf
  <2>2. DocsOK(ts[k].doc_node)
    BY <2>1 DEF TermsOK
  <2>3. PICK ds : ds = ts[k].doc_node
    OBVIOUS
  <2>4. PICK j \in DOMAIN ds : ds[j].doc_name = x /\ \E q \in DOMAIN ds[j].line_node : ds[j].line_node[q].line_num = n
    BY <2>1, <2>2, <2>3, DocCountOf
  <2>5. PICK q \in DOMAIN ds[j].line_node : ds[j].line_node[q].line_num = n
    BY <2>4
  <2>6. At(ts, w, x, n, k, j, q)
    BY <2>1, <2>3, <2>4, <2>5 DEF At
  <2> QED
    BY <2>6
<1>3. TermCount(ts, w, x, n) \in Nat
  BY TermCountOf
<1> QED
  BY <1>1, <1>2, <1>3

(* The sum over the lines that match is over one line at most. *)
LEMMA OccurrencesAre ==
  ASSUME NEW ts, TermsOK(ts), NEW w, NEW x, NEW n
  PROVE  Occurrences(ts, w, x, n) = TermCount(ts, w, x, n)
<1> DEFINE S == UNION {UNION {{y \in ToSet(d.line_node) : y.line_num = n} :
                              d \in {z \in ToSet(t.doc_node) : z.doc_name = x}} :
                       t \in {u \in ToSet(ts) : u.term = w}}
<1>1. Occurrences(ts, w, x, n) = MapThenSumSet(LAMBDA y : y.line_freq, S)
  BY DEF Occurrences
<1>2. \A y : y \in S <=> \E k, j, q : At(ts, w, x, n, k, j, q) /\ y = ts[k].doc_node[j].line_node[q]
  <2>1. ASSUME NEW y \in S
        PROVE  \E k, j, q : At(ts, w, x, n, k, j, q) /\ y = ts[k].doc_node[j].line_node[q]
    <3>1. PICK t \in ToSet(ts) : t.term = w /\ \E d \in ToSet(t.doc_node) :
                   d.doc_name = x /\ y \in ToSet(d.line_node) /\ y.line_num = n
      OBVIOUS
    <3>2. PICK d \in ToSet(t.doc_node) : d.doc_name = x /\ y \in ToSet(d.line_node) /\ y.line_num = n
      BY <3>1
    <3>3. PICK k \in DOMAIN ts : t = ts[k]
      BY DEF ToSet
    <3>4. PICK j \in DOMAIN ts[k].doc_node : d = ts[k].doc_node[j]
      BY <3>3 DEF ToSet
    <3>5. PICK q \in DOMAIN d.line_node : y = d.line_node[q]
      BY <3>2 DEF ToSet
    <3>6. At(ts, w, x, n, k, j, q)
      BY <3>1, <3>2, <3>3, <3>4, <3>5 DEF At
    <3> QED
      BY <3>4, <3>5, <3>6
  <2>2. ASSUME NEW k, NEW j, NEW q, At(ts, w, x, n, k, j, q)
        PROVE  ts[k].doc_node[j].line_node[q] \in S
    <3>1. PICK t, d, y : t = ts[k] /\ d = t.doc_node[j] /\ y = d.line_node[q]
      OBVIOUS
    <3>2. t \in ToSet(ts) /\ t.term = w
      BY <2>2, <3>1 DEF At, ToSet
    <3>3. d \in ToSet(t.doc_node) /\ d.doc_name = x
      BY <2>2, <3>1 DEF At, ToSet
    <3>4. y \in ToSet(d.line_node) /\ y.line_num = n
      BY <2>2, <3>1 DEF At, ToSet
    <3>5. y \in S
      BY <3>2, <3>3, <3>4
    <3> QED
      BY <3>1, <3>5
  <2> HIDE DEF S
  <2> QED
    BY <2>1, <2>2
<1> HIDE DEF S
<1>3. CASE \E k, j, q : At(ts, w, x, n, k, j, q)
  <2>1. PICK k, j, q : At(ts, w, x, n, k, j, q)
    BY <1>3
  <2>2. PICK y : y = ts[k].doc_node[j].line_node[q]
    OBVIOUS
  <2>3. TermCount(ts, w, x, n) = y.line_freq /\ y.line_freq \in Nat
    <3>1. TermCount(ts, w, x, n) \in Nat
      BY OneNode
    <3> QED
      BY <2>1, <2>2, <3>1, TheNode
  <2>4. \A l, h, p : At(ts, w, x, n, l, h, p) => l = k /\ h = j /\ p = q
    BY <2>1, TheNode
  <2>5. S = {y}
    BY <1>2, <2>1, <2>2, <2>4
  <2>6. IsFiniteSet(S) /\ \A z \in S : z.line_freq \in Nat
    BY <2>3, <2>5, FS_Singleton
  <2>7. PICK f : f = [z \in S |-> z.line_freq]
    OBVIOUS
  <2>8. MapThenSumSet(LAMBDA z : z.line_freq, S) = SumOver(f, S)
    BY <2>6, <2>7, FreqSum
  <2>9. f[y] = y.line_freq
    BY <2>5, <2>7
  <2>10. SumOver(f, {y}) = f[y]
    BY <2>3, <2>9, SumOfOne
  <2> QED
    BY <1>1, <2>3, <2>5, <2>8, <2>9, <2>10
<1>4. CASE ~\E k, j, q : At(ts, w, x, n, k, j, q)
  <2>1. S = {}
    BY <1>2, <1>4
  <2>2. TermCount(ts, w, x, n) = 0
    <3>1. TermCount(ts, w, x, n) \in Nat /\ ~(TermCount(ts, w, x, n) > 0)
      BY <1>4, OneNode
    <3> QED
      BY <3>1
  <2>3. IsFiniteSet(S) /\ \A z \in S : z.line_freq \in Nat
    BY <2>1, FS_EmptySet
  <2>4. PICK f : f = [z \in S |-> z.line_freq]
    OBVIOUS
  <2>5. MapThenSumSet(LAMBDA z : z.line_freq, S) = SumOver(f, S)
    BY <2>3, <2>4, FreqSum
  <2>6. SumOver(f, S) = 0
    BY <2>1, SumOfNone
  <2> QED
    BY <1>1, <2>2, <2>5, <2>6
<1> QED
  BY <1>3, <1>4

(* The index when all files are read. *)
LEMMA AtTheEnd ==
  ASSUME IInv, Done, NEW w \in Words, NEW x \in Docs, NEW n \in Numbers
  PROVE  TermCount(initial, w, x, n) = ExpectedIn(w, x, n)
<1>1. files \in [Docs -> File] /\ n \in Nat \ {0}
  BY BootstrapAssumption DEF IInv, Numbers
<1>2. \A d \in Docs : d < doc
  BY BootstrapAssumption DEF IInv, Done, Docs
<1>3. [d \in Docs |-> Entered(w, d, n)] = [d \in Docs |-> Expected(w, d, n)]
  BY <1>2 DEF Entered
<1>4. EnteredIn(w, x, n) = SumOver([d \in Docs |-> Expected(w, d, n)], Named(x))
  BY <1>3 DEF EnteredIn
<1>5. ExpectedIn(w, x, n) = SumOver([d \in Docs |-> Expected(w, d, n)], Named(x))
  BY <1>1, ExpectedInIs
<1> QED
  BY <1>4, <1>5 DEF IInv

(* A sum of natural numbers is positive if one of them is. *)
LEMMA SumPositive ==
  ASSUME NEW S, IsFiniteSet(S), NEW f, \A x \in S : f[x] \in Nat
  PROVE  SumOver(f, S) > 0 <=> \E x \in S : f[x] > 0
<1>1. CASE \E x \in S : f[x] > 0
  <2>1. PICK b \in S : f[b] > 0
    BY <1>1
  <2>2. SumOver(f, S) = f[b] + SumOver(f, S \ {b})
    BY <2>1, SumTakeAny
  <2>3. IsFiniteSet(S \ {b})
    BY FS_Subset
  <2>4. SumOver(f, S \ {b}) \in Nat
    BY <2>3, SumIs
  <2>5. PICK m \in Nat, n \in Nat : m = f[b] /\ n = SumOver(f, S \ {b})
    BY <2>4
  <2> QED
    BY <1>1, <2>1, <2>2, <2>5
<1>2. CASE \A x \in S : ~(f[x] > 0)
  <2>1. \A x \in S : f[x] = 0
    BY <1>2
  <2>2. SumOver(f, S) = 0
    BY <2>1, SumOfZeros
  <2> QED
    BY <1>2, <2>2
<1> QED
  BY <1>1, <1>2

-----------------------------------------------------------------------------
(* What is entered, against what the files say.                              *)

(* Files that are not read have no lines (Init), and files do not change. *)
OtherEmpty == \A d \in Docs : files[d].kind # "text" => LinesOf(d) = <<>>

LEMMA OthersStayEmpty == Spec => []OtherEmpty
<1>1. Init => OtherEmpty
  BY DEF Init, OtherEmpty, LinesOf
<1>2. OtherEmpty /\ [Next]_vars => OtherEmpty'
  <2> SUFFICES ASSUME OtherEmpty, [Next]_vars PROVE OtherEmpty'
    OBVIOUS
  <2>1. files' = files
    BY DEF Next, vars, readVars, SkipFile, FirstLine, NextLine, AddWord, LineDone, NextFile
  <2> QED
    BY <2>1 DEF OtherEmpty, LinesOf
<1> QED
  BY <1>1, <1>2, PTL DEF Spec

LEMMA OnLineIs ==
  ASSUME files \in [Docs -> File], NEW d \in Docs, NEW w, NEW m
  PROVE  /\ OnLine(w, d, m) \in Nat
         /\ m \notin 1 .. Len(LinesOf(d)) => OnLine(w, d, m) = 0
<1>1. PICK len \in Nat : /\ len = Len(LinesOf(d)) /\ DOMAIN LinesOf(d) = 1 .. len
                         /\ \A k \in 1 .. len : LinesOf(d)[k] \in Line
  BY Shape, BootstrapAssumption
<1>2. CASE m \in 1 .. len
  <2>1. PICK b \in Line : b = LinesOf(d)[m]
    BY <1>1, <1>2
  <2>2. Times(b, Len(b), w) \in Nat /\ DOMAIN b = 1 .. Len(b)
    BY LineShape, CountNext
  <2>3. OnLine(w, d, m) = Times(b, Len(b), w)
    BY <1>1, <1>2, <2>1, <2>2 DEF OnLine, LinesOf, Times
  <2> QED
    BY <1>1, <1>2, <2>2, <2>3
<1>3. CASE m \notin 1 .. len
  BY <1>1, <1>3 DEF OnLine, LinesOf
<1> QED
  BY <1>2, <1>3

(* Away from the ends of files, what is entered is what is there. *)
LEMMA ExpectedIsTrue ==
  ASSUME files \in [Docs -> File], OtherEmpty, NEW w, NEW d \in Docs, NEW n \in Numbers,
         Sure(DocName(d), n)
  PROVE  Expected(w, d, n) = OnLine(w, d, n)
<1>1. PICK len \in Nat : /\ len = Len(LinesOf(d)) /\ files[d].content.newline \in BOOLEAN
                         /\ (LinesOf(d) = <<>> <=> len = 0)
  BY Shape, BootstrapAssumption, EmptySeq
<1>2. n \in Nat \ {0}
  BY BootstrapAssumption DEF Numbers
<1>3. ~Phantom(d, n) /\ (Dropped(d) => n # 1)
  BY DEF Sure
<1>4. \A m : m \notin 1 .. len => OnLine(w, d, m) = 0
  BY <1>1, OnLineIs
<1>5. CASE ~ReadAtAll(d)
  <2>1. len = 0 \/ (len = 1 /\ n # 1)
    <3>1. CASE files[d].kind # "text"
      BY <1>1, <3>1 DEF OtherEmpty
    <3>2. CASE files[d].kind = "text"
      <4>1. ~files[d].content.newline /\ ~(len > 1)
        BY <1>1, <1>5, <3>2 DEF ReadAtAll
      <4>2. len = 1 => n # 1
        BY <1>1, <1>3, <4>1 DEF Dropped, LinesOf
      <4> QED
        BY <1>1, <4>1, <4>2
    <3> QED
      BY <3>1, <3>2
  <2>2. n \notin 1 .. len
    BY <1>2, <2>1
  <2> QED
    BY <1>4, <1>5, <2>2 DEF Expected
<1>6. CASE ReadAtAll(d) /\ n = Extra(d)
  <2>1. files[d].content.newline /\ n = len + 1
    BY <1>1, <1>2, <1>6 DEF Extra
  <2>2. len = 0
    BY <1>1, <1>3, <2>1 DEF Phantom, LinesOf
  <2>3. OnLine(w, d, n) = 0 /\ OnLine(w, d, n - 1) = 0
    <3>1. n \notin 1 .. len /\ n - 1 \notin 1 .. len
      BY <2>1, <2>2
    <3> QED
      BY <1>4, <3>1
  <2> QED
    BY <1>6, <2>3 DEF Expected
<1>7. CASE ReadAtAll(d) /\ n # Extra(d)
  BY <1>7 DEF Expected
<1> QED
  BY <1>5, <1>6, <1>7

LEMMA TruthIs ==
  ASSUME files \in [Docs -> File], NEW w, NEW x, NEW n
  PROVE  /\ Truth(w, x, n) = SumOver([d \in Docs |-> OnLine(w, d, n)], Named(x))
         /\ Truth(w, x, n) > 0 <=> \E d \in Named(x) : OnLine(w, d, n) > 0
<1> DEFINE S == {d \in Docs : DocName(d) = x}
           It(h) == h = [t \in SUBSET S |->
                           IF t = {} THEN 0
                           ELSE OnLine(w, CHOOSE y \in t : TRUE, n) + h[t \ {CHOOSE y \in t : TRUE}]]
           f == [d \in Docs |-> OnLine(w, d, n)]
<1>1. Truth(w, x, n) = (CHOOSE h : It(h))[S]
  BY DEF Truth, MapThenSumSet, MapThenFoldSet
<1>2. IsFiniteSet(S) /\ \A d \in S : f[d] = OnLine(w, d, n) /\ f[d] \in Nat
  <2>1. IsFiniteSet(Docs)
    <3>1. 1 \in Int /\ NFiles \in Int
      BY BootstrapAssumption
    <3> QED
      BY <3>1, FS_Interval DEF Docs
  <2>2. IsFiniteSet(S)
    BY <2>1, FS_Subset
  <2>3. \A d \in Docs : OnLine(w, d, n) \in Nat
    BY OnLineIs
  <2> QED
    BY <2>2, <2>3
<1>3. \A t \in SUBSET S : t # {} => (CHOOSE y \in t : TRUE) \in S
  OBVIOUS
<1>4. S = Named(x)
  BY DEF Named
<1> HIDE DEF S, f
<1>5. \A h : It(h) <=> Adds(f, S, h)
  BY <1>2, <1>3 DEF Adds
<1>6. \E h : Adds(f, S, h)
  <2>1. PICK T, g : T = S /\ g = f
    OBVIOUS
  <2>2. IsFiniteSet(T) /\ \A k \in T : g[k] \in Nat
    BY <1>2, <2>1
  <2>3. PICK h \in [SUBSET T -> Nat] : Adds(g, T, h)
    BY <2>2, AddsExists
  <2> QED
    BY <2>1, <2>3
<1> HIDE DEF It
<1>7. It(CHOOSE h : It(h))
  BY <1>5, <1>6
<1>8. Truth(w, x, n) = SumOver(f, S)
  <2>1. PICK h : h = (CHOOSE g : It(g)) /\ Adds(f, S, h)
    BY <1>5, <1>7
  <2>2. SumOver(f, S) = h[S]
    BY <1>2, <2>1, SumIs
  <2> QED
    BY <1>1, <2>1, <2>2
<1>9. SumOver(f, S) > 0 <=> \E d \in S : f[d] > 0
  BY <1>2, SumPositive
<1>10. \A d \in S : f[d] = OnLine(w, d, n)
  BY <1>2
<1> QED
  BY <1>4, <1>8, <1>9, <1>10 DEF f

LEMMA SureIsTrue ==
  ASSUME files \in [Docs -> File], OtherEmpty, NEW w, NEW x, NEW n \in Numbers, Sure(x, n)
  PROVE  ExpectedIn(w, x, n) = Truth(w, x, n)
<1>1. n \in Nat \ {0}
  BY BootstrapAssumption DEF Numbers
<1>2. PICK f, g : f = [d \in Docs |-> Expected(w, d, n)] /\ g = [d \in Docs |-> OnLine(w, d, n)]
  OBVIOUS
<1>3. \A d \in Named(x) : d \in Docs /\ f[d] = g[d] /\ f[d] \in Nat
  <2>1. \A d \in Named(x) : d \in Docs /\ DocName(d) = x
    BY DEF Named
  <2>2. \A d \in Named(x) : Expected(w, d, n) = OnLine(w, d, n) /\ OnLine(w, d, n) \in Nat
    BY <2>1, ExpectedIsTrue, OnLineIs
  <2> QED
    BY <1>2, <2>1, <2>2
<1>4. IsFiniteSet(Named(x))
  <2>1. 1 \in Int /\ NFiles \in Int
    BY BootstrapAssumption
  <2>2. IsFiniteSet(Docs) /\ Named(x) \subseteq Docs
    BY <2>1, FS_Interval DEF Docs, Named
  <2> QED
    BY <2>2, FS_Subset
<1>5. SumOver(f, Named(x)) = SumOver(g, Named(x))
  BY <1>3, <1>4, SumSame
<1> QED
  BY <1>1, <1>2, <1>5, ExpectedInIs, TruthIs

(* The documents read for a word have it; those with it that are not read   *)
(* have a file that was dropped.                                            *)
LEMMA DocsReadAre ==
  ASSUME files \in [Docs -> File], OtherEmpty, NEW w
  PROVE  /\ DocsRead(w) \subseteq DocsWith(w)
         /\ \A x \in DocsWith(w) \ DocsRead(w) : \E d \in Docs : DocName(d) = x /\ Dropped(d)
<1>1. ASSUME NEW x \in DocsRead(w) PROVE x \in DocsWith(w)
  <2>1. PICK d \in Docs : x = DocName(d) /\ \E n \in 1 .. MaxLines : OnLine(w, d, n) > 0
    BY DEF DocsRead
  <2>2. PICK n \in 1 .. MaxLines : OnLine(w, d, n) > 0
    BY <2>1
  <2>3. d \in Named(x) /\ x \in Docs
    BY <2>1, BootstrapAssumption DEF Named, DocName, Docs
  <2>4. Truth(w, x, n) > 0
    BY <2>2, <2>3, TruthIs
  <2> QED
    BY <2>3, <2>4 DEF DocsWith
<1>2. ASSUME NEW x \in DocsWith(w), x \notin DocsRead(w)
      PROVE  \E d \in Docs : DocName(d) = x /\ Dropped(d)
  <2>1. PICK n \in 1 .. MaxLines : Truth(w, x, n) > 0
    BY DEF DocsWith
  <2>2. PICK d \in Named(x) : OnLine(w, d, n) > 0
    BY <2>1, TruthIs
  <2>3. d \in Docs /\ DocName(d) = x
    BY DEF Named
  <2>4. ~ReadAtAll(d)
    BY <1>2, <2>2, <2>3 DEF DocsRead
  <2>5. PICK len \in Nat : /\ len = Len(LinesOf(d)) /\ files[d].content.newline \in BOOLEAN
                           /\ (LinesOf(d) = <<>> <=> len = 0)
    BY <2>3, Shape, BootstrapAssumption, EmptySeq
  <2>6. n \in 1 .. len
    <3>1. CASE n \notin 1 .. len
      <4>1. OnLine(w, d, n) = 0
        BY <2>3, <2>5, <3>1, OnLineIs
      <4> QED
        BY <2>2, <4>1
    <3> QED
      BY <3>1
  <2>7. len # 0 /\ files[d].kind = "text"
    <3>1. len # 0
      BY <2>6
    <3> QED
      BY <2>3, <2>5, <3>1 DEF OtherEmpty
  <2>8. ~files[d].content.newline /\ ~(len > 1)
    BY <2>4, <2>5, <2>7 DEF ReadAtAll
  <2>9. Dropped(d)
    <3>1. len = 1
      BY <2>5, <2>7, <2>8
    <3> QED
      BY <2>5, <2>8, <3>1 DEF Dropped, LinesOf
  <2> QED
    BY <2>3, <2>9
<1> QED
  BY <1>1, <1>2

(* When bootstrapping has read all files, the index holds every word at its *)
(* lines, as often as it stands there, and nothing else, but for the lines  *)
(* where a file ends: the only line of a file without a newline, which is   *)
(* dropped, and the line invented behind a last one with its newline.       *)
THEOREM Complete == Spec => []IndexComplete
<1>1. IInv /\ OtherEmpty => IndexComplete
  <2> SUFFICES ASSUME IInv, OtherEmpty, Done, NEW w \in Words, NEW x \in Docs, NEW n \in Numbers, Sure(x, n)
               PROVE  Occurrences(initial, w, x, n) = Truth(w, x, n)
    BY DEF IndexComplete, Numbers
  <2>1. TermsOK(initial) /\ files \in [Docs -> File]
    BY DEF IInv
  <2>2. Occurrences(initial, w, x, n) = ExpectedIn(w, x, n)
    BY <2>1, OccurrencesAre, AtTheEnd
  <2> QED
    BY <2>1, <2>2, SureIsTrue
<1> QED
  BY <1>1, Invariant, OthersStayEmpty, PTL

(* What a search answers with the documents of the word: every line of the  *)
(* first one, then one entry for every other one.                           *)
Answers(r, ds) ==
  /\ DOMAIN r = 1 .. Len(ds[1].line_node) + Len(ds) - 1
  /\ \A q \in DOMAIN ds[1].line_node : r[q] = <<ds[1].doc_name, ds[1].line_node[q].line_num>>
  /\ \A q \in 2 .. Len(ds) : r[Len(ds[1].line_node) + q - 1][1] = ds[q].doc_name

LEMMA SearchIs ==
  ASSUME NEW ts, TermsOK(ts), NEW w
  PROVE  /\ (\A k \in DOMAIN ts : ts[k].term # w) => search_from_list(ts, w) = <<>>
         /\ \A k \in DOMAIN ts : ts[k].term = w => Answers(search_from_list(ts, w), ts[k].doc_node)
<1>1. (\A k \in DOMAIN ts : ts[k].term # w) => search_from_list(ts, w) = <<>>
  BY DEF search_from_list
<1>2. ASSUME NEW k \in DOMAIN ts, ts[k].term = w
      PROVE  Answers(search_from_list(ts, w), ts[k].doc_node)
  <2> DEFINE found == {m \in DOMAIN ts : ts[m].term = w}
  <2>1. found # {} /\ Min(found) = k
    <3>1. found = {k}
      BY <1>2, TermsAre
    <3>2. k \in Nat
      BY TermsAre
    <3>3. found \in SUBSET Nat /\ found # {}
      BY <3>1, <3>2
    <3> HIDE DEF found
    <3>4. Min(found) \in found
      BY <3>3, MinOfNat
    <3> QED
      BY <3>1, <3>4
  <2> DEFINE ds == ts[k].doc_node
             ls == ds[1].line_node
             p == [m \in DOMAIN ls |-> <<ds[1].doc_name, ls[m].line_num>>]
             q == [m \in DOMAIN Tail(ds) |-> <<Tail(ds)[m].doc_name, ls[Len(ls)].line_num>>]
  <2>2. search_from_list(ts, w) = p \o q
    BY <2>1 DEF search_from_list, OtherDocs
  <2> HIDE DEF found
  <2>3. DocsOK(ds)
    BY DEF TermsOK
  <2>4. /\ ds \in Seq(DocNode) /\ ds # <<>> /\ Len(ds) \in Nat \ {0} /\ 1 \in DOMAIN ds
        /\ LinesOK(ls)
    <3>1. ds \in Seq(DocNode) /\ Len(ds) > 0
      BY <2>3 DEF DocsOK
    <3>2. Len(ds) \in Nat \ {0} /\ 1 \in DOMAIN ds /\ ds # <<>>
      BY <3>1, LenProperties, EmptySeq
    <3> QED
      BY <2>3, <3>1, <3>2 DEF DocsOK
  <2> HIDE DEF ds
  <2>5. ls \in Seq(LineNode) /\ Len(ls) \in Nat \ {0} /\ DOMAIN ls = 1 .. Len(ls)
    BY <2>4, LenProperties DEF LinesOK
  <2> HIDE DEF ls
  <2>6. PICK a \in Nat \ {0}, b \in Nat \ {0} : a = Len(ls) /\ b = Len(ds)
    BY <2>4, <2>5
  <2>7. PICK rest : /\ rest = Tail(ds) /\ DOMAIN rest = 1 .. b - 1
                    /\ \A m \in 1 .. b - 1 : rest[m] = ds[m + 1]
    <3>1. Tail(ds) \in Seq(DocNode) /\ Len(Tail(ds)) = b - 1
          /\ \A m \in 1 .. b - 1 : Tail(ds)[m] = ds[m + 1]
      BY <2>4, <2>6, HeadTailProperties
    <3> QED
      BY <3>1, LenProperties
  <2> DEFINE V == {p[m] : m \in 1 .. a} \cup {q[m] : m \in 1 .. b - 1}
  <2>8. p \in [1 .. a -> V] /\ \A m \in 1 .. a : p[m] = <<ds[1].doc_name, ls[m].line_num>>
    BY <2>5, <2>6
  <2>9. q \in [1 .. b - 1 -> V] /\ \A m \in 1 .. b - 1 : q[m][1] = ds[m + 1].doc_name
    BY <2>7
  <2> HIDE DEF p, q, V
  <2>10. p \in Seq(V) /\ Len(p) = a /\ q \in Seq(V) /\ Len(q) = b - 1
    <3>1. b - 1 \in Nat
      BY <2>6
    <3> QED
      BY <2>6, <2>8, <2>9, <3>1, SeqOfFunction
  <2>11. PICK r : r = p \o q
    OBVIOUS
  <2>12. DOMAIN r = 1 .. a + b - 1 /\ \A m \in 1 .. a + b - 1 : r[m] = IF m <= a THEN p[m] ELSE q[m - a]
    <3>1. r \in Seq(V) /\ Len(r) = Len(p) + Len(q)
          /\ \A m \in 1 .. Len(p) + Len(q) : r[m] = IF m <= Len(p) THEN p[m] ELSE q[m - Len(p)]
      BY <2>10, <2>11, ConcatProperties
    <3>2. Len(p) + Len(q) = a + b - 1
      BY <2>6, <2>10
    <3> QED
      BY <2>10, <3>1, <3>2, LenProperties
  <2>13. \A m \in 1 .. a : m \in 1 .. a + b - 1 /\ m <= a
    BY <2>6
  <2>14. \A m \in 2 .. b : /\ a + m - 1 \in 1 .. a + b - 1 /\ ~(a + m - 1 <= a) /\ (a + m - 1) - a = m - 1
                           /\ m - 1 \in 1 .. b - 1 /\ (m - 1) + 1 = m
    BY <2>6
  <2>15. \A m \in 1 .. a : r[m] = <<ds[1].doc_name, ls[m].line_num>>
    BY <2>8, <2>12, <2>13
  <2>16. ASSUME NEW m \in 2 .. b PROVE r[a + m - 1][1] = ds[m].doc_name
    <3>1. PICK u, v : u = a + m - 1 /\ v = m - 1
      OBVIOUS
    <3>2. u \in 1 .. a + b - 1 /\ ~(u <= a) /\ u - a = v /\ v \in 1 .. b - 1 /\ v + 1 = m
      BY <2>14, <3>1
    <3>3. r[u] = q[v]
      BY <2>12, <3>2
    <3>4. q[v][1] = ds[v + 1].doc_name
      BY <2>9, <3>2
    <3> QED
      BY <3>1, <3>2, <3>3, <3>4
  <2>17. Answers(r, ds)
    BY <2>5, <2>6, <2>12, <2>15, <2>16 DEF Answers, ls
  <2> QED
    BY <2>2, <2>11, <2>17 DEF ds
<1> QED
  BY <1>1, <1>2

(* DocsRead says which documents have the word on some line. *)
LEMMA DocsReadIs ==
  ASSUME files \in [Docs -> File], NEW w, NEW x
  PROVE  x \in DocsRead(w) <=> \E n \in Numbers : ExpectedIn(w, x, n) > 0
<1>1. ASSUME NEW d \in Docs
      PROVE  (\E n \in Numbers : Expected(w, d, n) > 0)
               <=> ReadAtAll(d) /\ \E n \in 1 .. MaxLines : OnLine(w, d, n) > 0
  <2>1. PICK len \in Nat : /\ len = Len(LinesOf(d)) /\ len <= MaxLines /\ files[d].content.newline \in BOOLEAN
                           /\ DOMAIN LinesOf(d) = 1 .. len
    BY Shape, BootstrapAssumption
  <2>2. ASSUME NEW n \in Numbers, Expected(w, d, n) > 0
        PROVE  ReadAtAll(d) /\ \E m \in 1 .. MaxLines : OnLine(w, d, m) > 0
    <3>1. n \in Nat \ {0}
      BY BootstrapAssumption DEF Numbers
    <3>2. ReadAtAll(d) /\ LinesOf(d) # <<>> /\ n <= len + 1 /\ ~(n = len + 1 /\ ~files[d].content.newline)
      BY <2>1, <2>2, <3>1, ExpectedIs
    <3>3. len # 0
      BY <2>1, <3>2, Shape, EmptySeq
    <3>4. CASE n = len + 1
      <4>1. Expected(w, d, n) = OnLine(w, d, len)
        BY <2>1, <3>1, <3>2, <3>4, ExpectedIs
      <4>2. len \in 1 .. MaxLines
        BY <2>1, <3>3, BootstrapAssumption
      <4> QED
        BY <2>2, <3>2, <4>1, <4>2
    <3>5. CASE n \in 1 .. len
      <4>1. Expected(w, d, n) = OnLine(w, d, n)
        BY <2>1, <3>1, <3>2, <3>5, ExpectedIs
      <4>2. n \in 1 .. MaxLines
        BY <2>1, <3>5, BootstrapAssumption
      <4> QED
        BY <2>2, <3>2, <4>1, <4>2
    <3> QED
      BY <2>1, <3>1, <3>2, <3>4, <3>5
  <2>3. ASSUME ReadAtAll(d), NEW n \in 1 .. MaxLines, OnLine(w, d, n) > 0
        PROVE  \E m \in Numbers : Expected(w, d, m) > 0
    <3>1. n \in Numbers /\ n \in Nat \ {0}
      BY BootstrapAssumption DEF Numbers
    <3>2. n \in 1 .. len
      <4>1. CASE n \in DOMAIN LinesOf(d)
        BY <2>1, <4>1
      <4>2. CASE n \notin DOMAIN LinesOf(d)
        <5>1. OnLine(w, d, n) = 0
          BY <4>2 DEF OnLine, LinesOf
        <5> QED
          BY <2>3, <5>1
      <4> QED
        BY <4>1, <4>2
    <3>3. Expected(w, d, n) = OnLine(w, d, n)
      BY <2>1, <2>3, <3>1, <3>2, ExpectedIs
    <3> QED
      BY <2>3, <3>1, <3>3
  <2> QED
    BY <2>2, <2>3
<1>2. ASSUME NEW n \in Numbers
      PROVE  ExpectedIn(w, x, n) > 0 <=> \E d \in Named(x) : Expected(w, d, n) > 0
  <2>1. n \in Nat \ {0}
    BY BootstrapAssumption DEF Numbers
  <2>2. PICK f : f = [d \in Docs |-> Expected(w, d, n)]
    OBVIOUS
  <2>3. ExpectedIn(w, x, n) = SumOver(f, Named(x))
    BY <2>1, <2>2, ExpectedInIs
  <2>4. Named(x) \subseteq Docs /\ IsFiniteSet(Named(x))
    <3>1. IsFiniteSet(Docs)
      <4>1. 1 \in Int /\ NFiles \in Int
        BY BootstrapAssumption
      <4> QED
        BY <4>1, FS_Interval DEF Docs
    <3>2. Named(x) \subseteq Docs
      BY DEF Named
    <3> QED
      BY <3>1, <3>2, FS_Subset
  <2>5. \A d \in Docs : f[d] \in Nat /\ f[d] = Expected(w, d, n)
    BY <2>1, <2>2, ExpectedIs
  <2>6. SumOver(f, Named(x)) > 0 <=> \E d \in Named(x) : f[d] > 0
    BY <2>4, <2>5, SumPositive
  <2> QED
    BY <2>3, <2>4, <2>5, <2>6
<1>3. x \in DocsRead(w) <=> \E d \in Named(x) : ReadAtAll(d) /\ \E n \in 1 .. MaxLines : OnLine(w, d, n) > 0
  BY DEF DocsRead, Named
<1>4. Named(x) \subseteq Docs
  BY DEF Named
<1> QED
  BY <1>1, <1>2, <1>3, <1>4

(* An answer has a first entry.                                             *)
LEMMA FirstEntry ==
  ASSUME IInv, NEW w, NEW r, r = search_from_list(initial, w), NEW k \in DOMAIN r
  PROVE  1 \in DOMAIN r /\ r # <<>>
<1>1. TermsOK(initial)
  BY DEF IInv
<1>2. r # <<>>
  <2>1. DOMAIN <<>> = {}
    OBVIOUS
  <2> QED
    BY <2>1
<1>3. PICK m \in DOMAIN initial : initial[m].term = w
  BY <1>1, <1>2, SearchIs
<1>4. PICK ds : ds = initial[m].doc_node
  OBVIOUS
<1>5. DocsOK(ds) /\ Answers(r, ds)
  BY <1>1, <1>3, <1>4, SearchIs DEF TermsOK
<1>6. Len(ds) \in Nat \ {0} /\ LinesOK(ds[1].line_node)
  <2>1. ds \in Seq(DocNode) /\ Len(ds) > 0
    BY <1>5 DEF DocsOK
  <2>2. Len(ds) \in Nat \ {0} /\ 1 \in DOMAIN ds
    BY <2>1, LenProperties
  <2> QED
    BY <1>5, <2>2 DEF DocsOK
<1>7. Len(ds[1].line_node) \in Nat \ {0}
  BY <1>6, LenProperties DEF LinesOK
<1>8. DOMAIN r = 1 .. Len(ds[1].line_node) + Len(ds) - 1
  BY <1>5 DEF Answers
<1> QED
  BY <1>2, <1>6, <1>7, <1>8

(* What search_from_list answers, in terms of what was entered.             *)
LEMMA SearchAnswers ==
  ASSUME IInv, Done, NEW w \in Words, NEW r, r = search_from_list(initial, w)
  PROVE  /\ \A x : x \in DocsRead(w) <=> \E k \in DOMAIN r : r[k][1] = x
         /\ \A j, k \in DOMAIN r : j < k /\ r[j][1] = r[1][1] /\ r[k][1] = r[1][1]
              => IF alike THEN r[j][2] # r[k][2] ELSE r[j][2] < r[k][2]
         /\ r # <<>> => \A n : (\E k \in DOMAIN r : r[k][1] = r[1][1] /\ r[k][2] = n)
                                <=> n \in Numbers /\ ExpectedIn(w, r[1][1], n) > 0
<1> DEFINE first == {k \in DOMAIN r : r[k][1] = r[1][1]}
<1>1. IInv => /\ TermsOK(initial) /\ files \in [Docs -> File]
              /\ ~alike => \A x \in Docs : TermsRisingTo(initial, x, Limit(x))
  BY DEF IInv
<1>2. /\ {r[k][1] : k \in DOMAIN r} = DocsRead(w)
      /\ \A j, k \in first : j < k => IF alike THEN r[j][2] # r[k][2] ELSE r[j][2] < r[k][2]
      /\ r # <<>> => {r[k][2] : k \in first} = {n \in Numbers : ExpectedIn(w, r[1][1], n) > 0}
  <2>1. TermsOK(initial) /\ files \in [Docs -> File]
    BY <1>1
  <2>2. \A x \in DocsRead(w) : x \in Docs
    BY BootstrapAssumption DEF DocsRead, DocName, Docs
  <2>3. \A x \in Docs : x \in DocsRead(w) <=> \E n \in Numbers : TermCount(initial, w, x, n) > 0
    BY <2>1, AtTheEnd, DocsReadIs
  <2>4. CASE \A k \in DOMAIN initial : initial[k].term # w
    <3>1. DOMAIN r = {} /\ r = <<>>
      BY <2>1, <2>4, SearchIs
    <3>2. \A x, n : TermCount(initial, w, x, n) = 0
      BY <2>1, <2>4, TermCountIs
    <3>3. DocsRead(w) = {}
      BY <2>2, <2>3, <3>2
    <3>4. first = {}
      BY <3>1
    <3> QED
      BY <3>1, <3>3, <3>4
  <2>5. CASE \E k \in DOMAIN initial : initial[k].term = w
    <3>1. PICK m \in DOMAIN initial : initial[m].term = w
      BY <2>5
    <3>2. PICK ds : ds = initial[m].doc_node
      OBVIOUS
    <3>3. DocsOK(ds) /\ Answers(r, ds)
      BY <2>1, <3>1, <3>2, SearchIs DEF TermsOK
    <3>4. PICK ls : ls = ds[1].line_node
      OBVIOUS
    <3>5. PICK b \in Nat \ {0} : /\ b = Len(ds) /\ DOMAIN ds = 1 .. b /\ \A j \in 1 .. b : ds[j].doc_name \in Docs
      <4>1. ds \in Seq(DocNode) /\ Len(ds) > 0
        BY <3>3 DEF DocsOK
      <4>2. Len(ds) \in Nat \ {0} /\ DOMAIN ds = 1 .. Len(ds) /\ \A j \in 1 .. Len(ds) : ds[j] \in DocNode
        BY <4>1, LenProperties, ElementOfSeq
      <4> QED
        BY <4>2 DEF DocNode
    <3>6. 1 \in 1 .. b /\ LinesOK(ls)
      BY <3>3, <3>4, <3>5 DEF DocsOK
    <3>7. PICK a \in Nat \ {0} : /\ a = Len(ls) /\ DOMAIN ls = 1 .. a
      <4>1. ls \in Seq(LineNode) /\ Len(ls) > 0
        BY <3>6 DEF LinesOK
      <4> QED
        BY <4>1, LenProperties
    <3>8. PICK x \in Docs : x = ds[1].doc_name
      BY <3>5, <3>6
    <3>9. /\ DOMAIN r = 1 .. a + b - 1
          /\ \A q \in 1 .. a : r[q][1] = x /\ r[q][2] = ls[q].line_num
          /\ \A q \in 2 .. b : r[a + q - 1][1] = ds[q].doc_name
      <4>1. DOMAIN r = 1 .. a + b - 1
        BY <3>3, <3>4, <3>5, <3>7 DEF Answers
      <4>2. \A q \in 1 .. a : r[q] = <<x, ls[q].line_num>>
        BY <3>3, <3>4, <3>7, <3>8 DEF Answers
      <4>3. \A q \in 2 .. b : r[a + q - 1][1] = ds[q].doc_name
        BY <3>3, <3>4, <3>5, <3>7 DEF Answers
      <4> QED
        BY <4>1, <4>2, <4>3
    <3>10. \A k \in 1 .. a + b - 1 : k \in 1 .. a \/ \E q \in 2 .. b : k = a + q - 1
      <4> SUFFICES ASSUME NEW k \in 1 .. a + b - 1, k > a PROVE \E q \in 2 .. b : k = a + q - 1
        OBVIOUS
      <4>1. k - a + 1 \in 2 .. b /\ k = a + (k - a + 1) - 1
        OBVIOUS
      <4> QED
        BY <4>1
    <3>11. /\ 1 .. a \subseteq 1 .. a + b - 1 /\ 1 \in 1 .. a
           /\ \A q \in 2 .. b : a + q - 1 \in 1 .. a + b - 1 /\ q # 1 /\ q \in 1 .. b
           /\ \A q \in 1 .. b : q = 1 \/ q \in 2 .. b
      OBVIOUS
    <3>12. \A y, n : TermCount(initial, w, y, n) = DocCount(ds, y, n)
      BY <2>1, <3>1, <3>2, TermCountIs
    <3>13. first = 1 .. a
      <4>1. r[1][1] = x
        BY <3>9, <3>11
      <4>2. \A q \in 2 .. b : ds[q].doc_name # x
        BY <3>3, <3>5, <3>6, <3>8, <3>11 DEF DocsOK
      <4>3. \A q \in 2 .. b : r[a + q - 1][1] # x
        BY <3>9, <4>2
      <4>4. \A k \in 1 .. a + b - 1 : r[k][1] = x <=> k \in 1 .. a
        BY <3>9, <3>10, <4>3
      <4> QED
        BY <3>9, <3>11, <4>1, <4>4
    <3>14. {r[k][1] : k \in DOMAIN r} = DocsRead(w)
      <4>1. {r[k][1] : k \in DOMAIN r} = {ds[j].doc_name : j \in 1 .. b}
        <5>1. ASSUME NEW k \in 1 .. a + b - 1 PROVE \E j \in 1 .. b : r[k][1] = ds[j].doc_name
          <6>1. CASE k \in 1 .. a
            BY <3>6, <3>8, <3>9, <6>1
          <6>2. CASE \E q \in 2 .. b : k = a + q - 1
            <7>1. PICK q \in 2 .. b : k = a + q - 1
              BY <6>2
            <7>2. r[k][1] = ds[q].doc_name /\ q \in 1 .. b
              BY <3>9, <3>11, <7>1
            <7> QED
              BY <7>2
          <6> QED
            BY <3>10, <6>1, <6>2
        <5>2. ASSUME NEW j \in 1 .. b PROVE \E k \in 1 .. a + b - 1 : r[k][1] = ds[j].doc_name
          <6>1. CASE j = 1
            <7>1. r[1][1] = ds[1].doc_name /\ 1 \in 1 .. a + b - 1
              BY <3>8, <3>9, <3>11
            <7> QED
              BY <6>1, <7>1
          <6>2. CASE j \in 2 .. b
            <7>1. PICK k : k = a + j - 1
              OBVIOUS
            <7>2. k \in 1 .. a + b - 1 /\ r[k][1] = ds[j].doc_name
              BY <3>9, <3>11, <6>2, <7>1
            <7> QED
              BY <7>2
          <6> QED
            BY <3>11, <6>1, <6>2
        <5>3. DOMAIN r = 1 .. a + b - 1
          BY <3>9
        <5>4. ASSUME NEW y \in {r[k][1] : k \in 1 .. a + b - 1} PROVE y \in {ds[j].doc_name : j \in 1 .. b}
          <6>1. PICK k \in 1 .. a + b - 1 : y = r[k][1]
            BY <5>4
          <6>2. PICK j \in 1 .. b : y = ds[j].doc_name
            BY <5>1, <6>1
          <6> QED
            BY <6>2
        <5>5. ASSUME NEW y \in {ds[j].doc_name : j \in 1 .. b} PROVE y \in {r[k][1] : k \in 1 .. a + b - 1}
          <6>1. PICK j \in 1 .. b : y = ds[j].doc_name
            BY <5>5
          <6>2. PICK k \in 1 .. a + b - 1 : y = r[k][1]
            BY <5>2, <6>1
          <6> QED
            BY <6>2
        <5>6. {r[k][1] : k \in 1 .. a + b - 1} = {ds[j].doc_name : j \in 1 .. b}
          BY <5>4, <5>5
        <5> QED
          BY <5>3, <5>6
      <4>2. ASSUME NEW y \in DocsRead(w) PROVE \E j \in 1 .. b : ds[j].doc_name = y
        <5>1. PICK n \in Numbers : DocCount(ds, y, n) > 0
          BY <2>2, <2>3, <3>12
        <5> QED
          BY <3>3, <3>5, <5>1, DocCountOf
      <4>3. ASSUME NEW j \in 1 .. b PROVE ds[j].doc_name \in DocsRead(w)
        <5>1. PICK ms : ms = ds[j].line_node
          OBVIOUS
        <5>2. LinesOK(ms)
          BY <3>3, <3>5, <5>1 DEF DocsOK
        <5>3. 1 \in DOMAIN ms /\ ms[1] \in LineNode
          <6>1. ms \in Seq(LineNode) /\ Len(ms) > 0
            BY <5>2 DEF LinesOK
          <6> QED
            BY <6>1, LenProperties, ElementOfSeq
        <5>4. PICK n \in Numbers : n = ms[1].line_num
          BY <5>3 DEF LineNode
        <5>5. DocCount(ds, ds[j].doc_name, n) > 0
          BY <3>3, <3>5, <5>1, <5>3, <5>4, DocCountOf
        <5> QED
          BY <2>3, <3>5, <3>12, <5>5
      <4> QED
        BY <4>1, <4>2, <4>3
    <3>15. \A j, k \in first : j < k => IF alike THEN r[j][2] # r[k][2] ELSE r[j][2] < r[k][2]
      <4> SUFFICES ASSUME NEW j \in 1 .. a, NEW k \in 1 .. a, j < k
                   PROVE  IF alike THEN ls[j].line_num # ls[k].line_num ELSE ls[j].line_num < ls[k].line_num
        BY <3>9, <3>13
      <4>1. CASE alike
        <5>1. j # k
          OBVIOUS
        <5> QED
          BY <3>6, <3>7, <4>1, <5>1 DEF LinesOK
      <4>2. CASE ~alike
        <5>1. TermsRisingTo(initial, x, Limit(x))
          BY <1>1, <4>2
        <5>2. RisingTo(ls, Limit(x))
          BY <3>1, <3>2, <3>4, <3>5, <3>6, <3>8, <5>1 DEF TermsRisingTo, DocRisingTo
        <5> QED
          BY <3>7, <4>2, <5>2 DEF RisingTo
      <4> QED
        BY <4>1, <4>2
    <3>16. {r[k][2] : k \in first} = {n \in Numbers : ExpectedIn(w, r[1][1], n) > 0}
      <4>1. r[1][1] = x
        BY <3>9, <3>11
      <4>2. ASSUME NEW n \in Numbers PROVE ExpectedIn(w, x, n) > 0 <=> \E q \in 1 .. a : ls[q].line_num = n
        <5>1. ExpectedIn(w, x, n) = DocCount(ds, x, n)
          BY <3>12, AtTheEnd
        <5>2. DocCount(ds, x, n) = LineCount(ls, n)
          BY <3>3, <3>4, <3>5, <3>6, <3>8, DocCountIs
        <5>3. LineCount(ls, n) > 0 <=> \E q \in 1 .. a : ls[q].line_num = n
          BY <3>6, <3>7, LineCountOf
        <5> QED
          BY <5>1, <5>2, <5>3
      <4>3. \A q \in 1 .. a : ls[q].line_num \in Numbers
        <5>1. ls \in Seq(LineNode)
          BY <3>6 DEF LinesOK
        <5>2. \A q \in 1 .. a : ls[q] \in LineNode
          BY <3>7, <5>1, ElementOfSeq
        <5> QED
          BY <5>2 DEF LineNode
      <4>4. {r[k][2] : k \in first} = {ls[q].line_num : q \in 1 .. a}
        BY <3>9, <3>13
      <4> QED
        BY <4>1, <4>2, <4>3, <4>4
    <3> QED
      BY <3>14, <3>15, <3>16
  <2> QED
    BY <2>4, <2>5
<1>3. \A x : x \in DocsRead(w) <=> \E k \in DOMAIN r : r[k][1] = x
  BY <1>2
<1>4. ASSUME NEW j \in DOMAIN r, NEW k \in DOMAIN r, j < k, r[j][1] = r[1][1], r[k][1] = r[1][1]
      PROVE  IF alike THEN r[j][2] # r[k][2] ELSE r[j][2] < r[k][2]
  <2>1. j \in first /\ k \in first
    BY <1>4
  <2> QED
    BY <1>2, <1>4, <2>1
<1>5. ASSUME r # <<>>, NEW n
      PROVE  (\E k \in DOMAIN r : r[k][1] = r[1][1] /\ r[k][2] = n)
               <=> n \in Numbers /\ ExpectedIn(w, r[1][1], n) > 0
  <2>1. n \in {r[k][2] : k \in first} <=> n \in {m \in Numbers : ExpectedIn(w, r[1][1], m) > 0}
    BY <1>2, <1>5
  <2> QED
    BY <2>1
<1> QED
  BY <1>3, <1>4, <1>5

(* On the finished index search_from_list names no document without the     *)
(* word and every document with it, but for those with a file that was      *)
(* dropped, and all lines of the first one where no file ends, none twice;  *)
(* they ascend if the document is one file.                                 *)
THEOREM SearchTrue == Spec => []SearchFindsDocs
<1>1. IInv /\ OtherEmpty => SearchFindsDocs
  <2> SUFFICES ASSUME IInv, OtherEmpty, Done, initial # <<>>, NEW w \in Words,
                      NEW r, r = search_from_list(initial, w),
                      NEW first, first = {k \in DOMAIN r : r[k][1] = r[1][1]},
                      NEW named, named = {r[k][1] : k \in DOMAIN r}
               PROVE  /\ named \subseteq DocsWith(w)
                      /\ \A x \in DocsWith(w) \ named : \E d \in Docs : DocName(d) = x /\ Dropped(d)
                      /\ \A j, k \in first : j < k => IF alike THEN r[j][2] # r[k][2] ELSE r[j][2] < r[k][2]
                      /\ r # <<>> => LET sure == {n \in 1 .. MaxLines + 1 : Sure(r[1][1], n)} IN
                           {r[k][2] : k \in first} \cap sure = {n \in sure : Truth(w, r[1][1], n) > 0}
    BY DEF SearchFindsDocs
  <2>1. files \in [Docs -> File]
    BY DEF IInv
  <2>2. named = DocsRead(w)
    <3>1. \A x : x \in DocsRead(w) <=> \E k \in DOMAIN r : r[k][1] = x
      BY SearchAnswers
    <3> QED
      BY <3>1
  <2>3. named \subseteq DocsWith(w) /\ \A x \in DocsWith(w) \ named : \E d \in Docs : DocName(d) = x /\ Dropped(d)
    BY <2>1, <2>2, DocsReadAre
  <2>4. \A j, k \in first : j < k => IF alike THEN r[j][2] # r[k][2] ELSE r[j][2] < r[k][2]
    BY SearchAnswers
  <2>5. ASSUME r # <<>>, NEW sure, sure = {n \in Numbers : Sure(r[1][1], n)}
        PROVE  {r[k][2] : k \in first} \cap sure = {n \in sure : Truth(w, r[1][1], n) > 0}
    <3>1. ASSUME NEW n \in sure PROVE n \in {r[k][2] : k \in first} <=> Truth(w, r[1][1], n) > 0
      <4>1. n \in Numbers /\ ExpectedIn(w, r[1][1], n) = Truth(w, r[1][1], n)
        BY <2>1, <2>5, SureIsTrue
      <4>2. (\E k \in DOMAIN r : r[k][1] = r[1][1] /\ r[k][2] = n) <=> ExpectedIn(w, r[1][1], n) > 0
        BY <2>5, <4>1, SearchAnswers
      <4> QED
        BY <4>1, <4>2
    <3> QED
      BY <3>1
  <2> QED
    BY <2>3, <2>4, <2>5 DEF Numbers
<1> QED
  BY <1>1, Invariant, OthersStayEmpty, PTL

(* Where SearchLinesTrue fails, a word that is in two documents is to       *)
(* blame: when each word is in one at most, every line number answered is   *)
(* right, other than where a file ends (bootstrap.c lines 31-53).           *)
THEOREM WrongLineNeedsTwoDocs ==
  Spec => []((\A w \in Words : \A x, y \in DocsWith(w) : x = y) => SearchLinesTrue)
<1>1. IInv /\ SearchFindsDocs =>
        ((\A w \in Words : \A x, y \in DocsWith(w) : x = y) => SearchLinesTrue)
  <2> SUFFICES ASSUME IInv, SearchFindsDocs, Done, initial # <<>>, NEW w \in Words,
                      \A x, y \in DocsWith(w) : x = y,
                      NEW r, r = search_from_list(initial, w), NEW k \in DOMAIN r,
                      Sure(r[k][1], r[k][2])
               PROVE  Truth(w, r[k][1], r[k][2]) > 0
    BY DEF SearchLinesTrue
  <2>1. PICK first : first = {j \in DOMAIN r : r[j][1] = r[1][1]}
    OBVIOUS
  <2>2. PICK sure : sure = {n \in Numbers : Sure(r[1][1], n)}
    OBVIOUS
  <2>3. 1 \in DOMAIN r /\ r # <<>>
    BY FirstEntry
  <2>4. /\ {r[j][1] : j \in DOMAIN r} \subseteq DocsWith(w)
        /\ {r[j][2] : j \in first} \cap sure = {n \in sure : Truth(w, r[1][1], n) > 0}
    BY <2>1, <2>2, <2>3 DEF SearchFindsDocs, Numbers
  <2>5. r[k][1] = r[1][1]
    BY <2>3, <2>4
  <2>6. k \in first
    BY <2>1, <2>5
  <2>7. r[k][2] \in Numbers
    <3>1. r[k][1] = r[1][1] => r[k][2] \in Numbers
      BY <2>3, SearchAnswers
    <3> QED
      BY <2>5, <3>1
  <2>8. r[k][2] \in sure
    BY <2>2, <2>5, <2>7
  <2> QED
    BY <2>4, <2>5, <2>6, <2>8
<1> QED
  BY <1>1, Invariant, SearchTrue, PTL
=============================================================================
