------------------------------ MODULE Bootstrap ------------------------------
(***************************************************************************)
(* Building the index: bootstrapping of strings/bootstrap.c walks through  *)
(* the directory and its subdirectories, making_inverted_index reads each  *)
(* text file line by line and enters every word with add_node.  A file is  *)
(* the sequence of its lines, a line the sequence of its words; a last     *)
(* line may lack its newline; a file that cannot be opened has no lines.   *)
(* At the end of a file getline sets feof and, when there was nothing to   *)
(* read, leaves the buffer as it is.  The files are numbered in the order  *)
(* of the walk.                                                            *)
(***************************************************************************)
EXTENDS InvertedIndex, TLC

CONSTANTS
  Words,     \* a set of numbers: words in dictionary order
  NFiles,
  MaxLines,  \* bounds for TLC: lines of a file,
  MaxWords,  \* words of a line,
  MaxTotal   \* and words of all files

ASSUME BootstrapAssumption ==
  /\ Words \subseteq Nat
  /\ NFiles \in Nat \ {0} /\ MaxLines \in Nat /\ MaxWords \in Nat /\ MaxTotal \in Nat

Docs == 1 .. NFiles

(* What the walk meets: a file to index, one that fopen cannot open, and    *)
(* one whose name has no extension or another one than txt.                 *)
Kinds == {"text", "unreadable", "other"}

Line == UNION {[1 .. n -> Words] : n \in 0 .. MaxWords}
Content == [lines : UNION {[1 .. n -> Line] : n \in 0 .. MaxLines}, newline : BOOLEAN]
File == [kind : Kinds, content : Content]

VARIABLES
  files,     \* what is on the disk
  alike,     \* do the names of the files differ in nothing but their case?
  doc,       \* the file being read
  pos,       \* how many of its lines were read
  feof,
  buf,       \* the words of the buffer
  i,         \* index of the next word of the buffer
  line_num,
  pc,        \* first, more or words
  initial    \* the index

readVars == <<doc, pos, feof, buf, i, line_num, pc>>
vars == <<files, alike, readVars, initial>>

WordsIn(file) == FoldSeq(LAMBDA line, n : Len(line) + n, 0, file.content.lines)

Init ==
  /\ files \in [Docs -> File]
  /\ \A d \in Docs : files[d].kind # "text" => files[d].content = [lines |-> <<>>, newline |-> FALSE]
  /\ alike \in BOOLEAN
  /\ MapThenSumSet(LAMBDA d : WordsIn(files[d]), Docs) <= (IF alike THEN MaxTotal - 1 ELSE MaxTotal)
  /\ doc = 1 /\ pos = 0 /\ feof = FALSE /\ buf = <<>> /\ i = 1 /\ line_num = 0
  /\ pc = "first"
  /\ initial = <<>>

Reading == doc \in Docs /\ files[doc].kind = "text"

(* make_lower of the name. *)
DocName(d) == IF alike THEN 1 ELSE d

getline ==
  LET lines == files[doc].content.lines
      more  == pos < Len(lines)
  IN
  /\ buf' = IF more THEN lines[pos + 1] ELSE buf
  /\ pos' = IF more THEN pos + 1 ELSE pos
  /\ feof' = (~more \/ (pos + 1 = Len(lines) /\ ~files[doc].content.newline))

(* Fault: lines are numbered from 0. *)
FirstLine_Zero ==
  /\ Reading /\ pc = "first"
  /\ getline
  /\ line_num' = 0
  /\ i' = 1
  /\ pc' = IF feof' THEN "more" ELSE "words"
  /\ UNCHANGED <<files, alike, doc, initial>>

(* The words of the first line count only if the file goes on. *)
FirstLine ==
  /\ Reading /\ pc = "first"
  /\ getline
  /\ line_num' = 1
  /\ i' = 1
  /\ pc' = IF feof' THEN "more" ELSE "words"
  /\ UNCHANGED <<files, alike, doc, initial>>

NextLine ==
  /\ Reading /\ pc = "more" /\ ~feof
  /\ getline
  /\ line_num' = line_num + 1
  /\ i' = 1
  /\ pc' = "words"
  /\ UNCHANGED <<files, alike, doc, initial>>

AddWord ==
  /\ pc = "words" /\ i \in DOMAIN buf
  /\ initial' = add_node(initial, buf[i], DocName(doc), line_num)
  /\ i' = i + 1
  /\ UNCHANGED <<files, alike, doc, pos, feof, buf, line_num, pc>>

LineDone ==
  /\ pc = "words" /\ i \notin DOMAIN buf
  /\ pc' = "more"
  /\ UNCHANGED <<files, alike, doc, pos, feof, buf, i, line_num, initial>>

NextFile ==
  /\ Reading /\ pc = "more" /\ feof
  /\ doc' = doc + 1
  /\ pos' = 0 /\ feof' = FALSE /\ buf' = <<>> /\ i' = 1 /\ line_num' = 0
  /\ pc' = "first"
  /\ UNCHANGED <<files, alike, initial>>

(* Fault: the index is lost with a file that cannot be opened. *)
SkipFile_Forget ==
  /\ doc \in Docs /\ files[doc].kind # "text"
  /\ doc' = doc + 1
  /\ initial' = IF files[doc].kind = "unreadable" THEN <<>> ELSE initial
  /\ UNCHANGED <<files, alike, pos, feof, buf, i, line_num, pc>>

(* The extension is not txt, or making_inverted_index returns at once what  *)
(* it was given.                                                            *)
SkipFile ==
  /\ doc \in Docs /\ files[doc].kind # "text"
  /\ doc' = doc + 1
  /\ UNCHANGED <<files, alike, pos, feof, buf, i, line_num, pc, initial>>

Next == SkipFile \/ FirstLine \/ NextLine \/ AddWord \/ LineDone \/ NextFile

Spec == Init /\ [][Next]_vars

-----------------------------------------------------------------------------
(* What the files say, and where the program reads something else.          *)

(* Times word w stands on line n of d. *)
OnLine(w, d, n) ==
  IF n \in DOMAIN files[d].content.lines
  THEN Cardinality({k \in DOMAIN files[d].content.lines[n] : files[d].content.lines[n][k] = w}) ELSE 0

(* The same of a document, all files of its name together. *)
Truth(w, x, n) == MapThenSumSet(LAMBDA d : OnLine(w, d, n), {d \in Docs : DocName(d) = x})

(* The documents with word w. *)
DocsWith(w) == {x \in Docs : \E n \in 1 .. MaxLines : Truth(w, x, n) > 0}

(* The end of a file is tested with feof before a read has failed.  So the  *)
(* only line of a file, if it has no newline, is not entered at all, and    *)
(* after a last line with its newline the loop runs once more and enters    *)
(* the words of that line, still in the buffer, under the next number.      *)
Dropped(d) == ~files[d].content.newline /\ Len(files[d].content.lines) = 1

Phantom(d, n) ==
  /\ files[d].content.newline /\ files[d].content.lines # <<>>
  /\ n = Len(files[d].content.lines) + 1

(* The lines of a document that no file of it is misread at. *)
Sure(x, n) ==
  \A d \in Docs : DocName(d) = x => ~Phantom(d, n) /\ (Dropped(d) => n # 1)

Done == doc > NFiles

-----------------------------------------------------------------------------
(* Type invariant: the shape of the three kinds of list nodes. *)
TypeOK ==
  /\ doc \in 1 .. NFiles + 1 /\ pos \in 0 .. MaxLines /\ feof \in BOOLEAN
  /\ buf \in Line /\ i \in 1 .. MaxWords + 1 /\ line_num \in 0 .. MaxLines + 1
  /\ pc \in {"first", "more", "words"}
  /\ \A t \in ToSet(initial) :
       /\ t.term \in Words /\ t.term_freq \in Nat \ {0} /\ t.is_initial \in {0, 1}
       /\ \A x \in ToSet(t.doc_node) :
            /\ x.doc_name \in Docs
            /\ \A y \in ToSet(x.line_node) : y.line_num \in 1 .. MaxLines + 1

(* The terms are in dictionary order, each once, whatever the order of the  *)
(* words in the files; only the first node is marked initial (add_node).    *)
DictionaryOrder ==
  /\ \A j, k \in DOMAIN initial : j < k => initial[j].term < initial[k].term
  /\ \A k \in DOMAIN initial : initial[k].is_initial = 1 <=> k = 1

(* The length in the first node of every list is the length of the list,    *)
(* also after a new first term took over; the loops of add_node would run   *)
(* past the end of the list or miss a node otherwise.  And the frequencies  *)
(* of a term, its documents and their lines add up.                         *)
CountsTrue ==
  /\ initial # <<>> => initial[1].total_length = Len(initial)
  /\ \A t \in ToSet(initial) :
       /\ t.doc_node[1].total_length = Len(t.doc_node)
       /\ t.term_freq = FoldSeq(LAMBDA x, n : x.doc_freq + n, 0, t.doc_node)
       /\ \A x \in ToSet(t.doc_node) :
            /\ x.line_node[1].total_length = Len(x.line_node)
            /\ x.doc_freq = FoldSeq(LAMBDA y, n : y.line_freq + n, 0, x.line_node)

(* When all files are read, the index holds the words of every line of      *)
(* every text file, as often as they stand there, and none under a line     *)
(* that has them not: "read all lines" (bootstrap.c line 113).              *)
AllLinesRead ==
  Done => \A w \in Words, x \in Docs, n \in 1 .. MaxLines + 1 :
            Occurrences(initial, w, x, n) = Truth(w, x, n)

(* The same, but for the end of a file: AllLinesRead fails for the only     *)
(* line of a file without a newline, which is missing, and for the number   *)
(* behind a last line with its newline, under which that line stands again; *)
(* and it fails nowhere else.                                               *)
IndexComplete ==
  Done => \A w \in Words, x \in Docs, n \in 1 .. MaxLines + 1 :
            Sure(x, n) => Occurrences(initial, w, x, n) = Truth(w, x, n)

(* A search names no document without the word, and every document with it, *)
(* unless a file of that document was dropped; of the lines of the first    *)
(* one it names all, none twice, and no other, but for the line behind a    *)
(* last line with its newline; in ascending order if it is one file.        *)
SearchFindsDocs ==
  Done /\ initial # <<>> => \A w \in Words :
    LET r == search_from_list(initial, w)
        first == {k \in DOMAIN r : r[k][1] = r[1][1]}
        named == {r[k][1] : k \in DOMAIN r}
        sure  == {n \in 1 .. MaxLines + 1 : Sure(r[1][1], n)}
    IN
    /\ named \subseteq DocsWith(w)
    /\ \A x \in DocsWith(w) \ named : \E d \in Docs : DocName(d) = x /\ Dropped(d)
    /\ \A j, k \in first : j < k => IF alike THEN r[j][2] # r[k][2] ELSE r[j][2] < r[k][2]
    /\ r # <<>> => {r[k][2] : k \in first} \cap sure = {n \in sure : Truth(w, r[1][1], n) > 0}

(* "<doc>: line #<n>" is answered only when the word is on that line; what  *)
(* the end of a file does to the index (AllLinesRead) is left aside.        *)
SearchLinesTrue ==
  Done /\ initial # <<>> => \A w \in Words :
    \A k \in DOMAIN search_from_list(initial, w) :
      LET r == search_from_list(initial, w)[k] IN
      Sure(r[1], r[2]) => Truth(w, r[1], r[2]) > 0
=============================================================================
