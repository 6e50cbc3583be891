---------------------------- MODULE InvertedIndex ----------------------------
(***************************************************************************)
(* The inverted index of strings/linked_list.c and the search in it,       *)
(* search_from_list of strings/bootstrap.c.                                *)
(*                                                                         *)
(* The index is a list of terms in dictionary order, each with a list of   *)
(* documents, each with a list of lines.  A list is the sequence of its    *)
(* nodes along behind_node; the code bounds its loops by the total_length  *)
(* kept in the first node, and so do the definitions here.  A word is a    *)
(* number, its place in the dictionary.                                    *)
(***************************************************************************)
EXTENDS Naturals, Sequences, FiniteSets, FiniteSetsExt, SequencesExt

new_line_node(n) == [line_num |-> n, line_freq |-> 1, total_length |-> 1]

(* The nodes a search loop of the code looks at. *)
Reach(list) == 1 .. list[1].total_length

Grown(list) == [list EXCEPT ![1].total_length = @ + 1]

(* Fault: a second occurrence on a line is not counted. *)
add_line_node_Once(lines, n) ==
  LET same == {k \in Reach(lines) : lines[k].line_num = n}
  IN  IF same # {} THEN lines ELSE Append(Grown(lines), new_line_node(n))

add_line_node(lines, n) ==
  LET same == {k \in Reach(lines) : lines[k].line_num = n}
  IN  IF same # {}
      THEN [lines EXCEPT ![Min(same)].line_freq = @ + 1]
      ELSE Append(Grown(lines), new_line_node(n))

new_doc_node(d, n) ==
  [doc_name |-> d, doc_freq |-> 1, total_length |-> 1, line_node |-> <<new_line_node(n)>>]

(* Fault: the length of the list is not counted. *)
add_doc_node_NoCount(docs, d, n) ==
  LET same == {k \in Reach(docs) : docs[k].doc_name = d}
  IN  IF same # {}
      THEN [docs EXCEPT ![Min(same)].doc_freq = @ + 1,
                        ![Min(same)].line_node = add_line_node(@, n)]
      ELSE Append(docs, new_doc_node(d, n))

add_doc_node(docs, d, n) ==
  LET same == {k \in Reach(docs) : docs[k].doc_name = d}
  IN  IF same # {}
      THEN [docs EXCEPT ![Min(same)].doc_freq = @ + 1,
                        ![Min(same)].line_node = add_line_node(@, n)]
      ELSE Append(Grown(docs), new_doc_node(d, n))

new_term_node(w, d, n) ==
  [term |-> w, term_freq |-> 1, total_length |-> 1, is_initial |-> 1,
   doc_node |-> <<new_doc_node(d, n)>>]

(* Fault: a new first term starts with the length of a list of its own. *)
NewFirst_LengthOne(terms, node) == <<node>> \o [terms EXCEPT ![1].is_initial = 0]

(* The new term is the first of the dictionary: it takes over the length. *)
NewFirst(terms, node) ==
  <<[node EXCEPT !.total_length = terms[1].total_length + 1]>>
    \o [terms EXCEPT ![1].is_initial = 0]

(* Fault: a term behind all others goes in front of the last one. *)
NewLater_BeforeLast(terms, node) ==
  LET later == {k \in Reach(terms) : node.term < terms[k].term}
      at == IF later = {} THEN terms[1].total_length ELSE Min(later)
  IN  InsertAt(Grown(terms), at, [node EXCEPT !.is_initial = 0])

(* It goes in front of the first term that is larger, or to the end. *)
NewLater(terms, node) ==
  LET later == {k \in Reach(terms) : node.term < terms[k].term}
      at == IF later = {} THEN terms[1].total_length + 1 ELSE Min(later)
  IN  InsertAt(Grown(terms), at, [node EXCEPT !.is_initial = 0])

(* One occurrence of word w on line n of document d. *)
add_node(terms, w, d, n) ==
  LET same == {k \in Reach(terms) : terms[k].term = w}
      node == new_term_node(w, d, n)
  IN  CASE terms = <<>> -> <<node>>
        [] terms # <<>> /\ same # {} ->
             [terms EXCEPT ![Min(same)].term_freq = @ + 1,
                           ![Min(same)].doc_node = add_doc_node(@, d, n)]
        [] terms # <<>> /\ same = {} /\ w < terms[1].term -> NewFirst(terms, node)
        [] OTHER -> NewLater(terms, node)

-----------------------------------------------------------------------------
(* Fault: the loop over the documents ends one too early. *)
OtherDocs_ButLast(docs) == IF Len(docs) < 2 THEN <<>> ELSE SubSeq(docs, 2, Len(docs) - 1)

OtherDocs(docs) == Tail(docs)

(* The results for word w, a pair of document and line number each, in an   *)
(* index that has a term at all (the code dereferences the first one        *)
(* without a test).  The variable temp_line walks to the end of the first   *)
(* document's lines and stays there while the other documents are reported. *)
search_from_list(terms, w) ==
  LET found == {k \in DOMAIN terms : terms[k].term = w}
      docs  == terms[Min(found)].doc_node
      lines == docs[1].line_node
      last  == lines[Len(lines)].line_num
  IN  IF found = {} THEN <<>>
      ELSE [k \in DOMAIN lines |-> <<docs[1].doc_name, lines[k].line_num>>]
           \o [k \in DOMAIN OtherDocs(docs) |-> <<OtherDocs(docs)[k].doc_name, last>>]

-----------------------------------------------------------------------------
(* The occurrences of w on line n of d that the index knows of. *)
Occurrences(terms, w, d, n) ==
  MapThenSumSet(LAMBDA x : x.line_freq,
    UNION {UNION {{y \in ToSet(x.line_node) : y.line_num = n} :
                  x \in {z \in ToSet(t.doc_node) : z.doc_name = d}} :
           t \in {u \in ToSet(terms) : u.term = w}})

Entries(terms) == UNION {UNION {{<<t.term, x.doc_name, y.line_num>> : y \in ToSet(x.line_node)} :
                                x \in ToSet(t.doc_node)} : t \in ToSet(terms)}
=============================================================================
