------------------------------- MODULE Tokens --------------------------------
(***************************************************************************)
(* The string functions the index and the search are built on, of          *)
(* strings/strfun.c: the length of a string, the comparison that ignores   *)
(* case, and the splitting of a line into words.  A string is a sequence   *)
(* of (signed) character codes with a terminator in it; a string the       *)
(* functions make ends with a 0.  Each loop over a string is a fold.       *)
(***************************************************************************)
EXTENDS Integers, Sequences, FiniteSetsExt, SequencesExt

EOF == -1
Terminators == {0, 10, EOF}   \* '\0', '\n' and EOF

IsUpper(c)  == 64 < c /\ c < 91     \* 0x40 and 0x5B
IsLetter(c) == 96 < c /\ c < 123    \* 0x60 and 0x7B

string_length(str) == Min({k \in DOMAIN str : str[k] \in Terminators}) - 1

make_lower(str) ==
  [k \in 1 .. string_length(str) |-> IF IsUpper(str[k]) THEN str[k] + 32 ELSE str[k]] \o <<0>>

(* Fault: the loop stops before the terminator. *)
Scanned_ButLast(str) == Front(make_lower(str))

(* What the loops of token_num and string_token run through: the lower case *)
(* string and its terminator, at which the last word ends.                  *)
Scanned(str) == make_lower(str)

token_num(str) ==
  LET Step(acc, c) ==
        IF IsLetter(c) THEN [acc EXCEPT !.tok_len = @ + 1]
        ELSE [tok_len |-> 0, tok_num |-> IF acc.tok_len # 0 THEN acc.tok_num + 1 ELSE acc.tok_num]
  IN  FoldLeft(Step, [tok_len |-> 0, tok_num |-> 0], Scanned(str)).tok_num

(* The list of words; empty where the code returns NULL. *)
string_token(str) ==
  LET Step(acc, c) ==
        IF IsLetter(c) THEN [acc EXCEPT !.tok = Append(@, c)]
        ELSE [tok |-> <<>>,
              list |-> IF acc.tok # <<>> THEN Append(acc.list, Append(acc.tok, 0)) ELSE acc.list]
  IN  FoldLeft(Step, [tok |-> <<>>, list |-> <<>>], Scanned(make_lower(str))).list

(* Fault: the lengths are not compared when one string is the beginning of  *)
(* the other.                                                               *)
string_compare_Prefix(str_1, str_2) ==
  LET l1 == make_lower(str_1)
      l2 == make_lower(str_2)
      common == 1 .. Min({string_length(str_1), string_length(str_2)})
      differ == {k \in common : l1[k] # l2[k]}
  IN  IF differ # {} THEN IF l1[Min(differ)] > l2[Min(differ)] THEN 1 ELSE 2 ELSE 0

(* 1 when str_1 is larger, 2 when str_2 is, 0 when they are the same: the   *)
(* first difference within the shorter one decides, then the length.        *)
string_compare(str_1, str_2) ==
  LET l1 == make_lower(str_1)
      l2 == make_lower(str_2)
      len_1 == string_length(str_1)
      len_2 == string_length(str_2)
      differ == {k \in 1 .. Min({len_1, len_2}) : l1[k] # l2[k]}
  IN  CASE differ # {} -> IF l1[Min(differ)] > l2[Min(differ)] THEN 1 ELSE 2
        [] differ = {} /\ len_1 > len_2 -> 1
        [] differ = {} /\ len_1 < len_2 -> 2
        [] OTHER -> 0

-----------------------------------------------------------------------------
(* What the words of a string are: its longest runs of letters.             *)

Runs(str) ==
  LET s == make_lower(str)
      Letters(a, b) == \A k \in a .. b : IsLetter(s[k])
  IN  {r \in (1 .. Len(s)) \X (1 .. Len(s)) :
         /\ r[1] <= r[2] /\ Letters(r[1], r[2])
         /\ r[1] = 1 \/ ~IsLetter(s[r[1] - 1])
         /\ ~IsLetter(s[r[2] + 1])}

(* string_token returns the runs of letters from left to right, and as many *)
(* as token_num says.                                                       *)
TokensOf(str) ==
  LET runs == Runs(str)
      toks == string_token(str)
  IN  /\ token_num(str) = Cardinality(runs) /\ Len(toks) = Cardinality(runs)
      /\ \A r \in runs :
           toks[Cardinality({q \in runs : q[1] <= r[1]})]
             = SubSeq(make_lower(str), r[1], r[2]) \o <<0>>

(* string_compare puts strings in an order, and calls those the same that   *)
(* are, but for the case and what lies behind the first terminator.         *)
Ordered(a, b, c) ==
  /\ string_compare(a, b) = 0 <=> make_lower(a) = make_lower(b)
  /\ string_compare(a, b) = 1 <=> string_compare(b, a) = 2
  /\ string_compare(a, b) = 2 /\ string_compare(b, c) = 2 => string_compare(a, c) = 2
=============================================================================
