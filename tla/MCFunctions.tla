---------------------------- MODULE MCFunctions ------------------------------
(* The functions of the program that depend on nothing but their arguments: *)
(* the size classes for every request, and the string functions for every   *)
(* short text.                                                              *)
EXTENDS MCSizeClass, Tokens

CONSTANTS
  Chars,    \* the characters texts are made of
  MaxText   \* the length of the longest

(* A character is a number. *)
ASSUME CharsAssumption == Chars \subseteq Int

VARIABLE text

(* Next to both ends of the two ranges of letters; two letters; a blank; a  *)
(* newline; 0xFF; and 0xC3, the first byte of many a letter with an accent. *)
SomeChars == {64, 65, 66, 90, 91, 96, 97, 122, 123, 32, 10, -1, -61}

BothInit == Init /\ text = <<>>

NextRequest == text = <<>> /\ Next /\ UNCHANGED text

NextText == /\ request = 1 /\ Len(text) < MaxText
            /\ \E c \in Chars : text' = Append(text, c)
            /\ UNCHANGED request

BothSpec == BothInit /\ [][NextRequest \/ NextText]_<<request, text>>

(* The words of every text are its longest runs of letters, each in lower   *)
(* case, and token_num, which the callers use as their number, is their     *)
(* number: also at the end of the text, behind accents and terminators      *)
(* (strfun.c lines 228-294).                                                *)
TokensRight == TokensOf(Append(text, 0))

(* The order of the terms in the index is one: string_compare is total,     *)
(* transitive, and finds two words the same that differ in case only, for   *)
(* any three strings a text can be cut into (strfun.c lines 151-225).       *)
CompareOrders ==
  \A j \in 0 .. Len(text) : \A k \in j .. Len(text) :
    Ordered(Append(SubSeq(text, 1, j), 0), Append(SubSeq(text, j + 1, k), 0),
            Append(SubSeq(text, k + 1, Len(text)), 0))
=============================================================================
