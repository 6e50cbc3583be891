--------------------------- MODULE FunctionsProofs ---------------------------
(***************************************************************************)
(* What a run can count through only up to a bound, for every request and  *)
(* for every string.  Away from the borders of the lists the class of a    *)
(* small request exists, fits and is the class the object comes back to;   *)
(* string_token and token_num find the runs of letters of every string;    *)
(* and string_compare orders all strings.  The string functions are folds: *)
(* what a loop holds is shown for the characters read so far.              *)
(***************************************************************************)
EXTENDS MCFunctions, DataLemmas

(* Rounding up, list 1: the least multiple that is large enough. *)
LEMMA RoundUp8 ==
  \A n \in Nat : /\ RoundUp(n, 8) \in Nat
                 /\ RoundUp(n, 8) % 8 = 0
                 /\ n <= RoundUp(n, 8) /\ RoundUp(n, 8) < n + 8
BY Z3 DEF RoundUp

(* The same for the unit of list 2. *)
LEMMA RoundUp64 ==
  \A n \in Nat : /\ RoundUp(n, 64) \in Nat
                 /\ RoundUp(n, 64) % 64 = 0
                 /\ n <= RoundUp(n, 64) /\ RoundUp(n, 64) < n + 64
BY Z3 DEF RoundUp

(* The same for the unit of list 3. *)
LEMMA RoundUp256 ==
  \A n \in Nat : /\ RoundUp(n, 256) \in Nat
                 /\ RoundUp(n, 256) % 256 = 0
                 /\ n <= RoundUp(n, 256) /\ RoundUp(n, 256) < n + 256
BY Z3 DEF RoundUp

(* A request of 1 to 56 bytes is served and taken back by list 1. *)
LEMMA List1Right == \A n \in Nat : 1 <= n /\ n <= 56 => ClassRight(n)
<1> SUFFICES ASSUME NEW n \in Nat, 1 <= n, n <= 56 PROVE ClassRight(n)
  OBVIOUS
<1> DEFINE m == RoundUp(n, 8)
<1>1. m \in Nat /\ m % 8 = 0 /\ n <= m /\ m < n + 8
  BY RoundUp8
<1>2. 8 <= m /\ m <= 56
  BY <1>1
<1> HIDE DEF m
<1>3. ListOf(n) = 1 /\ ListOf(m) = 1
  BY <1>1, <1>2 DEF ListOf
<1>4. ObjSize(n) = m
  BY <1>3 DEF ObjSize, Unit, m
<1>5. Class(1, m) = [list |-> 1, index |-> m \div 8 - 1]
  BY DEF Class, Unit, Skip
<1>6. AllocClass(n) = Class(1, m) /\ FreeClass(m) = Class(1, m)
  BY <1>3, <1>4 DEF AllocClass, FreeClass
<1>7. /\ (m \div 8 - 1 + 1) * 8 = m
      /\ 0 <= m \div 8 - 1 /\ m \div 8 - 1 < 8
  BY <1>1, <1>2
<1> QED
  BY <1>1, <1>4, <1>5, <1>6, <1>7 DEF ClassRight, InRange, size_list, num_ind, Unit, Skip

(* List 2: 65 to 1984 bytes. *)
LEMMA List2Right == \A n \in Nat : 65 <= n /\ n <= 1984 => ClassRight(n)
<1> SUFFICES ASSUME NEW n \in Nat, 65 <= n, n <= 1984 PROVE ClassRight(n)
  OBVIOUS
<1> DEFINE m == RoundUp(n, 64)
<1>1. m \in Nat /\ m % 64 = 0 /\ n <= m /\ m < n + 64
  BY RoundUp64
<1>2. 128 <= m /\ m <= 1984
  BY <1>1
<1> HIDE DEF m
<1>3. ListOf(n) = 2 /\ ListOf(m) = 2
  BY <1>1, <1>2 DEF ListOf
<1>4. ObjSize(n) = m
  BY <1>3 DEF ObjSize, Unit, m
<1>5. Class(2, m) = [list |-> 2, index |-> m \div 64 - 2]
  BY DEF Class, Unit, Skip
<1>6. AllocClass(n) = Class(2, m) /\ FreeClass(m) = Class(2, m)
  BY <1>3, <1>4 DEF AllocClass, FreeClass
<1>7. /\ (m \div 64 - 2 + 2) * 64 = m
      /\ 0 <= m \div 64 - 2 /\ m \div 64 - 2 < 31
  BY <1>1, <1>2
<1> QED
  BY <1>1, <1>4, <1>5, <1>6, <1>7 DEF ClassRight, InRange, size_list, num_ind, Unit, Skip

(* List 3: 2049 to 32768 bytes. *)
LEMMA List3Right == \A n \in Nat : 2049 <= n /\ n <= 32768 => ClassRight(n)
<1> SUFFICES ASSUME NEW n \in Nat, 2049 <= n, n <= 32768 PROVE ClassRight(n)
  OBVIOUS
<1> DEFINE m == RoundUp(n, 256)
<1>1. m \in Nat /\ m % 256 = 0 /\ n <= m /\ m < n + 256
  BY RoundUp256
<1>2. 2304 <= m /\ m <= 32768
  BY <1>1
<1> HIDE DEF m
<1>3. ListOf(n) = 3 /\ ListOf(m) = 3
  BY <1>1, <1>2 DEF ListOf
<1>4. ObjSize(n) = m
  BY <1>3 DEF ObjSize, Unit, m
<1>5. Class(3, m) = [list |-> 3, index |-> m \div 256 - 9]
  BY DEF Class, Unit, Skip
<1>6. AllocClass(n) = Class(3, m) /\ FreeClass(m) = Class(3, m)
  BY <1>3, <1>4 DEF AllocClass, FreeClass
<1>7. /\ (m \div 256 - 9 + 9) * 256 = m
      /\ 0 <= m \div 256 - 9 /\ m \div 256 - 9 < 120
  BY <1>1, <1>2
<1> QED
  BY <1>1, <1>4, <1>5, <1>6, <1>7 DEF ClassRight, InRange, size_list, num_ind, Unit, Skip

-----------------------------------------------------------------------------
(* Strings.                                                                 *)

(* A string the functions are called with: it has a terminator.             *)
IsString(str) == str \in Seq(Int) /\ \E k \in DOMAIN str : str[k] \in Terminators

(* A string as make_lower makes it, with l characters and a 0 behind them.  *)
IsLower(s, l) ==
  /\ s \in Seq(Int) /\ l \in Nat /\ Len(s) = l + 1 /\ s[l + 1] = 0
  /\ \A k \in 1 .. l : s[k] \notin Terminators /\ ~IsUpper(s[k])

LEMMA LengthIs ==
  ASSUME NEW str, IsString(str)
  PROVE  /\ string_length(str) \in Nat /\ string_length(str) + 1 \in DOMAIN str
         /\ str[string_length(str) + 1] \in Terminators
         /\ \A k \in 1 .. string_length(str) : k \in DOMAIN str /\ str[k] \notin Terminators
<1> DEFINE T == {k \in DOMAIN str : str[k] \in Terminators}
<1>1. DOMAIN str = 1 .. Len(str) /\ Len(str) \in Nat
  BY LenProperties DEF IsString
<1>2. T \in SUBSET Nat /\ T # {}
  BY <1>1 DEF IsString
<1>3. Min(T) \in T /\ \A k \in T : Min(T) <= k
  <2> HIDE DEF T
  <2> QED
    BY <1>2, MinOfNat
<1>4. PICK m \in 1 .. Len(str) : m = Min(T) /\ str[m] \in Terminators
  BY <1>1, <1>3
<1>5. string_length(str) = m - 1
  BY <1>4 DEF string_length
<1>6. ASSUME NEW k \in 1 .. m - 1 PROVE k \in DOMAIN str /\ str[k] \notin Terminators
  BY <1>1, <1>3, <1>4
<1> QED
  BY <1>1, <1>4, <1>5, <1>6

(* A string is what stands before its first terminator.                     *)
LEMMA LengthIsOnly ==
  ASSUME NEW str, IsString(str), NEW l \in Nat, l + 1 \in DOMAIN str,
         str[l + 1] \in Terminators, \A k \in 1 .. l : str[k] \notin Terminators
  PROVE  string_length(str) = l
<1>1. PICK m \in Nat :
        /\ m = string_length(str) /\ str[m + 1] \in Terminators
        /\ \A k \in 1 .. m : str[k] \notin Terminators
  BY LengthIs
<1>2. ~(l < m)
  BY <1>1
<1>3. ~(m < l)
  BY <1>1
<1> QED
  BY <1>1, <1>2, <1>3

LEMMA LowerIs ==
  ASSUME NEW str, IsString(str)
  PROVE  /\ IsLower(make_lower(str), string_length(str))
         /\ \A k \in 1 .. string_length(str) :
              make_lower(str)[k] = IF IsUpper(str[k]) THEN str[k] + 32 ELSE str[k]
<1> DEFINE l == string_length(str)
           f == [k \in 1 .. l |-> IF IsUpper(str[k]) THEN str[k] + 32 ELSE str[k]]
<1>1. l \in Nat /\ \A k \in 1 .. l : str[k] \in Int /\ str[k] \notin Terminators
  <2>1. str \in Seq(Int) /\ DOMAIN str = 1 .. Len(str)
    BY LenProperties DEF IsString
  <2> QED
    BY <2>1, LengthIs, ElementOfSeq
<1>2. make_lower(str) = f \o <<0>>
  BY DEF make_lower
<1> HIDE DEF l
<1>3. f \in [1 .. l -> Int]
  BY <1>1
<1>4. f \in Seq(Int) /\ Len(f) = l
  <2> HIDE DEF f
  <2> QED
    BY <1>1, <1>3, SeqOfFunction
<1>5. \A k \in 1 .. l : f[k] = IF IsUpper(str[k]) THEN str[k] + 32 ELSE str[k]
  OBVIOUS
<1> HIDE DEF f
<1>6. PICK s : s = Append(f, 0)
  OBVIOUS
<1>7. make_lower(str) = s
  <2>1. Append(f, 0) = f \o <<0>>
    BY <1>4, AppendIsConcat
  <2> QED
    BY <1>2, <1>6, <2>1
<1>8. /\ s \in Seq(Int) /\ Len(s) = l + 1 /\ s[l + 1] = 0
      /\ \A k \in 1 .. l : s[k] = f[k]
  <2>1. 0 \in Int
    OBVIOUS
  <2>2. /\ s \in Seq(Int) /\ Len(s) = Len(f) + 1
        /\ \A k \in 1 .. Len(f) : s[k] = f[k]
        /\ s[Len(f) + 1] = 0
    BY <1>4, <1>6, <2>1, AppendProperties
  <2> QED
    BY <1>4, <2>2
<1>9. ASSUME NEW k \in 1 .. l PROVE s[k] \notin Terminators /\ ~IsUpper(s[k])
  <2>1. PICK c \in Int : c = str[k] /\ c \notin Terminators
    BY <1>1
  <2>2. s[k] = IF IsUpper(c) THEN c + 32 ELSE c
    BY <1>5, <1>8, <2>1
  <2>3. CASE IsUpper(c)
    BY <2>2, <2>3 DEF Terminators, IsUpper, EOF
  <2>4. CASE ~IsUpper(c)
    BY <2>1, <2>2, <2>4
  <2> QED
    BY <2>3, <2>4
<1>10. IsLower(s, l)
  BY <1>1, <1>8, <1>9 DEF IsLower
<1> QED
  BY <1>5, <1>7, <1>8, <1>10 DEF l

(* A string in lower case stays what it is.                                 *)
LEMMA LowerStays ==
  ASSUME NEW s, NEW l, IsLower(s, l)
  PROVE  IsString(s) /\ string_length(s) = l /\ make_lower(s) = s
<1>1. /\ s \in Seq(Int) /\ l \in Nat /\ Len(s) = l + 1 /\ s[l + 1] = 0
      /\ \A k \in 1 .. l : s[k] \notin Terminators /\ ~IsUpper(s[k])
  BY DEF IsLower
<1>2. DOMAIN s = 1 .. l + 1 /\ l + 1 \in DOMAIN s /\ s[l + 1] \in Terminators
  BY <1>1, LenProperties DEF Terminators
<1>3. IsString(s)
  BY <1>1, <1>2 DEF IsString
<1>4. string_length(s) = l
  BY <1>1, <1>2, <1>3, LengthIsOnly
<1>5. PICK t : t = make_lower(s)
  OBVIOUS
<1>6. /\ t \in Seq(Int) /\ Len(t) = l + 1 /\ t[l + 1] = 0
      /\ \A k \in 1 .. l : t[k] = IF IsUpper(s[k]) THEN s[k] + 32 ELSE s[k]
  BY <1>3, <1>4, <1>5, LowerIs DEF IsLower
<1>7. \A k \in 1 .. l + 1 : t[k] = s[k]
  <2> TAKE k \in 1 .. l + 1
  <2>1. CASE k \in 1 .. l
    BY <1>1, <1>6, <2>1
  <2>2. CASE k = l + 1
    BY <1>1, <1>6, <2>2
  <2> QED
    BY <1>1, <2>1, <2>2
<1>8. t = s
  BY <1>1, <1>6, <1>7, SeqEqual
<1> QED
  BY <1>3, <1>4, <1>5, <1>8
-----------------------------------------------------------------------------
(* The runs of letters of a string, as it is read from left to right.       *)

AllLetters(s, a, b) == \A k \in a .. b : IsLetter(s[k])

RunsOf(s) ==
  {r \in (1 .. Len(s)) \X (1 .. Len(s)) :
     /\ r[1] <= r[2] /\ AllLetters(s, r[1], r[2])
     /\ r[1] = 1 \/ ~IsLetter(s[r[1] - 1])
     /\ ~IsLetter(s[r[2] + 1])}

(* The runs that end before place k, and those that begin at a or before.   *)
EndedBefore(s, k) == {r \in RunsOf(s) : r[2] < k}
BegunAt(s, a) == {r \in RunsOf(s) : r[1] <= a}

(* The m characters up to k, and no more than these, are letters.           *)
Trailing(s, k, m) ==
  /\ m \in 0 .. k /\ AllLetters(s, k - m + 1, k)
  /\ m = k \/ ~IsLetter(s[k - m])

LEMMA RunIs ==
  ASSUME NEW s, NEW n \in Nat, Len(s) = n, NEW a, NEW b
  PROVE  <<a, b>> \in RunsOf(s) <=>
           /\ a \in 1 .. n /\ b \in 1 .. n /\ a <= b
           /\ \A k \in a .. b : IsLetter(s[k])
           /\ a = 1 \/ ~IsLetter(s[a - 1])
           /\ ~IsLetter(s[b + 1])
BY DEF RunsOf, AllLetters

LEMMA RunIsPair ==
  ASSUME NEW s, NEW r \in RunsOf(s)
  PROVE  \E a, b \in 1 .. Len(s) : r = <<a, b>>
BY DEF RunsOf

LEMMA RunsAreFinite ==
  ASSUME NEW s, Len(s) \in Nat
  PROVE  IsFiniteSet(RunsOf(s))
<1>1. IsFiniteSet(1 .. Len(s))
  BY FS_Interval
<1>2. IsFiniteSet((1 .. Len(s)) \X (1 .. Len(s)))
  BY <1>1, FS_Product
<1>3. RunsOf(s) \subseteq (1 .. Len(s)) \X (1 .. Len(s))
  BY DEF RunsOf
<1> QED
  BY <1>2, <1>3, FS_Subset

(* A letter more: no run has come to an end.                                *)
LEMMA LetterMore ==
  ASSUME NEW s, NEW n \in Nat, Len(s) = n, NEW k \in 0 .. n - 1, NEW m, Trailing(s, k, m),
         IsLetter(s[k + 1])
  PROVE  Trailing(s, k + 1, m + 1) /\ EndedBefore(s, k + 1) = EndedBefore(s, k)
<1>1. /\ m \in 0 .. k /\ \A i \in k - m + 1 .. k : IsLetter(s[i])
      /\ m = k \/ ~IsLetter(s[k - m])
  BY DEF Trailing, AllLetters
<1>2. Trailing(s, k + 1, m + 1)
  <2>1. /\ m + 1 \in 0 .. k + 1 /\ (k + 1) - (m + 1) + 1 = k - m + 1
        /\ (k + 1) - (m + 1) = k - m
    BY <1>1
  <2>2. \A i \in k - m + 1 .. k + 1 : IsLetter(s[i])
    <3> TAKE i \in k - m + 1 .. k + 1
    <3>1. i \in k - m + 1 .. k \/ i = k + 1
      BY <1>1
    <3> QED
      BY <1>1, <3>1
  <2> QED
    BY <1>1, <2>1, <2>2 DEF Trailing, AllLetters
<1>3. ASSUME NEW r \in RunsOf(s) PROVE r[2] < k + 1 <=> r[2] < k
  <2>1. PICK a \in 1 .. n, b \in 1 .. n : r = <<a, b>>
    BY RunIsPair
  <2>2. b # k
    BY <1>3, <2>1, RunIs
  <2> QED
    BY <2>1, <2>2
<1>4. EndedBefore(s, k + 1) = EndedBefore(s, k)
  BY <1>3 DEF EndedBefore
<1> QED
  BY <1>2, <1>4

(* Something else than a letter: the run that stood last, if one did, has   *)
(* come to an end, and is the last that has begun.                          *)
LEMMA RunEnds ==
  ASSUME NEW s, NEW n \in Nat, Len(s) = n, NEW k \in 0 .. n - 1, NEW m, Trailing(s, k, m),
         ~IsLetter(s[k + 1])
  PROVE  /\ Trailing(s, k + 1, 0)
         /\ m = 0 => EndedBefore(s, k + 1) = EndedBefore(s, k)
         /\ m # 0 => /\ <<k - m + 1, k>> \notin EndedBefore(s, k)
                     /\ EndedBefore(s, k + 1) = EndedBefore(s, k) \cup {<<k - m + 1, k>>}
                     /\ BegunAt(s, k - m + 1) = EndedBefore(s, k + 1)
<1>1. /\ m \in 0 .. k /\ \A i \in k - m + 1 .. k : IsLetter(s[i])
      /\ m = k \/ ~IsLetter(s[k - m])
  BY DEF Trailing, AllLetters
<1>2. Trailing(s, k + 1, 0)
  <2>1. 0 \in 0 .. k + 1 /\ (k + 1) - 0 = k + 1 /\ (k + 1) - 0 + 1 .. k + 1 = {}
    OBVIOUS
  <2> QED
    BY <2>1 DEF Trailing, AllLetters
<1>3. ASSUME m = 0 PROVE EndedBefore(s, k + 1) = EndedBefore(s, k)
  <2>1. ASSUME NEW r \in RunsOf(s) PROVE r[2] < k + 1 <=> r[2] < k
    <3>1. PICK a \in 1 .. n, b \in 1 .. n : r = <<a, b>>
      BY RunIsPair
    <3>2. IsLetter(s[b])
      <4>1. b \in a .. b
        BY <2>1, <3>1, RunIs
      <4> QED
        BY <2>1, <3>1, <4>1, RunIs
    <3>3. b # k
      BY <1>1, <1>3, <3>1, <3>2
    <3> QED
      BY <3>1, <3>3
  <2> QED
    BY <2>1 DEF EndedBefore
<1>4. ASSUME m # 0
      PROVE  /\ <<k - m + 1, k>> \notin EndedBefore(s, k)
             /\ EndedBefore(s, k + 1) = EndedBefore(s, k) \cup {<<k - m + 1, k>>}
             /\ BegunAt(s, k - m + 1) = EndedBefore(s, k + 1)
  <2>1. PICK c \in 1 .. k : c = k - m + 1
    BY <1>1, <1>4
  <2>2. /\ \A i \in c .. k : IsLetter(s[i])
        /\ c = 1 \/ ~IsLetter(s[c - 1])
    <3>1. c - 1 = k - m /\ (m = k => c = 1)
      BY <1>1, <2>1
    <3> QED
      BY <1>1, <2>1, <3>1
  <2>3. <<c, k>> \in RunsOf(s)
    BY <2>1, <2>2, RunIs
  <2>4. ASSUME NEW a, NEW b, <<a, b>> \in RunsOf(s)
        PROVE  /\ a \in 1 .. n /\ b \in 1 .. n
               /\ b = k => a = c
               /\ a <= c <=> b <= k
    <3>1. /\ a \in 1 .. n /\ b \in 1 .. n /\ a <= b
          /\ \A i \in a .. b : IsLetter(s[i])
          /\ a = 1 \/ ~IsLetter(s[a - 1])
          /\ ~IsLetter(s[b + 1])
      BY <2>4, RunIs
    <3>2. ASSUME a > c, b <= k PROVE FALSE
      <4>1. a - 1 \in c .. k /\ a # 1
        BY <2>1, <3>1, <3>2
      <4> QED
        BY <2>2, <3>1, <4>1
    <3>3. ASSUME a < c, b >= k PROVE FALSE
      <4>1. c - 1 \in a .. b /\ c # 1
        BY <2>1, <3>1, <3>3
      <4> QED
        BY <2>2, <3>1, <4>1
    <3>4. ASSUME a <= c, b > k PROVE FALSE
      <4>1. k + 1 \in a .. b
        BY <2>1, <3>1, <3>4
      <4> QED
        BY <3>1, <4>1
    <3>5. b = k => a = c
      BY <2>1, <3>1, <3>2, <3>3
    <3>6. a <= c <=> b <= k
      BY <2>1, <3>1, <3>2, <3>4
    <3> QED
      BY <3>1, <3>5, <3>6
  <2>5. <<c, k>> \notin EndedBefore(s, k)
    BY <2>1 DEF EndedBefore
  <2>6. ASSUME NEW r \in RunsOf(s)
        PROVE  /\ r[2] < k + 1 <=> r[2] < k \/ r = <<c, k>>
               /\ r[1] <= c <=> r[2] < k + 1
    <3>1. PICK a \in 1 .. n, b \in 1 .. n : r = <<a, b>>
      BY RunIsPair
    <3>2. (b = k => a = c) /\ (a <= c <=> b <= k)
      BY <2>4, <2>6, <3>1
    <3> QED
      BY <2>1, <3>1, <3>2
  <2>7. EndedBefore(s, k + 1) = EndedBefore(s, k) \cup {<<c, k>>}
    BY <2>3, <2>6 DEF EndedBefore
  <2>8. BegunAt(s, c) = EndedBefore(s, k + 1)
    BY <2>6 DEF EndedBefore, BegunAt
  <2> QED
    BY <2>1, <2>5, <2>7, <2>8
<1> QED
  BY <1>2, <1>3, <1>4

(* Before the first character no run has ended; behind the last, which is   *)
(* no letter, all have.                                                     *)
LEMMA FirstAndLast ==
  ASSUME NEW s, NEW n \in Nat \ {0}, Len(s) = n, ~IsLetter(s[n])
  PROVE  /\ Trailing(s, 0, 0) /\ EndedBefore(s, 0) = {}
         /\ EndedBefore(s, n) = RunsOf(s)
<1>1. Trailing(s, 0, 0)
  BY DEF Trailing, AllLetters
<1>2. ASSUME NEW r \in RunsOf(s) PROVE ~(r[2] < 0) /\ r[2] < n
  <2>1. PICK a \in 1 .. n, b \in 1 .. n : r = <<a, b>>
    BY RunIsPair
  <2>2. b \in a .. b
    BY <1>2, <2>1, RunIs
  <2>3. b # n
    BY <1>2, <2>1, <2>2, RunIs
  <2> QED
    BY <2>1, <2>3
<1> QED
  BY <1>1, <1>2 DEF EndedBefore

-----------------------------------------------------------------------------
(* The two loops over the words of a string, and what they leave.           *)

(* What string_token has after a character more.                            *)
TokenStep(acc, c) ==
  IF IsLetter(c) THEN [acc EXCEPT !.tok = Append(@, c)]
  ELSE [tok |-> <<>>,
        list |-> IF acc.tok # <<>> THEN Append(acc.list, Append(acc.tok, 0)) ELSE acc.list]

TokenStates == [tok : Seq(Int), list : Seq(Seq(Int))]

LEMMA TokenStepType ==
  ASSUME NEW acc \in TokenStates, NEW c \in Int
  PROVE  TokenStep(acc, c) \in TokenStates
<1>1. acc.tok \in Seq(Int) /\ acc.list \in Seq(Seq(Int)) /\ 0 \in Int
  BY DEF TokenStates
<1>2. CASE IsLetter(c)
  <2>1. PICK t : t = Append(acc.tok, c)
    OBVIOUS
  <2>2. t \in Seq(Int)
    BY <1>1, <2>1, AppendProperties
  <2>3. TokenStep(acc, c) = [acc EXCEPT !.tok = t]
    BY <1>2, <2>1 DEF TokenStep
  <2> QED
    BY <2>2, <2>3 DEF TokenStates
<1>3. CASE ~IsLetter(c)
  <2>1. PICK w : w = Append(acc.tok, 0)
    OBVIOUS
  <2>2. w \in Seq(Int)
    BY <1>1, <2>1, AppendProperties
  <2>3. PICK l : l = Append(acc.list, w)
    OBVIOUS
  <2>4. l \in Seq(Seq(Int))
    BY <1>1, <2>2, <2>3, AppendProperties
  <2>5. PICK e : e = <<>>
    OBVIOUS
  <2>6. e \in Seq(Int)
    BY <2>5
  <2>7. TokenStep(acc, c) = [tok |-> e, list |-> IF acc.tok # <<>> THEN l ELSE acc.list]
    BY <1>3, <2>1, <2>3, <2>5 DEF TokenStep
  <2> QED
    BY <1>1, <2>4, <2>6, <2>7 DEF TokenStates
<1> QED
  BY <1>2, <1>3

(* H has what the loop of string_token makes of the first k characters of   *)
(* s, for every k, and string_token returns what it has at the end.         *)
ReadsAs(str, s, H) ==
  /\ string_token(str) = H[1 .. Len(s)].list
  /\ H[1 .. 0] = [tok |-> <<>>, list |-> <<>>]
  /\ \A k \in 0 .. Len(s) - 1 : H[1 .. k + 1] = TokenStep(H[1 .. k], s[k + 1])

LEMMA TokenSteps ==
  ASSUME NEW str, NEW s, NEW n \in Nat, s \in Seq(Int), Len(s) = n,
         make_lower(make_lower(str)) = s
  PROVE  \E H : ReadsAs(str, s, H)
<1> DEFINE D == DOMAIN s
           base == [tok |-> <<>>, list |-> <<>>]
           It(h) == h = [t \in SUBSET D |->
                           IF t = {} THEN base ELSE TokenStep(h[t \ {Max(t)}], s[Max(t)])]
           op == [p \in (1 .. n) \X TokenStates |-> TokenStep(p[2], s[p[1]])]
<1>1. string_token(str) = (CHOOSE h : It(h))[D].list
  BY DEF string_token, Scanned, TokenStep, FoldLeft, MapThenFoldSet
<1>2. D = 1 .. n /\ \A k \in 1 .. n : s[k] \in Int
  BY LenProperties, ElementOfSeq
<1>3. base \in TokenStates
  BY DEF TokenStates
<1>4. \A i \in 1 .. n : \A a \in TokenStates : op[<<i, a>>] = TokenStep(a, s[i])
  OBVIOUS
<1> HIDE DEF op, D
<1>5. \A i \in 1 .. n : \A a \in TokenStates : op[<<i, a>>] \in TokenStates
  BY <1>2, <1>4, TokenStepType
<1>6. PICK g \in [SUBSET (1 .. n) -> TokenStates] : Folded(op, base, n, g)
  <2> HIDE DEF base
  <2> QED
    BY <1>3, <1>5, FoldExists
<1>7. It(g)
  <2>1. ASSUME NEW t \in SUBSET D, t # {}
        PROVE  op[<<Max(t), g[t \ {Max(t)}]>>] = TokenStep(g[t \ {Max(t)}], s[Max(t)])
    <3>1. Max(t) \in 1 .. n
      BY <1>2, <2>1, MaxOfNat
    <3>2. g[t \ {Max(t)}] \in TokenStates
      BY <1>2
    <3> QED
      BY <1>4, <3>1, <3>2
  <2>2. g = [t \in SUBSET D |-> IF t = {} THEN base ELSE op[<<Max(t), g[t \ {Max(t)}]>>]]
    BY <1>2, <1>6 DEF Folded
  <2> HIDE DEF base
  <2> QED
    BY <2>1, <2>2
<1>8. It(CHOOSE h : It(h))
  <2> HIDE DEF It
  <2> QED
    BY <1>7
<1>9. PICK H : It(H) /\ string_token(str) = H[D].list
  BY <1>1, <1>8
<1>10. \A t \in SUBSET D :
         H[t] = IF t = {} THEN base ELSE TokenStep(H[t \ {Max(t)}], s[Max(t)])
  BY <1>9
<1>11. H[1 .. 0] = base
  <2>1. 1 .. 0 = {} /\ {} \in SUBSET D
    OBVIOUS
  <2> QED
    BY <1>10, <2>1
<1>12. ASSUME NEW k \in 0 .. n - 1 PROVE H[1 .. k + 1] = TokenStep(H[1 .. k], s[k + 1])
  <2>1. 1 .. k + 1 \in SUBSET D /\ 1 .. k + 1 # {} /\ (1 .. k + 1) \ {k + 1} = 1 .. k
    <3>1. k \in Nat /\ k + 1 <= n /\ (1 .. k + 1) \ {k + 1} = 1 .. k
      OBVIOUS
    <3>2. 1 .. k + 1 \in SUBSET (1 .. n) /\ 1 \in 1 .. k + 1
      BY <3>1
    <3> QED
      BY <1>2, <3>1, <3>2
  <2>2. Max(1 .. k + 1) = k + 1
    <3>1. 1 .. k + 1 \in SUBSET Int /\ k + 1 \in 1 .. k + 1 /\ \A y \in 1 .. k + 1 : k + 1 >= y
      OBVIOUS
    <3> QED
      BY <3>1, MaxIs
  <2> HIDE DEF base
  <2> QED
    BY <1>10, <2>1, <2>2
<1> HIDE DEF It
<1> QED
  BY <1>2, <1>9, <1>11, <1>12 DEF ReadsAs

(* The word of a run, and its place among the words.                        *)
Word(s, r) == Append(SubSeq(s, r[1], r[2]), 0)
PlaceOf(s, r) == Cardinality(BegunAt(s, r[1]))

(* The list holds the words of the runs that ended before k.                *)
WordsRight(s, k, list) ==
  /\ list \in Seq(Seq(Int))
  /\ Len(list) = Cardinality(EndedBefore(s, k))
  /\ \A r \in EndedBefore(s, k) : PlaceOf(s, r) \in 1 .. Len(list) /\ list[PlaceOf(s, r)] = Word(s, r)

(* What string_token has when it has read k characters.                     *)
HasRead(s, k, acc) ==
  /\ acc \in TokenStates
  /\ Trailing(s, k, Len(acc.tok)) /\ acc.tok = SubSeq(s, k - Len(acc.tok) + 1, k)
  /\ WordsRight(s, k, acc.list)

LEMMA WordMore ==
  ASSUME NEW s, NEW n \in Nat, s \in Seq(Int), Len(s) = n, NEW k \in 0 .. n - 1, NEW m \in Nat,
         m # 0, Trailing(s, k, m), ~IsLetter(s[k + 1]), NEW list, WordsRight(s, k, list),
         NEW w \in Seq(Int), w = Word(s, <<k - m + 1, k>>)
  PROVE  WordsRight(s, k + 1, Append(list, w))
<1> DEFINE new == <<k - m + 1, k>>
<1>1. /\ new \notin EndedBefore(s, k)
      /\ EndedBefore(s, k + 1) = EndedBefore(s, k) \cup {new}
      /\ BegunAt(s, k - m + 1) = EndedBefore(s, k + 1)
  <2>1. \A j \in 0 .. n - 1 : \A i : Trailing(s, j, i) /\ ~IsLetter(s[j + 1]) /\ i # 0 =>
          /\ <<j - i + 1, j>> \notin EndedBefore(s, j)
          /\ EndedBefore(s, j + 1) = EndedBefore(s, j) \cup {<<j - i + 1, j>>}
          /\ BegunAt(s, j - i + 1) = EndedBefore(s, j + 1)
    BY RunEnds
  <2> QED
    BY <2>1
<1>2. /\ list \in Seq(Seq(Int)) /\ Len(list) = Cardinality(EndedBefore(s, k))
      /\ \A r \in EndedBefore(s, k) : PlaceOf(s, r) \in 1 .. Len(list) /\ list[PlaceOf(s, r)] = Word(s, r)
  BY DEF WordsRight
<1>3. IsFiniteSet(EndedBefore(s, k))
  <2>1. EndedBefore(s, k) \subseteq RunsOf(s) /\ IsFiniteSet(RunsOf(s))
    BY RunsAreFinite DEF EndedBefore
  <2> QED
    BY <2>1, FS_Subset
<1>4. PICK l \in Nat : l = Len(list)
  BY <1>2, LenProperties
<1>5. Cardinality(EndedBefore(s, k + 1)) = l + 1
  <2> HIDE DEF new
  <2>1. PICK E : E = EndedBefore(s, k)
    OBVIOUS
  <2>2. IsFiniteSet(E) /\ new \notin E /\ Cardinality(E) = l /\ EndedBefore(s, k + 1) = E \cup {new}
    BY <1>1, <1>2, <1>3, <1>4, <2>1
  <2>3. Cardinality(E \cup {new}) = Cardinality(E) + 1
    BY <2>2, FS_AddElement
  <2> QED
    BY <2>2, <2>3
<1>6. PICK q : q = Append(list, w)
  OBVIOUS
<1>7. /\ q \in Seq(Seq(Int)) /\ Len(q) = l + 1 /\ q[l + 1] = w
      /\ \A i \in 1 .. l : q[i] = list[i]
  BY <1>2, <1>4, <1>6, AppendProperties
<1>8. PlaceOf(s, new) = l + 1
  BY <1>1, <1>5 DEF PlaceOf
<1>9. ASSUME NEW r \in EndedBefore(s, k + 1)
      PROVE  PlaceOf(s, r) \in 1 .. l + 1 /\ q[PlaceOf(s, r)] = Word(s, r)
  <2> HIDE DEF new
  <2>1. CASE r \in EndedBefore(s, k)
    <3>1. PICK i \in 1 .. l : i = PlaceOf(s, r) /\ list[i] = Word(s, r)
      BY <1>2, <1>4, <2>1
    <3>2. i \in 1 .. l + 1 /\ q[i] = list[i]
      BY <1>7
    <3> QED
      BY <3>1, <3>2
  <2>2. CASE r = new
    <3>1. l + 1 \in 1 .. l + 1
      OBVIOUS
    <3> QED
      BY <1>7, <1>8, <2>2, <3>1 DEF new
  <2> QED
    BY <1>1, <2>1, <2>2
<1> QED
  BY <1>5, <1>6, <1>7, <1>9 DEF WordsRight

LEMMA HasReadMore ==
  ASSUME NEW s, NEW n \in Nat, s \in Seq(Int), Len(s) = n, NEW k \in 0 .. n - 1, NEW acc,
         HasRead(s, k, acc)
  PROVE  HasRead(s, k + 1, TokenStep(acc, s[k + 1]))
<1>1. acc \in TokenStates /\ acc.tok \in Seq(Int) /\ WordsRight(s, k, acc.list)
  BY DEF HasRead, TokenStates
<1>2. PICK m \in Nat : m = Len(acc.tok)
  BY <1>1, LenProperties
<1>3. /\ Trailing(s, k, m) /\ acc.tok = SubSeq(s, k - m + 1, k)
      /\ m \in 0 .. k
  BY <1>2 DEF HasRead, Trailing
<1>4. PICK c \in Int : c = s[k + 1] /\ k + 1 \in 1 .. n
  <2>1. k + 1 \in 1 .. n
    OBVIOUS
  <2> QED
    BY <2>1, ElementOfSeq
<1>5. PICK new : new = TokenStep(acc, c)
  OBVIOUS
<1>6. new \in TokenStates
  BY <1>1, <1>5, TokenStepType
<1>7. CASE IsLetter(c)
  <2>1. Trailing(s, k + 1, m + 1) /\ EndedBefore(s, k + 1) = EndedBefore(s, k)
    BY <1>3, <1>4, <1>7, LetterMore
  <2>2. PICK t : t = Append(acc.tok, c)
    OBVIOUS
  <2>3. new.tok = t /\ new.list = acc.list
    <3>1. new = [acc EXCEPT !.tok = t]
      BY <1>5, <1>7, <2>2 DEF TokenStep
    <3> QED
      BY <1>1, <3>1 DEF TokenStates
  <2>4. Len(t) = m + 1
    BY <1>1, <1>2, <2>2, AppendProperties
  <2>5. t = SubSeq(s, k - m + 1, k + 1)
    <3>1. k - m + 1 \in 1 .. n /\ k + 1 \in k - m + 1 .. n /\ (k + 1) - 1 = k
      BY <1>3, <1>4
    <3>2. SubSeq(s, k - m + 1, k + 1) = SubSeq(s, k - m + 1, k) \o <<c>>
      BY <1>4, <3>1, SubSeqRecursiveSecond
    <3>3. Append(acc.tok, c) = acc.tok \o <<c>>
      BY <1>1, AppendIsConcat
    <3> QED
      BY <1>3, <2>2, <3>2, <3>3
  <2>6. (k + 1) - (m + 1) + 1 = k - m + 1
    BY <1>3
  <2>7. WordsRight(s, k + 1, new.list)
    BY <1>1, <2>1, <2>3 DEF WordsRight
  <2>8. HasRead(s, k + 1, new)
    BY <1>6, <2>1, <2>3, <2>4, <2>5, <2>6, <2>7 DEF HasRead
  <2> QED
    BY <1>4, <1>5, <2>8
<1>8. CASE ~IsLetter(c)
  <2>1. Trailing(s, k + 1, 0)
    BY <1>3, <1>4, <1>8, RunEnds
  <2>2. new.tok = <<>> /\ Len(new.tok) = 0
    BY <1>5, <1>8 DEF TokenStep
  <2>3. SubSeq(s, (k + 1) - 0 + 1, k + 1) = <<>>
    <3>1. (k + 1) - 0 + 1 \in Int /\ k + 1 \in Int /\ k + 1 < (k + 1) - 0 + 1
      OBVIOUS
    <3> QED
      BY <3>1, SubSeqEmpty
  <2>4. WordsRight(s, k + 1, new.list)
    <3>1. CASE m = 0
      <4>1. acc.tok = <<>>
        BY <1>1, <1>2, <3>1, EmptySeq
      <4>2. new.list = acc.list
        BY <1>5, <1>8, <4>1 DEF TokenStep
      <4>3. EndedBefore(s, k + 1) = EndedBefore(s, k)
        BY <1>3, <1>4, <1>8, <3>1, RunEnds
      <4> QED
        BY <1>1, <4>2, <4>3 DEF WordsRight
    <3>2. CASE m # 0
      <4>1. PICK w : w = Append(acc.tok, 0)
        OBVIOUS
      <4>2. w \in Seq(Int) /\ w = Word(s, <<k - m + 1, k>>)
        BY <1>1, <1>3, <4>1, AppendProperties DEF Word
      <4>3. acc.tok # <<>>
        BY <1>2, <3>2
      <4>4. new.list = Append(acc.list, w)
        BY <1>5, <1>8, <4>1, <4>3 DEF TokenStep
      <4> QED
        BY <1>1, <1>3, <1>4, <1>8, <3>2, <4>2, <4>4, WordMore
    <3> QED
      BY <3>1, <3>2
  <2>5. HasRead(s, k + 1, new)
    BY <1>6, <2>1, <2>2, <2>3, <2>4 DEF HasRead
  <2> QED
    BY <1>4, <1>5, <2>5
<1> QED
  BY <1>7, <1>8

(* All words are in the list at the end, in the order of the runs.          *)
LEMMA AllRead ==
  ASSUME NEW str, NEW s, NEW n \in Nat \ {0}, s \in Seq(Int), Len(s) = n, ~IsLetter(s[n]),
         make_lower(make_lower(str)) = s
  PROVE  /\ Len(string_token(str)) = Cardinality(RunsOf(s))
         /\ \A r \in RunsOf(s) : string_token(str)[PlaceOf(s, r)] = Word(s, r)
<1>1. PICK H : /\ string_token(str) = H[1 .. n].list
               /\ H[1 .. 0] = [tok |-> <<>>, list |-> <<>>]
               /\ \A k \in 0 .. n - 1 : H[1 .. k + 1] = TokenStep(H[1 .. k], s[k + 1])
  <2>1. \E H : ReadsAs(str, s, H)
    <3>1. n \in Nat
      OBVIOUS
    <3> QED
      BY <3>1, TokenSteps
  <2>2. Len(s) = n
    OBVIOUS
  <2> QED
    BY <2>1, <2>2 DEF ReadsAs
<1>2. Trailing(s, 0, 0) /\ EndedBefore(s, 0) = {} /\ EndedBefore(s, n) = RunsOf(s)
  BY FirstAndLast
<1> DEFINE Q == {k \in 0 .. n : HasRead(s, k, H[1 .. k])}
<1>3. 0 \in Q
  <2>1. PICK acc : acc = H[1 .. 0]
    OBVIOUS
  <2>2. acc = [tok |-> <<>>, list |-> <<>>]
    BY <1>1, <2>1
  <2>3. /\ acc \in TokenStates /\ acc.tok = <<>> /\ acc.list = <<>> /\ Len(acc.tok) = 0
        /\ Len(acc.list) = 0 /\ acc.list \in Seq(Seq(Int))
    BY <2>2 DEF TokenStates
  <2>4. SubSeq(s, 0 - 0 + 1, 0) = <<>>
    <3>1. 0 - 0 + 1 \in Int /\ 0 \in Int /\ 0 < 0 - 0 + 1
      OBVIOUS
    <3> QED
      BY <3>1, SubSeqEmpty
  <2>5. WordsRight(s, 0, acc.list)
    BY <1>2, <2>3, FS_EmptySet DEF WordsRight
  <2>6. HasRead(s, 0, acc)
    BY <1>2, <2>3, <2>4, <2>5 DEF HasRead
  <2> QED
    BY <2>1, <2>6
<1>4. ASSUME NEW k \in 0 .. n - 1, k \in Q PROVE k + 1 \in Q
  <2>1. HasRead(s, k, H[1 .. k])
    BY <1>4
  <2>2. HasRead(s, k + 1, TokenStep(H[1 .. k], s[k + 1]))
    BY <2>1, HasReadMore
  <2>3. HasRead(s, k + 1, H[1 .. k + 1])
    BY <1>1, <2>2
  <2> QED
    BY <2>3
<1>5. Q \in SUBSET (0 .. n) /\ (n \in Q => HasRead(s, n, H[1 .. n]))
  OBVIOUS
<1> HIDE DEF Q
<1>6. \A k \in 0 .. n - 1 : k \in Q => k + 1 \in Q
  BY <1>4
<1>7. Q = 0 .. n
  BY <1>3, <1>5, <1>6, UpToAll
<1>8. n \in Q
  BY <1>7
<1>9. WordsRight(s, n, string_token(str))
  BY <1>1, <1>5, <1>8 DEF HasRead
<1> QED
  BY <1>2, <1>9 DEF WordsRight

(* What token_num has after a character more.                               *)
CountStep(acc, c) ==
  IF IsLetter(c) THEN [acc EXCEPT !.tok_len = @ + 1]
  ELSE [tok_len |-> 0, tok_num |-> IF acc.tok_len # 0 THEN acc.tok_num + 1 ELSE acc.tok_num]

CountStates == [tok_len : Nat, tok_num : Nat]

LEMMA CountStepType ==
  ASSUME NEW acc \in CountStates, NEW c \in Int
  PROVE  CountStep(acc, c) \in CountStates
BY DEF CountStep, CountStates

(* H has what the loop of token_num makes of the first k characters of s,   *)
(* for every k, and token_num returns what it has at the end.               *)
CountsAs(str, s, H) ==
  /\ token_num(str) = H[1 .. Len(s)].tok_num
  /\ H[1 .. 0] = [tok_len |-> 0, tok_num |-> 0]
  /\ \A k \in 0 .. Len(s) - 1 : H[1 .. k + 1] = CountStep(H[1 .. k], s[k + 1])

LEMMA CountSteps ==
  ASSUME NEW str, NEW s, NEW n \in Nat, s \in Seq(Int), Len(s) = n,
         make_lower(str) = s
  PROVE  \E H : CountsAs(str, s, H)
<1> DEFINE D == DOMAIN s
           base == [tok_len |-> 0, tok_num |-> 0]
           It(h) == h = [t \in SUBSET D |->
                           IF t = {} THEN base ELSE CountStep(h[t \ {Max(t)}], s[Max(t)])]
           op == [p \in (1 .. n) \X CountStates |-> CountStep(p[2], s[p[1]])]
<1>1. token_num(str) = (CHOOSE h : It(h))[D].tok_num
  BY DEF token_num, Scanned, CountStep, FoldLeft, MapThenFoldSet
<1>2. D = 1 .. n /\ \A k \in 1 .. n : s[k] \in Int
  BY LenProperties, ElementOfSeq
<1>3. base \in CountStates
  BY DEF CountStates
<1>4. \A i \in 1 .. n : \A a \in CountStates : op[<<i, a>>] = CountStep(a, s[i])
  OBVIOUS
<1> HIDE DEF op, D
<1>5. \A i \in 1 .. n : \A a \in CountStates : op[<<i, a>>] \in CountStates
  BY <1>2, <1>4, CountStepType
<1>6. PICK g \in [SUBSET (1 .. n) -> CountStates] : Folded(op, base, n, g)
  <2> HIDE DEF base
  <2> QED
    BY <1>3, <1>5, FoldExists
<1>7. It(g)
  <2>1. ASSUME NEW t \in SUBSET D, t # {}
        PROVE  op[<<Max(t), g[t \ {Max(t)}]>>] = CountStep(g[t \ {Max(t)}], s[Max(t)])
    <3>1. Max(t) \in 1 .. n
      BY <1>2, <2>1, MaxOfNat
    <3>2. g[t \ {Max(t)}] \in CountStates
      BY <1>2
    <3> QED
      BY <1>4, <3>1, <3>2
  <2>2. g = [t \in SUBSET D |-> IF t = {} THEN base ELSE op[<<Max(t), g[t \ {Max(t)}]>>]]
    BY <1>2, <1>6 DEF Folded
  <2> HIDE DEF base
  <2> QED
    BY <2>1, <2>2
<1>8. It(CHOOSE h : It(h))
  <2> HIDE DEF It
  <2> QED
    BY <1>7
<1>9. PICK H : It(H) /\ token_num(str) = H[D].tok_num
  BY <1>1, <1>8
<1>10. \A t \in SUBSET D :
         H[t] = IF t = {} THEN base ELSE CountStep(H[t \ {Max(t)}], s[Max(t)])
  BY <1>9
<1>11. H[1 .. 0] = base
  <2>1. 1 .. 0 = {} /\ {} \in SUBSET D
    OBVIOUS
  <2> QED
    BY <1>10, <2>1
<1>12. ASSUME NEW k \in 0 .. n - 1 PROVE H[1 .. k + 1] = CountStep(H[1 .. k], s[k + 1])
  <2>1. 1 .. k + 1 \in SUBSET D /\ 1 .. k + 1 # {} /\ (1 .. k + 1) \ {k + 1} = 1 .. k
    <3>1. k \in Nat /\ k + 1 <= n /\ (1 .. k + 1) \ {k + 1} = 1 .. k
      OBVIOUS
    <3>2. 1 .. k + 1 \in SUBSET (1 .. n) /\ 1 \in 1 .. k + 1
      BY <3>1
    <3> QED
      BY <1>2, <3>1, <3>2
  <2>2. Max(1 .. k + 1) = k + 1
    <3>1. 1 .. k + 1 \in SUBSET Int /\ k + 1 \in 1 .. k + 1 /\ \A y \in 1 .. k + 1 : k + 1 >= y
      OBVIOUS
    <3> QED
      BY <3>1, MaxIs
  <2> HIDE DEF base
  <2> QED
    BY <1>10, <2>1, <2>2
<1> HIDE DEF It
<1> QED
  BY <1>2, <1>9, <1>11, <1>12 DEF CountsAs

(* What token_num has when it has read k characters.                        *)
HasCounted(s, k, acc) ==
  /\ acc \in CountStates
  /\ Trailing(s, k, acc.tok_len) /\ acc.tok_num = Cardinality(EndedBefore(s, k))

LEMMA HasCountedMore ==
  ASSUME NEW s, NEW n \in Nat, s \in Seq(Int), Len(s) = n, NEW k \in 0 .. n - 1, NEW acc,
         HasCounted(s, k, acc)
  PROVE  HasCounted(s, k + 1, CountStep(acc, s[k + 1]))
<1>1. PICK m \in Nat, num \in Nat : acc = [tok_len |-> m, tok_num |-> num]
  BY DEF HasCounted, CountStates
<1>2. Trailing(s, k, m) /\ num = Cardinality(EndedBefore(s, k))
  BY <1>1 DEF HasCounted
<1>3. PICK c \in Int : c = s[k + 1]
  <2>1. k + 1 \in 1 .. n
    OBVIOUS
  <2> QED
    BY <2>1, ElementOfSeq
<1>4. CASE IsLetter(c)
  <2>1. Trailing(s, k + 1, m + 1) /\ EndedBefore(s, k + 1) = EndedBefore(s, k)
    BY <1>2, <1>3, <1>4, LetterMore
  <2>2. CountStep(acc, c) = [tok_len |-> m + 1, tok_num |-> num]
    BY <1>1, <1>4 DEF CountStep
  <2> QED
    BY <1>2, <1>3, <2>1, <2>2 DEF HasCounted, CountStates
<1>5. CASE ~IsLetter(c) /\ m = 0
  <2>1. Trailing(s, k + 1, 0) /\ EndedBefore(s, k + 1) = EndedBefore(s, k)
    BY <1>2, <1>3, <1>5, RunEnds
  <2>2. CountStep(acc, c) = [tok_len |-> 0, tok_num |-> num]
    BY <1>1, <1>5 DEF CountStep
  <2> QED
    BY <1>2, <1>3, <2>1, <2>2 DEF HasCounted, CountStates
<1>6. CASE ~IsLetter(c) /\ m # 0
  <2>1. PICK E, new : /\ E = EndedBefore(s, k) /\ new \notin E
                      /\ EndedBefore(s, k + 1) = E \cup {new}
    <3>1. /\ <<k - m + 1, k>> \notin EndedBefore(s, k)
          /\ EndedBefore(s, k + 1) = EndedBefore(s, k) \cup {<<k - m + 1, k>>}
      <4>1. \A j \in 0 .. n - 1 : \A i : Trailing(s, j, i) /\ ~IsLetter(s[j + 1]) /\ i # 0 =>
              /\ <<j - i + 1, j>> \notin EndedBefore(s, j)
              /\ EndedBefore(s, j + 1) = EndedBefore(s, j) \cup {<<j - i + 1, j>>}
        BY RunEnds
      <4> QED
        BY <1>2, <1>3, <1>6, <4>1
    <3> QED
      BY <3>1
  <2>2. IsFiniteSet(E)
    <3>1. E \subseteq RunsOf(s) /\ IsFiniteSet(RunsOf(s))
      BY <2>1, RunsAreFinite DEF EndedBefore
    <3> QED
      BY <3>1, FS_Subset
  <2>3. Cardinality(EndedBefore(s, k + 1)) = num + 1
    BY <1>2, <2>1, <2>2, FS_AddElement
  <2>4. Trailing(s, k + 1, 0)
    BY <1>2, <1>3, <1>6, RunEnds
  <2>5. CountStep(acc, c) = [tok_len |-> 0, tok_num |-> num + 1]
    BY <1>1, <1>6 DEF CountStep
  <2> QED
    BY <1>3, <2>3, <2>4, <2>5 DEF HasCounted, CountStates
<1> QED
  BY <1>4, <1>5, <1>6

LEMMA AllCounted ==
  ASSUME NEW str, NEW s, NEW n \in Nat \ {0}, s \in Seq(Int), Len(s) = n, ~IsLetter(s[n]),
         make_lower(str) = s
  PROVE  token_num(str) = Cardinality(RunsOf(s))
<1>1. PICK H : /\ token_num(str) = H[1 .. n].tok_num
               /\ H[1 .. 0] = [tok_len |-> 0, tok_num |-> 0]
               /\ \A k \in 0 .. n - 1 : H[1 .. k + 1] = CountStep(H[1 .. k], s[k + 1])
  <2>1. \E H : CountsAs(str, s, H)
    <3>1. n \in Nat
      OBVIOUS
    <3> QED
      BY <3>1, CountSteps
  <2>2. Len(s) = n
    OBVIOUS
  <2> QED
    BY <2>1, <2>2 DEF CountsAs
<1>2. Trailing(s, 0, 0) /\ EndedBefore(s, 0) = {} /\ EndedBefore(s, n) = RunsOf(s)
  BY FirstAndLast
<1> DEFINE Q == {k \in 0 .. n : HasCounted(s, k, H[1 .. k])}
<1>3. 0 \in Q
  <2>1. PICK acc : acc = H[1 .. 0] /\ acc = [tok_len |-> 0, tok_num |-> 0]
    BY <1>1
  <2>2. acc \in CountStates /\ acc.tok_len = 0 /\ acc.tok_num = Cardinality({})
    BY <2>1, FS_EmptySet DEF CountStates
  <2>3. HasCounted(s, 0, acc)
    BY <1>2, <2>2 DEF HasCounted
  <2>4. HasCounted(s, 0, H[1 .. 0])
    BY <2>1, <2>3
  <2> QED
    BY <2>4
<1>4. ASSUME NEW k \in 0 .. n - 1, k \in Q PROVE k + 1 \in Q
  <2>1. HasCounted(s, k, H[1 .. k])
    BY <1>4
  <2>2. HasCounted(s, k + 1, CountStep(H[1 .. k], s[k + 1]))
    BY <2>1, HasCountedMore
  <2>3. HasCounted(s, k + 1, H[1 .. k + 1])
    BY <1>1, <2>2
  <2> QED
    BY <2>3
<1>5. Q \in SUBSET (0 .. n) /\ (n \in Q => HasCounted(s, n, H[1 .. n]))
  OBVIOUS
<1> HIDE DEF Q
<1>6. \A k \in 0 .. n - 1 : k \in Q => k + 1 \in Q
  BY <1>4
<1>7. Q = 0 .. n
  BY <1>3, <1>5, <1>6, UpToAll
<1>8. n \in Q
  BY <1>7
<1> QED
  BY <1>1, <1>2, <1>5, <1>8 DEF HasCounted

(* token_num and string_token on every string with a terminator: as many    *)
(* words as runs of letters, each run in its place.                         *)
LEMMA TokensAreRuns ==
  ASSUME NEW str, IsString(str)
  PROVE  TokensOf(str)
<1>1. PICK s, l : s = make_lower(str) /\ IsLower(s, l)
  BY LowerIs
<1>2. make_lower(s) = s
  BY <1>1, LowerStays
<1>3. /\ s \in Seq(Int) /\ l + 1 \in Nat \ {0} /\ Len(s) = l + 1 /\ ~IsLetter(s[l + 1])
  BY <1>1 DEF IsLower, IsLetter
<1>4. Runs(str) = RunsOf(s)
  BY <1>1 DEF Runs, RunsOf, AllLetters
<1>5. token_num(str) = Cardinality(RunsOf(s))
  BY <1>1, <1>3, AllCounted
<1>6. /\ Len(string_token(str)) = Cardinality(RunsOf(s))
      /\ \A r \in RunsOf(s) : string_token(str)[PlaceOf(s, r)] = Word(s, r)
  <2>1. make_lower(make_lower(str)) = s
    BY <1>1, <1>2
  <2> QED
    BY <1>3, <2>1, AllRead
<1>7. ASSUME NEW r \in RunsOf(s) PROVE Word(s, r) = SubSeq(s, r[1], r[2]) \o <<0>>
  <2>1. PICK a \in 1 .. l + 1, b \in 1 .. l + 1 : r = <<a, b>>
    BY <1>3, RunIsPair
  <2>2. SubSeq(s, a, b) \in Seq(Int)
    <3>1. a \in Int /\ b \in Int /\ \A i \in a .. b : s[i] \in Int
      BY <1>3, <2>1, ElementOfSeq
    <3> QED
      BY <3>1, SubSeqProperties
  <2> QED
    BY <2>1, <2>2, AppendIsConcat DEF Word
<1>8. \A r \in RunsOf(s) : PlaceOf(s, r) = Cardinality({q \in RunsOf(s) : q[1] <= r[1]})
  BY DEF PlaceOf, BegunAt
<1> QED
  BY <1>1, <1>4, <1>5, <1>6, <1>7, <1>8 DEF TokensOf

-----------------------------------------------------------------------------
(* The order of the strings.                                                *)

(* A comes before B, strings in lower case with la and lb characters: at    *)
(* the first place where they differ it has the smaller character, or it    *)
(* has ended there.                                                         *)
Before(A, la, B, lb) ==
  \E m \in 1 .. lb : /\ m <= la + 1 /\ \A j \in 1 .. m - 1 : A[j] = B[j]
                     /\ m = la + 1 \/ (m <= la /\ A[m] < B[m])

Same(A, la, B, lb) == la = lb /\ \A j \in 1 .. la : A[j] = B[j]

(* Characters of a string of the length l.                                  *)
IsText(A, l) == l \in Nat /\ \A j \in 1 .. l : A[j] \in Int

LEMMA NotBothBefore ==
  ASSUME NEW A, NEW la, NEW B, NEW lb, IsText(A, la), IsText(B, lb), Before(A, la, B, lb)
  PROVE  ~Before(B, lb, A, la) /\ ~Same(A, la, B, lb)
<1>1. PICK m \in 1 .. lb : /\ m <= la + 1 /\ \A j \in 1 .. m - 1 : A[j] = B[j]
                           /\ m = la + 1 \/ (m <= la /\ A[m] < B[m])
  BY DEF Before
<1>2. la \in Nat /\ lb \in Nat
  BY DEF IsText
<1>3. ASSUME m <= la PROVE A[m] \in Int /\ B[m] \in Int /\ A[m] < B[m]
  BY <1>1, <1>2, <1>3 DEF IsText
<1>4. ASSUME Before(B, lb, A, la) PROVE FALSE
  <2>1. PICK q \in 1 .. la : /\ q <= lb + 1 /\ \A j \in 1 .. q - 1 : B[j] = A[j]
                             /\ q = lb + 1 \/ (q <= lb /\ B[q] < A[q])
    BY <1>4 DEF Before
  <2>2. CASE m < q
    <3>1. m \in 1 .. q - 1 /\ m <= la
      BY <1>2, <2>2
    <3> QED
      BY <1>3, <2>1, <3>1
  <2>3. CASE q < m
    <3>1. q \in 1 .. m - 1 /\ q <= lb /\ q \in 1 .. lb
      BY <1>2, <2>3
    <3>2. A[q] = B[q] /\ B[q] < A[q] /\ A[q] \in Int
      BY <1>1, <1>2, <2>1, <3>1 DEF IsText
    <3> QED
      BY <3>2
  <2>4. CASE q = m
    <3>1. m <= la /\ B[m] < A[m]
      BY <1>2, <2>1, <2>4
    <3> QED
      BY <1>3, <3>1
  <2> QED
    BY <1>2, <2>2, <2>3, <2>4
<1>5. ASSUME Same(A, la, B, lb) PROVE FALSE
  <2>1. m <= la /\ A[m] = B[m]
    BY <1>2, <1>5 DEF Same
  <2> QED
    BY <1>3, <2>1
<1> QED
  BY <1>4, <1>5

LEMMA BeforeIsTransitive ==
  ASSUME NEW A, NEW la, NEW B, NEW lb, NEW C, NEW lc,
         IsText(A, la), IsText(B, lb), IsText(C, lc),
         Before(A, la, B, lb), Before(B, lb, C, lc)
  PROVE  Before(A, la, C, lc)
<1>1. PICK m \in 1 .. lb : /\ m <= la + 1 /\ \A j \in 1 .. m - 1 : A[j] = B[j]
                           /\ m = la + 1 \/ (m <= la /\ A[m] < B[m])
  BY DEF Before
<1>2. PICK q \in 1 .. lc : /\ q <= lb + 1 /\ \A j \in 1 .. q - 1 : B[j] = C[j]
                           /\ q = lb + 1 \/ (q <= lb /\ B[q] < C[q])
  BY DEF Before
<1>3. la \in Nat /\ lb \in Nat /\ lc \in Nat
  BY DEF IsText
<1>4. CASE m <= q
  <2>1. m \in 1 .. lc /\ \A j \in 1 .. m - 1 : A[j] = C[j]
    <3>1. m \in 1 .. lc /\ \A j \in 1 .. m - 1 : j \in 1 .. q - 1
      BY <1>3, <1>4
    <3> QED
      BY <1>1, <1>2, <3>1
  <2>2. ASSUME m <= la PROVE A[m] < C[m]
    <3>1. A[m] \in Int /\ B[m] \in Int /\ A[m] < B[m] /\ C[m] \in Int
      BY <1>1, <1>3, <2>1, <2>2 DEF IsText
    <3>2. CASE m < q
      <4>1. m \in 1 .. q - 1
        BY <1>3, <3>2
      <4> QED
        BY <1>2, <3>1, <4>1
    <3>3. CASE m = q
      <4>1. B[m] < C[m]
        BY <1>2, <1>3, <3>3
      <4> QED
        BY <3>1, <4>1
    <3> QED
      BY <1>3, <1>4, <3>2, <3>3
  <2> QED
    BY <1>1, <1>3, <2>1, <2>2 DEF Before
<1>5. CASE q < m
  <2>1. q <= la /\ q <= lb /\ q \in 1 .. m - 1 /\ q \in 1 .. lb /\ q \in 1 .. la
    BY <1>1, <1>3, <1>5
  <2>2. \A j \in 1 .. q - 1 : A[j] = C[j]
    <3>1. \A j \in 1 .. q - 1 : j \in 1 .. m - 1
      BY <1>3, <2>1
    <3> QED
      BY <1>1, <1>2, <3>1
  <2>3. A[q] < C[q]
    BY <1>1, <1>2, <2>1, <1>3
  <2> QED
    BY <2>1, <2>2, <2>3, <1>3 DEF Before
<1> QED
  BY <1>3, <1>4, <1>5

(* string_compare answers 2 when the first string comes before the second,  *)
(* 1 when the second does, and 0 when they are the same.                    *)
LEMMA CompareTells ==
  ASSUME NEW a, NEW b, NEW A, NEW B, NEW la, NEW lb,
         A = make_lower(a), B = make_lower(b), la = string_length(a), lb = string_length(b),
         IsText(A, la), IsText(B, lb)
  PROVE  \/ string_compare(a, b) = 2 /\ Before(A, la, B, lb)
         \/ string_compare(a, b) = 1 /\ Before(B, lb, A, la)
         \/ string_compare(a, b) = 0 /\ Same(A, la, B, lb)
<1> DEFINE D == {k \in 1 .. Min({la, lb}) : A[k] # B[k]}
<1>1. string_compare(a, b) =
        CASE D # {} -> IF A[Min(D)] > B[Min(D)] THEN 1 ELSE 2
          [] D = {} /\ la > lb -> 1
          [] D = {} /\ la < lb -> 2
          [] OTHER -> 0
  BY DEF string_compare
<1>2. la \in Nat /\ lb \in Nat
  BY DEF IsText
<1>3. PICK l \in Nat : l = Min({la, lb}) /\ l <= la /\ l <= lb /\ (l = la \/ l = lb)
  <2>1. {la, lb} \in SUBSET Nat /\ {la, lb} # {}
    BY <1>2
  <2>2. Min({la, lb}) \in {la, lb} /\ \A y \in {la, lb} : Min({la, lb}) <= y
    BY <2>1, MinOfNat
  <2> QED
    BY <1>2, <2>2
<1>4. D \in SUBSET Nat /\ D = {k \in 1 .. l : A[k] # B[k]}
  BY <1>3
<1>5. CASE D # {}
  <2>1. Min(D) \in D /\ \A y \in D : Min(D) <= y
    <3> HIDE DEF D
    <3> QED
      BY <1>4, <1>5, MinOfNat
  <2>2. PICK m \in 1 .. l : m = Min(D) /\ A[m] # B[m] /\ \A y \in D : m <= y
    BY <1>4, <2>1
  <2>3. m \in 1 .. la /\ m \in 1 .. lb /\ m <= la + 1 /\ m <= lb + 1 /\ m <= la /\ m <= lb
    BY <1>2, <1>3
  <2>4. \A j \in 1 .. m - 1 : A[j] = B[j] /\ B[j] = A[j]
    BY <1>4, <2>2
  <2>5. string_compare(a, b) = IF A[m] > B[m] THEN 1 ELSE 2
    <3> HIDE DEF D
    <3> QED
      BY <1>1, <1>5, <2>2
  <2>6. A[m] \in Int /\ B[m] \in Int
    BY <2>3 DEF IsText
  <2> HIDE DEF D
  <2>7. CASE A[m] > B[m]
    <3>1. B[m] < A[m]
      BY <2>6, <2>7
    <3>2. Before(B, lb, A, la)
      BY <2>3, <2>4, <3>1 DEF Before
    <3> QED
      BY <2>5, <2>7, <3>2
  <2>8. CASE ~(A[m] > B[m])
    <3>1. A[m] < B[m]
      BY <2>2, <2>6, <2>8
    <3>2. Before(A, la, B, lb)
      BY <2>3, <2>4, <3>1 DEF Before
    <3> QED
      BY <2>5, <2>8, <3>2
  <2> QED
    BY <2>7, <2>8
<1>6. CASE D = {}
  <2>1. \A j \in 1 .. l : A[j] = B[j] /\ B[j] = A[j]
    BY <1>4, <1>6
  <2> HIDE DEF D
  <2>2. CASE la > lb
    <3>1. l = lb /\ lb + 1 \in 1 .. la /\ lb + 1 <= lb + 1 /\ (lb + 1) - 1 = lb
      BY <1>2, <1>3, <2>2
    <3>2. Before(B, lb, A, la)
      BY <2>1, <3>1 DEF Before
    <3>3. ~(la < lb)
      BY <1>2, <2>2
    <3> QED
      BY <1>1, <1>6, <2>2, <3>2, <3>3
  <2>3. CASE la < lb
    <3>1. l = la /\ la + 1 \in 1 .. lb /\ la + 1 <= la + 1 /\ (la + 1) - 1 = la
      BY <1>2, <1>3, <2>3
    <3>2. Before(A, la, B, lb)
      BY <2>1, <3>1 DEF Before
    <3>3. ~(la > lb)
      BY <1>2, <2>3
    <3> QED
      BY <1>1, <1>6, <2>3, <3>2, <3>3
  <2>4. CASE la = lb
    <3>1. Same(A, la, B, lb)
      BY <1>3, <2>1, <2>4 DEF Same
    <3>2. ~(la > lb) /\ ~(la < lb)
      BY <1>2, <2>4
    <3> QED
      BY <1>1, <1>6, <3>1, <3>2
  <2> QED
    BY <1>2, <2>2, <2>3, <2>4
<1> QED
  BY <1>5, <1>6

LEMMA CompareIs ==
  ASSUME NEW a, NEW b, IsString(a), IsString(b), NEW A, NEW B, NEW la, NEW lb,
         A = make_lower(a), B = make_lower(b), la = string_length(a), lb = string_length(b)
  PROVE  /\ IsText(A, la) /\ IsText(B, lb)
         /\ string_compare(a, b) = 2 <=> Before(A, la, B, lb)
         /\ string_compare(a, b) = 1 <=> Before(B, lb, A, la)
         /\ string_compare(a, b) = 0 <=> A = B
<1>1. IsLower(A, la) /\ IsLower(B, lb)
  BY LowerIs
<1>2. /\ A \in Seq(Int) /\ la \in Nat /\ Len(A) = la + 1 /\ A[la + 1] = 0
      /\ B \in Seq(Int) /\ lb \in Nat /\ Len(B) = lb + 1 /\ B[lb + 1] = 0
  BY <1>1 DEF IsLower
<1>3. IsText(A, la) /\ IsText(B, lb)
  BY <1>2, ElementOfSeq DEF IsText
<1>4. Same(A, la, B, lb) <=> A = B
  <2>1. ASSUME Same(A, la, B, lb) PROVE A = B
    <3>1. la = lb /\ \A j \in 1 .. la : A[j] = B[j]
      BY <2>1 DEF Same
    <3>2. \A j \in 1 .. la + 1 : A[j] = B[j]
      <4> TAKE j \in 1 .. la + 1
      <4>1. j \in 1 .. la \/ j = la + 1
        BY <1>2
      <4> QED
        BY <1>2, <3>1, <4>1
    <3> QED
      BY <1>2, <3>1, <3>2, SeqEqual
  <2>2. ASSUME A = B PROVE Same(A, la, B, lb)
    <3>1. la = lb
      BY <1>2, <2>2
    <3> QED
      BY <2>2, <3>1 DEF Same
  <2> QED
    BY <2>1, <2>2
<1>5. \/ string_compare(a, b) = 2 /\ Before(A, la, B, lb)
      \/ string_compare(a, b) = 1 /\ Before(B, lb, A, la)
      \/ string_compare(a, b) = 0 /\ Same(A, la, B, lb)
  BY <1>3, CompareTells
<1>6. /\ Before(A, la, B, lb) => ~Before(B, lb, A, la) /\ ~Same(A, la, B, lb)
      /\ Before(B, lb, A, la) => ~Before(A, la, B, lb) /\ ~Same(B, lb, A, la)
  BY <1>3, NotBothBefore
<1>7. Same(A, la, B, lb) => Same(B, lb, A, la)
  BY DEF Same
<1> QED
  BY <1>3, <1>4, <1>5, <1>6, <1>7

(* string_compare on any three strings with a terminator.                   *)
LEMMA CompareIsOrder ==
  ASSUME NEW a, NEW b, NEW c, IsString(a), IsString(b), IsString(c)
  PROVE  Ordered(a, b, c)
<1>1. PICK A, la, B, lb, C, lc :
        /\ A = make_lower(a) /\ la = string_length(a) /\ B = make_lower(b) /\ lb = string_length(b)
        /\ C = make_lower(c) /\ lc = string_length(c)
  OBVIOUS
<1>2. /\ IsText(A, la) /\ IsText(B, lb)
      /\ string_compare(a, b) = 2 <=> Before(A, la, B, lb)
      /\ string_compare(a, b) = 1 <=> Before(B, lb, A, la)
      /\ string_compare(a, b) = 0 <=> A = B
  BY <1>1, CompareIs
<1>3. string_compare(b, a) = 2 <=> Before(B, lb, A, la)
  BY <1>1, CompareIs
<1>4. IsText(C, lc) /\ (string_compare(b, c) = 2 <=> Before(B, lb, C, lc))
  BY <1>1, CompareIs
<1>5. string_compare(a, c) = 2 <=> Before(A, la, C, lc)
  BY <1>1, CompareIs
<1>6. Before(A, la, B, lb) /\ Before(B, lb, C, lc) => Before(A, la, C, lc)
  BY <1>2, <1>4, BeforeIsTransitive
<1> QED
  BY <1>1, <1>2, <1>3, <1>4, <1>5, <1>6 DEF Ordered
-----------------------------------------------------------------------------
(* The theorems.                                                            *)

(* Requests are positive, and texts are made of characters.                 *)
RequestType == request \in Nat \ {0}

LEMMA RequestTyped == BothSpec => []RequestType
<1>1. BothInit => RequestType
  BY DEF BothInit, Init, RequestType
<1>2. RequestType /\ [NextRequest \/ NextText]_<<request, text>> => RequestType'
  BY DEF NextRequest, Next, NextText, RequestType
<1> QED
  BY <1>1, <1>2, PTL DEF BothSpec

(* ClassSound, for all values of MaxSize: no request size away from the     *)
(* borders is misfiled (tc_malloc against tc_free).                         *)
THEOREM ClassesSound == BothSpec => []ClassSound
<1>1. RequestType => ClassSound
  <2> SUFFICES ASSUME request \in Nat, request <= 32768, request \notin Borders
               PROVE  ClassRight(request)
    BY DEF ClassSound, Small, MaxSmall, RequestType
  <2>1. \/ 1 <= request /\ request <= 56
        \/ 65 <= request /\ request <= 1984
        \/ 2049 <= request /\ request <= 32768
    BY DEF Borders
  <2> QED
    BY <2>1, List1Right, List2Right, List3Right
<1> QED
  BY <1>1, RequestTyped, PTL

(* SpanNotFree: 100 pages hold two objects of any small size, so that a     *)
(* span for small objects is never taken for a free one by tc_free.         *)
THEOREM SpansHoldTwo == BothSpec => []SpanNotFree
<1>1. RequestType => SpanNotFree
  <2> SUFFICES ASSUME request \in Nat, 1 <= request, request <= 32768
               PROVE  Objects(ObjSize(request)) >= 2
    BY DEF SpanNotFree, Small, MaxSmall, RequestType
  <2>1. ObjSize(request) \in Nat /\ 1 <= ObjSize(request) /\ ObjSize(request) <= 33024
    <3>1. CASE request < 64
      BY <3>1, RoundUp8 DEF ObjSize, ListOf, Unit
    <3>2. CASE request >= 64 /\ request < 2048
      BY <3>2, RoundUp64 DEF ObjSize, ListOf, Unit
    <3>3. CASE request >= 2048
      BY <3>3, RoundUp256 DEF ObjSize, ListOf, Unit
    <3> QED
      BY <3>1, <3>2, <3>3
  <2>2. ASSUME NEW m \in Nat, 1 <= m, m <= 33024
        PROVE  (100 * 4096) \div m >= 2
    BY <2>2, Z3
  <2> QED
    BY <2>1, <2>2 DEF Objects, PAGE_SIZE
<1> QED
  BY <1>1, RequestTyped, PTL

(* A large object fits into its pages when its size is a whole number of    *)
(* them, and only then: every other request is given pages that end before  *)
(* it does (tc_malloc lines 1110-1117).                                    *)
THEOREM OnlyWholePagesFit ==
  BothSpec => [](LargeFits <=> Small \/ request % PAGE_SIZE = 0)
<1>1. ASSUME NEW n \in Nat
      PROVE  n <= (n \div 4096) * 4096 <=> n % 4096 = 0
  BY <1>1, Z3
<1>2. RequestType => (LargeFits <=> Small \/ request % PAGE_SIZE = 0)
  BY <1>1 DEF RequestType, LargeFits, LargePages, PAGE_SIZE
<1> QED
  BY <1>2, RequestTyped, PTL

TextType == text \in Seq(Int)

LEMMA TextTyped == BothSpec => []TextType
<1>1. BothInit => TextType
  BY EmptySeq DEF BothInit, TextType
<1>2. TextType /\ [NextRequest \/ NextText]_<<request, text>> => TextType'
  <2> SUFFICES ASSUME TextType, [NextRequest \/ NextText]_<<request, text>> PROVE TextType'
    OBVIOUS
  <2>1. CASE NextText
    <3>1. PICK c \in Int : text' = Append(text, c)
      BY <2>1, CharsAssumption DEF NextText
    <3> QED
      BY <3>1, AppendProperties DEF TextType
  <2>2. CASE text' = text
    BY <2>2 DEF TextType
  <2> QED
    BY <2>1, <2>2 DEF NextRequest
<1> QED
  BY <1>1, <1>2, PTL DEF BothSpec

(* A piece of a text with a 0 behind it is a string.                        *)
LEMMA PieceIsString ==
  ASSUME NEW p \in Seq(Int)
  PROVE  IsString(Append(p, 0))
<1>1. 0 \in Int
  OBVIOUS
<1>2. PICK q : q = Append(p, 0)
  OBVIOUS
<1>3. q \in Seq(Int) /\ Len(q) = Len(p) + 1 /\ q[Len(p) + 1] = 0 /\ Len(p) \in Nat
  BY <1>1, <1>2, AppendProperties, LenProperties
<1>4. DOMAIN q = 1 .. Len(p) + 1
  BY <1>3, LenProperties
<1>5. Len(p) + 1 \in DOMAIN q /\ q[Len(p) + 1] \in Terminators
  BY <1>3, <1>4 DEF Terminators
<1>6. IsString(q)
  BY <1>3, <1>5 DEF IsString
<1> QED
  BY <1>2, <1>6

(* TokensRight, for every text of any characters and any length.            *)
THEOREM TokensAlwaysRight == BothSpec => []TokensRight
<1>1. TextType => TokensRight
  BY PieceIsString, TokensAreRuns DEF TextType, TokensRight
<1> QED
  BY <1>1, TextTyped, PTL

(* CompareOrders, for every text of any characters and any length: the      *)
(* order of the terms in the index is one.                                  *)
THEOREM CompareAlwaysOrders == BothSpec => []CompareOrders
<1>1. TextType => CompareOrders
  <2> SUFFICES ASSUME text \in Seq(Int), NEW j \in 0 .. Len(text), NEW k \in j .. Len(text)
               PROVE  Ordered(Append(SubSeq(text, 1, j), 0), Append(SubSeq(text, j + 1, k), 0),
                              Append(SubSeq(text, k + 1, Len(text)), 0))
    BY DEF TextType, CompareOrders
  <2>1. Len(text) \in Nat /\ \A i \in 1 .. Len(text) : text[i] \in Int
    BY LenProperties, ElementOfSeq
  <2>2. ASSUME NEW m \in 1 .. Len(text) + 1, NEW n \in 0 .. Len(text)
        PROVE  IsString(Append(SubSeq(text, m, n), 0))
    <3>1. m \in Int /\ n \in Int /\ \A i \in m .. n : text[i] \in Int
      BY <2>1
    <3>2. SubSeq(text, m, n) \in Seq(Int)
      BY <3>1, SubSeqProperties
    <3> QED
      BY <3>2, PieceIsString
  <2>3. /\ 1 \in 1 .. Len(text) + 1 /\ j \in 0 .. Len(text)
        /\ j + 1 \in 1 .. Len(text) + 1 /\ k \in 0 .. Len(text)
        /\ k + 1 \in 1 .. Len(text) + 1 /\ Len(text) \in 0 .. Len(text)
    BY <2>1
  <2> QED
    BY <2>2, <2>3, CompareIsOrder
<1> QED
  BY <1>1, TextTyped, PTL
=============================================================================
