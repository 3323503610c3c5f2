--------------------------- MODULE VersionString ---------------------------
(***************************************************************************)
(* Version strings character by character, and the struct that parse()     *)
(* makes of one.  A character is a number in the order of ASCII.  There is *)
(* one for all white space, and LetterA stands for the word "alpha",       *)
(* LetterB for "beta", where a word is meant.                              *)
(***************************************************************************)
EXTENDS Integers, Sequences

CONSTANT Base   \* the number of digits: 10 in the code

ASSUME BaseAssumption == Base \in Nat /\ Base >= 2

Space    == -5
Asterisk == -4
Plus     == -3
Dash     == -2
Dot      == -1
Digit    == 0..(Base - 1)
Lesser   == Base
Equal    == Base + 1
Greater  == Base + 2
Caret    == Base + 3
LetterA  == Base + 4
LetterB  == Base + 5
LetterV  == Base + 6
LetterX  == Base + 7
Bar      == Base + 8
Tilde    == Base + 9

Char   == Space..Tilde
String == Seq(Char)

(* The characters of s.                                                    *)
Chars(s) == {s[i] : i \in DOMAIN s}

OnlyDigits(s) == Chars(s) \subseteq Digit

(* A number has no leading zero.                                           *)
IsNumber(s) == s # <<>> /\ OnlyDigits(s) /\ (Len(s) > 1 => s[1] # 0)

(* The number that a string of digits stands for.                          *)
Value(s) ==
  LET upto[n \in 0..Len(s)] == IF n = 0 THEN 0 ELSE upto[n - 1] * Base + s[n]
  IN upto[Len(s)]

(* s without the first n characters.                                       *)
Skip(s, n) == SubSeq(s, n + 1, Len(s))

(* find and find_first_of: where the first character of C stands in s, or  *)
(* one past the end of s.                                                  *)
Find(s, C) ==
  LET at == {i \in DOMAIN s : s[i] \in C}
  IN IF at = {} THEN Len(s) + 1 ELSE CHOOSE i \in at : \A j \in at : i <= j

Found(s, C)  == Find(s, C) <= Len(s)
Before(s, C) == SubSeq(s, 1, Find(s, C) - 1)
After(s, C)  == Skip(s, Find(s, C))

(* s without white space at its ends.                                      *)
Trim(s) ==
  LET ink == {i \in DOMAIN s : s[i] # Space}
  IN IF ink = {} THEN <<>>
     ELSE SubSeq(s, CHOOSE i \in ink : \A j \in ink : i <= j,
                    CHOOSE i \in ink : \A j \in ink : j <= i)

(* The struct.  parse() accepts no empty pre-release and no empty build,   *)
(* and <<>> stands for one that is not there.  An optional that holds an   *)
(* empty string, which only a struct made by hand can have, is not told    *)
(* from one that holds nothing.                                            *)
Version == [major : String, minor : String, patch : String, pre : String, build : String]

Release(m, n, p) == [major |-> m, minor |-> n, patch |-> p, pre |-> <<>>, build |-> <<>>]

NoVersion == Release(<<>>, <<>>, <<>>)

(* The three numbers are as parse() makes them; a struct made by hand may  *)
(* hold anything.                                                          *)
HasNumbers(v) == IsNumber(v.major) /\ IsNumber(v.minor) /\ IsNumber(v.patch)

(* operator std::string.                                                   *)
ToText(v) ==
  v.major \o <<Dot>> \o v.minor \o <<Dot>> \o v.patch
    \o (IF v.pre = <<>> THEN <<>> ELSE <<Dash>> \o v.pre)
    \o (IF v.build = <<>> THEN <<>> ELSE <<Plus>> \o v.build)
=============================================================================
