----------------------------- MODULE StringText -----------------------------
(***************************************************************************)
(* The functions of VersionText character by character, as the code reads  *)
(* and writes strings, and TextOf, which cuts a string into the pieces     *)
(* that VersionText knows of it.                                           *)
(***************************************************************************)
EXTENDS VersionText, Precedence, Numbers

(* The strings between the characters of C in s.                           *)
Cut(s, C) ==
  LET ends   == {0, Len(s) + 1} \cup {i \in DOMAIN s : s[i] \in C}
      end(k) == CHOOSE e \in ends : Cardinality({d \in ends : d < e}) = k - 1
  IN [k \in 1..(Cardinality(ends) - 1) |-> SubSeq(s, end(k) + 1, end(k + 1) - 1)]

DropEmptyEnd(cuts) == IF Last(cuts) = <<>> THEN Front(cuts) ELSE cuts

(* Slip: the loop does not stop at the end of s.                           *)
SlipKeepsEnd(s) == Cut(s, {Dot, Dash})

SplitString(s) == DropEmptyEnd(Cut(s, {Dot, Dash}))

(* std::stoi and std::stoll read the digits that a string begins with; no  *)
(* string here begins with white space, and only the parts of "~s" may     *)
(* begin with a sign.                                                      *)
StoiFails(s)  == FromCharsFails(s)
Stoi(s)       == FromChars(s)

DottedString(m, n, p) ==
  NumToString(m) \o <<Dot>> \o NumToString(n) \o <<Dot>> \o NumToString(p)

-----------------------------------------------------------------------------
(* TextOf(s).                                                              *)

(* The rank of a tag is that of its first character, counted from the      *)
(* digits.                                                                 *)
Rank(c) == IF c < 0 THEN c + 2 ELSE c - Base + 1

(* The zeros in front of a number; the last digit is none of them.         *)
Zeros(s) == Cardinality({k \in 1..(Len(s) - 1) : \A j \in 1..k : s[j] = 0})

PieceOf(s) ==
  IF s = <<>> THEN EmptyPiece
  ELSE IF s[1] \in Digit
  THEN [kind |-> "num", val |-> Value(Leading(s)), zeros |-> Zeros(Leading(s))]
  ELSE Word(Rank(s[1]))

PiecesOf(s) ==
  LET cuts == Cut(s, {Dot, Dash})
  IN [i \in DOMAIN cuts |-> PieceOf(cuts[i])]

TextOf(s) ==
  [nums |-> PiecesOf(Before(s, {Dash})),
   pre  |-> IF Found(s, {Dash}) THEN PiecesOf(After(s, {Dash})) ELSE <<>>]

(* The strings that VersionText speaks of: every piece is made of digits   *)
(* or is a tag of one character, and the pieces of a pre-release are       *)
(* separated by dots.                                                      *)
HasText(s) ==
  /\ \A i \in DOMAIN Cut(s, {Dot, Dash}) :
       LET p == Cut(s, {Dot, Dash})[i] IN OnlyDigits(p) \/ Len(p) = 1
  /\ ~Found(After(s, {Dash}), {Dash})

(* Its '-' does not stand between a dot, or the beginning, and a digit,    *)
(* where std::stoi would take it for a sign.                               *)
NoSign(s) ==
  Found(s, {Dash}) /\ Last(Cut(Before(s, {Dash}), {Dot})) = <<>> =>
    After(s, {Dash}) = <<>> \/ After(s, {Dash})[1] \notin Digit

-----------------------------------------------------------------------------
(* compareSemVer.                                                          *)

IsDigitFirst(s) == s # <<>> /\ s[1] \in Digit

(* Slip: parts are compared as strings, numbers or not.                    *)
SlipTextPartLess(a, b) == TagCompare(a, b) = "less"

(* Slip: only parts made of nothing but digits are compared as numbers.    *)
SlipWholeNumbers(a, b) ==
  IF IsDigitFirst(a) /\ IsDigitFirst(b) /\ OnlyDigits(a \o b)
  THEN Stoi(a) < Stoi(b) ELSE TagCompare(a, b) = "less"

StringPartLess(a, b) ==
  IF IsDigitFirst(a) /\ IsDigitFirst(b) THEN Stoi(a) < Stoi(b) ELSE TagCompare(a, b) = "less"

SameStringPart(a, b) ==
  IF IsDigitFirst(a) /\ IsDigitFirst(b) THEN Stoi(a) = Stoi(b) ELSE a = b

(* Slip: the shorter of two lists of parts is the greater one.             *)
SlipLongerFirst(a, b) ==
  LET p == SplitString(a)
      q == SplitString(b)
      same(i) == \A j \in 1..i : SameStringPart(p[j], q[j])
  IN \/ \E i \in DOMAIN p : i \in DOMAIN q /\ same(i - 1) /\ StringPartLess(p[i], q[i])
     \/ Len(p) > Len(q) /\ same(Len(q))

CompareStrings(a, b) ==
  LET p == SplitString(a)
      q == SplitString(b)
      same(i) == \A j \in 1..i : SameStringPart(p[j], q[j])
  IN \/ \E i \in DOMAIN p : i \in DOMAIN q /\ same(i - 1) /\ StringPartLess(p[i], q[i])
     \/ Len(p) < Len(q) /\ same(Len(p))

CompareStringsThrows(a, b) ==
  LET p == SplitString(a)
      q == SplitString(b)
  IN \E i \in DOMAIN p : /\ i \in DOMAIN q
                         /\ \A j \in 1..(i - 1) : SameStringPart(p[j], q[j])
                         /\ IsDigitFirst(p[i]) /\ IsDigitFirst(q[i])
                         /\ StoiFails(p[i]) \/ StoiFails(q[i])

-----------------------------------------------------------------------------
(* coerce: the digits that the three groups of the regular expression      *)
(* match, <<>> for a group that does not.                                  *)
Groups(s) ==
  LET from == Skip(s, Find(s, Digit) - 1)
      group(r) == IF r # <<>> /\ r[1] = Dot THEN Leading(Tail(r)) ELSE <<>>
      major == Leading(from)
      minor == group(Skip(from, Len(major)))
      patch == IF minor = <<>> THEN <<>> ELSE group(Skip(from, Len(major) + 1 + Len(minor)))
  IN <<major, minor, patch>>

CoerceStringThrows(s) == \E i \in 1..3 : Value(Groups(s)[i]) > LLMax

(* A group that does not match is "0", and so is the Value of <<>>.        *)
CoerceString(s) == DottedString(Value(Groups(s)[1]), Value(Groups(s)[2]), Value(Groups(s)[3]))

CanCoerce(s) == Found(s, Digit)

-----------------------------------------------------------------------------
(* incrementVersion.                                                       *)

Numbers3(s) ==
  LET parts == Cut(Before(s, {Dash}), {Dot})
  IN [i \in 1..3 |-> IF i <= Len(parts) THEN parts[i] ELSE <<0>>]

CanIncrement(s) == \A i \in 1..3 : ~StoiFails(Numbers3(s)[i])

(* Slip: the patch number of a release is not incremented.                 *)
SlipStringSame(s) ==
  LET n(i) == Stoi(Numbers3(s)[i])
  IN IF After(s, {Dash}) # <<>>
     THEN DottedString(n(1), n(2), n(3)) \o <<Dash>> \o After(s, {Dash}) \o <<Dot, 0>>
     ELSE DottedString(n(1), n(2), n(3))

(* Slip: a release is followed by the next minor release.                  *)
SlipStringNextMinor(s) ==
  LET n(i) == Stoi(Numbers3(s)[i])
  IN IF After(s, {Dash}) # <<>>
     THEN DottedString(n(1), n(2), n(3)) \o <<Dash>> \o After(s, {Dash}) \o <<Dot, 0>>
     ELSE DottedString(n(1), Plus1(n(2)), 0)

(* Slip: a pre-release is followed by one with a fourth number.            *)
SlipStringFourthNumber(s) ==
  LET n(i) == Stoi(Numbers3(s)[i])
  IN IF After(s, {Dash}) # <<>>
     THEN DottedString(n(1), n(2), n(3)) \o <<Dot, 0, Dash>> \o After(s, {Dash})
     ELSE DottedString(n(1), n(2), Plus1(n(3)))

IncrementString(s) ==
  LET n(i) == Stoi(Numbers3(s)[i])
  IN IF After(s, {Dash}) # <<>>
     THEN DottedString(n(1), n(2), n(3)) \o <<Dash>> \o After(s, {Dash}) \o <<Dot, 0>>
     ELSE DottedString(n(1), n(2), Plus1(n(3)))

-----------------------------------------------------------------------------
(* decrementVersion.                                                       *)

WordChar == {Dot, Dash} \cup Digit \cup (LetterA..LetterX)

CanDecrement(s) ==
  LET parts == Cut(Before(s, {Dash}), {Dot})
  IN /\ Len(parts) <= 3 /\ \A i \in DOMAIN parts : parts[i] # <<>> /\ OnlyDigits(parts[i])
     /\ Found(s, {Dash}) => After(s, {Dash}) # <<>> /\ Chars(After(s, {Dash})) \subseteq WordChar

DecrementStringThrows(s) == \E i \in 1..3 : StoiFails(Numbers3(s)[i])

(* Slip: an alpha or a beta is written with the ints that were read.       *)
SlipWritesInts(s) ==
  LET n(i) == Stoi(Numbers3(s)[i])
  IN IF Chars(After(s, {Dash})) \cap {LetterA, LetterB} # {}
     THEN DottedString(n(1), n(2), n(3)) \o <<Dash, LetterA, Dot, 0>>
     ELSE IF n(1) > 0 THEN DottedString(Plus1(n(1)), 0, 0)
     ELSE IF n(2) > 0 THEN DottedString(0, Plus1(n(2)), 0)
     ELSE DottedString(0, 0, Plus1(n(3)))

DecrementString(s) ==
  LET parts    == Cut(Before(s, {Dash}), {Dot})
      match(i) == IF i <= Len(parts) THEN parts[i] ELSE <<>>
      n(i)     == Stoi(Numbers3(s)[i])
  IN IF Chars(After(s, {Dash})) \cap {LetterA, LetterB} # {}
     THEN match(1) \o <<Dot>> \o match(2) \o <<Dot>> \o match(3) \o <<Dash, LetterA, Dot, 0>>
     ELSE IF n(1) > 0 THEN DottedString(Plus1(n(1)), 0, 0)
     ELSE IF n(2) > 0 THEN DottedString(0, Plus1(n(2)), 0)
     ELSE DottedString(0, 0, Plus1(n(3)))

-----------------------------------------------------------------------------
(* The upper bounds of "^s" and of "~s", <<>> where there is none.         *)

CaretStringThrows(s) == \E i \in 1..3 : Value(Groups(s)[i]) > IntMax

CaretString(s) ==
  LET n(i) == Value(Groups(s)[i])
  IN IF ~CanCoerce(s) THEN <<>>
     ELSE IF n(1) > 0 THEN DottedString(Plus1(n(1)), 0, 0)
     ELSE IF n(2) > 0 THEN DottedString(0, Plus1(n(2)), 0)
     ELSE DottedString(0, 0, Plus1(n(3)))

(* Slip: the parts of s are those that split() returns.                    *)
SlipSplitParts(s) == SplitString(s)

(* The parts are those of s between its dots, not of its coerced form.     *)
TildeParts(s) == DropEmptyEnd(Cut(s, {Dot}))

(* A part that begins with a '-' may be a negative number to std::stoi.    *)
HasSign(p)     == p # <<>> /\ p[1] = Dash
SignedFails(p) ==
  IF HasSign(p) THEN Leading(Tail(p)) = <<>> \/ Value(Leading(Tail(p))) > IntMax + 1
  ELSE StoiFails(p)
Signed(p)      == IF HasSign(p) THEN -Value(Leading(Tail(p))) ELSE Stoi(p)

TildeStringThrows(s) ==
  /\ CanCoerce(s)
  /\ \/ CoerceStringThrows(s)
     \/ \E i \in DOMAIN TildeParts(s) : i <= 2 /\ SignedFails(TildeParts(s)[i])

TildeString(s) ==
  IF ~CanCoerce(s) THEN <<>>
  ELSE DottedString(Signed(TildeParts(s)[1]), Plus1(Signed(TildeParts(s)[2])), 0)
=============================================================================
