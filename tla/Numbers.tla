------------------------------ MODULE Numbers ------------------------------
(***************************************************************************)
(* Numbers as strings of digits and as ints: std::from_chars on an int and *)
(* std::to_string of one.                                                  *)
(***************************************************************************)
EXTENDS VersionString, MachineInts, SequencesExt

(* from_chars reads the digits that s begins with, and fails when there    *)
(* are none or when no int holds their value.  No s here begins with '-'.  *)
Leading(s) ==
  SubSeq(s, 1, CHOOSE n \in 0..Len(s) : /\ OnlyDigits(SubSeq(s, 1, n))
                                        /\ n < Len(s) => s[n + 1] \notin Digit)

FromCharsFails(s) == Leading(s) = <<>> \/ Value(Leading(s)) > IntMax
FromChars(s)      == Value(Leading(s))

(* to_string: the digits of n without leading zeros, behind a '-' if n is  *)
(* negative.                                                               *)
Digits(n) ==
  LET of[m \in 0..n] ==
        IF m < Base THEN <<m>> ELSE Append(of[m \div Base], m % Base)
  IN of[n]

NumToString(n) == IF n < 0 THEN <<Dash>> \o Digits(-n) ELSE Digits(n)
=============================================================================
