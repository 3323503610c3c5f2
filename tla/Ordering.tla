------------------------------ MODULE Ordering ------------------------------
(***************************************************************************)
(* A caller that walks along a list of versions and compares each with the *)
(* next by operator<=>.                                                    *)
(***************************************************************************)
EXTENDS Precedence, Numbers

CONSTANT Versions   \* the versions that the list is made of

ASSUME VersionsAssumption == Versions \subseteq Version

VARIABLES first, second   \* two neighbours of the list

vars == <<first, second>>

Init == first \in Versions /\ second \in Versions

Advance ==
  /\ first' = second
  /\ second' \in Versions

Next == Advance

Spec == Init /\ [][Next]_vars

-----------------------------------------------------------------------------
(* Correctness.                                                            *)

(* The comparison is one of the numbers' values, not of their texts, so    *)
(* that 1.9.0 comes before 1.10.0: the versions in order of major, minor   *)
(* and patch number, and before a release its pre-releases.                *)
Numeric(v) == <<Value(v.major), Value(v.minor), Value(v.patch)>>

NumbersBefore(s, t) ==
  \E i \in 1..3 : s[i] < t[i] /\ \A j \in 1..(i - 1) : s[j] = t[j]

NumbersDecide ==
  HasNumbers(first) /\ HasNumbers(second) =>
  /\ NumbersBefore(Numeric(first), Numeric(second)) => Compare(first, second) = "less"
  /\ Compare(first, second) = "less" /\ Numeric(first) = Numeric(second) => first.pre # <<>>

(* Swapping the operands of operator<=> swaps the answer.                  *)
Antisymmetric == Compare(second, first) = Swapped[Compare(first, second)]

(* Build metadata are ignored, and nothing else is.                        *)
EqualButForBuild ==
  Compare(first, second) = "equal" <=>
    [first EXCEPT !.build = <<>>] = [second EXCEPT !.build = <<>>]

(* operator<=> orders every three versions in a row: what is before a      *)
(* version is before all that come after it, and equal versions compare    *)
(* alike with a third.                                                     *)
Transitive ==
  [][/\ Less(first, second) /\ Less(second, second') => Less(first, second')
     /\ Compare(first, second) = "equal" => Compare(first, second') = Compare(second, second')]_vars

-----------------------------------------------------------------------------
(* The standard that operator<=> cites orders a number below every other   *)
(* identifier, see the README: a pre-release of digits comes first.        *)
NumericPreReleaseIsLower ==
  /\ [first EXCEPT !.pre = <<>>] = [second EXCEPT !.pre = <<>>]
  /\ first.pre # <<>> /\ second.pre # <<>>
  /\ OnlyDigits(first.pre) /\ Chars(second.pre) \subseteq {LetterA, LetterV}
  => Less(first, second)
=============================================================================
