----------------------------- MODULE Precedence -----------------------------
(***************************************************************************)
(* operator<=> on versions, character by character as the code compares    *)
(* them.                                                                   *)
(***************************************************************************)
EXTENDS VersionString

(* Where two strings first differ.                                         *)
DiffersAt(a, b, i) ==
  /\ i \in DOMAIN a /\ i \in DOMAIN b
  /\ a[i] # b[i]
  /\ \A j \in 1..(i - 1) : a[j] = b[j]

(* The loops over the characters of two strings.                           *)
LoopCompare(a, b) ==
  IF \E i \in DOMAIN a : DiffersAt(a, b, i) /\ a[i] > b[i] THEN "greater"
  ELSE IF \E i \in DOMAIN a : DiffersAt(a, b, i) /\ a[i] < b[i] THEN "less"
  ELSE "equal"

SizeCompare(a, b) ==
  IF Len(a) > Len(b) THEN "greater" ELSE IF Len(a) < Len(b) THEN "less" ELSE "equal"

(* Slip: numbers are compared like any other string.                       *)
SlipLexicographic(a, b) ==
  IF LoopCompare(a, b) # "equal" THEN LoopCompare(a, b) ELSE SizeCompare(a, b)

(* number_string_compare: the longer number is the greater one.            *)
NumberCompare(a, b) ==
  IF Len(a) # Len(b) THEN SizeCompare(a, b) ELSE LoopCompare(a, b)

(* Slip: the lengths are not compared.                                     *)
SlipCommonPart(a, b) == LoopCompare(a, b)

(* The comparison of two pre-releases that are not digits.                 *)
TagCompare(a, b) ==
  IF LoopCompare(a, b) # "equal" THEN LoopCompare(a, b) ELSE SizeCompare(a, b)

(* Slip: digits are told from other pre-releases on one side only.         *)
SlipOneSided(a, b) ==
  CASE a = b -> "equal"
    [] a = <<>> /\ b # <<>> -> "greater"
    [] a # <<>> /\ b = <<>> -> "less"
    [] OTHER -> IF OnlyDigits(a) THEN NumberCompare(a, b) ELSE TagCompare(a, b)

(* Slip: digits and other pre-releases are compared character by character. *)
SlipMixed(a, b) ==
  CASE a = b -> "equal"
    [] a = <<>> /\ b # <<>> -> "greater"
    [] a # <<>> /\ b = <<>> -> "less"
    [] OTHER -> IF OnlyDigits(a) /\ OnlyDigits(b) THEN NumberCompare(a, b) ELSE TagCompare(a, b)

(* The comparison of the pre-releases of versions with the same numbers.   *)
PreCompare(a, b) ==
  CASE a = b -> "equal"
    [] a = <<>> /\ b # <<>> -> "greater"
    [] a # <<>> /\ b = <<>> -> "less"
    [] OTHER ->
         IF OnlyDigits(a) /\ ~OnlyDigits(b) THEN "greater"
         ELSE IF ~OnlyDigits(a) /\ OnlyDigits(b) THEN "less"
         ELSE IF OnlyDigits(a) THEN NumberCompare(a, b)
         ELSE TagCompare(a, b)

Compare(v, w) ==
  IF v.major # w.major THEN NumberCompare(v.major, w.major)
  ELSE IF v.minor # w.minor THEN NumberCompare(v.minor, w.minor)
  ELSE IF v.patch # w.patch THEN NumberCompare(v.patch, w.patch)
  ELSE PreCompare(v.pre, w.pre)

Less(v, w) == Compare(v, w) = "less"

(* What is to be answered when the operands are swapped.                   *)
Swapped == [less |-> "greater", equal |-> "equal", greater |-> "less"]
=============================================================================
