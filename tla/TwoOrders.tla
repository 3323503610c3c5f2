----------------------------- MODULE TwoOrders -----------------------------
(***************************************************************************)
(* The list of Ordering, whose neighbours are also compared by             *)
(* compareSemVer, as minimum() does with the texts that they are written   *)
(* as.                                                                     *)
(***************************************************************************)
EXTENDS Ordering, StringText

(* std::stoi throws on a number above the largest int; SemVerLess says     *)
(* that the comparison is made and answers true.                           *)
SemVerThrows(v, w) == CompareStringsThrows(ToText(v), ToText(w))

SemVerLess(v, w) == ~SemVerThrows(v, w) /\ CompareStrings(ToText(v), ToText(w))

-----------------------------------------------------------------------------
(* Correctness.                                                            *)

(* Of two versions with numbers as parse() makes them: one has a number    *)
(* above the largest int where the two first differ, or before.            *)
NumberTooLarge(v, w) ==
  \E i \in 1..3 : /\ \A j \in 1..(i - 1) : Numeric(v)[j] = Numeric(w)[j]
                  /\ Numeric(v)[i] > IntMax \/ Numeric(w)[i] > IntMax

(* Where two versions with numbers as parse() makes them differ in one,    *)
(* compareSemVer, which converts the numbers, and operator<=>, which       *)
(* compares their texts, agree, whatever pre-releases and builds the two   *)
(* have; but compareSemVer throws just where it has to convert a number    *)
(* above the largest int.                                                  *)
OrdersAgreeOnNumbers ==
  HasNumbers(first) /\ HasNumbers(second) /\ Numeric(first) # Numeric(second) =>
    IF NumberTooLarge(first, second) THEN SemVerThrows(first, second)
    ELSE /\ ~SemVerThrows(first, second)
         /\ SemVerLess(first, second) <=> Less(first, second)

(* Where one of two versions with the same numbers is a pre-release, they  *)
(* disagree: compareSemVer puts the release first, also behind a build     *)
(* that has no separator in it, and throws where the numbers that the two  *)
(* have in common are too large.                                           *)
PlainBuild(v) == Chars(v.build) \cap {Dot, Dash} = {}

OrdersOpposeOnReleases ==
  /\ HasNumbers(first) /\ HasNumbers(second) /\ Numeric(first) = Numeric(second)
  /\ (first.pre = <<>>) # (second.pre = <<>>)
  /\ PlainBuild(first) /\ PlainBuild(second)
  => IF NumberTooLarge(first, second) THEN SemVerThrows(first, second)
     ELSE /\ ~SemVerThrows(first, second)
          /\ SemVerLess(first, second) <=> Less(second, first)

(* On the texts that VersionText speaks of, comparing the pieces throws    *)
(* where comparing the strings does, and decides as it does elsewhere.     *)
PiecesDecide ==
  HasText(ToText(first)) /\ HasText(ToText(second)) =>
    LET a == TextOf(ToText(first))
        b == TextOf(ToText(second))
    IN /\ SemVerThrows(first, second) <=> CompareThrows(a, b)
       /\ SemVerLess(first, second) <=> ~CompareThrows(a, b) /\ CompareSemVer(a, b)

(* On all texts, those with parts that mix digits and letters too,         *)
(* compareSemVer is an order that sorting and minimum() can rely on: when  *)
(* it puts a version before a second and that before a third, it answers,  *)
(* and does not throw, that the first is before the third; and two         *)
(* versions that it puts in no order, without throwing, compare alike      *)
(* with a third.                                                           *)
SemVerTransitive ==
  [][LET ab == SemVerLess(first, second)
         bc == SemVerLess(second, second')
         ac == SemVerLess(first, second')
     IN /\ ab /\ bc => ac
        /\ ~ab /\ ~SemVerLess(second, first) /\ ~SemVerThrows(first, second) =>
             /\ ac <=> bc
             /\ SemVerThrows(first, second') <=> SemVerThrows(second, second')]_vars
=============================================================================
