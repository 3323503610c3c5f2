----------------------------- MODULE StringWalk -----------------------------
(***************************************************************************)
(* The walk of Successor on strings: every call reads the characters of    *)
(* the string that the last one returned.  Here text is what VersionText   *)
(* knows of the string, and the walk on texts goes along with it.          *)
(***************************************************************************)
EXTENDS Successor, StringText

CONSTANT Strings   \* the strings that a walk begins with

ASSUME StringsAssumption ==
  Strings \subseteq {s \in String : HasText(s) /\ TextOf(s) \in Texts}

VARIABLE string   \* the string last returned

stringVars == <<string, text, last, calls, outcome>>

StringInit ==
  /\ string \in Strings
  /\ text = TextOf(string)
  /\ last = "none"
  /\ calls = 0
  /\ outcome = "walking"

-----------------------------------------------------------------------------

Returns(s, call) ==
  /\ string' = s
  /\ text' = TextOf(s)
  /\ last' = call
  /\ UNCHANGED outcome

StringEnds(o) == Ends(o) /\ UNCHANGED string

CallIncrement ==
  /\ Calls
  /\ CanIncrement(string)
  /\ Returns(IncrementString(string), "increment")

(* Slip: the exception of std::stoi is not caught.                         *)
SlipNoCatch ==
  /\ Calls
  /\ ~CanIncrement(string)
  /\ StringEnds("std::invalid_argument")

CallIncrementFails ==
  /\ Calls
  /\ ~CanIncrement(string)
  /\ StringEnds("nullopt")

CallDecrement ==
  /\ Calls
  /\ CanDecrement(string) /\ ~DecrementStringThrows(string)
  /\ Returns(DecrementString(string), "decrement")

CallDecrementFails ==
  /\ Calls
  /\ IF CanDecrement(string) THEN DecrementStringThrows(string) /\ StringEnds("exception")
     ELSE StringEnds("nullopt")

(* Slip: coerce returns what it matched.                                   *)
SlipCoerceMatched ==
  /\ Calls
  /\ CanCoerce(string) /\ ~CoerceStringThrows(string)
  /\ Returns(Groups(string)[1] \o <<Dot>> \o Groups(string)[2] \o <<Dot>> \o Groups(string)[3], "coerce")

CallCoerce ==
  /\ Calls
  /\ CanCoerce(string) /\ ~CoerceStringThrows(string)
  /\ Returns(CoerceString(string), "coerce")

CallCoerceFails ==
  /\ Calls
  /\ IF CanCoerce(string) THEN CoerceStringThrows(string) /\ StringEnds("exception")
     ELSE StringEnds("nullopt")

StringNext ==
  \/ CallIncrement \/ CallIncrementFails
  \/ CallDecrement \/ CallDecrementFails
  \/ CallCoerce \/ CallCoerceFails

StringSpec == StringInit /\ [][StringNext]_stringVars

-----------------------------------------------------------------------------
(* Correctness.                                                            *)

(* The pieces of VersionText are enough: every call does to the pieces of  *)
(* its string what Successor does, and ends as Successor says, on every    *)
(* string that some calls return and others are given.                     *)
WalksOnPieces == Spec

(* So do the bounds of "^" and "~", computed from any of these strings     *)
(* whose '-' is no sign to std::stoi.                                      *)
BoundsOnPieces ==
  NoSign(string) =>
  /\ CaretStringThrows(string) <=> CaretThrows(text)
  /\ ~CaretThrows(text) => TextOf(CaretString(string)) = ComputeCaretUpperBound(text)
  /\ TildeStringThrows(string) <=> TildeThrows(text)
  /\ (CanCoerce(string) /\ ~TildeThrows(text) /\ Len(TildeParts(string)) < 2) <=> TildeReadsPastEnd(text)
  /\ ~TildeThrows(text) /\ ~TildeReadsPastEnd(text) =>
       TextOf(TildeString(string)) = ComputeTildeUpperBound(text)
=============================================================================
