----------------------------- MODULE Successor -----------------------------
(***************************************************************************)
(* A caller that walks from version to version by incrementVersion(),      *)
(* decrementVersion() and coerce(), each applied to what the last call     *)
(* returned.                                                               *)
(***************************************************************************)
EXTENDS VersionText

CONSTANTS
  Texts,    \* the versions that a walk begins with
  MaxWalk   \* a bound on the calls of a walk

ASSUME WalkAssumption == Texts \subseteq Text /\ MaxWalk \in Nat

VARIABLES
  text,     \* the version last returned
  last,     \* the call that returned it, "none" before the first
  calls,    \* the number of calls so far
  outcome   \* how the walk ends

vars == <<text, last, calls, outcome>>

(* Above all: whatever is returned is a text, which the next call reads.   *)
TypeOK ==
  /\ text \in Text
  /\ last \in {"none", "increment", "decrement", "coerce"}
  /\ calls \in 0..MaxWalk
  /\ outcome \in {"walking", "nullopt", "exception"}

Init ==
  /\ text \in Texts
  /\ last = "none"
  /\ calls = 0
  /\ outcome = "walking"

-----------------------------------------------------------------------------
(* decrementVersion matches the whole of a text: up to three numerals, and *)
(* a pre-release that is not empty, of digits, letters, '.' and '-'.       *)
Letters == {Word(r) : r \in Alpha.val..X.val}

Decrements(t) ==
  /\ Len(t.nums) <= 3 /\ \A i \in DOMAIN t.nums : IsNum(t.nums[i])
  /\ t.pre # <<EmptyPiece>>
  /\ \A i \in DOMAIN t.pre : IsNum(t.pre[i]) \/ t.pre[i] \in Letters \cup {EmptyPiece}

DecrementThrows(t) == \E i \in DOMAIN t.nums : ~FitsInt(t.nums[i])

HasStage(t) == \E i \in DOMAIN t.pre : t.pre[i] \in {Alpha, Beta}

(* Of an alpha or a beta the numerals are kept as they are written, and    *)
(* one that is not there is written as nothing.                            *)
DecrementVersion(t) ==
  LET int(i)     == ValueOr0(t.nums, i)
      written(i) == IF i <= Len(t.nums) THEN t.nums[i] ELSE EmptyPiece
  IN IF HasStage(t)
     THEN [nums |-> <<written(1), written(2), written(3)>>, pre |-> <<Alpha, Num(0)>>]
     ELSE IF int(1) > 0 THEN Dotted(Plus1(int(1)), 0, 0)
     ELSE IF int(2) > 0 THEN Dotted(0, Plus1(int(2)), 0)
     ELSE Dotted(0, 0, Plus1(int(3)))

-----------------------------------------------------------------------------

Calls ==
  /\ outcome = "walking" /\ calls < MaxWalk
  /\ calls' = calls + 1

Ends(o) == outcome' = o /\ UNCHANGED <<text, last>>

Increment ==
  /\ Calls
  /\ IncrementVersion(text) # NoText
  /\ text' = IncrementVersion(text)
  /\ last' = "increment"
  /\ UNCHANGED outcome

IncrementFails ==
  /\ Calls
  /\ IncrementVersion(text) = NoText
  /\ Ends("nullopt")

Decrement ==
  /\ Calls
  /\ Decrements(text) /\ ~DecrementThrows(text)
  /\ text' = DecrementVersion(text)
  /\ last' = "decrement"
  /\ UNCHANGED outcome

DecrementFails ==
  /\ Calls
  /\ IF Decrements(text) THEN DecrementThrows(text) /\ Ends("exception") ELSE Ends("nullopt")

Normalise ==
  /\ Calls
  /\ Match(text) # <<>> /\ ~CoerceThrows(text)
  /\ text' = Coerce(text)
  /\ last' = "coerce"
  /\ UNCHANGED outcome

NormaliseFails ==
  /\ Calls
  /\ IF Match(text) = <<>> THEN Ends("nullopt") ELSE CoerceThrows(text) /\ Ends("exception")

Next ==
  \/ Increment \/ IncrementFails
  \/ Decrement \/ DecrementFails
  \/ Normalise \/ NormaliseFails

Spec == Init /\ [][Next]_vars

-----------------------------------------------------------------------------
(* Correctness.                                                            *)

Incremented == calls' # calls /\ outcome' = "walking" /\ last' = "increment" /\ ~AtLimit(text)

(* incrementVersion goes up by the order of compareSemVer, from a full     *)
(* version and from a release with fewer than three numerals.  (It does    *)
(* not from "1-beta", whose successor "1.0.0-beta.0" compareSemVer puts    *)
(* before it.)                                                             *)
IncrementIncreases ==
  [][Incremented /\ (Full(text) \/ IsRelease(text)) => CompareSemVer(text, text')]_vars

(* Of a full release it is the very next one: no release lies between.     *)
IncrementSkipsNothing ==
  [][Incremented /\ IsRelease(text) /\ Full(text) =>
       \A r \in Releases : CompareSemVer(text, r) => ~CompareSemVer(r, text')]_vars

(* Both functions accept what incrementVersion makes of a version that     *)
(* they accept.                                                            *)
IncrementStaysInForm ==
  [][Incremented /\ Decrements(text) =>
       IncrementVersion(text') # NoText /\ Decrements(text')]_vars

Decremented == calls' # calls /\ outcome' = "walking" /\ last' = "decrement"

BelowLimit(t) == \A i \in DOMAIN t.nums : t.nums[i].val < IntMax

(* What decrementVersion returns is accepted by both functions too, unless *)
(* it was an alpha or a beta with fewer than three numerals: "1-beta"      *)
(* becomes "1..-alpha.0", with nothing for the numerals that are not       *)
(* there, and neither function accepts that.                               *)
DecrementStaysInForm ==
  [][Decremented /\ BelowLimit(text) =>
       LET kept == HasStage(text) => Full(text)
       IN /\ kept <=> Decrements(text')
          /\ kept <=> IncrementVersion(text') # NoText]_vars

(* What coerce returns is in the form that all three calls read: the next  *)
(* call succeeds, unless a number of it is no int, and coerce has nothing  *)
(* left to do.                                                             *)
CoerceSettles ==
  [][calls' # calls /\ last = "coerce" =>
       IF outcome' = "walking" THEN last' = "coerce" => text' = text
       ELSE \E i \in DOMAIN text.nums : IsNum(text.nums[i]) /\ text.nums[i].val > IntMax]_vars

-----------------------------------------------------------------------------
(* What the comments say and the code does not do, see the README.         *)

(* "downgrade to minor or major": the result is before the argument.       *)
DecrementDecreases ==
  [][calls' # calls /\ outcome' = "walking" /\ last' = "decrement" =>
       CompareSemVer(text', text)]_vars
=============================================================================
