------------------------------ MODULE Minimum ------------------------------
(***************************************************************************)
(* minimum(range), one action per turn of its loops: over the sub-ranges   *)
(* that "||" separates, and in each of them over its constraints, over its *)
(* lower bounds and over its upper bounds.                                 *)
(***************************************************************************)
EXTENDS VersionRange

CONSTANT Ranges   \* the arguments minimum() is called with

ASSUME RangesAssumption == Ranges \subseteq RangeArg

VARIABLES
  range,      \* the argument
  pc,         \* the loop the call is in
  sub,        \* subIt: the current sub-range
  it,         \* the iterator of the loop that pc names
  lower,      \* lowerConstraints of the current sub-range
  upper,      \* upperConstraints of the current sub-range
  candidate,  \* the candidate of the current sub-range
  best,       \* bestCandidate
  outcome,    \* how the call ends
  offered     \* every text that was offered as bestCandidate (history)

vars == <<range, pc, sub, it, lower, upper, candidate, best, outcome, offered>>

Labels   == {"start", "subrange", "constraints", "lower", "upper", "commit"}
Outcomes == {"running", "returned", "exception", "undefined"}

Types ==
  /\ range \in RangeArg
  /\ pc \in Labels
  /\ sub \in Nat \ {0}
  /\ it \in Nat \ {0}
  /\ lower \in Seq(LowerBound)
  /\ upper \in Seq(UpperBound)
  /\ candidate \in Text
  /\ best \in Text \cup {NoText}
  /\ outcome \in Outcomes
  /\ offered \in SUBSET Text

MoreSubRanges == sub <= Len(range.subs)
Current       == range.subs[sub]

(* No iterator passes the end of the vector it runs over, and inside the   *)
(* loop over the sub-ranges there is a current one.                        *)
Iterators ==
  /\ sub <= Len(range.subs) + 1
  /\ pc \in {"constraints", "lower", "upper", "commit"} => MoreSubRanges
  /\ pc = "constraints" => it <= Len(Current.constraints) + 1
  /\ pc = "lower" => it <= Len(lower) + 1
  /\ pc = "upper" => it <= Len(upper) + 1

TypeOK == Types /\ Iterators

Init ==
  /\ range \in Ranges
  /\ pc = "start"
  /\ sub = 1
  /\ it = 1
  /\ lower = <<>>
  /\ upper = <<>>
  /\ candidate = EmptyText
  /\ best = NoText
  /\ outcome = "running"
  /\ offered = {}

-----------------------------------------------------------------------------

(* The constraint "<0.0.0-beta" turns the candidate "0.0.0" into "0.0.0-0" *)
(* before it is checked.                                                   *)
Adjusted ==
  IF upper[it] = BelowZeroBeta /\ candidate = Zero THEN ZeroPre ELSE candidate

(* satisfies_constraint compares the two texts before it parses them.      *)
ConstraintThrows(c, uc) ==
  ~(uc.op = "<=" /\ c = uc.ver) /\ CompareThrows(c, uc.ver)

(* The statement at pc throws, and nothing in minimum() catches it.        *)
Throws ==
  \/ /\ pc = "start" /\ range.hyphen
     /\ CoerceThrows(range.left)
  \/ /\ pc = "subrange" /\ MoreSubRanges /\ IsStar(Current)
     /\ best # NoText /\ CompareThrows(Zero, best)
  \/ /\ pc = "constraints" /\ it <= Len(Current.constraints)
     /\ BoundThrows(Current.constraints[it])
  \/ /\ pc = "constraints" /\ it > Len(Current.constraints)
     /\ Current.bare /\ CoerceThrows(Current.text)
  \/ /\ pc = "lower" /\ it <= Len(lower) /\ candidate # EmptyText
     /\ CompareThrows(candidate, LowerCandidate(lower[it]))
  \/ /\ pc = "upper" /\ it <= Len(upper)
     /\ ConstraintThrows(Adjusted, upper[it])
  \/ /\ pc = "commit" /\ best # NoText
     /\ CompareThrows(candidate, best)

At(label) == outcome = "running" /\ pc = label /\ ~Throws

Raise ==
  /\ outcome = "running" /\ Throws
  /\ outcome' = "exception"
  /\ UNCHANGED <<range, pc, sub, it, lower, upper, candidate, best, offered>>

-----------------------------------------------------------------------------
(* The tests before the loop.                                              *)

(* "", "*" and "A - B" are answered at once.                               *)
AnswerAtOnce ==
  /\ At("start")
  /\ \/ range.subs = <<>> /\ ~range.hyphen /\ best' = NoText
     \/ ~range.hyphen /\ Len(range.subs) = 1 /\ IsStar(range.subs[1]) /\ best' = Zero
     \/ range.hyphen /\ best' = Coerce(range.left)
  /\ offered' = {best'} \ {NoText}
  /\ outcome' = "returned"
  /\ UNCHANGED <<range, pc, sub, it, lower, upper, candidate>>

EnterLoop ==
  /\ At("start")
  /\ ~range.hyphen /\ range.subs # <<>>
  /\ ~(Len(range.subs) = 1 /\ IsStar(range.subs[1]))
  /\ pc' = "subrange"
  /\ UNCHANGED <<range, sub, it, lower, upper, candidate, best, outcome, offered>>

-----------------------------------------------------------------------------
(* The head of the loop over the sub-ranges.                               *)

StarWins == IsStar(Current) /\ (best = NoText \/ CompareSemVer(Zero, best))

TakeStar ==
  /\ At("subrange") /\ MoreSubRanges /\ StarWins
  /\ best' = Zero
  /\ offered' = offered \cup {Zero}
  /\ sub' = sub + 1
  /\ UNCHANGED <<range, pc, it, lower, upper, candidate, outcome>>

(* Slip: the bounds of the sub-range before it are still there.            *)
SlipStaleBounds ==
  /\ At("subrange") /\ MoreSubRanges /\ ~StarWins
  /\ candidate' = EmptyText
  /\ it' = 1
  /\ pc' = "constraints"
  /\ UNCHANGED <<range, sub, lower, upper, best, outcome, offered>>

(* A star that does not win is treated like any other sub-range.           *)
EnterSubRange ==
  /\ At("subrange") /\ MoreSubRanges /\ ~StarWins
  /\ lower' = <<>>
  /\ upper' = <<>>
  /\ candidate' = EmptyText
  /\ it' = 1
  /\ pc' = "constraints"
  /\ UNCHANGED <<range, sub, best, outcome, offered>>

Return ==
  /\ At("subrange") /\ ~MoreSubRanges
  /\ outcome' = "returned"
  /\ UNCHANGED <<range, pc, sub, it, lower, upper, candidate, best, offered>>

-----------------------------------------------------------------------------
(* The loop over the constraints of a sub-range.                           *)

Missing(c) == c.op = "~" /\ TildeReadsPastEnd(c.ver)

CollectConstraint ==
  /\ At("constraints") /\ it <= Len(Current.constraints)
  /\ ~Missing(Current.constraints[it])
  /\ lower' = lower \o LowerOf(Current.constraints[it])
  /\ upper' = upper \o UpperOf(Current.constraints[it])
  /\ it' = it + 1
  /\ UNCHANGED <<range, pc, sub, candidate, best, outcome, offered>>

(* "~1": parts[1] lies past the end of the vector.                         *)
ReadPastEnd ==
  /\ At("constraints") /\ it <= Len(Current.constraints)
  /\ Missing(Current.constraints[it])
  /\ outcome' = "undefined"
  /\ UNCHANGED <<range, pc, sub, it, lower, upper, candidate, best, offered>>

ChooseCandidate ==
  /\ At("constraints") /\ it > Len(Current.constraints)
  /\ \/ /\ Current.bare
        /\ candidate' = BareCandidate(Current)
        /\ pc' = "upper"
     \/ /\ ~Current.bare /\ lower = <<>>
        /\ candidate' = Zero
        /\ pc' = "upper"
     \/ /\ ~Current.bare /\ lower # <<>>
        /\ pc' = "lower"
        /\ UNCHANGED candidate
  /\ it' = 1
  /\ UNCHANGED <<range, sub, lower, upper, best, outcome, offered>>

-----------------------------------------------------------------------------
(* The loop over the lower bounds: the candidate is the greatest of them.  *)

(* Slip: the operands of the comparison are swapped.                       *)
SlipLowersCandidate ==
  /\ At("lower") /\ it <= Len(lower)
  /\ LET cur == LowerCandidate(lower[it])
     IN candidate' = IF candidate = EmptyText \/ CompareSemVer(cur, candidate)
                     THEN cur ELSE candidate
  /\ it' = it + 1
  /\ UNCHANGED <<range, pc, sub, lower, upper, best, outcome, offered>>

RaiseCandidate ==
  /\ At("lower") /\ it <= Len(lower)
  /\ LET cur == LowerCandidate(lower[it])
     IN candidate' = IF candidate = EmptyText \/ CompareSemVer(candidate, cur)
                     THEN cur ELSE candidate
  /\ it' = it + 1
  /\ UNCHANGED <<range, pc, sub, lower, upper, best, outcome, offered>>

LeaveLower ==
  /\ At("lower") /\ it > Len(lower)
  /\ it' = 1
  /\ pc' = "upper"
  /\ UNCHANGED <<range, sub, lower, upper, candidate, best, outcome, offered>>

-----------------------------------------------------------------------------
(* The loop over the upper bounds: the first one that fails ends it.       *)

(* Slip: the iterator does not advance.                                    *)
SlipStuck ==
  /\ At("upper") /\ it <= Len(upper)
  /\ SatisfiesConstraint(Adjusted, upper[it].op, upper[it].ver)
  /\ candidate' = Adjusted
  /\ UNCHANGED <<range, pc, sub, it, lower, upper, best, outcome, offered>>

PassUpper ==
  /\ At("upper") /\ it <= Len(upper)
  /\ SatisfiesConstraint(Adjusted, upper[it].op, upper[it].ver)
  /\ candidate' = Adjusted
  /\ it' = it + 1
  /\ UNCHANGED <<range, pc, sub, lower, upper, best, outcome, offered>>

(* Slip: a bound that fails does not make the candidate invalid.           *)
SlipStillValid ==
  /\ At("upper") /\ it <= Len(upper)
  /\ ~SatisfiesConstraint(Adjusted, upper[it].op, upper[it].ver)
  /\ candidate' = Adjusted
  /\ pc' = "commit"
  /\ UNCHANGED <<range, sub, it, lower, upper, best, outcome, offered>>

FailUpper ==
  /\ At("upper") /\ it <= Len(upper)
  /\ ~SatisfiesConstraint(Adjusted, upper[it].op, upper[it].ver)
  /\ candidate' = Adjusted
  /\ sub' = sub + 1
  /\ pc' = "subrange"
  /\ UNCHANGED <<range, it, lower, upper, best, outcome, offered>>

LeaveUpper ==
  /\ At("upper") /\ it > Len(upper)
  /\ IF candidate = EmptyText
     THEN pc' = "subrange" /\ sub' = sub + 1
     ELSE pc' = "commit" /\ UNCHANGED sub
  /\ UNCHANGED <<range, it, lower, upper, candidate, best, outcome, offered>>

(* Slip: the last candidate wins.                                          *)
SlipLastWins ==
  /\ At("commit")
  /\ best' = candidate
  /\ offered' = offered \cup {candidate}
  /\ sub' = sub + 1
  /\ pc' = "subrange"
  /\ UNCHANGED <<range, it, lower, upper, candidate, outcome>>

Commit ==
  /\ At("commit")
  /\ best' = IF best = NoText \/ CompareSemVer(candidate, best)
             THEN candidate ELSE best
  /\ offered' = offered \cup {candidate}
  /\ sub' = sub + 1
  /\ pc' = "subrange"
  /\ UNCHANGED <<range, it, lower, upper, candidate, outcome>>

-----------------------------------------------------------------------------

Next ==
  \/ Raise \/ AnswerAtOnce \/ EnterLoop
  \/ TakeStar \/ EnterSubRange \/ Return
  \/ CollectConstraint \/ ReadPastEnd \/ ChooseCandidate
  \/ RaiseCandidate \/ LeaveLower
  \/ PassUpper \/ FailUpper \/ LeaveUpper \/ Commit

(* A call runs on its caller's thread until it ends.                       *)
Fairness == WF_vars(Next)

Spec == Init /\ [][Next]_vars /\ Fairness

-----------------------------------------------------------------------------
(* Correctness.                                                            *)

(* A text meets a sub-range when it satisfies every bound the constraints  *)
(* of the sub-range stand for; a bare sub-range is met by its candidate.   *)
MeetsBound(t, c) == SatisfiesConstraint(t, c.op, c.ver)

Meets(t, s) ==
  IF s.bare THEN t = BareCandidate(s) \/ (IsStar(s) /\ t = Zero)
  ELSE \A i \in DOMAIN s.constraints :
         /\ \A j \in DOMAIN LowerOf(s.constraints[i]) :
              MeetsBound(t, LowerOf(s.constraints[i])[j])
         /\ \A j \in DOMAIN UpperOf(s.constraints[i]) :
              MeetsBound(t, UpperOf(s.constraints[i])[j])

(* bestCandidate is a least one of all the candidates the sub-ranges have  *)
(* offered, whatever their order.                                          *)
BestIsLeast ==
  /\ best = NoText <=> offered = {}
  /\ best # NoText => /\ best \in offered
                      /\ \A t \in offered : ~CompareSemVer(t, best)

(* Once the lower bounds are folded, the candidate is one of the versions  *)
(* they stand for, and none of those is above it.                          *)
CandidateIsGreatestLower ==
  pc = "upper" /\ it = 1 /\ lower # <<>> =>
    /\ \E i \in DOMAIN lower : candidate = LowerCandidate(lower[i])
    /\ \A i \in DOMAIN lower : ~CompareSemVer(candidate, LowerCandidate(lower[i]))

(* Of the upper bounds that the candidate has passed it satisfies every    *)
(* one, also when it was changed between two of them: "0.0.0-0" may break  *)
(* a bound that "0.0.0" was checked against before the bound that changed  *)
(* it, and no other candidate breaks any.                                  *)
Passed == IF pc = "upper" THEN 1..(it - 1) ELSE IF pc = "commit" THEN DOMAIN upper ELSE {}

UpperBoundsKept ==
  \A i \in Passed :
    \/ MeetsBound(candidate, upper[i])
    \/ /\ candidate = ZeroPre /\ MeetsBound(Zero, upper[i])
       /\ \E j \in Passed : i < j /\ upper[j] = BelowZeroBeta

(* The answer meets one of the sub-ranges, where the versions behind ">"   *)
(* have a successor above them, see IncrementIncreases.  If it is          *)
(* "0.0.0-0", made from "0.0.0" to meet "<0.0.0-beta", it may be "0.0.0"   *)
(* that meets it.                                                          *)
ChangesZero(s) == \E i \in DOMAIN s.constraints : s.constraints[i] = BelowZeroBeta

HasSuccessor(t) ==
  (Full(t) \/ IsRelease(t)) /\ IncrementVersion(t) # NoText /\ ~AtLimit(t)

HasSuccessors(s) ==
  \A i \in DOMAIN s.constraints :
    s.constraints[i].op = ">" => HasSuccessor(s.constraints[i].ver)

AnswerMeetsRange ==
  /\ outcome = "returned" /\ best # NoText /\ ~range.hyphen
  /\ \A i \in DOMAIN range.subs : HasSuccessors(range.subs[i])
  => \E i \in DOMAIN range.subs :
       \/ Meets(best, range.subs[i])
       \/ best = ZeroPre /\ ChangesZero(range.subs[i]) /\ Meets(Zero, range.subs[i])

(* No release below the answer meets a sub-range made of constraints, and  *)
(* there is an answer when some release does.  (The successor of a version *)
(* with fewer than three numerals skips releases, and "<0.0.0-beta         *)
(* <=0.0.0" is met by "0.0.0", but has no answer.)                         *)
SkipsNone(s) ==
  /\ ~s.bare /\ ~ChangesZero(s)
  /\ \A i \in DOMAIN s.constraints :
       s.constraints[i].op = ">" => Len(s.constraints[i].ver.nums) >= 3

NoLowerRelease ==
  outcome = "returned" /\ ~range.hyphen =>
    \A i \in DOMAIN range.subs : \A r \in Releases :
      SkipsNone(range.subs[i]) /\ Meets(r, range.subs[i]) =>
        best # NoText /\ ~CompareSemVer(r, best)

(* "^v" and "~v" admit v itself: the upper bound of a full version lies    *)
(* above it, unless its successor leaves the range of int.                 *)
AnswersItself(c) ==
  /\ c.op \in {"^", "~"}
  /\ Len(c.ver.nums) = 3
  /\ \A i \in 1..3 : IsNum(c.ver.nums[i]) /\ c.ver.nums[i].val < IntMax

BoundAdmitsItself ==
  outcome = "returned" /\ ~range.hyphen =>
    \A i \in DOMAIN range.subs :
      LET cs == range.subs[i].constraints
      IN Len(cs) = 1 => (AnswersItself(cs[1]) => cs[1].ver \in offered)

-----------------------------------------------------------------------------
(* What the code says of itself and does not keep, see the README.         *)

(* "If the sub-range is a star, the candidate is "0.0.0"": no star is ever *)
(* offered as a version.                                                   *)
StarNeverOffered == StarText \notin offered

(* "the code can run without exceptions": no call ends in one.             *)
NoException == outcome # "exception"

(* "Upper bound for Tilde: X.(Y+1).0": there always is a Y to read.        *)
NoReadPastEnd == outcome # "undefined"

-----------------------------------------------------------------------------
(* Every call ends.                                                        *)
Termination == <>(outcome # "running")

(* The loops compute what RangeMinimum promises.                           *)
Promise == INSTANCE RangeMinimum
             WITH answer <- IF outcome = "returned" THEN best ELSE NoText

KeepsPromise == Promise!Spec
=============================================================================
