--------------------------- MODULE MinimumProofs ---------------------------
(***************************************************************************)
(* minimum(), for every argument and every size of int: its invariants,    *)
(* and its answer against its range.                                       *)
(***************************************************************************)
EXTENDS Minimum, VersionTextProofs

-----------------------------------------------------------------------------
(* The bounds of a constraint.                                             *)

LEMMA ConstraintFields ==
  ASSUME NEW c \in Constraint
  PROVE  c.op \in Ops /\ c.ver \in Text \ {EmptyText} /\ c = [op |-> c.op, ver |-> c.ver]
BY DEF Constraint

LEMMA LowerOfType ==
  ASSUME NEW c \in Constraint
  PROVE  LowerOf(c) \in Seq(LowerBound)
<1>1. CASE c.op \in {"^", "~"}
  <2>1. [op |-> ">=", ver |-> c.ver] \in LowerBound
    BY ConstraintFields DEF LowerBound
  <2>2. QED
    BY <1>1, <2>1 DEF LowerOf
<1>2. CASE c.op \in {">", ">="}
  <2>1. c \in LowerBound
    BY <1>2, ConstraintFields DEF LowerBound
  <2>2. QED
    BY <1>2, <2>1 DEF LowerOf
<1>3. CASE c.op \in {"<", "<="}
  BY <1>3 DEF LowerOf
<1>4. QED
  BY <1>1, <1>2, <1>3, ConstraintFields DEF Ops

LEMMA UpperOfType ==
  ASSUME NEW c \in Constraint, ~BoundThrows(c), ~Missing(c)
  PROVE  UpperOf(c) \in Seq(UpperBound)
<1>1. CASE c.op = "^"
  <2>1. [op |-> "<", ver |-> ComputeCaretUpperBound(c.ver)] \in UpperBound
    BY ConstraintFields, CaretType DEF UpperBound
  <2>2. QED
    BY <1>1, <2>1 DEF UpperOf
<1>2. CASE c.op = "~"
  <2>1. ComputeTildeUpperBound(c.ver) \in Text
    BY <1>2, ConstraintFields, TildeType DEF BoundThrows, Missing
  <2>2. [op |-> "<", ver |-> ComputeTildeUpperBound(c.ver)] \in UpperBound
    BY <2>1 DEF UpperBound
  <2>3. QED
    BY <1>2, <2>2 DEF UpperOf
<1>3. CASE c.op \in {"<", "<="}
  <2>1. c \in UpperBound
    BY <1>3, ConstraintFields DEF UpperBound
  <2>2. QED
    BY <1>3, <2>1 DEF UpperOf
<1>4. CASE c.op \in {">", ">="}
  BY <1>4 DEF UpperOf
<1>5. QED
  BY <1>1, <1>2, <1>3, <1>4, ConstraintFields DEF Ops

(* The version that a lower bound makes a candidate of is not empty.       *)
LEMMA LowerCandidateType ==
  ASSUME NEW lc \in LowerBound
  PROVE  LowerCandidate(lc) \in Text \ {EmptyText}
<1>1. lc.ver \in Text \ {EmptyText}
  BY DEF LowerBound
<1>2. IncrementVersion(lc.ver) \in (Text \cup {NoText}) \ {EmptyText}
  BY <1>1, IncrementVersionType
<1>3. QED
  BY <1>1, <1>2 DEF LowerCandidate

LEMMA BareCandidateType ==
  ASSUME NEW s \in SubRange
  PROVE  BareCandidate(s) \in Text
BY CoerceText DEF BareCandidate, SubRange

(* The texts that the code writes itself.                                  *)
LEMMA LiteralTypes == Zero \in Text \ {EmptyText} /\ ZeroPre \in Text
<1>1. Zero \in Text \ {EmptyText}
  BY DottedType DEF Zero
<1>2. ZeroPre \in Text
  BY <1>1, NumPiece DEF ZeroPre, Text
<1>3. QED
  BY <1>1, <1>2

-----------------------------------------------------------------------------
(* Type correctness.  Inside the loop over the sub-ranges there is a       *)
(* current one, the candidate is cleared before its constraints are read,  *)
(* and a bare sub-range collects no bounds.                                *)

Position ==
  /\ pc \in {"constraints", "lower", "upper", "commit"} => MoreSubRanges
  /\ pc = "constraints" => candidate = EmptyText /\ (Current.bare => lower = <<>>)

TypeInv == Types /\ Position

LEMMA RangeFields ==
  ASSUME Types
  PROVE  /\ range.left \in Text
         /\ range.subs \in Seq(SubRange)
         /\ MoreSubRanges => Current \in SubRange
<1>1. range.left \in Text /\ range.subs \in Seq(SubRange)
  BY DEF Types, RangeArg
<1>2. sub \in Nat \ {0}
  BY DEF Types
<1>3. QED
  BY <1>1, <1>2 DEF MoreSubRanges, Current

LEMMA SubRangeFields ==
  ASSUME NEW s \in SubRange
  PROVE  /\ s.text \in Text
         /\ s.constraints \in Seq(Constraint)
         /\ s.bare => s.constraints = <<>>
BY DEF SubRange

LEMMA AdjustedType ==
  ASSUME Types
  PROVE  Adjusted \in Text
BY LiteralTypes DEF Types, Adjusted

LEMMA TypeInit == Init => TypeInv
<1> SUFFICES ASSUME Init PROVE TypeInv
  OBVIOUS
<1>1. Types
  <2>1. range \in RangeArg
    BY RangesAssumption DEF Init
  <2>2. QED
    BY <2>1, EmptyTextType DEF Init, Types, Labels, Outcomes
<1>2. Position
  BY DEF Init, Position
<1>3. QED
  BY <1>1, <1>2 DEF TypeInv

LEMMA TypeStep == TypeInv /\ [Next]_vars => TypeInv'
<1> SUFFICES ASSUME TypeInv, [Next]_vars PROVE TypeInv'
  OBVIOUS
<1> USE DEF TypeInv
<1>1. CASE Raise
  BY <1>1 DEF Raise, Types, Position, Outcomes, MoreSubRanges, Current
<1>2. CASE AnswerAtOnce
  <2>1. best' \in Text \cup {NoText}
    BY <1>2, RangeFields, CoerceText, LiteralTypes DEF AnswerAtOnce
  <2>2. Types'
    BY <1>2, <2>1 DEF AnswerAtOnce, Types, Outcomes
  <2>3. Position'
    BY <1>2 DEF AnswerAtOnce, Position, MoreSubRanges, Current
  <2>4. QED
    BY <2>2, <2>3
<1>3. CASE EnterLoop
  BY <1>3 DEF EnterLoop, Types, Position, Labels
<1>4. CASE TakeStar
  <2>1. Types'
    BY <1>4, LiteralTypes DEF TakeStar, Types
  <2>2. Position'
    BY <1>4 DEF TakeStar, Position, At
  <2>3. QED
    BY <2>1, <2>2
<1>5. CASE EnterSubRange
  <2>1. Types'
    BY <1>5, EmptyTextType DEF EnterSubRange, Types, Labels
  <2>2. Position'
    BY <1>5 DEF EnterSubRange, Position, MoreSubRanges, Current
  <2>3. QED
    BY <2>1, <2>2
<1>6. CASE Return
  BY <1>6 DEF Return, Types, Position, Outcomes, MoreSubRanges, Current
<1>7. CASE CollectConstraint
  <2> DEFINE c == Current.constraints[it]
  <2>1. Current \in SubRange /\ Current.constraints \in Seq(Constraint)
    BY <1>7, RangeFields, SubRangeFields DEF CollectConstraint, At, Position
  <2>2. c \in Constraint
    BY <1>7, <2>1 DEF CollectConstraint, Types
  <2>3. ~BoundThrows(c) /\ ~Missing(c)
    BY <1>7 DEF CollectConstraint, At, Throws
  <2>4. LowerOf(c) \in Seq(LowerBound) /\ UpperOf(c) \in Seq(UpperBound)
    BY <2>2, <2>3, LowerOfType, UpperOfType
  <2>5. lower' \in Seq(LowerBound) /\ upper' \in Seq(UpperBound)
    <3>1. lower' = lower \o LowerOf(c) /\ upper' = upper \o UpperOf(c)
      BY <1>7 DEF CollectConstraint
    <3> HIDE DEF c
    <3>2. QED
      BY <3>1, <2>4 DEF Types
  <2>6. ~Current.bare
    BY <1>7, <2>1, SubRangeFields DEF CollectConstraint, Types
  <2>7. Types'
    BY <1>7, <2>5 DEF CollectConstraint, Types
  <2>8. Position'
    BY <1>7, <2>6 DEF CollectConstraint, Position, MoreSubRanges, Current
  <2>9. QED
    BY <2>7, <2>8
<1>8. CASE ReadPastEnd
  BY <1>8 DEF ReadPastEnd, Types, Position, Outcomes, MoreSubRanges, Current
<1>9. CASE ChooseCandidate
  <2>1. Current \in SubRange /\ MoreSubRanges
    BY <1>9, RangeFields DEF ChooseCandidate, At, Position
  <2>2. candidate' \in Text /\ pc' \in {"lower", "upper"}
    BY <1>9, <2>1, BareCandidateType, LiteralTypes DEF ChooseCandidate, Types
  <2>3. Types'
    BY <1>9, <2>2 DEF ChooseCandidate, Types, Labels
  <2>4. Position'
    BY <1>9, <2>1, <2>2 DEF ChooseCandidate, Position, MoreSubRanges
  <2>5. QED
    BY <2>3, <2>4
<1>10. CASE RaiseCandidate
  <2>1. lower[it] \in LowerBound
    BY <1>10 DEF RaiseCandidate, Types
  <2>2. candidate' \in Text
    BY <1>10, <2>1, LowerCandidateType DEF RaiseCandidate, Types
  <2>3. Types'
    BY <1>10, <2>2 DEF RaiseCandidate, Types
  <2>4. Position'
    BY <1>10 DEF RaiseCandidate, At, Position, MoreSubRanges
  <2>5. QED
    BY <2>3, <2>4
<1>11. CASE LeaveLower
  BY <1>11 DEF LeaveLower, At, Types, Position, Labels, MoreSubRanges
<1>12. CASE PassUpper
  <2>1. Types'
    BY <1>12, AdjustedType DEF PassUpper, Types
  <2>2. Position'
    BY <1>12 DEF PassUpper, At, Position, MoreSubRanges
  <2>3. QED
    BY <2>1, <2>2
<1>13. CASE FailUpper
  <2>1. Types'
    BY <1>13, AdjustedType DEF FailUpper, Types, Labels
  <2>2. Position'
    BY <1>13 DEF FailUpper, Position
  <2>3. QED
    BY <2>1, <2>2
<1>14. CASE LeaveUpper
  <2>1. Types'
    BY <1>14 DEF LeaveUpper, Types, Labels
  <2>2. Position'
    BY <1>14 DEF LeaveUpper, At, Position, MoreSubRanges
  <2>3. QED
    BY <2>1, <2>2
<1>15. CASE Commit
  <2>1. Types'
    BY <1>15 DEF Commit, Types, Labels
  <2>2. Position'
    BY <1>15 DEF Commit, Position
  <2>3. QED
    BY <2>1, <2>2
<1>16. CASE UNCHANGED vars
  BY <1>16 DEF vars, Types, Position, MoreSubRanges, Current
<1>17. QED
  BY <1>1, <1>2, <1>3, <1>4, <1>5, <1>6, <1>7, <1>8, <1>9, <1>10, <1>11, <1>12,
     <1>13, <1>14, <1>15, <1>16 DEF Next

LEMMA IteratorsStep ==
  TypeInv /\ Iterators /\ [Next]_vars => Iterators'
<1> SUFFICES ASSUME TypeInv, Iterators, [Next]_vars
             PROVE  Iterators'
  OBVIOUS
<1>1. /\ sub \in Nat \ {0} /\ it \in Nat \ {0} /\ Len(range.subs) \in Nat
      /\ Len(lower) \in Nat /\ Len(upper) \in Nat
      /\ MoreSubRanges => Len(Current.constraints) \in Nat
  <2>1. range.subs \in Seq(SubRange) /\ (MoreSubRanges => Current \in SubRange)
    BY RangeFields DEF TypeInv
  <2>2. MoreSubRanges => Current.constraints \in Seq(Constraint)
    BY <2>1, SubRangeFields
  <2>3. lower \in Seq(LowerBound) /\ upper \in Seq(UpperBound) /\ sub \in Nat \ {0} /\ it \in Nat \ {0}
    BY DEF TypeInv, Types
  <2>4. QED
    BY <2>1, <2>2, <2>3
<1>2. CASE UNCHANGED <<range, pc, sub, it, lower, upper>>
  BY <1>2 DEF Iterators, MoreSubRanges, Current
<1>3. CASE EnterLoop \/ TakeStar
  BY <1>1, <1>3 DEF EnterLoop, TakeStar, At, Iterators, MoreSubRanges
<1>4. CASE EnterSubRange
  <2>1. /\ sub' = sub /\ range' = range /\ it' = 1 /\ pc' = "constraints" /\ MoreSubRanges
    BY <1>4 DEF EnterSubRange
  <2>2. MoreSubRanges' /\ Current' = Current
    BY <2>1 DEF MoreSubRanges, Current
  <2>3. QED
    BY <1>1, <2>1, <2>2 DEF Iterators, MoreSubRanges
<1>5. CASE CollectConstraint
  <2>1. /\ UNCHANGED <<range, sub, pc>> /\ it' = it + 1 /\ pc = "constraints"
        /\ it <= Len(Current.constraints) /\ MoreSubRanges
    BY <1>5 DEF CollectConstraint, At, Iterators
  <2>2. MoreSubRanges' /\ Current' = Current
    BY <2>1 DEF MoreSubRanges, Current
  <2>3. QED
    BY <1>1, <2>1, <2>2 DEF Iterators
<1>6. CASE ChooseCandidate \/ LeaveLower
  <2>1. /\ UNCHANGED <<range, sub, lower, upper>> /\ it' = 1 /\ pc' \in {"lower", "upper"}
        /\ MoreSubRanges
    BY <1>6 DEF ChooseCandidate, LeaveLower, At, Iterators
  <2>2. MoreSubRanges'
    BY <2>1 DEF MoreSubRanges
  <2>3. QED
    BY <1>1, <2>1, <2>2 DEF Iterators
<1>7. CASE RaiseCandidate \/ PassUpper
  <2>1. /\ UNCHANGED <<range, sub, pc, lower, upper>> /\ it' = it + 1 /\ MoreSubRanges
        /\ \/ pc = "lower" /\ it <= Len(lower)
           \/ pc = "upper" /\ it <= Len(upper)
    BY <1>7 DEF RaiseCandidate, PassUpper, At, Iterators
  <2>2. MoreSubRanges'
    BY <2>1 DEF MoreSubRanges
  <2>3. QED
    BY <1>1, <2>1, <2>2 DEF Iterators
<1>8. CASE FailUpper \/ Commit \/ LeaveUpper
  <2>1. /\ range' = range /\ MoreSubRanges
        /\ \/ pc' = "subrange" /\ sub' = sub + 1
           \/ pc' = "commit" /\ sub' = sub
    BY <1>8 DEF FailUpper, Commit, LeaveUpper, At, Iterators
  <2>2. QED
    BY <1>1, <2>1 DEF Iterators, MoreSubRanges
<1>9. QED
  BY <1>2, <1>3, <1>4, <1>5, <1>6, <1>7, <1>8
     DEF Next, vars, Raise, AnswerAtOnce, Return, ReadPastEnd

LEMMA IteratorsInit == Init => Iterators
<1>1. Init => range.subs \in Seq(SubRange) /\ sub = 1 /\ pc = "start"
  BY RangesAssumption DEF Init, RangeArg
<1>2. QED
  BY <1>1 DEF Iterators

(* The variables of minimum() keep their types: every bound that the code  *)
(* computes is a text it can compare, wrapped ints included, and no        *)
(* iterator passes the end of the vector it runs over.                     *)
THEOREM TypeCorrect == Spec => []TypeOK
<1>1. TypeInv => Types
  BY DEF TypeInv
<1>2. QED
  BY TypeInit, TypeStep, IteratorsInit, IteratorsStep, <1>1, PTL DEF Spec, TypeOK

-----------------------------------------------------------------------------
(* bestCandidate.  Only TakeStar, Commit and AnswerAtOnce change it, and   *)
(* each replaces it by a version that is before it.                        *)

LEMMA LeastKept ==
  ASSUME NEW T, T \subseteq Text, NEW b \in Text, NEW c \in Text,
         \A t \in T : ~CompareSemVer(t, b)
  PROVE  /\ CompareSemVer(c, b) => \A t \in T \cup {c} : ~CompareSemVer(t, c)
         /\ ~CompareSemVer(c, b) => \A t \in T \cup {c} : ~CompareSemVer(t, b)
BY CompareSemVerOrder

LEMMA BestStep == TypeInv /\ BestIsLeast /\ [Next]_vars => BestIsLeast'
<1> SUFFICES ASSUME TypeInv, BestIsLeast, [Next]_vars PROVE BestIsLeast'
  OBVIOUS
<1>1. offered \subseteq Text /\ candidate \in Text /\ best \in Text \cup {NoText}
  BY DEF TypeInv, Types
<1>2. NoText \notin Text
  BY EmptyTextType
<1>3. CASE AnswerAtOnce
  <2>1. best' \in Text \cup {NoText} /\ offered' = {best'} \ {NoText}
    BY <1>3, RangeFields, CoerceText, LiteralTypes DEF AnswerAtOnce, TypeInv
  <2>2. QED
    BY <2>1, CompareSemVerOrder DEF BestIsLeast
<1>4. CASE TakeStar
  <2>1. /\ Zero \in Text
        /\ best = NoText \/ CompareSemVer(Zero, best)
        /\ best' = Zero
        /\ offered' = offered \cup {Zero}
    BY <1>4, LiteralTypes DEF TakeStar, StarWins
  <2>2. \A t \in offered' : ~CompareSemVer(t, Zero)
    <3>1. CASE best = NoText
      BY <2>1, <3>1, CompareSemVerOrder DEF BestIsLeast
    <3>2. CASE best # NoText
      BY <1>1, <2>1, <3>2, LeastKept DEF BestIsLeast
    <3>3. QED
      BY <3>1, <3>2
  <2>3. QED
    BY <1>2, <2>1, <2>2 DEF BestIsLeast
<1>5. CASE Commit
  <2>1. /\ best' = IF best = NoText \/ CompareSemVer(candidate, best) THEN candidate ELSE best
        /\ offered' = offered \cup {candidate}
    BY <1>5 DEF Commit
  <2>2. CASE best = NoText
    BY <1>1, <1>2, <2>1, <2>2, CompareSemVerOrder DEF BestIsLeast
  <2>3. CASE best # NoText
    <3>1. best \in Text /\ best \in offered /\ \A t \in offered : ~CompareSemVer(t, best)
      BY <1>1, <2>3 DEF BestIsLeast
    <3>2. best' \in offered' /\ \A t \in offered' : ~CompareSemVer(t, best')
      BY <1>1, <2>1, <2>3, <3>1, LeastKept
    <3>3. QED
      BY <1>1, <1>2, <2>1, <2>3, <3>1, <3>2 DEF BestIsLeast
  <2>4. QED
    BY <2>2, <2>3
<1>6. CASE UNCHANGED <<best, offered>>
  BY <1>6 DEF BestIsLeast
<1>7. QED
  BY <1>3, <1>4, <1>5, <1>6
     DEF Next, vars, Raise, EnterLoop, EnterSubRange, Return, CollectConstraint,
         ReadPastEnd, ChooseCandidate, RaiseCandidate, LeaveLower, PassUpper,
         FailUpper, LeaveUpper

(* minimum() holds a least one of all the versions its sub-ranges offered, *)
(* in whatever order they came.                                            *)
THEOREM BestCorrect == Spec => []BestIsLeast
<1>1. Init => BestIsLeast
  BY DEF Init, BestIsLeast
<1>2. QED
  BY <1>1, TypeInit, TypeStep, BestStep, PTL DEF Spec

-----------------------------------------------------------------------------
(* The candidate.  While the lower bounds are folded it is the greatest of *)
(* those read so far, and it is empty exactly before the first.            *)

FoldInv ==
  pc = "lower" =>
    /\ lower # <<>>
    /\ it <= Len(lower) + 1
    /\ it = 1 => candidate = EmptyText
    /\ it > 1 => \E j \in 1..(it - 1) : candidate = LowerCandidate(lower[j])
    /\ \A j \in 1..(it - 1) : ~CompareSemVer(candidate, LowerCandidate(lower[j]))

LEMMA FoldStep == TypeInv /\ FoldInv /\ [Next]_vars => FoldInv'
<1> SUFFICES ASSUME TypeInv, FoldInv, [Next]_vars, pc' = "lower" PROVE FoldInv'
  BY DEF FoldInv
<1>1. CASE ChooseCandidate
  <2>1. lower' = lower /\ lower # <<>> /\ it' = 1 /\ candidate' = candidate
    BY <1>1 DEF ChooseCandidate
  <2>2. candidate = EmptyText
    BY <1>1 DEF ChooseCandidate, At, TypeInv, Position
  <2>3. Len(lower) \in Nat
    BY DEF TypeInv, Types
  <2>4. QED
    BY <2>1, <2>2, <2>3 DEF FoldInv
<1>2. CASE RaiseCandidate
  <2> DEFINE cur == LowerCandidate(lower[it])
  <2>1. /\ lower \in Seq(LowerBound) /\ it \in 1..Len(lower)
        /\ candidate \in Text
        /\ lower' = lower /\ it' = it + 1
        /\ candidate' = IF candidate = EmptyText \/ CompareSemVer(candidate, cur)
                        THEN cur ELSE candidate
    BY <1>2 DEF RaiseCandidate, TypeInv, Types
  <2>2. \A j \in 1..it : LowerCandidate(lower[j]) \in Text \ {EmptyText}
    BY <2>1, LowerCandidateType
  <2>3. /\ it = 1 => candidate = EmptyText
        /\ it > 1 => \E j \in 1..(it - 1) : candidate = LowerCandidate(lower[j])
        /\ \A j \in 1..(it - 1) : ~CompareSemVer(candidate, LowerCandidate(lower[j]))
    BY <1>2 DEF FoldInv, RaiseCandidate, At
  <2> HIDE DEF cur
  <2>4. CASE it = 1
    <3>1. candidate' = cur /\ it' = 2
      BY <2>1, <2>3, <2>4
    <3>2. cur = LowerCandidate(lower[1]) /\ cur \in Text
      BY <2>1, <2>2, <2>4 DEF cur
    <3>3. QED
      BY <2>1, <3>1, <3>2, CompareSemVerOrder DEF FoldInv
  <2>5. CASE it > 1
    <3>1. candidate # EmptyText
      BY <2>1, <2>2, <2>3, <2>5
    <3>2. cur = LowerCandidate(lower[it]) /\ cur \in Text
      BY <2>1, <2>2 DEF cur
    <3>3. CASE CompareSemVer(candidate, cur)
      <4>1. candidate' = cur
        BY <2>1, <3>3
      <4>2. \A j \in 1..it : ~CompareSemVer(cur, LowerCandidate(lower[j]))
        BY <2>1, <2>2, <2>3, <3>2, <3>3, CompareSemVerOrder
      <4>3. QED
        BY <2>1, <2>5, <3>2, <4>1, <4>2 DEF FoldInv
    <3>4. CASE ~CompareSemVer(candidate, cur)
      <4>1. candidate' = candidate
        BY <2>1, <3>1, <3>4
      <4>2. \A j \in 1..it : ~CompareSemVer(candidate, LowerCandidate(lower[j]))
        BY <2>1, <2>3, <3>2, <3>4
      <4>3. QED
        BY <2>1, <2>3, <2>5, <4>1, <4>2 DEF FoldInv
    <3>5. QED
      BY <3>3, <3>4
  <2>6. QED
    BY <2>1, <2>4, <2>5
<1>3. CASE UNCHANGED <<pc, it, lower, candidate>>
  BY <1>3 DEF FoldInv
<1>4. QED
  BY <1>1, <1>2, <1>3
     DEF Next, vars, Raise, AnswerAtOnce, EnterLoop, TakeStar, EnterSubRange, Return,
         CollectConstraint, ReadPastEnd, LeaveLower, PassUpper, FailUpper,
         LeaveUpper, Commit, At

LEMMA GreatestStep ==
  TypeInv /\ FoldInv /\ CandidateIsGreatestLower /\ [Next]_vars => CandidateIsGreatestLower'
<1> SUFFICES ASSUME TypeInv, FoldInv, CandidateIsGreatestLower, [Next]_vars,
                    pc' = "upper", it' = 1, lower' # <<>>
             PROVE  CandidateIsGreatestLower'
  BY DEF CandidateIsGreatestLower
<1>1. CASE ChooseCandidate
  BY <1>1 DEF ChooseCandidate, At, TypeInv, Position
<1>2. CASE LeaveLower
  <2>1. /\ lower \in Seq(LowerBound) /\ it = Len(lower) + 1 /\ lower # <<>>
        /\ lower' = lower /\ candidate' = candidate
    BY <1>2 DEF LeaveLower, At, FoldInv, TypeInv, Types
  <2>2. it > 1 /\ DOMAIN lower = 1..(it - 1)
    BY <2>1
  <2>3. QED
    BY <1>2, <2>1, <2>2 DEF CandidateIsGreatestLower, FoldInv, LeaveLower, At
<1>3. CASE UNCHANGED <<pc, it, lower, candidate>>
  BY <1>3 DEF CandidateIsGreatestLower
<1>4. CASE PassUpper
  BY <1>4 DEF PassUpper, TypeInv, Types
<1>5. QED
  BY <1>1, <1>2, <1>3, <1>4
     DEF Next, vars, Raise, AnswerAtOnce, EnterLoop, TakeStar, EnterSubRange, Return,
         CollectConstraint, ReadPastEnd, RaiseCandidate, FailUpper, LeaveUpper, Commit, At

(* The candidate that the upper bounds are checked against is the greatest *)
(* of the versions the lower bounds of the sub-range stand for.            *)
THEOREM CandidateCorrect == Spec => []CandidateIsGreatestLower
<1>1. Init => FoldInv /\ CandidateIsGreatestLower
  BY DEF Init, FoldInv, CandidateIsGreatestLower
<1>2. QED
  BY <1>1, TypeInit, TypeStep, FoldStep, GreatestStep, PTL DEF Spec

-----------------------------------------------------------------------------
(* The upper bounds.  A bound that the candidate has passed is only lost   *)
(* when "0.0.0" becomes "0.0.0-0", which happens at most once.             *)

UpperPosition == pc = "upper" => it - 1 <= Len(upper)

LEMMA ZeroBelow == ZeroPre # Zero
BY DEF ZeroPre, Zero, Dotted

LEMMA UpperStep ==
  TypeInv /\ UpperPosition /\ UpperBoundsKept /\ [Next]_vars
    => UpperPosition' /\ UpperBoundsKept'
<1> SUFFICES ASSUME TypeInv, UpperPosition, UpperBoundsKept, [Next]_vars
             PROVE  UpperPosition' /\ UpperBoundsKept'
  OBVIOUS
<1>1. it \in Nat \ {0} /\ upper \in Seq(UpperBound)
  BY DEF TypeInv, Types
<1>2. CASE pc' \notin {"upper", "commit"}
  BY <1>2 DEF UpperPosition, UpperBoundsKept, Passed
<1>3. CASE ChooseCandidate \/ LeaveLower
  <2>1. it' = 1 /\ upper' = upper /\ pc' \in {"lower", "upper"}
    BY <1>3 DEF ChooseCandidate, LeaveLower
  <2>2. Passed' = {}
    BY <2>1 DEF Passed
  <2>3. QED
    BY <1>1, <2>1, <2>2 DEF UpperPosition, UpperBoundsKept
<1>4. CASE PassUpper
  <2>1. /\ pc = "upper" /\ pc' = "upper" /\ upper' = upper
        /\ it \in 1..Len(upper) /\ it' = it + 1
        /\ MeetsBound(Adjusted, upper[it])
        /\ candidate' = Adjusted
    BY <1>1, <1>4 DEF PassUpper, At, MeetsBound
  <2>2. Passed = 1..(it - 1) /\ Passed' = 1..it
    BY <1>1, <2>1 DEF Passed
  <2>3. CASE Adjusted = candidate
    <3> SUFFICES ASSUME NEW i \in 1..it
                 PROVE  \/ MeetsBound(candidate, upper[i])
                        \/ /\ candidate = ZeroPre /\ MeetsBound(Zero, upper[i])
                           /\ \E j \in 1..it : i < j /\ upper[j] = BelowZeroBeta
      BY <1>1, <2>1, <2>2, <2>3 DEF UpperPosition, UpperBoundsKept, MeetsBound
    <3>1. CASE i = it
      BY <2>1, <2>3, <3>1
    <3>2. CASE i # it
      BY <1>1, <2>2, <3>2 DEF UpperBoundsKept
    <3>3. QED
      BY <3>1, <3>2
  <2>4. CASE Adjusted # candidate
    <3>1. candidate = Zero /\ Adjusted = ZeroPre /\ upper[it] = BelowZeroBeta
      BY <2>4 DEF Adjusted
    <3> SUFFICES ASSUME NEW i \in 1..it
                 PROVE  \/ MeetsBound(ZeroPre, upper[i])
                        \/ /\ MeetsBound(Zero, upper[i])
                           /\ \E j \in 1..it : i < j /\ upper[j] = BelowZeroBeta
      BY <1>1, <2>1, <2>2, <3>1 DEF UpperPosition, UpperBoundsKept, MeetsBound
    <3>2. CASE i = it
      BY <2>1, <3>1, <3>2
    <3>3. CASE i # it
      <4>1. i \in 1..(it - 1) /\ i < it
        BY <1>1, <3>3
      <4>2. MeetsBound(Zero, upper[i])
        BY <2>2, <3>1, <4>1, ZeroBelow DEF UpperBoundsKept
      <4>3. QED
        BY <1>1, <3>1, <4>1, <4>2
    <3>4. QED
      BY <3>2, <3>3
  <2>5. QED
    BY <2>3, <2>4
<1>5. CASE LeaveUpper /\ pc' = "commit"
  <2>1. /\ pc = "upper" /\ it > Len(upper)
        /\ UNCHANGED <<it, upper, candidate>>
    BY <1>5 DEF LeaveUpper, At
  <2>2. Passed' = 1..Len(upper) /\ Passed = 1..Len(upper)
    BY <1>1, <1>5, <2>1 DEF Passed, UpperPosition
  <2>3. QED
    BY <1>5, <2>1, <2>2 DEF UpperPosition, UpperBoundsKept, MeetsBound
<1>6. CASE UNCHANGED <<pc, it, upper, candidate>>
  BY <1>6 DEF UpperPosition, UpperBoundsKept, Passed, MeetsBound
<1>7. QED
  BY <1>2, <1>3, <1>4, <1>5, <1>6
     DEF Next, vars, Raise, AnswerAtOnce, EnterLoop, TakeStar, EnterSubRange, Return,
         CollectConstraint, ReadPastEnd, RaiseCandidate, FailUpper, LeaveUpper, Commit, At

(* A candidate that is offered as the answer satisfies every upper bound   *)
(* of its sub-range, except "0.0.0-0" those that "0.0.0" had passed before *)
(* "<0.0.0-beta" changed it.                                               *)
THEOREM UpperBoundsCorrect == Spec => []UpperBoundsKept
<1>1. Init => UpperPosition /\ UpperBoundsKept
  BY DEF Init, UpperPosition, UpperBoundsKept, Passed
<1>2. QED
  BY <1>1, TypeInit, TypeStep, UpperStep, PTL DEF Spec

-----------------------------------------------------------------------------
(* The answer against the range: what is offered meets a sub-range, no     *)
(* release below the answer does, and "^v" and "~v" offer v.               *)

Elements(s) == {s[i] : i \in DOMAIN s}

LowersOf(s, I) == UNION {Elements(LowerOf(s.constraints[i])) : i \in I}
UppersOf(s, I) == UNION {Elements(UpperOf(s.constraints[i])) : i \in I}

(* The labels inside the loop over the sub-ranges, and the constraints of  *)
(* the current one that have been read there.                              *)
Inner == {"constraints", "lower", "upper", "commit"}
Gone  == IF pc = "constraints" THEN 1..(it - 1) ELSE DOMAIN Current.constraints

(* The two vectors hold the bounds of the constraints read so far, all of  *)
(* which could be computed.                                                *)
Gathered ==
  pc \in Inner =>
    /\ pc = "constraints" => it <= Len(Current.constraints) + 1
    /\ Elements(lower) = LowersOf(Current, Gone)
    /\ Elements(upper) = UppersOf(Current, Gone)
    /\ \A i \in Gone : /\ ~BoundThrows(Current.constraints[i])
                       /\ ~Missing(Current.constraints[i])

(* What the loop over the lower bounds makes the candidate, or what it is  *)
(* without any.                                                            *)
Folded(t) ==
  IF lower = <<>> THEN t = Zero
  ELSE /\ \E b \in Elements(lower) : t = LowerCandidate(b)
       /\ \A b \in Elements(lower) : ~CompareSemVer(t, LowerCandidate(b))

PassedBounds == {upper[i] : i \in Passed}

(* The candidate whose upper bounds are checked.  Once "<0.0.0-beta" has   *)
(* made it "0.0.0-0", it is "0.0.0" that has passed them all.              *)
Candidacy ==
  pc \in {"upper", "commit"} =>
    IF Current.bare THEN candidate = BareCandidate(Current)
    ELSE \/ /\ Folded(candidate)
            /\ \A b \in PassedBounds : MeetsBound(candidate, b)
         \/ /\ candidate = ZeroPre /\ Folded(Zero)
            /\ BelowZeroBeta \in PassedBounds
            /\ \A b \in PassedBounds : MeetsBound(Zero, b)

(* The sub-ranges whose turn is over.                                      *)
Over == IF outcome = "returned" THEN DOMAIN range.subs
        ELSE {i \in DOMAIN range.subs : i < sub}

Answers(t, s) == Meets(t, s) \/ (t = ZeroPre /\ ChangesZero(s) /\ Meets(Zero, s))

OffersMeet ==
  ~range.hyphen /\ (\A i \in DOMAIN range.subs : HasSuccessors(range.subs[i])) =>
    \A t \in offered : \E i \in DOMAIN range.subs : Answers(t, range.subs[i])

NothingBelowOffers ==
  ~range.hyphen =>
    \A i \in Over : \A r \in Releases :
      SkipsNone(range.subs[i]) /\ Meets(r, range.subs[i]) =>
        \E t \in offered : ~CompareSemVer(r, t)

BoundsOfferThemselves ==
  ~range.hyphen =>
    \A i \in Over :
      LET cs == range.subs[i].constraints
      IN Len(cs) = 1 => (AnswersItself(cs[1]) => cs[1].ver \in offered)
-----------------------------------------------------------------------------
(* Elements of vectors.                                                    *)

LEMMA ElementsJoined ==
  ASSUME NEW S, NEW a \in Seq(S), NEW b \in Seq(S)
  PROVE  Elements(a \o b) = Elements(a) \cup Elements(b)
<1> DEFINE t == a \o b
<1>1. /\ t \in Seq(S) /\ Len(t) = Len(a) + Len(b)
      /\ \A i \in 1..(Len(a) + Len(b)) : t[i] = IF i <= Len(a) THEN a[i] ELSE b[i - Len(a)]
  OBVIOUS
<1>2. PICK m \in Nat, n \in Nat : m = Len(a) /\ n = Len(b)
  OBVIOUS
<1> HIDE DEF t
<1>3. /\ DOMAIN t = 1..(m + n) /\ DOMAIN a = 1..m /\ DOMAIN b = 1..n
      /\ \A i \in 1..(m + n) : t[i] = IF i <= m THEN a[i] ELSE b[i - m]
  BY <1>1, <1>2
<1>4. ASSUME NEW x \in Elements(t)
      PROVE  x \in Elements(a) \cup Elements(b)
  <2>1. PICK i \in 1..(m + n) : x = t[i]
    BY <1>3 DEF Elements
  <2>2. CASE i <= m
    BY <1>3, <2>1, <2>2 DEF Elements
  <2>3. CASE ~(i <= m)
    <3>1. i - m \in 1..n
      BY <2>3
    <3>2. QED
      BY <1>3, <2>1, <2>3, <3>1 DEF Elements
  <2>4. QED
    BY <2>2, <2>3
<1>5. ASSUME NEW x \in Elements(a)
      PROVE  x \in Elements(t)
  <2>1. PICK i \in 1..m : x = a[i]
    BY <1>3 DEF Elements
  <2>2. i \in 1..(m + n) /\ i <= m
    OBVIOUS
  <2>3. QED
    BY <1>3, <2>1, <2>2 DEF Elements
<1>6. ASSUME NEW x \in Elements(b)
      PROVE  x \in Elements(t)
  <2>1. PICK i \in 1..n : x = b[i]
    BY <1>3 DEF Elements
  <2>2. m + i \in 1..(m + n) /\ ~(m + i <= m) /\ (m + i) - m = i
    OBVIOUS
  <2>3. QED
    BY <1>3, <2>1, <2>2 DEF Elements
<1>7. QED
  BY <1>4, <1>5, <1>6 DEF t

LEMMA ElementsType ==
  ASSUME NEW S, NEW s \in Seq(S)
  PROVE  Elements(s) \subseteq S /\ (Elements(s) = {} <=> s = <<>>)
<1>1. Elements(s) \subseteq S
  BY DEF Elements
<1>2. CASE s = <<>>
  BY <1>1, <1>2 DEF Elements
<1>3. CASE s # <<>>
  <2>1. 1 \in DOMAIN s
    BY <1>3
  <2>2. QED
    BY <1>1, <1>3, <2>1 DEF Elements
<1>4. QED
  BY <1>2, <1>3

-----------------------------------------------------------------------------
(* The bounds of a sub-range are those that are gathered from it.          *)

LEMMA MeetsAllBounds ==
  ASSUME NEW s \in SubRange, ~s.bare, NEW t
  PROVE  Meets(t, s) <=>
           /\ \A b \in LowersOf(s, DOMAIN s.constraints) : MeetsBound(t, b)
           /\ \A b \in UppersOf(s, DOMAIN s.constraints) : MeetsBound(t, b)
<1> DEFINE I == DOMAIN s.constraints
           L(i) == LowerOf(s.constraints[i])
           U(i) == UpperOf(s.constraints[i])
<1>1. Meets(t, s) <=> \A i \in I : /\ \A j \in DOMAIN L(i) : MeetsBound(t, L(i)[j])
                                  /\ \A j \in DOMAIN U(i) : MeetsBound(t, U(i)[j])
  BY DEF Meets
<1>2. /\ LowersOf(s, I) = UNION {Elements(L(i)) : i \in I}
      /\ UppersOf(s, I) = UNION {Elements(U(i)) : i \in I}
  BY DEF LowersOf, UppersOf
<1> HIDE DEF I, L, U
<1>3. /\ \A i : (\A b \in Elements(L(i)) : MeetsBound(t, b))
                <=> \A j \in DOMAIN L(i) : MeetsBound(t, L(i)[j])
      /\ \A i : (\A b \in Elements(U(i)) : MeetsBound(t, b))
                <=> \A j \in DOMAIN U(i) : MeetsBound(t, U(i)[j])
  BY DEF Elements
<1>4. /\ (\A b \in LowersOf(s, I) : MeetsBound(t, b))
            <=> \A i \in I : \A b \in Elements(L(i)) : MeetsBound(t, b)
      /\ (\A b \in UppersOf(s, I) : MeetsBound(t, b))
            <=> \A i \in I : \A b \in Elements(U(i)) : MeetsBound(t, b)
  BY <1>2
<1>5. QED
  BY <1>1, <1>3, <1>4 DEF I

LEMMA GatheredStep ==
  ASSUME TypeInv, Gathered, [Next]_vars
  PROVE  Gathered'
<1>1. CASE pc' \notin Inner
  BY <1>1 DEF Gathered
<1>2. CASE EnterSubRange
  <2>1. pc' = "constraints" /\ it' = 1 /\ lower' = <<>> /\ upper' = <<>>
        /\ range' = range /\ sub' = sub /\ MoreSubRanges
    BY <1>2 DEF EnterSubRange
  <2>2. Current' = Current /\ Current.constraints \in Seq(Constraint)
    BY <2>1, RangeFields, SubRangeFields DEF Current, TypeInv
  <2>3. Gone' = {}
    BY <2>1 DEF Gone
  <2>4. Len(Current.constraints) \in Nat
    BY <2>2
  <2>5. QED
    BY <2>1, <2>2, <2>3, <2>4 DEF Gathered, LowersOf, UppersOf, Elements
<1>3. CASE CollectConstraint
  <2> DEFINE cs == Current.constraints
             c == cs[it]
  <2>1. /\ pc = "constraints" /\ pc' = pc /\ it' = it + 1 /\ it <= Len(cs)
        /\ lower' = lower \o LowerOf(c) /\ upper' = upper \o UpperOf(c)
        /\ range' = range /\ sub' = sub
    BY <1>3 DEF CollectConstraint, At
  <2>2. cs \in Seq(Constraint) /\ it \in Nat \ {0} /\ Current' = Current
    BY <2>1, RangeFields, SubRangeFields DEF TypeInv, Types, Position, Current
  <2>3. c \in Constraint
    BY <2>1, <2>2
  <2>4. ~BoundThrows(c) /\ ~Missing(c)
    BY <1>3, <2>1 DEF CollectConstraint, At, Throws
  <2>5. LowerOf(c) \in Seq(LowerBound) /\ UpperOf(c) \in Seq(UpperBound)
    BY <2>3, <2>4, LowerOfType, UpperOfType
  <2>6. lower \in Seq(LowerBound) /\ upper \in Seq(UpperBound)
    BY DEF TypeInv, Types
  <2>7. Gone = 1..(it - 1) /\ Gone' = Gone \cup {it}
    BY <2>1, <2>2 DEF Gone
  <2>8. /\ Elements(lower') = Elements(lower) \cup Elements(LowerOf(c))
        /\ Elements(upper') = Elements(upper) \cup Elements(UpperOf(c))
    BY <2>1, <2>5, <2>6, ElementsJoined
  <2>9. /\ LowersOf(Current, Gone') = LowersOf(Current, Gone) \cup Elements(LowerOf(c))
        /\ UppersOf(Current, Gone') = UppersOf(Current, Gone) \cup Elements(UpperOf(c))
    BY <2>7 DEF LowersOf, UppersOf
  <2>10. /\ Elements(lower) = LowersOf(Current, Gone)
         /\ Elements(upper) = UppersOf(Current, Gone)
         /\ \A i \in Gone : ~BoundThrows(cs[i]) /\ ~Missing(cs[i])
    BY <2>1 DEF Gathered, Inner
  <2>11. Len(cs) \in Nat
    BY <2>2
  <2>12. it' <= Len(cs) + 1
    BY <2>1, <2>2, <2>11
  <2>13. \A i \in Gone' : ~BoundThrows(cs[i]) /\ ~Missing(cs[i])
    BY <2>4, <2>7, <2>10
  <2> HIDE DEF c
  <2>14. /\ Elements(lower)' = Elements(lower')
         /\ Elements(upper)' = Elements(upper')
         /\ LowersOf(Current, Gone)' = LowersOf(Current', Gone')
         /\ UppersOf(Current, Gone)' = UppersOf(Current', Gone')
    OBVIOUS
  <2>15. QED
    BY <2>2, <2>8, <2>9, <2>10, <2>12, <2>13, <2>14 DEF Gathered, BoundThrows, Missing
<1>4. CASE ChooseCandidate
  <2>1. /\ pc = "constraints" /\ pc' \in {"lower", "upper"}
        /\ it > Len(Current.constraints)
        /\ UNCHANGED <<range, sub, lower, upper>>
    BY <1>4 DEF ChooseCandidate, At
  <2>2. Current.constraints \in Seq(Constraint) /\ Current' = Current /\ it \in Nat
    BY <2>1, RangeFields, SubRangeFields DEF TypeInv, Types, Position, Current
  <2>3. /\ it <= Len(Current.constraints) + 1
        /\ Elements(lower) = LowersOf(Current, Gone)
        /\ Elements(upper) = UppersOf(Current, Gone)
        /\ \A i \in Gone : /\ ~BoundThrows(Current.constraints[i])
                           /\ ~Missing(Current.constraints[i])
    BY <2>1 DEF Gathered, Inner
  <2>4. Gone = DOMAIN Current.constraints /\ Gone' = DOMAIN Current.constraints
    BY <2>1, <2>2, <2>3 DEF Gone
  <2>5. pc' # "constraints"
    BY <2>1
  <2>6. QED
    BY <2>1, <2>2, <2>3, <2>4, <2>5 DEF Gathered, BoundThrows, Missing
<1>5. CASE /\ pc \in {"lower", "upper", "commit"} /\ pc' \in {"lower", "upper", "commit"}
           /\ UNCHANGED <<range, sub, lower, upper>>
  <2>1. Current' = Current /\ Gone' = Gone
    BY <1>5 DEF Current, Gone
  <2>2. QED
    BY <1>5, <2>1 DEF Gathered, Inner, BoundThrows, Missing
<1>6. CASE UNCHANGED <<range, pc, sub, it, lower, upper>>
  BY <1>6 DEF Gathered, Gone, Current, BoundThrows, Missing
<1>7. QED
  BY <1>1, <1>2, <1>3, <1>4, <1>5, <1>6
     DEF Next, vars, Raise, AnswerAtOnce, EnterLoop, TakeStar, Return, ReadPastEnd,
         RaiseCandidate, LeaveLower, PassUpper, FailUpper, LeaveUpper, Commit, At, Inner
-----------------------------------------------------------------------------
(* "0.0.0", "0.0.0-0" and "0.0.0-beta".                                    *)

LEMMA ZeroExtended ==
  ASSUME NEW w \in Piece, w # EmptyPiece
  PROVE  /\ [nums |-> Zero.nums, pre |-> <<w>>] \in Text
         /\ CompareSemVer(Zero, [nums |-> Zero.nums, pre |-> <<w>>])
<1> DEFINE t == [nums |-> Zero.nums, pre |-> <<w>>]
<1>1. Zero.nums \in Seq(Piece) \ {<<>>} /\ Zero.pre = <<>>
  <2>1. Zero \in Text
    BY LiteralTypes
  <2>2. Zero.pre = <<>>
    BY DottedParts DEF Zero
  <2>3. QED
    BY <2>1, <2>2 DEF Text
<1>2. t \in Text
  BY <1>1 DEF Text
<1>3. Split(Zero) = DropTrailingEmpty(Zero.nums \o <<>>)
  BY <1>1 DEF Split
<1>4. Split(t) = DropTrailingEmpty(Zero.nums \o Append(<<>>, w))
  <2>1. Append(<<>>, w) = <<w>>
    OBVIOUS
  <2>2. QED
    BY <2>1 DEF Split
<1>5. PartsLess(DropTrailingEmpty(Zero.nums \o <<>>), DropTrailingEmpty(Zero.nums \o Append(<<>>, w)))
  <2>1. <<>> \in Seq(Piece) /\ \A i \in 1..Len(Zero.nums) : SamePart(Zero.nums[i], Zero.nums[i])
    BY DEF SamePart
  <2>2. QED
    BY <1>1, <2>1, OneMorePart
<1>6. QED
  BY <1>2, <1>3, <1>4, <1>5 DEF CompareSemVer

LEMMA ZeroIsBelow ==
  /\ ZeroBeta \in Text /\ CompareSemVer(Zero, ZeroBeta)
  /\ ZeroPre \in Text /\ CompareSemVer(Zero, ZeroPre)
<1>1. Beta \in Piece /\ Beta # EmptyPiece /\ Num(0) \in Piece /\ Num(0) # EmptyPiece
  BY NumPiece DEF Beta, EmptyPiece, Word, EmptyRank, Num, Piece, Tag
<1>2. QED
  BY <1>1, ZeroExtended DEF ZeroBeta, ZeroPre

(* What "0.0.0-0" satisfies, "0.0.0" does.                                 *)
LEMMA ZeroMeetsUpper ==
  ASSUME NEW b \in UpperBound, MeetsBound(ZeroPre, b)
  PROVE  MeetsBound(Zero, b)
<1>1. b.op \in {"<", "<="} /\ b.ver \in Text
  BY DEF UpperBound
<1>2. ~CompareSemVer(ZeroPre, Zero)
  BY ZeroIsBelow, LiteralTypes, CompareSemVerOrder
<1>3. QED
  BY <1>1, <1>2, ZeroIsBelow, LiteralTypes, LowerMeetsUpper DEF MeetsBound

(* No upper bound that the code computes is the text "0.0.0-beta".         *)
LEMMA DottedIsNotZeroBeta ==
  ASSUME NEW m \in Int, NEW n \in Int, NEW p \in Int
  PROVE  Dotted(m, n, p) # ZeroBeta
<1>1. Dotted(m, n, p).pre = <<>> \/ IsNum(Dotted(m, n, p).pre[1])
  BY DEF Dotted, Num, IsNum
<1>2. ZeroBeta.pre # <<>> /\ ~IsNum(ZeroBeta.pre[1])
  BY DEF ZeroBeta, Beta, Word, IsNum
<1>3. QED
  BY <1>1, <1>2

LEMMA CaretIsNotZeroBeta ==
  ASSUME NEW t \in Text
  PROVE  ComputeCaretUpperBound(t) # ZeroBeta
<1>1. CASE Match(t) = <<>>
  <2>1. EmptyText.pre = <<>> /\ ZeroBeta.pre # <<>>
    BY DEF EmptyText, ZeroBeta
  <2>2. QED
    BY <1>1, <2>1 DEF ComputeCaretUpperBound
<1>2. CASE Match(t) # <<>>
  <2>1. PICK m \in Nat, n \in Nat, p \in Nat : Coerce(t) = Dotted(m, n, p)
    BY <1>2, CoerceType
  <2>2. Dotted(m, n, p).nums = <<Num(m), Num(n), Num(p)>>
    BY DottedParts
  <2>3. Plus1(m) \in Int /\ Plus1(n) \in Int /\ Plus1(p) \in Int
    BY Plus1Type
  <2>4. ComputeCaretUpperBound(t) \in
          {Dotted(Plus1(m), 0, 0), Dotted(0, Plus1(n), 0), Dotted(0, 0, Plus1(p))}
    BY <1>2, <2>1, <2>2 DEF ComputeCaretUpperBound, Num
  <2>5. QED
    BY <2>3, <2>4, DottedIsNotZeroBeta
<1>3. QED
  BY <1>1, <1>2

LEMMA TildeIsNotZeroBeta ==
  ASSUME NEW t \in Text, Match(t) # <<>>, ~TildeThrows(t), ~TildeReadsPastEnd(t)
  PROVE  ComputeTildeUpperBound(t) # ZeroBeta
<1>1. DotParts(t) \in Seq(Piece)
  BY DotPartsType
<1>2. /\ 1 \in DOMAIN DotParts(t) /\ FitsInt(DotParts(t)[1])
      /\ 2 \in DOMAIN DotParts(t) /\ FitsInt(DotParts(t)[2])
  BY <1>1 DEF TildeThrows, TildeReadsPastEnd
<1>3. DotParts(t)[1].val \in Nat /\ DotParts(t)[2].val \in Nat
  BY <1>1, <1>2, PieceFields DEF FitsInt
<1>4. Plus1(DotParts(t)[2].val) \in Int
  BY <1>3, Plus1Type
<1>5. QED
  BY <1>3, <1>4, DottedIsNotZeroBeta DEF ComputeTildeUpperBound
(* Only the constraint "<0.0.0-beta" adds the bound of that name.          *)
LEMMA ChangeIsWritten ==
  ASSUME TypeInv, Gathered, pc \in {"upper", "commit"}, BelowZeroBeta \in Elements(upper)
  PROVE  ChangesZero(Current)
<1> DEFINE cs == Current.constraints
<1>1. cs \in Seq(Constraint)
  BY RangeFields, SubRangeFields DEF TypeInv, Position
<1>2. PICK i \in DOMAIN cs : /\ BelowZeroBeta \in Elements(UpperOf(cs[i]))
                            /\ ~BoundThrows(cs[i]) /\ ~Missing(cs[i])
  BY DEF Gathered, Inner, Gone, UppersOf
<1> DEFINE c == cs[i]
<1>3. c \in Constraint
  BY <1>1
<1> HIDE DEF c
<1>4. c.ver \in Text /\ BelowZeroBeta.ver = ZeroBeta
  BY <1>3, ConstraintFields DEF BelowZeroBeta
<1>5. BelowZeroBeta \in Elements(UpperOf(c)) /\ ~BoundThrows(c) /\ ~Missing(c)
  BY <1>2 DEF c
<1>6. CASE c.op = "^"
  <2>1. BelowZeroBeta.ver = ComputeCaretUpperBound(c.ver)
    BY <1>5, <1>6 DEF UpperOf, Elements
  <2>2. QED
    BY <1>4, <2>1, CaretIsNotZeroBeta
<1>7. CASE c.op = "~" /\ Match(c.ver) # <<>>
  <2>1. BelowZeroBeta.ver = ComputeTildeUpperBound(c.ver)
    BY <1>5, <1>7 DEF UpperOf, Elements
  <2>2. QED
    BY <1>4, <1>5, <1>7, <2>1, TildeIsNotZeroBeta DEF BoundThrows, Missing
<1>8. CASE ~(c.op = "^") /\ ~(c.op = "~" /\ Match(c.ver) # <<>>)
  <2>1. BelowZeroBeta = c
    BY <1>5, <1>8 DEF UpperOf, Elements
  <2>2. QED
    BY <2>1 DEF c, ChangesZero
<1>9. QED
  BY <1>6, <1>7, <1>8

-----------------------------------------------------------------------------
(* The candidate.                                                          *)

LEMMA BareHasNoBounds ==
  ASSUME TypeInv, Gathered, pc \in {"lower", "upper", "commit"}, Current.bare
  PROVE  lower = <<>> /\ upper = <<>>
<1>1. Current.constraints = <<>>
  BY RangeFields, SubRangeFields DEF TypeInv, Position
<1>2. Elements(lower) = {} /\ Elements(upper) = {}
  BY <1>1 DEF Gathered, Inner, Gone, LowersOf, UppersOf
<1>3. QED
  BY <1>2, ElementsType DEF TypeInv, Types

LEMMA CandidacyStep ==
  ASSUME TypeInv, FoldInv, UpperPosition, Gathered, Candidacy, [Next]_vars
  PROVE  Candidacy'
<1>1. it \in Nat \ {0} /\ upper \in Seq(UpperBound) /\ lower \in Seq(LowerBound)
  BY DEF TypeInv, Types
<1>2. CASE pc' \notin {"upper", "commit"}
  BY <1>2 DEF Candidacy
<1>3. CASE ChooseCandidate /\ pc' = "upper"
  <2>1. /\ range' = range /\ sub' = sub /\ lower' = lower /\ upper' = upper /\ it' = 1
    BY <1>3 DEF ChooseCandidate
  <2>2. Current' = Current /\ Passed' = {}
    BY <1>3, <2>1 DEF Current, Passed
  <2>3. \/ Current.bare /\ candidate' = BareCandidate(Current)
        \/ ~Current.bare /\ lower = <<>> /\ candidate' = Zero
    BY <1>3 DEF ChooseCandidate
  <2>4. ~Current.bare => Folded(candidate)'
    BY <2>1, <2>3 DEF Folded
  <2>5. PassedBounds' = {}
    BY <2>2 DEF PassedBounds
  <2>6. QED
    BY <2>2, <2>3, <2>4, <2>5 DEF Candidacy, BareCandidate, Coerce
<1>4. CASE LeaveLower
  <2>1. /\ pc = "lower" /\ it > Len(lower) /\ it' = 1 /\ pc' = "upper"
        /\ UNCHANGED <<range, sub, lower, upper, candidate>>
    BY <1>4 DEF LeaveLower, At
  <2>2. Current' = Current /\ Passed' = {}
    BY <2>1 DEF Current, Passed
  <2>3. /\ lower # <<>> /\ it = Len(lower) + 1
        /\ it > 1 => \E j \in 1..(it - 1) : candidate = LowerCandidate(lower[j])
        /\ \A j \in 1..(it - 1) : ~CompareSemVer(candidate, LowerCandidate(lower[j]))
    BY <1>1, <2>1 DEF FoldInv
  <2>4. it > 1 /\ DOMAIN lower = 1..(it - 1)
    BY <1>1, <2>3
  <2>5. Folded(candidate)
    BY <2>3, <2>4 DEF Folded, Elements
  <2>6. Folded(candidate)'
    BY <2>1, <2>5 DEF Folded
  <2>7. ~Current.bare
    BY <2>1, <2>3, BareHasNoBounds
  <2>8. PassedBounds' = {}
    BY <2>2 DEF PassedBounds
  <2>9. QED
    BY <2>2, <2>6, <2>7, <2>8 DEF Candidacy
<1>5. CASE PassUpper
  <2>1. /\ pc = "upper" /\ pc' = "upper"
        /\ it \in 1..Len(upper) /\ it' = it + 1
        /\ MeetsBound(Adjusted, upper[it])
        /\ candidate' = Adjusted
        /\ UNCHANGED <<range, sub, lower, upper>>
    BY <1>1, <1>5 DEF PassUpper, At, MeetsBound
  <2>2. Current' = Current /\ ~Current.bare
    <3>1. upper # <<>>
      BY <1>1, <2>1
    <3>2. QED
      BY <2>1, <3>1, BareHasNoBounds DEF Current
  <2>3. PassedBounds' = PassedBounds \cup {upper[it]}
    <3>1. Passed = 1..(it - 1) /\ Passed' = Passed \cup {it}
      BY <1>1, <2>1 DEF Passed
    <3>2. QED
      BY <2>1, <3>1 DEF PassedBounds
  <2>4. upper[it] \in UpperBound
    BY <1>1, <2>1
  <2>5. \A t : Folded(t)' <=> Folded(t)
    BY <2>1 DEF Folded
  <2>6. \A t, b : MeetsBound(t, b)' <=> MeetsBound(t, b)
    BY DEF MeetsBound
  <2>7. CASE Adjusted # candidate
    <3>1. candidate = Zero /\ Adjusted = ZeroPre /\ upper[it] = BelowZeroBeta
      BY <2>7 DEF Adjusted
    <3>2. Folded(Zero) /\ \A b \in PassedBounds : MeetsBound(Zero, b)
      BY <2>1, <2>2, <3>1, ZeroBelow DEF Candidacy
    <3>3. MeetsBound(Zero, upper[it])
      BY <2>1, <2>4, <3>1, ZeroMeetsUpper
    <3>4. /\ candidate' = ZeroPre /\ Folded(Zero) /\ BelowZeroBeta \in PassedBounds'
          /\ \A b \in PassedBounds' : MeetsBound(Zero, b)
      BY <2>1, <2>3, <3>1, <3>2, <3>3
    <3>5. QED
      BY <2>1, <2>2, <2>5, <2>6, <3>4 DEF Candidacy
  <2>8. CASE Adjusted = candidate
    <3>1. CASE Folded(candidate) /\ \A b \in PassedBounds : MeetsBound(candidate, b)
      <4>1. /\ candidate' = candidate /\ Folded(candidate)
            /\ \A b \in PassedBounds' : MeetsBound(candidate, b)
        BY <2>1, <2>3, <2>8, <3>1
      <4>2. QED
        BY <2>1, <2>2, <2>5, <2>6, <4>1 DEF Candidacy
    <3>2. CASE /\ candidate = ZeroPre /\ Folded(Zero)
               /\ BelowZeroBeta \in PassedBounds
               /\ \A b \in PassedBounds : MeetsBound(Zero, b)
      <4>1. MeetsBound(Zero, upper[it])
        BY <2>1, <2>4, <2>8, <3>2, ZeroMeetsUpper
      <4>2. /\ candidate' = ZeroPre /\ Folded(Zero) /\ BelowZeroBeta \in PassedBounds'
            /\ \A b \in PassedBounds' : MeetsBound(Zero, b)
        BY <2>1, <2>3, <2>8, <3>2, <4>1
      <4>3. QED
        BY <2>1, <2>2, <2>5, <2>6, <4>2 DEF Candidacy
    <3>3. QED
      BY <2>1, <2>2, <3>1, <3>2 DEF Candidacy
  <2>9. QED
    BY <2>7, <2>8
<1>6. CASE LeaveUpper /\ pc' = "commit"
  <2>1. /\ pc = "upper" /\ it > Len(upper) /\ UNCHANGED <<range, sub, lower, upper, candidate>>
    BY <1>6 DEF LeaveUpper, At
  <2>2. Passed' = DOMAIN upper /\ Passed = DOMAIN upper
    BY <1>1, <1>6, <2>1 DEF Passed, UpperPosition
  <2>3. PassedBounds' = PassedBounds /\ Current' = Current
    BY <2>1, <2>2 DEF PassedBounds, Current
  <2>4. Folded(candidate)' <=> Folded(candidate)
    BY <2>1 DEF Folded
  <2>5. Folded(Zero)' <=> Folded(Zero)
    BY <2>1 DEF Folded
  <2>6. QED
    BY <2>1, <2>3, <2>4, <2>5 DEF Candidacy, MeetsBound, BareCandidate
<1>7. CASE UNCHANGED <<range, pc, sub, it, lower, upper, candidate>>
  BY <1>7 DEF Candidacy, Folded, PassedBounds, Passed, Current, MeetsBound, Elements
<1>8. QED
  BY <1>2, <1>3, <1>4, <1>5, <1>6, <1>7
     DEF Next, vars, Raise, AnswerAtOnce, EnterLoop, TakeStar, EnterSubRange, Return,
         CollectConstraint, ReadPastEnd, ChooseCandidate, RaiseCandidate, FailUpper,
         LeaveUpper, Commit, At
-----------------------------------------------------------------------------
(* A folded candidate satisfies every lower bound, and no release that     *)
(* satisfies them is below it.                                             *)

LEMMA LowerIsMet ==
  ASSUME NEW b \in LowerBound, b.op = ">" => HasSuccessor(b.ver),
         NEW t \in Text, ~CompareSemVer(t, LowerCandidate(b))
  PROVE  MeetsBound(t, b)
<1>1. b.op \in {">", ">="} /\ b.ver \in Text
  BY DEF LowerBound
<1>2. CASE b.op = ">="
  BY <1>2 DEF LowerCandidate, MeetsBound, SatisfiesConstraint
<1>3. CASE b.op = ">"
  <2> DEFINE u == IncrementVersion(b.ver)
  <2>1. HasSuccessor(b.ver) /\ u # NoText /\ LowerCandidate(b) = u
    BY <1>3 DEF HasSuccessor, LowerCandidate
  <2>2. u \in Text
    BY <1>1, <2>1, IncrementVersionType
  <2>3. CompareSemVer(b.ver, u)
    BY <1>1, <2>1, ReleaseIncreases, PreReleaseIncreases DEF HasSuccessor
  <2> HIDE DEF u
  <2>4. SatisfiesConstraint(t, ">", b.ver)
    BY <1>1, <2>1, <2>2, <2>3, AboveSuccessor
  <2>5. QED
    BY <1>3, <2>4 DEF MeetsBound
<1>4. QED
  BY <1>1, <1>2, <1>3

LEMMA ReleaseIsNotBelow ==
  ASSUME NEW b \in LowerBound, b.op = ">" => 3 \in DOMAIN b.ver.nums,
         NEW r \in Releases, MeetsBound(r, b)
  PROVE  ~CompareSemVer(r, LowerCandidate(b))
<1>1. b.op \in {">", ">="} /\ b.ver \in Text
  BY DEF LowerBound
<1>2. r \in Text
  BY ReleaseParts
<1>3. CASE b.op = ">="
  <2>1. r = b.ver \/ ~CompareSemVer(r, b.ver)
    BY <1>3 DEF MeetsBound, SatisfiesConstraint
  <2>2. LowerCandidate(b) = b.ver
    BY <1>3 DEF LowerCandidate
  <2>3. QED
    BY <1>2, <2>1, <2>2, CompareSemVerOrder
<1>4. CASE b.op = ">"
  <2>1. CompareSemVer(b.ver, r)
    BY <1>4 DEF MeetsBound, SatisfiesConstraint
  <2>2. CASE IncrementVersion(b.ver) = NoText
    <3>1. LowerCandidate(b) = b.ver
      BY <2>2 DEF LowerCandidate
    <3>2. QED
      BY <1>1, <1>2, <2>1, <3>1, CompareSemVerOrder
  <2>3. CASE IncrementVersion(b.ver) # NoText
    <3>1. LowerCandidate(b) = IncrementVersion(b.ver)
      BY <1>4, <2>3 DEF LowerCandidate
    <3>2. QED
      BY <1>1, <1>4, <2>1, <2>3, <3>1, NothingBetween
  <2>4. QED
    BY <2>2, <2>3
<1>5. QED
  BY <1>1, <1>3, <1>4

(* A lower bound with ">" is a constraint of the sub-range.                *)
LEMMA AboveIsWritten ==
  ASSUME TypeInv, Gathered, pc \in {"upper", "commit"},
         NEW b \in Elements(lower), b.op = ">"
  PROVE  b \in LowerBound /\ \E i \in DOMAIN Current.constraints : b = Current.constraints[i]
<1> DEFINE cs == Current.constraints
<1>1. PICK i \in DOMAIN cs : b \in Elements(LowerOf(cs[i]))
  BY DEF Gathered, Inner, Gone, LowersOf
<1>2. b \in LowerBound
  BY ElementsType DEF TypeInv, Types
<1> DEFINE c == cs[i]
<1> HIDE DEF c
<1>3. b \in Elements(LowerOf(c))
  BY <1>1 DEF c
<1>4. b = c
  BY <1>3 DEF LowerOf, Elements
<1>5. QED
  BY <1>2, <1>4 DEF c

LEMMA FoldedMeets ==
  ASSUME TypeInv, Gathered, pc = "commit", ~Current.bare, HasSuccessors(Current),
         NEW t \in Text, Folded(t), \A b \in PassedBounds : MeetsBound(t, b)
  PROVE  Meets(t, Current)
<1>1. Current \in SubRange
  BY RangeFields DEF TypeInv, Position
<1>2. /\ Elements(lower) = LowersOf(Current, DOMAIN Current.constraints)
      /\ Elements(upper) = UppersOf(Current, DOMAIN Current.constraints)
  BY DEF Gathered, Inner, Gone
<1>3. PassedBounds = Elements(upper)
  BY DEF PassedBounds, Passed, Elements
<1>4. ASSUME NEW b \in Elements(lower)
      PROVE  MeetsBound(t, b)
  <2>1. b \in LowerBound
    BY ElementsType DEF TypeInv, Types
  <2>2. b.op = ">" => HasSuccessor(b.ver)
    BY AboveIsWritten DEF HasSuccessors
  <2>3. ~CompareSemVer(t, LowerCandidate(b))
    <3>1. lower # <<>>
      BY ElementsType DEF TypeInv, Types
    <3>2. QED
      BY <3>1 DEF Folded
  <2>4. QED
    BY <2>1, <2>2, <2>3, LowerIsMet
<1>5. QED
  BY <1>1, <1>2, <1>3, <1>4, MeetsAllBounds

LEMMA FoldedIsLeast ==
  ASSUME TypeInv, Gathered, pc \in {"upper", "commit"}, SkipsNone(Current),
         NEW r \in Releases, Meets(r, Current), NEW t, Folded(t)
  PROVE  ~CompareSemVer(r, t)
<1>1. Current \in SubRange /\ ~Current.bare
  BY RangeFields DEF TypeInv, Position, SkipsNone
<1>2. Elements(lower) = LowersOf(Current, DOMAIN Current.constraints)
  BY DEF Gathered, Inner, Gone
<1>3. CASE lower = <<>>
  BY <1>3, ZeroIsLeast DEF Folded
<1>4. CASE lower # <<>>
  <2>1. PICK b \in Elements(lower) : t = LowerCandidate(b)
    BY <1>4 DEF Folded
  <2>2. MeetsBound(r, b)
    BY <1>1, <1>2, MeetsAllBounds
  <2>3. b \in LowerBound
    BY ElementsType DEF TypeInv, Types
  <2>4. b.op = ">" => 3 \in DOMAIN b.ver.nums
    <3>1. SUFFICES ASSUME b.op = ">"
                   PROVE  3 \in DOMAIN b.ver.nums
      OBVIOUS
    <3>2. Len(b.ver.nums) >= 3
      BY <3>1, AboveIsWritten DEF SkipsNone
    <3>3. b.ver.nums \in Seq(Piece)
      BY <2>3 DEF LowerBound, Text
    <3> DEFINE q == b.ver.nums
    <3>4. q \in Seq(Piece) /\ Len(q) >= 3
      BY <3>2, <3>3
    <3> HIDE DEF q
    <3>5. 3 \in DOMAIN q
      BY <3>4
    <3>6. QED
      BY <3>5 DEF q
  <2>5. QED
    BY <2>1, <2>2, <2>3, <2>4, ReleaseIsNotBelow
<1>5. QED
  BY <1>3, <1>4

(* A candidate that "<0.0.0-beta" cannot change is the folded one.         *)
LEMMA UnchangedCandidate ==
  ASSUME TypeInv, Gathered, UpperPosition, Candidacy, pc \in {"upper", "commit"},
         ~Current.bare, ~ChangesZero(Current)
  PROVE  /\ Folded(candidate) /\ candidate # EmptyText
         /\ pc = "upper" /\ it <= Len(upper) => Adjusted = candidate
<1>1. BelowZeroBeta \notin Elements(upper)
  BY ChangeIsWritten
<1>2. upper \in Seq(UpperBound) /\ it \in Nat \ {0}
  BY DEF TypeInv, Types
<1>3. PassedBounds \subseteq Elements(upper)
  <2>1. Passed \subseteq DOMAIN upper
    BY <1>2 DEF Passed, UpperPosition
  <2>2. QED
    BY <2>1 DEF PassedBounds, Elements
<1>4. Folded(candidate)
  BY <1>1, <1>3 DEF Candidacy
<1>5. candidate # EmptyText
  <2>1. CASE lower = <<>>
    BY <1>4, <2>1, LiteralTypes DEF Folded
  <2>2. CASE lower # <<>>
    <3>1. PICK b \in Elements(lower) : candidate = LowerCandidate(b)
      BY <1>4, <2>2 DEF Folded
    <3>2. b \in LowerBound
      BY ElementsType DEF TypeInv, Types
    <3>3. QED
      BY <3>1, <3>2, LowerCandidateType
  <2>3. QED
    BY <2>1, <2>2
<1>6. ASSUME pc = "upper", it <= Len(upper)
      PROVE  Adjusted = candidate
  <2>1. it \in DOMAIN upper
    BY <1>2, <1>6
  <2>2. upper[it] \in Elements(upper)
    BY <2>1 DEF Elements
  <2>3. QED
    BY <1>1, <2>2 DEF Adjusted
<1>7. QED
  BY <1>4, <1>5, <1>6
-----------------------------------------------------------------------------
(* What every step keeps, and the inductive invariant of the candidate.    *)

CandidateInv == TypeInv /\ FoldInv /\ UpperPosition /\ UpperBoundsKept /\ Gathered /\ Candidacy

LEMMA CandidateInit == Init => CandidateInv
BY TypeInit DEF Init, CandidateInv, FoldInv, UpperPosition, UpperBoundsKept, Passed,
                Gathered, Inner, Candidacy

LEMMA CandidateStep == CandidateInv /\ [Next]_vars => CandidateInv'
BY TypeStep, FoldStep, UpperStep, GatheredStep, CandidacyStep DEF CandidateInv

LEMMA RangeStays ==
  ASSUME [Next]_vars
  PROVE  range' = range
BY DEF Next, vars, Raise, AnswerAtOnce, EnterLoop, TakeStar, EnterSubRange, Return,
       CollectConstraint, ReadPastEnd, ChooseCandidate, RaiseCandidate, LeaveLower,
       PassUpper, FailUpper, LeaveUpper, Commit

(* The turn of a sub-range ends with an offer or without.                  *)
LEMMA TurnEnds ==
  ASSUME TypeInv, [Next]_vars, ~AnswerAtOnce
  PROVE  /\ range' = range /\ offered \subseteq offered'
         /\ \/ Over' = Over /\ offered' = offered
            \/ /\ Over' = Over \cup {sub} /\ sub \in DOMAIN range.subs \ Over
               /\ \/ TakeStar
                  \/ Commit
                  \/ FailUpper
                  \/ LeaveUpper /\ candidate = EmptyText
<1>1. range.subs \in Seq(SubRange) /\ sub \in Nat \ {0}
  BY RangeFields DEF TypeInv, Types
<1>2. CASE TakeStar \/ Commit \/ FailUpper \/ (LeaveUpper /\ candidate = EmptyText)
  <2>1. MoreSubRanges
    BY <1>2 DEF TakeStar, Commit, FailUpper, LeaveUpper, At, TypeInv, Position
  <2>2. sub \in DOMAIN range.subs
    BY <1>1, <2>1 DEF MoreSubRanges
  <2>3. /\ outcome = "running" /\ outcome' = "running" /\ range' = range /\ sub' = sub + 1
        /\ offered \subseteq offered'
    BY <1>2 DEF TakeStar, Commit, FailUpper, LeaveUpper, At
  <2>4. Over' = Over \cup {sub} /\ sub \notin Over
    BY <1>1, <2>2, <2>3 DEF Over
  <2>5. QED
    BY <1>2, <2>2, <2>3, <2>4
<1>3. CASE Return
  <2>1. /\ range' = range /\ offered' = offered /\ outcome = "running" /\ outcome' = "returned"
        /\ ~(sub <= Len(range.subs))
    BY <1>3 DEF Return, At, MoreSubRanges
  <2>2. \A i \in DOMAIN range.subs : i < sub
    BY <1>1, <2>1
  <2>3. Over' = Over
    BY <2>1, <2>2 DEF Over
  <2>4. QED
    BY <2>1, <2>3
<1>4. CASE /\ UNCHANGED <<range, sub, offered>>
           /\ outcome' = outcome \/ (outcome = "running" /\ outcome' # "returned")
  BY <1>4 DEF Over
<1>5. QED
  BY <1>2, <1>3, <1>4
     DEF Next, vars, Raise, EnterLoop, EnterSubRange, CollectConstraint, ReadPastEnd,
         ChooseCandidate, RaiseCandidate, LeaveLower, PassUpper, LeaveUpper, At

(* "", "*" and "A - B" have no constraints.                                *)
LEMMA AtOnceIsBare ==
  ASSUME TypeInv, AnswerAtOnce
  PROVE  /\ range' = range /\ outcome' = "returned" /\ Over' = DOMAIN range.subs
         /\ ~range.hyphen => /\ \A i \in DOMAIN range.subs : range.subs[i].bare
                             /\ offered' = {} \/ (offered' = {Zero} /\ 1 \in DOMAIN range.subs
                                                  /\ IsStar(range.subs[1]))
<1>1. range' = range /\ outcome' = "returned" /\ Over' = DOMAIN range.subs
  BY DEF AnswerAtOnce, Over
<1>2. range.subs \in Seq(SubRange)
  BY RangeFields DEF TypeInv
<1>3. CASE range.subs = <<>> /\ ~range.hyphen /\ best' = NoText
  BY <1>1, <1>3 DEF AnswerAtOnce
<1>4. CASE ~range.hyphen /\ Len(range.subs) = 1 /\ IsStar(range.subs[1]) /\ best' = Zero
  <2>1. offered' = {Zero}
    BY <1>4, LiteralTypes, EmptyTextType DEF AnswerAtOnce
  <2>2. DOMAIN range.subs = {1}
    BY <1>2, <1>4
  <2>3. QED
    BY <1>1, <1>4, <2>1, <2>2 DEF IsStar
<1>5. CASE range.hyphen
  BY <1>1, <1>5
<1>6. QED
  BY <1>3, <1>4, <1>5 DEF AnswerAtOnce

-----------------------------------------------------------------------------
(* Every offer meets a sub-range.                                          *)

LEMMA OfferAnswers ==
  ASSUME CandidateInv, pc = "commit", HasSuccessors(Current)
  PROVE  Answers(candidate, Current)
<1>1. candidate \in Text /\ Zero \in Text
  BY LiteralTypes DEF CandidateInv, TypeInv, Types
<1>2. CASE Current.bare
  BY <1>2 DEF CandidateInv, Candidacy, Answers, Meets
<1>3. CASE ~Current.bare /\ Folded(candidate) /\ \A b \in PassedBounds : MeetsBound(candidate, b)
  BY <1>1, <1>3, FoldedMeets DEF CandidateInv, Answers
<1>4. CASE /\ ~Current.bare /\ candidate = ZeroPre /\ Folded(Zero)
           /\ BelowZeroBeta \in PassedBounds
           /\ \A b \in PassedBounds : MeetsBound(Zero, b)
  <2>1. Meets(Zero, Current)
    BY <1>1, <1>4, FoldedMeets DEF CandidateInv
  <2>2. BelowZeroBeta \in Elements(upper)
    BY <1>4 DEF PassedBounds, Passed, Elements
  <2>3. ChangesZero(Current)
    BY <2>2, ChangeIsWritten DEF CandidateInv
  <2>4. QED
    BY <1>4, <2>1, <2>3 DEF Answers
<1>5. QED
  BY <1>2, <1>3, <1>4 DEF CandidateInv, Candidacy

LEMMA OffersMeetStep ==
  ASSUME CandidateInv, OffersMeet, [Next]_vars
  PROVE  OffersMeet'
<1>1. TypeInv
  BY DEF CandidateInv
<1>2. range' = range
  BY RangeStays
<1> SUFFICES ASSUME ~range.hyphen, \A i \in DOMAIN range.subs : HasSuccessors(range.subs[i])
             PROVE  \A t \in offered' : \E i \in DOMAIN range.subs : Answers(t, range.subs[i])
  BY <1>2 DEF OffersMeet
<1>3. \A t \in offered : \E i \in DOMAIN range.subs : Answers(t, range.subs[i])
  BY DEF OffersMeet
<1>4. CASE AnswerAtOnce
  <2>1. offered' = {} \/ (offered' = {Zero} /\ 1 \in DOMAIN range.subs /\ IsStar(range.subs[1]))
    BY <1>1, <1>4, AtOnceIsBare
  <2>2. IsStar(range.subs[1]) => Answers(Zero, range.subs[1])
    BY DEF Answers, Meets, IsStar
  <2>3. QED
    BY <2>1, <2>2
<1>5. CASE TakeStar \/ Commit
  <2> DEFINE t == IF TakeStar THEN Zero ELSE candidate
  <2>1. sub \in DOMAIN range.subs
    <3>1. MoreSubRanges
      BY <1>1, <1>5 DEF TakeStar, Commit, At, TypeInv, Position
    <3>2. range.subs \in Seq(SubRange) /\ sub \in Nat \ {0}
      BY <1>1, RangeFields DEF TypeInv, Types
    <3>3. QED
      BY <3>1, <3>2 DEF MoreSubRanges
  <2>2. HasSuccessors(Current)
    BY <2>1 DEF Current
  <2>3. CASE TakeStar
    <3>1. offered' = offered \cup {Zero} /\ IsStar(Current)
      BY <2>3 DEF TakeStar, StarWins
    <3>2. Answers(Zero, Current)
      BY <3>1 DEF Answers, Meets, IsStar
    <3>3. QED
      BY <1>3, <2>1, <3>1, <3>2 DEF Current
  <2>4. CASE Commit
    <3>1. offered' = offered \cup {candidate} /\ pc = "commit"
      BY <2>4 DEF Commit, At
    <3>2. Answers(candidate, Current)
      BY <2>2, <3>1, OfferAnswers
    <3>3. QED
      BY <1>3, <2>1, <3>1, <3>2 DEF Current
  <2>5. QED
    BY <1>5, <2>3, <2>4
<1>6. CASE UNCHANGED offered
  BY <1>3, <1>6
<1>7. QED
  BY <1>4, <1>5, <1>6
     DEF Next, vars, Raise, EnterLoop, EnterSubRange, Return, CollectConstraint,
         ReadPastEnd, ChooseCandidate, RaiseCandidate, LeaveLower, PassUpper, FailUpper,
         LeaveUpper

LEMMA BestMeets == BestIsLeast /\ OffersMeet => AnswerMeetsRange
BY DEF BestIsLeast, OffersMeet, AnswerMeetsRange, Answers

(* The answer of minimum() meets one of the sub-ranges of its argument,    *)
(* whatever bounds were computed on the way: where the versions behind ">" *)
(* have a successor above them.                                            *)
THEOREM AnswerCorrect == Spec => []AnswerMeetsRange
<1>1. Init => OffersMeet /\ BestIsLeast
  BY DEF Init, OffersMeet, BestIsLeast
<1>2. BestIsLeast /\ OffersMeet => AnswerMeetsRange
  BY BestMeets
<1>3. CandidateInv => TypeInv
  BY DEF CandidateInv
<1>4. CandidateInv /\ OffersMeet /\ [Next]_vars => OffersMeet'
  BY OffersMeetStep
<1>5. QED
  BY <1>1, <1>2, <1>3, <1>4, CandidateInit, CandidateStep, BestStep, PTL DEF Spec
-----------------------------------------------------------------------------
(* No release below the answer meets a sub-range.                          *)

LEMMA CurrentFails ==
  ASSUME CandidateInv, FailUpper \/ (LeaveUpper /\ candidate = EmptyText), SkipsNone(Current),
         NEW r \in Releases, Meets(r, Current)
  PROVE  FALSE
<1>1. TypeInv /\ Gathered /\ UpperPosition /\ Candidacy /\ pc = "upper"
  BY DEF CandidateInv, FailUpper, LeaveUpper, At
<1>2. Current \in SubRange /\ ~Current.bare /\ ~ChangesZero(Current)
  BY <1>1, RangeFields DEF TypeInv, Position, SkipsNone
<1>3. Folded(candidate) /\ candidate # EmptyText /\ (it <= Len(upper) => Adjusted = candidate)
  BY <1>1, <1>2, UnchangedCandidate
<1>4. FailUpper
  BY <1>3
<1>5. it <= Len(upper) /\ ~MeetsBound(candidate, upper[it])
  BY <1>3, <1>4 DEF FailUpper, MeetsBound
<1>6. upper[it] \in Elements(upper) /\ upper[it] \in UpperBound
  <2>1. it \in DOMAIN upper /\ upper \in Seq(UpperBound)
    BY <1>1, <1>5 DEF TypeInv, Types
  <2>2. QED
    BY <2>1 DEF Elements
<1>7. MeetsBound(r, upper[it])
  <2>1. Elements(upper) = UppersOf(Current, DOMAIN Current.constraints)
    BY <1>1 DEF Gathered, Inner, Gone
  <2>2. QED
    BY <1>2, <1>6, <2>1, MeetsAllBounds
<1>8. ~CompareSemVer(r, candidate)
  BY <1>1, <1>3, FoldedIsLeast
<1>9. r \in Text /\ candidate \in Text /\ upper[it].ver \in Text /\ upper[it].op \in {"<", "<="}
  BY <1>1, <1>6, ReleaseParts DEF TypeInv, Types, UpperBound
<1>10. MeetsBound(candidate, upper[it])
  BY <1>7, <1>8, <1>9, LowerMeetsUpper DEF MeetsBound
<1>11. QED
  BY <1>5, <1>10

LEMMA NothingBelowStep ==
  ASSUME CandidateInv, NothingBelowOffers, [Next]_vars
  PROVE  NothingBelowOffers'
<1>1. TypeInv /\ range' = range
  BY RangeStays DEF CandidateInv
<1> SUFFICES ASSUME ~range.hyphen, NEW i \in Over', NEW r \in Releases,
                    SkipsNone(range.subs[i]), Meets(r, range.subs[i])
             PROVE  \E t \in offered' : ~CompareSemVer(r, t)
  BY <1>1 DEF NothingBelowOffers
<1>2. CASE AnswerAtOnce
  BY <1>1, <1>2, AtOnceIsBare DEF SkipsNone
<1>3. CASE ~AnswerAtOnce /\ i \in Over
  <2>1. \E t \in offered : ~CompareSemVer(r, t)
    BY <1>3 DEF NothingBelowOffers
  <2>2. QED
    BY <1>1, <1>3, <2>1, TurnEnds
<1>4. CASE ~AnswerAtOnce /\ i \notin Over
  <2>1. /\ i = sub
        /\ TakeStar \/ Commit \/ FailUpper \/ (LeaveUpper /\ candidate = EmptyText)
    BY <1>1, <1>4, TurnEnds
  <2>2. SkipsNone(Current) /\ Meets(r, Current)
    BY <2>1 DEF Current
  <2>3. CASE TakeStar
    BY <2>2, <2>3 DEF TakeStar, StarWins, IsStar, SkipsNone
  <2>4. CASE Commit
    <3>1. offered' = offered \cup {candidate} /\ pc = "commit"
      BY <2>4 DEF Commit, At
    <3>2. Folded(candidate)
      BY <2>2, <3>1, UnchangedCandidate DEF CandidateInv, SkipsNone
    <3>3. ~CompareSemVer(r, candidate)
      BY <2>2, <3>1, <3>2, FoldedIsLeast DEF CandidateInv
    <3>4. QED
      BY <3>1, <3>3
  <2>5. CASE FailUpper \/ (LeaveUpper /\ candidate = EmptyText)
    BY <2>2, <2>5, CurrentFails
  <2>6. QED
    BY <2>1, <2>3, <2>4, <2>5
<1>5. QED
  BY <1>2, <1>3, <1>4

(* What is best is below every offer, and so nothing below it meets a      *)
(* sub-range.                                                              *)
LEMMA BestIsLowest == TypeInv /\ BestIsLeast /\ NothingBelowOffers => NoLowerRelease
<1> SUFFICES ASSUME TypeInv, BestIsLeast, NothingBelowOffers, outcome = "returned", ~range.hyphen,
                    NEW i \in DOMAIN range.subs, NEW r \in Releases,
                    SkipsNone(range.subs[i]), Meets(r, range.subs[i])
             PROVE  best # NoText /\ ~CompareSemVer(r, best)
  BY DEF NoLowerRelease
<1>1. PICK t \in offered : ~CompareSemVer(r, t)
  BY DEF NothingBelowOffers, Over
<1>2. best # NoText /\ ~CompareSemVer(t, best)
  BY <1>1 DEF BestIsLeast
<1>3. r \in Text /\ t \in Text /\ best \in Text
  BY <1>1, <1>2, ReleaseParts DEF TypeInv, Types
<1>4. CASE CompareSemVer(best, t)
  BY <1>1, <1>2, <1>3, <1>4, CompareSemVerOrder
<1>5. CASE ~CompareSemVer(best, t)
  BY <1>1, <1>2, <1>3, <1>5, CompareSemVerTies
<1>6. QED
  BY <1>4, <1>5

(* Every release that meets a sub-range made of constraints is at or above *)
(* the answer of minimum(), and there is an answer when there is one.      *)
THEOREM NoLowerReleaseCorrect == Spec => []NoLowerRelease
<1>1. Init => NothingBelowOffers /\ BestIsLeast
  <2> SUFFICES ASSUME Init PROVE NothingBelowOffers /\ BestIsLeast
    OBVIOUS
  <2>1. Over = {}
    <3>1. range.subs \in Seq(SubRange) /\ sub = 1 /\ outcome = "running"
      BY TypeInit, RangeFields DEF Init, TypeInv
    <3>2. QED
      BY <3>1 DEF Over
  <2>2. QED
    BY <2>1 DEF Init, NothingBelowOffers, BestIsLeast
<1>2. TypeInv /\ BestIsLeast /\ NothingBelowOffers => NoLowerRelease
  BY BestIsLowest
<1>3. CandidateInv => TypeInv
  BY DEF CandidateInv
<1>4. CandidateInv /\ NothingBelowOffers /\ [Next]_vars => NothingBelowOffers'
  BY NothingBelowStep
<1>5. QED
  BY <1>1, <1>2, <1>3, <1>4, CandidateInit, CandidateStep, BestStep, PTL DEF Spec

-----------------------------------------------------------------------------
(* "^v" and "~v" offer v.                                                  *)

LEMMA ThreePieces ==
  ASSUME NEW s \in Seq(Piece), Len(s) = 3
  PROVE  s[1] \in Piece /\ s[2] \in Piece /\ s[3] \in Piece
<1>1. Len(s) \in Nat
  OBVIOUS
<1>2. 1 \in 1..Len(s) /\ 2 \in 1..Len(s) /\ 3 \in 1..Len(s)
  BY <1>1
<1>3. \A i \in 1..Len(s) : s[i] \in Piece
  OBVIOUS
<1>4. QED
  BY <1>2, <1>3, Zenon

LEMMA SelfTriple ==
  ASSUME NEW c \in Constraint, AnswersItself(c)
  PROVE  \E x, y, z : Triple(c.ver.nums, x, y, z)
<1> DEFINE s == c.ver.nums
<1>1. /\ s \in Seq(Piece) /\ Len(s) = 3
      /\ \A i \in 1..3 : IsNum(s[i]) /\ s[i].val < IntMax
  BY ConstraintFields DEF AnswersItself, Text
<1> HIDE DEF s
<1>2. /\ s[1] \in Piece /\ IsNum(s[1]) /\ s[1].val < IntMax
      /\ s[2] \in Piece /\ IsNum(s[2]) /\ s[2].val < IntMax
      /\ s[3] \in Piece /\ IsNum(s[3]) /\ s[3].val < IntMax
  <2>1. 1 \in 1..3 /\ 2 \in 1..3 /\ 3 \in 1..3
    OBVIOUS
  <2>2. QED
    BY <1>1, <2>1, ThreePieces, Zenon
<1>3. s[1].val \in 0..(IntMax - 1) /\ s[2].val \in 0..(IntMax - 1) /\ s[3].val \in 0..(IntMax - 1)
  BY <1>2, PieceFields, IntAssumption
<1>4. Triple(s, s[1].val, s[2].val, s[3].val)
  BY <1>1, <1>2, <1>3 DEF Triple, Begins
<1>5. QED
  BY <1>4 DEF s

(* Both bounds of a constraint that answers itself admit its version.      *)
LEMMA SelfIsBetween ==
  ASSUME NEW c \in Constraint, AnswersItself(c)
  PROVE  /\ Elements(LowerOf(c)) = {[op |-> ">=", ver |-> c.ver]}
         /\ \A b \in Elements(UpperOf(c)) : MeetsBound(c.ver, b)
<1>1. c.op \in {"^", "~"} /\ c.ver \in Text
  BY ConstraintFields DEF AnswersItself
<1>2. Elements(LowerOf(c)) = {[op |-> ">=", ver |-> c.ver]}
  BY <1>1 DEF LowerOf, Elements
<1>3. PICK x, y, z : Triple(c.ver.nums, x, y, z)
  BY SelfTriple
<1>4. /\ CompareSemVer(c.ver, ComputeCaretUpperBound(c.ver))
      /\ CompareSemVer(c.ver, ComputeTildeUpperBound(c.ver))
  BY <1>1, <1>3, CaretAbove, TildeAbove
<1>5. ASSUME NEW b \in Elements(UpperOf(c))
      PROVE  MeetsBound(c.ver, b)
  <2>1. b.op = "<" /\ b.ver \in {ComputeCaretUpperBound(c.ver), ComputeTildeUpperBound(c.ver)}
    BY <1>1 DEF UpperOf, Elements
  <2>2. QED
    BY <1>4, <2>1 DEF MeetsBound, SatisfiesConstraint
<1>6. QED
  BY <1>2, <1>5

LEMMA SelfIsCandidate ==
  ASSUME CandidateInv, pc \in {"upper", "commit"},
         Len(Current.constraints) = 1, AnswersItself(Current.constraints[1])
  PROVE  /\ candidate = Current.constraints[1].ver /\ candidate # EmptyText
         /\ \A b \in Elements(upper) : MeetsBound(candidate, b)
         /\ pc = "upper" /\ it <= Len(upper) => Adjusted = candidate
<1> DEFINE cs == Current.constraints
           c == cs[1]
<1>1. TypeInv /\ Gathered /\ UpperPosition /\ Candidacy
  BY DEF CandidateInv
<1>2. Current \in SubRange /\ cs \in Seq(Constraint) /\ (Current.bare => cs = <<>>)
  BY <1>1, RangeFields, SubRangeFields DEF TypeInv, Position
<1>3. DOMAIN cs = {1} /\ c \in Constraint /\ ~Current.bare
  BY <1>2
<1>4. c.op # "<"
  BY DEF AnswersItself
<1>5. ~ChangesZero(Current)
  BY <1>3, <1>4 DEF ChangesZero, BelowZeroBeta
<1>6. /\ Folded(candidate) /\ candidate # EmptyText
      /\ pc = "upper" /\ it <= Len(upper) => Adjusted = candidate
  BY <1>1, <1>3, <1>5, UnchangedCandidate
<1>7. Elements(lower) = Elements(LowerOf(c)) /\ Elements(upper) = Elements(UpperOf(c))
  <2>1. /\ Elements(lower) = LowersOf(Current, {1})
        /\ Elements(upper) = UppersOf(Current, {1})
    BY <1>1, <1>3 DEF Gathered, Inner, Gone
  <2>2. /\ LowersOf(Current, {1}) = Elements(LowerOf(c))
        /\ UppersOf(Current, {1}) = Elements(UpperOf(c))
    BY DEF LowersOf, UppersOf
  <2>3. QED
    BY <2>1, <2>2
<1>8. /\ Elements(lower) = {[op |-> ">=", ver |-> c.ver]}
      /\ \A b \in Elements(upper) : MeetsBound(c.ver, b)
  BY <1>3, <1>7, SelfIsBetween
<1>9. lower # <<>>
  <2>1. Elements(lower) # {}
    BY <1>8
  <2>2. QED
    BY <1>1, <2>1, ElementsType DEF TypeInv, Types
<1>10. candidate = LowerCandidate([op |-> ">=", ver |-> c.ver])
  BY <1>6, <1>8, <1>9 DEF Folded
<1>11. candidate = c.ver
  BY <1>10 DEF LowerCandidate
<1>12. QED
  BY <1>6, <1>8, <1>11

LEMMA BoundsOfferStep ==
  ASSUME CandidateInv, BoundsOfferThemselves, [Next]_vars
  PROVE  BoundsOfferThemselves'
<1>1. TypeInv /\ range' = range
  BY RangeStays DEF CandidateInv
<1> DEFINE cs(i) == range.subs[i].constraints
<1> SUFFICES ASSUME ~range.hyphen, NEW i \in Over', Len(cs(i)) = 1, AnswersItself(cs(i)[1])
             PROVE  cs(i)[1].ver \in offered'
  BY <1>1 DEF BoundsOfferThemselves
<1>2. ~range.subs[i].bare
  <2>1. Over' \subseteq DOMAIN range.subs
    BY <1>1 DEF Over
  <2>2. range.subs[i] \in SubRange
    BY <1>1, <2>1, RangeFields DEF TypeInv
  <2>3. QED
    BY <2>2, SubRangeFields
<1>3. CASE AnswerAtOnce
  BY <1>1, <1>2, <1>3, AtOnceIsBare
<1>4. CASE ~AnswerAtOnce /\ i \in Over
  <2>1. cs(i)[1].ver \in offered
    BY <1>4 DEF BoundsOfferThemselves
  <2>2. QED
    BY <1>1, <1>4, <2>1, TurnEnds
<1>5. CASE ~AnswerAtOnce /\ i \notin Over
  <2>1. /\ i = sub
        /\ TakeStar \/ Commit \/ FailUpper \/ (LeaveUpper /\ candidate = EmptyText)
    BY <1>1, <1>5, TurnEnds
  <2>2. /\ Current = range.subs[i]
        /\ Len(Current.constraints) = 1 /\ AnswersItself(Current.constraints[1])
    BY <2>1 DEF Current
  <2>3. CASE TakeStar
    BY <1>2, <2>2, <2>3 DEF TakeStar, StarWins, IsStar
  <2>4. CASE Commit
    <3>1. offered' = offered \cup {candidate} /\ pc = "commit"
      BY <2>4 DEF Commit, At
    <3>2. candidate = Current.constraints[1].ver
      BY <2>2, <3>1, SelfIsCandidate
    <3>3. QED
      BY <2>2, <3>1, <3>2
  <2>5. CASE FailUpper
    <3>1. pc = "upper" /\ it <= Len(upper) /\ ~MeetsBound(Adjusted, upper[it])
      BY <2>5 DEF FailUpper, At, MeetsBound
    <3>2. upper[it] \in Elements(upper)
      <4>1. it \in DOMAIN upper
        BY <1>1, <3>1 DEF TypeInv, Types
      <4>2. QED
        BY <4>1 DEF Elements
    <3>3. QED
      BY <2>2, <3>1, <3>2, SelfIsCandidate
  <2>6. CASE LeaveUpper /\ candidate = EmptyText
    <3>1. pc = "upper"
      BY <2>6 DEF LeaveUpper, At
    <3>2. QED
      BY <2>2, <2>6, <3>1, SelfIsCandidate
  <2>7. QED
    BY <2>1, <2>3, <2>4, <2>5, <2>6
<1>6. QED
  BY <1>3, <1>4, <1>5

(* Of a sub-range that is "^v" or "~v" for a full version v, v itself is   *)
(* offered as the answer: no bound below the limits of int fails.          *)
THEOREM BoundsCorrect == Spec => []BoundAdmitsItself
<1>1. Init => BoundsOfferThemselves
  <2> SUFFICES ASSUME Init PROVE BoundsOfferThemselves
    OBVIOUS
  <2>1. Over = {}
    <3>1. range.subs \in Seq(SubRange) /\ sub = 1 /\ outcome = "running"
      BY TypeInit, RangeFields DEF Init, TypeInv
    <3>2. QED
      BY <3>1 DEF Over
  <2>2. QED
    BY <2>1 DEF BoundsOfferThemselves
<1>2. BoundsOfferThemselves => BoundAdmitsItself
  BY DEF BoundsOfferThemselves, BoundAdmitsItself, Over
<1>3. CandidateInv /\ BoundsOfferThemselves /\ [Next]_vars => BoundsOfferThemselves'
  BY BoundsOfferStep
<1>4. QED
  BY <1>1, <1>2, <1>3, CandidateInit, CandidateStep, PTL DEF Spec

-----------------------------------------------------------------------------
(* The helper functions are the same in the promise.                       *)

LEMMA SamePieces ==
  /\ Promise!EmptyPiece = EmptyPiece /\ Promise!Star = Star /\ Promise!Beta = Beta
  /\ \A n : Promise!Num(n) = Num(n)
  /\ \A w : Promise!IsNum(w) = IsNum(w) /\ Promise!FitsInt(w) = FitsInt(w)
  /\ \A w : Promise!FitsLong(w) = FitsLong(w)
  /\ Promise!Piece = Piece
  /\ \A n : Promise!Plus1(n) = Plus1(n)
BY DEF Promise!EmptyPiece, EmptyPiece, Promise!Star, Star, Promise!Beta, Beta,
       Promise!Num, Num, Promise!IsNum, IsNum, Promise!FitsInt, FitsInt,
       Promise!FitsLong, FitsLong, Promise!Piece, Piece, Promise!Numeral, Numeral,
       Promise!Tag, Tag, Promise!Word, Word, Promise!EmptyRank, EmptyRank,
       Promise!Plus1, Plus1

LEMMA SameTexts ==
  /\ Promise!Text = Text /\ Promise!EmptyText = EmptyText /\ Promise!NoText = NoText
  /\ \A m, n, p : Promise!Dotted(m, n, p) = Dotted(m, n, p)
  /\ \A t : Promise!Split(t) = Split(t)
BY SamePieces
   DEF Promise!Text, Text, Promise!EmptyText, EmptyText, Promise!NoText, NoText,
       Promise!Dotted, Dotted, Promise!Split, Split,
       Promise!DropTrailingEmpty, DropTrailingEmpty

LEMMA SameLiterals ==
  /\ Promise!Zero = Zero /\ Promise!ZeroPre = ZeroPre
  /\ Promise!BelowZeroBeta = BelowZeroBeta
  /\ Promise!StarText = StarText /\ \A s : Promise!IsStar(s) = IsStar(s)
BY SamePieces, SameTexts
   DEF Promise!Zero, Zero, Promise!ZeroPre, ZeroPre, Promise!ZeroBeta, ZeroBeta,
       Promise!BelowZeroBeta, BelowZeroBeta, Promise!StarText, StarText,
       Promise!IsStar, IsStar

LEMMA SameCompare ==
  /\ \A a, b : Promise!CompareSemVer(a, b) = CompareSemVer(a, b)
  /\ \A t, op, u : Promise!SatisfiesConstraint(t, op, u) = SatisfiesConstraint(t, op, u)
<1>1. /\ \A a, b : Promise!PartLess(a, b) = PartLess(a, b)
      /\ \A a, b : Promise!SamePart(a, b) = SamePart(a, b)
  BY SamePieces DEF Promise!PartLess, PartLess, Promise!SamePart, SamePart
<1>2. \A p, q : Promise!PartsLess(p, q) = PartsLess(p, q)
  BY <1>1 DEF Promise!PartsLess, PartsLess, Promise!Reaches, Reaches
<1>3. \A a, b : Promise!CompareSemVer(a, b) = CompareSemVer(a, b)
  BY <1>2, SameTexts DEF Promise!CompareSemVer, CompareSemVer
<1>4. QED
  BY <1>3 DEF Promise!SatisfiesConstraint, SatisfiesConstraint

LEMMA SameCoerce ==
  /\ \A t : Promise!Match(t) = Match(t)
  /\ \A t : Promise!Coerce(t) = Coerce(t)
  /\ \A t : Promise!CoerceThrows(t) = CoerceThrows(t)
<1>1. \A s : Promise!MatchIn(s) = MatchIn(s)
  BY DEF Promise!MatchIn, MatchIn, Promise!IsNum, IsNum
<1>2. \A t : Promise!Match(t) = Match(t)
  BY <1>1, SamePieces DEF Promise!Match, Match
<1>3. \A s, i : Promise!ValueOr0(s, i) = ValueOr0(s, i)
  BY DEF Promise!ValueOr0, ValueOr0
<1>4. QED
  BY <1>2, <1>3, SamePieces, SameTexts
     DEF Promise!Coerce, Coerce, Promise!CoerceThrows, CoerceThrows

LEMMA SameBounds ==
  /\ \A t : Promise!IncrementVersion(t) = IncrementVersion(t)
  /\ \A t : Promise!ComputeCaretUpperBound(t) = ComputeCaretUpperBound(t)
  /\ \A t : Promise!ComputeTildeUpperBound(t) = ComputeTildeUpperBound(t)
  /\ \A t : Promise!TildeThrows(t) = TildeThrows(t)
  /\ \A t : Promise!TildeReadsPastEnd(t) = TildeReadsPastEnd(t)
<1>1. \A s, i : Promise!ValueOr0(s, i) = ValueOr0(s, i)
  BY DEF Promise!ValueOr0, ValueOr0
<1>2. \A t : Promise!DotParts(t) = DotParts(t)
  BY SamePieces
     DEF Promise!DotParts, DotParts, Promise!DropTrailingEmpty, DropTrailingEmpty
<1>3. \A t : Promise!IncrementVersion(t) = IncrementVersion(t)
  BY <1>1, SamePieces, SameTexts DEF Promise!IncrementVersion, IncrementVersion
<1>4. \A t : Promise!ComputeCaretUpperBound(t) = ComputeCaretUpperBound(t)
  BY SamePieces, SameTexts, SameCoerce
     DEF Promise!ComputeCaretUpperBound, ComputeCaretUpperBound
<1>5. \A t : Promise!ComputeTildeUpperBound(t) = ComputeTildeUpperBound(t)
  BY <1>2, SamePieces, SameTexts, SameCoerce
     DEF Promise!ComputeTildeUpperBound, ComputeTildeUpperBound
<1>6. \A t : Promise!TildeThrows(t) = TildeThrows(t)
  BY <1>2, SamePieces, SameCoerce DEF Promise!TildeThrows, TildeThrows
<1>7. \A t : Promise!TildeReadsPastEnd(t) = TildeReadsPastEnd(t)
  BY <1>2, <1>6, SameCoerce DEF Promise!TildeReadsPastEnd, TildeReadsPastEnd
<1>8. QED
  BY <1>3, <1>4, <1>5, <1>6, <1>7

LEMMA SameRanges ==
  /\ Promise!RangeArg = RangeArg
  /\ \A c : Promise!LowerOf(c) = LowerOf(c)
  /\ \A c : Promise!UpperOf(c) = UpperOf(c)
  /\ \A b : Promise!LowerCandidate(b) = LowerCandidate(b)
  /\ \A s : Promise!BareCandidate(s) = BareCandidate(s)
<1>1. Promise!RangeArg = RangeArg
  BY SameTexts
     DEF Promise!RangeArg, RangeArg, Promise!SubRange, SubRange,
         Promise!Constraint, Constraint, Promise!Ops, Ops
<1>2. \A c : Promise!LowerOf(c) = LowerOf(c)
  BY DEF Promise!LowerOf, LowerOf
<1>3. \A c : Promise!UpperOf(c) = UpperOf(c)
  BY SameCoerce, SameBounds DEF Promise!UpperOf, UpperOf
<1>4. \A b : Promise!LowerCandidate(b) = LowerCandidate(b)
  BY SameTexts, SameBounds DEF Promise!LowerCandidate, LowerCandidate
<1>5. \A s : Promise!BareCandidate(s) = BareCandidate(s)
  BY SameTexts, SameCoerce DEF Promise!BareCandidate, BareCandidate
<1>6. QED
  BY <1>1, <1>2, <1>3, <1>4, <1>5

-----------------------------------------------------------------------------
(* Bounds, candidates and what comes of them.                              *)

(* A constraint adds at most one bound to each vector.                     *)
LEMMA OneBound ==
  ASSUME NEW c
  PROVE  /\ Elements(LowerOf(c)) = IF LowerOf(c) = <<>> THEN {} ELSE {LowerOf(c)[1]}
         /\ Elements(UpperOf(c)) = IF UpperOf(c) = <<>> THEN {} ELSE {UpperOf(c)[1]}
<1>1. \A b : /\ Elements(<<b>>) = {b} /\ <<b>>[1] = b /\ <<b>> # <<>>
  BY DEF Elements
<1>2. Elements(<<>>) = {}
  BY DEF Elements
<1>3. LowerOf(c) = <<>> \/ \E b : LowerOf(c) = <<b>>
  BY DEF LowerOf
<1>4. UpperOf(c) = <<>> \/ \E b : UpperOf(c) = <<b>>
  BY DEF UpperOf
<1>5. QED
  BY <1>1, <1>2, <1>3, <1>4

LEMMA PromisedBounds ==
  ASSUME NEW s
  PROVE  /\ Promise!Lowers(s) = LowersOf(s, DOMAIN s.constraints)
         /\ Promise!Uppers(s) = UppersOf(s, DOMAIN s.constraints)
<1> DEFINE cs == s.constraints
<1>1. Promise!ConstraintsOf(s) = {cs[i] : i \in DOMAIN cs}
  BY DEF Promise!ConstraintsOf
<1>2. /\ Promise!Lowers(s) = {LowerOf(c)[1] : c \in {d \in Promise!ConstraintsOf(s) : LowerOf(d) # <<>>}}
      /\ Promise!Uppers(s) = {UpperOf(c)[1] : c \in {d \in Promise!ConstraintsOf(s) : UpperOf(d) # <<>>}}
  BY SameRanges DEF Promise!Lowers, Promise!Uppers
<1>3. /\ LowersOf(s, DOMAIN cs) = UNION {Elements(LowerOf(cs[i])) : i \in DOMAIN cs}
      /\ UppersOf(s, DOMAIN cs) = UNION {Elements(UpperOf(cs[i])) : i \in DOMAIN cs}
  BY DEF LowersOf, UppersOf
<1> HIDE DEF cs
<1>4. \A b : b \in Promise!Lowers(s) <=> b \in LowersOf(s, DOMAIN cs)
  BY <1>1, <1>2, <1>3, OneBound
<1>5. \A b : b \in Promise!Uppers(s) <=> b \in UppersOf(s, DOMAIN cs)
  BY <1>1, <1>2, <1>3, OneBound
<1>6. QED
  BY <1>4, <1>5 DEF cs

LEMMA PromisedMeets ==
  ASSUME NEW s, NEW t
  PROVE  Promise!MeetsUppers(t, s) <=> \A b \in UppersOf(s, DOMAIN s.constraints) : MeetsBound(t, b)
BY PromisedBounds, SameCompare DEF Promise!MeetsUppers, MeetsBound

(* What the loop over the lower bounds makes the candidate is one of the   *)
(* candidates that are promised.                                           *)
LEMMA FoldedIsPromised ==
  ASSUME TypeInv, Gathered, pc \in {"upper", "commit"}, ~Current.bare, NEW t, Folded(t)
  PROVE  t \in Promise!Candidates(Current)
<1> DEFINE L == Promise!Lowers(Current)
           T == {LowerCandidate(b) : b \in L}
<1>1. Elements(lower) = L
  BY PromisedBounds DEF Gathered, Inner, Gone
<1>2. L = {} <=> lower = <<>>
  BY <1>1, ElementsType DEF TypeInv, Types
<1>3. Promise!Candidates(Current) = IF L # {} THEN Promise!Greatest(T) ELSE {Zero}
  BY SameRanges, SameLiterals DEF Promise!Candidates
<1> HIDE DEF L
<1>4. CASE lower = <<>>
  BY <1>2, <1>3, <1>4 DEF Folded
<1>5. CASE lower # <<>>
  <2>1. t \in T /\ \A u \in T : ~CompareSemVer(t, u)
    BY <1>1, <1>5 DEF Folded
  <2>2. QED
    BY <1>2, <1>3, <1>5, <2>1, SameCompare DEF Promise!Greatest
<1>6. QED
  BY <1>4, <1>5

(* What may come of a candidate.                                           *)
LEMMA PromisedOffers ==
  ASSUME NEW s, NEW t
  PROVE  LET U == UppersOf(s, DOMAIN s.constraints)
             meets(x) == \A b \in U : MeetsBound(x, b)
         IN /\ t = Zero /\ BelowZeroBeta \in U /\ meets(Zero) => ZeroPre \in Promise!OffersOf(t, s)
            /\ t = Zero /\ BelowZeroBeta \in U /\ ~meets(ZeroPre) => NoText \in Promise!OffersOf(t, s)
            /\ ~(t = Zero /\ BelowZeroBeta \in U) /\ t # EmptyText /\ meets(t)
                  => t \in Promise!OffersOf(t, s)
            /\ ~(t = Zero /\ BelowZeroBeta \in U) /\ (t = EmptyText \/ ~meets(t))
                  => NoText \in Promise!OffersOf(t, s)
<1>1. Promise!OffersOf(t, s) =
        IF t = Zero /\ BelowZeroBeta \in Promise!Uppers(s)
        THEN {x \in {ZeroPre} : Promise!MeetsUppers(Zero, s)}
               \cup {x \in {NoText} : ~Promise!MeetsUppers(ZeroPre, s)}
        ELSE IF t # EmptyText /\ Promise!MeetsUppers(t, s) THEN {t} ELSE {NoText}
  BY SameLiterals, SameTexts DEF Promise!OffersOf
<1>2. QED
  BY <1>1, PromisedBounds, PromisedMeets

LEMMA OffersOfSubRange ==
  ASSUME NEW s, NEW c \in Promise!Candidates(s), NEW t \in Promise!OffersOf(c, s), ~IsStar(s)
  PROVE  t \in Promise!Offers(s)
BY SameLiterals DEF Promise!Offers

LEMMA OffersOfStar ==
  ASSUME NEW s, IsStar(s)
  PROVE  Promise!Offers(s) = {Zero, StarText}
BY SameLiterals DEF Promise!Offers

-----------------------------------------------------------------------------
(* The inductive invariant.                                                *)

(* Of a hyphen range only the left end is looked at.                       *)
HyphenInv ==
  range.hyphen => pc = "start" /\ (outcome = "returned" => best = Coerce(range.left))

(* A star that is not taken for "0.0.0" has come behind a least one that   *)
(* is not above it.                                                        *)
StarInv == pc \in Inner /\ IsStar(Current) => best # NoText /\ ~CompareSemVer(Zero, best)

(* "0.0.0" has not passed "<0.0.0-beta", and what is offered is not empty. *)
OfferInv ==
  /\ pc \in {"upper", "commit"} /\ candidate = Zero => BelowZeroBeta \notin PassedBounds
  /\ pc = "commit" => candidate # EmptyText

(* The constraints of the sub-ranges whose turn is over have been read.    *)
AllRead ==
  ~range.hyphen =>
    \A i \in Over : \A j \in DOMAIN range.subs[i].constraints :
      /\ ~BoundThrows(range.subs[i].constraints[j])
      /\ ~Missing(range.subs[i].constraints[j])

(* Each of those sub-ranges has offered one of the texts it may.           *)
Chosen(choice, i, s) ==
  /\ choice[i] \in Promise!Offers(s)
  /\ IsStar(s) /\ choice[i] = StarText => Promise!StarIsLate(choice, i)

ChoiceInv ==
  ~range.hyphen =>
    \E choice \in [Over -> Text \cup {NoText}] :
      /\ \A i \in Over : Chosen(choice, i, range.subs[i])
      /\ offered = {choice[i] : i \in Over} \ {NoText}

PromiseInv ==
  CandidateInv /\ BestIsLeast /\ HyphenInv /\ StarInv /\ OfferInv /\ AllRead /\ ChoiceInv

LEMMA HyphenStep == HyphenInv /\ [Next]_vars => HyphenInv'
BY DEF HyphenInv, Next, vars, Raise, AnswerAtOnce, EnterLoop, TakeStar, EnterSubRange,
       Return, CollectConstraint, ReadPastEnd, ChooseCandidate, RaiseCandidate,
       LeaveLower, PassUpper, FailUpper, LeaveUpper, Commit, At

LEMMA StarStep ==
  ASSUME TypeInv, StarInv, [Next]_vars
  PROVE  StarInv'
<1>1. CASE pc' \notin Inner
  BY <1>1 DEF StarInv
<1>2. CASE EnterSubRange
  BY <1>2 DEF EnterSubRange, StarInv, StarWins, Current
<1>3. CASE pc \in Inner /\ pc' \in Inner /\ UNCHANGED <<range, sub, best>>
  BY <1>3 DEF StarInv, Current
<1>4. CASE UNCHANGED <<range, pc, sub, best>>
  BY <1>4 DEF StarInv, Current
<1>5. QED
  BY <1>1, <1>2, <1>3, <1>4
     DEF Next, vars, Raise, AnswerAtOnce, EnterLoop, TakeStar, Return, CollectConstraint,
         ReadPastEnd, ChooseCandidate, RaiseCandidate, LeaveLower, PassUpper, FailUpper,
         LeaveUpper, Commit, At, Inner

LEMMA OfferStep ==
  ASSUME TypeInv, UpperPosition, OfferInv, [Next]_vars
  PROVE  OfferInv'
<1>1. it \in Nat \ {0} /\ upper \in Seq(UpperBound)
  BY DEF TypeInv, Types
<1>2. CASE pc' \notin {"upper", "commit"}
  BY <1>2 DEF OfferInv
<1>3. CASE ChooseCandidate \/ LeaveLower
  <2>1. it' = 1 /\ pc' \in {"lower", "upper"}
    BY <1>3 DEF ChooseCandidate, LeaveLower
  <2>2. PassedBounds' = {}
    BY <2>1 DEF PassedBounds, Passed
  <2>3. QED
    BY <2>1, <2>2 DEF OfferInv
<1>4. CASE PassUpper
  <2>1. /\ pc = "upper" /\ pc' = "upper" /\ upper' = upper
        /\ it \in 1..Len(upper) /\ it' = it + 1 /\ candidate' = Adjusted
    BY <1>1, <1>4 DEF PassUpper, At
  <2>2. Passed = 1..(it - 1) /\ Passed' = Passed \cup {it}
    BY <1>1, <2>1 DEF Passed
  <2>3. PassedBounds' = PassedBounds \cup {upper[it]}
    BY <2>1, <2>2 DEF PassedBounds
  <2>4. Adjusted = Zero => candidate = Zero /\ upper[it] # BelowZeroBeta
    BY ZeroBelow DEF Adjusted
  <2>5. QED
    BY <2>1, <2>3, <2>4 DEF OfferInv
<1>5. CASE LeaveUpper /\ pc' = "commit"
  <2>1. /\ pc = "upper" /\ it > Len(upper) /\ candidate # EmptyText
        /\ UNCHANGED <<it, upper, candidate>>
    BY <1>5 DEF LeaveUpper, At
  <2>2. Passed' = DOMAIN upper /\ Passed = DOMAIN upper
    BY <1>1, <1>5, <2>1 DEF Passed, UpperPosition
  <2>3. PassedBounds' = PassedBounds
    BY <2>1, <2>2 DEF PassedBounds
  <2>4. QED
    BY <2>1, <2>3 DEF OfferInv
<1>6. CASE UNCHANGED <<pc, it, upper, candidate>>
  BY <1>6 DEF OfferInv, PassedBounds, Passed
<1>7. QED
  BY <1>2, <1>3, <1>4, <1>5, <1>6
     DEF Next, vars, Raise, AnswerAtOnce, EnterLoop, TakeStar, EnterSubRange, Return,
         CollectConstraint, ReadPastEnd, RaiseCandidate, FailUpper, LeaveUpper, Commit, At

LEMMA AllReadStep ==
  ASSUME CandidateInv, AllRead, [Next]_vars
  PROVE  AllRead'
<1>1. TypeInv /\ Gathered /\ range' = range
  BY RangeStays DEF CandidateInv
<1>2. range.subs \in Seq(SubRange)
  BY <1>1, RangeFields DEF TypeInv
<1> DEFINE Read(i) == \A j \in DOMAIN range.subs[i].constraints :
                        /\ ~BoundThrows(range.subs[i].constraints[j])
                        /\ ~Missing(range.subs[i].constraints[j])
<1>3. SUFFICES ASSUME ~range.hyphen
               PROVE  \A i \in Over' : Read(i)
  BY <1>1 DEF AllRead, BoundThrows, Missing
<1>4. ASSUME NEW i \in DOMAIN range.subs, range.subs[i].bare
      PROVE  Read(i)
  <2>1. range.subs[i].constraints = <<>>
    BY <1>2, <1>4, SubRangeFields
  <2>2. QED
    BY <2>1
<1>5. \A i \in Over : Read(i)
  BY <1>3 DEF AllRead
<1>6. CASE AnswerAtOnce
  <2>1. \A i \in Over' : i \in DOMAIN range.subs /\ range.subs[i].bare
    BY <1>1, <1>3, <1>6, AtOnceIsBare
  <2>2. QED
    BY <1>4, <2>1
<1>7. CASE ~AnswerAtOnce
  <2>1. CASE Over' = Over
    BY <1>5, <2>1
  <2>2. CASE /\ Over' = Over \cup {sub} /\ sub \in DOMAIN range.subs
             /\ TakeStar \/ Commit \/ FailUpper \/ (LeaveUpper /\ candidate = EmptyText)
    <3>1. CASE TakeStar
      BY <1>4, <1>5, <2>2, <3>1 DEF TakeStar, StarWins, IsStar, Current
    <3>2. CASE Commit \/ FailUpper \/ (LeaveUpper /\ candidate = EmptyText)
      <4>1. pc \in {"upper", "commit"}
        BY <3>2 DEF Commit, FailUpper, LeaveUpper, At
      <4>2. Read(sub)
        BY <1>1, <4>1 DEF Gathered, Inner, Gone, Current
      <4>3. QED
        BY <1>5, <2>2, <4>2
    <3>3. QED
      BY <2>2, <3>1, <3>2
  <2>3. QED
    BY <1>1, <1>7, <2>1, <2>2, TurnEnds
<1>8. QED
  BY <1>6, <1>7

-----------------------------------------------------------------------------
(* What the turn of a sub-range ends with is one of its offers.            *)

LEMMA UppersPassed ==
  ASSUME TypeInv, UpperPosition, Gathered, pc \in {"upper", "commit"}
  PROVE  /\ UppersOf(Current, DOMAIN Current.constraints) = Elements(upper)
         /\ PassedBounds \subseteq Elements(upper)
         /\ pc = "commit" => PassedBounds = Elements(upper)
<1>1. UppersOf(Current, DOMAIN Current.constraints) = Elements(upper)
  BY DEF Gathered, Inner, Gone
<1>2. Passed \subseteq DOMAIN upper /\ (pc = "commit" => Passed = DOMAIN upper)
  BY DEF Passed, UpperPosition, TypeInv, Types
<1>3. QED
  BY <1>1, <1>2 DEF PassedBounds, Elements

LEMMA BareOffer ==
  ASSUME NEW s \in SubRange, s.bare, ~IsStar(s)
  PROVE  IF BareCandidate(s) = EmptyText THEN NoText \in Promise!Offers(s)
         ELSE BareCandidate(s) \in Promise!Offers(s)
<1> DEFINE t == BareCandidate(s)
<1>1. t \in Promise!Candidates(s)
  BY SameRanges DEF Promise!Candidates
<1>2. UppersOf(s, DOMAIN s.constraints) = {}
  <2>1. s.constraints = <<>>
    BY SubRangeFields
  <2>2. QED
    BY <2>1 DEF UppersOf
<1> HIDE DEF t
<1>3. IF t = EmptyText THEN NoText \in Promise!OffersOf(t, s) ELSE t \in Promise!OffersOf(t, s)
  BY <1>2, PromisedOffers
<1>4. QED
  BY <1>1, <1>3, OffersOfSubRange DEF t

LEMMA CommitOffers ==
  ASSUME PromiseInv, pc = "commit"
  PROVE  candidate \in Promise!Offers(Current)
<1>1. /\ TypeInv /\ UpperPosition /\ Gathered /\ Candidacy /\ candidate # EmptyText
      /\ Current \in SubRange
  BY RangeFields DEF PromiseInv, CandidateInv, OfferInv, TypeInv, Position
<1>2. CASE Current.bare
  <2>1. candidate = BareCandidate(Current)
    BY <1>1, <1>2 DEF Candidacy
  <2>2. CASE IsStar(Current)
    <3>1. candidate = StarText
      <4>1. Coerce(StarText) = NoText
        BY DEF StarText, Coerce, Match, IsNum, Star, Word
      <4>2. QED
        BY <2>1, <2>2, <4>1 DEF BareCandidate, IsStar
    <3>2. QED
      BY <2>2, <3>1, OffersOfStar
  <2>3. CASE ~IsStar(Current)
    BY <1>1, <1>2, <2>1, <2>3, BareOffer
  <2>4. QED
    BY <2>2, <2>3
<1>3. CASE ~Current.bare
  <2> DEFINE U == UppersOf(Current, DOMAIN Current.constraints)
  <2>1. PassedBounds = U /\ (candidate = Zero => BelowZeroBeta \notin U)
    BY <1>1, UppersPassed DEF PromiseInv, OfferInv
  <2>2. ~IsStar(Current)
    BY <1>3 DEF IsStar
  <2>3. CASE Folded(candidate) /\ \A b \in PassedBounds : MeetsBound(candidate, b)
    <3>1. candidate \in Promise!Candidates(Current)
      BY <1>1, <1>3, <2>3, FoldedIsPromised
    <3>2. candidate \in Promise!OffersOf(candidate, Current)
      BY <1>1, <2>1, <2>3, PromisedOffers
    <3>3. QED
      BY <2>2, <3>1, <3>2, OffersOfSubRange
  <2>4. CASE /\ candidate = ZeroPre /\ Folded(Zero) /\ BelowZeroBeta \in PassedBounds
             /\ \A b \in PassedBounds : MeetsBound(Zero, b)
    <3>1. Zero \in Promise!Candidates(Current)
      BY <1>1, <1>3, <2>4, FoldedIsPromised
    <3>2. ZeroPre \in Promise!OffersOf(Zero, Current)
      BY <2>1, <2>4, PromisedOffers
    <3>3. QED
      BY <2>2, <2>4, <3>1, <3>2, OffersOfSubRange
  <2>5. QED
    BY <1>1, <1>3, <2>3, <2>4 DEF Candidacy
<1>4. QED
  BY <1>2, <1>3

LEMMA FailOffersNothing ==
  ASSUME PromiseInv, FailUpper
  PROVE  ~IsStar(Current) /\ NoText \in Promise!Offers(Current)
<1> DEFINE U == UppersOf(Current, DOMAIN Current.constraints)
           meets(t) == \A b \in U : MeetsBound(t, b)
<1>1. /\ TypeInv /\ UpperPosition /\ Gathered /\ Candidacy
      /\ pc = "upper" /\ it \in DOMAIN upper /\ ~MeetsBound(Adjusted, upper[it])
      /\ upper \in Seq(UpperBound)
  BY DEF PromiseInv, CandidateInv, TypeInv, Types, FailUpper, At, MeetsBound
<1>2. ~Current.bare /\ ~IsStar(Current)
  <2>1. upper # <<>>
    BY <1>1
  <2>2. QED
    BY <1>1, <2>1, BareHasNoBounds DEF IsStar
<1>3. Elements(upper) = U /\ PassedBounds \subseteq U /\ upper[it] \in U /\ upper[it] \in UpperBound
  BY <1>1, UppersPassed DEF Elements
<1>4. ~meets(Adjusted)
  BY <1>1, <1>3
<1>5. ~MeetsBound(Zero, upper[it]) => ~meets(ZeroPre)
  BY <1>3, ZeroMeetsUpper
<1> HIDE DEF U
<1>6. ASSUME NEW t \in Promise!Candidates(Current),
             IF t = Zero /\ BelowZeroBeta \in U THEN ~meets(ZeroPre) ELSE ~meets(t)
      PROVE  NoText \in Promise!Offers(Current)
  <2>1. NoText \in Promise!OffersOf(t, Current)
    BY <1>6, PromisedOffers DEF U
  <2>2. QED
    BY <1>2, <2>1, OffersOfSubRange
<1>7. CASE Folded(candidate)
  <2>1. candidate \in Promise!Candidates(Current)
    BY <1>1, <1>2, <1>7, FoldedIsPromised
  <2>2. CASE candidate = Zero
    <3>1. Adjusted \in {Zero, ZeroPre}
      BY <2>2 DEF Adjusted
    <3>2. ~meets(ZeroPre)
      BY <1>1, <1>4, <1>5, <3>1
    <3>3. BelowZeroBeta \notin U => Adjusted = candidate
      BY <1>3 DEF Adjusted
    <3>4. QED
      BY <1>2, <1>4, <1>6, <2>1, <2>2, <3>2, <3>3
  <2>3. CASE candidate # Zero
    <3>1. Adjusted = candidate
      BY <2>3 DEF Adjusted
    <3>2. QED
      BY <1>2, <1>4, <1>6, <2>1, <2>3, <3>1
  <2>4. QED
    BY <2>2, <2>3
<1>8. CASE candidate = ZeroPre /\ Folded(Zero) /\ BelowZeroBeta \in PassedBounds
  <2>1. Zero \in Promise!Candidates(Current)
    BY <1>1, <1>2, <1>8, FoldedIsPromised
  <2>2. Adjusted = ZeroPre
    BY <1>8 DEF Adjusted
  <2>3. QED
    BY <1>2, <1>3, <1>4, <1>6, <1>8, <2>1, <2>2
<1>9. QED
  BY <1>1, <1>2, <1>7, <1>8 DEF Candidacy

LEMMA EmptyOffersNothing ==
  ASSUME PromiseInv, LeaveUpper, candidate = EmptyText
  PROVE  ~IsStar(Current) /\ NoText \in Promise!Offers(Current)
<1>1. /\ TypeInv /\ Gathered /\ Candidacy /\ pc = "upper"
      /\ Current \in SubRange /\ lower \in Seq(LowerBound)
  BY RangeFields DEF PromiseInv, CandidateInv, TypeInv, Types, Position, LeaveUpper, At
<1>2. Current.bare
  <2>1. ~Folded(EmptyText)
    <3>1. \A b \in Elements(lower) : LowerCandidate(b) # EmptyText
      BY <1>1, ElementsType, LowerCandidateType
    <3>2. QED
      BY <3>1, LiteralTypes DEF Folded
  <2>2. ZeroPre # EmptyText
    BY DEF ZeroPre, EmptyText
  <2>3. QED
    BY <1>1, <2>1, <2>2 DEF Candidacy
<1>3. BareCandidate(Current) = EmptyText
  BY <1>1, <1>2 DEF Candidacy
<1>4. ~IsStar(Current)
  <2>1. Coerce(StarText) = NoText
    BY DEF StarText, Coerce, Match, IsNum, Star, Word
  <2>2. StarText # EmptyText
    BY DEF StarText, EmptyText, Star, EmptyPiece, EmptyRank, Word
  <2>3. QED
    BY <1>3, <2>1, <2>2 DEF BareCandidate, IsStar
<1>5. QED
  BY <1>1, <1>2, <1>3, <1>4, BareOffer

-----------------------------------------------------------------------------
(* The choices grow with the sub-ranges that have had their turn.          *)

Extends(larger, choice, I, k, t) ==
  /\ larger[k] = t
  /\ \A i \in I : larger[i] = choice[i]
  /\ {larger[i] : i \in I \cup {k}} = {choice[i] : i \in I} \cup {t}

LEMMA ChoiceExtended ==
  ASSUME NEW T, NEW I, NEW choice \in [I -> T], NEW k, k \notin I, NEW t \in T
  PROVE  \E larger \in [I \cup {k} -> T] : Extends(larger, choice, I, k, t)
<1> DEFINE larger == [i \in I \cup {k} |-> IF i = k THEN t ELSE choice[i]]
<1>1. larger \in [I \cup {k} -> T] /\ larger[k] = t /\ \A i \in I : larger[i] = choice[i]
  OBVIOUS
<1> HIDE DEF larger
<1>2. {larger[i] : i \in I \cup {k}} = {choice[i] : i \in I} \cup {t}
  BY <1>1
<1>3. Extends(larger, choice, I, k, t)
  BY <1>1, <1>2 DEF Extends
<1>4. QED
  BY <1>1, <1>3

LEMMA TurnChoice ==
  ASSUME ~range.hyphen, ChoiceInv, NEW t \in Text \cup {NoText},
         range' = range, sub \notin Over, Over' = Over \cup {sub},
         t \in Promise!Offers(Current),
         IsStar(Current) /\ t = StarText => \E u \in offered : ~CompareSemVer(Zero, u),
         offered' = offered \cup ({t} \ {NoText})
  PROVE  ChoiceInv'
<1> DEFINE T == Text \cup {NoText}
<1>1. PICK choice \in [Over -> T] :
        /\ \A i \in Over : Chosen(choice, i, range.subs[i])
        /\ offered = {choice[i] : i \in Over} \ {NoText}
  BY DEF ChoiceInv
<1> HIDE DEF T
<1>2. PICK larger \in [Over \cup {sub} -> T] : Extends(larger, choice, Over, sub, t)
  <2>1. choice \in [Over -> T] /\ t \in T /\ sub \notin Over
    BY DEF T
  <2>2. QED
    BY <2>1, ChoiceExtended
<1>3. DOMAIN larger = Over \cup {sub} /\ DOMAIN choice = Over
  OBVIOUS
<1>4. ASSUME NEW i \in Over
      PROVE  Chosen(larger, i, range.subs[i])
  <2>1. Promise!StarIsLate(choice, i) => Promise!StarIsLate(larger, i)
    BY <1>2, <1>3 DEF Promise!StarIsLate, Extends
  <2>2. QED
    BY <1>1, <1>2, <2>1 DEF Chosen, Extends
<1>5. Chosen(larger, sub, range.subs[sub])
  <2>1. ASSUME IsStar(Current), t = StarText
        PROVE  Promise!StarIsLate(larger, sub)
    <3>1. PICK j \in Over : choice[j] # NoText /\ ~CompareSemVer(Zero, choice[j])
      BY <1>1, <2>1
    <3>2. QED
      BY <1>2, <1>3, <3>1, SameTexts, SameLiterals, SameCompare
         DEF Promise!StarIsLate, Extends
  <2>2. QED
    BY <1>2, <2>1 DEF Chosen, Current, Extends
<1>6. offered' = {larger[i] : i \in Over \cup {sub}} \ {NoText}
  BY <1>1, <1>2 DEF Extends
<1>7. \A i \in Over \cup {sub} : Chosen(larger, i, range.subs[i])
  BY <1>4, <1>5
<1>8. QED
  BY <1>6, <1>7 DEF ChoiceInv, Chosen, IsStar, T

LEMMA ChoiceStep ==
  ASSUME PromiseInv, [Next]_vars
  PROVE  ChoiceInv'
<1>1. /\ TypeInv /\ BestIsLeast /\ ChoiceInv /\ range' = range
      /\ candidate \in Text /\ best \in Text \cup {NoText}
  BY RangeStays DEF PromiseInv, CandidateInv, TypeInv, Types
<1>2. CASE range.hyphen
  BY <1>1, <1>2 DEF ChoiceInv
<1>3. CASE ~range.hyphen /\ AnswerAtOnce
  <2>1. /\ Over' = DOMAIN range.subs /\ range.subs \in Seq(SubRange)
        /\ \/ range.subs = <<>> /\ best' = NoText
           \/ Len(range.subs) = 1 /\ IsStar(range.subs[1]) /\ best' = Zero
        /\ offered' = {best'} \ {NoText}
    <3>1. Over' = DOMAIN range.subs /\ range.subs \in Seq(SubRange)
      BY <1>1, <1>3, AtOnceIsBare, RangeFields DEF TypeInv
    <3>2. QED
      BY <1>3, <3>1 DEF AnswerAtOnce
  <2> DEFINE choice == [i \in DOMAIN range.subs |-> Zero]
  <2>2. choice \in [DOMAIN range.subs -> Text \cup {NoText}]
    BY LiteralTypes
  <2>3. \A i \in DOMAIN range.subs : Chosen(choice, i, range.subs[i])
    <3>1. Zero # StarText
      BY DEF Zero, Dotted, StarText, Num, Star, Word
    <3>2. \A i \in DOMAIN range.subs : IsStar(range.subs[i])
      BY <2>1
    <3>3. QED
      BY <3>1, <3>2, OffersOfStar DEF Chosen
  <2>4. offered' = {choice[i] : i \in DOMAIN range.subs} \ {NoText}
    <3>1. CASE range.subs = <<>> /\ best' = NoText
      BY <2>1, <3>1
    <3>2. CASE Len(range.subs) = 1 /\ best' = Zero
      <4>1. DOMAIN range.subs = {1}
        BY <2>1, <3>2
      <4>2. QED
        BY <2>1, <3>2, <4>1
    <3>3. QED
      BY <2>1, <3>1, <3>2
  <2> HIDE DEF choice
  <2>5. QED
    BY <1>1, <2>1, <2>2, <2>3, <2>4 DEF ChoiceInv, Chosen, IsStar
<1>4. CASE Over' = Over /\ offered' = offered
  BY <1>1, <1>4 DEF ChoiceInv, Chosen, IsStar
<1>5. CASE /\ ~range.hyphen /\ Over' = Over \cup {sub} /\ sub \notin Over
           /\ TakeStar \/ Commit \/ FailUpper \/ (LeaveUpper /\ candidate = EmptyText)
  <2>1. CASE TakeStar
    <3>1. IsStar(Current) /\ offered' = offered \cup {Zero}
      BY <2>1 DEF TakeStar, StarWins
    <3>2. Zero # StarText
      BY DEF Zero, Dotted, StarText, Num, Star, Word
    <3>3. Zero \in Text /\ Zero # NoText /\ Zero \in Promise!Offers(Current)
      BY <3>1, LiteralTypes, EmptyTextType, OffersOfStar
    <3>4. QED
      BY <1>1, <1>5, <3>1, <3>2, <3>3, TurnChoice
  <2>2. CASE Commit
    <3>1. pc = "commit" /\ offered' = offered \cup {candidate}
      BY <2>2 DEF Commit, At
    <3>2. candidate # NoText /\ candidate \in Promise!Offers(Current)
      BY <1>1, <3>1, CommitOffers, EmptyTextType
    <3>3. IsStar(Current) => \E u \in offered : ~CompareSemVer(Zero, u)
      BY <1>1, <3>1 DEF PromiseInv, StarInv, Inner, BestIsLeast
    <3>4. QED
      BY <1>1, <1>5, <3>1, <3>2, <3>3, TurnChoice
  <2>3. CASE FailUpper \/ (LeaveUpper /\ candidate = EmptyText)
    <3>1. ~IsStar(Current) /\ NoText \in Promise!Offers(Current)
      BY <2>3, FailOffersNothing, EmptyOffersNothing
    <3>2. offered' = offered
      BY <2>3 DEF FailUpper, LeaveUpper
    <3>3. QED
      BY <1>1, <1>5, <3>1, <3>2, TurnChoice
  <2>4. QED
    BY <1>5, <2>1, <2>2, <2>3
<1>6. QED
  BY <1>1, <1>2, <1>3, <1>4, <1>5, TurnEnds

-----------------------------------------------------------------------------
(* The answer.                                                             *)

LEMMA ReturnedAnswer ==
  Types /\ BestIsLeast /\ HyphenInv /\ ChoiceInv /\ outcome = "returned"
    => best \in Promise!Answers(range)
<1> SUFFICES ASSUME Types, BestIsLeast, HyphenInv, ChoiceInv, outcome = "returned"
             PROVE  best \in Promise!Answers(range)
  OBVIOUS
<1>1. CASE range.hyphen
  BY <1>1, SameCoerce DEF HyphenInv, Promise!Answers
<1>2. CASE ~range.hyphen
  <2>1. PICK choice \in [DOMAIN range.subs -> Text \cup {NoText}] :
          /\ \A i \in DOMAIN range.subs : Chosen(choice, i, range.subs[i])
          /\ offered = {choice[i] : i \in DOMAIN range.subs} \ {NoText}
    BY <1>2 DEF ChoiceInv, Over
  <2>2. choice \in Promise!Choices(range)
    <3>1. \A i \in DOMAIN range.subs : choice[i] \in Promise!Offers(range.subs[i])
      BY <2>1 DEF Chosen
    <3>2. choice \in [DOMAIN range.subs ->
                        UNION {Promise!Offers(range.subs[i]) : i \in DOMAIN range.subs}]
      BY <3>1
    <3>3. \A i \in DOMAIN choice :
            /\ choice[i] \in Promise!Offers(range.subs[i])
            /\ Promise!IsStar(range.subs[i]) /\ choice[i] = Promise!StarText
                 => Promise!StarIsLate(choice, i)
      BY <2>1, SameLiterals DEF Chosen
    <3>4. QED
      BY <3>2, <3>3 DEF Promise!Choices
  <2>3. best \in Promise!Lowest(offered)
    BY SameTexts, SameCompare DEF BestIsLeast, Promise!Lowest, Promise!Least
  <2>4. DOMAIN choice = DOMAIN range.subs
    OBVIOUS
  <2>5. offered = {choice[i] : i \in DOMAIN choice} \ {Promise!NoText}
    BY <2>1, <2>4, SameTexts
  <2>6. QED
    BY <1>2, <2>2, <2>3, <2>5 DEF Promise!Answers
<1>3. QED
  BY <1>1, <1>2

(* Every constraint has been read when the call returns.                   *)
LEMMA ReturnedReads ==
  AllRead /\ outcome = "returned" =>
    \A c \in Promise!Tildes(range) :
      ~Promise!TildeThrows(c.ver) /\ ~Promise!TildeReadsPastEnd(c.ver)
<1> SUFFICES ASSUME AllRead, outcome = "returned", NEW c \in Promise!Tildes(range)
             PROVE  ~TildeThrows(c.ver) /\ ~TildeReadsPastEnd(c.ver)
  BY SameBounds
<1>1. c.op = "~" /\ c \in Promise!ConstraintsIn(range)
  BY DEF Promise!Tildes
<1>2. PICK i \in DOMAIN range.subs : ~range.hyphen /\ c \in Promise!ConstraintsOf(range.subs[i])
  BY <1>1 DEF Promise!ConstraintsIn
<1>3. PICK j \in DOMAIN range.subs[i].constraints : c = range.subs[i].constraints[j]
  BY <1>2 DEF Promise!ConstraintsOf
<1>4. ~BoundThrows(c) /\ ~Missing(c)
  BY <1>2, <1>3 DEF AllRead, Over
<1>5. QED
  BY <1>1, <1>4 DEF BoundThrows, Missing

-----------------------------------------------------------------------------
(* The numerals of a text.                                                 *)

Pieces(t) == Elements(t.nums) \cup Elements(t.pre)

(* compareSemVer can read a small text, and every helper function a strict *)
(* one: none of its numerals is the largest int.                           *)
Small(t)  == \A w \in Pieces(t) : IsNum(w) => w.val <= IntMax
Strict(t) == \A w \in Pieces(t) : IsNum(w) => w.val < IntMax

LEMMA PiecesType ==
  ASSUME NEW t \in Text
  PROVE  /\ t.nums \in Seq(Piece) /\ t.pre \in Seq(Piece)
         /\ Elements(t.nums) \subseteq Piece /\ Elements(t.pre) \subseteq Piece
         /\ Pieces(t) \subseteq Piece
<1>1. t.nums \in Seq(Piece) /\ t.pre \in Seq(Piece)
  BY DEF Text
<1>2. QED
  BY <1>1, ElementsType DEF Pieces

LEMMA DropElements ==
  ASSUME NEW s \in Seq(Piece)
  PROVE  /\ Elements(DropTrailingEmpty(s)) \subseteq Elements(s)
         /\ Elements(s) \subseteq Elements(DropTrailingEmpty(s)) \cup {EmptyPiece}
<1>1. CASE s # <<>> /\ s[Len(s)] = EmptyPiece
  <2>1. PICK n \in Nat : Len(s) = n + 1
    BY <1>1
  <2> DEFINE d == SubSeq(s, 1, n)
  <2>2. d \in Seq(Piece) /\ Len(d) = n /\ \A i \in 1..n : d[i] = s[i]
    BY <2>1
  <2>3. DropTrailingEmpty(s) = d
    BY <1>1, <2>1 DEF DropTrailingEmpty
  <2> HIDE DEF d
  <2>4. DOMAIN s = 1..n \cup {n + 1} /\ DOMAIN d = 1..n
    BY <2>1, <2>2
  <2>5. QED
    BY <1>1, <2>1, <2>2, <2>3, <2>4 DEF Elements
<1>2. CASE ~(s # <<>> /\ s[Len(s)] = EmptyPiece)
  BY <1>2 DEF DropTrailingEmpty
<1>3. QED
  BY <1>1, <1>2

LEMMA NumIsNotEmpty ==
  ASSUME NEW w, IsNum(w)
  PROVE  w # EmptyPiece
BY DEF IsNum, EmptyPiece, Word

LEMMA JoinedPieces ==
  ASSUME NEW a \in Seq(Piece), NEW b \in Seq(Piece)
  PROVE  LET d == DropTrailingEmpty(a \o b)
         IN /\ d \in Seq(Piece)
            /\ Elements(d) \subseteq Elements(a) \cup Elements(b)
            /\ \A w \in Elements(a) \cup Elements(b) : IsNum(w) => w \in Elements(d)
<1> DEFINE c == a \o b
<1>1. c \in Seq(Piece) /\ Elements(c) = Elements(a) \cup Elements(b)
  BY ElementsJoined
<1> HIDE DEF c
<1>2. DropTrailingEmpty(c) \in Seq(Piece)
  BY <1>1 DEF DropTrailingEmpty
<1>3. QED
  BY <1>1, <1>2, DropElements, NumIsNotEmpty, ZenonT(60) DEF c

LEMMA SplitPieces ==
  ASSUME NEW t \in Text
  PROVE  /\ Elements(Split(t)) \subseteq Pieces(t)
         /\ \A w \in Pieces(t) : IsNum(w) => w \in Elements(Split(t))
<1>1. t.nums \in Seq(Piece) /\ t.pre \in Seq(Piece)
  BY PiecesType
<1>2. QED
  BY <1>1, JoinedPieces DEF Split, Pieces

LEMMA DotPartsPieces ==
  ASSUME NEW t \in Text
  PROVE  DotParts(t) \in Seq(Piece) /\ Elements(DotParts(t)) \subseteq Pieces(t)
<1>1. t.nums \in Seq(Piece) /\ t.pre \in Seq(Piece)
  BY PiecesType
<1>2. CASE t.pre = <<>>
  <2>1. DotParts(t) = DropTrailingEmpty(t.nums)
    BY <1>2 DEF DotParts
  <2>2. DropTrailingEmpty(t.nums) \in Seq(Piece)
    BY <1>1 DEF DropTrailingEmpty
  <2>3. QED
    BY <1>1, <2>1, <2>2, DropElements DEF Pieces
<1>3. CASE t.pre # <<>>
  <2>1. Tail(t.pre) \in Seq(Piece) /\ Elements(Tail(t.pre)) \subseteq Elements(t.pre)
    BY <1>1, <1>3 DEF Elements
  <2> DEFINE u == DropTrailingEmpty(Tail(t.pre))
  <2>2. DotParts(t) = t.nums \o u
    BY <1>3 DEF DotParts
  <2>3. u \in Seq(Piece)
    BY <2>1 DEF DropTrailingEmpty
  <2>4. Elements(u) \subseteq Elements(t.pre)
    BY <2>1, DropElements
  <2> HIDE DEF u
  <2>5. t.nums \o u \in Seq(Piece) /\ Elements(t.nums \o u) = Elements(t.nums) \cup Elements(u)
    BY <1>1, <2>3, ElementsJoined
  <2>6. QED
    BY <2>2, <2>4, <2>5 DEF Pieces
<1>4. QED
  BY <1>2, <1>3

(* compareSemVer throws on no two small texts.                             *)
LEMMA SmallCompares ==
  ASSUME NEW a \in Text, NEW b \in Text, Small(a), Small(b)
  PROVE  ~CompareThrows(a, b)
<1> DEFINE p == Split(a)
           q == Split(b)
<1>1. p \in Seq(Piece) /\ q \in Seq(Piece)
  BY SplitType
<1>2. Elements(p) \subseteq Pieces(a) /\ Elements(q) \subseteq Pieces(b)
  BY SplitPieces
<1>3. CompareThrows(a, b) =>
        \E i \in 1..Len(p) : /\ i \in 1..Len(q) /\ IsNum(p[i]) /\ IsNum(q[i])
                             /\ ~(FitsInt(p[i]) /\ FitsInt(q[i]))
  BY DEF CompareThrows, Reaches
<1> HIDE DEF p, q
<1>4. /\ \A i \in 1..Len(p) : p[i] \in Pieces(a)
      /\ \A i \in 1..Len(q) : q[i] \in Pieces(b)
  BY <1>1, <1>2 DEF Elements
<1>5. QED
  BY <1>3, <1>4 DEF Small, FitsInt

-----------------------------------------------------------------------------
(* The helper functions make small texts of strict ones.                   *)

LEMMA StrictIsSmall ==
  ASSUME NEW t \in Text, Strict(t)
  PROVE  Small(t)
<1>1. \A w \in Pieces(t) : w.val \in Int
  BY PiecesType, PieceFields
<1>2. QED
  BY <1>1, IntAssumption DEF Strict, Small

LEMMA SmallDotted ==
  ASSUME NEW m \in 0..IntMax, NEW n \in 0..IntMax, NEW p \in 0..IntMax
  PROVE  Small(Dotted(m, n, p))
<1>1. m \in Nat /\ n \in Nat /\ p \in Nat
  BY IntAssumption
<1>2. /\ Dotted(m, n, p).nums = <<Num(m), Num(n), Num(p)>>
      /\ Dotted(m, n, p).pre = <<>>
  BY <1>1 DEF Dotted
<1>3. Pieces(Dotted(m, n, p)) = {Num(m), Num(n), Num(p)}
  BY <1>2 DEF Pieces, Elements
<1>4. QED
  BY <1>3 DEF Small, Num

LEMMA SmallLiterals ==
  Small(Zero) /\ Small(ZeroPre) /\ Small(StarText) /\ Small(EmptyText)
<1>1. Small(Zero)
  BY IntAssumption, SmallDotted DEF Zero
<1>2. Small(ZeroPre)
  <2>1. Pieces(ZeroPre) = Elements(Zero.nums) \cup {Num(0)}
    BY DEF Pieces, ZeroPre, Elements
  <2>2. QED
    BY <1>1, <2>1, IntAssumption DEF Small, Pieces, Num
<1>3. Pieces(StarText) = {Star} /\ Pieces(EmptyText) = {EmptyPiece}
  BY DEF Pieces, StarText, EmptyText, Elements
<1>4. ~IsNum(Star) /\ ~IsNum(EmptyPiece)
  BY DEF IsNum, Star, EmptyPiece, Word
<1>5. QED
  BY <1>1, <1>2, <1>3, <1>4 DEF Small

LEMMA StrictMatch ==
  ASSUME NEW t \in Text, Strict(t)
  PROVE  \A i \in 1..Len(Match(t)) :
           IsNum(Match(t)[i]) /\ Match(t)[i].val \in 0..(IntMax - 1)
<1>1. TAKE i \in 1..Len(Match(t))
<1> DEFINE w == Match(t)[i]
<1>2. IsNum(w) /\ w \in Pieces(t)
  BY MatchType DEF Pieces, Elements
<1> HIDE DEF w
<1>3. w.val \in Int /\ w.val >= 0
  BY <1>2, PiecesType, PieceFields
<1>4. IsNum(w) /\ w.val \in 0..(IntMax - 1)
  BY <1>2, <1>3, IntAssumption DEF Strict
<1>5. QED
  BY <1>4 DEF w

LEMMA StrictReads ==
  ASSUME NEW t \in Text, Strict(t)
  PROVE  ~CoerceThrows(t) /\ ~CaretThrows(t)
<1>1. DOMAIN Match(t) = 1..Len(Match(t))
  BY MatchType
<1>2. \A i \in DOMAIN Match(t) : FitsInt(Match(t)[i]) /\ FitsLong(Match(t)[i])
  BY <1>1, StrictMatch, IntAssumption, LimitsAssumption DEF FitsInt, FitsLong
<1>3. QED
  BY <1>2 DEF CoerceThrows, CaretThrows

LEMMA StrictCoerce ==
  ASSUME NEW t \in Text, Strict(t), Match(t) # <<>>
  PROVE  \E m, n, p \in 0..(IntMax - 1) : Coerce(t) = Dotted(m, n, p)
<1> DEFINE s == Match(t)
<1>1. /\ s \in Seq(Piece) /\ s # <<>>
      /\ \A i \in 1..Len(s) : s[i].val \in 0..(IntMax - 1)
  BY MatchType, StrictMatch
<1> HIDE DEF s
<1>2. s[1].val \in 0..(IntMax - 1)
  BY <1>1
<1>3. \A i \in 1..3 : ValueOr0(s, i) \in 0..(IntMax - 1)
  BY <1>1, <1>2, IntAssumption DEF ValueOr0
<1>4. Coerce(t) = Dotted(ValueOr0(s, 1), ValueOr0(s, 2), ValueOr0(s, 3))
  BY DEF Coerce, s
<1>5. QED
  BY <1>3, <1>4

LEMMA NextIsSmall ==
  ASSUME NEW n \in 0..(IntMax - 1)
  PROVE  n \in 0..IntMax /\ Plus1(n) \in 0..IntMax /\ 0 \in 0..IntMax
BY IntAssumption DEF Plus1

LEMMA SmallBare ==
  ASSUME NEW s \in SubRange, Strict(s.text)
  PROVE  Small(BareCandidate(s))
<1>1. s.text \in Text
  BY SubRangeFields
<1>2. CASE Match(s.text) = <<>>
  <2>1. BareCandidate(s) = s.text
    BY <1>2 DEF BareCandidate, Coerce
  <2>2. QED
    BY <1>1, <2>1, StrictIsSmall
<1>3. CASE Match(s.text) # <<>>
  <2>1. PICK m, n, p \in 0..(IntMax - 1) : Coerce(s.text) = Dotted(m, n, p)
    BY <1>1, <1>3, StrictCoerce
  <2>2. Small(Coerce(s.text))
    BY <2>1, NextIsSmall, SmallDotted
  <2>3. BareCandidate(s) \in {Coerce(s.text), s.text}
    BY DEF BareCandidate
  <2>4. QED
    BY <1>1, <2>2, <2>3, StrictIsSmall
<1>4. QED
  BY <1>2, <1>3

LEMMA SmallCaret ==
  ASSUME NEW t \in Text, Strict(t)
  PROVE  Small(ComputeCaretUpperBound(t))
<1>1. CASE Match(t) = <<>>
  BY <1>1, SmallLiterals DEF ComputeCaretUpperBound
<1>2. CASE Match(t) # <<>>
  <2>1. PICK m, n, p \in 0..(IntMax - 1) : Coerce(t) = Dotted(m, n, p)
    BY <1>2, StrictCoerce
  <2>2. Dotted(m, n, p).nums = <<Num(m), Num(n), Num(p)>>
    <3>1. m \in Nat /\ n \in Nat /\ p \in Nat
      BY <2>1, IntAssumption
    <3>2. QED
      BY <3>1, DottedParts
  <2>3. ComputeCaretUpperBound(t) \in
          {Dotted(Plus1(m), 0, 0), Dotted(0, Plus1(n), 0), Dotted(0, 0, Plus1(p))}
    BY <1>2, <2>1, <2>2 DEF ComputeCaretUpperBound, Num
  <2>4. QED
    BY <2>3, NextIsSmall, SmallDotted
<1>3. QED
  BY <1>1, <1>2

LEMMA SmallTilde ==
  ASSUME NEW t \in Text, Strict(t), Match(t) # <<>>, ~TildeThrows(t), ~TildeReadsPastEnd(t)
  PROVE  Small(ComputeTildeUpperBound(t))
<1> DEFINE d == DotParts(t)
<1>1. d \in Seq(Piece) /\ Elements(d) \subseteq Pieces(t)
  BY DotPartsPieces
<1>2. /\ 1 \in DOMAIN d /\ FitsInt(d[1])
      /\ 2 \in DOMAIN d /\ FitsInt(d[2])
  BY <1>1 DEF TildeThrows, TildeReadsPastEnd
<1>3. ComputeTildeUpperBound(t) = Dotted(d[1].val, Plus1(d[2].val), 0)
  BY DEF ComputeTildeUpperBound
<1> HIDE DEF d
<1>4. d[1] \in Pieces(t) /\ d[2] \in Pieces(t)
  BY <1>1, <1>2 DEF Elements
<1>5. \A i \in {1, 2} : d[i].val \in Int /\ d[i].val >= 0 /\ d[i].val < IntMax
  BY <1>2, <1>4, PiecesType, PieceFields DEF FitsInt, Strict
<1>6. d[1].val \in 0..(IntMax - 1) /\ d[2].val \in 0..(IntMax - 1)
  BY <1>5, IntAssumption
<1>7. QED
  BY <1>3, <1>6, NextIsSmall, SmallDotted

LEMMA SmallSuccessor ==
  ASSUME NEW t \in Text, Strict(t)
  PROVE  IncrementVersion(t) = NoText \/ Small(IncrementVersion(t))
<1>1. CASE \E i \in DOMAIN t.nums : i <= 3 /\ ~FitsInt(t.nums[i])
  BY <1>1 DEF IncrementVersion
<1>2. CASE \A i \in DOMAIN t.nums : i <= 3 => FitsInt(t.nums[i])
  <2> DEFINE s == t.nums
             int(i) == ValueOr0(s, i)
  <2>1. s \in Seq(Piece) /\ s # <<>>
    BY DEF Text
  <2>2. \A i \in DOMAIN s : s[i] \in Pieces(t)
    BY DEF Pieces, Elements
  <2>3. \A i \in DOMAIN s : FitsInt(s[i]) => s[i].val \in 0..(IntMax - 1)
    BY <2>2, PiecesType, PieceFields, IntAssumption DEF FitsInt, Strict
  <2>4. \A i \in DOMAIN s : i <= 3 => s[i].val \in 0..(IntMax - 1)
    BY <1>2, <2>3
  <2>5. \/ IncrementVersion(t) = Dotted(int(1), int(2), Plus1(int(3)))
        \/ IncrementVersion(t) = [nums |-> Dotted(int(1), int(2), int(3)).nums,
                                  pre |-> Append(t.pre, Num(0))]
    BY <1>2 DEF IncrementVersion
  <2> HIDE DEF s
  <2>6. \A i \in 1..3 : int(i) \in 0..(IntMax - 1)
    <3>1. 1 \in DOMAIN s
      BY <2>1
    <3>2. 0 \in 0..(IntMax - 1)
      <4>1. s[1].val \in 0..(IntMax - 1)
        BY <2>4, <3>1
      <4>2. QED
        BY <4>1, IntAssumption
    <3>3. \A i \in 1..3 : i <= Len(s) => i \in DOMAIN s
      BY <2>1
    <3>4. QED
      BY <2>4, <3>2, <3>3 DEF ValueOr0
  <2> HIDE DEF int
  <2>7. /\ Small(Dotted(int(1), int(2), Plus1(int(3))))
        /\ Small(Dotted(int(1), int(2), int(3)))
    BY <2>6, NextIsSmall, SmallDotted
  <2>8. CASE IncrementVersion(t) = Dotted(int(1), int(2), Plus1(int(3)))
    BY <2>7, <2>8
  <2>9. CASE IncrementVersion(t) = [nums |-> Dotted(int(1), int(2), int(3)).nums,
                                    pre |-> Append(t.pre, Num(0))]
    <3>1. t.pre \in Seq(Piece) /\ Num(0) \in Piece
      BY PiecesType, NumPiece
    <3>2. Elements(Append(t.pre, Num(0))) \subseteq Elements(t.pre) \cup {Num(0)}
      BY <3>1 DEF Elements
    <3>3. Pieces(IncrementVersion(t)) \subseteq
            Pieces(Dotted(int(1), int(2), int(3))) \cup Pieces(t) \cup {Num(0)}
      BY <2>9, <3>2 DEF Pieces
    <3>4. Small(t) /\ Num(0).val <= IntMax
      BY StrictIsSmall, IntAssumption DEF Num
    <3>5. QED
      BY <2>7, <3>3, <3>4 DEF Small
  <2>10. QED
    BY <2>5, <2>8, <2>9
<1>3. QED
  BY <1>1, <1>2

-----------------------------------------------------------------------------
(* No call throws on an argument of strict texts, but for a "~" whose      *)
(* version lacks the numerals it needs.                                    *)

StrictRange(s) ==
  /\ Strict(s.text)
  /\ \A i \in DOMAIN s.constraints : Strict(s.constraints[i].ver)

LEMMA TextIsStrict ==
  ASSUME Types, ~Promise!TooLarge(range), NEW t \in Text, t \in Promise!TextsOf(range)
  PROVE  Strict(t)
<1>1. SUFFICES ASSUME NEW w \in Pieces(t), IsNum(w)
               PROVE  w.val < IntMax
  BY DEF Strict
<1>2. PICK i \in DOMAIN Split(t) : w = Split(t)[i]
  BY <1>1, SplitPieces DEF Elements
<1>3. ~(w.val >= IntMax)
  <2>1. Promise!IsNum(w) /\ Promise!Split(t) = Split(t)
    BY <1>1, SamePieces, SameTexts
  <2>2. QED
    BY <1>2, <2>1 DEF Promise!TooLarge
<1>4. w.val \in Int
  BY <1>1, PiecesType, PieceFields
<1>5. QED
  BY <1>3, <1>4, IntAssumption

LEMMA RangeIsStrict ==
  ASSUME Types, ~Promise!TooLarge(range)
  PROVE  /\ range.hyphen => Strict(range.left)
         /\ ~range.hyphen => \A i \in DOMAIN range.subs : StrictRange(range.subs[i])
<1>1. range.left \in Text /\ range.subs \in Seq(SubRange)
  BY RangeFields
<1>2. ASSUME range.hyphen
      PROVE  Strict(range.left)
  <2>1. range.left \in Promise!TextsOf(range)
    BY <1>2 DEF Promise!TextsOf
  <2>2. QED
    BY <1>1, <2>1, TextIsStrict
<1>3. ASSUME ~range.hyphen, NEW i \in DOMAIN range.subs
      PROVE  StrictRange(range.subs[i])
  <2> DEFINE s == range.subs[i]
  <2>1. s \in SubRange
    BY <1>1
  <2>2. s.text \in Text /\ s.text \in Promise!TextsOf(range)
    BY <1>3, <2>1, SubRangeFields DEF Promise!TextsOf
  <2>3. ASSUME NEW j \in DOMAIN s.constraints
        PROVE  Strict(s.constraints[j].ver)
    <3> DEFINE c == s.constraints[j]
    <3>1. c \in Constraint
      BY <2>1, SubRangeFields
    <3>2. c \in Promise!ConstraintsOf(s)
      BY DEF Promise!ConstraintsOf
    <3>3. c \in Promise!ConstraintsIn(range)
      BY <1>3, <3>2 DEF Promise!ConstraintsIn
    <3>4. c.ver \in Promise!TextsOf(range) /\ c.ver \in Text
      BY <1>3, <3>1, <3>3, ConstraintFields DEF Promise!TextsOf
    <3>5. QED
      BY <3>4, TextIsStrict
  <2>4. QED
    BY <2>2, <2>3, TextIsStrict DEF StrictRange
<1>4. QED
  BY <1>2, <1>3

LEMMA LowersAreStrict ==
  ASSUME NEW s \in SubRange, StrictRange(s), NEW b \in LowersOf(s, DOMAIN s.constraints)
  PROVE  Small(LowerCandidate(b)) /\ b \in LowerBound
<1>1. PICK i \in DOMAIN s.constraints : b \in Elements(LowerOf(s.constraints[i]))
  BY DEF LowersOf
<1> DEFINE c == s.constraints[i]
<1>2. c \in Constraint /\ Strict(c.ver)
  BY SubRangeFields DEF StrictRange
<1>3. b \in Elements(LowerOf(c))
  BY <1>1
<1> HIDE DEF c
<1>4. b.ver = c.ver /\ b \in LowerBound
  <2>1. LowerOf(c) \in Seq(LowerBound)
    BY <1>2, LowerOfType
  <2>2. b.ver = c.ver
    BY <1>3 DEF LowerOf, Elements
  <2>3. QED
    BY <1>3, <2>1, <2>2, ElementsType
<1>5. c.ver \in Text
  BY <1>2, ConstraintFields
<1>6. QED
  BY <1>2, <1>4, <1>5, SmallSuccessor, StrictIsSmall DEF LowerCandidate

LEMMA CandidatesAreSmall ==
  ASSUME NEW s \in SubRange, StrictRange(s), NEW t \in Promise!Candidates(s)
  PROVE  Small(t)
<1> DEFINE L == LowersOf(s, DOMAIN s.constraints)
<1>1. \/ t = BareCandidate(s) \/ t = Zero
      \/ \E b \in L : t = LowerCandidate(b)
  BY PromisedBounds, SameRanges, SameLiterals DEF Promise!Candidates, Promise!Greatest
<1>2. QED
  BY <1>1, SmallBare, SmallLiterals, LowersAreStrict DEF StrictRange

LEMMA OffersAreSmall ==
  ASSUME NEW s \in SubRange, StrictRange(s), NEW t \in Promise!Offers(s), t # NoText
  PROVE  Small(t)
<1>1. CASE IsStar(s)
  BY <1>1, OffersOfStar, SmallLiterals
<1>2. CASE ~IsStar(s)
  <2>1. PICK c \in Promise!Candidates(s) : t \in Promise!OffersOf(c, s)
    BY <1>2, SameLiterals DEF Promise!Offers
  <2>2. t \in {ZeroPre, c}
    BY <2>1, SameLiterals, SameTexts DEF Promise!OffersOf
  <2>3. QED
    BY <2>1, <2>2, CandidatesAreSmall, SmallLiterals
<1>3. QED
  BY <1>1, <1>2

LEMMA BestIsSmall ==
  ASSUME PromiseInv, ~range.hyphen, ~Promise!TooLarge(range), best # NoText
  PROVE  best \in Text /\ Small(best)
<1>1. Types /\ best \in Text /\ best \in offered /\ range.subs \in Seq(SubRange)
  BY RangeFields DEF PromiseInv, CandidateInv, TypeInv, Types, BestIsLeast
<1>2. PICK choice \in [Over -> Text \cup {NoText}] :
        /\ \A i \in Over : Chosen(choice, i, range.subs[i])
        /\ offered = {choice[i] : i \in Over} \ {NoText}
  BY DEF PromiseInv, ChoiceInv
<1>3. PICK i \in Over : best = choice[i]
  BY <1>1, <1>2
<1>4. i \in DOMAIN range.subs
  BY DEF Over
<1>5. best \in Promise!Offers(range.subs[i]) /\ range.subs[i] \in SubRange
  BY <1>1, <1>2, <1>3, <1>4 DEF Chosen
<1>6. QED
  BY <1>1, <1>4, <1>5, RangeIsStrict, OffersAreSmall

LEMMA CurrentIsStrict ==
  ASSUME TypeInv, ~range.hyphen, ~Promise!TooLarge(range), MoreSubRanges
  PROVE  Current \in SubRange /\ StrictRange(Current)
<1>1. range.subs \in Seq(SubRange) /\ sub \in Nat \ {0}
  BY RangeFields DEF TypeInv, Types
<1>2. sub \in DOMAIN range.subs
  BY <1>1 DEF MoreSubRanges
<1>3. QED
  BY <1>1, <1>2, RangeIsStrict DEF TypeInv, Current

LEMMA CandidateIsSmall ==
  ASSUME PromiseInv, ~range.hyphen, ~Promise!TooLarge(range), pc \in {"upper", "commit"}
  PROVE  Small(candidate)
<1>1. /\ TypeInv /\ Gathered /\ Candidacy
      /\ Current \in SubRange /\ StrictRange(Current)
  BY CurrentIsStrict DEF PromiseInv, CandidateInv, TypeInv, Position
<1>2. CASE Current.bare
  BY <1>1, <1>2, SmallBare DEF Candidacy, StrictRange
<1>3. CASE ~Current.bare
  <2>1. CASE Folded(candidate)
    BY <1>1, <1>3, <2>1, FoldedIsPromised, CandidatesAreSmall
  <2>2. CASE candidate = ZeroPre
    BY <2>2, SmallLiterals
  <2>3. QED
    BY <1>1, <1>3, <2>1, <2>2 DEF Candidacy
<1>4. QED
  BY <1>2, <1>3

LEMMA UppersAreStrict ==
  ASSUME NEW s \in SubRange, StrictRange(s), NEW b \in UppersOf(s, DOMAIN s.constraints),
         \A i \in DOMAIN s.constraints : ~BoundThrows(s.constraints[i]) /\ ~Missing(s.constraints[i])
  PROVE  Small(b.ver)
<1>1. PICK i \in DOMAIN s.constraints : b \in Elements(UpperOf(s.constraints[i]))
  BY DEF UppersOf
<1> DEFINE c == s.constraints[i]
<1>2. c \in Constraint /\ Strict(c.ver) /\ ~BoundThrows(c) /\ ~Missing(c)
  BY SubRangeFields DEF StrictRange
<1>3. b \in Elements(UpperOf(c))
  BY <1>1
<1> HIDE DEF c
<1>4. c.ver \in Text
  BY <1>2, ConstraintFields
<1>5. CASE c.op = "^"
  <2>1. b.ver = ComputeCaretUpperBound(c.ver)
    BY <1>3, <1>5 DEF UpperOf, Elements
  <2>2. QED
    BY <1>2, <1>4, <2>1, SmallCaret
<1>6. CASE c.op = "~" /\ Match(c.ver) # <<>>
  <2>1. b.ver = ComputeTildeUpperBound(c.ver)
    BY <1>3, <1>6 DEF UpperOf, Elements
  <2>2. QED
    BY <1>2, <1>4, <1>6, <2>1, SmallTilde DEF BoundThrows, Missing
<1>7. CASE ~(c.op = "^") /\ ~(c.op = "~" /\ Match(c.ver) # <<>>)
  <2>1. b = c
    BY <1>3, <1>7 DEF UpperOf, Elements
  <2>2. QED
    BY <1>2, <1>4, <2>1, StrictIsSmall
<1>8. QED
  BY <1>5, <1>6, <1>7

LEMMA BareStrict ==
  ASSUME NEW s \in SubRange, StrictRange(s)
  PROVE  ~CoerceThrows(s.text)
BY SubRangeFields, StrictReads DEF StrictRange

LEMMA ThrowsArePromised ==
  ASSUME PromiseInv, Throws
  PROVE  Promise!TooLarge(range) \/ \E c \in Promise!Tildes(range) : Promise!TildeThrows(c.ver)
<1>1. SUFFICES ASSUME ~Promise!TooLarge(range)
               PROVE  \E c \in Promise!Tildes(range) : TildeThrows(c.ver)
  BY SameBounds
<1>2. /\ TypeInv /\ Types /\ FoldInv /\ UpperPosition /\ Gathered /\ Candidacy
      /\ it \in Nat \ {0} /\ lower \in Seq(LowerBound) /\ upper \in Seq(UpperBound)
      /\ candidate \in Text
  BY DEF PromiseInv, CandidateInv, TypeInv, Types
<1>3. range.hyphen => pc = "start"
  BY DEF PromiseInv, HyphenInv
<1>4. /\ pc \in Inner => MoreSubRanges
      /\ ~range.hyphen /\ MoreSubRanges => Current \in SubRange /\ StrictRange(Current)
  BY <1>1, <1>2, CurrentIsStrict DEF TypeInv, Position, Inner
<1>5. ~range.hyphen /\ best # NoText => best \in Text /\ Small(best)
  BY <1>1, BestIsSmall
<1>6. ~(pc = "start" /\ range.hyphen /\ CoerceThrows(range.left))
  BY <1>1, <1>2, RangeFields, RangeIsStrict, StrictReads
<1>7. ~(/\ pc = "subrange" /\ MoreSubRanges /\ IsStar(Current)
        /\ best # NoText /\ CompareThrows(Zero, best))
  BY <1>3, <1>5, LiteralTypes, SmallLiterals, SmallCompares
<1>8. ASSUME pc = "constraints", it <= Len(Current.constraints),
             BoundThrows(Current.constraints[it])
      PROVE  \E c \in Promise!Tildes(range) : TildeThrows(c.ver)
  <2> DEFINE c == Current.constraints[it]
  <2>1. /\ ~range.hyphen /\ MoreSubRanges /\ Current \in SubRange /\ StrictRange(Current)
        /\ Current.constraints \in Seq(Constraint)
    BY <1>3, <1>4, <1>8, SubRangeFields DEF Inner
  <2>2. it \in DOMAIN Current.constraints /\ c \in Constraint
    BY <1>2, <1>8, <2>1
  <2>3. Strict(c.ver) /\ c.ver \in Text /\ BoundThrows(c)
    BY <1>8, <2>1, <2>2, ConstraintFields DEF StrictRange
  <2>4. c \in Promise!ConstraintsOf(Current)
    BY <2>2 DEF Promise!ConstraintsOf
  <2> HIDE DEF c
  <2>5. c.op = "~" /\ TildeThrows(c.ver)
    BY <2>3, StrictReads DEF BoundThrows
  <2>6. c \in Promise!ConstraintsIn(range)
    <3>1. range.subs \in Seq(SubRange) /\ sub \in Nat \ {0}
      BY <1>2, RangeFields DEF Types
    <3>2. sub \in DOMAIN range.subs
      BY <2>1, <3>1 DEF MoreSubRanges
    <3>3. QED
      BY <2>1, <2>4, <3>2 DEF Promise!ConstraintsIn, Current
  <2>7. QED
    BY <2>5, <2>6 DEF Promise!Tildes
<1>9. ~(/\ pc = "constraints" /\ it > Len(Current.constraints)
        /\ Current.bare /\ CoerceThrows(Current.text))
  BY <1>3, <1>4, BareStrict DEF Inner
<1>10. ASSUME pc = "lower", it <= Len(lower), candidate # EmptyText
       PROVE  ~CompareThrows(candidate, LowerCandidate(lower[it]))
  <2>1. /\ ~range.hyphen /\ Current \in SubRange /\ StrictRange(Current)
        /\ Elements(lower) = LowersOf(Current, DOMAIN Current.constraints)
    BY <1>2, <1>3, <1>4, <1>10 DEF Inner, Gathered, Gone
  <2>2. \A i \in 1..Len(lower) : /\ lower[i] \in Elements(lower)
                                /\ LowerCandidate(lower[i]) \in Text
    BY <1>2, LowerCandidateType DEF Elements
  <2>3. \A i \in 1..Len(lower) : Small(LowerCandidate(lower[i]))
    BY <2>1, <2>2, LowersAreStrict
  <2>4. it > 1
    BY <1>2, <1>10 DEF FoldInv
  <2>5. PICK j \in 1..(it - 1) : candidate = LowerCandidate(lower[j])
    BY <1>2, <1>10, <2>4 DEF FoldInv
  <2>6. it \in 1..Len(lower) /\ j \in 1..Len(lower)
    BY <1>2, <1>10, <2>5
  <2>7. QED
    BY <2>2, <2>3, <2>5, <2>6, SmallCompares
<1>11. ASSUME pc = "upper", it <= Len(upper)
       PROVE  ~ConstraintThrows(Adjusted, upper[it])
  <2>1. /\ ~range.hyphen /\ Current \in SubRange /\ StrictRange(Current)
        /\ Elements(upper) = UppersOf(Current, DOMAIN Current.constraints)
        /\ \A i \in DOMAIN Current.constraints :
             ~BoundThrows(Current.constraints[i]) /\ ~Missing(Current.constraints[i])
    BY <1>2, <1>3, <1>4, <1>11 DEF Inner, Gathered, Gone
  <2>2. upper[it] \in Elements(upper) /\ upper[it].ver \in Text
    <3>1. it \in DOMAIN upper /\ upper[it] \in UpperBound
      BY <1>2, <1>11
    <3>2. QED
      BY <3>1 DEF Elements, UpperBound
  <2>3. Small(upper[it].ver)
    BY <2>1, <2>2, UppersAreStrict
  <2>4. Small(Adjusted) /\ Adjusted \in Text
    BY <1>1, <1>2, <1>11, <2>1, CandidateIsSmall, SmallLiterals, AdjustedType DEF Adjusted
  <2>5. QED
    BY <2>2, <2>3, <2>4, SmallCompares DEF ConstraintThrows
<1>12. ~(pc = "commit" /\ best # NoText /\ CompareThrows(candidate, best))
  BY <1>1, <1>2, <1>3, <1>5, CandidateIsSmall, SmallCompares
<1>13. QED
  BY <1>6, <1>7, <1>8, <1>9, <1>10, <1>11, <1>12 DEF Throws

-----------------------------------------------------------------------------
(* The refinement.                                                         *)

LEMMA PromiseInit == Init => PromiseInv /\ Promise!Init
<1> SUFFICES ASSUME Init PROVE PromiseInv /\ Promise!Init
  OBVIOUS
<1>1. CandidateInv /\ BestIsLeast /\ HyphenInv /\ StarInv /\ OfferInv
  BY CandidateInit DEF Init, BestIsLeast, HyphenInv, StarInv, OfferInv, Inner
<1>2. Over = {}
  <2>1. range.subs \in Seq(SubRange)
    BY <1>1, RangeFields DEF CandidateInv, TypeInv
  <2>2. QED
    BY <2>1 DEF Init, Over
<1>3. AllRead
  BY <1>2 DEF AllRead
<1>4. ChoiceInv
  <2> DEFINE choice == [i \in {} |-> NoText]
  <2>1. choice \in [Over -> Text \cup {NoText}]
    BY <1>2
  <2>2. offered = {choice[i] : i \in Over} \ {NoText}
    BY <1>2 DEF Init
  <2> HIDE DEF choice
  <2>3. QED
    BY <1>2, <2>1, <2>2 DEF ChoiceInv
<1>5. Promise!Init
  BY RangesAssumption, SameRanges, SameTexts DEF Init, Promise!Init
<1>6. QED
  BY <1>1, <1>3, <1>4, <1>5 DEF PromiseInv

LEMMA PromiseStep == PromiseInv /\ [Next]_vars => PromiseInv'
<1> SUFFICES ASSUME PromiseInv, [Next]_vars PROVE PromiseInv'
  OBVIOUS
<1>1. TypeInv /\ UpperPosition /\ CandidateInv
  BY DEF PromiseInv, CandidateInv
<1>2. CandidateInv' /\ BestIsLeast'
  BY <1>1, CandidateStep, BestStep DEF PromiseInv
<1>3. HyphenInv' /\ StarInv' /\ OfferInv'
  BY <1>1, HyphenStep, StarStep, OfferStep DEF PromiseInv
<1>4. AllRead' /\ ChoiceInv'
  BY <1>1, AllReadStep, ChoiceStep DEF PromiseInv
<1>5. QED
  BY <1>2, <1>3, <1>4 DEF PromiseInv

LEMMA TypeOfPromise == PromiseInv => Types
BY DEF PromiseInv, CandidateInv, TypeInv

(* What holds of the state in which a call has returned.                   *)
Kept ==
  outcome = "returned" =>
    /\ best \in Promise!Answers(range)
    /\ \A c \in Promise!Tildes(range) :
         ~Promise!TildeThrows(c.ver) /\ ~Promise!TildeReadsPastEnd(c.ver)

LEMMA PromiseKept == PromiseInv => Kept
BY ReturnedAnswer, ReturnedReads, TypeOfPromise DEF PromiseInv, Kept

LEMMA EveryStep ==
  ASSUME PromiseInv, Kept', [Next]_vars
  PROVE  [Promise!Next]_(Promise!vars)
<1>1. range' = range
  BY RangeStays
<1>2. CASE Raise
  <2>1. outcome = "running" /\ outcome' = "exception" /\ Throws
    BY <1>2 DEF Raise
  <2>2. Promise!Throw
    BY <1>1, <2>1, ThrowsArePromised DEF Promise!Throw
  <2>3. QED
    BY <2>2 DEF Promise!Next
<1>3. CASE AnswerAtOnce \/ Return
  <2>1. outcome = "running" /\ outcome' = "returned"
    BY <1>3 DEF AnswerAtOnce, Return, At
  <2>2. Promise!Answer
    BY <1>1, <2>1 DEF Kept, Promise!Answer
  <2>3. QED
    BY <2>2 DEF Promise!Next
<1>4. CASE ReadPastEnd
  <2> DEFINE c == Current.constraints[it]
  <2>1. /\ outcome = "running" /\ outcome' = "undefined" /\ pc = "constraints"
        /\ it <= Len(Current.constraints) /\ Missing(c)
    BY <1>4 DEF ReadPastEnd, At
  <2>2. /\ Types /\ ~range.hyphen /\ MoreSubRanges
        /\ range.subs \in Seq(SubRange) /\ sub \in Nat \ {0} /\ it \in Nat \ {0}
    BY <2>1, RangeFields
       DEF PromiseInv, CandidateInv, HyphenInv, TypeInv, Types, Position
  <2>3. sub \in DOMAIN range.subs /\ Current.constraints \in Seq(Constraint)
    BY <2>2, RangeFields, SubRangeFields DEF MoreSubRanges
  <2>4. it \in DOMAIN Current.constraints
    BY <2>1, <2>2, <2>3
  <2>5. c \in Promise!ConstraintsOf(Current)
    BY <2>4 DEF Promise!ConstraintsOf
  <2>6. c \in Promise!ConstraintsIn(range)
    BY <2>2, <2>3, <2>5 DEF Promise!ConstraintsIn, Current
  <2> HIDE DEF c
  <2>7. c \in Promise!Tildes(range) /\ Promise!TildeReadsPastEnd(c.ver)
    BY <2>1, <2>6, SameBounds DEF Promise!Tildes, Missing
  <2>8. Promise!GoPastEnd
    BY <1>1, <2>1, <2>7 DEF Promise!GoPastEnd
  <2>9. QED
    BY <2>8 DEF Promise!Next
<1>5. CASE outcome' = outcome /\ (outcome = "returned" => best' = best)
  BY <1>1, <1>5 DEF Promise!vars
<1>6. QED
  BY <1>2, <1>3, <1>4, <1>5
     DEF Next, vars, EnterLoop, TakeStar, EnterSubRange, CollectConstraint,
         ChooseCandidate, RaiseCandidate, LeaveLower, PassUpper, FailUpper, LeaveUpper,
         Commit, At

(* minimum() keeps its promise on every argument: what it answers is a     *)
(* least one of what its sub-ranges offer, and it fails only where it may. *)
THEOREM PromiseCorrect == Spec => KeepsPromise
<1>1. Init => PromiseInv /\ Promise!Init
  BY PromiseInit
<1>2. PromiseInv /\ [Next]_vars => PromiseInv'
  BY PromiseStep
<1>3. PromiseInv => Kept
  BY PromiseKept
<1>4. PromiseInv /\ Kept' /\ [Next]_vars => [Promise!Next]_(Promise!vars)
  BY EveryStep
<1>5. QED
  BY <1>1, <1>2, <1>3, <1>4, PTL DEF Spec, KeepsPromise, Promise!Spec

=============================================================================
