--------------------------- MODULE StringMinimum ---------------------------
(***************************************************************************)
(* A call of minimum() from its string to its answer: how the regular      *)
(* expressions split the string at "||" and find the constraints in each   *)
(* part, one action per step of their iterators, and then the loops of     *)
(* Minimum on what was read.  The code reads a sub-range and computes with *)
(* it before it reads the next, but nothing of what it computes changes    *)
(* what it reads.                                                          *)
(***************************************************************************)
EXTENDS Minimum, StringText

CONSTANTS
  Inputs,      \* the strings that minimum() is called with
  Meaning,     \* what some of them are written to say, white space aside
  TestAnswer   \* how some of the calls should end

ASSUME InputsAssumption ==
  /\ Inputs \subseteq String
  /\ Meaning \in [DOMAIN Meaning -> RangeArg]
  /\ TestAnswer \in [DOMAIN TestAnswer -> Text \cup {NoText}]

VARIABLES
  input,    \* the string
  stage,    \* what is read next
  rest,     \* the part of input that the iterator over "||" has not passed
  current,  \* the sub-range being read
  unread,   \* the part of it that the iterator over constraints has not passed
  found     \* its constraints so far

loopVars   == <<pc, sub, it, lower, upper, candidate, best, outcome, offered>>
readerVars == <<input, stage, rest, current, unread, found>>
stringVars == <<range, readerVars, loopVars>>

NothingRead == [hyphen |-> FALSE, left |-> EmptyText, subs |-> <<>>]

(* Above all: whatever the string, it is read as an argument that Minimum  *)
(* is about.                                                               *)
ReaderTypeOK ==
  /\ stage \in {"start", "sub-ranges", "constraints", "read"}
  /\ input \in String /\ rest \in String /\ current \in String /\ unread \in String
  /\ found \in Seq(Constraint)
  /\ range \in RangeArg

StringInit ==
  /\ input \in Inputs
  /\ stage = "start"
  /\ rest = input
  /\ current = <<>>
  /\ unread = <<>>
  /\ found = <<>>
  /\ range = NothingRead
  /\ Init

-----------------------------------------------------------------------------
(* The tests before the loop.                                              *)

(* One to three numbers between dots.                                      *)
IsPartial(s) ==
  LET parts == Cut(s, {Dot})
  IN Len(parts) <= 3 /\ \A i \in DOMAIN parts : parts[i] # <<>> /\ OnlyDigits(parts[i])

Left(s)  == Trim(Before(Trim(s), {Dash}))
Right(s) == Trim(After(Trim(s), {Dash}))

IsHyphenRange(s) == Found(s, {Dash}) /\ IsPartial(Left(s)) /\ IsPartial(Right(s))

StarRange == [bare |-> TRUE, text |-> StarText, constraints |-> <<>>]

ReadAtOnce ==
  /\ stage = "start"
  /\ \/ input = <<>> /\ UNCHANGED range
     \/ Trim(input) = <<Asterisk>> /\ range' = [range EXCEPT !.subs = <<StarRange>>]
  /\ stage' = "read"
  /\ UNCHANGED <<input, rest, current, unread, found>>

(* Slip: the answer is read from the right of the '-'.                     *)
SlipReadsRight ==
  /\ stage = "start" /\ IsHyphenRange(input)
  /\ range' = [range EXCEPT !.hyphen = TRUE, !.left = TextOf(Right(input))]
  /\ stage' = "read"
  /\ UNCHANGED <<input, rest, current, unread, found>>

ReadHyphen ==
  /\ stage = "start" /\ IsHyphenRange(input)
  /\ range' = [range EXCEPT !.hyphen = TRUE, !.left = TextOf(Left(input))]
  /\ stage' = "read"
  /\ UNCHANGED <<input, rest, current, unread, found>>

BeginLoop ==
  /\ stage = "start"
  /\ input # <<>> /\ Trim(input) # <<Asterisk>> /\ ~IsHyphenRange(input)
  /\ stage' = "sub-ranges"
  /\ UNCHANGED <<input, rest, current, unread, found, range>>

-----------------------------------------------------------------------------
(* The iterator over "||".                                                 *)

BarsAt(s, i) == i + 1 \in DOMAIN s /\ s[i] = Bar /\ s[i + 1] = Bar
HasBars(s)   == \E i \in DOMAIN s : BarsAt(s, i)
FirstBars(s) == CHOOSE i \in DOMAIN s : BarsAt(s, i) /\ \A j \in 1..(i - 1) : ~BarsAt(s, j)

SkipBlanks(s) == Skip(s, Find(s, Char \ {Space}) - 1)

(* A sub-range that is all white space keeps it.                           *)
Trimmed(s) == IF Trim(s) = <<>> THEN s ELSE Trim(s)

Enter(s) ==
  /\ current' = s /\ unread' = s
  /\ found' = <<>>
  /\ stage' = "constraints"
  /\ UNCHANGED <<input, range>>

(* Slip: what follows the first "||" is not read.                          *)
SlipFirstOnly ==
  /\ stage = "sub-ranges" /\ HasBars(rest)
  /\ Enter(Trim(SubSeq(rest, 1, FirstBars(rest) - 1)))
  /\ rest' = <<>>

(* The white space around "||" belongs to the separator.                   *)
TakeUpToBars ==
  /\ stage = "sub-ranges" /\ HasBars(rest)
  /\ Enter(Trim(SubSeq(rest, 1, FirstBars(rest) - 1)))
  /\ rest' = SkipBlanks(Skip(rest, FirstBars(rest) + 1))

TakeLast ==
  /\ stage = "sub-ranges" /\ ~HasBars(rest) /\ rest # <<>>
  /\ Enter(Trimmed(rest))
  /\ rest' = <<>>

(* Nothing behind the last "||" is no sub-range.                           *)
Finish ==
  /\ stage = "sub-ranges" /\ rest = <<>>
  /\ stage' = "read"
  /\ UNCHANGED <<input, rest, current, unread, found, range>>

-----------------------------------------------------------------------------
(* The iterator over the constraints of a sub-range.                       *)

OpChar == {Lesser, Greater, Caret, Tilde}

OpAt(s, i) ==
  IF i + 1 \in DOMAIN s /\ s[i] \in {Lesser, Greater} /\ s[i + 1] = Equal
  THEN <<s[i], Equal>> ELSE <<s[i]>>

OpName(s) ==
  CASE s = <<Lesser>> -> "<" [] s = <<Lesser, Equal>> -> "<="
    [] s = <<Greater>> -> ">" [] s = <<Greater, Equal>> -> ">="
    [] s = <<Caret>> -> "^" [] s = <<Tilde>> -> "~"

(* Slip: no white space may follow an operator.                            *)
SlipNoBlanks(s, i) == Skip(s, i - 1 + Len(OpAt(s, i)))

BehindOp(s, i) == SkipBlanks(Skip(s, i - 1 + Len(OpAt(s, i))))

VersionAt(s, i) == Before(BehindOp(s, i), Char \ WordChar)

(* Slip: the version of a constraint may be empty.                         *)
SlipEmptyVersion(s) == {i \in DOMAIN s : s[i] \in OpChar}

(* Where the expression matches.  An operator without a version does not,  *)
(* and the search goes on behind it.                                       *)
Matches(s) == {i \in DOMAIN s : s[i] \in OpChar /\ VersionAt(s, i) # <<>>}

Takes(i) ==
  found' = Append(found, [op |-> OpName(OpAt(unread, i)), ver |-> TextOf(VersionAt(unread, i))])

(* Slip: the search goes on behind the next white space.                   *)
SlipSkipsWord ==
  /\ stage = "constraints" /\ Matches(unread) # {}
  /\ Takes(Min(Matches(unread)))
  /\ unread' = After(BehindOp(unread, Min(Matches(unread))), {Space})
  /\ UNCHANGED <<input, stage, rest, current, range>>

(* Slip: the iterator does not advance.                                    *)
SlipStays ==
  /\ stage = "constraints" /\ Matches(unread) # {}
  /\ Takes(Min(Matches(unread)))
  /\ UNCHANGED <<input, stage, rest, current, unread, range>>

NextConstraint ==
  /\ stage = "constraints" /\ Matches(unread) # {}
  /\ LET i == Min(Matches(unread))
     IN Takes(i) /\ unread' = Skip(BehindOp(unread, i), Len(VersionAt(unread, i)))
  /\ UNCHANGED <<input, stage, rest, current, range>>

(* Of a text without operators coerce() will read the digits it matches.   *)
Matched(s) ==
  LET groups == Groups(s)
      count  == IF groups[2] = <<>> THEN 1 ELSE IF groups[3] = <<>> THEN 2 ELSE 3
  IN [nums |-> [i \in 1..count |-> PieceOf(groups[i])], pre |-> <<>>]

BareText(s) == IF CanCoerce(s) THEN Matched(s) ELSE TextOf(s)

SubRangeOf(s) ==
  IF Chars(s) \cap OpChar = {}
  THEN [bare |-> TRUE, text |-> BareText(s), constraints |-> <<>>]
  ELSE [bare |-> FALSE, text |-> EmptyText, constraints |-> found]

EndSubRange ==
  /\ stage = "constraints" /\ Matches(unread) = {}
  /\ range' = [range EXCEPT !.subs = Append(@, SubRangeOf(current))]
  /\ stage' = "sub-ranges"
  /\ UNCHANGED <<input, rest, current, unread, found>>

-----------------------------------------------------------------------------

Read ==
  /\ \/ ReadAtOnce \/ ReadHyphen \/ BeginLoop
     \/ TakeUpToBars \/ TakeLast \/ Finish
     \/ NextConstraint \/ EndSubRange
  /\ UNCHANGED loopVars

Compute == stage = "read" /\ Next /\ UNCHANGED readerVars

(* Nothing happens to a call that has ended.                               *)
Ended == outcome # "running" /\ UNCHANGED stringVars

StringNext == Read \/ Compute \/ Ended

StringSpec == StringInit /\ [][StringNext]_stringVars

-----------------------------------------------------------------------------
(* Correctness.                                                            *)

(* What is read now is one that its pieces tell from every other: the      *)
(* version of the next constraint, or the sub-range without operators that *)
(* ends here and of which coerce() will not match some digits.  Not so     *)
(* "**", whose piece is that of "*", nor "0.0a.3", whose piece "0a" is 0.  *)
Legible ==
  stage = "constraints" =>
    IF Matches(unread) # {}
    THEN LET v == VersionAt(unread, Min(Matches(unread))) IN HasText(v) /\ NoSign(v)
    ELSE Chars(current) \cap OpChar # {} \/ CanCoerce(current) \/ HasText(current)

(* No constraint is lost or read twice: those found and those that the     *)
(* iterator will still match are as many as the matches in the whole       *)
(* sub-range.                                                              *)
NoConstraintLost ==
  stage = "constraints" =>
    Len(found) + Cardinality(Matches(unread)) = Cardinality(Matches(current))

(* Reading ends: a step of an iterator leaves less of the string to read,  *)
(* and so does each entry into a sub-range, also into an empty one.        *)
LeftToRead == 2 * Len(rest) + Len(unread)

ReadingAdvances ==
  [][stage' \in {stage, "constraints"} => LeftToRead' < LeftToRead]_readerVars

(* The hyphen form, which a pre-release of digits such as "1.0.0-2" has    *)
(* too, is read like any text without operators: the same answer would     *)
(* come from its first digits.                                             *)
HyphenReadsAlike ==
  stage = "read" /\ range.hyphen => Coerce(range.left) = Coerce(BareText(input))

(* A range that is written from sub-ranges, operators and versions is read *)
(* as them, wherever white space is put between them.                      *)
Squeezed(s) == SelectSeq(s, LAMBDA c : c # Space)

ReadsAsWritten ==
  stage = "read" /\ pc = "start" /\ Squeezed(input) \in DOMAIN Meaning => range = Meaning[Squeezed(input)]

(* The calls of the repository's tests are answered as the tests expect,   *)
(* and what they are called with is legible.                               *)
AnswersTests ==
  input \in DOMAIN TestAnswer =>
    Legible /\ (outcome # "running" => outcome = "returned" /\ best = TestAnswer[input])
=============================================================================
