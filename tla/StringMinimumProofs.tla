------------------------ MODULE StringMinimumProofs ------------------------
(***************************************************************************)
(* What minimum() makes of a string, for every string: every step of its   *)
(* two iterators leaves less to read, what is read is an argument that     *)
(* Minimum is about, no constraint is lost, and the answer to a string     *)
(* that is legible is one to what was read.                                *)
(***************************************************************************)
EXTENDS StringMinimum, MinimumProofs

-----------------------------------------------------------------------------
(* Parts of strings, and their lengths.                                    *)

LEMMA TrimmedLength ==
  ASSUME NEW s \in String
  PROVE  Trimmed(s) \in String /\ Len(Trimmed(s)) <= Len(s)
<1>1. Len(s) \in Nat
  BY DEF String
<1>2. QED
  BY <1>1, TrimLength DEF Trimmed

LEMMA SkipBlanksLength ==
  ASSUME NEW s \in String
  PROVE  SkipBlanks(s) \in String /\ Len(SkipBlanks(s)) <= Len(s)
<1>1. Find(s, Char \ {Space}) - 1 \in Nat
  BY FindRange
<1>2. QED
  BY <1>1, SkipLength DEF SkipBlanks

(* Behind an operator there is less of the string than before it.          *)
LEMMA BehindOpLength ==
  ASSUME NEW s \in String, NEW i \in DOMAIN s
  PROVE  BehindOp(s, i) \in String /\ Len(BehindOp(s, i)) < Len(s)
<1> DEFINE n == i - 1 + Len(OpAt(s, i))
<1>1. i \in Nat \ {0} /\ s # <<>> /\ Len(s) \in Nat
  BY DEF String
<1>2. Len(OpAt(s, i)) = 1 \/ Len(OpAt(s, i)) = 2
  BY DEF OpAt
<1>3. n \in Nat /\ n >= 1
  <2> DEFINE k == Len(OpAt(s, i))
  <2>1. k \in 1..2
    BY <1>2
  <2> HIDE DEF k
  <2>2. i - 1 + k \in Nat /\ i - 1 + k >= 1
    BY <1>1, <2>1
  <2>3. QED
    BY <2>2 DEF k
<1> HIDE DEF n
<1>4. Skip(s, n) \in String /\ Len(Skip(s, n)) < Len(s)
  BY <1>1, <1>3, SkipLength
<1>5. BehindOp(s, i) = SkipBlanks(Skip(s, n))
  BY DEF BehindOp, n
<1>6. /\ SkipBlanks(Skip(s, n)) \in String /\ Len(SkipBlanks(Skip(s, n))) <= Len(Skip(s, n))
  BY <1>4, SkipBlanksLength
<1>7. Len(Skip(s, n)) \in Nat /\ Len(SkipBlanks(Skip(s, n))) \in Nat
  BY <1>4, <1>6 DEF String
<1>8. QED
  BY <1>1, <1>4, <1>5, <1>6, <1>7

LEMMA VersionAtType ==
  ASSUME NEW s \in String, NEW i \in DOMAIN s
  PROVE  VersionAt(s, i) \in String
<1> DEFINE b == BehindOp(s, i)
<1>1. b \in String
  BY BehindOpLength
<1> HIDE DEF b
<1>2. Find(b, Char \ WordChar) - 1 \in 0..Len(b) /\ Len(b) \in Nat
  BY <1>1, FindRange DEF String
<1>3. Before(b, Char \ WordChar) \in String
  BY <1>1, <1>2, SubSeqLength DEF Before
<1>4. QED
  BY <1>3 DEF VersionAt, b

LEMMA FirstBarsRange ==
  ASSUME NEW s \in String, HasBars(s)
  PROVE  FirstBars(s) \in 1..(Len(s) - 1)
<1> DEFINE T == {i \in DOMAIN s : BarsAt(s, i)}
<1>1. DOMAIN s = 1..Len(s) /\ Len(s) \in Nat
  BY DEF String
<1>2. T \subseteq Nat /\ T # {}
  BY <1>1 DEF HasBars
<1>3. PICK x \in T : \A y \in T : x <= y
  BY <1>2, LeastNatural
<1>4. \A j \in 1..(x - 1) : ~BarsAt(s, j)
  BY <1>1, <1>3
<1>5. FirstBars(s) \in DOMAIN s /\ BarsAt(s, FirstBars(s))
  BY <1>3, <1>4 DEF FirstBars
<1>6. QED
  BY <1>1, <1>5 DEF BarsAt

LEMMA FirstMatch ==
  ASSUME NEW s \in String, Matches(s) # {}
  PROVE  Min(Matches(s)) \in Matches(s) /\ Min(Matches(s)) \in DOMAIN s
<1>1. Matches(s) \subseteq Nat /\ Matches(s) \subseteq DOMAIN s
  BY DEF Matches, String
<1>2. \E i \in Matches(s) : \A j \in Matches(s) : i <= j
  BY <1>1, LeastNatural
<1>3. Min(Matches(s)) \in Matches(s)
  BY <1>2 DEF Min
<1>4. QED
  BY <1>1, <1>3

-----------------------------------------------------------------------------
(* What is left to read is always a string.                                *)

StringsInv == input \in String /\ rest \in String /\ unread \in String

(* The steps that take a sub-range or a constraint, and how much of the    *)
(* string they leave.                                                      *)
LEMMA UpToBarsAdvances ==
  ASSUME StringsInv, TakeUpToBars
  PROVE  StringsInv' /\ LeftToRead' < LeftToRead
<1> DEFINE f   == FirstBars(rest)
           s   == SubSeq(rest, 1, f - 1)
           r   == Skip(rest, f + 1)
<1>1. rest \in String /\ unread \in String /\ Len(rest) \in Nat /\ Len(unread) \in Nat
  BY DEF StringsInv, String
<1>2. f \in 1..(Len(rest) - 1)
  BY <1>1, FirstBarsRange DEF TakeUpToBars
<1>3. unread' = Trim(s) /\ rest' = SkipBlanks(r) /\ input' = input
  BY DEF TakeUpToBars, Enter
<1> HIDE DEF f
<1>4. s \in String /\ Len(s) <= f - 1
  BY <1>1, <1>2, SubSeqLength
<1>5. r \in String /\ Len(r) = Len(rest) - f - 1
  BY <1>1, <1>2 DEF Skip, String
<1> HIDE DEF s, r
<1>6. unread' \in String /\ Len(unread') <= Len(s) /\ rest' \in String /\ Len(rest') <= Len(r)
  BY <1>3, <1>4, <1>5, TrimLength, SkipBlanksLength
<1>7. Len(unread') \in Nat /\ Len(rest') \in Nat /\ Len(s) \in Nat /\ Len(r) \in Nat
  BY <1>4, <1>5, <1>6 DEF String
<1>8. LeftToRead' < LeftToRead
  BY <1>1, <1>2, <1>4, <1>5, <1>6, <1>7 DEF LeftToRead
<1>9. QED
  BY <1>3, <1>6, <1>8 DEF StringsInv

LEMMA LastAdvances ==
  ASSUME StringsInv, TakeLast
  PROVE  StringsInv' /\ LeftToRead' < LeftToRead
<1>1. rest \in String /\ unread \in String /\ rest # <<>> /\ Len(rest) \in Nat \ {0} /\ Len(unread) \in Nat
  BY DEF StringsInv, String, TakeLast
<1>2. unread' = Trimmed(rest) /\ rest' = <<>> /\ input' = input
  BY DEF TakeLast, Enter
<1>3. unread' \in String /\ Len(unread') <= Len(rest)
  BY <1>1, <1>2, TrimmedLength
<1>4. Len(unread') \in Nat
  BY <1>3 DEF String
<1>5. LeftToRead' < LeftToRead
  BY <1>1, <1>2, <1>3, <1>4 DEF LeftToRead
<1>6. QED
  BY <1>2, <1>3, <1>5 DEF StringsInv, String

LEMMA ConstraintAdvances ==
  ASSUME StringsInv, NextConstraint
  PROVE  StringsInv' /\ LeftToRead' < LeftToRead
<1> DEFINE i == Min(Matches(unread))
           b == BehindOp(unread, i)
           n == Len(VersionAt(unread, i))
<1>1. rest \in String /\ unread \in String /\ Len(rest) \in Nat /\ Len(unread) \in Nat
  BY DEF StringsInv, String
<1>2. i \in DOMAIN unread
  BY <1>1, FirstMatch DEF NextConstraint
<1>3. unread' = Skip(b, n) /\ rest' = rest /\ input' = input
  BY DEF NextConstraint
<1> HIDE DEF i
<1>4. b \in String /\ Len(b) < Len(unread)
  BY <1>1, <1>2, BehindOpLength
<1>5. n \in Nat
  BY <1>1, <1>2, VersionAtType DEF String
<1> HIDE DEF b, n
<1>6. unread' \in String /\ Len(unread') <= Len(b)
  BY <1>3, <1>4, <1>5, SkipLength
<1>7. Len(unread') \in Nat /\ Len(b) \in Nat
  BY <1>4, <1>6 DEF String
<1>8. LeftToRead' < LeftToRead
  BY <1>1, <1>3, <1>4, <1>6, <1>7 DEF LeftToRead
<1>9. QED
  BY <1>1, <1>3, <1>6, <1>8 DEF StringsInv

LEMMA ReadingStep ==
  StringsInv /\ [StringNext]_stringVars
    => /\ StringsInv'
       /\ [stage' \in {stage, "constraints"} => LeftToRead' < LeftToRead]_readerVars
<1> SUFFICES ASSUME StringsInv, [StringNext]_stringVars
             PROVE  /\ StringsInv'
                    /\ [stage' \in {stage, "constraints"} => LeftToRead' < LeftToRead]_readerVars
  OBVIOUS
<1>1. CASE TakeUpToBars
  BY <1>1, UpToBarsAdvances
<1>2. CASE TakeLast
  BY <1>2, LastAdvances
<1>3. CASE NextConstraint
  BY <1>3, ConstraintAdvances
<1>4. CASE ReadAtOnce \/ ReadHyphen \/ BeginLoop \/ Finish \/ EndSubRange
  <2>1. UNCHANGED <<input, rest, unread>>
    BY <1>4 DEF ReadAtOnce, ReadHyphen, BeginLoop, Finish, EndSubRange
  <2>2. stage' \notin {stage, "constraints"}
    BY <1>4 DEF ReadAtOnce, ReadHyphen, BeginLoop, Finish, EndSubRange
  <2>3. QED
    BY <2>1, <2>2 DEF StringsInv
<1>5. CASE UNCHANGED readerVars
  BY <1>5 DEF readerVars, StringsInv
<1>6. QED
  BY <1>1, <1>2, <1>3, <1>4, <1>5
     DEF StringNext, Read, Compute, Ended, stringVars

(* On every string, of any length, both iterators get to its end: each of  *)
(* their steps leaves less to read.                                        *)
THEOREM ReadingEnds == StringSpec => ReadingAdvances
<1>1. StringInit => StringsInv
  BY InputsAssumption DEF StringInit, StringsInv, String
<1>2. QED
  BY <1>1, ReadingStep, PTL DEF StringSpec, ReadingAdvances

-----------------------------------------------------------------------------
(* What the expressions read has a text.                                   *)

(* What stands on the two sides of a '-'.                                   *)
LEMMA LeftType ==
  ASSUME NEW s \in String
  PROVE  Left(s) \in String /\ Right(s) \in String
<1>1. Before(Trim(s), {Dash}) \in String /\ After(Trim(s), {Dash}) \in String
  BY TrimLength, PartChars
<1>2. QED
  BY <1>1, TrimLength DEF Left, Right

(* The version of a constraint is not empty.                               *)
LEMMA VersionAtText ==
  ASSUME NEW s \in String, NEW i \in Matches(s)
  PROVE  TextOf(VersionAt(s, i)) \in Text \ {EmptyText}
<1> DEFINE b == BehindOp(s, i)
           p == VersionAt(s, i)
<1>1. i \in DOMAIN s /\ p # <<>>
  BY DEF Matches
<1>2. b \in String
  BY <1>1, BehindOpLength
<1>3. p = Before(b, Char \ WordChar)
  BY DEF VersionAt
<1> HIDE DEF b, p
<1>4. p \in String
  BY <1>2, <1>3, PartChars
<1>5. QED
  BY <1>1, <1>4, TextOfType DEF p

LEMMA OpNameType ==
  ASSUME NEW s, NEW i, s[i] \in OpChar
  PROVE  OpName(OpAt(s, i)) \in Ops
<1> DEFINE c == s[i]
<1>1. c \in {Lesser, Greater, Caret, Tilde} /\ Lesser # Greater
  BY BaseAssumption DEF OpChar, Lesser, Greater
<1>2. OpAt(s, i) = <<c>> \/ (c \in {Lesser, Greater} /\ OpAt(s, i) = <<c, Equal>>)
  BY DEF OpAt
<1> HIDE DEF c
<1>3. /\ OpName(<<Lesser>>) = "<"
      /\ OpName(<<Greater>>) = ">"
      /\ OpName(<<Lesser, Equal>>) = "<="
      /\ OpName(<<Greater, Equal>>) = ">="
      /\ OpName(<<Caret>>) = "^"
      /\ OpName(<<Tilde>>) = "~"
  BY BaseAssumption DEF OpName, Lesser, Greater, Equal, Caret, Tilde
<1>4. QED
  BY <1>1, <1>2, <1>3 DEF Ops

(* A text without operators is read from its digits.                       *)
LEMMA MatchedType ==
  ASSUME NEW s \in String, CanCoerce(s)
  PROVE  Matched(s) \in Text
<1> DEFINE g == Groups(s)
           n == IF g[2] = <<>> THEN 1 ELSE IF g[3] = <<>> THEN 2 ELSE 3
<1>1. Matched(s) = [nums |-> [i \in 1..n |-> PieceOf(g[i])], pre |-> <<>>]
  BY DEF Matched
<1>2. n \in 1..3
  OBVIOUS
<1>3. \A i \in 1..3 : g[i] \in String /\ OnlyDigits(g[i])
  BY GroupsType
<1> HIDE DEF g, n
<1>4. ASSUME NEW i \in 1..n
      PROVE  PieceOf(g[i]) \in Piece
  <2>1. g[i] \in String /\ OnlyDigits(g[i])
    BY <1>2, <1>3
  <2>2. g[i] # <<>> => g[i][1] \in Digit
    <3>1. g[i] # <<>> => 1 \in DOMAIN g[i]
      BY <2>1 DEF String
    <3>2. QED
      BY <2>1, <3>1 DEF OnlyDigits, Chars
  <2>3. Dot \notin Digit /\ Dash \notin Digit
    BY CharacterFacts
  <2>4. QED
    BY <2>1, <2>2, <2>3, PieceOfType
<1>5. [i \in 1..n |-> PieceOf(g[i])] \in Seq(Piece) \ {<<>>}
  BY <1>2, <1>4
<1>6. QED
  BY <1>1, <1>5 DEF Text

LEMMA SubRangeOfType ==
  ASSUME NEW s \in String, found \in Seq(Constraint)
  PROVE  SubRangeOf(s) \in SubRange
<1>1. CASE Chars(s) \cap OpChar = {}
  <2>2. BareText(s) \in Text
    BY MatchedType, TextOfType DEF BareText
  <2>3. SubRangeOf(s) = [bare |-> TRUE, text |-> BareText(s), constraints |-> <<>>]
    BY <1>1 DEF SubRangeOf
  <2>4. QED
    BY <2>2, <2>3 DEF SubRange
<1>2. CASE Chars(s) \cap OpChar # {}
  <2>1. SubRangeOf(s) = [bare |-> FALSE, text |-> EmptyText, constraints |-> found]
    BY <1>2 DEF SubRangeOf
  <2>2. QED
    BY <2>1, EmptyTextType DEF SubRange
<1>3. QED
  BY <1>1, <1>2

(* The reader's variables keep their types.                                *)
LEMMA ReaderTypeStep ==
  ReaderTypeOK /\ [StringNext]_stringVars => ReaderTypeOK'
<1> SUFFICES ASSUME ReaderTypeOK, [StringNext]_stringVars
             PROVE  ReaderTypeOK'
  OBVIOUS
<1>1. StringsInv /\ StringsInv'
  BY ReadingStep DEF ReaderTypeOK, StringsInv
<1>2. range.left \in Text /\ range.hyphen \in BOOLEAN /\ range.subs \in Seq(SubRange)
  BY DEF ReaderTypeOK, RangeArg
<1>3. \A subs \in Seq(SubRange) : [range EXCEPT !.subs = subs] \in RangeArg
  BY DEF ReaderTypeOK, RangeArg
<1>4. CASE ReadAtOnce
  <2>1. StarText \in Text
    BY DEF StarText, Star, Word, Text, Piece, Tag, EmptyRank
  <2>2. StarRange \in SubRange
    BY <2>1 DEF StarRange, SubRange
  <2>3. <<StarRange>> \in Seq(SubRange)
    BY <2>2
  <2>4. range' \in RangeArg
    BY <1>3, <1>4, <2>3 DEF ReadAtOnce, ReaderTypeOK
  <2>5. QED
    BY <1>4, <2>4 DEF ReadAtOnce, ReaderTypeOK
<1>5. CASE ReadHyphen
  <2>1. TextOf(Left(input)) \in Text
    BY <1>1, LeftType, TextOfType DEF StringsInv
  <2>2. range' = [range EXCEPT !.hyphen = TRUE, !.left = TextOf(Left(input))]
    BY <1>5 DEF ReadHyphen
  <2>3. range' \in RangeArg
    BY <2>1, <2>2 DEF ReaderTypeOK, RangeArg
  <2>4. QED
    BY <1>5, <2>3 DEF ReadHyphen, ReaderTypeOK
<1>6. CASE BeginLoop \/ Finish
  BY <1>6 DEF BeginLoop, Finish, ReaderTypeOK
<1>7. CASE TakeUpToBars \/ TakeLast
  <2>1. /\ current' = unread' /\ found' = <<>> /\ stage' = "constraints"
        /\ range' = range
    BY <1>7 DEF TakeUpToBars, TakeLast, Enter
  <2>2. QED
    BY <1>1, <2>1 DEF ReaderTypeOK, StringsInv
<1>8. CASE NextConstraint
  <2> DEFINE i == Min(Matches(unread))
             c == [op |-> OpName(OpAt(unread, i)), ver |-> TextOf(VersionAt(unread, i))]
  <2>1. found' = Append(found, c)
    BY <1>8 DEF NextConstraint, Takes
  <2>2. i \in Matches(unread)
    BY <1>1, <1>8, FirstMatch DEF NextConstraint, StringsInv
  <2>3. unread[i] \in OpChar
    BY <2>2 DEF Matches
  <2>4. c \in Constraint
    <3> HIDE DEF i
    <3>1. OpName(OpAt(unread, i)) \in Ops
      BY <2>3, OpNameType
    <3>2. TextOf(VersionAt(unread, i)) \in Text \ {EmptyText}
      BY <1>1, <2>2, VersionAtText DEF StringsInv
    <3>3. QED
      BY <3>1, <3>2 DEF Constraint
  <2> HIDE DEF c
  <2>5. found' \in Seq(Constraint)
    BY <2>1, <2>4 DEF ReaderTypeOK
  <2>6. stage' = stage /\ current' = current /\ range' = range
    BY <1>8 DEF NextConstraint
  <2>7. QED
    BY <1>1, <2>5, <2>6 DEF ReaderTypeOK, StringsInv
<1>9. CASE EndSubRange
  <2>1. SubRangeOf(current) \in SubRange
    BY SubRangeOfType DEF ReaderTypeOK
  <2>2. Append(range.subs, SubRangeOf(current)) \in Seq(SubRange)
    BY <1>2, <2>1
  <2>3. range' = [range EXCEPT !.subs = Append(range.subs, SubRangeOf(current))]
    BY <1>9 DEF EndSubRange
  <2>4. range' \in RangeArg
    BY <1>3, <2>2, <2>3
  <2>5. QED
    BY <1>9, <2>4 DEF EndSubRange, ReaderTypeOK
<1>10. CASE Compute
  <2>1. range' = range
    BY <1>10, RangeStays DEF Compute
  <2>2. QED
    BY <1>10, <2>1 DEF Compute, readerVars, ReaderTypeOK
<1>11. CASE UNCHANGED stringVars
  BY <1>11 DEF stringVars, readerVars, ReaderTypeOK
<1>12. QED
  BY <1>4, <1>5, <1>6, <1>7, <1>8, <1>9, <1>10, <1>11 DEF StringNext, Read, Ended

LEMMA ReaderTypeInit == StringInit => ReaderTypeOK
<1>1. <<>> \in String /\ <<>> \in Seq(Constraint) /\ <<>> \in Seq(SubRange)
  BY DEF String
<1>2. NothingRead \in RangeArg
  BY <1>1, EmptyTextType DEF NothingRead, RangeArg
<1>3. QED
  BY <1>1, <1>2, InputsAssumption DEF StringInit, ReaderTypeOK

(* Whatever string minimum() is called with, the argument that its regular *)
(* expressions read from it is one that Minimum is about: every constraint *)
(* has an operator and a version that is not empty.                        *)
THEOREM ReaderTypeCorrect == StringSpec => []ReaderTypeOK
BY ReaderTypeInit, ReaderTypeStep, PTL DEF StringSpec

-----------------------------------------------------------------------------
(* The answers.  Until a string has been read the loops of minimum() have  *)
(* not begun, and then they keep what they keep for every argument.        *)

Fresh ==
  /\ pc = "start" /\ sub = 1 /\ it = 1
  /\ lower = <<>> /\ upper = <<>> /\ candidate = EmptyText
  /\ best = NoText /\ outcome = "running" /\ offered = {}

LoopInv ==
  /\ CandidateInv
  /\ BestIsLeast /\ OffersMeet /\ NothingBelowOffers /\ BoundsOfferThemselves

LEMMA FreshLoop == ReaderTypeOK /\ Fresh => LoopInv
<1> SUFFICES ASSUME ReaderTypeOK, Fresh PROVE LoopInv
  OBVIOUS
<1>1. TypeInv
  <2>1. range \in RangeArg
    BY DEF ReaderTypeOK
  <2>2. Types
    BY <2>1, EmptyTextType DEF Fresh, Types, Labels, Outcomes
  <2>3. Position
    BY DEF Fresh, Position
  <2>4. QED
    BY <2>2, <2>3 DEF TypeInv
<1>2. CandidateInv
  BY <1>1 DEF Fresh, CandidateInv, FoldInv, UpperPosition, UpperBoundsKept, Passed,
              Gathered, Inner, Candidacy
<1>3. Over = {}
  <2>1. range.subs \in Seq(SubRange) /\ sub = 1 /\ outcome = "running"
    BY <1>1, RangeFields DEF Fresh, TypeInv
  <2>2. QED
    BY <2>1 DEF Over
<1>4. QED
  BY <1>2, <1>3
     DEF Fresh, LoopInv, BestIsLeast, OffersMeet, NothingBelowOffers, BoundsOfferThemselves

LEMMA LoopStep == LoopInv /\ [Next]_vars => LoopInv'
BY CandidateStep, BestStep, OffersMeetStep, NothingBelowStep, BoundsOfferStep
   DEF LoopInv, CandidateInv

CallInv == ReaderTypeOK /\ LoopInv /\ (stage # "read" => Fresh)

LEMMA CallInvariant == StringSpec => []CallInv
<1>1. StringInit => ReaderTypeOK /\ Fresh
  BY ReaderTypeInit DEF StringInit, Init, Fresh
<1>2. StringInit => CallInv
  BY <1>1, FreshLoop DEF CallInv
<1>3. ReaderTypeOK' /\ Fresh' => LoopInv'
  BY FreshLoop, PTL
<1>4. ASSUME CallInv, [StringNext]_stringVars
      PROVE  CallInv'
  <2>1. ReaderTypeOK'
    BY <1>4, ReaderTypeStep DEF CallInv
  <2>2. CASE Read
    <3>1. Fresh
      BY <1>4, <2>2 DEF CallInv, Read, ReadAtOnce, ReadHyphen, BeginLoop, TakeUpToBars, TakeLast,
                        Finish, NextConstraint, EndSubRange
    <3>2. Fresh'
      BY <2>2, <3>1 DEF Read, loopVars, Fresh
    <3>3. QED
      BY <1>3, <2>1, <3>2 DEF CallInv
  <2>3. CASE Compute
    <3>1. LoopInv'
      BY <1>4, <2>3, LoopStep DEF CallInv, Compute
    <3>2. stage' = "read"
      BY <2>3 DEF Compute, readerVars
    <3>3. QED
      BY <2>1, <3>1, <3>2 DEF CallInv
  <2>4. CASE UNCHANGED stringVars
    <3>1. UNCHANGED vars /\ stage' = stage
      BY <2>4 DEF stringVars, loopVars, readerVars, vars
    <3>2. LoopInv'
      BY <1>4, <3>1, LoopStep DEF CallInv
    <3>3. Fresh => Fresh'
      BY <3>1 DEF Fresh, vars
    <3>4. QED
      BY <1>4, <2>1, <3>1, <3>2, <3>3 DEF CallInv
  <2>5. QED
    BY <1>4, <2>2, <2>3, <2>4 DEF StringNext, Ended
<1>5. QED
  BY <1>2, <1>4, PTL DEF StringSpec

(* Called with a string of any length and any number of sub-ranges and     *)
(* constraints, minimum() answers what was read from it: the answer meets  *)
(* a sub-range, no release below it meets one, and "^v" and "~v" admit v.  *)
(* This is said of the strings of which the pieces are all that counts:    *)
(* whose versions, and sub-ranges without operators, are legible.          *)
THEOREM StringAnswerCorrect ==
  StringSpec /\ []Legible => [](AnswerMeetsRange /\ NoLowerRelease /\ BoundAdmitsItself)
<1>1. CallInv => AnswerMeetsRange
  BY BestMeets DEF CallInv, LoopInv
<1>2. CallInv => NoLowerRelease
  BY BestIsLowest DEF CallInv, LoopInv, CandidateInv
<1>3. CallInv => BoundAdmitsItself
  BY DEF CallInv, LoopInv, BoundsOfferThemselves, BoundAdmitsItself, Over
<1>4. QED
  BY <1>1, <1>2, <1>3, CallInvariant, PTL

-----------------------------------------------------------------------------
(* No constraint is lost.                                                  *)

(* What stands before the first character of C.                            *)
LEMMA UpToFind ==
  ASSUME NEW s \in String, NEW C
  PROVE  /\ Len(Before(s, C)) = Find(s, C) - 1
         /\ \A i \in 1..(Find(s, C) - 1) : i \in DOMAIN s /\ s[i] \notin C
<1> DEFINE n == Find(s, C) - 1
           b == Before(s, C)
<1>1. n \in 0..Len(s) /\ Len(s) \in Nat /\ DOMAIN s = 1..Len(s) /\ s \in Seq(Char)
  BY FindRange, Characters DEF String
<1>2. b = SubSeq(s, 1, n)
  BY DEF Before
<1>3. Chars(b) \cap C = {}
  BY FoundParts, NotFound
<1> HIDE DEF n, b
<1>4. Len(b) = n /\ DOMAIN b = 1..n /\ \A i \in 1..n : b[i] = s[i]
  BY <1>1, <1>2
<1>5. \A i \in 1..n : i \in DOMAIN s /\ s[i] \notin C
  BY <1>1, <1>3, <1>4 DEF Chars
<1>6. QED
  BY <1>4, <1>5 DEF n, b

LEMMA NoOperators ==
  /\ \A c \in Char : c \notin Char \ {Space} => c \notin OpChar
  /\ \A c \in Char : c \notin Char \ WordChar => c \notin OpChar
  /\ Equal \notin OpChar
BY BaseAssumption
   DEF OpChar, WordChar, Char, Space, Dot, Dash, Digit, Lesser, Equal, Greater, Caret,
       LetterA, LetterX, Tilde

(* Behind an operator stand what belongs to it, white space and a version, *)
(* and none of them has the first character of an operator.                *)
LEMMA ConstraintEnds ==
  ASSUME NEW s \in String, NEW i \in DOMAIN s
  PROVE  \E n \in i..Len(s) :
           /\ Skip(BehindOp(s, i), Len(VersionAt(s, i))) = Skip(s, n)
           /\ \A j \in (i + 1)..n : s[j] \notin OpChar
<1> DEFINE k == i - 1 + Len(OpAt(s, i))
           r == Skip(s, k)
           m == Find(r, Char \ {Space}) - 1
           b == Skip(r, m)
           l == Find(b, Char \ WordChar) - 1
<1>1. /\ Len(s) \in Nat /\ DOMAIN s = 1..Len(s) /\ i \in 1..Len(s)
      /\ \A j \in 1..Len(s) : s[j] \in Char
  BY Characters DEF String
<1>2. k \in i..Len(s) /\ \A j \in (i + 1)..k : s[j] \notin OpChar
  <2>1. CASE i + 1 \in DOMAIN s /\ s[i] \in {Lesser, Greater} /\ s[i + 1] = Equal
    <3>1. Len(OpAt(s, i)) = 2
      BY <2>1 DEF OpAt
    <3>2. k = i + 1 /\ i + 1 \in i..Len(s)
      BY <1>1, <2>1, <3>1
    <3>3. \A j \in (i + 1)..k : j = i + 1
      BY <1>1, <3>2
    <3>4. QED
      BY <2>1, <3>2, <3>3, NoOperators
  <2>2. CASE ~(i + 1 \in DOMAIN s /\ s[i] \in {Lesser, Greater} /\ s[i + 1] = Equal)
    <3>1. Len(OpAt(s, i)) = 1
      BY <2>2 DEF OpAt
    <3>2. k = i
      BY <1>1, <3>1
    <3>3. QED
      BY <1>1, <3>2
  <2>3. QED
    BY <2>1, <2>2
<1>3. BehindOp(s, i) = b
  BY DEF BehindOp, SkipBlanks
<1>4. VersionAt(s, i) = Before(b, Char \ WordChar)
  BY <1>3 DEF VersionAt
<1> HIDE DEF k
<1>5. k \in 0..Len(s) /\ k \in Nat
  BY <1>1, <1>2
<1>6. r \in String /\ Len(r) = Len(s) - k /\ \A j \in 1..(Len(s) - k) : r[j] = s[k + j]
  BY <1>5, SkipLength, SkipParts
<1>7. \A x \in Nat : Skip(r, x) = Skip(s, k + x)
  BY <1>5, SkipParts
<1> HIDE DEF r
<1>8. m \in 0..Len(r) /\ m \in Nat /\ \A j \in 1..m : r[j] \notin Char \ {Space}
  BY <1>6, FindRange, UpToFind, Characters
<1> HIDE DEF m
<1>9. b \in String /\ Len(b) = Len(r) - m /\ \A j \in 1..(Len(r) - m) : b[j] = r[m + j]
  BY <1>6, <1>8, SkipLength, SkipParts
<1>10. \A x \in Nat : Skip(b, x) = Skip(r, m + x)
  BY <1>6, <1>8, SkipParts
<1> HIDE DEF b
<1>11. l \in 0..Len(b) /\ l \in Nat /\ \A j \in 1..l : b[j] \notin Char \ WordChar
  BY <1>9, FindRange, UpToFind, Characters
<1>12. Len(VersionAt(s, i)) = l
  BY <1>4, <1>9, UpToFind
<1> HIDE DEF l
<1>13. Len(r) \in Nat /\ Len(b) \in Nat
  BY <1>6, <1>9, Characters
<1> DEFINE n == k + m + l
<1>14. n \in i..Len(s)
  BY <1>1, <1>2, <1>6, <1>8, <1>9, <1>11, <1>13
<1>15. Skip(b, l) = Skip(s, n)
  <2>1. Skip(b, l) = Skip(r, m + l)
    BY <1>10, <1>11
  <2>2. m + l \in Nat /\ k + (m + l) = n
    BY <1>5, <1>8, <1>11
  <2> HIDE DEF n
  <2>3. QED
    BY <1>7, <2>1, <2>2
<1>16. ASSUME NEW j \in (i + 1)..n
       PROVE  s[j] \notin OpChar
  <2>1. j \in Nat /\ j \in 1..Len(s) /\ s[j] \in Char
    BY <1>1, <1>14
  <2>2. CASE j <= k
    <3>1. j \in (i + 1)..k
      BY <1>5, <2>1, <2>2
    <3>2. QED
      BY <1>2, <3>1
  <2>3. CASE k < j /\ j <= k + m
    <3>1. j - k \in 1..m /\ j - k \in 1..(Len(s) - k) /\ k + (j - k) = j
      BY <1>1, <1>5, <1>8, <2>1, <2>3
    <3>2. s[j] \notin Char \ {Space}
      BY <1>6, <1>8, <3>1
    <3>3. QED
      BY <2>1, <3>2, NoOperators
  <2>4. CASE k + m < j
    <3>1. /\ j - k - m \in 1..l /\ j - k - m \in 1..(Len(r) - m)
          /\ m + (j - k - m) = j - k
          /\ j - k \in 1..(Len(s) - k) /\ k + (j - k) = j
      BY <1>1, <1>5, <1>6, <1>8, <1>9, <1>11, <1>13, <1>14, <2>1, <2>4
    <3>2. b[j - k - m] = r[j - k]
      BY <1>9, <3>1
    <3>3. r[j - k] = s[j]
      BY <1>6, <3>1
    <3>4. s[j] \notin Char \ WordChar
      BY <1>11, <3>1, <3>2, <3>3
    <3>5. QED
      BY <2>1, <3>4, NoOperators
  <2>5. QED
    BY <1>5, <1>8, <2>1, <2>2, <2>3, <2>4
<1>17. QED
  BY <1>3, <1>12, <1>14, <1>15, <1>16

LEMMA Shifted ==
  ASSUME NEW k \in Nat, NEW n \in 0..k, NEW j \in 1..(k - n)
  PROVE  n \in Nat /\ j \in Nat /\ n + j \in 1..k
OBVIOUS

(* Whether the expression matches at a place depends only on what follows. *)
LEMMA MatchesBehind ==
  ASSUME NEW s \in String, NEW n \in 0..Len(s), NEW j \in 1..(Len(s) - n)
  PROVE  j \in Matches(Skip(s, n)) <=> n + j \in Matches(s)
<1> DEFINE t == Skip(s, n)
<1>1. /\ Len(s) \in Nat /\ DOMAIN s = 1..Len(s) /\ n \in Nat /\ j \in Nat
      /\ n + j \in 1..Len(s)
  <2>1. Len(s) \in Nat /\ DOMAIN s = 1..Len(s)
    BY Characters
  <2>2. n \in Nat /\ j \in Nat /\ n + j \in 1..Len(s)
    BY <2>1, Shifted, ZenonT(30)
  <2>3. QED
    BY <2>1, <2>2
<1>2. t \in String /\ Len(t) = Len(s) - n /\ \A x \in 1..(Len(s) - n) : t[x] = s[n + x]
  BY <1>1, SkipLength, SkipParts
<1>3. \A x \in Nat : Skip(t, x) = Skip(s, n + x)
  BY SkipParts
<1> HIDE DEF t
<1>4. DOMAIN t = 1..(Len(s) - n)
  BY <1>2, Characters
<1>5. t[j] = s[n + j]
  BY <1>2
<1>6. OpAt(t, j) = OpAt(s, n + j)
  <2>1. j + 1 \in DOMAIN t <=> n + j + 1 \in DOMAIN s
    BY <1>1, <1>4
  <2>2. j + 1 \in DOMAIN t => t[j + 1] = s[n + j + 1]
    <3>1. n + (j + 1) = n + j + 1
      BY <1>1
    <3>2. QED
      BY <1>2, <1>4, <3>1
  <2>3. QED
    BY <1>5, <2>1, <2>2 DEF OpAt
<1>7. Len(OpAt(t, j)) \in Nat
  BY DEF OpAt
<1>8. j - 1 + Len(OpAt(t, j)) \in Nat
  <2> DEFINE k == Len(OpAt(t, j))
  <2>1. k \in Nat
    BY <1>7
  <2> HIDE DEF k
  <2>2. j - 1 + k \in Nat
    BY <2>1
  <2>3. QED
    BY <2>2 DEF k
<1>9. n + (j - 1 + Len(OpAt(t, j))) = n + j - 1 + Len(OpAt(s, n + j))
  <2> DEFINE k == Len(OpAt(t, j))
  <2>1. k \in Nat /\ Len(OpAt(s, n + j)) = k
    BY <1>6, <1>7
  <2> HIDE DEF k
  <2>2. n + (j - 1 + k) = n + j - 1 + k
    BY <1>1, <2>1
  <2>3. QED
    BY <2>1, <2>2 DEF k
<1>10. Skip(t, j - 1 + Len(OpAt(t, j))) = Skip(s, n + j - 1 + Len(OpAt(s, n + j)))
  BY <1>3, <1>8, <1>9
<1>11. VersionAt(t, j) = VersionAt(s, n + j)
  BY <1>10 DEF VersionAt, BehindOp
<1>12. j \in Matches(t) <=> n + j \in Matches(s)
  BY <1>1, <1>4, <1>5, <1>11 DEF Matches
<1>13. QED
  BY <1>12 DEF t

LEMMA MatchesFinite ==
  ASSUME NEW s \in String
  PROVE  IsFiniteSet(Matches(s)) /\ Cardinality(Matches(s)) \in Nat
<1>1. DOMAIN s = 1..Len(s) /\ Len(s) \in Nat
  BY Characters
<1>2. IsFiniteSet(1..Len(s)) /\ Matches(s) \subseteq 1..Len(s)
  BY <1>1, FS_Interval DEF Matches
<1>3. QED
  BY <1>2, FS_Subset, FS_CardinalityType

(* The iterator takes one match, and leaves the others.                    *)
LEMMA OneMatchTaken ==
  ASSUME NEW s \in String, Matches(s) # {}
  PROVE  LET i == Min(Matches(s))
             t == Skip(BehindOp(s, i), Len(VersionAt(s, i)))
         IN Cardinality(Matches(s)) = Cardinality(Matches(t)) + 1
<1> DEFINE M == Matches(s)
           i == Min(M)
           t == Skip(BehindOp(s, i), Len(VersionAt(s, i)))
           N == Matches(t)
<1>1. i \in M /\ i \in DOMAIN s /\ \A j \in M : i <= j
  <2>1. M \subseteq Nat
    BY DEF Matches, String
  <2>2. \E x \in M : \A y \in M : x <= y
    BY <2>1, LeastNatural
  <2>3. QED
    BY <2>2, FirstMatch DEF Min
<1> HIDE DEF i
<1>2. PICK n \in i..Len(s) : t = Skip(s, n) /\ \A j \in (i + 1)..n : s[j] \notin OpChar
  BY <1>1, ConstraintEnds
<1>3. Len(s) \in Nat /\ DOMAIN s = 1..Len(s) /\ i \in 1..Len(s) /\ n \in 0..Len(s) /\ n \in Nat
  BY <1>1, <1>2, Characters
<1>4. t \in String /\ DOMAIN t = 1..(Len(s) - n)
  BY <1>2, <1>3, SkipLength, SkipParts, Characters
<1> HIDE DEF t
<1>5. \A j \in N : j \in 1..(Len(s) - n) /\ n + j \in M
  BY <1>2, <1>3, <1>4, MatchesBehind DEF Matches
<1>6. \A x \in M : x # i => x - n \in N /\ x - n \in 1..(Len(s) - n)
  <2>1. SUFFICES ASSUME NEW x \in M, x # i
                 PROVE  x - n \in N /\ x - n \in 1..(Len(s) - n)
    OBVIOUS
  <2>2. x \in 1..Len(s) /\ s[x] \in OpChar
    BY <1>3 DEF Matches
  <2>3. i < x
    BY <1>1, <1>3, <2>1, <2>2
  <2>4. n < x
    BY <1>2, <1>3, <2>2, <2>3
  <2>5. x - n \in 1..(Len(s) - n) /\ n + (x - n) = x
    BY <1>3, <2>2, <2>4
  <2>6. QED
    BY <1>2, <1>3, <2>5, MatchesBehind
<1>7. IsFiniteSet(M) /\ IsFiniteSet(N) /\ Cardinality(N) \in Nat
  BY <1>4, MatchesFinite
<1>8. M \subseteq 1..Len(s)
  BY <1>3 DEF Matches
<1>9. N \subseteq 1..(Len(s) - n)
  BY <1>5
<1> HIDE DEF M, N
<1> DEFINE R == M \ {i}
           f == [x \in N |-> n + x]
<1>10. f \in Bijection(N, R)
  <2>1. \A x \in N : n + x \in R
    BY <1>2, <1>3, <1>5
  <2>2. \A x, y \in N : n + x = n + y => x = y
    BY <1>3, <1>9
  <2>3. \A y \in R : \E x \in N : n + x = y
    <3>1. \A y \in R : y - n \in N /\ n + (y - n) = y
      BY <1>3, <1>6, <1>8
    <3>2. QED
      BY <3>1
  <2> HIDE DEF R
  <2>4. f \in [N -> R]
    BY <2>1
  <2>5. f \in Injection(N, R)
    BY <2>2, <2>4 DEF Injection, IsInjective
  <2>6. f \in Surjection(N, R)
    BY <2>3, <2>4 DEF Surjection
  <2>7. QED
    BY <2>5, <2>6 DEF Bijection
<1> HIDE DEF f
<1>11. Cardinality(R) = Cardinality(N) /\ IsFiniteSet(R)
  BY <1>7, <1>10, FS_Bijection DEF ExistsBijection
<1>12. M = R \cup {i} /\ i \notin R
  BY <1>1
<1> HIDE DEF R
<1>13. Cardinality(M) = Cardinality(N) + 1
  BY <1>11, <1>12, FS_AddElement
<1>14. QED
  BY <1>13 DEF M, N, t, i

LEMMA NoConstraintLostStep ==
  ReaderTypeOK /\ NoConstraintLost /\ [StringNext]_stringVars => NoConstraintLost'
<1> SUFFICES ASSUME ReaderTypeOK, NoConstraintLost, [StringNext]_stringVars
             PROVE  NoConstraintLost'
  OBVIOUS
<1>1. ReaderTypeOK'
  BY ReaderTypeStep
<1>2. CASE TakeUpToBars \/ TakeLast
  <2>1. found' = <<>> /\ unread' = current' /\ current' \in String
    BY <1>1, <1>2 DEF TakeUpToBars, TakeLast, Enter, ReaderTypeOK
  <2>2. Cardinality(Matches(current')) \in Nat
    BY <2>1, MatchesFinite
  <2>3. Len(found') = 0
    BY <2>1
  <2>4. Len(found') + Cardinality(Matches(unread')) = Cardinality(Matches(current'))
    BY <2>1, <2>2, <2>3
  <2>5. QED
    BY <2>4 DEF NoConstraintLost
<1>3. CASE NextConstraint
  <2>1. /\ Len(found) + Cardinality(Matches(unread)) = Cardinality(Matches(current))
        /\ current' = current /\ unread \in String /\ found \in Seq(Constraint)
    BY <1>3 DEF NextConstraint, NoConstraintLost, ReaderTypeOK
  <2>2. Cardinality(Matches(unread)) = Cardinality(Matches(unread')) + 1
    BY <1>3, <2>1, OneMatchTaken DEF NextConstraint
  <2>3. Len(found') = Len(found) + 1
    BY <1>3, <2>1 DEF NextConstraint, Takes
  <2>4. unread' \in String
    BY <1>1 DEF ReaderTypeOK
  <2>5. Cardinality(Matches(unread')) \in Nat /\ Len(found) \in Nat
    BY <2>1, <2>4, MatchesFinite
  <2>6. Len(found') + Cardinality(Matches(unread')) = Cardinality(Matches(current'))
    BY <2>1, <2>2, <2>3, <2>5
  <2>7. QED
    BY <2>6 DEF NoConstraintLost
<1>4. CASE ReadAtOnce \/ ReadHyphen \/ BeginLoop \/ Finish \/ EndSubRange
  <2>1. stage' # "constraints"
    BY <1>4 DEF ReadAtOnce, ReadHyphen, BeginLoop, Finish, EndSubRange
  <2>2. QED
    BY <2>1 DEF NoConstraintLost
<1>5. CASE UNCHANGED readerVars
  BY <1>5 DEF readerVars, NoConstraintLost
<1>6. QED
  BY <1>2, <1>3, <1>4, <1>5 DEF StringNext, Read, Compute, Ended, stringVars

(* No constraint of a sub-range is lost or read twice, in any string:      *)
(* each step of the iterator adds one to those found and takes one from    *)
(* those still to come, so that the two stay as many as there are.         *)
THEOREM ConstraintsKept == StringSpec => []NoConstraintLost
<1>1. StringInit => NoConstraintLost
  BY DEF StringInit, NoConstraintLost
<1>2. QED
  BY <1>1, ReaderTypeCorrect, NoConstraintLostStep, PTL DEF StringSpec

-----------------------------------------------------------------------------
(* A hyphen range is read as any text without operators would be.          *)

(* One to three numbers between dots have a text.                          *)
LEMMA PartialText ==
  ASSUME NEW s \in String, IsPartial(s)
  PROVE  HasText(s) /\ CanCoerce(s) /\ Dash \notin Chars(s)
<1> DEFINE parts == Cut(s, {Dot})
<1>1. \A i \in DOMAIN parts : parts[i] # <<>> /\ OnlyDigits(parts[i])
  BY DEF IsPartial
<1>2. /\ Len(parts) \in Nat \ {0} /\ DOMAIN parts = 1..Len(parts)
      /\ \A k \in DOMAIN parts : parts[k] \in String /\ Chars(parts[k]) \subseteq Chars(s) \ {Dot}
      /\ \A c \in Chars(s) \ {Dot} : \E k \in DOMAIN parts : c \in Chars(parts[k])
  BY CutIs
<1> HIDE DEF parts
<1>3. Dash \notin Digit /\ Dash # Dot
  BY CharacterFacts DEF Dash, Dot
<1>4. Dash \notin Chars(s)
  BY <1>1, <1>2, <1>3 DEF OnlyDigits
<1>5. Cut(s, {Dot, Dash}) = parts
  <2>1. \A i \in DOMAIN s : s[i] \in {Dot, Dash} <=> s[i] \in {Dot}
    BY <1>4 DEF Chars
  <2>2. EndsOf(s, {Dot, Dash}) = EndsOf(s, {Dot})
    BY <2>1 DEF EndsOf
  <2>3. QED
    BY <2>2, CutBy DEF parts
<1>6. ~Found(After(s, {Dash}), {Dash})
  <2>1. Chars(After(s, {Dash})) \subseteq Chars(s) /\ After(s, {Dash}) \in String
    BY PartChars
  <2>2. Chars(After(s, {Dash})) \cap {Dash} = {}
    BY <1>4, <2>1
  <2>3. QED
    BY <2>1, <2>2, FindNone
<1>7. HasText(s)
  BY <1>1, <1>5, <1>6 DEF HasText
<1>8. CanCoerce(s)
  <2>1. 1 \in DOMAIN parts
    BY <1>2
  <2>2. parts[1] \in String /\ parts[1] # <<>> /\ OnlyDigits(parts[1]) /\ Chars(parts[1]) \subseteq Chars(s)
    BY <1>1, <1>2, <2>1
  <2> DEFINE p == parts[1]
  <2> HIDE DEF p
  <2>3. p \in String /\ p # <<>> /\ Chars(p) \subseteq Digit /\ Chars(p) \subseteq Chars(s)
    BY <2>2 DEF p, OnlyDigits
  <2>4. p[1] \in Chars(p)
    BY <2>3 DEF Chars, String
  <2>5. QED
    BY <2>3, <2>4, DigitFound
<1>9. QED
  BY <1>4, <1>7, <1>8

(* Trimming takes white space from both ends.                              *)
Blank2(b, w) == b \in String /\ w \in String /\ Chars(b) \subseteq {Space} /\ Chars(w) \subseteq {Space}

LEMMA TrimTakes ==
  ASSUME NEW s \in String, Trim(s) # <<>>
  PROVE  \E b, w : Blank2(b, w) /\ s = b \o (Trim(s) \o w)
<1>1. \E i \in DOMAIN s : s[i] # Space
  BY TrimBlank
<1>2. PICK x, y \in 1..Len(s) : /\ x <= y
                                /\ Trim(s) = SubSeq(s, x, y)
                                /\ \A i \in DOMAIN s : s[i] # Space => x <= i /\ i <= y
  BY <1>1, TrimCuts
<1>3. Len(s) \in Nat /\ DOMAIN s = 1..Len(s) /\ s \in Seq(Char)
  BY Characters DEF String
<1> DEFINE b == SubSeq(s, 1, x - 1)
           m == SubSeq(s, x, y)
           w == SubSeq(s, y + 1, Len(s))
<1>4. /\ b \in String /\ Len(b) = x - 1 /\ \A i \in 1..(x - 1) : b[i] = s[i]
      /\ m \in String /\ Len(m) = y - x + 1 /\ \A i \in 1..(y - x + 1) : m[i] = s[x + i - 1]
      /\ w \in String /\ Len(w) = Len(s) - y /\ \A i \in 1..(Len(s) - y) : w[i] = s[y + i]
  <2>1. b \in String /\ Len(b) = x - 1 /\ \A i \in 1..(x - 1) : b[i] = s[i]
    BY <1>2, <1>3 DEF String
  <2>2. m \in String /\ Len(m) = y - x + 1 /\ \A i \in 1..(y - x + 1) : m[i] = s[x + i - 1]
    BY <1>2, <1>3 DEF String
  <2>3. w \in String /\ Len(w) = Len(s) - y /\ \A i \in 1..(Len(s) - y) : w[i] = s[y + i]
    <3>1. w = Skip(s, y) /\ y \in 0..Len(s) /\ y \in Nat
      BY <1>2, <1>3 DEF Skip
    <3> HIDE DEF w
    <3>2. QED
      BY <3>1, SkipLength, SkipParts
  <2>4. QED
    BY <2>1, <2>2, <2>3
<1> HIDE DEF b, m, w
<1>5. Chars(b) \subseteq {Space}
  <2>1. \A i \in 1..(x - 1) : s[i] = Space
    <3>1. \A i \in 1..(x - 1) : i \in 1..Len(s) /\ ~(x <= i)
      BY <1>2, <1>3
    <3>2. QED
      BY <1>2, <1>3, <3>1
  <2>2. QED
    BY <1>4, <2>1, Characters DEF Chars
<1>6. Chars(w) \subseteq {Space}
  <2>1. \A i \in 1..(Len(s) - y) : s[y + i] = Space
    <3>1. \A i \in 1..(Len(s) - y) : y + i \in 1..Len(s) /\ ~(y + i <= y)
      BY <1>2, <1>3
    <3>2. QED
      BY <1>2, <1>3, <3>1, SMTT(30)
  <2>2. QED
    BY <1>4, <2>1, Characters DEF Chars
<1>7. s = b \o (m \o w)
  <2> DEFINE v == m \o w
             z == b \o v
  <2>1. /\ v \in String /\ Len(v) = Len(m) + Len(w)
        /\ \A i \in 1..(Len(m) + Len(w)) : v[i] = IF i <= Len(m) THEN m[i] ELSE w[i - Len(m)]
    BY <1>4, TwoStrings
  <2> HIDE DEF v
  <2>2. /\ z \in String /\ Len(z) = Len(b) + Len(v)
        /\ \A i \in 1..(Len(b) + Len(v)) : z[i] = IF i <= Len(b) THEN b[i] ELSE v[i - Len(b)]
    BY <1>4, <2>1, TwoStrings
  <2> HIDE DEF z
  <2>3. Len(z) = Len(s)
    BY <1>2, <1>3, <1>4, <2>1, <2>2
  <2>4. ASSUME NEW i \in 1..Len(s)
        PROVE  s[i] = z[i]
    <3>1. i \in 1..(Len(b) + Len(v))
      BY <2>2, <2>3
    <3>2. CASE i <= x - 1
      BY <1>2, <1>3, <1>4, <2>2, <3>1, <3>2
    <3>3. CASE x <= i /\ i <= y
      <4>1. i - (x - 1) \in 1..(y - x + 1) /\ x + (i - (x - 1)) - 1 = i /\ ~(i <= Len(b))
        BY <1>2, <1>3, <1>4, <3>3
      <4>2. i - (x - 1) \in 1..(Len(m) + Len(w)) /\ i - (x - 1) <= Len(m)
        BY <1>2, <1>3, <1>4, <4>1
      <4>3. z[i] = v[i - (x - 1)] /\ v[i - (x - 1)] = m[i - (x - 1)]
        BY <1>4, <2>1, <2>2, <3>1, <4>1, <4>2
      <4>4. QED
        BY <1>4, <4>1, <4>3
    <3>4. CASE y < i
      <4>1. i - y \in 1..(Len(s) - y) /\ y + (i - y) = i /\ ~(i <= Len(b))
        BY <1>2, <1>3, <1>4, <3>4
      <4>2. i - (x - 1) \in 1..(Len(m) + Len(w)) /\ ~(i - (x - 1) <= Len(m)) /\ (i - (x - 1)) - Len(m) = i - y
        BY <1>2, <1>3, <1>4, <4>1
      <4>3. z[i] = v[i - (x - 1)] /\ v[i - (x - 1)] = w[(i - (x - 1)) - Len(m)]
        BY <1>4, <2>1, <2>2, <3>1, <4>1, <4>2
      <4>4. QED
        BY <1>4, <4>1, <4>2, <4>3
    <3>5. QED
      BY <1>2, <1>3, <3>2, <3>3, <3>4
  <2>5. s = z
    BY <1>3, <2>2, <2>3, <2>4, NoDifference
  <2>6. QED
    BY <2>5 DEF z, v
<1>8. QED
  BY <1>2, <1>4, <1>5, <1>6, <1>7 DEF Blank2, m

LEMMA FirstOfTwo ==
  ASSUME NEW a \in String, NEW b \in String, NEW C,
         a # <<>> => a[1] \in C, b # <<>> => b[1] \in C
  PROVE  a \o b # <<>> => (a \o b)[1] \in C
<1>1. CASE a = <<>>
  BY <1>1, EmptyConcat
<1>2. CASE a # <<>>
  <2>1. (a \o b)[1] = a[1]
    BY <1>2 DEF String
  <2>2. QED
    BY <1>2, <2>1
<1>3. QED
  BY <1>1, <1>2

LEMMA BlankBegins ==
  ASSUME NEW w \in String, Chars(w) \subseteq {Space}
  PROVE  /\ w # <<>> => w[1] = Space
         /\ Chars(w) \cap Digit = {}
<1>1. w # <<>> => w[1] \in Chars(w)
  BY DEF Chars, String
<1>2. QED
  BY <1>1, CharacterFacts

(* The numbers on the left of the '-' stand in the string between white    *)
(* space, or that and the '-'.                                             *)
LEMMA LeftStandsAmid ==
  ASSUME NEW s \in String, IsPartial(Left(s))
  PROVE  CanCoerce(s) /\ Groups(s) = Groups(Left(s))
<1> DEFINE L  == Left(s)
           T  == Trim(s)
           P  == Before(T, {Dash})
           w1 == IF Found(T, {Dash}) THEN <<Dash>> \o After(T, {Dash}) ELSE <<>>
<1>1. L \in String /\ T \in String /\ P \in String /\ L = Trim(P) /\ w1 \in String
  <2>1. L \in String /\ T \in String /\ L = Trim(P)
    BY LeftType, TrimLength DEF Left
  <2>2. P \in String /\ After(T, {Dash}) \in String
    BY <2>1, CutsType
  <2>3. QED
    BY <2>1, <2>2, SignTypes, ConcatType
<1>2. T = P \o w1 /\ (w1 # <<>> => w1[1] = Dash)
  <2> DEFINE q == After(T, {Dash})
  <2>1. CASE Found(T, {Dash})
    <3>1. T[Find(T, {Dash})] \in {Dash} /\ T = P \o (<<T[Find(T, {Dash})]>> \o q)
      BY <1>1, <2>1, FoundParts
    <3>2. T[Find(T, {Dash})] = Dash
      BY <3>1
    <3>3. q \in String /\ <<Dash>> \in String
      BY <1>1, CutsType, SignTypes
    <3> HIDE DEF q
    <3>4. (<<Dash>> \o q)[1] = Dash
      BY <3>3 DEF String
    <3>5. QED
      BY <2>1, <3>1, <3>2, <3>4 DEF q
  <2>2. CASE ~Found(T, {Dash})
    BY <1>1, <2>2, NotFound, EmptyConcat
  <2>3. QED
    BY <2>1, <2>2
<1>3. CanCoerce(L)
  BY <1>1, PartialText
<1> HIDE DEF w1, P, T, L
<1>4. L # <<>>
  BY <1>1, <1>3, DigitFound DEF Chars
<1>5. P # <<>> /\ T # <<>>
  <2>1. P = <<>> => Trim(P) = <<>>
    BY DEF Trim
  <2>2. T = <<>> => P = <<>>
    BY <1>1, CutsType DEF P, Before, Find
  <2>3. QED
    BY <1>1, <1>4, <2>1, <2>2
<1>6. PICK b0, w0 : Blank2(b0, w0) /\ s = b0 \o (T \o w0)
  BY <1>5, TrimTakes DEF T
<1>7. PICK b1, w2 : Blank2(b1, w2) /\ P = b1 \o (L \o w2)
  BY <1>1, <1>4, TrimTakes
<1>8. /\ b0 \in String /\ b1 \in String /\ w0 \in String /\ w2 \in String
      /\ Chars(b0) \subseteq {Space} /\ Chars(b1) \subseteq {Space}
      /\ Chars(w0) \subseteq {Space} /\ Chars(w2) \subseteq {Space}
  BY <1>6, <1>7 DEF Blank2
<1> DEFINE b == b0 \o b1
           v == w1 \o w0
           u == w2 \o v
<1>9. b \in String /\ v \in String /\ u \in String
  BY <1>1, <1>8, ConcatType
<1>10. s = b \o (L \o u)
  <2>1. Associates(P, w1, w0)
    BY <1>1, <1>8, StringsAssociate
  <2>2. T \o w0 = P \o v
    BY <1>2, <2>1 DEF Associates
  <2>3. L \o w2 \in String
    BY <1>1, <1>8, ConcatType
  <2>4. Associates(b1, L \o w2, v) /\ Associates(L, w2, v)
    BY <1>1, <1>8, <1>9, <2>3, StringsAssociate
  <2>5. P \o v = b1 \o (L \o u)
    BY <1>7, <2>4 DEF Associates
  <2>6. L \o u \in String
    BY <1>1, <1>9, ConcatType
  <2> HIDE DEF u, v
  <2>7. Associates(b0, b1, L \o u)
    BY <1>8, <2>6, StringsAssociate
  <2>8. QED
    BY <1>6, <2>2, <2>5, <2>7 DEF Associates
<1>11. u # <<>> => u[1] \notin Digit \cup {Dot}
  <2> DEFINE S == {Space, Dash}
  <2>1. v # <<>> => v[1] \in S
    BY <1>1, <1>2, <1>8, BlankBegins, FirstOfTwo
  <2> HIDE DEF v
  <2>2. u # <<>> => u[1] \in S
    BY <1>8, <1>9, <2>1, BlankBegins, FirstOfTwo
  <2>3. S \cap (Digit \cup {Dot}) = {}
    BY CharacterFacts DEF Space, Dash, Dot
  <2>4. QED
    BY <2>2, <2>3
<1>12. Chars(b) \cap Digit = {}
  <2>1. \A i \in 1..Len(b0) : b0[i] \notin Digit
    BY <1>8, BlankBegins, Characters DEF Chars
  <2>2. \A i \in 1..Len(b1) : b1[i] \notin Digit
    BY <1>8, BlankBegins, Characters DEF Chars
  <2>3. Len(b0) \in Nat /\ Len(b1) \in Nat
    BY <1>8, Characters
  <2>4. /\ Len(b) = Len(b0) + Len(b1)
        /\ \A i \in 1..(Len(b0) + Len(b1)) : b[i] = IF i <= Len(b0) THEN b0[i] ELSE b1[i - Len(b0)]
    BY <1>8, TwoStrings
  <2> HIDE DEF b
  <2>5. \A i \in 1..(Len(b0) + Len(b1)) : b[i] \notin Digit
    BY <2>1, <2>2, <2>3, <2>4
  <2>6. QED
    BY <1>9, <2>4, <2>5, Characters DEF Chars
<1> HIDE DEF b, u, v
<1>13. Amid(b, L, u)
  BY <1>1, <1>3, <1>9, <1>11, <1>12, GroupsAmid
<1>14. QED
  BY <1>10, <1>13 DEF Amid, L

(* What the groups matched is all matched again.                           *)
LEMMA MatchedMatch ==
  ASSUME NEW s \in String, CanCoerce(s)
  PROVE  Match(Matched(s)) = Numerals(Groups(s))
<1> DEFINE g == Groups(s)
           n == IF g[2] = <<>> THEN 1 ELSE IF g[3] = <<>> THEN 2 ELSE 3
           m == [i \in 1..n |-> PieceOf(g[i])]
<1>1. Matched(s) = [nums |-> m, pre |-> <<>>] /\ Numerals(g) = m
  BY DEF Matched, Numerals
<1>2. n \in 1..3
  OBVIOUS
<1>3. ASSUME NEW i \in 1..n
      PROVE  g[i] \in String /\ OnlyDigits(g[i]) /\ g[i] # <<>>
  <2>1. \A j \in 1..3 : g[j] \in String /\ OnlyDigits(g[j])
    BY GroupsType
  <2>2. g[1] # <<>>
    BY GroupsType
  <2>3. i = 1 \/ (i = 2 /\ g[2] # <<>>) \/ (i = 3 /\ g[3] # <<>>)
    <3> HIDE DEF g
    <3>1. QED
      OBVIOUS
  <2> HIDE DEF g, n
  <2>4. QED
    BY <1>2, <2>1, <2>2, <2>3
<1> HIDE DEF g, n
<1>4. ASSUME NEW i \in 1..n
      PROVE  PieceOf(g[i]) \in Piece /\ IsNum(PieceOf(g[i]))
  <2> DEFINE p == g[i]
  <2>1. p \in String /\ OnlyDigits(p) /\ p # <<>>
    BY <1>3
  <2> HIDE DEF p
  <2>2. Leading(p) = p
    BY <2>1, LeadingDigits
  <2>3. QED
    BY <2>1, <2>2, DigitsPiece DEF p
<1>5. m \in Seq(Piece) /\ Len(m) = n /\ \A i \in 1..n : IsNum(m[i])
  BY <1>2, <1>4
<1> HIDE DEF m
<1>6. MatchIn(m) = m /\ 1 \in DOMAIN m /\ IsNum(m[1])
  <2>1. 1 \in 1..n /\ DOMAIN m = 1..n
    BY <1>2, <1>5
  <2>2. Len(m) \in 1..3 /\ \A i \in 1..Len(m) : IsNum(m[i])
    BY <1>2, <1>5
  <2>3. MatchIn(m) = m
    BY <1>5, <2>2, NumeralsMatch
  <2>4. QED
    BY <1>5, <2>1, <2>3
<1>7. Match([nums |-> m, pre |-> <<>>]) = m
  BY <1>6 DEF Match
<1>8. QED
  BY <1>1, <1>7 DEF g

LEMMA LeftCoerced ==
  ASSUME NEW s \in String, IsPartial(Left(s))
  PROVE  Coerce(TextOf(Left(s))) = Coerce(BareText(s))
<1>1. Left(s) \in String /\ HasText(Left(s)) /\ CanCoerce(Left(s))
  BY LeftType, PartialText
<1>2. CanCoerce(s) /\ Groups(s) = Groups(Left(s))
  BY LeftStandsAmid
<1>3. Match(TextOf(Left(s))) = Numerals(Groups(s))
  BY <1>1, <1>2, TextMatch
<1>4. Match(Matched(s)) = Numerals(Groups(s))
  BY <1>2, MatchedMatch
<1>5. Coerce(TextOf(Left(s))) = Coerce(Matched(s))
  BY <1>3, <1>4 DEF Coerce
<1>6. QED
  BY <1>2, <1>5 DEF BareText

(* The form is read of the string, and from its left side.                 *)
HyphenLeft == range.hyphen => IsPartial(Left(input)) /\ range.left = TextOf(Left(input))

LEMMA HyphenLeftStep ==
  ReaderTypeOK /\ HyphenLeft /\ [StringNext]_stringVars => HyphenLeft'
<1> SUFFICES ASSUME ReaderTypeOK, HyphenLeft, [StringNext]_stringVars
             PROVE  HyphenLeft'
  OBVIOUS
<1>1. range \in RangeArg /\ range.subs \in Seq(SubRange) /\ DOMAIN range = {"hyphen", "left", "subs"}
  BY DEF ReaderTypeOK, RangeArg
<1>2. \A x : [range EXCEPT !.subs = x].hyphen = range.hyphen /\ [range EXCEPT !.subs = x].left = range.left
  BY <1>1 DEF RangeArg
<1>3. CASE ReadHyphen
  <2>1. range'.left = TextOf(Left(input)) /\ input' = input
    BY <1>1, <1>3 DEF ReadHyphen
  <2>2. IsPartial(Left(input))
    BY <1>3 DEF ReadHyphen, IsHyphenRange
  <2>3. QED
    BY <2>1, <2>2 DEF HyphenLeft
<1>4. CASE ReadAtOnce \/ EndSubRange
  <2>1. range'.hyphen = range.hyphen /\ range'.left = range.left /\ input' = input
    BY <1>2, <1>4 DEF ReadAtOnce, EndSubRange
  <2>2. QED
    BY <2>1 DEF HyphenLeft
<1>5. CASE UNCHANGED <<range, input>>
  BY <1>5 DEF HyphenLeft
<1>6. Compute => UNCHANGED <<range, input>>
  BY RangeStays DEF Compute, readerVars
<1>7. QED
  BY <1>3, <1>4, <1>5, <1>6
     DEF StringNext, Read, Ended, stringVars, readerVars, BeginLoop, TakeUpToBars, TakeLast, Enter,
         Finish, NextConstraint

(* What minimum() makes of "A - B", and of a pre-release of digits, is     *)
(* what its bare text would be read as.                                    *)
THEOREM HyphenReadsAlikeCorrect == StringSpec => []HyphenReadsAlike
<1>1. StringInit => HyphenLeft
  BY DEF StringInit, HyphenLeft, NothingRead
<1>2. ReaderTypeOK /\ HyphenLeft => HyphenReadsAlike
  BY LeftCoerced DEF ReaderTypeOK, HyphenLeft, HyphenReadsAlike
<1>3. QED
  BY <1>1, <1>2, HyphenLeftStep, ReaderTypeCorrect, PTL DEF StringSpec
=============================================================================
