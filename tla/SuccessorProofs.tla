-------------------------- MODULE SuccessorProofs --------------------------
(***************************************************************************)
(* What incrementVersion(), decrementVersion() and coerce() return, for    *)
(* every text and every size of int; and that these functions, and the     *)
(* bounds of "^" and "~", do to the characters of a string what            *)
(* VersionText says of its pieces.                                         *)
(***************************************************************************)
EXTENDS StringWalk, VersionTextProofs

-----------------------------------------------------------------------------
(* Every result is a text.                                                 *)

LEMMA DecrementVersionType ==
  ASSUME NEW t \in Text, Decrements(t)
  PROVE  DecrementVersion(t) \in Text
<1> DEFINE int(i)     == ValueOr0(t.nums, i)
           written(i) == IF i <= Len(t.nums) THEN t.nums[i] ELSE EmptyPiece
<1>1. t.nums \in Seq(Piece) /\ \A i \in DOMAIN t.nums : IsNum(t.nums[i])
  BY DEF Text, Decrements
<1>2. CASE HasStage(t)
  <2>1. EmptyPiece \in Piece /\ Alpha \in Piece /\ Num(0) \in Piece
    BY NumPiece DEF EmptyPiece, Alpha, Word, EmptyRank, Piece, Tag
  <2>2. written(1) \in Piece /\ written(2) \in Piece /\ written(3) \in Piece
    BY <1>1, <2>1
  <2> HIDE DEF written
  <2>3. [nums |-> <<written(1), written(2), written(3)>>, pre |-> <<Alpha, Num(0)>>] \in Text
    BY <2>1, <2>2 DEF Text
  <2>4. QED
    BY <1>2, <2>3 DEF DecrementVersion, written
<1>3. CASE ~HasStage(t)
  <2>1. int(1) \in Nat /\ int(2) \in Nat /\ int(3) \in Nat
    BY <1>1, ValueOr0Type
  <2> HIDE DEF int
  <2>2. Plus1(int(1)) \in Int /\ Plus1(int(2)) \in Int /\ Plus1(int(3)) \in Int
    BY <2>1, Plus1Type
  <2>3. /\ Dotted(Plus1(int(1)), 0, 0) \in Text
        /\ Dotted(0, Plus1(int(2)), 0) \in Text
        /\ Dotted(0, 0, Plus1(int(3))) \in Text
    BY <2>2, DottedType
  <2>4. DecrementVersion(t) \in {Dotted(Plus1(int(1)), 0, 0), Dotted(0, Plus1(int(2)), 0),
                                 Dotted(0, 0, Plus1(int(3)))}
    BY <1>3 DEF DecrementVersion, int
  <2>5. QED
    BY <2>3, <2>4
<1>4. QED
  BY <1>2, <1>3

LEMMA TypeStep == TypeOK /\ [Next]_vars => TypeOK'
<1> SUFFICES ASSUME TypeOK, [Next]_vars
             PROVE  TypeOK'
  OBVIOUS
<1> USE WalkAssumption DEF TypeOK
<1>1. CASE Increment
  BY <1>1, IncrementVersionType DEF Increment, Calls
<1>2. CASE IncrementFails
  BY <1>2 DEF IncrementFails, Calls, Ends
<1>3. CASE Decrement
  BY <1>3, DecrementVersionType DEF Decrement, Calls
<1>4. CASE DecrementFails
  BY <1>4 DEF DecrementFails, Calls, Ends
<1>5. CASE Normalise
  <2>1. Coerce(text) \in Text
    BY <1>5, CoerceType, DottedType DEF Normalise
  <2>2. QED
    BY <1>5, <2>1 DEF Normalise, Calls
<1>6. CASE NormaliseFails
  BY <1>6 DEF NormaliseFails, Calls, Ends
<1>7. CASE UNCHANGED vars
  BY <1>7 DEF vars
<1>8. QED
  BY <1>1, <1>2, <1>3, <1>4, <1>5, <1>6, <1>7 DEF Next

(* Whatever incrementVersion, decrementVersion and coerce return is a text *)
(* that the next call can read, after any number of calls.                 *)
THEOREM TypeCorrect == Spec => []TypeOK
<1>1. Init => TypeOK
  BY WalkAssumption DEF Init, TypeOK
<1>2. QED
  BY <1>1, TypeStep, PTL DEF Spec

-----------------------------------------------------------------------------
(* A step by incrementVersion, and what it makes of its argument.          *)

LEMMA IncrementedBy ==
  ASSUME [Next]_vars, Incremented
  PROVE  IncrementVersion(text) # NoText /\ text' = IncrementVersion(text) /\ ~AtLimit(text)
<1>1. CASE Increment
  BY <1>1 DEF Increment, Incremented
<1>2. CASE Decrement \/ Normalise
  BY <1>2 DEF Decrement, Normalise, Incremented
<1>3. CASE IncrementFails \/ DecrementFails \/ NormaliseFails
  BY <1>3 DEF IncrementFails, DecrementFails, NormaliseFails, Ends, Incremented
<1>4. CASE UNCHANGED vars
  BY <1>4 DEF vars, Incremented
<1>5. QED
  BY <1>1, <1>2, <1>3, <1>4 DEF Next

LEMMA IncreaseStep ==
  TypeOK /\ [Next]_vars
    => (Incremented /\ (Full(text) \/ IsRelease(text)) => CompareSemVer(text, text'))
BY IncrementedBy, ReleaseIncreases, PreReleaseIncreases DEF TypeOK

(* incrementVersion goes up by the order of compareSemVer, whatever the    *)
(* full version or the release it is given, unless its patch number is the *)
(* largest int.                                                            *)
THEOREM IncrementCorrect == Spec => IncrementIncreases
BY TypeCorrect, IncreaseStep, PTL DEF Spec, IncrementIncreases

LEMMA SkipsNothingStep ==
  TypeOK /\ [Next]_vars
    => (Incremented /\ IsRelease(text) /\ Full(text) =>
          \A r \in Releases : CompareSemVer(text, r) => ~CompareSemVer(r, text'))
<1> SUFFICES ASSUME TypeOK, [Next]_vars, Incremented, Full(text),
                    NEW r \in Releases, CompareSemVer(text, r)
             PROVE  ~CompareSemVer(r, text')
  OBVIOUS
<1>1. text \in Text /\ 3 \in DOMAIN text.nums
  BY DEF TypeOK, Text, Full
<1>2. IncrementVersion(text) # NoText /\ text' = IncrementVersion(text)
  BY IncrementedBy
<1>3. QED
  BY <1>1, <1>2, NothingBetween

(* No release lies between a full release and what incrementVersion makes  *)
(* of it, whatever its numbers.                                            *)
THEOREM NothingSkipped == Spec => IncrementSkipsNothing
BY TypeCorrect, SkipsNothingStep, PTL DEF Spec, IncrementSkipsNothing

(* Three ints and a pre-release that is one are what both functions read.  *)
LEMMA ThreeIntsInForm ==
  ASSUME NEW t \in Text, Len(t.nums) = 3, \A i \in 1..3 : FitsInt(t.nums[i]),
         t.pre # <<EmptyPiece>>,
         \A i \in DOMAIN t.pre : IsNum(t.pre[i]) \/ t.pre[i] \in Letters \cup {EmptyPiece}
  PROVE  IncrementVersion(t) # NoText /\ Decrements(t)
<1>1. DOMAIN t.nums = 1..3
  BY DEF Text
<1>2. IncrementVersion(t) # NoText
  BY <1>1, IncrementSucceeds, EmptyTextType
<1>3. Decrements(t)
  BY <1>1 DEF Decrements, FitsInt
<1>4. QED
  BY <1>2, <1>3

LEMMA InForm ==
  ASSUME NEW t \in Text, NEW a \in 0..IntMax, NEW b \in 0..IntMax, NEW c \in 0..IntMax,
         t.nums = <<Num(a), Num(b), Num(c)>>, t.pre # <<EmptyPiece>>,
         \A i \in DOMAIN t.pre : IsNum(t.pre[i]) \/ t.pre[i] \in Letters \cup {EmptyPiece}
  PROVE  IncrementVersion(t) # NoText /\ Decrements(t)
<1>1. DOMAIN t.nums = 1..3 /\ Len(t.nums) = 3
  OBVIOUS
<1>2. \A i \in 1..3 : FitsInt(t.nums[i])
  BY IntAssumption DEF FitsInt, IsNum, Num
<1>3. QED
  BY <1>1, <1>2, ThreeIntsInForm

LEMMA SuccessorInForm ==
  ASSUME NEW t \in Text, Decrements(t), IncrementVersion(t) # NoText, ~AtLimit(t)
  PROVE  LET u == IncrementVersion(t) IN IncrementVersion(u) # NoText /\ Decrements(u)
<1> DEFINE int(i) == ValueOr0(t.nums, i)
           u == IncrementVersion(t)
<1>1. t.nums \in Seq(Piece) /\ t.pre \in Seq(Piece) /\ u \in Text
  BY IncrementVersionType DEF Text
<1>2. \A i \in DOMAIN t.nums : i <= 3 => FitsInt(t.nums[i])
  BY DEF IncrementVersion
<1>3. /\ int(1) \in 0..IntMax /\ int(2) \in 0..IntMax /\ int(3) \in 0..IntMax
      /\ IsRelease(t) => int(3) # IntMax
  <2>1. \A i \in 1..3 : int(i) \in Nat /\ int(i) <= IntMax
    BY <1>1, <1>2, ValueOr0Type, IntAssumption DEF ValueOr0, FitsInt
  <2>2. IsRelease(t) => int(3) # IntMax
    BY DEF AtLimit
  <2> HIDE DEF int
  <2>3. QED
    BY <2>1, <2>2, IntAssumption
<1>4. t.pre # <<EmptyPiece>> /\ \A i \in DOMAIN t.pre : IsNum(t.pre[i]) \/ t.pre[i] \in Letters \cup {EmptyPiece}
  BY DEF Decrements
<1>5. CASE t.pre = <<>>
  <2>1. u = Dotted(int(1), int(2), Plus1(int(3)))
    BY <1>2, <1>5 DEF IncrementVersion
  <2> HIDE DEF int, u
  <2>2. Plus1(int(3)) = int(3) + 1 /\ int(3) + 1 \in 0..IntMax
    BY <1>3, <1>5, IntAssumption DEF Plus1, IsRelease
  <2>3. u = [nums |-> <<Num(int(1)), Num(int(2)), Num(int(3) + 1)>>, pre |-> <<>>]
    <3>1. int(1) \in Nat /\ int(2) \in Nat /\ int(3) + 1 \in Nat
      BY <1>3, <2>2, IntAssumption
    <3>2. QED
      BY <2>1, <2>2, <3>1, DottedParts, ZenonT(60)
  <2>4. /\ u.nums = <<Num(int(1)), Num(int(2)), Num(int(3) + 1)>>
        /\ u.pre = <<>> /\ u.pre # <<EmptyPiece>>
    BY <2>3
  <2>5. \A i \in DOMAIN u.pre : IsNum(u.pre[i]) \/ u.pre[i] \in Letters \cup {EmptyPiece}
    BY <2>4
  <2>6. IncrementVersion(u) # NoText /\ Decrements(u)
    BY <1>1, <1>3, <2>2, <2>4, <2>5, InForm
  <2>7. QED
    BY <2>6 DEF u
<1>6. CASE t.pre # <<>>
  <2>1. u = [nums |-> Dotted(int(1), int(2), int(3)).nums, pre |-> Append(t.pre, Num(0))]
    BY <1>2, <1>4, <1>6 DEF IncrementVersion
  <2> HIDE DEF int, u
  <2>2. u.nums = <<Num(int(1)), Num(int(2)), Num(int(3))>> /\ u.pre = Append(t.pre, Num(0))
    <3>1. int(1) \in Nat /\ int(2) \in Nat /\ int(3) \in Nat
      BY <1>3, IntAssumption
    <3>2. QED
      BY <2>1, <3>1, DottedParts
  <2>3. IsNum(Num(0))
    BY DEF Num, IsNum
  <2>4. /\ Len(u.pre) = Len(t.pre) + 1 /\ u.pre[Len(t.pre) + 1] = Num(0)
        /\ \A i \in 1..Len(t.pre) : u.pre[i] = t.pre[i]
        /\ DOMAIN u.pre = 1..(Len(t.pre) + 1)
    BY <1>1, <2>2
  <2>5. \A i \in DOMAIN u.pre : IsNum(u.pre[i]) \/ u.pre[i] \in Letters \cup {EmptyPiece}
    BY <1>1, <1>4, <2>3, <2>4
  <2>6. u.pre # <<EmptyPiece>>
    <3>1. Len(u.pre) # 1
      BY <1>1, <1>6, <2>4
    <3>2. QED
      BY <3>1
  <2>7. IncrementVersion(u) # NoText /\ Decrements(u)
    BY <1>1, <1>3, <2>2, <2>5, <2>6, InForm
  <2>8. QED
    BY <2>7 DEF u
<1>7. QED
  BY <1>5, <1>6

LEMMA StaysInFormStep ==
  TypeOK /\ [Next]_vars
    => (Incremented /\ Decrements(text) =>
          IncrementVersion(text') # NoText /\ Decrements(text'))
BY IncrementedBy, SuccessorInForm DEF TypeOK

(* incrementVersion and decrementVersion accept what incrementVersion makes *)
(* of a version that both accept, below the limit of int.                  *)
THEOREM FormKept == Spec => IncrementStaysInForm
BY TypeCorrect, StaysInFormStep, PTL DEF Spec, IncrementStaysInForm

LEMMA DecrementedBy ==
  TypeOK /\ [Next]_vars /\ Decremented
    => text \in Text /\ Decrements(text) /\ ~DecrementThrows(text) /\ text' = DecrementVersion(text)
<1>1. SUFFICES ASSUME TypeOK, Next, Decremented
               PROVE  text \in Text /\ Decrements(text) /\ ~DecrementThrows(text) /\ text' = DecrementVersion(text)
  BY DEF Decremented, vars
<1>2. text \in Text
  BY <1>1 DEF TypeOK
<1>3. Decrement
  BY <1>1 DEF Decremented, Next, Increment, Normalise,
              IncrementFails, DecrementFails, NormaliseFails, Ends
<1>4. QED
  BY <1>2, <1>3 DEF Decrement

(* A number is added to of which there are three.                          *)
LEMMA ReleaseInForm ==
  ASSUME NEW a \in 0..IntMax, NEW b \in 0..IntMax, NEW c \in 0..IntMax
  PROVE  /\ IncrementVersion(Dotted(a, b, c)) # NoText
         /\ Decrements(Dotted(a, b, c))
<1> DEFINE u == Dotted(a, b, c)
<1>1. a \in Nat /\ b \in Nat /\ c \in Nat
  BY IntAssumption
<1>2. u = [nums |-> <<Num(a), Num(b), Num(c)>>, pre |-> <<>>] /\ u \in Text
  BY <1>1, DottedParts
<1>3. u.nums = <<Num(a), Num(b), Num(c)>> /\ u.pre = <<>>
  BY <1>2
<1> HIDE DEF u
<1>4. u.pre # <<EmptyPiece>> /\ \A i \in DOMAIN u.pre : IsNum(u.pre[i]) \/ u.pre[i] \in Letters \cup {EmptyPiece}
  BY <1>3
<1>5. IncrementVersion(u) # NoText /\ Decrements(u)
  BY <1>2, <1>3, <1>4, InForm
<1>6. QED
  BY <1>5 DEF u

LEMMA PredecessorInForm ==
  ASSUME NEW t \in Text, Decrements(t), ~DecrementThrows(t), BelowLimit(t)
  PROVE  LET u    == DecrementVersion(t)
             kept == HasStage(t) => Full(t)
         IN /\ kept <=> Decrements(u)
            /\ kept <=> IncrementVersion(u) # NoText
<1> DEFINE int(i)     == ValueOr0(t.nums, i)
           written(i) == IF i <= Len(t.nums) THEN t.nums[i] ELSE EmptyPiece
           u          == DecrementVersion(t)
<1>1. /\ t.nums \in Seq(Piece) /\ t.nums # <<>> /\ Len(t.nums) \in 1..3 /\ DOMAIN t.nums = 1..Len(t.nums)
      /\ \A i \in 1..Len(t.nums) : FitsInt(t.nums[i]) /\ t.nums[i] \in Piece
  <2>1. t.nums \in Seq(Piece) /\ t.nums # <<>>
    BY DEF Text
  <2>2. \A i \in DOMAIN t.nums : FitsInt(t.nums[i])
    BY DEF DecrementThrows
  <2>3. Len(t.nums) <= 3
    BY DEF Decrements
  <2> DEFINE n == t.nums
  <2> HIDE DEF n
  <2>4. n \in Seq(Piece) /\ n # <<>>
    BY <2>1 DEF n
  <2>5. Len(n) \in Nat \ {0} /\ DOMAIN n = 1..Len(n)
    BY <2>4
  <2>6. \A i \in 1..Len(n) : n[i] \in Piece
    BY <2>4
  <2>7. Len(n) <= 3 /\ \A i \in DOMAIN n : FitsInt(n[i])
    BY <2>2, <2>3 DEF n
  <2>8. Len(n) \in 1..3
    BY <2>5, <2>7
  <2>9. \A i \in 1..Len(n) : FitsInt(n[i])
    BY <2>5, <2>7
  <2>10. QED
    BY <2>4, <2>5, <2>6, <2>8, <2>9 DEF n
<1>2. CASE HasStage(t)
  <2>1. u = [nums |-> <<written(1), written(2), written(3)>>, pre |-> <<Alpha, Num(0)>>]
    BY <1>2 DEF DecrementVersion
  <2>2. written(1) \in Piece /\ written(2) \in Piece /\ written(3) \in Piece
    <3>1. EmptyPiece \in Piece
      BY DEF EmptyPiece, Word, Piece, Tag, EmptyRank
    <3>2. QED
      BY <1>1, <3>1
  <2>3. Alpha \in Piece /\ Num(0) \in Piece /\ Alpha \in Letters /\ IsNum(Num(0))
    BY NumPiece DEF Alpha, X, Word, Letters, IsNum, Num, Piece, Tag, EmptyRank
  <2> HIDE DEF written, u
  <2>4. u \in Text /\ u.nums = <<written(1), written(2), written(3)>> /\ u.pre = <<Alpha, Num(0)>>
    BY <2>1, <2>2, <2>3 DEF Text
  <2>5. /\ Len(u.nums) = 3 /\ DOMAIN u.nums = 1..3
        /\ u.nums[1] = written(1) /\ u.nums[2] = written(2) /\ u.nums[3] = written(3)
    BY <2>4
  <2>6. CASE Full(t)
    <3>1. \A i \in 1..3 : FitsInt(u.nums[i])
      BY <1>1, <2>5, <2>6 DEF Full, written
    <3>2. u.pre # <<EmptyPiece>> /\ \A i \in DOMAIN u.pre : IsNum(u.pre[i]) \/ u.pre[i] \in Letters \cup {EmptyPiece}
      BY <2>3, <2>4
    <3>3. IncrementVersion(u) # NoText /\ Decrements(u)
      BY <2>4, <2>5, <3>1, <3>2, ThreeIntsInForm
    <3>4. QED
      BY <2>6, <3>3 DEF u
  <2>7. CASE ~Full(t)
    <3>1. u.nums[3] = EmptyPiece /\ 3 \in DOMAIN u.nums /\ 3 <= 3
      BY <1>1, <2>5, <2>7 DEF Full, written
    <3>2. ~IsNum(EmptyPiece) /\ ~FitsInt(EmptyPiece)
      BY DEF EmptyPiece, Word, IsNum, FitsInt
    <3>3. ~Decrements(u)
      BY <3>1, <3>2 DEF Decrements
    <3>4. IncrementVersion(u) = NoText
      BY <3>1, <3>2 DEF IncrementVersion
    <3>5. QED
      BY <1>2, <2>7, <3>3, <3>4 DEF u
  <2>8. QED
    BY <2>6, <2>7
<1>3. CASE ~HasStage(t)
  <2>1. \A i \in 1..3 : int(i) \in 0..IntMax /\ int(i) < IntMax
    BY <1>1, IntAssumption DEF ValueOr0, BelowLimit, FitsInt, IsNum, Piece, Numeral, Tag
  <2>2. u = IF int(1) > 0 THEN Dotted(Plus1(int(1)), 0, 0)
            ELSE IF int(2) > 0 THEN Dotted(0, Plus1(int(2)), 0)
            ELSE Dotted(0, 0, Plus1(int(3)))
    BY <1>3 DEF DecrementVersion
  <2> HIDE DEF int, u
  <2>3. \A i \in 1..3 : Plus1(int(i)) \in 0..IntMax
    BY <2>1, IntAssumption DEF Plus1
  <2>4. 0 \in 0..IntMax
    BY IntAssumption
  <2>5. IncrementVersion(u) # NoText /\ Decrements(u)
    BY <2>2, <2>3, <2>4, ReleaseInForm
  <2>6. QED
    BY <1>3, <2>5 DEF u
<1>4. QED
  BY <1>2, <1>3

LEMMA DecrementStaysInFormStep ==
  TypeOK /\ [Next]_vars
    => (Decremented /\ BelowLimit(text) =>
          LET kept == HasStage(text) => Full(text)
          IN /\ kept <=> Decrements(text')
             /\ kept <=> IncrementVersion(text') # NoText)
BY DecrementedBy, PredecessorInForm

(* incrementVersion and decrementVersion accept what decrementVersion      *)
(* makes of a version below the limit of int, and accept nothing that it   *)
(* makes of an alpha or a beta with fewer than three numerals.             *)
THEOREM DecrementFormKept == Spec => DecrementStaysInForm
BY TypeCorrect, DecrementStaysInFormStep, PTL DEF Spec, DecrementStaysInForm

-----------------------------------------------------------------------------
(* What coerce returns is a release of three numerals without leading      *)
(* zeros, which all three calls read.                                      *)

Settled(t) ==
  \E m, n, p \in Nat : t = [nums |-> <<Num(m), Num(n), Num(p)>>, pre |-> <<>>]

SettledInv == last = "coerce" => Settled(text)

LEMMA CoerceSettled ==
  ASSUME NEW t \in Text, Match(t) # <<>>
  PROVE  Settled(Coerce(t))
<1>1. PICK m \in Nat, n \in Nat, p \in Nat : Coerce(t) = Dotted(m, n, p)
  BY CoerceType
<1>2. Dotted(m, n, p) = [nums |-> <<Num(m), Num(n), Num(p)>>, pre |-> <<>>]
  BY DEF Dotted
<1>3. QED
  BY <1>1, <1>2 DEF Settled

(* coerce matches all of such a text, and returns it.                      *)
LEMMA SettledStays ==
  ASSUME NEW t, Settled(t)
  PROVE  Match(t) = t.nums /\ Coerce(t) = t
<1>1. PICK m \in Nat, n \in Nat, p \in Nat :
        t = [nums |-> <<Num(m), Num(n), Num(p)>>, pre |-> <<>>]
  BY DEF Settled
<1> DEFINE s == <<Num(m), Num(n), Num(p)>>
<1>2. /\ t.nums = s /\ Len(s) = 3
      /\ s[1] = Num(m) /\ s[2] = Num(n) /\ s[3] = Num(p)
  BY <1>1
<1>3. \A i \in 1..3 : IsNum(s[i])
  BY <1>2 DEF IsNum, Num
<1>4. MatchIn(s) = s
  <2> DEFINE First(i) == IsNum(s[i]) /\ \A j \in 1..(i - 1) : ~IsNum(s[j])
             first == CHOOSE i \in 1..Len(s) : First(i)
  <2> HIDE DEF s
  <2>1. First(1) /\ 1 \in 1..Len(s)
    BY <1>2, <1>3
  <2>2. first \in 1..Len(s) /\ First(first)
    BY <2>1
  <2>3. first = 1
    BY <1>2, <1>3, <2>2
  <2>4. MatchIn(s) = SubSeq(s, 1, 3)
    BY <1>2, <1>3, <2>3 DEF MatchIn
  <2>5. SubSeq(s, 1, 3) = s
    <3>1. s \in Seq(Piece)
      BY NumPiece DEF s
    <3>2. /\ SubSeq(s, 1, 3) \in Seq(Piece) /\ Len(SubSeq(s, 1, 3)) = Len(s)
          /\ \A i \in 1..Len(s) : SubSeq(s, 1, 3)[i] = s[i]
      BY <1>2, <3>1
    <3>3. QED
      BY <3>1, <3>2
  <2>6. QED
    BY <2>4, <2>5
<1>5. Match(t) = s
  BY <1>2, <1>3, <1>4 DEF Match
<1>6. Coerce(t) = Dotted(m, n, p)
  <2>1. /\ ValueOr0(Match(t), 1) = m /\ ValueOr0(Match(t), 2) = n
        /\ ValueOr0(Match(t), 3) = p /\ Match(t) # <<>>
    BY <1>2, <1>5 DEF ValueOr0, Num
  <2>2. QED
    BY <2>1 DEF Coerce
<1>7. Dotted(m, n, p) = t
  BY <1>1 DEF Dotted
<1>8. QED
  BY <1>2, <1>5, <1>6, <1>7

(* A call on it fails only when one of its numbers is no int.              *)
LEMMA SettledRead ==
  ASSUME NEW t, Settled(t), \A i \in DOMAIN t.nums : IsNum(t.nums[i]) => t.nums[i].val <= IntMax
  PROVE  /\ IncrementVersion(t) # NoText
         /\ Decrements(t) /\ ~DecrementThrows(t)
         /\ Match(t) # <<>> /\ ~CoerceThrows(t)
<1>1. PICK m \in Nat, n \in Nat, p \in Nat :
        t = [nums |-> <<Num(m), Num(n), Num(p)>>, pre |-> <<>>]
  BY DEF Settled
<1>2. Len(t.nums) = 3 /\ DOMAIN t.nums = 1..3 /\ t.pre = <<>>
  BY <1>1
<1>3. \A i \in 1..3 : IsNum(t.nums[i]) /\ t.nums[i].val \in Nat
  BY <1>1 DEF IsNum, Num
<1>4. \A i \in 1..3 : FitsInt(t.nums[i]) /\ FitsLong(t.nums[i])
  BY <1>2, <1>3, IntAssumption, LimitsAssumption DEF FitsInt, FitsLong
<1>5. IncrementVersion(t) # NoText
  <2>1. \A i \in 1..3 : ValueOr0(t.nums, i) \in Nat
    BY <1>2, <1>3 DEF ValueOr0
  <2>2. IncrementVersion(t)
          = Dotted(ValueOr0(t.nums, 1), ValueOr0(t.nums, 2), Plus1(ValueOr0(t.nums, 3)))
    BY <1>2, <1>4 DEF IncrementVersion
  <2>3. IncrementVersion(t) \in Text
    BY <2>1, <2>2, DottedType, Plus1Type
  <2>4. QED
    BY <2>3, EmptyTextType
<1>6. Decrements(t)
  BY <1>2, <1>3 DEF Decrements
<1>7. ~DecrementThrows(t)
  BY <1>2, <1>4 DEF DecrementThrows
<1>8. Match(t) = t.nums
  BY SettledStays
<1>9. Match(t) # <<>> /\ ~CoerceThrows(t)
  BY <1>2, <1>4, <1>8 DEF CoerceThrows
<1>10. QED
  BY <1>5, <1>6, <1>7, <1>9

LEMMA SettledStep == TypeOK /\ SettledInv /\ [Next]_vars => SettledInv'
<1> SUFFICES ASSUME TypeOK, SettledInv, [Next]_vars
             PROVE  SettledInv'
  OBVIOUS
<1>1. CASE Normalise
  BY <1>1, CoerceSettled DEF Normalise, TypeOK, SettledInv
<1>2. CASE Increment \/ Decrement
  BY <1>2 DEF Increment, Decrement, SettledInv
<1>3. CASE UNCHANGED <<text, last>>
  BY <1>3 DEF SettledInv
<1>4. QED
  BY <1>1, <1>2, <1>3 DEF Next, vars, IncrementFails, DecrementFails, NormaliseFails, Ends

LEMMA SettlesStep ==
  TypeOK /\ SettledInv /\ [Next]_vars
    => (calls' # calls /\ last = "coerce" =>
          IF outcome' = "walking" THEN last' = "coerce" => text' = text
          ELSE \E i \in DOMAIN text.nums : IsNum(text.nums[i]) /\ text.nums[i].val > IntMax)
<1> SUFFICES ASSUME TypeOK, SettledInv, [Next]_vars, calls' # calls, last = "coerce"
             PROVE  IF outcome' = "walking" THEN last' = "coerce" => text' = text
                    ELSE \E i \in DOMAIN text.nums :
                           IsNum(text.nums[i]) /\ text.nums[i].val > IntMax
  OBVIOUS
<1>1. Settled(text) /\ text.nums \in Seq(Piece) /\ outcome \in {"walking", "nullopt", "exception"}
  BY DEF SettledInv, TypeOK, Text
<1>2. outcome = "walking"
  BY DEF Next, vars, Calls, Increment, IncrementFails, Decrement, DecrementFails, Normalise,
         NormaliseFails
<1>3. CASE Normalise
  BY <1>1, <1>2, <1>3, SettledStays DEF Normalise
<1>4. CASE Increment \/ Decrement
  BY <1>2, <1>4 DEF Increment, Decrement
<1>5. CASE IncrementFails \/ DecrementFails \/ NormaliseFails
  <2>1. ~(\A i \in DOMAIN text.nums : IsNum(text.nums[i]) => text.nums[i].val <= IntMax)
    BY <1>1, <1>5, SettledRead DEF IncrementFails, DecrementFails, NormaliseFails
  <2>2. \A i \in DOMAIN text.nums : text.nums[i].val \in Int
    BY <1>1, PieceFields
  <2>3. outcome' # "walking"
    BY <1>5 DEF IncrementFails, DecrementFails, NormaliseFails, Ends
  <2>4. QED
    BY <2>1, <2>2, <2>3, IntAssumption
<1>6. QED
  BY <1>3, <1>4, <1>5 DEF Next, vars

(* coerce has nothing to do on what it returned, and the other calls fail  *)
(* on it only when one of its numbers is no int.                           *)
THEOREM CoerceCorrect == Spec => CoerceSettles
<1>1. Init => SettledInv
  BY DEF Init, SettledInv
<1>2. QED
  BY <1>1, TypeCorrect, SettledStep, SettlesStep, PTL DEF Spec, CoerceSettles

-----------------------------------------------------------------------------
(* What std::stoi and std::stoll read of a part is the value of its piece. *)

LEMMA ReadsPiece ==
  ASSUME NEW p \in String
  PROVE  /\ ~StoiFails(p) <=> FitsInt(PieceOf(p))
         /\ FitsInt(PieceOf(p)) => PieceOf(p).val = Stoi(p)
         /\ Stoi(p) \in Nat
<1>1. Leading(p) \in String /\ OnlyDigits(Leading(p)) /\ Value(Leading(p)) \in Nat
  BY LeadingDigits, ValueType
<1>2. IsNum(PieceOf(p)) <=> Leading(p) # <<>>
  <2>1. CASE p = <<>>
    <3>1. Leading(p) = <<>>
      BY <2>1, LeadingDigits, EmptyValue
    <3>2. QED
      BY <2>1, <3>1, PieceKind
  <2>2. CASE p # <<>>
    BY <2>2, PieceKind, LeadingType
  <2>3. QED
    BY <2>1, <2>2
<1>3. IsNum(PieceOf(p)) => PieceOf(p) = [kind |-> "num", val |-> Value(Leading(p)), zeros |-> Zeros(Leading(p))]
  BY PieceKind DEF PieceOf
<1>4. IsNum(PieceOf(p)) => PieceOf(p).val = Value(Leading(p))
  BY <1>3
<1>5. ~StoiFails(p) <=> FitsInt(PieceOf(p))
  BY <1>1, <1>2, <1>4, IntAssumption DEF StoiFails, FromCharsFails, FitsInt
<1>6. QED
  BY <1>1, <1>4, <1>5 DEF FitsInt, Stoi, FromChars

(* The piece of a group that coerce matches.                               *)
LEMMA GroupPiece ==
  ASSUME NEW p \in String, OnlyDigits(p), p # <<>>
  PROVE  /\ IsNum(PieceOf(p)) /\ PieceOf(p).val = Value(p) /\ Value(p) \in Nat
<1>1. Leading(p) = p /\ Value(p) \in Nat
  BY LeadingDigits, ValueType
<1>2. Len(p) \in Nat /\ DOMAIN p = 1..Len(p) /\ Len(p) # 0
  BY Characters DEF String
<1>3. p[1] \in Digit
  BY <1>2 DEF OnlyDigits, Chars
<1>4. PieceOf(p) = [kind |-> "num", val |-> Value(p), zeros |-> Zeros(p)]
  BY <1>1, <1>3 DEF PieceOf
<1>5. QED
  BY <1>1, <1>4 DEF IsNum

(* What to_string writes is the piece Num.                                 *)
LEMMA WrittenPiece ==
  ASSUME NEW n \in Nat
  PROVE  /\ NumToString(n) = Digits(n) /\ Digits(n) \in String
         /\ OnlyDigits(Digits(n)) /\ Digits(n) # <<>> /\ PieceOf(Digits(n)) = Num(n)
<1> DEFINE p == Digits(n)
<1>1. p \in String /\ IsNumber(p) /\ Value(p) = n
  BY DigitsNumber
<1>2. NumToString(n) = p
  BY DEF NumToString
<1> HIDE DEF p
<1>3. Len(p) \in Nat /\ DOMAIN p = 1..Len(p) /\ Len(p) # 0 /\ OnlyDigits(p) /\ p # <<>>
  BY <1>1, Characters DEF String, IsNumber
<1>4. Leading(p) = p /\ p[1] \in Digit
  BY <1>1, <1>3, LeadingDigits DEF OnlyDigits, Chars
<1>5. Zeros(p) = 0
  <2>1. \A k \in 1..(Len(p) - 1) : ~(\A j \in 1..k : p[j] = 0)
    BY <1>1, <1>3 DEF IsNumber
  <2>2. {k \in 1..(Len(p) - 1) : \A j \in 1..k : p[j] = 0} = {}
    BY <2>1
  <2>3. Cardinality({}) = 0
    BY FS_EmptySet
  <2>4. QED
    BY <2>2, <2>3 DEF Zeros
<1>6. PieceOf(p) = [kind |-> "num", val |-> n, zeros |-> 0]
  BY <1>1, <1>3, <1>4, <1>5 DEF PieceOf
<1>7. PieceOf(p) = Num(n)
  BY <1>6 DEF Num
<1>8. QED
  BY <1>1, <1>2, <1>3, <1>7 DEF p

-----------------------------------------------------------------------------
(* Strings made of parts, and their texts.                                 *)

(* s is a part of a text, and its pieces are m.                            *)
Spells(s, m) == Section(s) /\ PartsOf(s) = m

LEMMA SpellsOne ==
  ASSUME NEW p \in String, Proper(p), Chars(p) \cap {Dot, Dash} = {}
  PROVE  Spells(p, <<PieceOf(p)>>)
<1>1. Parts(p) = <<p>>
  BY CutNone DEF Parts
<1>2. DOMAIN Parts(p) = 1..1 /\ Parts(p)[1] = p
  BY <1>1
<1>3. Section(p)
  <2>1. Dash \notin Chars(p)
    OBVIOUS
  <2>2. \A i \in DOMAIN Parts(p) : Proper(Parts(p)[i])
    BY <1>2
  <2>3. QED
    BY <2>1, <2>2 DEF Section
<1>4. MapPieces(Parts(p)) = <<PieceOf(p)>>
  BY <1>1 DEF MapPieces
<1>5. QED
  BY <1>3, <1>4 DEF Spells, PartsOf

LEMMA DigitsSpell ==
  ASSUME NEW p \in String, OnlyDigits(p)
  PROVE  Spells(p, <<PieceOf(p)>>)
<1>1. Chars(p) \cap {Dot, Dash} = {}
  BY DigitsOnly
<1>2. QED
  BY <1>1, SpellsOne DEF Proper

LEMMA NumberSpells ==
  ASSUME NEW n \in Nat
  PROVE  Spells(Digits(n), <<Num(n)>>)
BY WrittenPiece, DigitsSpell

LEMMA NothingSpells == Spells(<<>>, <<EmptyPiece>>)
<1>1. <<>> \in String /\ OnlyDigits(<<>>) /\ PieceOf(<<>>) = EmptyPiece
  BY EmptyValue DEF PieceOf
<1>2. QED
  BY <1>1, DigitsSpell

LEMMA LetterSpells ==
  Spells(<<LetterA>>, <<Alpha>>)
<1>1. LetterA \in Char /\ LetterA \notin Digit /\ LetterA # Dot /\ LetterA # Dash /\ ~(LetterA < 0)
  BY BaseAssumption DEF Char, Digit, LetterA, Dot, Dash, Space, Tilde
<1> DEFINE p == <<LetterA>>
<1>2. p \in String /\ Len(p) = 1 /\ DOMAIN p = 1..1 /\ p[1] = LetterA /\ p # <<>>
  BY <1>1 DEF String
<1> HIDE DEF p
<1>3. Chars(p) \cap {Dot, Dash} = {}
  BY <1>1, <1>2 DEF Chars
<1>4. Rank(LetterA) = 5
  BY <1>1, BaseAssumption DEF Rank, LetterA
<1>5. PieceOf(p) = Alpha
  BY <1>1, <1>2, <1>4 DEF PieceOf, Alpha
<1>6. Spells(p, <<PieceOf(p)>>)
  BY <1>2, <1>3, SpellsOne DEF Proper
<1>7. QED
  BY <1>5, <1>6 DEF p

(* Parts joined by a dot.                                                  *)
LEMMA SpellsJoined ==
  ASSUME NEW a, NEW m, Spells(a, m), NEW b, NEW w, Spells(b, w)
  PROVE  /\ Spells(a \o (<<Dot>> \o b), m \o w)
         /\ a \in String /\ b \in String /\ a \o (<<Dot>> \o b) \in String
         /\ m \in Seq(Piece) /\ w \in Seq(Piece)
<1> DEFINE s == a \o (<<Dot>> \o b)
           D == {Dot, Dash}
           x == Parts(a)
           y == Parts(b)
<1>1. a \in String /\ b \in String /\ Section(a) /\ Section(b)
  BY DEF Spells, Section
<1>2. <<Dot>> \o b \in String /\ s \in String
  BY <1>1, SignTypes, ConcatType
<1>3. m = MapPieces(x) /\ w = MapPieces(y) /\ m \in Seq(Piece) /\ w \in Seq(Piece)
  BY <1>1, PartsType DEF Spells, PartsOf
<1>4. x \in Seq(String) /\ y \in Seq(String)
  BY <1>1, CutType DEF Parts
<1>5. Parts(s) = x \o y
  <2>1. Dot \in D /\ Dot \in Char
    BY CharacterFacts
  <2> HIDE DEF D
  <2>2. Cut(s, D) = Cut(a, D) \o Cut(b, D)
    BY <1>1, <2>1, CutJoined
  <2>3. QED
    BY <2>2 DEF Parts, D
<1>6. Dash \notin Chars(s)
  <2>1. Dash \notin Chars(a) /\ Dash \notin Chars(b) /\ Dot # Dash
    BY <1>1, DotsAreNoDigits DEF Section
  <2>2. /\ Len(s) = Len(a) + 1 + Len(b)
        /\ \A i \in 1..Len(a) : s[i] = a[i]
        /\ s[Len(a) + 1] = Dot
        /\ \A i \in 1..Len(b) : s[Len(a) + 1 + i] = b[i]
    BY <1>1, Around, DotsAreNoDigits, ZenonT(60)
  <2> HIDE DEF s
  <2>3. /\ Len(a) \in Nat /\ DOMAIN a = 1..Len(a) /\ Len(b) \in Nat /\ DOMAIN b = 1..Len(b)
        /\ DOMAIN s = 1..Len(s)
    BY <1>1, <1>2, Characters
  <2>4. ASSUME NEW i \in DOMAIN s, s[i] = Dash
        PROVE  FALSE
    <3>1. \/ i \in 1..Len(a) \/ i = Len(a) + 1
          \/ i - (Len(a) + 1) \in 1..Len(b) /\ i = Len(a) + 1 + (i - (Len(a) + 1))
      BY <2>2, <2>3
    <3>2. QED
      BY <2>1, <2>2, <2>3, <2>4, <3>1 DEF Chars
  <2>5. QED
    BY <2>4 DEF Chars
<1> HIDE DEF x, y, s
<1>7. \A i \in DOMAIN (x \o y) : Proper((x \o y)[i])
  <2>1. (\A i \in DOMAIN x : Proper(x[i])) /\ (\A i \in DOMAIN y : Proper(y[i]))
    BY <1>1 DEF Section, x, y
  <2>2. /\ DOMAIN x = 1..Len(x) /\ DOMAIN y = 1..Len(y) /\ Len(x) \in Nat /\ Len(y) \in Nat
        /\ DOMAIN (x \o y) = 1..(Len(x) + Len(y))
        /\ \A i \in 1..(Len(x) + Len(y)) : (x \o y)[i] = IF i <= Len(x) THEN x[i] ELSE y[i - Len(x)]
    BY <1>4
  <2>3. QED
    BY <2>1, <2>2
<1>8. Section(s)
  BY <1>2, <1>5, <1>6, <1>7 DEF Section
<1>9. MapPieces(x \o y) = m \o w
  BY <1>3, <1>4, MapJoined
<1>10. QED
  BY <1>1, <1>2, <1>3, <1>5, <1>8, <1>9 DEF Spells, PartsOf, s

LEMMA AfterNone ==
  ASSUME NEW s \in String, NEW C, ~Found(s, C)
  PROVE  After(s, C) = <<>>
<1>1. Len(s) \in Nat /\ Find(s, C) \in Nat /\ Find(s, C) > Len(s)
  BY FindRange, Characters DEF Found
<1> DEFINE n == Find(s, C)
<1> HIDE DEF n
<1>2. Skip(s, n) = <<>>
  BY <1>1 DEF Skip, String, n
<1>3. QED
  BY <1>2 DEF After, n

(* The text of a string of parts, and of two that a dash joins.            *)
HasTextOf(s, t) == s \in String /\ HasText(s) /\ TextOf(s) = t

LEMMA ReleaseText ==
  ASSUME NEW h, NEW m, Spells(h, m)
  PROVE  HasTextOf(h, [nums |-> m, pre |-> <<>>])
<1>1. h \in String /\ Section(h) /\ PartsOf(h) = m
  BY DEF Spells, Section
<1>2. Chars(h) \cap {Dash} = {}
  BY <1>1 DEF Section
<1>3. ~Found(h, {Dash}) /\ Before(h, {Dash}) = h /\ Find(h, {Dash}) = Len(h) + 1
  BY <1>1, <1>2, FindNone
<1>4. After(h, {Dash}) = <<>>
  BY <1>1, <1>3, AfterNone
<1>5. TextOf(h) = [nums |-> m, pre |-> <<>>]
  BY <1>1, <1>3, PiecesOfMap DEF TextOf, PartsOf, Parts
<1>6. ~Found(<<>>, {Dash})
  BY EmptyValue, FindNone DEF Chars
<1>7. HasText(h)
  BY <1>1, <1>4, <1>6 DEF HasText, Section, Parts, Proper
<1>8. QED
  BY <1>1, <1>5, <1>7 DEF HasTextOf

LEMMA PreReleaseText ==
  ASSUME NEW h, NEW m, Spells(h, m), NEW q, NEW w, Spells(q, w)
  PROVE  HasTextOf(h \o (<<Dash>> \o q), [nums |-> m, pre |-> w])
<1> DEFINE s == h \o (<<Dash>> \o q)
           C == {Dash}
           D == {Dot, Dash}
           x == Parts(h)
           y == Parts(q)
<1>1. h \in String /\ Section(h) /\ PartsOf(h) = m /\ q \in String /\ Section(q) /\ PartsOf(q) = w
  BY DEF Spells, Section
<1>2. Dash \in Char /\ Chars(h) \cap C = {} /\ Chars(q) \cap C = {}
  BY <1>1, CharacterFacts DEF Section
<1>3. s \in String
  BY <1>1, SignTypes, ConcatType
<1>4. CutsInto(s, C, h, Dash, q)
  <2>1. Dash \in C
    OBVIOUS
  <2> HIDE DEF C
  <2>2. QED
    BY <1>1, <1>2, <2>1, FindBehind
<1>5. x \in Seq(String) /\ y \in Seq(String)
  BY <1>1, CutType DEF Parts
<1>6. Parts(s) = x \o y
  <2>1. Dash \in D
    OBVIOUS
  <2> HIDE DEF D
  <2>2. Cut(s, D) = Cut(h, D) \o Cut(q, D)
    BY <1>1, <1>2, <2>1, CutJoined
  <2>3. QED
    BY <2>2 DEF Parts, D
<1> HIDE DEF s, x, y
<1>7. \A i \in DOMAIN (x \o y) : Proper((x \o y)[i])
  <2>1. (\A i \in DOMAIN x : Proper(x[i])) /\ (\A i \in DOMAIN y : Proper(y[i]))
    BY <1>1 DEF Section, x, y
  <2>2. /\ DOMAIN x = 1..Len(x) /\ DOMAIN y = 1..Len(y) /\ Len(x) \in Nat /\ Len(y) \in Nat
        /\ DOMAIN (x \o y) = 1..(Len(x) + Len(y))
        /\ \A i \in 1..(Len(x) + Len(y)) : (x \o y)[i] = IF i <= Len(x) THEN x[i] ELSE y[i - Len(x)]
    BY <1>5
  <2>3. QED
    BY <2>1, <2>2
<1>8. ~Found(q, C)
  BY <1>1, <1>2, FindNone
<1>9. HasText(s)
  BY <1>4, <1>6, <1>7, <1>8 DEF HasText, CutsInto, Parts, Proper
<1>10. TextOf(s) = [nums |-> m, pre |-> w]
  BY <1>1, <1>4, PiecesOfMap DEF TextOf, CutsInto, PartsOf, Parts
<1>11. QED
  BY <1>3, <1>9, <1>10 DEF HasTextOf, s

-----------------------------------------------------------------------------
(* Three numbers joined by dots.                                           *)

Chain(a, b, c) == a \o (<<Dot>> \o (b \o (<<Dot>> \o c)))

LEMMA ChainType ==
  ASSUME NEW a \in String, NEW b \in String, NEW c \in String
  PROVE  Chain(a, b, c) \in String
<1>1. <<Dot>> \o c \in String
  BY SignTypes, ConcatType
<1>2. b \o (<<Dot>> \o c) \in String
  BY <1>1, ConcatType
<1>3. <<Dot>> \o (b \o (<<Dot>> \o c)) \in String
  BY <1>2, SignTypes, ConcatType
<1>4. QED
  BY <1>3, ConcatType DEF Chain

LEMMA ChainIs ==
  ASSUME NEW a \in String, NEW b \in String, NEW c \in String
  PROVE  a \o <<Dot>> \o b \o <<Dot>> \o c = Chain(a, b, c)
<1> DEFINE d == <<Dot>>
           x == a \o d
           y == d \o c
           z == b \o y
<1>1. d \in String
  BY SignTypes
<1> HIDE DEF d
<1>2. x \in String /\ y \in String
  BY <1>1, ConcatType
<1>3. z \in String
  BY <1>2, ConcatType
<1>4. x \o b \in String
  BY <1>2, ConcatType
<1>5. Associates(x \o b, d, c)
  BY <1>1, <1>4, StringsAssociate
<1> HIDE DEF x
<1>6. Associates(x, b, d \o c)
  BY <1>2, StringsAssociate
<1>7. Associates(a, d, z)
  BY <1>1, <1>3, StringsAssociate
<1>8. ((x \o b) \o d) \o c = x \o z
  BY <1>5, <1>6 DEF Associates
<1>9. (a \o d) \o z = a \o (d \o z)
  BY <1>7 DEF Associates
<1>10. QED
  BY <1>8, <1>9 DEF Chain, d, x

LEMMA ChainWritten ==
  ASSUME NEW m, NEW n, NEW p,
         NumToString(m) \in String, NumToString(n) \in String, NumToString(p) \in String
  PROVE  DottedString(m, n, p) = Chain(NumToString(m), NumToString(n), NumToString(p))
BY ChainIs DEF DottedString

LEMMA Tuples ==
  ASSUME NEW u, NEW v, NEW w,
         <<u>> \in Seq(Piece), <<v>> \in Seq(Piece), <<w>> \in Seq(Piece)
  PROVE  /\ <<u>> \o <<v>> = <<u, v>>
         /\ <<u>> \o <<v, w>> = <<u, v, w>>
<1>1. u \in Piece /\ v \in Piece /\ w \in Piece
  <2>1. <<u>>[1] \in Piece /\ <<v>>[1] \in Piece /\ <<w>>[1] \in Piece
    OBVIOUS
  <2>2. QED
    BY <2>1
<1>2. <<u>> \o <<v>> = <<u, v>>
  <2> DEFINE y == <<v>>
             x == <<u>> \o y
             z == <<u, v>>
  <2>1. y \in Seq(Piece) /\ Len(y) = 1 /\ y[1] = v
    BY <1>1
  <2>2. z \in Seq(Piece) /\ Len(z) = 2 /\ z[1] = u /\ z[2] = v
    BY <1>1
  <2> HIDE DEF y
  <2>3. /\ x \in Seq(Piece) /\ Len(x) = Len(y) + 1 /\ x[1] = u
        /\ \A i \in 1..Len(y) : x[i + 1] = y[i]
    BY <1>1, <2>1, OneMore
  <2> HIDE DEF x, z
  <2>4. Len(x) = 2 /\ x[2] = v
    BY <2>1, <2>3
  <2>5. x = z
    BY <2>2, <2>3, <2>4
  <2>6. QED
    BY <2>5 DEF x, y, z
<1>3. <<u>> \o <<v, w>> = <<u, v, w>>
  <2> DEFINE y == <<v, w>>
             x == <<u>> \o y
             z == <<u, v, w>>
  <2>1. y \in Seq(Piece) /\ Len(y) = 2 /\ y[1] = v /\ y[2] = w
    BY <1>1
  <2>2. z \in Seq(Piece) /\ Len(z) = 3 /\ z[1] = u /\ z[2] = v /\ z[3] = w
    BY <1>1
  <2> HIDE DEF y
  <2>3. /\ x \in Seq(Piece) /\ Len(x) = Len(y) + 1 /\ x[1] = u
        /\ \A i \in 1..Len(y) : x[i + 1] = y[i]
    BY <1>1, <2>1, OneMore
  <2> HIDE DEF x, z
  <2>4. Len(x) = 3 /\ x[2] = v /\ x[3] = w
    BY <2>1, <2>3
  <2>5. x = z
    BY <2>2, <2>3, <2>4
  <2>6. QED
    BY <2>5 DEF x, y, z
<1>4. QED
  BY <1>2, <1>3

LEMMA ChainSpells ==
  ASSUME NEW a, NEW b, NEW c, NEW u, NEW v, NEW w,
         Spells(a, <<u>>), Spells(b, <<v>>), Spells(c, <<w>>)
  PROVE  /\ Spells(Chain(a, b, c), <<u, v, w>>)
         /\ a \in String /\ b \in String /\ c \in String
<1>1. /\ Spells(b \o (<<Dot>> \o c), <<v>> \o <<w>>)
      /\ b \in String /\ c \in String /\ <<v>> \in Seq(Piece) /\ <<w>> \in Seq(Piece)
  BY SpellsJoined
<1>2. <<v>> \o <<w>> = <<v, w>>
  BY <1>1, Tuples
<1>3. Spells(b \o (<<Dot>> \o c), <<v, w>>)
  BY <1>1, <1>2
<1> DEFINE q == b \o (<<Dot>> \o c)
<1> HIDE DEF q
<1>4. /\ Spells(a \o (<<Dot>> \o q), <<u>> \o <<v, w>>)
      /\ a \in String
  BY <1>3, SpellsJoined DEF q
<1>5. <<u>> \o <<v, w>> = <<u, v, w>>
  <2>1. <<u>> \in Seq(Piece)
    BY SpellsJoined
  <2>2. QED
    BY <1>1, <2>1, Tuples
<1>6. QED
  BY <1>1, <1>4, <1>5 DEF Chain, q

LEMMA PairSpells ==
  ASSUME NEW a, NEW b, NEW u, NEW v, Spells(a, <<u>>), Spells(b, <<v>>)
  PROVE  Spells(a \o (<<Dot>> \o b), <<u, v>>)
<1>1. /\ Spells(a \o (<<Dot>> \o b), <<u>> \o <<v>>)
      /\ <<u>> \in Seq(Piece) /\ <<v>> \in Seq(Piece)
  BY SpellsJoined
<1>2. <<u>> \o <<v>> = <<u, v>>
  BY <1>1, Tuples
<1>3. QED
  BY <1>1, <1>2

(* A negative number brings a dash.                                        *)
LEMMA NegativeWritten ==
  ASSUME NEW i \in Int, i < 0
  PROVE  /\ -i \in Nat /\ NumToString(i) = <<Dash>> \o Digits(-i)
         /\ Digits(-i) \in String /\ NumToString(i) \in String
<1>1. -i \in Nat
  OBVIOUS
<1>2. NumToString(i) = <<Dash>> \o Digits(-i)
  BY DEF NumToString
<1>3. Digits(-i) \in String
  BY <1>1, DigitsNumber
<1>4. QED
  BY <1>1, <1>2, <1>3, SignTypes, ConcatType

LEMMA DashJoined ==
  ASSUME NEW a \in String, NEW b \in String
  PROVE  (<<Dash>> \o a) \o b = <<Dash>> \o (a \o b)
BY SignTypes, StringsAssociate DEF Associates

LEMMA ThreeNumbers ==
  ASSUME NEW m \in Nat, NEW n \in Nat, NEW p \in Nat
  PROVE  HasTextOf(DottedString(m, n, p), Dotted(m, n, p))
<1>1. /\ Spells(Digits(m), <<Num(m)>>) /\ Spells(Digits(n), <<Num(n)>>) /\ Spells(Digits(p), <<Num(p)>>)
  BY NumberSpells
<1>2. /\ Spells(Chain(Digits(m), Digits(n), Digits(p)), <<Num(m), Num(n), Num(p)>>)
      /\ Digits(m) \in String /\ Digits(n) \in String /\ Digits(p) \in String
  BY <1>1, ChainSpells
<1>3. NumToString(m) = Digits(m) /\ NumToString(n) = Digits(n) /\ NumToString(p) = Digits(p)
  BY WrittenPiece
<1>4. DottedString(m, n, p) = Chain(Digits(m), Digits(n), Digits(p))
  BY <1>2, <1>3, ChainWritten
<1>5. Dotted(m, n, p) = [nums |-> <<Num(m), Num(n), Num(p)>>, pre |-> <<>>]
  BY DottedParts
<1>6. QED
  BY <1>2, <1>4, <1>5, ReleaseText

LEMMA NegativeFirst ==
  ASSUME NEW i \in Int, i < 0, NEW m \in Nat, NEW n \in Nat
  PROVE  HasTextOf(DottedString(i, m, n), Dotted(i, m, n))
<1> DEFINE k == -i
           a == Digits(k)
           b == Digits(m)
           c == Digits(n)
           y == <<Dot>> \o (b \o (<<Dot>> \o c))
<1>1. k \in Nat /\ NumToString(i) = <<Dash>> \o a /\ NumToString(i) \in String
  BY NegativeWritten
<1> HIDE DEF k
<1>2. Spells(a, <<Num(k)>>) /\ Spells(b, <<Num(m)>>) /\ Spells(c, <<Num(n)>>)
  BY <1>1, NumberSpells
<1>3. Spells(Chain(a, b, c), <<Num(k), Num(m), Num(n)>>) /\ a \in String /\ b \in String /\ c \in String
  BY <1>2, ChainSpells
<1>4. NumToString(m) = b /\ NumToString(n) = c
  BY WrittenPiece
<1>5. DottedString(i, m, n) = Chain(NumToString(i), b, c)
  BY <1>1, <1>3, <1>4, ChainWritten
<1> HIDE DEF a, b, c
<1>6. y \in String
  <2>1. <<Dot>> \o c \in String
    BY <1>3, SignTypes, ConcatType
  <2>2. b \o (<<Dot>> \o c) \in String
    BY <1>3, <2>1, ConcatType
  <2>3. QED
    BY <2>2, SignTypes, ConcatType
<1>7. Chain(NumToString(i), b, c) = (<<Dash>> \o a) \o y /\ Chain(a, b, c) = a \o y
  BY <1>1 DEF Chain
<1> HIDE DEF y
<1>8. (<<Dash>> \o a) \o y = <<Dash>> \o (a \o y)
  BY <1>3, <1>6, DashJoined
<1> DEFINE q == Chain(a, b, c)
<1>9. DottedString(i, m, n) = <<Dash>> \o q /\ q \in String
  BY <1>3, <1>5, <1>7, <1>8, ChainType
<1>10. HasTextOf(<<>> \o (<<Dash>> \o q), [nums |-> <<EmptyPiece>>, pre |-> <<Num(k), Num(m), Num(n)>>])
  BY <1>3, NothingSpells, PreReleaseText
<1>11. <<>> \o (<<Dash>> \o q) = <<Dash>> \o q
  BY <1>9, SignTypes, ConcatType, EmptyConcat
<1>12. Dotted(i, m, n) = [nums |-> <<EmptyPiece>>, pre |-> <<Num(k), Num(m), Num(n)>>]
  BY DEF Dotted, k
<1>13. QED
  BY <1>9, <1>10, <1>11, <1>12

LEMMA NegativeSecond ==
  ASSUME NEW i \in Int, i < 0, NEW m \in Nat, NEW n \in Nat
  PROVE  HasTextOf(DottedString(m, i, n), Dotted(m, i, n))
<1> DEFINE k == -i
           a == Digits(m)
           b == Digits(k)
           c == Digits(n)
           d == <<Dot>>
           q == b \o (d \o c)
<1>1. k \in Nat /\ NumToString(i) = <<Dash>> \o b /\ NumToString(i) \in String
  BY NegativeWritten
<1> HIDE DEF k
<1>2. Spells(a, <<Num(m)>>) /\ Spells(b, <<Num(k)>>) /\ Spells(c, <<Num(n)>>)
  BY <1>1, NumberSpells
<1>3. Spells(q, <<Num(k), Num(n)>>)
  BY <1>2, PairSpells
<1>4. Spells(a \o (d \o <<>>), <<Num(m), EmptyPiece>>)
  BY <1>2, NothingSpells, PairSpells
<1>5. a \in String /\ b \in String /\ c \in String
  BY <1>2 DEF Spells, Section
<1>6. NumToString(m) = a /\ NumToString(n) = c
  BY WrittenPiece
<1>7. DottedString(m, i, n) = Chain(a, <<Dash>> \o b, c)
  BY <1>1, <1>5, <1>6, ChainWritten
<1> HIDE DEF a, b, c
<1>8. d \in String /\ d \o c \in String
  BY <1>5, SignTypes, ConcatType
<1>9. (<<Dash>> \o b) \o (d \o c) = <<Dash>> \o q
  BY <1>5, <1>8, DashJoined
<1>10. q \in String /\ <<Dash>> \o q \in String
  BY <1>5, <1>8, SignTypes, ConcatType
<1>11. DottedString(m, i, n) = a \o (d \o (<<Dash>> \o q))
  BY <1>7, <1>9 DEF Chain
<1> HIDE DEF q, d
<1>12. Associates(a, d, <<Dash>> \o q)
  BY <1>5, <1>8, <1>10, StringsAssociate
<1>13. d \o <<>> = d
  BY <1>8, EmptyConcat
<1>14. DottedString(m, i, n) = (a \o (d \o <<>>)) \o (<<Dash>> \o q)
  BY <1>11, <1>12, <1>13 DEF Associates
<1>15. HasTextOf((a \o (d \o <<>>)) \o (<<Dash>> \o q),
                 [nums |-> <<Num(m), EmptyPiece>>, pre |-> <<Num(k), Num(n)>>])
  BY <1>3, <1>4, PreReleaseText
<1>16. Dotted(m, i, n) = [nums |-> <<Num(m), EmptyPiece>>, pre |-> <<Num(k), Num(n)>>]
  BY DEF Dotted, k
<1>17. QED
  BY <1>14, <1>15, <1>16

LEMMA NegativeThird ==
  ASSUME NEW i \in Int, i < 0, NEW m \in Nat, NEW n \in Nat
  PROVE  HasTextOf(DottedString(m, n, i), Dotted(m, n, i))
<1> DEFINE k == -i
           a == Digits(m)
           b == Digits(n)
           c == Digits(k)
           d == <<Dot>>
           r == <<Dash>> \o c
<1>1. k \in Nat /\ NumToString(i) = r /\ r \in String
  BY NegativeWritten
<1> HIDE DEF k
<1>2. Spells(a, <<Num(m)>>) /\ Spells(b, <<Num(n)>>) /\ Spells(c, <<Num(k)>>)
  BY <1>1, NumberSpells
<1>3. Spells(Chain(a, b, <<>>), <<Num(m), Num(n), EmptyPiece>>)
  BY <1>2, NothingSpells, ChainSpells
<1>4. a \in String /\ b \in String /\ c \in String
  BY <1>2 DEF Spells, Section
<1>5. NumToString(m) = a /\ NumToString(n) = b
  BY WrittenPiece
<1>6. DottedString(m, n, i) = Chain(a, b, r)
  BY <1>1, <1>4, <1>5, ChainWritten
<1> HIDE DEF a, b, c
<1>7. d \in String
  BY SignTypes
<1>8. HasTextOf(Chain(a, b, <<>>) \o (<<Dash>> \o c), [nums |-> <<Num(m), Num(n), EmptyPiece>>, pre |-> <<Num(k)>>])
  BY <1>2, <1>3, PreReleaseText
<1> HIDE DEF r
<1> DEFINE e == b \o d
           f == d \o e
<1>9. e \in String
  BY <1>4, <1>7, ConcatType
<1>10. f \in String
  BY <1>7, <1>9, ConcatType
<1>11. Chain(a, b, <<>>) = a \o f
  <2>1. d \o <<>> = d
    BY <1>7, EmptyConcat
  <2>2. QED
    BY <2>1 DEF Chain
<1>12. Associates(b, d, r)
  BY <1>1, <1>4, <1>7, StringsAssociate
<1>13. Associates(d, e, r)
  <2> HIDE DEF e
  <2>1. QED
    BY <1>1, <1>7, <1>9, StringsAssociate
<1>14. Associates(a, f, r)
  <2> HIDE DEF f
  <2>1. QED
    BY <1>1, <1>4, <1>10, StringsAssociate
<1>15. (a \o f) \o r = a \o (d \o (b \o (d \o r)))
  <2>1. (a \o f) \o r = a \o (f \o r)
    BY <1>14 DEF Associates
  <2>2. f \o r = d \o (e \o r)
    BY <1>13 DEF Associates
  <2>3. e \o r = b \o (d \o r)
    BY <1>12 DEF Associates
  <2>4. QED
    BY <2>1, <2>2, <2>3
<1>16. DottedString(m, n, i) = Chain(a, b, <<>>) \o (<<Dash>> \o c)
  BY <1>6, <1>11, <1>15 DEF Chain, r
<1>17. Dotted(m, n, i) = [nums |-> <<Num(m), Num(n), EmptyPiece>>, pre |-> <<Num(k)>>]
  BY DEF Dotted, k
<1>18. QED
  BY <1>8, <1>16, <1>17

(* The text of three ints one of which may be negative.                    *)
LEMMA DottedText ==
  ASSUME NEW i \in Int, NEW m \in Nat, NEW n \in Nat
  PROVE  /\ HasTextOf(DottedString(i, m, n), Dotted(i, m, n))
         /\ HasTextOf(DottedString(m, i, n), Dotted(m, i, n))
         /\ HasTextOf(DottedString(m, n, i), Dotted(m, n, i))
<1>1. CASE i < 0
  BY <1>1, NegativeFirst, NegativeSecond, NegativeThird
<1>2. CASE i >= 0
  <2>1. i \in Nat
    BY <1>2
  <2>2. QED
    BY <2>1, ThreeNumbers
<1>3. QED
  BY <1>1, <1>2

-----------------------------------------------------------------------------
(* coerce and the bound of "^" on the string and on its text.              *)

(* m holds the values of the three groups g, a group that matches nothing  *)
(* left out.                                                               *)
HoldsValues(m, g) ==
  /\ \A i \in 1..3 : Value(g[i]) \in Nat /\ ValueOr0(m, i) = Value(g[i])
  /\ \A k \in Nat : (\E i \in DOMAIN m : ~(IsNum(m[i]) /\ m[i].val <= k))
                      <=> \E i \in 1..3 : Value(g[i]) > k

LEMMA NumeralsHold ==
  ASSUME NEW a \in String, OnlyDigits(a), a # <<>>,
         NEW b \in String, OnlyDigits(b),
         NEW c \in String, OnlyDigits(c), b = <<>> => c = <<>>,
         NEW g, g[1] = a, g[2] = b, g[3] = c
  PROVE  HoldsValues(Numerals(g), g)
<1> DEFINE m == Numerals(g)
           l == IF b = <<>> THEN 1 ELSE IF c = <<>> THEN 2 ELSE 3
<1>1. m = [i \in 1..l |-> PieceOf(g[i])] /\ l \in 1..3
  BY DEF Numerals
<1>2. Len(m) = l /\ DOMAIN m = 1..l /\ \A i \in 1..l : m[i] = PieceOf(g[i])
  BY <1>1
<1>3. \A i \in 1..3 : g[i] \in String /\ OnlyDigits(g[i])
  <2>1. \A i \in 1..3 : i = 1 \/ i = 2 \/ i = 3
    OBVIOUS
  <2>2. QED
    BY <2>1
<1>4. \A i \in 1..3 : Value(g[i]) \in Nat
  BY <1>3, ValueType
<1>5. \A i \in 1..3 : i <= l => IsNum(m[i]) /\ m[i].val = Value(g[i])
  <2>1. \A i \in 1..3 : i <= l => g[i] # <<>>
    OBVIOUS
  <2>2. \A i \in 1..3 : i <= l => i \in 1..l
    BY <1>1
  <2>3. QED
    BY <1>2, <1>3, <2>1, <2>2, GroupPiece
<1>6. \A i \in 1..3 : ~(i <= l) => Value(g[i]) = 0
  <2>1. \A i \in 1..3 : ~(i <= l) => g[i] = <<>>
    OBVIOUS
  <2>2. QED
    BY <2>1, EmptyValue
<1> HIDE DEF m, l
<1>7. \A i \in 1..3 : ValueOr0(m, i) = Value(g[i])
  BY <1>2, <1>5, <1>6 DEF ValueOr0
<1>8. ASSUME NEW k \in Nat
      PROVE  (\E i \in DOMAIN m : ~(IsNum(m[i]) /\ m[i].val <= k)) <=> \E i \in 1..3 : Value(g[i]) > k
  <2>1. ASSUME NEW i \in DOMAIN m, ~(IsNum(m[i]) /\ m[i].val <= k)
        PROVE  \E j \in 1..3 : Value(g[j]) > k
    <3>1. i \in 1..3 /\ i <= l
      BY <1>1, <1>2, <2>1
    <3>2. QED
      BY <1>4, <1>5, <2>1, <3>1
  <2>2. ASSUME NEW i \in 1..3, Value(g[i]) > k
        PROVE  \E j \in DOMAIN m : ~(IsNum(m[j]) /\ m[j].val <= k)
    <3>1. i <= l
      BY <1>6, <2>2
    <3>2. i \in DOMAIN m
      BY <1>1, <1>2, <3>1
    <3>3. m[i].val = Value(g[i]) /\ Value(g[i]) \in Nat
      BY <1>4, <1>5, <3>1
    <3>4. ~(m[i].val <= k)
      BY <2>2, <3>3
    <3>5. QED
      BY <3>2, <3>4
  <2>3. QED
    BY <2>1, <2>2
<1>9. QED
  BY <1>4, <1>7, <1>8 DEF HoldsValues, m

LEMMA MatchHolds ==
  ASSUME NEW s \in String, HasText(s), CanCoerce(s)
  PROVE  HoldsValues(Match(TextOf(s)), Groups(s))
<1> DEFINE f == Skip(s, Find(s, Digit) - 1)
           x == Skip(f, Len(Leading(f)))
<1>1. Groups(s) = <<Leading(f), GroupOf(x), IF GroupOf(x) = <<>> THEN <<>> ELSE GroupOf(Behind(x))>>
  BY GroupsAre DEF GroupsFrom
<1> HIDE DEF f, x
<1> DEFINE a == Leading(f)
           b == GroupOf(x)
           c == IF GroupOf(x) = <<>> THEN <<>> ELSE GroupOf(Behind(x))
<1>2. Groups(s)[1] = a /\ Groups(s)[2] = b /\ Groups(s)[3] = c /\ (b = <<>> => c = <<>>)
  BY <1>1
<1> HIDE DEF a, b, c
<1> DEFINE g == Groups(s)
<1>3. (\A i \in 1..3 : g[i] \in String /\ OnlyDigits(g[i])) /\ g[1] # <<>>
  BY GroupsType
<1>4. /\ a \in String /\ OnlyDigits(a) /\ a # <<>>
      /\ b \in String /\ OnlyDigits(b) /\ c \in String /\ OnlyDigits(c)
  <2>1. 1 \in 1..3 /\ 2 \in 1..3 /\ 3 \in 1..3
    OBVIOUS
  <2>2. QED
    BY <1>2, <1>3, <2>1
<1> HIDE DEF g
<1>5. g[1] = a /\ g[2] = b /\ g[3] = c
  BY <1>2 DEF g
<1>6. HoldsValues(Numerals(g), g)
  BY <1>2, <1>4, <1>5, NumeralsHold
<1>7. QED
  BY <1>6, TextMatch DEF g

(* Without a digit there is nothing to match.                              *)
LEMMA NothingMatched ==
  ASSUME NEW s \in String, ~CanCoerce(s)
  PROVE  \A i \in 1..3 : Value(Groups(s)[i]) = 0
<1> DEFINE f == Skip(s, Find(s, Digit) - 1)
<1>1. f = <<>>
  <2>1. Len(s) \in Nat /\ Find(s, Digit) = Len(s) + 1
    BY FindRange, Characters DEF CanCoerce, Found
  <2>2. Skip(s, Len(s)) = <<>>
    BY <2>1 DEF Skip, String
  <2>3. Find(s, Digit) - 1 = Len(s)
    BY <2>1
  <2>4. QED
    BY <2>2, <2>3
<1>2. Leading(<<>>) = <<>> /\ Len(<<>>) = 0 /\ Skip(<<>>, 0) = <<>>
  BY EmptyValue, LeadingDigits, SkipNone
<1> HIDE DEF f
<1> DEFINE group(r) == IF r # <<>> /\ r[1] = Dot THEN Leading(Tail(r)) ELSE <<>>
           major == Leading(f)
           minor == group(Skip(f, Len(major)))
           patch == IF minor = <<>> THEN <<>> ELSE group(Skip(f, Len(major) + 1 + Len(minor)))
<1>3. Groups(s) = <<major, minor, patch>>
  BY DEF Groups, f
<1>4. major = <<>> /\ minor = <<>> /\ patch = <<>>
  BY <1>1, <1>2
<1> HIDE DEF major, minor, patch
<1>5. \A i \in 1..3 : Groups(s)[i] = <<>>
  BY <1>3, <1>4
<1>6. QED
  BY <1>5, EmptyValue

LEMMA CoerceReads ==
  ASSUME NEW s \in String, HasText(s), NEW t, t = TextOf(s)
  PROVE  /\ CanCoerce(s) <=> Match(t) # <<>>
         /\ CanCoerce(s) => (CoerceStringThrows(s) <=> CoerceThrows(t))
         /\ CaretStringThrows(s) <=> CaretThrows(t)
<1> DEFINE m == Match(t)
           g == Groups(s)
<1>1. CanCoerce(s) <=> m # <<>>
  BY TextMatch
<1>2. LLMax \in Nat /\ IntMax \in Nat
  BY LimitsAssumption, IntAssumption
<1>3. CoerceStringThrows(s) <=> \E i \in 1..3 : Value(g[i]) > LLMax
  BY DEF CoerceStringThrows
<1>4. CaretStringThrows(s) <=> \E i \in 1..3 : Value(g[i]) > IntMax
  BY DEF CaretStringThrows
<1>5. CoerceThrows(t) <=> \E i \in DOMAIN m : ~(IsNum(m[i]) /\ m[i].val <= LLMax)
  BY DEF CoerceThrows, FitsLong
<1>6. CaretThrows(t) <=> \E i \in DOMAIN m : ~(IsNum(m[i]) /\ m[i].val <= IntMax)
  BY DEF CaretThrows, FitsInt
<1>7. CASE CanCoerce(s)
  <2>1. HoldsValues(m, g)
    BY <1>7, MatchHolds
  <2> HIDE DEF m, g
  <2>2. QED
    BY <1>1, <1>2, <1>3, <1>4, <1>5, <1>6, <2>1 DEF HoldsValues, m
<1>8. CASE ~CanCoerce(s)
  <2>1. \A i \in 1..3 : Value(g[i]) = 0
    BY <1>8, NothingMatched
  <2>2. m = <<>>
    BY <1>1, <1>8
  <2> HIDE DEF m, g
  <2>3. ~\E i \in DOMAIN m : ~(IsNum(m[i]) /\ m[i].val <= IntMax)
    BY <2>2
  <2>4. ~\E i \in 1..3 : Value(g[i]) > IntMax
    BY <1>2, <2>1
  <2>5. QED
    BY <1>1, <1>4, <1>6, <1>8, <2>3, <2>4 DEF m
<1>9. QED
  BY <1>7, <1>8

LEMMA CoerceReturns ==
  ASSUME NEW s \in String, HasText(s), CanCoerce(s)
  PROVE  HasTextOf(CoerceString(s), Coerce(TextOf(s)))
<1> DEFINE g == Groups(s)
           m == Match(TextOf(s))
           x == Value(g[1])
           y == Value(g[2])
           z == Value(g[3])
<1>1. /\ x \in Nat /\ y \in Nat /\ z \in Nat
      /\ ValueOr0(m, 1) = x /\ ValueOr0(m, 2) = y /\ ValueOr0(m, 3) = z
  <2>1. \A i \in 1..3 : Value(g[i]) \in Nat /\ ValueOr0(m, i) = Value(g[i])
    BY MatchHolds DEF HoldsValues
  <2>2. 1 \in 1..3 /\ 2 \in 1..3 /\ 3 \in 1..3
    OBVIOUS
  <2>3. QED
    BY <2>1, <2>2
<1>2. m # <<>>
  BY TextMatch
<1>3. CoerceString(s) = DottedString(x, y, z)
  BY DEF CoerceString
<1>4. Coerce(TextOf(s)) = Dotted(x, y, z)
  BY <1>1, <1>2 DEF Coerce
<1> HIDE DEF x, y, z
<1>5. HasTextOf(DottedString(x, y, z), Dotted(x, y, z))
  BY <1>1, ThreeNumbers
<1>6. QED
  BY <1>3, <1>4, <1>5

LEMMA EmptyTextOf == HasTextOf(<<>>, EmptyText)
<1>1. HasTextOf(<<>>, [nums |-> <<EmptyPiece>>, pre |-> <<>>])
  BY NothingSpells, ReleaseText
<1>2. QED
  BY <1>1 DEF EmptyText

LEMMA CaretReturns ==
  ASSUME NEW s \in String, HasText(s)
  PROVE  HasTextOf(CaretString(s), ComputeCaretUpperBound(TextOf(s)))
<1>1. CASE ~CanCoerce(s)
  <2>1. Match(TextOf(s)) = <<>>
    BY <1>1, TextMatch
  <2>2. CaretString(s) = <<>>
    BY <1>1 DEF CaretString
  <2>3. ComputeCaretUpperBound(TextOf(s)) = EmptyText
    BY <2>1 DEF ComputeCaretUpperBound
  <2>4. QED
    BY <2>2, <2>3, EmptyTextOf
<1>2. CASE CanCoerce(s)
  <2> DEFINE g == Groups(s)
             m == Match(TextOf(s))
             x == Value(g[1])
             y == Value(g[2])
             z == Value(g[3])
             c == Coerce(TextOf(s)).nums
  <2>1. /\ x \in Nat /\ y \in Nat /\ z \in Nat
        /\ ValueOr0(m, 1) = x /\ ValueOr0(m, 2) = y /\ ValueOr0(m, 3) = z
    <3>1. \A i \in 1..3 : Value(g[i]) \in Nat /\ ValueOr0(m, i) = Value(g[i])
      BY <1>2, MatchHolds DEF HoldsValues
    <3>2. 1 \in 1..3 /\ 2 \in 1..3 /\ 3 \in 1..3
      OBVIOUS
    <3>3. QED
      BY <3>1, <3>2
  <2>2. m # <<>>
    BY <1>2, TextMatch
  <2>3. Coerce(TextOf(s)) = Dotted(x, y, z)
    BY <2>1, <2>2 DEF Coerce
  <2>4. CaretString(s) = IF x > 0 THEN DottedString(Plus1(x), 0, 0)
                         ELSE IF y > 0 THEN DottedString(0, Plus1(y), 0)
                         ELSE DottedString(0, 0, Plus1(z))
    BY <1>2 DEF CaretString
  <2> HIDE DEF x, y, z
  <2>5. c[1].val = x /\ c[2].val = y /\ c[3].val = z
    <3>1. Dotted(x, y, z).nums = <<Num(x), Num(y), Num(z)>>
      BY <2>1, DottedParts
    <3>2. c = <<Num(x), Num(y), Num(z)>>
      BY <2>3, <3>1
    <3> HIDE DEF c
    <3>3. QED
      BY <3>2 DEF Num
  <2>6. ComputeCaretUpperBound(TextOf(s)) = IF x > 0 THEN Dotted(Plus1(x), 0, 0)
                                            ELSE IF y > 0 THEN Dotted(0, Plus1(y), 0)
                                            ELSE Dotted(0, 0, Plus1(z))
    BY <2>2, <2>5 DEF ComputeCaretUpperBound
  <2>7. Plus1(x) \in Int /\ Plus1(y) \in Int /\ Plus1(z) \in Int /\ 0 \in Nat
    BY <2>1, Plus1Type
  <2>8. /\ HasTextOf(DottedString(Plus1(x), 0, 0), Dotted(Plus1(x), 0, 0))
        /\ HasTextOf(DottedString(0, Plus1(y), 0), Dotted(0, Plus1(y), 0))
        /\ HasTextOf(DottedString(0, 0, Plus1(z)), Dotted(0, 0, Plus1(z)))
    BY <2>7, DottedText
  <2>9. QED
    BY <2>4, <2>6, <2>8
<1>3. QED
  BY <1>1, <1>2

-----------------------------------------------------------------------------
(* incrementVersion on the string and on its text.                         *)

(* The text of s, part by part.                                            *)
Halves(s, t) ==
  /\ Spells(Before(s, {Dash}), t.nums)
  /\ Found(s, {Dash}) => Spells(After(s, {Dash}), t.pre)
  /\ ~Found(s, {Dash}) => t.pre = <<>> /\ After(s, {Dash}) = <<>>
  /\ Cut(Before(s, {Dash}), {Dot}) = Parts(Before(s, {Dash}))

LEMMA CutAtDots ==
  ASSUME NEW h \in String, Dash \notin Chars(h)
  PROVE  Cut(h, {Dot}) = Parts(h)
<1> DEFINE C == {Dot}
           D == {Dot, Dash}
<1>1. EndsOf(h, C) = EndsOf(h, D)
  <2>1. \A i \in DOMAIN h : h[i] \in C <=> h[i] \in D
    BY DEF Chars
  <2>2. {i \in DOMAIN h : h[i] \in C} = {i \in DOMAIN h : h[i] \in D}
    BY <2>1
  <2>3. QED
    BY <2>2 DEF EndsOf
<1> HIDE DEF C, D
<1> DEFINE E == EndsOf(h, C)
<1>2. Cut(h, C) = [k \in 1..(Cardinality(E) - 1) |-> SubSeq(h, EndAt(E, k) + 1, EndAt(E, k + 1) - 1)]
  BY CutBy
<1>3. Cut(h, D) = [k \in 1..(Cardinality(E) - 1) |-> SubSeq(h, EndAt(E, k) + 1, EndAt(E, k + 1) - 1)]
  BY <1>1, CutBy
<1>4. QED
  BY <1>2, <1>3 DEF Parts, C, D

LEMMA TextHalves ==
  ASSUME NEW s \in String, HasText(s), NEW t, t = TextOf(s)
  PROVE  /\ Halves(s, t) /\ t \in Text
<1> DEFINE h == Before(s, {Dash})
           q == After(s, {Dash})
<1>1. Section(h) /\ (Found(s, {Dash}) => Section(q))
  BY Sections
<1>2. t = [nums |-> PiecesOf(h), pre |-> IF Found(s, {Dash}) THEN PiecesOf(q) ELSE <<>>]
  BY DEF TextOf
<1>3. t.nums = PiecesOf(h) /\ t.pre = IF Found(s, {Dash}) THEN PiecesOf(q) ELSE <<>>
  BY <1>2
<1> HIDE DEF h, q
<1>4. Spells(h, t.nums)
  BY <1>1, <1>3, PiecesOfMap DEF Spells, Section, PartsOf, Parts
<1>5. Found(s, {Dash}) => Spells(q, t.pre)
  BY <1>1, <1>3, PiecesOfMap DEF Spells, Section, PartsOf, Parts
<1>6. ~Found(s, {Dash}) => t.pre = <<>> /\ q = <<>>
  BY <1>3, AfterNone DEF q
<1>7. Cut(h, {Dot}) = Parts(h)
  BY <1>1, CutAtDots DEF Section
<1>8. QED
  BY <1>4, <1>5, <1>6, <1>7, TextOfType DEF Halves, h, q

(* The parts of a string and its pieces.                                   *)
LEMMA SpelledParts ==
  ASSUME NEW h, NEW m, Spells(h, m)
  PROVE  /\ h \in String /\ Parts(h) \in Seq(String) /\ m \in Seq(Piece) /\ m # <<>>
         /\ Len(Parts(h)) = Len(m) /\ DOMAIN Parts(h) = 1..Len(m) /\ DOMAIN m = 1..Len(m) /\ Len(m) \in Nat
         /\ \A i \in 1..Len(m) : /\ m[i] = PieceOf(Parts(h)[i]) /\ Parts(h)[i] \in String
                                 /\ Proper(Parts(h)[i])
                                 /\ Chars(Parts(h)[i]) \subseteq Chars(h) \ {Dot, Dash}
         /\ \A c \in Chars(h) \ {Dot, Dash} : \E i \in 1..Len(m) : c \in Chars(Parts(h)[i])
         /\ h = <<>> <=> m = <<EmptyPiece>>
<1> DEFINE D == {Dot, Dash}
<1>1. h \in String /\ Section(h) /\ PartsOf(h) = m
  BY DEF Spells, Section
<1>2. /\ m \in Seq(Piece) /\ Len(m) = Len(Parts(h)) /\ Len(Parts(h)) \in Nat \ {0}
      /\ \A i \in 1..Len(Parts(h)) : m[i] = PieceOf(Parts(h)[i])
  BY <1>1, PartsType
<1>3. Parts(h) \in Seq(String) /\ DOMAIN Parts(h) = 1..Len(Parts(h))
  BY <1>1, CutType DEF Parts
<1>4. h = <<>> <=> m = <<EmptyPiece>>
  <2>1. m = PiecesOf(h)
    BY <1>1, PiecesOfMap DEF PartsOf, Parts
  <2>2. m = <<EmptyPiece>> => h = <<>>
    BY <1>1, <2>1, PiecesOfType
  <2>3. h = <<>> => m = <<EmptyPiece>>
    BY <1>1, NothingSpells DEF Spells
  <2>4. QED
    BY <2>2, <2>3
<1>5. /\ \A k \in DOMAIN Cut(h, D) : Chars(Cut(h, D)[k]) \subseteq Chars(h) \ D
      /\ \A c \in Chars(h) \ D : \E k \in DOMAIN Cut(h, D) : c \in Chars(Cut(h, D)[k])
  <2> HIDE DEF D
  <2>1. QED
    BY <1>1, CutIs
<1>6. \A i \in DOMAIN Parts(h) : Proper(Parts(h)[i])
  BY <1>1 DEF Section
<1>7. \A i \in 1..Len(m) : Parts(h)[i] \in String
  BY <1>2, <1>3
<1>8. m # <<>>
  BY <1>2
<1>9. Len(m) \in Nat /\ DOMAIN Parts(h) = 1..Len(m) /\ DOMAIN m = 1..Len(m)
  BY <1>2, <1>3
<1>10. \A i \in 1..Len(m) : /\ m[i] = PieceOf(Parts(h)[i]) /\ Parts(h)[i] \in String
                             /\ Proper(Parts(h)[i])
                             /\ Chars(Parts(h)[i]) \subseteq Chars(h) \ {Dot, Dash}
  BY <1>2, <1>3, <1>5, <1>6, <1>7 DEF Parts
<1>11. \A c \in Chars(h) \ {Dot, Dash} : \E i \in 1..Len(m) : c \in Chars(Parts(h)[i])
  BY <1>5, <1>9 DEF Parts
<1>12. QED
  BY <1>1, <1>2, <1>3, <1>4, <1>8, <1>9, <1>10, <1>11

(* The three numbers that both functions read; a part that is not there is *)
(* "0".                                                                    *)
ReadsNumber(p, m, i) ==
  /\ StoiFails(p) <=> i \in DOMAIN m /\ ~FitsInt(m[i])
  /\ ~StoiFails(p) => ValueOr0(m, i) = Stoi(p)
  /\ Stoi(p) \in Nat

LEMMA NumbersRead ==
  ASSUME NEW s \in String, HasText(s), NEW t, t = TextOf(s), NEW i \in 1..3
  PROVE  ReadsNumber(Numbers3(s)[i], t.nums, i)
<1> DEFINE h == Before(s, {Dash})
           m == t.nums
           p == IF i <= Len(m) THEN Parts(h)[i] ELSE << 0 >>
<1>1. Spells(h, m) /\ Cut(h, {Dot}) = Parts(h)
  BY TextHalves DEF Halves
<1>2. Len(Parts(h)) = Len(m)
  BY <1>1, SpelledParts
<1>3. Numbers3(s)[i] = p
  BY <1>1, <1>2 DEF Numbers3
<1> HIDE DEF h, m
<1>4. CASE i <= Len(m)
  <2>1. i \in DOMAIN m /\ m[i] = PieceOf(Parts(h)[i]) /\ Parts(h)[i] \in String
    <3>1. Len(m) \in Nat /\ DOMAIN m = 1..Len(m)
      BY <1>1, SpelledParts
    <3>2. i \in 1..Len(m)
      BY <1>4, <3>1
    <3>3. QED
      BY <1>1, <3>1, <3>2, SpelledParts
  <2>2. p = Parts(h)[i]
    BY <1>4
  <2> HIDE DEF p
  <2>3. p \in String /\ m[i] = PieceOf(p)
    BY <2>1, <2>2
  <2>4. ReadsNumber(p, m, i)
    BY <1>4, <2>1, <2>3, ReadsPiece DEF ReadsNumber, ValueOr0
  <2>5. QED
    BY <1>3, <2>4 DEF m
<1>5. CASE ~(i <= Len(m))
  <2>1. p = << 0 >>
    BY <1>5
  <2>2. << 0 >> \in String /\ OnlyDigits(<< 0 >>) /\ Value(<< 0 >>) = 0 /\ Leading(<< 0 >>) = << 0 >>
    BY ZeroIs, LeadingDigits DEF IsNumber
  <2>3. ~StoiFails(<< 0 >>) /\ Stoi(<< 0 >>) = 0
    BY <2>2, IntAssumption DEF StoiFails, Stoi, FromCharsFails, FromChars
  <2>4. i \notin DOMAIN m
    <3>1. Len(m) \in Nat /\ DOMAIN m = 1..Len(m)
      BY <1>1, SpelledParts
    <3>2. QED
      BY <1>5, <3>1
  <2>5. ValueOr0(m, i) = 0
    BY <1>5 DEF ValueOr0
  <2>6. ReadsNumber(<< 0 >>, m, i)
    BY <2>3, <2>4, <2>5 DEF ReadsNumber
  <2>7. QED
    BY <1>3, <2>1, <2>6 DEF m
<1>6. QED
  BY <1>4, <1>5

LEMMA ThreeNumbersSpell ==
  ASSUME NEW m \in Nat, NEW n \in Nat, NEW p \in Nat
  PROVE  Spells(DottedString(m, n, p), <<Num(m), Num(n), Num(p)>>)
<1>1. /\ Spells(Digits(m), <<Num(m)>>) /\ Spells(Digits(n), <<Num(n)>>) /\ Spells(Digits(p), <<Num(p)>>)
  BY NumberSpells
<1>2. /\ Spells(Chain(Digits(m), Digits(n), Digits(p)), <<Num(m), Num(n), Num(p)>>)
      /\ Digits(m) \in String /\ Digits(n) \in String /\ Digits(p) \in String
  BY <1>1, ChainSpells
<1>3. NumToString(m) = Digits(m) /\ NumToString(n) = Digits(n) /\ NumToString(p) = Digits(p)
  BY WrittenPiece
<1>4. DottedString(m, n, p) = Chain(Digits(m), Digits(n), Digits(p))
  BY <1>2, <1>3, ChainWritten
<1>5. QED
  BY <1>2, <1>4

LEMMA ZeroSpells == Spells(<< 0 >>, <<Num(0)>>)
<1>1. << 0 >> \in String /\ OnlyDigits(<< 0 >>) /\ << 0 >> # <<>>
  BY ZeroIs DEF IsNumber
<1>2. PieceOf(<< 0 >>) = Num(0)
  <2>1. Digits(0) = << 0 >>
    BY BaseAssumption, DigitsNumber, ZeroIs, NumberOrder
  <2>2. QED
    BY <2>1, WrittenPiece
<1>3. QED
  BY <1>1, <1>2, DigitsSpell

(* A dash and a pre-release behind a string, and ".0" behind those.        *)
LEMMA PreReleaseJoined ==
  ASSUME NEW a \in String, NEW b \in String
  PROVE  a \o <<Dash>> \o b \o <<Dot, 0>> = a \o (<<Dash>> \o (b \o (<<Dot>> \o << 0 >>)))
<1> DEFINE d == <<Dash>>
           e == <<Dot>> \o << 0 >>
<1>1. d \in String /\ e \in String
  BY SignTypes, ZeroIs, ConcatType
<1>2. <<Dot, 0>> = e
  OBVIOUS
<1> HIDE DEF d, e
<1>3. a \o d \in String /\ b \o e \in String
  BY <1>1, ConcatType
<1> DEFINE x == a \o d
           y == b \o e
<1>4. Associates(x, b, e)
  <2> HIDE DEF x
  <2>1. QED
    BY <1>1, <1>3, StringsAssociate DEF x
<1>5. Associates(a, d, y)
  <2> HIDE DEF y
  <2>1. QED
    BY <1>1, <1>3, StringsAssociate DEF y
<1>6. ((a \o d) \o b) \o e = a \o (d \o (b \o e))
  BY <1>4, <1>5 DEF Associates
<1>7. QED
  BY <1>2, <1>6 DEF d, e

LEMMA IncrementReads ==
  ASSUME NEW s \in String, HasText(s), NEW t, t = TextOf(s)
  PROVE  /\ CanIncrement(s) <=> \A i \in DOMAIN t.nums : i <= 3 => FitsInt(t.nums[i])
         /\ CanIncrement(s) <=> IncrementVersion(t) # NoText
<1> DEFINE Fits == \A i \in DOMAIN t.nums : i <= 3 => FitsInt(t.nums[i])
<1>1. t \in Text /\ DOMAIN t.nums = 1..Len(t.nums) /\ Len(t.nums) \in Nat
  <2>1. t \in Text /\ Spells(Before(s, {Dash}), t.nums)
    BY TextHalves DEF Halves
  <2>2. QED
    BY <2>1, SpelledParts
<1>2. \A i \in 1..3 : StoiFails(Numbers3(s)[i]) <=> i \in DOMAIN t.nums /\ ~FitsInt(t.nums[i])
  BY NumbersRead DEF ReadsNumber
<1>3. CanIncrement(s) <=> Fits
  <2>1. ASSUME CanIncrement(s), NEW i \in DOMAIN t.nums, i <= 3
        PROVE  FitsInt(t.nums[i])
    <3>1. i \in 1..3
      BY <1>1, <2>1
    <3>2. QED
      BY <1>2, <2>1, <3>1 DEF CanIncrement
  <2>2. ASSUME Fits
        PROVE  CanIncrement(s)
    BY <1>2, <2>2 DEF CanIncrement
  <2>3. QED
    BY <2>1, <2>2
<1>4. Fits => IncrementVersion(t) # NoText
  BY <1>1, IncrementSucceeds, EmptyTextType
<1>5. ~Fits => IncrementVersion(t) = NoText
  BY DEF IncrementVersion
<1>6. QED
  BY <1>3, <1>4, <1>5

LEMMA IncrementReturns ==
  ASSUME NEW s \in String, HasText(s), NEW t, t = TextOf(s), CanIncrement(s)
  PROVE  HasTextOf(IncrementString(s), IncrementVersion(t))
<1> DEFINE q == After(s, {Dash})
           n(i) == Stoi(Numbers3(s)[i])
           x == n(1)
           y == n(2)
           z == n(3)
<1>1. /\ x \in Nat /\ y \in Nat /\ z \in Nat
      /\ ValueOr0(t.nums, 1) = x /\ ValueOr0(t.nums, 2) = y /\ ValueOr0(t.nums, 3) = z
  <2>1. \A i \in 1..3 : n(i) \in Nat /\ ValueOr0(t.nums, i) = n(i)
    BY NumbersRead DEF ReadsNumber, CanIncrement
  <2>2. 1 \in 1..3 /\ 2 \in 1..3 /\ 3 \in 1..3
    OBVIOUS
  <2>3. QED
    BY <2>1, <2>2
<1>2. ~\E i \in DOMAIN t.nums : i <= 3 /\ ~FitsInt(t.nums[i])
  BY IncrementReads
<1>3. IncrementString(s) = IF q # <<>>
                           THEN DottedString(x, y, z) \o <<Dash>> \o q \o <<Dot, 0>>
                           ELSE DottedString(x, y, Plus1(z))
  BY DEF IncrementString
<1> HIDE DEF x, y, z
<1>4. IncrementVersion(t) = IF t.pre \notin {<<>>, <<EmptyPiece>>}
                            THEN [nums |-> Dotted(x, y, z).nums, pre |-> Append(t.pre, Num(0))]
                            ELSE Dotted(x, y, Plus1(z))
  BY <1>1, <1>2 DEF IncrementVersion
<1>5. Halves(s, t)
  BY TextHalves
<1>6. q # <<>> <=> t.pre \notin {<<>>, <<EmptyPiece>>}
  <2>1. CASE Found(s, {Dash})
    <3>1. Spells(q, t.pre)
      BY <1>5, <2>1 DEF Halves
    <3>2. t.pre # <<>> /\ (q = <<>> <=> t.pre = <<EmptyPiece>>)
      BY <3>1, SpelledParts
    <3>3. QED
      BY <3>2
  <2>2. CASE ~Found(s, {Dash})
    BY <1>5, <2>2 DEF Halves
  <2>3. QED
    BY <2>1, <2>2
<1>7. CASE q = <<>>
  <2>1. HasTextOf(DottedString(x, y, Plus1(z)), Dotted(x, y, Plus1(z)))
    BY <1>1, Plus1Type, DottedText
  <2>2. QED
    BY <1>3, <1>4, <1>6, <1>7, <2>1
<1>8. CASE q # <<>>
  <2>1. Spells(q, t.pre)
    BY <1>5, <1>8 DEF Halves
  <2> DEFINE a == DottedString(x, y, z)
             r == q \o (<<Dot>> \o << 0 >>)
             w == t.pre \o <<Num(0)>>
  <2>2. Spells(a, <<Num(x), Num(y), Num(z)>>)
    BY <1>1, ThreeNumbersSpell
  <2>3. Spells(<< 0 >>, <<Num(0)>>)
    BY ZeroSpells
  <2>4. Spells(r, w) /\ q \in String
    BY <2>1, <2>3, SpellsJoined
  <2>5. a \in String
    BY <2>2 DEF Spells, Section
  <2>6. w = Append(t.pre, Num(0))
    <3>1. t.pre \in Seq(Piece) /\ Num(0) \in Piece
      BY <2>1, SpelledParts, NumPiece
    <3>2. QED
      BY <3>1
  <2>7. IncrementString(s) = a \o (<<Dash>> \o r)
    <3> HIDE DEF a
    <3>1. a \o <<Dash>> \o q \o <<Dot, 0>> = a \o (<<Dash>> \o (q \o (<<Dot>> \o << 0 >>)))
      BY <2>4, <2>5, PreReleaseJoined
    <3>2. QED
      BY <1>3, <1>8, <3>1 DEF a
  <2>8. IncrementVersion(t) = [nums |-> <<Num(x), Num(y), Num(z)>>, pre |-> w]
    <3>1. x \in Nat /\ y \in Nat /\ z \in Nat
      BY <1>1
    <3>2. Dotted(x, y, z).nums = <<Num(x), Num(y), Num(z)>>
      BY <3>1, DottedParts
    <3>3. QED
      BY <1>4, <1>6, <1>8, <2>6, <3>2
  <2> HIDE DEF a, r, w
  <2>9. HasTextOf(a \o (<<Dash>> \o r), [nums |-> <<Num(x), Num(y), Num(z)>>, pre |-> w])
    BY <2>2, <2>4, PreReleaseText
  <2>10. QED
    BY <2>7, <2>8, <2>9
<1>9. QED
  BY <1>7, <1>8

-----------------------------------------------------------------------------
(* decrementVersion on the string and on its text.                         *)

(* What its regular expression and its search for a stage tell of a part   *)
(* is what they tell of its piece.                                         *)
PartLikePiece(p, w) ==
  /\ Chars(p) \subseteq WordChar <=> IsNum(w) \/ w \in Letters \cup {EmptyPiece}
  /\ Chars(p) \cap {LetterA, LetterB} # {} <=> w \in {Alpha, Beta}
  /\ p # <<>> /\ OnlyDigits(p) <=> IsNum(w)

LEMMA WordFacts ==
  /\ Digit \subseteq WordChar /\ LetterA \notin Digit /\ LetterB \notin Digit
  /\ \A r \in Int : ~IsNum(Word(r))
  /\ \A r, k \in Int : Word(r) = Word(k) <=> r = k
  /\ EmptyPiece = Word(-4) /\ Alpha = Word(5) /\ Beta = Word(6)
  /\ \A r \in Int : Word(r) \in Letters <=> r \in 5..8
<1>1. Digit \subseteq WordChar
  BY DEF WordChar
<1>2. LetterA \notin Digit /\ LetterB \notin Digit
  BY BaseAssumption DEF LetterA, LetterB, Digit
<1>3. \A r \in Int : ~IsNum(Word(r))
  BY DEF IsNum, Word
<1>4. \A r, k \in Int : Word(r) = Word(k) <=> r = k
  BY DEF Word
<1>5. EmptyPiece = Word(-4) /\ Alpha = Word(5) /\ Beta = Word(6)
  BY DEF EmptyPiece, EmptyRank, Alpha, Beta
<1>6. Alpha.val = 5 /\ X.val = 8
  BY DEF Alpha, X, Word
<1>7. Letters = {Word(r) : r \in 5..8}
  BY <1>6 DEF Letters
<1>8. ASSUME NEW r \in Int
      PROVE  Word(r) \in Letters <=> r \in 5..8
  <2>1. r \in 5..8 => Word(r) \in Letters
    BY <1>7
  <2>2. ASSUME Word(r) \in Letters
        PROVE  r \in 5..8
    <3>1. PICK k \in 5..8 : Word(r) = Word(k)
      BY <1>7, <2>2
    <3>2. r = k
      BY <1>4, <3>1
    <3>3. QED
      BY <3>2
  <2>3. QED
    BY <2>1, <2>2
<1>9. QED
  BY <1>1, <1>2, <1>3, <1>4, <1>5, <1>8

LEMMA PieceTells ==
  ASSUME NEW p \in String, Proper(p), Chars(p) \cap {Dot, Dash} = {}
  PROVE  PartLikePiece(p, PieceOf(p))
<1> DEFINE w == PieceOf(p)
<1>1. CASE p = <<>>
  <2>1. w = Word(-4) /\ Chars(p) = {}
    BY <1>1, WordFacts DEF PieceOf, Chars
  <2>2. w \notin {Alpha, Beta} /\ ~IsNum(w) /\ w = EmptyPiece
    BY <2>1, WordFacts
  <2>3. QED
    BY <1>1, <2>1, <2>2 DEF PartLikePiece
<1>2. CASE p # <<>> /\ OnlyDigits(p)
  <2>1. IsNum(w)
    BY <1>2, GroupPiece
  <2>2. w \notin {Alpha, Beta}
    <3>1. ~IsNum(Alpha) /\ ~IsNum(Beta)
      BY WordFacts
    <3>2. QED
      BY <2>1, <3>1
  <2>3. Chars(p) \subseteq WordChar /\ Chars(p) \cap {LetterA, LetterB} = {}
    BY <1>2, WordFacts DEF OnlyDigits
  <2>4. QED
    BY <1>2, <2>1, <2>2, <2>3 DEF PartLikePiece
<1>3. CASE ~OnlyDigits(p)
  <2> DEFINE c == p[1]
             r == Rank(c)
  <2>1. Len(p) = 1 /\ p # <<>>
    BY <1>3, EmptyValue DEF Proper
  <2>2. DOMAIN p = 1..1 /\ c \in Char
    BY <2>1 DEF String
  <2>3. Chars(p) = {c}
    BY <2>2 DEF Chars
  <2> HIDE DEF c
  <2>4. c \notin Digit /\ c # Dot /\ c # Dash
    BY <1>3, <2>3 DEF OnlyDigits
  <2>5. w = Word(r)
    BY <2>1, <2>4 DEF PieceOf, c
  <2>6. c \in Int /\ c >= -5 /\ (c < 0 \/ c >= Base) /\ Base \in Nat /\ Base >= 2
    BY <2>2, <2>4, BaseAssumption DEF Char, Space, Tilde, Digit
  <2>7. r = IF c < 0 THEN c + 2 ELSE c - Base + 1
    BY DEF Rank
  <2> HIDE DEF r, w
  <2>8. r \in Int /\ r # -4
    BY <2>6, <2>7
  <2>9. ~IsNum(w) /\ w # EmptyPiece
    BY <2>5, <2>8, WordFacts
  <2>10. c \in WordChar <=> r \in 5..8
    <3>1. c \in WordChar <=> c \in (Base + 4)..(Base + 7)
      BY <2>4 DEF WordChar, LetterA, LetterX
    <3>2. QED
      BY <2>6, <2>7, <3>1
  <2>11. c \in {LetterA, LetterB} <=> r \in {5, 6}
    BY <2>6, <2>7 DEF LetterA, LetterB
  <2>12. w \in {Alpha, Beta} <=> r \in {5, 6}
    BY <2>5, <2>8, WordFacts
  <2>13. w \in Letters <=> r \in 5..8
    BY <2>5, <2>8, WordFacts
  <2>14. QED
    BY <1>3, <2>3, <2>9, <2>10, <2>11, <2>12, <2>13 DEF PartLikePiece, w
<1>4. QED
  BY <1>1, <1>2, <1>3

(* All the parts of a string and all its pieces.                           *)
LEMMA SpelledTells ==
  ASSUME NEW h, NEW m, Spells(h, m)
  PROVE  /\ \A i \in 1..Len(m) : PartLikePiece(Parts(h)[i], m[i])
         /\ Chars(h) \subseteq WordChar
              <=> \A i \in DOMAIN m : IsNum(m[i]) \/ m[i] \in Letters \cup {EmptyPiece}
         /\ Chars(h) \cap {LetterA, LetterB} # {} <=> \E i \in DOMAIN m : m[i] \in {Alpha, Beta}
<1> DEFINE P(i) == Parts(h)[i]
<1>1. /\ DOMAIN m = 1..Len(m)
      /\ \A i \in 1..Len(m) : /\ m[i] = PieceOf(P(i)) /\ P(i) \in String
                              /\ Proper(P(i))
                              /\ Chars(P(i)) \subseteq Chars(h) \ {Dot, Dash}
      /\ \A c \in Chars(h) \ {Dot, Dash} : \E i \in 1..Len(m) : c \in Chars(P(i))
  BY SpelledParts
<1>2. ASSUME NEW i \in 1..Len(m)
      PROVE  PartLikePiece(P(i), m[i])
  <2>1. P(i) \in String /\ Proper(P(i)) /\ Chars(P(i)) \cap {Dot, Dash} = {}
    BY <1>1
  <2>2. QED
    BY <1>1, <2>1, PieceTells
<1> HIDE DEF P
<1>3. Dot \in WordChar /\ Dash \in WordChar /\ Dot \notin {LetterA, LetterB} /\ Dash \notin {LetterA, LetterB}
  BY BaseAssumption DEF WordChar, Dot, Dash, LetterA, LetterB
<1>4. Chars(h) \subseteq WordChar <=> \A i \in 1..Len(m) : Chars(P(i)) \subseteq WordChar
  BY <1>1, <1>3
<1>5. Chars(h) \cap {LetterA, LetterB} # {} <=> \E i \in 1..Len(m) : Chars(P(i)) \cap {LetterA, LetterB} # {}
  <2>1. ASSUME NEW c \in Chars(h), c \in {LetterA, LetterB}
        PROVE  \E i \in 1..Len(m) : Chars(P(i)) \cap {LetterA, LetterB} # {}
    <3>1. PICK i \in 1..Len(m) : c \in Chars(P(i))
      BY <1>1, <1>3, <2>1
    <3>2. QED
      BY <2>1, <3>1
  <2>2. ASSUME NEW i \in 1..Len(m), Chars(P(i)) \cap {LetterA, LetterB} # {}
        PROVE  Chars(h) \cap {LetterA, LetterB} # {}
    BY <1>1, <2>2
  <2>3. QED
    BY <2>1, <2>2
<1>6. QED
  BY <1>1, <1>2, <1>4, <1>5 DEF PartLikePiece, P

LEMMA DecrementReads ==
  ASSUME NEW s \in String, HasText(s), NEW t, t = TextOf(s)
  PROVE  /\ CanDecrement(s) <=> Decrements(t)
         /\ Decrements(t) => (DecrementStringThrows(s) <=> DecrementThrows(t))
         /\ Chars(After(s, {Dash})) \cap {LetterA, LetterB} # {} <=> HasStage(t)
<1> DEFINE h == Before(s, {Dash})
           q == After(s, {Dash})
           m == t.nums
           r == t.pre
           F == Found(s, {Dash})
<1>1. /\ Spells(h, m) /\ (F => Spells(q, r)) /\ (~F => r = <<>> /\ q = <<>>)
      /\ Cut(h, {Dot}) = Parts(h)
  BY TextHalves DEF Halves
<1>2. CanDecrement(s) <=>
        /\ Len(Parts(h)) <= 3 /\ \A i \in DOMAIN Parts(h) : Parts(h)[i] # <<>> /\ OnlyDigits(Parts(h)[i])
        /\ F => q # <<>> /\ Chars(q) \subseteq WordChar
  BY <1>1 DEF CanDecrement
<1>3. Decrements(t) <=>
        /\ Len(m) <= 3 /\ \A i \in DOMAIN m : IsNum(m[i])
        /\ r # <<EmptyPiece>>
        /\ \A i \in DOMAIN r : IsNum(r[i]) \/ r[i] \in Letters \cup {EmptyPiece}
  BY DEF Decrements
<1>4. \A i \in 1..3 : StoiFails(Numbers3(s)[i]) <=> i \in DOMAIN m /\ ~FitsInt(m[i])
  BY NumbersRead DEF ReadsNumber
<1>5. HasStage(t) <=> \E i \in DOMAIN r : r[i] \in {Alpha, Beta}
  BY DEF HasStage
<1> HIDE DEF h, q, m, r, F
<1>6. /\ Len(Parts(h)) = Len(m) /\ DOMAIN Parts(h) = 1..Len(m) /\ DOMAIN m = 1..Len(m) /\ Len(m) \in Nat
      /\ \A i \in 1..Len(m) : Parts(h)[i] # <<>> /\ OnlyDigits(Parts(h)[i]) <=> IsNum(m[i])
  BY <1>1, SpelledParts, SpelledTells DEF PartLikePiece
<1>7. ASSUME F
      PROVE  /\ CanDecrement(s) <=> Decrements(t)
             /\ Chars(q) \cap {LetterA, LetterB} # {} <=> HasStage(t)
  <2>1. /\ q = <<>> <=> r = <<EmptyPiece>>
        /\ Chars(q) \subseteq WordChar
             <=> \A i \in DOMAIN r : IsNum(r[i]) \/ r[i] \in Letters \cup {EmptyPiece}
        /\ Chars(q) \cap {LetterA, LetterB} # {} <=> \E i \in DOMAIN r : r[i] \in {Alpha, Beta}
    BY <1>1, <1>7, SpelledParts, SpelledTells
  <2>2. CanDecrement(s) <=> Decrements(t)
    BY <1>2, <1>3, <1>6, <1>7, <2>1
  <2>3. Chars(q) \cap {LetterA, LetterB} # {} <=> HasStage(t)
    BY <1>5, <2>1
  <2>4. QED
    BY <2>2, <2>3
<1>8. ASSUME ~F
      PROVE  /\ CanDecrement(s) <=> Decrements(t)
             /\ Chars(q) \cap {LetterA, LetterB} # {} <=> HasStage(t)
  <2>1. q = <<>> /\ r = <<>> /\ r # <<EmptyPiece>> /\ DOMAIN r = {} /\ Chars(q) = {}
    BY <1>1, <1>8 DEF Chars
  <2>2. QED
    BY <1>2, <1>3, <1>5, <1>6, <1>8, <2>1
<1>9. ASSUME Decrements(t)
      PROVE  DecrementStringThrows(s) <=> DecrementThrows(t)
  <2>1. DOMAIN m \subseteq 1..3
    BY <1>3, <1>6, <1>9
  <2>2. DecrementThrows(t) <=> \E i \in DOMAIN m : ~FitsInt(m[i])
    BY DEF DecrementThrows, m
  <2>3. QED
    BY <1>4, <2>1, <2>2 DEF DecrementStringThrows
<1>10. QED
  BY <1>7, <1>8, <1>9 DEF q

LEMMA InFront ==
  ASSUME NEW c \in Char, NEW y \in String, NEW z \in String,
         Len(z) = Len(y) + 1, z[1] = c, \A i \in 1..Len(y) : z[i + 1] = y[i]
  PROVE  z = <<c>> \o y
<1> DEFINE d == <<c>>
           x == d \o y
<1>1. d \in String /\ Len(d) = 1 /\ d[1] = c
  BY DEF String
<1> HIDE DEF d
<1>2. /\ x \in String /\ Len(x) = Len(d) + Len(y)
      /\ \A i \in 1..(Len(d) + Len(y)) : x[i] = IF i <= Len(d) THEN d[i] ELSE y[i - Len(d)]
  BY <1>1, TwoStrings
<1> HIDE DEF x
<1>3. Len(y) \in Nat /\ DOMAIN x = 1..Len(x) /\ DOMAIN z = 1..Len(z)
  BY <1>2, Characters
<1>4. \A i \in DOMAIN z \cap DOMAIN x : z[i] = x[i]
  <2>1. ASSUME NEW i \in DOMAIN z \cap DOMAIN x
        PROVE  z[i] = x[i]
    <3>1. i \in 1..(Len(y) + 1)
      BY <1>3, <2>1
    <3>2. CASE i = 1
      BY <1>1, <1>2, <1>3, <3>2
    <3>3. CASE i # 1
      <4>1. i - 1 \in 1..Len(y) /\ (i - 1) + 1 = i
        BY <1>3, <3>1, <3>3
      <4>2. z[i] = y[i - 1]
        BY <4>1
      <4>3. x[i] = y[i - 1]
        BY <1>1, <1>2, <1>3, <3>1, <3>3
      <4>4. QED
        BY <4>2, <4>3
    <3>4. QED
      BY <3>2, <3>3
  <2>2. QED
    BY <2>1
<1>5. z = x
  BY <1>1, <1>2, <1>3, <1>4, NoDifference
<1>6. QED
  BY <1>5 DEF x, d

LEMMA AlphaWritten ==
  <<Dash, LetterA, Dot, 0>> = <<Dash>> \o (<<LetterA>> \o (<<Dot>> \o << 0 >>))
<1>1. Dash \in Char /\ LetterA \in Char /\ Dot \in Char /\ 0 \in Char
  BY BaseAssumption DEF Char, Space, Tilde, Dash, LetterA, Dot
<1> DEFINE a == << 0 >>
           b == <<Dot, 0>>
           c == <<LetterA, Dot, 0>>
           d == <<Dash, LetterA, Dot, 0>>
<1>2. /\ a \in String /\ Len(a) = 1 /\ a[1] = 0
      /\ b \in String /\ Len(b) = 2 /\ b[1] = Dot /\ b[2] = 0
      /\ c \in String /\ Len(c) = 3 /\ c[1] = LetterA /\ c[2] = Dot /\ c[3] = 0
      /\ d \in String /\ Len(d) = 4 /\ d[1] = Dash /\ d[2] = LetterA /\ d[3] = Dot /\ d[4] = 0
  BY <1>1 DEF String
<1> HIDE DEF a, b, c, d
<1>3. Len(b) = Len(a) + 1 /\ \A i \in 1..Len(a) : b[i + 1] = a[i]
  BY <1>2
<1>4. Len(c) = Len(b) + 1 /\ \A i \in 1..Len(b) : c[i + 1] = b[i]
  BY <1>2
<1>5. Len(d) = Len(c) + 1 /\ \A i \in 1..Len(c) : d[i + 1] = c[i]
  BY <1>2
<1>6. b = <<Dot>> \o a
  BY <1>1, <1>2, <1>3, InFront
<1>7. c = <<LetterA>> \o b
  BY <1>1, <1>2, <1>4, InFront
<1>8. d = <<Dash>> \o c
  BY <1>1, <1>2, <1>5, InFront
<1>9. QED
  BY <1>6, <1>7, <1>8 DEF a, b, c, d

LEMMA DecrementReturns ==
  ASSUME NEW s \in String, HasText(s), NEW t, t = TextOf(s),
         CanDecrement(s), ~DecrementStringThrows(s)
  PROVE  HasTextOf(DecrementString(s), DecrementVersion(t))
<1> DEFINE h == Before(s, {Dash})
           m == t.nums
           Stage == Chars(After(s, {Dash})) \cap {LetterA, LetterB} # {}
           a(i) == IF i <= Len(m) THEN Parts(h)[i] ELSE <<>>
           w(i) == IF i <= Len(m) THEN m[i] ELSE EmptyPiece
           n(i) == Stoi(Numbers3(s)[i])
           x == n(1)
           y == n(2)
           z == n(3)
<1>1. /\ x \in Nat /\ y \in Nat /\ z \in Nat
      /\ ValueOr0(m, 1) = x /\ ValueOr0(m, 2) = y /\ ValueOr0(m, 3) = z
  <2>1. \A i \in 1..3 : n(i) \in Nat /\ ValueOr0(m, i) = n(i)
    BY NumbersRead DEF ReadsNumber, DecrementStringThrows
  <2>2. 1 \in 1..3 /\ 2 \in 1..3 /\ 3 \in 1..3
    OBVIOUS
  <2>3. QED
    BY <2>1, <2>2
<1>2. Spells(h, m) /\ Cut(h, {Dot}) = Parts(h)
  BY TextHalves DEF Halves
<1>3. /\ Len(Parts(h)) = Len(m) /\ DOMAIN Parts(h) = 1..Len(m) /\ Len(m) \in Nat
      /\ \A i \in 1..Len(m) : m[i] = PieceOf(Parts(h)[i]) /\ Parts(h)[i] \in String
  <2> HIDE DEF h, m
  <2>1. QED
    BY <1>2, SpelledParts
<1>4. HasStage(t) <=> Stage
  BY DecrementReads
<1>5. DecrementString(s) =
        IF Stage THEN a(1) \o <<Dot>> \o a(2) \o <<Dot>> \o a(3) \o <<Dash, LetterA, Dot, 0>>
        ELSE IF x > 0 THEN DottedString(Plus1(x), 0, 0)
        ELSE IF y > 0 THEN DottedString(0, Plus1(y), 0)
        ELSE DottedString(0, 0, Plus1(z))
  BY <1>2, <1>3 DEF DecrementString
<1> HIDE DEF x, y, z
<1>6. DecrementVersion(t) =
        IF Stage THEN [nums |-> <<w(1), w(2), w(3)>>, pre |-> <<Alpha, Num(0)>>]
        ELSE IF x > 0 THEN Dotted(Plus1(x), 0, 0)
        ELSE IF y > 0 THEN Dotted(0, Plus1(y), 0)
        ELSE Dotted(0, 0, Plus1(z))
  BY <1>1, <1>4 DEF DecrementVersion
<1>7. CASE ~Stage
  <2>1. Plus1(x) \in Int /\ Plus1(y) \in Int /\ Plus1(z) \in Int /\ 0 \in Nat
    BY <1>1, Plus1Type
  <2>2. /\ HasTextOf(DottedString(Plus1(x), 0, 0), Dotted(Plus1(x), 0, 0))
        /\ HasTextOf(DottedString(0, Plus1(y), 0), Dotted(0, Plus1(y), 0))
        /\ HasTextOf(DottedString(0, 0, Plus1(z)), Dotted(0, 0, Plus1(z)))
    BY <2>1, DottedText
  <2> HIDE DEF Stage
  <2>3. QED
    BY <1>5, <1>6, <1>7, <2>2
<1>8. CASE Stage
  <2>1. \A i \in DOMAIN Parts(h) : OnlyDigits(Parts(h)[i])
    BY <1>2 DEF CanDecrement
  <2>2. ASSUME NEW i \in 1..3
        PROVE  Spells(a(i), <<w(i)>>)
    <3>1. CASE i <= Len(m)
      <4>1. i \in 1..Len(m)
        BY <1>3, <3>1
      <4>2. Parts(h)[i] \in String /\ OnlyDigits(Parts(h)[i]) /\ m[i] = PieceOf(Parts(h)[i])
        BY <1>3, <2>1, <4>1
      <4>3. Spells(Parts(h)[i], <<m[i]>>)
        BY <4>2, DigitsSpell
      <4>4. QED
        BY <3>1, <4>3
    <3>2. CASE ~(i <= Len(m))
      BY <3>2, NothingSpells
    <3>3. QED
      BY <3>1, <3>2
  <2> DEFINE a1 == a(1)
             a2 == a(2)
             a3 == a(3)
             u == Chain(a1, a2, a3)
             v == <<LetterA>> \o (<<Dot>> \o << 0 >>)
  <2>3. Spells(a1, <<w(1)>>) /\ Spells(a2, <<w(2)>>) /\ Spells(a3, <<w(3)>>)
    <3>1. 1 \in 1..3 /\ 2 \in 1..3 /\ 3 \in 1..3
      OBVIOUS
    <3>2. QED
      BY <2>2, <3>1
  <2>4. DecrementString(s) = a1 \o <<Dot>> \o a2 \o <<Dot>> \o a3 \o <<Dash, LetterA, Dot, 0>>
    BY <1>5, <1>8
  <2>5. DecrementVersion(t) = [nums |-> <<w(1), w(2), w(3)>>, pre |-> <<Alpha, Num(0)>>]
    BY <1>6, <1>8
  <2> HIDE DEF a1, a2, a3, w
  <2>6. Spells(u, <<w(1), w(2), w(3)>>) /\ a1 \in String /\ a2 \in String /\ a3 \in String
    BY <2>3, ChainSpells
  <2>7. Spells(v, <<Alpha, Num(0)>>)
    BY LetterSpells, ZeroSpells, PairSpells
  <2>8. a1 \o <<Dot>> \o a2 \o <<Dot>> \o a3 = u
    BY <2>6, ChainIs
  <2>9. <<Dash, LetterA, Dot, 0>> = <<Dash>> \o v
    BY AlphaWritten
  <2> HIDE DEF u, v
  <2>10. HasTextOf(u \o (<<Dash>> \o v), [nums |-> <<w(1), w(2), w(3)>>, pre |-> <<Alpha, Num(0)>>])
    BY <2>6, <2>7, PreReleaseText
  <2>11. QED
    BY <2>4, <2>5, <2>8, <2>9, <2>10
<1>9. QED
  BY <1>7, <1>8

-----------------------------------------------------------------------------
(* The walk on strings goes along with the walk on texts.                  *)

Along == HasTextOf(string, text)

LEMMA AlongInit == StringInit => Init /\ Along
<1> SUFFICES ASSUME StringInit
             PROVE  Init /\ Along
  OBVIOUS
<1>1. string \in String /\ HasText(string) /\ TextOf(string) \in Texts /\ text = TextOf(string)
  BY StringsAssumption DEF StringInit
<1>2. QED
  BY <1>1 DEF StringInit, Init, Along, HasTextOf

LEMMA AlongReturns ==
  ASSUME NEW s, NEW call, NEW t, HasTextOf(s, t), Returns(s, call)
  PROVE  Along' /\ text' = t /\ last' = call /\ UNCHANGED outcome
<1>1. string' = s /\ text' = t
  BY DEF Returns, HasTextOf
<1>2. HasTextOf(string', text')
  BY <1>1
<1>3. QED
  BY <1>1, <1>2 DEF Returns, Along

LEMMA AlongStays ==
  ASSUME Along, UNCHANGED <<string, text>>
  PROVE  Along'
BY DEF Along, HasTextOf

LEMMA AlongStep == Along /\ [StringNext]_stringVars => Along' /\ [Next]_vars
<1> SUFFICES ASSUME Along, [StringNext]_stringVars
             PROVE  Along' /\ [Next]_vars
  OBVIOUS
<1>1. string \in String /\ HasText(string) /\ text = TextOf(string)
  BY DEF Along, HasTextOf
<1>2. CASE CallIncrement
  <2>1. Calls /\ CanIncrement(string) /\ Returns(IncrementString(string), "increment")
    BY <1>2 DEF CallIncrement
  <2>2. HasTextOf(IncrementString(string), IncrementVersion(text)) /\ IncrementVersion(text) # NoText
    BY <1>1, <2>1, IncrementReads, IncrementReturns
  <2>3. Along' /\ text' = IncrementVersion(text) /\ last' = "increment" /\ UNCHANGED outcome
    BY <2>1, <2>2, AlongReturns
  <2>4. Increment
    BY <2>1, <2>2, <2>3 DEF Increment
  <2>5. QED
    BY <2>3, <2>4 DEF Next
<1>3. CASE CallIncrementFails
  <2>1. Calls /\ ~CanIncrement(string) /\ Ends("nullopt") /\ UNCHANGED string
    BY <1>3 DEF CallIncrementFails, StringEnds
  <2>2. IncrementVersion(text) = NoText
    BY <1>1, <2>1, IncrementReads
  <2>3. IncrementFails
    BY <2>1, <2>2 DEF IncrementFails
  <2>4. Along'
    BY <2>1, AlongStays DEF Ends
  <2>5. QED
    BY <2>3, <2>4 DEF Next
<1>4. CASE CallDecrement
  <2>1. /\ Calls /\ CanDecrement(string) /\ ~DecrementStringThrows(string)
        /\ Returns(DecrementString(string), "decrement")
    BY <1>4 DEF CallDecrement
  <2>2. /\ HasTextOf(DecrementString(string), DecrementVersion(text))
        /\ Decrements(text) /\ ~DecrementThrows(text)
    BY <1>1, <2>1, DecrementReads, DecrementReturns
  <2>3. Along' /\ text' = DecrementVersion(text) /\ last' = "decrement" /\ UNCHANGED outcome
    BY <2>1, <2>2, AlongReturns
  <2>4. Decrement
    BY <2>1, <2>2, <2>3 DEF Decrement
  <2>5. QED
    BY <2>3, <2>4 DEF Next
<1>5. CASE CallDecrementFails
  <2>1. /\ Calls /\ UNCHANGED string
        /\ IF CanDecrement(string) THEN DecrementStringThrows(string) /\ Ends("exception")
           ELSE Ends("nullopt")
    BY <1>5 DEF CallDecrementFails, StringEnds
  <2>2. /\ CanDecrement(string) <=> Decrements(text)
        /\ Decrements(text) => (DecrementStringThrows(string) <=> DecrementThrows(text))
    BY <1>1, DecrementReads
  <2>3. DecrementFails
    BY <2>1, <2>2 DEF DecrementFails
  <2>4. Along'
    BY <2>1, AlongStays DEF Ends
  <2>5. QED
    BY <2>3, <2>4 DEF Next
<1>6. CASE CallCoerce
  <2>1. /\ Calls /\ CanCoerce(string) /\ ~CoerceStringThrows(string)
        /\ Returns(CoerceString(string), "coerce")
    BY <1>6 DEF CallCoerce
  <2>2. HasTextOf(CoerceString(string), Coerce(text)) /\ Match(text) # <<>> /\ ~CoerceThrows(text)
    BY <1>1, <2>1, CoerceReads, CoerceReturns
  <2>3. Along' /\ text' = Coerce(text) /\ last' = "coerce" /\ UNCHANGED outcome
    BY <2>1, <2>2, AlongReturns
  <2>4. Normalise
    BY <2>1, <2>2, <2>3 DEF Normalise
  <2>5. QED
    BY <2>3, <2>4 DEF Next
<1>7. CASE CallCoerceFails
  <2>1. /\ Calls /\ UNCHANGED string
        /\ IF CanCoerce(string) THEN CoerceStringThrows(string) /\ Ends("exception")
           ELSE Ends("nullopt")
    BY <1>7 DEF CallCoerceFails, StringEnds
  <2>2. /\ CanCoerce(string) <=> Match(text) # <<>>
        /\ CanCoerce(string) => (CoerceStringThrows(string) <=> CoerceThrows(text))
    BY <1>1, CoerceReads
  <2>3. NormaliseFails
    BY <2>1, <2>2 DEF NormaliseFails
  <2>4. Along'
    BY <2>1, AlongStays DEF Ends
  <2>5. QED
    BY <2>3, <2>4 DEF Next
<1>8. CASE UNCHANGED stringVars
  BY <1>8, AlongStays DEF stringVars, vars
<1>9. QED
  BY <1>2, <1>3, <1>4, <1>5, <1>6, <1>7, <1>8 DEF StringNext

(* What incrementVersion(), decrementVersion() and coerce() do to the      *)
(* characters of a string, call after call, is what Successor says of its  *)
(* pieces: the walk on strings implements the walk on texts, so that what  *)
(* holds of every walk on texts holds of the strings.                      *)
THEOREM WalksOnPiecesCorrect == StringSpec => WalksOnPieces
<1>1. StringSpec => []Along
  BY AlongInit, AlongStep, PTL DEF StringSpec
<1>2. QED
  BY <1>1, AlongInit, AlongStep, PTL DEF StringSpec, WalksOnPieces, Spec

-----------------------------------------------------------------------------
(* The parts that the bound of "~" is computed from lie between dots, and  *)
(* one of them holds the '-'.                                              *)

(* std::stoi reads the string p, which has no sign, as the piece w.        *)
ReadsLike(p, w) ==
  /\ StoiFails(p) <=> ~FitsInt(w)
  /\ FitsInt(w) => w.val = Stoi(p)
  /\ Stoi(p) \in Nat
  /\ p = <<>> <=> w = EmptyPiece
  /\ ~HasSign(p)

AllRead(c, m) ==
  /\ c \in Seq(String) /\ m \in Seq(Piece) /\ Len(c) = Len(m)
  /\ \A i \in 1..Len(m) : ReadsLike(c[i], m[i])

(* The part p, which may hold a dash, is converted as the piece w is.      *)
Converts(p, w) ==
  /\ SignedFails(p) <=> ~FitsInt(w)
  /\ FitsInt(w) => w.val = Signed(p)

AllConverted(c, m) ==
  /\ c \in Seq(String) /\ m \in Seq(Piece) /\ Len(c) = Len(m)
  /\ \A i \in 1..Len(m) : Converts(c[i], m[i])

LEMMA ReadConverts ==
  ASSUME NEW p, NEW w, ReadsLike(p, w)
  PROVE  Converts(p, w)
BY DEF ReadsLike, Converts, SignedFails, Signed

LEMMA AllReadConverts ==
  ASSUME NEW c, NEW m, AllRead(c, m)
  PROVE  AllConverted(c, m)
BY ReadConverts DEF AllRead, AllConverted

LEMMA PartReads ==
  ASSUME NEW p \in String, Chars(p) \cap {Dot, Dash} = {}
  PROVE  ReadsLike(p, PieceOf(p))
<1>1. p # <<>> => p[1] \notin {Dot, Dash}
  <2>1. p # <<>> => 1 \in DOMAIN p
    BY Characters DEF String
  <2>2. QED
    BY <2>1 DEF Chars
<1>2. p = <<>> <=> PieceOf(p) = EmptyPiece
  BY <1>1, PieceOfType DEF PieceOf
<1>3. ~HasSign(p)
  BY <1>1 DEF HasSign
<1>4. QED
  BY <1>2, <1>3, ReadsPiece DEF ReadsLike

LEMMA PartsRead ==
  ASSUME NEW h, NEW m, Spells(h, m)
  PROVE  AllRead(Parts(h), m)
<1>1. /\ Parts(h) \in Seq(String) /\ m \in Seq(Piece) /\ Len(Parts(h)) = Len(m)
      /\ \A i \in 1..Len(m) : /\ m[i] = PieceOf(Parts(h)[i]) /\ Parts(h)[i] \in String
                              /\ Chars(Parts(h)[i]) \subseteq Chars(h) \ {Dot, Dash}
  BY SpelledParts
<1>2. ASSUME NEW i \in 1..Len(m)
      PROVE  ReadsLike(Parts(h)[i], m[i])
  <2>1. Parts(h)[i] \in String /\ Chars(Parts(h)[i]) \cap {Dot, Dash} = {}
    BY <1>1
  <2>2. QED
    BY <1>1, <2>1, PartReads
<1>3. QED
  BY <1>1, <1>2 DEF AllRead

LEMMA JoinedRead ==
  ASSUME NEW c, NEW m, AllConverted(c, m), NEW d, NEW w, AllConverted(d, w)
  PROVE  AllConverted(c \o d, m \o w)
<1>1. /\ c \in Seq(String) /\ m \in Seq(Piece) /\ Len(c) = Len(m)
      /\ d \in Seq(String) /\ w \in Seq(Piece) /\ Len(d) = Len(w)
  BY DEF AllConverted
<1>2. /\ c \o d \in Seq(String) /\ Len(c \o d) = Len(c) + Len(d)
      /\ \A i \in 1..(Len(c) + Len(d)) : (c \o d)[i] = IF i <= Len(c) THEN c[i] ELSE d[i - Len(c)]
  BY <1>1
<1>3. /\ m \o w \in Seq(Piece) /\ Len(m \o w) = Len(m) + Len(w)
      /\ \A i \in 1..(Len(m) + Len(w)) : (m \o w)[i] = IF i <= Len(m) THEN m[i] ELSE w[i - Len(m)]
  BY <1>1, Joined
<1> DEFINE x == c \o d
           y == m \o w
<1> HIDE DEF x, y
<1>4. ASSUME NEW i \in 1..(Len(m) + Len(w))
      PROVE  Converts(x[i], y[i])
  <2>1. Len(m) \in Nat /\ Len(w) \in Nat
    BY <1>1
  <2>2. CASE i <= Len(m)
    <3>1. i \in 1..Len(m) /\ x[i] = c[i] /\ y[i] = m[i]
      BY <1>1, <1>2, <1>3, <2>1, <2>2 DEF x, y
    <3>2. QED
      BY <3>1 DEF AllConverted
  <2>3. CASE ~(i <= Len(m))
    <3>1. i - Len(m) \in 1..Len(w) /\ x[i] = d[i - Len(m)] /\ y[i] = w[i - Len(m)]
      BY <1>1, <1>2, <1>3, <2>1, <2>3 DEF x, y
    <3>2. \A k \in 1..Len(w) : Converts(d[k], w[k])
      BY DEF AllConverted
    <3>3. QED
      BY <3>1, <3>2
  <2>4. QED
    BY <2>2, <2>3
<1>5. QED
  BY <1>1, <1>2, <1>3, <1>4 DEF AllConverted, x, y

(* An empty last part is dropped from both.                                *)
LEMMA DroppedRead ==
  ASSUME NEW c, NEW m, AllRead(c, m), c # <<>>
  PROVE  AllRead(DropEmptyEnd(c), DropTrailingEmpty(m))
<1> DEFINE l == Len(m)
<1>1. c \in Seq(String) /\ m \in Seq(Piece) /\ Len(c) = l /\ l \in Nat /\ l # 0 /\ m # <<>>
  BY DEF AllRead
<1>2. l \in 1..l
  BY <1>1
<1>3. c[l] = <<>> <=> m[l] = EmptyPiece
  BY <1>2 DEF AllRead, ReadsLike
<1>4. DropEmptyEnd(c) = IF c[l] = <<>> THEN SubSeq(c, 1, l - 1) ELSE c
  BY <1>1 DEF DropEmptyEnd, Last, Front
<1>5. DropTrailingEmpty(m) = IF m[l] = EmptyPiece THEN SubSeq(m, 1, l - 1) ELSE m
  BY <1>1 DEF DropTrailingEmpty
<1> DEFINE x == SubSeq(c, 1, l - 1)
           y == SubSeq(m, 1, l - 1)
<1>6. AllRead(x, y)
  <2>1. /\ x \in Seq(String) /\ Len(x) = l - 1 /\ \A i \in 1..(l - 1) : x[i] = c[i]
        /\ y \in Seq(Piece) /\ Len(y) = l - 1 /\ \A i \in 1..(l - 1) : y[i] = m[i]
    BY <1>1
  <2>2. \A i \in 1..(l - 1) : i \in 1..Len(m)
    BY <1>1
  <2> HIDE DEF x, y
  <2>3. \A i \in 1..Len(y) : ReadsLike(x[i], y[i])
    BY <2>1, <2>2 DEF AllRead
  <2>4. QED
    BY <2>1, <2>3 DEF AllRead
<1>7. QED
  BY <1>3, <1>4, <1>5, <1>6

LEMMA TailRead ==
  ASSUME NEW b \in String, NEW c \in Seq(String), NEW m, AllRead(<<b>> \o c, m)
  PROVE  AllRead(c, Tail(m)) /\ m # <<>>
<1> DEFINE x == <<b>> \o c
           y == Tail(m)
<1>1. x \in Seq(String) /\ Len(x) = Len(c) + 1 /\ \A i \in 1..Len(c) : x[i + 1] = c[i]
  OBVIOUS
<1> HIDE DEF x
<1>2. m \in Seq(Piece) /\ Len(m) = Len(c) + 1 /\ Len(c) \in Nat /\ \A i \in 1..Len(m) : ReadsLike(x[i], m[i])
  BY <1>1 DEF AllRead, x
<1>3. m # <<>>
  BY <1>2
<1>4. y \in Seq(Piece) /\ Len(y) = Len(c) /\ \A i \in 1..Len(c) : y[i] = m[i + 1]
  BY <1>2, <1>3
<1> HIDE DEF y
<1>5. ASSUME NEW i \in 1..Len(c)
      PROVE  ReadsLike(c[i], y[i])
  <2>1. i + 1 \in 1..Len(m)
    BY <1>2
  <2>2. ReadsLike(x[i + 1], m[i + 1])
    BY <1>2, <2>1
  <2>3. QED
    BY <1>1, <1>4, <2>2
<1>6. QED
  BY <1>3, <1>4, <1>5 DEF AllRead, y

LEMMA LastRead ==
  ASSUME NEW c \in Seq(String), NEW p \in String, NEW m, AllRead(c \o <<p>>, m),
         NEW q \in String, Converts(q, m[Len(m)])
  PROVE  AllConverted(c \o <<q>>, m)
<1> DEFINE x == c \o <<p>>
           y == c \o <<q>>
           l == Len(c) + 1
<1>1. /\ Len(c) \in Nat
      /\ x \in Seq(String) /\ Len(x) = l /\ \A i \in 1..Len(c) : x[i] = c[i]
      /\ y \in Seq(String) /\ Len(y) = l /\ y[l] = q /\ \A i \in 1..Len(c) : y[i] = c[i]
  OBVIOUS
<1> HIDE DEF x, y
<1>2. m \in Seq(Piece) /\ Len(m) = l /\ \A i \in 1..l : ReadsLike(x[i], m[i])
  BY <1>1 DEF AllRead, x
<1>3. ASSUME NEW i \in 1..l
      PROVE  Converts(y[i], m[i])
  <2>1. i \in 1..Len(c) \/ i = l
    BY <1>1
  <2>2. QED
    BY <1>1, <1>2, <1>3, <2>1, ReadConverts
<1>4. QED
  BY <1>1, <1>2, <1>3 DEF AllConverted, y

-----------------------------------------------------------------------------
(* The dots of two strings that a dash joins.                              *)

EndsIn(h, x, l) ==
  /\ l \in String /\ Dot \notin Chars(l) /\ x \in Seq(String)
  /\ Cut(h, {Dot}) = x \o <<l>>
  /\ \/ h = l /\ x = <<>>
     \/ \E k \in String : h = k \o (<<Dot>> \o l) /\ Cut(k, {Dot}) = x

StartsWith(q, b, y) ==
  /\ b \in String /\ Dot \notin Chars(b) /\ y \in Seq(String)
  /\ Cut(q, {Dot}) = <<b>> \o y
  /\ \/ q = b /\ y = <<>>
     \/ \E k \in String : q = b \o (<<Dot>> \o k) /\ Cut(k, {Dot}) = y

(* The characters of s, where c stands between p and q.                    *)
Surrounds(p, c, q, s) ==
  /\ s \in String
  /\ Len(s) = Len(p) + 1 + Len(q)
  /\ \A i \in 1..Len(p) : s[i] = p[i]
  /\ s[Len(p) + 1] = c
  /\ \A i \in 1..Len(q) : s[Len(p) + 1 + i] = q[i]

LEMMA AroundIs ==
  ASSUME NEW p \in String, NEW q \in String, NEW c \in Char
  PROVE  Surrounds(p, c, q, p \o (<<c>> \o q))
BY Around DEF Surrounds

LEMMA JoinNothing ==
  ASSUME NEW p \in String
  PROVE  <<p>> \o <<>> = <<p>> /\ <<>> \o <<p>> = <<p>>
<1> DEFINE x == <<p>>
<1>1. x \in Seq(String)
  OBVIOUS
<1> HIDE DEF x
<1>2. x \o <<>> = x /\ <<>> \o x = x
  BY <1>1
<1>3. QED
  BY <1>2 DEF x

LEMMA FirstDot ==
  ASSUME NEW q \in String
  PROVE  \E b, y : StartsWith(q, b, y)
<1> DEFINE C == {Dot}
<1>1. CASE ~Found(q, C)
  <2>1. Chars(q) \cap C = {}
    BY <1>1, NotFound
  <2>2. Cut(q, C) = <<q>>
    <3> HIDE DEF C
    <3>1. QED
      BY <2>1, CutNone
  <2>3. StartsWith(q, q, <<>>)
    BY <2>1, <2>2, JoinNothing DEF StartsWith
  <2>4. QED
    BY <2>3
<1>2. CASE Found(q, C)
  <2> DEFINE b == Before(q, C)
             k == After(q, C)
             y == Cut(k, C)
  <2>1. b \in String /\ k \in String /\ Chars(b) \cap C = {} /\ q[Find(q, C)] \in C
        /\ q = b \o (<<q[Find(q, C)]>> \o k)
    BY <1>2, FoundParts, CutsType
  <2>2. q = b \o (<<Dot>> \o k)
    <3>1. q[Find(q, C)] = Dot
      BY <2>1
    <3>2. QED
      BY <2>1, <3>1
  <2>3. Cut(q, C) = <<b>> \o y
    BY <1>2, CutHead
  <2>4. y \in Seq(String)
    <3> HIDE DEF C
    <3>1. QED
      BY <2>1, CutType
  <2> HIDE DEF b, k
  <2>5. StartsWith(q, b, y)
    BY <2>1, <2>2, <2>3, <2>4 DEF StartsWith
  <2>6. QED
    BY <2>5
<1>3. QED
  BY <1>1, <1>2

LEMMA LastDot ==
  ASSUME NEW h \in String
  PROVE  \E x, l : EndsIn(h, x, l)
<1> DEFINE C == {Dot}
           T == {n \in 1..Len(h) : h[n] = Dot}
<1>1. Len(h) \in Nat /\ DOMAIN h = 1..Len(h)
  BY Characters
<1>2. CASE T = {}
  <2>1. Chars(h) \cap C = {}
    BY <1>1, <1>2 DEF Chars
  <2>2. Cut(h, C) = <<h>>
    <3> HIDE DEF C
    <3>1. QED
      BY <2>1, CutNone
  <2>3. EndsIn(h, <<>>, h)
    BY <2>1, <2>2, JoinNothing DEF EndsIn
  <2>4. QED
    BY <2>3
<1>3. CASE T # {}
  <2>1. PICK n \in T : \A j \in T : j <= n
    <3> DEFINE S == {Len(h) - j : j \in T}
    <3>1. S \subseteq Nat /\ S # {}
      BY <1>1, <1>3
    <3> HIDE DEF S
    <3>2. PICK e \in S : \A f \in S : e <= f
      BY <3>1, LeastNatural
    <3>3. PICK n \in T : e = Len(h) - n
      BY <3>2 DEF S
    <3>4. ASSUME NEW j \in T
          PROVE  j <= n
      <4>1. Len(h) - j \in S
        BY DEF S
      <4>2. e <= Len(h) - j
        BY <3>2, <4>1
      <4>3. QED
        BY <1>1, <3>3, <4>2
    <3>5. QED
      BY <3>4
  <2>2. n \in 1..Len(h) /\ h[n] = Dot
    OBVIOUS
  <2> DEFINE k == SubSeq(h, 1, n - 1)
             l == Skip(h, n)
             s == k \o (<<Dot>> \o l)
             x == Cut(k, C)
  <2>3. k \in String /\ Len(k) = n - 1 /\ \A i \in 1..(n - 1) : k[i] = h[i]
    BY <1>1, <2>2 DEF String
  <2>4. l \in String /\ Len(l) = Len(h) - n /\ \A i \in 1..(Len(h) - n) : l[i] = h[n + i]
    <3>1. n \in Nat /\ n \in 0..Len(h)
      BY <1>1, <2>2
    <3>2. QED
      BY <3>1, SkipLength, SkipParts
  <2> HIDE DEF k, l
  <2>5. /\ s \in String /\ Len(s) = Len(k) + 1 + Len(l)
        /\ \A i \in 1..Len(k) : s[i] = k[i]
        /\ s[Len(k) + 1] = Dot
        /\ \A i \in 1..Len(l) : s[Len(k) + 1 + i] = l[i]
    <3>1. k \in String /\ l \in String /\ Dot \in Char
      BY <2>3, <2>4, CharacterFacts DEF Dot
    <3>2. s = k \o (<<Dot>> \o l)
      OBVIOUS
    <3> HIDE DEF s, x, C, T
    <3>3. Surrounds(k, Dot, l, s)
      BY <3>1, <3>2, AroundIs
    <3>4. QED
      BY <3>3 DEF Surrounds
  <2> HIDE DEF s
  <2>6. s = h
    <3>1. Len(s) = Len(h)
      BY <1>1, <2>2, <2>3, <2>4, <2>5
    <3>2. ASSUME NEW i \in DOMAIN s \cap DOMAIN h
          PROVE  s[i] = h[i]
      <4>1. i \in 1..Len(h)
        BY <1>1, <3>2
      <4>2. CASE i < n
        BY <2>2, <2>3, <2>5, <4>1, <4>2
      <4>3. CASE i = n
        BY <2>2, <2>3, <2>5, <4>3
      <4>4. CASE i > n
        <5>1. i - n \in 1..(Len(h) - n) /\ n + (i - n) = i
          BY <1>1, <2>2, <4>1, <4>4
        <5>2. l[i - n] = h[i]
          BY <2>4, <5>1
        <5>3. s[Len(k) + 1 + (i - n)] = l[i - n]
          BY <2>4, <2>5, <5>1
        <5>4. Len(k) + 1 + (i - n) = i
          BY <2>2, <2>3, <4>1
        <5>5. QED
          BY <5>2, <5>3, <5>4
      <4>5. QED
        BY <2>2, <4>1, <4>2, <4>3, <4>4
    <3>3. QED
      BY <2>5, <3>1, <3>2, NoDifference
  <2>7. Chars(l) \cap C = {}
    <3>1. DOMAIN l = 1..(Len(h) - n)
      BY <2>4, Characters
    <3>2. ASSUME NEW i \in DOMAIN l, l[i] = Dot
          PROVE  FALSE
      <4>1. n + i \in T
        BY <1>1, <2>2, <2>4, <3>1, <3>2
      <4>2. n + i <= n
        BY <2>1, <4>1
      <4>3. QED
        BY <1>1, <2>2, <3>1, <4>2
    <3>3. QED
      BY <3>2 DEF Chars
  <2>8. Cut(s, C) = x \o <<l>> /\ x \in Seq(String)
    <3>1. Dot \in C /\ Dot \in Char
      BY CharacterFacts
    <3> HIDE DEF C
    <3>2. Cut(k \o (<<Dot>> \o l), C) = Cut(k, C) \o Cut(l, C)
      BY <2>3, <2>4, <3>1, CutJoined
    <3>3. Cut(l, C) = <<l>>
      BY <2>4, <2>7, CutNone
    <3>4. x \in Seq(String)
      BY <2>3, CutType
    <3>5. QED
      BY <3>2, <3>3, <3>4 DEF s
  <2>9. EndsIn(h, x, l)
    BY <2>3, <2>4, <2>6, <2>7, <2>8 DEF EndsIn, s
  <2>10. QED
    BY <2>9
<1>4. QED
  BY <1>2, <1>3

(* The dash stands in the part that the last of h and the first of q make. *)
Crosses(h, q, x, l, b, y) ==
  /\ l \o (<<Dash>> \o b) \in String
  /\ Cut(h \o (<<Dash>> \o q), {Dot}) = (x \o <<l \o (<<Dash>> \o b)>>) \o y

LEMMA CutAcross ==
  ASSUME NEW h \in String, NEW q \in String, NEW x, NEW l, NEW b, NEW y,
         EndsIn(h, x, l), StartsWith(q, b, y)
  PROVE  Crosses(h, q, x, l, b, y)
<1> DEFINE C == {Dot}
           mid == l \o (<<Dash>> \o b)
           u == l \o (<<Dash>> \o q)
           s == h \o (<<Dash>> \o q)
<1>1. /\ l \in String /\ Dot \notin Chars(l) /\ x \in Seq(String)
      /\ b \in String /\ Dot \notin Chars(b) /\ y \in Seq(String)
  BY DEF EndsIn, StartsWith
<1>2. Dot \in Char /\ Dash \in Char /\ Dot # Dash
  BY DotsAreNoDigits
<1>3. mid \in String /\ u \in String
  <2>1. <<Dash>> \o b \in String /\ <<Dash>> \o q \in String
    BY <1>1, SignTypes, ConcatType
  <2>2. QED
    BY <1>1, <2>1, ConcatType
<1>4. Chars(mid) \cap C = {}
  <2>1. /\ Len(mid) = Len(l) + 1 + Len(b)
        /\ \A i \in 1..Len(l) : mid[i] = l[i]
        /\ mid[Len(l) + 1] = Dash
        /\ \A i \in 1..Len(b) : mid[Len(l) + 1 + i] = b[i]
    <3>1. l \in String /\ b \in String /\ Dash \in Char
      BY <1>1, <1>2
    <3>2. mid = l \o (<<Dash>> \o b)
      OBVIOUS
    <3> HIDE DEF mid
    <3>3. Surrounds(l, Dash, b, mid)
      BY <3>1, <3>2, AroundIs
    <3>4. QED
      BY <3>3 DEF Surrounds
  <2>2. /\ Len(l) \in Nat /\ DOMAIN l = 1..Len(l) /\ Len(b) \in Nat /\ DOMAIN b = 1..Len(b)
        /\ DOMAIN mid = 1..Len(mid)
    BY <1>1, <1>3, Characters
  <2> HIDE DEF mid
  <2>3. ASSUME NEW i \in DOMAIN mid, mid[i] = Dot
        PROVE  FALSE
    <3>1. \/ i \in 1..Len(l) \/ i = Len(l) + 1
          \/ i - (Len(l) + 1) \in 1..Len(b) /\ i = Len(l) + 1 + (i - (Len(l) + 1))
      BY <2>1, <2>2
    <3>2. QED
      BY <1>1, <1>2, <2>1, <2>2, <2>3, <3>1 DEF Chars
  <2>4. QED
    BY <2>3 DEF Chars
<1>5. Cut(u, C) = <<mid>> \o y
  <2>1. CASE q = b /\ y = <<>>
    <3>1. Cut(mid, C) = <<mid>>
      <4> HIDE DEF C, mid
      <4>1. QED
        BY <1>3, <1>4, CutNone
    <3>2. <<mid>> \o <<>> = <<mid>>
      BY <1>3, JoinNothing
    <3>3. QED
      BY <2>1, <3>1, <3>2
  <2>2. ASSUME NEW k \in String, q = b \o (<<Dot>> \o k), Cut(k, C) = y
        PROVE  Cut(u, C) = <<mid>> \o y
    <3>1. Rejoined(l, Dash, b, Dot, k)
      BY <1>1, <1>2, Between
    <3>2. u = mid \o (<<Dot>> \o k)
      BY <2>2, <3>1 DEF Rejoined
    <3>3. Dot \in C
      OBVIOUS
    <3> HIDE DEF C, mid
    <3>4. Cut(mid \o (<<Dot>> \o k), C) = <<mid>> \o Cut(k, C)
      BY <1>2, <1>3, <1>4, <3>3, CutFirst
    <3>5. QED
      BY <2>2, <3>2, <3>4
  <2>3. QED
    BY <2>1, <2>2 DEF StartsWith
<1>6. <<mid>> \in Seq(String)
  BY <1>3
<1>7. Cut(s, C) = (x \o <<mid>>) \o y
  <2>1. CASE h = l /\ x = <<>>
    <3>1. <<>> \o <<mid>> = <<mid>>
      BY <1>3, JoinNothing
    <3>2. QED
      BY <1>5, <2>1, <3>1
  <2>2. ASSUME NEW k \in String, h = k \o (<<Dot>> \o l), Cut(k, C) = x
        PROVE  Cut(s, C) = (x \o <<mid>>) \o y
    <3>1. Rejoined(k, Dot, l, Dash, q)
      BY <1>1, <1>2, Between
    <3>2. s = k \o (<<Dot>> \o u)
      BY <2>2, <3>1 DEF Rejoined
    <3>3. Dot \in C
      OBVIOUS
    <3> HIDE DEF C, u
    <3>4. Cut(k \o (<<Dot>> \o u), C) = Cut(k, C) \o Cut(u, C)
      BY <1>2, <1>3, <3>3, CutJoined
    <3> DEFINE z == <<mid>>
    <3> HIDE DEF mid, z
    <3>5. (x \o z) \o y = x \o (z \o y)
      BY <1>1, <1>6, JoinsAssociate DEF z
    <3>6. QED
      BY <1>5, <2>2, <3>2, <3>4, <3>5 DEF z
  <2>3. QED
    BY <2>1, <2>2 DEF EndsIn
<1>8. QED
  BY <1>3, <1>7 DEF Crosses

(* What stands behind a '-' is not read, if something stands in front.     *)
LEMMA NoMoreRead ==
  ASSUME NEW l \in String, NEW b \in String, l # <<>>, NEW w, ReadsLike(l, w)
  PROVE  Converts(l \o (<<Dash>> \o b), w)
<1> DEFINE u == <<Dash>> \o b
           v == l \o u
<1>1. u \in String /\ u[1] = Dash
  <2>1. <<Dash>> \in String
    BY SignTypes
  <2>2. u \in String
    BY <2>1, ConcatType
  <2>3. u[1] = Dash
    BY DotsAreNoDigits DEF String
  <2>4. QED
    BY <2>2, <2>3
<1>2. Leading(v) = Leading(l)
  <2>1. u \in String /\ (u # <<>> => u[1] \notin Digit)
    BY <1>1, DotsAreNoDigits
  <2> HIDE DEF u
  <2>2. QED
    BY <2>1, LeadingJoined
<1>3. v[1] = l[1]
  <2> HIDE DEF u
  <2>1. \A i \in 1..Len(l) : (l \o u)[i] = l[i]
    BY <1>1 DEF String
  <2>2. 1 \in 1..Len(l)
    BY DEF String
  <2>3. QED
    BY <2>1, <2>2
<1> HIDE DEF u, v
<1>4. (StoiFails(v) <=> StoiFails(l)) /\ Stoi(v) = Stoi(l)
  BY <1>2 DEF StoiFails, Stoi, FromCharsFails, FromChars
<1>5. ~HasSign(v)
  BY <1>3 DEF HasSign, ReadsLike
<1>6. Converts(v, w)
  BY <1>4, <1>5 DEF ReadsLike, Converts, SignedFails, Signed
<1>7. QED
  BY <1>6 DEF u, v

(* A '-' without a digit behind it is not read either.                     *)
LEMMA NoSignRead ==
  ASSUME NEW b \in String, b = <<>> \/ b[1] \notin Digit
  PROVE  Converts(<<>> \o (<<Dash>> \o b), EmptyPiece)
<1> DEFINE u == <<Dash>> \o b
<1>1. u \in String /\ u[1] = Dash /\ Tail(u) = b /\ <<>> \o u = u
  <2>1. <<Dash>> \in String
    BY SignTypes
  <2>2. u \in String
    BY <2>1, ConcatType
  <2>3. u[1] = Dash /\ Tail(u) = b
    BY DotsAreNoDigits DEF String
  <2>4. <<>> \o u = u
    <3> HIDE DEF u
    <3>1. QED
      BY <2>2 DEF String
  <2>5. QED
    BY <2>2, <2>3, <2>4
<1>2. u # <<>>
  BY DotsAreNoDigits DEF String
<1>3. Leading(b) = <<>>
  <2>1. CASE b = <<>>
    BY <2>1, EmptyValue, LeadingDigits
  <2>2. CASE b # <<>>
    BY <2>2, LeadingType
  <2>3. QED
    BY <2>1, <2>2
<1> HIDE DEF u
<1>4. SignedFails(u)
  BY <1>1, <1>2, <1>3 DEF SignedFails, HasSign
<1>5. ~FitsInt(EmptyPiece)
  BY DEF FitsInt, IsNum, EmptyPiece, Word
<1>6. QED
  BY <1>1, <1>4, <1>5 DEF Converts, u

(* What is dropped from the end of y is dropped from the end of z \o y.    *)
LEMMA DroppedBehind ==
  ASSUME NEW z \in Seq(String), NEW y \in Seq(String), y # <<>>
  PROVE  DropEmptyEnd(z \o y) = z \o DropEmptyEnd(y)
<1> DEFINE m == Len(z)
           n == Len(y)
<1>1. m \in Nat /\ n \in Nat \ {0} /\ Len(z \o y) = m + n /\ (z \o y)[m + n] = y[n]
  OBVIOUS
<1>2. Last(z \o y) = Last(y)
  BY <1>1 DEF Last
<1>3. SubSeq(z \o y, 1, (m + n) - 1) = z \o SubSeq(y, 1, n - 1)
  OBVIOUS
<1>4. Front(z \o y) = z \o Front(y)
  BY <1>1, <1>3 DEF Front
<1>5. QED
  BY <1>2, <1>4 DEF DropEmptyEnd

(* The dot that ends what q begins with is not its first character, or     *)
(* nothing stands in front of it.                                          *)
LEMMA FirstDotSign ==
  ASSUME NEW q \in String, NEW b, NEW y, StartsWith(q, b, y), q = <<>> \/ q[1] \notin Digit
  PROVE  b = <<>> \/ b[1] \notin Digit
<1>1. CASE q = b
  BY <1>1
<1>2. ASSUME NEW k \in String, q = b \o (<<Dot>> \o k), b # <<>>
      PROVE  b[1] \notin Digit
  <2>1. b \in String /\ Dot \in Char
    BY DotsAreNoDigits DEF StartsWith
  <2>2. Surrounds(b, Dot, k, q)
    BY <1>2, <2>1, AroundIs
  <2>3. 1 \in 1..Len(b) /\ Len(b) \in Nat /\ Len(k) \in Nat
    BY <1>2, <2>1 DEF String
  <2>4. q[1] = b[1] /\ Len(q) # 0
    BY <2>2, <2>3 DEF Surrounds
  <2>5. q # <<>>
    BY <2>4
  <2>6. QED
    BY <2>4, <2>5
<1>3. QED
  BY <1>1, <1>2 DEF StartsWith

LEMMA TildeRead ==
  ASSUME NEW s \in String, HasText(s), NoSign(s), NEW t, t = TextOf(s)
  PROVE  AllConverted(TildeParts(s), DotParts(t))
<1> DEFINE h == Before(s, {Dash})
           q == After(s, {Dash})
           C == {Dot}
<1>1. Halves(s, t)
  BY TextHalves
<1>2. h \in String /\ q \in String
  BY CutsType
<1>3. Cut(h, C) = Parts(h) /\ Cut(h, C) # <<>> /\ AllRead(Cut(h, C), t.nums)
  <2>1. Cut(h, C) = Parts(h) /\ Spells(h, t.nums)
    BY <1>1 DEF Halves
  <2> HIDE DEF h
  <2>2. Cut(h, C) # <<>>
    BY <1>2, CutType
  <2>3. AllRead(Parts(h), t.nums)
    BY <2>1, PartsRead
  <2>4. QED
    BY <2>1, <2>2, <2>3
<1>4. CASE ~Found(s, {Dash})
  <2>1. h = s /\ t.pre = <<>>
    BY <1>1, <1>4, NotFound DEF Halves
  <2>2. AllRead(DropEmptyEnd(Cut(h, C)), DropTrailingEmpty(t.nums))
    <3> HIDE DEF h, C
    <3>1. QED
      BY <1>3, DroppedRead
  <2>3. AllRead(TildeParts(s), DotParts(t))
    BY <2>1, <2>2 DEF TildeParts, DotParts
  <2>4. QED
    BY <2>3, AllReadConverts
<1>5. CASE Found(s, {Dash})
  <2>1. Spells(q, t.pre) /\ Cut(q, C) = Parts(q)
    <3>1. Spells(q, t.pre)
      BY <1>1, <1>5 DEF Halves
    <3> HIDE DEF q, C
    <3>2. Dash \notin Chars(q)
      BY <3>1 DEF Spells, Section
    <3>3. QED
      BY <1>2, <3>1, <3>2, CutAtDots DEF C
  <2>2. s = h \o (<<Dash>> \o q)
    <3>1. s[Find(s, {Dash})] \in {Dash} /\ s = h \o (<<s[Find(s, {Dash})]>> \o q)
      BY <1>5, FoundParts
    <3>2. s[Find(s, {Dash})] = Dash
      BY <3>1
    <3>3. QED
      BY <3>1, <3>2
  <2>3. Last(Cut(h, C)) = <<>> => q = <<>> \/ q[1] \notin Digit
    BY <1>5 DEF NoSign
  <2> HIDE DEF h, q
  <2>4. PICK x, l : EndsIn(h, x, l)
    BY <1>2, LastDot
  <2>5. PICK b, y : StartsWith(q, b, y)
    BY <1>2, FirstDot
  <2>6. /\ l \in String /\ x \in Seq(String) /\ Cut(h, C) = x \o <<l>>
        /\ b \in String /\ y \in Seq(String) /\ Cut(q, C) = <<b>> \o y
    BY <2>4, <2>5 DEF EndsIn, StartsWith
  <2> DEFINE v == l \o (<<Dash>> \o b)
             z == x \o <<v>>
  <2>7. v \in String /\ Cut(s, C) = z \o y
    <3>1. Crosses(h, q, x, l, b, y)
      BY <1>2, <2>4, <2>5, CutAcross
    <3>2. QED
      BY <2>2, <3>1 DEF Crosses
  <2>8. Last(Cut(h, C)) = l /\ ReadsLike(l, t.nums[Len(t.nums)])
    <3>1. /\ Len(x \o <<l>>) = Len(x) + 1 /\ Len(x) \in Nat /\ (x \o <<l>>)[Len(x) + 1] = l
      BY <2>6
    <3>2. Last(x \o <<l>>) = l
      BY <3>1 DEF Last
    <3>3. AllRead(x \o <<l>>, t.nums)
      BY <1>3, <2>6
    <3>4. Len(t.nums) = Len(x) + 1
      BY <3>1, <3>3 DEF AllRead
    <3>5. Len(t.nums) \in 1..Len(t.nums)
      BY <3>1, <3>4
    <3>6. ReadsLike((x \o <<l>>)[Len(t.nums)], t.nums[Len(t.nums)])
      BY <3>3, <3>5 DEF AllRead
    <3>7. QED
      BY <2>6, <3>1, <3>2, <3>4, <3>6
  <2>9. AllConverted(z, t.nums)
    <3>1. AllRead(x \o <<l>>, t.nums)
      BY <1>3, <2>6
    <3>2. Converts(v, t.nums[Len(t.nums)])
      <4>1. CASE l # <<>>
        BY <2>6, <2>8, <4>1, NoMoreRead
      <4>2. CASE l = <<>>
        <5>1. t.nums[Len(t.nums)] = EmptyPiece
          BY <2>8, <4>2 DEF ReadsLike
        <5>2. b = <<>> \/ b[1] \notin Digit
          BY <1>2, <2>3, <2>5, <2>8, <4>2, FirstDotSign
        <5>3. Converts(<<>> \o (<<Dash>> \o b), EmptyPiece)
          BY <2>6, <5>2, NoSignRead
        <5>4. QED
          BY <4>2, <5>1, <5>3
      <4>3. QED
        BY <4>1, <4>2
    <3> HIDE DEF v
    <3>3. QED
      BY <2>6, <2>7, <3>1, <3>2, LastRead
  <2>10. AllRead(y, Tail(t.pre)) /\ t.pre # <<>>
    <3>1. AllRead(<<b>> \o y, t.pre)
      BY <2>1, <2>6, PartsRead
    <3>2. QED
      BY <2>6, <3>1, TailRead
  <2>11. v # <<>> /\ z \in Seq(String) /\ Len(z) \in Nat \ {0} /\ Last(z) = v
    <3>1. v # <<>>
      <4>1. Surrounds(l, Dash, b, v)
        BY <2>6, AroundIs, DotsAreNoDigits
      <4>2. Len(l) \in Nat /\ Len(b) \in Nat
        BY <2>6 DEF String
      <4> HIDE DEF v
      <4>3. Len(v) # 0
        BY <4>1, <4>2 DEF Surrounds
      <4>4. QED
        BY <4>3
    <3> HIDE DEF v
    <3>2. z \in Seq(String) /\ Len(z) = Len(x) + 1 /\ Len(x) \in Nat /\ z[Len(x) + 1] = v
      BY <2>6, <2>7
    <3>3. QED
      BY <3>1, <3>2 DEF Last
  <2> HIDE DEF v, z
  <2>12. AllConverted(DropEmptyEnd(z \o y), t.nums \o DropTrailingEmpty(Tail(t.pre)))
    <3>1. CASE y = <<>>
      <4>1. DropEmptyEnd(z \o y) = z
        BY <2>6, <2>11, <3>1 DEF DropEmptyEnd
      <4>2. t.nums \in Seq(Piece) /\ Tail(t.pre) = <<>>
        BY <1>3, <2>10, <3>1 DEF AllRead
      <4>3. t.nums \o DropTrailingEmpty(Tail(t.pre)) = t.nums
        <5>1. DropTrailingEmpty(Tail(t.pre)) = <<>>
          BY <4>2 DEF DropTrailingEmpty
        <5>2. \A m \in Seq(Piece) : m \o <<>> = m
          OBVIOUS
        <5>3. QED
          BY <4>2, <5>1, <5>2
      <4>4. QED
        BY <2>9, <4>1, <4>3
    <3>2. CASE y # <<>>
      <4>1. AllConverted(DropEmptyEnd(y), DropTrailingEmpty(Tail(t.pre)))
        BY <2>10, <3>2, DroppedRead, AllReadConverts
      <4>2. DropEmptyEnd(z \o y) = z \o DropEmptyEnd(y)
        BY <2>6, <2>11, <3>2, DroppedBehind
      <4>3. QED
        BY <2>9, <4>1, <4>2, JoinedRead
    <3>3. QED
      BY <3>1, <3>2
  <2>13. QED
    BY <2>7, <2>10, <2>12 DEF TildeParts, DotParts
<1>6. QED
  BY <1>4, <1>5

LEMMA TildeBound ==
  ASSUME NEW s \in String, HasText(s), NoSign(s), NEW t, t = TextOf(s)
  PROVE  /\ TildeStringThrows(s) <=> TildeThrows(t)
         /\ (CanCoerce(s) /\ ~TildeThrows(t) /\ Len(TildeParts(s)) < 2) <=> TildeReadsPastEnd(t)
         /\ ~TildeThrows(t) /\ ~TildeReadsPastEnd(t) =>
              TextOf(TildeString(s)) = ComputeTildeUpperBound(t)
<1> DEFINE c == TildeParts(s)
           m == DotParts(t)
<1>1. AllConverted(c, m)
  BY TildeRead
<1>2. /\ CanCoerce(s) <=> Match(t) # <<>>
      /\ CanCoerce(s) => (CoerceStringThrows(s) <=> CoerceThrows(t))
  BY CoerceReads
<1> HIDE DEF c, m
<1>3. Len(c) = Len(m) /\ Len(m) \in Nat /\ DOMAIN c = 1..Len(m) /\ DOMAIN m = 1..Len(m)
  BY <1>1 DEF AllConverted
<1>4. (\E i \in DOMAIN c : i <= 2 /\ SignedFails(c[i])) <=> \E i \in DOMAIN m : i <= 2 /\ ~FitsInt(m[i])
  BY <1>1, <1>3 DEF AllConverted, Converts
<1>5. TildeStringThrows(s) <=> TildeThrows(t)
  BY <1>2, <1>4 DEF TildeStringThrows, TildeThrows, c, m
<1>6. (CanCoerce(s) /\ ~TildeThrows(t) /\ Len(c) < 2) <=> TildeReadsPastEnd(t)
  BY <1>2, <1>3 DEF TildeReadsPastEnd, m
<1>7. ASSUME ~TildeThrows(t), ~TildeReadsPastEnd(t)
      PROVE  TextOf(TildeString(s)) = ComputeTildeUpperBound(t)
  <2>1. CASE ~CanCoerce(s)
    BY <1>2, <2>1, EmptyTextOf DEF TildeString, ComputeTildeUpperBound, HasTextOf
  <2>2. CASE CanCoerce(s)
    <3>1. ~(Len(m) < 2)
      BY <1>2, <1>7, <2>2 DEF TildeReadsPastEnd, m
    <3>2. 1 \in 1..Len(m) /\ 2 \in 1..Len(m)
      BY <1>3, <3>1
    <3>3. FitsInt(m[1]) /\ FitsInt(m[2])
      BY <1>2, <1>3, <1>7, <2>2, <3>2 DEF TildeThrows, m
    <3>4. Converts(c[1], m[1]) /\ Converts(c[2], m[2]) /\ m[1] \in Piece /\ m[2] \in Piece
      BY <1>1, <3>2 DEF AllConverted
    <3>5. /\ m[1].val = Signed(c[1]) /\ m[2].val = Signed(c[2])
          /\ Signed(c[1]) \in Nat /\ Signed(c[2]) \in 0..IntMax
      <4>1. \A w \in Piece : FitsInt(w) => w.val \in 0..IntMax
        BY DEF FitsInt, IsNum, Piece, Numeral, Tag
      <4>2. QED
        BY <3>3, <3>4, <4>1 DEF Converts
    <3>6. Plus1(Signed(c[2])) \in Int
      BY <3>5, Plus1Type
    <3>7. HasTextOf(DottedString(Signed(c[1]), Plus1(Signed(c[2])), 0), Dotted(m[1].val, Plus1(m[2].val), 0))
      BY <3>5, <3>6, DottedText
    <3>8. QED
      BY <1>2, <2>2, <3>7 DEF TildeString, ComputeTildeUpperBound, HasTextOf, c, m
  <2>3. QED
    BY <2>1, <2>2
<1>8. QED
  BY <1>5, <1>6, <1>7 DEF c

LEMMA BoundsStep == Along => BoundsOnPieces
<1>1. SUFFICES ASSUME Along, NoSign(string)
               PROVE  /\ CaretStringThrows(string) <=> CaretThrows(text)
                      /\ ~CaretThrows(text) => TextOf(CaretString(string)) = ComputeCaretUpperBound(text)
                      /\ TildeStringThrows(string) <=> TildeThrows(text)
                      /\ (CanCoerce(string) /\ ~TildeThrows(text) /\ Len(TildeParts(string)) < 2)
                           <=> TildeReadsPastEnd(text)
                      /\ ~TildeThrows(text) /\ ~TildeReadsPastEnd(text) =>
                           TextOf(TildeString(string)) = ComputeTildeUpperBound(text)
  BY DEF BoundsOnPieces
<1>2. string \in String /\ HasText(string) /\ text = TextOf(string)
  BY <1>1 DEF Along, HasTextOf
<1>3. CaretStringThrows(string) <=> CaretThrows(text)
  BY <1>2, CoerceReads
<1>4. TextOf(CaretString(string)) = ComputeCaretUpperBound(text)
  BY <1>2, CaretReturns DEF HasTextOf
<1>5. QED
  BY <1>1, <1>2, <1>3, <1>4, TildeBound

(* The bounds of "^" and "~" that the code computes from a string are      *)
(* those that the model computes from its pieces, overflow, exceptions and *)
(* reads past the end of the parts included.                               *)
THEOREM BoundsOnPiecesCorrect == StringSpec => []BoundsOnPieces
<1>1. StringInit => Along
  BY AlongInit
<1>2. Along /\ [StringNext]_stringVars => Along'
  BY AlongStep
<1>3. Along => BoundsOnPieces
  BY BoundsStep
<1>4. QED
  BY <1>1, <1>2, <1>3, PTL DEF StringSpec
=============================================================================
