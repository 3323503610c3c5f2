--------------------------- MODULE OrderingProofs ---------------------------
(***************************************************************************)
(* operator<=> is a total order on versions, up to their build metadata,   *)
(* whatever strings they are made of.  compareSemVer is a strict weak      *)
(* order on strings, the one that it is on their pieces.  The two agree on *)
(* numbers and oppose each other on a release and its pre-releases.        *)
(***************************************************************************)
EXTENDS TwoOrders, VersionTextProofs

-----------------------------------------------------------------------------
(* The list of versions.                                                   *)

ListInv == first \in Version /\ second \in Version

LEMMA ListInvariant ==
  Spec => []ListInv
<1>1. Init => ListInv
  BY VersionsAssumption DEF Init, ListInv
<1>2. ListInv /\ [Next]_vars => ListInv'
  BY VersionsAssumption DEF ListInv, Next, Advance, vars
<1>3. QED
  BY <1>1, <1>2, PTL DEF Spec

(* For versions whose numbers have no leading zeros the order is that of   *)
(* the numbers' values, and among versions with the same numbers a release *)
(* comes last: no string of digits, however long, is compared by anything  *)
(* but its value.                                                          *)
THEOREM NumbersCorrect == Spec => []NumbersDecide
<1>1. ASSUME ListInv, HasNumbers(first), HasNumbers(second)
      PROVE  /\ NumbersBefore(Numeric(first), Numeric(second)) => Compare(first, second) = "less"
             /\ Compare(first, second) = "less" /\ Numeric(first) = Numeric(second) => first.pre # <<>>
  <2> DEFINE v == first
             w == second
  <2>1. /\ v.major \in String /\ v.minor \in String /\ v.patch \in String /\ v.pre \in String
        /\ w.major \in String /\ w.minor \in String /\ w.patch \in String /\ w.pre \in String
    BY <1>1 DEF ListInv, Version
  <2>2. /\ NumberCompare(v.major, w.major) = "less" <=> Value(v.major) < Value(w.major)
        /\ Value(v.major) = Value(w.major) => v.major = w.major
    BY <1>1, <2>1, NumberCompareValues DEF HasNumbers
  <2>3. /\ NumberCompare(v.minor, w.minor) = "less" <=> Value(v.minor) < Value(w.minor)
        /\ Value(v.minor) = Value(w.minor) => v.minor = w.minor
    BY <1>1, <2>1, NumberCompareValues DEF HasNumbers
  <2>4. /\ NumberCompare(v.patch, w.patch) = "less" <=> Value(v.patch) < Value(w.patch)
        /\ Value(v.patch) = Value(w.patch) => v.patch = w.patch
    BY <1>1, <2>1, NumberCompareValues DEF HasNumbers
  <2>5. \A f \in {"major", "minor", "patch"} : Value(v[f]) \in Nat /\ Value(w[f]) \in Nat
    BY <1>1, <2>1, ValueType DEF HasNumbers, IsNumber
  <2>6. NumbersBefore(Numeric(v), Numeric(w)) =>
          \/ Value(v.major) < Value(w.major)
          \/ Value(v.major) = Value(w.major) /\ Value(v.minor) < Value(w.minor)
          \/ /\ Value(v.major) = Value(w.major) /\ Value(v.minor) = Value(w.minor)
             /\ Value(v.patch) < Value(w.patch)
    BY DEF NumbersBefore, Numeric
  <2>7. NumbersBefore(Numeric(v), Numeric(w)) => Compare(v, w) = "less"
    BY <2>2, <2>3, <2>4, <2>5, <2>6 DEF Compare
  <2>8. Compare(v, w) = "less" /\ Numeric(v) = Numeric(w) => v.pre # <<>>
    <3>1. SUFFICES ASSUME Compare(v, w) = "less", Numeric(v) = Numeric(w)
                   PROVE  v.pre # <<>>
      OBVIOUS
    <3>2. v.major = w.major /\ v.minor = w.minor /\ v.patch = w.patch
      BY <2>2, <2>3, <2>4, <3>1 DEF Numeric
    <3>3. PreCompare(v.pre, w.pre) = "less"
      BY <3>1, <3>2 DEF Compare
    <3>4. QED
      BY <2>1, <3>3, PreCases
  <2>9. QED
    BY <2>7, <2>8
<1>2. ListInv => NumbersDecide
  BY <1>1 DEF NumbersDecide
<1>3. QED
  BY <1>2, ListInvariant, PTL

(* Swapping the operands of operator<=> swaps its answer, for any two      *)
(* versions.                                                               *)
THEOREM AntisymmetricCorrect == Spec => []Antisymmetric
<1>1. ListInv => Antisymmetric
  BY CompareOrder DEF ListInv, Antisymmetric
<1>2. QED
  BY <1>1, ListInvariant, PTL

(* operator<=> calls two versions equal when they differ in their build at *)
(* most, and only then.                                                    *)
THEOREM EqualityCorrect == Spec => []EqualButForBuild
<1>1. ASSUME ListInv
      PROVE  EqualButForBuild
  <2>1. Compare(first, second) = "equal" <=>
          /\ first.major = second.major /\ first.minor = second.minor
          /\ first.patch = second.patch /\ first.pre = second.pre
    BY <1>1, CompareOrder DEF ListInv
  <2>2. \A v \in Version :
          [v EXCEPT !.build = <<>>] =
            [major |-> v.major, minor |-> v.minor, patch |-> v.patch, pre |-> v.pre, build |-> <<>>]
    BY DEF Version
  <2>3. QED
    BY <1>1, <2>1, <2>2 DEF ListInv, EqualButForBuild
<1>2. QED
  BY <1>1, ListInvariant, PTL

(* operator<=> orders every three versions in a row: "before" is           *)
(* transitive, and equal versions compare alike with any third.            *)
THEOREM TransitiveCorrect == Spec => Transitive
<1> DEFINE Ordered ==
      /\ Less(first, second) /\ Less(second, second') => Less(first, second')
      /\ Compare(first, second) = "equal" => Compare(first, second') = Compare(second, second')
<1>1. ASSUME ListInv, ListInv', [Next]_vars
      PROVE  [Ordered]_vars
  <2>1. first \in Version /\ second \in Version /\ second' \in Version
    BY <1>1 DEF ListInv
  <2>2. Ordered
    BY <2>1, LessTransitive, CompareIgnoresBuild
  <2>3. QED
    BY <2>2
<1> HIDE DEF Ordered
<1>2. Spec => [][Ordered]_vars
  BY <1>1, ListInvariant, PTL DEF Spec
<1>3. QED
  BY <1>2 DEF Ordered, Transitive

-----------------------------------------------------------------------------
(* The parts that compareSemVer compares: the empty part and those that    *)
(* begin with a character before the digits, then numbers by value, then   *)
(* tags.                                                                   *)

LEMMA TagFirst ==
  ASSUME NEW a \in String, NEW b \in String
  PROVE  /\ b # <<>> /\ (a = <<>> \/ a[1] < b[1]) => TagCompare(a, b) = "less"
         /\ TagCompare(a, b) = "less" => b # <<>> /\ (a = <<>> \/ a[1] <= b[1])
<1>1. ASSUME NEW s \in String, NEW t \in String, t # <<>>, s = <<>> \/ s[1] < t[1]
      PROVE  TagCompare(s, t) = "less"
  <2>1. /\ Len(s) \in Nat /\ Len(t) \in Nat /\ DOMAIN s = 1..Len(s) /\ DOMAIN t = 1..Len(t)
        /\ 1 \in DOMAIN t
    BY <1>1, Characters
  <2>2. CASE s = <<>>
    <3>1. LoopCompare(s, t) = "equal" /\ SizeCompare(s, t) = "less"
      BY <2>1, <2>2, LoopCases, SizeCases
    <3>2. QED
      BY <3>1 DEF TagCompare
  <2>3. CASE s # <<>>
    <3>1. 1 \in DOMAIN s /\ s[1] \in Int /\ t[1] \in Int /\ s[1] < t[1]
      BY <1>1, <2>1, <2>3, Characters
    <3>2. DiffersAt(s, t, 1)
      BY <2>1, <3>1 DEF DiffersAt
    <3>3. LoopCompare(s, t) = "less"
      BY <3>1, <3>2, LoopCases
    <3>4. QED
      BY <3>3 DEF TagCompare
  <2>4. QED
    BY <2>2, <2>3
<1>2. ASSUME TagCompare(a, b) = "less"
      PROVE  b # <<>> /\ (a = <<>> \/ a[1] <= b[1])
  <2>1. TagCompare(b, a) = "greater" /\ a # b
    <3>1. TagCompare(b, a) = Swapped["less"] /\ TagCompare(a, b) # "equal"
      BY <1>2, TagCompareOrder
    <3>2. QED
      BY <3>1, TagCompareOrder DEF Swapped
  <2>2. b # <<>>
    BY <1>1, <2>1
  <2>3. ASSUME a # <<>>
        PROVE  a[1] <= b[1]
    <3>1. a[1] \in Int /\ b[1] \in Int
      BY <2>2, <2>3, Characters
    <3>2. ~(b[1] < a[1])
      BY <1>1, <2>1, <2>3
    <3>3. QED
      BY <3>1, <3>2
  <2>4. QED
    BY <2>2, <2>3
<1>3. QED
  BY <1>1, <1>2

(* Where a part that begins with a digit stands against one that does not. *)
LEMMA DigitFirstAgainst ==
  ASSUME NEW a \in String, NEW b \in String, IsDigitFirst(a), ~IsDigitFirst(b)
  PROVE  /\ TagCompare(a, b) = "less" <=> b # <<>> /\ b[1] >= Base
         /\ TagCompare(b, a) = "less" <=> b = <<>> \/ b[1] < 0
<1>1. a # <<>> /\ a[1] \in Nat /\ a[1] < Base
  BY BaseAssumption DEF IsDigitFirst, Digit
<1>2. b # <<>> => b[1] \in Int /\ (b[1] < 0 \/ b[1] >= Base)
  BY BaseAssumption, Characters DEF IsDigitFirst, Digit
<1>3. QED
  BY <1>1, <1>2, BaseAssumption, TagFirst

LEMMA StoiType ==
  ASSUME NEW a \in String
  PROVE  Stoi(a) \in Nat
BY LeadingDigits, ValueType DEF Stoi, FromChars

LEMMA StringPartLessIrreflexive ==
  ASSUME NEW a \in String
  PROVE  ~StringPartLess(a, a)
BY StoiType, TagCompareOrder DEF StringPartLess

LEMMA StringPartLessTransitive ==
  ASSUME NEW a \in String, NEW b \in String, NEW c \in String,
         StringPartLess(a, b), StringPartLess(b, c)
  PROVE  StringPartLess(a, c)
<1>1. Stoi(a) \in Nat /\ Stoi(b) \in Nat /\ Stoi(c) \in Nat
  BY StoiType
<1>2. CASE IsDigitFirst(a) /\ IsDigitFirst(b) /\ IsDigitFirst(c)
  BY <1>1, <1>2 DEF StringPartLess
<1>3. CASE IsDigitFirst(a) /\ IsDigitFirst(b) /\ ~IsDigitFirst(c)
  BY <1>3, DigitFirstAgainst DEF StringPartLess
<1>4. CASE ~IsDigitFirst(a) /\ IsDigitFirst(b) /\ IsDigitFirst(c)
  BY <1>4, DigitFirstAgainst DEF StringPartLess
<1>5. CASE IsDigitFirst(a) /\ ~IsDigitFirst(b) /\ IsDigitFirst(c)
  <2>1. b # <<>> /\ b[1] >= Base /\ (b = <<>> \/ b[1] < 0)
    BY <1>5, DigitFirstAgainst DEF StringPartLess
  <2>2. b[1] \in Int
    BY <2>1, Characters
  <2>3. QED
    BY <2>1, <2>2, BaseAssumption
<1>6. CASE /\ ~(IsDigitFirst(a) /\ IsDigitFirst(b))
           /\ ~(IsDigitFirst(b) /\ IsDigitFirst(c))
           /\ ~(IsDigitFirst(a) /\ IsDigitFirst(c))
  BY <1>6, TagCompareTransitive DEF StringPartLess
<1>7. QED
  BY <1>2, <1>3, <1>4, <1>5, <1>6

(* Parts that compare equal are before and after the same parts, and of    *)
(* any two others one is before the other.                                 *)
LEMMA SameStringPartLess ==
  ASSUME NEW a \in String, NEW b \in String, NEW c \in String
  PROVE  /\ SameStringPart(a, b) /\ StringPartLess(b, c) => StringPartLess(a, c)
         /\ StringPartLess(a, b) /\ SameStringPart(b, c) => StringPartLess(a, c)
         /\ SameStringPart(a, b) /\ SameStringPart(b, c) => SameStringPart(a, c)
         /\ SameStringPart(a, b) => SameStringPart(b, a)
<1>1. ASSUME NEW s \in String, NEW t \in String, SameStringPart(s, t), s # t
      PROVE  IsDigitFirst(s) /\ IsDigitFirst(t) /\ Stoi(s) = Stoi(t)
  BY <1>1 DEF SameStringPart
<1>2. SameStringPart(a, b) /\ StringPartLess(b, c) => StringPartLess(a, c)
  BY <1>1, DigitFirstAgainst DEF StringPartLess
<1>3. StringPartLess(a, b) /\ SameStringPart(b, c) => StringPartLess(a, c)
  BY <1>1, DigitFirstAgainst DEF StringPartLess
<1>4. SameStringPart(a, b) /\ SameStringPart(b, c) => SameStringPart(a, c)
  BY DEF SameStringPart
<1>5. SameStringPart(a, b) => SameStringPart(b, a)
  BY DEF SameStringPart
<1>6. QED
  BY <1>2, <1>3, <1>4, <1>5

LEMMA StringPartTotal ==
  ASSUME NEW a \in String, NEW b \in String, ~SameStringPart(a, b)
  PROVE  StringPartLess(a, b) \/ StringPartLess(b, a)
<1>1. CASE IsDigitFirst(a) /\ IsDigitFirst(b)
  BY <1>1, StoiType DEF SameStringPart, StringPartLess
<1>2. CASE ~(IsDigitFirst(a) /\ IsDigitFirst(b))
  <2>1. a # b
    BY <1>2 DEF SameStringPart
  <2>2. TagCompare(a, b) # "equal" /\ TagCompare(a, b) \in {"less", "equal", "greater"}
        /\ TagCompare(b, a) = Swapped[TagCompare(a, b)]
    BY <2>1, TagCompareOrder
  <2>3. TagCompare(a, b) = "less" \/ TagCompare(b, a) = "less"
    BY <2>2 DEF Swapped
  <2>4. QED
    BY <1>2, <2>3 DEF StringPartLess
<1>3. QED
  BY <1>1, <1>2

-----------------------------------------------------------------------------
(* Lists of parts.                                                         *)

ReachesString(p, q, i) ==
  /\ i \in 1..Len(p) /\ i \in 1..Len(q)
  /\ \A j \in 1..(i - 1) : SameStringPart(p[j], q[j])

StringsLess(p, q) ==
  \/ \E i \in 1..Len(p) : ReachesString(p, q, i) /\ StringPartLess(p[i], q[i])
  \/ Len(p) < Len(q) /\ \A i \in 1..Len(p) : SameStringPart(p[i], q[i])

LEMMA StringsLessIrreflexive ==
  ASSUME NEW p \in Seq(String)
  PROVE  ~StringsLess(p, p)
<1>1. \A i \in 1..Len(p) : ~StringPartLess(p[i], p[i])
  BY StringPartLessIrreflexive
<1>2. QED
  BY <1>1 DEF StringsLess

LEMMA StringsLessTransitive ==
  ASSUME NEW p \in Seq(String), NEW q \in Seq(String), NEW r \in Seq(String),
         StringsLess(p, q), StringsLess(q, r)
  PROVE  StringsLess(p, r)
<1> DEFINE Prefix(a, b) == Len(a) < Len(b) /\ \A i \in 1..Len(a) : SameStringPart(a[i], b[i])
<1>0. \A k \in Nat : /\ k \in 1..Len(p) /\ k \in 1..Len(q) /\ k \in 1..Len(r)
                     /\ SameStringPart(p[k], q[k]) /\ SameStringPart(q[k], r[k])
                     => SameStringPart(p[k], r[k])
  BY SameStringPartLess
<1>1. CASE \E i \in 1..Len(p) : ReachesString(p, q, i) /\ StringPartLess(p[i], q[i])
  <2>1. PICK i \in 1..Len(p) : ReachesString(p, q, i) /\ StringPartLess(p[i], q[i])
    BY <1>1
  <2>2. CASE \E j \in 1..Len(q) : ReachesString(q, r, j) /\ StringPartLess(q[j], r[j])
    <3>1. PICK j \in 1..Len(q) : ReachesString(q, r, j) /\ StringPartLess(q[j], r[j])
      BY <2>2
    <3>2. CASE i < j
      <4>1. ReachesString(p, r, i)
        BY <2>1, <3>1, <3>2, <1>0 DEF ReachesString
      <4>2. StringPartLess(p[i], r[i])
        BY <2>1, <3>1, <3>2, SameStringPartLess DEF ReachesString
      <4>3. QED
        BY <4>1, <4>2 DEF StringsLess
    <3>3. CASE i = j
      <4>1. ReachesString(p, r, i)
        BY <2>1, <3>1, <3>3, <1>0 DEF ReachesString
      <4>2. StringPartLess(p[i], r[i])
        BY <2>1, <3>1, <3>3, StringPartLessTransitive DEF ReachesString
      <4>3. QED
        BY <4>1, <4>2 DEF StringsLess
    <3>4. CASE j < i
      <4>1. ReachesString(p, r, j)
        BY <2>1, <3>1, <3>4, <1>0 DEF ReachesString
      <4>2. StringPartLess(p[j], r[j])
        BY <2>1, <3>1, <3>4, SameStringPartLess DEF ReachesString
      <4>3. QED
        BY <4>1, <4>2 DEF StringsLess, ReachesString
    <3>5. QED
      BY <3>2, <3>3, <3>4
  <2>3. CASE Prefix(q, r)
    <3>1. ReachesString(p, r, i)
      BY <2>1, <2>3, <1>0 DEF ReachesString
    <3>2. StringPartLess(p[i], r[i])
      BY <2>1, <2>3, SameStringPartLess DEF ReachesString
    <3>3. QED
      BY <3>1, <3>2 DEF StringsLess
  <2>4. QED
    BY <2>2, <2>3 DEF StringsLess
<1>2. CASE Prefix(p, q)
  <2>1. CASE \E j \in 1..Len(q) : ReachesString(q, r, j) /\ StringPartLess(q[j], r[j])
    <3>1. PICK j \in 1..Len(q) : ReachesString(q, r, j) /\ StringPartLess(q[j], r[j])
      BY <2>1
    <3>2. CASE j <= Len(p)
      <4>1. ReachesString(p, r, j)
        BY <1>2, <3>1, <3>2, <1>0 DEF ReachesString
      <4>2. StringPartLess(p[j], r[j])
        BY <1>2, <3>1, <3>2, SameStringPartLess DEF ReachesString
      <4>3. QED
        BY <4>1, <4>2, <3>2 DEF StringsLess
    <3>3. CASE Len(p) < j
      <4>1. \A i \in 1..Len(p) : SameStringPart(p[i], r[i])
        BY <1>2, <3>1, <3>3, <1>0 DEF ReachesString
      <4>2. Len(p) < Len(r)
        BY <3>1, <3>3 DEF ReachesString
      <4>3. QED
        BY <4>1, <4>2 DEF StringsLess
    <3>4. QED
      BY <3>2, <3>3
  <2>2. CASE Prefix(q, r)
    <3>1. \A i \in 1..Len(p) : SameStringPart(p[i], r[i])
      BY <1>2, <2>2, <1>0
    <3>2. QED
      BY <1>2, <2>2, <3>1 DEF StringsLess
  <2>3. QED
    BY <2>1, <2>2 DEF StringsLess
<1>3. QED
  BY <1>1, <1>2 DEF StringsLess

LEMMA StringsLessTotal ==
  ASSUME NEW p \in Seq(String), NEW q \in Seq(String),
         ~StringsLess(p, q), ~StringsLess(q, p)
  PROVE  /\ Len(p) = Len(q)
         /\ \A i \in 1..Len(p) : SameStringPart(p[i], q[i])
<1> DEFINE T == {i \in Nat : i \in 1..Len(p) /\ i \in 1..Len(q) /\ ~SameStringPart(p[i], q[i])}
<1>1. CASE T = {}
  <2>1. \A i \in Nat : i \in 1..Len(p) /\ i \in 1..Len(q) =>
                         SameStringPart(p[i], q[i]) /\ SameStringPart(q[i], p[i])
    BY <1>1 DEF SameStringPart
  <2>2. ~(Len(p) < Len(q))
    BY <2>1 DEF StringsLess
  <2>3. ~(Len(q) < Len(p))
    BY <2>1 DEF StringsLess
  <2>4. QED
    BY <2>1, <2>2, <2>3
<1>2. CASE T # {}
  <2>1. PICK i \in T : \A j \in T : i <= j
    <3>1. T \subseteq Nat
      OBVIOUS
    <3> HIDE DEF T
    <3>2. QED
      BY <3>1, <1>2, LeastNatural
  <2>2. ReachesString(p, q, i) /\ ReachesString(q, p, i)
    <3>1. \A j \in 1..(i - 1) : SameStringPart(p[j], q[j])
      BY <2>1
    <3>2. QED
      BY <2>1, <3>1 DEF ReachesString, SameStringPart
  <2>3. StringPartLess(p[i], q[i]) \/ StringPartLess(q[i], p[i])
    <3>1. p[i] \in String /\ q[i] \in String /\ ~SameStringPart(p[i], q[i])
      BY <2>1
    <3>2. QED
      BY <3>1, StringPartTotal
  <2>4. QED
    BY <2>1, <2>2, <2>3 DEF StringsLess
<1>3. QED
  BY <1>1, <1>2

(* Lists neither of which is before the other compare alike with a third.  *)
LEMMA StringsLessTies ==
  ASSUME NEW p \in Seq(String), NEW q \in Seq(String), NEW r \in Seq(String),
         ~StringsLess(p, q), ~StringsLess(q, p)
  PROVE  StringsLess(p, r) <=> StringsLess(q, r)
<1>1. Len(p) = Len(q) /\ \A i \in 1..Len(p) : SameStringPart(p[i], q[i])
  BY StringsLessTotal
<1>2. \A i \in 1..Len(p) : /\ p[i] \in String /\ q[i] \in String
                           /\ SameStringPart(p[i], q[i]) /\ SameStringPart(q[i], p[i])
  BY <1>1, SameStringPartLess
<1>3. \A i \in Nat : i \in 1..Len(p) /\ i \in 1..Len(r) =>
        /\ SameStringPart(p[i], r[i]) <=> SameStringPart(q[i], r[i])
        /\ StringPartLess(p[i], r[i]) <=> StringPartLess(q[i], r[i])
  BY <1>2, SameStringPartLess
<1>4. \A i \in Nat : ReachesString(p, r, i) <=> ReachesString(q, r, i)
  BY <1>1, <1>3, SMTT(30) DEF ReachesString
<1>5. QED
  BY <1>1, <1>3, <1>4, SMTT(30) DEF StringsLess, ReachesString

-----------------------------------------------------------------------------
(* The exceptions: std::stoi throws on two parts that are compared as      *)
(* numbers, one of which is no int.                                        *)

FailsAt(p, q, i) ==
  /\ ReachesString(p, q, i)
  /\ IsDigitFirst(p[i]) /\ IsDigitFirst(q[i])
  /\ StoiFails(p[i]) \/ StoiFails(q[i])

StringsThrow(p, q) == \E i \in 1..Len(p) : FailsAt(p, q, i)

LEMMA ReachesSymmetric ==
  ASSUME NEW p \in Seq(String), NEW q \in Seq(String), NEW i \in Nat, ReachesString(p, q, i)
  PROVE  ReachesString(q, p, i)
<1>1. \A j \in 1..(i - 1) : p[j] \in String /\ q[j] \in String
  BY DEF ReachesString
<1>2. \A j \in 1..(i - 1) : SameStringPart(q[j], p[j])
  BY <1>1, SameStringPartLess DEF ReachesString
<1>3. QED
  BY <1>2 DEF ReachesString

LEMMA ThrowSymmetric ==
  ASSUME NEW p \in Seq(String), NEW q \in Seq(String), StringsThrow(p, q)
  PROVE  StringsThrow(q, p)
<1>1. PICK i \in 1..Len(p) : FailsAt(p, q, i)
  BY DEF StringsThrow
<1>2. i \in Nat /\ i \in 1..Len(q)
  BY <1>1 DEF FailsAt, ReachesString
<1>3. FailsAt(q, p, i)
  BY <1>1, <1>2, ReachesSymmetric DEF FailsAt
<1>4. QED
  BY <1>2, <1>3 DEF StringsThrow

(* Two parts that are the same as a third are the same, and so are two     *)
(* lists up to a place that both reach with a third.                       *)
LEMMA ReachesThrough ==
  ASSUME NEW p \in Seq(String), NEW q \in Seq(String), NEW r \in Seq(String), NEW i \in Nat,
         ReachesString(p, q, i), ReachesString(p, r, i)
  PROVE  ReachesString(q, r, i)
<1>1. \A j \in 1..(i - 1) : p[j] \in String /\ q[j] \in String /\ r[j] \in String
  BY DEF ReachesString
<1>2. \A j \in 1..(i - 1) : SameStringPart(q[j], p[j]) /\ SameStringPart(p[j], r[j])
  BY <1>1, SameStringPartLess DEF ReachesString
<1>3. \A j \in 1..(i - 1) : SameStringPart(q[j], r[j])
  BY <1>1, <1>2, SameStringPartLess
<1>4. QED
  BY <1>3 DEF ReachesString

(* Between two parts that both begin with a digit there is no other part.  *)
LEMMA DigitsBetween ==
  ASSUME NEW a \in String, NEW b \in String, NEW c \in String,
         IsDigitFirst(a), IsDigitFirst(c), ~StringPartLess(b, a), ~StringPartLess(c, b)
  PROVE  IsDigitFirst(b)
<1> SUFFICES ASSUME ~IsDigitFirst(b)
             PROVE  FALSE
  OBVIOUS
<1>1. ~(b = <<>> \/ b[1] < 0)
  BY DigitFirstAgainst DEF StringPartLess
<1>2. ~(b # <<>> /\ b[1] >= Base)
  BY DigitFirstAgainst DEF StringPartLess
<1>3. b # <<>> /\ 1 \in DOMAIN b
  BY <1>1, Characters
<1>4. b[1] \in Char /\ b[1] \notin Digit
  BY <1>3 DEF IsDigitFirst, String
<1>5. QED
  BY <1>1, <1>2, <1>3, <1>4, BaseAssumption DEF Char, Digit, Space, Tilde

(* A part that is compared between the first and the third of three lists  *)
(* in order is compared with one of the second.                            *)
LEMMA ReachBetween ==
  ASSUME NEW p \in Seq(String), NEW q \in Seq(String), NEW r \in Seq(String),
         StringsLess(p, q), StringsLess(q, r), NEW i \in 1..Len(p), ReachesString(p, r, i),
         IsDigitFirst(p[i]), IsDigitFirst(r[i])
  PROVE  ReachesString(p, q, i) /\ ReachesString(q, r, i) /\ IsDigitFirst(q[i])
<1>1. ~StringsLess(r, q) /\ ~StringsLess(q, p)
  BY StringsLessTransitive, StringsLessIrreflexive
<1>2. i \in Nat /\ i \in 1..Len(r)
  BY DEF ReachesString
<1>3. ReachesString(p, q, i)
  <2> SUFFICES ASSUME ~ReachesString(p, q, i)
               PROVE  FALSE
    OBVIOUS
  <2>1. PICK m \in 1..Len(p) : ReachesString(p, q, m) /\ StringPartLess(p[m], q[m])
    <3>1. ~(Len(p) < Len(q) /\ \A j \in 1..Len(p) : SameStringPart(p[j], q[j]))
      BY <1>2 DEF ReachesString
    <3>2. QED
      BY <3>1 DEF StringsLess
  <2>2. m < i
    BY <1>2, <2>1 DEF ReachesString
  <2>3. m \in Nat /\ m \in 1..Len(r) /\ m \in 1..Len(q) /\ m \in 1..(i - 1)
    BY <1>2, <2>1, <2>2 DEF ReachesString
  <2>4. ReachesString(p, r, m)
    BY <1>2, <2>2, <2>3 DEF ReachesString
  <2>5. ReachesString(r, q, m)
    BY <2>1, <2>3, <2>4, ReachesThrough
  <2>6. p[m] \in String /\ r[m] \in String /\ q[m] \in String
    BY <2>3, <2>1
  <2>7. SameStringPart(r[m], p[m])
    BY <2>3, <2>6, SameStringPartLess DEF ReachesString
  <2>8. StringPartLess(r[m], q[m])
    BY <2>1, <2>6, <2>7, SameStringPartLess
  <2>9. StringsLess(r, q)
    BY <2>3, <2>5, <2>8 DEF StringsLess
  <2>10. QED
    BY <1>1, <2>9
<1>4. ReachesString(q, r, i)
  BY <1>2, <1>3, ReachesThrough
<1>5. i \in 1..Len(q) /\ p[i] \in String /\ q[i] \in String /\ r[i] \in String
  BY <1>2, <1>3 DEF ReachesString
<1>6. ~StringPartLess(q[i], p[i])
  <2>1. ReachesString(q, p, i)
    BY <1>2, <1>3, ReachesSymmetric
  <2>2. QED
    BY <1>1, <1>5, <2>1 DEF StringsLess
<1>7. ~StringPartLess(r[i], q[i])
  <2>1. ReachesString(r, q, i)
    BY <1>2, <1>4, ReachesSymmetric
  <2>2. QED
    BY <1>1, <1>2, <2>1 DEF StringsLess
<1>8. IsDigitFirst(q[i])
  BY <1>5, <1>6, <1>7, DigitsBetween
<1>9. QED
  BY <1>3, <1>4, <1>8

(* So the comparison of the first with the third throws only where that of *)
(* the first with the second or of the second with the third does.         *)
LEMMA ThrowBetween ==
  ASSUME NEW p \in Seq(String), NEW q \in Seq(String), NEW r \in Seq(String),
         StringsLess(p, q), StringsLess(q, r), StringsThrow(p, r)
  PROVE  StringsThrow(p, q) \/ StringsThrow(q, r)
<1>1. PICK i \in 1..Len(p) : FailsAt(p, r, i)
  BY DEF StringsThrow
<1>2. ReachesString(p, q, i) /\ ReachesString(q, r, i) /\ IsDigitFirst(q[i])
  BY <1>1, ReachBetween DEF FailsAt
<1>3. FailsAt(p, q, i) \/ FailsAt(q, r, i)
  BY <1>1, <1>2 DEF FailsAt
<1>4. QED
  BY <1>2, <1>3 DEF StringsThrow, ReachesString

(* Two lists in no order, whose comparison does not throw, throw alike     *)
(* when compared with a third.                                             *)
LEMMA ThrowTies ==
  ASSUME NEW p \in Seq(String), NEW q \in Seq(String), NEW r \in Seq(String),
         ~StringsLess(p, q), ~StringsLess(q, p), ~StringsThrow(p, q), StringsThrow(p, r)
  PROVE  StringsThrow(q, r)
<1>1. PICK i \in 1..Len(p) : FailsAt(p, r, i)
  BY DEF StringsThrow
<1>2. Len(p) = Len(q) /\ \A j \in 1..Len(p) : SameStringPart(p[j], q[j])
  BY StringsLessTotal
<1>3. ReachesString(p, q, i)
  BY <1>2 DEF ReachesString
<1>4. ReachesString(q, r, i)
  BY <1>1, <1>3, ReachesThrough DEF FailsAt
<1>5. p[i] \in String /\ q[i] \in String /\ SameStringPart(p[i], q[i]) /\ IsDigitFirst(p[i])
  BY <1>1, <1>2 DEF FailsAt
<1>6. IsDigitFirst(q[i])
  BY <1>5 DEF SameStringPart
<1>7. ~StoiFails(p[i]) /\ ~StoiFails(q[i])
  BY <1>3, <1>5, <1>6 DEF StringsThrow, FailsAt
<1>8. FailsAt(q, r, i)
  BY <1>1, <1>4, <1>6, <1>7 DEF FailsAt
<1>9. QED
  BY <1>2, <1>8 DEF StringsThrow

-----------------------------------------------------------------------------
(* The comparison of strings is that of their parts.                       *)

LEMMA SplitStringType ==
  ASSUME NEW s \in String
  PROVE  SplitString(s) \in Seq(String)
<1> DEFINE c == Cut(s, {Dot, Dash})
<1>1. c \in Seq(String) /\ c # <<>>
  BY CutType
<1> HIDE DEF c
<1>2. DropEmptyEnd(c) \in Seq(String)
  BY <1>1 DEF DropEmptyEnd, Front
<1>3. QED
  BY <1>2 DEF SplitString, c

LEMMA CompareStringsIs ==
  ASSUME NEW a \in String, NEW b \in String
  PROVE  CompareStrings(a, b) <=> StringsLess(SplitString(a), SplitString(b))
<1> DEFINE p == SplitString(a)
           q == SplitString(b)
<1>1. p \in Seq(String) /\ q \in Seq(String)
  BY SplitStringType
<1>2. CompareStrings(a, b) <=>
        \/ \E i \in DOMAIN p : /\ i \in DOMAIN q
                               /\ \A j \in 1..(i - 1) : SameStringPart(p[j], q[j])
                               /\ StringPartLess(p[i], q[i])
        \/ Len(p) < Len(q) /\ \A j \in 1..Len(p) : SameStringPart(p[j], q[j])
  BY DEF CompareStrings
<1> HIDE DEF p, q
<1>3. DOMAIN p = 1..Len(p) /\ DOMAIN q = 1..Len(q)
  BY <1>1
<1>4. CompareStrings(a, b) <=> StringsLess(p, q)
  BY <1>2, <1>3 DEF StringsLess, ReachesString
<1>5. QED
  BY <1>4 DEF p, q

LEMMA StringsThrowIs ==
  ASSUME NEW a \in String, NEW b \in String
  PROVE  CompareStringsThrows(a, b) <=> StringsThrow(SplitString(a), SplitString(b))
<1> DEFINE p == SplitString(a)
           q == SplitString(b)
<1>1. p \in Seq(String) /\ q \in Seq(String)
  BY SplitStringType
<1>2. CompareStringsThrows(a, b) <=>
        \E i \in DOMAIN p : /\ i \in DOMAIN q
                            /\ \A j \in 1..(i - 1) : SameStringPart(p[j], q[j])
                            /\ IsDigitFirst(p[i]) /\ IsDigitFirst(q[i])
                            /\ StoiFails(p[i]) \/ StoiFails(q[i])
  BY DEF CompareStringsThrows
<1> HIDE DEF p, q
<1>3. DOMAIN p = 1..Len(p) /\ DOMAIN q = 1..Len(q)
  BY <1>1
<1>4. CompareStringsThrows(a, b) <=> StringsThrow(p, q)
  BY <1>2, <1>3 DEF StringsThrow, FailsAt, ReachesString
<1>5. QED
  BY <1>4 DEF p, q

LEMMA TextIsString ==
  ASSUME NEW v \in Version
  PROVE  ToText(v) \in String
BY TextFrom, FromTypes

(* SemVerLess on texts: compareSemVer answers, and answers true.           *)
TextLess(a, b) == ~CompareStringsThrows(a, b) /\ CompareStrings(a, b)

(* compareSemVer orders all texts, those with parts that mix digits and    *)
(* letters too: it is transitive, and two texts that it puts in no order   *)
(* compare alike with a third.  Where two comparisons in a row do not      *)
(* throw, the third that follows from them does not.                       *)
THEOREM CompareStringsOrder ==
  ASSUME NEW a \in String, NEW b \in String, NEW c \in String
  PROVE  /\ ~TextLess(a, a)
         /\ TextLess(a, b) => ~TextLess(b, a)
         /\ TextLess(a, b) /\ TextLess(b, c) => TextLess(a, c)
         /\ ~TextLess(a, b) /\ ~TextLess(b, a) /\ ~CompareStringsThrows(a, b) =>
              /\ TextLess(a, c) <=> TextLess(b, c)
              /\ CompareStringsThrows(a, c) <=> CompareStringsThrows(b, c)
<1> DEFINE p == SplitString(a)
           q == SplitString(b)
           r == SplitString(c)
<1>1. p \in Seq(String) /\ q \in Seq(String) /\ r \in Seq(String)
  BY SplitStringType
<1>2. /\ CompareStrings(a, a) <=> StringsLess(p, p)
      /\ CompareStrings(a, b) <=> StringsLess(p, q)
      /\ CompareStrings(b, a) <=> StringsLess(q, p)
      /\ CompareStrings(b, c) <=> StringsLess(q, r)
      /\ CompareStrings(a, c) <=> StringsLess(p, r)
  BY CompareStringsIs
<1>3. /\ CompareStringsThrows(a, b) <=> StringsThrow(p, q)
      /\ CompareStringsThrows(b, a) <=> StringsThrow(q, p)
      /\ CompareStringsThrows(b, c) <=> StringsThrow(q, r)
      /\ CompareStringsThrows(a, c) <=> StringsThrow(p, r)
  BY StringsThrowIs
<1> HIDE DEF p, q, r
<1>4. ~StringsLess(p, p) /\ ~(StringsLess(p, q) /\ StringsLess(q, p))
  BY <1>1, StringsLessIrreflexive, StringsLessTransitive
<1>5. StringsLess(p, q) /\ StringsLess(q, r) => StringsLess(p, r)
  BY <1>1, StringsLessTransitive
<1>6. ~StringsLess(p, q) /\ ~StringsLess(q, p) => (StringsLess(p, r) <=> StringsLess(q, r))
  BY <1>1, StringsLessTies
<1>7. StringsThrow(p, q) <=> StringsThrow(q, p)
  BY <1>1, ThrowSymmetric
<1>8. StringsLess(p, q) /\ StringsLess(q, r) /\ StringsThrow(p, r) =>
        StringsThrow(p, q) \/ StringsThrow(q, r)
  BY <1>1, ThrowBetween
<1>9. ~StringsLess(p, q) /\ ~StringsLess(q, p) /\ ~StringsThrow(p, q) =>
        (StringsThrow(p, r) <=> StringsThrow(q, r))
  BY <1>1, <1>7, ThrowTies
<1>10. QED
  BY <1>2, <1>3, <1>4, <1>5, <1>6, <1>7, <1>8, <1>9 DEF TextLess

(* The texts of every three versions in a row are ordered by compareSemVer, *)
(* whatever strings the versions are made of.                              *)
THEOREM SemVerTransitiveCorrect == Spec => SemVerTransitive
<1> DEFINE Ordered ==
      /\ SemVerLess(first, second) /\ SemVerLess(second, second') => SemVerLess(first, second')
      /\ ~SemVerLess(first, second) /\ ~SemVerLess(second, first) /\ ~SemVerThrows(first, second) =>
           /\ SemVerLess(first, second') <=> SemVerLess(second, second')
           /\ SemVerThrows(first, second') <=> SemVerThrows(second, second')
<1>1. ASSUME ListInv, ListInv', [Next]_vars
      PROVE  [Ordered]_vars
  <2>1. ToText(first) \in String /\ ToText(second) \in String /\ ToText(second') \in String
    BY <1>1, TextIsString DEF ListInv
  <2>2. Ordered
    BY <2>1, CompareStringsOrder DEF SemVerLess, SemVerThrows, TextLess
  <2>3. QED
    BY <2>2
<1> HIDE DEF Ordered
<1>2. Spec => [][Ordered]_vars
  BY <1>1, ListInvariant, PTL DEF Spec
<1>3. QED
  BY <1>2 DEF Ordered, SemVerTransitive

-----------------------------------------------------------------------------
(* The parts of the text of a version with numbers: its numbers come       *)
(* first, whatever stands behind them.                                     *)

Separators == {Dot, Dash}

TextParts(v)  == Cut(ToText(v), Separators)
PatchParts(v) == Cut(FromPatch(v), Separators)

(* std::stoi reads the number t from the part h, or throws if t is no int. *)
Reads(h, t) ==
  /\ IsDigitFirst(h) /\ Stoi(h) = Value(t)
  /\ StoiFails(h) <=> Value(t) > IntMax

LEMMA NumberLeads ==
  ASSUME NEW t \in String, IsNumber(t), NEW h \in String, Leading(h) = t
  PROVE  Reads(h, t)
<1>1. h # <<>> /\ Leading(h) # <<>>
  BY EmptyValue, LeadingDigits DEF IsNumber
<1>2. IsDigitFirst(h)
  BY <1>1, LeadingType DEF IsNumber, IsDigitFirst
<1>3. QED
  BY <1>1, <1>2 DEF Reads, Stoi, FromChars, StoiFails, FromCharsFails

LEMMA TwoInFront ==
  ASSUME NEW a \in String, NEW b \in String, NEW r \in Seq(String)
  PROVE  /\ <<a>> \o (<<b>> \o r) \in Seq(String)
         /\ Len(<<a>> \o (<<b>> \o r)) = 2 + Len(r)
         /\ (<<a>> \o (<<b>> \o r))[1] = a
         /\ (<<a>> \o (<<b>> \o r))[2] = b
         /\ \A i \in 1..Len(r) : (<<a>> \o (<<b>> \o r))[2 + i] = r[i]
<1> DEFINE q == <<b>> \o r
<1>1. q \in Seq(String) /\ Len(q) = 1 + Len(r) /\ q[1] = b /\ \A i \in 1..Len(r) : q[1 + i] = r[i]
  OBVIOUS
<1> HIDE DEF q
<1>2. /\ <<a>> \o q \in Seq(String) /\ Len(<<a>> \o q) = 1 + Len(q) /\ (<<a>> \o q)[1] = a
      /\ \A i \in 1..Len(q) : (<<a>> \o q)[1 + i] = q[i]
  BY <1>1
<1>3. Len(r) \in Nat
  OBVIOUS
<1>4. (<<a>> \o q)[1 + 1] = b /\ \A i \in 1..Len(r) : (<<a>> \o q)[1 + (1 + i)] = r[i]
  BY <1>1, <1>2, <1>3
<1>5. \A i \in 1..Len(r) : 1 + (1 + i) = 2 + i
  BY <1>3
<1>6. 1 + 1 = 2 /\ 1 + (1 + Len(r)) = 2 + Len(r)
  BY <1>3
<1>7. QED
  BY <1>1, <1>2, <1>4, <1>5, <1>6 DEF q

LEMMA TextPartsAre ==
  ASSUME NEW v \in Version, HasNumbers(v)
  PROVE  /\ PatchParts(v) \in Seq(String) /\ Len(PatchParts(v)) \in Nat \ {0}
         /\ TextParts(v) \in Seq(String) /\ Len(TextParts(v)) = 2 + Len(PatchParts(v))
         /\ TextParts(v)[1] = v.major /\ TextParts(v)[2] = v.minor
         /\ \A i \in 1..Len(PatchParts(v)) : TextParts(v)[2 + i] = PatchParts(v)[i]
<1>1. /\ v.major \in String /\ OnlyDigits(v.major)
      /\ v.minor \in String /\ OnlyDigits(v.minor)
      /\ FromMinor(v) \in String /\ FromPatch(v) \in String
  BY VersionNumbers, FromTypes DEF IsNumber
<1>2. Chars(v.major) \cap Separators = {} /\ Chars(v.minor) \cap Separators = {}
  <2>1. Separators \subseteq {Dot, Dash, Plus, Space, Equal, LetterV}
    BY DEF Separators
  <2>2. QED
    BY <1>1, <2>1, DigitsOnly
<1>3. Dot \in Char /\ Dot \in Separators
  BY CharacterFacts DEF Separators
<1>4. Cut(FromMinor(v), Separators) = <<v.minor>> \o PatchParts(v)
  BY <1>1, <1>2, <1>3, CutFirst DEF FromMinor, PatchParts
<1>5. TextParts(v) = <<v.major>> \o Cut(FromMinor(v), Separators)
  <2>1. Cut(v.major \o (<<Dot>> \o FromMinor(v)), Separators) = <<v.major>> \o Cut(FromMinor(v), Separators)
    BY <1>1, <1>2, <1>3, CutFirst
  <2>2. QED
    BY <2>1, TextFrom DEF FromMajor, TextParts
<1>6. PatchParts(v) \in Seq(String) /\ Len(PatchParts(v)) \in Nat \ {0}
  BY <1>1, CutType DEF PatchParts
<1>7. QED
  BY <1>1, <1>4, <1>5, <1>6, TwoInFront

LEMMA PatchPartsBegin ==
  ASSUME NEW v \in Version, HasNumbers(v)
  PROVE  /\ PatchParts(v)[1] \in String /\ PatchParts(v)[1] # <<>>
         /\ Reads(PatchParts(v)[1], v.patch)
<1> DEFINE s == FromPatch(v)
           h == Before(s, Separators)
<1>1. v.patch \in String /\ IsNumber(v.patch) /\ FromTail(v) \in String /\ s \in String
  BY VersionNumbers, FromTypes
<1>2. FromTail(v) # <<>> => FromTail(v)[1] \notin Digit
  <2>1. \A c \in {Dash, Plus}, q \in String : (<<c>> \o q)[1] = c
    OBVIOUS
  <2>2. v.build \in String /\ FromPre(v) \in String /\ Dash \notin Digit /\ Plus \notin Digit
    BY FieldTypes, FromTypes, CharacterFacts
  <2>3. QED
    BY <2>1, <2>2, TailCases
<1>3. s = v.patch \o FromTail(v)
  BY DEF FromPatch
<1>4. h \in String /\ Leading(h) = v.patch /\ h # <<>>
  BY <1>1, <1>2, <1>3, HeadReads DEF IsNumber, Separators
<1>5. PatchParts(v)[1] = h
  <2>1. Cut(After(s, Separators), Separators) \in Seq(String)
    BY <1>1, CutsType, CutType
  <2>2. \A r \in Seq(String) : (<<h>> \o r)[1] = h
    BY <1>4
  <2>3. <<h>>[1] = h
    OBVIOUS
  <2> HIDE DEF h, s
  <2>4. Cut(s, Separators) = <<h>> \/ Cut(s, Separators) = <<h>> \o Cut(After(s, Separators), Separators)
    BY <1>1, CutHead DEF h
  <2>5. Cut(s, Separators)[1] = h
    BY <2>1, <2>2, <2>3, <2>4
  <2>6. QED
    BY <2>5 DEF PatchParts, s
<1> HIDE DEF h
<1>6. QED
  BY <1>1, <1>4, <1>5, NumberLeads

(* Dropping an empty last part does not reach the parts before it.         *)
LEMMA DropEmptyKeeps ==
  ASSUME NEW c \in Seq(String), NEW n \in Nat \ {0}, Len(c) >= n, c[n] # <<>>
  PROVE  /\ DropEmptyEnd(c) \in Seq(String)
         /\ Len(DropEmptyEnd(c)) >= n
         /\ \A i \in 1..n : DropEmptyEnd(c)[i] = c[i]
         /\ c[Len(c)] # <<>> => DropEmptyEnd(c) = c
<1>1. CASE c[Len(c)] # <<>>
  BY <1>1 DEF DropEmptyEnd, Last
<1>2. CASE c[Len(c)] = <<>>
  <2> DEFINE l == Len(c)
  <2>1. l \in Nat /\ l >= n /\ l # n
    BY <1>2
  <2> HIDE DEF l
  <2>2. DropEmptyEnd(c) = SubSeq(c, 1, l - 1)
    BY <1>2 DEF DropEmptyEnd, Last, Front, l
  <2>3. l - 1 >= n /\ l - 1 \in 0..l
    BY <2>1
  <2>4. SubSeq(c, 1, l - 1) \in Seq(String) /\ Len(SubSeq(c, 1, l - 1)) = l - 1
        /\ \A i \in 1..(l - 1) : SubSeq(c, 1, l - 1)[i] = c[i]
    BY <2>3 DEF l
  <2>5. QED
    BY <1>2, <2>2, <2>3, <2>4
<1>3. QED
  BY <1>1, <1>2

LEMMA DropEmptyLength ==
  ASSUME NEW c \in Seq(String), c # <<>>
  PROVE  Len(DropEmptyEnd(c)) >= Len(c) - 1
<1> DEFINE l == Len(c)
<1>1. l \in Nat \ {0} /\ c = SubSeq(c, 1, l)
  OBVIOUS
<1>2. DropEmptyEnd(c) = SubSeq(c, 1, l - 1) \/ DropEmptyEnd(c) = c
  BY DEF DropEmptyEnd, Last, Front
<1>3. Len(SubSeq(c, 1, l - 1)) = l - 1
  BY <1>1
<1>4. QED
  BY <1>1, <1>2, <1>3

BeginsAs(p, v) ==
  /\ p \in Seq(String) /\ Len(p) >= 3
  /\ Reads(p[1], v.major) /\ Reads(p[2], v.minor) /\ Reads(p[3], v.patch)

LEMMA SplitBegins ==
  ASSUME NEW v \in Version, HasNumbers(v)
  PROVE  BeginsAs(SplitString(ToText(v)), v)
<1> DEFINE c == TextParts(v)
           p == DropEmptyEnd(c)
<1>1. /\ c \in Seq(String) /\ Len(c) = 2 + Len(PatchParts(v)) /\ Len(PatchParts(v)) \in Nat \ {0}
      /\ c[1] = v.major /\ c[2] = v.minor
      /\ \A i \in 1..Len(PatchParts(v)) : c[2 + i] = PatchParts(v)[i]
  BY TextPartsAre
<1> HIDE DEF c
<1>2. Len(c) >= 3 /\ c[3] = PatchParts(v)[1]
  <2>1. 1 \in 1..Len(PatchParts(v)) /\ 2 + 1 = 3
    BY <1>1
  <2>2. c[2 + 1] = PatchParts(v)[1]
    BY <1>1, <2>1
  <2>3. QED
    BY <1>1, <2>1, <2>2
<1>3. c[3] # <<>> /\ Reads(c[3], v.patch)
  BY <1>2, PatchPartsBegin
<1>4. Reads(c[1], v.major) /\ Reads(c[2], v.minor)
  BY <1>1, VersionNumbers, LeadingDigits, NumberLeads DEF IsNumber
<1>5. p \in Seq(String) /\ Len(p) >= 3 /\ p[1] = c[1] /\ p[2] = c[2] /\ p[3] = c[3]
  BY <1>1, <1>2, <1>3, DropEmptyKeeps
<1> HIDE DEF p
<1>6. BeginsAs(p, v)
  BY <1>3, <1>4, <1>5 DEF BeginsAs
<1>7. QED
  BY <1>6 DEF p, c, TextParts, SplitString, Separators

(* A release has three parts, its build one with the patch number.         *)
LEMMA ReleaseSplits ==
  ASSUME NEW v \in Version, HasNumbers(v), v.pre = <<>>, PlainBuild(v)
  PROVE  Len(SplitString(ToText(v))) = 3
<1> DEFINE c == TextParts(v)
<1>1. Chars(FromPatch(v)) \cap Separators = {}
  <2>1. v.patch \in String /\ v.build \in String /\ OnlyDigits(v.patch)
    BY VersionNumbers, FieldTypes DEF IsNumber
  <2>2. Chars(v.patch) \cap Separators = {}
    BY <2>1, DigitsOnly DEF Separators
  <2>3. Chars(<<Plus>>) \cap Separators = {} /\ <<Plus>> \in String
    BY SignTypes DEF Chars, Separators, Plus, Dot, Dash
  <2>4. Chars(v.build) \cap Separators = {}
    BY DEF PlainBuild, Separators
  <2>5. \A a, b \in String : Chars(a) \cap Separators = {} /\ Chars(b) \cap Separators = {} =>
                              Chars(a \o b) \cap Separators = {}
    BY DEF Chars, String
  <2>6. CASE v.build = <<>>
    <3>1. FromPatch(v) = v.patch
      BY <2>1, <2>6, TailCases, EmptyConcat DEF FromPatch
    <3>2. QED
      BY <2>2, <3>1
  <2>7. CASE v.build # <<>>
    <3>1. FromPatch(v) = v.patch \o (<<Plus>> \o v.build)
      BY <2>7, TailCases DEF FromPatch
    <3>2. <<Plus>> \o v.build \in String
      BY <2>1, <2>3, ConcatType
    <3>3. Chars(<<Plus>> \o v.build) \cap Separators = {}
      BY <2>1, <2>3, <2>4, <2>5
    <3>4. QED
      BY <2>1, <2>2, <2>5, <3>1, <3>2, <3>3
  <2>8. QED
    BY <2>6, <2>7
<1>2. PatchParts(v) = <<FromPatch(v)>>
  BY <1>1, FromTypes, CutNone DEF PatchParts
<1>3. Len(PatchParts(v)) = 1 /\ 1 \in 1..1 /\ 2 + 1 = 3
  BY <1>2
<1>4. c \in Seq(String) /\ Len(c) = 3 /\ c[3] = PatchParts(v)[1]
  <2>1. /\ c \in Seq(String) /\ Len(c) = 2 + Len(PatchParts(v))
        /\ \A i \in 1..Len(PatchParts(v)) : c[2 + i] = PatchParts(v)[i]
    BY TextPartsAre
  <2> HIDE DEF c
  <2>2. c[2 + 1] = PatchParts(v)[1]
    BY <1>3, <2>1
  <2>3. QED
    BY <1>3, <2>1, <2>2
<1>5. c[3] # <<>>
  BY <1>4, PatchPartsBegin
<1> HIDE DEF c
<1>6. DropEmptyEnd(c) = c
  BY <1>4, <1>5, DropEmptyKeeps
<1>7. QED
  BY <1>4, <1>6 DEF c, TextParts, SplitString, Separators

(* A pre-release has more.                                                 *)
LEMMA PreReleaseSplits ==
  ASSUME NEW v \in Version, HasNumbers(v), v.pre # <<>>
  PROVE  Len(SplitString(ToText(v))) >= 4
<1> DEFINE c == TextParts(v)
           r == Cut(FromPre(v), Separators)
           k == Len(r)
<1>1. v.patch \in String /\ OnlyDigits(v.patch) /\ FromPre(v) \in String /\ v.pre \in String
      /\ FromBuild(v) \in String
  BY VersionNumbers, FromTypes, FieldTypes DEF IsNumber
<1>2. FromPre(v) # <<>>
  <2>1. \A a, b \in String : a # <<>> => a \o b # <<>>
    BY DEF String
  <2>2. QED
    BY <1>1, <2>1 DEF FromPre
<1>3. Chars(v.patch) \cap Separators = {} /\ Dash \in Char /\ Dash \in Separators
  BY <1>1, DigitsOnly, CharacterFacts DEF Separators
<1>4. PatchParts(v) = <<v.patch>> \o r
  <2>1. FromPatch(v) = v.patch \o (<<Dash>> \o FromPre(v))
    BY TailCases DEF FromPatch
  <2>2. Cut(v.patch \o (<<Dash>> \o FromPre(v)), Separators) = <<v.patch>> \o r
    BY <1>1, <1>3, CutFirst
  <2>3. QED
    BY <2>1, <2>2 DEF PatchParts
<1>5. r \in Seq(String) /\ k \in Nat \ {0}
  BY <1>1, CutType
<1>6. k = 1 => r[1] = FromPre(v)
  BY <1>1, CutIs
<1>7. /\ c \in Seq(String) /\ Len(c) = 2 + Len(PatchParts(v))
      /\ \A i \in 1..Len(PatchParts(v)) : c[2 + i] = PatchParts(v)[i]
  BY TextPartsAre
<1> HIDE DEF c, r
<1>8. Len(PatchParts(v)) = 1 + k /\ PatchParts(v)[2] = r[1]
  <2>1. \A q \in Seq(String) : q # <<>> => Len(<<v.patch>> \o q) = 1 + Len(q) /\ (<<v.patch>> \o q)[2] = q[1]
    BY <1>1
  <2>2. QED
    BY <1>4, <1>5, <2>1
<1> HIDE DEF k
<1>9. Len(c) = 3 + k /\ c[4] = r[1]
  <2>1. 2 \in 1..Len(PatchParts(v)) /\ 2 + 2 = 4 /\ 2 + (1 + k) = 3 + k
    BY <1>5, <1>8
  <2>2. c[2 + 2] = PatchParts(v)[2]
    BY <1>7, <2>1
  <2>3. QED
    BY <1>7, <1>8, <2>1, <2>2
<1>10. CASE k = 1
  <2>1. c[4] # <<>> /\ Len(c) >= 4
    BY <1>2, <1>6, <1>9, <1>10
  <2>2. Len(DropEmptyEnd(c)) >= 4
    BY <1>7, <2>1, DropEmptyKeeps
  <2>3. QED
    BY <2>2 DEF c, TextParts, SplitString, Separators
<1>11. CASE k # 1
  <2>1. Len(c) >= 5
    BY <1>5, <1>9, <1>11
  <2>2. c # <<>>
    BY <2>1
  <2>3. Len(DropEmptyEnd(c)) >= Len(c) - 1
    BY <1>7, <2>2, DropEmptyLength
  <2>4. DropEmptyEnd(c) \in Seq(String)
    BY <1>7, <2>2 DEF DropEmptyEnd, Front
  <2>5. Len(DropEmptyEnd(c)) \in Nat /\ Len(c) \in Nat
    BY <1>7, <2>4
  <2>6. Len(DropEmptyEnd(c)) >= 4
    BY <2>1, <2>3, <2>5
  <2>7. QED
    BY <2>6 DEF c, TextParts, SplitString, Separators
<1>12. QED
  BY <1>10, <1>11

LEMMA BeginsAsLess ==
  ASSUME NEW v \in Version, HasNumbers(v), NEW w \in Version, HasNumbers(w),
         NEW p, BeginsAs(p, v), NEW q, BeginsAs(q, w)
  PROVE  /\ Below(Value(v.major), Value(v.minor), Value(v.patch),
                  Value(w.major), Value(w.minor), Value(w.patch)) => StringsLess(p, q)
         /\ Numeric(v) = Numeric(w) /\ Len(p) = 3 /\ Len(q) >= 4 => StringsLess(p, q)
<1>1. /\ p \in Seq(String) /\ q \in Seq(String) /\ Len(p) >= 3 /\ Len(q) >= 3
      /\ 1 \in 1..Len(p) /\ 2 \in 1..Len(p) /\ 3 \in 1..Len(p)
      /\ 1 \in 1..Len(q) /\ 2 \in 1..Len(q) /\ 3 \in 1..Len(q)
  BY DEF BeginsAs
<1>2. /\ SameStringPart(p[1], q[1]) <=> Value(v.major) = Value(w.major)
      /\ SameStringPart(p[2], q[2]) <=> Value(v.minor) = Value(w.minor)
      /\ SameStringPart(p[3], q[3]) <=> Value(v.patch) = Value(w.patch)
      /\ StringPartLess(p[1], q[1]) <=> Value(v.major) < Value(w.major)
      /\ StringPartLess(p[2], q[2]) <=> Value(v.minor) < Value(w.minor)
      /\ StringPartLess(p[3], q[3]) <=> Value(v.patch) < Value(w.patch)
  BY DEF BeginsAs, Reads, SameStringPart, StringPartLess
<1>3. CASE Value(v.major) < Value(w.major)
  <2>1. ReachesString(p, q, 1)
    BY <1>1 DEF ReachesString
  <2>2. QED
    BY <1>1, <1>2, <1>3, <2>1, VersionNumbers DEF StringsLess, Below, Numeric
<1>4. CASE Value(v.major) = Value(w.major) /\ Value(v.minor) < Value(w.minor)
  <2>1. \A j \in 1..(2 - 1) : SameStringPart(p[j], q[j])
    BY <1>2, <1>4
  <2>2. ReachesString(p, q, 2)
    BY <1>1, <2>1 DEF ReachesString
  <2>3. QED
    BY <1>1, <1>2, <1>4, <2>2, VersionNumbers DEF StringsLess, Below, Numeric
<1>5. CASE Value(v.major) = Value(w.major) /\ Value(v.minor) = Value(w.minor)
  <2>1. \A j \in 1..(3 - 1) : SameStringPart(p[j], q[j])
    BY <1>2, <1>5
  <2>2. ReachesString(p, q, 3)
    BY <1>1, <2>1 DEF ReachesString
  <2>3. Value(v.patch) < Value(w.patch) => StringsLess(p, q)
    BY <1>1, <1>2, <2>2 DEF StringsLess
  <2>4. ASSUME Numeric(v) = Numeric(w), Len(p) = 3, Len(q) >= 4
        PROVE  StringsLess(p, q)
    <3>1. Value(v.patch) = Value(w.patch)
      BY <2>4 DEF Numeric
    <3>2. \A j \in 1..3 : SameStringPart(p[j], q[j])
      BY <1>2, <1>5, <3>1
    <3>3. Len(p) < Len(q)
      BY <1>1, <2>4
    <3>4. QED
      BY <2>4, <3>2, <3>3 DEF StringsLess
  <2>5. QED
    BY <1>5, <2>3, <2>4, VersionNumbers DEF Below
<1>6. QED
  BY <1>3, <1>4, <1>5, VersionNumbers DEF Below, Numeric

(* Of two lists of parts whose comparison ends among the numbers or with   *)
(* them, it throws just where one of two numbers is too large.             *)
LEMMA BeginsAsThrows ==
  ASSUME NEW v \in Version, HasNumbers(v), NEW w \in Version, HasNumbers(w),
         NEW p, BeginsAs(p, v), NEW q, BeginsAs(q, w),
         Numeric(v) # Numeric(w) \/ Len(p) = 3 \/ Len(q) = 3
  PROVE  StringsThrow(p, q) <=> NumberTooLarge(v, w)
<1> DEFINE M == Numeric(v)
           N == Numeric(w)
<1>1. /\ p \in Seq(String) /\ q \in Seq(String) /\ Len(p) \in Nat /\ Len(q) \in Nat
      /\ Len(p) >= 3 /\ Len(q) >= 3
  BY DEF BeginsAs
<1>2. \A i \in 1..3 :
        /\ SameStringPart(p[i], q[i]) <=> M[i] = N[i]
        /\ IsDigitFirst(p[i]) /\ IsDigitFirst(q[i])
        /\ StoiFails(p[i]) <=> M[i] > IntMax
        /\ StoiFails(q[i]) <=> N[i] > IntMax
  <2>1. \A i \in 1..3 : i = 1 \/ i = 2 \/ i = 3
    OBVIOUS
  <2>2. /\ M[1] = Value(v.major) /\ M[2] = Value(v.minor) /\ M[3] = Value(v.patch)
        /\ N[1] = Value(w.major) /\ N[2] = Value(w.minor) /\ N[3] = Value(w.patch)
    BY DEF Numeric
  <2> HIDE DEF M, N
  <2>3. QED
    BY <2>1, <2>2 DEF BeginsAs, Reads, SameStringPart
<1>3. M # N => \E i \in 1..3 : M[i] # N[i]
  <2>1. ASSUME M[1] = N[1], M[2] = N[2], M[3] = N[3]
        PROVE  M = N
    BY <2>1 DEF Numeric
  <2> HIDE DEF M, N
  <2>2. 1 \in 1..3 /\ 2 \in 1..3 /\ 3 \in 1..3
    OBVIOUS
  <2>3. QED
    BY <2>1, <2>2
<1>4. NumberTooLarge(v, w) <=>
        \E i \in 1..3 : (\A j \in 1..(i - 1) : M[j] = N[j]) /\ (M[i] > IntMax \/ N[i] > IntMax)
  BY DEF NumberTooLarge
<1>5. M # N \/ Len(p) = 3 \/ Len(q) = 3
  OBVIOUS
<1> HIDE DEF M, N
<1>6. ASSUME NEW i \in 1..3
      PROVE  /\ i \in 1..Len(p) /\ i \in 1..Len(q)
             /\ ReachesString(p, q, i) <=> \A j \in 1..(i - 1) : M[j] = N[j]
  <2>1. i \in 1..Len(p) /\ i \in 1..Len(q)
    BY <1>1
  <2>2. \A j \in 1..(i - 1) : j \in 1..3
    OBVIOUS
  <2>3. QED
    BY <1>2, <2>1, <2>2 DEF ReachesString
<1>7. ASSUME NEW i \in 1..Len(p), FailsAt(p, q, i)
      PROVE  i \in 1..3
  <2>1. ReachesString(p, q, i)
    BY <1>7 DEF FailsAt
  <2>2. i \in 1..Len(q)
    BY <2>1 DEF ReachesString
  <2>3. CASE M # N
    <3>1. PICK k \in 1..3 : M[k] # N[k]
      BY <1>3, <2>3
    <3>2. k \notin 1..(i - 1)
      BY <1>2, <2>1, <3>1 DEF ReachesString
    <3>3. QED
      BY <3>2
  <2>4. CASE Len(p) = 3 \/ Len(q) = 3
    BY <2>2, <2>4
  <2>5. QED
    BY <1>5, <2>3, <2>4
<1>8. ASSUME NEW i \in 1..3
      PROVE  FailsAt(p, q, i) <=>
               (\A j \in 1..(i - 1) : M[j] = N[j]) /\ (M[i] > IntMax \/ N[i] > IntMax)
  BY <1>2, <1>6 DEF FailsAt
<1>9. StringsThrow(p, q) <=> \E i \in 1..3 : FailsAt(p, q, i)
  BY <1>6, <1>7 DEF StringsThrow
<1>10. QED
  BY <1>4, <1>8, <1>9

(* Having made a comparison of two versions' texts, compareSemVer answers  *)
(* as the comparison of the lists of parts does.                           *)
LEMMA SemVerIs ==
  ASSUME NEW v \in Version, NEW w \in Version
  PROVE  LET p == SplitString(ToText(v))
             q == SplitString(ToText(w))
         IN /\ SemVerThrows(v, w) <=> StringsThrow(p, q)
            /\ SemVerLess(v, w) <=> ~StringsThrow(p, q) /\ StringsLess(p, q)
            /\ StringsLess(p, q) => ~StringsLess(q, p)
<1>1. ToText(v) \in String /\ ToText(w) \in String
  BY TextIsString
<1>2. SplitString(ToText(v)) \in Seq(String) /\ SplitString(ToText(w)) \in Seq(String)
  BY <1>1, SplitStringType
<1>3. StringsLess(SplitString(ToText(v)), SplitString(ToText(w))) =>
        ~StringsLess(SplitString(ToText(w)), SplitString(ToText(v)))
  BY <1>2, StringsLessTransitive, StringsLessIrreflexive
<1>4. QED
  BY <1>1, <1>3, CompareStringsIs, StringsThrowIs DEF SemVerThrows, SemVerLess

(* compareSemVer, which converts the numbers of two versions' texts, and   *)
(* operator<=>, which compares the numbers' texts, agree where the numbers *)
(* differ, whatever pre-releases and builds the versions have, unless a    *)
(* number that compareSemVer has to convert is no int: then it throws.     *)
THEOREM AgreeOnNumbersCorrect == Spec => []OrdersAgreeOnNumbers
<1> DEFINE B(v, w) == Below(Value(v.major), Value(v.minor), Value(v.patch),
                            Value(w.major), Value(w.minor), Value(w.patch))
           P(v) == SplitString(ToText(v))
<1>1. ASSUME NEW v \in Version, HasNumbers(v), NEW w \in Version, HasNumbers(w), B(v, w)
      PROVE  /\ StringsLess(P(v), P(w)) /\ ~StringsLess(P(w), P(v))
             /\ Less(v, w) /\ ~Less(w, v)
  <2>1. BeginsAs(P(v), v) /\ BeginsAs(P(w), w)
    BY <1>1, SplitBegins
  <2>2. StringsLess(P(v), P(w))
    BY <1>1, <2>1, BeginsAsLess
  <2>3. ~StringsLess(P(w), P(v))
    BY <1>1, <2>2, SemVerIs
  <2>4. /\ Value(v.major) = Value(w.major) <=> v.major = w.major
        /\ Value(v.minor) = Value(w.minor) <=> v.minor = w.minor
    BY <1>1, VersionNumbers, NumberOrder
  <2>5. Less(v, w)
    BY <1>1, <2>4, LessNumbers DEF Below
  <2>6. ~Less(w, v)
    <3>1. Compare(w, v) = Swapped["less"]
      BY <1>1, <2>5, CompareOrder DEF Less
    <3>2. QED
      BY <3>1 DEF Swapped, Less
  <2>7. QED
    BY <2>2, <2>3, <2>5, <2>6
<1>2. ASSUME ListInv, HasNumbers(first), HasNumbers(second), Numeric(first) # Numeric(second)
      PROVE  /\ SemVerThrows(first, second) <=> NumberTooLarge(first, second)
             /\ ~SemVerThrows(first, second) => (SemVerLess(first, second) <=> Less(first, second))
  <2>1. first \in Version /\ second \in Version
    BY <1>2 DEF ListInv
  <2>2. B(first, second) \/ B(second, first)
    <3>1. \/ Value(first.major) # Value(second.major)
          \/ Value(first.minor) # Value(second.minor)
          \/ Value(first.patch) # Value(second.patch)
      BY <1>2 DEF Numeric
    <3>2. /\ Value(first.major) \in Nat /\ Value(first.minor) \in Nat /\ Value(first.patch) \in Nat
          /\ Value(second.major) \in Nat /\ Value(second.minor) \in Nat /\ Value(second.patch) \in Nat
      BY <1>2, <2>1, VersionNumbers
    <3>3. QED
      BY <3>1, <3>2 DEF Below
  <2>3. BeginsAs(P(first), first) /\ BeginsAs(P(second), second)
    BY <1>2, <2>1, SplitBegins
  <2>4. StringsThrow(P(first), P(second)) <=> NumberTooLarge(first, second)
    BY <1>2, <2>1, <2>3, BeginsAsThrows
  <2>5. /\ SemVerThrows(first, second) <=> StringsThrow(P(first), P(second))
        /\ SemVerLess(first, second) <=>
             ~StringsThrow(P(first), P(second)) /\ StringsLess(P(first), P(second))
    BY <2>1, SemVerIs
  <2>6. StringsLess(P(first), P(second)) <=> Less(first, second)
    BY <1>1, <1>2, <2>1, <2>2
  <2>7. QED
    BY <2>4, <2>5, <2>6
<1>3. ListInv => OrdersAgreeOnNumbers
  BY <1>2 DEF OrdersAgreeOnNumbers
<1>4. QED
  BY <1>3, ListInvariant, PTL

(* Where just one of two versions with the same numbers is a pre-release,  *)
(* the two orders disagree: operator<=> puts the pre-release first,        *)
(* compareSemVer the release, unless it throws because a number is no int. *)
THEOREM OpposeOnReleasesCorrect == Spec => []OrdersOpposeOnReleases
<1> DEFINE P(v) == SplitString(ToText(v))
<1>1. ASSUME NEW v \in Version, HasNumbers(v), NEW w \in Version, HasNumbers(w),
             Numeric(v) = Numeric(w), v.pre = <<>>, w.pre # <<>>, PlainBuild(v)
      PROVE  /\ StringsLess(P(v), P(w)) /\ ~StringsLess(P(w), P(v))
             /\ Less(w, v) /\ ~Less(v, w)
             /\ StringsThrow(P(v), P(w)) <=> NumberTooLarge(v, w)
             /\ StringsThrow(P(w), P(v)) <=> NumberTooLarge(w, v)
  <2>1. BeginsAs(P(v), v) /\ BeginsAs(P(w), w)
    BY <1>1, SplitBegins
  <2>2. Len(P(v)) = 3 /\ Len(P(w)) >= 4
    BY <1>1, ReleaseSplits, PreReleaseSplits
  <2>3. StringsLess(P(v), P(w))
    BY <1>1, <2>1, <2>2, BeginsAsLess
  <2>4. ~StringsLess(P(w), P(v))
    BY <1>1, <2>3, SemVerIs
  <2>5. v.major = w.major /\ v.minor = w.minor /\ v.patch = w.patch
    <3>1. /\ Value(v.major) = Value(w.major) /\ Value(v.minor) = Value(w.minor)
          /\ Value(v.patch) = Value(w.patch)
      BY <1>1 DEF Numeric
    <3>2. QED
      BY <1>1, <3>1, VersionNumbers, NumberOrder
  <2>6. Less(w, v)
    <3>1. PreCompare(w.pre, v.pre) = "less"
      BY <1>1, FieldTypes, PreOfRelease
    <3>2. QED
      BY <1>1, <2>5, <3>1, LessNumbers
  <2>7. ~Less(v, w)
    <3>1. Compare(v, w) = Swapped["less"]
      BY <1>1, <2>6, CompareOrder DEF Less
    <3>2. QED
      BY <3>1 DEF Swapped, Less
  <2>8. /\ StringsThrow(P(v), P(w)) <=> NumberTooLarge(v, w)
        /\ StringsThrow(P(w), P(v)) <=> NumberTooLarge(w, v)
    BY <1>1, <2>1, <2>2, BeginsAsThrows
  <2>9. QED
    BY <2>3, <2>4, <2>6, <2>7, <2>8
<1>2. ASSUME NEW v \in Version, HasNumbers(v), NEW w \in Version, HasNumbers(w),
             Numeric(v) = Numeric(w), (v.pre = <<>>) # (w.pre = <<>>), PlainBuild(v), PlainBuild(w)
      PROVE  /\ SemVerThrows(v, w) <=> NumberTooLarge(v, w)
             /\ ~SemVerThrows(v, w) => (SemVerLess(v, w) <=> Less(w, v))
  <2>1. /\ SemVerThrows(v, w) <=> StringsThrow(P(v), P(w))
        /\ SemVerLess(v, w) <=> ~StringsThrow(P(v), P(w)) /\ StringsLess(P(v), P(w))
    BY <1>2, SemVerIs
  <2>2. CASE v.pre = <<>>
    <3>1. w.pre # <<>>
      BY <1>2, <2>2
    <3>2. QED
      BY <1>1, <1>2, <2>1, <2>2, <3>1
  <2>3. CASE v.pre # <<>>
    <3>1. w.pre = <<>>
      BY <1>2, <2>3
    <3>2. Numeric(w) = Numeric(v)
      BY <1>2
    <3>3. QED
      BY <1>1, <1>2, <2>1, <2>3, <3>1, <3>2
  <2>4. QED
    BY <2>2, <2>3
<1>3. ListInv => OrdersOpposeOnReleases
  BY <1>2 DEF OrdersOpposeOnReleases, ListInv
<1>4. QED
  BY <1>3, ListInvariant, PTL

-----------------------------------------------------------------------------
(* Where every part is made of digits or is one character, its piece says  *)
(* all that the comparison asks of it.                                     *)

Plain(a) ==
  /\ a # <<>> => a[1] \notin Separators
  /\ OnlyDigits(a) \/ Len(a) = 1

LEMMA PlainPart ==
  ASSUME NEW s \in String, HasText(s), NEW i \in 1..Len(SplitString(s))
  PROVE  SplitString(s)[i] \in String /\ Plain(SplitString(s)[i])
<1> DEFINE c == Cut(s, {Dot, Dash})
<1>1. PICK k \in DOMAIN c : SplitString(s)[i] = c[k]
  BY SplitStringPieces
<1>2. c[k] \in String /\ Chars(c[k]) \subseteq Chars(s) \ {Dot, Dash}
  BY <1>1, CutIs
<1>3. OnlyDigits(c[k]) \/ Len(c[k]) = 1
  BY <1>1 DEF HasText
<1> HIDE DEF c
<1>4. c[k] # <<>> => c[k][1] \notin {Dot, Dash}
  <2>1. c[k] # <<>> => 1 \in DOMAIN c[k]
    BY <1>2, Characters
  <2>2. QED
    BY <1>2, <2>1 DEF Chars
<1>5. QED
  BY <1>1, <1>2, <1>3, <1>4 DEF Plain, Separators

TagRank(a) == IF a = <<>> THEN EmptyRank ELSE Rank(a[1])

LEMMA PlainPiece ==
  ASSUME NEW a \in String, Plain(a)
  PROVE  /\ IsDigitFirst(a) => /\ IsNum(PieceOf(a)) /\ PieceOf(a).val = Stoi(a)
                               /\ StoiFails(a) <=> ~FitsInt(PieceOf(a))
         /\ ~IsDigitFirst(a) => /\ ~IsNum(PieceOf(a)) /\ PieceOf(a).val = TagRank(a)
                                /\ a = <<>> \/ a = <<a[1]>>
<1>1. ASSUME IsDigitFirst(a)
      PROVE  /\ IsNum(PieceOf(a)) /\ PieceOf(a).val = Stoi(a)
             /\ StoiFails(a) <=> ~FitsInt(PieceOf(a))
  <2>1. IsNum(PieceOf(a)) /\ PieceOf(a).val = Stoi(a)
    BY <1>1 DEF IsDigitFirst, PieceOf, IsNum, Stoi, FromChars
  <2>3. Leading(a) # <<>>
    BY <1>1, LeadingType DEF IsDigitFirst
  <2>4. StoiFails(a) <=> Stoi(a) > IntMax
    BY <2>3 DEF StoiFails, FromCharsFails, Stoi, FromChars
  <2>5. QED
    BY <2>1, <2>4, StoiType, IntAssumption DEF FitsInt
<1>2. ASSUME ~IsDigitFirst(a)
      PROVE  ~IsNum(PieceOf(a)) /\ PieceOf(a).val = TagRank(a)
  BY <1>2 DEF IsDigitFirst, PieceOf, IsNum, Word, TagRank, EmptyPiece
<1>3. ASSUME ~IsDigitFirst(a), a # <<>>
      PROVE  a = <<a[1]>>
  <2>1. 1 \in DOMAIN a
    BY <1>3, Characters
  <2>2. ~OnlyDigits(a)
    BY <1>3, <2>1 DEF IsDigitFirst, OnlyDigits, Chars
  <2>3. Len(a) = 1
    BY <2>2 DEF Plain
  <2>4. QED
    BY <2>3 DEF String
<1>4. QED
  BY <1>1, <1>2, <1>3

LEMMA RankOrder ==
  ASSUME NEW a \in String, Plain(a), ~IsDigitFirst(a), NEW b \in String, Plain(b), ~IsDigitFirst(b)
  PROVE  /\ TagCompare(a, b) = "less" <=> TagRank(a) < TagRank(b)
         /\ a = b <=> TagRank(a) = TagRank(b)
         /\ TagRank(a) > 0 <=> a # <<>> /\ a[1] >= Base
         /\ TagRank(a) < 0 <=> a = <<>> \/ a[1] < 0
         /\ TagRank(a) \in Int
<1>1. ASSUME NEW x \in String, Plain(x), ~IsDigitFirst(x), x # <<>>
      PROVE  /\ x[1] \in Int /\ (x[1] \in -5..-3 \/ x[1] >= Base)
             /\ x = <<x[1]>>
  <2>1. 1 \in DOMAIN x
    BY <1>1, Characters
  <2>2. x[1] \in Char
    BY <2>1 DEF String
  <2>3. x[1] \notin {Dot, Dash} /\ x[1] \notin Digit
    BY <1>1 DEF Plain, Separators, IsDigitFirst
  <2>4. x[1] \in Int /\ (x[1] \in -5..-3 \/ x[1] >= Base)
    BY <2>2, <2>3, BaseAssumption DEF Char, Space, Tilde, Dot, Dash, Digit
  <2>5. QED
    BY <1>1, <2>4, PlainPiece
<1>2. CASE a # <<>> /\ b # <<>>
  <2>1. /\ a[1] \in Int /\ (a[1] \in -5..-3 \/ a[1] >= Base) /\ a = <<a[1]>>
        /\ b[1] \in Int /\ (b[1] \in -5..-3 \/ b[1] >= Base) /\ b = <<b[1]>>
    BY <1>1, <1>2
  <2>2. a = b <=> a[1] = b[1]
    BY <2>1
  <2>3. TagCompare(a, b) = "less" <=> a[1] < b[1]
    <3>1. a[1] < b[1] => TagCompare(a, b) = "less"
      BY <1>2, TagFirst
    <3>2. TagCompare(a, b) = "less" => a[1] <= b[1]
      BY <1>2, TagFirst
    <3>3. TagCompare(a, b) = "less" => a # b
      BY TagCompareOrder
    <3>4. QED
      BY <2>1, <2>2, <3>1, <3>2, <3>3
  <2>4. TagRank(a) = Rank(a[1]) /\ TagRank(b) = Rank(b[1])
    BY <1>2 DEF TagRank
  <2>5. \A c, d \in Int : (c \in -5..-3 \/ c >= Base) /\ (d \in -5..-3 \/ d >= Base) =>
          /\ c < d <=> Rank(c) < Rank(d)
          /\ c = d <=> Rank(c) = Rank(d)
          /\ Rank(c) > 0 <=> c >= Base
          /\ Rank(c) < 0 <=> c < 0
          /\ Rank(c) \in Int
    BY BaseAssumption DEF Rank
  <2>6. QED
    BY <1>2, <2>1, <2>2, <2>3, <2>4, <2>5
<1>3. CASE a = <<>> /\ b # <<>>
  <2>1. b[1] \in Int /\ (b[1] \in -5..-3 \/ b[1] >= Base)
    BY <1>1, <1>3
  <2>2. TagRank(a) = -4 /\ TagRank(b) > -4 /\ TagRank(b) \in Int
    BY <1>3, <2>1, BaseAssumption DEF TagRank, Rank, EmptyRank
  <2>3. QED
    BY <1>3, <2>2, TagFirst
<1>4. CASE a # <<>> /\ b = <<>>
  <2>1. a[1] \in Int /\ (a[1] \in -5..-3 \/ a[1] >= Base)
    BY <1>1, <1>4
  <2>2. TagRank(b) = -4 /\ TagRank(a) > -4 /\ TagRank(a) \in Int
        /\ (TagRank(a) > 0 <=> a[1] >= Base) /\ (TagRank(a) < 0 <=> a[1] < 0)
    BY <1>4, <2>1, BaseAssumption DEF TagRank, Rank, EmptyRank
  <2>3. QED
    BY <1>4, <2>2, TagFirst
<1>5. CASE a = <<>> /\ b = <<>>
  <2>1. TagRank(a) = -4 /\ TagRank(b) = -4
    BY <1>5 DEF TagRank, EmptyRank
  <2>2. QED
    BY <1>5, <2>1, TagFirst
<1>6. QED
  BY <1>2, <1>3, <1>4, <1>5

LEMMA PlainDecides ==
  ASSUME NEW a \in String, Plain(a), NEW b \in String, Plain(b)
  PROVE  /\ PartLess(PieceOf(a), PieceOf(b)) <=> StringPartLess(a, b)
         /\ SamePart(PieceOf(a), PieceOf(b)) <=> SameStringPart(a, b)
         /\ IsNum(PieceOf(a)) <=> IsDigitFirst(a)
         /\ IsDigitFirst(a) => (FitsInt(PieceOf(a)) <=> ~StoiFails(a))
<1> DEFINE x == PieceOf(a)
           y == PieceOf(b)
<1>1. ASSUME NEW c \in String, Plain(c)
      PROVE  PieceOf(c).kind \in {"num", "tag"}
  BY DEF PieceOf, EmptyPiece, Word
<1>2. x.kind \in {"num", "tag"} /\ y.kind \in {"num", "tag"}
  BY <1>1
<1>3. ASSUME IsDigitFirst(a) /\ IsDigitFirst(b)
      PROVE  /\ PartLess(x, y) <=> StringPartLess(a, b)
             /\ SamePart(x, y) <=> SameStringPart(a, b)
  <2>1. IsNum(x) /\ IsNum(y) /\ x.val = Stoi(a) /\ y.val = Stoi(b)
    BY <1>3, PlainPiece
  <2> HIDE DEF x, y
  <2>2. QED
    BY <1>3, <2>1 DEF PartLess, SamePart, StringPartLess, SameStringPart, IsNum, x, y
<1>4. ASSUME IsDigitFirst(a) /\ ~IsDigitFirst(b)
      PROVE  /\ PartLess(x, y) <=> StringPartLess(a, b)
             /\ SamePart(x, y) <=> SameStringPart(a, b)
  <2>1. IsNum(x) /\ ~IsNum(y) /\ y.val = TagRank(b)
    BY <1>4, PlainPiece
  <2>2. TagRank(b) \in Int /\ (TagRank(b) > 0 <=> TagCompare(a, b) = "less")
    BY <1>4, RankOrder, DigitFirstAgainst
  <2>3. a # b
    BY <1>4
  <2> HIDE DEF x, y
  <2>4. QED
    BY <1>4, <2>1, <2>2, <2>3 DEF PartLess, SamePart, StringPartLess, SameStringPart, IsNum, x, y
<1>5. ASSUME ~IsDigitFirst(a) /\ IsDigitFirst(b)
      PROVE  /\ PartLess(x, y) <=> StringPartLess(a, b)
             /\ SamePart(x, y) <=> SameStringPart(a, b)
  <2>1. ~IsNum(x) /\ IsNum(y) /\ x.val = TagRank(a)
    BY <1>5, PlainPiece
  <2>2. TagRank(a) \in Int /\ (TagRank(a) < 0 <=> TagCompare(a, b) = "less")
    BY <1>5, RankOrder, DigitFirstAgainst
  <2>3. a # b
    BY <1>5
  <2> HIDE DEF x, y
  <2>4. QED
    BY <1>5, <2>1, <2>2, <2>3 DEF PartLess, SamePart, StringPartLess, SameStringPart, IsNum, x, y
<1>6. ASSUME ~IsDigitFirst(a) /\ ~IsDigitFirst(b)
      PROVE  /\ PartLess(x, y) <=> StringPartLess(a, b)
             /\ SamePart(x, y) <=> SameStringPart(a, b)
  <2>1. ~IsNum(x) /\ ~IsNum(y) /\ x.val = TagRank(a) /\ y.val = TagRank(b)
    BY <1>6, PlainPiece
  <2>2. /\ TagCompare(a, b) = "less" <=> TagRank(a) < TagRank(b)
        /\ a = b <=> TagRank(a) = TagRank(b)
    BY <1>6, RankOrder
  <2> HIDE DEF x, y
  <2>3. x.kind = y.kind
    BY <1>2, <2>1 DEF IsNum
  <2>4. QED
    BY <1>6, <2>1, <2>2, <2>3 DEF PartLess, SamePart, StringPartLess, SameStringPart, x, y
<1>7. /\ PartLess(x, y) <=> StringPartLess(a, b)
      /\ SamePart(x, y) <=> SameStringPart(a, b)
  BY <1>3, <1>4, <1>5, <1>6
<1>8. QED
  BY <1>7, PlainPiece

(* compareSemVer on the strings throws and decides as it does on their     *)
(* pieces.                                                                 *)
THEOREM PiecesCompare ==
  ASSUME NEW a \in String, HasText(a), NEW b \in String, HasText(b)
  PROVE  /\ CompareStrings(a, b) <=> CompareSemVer(TextOf(a), TextOf(b))
         /\ CompareStringsThrows(a, b) <=> CompareThrows(TextOf(a), TextOf(b))
<1> DEFINE p == SplitString(a)
           q == SplitString(b)
           x == Split(TextOf(a))
           y == Split(TextOf(b))
<1>1. /\ p \in Seq(String) /\ q \in Seq(String) /\ x \in Seq(Piece) /\ y \in Seq(Piece)
      /\ Len(x) = Len(p) /\ Len(y) = Len(q)
      /\ \A i \in 1..Len(p) : x[i] = PieceOf(p[i]) /\ p[i] \in String /\ Plain(p[i])
      /\ \A i \in 1..Len(q) : y[i] = PieceOf(q[i]) /\ q[i] \in String /\ Plain(q[i])
  BY SplitStringPieces, PlainPart
<1>2. /\ CompareStrings(a, b) <=> StringsLess(p, q)
      /\ CompareStringsThrows(a, b) <=> StringsThrow(p, q)
  BY CompareStringsIs, StringsThrowIs
<1>3. /\ CompareSemVer(TextOf(a), TextOf(b)) <=> PartsLess(x, y)
      /\ CompareThrows(TextOf(a), TextOf(b)) <=>
           \E i \in 1..Len(x) : /\ Reaches(x, y, i)
                               /\ IsNum(x[i]) /\ IsNum(y[i])
                               /\ ~(FitsInt(x[i]) /\ FitsInt(y[i]))
  BY DEF CompareSemVer, CompareThrows
<1> HIDE DEF p, q, x, y
<1>4. \A i \in Nat : i \in 1..Len(p) /\ i \in 1..Len(q) =>
        /\ PartLess(x[i], y[i]) <=> StringPartLess(p[i], q[i])
        /\ SamePart(x[i], y[i]) <=> SameStringPart(p[i], q[i])
  BY <1>1, PlainDecides
<1>5. \A i \in Nat : i \in 1..Len(p) /\ i \in 1..Len(q) =>
        /\ IsNum(x[i]) <=> IsDigitFirst(p[i])
        /\ IsNum(y[i]) <=> IsDigitFirst(q[i])
        /\ IsDigitFirst(p[i]) => (FitsInt(x[i]) <=> ~StoiFails(p[i]))
        /\ IsDigitFirst(q[i]) => (FitsInt(y[i]) <=> ~StoiFails(q[i]))
  BY <1>1, PlainDecides
<1>6. \A i \in Nat : Reaches(x, y, i) <=> ReachesString(p, q, i)
  <2> TAKE i \in Nat
  <2>1. Len(p) \in Nat /\ Len(q) \in Nat /\ Len(x) = Len(p) /\ Len(y) = Len(q)
    BY <1>1
  <2>2. ASSUME i \in 1..Len(p), i \in 1..Len(q), NEW j \in 1..(i - 1)
        PROVE  SamePart(x[j], y[j]) <=> SameStringPart(p[j], q[j])
    <3>1. j \in Nat /\ j \in 1..Len(p) /\ j \in 1..Len(q)
      BY <2>1, <2>2
    <3>2. QED
      BY <1>4, <3>1
  <2>3. QED
    BY <2>1, <2>2 DEF Reaches, ReachesString
<1>7. PartsLess(x, y) <=> StringsLess(p, q)
  <2>1. Len(p) \in Nat /\ Len(q) \in Nat /\ Len(x) = Len(p) /\ Len(y) = Len(q)
    BY <1>1
  <2>2. \A i \in 1..Len(p) :
          Reaches(x, y, i) /\ PartLess(x[i], y[i])
            <=> ReachesString(p, q, i) /\ StringPartLess(p[i], q[i])
    <3> TAKE i \in 1..Len(p)
    <3>1. i \in Nat /\ (Reaches(x, y, i) <=> ReachesString(p, q, i))
      BY <1>6, <2>1
    <3>2. ReachesString(p, q, i) => i \in 1..Len(q)
      BY DEF ReachesString
    <3>3. i \in 1..Len(q) => (PartLess(x[i], y[i]) <=> StringPartLess(p[i], q[i]))
      BY <1>4, <3>1
    <3>4. QED
      BY <3>1, <3>2, <3>3
  <2>3. Len(p) < Len(q) =>
          \A i \in 1..Len(p) : SamePart(x[i], y[i]) <=> SameStringPart(p[i], q[i])
    <3>1. Len(p) < Len(q) => \A i \in 1..Len(p) : i \in Nat /\ i \in 1..Len(q)
      BY <2>1
    <3>2. QED
      BY <1>4, <3>1
  <2>4. PartsLess(x, y) <=>
          \/ \E i \in 1..Len(p) : Reaches(x, y, i) /\ PartLess(x[i], y[i])
          \/ Len(p) < Len(q) /\ \A i \in 1..Len(p) : SamePart(x[i], y[i])
    BY <2>1 DEF PartsLess
  <2>5. QED
    BY <2>2, <2>3, <2>4 DEF StringsLess
<1>8. CompareThrows(TextOf(a), TextOf(b)) <=> StringsThrow(p, q)
  <2>1. \A i \in 1..Len(p) :
          (/\ Reaches(x, y, i)
           /\ IsNum(x[i]) /\ IsNum(y[i])
           /\ ~(FitsInt(x[i]) /\ FitsInt(y[i]))) <=> FailsAt(p, q, i)
    <3> TAKE i \in 1..Len(p)
    <3>1. i \in Nat /\ (Reaches(x, y, i) <=> ReachesString(p, q, i))
      BY <1>6
    <3>2. ReachesString(p, q, i) => i \in 1..Len(q)
      BY DEF ReachesString
    <3>3. QED
      BY <1>5, <3>1, <3>2 DEF FailsAt
  <2>2. QED
    BY <1>1, <1>3, <2>1 DEF StringsThrow
<1>9. QED
  BY <1>2, <1>3, <1>7, <1>8

(* VersionText is right about compareSemVer: on the texts that it speaks   *)
(* of, comparing the pieces throws and decides as comparing the strings    *)
(* does.                                                                   *)
THEOREM PiecesDecideCorrect == Spec => []PiecesDecide
<1>1. ASSUME ListInv, HasText(ToText(first)), HasText(ToText(second))
      PROVE  /\ SemVerThrows(first, second) <=>
                  CompareThrows(TextOf(ToText(first)), TextOf(ToText(second)))
             /\ SemVerLess(first, second) <=>
                  /\ ~CompareThrows(TextOf(ToText(first)), TextOf(ToText(second)))
                  /\ CompareSemVer(TextOf(ToText(first)), TextOf(ToText(second)))
  <2>1. ToText(first) \in String /\ ToText(second) \in String
    BY <1>1, TextIsString DEF ListInv
  <2>2. QED
    BY <1>1, <2>1, PiecesCompare DEF SemVerThrows, SemVerLess
<1>2. ListInv => PiecesDecide
  BY <1>1 DEF PiecesDecide
<1>3. QED
  BY <1>2, ListInvariant, PTL
=============================================================================
