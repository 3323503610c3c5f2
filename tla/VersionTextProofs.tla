------------------------- MODULE VersionTextProofs -------------------------
(***************************************************************************)
(* compareSemVer is a strict partial order on version texts, the helpers   *)
(* of minimum() turn texts into texts, and where the results of            *)
(* incrementVersion, computeCaretUpperBound and computeTildeUpperBound lie *)
(* in that order.                                                          *)
(***************************************************************************)
EXTENDS StringText, VersionStringProofs

-----------------------------------------------------------------------------
(* Pieces.                                                                 *)

(* The fields of a piece have the types the comparison relies on.          *)
LEMMA PieceFields ==
  ASSUME NEW a \in Piece
  PROVE  /\ a.kind \in {"num", "tag"}
         /\ a.val \in Int
         /\ IsNum(a) => a.val >= 0
         /\ ~IsNum(a) => a.val # 0
<1>1. CASE a \in Numeral
  BY <1>1 DEF Numeral, IsNum
<1>2. CASE a \in Tag
  BY <1>2 DEF Tag, IsNum
<1>3. QED
  BY <1>1, <1>2 DEF Piece

(* No piece is before itself.                                              *)
LEMMA PartLessIrreflexive ==
  ASSUME NEW a \in Piece
  PROVE  ~PartLess(a, a)
BY PieceFields DEF PartLess

(* The order of pieces is transitive: tags of negative rank, then numerals *)
(* by value, then tags of positive rank.                                   *)
LEMMA PartLessTransitive ==
  ASSUME NEW a \in Piece, NEW b \in Piece, NEW c \in Piece,
         PartLess(a, b), PartLess(b, c)
  PROVE  PartLess(a, c)
BY PieceFields DEF PartLess, IsNum

(* Pieces that compare equal are before and after the same pieces.         *)
LEMMA SamePartLess ==
  ASSUME NEW a \in Piece, NEW b \in Piece, NEW c \in Piece
  PROVE  /\ SamePart(a, b) /\ PartLess(b, c) => PartLess(a, c)
         /\ PartLess(a, b) /\ SamePart(b, c) => PartLess(a, c)
         /\ SamePart(a, b) /\ SamePart(b, c) => SamePart(a, c)
BY PieceFields DEF PartLess, SamePart, IsNum

-----------------------------------------------------------------------------
(* Lists of pieces.  Of two lists the first pair of parts that differ      *)
(* decides, else the shorter list comes first.                             *)

LEMMA PartsLessIrreflexive ==
  ASSUME NEW p \in Seq(Piece)
  PROVE  ~PartsLess(p, p)
<1>1. \A i \in 1..Len(p) : ~PartLess(p[i], p[i])
  BY PartLessIrreflexive
<1>2. QED
  BY <1>1 DEF PartsLess

LEMMA PartsLessTransitive ==
  ASSUME NEW p \in Seq(Piece), NEW q \in Seq(Piece), NEW r \in Seq(Piece),
         PartsLess(p, q), PartsLess(q, r)
  PROVE  PartsLess(p, r)
<1> DEFINE Prefix(a, b) == Len(a) < Len(b) /\ \A i \in 1..Len(a) : SamePart(a[i], b[i])
<1>0. \A k \in Nat : /\ k \in 1..Len(p) /\ k \in 1..Len(q) /\ k \in 1..Len(r)
                     /\ SamePart(p[k], q[k]) /\ SamePart(q[k], r[k])
                     => SamePart(p[k], r[k])
  BY SamePartLess
<1>1. CASE \E i \in 1..Len(p) : Reaches(p, q, i) /\ PartLess(p[i], q[i])
  <2>1. PICK i \in 1..Len(p) : Reaches(p, q, i) /\ PartLess(p[i], q[i])
    BY <1>1
  <2>2. CASE \E j \in 1..Len(q) : Reaches(q, r, j) /\ PartLess(q[j], r[j])
    <3>1. PICK j \in 1..Len(q) : Reaches(q, r, j) /\ PartLess(q[j], r[j])
      BY <2>2
    <3>2. CASE i < j
      <4>1. Reaches(p, r, i)
        BY <2>1, <3>1, <3>2, <1>0 DEF Reaches
      <4>2. PartLess(p[i], r[i])
        BY <2>1, <3>1, <3>2, SamePartLess DEF Reaches
      <4>3. QED
        BY <4>1, <4>2 DEF PartsLess
    <3>3. CASE i = j
      <4>1. Reaches(p, r, i)
        BY <2>1, <3>1, <3>3, <1>0 DEF Reaches
      <4>2. PartLess(p[i], r[i])
        BY <2>1, <3>1, <3>3, PartLessTransitive DEF Reaches
      <4>3. QED
        BY <4>1, <4>2 DEF PartsLess
    <3>4. CASE j < i
      <4>1. Reaches(p, r, j)
        BY <2>1, <3>1, <3>4, <1>0 DEF Reaches
      <4>2. PartLess(p[j], r[j])
        BY <2>1, <3>1, <3>4, SamePartLess DEF Reaches
      <4>3. QED
        BY <4>1, <4>2 DEF PartsLess, Reaches
    <3>5. QED
      BY <3>2, <3>3, <3>4
  <2>3. CASE Prefix(q, r)
    <3>1. Reaches(p, r, i)
      BY <2>1, <2>3, <1>0 DEF Reaches
    <3>2. PartLess(p[i], r[i])
      BY <2>1, <2>3, SamePartLess DEF Reaches
    <3>3. QED
      BY <3>1, <3>2 DEF PartsLess
  <2>4. QED
    BY <2>2, <2>3 DEF PartsLess
<1>2. CASE Prefix(p, q)
  <2>1. CASE \E j \in 1..Len(q) : Reaches(q, r, j) /\ PartLess(q[j], r[j])
    <3>1. PICK j \in 1..Len(q) : Reaches(q, r, j) /\ PartLess(q[j], r[j])
      BY <2>1
    <3>2. CASE j <= Len(p)
      <4>1. Reaches(p, r, j)
        BY <1>2, <3>1, <3>2, <1>0 DEF Reaches
      <4>2. PartLess(p[j], r[j])
        BY <1>2, <3>1, <3>2, SamePartLess DEF Reaches
      <4>3. QED
        BY <4>1, <4>2, <3>2 DEF PartsLess
    <3>3. CASE Len(p) < j
      <4>1. \A i \in 1..Len(p) : SamePart(p[i], r[i])
        BY <1>2, <3>1, <3>3, <1>0 DEF Reaches
      <4>2. Len(p) < Len(r)
        BY <3>1, <3>3 DEF Reaches
      <4>3. QED
        BY <4>1, <4>2 DEF PartsLess
    <3>4. QED
      BY <3>2, <3>3
  <2>2. CASE Prefix(q, r)
    <3>1. \A i \in 1..Len(p) : SamePart(p[i], r[i])
      BY <1>2, <2>2, <1>0
    <3>2. QED
      BY <1>2, <2>2, <3>1 DEF PartsLess
  <2>3. QED
    BY <2>1, <2>2 DEF PartsLess
<1>3. QED
  BY <1>1, <1>2 DEF PartsLess

(* Two lists neither of which is before the other agree in every part, so  *)
(* the order leaves nothing undecided but leading zeros.                   *)
LEMMA PartsLessTotal ==
  ASSUME NEW p \in Seq(Piece), NEW q \in Seq(Piece),
         ~PartsLess(p, q), ~PartsLess(q, p)
  PROVE  /\ Len(p) = Len(q)
         /\ \A i \in 1..Len(p) : SamePart(p[i], q[i])
<1> DEFINE T == {i \in Nat : i \in 1..Len(p) /\ i \in 1..Len(q) /\ ~SamePart(p[i], q[i])}
<1>1. CASE T = {}
  <2>1. \A i \in Nat : i \in 1..Len(p) /\ i \in 1..Len(q) =>
                         SamePart(p[i], q[i]) /\ SamePart(q[i], p[i])
    BY <1>1 DEF SamePart
  <2>2. ~(Len(p) < Len(q))
    BY <2>1 DEF PartsLess
  <2>3. ~(Len(q) < Len(p))
    BY <2>1 DEF PartsLess
  <2>4. QED
    BY <2>1, <2>2, <2>3
<1>2. CASE T # {}
  <2>1. PICK i \in T : \A j \in T : i <= j
    <3>1. T \subseteq Nat
      OBVIOUS
    <3> HIDE DEF T
    <3>2. QED
      BY <3>1, <1>2, LeastNatural
  <2>2. Reaches(p, q, i) /\ Reaches(q, p, i)
    <3>1. \A j \in 1..(i - 1) : SamePart(p[j], q[j])
      BY <2>1
    <3>2. QED
      BY <2>1, <3>1 DEF Reaches, SamePart
  <2>3. PartLess(p[i], q[i]) \/ PartLess(q[i], p[i])
    <3>1. p[i] \in Piece /\ q[i] \in Piece /\ ~SamePart(p[i], q[i])
      BY <2>1
    <3>2. QED
      BY <3>1, PieceFields DEF PartLess, SamePart, IsNum
  <2>4. QED
    BY <2>1, <2>2, <2>3 DEF PartsLess
<1>3. QED
  BY <1>1, <1>2

-----------------------------------------------------------------------------
(* Texts.                                                                  *)

LEMMA SplitType ==
  ASSUME NEW t \in Text \cup {NoText}
  PROVE  Split(t) \in Seq(Piece)
<1>1. t.nums \in Seq(Piece) /\ t.pre \in Seq(Piece)
  <2>1. CASE t \in Text
    BY <2>1 DEF Text
  <2>2. CASE t = NoText
    BY <2>2 DEF NoText
  <2>3. QED
    BY <2>1, <2>2
<1>2. \A s \in Seq(Piece) : DropTrailingEmpty(s) \in Seq(Piece)
  BY DEF DropTrailingEmpty
<1>3. t.nums \o t.pre \in Seq(Piece)
  BY <1>1
<1>4. QED
  BY <1>2, <1>3 DEF Split

(* compareSemVer is irreflexive and transitive: a strict order, so that    *)
(* "the least" and "the greatest" of several versions mean something.      *)
THEOREM CompareSemVerOrder ==
  /\ \A a \in Text : ~CompareSemVer(a, a)
  /\ \A a, b, c \in Text : CompareSemVer(a, b) /\ CompareSemVer(b, c) => CompareSemVer(a, c)
BY SplitType, PartsLessIrreflexive, PartsLessTransitive DEF CompareSemVer

(* Texts that neither precede nor follow each other cannot be told apart   *)
(* by comparing them with a third.                                         *)
THEOREM CompareSemVerTies ==
  ASSUME NEW a \in Text, NEW b \in Text, NEW c \in Text,
         ~CompareSemVer(a, b), ~CompareSemVer(b, a)
  PROVE  /\ CompareSemVer(a, c) <=> CompareSemVer(b, c)
         /\ CompareSemVer(c, a) <=> CompareSemVer(c, b)
<1> DEFINE p == Split(a)
           q == Split(b)
           r == Split(c)
<1>1. p \in Seq(Piece) /\ q \in Seq(Piece) /\ r \in Seq(Piece)
  BY SplitType
<1>2. Len(p) = Len(q) /\ \A i \in 1..Len(p) : SamePart(p[i], q[i])
  BY <1>1, PartsLessTotal DEF CompareSemVer
<1> HIDE DEF p, q, r
<1>3. \A i \in 1..Len(p) : /\ p[i] \in Piece /\ q[i] \in Piece
                           /\ SamePart(p[i], q[i]) /\ SamePart(q[i], p[i])
  BY <1>1, <1>2 DEF SamePart
<1>4. \A i \in Nat : i \in 1..Len(p) /\ i \in 1..Len(r) =>
        /\ SamePart(p[i], r[i]) <=> SamePart(q[i], r[i])
        /\ SamePart(r[i], p[i]) <=> SamePart(r[i], q[i])
        /\ PartLess(p[i], r[i]) <=> PartLess(q[i], r[i])
        /\ PartLess(r[i], p[i]) <=> PartLess(r[i], q[i])
  BY <1>1, <1>3, SamePartLess
<1>5. \A i \in Nat : /\ Reaches(p, r, i) <=> Reaches(q, r, i)
                     /\ Reaches(r, p, i) <=> Reaches(r, q, i)
  BY <1>1, <1>2, <1>4 DEF Reaches
<1>6. PartsLess(p, r) <=> PartsLess(q, r)
  BY <1>1, <1>2, <1>4, <1>5 DEF PartsLess, Reaches
<1>7. PartsLess(r, p) <=> PartsLess(r, q)
  BY <1>1, <1>2, <1>4, <1>5 DEF PartsLess, Reaches
<1>8. QED
  BY <1>6, <1>7 DEF CompareSemVer, p, q, r

-----------------------------------------------------------------------------
(* The helpers turn texts into texts.                                      *)

LEMMA NumPiece ==
  ASSUME NEW n \in Nat
  PROVE  Num(n) \in Piece
BY DEF Num, Piece, Numeral

LEMMA EmptyTextType == EmptyText \in Text /\ NoText \notin Text
<1>1. EmptyPiece \in Piece
  BY DEF EmptyPiece, Word, EmptyRank, Piece, Tag
<1>2. QED
  BY <1>1 DEF EmptyText, NoText, Text

(* At most one of the three ints of a text that the code writes is         *)
(* negative, namely one that has wrapped around.                           *)
LEMMA DottedType ==
  ASSUME NEW m \in Nat, NEW n \in Nat, NEW i \in Int
  PROVE  /\ Dotted(i, m, n) \in Text \ {EmptyText}
         /\ Dotted(m, i, n) \in Text \ {EmptyText}
         /\ Dotted(m, n, i) \in Text \ {EmptyText}
<1>1. EmptyPiece \in Piece /\ Num(m) \in Piece /\ Num(n) \in Piece
  BY NumPiece DEF EmptyPiece, Word, EmptyRank, Piece, Tag
<1>2. CASE i < 0
  <2>1. Num(-i) \in Piece
    BY <1>2, NumPiece
  <2>2. Dotted(i, m, n) \in Text \ {EmptyText}
    <3>1. Dotted(i, m, n) = [nums |-> <<EmptyPiece>>, pre |-> <<Num(-i), Num(m), Num(n)>>]
      BY <1>2 DEF Dotted
    <3>2. <<EmptyPiece>> \in Seq(Piece) \ {<<>>} /\ <<Num(-i), Num(m), Num(n)>> \in Seq(Piece)
      BY <1>1, <2>1
    <3>3. Dotted(i, m, n).pre # EmptyText.pre
      BY <3>1 DEF EmptyText
    <3>4. Dotted(i, m, n) \in Text
      BY <3>1, <3>2 DEF Text
    <3>5. QED
      BY <3>3, <3>4
  <2>3. Dotted(m, i, n) \in Text \ {EmptyText}
    <3>1. Dotted(m, i, n) = [nums |-> <<Num(m), EmptyPiece>>, pre |-> <<Num(-i), Num(n)>>]
      BY <1>2 DEF Dotted
    <3>2. <<Num(m), EmptyPiece>> \in Seq(Piece) \ {<<>>} /\ <<Num(-i), Num(n)>> \in Seq(Piece)
      BY <1>1, <2>1
    <3>3. QED
      BY <3>1, <3>2 DEF Text, EmptyText
  <2>4. Dotted(m, n, i) \in Text \ {EmptyText}
    <3>1. Dotted(m, n, i) = [nums |-> <<Num(m), Num(n), EmptyPiece>>, pre |-> <<Num(-i)>>]
      BY <1>2 DEF Dotted
    <3>2. <<Num(m), Num(n), EmptyPiece>> \in Seq(Piece) \ {<<>>} /\ <<Num(-i)>> \in Seq(Piece)
      BY <1>1, <2>1
    <3>3. Dotted(m, n, i).pre # EmptyText.pre
      BY <3>1 DEF EmptyText
    <3>4. Dotted(m, n, i) \in Text
      BY <3>1, <3>2 DEF Text
    <3>5. QED
      BY <3>3, <3>4
  <2>5. QED
    BY <2>2, <2>3, <2>4
<1>3. CASE i >= 0
  <2>1. Num(i) \in Piece
    BY <1>3, NumPiece
  <2>2. QED
    BY <1>1, <1>3, <2>1 DEF Dotted, Text, EmptyText
<1>4. QED
  BY <1>2, <1>3

(* What the regular expression of coerce() matches is one, two or three    *)
(* numerals of the text.                                                   *)
LEMMA MatchInType ==
  ASSUME NEW s \in Seq(Piece), \E i \in DOMAIN s : IsNum(s[i])
  PROVE  /\ MatchIn(s) \in Seq(Piece)
         /\ Len(MatchIn(s)) \in 1..3
         /\ \A i \in 1..Len(MatchIn(s)) : IsNum(MatchIn(s)[i])
         /\ \A i \in 1..Len(MatchIn(s)) : \E j \in DOMAIN s : MatchIn(s)[i] = s[j]
<1> DEFINE F(i) == IsNum(s[i]) /\ \A j \in 1..(i - 1) : ~IsNum(s[j])
           first == CHOOSE i \in 1..Len(s) : F(i)
           more(i) == i <= Len(s) /\ IsNum(s[i])
           last == IF ~more(first + 1) THEN first
                   ELSE IF ~more(first + 2) THEN first + 1 ELSE first + 2
<1>1. \E i \in 1..Len(s) : F(i)
  <2> DEFINE T == {i \in Nat : i \in 1..Len(s) /\ IsNum(s[i])}
  <2>1. T \subseteq Nat /\ T # {}
    OBVIOUS
  <2>2. PICK i \in T : \A j \in T : i <= j
    <3> HIDE DEF T
    <3>1. QED
      BY <2>1, LeastNatural
  <2>3. QED
    BY <2>2
<1>2. first \in 1..Len(s) /\ IsNum(s[first])
  BY <1>1
<1> HIDE DEF first
<1>3. /\ last \in first..(first + 2)
      /\ last <= Len(s)
      /\ \A i \in first..last : IsNum(s[i])
  BY <1>2
<1> HIDE DEF last
<1>4. MatchIn(s) = SubSeq(s, first, last)
  BY DEF MatchIn, first, last
<1>5. first \in 1..Len(s) /\ last \in 1..Len(s) /\ first <= last /\ last - first + 1 \in 1..3
  BY <1>2, <1>3
<1>6. /\ SubSeq(s, first, last) \in Seq(Piece)
      /\ Len(SubSeq(s, first, last)) = last - first + 1
      /\ \A i \in 1..(last - first + 1) : SubSeq(s, first, last)[i] = s[first + i - 1]
  BY <1>5
<1>7. \A i \in 1..(last - first + 1) : IsNum(s[first + i - 1])
  BY <1>3, <1>5
<1>8. \A i \in 1..Len(MatchIn(s)) : IsNum(MatchIn(s)[i])
  BY <1>4, <1>6, <1>7
<1>9. \A i \in 1..Len(MatchIn(s)) : \E j \in DOMAIN s : MatchIn(s)[i] = s[j]
  <2>1. \A i \in 1..(last - first + 1) : first + i - 1 \in DOMAIN s
    BY <1>5
  <2>2. QED
    BY <1>4, <1>6, <2>1
<1>10. QED
  BY <1>4, <1>5, <1>6, <1>8, <1>9

LEMMA MatchType ==
  ASSUME NEW t \in Text
  PROVE  /\ Match(t) \in Seq(Piece)
         /\ Len(Match(t)) \in 0..3
         /\ \A i \in 1..Len(Match(t)) : IsNum(Match(t)[i])
         /\ \A i \in 1..Len(Match(t)) : \/ \E j \in DOMAIN t.nums : Match(t)[i] = t.nums[j]
                                        \/ \E j \in DOMAIN t.pre : Match(t)[i] = t.pre[j]
<1>1. t.nums \in Seq(Piece) /\ t.pre \in Seq(Piece)
  BY DEF Text
<1>2. QED
  BY <1>1, MatchInType DEF Match

LEMMA ValueOr0Type ==
  ASSUME NEW s \in Seq(Piece), NEW i \in Nat \ {0}, i <= Len(s) => IsNum(s[i])
  PROVE  ValueOr0(s, i) \in Nat
<1>1. CASE i <= Len(s)
  <2>1. s[i] \in Piece
    BY <1>1
  <2>2. QED
    BY <1>1, <2>1, PieceFields DEF ValueOr0
<1>2. CASE i > Len(s)
  BY <1>2 DEF ValueOr0
<1>3. QED
  BY <1>1, <1>2

(* coerce() finds a text of three natural numbers, or nothing.             *)
LEMMA CoerceType ==
  ASSUME NEW t \in Text, Match(t) # <<>>
  PROVE  \E m, n, p \in Nat : Coerce(t) = Dotted(m, n, p)
<1>1. \A i \in 1..3 : ValueOr0(Match(t), i) \in Nat
  BY MatchType, ValueOr0Type
<1>2. QED
  BY <1>1 DEF Coerce

LEMMA CoerceText ==
  ASSUME NEW t \in Text
  PROVE  Coerce(t) \in Text \cup {NoText}
<1>1. CASE Match(t) = <<>>
  BY <1>1 DEF Coerce
<1>2. CASE Match(t) # <<>>
  <2>1. PICK m \in Nat, n \in Nat, p \in Nat : Coerce(t) = Dotted(m, n, p)
    BY <1>2, CoerceType
  <2>2. QED
    BY <2>1, DottedType
<1>3. QED
  BY <1>1, <1>2

LEMMA Plus1Type ==
  ASSUME NEW n \in Nat
  PROVE  Plus1(n) \in Int
BY IntAssumption, LimitsAssumption DEF Plus1

(* The successor of a text is a text with at least one character, and      *)
(* there is one when the first three pieces are ints.                      *)
LEMMA IncrementSucceeds ==
  ASSUME NEW t \in Text, \A i \in DOMAIN t.nums : i <= 3 => FitsInt(t.nums[i])
  PROVE  IncrementVersion(t) \in Text \ {EmptyText}
<1> DEFINE int(i) == ValueOr0(t.nums, i)
<1>1. t.nums \in Seq(Piece) /\ t.pre \in Seq(Piece)
  BY DEF Text
<1>2. int(1) \in Nat /\ int(2) \in Nat /\ int(3) \in Nat
  BY <1>1, ValueOr0Type DEF FitsInt
<1>3. Plus1(int(3)) \in Int
  BY <1>2, Plus1Type
<1> HIDE DEF int
<1>4. Dotted(int(1), int(2), Plus1(int(3))) \in Text \ {EmptyText}
  BY <1>2, <1>3, DottedType
<1>5. [nums |-> Dotted(int(1), int(2), int(3)).nums, pre |-> Append(t.pre, Num(0))]
        \in Text \ {EmptyText}
  <2>1. Dotted(int(1), int(2), int(3)).nums \in Seq(Piece) \ {<<>>}
    <3>1. Dotted(int(1), int(2), int(3)) \in Text
      BY <1>2, DottedType
    <3>2. QED
      BY <3>1 DEF Text
  <2>2. Append(t.pre, Num(0)) \in Seq(Piece) /\ Append(t.pre, Num(0)) # <<>>
    BY <1>1, NumPiece
  <2>3. QED
    BY <2>1, <2>2 DEF Text, EmptyText
<1>6. \/ IncrementVersion(t) = Dotted(int(1), int(2), Plus1(int(3)))
      \/ IncrementVersion(t) = [nums |-> Dotted(int(1), int(2), int(3)).nums,
                                pre |-> Append(t.pre, Num(0))]
  BY DEF IncrementVersion, int
<1>7. QED
  BY <1>4, <1>5, <1>6

LEMMA IncrementVersionType ==
  ASSUME NEW t \in Text
  PROVE  IncrementVersion(t) \in (Text \cup {NoText}) \ {EmptyText}
<1>1. CASE \E i \in DOMAIN t.nums : i <= 3 /\ ~FitsInt(t.nums[i])
  BY <1>1 DEF IncrementVersion, NoText, EmptyText
<1>2. CASE \A i \in DOMAIN t.nums : i <= 3 => FitsInt(t.nums[i])
  BY <1>2, IncrementSucceeds
<1>3. QED
  BY <1>1, <1>2

LEMMA CaretType ==
  ASSUME NEW t \in Text
  PROVE  ComputeCaretUpperBound(t) \in Text
<1>1. CASE Match(t) = <<>>
  BY <1>1, EmptyTextType DEF ComputeCaretUpperBound
<1>2. CASE Match(t) # <<>>
  <2>1. PICK m \in Nat, n \in Nat, p \in Nat : Coerce(t) = Dotted(m, n, p)
    BY <1>2, CoerceType
  <2> DEFINE c == Coerce(t).nums
  <2>2. c[1].val = m /\ c[2].val = n /\ c[3].val = p
    BY <2>1 DEF Dotted, Num
  <2>3. /\ Dotted(Plus1(m), 0, 0) \in Text
        /\ Dotted(0, Plus1(n), 0) \in Text
        /\ Dotted(0, 0, Plus1(p)) \in Text
    <3>1. Plus1(m) \in Int /\ Plus1(n) \in Int /\ Plus1(p) \in Int
      BY Plus1Type
    <3>2. QED
      BY <3>1, DottedType
  <2> HIDE DEF c
  <2>4. ComputeCaretUpperBound(t) \in
          {Dotted(Plus1(m), 0, 0), Dotted(0, Plus1(n), 0), Dotted(0, 0, Plus1(p))}
    BY <1>2, <2>2 DEF ComputeCaretUpperBound, c
  <2>5. QED
    BY <2>3, <2>4
<1>3. QED
  BY <1>1, <1>2

LEMMA DotPartsType ==
  ASSUME NEW t \in Text
  PROVE  DotParts(t) \in Seq(Piece)
<1>1. t.nums \in Seq(Piece) /\ t.pre \in Seq(Piece)
  BY DEF Text
<1>2. \A s \in Seq(Piece) : DropTrailingEmpty(s) \in Seq(Piece)
  BY DEF DropTrailingEmpty
<1>3. t.pre # <<>> => Tail(t.pre) \in Seq(Piece)
  BY <1>1
<1>4. ASSUME t.pre # <<>>
      PROVE  t.nums \o DropTrailingEmpty(Tail(t.pre)) \in Seq(Piece)
  <2>1. DropTrailingEmpty(Tail(t.pre)) \in Seq(Piece)
    BY <1>2, <1>3, <1>4
  <2>2. \A a, b \in Seq(Piece) : a \o b \in Seq(Piece)
    OBVIOUS
  <2>3. QED
    BY <1>1, <2>1, <2>2
<1>5. QED
  BY <1>1, <1>2, <1>4 DEF DotParts

LEMMA TildeType ==
  ASSUME NEW t \in Text, ~TildeThrows(t), ~TildeReadsPastEnd(t)
  PROVE  ComputeTildeUpperBound(t) \in Text
<1>1. CASE Match(t) = <<>>
  BY <1>1, EmptyTextType DEF ComputeTildeUpperBound
<1>2. CASE Match(t) # <<>>
  <2>1. DotParts(t) \in Seq(Piece)
    BY DotPartsType
  <2>2. /\ 1 \in DOMAIN DotParts(t) /\ FitsInt(DotParts(t)[1])
        /\ 2 \in DOMAIN DotParts(t) /\ FitsInt(DotParts(t)[2])
    BY <1>2, <2>1 DEF TildeThrows, TildeReadsPastEnd
  <2>3. DotParts(t)[1].val \in Nat /\ DotParts(t)[2].val \in Nat
    BY <2>1, <2>2, PieceFields DEF FitsInt
  <2>4. Plus1(DotParts(t)[2].val) \in Int
    BY <2>3, Plus1Type
  <2>5. QED
    BY <1>2, <2>3, <2>4, DottedType DEF ComputeTildeUpperBound
<1>3. QED
  BY <1>1, <1>2

-----------------------------------------------------------------------------
(* The result of incrementVersion lies above its argument.                 *)

(* Split drops the empty piece behind a '-' at the end of a text.          *)
LEMMA SplitDropsLast ==
  ASSUME NEW s \in Seq(Piece)
  PROVE  DropTrailingEmpty(s \o <<EmptyPiece>>) = s
<1> DEFINE t == s \o <<EmptyPiece>>
<1>1. EmptyPiece \in Piece
  BY DEF EmptyPiece, Word, EmptyRank, Piece, Tag
<1>2. t \in Seq(Piece) /\ Len(t) = Len(s) + 1 /\ t[Len(s) + 1] = EmptyPiece
  BY <1>1
<1>3. \A i \in 1..Len(s) : t[i] = s[i]
  BY <1>1
<1> HIDE DEF t
<1>4. DropTrailingEmpty(t) = SubSeq(t, 1, Len(s))
  BY <1>2 DEF DropTrailingEmpty
<1>5. SubSeq(t, 1, Len(s)) = s
  <2>1. /\ SubSeq(t, 1, Len(s)) \in Seq(Piece)
        /\ Len(SubSeq(t, 1, Len(s))) = Len(s)
        /\ \A i \in 1..Len(s) : SubSeq(t, 1, Len(s))[i] = s[i]
    BY <1>2, <1>3
  <2>2. QED
    BY <2>1
<1>6. QED
  BY <1>4, <1>5 DEF t

(* A release is below the release with the next patch number.              *)
LEMMA ReleaseIncreases ==
  ASSUME NEW t \in Text, IsRelease(t), ~AtLimit(t), IncrementVersion(t) # NoText
  PROVE  CompareSemVer(t, IncrementVersion(t))
<1> DEFINE int(i) == ValueOr0(t.nums, i)
           p == Split(t)
           q == Split(IncrementVersion(t))
<1>1. t.nums \in Seq(Piece) \ {<<>>}
  BY DEF Text
<1>2. \A i \in DOMAIN t.nums : i <= 3 => FitsInt(t.nums[i])
  BY DEF IncrementVersion
<1>3. int(1) \in Nat /\ int(2) \in Nat /\ int(3) \in 0..(IntMax - 1)
  <2>1. int(1) \in Nat /\ int(2) \in Nat /\ int(3) \in Nat
    BY <1>1, <1>2, ValueOr0Type DEF FitsInt
  <2>2. int(3) <= IntMax /\ int(3) # IntMax
    BY <1>1, <1>2, IntAssumption, LimitsAssumption DEF ValueOr0, FitsInt, AtLimit
  <2>3. QED
    BY <2>1, <2>2, IntAssumption, LimitsAssumption
<1>4. IncrementVersion(t) = [nums |-> <<Num(int(1)), Num(int(2)), Num(int(3) + 1)>>, pre |-> <<>>]
  <2>1. IncrementVersion(t) = Dotted(int(1), int(2), Plus1(int(3)))
    BY <1>2 DEF IncrementVersion, IsRelease
  <2> HIDE DEF int, p, q
  <2>2. Plus1(int(3)) = int(3) + 1 /\ int(3) + 1 \in Nat
    BY <1>3, IntAssumption, LimitsAssumption DEF Plus1
  <2>3. Dotted(int(1), int(2), int(3) + 1)
          = [nums |-> <<Num(int(1)), Num(int(2)), Num(int(3) + 1)>>, pre |-> <<>>]
    BY <1>3, <2>2 DEF Dotted
  <2>4. QED
    BY <2>1, <2>2, <2>3
<1>5. /\ q = <<Num(int(1)), Num(int(2)), Num(int(3) + 1)>>
  <2> HIDE DEF int
  <2>1. Num(int(3) + 1) # EmptyPiece
    BY DEF Num, EmptyPiece, Word
  <2>2. QED
    BY <1>4, <2>1 DEF Split, DropTrailingEmpty
<1>6. /\ p \in Seq(Piece)
      /\ Len(p) >= IF Len(t.nums) <= 3 THEN Len(t.nums) ELSE 3
      /\ Len(t.nums) <= 3 => Len(p) = Len(t.nums)
      /\ \A i \in DOMAIN p : i <= Len(t.nums) => p[i] = t.nums[i]
  <2>1. \A i \in DOMAIN t.nums : i <= 3 => t.nums[i] # EmptyPiece
    BY <1>2 DEF FitsInt, IsNum, EmptyPiece, Word
  <2>2. CASE t.pre = <<>>
    <3>1. p = DropTrailingEmpty(t.nums)
      BY <1>1, <2>2 DEF Split
    <3>2. QED
      BY <1>1, <2>1, <3>1 DEF DropTrailingEmpty
  <2>3. CASE t.pre = <<EmptyPiece>>
    <3>1. p = t.nums
      BY <1>1, <2>3, SplitDropsLast DEF Split
    <3>2. QED
      BY <1>1, <3>1
  <2>4. QED
    BY <2>2, <2>3 DEF IsRelease
<1> HIDE DEF p, q
<1>7. \A i \in 1..3 : i <= Len(t.nums) => IsNum(p[i]) /\ p[i].val = int(i)
  BY <1>1, <1>2, <1>6 DEF FitsInt, ValueOr0
<1> HIDE DEF int
<1>8. Len(q) = 3 /\ \A i \in 1..3 : q[i] = Num(IF i = 3 THEN int(3) + 1 ELSE int(i))
  BY <1>5
<1>9. \A i \in 1..2 : i <= Len(t.nums) => SamePart(p[i], q[i])
  BY <1>7, <1>8 DEF SamePart, IsNum, Num
<1>10. CASE Len(t.nums) < 3
  <2>1. Len(p) < Len(q) /\ \A i \in 1..Len(p) : SamePart(p[i], q[i])
    BY <1>1, <1>6, <1>8, <1>9, <1>10
  <2>2. QED
    BY <2>1 DEF CompareSemVer, PartsLess, p, q
<1>11. CASE Len(t.nums) >= 3
  <2>1. Len(p) >= 3
    BY <1>1, <1>6, <1>11
  <2>2. Reaches(p, q, 3)
    BY <1>1, <1>6, <1>8, <1>9, <1>11, <2>1 DEF Reaches
  <2>3. PartLess(p[3], q[3])
    BY <1>3, <1>7, <1>8, <1>11 DEF PartLess, IsNum, Num
  <2>4. QED
    BY <1>6, <2>1, <2>2, <2>3 DEF CompareSemVer, PartsLess, p, q
<1>12. QED
  BY <1>1, <1>10, <1>11

(* Where the elements of two sequences in a row stand.                     *)
LEMMA Joined ==
  ASSUME NEW a \in Seq(Piece), NEW b \in Seq(Piece)
  PROVE  /\ a \o b \in Seq(Piece)
         /\ Len(a \o b) = Len(a) + Len(b)
         /\ \A i \in 1..(Len(a) + Len(b)) :
              (a \o b)[i] = IF i <= Len(a) THEN a[i] ELSE b[i - Len(a)]
OBVIOUS

(* A list of parts is below one with parts that compare equal as far as it *)
(* goes, and a part more.                                                  *)
LEMMA OneMorePart ==
  ASSUME NEW a \in Seq(Piece), NEW b \in Seq(Piece), NEW m \in Seq(Piece),
         NEW w \in Piece, w # EmptyPiece,
         Len(a) = Len(m), \A i \in 1..Len(a) : SamePart(a[i], m[i])
  PROVE  PartsLess(DropTrailingEmpty(a \o b), DropTrailingEmpty(m \o Append(b, w)))
<1> DEFINE u == Append(b, w)
           s == a \o b
           r == m \o u
           p == DropTrailingEmpty(s)
<1>1. /\ u \in Seq(Piece) /\ Len(u) = Len(b) + 1 /\ u[Len(u)] = w
      /\ \A i \in 1..Len(b) : u[i] = b[i]
  OBVIOUS
<1> HIDE DEF u
<1>2. /\ s \in Seq(Piece) /\ Len(s) = Len(a) + Len(b)
      /\ \A i \in 1..(Len(a) + Len(b)) : s[i] = IF i <= Len(a) THEN a[i] ELSE b[i - Len(a)]
  BY Joined
<1>3. /\ r \in Seq(Piece) /\ Len(r) = Len(m) + Len(u)
      /\ \A i \in 1..(Len(m) + Len(u)) : r[i] = IF i <= Len(m) THEN m[i] ELSE u[i - Len(m)]
  BY <1>1, Joined
<1> HIDE DEF r, s
<1>4. Len(a) \in Nat /\ Len(b) \in Nat
  OBVIOUS
<1>5. \A i \in 1..Len(s) : SamePart(s[i], r[i])
  <2> SUFFICES ASSUME NEW i \in 1..Len(s)
               PROVE  SamePart(s[i], r[i])
    OBVIOUS
  <2>1. i \in 1..(Len(a) + Len(b)) /\ i \in 1..(Len(m) + Len(u))
    BY <1>1, <1>2, <1>4
  <2>2. CASE i <= Len(a)
    <3>1. s[i] = a[i] /\ r[i] = m[i]
      BY <1>2, <1>3, <2>1, <2>2
    <3>2. i \in 1..Len(a)
      BY <1>4, <2>1, <2>2
    <3>3. QED
      BY <3>1, <3>2
  <2>3. CASE ~(i <= Len(a))
    <3>1. s[i] = b[i - Len(a)] /\ r[i] = u[i - Len(a)]
      BY <1>2, <1>3, <2>1, <2>3
    <3>2. i - Len(a) \in 1..Len(b)
      BY <1>4, <2>1, <2>3
    <3>3. s[i] = r[i]
      BY <1>1, <3>1, <3>2
    <3>4. QED
      BY <3>3 DEF SamePart
  <2>4. QED
    BY <2>2, <2>3
<1>6. r[Len(r)] = w
  <2>1. Len(r) \in 1..(Len(m) + Len(u)) /\ ~(Len(r) <= Len(m)) /\ Len(r) - Len(m) = Len(u)
    BY <1>1, <1>3, <1>4
  <2>2. QED
    BY <1>1, <1>3, <2>1
<1>7. DropTrailingEmpty(r) = r
  BY <1>6 DEF DropTrailingEmpty
<1>8. p \in Seq(Piece) /\ Len(p) <= Len(s) /\ \A i \in 1..Len(p) : p[i] = s[i]
  BY <1>2 DEF DropTrailingEmpty
<1> HIDE DEF p
<1>9. Len(p) < Len(r) /\ \A i \in 1..Len(p) : SamePart(p[i], r[i])
  BY <1>1, <1>2, <1>3, <1>4, <1>5, <1>8
<1>10. QED
  BY <1>7, <1>9 DEF PartsLess, p, r, s, u

(* A pre-release is below the one that has ".0" behind it.                 *)
LEMMA PreReleaseIncreases ==
  ASSUME NEW t \in Text, Full(t), ~IsRelease(t), IncrementVersion(t) # NoText
  PROVE  CompareSemVer(t, IncrementVersion(t))
<1> DEFINE int(i) == ValueOr0(t.nums, i)
           nums == <<Num(int(1)), Num(int(2)), Num(int(3))>>
<1>1. t.nums \in Seq(Piece) /\ Len(t.nums) = 3 /\ t.pre \in Seq(Piece)
  BY DEF Text, Full
<1>2. \A i \in 1..3 : FitsInt(t.nums[i])
  BY <1>1 DEF IncrementVersion
<1>3. \A i \in 1..3 : int(i) \in Nat /\ int(i) = t.nums[i].val /\ IsNum(t.nums[i])
  BY <1>1, <1>2, PieceFields DEF ValueOr0, FitsInt
<1>4. IncrementVersion(t) = [nums |-> nums, pre |-> Append(t.pre, Num(0))]
  <2>1. IncrementVersion(t) = [nums |-> Dotted(int(1), int(2), int(3)).nums,
                               pre |-> Append(t.pre, Num(0))]
    BY <1>1, <1>2 DEF IncrementVersion, IsRelease
  <2> HIDE DEF int
  <2>2. Dotted(int(1), int(2), int(3)).nums = nums
    BY <1>3 DEF Dotted
  <2>3. QED
    BY <2>1, <2>2
<1>5. nums \in Seq(Piece) /\ Num(0) \in Piece /\ Num(0) # EmptyPiece
  BY <1>3, NumPiece DEF Num, EmptyPiece, Word
<1>6. Len(nums) = 3 /\ \A i \in 1..3 : SamePart(t.nums[i], nums[i])
  <2> HIDE DEF int
  <2>1. Len(nums) = 3 /\ \A i \in 1..3 : nums[i] = Num(int(i))
    OBVIOUS
  <2> HIDE DEF nums
  <2>2. QED
    BY <1>3, <2>1 DEF SamePart, IsNum, Num
<1> HIDE DEF int, nums
<1>7. PartsLess(DropTrailingEmpty(t.nums \o t.pre),
                DropTrailingEmpty(nums \o Append(t.pre, Num(0))))
  BY <1>1, <1>5, <1>6, OneMorePart
<1>8. QED
  BY <1>4, <1>7 DEF CompareSemVer, Split

-----------------------------------------------------------------------------
(* Lists of parts that begin with three numerals.                          *)

Begins(p, a, b, c) ==
  /\ p \in Seq(Piece) /\ Len(p) >= 3
  /\ IsNum(p[1]) /\ p[1].val = a
  /\ IsNum(p[2]) /\ p[2].val = b
  /\ IsNum(p[3]) /\ p[3].val = c

Below(a, b, c, x, y, z) ==
  \/ a < x
  \/ a = x /\ b < y
  \/ a = x /\ b = y /\ c < z

LEMMA BeginsLess ==
  ASSUME NEW p, NEW q, NEW a \in Nat, NEW b \in Nat, NEW c \in Nat,
         NEW x \in Nat, NEW y \in Nat, NEW z \in Nat,
         Begins(p, a, b, c), Begins(q, x, y, z)
  PROVE  /\ Below(a, b, c, x, y, z) => PartsLess(p, q)
         /\ PartsLess(p, q) /\ Len(q) = 3 => Below(a, b, c, x, y, z)
<1>1. /\ p \in Seq(Piece) /\ Len(p) >= 3 /\ q \in Seq(Piece) /\ Len(q) >= 3
      /\ 1 \in 1..Len(p) /\ 2 \in 1..Len(p) /\ 3 \in 1..Len(p)
      /\ 1 \in 1..Len(q) /\ 2 \in 1..Len(q) /\ 3 \in 1..Len(q)
  BY DEF Begins
<1>2. /\ SamePart(p[1], q[1]) <=> a = x
      /\ SamePart(p[2], q[2]) <=> b = y
      /\ PartLess(p[1], q[1]) <=> a < x
      /\ PartLess(p[2], q[2]) <=> b < y
      /\ PartLess(p[3], q[3]) <=> c < z
  BY DEF Begins, SamePart, PartLess, IsNum
<1>3. ASSUME Below(a, b, c, x, y, z)
      PROVE  PartsLess(p, q)
  <2>1. CASE a < x
    <3>1. Reaches(p, q, 1)
      BY <1>1 DEF Reaches
    <3>2. QED
      BY <1>1, <1>2, <2>1, <3>1 DEF PartsLess
  <2>2. CASE a = x /\ b < y
    <3>1. Reaches(p, q, 2)
      BY <1>1, <1>2, <2>2 DEF Reaches
    <3>2. QED
      BY <1>1, <1>2, <2>2, <3>1 DEF PartsLess
  <2>3. CASE a = x /\ b = y /\ c < z
    <3>1. Reaches(p, q, 3)
      <4>1. \A j \in 1..2 : j = 1 \/ j = 2
        OBVIOUS
      <4>2. QED
        BY <1>1, <1>2, <2>3, <4>1 DEF Reaches
    <3>2. QED
      BY <1>1, <1>2, <2>3, <3>1 DEF PartsLess
  <2>4. QED
    BY <1>3, <2>1, <2>2, <2>3 DEF Below
<1>4. ASSUME PartsLess(p, q), Len(q) = 3
      PROVE  Below(a, b, c, x, y, z)
  <2>1. ~(Len(p) < Len(q))
    BY <1>1, <1>4
  <2>2. PICK i \in 1..Len(p) : Reaches(p, q, i) /\ PartLess(p[i], q[i])
    BY <1>4, <2>1 DEF PartsLess
  <2>3. i \in 1..3 /\ \A j \in 1..(i - 1) : SamePart(p[j], q[j])
    BY <1>4, <2>2 DEF Reaches
  <2>4. CASE i = 1
    BY <1>2, <2>2, <2>4 DEF Below
  <2>5. CASE i = 2
    BY <1>2, <2>2, <2>3, <2>5 DEF Below
  <2>6. CASE i = 3
    <3>1. SamePart(p[1], q[1]) /\ SamePart(p[2], q[2])
      BY <2>3, <2>6
    <3>2. QED
      BY <1>2, <2>2, <2>6, <3>1 DEF Below
  <2>7. QED
    BY <2>3, <2>4, <2>5, <2>6
<1>5. QED
  BY <1>3, <1>4

(* Dropping an empty piece at the end leaves three parts in front alone.   *)
LEMMA DropKeepsLead ==
  ASSUME NEW t \in Seq(Piece), Len(t) >= 3, t[3] # EmptyPiece
  PROVE  /\ DropTrailingEmpty(t) \in Seq(Piece)
         /\ Len(DropTrailingEmpty(t)) >= 3
         /\ \A i \in 1..3 : DropTrailingEmpty(t)[i] = t[i]
<1>1. CASE t[Len(t)] = EmptyPiece
  <2>1. PICK n \in Nat : n = Len(t)
    OBVIOUS
  <2>2. n >= 3 /\ n # 3
    BY <1>1, <2>1
  <2>3. n - 1 >= 3 /\ n - 1 <= n /\ n - 1 \in Nat
    BY <2>2
  <2>4. DropTrailingEmpty(t) = SubSeq(t, 1, n - 1)
    BY <1>1, <2>1, <2>2 DEF DropTrailingEmpty
  <2>5. QED
    BY <2>1, <2>3, <2>4
<1>2. CASE t[Len(t)] # EmptyPiece
  BY <1>2 DEF DropTrailingEmpty
<1>3. QED
  BY <1>1, <1>2

LEMMA JoinedBegins ==
  ASSUME NEW s \in Seq(Piece), NEW u \in Seq(Piece), NEW a, NEW b, NEW c, Begins(s, a, b, c)
  PROVE  Begins(s \o u, a, b, c) /\ Begins(DropTrailingEmpty(s \o u), a, b, c)
<1> DEFINE t == s \o u
<1>1. Len(s) >= 3 /\ s[3] # EmptyPiece
  BY DEF Begins, IsNum, EmptyPiece, Word
<1>2. t \in Seq(Piece) /\ Len(t) >= 3 /\ \A i \in 1..3 : t[i] = s[i]
  <2>1. /\ t \in Seq(Piece) /\ Len(t) = Len(s) + Len(u)
        /\ \A i \in 1..(Len(s) + Len(u)) :
             t[i] = IF i <= Len(s) THEN s[i] ELSE u[i - Len(s)]
    BY Joined
  <2> HIDE DEF t
  <2>2. Len(t) >= 3 /\ \A i \in 1..3 : i \in 1..(Len(s) + Len(u)) /\ i <= Len(s)
    BY <1>1, <2>1
  <2>3. QED
    BY <2>1, <2>2
<1> HIDE DEF t
<1>3. /\ DropTrailingEmpty(t) \in Seq(Piece)
      /\ Len(DropTrailingEmpty(t)) >= 3
      /\ \A i \in 1..3 : DropTrailingEmpty(t)[i] = t[i]
  BY <1>1, <1>2, DropKeepsLead
<1>4. QED
  BY <1>2, <1>3 DEF Begins, t

LEMMA NumsBegin ==
  ASSUME NEW t \in Text, NEW a, NEW b, NEW c, Begins(t.nums, a, b, c)
  PROVE  Begins(Split(t), a, b, c)
BY JoinedBegins DEF Split, Text

(* A text of three natural numbers.                                        *)
LEMMA DottedParts ==
  ASSUME NEW m \in Nat, NEW n \in Nat, NEW p \in Nat
  PROVE  /\ Dotted(m, n, p) = [nums |-> <<Num(m), Num(n), Num(p)>>, pre |-> <<>>]
         /\ Dotted(m, n, p).nums = <<Num(m), Num(n), Num(p)>>
         /\ Dotted(m, n, p) \in Text
         /\ Len(Split(Dotted(m, n, p))) = 3
         /\ Begins(Split(Dotted(m, n, p)), m, n, p)
<1>1. Dotted(m, n, p) = [nums |-> <<Num(m), Num(n), Num(p)>>, pre |-> <<>>]
  BY DEF Dotted
<1>2. Dotted(m, n, p) \in Text
  BY DottedType
<1>3. Split(Dotted(m, n, p)) = <<Num(m), Num(n), Num(p)>>
  <2>1. Num(p) # EmptyPiece
    BY DEF Num, EmptyPiece, Word
  <2>2. QED
    BY <1>1, <2>1 DEF Split, DropTrailingEmpty
<1>4. Begins(<<Num(m), Num(n), Num(p)>>, m, n, p)
  BY NumPiece DEF Begins, IsNum, Num
<1>5. QED
  BY <1>1, <1>2, <1>3, <1>4

LEMMA ReleaseParts ==
  ASSUME NEW r \in Releases
  PROVE  \E x, y, z \in 0..IntMax :
           r = Dotted(x, y, z) /\ r \in Text /\ Len(Split(r)) = 3 /\ Begins(Split(r), x, y, z)
<1>1. PICK x \in 0..IntMax, y \in 0..IntMax, z \in 0..IntMax : r = Dotted(x, y, z)
  BY DEF Releases
<1>2. x \in Nat /\ y \in Nat /\ z \in Nat
  BY IntAssumption
<1>3. QED
  BY <1>1, <1>2, DottedParts

-----------------------------------------------------------------------------
(* No release lies between a version and its successor, or below the       *)
(* candidate of a sub-range without lower bounds.                          *)

LEMMA ZeroIsLeast ==
  ASSUME NEW r \in Releases
  PROVE  ~CompareSemVer(r, Zero)
<1>1. PICK x \in 0..IntMax, y \in 0..IntMax, z \in 0..IntMax : Begins(Split(r), x, y, z)
  BY ReleaseParts
<1>2. Begins(Split(Zero), 0, 0, 0) /\ Len(Split(Zero)) = 3
  BY DottedParts DEF Zero
<1>3. x \in Nat /\ y \in Nat /\ z \in Nat
  BY IntAssumption
<1>4. ~Below(x, y, z, 0, 0, 0)
  BY <1>3 DEF Below
<1>5. QED
  BY <1>1, <1>2, <1>3, <1>4, BeginsLess DEF CompareSemVer

LEMMA IncrementForm ==
  ASSUME NEW t \in Text, 3 \in DOMAIN t.nums, IncrementVersion(t) # NoText
  PROVE  \E a, b, c \in 0..IntMax :
           /\ Begins(t.nums, a, b, c)
           /\ IncrementVersion(t) =
                IF IsRelease(t) THEN Dotted(a, b, Plus1(c))
                ELSE [nums |-> <<Num(a), Num(b), Num(c)>>, pre |-> Append(t.pre, Num(0))]
<1> DEFINE s == t.nums
           int(i) == ValueOr0(s, i)
<1>1. s \in Seq(Piece) /\ Len(s) >= 3
  BY DEF Text
<1>2. IncrementVersion(t) =
        IF IsRelease(t) THEN Dotted(int(1), int(2), Plus1(int(3)))
        ELSE [nums |-> Dotted(int(1), int(2), int(3)).nums, pre |-> Append(t.pre, Num(0))]
  BY DEF IncrementVersion, IsRelease
<1>3. FitsInt(s[1]) /\ FitsInt(s[2]) /\ FitsInt(s[3])
  <2>1. \A i \in DOMAIN s : i <= 3 => FitsInt(s[i])
    BY DEF IncrementVersion
  <2> HIDE DEF s
  <2>2. QED
    BY <1>1, <2>1
<1> HIDE DEF s
<1>4. /\ int(1) \in 0..IntMax /\ int(1) = s[1].val
      /\ int(2) \in 0..IntMax /\ int(2) = s[2].val
      /\ int(3) \in 0..IntMax /\ int(3) = s[3].val
  BY <1>1, <1>3, PieceFields, IntAssumption DEF ValueOr0, FitsInt
<1>5. Begins(s, int(1), int(2), int(3))
  BY <1>1, <1>3, <1>4 DEF Begins, FitsInt
<1> HIDE DEF int
<1>6. Dotted(int(1), int(2), int(3)).nums = <<Num(int(1)), Num(int(2)), Num(int(3))>>
  <2>1. int(1) \in Nat /\ int(2) \in Nat /\ int(3) \in Nat
    BY <1>4, IntAssumption
  <2>2. QED
    BY <2>1, DottedParts
<1>7. QED
  BY <1>2, <1>4, <1>5, <1>6 DEF s

LEMMA ThreeAndOne ==
  ASSUME NEW w1 \in Piece, NEW w2 \in Piece, NEW w3 \in Piece, NEW w4 \in Piece
  PROVE  <<w1, w2, w3>> \o <<w4>> = <<w1, w2, w3, w4>>
<1> DEFINE a == <<w1, w2, w3>>
           b == <<w4>>
           t == <<w1, w2, w3, w4>>
<1>1. /\ a \in Seq(Piece) /\ Len(a) = 3 /\ a[1] = w1 /\ a[2] = w2 /\ a[3] = w3
      /\ b \in Seq(Piece) /\ Len(b) = 1 /\ b[1] = w4
      /\ t \in Seq(Piece) /\ Len(t) = 4
      /\ t[1] = w1 /\ t[2] = w2 /\ t[3] = w3 /\ t[4] = w4
  OBVIOUS
<1> HIDE DEF a, b, t
<1>2. /\ a \o b \in Seq(Piece) /\ Len(a \o b) = Len(a) + Len(b)
      /\ \A i \in 1..(Len(a) + Len(b)) :
           (a \o b)[i] = IF i <= Len(a) THEN a[i] ELSE b[i - Len(a)]
  BY <1>1, Joined
<1>3. Len(a \o b) = 4 /\ \A i \in 1..4 : (a \o b)[i] = t[i]
  BY <1>1, <1>2
<1>4. a \o b = t
  BY <1>1, <1>2, <1>3
<1>5. QED
  BY <1>4 DEF a, b, t

LEMMA NothingBetween ==
  ASSUME NEW t \in Text, 3 \in DOMAIN t.nums, IncrementVersion(t) # NoText,
         NEW r \in Releases, CompareSemVer(t, r)
  PROVE  ~CompareSemVer(r, IncrementVersion(t))
<1> DEFINE u == IncrementVersion(t)
<1>1. PICK a \in 0..IntMax, b \in 0..IntMax, c \in 0..IntMax :
        /\ Begins(t.nums, a, b, c)
        /\ u = IF IsRelease(t) THEN Dotted(a, b, Plus1(c))
               ELSE [nums |-> <<Num(a), Num(b), Num(c)>>, pre |-> Append(t.pre, Num(0))]
  BY IncrementForm
<1>2. PICK x \in 0..IntMax, y \in 0..IntMax, z \in 0..IntMax :
        r \in Text /\ Len(Split(r)) = 3 /\ Begins(Split(r), x, y, z)
  BY ReleaseParts
<1>3. u \in Text
  BY IncrementVersionType
<1> HIDE DEF u
<1>4. a \in Nat /\ b \in Nat /\ c \in Nat /\ x \in Nat /\ y \in Nat /\ z \in Nat
  BY IntAssumption
<1>5. Below(a, b, c, x, y, z)
  <2>1. Begins(Split(t), a, b, c)
    BY <1>1, NumsBegin
  <2>2. QED
    BY <1>2, <1>4, <2>1, BeginsLess DEF CompareSemVer
<1>6. CASE ~IsRelease(t)
  <2>1. Begins(u.nums, a, b, c)
    <3>1. u.nums = <<Num(a), Num(b), Num(c)>>
      BY <1>1, <1>6
    <3>2. QED
      BY <1>4, <3>1, NumPiece DEF Begins, IsNum, Num
  <2>2. Begins(Split(u), a, b, c)
    BY <1>3, <2>1, NumsBegin
  <2>3. CompareSemVer(u, r)
    BY <1>2, <1>4, <1>5, <2>2, BeginsLess DEF CompareSemVer
  <2>4. QED
    BY <1>2, <1>3, <2>3, CompareSemVerOrder DEF u
<1>7. CASE IsRelease(t) /\ c # IntMax
  <2>1. u = Dotted(a, b, c + 1) /\ c + 1 \in Nat
    BY <1>1, <1>4, <1>7 DEF Plus1
  <2>2. Begins(Split(u), a, b, c + 1) /\ Len(Split(u)) = 3
    BY <1>4, <2>1, DottedParts, ZenonT(60)
  <2>3. ~Below(x, y, z, a, b, c + 1)
    BY <1>4, <1>5 DEF Below
  <2>4. QED
    BY <1>2, <1>4, <2>1, <2>2, <2>3, BeginsLess DEF CompareSemVer, u
<1>8. CASE IsRelease(t) /\ c = IntMax
  <2>1. a < x \/ (a = x /\ b < y)
    BY <1>5, <1>8, IntAssumption DEF Below
  <2> DEFINE q == <<Num(a), Num(b), EmptyPiece, Num(IntMax + 1)>>
  <2>2. Split(u) = q
    <3>1. u = [nums |-> <<Num(a), Num(b), EmptyPiece>>, pre |-> <<Num(IntMax + 1)>>]
      <4>1. u = Dotted(a, b, -(IntMax + 1))
        BY <1>1, <1>8 DEF Plus1
      <4>2. -(IntMax + 1) < 0 /\ -(-(IntMax + 1)) = IntMax + 1 /\ ~(a < 0) /\ ~(b < 0)
        BY <1>4, IntAssumption
      <4>3. QED
        BY <4>1, <4>2 DEF Dotted
    <3>2. Num(IntMax + 1) # EmptyPiece
      BY DEF Num, EmptyPiece, Word
    <3>3. u.nums \o u.pre = q
      <4> DEFINE x1 == Num(a)
                 x2 == Num(b)
                 x4 == Num(IntMax + 1)
      <4>1. u.nums = <<x1, x2, EmptyPiece>> /\ u.pre = <<x4>>
        BY <3>1
      <4>2. q = <<x1, x2, EmptyPiece, x4>>
        OBVIOUS
      <4> HIDE DEF x1, x2, x4, q
      <4>3. <<x1, x2, EmptyPiece>> \o <<x4>> = <<x1, x2, EmptyPiece, x4>>
        <5>1. x1 \in Piece /\ x2 \in Piece /\ x4 \in Piece /\ EmptyPiece \in Piece
          BY <1>4, IntAssumption, NumPiece
             DEF x1, x2, x4, EmptyPiece, Word, EmptyRank, Piece, Tag
        <5>2. QED
          BY <5>1, ThreeAndOne
      <4>4. QED
        BY <4>1, <4>2, <4>3
    <3>4. q # <<>> /\ q[Len(q)] = Num(IntMax + 1)
      OBVIOUS
    <3> HIDE DEF q
    <3>5. QED
      BY <3>2, <3>3, <3>4 DEF Split, DropTrailingEmpty
  <2>3. Len(q) = 4 /\ q[1] = Num(a) /\ q[2] = Num(b)
    OBVIOUS
  <2> HIDE DEF q
  <2>4. /\ SamePart(q[1], Split(r)[1]) <=> a = x
        /\ PartLess(q[1], Split(r)[1]) <=> a < x
        /\ PartLess(q[2], Split(r)[2]) <=> b < y
    BY <1>2, <1>4, <2>3 DEF Begins, SamePart, PartLess, IsNum, Num
  <2>5. \E i \in 1..2 : Reaches(q, Split(r), i) /\ PartLess(q[i], Split(r)[i])
    <3>1. CASE a < x
      <4>1. Reaches(q, Split(r), 1)
        BY <1>2, <2>3 DEF Reaches
      <4>2. QED
        BY <2>4, <3>1, <4>1
    <3>2. CASE a = x /\ b < y
      <4>1. Reaches(q, Split(r), 2)
        BY <1>2, <2>3, <2>4, <3>2 DEF Reaches
      <4>2. QED
        BY <2>4, <3>2, <4>1
    <3>3. QED
      BY <2>1, <3>1, <3>2
  <2>6. CompareSemVer(u, r)
    BY <2>2, <2>3, <2>5 DEF CompareSemVer, PartsLess
  <2>7. QED
    BY <1>2, <1>3, <2>6, CompareSemVerOrder DEF u
<1>9. QED
  BY <1>6, <1>7, <1>8
-----------------------------------------------------------------------------
(* What satisfies a bound stays on its side of it.                         *)

(* A text at or below one that satisfies an upper bound satisfies it.      *)
LEMMA LowerMeetsUpper ==
  ASSUME NEW t \in Text, NEW r \in Text, NEW u \in Text, NEW op \in {"<", "<="},
         ~CompareSemVer(r, t), SatisfiesConstraint(r, op, u)
  PROVE  SatisfiesConstraint(t, op, u)
<1>1. /\ CompareSemVer(r, u) => CompareSemVer(t, u)
      /\ CompareSemVer(u, t) => CompareSemVer(u, r)
  <2>1. CASE CompareSemVer(t, r)
    BY <2>1, CompareSemVerOrder
  <2>2. CASE ~CompareSemVer(t, r)
    BY <2>2, CompareSemVerTies
  <2>3. QED
    BY <2>1, <2>2
<1>2. ~CompareSemVer(r, r)
  BY CompareSemVerOrder
<1>3. QED
  BY <1>1, <1>2 DEF SatisfiesConstraint

(* A text at or above the successor of a version is above the version.     *)
LEMMA AboveSuccessor ==
  ASSUME NEW v \in Text, NEW u \in Text, NEW t \in Text,
         CompareSemVer(v, u), ~CompareSemVer(t, u)
  PROVE  SatisfiesConstraint(t, ">", v)
<1>1. CompareSemVer(v, t)
  <2>1. CASE CompareSemVer(u, t)
    BY <2>1, CompareSemVerOrder
  <2>2. CASE ~CompareSemVer(u, t)
    BY <2>2, CompareSemVerTies
  <2>3. QED
    BY <2>1, <2>2
<1>2. t # v
  BY <1>1, CompareSemVerOrder
<1>3. QED
  BY <1>1, <1>2 DEF SatisfiesConstraint

-----------------------------------------------------------------------------
(* The upper bounds of "^t" and "~t" lie above a full version t.           *)

(* Three numerals that can be incremented.                                 *)
Triple(s, a, b, c) ==
  /\ Begins(s, a, b, c) /\ Len(s) = 3
  /\ a \in 0..(IntMax - 1) /\ b \in 0..(IntMax - 1) /\ c \in 0..(IntMax - 1)

LEMMA MatchOfTriple ==
  ASSUME NEW s \in Seq(Piece), NEW a, NEW b, NEW c, Triple(s, a, b, c)
  PROVE  MatchIn(s) = s
<1>1. Len(s) = 3 /\ IsNum(s[1]) /\ IsNum(s[2]) /\ IsNum(s[3])
  BY DEF Triple, Begins
<1> DEFINE F(i) == IsNum(s[i]) /\ \A j \in 1..(i - 1) : ~IsNum(s[j])
           first == CHOOSE i \in 1..Len(s) : F(i)
<1>2. first = 1
  <2>1. F(1) /\ 1 \in 1..Len(s)
    BY <1>1
  <2>2. \A i \in 1..Len(s) : F(i) => i = 1
    <3>1. ASSUME NEW i \in 1..Len(s), F(i), i # 1
          PROVE  FALSE
      <4>1. 1 \in 1..(i - 1)
        BY <3>1
      <4>2. QED
        BY <1>1, <3>1, <4>1
    <3>2. QED
      BY <3>1
  <2>3. QED
    BY <2>1, <2>2
<1>3. MatchIn(s) = SubSeq(s, 1, 3)
  <2> HIDE DEF first
  <2>1. MatchIn(s) = SubSeq(s, first, IF ~(first + 1 <= Len(s) /\ IsNum(s[first + 1])) THEN first
                      ELSE IF ~(first + 2 <= Len(s) /\ IsNum(s[first + 2])) THEN first + 1
                      ELSE first + 2)
    BY DEF MatchIn, first
  <2>2. QED
    BY <1>1, <1>2, <2>1
<1>4. SubSeq(s, 1, 3) = s
  BY <1>1
<1>5. QED
  BY <1>3, <1>4

LEMMA FullCoerced ==
  ASSUME NEW t \in Text, NEW a, NEW b, NEW c, Triple(t.nums, a, b, c)
  PROVE  Match(t) # <<>> /\ Coerce(t) = Dotted(a, b, c)
<1> DEFINE s == t.nums
<1>1. s \in Seq(Piece)
  BY DEF Text
<1>2. Triple(s, a, b, c)
  OBVIOUS
<1>3. Match(t) = IF \E i \in DOMAIN s : IsNum(s[i]) THEN MatchIn(s)
                 ELSE IF \E i \in DOMAIN t.pre : IsNum(t.pre[i]) THEN MatchIn(t.pre)
                 ELSE <<>>
  BY DEF Match
<1> HIDE DEF s
<1>4. Len(s) = 3 /\ IsNum(s[1]) /\ s[1].val = a /\ s[2].val = b /\ s[3].val = c
  BY <1>2 DEF Triple, Begins
<1>5. 1 \in DOMAIN s
  BY <1>1, <1>4
<1>6. Match(t) = s
  BY <1>1, <1>2, <1>3, <1>4, <1>5, MatchOfTriple
<1>7. s # <<>>
  BY <1>5
<1>8. ValueOr0(s, 1) = a /\ ValueOr0(s, 2) = b /\ ValueOr0(s, 3) = c
  BY <1>4 DEF ValueOr0
<1>9. QED
  BY <1>6, <1>7, <1>8 DEF Coerce

LEMMA DottedAbove ==
  ASSUME NEW t \in Text, NEW a \in Nat, NEW b \in Nat, NEW c \in Nat, Begins(t.nums, a, b, c),
         NEW x \in Nat, NEW y \in Nat, NEW z \in Nat, Below(a, b, c, x, y, z)
  PROVE  CompareSemVer(t, Dotted(x, y, z))
BY NumsBegin, DottedParts, BeginsLess DEF CompareSemVer

LEMMA CaretAbove ==
  ASSUME NEW t \in Text, NEW a, NEW b, NEW c, Triple(t.nums, a, b, c)
  PROVE  CompareSemVer(t, ComputeCaretUpperBound(t))
<1>1. a \in Nat /\ b \in Nat /\ c \in Nat /\ Begins(t.nums, a, b, c)
  BY DEF Triple
<1>2. Plus1(a) = a + 1 /\ Plus1(b) = b + 1 /\ Plus1(c) = c + 1
  BY IntAssumption DEF Triple, Plus1
<1>3. Match(t) # <<>> /\ Coerce(t).nums = <<Num(a), Num(b), Num(c)>>
  <2>1. Dotted(a, b, c).nums = <<Num(a), Num(b), Num(c)>>
    BY <1>1, DottedParts
  <2>2. Match(t) # <<>> /\ Coerce(t) = Dotted(a, b, c)
    BY FullCoerced
  <2>3. QED
    BY <2>1, <2>2
<1>4. ComputeCaretUpperBound(t) = IF a > 0 THEN Dotted(a + 1, 0, 0)
                                  ELSE IF b > 0 THEN Dotted(0, b + 1, 0)
                                  ELSE Dotted(0, 0, c + 1)
  BY <1>2, <1>3 DEF ComputeCaretUpperBound, Num
<1>5. /\ Below(a, b, c, a + 1, 0, 0)
      /\ ~(a > 0) => Below(a, b, c, 0, b + 1, 0)
      /\ ~(a > 0) /\ ~(b > 0) => Below(a, b, c, 0, 0, c + 1)
  BY <1>1 DEF Below
<1>6. QED
  BY <1>1, <1>4, <1>5, DottedAbove

LEMMA TildeAbove ==
  ASSUME NEW t \in Text, NEW a, NEW b, NEW c, Triple(t.nums, a, b, c)
  PROVE  CompareSemVer(t, ComputeTildeUpperBound(t))
<1>1. a \in Nat /\ b \in Nat /\ c \in Nat /\ Begins(t.nums, a, b, c)
  BY DEF Triple
<1>2. Plus1(b) = b + 1
  BY IntAssumption DEF Triple, Plus1
<1>3. Match(t) # <<>>
  BY FullCoerced
<1>4. Begins(DotParts(t), a, b, c)
  <2>1. t.nums \in Seq(Piece) /\ t.pre \in Seq(Piece) /\ <<>> \in Seq(Piece)
    BY DEF Text
  <2>2. CASE t.pre = <<>>
    <3>1. Split(t) = DropTrailingEmpty(t.nums) /\ DotParts(t) = DropTrailingEmpty(t.nums)
      BY <2>1, <2>2 DEF Split, DotParts
    <3>2. QED
      BY <1>1, <3>1, NumsBegin
  <2>3. CASE t.pre # <<>>
    <3>1. DropTrailingEmpty(Tail(t.pre)) \in Seq(Piece)
      BY <2>1, <2>3 DEF DropTrailingEmpty
    <3>2. Begins(t.nums \o DropTrailingEmpty(Tail(t.pre)), a, b, c)
      BY <1>1, <2>1, <3>1, JoinedBegins
    <3>3. QED
      BY <2>3, <3>2 DEF DotParts
  <2>4. QED
    BY <2>2, <2>3
<1>5. ComputeTildeUpperBound(t) = Dotted(a, b + 1, 0)
  BY <1>2, <1>3, <1>4 DEF ComputeTildeUpperBound, Begins
<1>6. Below(a, b, c, a, b + 1, 0)
  BY <1>1 DEF Below
<1>7. QED
  BY <1>1, <1>5, <1>6, DottedAbove

-----------------------------------------------------------------------------
(* The pieces that a string is cut into.                                   *)

LEMMA ZerosType ==
  ASSUME NEW s \in String
  PROVE  Zeros(s) \in Nat
<1>1. Len(s) - 1 \in Int
  BY Characters
<1>2. IsFiniteSet(1..(Len(s) - 1))
  BY <1>1, FS_Interval
<1>3. QED
  BY <1>2, FS_Subset, FS_CardinalityType DEF Zeros

(* What no separator begins is a piece, empty only where it is.            *)
LEMMA PieceOfType ==
  ASSUME NEW s \in String, s # <<>> => s[1] \notin {Dot, Dash}
  PROVE  /\ PieceOf(s) \in Piece
         /\ s # <<>> => PieceOf(s) # EmptyPiece
<1>1. CASE s = <<>>
  <2>1. EmptyPiece \in Tag
    BY DEF EmptyPiece, Word, Tag, EmptyRank
  <2>2. QED
    BY <1>1, <2>1 DEF PieceOf, Piece
<1>2. CASE s # <<>> /\ s[1] \in Digit
  <2> DEFINE w == [kind |-> "num", val |-> Value(Leading(s)), zeros |-> Zeros(Leading(s))]
  <2>1. PieceOf(s) = w
    BY <1>2 DEF PieceOf
  <2>2. Value(Leading(s)) \in Nat /\ Zeros(Leading(s)) \in Nat
    BY LeadingDigits, ValueType, ZerosType
  <2>3. w \in Numeral
    BY <2>2 DEF Numeral
  <2>4. w.kind # EmptyPiece.kind
    BY DEF EmptyPiece, Word
  <2>5. QED
    BY <2>1, <2>3, <2>4 DEF Piece
<1>3. CASE s # <<>> /\ s[1] \notin Digit
  <2> DEFINE r == Rank(s[1])
  <2>1. s[1] \in Char
    BY <1>3 DEF String
  <2>2. r \in Int /\ r >= -3 /\ r # 0
    BY <1>3, <2>1, BaseAssumption, SMTT(30) DEF Rank, Char, Space, Tilde, Digit, Dot, Dash
  <2>3. PieceOf(s) = Word(r)
    BY <1>3 DEF PieceOf
  <2> HIDE DEF r
  <2>4. Word(r) \in Tag
    BY <2>2 DEF Word, Tag, EmptyRank
  <2>5. Word(r).val # EmptyPiece.val
    BY <2>2 DEF Word, EmptyPiece, EmptyRank
  <2>6. QED
    BY <2>3, <2>4, <2>5 DEF Piece
<1>4. QED
  BY <1>1, <1>2, <1>3

-----------------------------------------------------------------------------
(* Cutting a string at the characters of a set.                            *)

(* The elements of a finite set of numbers can be counted from the least.  *)
LEMMA Ranked ==
  ASSUME NEW E, E \subseteq Nat, IsFiniteSet(E), NEW k \in 1..Cardinality(E)
  PROVE  \E e \in E : Cardinality({d \in E : d < e}) = k - 1
<1> DEFINE Under(e) == {d \in E : d < e}
           S == {n \in Nat : n + 1 <= Cardinality(E) => \E e \in E : Cardinality(Under(e)) = n}
<1>0. Cardinality(E) \in Nat
  BY FS_CardinalityType
<1>1. \A e \in E : IsFiniteSet(Under(e)) /\ Cardinality(Under(e)) \in Nat
  BY FS_Subset, FS_CardinalityType
<1>2. 0 \in S
  <2>1. SUFFICES ASSUME 0 + 1 <= Cardinality(E)
                 PROVE  \E e \in E : Cardinality(Under(e)) = 0
    OBVIOUS
  <2>2. E # {}
    BY <2>1, FS_EmptySet
  <2>3. PICK e \in E : \A d \in E : e <= d
    BY <2>2, LeastNatural
  <2>4. Under(e) = {}
    <3>1. \A d \in E : ~(d < e)
      BY <2>3
    <3>2. QED
      BY <3>1
  <2>5. QED
    BY <2>4, FS_EmptySet
<1>3. ASSUME NEW n \in Nat, n \in S
      PROVE  n + 1 \in S
  <2>1. SUFFICES ASSUME (n + 1) + 1 <= Cardinality(E)
                 PROVE  \E e \in E : Cardinality(Under(e)) = n + 1
    OBVIOUS
  <2>2. PICK e \in E : Cardinality(Under(e)) = n
    BY <1>0, <1>3, <2>1
  <2> DEFINE Upto == Under(e) \cup {e}
             Above == {d \in E : e < d}
  <2>3. IsFiniteSet(Upto) /\ Cardinality(Upto) = n + 1
    <3>1. e \notin Under(e)
      OBVIOUS
    <3>2. IsFiniteSet(Under(e))
      BY <1>1
    <3> HIDE DEF Under
    <3>3. QED
      BY <2>2, <3>1, <3>2, FS_AddElement
  <2>4. Upto # E
    BY <1>0, <2>1, <2>3
  <2>5. Above # {}
    <3>1. \A d \in E : d < e \/ d = e \/ e < d
      OBVIOUS
    <3>2. Upto \subseteq E
      OBVIOUS
    <3>3. PICK d \in E : d \notin Upto
      BY <2>4, <3>2
    <3>4. e < d
      BY <3>1, <3>3
    <3>5. QED
      BY <3>4
  <2>6. PICK f \in Above : \A d \in Above : f <= d
    BY <2>5, LeastNatural
  <2>7. Under(f) = Upto
    <3>1. e < f
      BY <2>6
    <3>2. \A d \in E : d < f <=> d < e \/ d = e
      <4>1. \A d \in E : e < d => f <= d
        BY <2>6
      <4>2. QED
        BY <3>1, <4>1
    <3>3. QED
      BY <3>2
  <2>8. QED
    BY <2>3, <2>6, <2>7
<1> HIDE DEF S
<1>4. k - 1 \in S
  BY <1>0, <1>2, <1>3, Induction
<1>5. QED
  BY <1>0, <1>4 DEF S

(* Every string that is cut out of s is a part of it without the           *)
(* characters that it is cut at, none of the other characters is lost, and *)
(* of a string without those characters all of it is one part.             *)
LEMMA CutIs ==
  ASSUME NEW s \in String, NEW C
  PROVE  /\ Len(Cut(s, C)) \in Nat \ {0} /\ DOMAIN Cut(s, C) = 1..Len(Cut(s, C))
         /\ \A k \in DOMAIN Cut(s, C) :
              /\ Cut(s, C)[k] \in String
              /\ Chars(Cut(s, C)[k]) \subseteq Chars(s) \ C
         /\ \A c \in Chars(s) \ C : \E k \in DOMAIN Cut(s, C) : c \in Chars(Cut(s, C)[k])
         /\ Len(Cut(s, C)) = 1 => Cut(s, C)[1] = s
<1> DEFINE E == {0, Len(s) + 1} \cup {i \in DOMAIN s : s[i] \in C}
           Under(e) == {d \in E : d < e}
           end(k) == CHOOSE e \in E : Cardinality(Under(e)) = k - 1
           n == Cardinality(E) - 1
<1>1. Len(s) \in Nat /\ DOMAIN s = 1..Len(s) /\ s \in Seq(Char)
  BY Characters DEF String
<1>2. E \subseteq 0..(Len(s) + 1) /\ 0 \in E /\ Len(s) + 1 \in E
  BY <1>1
<1>3. \A i \in E : i \notin {0, Len(s) + 1} => i \in DOMAIN s /\ s[i] \in C
  OBVIOUS
<1>4. \A i \in DOMAIN s : s[i] \in C => i \in E
  OBVIOUS
<1>5. Cut(s, C) = [k \in 1..n |-> SubSeq(s, end(k) + 1, end(k + 1) - 1)]
  BY DEF Cut
<1> HIDE DEF E
<1>6. E \subseteq Nat /\ IsFiniteSet(E) /\ Cardinality(E) \in Nat
  <2>1. IsFiniteSet(0..(Len(s) + 1))
    BY <1>1, FS_Interval
  <2>2. IsFiniteSet(E)
    BY <1>2, <2>1, FS_Subset
  <2>3. QED
    BY <1>1, <1>2, <2>2, FS_CardinalityType
<1>7. Cardinality(E) >= 2
  <2>1. IsFiniteSet({0}) /\ Cardinality({0}) = 1
    BY FS_Singleton
  <2>2. 0 # Len(s) + 1
    BY <1>1
  <2>3. IsFiniteSet({0} \cup {Len(s) + 1}) /\ Cardinality({0} \cup {Len(s) + 1}) = 1 + 1
    BY <2>1, <2>2, FS_AddElement
  <2>4. {0} \cup {Len(s) + 1} \subseteq E
    BY <1>2
  <2>5. Cardinality({0} \cup {Len(s) + 1}) <= Cardinality(E)
    BY <1>6, <2>4, FS_Subset
  <2>6. Cardinality({0} \cup {Len(s) + 1}) = 2
    BY <2>3
  <2>7. 2 <= Cardinality(E)
    BY <2>5, <2>6
  <2>8. QED
    BY <1>6, <2>7
<1>8. \A e \in E : IsFiniteSet(Under(e)) /\ Cardinality(Under(e)) \in Nat
  BY <1>6, FS_Subset, FS_CardinalityType
<1>9. ASSUME NEW k \in 1..Cardinality(E)
      PROVE  end(k) \in E /\ Cardinality(Under(end(k))) = k - 1
  <2>1. \E e \in E : Cardinality(Under(e)) = k - 1
    BY <1>6, Ranked
  <2> HIDE DEF Under
  <2>2. QED
    BY <2>1
<1> HIDE DEF end, n
<1>10. ASSUME NEW k \in 1..n
       PROVE  /\ end(k) \in E /\ end(k + 1) \in E
              /\ end(k) < end(k + 1)
              /\ \A d \in E : ~(end(k) < d /\ d < end(k + 1))
  <2> DEFINE a == end(k)
             b == end(k + 1)
  <2>1. k \in 1..Cardinality(E) /\ k + 1 \in 1..Cardinality(E) /\ (k + 1) - 1 = k
    BY <1>6 DEF n
  <2>2. /\ a \in E /\ Cardinality(Under(a)) = k - 1
        /\ b \in E /\ Cardinality(Under(b)) = k
    BY <1>9, <2>1
  <2> HIDE DEF a, b
  <2>3. a \in Nat /\ b \in Nat
    BY <1>6, <2>2
  <2>4. a < b
    <3>1. SUFFICES ASSUME b <= a
                   PROVE  FALSE
      BY <2>3
    <3>2. \A d \in E : d < b => d < a
      BY <1>6, <2>3, <3>1
    <3>3. Under(b) \in SUBSET Under(a)
      BY <3>2
    <3>4. Cardinality(Under(b)) <= Cardinality(Under(a))
      BY <1>8, <2>2, <3>3, FS_Subset
    <3>5. QED
      BY <2>1, <2>2, <3>4
  <2>5. ASSUME NEW d \in E, a < d, d < b
        PROVE  FALSE
    <3> DEFINE A == Under(a)
               Upto == A \cup {a}
               More == Upto \cup {d}
    <3>1. a \notin A /\ d \notin A /\ d # a
      BY <1>6, <2>3, <2>5
    <3>2. IsFiniteSet(A) /\ Cardinality(A) = k - 1
      BY <1>8, <2>2
    <3>3. \A x \in A : x \in E /\ x < b
      BY <1>6, <2>3, <2>4
    <3>4. More \in SUBSET Under(b)
      BY <2>2, <2>4, <2>5, <3>3
    <3> HIDE DEF A
    <3>5. IsFiniteSet(Upto) /\ Cardinality(Upto) = k
      BY <2>1, <3>1, <3>2, FS_AddElement
    <3>6. d \notin Upto
      BY <3>1
    <3> HIDE DEF Upto
    <3>7. Cardinality(More) = k + 1
      BY <3>5, <3>6, FS_AddElement
    <3> HIDE DEF More
    <3>8. Cardinality(More) <= Cardinality(Under(b))
      BY <1>8, <2>2, <3>4, FS_Subset
    <3>9. QED
      BY <2>1, <2>2, <3>7, <3>8
  <2>6. QED
    BY <2>2, <2>4, <2>5 DEF a, b
<1>11. n \in Nat /\ n >= 1
  BY <1>6, <1>7 DEF n
<1>12. Len(Cut(s, C)) = n /\ DOMAIN Cut(s, C) = 1..n
  BY <1>5, <1>11
<1>13. ASSUME NEW k \in 1..n
       PROVE  Cut(s, C)[k] \in String /\ Chars(Cut(s, C)[k]) \subseteq Chars(s) \ C
  <2> DEFINE a == end(k)
             b == end(k + 1)
             p == SubSeq(s, a + 1, b - 1)
  <2>1. Cut(s, C)[k] = p
    BY <1>5
  <2>2. a \in 0..(Len(s) + 1) /\ b \in 0..(Len(s) + 1) /\ a < b
    BY <1>2, <1>10
  <2>3. \A d \in E : ~(a < d /\ d < b)
    BY <1>10
  <2> HIDE DEF a, b
  <2>4. a + 1 \in 1..(Len(s) + 1) /\ b - 1 \in 0..Len(s)
    BY <1>1, <2>2
  <2>5. p \in String
    BY <2>4, SubSeqLength
  <2>6. DOMAIN p = 1..((b - 1) - (a + 1) + 1) /\ \A i \in DOMAIN p : p[i] = s[a + i]
    BY <1>1, <2>2, <2>4
  <2>7. ASSUME NEW i \in DOMAIN p
        PROVE  p[i] \in Chars(s) /\ p[i] \notin C
    <3>1. a + i \in DOMAIN s /\ a < a + i /\ a + i < b
      BY <1>1, <2>2, <2>4, <2>6
    <3>2. s[a + i] \notin C
      BY <1>4, <2>3, <3>1
    <3>3. QED
      BY <2>6, <3>1, <3>2 DEF Chars
  <2> HIDE DEF p
  <2>8. Chars(p) \subseteq Chars(s) \ C
    BY <2>7 DEF Chars
  <2>9. QED
    BY <2>1, <2>5, <2>8
<1>14. ASSUME n = 1
       PROVE  Cut(s, C)[1] = s
  <2>1. 1 \in 1..n /\ 1 + 1 = 2
    BY <1>14
  <2>2. end(1) \in E /\ end(2) \in E /\ end(1) < end(2) /\ \A d \in E : ~(end(1) < d /\ d < end(2))
    BY <1>10, <2>1
  <2>3. E \ {0} = {Len(s) + 1}
    <3>1. IsFiniteSet(E \ {0}) /\ Cardinality(E \ {0}) = 1
      BY <1>2, <1>6, <1>14, FS_RemoveElement DEF n
    <3>2. PICK x : E \ {0} = {x}
      BY <3>1, FS_Singleton
    <3>3. Len(s) + 1 \in E \ {0}
      BY <1>1, <1>2
    <3>4. QED
      BY <3>2, <3>3
  <2>4. end(1) = 0 /\ end(2) = Len(s) + 1
    BY <1>1, <2>2, <2>3
  <2>5. Cut(s, C)[1] = SubSeq(s, 0 + 1, (Len(s) + 1) - 1)
    BY <1>5, <2>1, <2>4
  <2>6. 0 + 1 = 1 /\ (Len(s) + 1) - 1 = Len(s) /\ SubSeq(s, 1, Len(s)) = s
    BY <1>1
  <2>7. QED
    BY <2>5, <2>6
<1>15. ASSUME NEW i \in DOMAIN s, s[i] \notin C
       PROVE  \E k \in 1..n : s[i] \in Chars(Cut(s, C)[k])
  <2> DEFINE k == Cardinality(Under(i))
             a == end(k)
             b == end(k + 1)
  <2>1. i \in 1..Len(s) /\ i \notin E
    <3>1. i \in 1..Len(s) /\ i \notin {0, Len(s) + 1}
      BY <1>1
    <3>2. QED
      BY <1>3, <1>15, <3>1
  <2>2. IsFiniteSet(Under(i)) /\ k \in Nat
    BY <1>6, FS_Subset, FS_CardinalityType
  <2>3. k >= 1
    <3>1. 0 \in Under(i)
      BY <1>2, <2>1
    <3>2. k # 0
      BY <2>2, <3>1, FS_EmptySet
    <3>3. QED
      BY <2>2, <3>2
  <2>4. k <= n
    <3>1. Len(s) + 1 \notin Under(i)
      BY <1>1, <2>1
    <3>2. Under(i) \in SUBSET E /\ Under(i) # E
      BY <1>2, <3>1
    <3>3. k <= Cardinality(E) /\ k # Cardinality(E)
      BY <1>6, <3>2, FS_Subset
    <3> HIDE DEF k
    <3>4. QED
      BY <1>6, <2>2, <3>3 DEF n
  <2>5. /\ a \in E /\ Cardinality(Under(a)) = k - 1
        /\ b \in E /\ Cardinality(Under(b)) = k
    <3> HIDE DEF k
    <3>1. k \in 1..Cardinality(E) /\ k + 1 \in 1..Cardinality(E) /\ (k + 1) - 1 = k
      BY <1>6, <2>2, <2>3, <2>4 DEF n
    <3>2. QED
      BY <1>9, <3>1
  <2> HIDE DEF a, b
  <2>6. a \in Nat /\ b \in Nat /\ i \in Nat
    <3>1. a \in E /\ b \in E
      BY <2>5
    <3>2. QED
      BY <1>1, <1>6, <2>1, <3>1
  <2>7. a < i
    <3>1. SUFFICES ASSUME i <= a
                   PROVE  FALSE
      BY <2>6
    <3>2. \A d \in E : d < i => d < a
      BY <1>6, <2>6, <3>1
    <3>3. Under(i) \in SUBSET Under(a)
      BY <3>2
    <3>4. k <= Cardinality(Under(a))
      BY <1>8, <2>5, <3>3, FS_Subset
    <3> HIDE DEF k, Under
    <3>5. QED
      BY <2>2, <2>5, <3>4
  <2>8. i < b
    <3>1. SUFFICES ASSUME b < i
                   PROVE  FALSE
      BY <2>1, <2>5, <2>6
    <3> DEFINE Upto == Under(b) \cup {b}
    <3>2. b \notin Under(b)
      BY <2>6
    <3>3. IsFiniteSet(Under(b))
      BY <1>8, <2>5
    <3>4. \A d \in E : d < b => d < i
      BY <1>6, <2>6, <3>1
    <3>5. Upto \in SUBSET Under(i)
      BY <2>5, <3>1, <3>4
    <3>6. Cardinality(Upto) <= k
      BY <2>2, <3>5, FS_Subset
    <3> HIDE DEF k, Under
    <3>7. Cardinality(Upto) = k + 1
      BY <2>5, <3>2, <3>3, FS_AddElement
    <3>8. QED
      BY <2>2, <3>6, <3>7
  <2>9. k \in 1..n
    BY <1>11, <2>2, <2>3, <2>4
  <2> HIDE DEF k
  <2> DEFINE p == SubSeq(s, a + 1, b - 1)
  <2>10. Cut(s, C)[k] = p
    BY <1>5, <2>9 DEF a, b
  <2>11. a \in 0..(Len(s) + 1) /\ b \in 0..(Len(s) + 1)
    BY <1>2, <2>5
  <2>12. i - a \in DOMAIN p /\ p[i - a] = s[i]
    BY <1>1, <2>1, <2>6, <2>7, <2>8, <2>11
  <2>13. s[i] \in Chars(p)
    BY <2>12 DEF Chars
  <2>14. QED
    BY <2>9, <2>10, <2>13
<1>16. \A c \in Chars(s) \ C : \E k \in 1..n : c \in Chars(Cut(s, C)[k])
  BY <1>15 DEF Chars
<1>17. QED
  BY <1>11, <1>12, <1>13, <1>14, <1>16

-----------------------------------------------------------------------------
(* Texts.                                                                  *)

LEMMA PartChars ==
  ASSUME NEW s \in String, NEW C
  PROVE  /\ Before(s, C) \in String /\ Chars(Before(s, C)) \subseteq Chars(s)
         /\ After(s, C) \in String /\ Chars(After(s, C)) \subseteq Chars(s)
<1> DEFINE f == Find(s, C)
<1>1. f \in 1..(Len(s) + 1) /\ Len(s) \in Nat /\ DOMAIN s = 1..Len(s) /\ s \in Seq(Char)
  BY FindRange, Characters DEF String
<1>2. Before(s, C) = SubSeq(s, 1, f - 1) /\ After(s, C) = SubSeq(s, f + 1, Len(s))
  BY DEF Before, After, Skip
<1> HIDE DEF f
<1>3. ASSUME NEW a \in 1..(Len(s) + 2), NEW b \in 0..Len(s)
      PROVE  SubSeq(s, a, b) \in String /\ Chars(SubSeq(s, a, b)) \subseteq Chars(s)
  <2> DEFINE p == SubSeq(s, a, b)
  <2>1. p \in String
    BY <1>1 DEF String
  <2>2. \A i \in DOMAIN p : a + i - 1 \in DOMAIN s /\ p[i] = s[a + i - 1]
    BY <1>1
  <2> HIDE DEF p
  <2>3. Chars(p) \subseteq Chars(s)
    BY <2>2 DEF Chars
  <2>4. QED
    BY <2>1, <2>3 DEF p
<1>4. 1 \in 1..(Len(s) + 2) /\ f - 1 \in 0..Len(s) /\ f + 1 \in 1..(Len(s) + 2) /\ Len(s) \in 0..Len(s)
  BY <1>1
<1>5. QED
  BY <1>2, <1>3, <1>4

LEMMA PiecesOfType ==
  ASSUME NEW s \in String
  PROVE  /\ PiecesOf(s) \in Seq(Piece) \ {<<>>}
         /\ PiecesOf(s) = <<EmptyPiece>> => s = <<>>
<1> DEFINE cuts == Cut(s, {Dot, Dash})
           n == Len(cuts)
<1>1. n \in Nat \ {0} /\ DOMAIN cuts = 1..n
  BY CutIs
<1>2. ASSUME NEW k \in DOMAIN cuts
      PROVE  /\ cuts[k] \in String
             /\ cuts[k] # <<>> => cuts[k][1] \notin {Dot, Dash}
  <2>1. cuts[k] \in String /\ Chars(cuts[k]) \subseteq Chars(s) \ {Dot, Dash}
    BY CutIs
  <2> HIDE DEF cuts
  <2>2. cuts[k] # <<>> => cuts[k][1] \in Chars(cuts[k])
    <3>1. cuts[k] # <<>> => 1 \in DOMAIN cuts[k]
      BY <2>1 DEF String
    <3>2. QED
      BY <3>1 DEF Chars
  <2>3. QED
    BY <2>1, <2>2
<1>3. n = 1 => cuts[1] = s
  BY CutIs
<1>4. PiecesOf(s) = [i \in DOMAIN cuts |-> PieceOf(cuts[i])]
  BY DEF PiecesOf
<1> HIDE DEF cuts
<1>5. \A k \in DOMAIN cuts : PieceOf(cuts[k]) \in Piece /\ (cuts[k] # <<>> => PieceOf(cuts[k]) # EmptyPiece)
  BY <1>2, PieceOfType
<1> HIDE DEF n
<1>6. PiecesOf(s) \in Seq(Piece) /\ Len(PiecesOf(s)) = n
  BY <1>1, <1>4, <1>5
<1>7. PiecesOf(s) # <<>>
  BY <1>1, <1>6
<1>8. PiecesOf(s) = <<EmptyPiece>> => s = <<>>
  <2>1. SUFFICES ASSUME PiecesOf(s) = <<EmptyPiece>>
                 PROVE  s = <<>>
    OBVIOUS
  <2>2. n = 1 /\ PiecesOf(s)[1] = EmptyPiece
    BY <1>6, <2>1
  <2>3. PiecesOf(s)[1] = PieceOf(s)
    BY <1>1, <1>3, <1>4, <2>2
  <2>4. 1 \in DOMAIN cuts /\ cuts[1] = s
    BY <1>1, <1>3, <2>2
  <2>5. QED
    BY <1>5, <2>2, <2>3, <2>4
<1>9. QED
  BY <1>6, <1>7, <1>8

(* Every string has a text, which is empty only when the string is.        *)
LEMMA TextOfType ==
  ASSUME NEW s \in String
  PROVE  /\ TextOf(s) \in Text
         /\ s # <<>> => TextOf(s) # EmptyText
<1> DEFINE b == Before(s, {Dash})
           a == After(s, {Dash})
<1>1. b \in String /\ a \in String
  BY PartChars
<1>2. /\ PiecesOf(b) \in Seq(Piece) \ {<<>>} /\ PiecesOf(a) \in Seq(Piece) \ {<<>>}
      /\ PiecesOf(b) = <<EmptyPiece>> => b = <<>>
  BY <1>1, PiecesOfType
<1>3. ~Found(s, {Dash}) => b = s
  BY NotFound
<1>4. /\ TextOf(s).nums = PiecesOf(b)
      /\ TextOf(s).pre = IF Found(s, {Dash}) THEN PiecesOf(a) ELSE <<>>
      /\ TextOf(s) = [nums |-> PiecesOf(b), pre |-> IF Found(s, {Dash}) THEN PiecesOf(a) ELSE <<>>]
  BY DEF TextOf
<1> HIDE DEF a, b
<1>5. TextOf(s) \in Text
  BY <1>2, <1>4 DEF Text
<1>6. ASSUME TextOf(s) = EmptyText
      PROVE  s = <<>>
  <2>1. TextOf(s).nums = <<EmptyPiece>> /\ TextOf(s).pre = <<>>
    BY <1>6 DEF EmptyText
  <2>2. ~Found(s, {Dash}) /\ b = <<>>
    BY <1>2, <1>4, <2>1
  <2>3. QED
    BY <1>3, <2>2
<1>7. QED
  BY <1>5, <1>6

(* What the three groups of the expression match are digits.               *)
LEMMA GroupsType ==
  ASSUME NEW s \in String, CanCoerce(s)
  PROVE  /\ \A i \in 1..3 : Groups(s)[i] \in String /\ OnlyDigits(Groups(s)[i])
         /\ Groups(s)[1] # <<>>
<1> DEFINE f    == Find(s, Digit) - 1
           from == Skip(s, f)
           group(r) == IF r # <<>> /\ r[1] = Dot THEN Leading(Tail(r)) ELSE <<>>
           major == Leading(from)
           minor == group(Skip(from, Len(major)))
           patch == IF minor = <<>> THEN <<>> ELSE group(Skip(from, Len(major) + 1 + Len(minor)))
<1>1. Len(s) \in Nat /\ DOMAIN s = 1..Len(s)
  BY Characters
<1>2. f + 1 \in 1..Len(s) /\ s[f + 1] \in Digit /\ f \in 0..Len(s)
  <2>1. Find(s, Digit) \in DOMAIN s /\ s[Find(s, Digit)] \in Digit
    BY FoundParts DEF CanCoerce
  <2>2. QED
    BY <1>1, <2>1
<1>3. Groups(s) = <<major, minor, patch>>
  BY DEF Groups
<1> HIDE DEF f
<1>4. from \in String /\ from # <<>> /\ from[1] \in Digit
  <2>1. from \in String /\ Len(from) = Len(s) - f
    BY <1>2, SkipLength, SkipParts
  <2>2. 1 \in 1..(Len(s) - f)
    BY <1>1, <1>2
  <2>3. from[1] = s[f + 1]
    BY <1>2, <2>2, SkipParts
  <2>4. from # <<>>
    BY <2>1, <2>2
  <2>5. QED
    BY <1>2, <2>1, <2>3, <2>4
<1> HIDE DEF from
<1>5. major \in String /\ OnlyDigits(major) /\ major # <<>>
  BY <1>4, LeadingDigits, LeadingType
<1>6. <<>> \in String /\ OnlyDigits(<<>>)
  BY DEF String, OnlyDigits, Chars
<1>7. ASSUME NEW r \in String
      PROVE  group(r) \in String /\ OnlyDigits(group(r))
  <2>1. r # <<>> => Tail(r) \in String
    BY DEF String
  <2>2. QED
    BY <1>6, <2>1, LeadingDigits
<1> HIDE DEF major, group
<1>8. minor \in String /\ OnlyDigits(minor)
  <2>1. Len(major) \in Nat
    BY <1>5, Characters
  <2>2. Skip(from, Len(major)) \in String
    BY <1>4, <2>1, SkipLength
  <2>3. QED
    BY <1>7, <2>2
<1> HIDE DEF minor
<1>9. patch \in String /\ OnlyDigits(patch)
  <2>1. Len(major) \in Nat /\ Len(minor) \in Nat
    BY <1>5, <1>8, Characters
  <2>2. Len(major) + 1 + Len(minor) \in Nat
    BY <2>1
  <2>3. Skip(from, Len(major) + 1 + Len(minor)) \in String
    BY <1>4, <2>2, SkipLength
  <2>4. QED
    BY <1>6, <1>7, <2>3
<1> HIDE DEF patch
<1>10. Groups(s)[1] = major /\ Groups(s)[2] = minor /\ Groups(s)[3] = patch
  BY <1>3
<1>11. QED
  BY <1>5, <1>8, <1>9, <1>10

-----------------------------------------------------------------------------
(* Cutting a string in two and then each part is cutting the whole.        *)

EndsOf(s, C) == {0, Len(s) + 1} \cup {i \in DOMAIN s : s[i] \in C}
Under(E, e)  == {d \in E : d < e}
EndAt(E, k)  == CHOOSE e \in E : Cardinality(Under(E, e)) = k - 1

LEMMA EndsType ==
  ASSUME NEW s \in String, NEW C
  PROVE  /\ EndsOf(s, C) \subseteq Nat /\ IsFiniteSet(EndsOf(s, C))
         /\ EndsOf(s, C) \subseteq 0..(Len(s) + 1)
         /\ 0 \in EndsOf(s, C) /\ Len(s) + 1 \in EndsOf(s, C)
         /\ Cardinality(EndsOf(s, C)) \in Nat \ {0}
<1> DEFINE E == EndsOf(s, C)
<1>1. Len(s) \in Nat /\ DOMAIN s = 1..Len(s)
  BY Characters
<1>2. E \subseteq 0..(Len(s) + 1) /\ 0 \in E /\ Len(s) + 1 \in E
  BY <1>1 DEF EndsOf
<1> HIDE DEF E
<1>3. IsFiniteSet(E)
  <2>1. IsFiniteSet(0..(Len(s) + 1))
    BY <1>1, FS_Interval
  <2>2. QED
    BY <1>2, <2>1, FS_Subset
<1>4. Cardinality(E) \in Nat /\ Cardinality(E) # 0
  BY <1>2, <1>3, FS_CardinalityType, FS_EmptySet
<1>5. QED
  BY <1>1, <1>2, <1>3, <1>4 DEF E

(* Adding a number to all elements of a set keeps their count.             *)
LEMMA ShiftedCount ==
  ASSUME NEW F, F \subseteq Nat, IsFiniteSet(F), NEW m \in Nat
  PROVE  IsFiniteSet({m + d : d \in F}) /\ Cardinality({m + d : d \in F}) = Cardinality(F)
<1> DEFINE G == {m + d : d \in F}
           f == [d \in F |-> m + d]
<1>1. f \in Bijection(F, G)
  <2>1. f \in [F -> G] /\ \A e \in G : \E d \in F : f[d] = e
    OBVIOUS
  <2>2. \A d, e \in F : f[d] = f[e] => d = e
    OBVIOUS
  <2>3. f \in Injection(F, G)
    BY <2>1, <2>2 DEF Injection, IsInjective
  <2>4. f \in Surjection(F, G)
    BY <2>1 DEF Surjection
  <2>5. QED
    BY <2>3, <2>4 DEF Bijection
<1>2. QED
  BY <1>1, FS_Bijection DEF ExistsBijection

(* An element of a set has a rank of its own.                              *)
LEMMA RankOnce ==
  ASSUME NEW E, E \subseteq Nat, IsFiniteSet(E), NEW e \in E, NEW f \in E,
         Cardinality(Under(E, e)) = Cardinality(Under(E, f))
  PROVE  e = f
<1>1. ASSUME NEW x \in E, NEW y \in E, x < y
      PROVE  Cardinality(Under(E, x)) < Cardinality(Under(E, y))
  <2> DEFINE U == Under(E, x)
             V == U \cup {x}
  <2>1. x \notin U /\ V \in SUBSET Under(E, y)
    <3>1. \A d \in E : (d < x => d < y) /\ ~(x < x)
      BY <1>1
    <3>2. QED
      BY <1>1, <3>1 DEF Under
  <2>2. IsFiniteSet(U) /\ IsFiniteSet(Under(E, y))
    BY FS_Subset DEF Under
  <2> HIDE DEF U
  <2>3. Cardinality(U) \in Nat /\ Cardinality(V) = Cardinality(U) + 1 /\ Cardinality(Under(E, y)) \in Nat
    BY <2>1, <2>2, FS_AddElement, FS_CardinalityType
  <2> HIDE DEF V
  <2>4. Cardinality(V) <= Cardinality(Under(E, y))
    BY <2>1, <2>2, FS_Subset
  <2>5. QED
    BY <2>3, <2>4 DEF U
<1>2. \A x \in E : Cardinality(Under(E, x)) \in Nat
  BY FS_Subset, FS_CardinalityType DEF Under
<1>3. e < f \/ f < e \/ e = f
  OBVIOUS
<1>4. QED
  BY <1>1, <1>2, <1>3

LEMMA EndAtIs ==
  ASSUME NEW E, E \subseteq Nat, IsFiniteSet(E), NEW k \in 1..Cardinality(E)
  PROVE  /\ EndAt(E, k) \in E /\ Cardinality(Under(E, EndAt(E, k))) = k - 1
         /\ \A e \in E : Cardinality(Under(E, e)) = k - 1 => EndAt(E, k) = e
<1>1. \E e \in E : Cardinality(Under(E, e)) = k - 1
  BY Ranked DEF Under
<1>2. EndAt(E, k) \in E /\ Cardinality(Under(E, EndAt(E, k))) = k - 1
  BY <1>1 DEF EndAt
<1>3. QED
  BY <1>2, RankOnce

LEMMA CutBy ==
  ASSUME NEW s, NEW C
  PROVE  LET E == EndsOf(s, C)
         IN Cut(s, C) = [k \in 1..(Cardinality(E) - 1) |->
                           SubSeq(s, EndAt(E, k) + 1, EndAt(E, k + 1) - 1)]
BY DEF Cut, EndsOf, EndAt, Under

(* What lies before the first character of C is the first part.            *)
LEMMA CutFirst ==
  ASSUME NEW p \in String, NEW q \in String, NEW C, NEW c \in Char, c \in C,
         Chars(p) \cap C = {}
  PROVE  Cut(p \o (<<c>> \o q), C) = <<p>> \o Cut(q, C)
<1> DEFINE s == p \o (<<c>> \o q)
           m == Len(p) + 1
           F == EndsOf(q, C)
           E == EndsOf(s, C)
           G == {m + d : d \in F}
<1>1. /\ s \in String /\ Len(s) = Len(p) + 1 + Len(q)
      /\ \A i \in 1..Len(p) : s[i] = p[i]
      /\ s[Len(p) + 1] = c
      /\ \A i \in 1..Len(q) : s[Len(p) + 1 + i] = q[i]
      /\ Skip(s, Len(p) + 1) = q
      /\ SubSeq(s, 1, Len(p)) = p
  BY DEF String, Skip
<1> HIDE DEF s
<1>2. /\ Len(p) \in Nat /\ Len(q) \in Nat /\ DOMAIN s = 1..Len(s) /\ DOMAIN q = 1..Len(q)
      /\ \A i \in 1..Len(p) : p[i] \notin C
  BY <1>1, Characters DEF Chars
<1>3. m \in Nat /\ Len(s) = m + Len(q) /\ Len(s) + 1 = m + (Len(q) + 1)
  BY <1>1, <1>2
<1>4. E = {0} \cup G
  <2>1. ASSUME NEW x \in E
        PROVE  x \in {0} \cup G
    <3>1. CASE x \in {0, Len(s) + 1}
      <4>1. Len(q) + 1 \in F
        BY DEF EndsOf
      <4> HIDE DEF m, F
      <4>2. m + (Len(q) + 1) \in G
        BY <4>1
      <4>3. QED
        BY <1>3, <3>1, <4>2
    <3>2. CASE x \in DOMAIN s /\ s[x] \in C
      <4>1. x \in 1..Len(s) /\ x \notin 1..Len(p)
        BY <1>1, <1>2, <3>2
      <4>2. x = m \/ (x - m \in 1..Len(q) /\ m + (x - m) = x)
        BY <1>2, <1>3, <4>1
      <4>3. x = m => x \in G
        <5>1. 0 \in F /\ m + 0 = m
          BY <1>3 DEF EndsOf
        <5> HIDE DEF m, F
        <5>2. QED
          BY <5>1
      <4>4. x - m \in 1..Len(q) => x - m \in F
        <5>1. x - m \in 1..Len(q) => q[x - m] = s[m + (x - m)]
          BY <1>1
        <5>2. x - m \in 1..Len(q) => q[x - m] \in C
          BY <3>2, <4>1, <4>2, <5>1, <1>3
        <5> HIDE DEF m
        <5>3. QED
          BY <1>2, <5>2 DEF EndsOf
      <4> HIDE DEF m, F
      <4>5. QED
        BY <4>2, <4>3, <4>4
    <3>3. QED
      BY <3>1, <3>2 DEF EndsOf
  <2>2. ASSUME NEW d \in F
        PROVE  m + d \in E
    <3>1. CASE d = 0
      BY <1>1, <1>2, <1>3, <3>1 DEF EndsOf
    <3>2. CASE d = Len(q) + 1
      BY <1>3, <3>2 DEF EndsOf
    <3>3. CASE d \in DOMAIN q /\ q[d] \in C
      <4>1. m + d \in DOMAIN s /\ s[m + d] = q[d]
        BY <1>1, <1>2, <1>3, <3>3
      <4>2. QED
        BY <3>3, <4>1 DEF EndsOf
    <3>4. QED
      BY <3>1, <3>2, <3>3 DEF EndsOf
  <2>3. 0 \in E
    BY DEF EndsOf
  <2> HIDE DEF E, F, m
  <2>4. QED
    BY <2>1, <2>2, <2>3
<1>5. /\ E \subseteq Nat /\ IsFiniteSet(E) /\ Cardinality(E) \in Nat
      /\ F \subseteq Nat /\ IsFiniteSet(F) /\ Cardinality(F) \in Nat \ {0} /\ 0 \in F
  BY <1>1, EndsType
<1>6. Cut(s, C) = [k \in 1..(Cardinality(E) - 1) |-> SubSeq(s, EndAt(E, k) + 1, EndAt(E, k + 1) - 1)]
  BY CutBy
<1>7. Cut(q, C) = [k \in 1..(Cardinality(F) - 1) |-> SubSeq(q, EndAt(F, k) + 1, EndAt(F, k + 1) - 1)]
  BY CutBy
<1>8. F \subseteq 0..(Len(q) + 1)
  BY EndsType
<1>9. m >= 1
  BY <1>2
<1> HIDE DEF E, F
<1>10. Cardinality(E) = Cardinality(F) + 1
  <2>1. IsFiniteSet(G) /\ Cardinality(G) = Cardinality(F)
    <3> HIDE DEF m, F
    <3>1. QED
      BY <1>3, <1>5, ShiftedCount
  <2>2. 0 \notin G
    BY <1>3, <1>5, <1>9
  <2> HIDE DEF G
  <2>3. E = G \cup {0}
    BY <1>4
  <2>4. QED
    BY <2>1, <2>2, <2>3, FS_AddElement
<1>11. ASSUME NEW d \in F
       PROVE  Cardinality(Under(E, m + d)) = Cardinality(Under(F, d)) + 1
  <2> DEFINE U == Under(F, d)
             V == {m + x : x \in U}
  <2>1. U \subseteq Nat /\ IsFiniteSet(U)
    BY <1>5, FS_Subset DEF Under
  <2>2. Under(E, m + d) = V \cup {0}
    <3> HIDE DEF m
    <3>1. \A x \in F : m + x < m + d <=> x < d
      BY <1>3, <1>5
    <3>2. 0 < m + d
      BY <1>3, <1>5, <1>9
    <3>3. QED
      BY <1>4, <3>1, <3>2 DEF Under
  <2>3. 0 \notin V
    <3> HIDE DEF m, U
    <3>1. QED
      BY <1>3, <1>9, <2>1
  <2> HIDE DEF m, U
  <2>4. IsFiniteSet(V) /\ Cardinality(V) = Cardinality(U)
    BY <1>3, <2>1, ShiftedCount
  <2> HIDE DEF V
  <2>5. Cardinality(V \cup {0}) = Cardinality(V) + 1
    BY <2>3, <2>4, FS_AddElement
  <2>6. QED
    BY <2>2, <2>4, <2>5 DEF U
<1> HIDE DEF m, G
<1>12. EndAt(E, 1) = 0 /\ EndAt(F, 1) = 0
  <2>1. Under(E, 0) = {} /\ Under(F, 0) = {} /\ 0 \in E /\ 0 \in F
    <3>1. \A d \in E \cup F : ~(d < 0)
      BY <1>5
    <3>2. QED
      BY <1>4, <1>5, <3>1 DEF Under
  <2>2. Cardinality(Under(E, 0)) = 1 - 1 /\ Cardinality(Under(F, 0)) = 1 - 1
    <3>1. Cardinality({}) = 1 - 1
      BY FS_EmptySet
    <3>2. QED
      BY <2>1, <3>1
  <2>3. 1 \in 1..Cardinality(E) /\ 1 \in 1..Cardinality(F)
    BY <1>5, <1>10
  <2>4. EndAt(E, 1) = 0
    BY <1>5, <2>1, <2>2, <2>3, EndAtIs, ZenonT(60)
  <2>5. EndAt(F, 1) = 0
    BY <1>5, <2>1, <2>2, <2>3, EndAtIs, ZenonT(60)
  <2>6. QED
    BY <2>4, <2>5
<1>13. ASSUME NEW k \in 1..Cardinality(F)
       PROVE  EndAt(F, k) \in F /\ EndAt(E, k + 1) = m + EndAt(F, k)
  <2> DEFINE d == EndAt(F, k)
  <2>1. d \in F /\ Cardinality(Under(F, d)) = k - 1
    BY <1>5, EndAtIs
  <2> HIDE DEF d
  <2>2. Cardinality(Under(E, m + d)) = (k + 1) - 1
    BY <1>11, <2>1
  <2>3. m + d \in E /\ k + 1 \in 1..Cardinality(E)
    BY <1>4, <1>5, <1>10, <2>1 DEF G
  <2>4. EndAt(E, k + 1) = m + d
    <3>1. \A e \in E : Cardinality(Under(E, e)) = (k + 1) - 1 => EndAt(E, k + 1) = e
      BY <1>5, <2>3, EndAtIs
    <3>2. QED
      BY <2>2, <2>3, <3>1
  <2>5. QED
    BY <2>1, <2>4 DEF d
<1> DEFINE n == Cardinality(F)
           r == Cut(q, C)
<1>14. n \in Nat \ {0} /\ Cardinality(E) - 1 = n
  BY <1>5, <1>10
<1>15. r \in Seq(String) /\ Len(r) = n - 1
  <2>1. DOMAIN r = 1..Len(r) /\ \A k \in DOMAIN r : r[k] \in String
    BY CutIs
  <2>2. r = [k \in 1..(n - 1) |-> SubSeq(q, EndAt(F, k) + 1, EndAt(F, k + 1) - 1)]
    BY <1>7
  <2> HIDE DEF r, n
  <2>3. DOMAIN r = 1..(n - 1) /\ r = [k \in 1..(n - 1) |-> r[k]]
    BY <2>2
  <2> DEFINE l == n - 1
  <2>4. l \in Nat
    BY <1>14
  <2> HIDE DEF l
  <2>5. DOMAIN r = 1..l /\ r = [k \in 1..l |-> r[k]] /\ \A k \in 1..l : r[k] \in String
    BY <2>1, <2>3 DEF l
  <2>6. r \in Seq(String) /\ Len(r) = l
    BY <2>4, <2>5
  <2>7. QED
    BY <2>6 DEF l
<1>16. /\ <<p>> \o r \in Seq(String) /\ Len(<<p>> \o r) = n
       /\ (<<p>> \o r)[1] = p
       /\ \A k \in 1..(n - 1) : (<<p>> \o r)[k + 1] = r[k]
  <2> HIDE DEF r, n
  <2>1. QED
    BY <1>14, <1>15
<1>17. Cut(s, C)[1] = p
  <2>1. Cut(s, C)[1] = SubSeq(s, EndAt(E, 1) + 1, EndAt(E, 1 + 1) - 1)
    <3>1. 1 \in 1..(Cardinality(E) - 1)
      BY <1>14
    <3>2. QED
      BY <1>6, <3>1
  <2>2. EndAt(E, 1 + 1) = m + 0 /\ EndAt(E, 1) + 1 = 1
    BY <1>12, <1>13, <1>14
  <2>3. (m + 0) - 1 = Len(p)
    BY <1>2 DEF m
  <2>4. SubSeq(s, 1, Len(p)) = p
    BY <1>1
  <2>5. QED
    BY <2>1, <2>2, <2>3, <2>4
<1>18. ASSUME NEW k \in 1..(n - 1)
       PROVE  Cut(s, C)[k + 1] = r[k]
  <2> DEFINE a == EndAt(F, k)
             b == EndAt(F, k + 1)
  <2>1. /\ k \in 1..n /\ k + 1 \in 1..n
    BY <1>14
  <2>2. /\ a \in 0..(Len(q) + 1) /\ b \in 0..(Len(q) + 1)
        /\ EndAt(E, k + 1) = m + a /\ EndAt(E, (k + 1) + 1) = m + b
    BY <1>8, <1>13, <2>1
  <2>3. Cut(s, C)[k + 1] = SubSeq(s, EndAt(E, k + 1) + 1, EndAt(E, (k + 1) + 1) - 1)
    BY <1>6, <1>14, <2>1
  <2>4. r[k] = SubSeq(q, a + 1, b - 1)
    BY <1>7
  <2> HIDE DEF a, b, r, n
  <2>5. SubSeq(s, (m + a) + 1, (m + b) - 1) = SubSeq(q, a + 1, b - 1)
    <3>1. q = Skip(s, m) /\ m \in 0..Len(s)
      BY <1>1, <1>2 DEF m
    <3>2. Len(SubSeq(s, (m + a) + 1, (m + b) - 1)) = Len(SubSeq(q, a + 1, b - 1))
      BY <1>1, <1>2, <1>3, <2>2 DEF String
    <3>3. QED
      BY <1>1, <1>2, <1>3, <2>2, SMTT(30) DEF m, String
  <2>6. QED
    BY <2>2, <2>3, <2>4, <2>5
<1>19. Cut(s, C) \in Seq(String) /\ Len(Cut(s, C)) = n
  <2>1. DOMAIN Cut(s, C) = 1..Len(Cut(s, C)) /\ \A k \in DOMAIN Cut(s, C) : Cut(s, C)[k] \in String
    BY <1>1, CutIs
  <2>2. DOMAIN Cut(s, C) = 1..n
    BY <1>6, <1>14
  <2>3. Cut(s, C) = [k \in 1..n |-> Cut(s, C)[k]]
    BY <1>6, <1>14
  <2> HIDE DEF n
  <2>4. QED
    BY <1>14, <2>1, <2>2, <2>3
<1>20. \A k \in 1..n : Cut(s, C)[k] = (<<p>> \o r)[k]
  <2> HIDE DEF n, r
  <2>1. TAKE k \in 1..n
  <2>2. CASE k = 1
    BY <1>16, <1>17, <2>2
  <2>3. CASE k # 1
    <3>1. k - 1 \in 1..(n - 1) /\ (k - 1) + 1 = k
      BY <1>14, <2>3
    <3>2. Cut(s, C)[(k - 1) + 1] = r[k - 1] /\ (<<p>> \o r)[(k - 1) + 1] = r[k - 1]
      BY <1>16, <1>18, <3>1
    <3> HIDE DEF s
    <3>3. QED
      BY <3>1, <3>2
  <2>4. QED
    BY <2>2, <2>3
<1> HIDE DEF n, r
<1>21. Cut(s, C) = <<p>> \o r
  <2> DEFINE x == Cut(s, C)
             y == <<p>> \o r
  <2> HIDE DEF x, y
  <2>1. x \in Seq(String) /\ y \in Seq(String) /\ Len(x) = Len(y) /\ \A k \in 1..Len(x) : x[k] = y[k]
    BY <1>16, <1>19, <1>20 DEF x, y
  <2>2. x = [k \in 1..Len(x) |-> x[k]] /\ y = [k \in 1..Len(y) |-> y[k]]
    BY <2>1
  <2>3. x = y
    BY <2>1, <2>2
  <2>4. QED
    BY <2>3 DEF x, y
<1>22. QED
  BY <1>21 DEF r, s

LEMMA CutType ==
  ASSUME NEW s \in String, NEW C
  PROVE  Cut(s, C) \in Seq(String) /\ Len(Cut(s, C)) \in Nat \ {0} /\ Cut(s, C) # <<>>
<1> DEFINE x == Cut(s, C)
           n == Len(x)
<1>1. n \in Nat \ {0} /\ DOMAIN x = 1..n /\ \A k \in DOMAIN x : x[k] \in String
  BY CutIs
<1>2. x = [k \in DOMAIN x |-> x[k]]
  <2>1. x = [k \in 1..(Cardinality(EndsOf(s, C)) - 1) |->
               SubSeq(s, EndAt(EndsOf(s, C), k) + 1, EndAt(EndsOf(s, C), k + 1) - 1)]
    BY CutBy
  <2> HIDE DEF x
  <2>2. QED
    BY <2>1
<1> HIDE DEF x, n
<1>3. x \in Seq(String)
  BY <1>1, <1>2
<1>4. x # <<>>
  BY <1>1 DEF n
<1>5. QED
  BY <1>1, <1>3, <1>4 DEF x, n

LEMMA CutNone ==
  ASSUME NEW s \in String, NEW C, Chars(s) \cap C = {}
  PROVE  Cut(s, C) = <<s>>
<1> DEFINE E == EndsOf(s, C)
           x == Cut(s, C)
<1>1. Len(s) \in Nat /\ 0 # Len(s) + 1
  BY Characters
<1>2. E = {0} \cup {Len(s) + 1}
  BY DEF EndsOf, Chars
<1>3. Cardinality(E) = 1 + 1
  <2>1. IsFiniteSet({0}) /\ Cardinality({0}) = 1
    BY FS_Singleton
  <2>2. QED
    BY <1>1, <1>2, <2>1, FS_AddElement
<1>4. x = [k \in 1..(Cardinality(E) - 1) |-> SubSeq(s, EndAt(E, k) + 1, EndAt(E, k + 1) - 1)]
  BY CutBy
<1> HIDE DEF E
<1>5. DOMAIN x = 1..((1 + 1) - 1)
  BY <1>3, <1>4
<1>6. Len(x) = 1
  <2>1. DOMAIN x = 1..Len(x) /\ Len(x) \in Nat
    BY CutIs
  <2> HIDE DEF x
  <2>2. QED
    BY <1>5, <2>1
<1>7. x[1] = s
  BY <1>6, CutIs
<1>8. x \in Seq(String)
  BY CutType
<1> HIDE DEF x
<1>9. x = <<s>>
  BY <1>6, <1>7, <1>8
<1>10. QED
  BY <1>9 DEF x

LEMMA JoinsAssociate ==
  ASSUME NEW a \in Seq(String), NEW b \in Seq(String), NEW c \in Seq(String)
  PROVE  (a \o b) \o c = a \o (b \o c)
OBVIOUS

Rejoined(a, d, b, c, q) ==
  (a \o (<<d>> \o b)) \o (<<c>> \o q) = a \o (<<d>> \o (b \o (<<c>> \o q)))

LEMMA Between ==
  ASSUME NEW a \in String, NEW d \in Char, NEW b \in String, NEW c \in Char, NEW q \in String
  PROVE  Rejoined(a, d, b, c, q)
<1>1. <<d>> \in String /\ <<c>> \o q \in String /\ <<d>> \o b \in String
  BY DEF String
<1>2. (a \o (<<d>> \o b)) \o (<<c>> \o q) = a \o ((<<d>> \o b) \o (<<c>> \o q))
  BY <1>1, ConcatAssociates
<1>3. (<<d>> \o b) \o (<<c>> \o q) = <<d>> \o (b \o (<<c>> \o q))
  BY <1>1, ConcatAssociates
<1>4. QED
  BY <1>2, <1>3 DEF Rejoined

(* A character of C separates the parts of what stands on its two sides.   *)
LEMMA CutJoined ==
  ASSUME NEW p \in String, NEW q \in String, NEW C, NEW c \in Char, c \in C
  PROVE  Cut(p \o (<<c>> \o q), C) = Cut(p, C) \o Cut(q, C)
<1> DEFINE Joins(r) == Cut(r \o (<<c>> \o q), C) = Cut(r, C) \o Cut(q, C)
           S == {n \in Nat : \A r \in String : Len(r) <= n => Joins(r)}
<1>1. ASSUME NEW r \in String, ~Found(r, C)
      PROVE  Joins(r)
  <2>1. Chars(r) \cap C = {}
    BY <1>1, NotFound
  <2>2. Cut(r, C) = <<r>>
    BY <2>1, CutNone
  <2>3. QED
    BY <2>1, <2>2, CutFirst
<1>2. ASSUME NEW n \in Nat, n \in S, NEW r \in String, Len(r) <= n + 1, Found(r, C)
      PROVE  Joins(r)
  <2> DEFINE a == Before(r, C)
             b == After(r, C)
             d == r[Find(r, C)]
             t == b \o (<<c>> \o q)
  <2>1. /\ Find(r, C) \in DOMAIN r /\ d \in C
        /\ Chars(a) \cap C = {} /\ r = a \o (<<d>> \o b)
    BY <1>2, FoundParts
  <2>2. a \in String /\ b \in String
    BY CutsType
  <2>3. d \in Char
    BY <2>1 DEF String
  <2>4. Len(b) <= n
    <3> HIDE DEF a, b, d
    <3>1. Len(r) = Len(a) + 1 + Len(b) /\ Len(a) \in Nat /\ Len(b) \in Nat
      BY <2>1, <2>2, <2>3 DEF String
    <3>2. QED
      BY <1>2, <3>1
  <2>5. Joins(b)
    BY <1>2, <2>2, <2>4
  <2> HIDE DEF a, b, d
  <2>6. t \in String
    BY <2>2, ConcatType DEF String
  <2>7. r \o (<<c>> \o q) = a \o (<<d>> \o t)
    <3>1. (a \o (<<d>> \o b)) \o (<<c>> \o q) = a \o (<<d>> \o (b \o (<<c>> \o q)))
      <4> HIDE DEF S, Joins
      <4>1. Rejoined(a, d, b, c, q)
        BY <2>2, <2>3, Between
      <4>2. QED
        BY <4>1 DEF Rejoined
    <3>2. QED
      BY <2>1, <3>1
  <2>8. Cut(a \o (<<d>> \o t), C) = <<a>> \o Cut(t, C)
    BY <2>1, <2>2, <2>3, <2>6, CutFirst
  <2>9. Cut(r, C) = <<a>> \o Cut(b, C)
    BY <2>1, <2>2, <2>3, CutFirst
  <2>10. Cut(b, C) \in Seq(String) /\ Cut(q, C) \in Seq(String) /\ <<a>> \in Seq(String)
    BY <2>2, CutType
  <2>11. <<a>> \o (Cut(b, C) \o Cut(q, C)) = (<<a>> \o Cut(b, C)) \o Cut(q, C)
    BY <2>10, JoinsAssociate
  <2>12. QED
    BY <2>5, <2>7, <2>8, <2>9, <2>11
<1>3. 0 \in S
  <2>1. ASSUME NEW r \in String, Len(r) <= 0
        PROVE  ~Found(r, C)
    <3>1. DOMAIN r = {}
      BY <2>1, Characters
    <3>2. QED
      BY <3>1, FoundParts
  <2>2. \A r \in String : Len(r) <= 0 => Joins(r)
    BY <1>1, <2>1
  <2>3. QED
    BY <2>2
<1>4. ASSUME NEW n \in Nat, n \in S
      PROVE  n + 1 \in S
  <2>1. \A r \in String : Len(r) <= n + 1 => Joins(r)
    BY <1>1, <1>2, <1>4
  <2>2. QED
    BY <2>1
<1> HIDE DEF S
<1>5. Len(p) \in S
  BY <1>3, <1>4, Induction, Characters
<1>6. Len(p) <= Len(p)
  BY Characters
<1>7. QED
  BY <1>5, <1>6 DEF S

(* What stands before the first of many characters stands before the first *)
(* of few.                                                                 *)
LEMMA BeforeTwice ==
  ASSUME NEW s \in String, NEW C, NEW D, C \subseteq D
  PROVE  Before(Before(s, C), D) = Before(s, D)
<1>1. CASE ~Found(s, C)
  BY <1>1, NotFound
<1>2. CASE Found(s, C)
  <2> DEFINE p == Before(s, C)
             q == After(s, C)
             c == s[Find(s, C)]
  <2>1. /\ Find(s, C) \in DOMAIN s /\ c \in C
        /\ Chars(p) \cap C = {} /\ s = p \o (<<c>> \o q)
    BY <1>2, FoundParts
  <2>2. p \in String /\ q \in String /\ c \in Char
    <3>1. c \in Char
      BY <2>1 DEF String
    <3>2. QED
      BY <3>1, CutsType
  <2> HIDE DEF p, q, c
  <2>3. CASE Chars(p) \cap D = {}
    <3>1. CutsInto(s, D, p, c, q)
      BY <2>1, <2>2, <2>3, FindBehind
    <3>2. QED
      BY <2>2, <2>3, <3>1, FindNone DEF CutsInto, p
  <2>4. CASE Chars(p) \cap D # {}
    <3> DEFINE a == Before(p, D)
               b == After(p, D)
               d == p[Find(p, D)]
    <3>1. Found(p, D)
      BY <2>2, <2>4, NotFound
    <3>2. /\ Find(p, D) \in DOMAIN p /\ d \in D
          /\ Chars(a) \cap D = {} /\ p = a \o (<<d>> \o b)
      BY <2>2, <3>1, FoundParts
    <3>3. a \in String /\ b \in String /\ d \in Char
      <4>1. d \in Char
        BY <2>2, <3>2 DEF String
      <4>2. QED
        BY <2>2, <4>1, CutsType
    <3> HIDE DEF a, b, d
    <3>4. s = a \o (<<d>> \o (b \o (<<c>> \o q)))
      <4>1. Rejoined(a, d, b, c, q)
        BY <2>2, <3>3, Between
      <4>2. QED
        BY <2>1, <3>2, <4>1 DEF Rejoined
    <3>5. b \o (<<c>> \o q) \in String
      BY <2>2, <3>3, ConcatType DEF String
    <3>6. CutsInto(s, D, a, d, b \o (<<c>> \o q))
      BY <3>2, <3>3, <3>4, <3>5, FindBehind
    <3>7. QED
      BY <3>6 DEF CutsInto, a, p
  <2>5. QED
    BY <2>3, <2>4
<1>3. QED
  BY <1>1, <1>2

(* The first part of s, and the rest.                                      *)
LEMMA CutHead ==
  ASSUME NEW s \in String, NEW C
  PROVE  /\ Found(s, C) => Cut(s, C) = <<Before(s, C)>> \o Cut(After(s, C), C)
         /\ ~Found(s, C) => Cut(s, C) = <<Before(s, C)>>
<1>1. CASE Found(s, C)
  <2> DEFINE p == Before(s, C)
             q == After(s, C)
             c == s[Find(s, C)]
  <2>1. /\ Find(s, C) \in DOMAIN s /\ c \in C
        /\ Chars(p) \cap C = {} /\ s = p \o (<<c>> \o q)
    BY <1>1, FoundParts
  <2>2. p \in String /\ q \in String /\ c \in Char
    <3>1. c \in Char
      BY <2>1 DEF String
    <3>2. QED
      BY <3>1, CutsType
  <2> HIDE DEF p, q, c
  <2>3. Cut(p \o (<<c>> \o q), C) = <<p>> \o Cut(q, C)
    BY <2>1, <2>2, CutFirst
  <2>4. QED
    BY <1>1, <2>1, <2>3 DEF p, q
<1>2. CASE ~Found(s, C)
  BY <1>2, NotFound, CutNone
<1>3. QED
  BY <1>1, <1>2

(* Digits in front of s that no further digit follows are what std::stoi   *)
(* reads of the first part of s.                                           *)
LEMMA HeadReads ==
  ASSUME NEW t \in String, OnlyDigits(t), t # <<>>,
         NEW u \in String, u # <<>> => u[1] \notin Digit,
         NEW s, s = t \o u
  PROVE  /\ Before(s, {Dot, Dash}) \in String
         /\ Leading(Before(s, {Dot, Dash})) = t
         /\ Before(s, {Dot, Dash}) # <<>>
<1> DEFINE h == Before(s, {Dot, Dash})
<1>1. s \in String
  BY ConcatType
<1>2. h \in String
  BY <1>1, CutsType
<1>3. Leading(h) = Before(h, Char \ Digit) /\ Leading(s) = Before(s, Char \ Digit)
  BY <1>1, <1>2, LeadingIs
<1>4. Before(h, Char \ Digit) = Before(s, Char \ Digit)
  <2>1. {Dot, Dash} \subseteq Char \ Digit
    BY CharacterFacts
  <2>2. QED
    BY <1>1, <2>1, BeforeTwice
<1>5. Leading(s) = t
  BY LeadingBefore
<1> HIDE DEF h
<1>6. Leading(h) = t
  BY <1>3, <1>4, <1>5
<1>7. h # <<>>
  <2>1. Leading(<<>>) = <<>>
    BY EmptyValue, LeadingDigits
  <2>2. QED
    BY <1>6, <2>1
<1>8. QED
  BY <1>2, <1>6, <1>7 DEF h

-----------------------------------------------------------------------------
(* The pieces of TextOf(s) are those of the parts of s.                    *)

MapPieces(c) == [i \in DOMAIN c |-> PieceOf(c[i])]

LEMMA MapJoined ==
  ASSUME NEW a \in Seq(String), NEW b \in Seq(String),
         MapPieces(a) \in Seq(Piece), MapPieces(b) \in Seq(Piece)
  PROVE  MapPieces(a \o b) = MapPieces(a) \o MapPieces(b)
<1> DEFINE x == MapPieces(a \o b)
           y == MapPieces(a) \o MapPieces(b)
           m == Len(a)
           n == Len(b)
<1>1. /\ m \in Nat /\ n \in Nat /\ DOMAIN a = 1..m /\ DOMAIN b = 1..n
      /\ DOMAIN (a \o b) = 1..(m + n)
  OBVIOUS
<1>2. Len(MapPieces(a)) = m /\ Len(MapPieces(b)) = n
  <2>1. DOMAIN MapPieces(a) = 1..m /\ DOMAIN MapPieces(b) = 1..n
    BY <1>1 DEF MapPieces
  <2> HIDE DEF m, n
  <2>2. QED
    BY <1>1, <2>1
<1>3. y = [i \in 1..(m + n) |-> IF i <= m THEN MapPieces(a)[i] ELSE MapPieces(b)[i - m]]
  <2> DEFINE p == MapPieces(a)
             q == MapPieces(b)
  <2>1. p \in Seq(Piece) /\ q \in Seq(Piece) /\ Len(p) = m /\ Len(q) = n
    BY <1>2
  <2> HIDE DEF p, q
  <2>2. p \o q = [i \in 1..(Len(p) + Len(q)) |-> IF i <= Len(p) THEN p[i] ELSE q[i - Len(p)]]
    <3> DEFINE z == p \o q
    <3>1. /\ z \in Seq(Piece) /\ Len(z) = Len(p) + Len(q)
          /\ \A i \in 1..(Len(p) + Len(q)) : z[i] = IF i <= Len(p) THEN p[i] ELSE q[i - Len(p)]
      BY <2>1, Joined
    <3> HIDE DEF z
    <3>2. z = [i \in 1..Len(z) |-> z[i]]
      BY <3>1
    <3>3. z = [i \in 1..(Len(p) + Len(q)) |-> IF i <= Len(p) THEN p[i] ELSE q[i - Len(p)]]
      BY <3>1, <3>2
    <3>4. QED
      BY <3>3 DEF z
  <2>3. QED
    BY <2>1, <2>2 DEF p, q
<1>4. x = [i \in 1..(m + n) |-> PieceOf((a \o b)[i])]
  BY <1>1 DEF MapPieces
<1>5. \A i \in 1..(m + n) : (a \o b)[i] = IF i <= m THEN a[i] ELSE b[i - m]
  OBVIOUS
<1>6. /\ \A i \in 1..m : MapPieces(a)[i] = PieceOf(a[i])
      /\ \A i \in 1..n : MapPieces(b)[i] = PieceOf(b[i])
  BY <1>1 DEF MapPieces
<1> HIDE DEF m, n, x, y
<1>7. \A i \in 1..(m + n) : (i <= m => i \in 1..m) /\ (~(i <= m) => i - m \in 1..n)
  BY <1>1
<1>8. \A i \in 1..(m + n) : PieceOf((a \o b)[i]) = IF i <= m THEN MapPieces(a)[i] ELSE MapPieces(b)[i - m]
  <2>1. TAKE i \in 1..(m + n)
  <2>2. CASE i <= m
    BY <1>5, <1>6, <1>7, <2>2
  <2>3. CASE ~(i <= m)
    BY <1>5, <1>6, <1>7, <2>3
  <2>4. QED
    BY <2>2, <2>3
<1>9. x = y
  BY <1>3, <1>4, <1>8
<1>10. QED
  BY <1>9 DEF x, y

LEMMA PiecesOfMap ==
  ASSUME NEW s \in String
  PROVE  PiecesOf(s) = MapPieces(Cut(s, {Dot, Dash})) /\ PiecesOf(s) \in Seq(Piece)
BY PiecesOfType DEF PiecesOf, MapPieces

LEMMA TextPieces ==
  ASSUME NEW s \in String
  PROVE  TextOf(s).nums \o TextOf(s).pre = MapPieces(Cut(s, {Dot, Dash}))
<1> DEFINE C == {Dot, Dash}
           p == Before(s, {Dash})
           q == After(s, {Dash})
<1>1. p \in String /\ q \in String
  BY CutsType
<1>2. /\ TextOf(s).nums = PiecesOf(p)
      /\ TextOf(s).pre = IF Found(s, {Dash}) THEN PiecesOf(q) ELSE <<>>
  BY DEF TextOf
<1>3. CASE Found(s, {Dash})
  <2>1. s = p \o (<<Dash>> \o q)
    BY <1>3, FoundParts
  <2>2. Dash \in Char /\ Dash \in C
    BY CharacterFacts
  <2> HIDE DEF p, q, C
  <2>3. Cut(p \o (<<Dash>> \o q), C) = Cut(p, C) \o Cut(q, C)
    BY <1>1, <2>2, CutJoined
  <2>4. Cut(s, C) = Cut(p, C) \o Cut(q, C)
    BY <2>1, <2>3
  <2>5. /\ PiecesOf(p) = MapPieces(Cut(p, C)) /\ PiecesOf(p) \in Seq(Piece)
        /\ PiecesOf(q) = MapPieces(Cut(q, C)) /\ PiecesOf(q) \in Seq(Piece)
    BY <1>1, PiecesOfMap DEF C
  <2>6. Cut(p, C) \in Seq(String) /\ Cut(q, C) \in Seq(String)
    BY <1>1, CutType
  <2>7. MapPieces(Cut(p, C) \o Cut(q, C)) = MapPieces(Cut(p, C)) \o MapPieces(Cut(q, C))
    BY <2>5, <2>6, MapJoined
  <2>8. QED
    BY <1>2, <1>3, <2>4, <2>5, <2>7 DEF C
<1>4. CASE ~Found(s, {Dash})
  <2>1. p = s
    BY <1>4, NotFound
  <2>2. PiecesOf(s) = MapPieces(Cut(s, C)) /\ PiecesOf(s) \in Seq(Piece)
    BY PiecesOfMap
  <2>3. \A x \in Seq(Piece) : x \o <<>> = x
    OBVIOUS
  <2> HIDE DEF C, p
  <2>4. QED
    BY <1>2, <1>4, <2>1, <2>2, <2>3 DEF C
<1>5. QED
  BY <1>3, <1>4

(* split() on the pieces and on the string.                                *)
LEMMA SplitStringPieces ==
  ASSUME NEW s \in String
  PROVE  /\ SplitString(s) \in Seq(String) /\ Split(TextOf(s)) \in Seq(Piece)
         /\ Len(Split(TextOf(s))) = Len(SplitString(s))
         /\ \A i \in 1..Len(SplitString(s)) :
              /\ Split(TextOf(s))[i] = PieceOf(SplitString(s)[i])
              /\ \E k \in DOMAIN Cut(s, {Dot, Dash}) : SplitString(s)[i] = Cut(s, {Dot, Dash})[k]
<1> DEFINE c == Cut(s, {Dot, Dash})
           m == MapPieces(c)
           l == Len(c)
<1>1. c \in Seq(String) /\ l \in Nat \ {0} /\ DOMAIN c = 1..l
  BY CutType
<1>2. m \in Seq(Piece) /\ TextOf(s).nums \o TextOf(s).pre = m
  <2>1. TextOf(s) \in Text
    BY TextOfType
  <2>2. TextOf(s).nums \in Seq(Piece) /\ TextOf(s).pre \in Seq(Piece)
    BY <2>1 DEF Text
  <2>3. TextOf(s).nums \o TextOf(s).pre \in Seq(Piece)
    BY <2>2
  <2>4. QED
    BY <2>3, TextPieces
<1>3. DOMAIN m = 1..l /\ \A i \in 1..l : m[i] = PieceOf(c[i])
  BY <1>1 DEF MapPieces
<1>4. c[l] = <<>> <=> m[l] = EmptyPiece
  <2>1. l \in 1..l
    BY <1>1
  <2>2. c[l] \in String /\ Chars(c[l]) \subseteq Chars(s) \ {Dot, Dash}
    BY <1>1, <2>1, CutIs
  <2>3. c[l] # <<>> => c[l][1] \notin {Dot, Dash}
    <3>1. c[l] # <<>> => 1 \in DOMAIN c[l]
      BY <2>2, Characters
    <3>2. QED
      BY <2>2, <3>1 DEF Chars
  <2> HIDE DEF c, m, l
  <2>4. PieceOf(c[l]) = EmptyPiece <=> c[l] = <<>>
    BY <2>2, <2>3, PieceOfType DEF PieceOf
  <2>5. QED
    BY <1>3, <2>1, <2>4
<1> HIDE DEF c, m
<1>5. Len(m) = l
  <2>1. Len(m) \in Nat /\ DOMAIN m = 1..Len(m)
    <3>1. m \in Seq(Piece)
      BY <1>2
    <3>2. QED
      BY <3>1
  <2> HIDE DEF l
  <2>2. QED
    BY <1>1, <1>3, <2>1
<1>6. SplitString(s) = IF c[l] = <<>> THEN SubSeq(c, 1, l - 1) ELSE c
  BY DEF SplitString, DropEmptyEnd, Last, Front, c
<1>7. Split(TextOf(s)) = IF m[l] = EmptyPiece THEN SubSeq(m, 1, l - 1) ELSE m
  <2>1. m # <<>>
    BY <1>1, <1>5
  <2>2. QED
    BY <1>2, <1>5, <2>1 DEF Split, DropTrailingEmpty
<1>8. /\ SubSeq(c, 1, l - 1) \in Seq(String) /\ Len(SubSeq(c, 1, l - 1)) = l - 1
      /\ \A i \in 1..(l - 1) : SubSeq(c, 1, l - 1)[i] = c[i] /\ i \in 1..l
  BY <1>1
<1>9. /\ SubSeq(m, 1, l - 1) \in Seq(Piece) /\ Len(SubSeq(m, 1, l - 1)) = l - 1
      /\ \A i \in 1..(l - 1) : SubSeq(m, 1, l - 1)[i] = m[i]
  <2> HIDE DEF l
  <2>1. m \in Seq(Piece)
    BY <1>2
  <2>2. QED
    BY <1>1, <1>5, <2>1
<1>10. CASE c[l] = <<>>
  <2>1. SplitString(s) = SubSeq(c, 1, l - 1) /\ Split(TextOf(s)) = SubSeq(m, 1, l - 1)
    BY <1>4, <1>6, <1>7, <1>10
  <2> HIDE DEF l
  <2>2. QED
    BY <1>1, <1>3, <1>8, <1>9, <2>1 DEF c
<1>11. CASE c[l] # <<>>
  <2>1. SplitString(s) = c /\ Split(TextOf(s)) = m
    BY <1>4, <1>6, <1>7, <1>11
  <2>2. QED
    BY <1>1, <1>2, <1>3, <1>5, <2>1 DEF c
<1>12. QED
  BY <1>10, <1>11

-----------------------------------------------------------------------------
(* What coerce reads of a string: the three groups of its expression, and  *)
(* the numerals of its text that they are.                                 *)

LEMMA TwoStrings ==
  ASSUME NEW a \in String, NEW b \in String
  PROVE  /\ a \o b \in String
         /\ Len(a \o b) = Len(a) + Len(b)
         /\ \A i \in 1..(Len(a) + Len(b)) :
              (a \o b)[i] = IF i <= Len(a) THEN a[i] ELSE b[i - Len(a)]
BY DEF String

(* A string goes on behind what was skipped of it.                         *)
LEMMA SkipJoined ==
  ASSUME NEW a \in String, NEW b \in String, NEW n \in 0..Len(a)
  PROVE  Skip(a \o b, n) = Skip(a, n) \o b
<1>1. /\ a \in Seq(Char) /\ b \in Seq(Char)
      /\ Len(a) \in Nat /\ Len(b) \in Nat /\ n \in Nat /\ n <= Len(a)
  BY Characters DEF String
<1> DEFINE x == Skip(a \o b, n)
           y == Skip(a, n) \o b
<1>2. /\ x \in String /\ Len(x) = Len(a) + Len(b) - n
      /\ \A i \in 1..(Len(a) + Len(b) - n) : x[i] = IF n + i <= Len(a) THEN a[n + i] ELSE b[n + i - Len(a)]
  <2> DEFINE v == a \o b
             l == Len(a) + Len(b)
  <2>1. /\ v \in String /\ Len(v) = l
        /\ \A i \in 1..l : v[i] = IF i <= Len(a) THEN a[i] ELSE b[i - Len(a)]
    BY TwoStrings
  <2>2. l \in Nat /\ n \in 0..l /\ n \in Nat
    BY <1>1
  <2> HIDE DEF v, l
  <2>3. /\ Skip(v, n) \in String /\ Len(Skip(v, n)) = l - n
        /\ \A i \in 1..(l - n) : Skip(v, n)[i] = v[n + i]
    BY <2>1, <2>2, SkipLength, SkipParts
  <2>4. \A i \in 1..(l - n) : n + i \in 1..l
    BY <2>2
  <2>5. \A i \in 1..(l - n) : Skip(v, n)[i] = IF n + i <= Len(a) THEN a[n + i] ELSE b[n + i - Len(a)]
    BY <2>1, <2>3, <2>4
  <2>6. QED
    BY <2>3, <2>5 DEF v, l
<1>3. /\ y \in String /\ Len(y) = Len(a) + Len(b) - n
      /\ \A i \in 1..(Len(a) + Len(b) - n) : y[i] = IF n + i <= Len(a) THEN a[n + i] ELSE b[n + i - Len(a)]
  <2>1. /\ Skip(a, n) \in Seq(Char) /\ Len(Skip(a, n)) = Len(a) - n
        /\ \A i \in 1..(Len(a) - n) : Skip(a, n)[i] = a[n + i]
    BY <1>1, SkipLength, SkipParts DEF String
  <2> DEFINE z == Skip(a, n)
  <2> HIDE DEF z
  <2>2. /\ z \in Seq(Char) /\ Len(z) = Len(a) - n
        /\ \A i \in 1..(Len(a) - n) : z[i] = a[n + i]
    BY <2>1 DEF z
  <2>3. /\ z \o b \in String /\ Len(z \o b) = Len(z) + Len(b)
        /\ \A i \in 1..(Len(z) + Len(b)) : (z \o b)[i] = IF i <= Len(z) THEN z[i] ELSE b[i - Len(z)]
    BY <2>2, TwoStrings DEF String
  <2>4. Len(z \o b) = Len(a) + Len(b) - n
    BY <1>1, <2>2, <2>3
  <2>5. ASSUME NEW i \in 1..(Len(a) + Len(b) - n)
        PROVE  (z \o b)[i] = IF n + i <= Len(a) THEN a[n + i] ELSE b[n + i - Len(a)]
    <3>1. i \in 1..(Len(z) + Len(b)) /\ (i <= Len(z) <=> n + i <= Len(a)) /\ i - Len(z) = n + i - Len(a)
      BY <1>1, <2>2
    <3>2. i <= Len(z) => i \in 1..(Len(a) - n)
      BY <1>1, <2>2
    <3>3. QED
      BY <2>2, <2>3, <3>1, <3>2
  <2>6. QED
    BY <2>3, <2>4, <2>5 DEF z
<1> HIDE DEF x, y
<1>4. x = y
  <2>1. DOMAIN x = 1..Len(x)
    BY <1>2, Characters
  <2>2. QED
    BY <1>2, <1>3, <2>1, NoDifference
<1>5. QED
  BY <1>4 DEF x, y

LEMMA SkipAll ==
  ASSUME NEW a \in String, NEW b \in String
  PROVE  Skip(a \o b, Len(a)) = b
<1>1. Skip(a, Len(a)) = <<>> /\ Len(a) \in 0..Len(a)
  BY DEF String, Skip
<1>2. QED
  BY <1>1, SkipJoined, EmptyConcat

(* A string is the digits it begins with and what is behind them.          *)
LEMMA LeadingParts ==
  ASSUME NEW s \in String
  PROVE  /\ Len(Leading(s)) \in 0..Len(s)
         /\ s = Leading(s) \o Skip(s, Len(Leading(s)))
         /\ Skip(s, Len(Leading(s))) \in String
         /\ Skip(s, Len(Leading(s))) # <<>> => Skip(s, Len(Leading(s)))[1] \notin Digit
<1> DEFINE C == Char \ Digit
           n == Find(s, C) - 1
<1>1. Leading(s) = Before(s, C)
  BY LeadingIs
<1>2. Len(s) \in Nat /\ n \in 0..Len(s) /\ Find(s, C) = n + 1
  BY FindRange, Characters
<1> HIDE DEF n, C
<1>3. Leading(s) = SubSeq(s, 1, n) /\ Len(Leading(s)) = n
  <2>1. Leading(s) = SubSeq(s, 1, n)
    BY <1>1, <1>2 DEF Before
  <2>2. Len(SubSeq(s, 1, n)) = n
    BY <1>2 DEF String
  <2>3. QED
    BY <2>1, <2>2
<1>4. s = SubSeq(s, 1, n) \o Skip(s, n)
  <2> DEFINE x == SubSeq(s, 1, n)
             y == Skip(s, n)
             z == x \o y
  <2>1. /\ x \in String /\ Len(x) = n /\ \A i \in 1..n : x[i] = s[i]
        /\ y \in String /\ Len(y) = Len(s) - n /\ \A i \in 1..(Len(s) - n) : y[i] = s[n + i]
    <3>1. x \in String /\ Len(x) = n /\ \A i \in 1..n : x[i] = s[i]
      BY <1>2 DEF String
    <3>2. n \in Nat
      BY <1>2
    <3>3. QED
      BY <1>2, <3>1, <3>2, SkipLength, SkipParts
  <2> HIDE DEF x, y
  <2>2. /\ z \in String /\ Len(z) = n + (Len(s) - n)
        /\ \A i \in 1..(n + (Len(s) - n)) : z[i] = IF i <= n THEN x[i] ELSE y[i - n]
    BY <2>1, TwoStrings
  <2> HIDE DEF z
  <2>3. Len(z) = Len(s) /\ DOMAIN s = 1..Len(s)
    BY <1>2, <2>2, Characters
  <2>4. ASSUME NEW i \in 1..Len(s)
        PROVE  s[i] = z[i]
    <3>1. i \in 1..(n + (Len(s) - n)) /\ (i > n => i - n \in 1..(Len(s) - n) /\ n + (i - n) = i)
      BY <1>2
    <3>2. i <= n => i \in 1..n
      BY <1>2
    <3>3. QED
      BY <1>2, <2>1, <2>2, <3>1, <3>2
  <2>5. s = z
    BY <2>2, <2>3, <2>4, NoDifference
  <2>6. QED
    BY <2>5 DEF x, y, z
<1>5. Skip(s, n) \in String /\ Len(Skip(s, n)) = Len(s) - n
  <2>1. n \in Nat
    BY <1>2
  <2>2. QED
    BY <1>2, <2>1, SkipLength, SkipParts
<1>6. ASSUME Skip(s, n) # <<>>
      PROVE  Skip(s, n)[1] \notin Digit
  <2>1. Len(Skip(s, n)) # 0
    BY <1>5, <1>6 DEF String
  <2>2. 1 \in 1..(Len(s) - n) /\ n + 1 <= Len(s)
    BY <1>2, <1>5, <2>1
  <2>3. Skip(s, n)[1] = s[n + 1]
    BY <1>2, <2>2, SkipParts
  <2>4. s[n + 1] \in C
    <3>1. Found(s, C)
      BY <1>2, <2>2 DEF Found
    <3>2. s[Find(s, C)] \in C
      BY <3>1, FoundParts
    <3>3. QED
      BY <1>2, <3>2
  <2>5. QED
    BY <2>3, <2>4 DEF C
<1>7. QED
  BY <1>2, <1>3, <1>4, <1>5, <1>6

LEMMA LeadingJoined ==
  ASSUME NEW t \in String, NEW u \in String, u # <<>> => u[1] \notin Digit
  PROVE  /\ Leading(t \o u) = Leading(t)
         /\ Skip(t \o u, Len(Leading(t))) = Skip(t, Len(Leading(t))) \o u
<1> DEFINE a == Leading(t)
           v == Skip(t, Len(a))
<1>1. /\ a \in String /\ OnlyDigits(a) /\ Len(a) \in 0..Len(t)
      /\ t = a \o v /\ v \in String /\ (v # <<>> => v[1] \notin Digit)
  BY LeadingDigits, LeadingParts
<1>2. Skip(t \o u, Len(a)) = v \o u
  BY <1>1, SkipJoined
<1> HIDE DEF a, v
<1>3. v \o u \in String /\ t \o u = a \o (v \o u)
  BY <1>1, ConcatType, ConcatAssociates
<1>4. v \o u # <<>> => (v \o u)[1] \notin Digit
  <2>1. CASE v = <<>>
    BY <2>1, EmptyConcat
  <2>2. CASE v # <<>>
    <3>1. (v \o u)[1] = v[1]
      BY <1>1, <2>2 DEF String
    <3>2. QED
      BY <1>1, <2>2, <3>1
  <2>3. QED
    BY <2>1, <2>2
<1>5. Leading(t \o u) = a
  BY <1>1, <1>3, <1>4, LeadingBefore
<1>6. QED
  BY <1>2, <1>5 DEF a, v

(* The groups of a string that begins with a digit.                        *)
GroupOf(r) == IF r # <<>> /\ r[1] = Dot THEN Leading(Skip(r, 1)) ELSE <<>>
Behind(r)  == Skip(Skip(r, 1), Len(GroupOf(r)))

GroupsFrom(r) ==
  LET x == Skip(r, Len(Leading(r)))
  IN <<Leading(r), GroupOf(x), IF GroupOf(x) = <<>> THEN <<>> ELSE GroupOf(Behind(x))>>

LEMMA GroupsAre ==
  ASSUME NEW s \in String, CanCoerce(s)
  PROVE  Groups(s) = GroupsFrom(Skip(s, Find(s, Digit) - 1))
<1> DEFINE f    == Find(s, Digit) - 1
           from == Skip(s, f)
           major == Leading(from)
           x     == Skip(from, Len(major))
           group(r) == IF r # <<>> /\ r[1] = Dot THEN Leading(Tail(r)) ELSE <<>>
           minor == group(x)
           k     == Len(major) + 1 + Len(minor)
           patch == IF minor = <<>> THEN <<>> ELSE group(Skip(from, k))
<1>1. Groups(s) = <<major, minor, patch>>
  BY DEF Groups
<1>2. from \in String
  <2>1. f \in Nat
    BY FindRange, Characters
  <2>2. QED
    BY <2>1, SkipLength
<1> HIDE DEF from
<1>3. Len(major) \in 0..Len(from) /\ x \in String
  BY <1>2, LeadingParts
<1>4. ASSUME NEW r \in String
      PROVE  group(r) = GroupOf(r)
  <2>1. r # <<>> => Tail(r) = Skip(r, 1)
    BY DEF String, Skip
  <2>2. QED
    BY <2>1 DEF GroupOf
<1>5. minor = GroupOf(x)
  BY <1>3, <1>4
<1> HIDE DEF major, x
<1>6. ASSUME minor # <<>>
      PROVE  patch = GroupOf(Behind(x))
  <2>1. Skip(x, 1) \in String /\ x # <<>> /\ minor = Leading(Skip(x, 1))
    BY <1>3, <1>5, <1>6, SkipLength DEF GroupOf
  <2>2. Len(minor) \in Nat /\ Len(x) \in Nat \ {0}
    <3>1. Leading(Skip(x, 1)) \in String
      BY <2>1, LeadingDigits
    <3>2. QED
      BY <1>3, <2>1, <3>1 DEF String
  <2> HIDE DEF minor
  <2>3. Behind(x) = Skip(from, k)
    <3>1. Skip(Skip(x, 1), Len(minor)) = Skip(x, 1 + Len(minor))
      BY <1>3, <2>2, SkipParts
    <3>2. 1 + Len(minor) \in Nat /\ Len(from) \in Nat
      BY <1>2, <2>2, Characters
    <3>3. Skip(Skip(from, Len(major)), 1 + Len(minor)) = Skip(from, Len(major) + (1 + Len(minor)))
      BY <1>2, <1>3, <3>2, SkipParts
    <3>4. Len(major) + (1 + Len(minor)) = k
      BY <1>3, <2>2
    <3>5. QED
      BY <1>5, <3>1, <3>3, <3>4 DEF Behind, x
  <2>4. Behind(x) \in String
    BY <1>5, <2>1, <2>2, SkipLength DEF Behind
  <2>5. QED
    BY <1>4, <1>6, <2>3, <2>4
<1>7. GroupsFrom(from) = <<major, minor, patch>>
  BY <1>5, <1>6 DEF GroupsFrom, major, x
<1> HIDE DEF minor, patch
<1>8. Groups(s) = GroupsFrom(from)
  BY <1>1, <1>7
<1>9. QED
  BY <1>8 DEF from

LEMMA DotsAreNoDigits ==
  /\ Dot \in Char /\ Dash \in Char /\ Dot \notin Digit /\ Dash \notin Digit /\ Dot # Dash
  /\ Digit \subseteq Char
BY CharacterFacts DEF Dot, Dash

Associates(a, b, c) == (a \o b) \o c = a \o (b \o c)

LEMMA StringsAssociate ==
  ASSUME NEW a \in String, NEW b \in String, NEW c \in String
  PROVE  Associates(a, b, c)
BY ConcatAssociates DEF Associates

(* What follows neither goes on with digits nor with a part.               *)
LEMMA GroupOfJoined ==
  ASSUME NEW r \in String, NEW u \in String, u # <<>> => u[1] \notin Digit \cup {Dot}
  PROVE  /\ GroupOf(r \o u) = GroupOf(r)
         /\ GroupOf(r) # <<>> => Behind(r \o u) = Behind(r) \o u /\ Behind(r) \in String
<1>1. CASE r = <<>>
  BY <1>1, EmptyConcat DEF GroupOf
<1>2. CASE r # <<>>
  <2>1. (r \o u)[1] = r[1] /\ r \o u # <<>>
    BY <1>2 DEF String
  <2>2. Skip(r \o u, 1) = Skip(r, 1) \o u /\ Skip(r, 1) \in String
    <3>1. 1 \in 0..Len(r)
      BY <1>2 DEF String
    <3>2. QED
      BY <3>1, SkipJoined, SkipLength
  <2> DEFINE t == Skip(r, 1)
  <2> HIDE DEF t
  <2>3. /\ Leading(t \o u) = Leading(t)
        /\ Skip(t \o u, Len(Leading(t))) = Skip(t, Len(Leading(t))) \o u
    BY <2>2, LeadingJoined DEF t
  <2>4. GroupOf(r \o u) = GroupOf(r)
    BY <1>2, <2>1, <2>2, <2>3 DEF GroupOf, t
  <2>5. ASSUME GroupOf(r) # <<>>
        PROVE  Behind(r \o u) = Behind(r) \o u /\ Behind(r) \in String
    <3>1. GroupOf(r) = Leading(t)
      BY <2>5 DEF GroupOf, t
    <3>2. Skip(t, Len(Leading(t))) \in String
      BY <2>2, LeadingParts DEF t
    <3>3. QED
      BY <2>2, <2>3, <2>4, <3>1, <3>2 DEF Behind, t
  <2>6. QED
    BY <2>4, <2>5
<1>3. QED
  BY <1>1, <1>2

LEMMA GroupsFromJoined ==
  ASSUME NEW r \in String, NEW u \in String, u # <<>> => u[1] \notin Digit \cup {Dot}
  PROVE  GroupsFrom(r \o u) = GroupsFrom(r)
<1> DEFINE x == Skip(r, Len(Leading(r)))
<1>1. x \in String /\ Leading(r \o u) = Leading(r) /\ Skip(r \o u, Len(Leading(r))) = x \o u
  BY LeadingParts, LeadingJoined
<1> HIDE DEF x
<1>2. /\ GroupOf(x \o u) = GroupOf(x)
      /\ GroupOf(x) # <<>> => Behind(x \o u) = Behind(x) \o u /\ Behind(x) \in String
  BY <1>1, GroupOfJoined
<1>3. ASSUME GroupOf(x) # <<>>
      PROVE  GroupOf(Behind(x \o u)) = GroupOf(Behind(x))
  <2> DEFINE y == Behind(x)
  <2>1. Behind(x \o u) = y \o u /\ y \in String
    BY <1>2, <1>3
  <2> HIDE DEF y
  <2>2. GroupOf(y \o u) = GroupOf(y)
    BY <2>1, GroupOfJoined
  <2>3. QED
    BY <2>1, <2>2 DEF y
<1>4. QED
  BY <1>1, <1>2, <1>3 DEF GroupsFrom, x

(* The search for a digit passes what has none.                            *)
ReadsFrom(p, c, q) ==
  LET s == p \o (<<c>> \o q)
  IN s \in String /\ CanCoerce(s) /\ Groups(s) = GroupsFrom(<<c>> \o q)

LEMMA FromDigit ==
  ASSUME NEW p \in String, Chars(p) \cap Digit = {}, NEW c \in Digit, NEW q \in String
  PROVE  ReadsFrom(p, c, q)
<1> DEFINE s == p \o (<<c>> \o q)
<1>1. c \in Char
  BY CharacterFacts
<1>2. /\ s \in String /\ Len(s) = Len(p) + 1 + Len(q)
      /\ \A i \in 1..Len(p) : s[i] = p[i]
      /\ s[Len(p) + 1] = c
  BY <1>1 DEF String
<1>3. Len(p) \in Nat /\ Len(q) \in Nat /\ \A i \in 1..Len(p) : p[i] \notin Digit
  BY Characters DEF Chars
<1>4. <<c>> \o q \in String
  BY <1>1 DEF String
<1>5. Skip(s, Len(p)) = <<c>> \o q
  BY <1>4, SkipAll
<1> HIDE DEF s
<1>6. Find(s, Digit) = Len(p) + 1
  <2>1. Len(p) + 1 \in 1..Len(s) /\ \A i \in 1..((Len(p) + 1) - 1) : s[i] \notin Digit
    BY <1>2, <1>3
  <2>2. QED
    BY <1>2, <2>1, FindIs
<1>7. CanCoerce(s) /\ Find(s, Digit) - 1 = Len(p)
  BY <1>2, <1>3, <1>6 DEF CanCoerce, Found
<1>8. Groups(s) = GroupsFrom(<<c>> \o q)
  BY <1>2, <1>5, <1>7, GroupsAre
<1>9. QED
  BY <1>2, <1>7, <1>8 DEF s, ReadsFrom

LEMMA DigitFound ==
  ASSUME NEW s \in String
  PROVE  CanCoerce(s) <=> Chars(s) \cap Digit # {}
<1>1. CanCoerce(s) => Chars(s) \cap Digit # {}
  <2>1. CanCoerce(s) => Find(s, Digit) \in DOMAIN s /\ s[Find(s, Digit)] \in Digit
    BY FoundParts DEF CanCoerce
  <2>2. QED
    BY <2>1 DEF Chars
<1>2. ~CanCoerce(s) => Chars(s) \cap Digit = {}
  BY NotFound DEF CanCoerce
<1>3. QED
  BY <1>1, <1>2

(* So coerce reads the same of a text amid others.                         *)
Amid(b, s, u) == CanCoerce(b \o (s \o u)) /\ Groups(b \o (s \o u)) = Groups(s)

LEMMA GroupsAmid ==
  ASSUME NEW b \in String, Chars(b) \cap Digit = {},
         NEW s \in String, CanCoerce(s),
         NEW u \in String, u # <<>> => u[1] \notin Digit \cup {Dot}
  PROVE  Amid(b, s, u)
<1> DEFINE p == Before(s, Digit)
           q == After(s, Digit)
           c == s[Find(s, Digit)]
<1>1. c \in Digit /\ Chars(p) \cap Digit = {} /\ s = p \o (<<c>> \o q)
  BY FoundParts DEF CanCoerce
<1>2. p \in String /\ q \in String
  BY CutsType
<1> HIDE DEF p, q, c
<1>3. <<c>> \in String /\ <<c>> \o q \in String /\ q \o u \in String
  <2>1. <<c>> \in String
    BY <1>1, CharacterFacts DEF String
  <2>2. QED
    BY <1>2, <2>1, ConcatType
<1>4. Groups(s) = GroupsFrom(<<c>> \o q)
  BY <1>1, <1>2, FromDigit DEF ReadsFrom
<1>5. b \o (s \o u) = (b \o p) \o (<<c>> \o (q \o u))
  <2>1. Associates(p, <<c>> \o q, u) /\ Associates(<<c>>, q, u)
    BY <1>2, <1>3, StringsAssociate
  <2>2. <<c>> \o (q \o u) \in String
    BY <1>3, ConcatType
  <2>3. Associates(b, p, <<c>> \o (q \o u))
    BY <1>2, <2>2, StringsAssociate
  <2>4. QED
    BY <1>1, <2>1, <2>3 DEF Associates
<1>6. b \o p \in String /\ Chars(b \o p) \cap Digit = {}
  <2>1. \A i \in 1..Len(b) : b[i] \notin Digit
    BY Characters DEF Chars
  <2>2. \A i \in 1..Len(p) : p[i] \notin Digit
    BY <1>1, <1>2, Characters DEF Chars
  <2>3. Len(b) \in Nat /\ Len(p) \in Nat
    BY <1>2, Characters
  <2>4. /\ b \o p \in String /\ Len(b \o p) = Len(b) + Len(p)
        /\ \A i \in 1..(Len(b) + Len(p)) : (b \o p)[i] = IF i <= Len(b) THEN b[i] ELSE p[i - Len(b)]
    BY <1>2, TwoStrings
  <2>5. \A i \in 1..(Len(b) + Len(p)) : (b \o p)[i] \notin Digit
    BY <2>1, <2>2, <2>3, <2>4
  <2>6. QED
    BY <2>4, <2>5, Characters DEF Chars
<1>7. CanCoerce(b \o (s \o u)) /\ Groups(b \o (s \o u)) = GroupsFrom(<<c>> \o (q \o u))
  <2>1. ReadsFrom(b \o p, c, q \o u)
    BY <1>1, <1>3, <1>6, FromDigit
  <2>2. QED
    BY <1>5, <2>1 DEF ReadsFrom
<1>8. GroupsFrom(<<c>> \o (q \o u)) = GroupsFrom(<<c>> \o q)
  <2>1. Associates(<<c>>, q, u)
    BY <1>2, <1>3, StringsAssociate
  <2>2. GroupsFrom((<<c>> \o q) \o u) = GroupsFrom(<<c>> \o q)
    BY <1>3, GroupsFromJoined
  <2>3. QED
    BY <2>1, <2>2 DEF Associates
<1>9. QED
  BY <1>4, <1>7, <1>8 DEF Amid

(* The expression on pieces, where the first of them is a numeral and      *)
(* where it is not.                                                        *)
LEMMA MatchAtOnce ==
  ASSUME NEW s \in Seq(Piece), s # <<>>, IsNum(s[1])
  PROVE  MatchIn(s) = SubSeq(s, 1, IF ~(2 <= Len(s) /\ IsNum(s[2])) THEN 1
                                   ELSE IF ~(3 <= Len(s) /\ IsNum(s[3])) THEN 2 ELSE 3)
<1> DEFINE F(i) == IsNum(s[i]) /\ \A j \in 1..(i - 1) : ~IsNum(s[j])
           first == CHOOSE i \in 1..Len(s) : F(i)
<1>1. Len(s) \in Nat \ {0}
  OBVIOUS
<1>2. F(1) /\ 1 \in 1..Len(s)
  BY <1>1
<1>3. \A i \in 1..Len(s) : F(i) => i = 1
  <2>1. ASSUME NEW i \in 1..Len(s), F(i), i # 1
        PROVE  FALSE
    <3>1. 1 \in 1..(i - 1)
      BY <2>1
    <3>2. QED
      BY <2>1, <3>1
  <2>2. QED
    BY <2>1
<1>4. first = 1
  BY <1>2, <1>3
<1> HIDE DEF first
<1>5. MatchIn(s) = SubSeq(s, first, IF ~(first + 1 <= Len(s) /\ IsNum(s[first + 1])) THEN first
                    ELSE IF ~(first + 2 <= Len(s) /\ IsNum(s[first + 2])) THEN first + 1
                    ELSE first + 2)
  BY DEF MatchIn, first
<1>6. 1 + 1 = 2 /\ 1 + 2 = 3
  OBVIOUS
<1>7. QED
  BY <1>4, <1>5, <1>6

LEMMA MatchLater ==
  ASSUME NEW w \in Piece, ~IsNum(w),
         NEW s \in Seq(Piece), \E i \in DOMAIN s : IsNum(s[i])
  PROVE  MatchIn(<<w>> \o s) = MatchIn(s)
<1> DEFINE t == <<w>> \o s
           F(x, i) == IsNum(x[i]) /\ \A j \in 1..(i - 1) : ~IsNum(x[j])
           first(x) == CHOOSE i \in 1..Len(x) : F(x, i)
           last(x, f) == IF ~(f + 1 <= Len(x) /\ IsNum(x[f + 1])) THEN f
                         ELSE IF ~(f + 2 <= Len(x) /\ IsNum(x[f + 2])) THEN f + 1 ELSE f + 2
<1>1. /\ t \in Seq(Piece) /\ Len(t) = Len(s) + 1 /\ Len(s) \in Nat
      /\ t[1] = w /\ \A i \in 1..Len(s) : t[i + 1] = s[i]
  <2>1. <<w>> \in Seq(Piece) /\ Len(<<w>>) = 1 /\ <<w>>[1] = w
    OBVIOUS
  <2> DEFINE v == <<w>>
  <2> HIDE DEF v
  <2>2. v \o s \in Seq(Piece) /\ Len(v \o s) = 1 + Len(s) /\ (v \o s)[1] = w
    BY <2>1 DEF v
  <2>3. \A i \in 1..Len(s) : (v \o s)[i + 1] = s[i]
    BY <2>1 DEF v
  <2>4. QED
    BY <2>2, <2>3 DEF v
<1> HIDE DEF t
<1>2. MatchIn(s) = SubSeq(s, first(s), last(s, first(s))) /\ MatchIn(t) = SubSeq(t, first(t), last(t, first(t)))
  BY DEF MatchIn
<1>3. PICK f \in 1..Len(s) : F(s, f)
  <2> DEFINE N == {i \in DOMAIN s : IsNum(s[i])}
  <2>1. N \subseteq Nat /\ N # {} /\ DOMAIN s = 1..Len(s)
    OBVIOUS
  <2> HIDE DEF N
  <2>2. PICK f \in N : \A y \in N : f <= y
    BY <2>1, LeastNatural
  <2>3. f \in 1..Len(s) /\ IsNum(s[f])
    BY <2>1, <2>2 DEF N
  <2>4. \A j \in 1..(f - 1) : ~IsNum(s[j])
    <3>1. ASSUME NEW j \in 1..(f - 1), IsNum(s[j])
          PROVE  FALSE
      <4>1. j \in 1..Len(s) /\ ~(f <= j)
        BY <2>3
      <4>2. j \in N
        BY <2>1, <3>1, <4>1 DEF N
      <4>3. QED
        BY <2>2, <4>1, <4>2
    <3>2. QED
      BY <3>1
  <2>5. QED
    BY <2>3, <2>4
<1>4. first(s) = f
  <2>1. ASSUME NEW i \in 1..Len(s), F(s, i)
        PROVE  i = f
    <3>1. i < f => i \in 1..(f - 1)
      OBVIOUS
    <3>2. f < i => f \in 1..(i - 1)
      OBVIOUS
    <3>3. QED
      BY <1>3, <2>1, <3>1, <3>2
  <2>2. QED
    BY <1>3, <2>1
<1>5. f + 1 \in 1..Len(t) /\ F(t, f + 1)
  <2>1. f + 1 \in 1..Len(t) /\ IsNum(t[f + 1])
    BY <1>1, <1>3
  <2>2. ASSUME NEW j \in 1..((f + 1) - 1)
        PROVE  ~IsNum(t[j])
    <3>1. CASE j = 1
      BY <1>1, <3>1
    <3>2. CASE j # 1
      <4>1. j - 1 \in 1..(f - 1) /\ j - 1 \in 1..Len(s) /\ (j - 1) + 1 = j
        BY <1>1, <3>2
      <4>2. t[(j - 1) + 1] = s[j - 1]
        BY <1>1, <4>1
      <4>3. QED
        BY <1>3, <4>1, <4>2
    <3>3. QED
      BY <3>1, <3>2
  <2>3. QED
    BY <2>1, <2>2
<1>6. first(t) = f + 1
  <2>1. ASSUME NEW i \in 1..Len(t), F(t, i)
        PROVE  i = f + 1
    <3>1. i < f + 1 => i \in 1..((f + 1) - 1)
      OBVIOUS
    <3>2. f + 1 < i => f + 1 \in 1..(i - 1)
      OBVIOUS
    <3>3. QED
      BY <1>5, <2>1, <3>1, <3>2
  <2>2. QED
    BY <1>5, <2>1
<1> DEFINE l == last(s, f)
<1>7. last(t, f + 1) = l + 1 /\ l \in Nat /\ f <= l /\ l <= Len(s)
  <2>1. f + 1 <= Len(s) => t[(f + 1) + 1] = s[f + 1]
    BY <1>1
  <2>2. f + 2 <= Len(s) => t[(f + 1) + 2] = s[f + 2]
    <3>1. f + 2 <= Len(s) => f + 2 \in 1..Len(s) /\ (f + 2) + 1 = (f + 1) + 2
      BY <1>1
    <3>2. QED
      BY <1>1, <3>1
  <2>3. ((f + 1) + 1 <= Len(t) <=> f + 1 <= Len(s)) /\ ((f + 1) + 2 <= Len(t) <=> f + 2 <= Len(s))
    BY <1>1
  <2>4. QED
    BY <1>1, <2>1, <2>2, <2>3
<1> HIDE DEF last, first, F, l
<1>8. MatchIn(s) = SubSeq(s, f, l) /\ MatchIn(t) = SubSeq(t, f + 1, l + 1)
  BY <1>2, <1>4, <1>6, <1>7 DEF l
<1>9. SubSeq(t, f + 1, l + 1) = SubSeq(s, f, l)
  <2> DEFINE x == SubSeq(t, f + 1, l + 1)
             y == SubSeq(s, f, l)
             n == l - f + 1
  <2>1. n \in Nat /\ (l + 1) - (f + 1) + 1 = n
    BY <1>7
  <2>2. /\ x \in Seq(Piece) /\ Len(x) = n /\ \A i \in 1..n : x[i] = t[(f + i - 1) + 1]
        /\ y \in Seq(Piece) /\ Len(y) = n /\ \A i \in 1..n : y[i] = s[f + i - 1]
    BY <1>1, <1>7
  <2>3. \A i \in 1..n : x[i] = y[i]
    <3>1. \A i \in 1..n : f + i - 1 \in 1..Len(s)
      BY <1>1, <1>7
    <3>2. QED
      BY <1>1, <2>2, <3>1
  <2> HIDE DEF x, y, n
  <2>4. x = [i \in 1..Len(x) |-> x[i]] /\ y = [i \in 1..Len(y) |-> y[i]]
    BY <2>2
  <2>5. x = y
    BY <2>2, <2>3, <2>4
  <2>6. QED
    BY <2>5 DEF x, y
<1>10. QED
  BY <1>8, <1>9 DEF t

(* Of one to three numerals the expression matches all.                    *)
LEMMA NumeralsMatch ==
  ASSUME NEW s \in Seq(Piece), Len(s) \in 1..3, \A i \in 1..Len(s) : IsNum(s[i])
  PROVE  MatchIn(s) = s
<1>1. s # <<>> /\ IsNum(s[1])
  OBVIOUS
<1>2. MatchIn(s) = SubSeq(s, 1, Len(s))
  BY <1>1, MatchAtOnce
<1>3. SubSeq(s, 1, Len(s)) = s
  OBVIOUS
<1>4. QED
  BY <1>2, <1>3

(* The pieces of a string without '-', each of which is made of digits or  *)
(* is one character.                                                       *)
Parts(s)    == Cut(s, {Dot, Dash})
Proper(p)   == OnlyDigits(p) \/ Len(p) = 1
Section(s)  == s \in String /\ Dash \notin Chars(s) /\ \A i \in DOMAIN Parts(s) : Proper(Parts(s)[i])
PartsOf(s)  == MapPieces(Parts(s))

LEMMA PartsType ==
  ASSUME NEW s \in String
  PROVE  /\ PartsOf(s) \in Seq(Piece) /\ Len(PartsOf(s)) = Len(Parts(s)) /\ Len(Parts(s)) \in Nat \ {0}
         /\ \A i \in 1..Len(Parts(s)) : PartsOf(s)[i] = PieceOf(Parts(s)[i])
<1>1. PartsOf(s) \in Seq(Piece)
  BY PiecesOfMap DEF PartsOf, Parts
<1>2. Len(Parts(s)) \in Nat \ {0} /\ DOMAIN Parts(s) = 1..Len(Parts(s))
  BY CutIs DEF Parts
<1>3. PartsOf(s) = [i \in DOMAIN Parts(s) |-> PieceOf(Parts(s)[i])]
  BY DEF PartsOf, MapPieces
<1> DEFINE n == Len(Parts(s))
           m == PartsOf(s)
<1> HIDE DEF n, m
<1>4. DOMAIN m = 1..n /\ \A i \in 1..n : m[i] = PieceOf(Parts(s)[i])
  BY <1>2, <1>3 DEF n, m
<1>5. Len(m) = n
  BY <1>1, <1>2, <1>4 DEF n, m
<1>6. QED
  BY <1>1, <1>2, <1>4, <1>5 DEF n, m

LEMMA PieceKind ==
  ASSUME NEW p \in String
  PROVE  IsNum(PieceOf(p)) <=> p # <<>> /\ p[1] \in Digit
BY DEF PieceOf, IsNum, EmptyPiece, Word

(* A string is its first part, or that and the string behind a dot.        *)
HeadOf(s)     == Before(s, {Dot, Dash})
More(s, q)    == Section(q) /\ s = HeadOf(s) \o (<<Dot>> \o q) /\ Parts(s) = <<HeadOf(s)>> \o Parts(q)

LEMMA SectionHead ==
  ASSUME NEW s, Section(s)
  PROVE  /\ HeadOf(s) \in String /\ Proper(HeadOf(s))
         /\ HeadOf(s) = Parts(s)[1]
         /\ \/ s = HeadOf(s) /\ Len(Parts(s)) = 1
            \/ \E q : More(s, q)
<1> DEFINE C == {Dot, Dash}
           h == HeadOf(s)
<1>1. s \in String /\ Dash \notin Chars(s) /\ \A i \in DOMAIN Parts(s) : Proper(Parts(s)[i])
  BY DEF Section
<1>2. /\ Found(s, C) => Parts(s) = <<h>> \o Cut(After(s, C), C)
      /\ ~Found(s, C) => Parts(s) = <<h>>
  BY <1>1, CutHead DEF Parts, HeadOf
<1>3. h \in String
  BY <1>1, CutsType DEF HeadOf
<1> HIDE DEF h
<1>4. CASE ~Found(s, C)
  <2>1. Parts(s) = <<h>> /\ s = h
    BY <1>1, <1>2, <1>4, NotFound DEF h, HeadOf
  <2>2. 1 \in DOMAIN Parts(s) /\ Parts(s)[1] = h /\ Len(Parts(s)) = 1
    BY <2>1
  <2>3. QED
    BY <1>1, <1>3, <2>1, <2>2 DEF h
<1>5. CASE Found(s, C)
  <2> DEFINE q == After(s, C)
             r == Cut(q, C)
             c == s[Find(s, C)]
  <2>1. Find(s, C) \in DOMAIN s /\ c \in C /\ s = h \o (<<c>> \o q)
    BY <1>1, <1>5, FoundParts DEF h, HeadOf
  <2>2. c = Dot
    BY <1>1, <2>1 DEF Chars
  <2>3. q \in String /\ Chars(q) \subseteq Chars(s)
    BY <1>1, PartChars
  <2>4. Parts(s) = <<h>> \o r
    BY <1>2, <1>5
  <2>5. r \in Seq(String) /\ <<h>> \in Seq(String)
    BY <1>3, <2>3, CutType
  <2>6. DOMAIN r = 1..Len(r) /\ Len(r) \in Nat
    BY <2>5
  <2> HIDE DEF q, r, c
  <2>7. /\ DOMAIN (<<h>> \o r) = 1..(Len(r) + 1) /\ (<<h>> \o r)[1] = h
        /\ \A i \in 1..Len(r) : (<<h>> \o r)[i + 1] = r[i]
    <3> DEFINE v == <<h>>
    <3>1. Len(v) = 1 /\ v[1] = h /\ v \in Seq(String)
      BY <2>5
    <3> HIDE DEF v
    <3>2. QED
      BY <2>5, <3>1 DEF v
  <2>8. Proper(h) /\ Parts(s)[1] = h
    BY <1>1, <2>4, <2>6, <2>7
  <2>9. \A i \in 1..Len(r) : Proper(r[i])
    <3>1. ASSUME NEW i \in 1..Len(r)
          PROVE  Proper(r[i])
      <4>1. i + 1 \in DOMAIN Parts(s) /\ Parts(s)[i + 1] = r[i]
        BY <2>4, <2>6, <2>7
      <4>2. QED
        BY <1>1, <4>1
    <3>2. QED
      BY <3>1
  <2>10. Section(q)
    <3>1. Parts(q) = r
      BY DEF Parts, r
    <3>2. QED
      BY <1>1, <2>3, <2>6, <2>9, <3>1 DEF Section
  <2>11. More(s, q)
    BY <2>1, <2>2, <2>4, <2>10 DEF More, h, r, Parts
  <2>12. QED
    BY <1>3, <2>8, <2>11 DEF h
<1>6. QED
  BY <1>4, <1>5

(* The digits that a part begins with are all of it.                       *)
LEMMA HeadDigits ==
  ASSUME NEW p \in String, Proper(p)
  PROVE  /\ Leading(p) # <<>> => Leading(p) = p
         /\ Leading(p) = <<>> => Chars(p) \cap Digit = {}
         /\ Leading(p) # <<>> <=> IsNum(PieceOf(p))
<1>1. OnlyDigits(p) => Leading(p) = p
  BY LeadingDigits
<1>2. CASE OnlyDigits(p)
  <2>1. Leading(p) # <<>> <=> IsNum(PieceOf(p))
    <3>1. p = <<>> => Leading(p) = <<>>
      BY <1>1, <1>2
    <3>2. QED
      BY <3>1, LeadingType, PieceKind
  <2>2. p = <<>> => Chars(p) = {}
    BY DEF Chars
  <2>3. QED
    BY <1>1, <1>2, <2>1, <2>2
<1>3. CASE ~OnlyDigits(p)
  <2>1. Len(p) = 1 /\ DOMAIN p = {1}
    <3>1. Len(p) = 1
      BY <1>3 DEF Proper
    <3>2. QED
      BY <3>1, Characters
  <2>2. Chars(p) = {p[1]}
    BY <2>1 DEF Chars
  <2>3. p[1] \notin Digit
    BY <1>3, <2>2 DEF OnlyDigits
  <2>4. p # <<>>
    BY <2>1
  <2>5. Leading(p) = <<>>
    BY <2>3, <2>4, LeadingType
  <2>6. ~IsNum(PieceOf(p))
    BY <2>3, PieceKind
  <2>7. Chars(p) \cap Digit = {}
    BY <2>2, <2>3
  <2>8. QED
    BY <2>5, <2>6, <2>7
<1>4. QED
  BY <1>2, <1>3

LEMMA HeadLeads ==
  ASSUME NEW s \in String
  PROVE  Leading(s) = Leading(HeadOf(s))
<1>1. HeadOf(s) \in String
  BY CutsType DEF HeadOf
<1>2. {Dot, Dash} \subseteq Char \ Digit
  BY CharacterFacts
<1>3. Before(HeadOf(s), Char \ Digit) = Before(s, Char \ Digit)
  BY <1>2, BeforeTwice DEF HeadOf
<1>4. QED
  BY <1>1, <1>3, LeadingIs

(* One step of the expression, on characters and on pieces.                *)
StopsHere(s) == Skip(s, Len(Leading(s))) = <<>> /\ Len(PartsOf(s)) = 1
GoesOn(s, q) ==
  /\ Section(q)
  /\ Skip(s, Len(Leading(s))) = <<Dot>> \o q
  /\ PartsOf(s) = <<PieceOf(Leading(s))>> \o PartsOf(q)

LEMMA SectionStep ==
  ASSUME NEW s, Section(s)
  PROVE  /\ PartsOf(s) \in Seq(Piece) /\ PartsOf(s) # <<>>
         /\ IsNum(PartsOf(s)[1]) <=> Leading(s) # <<>>
         /\ Leading(s) # <<>> => /\ PartsOf(s)[1] = PieceOf(Leading(s))
                                 /\ StopsHere(s) \/ \E q : GoesOn(s, q)
<1> DEFINE h == HeadOf(s)
<1>1. s \in String
  BY DEF Section
<1>2. /\ h \in String /\ Proper(h) /\ h = Parts(s)[1]
      /\ (s = h /\ Len(Parts(s)) = 1) \/ \E q : More(s, q)
  BY SectionHead
<1>3. /\ PartsOf(s) \in Seq(Piece) /\ Len(PartsOf(s)) = Len(Parts(s)) /\ Len(Parts(s)) \in Nat \ {0}
      /\ \A i \in 1..Len(Parts(s)) : PartsOf(s)[i] = PieceOf(Parts(s)[i])
  BY <1>1, PartsType
<1>4. PartsOf(s)[1] = PieceOf(h) /\ PartsOf(s) # <<>>
  BY <1>2, <1>3
<1> HIDE DEF h
<1>5. Leading(s) = Leading(h)
  BY <1>1, HeadLeads DEF h
<1>6. IsNum(PartsOf(s)[1]) <=> Leading(s) # <<>>
  BY <1>2, <1>4, <1>5, HeadDigits
<1>7. ASSUME Leading(s) # <<>>
      PROVE  /\ PartsOf(s)[1] = PieceOf(Leading(s))
             /\ StopsHere(s) \/ \E q : GoesOn(s, q)
  <2>1. Leading(s) = h
    BY <1>2, <1>5, <1>7, HeadDigits
  <2>2. CASE s = h /\ Len(Parts(s)) = 1
    <3>1. Skip(s, Len(s)) = <<>>
      BY <1>1 DEF Skip, String
    <3>2. StopsHere(s)
      BY <1>3, <2>1, <2>2, <3>1 DEF StopsHere
    <3>3. QED
      BY <1>4, <2>1, <3>2
  <2>3. ASSUME NEW q, More(s, q)
        PROVE  GoesOn(s, q)
    <3>1. Section(q) /\ q \in String /\ s = h \o (<<Dot>> \o q) /\ Parts(s) = <<h>> \o Parts(q)
      BY <2>3 DEF More, Section, h
    <3>2. <<Dot>> \o q \in String
      BY <3>1, SignTypes, ConcatType
    <3>3. Skip(s, Len(h)) = <<Dot>> \o q
      BY <1>2, <3>1, <3>2, SkipAll
    <3>4. PartsOf(s) = <<PieceOf(h)>> \o PartsOf(q)
      <4>1. Parts(q) \in Seq(String) /\ <<h>> \in Seq(String)
        BY <1>2, <3>1, CutType DEF Parts
      <4>2. MapPieces(<<h>>) = <<PieceOf(h)>> /\ PieceOf(h) \in Piece
        <5>1. PieceOf(h) \in Piece
          BY <1>3, <1>4
        <5> DEFINE w == <<h>>
        <5>2. DOMAIN w = {1} /\ w[1] = h
          OBVIOUS
        <5> HIDE DEF w
        <5>3. MapPieces(w) = [i \in {1} |-> PieceOf(h)]
          BY <5>2 DEF MapPieces
        <5>4. <<PieceOf(h)>> = [i \in {1} |-> PieceOf(h)]
          OBVIOUS
        <5>5. QED
          BY <5>1, <5>3, <5>4 DEF w
      <4>3. MapPieces(Parts(q)) \in Seq(Piece)
        BY <3>1, PiecesOfMap DEF Parts
      <4>4. MapPieces(<<h>>) \in Seq(Piece)
        <5>1. \A w \in Piece : <<w>> \in Seq(Piece)
          OBVIOUS
        <5>2. QED
          BY <4>2, <5>1
      <4>5. MapPieces(<<h>> \o Parts(q)) = MapPieces(<<h>>) \o MapPieces(Parts(q))
        BY <4>1, <4>3, <4>4, MapJoined
      <4>6. QED
        BY <3>1, <4>2, <4>5 DEF PartsOf
    <3>5. QED
      BY <2>1, <3>1, <3>3, <3>4 DEF GoesOn
  <2>4. QED
    BY <1>2, <1>4, <2>1, <2>2, <2>3
<1>8. QED
  BY <1>3, <1>4, <1>6, <1>7

Numerals(g) ==
  [i \in 1..(IF g[2] = <<>> THEN 1 ELSE IF g[3] = <<>> THEN 2 ELSE 3) |-> PieceOf(g[i])]

LEMMA OneMore ==
  ASSUME NEW w \in Piece, NEW m \in Seq(Piece)
  PROVE  /\ <<w>> \o m \in Seq(Piece) /\ Len(<<w>> \o m) = Len(m) + 1
         /\ (<<w>> \o m)[1] = w
         /\ \A i \in 1..Len(m) : (<<w>> \o m)[i + 1] = m[i]
<1> DEFINE v == <<w>>
<1>1. v \in Seq(Piece) /\ Len(v) = 1 /\ v[1] = w
  OBVIOUS
<1> HIDE DEF v
<1> DEFINE z == v \o m
<1>2. /\ z \in Seq(Piece) /\ Len(z) = Len(v) + Len(m) /\ Len(m) \in Nat
      /\ \A i \in 1..(Len(v) + Len(m)) : z[i] = IF i <= Len(v) THEN v[i] ELSE m[i - Len(v)]
  <2>1. v \in Seq(Piece) /\ Len(m) \in Nat
    BY <1>1
  <2>2. /\ v \o m \in Seq(Piece) /\ Len(v \o m) = Len(v) + Len(m)
        /\ \A i \in 1..(Len(v) + Len(m)) : (v \o m)[i] = IF i <= Len(v) THEN v[i] ELSE m[i - Len(v)]
    BY <2>1, Joined
  <2>3. QED
    BY <2>1, <2>2 DEF z
<1> HIDE DEF z
<1>3. z \in Seq(Piece) /\ Len(z) = Len(m) + 1 /\ z[1] = w
  BY <1>1, <1>2
<1>4. ASSUME NEW i \in 1..Len(m)
      PROVE  z[i + 1] = m[i]
  <2>1. i + 1 \in 1..(1 + Len(m)) /\ ~(i + 1 <= 1) /\ (i + 1) - 1 = i
    BY <1>2
  <2>2. QED
    BY <1>1, <1>2, <2>1
<1>5. QED
  BY <1>3, <1>4 DEF v, z

LEMMA DigitsPiece ==
  ASSUME NEW s \in String, Leading(s) # <<>>
  PROVE  PieceOf(Leading(s)) \in Piece /\ IsNum(PieceOf(Leading(s)))
<1> DEFINE a == Leading(s)
<1>1. a \in String /\ OnlyDigits(a) /\ a # <<>>
  BY LeadingDigits
<1> HIDE DEF a
<1>2. a[1] \in Digit
  BY <1>1 DEF OnlyDigits, Chars, String
<1>3. PieceOf(a) \in Piece
  BY <1>1, <1>2, PieceOfType, CharacterFacts
<1>4. QED
  BY <1>1, <1>2, <1>3, PieceKind DEF a

(* What a group takes behind a part is the part that follows, if that is a *)
(* numeral.                                                                *)
LEMMA NextGroup ==
  ASSUME NEW s \in String, NEW q, GoesOn(s, q)
  PROVE  LET x == Skip(s, Len(Leading(s)))
         IN /\ GroupOf(x) = Leading(q)
            /\ Behind(x) = Skip(q, Len(Leading(q)))
<1> DEFINE x == Skip(s, Len(Leading(s)))
<1>1. q \in String /\ x = <<Dot>> \o q
  BY DEF GoesOn, Section
<1> HIDE DEF x
<1>2. <<Dot>> \in String /\ Len(<<Dot>>) = 1
  BY SignTypes
<1>3. Skip(x, 1) = q
  BY <1>1, <1>2, SkipAll
<1>4. x # <<>> /\ x[1] = Dot
  BY <1>1, <1>2 DEF String
<1>5. GroupOf(x) = Leading(q)
  BY <1>3, <1>4 DEF GroupOf
<1>6. Behind(x) = Skip(q, Len(Leading(q)))
  BY <1>3, <1>5 DEF Behind
<1>7. QED
  BY <1>5, <1>6 DEF x

(* From a digit on, the groups are the numerals that the expression on     *)
(* pieces matches.                                                         *)
LEMMA MatchFromDigit ==
  ASSUME NEW s, Section(s), Leading(s) # <<>>
  PROVE  MatchIn(PartsOf(s)) = Numerals(GroupsFrom(s))
<1> DEFINE m == PartsOf(s)
           a == Leading(s)
           x == Skip(s, Len(a))
           b == GroupOf(x)
           c == IF b = <<>> THEN <<>> ELSE GroupOf(Behind(x))
           n == IF b = <<>> THEN 1 ELSE IF c = <<>> THEN 2 ELSE 3
           g == <<a, b, c>>
<1>1. GroupsFrom(s) = g
  BY DEF GroupsFrom
<1>2. s \in String
  BY DEF Section
<1>3. m \in Seq(Piece) /\ m # <<>> /\ IsNum(m[1]) /\ m[1] = PieceOf(a) /\ Len(m) \in Nat \ {0}
  BY SectionStep
<1>4. StopsHere(s) \/ \E q : GoesOn(s, q)
  BY SectionStep
<1>5. GroupOf(<<>>) = <<>>
  BY DEF GroupOf
<1>6. MatchIn(m) = SubSeq(m, 1, IF ~(2 <= Len(m) /\ IsNum(m[2])) THEN 1
                                ELSE IF ~(3 <= Len(m) /\ IsNum(m[3])) THEN 2 ELSE 3)
  BY <1>3, MatchAtOnce
<1>7. ASSUME NEW k \in 1..3, k <= Len(m), n = k,
             MatchIn(m) = SubSeq(m, 1, k), \A i \in 1..k : m[i] = PieceOf(g[i])
      PROVE  MatchIn(m) = Numerals(g)
  <2> HIDE DEF m
  <2>1. g[2] = b /\ g[3] = c
    OBVIOUS
  <2>2. Numerals(g) = [i \in 1..k |-> PieceOf(g[i])]
    BY <1>7, <2>1 DEF Numerals
  <2> HIDE DEF g
  <2>3. SubSeq(m, 1, k) = [i \in 1..k |-> m[i]]
    BY <1>3, <1>7
  <2>4. QED
    BY <1>7, <2>2, <2>3
<1>8. CASE StopsHere(s)
  <2>1. x = <<>> /\ Len(m) = 1
    BY <1>8 DEF StopsHere
  <2>2. b = <<>> /\ n = 1
    BY <1>5, <2>1
  <2> HIDE DEF m, a, x, b, c, n
  <2>3. MatchIn(m) = SubSeq(m, 1, 1)
    BY <1>6, <2>1
  <2>4. \A i \in 1..1 : m[i] = PieceOf(g[i])
    BY <1>3
  <2> HIDE DEF g
  <2>5. QED
    BY <1>1, <1>7, <2>1, <2>2, <2>3, <2>4 DEF m
<1>9. ASSUME NEW q, GoesOn(s, q)
      PROVE  MatchIn(m) = Numerals(g)
  <2> DEFINE r == PartsOf(q)
             y == Skip(q, Len(Leading(q)))
  <2>1. Section(q) /\ q \in String /\ m = <<PieceOf(a)>> \o r
    BY <1>9 DEF GoesOn, Section
  <2>2. b = Leading(q) /\ Behind(x) = y
    BY <1>2, <1>9, NextGroup
  <2>3. PieceOf(a) \in Piece
    BY <1>2, DigitsPiece
  <2>4. r \in Seq(Piece) /\ r # <<>> /\ (IsNum(r[1]) <=> b # <<>>) /\ Len(r) \in Nat \ {0}
    BY <2>1, <2>2, SectionStep
  <2>5. /\ Len(m) = Len(r) + 1 /\ m[2] = r[1]
        /\ \A i \in 1..Len(r) : m[i + 1] = r[i]
    <3> HIDE DEF r, m
    <3>1. Len(m) = Len(r) + 1 /\ \A i \in 1..Len(r) : m[i + 1] = r[i]
      BY <2>1, <2>3, <2>4, OneMore
    <3>2. m[1 + 1] = r[1]
      BY <2>4, <3>1
    <3>3. QED
      BY <3>1, <3>2
  <2>6. CASE b = <<>>
    <3>1. n = 1
      BY <2>6
    <3> HIDE DEF m, a, x, b, c, n, r
    <3>2. MatchIn(m) = SubSeq(m, 1, 1) /\ 1 <= Len(m)
      BY <1>3, <1>6, <2>4, <2>5, <2>6
    <3>3. \A i \in 1..1 : m[i] = PieceOf(g[i])
      BY <1>3
    <3> HIDE DEF g
    <3>4. QED
      BY <1>7, <3>1, <3>2, <3>3
  <2>7. CASE b # <<>>
    <3>1. c = GroupOf(y)
      BY <2>2, <2>7
    <3>2. r[1] = PieceOf(b) /\ (StopsHere(q) \/ \E p : GoesOn(q, p))
      BY <2>1, <2>2, <2>7, SectionStep
    <3>3. 2 <= Len(m) /\ IsNum(m[2]) /\ m[2] = PieceOf(b)
      BY <2>4, <2>5, <2>7, <3>2
    <3>4. CASE c = <<>> /\ ~(3 <= Len(m) /\ IsNum(m[3]))
      <4>1. n = 2
        BY <2>7, <3>4
      <4> HIDE DEF m, a, x, b, c, n, r
      <4>2. MatchIn(m) = SubSeq(m, 1, 2)
        BY <1>6, <3>3, <3>4
      <4>3. \A i \in 1..2 : m[i] = PieceOf(g[i])
        <5>1. \A i \in 1..2 : i = 1 \/ i = 2
          OBVIOUS
        <5>2. g[1] = a /\ g[2] = b
          OBVIOUS
        <5> HIDE DEF g
        <5>3. QED
          BY <1>3, <3>3, <5>1, <5>2
      <4> HIDE DEF g
      <4>4. QED
        BY <1>7, <3>3, <4>1, <4>2, <4>3
    <3>5. CASE StopsHere(q)
      <4>1. y = <<>> /\ Len(r) = 1
        BY <3>5 DEF StopsHere
      <4>2. c = <<>> /\ Len(m) = 2
        BY <1>5, <2>5, <3>1, <4>1
      <4>3. QED
        BY <3>4, <4>2
    <3>6. ASSUME NEW p, GoesOn(q, p)
          PROVE  MatchIn(m) = Numerals(g)
      <4> DEFINE t == PartsOf(p)
      <4>1. Section(p) /\ p \in String /\ r = <<PieceOf(b)>> \o t
        BY <2>2, <3>6 DEF GoesOn, Section
      <4>2. c = Leading(p)
        BY <2>1, <3>1, <3>6, NextGroup
      <4>3. PieceOf(b) \in Piece
        BY <2>1, <2>2, <2>7, DigitsPiece
      <4>4. t \in Seq(Piece) /\ t # <<>> /\ (IsNum(t[1]) <=> c # <<>>) /\ Len(t) \in Nat \ {0}
        BY <4>1, <4>2, SectionStep
      <4>5. c # <<>> => t[1] = PieceOf(c)
        BY <4>1, <4>2, SectionStep
      <4>6. Len(r) = Len(t) + 1 /\ r[2] = t[1]
        <5> HIDE DEF r, t
        <5>1. Len(r) = Len(t) + 1 /\ \A i \in 1..Len(t) : r[i + 1] = t[i]
          BY <4>1, <4>3, <4>4, OneMore
        <5>2. r[1 + 1] = t[1]
          BY <4>4, <5>1
        <5>3. QED
          BY <5>1, <5>2
      <4>7. 3 <= Len(m) /\ m[3] = t[1]
        <5>1. 2 \in 1..Len(r) /\ m[2 + 1] = r[2]
          BY <2>4, <2>5, <4>4, <4>6
        <5> HIDE DEF r, t, m
        <5>2. QED
          BY <2>5, <4>4, <4>6, <5>1
      <4>8. CASE c = <<>>
        BY <3>4, <4>4, <4>7, <4>8
      <4>9. CASE c # <<>>
        <5>1. n = 3
          BY <2>7, <4>9
        <5>2. IsNum(m[3]) /\ m[3] = PieceOf(c)
          BY <4>4, <4>5, <4>7, <4>9
        <5> HIDE DEF m, a, x, b, c, n, r, t
        <5>3. MatchIn(m) = SubSeq(m, 1, 3)
          BY <1>6, <3>3, <4>7, <5>2
        <5>4. \A i \in 1..3 : m[i] = PieceOf(g[i])
          <6>1. \A i \in 1..3 : i = 1 \/ i = 2 \/ i = 3
            OBVIOUS
          <6>2. g[1] = a /\ g[2] = b /\ g[3] = c
            OBVIOUS
          <6> HIDE DEF g
          <6>3. QED
            BY <1>3, <3>3, <5>2, <6>1, <6>2
        <5> HIDE DEF g
        <5>5. QED
          BY <1>7, <4>7, <5>1, <5>3, <5>4
      <4>10. QED
        BY <4>8, <4>9
    <3>7. QED
      BY <3>2, <3>5, <3>6
  <2>8. QED
    BY <2>6, <2>7
<1>10. QED
  BY <1>1, <1>4, <1>8, <1>9

LEMMA SectionNumeral ==
  ASSUME NEW s, Section(s)
  PROVE  CanCoerce(s) <=> \E i \in DOMAIN PartsOf(s) : IsNum(PartsOf(s)[i])
<1>1. s \in String /\ \A i \in DOMAIN Parts(s) : Proper(Parts(s)[i])
  BY DEF Section
<1>2. /\ Len(PartsOf(s)) = Len(Parts(s)) /\ Len(Parts(s)) \in Nat \ {0} /\ PartsOf(s) \in Seq(Piece)
      /\ \A i \in 1..Len(Parts(s)) : PartsOf(s)[i] = PieceOf(Parts(s)[i])
  BY <1>1, PartsType
<1> DEFINE D == 1..Len(Parts(s))
<1>3. DOMAIN PartsOf(s) = D
  BY <1>2
<1>4. /\ DOMAIN Parts(s) = D
      /\ \A k \in D : Parts(s)[k] \in String /\ Chars(Parts(s)[k]) \subseteq Chars(s)
      /\ \A c \in Chars(s) \ {Dot, Dash} : \E k \in D : c \in Chars(Parts(s)[k])
  <2>1. DOMAIN Parts(s) = D
    BY <1>1, CutIs DEF Parts
  <2> HIDE DEF D
  <2>2. \A k \in D : Parts(s)[k] \in String /\ Chars(Parts(s)[k]) \subseteq Chars(s)
    BY <1>1, <2>1, CutIs DEF Parts
  <2>3. \A c \in Chars(s) \ {Dot, Dash} : \E k \in D : c \in Chars(Parts(s)[k])
    BY <1>1, <2>1, CutIs DEF Parts
  <2>4. QED
    BY <2>1, <2>2, <2>3
<1> HIDE DEF D
<1>5. ASSUME NEW i \in D, IsNum(PartsOf(s)[i])
      PROVE  Chars(s) \cap Digit # {}
  <2> DEFINE p == Parts(s)[i]
  <2>1. p \in String /\ Chars(p) \subseteq Chars(s) /\ PartsOf(s)[i] = PieceOf(p)
    BY <1>2, <1>4 DEF D
  <2> HIDE DEF p
  <2>2. p # <<>> /\ p[1] \in Digit
    BY <1>5, <2>1, PieceKind
  <2>3. p[1] \in Chars(p)
    BY <2>1, <2>2 DEF Chars, String
  <2>4. QED
    BY <2>1, <2>2, <2>3
<1>6. ASSUME NEW c \in Chars(s) \cap Digit
      PROVE  \E i \in D : IsNum(PartsOf(s)[i])
  <2>1. c \notin {Dot, Dash}
    BY CharacterFacts
  <2>2. PICK k \in D : c \in Chars(Parts(s)[k])
    BY <1>4, <2>1
  <2> DEFINE p == Parts(s)[k]
  <2>3. p \in String /\ Proper(p) /\ PartsOf(s)[k] = PieceOf(p)
    BY <1>1, <1>2, <1>4 DEF D
  <2>4. Chars(p) \cap Digit # {}
    BY <2>2
  <2> HIDE DEF p
  <2>5. IsNum(PieceOf(p))
    BY <2>3, <2>4, HeadDigits
  <2>6. QED
    BY <2>3, <2>5
<1>7. QED
  BY <1>1, <1>3, <1>5, <1>6, DigitFound

(* In a part without numerals before them the groups are the same, so that *)
(* of a section coerce matches what the expression on its pieces does.     *)
LEMMA SectionMatch ==
  ASSUME NEW s, Section(s), CanCoerce(s)
  PROVE  MatchIn(PartsOf(s)) = Numerals(Groups(s))
<1> DEFINE Fine(t) == Section(t) /\ CanCoerce(t) => MatchIn(PartsOf(t)) = Numerals(Groups(t))
           S == {n \in Nat : \A t \in String : Len(t) <= n => Fine(t)}
<1>1. ASSUME NEW n \in Nat, \A t \in String : Len(t) < n => Fine(t),
             NEW t \in String, Len(t) <= n, Section(t), CanCoerce(t)
      PROVE  MatchIn(PartsOf(t)) = Numerals(Groups(t))
  <2>1. CASE Leading(t) # <<>>
    <3>1. Groups(t) = GroupsFrom(t)
      <4>1. t # <<>> /\ t[1] \in Digit
        <5>1. t # <<>>
          BY <2>1, EmptyValue, LeadingDigits
        <5>2. QED
          BY <2>1, <5>1, LeadingType
      <4>2. 1 \in 1..Len(t) /\ \A i \in 1..(1 - 1) : t[i] \notin Digit
        BY <4>1 DEF String
      <4>3. Find(t, Digit) = 1
        BY <4>1, <4>2, FindIs
      <4>4. Skip(t, Find(t, Digit) - 1) = t
        BY <4>3, SkipNone
      <4>5. QED
        BY <1>1, <4>4, GroupsAre
    <3>2. QED
      BY <1>1, <2>1, <3>1, MatchFromDigit
  <2>2. CASE Leading(t) = <<>>
    <3> DEFINE h == HeadOf(t)
    <3>1. /\ h \in String /\ Proper(h)
          /\ (t = h /\ Len(Parts(t)) = 1) \/ \E q : More(t, q)
      BY <1>1, SectionHead
    <3>2. Leading(h) = <<>>
      BY <2>2, HeadLeads
    <3> HIDE DEF h
    <3>3. Chars(h) \cap Digit = {} /\ ~IsNum(PieceOf(h))
      BY <3>1, <3>2, HeadDigits
    <3>4. t # h
      BY <1>1, <3>1, <3>3, DigitFound
    <3>5. PICK q : More(t, q)
      BY <3>1, <3>4
    <3>6. Section(q) /\ q \in String /\ t = h \o (<<Dot>> \o q) /\ Parts(t) = <<h>> \o Parts(q)
      BY <3>5 DEF More, Section, h
    <3>7. Dot \in Char /\ Dot \notin Digit
      BY CharacterFacts
    <3>8. Len(q) < Len(t)
      <4>1. Len(h \o (<<Dot>> \o q)) = Len(h) + 1 + Len(q)
        BY <3>1, <3>6, <3>7 DEF String
      <4>2. Len(h) \in Nat /\ Len(q) \in Nat
        BY <3>1, <3>6, Characters
      <4>3. QED
        BY <3>6, <4>1, <4>2
    <3>9. CanCoerce(q)
      <4>1. PICK c \in Digit : c \in Chars(t)
        BY <1>1, DigitFound
      <4>2. PICK i \in DOMAIN t : t[i] = c
        BY <4>1 DEF Chars
      <4>3. /\ Len(h) \in Nat /\ Len(q) \in Nat
            /\ Len(t) = Len(h) + 1 + Len(q) /\ DOMAIN t = 1..Len(t)
            /\ \A j \in 1..Len(h) : t[j] = h[j]
            /\ t[Len(h) + 1] = Dot
            /\ \A j \in 1..Len(q) : t[Len(h) + 1 + j] = q[j]
        BY <3>1, <3>6, <3>7, Characters DEF String
      <4>4. i \notin 1..Len(h)
        BY <3>1, <3>3, <4>2, <4>3, Characters DEF Chars
      <4>5. i # Len(h) + 1
        BY <3>7, <4>2, <4>3
      <4>6. i - (Len(h) + 1) \in 1..Len(q) /\ Len(h) + 1 + (i - (Len(h) + 1)) = i
        BY <4>3, <4>4, <4>5
      <4>7. q[i - (Len(h) + 1)] = c
        BY <4>2, <4>3, <4>6
      <4>8. c \in Chars(q)
        BY <3>6, <4>6, <4>7, Characters DEF Chars
      <4>9. QED
        BY <3>6, <4>8, DigitFound
    <3>10. MatchIn(PartsOf(q)) = Numerals(Groups(q))
      BY <1>1, <3>6, <3>8, <3>9
    <3>11. Groups(t) = Groups(q)
      <4> DEFINE b == h \o <<Dot>>
      <4>1. b \in String /\ Chars(b) \cap Digit = {}
        <5>1. <<Dot>> \in String
          BY SignTypes
        <5>2. Len(h) \in Nat /\ \A i \in 1..Len(h) : h[i] \notin Digit
          BY <3>1, <3>3, Characters DEF Chars
        <5>3. /\ b \in String /\ Len(b) = Len(h) + 1
              /\ \A i \in 1..(Len(h) + 1) : b[i] = IF i <= Len(h) THEN h[i] ELSE Dot
          BY <3>1, <5>1 DEF String
        <5> HIDE DEF b
        <5>4. \A i \in 1..(Len(h) + 1) : b[i] \notin Digit
          BY <3>7, <5>2, <5>3
        <5>5. QED
          BY <5>3, <5>4, Characters DEF Chars
      <4>2. <<>> \in String /\ q \o <<>> = q
        BY <3>6, EmptyConcat, SignTypes
      <4>3. b \o q = t
        <5>1. Associates(h, <<Dot>>, q)
          BY <3>1, <3>6, SignTypes, StringsAssociate
        <5>2. QED
          BY <3>6, <5>1 DEF Associates
      <4> HIDE DEF b
      <4>4. Amid(b, q, <<>>)
        BY <3>6, <3>9, <4>1, <4>2, GroupsAmid
      <4>5. QED
        BY <4>2, <4>3, <4>4 DEF Amid
    <3>12. PartsOf(t) = <<PieceOf(h)>> \o PartsOf(q) /\ PieceOf(h) \in Piece /\ PartsOf(q) \in Seq(Piece)
      <4>1. PieceOf(h) \in Piece
        <5>1. h # <<>> => h[1] \notin {Dot, Dash}
          <6>1. Chars(h) \subseteq Chars(t) \ {Dot, Dash}
            <7>1. h = Parts(t)[1]
              BY <1>1, SectionHead DEF h
            <7>2. 1 \in DOMAIN Parts(t)
              <8>1. Len(Parts(t)) \in Nat \ {0} /\ DOMAIN Parts(t) = 1..Len(Parts(t))
                BY <1>1, CutIs DEF Parts
              <8>2. QED
                BY <8>1
            <7>3. QED
              BY <1>1, <7>1, <7>2, CutIs DEF Parts
          <6>2. h # <<>> => h[1] \in Chars(h)
            BY <3>1 DEF Chars, String
          <6>3. QED
            BY <6>1, <6>2
        <5>2. QED
          BY <3>1, <5>1, PieceOfType
      <4>2. Parts(q) \in Seq(String) /\ <<h>> \in Seq(String)
        BY <3>1, <3>6, CutType DEF Parts
      <4>3. MapPieces(<<h>>) = <<PieceOf(h)>>
        <5> DEFINE w == <<h>>
        <5>1. DOMAIN w = {1} /\ w[1] = h
          OBVIOUS
        <5> HIDE DEF w
        <5>2. MapPieces(w) = [i \in {1} |-> PieceOf(h)]
          BY <5>1 DEF MapPieces
        <5>3. <<PieceOf(h)>> = [i \in {1} |-> PieceOf(h)]
          OBVIOUS
        <5>4. QED
          BY <5>2, <5>3 DEF w
      <4>4. MapPieces(<<h>>) \in Seq(Piece)
        <5>1. \A w \in Piece : <<w>> \in Seq(Piece)
          OBVIOUS
        <5>2. QED
          BY <4>1, <4>3, <5>1
      <4>5. MapPieces(Parts(q)) \in Seq(Piece)
        BY <3>6, PiecesOfMap DEF Parts
      <4>6. MapPieces(<<h>> \o Parts(q)) = MapPieces(<<h>>) \o MapPieces(Parts(q))
        BY <4>2, <4>4, <4>5, MapJoined
      <4>7. QED
        BY <3>6, <4>1, <4>3, <4>5, <4>6 DEF PartsOf
    <3>13. \E i \in DOMAIN PartsOf(q) : IsNum(PartsOf(q)[i])
      BY <3>6, <3>9, SectionNumeral
    <3>14. MatchIn(PartsOf(t)) = MatchIn(PartsOf(q))
      BY <3>3, <3>12, <3>13, MatchLater
    <3>15. QED
      BY <3>10, <3>11, <3>14
  <2>3. QED
    BY <2>1, <2>2
<1> HIDE DEF Fine
<1>2. 0 \in S
  <2>1. \A t \in String : Len(t) \in Nat
    BY Characters
  <2>2. \A t \in String : Len(t) <= 0 => Fine(t)
    <3>1. \A t \in String : ~(Len(t) < 0)
      BY <2>1
    <3>2. \A t \in String : Len(t) < 0 => Fine(t)
      BY <3>1
    <3>3. QED
      BY <1>1, <3>2 DEF Fine
  <2>3. QED
    BY <2>2
<1>3. \A n \in Nat : n \in S => n + 1 \in S
  <2>1. TAKE n \in Nat
  <2>2. HAVE n \in S
  <2>3. \A t \in String : Len(t) < n + 1 => Fine(t)
    <3>1. \A t \in String : Len(t) \in Nat
      BY Characters
    <3>2. \A t \in String : Len(t) < n + 1 => Len(t) <= n
      BY <3>1
    <3>3. QED
      BY <2>2, <3>2
  <2>4. n + 1 \in Nat
    OBVIOUS
  <2>5. \A t \in String : Len(t) <= n + 1 => Fine(t)
    BY <1>1, <2>3, <2>4 DEF Fine
  <2>6. QED
    BY <2>4, <2>5
<1> HIDE DEF S
<1>4. Nat \subseteq S
  BY <1>2, <1>3, Induction
<1>5. s \in String /\ Len(s) \in Nat /\ Len(s) <= Len(s)
  BY Characters DEF Section
<1>6. Fine(s)
  BY <1>4, <1>5 DEF S
<1>7. QED
  BY <1>6 DEF Fine

(* The two sections of a string that has a text.                           *)
LEMMA Sections ==
  ASSUME NEW s \in String, HasText(s)
  PROVE  LET h == Before(s, {Dash})
             q == After(s, {Dash})
         IN /\ Section(h)
            /\ Found(s, {Dash}) => Section(q) /\ s = h \o (<<Dash>> \o q)
            /\ ~Found(s, {Dash}) => s = h
<1> DEFINE h == Before(s, {Dash})
           q == After(s, {Dash})
           D == {Dot, Dash}
<1>1. h \in String /\ q \in String
  BY CutsType
<1>2. \A i \in DOMAIN Parts(s) : Proper(Parts(s)[i])
  BY DEF HasText, Parts, Proper
<1>3. CASE ~Found(s, {Dash})
  <2>1. s = h /\ Dash \notin Chars(s)
    BY <1>3, NotFound
  <2> HIDE DEF h
  <2>2. Section(h)
    BY <1>2, <2>1 DEF Section
  <2>3. QED
    BY <1>3, <2>1, <2>2 DEF h
<1>4. CASE Found(s, {Dash})
  <2>1. /\ s[Find(s, {Dash})] \in {Dash} /\ Chars(h) \cap {Dash} = {}
        /\ s = h \o (<<s[Find(s, {Dash})]>> \o q)
    BY <1>4, FoundParts
  <2>2. s = h \o (<<Dash>> \o q)
    <3>1. s[Find(s, {Dash})] = Dash
      BY <2>1
    <3>2. QED
      BY <2>1, <3>1
  <2>3. Dash \notin Chars(q)
    <3>1. ~Found(q, {Dash})
      BY DEF HasText
    <3>2. QED
      BY <1>1, <3>1, NotFound
  <2>4. Dash \notin Chars(h)
    BY <2>1
  <2> HIDE DEF h, q
  <2>5. Cut(h \o (<<Dash>> \o q), D) = Cut(h, D) \o Cut(q, D)
    <3>1. Dash \in D /\ Dash \in Char
      BY CharacterFacts
    <3> HIDE DEF D
    <3>2. QED
      BY <1>1, <3>1, CutJoined
  <2> DEFINE a == Parts(h)
             b == Parts(q)
  <2>6. Parts(s) = a \o b /\ a \in Seq(String) /\ b \in Seq(String)
    BY <1>1, <2>2, <2>5, CutType DEF Parts
  <2> HIDE DEF a, b
  <2>7. /\ DOMAIN a = 1..Len(a) /\ DOMAIN b = 1..Len(b) /\ Len(a) \in Nat /\ Len(b) \in Nat
        /\ DOMAIN (a \o b) = 1..(Len(a) + Len(b))
        /\ \A i \in 1..Len(a) : (a \o b)[i] = a[i]
        /\ \A i \in 1..Len(b) : (a \o b)[Len(a) + i] = b[i]
    BY <2>6
  <2>8. \A i \in DOMAIN a : Proper(a[i])
    <3>1. ASSUME NEW i \in DOMAIN a
          PROVE  Proper(a[i])
      <4>1. i \in DOMAIN Parts(s) /\ Parts(s)[i] = a[i]
        BY <2>6, <2>7
      <4>2. QED
        BY <1>2, <4>1
    <3>2. QED
      BY <3>1
  <2>9. \A i \in DOMAIN b : Proper(b[i])
    <3>1. ASSUME NEW i \in DOMAIN b
          PROVE  Proper(b[i])
      <4>1. Len(a) + i \in DOMAIN Parts(s) /\ Parts(s)[Len(a) + i] = b[i]
        BY <2>6, <2>7
      <4>2. QED
        BY <1>2, <4>1
    <3>2. QED
      BY <3>1
  <2>10. Section(h) /\ Section(q)
    BY <1>1, <2>3, <2>4, <2>8, <2>9 DEF Section, a, b
  <2>11. QED
    BY <1>4, <2>2, <2>10 DEF h, q
<1>5. QED
  BY <1>3, <1>4

(* What coerce matches of a text is what its expression matches of the     *)
(* string.                                                                 *)
LEMMA TextMatch ==
  ASSUME NEW s \in String, HasText(s)
  PROVE  /\ CanCoerce(s) <=> Match(TextOf(s)) # <<>>
         /\ CanCoerce(s) => Match(TextOf(s)) = Numerals(Groups(s))
<1> DEFINE h == Before(s, {Dash})
           q == After(s, {Dash})
           t == TextOf(s)
           Has(m) == \E i \in DOMAIN m : IsNum(m[i])
<1>1. /\ Section(h) /\ h \in String /\ q \in String
      /\ Found(s, {Dash}) => Section(q) /\ s = h \o (<<Dash>> \o q)
      /\ ~Found(s, {Dash}) => s = h
  BY Sections, CutsType
<1>2. t.nums = PartsOf(h) /\ t.pre = IF Found(s, {Dash}) THEN PartsOf(q) ELSE <<>>
  BY <1>1, PiecesOfMap DEF TextOf, PartsOf, Parts
<1>3. Match(t) = IF Has(t.nums) THEN MatchIn(t.nums) ELSE IF Has(t.pre) THEN MatchIn(t.pre) ELSE <<>>
  BY DEF Match
<1> HIDE DEF h, q, t, Has
<1>4. ASSUME NEW r, Section(r), CanCoerce(r)
      PROVE  Has(PartsOf(r)) /\ MatchIn(PartsOf(r)) # <<>> /\ MatchIn(PartsOf(r)) = Numerals(Groups(r))
  <2>1. PartsOf(r) \in Seq(Piece) /\ Has(PartsOf(r))
    BY <1>4, PartsType, SectionNumeral DEF Section, Has
  <2> DEFINE m == PartsOf(r)
  <2> HIDE DEF m
  <2>2. Len(MatchIn(m)) \in 1..3
    BY <2>1, MatchInType DEF Has, m
  <2>3. MatchIn(m) # <<>>
    BY <2>2
  <2>4. QED
    BY <1>4, <2>1, <2>3, SectionMatch DEF m
<1>5. ASSUME NEW r, Section(r), ~CanCoerce(r)
      PROVE  ~Has(PartsOf(r))
  BY <1>5, SectionNumeral DEF Has
<1>6. <<>> \in String /\ <<Dash>> \in String /\ Chars(<<>>) = {}
  BY SignTypes DEF Chars
<1>7. Dash \notin Digit /\ Dash # Dot /\ Dash \in Char
  BY CharacterFacts DEF Dash, Dot
<1>8. CASE CanCoerce(h)
  <2>1. CanCoerce(s) /\ Groups(s) = Groups(h)
    <3>1. CASE ~Found(s, {Dash})
      BY <1>1, <1>8, <3>1
    <3>2. CASE Found(s, {Dash})
      <4> DEFINE u == <<Dash>> \o q
      <4>1. u \in String /\ u[1] = Dash
        BY <1>1, <1>7 DEF String
      <4>2. s = h \o u
        BY <1>1, <3>2
      <4> HIDE DEF u
      <4>3. h \o u \in String
        BY <1>1, <4>1, ConcatType
      <4>4. <<>> \o (h \o u) = h \o u
        BY <4>3, EmptyConcat
      <4>5. u[1] \notin Digit \cup {Dot}
        BY <1>7, <4>1
      <4>6. Amid(<<>>, h, u)
        BY <1>1, <1>6, <1>8, <4>1, <4>5, GroupsAmid
      <4>7. QED
        BY <4>2, <4>4, <4>6 DEF Amid
    <3>3. QED
      BY <3>1, <3>2
  <2>2. QED
    BY <1>1, <1>2, <1>3, <1>4, <1>8, <2>1 DEF t
<1>9. CASE ~CanCoerce(h) /\ ~Found(s, {Dash})
  <2>1. ~Has(t.nums) /\ ~Has(t.pre)
    <3>1. ~Has(<<>>)
      BY DEF Has
    <3>2. QED
      BY <1>1, <1>2, <1>5, <1>9, <3>1
  <2>2. QED
    BY <1>1, <1>3, <1>9, <2>1 DEF t
<1>10. CASE ~CanCoerce(h) /\ Found(s, {Dash})
  <2>1. ~Has(t.nums)
    BY <1>1, <1>2, <1>5, <1>10
  <2>2. Section(q) /\ s = h \o (<<Dash>> \o q) /\ t.pre = PartsOf(q)
    BY <1>1, <1>2, <1>10
  <2> DEFINE b == h \o <<Dash>>
  <2>3. b \in String /\ Chars(b) \cap Digit = {}
    <3>1. Len(h) \in Nat /\ \A i \in 1..Len(h) : h[i] \notin Digit
      BY <1>1, <1>10, DigitFound, Characters DEF Chars
    <3>2. /\ b \in String /\ Len(b) = Len(h) + 1
          /\ \A i \in 1..(Len(h) + 1) : b[i] = IF i <= Len(h) THEN h[i] ELSE Dash
      BY <1>1, <1>6 DEF String
    <3> HIDE DEF b
    <3>3. \A i \in 1..(Len(h) + 1) : b[i] \notin Digit
      BY <1>7, <3>1, <3>2
    <3>4. QED
      BY <3>2, <3>3, Characters DEF Chars
  <2>4. s = b \o q
    <3>1. Associates(h, <<Dash>>, q)
      BY <1>1, <1>6, StringsAssociate
    <3>2. QED
      BY <2>2, <3>1 DEF Associates
  <2> HIDE DEF b
  <2>5. CASE CanCoerce(q)
    <3>1. q \o <<>> = q
      BY <1>1, EmptyConcat
    <3>2. Amid(b, q, <<>>)
      BY <1>1, <1>6, <2>3, <2>5, GroupsAmid
    <3>3. CanCoerce(s) /\ Groups(s) = Groups(q)
      BY <2>4, <3>1, <3>2 DEF Amid
    <3>4. QED
      BY <1>3, <1>4, <2>1, <2>2, <2>5, <3>3 DEF t
  <2>6. CASE ~CanCoerce(q)
    <3>1. ~Has(t.pre)
      BY <1>5, <2>2, <2>6
    <3>2. ~CanCoerce(s)
      <4>1. Len(b) \in Nat /\ \A i \in 1..Len(b) : b[i] \notin Digit
        BY <2>3, Characters DEF Chars
      <4>2. Len(q) \in Nat /\ \A i \in 1..Len(q) : q[i] \notin Digit
        BY <1>1, <2>6, DigitFound, Characters DEF Chars
      <4>3. /\ Len(s) = Len(b) + Len(q)
            /\ \A i \in 1..(Len(b) + Len(q)) : s[i] = IF i <= Len(b) THEN b[i] ELSE q[i - Len(b)]
        BY <1>1, <2>3, <2>4, TwoStrings
      <4>4. \A i \in 1..Len(s) : s[i] \notin Digit
        BY <4>1, <4>2, <4>3
      <4>5. Chars(s) \cap Digit = {}
        BY <4>4, Characters DEF Chars
      <4>6. QED
        BY <4>5, DigitFound
    <3>3. QED
      BY <1>3, <2>1, <3>1, <3>2 DEF t
  <2>7. QED
    BY <2>5, <2>6
<1>11. QED
  BY <1>8, <1>9, <1>10
=============================================================================
