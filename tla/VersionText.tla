---------------------------- MODULE VersionText ----------------------------
(***************************************************************************)
(* Version texts and the helper functions that minimum() is built from:    *)
(* split, compareSemVer, coerce, incrementVersion, satisfies_constraint,   *)
(* computeCaretUpperBound and computeTildeUpperBound.                      *)
(*                                                                         *)
(* A text is cut into the pieces that lie between its separators.  The     *)
(* pieces before the first '-' are its "nums", those after it its "pre".   *)
(* A piece is what compareSemVer can tell of it: a numeral with its value  *)
(* and leading zeros, or a tag with its rank in the order of C++ string    *)
(* comparison.  Pieces that mix digits and letters are left out, and the   *)
(* pieces of "pre" are separated by dots.                                  *)
(***************************************************************************)
EXTENDS MachineInts, Sequences

CONSTANT LLMax   \* the largest long long, the bound of std::stoll

ASSUME LimitsAssumption == LLMax \in Nat /\ IntMax < LLMax

-----------------------------------------------------------------------------
(* Pieces.  A tag of negative rank sorts before every digit, one of        *)
(* positive rank after; the empty piece is the least string of all.        *)

EmptyRank == -4

Numeral == [kind : {"num"}, val : Nat, zeros : Nat]
Tag     == [kind : {"tag"}, val : {r \in Int : r >= EmptyRank /\ r # 0}, zeros : {0}]
Piece   == Numeral \cup Tag

Num(n)  == [kind |-> "num", val |-> n, zeros |-> 0]
Word(r) == [kind |-> "tag", val |-> r, zeros |-> 0]

IsNum(w) == w.kind = "num"

EmptyPiece == Word(EmptyRank)
Blank == Word(-3)      \* white space
Star  == Word(-2)      \* "*"
Alpha == Word(5)
Beta  == Word(6)
X     == Word(8)       \* the placeholder of "1.x"

(* std::stoi and std::stoll throw on a piece that is no numeral, or that   *)
(* does not fit their type.                                                *)
FitsInt(w)  == IsNum(w) /\ w.val <= IntMax
FitsLong(w) == IsNum(w) /\ w.val <= LLMax

(* a_parts[i] < b_parts[i] in one turn of the loop of compareSemVer: by    *)
(* value when both begin with a digit, else as strings.                    *)
PartLess(a, b) ==
  \/ IsNum(a) /\ IsNum(b) /\ a.val < b.val
  \/ IsNum(a) /\ ~IsNum(b) /\ 0 < b.val
  \/ ~IsNum(a) /\ IsNum(b) /\ a.val < 0
  \/ ~IsNum(a) /\ ~IsNum(b) /\ a.val < b.val

(* The loop goes on to the next part.                                      *)
SamePart(a, b) == a.kind = b.kind /\ a.val = b.val

-----------------------------------------------------------------------------
(* Texts.                                                                  *)

Text == [nums : Seq(Piece) \ {<<>>}, pre : Seq(Piece)]

EmptyText == [nums |-> <<EmptyPiece>>, pre |-> <<>>]
NoText    == [nums |-> <<>>, pre |-> <<>>]            \* std::nullopt

(* A text that ends in a separator yields no piece after it.               *)
DropTrailingEmpty(s) ==
  IF s # <<>> /\ s[Len(s)] = EmptyPiece THEN SubSeq(s, 1, Len(s) - 1) ELSE s

Split(t) == DropTrailingEmpty(t.nums \o t.pre)

(* std::to_string of three ints, joined by dots.  A negative int brings a  *)
(* '-' of its own, which every reader of the text takes for a separator.   *)
Dotted(m, n, p) ==
  IF m < 0 THEN [nums |-> <<EmptyPiece>>, pre |-> <<Num(-m), Num(n), Num(p)>>]
  ELSE IF n < 0 THEN [nums |-> <<Num(m), EmptyPiece>>, pre |-> <<Num(-n), Num(p)>>]
  ELSE IF p < 0 THEN [nums |-> <<Num(m), Num(n), EmptyPiece>>, pre |-> <<Num(-p)>>]
  ELSE [nums |-> <<Num(m), Num(n), Num(p)>>, pre |-> <<>>]

Zero == Dotted(0, 0, 0)

-----------------------------------------------------------------------------
(* compareSemVer: is a before b?                                           *)

(* The loop compares part i of p and of q.                                 *)
Reaches(p, q, i) ==
  /\ i \in 1..Len(p) /\ i \in 1..Len(q)
  /\ \A j \in 1..(i - 1) : SamePart(p[j], q[j])

PartsLess(p, q) ==
  \/ \E i \in 1..Len(p) : Reaches(p, q, i) /\ PartLess(p[i], q[i])
  \/ Len(p) < Len(q) /\ \A i \in 1..Len(p) : SamePart(p[i], q[i])

CompareSemVer(a, b) == PartsLess(Split(a), Split(b))

(* std::stoi throws on the first pair of numerals one of which is no int.  *)
CompareThrows(a, b) ==
  LET p == Split(a)
      q == Split(b)
  IN \E i \in 1..Len(p) : /\ Reaches(p, q, i)
                          /\ IsNum(p[i]) /\ IsNum(q[i])
                          /\ ~(FitsInt(p[i]) /\ FitsInt(q[i]))

SatisfiesConstraint(candidate, op, version) ==
  \/ op = ">"  /\ CompareSemVer(version, candidate) /\ candidate # version
  \/ op = ">=" /\ (candidate = version \/ ~CompareSemVer(candidate, version))
  \/ op = "<"  /\ CompareSemVer(candidate, version)
  \/ op = "<=" /\ (candidate = version \/ ~CompareSemVer(version, candidate))

-----------------------------------------------------------------------------
(* coerce: the regular expression finds the first run of digits, and up to *)
(* two more that follow it after a dot.  The result is the matched pieces. *)

MatchIn(s) ==
  LET first == CHOOSE i \in 1..Len(s) : IsNum(s[i]) /\ \A j \in 1..(i - 1) : ~IsNum(s[j])
      more(i) == i <= Len(s) /\ IsNum(s[i])
  IN SubSeq(s, first, IF ~more(first + 1) THEN first
                      ELSE IF ~more(first + 2) THEN first + 1 ELSE first + 2)

Match(t) ==
  IF \E i \in DOMAIN t.nums : IsNum(t.nums[i]) THEN MatchIn(t.nums)
  ELSE IF \E i \in DOMAIN t.pre : IsNum(t.pre[i]) THEN MatchIn(t.pre)
  ELSE <<>>

CoerceThrows(t) == \E i \in DOMAIN Match(t) : ~FitsLong(Match(t)[i])

(* An absent component of a match is "0".                                  *)
ValueOr0(s, i) == IF i <= Len(s) THEN s[i].val ELSE 0

Coerce(t) ==
  IF Match(t) = <<>> THEN NoText
  ELSE Dotted(ValueOr0(Match(t), 1), ValueOr0(Match(t), 2), ValueOr0(Match(t), 3))

-----------------------------------------------------------------------------
(* incrementVersion: the successor of a pre-release adds ".0" to it, that  *)
(* of a release adds one to its patch number.                              *)

(* Slip: the patch number of a release is not incremented.                 *)
SlipNoIncrement(t) ==
  IF t.pre = <<>> THEN Dotted(ValueOr0(t.nums, 1), ValueOr0(t.nums, 2), ValueOr0(t.nums, 3))
  ELSE [t EXCEPT !.pre = Append(t.pre, Num(0))]

(* Slip: a release is followed by the next minor release.                  *)
SlipNextMinor(t) ==
  IF t.pre = <<>> THEN Dotted(ValueOr0(t.nums, 1), Plus1(ValueOr0(t.nums, 2)), 0)
  ELSE [t EXCEPT !.pre = Append(t.pre, Num(0))]

IncrementVersion(t) ==
  LET int(i) == ValueOr0(t.nums, i)
  IN IF \E i \in DOMAIN t.nums : i <= 3 /\ ~FitsInt(t.nums[i])
     THEN NoText
     ELSE IF t.pre \notin {<<>>, <<EmptyPiece>>}
     THEN [nums |-> Dotted(int(1), int(2), int(3)).nums, pre |-> Append(t.pre, Num(0))]
     ELSE Dotted(int(1), int(2), Plus1(int(3)))

(* Versions in the words of the properties.  The patch number of a release *)
(* that is the largest int has no successor.                               *)
Full(t)      == Len(t.nums) = 3
IsRelease(t) == t.pre \in {<<>>, <<EmptyPiece>>}
AtLimit(t)   == IsRelease(t) /\ ValueOr0(t.nums, 3) = IntMax

Releases == {Dotted(m, n, p) : m, n, p \in 0..IntMax}

-----------------------------------------------------------------------------
(* The upper bounds of "^t" and of "~t".  EmptyText is the bound "".       *)

CaretThrows(t) == \E i \in DOMAIN Match(t) : ~FitsInt(Match(t)[i])

(* Slip: "0.y.z" is bounded like "0.0.z".                                  *)
SlipCaretSkipsMinor(t) ==
  LET c == Coerce(t).nums
  IN IF Match(t) = <<>> THEN EmptyText
     ELSE IF c[1].val > 0 THEN Dotted(Plus1(c[1].val), 0, 0)
     ELSE Dotted(0, 0, Plus1(c[3].val))

ComputeCaretUpperBound(t) ==
  LET c == Coerce(t).nums
  IN IF Match(t) = <<>> THEN EmptyText
     ELSE IF c[1].val > 0 THEN Dotted(Plus1(c[1].val), 0, 0)
     ELSE IF c[2].val > 0 THEN Dotted(0, Plus1(c[2].val), 0)
     ELSE Dotted(0, 0, Plus1(c[3].val))

(* The pieces between dots alone.  Of a piece such as "2-beta", std::stoi  *)
(* reads the digits before the dash; of "-beta" it reads none.             *)
DotParts(t) ==
  IF t.pre = <<>> THEN DropTrailingEmpty(t.nums)
  ELSE t.nums \o DropTrailingEmpty(Tail(t.pre))

(* parts[0] and parts[1] go through std::stoi, and nothing checks that     *)
(* there is a parts[1].                                                    *)
TildeThrows(t) ==
  /\ Match(t) # <<>>
  /\ \/ CoerceThrows(t)
     \/ \E i \in DOMAIN DotParts(t) : i <= 2 /\ ~FitsInt(DotParts(t)[i])

TildeReadsPastEnd(t) ==
  Match(t) # <<>> /\ ~TildeThrows(t) /\ Len(DotParts(t)) < 2

ComputeTildeUpperBound(t) ==
  IF Match(t) = <<>> THEN EmptyText
  ELSE Dotted(DotParts(t)[1].val, Plus1(DotParts(t)[2].val), 0)
=============================================================================
