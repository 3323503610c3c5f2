----------------------------- MODULE MCMinimum -----------------------------
(***************************************************************************)
(* Arguments of minimum() for the model checker.                           *)
(***************************************************************************)
EXTENDS Minimum, SequencesExt

Rel(m, n, p)    == Dotted(m, n, p)
Pre(m, n, p, w) == [nums |-> <<Num(m), Num(n), Num(p)>>, pre |-> <<w>>]
Part(nums)      == [nums |-> nums, pre |-> <<>>]

(* "001" is the numeral 1 behind two zeros.                                *)
Padded(n) == [kind |-> "num", val |-> n, zeros |-> 2]

Bare(t)     == [bare |-> TRUE, text |-> t, constraints |-> <<>>]
Bound(cs)   == [bare |-> FALSE, text |-> EmptyText, constraints |-> cs]
OneOf(ss)   == [hyphen |-> FALSE, left |-> EmptyText, subs |-> ss]
Hyphen(t)   == [hyphen |-> TRUE, left |-> t, subs |-> <<>>]
Constraints(ops, texts) == {[op |-> o, ver |-> t] : o \in ops, t \in texts}

-----------------------------------------------------------------------------
(* One sub-range of up to two constraints.                                 *)

(* Full versions, on either side of the boundaries of "^" and "~".         *)
FullTexts == {Rel(0, 0, 0), Rel(0, 0, 1), Rel(0, 1, 0), Rel(0, 1, 1),
              Rel(1, 0, 0), Rel(1, 1, 2), Rel(2, 0, 0), Pre(1, 1, 2, Beta)}

(* Versions with fewer than three numerals, with a placeholder, or padded  *)
(* with zeros.                                                             *)
ShortTexts == {Part(<<Num(1)>>), Part(<<Num(1), Num(1)>>), Part(<<Num(1), X>>),
               Part(<<Padded(1), Num(0), Num(0)>>)}

(* A short version behind "~" may lack the minor number: LimitRanges has   *)
(* those.                                                                  *)
TwoBounds ==
  BoundedSeq(Constraints(Ops, FullTexts)
               \cup Constraints(Ops \ {"~"}, ShortTexts)
               \cup Constraints({"~"}, {Part(<<Num(1), Num(1)>>)}) \cup {BelowZeroBeta}, 2)

(* Around the candidate that is changed between two upper bounds.          *)
ThreeBounds ==
  BoundedSeq(Constraints({">", ">=", "<", "<="}, {Rel(0, 0, 0), Rel(0, 0, 1), ZeroPre})
               \cup Constraints({"^", "~"}, {Rel(0, 0, 0)}) \cup {BelowZeroBeta}, 3)

BoundRanges == {OneOf(<<Bound(cs)>>) : cs \in TwoBounds \cup ThreeBounds}

-----------------------------------------------------------------------------
(* Up to three sub-ranges.                                                 *)

Con(o, t) == [op |-> o, ver |-> t]

StarSub == Bare(StarText)

SubRanges ==
  {StarSub,
   Bare(EmptyText),                                         \* ""
   Bare(Part(<<Blank>>)),                                   \* " "
   Bare(Part(<<X>>)),                                       \* "x"
   Bare(Part(<<Num(1), X>>)),                               \* "1.x"
   Bare(Rel(2, 0, 0)),                                      \* "2.0.0"
   Bound(<<>>),                                             \* ">*"
   Bound(<<Con("<", ZeroBeta)>>),                           \* "<0.0.0-beta"
   Bound(<<Con(">", Rel(1, 1, 2))>>),                       \* ">1.1.2"
   Bound(<<Con(">", Pre(1, 1, 2, Beta))>>),                 \* ">1.1.2-beta"
   Bound(<<Con("^", Rel(0, 1, 0)), Con("<", Rel(0, 1, 1))>>),
   Bound(<<Con("~", Rel(1, 1, 0)), Con(">=", Rel(1, 1, 1))>>),
   Bound(<<Con(">", Rel(1, 1, 2)), Con("<", Rel(1, 0, 0))>>)}

AlternativeRanges ==
  {OneOf(subs) : subs \in BoundedSeq(SubRanges, 3)}
    \cup {Hyphen(Part(<<Num(1)>>)), Hyphen(Part(<<Num(1), Num(1)>>)), Hyphen(Rel(1, 1, 2))}

-----------------------------------------------------------------------------
(* Numerals at and beyond the limits of int and of long long, and versions *)
(* whose bounds cannot be computed.                                        *)

LimitTexts ==
  {Rel(0, 0, 1), Rel(IntMax, 0, 0), Rel(0, IntMax, 0), Rel(0, 0, IntMax),
   Rel(LLMax, 0, 0), Rel(0, LLMax, 0), Rel(LLMax + 1, 0, 0), Part(<<Num(1)>>),
   Part(<<Num(1), X>>), Part(<<X>>), Pre(1, 0, 0, Num(LLMax))}

LimitRanges ==
  {OneOf(<<Bound(cs)>>) : cs \in BoundedSeq(Constraints(Ops, LimitTexts), 2)}
    \cup {OneOf(<<Bare(t), s>>) : t \in LimitTexts,
                                  s \in {StarSub} \cup {Bare(u) : u \in LimitTexts}}
    \cup {Hyphen(Part(<<Num(n)>>)) : n \in {IntMax, LLMax, LLMax + 1}}

AlternativesAndLimits == AlternativeRanges \cup LimitRanges

AllRanges == BoundRanges \cup AlternativesAndLimits

-----------------------------------------------------------------------------
(* Arguments on which the code does something else than it says.           *)

(* ">=0.0.0 || *" *)
StarRanges == {OneOf(<<Bound(<<Con(">=", Zero)>>), StarSub>>)}

(* "1.0.0 || 4.0.0", where 4 stands for a number that is no int. *)
TooLargeRanges == {OneOf(<<Bare(Rel(1, 0, 0)), Bare(Rel(IntMax + 1, 0, 0))>>)}

(* "~1" *)
TildeRanges == {OneOf(<<Bound(<<Con("~", Part(<<Num(1)>>))>>)>>)}
=============================================================================
