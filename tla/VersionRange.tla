---------------------------- MODULE VersionRange ----------------------------
(***************************************************************************)
(* The argument of minimum() as its regular expressions take it apart, and *)
(* the bounds that one constraint of it stands for.                        *)
(***************************************************************************)
EXTENDS VersionText

Ops == {">", ">=", "<", "<=", "^", "~"}

(* The version of a constraint has at least one character.                *)
Constraint == [op : Ops, ver : Text \ {EmptyText}]

(* What lowerConstraints and upperConstraints hold.                        *)
LowerBound == [op : {">", ">="}, ver : Text \ {EmptyText}]
UpperBound == [op : {"<", "<="}, ver : Text]

(* A sub-range in which no operator occurs is bare: only its text matters. *)
(* Of any other only the constraints do; there are none in one like ">*".  *)
SubRange == {s \in [bare : BOOLEAN, text : Text, constraints : Seq(Constraint)] :
               s.bare => s.constraints = <<>>}

(* "A - B", of which only A is read, or sub-ranges joined by "||".         *)
RangeArg == [hyphen : BOOLEAN, left : Text, subs : Seq(SubRange)]

StarText  == [nums |-> <<Star>>, pre |-> <<>>]
IsStar(s) == s.bare /\ s.text = StarText

(* The two texts that the code treats specially.                           *)
ZeroBeta == [nums |-> Zero.nums, pre |-> <<Beta>>]
ZeroPre  == [nums |-> Zero.nums, pre |-> <<Num(0)>>]

(* The bound that turns the candidate "0.0.0" into "0.0.0-0".              *)
BelowZeroBeta == [op |-> "<", ver |-> ZeroBeta]

-----------------------------------------------------------------------------

(* Slip: "^" and "~" enter lowerConstraints with their own operator.       *)
SlipKeepsOp(c) == IF c.op \in {"<", "<="} THEN <<>> ELSE <<c>>

(* What constraint c adds to lowerConstraints and to upperConstraints.     *)
LowerOf(c) ==
  IF c.op \in {"^", "~"} THEN <<[op |-> ">=", ver |-> c.ver]>>
  ELSE IF c.op \in {">", ">="} THEN <<c>>
  ELSE <<>>

UpperOf(c) ==
  IF c.op = "^" THEN <<[op |-> "<", ver |-> ComputeCaretUpperBound(c.ver)]>>
  ELSE IF c.op = "~" /\ Match(c.ver) # <<>>
  THEN <<[op |-> "<", ver |-> ComputeTildeUpperBound(c.ver)]>>
  ELSE IF c.op \in {"<", "<="} THEN <<c>>
  ELSE <<>>

BoundThrows(c) ==
  \/ c.op = "^" /\ CaretThrows(c.ver)
  \/ c.op = "~" /\ TildeThrows(c.ver)

(* The version that lower constraint lc makes a candidate of.              *)
LowerCandidate(lc) ==
  IF lc.op = ">" /\ IncrementVersion(lc.ver) # NoText
  THEN IncrementVersion(lc.ver)
  ELSE lc.ver

(* The candidate of a bare sub-range: its coercion, else the text itself.  *)
BareCandidate(s) == IF Coerce(s.text) # NoText THEN Coerce(s.text) ELSE s.text
=============================================================================
