---------------------------- MODULE RangeMinimum ----------------------------
(***************************************************************************)
(* What minimum() promises, said of the set of sub-ranges and the set of   *)
(* constraints in each, in no order: each sub-range offers the greatest of *)
(* its lower bounds if that meets its upper bounds, and the answer is a    *)
(* least one of what they offer.  Where there are several greatest ones,   *)
(* or where the order in which the code looks at the bounds and sub-ranges *)
(* does matter, the promise leaves open which of the outcomes it is.       *)
(***************************************************************************)
EXTENDS VersionRange

VARIABLES
  range,     \* the argument
  outcome,   \* how the call ends
  answer     \* the result of a call that has returned

vars == <<range, outcome, answer>>

-----------------------------------------------------------------------------

ConstraintsOf(s) == {s.constraints[i] : i \in DOMAIN s.constraints}

Lowers(s) == {LowerOf(c)[1] : c \in {d \in ConstraintsOf(s) : LowerOf(d) # <<>>}}
Uppers(s) == {UpperOf(c)[1] : c \in {d \in ConstraintsOf(s) : UpperOf(d) # <<>>}}

Greatest(T) == {t \in T : \A u \in T : ~CompareSemVer(t, u)}
Least(T)    == {t \in T : \A u \in T : ~CompareSemVer(u, t)}

Candidates(s) ==
  IF s.bare THEN {BareCandidate(s)}
  ELSE IF Lowers(s) # {} THEN Greatest({LowerCandidate(lc) : lc \in Lowers(s)})
  ELSE {Zero}

MeetsUppers(t, s) == \A uc \in Uppers(s) : SatisfiesConstraint(t, uc.op, uc.ver)

(* What may come of candidate c, NoText if nothing.  "<0.0.0-beta" turns   *)
(* "0.0.0" into "0.0.0-0", either before or after the other upper bounds   *)
(* are looked at.                                                          *)
OffersOf(c, s) ==
  IF c = Zero /\ BelowZeroBeta \in Uppers(s)
  THEN {t \in {ZeroPre} : MeetsUppers(Zero, s)} \cup {t \in {NoText} : ~MeetsUppers(ZeroPre, s)}
  ELSE IF c # EmptyText /\ MeetsUppers(c, s) THEN {c} ELSE {NoText}

Offers(s) ==
  IF IsStar(s) THEN {Zero, StarText} ELSE UNION {OffersOf(c, s) : c \in Candidates(s)}

(* A star is taken for the text "*" only when another sub-range offers     *)
(* "0.0.0" or less.                                                        *)
StarIsLate(choice, i) ==
  \E j \in DOMAIN choice \ {i} : choice[j] # NoText /\ ~CompareSemVer(Zero, choice[j])

Choices(r) ==
  {choice \in [DOMAIN r.subs -> UNION {Offers(r.subs[i]) : i \in DOMAIN r.subs}] :
     \A i \in DOMAIN choice :
       /\ choice[i] \in Offers(r.subs[i])
       /\ IsStar(r.subs[i]) /\ choice[i] = StarText => StarIsLate(choice, i)}

Lowest(T) == IF T = {} THEN {NoText} ELSE Least(T)

Answers(r) ==
  IF r.hyphen THEN {Coerce(r.left)}
  ELSE UNION {Lowest({choice[i] : i \in DOMAIN choice} \ {NoText}) : choice \in Choices(r)}

-----------------------------------------------------------------------------
(* When a call may fail: a numeral that no int holds, or that has no       *)
(* successor, or a "~" whose version lacks the numerals its bound needs.   *)

ConstraintsIn(r) ==
  IF r.hyphen THEN {} ELSE UNION {ConstraintsOf(r.subs[i]) : i \in DOMAIN r.subs}

TextsOf(r) ==
  IF r.hyphen THEN {r.left}
  ELSE {r.subs[i].text : i \in DOMAIN r.subs} \cup {c.ver : c \in ConstraintsIn(r)}

TooLarge(r) ==
  \E t \in TextsOf(r) : \E i \in DOMAIN Split(t) :
    IsNum(Split(t)[i]) /\ Split(t)[i].val >= IntMax

Tildes(r) == {c \in ConstraintsIn(r) : c.op = "~"}

-----------------------------------------------------------------------------

Init ==
  /\ range \in RangeArg
  /\ outcome = "running"
  /\ answer = NoText

Answer ==
  /\ outcome = "running" /\ outcome' = "returned"
  /\ \A c \in Tildes(range) : ~TildeThrows(c.ver) /\ ~TildeReadsPastEnd(c.ver)
  /\ answer' \in Answers(range)
  /\ UNCHANGED range

Throw ==
  /\ outcome = "running" /\ outcome' = "exception"
  /\ TooLarge(range) \/ \E c \in Tildes(range) : TildeThrows(c.ver)
  /\ UNCHANGED <<range, answer>>

GoPastEnd ==
  /\ outcome = "running" /\ outcome' = "undefined"
  /\ \E c \in Tildes(range) : TildeReadsPastEnd(c.ver)
  /\ UNCHANGED <<range, answer>>

Next == Answer \/ Throw \/ GoPastEnd

Spec == Init /\ [][Next]_vars
=============================================================================
