--------------------------- MODULE VersionGrammar ---------------------------
(***************************************************************************)
(* What parse() does, said without its steps: it accepts a string that is  *)
(* the text of a version, white space around it aside, and returns that    *)
(* version.  The grammar is the one that the code tests for.  The comments *)
(* of the header ask more of a pre-release and of a build, see             *)
(* IdentifiersDocumented in Parse.                                         *)
(***************************************************************************)
EXTENDS VersionString

CONSTANT MaxLength   \* MAX_VERSION_LENGTH

ASSUME LengthAssumption == MaxLength \in Nat

(* Only the major number may not be 0.  A pre-release is anything up to    *)
(* the first '+', and a build is anything.                                 *)
IsVersion(v) ==
  /\ IsNumber(v.major) /\ v.major[1] # 0
  /\ IsNumber(v.minor)
  /\ IsNumber(v.patch)
  /\ Plus \notin Chars(v.pre)

(* The versions with text s: v begins where its dots, its '-' and its '+'  *)
(* cut s, and a tail that is not there begins after the end of s.          *)
FieldsAt(s, i, j, k, l) ==
  [major |-> SubSeq(s, 1, i - 1), minor |-> SubSeq(s, i + 1, j - 1),
   patch |-> SubSeq(s, j + 1, k - 1), pre |-> SubSeq(s, k + 1, l - 1),
   build |-> SubSeq(s, l + 1, Len(s))]

Readings(s) ==
  {v \in {FieldsAt(s, i, j, k, l) :
             i \in {n \in DOMAIN s : s[n] = Dot},
             j \in {n \in DOMAIN s : s[n] = Dot},
             k \in {n \in DOMAIN s : s[n] \in {Dash, Plus}} \cup {Len(s) + 1},
             l \in {n \in DOMAIN s : s[n] = Plus} \cup {Len(s) + 1}} :
     IsVersion(v) /\ ToText(v) = s}

(* The version that parse(s) returns, NoVersion for an error.              *)
Parsed(s) ==
  IF Len(s) > MaxLength \/ Readings(Trim(s)) = {} THEN NoVersion
  ELSE CHOOSE v \in Readings(Trim(s)) : TRUE
=============================================================================
