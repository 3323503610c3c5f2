------------------------------- MODULE Parse -------------------------------
(***************************************************************************)
(* parse(input), which takes its input apart from left to right, and       *)
(* clean(input), which trims and strips its input before it parses it.     *)
(***************************************************************************)
EXTENDS VersionGrammar

CONSTANT Inputs   \* the strings that parse() and clean() are called with

ASSUME InputsAssumption == Inputs \subseteq String

VARIABLES
  call,     \* the function that was called
  input,    \* its argument
  stage,    \* what is done next
  rest,     \* input_copy of parse(), range of clean(): what is not yet read
  version,  \* the fields read so far
  outcome   \* how the call ends

vars == <<call, input, stage, rest, version, outcome>>

Stages   == {"trim", "strip", "length", "major", "minor", "patch", "pre", "build"}
Outcomes == {"running", "version", "INVALID_INPUT", "VERSION_LARGER_THAN_MAX_LENGTH"}

TypeOK ==
  /\ call \in {"parse", "clean"}
  /\ input \in String
  /\ stage \in Stages
  /\ rest \in String
  /\ version \in Version
  /\ outcome \in Outcomes

Init ==
  /\ call \in {"parse", "clean"}
  /\ input \in Inputs
  /\ stage = IF call = "parse" THEN "length" ELSE "trim"
  /\ rest = input
  /\ version = NoVersion
  /\ outcome = "running"

At(s) == outcome = "running" /\ stage = s

-----------------------------------------------------------------------------
(* Slip: a leading zero is let through.                                    *)
SlipAnyNumber(s) == s # <<>> /\ OnlyDigits(s)

(* The tests of a minor and of a patch number.                             *)
Number(s) == s # <<>> /\ ~(s[1] = 0 /\ Len(s) > 1) /\ OnlyDigits(s)

(* The tests that the next field has to pass.                              *)
Valid ==
  CASE stage = "trim"   -> Trim(rest) # <<>>
    [] stage = "strip"  -> rest # <<>> => rest[1] \in Digit \cup {Equal, LetterV}
    [] stage = "length" -> TRUE
    [] stage = "major"  -> /\ Found(rest, {Dot})
                           /\ Before(rest, {Dot}) # <<>> /\ rest[1] # 0
                           /\ OnlyDigits(Before(rest, {Dot}))
    [] stage = "minor"  -> Found(rest, {Dot}) /\ Number(Before(rest, {Dot}))
    [] stage = "patch"  -> Number(Before(rest, {Dash, Plus}))
    [] stage = "pre"    -> Before(rest, {Plus}) # <<>>
    [] stage = "build"  -> rest # <<>>

(* Slip: the error names the field it is in.                               *)
SlipNamesField ==
  /\ outcome = "running" /\ ~Valid
  /\ outcome' = IF stage = "minor" THEN "INVALID_MINOR" ELSE "INVALID_INPUT"
  /\ UNCHANGED <<call, input, stage, rest, version>>

Reject ==
  /\ outcome = "running" /\ ~Valid
  /\ outcome' = "INVALID_INPUT"
  /\ UNCHANGED <<call, input, stage, rest, version>>

-----------------------------------------------------------------------------
(* clean.                                                                  *)

(* Slip: the trimmed view is not used.                                     *)
SlipNoTrim ==
  /\ At("trim") /\ Valid
  /\ stage' = "strip"
  /\ UNCHANGED <<call, input, rest, version, outcome>>

TrimInput ==
  /\ At("trim") /\ Valid
  /\ rest' = Trim(rest)
  /\ stage' = "strip"
  /\ UNCHANGED <<call, input, version, outcome>>

HasPrefix == rest # <<>> /\ rest[1] \in {Equal, LetterV}

(* Slip: the character is seen and not removed.                            *)
SlipKeepsPrefix ==
  /\ At("strip") /\ HasPrefix
  /\ UNCHANGED vars

StripPrefix ==
  /\ At("strip") /\ HasPrefix
  /\ rest' = Tail(rest)
  /\ UNCHANGED <<call, input, stage, version, outcome>>

CallParse ==
  /\ At("strip") /\ Valid /\ ~HasPrefix
  /\ stage' = "length"
  /\ UNCHANGED <<call, input, rest, version, outcome>>

-----------------------------------------------------------------------------
(* parse.                                                                  *)

RejectTooLong ==
  /\ At("length") /\ Len(rest) > MaxLength
  /\ outcome' = "VERSION_LARGER_THAN_MAX_LENGTH"
  /\ UNCHANGED <<call, input, stage, rest, version>>

AcceptLength ==
  /\ At("length") /\ Len(rest) <= MaxLength
  /\ rest' = Trim(rest)
  /\ stage' = "major"
  /\ UNCHANGED <<call, input, version, outcome>>

TakeMajor ==
  /\ At("major") /\ Valid
  /\ version' = [version EXCEPT !.major = Before(rest, {Dot})]
  /\ rest' = After(rest, {Dot})
  /\ stage' = "minor"
  /\ UNCHANGED <<call, input, outcome>>

TakeMinor ==
  /\ At("minor") /\ Valid
  /\ version' = [version EXCEPT !.minor = Before(rest, {Dot})]
  /\ rest' = After(rest, {Dot})
  /\ stage' = "patch"
  /\ UNCHANGED <<call, input, outcome>>

(* Slip: whatever follows the patch number is taken for a pre-release.     *)
SlipAlwaysPre ==
  /\ At("patch") /\ Valid
  /\ version' = [version EXCEPT !.patch = Before(rest, {Dash, Plus})]
  /\ IF Found(rest, {Dash, Plus})
     THEN rest' = After(rest, {Dash, Plus}) /\ stage' = "pre" /\ UNCHANGED outcome
     ELSE outcome' = "version" /\ UNCHANGED <<rest, stage>>
  /\ UNCHANGED <<call, input>>

TakePatch ==
  /\ At("patch") /\ Valid
  /\ version' = [version EXCEPT !.patch = Before(rest, {Dash, Plus})]
  /\ IF Found(rest, {Dash, Plus})
     THEN /\ rest' = After(rest, {Dash, Plus})
          /\ stage' = IF rest[Find(rest, {Dash, Plus})] = Dash THEN "pre" ELSE "build"
          /\ UNCHANGED outcome
     ELSE outcome' = "version" /\ UNCHANGED <<rest, stage>>
  /\ UNCHANGED <<call, input>>

TakePreRelease ==
  /\ At("pre") /\ Valid
  /\ version' = [version EXCEPT !.pre = Before(rest, {Plus})]
  /\ IF Found(rest, {Plus})
     THEN rest' = After(rest, {Plus}) /\ stage' = "build" /\ UNCHANGED outcome
     ELSE outcome' = "version" /\ UNCHANGED <<rest, stage>>
  /\ UNCHANGED <<call, input>>

TakeBuild ==
  /\ At("build") /\ Valid
  /\ version' = [version EXCEPT !.build = rest]
  /\ outcome' = "version"
  /\ UNCHANGED <<call, input, stage, rest>>

-----------------------------------------------------------------------------

Next ==
  \/ TrimInput \/ StripPrefix \/ CallParse
  \/ RejectTooLong \/ AcceptLength \/ Reject
  \/ TakeMajor \/ TakeMinor \/ TakePatch \/ TakePreRelease \/ TakeBuild

(* A call runs on its caller's thread until it ends.                       *)
Fairness == WF_vars(Next)

Spec == Init /\ [][Next]_vars /\ Fairness

-----------------------------------------------------------------------------
(* Correctness.                                                            *)

(* The string that a call hands to parse(): clean() strips white space, and *)
(* after it any number of '=' and 'v'.                                     *)
Stripped(s) ==
  LET t == Trim(s)
      bare == {n \in 0..Len(t) : Chars(SubSeq(t, 1, n)) \subseteq {Equal, LetterV}}
  IN Skip(t, CHOOSE n \in bare : \A m \in bare : m <= n)

Argument == IF call = "parse" THEN input ELSE Stripped(input)

(* The grammar of VersionGrammar decides: a call returns a version when    *)
(* its string is the text of one, that version and no other, and else an   *)
(* error.  clean() takes no white space after the '=' and 'v'.             *)
Expected ==
  IF call = "clean" /\ Argument # <<>> /\ Argument[1] = Space THEN NoVersion
  ELSE Parsed(Argument)

GrammarDecides ==
  outcome # "running" =>
    IF Expected = NoVersion THEN outcome \in Outcomes \ {"running", "version"}
    ELSE outcome = "version" /\ version = Expected

(* Nothing is lost or made up on the way: the fields read so far and the   *)
(* rest are the trimmed string.                                            *)
Taken ==
  CASE stage = "major" -> <<>>
    [] stage = "minor" -> version.major \o <<Dot>>
    [] stage = "patch" -> version.major \o <<Dot>> \o version.minor \o <<Dot>>
    [] stage = "pre"   -> ToText(version) \o <<Dash>>
    [] stage = "build" -> ToText(version) \o <<Plus>>

NothingLost ==
  /\ outcome = "running" /\ stage \in {"major", "minor", "patch", "pre", "build"} =>
       Taken \o rest = Trim(Argument)
  /\ outcome = "version" => ToText(version) = Trim(Argument)

(* clean() finds what parse() finds, and its result needs no cleaning: the *)
(* text of a cleaned version parses to that version.                       *)
CleanExtendsParse ==
  call = "clean" /\ outcome # "running" =>
    /\ Parsed(input) # NoVersion => outcome = "version" /\ version = Parsed(input)
    /\ outcome = "version" => Parsed(ToText(version)) = version

(* Every call ends.                                                        *)
Termination == <>(outcome # "running")

-----------------------------------------------------------------------------
(* The header says that a pre-release and a build are series of            *)
(* identifiers with dots between them, none of them empty, made of digits, *)
(* letters and hyphens alone, and that the numeric ones of a pre-release   *)
(* have no leading zero.  The versions that parse() returns should be so.  *)
Identifiers(s) ==
  LET ends == {0, Len(s) + 1} \cup {n \in DOMAIN s : s[n] = Dot}
      next(i) == CHOOSE j \in ends : i < j /\ \A k \in ends : i < k => j <= k
  IN {SubSeq(s, i + 1, next(i) - 1) : i \in ends \ {Len(s) + 1}}

Documented(id) == id # <<>> /\ Chars(id) \subseteq {Dash} \cup Digit \cup (LetterA..LetterX)

IdentifiersDocumented ==
  outcome = "version" =>
    /\ version.pre # <<>> =>
         \A id \in Identifiers(version.pre) : Documented(id) /\ (OnlyDigits(id) => IsNumber(id))
    /\ version.build # <<>> => \A id \in Identifiers(version.build) : Documented(id)

=============================================================================
