---------------------------- MODULE ReleaseLine ----------------------------
(***************************************************************************)
(* A release line: a version is parsed, incremented by inc(), written, and *)
(* parsed again.  parse() is taken for what VersionGrammar promises of it. *)
(***************************************************************************)
EXTENDS VersionGrammar, Precedence, Numbers

CONSTANTS
  Texts,     \* the texts that the line may begin with
  HandMade,  \* the structs, not made by parse(), that it may begin with
  MaxLine    \* a bound on the versions of the line

ASSUME LineAssumption == /\ Texts \subseteq String
                         /\ HandMade \subseteq Version \ {NoVersion}
                         /\ MaxLine \in Nat

VARIABLES
  text,    \* the text last written
  held,    \* the version last parsed, NoVersion before the first
  asked,   \* the release type last asked for
  error,   \* the error that ended the line, "none" before it
  line     \* the versions of the line so far (history)

vars == <<text, held, asked, error, line>>

Init ==
  /\ \/ text \in Texts /\ held = NoVersion /\ line = <<>>
     \/ text = <<>> /\ held \in HandMade /\ line = <<held>>
  /\ asked = "none"
  /\ error = "none"

-----------------------------------------------------------------------------
(* increment() and operator+: the text is parsed first.                    *)

Parse ==
  /\ error = "none" /\ held = NoVersion
  /\ Parsed(text) # NoVersion
  /\ held' = Parsed(text)
  /\ line' = Append(line, held')
  /\ UNCHANGED <<text, asked, error>>

FailToParse ==
  /\ error = "none" /\ held = NoVersion
  /\ Parsed(text) = NoVersion
  /\ error' = IF Len(text) > MaxLength THEN "VERSION_LARGER_THAN_MAX_LENGTH" ELSE "INVALID_INPUT"
  /\ UNCHANGED <<text, held, asked, line>>

-----------------------------------------------------------------------------
(* inc(held, release).                                                     *)

Asks(release) ==
  /\ error = "none" /\ held # NoVersion
  /\ Len(line) < MaxLine
  /\ asked' = release

Writes(v) ==
  /\ text' = ToText(v)
  /\ held' = NoVersion
  /\ UNCHANGED <<error, line>>

Fails(e) ==
  /\ error' = e
  /\ UNCHANGED <<text, held, line>>

Incremented(s) == NumToString(Plus1(FromChars(s)))

(* Slip: the patch number is not reset.                                    *)
SlipKeepsPatch ==
  /\ Asks("MAJOR")
  /\ IF FromCharsFails(held.major) THEN Fails("INVALID_MAJOR")
     ELSE Writes(Release(Incremented(held.major), <<0>>, held.patch))

IncMajor ==
  /\ Asks("MAJOR")
  /\ IF FromCharsFails(held.major) THEN Fails("INVALID_MAJOR")
     ELSE Writes(Release(Incremented(held.major), <<0>>, <<0>>))

(* Slip: the number that is checked is the patch number.                   *)
SlipChecksPatch ==
  /\ Asks("MINOR")
  /\ IF FromCharsFails(held.patch) THEN Fails("INVALID_MINOR")
     ELSE Writes(Release(held.major, Incremented(held.minor), <<0>>))

IncMinor ==
  /\ Asks("MINOR")
  /\ IF FromCharsFails(held.minor) THEN Fails("INVALID_MINOR")
     ELSE Writes(Release(held.major, Incremented(held.minor), <<0>>))

(* Slip: a version with build metadata is taken for a pre-release.         *)
SlipFinishBuild ==
  /\ Asks("PATCH") /\ held.pre \o held.build # <<>>
  /\ Writes(Release(held.major, held.minor, held.patch))

(* The patch release of a pre-release is the release it leads up to.       *)
FinishPreRelease ==
  /\ Asks("PATCH") /\ held.pre # <<>>
  /\ Writes(Release(held.major, held.minor, held.patch))

IncPatch ==
  /\ Asks("PATCH") /\ held.pre = <<>>
  /\ IF FromCharsFails(held.patch) THEN Fails("INVALID_PATCH")
     ELSE Writes(Release(held.major, held.minor, Incremented(held.patch)))

IncOther ==
  /\ Asks("other")
  /\ Fails("INVALID_RELEASE_TYPE")

Next ==
  \/ Parse \/ FailToParse
  \/ IncMajor \/ IncMinor \/ FinishPreRelease \/ IncPatch \/ IncOther

Spec == Init /\ [][Next]_vars

-----------------------------------------------------------------------------
(* Correctness.                                                            *)

(* Every version of the line is above all those before it by operator<=>,  *)
(* not only above the last, whatever release types were asked for, if the  *)
(* line begins with numbers.  (Of version{"01", "0", "0"} inc() makes the  *)
(* text "2.0.0", and operator<=> takes "2" for less than "01".)            *)
LineIncreases ==
  line # <<>> /\ HasNumbers(line[1]) =>
    \A i, j \in DOMAIN line : i < j => Less(line[i], line[j])

(* inc() gives the next version: no release lies between the old version   *)
(* and the new one but those that the release type asks to skip.           *)
Releases ==
  {Release(NumToString(m), NumToString(n), NumToString(p)) : m, n, p \in 0..IntMax}

Skipped(r) ==
  \/ asked' \in {"MAJOR", "MINOR"} /\ r.major = held.major /\ r.minor = held.minor
  \/ asked' = "MAJOR" /\ r.major = held.major

SkipsNoRelease ==
  [][text' # text /\ HasNumbers(held) /\ Parsed(text') # NoVersion =>
       \A r \in Releases : Less(held, r) /\ Less(r, Parsed(text')) => Skipped(r)]_vars

(* From a version that parse() could have made, the line ends only at a    *)
(* release type that there is not, at a number that is the largest int or  *)
(* above it, or at a version as long as a text may be.                     *)
Spent(s) == FromCharsFails(s) \/ FromChars(s) = IntMax

EndsAtLimits ==
  error # "none" /\ line # <<>> =>
    LET v == line[Len(line)]
    IN IsVersion(v) =>
       \/ asked = "other"
       \/ asked = "MAJOR" /\ Spent(v.major)
       \/ asked = "MINOR" /\ Spent(v.minor)
       \/ asked = "PATCH" /\ Spent(v.patch)
       \/ Len(ToText(v)) >= MaxLength

=============================================================================
