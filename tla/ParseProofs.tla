---------------------------- MODULE ParseProofs ----------------------------
(***************************************************************************)
(* parse() decides the grammar: on every string it returns the version     *)
(* that the string is the text of, and an error when there is none.        *)
(***************************************************************************)
EXTENDS Parse, VersionStringProofs

-----------------------------------------------------------------------------
(* The inductive invariant.                                                *)

(* clean() takes no white space behind the '=' and 'v'.                    *)
Acceptable == ~(call = "clean" /\ Argument # <<>> /\ Argument[1] = Space)

Reading(v) == v \in Version /\ IsVersion(v) /\ ToText(v) = Trim(Argument)

FieldStages == {"major", "minor", "patch", "pre", "build"}

(* What clean() has removed so far is '=' and 'v', and what it hands to    *)
(* parse() is the argument.                                                *)
Cleaning ==
  outcome = "running" =>
    /\ stage = "trim" => call = "clean" /\ rest = input
    /\ stage = "strip" =>
         /\ call = "clean"
         /\ \E n \in 0..Len(Trim(input)) :
              /\ rest = Skip(Trim(input), n)
              /\ Chars(SubSeq(Trim(input), 1, n)) \subseteq {Equal, LetterV}
    /\ stage = "length" => rest = Argument /\ Acceptable
    /\ stage \in FieldStages => Len(Argument) <= MaxLength /\ Acceptable

(* The fields read so far are those of a version, the others are empty.    *)
FieldsRead ==
  outcome = "running" =>
    /\ stage \in {"minor", "patch", "pre", "build"} => IsNumber(version.major) /\ version.major[1] # 0
    /\ stage \in {"patch", "pre", "build"} => IsNumber(version.minor)
    /\ stage \in {"pre", "build"} => IsNumber(version.patch)
    /\ Plus \notin Chars(version.pre)
    /\ stage # "build" => version.pre = <<>>
    /\ version.build = <<>>

(* They and the rest are the trimmed argument.                             *)
PreText(v)  == IF v.pre = <<>> THEN <<>> ELSE <<Dash>> \o v.pre
Numbers2(v, r) == v.major \o (<<Dot>> \o (v.minor \o (<<Dot>> \o r)))
Numbers3(v, r) == Numbers2(v, v.patch \o r)

Remaining ==
  outcome = "running" =>
    /\ stage = "major" => Trim(Argument) = rest
    /\ stage = "minor" => Trim(Argument) = version.major \o (<<Dot>> \o rest)
    /\ stage = "patch" => Trim(Argument) = Numbers2(version, rest)
    /\ stage = "pre"   => Trim(Argument) = Numbers3(version, <<Dash>> \o rest)
    /\ stage = "build" => Trim(Argument) = Numbers3(version, PreText(version) \o (<<Plus>> \o rest))

(* No version with this text has other fields.                             *)
OnlyReading ==
  outcome = "running" =>
    \A v \in Version : Reading(v) =>
      /\ stage \in {"minor", "patch", "pre", "build"} => v.major = version.major
      /\ stage \in {"patch", "pre", "build"} => v.minor = version.minor
      /\ stage \in {"pre", "build"} => v.patch = version.patch
      /\ stage = "major" => rest = FromMajor(v)
      /\ stage = "minor" => rest = FromMinor(v)
      /\ stage = "patch" => rest = FromPatch(v)
      /\ stage = "pre"   => v.pre # <<>> /\ rest = FromPre(v)
      /\ stage = "build" => v.pre = version.pre /\ v.build # <<>> /\ rest = v.build

(* The call ends in the version that the argument is the text of, and in   *)
(* an error only if there is none.                                         *)
Verdict ==
  /\ outcome = "version" => Reading(version) /\ Len(Argument) <= MaxLength /\ Acceptable
  /\ outcome \notin {"running", "version"} =>
       ~Acceptable \/ Len(Argument) > MaxLength \/ \A v \in Version : ~Reading(v)

ParseInv ==
  TypeOK /\ Cleaning /\ FieldsRead /\ Remaining /\ OnlyReading /\ Verdict

-----------------------------------------------------------------------------
(* What a reading says of the rest.                                        *)

(* The text of a version begins with a digit other than 0.                 *)
LEMMA TextStarts ==
  ASSUME NEW v \in Version, IsVersion(v)
  PROVE  ToText(v) # <<>> /\ ToText(v)[1] = v.major[1] /\ ToText(v)[1] \in Digit \ {0}
<1> DEFINE D == {Dot}
           s == ToText(v)
<1>1. v.major # <<>> /\ OnlyDigits(v.major) /\ v.major[1] # 0 /\ v.major \in String
  BY FieldTypes DEF IsVersion, IsNumber
<1>2. s = FromMajor(v) /\ s \in String
  BY TextFrom, FromTypes
<1>3. Before(s, D) = v.major
  BY <1>1, <1>2, ReadMajor DEF CutsInto
<1> HIDE DEF s, D
<1>4. s # <<>> /\ v.major[1] = s[1]
  BY <1>1, <1>2, <1>3, BeforeStarts
<1>5. 1 \in DOMAIN v.major
  BY <1>1 DEF String
<1>6. v.major[1] \in Digit
  BY <1>1, <1>5 DEF OnlyDigits, Chars
<1>7. QED
  BY <1>1, <1>4, <1>6 DEF s

LEMMA NumberIs ==
  ASSUME NEW s
  PROVE  Number(s) <=> IsNumber(s)
BY DEF Number, IsNumber

(* As long as there is a reading, the tests of the next field succeed.     *)
LEMMA ReadingIsValid ==
  ASSUME TypeOK, OnlyReading, outcome = "running", stage \in FieldStages,
         NEW v \in Version, Reading(v)
  PROVE  Valid
<1>1. /\ OnlyDigits(v.major) /\ OnlyDigits(v.minor) /\ OnlyDigits(v.patch) /\ Plus \notin Chars(v.pre)
      /\ IsNumber(v.major) /\ IsNumber(v.minor) /\ IsNumber(v.patch) /\ v.major[1] # 0
      /\ IsVersion(v)
  BY VersionDigits DEF Reading, IsVersion
<1>2. rest \in String
  BY DEF TypeOK
<1>3. CASE stage = "major"
  <2> DEFINE D == {Dot}
  <2>1. rest = FromMajor(v)
    BY <1>3 DEF OnlyReading
  <2>2. CutsInto(rest, D, v.major, Dot, FromMinor(v))
    BY <1>1, <2>1, ReadMajor
  <2>3. rest[1] # 0
    BY <1>1, <2>1, TextStarts, TextFrom
  <2>4. Found(rest, D) /\ Before(rest, D) = v.major /\ v.major # <<>>
    BY <1>1, <2>2 DEF CutsInto, IsNumber
  <2>5. QED
    BY <1>1, <1>3, <2>3, <2>4 DEF Valid
<1>4. CASE stage = "minor"
  <2> DEFINE D == {Dot}
  <2>1. rest = FromMinor(v)
    BY <1>4 DEF OnlyReading
  <2>2. CutsInto(rest, D, v.minor, Dot, FromPatch(v))
    BY <1>1, <2>1, ReadMinor
  <2>3. Found(rest, D) /\ Before(rest, D) = v.minor
    BY <2>2 DEF CutsInto
  <2>4. QED
    BY <1>1, <1>4, <2>3, NumberIs DEF Valid
<1>5. CASE stage = "patch"
  <2>1. rest = FromPatch(v)
    BY <1>5 DEF OnlyReading
  <2>2. Before(rest, {Dash, Plus}) = v.patch
    BY <1>1, <2>1, ReadPatch
  <2>3. QED
    BY <1>1, <1>5, <2>2, NumberIs DEF Valid
<1>6. CASE stage = "pre"
  <2>1. rest = FromPre(v) /\ v.pre # <<>>
    BY <1>6 DEF OnlyReading
  <2>2. Before(rest, {Plus}) = v.pre
    BY <1>1, <2>1, ReadPre
  <2>3. QED
    BY <1>6, <2>1, <2>2 DEF Valid
<1>7. CASE stage = "build"
  BY <1>7 DEF OnlyReading, Valid
<1>8. QED
  BY <1>3, <1>4, <1>5, <1>6, <1>7 DEF FieldStages

-----------------------------------------------------------------------------
(* The argument of clean().                                                *)

(* Once the next character is neither '=' nor 'v', what is left of a       *)
(* string is what Stripped leaves.                                         *)
LEMMA StrippedIs ==
  ASSUME NEW s \in String, NEW n \in 0..Len(Trim(s)),
         Chars(SubSeq(Trim(s), 1, n)) \subseteq {Equal, LetterV},
         NEW r, r = Skip(Trim(s), n),
         r = <<>> \/ r[1] \notin {Equal, LetterV}
  PROVE  Stripped(s) = r
<1> DEFINE t    == Trim(s)
           P    == {Equal, LetterV}
           bare == {k \in 0..Len(t) : Chars(SubSeq(t, 1, k)) \subseteq P}
           most(k) == \A m \in bare : m <= k
<1>1. t \in Seq(Char) /\ Len(t) \in Nat /\ t \in String
  BY TrimLength, Characters DEF String
<1>2. n \in bare
  OBVIOUS
<1>3. ASSUME NEW m \in bare
      PROVE  m <= n
  <2>1. SUFFICES ASSUME n < m
                 PROVE  FALSE
    BY <1>1
  <2>2. m \in 0..Len(t) /\ n \in 0..Len(t) /\ n + 1 \in 1..m /\ Len(t) - n \in Nat \ {0}
    BY <1>1, <2>1
  <2>3. Len(Skip(t, n)) = Len(t) - n /\ Skip(t, n)[1] = t[n + 1]
    <3>1. 1 \in 1..(Len(t) - n)
      BY <2>2
    <3>2. QED
      BY <1>1, <3>1, SkipParts
  <2>4. r # <<>> /\ r[1] = t[n + 1]
    <3>1. Len(r) # 0
      BY <2>2, <2>3
    <3>2. QED
      BY <2>3, <3>1
  <2>5. n + 1 \in DOMAIN SubSeq(t, 1, m) /\ SubSeq(t, 1, m)[n + 1] = t[n + 1]
    BY <1>1, <2>2
  <2>6. t[n + 1] \in P
    BY <1>3, <2>5 DEF Chars
  <2>7. QED
    BY <2>4, <2>6
<1>4. most(n)
  BY <1>3
<1>5. \A k \in bare : most(k) => k = n
  <2> SUFFICES ASSUME NEW k \in bare, most(k)
               PROVE  k = n
    OBVIOUS
  <2>1. k <= n /\ n <= k
    BY <1>2, <1>3
  <2>2. k \in Int /\ n \in Int
    BY <1>1
  <2>3. QED
    BY <2>1, <2>2
<1>6. Stripped(s) = Skip(t, CHOOSE k \in bare : most(k))
  BY DEF Stripped
<1> HIDE DEF bare, most
<1>7. (CHOOSE k \in bare : most(k)) = n
  BY <1>2, <1>4, <1>5
<1>8. QED
  BY <1>6, <1>7

LEMMA StrippedType ==
  ASSUME NEW s \in String
  PROVE  Stripped(s) \in String
<1> DEFINE t    == Trim(s)
           bare == {k \in 0..Len(t) : Chars(SubSeq(t, 1, k)) \subseteq {Equal, LetterV}}
           most(k) == \A m \in bare : m <= k
           left == {Len(t) - k : k \in bare}
<1>1. t \in String /\ Len(t) \in Nat
  BY TrimLength, Characters
<1>2. 0 \in bare
  <2>1. SubSeq(t, 1, 0) = <<>>
    BY <1>1 DEF String
  <2>2. Chars(SubSeq(t, 1, 0)) = {}
    BY <2>1 DEF Chars
  <2>3. QED
    BY <1>1, <2>2
<1>3. \A k \in bare : k \in 0..Len(t)
  OBVIOUS
<1>4. Stripped(s) = Skip(t, CHOOSE k \in bare : most(k))
  BY DEF Stripped
<1> HIDE DEF bare, t
<1>5. left \subseteq Nat
  <2> SUFFICES ASSUME NEW k \in bare
               PROVE  Len(t) - k \in Nat
    BY Zenon
  <2>1. k \in 0..Len(t)
    BY <1>3
  <2>2. QED
    BY <1>1, <2>1
<1>6. PICK d \in left : \A e \in left : d <= e
  <2>1. left # {}
    BY <1>2
  <2> HIDE DEF left
  <2>2. QED
    BY <1>5, <2>1, LeastNatural
<1>7. PICK n \in bare : d = Len(t) - n
  BY <1>6
<1>8. most(n)
  <2> SUFFICES ASSUME NEW m \in bare
               PROVE  m <= n
    OBVIOUS
  <2>1. Len(t) - n <= Len(t) - m
    BY <1>6, <1>7
  <2>2. m \in 0..Len(t) /\ n \in 0..Len(t)
    BY <1>3
  <2>3. QED
    BY <1>1, <2>1, <2>2
<1> HIDE DEF most
<1>9. (CHOOSE k \in bare : most(k)) \in bare
  BY <1>8
<1>10. (CHOOSE k \in bare : most(k)) \in Nat
  BY <1>1, <1>3, <1>9
<1>11. QED
  BY <1>1, <1>4, <1>10, SkipLength

-----------------------------------------------------------------------------
(* The argument of parse(), which no step changes.                         *)

LEMMA ArgumentType ==
  ASSUME TypeOK
  PROVE  Argument \in String /\ Trim(Argument) \in String
<1>1. Argument \in String
  BY StrippedType DEF TypeOK, Argument
<1>2. QED
  BY <1>1, TrimLength

LEMMA CallStays ==
  ASSUME UNCHANGED <<call, input>>
  PROVE  /\ Argument' = Argument
         /\ Acceptable' <=> Acceptable
         /\ \A v : Reading(v)' <=> Reading(v)
<1>1. Argument' = Argument
  BY DEF Argument
<1>2. QED
  BY <1>1 DEF Acceptable, Reading

LEMMA InitParse ==
  ASSUME Init
  PROVE  ParseInv
<1>1. TypeOK
  <2>1. NoVersion \in Version
    BY SignTypes DEF NoVersion, Release, Version
  <2>2. QED
    BY <2>1, InputsAssumption DEF Init, TypeOK, Stages, Outcomes
<1>2. Cleaning
  BY DEF Init, Cleaning, Argument, Acceptable, FieldStages
<1>3. FieldsRead
  BY DEF Init, FieldsRead, NoVersion, Release, Chars
<1>4. Remaining /\ OnlyReading /\ Verdict
  BY DEF Init, Remaining, OnlyReading, Verdict
<1>5. QED
  BY <1>1, <1>2, <1>3, <1>4 DEF ParseInv

-----------------------------------------------------------------------------
(* Each step keeps the invariant.                                          *)

LEMMA StepTrimInput ==
  ASSUME ParseInv, TrimInput
  PROVE  ParseInv'
<1>1. TypeOK /\ Cleaning /\ FieldsRead /\ Remaining /\ OnlyReading /\ Verdict
  BY DEF ParseInv
<1>2. /\ outcome = "running" /\ stage = "trim" /\ stage' = "strip" /\ rest' = Trim(rest)
      /\ UNCHANGED <<call, input, version, outcome>>
  BY DEF TrimInput, At
<1>3. call = "clean" /\ rest = input /\ input \in String
  BY <1>1, <1>2 DEF Cleaning, TypeOK
<1>4. TypeOK'
  BY <1>1, <1>2, TrimLength DEF TypeOK, Stages
<1>5. Cleaning'
  <2> DEFINE t == Trim(input)
  <2>1. t \in String /\ Len(t) \in Nat
    BY <1>3, TrimLength, Characters
  <2>2. 0 \in 0..Len(t) /\ rest' = Skip(t, 0)
    BY <1>2, <1>3, <2>1, SkipNone
  <2>3. Chars(SubSeq(t, 1, 0)) = {}
    <3>1. SubSeq(t, 1, 0) = <<>>
      BY <2>1 DEF String
    <3>2. QED
      BY <3>1 DEF Chars
  <2> HIDE DEF t
  <2>4. \E n \in 0..Len(t) : rest' = Skip(t, n) /\ Chars(SubSeq(t, 1, n)) \subseteq {Equal, LetterV}
    BY <2>2, <2>3
  <2>5. QED
    BY <1>2, <1>3, <2>4 DEF Cleaning, FieldStages, t
<1>6. FieldsRead' /\ Remaining' /\ OnlyReading' /\ Verdict'
  BY <1>1, <1>2 DEF FieldsRead, Remaining, OnlyReading, Verdict
<1>7. QED
  BY <1>4, <1>5, <1>6 DEF ParseInv

(* Another '=' or 'v' is removed.                                          *)
LEMMA StepStripPrefix ==
  ASSUME ParseInv, StripPrefix
  PROVE  ParseInv'
<1>1. TypeOK /\ Cleaning /\ FieldsRead /\ Remaining /\ OnlyReading /\ Verdict
  BY DEF ParseInv
<1>2. /\ outcome = "running" /\ stage = "strip" /\ HasPrefix /\ rest' = Tail(rest)
      /\ UNCHANGED <<call, input, stage, version, outcome>>
  BY DEF StripPrefix, At
<1> DEFINE t == Trim(input)
           P == {Equal, LetterV}
<1>3. call = "clean" /\ rest \in String /\ t \in String /\ Len(t) \in Nat
  BY <1>1, <1>2, TrimLength, Characters DEF Cleaning, TypeOK
<1>4. PICK n \in 0..Len(t) : rest = Skip(t, n) /\ Chars(SubSeq(t, 1, n)) \subseteq P
  BY <1>1, <1>2 DEF Cleaning
<1>5. rest # <<>> /\ rest[1] \in P
  BY <1>2 DEF HasPrefix
<1>6. rest' \in String
  BY <1>2, <1>3, <1>5 DEF String
<1>7. TypeOK'
  BY <1>1, <1>2, <1>6 DEF TypeOK
<1>8. n + 1 \in 0..Len(t) /\ rest[1] = t[n + 1]
  <2>1. Len(rest) = Len(t) - n /\ \A i \in 1..(Len(t) - n) : rest[i] = t[n + i]
    BY <1>3, <1>4, SkipParts
  <2>2. Len(rest) # 0 /\ Len(rest) \in Nat
    BY <1>3, <1>5 DEF String
  <2>3. n \in 0..Len(t)
    OBVIOUS
  <2>4. 1 \in 1..(Len(t) - n)
    BY <1>3, <2>1, <2>2, <2>3
  <2>5. QED
    BY <1>3, <2>1, <2>3, <2>4
<1>9. rest' = Skip(t, n + 1)
  <2>1. rest' = Skip(rest, 1)
    BY <1>2, <1>3, <1>5 DEF Skip, String
  <2>2. \A m \in Nat : Skip(Skip(t, n), m) = Skip(t, n + m)
    BY <1>3, SkipParts
  <2>3. QED
    BY <1>4, <2>1, <2>2
<1>10. Chars(SubSeq(t, 1, n + 1)) \subseteq P
  <2> SUFFICES ASSUME NEW i \in DOMAIN SubSeq(t, 1, n + 1)
               PROVE  SubSeq(t, 1, n + 1)[i] \in P
    BY DEF Chars
  <2>1. i \in 1..(n + 1) /\ SubSeq(t, 1, n + 1)[i] = t[i]
    BY <1>3, <1>8 DEF String
  <2>2. CASE i = n + 1
    BY <1>5, <1>8, <2>1, <2>2
  <2>3. CASE i # n + 1
    <3>1. i \in DOMAIN SubSeq(t, 1, n) /\ SubSeq(t, 1, n)[i] = t[i]
      BY <1>3, <2>1, <2>3 DEF String
    <3>2. QED
      BY <1>4, <2>1, <3>1 DEF Chars
  <2>4. QED
    BY <2>2, <2>3
<1>11. Cleaning'
  <2> HIDE DEF t, P
  <2>1. \E m \in 0..Len(t) : rest' = Skip(t, m) /\ Chars(SubSeq(t, 1, m)) \subseteq P
    BY <1>8, <1>9, <1>10
  <2>2. QED
    BY <1>2, <1>3, <2>1 DEF Cleaning, FieldStages, t, P
<1>12. FieldsRead' /\ Remaining' /\ OnlyReading' /\ Verdict'
  BY <1>1, <1>2 DEF FieldsRead, Remaining, OnlyReading, Verdict
<1>13. QED
  BY <1>7, <1>11, <1>12 DEF ParseInv

(* What is left at the end is the argument.                                *)
LEMMA StepCallParse ==
  ASSUME ParseInv, CallParse
  PROVE  ParseInv'
<1>1. TypeOK /\ Cleaning /\ FieldsRead /\ Remaining /\ OnlyReading /\ Verdict
  BY DEF ParseInv
<1>2. /\ outcome = "running" /\ stage = "strip" /\ Valid /\ ~HasPrefix /\ stage' = "length"
      /\ UNCHANGED <<call, input, rest, version, outcome>>
  BY DEF CallParse, At
<1>3. call = "clean" /\ input \in String
  BY <1>1, <1>2 DEF Cleaning, TypeOK
<1>4. PICK n \in 0..Len(Trim(input)) :
        rest = Skip(Trim(input), n) /\ Chars(SubSeq(Trim(input), 1, n)) \subseteq {Equal, LetterV}
  BY <1>1, <1>2 DEF Cleaning
<1>5. rest = Argument
  <2>1. rest = <<>> \/ rest[1] \notin {Equal, LetterV}
    BY <1>2 DEF HasPrefix
  <2>2. Stripped(input) = rest
    BY <1>3, <1>4, <2>1, StrippedIs
  <2>3. QED
    BY <1>3, <2>2 DEF Argument
<1>6. Acceptable
  BY <1>2, <1>5, CharacterFacts DEF Valid, Acceptable
<1>7. TypeOK'
  BY <1>1, <1>2 DEF TypeOK, Stages
<1>8. Cleaning'
  BY <1>2, <1>5, <1>6, CallStays DEF Cleaning, FieldStages
<1>9. FieldsRead' /\ Remaining' /\ OnlyReading' /\ Verdict'
  BY <1>1, <1>2 DEF FieldsRead, Remaining, OnlyReading, Verdict
<1>10. QED
  BY <1>7, <1>8, <1>9 DEF ParseInv

(* A test fails only when the argument is not the text of a version.       *)
LEMMA StepReject ==
  ASSUME ParseInv, Reject
  PROVE  ParseInv'
<1>1. TypeOK /\ Cleaning /\ FieldsRead /\ Remaining /\ OnlyReading /\ Verdict
  BY DEF ParseInv
<1>2. /\ outcome = "running" /\ ~Valid /\ outcome' = "INVALID_INPUT"
      /\ UNCHANGED <<call, input, stage, rest, version>>
  BY DEF Reject
<1>3. TypeOK'
  BY <1>1, <1>2 DEF TypeOK, Outcomes
<1>4. Argument \in String /\ input \in String /\ rest \in String /\ stage \in Stages
  BY <1>1, ArgumentType DEF TypeOK
<1>5. Acceptable => \A v : ~Reading(v)
  <2> SUFFICES ASSUME Acceptable, NEW v, Reading(v)
               PROVE  FALSE
    OBVIOUS
  <2>1. v \in Version /\ IsVersion(v) /\ ToText(v) = Trim(Argument)
    BY DEF Reading
  <2>2. Trim(Argument) # <<>> /\ Trim(Argument)[1] \in Digit
    BY <2>1, TextStarts
  <2>3. CASE stage = "trim"
    <3>1. call = "clean" /\ rest = input /\ Trim(input) = <<>>
      BY <1>1, <1>2, <2>3 DEF Cleaning, Valid
    <3>2. Argument = <<>>
      <4>1. Len(Trim(input)) = 0 /\ 0 \in 0..0
        BY <3>1
      <4>2. Skip(Trim(input), 0) = <<>> /\ SubSeq(Trim(input), 1, 0) = <<>>
        BY <3>1 DEF Skip
      <4>3. Chars(SubSeq(Trim(input), 1, 0)) \subseteq {Equal, LetterV}
        BY <4>2 DEF Chars
      <4>4. Stripped(input) = <<>>
        BY <1>4, <4>1, <4>2, <4>3, StrippedIs
      <4>5. QED
        BY <3>1, <4>4 DEF Argument
    <3>3. Trim(Argument) = <<>>
      BY <1>4, <3>2, TrimBlank
    <3>4. QED
      BY <2>2, <3>3
  <2>4. CASE stage = "strip"
    <3>1. rest # <<>> /\ rest[1] \notin Digit \cup {Equal, LetterV} /\ call = "clean"
      BY <1>1, <1>2, <2>4 DEF Cleaning, Valid
    <3>2. PICK n \in 0..Len(Trim(input)) :
            rest = Skip(Trim(input), n) /\ Chars(SubSeq(Trim(input), 1, n)) \subseteq {Equal, LetterV}
      BY <1>1, <1>2, <2>4 DEF Cleaning
    <3>3. Argument = rest
      <4>1. Stripped(input) = rest
        BY <1>4, <3>1, <3>2, StrippedIs
      <4>2. QED
        BY <3>1, <4>1 DEF Argument
    <3>4. rest[1] # Space
      BY <3>1, <3>3 DEF Acceptable
    <3>5. rest[Len(rest)] # Space
      <4> DEFINE t == Trim(input)
      <4>1. t \in String /\ Len(t) \in Nat /\ n \in 0..Len(t)
        BY <1>4, TrimLength, Characters
      <4>2. Len(rest) = Len(t) - n /\ \A i \in 1..(Len(t) - n) : rest[i] = t[n + i]
        BY <3>2, <4>1, SkipParts
      <4>3. Len(rest) # 0 /\ Len(rest) \in Nat
        BY <1>4, <3>1 DEF String
      <4> HIDE DEF t
      <4>4. Len(rest) \in 1..(Len(t) - n) /\ n + Len(rest) = Len(t) /\ Len(t) # 0
        <5>1. Len(t) \in Nat /\ n \in 0..Len(t) /\ Len(rest) = Len(t) - n /\ Len(rest) \in Nat /\ Len(rest) # 0
          BY <4>1, <4>2, <4>3
        <5> DEFINE x == Len(t)
                   y == Len(rest)
        <5> HIDE DEF x, y
        <5>2. x \in Nat /\ n \in 0..x /\ y = x - n /\ y \in Nat /\ y # 0
          BY <5>1 DEF x, y
        <5>3. y \in 1..(x - n) /\ n + y = x /\ x # 0
          BY <5>2
        <5>4. QED
          BY <5>3 DEF x, y
      <4>5. rest[Len(rest)] = t[Len(t)] /\ t # <<>>
        BY <4>2, <4>4
      <4>6. QED
        BY <1>4, <4>5, TrimEnds DEF t
    <3>6. Trim(Argument) = rest
      BY <1>4, <3>3, <3>4, <3>5, TrimSettled
    <3>7. QED
      BY <2>2, <3>1, <3>6
  <2>5. CASE stage = "length"
    BY <1>2, <2>5 DEF Valid
  <2>6. CASE stage \in FieldStages
    <3>1. Valid
      BY <1>1, <1>2, <2>1, <2>6, ReadingIsValid
    <3>2. QED
      BY <1>2, <3>1
  <2>7. QED
    BY <1>4, <2>3, <2>4, <2>5, <2>6 DEF Stages, FieldStages
<1>6. Verdict'
  <2>1. Argument' = Argument /\ (Acceptable' <=> Acceptable) /\ \A v : Reading(v)' <=> Reading(v)
    BY <1>2, CallStays
  <2>2. QED
    BY <1>2, <1>5, <2>1 DEF Verdict
<1>7. Cleaning' /\ FieldsRead' /\ Remaining' /\ OnlyReading'
  BY <1>2 DEF Cleaning, FieldsRead, Remaining, OnlyReading
<1>8. QED
  BY <1>3, <1>6, <1>7 DEF ParseInv

LEMMA StepRejectTooLong ==
  ASSUME ParseInv, RejectTooLong
  PROVE  ParseInv'
<1>1. TypeOK /\ Cleaning
  BY DEF ParseInv
<1>2. /\ outcome = "running" /\ stage = "length" /\ Len(rest) > MaxLength
      /\ outcome' = "VERSION_LARGER_THAN_MAX_LENGTH"
      /\ UNCHANGED <<call, input, stage, rest, version>>
  BY DEF RejectTooLong, At
<1>3. TypeOK'
  BY <1>1, <1>2 DEF TypeOK, Outcomes
<1>4. Verdict'
  <2>1. Len(Argument) > MaxLength
    BY <1>1, <1>2 DEF Cleaning
  <2>2. Argument' = Argument
    BY <1>2, CallStays
  <2>3. QED
    BY <1>2, <2>1, <2>2 DEF Verdict
<1>5. Cleaning' /\ FieldsRead' /\ Remaining' /\ OnlyReading'
  BY <1>2 DEF Cleaning, FieldsRead, Remaining, OnlyReading
<1>6. QED
  BY <1>3, <1>4, <1>5 DEF ParseInv

LEMMA StepAcceptLength ==
  ASSUME ParseInv, AcceptLength
  PROVE  ParseInv'
<1>1. TypeOK /\ Cleaning /\ FieldsRead /\ Verdict
  BY DEF ParseInv
<1>2. /\ outcome = "running" /\ stage = "length" /\ Len(rest) <= MaxLength
      /\ rest' = Trim(rest) /\ stage' = "major"
      /\ UNCHANGED <<call, input, version, outcome>>
  BY DEF AcceptLength, At
<1>3. Argument' = Argument /\ (Acceptable' <=> Acceptable) /\ \A v : Reading(v)' <=> Reading(v)
  BY <1>2, CallStays
<1>4. rest = Argument /\ Acceptable
  BY <1>1, <1>2 DEF Cleaning
<1>5. TypeOK'
  BY <1>1, <1>2, TrimLength DEF TypeOK, Stages
<1>6. Cleaning'
  BY <1>2, <1>3, <1>4 DEF Cleaning, FieldStages
<1>7. FieldsRead'
  BY <1>1, <1>2 DEF FieldsRead
<1>8. Remaining'
  BY <1>2, <1>3, <1>4 DEF Remaining
<1>9. OnlyReading'
  <2> SUFFICES ASSUME NEW v \in Version, Reading(v)
               PROVE  rest' = FromMajor(v)
    BY <1>2, <1>3 DEF OnlyReading
  <2>1. ToText(v) = Trim(Argument)
    BY DEF Reading
  <2>2. QED
    BY <1>2, <1>4, <2>1, TextFrom
<1>10. Verdict'
  BY <1>1, <1>2 DEF Verdict
<1>11. QED
  BY <1>5, <1>6, <1>7, <1>8, <1>9, <1>10 DEF ParseInv

LEMMA StepTakeMajor ==
  ASSUME ParseInv, TakeMajor
  PROVE  ParseInv'
<1> DEFINE D == {Dot}
<1>1. TypeOK /\ Cleaning /\ FieldsRead /\ Remaining /\ OnlyReading /\ Verdict
  BY DEF ParseInv
<1>2. /\ outcome = "running" /\ stage = "major" /\ Valid /\ stage' = "minor"
      /\ version' = [version EXCEPT !.major = Before(rest, D)] /\ rest' = After(rest, D)
      /\ UNCHANGED <<call, input, outcome>>
  BY DEF TakeMajor, At
<1>3. Found(rest, D) /\ Before(rest, D) # <<>> /\ rest[1] # 0 /\ OnlyDigits(Before(rest, D))
  BY <1>2 DEF Valid
<1>4. rest \in String /\ version \in Version
  BY <1>1 DEF TypeOK
<1>5. Before(rest, D) \in String /\ After(rest, D) \in String
  BY <1>4, CutsType
<1>6. Argument' = Argument /\ (Acceptable' <=> Acceptable) /\ \A v : Reading(v)' <=> Reading(v)
  BY <1>2, CallStays
<1>7. Before(rest, D)[1] # 0
  BY <1>3, <1>4, BeforeStarts
<1>8. rest = Before(rest, D) \o (<<Dot>> \o After(rest, D))
  <2>1. rest[Find(rest, D)] = Dot
    BY <1>3, <1>4, FoundParts, ZenonT(60)
  <2>2. QED
    BY <1>3, <1>4, <2>1, FoundParts
<1> HIDE DEF D
<1>9. /\ version' \in Version /\ version'.major = Before(rest, D)
      /\ version'.pre = version.pre /\ version'.build = version.build
  BY <1>2, <1>4, <1>5 DEF Version
<1>10. TypeOK'
  BY <1>1, <1>2, <1>5, <1>9 DEF TypeOK, Stages
<1>11. Cleaning'
  BY <1>1, <1>2, <1>6 DEF Cleaning, FieldStages
<1>12. FieldsRead'
  BY <1>1, <1>2, <1>3, <1>7, <1>9 DEF FieldsRead, IsNumber
<1>13. Remaining'
  BY <1>1, <1>2, <1>6, <1>8, <1>9 DEF Remaining
<1>14. OnlyReading'
  <2> SUFFICES ASSUME NEW v \in Version, Reading(v)
               PROVE  v.major = version'.major /\ rest' = FromMinor(v)
    BY <1>2, <1>6 DEF OnlyReading
  <2>1. rest = FromMajor(v) /\ OnlyDigits(v.major)
    BY <1>1, <1>2, VersionDigits DEF OnlyReading, Reading
  <2>2. CutsInto(rest, D, v.major, Dot, FromMinor(v))
    BY <2>1, ReadMajor DEF D
  <2>3. QED
    BY <1>2, <1>9, <2>2 DEF CutsInto
<1>15. Verdict'
  BY <1>1, <1>2 DEF Verdict
<1>16. QED
  BY <1>10, <1>11, <1>12, <1>13, <1>14, <1>15 DEF ParseInv

LEMMA StepTakeMinor ==
  ASSUME ParseInv, TakeMinor
  PROVE  ParseInv'
<1> DEFINE D == {Dot}
<1>1. TypeOK /\ Cleaning /\ FieldsRead /\ Remaining /\ OnlyReading /\ Verdict
  BY DEF ParseInv
<1>2. /\ outcome = "running" /\ stage = "minor" /\ Valid /\ stage' = "patch"
      /\ version' = [version EXCEPT !.minor = Before(rest, D)] /\ rest' = After(rest, D)
      /\ UNCHANGED <<call, input, outcome>>
  BY DEF TakeMinor, At
<1>3. Found(rest, D) /\ IsNumber(Before(rest, D))
  BY <1>2, NumberIs DEF Valid
<1>4. rest \in String /\ version \in Version
  BY <1>1 DEF TypeOK
<1>5. Before(rest, D) \in String /\ After(rest, D) \in String
  BY <1>4, CutsType
<1>6. Argument' = Argument /\ (Acceptable' <=> Acceptable) /\ \A v : Reading(v)' <=> Reading(v)
  BY <1>2, CallStays
<1>7. rest = Before(rest, D) \o (<<Dot>> \o After(rest, D))
  <2>1. rest[Find(rest, D)] = Dot
    BY <1>3, <1>4, FoundParts, ZenonT(60)
  <2>2. QED
    BY <1>3, <1>4, <2>1, FoundParts
<1> HIDE DEF D
<1>8. /\ version' \in Version /\ version'.minor = Before(rest, D) /\ version'.major = version.major
      /\ version'.pre = version.pre /\ version'.build = version.build
  BY <1>2, <1>4, <1>5 DEF Version
<1>9. TypeOK'
  BY <1>1, <1>2, <1>5, <1>8 DEF TypeOK, Stages
<1>10. Cleaning'
  BY <1>1, <1>2, <1>6 DEF Cleaning, FieldStages
<1>11. FieldsRead'
  BY <1>1, <1>2, <1>3, <1>8 DEF FieldsRead
<1>12. Remaining'
  BY <1>1, <1>2, <1>6, <1>7, <1>8 DEF Remaining, Numbers2
<1>13. OnlyReading'
  <2> SUFFICES ASSUME NEW v \in Version, Reading(v)
               PROVE  v.major = version'.major /\ v.minor = version'.minor /\ rest' = FromPatch(v)
    BY <1>2, <1>6 DEF OnlyReading
  <2>1. rest = FromMinor(v) /\ OnlyDigits(v.minor) /\ v.major = version.major
    BY <1>1, <1>2, VersionDigits DEF OnlyReading, Reading
  <2>2. CutsInto(rest, D, v.minor, Dot, FromPatch(v))
    BY <2>1, ReadMinor DEF D
  <2>3. QED
    BY <1>2, <1>8, <2>1, <2>2 DEF CutsInto
<1>14. Verdict'
  BY <1>1, <1>2 DEF Verdict
<1>15. QED
  BY <1>9, <1>10, <1>11, <1>12, <1>13, <1>14 DEF ParseInv

LEMMA FieldsInText ==
  ASSUME NEW v \in Version
  PROVE  ToText(v) = Numbers2(v, FromPatch(v)) /\ ToText(v) = Numbers3(v, FromTail(v))
BY TextFrom DEF FromMajor, FromMinor, FromPatch, Numbers2, Numbers3

(* A call that ends with a version whose text is the argument.             *)
LEMMA EndsWithVersion ==
  ASSUME Acceptable, Len(Argument) <= MaxLength, UNCHANGED <<call, input>>, outcome' = "version",
         TypeOK', Reading(version')
  PROVE  ParseInv'
<1>1. Argument' = Argument /\ (Acceptable' <=> Acceptable) /\ \A v : Reading(v)' <=> Reading(v)
  BY CallStays
<1>2. Reading(version)' <=> Reading(version')
  BY <1>1 DEF Reading
<1>3. Verdict'
  BY <1>1, <1>2 DEF Verdict
<1>4. Cleaning' /\ FieldsRead' /\ Remaining' /\ OnlyReading'
  BY DEF Cleaning, FieldsRead, Remaining, OnlyReading
<1>5. QED
  BY <1>3, <1>4 DEF ParseInv

LEMMA StepTakePatch ==
  ASSUME ParseInv, TakePatch
  PROVE  ParseInv'
<1> DEFINE C == {Dash, Plus}
           c == rest[Find(rest, C)]
<1>1. TypeOK /\ Cleaning /\ FieldsRead /\ Remaining /\ OnlyReading /\ Verdict
  BY DEF ParseInv
<1>2. /\ outcome = "running" /\ stage = "patch" /\ Valid
      /\ version' = [version EXCEPT !.patch = Before(rest, C)]
      /\ UNCHANGED <<call, input>>
  BY DEF TakePatch, At
<1>3. /\ Found(rest, C) => /\ rest' = After(rest, C)
                           /\ stage' = IF c = Dash THEN "pre" ELSE "build"
                           /\ outcome' = outcome
      /\ ~Found(rest, C) => outcome' = "version" /\ rest' = rest /\ stage' = stage
  BY DEF TakePatch
<1>4. IsNumber(Before(rest, C))
  BY <1>2, NumberIs DEF Valid
<1>5. rest \in String /\ version \in Version
  BY <1>1 DEF TypeOK
<1>6. Before(rest, C) \in String /\ After(rest, C) \in String
  BY <1>5, CutsType
<1>7. Argument' = Argument /\ (Acceptable' <=> Acceptable) /\ \A v : Reading(v)' <=> Reading(v)
  BY <1>2, CallStays
<1>8. Found(rest, C) => (c = Dash \/ c = Plus) /\ rest = Before(rest, C) \o (<<c>> \o After(rest, C))
  <2>1. Found(rest, C) => c \in C
    BY <1>5, FoundParts
  <2>2. QED
    BY <1>5, <2>1, FoundParts
<1>9. ~Found(rest, C) => Before(rest, C) = rest
  BY <1>5, NotFound
<1> HIDE DEF C, c
<1>10. /\ version' \in Version /\ version'.patch = Before(rest, C)
       /\ version'.major = version.major /\ version'.minor = version.minor
       /\ version'.pre = version.pre /\ version'.build = version.build
  BY <1>2, <1>5, <1>6 DEF Version
<1>11. TypeOK'
  BY <1>1, <1>2, <1>3, <1>6, <1>10 DEF TypeOK, Stages, Outcomes
<1>12. version.pre = <<>> /\ version.build = <<>> /\ Acceptable /\ Len(Argument) <= MaxLength
  BY <1>1, <1>2 DEF FieldsRead, Cleaning, FieldStages
<1>13. Trim(Argument) = Numbers2(version, rest)
  BY <1>1, <1>2 DEF Remaining
<1>14. ASSUME NEW v \in Version, Reading(v)
       PROVE  /\ v.major = version.major /\ v.minor = version.minor /\ v.patch = version'.patch
              /\ v.pre # <<>> => CutsInto(rest, C, v.patch, Dash, FromPre(v))
              /\ v.pre = <<>> /\ v.build # <<>> => CutsInto(rest, C, v.patch, Plus, v.build)
              /\ v.pre = <<>> /\ v.build = <<>> => ~Found(rest, C)
  <2>1. rest = FromPatch(v) /\ OnlyDigits(v.patch) /\ v.major = version.major /\ v.minor = version.minor
    BY <1>1, <1>2, <1>14, VersionDigits DEF OnlyReading, Reading
  <2>2. /\ Before(rest, C) = v.patch
        /\ v.pre # <<>> => CutsInto(rest, C, v.patch, Dash, FromPre(v))
        /\ v.pre = <<>> /\ v.build # <<>> => CutsInto(rest, C, v.patch, Plus, v.build)
        /\ v.pre = <<>> /\ v.build = <<>> => ~Found(rest, C)
    BY <2>1, ReadPatch DEF C
  <2>3. QED
    BY <1>10, <2>1, <2>2
<1>15. CASE Found(rest, C)
  <2>1. Cleaning'
    BY <1>2, <1>3, <1>7, <1>12, <1>15 DEF Cleaning, FieldStages
  <2>2. FieldsRead'
    BY <1>1, <1>2, <1>3, <1>4, <1>10, <1>12, <1>15 DEF FieldsRead
  <2>3. Remaining'
    <3>1. Trim(Argument)' = Numbers2(version', version'.patch \o (<<c>> \o rest'))
      BY <1>3, <1>7, <1>8, <1>10, <1>13, <1>15 DEF Numbers2
    <3>2. CASE c = Dash
      BY <1>3, <1>15, <3>1, <3>2 DEF Remaining, Numbers3
    <3>3. CASE c # Dash
      <4>1. c = Plus
        BY <1>8, <1>15, <3>3
      <4>2. <<Plus>> \o rest' \in String
        BY <1>3, <1>6, <1>15, SignTypes, ConcatType
      <4>3. PreText(version') \o (<<Plus>> \o rest') = <<c>> \o rest'
        BY <1>10, <1>12, <4>1, <4>2, EmptyConcat DEF PreText
      <4>4. Trim(Argument)' = Numbers3(version', PreText(version') \o (<<Plus>> \o rest'))
        BY <3>1, <4>3 DEF Numbers3
      <4>5. QED
        BY <1>3, <1>15, <3>3, <4>4 DEF Remaining
    <3>4. QED
      BY <3>2, <3>3
  <2>4. OnlyReading'
    <3>1. ASSUME NEW v \in Version, Reading(v)
          PROVE  /\ c = Dash => v.pre # <<>> /\ rest' = FromPre(v)
                 /\ c # Dash => v.pre = <<>> /\ v.build # <<>> /\ rest' = v.build
      BY <1>3, <1>14, <1>15, <3>1, CharacterFacts DEF CutsInto, c
    <3> SUFFICES ASSUME NEW v \in Version, Reading(v)
                 PROVE  /\ v.major = version'.major /\ v.minor = version'.minor /\ v.patch = version'.patch
                        /\ c = Dash => v.pre # <<>> /\ rest' = FromPre(v)
                        /\ c # Dash => v.pre = version'.pre /\ v.build # <<>> /\ rest' = v.build
      BY <1>3, <1>7, <1>15 DEF OnlyReading
    <3>2. QED
      BY <1>10, <1>12, <1>14, <3>1
  <2>5. Verdict'
    BY <1>2, <1>3, <1>15 DEF Verdict
  <2>6. QED
    BY <1>11, <2>1, <2>2, <2>3, <2>4, <2>5 DEF ParseInv
<1>16. CASE ~Found(rest, C)
  <2>1. FromPatch(version') = rest
    <3>1. FromTail(version') = <<>>
      BY <1>10, <1>12, TailCases
    <3>2. version'.patch = rest
      BY <1>9, <1>10, <1>16
    <3>3. QED
      BY <1>5, <3>1, <3>2, EmptyConcat DEF FromPatch
  <2>2. ToText(version') = Trim(Argument)
    <3>1. ToText(version') = Numbers2(version', rest)
      BY <1>10, <2>1, FieldsInText
    <3>2. QED
      BY <1>10, <1>13, <3>1 DEF Numbers2
  <2>3. IsVersion(version')
    BY <1>1, <1>2, <1>4, <1>10 DEF FieldsRead, IsVersion
  <2>4. Reading(version')
    BY <1>10, <2>2, <2>3 DEF Reading
  <2>5. QED
    BY <1>2, <1>3, <1>11, <1>12, <1>16, <2>4, EndsWithVersion
<1>17. QED
  BY <1>15, <1>16

LEMMA StepTakePreRelease ==
  ASSUME ParseInv, TakePreRelease
  PROVE  ParseInv'
<1> DEFINE E == {Plus}
<1>1. TypeOK /\ Cleaning /\ FieldsRead /\ Remaining /\ OnlyReading /\ Verdict
  BY DEF ParseInv
<1>2. /\ outcome = "running" /\ stage = "pre" /\ Valid
      /\ version' = [version EXCEPT !.pre = Before(rest, E)]
      /\ UNCHANGED <<call, input>>
  BY DEF TakePreRelease, At
<1>3. /\ Found(rest, E) => rest' = After(rest, E) /\ stage' = "build" /\ outcome' = outcome
      /\ ~Found(rest, E) => outcome' = "version" /\ rest' = rest /\ stage' = stage
  BY DEF TakePreRelease
<1>4. Before(rest, E) # <<>>
  BY <1>2 DEF Valid
<1>5. rest \in String /\ version \in Version
  BY <1>1 DEF TypeOK
<1>6. Before(rest, E) \in String /\ After(rest, E) \in String
  BY <1>5, CutsType
<1>7. Argument' = Argument /\ (Acceptable' <=> Acceptable) /\ \A v : Reading(v)' <=> Reading(v)
  BY <1>2, CallStays
<1>8. Found(rest, E) => rest = Before(rest, E) \o (<<Plus>> \o After(rest, E))
  <2>1. Found(rest, E) => rest[Find(rest, E)] = Plus
    BY <1>5, FoundParts, ZenonT(60)
  <2>2. QED
    BY <1>5, <2>1, FoundParts
<1>9. Plus \notin Chars(Before(rest, E))
  BY <1>5, FoundParts, NotFound
<1>10. ~Found(rest, E) => Before(rest, E) = rest
  BY <1>5, NotFound
<1> HIDE DEF E
<1>11. /\ version' \in Version /\ version'.pre = Before(rest, E)
       /\ version'.major = version.major /\ version'.minor = version.minor
       /\ version'.patch = version.patch /\ version'.build = version.build
  BY <1>2, <1>5, <1>6 DEF Version
<1>12. TypeOK'
  BY <1>1, <1>2, <1>3, <1>6, <1>11 DEF TypeOK, Stages, Outcomes
<1>13. version.build = <<>> /\ Acceptable /\ Len(Argument) <= MaxLength
  BY <1>1, <1>2 DEF FieldsRead, Cleaning, FieldStages
<1>14. Trim(Argument) = Numbers3(version, <<Dash>> \o rest)
  BY <1>1, <1>2 DEF Remaining
<1>15. PreText(version') = <<Dash>> \o Before(rest, E)
  BY <1>4, <1>11 DEF PreText
<1>16. CASE Found(rest, E)
  <2>1. Cleaning'
    BY <1>2, <1>3, <1>7, <1>13, <1>16 DEF Cleaning, FieldStages
  <2>2. FieldsRead'
    BY <1>1, <1>2, <1>3, <1>9, <1>11, <1>13, <1>16 DEF FieldsRead
  <2>3. Remaining'
    <3>1. <<Dash>> \in String /\ Before(rest, E) \in String /\ <<Plus>> \o rest' \in String
      BY <1>3, <1>6, <1>16, SignTypes, ConcatType
    <3>2. (<<Dash>> \o Before(rest, E)) \o (<<Plus>> \o rest') = <<Dash>> \o (Before(rest, E) \o (<<Plus>> \o rest'))
      BY <3>1, ConcatAssociates
    <3>3. PreText(version') \o (<<Plus>> \o rest') = <<Dash>> \o rest
      BY <1>3, <1>8, <1>15, <1>16, <3>2
    <3>4. Trim(Argument)' = Numbers3(version', PreText(version') \o (<<Plus>> \o rest'))
      BY <1>7, <1>11, <1>14, <3>3 DEF Numbers3, Numbers2
    <3>5. QED
      BY <1>3, <1>16, <3>4 DEF Remaining
  <2>4. OnlyReading'
    <3> SUFFICES ASSUME NEW v \in Version, Reading(v)
                 PROVE  /\ v.major = version'.major /\ v.minor = version'.minor /\ v.patch = version'.patch
                        /\ v.pre = version'.pre /\ v.build # <<>> /\ rest' = v.build
      BY <1>3, <1>7, <1>16 DEF OnlyReading
    <3>1. /\ v.major = version.major /\ v.minor = version.minor /\ v.patch = version.patch
          /\ rest = FromPre(v) /\ Plus \notin Chars(v.pre)
      BY <1>1, <1>2, VersionDigits DEF OnlyReading, Reading
    <3>2. /\ Before(rest, E) = v.pre
          /\ v.build # <<>> => CutsInto(rest, E, v.pre, Plus, v.build)
          /\ v.build = <<>> => ~Found(rest, E)
      BY <3>1, ReadPre DEF E
    <3>3. QED
      BY <1>3, <1>11, <1>16, <3>1, <3>2 DEF CutsInto
  <2>5. Verdict'
    BY <1>2, <1>3, <1>16 DEF Verdict
  <2>6. QED
    BY <1>12, <2>1, <2>2, <2>3, <2>4, <2>5 DEF ParseInv
<1>17. CASE ~Found(rest, E)
  <2>1. version'.pre = rest /\ version'.build = <<>> /\ version'.pre # <<>>
    BY <1>4, <1>10, <1>11, <1>13, <1>17
  <2>2. FromTail(version') = <<Dash>> \o rest
    <3>1. FromPre(version') = rest
      BY <1>5, <2>1, EmptyConcat DEF FromPre, FromBuild
    <3>2. QED
      BY <1>11, <2>1, <3>1, TailCases
  <2>3. ToText(version') = Trim(Argument)
    <3>1. ToText(version') = Numbers3(version', <<Dash>> \o rest)
      BY <1>11, <2>2, FieldsInText
    <3>2. QED
      BY <1>11, <1>14, <3>1 DEF Numbers3, Numbers2
  <2>4. IsVersion(version')
    BY <1>1, <1>2, <1>9, <1>11 DEF FieldsRead, IsVersion
  <2>5. Reading(version')
    BY <1>11, <2>3, <2>4 DEF Reading
  <2>6. QED
    BY <1>2, <1>3, <1>12, <1>13, <1>17, <2>5, EndsWithVersion
<1>18. QED
  BY <1>16, <1>17

LEMMA StepTakeBuild ==
  ASSUME ParseInv, TakeBuild
  PROVE  ParseInv'
<1>1. TypeOK /\ Cleaning /\ FieldsRead /\ Remaining
  BY DEF ParseInv
<1>2. /\ outcome = "running" /\ stage = "build" /\ rest # <<>> /\ outcome' = "version"
      /\ version' = [version EXCEPT !.build = rest]
      /\ UNCHANGED <<call, input, stage, rest>>
  BY DEF TakeBuild, At, Valid
<1>3. rest \in String /\ version \in Version
  BY <1>1 DEF TypeOK
<1>4. /\ version' \in Version /\ version'.build = rest
      /\ version'.major = version.major /\ version'.minor = version.minor
      /\ version'.patch = version.patch /\ version'.pre = version.pre
  BY <1>2, <1>3 DEF Version
<1>5. TypeOK'
  BY <1>1, <1>2, <1>4 DEF TypeOK, Outcomes
<1>6. FromTail(version') = PreText(version) \o (<<Plus>> \o rest)
  <2>1. FromBuild(version') = <<Plus>> \o rest
    BY <1>2, <1>4 DEF FromBuild
  <2>2. FromTail(version') = PreText(version') \o FromBuild(version')
    BY DEF FromTail, PreText
  <2>3. PreText(version') = PreText(version)
    BY <1>4 DEF PreText
  <2>4. QED
    BY <2>1, <2>2, <2>3
<1>7. ToText(version') = Trim(Argument)
  <2>1. ToText(version') = Numbers3(version', PreText(version) \o (<<Plus>> \o rest))
    BY <1>4, <1>6, FieldsInText
  <2>2. Trim(Argument) = Numbers3(version, PreText(version) \o (<<Plus>> \o rest))
    BY <1>1, <1>2 DEF Remaining
  <2>3. QED
    BY <1>4, <2>1, <2>2 DEF Numbers3, Numbers2
<1>8. IsVersion(version')
  BY <1>1, <1>2, <1>4 DEF FieldsRead, IsVersion
<1>9. Reading(version')
  BY <1>4, <1>7, <1>8 DEF Reading
<1>10. Acceptable /\ Len(Argument) <= MaxLength
  BY <1>1, <1>2 DEF Cleaning, FieldStages
<1>11. QED
  BY <1>2, <1>5, <1>9, <1>10, EndsWithVersion

LEMMA StepIdle ==
  ASSUME ParseInv, UNCHANGED vars
  PROVE  ParseInv'
<1>1. UNCHANGED <<call, input, stage, rest, version, outcome>>
  BY DEF vars
<1>2. Argument' = Argument /\ (Acceptable' <=> Acceptable) /\ \A v : Reading(v)' <=> Reading(v)
  BY <1>1, CallStays
<1>3. TypeOK' /\ FieldsRead'
  BY <1>1 DEF ParseInv, TypeOK, FieldsRead
<1>4. Cleaning' /\ Remaining'
  BY <1>1, <1>2 DEF ParseInv, Cleaning, Remaining
<1>5. OnlyReading'
  BY <1>1, <1>2 DEF ParseInv, OnlyReading
<1>6. Verdict'
  <2>1. Reading(version)' <=> Reading(version)
    BY <1>1, <1>2 DEF Reading
  <2>2. QED
    BY <1>1, <1>2, <2>1 DEF ParseInv, Verdict
<1>7. QED
  BY <1>3, <1>4, <1>5, <1>6 DEF ParseInv

LEMMA ParseInductive ==
  Spec => []ParseInv
<1>1. ASSUME ParseInv, [Next]_vars
      PROVE  ParseInv'
  BY <1>1, StepTrimInput, StepStripPrefix, StepCallParse, StepRejectTooLong, StepAcceptLength, StepReject,
     StepTakeMajor, StepTakeMinor, StepTakePatch, StepTakePreRelease, StepTakeBuild, StepIdle DEF Next
<1>2. QED
  BY <1>1, InitParse, PTL DEF Spec

-----------------------------------------------------------------------------
(* The theorems.                                                           *)

(* Every variable of parse() and clean() keeps its type: what is left to   *)
(* read is a string and the fields read are a version, up to the end.      *)
THEOREM TypeCorrect == Spec => []TypeOK
<1>1. ParseInv => TypeOK
  BY DEF ParseInv
<1>2. QED
  BY <1>1, ParseInductive, PTL

(* parse() and clean() return the version that the trimmed argument is the *)
(* text of, and an error when it is not the text of any or too long: the   *)
(* tests of the fields, from left to right, decide the grammar.            *)
THEOREM GrammarCorrect == Spec => []GrammarDecides
<1>1. ASSUME ParseInv
      PROVE  GrammarDecides
  <2>1. TypeOK /\ Verdict /\ Argument \in String
    BY <1>1, ArgumentType DEF ParseInv
  <2>2. CASE outcome = "version"
    <3>1. Reading(version) /\ Len(Argument) <= MaxLength /\ Acceptable
      BY <2>1, <2>2 DEF Verdict
    <3>2. Parsed(Argument) = version /\ version # NoVersion
      BY <2>1, <3>1, ParsedIs DEF Reading
    <3>3. Expected = Parsed(Argument)
      BY <3>1 DEF Expected, Acceptable
    <3>4. QED
      BY <2>2, <3>2, <3>3 DEF GrammarDecides
  <2>3. CASE outcome \notin {"running", "version"}
    <3>1. ~Acceptable \/ Len(Argument) > MaxLength \/ \A v : ~Reading(v)
      BY <2>1, <2>3 DEF Verdict, Reading
    <3>2. Acceptable => Parsed(Argument) = NoVersion
      BY <2>1, <3>1, ParsedNone DEF Reading
    <3>3. Expected = NoVersion
      BY <3>2 DEF Expected, Acceptable
    <3>4. QED
      BY <2>1, <2>3, <3>3 DEF GrammarDecides, TypeOK
  <2>4. QED
    BY <2>2, <2>3 DEF GrammarDecides
<1>2. QED
  BY <1>1, ParseInductive, PTL

LEMMA NumbersThen ==
  ASSUME NEW v \in Version, NEW t \in String, NEW r \in String
  PROVE  /\ Numbers2(v, t) \o r = Numbers2(v, t \o r)
         /\ Numbers3(v, t) \o r = Numbers3(v, t \o r)
<1> DEFINE d == <<Dot>>
<1>1. d \in String /\ v.major \in String /\ v.minor \in String /\ v.patch \in String
  BY FieldTypes, SignTypes
<1> HIDE DEF d
<1>2. ASSUME NEW x \in String
      PROVE  Numbers2(v, x) \o r = Numbers2(v, x \o r)
  <2> DEFINE a == d \o x
             b == v.minor \o a
             c == d \o b
  <2>1. a \in String /\ b \in String /\ c \in String
    BY <1>1, ConcatType
  <2>2. a \o r = d \o (x \o r)
    <3>1. d \in String /\ x \in String /\ r \in String
      BY <1>1
    <3>2. QED
      BY <3>1, ConcatAssociates, ZenonT(60)
  <2> HIDE DEF a
  <2>3. b \o r = v.minor \o (a \o r)
    <3>1. v.minor \in String /\ a \in String /\ r \in String
      BY <1>1, <2>1
    <3>2. (v.minor \o a) \o r = v.minor \o (a \o r)
      BY <3>1, ConcatAssociates, ZenonT(60)
    <3>3. QED
      BY <3>2
  <2> HIDE DEF b
  <2>4. c \o r = d \o (b \o r)
    <3>1. d \in String /\ b \in String /\ r \in String
      BY <1>1, <2>1
    <3>2. (d \o b) \o r = d \o (b \o r)
      BY <3>1, ConcatAssociates, ZenonT(60)
    <3>3. QED
      BY <3>2
  <2> HIDE DEF c
  <2>5. (v.major \o c) \o r = v.major \o (c \o r)
    <3>1. v.major \in String /\ c \in String /\ r \in String
      BY <1>1, <2>1
    <3>2. QED
      BY <3>1, ConcatAssociates, ZenonT(60)
  <2>6. Numbers2(v, x) = v.major \o c
    BY DEF Numbers2, a, b, c, d
  <2>7. Numbers2(v, x \o r) = v.major \o (d \o (v.minor \o (d \o (x \o r))))
    BY DEF Numbers2, d
  <2>8. QED
    BY <2>2, <2>3, <2>4, <2>5, <2>6, <2>7
<1>3. v.patch \o t \in String /\ (v.patch \o t) \o r = v.patch \o (t \o r)
  <2>1. v.patch \in String /\ t \in String /\ r \in String
    BY <1>1
  <2>2. (v.patch \o t) \o r = v.patch \o (t \o r)
    BY <2>1, ConcatAssociates
  <2>3. QED
    BY <2>1, <2>2, ConcatType
<1>4. QED
  BY <1>2, <1>3 DEF Numbers3

(* Between two fields nothing of the string is lost or made up: the fields *)
(* and their signs, and the rest that parse() still holds, are the trimmed *)
(* argument, and the text of the version returned is the whole of it.      *)
THEOREM LossCorrect == Spec => []NothingLost
<1>1. ASSUME ParseInv
      PROVE  NothingLost
  <2>1. TypeOK /\ FieldsRead /\ Remaining /\ Verdict /\ rest \in String /\ version \in Version
    BY <1>1 DEF ParseInv, TypeOK
  <2> DEFINE d == <<Dot>>
  <2>2. /\ version.major \in String /\ version.minor \in String /\ d \in String
        /\ <<Dash>> \in String /\ <<Plus>> \in String /\ <<>> \in String
    BY <2>1, FieldTypes, SignTypes
  <2> HIDE DEF d
  <2>3. CASE outcome = "running" /\ stage = "major"
    BY <2>1, <2>3, EmptyConcat DEF NothingLost, Taken, Remaining
  <2>4. CASE outcome = "running" /\ stage = "minor"
    <3>1. (version.major \o d) \o rest = version.major \o (d \o rest)
      <4>1. version.major \in String /\ d \in String /\ rest \in String
        BY <2>1, <2>2
      <4>2. QED
        BY <4>1, ConcatAssociates
    <3>2. Taken \o rest = Trim(Argument)
      BY <2>1, <2>4, <3>1 DEF Taken, Remaining, d
    <3>3. QED
      BY <2>4, <3>2 DEF NothingLost
  <2>5. CASE outcome = "running" /\ stage = "patch"
    <3> DEFINE x == version.major \o d
               y == x \o version.minor
    <3>1. x \in String /\ y \in String /\ d \o rest \in String
      BY <2>1, <2>2, ConcatType
    <3> DEFINE w == d \o rest
    <3> HIDE DEF x, y
    <3>2. (y \o d) \o rest = y \o w
      <4>1. y \in String /\ d \in String /\ rest \in String
        BY <2>1, <2>2, <3>1
      <4>2. QED
        BY <4>1, ConcatAssociates
    <3> HIDE DEF w
    <3>3. (x \o version.minor) \o w = x \o (version.minor \o w)
      <4>1. x \in String /\ version.minor \in String /\ w \in String
        BY <2>2, <3>1 DEF w
      <4>2. QED
        BY <4>1, ConcatAssociates
    <3>4. (version.major \o d) \o (version.minor \o w) = version.major \o (d \o (version.minor \o w))
      <4>1. version.major \in String /\ d \in String /\ (version.minor \o w) \in String
        BY <2>2, <3>1, ConcatType DEF w
      <4>2. QED
        BY <4>1, ConcatAssociates
    <3>5. Taken \o rest = (y \o d) \o rest
      BY <2>5 DEF Taken, x, y, d
    <3>6. Trim(Argument) = version.major \o (d \o (version.minor \o w))
      BY <2>1, <2>5 DEF Remaining, Numbers2, d, w
    <3>7. Taken \o rest = Trim(Argument)
      BY <3>2, <3>3, <3>4, <3>5, <3>6 DEF x, y
    <3>8. QED
      BY <2>5, <3>7 DEF NothingLost
  <2>6. CASE outcome = "running" /\ stage \in {"pre", "build"}
    <3> DEFINE c == IF stage = "pre" THEN <<Dash>> ELSE <<Plus>>
               p == PreText(version)
    <3>1. /\ c \in String /\ c \o rest \in String /\ ToText(version) \in String
          /\ p \in String /\ p \o (c \o rest) \in String
      <4>1. c \in String /\ p \in String
        BY <2>1, <2>2, FieldTypes, ConcatType DEF PreText
      <4>2. ToText(version) \in String
        BY <2>1, TextFrom, FromTypes
      <4> HIDE DEF c, p
      <4>3. QED
        BY <2>1, <4>1, <4>2, ConcatType
    <3>2. Taken \o rest = (ToText(version) \o c) \o rest
      BY <2>6 DEF Taken
    <3> HIDE DEF c, p
    <3>3. (ToText(version) \o c) \o rest = ToText(version) \o (c \o rest)
      BY <2>1, <3>1, ConcatAssociates, ZenonT(60)
    <3>4. ToText(version) = Numbers3(version, p)
      <4>1. FromBuild(version) = <<>>
        BY <2>1, <2>6 DEF FieldsRead, FromBuild
      <4>2. FromTail(version) = p \o FromBuild(version)
        BY DEF FromTail, PreText, p
      <4>3. FromTail(version) = p
        BY <3>1, <4>1, <4>2, EmptyConcat
      <4>4. QED
        BY <2>1, <4>3, FieldsInText
    <3>5. ToText(version) \o (c \o rest) = Numbers3(version, p \o (c \o rest))
      <4>1. version \in Version /\ p \in String /\ c \o rest \in String
        BY <2>1, <3>1
      <4>2. Numbers3(version, p) \o (c \o rest) = Numbers3(version, p \o (c \o rest))
        BY <4>1, NumbersThen
      <4>3. QED
        BY <3>4, <4>2
    <3>6. Trim(Argument) = Numbers3(version, p \o (c \o rest))
      <4>1. CASE stage = "pre"
        <5>1. p = <<>> /\ c = <<Dash>>
          BY <2>1, <2>6, <4>1 DEF FieldsRead, PreText, p, c
        <5>2. p \o (c \o rest) = c \o rest
          BY <3>1, <5>1, EmptyConcat
        <5>3. QED
          BY <2>1, <2>6, <4>1, <5>1, <5>2 DEF Remaining
      <4>2. CASE stage = "build"
        BY <2>1, <2>6, <4>2 DEF Remaining, p, c
      <4>3. QED
        BY <2>6, <4>1, <4>2
    <3>7. Taken \o rest = Trim(Argument)
      BY <3>2, <3>3, <3>5, <3>6
    <3>8. QED
      BY <2>6, <3>7 DEF NothingLost
  <2>7. CASE outcome = "version"
    BY <2>1, <2>7 DEF NothingLost, Verdict, Reading
  <2>8. QED
    BY <2>3, <2>4, <2>5, <2>6, <2>7 DEF NothingLost
<1>2. QED
  BY <1>1, ParseInductive, PTL

(* Where parse() would return a version, clean() returns the same one, and *)
(* the text of what clean() returns parses to it: cleaning is settled      *)
(* after one time.                                                         *)
THEOREM CleanCorrect == Spec => []CleanExtendsParse
<1>1. ASSUME ParseInv
      PROVE  CleanExtendsParse
  <2>1. TypeOK /\ Verdict /\ Argument \in String /\ input \in String /\ version \in Version
    BY <1>1, ArgumentType DEF ParseInv, TypeOK
  <2>2. ASSUME call = "clean", outcome # "running", Parsed(input) # NoVersion
        PROVE  outcome = "version" /\ version = Parsed(input)
    <3> DEFINE t == Trim(input)
    <3>1. t \in String /\ Len(t) \in Nat /\ Len(input) \in Nat /\ Len(t) <= Len(input)
      BY <2>1, TrimLength, Characters
    <3>2. ~(Len(input) > MaxLength) /\ \E v \in Version : IsVersion(v) /\ ToText(v) = t
      BY <2>1, <2>2, ParsedNone
    <3>3. PICK v \in Version : IsVersion(v) /\ ToText(v) = t
      BY <3>2
    <3>4. t # <<>> /\ t[1] \in Digit
      BY <3>3, TextStarts
    <3>5. t[1] \notin {Equal, LetterV} /\ t[1] # Space
      BY <3>4, CharacterFacts
    <3>6. Argument = t
      <4>1. 0 \in 0..Len(t) /\ t = Skip(t, 0)
        BY <3>1, SkipNone
      <4>2. Chars(SubSeq(t, 1, 0)) \subseteq {Equal, LetterV}
        <5>1. SubSeq(t, 1, 0) = <<>>
          BY <3>1 DEF String
        <5>2. QED
          BY <5>1 DEF Chars
      <4>3. Stripped(input) = t
        BY <2>1, <3>5, <4>1, <4>2, StrippedIs
      <4>4. QED
        BY <2>2, <4>3 DEF Argument
    <3>7. Trim(Argument) = t
      BY <2>1, <3>6, TrimTwice
    <3>8. Acceptable
      BY <3>5, <3>6 DEF Acceptable
    <3>9. Reading(v)
      BY <3>3, <3>7 DEF Reading
    <3>10. Len(input) <= MaxLength /\ ~(Len(Argument) > MaxLength)
      BY <3>1, <3>2, <3>6, LengthAssumption
    <3>11. outcome = "version"
      BY <2>1, <2>2, <3>8, <3>9, <3>10 DEF Verdict
    <3>12. version = v
      <4>1. Reading(version)
        BY <2>1, <3>11 DEF Verdict
      <4>2. QED
        BY <3>3, <3>9, <4>1, OneReading DEF Reading
    <3>13. Parsed(input) = v
      BY <2>1, <3>3, <3>10, ParsedIs
    <3>14. QED
      BY <3>11, <3>12, <3>13
  <2>3. ASSUME outcome = "version"
        PROVE  Parsed(ToText(version)) = version
    <3> DEFINE s == ToText(version)
    <3>1. IsVersion(version) /\ s = Trim(Argument) /\ Len(Argument) <= MaxLength
      BY <2>1, <2>3 DEF Verdict, Reading
    <3>2. s \in String /\ Len(s) <= Len(Argument) /\ Trim(s) = s
      BY <2>1, <3>1, TrimLength, TrimTwice
    <3>3. Len(s) <= MaxLength
      BY <2>1, <3>1, <3>2, LengthAssumption, Characters
    <3>4. QED
      BY <2>1, <3>1, <3>2, <3>3, ParsedIs
  <2>4. QED
    BY <2>2, <2>3 DEF CleanExtendsParse
<1>2. QED
  BY <1>1, ParseInductive, PTL
=============================================================================
