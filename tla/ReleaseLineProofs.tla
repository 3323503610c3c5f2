------------------------- MODULE ReleaseLineProofs -------------------------
(***************************************************************************)
(* A release line goes up: what to_string writes of a number is the number *)
(* that parse() and operator<=> read, so that what inc() makes of a        *)
(* version is the next one, or no version at all.                          *)
(***************************************************************************)
EXTENDS ReleaseLine, VersionStringProofs

-----------------------------------------------------------------------------
(* Numerals.                                                               *)

(* The next number has one digit more at most.                             *)
LEMMA NextLength ==
  ASSUME NEW s \in String, IsNumber(s), NEW t \in String, IsNumber(t), Value(t) = Value(s) + 1
  PROVE  Len(t) <= Len(s) + 1
<1>1. Len(s) \in Nat \ {0} /\ Len(t) \in Nat \ {0} /\ DOMAIN t = 1..Len(t)
  BY Characters DEF IsNumber, String
<1>2. SUFFICES ASSUME Len(t) >= Len(s) + 2
               PROVE  FALSE
  BY <1>1
<1> DEFINE k == Len(t) - 1
           u == SubSeq(t, 1, k)
           d == t[Len(t)]
<1>3. k \in Nat \ {0} /\ k > Len(s) /\ Len(t) = k + 1
  BY <1>1, <1>2
<1>4. d \in Digit /\ OnlyDigits(t) /\ t[1] # 0
  BY <1>1, <1>3 DEF IsNumber, OnlyDigits, Chars
<1>5. u \in String /\ Len(u) = k /\ DOMAIN u = 1..k /\ \A i \in 1..k : u[i] = t[i]
  BY <1>1, <1>3 DEF String
<1>6. t = Append(u, d)
  BY <1>1, <1>3, <1>4, <1>5, CharacterFacts DEF String
<1> HIDE DEF u, d
<1>7. OnlyDigits(u)
  <2>1. \A i \in DOMAIN u : u[i] \in Digit
    BY <1>1, <1>3, <1>4, <1>5 DEF OnlyDigits, Chars
  <2>2. QED
    BY <2>1 DEF OnlyDigits, Chars
<1> HIDE DEF k
<1>8. u[1] # 0 /\ Len(s) < Len(u)
  BY <1>1, <1>3, <1>4, <1>5
<1>9. Value(s) < Value(u)
  BY <1>5, <1>7, <1>8, LongerIsGreater DEF IsNumber
<1>10. Value(t) = Value(u) * Base + d
  BY <1>4, <1>5, <1>6, <1>7, ValueAppended
<1>11. Value(s) \in Nat /\ Value(u) \in Nat
  BY <1>5, <1>7, ValueType DEF IsNumber
<1>12. d \in Nat /\ Base \in Nat /\ Base >= 2
  BY <1>4, BaseAssumption DEF Digit
<1>13. Value(u) * Base >= 2 * Value(u)
  BY <1>11, <1>12
<1>14. Value(u) * Base \in Nat
  BY <1>11, <1>12
<1>15. QED
  BY <1>9, <1>10, <1>11, <1>12, <1>13, <1>14

-----------------------------------------------------------------------------
(* What inc() makes of a number.                                           *)

(* Such a string parse() can find nothing in but a number: a number, or a  *)
(* '-' and digits.                                                         *)
Written(s) ==
  /\ s \in String /\ s # <<>>
  /\ Chars(s) \subseteq Digit \cup {Dash}
  /\ OnlyDigits(s) \/ s[1] = Dash

LEMMA NumberWritten ==
  ASSUME NEW s \in String, IsNumber(s)
  PROVE  Written(s)
  BY DEF Written, IsNumber, OnlyDigits

LEMMA DashWritten ==
  ASSUME NEW t \in String, OnlyDigits(t), NEW s, s = <<Dash>> \o t
  PROVE  Written(s) /\ ~IsNumber(s)
<1>1. Dash \in Char /\ <<Dash>> \in String /\ Dash \notin Digit
  BY CharacterFacts, SignTypes
<1>2. s \in String
  BY <1>1, ConcatType
<1>3. Len(t) \in Nat /\ DOMAIN t = 1..Len(t)
  BY Characters
<1>4. Len(s) = Len(t) + 1 /\ DOMAIN s = 1..Len(s) /\ s[1] = Dash
      /\ \A i \in 1..Len(t) : s[i + 1] = t[i]
  BY <1>1, <1>3 DEF String
<1>5. ASSUME NEW i \in DOMAIN s
      PROVE  s[i] \in Digit \cup {Dash}
  <2>1. i = 1 \/ (i - 1 \in 1..Len(t) /\ (i - 1) + 1 = i)
    BY <1>3, <1>4
  <2>2. \A k \in 1..Len(t) : t[k] \in Digit
    BY <1>3 DEF OnlyDigits, Chars
  <2>3. QED
    BY <1>4, <2>1, <2>2
<1>6. 1 \in DOMAIN s /\ s # <<>>
  BY <1>3, <1>4
<1>7. ~OnlyDigits(s)
  BY <1>1, <1>4, <1>6 DEF OnlyDigits, Chars
<1>8. QED
  BY <1>2, <1>4, <1>5, <1>6, <1>7 DEF Written, IsNumber, Chars

(* to_string of an int.                                                    *)
LEMMA NumeralType ==
  ASSUME NEW n \in Int
  PROVE  Written(NumToString(n)) /\ (n >= 0 => NumToString(n) = Digits(n))
<1>1. CASE n < 0
  <2>1. -n \in Nat /\ ~(n >= 0)
    BY <1>1
  <2>2. Digits(-n) \in String /\ IsNumber(Digits(-n))
    BY <2>1, DigitsNumber
  <2>3. NumToString(n) = <<Dash>> \o Digits(-n)
    BY <1>1 DEF NumToString
  <2>4. QED
    BY <2>1, <2>2, <2>3, DashWritten DEF IsNumber
<1>2. CASE n >= 0
  <2>1. n \in Nat /\ ~(n < 0)
    BY <1>2
  <2>2. NumToString(n) = Digits(n)
    BY <2>1 DEF NumToString
  <2>3. QED
    BY <2>1, <2>2, DigitsNumber, NumberWritten
<1>3. QED
  BY <1>1, <1>2

(* Whatever string it reads, increment writes an int.                      *)
LEMMA IncrementedType ==
  ASSUME NEW s \in String, ~FromCharsFails(s)
  PROVE  Written(Incremented(s))
<1>1. FromChars(s) \in Nat
  BY LeadingDigits, ValueType DEF FromChars
<1>2. Plus1(FromChars(s)) \in Int
  BY <1>1, IntAssumption DEF Plus1
<1>3. QED
  BY <1>2, NumeralType DEF Incremented

(* Of a number it writes the next one, if that is an int.                  *)
LEMMA IncrementedIs ==
  ASSUME NEW s \in String, IsNumber(s), ~FromCharsFails(s), NEW t, t = Incremented(s)
  PROVE  /\ ~Spent(s) => IsNumber(t)
         /\ IsNumber(t) => /\ t \in String
                           /\ Value(t) = Value(s) + 1
                           /\ Len(t) <= Len(s) + 1
                           /\ t[1] # 0
<1>1. Leading(s) = s
  BY LeadingDigits DEF IsNumber
<1>2. Value(s) \in Nat /\ FromChars(s) = Value(s)
  BY <1>1, ValueType DEF FromChars, IsNumber
<1>3. CASE FromChars(s) = IntMax
  <2>1. -(IntMax + 1) < 0 /\ -(-(IntMax + 1)) \in Nat
    BY IntAssumption
  <2>2. t = <<Dash>> \o Digits(-(-(IntMax + 1)))
    BY <1>3, <2>1 DEF Incremented, Plus1, NumToString
  <2>3. ~IsNumber(t)
    BY <2>1, <2>2, DigitsNumber, DashWritten DEF IsNumber
  <2>4. QED
    BY <1>3, <2>3 DEF Spent
<1>4. CASE FromChars(s) # IntMax
  <2>1. Value(s) + 1 \in Nat /\ Value(s) + 1 >= 0 /\ Value(s) + 1 \in Int
    BY <1>2
  <2>2. t = Digits(Value(s) + 1)
    <3>1. t = NumToString(Value(s) + 1)
      BY <1>2, <1>4 DEF Incremented, Plus1
    <3>2. QED
      BY <2>1, <3>1, NumeralType
  <2>3. t \in String /\ IsNumber(t) /\ Value(t) = Value(s) + 1
    BY <2>1, <2>2, DigitsNumber
  <2>4. Len(t) <= Len(s) + 1
    BY <2>3, NextLength
  <2>5. t[1] # 0
    BY <1>2, <2>3, NumberBegins
  <2>6. QED
    BY <2>3, <2>4, <2>5
<1>5. QED
  BY <1>3, <1>4

-----------------------------------------------------------------------------
(* What parse() makes of the text that inc() writes.                       *)

LEMMA WrittenFacts ==
  ASSUME NEW s, Written(s)
  PROVE  /\ s \in String /\ Len(s) \in Nat \ {0} /\ DOMAIN s = 1..Len(s)
         /\ s[1] # Space /\ s[Len(s)] # Space
         /\ Chars(s) \cap {Dot} = {}
<1>1. s \in String /\ s # <<>> /\ Chars(s) \subseteq Digit \cup {Dash}
  BY DEF Written
<1>2. Len(s) \in Nat \ {0} /\ DOMAIN s = 1..Len(s)
  BY <1>1, Characters DEF String
<1>3. Space \notin Digit \cup {Dash} /\ Dot \notin Digit \cup {Dash}
  BY CharacterFacts DEF Space, Dot, Dash
<1>4. 1 \in DOMAIN s /\ Len(s) \in DOMAIN s
  BY <1>2
<1>5. s[1] \in Chars(s) /\ s[Len(s)] \in Chars(s)
  BY <1>4 DEF Chars
<1>6. QED
  BY <1>1, <1>2, <1>3, <1>5

LEMMA ReleaseFields ==
  ASSUME NEW m \in String, NEW n \in String, NEW p \in String
  PROVE  LET x == Release(m, n, p)
         IN /\ x \in Version
            /\ x.major = m /\ x.minor = n /\ x.patch = p /\ x.pre = <<>> /\ x.build = <<>>
            /\ FromPatch(x) = p
            /\ FromMinor(x) = n \o (<<Dot>> \o p)
            /\ FromMajor(x) = m \o (<<Dot>> \o FromMinor(x))
            /\ ToText(x) = FromMajor(x)
<1> DEFINE x == Release(m, n, p)
<1>1. <<>> \in String
  BY SignTypes
<1>2. x \in Version
  BY <1>1 DEF Version, Release
<1>3. x.major = m /\ x.minor = n /\ x.patch = p /\ x.pre = <<>> /\ x.build = <<>>
  BY DEF Release
<1> HIDE DEF x
<1>4. FromTail(x) = <<>>
  BY <1>2, <1>3, TailCases
<1>5. FromPatch(x) = p
  BY <1>3, <1>4, EmptyConcat DEF FromPatch
<1>6. FromMinor(x) = n \o (<<Dot>> \o p)
  BY <1>3, <1>5 DEF FromMinor
<1>7. FromMajor(x) = m \o (<<Dot>> \o FromMinor(x))
  BY <1>3 DEF FromMajor
<1>8. ToText(x) = FromMajor(x)
  BY <1>2, TextFrom
<1>9. QED
  BY <1>2, <1>3, <1>5, <1>6, <1>7, <1>8 DEF x

(* It has ink at both ends.                                                *)
LEMMA ReleaseTrimmed ==
  ASSUME NEW m, Written(m), NEW n, Written(n), NEW p, Written(p), NEW s, s = ToText(Release(m, n, p))
  PROVE  /\ s \in String /\ Trim(s) = s
         /\ Len(s) = Len(m) + Len(n) + Len(p) + 2
<1>1. m \in String /\ n \in String /\ p \in String /\ Dot \in Char
  BY CharacterFacts DEF Written
<1> DEFINE q == n \o (<<Dot>> \o p)
<1>2. s = m \o (<<Dot>> \o q)
  <2> DEFINE x == Release(m, n, p)
  <2>1. FromMinor(x) = q
    BY <1>1, ReleaseFields, ZenonT(60)
  <2>2. FromMajor(x) = m \o (<<Dot>> \o FromMinor(x))
    BY <1>1, ReleaseFields, ZenonT(60)
  <2>3. s = FromMajor(x)
    BY <1>1, ReleaseFields, ZenonT(60)
  <2> HIDE DEF x, q
  <2>4. QED
    BY <2>1, <2>2, <2>3
<1>3. q \in String /\ Len(q) = Len(n) + 1 + Len(p)
      /\ \A i \in 1..Len(p) : q[Len(n) + 1 + i] = p[i]
  BY <1>1, Around, ZenonT(60)
<1> HIDE DEF q
<1>4. s \in String /\ Len(s) = Len(m) + 1 + Len(q)
      /\ (\A i \in 1..Len(m) : s[i] = m[i])
      /\ (\A i \in 1..Len(q) : s[Len(m) + 1 + i] = q[i])
  <2> DEFINE z == m \o (<<Dot>> \o q)
  <2>1. /\ z \in String /\ Len(z) = Len(m) + 1 + Len(q)
        /\ \A i \in 1..Len(m) : z[i] = m[i]
        /\ \A i \in 1..Len(q) : z[Len(m) + 1 + i] = q[i]
    BY <1>1, <1>3, Around, ZenonT(60)
  <2>2. QED
    BY <1>2, <2>1
<1>5. Len(m) \in Nat \ {0} /\ Len(n) \in Nat \ {0} /\ Len(p) \in Nat \ {0}
  BY WrittenFacts
<1>6. Len(q) \in 1..Len(q) /\ Len(p) \in 1..Len(p) /\ 1 \in 1..Len(m)
  BY <1>3, <1>5
<1>7. s[1] = m[1] /\ s[Len(s)] = p[Len(p)]
  BY <1>3, <1>4, <1>6
<1>8. s[1] # Space /\ s[Len(s)] # Space
  BY <1>7, WrittenFacts
<1>9. Len(s) = Len(m) + Len(n) + Len(p) + 2
  BY <1>3, <1>4, <1>5
<1>10. QED
  BY <1>4, <1>8, <1>9, TrimSettled

(* parse() finds the three strings in it, or nothing.                      *)
LEMMA ReleaseRead ==
  ASSUME NEW m, Written(m), NEW n, Written(n), NEW p, Written(p),
         NEW v \in Version, IsVersion(v), ToText(v) = ToText(Release(m, n, p))
  PROVE  v = Release(m, n, p)
<1> DEFINE x == Release(m, n, p)
<1>1. m \in String /\ n \in String /\ p \in String /\ Dot \in Char
  BY CharacterFacts DEF Written
<1>2. x \in Version /\ FromPatch(x) = p
      /\ FromMinor(x) = n \o (<<Dot>> \o p)
      /\ FromMajor(x) = m \o (<<Dot>> \o FromMinor(x))
      /\ ToText(x) = FromMajor(x)
  <2>1. x \in Version /\ FromPatch(x) = p
    BY <1>1, ReleaseFields
  <2>2. FromMinor(x) = n \o (<<Dot>> \o p)
    BY <1>1, ReleaseFields, ZenonT(60)
  <2>3. FromMajor(x) = m \o (<<Dot>> \o FromMinor(x))
    BY <1>1, ReleaseFields, ZenonT(60)
  <2>4. ToText(x) = FromMajor(x)
    BY <2>1, TextFrom
  <2> HIDE DEF x
  <2>5. QED
    BY <2>1, <2>2, <2>3, <2>4
<1>3. x.major = m /\ x.minor = n /\ x.patch = p /\ x.pre = <<>> /\ x.build = <<>>
  BY <1>1, ReleaseFields
<1> HIDE DEF x
<1>4. Chars(m) \cap {Dot} = {} /\ Chars(n) \cap {Dot} = {}
  BY WrittenFacts
<1>5. FromMajor(v) = FromMajor(x)
  BY <1>2, TextFrom DEF x
<1>6. FromMinor(x) \in String /\ FromPatch(x) \in String
  BY <1>2, FromTypes
<1>7. OnlyDigits(v.major) /\ OnlyDigits(v.minor) /\ OnlyDigits(v.patch)
  BY VersionDigits
<1>8. v.major = m /\ FromMinor(v) = FromMinor(x)
  <2>1. CutsInto(FromMajor(x), {Dot}, m, Dot, FromMinor(x))
    BY <1>1, <1>2, <1>4, <1>6, FindBehind
  <2>2. CutsInto(FromMajor(v), {Dot}, v.major, Dot, FromMinor(v))
    BY <1>7, ReadMajor
  <2>3. QED
    BY <1>5, <2>1, <2>2 DEF CutsInto
<1>9. v.minor = n /\ FromPatch(v) = p
  <2>1. CutsInto(FromMinor(x), {Dot}, n, Dot, p)
    BY <1>1, <1>2, <1>4, FindBehind
  <2>2. CutsInto(FromMinor(v), {Dot}, v.minor, Dot, FromPatch(v))
    BY <1>7, ReadMinor
  <2>3. QED
    BY <1>8, <2>1, <2>2 DEF CutsInto
<1> DEFINE C == {Dash, Plus}
<1>10. /\ Before(p, C) = v.patch
       /\ v.pre # <<>> => Found(p, C)
       /\ v.pre = <<>> /\ v.build # <<>> => Found(p, C)
  BY <1>7, <1>9, ReadPatch DEF CutsInto
<1>11. OnlyDigits(p)
  <2>1. SUFFICES ASSUME p[1] = Dash
                 PROVE  FALSE
    BY DEF Written
  <2>2. Len(p) \in Nat \ {0} /\ 1 \in 1..Len(p)
    BY WrittenFacts
  <2>3. Find(p, C) = 1
    <3>1. p[1] \in C /\ \A i \in 1..(1 - 1) : p[i] \notin C
      BY <2>1
    <3> HIDE DEF C
    <3>2. QED
      BY <1>1, <2>2, <3>1, FindIs
  <2>4. Before(p, C) = <<>>
    BY <1>1, <2>3 DEF Before, String
  <2>5. v.patch # <<>>
    BY DEF IsVersion, IsNumber
  <2>6. QED
    BY <1>10, <2>4, <2>5
<1>12. ~Found(p, C) /\ Before(p, C) = p
  <2>1. Chars(p) \cap C = {}
    BY <1>11, DigitsOnly
  <2>2. QED
    BY <1>1, <2>1, FindNone
<1>13. v.patch = p /\ v.pre = <<>> /\ v.build = <<>>
  BY <1>10, <1>12
<1>14. v = x
  BY <1>2, <1>3, <1>8, <1>9, <1>13, SameFields
<1>15. QED
  BY <1>14 DEF x

(* So parse() returns what inc() wrote, or nothing.                        *)
LEMMA ReleaseParsed ==
  ASSUME NEW m, Written(m), NEW n, Written(n), NEW p, Written(p),
         NEW x, x = Release(m, n, p), NEW s, s = ToText(x)
  PROVE  /\ x \in Version /\ s \in String
         /\ Len(s) = Len(m) + Len(n) + Len(p) + 2
         /\ Parsed(s) # NoVersion => Parsed(s) = x /\ IsVersion(x)
         /\ IsVersion(x) /\ Len(s) <= MaxLength => Parsed(s) # NoVersion
<1>1. m \in String /\ n \in String /\ p \in String
  BY DEF Written
<1>2. x \in Version
  BY <1>1, ReleaseFields
<1>3. s \in String /\ Trim(s) = s /\ Len(s) = Len(m) + Len(n) + Len(p) + 2
  BY ReleaseTrimmed
<1>4. IsVersion(x) /\ Len(s) <= MaxLength => Parsed(s) # NoVersion
  BY <1>2, <1>3, ParsedIs
<1>5. ASSUME Parsed(s) # NoVersion
      PROVE  Parsed(s) = x /\ IsVersion(x)
  <2>1. PICK v \in Version : IsVersion(v) /\ ToText(v) = s
    BY <1>3, <1>5, ParsedNone
  <2>2. v = x
    BY <2>1, ReleaseRead
  <2>3. ~(Len(s) > MaxLength)
    BY <1>3, <1>5, ParsedNone
  <2>4. Len(s) <= MaxLength
    BY <1>3, <2>3, Characters, LengthAssumption
  <2>5. Parsed(s) = x
    BY <1>2, <1>3, <2>1, <2>2, <2>4, ParsedIs
  <2>6. QED
    BY <2>1, <2>2, <2>5
<1>6. QED
  BY <1>2, <1>3, <1>4, <1>5

-----------------------------------------------------------------------------
(* The version that inc() makes is the next one.                           *)

LEMMA NextMajor ==
  ASSUME NEW h \in Version, HasNumbers(h), NEW t \in String, IsNumber(t),
         Value(t) = Value(h.major) + 1, NEW x, x = Release(t, << 0 >>, << 0 >>)
  PROVE  /\ Less(h, x)
         /\ \A r \in Version : HasNumbers(r) /\ r.pre = <<>> /\ Less(h, r) /\ Less(r, x) =>
              r.major = h.major
<1>1. x \in Version /\ x.major = t /\ x.minor = << 0 >> /\ x.patch = << 0 >> /\ x.pre = <<>>
  BY ZeroIs, SignTypes DEF Release, Version
<1>2. HasNumbers(x)
  BY <1>1, ZeroIs DEF HasNumbers
<1>3. Value(h.major) \in Nat
  BY VersionNumbers
<1>4. Value(h.major) < Value(x.major)
  BY <1>1, <1>3
<1>5. Less(h, x)
  BY <1>1, <1>2, <1>4, LessNumbers
<1>6. ASSUME NEW r \in Version, HasNumbers(r), r.pre = <<>>, Less(h, r), Less(r, x)
      PROVE  r.major = h.major
  <2>1. Value(r.major) \in Nat /\ Value(r.minor) \in Nat /\ Value(r.patch) \in Nat
    BY <1>6, VersionNumbers
  <2>2. Value(h.major) < Value(r.major) \/ h.major = r.major
    BY <1>6, LessNumbers
  <2>3. Value(r.major) < Value(x.major)
    <3>1. ~(Value(r.minor) < Value(x.minor)) /\ ~(Value(r.patch) < Value(x.patch))
      BY <1>1, <2>1, ZeroIs
    <3>2. PreCompare(r.pre, x.pre) # "less"
      BY <1>1, <1>6, PreOfRelease
    <3>3. QED
      BY <1>1, <1>2, <1>6, <3>1, <3>2, LessNumbers
  <2>4. QED
    BY <1>1, <1>3, <2>1, <2>2, <2>3
<1>7. QED
  BY <1>5, <1>6

LEMMA NextMinor ==
  ASSUME NEW h \in Version, HasNumbers(h), NEW t \in String, IsNumber(t),
         Value(t) = Value(h.minor) + 1, NEW x, x = Release(h.major, t, << 0 >>)
  PROVE  /\ Less(h, x)
         /\ \A r \in Version : HasNumbers(r) /\ r.pre = <<>> /\ Less(h, r) /\ Less(r, x) =>
              r.major = h.major /\ r.minor = h.minor
<1>1. x \in Version /\ x.major = h.major /\ x.minor = t /\ x.patch = << 0 >> /\ x.pre = <<>>
  BY ZeroIs, SignTypes, VersionNumbers DEF Release, Version
<1>2. HasNumbers(x)
  BY <1>1, ZeroIs DEF HasNumbers
<1>3. Value(h.major) \in Nat /\ Value(h.minor) \in Nat
  BY VersionNumbers
<1>4. Value(h.minor) < Value(x.minor)
  BY <1>1, <1>3
<1>5. Less(h, x)
  BY <1>1, <1>2, <1>4, LessNumbers
<1>6. ASSUME NEW r \in Version, HasNumbers(r), r.pre = <<>>, Less(h, r), Less(r, x)
      PROVE  r.major = h.major /\ r.minor = h.minor
  <2>1. Value(r.major) \in Nat /\ Value(r.minor) \in Nat /\ Value(r.patch) \in Nat
    BY <1>6, VersionNumbers
  <2>2. \/ Value(h.major) < Value(r.major)
        \/ h.major = r.major /\ Value(h.minor) < Value(r.minor)
        \/ h.major = r.major /\ h.minor = r.minor
    BY <1>6, LessNumbers
  <2>3. \/ Value(r.major) < Value(h.major)
        \/ r.major = h.major /\ Value(r.minor) < Value(x.minor)
    <3>1. ~(Value(r.patch) < Value(x.patch))
      BY <1>1, <2>1, ZeroIs
    <3>2. PreCompare(r.pre, x.pre) # "less"
      BY <1>1, <1>6, PreOfRelease
    <3>3. QED
      BY <1>1, <1>2, <1>6, <3>1, <3>2, LessNumbers
  <2>4. h.major = r.major
    BY <1>3, <2>1, <2>2, <2>3
  <2>5. QED
    BY <1>1, <1>3, <2>1, <2>2, <2>3, <2>4
<1>7. QED
  BY <1>5, <1>6

LEMMA NextPatch ==
  ASSUME NEW h \in Version, HasNumbers(h), h.pre = <<>>, NEW t \in String, IsNumber(t),
         Value(t) = Value(h.patch) + 1, NEW x, x = Release(h.major, h.minor, t)
  PROVE  /\ Less(h, x)
         /\ \A r \in Version : ~(HasNumbers(r) /\ r.pre = <<>> /\ Less(h, r) /\ Less(r, x))
<1>1. x \in Version /\ x.major = h.major /\ x.minor = h.minor /\ x.patch = t /\ x.pre = <<>>
  BY SignTypes, VersionNumbers DEF Release, Version
<1>2. HasNumbers(x)
  BY <1>1 DEF HasNumbers
<1>3. Value(h.major) \in Nat /\ Value(h.minor) \in Nat /\ Value(h.patch) \in Nat
  BY VersionNumbers
<1>4. Value(h.patch) < Value(x.patch)
  BY <1>1, <1>3
<1>5. Less(h, x)
  BY <1>1, <1>2, <1>4, LessNumbers
<1>6. ASSUME NEW r \in Version, HasNumbers(r), r.pre = <<>>, Less(h, r), Less(r, x)
      PROVE  FALSE
  <2>1. Value(r.major) \in Nat /\ Value(r.minor) \in Nat /\ Value(r.patch) \in Nat
    BY <1>6, VersionNumbers
  <2>2. \/ Value(h.major) < Value(r.major)
        \/ h.major = r.major /\ Value(h.minor) < Value(r.minor)
        \/ h.major = r.major /\ h.minor = r.minor /\ Value(h.patch) < Value(r.patch)
    BY <1>6, LessNumbers, PreOfRelease
  <2>3. \/ Value(r.major) < Value(h.major)
        \/ r.major = h.major /\ Value(r.minor) < Value(h.minor)
        \/ r.major = h.major /\ r.minor = h.minor /\ Value(r.patch) < Value(x.patch)
    BY <1>1, <1>2, <1>6, LessNumbers, PreOfRelease
  <2>4. h.major = r.major /\ h.minor = r.minor
    BY <1>3, <2>1, <2>2, <2>3
  <2>5. QED
    BY <1>1, <1>3, <2>1, <2>2, <2>3, <2>4
<1>7. QED
  BY <1>5, <1>6

LEMMA NextRelease ==
  ASSUME NEW h \in Version, HasNumbers(h), h.pre # <<>>,
         NEW x, x = Release(h.major, h.minor, h.patch)
  PROVE  /\ Less(h, x)
         /\ \A r \in Version : ~(HasNumbers(r) /\ r.pre = <<>> /\ Less(h, r) /\ Less(r, x))
<1>1. x \in Version /\ x.major = h.major /\ x.minor = h.minor /\ x.patch = h.patch /\ x.pre = <<>>
  BY SignTypes, VersionNumbers DEF Release, Version
<1>2. HasNumbers(x)
  BY <1>1 DEF HasNumbers
<1>3. Value(h.major) \in Nat /\ Value(h.minor) \in Nat /\ Value(h.patch) \in Nat
  BY VersionNumbers
<1>4. PreCompare(h.pre, x.pre) = "less"
  BY <1>1, FieldTypes, PreOfRelease
<1>5. Less(h, x)
  BY <1>1, <1>2, <1>4, LessNumbers
<1>6. ASSUME NEW r \in Version, HasNumbers(r), r.pre = <<>>, Less(h, r), Less(r, x)
      PROVE  FALSE
  <2>1. Value(r.major) \in Nat /\ Value(r.minor) \in Nat /\ Value(r.patch) \in Nat
    BY <1>6, VersionNumbers
  <2>2. \/ Value(h.major) < Value(r.major)
        \/ h.major = r.major /\ Value(h.minor) < Value(r.minor)
        \/ h.major = r.major /\ h.minor = r.minor /\ Value(h.patch) < Value(r.patch)
        \/ h.major = r.major /\ h.minor = r.minor /\ h.patch = r.patch
    BY <1>6, LessNumbers
  <2>3. \/ Value(r.major) < Value(h.major)
        \/ r.major = h.major /\ Value(r.minor) < Value(h.minor)
        \/ r.major = h.major /\ r.minor = h.minor /\ Value(r.patch) < Value(h.patch)
    BY <1>1, <1>2, <1>6, LessNumbers, PreOfRelease
  <2>4. QED
    BY <1>3, <2>1, <2>2, <2>3
<1>7. QED
  BY <1>5, <1>6

-----------------------------------------------------------------------------
(* What one call of inc() keeps.                                           *)

(* Where a line may end: inc() of v as release type a asks makes a text     *)
(* that parse() rejects.                                                   *)
Stops(v, a) ==
  \/ a = "other"
  \/ a = "MAJOR" /\ Spent(v.major)
  \/ a = "MINOR" /\ Spent(v.minor)
  \/ a = "PATCH" /\ Spent(v.patch)
  \/ Len(ToText(v)) >= MaxLength

(* The releases that release type a skips.                                 *)
SkippedBy(a, v, r) ==
  \/ a \in {"MAJOR", "MINOR"} /\ r.major = v.major /\ r.minor = v.minor
  \/ a = "MAJOR" /\ r.major = v.major

(* w is above v, and every release between them is skipped.                *)
NextTo(v, a, w) ==
  /\ Less(v, w)
  /\ \A r \in Releases : Less(v, r) /\ Less(r, w) => SkippedBy(a, v, r)

(* The text s may follow version v.                                        *)
Follows(v, a, s) ==
  /\ s \in String
  /\ HasNumbers(v) /\ Parsed(s) # NoVersion => NextTo(v, a, Parsed(s))
  /\ IsVersion(v) /\ Parsed(s) = NoVersion => Stops(v, a)

LEMMA ParsedType ==
  ASSUME NEW s \in String
  PROVE  Parsed(s) \in Version /\ (Parsed(s) # NoVersion => IsVersion(Parsed(s)))
<1>1. NoVersion \in Version
  BY SignTypes DEF NoVersion, Release, Version
<1>2. ASSUME Parsed(s) # NoVersion
      PROVE  Parsed(s) \in Version /\ IsVersion(Parsed(s))
  <2>1. PICK v \in Version : IsVersion(v) /\ ToText(v) = Trim(s)
    BY <1>2, ParsedNone
  <2>2. ~(Len(s) > MaxLength)
    BY <1>2, ParsedNone
  <2>3. Len(s) <= MaxLength
    BY <2>2, Characters, LengthAssumption
  <2>4. Parsed(s) = v
    BY <2>1, <2>3, ParsedIs
  <2>5. QED
    BY <2>1, <2>4
<1>3. QED
  BY <1>1, <1>2

LEMMA VersionsHaveNumbers ==
  ASSUME NEW v, IsVersion(v)
  PROVE  HasNumbers(v)
  BY DEF IsVersion, HasNumbers

LEMMA TextLength ==
  ASSUME NEW v \in Version
  PROVE  /\ ToText(v) \in String /\ Len(ToText(v)) \in Nat
         /\ Len(v.major) + Len(v.minor) + Len(v.patch) + 2 <= Len(ToText(v))
<1>1. /\ v.major \in String /\ v.minor \in String /\ v.patch \in String /\ Dot \in Char
      /\ FromTail(v) \in String /\ FromPatch(v) \in String /\ FromMinor(v) \in String
  BY FieldTypes, FromTypes, CharacterFacts
<1>2. Len(v.major) \in Nat /\ Len(v.minor) \in Nat /\ Len(v.patch) \in Nat /\ Len(FromTail(v)) \in Nat
  BY <1>1, Characters
<1>3. Len(FromPatch(v)) = Len(v.patch) + Len(FromTail(v))
  BY <1>1 DEF FromPatch, String
<1>4. Len(FromMinor(v)) = Len(v.minor) + 1 + Len(FromPatch(v))
  BY <1>1, Around DEF FromMinor
<1>5. Len(FromMajor(v)) = Len(v.major) + 1 + Len(FromMinor(v))
  BY <1>1, Around DEF FromMajor
<1>6. FromMajor(v) \in String /\ ToText(v) = FromMajor(v)
  BY FromTypes, TextFrom
<1>7. Len(FromMajor(v)) =
        Len(v.major) + 1 + (Len(v.minor) + 1 + (Len(v.patch) + Len(FromTail(v))))
  BY <1>3, <1>4, <1>5
<1>8. /\ Len(FromMajor(v)) \in Nat
      /\ Len(v.major) + Len(v.minor) + Len(v.patch) + 2 <= Len(FromMajor(v))
  <2> DEFINE a == Len(v.major)
             b == Len(v.minor)
             c == Len(v.patch)
             d == Len(FromTail(v))
             e == Len(FromMajor(v))
  <2>1. a \in Nat /\ b \in Nat /\ c \in Nat /\ d \in Nat /\ e = a + 1 + (b + 1 + (c + d))
    BY <1>2, <1>7
  <2> HIDE DEF a, b, c, d, e
  <2>2. e \in Nat /\ a + b + c + 2 <= e
    BY <2>1
  <2>3. QED
    BY <2>2 DEF a, b, c, e
<1>9. QED
  BY <1>6, <1>8

LEMMA ReleasesAre ==
  ASSUME NEW r \in Releases
  PROVE  r \in Version /\ HasNumbers(r) /\ r.pre = <<>>
<1>1. PICK m \in 0..IntMax, n \in 0..IntMax, p \in 0..IntMax :
        r = Release(NumToString(m), NumToString(n), NumToString(p))
  BY DEF Releases
<1>2. \A i \in 0..IntMax : NumToString(i) \in String /\ IsNumber(NumToString(i))
  <2>1. SUFFICES ASSUME NEW i \in 0..IntMax
                 PROVE  NumToString(i) \in String /\ IsNumber(NumToString(i))
    OBVIOUS
  <2>2. i \in Nat /\ i \in Int /\ i >= 0
    BY IntAssumption
  <2>3. QED
    BY <2>2, NumeralType, DigitsNumber
<1>3. QED
  BY <1>1, <1>2, SignTypes DEF Release, Version, HasNumbers

(* A text that inc() writes of three numbers follows v if the numbers do.  *)
LEMMA TextFollows ==
  ASSUME NEW v \in Version, NEW a, HasNumbers(v),
         NEW m, Written(m), NEW n, Written(n), NEW p, Written(p),
         NEW x, x = Release(m, n, p), NEW s, s = ToText(x),
         IsVersion(x) => NextTo(v, a, x),
         IsVersion(v) /\ ~Stops(v, a) =>
           IsVersion(x) /\ Len(m) + Len(n) + Len(p) <= Len(v.major) + Len(v.minor) + Len(v.patch) + 1
  PROVE  Follows(v, a, s)
<1>1. /\ s \in String
      /\ Len(s) = Len(m) + Len(n) + Len(p) + 2
      /\ Parsed(s) # NoVersion => Parsed(s) = x /\ IsVersion(x)
      /\ IsVersion(x) /\ Len(s) <= MaxLength => Parsed(s) # NoVersion
  BY ReleaseParsed
<1>2. ASSUME IsVersion(v), ~Stops(v, a)
      PROVE  Parsed(s) # NoVersion
  <2>1. Len(m) \in Nat /\ Len(n) \in Nat /\ Len(p) \in Nat
    BY WrittenFacts
  <2>2. Len(v.major) \in Nat /\ Len(v.minor) \in Nat /\ Len(v.patch) \in Nat
    BY FieldTypes, Characters
  <2>3. Len(ToText(v)) \in Nat /\ Len(v.major) + Len(v.minor) + Len(v.patch) + 2 <= Len(ToText(v))
    BY TextLength
  <2>4. ~(Len(ToText(v)) >= MaxLength) /\ MaxLength \in Nat
    BY <1>2, LengthAssumption DEF Stops
  <2>5. IsVersion(x) /\ Len(m) + Len(n) + Len(p) <= Len(v.major) + Len(v.minor) + Len(v.patch) + 1
    BY <1>2
  <2>6. Len(s) = Len(m) + Len(n) + Len(p) + 2
    BY <1>1
  <2> DEFINE i == Len(m) + Len(n) + Len(p)
             j == Len(v.major) + Len(v.minor) + Len(v.patch)
             k == Len(ToText(v))
             l == Len(s)
  <2>7. /\ i \in Nat /\ j \in Nat /\ k \in Nat /\ i <= j + 1 /\ j + 2 <= k
        /\ l = i + 2 /\ ~(k >= MaxLength) /\ MaxLength \in Nat
    <3>1. i \in Nat
      BY <2>1
    <3>2. j \in Nat
      <4>1. \A a1, a2, a3 \in Nat : a1 + a2 + a3 \in Nat
        OBVIOUS
      <4>2. QED
        BY <2>2, <4>1, Zenon
    <3>3. k \in Nat /\ j + 2 <= k
      BY <2>3
    <3>4. i <= j + 1 /\ l = i + 2 /\ ~(k >= MaxLength) /\ MaxLength \in Nat
      BY <2>4, <2>5, <2>6, Zenon
    <3>5. QED
      BY <3>1, <3>2, <3>3, <3>4
  <2> HIDE DEF i, j, k, l
  <2>8. l <= MaxLength
    BY <2>7
  <2>9. QED
    BY <1>1, <2>5, <2>8 DEF l
<1>3. QED
  BY <1>1, <1>2 DEF Follows

LEMMA ZeroWritten == Written(<< 0 >>) /\ Len(<< 0 >>) = 1
  BY ZeroIs, NumberWritten

LEMMA NumberLengths ==
  ASSUME NEW v \in Version, HasNumbers(v)
  PROVE  /\ Len(v.major) \in Nat \ {0} /\ Len(v.minor) \in Nat \ {0} /\ Len(v.patch) \in Nat \ {0}
         /\ Written(v.major) /\ Written(v.minor) /\ Written(v.patch)
<1>1. \A s \in String : IsNumber(s) => Written(s) /\ Len(s) \in Nat \ {0}
  BY NumberWritten, WrittenFacts
<1>2. QED
  BY <1>1, VersionNumbers

LEMMA MajorFollows ==
  ASSUME NEW v \in Version, HasNumbers(v), ~FromCharsFails(v.major),
         NEW s, s = ToText(Release(Incremented(v.major), << 0 >>, << 0 >>))
  PROVE  Follows(v, "MAJOR", s)
<1> DEFINE t == Incremented(v.major)
           x == Release(t, << 0 >>, << 0 >>)
<1>1. v.major \in String /\ IsNumber(v.major)
  BY VersionNumbers
<1>2. Written(t)
  BY <1>1, IncrementedType
<1>3. /\ ~Spent(v.major) => IsNumber(t)
      /\ IsNumber(t) => /\ t \in String
                        /\ Value(t) = Value(v.major) + 1
                        /\ Len(t) <= Len(v.major) + 1
                        /\ t[1] # 0
  BY <1>1, IncrementedIs
<1> HIDE DEF t
<1>4. x.major = t /\ x.minor = << 0 >> /\ x.patch = << 0 >> /\ x.pre = <<>>
  BY DEF Release
<1>5. ASSUME IsVersion(x)
      PROVE  NextTo(v, "MAJOR", x)
  <2>1. IsNumber(t)
    BY <1>4, <1>5 DEF IsVersion
  <2>2. /\ Less(v, x)
        /\ \A r \in Version : HasNumbers(r) /\ r.pre = <<>> /\ Less(v, r) /\ Less(r, x) =>
             r.major = v.major
    BY <1>3, <2>1, NextMajor
  <2>3. QED
    BY <2>2, ReleasesAre DEF NextTo, SkippedBy
<1>6. ASSUME ~Stops(v, "MAJOR")
      PROVE  IsVersion(x) /\ Len(t) + Len(<< 0 >>) + Len(<< 0 >>)
                               <= Len(v.major) + Len(v.minor) + Len(v.patch) + 1
  <2>1. IsNumber(t)
    BY <1>3, <1>6 DEF Stops
  <2>2. Plus \notin Chars(x.pre)
    BY <1>4 DEF Chars
  <2>3. IsVersion(x)
    BY <1>3, <1>4, <2>1, <2>2, ZeroIs DEF IsVersion
  <2>4. Len(t) \in Nat /\ Len(t) <= Len(v.major) + 1
    BY <1>2, <1>3, <2>1, WrittenFacts
  <2>5. Len(v.major) \in Nat \ {0} /\ Len(v.minor) \in Nat \ {0} /\ Len(v.patch) \in Nat \ {0}
    BY NumberLengths
  <2>6. Len(<< 0 >>) = 1
    OBVIOUS
  <2> DEFINE i == Len(v.major)
             j == Len(v.minor)
             k == Len(v.patch)
             l == Len(t)
  <2>7. l + 1 + 1 <= i + j + k + 1
    <3>1. i \in Nat \ {0} /\ j \in Nat \ {0} /\ k \in Nat \ {0} /\ l \in Nat /\ l <= i + 1
      BY <2>4, <2>5
    <3> HIDE DEF i, j, k, l
    <3>2. QED
      BY <3>1
  <2>8. QED
    BY <2>3, <2>6, <2>7
<1>7. s = ToText(x)
  BY DEF t
<1> HIDE DEF x
<1>8. QED
  BY <1>2, <1>5, <1>6, <1>7, ZeroWritten, TextFollows DEF x

LEMMA MinorFollows ==
  ASSUME NEW v \in Version, HasNumbers(v), ~FromCharsFails(v.minor),
         NEW s, s = ToText(Release(v.major, Incremented(v.minor), << 0 >>))
  PROVE  Follows(v, "MINOR", s)
<1> DEFINE t == Incremented(v.minor)
           x == Release(v.major, t, << 0 >>)
<1>1. v.minor \in String /\ IsNumber(v.minor)
  BY VersionNumbers
<1>2. Written(t)
  BY <1>1, IncrementedType
<1>3. /\ ~Spent(v.minor) => IsNumber(t)
      /\ IsNumber(t) => /\ t \in String
                        /\ Value(t) = Value(v.minor) + 1
                        /\ Len(t) <= Len(v.minor) + 1
                        /\ t[1] # 0
  BY <1>1, IncrementedIs
<1> HIDE DEF t
<1>4. x.major = v.major /\ x.minor = t /\ x.patch = << 0 >> /\ x.pre = <<>>
  BY DEF Release
<1>5. ASSUME IsVersion(x)
      PROVE  NextTo(v, "MINOR", x)
  <2>1. IsNumber(t)
    BY <1>4, <1>5 DEF IsVersion
  <2>2. /\ Less(v, x)
        /\ \A r \in Version : HasNumbers(r) /\ r.pre = <<>> /\ Less(v, r) /\ Less(r, x) =>
             r.major = v.major /\ r.minor = v.minor
    BY <1>3, <2>1, NextMinor
  <2>3. QED
    BY <2>2, ReleasesAre DEF NextTo, SkippedBy
<1>6. ASSUME IsVersion(v), ~Stops(v, "MINOR")
      PROVE  IsVersion(x) /\ Len(v.major) + Len(t) + Len(<< 0 >>)
                               <= Len(v.major) + Len(v.minor) + Len(v.patch) + 1
  <2>1. IsNumber(t)
    BY <1>3, <1>6 DEF Stops
  <2>2. Plus \notin Chars(x.pre)
    BY <1>4 DEF Chars
  <2>3. IsVersion(x)
    BY <1>3, <1>4, <1>6, <2>1, <2>2, ZeroIs DEF IsVersion
  <2>4. Len(t) \in Nat /\ Len(t) <= Len(v.minor) + 1
    BY <1>2, <1>3, <2>1, WrittenFacts
  <2>5. Len(v.major) \in Nat \ {0} /\ Len(v.minor) \in Nat \ {0} /\ Len(v.patch) \in Nat \ {0}
    BY NumberLengths
  <2>6. Len(<< 0 >>) = 1
    OBVIOUS
  <2> DEFINE i == Len(v.major)
             j == Len(v.minor)
             k == Len(v.patch)
             l == Len(t)
  <2>7. i + l + 1 <= i + j + k + 1
    <3>1. i \in Nat \ {0} /\ j \in Nat \ {0} /\ k \in Nat \ {0} /\ l \in Nat /\ l <= j + 1
      BY <2>4, <2>5
    <3> HIDE DEF i, j, k, l
    <3>2. QED
      BY <3>1
  <2>8. QED
    BY <2>3, <2>6, <2>7
<1>7. s = ToText(x)
  BY DEF t
<1> HIDE DEF x
<1>8. QED
  BY <1>2, <1>5, <1>6, <1>7, ZeroWritten, NumberLengths, TextFollows DEF x

LEMMA PatchFollows ==
  ASSUME NEW v \in Version, HasNumbers(v), ~FromCharsFails(v.patch), v.pre = <<>>,
         NEW s, s = ToText(Release(v.major, v.minor, Incremented(v.patch)))
  PROVE  Follows(v, "PATCH", s)
<1> DEFINE t == Incremented(v.patch)
           x == Release(v.major, v.minor, t)
<1>1. v.patch \in String /\ IsNumber(v.patch)
  BY VersionNumbers
<1>2. Written(t)
  BY <1>1, IncrementedType
<1>3. /\ ~Spent(v.patch) => IsNumber(t)
      /\ IsNumber(t) => /\ t \in String
                        /\ Value(t) = Value(v.patch) + 1
                        /\ Len(t) <= Len(v.patch) + 1
                        /\ t[1] # 0
  BY <1>1, IncrementedIs
<1> HIDE DEF t
<1>4. x.major = v.major /\ x.minor = v.minor /\ x.patch = t /\ x.pre = <<>>
  BY DEF Release
<1>5. ASSUME IsVersion(x)
      PROVE  NextTo(v, "PATCH", x)
  <2>1. IsNumber(t)
    BY <1>4, <1>5 DEF IsVersion
  <2>2. /\ Less(v, x)
        /\ \A r \in Version : ~(HasNumbers(r) /\ r.pre = <<>> /\ Less(v, r) /\ Less(r, x))
    BY <1>3, <2>1, NextPatch
  <2>3. QED
    BY <2>2, ReleasesAre DEF NextTo, SkippedBy
<1>6. ASSUME IsVersion(v), ~Stops(v, "PATCH")
      PROVE  IsVersion(x) /\ Len(v.major) + Len(v.minor) + Len(t)
                               <= Len(v.major) + Len(v.minor) + Len(v.patch) + 1
  <2>1. IsNumber(t)
    BY <1>3, <1>6 DEF Stops
  <2>2. Plus \notin Chars(x.pre)
    BY <1>4 DEF Chars
  <2>3. IsVersion(x)
    BY <1>3, <1>4, <1>6, <2>1, <2>2, ZeroIs DEF IsVersion
  <2>4. Len(t) \in Nat /\ Len(t) <= Len(v.patch) + 1
    BY <1>2, <1>3, <2>1, WrittenFacts
  <2>5. Len(v.major) \in Nat \ {0} /\ Len(v.minor) \in Nat \ {0} /\ Len(v.patch) \in Nat \ {0}
    BY NumberLengths
  <2>6. Len(<< 0 >>) = 1
    OBVIOUS
  <2> DEFINE i == Len(v.major)
             j == Len(v.minor)
             k == Len(v.patch)
             l == Len(t)
  <2>7. i + j + l <= i + j + k + 1
    <3>1. i \in Nat \ {0} /\ j \in Nat \ {0} /\ k \in Nat \ {0} /\ l \in Nat /\ l <= k + 1
      BY <2>4, <2>5
    <3> HIDE DEF i, j, k, l
    <3>2. QED
      BY <3>1
  <2>8. QED
    BY <2>3, <2>6, <2>7
<1>7. s = ToText(x)
  BY DEF t
<1> HIDE DEF x
<1>8. QED
  BY <1>2, <1>5, <1>6, <1>7, ZeroWritten, NumberLengths, TextFollows DEF x

LEMMA ReleaseFollows ==
  ASSUME NEW v \in Version, HasNumbers(v), v.pre # <<>>,
         NEW s, s = ToText(Release(v.major, v.minor, v.patch))
  PROVE  Follows(v, "PATCH", s)
<1> DEFINE x == Release(v.major, v.minor, v.patch)
<1>1. x.major = v.major /\ x.minor = v.minor /\ x.patch = v.patch /\ x.pre = <<>>
  BY DEF Release
<1>2. NextTo(v, "PATCH", x)
  <2>1. /\ Less(v, x)
        /\ \A r \in Version : ~(HasNumbers(r) /\ r.pre = <<>> /\ Less(v, r) /\ Less(r, x))
    BY NextRelease
  <2>2. QED
    BY <2>1, ReleasesAre DEF NextTo
<1>3. IsVersion(v) => IsVersion(x)
  <2>1. Plus \notin Chars(x.pre)
    BY <1>1 DEF Chars
  <2>2. QED
    BY <1>1, <2>1 DEF IsVersion
<1>4. Len(v.major) + Len(v.minor) + Len(v.patch) <= Len(v.major) + Len(v.minor) + Len(v.patch) + 1
  <2>1. \A i, j, k \in Nat : i + j + k <= i + j + k + 1
    OBVIOUS
  <2>2. Len(v.major) \in Nat /\ Len(v.minor) \in Nat /\ Len(v.patch) \in Nat
    BY NumberLengths
  <2>3. QED
    BY <2>1, <2>2, Zenon
<1>5. s = ToText(x)
  OBVIOUS
<1> HIDE DEF x
<1>6. QED
  BY <1>2, <1>3, <1>4, <1>5, NumberLengths, TextFollows DEF x

-----------------------------------------------------------------------------
(* The inductive invariant: the line so far, and what may come next.       *)

LineInv ==
  /\ text \in String /\ held \in Version /\ line \in Seq(Version)
  /\ held # NoVersion => line # <<>> /\ held = line[Len(line)]
  /\ \A i \in DOMAIN line : i > 1 => HasNumbers(line[i])
  /\ LineIncreases
  /\ held = NoVersion /\ line # <<>> => Follows(line[Len(line)], asked, text)
  /\ error # "none" /\ line # <<>> /\ IsVersion(line[Len(line)]) => Stops(line[Len(line)], asked)

LEMMA LineInit == Init => LineInv
<1>1. CASE text \in Texts /\ held = NoVersion /\ line = <<>> /\ error = "none"
  <2>1. text \in String
    BY <1>1, LineAssumption
  <2>2. NoVersion \in Version /\ <<>> \in Seq(Version) /\ DOMAIN <<>> = {}
    BY SignTypes DEF NoVersion, Release, Version
  <2>3. QED
    BY <1>1, <2>1, <2>2 DEF LineInv, LineIncreases
<1>2. CASE text = <<>> /\ held \in HandMade /\ line = <<held>> /\ error = "none"
  <2>1. text \in String /\ held \in Version /\ held # NoVersion
    BY <1>2, LineAssumption, SignTypes
  <2>2. line \in Seq(Version) /\ line # <<>> /\ DOMAIN line = {1} /\ held = line[Len(line)]
    BY <1>2, <2>1
  <2>3. \A i, j \in DOMAIN line : ~(i > 1) /\ ~(i < j)
    BY <2>2
  <2>4. LineIncreases
    BY <2>3 DEF LineIncreases
  <2>5. QED
    BY <1>2, <2>1, <2>2, <2>3, <2>4 DEF LineInv
<1>3. QED
  BY <1>1, <1>2 DEF Init

(* inc() writes a text that follows the version it was given, or fails     *)
(* where it may.                                                           *)
Answers ==
  /\ held # NoVersion /\ error = "none" /\ line' = line
  /\ \/ held' = NoVersion /\ error' = error /\ Follows(held, asked', text')
     \/ held' = held /\ text' = text /\ Stops(held, asked')

LEMMA FollowsNoNumbers ==
  ASSUME NEW v, ~HasNumbers(v), NEW a, NEW x \in Version, NEW s, s = ToText(x)
  PROVE  Follows(v, a, s)
<1>1. s \in String
  BY TextLength
<1>2. QED
  BY <1>1, VersionsHaveNumbers DEF Follows

LEMMA ReleaseType ==
  ASSUME NEW m \in String, NEW n \in String, NEW p \in String
  PROVE  Release(m, n, p) \in Version
  BY ReleaseFields

LEMMA MajorStep == LineInv /\ IncMajor => Answers
<1> SUFFICES ASSUME LineInv, IncMajor
             PROVE  Answers
  OBVIOUS
<1>1. held \in Version /\ held # NoVersion /\ error = "none" /\ asked' = "MAJOR"
  BY DEF LineInv, IncMajor, Asks
<1>2. CASE FromCharsFails(held.major)
  <2>1. text' = text /\ held' = held /\ line' = line
    BY <1>2 DEF IncMajor, Fails
  <2>2. Stops(held, asked')
    BY <1>1, <1>2 DEF Stops, Spent
  <2>3. QED
    BY <1>1, <2>1, <2>2 DEF Answers
<1>3. CASE ~FromCharsFails(held.major)
  <2> DEFINE x == Release(Incremented(held.major), << 0 >>, << 0 >>)
  <2>1. text' = ToText(x) /\ held' = NoVersion /\ line' = line /\ error' = error
    BY <1>3 DEF IncMajor, Writes
  <2>2. CASE HasNumbers(held)
    <3>1. Follows(held, "MAJOR", text')
      BY <1>1, <1>3, <2>1, <2>2, MajorFollows
    <3>2. QED
      BY <1>1, <2>1, <3>1 DEF Answers
  <2>3. CASE ~HasNumbers(held)
    <3>1. x \in Version
      <4>1. Incremented(held.major) \in String
        BY <1>1, <1>3, FieldTypes, IncrementedType DEF Written
      <4>2. QED
        BY <4>1, ZeroIs, ReleaseType
    <3> HIDE DEF x
    <3>2. Follows(held, asked', text')
      BY <2>1, <2>3, <3>1, FollowsNoNumbers
    <3>3. QED
      BY <1>1, <2>1, <3>2 DEF Answers
  <2>4. QED
    BY <2>2, <2>3
<1>4. QED
  BY <1>2, <1>3

LEMMA MinorStep == LineInv /\ IncMinor => Answers
<1> SUFFICES ASSUME LineInv, IncMinor
             PROVE  Answers
  OBVIOUS
<1>1. held \in Version /\ held # NoVersion /\ error = "none" /\ asked' = "MINOR"
  BY DEF LineInv, IncMinor, Asks
<1>2. CASE FromCharsFails(held.minor)
  <2>1. text' = text /\ held' = held /\ line' = line
    BY <1>2 DEF IncMinor, Fails
  <2>2. Stops(held, asked')
    BY <1>1, <1>2 DEF Stops, Spent
  <2>3. QED
    BY <1>1, <2>1, <2>2 DEF Answers
<1>3. CASE ~FromCharsFails(held.minor)
  <2> DEFINE x == Release(held.major, Incremented(held.minor), << 0 >>)
  <2>1. text' = ToText(x) /\ held' = NoVersion /\ line' = line /\ error' = error
    BY <1>3 DEF IncMinor, Writes
  <2>2. CASE HasNumbers(held)
    <3>1. Follows(held, "MINOR", text')
      BY <1>1, <1>3, <2>1, <2>2, MinorFollows
    <3>2. QED
      BY <1>1, <2>1, <3>1 DEF Answers
  <2>3. CASE ~HasNumbers(held)
    <3>1. x \in Version
      <4>1. Incremented(held.minor) \in String /\ held.major \in String
        BY <1>1, <1>3, FieldTypes, IncrementedType DEF Written
      <4>2. QED
        BY <4>1, ZeroIs, ReleaseType
    <3> HIDE DEF x
    <3>2. Follows(held, asked', text')
      BY <2>1, <2>3, <3>1, FollowsNoNumbers
    <3>3. QED
      BY <1>1, <2>1, <3>2 DEF Answers
  <2>4. QED
    BY <2>2, <2>3
<1>4. QED
  BY <1>2, <1>3

LEMMA PatchStep == LineInv /\ IncPatch => Answers
<1> SUFFICES ASSUME LineInv, IncPatch
             PROVE  Answers
  OBVIOUS
<1>1. /\ held \in Version /\ held # NoVersion /\ held.pre = <<>>
      /\ error = "none" /\ asked' = "PATCH"
  BY DEF LineInv, IncPatch, Asks
<1>2. CASE FromCharsFails(held.patch)
  <2>1. text' = text /\ held' = held /\ line' = line
    BY <1>2 DEF IncPatch, Fails
  <2>2. Stops(held, asked')
    BY <1>1, <1>2 DEF Stops, Spent
  <2>3. QED
    BY <1>1, <2>1, <2>2 DEF Answers
<1>3. CASE ~FromCharsFails(held.patch)
  <2> DEFINE x == Release(held.major, held.minor, Incremented(held.patch))
  <2>1. text' = ToText(x) /\ held' = NoVersion /\ line' = line /\ error' = error
    BY <1>3 DEF IncPatch, Writes
  <2>2. CASE HasNumbers(held)
    <3>1. Follows(held, "PATCH", text')
      BY <1>1, <1>3, <2>1, <2>2, PatchFollows
    <3>2. QED
      BY <1>1, <2>1, <3>1 DEF Answers
  <2>3. CASE ~HasNumbers(held)
    <3>1. x \in Version
      <4>1. Incremented(held.patch) \in String /\ held.major \in String /\ held.minor \in String
        BY <1>1, <1>3, FieldTypes, IncrementedType DEF Written
      <4>2. QED
        BY <4>1, ReleaseType
    <3> HIDE DEF x
    <3>2. Follows(held, asked', text')
      BY <2>1, <2>3, <3>1, FollowsNoNumbers
    <3>3. QED
      BY <1>1, <2>1, <3>2 DEF Answers
  <2>4. QED
    BY <2>2, <2>3
<1>4. QED
  BY <1>2, <1>3

LEMMA FinishStep == LineInv /\ FinishPreRelease => Answers
<1> SUFFICES ASSUME LineInv, FinishPreRelease
             PROVE  Answers
  OBVIOUS
<1>1. /\ held \in Version /\ held # NoVersion /\ held.pre # <<>>
      /\ error = "none" /\ asked' = "PATCH"
  BY DEF LineInv, FinishPreRelease, Asks
<1> DEFINE x == Release(held.major, held.minor, held.patch)
<1>2. text' = ToText(x) /\ held' = NoVersion /\ line' = line /\ error' = error
  BY DEF FinishPreRelease, Writes
<1>3. CASE HasNumbers(held)
  <2>1. Follows(held, "PATCH", text')
    BY <1>1, <1>2, <1>3, ReleaseFollows
  <2>2. QED
    BY <1>1, <1>2, <2>1 DEF Answers
<1>4. CASE ~HasNumbers(held)
  <2>1. x \in Version
    BY <1>1, FieldTypes, ReleaseType
  <2> HIDE DEF x
  <2>2. Follows(held, asked', text')
    BY <1>2, <1>4, <2>1, FollowsNoNumbers
  <2>3. QED
    BY <1>1, <1>2, <2>2 DEF Answers
<1>5. QED
  BY <1>3, <1>4

LEMMA OtherStep == LineInv /\ IncOther => Answers
<1> SUFFICES ASSUME LineInv, IncOther
             PROVE  Answers
  OBVIOUS
<1>1. /\ held # NoVersion /\ error = "none" /\ asked' = "other"
      /\ text' = text /\ held' = held /\ line' = line
  BY DEF IncOther, Asks, Fails
<1>2. Stops(held, asked')
  BY <1>1 DEF Stops
<1>3. QED
  BY <1>1, <1>2 DEF Answers

LEMMA AnswersStep == LineInv /\ Answers => LineInv'
<1> SUFFICES ASSUME LineInv, Answers
             PROVE  LineInv'
  OBVIOUS
<1>1. /\ text \in String /\ held \in Version /\ line \in Seq(Version)
      /\ line # <<>> /\ held = line[Len(line)]
      /\ held # NoVersion /\ error = "none" /\ line' = line
  BY DEF LineInv, Answers
<1>2. \A i \in DOMAIN line' : i > 1 => HasNumbers(line'[i])
  BY <1>1 DEF LineInv
<1>3. LineIncreases'
  BY <1>1 DEF LineInv, LineIncreases
<1>4. CASE held' = NoVersion /\ error' = error /\ Follows(held, asked', text')
  <2>1. text' \in String
    BY <1>4 DEF Follows
  <2>2. held' \in Version
    BY <1>4, SignTypes DEF NoVersion, Release, Version
  <2>3. Follows(line'[Len(line')], asked', text')
    BY <1>1, <1>4
  <2>4. QED
    BY <1>1, <1>2, <1>3, <1>4, <2>1, <2>2, <2>3 DEF LineInv
<1>5. CASE held' = held /\ text' = text /\ Stops(held, asked')
  <2>1. Stops(line'[Len(line')], asked')
    BY <1>1, <1>5
  <2>2. QED
    BY <1>1, <1>2, <1>3, <1>5, <2>1 DEF LineInv
<1>6. QED
  BY <1>4, <1>5 DEF Answers

LEMMA ParseStep == LineInv /\ Parse => LineInv'
<1> SUFFICES ASSUME LineInv, Parse
             PROVE  LineInv'
  OBVIOUS
<1> DEFINE v == Parsed(text)
           n == Len(line)
<1>1. /\ text \in String /\ line \in Seq(Version) /\ held = NoVersion /\ error = "none"
      /\ v # NoVersion /\ held' = v /\ line' = Append(line, v)
      /\ text' = text /\ asked' = asked /\ error' = error
  BY DEF LineInv, Parse
<1>2. v \in Version /\ HasNumbers(v)
  BY <1>1, ParsedType, VersionsHaveNumbers
<1>3. /\ n \in Nat /\ DOMAIN line = 1..n
      /\ line # <<>> => n >= 1
      /\ line = <<>> => n = 0
      /\ \A i \in 1..n : line[i] \in Version
  BY <1>1
<1>4. /\ line' \in Seq(Version) /\ line' # <<>> /\ Len(line') = n + 1 /\ DOMAIN line' = 1..(n + 1)
      /\ \A i \in 1..n : line'[i] = line[i]
      /\ line'[n + 1] = v
  BY <1>1, <1>2
<1>5. line # <<>> => Follows(line[n], asked, text)
  BY <1>1 DEF LineInv
<1>6. \A i \in 1..n : i > 1 => HasNumbers(line[i])
  BY <1>3 DEF LineInv
<1>7. line # <<>> /\ HasNumbers(line[1]) => \A i, j \in 1..n : i < j => Less(line[i], line[j])
  BY <1>3 DEF LineInv, LineIncreases
<1> HIDE DEF v, n
<1>8. \A i \in DOMAIN line' : i > 1 => HasNumbers(line'[i])
  <2>1. SUFFICES ASSUME NEW i \in 1..(n + 1), i > 1
                 PROVE  HasNumbers(line'[i])
    BY <1>4
  <2>2. i = n + 1 \/ i \in 1..n
    BY <1>3
  <2>3. QED
    BY <1>2, <1>4, <1>6, <2>1, <2>2
<1>9. LineIncreases'
  <2>1. SUFFICES ASSUME HasNumbers(line'[1]), NEW i \in 1..(n + 1), NEW j \in 1..(n + 1), i < j
                 PROVE  Less(line'[i], line'[j])
    BY <1>4 DEF LineIncreases
  <2>2. i \in 1..n /\ n >= 1 /\ line # <<>> /\ 1 \in 1..n /\ n \in 1..n
    BY <1>3, <2>1
  <2>3. line'[1] = line[1] /\ line'[i] = line[i]
    BY <1>4, <2>2
  <2>4. \A k, l \in 1..n : k < l => Less(line[k], line[l])
    BY <1>7, <2>1, <2>2, <2>3
  <2>5. CASE j \in 1..n
    <3>1. Less(line[i], line[j])
      BY <2>1, <2>2, <2>4, <2>5
    <3>2. line'[j] = line[j]
      BY <1>4, <2>5
    <3>3. QED
      BY <2>3, <3>1, <3>2
  <2>6. CASE j = n + 1
    <3>1. HasNumbers(line[n])
      <4>1. n = 1 \/ n > 1
        BY <1>3, <2>2
      <4>2. QED
        BY <1>6, <2>1, <2>2, <2>3, <4>1
    <3>2. Less(line[n], v)
      BY <1>1, <1>5, <2>2, <3>1 DEF Follows, NextTo, v
    <3>3. i = n \/ i < n
      BY <1>3, <2>2
    <3>4. line[i] \in Version /\ line[n] \in Version
      BY <1>3, <2>2
    <3>5. CASE i < n
      <4>1. Less(line[i], line[n])
        BY <2>2, <2>4, <3>5
      <4>2. Less(line[i], v)
        BY <1>2, <3>2, <3>4, <4>1, LessTransitive
      <4>3. QED
        BY <1>4, <2>3, <2>6, <4>2
    <3>6. QED
      BY <1>4, <2>3, <2>6, <3>2, <3>3, <3>5
  <2>7. QED
    BY <1>3, <2>5, <2>6
<1>10. held' # NoVersion /\ held' = line'[Len(line')] /\ held' \in Version
  BY <1>1, <1>2, <1>4
<1>11. QED
  BY <1>1, <1>4, <1>8, <1>9, <1>10 DEF LineInv

LEMMA FailStep == LineInv /\ FailToParse => LineInv'
<1> SUFFICES ASSUME LineInv, FailToParse
             PROVE  LineInv'
  OBVIOUS
<1>1. /\ held = NoVersion /\ Parsed(text) = NoVersion
      /\ text' = text /\ held' = held /\ asked' = asked /\ line' = line
  BY DEF FailToParse
<1>2. line # <<>> /\ IsVersion(line[Len(line)]) => Stops(line[Len(line)], asked)
  BY <1>1 DEF LineInv, Follows
<1>3. LineIncreases'
  BY <1>1 DEF LineInv, LineIncreases
<1>4. QED
  BY <1>1, <1>2, <1>3 DEF LineInv

LEMMA LineStep == LineInv /\ [Next]_vars => LineInv'
<1> SUFFICES ASSUME LineInv, [Next]_vars
             PROVE  LineInv'
  OBVIOUS
<1>1. CASE UNCHANGED vars
  BY <1>1 DEF vars, LineInv, LineIncreases
<1>2. CASE Next
  BY <1>2, ParseStep, FailStep, MajorStep, MinorStep, FinishStep, PatchStep, OtherStep, AnswersStep
     DEF Next
<1>3. QED
  BY <1>1, <1>2

(* The versions that inc() makes one of another go up, each above all that *)
(* were before it, whatever release types were asked for.                  *)
THEOREM LineCorrect == Spec => []LineIncreases
<1>1. LineInv => LineIncreases
  BY DEF LineInv
<1>2. QED
  BY <1>1, LineInit, LineStep, PTL DEF Spec

(* inc() and parse() of what it makes fail only at the limits of int and of *)
(* the length of a text, and on a release type that there is not.          *)
THEOREM LimitsCorrect == Spec => []EndsAtLimits
<1>1. LineInv => EndsAtLimits
  BY DEF LineInv, EndsAtLimits, Stops
<1>2. QED
  BY <1>1, LineInit, LineStep, PTL DEF Spec

LEMMA NextOneStep ==
  LineInv /\ [Next]_vars
    => (text' # text /\ HasNumbers(held) /\ Parsed(text') # NoVersion =>
          \A r \in Releases : Less(held, r) /\ Less(r, Parsed(text')) => Skipped(r))
<1> SUFFICES ASSUME LineInv, [Next]_vars, text' # text,
                    HasNumbers(held), Parsed(text') # NoVersion,
                    NEW r \in Releases, Less(held, r), Less(r, Parsed(text'))
             PROVE  Skipped(r)
  OBVIOUS
<1>1. Answers
  <2>1. Next /\ ~Parse /\ ~FailToParse
    BY DEF vars, Parse, FailToParse
  <2>2. QED
    BY <2>1, MajorStep, MinorStep, FinishStep, PatchStep, OtherStep DEF Next
<1>2. Follows(held, asked', text')
  BY <1>1 DEF Answers
<1>3. SkippedBy(asked', held, r)
  BY <1>2 DEF Follows, NextTo
<1>4. QED
  BY <1>3 DEF Skipped, SkippedBy

(* No release lies between a version and what inc() makes of it but those   *)
(* that the release type asks to skip.                                     *)
THEOREM SkipsCorrect == Spec => SkipsNoRelease
<1>1. LineInv /\ [Next]_vars =>
        [text' # text /\ HasNumbers(held) /\ Parsed(text') # NoVersion =>
           \A r \in Releases : Less(held, r) /\ Less(r, Parsed(text')) => Skipped(r)]_vars
  BY NextOneStep
<1>2. QED
  BY <1>1, LineInit, LineStep, PTL DEF Spec, SkipsNoRelease
=============================================================================
