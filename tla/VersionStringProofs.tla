------------------------ MODULE VersionStringProofs ------------------------
(***************************************************************************)
(* Strings and their parts: what finding, cutting and trimming return, the *)
(* values of numbers, the order of operator<=>, and the grammar.           *)
(***************************************************************************)
EXTENDS VersionGrammar, Precedence, Numbers, WellFoundedInduction, FiniteSetTheorems, TLAPS

(* A set of naturals that is not empty has a least element.  The intervals *)
(* 1..x of its elements are finite, and strict inclusion of finite sets is *)
(* well founded.                                                           *)
LEMMA LeastNatural ==
  ASSUME NEW T, T \subseteq Nat, T # {}
  PROVE  \E x \in T : \A y \in T : x <= y
<1> DEFINE W == {1..x : x \in T}
           R == StrictSubsetOrdering(Nat)
<1>1. IsWellFoundedOn(R, FiniteSubsetsOf(Nat))
  BY FS_StrictSubsetOrderingWellFounded
<1>2. W \subseteq FiniteSubsetsOf(Nat)
  <2>1. \A x \in T : IsFiniteSet(1..x)
    BY FS_Interval
  <2>2. QED
    BY <2>1 DEF FiniteSubsetsOf
<1>3. W # {}
  OBVIOUS
<1> HIDE DEF W, R
<1>4. PICK w \in W : \A v \in W : <<v, w>> \notin R
  BY <1>1, <1>2, <1>3, WFMin
<1>5. PICK x \in T : w = 1..x
  BY DEF W
<1>6. ASSUME NEW y \in T
      PROVE  x <= y
  <2>1. (1..y) \in W
    BY DEF W
  <2>2. <<1..y, 1..x>> \notin R
    BY <2>1, <1>4, <1>5
  <2>3. ~((1..y) \subseteq (1..x) /\ (1..y) # (1..x))
    BY <2>2 DEF R, StrictSubsetOrdering
  <2>4. CASE y < x
    <3>1. (1..y) \subseteq (1..x)
      BY <2>4
    <3>2. x \in 1..x /\ x \notin 1..y
      BY <2>4
    <3>3. QED
      BY <3>1, <3>2, <2>3
  <2>5. QED
    BY <2>4
<1>7. QED
  BY <1>6

-----------------------------------------------------------------------------
(* Characters.                                                             *)

(* A string's length is a number, and its characters are numbers.          *)
LEMMA Characters ==
  ASSUME NEW a \in String
  PROVE  /\ Len(a) \in Nat
         /\ DOMAIN a = 1..Len(a)
         /\ \A i \in DOMAIN a : a[i] \in Int
<1>1. a \in Seq(Int)
  BY BaseAssumption DEF String, Char, Space, Tilde
<1>2. QED
  BY <1>1

(* Strings of one length without a difference are the same.                *)
LEMMA NoDifference ==
  ASSUME NEW a \in String, NEW b \in String,
         Len(a) = Len(b), \A i \in DOMAIN a \cap DOMAIN b : a[i] = b[i]
  PROVE  a = b
<1>1. DOMAIN a = DOMAIN b
  BY Characters
<1>2. /\ a = [i \in DOMAIN a |-> a[i]]
      /\ b = [i \in DOMAIN b |-> b[i]]
  BY DEF String
<1>3. QED
  BY <1>1, <1>2

-----------------------------------------------------------------------------
(* Parts of strings, and their lengths.                                    *)

LEMMA SkipLength ==
  ASSUME NEW s \in String, NEW n \in Nat
  PROVE  /\ Skip(s, n) \in String
         /\ Len(Skip(s, n)) <= Len(s)
         /\ n >= 1 /\ s # <<>> => Len(Skip(s, n)) < Len(s)
BY DEF Skip, String

LEMMA SubSeqLength ==
  ASSUME NEW s \in String, NEW a \in 1..(Len(s) + 1), NEW b \in 0..Len(s)
  PROVE  /\ SubSeq(s, a, b) \in String
         /\ Len(SubSeq(s, a, b)) <= Len(s)
         /\ Len(SubSeq(s, a, b)) <= b
BY DEF String

LEMMA FindRange ==
  ASSUME NEW s \in String, NEW C
  PROVE  Find(s, C) \in 1..(Len(s) + 1)
<1> DEFINE at == {i \in DOMAIN s : s[i] \in C}
<1>1. at \subseteq 1..Len(s) /\ Len(s) \in Nat
  BY DEF String
<1>2. CASE at = {}
  BY <1>1, <1>2 DEF Find
<1>3. CASE at # {}
  <2>1. at \subseteq Nat
    BY <1>1
  <2> HIDE DEF at
  <2>2. \E i \in at : \A j \in at : i <= j
    BY <1>3, <2>1, LeastNatural
  <2>3. (CHOOSE i \in at : \A j \in at : i <= j) \in at
    BY <2>2
  <2>4. Find(s, C) = CHOOSE i \in at : \A j \in at : i <= j
    BY <1>3 DEF Find, at
  <2>5. Find(s, C) \in at
    BY <2>3, <2>4
  <2>6. at \subseteq 1..Len(s)
    BY <1>1 DEF at
  <2> HIDE DEF at
  <2>7. Find(s, C) \in 1..Len(s)
    BY <2>5, <2>6
  <2>8. QED
    BY <1>1, <2>7
<1>4. QED
  BY <1>2, <1>3

(* Trimming cuts a string where its first and last ink is.                 *)
LEMMA TrimCuts ==
  ASSUME NEW s \in String, \E i \in DOMAIN s : s[i] # Space
  PROVE  \E a, b \in 1..Len(s) : /\ a <= b
                                 /\ Trim(s) = SubSeq(s, a, b)
                                 /\ s[a] # Space /\ s[b] # Space
                                 /\ \A i \in DOMAIN s : s[i] # Space => a <= i /\ i <= b
<1> DEFINE ink   == {i \in DOMAIN s : s[i] # Space}
           first == CHOOSE i \in ink : \A j \in ink : i <= j
           final == CHOOSE i \in ink : \A j \in ink : j <= i
           back  == {Len(s) - i : i \in ink}
<1>1. ink \subseteq 1..Len(s) /\ Len(s) \in Nat
  BY DEF String
<1>2. ink \subseteq Nat /\ ink # {}
  BY <1>1
<1>3. Trim(s) = SubSeq(s, first, final)
  BY <1>2 DEF Trim
<1>4. \A i \in DOMAIN s : s[i] # Space <=> i \in ink
  OBVIOUS
<1>5. ink \subseteq DOMAIN s
  OBVIOUS
<1> HIDE DEF ink
<1>6. first \in ink /\ \A j \in ink : first <= j
  <2>1. \E i \in ink : \A j \in ink : i <= j
    BY <1>2, LeastNatural
  <2>2. QED
    BY <2>1
<1>7. final \in ink /\ \A j \in ink : j <= final
  <2>1. back \subseteq Nat /\ back # {}
    <3>1. ASSUME NEW i \in ink
          PROVE  Len(s) - i \in Nat
      <4>1. i \in 1..Len(s)
        BY <1>1
      <4>2. QED
        BY <1>1, <4>1
    <3>2. QED
      BY <1>2, <3>1, Zenon
  <2>2. PICK x \in back : \A y \in back : x <= y
    BY <2>1, LeastNatural
  <2>3. PICK i \in ink : x = Len(s) - i
    BY <2>2
  <2>4. \A j \in ink : j <= i
    <3> SUFFICES ASSUME NEW j \in ink
                 PROVE  j <= i
      OBVIOUS
    <3>1. Len(s) - j \in back
      OBVIOUS
    <3>2. Len(s) - i <= Len(s) - j
      BY <2>2, <2>3, <3>1
    <3>3. i \in 1..Len(s) /\ j \in 1..Len(s)
      BY <1>1
    <3>4. QED
      BY <1>1, <3>2, <3>3
  <2>5. QED
    BY <2>4
<1> HIDE DEF first, final
<1>8. first \in 1..Len(s) /\ final \in 1..Len(s) /\ first <= final
  BY <1>1, <1>6, <1>7
<1>9. s[first] # Space /\ s[final] # Space
  BY <1>4, <1>5, <1>6, <1>7
<1>10. \A i \in DOMAIN s : s[i] # Space => first <= i /\ i <= final
  BY <1>4, <1>6, <1>7
<1>11. QED
  BY <1>3, <1>8, <1>9, <1>10

LEMMA TrimBlank ==
  ASSUME NEW s \in String, \A i \in DOMAIN s : s[i] = Space
  PROVE  Trim(s) = <<>>
BY DEF Trim

LEMMA TrimLength ==
  ASSUME NEW s \in String
  PROVE  Trim(s) \in String /\ Len(Trim(s)) <= Len(s)
<1>1. CASE \A i \in DOMAIN s : s[i] = Space
  <2>1. Trim(s) = <<>>
    BY <1>1, TrimBlank
  <2>2. Len(s) \in Nat
    BY Characters
  <2>3. QED
    BY <2>1, <2>2 DEF String
<1>2. CASE \E i \in DOMAIN s : s[i] # Space
  <2>1. PICK a \in 1..Len(s), b \in 1..Len(s) : Trim(s) = SubSeq(s, a, b)
    BY <1>2, TrimCuts
  <2>2. a \in 1..(Len(s) + 1) /\ b \in 0..Len(s)
    BY Characters
  <2>3. QED
    BY <2>1, <2>2, SubSeqLength
<1>3. QED
  BY <1>1, <1>2

(* A trimmed string is empty, or has ink at both ends.                     *)
LEMMA TrimEnds ==
  ASSUME NEW s \in String, Trim(s) # <<>>
  PROVE  Trim(s)[1] # Space /\ Trim(s)[Len(Trim(s))] # Space
<1>1. PICK a \in 1..Len(s), b \in 1..Len(s) :
        a <= b /\ Trim(s) = SubSeq(s, a, b) /\ s[a] # Space /\ s[b] # Space
  BY TrimBlank, TrimCuts
<1>2. /\ Len(SubSeq(s, a, b)) = b - a + 1
      /\ SubSeq(s, a, b)[1] = s[a]
      /\ SubSeq(s, a, b)[b - a + 1] = s[b]
  BY <1>1 DEF String
<1>3. QED
  BY <1>1, <1>2

(* A string with ink at both ends is left as it is.                        *)
LEMMA TrimSettled ==
  ASSUME NEW s \in String, s # <<>> => s[1] # Space /\ s[Len(s)] # Space
  PROVE  Trim(s) = s
<1>1. CASE s = <<>>
  BY <1>1 DEF Trim
<1>2. CASE s # <<>>
  <2>1. 1 \in DOMAIN s /\ Len(s) \in DOMAIN s /\ Len(s) \in Nat
    BY <1>2 DEF String
  <2>2. PICK a \in 1..Len(s), b \in 1..Len(s) :
          Trim(s) = SubSeq(s, a, b) /\ a <= 1 /\ Len(s) <= b
    BY <1>2, <2>1, TrimCuts
  <2>3. a = 1 /\ b = Len(s)
    BY <2>1, <2>2
  <2>4. SubSeq(s, 1, Len(s)) = s
    BY DEF String
  <2>5. QED
    BY <2>2, <2>3, <2>4
<1>3. QED
  BY <1>1, <1>2

LEMMA TrimTwice ==
  ASSUME NEW s \in String
  PROVE  Trim(Trim(s)) = Trim(s)
BY TrimLength, TrimEnds, TrimSettled

LEMMA CutsType ==
  ASSUME NEW s \in String, NEW C
  PROVE  Before(s, C) \in String /\ After(s, C) \in String
<1>1. Find(s, C) \in 1..(Len(s) + 1) /\ Len(s) \in Nat
  BY FindRange, Characters
<1>2. Find(s, C) - 1 \in 0..Len(s) /\ Find(s, C) \in Nat
  BY <1>1
<1>3. 1 \in 1..(Len(s) + 1)
  BY <1>1
<1>4. QED
  BY <1>2, <1>3, SubSeqLength, SkipLength DEF Before, After

LEMMA ConcatType ==
  ASSUME NEW a \in String, NEW b \in String
  PROVE  a \o b \in String
BY DEF String

LEMMA ConcatAssociates ==
  ASSUME NEW a \in String, NEW b \in String, NEW c \in String
  PROVE  (a \o b) \o c = a \o (b \o c)
BY DEF String

LEMMA EmptyConcat ==
  ASSUME NEW a \in String
  PROVE  <<>> \o a = a /\ a \o <<>> = a
BY DEF String

(* A character between two strings.                                        *)
LEMMA Around ==
  ASSUME NEW p \in String, NEW q \in String, NEW c \in Char
  PROVE  LET s == p \o (<<c>> \o q)
         IN /\ s \in String
            /\ Len(s) = Len(p) + 1 + Len(q)
            /\ \A i \in 1..Len(p) : s[i] = p[i]
            /\ s[Len(p) + 1] = c
            /\ \A i \in 1..Len(q) : s[Len(p) + 1 + i] = q[i]
BY DEF String

(* Find is where the first character of C stands, and nowhere else.        *)
LEMMA FindIs ==
  ASSUME NEW s \in String, NEW C, NEW n \in 1..Len(s),
         s[n] \in C, \A i \in 1..(n - 1) : s[i] \notin C
  PROVE  Find(s, C) = n
<1> DEFINE at == {i \in DOMAIN s : s[i] \in C}
           least(i) == \A j \in at : i <= j
<1>1. DOMAIN s = 1..Len(s) /\ Len(s) \in Nat
  BY Characters
<1>2. n \in at /\ least(n)
  <2>1. \A j \in at : n <= j
    BY <1>1
  <2>2. QED
    BY <1>1, <2>1
<1>3. ASSUME NEW i \in at, least(i)
      PROVE  i = n
  <2>1. i <= n /\ n <= i
    BY <1>2, <1>3
  <2>2. QED
    BY <1>1, <2>1
<1>4. Find(s, C) = CHOOSE i \in at : least(i)
  BY <1>2 DEF Find
<1> HIDE DEF at, least
<1>5. QED
  BY <1>2, <1>3, <1>4

LEMMA FindNone ==
  ASSUME NEW s \in String, NEW C, Chars(s) \cap C = {}
  PROVE  Find(s, C) = Len(s) + 1 /\ ~Found(s, C) /\ Before(s, C) = s
<1>1. {i \in DOMAIN s : s[i] \in C} = {}
  BY DEF Chars
<1>2. Find(s, C) = Len(s) + 1
  BY <1>1 DEF Find
<1>3. Len(s) \in Nat
  BY Characters
<1>4. SubSeq(s, 1, Len(s)) = s
  BY DEF String
<1>5. QED
  BY <1>2, <1>3, <1>4 DEF Found, Before

(* The first character of C in s is c, between p and q.                    *)
CutsInto(s, C, p, c, q) ==
  /\ Found(s, C) /\ s[Find(s, C)] = c
  /\ Before(s, C) = p
  /\ After(s, C) = q

(* A character of C behind a string without one is found there.            *)
LEMMA FindBehind ==
  ASSUME NEW p \in String, NEW q \in String, NEW C, NEW c \in Char, c \in C,
         Chars(p) \cap C = {},
         NEW s, s = p \o (<<c>> \o q)
  PROVE  CutsInto(s, C, p, c, q)
<1>1. /\ s \in String /\ Len(p) \in Nat /\ Len(q) \in Nat
      /\ Len(s) = Len(p) + 1 + Len(q)
      /\ \A i \in 1..Len(p) : s[i] = p[i]
      /\ s[Len(p) + 1] = c
  BY DEF String
<1>2. \A i \in 1..Len(p) : p[i] \notin C
  BY Characters DEF Chars
<1>3. /\ SubSeq(s, 1, Len(p)) = p
      /\ SubSeq(s, Len(p) + 2, Len(s)) = q
  BY DEF String
<1>4. Find(s, C) = Len(p) + 1
  <2>1. Len(p) + 1 \in 1..Len(s) /\ s[Len(p) + 1] \in C
    BY <1>1
  <2>2. \A i \in 1..((Len(p) + 1) - 1) : s[i] \notin C
    BY <1>1, <1>2
  <2>3. s \in String
    BY <1>1
  <2> QED
    BY <2>1, <2>2, <2>3, FindIs
<1>5. Len(p) + 1 <= Len(s) /\ (Len(p) + 1) - 1 = Len(p) /\ (Len(p) + 1) + 1 = Len(p) + 2
  BY <1>1
<1>6. QED
  BY <1>1, <1>3, <1>4, <1>5 DEF CutsInto, Found, Before, After, Skip

(* What is found is the first of its kind, and lies between what is before *)
(* it and what is after it.                                                *)
LEMMA FoundParts ==
  ASSUME NEW s \in String, NEW C, Found(s, C)
  PROVE  /\ Find(s, C) \in DOMAIN s /\ s[Find(s, C)] \in C
         /\ Chars(Before(s, C)) \cap C = {}
         /\ s = Before(s, C) \o (<<s[Find(s, C)]>> \o After(s, C))
<1> DEFINE at == {i \in DOMAIN s : s[i] \in C}
           n  == Find(s, C)
<1>1. at \subseteq 1..Len(s) /\ Len(s) \in Nat /\ DOMAIN s = 1..Len(s)
  BY Characters
<1>2. at # {}
  BY <1>1 DEF Found, Find
<1>3. n = CHOOSE i \in at : \A j \in at : i <= j
  BY <1>2 DEF Find
<1>4. \A i \in 1..Len(s) : s[i] \in C <=> i \in at
  BY <1>1
<1> HIDE DEF at, n
<1>5. n \in at /\ \A j \in at : n <= j
  <2>1. at \subseteq Nat
    BY <1>1
  <2>2. \E i \in at : \A j \in at : i <= j
    BY <1>2, <2>1, LeastNatural
  <2>3. QED
    BY <1>3, <2>2
<1>6. n \in 1..Len(s) /\ s[n] \in C
  BY <1>1, <1>4, <1>5
<1>7. \A i \in 1..(n - 1) : s[i] \notin C
  <2>1. \A i \in 1..(n - 1) : i \in 1..Len(s) /\ ~(n <= i)
    BY <1>1, <1>6
  <2>2. QED
    BY <1>4, <1>5, <2>1
<1>8. /\ DOMAIN SubSeq(s, 1, n - 1) = 1..(n - 1)
      /\ \A i \in 1..(n - 1) : SubSeq(s, 1, n - 1)[i] = s[i]
  BY <1>6 DEF String
<1>9. Chars(SubSeq(s, 1, n - 1)) \cap C = {}
  BY <1>7, <1>8 DEF Chars
<1>10. s = SubSeq(s, 1, n - 1) \o (<<s[n]>> \o SubSeq(s, n + 1, Len(s)))
  <2> DEFINE x == SubSeq(s, 1, n - 1)
             y == SubSeq(s, n + 1, Len(s))
             t == x \o (<<s[n]>> \o y)
  <2>1. /\ x \in Seq(Char) /\ Len(x) = n - 1 /\ \A i \in 1..(n - 1) : x[i] = s[i]
        /\ y \in Seq(Char) /\ Len(y) = Len(s) - n /\ \A i \in 1..(Len(s) - n) : y[i] = s[n + i]
        /\ s[n] \in Char
    BY <1>6 DEF String
  <2> HIDE DEF x, y
  <2>2. /\ t \in String
        /\ Len(t) = Len(x) + 1 + Len(y)
        /\ \A i \in 1..Len(x) : t[i] = x[i]
        /\ t[Len(x) + 1] = s[n]
        /\ \A i \in 1..Len(y) : t[Len(x) + 1 + i] = y[i]
    BY <2>1, Around DEF String
  <2> HIDE DEF t
  <2>3. Len(t) = Len(s)
    BY <1>1, <1>6, <2>1, <2>2
  <2>4. ASSUME NEW i \in 1..Len(s)
        PROVE  t[i] = s[i]
    <3>1. CASE i < n
      BY <1>1, <1>6, <2>1, <2>2, <3>1
    <3>2. CASE i = n
      BY <1>1, <1>6, <2>1, <2>2, <3>2
    <3>3. CASE n < i
      <4>1. i - n \in 1..(Len(s) - n) /\ n + (i - n) = i /\ Len(x) + 1 + (i - n) = i
        BY <1>1, <1>6, <2>1, <3>3
      <4>2. t[Len(x) + 1 + (i - n)] = y[i - n] /\ y[i - n] = s[n + (i - n)]
        BY <2>1, <2>2, <4>1
      <4>3. QED
        BY <4>1, <4>2
    <3>4. QED
      BY <1>1, <1>6, <3>1, <3>2, <3>3
  <2>5. s = t
    BY <1>1, <2>2, <2>3, <2>4, NoDifference, Characters
  <2>6. QED
    BY <2>5 DEF t, x, y
<1>11. QED
  BY <1>1, <1>6, <1>9, <1>10 DEF n, Before, After, Skip

(* Skipping twice, and cutting what is left.                               *)
LEMMA SkipParts ==
  ASSUME NEW s \in String, NEW n \in 0..Len(s)
  PROVE  /\ Len(Skip(s, n)) = Len(s) - n
         /\ \A i \in 1..(Len(s) - n) : Skip(s, n)[i] = s[n + i]
         /\ \A b \in 0..(Len(s) - n) : SubSeq(Skip(s, n), 1, b) = SubSeq(s, n + 1, n + b)
         /\ \A m \in Nat : Skip(Skip(s, n), m) = Skip(s, n + m)
<1>1. Len(s) \in Nat /\ n \in Nat /\ n <= Len(s) /\ s \in Seq(Char)
  BY Characters DEF String
<1>2. /\ Skip(s, n) \in Seq(Char)
      /\ Len(Skip(s, n)) = Len(s) - n
      /\ \A i \in 1..(Len(s) - n) : Skip(s, n)[i] = s[n + i]
  BY <1>1 DEF Skip
<1>3. ASSUME NEW b \in 0..(Len(s) - n)
      PROVE  SubSeq(Skip(s, n), 1, b) = SubSeq(s, n + 1, n + b)
  BY <1>1 DEF Skip
<1>4. ASSUME NEW m \in Nat
      PROVE  Skip(Skip(s, n), m) = Skip(s, n + m)
  BY <1>1 DEF Skip
<1>5. QED
  BY <1>2, <1>3, <1>4

LEMMA SubSeqType ==
  ASSUME NEW s \in String, NEW a \in Nat \ {0}, NEW b \in 0..Len(s)
  PROVE  SubSeq(s, a, b) \in String
BY DEF String

LEMMA SkipNone ==
  ASSUME NEW s \in String
  PROVE  Skip(s, 0) = s
BY DEF Skip, String

(* At m, s has c; between n and m it has p, and behind m q.                *)
CutAt(s, n, m, p, c, q) ==
  /\ m \in (n + 1)..Len(s)
  /\ s[m] = c
  /\ SubSeq(s, n + 1, m - 1) = p
  /\ Skip(s, m) = q

(* Where the first character of C behind place n of s cuts s.              *)
LEMMA CutBehind ==
  ASSUME NEW s \in String, NEW n \in 0..Len(s), NEW C, NEW p, NEW c, NEW q,
         CutsInto(Skip(s, n), C, p, c, q)
  PROVE  \E m : CutAt(s, n, m, p, c, q)
<1> DEFINE r == Skip(s, n)
           f == Find(r, C)
<1>1. Len(s) \in Nat /\ n \in Nat /\ n <= Len(s)
  BY Characters
<1>2. r \in String /\ Len(r) = Len(s) - n
  BY <1>1, SkipLength, SkipParts
<1>3. Found(r, C) /\ r[f] = c /\ SubSeq(r, 1, f - 1) = p /\ Skip(r, f) = q
  BY DEF CutsInto, Before, After
<1>4. f \in 1..(Len(s) - n) /\ f - 1 \in 0..(Len(s) - n) /\ f \in Nat
  <2>1. f \in DOMAIN r
    BY <1>2, <1>3, FoundParts
  <2>2. DOMAIN r = 1..Len(r)
    BY <1>2, Characters
  <2> HIDE DEF f, r
  <2>3. QED
    BY <1>1, <1>2, <2>1, <2>2
<1>5. /\ r[f] = s[n + f]
      /\ SubSeq(r, 1, f - 1) = SubSeq(s, n + 1, n + (f - 1))
      /\ Skip(r, f) = Skip(s, n + f)
  BY <1>4, SkipParts
<1> HIDE DEF f, r
<1>6. n + f \in (n + 1)..Len(s) /\ n + (f - 1) = (n + f) - 1
  BY <1>1, <1>4
<1>7. QED
  BY <1>3, <1>5, <1>6 DEF CutAt

(* What is before a character that does not occur is everything.           *)
LEMMA NotFound ==
  ASSUME NEW s \in String, NEW C, ~Found(s, C)
  PROVE  Before(s, C) = s /\ Chars(s) \cap C = {}
<1>1. Chars(s) \cap C = {}
  <2>1. SUFFICES ASSUME NEW i \in DOMAIN s, s[i] \in C
                 PROVE  Found(s, C)
    BY DEF Chars
  <2> DEFINE at == {k \in DOMAIN s : s[k] \in C}
  <2>2. at \subseteq Nat /\ at # {} /\ at \subseteq 1..Len(s)
    BY <2>1, Characters
  <2>3. Find(s, C) = CHOOSE k \in at : \A j \in at : k <= j
    BY <2>2 DEF Find
  <2> HIDE DEF at
  <2>4. \E k \in at : \A j \in at : k <= j
    BY <2>2, LeastNatural
  <2>5. Find(s, C) \in 1..Len(s)
    BY <2>2, <2>3, <2>4
  <2>6. QED
    BY <2>5, Characters DEF Found
<1>2. QED
  BY <1>1, FindNone

(* The first character before the first of C is that of the string.        *)
LEMMA BeforeStarts ==
  ASSUME NEW s \in String, NEW C, Before(s, C) # <<>>
  PROVE  s # <<>> /\ Before(s, C)[1] = s[1]
<1>1. Find(s, C) \in 1..(Len(s) + 1) /\ Len(s) \in Nat /\ s \in Seq(Char)
  BY FindRange, Characters DEF String
<1> DEFINE n == Find(s, C) - 1
<1>2. n \in 0..Len(s) /\ Before(s, C) = SubSeq(s, 1, n)
  BY <1>1 DEF Before
<1> HIDE DEF n
<1>3. SubSeq(s, 1, 0) = <<>>
  BY <1>1
<1>4. n \in 1..Len(s)
  BY <1>1, <1>2, <1>3
<1>5. SubSeq(s, 1, n)[1] = s[1]
  BY <1>1, <1>4
<1>6. s # <<>>
  BY <1>1, <1>4
<1>7. QED
  BY <1>2, <1>5, <1>6

-----------------------------------------------------------------------------
(* The values of strings of digits.                                        *)

(* Induction over the naturals, said of a set of them.                     *)
LEMMA Induction ==
  ASSUME NEW S, 0 \in S, \A n \in Nat : n \in S => n + 1 \in S
  PROVE  Nat \subseteq S
<1> DEFINE T == {n \in Nat : n \notin S}
<1>1. SUFFICES ASSUME T # {}
               PROVE  FALSE
  OBVIOUS
<1>2. PICK x \in T : \A y \in T : x <= y
  <2>1. T \subseteq Nat
    OBVIOUS
  <2> HIDE DEF T
  <2>2. QED
    BY <1>1, <2>1, LeastNatural
<1>3. x \in Nat /\ x # 0 /\ x - 1 \in Nat
  OBVIOUS
<1>4. x - 1 \in S
  BY <1>2, <1>3
<1>5. (x - 1) + 1 = x
  BY <1>3
<1>6. QED
  BY <1>3, <1>4, <1>5

(* f holds the values of the beginnings of s.                              *)
Counts(f, s) ==
  /\ f \in [0..Len(s) -> Int]
  /\ f[0] = 0
  /\ \A n \in 1..Len(s) : f[n] = f[n - 1] * Base + s[n]

LEMMA ValueCounts ==
  ASSUME NEW s \in String
  PROVE  \E f : Counts(f, s) /\ Value(s) = f[Len(s)]
<1> DEFINE body(g, n) == IF n = 0 THEN 0 ELSE g[n - 1] * Base + s[n]
           P(n) == \E g \in [0..n -> Int] : \A i \in 0..n : g[i] = body(g, i)
           S == {n \in Nat : n <= Len(s) => P(n)}
<1>1. Len(s) \in Nat /\ DOMAIN s = 1..Len(s) /\ \A i \in DOMAIN s : s[i] \in Int
  BY Characters
<1>2. Base \in Nat
  BY BaseAssumption
<1>3. 0 \in S
  <2> DEFINE g == [i \in 0..0 |-> 0]
  <2>1. g \in [0..0 -> Int] /\ \A i \in 0..0 : g[i] = body(g, i)
    OBVIOUS
  <2> HIDE DEF g
  <2>2. P(0)
    BY <2>1
  <2>3. QED
    BY <2>2
<1>4. ASSUME NEW n \in Nat, n \in S
      PROVE  n + 1 \in S
  <2> HIDE DEF P
  <2>1. SUFFICES ASSUME n + 1 <= Len(s)
                 PROVE  P(n + 1)
    OBVIOUS
  <2> USE DEF P
  <2>2. PICK g \in [0..n -> Int] : \A i \in 0..n : g[i] = body(g, i)
    BY <1>1, <1>4, <2>1
  <2> DEFINE h == [i \in 0..(n + 1) |-> IF i = n + 1 THEN g[n] * Base + s[n + 1] ELSE g[i]]
  <2>3. s[n + 1] \in Int /\ g[n] \in Int
    BY <1>1, <2>1
  <2>4. g[n] * Base + s[n + 1] \in Int
    BY <1>2, <2>3
  <2>5. h \in [0..(n + 1) -> Int]
    <3>1. \A i \in 0..(n + 1) : i # n + 1 => i \in 0..n
      OBVIOUS
    <3>2. QED
      BY <2>4, <3>1
  <2>6. ASSUME NEW i \in 0..(n + 1)
        PROVE  h[i] = body(h, i)
    <3>1. CASE i = n + 1
      <4>1. h[i - 1] = g[n] /\ i # 0
        BY <3>1
      <4>2. h[i] = g[n] * Base + s[n + 1]
        BY <3>1
      <4>3. QED
        BY <3>1, <4>1, <4>2
    <3>2. CASE i # n + 1
      <4>1. i \in 0..n /\ h[i] = g[i] /\ (i # 0 => i - 1 \in 0..n /\ h[i - 1] = g[i - 1])
        BY <3>2
      <4> HIDE DEF h
      <4>2. g[i] = body(g, i)
        BY <2>2, <4>1
      <4>3. QED
        BY <4>1, <4>2
    <3>3. QED
      BY <3>1, <3>2
  <2> HIDE DEF h
  <2>7. QED
    BY <2>5, <2>6
<1> HIDE DEF S
<1>5. Len(s) \in S
  BY <1>1, <1>3, <1>4, Induction
<1>6. PICK g \in [0..Len(s) -> Int] : \A i \in 0..Len(s) : g[i] = body(g, i)
  BY <1>5 DEF S
<1> DEFINE Solves(f) == f = [n \in 0..Len(s) |-> body(f, n)]
           f == CHOOSE f : Solves(f)
<1>7. Solves(g)
  BY <1>6
<1>8. Solves(f)
  <2> HIDE DEF Solves
  <2>1. QED
    BY <1>7
<1>9. Value(s) = f[Len(s)]
  BY DEF Value
<1> HIDE DEF f
<1>10. \A n \in 0..Len(s) : f[n] = body(f, n)
  BY <1>8
<1>11. DOMAIN f = 0..Len(s) /\ f = [n \in 0..Len(s) |-> f[n]]
  BY <1>8
<1>12. ASSUME NEW n \in 0..Len(s)
       PROVE  f[n] \in Int
  <2> DEFINE R == {m \in Nat : m <= Len(s) => f[m] \in Int}
  <2>1. 0 \in R
    BY <1>1, <1>10
  <2>2. ASSUME NEW m \in Nat, m \in R
        PROVE  m + 1 \in R
    <3>1. SUFFICES ASSUME m + 1 <= Len(s)
                   PROVE  f[m + 1] \in Int
      OBVIOUS
    <3>2. m + 1 \in 0..Len(s) /\ m + 1 # 0 /\ (m + 1) - 1 = m /\ m + 1 \in DOMAIN s
      BY <1>1, <3>1
    <3>3. f[m + 1] = f[m] * Base + s[m + 1]
      BY <1>10, <3>2
    <3>4. f[m] \in Int /\ s[m + 1] \in Int
      BY <1>1, <2>2, <3>1, <3>2
    <3>5. QED
      BY <1>2, <3>3, <3>4
  <2> HIDE DEF R
  <2>3. n \in R
    BY <1>1, <2>1, <2>2, Induction
  <2>4. QED
    BY <1>1, <2>3 DEF R
<1>13. Counts(f, s)
  <2>1. f \in [0..Len(s) -> Int]
    BY <1>11, <1>12
  <2>2. f[0] = 0
    BY <1>1, <1>10
  <2>3. \A n \in 1..Len(s) : f[n] = f[n - 1] * Base + s[n]
    BY <1>1, <1>10
  <2>4. QED
    BY <2>1, <2>2, <2>3 DEF Counts
<1>14. QED
  BY <1>9, <1>13

LEMMA DigitRange ==
  ASSUME NEW s \in String, OnlyDigits(s), NEW i \in DOMAIN s
  PROVE  s[i] \in Nat /\ s[i] < Base
BY BaseAssumption DEF OnlyDigits, Chars, Digit

LEMMA CountsNat ==
  ASSUME NEW s \in String, OnlyDigits(s), NEW f, Counts(f, s), NEW n \in 0..Len(s)
  PROVE  f[n] \in Nat
<1> DEFINE S == {m \in Nat : m <= Len(s) => f[m] \in Nat}
<1>1. Len(s) \in Nat /\ DOMAIN s = 1..Len(s)
  BY Characters
<1>2. 0 \in S
  BY DEF Counts
<1>3. ASSUME NEW m \in Nat, m \in S
      PROVE  m + 1 \in S
  <2>1. SUFFICES ASSUME m + 1 <= Len(s)
                 PROVE  f[m + 1] \in Nat
    OBVIOUS
  <2>2. m + 1 \in 1..Len(s) /\ (m + 1) - 1 = m /\ m + 1 \in DOMAIN s
    BY <1>1, <2>1
  <2>3. f[m + 1] = f[m] * Base + s[m + 1]
    BY <2>2 DEF Counts
  <2>4. f[m] \in Nat /\ s[m + 1] \in Nat
    BY <1>1, <1>3, <2>1, <2>2, DigitRange
  <2>5. QED
    BY <2>3, <2>4, BaseAssumption
<1> HIDE DEF S
<1>4. n \in S
  BY <1>1, <1>2, <1>3, Induction
<1>5. QED
  BY <1>1, <1>4 DEF S

LEMMA ValueType ==
  ASSUME NEW s \in String, OnlyDigits(s)
  PROVE  Value(s) \in Nat
<1>1. Len(s) \in 0..Len(s)
  BY Characters
<1>2. QED
  BY <1>1, ValueCounts, CountsNat

(* The next digit does not change which number is the smaller.             *)
LEMMA NextDigit ==
  ASSUME NEW x \in Nat, NEW y \in Nat, x < y,
         NEW d \in Nat, NEW e \in Nat, d < Base
  PROVE  x * Base + d < y * Base + e
<1>1. Base \in Nat
  BY BaseAssumption
<1>2. PICK z \in Nat : y = x + 1 + z
  <2>1. y - x - 1 \in Nat /\ y = x + 1 + (y - x - 1)
    OBVIOUS
  <2>2. QED
    BY <2>1
<1>3. y * Base = x * Base + Base + z * Base
  BY <1>1, <1>2
<1>4. x * Base \in Nat /\ z * Base \in Nat
  BY <1>1, <1>2
<1>5. QED
  BY <1>1, <1>3, <1>4

(* What is smaller with the same number of digits to come stays smaller.   *)
LEMMA StaysLess ==
  ASSUME NEW a \in String, OnlyDigits(a), NEW b \in String, OnlyDigits(b),
         NEW f, Counts(f, a), NEW g, Counts(g, b),
         NEW k \in Nat, Len(b) = Len(a) + k,
         NEW i \in 0..Len(a), f[i] < g[i + k]
  PROVE  f[Len(a)] < g[Len(b)]
<1> DEFINE S == {m \in Nat : i + m <= Len(a) => f[i + m] < g[i + m + k]}
<1>1. /\ Len(a) \in Nat /\ DOMAIN a = 1..Len(a) /\ Len(b) \in Nat /\ DOMAIN b = 1..Len(b)
      /\ i \in Nat
  BY Characters
<1>2. 0 \in S
  BY <1>1
<1>3. ASSUME NEW m \in Nat, m \in S
      PROVE  m + 1 \in S
  <2>1. SUFFICES ASSUME i + (m + 1) <= Len(a)
                 PROVE  f[i + (m + 1)] < g[i + (m + 1) + k]
    OBVIOUS
  <2> DEFINE p == i + m
             q == i + m + k
  <2>2. /\ p \in 0..Len(a) /\ p + 1 \in 1..Len(a) /\ p + 1 = i + (m + 1)
        /\ q \in 0..Len(b) /\ q + 1 \in 1..Len(b) /\ q + 1 = i + (m + 1) + k
        /\ (p + 1) - 1 = p /\ (q + 1) - 1 = q
    BY <1>1, <2>1
  <2>3. f[p] < g[q]
    BY <1>1, <1>3, <2>1
  <2> HIDE DEF p, q
  <2>4. f[p + 1] = f[p] * Base + a[p + 1] /\ g[q + 1] = g[q] * Base + b[q + 1]
    BY <2>2 DEF Counts
  <2>5. f[p] \in Nat /\ g[q] \in Nat
    BY <2>2, CountsNat
  <2>6. a[p + 1] \in Nat /\ a[p + 1] < Base /\ b[q + 1] \in Nat
    BY <1>1, <2>2, DigitRange
  <2>7. f[p + 1] < g[q + 1]
    BY <2>3, <2>4, <2>5, <2>6, NextDigit
  <2>8. QED
    BY <2>2, <2>7
<1> HIDE DEF S
<1>4. Len(a) - i \in Nat /\ i + (Len(a) - i) = Len(a) /\ i + (Len(a) - i) + k = Len(b)
  BY <1>1
<1>5. Len(a) - i \in S
  BY <1>2, <1>3, <1>4, Induction
<1>6. QED
  BY <1>1, <1>4, <1>5 DEF S

(* The longer of two numbers without leading zeros is the greater.         *)
LEMMA LongerIsGreater ==
  ASSUME NEW a \in String, OnlyDigits(a), NEW b \in String, OnlyDigits(b),
         Len(a) < Len(b), b[1] # 0
  PROVE  Value(a) < Value(b)
<1>1. PICK f : Counts(f, a) /\ Value(a) = f[Len(a)]
  BY ValueCounts
<1>2. PICK g : Counts(g, b) /\ Value(b) = g[Len(b)]
  BY ValueCounts
<1>3. Len(a) \in Nat /\ Len(b) \in Nat /\ DOMAIN b = 1..Len(b)
  BY Characters
<1> DEFINE S == {m \in Nat : m + 1 <= Len(b) => g[m + 1] > 0}
<1>4. 0 \in S
  <2>1. 1 \in DOMAIN b /\ 1 \in 1..Len(b)
    BY <1>3
  <2>2. g[1] = g[0] * Base + b[1] /\ g[0] = 0
    BY <1>2, <2>1 DEF Counts
  <2>3. b[1] \in Nat
    BY <2>1, DigitRange
  <2>4. QED
    BY <2>2, <2>3, BaseAssumption
<1>5. ASSUME NEW m \in Nat, m \in S
      PROVE  m + 1 \in S
  <2>1. SUFFICES ASSUME (m + 1) + 1 <= Len(b)
                 PROVE  g[(m + 1) + 1] > 0
    OBVIOUS
  <2> DEFINE p == m + 1
  <2>2. p + 1 \in 1..Len(b) /\ p + 1 \in DOMAIN b /\ (p + 1) - 1 = p /\ p \in 0..Len(b)
    BY <1>3, <2>1
  <2>3. g[p] > 0
    BY <1>3, <1>5, <2>1
  <2> HIDE DEF p
  <2>4. g[p + 1] = g[p] * Base + b[p + 1]
    BY <1>2, <2>2 DEF Counts
  <2>5. g[p] \in Nat /\ b[p + 1] \in Nat
    BY <1>2, <2>2, CountsNat, DigitRange
  <2>6. g[p] * Base > 0
    BY <2>3, <2>5, BaseAssumption
  <2>7. QED
    BY <2>4, <2>5, <2>6, BaseAssumption DEF p
<1> HIDE DEF S
<1> DEFINE k == Len(b) - Len(a)
<1>6. k \in Nat /\ k - 1 \in Nat /\ (k - 1) + 1 = k /\ k <= Len(b) /\ Len(b) = Len(a) + k /\ 0 + k = k
  BY <1>3
<1> HIDE DEF k
<1>7. k - 1 \in S
  BY <1>4, <1>5, <1>6, Induction
<1>8. g[k] > 0
  BY <1>6, <1>7 DEF S
<1>9. f[0] < g[0 + k]
  BY <1>1, <1>6, <1>8 DEF Counts
<1>10. 0 \in 0..Len(a)
  BY <1>3
<1>11. QED
  BY <1>1, <1>2, <1>6, <1>9, <1>10, StaysLess

(* The first difference between two numbers of one length decides.         *)
LEMMA DifferenceDecides ==
  ASSUME NEW a \in String, OnlyDigits(a), NEW b \in String, OnlyDigits(b), Len(a) = Len(b),
         NEW i \in DOMAIN a, a[i] < b[i], \A j \in 1..(i - 1) : a[j] = b[j]
  PROVE  Value(a) < Value(b)
<1>1. PICK f : Counts(f, a) /\ Value(a) = f[Len(a)]
  BY ValueCounts
<1>2. PICK g : Counts(g, b) /\ Value(b) = g[Len(b)]
  BY ValueCounts
<1>3. Len(a) \in Nat /\ DOMAIN a = 1..Len(a) /\ DOMAIN b = 1..Len(a)
  BY Characters
<1> DEFINE S == {m \in Nat : m <= i - 1 => f[m] = g[m]}
<1>4. 0 \in S
  BY <1>1, <1>2 DEF Counts
<1>5. ASSUME NEW m \in Nat, m \in S
      PROVE  m + 1 \in S
  <2>1. SUFFICES ASSUME m + 1 <= i - 1
                 PROVE  f[m + 1] = g[m + 1]
    OBVIOUS
  <2>2. m + 1 \in 1..Len(a) /\ (m + 1) - 1 = m /\ m + 1 \in 1..(i - 1)
    BY <1>3, <2>1
  <2>3. f[m + 1] = f[m] * Base + a[m + 1] /\ g[m + 1] = g[m] * Base + b[m + 1]
    BY <1>1, <1>2, <2>2 DEF Counts
  <2>4. f[m] = g[m]
    BY <1>3, <1>5, <2>1
  <2>5. QED
    BY <2>2, <2>3, <2>4
<1> HIDE DEF S
<1>6. i - 1 \in Nat /\ i \in 1..Len(a) /\ i - 1 \in 0..Len(a) /\ i + 0 = i /\ i \in 0..Len(a)
  BY <1>3
<1>7. i - 1 \in S
  BY <1>4, <1>5, <1>6, Induction
<1>8. f[i - 1] = g[i - 1]
  BY <1>6, <1>7 DEF S
<1>9. f[i] = f[i - 1] * Base + a[i] /\ g[i] = g[i - 1] * Base + b[i]
  BY <1>1, <1>2, <1>6 DEF Counts
<1>10. a[i] \in Nat /\ b[i] \in Nat /\ f[i - 1] \in Nat
  BY <1>1, <1>3, <1>6, DigitRange, CountsNat
<1>11. f[i - 1] * Base \in Nat
  BY <1>10, BaseAssumption
<1>12. f[i] < g[i + 0]
  BY <1>6, <1>8, <1>9, <1>10, <1>11
<1>13. 0 \in Nat /\ Len(b) = Len(a) + 0
  BY <1>3
<1>14. QED
  BY <1>1, <1>2, <1>6, <1>12, <1>13, StaysLess

-----------------------------------------------------------------------------
(* The loops over the characters of two strings.                           *)

(* Two strings differ first in one place only.                             *)
LEMMA DiffersOnce ==
  ASSUME NEW a \in String, NEW b \in String, NEW i, NEW j,
         DiffersAt(a, b, i), DiffersAt(a, b, j)
  PROVE  i = j
<1>1. i \in Nat /\ j \in Nat /\ i >= 1 /\ j >= 1
  BY Characters DEF DiffersAt
<1>2. ~(i < j)
  BY <1>1 DEF DiffersAt
<1>3. ~(j < i)
  BY <1>1 DEF DiffersAt
<1>4. QED
  BY <1>1, <1>2, <1>3

(* Strings that differ within the shorter one have a first difference.     *)
LEMMA FirstDifference ==
  ASSUME NEW a \in String, NEW b \in String,
         NEW k \in DOMAIN a, k \in DOMAIN b, a[k] # b[k]
  PROVE  \E i \in DOMAIN a : DiffersAt(a, b, i)
<1> DEFINE D == {j \in DOMAIN a : j \in DOMAIN b /\ a[j] # b[j]}
<1>1. D \subseteq Nat /\ D # {}
  BY Characters
<1>2. PICK i \in D : \A j \in D : i <= j
  <2> HIDE DEF D
  <2>1. QED
    BY <1>1, LeastNatural
<1>3. ASSUME NEW j \in 1..(i - 1)
      PROVE  a[j] = b[j]
  <2>1. j \in DOMAIN a /\ j \in DOMAIN b /\ ~(i <= j)
    BY Characters
  <2>2. QED
    BY <2>1, <1>2
<1>4. QED
  BY <1>2, <1>3 DEF DiffersAt

(* What the loop finds: the first difference decides, and without one the  *)
(* shorter string begins the longer.                                       *)
LEMMA LoopCases ==
  ASSUME NEW a \in String, NEW b \in String
  PROVE  /\ LoopCompare(a, b) = "greater" <=> \E i \in DOMAIN a : DiffersAt(a, b, i) /\ a[i] > b[i]
         /\ LoopCompare(a, b) = "less" <=> \E i \in DOMAIN a : DiffersAt(a, b, i) /\ a[i] < b[i]
         /\ LoopCompare(a, b) = "equal" <=> \A i \in DOMAIN a \cap DOMAIN b : a[i] = b[i]
         /\ LoopCompare(a, b) \in {"less", "equal", "greater"}
<1> DEFINE above == \E i \in DOMAIN a : DiffersAt(a, b, i) /\ a[i] > b[i]
           below == \E i \in DOMAIN a : DiffersAt(a, b, i) /\ a[i] < b[i]
           agree == \A i \in DOMAIN a \cap DOMAIN b : a[i] = b[i]
<1>1. LoopCompare(a, b) = IF above THEN "greater" ELSE IF below THEN "less" ELSE "equal"
  BY DEF LoopCompare
<1>2. ~(above /\ below)
  <2>1. SUFFICES ASSUME NEW i \in DOMAIN a, NEW j \in DOMAIN a,
                        DiffersAt(a, b, i), a[i] > b[i], DiffersAt(a, b, j), a[j] < b[j]
                 PROVE  FALSE
    OBVIOUS
  <2>2. i = j
    BY <2>1, DiffersOnce
  <2>3. a[i] \in Int /\ b[i] \in Int
    BY <2>1, Characters DEF DiffersAt
  <2>4. QED
    BY <2>1, <2>2, <2>3
<1>3. agree => ~above /\ ~below
  BY DEF DiffersAt
<1>4. above \/ below \/ agree
  <2>1. SUFFICES ASSUME NEW k \in DOMAIN a, k \in DOMAIN b, a[k] # b[k]
                 PROVE  above \/ below
    OBVIOUS
  <2>2. PICK i \in DOMAIN a : DiffersAt(a, b, i)
    BY <2>1, FirstDifference
  <2>3. a[i] \in Int /\ b[i] \in Int /\ a[i] # b[i]
    BY <2>2, Characters DEF DiffersAt
  <2>4. a[i] > b[i] \/ a[i] < b[i]
    BY <2>3
  <2>5. QED
    BY <2>2, <2>4
<1> HIDE DEF above, below, agree
<1>5. /\ LoopCompare(a, b) = "greater" <=> above
      /\ LoopCompare(a, b) = "less" <=> below
      /\ LoopCompare(a, b) = "equal" <=> agree
      /\ LoopCompare(a, b) \in {"less", "equal", "greater"}
  BY <1>1, <1>2, <1>3, <1>4
<1>6. QED
  BY <1>5 DEF above, below, agree

LEMMA LoopSwapped ==
  ASSUME NEW a \in String, NEW b \in String
  PROVE  LoopCompare(b, a) = Swapped[LoopCompare(a, b)]
<1>1. \A i : DiffersAt(a, b, i) <=> DiffersAt(b, a, i)
  BY DEF DiffersAt
<1>2. \A i : DiffersAt(a, b, i) => i \in DOMAIN a /\ i \in DOMAIN b /\ a[i] \in Int /\ b[i] \in Int
  BY Characters DEF DiffersAt
<1>3. LoopCompare(a, b) = "greater" <=> LoopCompare(b, a) = "less"
  BY <1>1, <1>2, LoopCases
<1>4. LoopCompare(a, b) = "less" <=> LoopCompare(b, a) = "greater"
  BY <1>1, <1>2, LoopCases
<1>5. QED
  BY <1>3, <1>4, LoopCases DEF Swapped

(* Once below, always below: the earlier of two differences decides.       *)
LEMMA LoopTransitive ==
  ASSUME NEW a \in String, NEW b \in String, NEW c \in String,
         LoopCompare(a, b) = "less", LoopCompare(b, c) = "less"
  PROVE  LoopCompare(a, c) = "less"
<1>1. PICK i \in DOMAIN a : DiffersAt(a, b, i) /\ a[i] < b[i]
  BY LoopCases
<1>2. PICK j \in DOMAIN b : DiffersAt(b, c, j) /\ b[j] < c[j]
  BY LoopCases
<1>3. /\ i \in DOMAIN b /\ j \in DOMAIN c /\ i \in Nat /\ j \in Nat
      /\ a[i] \in Int /\ b[i] \in Int /\ b[j] \in Int /\ c[j] \in Int
  BY <1>1, <1>2, Characters DEF DiffersAt
<1>4. CASE i < j
  <2>1. i \in DOMAIN c /\ b[i] = c[i]
    BY <1>1, <1>2, <1>3, <1>4, Characters DEF DiffersAt
  <2>2. DiffersAt(a, c, i)
    BY <1>1, <1>2, <1>3, <1>4, <2>1 DEF DiffersAt
  <2>3. QED
    BY <1>1, <2>1, <2>2, LoopCases
<1>5. CASE i = j
  <2>1. a[i] < c[i]
    BY <1>1, <1>2, <1>3, <1>5
  <2>2. DiffersAt(a, c, i)
    BY <1>1, <1>2, <1>3, <1>5, <2>1 DEF DiffersAt
  <2>3. QED
    BY <2>1, <2>2, LoopCases
<1>6. CASE j < i
  <2>1. j \in DOMAIN a /\ a[j] = b[j]
    BY <1>1, <1>2, <1>3, <1>6, Characters DEF DiffersAt
  <2>2. DiffersAt(a, c, j)
    BY <1>1, <1>2, <1>3, <1>6, <2>1 DEF DiffersAt
  <2>3. QED
    BY <1>2, <2>1, <2>2, LoopCases
<1>7. QED
  BY <1>3, <1>4, <1>5, <1>6

-----------------------------------------------------------------------------
(* The comparison of numbers: by length, then by the first difference.     *)

LEMMA SizeCases ==
  ASSUME NEW a \in String, NEW b \in String
  PROVE  /\ SizeCompare(a, b) = "greater" <=> Len(a) > Len(b)
         /\ SizeCompare(a, b) = "less" <=> Len(a) < Len(b)
         /\ SizeCompare(a, b) = "equal" <=> Len(a) = Len(b)
         /\ SizeCompare(a, b) \in {"less", "equal", "greater"}
BY Characters DEF SizeCompare

LEMMA NumberCompareOrder ==
  ASSUME NEW a \in String, NEW b \in String
  PROVE  /\ NumberCompare(a, b) \in {"less", "equal", "greater"}
         /\ NumberCompare(b, a) = Swapped[NumberCompare(a, b)]
         /\ NumberCompare(a, b) = "equal" <=> a = b
<1>1. Len(a) \in Nat /\ Len(b) \in Nat
  BY Characters
<1>2. CASE Len(a) # Len(b)
  <2>1. /\ NumberCompare(a, b) = SizeCompare(a, b)
        /\ NumberCompare(b, a) = SizeCompare(b, a)
    BY <1>2 DEF NumberCompare
  <2>2. \/ Len(a) < Len(b) /\ ~(Len(b) < Len(a))
        \/ Len(b) < Len(a) /\ ~(Len(a) < Len(b))
    BY <1>1, <1>2
  <2>3. a # b
    BY <1>2
  <2>4. QED
    BY <1>1, <1>2, <2>1, <2>2, <2>3, SizeCases DEF Swapped
<1>3. CASE Len(a) = Len(b)
  <2>1. /\ NumberCompare(a, b) = LoopCompare(a, b)
        /\ NumberCompare(b, a) = LoopCompare(b, a)
    BY <1>3 DEF NumberCompare
  <2>2. LoopCompare(a, b) = "equal" => a = b
    BY <1>3, LoopCases, NoDifference
  <2>3. a = b => LoopCompare(a, b) = "equal"
    BY LoopCases
  <2>4. QED
    BY <2>1, <2>2, <2>3, LoopSwapped, LoopCases
<1>4. QED
  BY <1>2, <1>3

(* On numbers without leading zeros the answer is that of their values.    *)
LEMMA NumberCompareValues ==
  ASSUME NEW a \in String, IsNumber(a), NEW b \in String, IsNumber(b)
  PROVE  /\ NumberCompare(a, b) = "less" <=> Value(a) < Value(b)
         /\ Value(a) = Value(b) => a = b
<1>1. ASSUME NEW s \in String, IsNumber(s), NEW t \in String, IsNumber(t),
             NumberCompare(s, t) = "less"
      PROVE  Value(s) < Value(t)
  <2>1. Len(s) \in Nat /\ Len(t) \in Nat /\ OnlyDigits(s) /\ OnlyDigits(t)
    BY <1>1, Characters DEF IsNumber
  <2>2. CASE Len(s) # Len(t)
    <3>1. Len(s) < Len(t)
      BY <1>1, <2>2, SizeCases DEF NumberCompare
    <3>2. s # <<>>
      BY <1>1 DEF IsNumber
    <3>3. Len(s) # 0
      BY <3>2 DEF String
    <3>4. t[1] # 0
      BY <1>1, <2>1, <3>1, <3>3 DEF IsNumber
    <3>5. QED
      BY <2>1, <3>1, <3>4, LongerIsGreater
  <2>3. CASE Len(s) = Len(t)
    <3>1. PICK i \in DOMAIN s : DiffersAt(s, t, i) /\ s[i] < t[i]
      BY <1>1, <2>3, LoopCases DEF NumberCompare
    <3>2. \A j \in 1..(i - 1) : s[j] = t[j]
      BY <3>1 DEF DiffersAt
    <3>3. QED
      BY <2>1, <2>3, <3>1, <3>2, DifferenceDecides
  <2>4. QED
    BY <2>2, <2>3
<1>2. Value(a) \in Nat /\ Value(b) \in Nat
  BY ValueType DEF IsNumber
<1>3. NumberCompare(a, b) = "less" => Value(a) < Value(b)
  BY <1>1
<1>4. NumberCompare(a, b) = "greater" => Value(b) < Value(a)
  <2>1. NumberCompare(a, b) = "greater" => NumberCompare(b, a) = "less"
    BY NumberCompareOrder DEF Swapped
  <2>2. QED
    BY <1>1, <2>1
<1>5. NumberCompare(a, b) = "equal" => a = b
  BY NumberCompareOrder
<1>6. NumberCompare(a, b) \in {"less", "equal", "greater"}
  BY NumberCompareOrder
<1> HIDE DEF NumberCompare
<1>7. QED
  BY <1>2, <1>3, <1>4, <1>5, <1>6

LEMMA NumberCompareTransitive ==
  ASSUME NEW a \in String, NEW b \in String, NEW c \in String,
         NumberCompare(a, b) = "less", NumberCompare(b, c) = "less"
  PROVE  NumberCompare(a, c) = "less"
<1>1. Len(a) \in Nat /\ Len(b) \in Nat /\ Len(c) \in Nat
  BY Characters
<1>2. /\ Len(a) < Len(b) \/ (Len(a) = Len(b) /\ LoopCompare(a, b) = "less")
      /\ Len(b) < Len(c) \/ (Len(b) = Len(c) /\ LoopCompare(b, c) = "less")
  BY <1>1, SizeCases DEF NumberCompare
<1>3. Len(a) < Len(c) \/ (Len(a) = Len(c) /\ LoopCompare(a, c) = "less")
  <2>1. LoopCompare(a, b) = "less" /\ LoopCompare(b, c) = "less" => LoopCompare(a, c) = "less"
    BY LoopTransitive
  <2>2. QED
    BY <1>1, <1>2, <2>1
<1>4. SizeCompare(a, c) = "less" <=> Len(a) < Len(c)
  BY SizeCases
<1>5. QED
  BY <1>1, <1>3, <1>4 DEF NumberCompare

-----------------------------------------------------------------------------
(* The comparison of pre-releases that are not digits: by the first        *)
(* difference, then by length.                                             *)

LEMMA TagCompareOrder ==
  ASSUME NEW a \in String, NEW b \in String
  PROVE  /\ TagCompare(a, b) \in {"less", "equal", "greater"}
         /\ TagCompare(b, a) = Swapped[TagCompare(a, b)]
         /\ TagCompare(a, b) = "equal" <=> a = b
<1>1. Len(a) \in Nat /\ Len(b) \in Nat
  BY Characters
<1>2. LoopCompare(b, a) = Swapped[LoopCompare(a, b)]
  BY LoopSwapped
<1>3. CASE LoopCompare(a, b) # "equal"
  <2>1. LoopCompare(a, b) \in {"less", "greater"}
    BY <1>3, LoopCases
  <2>2. LoopCompare(b, a) \in {"less", "greater"}
    BY <1>2, <2>1 DEF Swapped
  <2>3. /\ TagCompare(a, b) = LoopCompare(a, b)
        /\ TagCompare(b, a) = LoopCompare(b, a)
    BY <2>1, <2>2 DEF TagCompare
  <2>4. a # b
    BY <2>1, LoopCases
  <2>5. QED
    BY <1>2, <2>1, <2>3, <2>4
<1>4. CASE LoopCompare(a, b) = "equal"
  <2>1. LoopCompare(b, a) = "equal"
    BY <1>2, <1>4 DEF Swapped
  <2>2. /\ TagCompare(a, b) = SizeCompare(a, b)
        /\ TagCompare(b, a) = SizeCompare(b, a)
    BY <1>4, <2>1 DEF TagCompare
  <2>3. Len(a) = Len(b) => a = b
    BY <1>4, LoopCases, NoDifference
  <2>4. SizeCompare(b, a) = Swapped[SizeCompare(a, b)]
    BY <1>1 DEF SizeCompare, Swapped
  <2>5. QED
    BY <2>2, <2>3, <2>4, SizeCases
<1>5. QED
  BY <1>3, <1>4

LEMMA TagCompareTransitive ==
  ASSUME NEW a \in String, NEW b \in String, NEW c \in String,
         TagCompare(a, b) = "less", TagCompare(b, c) = "less"
  PROVE  TagCompare(a, c) = "less"
<1> DEFINE Begins(s, t) == Len(s) < Len(t) /\ \A i \in 1..Len(s) : s[i] = t[i]
<1>1. Len(a) \in Nat /\ Len(b) \in Nat /\ Len(c) \in Nat
  BY Characters
<1>2. ASSUME NEW s \in String, NEW t \in String
      PROVE  TagCompare(s, t) = "less" <=> LoopCompare(s, t) = "less" \/ Begins(s, t)
  <2>1. Len(s) \in Nat /\ Len(t) \in Nat /\ DOMAIN s = 1..Len(s) /\ DOMAIN t = 1..Len(t)
    BY Characters
  <2>2. Begins(s, t) <=> LoopCompare(s, t) = "equal" /\ SizeCompare(s, t) = "less"
    <3>1. Len(s) < Len(t) => DOMAIN s \cap DOMAIN t = 1..Len(s)
      BY <2>1
    <3>2. QED
      BY <3>1, LoopCases, SizeCases
  <2>3. QED
    BY <2>2, LoopCases DEF TagCompare
<1>3. CASE LoopCompare(a, b) = "less" /\ LoopCompare(b, c) = "less"
  BY <1>2, <1>3, LoopTransitive
<1>4. CASE LoopCompare(a, b) = "less" /\ Begins(b, c)
  <2>1. PICK i \in DOMAIN a : DiffersAt(a, b, i) /\ a[i] < b[i]
    BY <1>4, LoopCases
  <2>2. i \in DOMAIN b /\ i \in 1..Len(b) /\ i \in DOMAIN c
    BY <1>1, <1>4, <2>1, Characters DEF DiffersAt
  <2>3. \A j \in 1..i : b[j] = c[j]
    BY <1>1, <1>4, <2>2
  <2>4. DiffersAt(a, c, i) /\ a[i] < c[i]
    BY <2>1, <2>2, <2>3 DEF DiffersAt
  <2>5. QED
    BY <1>2, <2>4, LoopCases
<1>5. CASE Begins(a, b) /\ LoopCompare(b, c) = "less"
  <2>1. PICK j \in DOMAIN b : DiffersAt(b, c, j) /\ b[j] < c[j]
    BY <1>5, LoopCases
  <2>2. j \in 1..Len(b) /\ j \in 1..Len(c)
    BY <2>1, Characters DEF DiffersAt
  <2>3. CASE j <= Len(a)
    <3>1. j \in DOMAIN a /\ j \in DOMAIN c
      BY <1>1, <2>2, <2>3, Characters
    <3>2. \A k \in 1..j : a[k] = b[k]
      BY <1>1, <1>5, <2>2, <2>3
    <3>3. DiffersAt(a, c, j) /\ a[j] < c[j]
      BY <2>1, <2>2, <3>1, <3>2 DEF DiffersAt
    <3>4. QED
      BY <1>2, <3>1, <3>3, LoopCases
  <2>4. CASE ~(j <= Len(a))
    <3>1. \A k \in 1..Len(a) : k \in 1..(j - 1)
      BY <1>1, <2>2, <2>4
    <3>2. Begins(a, c)
      BY <1>1, <1>5, <2>1, <2>2, <2>4, <3>1 DEF DiffersAt
    <3>3. QED
      BY <1>2, <3>2
  <2>5. QED
    BY <2>3, <2>4
<1>6. CASE Begins(a, b) /\ Begins(b, c)
  <2>1. Begins(a, c)
    BY <1>1, <1>6
  <2>2. QED
    BY <1>2, <2>1
<1>7. QED
  BY <1>2, <1>3, <1>4, <1>5, <1>6

-----------------------------------------------------------------------------
(* The comparison of pre-releases: what is not digits, then digits, then   *)
(* the release itself.                                                     *)

(* The kinds in their order.                                               *)
LEMMA PreCases ==
  ASSUME NEW a \in String, NEW b \in String
  PROVE  /\ a = b => PreCompare(a, b) = "equal"
         /\ a # b /\ a = <<>> => PreCompare(a, b) = "greater"
         /\ a # b /\ b = <<>> => PreCompare(a, b) = "less"
         /\ a # b /\ a # <<>> /\ b # <<>> =>
              PreCompare(a, b) = IF OnlyDigits(a) /\ ~OnlyDigits(b) THEN "greater"
                                 ELSE IF ~OnlyDigits(a) /\ OnlyDigits(b) THEN "less"
                                 ELSE IF OnlyDigits(a) THEN NumberCompare(a, b)
                                 ELSE TagCompare(a, b)
<1>1. CASE a = b
  BY <1>1 DEF PreCompare
<1>2. CASE a # b /\ a = <<>>
  <2>1. b # <<>>
    BY <1>2
  <2>2. PreCompare(a, b) = "greater"
    BY <1>2, <2>1 DEF PreCompare
  <2>3. QED
    BY <1>2, <2>1, <2>2
<1>3. CASE a # b /\ a # <<>> /\ b = <<>>
  BY <1>3 DEF PreCompare
<1>4. CASE a # b /\ a # <<>> /\ b # <<>>
  BY <1>4 DEF PreCompare
<1>5. QED
  BY <1>1, <1>2, <1>3, <1>4

LEMMA PreCompareOrder ==
  ASSUME NEW a \in String, NEW b \in String
  PROVE  /\ PreCompare(a, b) \in {"less", "equal", "greater"}
         /\ PreCompare(b, a) = Swapped[PreCompare(a, b)]
         /\ PreCompare(a, b) = "equal" <=> a = b
<1>1. CASE a = b
  BY <1>1, PreCases DEF Swapped
<1>2. CASE a # b /\ (a = <<>> \/ b = <<>>)
  BY <1>2, PreCases DEF Swapped
<1>3. CASE a # b /\ a # <<>> /\ b # <<>>
  <2>1. /\ NumberCompare(a, b) \in {"less", "greater"}
        /\ NumberCompare(b, a) = Swapped[NumberCompare(a, b)]
    BY <1>3, NumberCompareOrder
  <2>2. /\ TagCompare(a, b) \in {"less", "greater"}
        /\ TagCompare(b, a) = Swapped[TagCompare(a, b)]
    BY <1>3, TagCompareOrder
  <2>3. /\ PreCompare(a, b) = IF OnlyDigits(a) /\ ~OnlyDigits(b) THEN "greater"
                              ELSE IF ~OnlyDigits(a) /\ OnlyDigits(b) THEN "less"
                              ELSE IF OnlyDigits(a) THEN NumberCompare(a, b)
                              ELSE TagCompare(a, b)
        /\ PreCompare(b, a) = IF OnlyDigits(b) /\ ~OnlyDigits(a) THEN "greater"
                              ELSE IF ~OnlyDigits(b) /\ OnlyDigits(a) THEN "less"
                              ELSE IF OnlyDigits(b) THEN NumberCompare(b, a)
                              ELSE TagCompare(b, a)
    BY <1>3, PreCases
  <2>4. QED
    BY <1>3, <2>1, <2>2, <2>3 DEF Swapped
<1>4. QED
  BY <1>1, <1>2, <1>3

LEMMA PreCompareTransitive ==
  ASSUME NEW a \in String, NEW b \in String, NEW c \in String,
         PreCompare(a, b) = "less", PreCompare(b, c) = "less"
  PROVE  PreCompare(a, c) = "less"
<1>1. a # b /\ b # c /\ a # <<>> /\ b # <<>>
  BY PreCases
<1>2. CASE c = <<>>
  BY <1>1, <1>2, PreCases
<1>3. CASE c # <<>>
  <2>1. /\ \/ ~OnlyDigits(a) /\ OnlyDigits(b)
           \/ OnlyDigits(a) /\ OnlyDigits(b) /\ NumberCompare(a, b) = "less"
           \/ ~OnlyDigits(a) /\ ~OnlyDigits(b) /\ TagCompare(a, b) = "less"
        /\ \/ ~OnlyDigits(b) /\ OnlyDigits(c)
           \/ OnlyDigits(b) /\ OnlyDigits(c) /\ NumberCompare(b, c) = "less"
           \/ ~OnlyDigits(b) /\ ~OnlyDigits(c) /\ TagCompare(b, c) = "less"
    BY <1>1, <1>3, PreCases
  <2>2. \/ ~OnlyDigits(a) /\ OnlyDigits(c)
        \/ OnlyDigits(a) /\ OnlyDigits(c) /\ NumberCompare(a, c) = "less"
        \/ ~OnlyDigits(a) /\ ~OnlyDigits(c) /\ TagCompare(a, c) = "less"
    BY <2>1, NumberCompareTransitive, TagCompareTransitive
  <2>3. a # c
    BY <2>2, NumberCompareOrder, TagCompareOrder
  <2>4. QED
    BY <1>1, <1>3, <2>2, <2>3, PreCases
<1>4. QED
  BY <1>2, <1>3

-----------------------------------------------------------------------------
(* operator<=>.                                                            *)

(* The fields that are compared, in their order: the first that differs    *)
(* decides.                                                                *)
LEMMA CompareOrder ==
  ASSUME NEW v \in Version, NEW w \in Version
  PROVE  /\ Compare(v, w) \in {"less", "equal", "greater"}
         /\ Compare(w, v) = Swapped[Compare(v, w)]
         /\ Compare(v, w) = "equal" <=>
              v.major = w.major /\ v.minor = w.minor /\ v.patch = w.patch /\ v.pre = w.pre
<1>1. /\ v.major \in String /\ v.minor \in String /\ v.patch \in String /\ v.pre \in String
      /\ w.major \in String /\ w.minor \in String /\ w.patch \in String /\ w.pre \in String
  BY DEF Version
<1>2. CASE v.major # w.major
  <2>1. Compare(v, w) = NumberCompare(v.major, w.major) /\ Compare(w, v) = NumberCompare(w.major, v.major)
    BY <1>2 DEF Compare
  <2>2. QED
    BY <1>1, <1>2, <2>1, NumberCompareOrder
<1>3. CASE v.major = w.major /\ v.minor # w.minor
  <2>1. Compare(v, w) = NumberCompare(v.minor, w.minor) /\ Compare(w, v) = NumberCompare(w.minor, v.minor)
    BY <1>3 DEF Compare
  <2>2. QED
    BY <1>1, <1>3, <2>1, NumberCompareOrder
<1>4. CASE v.major = w.major /\ v.minor = w.minor /\ v.patch # w.patch
  <2>1. Compare(v, w) = NumberCompare(v.patch, w.patch) /\ Compare(w, v) = NumberCompare(w.patch, v.patch)
    BY <1>4 DEF Compare
  <2>2. QED
    BY <1>1, <1>4, <2>1, NumberCompareOrder
<1>5. CASE v.major = w.major /\ v.minor = w.minor /\ v.patch = w.patch
  <2>1. Compare(v, w) = PreCompare(v.pre, w.pre) /\ Compare(w, v) = PreCompare(w.pre, v.pre)
    BY <1>5 DEF Compare
  <2>2. QED
    BY <1>1, <1>5, <2>1, PreCompareOrder
<1>6. QED
  BY <1>2, <1>3, <1>4, <1>5

LEMMA LessTransitive ==
  ASSUME NEW u \in Version, NEW v \in Version, NEW w \in Version, Less(u, v), Less(v, w)
  PROVE  Less(u, w)
<1>1. \A t \in {u, v, w} :
        t.major \in String /\ t.minor \in String /\ t.patch \in String /\ t.pre \in String
  BY DEF Version
<1>2. \A a, b \in String : NumberCompare(a, b) = "less" => NumberCompare(b, a) # "less"
  BY NumberCompareOrder DEF Swapped
<1>3. \A a, b, c \in String :
        NumberCompare(a, b) = "less" /\ NumberCompare(b, c) = "less" => NumberCompare(a, c) = "less"
  BY NumberCompareTransitive
<1>4. \A a, b, c \in String :
        PreCompare(a, b) = "less" /\ PreCompare(b, c) = "less" => PreCompare(a, c) = "less"
  BY PreCompareTransitive
<1>5. QED
  BY <1>1, <1>2, <1>3, <1>4 DEF Less, Compare

(* Build metadata are not read.                                            *)
LEMMA CompareIgnoresBuild ==
  ASSUME NEW u \in Version, NEW v \in Version, NEW w, Compare(u, v) = "equal"
  PROVE  Compare(u, w) = Compare(v, w)
<1>1. u.major = v.major /\ u.minor = v.minor /\ u.patch = v.patch /\ u.pre = v.pre
  BY CompareOrder
<1>2. QED
  BY <1>1 DEF Compare

-----------------------------------------------------------------------------
(* Characters.                                                             *)

LEMMA CharacterFacts ==
  /\ {Dot, Dash, Plus, Space, Equal, LetterV} \subseteq Char
  /\ Digit \subseteq Char
  /\ Digit \cap {Dot, Dash, Plus, Space, Equal, LetterV} = {}
  /\ Space \notin {Equal, LetterV}
  /\ Dash # Plus
  /\ 0 \in Digit
BY BaseAssumption DEF Dot, Dash, Plus, Space, Equal, LetterV, Char, Digit, Tilde

LEMMA DigitsOnly ==
  ASSUME NEW s, OnlyDigits(s), NEW C, C \subseteq {Dot, Dash, Plus, Space, Equal, LetterV}
  PROVE  Chars(s) \cap C = {}
BY CharacterFacts DEF OnlyDigits

-----------------------------------------------------------------------------
(* The text of a version from each of its fields on.                       *)

FromBuild(v) == IF v.build = <<>> THEN <<>> ELSE <<Plus>> \o v.build
FromPre(v)   == v.pre \o FromBuild(v)
FromTail(v)  == (IF v.pre = <<>> THEN <<>> ELSE <<Dash>> \o v.pre) \o FromBuild(v)
FromPatch(v) == v.patch \o FromTail(v)
FromMinor(v) == v.minor \o (<<Dot>> \o FromPatch(v))
FromMajor(v) == v.major \o (<<Dot>> \o FromMinor(v))

LEMMA FieldTypes ==
  ASSUME NEW v \in Version
  PROVE  /\ v.major \in String /\ v.minor \in String /\ v.patch \in String
         /\ v.pre \in String /\ v.build \in String
BY DEF Version

LEMMA SignTypes ==
  <<Dot>> \in String /\ <<Dash>> \in String /\ <<Plus>> \in String /\ <<>> \in String
<1>1. Dot \in Char /\ Dash \in Char /\ Plus \in Char
  BY CharacterFacts
<1>2. QED
  BY <1>1 DEF String

LEMMA FromTypes ==
  ASSUME NEW v \in Version
  PROVE  /\ FromBuild(v) \in String /\ FromPre(v) \in String /\ FromTail(v) \in String
         /\ FromPatch(v) \in String /\ FromMinor(v) \in String /\ FromMajor(v) \in String
<1>1. FromBuild(v) \in String
  BY FieldTypes, SignTypes, ConcatType DEF FromBuild
<1>2. FromPre(v) \in String
  BY <1>1, FieldTypes, ConcatType DEF FromPre
<1>3. FromTail(v) \in String
  BY <1>1, FieldTypes, SignTypes, ConcatType DEF FromTail
<1>4. FromPatch(v) \in String
  BY <1>3, FieldTypes, ConcatType DEF FromPatch
<1>5. FromMinor(v) \in String
  BY <1>4, FieldTypes, SignTypes, ConcatType DEF FromMinor
<1>6. FromMajor(v) \in String
  BY <1>5, FieldTypes, SignTypes, ConcatType DEF FromMajor
<1>7. QED
  BY <1>1, <1>2, <1>3, <1>4, <1>5, <1>6

LEMMA TextFrom ==
  ASSUME NEW v \in Version
  PROVE  ToText(v) = FromMajor(v)
<1> DEFINE d  == <<Dot>>
           t  == IF v.pre = <<>> THEN <<>> ELSE <<Dash>> \o v.pre
           u  == FromBuild(v)
           p1 == v.major \o d
           p2 == p1 \o v.minor
           p3 == p2 \o d
           p4 == p3 \o v.patch
           q1 == t \o u
           q2 == v.patch \o q1
           q3 == d \o q2
           q4 == v.minor \o q3
<1>1. /\ d \in String /\ t \in String /\ u \in String
      /\ v.major \in String /\ v.minor \in String /\ v.patch \in String
  BY FieldTypes, FromTypes, SignTypes, ConcatType
<1>2. ToText(v) = (p4 \o t) \o u
  BY DEF ToText, FromBuild
<1>3. FromMajor(v) = v.major \o (d \o q4)
  BY DEF FromMajor, FromMinor, FromPatch, FromTail
<1> HIDE DEF d, t, u
<1>4. p1 \in String /\ p2 \in String /\ p3 \in String /\ p4 \in String
  BY <1>1, ConcatType
<1>5. q1 \in String /\ q2 \in String /\ q3 \in String /\ q4 \in String
  BY <1>1, ConcatType
<1> HIDE DEF p1, p2, p3, p4, q1, q2, q3, q4
<1>6. (p4 \o t) \o u = p4 \o q1
  <2>1. p4 \in String /\ t \in String /\ u \in String
    BY <1>1, <1>4, <1>5
  <2>2. (p4 \o t) \o u = p4 \o (t \o u)
    BY <2>1, ConcatAssociates
  <2>3. QED
    BY <2>2 DEF q1
<1>7. p4 \o q1 = p3 \o q2
  <2>1. p3 \in String /\ v.patch \in String /\ q1 \in String
    BY <1>1, <1>4, <1>5
  <2>2. (p3 \o v.patch) \o q1 = p3 \o (v.patch \o q1)
    BY <2>1, ConcatAssociates
  <2>3. QED
    BY <2>2 DEF p4, q2
<1>8. p3 \o q2 = p2 \o q3
  <2>1. p2 \in String /\ d \in String /\ q2 \in String
    BY <1>1, <1>4, <1>5
  <2>2. (p2 \o d) \o q2 = p2 \o (d \o q2)
    BY <2>1, ConcatAssociates
  <2>3. QED
    BY <2>2 DEF p3, q3
<1>9. p2 \o q3 = p1 \o q4
  <2>1. p1 \in String /\ v.minor \in String /\ q3 \in String
    BY <1>1, <1>4, <1>5
  <2>2. (p1 \o v.minor) \o q3 = p1 \o (v.minor \o q3)
    BY <2>1, ConcatAssociates
  <2>3. QED
    BY <2>2 DEF p2, q4
<1>10. p1 \o q4 = v.major \o (d \o q4)
  <2>1. v.major \in String /\ d \in String /\ q4 \in String
    BY <1>1, <1>4, <1>5
  <2>2. (v.major \o d) \o q4 = v.major \o (d \o q4)
    BY <2>1, ConcatAssociates
  <2>3. QED
    BY <2>2 DEF p1
<1>11. QED
  BY <1>2, <1>3, <1>6, <1>7, <1>8, <1>9, <1>10

LEMMA TailCases ==
  ASSUME NEW v \in Version
  PROVE  /\ v.pre # <<>> => FromTail(v) = <<Dash>> \o FromPre(v)
         /\ v.pre = <<>> /\ v.build # <<>> => FromTail(v) = <<Plus>> \o v.build
         /\ v.pre = <<>> /\ v.build = <<>> => FromTail(v) = <<>>
<1>1. v.pre \in String /\ FromBuild(v) \in String /\ <<Dash>> \in String
  BY FieldTypes, FromTypes, SignTypes
<1>2. v.pre # <<>> => FromTail(v) = <<Dash>> \o FromPre(v)
  BY <1>1, ConcatAssociates DEF FromTail, FromPre
<1>3. v.pre = <<>> => FromTail(v) = FromBuild(v)
  BY <1>1, EmptyConcat DEF FromTail
<1>4. QED
  BY <1>2, <1>3 DEF FromBuild

-----------------------------------------------------------------------------
(* What cutting the text of a version at its signs returns.                *)

LEMMA ReadMajor ==
  ASSUME NEW v \in Version, OnlyDigits(v.major), NEW C, C = {Dot}
  PROVE  CutsInto(FromMajor(v), C, v.major, Dot, FromMinor(v))
<1>1. v.major \in String /\ FromMinor(v) \in String /\ Dot \in Char
  BY FieldTypes, FromTypes, CharacterFacts
<1>2. Chars(v.major) \cap C = {} /\ Dot \in C
  BY DigitsOnly
<1>3. FromMajor(v) = v.major \o (<<Dot>> \o FromMinor(v))
  BY DEF FromMajor
<1>4. QED
  BY <1>1, <1>2, <1>3, FindBehind

LEMMA ReadMinor ==
  ASSUME NEW v \in Version, OnlyDigits(v.minor), NEW C, C = {Dot}
  PROVE  CutsInto(FromMinor(v), C, v.minor, Dot, FromPatch(v))
<1>1. v.minor \in String /\ FromPatch(v) \in String /\ Dot \in Char
  BY FieldTypes, FromTypes, CharacterFacts
<1>2. Chars(v.minor) \cap C = {} /\ Dot \in C
  BY DigitsOnly
<1>3. FromMinor(v) = v.minor \o (<<Dot>> \o FromPatch(v))
  BY DEF FromMinor
<1>4. QED
  BY <1>1, <1>2, <1>3, FindBehind

LEMMA ReadPatch ==
  ASSUME NEW v \in Version, OnlyDigits(v.patch), NEW C, C = {Dash, Plus}, NEW r, r = FromPatch(v)
  PROVE  /\ Before(r, C) = v.patch
         /\ v.pre # <<>> => CutsInto(r, C, v.patch, Dash, FromPre(v))
         /\ v.pre = <<>> /\ v.build # <<>> => CutsInto(r, C, v.patch, Plus, v.build)
         /\ v.pre = <<>> /\ v.build = <<>> => ~Found(r, C)
<1>1. /\ v.patch \in String /\ FromPre(v) \in String /\ v.build \in String
      /\ Dash \in Char /\ Plus \in Char
  BY FieldTypes, FromTypes, CharacterFacts
<1>2. Chars(v.patch) \cap C = {} /\ Dash \in C /\ Plus \in C
  BY DigitsOnly
<1>3. CASE v.pre # <<>>
  <2>1. r = v.patch \o (<<Dash>> \o FromPre(v))
    BY <1>3, TailCases DEF FromPatch
  <2>2. CutsInto(r, C, v.patch, Dash, FromPre(v))
    BY <1>1, <1>2, <2>1, FindBehind
  <2>3. QED
    BY <1>3, <2>2 DEF CutsInto
<1>4. CASE v.pre = <<>> /\ v.build # <<>>
  <2>1. r = v.patch \o (<<Plus>> \o v.build)
    BY <1>4, TailCases DEF FromPatch
  <2>2. CutsInto(r, C, v.patch, Plus, v.build)
    BY <1>1, <1>2, <2>1, FindBehind
  <2>3. QED
    BY <1>4, <2>2 DEF CutsInto
<1>5. CASE v.pre = <<>> /\ v.build = <<>>
  <2>1. r = v.patch
    BY <1>1, <1>5, TailCases, EmptyConcat DEF FromPatch
  <2>2. QED
    BY <1>1, <1>2, <1>5, <2>1, FindNone
<1>6. QED
  BY <1>3, <1>4, <1>5

LEMMA ReadPre ==
  ASSUME NEW v \in Version, Plus \notin Chars(v.pre), NEW C, C = {Plus}, NEW r, r = FromPre(v)
  PROVE  /\ Before(r, C) = v.pre
         /\ v.build # <<>> => CutsInto(r, C, v.pre, Plus, v.build)
         /\ v.build = <<>> => ~Found(r, C)
<1>1. v.pre \in String /\ v.build \in String /\ Plus \in Char
  BY FieldTypes, CharacterFacts
<1>2. Chars(v.pre) \cap C = {} /\ Plus \in C
  OBVIOUS
<1>3. CASE v.build # <<>>
  <2>1. r = v.pre \o (<<Plus>> \o v.build)
    BY <1>3 DEF FromPre, FromBuild
  <2>2. CutsInto(r, C, v.pre, Plus, v.build)
    BY <1>1, <1>2, <2>1, FindBehind
  <2>3. QED
    BY <1>3, <2>2 DEF CutsInto
<1>4. CASE v.build = <<>>
  <2>1. r = v.pre
    BY <1>1, <1>4, EmptyConcat DEF FromPre, FromBuild
  <2>2. QED
    BY <1>1, <1>2, <1>4, <2>1, FindNone
<1>5. QED
  BY <1>3, <1>4

-----------------------------------------------------------------------------
(* The grammar is unambiguous: a string is the text of one version at most. *)

LEMMA VersionDigits ==
  ASSUME NEW v, IsVersion(v)
  PROVE  OnlyDigits(v.major) /\ OnlyDigits(v.minor) /\ OnlyDigits(v.patch) /\ Plus \notin Chars(v.pre)
BY DEF IsVersion, IsNumber

LEMMA SameFields ==
  ASSUME NEW v \in Version, NEW w \in Version,
         v.major = w.major, v.minor = w.minor, v.patch = w.patch,
         v.pre = w.pre, v.build = w.build
  PROVE  v = w
<1>1. /\ v = [major |-> v.major, minor |-> v.minor, patch |-> v.patch, pre |-> v.pre, build |-> v.build]
      /\ w = [major |-> w.major, minor |-> w.minor, patch |-> w.patch, pre |-> w.pre, build |-> w.build]
  BY DEF Version
<1>2. QED
  BY <1>1

LEMMA OneReading ==
  ASSUME NEW v \in Version, NEW w \in Version, IsVersion(v), IsVersion(w), ToText(v) = ToText(w)
  PROVE  v = w
<1> DEFINE D == {Dot}
           C == {Dash, Plus}
           E == {Plus}
<1>1. /\ OnlyDigits(v.major) /\ OnlyDigits(v.minor) /\ OnlyDigits(v.patch) /\ Plus \notin Chars(v.pre)
      /\ OnlyDigits(w.major) /\ OnlyDigits(w.minor) /\ OnlyDigits(w.patch) /\ Plus \notin Chars(w.pre)
  BY VersionDigits
<1>2. v.major = w.major /\ FromMinor(v) = FromMinor(w)
  <2>1. FromMajor(v) = FromMajor(w)
    BY TextFrom
  <2>2. CutsInto(FromMajor(v), D, v.major, Dot, FromMinor(v)) /\ CutsInto(FromMajor(w), D, w.major, Dot, FromMinor(w))
    BY <1>1, ReadMajor
  <2>3. QED
    BY <2>1, <2>2 DEF CutsInto
<1>3. v.minor = w.minor /\ FromPatch(v) = FromPatch(w)
  <2>1. CutsInto(FromMinor(v), D, v.minor, Dot, FromPatch(v)) /\ CutsInto(FromMinor(w), D, w.minor, Dot, FromPatch(w))
    BY <1>1, ReadMinor
  <2>2. QED
    BY <1>2, <2>1 DEF CutsInto
<1> DEFINE r == FromPatch(v)
<1>4. /\ Before(r, C) = v.patch
      /\ v.pre # <<>> => CutsInto(r, C, v.patch, Dash, FromPre(v))
      /\ v.pre = <<>> /\ v.build # <<>> => CutsInto(r, C, v.patch, Plus, v.build)
      /\ v.pre = <<>> /\ v.build = <<>> => ~Found(r, C)
  BY <1>1, ReadPatch
<1>5. /\ Before(r, C) = w.patch
      /\ w.pre # <<>> => CutsInto(r, C, w.patch, Dash, FromPre(w))
      /\ w.pre = <<>> /\ w.build # <<>> => CutsInto(r, C, w.patch, Plus, w.build)
      /\ w.pre = <<>> /\ w.build = <<>> => ~Found(r, C)
  BY <1>1, <1>3, ReadPatch
<1> HIDE DEF r, C, D
<1>6. /\ v.pre # <<>> <=> Found(r, C) /\ r[Find(r, C)] = Dash
      /\ w.pre # <<>> <=> Found(r, C) /\ r[Find(r, C)] = Dash
  BY <1>4, <1>5, CharacterFacts DEF CutsInto
<1>7. CASE v.pre # <<>>
  <2> DEFINE q == FromPre(v)
  <2>1. FromPre(w) = q
    BY <1>4, <1>5, <1>6, <1>7 DEF CutsInto
  <2>2. /\ Before(q, E) = v.pre
        /\ v.build # <<>> => CutsInto(q, E, v.pre, Plus, v.build)
        /\ v.build = <<>> => ~Found(q, E)
    BY <1>1, ReadPre
  <2>3. /\ Before(q, E) = w.pre
        /\ w.build # <<>> => CutsInto(q, E, w.pre, Plus, w.build)
        /\ w.build = <<>> => ~Found(q, E)
    BY <1>1, <2>1, ReadPre
  <2> HIDE DEF q, E
  <2>4. v.pre = w.pre /\ v.build = w.build
    BY <2>2, <2>3 DEF CutsInto
  <2>5. v.patch = w.patch
    BY <1>4, <1>5
  <2>6. QED
    BY <1>2, <1>3, <2>4, <2>5, SameFields
<1>8. CASE v.pre = <<>>
  <2>1. v.pre = w.pre /\ v.build = w.build /\ v.patch = w.patch
    BY <1>4, <1>5, <1>6, <1>8 DEF CutsInto
  <2>2. QED
    BY <1>2, <1>3, <2>1, SameFields
<1>9. QED
  BY <1>7, <1>8

-----------------------------------------------------------------------------
(* The readings of a string are the versions with its text.                *)

LEMMA FieldsAreVersion ==
  ASSUME NEW s \in String, NEW i \in 1..(Len(s) + 1), NEW j \in 1..(Len(s) + 1),
         NEW k \in 1..(Len(s) + 1), NEW l \in 1..(Len(s) + 1)
  PROVE  FieldsAt(s, i, j, k, l) \in Version
<1>1. Len(s) \in Nat
  BY Characters
<1>2. /\ i - 1 \in 0..Len(s) /\ j - 1 \in 0..Len(s) /\ k - 1 \in 0..Len(s) /\ l - 1 \in 0..Len(s)
      /\ i + 1 \in Nat \ {0} /\ j + 1 \in Nat \ {0} /\ k + 1 \in Nat \ {0} /\ l + 1 \in Nat \ {0}
      /\ 1 \in Nat \ {0} /\ Len(s) \in 0..Len(s)
  BY <1>1
<1>3. /\ SubSeq(s, 1, i - 1) \in String /\ SubSeq(s, i + 1, j - 1) \in String
      /\ SubSeq(s, j + 1, k - 1) \in String /\ SubSeq(s, k + 1, l - 1) \in String
      /\ SubSeq(s, l + 1, Len(s)) \in String
  BY <1>2, SubSeqType
<1>4. QED
  BY <1>3 DEF FieldsAt, Version

LEMMA VersionHasFields ==
  ASSUME NEW v \in Version, IsVersion(v), NEW s, s = ToText(v)
  PROVE  \E i \in {n \in DOMAIN s : s[n] = Dot}, j \in {n \in DOMAIN s : s[n] = Dot},
            k \in {n \in DOMAIN s : s[n] \in {Dash, Plus}} \cup {Len(s) + 1},
            l \in {n \in DOMAIN s : s[n] = Plus} \cup {Len(s) + 1} : v = FieldsAt(s, i, j, k, l)
<1> DEFINE D == {Dot}
           C == {Dash, Plus}
           E == {Plus}
<1>1. s \in String /\ s = FromMajor(v) /\ Len(s) \in Nat /\ DOMAIN s = 1..Len(s)
  BY TextFrom, FromTypes, Characters
<1>2. OnlyDigits(v.major) /\ OnlyDigits(v.minor) /\ OnlyDigits(v.patch) /\ Plus \notin Chars(v.pre)
  BY VersionDigits
<1>3. PICK i \in 1..Len(s) : s[i] = Dot /\ SubSeq(s, 1, i - 1) = v.major /\ Skip(s, i) = FromMinor(v)
  <2>1. CutsInto(Skip(s, 0), D, v.major, Dot, FromMinor(v))
    BY <1>1, <1>2, ReadMajor, SkipNone
  <2> HIDE DEF D
  <2>2. 0 \in 0..Len(s) /\ 0 + 1 = 1
    BY <1>1
  <2>3. PICK m : CutAt(s, 0, m, v.major, Dot, FromMinor(v))
    BY <1>1, <2>1, <2>2, CutBehind
  <2>4. QED
    BY <2>2, <2>3 DEF CutAt
<1>4. PICK j \in (i + 1)..Len(s) :
        s[j] = Dot /\ SubSeq(s, i + 1, j - 1) = v.minor /\ Skip(s, j) = FromPatch(v)
  <2>1. CutsInto(Skip(s, i), D, v.minor, Dot, FromPatch(v))
    BY <1>2, <1>3, ReadMinor
  <2> HIDE DEF D
  <2>2. i \in 0..Len(s)
    BY <1>1
  <2>3. PICK m : CutAt(s, i, m, v.minor, Dot, FromPatch(v))
    BY <1>1, <2>1, <2>2, CutBehind
  <2>4. QED
    BY <2>3 DEF CutAt
<1>5. i \in DOMAIN s /\ j \in DOMAIN s /\ j \in 0..Len(s)
  BY <1>1, <1>3, <1>4
<1> DEFINE r == FromPatch(v)
<1>6. /\ Before(r, C) = v.patch
      /\ v.pre # <<>> => CutsInto(r, C, v.patch, Dash, FromPre(v))
      /\ v.pre = <<>> /\ v.build # <<>> => CutsInto(r, C, v.patch, Plus, v.build)
      /\ v.pre = <<>> /\ v.build = <<>> => ~Found(r, C)
  BY <1>2, ReadPatch
<1> HIDE DEF r, C
<1> DEFINE KS == {n \in DOMAIN s : s[n] \in {Dash, Plus}} \cup {Len(s) + 1}
           LS == {n \in DOMAIN s : s[n] = Plus} \cup {Len(s) + 1}
<1>7. SUFFICES \E k \in KS, l \in LS :
                 /\ SubSeq(s, j + 1, k - 1) = v.patch
                 /\ SubSeq(s, k + 1, l - 1) = v.pre
                 /\ SubSeq(s, l + 1, Len(s)) = v.build
  <2>1. PICK k \in KS, l \in LS :
          /\ SubSeq(s, j + 1, k - 1) = v.patch
          /\ SubSeq(s, k + 1, l - 1) = v.pre
          /\ SubSeq(s, l + 1, Len(s)) = v.build
    BY <1>7
  <2>2. v = [major |-> v.major, minor |-> v.minor, patch |-> v.patch, pre |-> v.pre, build |-> v.build]
    BY DEF Version
  <2>3. v = FieldsAt(s, i, j, k, l)
    BY <1>3, <1>4, <2>1, <2>2 DEF FieldsAt
  <2>4. i \in {n \in DOMAIN s : s[n] = Dot} /\ j \in {n \in DOMAIN s : s[n] = Dot}
    BY <1>3, <1>4, <1>5
  <2> HIDE DEF KS, LS
  <2>5. \E k0 \in KS, l0 \in LS : v = FieldsAt(s, i, j, k0, l0)
    BY <2>1, <2>3
  <2>6. QED
    BY <2>4, <2>5 DEF KS, LS
<1>8. (Len(s) + 1) \in KS /\ (Len(s) + 1) \in LS /\ (Len(s) + 1) - 1 = Len(s)
  BY <1>1
<1>9. SubSeq(s, (Len(s) + 1) + 1, Len(s)) = <<>>
  BY <1>1 DEF String
<1>10. \A n \in (j + 1)..Len(s) : n \in 1..Len(s) /\ n \in DOMAIN s /\ n \in 0..Len(s)
  BY <1>1, <1>4
<1>11. \A n \in 0..Len(s) : Skip(s, n) = SubSeq(s, n + 1, Len(s))
  BY DEF Skip
<1>12. CASE v.pre # <<>>
  <2>1. PICK k : CutAt(s, j, k, v.patch, Dash, FromPre(v))
    <3>1. CutsInto(Skip(s, j), C, v.patch, Dash, FromPre(v))
      BY <1>4, <1>6, <1>12 DEF r
    <3>2. QED
      BY <1>1, <1>5, <3>1, CutBehind
  <2>2. k \in KS /\ k \in 0..Len(s)
    BY <1>10, <2>1 DEF CutAt
  <2>3. /\ Before(FromPre(v), E) = v.pre
        /\ v.build # <<>> => CutsInto(FromPre(v), E, v.pre, Plus, v.build)
        /\ v.build = <<>> => FromPre(v) = v.pre
    BY <1>2, ReadPre, FieldTypes, EmptyConcat DEF FromPre, FromBuild
  <2> HIDE DEF E, KS, LS
  <2>4. CASE v.build # <<>>
    <3>1. PICK l : CutAt(s, k, l, v.pre, Plus, v.build)
      <4>1. CutsInto(Skip(s, k), E, v.pre, Plus, v.build)
        BY <2>1, <2>3, <2>4 DEF CutAt
      <4>2. QED
        BY <1>1, <2>2, <4>1, CutBehind
    <3>2. l \in DOMAIN s /\ l \in 0..Len(s)
      BY <1>1, <2>2, <3>1 DEF CutAt
    <3>3. l \in LS
      BY <3>1, <3>2 DEF LS, CutAt
    <3>4. QED
      BY <1>11, <2>1, <2>2, <3>1, <3>2, <3>3 DEF CutAt
  <2>5. CASE v.build = <<>>
    <3>1. SubSeq(s, k + 1, (Len(s) + 1) - 1) = v.pre
      BY <1>8, <1>11, <2>1, <2>2, <2>3, <2>5 DEF CutAt
    <3>2. QED
      BY <1>8, <1>9, <2>1, <2>2, <2>5, <3>1 DEF CutAt
  <2>6. QED
    BY <2>4, <2>5
<1>13. CASE v.pre = <<>> /\ v.build # <<>>
  <2>1. PICK k : CutAt(s, j, k, v.patch, Plus, v.build)
    <3>1. CutsInto(Skip(s, j), C, v.patch, Plus, v.build)
      BY <1>4, <1>6, <1>13 DEF r
    <3>2. QED
      BY <1>1, <1>5, <3>1, CutBehind
  <2>2. k \in KS /\ k \in LS /\ k \in 0..Len(s)
    BY <1>10, <2>1 DEF CutAt
  <2>3. SubSeq(s, k + 1, k - 1) = <<>>
    BY <1>1, <2>2 DEF String
  <2> HIDE DEF KS, LS
  <2>4. QED
    BY <1>11, <1>13, <2>1, <2>2, <2>3 DEF CutAt
<1>14. CASE v.pre = <<>> /\ v.build = <<>>
  <2>1. r = v.patch
    BY <1>14, TailCases, FieldTypes, EmptyConcat DEF FromPatch, r
  <2>2. SubSeq(s, j + 1, (Len(s) + 1) - 1) = v.patch
    BY <1>4, <1>5, <1>8, <1>11, <2>1 DEF r
  <2>3. SubSeq(s, (Len(s) + 1) + 1, (Len(s) + 1) - 1) = <<>>
    BY <1>8, <1>9
  <2> HIDE DEF KS, LS
  <2>4. QED
    BY <1>8, <1>9, <1>14, <2>2, <2>3
<1>15. QED
  BY <1>12, <1>13, <1>14

LEMMA ReadingsAre ==
  ASSUME NEW s \in String
  PROVE  Readings(s) = {v \in Version : IsVersion(v) /\ ToText(v) = s}
<1>1. Len(s) \in Nat /\ DOMAIN s = 1..Len(s)
  BY Characters
<1>2. ASSUME NEW v \in Readings(s)
      PROVE  v \in Version /\ IsVersion(v) /\ ToText(v) = s
  <2>1. PICK i \in 1..(Len(s) + 1), j \in 1..(Len(s) + 1), k \in 1..(Len(s) + 1), l \in 1..(Len(s) + 1) :
          v = FieldsAt(s, i, j, k, l)
    BY <1>1, <1>2 DEF Readings
  <2>2. QED
    BY <1>2, <2>1, FieldsAreVersion DEF Readings
<1>3. ASSUME NEW v \in Version, IsVersion(v), ToText(v) = s
      PROVE  v \in Readings(s)
  BY <1>3, VersionHasFields DEF Readings
<1>4. QED
  BY <1>2, <1>3

(* What the grammar says of a string.                                      *)
LEMMA ParsedIs ==
  ASSUME NEW s \in String, Len(s) <= MaxLength,
         NEW v \in Version, IsVersion(v), ToText(v) = Trim(s)
  PROVE  Parsed(s) = v /\ v # NoVersion
<1>1. v \in Readings(Trim(s))
  BY TrimLength, ReadingsAre
<1>2. \A w \in Readings(Trim(s)) : w = v
  BY TrimLength, ReadingsAre, OneReading
<1>3. Parsed(s) = CHOOSE w \in Readings(Trim(s)) : TRUE
  <2>1. ~(Len(s) > MaxLength)
    BY Characters, LengthAssumption
  <2>2. QED
    BY <1>1, <2>1 DEF Parsed
<1>4. v # NoVersion
  BY DEF IsVersion, IsNumber, NoVersion, Release
<1>5. QED
  BY <1>1, <1>2, <1>3, <1>4

LEMMA ParsedNone ==
  ASSUME NEW s \in String,
         Len(s) > MaxLength \/ \A v \in Version : ~(IsVersion(v) /\ ToText(v) = Trim(s))
  PROVE  Parsed(s) = NoVersion
<1>1. CASE Len(s) > MaxLength
  BY <1>1 DEF Parsed
<1>2. CASE \A v \in Version : ~(IsVersion(v) /\ ToText(v) = Trim(s))
  <2>1. Readings(Trim(s)) = {}
    BY <1>2, TrimLength, ReadingsAre
  <2>2. QED
    BY <2>1 DEF Parsed
<1>3. QED
  BY <1>1, <1>2

-----------------------------------------------------------------------------
(* Numerals.                                                               *)

LEMMA Division ==
  ASSUME NEW m \in Nat
  PROVE  /\ m \div Base \in Nat /\ m % Base \in 0..(Base - 1)
         /\ m = (m \div Base) * Base + (m % Base)
         /\ m >= Base => 1 <= m \div Base /\ m \div Base < m
<1>1. Base \in Nat /\ Base >= 2
  BY BaseAssumption
<1> DEFINE q == m \div Base
           r == m % Base
<1>2. q \in Int /\ r \in 0..(Base - 1) /\ m = Base * q + r
  BY <1>1
<1> HIDE DEF q, r
<1>3. q >= 0
  BY <1>1, <1>2
<1>4. m = q * Base + r
  BY <1>1, <1>2
<1>5. m >= Base => q >= 1
  BY <1>1, <1>2
<1>6. q >= 1 => q < Base * q
  BY <1>1, <1>2
<1>7. q >= 1 => q < m
  BY <1>1, <1>2, <1>6
<1>8. QED
  BY <1>2, <1>3, <1>4, <1>5, <1>7 DEF q, r

(* One more digit multiplies by the base.                                  *)
LEMMA ValueAppended ==
  ASSUME NEW s \in String, OnlyDigits(s), NEW d \in Digit, NEW t, t = Append(s, d)
  PROVE  t \in String /\ OnlyDigits(t) /\ Value(t) = Value(s) * Base + d
<1>1. Len(s) \in Nat /\ DOMAIN s = 1..Len(s) /\ d \in Char
  BY Characters, CharacterFacts
<1>2. /\ t \in String /\ Len(t) = Len(s) + 1 /\ DOMAIN t = 1..(Len(s) + 1)
      /\ \A i \in 1..Len(s) : t[i] = s[i]
      /\ t[Len(s) + 1] = d
  BY <1>1 DEF String
<1>3. OnlyDigits(t)
  <2>1. \A i \in DOMAIN t : t[i] \in Digit
    BY <1>1, <1>2 DEF OnlyDigits, Chars
  <2>2. QED
    BY <2>1 DEF OnlyDigits, Chars
<1>4. PICK f : Counts(f, s) /\ Value(s) = f[Len(s)]
  BY ValueCounts
<1>5. PICK g : Counts(g, t) /\ Value(t) = g[Len(t)]
  BY <1>2, ValueCounts
<1> DEFINE S == {n \in Nat : n <= Len(s) => g[n] = f[n]}
<1>6. 0 \in S
  BY <1>4, <1>5 DEF Counts
<1>7. ASSUME NEW n \in Nat, n \in S
      PROVE  n + 1 \in S
  <2>1. SUFFICES ASSUME n + 1 <= Len(s)
                 PROVE  g[n + 1] = f[n + 1]
    OBVIOUS
  <2>2. n + 1 \in 1..Len(s) /\ n + 1 \in 1..Len(t) /\ (n + 1) - 1 = n /\ n <= Len(s)
    BY <1>1, <1>2, <2>1
  <2>3. f[n + 1] = f[n] * Base + s[n + 1] /\ g[n + 1] = g[n] * Base + t[n + 1]
    BY <1>4, <1>5, <2>2 DEF Counts
  <2>4. g[n] = f[n] /\ t[n + 1] = s[n + 1]
    BY <1>2, <1>7, <2>2
  <2>5. QED
    BY <2>3, <2>4
<1> HIDE DEF S
<1>8. g[Len(s)] = f[Len(s)]
  <2>1. Len(s) \in S
    BY <1>1, <1>6, <1>7, Induction
  <2>2. QED
    BY <1>1, <2>1 DEF S
<1>9. g[Len(s) + 1] = g[Len(s)] * Base + d
  <2>1. Len(s) + 1 \in 1..Len(t) /\ (Len(s) + 1) - 1 = Len(s)
    BY <1>1, <1>2
  <2>2. g[Len(s) + 1] = g[Len(s)] * Base + t[Len(s) + 1]
    BY <1>5, <2>1 DEF Counts
  <2>3. QED
    BY <1>2, <2>2
<1>10. Value(t) = Value(s) * Base + d
  BY <1>2, <1>4, <1>5, <1>8, <1>9
<1>11. QED
  BY <1>2, <1>3, <1>10

LEMMA EmptyValue == <<>> \in String /\ OnlyDigits(<<>>) /\ Value(<<>>) = 0
<1>1. <<>> \in String /\ Len(<<>>) = 0 /\ OnlyDigits(<<>>)
  BY DEF String, OnlyDigits, Chars
<1>2. PICK f : Counts(f, <<>>) /\ Value(<<>>) = f[Len(<<>>)]
  BY <1>1, ValueCounts
<1>3. QED
  BY <1>1, <1>2 DEF Counts

LEMMA OneDigit ==
  ASSUME NEW d \in Digit
  PROVE  <<d>> \in String /\ IsNumber(<<d>>) /\ Value(<<d>>) = d
<1>1. <<d>> = Append(<<>>, d)
  OBVIOUS
<1>2. <<d>> \in String /\ OnlyDigits(<<d>>) /\ Value(<<d>>) = Value(<<>>) * Base + d
  BY <1>1, EmptyValue, ValueAppended
<1>3. d \in Int /\ Base \in Int
  BY BaseAssumption DEF Digit
<1>4. Value(<<d>>) = d
  BY <1>2, <1>3, EmptyValue
<1>5. QED
  BY <1>2, <1>4 DEF IsNumber

(* A number above 0 does not begin with 0.                                 *)
LEMMA NumberBegins ==
  ASSUME NEW s \in String, IsNumber(s), Value(s) >= 1
  PROVE  s[1] \in Digit \ {0}
<1>1. Len(s) \in Nat \ {0} /\ DOMAIN s = 1..Len(s)
  BY Characters DEF IsNumber, String
<1>2. s[1] \in Digit
  BY <1>1 DEF IsNumber, OnlyDigits, Chars
<1>3. s[1] # 0
  <2>1. SUFFICES ASSUME s[1] = 0
                 PROVE  FALSE
    OBVIOUS
  <2>2. Len(s) = 1
    BY <1>1, <2>1 DEF IsNumber
  <2>3. s = << 0 >>
    BY <1>1, <2>1, <2>2 DEF String
  <2>4. Value(s) = 0
    BY <2>3, OneDigit, CharacterFacts
  <2>5. QED
    BY <2>4
<1>4. QED
  BY <1>2, <1>3

(* What a number without a leading zero begins with is one, too.           *)
LEMMA NumberAppended ==
  ASSUME NEW s \in String, IsNumber(s), Value(s) >= 1, NEW d \in Digit
  PROVE  IsNumber(Append(s, d))
<1>1. Len(s) \in Nat \ {0} /\ DOMAIN s = 1..Len(s)
  BY Characters DEF IsNumber, String
<1>2. Append(s, d)[1] = s[1] /\ Append(s, d) # <<>>
  BY <1>1 DEF String
<1>3. s[1] # 0
  BY NumberBegins
<1>4. OnlyDigits(Append(s, d))
  BY ValueAppended DEF IsNumber
<1>5. QED
  BY <1>2, <1>3, <1>4 DEF IsNumber

(* to_string writes the number that its value is, without leading zeros.   *)
LEMMA DigitsNumber ==
  ASSUME NEW n \in Nat
  PROVE  Digits(n) \in String /\ IsNumber(Digits(n)) /\ Value(Digits(n)) = n
<1> DEFINE body(g, m)   == IF m < Base THEN <<m>> ELSE Append(g[m \div Base], m % Base)
           Solves(g, k) == g = [m \in 0..k |-> body(g, m)]
           P(k)         == \E g : Solves(g, k)
           S            == {k \in Nat : P(k)}
<1>1. Base \in Nat /\ Base >= 2
  BY BaseAssumption
<1>2. \A m \in Nat : m >= Base => m \div Base \in 0..(m - 1)
  BY Division
<1> DEFINE zero == [m \in 0..0 |-> <<m>>]
<1>3. 0 \in S
  <2>1. \A m \in 0..0 : zero[m] = body(zero, m)
    BY <1>1
  <2>2. Solves(zero, 0)
    BY <2>1
  <2> HIDE DEF Solves
  <2>3. QED
    BY <2>2
<1>4. ASSUME NEW k \in Nat, k \in S
      PROVE  k + 1 \in S
  <2>1. PICK g : Solves(g, k)
    BY <1>4
  <2> DEFINE h == [m \in 0..(k + 1) |-> IF m = k + 1 THEN body(g, k + 1) ELSE g[m]]
  <2>2. \A m \in 0..k : m \in 0..(k + 1) /\ m # k + 1 /\ h[m] = g[m]
    OBVIOUS
  <2>3. h[k + 1] = body(g, k + 1)
    OBVIOUS
  <2>4. \A m \in 0..k : g[m] = body(g, m)
    BY <2>1
  <2>5. DOMAIN h = 0..(k + 1) /\ h = [m \in 0..(k + 1) |-> h[m]]
    OBVIOUS
  <2> HIDE DEF h
  <2>6. ASSUME NEW m \in 0..(k + 1)
        PROVE  h[m] = body(h, m)
    <3>1. m >= Base => m \div Base \in 0..k /\ h[m \div Base] = g[m \div Base]
      <4>1. m >= Base => m \div Base \in 0..k
        BY <1>1, <1>2
      <4>2. QED
        BY <4>1, <2>2
    <3>2. body(h, m) = body(g, m)
      BY <1>1, <3>1
    <3>3. h[m] = body(g, m)
      <4>1. m = k + 1 \/ m \in 0..k
        OBVIOUS
      <4> HIDE DEF body
      <4>2. QED
        BY <4>1, <2>2, <2>3, <2>4
    <3> HIDE DEF body
    <3>4. QED
      BY <3>2, <3>3
  <2> HIDE DEF body
  <2>7. Solves(h, k + 1)
    BY <2>5, <2>6
  <2> HIDE DEF Solves
  <2>8. QED
    BY <2>7
<1> HIDE DEF S
<1>5. n \in S
  BY <1>3, <1>4, Induction
<1> DEFINE f == CHOOSE g : Solves(g, n)
<1>6. Solves(f, n)
  <2> HIDE DEF Solves
  <2>1. \E g : Solves(g, n)
    BY <1>5 DEF S
  <2>2. QED
    BY <2>1
<1>7. Digits(n) = f[n]
  BY DEF Digits
<1> HIDE DEF f
<1>8. \A m \in 0..n : f[m] = body(f, m)
  BY <1>6
<1> DEFINE Right(s, m) == s \in String /\ IsNumber(s) /\ Value(s) = m
           T           == {k \in Nat : \A m \in 0..k : m <= n => Right(f[m], m)}
<1> HIDE DEF Right
<1>9. ASSUME NEW k \in Nat, NEW m \in 0..n, \A i \in 0..k : i <= n => Right(f[i], i), m <= k + 1
      PROVE  Right(f[m], m)
  <2>1. CASE m < Base
    <3>1. m \in Digit
      BY <1>1, <2>1 DEF Digit
    <3>2. f[m] = <<m>>
      BY <1>8, <2>1
    <3>3. QED
      BY <3>1, <3>2, OneDigit DEF Right
  <2>2. CASE m >= Base
    <3> DEFINE q == m \div Base
               r == m % Base
    <3>1. q \in Nat /\ 1 <= q /\ q < m /\ r \in 0..(Base - 1) /\ m = q * Base + r
      BY <2>2, Division
    <3>2. f[m] = Append(f[q], r)
      <4>1. ~(m < Base)
        BY <1>1, <2>2
      <4>2. f[m] = body(f, m)
        BY <1>8
      <4>3. QED
        BY <4>1, <4>2, Zenon
    <3> HIDE DEF q, r
    <3>3. q \in 0..k /\ q <= n
      BY <1>9, <3>1
    <3>4. f[q] \in String /\ IsNumber(f[q]) /\ Value(f[q]) = q
      BY <1>9, <3>3 DEF Right
    <3>5. r \in Digit
      BY <3>1 DEF Digit
    <3>6. OnlyDigits(f[q])
      BY <3>4 DEF IsNumber
    <3>7. f[m] \in String /\ Value(f[m]) = q * Base + r
      BY <3>2, <3>4, <3>5, <3>6, ValueAppended
    <3>8. Value(f[q]) >= 1
      BY <3>1, <3>4
    <3>9. IsNumber(f[m])
      BY <3>2, <3>4, <3>5, <3>8, NumberAppended
    <3>10. QED
      BY <3>1, <3>7, <3>9 DEF Right
  <2>3. QED
    BY <1>1, <2>1, <2>2
<1>10. 0 \in T
  <2>1. SUFFICES ASSUME NEW m \in 0..0, m <= n
                 PROVE  Right(f[m], m)
    OBVIOUS
  <2>2. m \in 0..n /\ m < Base /\ m \in Digit
    BY <1>1, <2>1 DEF Digit
  <2>3. f[m] = <<m>>
    BY <1>8, <2>2
  <2>4. QED
    BY <2>2, <2>3, OneDigit DEF Right
<1>11. ASSUME NEW k \in Nat, k \in T
       PROVE  k + 1 \in T
  <2>1. SUFFICES ASSUME NEW m \in 0..(k + 1), m <= n
                 PROVE  Right(f[m], m)
    OBVIOUS
  <2>2. \A i \in 0..k : i <= n => Right(f[i], i)
    BY <1>11
  <2>3. m \in 0..n /\ m <= k + 1
    BY <2>1
  <2>4. QED
    BY <1>9, <2>2, <2>3
<1> HIDE DEF T
<1>12. n \in T
  BY <1>10, <1>11, Induction
<1>13. n \in 0..n /\ n <= n
  OBVIOUS
<1>14. QED
  BY <1>7, <1>12, <1>13 DEF T, Right

(* A string begins with the digits that a number is read from.             *)
LEMMA LeadingIs ==
  ASSUME NEW s \in String
  PROVE  Leading(s) = Before(s, Char \ Digit)
<1> DEFINE C == Char \ Digit
           f == Find(s, C)
           Ends(n) == OnlyDigits(SubSeq(s, 1, n)) /\ (n < Len(s) => s[n + 1] \notin Digit)
           m == CHOOSE n \in 0..Len(s) : Ends(n)
<1>1. Len(s) \in Nat /\ DOMAIN s = 1..Len(s) /\ \A i \in DOMAIN s : s[i] \in Char
  BY Characters DEF String
<1>2. f \in 1..(Len(s) + 1) /\ f - 1 \in 0..Len(s) /\ (f - 1) + 1 = f
  BY <1>1, FindRange
<1>3. f <= Len(s) => s[f] \in C
  BY FoundParts DEF Found
<1>4. \A i \in 1..(f - 1) : s[i] \in Digit
  <2>1. Chars(Before(s, C)) \cap C = {}
    <3>1. CASE Found(s, C)
      BY <3>1, FoundParts
    <3>2. CASE ~Found(s, C)
      BY <3>2, NotFound
    <3>3. QED
      BY <3>1, <3>2
  <2> HIDE DEF C
  <2>2. \A i \in 1..(f - 1) : i \in DOMAIN SubSeq(s, 1, f - 1) /\ SubSeq(s, 1, f - 1)[i] = s[i]
    BY <1>1, <1>2
  <2>3. \A i \in 1..(f - 1) : s[i] \in Chars(Before(s, C))
    <3>1. Before(s, C) = SubSeq(s, 1, f - 1)
      BY DEF Before
    <3> HIDE DEF f
    <3>2. QED
      BY <2>2, <3>1 DEF Chars
  <2>4. \A i \in 1..(f - 1) : s[i] \in Char
    BY <1>1, <1>2
  <2>5. QED
    BY <2>1, <2>3, <2>4 DEF C
<1>5. \A k \in 0..Len(s) : /\ DOMAIN SubSeq(s, 1, k) = 1..k
                           /\ \A i \in 1..k : SubSeq(s, 1, k)[i] = s[i]
  BY <1>1 DEF String
<1> HIDE DEF f
<1>6. Ends(f - 1)
  <2>1. OnlyDigits(SubSeq(s, 1, f - 1))
    BY <1>2, <1>4, <1>5 DEF OnlyDigits, Chars
  <2>2. f - 1 < Len(s) => s[(f - 1) + 1] \notin Digit
    BY <1>1, <1>2, <1>3
  <2>3. QED
    BY <2>1, <2>2
<1>7. ASSUME NEW n \in 0..Len(s), Ends(n)
      PROVE  n = f - 1
  <2>1. \A i \in 1..n : s[i] \in Digit
    BY <1>5, <1>7 DEF OnlyDigits, Chars
  <2>2. ~(n < f - 1)
    <3>1. n < f - 1 => n + 1 \in 1..(f - 1) /\ n < Len(s)
      BY <1>1, <1>2
    <3>2. QED
      BY <1>4, <1>7, <3>1
  <2>3. ~(f - 1 < n)
    <3>1. f - 1 < n => f \in 1..n /\ f <= Len(s)
      BY <1>1, <1>2
    <3>2. QED
      BY <1>3, <2>1, <3>1
  <2>4. QED
    BY <1>1, <1>2, <2>2, <2>3
<1> HIDE DEF Ends
<1>8. m = f - 1
  BY <1>2, <1>6, <1>7
<1>9. Leading(s) = SubSeq(s, 1, m)
  BY DEF Leading, Ends
<1>10. QED
  BY <1>8, <1>9 DEF Before, f

(* from_chars reads all of a string of digits, and digits only.            *)
LEMMA LeadingDigits ==
  ASSUME NEW s \in String
  PROVE  /\ Leading(s) \in String /\ OnlyDigits(Leading(s))
         /\ OnlyDigits(s) => Leading(s) = s
<1> DEFINE C == Char \ Digit
<1>1. Leading(s) = Before(s, C) /\ Leading(s) \in String
  BY LeadingIs, CutsType
<1>2. Chars(Leading(s)) \subseteq Char
  BY <1>1, Characters DEF String, Chars
<1>3. Chars(Before(s, C)) \cap C = {}
  <2>1. CASE Found(s, C)
    BY <2>1, FoundParts
  <2>2. CASE ~Found(s, C)
    BY <2>2, NotFound
  <2>3. QED
    BY <2>1, <2>2
<1>4. OnlyDigits(Leading(s))
  BY <1>1, <1>2, <1>3 DEF OnlyDigits
<1>5. OnlyDigits(s) => Before(s, C) = s
  BY FindNone DEF OnlyDigits
<1>6. QED
  BY <1>1, <1>4, <1>5

(* It reads the digits that stand before the first other character.        *)
LEMMA LeadingBefore ==
  ASSUME NEW t \in String, OnlyDigits(t), NEW u \in String, u # <<>> => u[1] \notin Digit,
         NEW s, s = t \o u
  PROVE  Leading(s) = t
<1> DEFINE C == Char \ Digit
<1>1. CASE u = <<>>
  BY <1>1, EmptyConcat, LeadingDigits
<1>2. CASE u # <<>>
  <2> DEFINE c == u[1]
             q == Skip(u, 1)
  <2>1. Len(u) \in Nat \ {0} /\ 1 \in 1..Len(u) /\ c \in C
    BY <1>2 DEF String
  <2>2. q \in String /\ u = <<c>> \o q
    <3>1. q \in String
      BY SkipLength
    <3>2. u \in Seq(Char) /\ Len(u) \in Nat \ {0}
      BY <2>1 DEF String
    <3>3. u = <<u[1]>> \o SubSeq(u, 1 + 1, Len(u))
      BY <3>2
    <3>4. QED
      BY <3>1, <3>3 DEF Skip
  <2>3. Chars(t) \cap C = {} /\ c \in Char
    BY <2>1 DEF OnlyDigits
  <2> HIDE DEF c, q, C
  <2>4. CutsInto(s, C, t, c, q)
    BY <2>1, <2>2, <2>3, FindBehind
  <2>5. s \in String
    BY ConcatType
  <2>6. QED
    BY <2>4, <2>5, LeadingIs DEF CutsInto, C
<1>3. QED
  BY <1>1, <1>2

(* It reads none only where no digit stands first.                         *)
LEMMA LeadingType ==
  ASSUME NEW s \in String, s # <<>>
  PROVE  s[1] \in Digit <=> Leading(s) # <<>>
<1> DEFINE C == Char \ Digit
<1>1. Len(s) \in Nat \ {0} /\ 1 \in 1..Len(s) /\ DOMAIN s = 1..Len(s) /\ s[1] \in Char
  BY Characters DEF String
<1>2. Leading(s) = Before(s, C)
  BY LeadingIs
<1>3. s[1] \notin Digit => Find(s, C) = 1
  BY <1>1, FindIs
<1>4. ASSUME s[1] \in Digit
      PROVE  Find(s, C) # 1
  <2>1. SUFFICES ASSUME Find(s, C) = 1
                 PROVE  FALSE
    OBVIOUS
  <2>2. Found(s, C)
    BY <1>1, <2>1 DEF Found
  <2>3. s[1] \in C
    BY <2>1, <2>2, FoundParts
  <2>4. QED
    BY <1>4, <2>3
<1>5. Find(s, C) \in 1..(Len(s) + 1)
  BY FindRange
<1> HIDE DEF C
<1>6. Before(s, C) = <<>> <=> Find(s, C) = 1
  <2> DEFINE f == Find(s, C)
  <2>1. Len(SubSeq(s, 1, f - 1)) = f - 1
    BY <1>1, <1>5
  <2>2. Before(s, C) = SubSeq(s, 1, f - 1)
    BY DEF Before
  <2> HIDE DEF f
  <2>3. f = 1 => SubSeq(s, 1, f - 1) = <<>>
    BY <1>1
  <2>4. f # 1 => f - 1 # 0
    BY <1>5 DEF f
  <2>5. Len(<<>>) = 0
    OBVIOUS
  <2>6. Before(s, C) = <<>> <=> f = 1
    BY <2>1, <2>2, <2>3, <2>4, <2>5, Zenon
  <2>7. QED
    BY <2>6 DEF f
<1>7. QED
  BY <1>2, <1>3, <1>4, <1>6

LEMMA VersionNumbers ==
  ASSUME NEW v \in Version, HasNumbers(v)
  PROVE  /\ v.major \in String /\ IsNumber(v.major) /\ Value(v.major) \in Nat
         /\ v.minor \in String /\ IsNumber(v.minor) /\ Value(v.minor) \in Nat
         /\ v.patch \in String /\ IsNumber(v.patch) /\ Value(v.patch) \in Nat
  BY FieldTypes, ValueType DEF HasNumbers, IsNumber

LEMMA NumberOrder ==
  ASSUME NEW a \in String, IsNumber(a), NEW b \in String, IsNumber(b)
  PROVE  /\ a # b /\ NumberCompare(a, b) = "less" <=> Value(a) < Value(b)
         /\ Value(a) = Value(b) <=> a = b
<1>1. Value(a) \in Nat
  BY ValueType DEF IsNumber
<1>2. a = b => ~(Value(a) < Value(b))
  BY <1>1
<1>3. QED
  BY <1>2, NumberCompareValues

(* On versions with numbers operator<=> compares their values.             *)
LEMMA LessNumbers ==
  ASSUME NEW v \in Version, HasNumbers(v), NEW w \in Version, HasNumbers(w)
  PROVE  Less(v, w) <=>
           \/ Value(v.major) < Value(w.major)
           \/ v.major = w.major /\ Value(v.minor) < Value(w.minor)
           \/ v.major = w.major /\ v.minor = w.minor /\ Value(v.patch) < Value(w.patch)
           \/ /\ v.major = w.major /\ v.minor = w.minor /\ v.patch = w.patch
              /\ PreCompare(v.pre, w.pre) = "less"
<1>1. /\ v.major # w.major /\ NumberCompare(v.major, w.major) = "less" <=> Value(v.major) < Value(w.major)
      /\ v.minor # w.minor /\ NumberCompare(v.minor, w.minor) = "less" <=> Value(v.minor) < Value(w.minor)
      /\ v.patch # w.patch /\ NumberCompare(v.patch, w.patch) = "less" <=> Value(v.patch) < Value(w.patch)
  BY VersionNumbers, NumberOrder
<1>2. QED
  BY <1>1, Zenon DEF Less, Compare

(* A release comes after its pre-releases, and not after itself.           *)
LEMMA PreOfRelease ==
  /\ PreCompare(<<>>, <<>>) # "less"
  /\ \A a \in String : a # <<>> => PreCompare(a, <<>>) = "less"
<1>1. <<>> \in String
  BY SignTypes
<1>2. PreCompare(<<>>, <<>>) = "equal"
  BY <1>1, PreCases
<1>3. QED
  BY <1>1, <1>2, PreCases

LEMMA ZeroIs == << 0 >> \in String /\ IsNumber(<< 0 >>) /\ Value(<< 0 >>) = 0
  BY CharacterFacts, OneDigit
=============================================================================
