-------------------------- MODULE MCStringMinimum --------------------------
(***************************************************************************)
(* Strings to call minimum() with for the model checker.                   *)
(***************************************************************************)
EXTENDS StringMinimum

NoRanges == {NothingRead}

Join(parts, sep) ==
  FlattenSeq([i \in DOMAIN parts |-> IF i = 1 THEN parts[i] ELSE sep \o parts[i]])

-----------------------------------------------------------------------------
(* The table of the repository's test of minimum().                        *)

V1(m)       == <<m>>
V2(m, n)    == <<m, Dot, n>>
V3(m, n, p) == <<m, Dot, n, Dot, p>>
Tagged(s, w)   == s \o <<Dash, w>>

Lt == <<Lesser>>
Le == <<Lesser, Equal>>
Gt == <<Greater>>
Ge == <<Greater, Equal>>
Up == <<Caret>>
About == <<Tilde>>
And == <<Space>>
Or  == <<Space, Bar, Bar, Space>>
St  == <<Asterisk>>
V2162 == <<2, Dot, 1, 6, Dot, 2>>

Test(text, answer) == [text |-> text, answer |-> TextOf(answer)]

Stars ==
  {Test(text, V3(0, 0, 0)) : text \in {St, St \o Or \o Ge \o V1(2), Ge \o V1(2) \o Or \o St, Gt \o V1(2) \o Or \o St}}

Equals ==
  {Test(text, V3(1, 0, 0)) :
     text \in {V3(1, 0, 0), V2(1, 0), V3(1, 0, LetterX), V3(1, 0, Asterisk), V1(1),
               V3(1, LetterX, LetterX), V3(1, Asterisk, LetterX), V3(1, LetterX, Asterisk),
               V2(1, LetterX), V2(1, Asterisk), <<Equal>> \o V3(1, 0, 0)}}

Uppers ==
  {Test(op \o V3(1, 1, 1), V3(1, 1, 1)) : op \in {About, Up}}
    \cup {Test(op \o Tagged(V3(1, 1, 1), LetterB), Tagged(V3(1, 1, 1), LetterB)) : op \in {About, Up}}
    \cup {Test(op \o V3(1, 1, 1) \o Or \o Ge \o V1(2), V3(1, 1, 1)) : op \in {About, Up}}
    \cup {Test(Up \o V2162 \o And \o Up \o <<2, Dot, 1, 6>>, V2162)}

To == <<Space, Dash, Space>>

Hyphens ==
  {Test(V3(1, 1, 1) \o To \o V3(1, 8, 0), V3(1, 1, 1)), Test(V2(1, 1) \o To \o V3(1, 8, 0), V3(1, 1, 0))}

ZeroTag(w) == Tagged(V3(0, 0, 0), w)

Lessers ==
  {Test(text, V3(0, 0, 0)) :
     text \in {Lt \o V1(2), Lt \o Tagged(V3(0, 0, 1), LetterB),
               Lt \o V1(2) \o Or \o Gt \o V1(4), Gt \o V1(4) \o Or \o Lt \o V1(2),
               Le \o V1(2) \o Or \o Ge \o V1(4), Ge \o V1(4) \o Or \o Le \o V1(2)}}
    \cup {Test(Lt \o ZeroTag(LetterB), ZeroTag(0))}
    \cup {Test(text, ZeroTag(LetterA) \o <<Dot, 0>>) :
            text \in {Lt \o ZeroTag(LetterB) \o And \o Gt \o ZeroTag(LetterA),
                      Gt \o ZeroTag(LetterA) \o And \o Lt \o ZeroTag(LetterB)}}

Greaters ==
  LET low  == Ge \o V3(1, 1, 1) \o And \o Lt \o V1(2)
      high == Ge \o V3(2, 2, 2) \o And \o Lt \o V1(2)
      one  == V3(1, 0, 0)
  IN {Test(low \o Or \o high, V3(1, 1, 1)), Test(high \o Or \o low, V3(1, 1, 1))}
       \cup {Test(before \o Gt \o one, V3(1, 0, 1)) : before \in {<<>>, Gt \o V1(2) \o Or}}
       \cup {Test(before \o Gt \o Tagged(one, w), Tagged(one, w) \o <<Dot, 0>>) :
               before \in {<<>>, Gt \o V1(2) \o Or}, w \in {0, LetterB}}

Impossible ==
  {[text |-> text, answer |-> NoText] : text \in {Gt \o V1(4) \o And \o Lt \o V1(3), <<>>}}

Tests == Stars \cup Equals \cup Uppers \cup Hyphens \cup Lessers \cup Greaters \cup Impossible

Answers == [text \in {t.text : t \in Tests} |-> (CHOOSE t \in Tests : t.text = text).answer]

-----------------------------------------------------------------------------
(* Ranges written from their parts, with or without white space wherever   *)
(* there may be some.                                                      *)

Part(nums) == [nums |-> nums, pre |-> <<>>]

Bare(str, text) ==
  [writes |-> <<str>>, means |-> [bare |-> TRUE, text |-> text, constraints |-> <<>>]]

(* A constraint, written as an operator and a version.                     *)
Con(sign, op, ver) == [sign |-> sign, ver |-> ver, means |-> [op |-> op, ver |-> TextOf(ver)]]

Bound(cs, gap) ==
  [writes |-> [i \in DOMAIN cs |-> cs[i].sign \o gap \o cs[i].ver],
   means  |-> [bare |-> FALSE, text |-> EmptyText, constraints |-> [i \in DOMAIN cs |-> cs[i].means]]]

SubRanges(gap) ==
  {Bare(St, StarText),
   Bare(<<LetterX>>, Part(<<X>>)),
   Bare(<<1, Dot, LetterX>>, Part(<<Num(1)>>)),
   Bare(<<LetterV, 1, Dot, 2>>, Part(<<Num(1), Num(2)>>)),
   Bound(<<Con(Ge, ">=", V3(1, 2, 3)), Con(Lt, "<", V1(2))>>, gap),
   Bound(<<Con(Gt, ">", Tagged(V3(1, 0, 0), LetterB)), Con(Le, "<=", V2(2, 1)), Con(Up, "^", V1(1))>>, gap),
   Bound(<<Con(About, "~", V2(1, 2))>>, gap)}

(* Nothing is a sub-range too, unless it is the last one.                  *)
Lists(gap) ==
  LET nothing == Bare(<<>>, EmptyText)
  IN {<<s>> : s \in SubRanges(gap)}
       \cup {<<s, t>> : s \in SubRanges(gap) \cup {nothing}, t \in SubRanges(gap)}
       \cup {<<s, nothing, s>> : s \in SubRanges(gap)}

Write(ss, ends, between, bars) ==
  ends \o Join([i \in DOMAIN ss |-> Join(ss[i].writes, between)], bars) \o ends

Blanks == {<<>>, <<Space>>}

Written ==
  UNION {{Write(ss, ends, between, before \o <<Bar, Bar>> \o after) :
            ss \in Lists(gap), ends, between, before, after \in Blanks} : gap \in Blanks}

(* What a string means, known by what is left of it without white space.   *)
Meanings ==
  LET said == {<<Write(ss, <<>>, <<>>, <<Bar, Bar>>),
                 [NothingRead EXCEPT !.subs = [i \in DOMAIN ss |-> ss[i].means]]>> : ss \in Lists(<<>>)}
  IN [s \in {p[1] : p \in said} |-> (CHOOSE p \in said : p[1] = s)[2]]

-----------------------------------------------------------------------------
(* All short strings of some characters.                                   *)

Short == BoundedSeq({1, Dot, Dash, Greater, Equal, Tilde, Bar, Space}, 4)

AllInputs == DOMAIN Answers \cup Written \cup Short
=============================================================================
