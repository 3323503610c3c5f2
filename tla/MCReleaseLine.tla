--------------------------- MODULE MCReleaseLine ---------------------------
(***************************************************************************)
(* Texts to begin a release line with, for the model checker.              *)
(***************************************************************************)
EXTENDS ReleaseLine

Numerals == {<<0>>, <<1>>, <<1, 0>>, <<1, 1>>, <<1, 0, 0>>}
Tails    == {<<>>, <<Dash, LetterA>>, <<Dash, 0, 1>>, <<Plus, 1>>, <<Dash, 1, Plus, 1>>}

(* With MaxLength 9 some are too long, some have no room to grow, some     *)
(* have a number that no int holds, and some begin with 0.                 *)
SomeTexts ==
  {m \o <<Dot>> \o n \o <<Dot>> \o p \o t : m, n, p \in Numerals, t \in Tails}
    \cup {<<>>, <<1>>, <<1, Dot, 1>>}

(* version{"fake"}, and versions that parse() does not make. *)
SomeHandMade ==
  {Release(<<LetterA>>, <<>>, <<>>), Release(<<0>>, <<1>>, <<1>>), Release(<<0, 1>>, <<0>>, <<0>>),
   [Release(<<1>>, <<1>>, <<1, 0>>) EXCEPT !.pre = <<LetterA, Plus>>]}

=============================================================================
