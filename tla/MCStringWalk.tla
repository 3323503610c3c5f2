---------------------------- MODULE MCStringWalk ----------------------------
(***************************************************************************)
(* Strings to walk from for the model checker.                             *)
(***************************************************************************)
EXTENDS StringWalk

(* With Base 2 and IntMax 4, 100 is the largest int and 110 the largest    *)
(* long long.  The other pieces are larger than an int or a long long,     *)
(* padded with a zero, a placeholder, or empty.                            *)
Pieces == {<<0>>, <<1>>, <<1, 0, 0>>, <<1, 0, 1>>, <<1, 1, 1>>, <<0, 1>>, <<LetterX>>, <<>>}

Dotted2(m, n)    == m \o <<Dot>> \o n
Dotted3(m, n, p) == Dotted2(m, n) \o <<Dot>> \o p

Heads ==
  Pieces
    \cup {Dotted2(m, n) : m, n \in Pieces}
    \cup {Dotted3(m, n, p) : m, n, p \in Pieces}
    \cup {<<1, Dot, 0, Dot, 1, Dot, 1>>, <<Asterisk>>, <<Space>>}

Tails == {<<>>, <<Dash>>, <<Dash, LetterA>>, <<Dash, LetterB>>, <<Dash, LetterX, Dot, 1>>,
          <<Dash, 0, 1>>, <<Dash, LetterB, Dot>>, <<Dash, LetterA, Dot, LetterB>>, <<Dash, Plus>>}

SomeStrings == {h \o t : h \in Heads, t \in Tails}

(* A set that holds the texts of SomeStrings and that TLC need not list.   *)
SomeTexts ==
  LET heads == {PieceOf(p) : p \in Pieces \cup {<<Asterisk>>, <<Space>>}}
  IN [nums : (SeqOf(heads, 3) \ {<<>>}) \cup {PiecesOf(<<1, Dot, 0, Dot, 1, Dot, 1>>)},
      pre  : {PiecesOf(Tail(t)) : t \in Tails \ {<<>>}} \cup {<<>>}]
=============================================================================
