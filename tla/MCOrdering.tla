----------------------------- MODULE MCOrdering -----------------------------
(***************************************************************************)
(* Versions to compare for the model checker, all of them as parse() makes *)
(* them.                                                                   *)
(***************************************************************************)
EXTENDS TwoOrders

PreReleases ==
  {<<>>, <<0>>, <<1>>, <<0, 1>>, <<1, 1>>, <<1, 0, 0>>, <<1, 0, LetterA>>, <<1, Dot, 1>>,
   <<LetterA>>, <<LetterA, 1>>, <<LetterA, Dot, 1>>, <<LetterA, Dot, 1, 0>>, <<LetterV>>, <<Lesser>>,
   <<Dash>>, <<LetterA, Dot>>, <<LetterA, Dash, 1>>}

Tagged == {[Release(<<1>>, <<0>>, <<0>>) EXCEPT !.pre = p, !.build = b] :
             p \in PreReleases, b \in {<<>>, <<1>>}}
            \cup {[Release(<<1>>, <<0>>, <<0>>) EXCEPT !.build = b] :
                    b \in {<<1, Dash, LetterA>>, <<1, Dot, 0>>}}

Numbered == {Release(m, n, p) : m, n, p \in {<<1>>, <<1, 1>>, <<1, 0, 0>>}}
              \cup {[Release(<<1>>, <<1, 0>>, n) EXCEPT !.pre = <<1>>] : n \in {<<0>>, <<1, 1>>}}

(* <<1, 0, 0, 0>> is the first number above the largest int.               *)
TooLarge ==
  {Release(<<1, 0, 0, 0>>, <<1>>, <<1>>), Release(<<1>>, <<1, 0, 0, 0>>, <<1>>),
   Release(<<1>>, <<1>>, <<1, 0, 0, 0>>), Release(<<1>>, <<1>>, <<1, 0, 0, 1>>)}
    \cup {[Release(<<1>>, <<1, 0, 0, 0>>, <<1>>) EXCEPT !.pre = p] : p \in {<<1>>, <<LetterA>>}}
    \cup {[Release(<<1>>, <<0>>, <<0>>) EXCEPT !.pre = p] :
             p \in {<<1, 0, 0, 0>>, <<1, 0, 0, 1>>, <<LetterA, Dot, 1, 0, 0, 0>>, <<1, 0, 0, 0, LetterA>>}}

AllVersions == Tagged \cup Numbered \cup TooLarge
=============================================================================
