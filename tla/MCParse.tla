------------------------------ MODULE MCParse ------------------------------
(***************************************************************************)
(* Arguments of parse() and clean() for the model checker.                 *)
(***************************************************************************)
EXTENDS Parse, SequencesExt

(* Every short string.                                                     *)
ShortInputs == BoundedSeq({Space, Plus, Dash, Dot, 0, 1}, 5)

(* Strings in the shape of a version, some of them longer than MaxLength.  *)
Fronts  == {<<>>, <<Space>>, <<LetterV>>, <<Equal, LetterV>>, <<Space, Equal>>, <<Equal, Space>>}
Majors  == {<<1>>, <<0>>, <<1, 0>>, <<0, 1>>, <<LetterA>>}
Minors  == {<<0>>, <<1>>, <<0, 1>>, <<1, 0>>, <<>>}
Patches == {<<0>>, <<0, 0>>, <<1, 1>>, <<1, Dash>>, <<>>}
Tails   == {<<>>, <<Dash>>, <<Plus>>, <<Space>>, <<Dot, 1>>,
            <<Dash, 1>>, <<Dash, 0, 1>>, <<Dash, Dot, LetterA>>, <<Dash, Dash>>,
            <<Plus, 1>>, <<Plus, 1, Dash, 1>>, <<Plus, 1, Plus, 1>>,
            <<Dash, LetterA, Plus>>, <<Dash, Plus, 1>>, <<Dash, LetterA, Plus, 1, Dash>>,
            <<Dash, LetterA, Space, 1>>, <<Dash, LetterA, Space, Space>>}

VersionLike == {f \o m \o <<Dot>> \o n \o <<Dot>> \o p \o t :
                  f \in Fronts, m \in Majors, n \in Minors, p \in Patches, t \in Tails}

AllInputs == ShortInputs \cup VersionLike

-----------------------------------------------------------------------------
(* "1.1.1-.a+1+1": its pre-release has an empty identifier, its build one  *)
(* with a '+' in it.                                                       *)
UndocumentedInputs ==
  {<<1, Dot, 1, Dot, 1, Dash, Dot, LetterA, Plus, 1, Plus, 1>>}

=============================================================================
