---------------------------- MODULE MCSuccessor ----------------------------
(***************************************************************************)
(* A version to walk from for the model checker.                           *)
(***************************************************************************)
EXTENDS Successor

(* "1.0.0" *)
OneText == {Dotted(1, 0, 0)}
=============================================================================
