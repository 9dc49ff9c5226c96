------------------------------- MODULE MCEnv -------------------------------
(* A small environment: two names, two declarations, three symbols. *)
EXTENDS Env

CONSTANTS x, y, d1, d2, c1, c2, c3

TwoNames   == {x, y}
TwoDecls   == {d1, d2}
ThreeCells == {c1, c2, c3}
OneKind    == {"block"}
=============================================================================
