----------------------------- MODULE MCChecker -----------------------------
(* Small programs: one operator name, one other, two types of functions. *)
EXTENDS Checker, TLC

CONSTANTS f, add, T, U, S

TwoNames    == {f, add}
OneOperator == {add}
TwoTypes    == {T, U}
OneShader   == {S}
TypeSymmetry == Permutations(TwoTypes)
=============================================================================
