---------------------------- MODULE MCTypeTable ----------------------------
(***************************************************************************)
(* TypeTable with a hash that collides often, and with few types to choose *)
(* from.                                                                   *)
(***************************************************************************)
EXTENDS TypeTable, FiniteSetsExt, Folds, Functions

MCHash(tag, numbers) == FoldFunction(+, 0, numbers) \div 2
=============================================================================
