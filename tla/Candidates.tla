----------------------------- MODULE Candidates -----------------------------
(***************************************************************************)
(* The candidates of one call (check.c): which can be called, and which of *)
(* two is better.                                                          *)
(***************************************************************************)
EXTENDS Naturals, Sequences

CONSTANTS
  Rank,    \* type_coercion_rank, a number from Impossible upwards
  NoType,  \* no particular type is expected
  given,   \* the functions that the name stands for
  args,    \* the arguments of the call
  ret      \* the type that is expected of it

Impossible == 0    \* COERCION_IMPOSSIBLE
Ellipsis   == 1    \* COERCION_ELLIPSIS

\* type_coercion_rank
CoercionRank(from, to) == Rank[<<from, to>>]

Params(f) == 1 .. Len(f.params)

\* is_viable_candidate
Viable(f) ==
  /\ Len(f.params) <= Len(args)
  /\ Len(f.params) < Len(args) => f.hasEllipsis
  /\ \A k \in Params(f) :
       /\ f.params[k].isOutput => args[k].isMutable
       /\ CoercionRank(args[k].type, f.params[k].type) # Impossible
  /\ ret # NoType => CoercionRank(f.ret, ret) # Impossible

ArgRank(f, k) == IF k \in Params(f) THEN CoercionRank(args[k].type, f.params[k].type) ELSE Ellipsis

\* Slip: a worse argument does not exclude the candidate.
BetterSomewhere(f, g) ==
  \/ \E k \in 1 .. Len(args) : ArgRank(f, k) > ArgRank(g, k)
  \/ ret # NoType /\ CoercionRank(f.ret, ret) > CoercionRank(g.ret, ret)

\* is_better_candidate: no argument is worse, and one is better or, failing that,
\* the result is.
Better(f, g) ==
  /\ \A k \in 1 .. Len(args) : ArgRank(f, k) >= ArgRank(g, k)
  /\ \/ \E k \in 1 .. Len(args) : ArgRank(f, k) > ArgRank(g, k)
     \/ ret # NoType /\ CoercionRank(f.ret, ret) > CoercionRank(g.ret, ret)

\* The candidates of the name that can be called.
ViableSet == {f \in {given[k] : k \in DOMAIN given} : Viable(f)}

Dominates(f) == f \in ViableSet /\ \A g \in ViableSet \ {f} : Better(f, g)
=============================================================================
