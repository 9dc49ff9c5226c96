------------------------------ MODULE Overloads ------------------------------
(***************************************************************************)
(* Overload resolution in check.c: find_func_from_candidates removes the   *)
(* candidates that cannot be called from its array, in place, looks for    *)
(* the best of the others in one pass, and confirms in a second one that   *)
(* it is better than all of them.  Every step is one iteration of a loop.  *)
(*                                                                         *)
(* How well a value of one type converts to another is a constant here;    *)
(* Coercion gives the ranks of type.c.                                     *)
(***************************************************************************)
EXTENDS Naturals, Sequences

CONSTANTS
  Functions,     \* the functions that calls choose from
  Arguments,     \* argument lists of calls
  ReturnTypes,   \* types that are expected of calls
  Types,         \* types of values
  Rank,          \* type_coercion_rank, a number from Impossible upwards
  NoType,        \* no particular type is expected
  NoFunction,    \* the call cannot be resolved
  MaxCandidates  \* bound on the functions that share a name

Parameter == [type : Types, isOutput : BOOLEAN]
Signature == [params : Seq(Parameter), hasEllipsis : BOOLEAN, ret : Types]
Argument  == [type : Types, isMutable : BOOLEAN]

ASSUME OverloadsAssumption ==
  /\ Functions \subseteq Signature
  /\ Arguments \subseteq Seq(Argument)
  /\ ReturnTypes \subseteq Types \cup {NoType}
  /\ Rank \in [Types \X Types -> Nat]
  /\ NoFunction \notin Functions
  /\ MaxCandidates \in Nat

VARIABLES
  phase,       \* the loop that runs
  given,       \* the functions that the name stands for, in the order found
  args,        \* the arguments of the call
  ret,         \* the type that is expected of it
  candidates,  \* the array, with the viable candidates moved to its front
  count,       \* j in remove_non_viable_candidates: the viable candidates so far
  i,           \* the index of the loop that runs, from 1
  best,        \* best_candidate
  result       \* the function that the call is resolved to

vars == <<phase, given, args, ret, candidates, count, i, best, result>>

INSTANCE Candidates

\* COERCION_EXACT is the last rank.  A parameter is never of the type of an
\* initializer in braces, so a value of its type converts to no other type as well
\* as to this one.
ASSUME ExactAssumption ==
  \A f \in Functions : \A k \in DOMAIN f.params :
    LET t == f.params[k].type IN
      /\ CoercionRank(t, t) > Ellipsis
      /\ \A u \in Types \ {t} : CoercionRank(t, t) > CoercionRank(t, u)

-----------------------------------------------------------------------------
(* The loops. *)

\* A name stands for functions that differ from each other.
Names == UNION {{s \in [1 .. n -> Functions] : \A k, l \in 1 .. n : s[k] = s[l] => k = l} :
                  n \in 1 .. MaxCandidates}

Init ==
  /\ phase = "filter"
  /\ given \in Names /\ args \in Arguments /\ ret \in ReturnTypes
  /\ candidates = given
  /\ count = 0 /\ i = 1
  /\ best = NoFunction /\ result = NoFunction

\* Slip: the viable candidates are moved one place too far.
FilterOneFar ==
  /\ phase = "filter" /\ i <= Len(given)
  /\ IF Viable(candidates[i])
     THEN /\ candidates' = [candidates EXCEPT ![count + 2] = candidates[i]]
          /\ count' = count + 1
     ELSE UNCHANGED <<candidates, count>>
  /\ i' = i + 1
  /\ UNCHANGED <<phase, given, args, ret, best, result>>

\* remove_non_viable_candidates
Filter ==
  /\ phase = "filter" /\ i <= Len(given)
  /\ IF Viable(candidates[i])
     THEN /\ candidates' = [candidates EXCEPT ![count + 1] = candidates[i]]
          /\ count' = count + 1
     ELSE UNCHANGED <<candidates, count>>
  /\ i' = i + 1
  /\ UNCHANGED <<phase, given, args, ret, best, result>>

\* Fewer than two viable candidates leave no choice.
Filtered ==
  /\ phase = "filter" /\ i > Len(given)
  /\ IF count <= 1
     THEN /\ phase' = "done"
          /\ result' = IF count = 1 THEN candidates[1] ELSE NoFunction
          /\ UNCHANGED <<i, best>>
     ELSE /\ phase' = "scan"
          /\ best' = candidates[1]
          /\ i' = 2
          /\ UNCHANGED result
  /\ UNCHANGED <<given, args, ret, candidates, count>>

\* find_best_candidate, its first loop
Scan ==
  /\ phase = "scan" /\ i <= count
  /\ best' = IF Better(candidates[i], best) THEN candidates[i] ELSE best
  /\ i' = i + 1
  /\ UNCHANGED <<phase, given, args, ret, candidates, count, result>>

Scanned ==
  /\ phase = "scan" /\ i > count
  /\ phase' = "confirm"
  /\ i' = 1
  /\ UNCHANGED <<given, args, ret, candidates, count, best, result>>

\* Slip: only the candidates after the best are compared with it again.
RivalAfter(f) == f # best /\ \E k \in 1 .. i : candidates[k] = best

\* A candidate that the best one must be better than.
Rival(f) == f # best

\* find_best_candidate, its second loop
Confirm ==
  /\ phase = "confirm" /\ i <= count
  /\ Rival(candidates[i]) => Better(best, candidates[i])
  /\ i' = i + 1
  /\ UNCHANGED <<phase, given, args, ret, candidates, count, best, result>>

Ambiguous ==
  /\ phase = "confirm" /\ i <= count
  /\ Rival(candidates[i]) /\ ~Better(best, candidates[i])
  /\ phase' = "done"
  /\ result' = NoFunction
  /\ UNCHANGED <<given, args, ret, candidates, count, i, best>>

Confirmed ==
  /\ phase = "confirm" /\ i > count
  /\ phase' = "done"
  /\ result' = best
  /\ UNCHANGED <<given, args, ret, candidates, count, i, best>>

Next == Filter \/ Filtered \/ Scan \/ Scanned \/ Confirm \/ Ambiguous \/ Confirmed

Spec == Init /\ [][Next]_vars

-----------------------------------------------------------------------------
(* Properties. *)

TypeOK ==
  /\ phase \in {"filter", "scan", "confirm", "done"}
  /\ given \in Seq(Functions) /\ candidates \in Seq(Functions)
  /\ args \in Arguments /\ ret \in ReturnTypes
  /\ count \in Nat /\ i \in Nat \ {0}
  /\ best \in Functions \cup {NoFunction} /\ result \in Functions \cup {NoFunction}

\* The array is filtered in place, so a write must not overtake the reads
\* (remove_non_viable_candidates): the viable candidates read so far are at its
\* front, and those that are still to be read are where they were.
FilteredInPlace ==
  /\ {candidates[k] : k \in 1 .. count} =
       {f \in {given[k] : k \in 1 .. (IF phase = "filter" THEN i - 1 ELSE Len(given))} : Viable(f)}
  /\ phase = "filter" => \A k \in i .. Len(given) : candidates[k] = given[k]

\* A call is resolved to the one candidate that is better than every other, if
\* there is one, and is ambiguous otherwise, whatever the order of the
\* candidates: one pass over them does not miss it although two candidates need
\* not be comparable (find_best_candidate).
ChoosesDominating ==
  phase = "done" =>
    \/ result # NoFunction /\ Dominates(result)
    \/ result = NoFunction /\ ~\E f \in ViableSet : Dominates(f)

\* Whether the parameters of a function have the very types of the arguments.
TakesAsIs(f) == Len(f.params) = Len(args) /\ \A k \in DOMAIN args : args[k].type = f.params[k].type

\* The order of the ranks gives a function whose parameters have the types of the
\* arguments precedence over those that convert one (enum coercion_rank): if only
\* one viable candidate is such a function, the call is resolved to it.
ExactMatchWins ==
  LET asIs == {f \in ViableSet : TakesAsIs(f)} IN
    phase = "done" /\ (\E f \in asIs : asIs = {f}) => result \in asIs
=============================================================================
