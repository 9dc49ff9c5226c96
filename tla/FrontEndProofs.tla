---------------------------- MODULE FrontEndProofs ----------------------------
(***************************************************************************)
(* Theorems about the two parts of the front end that share no state with  *)
(* another: overload resolution and the parser.                            *)
(*                                                                         *)
(* Overload resolution finds the dominating candidate, for every set of    *)
(* functions, every list of arguments and all ranks; so a candidate that   *)
(* takes every argument as it is wins over those that convert one.         *)
(*                                                                         *)
(* The parser never eats a token that it has not seen, whatever it reads.  *)
(***************************************************************************)
EXTENDS Overloads, SeqLemmas

\* The viable candidates among the first n of the name.
ViableAmong(n) == {f \in {given[k] : k \in 1 .. n} : Viable(f)}

\* Those at the front of the array.
Kept == {candidates[k] : k \in 1 .. count}

Bounds ==
  /\ Len(candidates) = Len(given)
  /\ count <= Len(given) /\ i <= Len(given) + 1
  /\ phase = "filter" => count < i

\* The scan has not lost a dominating candidate that it has seen.
ScanFinds ==
  phase = "scan" =>
    /\ best \in Kept /\ i <= count + 1
    /\ \A k \in 1 .. i - 1 : Dominates(candidates[k]) => best = candidates[k]

\* After it, only the best candidate can dominate the others.
ConfirmsBest ==
  phase = "confirm" =>
    /\ best \in Kept /\ i <= count + 1
    /\ \A f \in ViableSet : Dominates(f) => best = f
    /\ \A k \in 1 .. i - 1 : candidates[k] # best => Better(best, candidates[k])

IInv ==
  /\ TypeOK /\ Bounds /\ FilteredInPlace
  /\ ScanFinds /\ ConfirmsBest /\ ChoosesDominating

-----------------------------------------------------------------------------
(* The order of the candidates. *)

LEMMA RanksAreNumbers ==
  ASSUME TypeOK, NEW f \in Functions, NEW k \in 1 .. Len(args)
  PROVE  ArgRank(f, k) \in Nat
<1>1. args \in Seq(Argument) /\ f \in Signature
  BY OverloadsAssumption DEF TypeOK
<1>2. args[k] \in Argument
  BY <1>1
<1>3. CASE k \in Params(f)
  <2>1. f.params \in Seq(Parameter)
    BY <1>1 DEF Signature
  <2>2. f.params[k] \in Parameter
    BY <1>3, <2>1 DEF Params
  <2>3. <<args[k].type, f.params[k].type>> \in Types \X Types
    BY <1>2, <2>2 DEF Argument, Parameter
  <2> QED
    BY <1>3, <2>3, OverloadsAssumption DEF ArgRank, CoercionRank
<1>4. CASE k \notin Params(f)
  BY <1>4 DEF ArgRank, Ellipsis
<1> QED
  BY <1>3, <1>4

LEMMA ResultRanksAreNumbers ==
  ASSUME TypeOK, NEW f \in Functions, ret # NoType
  PROVE  CoercionRank(f.ret, ret) \in Nat
<1>1. f \in Signature /\ ret \in Types
  BY OverloadsAssumption DEF TypeOK
<1>2. <<f.ret, ret>> \in Types \X Types
  BY <1>1 DEF Signature
<1> QED
  BY <1>2, OverloadsAssumption DEF CoercionRank

\* No two candidates are better than each other, and none is better than itself.
LEMMA BetterIsAsymmetric ==
  ASSUME TypeOK, NEW f \in Functions, NEW g \in Functions, Better(f, g)
  PROVE  ~Better(g, f)
<1> SUFFICES ASSUME Better(g, f) PROVE FALSE
  OBVIOUS
<1>1. \A k \in 1 .. Len(args) : ArgRank(f, k) \in Nat /\ ArgRank(g, k) \in Nat
  BY RanksAreNumbers
<1>2. \A k \in 1 .. Len(args) : ArgRank(f, k) >= ArgRank(g, k) /\ ArgRank(g, k) >= ArgRank(f, k)
  BY DEF Better
<1>3. \A k \in 1 .. Len(args) : ~(ArgRank(f, k) > ArgRank(g, k)) /\ ~(ArgRank(g, k) > ArgRank(f, k))
  BY <1>1, <1>2
<1>4. /\ ret # NoType
      /\ CoercionRank(f.ret, ret) > CoercionRank(g.ret, ret) /\ CoercionRank(g.ret, ret) > CoercionRank(f.ret, ret)
  BY <1>3, Zenon DEF Better
<1>5. CoercionRank(f.ret, ret) \in Nat /\ CoercionRank(g.ret, ret) \in Nat
  BY <1>4, ResultRanksAreNumbers
<1> QED
  BY <1>4, <1>5

\* The call itself does not change while it is resolved.
LEMMA SameCall ==
  ASSUME UNCHANGED <<given, args, ret>>
  PROVE  /\ \A f : Viable(f)' = Viable(f) /\ Dominates(f)' = Dominates(f)
         /\ \A f, g : Better(f, g)' = Better(f, g)
         /\ ViableSet' = ViableSet
         /\ \A n : ViableAmong(n)' = ViableAmong(n)
<1>1. \A f : Viable(f)' = Viable(f)
  BY DEF Viable, Params, CoercionRank
<1>2. \A f, k : ArgRank(f, k)' = ArgRank(f, k)
  BY DEF ArgRank, Params, CoercionRank
<1>3. \A f, g : Better(f, g)' = Better(f, g)
  BY <1>2 DEF Better, CoercionRank
<1>4. ViableSet' = ViableSet
  BY <1>1 DEF ViableSet
<1>5. \A f : Dominates(f)' = Dominates(f)
  BY <1>3, <1>4 DEF Dominates
<1>6. \A n : ViableAmong(n)' = ViableAmong(n)
  BY <1>1 DEF ViableAmong
<1> QED
  BY <1>1, <1>3, <1>4, <1>5, <1>6

-----------------------------------------------------------------------------
(* Every step keeps the invariant. *)

\* What the invariant says of the array, element by element.
LEMMA KeptAreViable ==
  ASSUME TypeOK, Bounds, FilteredInPlace
  PROVE  \A k \in 1 .. count : candidates[k] \in ViableSet /\ candidates[k] \in Functions
<1>1. Kept = ViableAmong(IF phase = "filter" THEN i - 1 ELSE Len(given))
  BY DEF FilteredInPlace, Kept, ViableAmong
<1>2. DOMAIN given = 1 .. Len(given) /\ Len(given) \in Nat /\ \A k \in 1 .. Len(given) : given[k] \in Functions
  BY DEF TypeOK
<1>3. ViableSet = ViableAmong(Len(given)) /\ ViableSet \subseteq Functions
  BY <1>2 DEF ViableSet, ViableAmong
<1>4. ViableAmong(i - 1) \subseteq ViableSet
  BY <1>2 DEF ViableSet, ViableAmong, Bounds, TypeOK
<1>5. Kept \subseteq ViableSet
  BY <1>1, <1>3, <1>4
<1>6. \A k \in 1 .. count : candidates[k] \in Kept
  BY DEF Kept
<1> QED
  BY <1>3, <1>5, <1>6

LEMMA InitHolds == ASSUME Init PROVE IInv
<1>1. given \in Seq(Functions)
  BY SeqDef, OverloadsAssumption DEF Init, Names
<1>2. TypeOK
  BY <1>1 DEF Init, TypeOK
<1>3. Bounds
  BY <1>1 DEF Init, Bounds
<1>4. FilteredInPlace
  <2>1. 1 .. count = {} /\ 1 .. (IF phase = "filter" THEN i - 1 ELSE Len(given)) = {}
    BY DEF Init
  <2> QED
    BY <2>1 DEF FilteredInPlace, Init
<1> QED
  BY <1>2, <1>3, <1>4 DEF Init, IInv, ScanFinds, ConfirmsBest, ChoosesDominating

LEMMA FilterKeeps == ASSUME IInv, Filter PROVE IInv'
<1> USE DEF IInv
<1>1. /\ phase = "filter" /\ phase' = "filter" /\ i <= Len(given) /\ i' = i + 1
      /\ UNCHANGED <<given, args, ret, best, result>>
  BY DEF Filter
<1>2. /\ count \in Nat /\ i \in Nat \ {0} /\ count < i /\ Len(given) \in Nat
      /\ candidates \in Seq(Functions) /\ Len(candidates) = Len(given)
      /\ candidates[i] = given[i] /\ given[i] \in Functions
  BY <1>1 DEF TypeOK, Bounds, FilteredInPlace
<1>3. CASE Viable(candidates[i])
  <2>1. candidates' = [candidates EXCEPT ![count + 1] = candidates[i]] /\ count' = count + 1
    BY <1>3 DEF Filter
  <2>2. candidates' \in Seq(Functions) /\ Len(candidates') = Len(candidates)
    BY <1>1, <1>2, <2>1
  <2>3. /\ candidates'[count + 1] = given[i]
        /\ \A k \in 1 .. Len(given) : k # count + 1 => candidates'[k] = candidates[k]
    BY <1>1, <1>2, <2>1
  <2>4. TypeOK' /\ Bounds'
    BY <1>1, <1>2, <2>1, <2>2 DEF TypeOK, Bounds
  <2>5. Kept' = Kept \cup {given[i]}
    BY <1>1, <1>2, <2>1, <2>3 DEF Kept
  <2>6. ViableAmong(i) = ViableAmong(i - 1) \cup {given[i]}
    BY <1>2, <1>3 DEF ViableAmong
  <2>7. FilteredInPlace'
    <3>1. Kept = ViableAmong(i - 1)
      BY <1>1 DEF Kept, ViableAmong, FilteredInPlace
    <3>2. \A n : ViableAmong(n)' = ViableAmong(n)
      BY <1>1, SameCall
    <3>3. i' - 1 = i
      BY <1>1, <1>2
    <3>4. \A k \in i' .. Len(given) : candidates'[k] = given[k]
      BY <1>1, <1>2, <2>3 DEF FilteredInPlace
    <3>5. Kept' = ViableAmong(i - 1)'
      BY <2>5, <2>6, <3>1, <3>2, <3>3
    <3> QED
      BY <1>1, <3>4, <3>5 DEF FilteredInPlace, Kept, ViableAmong
  <2> QED
    BY <1>1, <2>4, <2>7 DEF ScanFinds, ConfirmsBest, ChoosesDominating
<1>4. CASE ~Viable(candidates[i])
  <2>1. UNCHANGED <<candidates, count>>
    BY <1>4 DEF Filter
  <2>2. TypeOK' /\ Bounds'
    BY <1>1, <1>2, <2>1 DEF TypeOK, Bounds
  <2>3. ViableAmong(i) = ViableAmong(i - 1)
    BY <1>2, <1>4 DEF ViableAmong
  <2>4. FilteredInPlace'
    <3>1. Kept = ViableAmong(i - 1)
      BY <1>1 DEF Kept, ViableAmong, FilteredInPlace
    <3>2. \A n : ViableAmong(n)' = ViableAmong(n)
      BY <1>1, SameCall
    <3>3. i' - 1 = i /\ Kept' = Kept
      BY <1>1, <1>2, <2>1 DEF Kept
    <3>4. \A k \in i' .. Len(given) : candidates'[k] = given[k]
      BY <1>1, <1>2, <2>1 DEF FilteredInPlace
    <3>5. Kept' = ViableAmong(i - 1)'
      BY <2>3, <3>1, <3>2, <3>3
    <3> QED
      BY <1>1, <3>4, <3>5 DEF FilteredInPlace, Kept, ViableAmong
  <2> QED
    BY <1>1, <2>2, <2>4 DEF ScanFinds, ConfirmsBest, ChoosesDominating
<1> QED
  BY <1>3, <1>4

\* After the filter the array stays as it is, and so do the facts about it.
LEMMA ArrayKeeps ==
  ASSUME IInv, phase # "filter" \/ i > Len(given), phase' # "filter",
         UNCHANGED <<given, args, ret, candidates, count>>
  PROVE  FilteredInPlace' /\ ViableSet' = ViableSet /\ Kept' = Kept /\ Kept = ViableSet
<1>1. /\ \A f : Viable(f)' = Viable(f)
      /\ ViableSet' = ViableSet
  BY SameCall
<1>2. Kept' = Kept
  BY DEF Kept
<1>3. phase = "filter" => i - 1 = Len(given)
  BY DEF IInv, TypeOK, Bounds
<1>4. Kept = ViableAmong(Len(given))
  BY <1>3 DEF IInv, FilteredInPlace, Kept, ViableAmong
<1>5. ViableAmong(Len(given)) = ViableSet
  BY DEF ViableAmong, ViableSet, IInv, TypeOK
<1>6. FilteredInPlace'
  <2>1. {candidates[k] : k \in 1 .. count}' = {f \in {given[k] : k \in 1 .. Len(given)} : Viable(f)}'
    BY <1>1, <1>4 DEF Kept, ViableAmong
  <2> QED
    BY <2>1 DEF FilteredInPlace
<1> QED
  BY <1>1, <1>2, <1>4, <1>5, <1>6

LEMMA FilteredKeeps == ASSUME IInv, Filtered PROVE IInv'
<1> USE DEF IInv
<1>1. phase = "filter" /\ i > Len(given) /\ UNCHANGED <<given, args, ret, candidates, count>>
  BY DEF Filtered
<1>2. phase' # "filter"
  BY DEF Filtered
<1>3. FilteredInPlace' /\ ViableSet' = ViableSet /\ Kept' = Kept /\ Kept = ViableSet
  BY <1>1, <1>2, ArrayKeeps
<1>4. \A k \in 1 .. count : candidates[k] \in ViableSet /\ candidates[k] \in Functions
  BY KeptAreViable
<1>5. count \in Nat /\ Len(given) \in Nat /\ i = Len(given) + 1
  BY <1>1 DEF TypeOK, Bounds
<1>6. CASE count <= 1
  <2>1. /\ phase' = "done" /\ UNCHANGED <<i, best>>
        /\ result' = IF count = 1 THEN candidates[1] ELSE NoFunction
    BY <1>6 DEF Filtered
  <2>2. TypeOK' /\ Bounds'
    BY <1>1, <1>4, <1>5, <2>1 DEF TypeOK, Bounds
  <2>3. ChoosesDominating'
    <3>1. \A f : Dominates(f)' = Dominates(f)
      BY <1>1, SameCall
    <3>2. CASE count = 1
      <4>1. ViableSet = {candidates[1]}
        BY <1>3, <3>2 DEF Kept
      <4>2. result' = candidates[1] /\ result' # NoFunction
        BY <1>4, <2>1, <3>2, OverloadsAssumption
      <4>3. Dominates(candidates[1])
        BY <4>1 DEF Dominates
      <4>4. Dominates(result')
        BY <4>2, <4>3
      <4> QED
        BY <1>1, <1>3, <3>1, <4>2, <4>4 DEF ChoosesDominating, Dominates, Better, ArgRank, Params
    <3>3. CASE count = 0
      <4>1. ViableSet' = {}
        BY <1>3, <3>3 DEF Kept
      <4> QED
        BY <2>1, <3>3, <4>1 DEF ChoosesDominating
    <3> QED
      BY <1>5, <1>6, <3>2, <3>3
  <2> QED
    BY <1>3, <2>1, <2>2, <2>3 DEF ScanFinds, ConfirmsBest
<1>7. CASE count > 1
  <2>1. phase' = "scan" /\ best' = candidates[1] /\ i' = 2 /\ UNCHANGED result
    BY <1>5, <1>7 DEF Filtered
  <2>2. TypeOK' /\ Bounds'
    BY <1>1, <1>4, <1>5, <1>7, <2>1 DEF TypeOK, Bounds
  <2>3. ScanFinds'
    BY <1>1, <1>5, <1>7, <2>1 DEF ScanFinds, Kept
  <2> QED
    BY <1>3, <2>1, <2>2, <2>3 DEF ConfirmsBest, ChoosesDominating
<1> QED
  BY <1>5, <1>6, <1>7

\* A candidate that is better than the best so far is not worse than one that
\* dominates all.
LEMMA ScanKeeps == ASSUME IInv, Scan PROVE IInv'
<1> USE DEF IInv
<1>1. /\ phase = "scan" /\ phase' = "scan" /\ i <= count /\ i' = i + 1
      /\ UNCHANGED <<given, args, ret, candidates, count, result>>
  BY DEF Scan
<1>2. FilteredInPlace' /\ ViableSet' = ViableSet /\ Kept' = Kept /\ Kept = ViableSet
  BY <1>1, ArrayKeeps
<1>3. \A k \in 1 .. count : candidates[k] \in ViableSet /\ candidates[k] \in Functions
  BY KeptAreViable
<1>4. count \in Nat /\ i \in 1 .. count /\ count <= Len(given) /\ Len(given) \in Nat
  BY <1>1 DEF TypeOK, Bounds
<1>5. best \in ViableSet /\ best \in Functions
  BY <1>1, <1>2, <1>3 DEF ScanFinds, Kept
<1>6. best' = IF Better(candidates[i], best) THEN candidates[i] ELSE best
  BY DEF Scan
<1>7. best' \in Kept /\ best' \in Functions
  BY <1>2, <1>3, <1>4, <1>5, <1>6
<1>8. TypeOK' /\ Bounds'
  BY <1>1, <1>4, <1>7 DEF TypeOK, Bounds
<1>9. \A k \in 1 .. i : Dominates(candidates[k]) => best' = candidates[k]
  <2> SUFFICES ASSUME NEW k \in 1 .. i, Dominates(candidates[k]) PROVE best' = candidates[k]
    OBVIOUS
  <2>1. \A g \in ViableSet : g # candidates[k] => Better(candidates[k], g)
    BY DEF Dominates
  <2>2. candidates[k] \in Functions /\ candidates[i] \in Functions /\ candidates[i] \in ViableSet
    BY <1>3, <1>4
  <2>3. CASE k = i
    BY <1>5, <1>6, <2>1, <2>3
  <2>4. CASE k < i
    <3>1. best = candidates[k]
      BY <1>1, <1>4, <2>4 DEF ScanFinds
    <3>2. candidates[i] # best => ~Better(candidates[i], best)
      BY <2>1, <2>2, <3>1, BetterIsAsymmetric
    <3> QED
      BY <1>6, <3>1, <3>2
  <2> QED
    BY <1>4, <2>3, <2>4
<1>10. ScanFinds'
  <2>1. \A f : Dominates(f)' = Dominates(f)
    BY <1>1, SameCall
  <2>2. \A k \in 1 .. i : Dominates(candidates[k])' => best' = candidates[k]
    BY <1>1, <1>9, <2>1
  <2>3. i' - 1 = i /\ i' <= count + 1
    BY <1>1, <1>4
  <2> QED
    BY <1>1, <1>2, <1>7, <1>9, <2>1, <2>2, <2>3 DEF ScanFinds
<1> QED
  BY <1>1, <1>2, <1>8, <1>10 DEF ConfirmsBest, ChoosesDominating

\* The scan has seen every viable candidate when it ends.
LEMMA ScannedKeeps == ASSUME IInv, Scanned PROVE IInv'
<1> USE DEF IInv
<1>1. /\ phase = "scan" /\ phase' = "confirm" /\ i > count /\ i' = 1
      /\ UNCHANGED <<given, args, ret, candidates, count, best, result>>
  BY DEF Scanned
<1>2. FilteredInPlace' /\ ViableSet' = ViableSet /\ Kept' = Kept /\ Kept = ViableSet
  BY <1>1, ArrayKeeps
<1>3. count \in Nat /\ i - 1 = count /\ Len(given) \in Nat
  BY <1>1 DEF TypeOK, Bounds, ScanFinds
<1>4. TypeOK' /\ Bounds'
  BY <1>1, <1>3 DEF TypeOK, Bounds
<1>5. \A f \in ViableSet : Dominates(f) => best = f
  BY <1>1, <1>2, <1>3 DEF Kept, ScanFinds
<1>6. ConfirmsBest'
  <2>1. \A f : Dominates(f)' = Dominates(f)
    BY <1>1, SameCall
  <2>2. best \in Kept
    BY <1>1 DEF ScanFinds
  <2> QED
    BY <1>1, <1>2, <1>3, <1>5, <2>1, <2>2 DEF ConfirmsBest
<1> QED
  BY <1>1, <1>2, <1>4, <1>6 DEF ScanFinds, ChoosesDominating

LEMMA ConfirmKeeps == ASSUME IInv, Confirm PROVE IInv'
<1> USE DEF IInv
<1>1. /\ phase = "confirm" /\ phase' = "confirm" /\ i <= count /\ i' = i + 1
      /\ candidates[i] # best => Better(best, candidates[i])
      /\ UNCHANGED <<given, args, ret, candidates, count, best, result>>
  BY DEF Confirm, Rival
<1>2. FilteredInPlace' /\ ViableSet' = ViableSet /\ Kept' = Kept /\ Kept = ViableSet
  BY <1>1, ArrayKeeps
<1>3. count \in Nat /\ i \in 1 .. count /\ count <= Len(given) /\ Len(given) \in Nat
  BY <1>1 DEF TypeOK, Bounds
<1>4. TypeOK' /\ Bounds'
  BY <1>1, <1>3 DEF TypeOK, Bounds
<1>5. ConfirmsBest'
  <2>1. \A f, g : Dominates(f)' = Dominates(f) /\ Better(f, g)' = Better(f, g)
    BY <1>1, SameCall
  <2>2. \A k \in 1 .. i : candidates[k] # best => Better(best, candidates[k])
    BY <1>1, <1>3 DEF ConfirmsBest
  <2>3. best \in Kept /\ \A f \in ViableSet : Dominates(f) => best = f
    BY <1>1 DEF ConfirmsBest
  <2>4. i' - 1 = i /\ i' <= count + 1
    BY <1>1, <1>3
  <2> QED
    BY <1>1, <1>2, <2>1, <2>2, <2>3, <2>4 DEF ConfirmsBest
<1> QED
  BY <1>1, <1>2, <1>4, <1>5 DEF ScanFinds, ChoosesDominating

LEMMA AmbiguousKeeps == ASSUME IInv, Ambiguous PROVE IInv'
<1> USE DEF IInv
<1>1. /\ phase = "confirm" /\ phase' = "done" /\ i <= count /\ result' = NoFunction
      /\ candidates[i] # best /\ ~Better(best, candidates[i])
      /\ UNCHANGED <<given, args, ret, candidates, count, i, best>>
  BY DEF Ambiguous, Rival
<1>2. FilteredInPlace' /\ ViableSet' = ViableSet /\ Kept' = Kept /\ Kept = ViableSet
  BY <1>1, ArrayKeeps
<1>3. TypeOK' /\ Bounds'
  BY <1>1 DEF TypeOK, Bounds
<1>4. candidates[i] \in ViableSet
  BY <1>1, KeptAreViable DEF TypeOK
<1>5. ~Dominates(best)
  BY <1>1, <1>4 DEF Dominates
<1>6. ~\E f \in ViableSet : Dominates(f)
  BY <1>1, <1>5 DEF ConfirmsBest
<1>7. ChoosesDominating'
  <2>1. \A f : Dominates(f)' = Dominates(f)
    BY <1>1, SameCall
  <2> QED
    BY <1>1, <1>2, <1>6, <2>1 DEF ChoosesDominating
<1> QED
  BY <1>1, <1>2, <1>3, <1>7 DEF ScanFinds, ConfirmsBest

LEMMA ConfirmedKeeps == ASSUME IInv, Confirmed PROVE IInv'
<1> USE DEF IInv
<1>1. /\ phase = "confirm" /\ phase' = "done" /\ i > count /\ result' = best
      /\ UNCHANGED <<given, args, ret, candidates, count, i, best>>
  BY DEF Confirmed
<1>2. FilteredInPlace' /\ ViableSet' = ViableSet /\ Kept' = Kept /\ Kept = ViableSet
  BY <1>1, ArrayKeeps
<1>3. i - 1 = count
  BY <1>1 DEF TypeOK, ConfirmsBest
<1>4. best \in ViableSet /\ best \in Functions
  BY <1>1, <1>2, KeptAreViable DEF ConfirmsBest, Kept
<1>5. TypeOK' /\ Bounds'
  BY <1>1, <1>4 DEF TypeOK, Bounds
<1>6. \A f \in ViableSet : f # best => Better(best, f)
  BY <1>1, <1>2, <1>3 DEF ConfirmsBest, Kept
<1>7. Dominates(best) /\ best # NoFunction
  BY <1>4, <1>6, OverloadsAssumption DEF Dominates
<1>8. ChoosesDominating'
  <2>1. \A f : Dominates(f)' = Dominates(f)
    BY <1>1, SameCall
  <2>2. Dominates(best)' /\ best' = best
    BY <1>1, <1>7, <2>1
  <2> QED
    BY <1>1, <1>7, <2>2 DEF ChoosesDominating
<1> QED
  BY <1>1, <1>2, <1>5, <1>8 DEF ScanFinds, ConfirmsBest

LEMMA StutterKeeps == ASSUME IInv, UNCHANGED vars PROVE IInv'
<1> USE DEF IInv
<1>1. UNCHANGED <<phase, given, args, ret, candidates, count, i, best, result>>
  BY DEF vars
<1>2. /\ \A f : Viable(f)' = Viable(f) /\ Dominates(f)' = Dominates(f)
      /\ \A f, g : Better(f, g)' = Better(f, g)
      /\ ViableSet' = ViableSet
  BY <1>1, SameCall
<1>3. Kept' = Kept
  BY <1>1 DEF Kept
<1>4. TypeOK' /\ Bounds'
  BY <1>1 DEF TypeOK, Bounds
<1>5. FilteredInPlace'
  BY <1>1, <1>2 DEF FilteredInPlace
<1>6. ScanFinds'
  <2>1. \A k : Dominates(candidates[k])' = Dominates(candidates[k])
    BY <1>1, <1>2
  <2> QED
    BY <1>1, <1>3, <2>1 DEF ScanFinds
<1>7. ConfirmsBest'
  <2>1. \A k : Better(best, candidates[k])' = Better(best, candidates[k])
    BY <1>1, <1>2
  <2> QED
    BY <1>1, <1>2, <1>3, <2>1 DEF ConfirmsBest
<1>8. ChoosesDominating'
  <2>1. Dominates(result)' = Dominates(result)
    BY <1>1, <1>2
  <2> QED
    BY <1>1, <1>2, <2>1 DEF ChoosesDominating
<1> QED
  BY <1>4, <1>5, <1>6, <1>7, <1>8

-----------------------------------------------------------------------------
(* Functions that take the arguments as they are. *)

\* No candidate takes an argument better than one whose parameter has its type, and
\* one that converts it takes it worse.
LEMMA AsIsRanks ==
  ASSUME TypeOK, NEW f \in Functions, TakesAsIs(f), NEW g \in Functions, NEW k \in 1 .. Len(args)
  PROVE  /\ ArgRank(f, k) \in Nat /\ ArgRank(g, k) \in Nat
         /\ ArgRank(f, k) >= ArgRank(g, k)
         /\ k \notin Params(g) \/ g.params[k].type # args[k].type => ArgRank(f, k) > ArgRank(g, k)
<1> DEFINE t == args[k].type
<1>1. ArgRank(f, k) \in Nat /\ ArgRank(g, k) \in Nat
  BY RanksAreNumbers
<1>2. args \in Seq(Argument) /\ f.params \in Seq(Parameter) /\ g.params \in Seq(Parameter)
  BY OverloadsAssumption DEF TypeOK, Signature
<1>3. k \in DOMAIN f.params /\ k \in Params(f) /\ f.params[k].type = t
  BY <1>2 DEF TakesAsIs, Params
<1>4. ArgRank(f, k) = CoercionRank(t, t)
  BY <1>3 DEF ArgRank
<1>5. CoercionRank(t, t) > Ellipsis /\ \A u \in Types \ {t} : CoercionRank(t, t) > CoercionRank(t, u)
  BY <1>3, ExactAssumption
<1>6. CASE k \notin Params(g)
  <2>1. ArgRank(g, k) = Ellipsis
    BY <1>6 DEF ArgRank
  <2> QED
    BY <1>1, <1>4, <1>5, <2>1
<1>7. CASE k \in Params(g) /\ g.params[k].type = t
  <2>1. ArgRank(g, k) = CoercionRank(t, t)
    BY <1>7 DEF ArgRank
  <2> QED
    BY <1>1, <1>4, <1>7, <2>1
<1>8. CASE k \in Params(g) /\ g.params[k].type # t
  <2>1. g.params[k] \in Parameter
    BY <1>2, <1>8 DEF Params
  <2>2. g.params[k].type \in Types \ {t}
    BY <1>8, <2>1 DEF Parameter
  <2>3. ArgRank(g, k) = CoercionRank(t, g.params[k].type)
    BY <1>8 DEF ArgRank
  <2>4. ArgRank(f, k) > ArgRank(g, k)
    BY <1>4, <1>5, <2>2, <2>3
  <2> QED
    BY <1>1, <2>4
<1> QED
  BY <1>6, <1>7, <1>8

\* So it is better than a candidate that does not.
LEMMA AsIsIsBetter ==
  ASSUME TypeOK, NEW f \in Functions, TakesAsIs(f),
         NEW g \in Functions, Viable(g), ~TakesAsIs(g)
  PROVE  Better(f, g)
<1>1. args \in Seq(Argument) /\ f.params \in Seq(Parameter) /\ g.params \in Seq(Parameter)
  BY OverloadsAssumption DEF TypeOK, Signature
<1>2. Len(args) \in Nat /\ DOMAIN args = 1 .. Len(args) /\ Len(g.params) \in Nat /\ Len(g.params) <= Len(args)
  BY <1>1 DEF Viable
<1>3. \E k \in 1 .. Len(args) : k \notin Params(g) \/ g.params[k].type # args[k].type
  <2>1. CASE Len(g.params) = Len(args)
    BY <1>2, <2>1 DEF TakesAsIs
  <2>2. CASE Len(g.params) # Len(args)
    <3>1. Len(args) \in 1 .. Len(args) /\ Len(args) \notin Params(g)
      BY <1>2, <2>2 DEF Params
    <3> QED
      BY <3>1
  <2> QED
    BY <2>1, <2>2
<1>4. \E k \in 1 .. Len(args) : ArgRank(f, k) > ArgRank(g, k)
  BY <1>3, AsIsRanks
<1>5. \A k \in 1 .. Len(args) : ArgRank(f, k) >= ArgRank(g, k)
  BY AsIsRanks
<1> QED
  BY <1>4, <1>5 DEF Better

\* The only one that takes the arguments as they are dominates the others, and no
\* two candidates dominate each other.
LEMMA AsIsIsChosen ==
  ASSUME TypeOK, ChoosesDominating
  PROVE  ExactMatchWins
<1> DEFINE asIs == {f \in ViableSet : TakesAsIs(f)}
<1> SUFFICES ASSUME phase = "done", NEW f \in asIs, asIs = {f} PROVE result \in asIs
  BY DEF ExactMatchWins
<1>1. ViableSet \subseteq Functions /\ \A g \in ViableSet : Viable(g)
  BY DEF TypeOK, ViableSet
<1>2. f \in ViableSet /\ TakesAsIs(f) /\ \A g \in ViableSet \ {f} : ~TakesAsIs(g)
  OBVIOUS
<1>3. \A g \in ViableSet \ {f} : Better(f, g)
  BY <1>1, <1>2, AsIsIsBetter
<1>4. Dominates(f)
  BY <1>2, <1>3 DEF Dominates
<1>5. Dominates(result)
  BY <1>2, <1>4 DEF ChoosesDominating
<1>6. result = f
  <2> SUFFICES ASSUME result # f PROVE FALSE
    OBVIOUS
  <2>1. result \in ViableSet /\ Better(result, f) /\ Better(f, result)
    BY <1>2, <1>3, <1>5 DEF Dominates
  <2> QED
    BY <1>1, <1>2, <2>1, BetterIsAsymmetric
<1> QED
  BY <1>6

-----------------------------------------------------------------------------
(* The theorems about overload resolution. *)

\* The inductive invariant of the resolution holds in every state.
THEOREM Invariance == Spec => []IInv
<1>1. Init => IInv
  BY InitHolds
<1>2. IInv /\ [Next]_vars => IInv'
  BY FilterKeeps, FilteredKeeps, ScanKeeps, ScannedKeeps, ConfirmKeeps, AmbiguousKeeps,
     ConfirmedKeeps, StutterKeeps DEF Next
<1> QED
  BY <1>1, <1>2, PTL DEF Spec

\* remove_non_viable_candidates filters its array in place without losing,
\* repeating or inventing a candidate.
THEOREM FiltersInPlace == Spec => []FilteredInPlace
<1>1. IInv => FilteredInPlace
  BY DEF IInv
<1> QED
  BY <1>1, Invariance, PTL

\* For all functions, arguments and ranks, a call is resolved to the candidate
\* that is better than every other, and is ambiguous if there is none.
THEOREM DominatingIsChosen == Spec => []ChoosesDominating
<1>1. IInv => ChoosesDominating
  BY DEF IInv
<1> QED
  BY <1>1, Invariance, PTL

\* A function whose parameters have the types of the arguments is what the call is
\* resolved to, if it is the only one, whatever the ranks of the other conversions.
THEOREM ExactMatchIsChosen == Spec => []ExactMatchWins
<1>1. IInv => ExactMatchWins
  BY AsIsIsChosen DEF IInv
<1> QED
  BY <1>1, Invariance, PTL

-----------------------------------------------------------------------------
(***************************************************************************)
(* The parser.  A parse function that begins with eat_token takes a token  *)
(* for granted.  It is called where that token is ahead: first in an arm   *)
(* of a switch on ahead[0] that is for this token only, or first in code   *)
(* that is itself run only there.                                          *)
(*                                                                         *)
(* What a piece of code does with a token ahead is stated in three layers, *)
(* one for each depth of branches in branches: code without a branch (0),  *)
(* with branches whose arms have none (1), and with branches of those (2). *)
(***************************************************************************)

CONSTANT Programs
VARIABLES tokens, pos, stack, nodes, errors

P == INSTANCE Parser

IsCode(c) == \E S : c \in Seq(S)

\* The parse functions that begin with eat_token, and the token that each takes for
\* granted.
Opening ==
  [compound_init |-> "lbrace", cast_expr |-> "(", paren_expr |-> "(", cast_or_paren_expr |-> "(",
   shader_type |-> "shader", closure_type |-> "closure", if_stmt |-> "if",
   break_stmt |-> "break", continue_stmt |-> "continue", return_stmt |-> "return",
   while_loop |-> "while", do_while_loop |-> "do", block |-> "lbrace", for_loop |-> "for",
   empty_stmt |-> "semicolon", shader_decl |-> "shader", struct_decl |-> "struct"]

\* The function fn may be called with the token t ahead, and with any.
Opens(fn, t) == fn \in DOMAIN P!Body /\ (fn \in DOMAIN Opening => t = Opening[fn])
OpensAnywhere(fn) == fn \in DOMAIN P!Body \ DOMAIN Opening

\* The item takes no token for granted, itself or through the function it calls, but t.
Safe(it, t) ==
  /\ it.do = "eat" => t = it.tag
  /\ it.do \in {"call", "pass"} => Opens(it.fn, t)
  /\ it.do \in {"many", "elem"} => OpensAnywhere(it.fn)

\* The layers: an item that is safe with the token t ahead, and a sequence whose first
\* item is safe with t and the others with any token, since the first may have read t.
Fits0(it, t) == Safe(it, t) /\ it.do # "switch"
Fits0Anywhere(it) == \A t : Fits0(it, t)
Runs0(c, t) ==
  /\ IsCode(c)
  /\ \A k \in 1 .. Len(c) : IF k = 1 THEN Fits0(c[k], t) ELSE Fits0Anywhere(c[k])

ArmRuns0(arm, at, t) == (at = 0 => t \in arm[1]) => Runs0(arm[2], t)

Fits1(it, t) ==
  /\ Safe(it, t)
  /\ it.do = "switch" =>
       /\ \A k \in DOMAIN it.arms : ArmRuns0(it.arms[k], it.at, t)
       /\ Runs0(it.otherwise, t)
Fits1Anywhere(it) == \A t : Fits1(it, t)
Runs1(c, t) ==
  /\ IsCode(c)
  /\ \A k \in 1 .. Len(c) : IF k = 1 THEN Fits1(c[k], t) ELSE Fits1Anywhere(c[k])

ArmRuns1(arm, at, t) == (at = 0 => t \in arm[1]) => Runs1(arm[2], t)

Fits2(it, t) ==
  /\ Safe(it, t)
  /\ it.do = "switch" =>
       /\ \A k \in DOMAIN it.arms : ArmRuns1(it.arms[k], it.at, t)
       /\ Runs1(it.otherwise, t)
Fits2Anywhere(it) == \A t : Fits2(it, t)
Runs2(c, t) ==
  /\ IsCode(c)
  /\ \A k \in 1 .. Len(c) : IF k = 1 THEN Fits2(c[k], t) ELSE Fits2Anywhere(c[k])
Anywhere(c) == \A t : Runs2(c, t)

-----------------------------------------------------------------------------
(* Code of a few items, and code made of these. *)

LEMMA EmptyCode == ASSUME NEW t PROVE Runs0(<<>>, t) /\ Runs1(<<>>, t) /\ Runs2(<<>>, t)
<1>1. IsCode(<<>>) /\ Len(<<>>) = 0
  BY DEF IsCode
<1> QED
  BY <1>1 DEF Runs0, Runs1, Runs2

\* A layer contains those below it.
LEMMA Lifts ==
  ASSUME NEW c, NEW t
  PROVE  /\ Fits0(c, t) => Fits1(c, t)
         /\ Fits1(c, t) => Fits2(c, t)
         /\ Runs0(c, t) => Runs1(c, t)
         /\ Runs1(c, t) => Runs2(c, t)
<1>1. \A it, u : Fits0(it, u) => Fits1(it, u)
  BY DEF Fits0, Fits1
<1>2. \A k, u : Runs0(k, u) => Runs1(k, u)
  BY <1>1 DEF Runs0, Runs1, Fits0Anywhere, Fits1Anywhere
<1>3. \A it, u : Fits1(it, u) => Fits2(it, u)
  BY <1>2 DEF Fits1, Fits2, ArmRuns0, ArmRuns1
<1>4. \A k, u : Runs1(k, u) => Runs2(k, u)
  BY <1>3 DEF Runs1, Runs2, Fits1Anywhere, Fits2Anywhere
<1> QED
  BY <1>1, <1>2, <1>3, <1>4

\* Code of n items: the first must fit the token ahead, the others any.
LEMMA CodeOfOne ==
  ASSUME NEW x1, NEW c, NEW t, c = <<x1>>
  PROVE
    /\ Fits0(x1, t) => Runs0(c, t)
    /\ Fits1(x1, t) => Runs1(c, t)
    /\ Fits2(x1, t) => Runs2(c, t)
<1>1. c \in Seq({x1})
  OBVIOUS
<1>2. Len(c) = 1 /\ c[1] = x1
  OBVIOUS
<1>3. \A k \in 1 .. 1 : k = 1
  OBVIOUS
<1>4. IsCode(c)
  BY <1>1 DEF IsCode
<1>5. Fits0(x1, t) => Runs0(c, t)
  BY <1>2, <1>3, <1>4 DEF Runs0
<1>6. Fits1(x1, t) => Runs1(c, t)
  BY <1>2, <1>3, <1>4 DEF Runs1
<1>7. Fits2(x1, t) => Runs2(c, t)
  BY <1>2, <1>3, <1>4 DEF Runs2
<1> QED
  BY <1>5, <1>6, <1>7

LEMMA CodeOfTwo ==
  ASSUME NEW x1, NEW x2, NEW c, NEW t, c = <<x1, x2>>
  PROVE
    /\ Fits0(x1, t) /\ Fits0Anywhere(x2) => Runs0(c, t)
    /\ Fits1(x1, t) /\ Fits1Anywhere(x2) => Runs1(c, t)
    /\ Fits2(x1, t) /\ Fits2Anywhere(x2) => Runs2(c, t)
<1>1. c \in Seq({x1, x2})
  OBVIOUS
<1>2. Len(c) = 2 /\ c[1] = x1 /\ c[2] = x2
  OBVIOUS
<1>3. \A k \in 1 .. 2 : k = 1 \/ k = 2
  OBVIOUS
<1>4. IsCode(c)
  BY <1>1 DEF IsCode
<1>5. Fits0(x1, t) /\ Fits0Anywhere(x2) => Runs0(c, t)
  BY <1>2, <1>3, <1>4 DEF Runs0
<1>6. Fits1(x1, t) /\ Fits1Anywhere(x2) => Runs1(c, t)
  BY <1>2, <1>3, <1>4 DEF Runs1
<1>7. Fits2(x1, t) /\ Fits2Anywhere(x2) => Runs2(c, t)
  BY <1>2, <1>3, <1>4 DEF Runs2
<1> QED
  BY <1>5, <1>6, <1>7

LEMMA CodeOfThree ==
  ASSUME NEW x1, NEW x2, NEW x3, NEW c, NEW t, c = <<x1, x2, x3>>
  PROVE
    /\ Fits0(x1, t) /\ Fits0Anywhere(x2) /\ Fits0Anywhere(x3) => Runs0(c, t)
    /\ Fits1(x1, t) /\ Fits1Anywhere(x2) /\ Fits1Anywhere(x3) => Runs1(c, t)
    /\ Fits2(x1, t) /\ Fits2Anywhere(x2) /\ Fits2Anywhere(x3) => Runs2(c, t)
<1>1. c \in Seq({x1, x2, x3})
  OBVIOUS
<1>2. Len(c) = 3 /\ c[1] = x1 /\ c[2] = x2 /\ c[3] = x3
  OBVIOUS
<1>3. \A k \in 1 .. 3 : k = 1 \/ k = 2 \/ k = 3
  OBVIOUS
<1>4. IsCode(c)
  BY <1>1 DEF IsCode
<1>5. Fits0(x1, t) /\ Fits0Anywhere(x2) /\ Fits0Anywhere(x3) => Runs0(c, t)
  BY <1>2, <1>3, <1>4 DEF Runs0
<1>6. Fits1(x1, t) /\ Fits1Anywhere(x2) /\ Fits1Anywhere(x3) => Runs1(c, t)
  BY <1>2, <1>3, <1>4 DEF Runs1
<1>7. Fits2(x1, t) /\ Fits2Anywhere(x2) /\ Fits2Anywhere(x3) => Runs2(c, t)
  BY <1>2, <1>3, <1>4 DEF Runs2
<1> QED
  BY <1>5, <1>6, <1>7

LEMMA CodeOfFour ==
  ASSUME NEW x1, NEW x2, NEW x3, NEW x4, NEW c, NEW t, c = <<x1, x2, x3, x4>>
  PROVE
    /\ Fits0(x1, t) /\ Fits0Anywhere(x2) /\ Fits0Anywhere(x3) /\ Fits0Anywhere(x4)
       => Runs0(c, t)
    /\ Fits1(x1, t) /\ Fits1Anywhere(x2) /\ Fits1Anywhere(x3) /\ Fits1Anywhere(x4)
       => Runs1(c, t)
    /\ Fits2(x1, t) /\ Fits2Anywhere(x2) /\ Fits2Anywhere(x3) /\ Fits2Anywhere(x4)
       => Runs2(c, t)
<1>1. c \in Seq({x1, x2, x3, x4})
  OBVIOUS
<1>2. Len(c) = 4 /\ c[1] = x1 /\ c[2] = x2 /\ c[3] = x3 /\ c[4] = x4
  OBVIOUS
<1>3. \A k \in 1 .. 4 : k = 1 \/ k = 2 \/ k = 3 \/ k = 4
  OBVIOUS
<1>4. IsCode(c)
  BY <1>1 DEF IsCode
<1>5. Fits0(x1, t) /\ Fits0Anywhere(x2) /\ Fits0Anywhere(x3) /\ Fits0Anywhere(x4)
      => Runs0(c, t)
  BY <1>2, <1>3, <1>4 DEF Runs0
<1>6. Fits1(x1, t) /\ Fits1Anywhere(x2) /\ Fits1Anywhere(x3) /\ Fits1Anywhere(x4)
      => Runs1(c, t)
  BY <1>2, <1>3, <1>4 DEF Runs1
<1>7. Fits2(x1, t) /\ Fits2Anywhere(x2) /\ Fits2Anywhere(x3) /\ Fits2Anywhere(x4)
      => Runs2(c, t)
  BY <1>2, <1>3, <1>4 DEF Runs2
<1> QED
  BY <1>5, <1>6, <1>7

LEMMA CodeOfFive ==
  ASSUME NEW x1, NEW x2, NEW x3, NEW x4, NEW x5, NEW c, NEW t, c = <<x1, x2, x3, x4, x5>>
  PROVE
    /\ Fits0(x1, t) /\ Fits0Anywhere(x2) /\ Fits0Anywhere(x3) /\ Fits0Anywhere(x4)
       /\ Fits0Anywhere(x5) => Runs0(c, t)
    /\ Fits1(x1, t) /\ Fits1Anywhere(x2) /\ Fits1Anywhere(x3) /\ Fits1Anywhere(x4)
       /\ Fits1Anywhere(x5) => Runs1(c, t)
    /\ Fits2(x1, t) /\ Fits2Anywhere(x2) /\ Fits2Anywhere(x3) /\ Fits2Anywhere(x4)
       /\ Fits2Anywhere(x5) => Runs2(c, t)
<1>1. c \in Seq({x1, x2, x3, x4, x5})
  OBVIOUS
<1>2. Len(c) = 5 /\ c[1] = x1 /\ c[2] = x2 /\ c[3] = x3 /\ c[4] = x4 /\ c[5] = x5
  OBVIOUS
<1>3. \A k \in 1 .. 5 : k = 1 \/ k = 2 \/ k = 3 \/ k = 4 \/ k = 5
  OBVIOUS
<1>4. IsCode(c)
  BY <1>1 DEF IsCode
<1>5. Fits0(x1, t) /\ Fits0Anywhere(x2) /\ Fits0Anywhere(x3) /\ Fits0Anywhere(x4)
      /\ Fits0Anywhere(x5) => Runs0(c, t)
  BY <1>2, <1>3, <1>4 DEF Runs0
<1>6. Fits1(x1, t) /\ Fits1Anywhere(x2) /\ Fits1Anywhere(x3) /\ Fits1Anywhere(x4)
      /\ Fits1Anywhere(x5) => Runs1(c, t)
  BY <1>2, <1>3, <1>4 DEF Runs1
<1>7. Fits2(x1, t) /\ Fits2Anywhere(x2) /\ Fits2Anywhere(x3) /\ Fits2Anywhere(x4)
      /\ Fits2Anywhere(x5) => Runs2(c, t)
  BY <1>2, <1>3, <1>4 DEF Runs2
<1> QED
  BY <1>5, <1>6, <1>7

LEMMA CodeOfSix ==
  ASSUME NEW x1, NEW x2, NEW x3, NEW x4, NEW x5, NEW x6, NEW c, NEW t,
         c = <<x1, x2, x3, x4, x5, x6>>
  PROVE
    /\ Fits0(x1, t) /\ Fits0Anywhere(x2) /\ Fits0Anywhere(x3) /\ Fits0Anywhere(x4)
       /\ Fits0Anywhere(x5) /\ Fits0Anywhere(x6) => Runs0(c, t)
    /\ Fits1(x1, t) /\ Fits1Anywhere(x2) /\ Fits1Anywhere(x3) /\ Fits1Anywhere(x4)
       /\ Fits1Anywhere(x5) /\ Fits1Anywhere(x6) => Runs1(c, t)
    /\ Fits2(x1, t) /\ Fits2Anywhere(x2) /\ Fits2Anywhere(x3) /\ Fits2Anywhere(x4)
       /\ Fits2Anywhere(x5) /\ Fits2Anywhere(x6) => Runs2(c, t)
<1>1. c \in Seq({x1, x2, x3, x4, x5, x6})
  OBVIOUS
<1>2. Len(c) = 6 /\ c[1] = x1 /\ c[2] = x2 /\ c[3] = x3 /\ c[4] = x4 /\ c[5] = x5
      /\ c[6] = x6
  OBVIOUS
<1>3. \A k \in 1 .. 6 : k = 1 \/ k = 2 \/ k = 3 \/ k = 4 \/ k = 5 \/ k = 6
  OBVIOUS
<1>4. IsCode(c)
  BY <1>1 DEF IsCode
<1>5. Fits0(x1, t) /\ Fits0Anywhere(x2) /\ Fits0Anywhere(x3) /\ Fits0Anywhere(x4)
      /\ Fits0Anywhere(x5) /\ Fits0Anywhere(x6) => Runs0(c, t)
  BY <1>2, <1>3, <1>4 DEF Runs0
<1>6. Fits1(x1, t) /\ Fits1Anywhere(x2) /\ Fits1Anywhere(x3) /\ Fits1Anywhere(x4)
      /\ Fits1Anywhere(x5) /\ Fits1Anywhere(x6) => Runs1(c, t)
  BY <1>2, <1>3, <1>4 DEF Runs1
<1>7. Fits2(x1, t) /\ Fits2Anywhere(x2) /\ Fits2Anywhere(x3) /\ Fits2Anywhere(x4)
      /\ Fits2Anywhere(x5) /\ Fits2Anywhere(x6) => Runs2(c, t)
  BY <1>2, <1>3, <1>4 DEF Runs2
<1> QED
  BY <1>5, <1>6, <1>7

LEMMA CodeOfSeven ==
  ASSUME NEW x1, NEW x2, NEW x3, NEW x4, NEW x5, NEW x6, NEW x7, NEW c, NEW t,
         c = <<x1, x2, x3, x4, x5, x6, x7>>
  PROVE
    /\ Fits0(x1, t) /\ Fits0Anywhere(x2) /\ Fits0Anywhere(x3) /\ Fits0Anywhere(x4)
       /\ Fits0Anywhere(x5) /\ Fits0Anywhere(x6) /\ Fits0Anywhere(x7) => Runs0(c, t)
    /\ Fits1(x1, t) /\ Fits1Anywhere(x2) /\ Fits1Anywhere(x3) /\ Fits1Anywhere(x4)
       /\ Fits1Anywhere(x5) /\ Fits1Anywhere(x6) /\ Fits1Anywhere(x7) => Runs1(c, t)
    /\ Fits2(x1, t) /\ Fits2Anywhere(x2) /\ Fits2Anywhere(x3) /\ Fits2Anywhere(x4)
       /\ Fits2Anywhere(x5) /\ Fits2Anywhere(x6) /\ Fits2Anywhere(x7) => Runs2(c, t)
<1>1. c \in Seq({x1, x2, x3, x4, x5, x6, x7})
  OBVIOUS
<1>2. Len(c) = 7 /\ c[1] = x1 /\ c[2] = x2 /\ c[3] = x3 /\ c[4] = x4 /\ c[5] = x5
      /\ c[6] = x6 /\ c[7] = x7
  OBVIOUS
<1>3. \A k \in 1 .. 7 : k = 1 \/ k = 2 \/ k = 3 \/ k = 4 \/ k = 5 \/ k = 6 \/ k = 7
  OBVIOUS
<1>4. IsCode(c)
  BY <1>1 DEF IsCode
<1>5. Fits0(x1, t) /\ Fits0Anywhere(x2) /\ Fits0Anywhere(x3) /\ Fits0Anywhere(x4)
      /\ Fits0Anywhere(x5) /\ Fits0Anywhere(x6) /\ Fits0Anywhere(x7) => Runs0(c, t)
  BY <1>2, <1>3, <1>4 DEF Runs0
<1>6. Fits1(x1, t) /\ Fits1Anywhere(x2) /\ Fits1Anywhere(x3) /\ Fits1Anywhere(x4)
      /\ Fits1Anywhere(x5) /\ Fits1Anywhere(x6) /\ Fits1Anywhere(x7) => Runs1(c, t)
  BY <1>2, <1>3, <1>4 DEF Runs1
<1>7. Fits2(x1, t) /\ Fits2Anywhere(x2) /\ Fits2Anywhere(x3) /\ Fits2Anywhere(x4)
      /\ Fits2Anywhere(x5) /\ Fits2Anywhere(x6) /\ Fits2Anywhere(x7) => Runs2(c, t)
  BY <1>2, <1>3, <1>4 DEF Runs2
<1> QED
  BY <1>5, <1>6, <1>7

LEMMA CodeOfEight ==
  ASSUME NEW x1, NEW x2, NEW x3, NEW x4, NEW x5, NEW x6, NEW x7, NEW x8, NEW c, NEW t,
         c = <<x1, x2, x3, x4, x5, x6, x7, x8>>
  PROVE
    /\ Fits0(x1, t) /\ Fits0Anywhere(x2) /\ Fits0Anywhere(x3) /\ Fits0Anywhere(x4)
       /\ Fits0Anywhere(x5) /\ Fits0Anywhere(x6) /\ Fits0Anywhere(x7) /\ Fits0Anywhere(x8)
       => Runs0(c, t)
    /\ Fits1(x1, t) /\ Fits1Anywhere(x2) /\ Fits1Anywhere(x3) /\ Fits1Anywhere(x4)
       /\ Fits1Anywhere(x5) /\ Fits1Anywhere(x6) /\ Fits1Anywhere(x7) /\ Fits1Anywhere(x8)
       => Runs1(c, t)
    /\ Fits2(x1, t) /\ Fits2Anywhere(x2) /\ Fits2Anywhere(x3) /\ Fits2Anywhere(x4)
       /\ Fits2Anywhere(x5) /\ Fits2Anywhere(x6) /\ Fits2Anywhere(x7) /\ Fits2Anywhere(x8)
       => Runs2(c, t)
<1>1. c \in Seq({x1, x2, x3, x4, x5, x6, x7, x8})
  OBVIOUS
<1>2. Len(c) = 8 /\ c[1] = x1 /\ c[2] = x2 /\ c[3] = x3 /\ c[4] = x4 /\ c[5] = x5
      /\ c[6] = x6 /\ c[7] = x7 /\ c[8] = x8
  OBVIOUS
<1>3. \A k \in 1 .. 8 : k = 1 \/ k = 2 \/ k = 3 \/ k = 4 \/ k = 5 \/ k = 6 \/ k = 7 \/ k = 8
  OBVIOUS
<1>4. IsCode(c)
  BY <1>1 DEF IsCode
<1>5. Fits0(x1, t) /\ Fits0Anywhere(x2) /\ Fits0Anywhere(x3) /\ Fits0Anywhere(x4)
      /\ Fits0Anywhere(x5) /\ Fits0Anywhere(x6) /\ Fits0Anywhere(x7) /\ Fits0Anywhere(x8)
      => Runs0(c, t)
  BY <1>2, <1>3, <1>4 DEF Runs0
<1>6. Fits1(x1, t) /\ Fits1Anywhere(x2) /\ Fits1Anywhere(x3) /\ Fits1Anywhere(x4)
      /\ Fits1Anywhere(x5) /\ Fits1Anywhere(x6) /\ Fits1Anywhere(x7) /\ Fits1Anywhere(x8)
      => Runs1(c, t)
  BY <1>2, <1>3, <1>4 DEF Runs1
<1>7. Fits2(x1, t) /\ Fits2Anywhere(x2) /\ Fits2Anywhere(x3) /\ Fits2Anywhere(x4)
      /\ Fits2Anywhere(x5) /\ Fits2Anywhere(x6) /\ Fits2Anywhere(x7) /\ Fits2Anywhere(x8)
      => Runs2(c, t)
  BY <1>2, <1>3, <1>4 DEF Runs2
<1> QED
  BY <1>5, <1>6, <1>7

-----------------------------------------------------------------------------
(* Items. *)

\* The calls that may be made with any token ahead.
LEMMA OpenCalls ==
  /\ OpensAnywhere("error") /\ OpensAnywhere("attr")
  /\ OpensAnywhere("attr_list") /\ OpensAnywhere("strings")
  /\ OpensAnywhere("string_literal") /\ OpensAnywhere("more_exprs")
  /\ OpensAnywhere("compound_expr") /\ OpensAnywhere("ident_expr")
  /\ OpensAnywhere("construct_expr") /\ OpensAnywhere("primary_expr")
  /\ OpensAnywhere("suffix_expr") /\ OpensAnywhere("prefix_expr")
  /\ OpensAnywhere("binary_expr") /\ OpensAnywhere("operand")
  /\ OpensAnywhere("ternary_expr") /\ OpensAnywhere("assign_expr")
  /\ OpensAnywhere("expr") /\ OpensAnywhere("prim_type")
  /\ OpensAnywhere("named_type") /\ OpensAnywhere("type")
  /\ OpensAnywhere("array_dim") /\ OpensAnywhere("metadatum")
  /\ OpensAnywhere("metadata") /\ OpensAnywhere("ignored_metadata")
  /\ OpensAnywhere("func_param") /\ OpensAnywhere("shader_param")
  /\ OpensAnywhere("var_with_init") /\ OpensAnywhere("var_without_init")
  /\ OpensAnywhere("var_decl") /\ OpensAnywhere("field_decl")
  /\ OpensAnywhere("block_or_error") /\ OpensAnywhere("func_decl")
  /\ OpensAnywhere("for_init") /\ OpensAnywhere("var_or_func_decl")
  /\ OpensAnywhere("stmt") /\ OpensAnywhere("top_level_decl")
  /\ OpensAnywhere("top_level_decl_with_attrs") /\ OpensAnywhere("parse")
  BY SMTT(20) DEF OpensAnywhere, P!Body, Opening

LEMMA ClosedCalls ==
  \A fn \in DOMAIN Opening : Opens(fn, Opening[fn])
  BY DEF Opens, P!Body, Opening

LEMMA PlainItems ==
  ASSUME NEW tag
  PROVE  /\ Fits0Anywhere(P!Expect(tag)) /\ Fits0Anywhere(P!Node(tag))
         /\ Fits0Anywhere(P!NodeFrom(tag)) /\ Fits0Anywhere(P!Read)
         /\ Fits0Anywhere(P!LogError) /\ Fits0Anywhere(P!Forget)
         /\ Fits0Anywhere(P!Operators) /\ Fits0(P!Eat(tag), tag)
  BY DEF Fits0Anywhere, Fits0, Safe, P!Expect, P!Node, P!NodeFrom, P!Read, P!LogError, P!Forget,
         P!Operators, P!Eat

LEMMA CallItems ==
  ASSUME NEW fn, NEW prec, OpensAnywhere(fn)
  PROVE  /\ Fits0Anywhere(P!Call(fn))
         /\ Fits0Anywhere(P!CallAt(fn, prec)) /\ Fits0Anywhere(P!Pass(fn, prec))
  BY DEF OpensAnywhere, Opens, Fits0Anywhere, Fits0, Safe, P!Call, P!CallAt, P!Pass

LEMMA ManyItems ==
  ASSUME NEW fn, NEW stop, NEW sep, OpensAnywhere(fn)
  PROVE  Fits0Anywhere(P!Many(stop, sep, fn)) /\ Fits0Anywhere(P!AfterElem(stop, sep, fn))
  BY DEF Fits0Anywhere, Fits0, Safe, P!Many, P!AfterElem

LEMMA OpenCallItems ==
  /\ Fits0Anywhere(P!Call("error")) /\ Fits0Anywhere(P!Call("attr_list"))
  /\ Fits0Anywhere(P!Call("strings")) /\ Fits0Anywhere(P!Call("string_literal"))
  /\ Fits0Anywhere(P!Call("more_exprs")) /\ Fits0Anywhere(P!Call("compound_expr"))
  /\ Fits0Anywhere(P!Call("ident_expr")) /\ Fits0Anywhere(P!Call("construct_expr"))
  /\ Fits0Anywhere(P!Call("primary_expr")) /\ Fits0Anywhere(P!Call("suffix_expr"))
  /\ Fits0Anywhere(P!Call("prefix_expr")) /\ Fits0Anywhere(P!Call("binary_expr"))
  /\ Fits0Anywhere(P!Call("ternary_expr")) /\ Fits0Anywhere(P!Call("assign_expr"))
  /\ Fits0Anywhere(P!Call("expr")) /\ Fits0Anywhere(P!Call("prim_type"))
  /\ Fits0Anywhere(P!Call("named_type")) /\ Fits0Anywhere(P!Call("type"))
  /\ Fits0Anywhere(P!Call("array_dim")) /\ Fits0Anywhere(P!Call("metadata"))
  /\ Fits0Anywhere(P!Call("ignored_metadata")) /\ Fits0Anywhere(P!Call("var_decl"))
  /\ Fits0Anywhere(P!Call("block_or_error")) /\ Fits0Anywhere(P!Call("func_decl"))
  /\ Fits0Anywhere(P!Call("for_init")) /\ Fits0Anywhere(P!Call("var_or_func_decl"))
  /\ Fits0Anywhere(P!Call("stmt")) /\ Fits0Anywhere(P!Call("top_level_decl"))
  /\ Fits0Anywhere(P!Pass("suffix_expr", 0)) /\ Fits0Anywhere(P!Pass("var_decl", 0))
  /\ Fits0Anywhere(P!Pass("func_decl", 0))
  /\ Fits0Anywhere(P!CallAt("operand", P!MaxPrecedence))
  BY OpenCalls, CallItems

LEMMA LoopItems ==
  /\ Fits0Anywhere(P!Many(")", "comma", "expr"))
  /\ Fits0Anywhere(P!Many(")", "comma", "attr"))
  /\ Fits0Anywhere(P!Many("rbrace", "comma", "expr"))
  /\ Fits0Anywhere(P!Many("]]", "comma", "metadatum"))
  /\ Fits0Anywhere(P!Many("semicolon", "comma", "var_with_init"))
  /\ Fits0Anywhere(P!Many("semicolon", "comma", "var_without_init"))
  /\ Fits0Anywhere(P!Many("rbrace", "none", "stmt"))
  /\ Fits0Anywhere(P!Many(")", "comma", "func_param"))
  /\ Fits0Anywhere(P!Many(")", "comma", "shader_param"))
  /\ Fits0Anywhere(P!Many("rbrace", "none", "field_decl"))
  /\ Fits0Anywhere(P!Many("eof", "none", "top_level_decl_with_attrs"))
  BY OpenCalls, ManyItems

LEMMA ClosedCallItems ==
  ASSUME NEW fn, NEW t, Opens(fn, t)
  PROVE  Fits0(P!Call(fn), t)
  BY DEF Fits0, Safe, P!Call, P!CallAt

LEMMA LiftsAnywhere ==
  ASSUME NEW it
  PROVE  /\ Fits0Anywhere(it) => Fits1Anywhere(it) /\ \A t : Fits0(it, t)
         /\ Fits1Anywhere(it) => Fits2Anywhere(it) /\ \A t : Fits1(it, t)
         /\ Fits2Anywhere(it) => \A t : Fits2(it, t)
  BY Lifts DEF Fits0Anywhere, Fits1Anywhere, Fits2Anywhere

\* A branch is safe if its arms are, each with the tags it is for.
LEMMA SwitchItems ==
  ASSUME NEW at, NEW arms, NEW otherwise, NEW t
  PROVE  /\ (\A k \in DOMAIN arms : ArmRuns0(arms[k], at, t)) /\ Runs0(otherwise, t)
            => Fits1(P!Switch(at, arms, otherwise), t)
         /\ (\A k \in DOMAIN arms : ArmRuns1(arms[k], at, t)) /\ Runs1(otherwise, t)
            => Fits2(P!Switch(at, arms, otherwise), t)
  BY DEF Fits1, Fits2, Safe, P!Switch

LEMMA ArmItems ==
  ASSUME NEW tags, NEW code, NEW at, NEW t
  PROVE  /\ ((at = 0 => t \in tags) => Runs0(code, t)) => ArmRuns0(<<tags, code>>, at, t)
         /\ ((at = 0 => t \in tags) => Runs1(code, t)) => ArmRuns1(<<tags, code>>, at, t)
  BY DEF ArmRuns0, ArmRuns1

\* What follows other code must be safe with any token ahead.
LEMMA Joined ==
  ASSUME NEW c, NEW d, NEW e, e = c \o d, NEW t
  PROVE  /\ Runs0(c, t) /\ (\A u : Runs0(d, u)) => Runs0(e, t)
         /\ Runs1(c, t) /\ (\A u : Runs1(d, u)) => Runs1(e, t)
         /\ Runs2(c, t) /\ (\A u : Runs2(d, u)) => Runs2(e, t)
<1>1. ASSUME IsCode(c), IsCode(d)
      PROVE  /\ IsCode(e)
             /\ \A k \in 1 .. Len(e) :
                  \/ k \in 1 .. Len(c) /\ e[k] = c[k]
                  \/ k \notin 1 .. Len(c) /\ \E j \in 1 .. Len(d) : e[k] = d[j] /\ (k = 1 => j = 1)
  <2>1. PICK S, T : c \in Seq(S) /\ d \in Seq(T)
    BY <1>1 DEF IsCode
  <2>2. PICK X : X = S \cup T
    OBVIOUS
  <2>3. c \in Seq(X) /\ d \in Seq(X)
    BY <2>1, <2>2
  <2>4. PICK a, b : a = Len(c) /\ b = Len(d)
    OBVIOUS
  <2>5. a \in Nat /\ b \in Nat
    BY <2>3, <2>4, LenProperties
  <2>6. /\ e \in Seq(X)
        /\ \A p \in 1 .. Len(e) : \/ p \in 1 .. Len(c) /\ e[p] = c[p]
                                  \/ \E w \in 1 .. Len(d) : p = Len(c) + w /\ e[p] = d[w]
    BY <2>3, ConcatElements
  <2>7. \A p, w : w \in 1 .. b /\ p = a + w => p \notin 1 .. a /\ (p = 1 => w = 1)
    BY <2>5
  <2>8. \A p \in 1 .. Len(e) :
           \/ p \in 1 .. Len(c) /\ e[p] = c[p]
           \/ p \notin 1 .. Len(c) /\ \E j \in 1 .. Len(d) : e[p] = d[j] /\ (p = 1 => j = 1)
    BY <2>4, <2>6, <2>7
  <2> QED
    BY <2>6, <2>8 DEF IsCode
<1>2. \A k : k = 1 \/ k # 1
  OBVIOUS
<1>3. ASSUME Runs0(c, t), \A u : Runs0(d, u) PROVE Runs0(e, t)
  <2>1. IsCode(c) /\ IsCode(d)
    BY <1>3 DEF Runs0
  <2>2. \A j \in 1 .. Len(d) : Fits0Anywhere(d[j]) \/ (j = 1 /\ \A u : Fits0(d[j], u))
    BY <1>3 DEF Runs0
  <2>3. \A j \in 1 .. Len(d) : Fits0Anywhere(d[j])
    BY <2>2 DEF Fits0Anywhere
  <2> QED
    BY <1>1, <1>3, <2>1, <2>3, LiftsAnywhere DEF Runs0
<1>4. ASSUME Runs1(c, t), \A u : Runs1(d, u) PROVE Runs1(e, t)
  <2>1. IsCode(c) /\ IsCode(d)
    BY <1>4 DEF Runs1
  <2>2. \A j \in 1 .. Len(d) : Fits1Anywhere(d[j]) \/ (j = 1 /\ \A u : Fits1(d[j], u))
    BY <1>4 DEF Runs1
  <2>3. \A j \in 1 .. Len(d) : Fits1Anywhere(d[j])
    BY <2>2 DEF Fits1Anywhere
  <2> QED
    BY <1>1, <1>4, <2>1, <2>3, LiftsAnywhere DEF Runs1
<1>5. ASSUME Runs2(c, t), \A u : Runs2(d, u) PROVE Runs2(e, t)
  <2>1. IsCode(c) /\ IsCode(d)
    BY <1>5 DEF Runs2
  <2>2. \A j \in 1 .. Len(d) : Fits2Anywhere(d[j]) \/ (j = 1 /\ \A u : Fits2(d[j], u))
    BY <1>5 DEF Runs2
  <2>3. \A j \in 1 .. Len(d) : Fits2Anywhere(d[j])
    BY <2>2 DEF Fits2Anywhere
  <2> QED
    BY <1>1, <1>5, <2>1, <2>3, LiftsAnywhere DEF Runs2
<1> QED
  BY <1>3, <1>4, <1>5

\* Branches of that many arms.
LEMMA OneArm ==
  ASSUME NEW a1, NEW arms, arms = <<a1>>
  PROVE  \A k \in DOMAIN arms : arms[k] \in {a1}
<1>1. DOMAIN arms = 1 .. 1
  OBVIOUS
<1>2. arms[1] = a1
  OBVIOUS
<1>3. \A k \in 1 .. 1 : k = 1
  OBVIOUS
<1> QED
  BY <1>1, <1>2, <1>3

LEMMA ThreeArms ==
  ASSUME NEW a1, NEW a2, NEW a3, NEW arms, arms = <<a1, a2, a3>>
  PROVE  \A k \in DOMAIN arms : arms[k] \in {a1, a2, a3}
<1>1. DOMAIN arms = 1 .. 3
  OBVIOUS
<1>2. arms[1] = a1 /\ arms[2] = a2 /\ arms[3] = a3
  OBVIOUS
<1>3. \A k \in 1 .. 3 : k = 1 \/ k = 2 \/ k = 3
  OBVIOUS
<1> QED
  BY <1>1, <1>2, <1>3

LEMMA FourArms ==
  ASSUME NEW a1, NEW a2, NEW a3, NEW a4, NEW arms, arms = <<a1, a2, a3, a4>>
  PROVE  \A k \in DOMAIN arms : arms[k] \in {a1, a2, a3, a4}
<1>1. DOMAIN arms = 1 .. 4
  OBVIOUS
<1>2. arms[1] = a1 /\ arms[2] = a2 /\ arms[3] = a3 /\ arms[4] = a4
  OBVIOUS
<1>3. \A k \in 1 .. 4 : k = 1 \/ k = 2 \/ k = 3 \/ k = 4
  OBVIOUS
<1> QED
  BY <1>1, <1>2, <1>3

LEMMA SevenArms ==
  ASSUME NEW a1, NEW a2, NEW a3, NEW a4, NEW a5, NEW a6, NEW a7,
         NEW arms, arms = <<a1, a2, a3, a4, a5, a6, a7>>
  PROVE  \A k \in DOMAIN arms : arms[k] \in {a1, a2, a3, a4, a5, a6, a7}
<1>1. DOMAIN arms = 1 .. 7
  OBVIOUS
<1>2. arms[1] = a1 /\ arms[2] = a2 /\ arms[3] = a3 /\ arms[4] = a4 /\ arms[5] = a5
      /\ arms[6] = a6 /\ arms[7] = a7
  OBVIOUS
<1>3. \A k \in 1 .. 7 : k = 1 \/ k = 2 \/ k = 3 \/ k = 4 \/ k = 5 \/ k = 6 \/ k = 7
  OBVIOUS
<1> QED
  BY <1>1, <1>2, <1>3

LEMMA TwelveArms ==
  ASSUME NEW a1, NEW a2, NEW a3, NEW a4, NEW a5, NEW a6, NEW a7, NEW a8,
         NEW a9, NEW a10, NEW a11, NEW a12, NEW arms,
         arms = <<a1, a2, a3, a4, a5, a6, a7, a8, a9, a10, a11, a12>>
  PROVE  \A k \in DOMAIN arms : arms[k] \in {a1, a2, a3, a4, a5, a6, a7, a8, a9, a10, a11, a12}
<1>1. DOMAIN arms = 1 .. 12
  OBVIOUS
<1>2. arms[1] = a1 /\ arms[2] = a2 /\ arms[3] = a3 /\ arms[4] = a4 /\ arms[5] = a5
      /\ arms[6] = a6 /\ arms[7] = a7 /\ arms[8] = a8 /\ arms[9] = a9 /\ arms[10] = a10 /\ arms[11] = a11 /\ arms[12] = a12
  OBVIOUS
<1>3. \A k \in 1 .. 12 :
        k = 1 \/ k = 2 \/ k = 3 \/ k = 4 \/ k = 5 \/ k = 6 \/ k = 7 \/ k = 8 \/ k = 9 \/ k = 10 \/ k = 11 \/ k = 12
  OBVIOUS
<1> QED
  BY <1>1, <1>2, <1>3

\* The shorthands of Parser for a branch.
LEMMA IfItems ==
  ASSUME NEW tags, NEW then, NEW t
  PROVE  /\ (t \in tags => Runs0(then, t)) => Fits1(P!If(tags, then), t)
         /\ (t \in tags => Runs1(then, t)) => Fits2(P!If(tags, then), t)
<1>1. PICK arms : arms = << <<tags, then>> >>
  OBVIOUS
<1>2. P!If(tags, then) = P!Switch(0, arms, << >>)
  BY <1>1 DEF P!If
<1> QED
  BY <1>1, <1>2, OneArm, ArmItems, SwitchItems, EmptyCode

LEMMA AcceptItems ==
  ASSUME NEW tag, NEW then
  PROVE  /\ (\A u : Runs0(then, u)) => Fits1Anywhere(P!Accept(tag, then))
         /\ (\A u : Runs1(then, u)) => Fits2Anywhere(P!Accept(tag, then))
<1>1. PICK c, d : c = <<P!Eat(tag)>> /\ d = c \o then
  OBVIOUS
<1>2. Runs0(c, tag) /\ Runs1(c, tag)
  BY <1>1, CodeOfOne, PlainItems, Lifts
<1>3. P!Accept(tag, then) = P!If({tag}, d)
  BY <1>1 DEF P!Accept
<1>4. /\ (\A u : Runs0(then, u)) => Runs0(d, tag)
      /\ (\A u : Runs1(then, u)) => Runs1(d, tag)
  BY <1>1, <1>2, Joined
<1>5. ASSUME NEW t
      PROVE  /\ Runs0(d, tag) => Fits1(P!Accept(tag, then), t)
             /\ Runs1(d, tag) => Fits2(P!Accept(tag, then), t)
  <2>1. t \in {tag} => t = tag
    OBVIOUS
  <2> QED
    BY <1>3, <2>1, IfItems
<1> QED
  BY <1>4, <1>5 DEF Fits1Anywhere, Fits2Anywhere

LEMMA UnlessItems ==
  ASSUME NEW tag, NEW then, \A u : Runs0(then, u)
  PROVE  Fits1Anywhere(P!Unless(tag, then))
<1>1. PICK c, arms : c = <<P!Eat(tag)>> /\ arms = << <<{tag}, c>> >>
  OBVIOUS
<1>2. Runs0(c, tag)
  BY <1>1, CodeOfOne, PlainItems
<1>3. P!Unless(tag, then) = P!Switch(0, arms, then)
  BY <1>1 DEF P!Unless
<1>4. \A t : Fits1(P!Unless(tag, then), t)
  BY <1>1, <1>2, <1>3, OneArm, ArmItems, SwitchItems
<1> QED
  BY <1>4 DEF Fits1Anywhere

-----------------------------------------------------------------------------
(* The parse functions. *)

\* The functions without a branch.
LEMMA StraightBodies ==
  ASSUME NEW t
  PROVE  /\ Runs0(P!ParseError, t) /\ Runs0(P!StringLiteral, t) /\ Runs0(P!IdentExpr, t)
         /\ Runs0(P!ConstructExpr, t) /\ Runs0(P!BinaryExpr, t) /\ Runs0(P!Operand, t)
         /\ Runs0(P!Expr, t) /\ Runs0(P!NamedType, t) /\ Runs0(P!Metadatum, t)
         /\ Runs0(P!IgnoredMetadata, t) /\ Runs0(P!VarDecl, t) /\ Runs0(P!VarWithoutInit, t)
         /\ Runs0(P!FieldDecl, t) /\ Runs0(P!TopLevelDeclWithAttrs, t) /\ Runs0(P!Parse, t)
<1>1. Runs0(P!ParseError, t) /\ Runs0(P!TopLevelDeclWithAttrs, t)
  BY CodeOfThree, PlainItems, OpenCallItems, LiftsAnywhere DEF P!ParseError, P!TopLevelDeclWithAttrs
<1>2. Runs0(P!StringLiteral, t) /\ Runs0(P!IdentExpr, t) /\ Runs0(P!Operand, t)
  BY CodeOfTwo, PlainItems, OpenCallItems, LiftsAnywhere
     DEF P!StringLiteral, P!IdentExpr, P!Operand, P!Ident
<1>3. Runs0(P!ConstructExpr, t)
  BY CodeOfFour, PlainItems, OpenCallItems, LoopItems, LiftsAnywhere DEF P!ConstructExpr
<1>4. Runs0(P!BinaryExpr, t) /\ Runs0(P!Expr, t) /\ Runs0(P!Parse, t)
  BY CodeOfOne, PlainItems, OpenCallItems, LoopItems, LiftsAnywhere
     DEF P!BinaryExpr, P!Expr, P!Parse
<1>5. Runs0(P!NamedType, t) /\ Runs0(P!IgnoredMetadata, t) /\ Runs0(P!VarDecl, t)
  BY CodeOfTwo, PlainItems, OpenCallItems, LoopItems, LiftsAnywhere
     DEF P!NamedType, P!IgnoredMetadata, P!VarDecl, P!Ident
<1>6. Runs0(P!Metadatum, t)
  BY CodeOfFive, PlainItems, OpenCallItems, LiftsAnywhere DEF P!Metadatum, P!Ident
<1>7. Runs0(P!VarWithoutInit, t) /\ Runs0(P!FieldDecl, t)
  BY CodeOfThree, PlainItems, OpenCallItems, LoopItems, LiftsAnywhere
     DEF P!VarWithoutInit, P!FieldDecl, P!Ident
<1> QED
  BY <1>1, <1>2, <1>3, <1>4, <1>5, <1>6, <1>7

\* Those that begin with eat_token.
LEMMA EatingBodies ==
  /\ Runs0(P!CompoundInit, "lbrace") /\ Runs0(P!CastExpr, "(") /\ Runs0(P!ParenExpr, "(")
  /\ Runs0(P!ShaderType, "shader") /\ Runs0(P!ClosureType, "closure")
  /\ \A tag : Runs0(P!JumpStmt(tag), tag)
  /\ Runs0(P!WhileLoop, "while") /\ Runs0(P!DoWhileLoop, "do") /\ Runs0(P!Block, "lbrace")
  /\ Runs0(P!EmptyStmt, "semicolon") /\ Runs0(P!StructDecl, "struct")
  /\ Runs0(P!ShaderDecl, "shader")
<1>1. Runs0(P!CompoundInit, "lbrace") /\ Runs0(P!Block, "lbrace")
  BY CodeOfThree, PlainItems, LoopItems DEF P!CompoundInit, P!Block
<1>2. Runs0(P!CastExpr, "(")
  BY CodeOfFive, PlainItems, OpenCallItems DEF P!CastExpr
<1>3. Runs0(P!ParenExpr, "(")
  BY CodeOfFour, PlainItems, OpenCallItems DEF P!ParenExpr
<1>4. Runs0(P!ShaderType, "shader") /\ Runs0(P!EmptyStmt, "semicolon")
  BY CodeOfTwo, PlainItems DEF P!ShaderType, P!EmptyStmt
<1>5. Runs0(P!ClosureType, "closure")
  BY CodeOfThree, PlainItems, OpenCallItems DEF P!ClosureType
<1>6. ASSUME NEW tag PROVE Runs0(P!JumpStmt(tag), tag)
  BY CodeOfThree, PlainItems DEF P!JumpStmt
<1>7. \A t : Runs0(P!Condition, t)
  BY CodeOfThree, PlainItems, OpenCallItems, LiftsAnywhere DEF P!Condition
<1>8. Runs0(P!WhileLoop, "while")
  <2>1. PICK a, b, ab : /\ a = <<P!Eat("while")>> /\ b = <<P!Call("stmt"), P!Node("while")>>
                       /\ ab = a \o P!Condition
    OBVIOUS
  <2>2. Runs0(a, "while") /\ \A u : Runs0(b, u)
    BY <2>1, CodeOfOne, CodeOfTwo, PlainItems, OpenCallItems, LiftsAnywhere
  <2>3. Runs0(ab, "while")
    BY <1>7, <2>1, <2>2, Joined
  <2>4. P!WhileLoop = ab \o b
    BY <2>1 DEF P!WhileLoop
  <2> QED
    BY <2>2, <2>3, <2>4, Joined
<1>9. Runs0(P!DoWhileLoop, "do")
  <2>1. PICK a, b, ab : /\ a = <<P!Eat("do"), P!Call("stmt"), P!Expect("while")>>
                        /\ b = <<P!Expect("semicolon"), P!Node("do_while")>>
                        /\ ab = a \o P!Condition
    OBVIOUS
  <2>2. Runs0(a, "do") /\ \A u : Runs0(b, u)
    BY <2>1, CodeOfThree, CodeOfTwo, PlainItems, OpenCallItems, LiftsAnywhere
  <2>3. Runs0(ab, "do")
    BY <1>7, <2>1, <2>2, Joined
  <2>4. P!DoWhileLoop = ab \o b
    BY <2>1 DEF P!DoWhileLoop
  <2> QED
    BY <2>2, <2>3, <2>4, Joined
<1>10. Runs0(P!StructDecl, "struct")
  BY CodeOfSix, PlainItems, LoopItems DEF P!StructDecl, P!Ident
<1>11. Runs0(P!ShaderDecl, "shader")
  <2>1. Fits0(P!Call("shader_type"), "shader")
    BY ClosedCalls, ClosedCallItems DEF Opening
  <2> QED
    BY <2>1, CodeOfSeven, PlainItems, OpenCallItems, LoopItems DEF P!ShaderDecl, P!Ident
<1> QED
  BY <1>1, <1>2, <1>3, <1>4, <1>5, <1>6, <1>8, <1>9, <1>10, <1>11

\* Those with optional parts.
LEMMA OptionalBodies ==
  ASSUME NEW t
  PROVE  /\ Runs1(P!Attr, t) /\ Runs1(P!AttrList, t) /\ Runs1(P!Strings, t)
         /\ Runs1(P!MoreExprs, t) /\ Runs1(P!CompoundExpr, t) /\ Runs1(P!TernaryExpr, t)
         /\ Runs1(P!AssignExpr, t) /\ Runs1(P!Metadata, t) /\ Runs1(P!ShaderParam, t)
         /\ Runs1(P!VarWithInit, t) /\ Runs1(P!FuncDecl, t)
<1>1. Runs1(P!Attr, t)
  <2>1. PICK c : c = <<P!Many(")", "comma", "expr")>>
    OBVIOUS
  <2>2. Fits1Anywhere(P!Accept("(", c))
    BY <2>1, CodeOfOne, LoopItems, LiftsAnywhere, AcceptItems
  <2> QED
    BY <2>1, <2>2, CodeOfThree, PlainItems, LiftsAnywhere DEF P!Attr, P!Ident
<1>2. Runs1(P!AttrList, t)
  <2>1. PICK c : c = <<P!Expect("("), P!Expect("("), P!Many(")", "comma", "attr"), P!Expect(")")>>
    OBVIOUS
  <2>2. \A u : Runs0(c, u)
    BY <2>1, CodeOfFour, PlainItems, LoopItems, LiftsAnywhere
  <2> QED
    BY <2>1, <2>2, AcceptItems, CodeOfOne, LiftsAnywhere DEF P!AttrList
<1>3. Runs1(P!Strings, t)
  <2>1. PICK c : c = <<P!Call("strings")>>
    OBVIOUS
  <2>2. \A u : Runs0(c, u)
    BY <2>1, CodeOfOne, OpenCallItems, LiftsAnywhere
  <2> QED
    BY <2>1, <2>2, AcceptItems, CodeOfOne, LiftsAnywhere DEF P!Strings
<1>4. Runs1(P!MoreExprs, t)
  <2>1. PICK c : c = <<P!Call("expr"), P!Call("more_exprs")>>
    OBVIOUS
  <2>2. \A u : Runs0(c, u)
    BY <2>1, CodeOfTwo, OpenCallItems, LiftsAnywhere
  <2> QED
    BY <2>1, <2>2, AcceptItems, CodeOfOne, LiftsAnywhere DEF P!MoreExprs
<1>5. Runs1(P!CompoundExpr, t)
  <2>1. PICK c : c = <<P!Call("more_exprs"), P!NodeFrom("compound")>>
    OBVIOUS
  <2>2. \A u : Runs0(c, u)
    BY <2>1, CodeOfTwo, OpenCallItems, PlainItems, LiftsAnywhere
  <2>3. \A u : Fits1(P!If({"comma"}, c), u)
    BY <2>2, IfItems
  <2>4. Fits1Anywhere(P!If({"comma"}, c))
    BY <2>3 DEF Fits1Anywhere
  <2> QED
    BY <2>1, <2>4, CodeOfTwo, OpenCallItems, LiftsAnywhere DEF P!CompoundExpr
<1>6. Runs1(P!TernaryExpr, t)
  <2>1. PICK c : c = <<P!Call("expr"), P!Expect(":"), P!Call("expr"), P!NodeFrom("ternary")>>
    OBVIOUS
  <2>2. \A u : Runs0(c, u)
    BY <2>1, CodeOfFour, OpenCallItems, PlainItems, LiftsAnywhere
  <2> QED
    BY <2>1, <2>2, AcceptItems, CodeOfTwo, OpenCallItems, LiftsAnywhere DEF P!TernaryExpr
<1>7. Runs1(P!AssignExpr, t)
  <2>1. PICK c : c = <<P!Read, P!Call("assign_expr"), P!NodeFrom("assign")>>
    OBVIOUS
  <2>2. \A u : Runs0(c, u)
    BY <2>1, CodeOfThree, OpenCallItems, PlainItems, LiftsAnywhere
  <2>3. \A u : Fits1(P!If(P!AssignOps, c), u)
    BY <2>2, IfItems
  <2>4. Fits1Anywhere(P!If(P!AssignOps, c))
    BY <2>3 DEF Fits1Anywhere
  <2> QED
    BY <2>1, <2>4, CodeOfTwo, OpenCallItems, LiftsAnywhere DEF P!AssignExpr
<1>8. Runs1(P!Metadata, t)
  <2>1. PICK c : c = <<P!Many("]]", "comma", "metadatum")>>
    OBVIOUS
  <2>2. \A u : Runs0(c, u)
    BY <2>1, CodeOfOne, LoopItems, LiftsAnywhere
  <2> QED
    BY <2>1, <2>2, AcceptItems, CodeOfOne, LiftsAnywhere DEF P!Metadata
<1>9. Runs1(P!ShaderParam, t)
  <2>1. Fits1Anywhere(P!Accept("output", << >>))
    BY EmptyCode, AcceptItems
  <2> QED
    BY <2>1, CodeOfEight, OpenCallItems, PlainItems, LiftsAnywhere DEF P!ShaderParam, P!Ident
<1>10. Runs1(P!VarWithInit, t)
  <2>1. PICK c : c = <<P!Call("expr")>>
    OBVIOUS
  <2>2. \A u : Runs0(c, u)
    BY <2>1, CodeOfOne, OpenCallItems, LiftsAnywhere
  <2> QED
    BY <2>1, <2>2, AcceptItems, CodeOfFour, OpenCallItems, PlainItems, LiftsAnywhere
       DEF P!VarWithInit, P!Ident
<1>11. Runs1(P!FuncDecl, t)
  <2>1. PICK c : c = <<P!Call("block_or_error")>>
    OBVIOUS
  <2>2. \A u : Runs0(c, u)
    BY <2>1, CodeOfOne, OpenCallItems, LiftsAnywhere
  <2> QED
    BY <2>1, <2>2, UnlessItems, CodeOfSix, OpenCallItems, LoopItems, PlainItems, LiftsAnywhere
       DEF P!FuncDecl, P!Ident
<1> QED
  BY <1>1, <1>2, <1>3, <1>4, <1>5, <1>6, <1>7, <1>8, <1>9, <1>10, <1>11

LEMMA EatingStatements ==
  Runs1(P!IfStmt, "if") /\ Runs1(P!ReturnStmt, "return") /\ Runs1(P!ForLoop, "for")
<1>1. Runs1(P!IfStmt, "if")
  <2>1. PICK a, e, b, ab : /\ a = <<P!Eat("if")>> /\ e = <<P!Call("stmt")>>
                           /\ b = <<P!Call("stmt"), P!Accept("else", e), P!Node("if")>>
                           /\ ab = a \o P!Condition
    OBVIOUS
  <2>2. \A u : Runs1(P!Condition, u)
    BY CodeOfThree, PlainItems, OpenCallItems, LiftsAnywhere DEF P!Condition
  <2>3. \A u : Runs0(e, u)
    BY <2>1, CodeOfOne, OpenCallItems, LiftsAnywhere
  <2>4. Runs1(a, "if") /\ \A u : Runs1(b, u)
    BY <2>1, <2>3, AcceptItems, CodeOfOne, CodeOfThree, PlainItems, OpenCallItems,
       LiftsAnywhere, Lifts
  <2>5. Runs1(ab, "if")
    BY <2>1, <2>2, <2>4, Joined
  <2>6. P!IfStmt = ab \o b
    BY <2>1 DEF P!IfStmt
  <2> QED
    BY <2>4, <2>5, <2>6, Joined
<1>2. Runs1(P!ReturnStmt, "return")
  <2>1. PICK c : c = <<P!Call("expr"), P!Expect("semicolon")>>
    OBVIOUS
  <2>2. \A u : Runs0(c, u)
    BY <2>1, CodeOfTwo, OpenCallItems, PlainItems, LiftsAnywhere
  <2> QED
    BY <2>1, <2>2, UnlessItems, CodeOfThree, PlainItems, Lifts, LiftsAnywhere DEF P!ReturnStmt
<1>3. Runs1(P!ForLoop, "for")
  <2>1. PICK c, d : /\ c = <<P!Call("compound_expr"), P!Expect("semicolon")>>
                    /\ d = <<P!Call("compound_expr"), P!Expect(")")>>
    OBVIOUS
  <2>2. (\A u : Runs0(c, u)) /\ \A u : Runs0(d, u)
    BY <2>1, CodeOfTwo, OpenCallItems, PlainItems, LiftsAnywhere
  <2>3. Fits1Anywhere(P!Unless("semicolon", c)) /\ Fits1Anywhere(P!Unless(")", d))
    BY <2>2, UnlessItems
  <2> QED
    BY <2>1, <2>3, CodeOfSeven, PlainItems, OpenCallItems, Lifts, LiftsAnywhere DEF P!ForLoop
<1> QED
  BY <1>1, <1>2, <1>3

\* A call of a function that begins with eat_token, chosen on that token.
LEMMA CallsOnTheirToken ==
  ASSUME NEW fn \in DOMAIN Opening, NEW c, c = <<P!Call(fn)>>
  PROVE  Runs0(c, Opening[fn])
  BY ClosedCalls, ClosedCallItems, CodeOfOne

LEMMA OpenCallAlone ==
  ASSUME NEW fn, OpensAnywhere(fn), NEW t, NEW c, c = <<P!Call(fn)>>
  PROVE  Runs0(c, t)
  BY CallItems, LiftsAnywhere, CodeOfOne

\* Those that choose by the look-ahead.
LEMMA CastOrParenRuns == Runs2(P!CastOrParenExpr, "(")
<1>1. PICK c, p, as, in, bs : /\ c = <<P!Call("cast_expr")>> /\ p = <<P!Call("paren_expr")>>
                              /\ as = << <<{")"}, c>> >>
                              /\ in = <<P!Switch(2, as, p)>>
                              /\ bs = << <<{"type"}, in>> >>
  OBVIOUS
<1>2. Runs0(c, "(") /\ Runs0(p, "(")
  BY <1>1, CallsOnTheirToken DEF Opening
<1>3. Fits1(P!Switch(2, as, p), "(")
  BY <1>1, <1>2, OneArm, ArmItems, SwitchItems
<1>4. Runs1(in, "(") /\ Runs1(p, "(")
  BY <1>1, <1>2, <1>3, CodeOfOne, Lifts
<1>5. Fits2(P!Switch(1, bs, p), "(")
  BY <1>1, <1>4, OneArm, ArmItems, SwitchItems
<1>6. P!CastOrParenExpr = <<P!Switch(1, bs, p)>>
  BY <1>1 DEF P!CastOrParenExpr
<1> QED
  BY <1>5, <1>6, CodeOfOne

LEMMA PrimaryRuns == ASSUME NEW t PROVE Runs1(P!PrimaryExpr, t)
<1>1. \A tag : Runs0(P!Literal(tag), tag)
  BY CodeOfTwo, PlainItems DEF P!Literal
<1>2. PICK s, w, l, p, c, e : /\ s = <<P!Call("string_literal")>> /\ w = <<P!Call("ident_expr")>>
                             /\ l = <<P!Call("compound_init")>>
                             /\ p = <<P!Call("cast_or_paren_expr")>>
                             /\ c = <<P!Call("construct_expr")>> /\ e = <<P!Call("error")>>
  OBVIOUS
<1>3. /\ Runs0(s, t) /\ Runs0(w, t) /\ Runs0(c, t) /\ Runs0(e, t)
      /\ Runs0(l, "lbrace") /\ Runs0(p, "(")
  BY <1>2, CallsOnTheirToken, OpenCallItems, LiftsAnywhere, CodeOfOne DEF Opening
<1>4. PICK a1, a2, a3, a4, a5, a6, a7, as :
         /\ a1 = <<{"bool"}, P!Literal("bool")>> /\ a2 = <<{"literal"}, P!Literal("literal")>>
         /\ a3 = <<{"string"}, s>> /\ a4 = <<{"ident"}, w>> /\ a5 = <<{"lbrace"}, l>>
         /\ a6 = <<{"("}, p>> /\ a7 = <<{"type"}, c>>
         /\ as = <<a1, a2, a3, a4, a5, a6, a7>>
  OBVIOUS
<1>5. ArmRuns0(a1, 0, t) /\ ArmRuns0(a2, 0, t) /\ ArmRuns0(a3, 0, t) /\ ArmRuns0(a4, 0, t)
  BY <1>1, <1>3, <1>4, ArmItems
<1>6. ArmRuns0(a5, 0, t) /\ ArmRuns0(a6, 0, t) /\ ArmRuns0(a7, 0, t)
  BY <1>3, <1>4, ArmItems
<1>7. \A k \in DOMAIN as : ArmRuns0(as[k], 0, t)
  <2>1. as = <<a1, a2, a3, a4, a5, a6, a7>>
    BY <1>4
  <2>2. \A k \in DOMAIN as : as[k] \in {a1, a2, a3, a4, a5, a6, a7}
    BY <2>1, SevenArms
  <2> QED
    BY <1>5, <1>6, <2>2
<1>8. Fits1(P!Switch(0, as, e), t)
  BY <1>3, <1>7, SwitchItems
<1>9. P!PrimaryExpr = <<P!Switch(0, as, e)>>
  BY <1>2, <1>4 DEF P!PrimaryExpr
<1> QED
  BY <1>8, <1>9, CodeOfOne

LEMMA SuffixRuns == ASSUME NEW t PROVE Runs1(P!SuffixExpr, t)
<1>1. PICK g, p, w, q, c : /\ g = <<P!Pass("suffix_expr", 0)>>
                           /\ p = P!ProjExpr \o g /\ w = P!IndexExpr \o g
                           /\ q = P!PostIncOrDecExpr \o g /\ c = P!CallExpr \o g
  OBVIOUS
<1>2. \A u : Runs0(g, u)
  BY <1>1, OpenCallItems, LiftsAnywhere, CodeOfOne
<1>3. Runs0(P!ProjExpr, ".") /\ Runs0(P!CallExpr, "(")
  BY PlainItems, LoopItems, CodeOfThree DEF P!ProjExpr, P!CallExpr, P!Ident
<1>4. Runs0(P!IndexExpr, "[") /\ Runs0(P!PostIncOrDecExpr, "++")
  BY PlainItems, OpenCallItems, LiftsAnywhere, CodeOfFour, CodeOfTwo
     DEF P!IndexExpr, P!PostIncOrDecExpr
<1>5. Runs0(p, ".") /\ Runs0(w, "[") /\ Runs0(q, "++") /\ Runs0(c, "(")
  BY <1>1, <1>2, <1>3, <1>4, Joined
<1>6. PICK a1, a2, a3, a4, as : /\ a1 = <<{"."}, p>> /\ a2 = <<{"["}, w>>
                               /\ a3 = <<{"++"}, q>> /\ a4 = <<{"("}, c>>
                               /\ as = <<a1, a2, a3, a4>>
  OBVIOUS
<1>7. ArmRuns0(a1, 0, t) /\ ArmRuns0(a2, 0, t) /\ ArmRuns0(a3, 0, t) /\ ArmRuns0(a4, 0, t)
  BY <1>5, <1>6, ArmItems
<1>8. Fits1(P!Switch(0, as, << >>), t)
  <2>1. \A k \in DOMAIN as : as[k] \in {a1, a2, a3, a4}
    BY <1>6, FourArms
  <2>2. \A k \in DOMAIN as : ArmRuns0(as[k], 0, t)
    BY <1>7, <2>1
  <2> QED
    BY <2>2, SwitchItems, EmptyCode
<1>9. P!SuffixExpr = <<P!Switch(0, as, << >>)>>
  BY <1>1, <1>6 DEF P!SuffixExpr
<1> QED
  BY <1>8, <1>9, CodeOfOne

LEMMA PrefixRuns == ASSUME NEW t PROVE Runs1(P!PrefixExpr, t)
<1>1. PICK a, r, n, ra, p, as : /\ a = <<P!Call("primary_expr"), P!Pass("suffix_expr", 0)>>
                               /\ r = <<P!Read>> /\ n = <<P!Node("prefix")>> /\ ra = r \o a
                               /\ p = ra \o n /\ as = << <<P!PrefixOps, p>> >>
  OBVIOUS
<1>2. \A u : Runs0(a, u) /\ Runs0(r, u) /\ Runs0(n, u)
  BY <1>1, OpenCallItems, PlainItems, LiftsAnywhere, CodeOfOne, CodeOfTwo
<1>3. Runs0(ra, t)
  BY <1>1, <1>2, Joined
<1>4. Runs0(p, t)
  BY <1>1, <1>2, <1>3, Joined
<1>5. Fits1(P!Switch(0, as, a), t)
  <2>1. ArmRuns0(<<P!PrefixOps, p>>, 0, t)
    BY <1>4, ArmItems
  <2>2. \A k \in DOMAIN as : as[k] = <<P!PrefixOps, p>>
    BY <1>1
  <2> QED
    BY <1>2, <2>1, <2>2, SwitchItems
<1>6. P!PrefixExpr = <<P!Switch(0, as, a)>>
  BY <1>1 DEF P!PrefixExpr
<1> QED
  BY <1>5, <1>6, CodeOfOne

LEMMA PrimTypeRuns == ASSUME NEW t PROVE Runs1(P!PrimType, t)
<1>1. PICK a, e, as : /\ a = <<P!Read, P!Node("prim_type")>> /\ e = <<P!Call("error")>>
                      /\ as = << <<{"type"}, a>> >>
  OBVIOUS
<1>2. Runs0(a, t) /\ Runs0(e, t)
  BY <1>1, OpenCallItems, PlainItems, LiftsAnywhere, CodeOfOne, CodeOfTwo
<1>3. Fits1(P!Switch(0, as, e), t)
  BY <1>1, <1>2, OneArm, ArmItems, SwitchItems
<1>4. P!PrimType = <<P!Switch(0, as, e)>>
  BY <1>1 DEF P!PrimType
<1> QED
  BY <1>3, <1>4, CodeOfOne

LEMMA TypeRuns == ASSUME NEW t PROVE Runs1(P!Type, t)
<1>1. PICK p, c, n, e : /\ p = <<P!Call("prim_type")>> /\ c = <<P!Call("closure_type")>>
                        /\ n = <<P!Call("named_type")>> /\ e = <<P!Call("error")>>
  OBVIOUS
<1>2. Runs0(p, t) /\ Runs0(c, "closure") /\ Runs0(n, t) /\ Runs0(e, t)
  BY <1>1, CallsOnTheirToken, OpenCallItems, LiftsAnywhere, CodeOfOne DEF Opening
<1>3. PICK a1, a2, a3, as : /\ a1 = <<{"type"}, p>> /\ a2 = <<{"closure"}, c>>
                            /\ a3 = <<{"ident"}, n>> /\ as = <<a1, a2, a3>>
  OBVIOUS
<1>4. ArmRuns0(a1, 0, t) /\ ArmRuns0(a2, 0, t) /\ ArmRuns0(a3, 0, t)
  BY <1>2, <1>3, ArmItems
<1>5. Fits1(P!Switch(0, as, e), t)
  BY <1>2, <1>3, <1>4, ThreeArms, SwitchItems
<1>6. P!Type = <<P!Switch(0, as, e)>>
  BY <1>1, <1>3 DEF P!Type
<1> QED
  BY <1>5, <1>6, CodeOfOne

LEMMA BlockOrErrorRuns == ASSUME NEW t PROVE Runs1(P!BlockOrError, t)
<1>1. PICK a, e, as : /\ a = <<P!Call("block")>> /\ e = <<P!Call("error")>>
                      /\ as = << <<{"lbrace"}, a>> >>
  OBVIOUS
<1>2. Runs0(a, "lbrace") /\ Runs0(e, t)
  BY <1>1, CallsOnTheirToken, OpenCallItems, LiftsAnywhere, CodeOfOne DEF Opening
<1>3. Fits1(P!Switch(0, as, e), t)
  BY <1>1, <1>2, OneArm, ArmItems, SwitchItems
<1>4. P!BlockOrError = <<P!Switch(0, as, e)>>
  BY <1>1 DEF P!BlockOrError
<1> QED
  BY <1>3, <1>4, CodeOfOne

LEMMA TopLevelDeclRuns == ASSUME NEW t PROVE Runs1(P!TopLevelDecl, t)
<1>1. PICK s, h, v, e : /\ s = <<P!Call("struct_decl")>> /\ h = <<P!Call("shader_decl")>>
                        /\ v = <<P!Call("var_or_func_decl")>> /\ e = <<P!Call("error")>>
  OBVIOUS
<1>2. Runs0(s, "struct") /\ Runs0(h, "shader") /\ Runs0(v, t) /\ Runs0(e, t)
  BY <1>1, CallsOnTheirToken, OpenCallItems, LiftsAnywhere, CodeOfOne DEF Opening
<1>3. PICK a1, a2, a3, as : /\ a1 = <<{"struct"}, s>> /\ a2 = <<{"shader"}, h>>
                            /\ a3 = <<{"type", "closure", "ident"}, v>> /\ as = <<a1, a2, a3>>
  OBVIOUS
<1>4. ArmRuns0(a1, 0, t) /\ ArmRuns0(a2, 0, t) /\ ArmRuns0(a3, 0, t)
  BY <1>2, <1>3, ArmItems
<1>5. Fits1(P!Switch(0, as, e), t)
  BY <1>2, <1>3, <1>4, ThreeArms, SwitchItems
<1>6. P!TopLevelDecl = <<P!Switch(0, as, e)>>
  BY <1>1, <1>3 DEF P!TopLevelDecl
<1> QED
  BY <1>5, <1>6, CodeOfOne

LEMMA ArrayDimRuns == ASSUME NEW t PROVE Runs2(P!ArrayDim, t)
<1>1. PICK u, e, as, b, c : /\ u = <<P!Node("unsized_dim")>> /\ e = <<P!Call("expr")>>
                            /\ as = << <<{"]"}, u>> >> /\ b = P!Switch(0, as, e)
                            /\ c = <<b, P!Expect("]")>>
  OBVIOUS
<1>2. \A x : Runs0(u, x) /\ Runs0(e, x)
  BY <1>1, OpenCallItems, PlainItems, LiftsAnywhere, CodeOfOne
<1>3. \A x : Fits1(b, x)
  <2>1. \A x : ArmRuns0(<<{"]"}, u>>, 0, x)
    BY <1>2, ArmItems
  <2> QED
    BY <1>1, <1>2, <2>1, OneArm, SwitchItems
<1>4. \A x : Runs1(c, x)
  BY <1>1, <1>3, PlainItems, LiftsAnywhere, CodeOfTwo
<1> QED
  BY <1>1, <1>4, AcceptItems, LiftsAnywhere, CodeOfOne DEF P!ArrayDim

LEMMA FuncParamRuns == ASSUME NEW t PROVE Runs2(P!FuncParam, t)
<1>1. PICK as, p : /\ as = << <<{"..."}, P!Ellipsis>> >>
                   /\ p = <<P!Accept("output", << >>), P!Call("type"), P!Accept("ident", << >>),
                            P!Call("array_dim"), P!Node("param")>>
  OBVIOUS
<1>2. Runs1(P!Ellipsis, "...")
  BY PlainItems, CodeOfTwo, Lifts DEF P!Ellipsis
<1>3. Fits1Anywhere(P!Accept("output", << >>)) /\ Fits1Anywhere(P!Accept("ident", << >>))
  BY EmptyCode, AcceptItems
<1>4. Runs1(p, t)
  BY <1>1, <1>3, OpenCallItems, PlainItems, LiftsAnywhere, CodeOfFive
<1>5. Fits2(P!Switch(0, as, p), t)
  <2>1. ArmRuns1(<<{"..."}, P!Ellipsis>>, 0, t)
    BY <1>2, ArmItems
  <2> QED
    BY <1>1, <1>4, <2>1, OneArm, SwitchItems
<1>6. P!FuncParam = <<P!Switch(0, as, p)>>
  BY <1>1 DEF P!FuncParam
<1> QED
  BY <1>5, <1>6, CodeOfOne

LEMMA ForInitRuns == ASSUME NEW t PROVE Runs2(P!ForInit, t)
<1>1. PICK v, e, in, as, w, s : /\ v = <<P!Call("type"), P!Pass("var_decl", 0)>>
                               /\ e = <<P!Call("expr"), P!Expect("semicolon")>>
                               /\ as = << <<{"ident"}, v>> >> /\ in = P!Switch(1, as, e)
                               /\ w = <<in>> /\ s = <<P!Eat("semicolon")>>
  OBVIOUS
<1>2. Runs0(v, t) /\ Runs0(e, t) /\ Runs0(s, "semicolon")
  BY <1>1, OpenCallItems, PlainItems, LiftsAnywhere, CodeOfOne, CodeOfTwo
<1>3. Runs1(w, t)
  <2>1. ArmRuns0(<<{"ident"}, v>>, 1, t)
    BY <1>2, ArmItems
  <2>2. Fits1(in, t)
    BY <1>1, <1>2, <2>1, OneArm, SwitchItems
  <2> QED
    BY <1>1, <2>2, CodeOfOne
<1>4. PICK a1, a2, a3, bs : /\ a1 = <<{"ident"}, w>> /\ a2 = <<{"type", "closure"}, v>>
                            /\ a3 = <<{"semicolon"}, s>> /\ bs = <<a1, a2, a3>>
  OBVIOUS
<1>5. ArmRuns1(a1, 0, t) /\ ArmRuns1(a2, 0, t) /\ ArmRuns1(a3, 0, t)
  BY <1>2, <1>3, <1>4, Lifts, ArmItems
<1>6. Fits2(P!Switch(0, bs, e), t)
  <2>1. bs = <<a1, a2, a3>>
    BY <1>4
  <2>2. \A k \in DOMAIN bs : ArmRuns1(bs[k], 0, t)
    BY <1>5, <2>1, ThreeArms
  <2>3. Runs1(e, t)
    BY <1>2, Lifts
  <2> QED
    BY <2>2, <2>3, SwitchItems
<1>7. P!ForInit = <<P!Switch(0, bs, e)>>
  BY <1>1, <1>4 DEF P!ForInit
<1> QED
  BY <1>6, <1>7, CodeOfOne

LEMMA VarOrFuncDeclRuns == ASSUME NEW t PROVE Runs2(P!VarOrFuncDecl, t)
<1>1. PICK v, f, as, in, w, bs : /\ v = <<P!Pass("var_decl", 0)>> /\ f = <<P!Pass("func_decl", 0)>>
                                /\ as = << <<{"("}, f>> >> /\ in = P!Switch(1, as, v)
                                /\ w = <<in>> /\ bs = << <<{"ident"}, w>> >>
  OBVIOUS
<1>2. \A u : Runs0(v, u) /\ Runs0(f, u)
  BY <1>1, OpenCallItems, LiftsAnywhere, CodeOfOne
<1>3. \A u : Fits1(in, u)
  <2>1. \A u : ArmRuns0(<<{"("}, f>>, 1, u)
    BY <1>2, ArmItems
  <2> QED
    BY <1>1, <1>2, <2>1, OneArm, SwitchItems
<1>4. \A u : Runs1(w, u)
  BY <1>1, <1>3, CodeOfOne
<1>5. \A u : Fits2(P!Switch(0, bs, v), u)
  <2>1. \A u : ArmRuns1(<<{"ident"}, w>>, 0, u)
    BY <1>4, ArmItems
  <2> QED
    BY <1>1, <1>2, <2>1, Lifts, OneArm, SwitchItems
<1>6. P!VarOrFuncDecl = <<P!Call("type"), P!Switch(0, bs, v)>>
  BY <1>1 DEF P!VarOrFuncDecl
<1>7. Fits2Anywhere(P!Switch(0, bs, v))
  BY <1>5 DEF Fits2Anywhere
<1> QED
  BY <1>6, <1>7, OpenCallItems, LiftsAnywhere, CodeOfTwo

LEMMA StmtRuns == ASSUME NEW t PROVE Runs2(P!Stmt, t)
<1>1. PICK e, d, as, in, w : /\ e = <<P!Call("compound_expr"), P!Expect("semicolon")>>
                             /\ d = <<P!Call("var_or_func_decl")>>
                             /\ as = << <<{"ident"}, d>> >> /\ in = P!Switch(1, as, e)
                             /\ w = <<in>>
  OBVIOUS
<1>2. Runs0(e, t) /\ Runs0(d, t)
  BY <1>1, OpenCallItems, PlainItems, LiftsAnywhere, CodeOfOne, CodeOfTwo
<1>3. Runs1(w, t)
  <2>1. ArmRuns0(<<{"ident"}, d>>, 1, t)
    BY <1>2, ArmItems
  <2>2. as = << <<{"ident"}, d>> >>
    BY <1>1
  <2>3. \A k \in DOMAIN as : ArmRuns0(as[k], 1, t)
    BY <2>1, <2>2
  <2>4. Fits1(P!Switch(1, as, e), t)
    BY <1>2, <2>3, SwitchItems
  <2> QED
    BY <1>1, <2>4, CodeOfOne
<1>4. PICK c1, c2, c3, c4, c5, c6, c7, c8, c9, x :
         /\ c1 = <<P!Call("if_stmt")>> /\ c2 = <<P!Call("break_stmt")>>
         /\ c3 = <<P!Call("continue_stmt")>> /\ c4 = <<P!Call("return_stmt")>>
         /\ c5 = <<P!Call("while_loop")>> /\ c6 = <<P!Call("do_while_loop")>>
         /\ c7 = <<P!Call("for_loop")>> /\ c8 = <<P!Call("block")>>
         /\ c9 = <<P!Call("empty_stmt")>> /\ x = <<P!Call("error")>>
  OBVIOUS
<1>5. /\ Runs0(c1, "if") /\ Runs0(c2, "break") /\ Runs0(c3, "continue") /\ Runs0(c4, "return")
      /\ Runs0(c5, "while") /\ Runs0(c6, "do") /\ Runs0(c7, "for") /\ Runs0(c8, "lbrace")
      /\ Runs0(c9, "semicolon")
  BY <1>4, CallsOnTheirToken DEF Opening
<1>6. Runs1(x, t)
  BY <1>4, OpenCallItems, LiftsAnywhere, CodeOfOne, Lifts
<1>7. PICK a1, a2, a3, a4, a5, a6, a7, a8, a9, b1, b2, b3, bs :
         /\ a1 = <<{"type", "closure"}, d>> /\ a2 = <<{"if"}, c1>> /\ a3 = <<{"break"}, c2>>
         /\ a4 = <<{"continue"}, c3>> /\ a5 = <<{"return"}, c4>> /\ a6 = <<{"while"}, c5>>
         /\ a7 = <<{"do"}, c6>> /\ a8 = <<{"for"}, c7>> /\ a9 = <<{"lbrace"}, c8>>
         /\ b1 = <<{"ident"}, w>> /\ b2 = <<P!PrefixOps \cup {"literal", "("}, e>>
         /\ b3 = <<{"semicolon"}, c9>>
         /\ bs = <<a1, a2, a3, a4, a5, a6, a7, a8, a9, b1, b2, b3>>
  OBVIOUS
<1>8. ArmRuns1(a1, 0, t) /\ ArmRuns1(b1, 0, t) /\ ArmRuns1(b2, 0, t)
  BY <1>2, <1>3, <1>7, Lifts, ArmItems
<1>9. ArmRuns1(a2, 0, t) /\ ArmRuns1(a3, 0, t) /\ ArmRuns1(a4, 0, t) /\ ArmRuns1(a5, 0, t)
  BY <1>5, <1>7, Lifts, ArmItems
<1>10. ArmRuns1(a6, 0, t) /\ ArmRuns1(a7, 0, t) /\ ArmRuns1(a8, 0, t) /\ ArmRuns1(a9, 0, t)
  BY <1>5, <1>7, Lifts, ArmItems
<1>11. ArmRuns1(b3, 0, t)
  BY <1>5, <1>7, Lifts, ArmItems
<1>12. \A k \in DOMAIN bs : ArmRuns1(bs[k], 0, t)
  <2>1. bs = <<a1, a2, a3, a4, a5, a6, a7, a8, a9, b1, b2, b3>>
    BY <1>7
  <2>2. \A k \in DOMAIN bs : bs[k] \in {a1, a2, a3, a4, a5, a6, a7, a8, a9, b1, b2, b3}
    BY <2>1, TwelveArms
  <2> QED
    BY <1>8, <1>9, <1>10, <1>11, <2>2
<1>13. Fits2(P!Switch(0, bs, x), t)
  BY <1>6, <1>12, SwitchItems
<1>14. P!Stmt = <<P!Switch(0, bs, x)>>
  BY <1>1, <1>4, <1>7 DEF P!Stmt
<1> QED
  BY <1>13, <1>14, CodeOfOne

\* These are all the parse functions.
LEMMA BodyNames ==
  DOMAIN P!Body =
    {"error", "attr", "attr_list", "strings", "string_literal", "compound_init", "cast_expr",
     "more_exprs", "compound_expr", "paren_expr", "cast_or_paren_expr", "ident_expr",
     "construct_expr", "primary_expr", "suffix_expr", "prefix_expr", "binary_expr", "operand",
     "ternary_expr", "assign_expr", "expr", "prim_type", "shader_type", "closure_type",
     "named_type", "type", "array_dim", "metadatum", "metadata", "ignored_metadata",
     "func_param", "shader_param", "if_stmt", "break_stmt", "continue_stmt", "return_stmt",
     "while_loop", "do_while_loop", "var_with_init", "var_without_init", "var_decl",
     "field_decl", "block", "block_or_error", "func_decl", "for_init", "for_loop",
     "var_or_func_decl", "empty_stmt", "stmt", "shader_decl", "struct_decl", "top_level_decl",
     "top_level_decl_with_attrs", "parse"}
  BY DEF P!Body

LEMMA BodyOf ==
  /\ P!Body["error"] = P!ParseError /\ P!Body["attr"] = P!Attr
  /\ P!Body["attr_list"] = P!AttrList /\ P!Body["strings"] = P!Strings
  /\ P!Body["string_literal"] = P!StringLiteral /\ P!Body["compound_init"] = P!CompoundInit
  /\ P!Body["cast_expr"] = P!CastExpr /\ P!Body["more_exprs"] = P!MoreExprs
  /\ P!Body["compound_expr"] = P!CompoundExpr /\ P!Body["paren_expr"] = P!ParenExpr
  /\ P!Body["cast_or_paren_expr"] = P!CastOrParenExpr /\ P!Body["ident_expr"] = P!IdentExpr
  /\ P!Body["construct_expr"] = P!ConstructExpr /\ P!Body["primary_expr"] = P!PrimaryExpr
  /\ P!Body["suffix_expr"] = P!SuffixExpr /\ P!Body["prefix_expr"] = P!PrefixExpr
  /\ P!Body["binary_expr"] = P!BinaryExpr /\ P!Body["operand"] = P!Operand
  /\ P!Body["ternary_expr"] = P!TernaryExpr /\ P!Body["assign_expr"] = P!AssignExpr
  /\ P!Body["expr"] = P!Expr /\ P!Body["prim_type"] = P!PrimType
  /\ P!Body["shader_type"] = P!ShaderType /\ P!Body["closure_type"] = P!ClosureType
  /\ P!Body["named_type"] = P!NamedType /\ P!Body["type"] = P!Type
  /\ P!Body["array_dim"] = P!ArrayDim /\ P!Body["metadatum"] = P!Metadatum
  /\ P!Body["metadata"] = P!Metadata /\ P!Body["ignored_metadata"] = P!IgnoredMetadata
  /\ P!Body["func_param"] = P!FuncParam /\ P!Body["shader_param"] = P!ShaderParam
  /\ P!Body["if_stmt"] = P!IfStmt /\ P!Body["break_stmt"] = P!JumpStmt("break")
  /\ P!Body["continue_stmt"] = P!JumpStmt("continue") /\ P!Body["return_stmt"] = P!ReturnStmt
  /\ P!Body["while_loop"] = P!WhileLoop /\ P!Body["do_while_loop"] = P!DoWhileLoop
  /\ P!Body["var_with_init"] = P!VarWithInit /\ P!Body["var_without_init"] = P!VarWithoutInit
  /\ P!Body["var_decl"] = P!VarDecl /\ P!Body["field_decl"] = P!FieldDecl
  /\ P!Body["block"] = P!Block /\ P!Body["block_or_error"] = P!BlockOrError
  /\ P!Body["func_decl"] = P!FuncDecl /\ P!Body["for_init"] = P!ForInit
  /\ P!Body["for_loop"] = P!ForLoop /\ P!Body["var_or_func_decl"] = P!VarOrFuncDecl
  /\ P!Body["empty_stmt"] = P!EmptyStmt /\ P!Body["stmt"] = P!Stmt
  /\ P!Body["shader_decl"] = P!ShaderDecl /\ P!Body["struct_decl"] = P!StructDecl
  /\ P!Body["top_level_decl"] = P!TopLevelDecl
  /\ P!Body["top_level_decl_with_attrs"] = P!TopLevelDeclWithAttrs /\ P!Body["parse"] = P!Parse
  BY DEF P!Body

LEMMA OpenBodies ==
  ASSUME NEW t
  PROVE
    /\ Runs2(P!ParseError, t) /\ Runs2(P!Attr, t) /\ Runs2(P!AttrList, t) /\ Runs2(P!Strings, t)
    /\ Runs2(P!StringLiteral, t) /\ Runs2(P!MoreExprs, t) /\ Runs2(P!CompoundExpr, t)
    /\ Runs2(P!IdentExpr, t) /\ Runs2(P!ConstructExpr, t) /\ Runs2(P!PrimaryExpr, t)
    /\ Runs2(P!SuffixExpr, t) /\ Runs2(P!PrefixExpr, t) /\ Runs2(P!BinaryExpr, t)
    /\ Runs2(P!Operand, t) /\ Runs2(P!TernaryExpr, t) /\ Runs2(P!AssignExpr, t)
    /\ Runs2(P!Expr, t) /\ Runs2(P!PrimType, t) /\ Runs2(P!NamedType, t) /\ Runs2(P!Type, t)
    /\ Runs2(P!ArrayDim, t) /\ Runs2(P!Metadatum, t) /\ Runs2(P!Metadata, t)
    /\ Runs2(P!IgnoredMetadata, t) /\ Runs2(P!FuncParam, t) /\ Runs2(P!ShaderParam, t)
    /\ Runs2(P!VarWithInit, t) /\ Runs2(P!VarWithoutInit, t) /\ Runs2(P!VarDecl, t)
    /\ Runs2(P!FieldDecl, t) /\ Runs2(P!BlockOrError, t) /\ Runs2(P!FuncDecl, t)
    /\ Runs2(P!ForInit, t) /\ Runs2(P!VarOrFuncDecl, t) /\ Runs2(P!Stmt, t)
    /\ Runs2(P!TopLevelDecl, t) /\ Runs2(P!TopLevelDeclWithAttrs, t) /\ Runs2(P!Parse, t)
<1>1. /\ Runs2(P!ParseError, t) /\ Runs2(P!StringLiteral, t) /\ Runs2(P!IdentExpr, t)
      /\ Runs2(P!ConstructExpr, t) /\ Runs2(P!BinaryExpr, t) /\ Runs2(P!Operand, t)
      /\ Runs2(P!Expr, t) /\ Runs2(P!NamedType, t) /\ Runs2(P!Metadatum, t)
      /\ Runs2(P!IgnoredMetadata, t) /\ Runs2(P!VarDecl, t) /\ Runs2(P!VarWithoutInit, t)
      /\ Runs2(P!FieldDecl, t) /\ Runs2(P!TopLevelDeclWithAttrs, t) /\ Runs2(P!Parse, t)
  BY StraightBodies, Lifts
<1>2. /\ Runs2(P!Attr, t) /\ Runs2(P!AttrList, t) /\ Runs2(P!Strings, t)
      /\ Runs2(P!MoreExprs, t) /\ Runs2(P!CompoundExpr, t) /\ Runs2(P!TernaryExpr, t)
      /\ Runs2(P!AssignExpr, t) /\ Runs2(P!Metadata, t) /\ Runs2(P!ShaderParam, t)
      /\ Runs2(P!VarWithInit, t) /\ Runs2(P!FuncDecl, t)
  BY OptionalBodies, Lifts
<1>3. /\ Runs2(P!PrimaryExpr, t) /\ Runs2(P!SuffixExpr, t) /\ Runs2(P!PrefixExpr, t)
      /\ Runs2(P!PrimType, t) /\ Runs2(P!Type, t) /\ Runs2(P!BlockOrError, t)
      /\ Runs2(P!TopLevelDecl, t)
  BY PrimaryRuns, SuffixRuns, PrefixRuns, PrimTypeRuns, TypeRuns, BlockOrErrorRuns,
     TopLevelDeclRuns, Lifts
<1> QED
  BY <1>1, <1>2, <1>3, ArrayDimRuns, FuncParamRuns, ForInitRuns, VarOrFuncDeclRuns, StmtRuns

LEMMA ClosedBodies ==
  ASSUME NEW fn \in DOMAIN Opening
  PROVE  Runs2(P!Body[fn], Opening[fn])
<1>1. /\ Runs2(P!CompoundInit, "lbrace") /\ Runs2(P!CastExpr, "(") /\ Runs2(P!ParenExpr, "(")
      /\ Runs2(P!ShaderType, "shader") /\ Runs2(P!ClosureType, "closure")
      /\ Runs2(P!JumpStmt("break"), "break") /\ Runs2(P!JumpStmt("continue"), "continue")
      /\ Runs2(P!WhileLoop, "while") /\ Runs2(P!DoWhileLoop, "do") /\ Runs2(P!Block, "lbrace")
      /\ Runs2(P!EmptyStmt, "semicolon") /\ Runs2(P!StructDecl, "struct")
      /\ Runs2(P!ShaderDecl, "shader")
  BY EatingBodies, Lifts
<1>2. Runs2(P!IfStmt, "if") /\ Runs2(P!ReturnStmt, "return") /\ Runs2(P!ForLoop, "for")
  BY EatingStatements, Lifts
<1> QED
  BY <1>1, <1>2, CastOrParenRuns, BodyOf DEF Opening

\* Every parse function, called with a token ahead on which it may be, eats only what it
\* has seen.
LEMMA BodyRuns ==
  ASSUME NEW fn, NEW t, Opens(fn, t)
  PROVE  Runs2(P!Body[fn], t)
<1>1. CASE fn \in DOMAIN Opening
  BY <1>1, ClosedBodies DEF Opens
<1>2. CASE fn \in DOMAIN P!Body \ DOMAIN Opening
  BY <1>2, BodyNames, BodyOf, OpenBodies DEF Opening
<1> QED
  BY <1>1, <1>2 DEF Opens

-----------------------------------------------------------------------------
(* The calls on the stack. *)

IsCall(f) ==
  f = [fn |-> f.fn, prec |-> f.prec, begin |-> f.begin, todo |-> f.todo, vals |-> f.vals]

\* The innermost call runs with the token t ahead, the others with any.
CallsRun(s, t) ==
  /\ IsCode(s)
  /\ \A k \in 1 .. Len(s) :
       /\ IsCall(s[k])
       /\ IF k = Len(s) THEN Runs2(s[k].todo, t) ELSE Anywhere(s[k].todo)

\* The inductive invariant: the innermost call is safe with the token that is ahead,
\* and the calls around it with whatever it leaves ahead.
ParserInv == CallsRun(stack, P!Ahead(0))

\* The first item fits the token ahead, the rest any.
LEMMA RestRuns ==
  ASSUME NEW c, NEW t, Runs2(c, t), c # << >>
  PROVE  Anywhere(Tail(c)) /\ Fits2(Head(c), t)
<1>1. PICK S : c \in Seq(S)
  BY DEF Runs2, IsCode
<1>2. PICK n : n = Len(c)
  OBVIOUS
<1>3. n \in Nat /\ n # 0
  BY <1>1, <1>2, EmptySeq, LenProperties
<1>4. /\ Head(c) = c[1] /\ Tail(c) \in Seq(S) /\ Len(Tail(c)) = n - 1
      /\ \A k \in 1 .. n - 1 : Tail(c)[k] = c[k + 1]
  BY <1>1, <1>2, HeadTailProperties
<1>5. Fits2(Head(c), t)
  <2>1. 1 \in 1 .. n
    BY <1>3
  <2> QED
    BY <1>2, <1>4, <2>1 DEF Runs2
<1>6. \A k \in 1 .. n - 1 : Fits2Anywhere(Tail(c)[k])
  <2>1. \A k \in 1 .. n - 1 : k + 1 \in 1 .. n /\ k + 1 # 1
    BY <1>3
  <2> QED
    BY <1>2, <1>4, <2>1 DEF Runs2
<1>7. ASSUME NEW u PROVE Runs2(Tail(c), u)
  BY <1>4, <1>6, LiftsAnywhere DEF Runs2, IsCode
<1> QED
  BY <1>5, <1>7 DEF Anywhere

LEMMA TopCall ==
  ASSUME NEW s, NEW t, CallsRun(s, t), s # << >>, NEW n, n = Len(s)
  PROVE  /\ n \in Nat \ {0} /\ DOMAIN s = 1 .. n
         /\ IsCall(s[n]) /\ Runs2(s[n].todo, t)
<1>1. PICK S : s \in Seq(S)
  BY DEF CallsRun, IsCode
<1>2. n \in Nat \ {0} /\ DOMAIN s = 1 .. n
  BY <1>1, EmptySeq, LenProperties
<1> QED
  BY <1>2 DEF CallsRun

IsReplaced(r, s, n, f) == r = [s EXCEPT ![n] = f]
IsPushed(r, s, f) == r = Append(s, f)
IsFront(q, s) == q = SubSeq(s, 1, Len(s) - 1)
GoesOnWith(r, s, code) == r = [s EXCEPT ![Len(s)].todo = code \o Tail(@)]

\* The innermost call is replaced.
LEMMA TopReplaced ==
  ASSUME NEW s, NEW t, CallsRun(s, t), s # << >>, NEW n, n = Len(s), NEW f, IsCall(f),
         NEW r, IsReplaced(r, s, n, f)
  PROVE  /\ IsCode(r) /\ Len(r) = n /\ r[n] = f
         /\ \A k \in 1 .. n - 1 : r[k] = s[k] /\ IsCall(s[k]) /\ Anywhere(s[k].todo)
         /\ \A u : Runs2(f.todo, u) => CallsRun(r, u)
<1>1. PICK S : s \in Seq(S)
  BY DEF CallsRun, IsCode
<1>2. n \in Nat \ {0} /\ DOMAIN s = 1 .. n
  BY TopCall
<1>3. PICK T : T = S \cup {f}
  OBVIOUS
<1>4. r = [k \in 1 .. n |-> IF k = n THEN f ELSE s[k]]
  BY <1>2 DEF IsReplaced
<1>5. \A k \in 1 .. n : s[k] \in T
  BY <1>1, <1>2, <1>3, ElementOfSeq
<1>6. r \in Seq(T) /\ Len(r) = n
  <2>1. \A k \in 1 .. n : r[k] \in T
    BY <1>3, <1>4, <1>5
  <2>2. r = [k \in 1 .. n |-> r[k]]
    BY <1>4
  <2>3. n \in Nat
    BY <1>2
  <2>4. r \in Seq(T)
    BY <2>1, <2>2, <2>3
  <2> QED
    BY <2>2, <2>3, <2>4, LenProperties
<1>7. r[n] = f /\ \A k \in 1 .. n - 1 : r[k] = s[k]
  BY <1>2, <1>4
<1>8. \A k \in 1 .. n - 1 : IsCall(s[k]) /\ Anywhere(s[k].todo)
  <2>1. \A k \in 1 .. n - 1 : k \in 1 .. n /\ k # n
    BY <1>2
  <2> QED
    BY <2>1 DEF CallsRun
<1>9. ASSUME NEW u, Runs2(f.todo, u) PROVE CallsRun(r, u)
  <2>1. \A k \in 1 .. n : k = n \/ k \in 1 .. n - 1
    BY <1>2
  <2>2. IsCode(r)
    BY <1>6 DEF IsCode
  <2>3. \A k \in 1 .. n : IsCall(r[k]) /\ IF k = n THEN Runs2(r[k].todo, u) ELSE Anywhere(r[k].todo)
    BY <1>7, <1>8, <1>9, <2>1
  <2> QED
    BY <1>6, <2>2, <2>3 DEF CallsRun
<1> QED
  BY <1>6, <1>7, <1>8, <1>9 DEF IsCode

\* A call is pushed.
LEMMA CallPushed ==
  ASSUME NEW s, NEW t, CallsRun(s, t), s # << >>, NEW n, n = Len(s),
         NEW g, IsCall(g), Anywhere(g.todo),
         NEW f, IsCall(f), Runs2(f.todo, t), NEW q, IsReplaced(q, s, n, g), NEW r, IsPushed(r, q, f)
  PROVE  CallsRun(r, t)
<1>2. /\ IsCode(q) /\ Len(q) = n /\ q[n] = g
      /\ \A k \in 1 .. n - 1 : q[k] = s[k] /\ IsCall(s[k]) /\ Anywhere(s[k].todo)
  BY TopReplaced
<1>3. PICK S : q \in Seq(S)
  BY <1>2 DEF IsCode
<1>4. PICK T : T = S \cup {f}
  OBVIOUS
<1>5. q \in Seq(T) /\ f \in T
  BY <1>3, <1>4
<1>6. /\ r \in Seq(T) /\ Len(r) = n + 1 /\ r[n + 1] = f
      /\ \A k \in 1 .. n : r[k] = q[k]
  <2>1. r = Append(q, f)
    BY DEF IsPushed
  <2> QED
    BY <1>2, <1>5, <2>1, AppendProperties
<1>7. n \in Nat \ {0}
  BY TopCall
<1>8. \A k \in 1 .. n + 1 : k = n + 1 \/ (k = n /\ k # n + 1) \/ (k \in 1 .. n - 1 /\ k # n + 1)
  BY <1>7
<1>9. n \in 1 .. n /\ \A k \in 1 .. n - 1 : k \in 1 .. n
  BY <1>7
<1>10. \A k \in 1 .. n + 1 :
         IsCall(r[k]) /\ IF k = n + 1 THEN Runs2(r[k].todo, t) ELSE Anywhere(r[k].todo)
  BY <1>2, <1>6, <1>8, <1>9
<1> QED
  BY <1>6, <1>10 DEF CallsRun, IsCode

\* The innermost call returns, its values to the call around it.
LEMMA CallPopped ==
  ASSUME NEW s, NEW t, CallsRun(s, t), s # << >>, NEW q, IsFront(q, s)
  PROVE  /\ CallsRun(q, t)
         /\ \A k \in 1 .. Len(q) : q[k] = s[k] /\ Anywhere(q[k].todo)
<1> DEFINE n == Len(s)
<1>1. PICK S : s \in Seq(S)
  BY DEF CallsRun, IsCode
<1>2. n \in Nat \ {0} /\ q = SubSeq(s, 1, n - 1)
  BY TopCall DEF IsFront
<1>3. q \in Seq(S) /\ Len(q) = n - 1 /\ \A k \in 1 .. n - 1 : q[k] = s[k]
  BY <1>1, <1>2, FrontOfSeq
<1>4. \A k \in 1 .. n - 1 : k \in 1 .. n /\ k # n
  BY <1>2
<1>5. \A k \in 1 .. n - 1 : IsCall(q[k]) /\ Anywhere(q[k].todo) /\ Runs2(q[k].todo, t)
  BY <1>3, <1>4 DEF CallsRun, Anywhere
<1> QED
  BY <1>3, <1>5 DEF CallsRun, IsCode

\* The innermost call replaces its item by the code of a branch or a loop.
LEMMA GoesOn ==
  ASSUME NEW s, NEW t, CallsRun(s, t), s # << >>, NEW n, n = Len(s), s[n].todo # << >>,
         NEW code, NEW u, Runs2(code, u), NEW r, GoesOnWith(r, s, code)
  PROVE  CallsRun(r, u)
<1>1. PICK f : f = [s[n] EXCEPT !.todo = code \o Tail(@)]
  OBVIOUS
<1>2. n \in DOMAIN s /\ IsCall(s[n]) /\ Runs2(s[n].todo, t)
  BY TopCall
<1>3. IsCall(f) /\ f.todo = code \o Tail(s[n].todo)
  BY <1>1, <1>2 DEF IsCall
<1>4. Anywhere(Tail(s[n].todo))
  BY <1>2, RestRuns
<1>5. Runs2(f.todo, u)
  BY <1>3, <1>4, Joined DEF Anywhere
<1>6. IsReplaced(r, s, n, f)
  BY <1>1 DEF IsReplaced, GoesOnWith
<1> QED
  BY <1>3, <1>5, <1>6, TopReplaced

-----------------------------------------------------------------------------
(* Every action keeps the invariant. *)

LEMMA TopIsSafe ==
  ASSUME ParserInv, stack # << >>, P!Top.todo # << >>
  PROVE  Fits2(P!Item, P!Ahead(0)) /\ IsCall(P!Top) /\ Anywhere(Tail(P!Top.todo))
<1>1. PICK n : n = Len(stack)
  OBVIOUS
<1>2. P!Top = stack[n]
  BY <1>1 DEF P!Top
<1>3. IsCall(P!Top) /\ Runs2(P!Top.todo, P!Ahead(0))
  BY <1>1, <1>2, TopCall DEF ParserInv
<1> QED
  BY <1>3, RestRuns DEF P!Item

LEMMA GoOnKeepsInv ==
  ASSUME ParserInv, stack # << >>, P!Top.todo # << >>, NEW code, P!GoOn(code), Runs2(code, P!Ahead(0)')
  PROVE  ParserInv'
<1>1. PICK s, r, t, u, n : s = stack /\ r = stack' /\ t = P!Ahead(0) /\ u = P!Ahead(0)' /\ n = Len(s)
  OBVIOUS
<1>2. CallsRun(s, t) /\ s # << >> /\ s[n].todo # << >> /\ Runs2(code, u)
  BY <1>1 DEF ParserInv, P!Top
<1>3. GoesOnWith(r, s, code)
  BY <1>1 DEF P!GoOn, GoesOnWith
<1>4. CallsRun(r, u)
  BY <1>1, <1>2, <1>3, GoesOn
<1> QED
  BY <1>1, <1>4 DEF ParserInv

LEMMA SameAhead ==
  ASSUME UNCHANGED <<tokens, pos>>
  PROVE  P!Ahead(0)' = P!Ahead(0)
  BY DEF P!Ahead

LEMMA ReadTokenKeepsInv == ASSUME ParserInv, P!ReadToken PROVE ParserInv'
  BY GoOnKeepsInv, EmptyCode DEF P!ReadToken, P!At

LEMMA ExpectTokenKeepsInv == ASSUME ParserInv, P!ExpectToken PROVE ParserInv'
  BY GoOnKeepsInv, EmptyCode DEF P!ExpectToken, P!At

LEMMA LogAnErrorKeepsInv == ASSUME ParserInv, P!LogAnError PROVE ParserInv'
  BY GoOnKeepsInv, EmptyCode DEF P!LogAnError, P!At

LEMMA BranchKeepsInv == ASSUME ParserInv, P!Branch PROVE ParserInv'
<1>1. /\ stack # << >> /\ P!Top.todo # << >> /\ P!Item.do = "switch"
      /\ P!Ahead(0)' = P!Ahead(0)
  BY SameAhead DEF P!Branch, P!At
<1>2. PICK t : t = P!Ahead(0)
  OBVIOUS
<1>3. /\ \A k \in DOMAIN P!Item.arms : ArmRuns1(P!Item.arms[k], P!Item.at, t)
      /\ Runs1(P!Item.otherwise, t)
  BY <1>1, <1>2, TopIsSafe DEF Fits2
<1>4. CASE P!GoOn(P!Item.otherwise)
  BY <1>1, <1>2, <1>3, <1>4, Lifts, GoOnKeepsInv
<1>5. ASSUME NEW k \in DOMAIN P!Item.arms, P!Ahead(P!Item.at) \in P!Item.arms[k][1],
             P!GoOn(P!Item.arms[k][2])
      PROVE  ParserInv'
  <2>1. Runs1(P!Item.arms[k][2], t)
    BY <1>2, <1>3, <1>5 DEF ArmRuns1
  <2> QED
    BY <1>1, <1>2, <1>5, <2>1, Lifts, GoOnKeepsInv
<1> QED
  BY <1>4, <1>5 DEF P!Branch

LEMMA ManyTestKeepsInv == ASSUME ParserInv, P!ManyTest PROVE ParserInv'
<1>1. /\ stack # << >> /\ P!Top.todo # << >> /\ P!Item.do = "many"
      /\ P!Ahead(0)' = P!Ahead(0)
  BY SameAhead DEF P!ManyTest, P!At
<1>2. OpensAnywhere(P!Item.fn)
  BY <1>1, TopIsSafe DEF Fits2, Safe
<1>3. PICK c, d : /\ c = <<P!Expect(P!Item.stop)>>
                  /\ d = <<P!Call(P!Item.fn), P!AfterElem(P!Item.stop, P!Item.sep, P!Item.fn)>>
  OBVIOUS
<1>4. \A u : Runs2(c, u) /\ Runs2(d, u)
  BY <1>2, <1>3, PlainItems, CallItems, ManyItems, LiftsAnywhere, CodeOfOne, CodeOfTwo
<1> QED
  BY <1>1, <1>3, <1>4, GoOnKeepsInv DEF P!ManyTest

LEMMA ManySeparatorKeepsInv == ASSUME ParserInv, P!ManySeparator PROVE ParserInv'
<1>1. stack # << >> /\ P!Top.todo # << >> /\ P!Item.do = "elem"
  BY DEF P!ManySeparator, P!At
<1>2. OpensAnywhere(P!Item.fn)
  BY <1>1, TopIsSafe DEF Fits2, Safe
<1>3. PICK c, d : /\ c = <<P!Expect(P!Item.stop)>>
                  /\ d = <<P!Many(P!Item.stop, P!Item.sep, P!Item.fn)>>
  OBVIOUS
<1>4. \A u : Runs2(c, u) /\ Runs2(d, u)
  BY <1>2, <1>3, PlainItems, ManyItems, LiftsAnywhere, CodeOfOne
<1> QED
  BY <1>1, <1>3, <1>4, GoOnKeepsInv DEF P!ManySeparator

LEMMA BinaryLoopKeepsInv == ASSUME ParserInv, P!BinaryLoop PROVE ParserInv'
<1>1. stack # << >> /\ P!Top.todo # << >>
  BY DEF P!BinaryLoop, P!At
<1>2. PICK p, n : p = P!Top.prec /\ n = P!NextPrecedence(p)
  OBVIOUS
<1>3. PICK c, d : /\ c = <<P!Pass("binary_expr", n), P!Operators>>
                  /\ d = <<P!CallAt("operand", P!RightPrecedence(p)), P!NodeFrom("binary"), P!Operators>>
  OBVIOUS
<1>4. \A prec : /\ Fits0Anywhere(P!Pass("binary_expr", prec))
                /\ Fits0Anywhere(P!CallAt("operand", prec))
  BY OpenCalls, CallItems
<1>5. \A u : Runs2(c, u) /\ Runs2(d, u)
  BY <1>3, <1>4, PlainItems, LiftsAnywhere, CodeOfTwo, CodeOfThree
<1> QED
  BY <1>1, <1>2, <1>3, <1>5, EmptyCode, GoOnKeepsInv DEF P!BinaryLoop, P!Stop

\* The rest of the code, with these values.
LEMMA ValuesReplaced ==
  ASSUME ParserInv, stack # << >>, P!Top.todo # << >>, NEW v,
         stack' = [stack EXCEPT ![Len(stack)].todo = Tail(@), ![Len(stack)].vals = v],
         P!Ahead(0)' = P!Ahead(0)
  PROVE  ParserInv'
<1>1. PICK s, r, t, n : s = stack /\ r = stack' /\ t = P!Ahead(0) /\ n = Len(s)
  OBVIOUS
<1>2. PICK g : g = [s[n] EXCEPT !.todo = Tail(@), !.vals = v]
  OBVIOUS
<1>3. CallsRun(s, t) /\ s # << >> /\ s[n] = P!Top
  BY <1>1 DEF ParserInv, P!Top
<1>4. IsCall(g) /\ g.todo = Tail(P!Top.todo)
  BY <1>2, <1>3, TopIsSafe DEF IsCall
<1>5. IsReplaced(r, s, n, g)
  <2>1. n \in DOMAIN s
    BY <1>1, <1>3, TopCall
  <2> QED
    BY <1>1, <1>2, <2>1 DEF IsReplaced
<1>6. CallsRun(r, t)
  BY <1>1, <1>3, <1>4, <1>5, TopIsSafe, TopReplaced DEF Anywhere
<1> QED
  BY <1>1, <1>6 DEF ParserInv

LEMMA AllocAstKeepsInv == ASSUME ParserInv, P!AllocAst PROVE ParserInv'
  BY ValuesReplaced, SameAhead DEF P!AllocAst, P!At

LEMMA ForgetValuesKeepsInv == ASSUME ParserInv, P!ForgetValues PROVE ParserInv'
  BY ValuesReplaced, SameAhead DEF P!ForgetValues, P!At

LEMMA CallFunctionKeepsInv == ASSUME ParserInv, P!CallFunction PROVE ParserInv'
<1>1. /\ stack # << >> /\ P!Top.todo # << >> /\ P!Item.do = "call"
      /\ P!Ahead(0)' = P!Ahead(0)
  BY SameAhead DEF P!CallFunction, P!At
<1>2. PICK s, r, t, n : s = stack /\ r = stack' /\ t = P!Ahead(0) /\ n = Len(s)
  OBVIOUS
<1>3. CallsRun(s, t) /\ s # << >> /\ s[n] = P!Top /\ n \in DOMAIN s
  <2>1. CallsRun(s, t) /\ s # << >> /\ s[n] = P!Top
    BY <1>1, <1>2 DEF ParserInv, P!Top
  <2> QED
    BY <1>2, <2>1, TopCall
<1>4. PICK g, f, q : /\ g = [s[n] EXCEPT !.todo = Tail(@)]
                     /\ f = P!Frame(P!Item.fn, P!Item.prec, << >>)
                     /\ q = [s EXCEPT ![n] = g]
  OBVIOUS
<1>5. IsCall(g) /\ Anywhere(g.todo)
  BY <1>1, <1>3, <1>4, TopIsSafe DEF IsCall
<1>6. IsCall(f) /\ Runs2(f.todo, t)
  <2>1. Opens(P!Item.fn, t)
    BY <1>1, <1>2, TopIsSafe DEF Fits2, Safe
  <2>2. IsCall(f) /\ f.todo = P!Body[P!Item.fn]
    BY <1>4 DEF P!Frame, IsCall
  <2> QED
    BY <2>1, <2>2, BodyRuns
<1>7. IsReplaced(q, s, n, g) /\ IsPushed(r, q, f)
  BY <1>2, <1>3, <1>4 DEF IsReplaced, IsPushed, P!CallFunction
<1>8. CallsRun(r, t)
  BY <1>2, <1>3, <1>5, <1>6, <1>7, CallPushed
<1> QED
  BY <1>1, <1>2, <1>8 DEF ParserInv

LEMMA PassValueKeepsInv == ASSUME ParserInv, P!PassValue PROVE ParserInv'
<1>1. /\ stack # << >> /\ P!Top.todo # << >> /\ P!Item.do = "pass"
      /\ P!Ahead(0)' = P!Ahead(0)
  BY SameAhead DEF P!PassValue, P!At
<1>2. PICK s, r, t, n : s = stack /\ r = stack' /\ t = P!Ahead(0) /\ n = Len(s)
  OBVIOUS
<1>3. CallsRun(s, t) /\ s # << >> /\ s[n] = P!Top /\ n \in DOMAIN s
  <2>1. CallsRun(s, t) /\ s # << >> /\ s[n] = P!Top
    BY <1>1, <1>2 DEF ParserInv, P!Top
  <2> QED
    BY <1>2, <2>1, TopCall
<1>4. PICK g, f, q : /\ g = [s[n] EXCEPT !.todo = Tail(@), !.vals = << >>]
                     /\ f = P!Frame(P!Item.fn, P!Item.prec, P!Top.vals)
                     /\ q = [s EXCEPT ![n] = g]
  OBVIOUS
<1>5. IsCall(g) /\ Anywhere(g.todo)
  BY <1>1, <1>3, <1>4, TopIsSafe DEF IsCall
<1>6. IsCall(f) /\ Runs2(f.todo, t)
  <2>1. Opens(P!Item.fn, t)
    BY <1>1, <1>2, TopIsSafe DEF Fits2, Safe
  <2>2. IsCall(f) /\ f.todo = P!Body[P!Item.fn]
    BY <1>4 DEF P!Frame, IsCall
  <2> QED
    BY <2>1, <2>2, BodyRuns
<1>7. IsReplaced(q, s, n, g) /\ IsPushed(r, q, f)
  BY <1>2, <1>3, <1>4 DEF IsReplaced, IsPushed, P!PassValue
<1>8. CallsRun(r, t)
  BY <1>2, <1>3, <1>5, <1>6, <1>7, CallPushed
<1> QED
  BY <1>1, <1>2, <1>8 DEF ParserInv

LEMMA ReturnKeepsInv == ASSUME ParserInv, P!Return PROVE ParserInv'
<1>1. stack # << >> /\ P!Ahead(0)' = P!Ahead(0)
  BY SameAhead DEF P!Return
<1>2. PICK s, r, t, n, q, v : /\ s = stack /\ r = stack' /\ t = P!Ahead(0) /\ n = Len(s)
                              /\ q = SubSeq(s, 1, n - 1) /\ v = P!Top.vals
  OBVIOUS
<1>3. CallsRun(q, t) /\ \A k \in 1 .. Len(q) : q[k] = s[k] /\ Anywhere(q[k].todo)
  <2>1. IsFront(q, s)
    BY <1>2 DEF IsFront
  <2>2. CallsRun(s, t) /\ s # << >>
    BY <1>1, <1>2 DEF ParserInv
  <2> QED
    BY <2>1, <2>2, CallPopped
<1>4. CASE q = << >>
  <2>1. r = q
    BY <1>2, <1>4 DEF P!Return
  <2> QED
    BY <1>1, <1>2, <1>3, <2>1 DEF ParserInv
<1>5. CASE q # << >>
  <2>1. PICK m : m = Len(q)
    OBVIOUS
  <2>2. m \in 1 .. m /\ m \in DOMAIN q /\ IsCall(q[m]) /\ Runs2(q[m].todo, t)
    BY <1>3, <1>5, <2>1, TopCall
  <2>3. PICK g : g = [q[m] EXCEPT !.vals = @ \o v]
    OBVIOUS
  <2>4. IsCall(g) /\ Runs2(g.todo, t)
    BY <2>2, <2>3 DEF IsCall
  <2>5. IsReplaced(r, q, m, g)
    BY <1>2, <1>5, <2>1, <2>2, <2>3 DEF P!Return, IsReplaced
  <2>6. CallsRun(r, t)
    BY <1>3, <1>5, <2>1, <2>4, <2>5, TopReplaced
  <2> QED
    BY <1>1, <1>2, <2>6 DEF ParserInv
<1> QED
  BY <1>4, <1>5

LEMMA OneElement ==
  ASSUME NEW x, NEW s, s = <<x>>
  PROVE  s \in Seq({x}) /\ Len(s) = 1 /\ s[1] = x
<1>1. s \in Seq({x})
  OBVIOUS
<1>2. Len(s) = 1 /\ s[1] = x
  OBVIOUS
<1> QED
  BY <1>1, <1>2

LEMMA InitInv == ASSUME P!Init PROVE ParserInv
<1>1. PICK f, t : f = P!Frame("parse", 0, << >>) /\ t = P!Ahead(0)
  OBVIOUS
<1>2. IsCall(f) /\ f.todo = P!Body["parse"]
  BY <1>1 DEF P!Frame, IsCall
<1>3. Opens("parse", t)
  BY OpenCalls DEF Opens, OpensAnywhere
<1>4. Runs2(f.todo, t)
  BY <1>2, <1>3, BodyRuns
<1>5. stack = <<f>>
  BY <1>1 DEF P!Init
<1>6. stack \in Seq({f}) /\ Len(stack) = 1 /\ stack[1] = f
  BY <1>5, OneElement
<1>7. CallsRun(stack, t)
  <2>1. \A k \in 1 .. 1 : k = 1
    OBVIOUS
  <2> QED
    BY <1>2, <1>4, <1>6, <2>1 DEF CallsRun, IsCode
<1> QED
  BY <1>1, <1>7 DEF ParserInv

-----------------------------------------------------------------------------
(* The theorem about the parser. *)

\* The assertion of eat_token, ctx->ahead[0].tag == tag, holds at each of its calls, on
\* every input: each caller has tested the token that the function takes for granted.
THEOREM LookAheadSuffices == P!Spec => []P!EatenTokensMatch
<1>1. P!Init => ParserInv
  BY InitInv
<1>2. ParserInv /\ [P!Next]_(P!vars) => ParserInv'
  <2> SUFFICES ASSUME ParserInv, [P!Next]_(P!vars) PROVE ParserInv'
    OBVIOUS
  <2>1. CASE UNCHANGED P!vars
    BY <2>1 DEF P!vars, ParserInv, P!Ahead
  <2>2. CASE P!Next
    BY <2>2, ReadTokenKeepsInv, ExpectTokenKeepsInv, LogAnErrorKeepsInv, BranchKeepsInv,
       ManyTestKeepsInv, ManySeparatorKeepsInv, BinaryLoopKeepsInv, AllocAstKeepsInv,
       ForgetValuesKeepsInv, CallFunctionKeepsInv, PassValueKeepsInv, ReturnKeepsInv DEF P!Next
  <2> QED
    BY <2>1, <2>2
<1>3. ParserInv => P!EatenTokensMatch
  BY TopIsSafe DEF P!EatenTokensMatch, P!At, Fits2, Safe
<1> QED
  BY <1>1, <1>2, <1>3, PTL DEF P!Spec

===============================================================================
