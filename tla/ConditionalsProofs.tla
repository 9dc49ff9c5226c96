------------------------- MODULE ConditionalsProofs -------------------------
(***************************************************************************)
(* Proofs about Conditionals, for every set of conditions and every        *)
(* nesting bound: the inductive invariant IInv, and, when no condition     *)
(* mentions a macro, that the handlers implement CondSpec.                 *)
(***************************************************************************)
EXTENDS Conditionals, SeqLemmas, TLAPS

USE ConditionsAssumption, NestingAssumption

-----------------------------------------------------------------------------
(* The handlers, reduced to what they do to the conditional state. *)

\* Every condition a line can carry is a record of three truth values.
LEMMA LineConditions ==
  /\ \A c \in Conditions : c \in ConditionRecords
  /\ \A v \in BOOLEAN : Plain(v) \in ConditionRecords
  BY DEF ConditionRecords, Plain

-----------------------------------------------------------------------------
(* The inductive invariant. *)

\* The initial state satisfies the invariant.
LEMMA InitIInv == Init => IInv
  BY DEF Init, IInv, TypeOK, SkippingHasACause, CountedOnlyWhileSkipping,
         OuterBranchesSelected, LastCond, Lines, Kinds, Reports, Cond

\* #if, #ifdef and #ifndef preserve the invariant.
LEMMA IfIInv ==
  ASSUME IInv, NEW c \in ConditionRecords, IfLine(c)
  PROVE  IInv'
<1> USE DEF IInv, TypeOK, SkippingHasACause, CountedOnlyWhileSkipping,
            OuterBranchesSelected, LastCond, IfLine, Reads, Lines, Kinds, Reports,
            ConditionRecords
<1>1. CASE ~isActive /\ inactiveDepth' = inactiveDepth + 1 /\ UNCHANGED <<isActive, conds>>
  BY <1>1
<1>2. CASE /\ isActive
           /\ ~c.endsInMacro
           /\ conds' = Append(conds, [wasActive |-> c.value, wasLastElse |-> FALSE])
           /\ isActive' = c.value
           /\ UNCHANGED inactiveDepth
  BY <1>2 DEF Cond
<1>3. CASE isActive /\ c.endsInMacro /\ UNCHANGED <<isActive, conds, inactiveDepth>>
  BY <1>3
<1>4. QED
  BY <1>1, <1>2, <1>3 DEF EnterIf

\* #elif, #elifdef, #elifndef and #else preserve the invariant.
LEMMA BranchIInv ==
  ASSUME IInv, NEW c \in ConditionRecords, NEW isElse \in BOOLEAN, BranchLine(c, isElse)
  PROVE  IInv'
<1> USE DEF IInv, TypeOK, SkippingHasACause, CountedOnlyWhileSkipping,
            OuterBranchesSelected, LastCond, BranchLine, Reads, Lines, Kinds, Reports,
            ConditionRecords
<1>1. CASE UNCHANGED <<isActive, conds>> /\ report' \in Reports
  BY <1>1
<1>2. CASE conds # <<>> /\ inactiveDepth = 0 /\ EnterElif(c, isElse)
  <2>1. BranchSelected(c) \in BOOLEAN
    BY DEF BranchSelected, Cond
  <2>2. conds' = [conds EXCEPT ![Len(conds)] =
                    [wasActive   |-> LastCond.wasActive \/ BranchSelected(c),
                     wasLastElse |-> isElse]]
    BY <1>2 DEF EnterElif, UpdateLastCond
  <2>3. isActive' = (IF isActive /\ c.endsInMacro THEN isActive ELSE BranchSelected(c))
    BY <1>2 DEF EnterElif, UpdateLastCond
  <2>4. report' \in Reports /\ UNCHANGED inactiveDepth
    BY <1>2 DEF EnterElif
  <2>5. conds' \in Seq(Cond) /\ Len(conds') = Len(conds) /\ conds' # <<>>
    BY <1>2, <2>1, <2>2 DEF Cond
  <2>6. /\ \A i \in 1 .. Len(conds) - 1 : conds'[i] = conds[i]
        /\ conds'[Len(conds)].wasActive = (LastCond.wasActive \/ BranchSelected(c))
    BY <1>2, <2>2
  <2>7. isActive' => conds'[Len(conds)].wasActive
    BY <1>2, <2>3, <2>6
  <2>8. QED
    BY <1>2, <2>1, <2>3, <2>4, <2>5, <2>6, <2>7
<1>3. QED
  BY <1>1, <1>2 DEF EnterElif

\* #endif preserves the invariant.
LEMMA EndifIInv == IInv /\ Endif => IInv'
<1> SUFFICES ASSUME IInv, Endif PROVE IInv'
  OBVIOUS
<1> USE DEF IInv, TypeOK, SkippingHasACause, CountedOnlyWhileSkipping,
            OuterBranchesSelected, LastCond, Endif, Reads, Lines, Kinds, Reports
<1>1. CASE inactiveDepth > 0
  BY <1>1
<1>2. CASE inactiveDepth = 0 /\ conds = <<>>
  BY <1>2
<1>3. CASE inactiveDepth = 0 /\ conds # <<>>
  <2>1. /\ conds' \in Seq(Cond)
        /\ Len(conds') = Len(conds) - 1
        /\ \A i \in 1 .. Len(conds) - 1 : conds'[i] = conds[i]
    BY <1>3, FrontOfSeq
  <2>2. isActive' = TRUE /\ inactiveDepth' = inactiveDepth /\ report' = "none"
    BY <1>3
  <2>3. OuterBranchesSelected'
    BY <1>3, <2>1, <2>2
  <2>4. TypeOK'
    BY <2>1, <2>2
  <2>5. QED
    BY <1>3, <2>2, <2>3, <2>4
<1>4. QED
  BY <1>1, <1>2, <1>3

\* Every step preserves the invariant.
LEMMA NextIInv == IInv /\ [Next]_vars => IInv'
<1> SUFFICES ASSUME IInv, [Next]_vars PROVE IInv'
  OBVIOUS
<1> USE DEF IInv, TypeOK, SkippingHasACause, CountedOnlyWhileSkipping,
            OuterBranchesSelected, LastCond, Reads, Lines, Kinds, Reports
<1>1. CASE OpenFile
  BY <1>1 DEF OpenFile, Cond
<1>2. CASE If \/ Ifdef
  BY <1>2, IfIInv, LineConditions DEF If, Ifdef
<1>3. CASE Elif \/ Elifdef \/ Else
  BY <1>3, BranchIInv, LineConditions DEF Elif, Elifdef, Else
<1>4. CASE Endif
  BY <1>4, EndifIInv
<1>5. CASE Text
  BY <1>5 DEF Text
<1>6. CASE EndOfFile
  BY <1>6 DEF EndOfFile
<1>7. CASE UNCHANGED vars
  BY <1>7 DEF vars
<1>8. QED
  BY <1>1, <1>2, <1>3, <1>4, <1>5, <1>6, <1>7 DEF Next

\* The flag, the stack and the counter of a file always agree: whatever its
\* lines and conditions are, macros included.
THEOREM Invariance == Spec => []IInv
  BY InitIInv, NextIInv, PTL DEF Spec

\* A corollary for the part of the invariant that a reader of #elif relies on:
\* no branch is emitted after the selected one.
THEOREM OuterBranches == Spec => []OuterBranchesSelected
<1>1. IInv => OuterBranchesSelected
  BY DEF IInv
<1>2. QED
  BY Invariance, <1>1, PTL

\* What a skipped group contains has no effect on the state around it.
THEOREM SkippedOpaque == Spec => SkippedGroupsAreOpaque
<1> DEFINE Opaque == inactiveDepth > 0 /\ inactiveDepth' > 0 => UNCHANGED <<isActive, conds>>
<1>1. IInv /\ [Next]_vars => [Opaque]_vars
  <2> SUFFICES ASSUME IInv, Next, inactiveDepth > 0, inactiveDepth' > 0
               PROVE  UNCHANGED <<isActive, conds>>
    OBVIOUS
  <2> USE DEF IInv, TypeOK, CountedOnlyWhileSkipping
  <2>1. CASE OpenFile
    BY <2>1 DEF OpenFile
  <2>2. CASE If \/ Ifdef
    BY <2>2 DEF If, Ifdef, IfLine, EnterIf
  <2>3. CASE Elif \/ Elifdef \/ Else
    <3>1. ASSUME NEW c, NEW isElse, BranchLine(c, isElse)
          PROVE  UNCHANGED <<isActive, conds>>
      BY <3>1 DEF BranchLine, EnterElif
    <3>2. QED
      BY <2>3, <3>1 DEF Elif, Elifdef, Else
  <2>4. CASE Endif
    BY <2>4 DEF Endif
  <2>5. CASE Text \/ EndOfFile
    BY <2>5 DEF Text, EndOfFile
  <2>6. QED
    BY <2>1, <2>2, <2>3, <2>4, <2>5 DEF Next
<1>2. QED
  BY Invariance, <1>1, PTL DEF Spec, SkippedGroupsAreOpaque

-----------------------------------------------------------------------------
(* Refinement. *)

\* No condition mentions a macro: each reads the same with and without
\* expansion and ends in a token of the file.
MacroFree == \A c \in Conditions : c.raw = c.value /\ ~c.endsInMacro

\* The groups of the file emit exactly when the file's flag is set.
LEMMA EmittingIsActive == IInv => (Abstract!Emitting <=> isActive)
<1> SUFFICES ASSUME IInv PROVE Abstract!Emitting <=> isActive
  OBVIOUS
<1> USE DEF IInv, TypeOK, SkippingHasACause, CountedOnlyWhileSkipping
<1>1. DOMAIN groups = 1 .. Nesting /\ \A i \in 1 .. Nesting : groups[i].state = GroupState(i)
  BY DEF groups
<1>2. Len(conds) \in Nat /\ (conds # <<>> => Len(conds) > 0)
  BY EmptySeq, LenProperties
<1>3. CASE isActive
  <2>1. Nesting = Len(conds)
    BY <1>2, <1>3 DEF Nesting
  <2>2. \A i \in 1 .. Nesting : GroupState(i) = "selected"
    BY <1>2, <1>3, <2>1 DEF GroupState
  <2>3. QED
    BY <1>1, <1>3, <2>2 DEF Abstract!Emitting
<1>4. CASE ~isActive
  <2>1. Len(conds) \in 1 .. Nesting
    BY <1>2, <1>4 DEF Nesting
  <2>2. GroupState(Len(conds)) # "selected"
    BY <1>2, <1>4 DEF GroupState, Cond
  <2>3. QED
    BY <1>1, <1>4, <2>1, <2>2 DEF Abstract!Emitting
<1>5. QED
  BY <1>3, <1>4 DEF IInv, TypeOK

\* The groups of the file are a sequence, one group for each open #if.
GroupsOfFile ==
  /\ groups \in Seq(Abstract!Groups)
  /\ Len(groups) = Nesting
  /\ Nesting \in Nat
  /\ \A i \in 1 .. Nesting :
       groups[i] = [state     |-> GroupState(i),
                    afterElse |-> i <= Len(conds) /\ conds[i].wasLastElse]

LEMMA GroupsSequence == IInv => GroupsOfFile
<1> SUFFICES ASSUME IInv PROVE GroupsOfFile
  OBVIOUS
<1> USE DEF IInv, TypeOK
<1>1. Len(conds) \in Nat /\ Nesting \in Nat /\ Len(conds) <= Nesting
  BY LenProperties DEF Nesting
<1>2. \A i \in 1 .. Nesting : GroupState(i) \in Abstract!GroupStates
  BY <1>1 DEF GroupState, Abstract!GroupStates, Cond
<1>3. \A i \in 1 .. Nesting : (i <= Len(conds) /\ conds[i].wasLastElse) \in BOOLEAN
  OBVIOUS
<1>4. groups \in [1 .. Nesting -> Abstract!Groups]
  BY <1>2, <1>3 DEF groups, Abstract!Groups
<1>5. QED
  BY <1>1, <1>4 DEF groups, GroupsOfFile

LEMMA GroupsSequencePrime == IInv' => GroupsOfFile'
  BY GroupsSequence, PTL

\* The condition that #elif, #else and #endif look at.
LEMMA LastCondType ==
  ASSUME IInv, conds # <<>>
  PROVE  /\ Len(conds) \in 1 .. Len(conds)
         /\ LastCond \in Cond
         /\ LastCond.wasActive \in BOOLEAN
         /\ LastCond.wasLastElse \in BOOLEAN
<1>1. conds \in Seq(Cond)
  BY DEF IInv, TypeOK
<1>2. Len(conds) \in 1 .. Len(conds)
  BY <1>1, EmptySeq
<1>3. LastCond \in Cond
  BY <1>1, <1>2, ElementOfSeq DEF LastCond
<1>4. QED
  BY <1>2, <1>3 DEF Cond

\* The group of an #elif, #else or #endif: none when no condition is stacked,
\* dead while skipped groups are counted, else that of the last condition.
LEMMA InnermostGroup ==
  IInv => /\ conds = <<>> => groups = <<>>
          /\ conds # <<>> => groups # <<>> /\ Nesting \in 1 .. Nesting
          /\ inactiveDepth > 0 =>
               groups[Nesting] = [state |-> "dead", afterElse |-> FALSE]
          /\ inactiveDepth = 0 => Nesting = Len(conds)
          /\ conds # <<>> /\ inactiveDepth = 0 =>
               groups[Nesting] = [state     |-> IF isActive THEN "selected"
                                                ELSE IF LastCond.wasActive THEN "done"
                                                ELSE "waiting",
                                  afterElse |-> LastCond.wasLastElse]
<1> SUFFICES ASSUME IInv
             PROVE  /\ conds = <<>> => groups = <<>>
                    /\ conds # <<>> => groups # <<>> /\ Nesting \in 1 .. Nesting
                    /\ inactiveDepth > 0 =>
                         groups[Nesting] = [state |-> "dead", afterElse |-> FALSE]
                    /\ inactiveDepth = 0 => Nesting = Len(conds)
                    /\ conds # <<>> /\ inactiveDepth = 0 =>
                         groups[Nesting] = [state     |-> IF isActive THEN "selected"
                                                          ELSE IF LastCond.wasActive THEN "done"
                                                          ELSE "waiting",
                                            afterElse |-> LastCond.wasLastElse]
  OBVIOUS
<1>1. GroupsOfFile
  BY GroupsSequence
<1>2. /\ Len(conds) \in Nat /\ inactiveDepth \in Nat
      /\ conds # <<>> => Len(conds) > 0
      /\ conds = <<>> => Len(conds) = 0
  BY EmptySeq, LenProperties DEF IInv, TypeOK
<1>3. conds = <<>> => inactiveDepth = 0
  BY <1>2 DEF IInv, SkippingHasACause, CountedOnlyWhileSkipping
<1>4. conds = <<>> => groups = <<>>
  BY <1>1, <1>2, <1>3, EmptySeq DEF GroupsOfFile, Nesting
<1>12. groups \in Seq(Abstract!Groups) /\ Len(groups) = Nesting /\ Nesting \in Nat
  BY <1>1 DEF GroupsOfFile
<1>5. conds # <<>> => Len(groups) > 0 /\ Nesting \in 1 .. Nesting
  <2>1. conds # <<>> => Nesting > 0
    BY <1>2 DEF Nesting
  <2>2. QED
    BY <1>12, <2>1
<1>6. inactiveDepth > 0 => Nesting \in 1 .. Nesting /\ Nesting > Len(conds)
  BY <1>2 DEF Nesting
<1>7. inactiveDepth > 0 => groups[Nesting] = [state |-> "dead", afterElse |-> FALSE]
  <2> SUFFICES ASSUME inactiveDepth > 0
               PROVE  groups[Nesting] = [state |-> "dead", afterElse |-> FALSE]
    OBVIOUS
  <2>1. Nesting \in 1 .. Nesting /\ Nesting > Len(conds)
    BY <1>6
  <2>2. GroupState(Nesting) = "dead"
    BY <2>1 DEF GroupState
  <2>3. (Nesting <= Len(conds) /\ conds[Nesting].wasLastElse) = FALSE
    BY <1>2, <1>12, <2>1
  <2>4. groups[Nesting] = [state     |-> GroupState(Nesting),
                           afterElse |-> Nesting <= Len(conds) /\ conds[Nesting].wasLastElse]
    BY <1>1, <2>1 DEF GroupsOfFile
  <2>5. QED
    BY <2>2, <2>3, <2>4
<1>8. inactiveDepth = 0 => Nesting = Len(conds)
  BY <1>2 DEF Nesting
<1>9. ASSUME conds # <<>>, inactiveDepth = 0
      PROVE  groups[Nesting] = [state     |-> IF isActive THEN "selected"
                                              ELSE IF LastCond.wasActive THEN "done"
                                              ELSE "waiting",
                                afterElse |-> LastCond.wasLastElse]
  <2>1. Nesting = Len(conds) /\ Nesting \in 1 .. Nesting
    BY <1>5, <1>8, <1>9
  <2>2. groups[Nesting] = [state     |-> GroupState(Nesting),
                           afterElse |-> Nesting <= Len(conds) /\ conds[Nesting].wasLastElse]
    BY <1>1, <2>1 DEF GroupsOfFile
  <2>3. GroupState(Nesting) = IF isActive THEN "selected"
                              ELSE IF LastCond.wasActive THEN "done" ELSE "waiting"
    <3>1. conds[Nesting] = LastCond /\ Len(conds) = Nesting /\ Nesting \in Nat
      BY <1>12, <2>1 DEF LastCond
    <3>2. isActive \in BOOLEAN /\ conds[Nesting].wasActive \in BOOLEAN
      BY <1>9, <3>1, LastCondType DEF IInv, TypeOK
    <3>3. CASE isActive
      BY <3>1, <3>3 DEF GroupState
    <3>4. CASE ~isActive /\ conds[Nesting].wasActive
      BY <3>1, <3>4 DEF GroupState
    <3>5. CASE ~isActive /\ ~conds[Nesting].wasActive
      BY <3>1, <3>5 DEF GroupState
    <3>6. QED
      BY <3>2, <3>3, <3>4, <3>5
  <2>4. LastCond.wasLastElse \in BOOLEAN
    BY <1>9, LastCondType
  <2>5. (Nesting <= Len(conds) /\ conds[Nesting].wasLastElse) = LastCond.wasLastElse
    BY <1>2, <2>1, <2>4 DEF LastCond
  <2>6. QED
    BY <2>2, <2>3, <2>5
<1>10. conds # <<>> => groups # <<>>
  BY <1>5, EmptySeq
<1>11. QED
  BY <1>4, <1>5, <1>7, <1>8, <1>9, <1>10

LEMMA InnermostGroupPrime ==
  IInv' => /\ (inactiveDepth = 0 => Nesting = Len(conds))'
           /\ (conds # <<>> /\ inactiveDepth = 0 =>
                 groups[Nesting] = [state     |-> IF isActive THEN "selected"
                                                  ELSE IF LastCond.wasActive THEN "done"
                                                  ELSE "waiting",
                                    afterElse |-> LastCond.wasLastElse])'
  BY InnermostGroup, PTL

\* An #if opens one more group: dead in skipped text, else as its condition says.
LEMMA IfRefines ==
  ASSUME IInv, IInv', NEW c \in ConditionRecords, ~c.endsInMacro, IfLine(c)
  PROVE  Abstract!If(c.value)
<1> USE DEF IInv, TypeOK
<1> DEFINE g == [state     |-> IF ~Abstract!Emitting THEN "dead"
                               ELSE IF c.value THEN "selected" ELSE "waiting",
                 afterElse |-> FALSE]
<1>1. GroupsOfFile /\ GroupsOfFile' /\ (Abstract!Emitting <=> isActive)
  BY GroupsSequence, GroupsSequencePrime, EmittingIsActive
<1>2. Len(conds) \in Nat /\ Nesting' = Nesting + 1
  BY LenProperties DEF IfLine, EnterIf, Nesting
<1>8. Nesting \in Nat
  BY <1>1 DEF GroupsOfFile
<1>3. g \in Abstract!Groups
  BY DEF Abstract!Groups, Abstract!GroupStates
<1>9. /\ g = [state |-> g.state, afterElse |-> FALSE]
      /\ g.state = IF ~isActive THEN "dead" ELSE IF c.value THEN "selected" ELSE "waiting"
  BY <1>1
<1> HIDE DEF g
<1>4. Append(groups, g) \in Seq(Abstract!Groups) /\ Len(Append(groups, g)) = Nesting + 1
  BY <1>1, <1>3, AppendProperties DEF GroupsOfFile
<1>5. \A i \in 1 .. Nesting + 1 : groups'[i] = Append(groups, g)[i]
  <2> SUFFICES ASSUME NEW i \in 1 .. Nesting + 1 PROVE groups'[i] = Append(groups, g)[i]
    OBVIOUS
  <2>1. groups'[i] = [state     |-> GroupState(i)',
                      afterElse |-> i <= Len(conds') /\ conds'[i].wasLastElse]
    BY <1>1, <1>2 DEF GroupsOfFile
  <2>2. CASE i \in 1 .. Nesting
    <3>1. Append(groups, g)[i] = groups[i]
      BY <1>1, <1>3, <2>2, AppendProperties DEF GroupsOfFile
    <3>2. groups[i] = [state     |-> GroupState(i),
                       afterElse |-> i <= Len(conds) /\ conds[i].wasLastElse]
      BY <1>1, <2>2 DEF GroupsOfFile
    <3>3. GroupState(i)' = GroupState(i)
      BY <1>2, <2>2, SMTT(20) DEF IfLine, EnterIf, GroupState, Nesting, CountedOnlyWhileSkipping,
                        OuterBranchesSelected, Cond
    <3>4. (i <= Len(conds') /\ conds'[i].wasLastElse) = (i <= Len(conds) /\ conds[i].wasLastElse)
      <4>1. i <= Len(conds) => i <= Len(conds') /\ conds'[i] = conds[i]
        BY <1>2 DEF IfLine, EnterIf
      <4>2. i > Len(conds) => conds' = conds
        BY <1>2, <2>2 DEF IfLine, EnterIf, Nesting, CountedOnlyWhileSkipping
      <4>3. CASE i <= Len(conds)
        BY <4>1, <4>3
      <4>4. CASE i > Len(conds)
        BY <4>2, <4>4
      <4>5. QED
        BY <1>2, <1>8, <4>3, <4>4
    <3>5. QED
      BY <2>1, <3>1, <3>2, <3>3, <3>4
  <2>3. CASE i = Nesting + 1
    <3>1. Append(groups, g)[i] = g
      BY <1>1, <1>3, <2>3, AppendProperties DEF GroupsOfFile
    <3>2. GroupState(i)' = g.state
      BY <1>2, <1>9, <2>3 DEF IfLine, EnterIf, GroupState, Nesting, CountedOnlyWhileSkipping,
                        Cond, ConditionRecords
    <3>3. (i <= Len(conds') /\ conds'[i].wasLastElse) = FALSE
      BY <1>2, <2>3 DEF IfLine, EnterIf, Nesting, CountedOnlyWhileSkipping, Cond
    <3>4. QED
      BY <1>9, <2>1, <3>1, <3>2, <3>3
  <2>4. i \in 1 .. Nesting \/ i = Nesting + 1
    BY <1>8
  <2>5. QED
    BY <2>2, <2>3, <2>4, Zenon
<1>6. groups' = Append(groups, g)
  <2>1. groups' \in Seq(Abstract!Groups) /\ Len(groups') = Nesting + 1
    BY <1>1, <1>2 DEF GroupsOfFile, Abstract!Groups, Abstract!GroupStates
  <2>2. QED
    BY <1>4, <1>5, <2>1, SeqEqual
<1>7. QED
  BY <1>1, <1>6 DEF g, IfLine, Abstract!If, Reads, Abstract!Reads, GroupsOfFile

\* What #elif and #else do to the last condition while no group is counted,
\* one case for each state of its group.
LEMMA BranchCases ==
  ASSUME IInv, NEW c \in ConditionRecords, c.raw = c.value, ~c.endsInMacro,
         NEW isElse \in BOOLEAN, conds # <<>>, inactiveDepth = 0, EnterElif(c, isElse)
  PROVE  \/ /\ isActive \/ LastCond.wasActive
            /\ isActive' = FALSE
            /\ conds' = [conds EXCEPT ![Len(conds)] = [wasActive |-> TRUE, wasLastElse |-> isElse]]
         \/ /\ ~isActive /\ ~LastCond.wasActive
            /\ isActive' = c.value
            /\ conds' = [conds EXCEPT ![Len(conds)] = [wasActive |-> c.value, wasLastElse |-> isElse]]
<1>1. /\ isActive \in BOOLEAN
      /\ LastCond.wasActive \in BOOLEAN
      /\ c.value \in BOOLEAN
      /\ isActive => LastCond.wasActive
  BY LastCondType DEF IInv, TypeOK, OuterBranchesSelected, ConditionRecords
<1>2. /\ conds' = [conds EXCEPT ![Len(conds)] =
                     [wasActive   |-> LastCond.wasActive \/ BranchSelected(c),
                      wasLastElse |-> isElse]]
      /\ isActive' = BranchSelected(c)
  BY DEF EnterElif, UpdateLastCond
<1>3. CASE LastCond.wasActive
  <2>1. BranchSelected(c) = FALSE /\ (LastCond.wasActive \/ BranchSelected(c)) = TRUE
    BY <1>3 DEF BranchSelected
  <2>2. QED
    BY <1>2, <1>3, <2>1
<1>4. CASE ~LastCond.wasActive
  <2>1. ~isActive
    BY <1>1, <1>4
  <2>2. CASE c.value
    <3>1. BranchSelected(c) = TRUE /\ (LastCond.wasActive \/ BranchSelected(c)) = TRUE
      BY <1>4, <2>1, <2>2 DEF BranchSelected
    <3>2. c.value = TRUE
      BY <1>1, <2>2
    <3>3. QED
      BY <1>2, <1>4, <2>1, <3>1, <3>2
  <2>3. CASE ~c.value
    <3>1. BranchSelected(c) = FALSE /\ (LastCond.wasActive \/ BranchSelected(c)) = FALSE
      BY <1>4, <2>1, <2>3 DEF BranchSelected
    <3>2. c.value = FALSE
      BY <1>1, <2>3
    <3>3. QED
      BY <1>2, <1>4, <2>1, <3>1, <3>2
  <2>4. QED
    BY <1>1, <2>2, <2>3
<1>5. QED
  BY <1>1, <1>3, <1>4

\* A further branch advances the innermost group and no other.
LEMMA BranchRefines ==
  ASSUME IInv, IInv', NEW c \in ConditionRecords, c.raw = c.value, ~c.endsInMacro,
         NEW isElse \in BOOLEAN, BranchLine(c, isElse)
  PROVE  Abstract!Branch(c.value, isElse)
<1>1. GroupsOfFile /\ GroupsOfFile'
  BY GroupsSequence, GroupsSequencePrime
<1>2. CASE conds = <<>> /\ report' = "withoutIf" /\ UNCHANGED <<isActive, conds>>
  <2>1. groups = <<>>
    BY <1>2, InnermostGroup
  <2>2. groups' = groups
    BY <1>2 DEF BranchLine, groups, Nesting, GroupState
  <2>3. QED
    BY <1>2, <2>1, <2>2 DEF Abstract!Branch
<1>3. CASE conds # <<>> /\ inactiveDepth > 0 /\ report' = "none" /\ UNCHANGED <<isActive, conds>>
  <2>1. /\ groups # <<>>
        /\ Nesting \in 1 .. Nesting
        /\ groups[Nesting] = [state |-> "dead", afterElse |-> FALSE]
    BY <1>3, InnermostGroup
  <2>2. groups' = groups
    BY <1>3 DEF BranchLine, groups, Nesting, GroupState
  <2>3. [groups EXCEPT ![Nesting] = [state |-> "dead", afterElse |-> FALSE]] = groups
    BY <1>1, <2>1 DEF GroupsOfFile
  <2>4. Len(groups) = Nesting
    BY <1>1 DEF GroupsOfFile
  <2>5. Abstract!Advance("dead", c.value) = "dead"
    BY DEF Abstract!Advance
  <2> DEFINE g == groups[Len(groups)]
  <2>6. g.state = "dead" /\ ~g.afterElse
    BY <2>1, <2>4
  <2>7. [state     |-> Abstract!Advance(g.state, c.value),
         afterElse |-> g.state # "dead" /\ isElse] = [state |-> "dead", afterElse |-> FALSE]
    BY <2>5, <2>6
  <2>8. groups' = [groups EXCEPT ![Len(groups)] =
                     [state     |-> Abstract!Advance(g.state, c.value),
                      afterElse |-> g.state # "dead" /\ isElse]]
    BY <2>2, <2>3, <2>4, <2>7
  <2>9. report' = IF g.afterElse THEN "afterElse" ELSE "none"
    BY <1>3, <2>6
  <2>10. QED
    BY <2>1, <2>8, <2>9 DEF Abstract!Branch
<1>4. CASE conds # <<>> /\ inactiveDepth = 0 /\ EnterElif(c, isElse)
  <2> DEFINE new == [state     |-> Abstract!Advance(groups[Nesting].state, c.value),
                     afterElse |-> isElse]
  <2>1. /\ groups # <<>>
        /\ Nesting \in 1 .. Nesting
        /\ Nesting = Len(conds)
        /\ groups[Nesting] = [state     |-> IF isActive THEN "selected"
                                            ELSE IF LastCond.wasActive THEN "done" ELSE "waiting",
                              afterElse |-> LastCond.wasLastElse]
    BY <1>4, InnermostGroup
  <2>2. Len(groups) = Nesting /\ Nesting \in Nat /\ inactiveDepth' = 0
    BY <1>1, <1>4 DEF GroupsOfFile, BranchLine
  <2>3. PICK b \in BOOLEAN : conds' = [conds EXCEPT ![Nesting] = [wasActive |-> b, wasLastElse |-> isElse]]
    BY <1>4, <2>1, BranchCases DEF ConditionRecords
  <2>4. /\ conds' # <<>> /\ Len(conds') = Len(conds) /\ Nesting' = Nesting
        /\ LastCond' = [wasActive |-> b, wasLastElse |-> isElse]
        /\ \A i \in 1 .. Nesting - 1 : conds'[i] = conds[i]
    <3>1. conds \in Seq(Cond) /\ [wasActive |-> b, wasLastElse |-> isElse] \in Cond
      BY DEF IInv, TypeOK, Cond
    <3>2. /\ conds' \in Seq(Cond) /\ Len(conds') = Len(conds)
          /\ \A i \in 1 .. Len(conds) :
               conds'[i] = IF i = Nesting THEN [wasActive |-> b, wasLastElse |-> isElse] ELSE conds[i]
      BY <2>1, <2>3, <3>1, ExceptSeq
    <3>3. Nesting' = Nesting
      BY <1>4, <2>2, <3>2 DEF Nesting
    <3>4. conds' # <<>>
      BY <2>1, <2>2, <3>2, EmptySeq
    <3>5. QED
      BY <2>1, <2>2, <3>2, <3>3, <3>4 DEF LastCond
  <2>5. groups'[Nesting] = [state     |-> IF isActive' THEN "selected"
                                          ELSE IF b THEN "done" ELSE "waiting",
                            afterElse |-> isElse]
    BY <2>2, <2>4, InnermostGroupPrime
  <2>6. groups'[Nesting] = new
    <3>1. groups[Nesting].state = IF isActive THEN "selected"
                                  ELSE IF LastCond.wasActive THEN "done" ELSE "waiting"
      BY <2>1
    <3>2. \A x \in BOOLEAN :
            conds' = [conds EXCEPT ![Len(conds)] = [wasActive |-> x, wasLastElse |-> isElse]] => b = x
      <4> SUFFICES ASSUME NEW x \in BOOLEAN,
                          conds' = [conds EXCEPT ![Len(conds)] = [wasActive |-> x, wasLastElse |-> isElse]]
                   PROVE  b = x
        OBVIOUS
      <4>1. conds'[Nesting] = [wasActive |-> x, wasLastElse |-> isElse]
        BY <2>1, LenProperties DEF IInv, TypeOK
      <4>2. conds'[Nesting] = [wasActive |-> b, wasLastElse |-> isElse]
        BY <2>1, <2>4 DEF LastCond
      <4>3. QED
        BY <4>1, <4>2
    <3>3. CASE /\ isActive \/ LastCond.wasActive
               /\ isActive' = FALSE
               /\ conds' = [conds EXCEPT ![Len(conds)] = [wasActive |-> TRUE, wasLastElse |-> isElse]]
      <4>1. b = TRUE
        BY <3>2, <3>3
      <4>2. Abstract!Advance(groups[Nesting].state, c.value) = "done"
        BY <3>1, <3>3 DEF Abstract!Advance
      <4>3. QED
        BY <2>5, <3>3, <4>1, <4>2
    <3>4. CASE /\ ~isActive /\ ~LastCond.wasActive
               /\ isActive' = c.value
               /\ conds' = [conds EXCEPT ![Len(conds)] = [wasActive |-> c.value, wasLastElse |-> isElse]]
      <4>1. b = c.value /\ c.value \in BOOLEAN
        BY <3>2, <3>4 DEF ConditionRecords
      <4>2. Abstract!Advance(groups[Nesting].state, c.value) = IF c.value THEN "selected" ELSE "waiting"
        BY <3>1, <3>4 DEF Abstract!Advance
      <4>3. QED
        BY <2>5, <3>4, <4>1, <4>2
    <3>5. QED
      BY <1>4, <3>3, <3>4, BranchCases
  <2>7. \A i \in 1 .. Nesting - 1 : groups'[i] = groups[i]
    <3> SUFFICES ASSUME NEW i \in 1 .. Nesting - 1 PROVE groups'[i] = groups[i]
      OBVIOUS
    <3>1. i \in 1 .. Nesting /\ i < Len(conds) /\ i < Len(conds') /\ conds'[i] = conds[i]
      BY <2>1, <2>2, <2>4
    <3>2. GroupState(i) = "selected" /\ GroupState(i)' = "selected"
      BY <2>1, <2>2, <3>1 DEF GroupState
    <3>3. groups[i] = [state     |-> GroupState(i),
                       afterElse |-> i <= Len(conds) /\ conds[i].wasLastElse]
      BY <1>1, <3>1 DEF GroupsOfFile
    <3>4. groups'[i] = [state     |-> GroupState(i)',
                        afterElse |-> i <= Len(conds') /\ conds'[i].wasLastElse]
      BY <1>1, <2>4, <3>1 DEF GroupsOfFile
    <3>5. i <= Len(conds) /\ i <= Len(conds')
      BY <2>1, <2>2, <2>4, <3>1
    <3>6. QED
      BY <3>1, <3>2, <3>3, <3>4, <3>5
  <2>8. new \in Abstract!Groups
    BY <2>1 DEF Abstract!Groups, Abstract!GroupStates, Abstract!Advance
  <2>9. groups' = [groups EXCEPT ![Nesting] = new]
    <3> HIDE DEF new
    <3>1. /\ [groups EXCEPT ![Nesting] = new] \in Seq(Abstract!Groups)
          /\ Len([groups EXCEPT ![Nesting] = new]) = Nesting
          /\ \A i \in 1 .. Nesting :
               [groups EXCEPT ![Nesting] = new][i] = IF i = Nesting THEN new ELSE groups[i]
      BY <1>1, <2>1, <2>2, <2>8, ExceptSeq DEF GroupsOfFile
    <3>2. groups' \in Seq(Abstract!Groups) /\ Len(groups') = Nesting
      BY <1>1, <2>4 DEF GroupsOfFile, Abstract!Groups, Abstract!GroupStates
    <3>3. \A i \in 1 .. Nesting : groups'[i] = [groups EXCEPT ![Nesting] = new][i]
      BY <2>2, <2>6, <2>7, <3>1
    <3>4. QED
      BY <3>1, <3>2, <3>3, SeqEqual
  <2>10. report' = (IF LastCond.wasLastElse THEN "afterElse" ELSE "none")
    BY <1>4 DEF EnterElif
  <2> DEFINE g == groups[Len(groups)]
  <2>11. g.state # "dead" /\ g.afterElse = LastCond.wasLastElse
    BY <2>1, <2>2
  <2>12. new = [state     |-> Abstract!Advance(g.state, c.value),
                afterElse |-> g.state # "dead" /\ isElse]
    BY <2>2, <2>11
  <2>13. QED
    BY <2>1, <2>2, <2>9, <2>10, <2>11, <2>12 DEF Abstract!Branch
<1>5. QED
  BY <1>2, <1>3, <1>4 DEF BranchLine, EnterElif

\* An #endif closes the innermost group: a counted one, or that of the last
\* condition, whose enclosing group is then the one being emitted.
LEMMA EndifRefines == IInv /\ IInv' /\ Endif => Abstract!Endif
<1> SUFFICES ASSUME IInv, IInv', Endif PROVE Abstract!Endif
  OBVIOUS
<1> DEFINE front == SubSeq(groups, 1, Len(groups) - 1)
<1>1. GroupsOfFile /\ GroupsOfFile'
  BY GroupsSequence, GroupsSequencePrime
<1>2. /\ Len(conds) \in Nat /\ inactiveDepth \in Nat
      /\ conds # <<>> => Len(conds) > 0
      /\ conds = <<>> => inactiveDepth = 0
  BY EmptySeq, LenProperties DEF IInv, TypeOK, SkippingHasACause, CountedOnlyWhileSkipping
<1>3. CASE conds = <<>>
  <2>1. /\ report' = "withoutIf" /\ conds' = conds /\ inactiveDepth' = inactiveDepth
        /\ inactiveDepth = 0
    BY <1>2, <1>3 DEF Endif
  <2>2. groups = <<>> /\ Nesting = 0 /\ Nesting' = 0
    BY <1>3, <2>1, InnermostGroup DEF Nesting
  <2>3. groups' = <<>>
    BY <1>1, <2>2, EmptySeq DEF GroupsOfFile
  <2>4. QED
    BY <2>1, <2>2, <2>3 DEF Endif, Reads, Abstract!Endif, Abstract!Reads
<1>4. CASE conds # <<>>
  <2>1. /\ groups # <<>> /\ Len(groups) = Nesting /\ Nesting \in Nat \ {0}
        /\ groups \in Seq(Abstract!Groups)
    BY <1>1, <1>4, InnermostGroup DEF GroupsOfFile
  <2>2. /\ front \in Seq(Abstract!Groups)
        /\ Len(front) = Nesting - 1
        /\ \A i \in 1 .. Nesting - 1 : front[i] = groups[i]
    BY <2>1, FrontOfSeq
  <2>3. report' = "none" /\ Nesting' = Nesting - 1
    <3>1. CASE inactiveDepth > 0
      BY <1>2, <3>1 DEF Endif, Nesting
    <3>2. CASE inactiveDepth = 0
      <4>1. report' = "none" /\ conds' = SubSeq(conds, 1, Len(conds) - 1) /\ inactiveDepth' = 0
        BY <1>4, <3>2 DEF Endif
      <4>2. Len(conds') = Len(conds) - 1
        BY <1>4, <4>1, FrontOfSeq DEF IInv, TypeOK
      <4>3. QED
        BY <1>2, <3>2, <4>1, <4>2 DEF Nesting
    <3>3. QED
      BY <1>2, <3>1, <3>2
  <2>4. \A i \in 1 .. Nesting - 1 : groups'[i] = groups[i]
    <3> SUFFICES ASSUME NEW i \in 1 .. Nesting - 1 PROVE groups'[i] = groups[i]
      OBVIOUS
    <3>1. groups[i] = [state     |-> GroupState(i),
                       afterElse |-> i <= Len(conds) /\ conds[i].wasLastElse]
      BY <1>1, <2>1 DEF GroupsOfFile
    <3>2. groups'[i] = [state     |-> GroupState(i)',
                        afterElse |-> i <= Len(conds') /\ conds'[i].wasLastElse]
      BY <1>1, <2>1, <2>3 DEF GroupsOfFile
    <3>3. CASE inactiveDepth > 0
      <4>1. conds' = conds /\ isActive' = isActive
        BY <1>2, <3>3 DEF Endif
      <4>2. GroupState(i)' = GroupState(i)
        BY <4>1 DEF GroupState
      <4>3. QED
        BY <3>1, <3>2, <4>1, <4>2
    <3>4. CASE inactiveDepth = 0
      <4>1. conds' = SubSeq(conds, 1, Len(conds) - 1) /\ isActive' = TRUE /\ Nesting = Len(conds)
        BY <1>2, <1>4, <3>4 DEF Endif, Nesting
      <4>2. Len(conds') = Len(conds) - 1 /\ \A j \in 1 .. Len(conds) - 1 : conds'[j] = conds[j]
        BY <1>4, <4>1, FrontOfSeq DEF IInv, TypeOK
      <4>3. i <= Len(conds') /\ i <= Len(conds) /\ i < Len(conds) /\ conds'[i] = conds[i]
        BY <1>2, <4>1, <4>2
      <4>4. GroupState(i) = "selected"
        BY <1>2, <4>3 DEF GroupState
      <4>5. GroupState(i)' = "selected"
        BY <1>2, <4>1, <4>2, <4>3 DEF GroupState
      <4>6. QED
        BY <3>1, <3>2, <4>3, <4>4, <4>5
    <3>5. QED
      BY <1>2, <3>3, <3>4
  <2>5. groups' \in Seq(Abstract!Groups) /\ Len(groups') = Nesting - 1
    BY <1>1, <2>3 DEF GroupsOfFile, Abstract!Groups, Abstract!GroupStates
  <2> HIDE DEF front
  <2>6. groups' = front
    BY <2>2, <2>4, <2>5, SeqEqual
  <2>7. QED
    BY <2>1, <2>3, <2>6 DEF front, Endif, Reads, Abstract!Endif, Abstract!Reads
<1>5. QED
  BY <1>3, <1>4

\* The groups depend on the flag, the stack and the counter only.
LEMMA GroupsUnchanged == UNCHANGED <<isActive, conds, inactiveDepth>> => groups' = groups
  BY DEF groups, Nesting, GroupState

\* Every step is a step of CondSpec or leaves its variables alone.
LEMMA StepRefines ==
  ASSUME MacroFree, IInv, IInv', [Next]_vars
  PROVE  [Abstract!Next]_(Abstract!vars)
<1>1. \A c \in Conditions : c \in ConditionRecords /\ c.raw = c.value /\ ~c.endsInMacro
  BY LineConditions DEF MacroFree
<1>2. \A v \in BOOLEAN : /\ Plain(v) \in ConditionRecords
                         /\ Plain(v).raw = Plain(v).value
                         /\ Plain(v).value = v
                         /\ ~Plain(v).endsInMacro
  BY LineConditions DEF Plain
<1>3. CASE OpenFile
  <2>1. conds' = <<>> /\ inactiveDepth' = 0 /\ Nesting' = 0
    BY <1>3, EmptySeq DEF OpenFile, Nesting
  <2>2. groups' = <<>>
    BY <2>1, GroupsSequencePrime, EmptySeq DEF GroupsOfFile
  <2>3. QED
    BY <1>3, <2>2 DEF OpenFile, Reads, Abstract!OpenFile, Abstract!Reads, Abstract!Next
<1>4. CASE If \/ Ifdef
  <2>1. PICK c \in ConditionRecords : c.raw = c.value /\ ~c.endsInMacro /\ IfLine(c)
    BY <1>1, <1>2, <1>4 DEF If, Ifdef
  <2>2. Abstract!If(c.value) /\ c.value \in BOOLEAN
    BY <2>1, IfRefines DEF ConditionRecords
  <2>3. QED
    BY <2>2 DEF Abstract!Next
<1>5. CASE Elif \/ Elifdef
  <2>1. PICK c \in ConditionRecords : c.raw = c.value /\ ~c.endsInMacro /\ BranchLine(c, FALSE)
    BY <1>1, <1>2, <1>5 DEF Elif, Elifdef
  <2>2. Abstract!Branch(c.value, FALSE) /\ c.value \in BOOLEAN
    BY <2>1, BranchRefines DEF ConditionRecords
  <2>3. Abstract!Elif(c.value)
    BY <2>1, <2>2 DEF BranchLine, Reads, Abstract!Elif, Abstract!Reads
  <2>4. QED
    BY <2>2, <2>3 DEF Abstract!Next
<1>6. CASE Else
  <2>1. BranchLine(Plain(TRUE), TRUE)
    BY <1>6 DEF Else
  <2>2. Abstract!Branch(TRUE, TRUE)
    BY <1>2, <2>1, BranchRefines
  <2>3. QED
    BY <1>2, <2>1, <2>2 DEF BranchLine, Reads, Abstract!Else, Abstract!Reads, Abstract!Next
<1>7. CASE Endif
  BY <1>7, EndifRefines DEF Abstract!Next
<1>8. CASE Text
  <2>1. groups' = groups /\ (Abstract!Emitting <=> isActive)
    BY <1>8, GroupsUnchanged, EmittingIsActive DEF Text
  <2>2. QED
    BY <1>8, <2>1 DEF Text, Reads, Abstract!Text, Abstract!Reads, Abstract!Next
<1>9. CASE EndOfFile
  <2>1. groups' = groups /\ (groups = <<>> <=> conds = <<>>)
    BY <1>9, GroupsUnchanged, InnermostGroup DEF EndOfFile
  <2>2. QED
    BY <1>9, <2>1 DEF EndOfFile, Reads, Abstract!EndOfFile, Abstract!Reads, Abstract!Next
<1>10. CASE UNCHANGED vars
  BY <1>10, GroupsUnchanged DEF vars, Abstract!vars
<1>11. QED
  BY <1>3, <1>4, <1>5, <1>6, <1>7, <1>8, <1>9, <1>10 DEF Next

\* The initial state has no group.
LEMMA InitRefines == Init => Abstract!Init
<1> SUFFICES ASSUME Init PROVE Abstract!Init
  OBVIOUS
<1>1. IInv /\ conds = <<>>
  BY InitIInv DEF Init
<1>2. QED
  BY <1>1, InnermostGroup DEF Init, Abstract!Init

\* The conditional directives keep their promise for every nesting of groups,
\* provided that no condition mentions a macro.
THEOREM Refinement == ASSUME MacroFree PROVE Spec => ImplementsCondSpec
<1>1. IInv /\ IInv' /\ [Next]_vars => [Abstract!Next]_(Abstract!vars)
  BY StepRefines
<1>2. QED
  BY <1>1, InitRefines, Invariance, PTL DEF Spec, Abstract!Spec, ImplementsCondSpec
=============================================================================
