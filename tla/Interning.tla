----------------------------- MODULE Interning -----------------------------
(***************************************************************************)
(* What the type table promises: a description of a type is given one      *)
(* pointer, the first time it is asked for, and keeps it; no pointer       *)
(* stands for two descriptions.  Structures are nominal: each declaration  *)
(* is given a pointer of its own.                                          *)
(***************************************************************************)
VARIABLES
  interned,   \* pairs of a description and the pointer that stands for it
  structs     \* pointers of structures

vars == <<interned, structs>>

Taken == structs \cup {p[2] : p \in interned}

Init == interned = {} /\ structs = {}

Intern(p) ==
  /\ p[2] \notin Taken /\ ~\E q \in interned : q[1] = p[1]
  /\ interned' = interned \cup {p}
  /\ UNCHANGED structs

Declare(a) ==
  /\ a \notin Taken
  /\ structs' = structs \cup {a}
  /\ UNCHANGED interned

\* What is added is read off the next state: there is no set of all descriptions.
Next ==
  \/ \E p \in interned' : Intern(p)
  \/ \E a \in structs' : Declare(a)

Spec == Init /\ [][Next]_vars
=============================================================================
