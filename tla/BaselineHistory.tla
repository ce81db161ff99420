--------------------------- MODULE BaselineHistory ---------------------------
(***************************************************************************)
(* What drift evaluation relies on (docs/drift.md, Baselines): every       *)
(* feature has numbered generations of baselines, a creation adds the next *)
(* generation of one or more features at once and makes it the only active *)
(* one, and no generation ever changes or disappears.                      *)
(***************************************************************************)
EXTENDS Naturals, FiniteSets

CONSTANT Features

VARIABLES
  generations,   \* feature -> its baselines, as pairs of a version and what it was computed from
  current        \* feature -> the versions that are active

Init ==
  /\ generations = [f \in Features |-> {}]
  /\ current = [f \in Features |-> {}]

Replace(f) ==
  /\ \E b \in generations'[f] :
       /\ b.version = Cardinality(generations[f]) + 1
       /\ generations'[f] = generations[f] \cup {b}
  /\ current'[f] = {Cardinality(generations[f]) + 1}

Keep(f) == generations'[f] = generations[f] /\ current'[f] = current[f]

Next ==
  /\ DOMAIN generations' = Features /\ DOMAIN current' = Features
  /\ \A f \in Features : Replace(f) \/ Keep(f)

Spec == Init /\ [][Next]_<<generations, current>>
===============================================================================
