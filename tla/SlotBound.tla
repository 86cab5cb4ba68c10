------------------------------ MODULE SlotBound ------------------------------
(***************************************************************************)
(* What a fleet lease promises: at most Slots members are inside at once.  *)
(* The lease's header (worker/src/fleet-lease.mjs) calls it "the fleet-    *)
(* wide half" of a bound; this is that bound with no keys, no clock and no *)
(* network.                                                                *)
(***************************************************************************)
EXTENDS Naturals, FiniteSets

CONSTANTS Members, Slots

VARIABLE inside

Init == inside = {}

Enter(m) ==
    /\ m \notin inside
    /\ Cardinality(inside) < Slots
    /\ inside' = inside \cup {m}

\* A crash takes every member of a host out in one step.
Leave(S) ==
    /\ S # {}
    /\ inside' = inside \ S

Next ==
    \/ \E m \in Members : Enter(m)
    \/ \E S \in SUBSET inside : Leave(S)

Spec == Init /\ [][Next]_inside
=============================================================================
