------------------------------ MODULE MCWaitGate ------------------------------
(* Two instances of WaitGate side by side: two deliveries of a polled trigger  *)
(* whose check slots are leased from the fleet too (the constants of the cfg), *)
(* and two of one that waits for an instant, under two disturbances.           *)
EXTENDS WaitGate

VARIABLE scenario

After == INSTANCE WaitGate WITH Tier <- "after", Fleet <- FALSE, MaxSpent <- 2

MCInit == (scenario = "polled" /\ Init) \/ (scenario = "after" /\ After!Init)
MCNext ==
  /\ scenario' = scenario
  /\ (scenario = "polled" /\ Next) \/ (scenario = "after" /\ After!Next)
MCSpec == MCInit /\ [][MCNext]_<<vars, scenario>>

-----------------------------------------------------------------------------
(* The properties of WaitGate, of each instance. *)

\* See WaitGate: the values of every key, and no more checks at a time than there are slots.
EachTypeOK == IF scenario = "polled" THEN TypeOK ELSE After!TypeOK
\* See WaitGate: one delivery of an intent holds at a time.
EachOneHolder == IF scenario = "polled" THEN OneHolder ELSE After!OneHolder
\* See WaitGate: a refused delivery has another in its place.
EachNeverDroppedOnce == IF scenario = "polled" THEN NeverDroppedOnce ELSE After!NeverDroppedOnce
\* See WaitGate: no exit keeps a check slot.
EachSlotReturned == IF scenario = "polled" THEN SlotReturned ELSE After!SlotReturned
\* See WaitGate: no more checks than PI_WAIT_MAX_CHECKS.
EachChecksBounded == IF scenario = "polled" THEN ChecksBounded ELSE After!ChecksBounded
\* See WaitGate: a job is declared expired by the answer of a check.
EachDecided ==
  \A j \in Jobs : verdict[j] # "expired" /\ verdict'[j] = "expired" => stage[j] = "check"
=============================================================================
