--------------------------- MODULE MCDollarLedger ---------------------------
(* Two instances of DollarLedger side by side: three attempts of two runs with *)
(* a tight model window and one fault (the constants), and two attempts of one *)
(* run across a midnight, with a command sent twice and a key evicted, where   *)
(* b1 rests.                                                                   *)
EXTENDS DollarLedger

CONSTANTS a1, a2, b1, armed, plain
VARIABLE scenario

\* A recovered run with up to two attempts beside a run that is not recovered.
MCRunOf == [a \in Attempts |-> IF a = b1 THEN plain ELSE armed]
MCAmount == [r \in Runs |-> 2]

MCDaily == {"day"}
MCCap == [w \in Windows |-> 4]

\* Two windows of the deployment, one of which outlives midnight.
MCTwoWindows == <<"day", "month">>
MCBothDeployment == {"day", "month"}
MCNone == {}

Midnights == INSTANCE DollarLedger WITH
  Order <- MCTwoWindows, Deployment <- MCBothDeployment, ByModel <- {},
  Cap <- [w \in MCBothDeployment |-> 4],
  Overshoot <- 0, MaxDay <- 1, MaxFaults <- 0, MaxResends <- 1, MaxEvicted <- 1

EachAssumption == LedgerAssumption /\ Midnights!LedgerAssumption

MCInit == (scenario = "tight" /\ Init) \/ (scenario = "midnight" /\ Midnights!Init)
MCNext ==
  /\ scenario' = scenario
  /\ (scenario = "tight" /\ Next) \/ (scenario = "midnight" /\ Midnights!Next /\ at'[b1] = at[b1])
MCSpec == MCInit /\ [][MCNext]_<<vars, scenario>>
\* The instance of the cfg alone.
TightSpec == scenario = "tight" /\ Init /\ [][Next /\ scenario' = scenario]_<<vars, scenario>>

-----------------------------------------------------------------------------
(* The properties of DollarLedger, of each instance. *)

\* See DollarLedger: no counter with a whole history goes below zero.
EachTypeOK == IF scenario = "tight" THEN TypeOK ELSE resends = 0 => Midnights!TypeOK
\* See DollarLedger: a window holds at least what its holds and records say, and
\* exactly that where nothing went wrong.
EachBooksHold ==
  IF scenario = "tight" THEN Covered /\ ExactWhenQuiet
  ELSE Midnights!Covered /\ Midnights!ExactWhenQuiet
\* See DollarLedger: no window is admitted past its cap.
EachCapHolds == IF scenario = "tight" THEN CapHolds ELSE Midnights!CapHolds
=============================================================================
