--------------------------- MODULE MCMoneyRecovery ---------------------------
(* Two parts that share no state, one of them at work in a behaviour: what     *)
(* follows a run whose worker died (DurableRun, the constants of the cfg), and *)
(* the dollar windows, the instances of DollarLedger that MCDollarLedger puts  *)
(* side by side: a day and a model window, the latter with room for one.       *)
EXTENDS DurableRun

CONSTANTS a1, a2, b1, armed, plain
VARIABLES part,
  counter, today, seq, ledger, attempt, booked, evicted, refused, resends, scenario

Money == INSTANCE MCDollarLedger WITH
  Order <- <<"day", "model">>, Deployment <- {"day"}, ByModel <- {"model"}, Daily <- {"day"},
  Cap <- [w \in {"day", "model"} |-> IF w = "model" THEN 3 ELSE 4],
  Runs <- {armed, plain}, Amount <- [r \in {armed, plain} |-> 2], Armed <- {armed},
  Attempts <- {a1, a2, b1}, RunOf <- [a \in {a1, a2, b1} |-> IF a = b1 THEN plain ELSE armed],
  Overshoot <- 1, MaxDay <- 0, MaxFaults <- 1, MaxResends <- 0, MaxEvicted <- 0,
  at <- attempt, record <- booked, faults <- refused

ASSUME PartsAssumption == DurableAssumption /\ Money!EachAssumption

money == <<counter, today, seq, ledger, attempt, booked, evicted, refused, resends, scenario>>

\* Bound: two sweeping hosts and all of the second recovery under one disturbance;
\* under two, one of the hosts sweeps and the second recovery is not picked up.
Bounded ==
  \/ spent'.faults + spent'.crashes + spent'.stalls + spent'.holds + spent'.lapses <= 1
  \/ sweep'["other"] = Rest /\ queue'[2] \in {"none", "waiting", "removed"}

BothInit ==
  /\ Init
  /\ \/ part = "money" /\ Money!MCInit
     \/ part = "recovery" /\ scenario = "tight" /\ Money!MCInit
BothNext ==
  /\ part' = part
  /\ \/ part = "money" /\ Money!MCNext /\ UNCHANGED vars
     \/ part = "recovery" /\ Next /\ Bounded /\ UNCHANGED money
BothSpec == BothInit /\ [][BothNext]_<<part, vars, money>>

-----------------------------------------------------------------------------
(* The properties of DollarLedger, and the types of the part at work; the      *)
(* other properties are those of DurableRun.                                   *)

\* See DollarLedger and DurableRun: no counter with a whole history goes below
\* zero, and the values of every key.
TypesOK == IF part = "money" THEN Money!EachTypeOK ELSE TypeOK
\* See DollarLedger: a window holds at least what its holds and records say, and
\* exactly that where nothing went wrong.
BooksHold == part = "money" => Money!EachBooksHold
\* See DollarLedger: no window is admitted past its cap.
CapsHold == part = "money" => Money!EachCapHolds
\* See DollarLedger: the run's ledger licenses one settlement of a hold.
HoldsCloseOnce == part = "money" => Money!HoldsCloseOnce
=============================================================================
