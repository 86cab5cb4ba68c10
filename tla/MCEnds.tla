------------------------------- MODULE MCEnds -------------------------------
(* What must happen in the end, of three components side by side, each under   *)
(* its own fairness: a hold of WaitGate (the constants of the cfg), the        *)
(* claims of FleetLease, and the waiters of HostBudget, where a small job and  *)
(* one as large as the host come again and again.                              *)
EXTENDS WaitGate, TLC

CONSTANTS h1, h2, p1, p3, Nobody, a, big
VARIABLES which,
  claim, wire, pc, hold, inFlight, worker, sweepAt, faults,
  ledger, line, pickups, where, box, unread, up, look, sweep, hostSpent, hostHappened, strayed

Leases == INSTANCE FleetLease WITH
  Hosts <- {h1, h2}, Pickups <- {p1, p3}, HostOf <- [p \in {p1, p3} |-> IF p = p3 THEN h2 ELSE h1],
  JobOf <- [p \in {p1, p3} |-> p], Slots <- 2, TTL <- 2, JobTimeout <- 1, MaxWire <- 1, MaxFaults <- 1
Host == INSTANCE HostBudget WITH
  Jobs <- {a, big}, Venues <- {h1}, VenueOf <- [j \in {a, big} |-> h1], Projects <- {},
  ProjectOf <- [j \in {a, big} |-> None], Size <- (a :> 1 @@ big :> 2), Budget <- 2, Count <- 2,
  Share <- <<>>, MinJobs <- <<>>, Stream <- {a, big}, MaxTickets <- 4,
  Disturbances <- {"stuck", "crash", "stall", "busy"}, MaxSpent <- 1,
  spent <- hostSpent, happened <- hostHappened

ASSUME HostAssumption == Host!BudgetAssumption

leases == <<claim, wire, pc, hold, inFlight, worker, sweepAt, faults>>
host == <<ledger, line, pickups, where, box, unread, up, look, sweep, hostSpent, hostHappened,
          strayed>>
all == <<which, leases, host, vars>>
Leased == which = "leases" /\ UNCHANGED <<which, host, vars>>
Hosted == which = "host" /\ UNCHANGED <<which, leases, vars>>
Gated == which = "gate" /\ UNCHANGED <<which, leases, host>>

MCInit == which \in {"leases", "host", "gate"} /\ Leases!Init /\ Host!Init /\ Init
MCNext == (Leased /\ Leases!Next) \/ (Hosted /\ Host!Next) \/ (Gated /\ Next)

\* FleetLease!FairSpec, HostBudget!Fairness and WaitGate!Fairness, each for its own part.
MCFairness ==
  /\ WF_all(Leased /\ Leases!Tick)
  /\ \A p \in {p1, p3} : WF_all(Leased /\ Leases!Timeout(p)) /\ WF_all(Leased /\ Leases!Finish(p))
  /\ \A j \in Jobs : /\ WF_all(Gated /\ Promote(j)) /\ WF_all(Gated /\ Pickup(j))
                     /\ WF_all(Gated /\ Run(j)) /\ WF_all(Gated /\ Finish(j))
                     /\ WF_all(Gated /\ Age(j))
  /\ SF_all(Hosted /\ Host!Verifies)
  /\ \A j \in {a, big} :
       /\ WF_all(Hosted /\ Host!Fetch(j)) /\ WF_all(Hosted /\ Host!Enter(j))
       /\ WF_all(Hosted /\ Host!Starts(j)) /\ WF_all(Hosted /\ Host!Exits(j))
  /\ \A t \in Host!Tickets : WF_all(Hosted /\ Host!Steps(t))
  /\ WF_all(Hosted /\ Host!Seed(h1)) /\ WF_all(Hosted /\ Host!Judge)
  /\ WF_all(Hosted /\ Host!Sweeps) /\ WF_all(Hosted /\ Host!Boot)
MCSpec == MCInit /\ [][MCNext]_all /\ MCFairness

-----------------------------------------------------------------------------
(* WaitEnds is WaitGate's own. *)

\* See FleetLease: every claim ends, whatever was lost.
ClaimsEnd == Leases!ClaimsEnd
\* See HostBudget: a job that waits for room is admitted in the end, and the room
\* of a container nobody stopped comes back.
RoomComes == (which = "host" => Host!BigRuns) /\ Host!OrphansEnd
=============================================================================
