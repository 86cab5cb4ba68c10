------------------------------ MODULE MCCapacity ------------------------------
(* What may run at once, on a host and in the fleet: FleetLease with three      *)
(* pickups on two hosts (the constants of the cfg), and beside it, never both   *)
(* at work, the three instances of HostBudget that MCHostBudget puts together.  *)
EXTENDS FleetLease

CONSTANTS h1, h2, p1, p2, p3, a, b, big, p, q, v1, v2, None
VARIABLES part,
  ledger, line, pickups, where, box, unread, up, look, sweep, spent, happened, strayed, scenario

\* Two jobs on one host, one on the other.
MCHostOf == [x \in Pickups |-> IF x = p3 THEN h2 ELSE h1]
MCJobOf == [x \in Pickups |-> x]

\* A small job and one as large as the host, under any two disturbances.
Host == INSTANCE MCHostBudget WITH
  Jobs <- {a, big}, Venues <- {v1}, VenueOf <- [j \in {a, big} |-> v1], Projects <- {},
  ProjectOf <- [j \in {a, big} |-> None], Size <- [j \in {a, big} |-> IF j = big THEN 2 ELSE 1],
  Budget <- 2, Count <- 2, Share <- <<>>, MinJobs <- <<>>, Stream <- {}, MaxTickets <- 4,
  Disturbances <- {"busy", "ends", "undeferred", "stuck", "stall", "elsewhere",
                   "unanswered", "unlucky", "crash"},
  MaxSpent <- 2

ASSUME HostAssumption == Host!EachAssumption

host == <<ledger, line, pickups, where, box, unread, up, look, sweep, spent, happened, strayed,
          scenario>>
all == <<part, host, vars>>

MCInit ==
  \/ part = "host" /\ Host!MCInit /\ Init
  \/ part = "fleet" /\ Init /\ scenario = "two" /\ Host!Init
MCNext ==
  /\ part' = part
  /\ \/ part = "fleet" /\ Next /\ UNCHANGED host
     \/ part = "host" /\ Host!MCNext /\ UNCHANGED vars
MCSpec == MCInit /\ [][MCNext]_all

-----------------------------------------------------------------------------
(* TypeOK, HeldWhileRunning, PerHostBound, FleetBound and FreedOnlyWhenOver    *)
(* are FleetLease's own.                                                       *)

\* See HostBudget: every container of a listed venue is counted, once, and no job
\* waits twice in the line; the containers fit, where no venue is listed late; and
\* no exit of a pickup keeps its room.
Counted ==
  part = "host" =>
    /\ Host!EachTypeOK /\ Host!EachAccounted /\ Host!EachCountedOnce
    /\ Host!EachNoOvercommit /\ Host!EachNoRoomLost
\* See HostBudget: nobody is overtaken in the line, and a waiter leaves it for a
\* reason of its own.
LineKept == Host!EachLineKept
=============================================================================
