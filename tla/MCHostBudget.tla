---------------------------- MODULE MCHostBudget ----------------------------
(* Three instances of HostBudget side by side: a small job and one as large as *)
(* the host under any two disturbances (the constants of the cfg), a large job *)
(* and two small ones of projects with a soft minimum, and two jobs of one     *)
(* project with a share on two venues.                                         *)
EXTENDS HostBudget, TLC

CONSTANTS a, b, big, p, q, v1, v2
VARIABLE scenario

Sizes(jobs) == [j \in jobs |-> IF j = big THEN 2 ELSE 1]
Three == INSTANCE HostBudget WITH
  Jobs <- {a, b, big}, Venues <- {v1}, VenueOf <- [j \in {a, b, big} |-> v1],
  Projects <- {p, q}, ProjectOf <- (a :> p @@ b :> q @@ big :> None),
  Size <- Sizes({a, b, big}), Budget <- 3, Count <- 3, Share <- (p :> 3 @@ q :> 3),
  MinJobs <- (p :> 1 @@ q :> 1), Disturbances <- {"busy"}, MaxSpent <- 1
Apart == INSTANCE HostBudget WITH
  Jobs <- {a, b}, Venues <- {v1, v2}, VenueOf <- (a :> v1 @@ b :> v2),
  Projects <- {p}, ProjectOf <- (a :> p @@ b :> p), Size <- Sizes({a, b}),
  Share <- (p :> 1), MinJobs <- (p :> 0),
  Disturbances <- {"stuck", "crash", "busy"}, MaxSpent <- 2

EachAssumption == BudgetAssumption /\ Three!BudgetAssumption /\ Apart!BudgetAssumption

MCInit ==
  \/ scenario = "two" /\ Init
  \/ scenario = "three" /\ Three!Init
  \/ scenario = "apart" /\ Apart!Init
MCNext ==
  /\ scenario' = scenario
  /\ \/ scenario = "two" /\ Next
     \/ scenario = "three" /\ Three!Next
     \/ scenario = "apart" /\ Apart!Next
MCSpec == MCInit /\ [][MCNext]_<<vars, scenario>>

-----------------------------------------------------------------------------
(* The properties of HostBudget, of each instance. *)

Of(two, three, apart) ==
  CASE scenario = "two" -> two [] scenario = "three" -> three [] scenario = "apart" -> apart

\* See HostBudget: the types, and a line in which no job waits twice.
EachTypeOK == Of(TypeOK, Three!TypeOK, Apart!TypeOK)
\* See HostBudget: no container of a listed venue runs uncounted.
EachAccounted == Of(Accounted, Three!Accounted, Apart!Accounted)
\* See HostBudget: none is counted twice.
EachCountedOnce == Of(CountedOnce, Three!CountedOnce, Apart!CountedOnce)
\* See HostBudget: no exit of a pickup keeps its room.
EachNoRoomLost == Of(NoRoomLost, Three!NoRoomLost, Apart!NoRoomLost)
\* See HostBudget: the containers fit, where no venue is listed late beside
\* another that already runs jobs.
EachNoOvercommit == Of(NoOvercommit, Three!NoOvercommit, TRUE)

\* See HostBudget: nobody is overtaken in the line, and a waiter leaves it for a
\* reason of its own.
EachLineKept ==
  [][/\ NobodyOvertaken
     /\ \A j \in {a, b, big} : InLine(j) /\ ~InLine(j)' => MayLeave(j)]_<<vars, scenario>>
=============================================================================
