---------------------------- MODULE MCAllocation ----------------------------
(* Four instances of Allocation side by side: the pickups of two hosts beside  *)
(* two writes of one host's envelope file (the constants), two plans, a plan   *)
(* and a revert beside a pickup, and two plans beside a write that turns       *)
(* delegation off.                                                             *)
EXTENDS Allocation

CONSTANTS r1, r2, p1, p2, v1, w1, w2, h1, h2, e0, e1, e2
VARIABLE scenario

MCHostOf == [x \in Calls |-> IF x = r2 THEN h2 ELSE h1]
MCNewOf == [w \in Writes |-> IF w = w1 THEN e1 ELSE e2]
TwoPlans == INSTANCE Allocation WITH
  Pickups <- {}, Plans <- {p1, p2}, Reverts <- {}, Writes <- {},
  HostOf <- [x \in {p1, p2} |-> IF x = p2 THEN h2 ELSE h1], NewOf <- <<>>,
  Digests <- {e0}, Delegates <- {e0}, MaxClock <- 3, Rounds <- 2,
  Disturbances <- {"faults", "lost", "crash", "lapse", "flush", "corrupt"}, MaxSpent <- 2
Reverting == INSTANCE Allocation WITH
  Pickups <- {r1}, Plans <- {p1}, Reverts <- {v1}, Writes <- {},
  HostOf <- [x \in {r1, p1, v1} |-> h1], NewOf <- <<>>,
  Digests <- {e0}, Delegates <- {e0}, MaxClock <- 3, Rounds <- 2,
  Disturbances <- {"faults", "lost", "crash", "lapse"}, MaxSpent <- 1
TurnedOff == INSTANCE Allocation WITH
  Pickups <- {r1}, Plans <- {p1, p2}, Reverts <- {}, Writes <- {w2},
  HostOf <- [x \in {r1, p1, p2, w2} |-> IF x = p2 THEN h2 ELSE h1], NewOf <- [w \in {w2} |-> e2],
  Digests <- {e0, e2}, Delegates <- {e0}, MaxClock <- 3, Rounds <- 2,
  Disturbances <- {}, MaxSpent <- 0

MCInit ==
  \/ scenario = "writes" /\ Init
  \/ scenario = "plans" /\ TwoPlans!Init
  \/ scenario = "reverts" /\ Reverting!Init
  \/ scenario = "off" /\ TurnedOff!Init
MCNext ==
  /\ scenario' = scenario
  /\ \/ scenario = "writes" /\ Next
     \/ scenario = "plans" /\ TwoPlans!Next
     \/ scenario = "reverts" /\ Reverting!Next
     \/ scenario = "off" /\ TurnedOff!Next
MCSpec == MCInit /\ [][MCNext]_<<vars, scenario>>

-----------------------------------------------------------------------------
(* The properties of Allocation, of each instance. *)

Of(writes, plans, reverts, off) ==
  CASE scenario = "writes" -> writes [] scenario = "plans" -> plans
    [] scenario = "reverts" -> reverts [] scenario = "off" -> off

\* See Allocation: the values of the keys and of every call.
EachTypeOK == Of(TypeOK, TwoPlans!TypeOK, Reverting!TypeOK, TurnedOff!TypeOK)
\* See Allocation: a change that happened always has its row.
EachChangeHasRow ==
  Of(ChangeHasRow, TwoPlans!ChangeHasRow, Reverting!ChangeHasRow, TurnedOff!ChangeHasRow)
\* See Allocation: the audit and the caller are told the truth.
EachToldTheTruth ==
  Of(ToldTheTruth, TwoPlans!ToldTheTruth, Reverting!ToldTheTruth, TurnedOff!ToldTheTruth)
\* See Allocation: the lock is its holder's until it lapses under it.
EachLockKept == Of(LockKept, TwoPlans!LockKept, Reverting!LockKept, TurnedOff!LockKept)
\* See Allocation: a write that did not take puts the expected digest back.
EachExpectedHasFile ==
  Of(ExpectedHasFile, TwoPlans!ExpectedHasFile, Reverting!ExpectedHasFile,
     TurnedOff!ExpectedHasFile)

(* The steps that its action properties exclude. *)

Overwriting ==
  Of(\E x \in Calls : Overwrites(x),
     \E x \in TwoPlans!Calls : TwoPlans!Overwrites(x),
     \E x \in Reverting!Calls : Reverting!Overwrites(x),
     \E x \in TurnedOff!Calls : TurnedOff!Overwrites(x))
Hurrying ==
  Of(FALSE, \E x \in {p1, p2} : TwoPlans!TooSoon(x), Reverting!TooSoon(p1),
     \E x \in {p1, p2} : TurnedOff!TooSoon(x))
Mistaking ==
  Of(\E x \in Pickups : TakenForEdit(x), FALSE, FALSE, TurnedOff!TakenForEdit(r1))
=============================================================================
