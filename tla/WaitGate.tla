------------------------------ MODULE WaitGate ------------------------------
(***************************************************************************)
(* The pickup gate of a `run.waitFor` trigger.  A delivery is held until   *)
(* the condition clears; a second delivery of one intent (one target, flow *)
(* and trigger) is refused while the first holds, by a lease, and shortly  *)
(* after the first has cleared, by a marker.  The condition is either an   *)
(* instant, waited for with one exact deferral, or a profile, a check that *)
(* is asked at every wake under a bound on how many run at a time.         *)
(*                                                                         *)
(* All deliveries of the module share their intent.                        *)
(***************************************************************************)
EXTENDS Naturals, FiniteSets

CONSTANTS
  Jobs,          \* deliveries of one intent
  None,
  Tier,          \* the condition: "after" or "polled"
  MaxChecks,     \* PI_WAIT_MAX_CHECKS
  MaxFaults,     \* PI_WAIT_MAX_FAULTS
  Slots,         \* the checks one worker runs at a time
  Fleet,         \* the check slots are leased from the fleet too
  Disturbances,  \* what may disturb the gate, see Kinds (bound)
  MaxSpent       \* disturbances in all (bound)

\* A command that fails, a worker's death, a job that leaves the queue with
\* its lease in place, a lease that lapses, a check that says nothing, a
\* job the later gates send back.
Kinds == {"faults", "deaths", "leaves", "lapses", "unclear", "busy"}

ASSUME WaitAssumption ==
  /\ None \notin Jobs /\ IsFiniteSet(Jobs)
  /\ Tier \in {"after", "polled"} /\ Fleet \in BOOLEAN
  /\ {MaxChecks, MaxFaults, Slots} \subseteq Nat \ {0} /\ MaxSpent \in Nat
  /\ Disturbances \subseteq Kinds

VARIABLES
  stage,    \* stage[j]: how far delivery j is
  verdict,  \* verdict[j]: what the gate has decided
  read,     \* read[j]: what the pickup has read
  lease,    \* wait:key:<dedupId>
  marker,   \* wait:done:<dedupId>
  card,     \* card[j]: wait:job:<j>
  due,      \* the instant of the condition has come
  slots,    \* the deliveries that hold a check slot
  others,   \* check slots held for other targets
  spent,    \* disturbances so far
  happened, \* their kinds, for the properties
  claimed,  \* deliveries told that they may hold, for the properties
  blamed    \* those a delivery was refused for, for the properties

local == <<stage, verdict, read>>
redis == <<lease, marker, card>>
capacity == <<slots, others>>
outside == <<due, spent, happened>>
ghosts == <<claimed, blamed>>
vars == <<local, redis, capacity, outside, ghosts>>

Fresh == [since |-> "none", checks |-> 0, faults |-> 0]
Clean == [holder |-> None, held |-> "none", checks |-> 0, faults |-> 0]
InGate == {"slot", "claim", "get", "probe", "take", "hold", "check", "clear",
           "letgo", "drop"}
Waiting == {"held", "soon"}
Over == {"ran", "refused", "gone"}

Can(what) == what \in Disturbances /\ spent < MaxSpent
Spend(what) == Can(what) /\ spent' = spent + 1 /\ happened' = happened \cup {what}
\* A command whose failure is survived: it is answered, or it fails.
Answered == UNCHANGED <<spent, happened>>

Init ==
  /\ stage = [j \in Jobs |-> "away"]
  /\ verdict = [j \in Jobs |-> "none"]
  /\ read = [j \in Jobs |-> Clean]
  /\ lease = None /\ marker = None
  /\ card = [j \in Jobs |-> Fresh]
  /\ due = FALSE
  /\ slots = {} /\ others = 0
  /\ spent = 0 /\ happened = {}
  /\ claimed = {} /\ blamed = {}

Goto(j, s) == stage' = [stage EXCEPT ![j] = s]
Decide(j, v) == verdict' = [verdict EXCEPT ![j] = v]
\* What the pickup has read goes with it.
Leaving(j, s) == Goto(j, s) /\ read' = [read EXCEPT ![j] = Clean]
\* `refuseWait`: the verdict, then the release.
Refuse(j, v) == Decide(j, v) /\ Leaving(j, "letgo")
Stamp(j) ==
  card' = [card EXCEPT ![j].since = IF @ = "none" THEN "young" ELSE @]

-----------------------------------------------------------------------------
(* The queue and the clock. *)

Deliver(j) ==
  /\ stage[j] = "away"
  /\ Goto(j, "queued")
  /\ UNCHANGED <<verdict, read, redis, capacity, outside, ghosts>>

\* A deferral that is over.
Promote(j) ==
  /\ stage[j] = "soon" \/ (stage[j] = "held" /\ due)
  /\ Goto(j, "queued")
  /\ UNCHANGED <<verdict, read, redis, capacity, outside, ghosts>>

\* The instant comes.
Strike ==
  /\ Tier = "after" /\ ~due
  /\ due' = TRUE
  /\ UNCHANGED <<local, redis, capacity, spent, happened, ghosts>>

\* PI_WAIT_MAX_MS has passed since the hold was stamped.
Age(j) ==
  /\ card[j].since = "young" /\ stage[j] \notin Over
  /\ card' = [card EXCEPT ![j].since = "old"]
  /\ UNCHANGED <<local, lease, marker, capacity, outside, ghosts>>

\* SATISFIED_MS has passed.
Forget ==
  /\ marker # None
  /\ marker' = None
  /\ UNCHANGED <<local, lease, card, capacity, outside, ghosts>>

\* Held jobs of other targets take and give back check slots.
OthersCheck ==
  /\ Tier = "polled"
  /\ \/ others = 0 /\ Cardinality(slots) < Slots /\ others' = 1
     \/ others = 1 /\ others' = 0
  /\ UNCHANGED <<local, redis, slots, outside, ghosts>>

-----------------------------------------------------------------------------
(* The gate. *)

\* What follows a null marker.
GoOn(j) ==
  /\ Goto(j, CASE Tier = "polled" -> "slot"
               [] Tier = "after" /\ ~due -> "claim"
               [] OTHER -> "clear")
  /\ Decide(j, "none")
  /\ UNCHANGED blamed

\* The pickup reads who satisfied the target, first of all.
Wake(j) ==
  /\ stage[j] = "queued"
  /\ read' = [read EXCEPT ![j] = Clean]
  /\ \/ /\ Answered
        /\ IF marker \notin {None, j}
           THEN Refuse(j, "superseded") /\ blamed' = blamed \cup {marker}
           ELSE GoOn(j)
     \/ Spend("faults") /\ GoOn(j)
  /\ UNCHANGED <<redis, capacity, due, claimed>>

\* The hold's clock and counters are read, then a check slot is tried.
\* One slot more than there are.
DeniedPast == Cardinality(slots) + others > Slots
Denied == Cardinality(slots) + others >= Slots
\* A denial without the ceiling on the hold.
ThrottleForever(j) ==
  /\ Denied
  /\ Stamp(j) /\ Goto(j, "soon")
  /\ UNCHANGED <<verdict, read, lease, marker, capacity, outside, ghosts>>
\* Denied: a clock, and a ceiling on it.
Throttle(j) ==
  /\ Denied
  /\ Stamp(j)
  /\ IF card[j].since = "old"
     THEN Refuse(j, "unchecked")
     ELSE Goto(j, "soon") /\ UNCHANGED verdict
  /\ UNCHANGED <<read, lease, marker, capacity, outside, ghosts>>
\* The fleet denies: the local slot goes back.
FleetDenies(j) ==
  /\ Fleet /\ ~Denied
  /\ Stamp(j) /\ Goto(j, "soon")
  /\ UNCHANGED <<verdict, read, lease, marker, capacity, outside, ghosts>>
\* The ceiling before the check: an old hold is given up when it is granted.
GrantTooLate(j) ==
  /\ ~Denied
  /\ \/ /\ card[j].since = "old" /\ Refuse(j, "expired")
        /\ UNCHANGED slots
     \/ /\ card[j].since # "old" /\ Goto(j, "claim")
        /\ slots' = slots \cup {j}
        /\ read' = [read EXCEPT ![j] = [holder |-> None, held |-> card[j].since,
                                        checks |-> card[j].checks, faults |-> card[j].faults]]
        /\ UNCHANGED verdict
  /\ UNCHANGED <<redis, others, outside, ghosts>>
Grant(j) ==
  /\ ~Denied
  /\ slots' = slots \cup {j}
  /\ read' = [read EXCEPT ![j] = [holder |-> None, held |-> card[j].since,
                                  checks |-> card[j].checks, faults |-> card[j].faults]]
  /\ Goto(j, "claim")
  /\ UNCHANGED <<verdict, redis, others, outside, ghosts>>
Slot(j) == stage[j] = "slot" /\ (Throttle(j) \/ FleetDenies(j) \/ Grant(j))

\* The claim is granted.
Hold(j) ==
  /\ claimed' = claimed \cup {j}
  /\ Goto(j, IF Tier = "after" THEN "hold" ELSE "check")
\* The slot is given back where the check is, and nowhere else.
GiveBackLate(j) == slots' = IF stage[j] = "check" THEN slots \ {j} ELSE slots
\* Every exit from the claim and the check gives the check slot back.
GiveBack(j) == slots' = slots \ {j}
\* The holder could not be checked: a brief deferral, and nothing decided.
AskAgain(j) == Leaving(j, "soon") /\ GiveBack(j) /\ UNCHANGED <<verdict, blamed>>

\* A claim that reads the key and then sets it.
ClaimUnguarded(j) ==
  /\ stage[j] = "claim"
  /\ lease' = j /\ Hold(j)
  /\ UNCHANGED <<verdict, read, marker, card, capacity, outside, blamed>>
\* SET NX.
Claim(j) ==
  /\ stage[j] = "claim"
  /\ \/ /\ lease = None /\ lease' = j /\ Hold(j)
        /\ Answered /\ UNCHANGED <<verdict, read, slots, blamed>>
     \/ /\ lease # None /\ Goto(j, "get")
        /\ Answered /\ UNCHANGED <<verdict, read, lease, slots, claimed, blamed>>
     \/ Spend("faults") /\ AskAgain(j) /\ UNCHANGED <<lease, claimed>>
  /\ UNCHANGED <<marker, card, others, due>>

\* GET.  A key that is gone by now admits without being taken.
ReadHolder(j) ==
  /\ stage[j] = "get"
  /\ \/ /\ lease \in {None, j}
        /\ Hold(j)
        /\ happened' = IF lease = None THEN happened \cup {"slips"} ELSE happened
        /\ UNCHANGED <<verdict, read, slots, spent, blamed>>
     \/ /\ lease \notin {None, j}
        /\ read' = [read EXCEPT ![j].holder = lease]
        /\ Goto(j, "probe")
        /\ Answered /\ UNCHANGED <<verdict, slots, claimed, blamed>>
     \/ Spend("faults") /\ AskAgain(j) /\ UNCHANGED claimed
  /\ UNCHANGED <<redis, others, due>>

\* `isJobLive` and what its answer decides.
HeldBy(j, holder) ==
  /\ Refuse(j, "superseded") /\ GiveBack(j)
  /\ blamed' = IF stage[holder] \in Over THEN blamed ELSE blamed \cup {holder}
\* Who cannot be verified is taken for alive.
TrustUnverified(j) == HeldBy(j, read[j].holder)
Unverified(j) == AskAgain(j)
Probe(j) ==
  /\ stage[j] = "probe"
  /\ \/ /\ stage[read[j].holder] \notin Over
        /\ HeldBy(j, read[j].holder) /\ Answered
     \/ /\ stage[read[j].holder] \in Over
        /\ Goto(j, "take") /\ Answered /\ UNCHANGED <<verdict, read, slots, blamed>>
     \/ Spend("faults") /\ Unverified(j)
  /\ UNCHANGED <<redis, others, due, claimed>>

\* The plain SET of a takeover, whoever holds the key by then.
TakeOver(j) ==
  /\ stage[j] = "take"
  /\ \/ /\ lease' = j /\ Hold(j)
        /\ happened' = IF lease # read[j].holder THEN happened \cup {"slips"} ELSE happened
        /\ UNCHANGED <<verdict, read, slots, spent, blamed>>
     \/ Spend("faults") /\ AskAgain(j) /\ UNCHANGED <<lease, claimed>>
  /\ UNCHANGED <<marker, card, others, due>>

\* Tier 1: the hold is recorded and the job deferred to the instant.
HoldToInstant(j) ==
  /\ stage[j] = "hold"
  /\ Goto(j, "held")
  /\ \/ Answered /\ Stamp(j)
     \/ Spend("faults") /\ UNCHANGED card
  /\ UNCHANGED <<verdict, read, lease, marker, capacity, due, ghosts>>

\* Tier 2: the check answers, its slot goes back, and the answer is noted.
NoteCheck(j, fault) ==
  card' = [card EXCEPT ![j].checks = @ + 1, ![j].faults = IF fault THEN @ + 1 ELSE 0]
NoteAndHold(j, fault) ==
  card' = [card EXCEPT ![j].checks = @ + 1, ![j].faults = IF fault THEN @ + 1 ELSE 0,
                       ![j].since = IF @ = "none" THEN "young" ELSE @]
\* The count bound reads the checks before this one.
BoundLate(j, fault) ==
  CASE fault /\ read[j].faults + 1 >= MaxFaults -> "unanswerable"
    [] read[j].checks >= MaxChecks -> "expired"
    [] read[j].held = "old" -> "expired"
    [] OTHER -> "none"
\* The bounds on a hold, each tested after the check and before the next hold.
Bound(j, fault) ==
  CASE fault /\ read[j].faults + 1 >= MaxFaults -> "unanswerable"
    [] read[j].checks + 1 >= MaxChecks -> "expired"
    [] read[j].held = "old" -> "expired"
    [] OTHER -> "none"

SaysGo(j) == NoteCheck(j, FALSE) /\ Leaving(j, "clear") /\ UNCHANGED verdict
SaysNever(j) == Refuse(j, "never") /\ UNCHANGED card
SaysHold(j, fault) ==
  IF Bound(j, fault) # "none"
  THEN NoteCheck(j, fault) /\ Refuse(j, Bound(j, fault))
  ELSE NoteAndHold(j, fault) /\ Leaving(j, "soon") /\ UNCHANGED verdict
\* ... with neither the count nor the hold written.
SaysHoldUnwritten(j) ==
  /\ UNCHANGED card
  /\ IF Bound(j, FALSE) # "none"
     THEN Refuse(j, Bound(j, FALSE))
     ELSE Leaving(j, "soon") /\ UNCHANGED verdict
\* Stopped by the worker, or nothing the gate understands: asked again.
SaysNothing(j) ==
  /\ Leaving(j, "soon") /\ UNCHANGED verdict
  /\ UNCHANGED card \/ NoteCheck(j, TRUE)

Check(j) ==
  /\ stage[j] = "check"
  /\ \/ Answered /\ (SaysGo(j) \/ SaysNever(j) \/ SaysHold(j, FALSE) \/ SaysHold(j, TRUE))
     \/ Spend("faults") /\ SaysHoldUnwritten(j)
     \/ Spend("unclear") /\ SaysNothing(j)
  /\ GiveBack(j)
  /\ UNCHANGED <<lease, marker, others, due, claimed, blamed>>

\* The conditions cleared: a job that held says so before it releases.
Clear(j) ==
  /\ stage[j] = "clear"
  /\ Decide(j, "run") /\ Goto(j, "letgo")
  /\ \/ /\ Answered
        /\ marker' = IF card[j].since # "none" THEN j ELSE marker
     \/ Spend("faults") /\ UNCHANGED marker
  /\ UNCHANGED <<read, lease, card, capacity, due, ghosts>>

\* `release`: the card goes, the lease is read ...
End(j) ==
  /\ Goto(j, IF verdict[j] = "run" THEN "cleared" ELSE "refused")
  /\ claimed' = claimed \ {j}
LetGo(j) ==
  /\ stage[j] = "letgo"
  /\ \/ /\ Answered
        /\ card' = [card EXCEPT ![j] = Fresh]
        /\ IF lease = j THEN Goto(j, "drop") /\ UNCHANGED claimed ELSE End(j)
     \/ Spend("faults") /\ End(j) /\ UNCHANGED card
  /\ UNCHANGED <<verdict, read, lease, marker, capacity, due, blamed>>
\* ... and dropped, whoever holds it by then.
Drop(j) ==
  /\ stage[j] = "drop"
  /\ lease' = None
  /\ End(j)
  /\ UNCHANGED <<verdict, read, marker, card, capacity, outside, blamed>>

\* The gates after this one let the job run ...
Run(j) ==
  /\ stage[j] = "cleared"
  /\ Goto(j, "running")
  /\ UNCHANGED <<verdict, read, redis, capacity, outside, ghosts>>
Finish(j) ==
  /\ stage[j] = "running"
  /\ Goto(j, "ran")
  /\ UNCHANGED <<verdict, read, redis, capacity, outside, ghosts>>
\* ... or send it back, and every gate is asked again.
ScopeBusy(j) ==
  /\ stage[j] = "cleared"
  /\ Spend("busy")
  /\ Goto(j, "soon")
  /\ UNCHANGED <<verdict, read, redis, capacity, due, ghosts>>

-----------------------------------------------------------------------------
(* Disturbances. *)

\* Told to run, and not running yet.
Cleared(j) == verdict[j] = "run" /\ stage[j] \in {"letgo", "drop", "cleared"}
\* The worker dies: its pickups go back to the queue, its slots are gone.
Die ==
  /\ Can("deaths")
  /\ spent' = spent + 1
  /\ happened' = happened \cup {"deaths"}
       \cup IF \E j \in Jobs : Cleared(j) THEN {"busy"} ELSE {}
  /\ stage' = [j \in Jobs |-> IF stage[j] \in InGate \cup {"cleared"} THEN "queued" ELSE stage[j]]
  /\ slots' = {} /\ others' = 0
  /\ read' = [j \in Jobs |-> Clean]
  /\ UNCHANGED <<verdict, redis, due, ghosts>>

\* A job leaves the queue by another route than the gate's.
Leave(j) ==
  /\ Spend("leaves")
  /\ stage[j] \in Waiting \cup {"queued"}
  /\ Goto(j, "gone")
  /\ claimed' = claimed \ {j}
  /\ UNCHANGED <<verdict, read, redis, capacity, due, blamed>>

\* The keys of a hold outlive it by an hour, and no longer.
Lapse ==
  /\ Spend("lapses")
  /\ lease # None
  /\ lease' = None
  /\ card' = [card EXCEPT ![lease] = Fresh]
  /\ UNCHANGED <<local, marker, capacity, due, claimed, blamed>>

-----------------------------------------------------------------------------
Pickup(j) ==
  \/ Wake(j) \/ Slot(j) \/ Claim(j) \/ ReadHolder(j) \/ Probe(j) \/ TakeOver(j)
  \/ HoldToInstant(j) \/ Check(j) \/ Clear(j) \/ LetGo(j) \/ Drop(j)
Next ==
  \/ \E j \in Jobs : Deliver(j) \/ Promote(j) \/ Age(j) \/ Pickup(j) \/ Run(j) \/ Finish(j)
                     \/ ScopeBusy(j) \/ Leave(j)
  \/ Strike \/ Forget \/ OthersCheck \/ Die \/ Lapse

Spec == Init /\ [][Next]_vars
\* A pickup goes on, a deferral ends, the clock runs.
Fairness ==
  /\ WF_vars(Strike)
  /\ \A j \in Jobs : WF_vars(Promote(j)) /\ WF_vars(Pickup(j)) /\ WF_vars(Run(j))
                   /\ WF_vars(Finish(j)) /\ WF_vars(Age(j))
FairSpec == Spec /\ Fairness

-----------------------------------------------------------------------------
(* Properties. *)

\* The values of every variable, and the bounds on the counters.
TypeOK ==
  /\ stage \in [Jobs -> InGate \cup Waiting \cup Over \cup {"away", "queued", "cleared", "running"}]
  /\ verdict \in [Jobs -> {"none", "superseded", "unchecked", "expired", "unanswerable", "never", "run"}]
  /\ lease \in Jobs \cup {None} /\ marker \in Jobs \cup {None}
  /\ \A j \in Jobs :
       /\ card[j].since \in {"none", "young", "old"} /\ {card[j].checks, card[j].faults} \subseteq Nat
       /\ read[j].holder \in Jobs \cup {None}
  /\ Cardinality(slots) + others \in 0 .. Slots /\ spent \in 0 .. MaxSpent

\* One delivery of an intent holds at a time (`claim`, SET NX), through the
\* deaths of workers, holders that leave the queue with their key in place
\* and jobs the later gates send back: no second one is told that it may
\* hold.  A key that lapses, a release that fails, and a key released or taken
\* between two commands of a claim may each admit another.
OneHolder ==
  happened \cap {"lapses", "faults", "slips"} = {} => Cardinality(claimed) <= 1

\* A refused delivery is never sent again by its forge, so one is refused as
\* superseded only for another that is there to run in its place (`claim`'s
\* three-way answer): when all are over, one ran, or was given up for what
\* its check said, or left the queue after another was refused for it.
NeverDropped ==
  (\A j \in Jobs : stage[j] \in Over \cup {"away"}) /\ (\E j \in Jobs : stage[j] = "refused")
    => \E k \in Jobs : \/ stage[k] = "ran"
                       \/ stage[k] = "refused" /\ verdict[k] # "superseded"
                       \/ stage[k] = "gone" /\ k \in blamed
\* ... where no job that had cleared is asked again.
NeverDroppedOnce == "busy" \notin happened => NeverDropped

\* A check slot is held from the grant to the check's answer and by nobody
\* else (the `finally` around claim and check): no exit of the gate keeps it.
SlotReturned ==
  slots = IF Tier = "after" THEN {}
          ELSE {j \in Jobs : stage[j] \in {"claim", "get", "probe", "take", "check"}}

\* The job gets exactly MaxChecks checks, where each is written down.
ChecksBounded ==
  happened \cap {"faults", "deaths", "unclear"} = {} => \A j \in Jobs : card[j].checks <= MaxChecks

\* The last check decides: a job is declared expired by the answer of a check
\* and never before one, so a condition that has cleared by the deciding wake
\* runs.
DecidingCheck ==
  [][\A j \in Jobs : verdict[j] # "expired" /\ verdict'[j] = "expired" => stage[j] = "check"]_vars

\* Every delivery gets its end: it runs, it is refused, or it leaves the
\* queue.  Neither a check that never clears nor one that is never run keeps
\* it waiting past the maximum (index.mjs, the two ceilings).
WaitEnds == \A j \in Jobs : stage[j] = "queued" ~> stage[j] \in Over
=============================================================================
