----------------------------- MODULE MCHoldsSplit ----------------------------
(* Parts that share no state, one of them at work in a behaviour.  Two cancels *)
(* of a job that is held (the constants of the cfg) or of one that is not;     *)
(* jobs held on a condition, the instances of WaitGate that MCWaitGate puts    *)
(* together; the split of the money, the instances of Allocation that          *)
(* MCAllocation puts together; a watch finding, from a source of two lines     *)
(* that two collectors share, or from one line through every kind of rule; the *)
(* issue of a watch rule, two jobs and two sweepers under one disturbance.     *)
(* The last four are never at work together, so their state is kept in the     *)
(* same variables, x1 to x21.                                                  *)
EXTENDS CancelState

CONSTANTS j1, j2, None, r1, r2, p1, p2, v1, w1, w2, h1, h2, e0, e1, e2
VARIABLES part,
  stage, verdict, read, lease, marker, card, due, slots, others, waitSpent, waitHappened, claimed,
  blamed, scenario,
  x1, x2, x3, x4, x5, x6, x7, x8, x9, x10, x11, x12, x13, x14, x15, x16, x17, x18, x19, x20, x21

Plain == INSTANCE CancelState WITH Held <- FALSE
Gate == INSTANCE MCWaitGate WITH
  Jobs <- {j1, j2}, Tier <- "polled", MaxChecks <- 2, MaxFaults <- 2, Slots <- 1, Fleet <- TRUE,
  Disturbances <- {"faults", "deaths", "leaves", "lapses", "unclear", "busy"}, MaxSpent <- 1,
  spent <- waitSpent, happened <- waitHappened
\* Two hosts' pickups, two writes of one host's envelope file, any one disturbance.
Split == INSTANCE MCAllocation WITH
  Pickups <- {r1, r2}, Plans <- {}, Reverts <- {}, Writes <- {w1, w2},
  HostOf <- [x \in {r1, r2, w1, w2} |-> IF x = r2 THEN h2 ELSE h1],
  NewOf <- [w \in {w1, w2} |-> IF w = w1 THEN e1 ELSE e2],
  Hosts <- {h1, h2}, Digests <- {e0, e1, e2}, First <- e0, Delegates <- {e0, e1},
  Interval <- 2, Life <- 1, MaxClock <- 1, Rounds <- 1,
  Disturbances <- {"faults", "lost", "crash", "disk", "edit", "flush", "corrupt"}, MaxSpent <- 1,
  plan <- x1, expected <- x2, lock <- x3, file <- x4, clock <- x5, at <- x6, my <- x7,
  told <- x8, rows <- x9, spent <- x10, happened <- x11, landed <- x12, robbed <- x13,
  stale <- x14, back <- x15, planned <- x16, named <- x17, official <- x18, scenario <- x19
Source == INSTANCE WatchFinding WITH
  Lines <- 2, Collectors <- {"c1", "c2"}, MinCount <- 2, Rules <- {"run"},
  Attempts <- 2, Disturbances <- {"faults", "crashes", "fails", "skew"}, MaxSpent <- 1,
  rule <- x1, written <- x2, cursor <- x3, lease <- x4, pull <- x5, window <- x6, answer <- x7,
  finding <- x8, status <- x9, decision <- x10, pending <- x11, queue <- x12, tries <- x13,
  at <- x14, saw <- x15, exit <- x16, taken <- x17, decisions <- x18, acted <- x19,
  spent <- x20, happened <- x21
Rule == INSTANCE WatchFinding WITH
  Lines <- 1, Collectors <- {"c1"}, MinCount <- 1, Rules <- {"shadow", "active", "issue"},
  Attempts <- 2, Disturbances <- {"faults", "crashes", "fails"}, MaxSpent <- 1,
  rule <- x1, written <- x2, cursor <- x3, lease <- x4, pull <- x5, window <- x6, answer <- x7,
  finding <- x8, status <- x9, decision <- x10, pending <- x11, queue <- x12, tries <- x13,
  at <- x14, saw <- x15, exit <- x16, taken <- x17, decisions <- x18, acted <- x19,
  spent <- x20, happened <- x21
Issue == INSTANCE WatchIssue WITH
  Jobs <- {"j1", "j2"}, Attempts <- 2, Sweepers <- {"s1", "s2"}, CloseAfter <- 1,
  MaxClock <- 1, MaxNotes <- 2, Disturbances <- {"calls", "deaths", "policy"}, MaxSpent <- 1,
  mapping <- x1, activity <- x2, quiet <- x3, lock <- x4, room <- x5, issues <- x6, open <- x7,
  policy <- x8, clock <- x9, publish <- x10, target <- x11, held <- x12, tries <- x13,
  sweep <- x14, spent <- x15, happened <- x16, crossed <- x17
ASSUME WatchAssumption ==
  Source!FindingAssumption /\ Rule!FindingAssumption /\ Issue!IssueAssumption

gate == <<stage, verdict, read, lease, marker, card, due, slots, others, waitSpent, waitHappened,
          claimed, blamed, scenario>>
later == <<x18, x19>>
last == <<x20, x21>>
shared == <<x1, x2, x3, x4, x5, x6, x7, x8, x9, x10, x11, x12, x13, x14, x15, x16, x17, x18,
            x19, x20, x21>>
all == <<part, gate, shared, vars>>

Unused == "unused"
LastUnused == x20 = Unused /\ x21 = Unused
LaterUnused == x18 = Unused /\ x19 = Unused
Unshared ==
  /\ x1 = Unused /\ x2 = Unused /\ x3 = Unused /\ x4 = Unused /\ x5 = Unused /\ x6 = Unused
  /\ x7 = Unused /\ x8 = Unused /\ x9 = Unused /\ x10 = Unused /\ x11 = Unused /\ x12 = Unused
  /\ x13 = Unused /\ x14 = Unused /\ x15 = Unused /\ x16 = Unused /\ x17 = Unused
  /\ LaterUnused /\ LastUnused
SplitInit == Split!MCInit /\ LastUnused
IssueInit == Issue!Init /\ LaterUnused /\ LastUnused

GateRests == scenario = "after" /\ Gate!MCInit
MCInit ==
  \/ part = "held" /\ Init /\ GateRests /\ Unshared
  \/ part = "plain" /\ Plain!Init /\ GateRests /\ Unshared
  \/ part = "gate" /\ Init /\ Gate!MCInit /\ Unshared
  \/ part = "split" /\ Init /\ GateRests /\ SplitInit
  \/ part = "source" /\ Init /\ GateRests /\ Source!Init
  \/ part = "rule" /\ Init /\ GateRests /\ Rule!Init
  \/ part = "issue" /\ Init /\ GateRests /\ IssueInit
MCNext ==
  /\ part' = part
  /\ \/ part = "held" /\ Next /\ UNCHANGED <<gate, shared>>
     \/ part = "plain" /\ Plain!Next /\ UNCHANGED <<gate, shared>>
     \/ part = "gate" /\ Gate!MCNext /\ UNCHANGED <<shared, vars>>
     \/ part = "split" /\ Split!MCNext /\ UNCHANGED <<gate, last, vars>>
     \/ part = "source" /\ Source!Next /\ UNCHANGED <<gate, vars>>
     \/ part = "rule" /\ Rule!Next /\ UNCHANGED <<gate, vars>>
     \/ part = "issue" /\ Issue!Next /\ UNCHANGED <<gate, later, last, vars>>
MCSpec == MCInit /\ [][MCNext]_all

-----------------------------------------------------------------------------
\* See CancelState, WaitGate, Allocation, WatchFinding and WatchIssue: the values of
\* every key and call.
TypesOK ==
  CASE part \in {"held", "plain"} -> TypeOK
    [] part = "gate" -> Gate!EachTypeOK
    [] part = "split" -> Split!EachTypeOK
    [] part = "source" -> Source!TypeOK
    [] part = "rule" -> Rule!TypeOK
    [] part = "issue" -> Issue!TypeOK
(* CancelAnswersTrue and NeverAgain are CancelState's own. *)

\* See WaitGate: one delivery of an intent holds at a time, and a refused one has
\* another in its place.
HeldOnce == part = "gate" => Gate!EachOneHolder /\ Gate!EachNeverDroppedOnce
\* See WaitGate: no exit keeps a check slot, and no wait asks more often than
\* PI_WAIT_MAX_CHECKS.
ChecksBounded == part = "gate" => Gate!EachSlotReturned /\ Gate!EachChecksBounded
\* See WaitGate: a job is declared expired by the answer of a check.
DecidingCheck == [][part = "gate" => Gate!EachDecided]_all

\* See WatchIssue: one issue of an identity, shown as the mapping says and on the
\* list of the sweep, whoever published, closed, failed or died.
IssueKept ==
  part = "issue" => Issue!OneIssue /\ Issue!ShownAsMapped /\ Issue!WatchedForQuiet
\* See WatchFinding: every line held is decided on once by a job that exists, a
\* decision is bought once, and once it is somebody is to act.
FindingKept ==
  /\ part = "source" => /\ Source!EvidenceIsWhole /\ Source!CheckpointedIsQueued
                        /\ Source!DecidedOnce /\ Source!HandedOn
  /\ part = "rule" => /\ Rule!EvidenceIsWhole /\ Rule!CheckpointedIsQueued
                      /\ Rule!DecidedOnce /\ Rule!HandedOn

\* See Allocation: a change has its row, the audit and the caller are told the
\* truth, the lock is kept, and a write that did not take puts the digest back.
PlanToldTrue ==
  part = "split" => /\ Split!EachChangeHasRow
                    /\ Split!EachToldTheTruth
                    /\ Split!EachLockKept
                    /\ Split!EachExpectedHasFile
\* See Allocation: no state replaced in between is overwritten, plans keep the
\* interval, a hand edit never re-bases the fleet, and what the operator wrote is
\* not taken for one.
PlanReplacesWhatItRead ==
  [][part = "split" => /\ ~Split!Overwriting
                       /\ ~Split!Hurrying
                       /\ ~Split!Misled
                       /\ ~Split!Mistaking]_all
=============================================================================
