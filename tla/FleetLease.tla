----------------------------- MODULE FleetLease -----------------------------
(***************************************************************************)
(* The fleet-wide concurrency lease of worker/src/fleet-lease.mjs beneath  *)
(* the in-process bound of worker/src/scoped-limits.mjs (makeInFlight), as *)
(* the scope gate of worker/src/index.mjs uses the two and as the boot     *)
(* sequence of worker/src/start.mjs sweeps what a dead worker left.        *)
(*                                                                         *)
(* A pickup is one processor call on one host: it takes the in-process     *)
(* slot, then probes Slots keys with SET key holder PX ttl NX, and runs a  *)
(* container while it holds a key.  Commands of one host reach Valkey over *)
(* one connection in the order they were issued (`wire`); a command whose  *)
(* bound fired is not taken back, it is only no longer awaited.            *)
(***************************************************************************)
EXTENDS Integers, Sequences, FiniteSets

CONSTANTS
    Hosts,       \* worker names (config.workerName)
    Pickups,     \* processor calls, each of one host and one job id
    HostOf,      \* [Pickups -> Hosts]
    JobOf,       \* the job id of each pickup
    Slots,       \* the row's `concurrent`, the ceiling of both halves
    TTL,         \* SCOPE_CLAIM_TTL_MS, in ticks
    JobTimeout,  \* JOB_TIMEOUT_MS, in ticks
    Nobody,      \* a slot key that does not exist
    MaxWire,     \* bound: commands one host has outstanding when a pickup starts
    MaxFaults    \* bound: crashes, lost replies and refused commands in a behaviour

ASSUME HostOfAssumption == HostOf \in [Pickups -> Hosts]
ASSUME PickupsAssumption == IsFiniteSet(Pickups)
ASSUME SlotsAssumption == Slots \in Nat \ {0}
\* start.mjs derives the TTL as JOB_TIMEOUT_MS plus five minutes.
ASSUME TtlAssumption == JobTimeout \in Nat /\ TTL \in Nat /\ JobTimeout < TTL
ASSUME BoundsAssumption == MaxWire \in Nat /\ MaxFaults \in Nat

Slot == 0 .. (Slots - 1)

\* `${holderPrefix}#${id}`: two pickups of one job on one host share it.
Holder(p) == <<HostOf[p], JobOf[p]>>
Holders == {Holder(p) : p \in Pickups}

ASSUME NobodyAssumption == Nobody \notin Holders

VARIABLES
    claim,     \* [Slot -> [by, left]]: the value of each slot key and its PTTL
    wire,      \* [Hosts -> Seq(Command)]: issued and not yet executed
    pc,        \* [Pickups -> phase]; "orphan": a container that outlived its worker
    hold,      \* [Pickups -> Hold]: the acquire's locals and the handle it returned
    inFlight,  \* makeInFlight's count, per worker process
    worker,    \* "up", "down" or "sweep" (booting, reaped, sweeping)
    sweepAt,   \* the next index the boot sweep asks about
    faults

vars == <<claim, wire, pc, hold, inFlight, worker, sweepAt, faults>>

Phases == {"idle", "set", "run", "orphan"}

Command == [op: {"set", "del"}, by: Pickups, keys: SUBSET Slot, live: BOOLEAN]

SetCmd(p, k) == [op |-> "set", by |-> p, keys |-> {k}, live |-> TRUE]
DelCmd(p, K) == [op |-> "del", by |-> p, keys |-> K, live |-> FALSE]
Abandoned(c) == [op |-> c.op, by |-> c.by, keys |-> c.keys, live |-> FALSE]

AbandonAt(s, i) == [s EXCEPT ![i] = Abandoned(s[i])]
WithoutKey(s, k) == [s EXCEPT ![1] = DelCmd(s[1].by, s[1].keys \ {k})]

\* at: the index probed, or won.  tried: the code's `attempted`.  degraded: granted
\* on a fault.  life: ticks before the job timeout stops the container.
Hold == [at: Slot, tried: SUBSET Slot, degraded: BOOLEAN, life: 0 .. JobTimeout]
NoHold == [at |-> 0, tried |-> {}, degraded |-> FALSE, life |-> 0]
Probing(sent, k) == [at |-> k, tried |-> sent \cup {k}, degraded |-> FALSE, life |-> 0]
Granted(r, onFault) == [at |-> r.at, tried |-> r.tried, degraded |-> onFault, life |-> JobTimeout]
WithLife(r, n) == [at |-> r.at, tried |-> r.tried, degraded |-> r.degraded, life |-> n]

Free == [by |-> Nobody, left |-> 0]

TypeOK ==
    /\ claim \in [Slot -> [by: Holders \cup {Nobody}, left: 0 .. TTL]]
    /\ wire \in [Hosts -> Seq(Command)]
    /\ pc \in [Pickups -> Phases]
    /\ hold \in [Pickups -> Hold]
    /\ inFlight \in [Hosts -> Nat]
    /\ worker \in [Hosts -> {"up", "down", "sweep"}]
    /\ sweepAt \in [Hosts -> 0 .. Slots]
    /\ faults \in 0 .. MaxFaults

Init ==
    /\ claim = [k \in Slot |-> Free]
    /\ wire = [h \in Hosts |-> <<>>]
    /\ pc = [p \in Pickups |-> "idle"]
    /\ hold = [p \in Pickups |-> NoHold]
    /\ inFlight = [h \in Hosts |-> 0]
    /\ worker = [h \in Hosts |-> "up"]
    /\ sweepAt = [h \in Hosts |-> 0]
    /\ faults = 0

-----------------------------------------------------------------------------
(* Valkey's side of the two scripts and of SET NX.                          *)

SetNX(c, k, holder) ==
    IF c[k].by = Nobody THEN [c EXCEPT ![k] = [by |-> holder, left |-> TTL]] ELSE c

\* RELEASE_IF_MINE, DELETE_IF_PREFIX: compare and delete in one step.
DeleteIf(c, k, Mine(_)) ==
    IF c[k].by # Nobody /\ Mine(c[k].by) THEN [c EXCEPT ![k] = Free] ELSE c

\* Variant: the plain DEL the script replaced.
PlainDelete(c, k, holder) == [c EXCEPT ![k] = Free]

ReleaseIfMine(c, k, holder) == DeleteIf(c, k, LAMBDA v : v = holder)
DeleteIfPrefix(c, k, host) == DeleteIf(c, k, LAMBDA v : v[1] = host)

\* Variant: SET without PX.
NeverAged(value) == value

\* PX: a key counts down and is gone at the end of its time.
Aged(value) == IF value.left <= 1 THEN Free ELSE [value EXCEPT !.left = @ - 1]

HeadOf(h) == wire[h][1]

Fault == faults < MaxFaults /\ faults' = faults + 1

-----------------------------------------------------------------------------
(* The gate: in-process slot, then the fleet slots.                         *)

\* tryAcquire's check-and-increment and the first SET; probing starts at the
\* job id's hash, which may be any index.
Take(p) ==
    LET h == HostOf[p] IN
    /\ worker[h] = "up" /\ pc[p] = "idle"
    /\ inFlight[h] < Slots
    /\ Len(wire[h]) < MaxWire
    /\ inFlight' = [inFlight EXCEPT ![h] = @ + 1]
    /\ \E k \in Slot :
         /\ hold' = [hold EXCEPT ![p] = Probing({}, k)]
         /\ wire' = [wire EXCEPT ![h] = Append(@, SetCmd(p, k))]
    /\ pc' = [pc EXCEPT ![p] = "set"]
    /\ UNCHANGED <<claim, worker, sweepAt, faults>>

\* The SET reached Valkey and its reply is awaited.
Awaited(h, p) ==
    /\ wire[h] # <<>>
    /\ HeadOf(h).op = "set" /\ HeadOf(h).live /\ HeadOf(h).by = p

Win(h, p) ==
    /\ Awaited(h, p)
    /\ claim[hold[p].at].by = Nobody
    /\ claim' = SetNX(claim, hold[p].at, Holder(p))
    /\ wire' = [wire EXCEPT ![h] = Tail(@)]
    /\ pc' = [pc EXCEPT ![p] = "run"]
    /\ hold' = [hold EXCEPT ![p] = Granted(@, FALSE)]
    /\ UNCHANGED <<inFlight, worker, sweepAt, faults>>

\* `if (!won) continue`: the next index, wrapping round.
ProbeNext(h, p) ==
    /\ Awaited(h, p)
    /\ claim[hold[p].at].by # Nobody
    /\ hold[p].tried # Slot
    /\ LET k == (hold[p].at + 1) % Slots IN
         /\ hold' = [hold EXCEPT ![p] = Probing(@.tried, k)]
         /\ wire' = [wire EXCEPT ![h] = Append(Tail(@), SetCmd(p, k))]
    /\ UNCHANGED <<claim, pc, inFlight, worker, sweepAt, faults>>

\* Variant: the deferral forgets the in-process slot.
DeferKeepingSlot(h, p) ==
    /\ Awaited(h, p)
    /\ claim[hold[p].at].by # Nobody
    /\ hold[p].tried = Slot
    /\ wire' = [wire EXCEPT ![h] = Tail(@)]
    /\ pc' = [pc EXCEPT ![p] = "idle"]
    /\ hold' = [hold EXCEPT ![p] = NoHold]
    /\ UNCHANGED <<claim, inFlight, worker, sweepAt, faults>>

\* `return null`: every slot is held, so the in-process slot goes back and the
\* job is deferred.
Defer(h, p) ==
    /\ Awaited(h, p)
    /\ claim[hold[p].at].by # Nobody
    /\ hold[p].tried = Slot
    /\ wire' = [wire EXCEPT ![h] = Tail(@)]
    /\ pc' = [pc EXCEPT ![p] = "idle"]
    /\ hold' = [hold EXCEPT ![p] = NoHold]
    /\ inFlight' = [inFlight EXCEPT ![h] = @ - 1]
    /\ UNCHANGED <<claim, worker, sweepAt, faults>>

\* What every fault of the acquire ends in: granted, with the per-host bound only.
GrantDegraded(p) ==
    /\ pc' = [pc EXCEPT ![p] = "run"]
    /\ hold' = [hold EXCEPT ![p] = Granted(@, TRUE)]

\* The 2 s bound fires first.  The SET stays on the wire and may land later.
Timeout(p) ==
    LET h == HostOf[p] IN
    /\ pc[p] = "set"
    /\ \E i \in 1 .. Len(wire[h]) :
         /\ wire[h][i].live /\ wire[h][i].by = p
         /\ wire' = [wire EXCEPT ![h] = AbandonAt(wire[h], i)]
    /\ GrantDegraded(p)
    /\ UNCHANGED <<claim, inFlight, worker, sweepAt, faults>>

\* A SET nobody waits for any more lands.
LandLate(h) ==
    /\ wire[h] # <<>> /\ HeadOf(h).op = "set" /\ ~HeadOf(h).live
    /\ \E k \in HeadOf(h).keys : claim' = SetNX(claim, k, Holder(HeadOf(h).by))
    /\ wire' = [wire EXCEPT ![h] = Tail(@)]
    /\ UNCHANGED <<pc, hold, inFlight, worker, sweepAt, faults>>

\* One RELEASE_IF_MINE of a release, over one of the keys it names.
LandRelease(h) ==
    /\ wire[h] # <<>> /\ HeadOf(h).op = "del"
    /\ \E k \in HeadOf(h).keys :
         /\ claim' = ReleaseIfMine(claim, k, Holder(HeadOf(h).by))
         /\ wire' = [wire EXCEPT ![h] =
                       IF HeadOf(h).keys = {k} THEN Tail(wire[h]) ELSE WithoutKey(wire[h], k)]
    /\ UNCHANGED <<pc, hold, inFlight, worker, sweepAt, faults>>

\* The server answers an error, or the connection drops the command: no effect.
\* An awaited SET degrades the grant, a release is lost to the TTL.
Refuse(h) ==
    /\ Fault
    /\ wire[h] # <<>>
    /\ wire' = [wire EXCEPT ![h] = Tail(@)]
    /\ IF HeadOf(h).live THEN GrantDegraded(HeadOf(h).by)
       ELSE UNCHANGED <<pc, hold>>
    /\ UNCHANGED <<claim, inFlight, worker, sweepAt>>

\* The command ran and its reply was lost; the client resends it, so it runs
\* again (specs/design.md: "a client with no bound, as a worker's, keeps both").
RunAndResend(h) ==
    /\ Fault
    /\ wire[h] # <<>>
    /\ \E k \in HeadOf(h).keys :
         claim' = IF HeadOf(h).op = "set"
                  THEN SetNX(claim, k, Holder(HeadOf(h).by))
                  ELSE ReleaseIfMine(claim, k, Holder(HeadOf(h).by))
    /\ UNCHANGED <<wire, pc, hold, inFlight, worker, sweepAt>>

-----------------------------------------------------------------------------
(* The container ends and releaseAllHolds gives everything back.            *)

Releases(handle) == IF handle.degraded THEN handle.tried ELSE {handle.at}

\* Variant: the drain runs twice and nothing clamps the count.
FinishTwice(p) ==
    LET h == HostOf[p] IN
    /\ pc[p] = "run"
    /\ pc' = [pc EXCEPT ![p] = "idle"]
    /\ inFlight' = [inFlight EXCEPT ![h] = @ - 2]
    /\ hold' = [hold EXCEPT ![p] = NoHold]
    /\ wire' = [wire EXCEPT ![h] = Append(@, DelCmd(p, Releases(hold[p])))]
    /\ UNCHANGED <<claim, worker, sweepAt, faults>>

\* The in-process slot goes back synchronously; the fleet half is one release
\* over the key won, or over every key tried when the grant was degraded.
Finish(p) ==
    LET h == HostOf[p] IN
    /\ pc[p] = "run"
    /\ pc' = [pc EXCEPT ![p] = "idle"]
    /\ inFlight' = [inFlight EXCEPT ![h] = @ - 1]
    /\ hold' = [hold EXCEPT ![p] = NoHold]
    /\ wire' = [wire EXCEPT ![h] = Append(@, DelCmd(p, Releases(hold[p])))]
    /\ UNCHANGED <<claim, worker, sweepAt, faults>>

\* Variant: a container is allowed past the job timeout.
TickPastTimeout ==
    /\ claim' = [k \in Slot |-> Aged(claim[k])]
    /\ UNCHANGED <<wire, pc, hold, inFlight, worker, sweepAt, faults>>

\* Time passes: every key ages, and the job timeout stops a container in time.
Tick ==
    /\ \A p \in Pickups : pc[p] = "run" => hold[p].life > 0
    /\ claim' = [k \in Slot |-> Aged(claim[k])]
    /\ hold' = [p \in Pickups |-> IF pc[p] = "run" THEN WithLife(hold[p], hold[p].life - 1) ELSE hold[p]]
    /\ UNCHANGED <<wire, pc, inFlight, worker, sweepAt, faults>>

-----------------------------------------------------------------------------
(* Crash, boot reaper, claim sweep.                                         *)

\* The in-process map dies with the worker; containers do not.  Some of what
\* was on the wire is still executed.
Crash(h) ==
    /\ Fault
    /\ worker[h] = "up"
    /\ worker' = [worker EXCEPT ![h] = "down"]
    /\ inFlight' = [inFlight EXCEPT ![h] = 0]
    /\ \E n \in 0 .. Len(wire[h]) :
         wire' = [wire EXCEPT ![h] = [i \in 1 .. n |-> Abandoned(wire[h][i])]]
    /\ pc' = [p \in Pickups |-> IF HostOf[p] # h THEN pc[p]
                                ELSE CASE pc[p] = "run" -> "orphan"
                                       [] pc[p] = "set" -> "idle"
                                       [] OTHER -> pc[p]]
    /\ hold' = [p \in Pickups |-> IF HostOf[p] # h THEN hold[p]
                                  ELSE CASE pc[p] = "run" -> WithLife(hold[p], 0)
                                         [] pc[p] = "set" -> NoHold
                                         [] OTHER -> hold[p]]
    /\ UNCHANGED <<claim, sweepAt>>

\* A container with no worker over it ends by itself, whenever it does.
OrphanExits(p) ==
    /\ pc[p] = "orphan"
    /\ pc' = [pc EXCEPT ![p] = "idle"]
    /\ hold' = [hold EXCEPT ![p] = NoHold]
    /\ UNCHANGED <<claim, wire, inFlight, worker, sweepAt, faults>>

OrphansOf(h) == {p \in Pickups : HostOf[p] = h /\ pc[p] = "orphan"}

\* The boot reaper enumerated this host's containers and removed them, so the
\* sweep may run.
BootReaped(h) ==
    /\ worker[h] = "down"
    /\ worker' = [worker EXCEPT ![h] = "sweep"]
    /\ pc' = [p \in Pickups |-> IF p \in OrphansOf(h) THEN "idle" ELSE pc[p]]
    /\ hold' = [p \in Pickups |-> IF p \in OrphansOf(h) THEN NoHold ELSE hold[p]]
    /\ UNCHANGED <<claim, wire, inFlight, sweepAt, faults>>

\* Variant: the sweep does not ask whether the reaper enumerated.
BootSweepsUnreaped(h) ==
    /\ worker[h] = "down"
    /\ worker' = [worker EXCEPT ![h] = "sweep"]
    /\ UNCHANGED <<claim, wire, pc, hold, inFlight, sweepAt, faults>>

\* It did not, or not for every backend: the sweep is skipped (`reaper-skipped`).
BootUnreaped(h) ==
    /\ worker[h] = "down"
    /\ worker' = [worker EXCEPT ![h] = "up"]
    /\ UNCHANGED <<claim, wire, pc, hold, inFlight, sweepAt, faults>>

\* One index; a reply error is about that key only, and the sweep goes on.
Sweep(h) ==
    /\ worker[h] = "sweep" /\ sweepAt[h] < Slots
    /\ \/ claim' = DeleteIfPrefix(claim, sweepAt[h], h) /\ UNCHANGED faults
       \/ Fault /\ UNCHANGED claim
    /\ sweepAt' = [sweepAt EXCEPT ![h] = @ + 1]
    /\ UNCHANGED <<wire, pc, hold, inFlight, worker>>

\* Every index asked, or the sweep stopped at its first fault: boot goes on.
SweepEnds(h) ==
    /\ worker[h] = "sweep"
    /\ IF sweepAt[h] = Slots THEN UNCHANGED faults ELSE Fault
    /\ worker' = [worker EXCEPT ![h] = "up"]
    /\ sweepAt' = [sweepAt EXCEPT ![h] = 0]
    /\ UNCHANGED <<claim, wire, pc, hold, inFlight>>

-----------------------------------------------------------------------------
HostStep(h) ==
    \/ \E p \in Pickups : Win(h, p) \/ ProbeNext(h, p) \/ Defer(h, p)
    \/ LandLate(h) \/ LandRelease(h) \/ Refuse(h) \/ RunAndResend(h)
    \/ Crash(h) \/ BootReaped(h) \/ BootUnreaped(h) \/ Sweep(h) \/ SweepEnds(h)

Next ==
    \/ \E p \in Pickups : Take(p) \/ Timeout(p) \/ Finish(p) \/ OrphanExits(p)
    \/ \E h \in Hosts : HostStep(h)
    \/ Tick

Spec == Init /\ [][Next]_vars

\* Time passes, and the two timers (the lease bound, the job timeout) fire.
FairSpec ==
    /\ Spec
    /\ WF_vars(Tick)
    /\ \A p \in Pickups : WF_vars(Timeout(p)) /\ WF_vars(Finish(p))
-----------------------------------------------------------------------------
(* Properties.                                                              *)

Inside == {p \in Pickups : pc[p] = "run" /\ ~hold[p].degraded}

\* A container that was granted a slot keeps its claim for as long as it runs,
\* with time to spare: no expiry, late command, release or sweep takes the key
\* from under it (start.mjs: "the claim cannot expire underneath a live job").
HeldWhileRunning ==
    \A p \in Inside : claim[hold[p].at].by = Holder(p) /\ claim[hold[p].at].left > hold[p].life

\* The in-process count of a worker is exactly its pickups between the take and
\* the give-back, and never passes the ceiling, whatever Valkey does: a missed
\* release wedges the scope, a double one lets one container too many start.
InGate(h) == {p \in Pickups : HostOf[p] = h /\ pc[p] \in {"set", "run"}}
PerHostBound ==
    \A h \in Hosts : inFlight[h] = Cardinality(InGate(h)) /\ inFlight[h] <= Slots

\* The lease implements the fleet-wide bound: over every host, at most Slots
\* containers run on an undegraded grant.
Bound == INSTANCE SlotBound WITH Members <- Pickups, inside <- Inside
FleetBound == Bound!Spec

\* No step frees the key of a container that is still alive: only the end of
\* that container, or the expiry of a claim whose worker died, does.  The boot
\* sweep rests on the reaper for it (fleet-lease.mjs, makeClaimSweeper).
FreedOnlyWhenOver ==
    [][\A p \in Pickups :
          /\ pc[p] \in {"run", "orphan"} /\ ~hold[p].degraded
          /\ claim[hold[p].at].by = Holder(p)
          /\ claim'[hold[p].at].by # Holder(p)
          => pc'[p] = "idle" \/ (pc[p] = "orphan" /\ claim[hold[p].at].left <= 1)]_vars

\* Whatever was lost (a release, a worker, the reply to a SET that landed), the
\* claim it leaves ends: the TTL is the backstop of every path.
ClaimsEnd == \A k \in Slot : claim[k].by # Nobody ~> claim[k].by = Nobody
=============================================================================
