-------------------------- MODULE FleetLease_proofs --------------------------
(***************************************************************************)
(* What TLAPS proves of FleetLease: its types, the per-host bound and the  *)
(* claim a running container keeps, for every number of hosts, pickups and *)
(* slots, every TTL above the job timeout and every bound on the faults.   *)
(***************************************************************************)
EXTENDS FleetLease, FiniteSetTheorems, TLAPS

\* A pickup is between its take and its give-back only under a live worker.
UpWhileIn == \A p \in Pickups : pc[p] \in {"set", "run"} => worker[HostOf[p]] = "up"

\* What the commands of a host's connection still outstanding can do: an awaited
\* SET is the last command of a pickup that waits for it, and a pickup that won
\* its key has no command left that could touch it.
CommandOK(h, i) ==
    LET c == wire[h][i] IN
    /\ HostOf[c.by] = h
    /\ c.live =>
         /\ c.op = "set"
         /\ pc[c.by] = "set"
         /\ c.keys = {hold[c.by].at}
         /\ \A j \in i + 1 .. Len(wire[h]) : wire[h][j].by # c.by
    /\ c.by \notin Inside
WireOK == \A h \in Hosts : \A i \in 1 .. Len(wire[h]) : CommandOK(h, i)

GateInv == TypeOK /\ PerHostBound /\ UpWhileIn /\ WireOK

USE HostOfAssumption, SlotsAssumption, TtlAssumption, BoundsAssumption

-----------------------------------------------------------------------------
LEMMA SlotFacts == 0 \in Slot /\ \A k \in Slot : (k + 1) % Slots \in Slot
  BY DEF Slot

LEMMA HolderFacts == \A p \in Pickups : Holder(p) \in Holders /\ Holder(p)[1] = HostOf[p]
  BY DEF Holder, Holders

LEMMA HoldMade ==
    /\ NoHold \in Hold
    /\ \A k \in Slot : Probing({}, k) \in Hold
    /\ \A r \in Hold : \A k \in Slot : Probing(r.tried, k) \in Hold
    /\ \A r \in Hold : \A b \in BOOLEAN : Granted(r, b) \in Hold
    /\ \A r \in Hold : \A n \in 0 .. JobTimeout : WithLife(r, n) \in Hold
    /\ \A r \in Hold : Releases(r) \in SUBSET Slot
<1>1. NoHold \in Hold
  BY SlotFacts DEF NoHold, Hold
<1>2. \A k \in Slot : Probing({}, k) \in Hold
  BY DEF Probing, Hold
<1>3. \A r \in Hold : \A k \in Slot : Probing(r.tried, k) \in Hold
  BY DEF Probing, Hold
<1>4. \A r \in Hold : \A b \in BOOLEAN : Granted(r, b) \in Hold
  BY DEF Granted, Hold
<1>5. \A r \in Hold : \A n \in 0 .. JobTimeout : WithLife(r, n) \in Hold
  BY DEF WithLife, Hold
<1>6. \A r \in Hold : Releases(r) \in SUBSET Slot
  BY DEF Releases, Hold
<1> QED
  BY <1>1, <1>2, <1>3, <1>4, <1>5, <1>6

LEMMA HoldAt == TypeOK => \A p \in Pickups : hold[p] \in Hold /\ hold[p].at \in Slot
  BY DEF TypeOK, Hold

LEMMA CommandMade ==
    /\ \A p \in Pickups : \A k \in Slot : SetCmd(p, k) \in Command
    /\ \A p \in Pickups : \A K \in SUBSET Slot : DelCmd(p, K) \in Command
    /\ \A c \in Command : Abandoned(c) \in Command
    /\ \A c \in Command : c.by \in Pickups /\ c.keys \in SUBSET Slot
<1>1. \A p \in Pickups : \A k \in Slot : SetCmd(p, k) \in Command
  BY DEF SetCmd, Command
<1>2. \A p \in Pickups : \A K \in SUBSET Slot : DelCmd(p, K) \in Command
  BY DEF DelCmd, Command
<1>3. \A c \in Command : Abandoned(c) \in Command
  BY DEF Abandoned, Command
<1>4. \A c \in Command : c.by \in Pickups /\ c.keys \in SUBSET Slot
  BY DEF Command
<1> QED
  BY <1>1, <1>2, <1>3, <1>4

LEMMA SeqMade ==
    \A s \in Seq(Command) :
        /\ \A i \in 1 .. Len(s) : AbandonAt(s, i) \in Seq(Command)
        /\ s # <<>> => \A k : WithoutKey(s, k) \in Seq(Command)
<1> SUFFICES ASSUME NEW s \in Seq(Command)
             PROVE  /\ \A i \in 1 .. Len(s) : AbandonAt(s, i) \in Seq(Command)
                    /\ s # <<>> => \A k : WithoutKey(s, k) \in Seq(Command)
  OBVIOUS
<1>1. ASSUME NEW i \in 1 .. Len(s) PROVE AbandonAt(s, i) \in Seq(Command)
  <2>1. s[i] \in Command
    OBVIOUS
  <2>2. Abandoned(s[i]) \in Command
    BY <2>1, CommandMade
  <2> QED
    BY <2>2 DEF AbandonAt
<1>2. ASSUME s # <<>>, NEW k PROVE WithoutKey(s, k) \in Seq(Command)
  <2>1. s[1] \in Command
    BY <1>2
  <2>2. DelCmd(s[1].by, s[1].keys \ {k}) \in Command
    BY <2>1, CommandMade
  <2> QED
    BY <1>2, <2>2 DEF WithoutKey
<1> QED
  BY <1>1, <1>2

LEMMA WithoutKeyFacts ==
  ASSUME NEW s \in Seq(Command), NEW k, Len(s) # 0
  PROVE  /\ Len(WithoutKey(s, k)) = Len(s)
         /\ WithoutKey(s, k)[1] = DelCmd(s[1].by, s[1].keys \ {k})
         /\ \A j \in 1 .. Len(s) : j # 1 => WithoutKey(s, k)[j] = s[j]
<1> DEFINE c == DelCmd(s[1].by, s[1].keys \ {k})
<1>1. s \in [1 .. Len(s) -> Command] /\ Len(s) \in Nat
  OBVIOUS
<1>2. [s EXCEPT ![1] = c] \in [1 .. Len(s) -> Command]
  <2>1. s[1] \in Command
    BY <1>1
  <2>2. c \in Command
    BY <2>1, CommandMade
  <2> HIDE DEF c
  <2> QED
    BY <1>1, <2>2
<1>3. Len([s EXCEPT ![1] = c]) = Len(s)
  <2> HIDE DEF c
  <2> QED
    BY <1>1, <1>2
<1>4. [s EXCEPT ![1] = c][1] = c /\ \A j \in 1 .. Len(s) : j # 1 => [s EXCEPT ![1] = c][j] = s[j]
  <2> HIDE DEF c
  <2> QED
    BY <1>1
<1> QED
  BY <1>3, <1>4 DEF WithoutKey

LEMMA WireFacts ==
  ASSUME wire \in [Hosts -> Seq(Command)], NEW h \in Hosts, wire[h] # <<>>
  PROVE  /\ HeadOf(h) \in Command
         /\ Tail(wire[h]) \in Seq(Command)
         /\ Len(Tail(wire[h])) = Len(wire[h]) - 1
         /\ \A i \in 1 .. Len(wire[h]) - 1 : Tail(wire[h])[i] = wire[h][i + 1]
         /\ Len(wire[h]) \in Nat \ {0}
  BY DEF HeadOf

LEMMA HeadFacts ==
  ASSUME TypeOK, NEW h \in Hosts, wire[h] # <<>>
  PROVE  HeadOf(h).by \in Pickups /\ HeadOf(h).keys \in SUBSET Slot
<1>1. HeadOf(h) \in Command
  BY WireFacts DEF TypeOK
<1> QED
  BY <1>1, CommandMade

LEMMA ClaimFacts ==
  ASSUME NEW c \in [Slot -> [by: Holders \cup {Nobody}, left: 0 .. TTL]],
         NEW k \in Slot, NEW p \in Pickups
  PROVE  /\ SetNX(c, k, Holder(p)) \in [Slot -> [by: Holders \cup {Nobody}, left: 0 .. TTL]]
         /\ ReleaseIfMine(c, k, Holder(p)) \in [Slot -> [by: Holders \cup {Nobody}, left: 0 .. TTL]]
  BY HolderFacts DEF SetNX, ReleaseIfMine, DeleteIf, Free

LEMMA SweepFacts ==
  ASSUME NEW c \in [Slot -> [by: Holders \cup {Nobody}, left: 0 .. TTL]],
         NEW k \in Slot, NEW h \in Hosts
  PROVE  DeleteIfPrefix(c, k, h) \in [Slot -> [by: Holders \cup {Nobody}, left: 0 .. TTL]]
  BY DEF DeleteIfPrefix, DeleteIf, Free

\* A host with a pickup in its gate counts at least one.
LEMMA GateNotEmpty ==
  ASSUME NEW h \in Hosts, NEW p \in InGate(h)
  PROVE  Cardinality(InGate(h)) \in Nat \ {0}
<1>1. IsFiniteSet(InGate(h))
  BY PickupsAssumption, FS_Subset DEF InGate
<1> QED
  BY <1>1, FS_EmptySet, FS_CardinalityType

\* The awaited SET belongs to a pickup of that host which waits for it.
LEMMA WaitingFacts ==
  ASSUME TypeOK, WireOK, NEW h \in Hosts, NEW p \in Pickups, Awaited(h, p)
  PROVE  /\ HostOf[p] = h
         /\ pc[p] = "set"
         /\ HeadOf(h).keys = {hold[p].at}
         /\ \A i \in 2 .. Len(wire[h]) : wire[h][i].by # p
  BY WireFacts DEF TypeOK, WireOK, CommandOK, Awaited, HeadOf

\* The pickup of an awaited head waits, and its command is its last one.
LEMMA HeadOK ==
  ASSUME TypeOK, WireOK, NEW h \in Hosts, wire[h] # <<>>
  PROVE  /\ HostOf[HeadOf(h).by] = h
         /\ HeadOf(h).by \notin Inside
         /\ HeadOf(h).live =>
              /\ pc[HeadOf(h).by] = "set"
              /\ \A i \in 2 .. Len(wire[h]) : wire[h][i].by # HeadOf(h).by
  BY WireFacts DEF TypeOK, WireOK, CommandOK, HeadOf

LEMMA TypeInit == Init => TypeOK
<1> SUFFICES ASSUME Init PROVE TypeOK
  OBVIOUS
<1>1. Free \in [by: Holders \cup {Nobody}, left: 0 .. TTL]
  BY DEF Free
<1>2. claim \in [Slot -> [by: Holders \cup {Nobody}, left: 0 .. TTL]]
  BY <1>1 DEF Init
<1>3. wire \in [Hosts -> Seq(Command)]
  BY DEF Init
<1>4. hold \in [Pickups -> Hold]
  <2>1. NoHold \in Hold
    BY SlotFacts DEF NoHold, Hold
  <2> QED
    BY <2>1 DEF Init
<1>5. /\ pc \in [Pickups -> Phases]
      /\ inFlight \in [Hosts -> Nat]
      /\ worker \in [Hosts -> {"up", "down", "sweep"}]
      /\ sweepAt \in [Hosts -> 0 .. Slots]
      /\ faults \in 0 .. MaxFaults
  BY DEF Init, Phases
<1> QED
  BY <1>2, <1>3, <1>4, <1>5 DEF TypeOK

LEMMA TypeStep == GateInv /\ [Next]_vars => TypeOK'
<1> SUFFICES ASSUME GateInv, [Next]_vars PROVE TypeOK'
  OBVIOUS
<1> TypeOK
  BY DEF GateInv
<1>1. ASSUME NEW p \in Pickups, Take(p) PROVE TypeOK'
  <2>1. wire' \in [Hosts -> Seq(Command)]
    <3>1. \A k \in Slot : SetCmd(p, k) \in Command
      BY DEF SetCmd, Command
    <3> QED
      BY <1>1, <3>1 DEF Take, TypeOK
  <2>2. pc' \in [Pickups -> Phases]
    BY <1>1 DEF Take, Phases, TypeOK
  <2>3. hold' \in [Pickups -> Hold]
    <3>1. \A k \in Slot : Probing({}, k) \in Hold
      BY DEF Probing, Hold
    <3> QED
      BY <1>1, <3>1 DEF Take, TypeOK
  <2>4. inFlight' \in [Hosts -> Nat]
    BY <1>1 DEF Take, TypeOK
  <2> QED
    BY <1>1, <2>1, <2>2, <2>3, <2>4 DEF Take, TypeOK
<1>2. ASSUME NEW p \in Pickups, Timeout(p) PROVE TypeOK'
  <2>1. wire' \in [Hosts -> Seq(Command)]
    <3>1. wire[HostOf[p]] \in Seq(Command)
      BY DEF TypeOK
    <3>2. PICK i \in 1 .. Len(wire[HostOf[p]]) :
             wire' = [wire EXCEPT ![HostOf[p]] = AbandonAt(wire[HostOf[p]], i)]
      BY <1>2 DEF Timeout
    <3>3. AbandonAt(wire[HostOf[p]], i) \in Seq(Command)
      BY <3>1, SeqMade
    <3> QED
      BY <3>2, <3>3 DEF TypeOK
  <2>2. pc' \in [Pickups -> Phases]
    BY <1>2 DEF Timeout, GrantDegraded, Phases, TypeOK
  <2>3. hold' \in [Pickups -> Hold]
    <3>1. Granted(hold[p], TRUE) \in Hold
      BY HoldMade, HoldAt
    <3> QED
      BY <1>2, <3>1 DEF Timeout, GrantDegraded, TypeOK
  <2> QED
    BY <1>2, <2>1, <2>2, <2>3 DEF Timeout, TypeOK
<1>3. ASSUME NEW p \in Pickups, Finish(p) PROVE TypeOK'
  <2>1. wire' \in [Hosts -> Seq(Command)]
    <3>1. DelCmd(p, Releases(hold[p])) \in Command
      BY HoldMade, HoldAt, CommandMade
    <3> QED
      BY <1>3, <3>1 DEF Finish, TypeOK
  <2>2. pc' \in [Pickups -> Phases]
    BY <1>3 DEF Finish, Phases, TypeOK
  <2>3. hold' \in [Pickups -> Hold]
    <3>1. NoHold \in Hold
      BY HoldMade
    <3> QED
      BY <1>3, <3>1 DEF Finish, TypeOK
  <2>4. inFlight' \in [Hosts -> Nat]
    <3>1. p \in InGate(HostOf[p])
      BY <1>3 DEF Finish, InGate
    <3> QED
      BY <1>3, <3>1, GateNotEmpty DEF Finish, TypeOK, GateInv, PerHostBound
  <2> QED
    BY <1>3, <2>1, <2>2, <2>3, <2>4 DEF Finish, TypeOK
<1>4. ASSUME NEW p \in Pickups, OrphanExits(p) PROVE TypeOK'
  <2>1. pc' \in [Pickups -> Phases]
    BY <1>4 DEF OrphanExits, Phases, TypeOK
  <2>2. hold' \in [Pickups -> Hold]
    <3>1. NoHold \in Hold
      BY HoldMade
    <3> QED
      BY <1>4, <3>1 DEF OrphanExits, TypeOK
  <2> QED
    BY <1>4, <2>1, <2>2 DEF OrphanExits, TypeOK
<1>5. ASSUME NEW h \in Hosts, NEW p \in Pickups, Win(h, p) PROVE TypeOK'
  <2>1. claim' \in [Slot -> [by: Holders \cup {Nobody}, left: 0 .. TTL]]
    BY <1>5, HoldAt, ClaimFacts DEF Win, TypeOK
  <2>2. wire' \in [Hosts -> Seq(Command)]
    BY <1>5, WireFacts DEF Win, Awaited, TypeOK
  <2>3. pc' \in [Pickups -> Phases]
    BY <1>5 DEF Win, Phases, TypeOK
  <2>4. hold' \in [Pickups -> Hold]
    <3>1. Granted(hold[p], FALSE) \in Hold
      BY HoldMade, HoldAt
    <3> QED
      BY <1>5, <3>1 DEF Win, TypeOK
  <2> QED
    BY <1>5, <2>1, <2>2, <2>3, <2>4 DEF Win, TypeOK
<1>6. ASSUME NEW h \in Hosts, NEW p \in Pickups, ProbeNext(h, p) PROVE TypeOK'
  <2>1. wire' \in [Hosts -> Seq(Command)]
    <3>1. SetCmd(p, (hold[p].at + 1) % Slots) \in Command
      BY HoldAt, SlotFacts DEF SetCmd, Command
    <3> QED
      BY <1>6, <3>1, WireFacts DEF ProbeNext, Awaited, TypeOK
  <2>2. hold' \in [Pickups -> Hold]
    <3>1. Probing(hold[p].tried, (hold[p].at + 1) % Slots) \in Hold
      BY HoldMade, HoldAt, SlotFacts
    <3> QED
      BY <1>6, <3>1 DEF ProbeNext, TypeOK
  <2> QED
    BY <1>6, <2>1, <2>2 DEF ProbeNext, TypeOK
<1>7. ASSUME NEW h \in Hosts, NEW p \in Pickups, Defer(h, p) PROVE TypeOK'
  <2>1. wire' \in [Hosts -> Seq(Command)]
    BY <1>7, WireFacts DEF Defer, Awaited, TypeOK
  <2>2. pc' \in [Pickups -> Phases]
    BY <1>7 DEF Defer, Phases, TypeOK
  <2>3. hold' \in [Pickups -> Hold]
    <3>1. NoHold \in Hold
      BY HoldMade
    <3> QED
      BY <1>7, <3>1 DEF Defer, TypeOK
  <2>4. inFlight' \in [Hosts -> Nat]
    <3>1. p \in InGate(h)
      <4>1. HostOf[p] = h /\ pc[p] = "set"
        BY <1>7, WaitingFacts DEF Defer, GateInv
      <4> QED
        BY <4>1 DEF InGate
    <3> QED
      BY <1>7, <3>1, GateNotEmpty DEF Defer, TypeOK, GateInv, PerHostBound
  <2> QED
    BY <1>7, <2>1, <2>2, <2>3, <2>4 DEF Defer, TypeOK
<1>8. ASSUME NEW h \in Hosts, LandLate(h) PROVE TypeOK'
  <2>1. claim' \in [Slot -> [by: Holders \cup {Nobody}, left: 0 .. TTL]]
    <3>1. HeadOf(h).by \in Pickups /\ HeadOf(h).keys \subseteq Slot
      BY <1>8, HeadFacts DEF LandLate, TypeOK
    <3>2. \A k \in Slot, q \in Pickups : SetNX(claim, k, Holder(q)) \in [Slot -> [by: Holders \cup {Nobody}, left: 0 .. TTL]]
      BY ClaimFacts DEF TypeOK
    <3>3. \E k \in HeadOf(h).keys : claim' = SetNX(claim, k, Holder(HeadOf(h).by))
      BY <1>8 DEF LandLate
    <3> QED
      BY <3>1, <3>2, <3>3
  <2>2. wire' \in [Hosts -> Seq(Command)]
    BY <1>8, WireFacts DEF LandLate, TypeOK
  <2> QED
    BY <1>8, <2>1, <2>2 DEF LandLate, TypeOK
<1>9. ASSUME NEW h \in Hosts, LandRelease(h) PROVE TypeOK'
  <2>1. claim' \in [Slot -> [by: Holders \cup {Nobody}, left: 0 .. TTL]]
    <3>1. HeadOf(h).by \in Pickups /\ HeadOf(h).keys \subseteq Slot
      BY <1>9, HeadFacts DEF LandRelease, TypeOK
    <3>2. \A k \in Slot, q \in Pickups : ReleaseIfMine(claim, k, Holder(q)) \in [Slot -> [by: Holders \cup {Nobody}, left: 0 .. TTL]]
      BY ClaimFacts DEF TypeOK
    <3>3. \E k \in HeadOf(h).keys : claim' = ReleaseIfMine(claim, k, Holder(HeadOf(h).by))
      BY <1>9 DEF LandRelease
    <3> QED
      BY <3>1, <3>2, <3>3
  <2>2. wire' \in [Hosts -> Seq(Command)]
    <3>1. \A k : WithoutKey(wire[h], k) \in Seq(Command)
      BY <1>9, SeqMade DEF LandRelease, TypeOK
    <3>2. Tail(wire[h]) \in Seq(Command)
      BY <1>9, WireFacts DEF LandRelease, TypeOK
    <3> QED
      BY <1>9, <3>1, <3>2 DEF LandRelease, TypeOK
  <2> QED
    BY <1>9, <2>1, <2>2 DEF LandRelease, TypeOK
<1>10. ASSUME NEW h \in Hosts, Refuse(h) PROVE TypeOK'
  <2>1. wire' \in [Hosts -> Seq(Command)]
    BY <1>10, WireFacts DEF Refuse, TypeOK
  <2>2. pc' \in [Pickups -> Phases]
    BY <1>10, WireFacts DEF Refuse, GrantDegraded, Phases, TypeOK
  <2>3. hold' \in [Pickups -> Hold]
    <3>1. \A q \in Pickups : Granted(hold[q], TRUE) \in Hold
      BY HoldMade, HoldAt
    <3>2. hold' = hold \/ hold' = [hold EXCEPT ![HeadOf(h).by] = Granted(hold[HeadOf(h).by], TRUE)]
      BY <1>10 DEF Refuse, GrantDegraded
    <3>3. HeadOf(h).by \in Pickups
      BY <1>10, HeadFacts DEF Refuse
    <3> QED
      BY <3>1, <3>2, <3>3 DEF TypeOK
  <2> QED
    BY <1>10, <2>1, <2>2, <2>3 DEF Refuse, Fault, TypeOK
<1>11. ASSUME NEW h \in Hosts, RunAndResend(h) PROVE TypeOK'
  <2>1. claim' \in [Slot -> [by: Holders \cup {Nobody}, left: 0 .. TTL]]
    <3>1. HeadOf(h).by \in Pickups /\ HeadOf(h).keys \subseteq Slot
      BY <1>11, HeadFacts DEF RunAndResend, TypeOK
    <3>2. \A k \in Slot, q \in Pickups : SetNX(claim, k, Holder(q)) \in [Slot -> [by: Holders \cup {Nobody}, left: 0 .. TTL]] /\ ReleaseIfMine(claim, k, Holder(q)) \in [Slot -> [by: Holders \cup {Nobody}, left: 0 .. TTL]]
      BY ClaimFacts DEF TypeOK
    <3> QED
      BY <1>11, <3>1, <3>2 DEF RunAndResend, TypeOK
  <2> QED
    BY <1>11, <2>1 DEF RunAndResend, Fault, TypeOK
<1>12. ASSUME NEW h \in Hosts, Crash(h) PROVE TypeOK'
  <2>1. wire' \in [Hosts -> Seq(Command)]
    <3>1. \A i \in 1 .. Len(wire[h]) : Abandoned(wire[h][i]) \in Command
      <4>1. \A i \in 1 .. Len(wire[h]) : wire[h][i] \in Command
        BY DEF TypeOK
      <4> QED
        BY <4>1, CommandMade
    <3>2. \A n \in 0 .. Len(wire[h]) : [i \in 1 .. n |-> Abandoned(wire[h][i])] \in Seq(Command)
      BY <3>1 DEF TypeOK
    <3> QED
      BY <1>12, <3>2 DEF Crash, TypeOK
  <2>2. pc' \in [Pickups -> Phases]
    BY <1>12 DEF Crash, Phases, TypeOK
  <2>3. hold' \in [Pickups -> Hold]
    <3>1. NoHold \in Hold
      BY HoldMade
    <3>2. \A q \in Pickups : WithLife(hold[q], 0) \in Hold
      BY HoldMade, HoldAt
    <3> QED
      BY <1>12, <3>1, <3>2 DEF Crash, TypeOK
  <2> QED
    BY <1>12, <2>1, <2>2, <2>3 DEF Crash, Fault, TypeOK
<1>13. ASSUME NEW h \in Hosts, BootReaped(h) PROVE TypeOK'
  <2>1. pc' \in [Pickups -> Phases]
    BY <1>13 DEF BootReaped, Phases, TypeOK
  <2>2. hold' \in [Pickups -> Hold]
    <3>1. NoHold \in Hold
      BY HoldMade
    <3> QED
      BY <1>13, <3>1 DEF BootReaped, TypeOK
  <2> QED
    BY <1>13, <2>1, <2>2 DEF BootReaped, TypeOK
<1>14. ASSUME NEW h \in Hosts, BootUnreaped(h) PROVE TypeOK'
  BY <1>14 DEF BootUnreaped, TypeOK
<1>15. ASSUME NEW h \in Hosts, Sweep(h) PROVE TypeOK'
  <2>1. claim' \in [Slot -> [by: Holders \cup {Nobody}, left: 0 .. TTL]]
    <3>1. sweepAt[h] \in Slot
      BY <1>15 DEF Sweep, Slot, TypeOK
    <3>2. claim \in [Slot -> [by: Holders \cup {Nobody}, left: 0 .. TTL]]
      BY DEF TypeOK
    <3>3. claim' = DeleteIfPrefix(claim, sweepAt[h], h) \/ claim' = claim
      BY <1>15 DEF Sweep
    <3>4. DeleteIfPrefix(claim, sweepAt[h], h)
            \in [Slot -> [by: Holders \cup {Nobody}, left: 0 .. TTL]]
      BY <3>1, <3>2, SweepFacts
    <3> QED
      BY <3>2, <3>3, <3>4
  <2>2. sweepAt' \in [Hosts -> 0 .. Slots]
    BY <1>15 DEF Sweep, TypeOK
  <2>3. faults' \in 0 .. MaxFaults
    BY <1>15, BoundsAssumption DEF Sweep, Fault, TypeOK
  <2> QED
    BY <1>15, <2>1, <2>2, <2>3 DEF Sweep, TypeOK
<1>16. ASSUME NEW h \in Hosts, SweepEnds(h) PROVE TypeOK'
  BY <1>16 DEF SweepEnds, Fault, TypeOK
<1>17. ASSUME Tick PROVE TypeOK'
  <2>1. claim' \in [Slot -> [by: Holders \cup {Nobody}, left: 0 .. TTL]]
    <3>1. \A v \in [by: Holders \cup {Nobody}, left: 0 .. TTL] :
             Aged(v) \in [by: Holders \cup {Nobody}, left: 0 .. TTL]
      BY DEF Aged, Free
    <3> QED
      BY <1>17, <3>1 DEF Tick, TypeOK
  <2>2. hold' \in [Pickups -> Hold]
    <3>1. \A q \in Pickups : pc[q] = "run" => hold[q].life - 1 \in 0 .. JobTimeout
      BY <1>17 DEF Tick, TypeOK, Hold
    <3>2. \A q \in Pickups : pc[q] = "run" => WithLife(hold[q], hold[q].life - 1) \in Hold
      BY <3>1, HoldMade, HoldAt
    <3> QED
      BY <1>17, <3>2 DEF Tick, TypeOK
  <2> QED
    BY <1>17, <2>1, <2>2 DEF Tick, TypeOK
<1>18. ASSUME UNCHANGED vars PROVE TypeOK'
  BY <1>18 DEF vars, TypeOK
<1> QED
  BY <1>1, <1>2, <1>3, <1>4, <1>5, <1>6, <1>7, <1>8, <1>9, <1>10, <1>11, <1>12,
     <1>13, <1>14, <1>15, <1>16, <1>17, <1>18 DEF Next, HostStep

-----------------------------------------------------------------------------
(* The per-host bound.                                                      *)

LEMMA UpStep == GateInv /\ [Next]_vars => UpWhileIn'
<1> SUFFICES ASSUME GateInv, [Next]_vars PROVE UpWhileIn'
  OBVIOUS
<1> TypeOK /\ UpWhileIn
  BY DEF GateInv
<1>1. ASSUME NEW p \in Pickups, Take(p) PROVE UpWhileIn'
  BY <1>1 DEF Take, UpWhileIn, TypeOK
<1>2. ASSUME NEW p \in Pickups, Timeout(p) PROVE UpWhileIn'
  BY <1>2 DEF Timeout, GrantDegraded, UpWhileIn, TypeOK
<1>3. ASSUME NEW p \in Pickups, Finish(p) \/ OrphanExits(p) PROVE UpWhileIn'
  BY <1>3 DEF Finish, OrphanExits, UpWhileIn, TypeOK
<1>4. ASSUME NEW h \in Hosts, NEW p \in Pickups, Win(h, p) \/ Defer(h, p) PROVE UpWhileIn'
  <2>1. HostOf[p] = h /\ pc[p] = "set"
    BY <1>4, WaitingFacts DEF Win, Defer, GateInv
  <2> QED
    BY <1>4, <2>1 DEF Win, Defer, UpWhileIn, TypeOK
<1>5. ASSUME NEW h \in Hosts, NEW p \in Pickups, ProbeNext(h, p) PROVE UpWhileIn'
  BY <1>5 DEF ProbeNext, UpWhileIn
<1>6. ASSUME NEW h \in Hosts, LandLate(h) \/ LandRelease(h) \/ RunAndResend(h) PROVE UpWhileIn'
  BY <1>6 DEF LandLate, LandRelease, RunAndResend, UpWhileIn
<1>7. ASSUME NEW h \in Hosts, Refuse(h) PROVE UpWhileIn'
  <2>1. CASE HeadOf(h).live
    <3>1. pc[HeadOf(h).by] = "set" /\ HeadOf(h).by \in Pickups
      BY <1>7, <2>1, HeadFacts, HeadOK DEF Refuse, GateInv
    <3> QED
      BY <1>7, <2>1, <3>1 DEF Refuse, GrantDegraded, UpWhileIn, TypeOK
  <2>2. CASE ~HeadOf(h).live
    BY <1>7, <2>2 DEF Refuse, UpWhileIn
  <2> QED
    BY <2>1, <2>2
<1>8. ASSUME NEW h \in Hosts, Crash(h) PROVE UpWhileIn'
  BY <1>8 DEF Crash, UpWhileIn, TypeOK
<1>9. ASSUME NEW h \in Hosts, BootReaped(h) PROVE UpWhileIn'
  BY <1>9 DEF BootReaped, UpWhileIn, TypeOK
<1>10. ASSUME NEW h \in Hosts, BootUnreaped(h) \/ SweepEnds(h) PROVE UpWhileIn'
  BY <1>10 DEF BootUnreaped, SweepEnds, UpWhileIn, TypeOK
<1>11. ASSUME NEW h \in Hosts, Sweep(h) PROVE UpWhileIn'
  BY <1>11 DEF Sweep, UpWhileIn
<1>12. ASSUME Tick \/ UNCHANGED vars PROVE UpWhileIn'
  BY <1>12 DEF Tick, vars, UpWhileIn
<1> QED
  BY <1>1, <1>2, <1>3, <1>4, <1>5, <1>6, <1>7, <1>8, <1>9, <1>10, <1>11, <1>12 DEF Next, HostStep

\* Nobody crosses a gate and no count moves: the bound stands.
LEMMA GatesSame ==
  ASSUME PerHostBound, inFlight' = inFlight,
         \A q \in Pickups : pc'[q] \in {"set", "run"} <=> pc[q] \in {"set", "run"}
  PROVE  PerHostBound'
<1>1. \A h \in Hosts : InGate(h)' = InGate(h)
  BY DEF InGate
<1> QED
  BY <1>1 DEF PerHostBound

\* One pickup enters, below the ceiling, and is counted.
LEMMA GateEntered ==
  ASSUME TypeOK, PerHostBound, NEW p \in Pickups,
         pc[p] \notin {"set", "run"}, inFlight[HostOf[p]] < Slots,
         inFlight' = [inFlight EXCEPT ![HostOf[p]] = @ + 1],
         pc'[p] \in {"set", "run"},
         \A q \in Pickups \ {p} : pc'[q] = pc[q]
  PROVE  PerHostBound'
<1> DEFINE h == HostOf[p]
<1>1. InGate(h)' = InGate(h) \cup {p} /\ p \notin InGate(h)
  BY DEF InGate
<1>2. \A g \in Hosts \ {h} : InGate(g)' = InGate(g)
  BY DEF InGate
<1>3. IsFiniteSet(InGate(h))
  BY PickupsAssumption, FS_Subset DEF InGate
<1>4. Cardinality(InGate(h)') = Cardinality(InGate(h)) + 1
  BY <1>1, <1>3, FS_AddElement
<1> QED
  BY <1>2, <1>4 DEF PerHostBound, TypeOK

\* One pickup leaves and its count goes back.
LEMMA GateLeft ==
  ASSUME TypeOK, PerHostBound, NEW p \in Pickups,
         pc[p] \in {"set", "run"},
         inFlight' = [inFlight EXCEPT ![HostOf[p]] = @ - 1],
         pc'[p] \notin {"set", "run"},
         \A q \in Pickups \ {p} : pc'[q] = pc[q]
  PROVE  PerHostBound'
<1> DEFINE h == HostOf[p]
<1>1. InGate(h)' = InGate(h) \ {p} /\ p \in InGate(h)
  BY DEF InGate
<1>2. \A g \in Hosts \ {h} : InGate(g)' = InGate(g)
  BY DEF InGate
<1>3. IsFiniteSet(InGate(h))
  BY PickupsAssumption, FS_Subset DEF InGate
<1>4. Cardinality(InGate(h)') = Cardinality(InGate(h)) - 1
  BY <1>1, <1>3, FS_RemoveElement
<1> QED
  BY <1>2, <1>4 DEF PerHostBound, TypeOK

LEMMA BoundStep == GateInv /\ [Next]_vars => PerHostBound'
<1> SUFFICES ASSUME GateInv, [Next]_vars PROVE PerHostBound'
  OBVIOUS
<1> TypeOK /\ PerHostBound
  BY DEF GateInv
<1>1. ASSUME NEW p \in Pickups, Take(p) PROVE PerHostBound'
  BY <1>1, GateEntered DEF Take, TypeOK
<1>2. ASSUME NEW p \in Pickups, Timeout(p) PROVE PerHostBound'
  BY <1>2, GatesSame DEF Timeout, GrantDegraded, TypeOK
<1>3. ASSUME NEW p \in Pickups, Finish(p) PROVE PerHostBound'
  BY <1>3, GateLeft DEF Finish, TypeOK
<1>4. ASSUME NEW p \in Pickups, OrphanExits(p) PROVE PerHostBound'
  BY <1>4, GatesSame DEF OrphanExits, TypeOK
<1>5. ASSUME NEW h \in Hosts, NEW p \in Pickups, Win(h, p) PROVE PerHostBound'
  <2>1. HostOf[p] = h /\ pc[p] = "set"
    BY <1>5, WaitingFacts DEF Win, GateInv
  <2> QED
    BY <1>5, <2>1, GatesSame DEF Win, TypeOK
<1>6. ASSUME NEW h \in Hosts, NEW p \in Pickups, Defer(h, p) PROVE PerHostBound'
  <2>1. HostOf[p] = h /\ pc[p] = "set"
    BY <1>6, WaitingFacts DEF Defer, GateInv
  <2> QED
    BY <1>6, <2>1, GateLeft DEF Defer, TypeOK
<1>7. ASSUME NEW h \in Hosts, NEW p \in Pickups, ProbeNext(h, p) PROVE PerHostBound'
  BY <1>7, GatesSame DEF ProbeNext
<1>8. ASSUME NEW h \in Hosts, LandLate(h) \/ LandRelease(h) \/ RunAndResend(h) PROVE PerHostBound'
  BY <1>8, GatesSame DEF LandLate, LandRelease, RunAndResend
<1>9. ASSUME NEW h \in Hosts, Refuse(h) PROVE PerHostBound'
  <2>1. CASE HeadOf(h).live
    <3>1. pc[HeadOf(h).by] = "set" /\ HeadOf(h).by \in Pickups
      BY <1>9, <2>1, HeadFacts, HeadOK DEF Refuse, GateInv
    <3> QED
      BY <1>9, <2>1, <3>1, GatesSame DEF Refuse, GrantDegraded, TypeOK
  <2>2. CASE ~HeadOf(h).live
    BY <1>9, <2>2, GatesSame DEF Refuse
  <2> QED
    BY <2>1, <2>2
<1>10. ASSUME NEW h \in Hosts, Crash(h) PROVE PerHostBound'
  <2>1. InGate(h)' = {}
    BY <1>10 DEF Crash, InGate, TypeOK
  <2>2. \A g \in Hosts \ {h} : InGate(g)' = InGate(g)
    BY <1>10 DEF Crash, InGate, TypeOK
  <2>3. Cardinality(InGate(h)') = 0
    BY <2>1, FS_EmptySet
  <2>4. inFlight' = [inFlight EXCEPT ![h] = 0]
    BY <1>10 DEF Crash
  <2> QED
    BY <2>2, <2>3, <2>4 DEF PerHostBound, TypeOK
<1>11. ASSUME NEW h \in Hosts, BootReaped(h) PROVE PerHostBound'
  BY <1>11, GatesSame DEF BootReaped, OrphansOf, TypeOK
<1>12. ASSUME NEW h \in Hosts, BootUnreaped(h) \/ Sweep(h) \/ SweepEnds(h) PROVE PerHostBound'
  BY <1>12, GatesSame DEF BootUnreaped, Sweep, SweepEnds
<1>13. ASSUME Tick \/ UNCHANGED vars PROVE PerHostBound'
  BY <1>13, GatesSame DEF Tick, vars
<1> QED
  BY <1>1, <1>2, <1>3, <1>4, <1>5, <1>6, <1>7, <1>8, <1>9, <1>10, <1>11, <1>12, <1>13
     DEF Next, HostStep

-----------------------------------------------------------------------------
(* The commands still outstanding.                                          *)

\* Between two steps a waiting pickup still waits for the same key, and nobody
\* but the pickups of S comes inside.
Calm(S) ==
    \A q \in Pickups \ S :
        /\ pc[q] = "set" => pc'[q] = "set" /\ hold'[q].at = hold[q].at
        /\ q \in Inside' => q \in Inside

LEMMA ByPickups ==
  ASSUME TypeOK
  PROVE  \A g \in Hosts : \A i \in 1 .. Len(wire[g]) : wire[g][i].by \in Pickups
<1>1. \A g \in Hosts : \A i \in 1 .. Len(wire[g]) : wire[g][i] \in Command
  BY DEF TypeOK
<1> QED
  BY <1>1, CommandMade

LEMMA WireKept ==
  ASSUME TypeOK, WireOK, wire' = wire, Calm({})
  PROVE  WireOK'
<1>1. ASSUME NEW h \in Hosts, NEW i \in 1 .. Len(wire[h])
      PROVE  CommandOK(h, i)'
  <2>1. wire[h][i].by \in Pickups
    BY ByPickups
  <2>2. CommandOK(h, i)
    BY DEF WireOK
  <2> QED
    BY <2>1, <2>2 DEF Calm, CommandOK
<1> QED
  BY <1>1 DEF WireOK

\* The head is gone.  Its pickup may change when the head was awaited: it has no
\* other command.
LEMMA WirePopped ==
  ASSUME TypeOK, WireOK, NEW h \in Hosts, wire[h] # <<>>,
         wire' = [wire EXCEPT ![h] = Tail(wire[h])],
         Calm(IF HeadOf(h).live THEN {HeadOf(h).by} ELSE {})
  PROVE  WireOK'
<1> DEFINE b == HeadOf(h).by
<1>1. ASSUME NEW g \in Hosts \ {h}, NEW i \in 1 .. Len(wire'[g])
      PROVE  CommandOK(g, i)'
  <2>1. wire'[g] = wire[g]
    BY DEF TypeOK
  <2>2. CommandOK(g, i)
    BY <2>1 DEF WireOK
  <2>3. wire[g][i].by \in Pickups /\ wire[g][i].by # b
    BY <2>1, <2>2, ByPickups, HeadOK DEF CommandOK
  <2> QED
    BY <2>1, <2>2, <2>3 DEF CommandOK, Calm
<1>2. ASSUME NEW i \in 1 .. Len(wire'[h])
      PROVE  CommandOK(h, i)'
  <2>1. wire'[h] = Tail(wire[h])
    BY DEF TypeOK
  <2>2. /\ Len(wire'[h]) = Len(wire[h]) - 1
        /\ i + 1 \in 2 .. Len(wire[h])
        /\ wire'[h][i] = wire[h][i + 1]
        /\ \A j \in i + 1 .. Len(wire'[h]) : wire'[h][j] = wire[h][j + 1] /\ j + 1 \in (i + 1) + 1 .. Len(wire[h])
    BY <2>1, WireFacts DEF TypeOK
  <2>3. CommandOK(h, i + 1) /\ wire[h][i + 1].by \in Pickups
    BY <2>2, ByPickups DEF WireOK
  <2>4. HeadOf(h).live => wire[h][i + 1].by # b
    BY <2>2, HeadOK
  <2> QED
    BY <2>2, <2>3, <2>4 DEF Calm, CommandOK
<1>3. \A g \in Hosts : \A i \in 1 .. Len(wire'[g]) : CommandOK(g, i)'
  <2> SUFFICES ASSUME NEW g \in Hosts, NEW i \in 1 .. Len(wire'[g]) PROVE CommandOK(g, i)'
    OBVIOUS
  <2>1. CASE g = h
    BY <1>2, <2>1
  <2>2. CASE g # h
    BY <1>1, <2>2
  <2> QED
    BY <2>1, <2>2
<1> QED
  BY <1>3 DEF WireOK

\* A pickup that waits for nothing issues a command; it is not inside afterwards.
LEMMA WireAppended ==
  ASSUME TypeOK, WireOK, NEW p \in Pickups, NEW c \in Command,
         pc[p] # "set", p \notin Inside', c.by = p,
         c.live => c.op = "set" /\ pc'[p] = "set" /\ c.keys = {hold'[p].at},
         wire' = [wire EXCEPT ![HostOf[p]] = Append(wire[HostOf[p]], c)],
         Calm({p})
  PROVE  WireOK'
<1> DEFINE h == HostOf[p]
<1>1. /\ Len(wire'[h]) = Len(wire[h]) + 1
      /\ \A i \in 1 .. Len(wire[h]) : wire'[h][i] = wire[h][i]
      /\ wire'[h][Len(wire[h]) + 1] = c
      /\ Len(wire[h]) \in Nat
      /\ h \in Hosts
      /\ \A g \in Hosts \ {h} : wire'[g] = wire[g]
  BY DEF TypeOK
<1>2. ASSUME NEW g \in Hosts, NEW i \in 1 .. Len(wire[g])
      PROVE  CommandOK(g, i)'
  <2>1. CommandOK(g, i) /\ wire[g][i].by \in Pickups
    BY ByPickups DEF WireOK
  <2>2. wire'[g][i] = wire[g][i]
    BY <1>1
  <2>3. \A j \in i + 1 .. Len(wire'[g]) :
           (j \in i + 1 .. Len(wire[g]) /\ wire'[g][j] = wire[g][j]) \/ wire'[g][j] = c
    BY <1>1
  <2>4. wire[g][i].live => wire[g][i].by # p
    BY <2>1 DEF CommandOK
  <2> QED
    BY <2>1, <2>2, <2>3, <2>4 DEF Calm, CommandOK
<1>3. ASSUME NEW i, i = Len(wire[h]) + 1 PROVE CommandOK(h, i)'
  <2>1. wire'[h][i] = c
    BY <1>1, <1>3
  <2>2. i + 1 .. Len(wire'[h]) = {}
    BY <1>1, <1>3
  <2> QED
    BY <2>1, <2>2 DEF CommandOK
<1>4. \A g \in Hosts : \A i \in 1 .. Len(wire'[g]) : CommandOK(g, i)'
  <2> SUFFICES ASSUME NEW g \in Hosts, NEW i \in 1 .. Len(wire'[g]) PROVE CommandOK(g, i)'
    OBVIOUS
  <2>1. CASE i \in 1 .. Len(wire[g])
    BY <1>2, <2>1
  <2>2. CASE i \notin 1 .. Len(wire[g])
    <3>1. g = h /\ i = Len(wire[h]) + 1
      BY <1>1, <2>2
    <3> QED
      BY <1>3, <3>1
  <2> QED
    BY <2>1, <2>2
<1> QED
  BY <1>4 DEF WireOK

LEMMA WireStep == GateInv /\ [Next]_vars => WireOK'
<1> SUFFICES ASSUME GateInv, [Next]_vars PROVE WireOK'
  OBVIOUS
<1> TypeOK /\ WireOK
  BY DEF GateInv
<1>1. ASSUME NEW p \in Pickups, Take(p) PROVE WireOK'
  <2>1. PICK k \in Slot : /\ hold' = [hold EXCEPT ![p] = Probing({}, k)]
                          /\ wire' = [wire EXCEPT ![HostOf[p]] = Append(wire[HostOf[p]], SetCmd(p, k))]
    BY <1>1 DEF Take
  <2>2. pc' = [pc EXCEPT ![p] = "set"] /\ pc[p] = "idle"
    BY <1>1 DEF Take
  <2>3. hold'[p].at = k
    BY <2>1 DEF TypeOK, Probing
  <2>4. SetCmd(p, k) \in Command
    BY CommandMade
  <2>5. /\ SetCmd(p, k).by = p
        /\ SetCmd(p, k).op = "set"
        /\ SetCmd(p, k).keys = {k}
    BY DEF SetCmd
  <2>6. Calm({p}) /\ p \notin Inside'
    BY <2>1, <2>2 DEF Calm, Inside, TypeOK
  <2> QED
    BY <2>1, <2>2, <2>3, <2>4, <2>5, <2>6, WireAppended DEF TypeOK
<1>2. ASSUME NEW p \in Pickups, Finish(p) PROVE WireOK'
  <2>1. DelCmd(p, Releases(hold[p])) \in Command
    BY HoldMade, HoldAt, CommandMade
  <2>2. DelCmd(p, Releases(hold[p])).by = p /\ ~DelCmd(p, Releases(hold[p])).live
    BY DEF DelCmd
  <2>3. Calm({p}) /\ p \notin Inside' /\ pc[p] # "set"
    BY <1>2 DEF Finish, Calm, Inside, TypeOK
  <2>4. wire' = [wire EXCEPT ![HostOf[p]] = Append(wire[HostOf[p]], DelCmd(p, Releases(hold[p])))]
    BY <1>2 DEF Finish
  <2> QED
    BY <2>1, <2>2, <2>3, <2>4, WireAppended
<1>3. ASSUME NEW p \in Pickups, OrphanExits(p) PROVE WireOK'
  BY <1>3, WireKept DEF OrphanExits, Calm, Inside, TypeOK
<1>4. ASSUME NEW h \in Hosts, NEW p \in Pickups, Win(h, p) \/ Defer(h, p) PROVE WireOK'
  <2>1. HeadOf(h).live /\ HeadOf(h).by = p /\ wire[h] # <<>>
    BY <1>4 DEF Win, Defer, Awaited
  <2>2. Calm({p})
    BY <1>4 DEF Win, Defer, Calm, Inside, TypeOK
  <2>3. wire' = [wire EXCEPT ![h] = Tail(wire[h])]
    BY <1>4 DEF Win, Defer
  <2> QED
    BY <2>1, <2>2, <2>3, WirePopped
<1>5. ASSUME NEW h \in Hosts, LandLate(h) PROVE WireOK'
  <2>1. wire' = [wire EXCEPT ![h] = Tail(wire[h])] /\ wire[h] # <<>> /\ ~HeadOf(h).live
    BY <1>5 DEF LandLate
  <2>2. UNCHANGED <<pc, hold>>
    BY <1>5 DEF LandLate
  <2>3. Calm({})
    BY <2>2 DEF Calm, Inside
  <2> QED
    BY <2>1, <2>3, WirePopped
<1>6. ASSUME NEW h \in Hosts, Refuse(h) PROVE WireOK'
  <2>1. wire' = [wire EXCEPT ![h] = Tail(wire[h])] /\ wire[h] # <<>>
    BY <1>6 DEF Refuse
  <2>2. Calm(IF HeadOf(h).live THEN {HeadOf(h).by} ELSE {})
    <3>1. CASE ~HeadOf(h).live
      BY <1>6, <3>1 DEF Refuse, Calm, Inside
    <3>2. CASE HeadOf(h).live
      <4>1. GrantDegraded(HeadOf(h).by)
        BY <1>6, <3>2 DEF Refuse
      <4>2. \A q \in Pickups \ {HeadOf(h).by} : pc'[q] = pc[q] /\ hold'[q] = hold[q]
        BY <4>1 DEF GrantDegraded, TypeOK
      <4> QED
        BY <3>2, <4>2 DEF Calm, Inside
    <3> QED
      BY <3>1, <3>2
  <2> QED
    BY <2>1, <2>2, WirePopped
<1>7. ASSUME NEW h \in Hosts, RunAndResend(h) PROVE WireOK'
  BY <1>7, WireKept DEF RunAndResend, Calm, Inside
<1>8. ASSUME NEW h \in Hosts, BootReaped(h) PROVE WireOK'
  BY <1>8, WireKept DEF BootReaped, OrphansOf, Calm, Inside, TypeOK
<1>9. ASSUME NEW h \in Hosts, BootUnreaped(h) \/ Sweep(h) \/ SweepEnds(h) PROVE WireOK'
  BY <1>9, WireKept DEF BootUnreaped, Sweep, SweepEnds, Calm, Inside
<1>10. ASSUME Tick PROVE WireOK'
  <2>1. \A p \in Pickups : hold'[p].at = hold[p].at /\ hold'[p].degraded = hold[p].degraded
    BY <1>10 DEF Tick, WithLife, TypeOK
  <2> QED
    BY <1>10, <2>1, WireKept DEF Tick, Calm, Inside
<1>11. ASSUME UNCHANGED vars PROVE WireOK'
  BY <1>11, WireKept DEF vars, Calm, Inside
<1>12. ASSUME NEW p \in Pickups, Timeout(p) PROVE WireOK'
  <2> DEFINE h == HostOf[p]
  <2>1. PICK i \in 1 .. Len(wire[h]) :
           /\ wire[h][i].live /\ wire[h][i].by = p
           /\ wire' = [wire EXCEPT ![h] = AbandonAt(wire[h], i)]
    BY <1>12 DEF Timeout
  <2>2. Calm({p}) /\ p \notin Inside'
    BY <1>12 DEF Timeout, GrantDegraded, Granted, Calm, Inside, TypeOK
  <2>3. /\ h \in Hosts
        /\ Len(wire'[h]) = Len(wire[h])
        /\ wire'[h][i] = Abandoned(wire[h][i])
        /\ \A j \in 1 .. Len(wire[h]) : j # i => wire'[h][j] = wire[h][j]
        /\ \A g \in Hosts \ {h} : wire'[g] = wire[g]
    BY <2>1 DEF TypeOK, AbandonAt
  <2>4. /\ wire'[h][i].by = p /\ ~wire'[h][i].live
    BY <2>1, <2>3 DEF Abandoned
  <2>5. ASSUME NEW g \in Hosts, NEW j \in 1 .. Len(wire'[g]) PROVE CommandOK(g, j)'
    <3>1. CASE g = h /\ j = i
      BY <2>2, <2>4, <3>1 DEF CommandOK
    <3>2. CASE ~(g = h /\ j = i)
      <4>1. wire'[g][j] = wire[g][j] /\ j \in 1 .. Len(wire[g]) /\ Len(wire'[g]) = Len(wire[g])
        BY <2>3, <3>2
      <4>2. CommandOK(g, j) /\ CommandOK(h, i) /\ wire[g][j].by \in Pickups
        BY <4>1, <2>3, ByPickups DEF WireOK
      <4>3. wire[g][j].live => wire[g][j].by # p
        BY <4>1, <4>2, <2>1, <3>2 DEF CommandOK
      <4>4. \A m \in j + 1 .. Len(wire[g]) : wire'[g][m].by = wire[g][m].by
        BY <2>1, <2>3, <2>4
      <4> QED
        BY <4>1, <4>2, <4>3, <4>4, <2>2 DEF Calm, CommandOK
    <3> QED
      BY <3>1, <3>2
  <2> QED
    BY <2>5 DEF WireOK
<1>13. ASSUME NEW h \in Hosts, NEW p \in Pickups, ProbeNext(h, p) PROVE WireOK'
  <2> DEFINE k == (hold[p].at + 1) % Slots
  <2>1. /\ HeadOf(h).by = p /\ wire[h] # <<>> /\ HeadOf(h).live
        /\ wire' = [wire EXCEPT ![h] = Append(Tail(wire[h]), SetCmd(p, k))]
        /\ hold' = [hold EXCEPT ![p] = Probing(hold[p].tried, k)]
        /\ pc' = pc
    BY <1>13 DEF ProbeNext, Awaited
  <2>2. HostOf[p] = h /\ pc[p] = "set" /\ \A i \in 2 .. Len(wire[h]) : wire[h][i].by # p
    BY <1>13, WaitingFacts DEF ProbeNext
  <2>3. hold'[p].at = k
    BY <2>1 DEF TypeOK, Probing
  <2>4. Calm({p}) /\ p \notin Inside'
    BY <2>1, <2>2 DEF Calm, Inside, TypeOK
  <2>5. /\ Len(wire'[h]) = Len(wire[h])
        /\ Len(wire[h]) \in Nat \ {0}
        /\ wire'[h][Len(wire[h])] = SetCmd(p, k)
        /\ \A i \in 1 .. Len(wire[h]) - 1 : wire'[h][i] = wire[h][i + 1]
        /\ \A g \in Hosts \ {h} : wire'[g] = wire[g]
    <3>1. Tail(wire[h]) \in Seq(Command)
      BY <2>1, WireFacts DEF TypeOK
    <3> HIDE DEF k
    <3> QED
      BY <2>1, <3>1, WireFacts DEF TypeOK
  <2>6. ASSUME NEW g \in Hosts, NEW i \in 1 .. Len(wire'[g]) PROVE CommandOK(g, i)'
    <3>1. CASE g # h
      <4>1. wire'[g] = wire[g] /\ CommandOK(g, i) /\ wire[g][i].by \in Pickups
        BY <2>5, <3>1, ByPickups DEF WireOK
      <4>2. wire[g][i].by # p
        BY <4>1, <2>2, <3>1 DEF CommandOK
      <4> QED
        BY <4>1, <4>2, <2>4 DEF Calm, CommandOK
    <3>2. CASE g = h /\ i = Len(wire[h])
      <4>1. wire'[h][i] = SetCmd(p, k) /\ i + 1 .. Len(wire'[h]) = {}
        BY <2>5, <3>2
      <4> HIDE DEF k
      <4> QED
        BY <4>1, <2>1, <2>2, <2>3, <2>4, <3>2 DEF CommandOK, SetCmd
    <3>3. CASE g = h /\ i # Len(wire[h])
      <4>1. i \in 1 .. Len(wire[h]) - 1 /\ i + 1 \in 2 .. Len(wire[h]) /\ i + 1 \in 1 .. Len(wire[h])
        BY <2>5, <3>3
      <4>2. CommandOK(h, i + 1) /\ wire[h][i + 1].by \in Pickups /\ wire[h][i + 1].by # p
        BY <4>1, <2>2, ByPickups DEF WireOK
      <4>3. wire'[h][i] = wire[h][i + 1]
        BY <4>1, <2>5
      <4>4. \A j \in i + 1 .. Len(wire'[h]) :
               (wire'[h][j] = wire[h][j + 1] /\ j + 1 \in (i + 1) + 1 .. Len(wire[h])) \/ wire'[h][j].by = p
        BY <4>1, <2>5 DEF SetCmd
      <4> DEFINE c == wire[h][i + 1]
      <4>5. /\ HostOf[c.by] = h /\ c.by \notin Inside'
            /\ c.live => c.op = "set" /\ pc'[c.by] = "set" /\ c.keys = {hold'[c.by].at}
        BY <4>2, <2>4 DEF Calm, CommandOK
      <4>6. c.live => \A j \in i + 1 .. Len(wire'[h]) : wire'[h][j].by # c.by
        BY <4>2, <4>4 DEF CommandOK
      <4> QED
        BY <4>3, <4>5, <4>6, <3>3 DEF CommandOK
    <3> QED
      BY <3>1, <3>2, <3>3
  <2> QED
    BY <2>6 DEF WireOK
<1>14. ASSUME NEW h \in Hosts, LandRelease(h) PROVE WireOK'
  <2>1. wire[h] # <<>> /\ UNCHANGED <<pc, hold>>
    BY <1>14 DEF LandRelease
  <2>2. Calm({})
    BY <2>1 DEF Calm, Inside
  <2>3. CommandOK(h, 1) /\ HeadOf(h).op = "del" /\ Len(wire[h]) \in Nat \ {0} /\ wire[h][1].by \in Pickups
    BY <1>14, <2>1, WireFacts, ByPickups DEF LandRelease, WireOK, TypeOK
  <2>4. PICK k \in HeadOf(h).keys :
           \/ wire' = [wire EXCEPT ![h] = Tail(wire[h])]
           \/ wire' = [wire EXCEPT ![h] = WithoutKey(wire[h], k)]
    BY <1>14 DEF LandRelease
  <2>5. CASE wire' = [wire EXCEPT ![h] = Tail(wire[h])]
    BY <2>1, <2>2, <2>5, WirePopped DEF Calm
  <2>6. CASE wire' = [wire EXCEPT ![h] = WithoutKey(wire[h], k)]
    <3> DEFINE shrunk == WithoutKey(wire[h], k)
    <3>a. /\ Len(shrunk) = Len(wire[h])
          /\ shrunk[1] = DelCmd(wire[h][1].by, wire[h][1].keys \ {k})
          /\ \A j \in 1 .. Len(wire[h]) : j # 1 => shrunk[j] = wire[h][j]
      <4>1. wire[h] \in Seq(Command)
        BY DEF TypeOK
      <4> QED
        BY <4>1, <2>3, WithoutKeyFacts
    <3>b. wire'[h] = shrunk /\ \A g \in Hosts \ {h} : wire'[g] = wire[g]
      <4> HIDE DEF shrunk
      <4> QED
        BY <2>6 DEF TypeOK, shrunk
    <3> HIDE DEF shrunk
    <3>1. /\ Len(wire'[h]) = Len(wire[h])
          /\ wire'[h][1] = DelCmd(wire[h][1].by, wire[h][1].keys \ {k})
          /\ \A j \in 1 .. Len(wire[h]) : j # 1 => wire'[h][j] = wire[h][j]
          /\ \A g \in Hosts \ {h} : wire'[g] = wire[g]
      BY <3>a, <3>b
    <3>2. wire'[h][1].by = wire[h][1].by /\ ~wire'[h][1].live
      BY <3>1 DEF DelCmd
    <3>3. ASSUME NEW g \in Hosts, NEW j \in 1 .. Len(wire'[g]) PROVE CommandOK(g, j)'
      <4>1. CASE g = h /\ j = 1
        BY <2>2, <2>3, <3>2, <4>1 DEF CommandOK, Calm
      <4>2. CASE ~(g = h /\ j = 1)
        <5>1. wire'[g][j] = wire[g][j] /\ j \in 1 .. Len(wire[g]) /\ Len(wire'[g]) = Len(wire[g])
          BY <3>1, <4>2
        <5>2. CommandOK(g, j) /\ wire[g][j].by \in Pickups
          BY <5>1, ByPickups DEF WireOK
        <5>3. \A m \in j + 1 .. Len(wire[g]) : wire'[g][m].by = wire[g][m].by
          BY <3>1
        <5> QED
          BY <5>1, <5>2, <5>3, <2>2 DEF Calm, CommandOK
      <4> QED
        BY <4>1, <4>2
    <3> QED
      BY <3>3 DEF WireOK
  <2> QED
    BY <2>4, <2>5, <2>6
<1>15. ASSUME NEW h \in Hosts, Crash(h) PROVE WireOK'
  <2>1. PICK n \in 0 .. Len(wire[h]) : wire' = [wire EXCEPT ![h] = [i \in 1 .. n |-> Abandoned(wire[h][i])]]
    BY <1>15 DEF Crash
  <2>2. \A q \in Pickups : HostOf[q] = h => q \notin Inside'
    BY <1>15 DEF Crash, Inside, TypeOK
  <2>3. \A q \in Pickups : HostOf[q] # h => pc'[q] = pc[q] /\ hold'[q] = hold[q]
    BY <1>15 DEF Crash
  <2>4. ASSUME NEW g \in Hosts, NEW j \in 1 .. Len(wire'[g]) PROVE CommandOK(g, j)'
    <3>1. CASE g = h
      <4>1. j \in 1 .. Len(wire[h]) /\ wire'[h][j] = Abandoned(wire[h][j])
        BY <2>1, <3>1 DEF TypeOK
      <4>2. CommandOK(h, j) /\ wire[h][j].by \in Pickups
        BY <4>1, ByPickups DEF WireOK
      <4> QED
        BY <4>1, <4>2, <2>2, <3>1 DEF CommandOK, Abandoned
    <3>2. CASE g # h
      <4>1. wire'[g] = wire[g] /\ CommandOK(g, j) /\ wire[g][j].by \in Pickups
        BY <2>1, <3>2, ByPickups DEF WireOK, TypeOK
      <4>2. HostOf[wire[g][j].by] # h
        BY <4>1, <3>2 DEF CommandOK
      <4> QED
        BY <4>1, <4>2, <2>3 DEF CommandOK, Inside
    <3> QED
      BY <3>1, <3>2
  <2> QED
    BY <2>4 DEF WireOK
<1> QED
  BY <1>1, <1>2, <1>3, <1>4, <1>5, <1>6, <1>7, <1>8, <1>9, <1>10, <1>11, <1>12,
     <1>13, <1>14, <1>15 DEF Next, HostStep

-----------------------------------------------------------------------------
(* The invariant, and what it gives.                                        *)

LEMMA GateInit == Init => GateInv
<1> SUFFICES ASSUME Init PROVE GateInv
  OBVIOUS
<1>1. TypeOK
  BY TypeInit
<1>2. PerHostBound
  <2>1. \A h \in Hosts : InGate(h) = {}
    BY DEF Init, InGate
  <2>2. \A h \in Hosts : Cardinality(InGate(h)) = 0
    BY <2>1, FS_EmptySet
  <2>3. \A h \in Hosts : inFlight[h] = 0
    BY DEF Init
  <2> QED
    BY <2>2, <2>3 DEF PerHostBound
<1>3. UpWhileIn
  BY DEF Init, UpWhileIn
<1>4. WireOK
  BY DEF Init, WireOK
<1> QED
  BY <1>1, <1>2, <1>3, <1>4 DEF GateInv

\* The inductive invariant of the gate: types, the in-process count, a worker is up
\* while a pickup is in its gate, and what a live command on the wire says of its
\* pickup hold in every reachable state.
THEOREM GateInvariant == Spec => []GateInv
<1>1. GateInv /\ [Next]_vars => GateInv'
  BY TypeStep, BoundStep, UpStep, WireStep DEF GateInv
<1> QED
  BY <1>1, GateInit, PTL DEF Spec

\* Every variable stays in its type; in particular no in-process count goes below
\* zero, however acquires, releases, faults and crashes interleave.
THEOREM TypeCorrect == Spec => []TypeOK
<1>1. GateInv => TypeOK
  BY DEF GateInv
<1> QED
  BY <1>1, GateInvariant, PTL

\* The in-process half of the lease: the count of every worker is its pickups
\* between take and give-back and never passes the ceiling, whatever Valkey does.
THEOREM HostBoundHolds == Spec => []PerHostBound
<1>1. GateInv => PerHostBound
  BY DEF GateInv
<1> QED
  BY <1>1, GateInvariant, PTL

\* What the holder string gives when no two pickups share it: fleet-lease.mjs
\* rests on it, a second pickup of one job on one host breaks it.
DistinctHolders == \A p, q \in Pickups : Holder(p) = Holder(q) => p = q

\* A step that frees or takes no key of a container leaves its claim in place.
LEMMA HeldKept ==
  ASSUME GateInv, HeldWhileRunning,
         \A q \in Inside' : q \in Inside /\ hold'[q] = hold[q] /\ claim'[hold[q].at] = claim[hold[q].at]
  PROVE  HeldWhileRunning'
<1>1. ASSUME NEW q \in Inside'
      PROVE  claim'[hold'[q].at].by = Holder(q) /\ claim'[hold'[q].at].left > hold'[q].life
  <2>1. q \in Inside /\ hold'[q] = hold[q] /\ claim'[hold[q].at] = claim[hold[q].at]
    OBVIOUS
  <2> QED
    BY <2>1 DEF HeldWhileRunning
<1> QED
  BY <1>1 DEF HeldWhileRunning

\* SET NX and the two compare-and-deletes touch a key only if it is free or the
\* caller's own.
LEMMA ScriptFacts ==
  ASSUME TypeOK, NEW k \in Slot, NEW j \in Slot, NEW v
  PROVE  /\ claim[j].by # Nobody => SetNX(claim, k, v)[j] = claim[j]
         /\ claim[j].by # v => ReleaseIfMine(claim, k, v)[j] = claim[j]
         /\ claim[j].by[1] # v => DeleteIfPrefix(claim, k, v)[j] = claim[j]
  BY DEF TypeOK, SetNX, ReleaseIfMine, DeleteIfPrefix, DeleteIf

LEMMA HeldStep == DistinctHolders /\ GateInv /\ HeldWhileRunning /\ [Next]_vars => HeldWhileRunning'
<1> SUFFICES ASSUME DistinctHolders, GateInv, HeldWhileRunning, [Next]_vars
             PROVE  HeldWhileRunning'
  OBVIOUS
<1> TypeOK /\ WireOK /\ UpWhileIn
  BY DEF GateInv
<1> USE DEF Inside
<1>a. \A q \in Pickups : hold[q].at \in Slot /\ Holder(q) # Nobody
  BY HoldAt, HolderFacts, NobodyAssumption
<1>b. \A q \in Inside : q \in Pickups /\ claim[hold[q].at].by = Holder(q) /\ claim[hold[q].at].by # Nobody
  BY <1>a DEF HeldWhileRunning
<1>1. ASSUME NEW p \in Pickups, Take(p) \/ Finish(p) \/ OrphanExits(p) \/ Timeout(p) PROVE HeldWhileRunning'
  <2>1. claim' = claim
    BY <1>1 DEF Take, Finish, OrphanExits, Timeout
  <2>2. \A q \in Pickups \ {p} : pc'[q] = pc[q] /\ hold'[q] = hold[q]
    <3>1. CASE Take(p)
      BY <3>1 DEF Take, TypeOK
    <3>2. CASE Finish(p)
      BY <3>2 DEF Finish, TypeOK
    <3>3. CASE OrphanExits(p)
      BY <3>3 DEF OrphanExits, TypeOK
    <3>4. CASE Timeout(p)
      BY <3>4 DEF Timeout, GrantDegraded, TypeOK
    <3> QED
      BY <1>1, <3>1, <3>2, <3>3, <3>4
  <2>3. p \notin Inside'
    <3>1. CASE Timeout(p)
      <4>1. hold' = [hold EXCEPT ![p] = Granted(hold[p], TRUE)]
        BY <3>1 DEF Timeout, GrantDegraded
      <4>2. Granted(hold[p], TRUE).degraded
        BY DEF Granted
      <4> QED
        BY <4>1, <4>2 DEF TypeOK
    <3>2. CASE Take(p) \/ Finish(p) \/ OrphanExits(p)
      BY <3>2 DEF Take, Finish, OrphanExits, TypeOK
    <3> QED
      BY <1>1, <3>1, <3>2
  <2>4. ASSUME NEW q \in Inside'
        PROVE  q \in Inside /\ hold'[q] = hold[q] /\ claim'[hold[q].at] = claim[hold[q].at]
    <3>1. q \in Pickups \ {p}
      BY <2>3
    <3> QED
      BY <2>1, <2>2, <3>1
  <2> QED
    BY <2>4, HeldKept
<1>2. ASSUME NEW h \in Hosts, NEW p \in Pickups, Defer(h, p) \/ ProbeNext(h, p) PROVE HeldWhileRunning'
  <2>1. pc[p] = "set"
    BY <1>2, WaitingFacts DEF Defer, ProbeNext
  <2> QED
    BY <1>2, <2>1, HeldKept DEF Defer, ProbeNext, TypeOK
<1>3. ASSUME NEW h \in Hosts, NEW p \in Pickups, Win(h, p) PROVE HeldWhileRunning'
  <2>1. /\ claim[hold[p].at].by = Nobody
        /\ claim' = SetNX(claim, hold[p].at, Holder(p))
        /\ hold' = [hold EXCEPT ![p] = Granted(hold[p], FALSE)]
        /\ pc' = [pc EXCEPT ![p] = "run"]
        /\ pc[p] = "set"
    BY <1>3, WaitingFacts DEF Win
  <2>2. ASSUME NEW q \in Inside'
        PROVE  claim'[hold'[q].at].by = Holder(q) /\ claim'[hold'[q].at].left > hold'[q].life
    <3>1. CASE q = p
      <4>1. hold'[q].at = hold[p].at /\ hold'[q].life = JobTimeout
        BY <2>1, <3>1 DEF TypeOK, Granted
      <4>2. claim'[hold[p].at] = [by |-> Holder(p), left |-> TTL]
        BY <2>1, <1>a DEF TypeOK, SetNX
      <4> QED
        BY <3>1, <4>1, <4>2
    <3>2. CASE q # p
      <4>1. q \in Inside /\ hold'[q] = hold[q]
        BY <2>1, <3>2 DEF TypeOK
      <4>2. claim'[hold[q].at] = claim[hold[q].at]
        BY <4>1, <2>1, <1>a, <1>b, ScriptFacts
      <4> QED
        BY <4>1, <4>2 DEF HeldWhileRunning
    <3> QED
      BY <3>1, <3>2
  <2> QED
    BY <2>2 DEF HeldWhileRunning
<1>4. ASSUME NEW h \in Hosts, LandLate(h) \/ LandRelease(h) \/ RunAndResend(h) PROVE HeldWhileRunning'
  <2>1. pc' = pc /\ hold' = hold /\ wire[h] # <<>>
    BY <1>4 DEF LandLate, LandRelease, RunAndResend
  <2>2. PICK k \in HeadOf(h).keys : \/ claim' = SetNX(claim, k, Holder(HeadOf(h).by))
                                    \/ claim' = ReleaseIfMine(claim, k, Holder(HeadOf(h).by))
    BY <1>4 DEF LandLate, LandRelease, RunAndResend
  <2>3. HeadOf(h).by \in Pickups /\ k \in Slot /\ HeadOf(h).by \notin Inside
    BY <2>1, <2>2, HeadFacts, HeadOK
  <2>4. \A q \in Inside : Holder(q) # Holder(HeadOf(h).by)
    BY <2>3 DEF DistinctHolders
  <2>5. \A q \in Inside : claim'[hold[q].at] = claim[hold[q].at]
    <3> SUFFICES ASSUME NEW q \in Inside PROVE claim'[hold[q].at] = claim[hold[q].at]
      OBVIOUS
    <3>1. /\ hold[q].at \in Slot
          /\ claim[hold[q].at].by # Nobody
          /\ claim[hold[q].at].by # Holder(HeadOf(h).by)
      BY <2>4, <1>a, <1>b
    <3>2. SetNX(claim, k, Holder(HeadOf(h).by))[hold[q].at] = claim[hold[q].at]
      BY <3>1, <2>3, ScriptFacts
    <3>3. ReleaseIfMine(claim, k, Holder(HeadOf(h).by))[hold[q].at] = claim[hold[q].at]
      BY <3>1, <2>3, ScriptFacts
    <3> QED
      BY <2>2, <3>2, <3>3
  <2>6. \A q \in Inside' : q \in Inside /\ hold'[q] = hold[q]
    BY <2>1
  <2> QED
    BY <2>5, <2>6, HeldKept
<1>5. ASSUME NEW h \in Hosts, Refuse(h) PROVE HeldWhileRunning'
  <2>1. claim' = claim
    BY <1>5 DEF Refuse
  <2>2. \A q \in Inside' : q \in Inside /\ hold'[q] = hold[q]
    <3>1. CASE HeadOf(h).live
      <4> DEFINE b == HeadOf(h).by
      <4>1. hold' = [hold EXCEPT ![b] = Granted(hold[b], TRUE)] /\ pc' = [pc EXCEPT ![b] = "run"]
        BY <1>5, <3>1 DEF Refuse, GrantDegraded
      <4>2. Granted(hold[b], TRUE).degraded
        BY DEF Granted
      <4> HIDE DEF b
      <4> QED
        BY <4>1, <4>2 DEF TypeOK
    <3>2. CASE ~HeadOf(h).live
      BY <1>5, <3>2 DEF Refuse
    <3> QED
      BY <3>1, <3>2
  <2> QED
    BY <2>1, <2>2, HeldKept
<1>6. ASSUME NEW h \in Hosts, Crash(h) PROVE HeldWhileRunning'
  BY <1>6, HeldKept DEF Crash, TypeOK
<1>7. ASSUME NEW h \in Hosts, BootReaped(h) PROVE HeldWhileRunning'
  BY <1>7, HeldKept DEF BootReaped, OrphansOf, TypeOK
<1>8. ASSUME NEW h \in Hosts, BootUnreaped(h) \/ SweepEnds(h) PROVE HeldWhileRunning'
  BY <1>8, HeldKept DEF BootUnreaped, SweepEnds
<1>9. ASSUME NEW h \in Hosts, Sweep(h) PROVE HeldWhileRunning'
  <2>1. /\ worker[h] = "sweep" /\ sweepAt[h] \in Slot
        /\ claim' = DeleteIfPrefix(claim, sweepAt[h], h) \/ claim' = claim
        /\ pc' = pc /\ hold' = hold
    BY <1>9 DEF Sweep, TypeOK, Slot
  <2>2. \A q \in Inside : HostOf[q] # h
    BY <2>1 DEF UpWhileIn
  <2>3. \A q \in Inside : claim[hold[q].at].by[1] # h
    BY <2>2, <1>b, HolderFacts
  <2>4. CASE claim' = claim
    BY <2>1, <2>4, HeldKept
  <2>5. CASE claim' = DeleteIfPrefix(claim, sweepAt[h], h)
    <3>1. \A q \in Inside : claim'[hold[q].at] = claim[hold[q].at]
      BY <2>1, <2>3, <2>5, <1>a, <1>b, ScriptFacts
    <3> QED
      BY <2>1, <3>1, HeldKept
  <2> QED
    BY <2>1, <2>4, <2>5
<1>10. ASSUME Tick PROVE HeldWhileRunning'
  <2>1. ASSUME NEW q \in Inside'
        PROVE  claim'[hold'[q].at].by = Holder(q) /\ claim'[hold'[q].at].left > hold'[q].life
    <3>1. /\ q \in Pickups /\ pc[q] = "run" /\ hold[q].life > 0
          /\ hold'[q] = WithLife(hold[q], hold[q].life - 1)
      BY <1>10 DEF Tick
    <3>2. /\ hold'[q].at = hold[q].at /\ hold'[q].degraded = hold[q].degraded
          /\ hold'[q].life = hold[q].life - 1
      BY <3>1 DEF WithLife
    <3>3. q \in Inside /\ hold[q].at \in Slot /\ hold[q].life \in Nat
      BY <3>1, <3>2, <1>a, HoldAt DEF Hold
    <3>4. claim[hold[q].at].by = Holder(q) /\ claim[hold[q].at].left > hold[q].life
      BY <3>3 DEF HeldWhileRunning
    <3>5. claim[hold[q].at] \in [by: Holders \cup {Nobody}, left: 0 .. TTL]
      BY <3>3 DEF TypeOK
    <3>6. Aged(claim[hold[q].at]).by = Holder(q) /\ Aged(claim[hold[q].at]).left = claim[hold[q].at].left - 1
      BY <3>1, <3>3, <3>4, <3>5 DEF Aged
    <3>7. claim'[hold[q].at] = Aged(claim[hold[q].at])
      BY <1>10, <3>3 DEF Tick
    <3> QED
      BY <3>2, <3>3, <3>4, <3>5, <3>6, <3>7
  <2> QED
    BY <2>1 DEF HeldWhileRunning
<1>11. ASSUME UNCHANGED vars PROVE HeldWhileRunning'
  BY <1>11, HeldKept DEF vars
<1> QED
  BY <1>1, <1>2, <1>3, <1>4, <1>5, <1>6, <1>7, <1>8, <1>9, <1>10, <1>11 DEF Next, HostStep

\* A container granted a slot keeps its claim, with time to spare, for as long as
\* it runs: over every interleaving of late commands, lost replies, crashes and
\* sweeps, provided no two pickups write the same holder.
THEOREM HeldHolds ==
  ASSUME DistinctHolders
  PROVE  Spec => []HeldWhileRunning
<1>1. Init => HeldWhileRunning
  BY DEF Init, HeldWhileRunning, Inside
<1>2. GateInv /\ HeldWhileRunning /\ [Next]_vars => HeldWhileRunning'
  BY HeldStep
<1> QED
  BY <1>1, <1>2, GateInvariant, PTL DEF Spec
-----------------------------------------------------------------------------
(* Containers that outlived their worker.                                   *)

\* What a crash leaves behind of a pickup that was inside.
Left == {p \in Pickups : pc[p] = "orphan" /\ ~hold[p].degraded}

\* Nothing on the wire comes from such a pickup, and no sweep runs beside one.
OrphanOK ==
    /\ \A h \in Hosts : \A i \in 1 .. Len(wire[h]) : wire[h][i].by \notin Left
    /\ \A h \in Hosts : worker[h] = "sweep" => OrphansOf(h) = {}

\* Only a crash makes orphans, of the pickups that were inside.
LEMMA LeftGrows == GateInv /\ [Next]_vars => Left' \subseteq Left \cup Inside
<1> SUFFICES ASSUME GateInv, [Next]_vars PROVE Left' \subseteq Left \cup Inside
  OBVIOUS
<1> TypeOK /\ WireOK
  BY DEF GateInv
<1> USE DEF Left, Inside
<1>1. ASSUME NEW p \in Pickups, Take(p) PROVE Left' \subseteq Left \cup Inside
  BY <1>1 DEF Take, TypeOK
<1>2. ASSUME NEW p \in Pickups, Timeout(p) PROVE Left' \subseteq Left \cup Inside
  BY <1>2 DEF Timeout, GrantDegraded, TypeOK
<1>3. ASSUME NEW p \in Pickups, Finish(p) \/ OrphanExits(p) PROVE Left' \subseteq Left \cup Inside
  BY <1>3 DEF Finish, OrphanExits, TypeOK
<1>4. ASSUME NEW h \in Hosts, NEW p \in Pickups, Win(h, p) PROVE Left' \subseteq Left \cup Inside
  BY <1>4 DEF Win, TypeOK
<1>5. ASSUME NEW h \in Hosts, NEW p \in Pickups, ProbeNext(h, p) PROVE Left' \subseteq Left \cup Inside
  <2>1. pc[p] = "set" /\ pc' = pc /\ \A q \in Pickups \ {p} : hold'[q] = hold[q]
    BY <1>5, WaitingFacts DEF ProbeNext, TypeOK
  <2> QED
    BY <2>1
<1>6. ASSUME NEW h \in Hosts, NEW p \in Pickups, Defer(h, p) PROVE Left' \subseteq Left \cup Inside
  BY <1>6 DEF Defer, TypeOK
<1>7. ASSUME NEW h \in Hosts, Refuse(h) PROVE Left' \subseteq Left \cup Inside
  BY <1>7 DEF Refuse, GrantDegraded, TypeOK
<1>8. ASSUME NEW h \in Hosts, Crash(h) PROVE Left' \subseteq Left \cup Inside
  <2>1. ASSUME NEW q \in Left' PROVE q \in Left \cup Inside
    <3>1. CASE HostOf[q] = h /\ pc[q] = "run"
      <4>1. hold'[q] = WithLife(hold[q], 0)
        BY <1>8, <3>1 DEF Crash
      <4> QED
        BY <3>1, <4>1 DEF WithLife
    <3>2. CASE ~(HostOf[q] = h /\ pc[q] = "run")
      BY <1>8, <3>2 DEF Crash, TypeOK
    <3> QED
      BY <3>1, <3>2
  <2> QED
    BY <2>1
<1>9. ASSUME NEW h \in Hosts, BootReaped(h) PROVE Left' \subseteq Left \cup Inside
  BY <1>9 DEF BootReaped, OrphansOf, TypeOK
<1>10. ASSUME NEW h \in Hosts,
              \/ LandLate(h) \/ LandRelease(h) \/ RunAndResend(h)
              \/ BootUnreaped(h) \/ Sweep(h) \/ SweepEnds(h)
       PROVE Left' \subseteq Left \cup Inside
  <2>1. pc' = pc /\ hold' = hold
    BY <1>10 DEF LandLate, LandRelease, RunAndResend, BootUnreaped, Sweep, SweepEnds
  <2> QED
    BY <2>1
<1>11. ASSUME Tick PROVE Left' \subseteq Left \cup Inside
  BY <1>11 DEF Tick
<1>12. ASSUME UNCHANGED vars PROVE Left' \subseteq Left \cup Inside
  BY <1>12 DEF vars
<1> QED
  BY <1>1, <1>2, <1>3, <1>4, <1>5, <1>6, <1>7, <1>8, <1>9, <1>10, <1>11, <1>12 DEF Next, HostStep

\* Every command outstanding after a step was issued by the pickup of one that was
\* before it, or by a pickup no crash left behind.
Issued(g, j) ==
    \/ \E i \in 1 .. Len(wire[g]) : wire'[g][j].by = wire[g][i].by
    \/ wire'[g][j].by \notin Left'
AllIssued == \A g \in Hosts : \A j \in 1 .. Len(wire'[g]) : Issued(g, j)

LEMMA IssuedPopped ==
  ASSUME TypeOK, NEW h \in Hosts, wire[h] # <<>>, wire' = [wire EXCEPT ![h] = Tail(wire[h])]
  PROVE  AllIssued
<1>1. ASSUME NEW g \in Hosts, NEW j \in 1 .. Len(wire'[g]) PROVE Issued(g, j)
  <2>1. CASE g = h
    <3>1. wire'[h] = Tail(wire[h])
      BY DEF TypeOK
    <3>2. j + 1 \in 1 .. Len(wire[h]) /\ wire'[g][j] = wire[h][j + 1]
      BY <2>1, <3>1, WireFacts DEF TypeOK
    <3> QED
      BY <2>1, <3>2 DEF Issued
  <2>2. CASE g # h
    BY <2>2 DEF Issued, TypeOK
  <2> QED
    BY <2>1, <2>2
<1> QED
  BY <1>1 DEF AllIssued

LEMMA IssuedAppended ==
  ASSUME TypeOK, NEW h \in Hosts, NEW c, NEW s \in Seq(Command),
         c \in Command, c.by \notin Left',
         \A i \in 1 .. Len(s) : \E m \in 1 .. Len(wire[h]) : s[i] = wire[h][m],
         wire' = [wire EXCEPT ![h] = Append(s, c)]
  PROVE  AllIssued
<1>1. ASSUME NEW g \in Hosts, NEW j \in 1 .. Len(wire'[g]) PROVE Issued(g, j)
  <2>1. CASE g = h
    <3>1. wire'[h] = Append(s, c)
      BY DEF TypeOK
    <3>2. (j \in 1 .. Len(s) /\ wire'[h][j] = s[j]) \/ wire'[h][j] = c
      BY <2>1, <3>1
    <3> QED
      BY <2>1, <3>2 DEF Issued
  <2>2. CASE g # h
    BY <2>2 DEF Issued, TypeOK
  <2> QED
    BY <2>1, <2>2
<1> QED
  BY <1>1 DEF AllIssued

LEMMA WiresIssued == GateInv /\ [Next]_vars => AllIssued
<1> SUFFICES ASSUME GateInv, [Next]_vars PROVE AllIssued
  OBVIOUS
<1> TypeOK /\ WireOK
  BY DEF GateInv
<1>1. ASSUME NEW p \in Pickups, Take(p) PROVE AllIssued
  <2>1. PICK k \in Slot : wire' = [wire EXCEPT ![HostOf[p]] = Append(wire[HostOf[p]], SetCmd(p, k))]
    BY <1>1 DEF Take
  <2>2. SetCmd(p, k) \in Command /\ SetCmd(p, k).by = p
    BY CommandMade DEF SetCmd
  <2>3. p \notin Left'
    BY <1>1 DEF Take, TypeOK, Left
  <2>4. HostOf[p] \in Hosts /\ wire[HostOf[p]] \in Seq(Command)
    BY DEF TypeOK
  <2> QED
    BY <2>1, <2>2, <2>3, <2>4, IssuedAppended
<1>2. ASSUME NEW p \in Pickups, Finish(p) PROVE AllIssued
  <2>1. wire' = [wire EXCEPT ![HostOf[p]] = Append(wire[HostOf[p]], DelCmd(p, Releases(hold[p])))]
    BY <1>2 DEF Finish
  <2>2. DelCmd(p, Releases(hold[p])) \in Command /\ DelCmd(p, Releases(hold[p])).by = p
    BY CommandMade, HoldMade, HoldAt DEF DelCmd
  <2>3. p \notin Left'
    BY <1>2 DEF Finish, TypeOK, Left
  <2>4. HostOf[p] \in Hosts /\ wire[HostOf[p]] \in Seq(Command)
    BY DEF TypeOK
  <2> QED
    BY <2>1, <2>2, <2>3, <2>4, IssuedAppended
<1>3. ASSUME NEW p \in Pickups, Timeout(p) PROVE AllIssued
  <2> DEFINE h == HostOf[p]
  <2>1. PICK i \in 1 .. Len(wire[h]) : wire' = [wire EXCEPT ![h] = AbandonAt(wire[h], i)]
    BY <1>3 DEF Timeout
  <2>2. h \in Hosts /\ wire[h] \in Seq(Command)
    BY DEF TypeOK
  <2>3. wire'[h] = [wire[h] EXCEPT ![i] = Abandoned(wire[h][i])]
    BY <2>1, <2>2 DEF TypeOK, AbandonAt
  <2>4. ASSUME NEW g \in Hosts, NEW j \in 1 .. Len(wire'[g]) PROVE Issued(g, j)
    <3>1. CASE g = h
      <4>1. j \in 1 .. Len(wire[h]) /\ wire'[h][j].by = wire[h][j].by
        BY <2>2, <2>3, <3>1 DEF Abandoned
      <4> QED
        BY <3>1, <4>1 DEF Issued
    <3>2. CASE g # h
      BY <2>1, <3>2 DEF Issued, TypeOK
    <3> QED
      BY <3>1, <3>2
  <2> QED
    BY <2>4 DEF AllIssued
<1>4. ASSUME NEW h \in Hosts, NEW p \in Pickups, ProbeNext(h, p) PROVE AllIssued
  <2> DEFINE k == (hold[p].at + 1) % Slots
  <2>1. wire' = [wire EXCEPT ![h] = Append(Tail(wire[h]), SetCmd(p, k))] /\ wire[h] # <<>>
    BY <1>4 DEF ProbeNext, Awaited
  <2>2. k \in Slot
    BY SlotFacts, HoldAt
  <2>3. SetCmd(p, k) \in Command /\ SetCmd(p, k).by = p
    BY <2>2, CommandMade DEF SetCmd
  <2>4. p \notin Left'
    BY <1>4, WaitingFacts DEF ProbeNext, Left
  <2>5. Tail(wire[h]) \in Seq(Command)
        /\ \A i \in 1 .. Len(Tail(wire[h])) : i + 1 \in 1 .. Len(wire[h]) /\ Tail(wire[h])[i] = wire[h][i + 1]
    BY <2>1, WireFacts DEF TypeOK
  <2> DEFINE s == Tail(wire[h])
             c == SetCmd(p, k)
  <2>6. s \in Seq(Command) /\ c \in Command /\ c.by \notin Left'
    BY <2>3, <2>4, <2>5
  <2>7. wire' = [wire EXCEPT ![h] = Append(s, c)] /\ \A i \in 1 .. Len(s) : \E m \in 1 .. Len(wire[h]) : s[i] = wire[h][m]
    BY <2>1, <2>5
  <2> HIDE DEF s, c
  <2> QED
    BY <2>6, <2>7, IssuedAppended
<1>5. ASSUME NEW h \in Hosts, NEW p \in Pickups, Win(h, p) \/ Defer(h, p) PROVE AllIssued
  BY <1>5, IssuedPopped DEF Win, Defer, Awaited
<1>6. ASSUME NEW h \in Hosts, LandLate(h) \/ Refuse(h) PROVE AllIssued
  BY <1>6, IssuedPopped DEF LandLate, Refuse
<1>7. ASSUME NEW h \in Hosts, LandRelease(h) PROVE AllIssued
  <2>1. PICK k \in HeadOf(h).keys :
           \/ wire' = [wire EXCEPT ![h] = Tail(wire[h])]
           \/ wire' = [wire EXCEPT ![h] = WithoutKey(wire[h], k)]
    BY <1>7 DEF LandRelease
  <2>2. wire[h] # <<>> /\ wire[h] \in Seq(Command) /\ Len(wire[h]) \in Nat \ {0}
    BY <1>7, WireFacts DEF LandRelease, TypeOK
  <2>3. CASE wire' = [wire EXCEPT ![h] = WithoutKey(wire[h], k)]
    <3> DEFINE shrunk == WithoutKey(wire[h], k)
    <3>a. /\ Len(shrunk) = Len(wire[h])
          /\ shrunk[1] = DelCmd(wire[h][1].by, wire[h][1].keys \ {k})
          /\ \A j \in 1 .. Len(wire[h]) : j # 1 => shrunk[j] = wire[h][j]
      BY <2>2, WithoutKeyFacts
    <3>b. shrunk[1].by = wire[h][1].by
      BY <3>a DEF DelCmd
    <3>1. Len(shrunk) = Len(wire[h]) /\ \A j \in 1 .. Len(wire[h]) : shrunk[j].by = wire[h][j].by
      <4> HIDE DEF shrunk
      <4> QED
        BY <3>a, <3>b
    <3>2. wire'[h] = shrunk /\ \A g \in Hosts \ {h} : wire'[g] = wire[g]
      <4> HIDE DEF shrunk
      <4> QED
        BY <2>3 DEF TypeOK, shrunk
    <3> HIDE DEF shrunk
    <3> QED
      BY <3>1, <3>2 DEF AllIssued, Issued
  <2> QED
    BY <2>1, <2>2, <2>3, IssuedPopped
<1>8. ASSUME NEW h \in Hosts, Crash(h) PROVE AllIssued
  <2>1. PICK n \in 0 .. Len(wire[h]) : wire' = [wire EXCEPT ![h] = [i \in 1 .. n |-> Abandoned(wire[h][i])]]
    BY <1>8 DEF Crash
  <2>2. ASSUME NEW g \in Hosts, NEW j \in 1 .. Len(wire'[g]) PROVE Issued(g, j)
    <3>1. CASE g = h
      <4>1. j \in 1 .. Len(wire[h]) /\ wire'[h][j] = Abandoned(wire[h][j])
        BY <2>1, <3>1 DEF TypeOK
      <4> QED
        BY <3>1, <4>1 DEF Issued, Abandoned
    <3>2. CASE g # h
      BY <2>1, <3>2 DEF Issued, TypeOK
    <3> QED
      BY <3>1, <3>2
  <2> QED
    BY <2>2 DEF AllIssued
<1>9. ASSUME \/ \E p \in Pickups : OrphanExits(p)
             \/ \E h \in Hosts : \/ RunAndResend(h) \/ BootReaped(h) \/ BootUnreaped(h)
                                 \/ Sweep(h) \/ SweepEnds(h)
             \/ Tick
             \/ UNCHANGED vars
      PROVE AllIssued
  <2>1. wire' = wire
    BY <1>9 DEF OrphanExits, RunAndResend, BootReaped, BootUnreaped, Sweep, SweepEnds, Tick, vars
  <2> QED
    BY <2>1 DEF AllIssued, Issued
<1> QED
  BY <1>1, <1>2, <1>3, <1>4, <1>5, <1>6, <1>7, <1>8, <1>9 DEF Next, HostStep

LEMMA OrphanStep == GateInv /\ OrphanOK /\ [Next]_vars => OrphanOK'
<1> SUFFICES ASSUME GateInv, OrphanOK, [Next]_vars PROVE OrphanOK'
  OBVIOUS
<1> TypeOK /\ WireOK
  BY DEF GateInv
<1>1. ASSUME NEW h \in Hosts, NEW i \in 1 .. Len(wire'[h]) PROVE wire'[h][i].by \notin Left'
  <2>1. Issued(h, i)
    BY WiresIssued DEF AllIssued
  <2>2. \A j \in 1 .. Len(wire[h]) : wire[h][j].by \notin Left \cup Inside
    BY DEF OrphanOK, WireOK, CommandOK
  <2> QED
    BY <2>1, <2>2, LeftGrows DEF Issued
<1>2. ASSUME NEW h \in Hosts, worker'[h] = "sweep" PROVE OrphansOf(h)' = {}
  <2>1. CASE BootReaped(h)
    BY <2>1 DEF BootReaped, OrphansOf, TypeOK
  <2>2. CASE worker[h] = "sweep"
    <3>1. \A q \in Pickups : HostOf[q] = h => pc[q] # "orphan"
      BY <2>2 DEF OrphanOK, OrphansOf
    <3>2. \A q \in Pickups : HostOf[q] = h => pc[q] \notin {"set", "run"}
      BY <2>2 DEF GateInv, UpWhileIn
    <3>3. \A q \in Pickups : HostOf[q] = h /\ pc'[q] = "orphan" => pc[q] \in {"run", "orphan"}
      <4>1. ASSUME NEW g \in Hosts, Crash(g) \/ BootReaped(g)
            PROVE \A q \in Pickups : pc'[q] = "orphan" => pc[q] \in {"run", "orphan"}
        BY <4>1 DEF Crash, BootReaped, TypeOK
      <4>2. ASSUME NEW p \in Pickups, Take(p) \/ Timeout(p) \/ Finish(p) \/ OrphanExits(p)
            PROVE \A q \in Pickups : pc'[q] = "orphan" => pc[q] \in {"run", "orphan"}
        <5>1. \E to \in {"set", "run", "idle"} : pc' = [pc EXCEPT ![p] = to]
          BY <4>2 DEF Take, Timeout, GrantDegraded, Finish, OrphanExits
        <5> QED
          BY <5>1 DEF TypeOK
      <4>3. ASSUME NEW g \in Hosts, NEW p \in Pickups, Win(g, p) \/ ProbeNext(g, p) \/ Defer(g, p)
            PROVE \A q \in Pickups : pc'[q] = "orphan" => pc[q] \in {"run", "orphan"}
        BY <4>3 DEF Win, ProbeNext, Defer, TypeOK
      <4>4. ASSUME NEW g \in Hosts, Refuse(g)
            PROVE \A q \in Pickups : pc'[q] = "orphan" => pc[q] \in {"run", "orphan"}
        <5>1. pc' = pc \/ pc' = [pc EXCEPT ![HeadOf(g).by] = "run"]
          BY <4>4 DEF Refuse, GrantDegraded
        <5> QED
          BY <5>1 DEF TypeOK
      <4>5. ASSUME \/ \E g \in Hosts : \/ LandLate(g) \/ LandRelease(g) \/ RunAndResend(g)
                                       \/ BootUnreaped(g) \/ Sweep(g) \/ SweepEnds(g)
                   \/ Tick
                   \/ UNCHANGED vars
            PROVE \A q \in Pickups : pc'[q] = "orphan" => pc[q] \in {"run", "orphan"}
        BY <4>5 DEF LandLate, LandRelease, RunAndResend, BootUnreaped, Sweep, SweepEnds, Tick, vars
      <4> QED
        BY <4>1, <4>2, <4>3, <4>4, <4>5 DEF Next, HostStep
    <3> QED
      BY <3>1, <3>2, <3>3 DEF OrphansOf
  <2>3. worker[h] = "sweep" \/ BootReaped(h)
    <3>1. ASSUME NEW g \in Hosts, Crash(g) \/ BootUnreaped(g) \/ SweepEnds(g)
          PROVE worker[h] = "sweep"
      BY <1>2, <3>1 DEF Crash, BootUnreaped, SweepEnds, TypeOK
    <3>2. ASSUME NEW g \in Hosts, BootReaped(g) PROVE worker[h] = "sweep" \/ BootReaped(h)
      BY <1>2, <3>2 DEF BootReaped, TypeOK
    <3>3. ASSUME \/ \E p \in Pickups : Take(p) \/ Timeout(p) \/ Finish(p) \/ OrphanExits(p)
                 \/ \E g \in Hosts : \/ \E p \in Pickups : Win(g, p) \/ ProbeNext(g, p) \/ Defer(g, p)
                                     \/ LandLate(g) \/ LandRelease(g) \/ Refuse(g) \/ RunAndResend(g)
                                     \/ Sweep(g)
                 \/ Tick
                 \/ UNCHANGED vars
          PROVE worker[h] = "sweep"
      BY <1>2, <3>3 DEF Take, Timeout, Finish, OrphanExits, Win, ProbeNext, Defer, LandLate,
           LandRelease, Refuse, RunAndResend, Sweep, Tick, vars
    <3> QED
      BY <3>1, <3>2, <3>3 DEF Next, HostStep
  <2> QED
    BY <2>1, <2>2, <2>3
<1> QED
  BY <1>1, <1>2 DEF OrphanOK

-----------------------------------------------------------------------------
(* Who frees a key.                                                         *)

\* An orphan has nothing on the wire and no sweep beside it in every state.
LEMMA OrphanInvariant == Spec => [](GateInv /\ OrphanOK)
<1>1. Init => OrphanOK
  BY DEF Init, OrphanOK, OrphansOf
<1> QED
  BY <1>1, GateInit, GateInvariant, OrphanStep, PTL DEF Spec

Freed(p) ==
    /\ pc[p] \in {"run", "orphan"} /\ ~hold[p].degraded
    /\ claim[hold[p].at].by = Holder(p)
    /\ claim'[hold[p].at].by # Holder(p)
Over(p) == pc'[p] = "idle" \/ (pc[p] = "orphan" /\ claim[hold[p].at].left <= 1)

LEMMA FreedStep ==
  ASSUME DistinctHolders, GateInv, OrphanOK, HeldWhileRunning, [Next]_vars,
         NEW p \in Pickups, Freed(p)
  PROVE  Over(p)
<1> TypeOK /\ WireOK /\ UpWhileIn
  BY DEF GateInv
<1>0. /\ hold[p].at \in Slot
      /\ claim[hold[p].at].by = Holder(p) /\ Holder(p) # Nobody
      /\ p \in Inside \cup Left
      /\ claim' # claim
  BY HoldAt, HolderFacts, NobodyAssumption DEF Freed, Inside, Left
<1>1. ASSUME NEW h \in Hosts, NEW q \in Pickups, Win(h, q) PROVE FALSE
  <2>1. claim' = SetNX(claim, hold[q].at, Holder(q)) /\ hold[q].at \in Slot
    BY <1>1, HoldAt DEF Win
  <2>2. claim'[hold[p].at] = claim[hold[p].at]
    BY <2>1, <1>0, ScriptFacts
  <2> QED
    BY <2>2 DEF Freed
<1>2. ASSUME NEW h \in Hosts, LandLate(h) \/ LandRelease(h) \/ RunAndResend(h) PROVE FALSE
  <2>1. wire[h] # <<>>
    BY <1>2 DEF LandLate, LandRelease, RunAndResend
  <2>2. PICK k \in HeadOf(h).keys : \/ claim' = SetNX(claim, k, Holder(HeadOf(h).by))
                                    \/ claim' = ReleaseIfMine(claim, k, Holder(HeadOf(h).by))
    BY <1>2 DEF LandLate, LandRelease, RunAndResend
  <2>3. HeadOf(h).by \in Pickups /\ k \in Slot /\ HeadOf(h).by \notin Inside \cup Left
    BY <2>1, <2>2, HeadFacts, HeadOK, WireFacts DEF OrphanOK, HeadOf, TypeOK
  <2>4. Holder(p) # Holder(HeadOf(h).by)
    BY <2>3, <1>0 DEF DistinctHolders
  <2>5. SetNX(claim, k, Holder(HeadOf(h).by))[hold[p].at] = claim[hold[p].at]
    BY <2>3, <1>0, ScriptFacts
  <2>6. ReleaseIfMine(claim, k, Holder(HeadOf(h).by))[hold[p].at] = claim[hold[p].at]
    BY <2>3, <2>4, <1>0, ScriptFacts
  <2> QED
    BY <2>2, <2>5, <2>6 DEF Freed
<1>3. ASSUME NEW h \in Hosts, Sweep(h) PROVE FALSE
  <2>1. worker[h] = "sweep" /\ sweepAt[h] \in Slot /\ claim' = DeleteIfPrefix(claim, sweepAt[h], h)
    BY <1>3, <1>0 DEF Sweep, TypeOK, Slot
  <2>2. HostOf[p] # h
    BY <2>1, <1>0 DEF UpWhileIn, OrphanOK, OrphansOf, Inside, Left
  <2>3. claim[hold[p].at].by[1] # h
    BY <2>2, <1>0, HolderFacts
  <2>4. claim'[hold[p].at] = claim[hold[p].at]
    BY <2>1, <2>3, <1>0, ScriptFacts
  <2> QED
    BY <2>4 DEF Freed
<1>4. ASSUME Tick PROVE Over(p)
  <2>1. claim'[hold[p].at] = Aged(claim[hold[p].at])
    BY <1>4, <1>0 DEF Tick
  <2>2. claim[hold[p].at] \in [by: Holders \cup {Nobody}, left: 0 .. TTL]
    BY <1>0 DEF TypeOK
  <2>3. claim[hold[p].at].left <= 1
    BY <2>1, <2>2 DEF Aged, Freed
  <2>4. pc[p] # "run"
    <3>1. ASSUME pc[p] = "run" PROVE FALSE
      <4>1. p \in Inside /\ hold[p].life \in Nat /\ hold[p].life > 0
        BY <1>4, <3>1, HoldAt DEF Tick, Inside, Freed, Hold
      <4> QED
        BY <4>1, <2>2, <2>3 DEF HeldWhileRunning
    <3> QED
      BY <3>1
  <2> QED
    BY <2>3, <2>4 DEF Freed, Over
<1>5. ASSUME \/ \E q \in Pickups : Take(q) \/ Timeout(q) \/ Finish(q) \/ OrphanExits(q)
             \/ \E h \in Hosts : \/ \E q \in Pickups : ProbeNext(h, q) \/ Defer(h, q)
                                 \/ Refuse(h) \/ Crash(h) \/ BootReaped(h) \/ BootUnreaped(h)
                                 \/ SweepEnds(h)
             \/ UNCHANGED vars
      PROVE FALSE
  BY <1>0, <1>5 DEF Take, Timeout, Finish, OrphanExits, ProbeNext, Defer, Refuse, Crash, BootReaped,
       BootUnreaped, SweepEnds, vars
<1> QED
  BY <1>1, <1>2, <1>3, <1>4, <1>5 DEF Next, HostStep

\* No step frees the key of a container that is alive, whoever crashed, booted,
\* swept, resent or came late: only its own end does, or the expiry of the claim of
\* a worker that died.
THEOREM FreedHolds ==
  ASSUME DistinctHolders
  PROVE  Spec => FreedOnlyWhenOver
<1>1. ASSUME GateInv, OrphanOK, HeldWhileRunning, [Next]_vars
      PROVE  [\A p \in Pickups :
                /\ pc[p] \in {"run", "orphan"} /\ ~hold[p].degraded
                /\ claim[hold[p].at].by = Holder(p)
                /\ claim'[hold[p].at].by # Holder(p)
                => pc'[p] = "idle" \/ (pc[p] = "orphan" /\ claim[hold[p].at].left <= 1)]_vars
  BY <1>1, FreedStep DEF Freed, Over
<1> QED
  BY <1>1, OrphanInvariant, HeldHolds, PTL DEF Spec, FreedOnlyWhenOver

-----------------------------------------------------------------------------
(* The lease implements the bound.                                          *)

\* Whoever is inside holds a key of its own, so no more are inside than keys.
Fits == IsFiniteSet(Inside) /\ Cardinality(Inside) \in Nat /\ Cardinality(Inside) <= Slots

LEMMA InsideFits ==
  ASSUME DistinctHolders, TypeOK, HeldWhileRunning
  PROVE  Fits
<1>1. IsFiniteSet(Inside)
  BY PickupsAssumption, FS_Subset DEF Inside
<1>2. IsFiniteSet(Slot) /\ Cardinality(Slot) = Slots
  BY FS_Interval DEF Slot
<1> DEFINE f == [p \in Inside |-> hold[p].at]
<1>3. f \in Injection(Inside, Slot)
  <2>1. f \in [Inside -> Slot]
    BY HoldAt DEF Inside
  <2>2. \A p, q \in Inside : hold[p].at = hold[q].at => p = q
    BY DEF HeldWhileRunning, DistinctHolders, Inside
  <2> QED
    BY <2>1, <2>2 DEF Injection, IsInjective
<1> HIDE DEF f
<1> QED
  BY <1>1, <1>2, <1>3, FS_Injection, FS_CardinalityType DEF Fits

\* A step lets one pickup in, or some out.
LEMMA InsideSteps ==
  ASSUME GateInv, [Next]_vars
  PROVE  \/ Inside' \subseteq Inside
         \/ \E p \in Pickups \ Inside : Inside' = Inside \cup {p}
<1> TypeOK /\ WireOK
  BY DEF GateInv
<1> USE DEF Inside
<1>1. ASSUME NEW h \in Hosts, NEW p \in Pickups, Win(h, p)
      PROVE  p \notin Inside /\ Inside' = Inside \cup {p}
  <2>1. /\ pc[p] = "set"
        /\ pc' = [pc EXCEPT ![p] = "run"]
        /\ hold' = [hold EXCEPT ![p] = Granted(hold[p], FALSE)]
    BY <1>1, WaitingFacts DEF Win
  <2>2. ~Granted(hold[p], FALSE).degraded
    BY DEF Granted
  <2> QED
    BY <2>1, <2>2 DEF TypeOK
<1>2. ASSUME NEW p \in Pickups, Take(p) \/ Finish(p) \/ OrphanExits(p) PROVE Inside' \subseteq Inside
  BY <1>2 DEF Take, Finish, OrphanExits, TypeOK
<1>3. ASSUME NEW p \in Pickups, GrantDegraded(p) PROVE Inside' \subseteq Inside
  <2>1. Granted(hold[p], TRUE).degraded
    BY DEF Granted
  <2> QED
    BY <1>3, <2>1 DEF GrantDegraded, TypeOK
<1>4. ASSUME NEW h \in Hosts, NEW p \in Pickups, ProbeNext(h, p) \/ Defer(h, p) PROVE Inside' \subseteq Inside
  <2>1. pc[p] = "set"
    BY <1>4, WaitingFacts DEF ProbeNext, Defer
  <2> QED
    BY <1>4, <2>1 DEF ProbeNext, Defer, TypeOK
<1>5. ASSUME NEW h \in Hosts, Crash(h) \/ BootReaped(h) PROVE Inside' \subseteq Inside
  <2>1. CASE Crash(h)
    BY <2>1 DEF Crash, TypeOK
  <2>2. CASE BootReaped(h)
    BY <2>2 DEF BootReaped, TypeOK
  <2> QED
    BY <1>5, <2>1, <2>2
<1>6. ASSUME NEW h \in Hosts, Refuse(h) PROVE Inside' \subseteq Inside
  BY <1>6, <1>3, HeadFacts DEF Refuse
<1>7. ASSUME NEW p \in Pickups, Timeout(p) PROVE Inside' \subseteq Inside
  BY <1>7, <1>3 DEF Timeout
<1>8. ASSUME Tick PROVE Inside' \subseteq Inside
  BY <1>8 DEF Tick, WithLife
<1>9. ASSUME \/ \E h \in Hosts : \/ LandLate(h) \/ LandRelease(h) \/ RunAndResend(h)
                                 \/ BootUnreaped(h) \/ Sweep(h) \/ SweepEnds(h)
             \/ UNCHANGED vars
      PROVE Inside' \subseteq Inside
  BY <1>9 DEF LandLate, LandRelease, RunAndResend, BootUnreaped, Sweep, SweepEnds, vars
<1> QED
  BY <1>1, <1>2, <1>4, <1>5, <1>6, <1>7, <1>8, <1>9 DEF Next, HostStep

LEMMA BoundSteps ==
  ASSUME GateInv, Fits, Fits', [Next]_vars
  PROVE  [Bound!Next]_Inside
<1>1. CASE Inside' \subseteq Inside
  <2>1. CASE Inside' # Inside
    <3> DEFINE S == Inside \ Inside'
    <3>1. S \in SUBSET Inside /\ S # {} /\ Inside' = Inside \ S
      BY <1>1, <2>1
    <3>2. Bound!Leave(S)
      BY <3>1 DEF Bound!Leave
    <3> HIDE DEF S
    <3> QED
      BY <3>1, <3>2 DEF Bound!Next
  <2> QED
    BY <2>1
<1>2. ASSUME NEW p \in Pickups \ Inside, Inside' = Inside \cup {p} PROVE Bound!Next
  <2>1. IsFiniteSet(Inside) /\ Cardinality(Inside) \in Nat
    BY DEF Fits
  <2>2. Cardinality(Inside') <= Slots
    BY DEF Fits
  <2>3. Cardinality(Inside') = Cardinality(Inside) + 1
    BY <1>2, <2>1, FS_AddElement
  <2>4. Cardinality(Inside) < Slots
    BY <2>1, <2>2, <2>3
  <2>5. Bound!Cardinality(Inside) = Cardinality(Inside)
    BY DEF Bound!Cardinality, Cardinality
  <2>6. Bound!Enter(p)
    BY <1>2, <2>4, <2>5 DEF Bound!Enter
  <2> QED
    BY <2>6 DEF Bound!Next
<1> QED
  BY <1>1, <1>2, InsideSteps

\* The lease implements the fleet-wide bound of SlotBound: every step lets at most
\* one pickup in, under the bound, or takes some out; a degraded grant is outside it.
THEOREM FleetBoundHolds ==
  ASSUME DistinctHolders
  PROVE  Spec => FleetBound
<1>1. Init => Bound!Init
  BY DEF Init, Bound!Init, Inside
<1>2. GateInv /\ HeldWhileRunning => Fits
  BY InsideFits DEF GateInv
<1>3. GateInv /\ Fits /\ Fits' /\ [Next]_vars => [Bound!Next]_Inside
  BY BoundSteps
<1> QED
  BY <1>1, <1>2, <1>3, GateInvariant, HeldHolds, PTL DEF Spec, FleetBound, Bound!Spec
=============================================================================
