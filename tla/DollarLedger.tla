---------------------------- MODULE DollarLedger ----------------------------
(***************************************************************************)
(* The dollar windows: worker/src/dollar-budget.mjs (reserve, give back,   *)
(* settle, release), worker/src/run-budget-ledger.mjs (the run's durable   *)
(* record of its holds) and the order in which worker/src/processor.mjs    *)
(* calls the two around a container.                                       *)
(*                                                                         *)
(* An attempt is one processor call.  It reserves its run's per-job cap in *)
(* every window of Order, one INCRBY at a time, records the hold, runs the *)
(* container, and moves every key of the hold to what the run cost.  Every *)
(* command is a step of its own, attempts interleave, and a worker may die *)
(* between any two commands.                                               *)
(***************************************************************************)
EXTENDS Integers, FiniteSets, SequencesExt

CONSTANTS
    Order,       \* the windows in reservation order: the deployment's, then the others
    Deployment,  \* windows a record's reservedIn may name
    ByModel,     \* windows that settle to one model's share of the cost
    Daily,       \* windows whose key changes at midnight
    Cap,         \* [window -> micro-dollars]
    Runs,
    Amount,      \* [Runs -> the per-job cost cap, which is what is reserved]
    Armed,       \* runs that may be recovered: their holds are recorded
    Attempts,
    RunOf,       \* [Attempts -> Runs]
    Overshoot,   \* bound: how far a metered cost may pass the reservation
    MaxDay,      \* bound: midnights
    MaxFaults,   \* bound: refused commands, crashes and defects in a behaviour
    MaxResends,  \* bound: commands the client sends twice
    MaxEvicted   \* bound: keys evicted, expired early or deleted by hand

Windows == ToSet(Order)

LedgerAssumption ==
    /\ Deployment \cup ByModel \cup Daily \subseteq Windows /\ IsInjective(Order)
    /\ Cap \in [Windows -> Nat] /\ Amount \in [Runs -> Nat \ {0}]
    /\ RunOf \in [Attempts -> Runs] /\ Armed \subseteq Runs
    /\ {Overshoot, MaxDay, MaxFaults, MaxResends, MaxEvicted} \subseteq Nat

\* dayKey, weekKey, monthKey: a window and the bucket it counts in.
Key == Windows \X (0 .. MaxDay)
KeyAt(w, day) == <<w, IF w \in Daily THEN day ELSE 0>>

VARIABLES
    counter,  \* [Key -> [there, n]]: Valkey's counters
    today,
    seq,      \* [Runs -> Nat]: the run ledger's `seq`
    ledger,   \* [Attempts -> state]: the run ledger's s<seq> of that attempt
    at,       \* [Attempts -> the attempt's locals, below]
    record,   \* [Attempts -> the run record's `dollars`, or NoRecord]
    evicted,  \* keys whose history was lost
    faults,
    resends

vars == <<counter, today, seq, ledger, at, record, evicted, faults, resends>>

Phases == {"idle", "close", "reserve", "giveback", "hold", "run", "ended", "move", "end"}
LedgerStates == {"none", "held", "settled", "released", "settled-crashed"}

\* keys: those added to, in order.  todo: those the walk in progress has still to
\* reach.  moved: those it completed on (`applied` counts these along the hold).
\* job, model: what the two kinds of window settle to; both 0 when `releasing`.
\* granted: every window admitted the reservation.
Idle == [phase |-> "idle", dead |-> FALSE, day |-> 0, seq |-> 0, keys |-> <<>>, granted |-> FALSE,
         recorded |-> FALSE, releasing |-> FALSE, todo |-> <<>>, moved |-> {}, job |-> 0, model |-> 0]
NoRecord == [settled |-> 0, reservedIn |-> {}]

A(a) == Amount[RunOf[a]]
Targets(a) == 0 .. A(a) + Overshoot
Target(a, k) == IF k[1] \in ByModel THEN at[a].model ELSE at[a].job

Init ==
    /\ counter = [k \in Key |-> [there |-> FALSE, n |-> 0]]
    /\ today = 0
    /\ seq = [r \in Runs |-> 0]
    /\ ledger = [a \in Attempts |-> "none"]
    /\ at = [a \in Attempts |-> Idle]
    /\ record = [a \in Attempts |-> NoRecord]
    /\ evicted = {}
    /\ faults = 0
    /\ resends = 0

-----------------------------------------------------------------------------
(* Valkey.                                                                  *)

\* INCRBY and DECRBY create a missing key.
IncrBy(c, d) == [there |-> TRUE, n |-> c.n + d]

\* SETTLE_SCRIPT: a missing key is skipped, a result below zero clamped.
SettleScript(c, d) ==
    IF ~c.there THEN c
    ELSE IF c.n + d < 0 THEN [c EXCEPT !.n = 0]
    ELSE [c EXCEPT !.n = @ + d]

\* A command runs once; or its reply was lost, the client sent it again and it
\* ran twice (the worker's client has no bound and resends after a reconnect).
Apply(F(_), c, n) == IF n = 2 THEN F(F(c)) ELSE F(c)
Sent(n) == resends' = resends + n - 1 /\ resends' <= MaxResends

Fault == faults < MaxFaults /\ faults' = faults + 1
NoFault == UNCHANGED faults

Local(a, phase) == at' = [at EXCEPT ![a].phase = phase]
In(a, phase) == at[a].phase = phase /\ ~at[a].dead
Release(a) == at' = [at EXCEPT ![a] = [@ EXCEPT !.phase = "ended", !.releasing = TRUE]]
DeploymentKeys(a) == {k \in ToSet(at[a].keys) : k[1] \in Deployment}
IsArmed(a) == RunOf[a] \in Armed

-----------------------------------------------------------------------------
(* Before the reservation.                                                  *)

\* nextSeq, for an armed run: the number its hold is recorded under.  A second
\* attempt of a run is a retry, a stalled job handed back, or a recovery; only a
\* recovery closes the holds of the earlier ones.
Start(a) ==
    /\ In(a, "idle")
    /\ \E recovery \in BOOLEAN, n \in {1, 2} :
         /\ recovery => IsArmed(a) /\ seq[RunOf[a]] > 0
         /\ n = 2 => IsArmed(a)
         /\ Sent(n)
         /\ seq' = IF IsArmed(a) THEN [seq EXCEPT ![RunOf[a]] = @ + n] ELSE seq
         /\ at' = [at EXCEPT ![a] = [@ EXCEPT !.phase = IF recovery THEN "close" ELSE "reserve",
                                              !.seq = seq'[RunOf[a]], !.day = today]]
    /\ UNCHANGED <<counter, today, ledger, record, evicted, faults>>

\* Earlier containers' holds that nobody has closed.
HeldBefore(a) ==
    {b \in Attempts : RunOf[b] = RunOf[a] /\ ledger[b] = "held" /\ at[b].seq < at[a].seq}

\* settleCrashed: bookkeeping only, no window key moves.  A fault is logged and
\* the run goes on.
CloseCrashed(a) ==
    /\ In(a, "close")
    /\ \/ /\ NoFault
          /\ ledger' = [b \in Attempts |-> IF b \in HeldBefore(a) THEN "settled-crashed" ELSE ledger[b]]
       \/ Fault /\ UNCHANGED ledger
    /\ Local(a, "reserve")
    /\ UNCHANGED <<counter, today, seq, record, evicted, resends>>

-----------------------------------------------------------------------------
(* reserveDollars.                                                          *)

NextWindow(a) == Order[Len(at[a].keys) + 1]

\* Variant: the cap is checked against the total the command found.
LateRefusal(before, total, cap) == before > cap

OverCap(before, total, cap) == total > cap

\* Variant: the window that refused is not given back.
TouchedBefore(a, k) == at[a].keys

\* Every key a refusal gives back, the refusing one included.
Touched(a, k) == Append(at[a].keys, k)

\* One INCRBY; its result is judged against the window's cap.
Reserve(a) ==
    LET k == KeyAt(NextWindow(a), at[a].day)
        Add(c) == IncrBy(c, A(a))
        last == Len(at[a].keys) + 1 = Len(Order)
    IN
    /\ In(a, "reserve")
    /\ \E n \in {1, 2} :
         /\ Sent(n)
         /\ counter' = [counter EXCEPT ![k] = Apply(Add, @, n)]
    /\ LET over == OverCap(counter[k].n, counter'[k].n, Cap[k[1]]) IN
         at' = [at EXCEPT ![a] =
                  [@ EXCEPT !.keys = Append(@, k),
                            !.granted = ~over /\ last,
                            !.todo = IF over THEN Touched(a, k) ELSE <<>>,
                            !.phase = IF over THEN "giveback" ELSE IF last THEN "hold" ELSE "reserve"]]
    /\ UNCHANGED <<today, seq, ledger, record, evicted, faults>>

\* The INCRBY fails, or the EXPIRE that follows a key's first write does: what was
\* added goes back and the attempt ends as never started.
ReserveFails(a) ==
    LET k == KeyAt(NextWindow(a), at[a].day) IN
    /\ In(a, "reserve")
    /\ Fault
    /\ \E added \in BOOLEAN :
         /\ added => counter[k].n = 0
         /\ LET touched == IF added THEN Append(at[a].keys, k) ELSE at[a].keys IN
            /\ counter' = IF added THEN [counter EXCEPT ![k] = IncrBy(@, A(a))] ELSE counter
            /\ at' = [at EXCEPT ![a] = [@ EXCEPT !.phase = "giveback", !.keys = touched, !.todo = touched]]
    /\ UNCHANGED <<today, seq, ledger, record, evicted, resends>>

\* Variant: a failed DECRBY, which may have run, is sent again.
GiveBackAgain(a) ==
    LET k == Head(at[a].todo) IN
    /\ In(a, "giveback") /\ at[a].todo # <<>>
    /\ counter' = [counter EXCEPT ![k] = IncrBy(@, -A(a))]
    /\ \/ NoFault /\ at' = [at EXCEPT ![a].todo = Tail(@)]
       \/ Fault /\ UNCHANGED at
    /\ UNCHANGED <<today, seq, ledger, record, evicted, resends>>

\* giveBack: a bare DECRBY per key, each tried whatever happened to the one before.
GiveBack(a) ==
    LET k == Head(at[a].todo)
        Sub(c) == IncrBy(c, -A(a))
    IN
    /\ In(a, "giveback") /\ at[a].todo # <<>>
    /\ \/ /\ NoFault
          /\ \E n \in {1, 2} : Sent(n) /\ counter' = [counter EXCEPT ![k] = Apply(Sub, @, n)]
       \/ Fault /\ UNCHANGED <<counter, resends>>
    /\ at' = [at EXCEPT ![a].todo = Tail(@)]
    /\ UNCHANGED <<today, seq, ledger, record, evicted>>

\* Refused, or never started: the record of it names no window.
GivenBack(a) ==
    /\ In(a, "giveback") /\ at[a].todo = <<>>
    /\ Local(a, "end")
    /\ UNCHANGED <<counter, today, seq, ledger, record, evicted, faults, resends>>

-----------------------------------------------------------------------------
(* The hold, the container, and its end.                                    *)

\* recordHold, for an armed run.  A hold that could not be recorded runs nothing
\* and is given back directly; sent twice, the second answer is "exists".
RecordHold(a) ==
    /\ In(a, "hold")
    /\ IF ~IsArmed(a)
       THEN Local(a, "run") /\ UNCHANGED <<ledger, faults, resends>>
       ELSE \/ /\ Fault
               /\ Release(a)
               /\ UNCHANGED <<ledger, resends>>
            \/ \E n \in {1, 2} :
                 /\ Sent(n) /\ NoFault
                 /\ ledger' = [ledger EXCEPT ![a] = "held"]
                 /\ IF n = 1 THEN at' = [at EXCEPT ![a] = [@ EXCEPT !.phase = "run", !.recorded = TRUE]]
                    ELSE Release(a)
    /\ UNCHANGED <<counter, today, seq, record, evicted>>

\* dollarSettlement, modelDollarSettlement: the metered cost, or at the floor at
\* least the reservation; a model window at its own share or its own floor.
Exits(a) ==
    /\ In(a, "run")
    /\ \E job \in Targets(a), model \in Targets(a) :
         /\ model <= job \/ model = A(a)
         /\ at' = [at EXCEPT ![a] = [@ EXCEPT !.phase = "ended", !.job = job, !.model = model]]
    /\ UNCHANGED <<counter, today, seq, ledger, record, evicted, faults, resends>>

\* The container never started, or the job was refused as configuration.
NeverStarts(a) ==
    /\ In(a, "run")
    /\ Release(a)
    /\ UNCHANGED <<counter, today, seq, ledger, record, evicted, faults, resends>>

\* The record of a hold no step moved: the whole reservation, in every window.
WholeRecord(a) == [settled |-> A(a), reservedIn |-> DeploymentKeys(a)]

\* Any other throw: the hold stays, and the record states it whole
\* (dollar_hold_unsettled).
Throws(a) ==
    /\ In(a, "run")
    /\ Fault
    /\ Local(a, "end")
    /\ record' = [record EXCEPT ![a] = WholeRecord(a)]
    /\ UNCHANGED <<counter, today, seq, ledger, evicted, resends>>

\* Variant: the keys of the windows open now, not those of the hold.
WalkByClock(a) ==
    LET Now == [i \in 1 .. Len(at[a].keys) |-> KeyAt(at[a].keys[i][1], today)]
    IN  SelectSeq(Now, LAMBDA k : Target(a, k) # A(a))

\* The keys a settlement or a release sends a command for, the job's windows
\* first: none when the key already holds its target.
Walk(a) ==
    LET JobPart == SelectSeq(at[a].keys, LAMBDA k : k[1] \notin ByModel)
        ModelPart == SelectSeq(at[a].keys, LAMBDA k : k[1] \in ByModel)
    IN  SelectSeq(JobPart \o ModelPart, LAMBDA k : Target(a, k) # A(a))

\* Variant: nobody asks whether the hold is still held.
MovesUnasked(a) == TRUE

\* MOVE_SCRIPT: only from `held`.
MoveScript(state, to) == IF state = "held" THEN to ELSE state

\* Only the call that moves a recorded hold from `held` licenses the walk.
Moves(a) == at[a].recorded => ledger[a] = "held"

\* The run's ledger closes the hold and the walk begins; on any other answer the
\* windows keep the reservation and the record says so.  Sent twice, the second
\* answer is "not-held".
CloseHold(a) ==
    LET to == IF at[a].releasing THEN "released" ELSE "settled"
        Begin == /\ at' = [at EXCEPT ![a] = [@ EXCEPT !.phase = "move", !.todo = Walk(a)]]
                 /\ UNCHANGED record
        Keep == /\ Local(a, "end")
                /\ record' = [record EXCEPT ![a] = WholeRecord(a)]
    IN
    /\ In(a, "ended")
    /\ \/ /\ Moves(a) /\ NoFault
          /\ IF at[a].recorded
             THEN \E n \in {1, 2} :
                    /\ Sent(n)
                    /\ ledger' = [ledger EXCEPT ![a] = MoveScript(@, to)]
                    /\ IF n = 1 THEN Begin ELSE Keep
             ELSE Begin /\ UNCHANGED <<ledger, resends>>
       \/ /\ ~Moves(a) /\ NoFault
          /\ Keep /\ UNCHANGED <<ledger, resends>>
       \/ /\ at[a].recorded /\ Fault
          /\ Keep /\ UNCHANGED <<ledger, resends>>
    /\ UNCHANGED <<counter, today, seq, evicted>>

-----------------------------------------------------------------------------
(* settleDollars.                                                           *)

\* One SETTLE_SCRIPT.
Move(a) ==
    LET k == Head(at[a].todo)
        Adjust(c) == SettleScript(c, Target(a, k) - A(a))
    IN
    /\ In(a, "move") /\ at[a].todo # <<>>
    /\ \E n \in {1, 2} : Sent(n) /\ counter' = [counter EXCEPT ![k] = Apply(Adjust, @, n)]
    /\ at' = [at EXCEPT ![a] = [@ EXCEPT !.todo = Tail(@), !.moved = @ \cup {k}]]
    /\ UNCHANGED <<today, seq, ledger, record, evicted, faults>>

\* Keys one settleDollars call walks: a release the whole hold, a settlement the
\* job's windows in one call and each model's in another.
SameCall(a, j, k) ==
    \/ at[a].releasing
    \/ j[1] \notin ByModel /\ k[1] \notin ByModel
    \/ j[1] \in ByModel /\ j[1] = k[1]

\* A fault stops the call it struck; the keys not reached keep the reservation.
MoveFails(a) ==
    LET k == Head(at[a].todo) IN
    /\ In(a, "move") /\ at[a].todo # <<>>
    /\ Fault
    /\ at' = [at EXCEPT ![a].todo = SelectSeq(@, LAMBDA j : ~SameCall(a, j, k))]
    /\ UNCHANGED <<counter, today, seq, ledger, record, evicted, resends>>

\* Variant: the record names every window, whatever its key holds.
EveryWindow(a, recorded) == DeploymentKeys(a)

\* deploymentWindowsOf: the windows whose key holds at least what is recorded.
WindowsHolding(a, recorded) ==
    {k \in DeploymentKeys(a) : (IF k \in at[a].moved THEN at[a].job ELSE A(a)) >= recorded}

\* The amount the record states: a walk that adjusted none of the job's keys left
\* a floor, and so did a release that stopped part-way.
Stated(a) ==
    LET jobKeys == {k \in ToSet(at[a].keys) : k[1] \notin ByModel}
        kept == IF at[a].releasing THEN at[a].moved # ToSet(at[a].keys)
                ELSE at[a].moved \cap jobKeys = {} /\ jobKeys # {}
    IN  IF kept THEN A(a) ELSE at[a].job

Moved(a) ==
    /\ In(a, "move") /\ at[a].todo = <<>>
    /\ Local(a, "end")
    /\ record' = [record EXCEPT ![a] = [settled |-> Stated(a),
                                        reservedIn |-> WindowsHolding(a, Stated(a))]]
    /\ UNCHANGED <<counter, today, seq, ledger, evicted, faults, resends>>

-----------------------------------------------------------------------------
\* The worker dies: the attempt does nothing more, what it added stands.
Crash(a) ==
    /\ at[a].phase \notin {"idle", "end"} /\ ~at[a].dead
    /\ Fault
    /\ at' = [at EXCEPT ![a].dead = TRUE]
    /\ UNCHANGED <<counter, today, seq, ledger, record, evicted, resends>>

Midnight ==
    /\ today < MaxDay
    /\ today' = today + 1
    /\ UNCHANGED <<counter, seq, ledger, at, record, evicted, faults, resends>>

\* A key is lost: expired under a clock jump, evicted, deleted or flushed.
Evict(k) ==
    /\ counter[k].there
    /\ Cardinality(evicted) < MaxEvicted
    /\ counter' = [counter EXCEPT ![k] = [there |-> FALSE, n |-> 0]]
    /\ evicted' = evicted \cup {k}
    /\ UNCHANGED <<today, seq, ledger, at, record, faults, resends>>

AttemptStep(a) ==
    \/ Start(a) \/ CloseCrashed(a) \/ Reserve(a) \/ ReserveFails(a)
    \/ GiveBack(a) \/ GivenBack(a) \/ RecordHold(a)
    \/ Exits(a) \/ NeverStarts(a) \/ Throws(a)
    \/ CloseHold(a) \/ Move(a) \/ MoveFails(a) \/ Moved(a) \/ Crash(a)

Next ==
    \/ \E a \in Attempts : AttemptStep(a)
    \/ Midnight
    \/ \E k \in Key : Evict(k)

Spec == Init /\ [][Next]_vars

-----------------------------------------------------------------------------
(* Properties.                                                              *)

Intact == Key \ evicted

\* The locals stay in their types, and no counter whose history is whole goes
\* below zero: a negative one would admit jobs over the cap.
TypeOK ==
    /\ \A k \in Key : counter[k].n \in Int /\ (k \in Intact => counter[k].n >= 0)
    /\ \A k \in Key : ~counter[k].there => counter[k].n = 0
    /\ today \in 0 .. MaxDay
    /\ seq \in [Runs -> Nat]
    /\ ledger \in [Attempts -> LedgerStates]
    /\ \A a \in Attempts :
         /\ at[a].phase \in Phases
         /\ at[a].keys \in Seq(Key) /\ Len(at[a].keys) <= Len(Order)
         /\ at[a].moved \cup ToSet(at[a].todo) \subseteq ToSet(at[a].keys)
         /\ at[a].job \in Targets(a) /\ at[a].model \in Targets(a)
         /\ record[a].reservedIn \subseteq DeploymentKeys(a)
    /\ faults \in 0 .. MaxFaults /\ resends \in 0 .. MaxResends

\* The least of attempt a's money that must stand in k: its whole reservation until
\* the container's cost is known (for ever, when the worker died) and whenever the
\* run's ledger says the hold is held or was settled as crashed; then what its
\* record states of the window.
Due(a, k) ==
    IF k \notin ToSet(at[a].keys) THEN 0
    ELSE IF \/ at[a].phase \in {"reserve", "hold", "run", "ended"}
            \/ at[a].recorded /\ ledger[a] \in {"held", "settled-crashed"}
         THEN A(a)
    ELSE IF k \in record[a].reservedIn THEN record[a].settled
    ELSE 0

\* Every counter with a whole history covers what the attempts hold in it: no
\* order of give-backs, settlements, crashes, recoveries and faults charges a
\* window less than the holds and the records say (the money-safe side), unless a
\* command was sent twice (FloorHolds).
Covered ==
    resends = 0 =>
        \A k \in Intact : counter[k].n >= MapThenSumSet(LAMBDA a : Due(a, k), Attempts)

\* What an admitted attempt takes of the cap.
Taken(a, k) ==
    IF ~at[a].granted \/ k \notin ToSet(at[a].keys) THEN 0
    ELSE IF k \in at[a].moved /\ Target(a, k) < A(a) THEN Target(a, k)
    ELSE A(a)

\* Concurrent reservations need no lock: what the admitted attempts take of a
\* window is never above its cap.
CapHolds == \A k \in Intact : MapThenSumSet(LAMBDA a : Taken(a, k), Attempts) <= Cap[k[1]]

\* With nothing refused, resent, crashed or lost, a window ends at exactly what
\* its jobs cost: a refused or never-started job leaves nothing in any window,
\* the ones it reached before the refusal included.
Quiet == \A a \in Attempts : at[a].phase \in {"idle", "end"}
Charge(a, k) ==
    IF ~at[a].granted \/ k \notin ToSet(at[a].keys) THEN 0
    ELSE IF ledger[a] = "settled-crashed" THEN A(a)
    ELSE Target(a, k)
ExactWhenQuiet ==
    Quiet /\ faults = 0 /\ resends = 0 =>
        \A k \in Intact : counter[k].n = MapThenSumSet(LAMBDA a : Charge(a, k), Attempts)

\* The run's ledger licenses one settlement per hold, whatever was sent twice or
\* lost: container numbers are never shared, a hold that has moved a key is settled
\* or released there, and one a recovery closed as crashed has moved none.
HoldsCloseOnce ==
    /\ \A a, b \in Attempts :
         a # b /\ RunOf[a] = RunOf[b] /\ at[a].seq > 0 => at[a].seq # at[b].seq
    /\ \A a \in Attempts :
         at[a].recorded /\ at[a].moved # {} =>
             ledger[a] = IF at[a].releasing THEN "released" ELSE "settled"

\* dollarWindowFloors: "The counter is at least this sum on a healthy deployment:
\* ... nothing else lowers a key.  ... So a counter below it lost history."
Floor(k) == MapThenSumSet(LAMBDA a : IF k \in record[a].reservedIn THEN record[a].settled ELSE 0, Attempts)
FloorHolds == \A k \in Intact : counter[k].n >= Floor(k)
=============================================================================
