# pi-dispatch: TLA+ specifications

pi-dispatch turns comments, labels, schedules and local folders into jobs on a
Valkey queue (BullMQ) and runs each job as a coding agent in a container on one
of several hosts. A run costs money from the moment its container starts, so
most of the difficult code answers one of three questions: may this container
start now, who pays for it, and was every message to it answered. The
specifications here model that code.

Paths below are relative to the repository; `worker/src/x.mjs` is written
`x.mjs`.

## 1. The system

| part | state it keeps | operations | shared with | what is hard |
|---|---|---|---|---|
| fleet lease (`fleet-lease.mjs`) | `scope:slot:*` keys with a TTL | acquire, release, boot sweep | every worker, through Valkey | SETs that land after their bound fired, resent releases, dead workers |
| in-process bound (`scoped-limits.mjs`) | a count per scope | tryAcquire, release | the pickup gates | the count must survive every exit of the processor |
| pickup gates (`index.mjs`) | local holds of one pickup | scope, project, endpoint, wait-for, pause, budget gates; one drain | all of the above | a later gate refuses after an earlier one granted |
| dollar windows (`dollar-budget.mjs`) | one counter per window and bucket | reserve, give back, settle, release | every job of the fleet | no lock: concurrent INCRBYs, partial failures, midnight |
| run budget ledger (`run-budget-ledger.mjs`) | one hash per recovered run | nextSeq, record a hold, settle, release, close as crashed, claim a slot | attempts of one run | a recovery beside a stalled attempt that is not dead |
| steer inbox (`steer-inbox.mjs`, `inbox-relay.mjs`, `inbox-settle.mjs`, `receiver/src/steer.mjs`) | a message list, a mark hash, a closed flag per run; the inbox file in the container | push, withdraw, mark, close, preseed, reset; relay pass; late carry-over | receiver, console, worker, container | a comment that arrives as the run ends |
| held replies (`held-replies.mjs`, `held-settle.mjs`, `receiver/src/held.mjs`) | a reply list and a closed flag per run; a parked marker per target | hold, take, settle | receiver, worker | an answer given in the seconds before a run parks |
| durable runs (`recovery-queue.mjs`, `run-checkpoint.mjs`) | a claim per recovery, a pending set, a pointer | enqueue, host-lost sweep, salvage | workers, stall listener | an enqueuer dies between its claim and its add |
| wait-for (`wait-state.mjs`) | a hold hash, a lease, a satisfied marker per target | claim, hold, release | pickups of one target | leases read and written in separate commands |
| host budget (`host-budget.mjs`) | a ledger and waiters, in one process | gate, suspend, release, orphan, verify, sweep, seed | pickups of one host | starvation of large jobs, containers that outlive their job |
| cancel (`cancel-state.mjs`) | a request and an ack key | request, withdraw, remove a queued job | CLI, console, worker | a worker that reads as the requester gives up |
| approvals (`approval-state.mjs`, `approval-runtime.mjs`) | a request per asker, the request a target waits for, deadline indexes | create, claim, cancel, expire, finish; before and after a pickup; sweep | receiver, worker, operator's triggers file | a decision taken by a job that is then put back |
| watch (`watch-puller.mjs`, `watch-store.mjs`, `watch-runtime.mjs`, `watch-issue.mjs`) | a cursor and lease per source, findings, pending actions, an issue mapping and its quiet list | pull, ingest, take, decide, act, drain; publish, note, sweep | receivers, workers, the forge | a batch half ingested; an issue that changes hands between Valkey and the forge |
| triggers file (`triggers-file.mjs`) | one JSON file | mutate, disarm a one-shot | console, worker | two writers |
| allocation (`allocation.mjs`) | a plan and a lock key | compare-and-set, expire, revert | console, portfolio jobs | stale plans |
| poller (`receiver/src/poller.mjs`) | four cursors per repository | poll each feed | queue | restart between handling and saving |
| model failover (`model-failover.mjs`, `model-attempts.mjs`) | an attempt key per job | choose, drop | gates | slots of the endpoint it leaves |
| sandboxes, sessions, forks, run history | directories and files | retain, pin, open, reap, append | CLI, console | rename against reap |
| backends, configuration, doctor, console, image | no shared state of their own, or views of the above | | | |

**How they meet.** The receiver (or the poller) filters a delivery, and either
pushes it into a live run's steer inbox, holds it for a run that is parking, or
enqueues a job. A worker's processor call (a *pickup*) passes the gates of
`index.mjs`, each of which may defer the job and then has to give back what the
gates before it granted. `processor.mjs` reserves dollars, starts the container
and the relay, and at the end settles the money, closes the inbox and enqueues
what came late. Valkey is the only thing two hosts share.

**What goes wrong everywhere.** Every worker reaches Valkey through one client
without a bound of its own (`start.mjs` 1637). Such a client sends a command
again when its connection dropped before the answer came, so a command can run
twice; a caller that races a timer stops waiting, but the command is not taken
back. Workers die between any two commands. Containers do not die with them.

**What makes each part correct.**

- *Fleet lease*: at most `concurrent` containers fleet-wide on an undegraded
  grant; a claim is never taken from under a live container; every claim ends.
- *In-process bound*: the count is the number of pickups inside, always.
- *Dollar windows*: never less in a window than its holds and records say; what
  is admitted never passes the cap; a refused or never-started job leaves no
  trace.
- *Run ledger*: one settlement per hold.
- *Steer inbox and held replies*: an accepted message is delivered, withdrawn,
  carried to a new job or answered; never nothing, never two jobs.
- *Durable runs*: one job per recovery number; a recovery whose host is gone is
  told to its issue.
- *Wait-for*: one paid run per intent; *cancel*: "nothing was changed" is true
  when it is said; *host budget*: what runs fits, and the oldest waiter starts;
  *poller*: no event lost, none handled twice by the queue.
- *Approvals*: one job continues with a request, under one decision, and a decision
  that stands is acted on. *Allocation*: nothing is overwritten that was not read,
  and the audit says what happened. *Watch*: a line counts once, a decision is
  bought once, an identity has one issue.

## 2. Modules

| module | models | builds on |
|---|---|---|
| `SlotBound` | the abstract promise of a fleet lease: at most `Slots` inside | |
| `FleetLease` | `fleet-lease.mjs` with `makeInFlight`, the scope gate, the boot reaper and sweep | implements `SlotBound` |
| `DollarLedger` | `dollar-budget.mjs` and `run-budget-ledger.mjs` in the order `processor.mjs` calls them | |
| `SteerInbox` | `steer-inbox.mjs`, `inbox-relay.mjs`, `inbox-settle.mjs`, `receiver/src/steer.mjs` and the enqueue they stand beside | |
| `HeldReplies` | `held-replies.mjs`, `held-settle.mjs`, `receiver/src/held.mjs` and the park sequence of `processor.mjs` | |
| `DurableRun` | `recovery-queue.mjs`, `run-checkpoint.mjs`, the recovery gates of `processor.mjs` and the stall listener | |
| `WaitGate` | `wait-state.mjs`, the check slots and the wait gate of `index.mjs` | |
| `CancelState` | `cancel-state.mjs`, `cancel-cli.mjs` and the poll tick of `index.mjs` | |
| `Allocation` | `allocation.mjs` and the replacement of the envelope file | |
| `HostBudget` | `host-budget.mjs` with its gate, tick and boot | |
| `Poller` | `receiver/src/poller.mjs`, one repository | |
| `Approval` | `approval-state.mjs`, `approval-runtime.mjs` and the pickup around them | |
| `WatchIssue` | `watch-issue.mjs` | |
| `WatchFinding` | `watch-puller.mjs`, `watch-store.mjs`, `watch-runtime.mjs` | |
| `FleetLease_proofs`, `DollarLedger_proofs`, `CancelState_proofs`, `HeldReplies_proofs`, `Approval_proofs`, `DurableRun_proofs`, `WatchIssue_proofs`, `WatchFinding_proofs` | the proofs | the module of that name |
| `MCDollarLedger`, `MCWaitGate`, `MCAllocation`, `MCHostBudget`, `MCPoller` | several instances of one component, side by side | the component |
| `MCSteerInbox` | one instance of the inbox, alone | `SteerInbox` |
| `MCCapacity`, `MCEnds`, `MCMoneyRecovery`, `MCAskSteer`, `MCHoldsSplit`, `MCArrivals` | what TLC is run on: components that share no state, one of them at work in a behaviour | the above |

In every module a variable is what one store, file or process holds, an action is
one command, one script or one step of a process that no other can divide, and the
variables the comment calls "for the properties" are history the code does not keep.

### FleetLease

| variable | in the code |
|---|---|
| `claim` | the value (`<workerName>#<jobId>`) and PTTL of each slot key |
| `wire` | commands of one host's client, issued and not yet executed |
| `pc`, `hold` | where a pickup is, and the locals of `acquire` / the handle it returned |
| `inFlight` | `makeInFlight`'s count for the scope, per process |
| `worker`, `sweepAt` | whether the process is up, and how far the boot sweep is |
| `faults` | bound only |

A pickup takes the in-process slot and sends the first SET (`Take`), wins
(`Win`), probes on (`ProbeNext`) or defers (`Defer`). `Timeout` is the 2 s bound:
the pickup runs with a *degraded* handle while the SET stays on the wire, to land
later (`LandLate`). `Finish` gives the in-process slot back and sends the release
of the key won, or of every key tried when degraded; `LandRelease` is one
compare-and-delete of it. `Refuse` and `RunAndResend` are a command that fails and
one whose answer was lost. `Crash`, `BootReaped`, `BootUnreaped`, `Sweep` and
`SweepEnds` are a worker's death and return. Time is `Tick`: keys age, and the job
timeout stops a container before its time is up.

Assumed of the environment: commands of one host execute in the order it sent
them (one connection, and a reconnect resends in order); the reaper's answer
"enumerated" means the containers of this host are gone. A container whose stop
did not take (`stop_did_not_take`) outlives its handle in the code and is outside
the bound by design; it is not modelled. `Slots` is fixed: an operator who lowers
`concurrent` at runtime has more claims than slots until they drain.

### DollarLedger

| variable | in the code |
|---|---|
| `counter` | the counters of `dollar-budget.mjs`, by window and bucket |
| `seq`, `ledger` | the run ledger's `seq` and its `s<seq>` state per attempt |
| `at` | the locals of one processor call: keys reserved, the walk in progress, settled amounts |
| `record` | `dollars` of the run record: what settled, and `reservedIn` |
| `today` | the day the buckets are named after |
| `evicted`, `faults`, `resends` | bounds, and which histories are broken |

An attempt takes its number (`Start`), closes crashed holds when it is a recovery
(`CloseCrashed`), adds to one window after the other (`Reserve`), and on a refusal
or a fault gives back every key touched (`GiveBack`). It records its hold
(`RecordHold`), runs, and ends by exit, by never having started, or by another
throw that leaves the hold (`Exits`, `NeverStarts`, `Throws`). `CloseHold` is the
run ledger's compare-and-set, and only when it moved does the walk over the keys
begin (`Move`, `MoveFails`, `Moved`). `Crash` may strike in any of these phases.

A recovery may start while the attempt it replaces is alive; the code allows that
for a stalled job and the model does not ask why it happened. The run ledger's
TTL, its sandbox slots and its removal are not modelled. The rebuild of a counter
from `dollarWindowFloors` is not an action: the module states what that rebuild
relies on (`FloorHolds`).

### SteerInbox

A comment is both a message and the run it would have started, since the job's id
is the delivery's GUID; `Runs` is the first run and the comments. All runs work on
one issue or pull request.

| variable | in the code |
|---|---|
| `list`, `mark`, `closed`, `fallback` | the four `run:inbox:*` keys of a run |
| `open` | `run:steer:open:<run>` together with the run's member of the target's set: live (30 s, refreshed), held (15 min) or none |
| `relay` | the pass in flight: its snapshot and how far it is |
| `disk`, `session`, `acks` | files in `/inbox`, the attempt's transcript, verified acks not yet marked |
| `settle` | the settle in flight, the processor's and the failed listener's |
| `window` | the job whose id holds the semantic dedup key |
| `rcv`, `deliveries`, `marker` | `trySteer` and the enqueue after it; deliveries made; steered markers |
| `job`, `tries`, `recovered` | the queue's view of a run |
| `log`, `answers`, `reached`, `spent` | history the properties speak of, and bounds |

*Receiver*: `Lookup` finds the live runs; for each of them `Store` the fallback job,
then `Push`; then `SetMarker`, or `AskMarker` and `Enqueue` when no run took the
comment. *Relay*: `Reset`, `Register`, then passes: `ReadInbox` (one snapshot),
`Rebaseline` per message on the attempt's first pass, and for each entry `Skip`, or
`MarkWritten` followed by `Rename`. *Container*: `HandOver`, then the ack that
`Delivered` marks. *Job*: `Pickup`, `Refuse`, `StopRelay`, `Hold`, then `Handoff` to
another attempt or `Finish`. *Settle*: `Close`, `Release` the window, `Decide`,
`Carry`, `Answer`; `Record` starts the second settle of a thrown failure.
*Around them*: `ConsoleRetry`, `Crash`, `ReceiverRestart`, and the expiries
`OpenLapses`, `WindowLapses` and `InboxLapses`.

Simplified: an open key and the target member of a run appear and lapse together
(the code names a gap of seconds between the two expiries); a failed command had no
effect; two deliveries of one comment do not overlap; fewer than four runs share a
target; a worker that died does not come back to the same attempt; the settle by the
failed listener ends before the next failure of the same job is recorded. Not
modelled: the stdin transport and its byte budget, messages that cannot be framed,
verified acks of an earlier attempt (the key is minted per attempt, so none
verifies), a draft source that may not publish, the carry's own 24 hours. That a held
reply already resumed the run enters as the choice of `resume` in `Finish`.

### HeldReplies

| variable | in the code |
|---|---|
| `list`, `closed`, `open` | the `run:held:*` keys of a run; `run:await:open:<run>` with its member of the target's set |
| `marker`, `label`, `sidecar` | the parked marker in Valkey, the label on the issue, the file beside the transcript |
| `window` | the job that holds the semantic window |
| `stage`, `tries`, `outcome` | how far a run is, and what its settle will be given |
| `hand` | what the take closed over and has not delivered |
| `said` | the comment the park ended with |
| `rcv`, `deliveries`, `born` | a delivery in flight, and what stood when its comment was written |
| `old` | entries held longer than `HELD_LOOKBACK_MS` ago |

*Receiver*: `Delivery` looks the runs of the target up, asks each to hold the reply, or
goes on to the marker, the window and the enqueue. *Run*: `Work` is the pickup, the
gates, the keeper's start, its refresh and its stop; `Park` is the sequence after a
run that asked: label, marker and sidecar, the take that closes the list, the
delivery of the first reply that may resume, the comment; then the settle, and the
failed listener's. *Around them*: `Disturb` (a fault, a crash, a console retry, a
reply that grows old) and `Lapse`.

One target and one command, so the mismatch skip has nothing to skip. A run's open
key and its target member appear and lapse together.

### DurableRun

| variable | in the code |
|---|---|
| `queue`, `tries`, `at`, `result` | the state of each job, how far its pickup is and what it will answer |
| `box`, `store`, `pointer`, `record` | the container, the checkpoint on disk, `run:checkpoint:<run>`, the run record |
| `claim`, `pending`, `due`, `hard` | `run:recover:claim:*`, the pending set and its deadlines |
| `call`, `listener`, `sweep`, `up` | the two calls of `enqueueRecovery`, the failed listener, the sweep of each host, the home worker |
| `told` | the comments that end the run |

Job 0 is the run, job n its n-th recovery. The exit of a lost attempt and the
listener of a stalled one each claim the next number and add the job (`Enqueue`);
`Gates` are the checks a recovery passes before it starts; `Sweep` takes off the queue
a recovery whose host did not return; `Crash`, `Reboot` and the boot reap are the
home worker's. Two timing bounds are assumed and named in the module: a container
outlives the few commands between a sweep's look at its job and the removal
(`OutlivesLook`), and a recovery's deadline comes long after the call that set it
(`Deadline`).

### WaitGate

`lease` (`wait:key:*`), `marker` (`wait:done:*`) and `card` (`wait:job:*`) are the three keys;
`stage`, `verdict` and `read` are the locals of a pickup; `slots` and `others` the check
slots; `due` says that the instant has come. `Pickup` walks the gate command by command:
the card, the claim with its takeover of an expired lease, the check under a slot,
the marker and the release. `Promote` is the end of a deferral, `Age` the passing of a
bound, `Leave` a job an operator removes. The refusals of an unreadable, undeclared or
unusable wait and the forge lookups behind a check are not modelled.

### CancelState

`req` and `ack` are the two keys; `job`, `tries`, `hold`, `leased` the queue's and the wait
gate's view of the job; `work`, `signal`, `stopped`, `tick`, `record` the pickup, what
aborted it, and the poll tick in flight; `op`, `saw`, `told` how far each requester is. A
requester that finds the job queued removes it, hold first; one that finds it active
writes its request, waits for the acknowledgement, and takes the request back when
it gives up. The worker's tick reads the request, raises the abort and then
acknowledges, in that order; the pickup stops its poll before it decides what became
of the job. The console's cancel and an agent's run through the same pair.

### Allocation

`plan`, `expected` and `lock` are the Valkey keys, `file[h]` the envelope on each host, `at`,
`my` and `told` the locals of a call, `rows` the audit. Every call reconciles first
(`Reconcile`): re-bases on a digest that is expected, or keeps the plan. Plans and
reverts take the lock, write their row, and land by compare-and-set; a write of the
envelope names its digest, confirms, replaces the file and puts the digest back if
that failed. A state is known by its plan's id: shares and weights are left out. A call
spans at most one tick of the clock.

### HostBudget

`ledger` holds the entries, `line` the waiters, oldest first; `pickups` are the pickups
inside this host's processors; `where`, `box` the queue's word on a job and its
container; `look` and `sweep` the two reads of the tick that are open while others act.
`Gate` admits, suspends the room of a waiter or joins the line; `Create`, `Finish`,
`GiveUp` end in a release or an orphan; `Ask` and `Judge` are the sweep of orphans, `Look` and
`Unverifiable` the waiter's verification, `Seed` the boot listing per venue. A size is one
number, since memory and CPU are judged alike; the budget is constant.

### Poller

The forge is modelled: `events`, `comments`, `pulls`, `heads`, `reviews` and a clock in the
seconds of its timestamps. `cursor`, `armed`, `snapshot`, `etag`, `etagOf`, `attempts` are the keys of
`poll:<repo>`; `at`, `todo`, `open`, `top` the cycle. `Fetch*` reads a page or is answered 304,
`Handle*` enqueues one item, `Advance*` writes the cursor, `Breaks` ends a cycle anywhere.

### Approval

`request`, `target` and `due` are the keys of `approval-state.mjs`; `file` the triggers file
against what the request was made under; `queue`, `tries`, `bound` the jobs and the request
each is bound to; `at`, `found`, `asks` a pickup; `listener` and `sweep` the other two callers.
Each script (create, claim, cancel, expire, finish) is one action. A pickup passes
`Find`, `Policy`, then `Decide`, `Claim`, the later gates and `Start`; `ExitPolicy`, `Finish`,
`Vouch`, `Publish` and `Close` are the ends in the order of `processor.mjs`.

### WatchIssue

`mapping`, `activity`, `quiet` and `lock` are the keys of one identity, `issues` and `open` the
forge's side of it, `policy` the reviewed rule. A publish reserves, looks for an issue
with the identity's marker, creates or updates, writes the mapping and schedules; a
sweep lists, claims, closes, commits, and reopens what was touched meanwhile. The
forge may apply a call and lose the answer. A quiet time is longer than a publish takes
after its note (`OutlivesPublish`), and a lock outlives a live sweep.

### WatchFinding

`cursor` and `lease` are the source's; `pull` is a collector's cycle; `window`, `answer`,
`finding`, `status`, `decision`, `pending` the fingerprint's keys; `queue`, `tries`, `at`, `saw`, `exit`
the dispatch and the action job. `Collects` takes the lease, ingests line by line and
writes the cursor at the end of a batch; `Works` takes the finding when its window has
ended, decides where the rule asks for it, and acknowledges; `Drain` enqueues what is
due. One digest: the next window of the fingerprint is another finding.

## 3. What the runs check

| run | components and instances | shows |
|---|---|---|
| `capacity` | `FleetLease`: 3 pickups on 2 hosts, 2 slots, TTL 2 against a job timeout of 1, 1 command outstanding, 1 fault. `HostBudget`: a small job and one as large as the host under any two disturbances; a large job and two small ones of projects with a soft minimum; two jobs of one project on two venues | `HeldWhileRunning`, `PerHostBound`, `FleetBound` (the lease implements `SlotBound`), `FreedOnlyWhenOver`; `Counted`: every container is counted, once, fits, and no exit keeps room; `LineKept`: nobody is overtaken in the line |
| `ends` | `WaitGate` (1 job), `FleetLease` (2 pickups on 2 hosts), `HostBudget` (both jobs come again and again), each fair | `WaitEnds`, `ClaimsEnd`, `RoomComes`: a job as large as the host is admitted, and a container nobody stopped gives its room back |
| `money_recovery` | `DollarLedger`: a recovered run with 2 attempts beside another run, day and model window, the model's with room for one, 1 fault; 2 attempts across one midnight, 1 resend, 1 eviction. `DurableRun`: two recoveries and two sweepers under one disturbance; under two until the second recovery is picked up, one host sweeping | `BooksHold` (`Covered`, `ExactWhenQuiet`), `CapsHold`, `HoldsCloseOnce`; `OneAgent`, `EndIsTold` (`NeverSilent`, `WatchedFromTheStart`), `VerdictIsTrue` (`OneVerdict`, `CompletedStays`, `HostLostIsTrue`) |
| `steer_inbox` | `Approval`: a job that asks, 2 replies, one under other gates, one deadline, 2 attempts, 1 disturbance. `SteerInbox`: 2 comments, 1 fault; a comment and an operator's message with room for one, through a fault, a crash and a lapse; a comment delivered twice beside a console retry | `OneContinuation`, `DecisionIsActedOn`; `MessageEnds`, `SaidIsTrue`, `RunIsReachable`, `NeverEnqueuedBeside` |
| `steer_inbox_settles` | `SteerInbox`, 2 comments, the first one's job with a session to resume, fair | `AcceptedSettles` |
| `holds_split` | `CancelState`: 2 cancels of a held and of a plain job, 2 attempts, 2 disturbances. `WaitGate`: 2 jobs of one intent, 1 disturbance. `Allocation`: 2 hosts' pickups and 2 writes; two plans; a plan and a revert; plans beside a write that turns delegation off. `WatchIssue`: 2 jobs of 2 attempts, 2 sweepers, 1 disturbance. `WatchFinding`: 2 lines, 2 collectors, `MinCount` 2; one line through every kind of rule; 1 disturbance | `CancelAnswersTrue`, `NeverAgain`; `HeldOnce` (`OneHolder`, `NeverDroppedOnce`), `ChecksBounded`, `DecidingCheck`; `PlanToldTrue`, `PlanReplacesWhatItRead`; `IssueKept` (`OneIssue`, `ShownAsMapped`, `WatchedForQuiet`); `FindingKept` (`EvidenceIsWhole`, `CheckpointedIsQueued`, `DecidedOnce`, `HandedOn`) |
| `arrivals` | `HeldReplies`: a run of 2 attempts and 2 comments, one with the phrase and delivered twice, 1 disturbance. `Poller`: events, comments, pull requests, reviews, each more than its pages reach | `RepliesEnd` (`OneContinuation`, `HeldHasEnd`, `SaidTrue`), `RepliesMeetTheRun` (`LiveNotSettled`, `EndedIsClosed`, `PreLabelKept`); `ArmedWithoutReplay`, `NothingPassedOver` |
| `dollar_ledger_resent`, `steer_inbox_dies`, `cancel_recorded`, `poller_retries`, `approval_wedged` | one disturbance each | counterexamples, section 6 |

Each run also checks the types (`TypeOK`, `TypesOK`). Runs put components that share no
state side by side: a variable of the MC module says which of them is at work in a
behaviour, the others rest in their initial state. A property of such a run speaks of
the part at work; what it means is the definition in the component's module. Parts
that are never at work together may keep their state in the same variables (`x1` to `x21`
of `MCHoldsSplit`).

**Bounds.** Each constant whose comment names a bound is a limit of the model and
not of the code.

- *Lease.* `MaxWire` limits the commands a host has outstanding when a pickup starts. It
  is 1: one host's commands execute in the order sent, so a late command of an earlier
  pickup precedes those of a later one however long the queue, and the late commands
  that do harm meet the other host's pickups; the theorems hold for every value. `TTL`
  2 against `JobTimeout` 1 is the smallest instance in which a claim outlives its
  container and can still expire.
- *Dollars.* A reservation of 2 with a cap of 3 or 4 has all the cases: fits, fits once,
  overshoots by one. Two attempts of one run are what its ledger has to keep apart,
  and a second run is what the windows have to.
- *Inbox.* The second comment is what a carry needs: the first late comment becomes a
  job, the second rides in that job's inbox, is late there again, and must be answered.
  Crashes, faults, retries and second deliveries are in instances of their own because
  each multiplies the states by ten; that is also where the properties part (section
  6), so each is stated for the histories in which it holds.
- *Held replies.* Two comments, since what one finds depends on what the other left:
  one opens the list, the other meets it closed. The inductive invariant was checked
  with three disturbances too, and proved for any number.
- *Durable runs.* The second recovery is the one whose number a claim must keep free,
  and the second sweeper what must not tell an end twice. Every combination of the two
  disturbances meets one recovery; a behaviour in which both have come stops short of the
  second one's pickup (`Bounded` in `MCMoneyRecovery`), which the theorems do not.
- *Wait gate, cancel, approval.* Two actors of a kind, and a second attempt where a job
  may come back.
- *Host budget.* A job as large as the host and any smaller one are what starvation
  needs. `MaxTickets` 4 is two pickups per job.
- *Poller.* Pages of one or two items and one or two pages: the smallest that overflow.
- *Allocation.* `Rounds` is 1 or 2, the code's is 4: the last round differs from the first,
  the others do not.
- *Watch.* Two lines meet `MinCount` 2 only together.

`MaxSpent` limits disturbances in all. One is enough for each kind alone; the parts
whose protocol is made against two (recovery, cancel, host budget) have two.

**Deadlock** is not checked: when every job, run and delivery has ended, nothing is left
to do, and in a run of several components one of them may be done.

**Fairness.** The lease: weak fairness of `Tick` (time passes), of `Timeout` (the bound on
an acquire is a timer) and of `Finish` (the job timeout stops a container); a command
may stay on the wire for ever. The wait gate: weak fairness of `Promote`, `Pickup`, `Run`,
`Finish` and `Age`: a deferral's timer, the queue's hand-out, a handler's end, the passing
of a bound. The host budget: weak fairness of the pickups' steps, of arrivals, ends, seed,
sweep and boot; strong fairness of `Verifies`, since a tick may find the waiter in other
hands time after time. The inbox: weak fairness of deliveries once begun, of jobs,
containers and settles taken together (each run takes finitely many such steps, so
none can starve the others), and of each run's relay, a 2 s timer. Nothing is assumed
of lookups, operators, retries, crashes, expiries or a worker's return, except for the
host budget's `Boot`, without which no room can come back.

## 4. What is proved

TLC checks the instances above; the theorems hold for every value of the constants.
The assumptions on constants are named (`PickupsAssumption`, `DurableAssumption`,
`FindingAssumption` and so on): each is an `ASSUME` of its component or of the MC module that
gives the constants their values, so TLC evaluates it on the runs, and a theorem that needs
one that is a definition, or more, says so in its own `ASSUME`. Each inductive invariant was checked by TLC as an invariant before it was proved.

**`FleetLease_proofs`**: any number of hosts, pickups, slots and ticks.

- `GateInvariant`: `Spec => []GateInv`. `TypeOK` and `PerHostBound` are not inductive alone:
  `Win`, `Defer` and `Refuse` act on the pickup named by the command at the head of the
  wire, so the proof needs that an awaited command belongs to a pickup that is probing,
  that no pickup awaits two, and that it awaits the index it probes. `GateInv` adds these
  to the types and to the count. The cardinality step (adding or removing one pickup of
  a finite set) is where `PickupsAssumption` is used.
- `TypeCorrect` and `HostBoundHolds` follow: the count of a process is its pickups inside
  the gate, and never above the ceiling.
- `HeldHolds`: if no two pickups have the same holder value (`DistinctHolders`), a
  container on an undegraded grant has its claim with more time left than it may run.
  The invariant behind it orders the wire: no deletion for a running pickup is on it,
  since a pickup's release is sent after its last SET. Without `DistinctHolders` the
  statement is false; section 6 shows how.
- `FreedHolds`: under `DistinctHolders`, no step frees the slot of a container that still
  runs, on a live worker or left by a dead one. `OrphanOK` says why: nothing on the wire
  was sent by a pickup whose worker died under it, and no sweep runs on a host that
  still has its container. Every command of a step is one that was on the wire or
  comes from a live pickup (`AllIssued`).
- `FleetBoundHolds`: under `DistinctHolders`, the lease implements `SlotBound`: `Init` maps to
  its initial state and every step to a step or a stutter. The pickups inside have
  pairwise different slots, so they inject into `Slot`, and a set that injects into a
  set of `Slots` members has no more than that.

**`CancelState_proofs`**: any requesters, attempts and disturbances.

- `NeverAgainHolds` (an action property): where no worker died and no timer of the
  worker's own struck, a job whose cancel was acknowledged is never active again.
- `CancelAnswersHold`: an accepted cancel is what the record says (no death, no timer), a
  requester that was told nothing changed changed nothing, and a held job taken off
  the queue leaves no hold and no lease.
- Both rest on `CancelInv`: `Sealed` (the abort is raised before the answer is given, and the
  poll is stopped before the outcome is decided), `Asked` (a request stands only while its
  requester waits or was told), and `Holding` (a hold goes by a requester's hand or the
  worker's).

**`HeldReplies_proofs`**: any comments, askers, attempts, deliveries and disturbances.

- `HeldInvariant`: `Spec => []HeldInv`, seventeen conjuncts. A reply is dropped when a chain
  of commands of two actors falls the wrong way, so the invariant follows each link:
  who works has the window (`WindowHeld`, `WindowBorn`); a list closes at the take or at the
  settle, with the keeper stopped (`ClosedLate`, `ListsEnd`, `HandHeld`); the number of a
  pickup is answered only after its question, and nothing that answers grows old
  (`Unasked`, `Recent`); who looks up an asking run finds it live or its marker up
  (`Reached`, `Routed`); what was resumed was said (`ResumedSaid`, `Continued`).
- `RepliesEndHolds`: one continuation at a time, an end for every reply a run held, and a
  comment that says what the queue does. `RepliesMeetHolds`: no reply is sent to a run that
  cannot read it any more, an ended run is off its target, and an answer that raced the
  parked label is not dropped.

**`Approval_proofs`**: any replies, askers, deadlines, rules, attempts and disturbances.

- `OneContinuationHolds`: one job continues with a request, and every container of it is
  given the decision that stands. `ContinueInv` says who may be past a claim: a pickup
  works on the request its job is bound to (`Working`), the deadline's job is bound to its
  own (`Bound`), whoever is past its claim is the job the claim names (`Holder`), and a
  container's decision is that of a settled request (`Given`). A request only grows
  (`StoreGrows`): its first decision and its first claim stay, so what a slow pickup read
  stays true.
- `DecisionIsActedOnHolds`: while nothing dies, goes unanswered or cannot be read, a target
  that waits for a decided or claimed request has somebody to come. `DecisionIsActedOn` is not
  inductive, since a waiting job of the request could be the one that will leave it.
  `ActInv` names who is to come: who decided is at its claim; the deadline's decision stays
  due until its job is there (`Dues`, `Expiring`); who claimed is bound to the request and
  decided it (`Claimer`), and works on it or has its listener due (`Acted`). A pickup at its
  policy step has read the decision that stands, which is why its verdict sends it on and
  not away (`Reads`), and a run past its finish holds nothing (`Over`).

**`DurableRun_proofs`**: any number of recoveries, attempts, sweeping hosts and disturbances.

- `OneAgentHolds`. That the wait for the others lets one recovery through is not enough: the
  run's own job has no such wait. `AgentInv` adds that once a recovery has been on the queue
  the run's own job is not picked up again (`HandedOver`, by who may be calling, `Callers`, and
  what a sweep may remove, `Judged`), so `Alone` holds: one pickup past the wait. `Boxed` ties
  the containers to the pickups of a live worker, and the boot reaper stops a dead one's.
- `WatchedFromTheStartHolds`: a recovery on the queue has a deadline, or is in the hands of the
  call or the sweep that will give it one. `WatchInv` must follow a recovery that is at work as
  well, since it may go back to wait, and must know that no listener starts a call beside its
  own (`Listened`): a recovery that was taken off the queue and added again has a record
  (`Ended`), on which its second listener stops. That case needs two recoveries, three stalls
  and the longest wait, outside the bounds of `money_recovery`; with a death in it, the proof
  showed that `dropped` has to count the call of a listener that is over, too, and a wider run
  of TLC (13 million states) agrees.
- `NeverSilentHolds`, and with it `EndIsToldHolds`. `Carry` names, for each job that was on
  the queue, who still goes on: it waits, works, is listened for, or is followed by the next
  recovery (`Follows`). A run at rest has no such actor, so the last job that was on the
  queue (`LastJob`) has no next one, and the run was told. `Answered` and `Stored` say what a
  pickup and a settled record vouch for.
- `CompletedStaysHolds`. While no command fails the pointer is set only over a store, and goes
  after it (`Backed`); with one pickup past the wait at a time, no recovery looks for the
  checkpoint between the two removals, so none can find it absent once the run completed.
- `HostLostHolds`: as long as the worker lives and the longest wait is not over no sweep gets to
  its removal (`Spared`).
- `OneVerdictHolds`. `Calm` is what the run looks like while no lock lapses and nothing dies: a
  job is active exactly while a pickup has it (`Locked`); a job is on the queue only if all
  before it are settled or handed over (`InTurn`); one token, in the set or in the hands of one
  sweep, exists for a recovery (`OneMember`); who is being removed has not ended its container
  yet (`Waits`); and once an end was told nobody waits or works towards another (`Verdict`).
  The put-back of a sweep that could not finish, `PutBack`, is the case that needs `OneMember`.
- `VerdictIsTrueHolds` joins the last three; `TypeHolds` is the type invariant, which needs that a
  waiting job of the run has an attempt left (`Numbers`). The four inductive invariants were
  checked by TLC on three instances of half a million to a million states each.

**`DollarLedger_proofs`**: `HoldsCloseOnceHolds`, for any runs, attempts, windows, faults, resends and
deaths: the run's ledger licenses one settlement of a hold. `CloseInv`: attempts of one run
have different numbers, none its run has not given out (`Numbered`, `Apart`), and a hold moves a
key only after its number is closed (`Ordered`), so a recovery that closes it as crashed finds
it unmoved.

**`WatchIssue_proofs`**: any publishing jobs, attempts, sweepers, quiet time and disturbances.

- `OneIssueHolds`: at most one issue of an identity. `OwnerInv`: either one job owns the
  reservation and has still to create, or nobody ever will.
- `ShownAsMappedHolds`: at rest, without a failed call or a death, closed is closed and
  mapped is open. `ShownInv` says that one sweeper is past its claim, since a lock outlives
  a live sweep (`Fresh`); that a publish has noted activity which a sweep that judges the issue
  quiet cannot have read (`Judged`); and what mapping and issue look like at each of the
  sweep's steps (`Shut`, `AsClosed`, `AsMapped`, `Undone`). `OutlivesPublish` is used here: a note older
  than the quiet time belongs to no publish that still runs. The proof also showed that
  "mapped is open" needs no condition on the quiet time, and the property has none.
- `WatchedForQuietHolds`: an open issue with a quiet time is on the sweeps' list, unless a sweep
  took it off by a mapping that was no longer the one it had read (`ListInv`).

**`WatchFinding_proofs`**: any lines, collectors, attempts, kind of rule and disturbances.

- `EvidenceHolds` and `CheckpointHolds`: every line behind the cursor has its verdict, every held
  line is counted once and its dispatch is on the queue. `PullInv` carries what a collector
  has in hand between the ingest and the cursor (`Untouched`, `Tallied`, `Batches`).
- `DecidedOnceHolds`: without a fault or a late decision one decision is paid for, by `PayInv`
  over the job's attempts.
- `HandedOnHolds`: once a decision's container was started somebody is to act until one has.
  `HandInv`: a finding that was enough stays enough, an action job ends without a failure
  only by acting, and the safety action is on the queue, or kept as pending, before the
  container is (`Reached`, `Onward`).

Together with `IssueTypeHolds` and `FindingTypeHolds` these are all parts of `IssueKept` and `FindingKept`,
the properties `holds_split` checks of its instances of the two modules. `ApprovalTypeHolds`,
`CancelTypeHolds` and `RepliesTypeHold` prove the types of theirs, from the invariants above.

**Only model-checked.** Liveness (`AcceptedSettles`, `WaitEnds`, `ClaimsEnd`, `RoomComes`) and anything
with ENABLED are outside the proof system's reach. The sums of `DollarLedger` (`Covered`,
`CapHolds`, `ExactWhenQuiet`) add over sets of attempts and would need induction over data, which the
library's theorems cannot be used for here; the same holds of `HostBudget`'s
`NoOvercommit`. `SteerInbox`, `WaitGate`, `Allocation` and `Poller` have no proof: their
properties are checked on the instances of section 3 only.

## 5. Not modelled

Each component without a module is in `PROJECT.json` with the reason. Of the modelled ones:

- *Lease*: `refresh`, which has no caller; a container whose stop did not take
  (`stop_did_not_take`), which outlives its handle and is outside the bound by design;
  an operator who lowers `concurrent` at runtime, who has more claims than slots until
  they drain.
- *Dollars*: the run ledger's TTL, its sandbox slots and its removal; the rebuild of a
  counter from `dollarWindowFloors`, of which `FloorHolds` states what it relies on.
- *Inbox*: the stdin transport and its byte budget, messages that cannot be framed,
  verified acks of an earlier attempt, a draft source that may not publish, the
  carry's own 24 hours. That a held reply already resumed the run enters as the choice
  of `resume` in `Finish`.
- *Allocation*: shares and weights, a state written by a newer version, loss of the
  audit row of a system change, `reportedExternal`, a state that vanishes before the last read.
- *Host budget*: a budget that is off, unknown or changed at runtime.
- *Poller*: several receivers, key expiry and `touchRepo`, the cap on reviewed pull requests
  and pages of reviews, discovery, rate limits, minted tokens, steering and holding in
  its gate.
- *Approval*: the host and its queue beyond one job each.
- *Watch*: caps, evidence TTLs, a rule edited under a finding (`policyDigest`), deferrals for
  a pause or a newer version, boards and traces, the push endpoint, the source
  adapters, a lock that lapses under a live sweep, the lag of the forge's search.

Two assumptions of the environment hold throughout: commands of one client execute in
the order it sent them (one connection, and a reconnect resends in order), and a
failed command had no effect unless the module says that an answer may be lost.

Two parts were surveyed and left out though they have state. The canary's exclusion
(`canary-lock.mjs`, `canary-runtime.mjs` 159-170, `index.mjs` 512-514) checks its lease against the
active list, so it holds while no job stalls out of that list and no lease lapses.
Answer drafts (`admin/src/console/actions.mjs` from 1442) enqueue before they mark `sent`, so a
drop in between is answered as if nothing were posted.

**Properties stated for some histories only.** Where a property is conditioned, the
condition is the reason it would fail otherwise:

- `ShownAsMapped` needs no failed call or death (a sweeper that dies, or fails to reopen,
  leaves a live issue closed until the next publish); `WatchedForQuiet` that no two sweeps crossed;
  `DecidedOnce` no fault and no late decision; `HandedOn` no action job that failed for good.
- `DecisionIsActedOn` needs no death, unanswered command or unreadable file.
- `SaidTrue` of the held replies, in its second half, no console retry: a crash as it is
  said, a retry and a later failed start can say "invites" after an earlier resume.
- `OneVerdict` needs no stall and no crash, `CompletedStays` no fault and no
  death between a comment and its record; `NoOvercommit` one venue.
- `OneHolder` excludes lapses, faults and a key taken between two commands of a claim;
  `NeverDroppedOnce` a job that later gates send back after it had cleared.
- `PlanReplacesWhatItRead` excludes a state that returned (`back`): the compare-and-set compares
  ids, so a state that came back is taken for the one that was read.

## 6. Where the code differs from what it says

Shown by a run:

- **A settlement that is sent twice** (`dollar_ledger_resent`). The floor of a window is
  described as something a healthy counter never goes below. Settlement and give-back
  are relative changes over a client that resends, so one lost answer lowers a counter
  twice.
- **A worker that dies between the close and the answer** (`steer_inbox_dies`).
  `steer-inbox.mjs` 21 and `inbox-settle.mjs` 81 say a message is carried or answered, never
  neither. The late messages are acted on by the call that closed the inbox, after it
  closed it. When the worker dies there, the listener's settle is not the first and does
  nothing, and another attempt wipes the inbox.
- **A cancel acknowledged by a run that was already being stopped** (`cancel_recorded`).
  The first reason of an abort stays; the acknowledgement is sent all the same, and the
  record names the other reason, against `index.mjs` 1383.
- **A validator stored before its page is handled** (`poller_retries`). An event whose enqueue
  failed is not tried in the next cycle, against `poller.mjs` 617-619.
- **A claim that no refusal closes** (`approval_wedged`). A continuation that holds the claim,
  comes back, and finds the triggers file unreadable completes as a policy refusal
  without a look at the request, against `docs/approval-gates.md` 49-50.

Met while modelling, without a run of their own:

- *Lease.* Two pickups of one job share a holder: `fleet-lease.mjs` 147 says a key that was
  never this handle's is left alone, but the comparison is by `<workerName>#<jobId>`, and
  `index.mjs` 244 states that one id may be picked up twice on one host. The degraded
  release of the first then frees the second one's slot. `DistinctHolders` excludes it.
- *Dollars.* `giveBack` (`dollar-budget.mjs` 110) is a plain DECRBY and would recreate a lost key
  as a negative counter, which the settlement script avoids (200-203).
- *Inbox.* A redelivery of the comment that started a live, steer-armed run is pushed into
  that run (`receiver/src/steer.mjs` 196). The run frees its window one command after it leaves
  its target (`inbox-settle.mjs` 64-66): a comment looked up in between is swallowed. The inbox
  lives one hour and only a live relay renews it, so a wait between two attempts can
  outlast it (`steer-inbox.mjs` 48, 590). A console retry between the store and the push
  takes the fallback.
- *Held replies.* A reply that comes between the window and the take is swallowed by the
  asking run's own window (`held.mjs` 70, `processor.mjs` 2773).
- *Recovery.* A recovery drops out of the sweep while its gate check runs
  (`recovery-queue.mjs` 272-273, 316; `processor.mjs` 428-431).
- *Wait gate.* A claim whose lease expires between its two calls admits without a key; the
  takeover is a plain SET; an `after` delivery at the boundary runs without a lease; the
  fleet's denial of a slot defers without a ceiling (`index.mjs` 745-757) where the local one
  has one (708-717).
- *Allocation.* A fresh seed takes back the expected digest of a write that was just
  confirmed; two failed replacements can leave a digest no file has; a second write
  midway makes a confirmed one look like a hand edit; a lost answer of the
  compare-and-set throws though the plan was applied.
- *Host budget.* A soft minimum can starve a big job by design; the race its header excludes
  (22-25) exists when the tick reads between a job's hand-over and its pickup.
- *Poller.* A comment cut off by a full page and no later than the page's last update is
  lost (727-728); a page's worth of items in the cursor's second sticks the feed; a review
  submitted during a sweep can be overtaken by its running maximum; a list that moves
  between two of its pages makes a pull request look closed and reopened, and its
  reviews new.
- *Approval.* The sweep's cancel names the expiry job, so it can cancel the claim of the
  expiry job that already runs, while the comment says that no continuation started
  (`approval-runtime.mjs` 8, 164); an error of finish at `processor.mjs` 402 is ignored; a publish
  that landed with its answer lost arms the request though its caller reports none.
- *Watch.* Two crossing sweeps can take a republished issue off the quiet list
  (`watch-issue.mjs` 87), against `docs/watch.md` 96. A shadow rule's failed decision is recorded as a
  fallback and the dispatch still retries, so two investigations are paid for
  (`watch-runtime.mjs` 84-87). An action that failed for good stays seven days under its id,
  and the drain's enqueue of it is a no-op (80; `queue.mjs` 50). Clock skew ends a dispatch as
  `watch-window-pending` with the finding untaken. The safety action overwrites the status
  `deciding`, so a redelivered dispatch buys the decision again. A reservation whose create
  never came stays "uncertain" (documented).

## 7. Running it

```
tlc -workers 2 -config Capacity.cfg MCCapacity.tla
tlapm FleetLease_proofs.tla
```

The run of a `.cfg` is in `PROJECT.json` with its module. The longest take two to four minutes
with two workers; the longest proof, `HeldReplies_proofs`, about as long.
