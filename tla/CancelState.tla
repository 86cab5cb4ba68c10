---------------------------- MODULE CancelState -----------------------------
(***************************************************************************)
(* An operator's cancel of one job.  A job that has not started is taken   *)
(* off the queue, its hold first if it is held on a wait condition.  An    *)
(* active job's abort can be raised only in the process that holds it, so  *)
(* the requester leaves a request key, the worker polls for it, raises the *)
(* abort and answers with a second key; a requester that gives up takes    *)
(* its request back.  The worker stops its poll before it decides what     *)
(* became of the job.                                                      *)
(***************************************************************************)
EXTENDS Naturals, FiniteSets

CONSTANTS
  Ops,           \* requesters: `pi-dispatch cancel`, the console
  Held,          \* the job is held on a wait condition when the story begins
  Attempts,      \* the queue's attempts of the job
  Disturbances,  \* what may disturb a cancel, see Kinds (bound)
  MaxSpent       \* disturbances in all (bound)

\* A command that fails or whose answer is lost, the worker's death, an
\* abort of the worker's own (its kill timer, its shutdown), a tick that
\* outlasts the bound on the wait for it.
Kinds == {"faults", "deaths", "timer", "slow"}

ASSUME CancelAssumption ==
  /\ IsFiniteSet(Ops) /\ Held \in BOOLEAN /\ Attempts \in Nat \ {0}
  /\ Disturbances \subseteq Kinds /\ MaxSpent \in Nat

VARIABLES
  job,       \* the job's state in the queue
  tries,     \* attempts used
  hold,      \* wait:job:<id> has its clock
  leased,    \* wait:key:<dedupId> names the job
  req, ack,  \* cancel:req:<id>, cancel:ack:<id>
  work,      \* how far the pickup is
  signal,    \* what aborted the pickup
  stopped,   \* pollStopped
  tick,      \* the poll tick in flight
  record,    \* what the run record says
  op,        \* op[o]: how far a cancel is
  saw,       \* saw[o]: the states it read
  told,      \* told[o]: what its operator was told
  late,      \* a worker read the request while a requester waited, for the properties
  acked,     \* a worker has acknowledged, for the properties
  touched,   \* touched[o]: a worker took the job after o began, for the properties
  spent, happened

queue == <<job, tries>>
holding == <<hold, leased>>
keys == <<req, ack>>
pickup == <<work, signal, stopped, tick>>
asking == <<op, saw, told>>
ghosts == <<late, acked, touched>>
budget == <<spent, happened>>
vars == <<queue, holding, keys, pickup, record, asking, ghosts, budget>>

QueuedStates == {"held", "waiting"}
Ends == {"completed", "failed"}
Can(what) == what \in Disturbances /\ spent < MaxSpent
Spend(what) == Can(what) /\ spent' = spent + 1 /\ happened' = happened \cup {what}
Fine == UNCHANGED budget

Init ==
  /\ job = IF Held THEN "held" ELSE "waiting"
  /\ tries = 0
  /\ hold = Held /\ leased = Held
  /\ req = FALSE /\ ack = FALSE
  /\ work = "none" /\ signal = "none" /\ stopped = FALSE /\ tick = "idle"
  /\ record = "none"
  /\ op = [o \in Ops |-> "idle"]
  /\ saw = [o \in Ops |-> "none"]
  /\ told = [o \in Ops |-> "none"]
  /\ late = FALSE /\ acked = FALSE
  /\ touched = [o \in Ops |-> FALSE]
  /\ spent = 0 /\ happened = {}

-----------------------------------------------------------------------------
(* The worker that takes the job. *)

\* A waiting job, or a held one at its wake.
Take ==
  /\ job \in QueuedStates
  /\ job' = "active" /\ work' = "gate"
  /\ signal' = "none" /\ stopped' = FALSE /\ tick' = "idle"
  /\ touched' = [o \in Ops |-> touched[o] \/ op[o] # "idle"]
  /\ UNCHANGED <<tries, holding, keys, record, asking, late, acked, budget>>

\* The wait gate holds again ...
Rehold ==
  /\ work = "gate" /\ Held /\ tries = 0
  /\ hold' = TRUE /\ leased' = TRUE
  /\ job' = "held" /\ work' = "none"
  /\ UNCHANGED <<tries, keys, signal, stopped, tick, record, asking, ghosts, budget>>
\* ... or lets the job through, and its poll begins.
Through ==
  /\ work = "gate"
  /\ hold' = FALSE /\ leased' = FALSE
  /\ work' = "runs"
  /\ UNCHANGED <<queue, keys, signal, stopped, tick, record, asking, ghosts, budget>>

\* The abort: the first reason is the one that stays.
Abort(why) == signal' = IF signal = "none" THEN why ELSE signal

\* The kill timer, or a shutdown.
OwnAbort ==
  /\ work \in {"runs", "stopping", "deciding"} /\ signal # "other"
  /\ Spend("timer")
  /\ Abort("other")
  /\ UNCHANGED <<queue, holding, keys, work, stopped, tick, record, asking, ghosts>>

\* A request read while its requester waits for the answer.
ReadBy == late' = (late \/ \E o \in Ops : op[o] \in {"poll", "withdraw"})
\* A tick reads the request ...
TickRead ==
  /\ work = "runs" /\ tick = "idle" /\ ~stopped
  /\ \/ req /\ tick' = "read" /\ ReadBy /\ Fine
     \/ Spend("faults") /\ UNCHANGED <<tick, late>>
  /\ UNCHANGED <<queue, holding, keys, work, signal, stopped, record, asking, acked, touched>>
\* The tick raises it whatever was decided meanwhile.
RaisesAlways == TRUE
\* ... raises the abort unless the poll has been stopped ...
Raises == ~stopped
TickRaise ==
  /\ tick = "read"
  /\ IF Raises
     THEN Abort("cancel") /\ tick' = "ack"
     ELSE tick' = "idle" /\ UNCHANGED signal
  /\ UNCHANGED <<queue, holding, keys, work, stopped, record, asking, ghosts, budget>>
\* ... answers, then consumes the request.
Acknowledge ==
  \/ ack' = TRUE /\ acked' = TRUE /\ Fine
  \/ Spend("faults") /\ UNCHANGED <<ack, acked>>
TickAck ==
  /\ tick = "ack"
  /\ tick' = "consume"
  /\ Acknowledge
  /\ UNCHANGED <<queue, holding, req, work, signal, stopped, record, asking, late, touched>>
TickConsume ==
  /\ tick = "consume"
  /\ tick' = "over"
  /\ \/ req' = FALSE /\ Fine
     \/ Spend("faults") /\ UNCHANGED req
  /\ UNCHANGED <<queue, holding, ack, work, signal, stopped, record, asking, ghosts>>

\* The poll goes on while the outcome is decided.
StopLater ==
  /\ work = "runs"
  /\ work' = "stopping"
  /\ UNCHANGED <<queue, holding, keys, signal, stopped, tick, record, asking, ghosts, budget>>
\* The pickup has an outcome: the poll is stopped before anything is decided,
\* and the tick in flight is waited for, within a bound.
StopPoll ==
  /\ work = "runs"
  /\ work' = "stopping" /\ stopped' = TRUE
  /\ UNCHANGED <<queue, holding, keys, signal, tick, record, asking, ghosts, budget>>
PollOver ==
  /\ work = "stopping"
  /\ \/ tick \in {"idle", "over"} /\ Fine
     \/ tick \in {"read", "ack", "consume"} /\ Spend("slow")
  /\ work' = "deciding"
  /\ UNCHANGED <<queue, holding, keys, signal, stopped, tick, record, asking, ghosts>>

End(state, what) ==
  /\ job' = state /\ record' = what /\ work' = "none"
  /\ UNCHANGED tries

\* A result of the run.
Returns ==
  /\ work = "deciding"
  /\ End("completed", CASE signal = "cancel" -> "operator-cancel"
                        [] signal = "other" -> "worker-abort"
                        [] OTHER -> "result")
  /\ UNCHANGED <<holding, keys, signal, stopped, tick, asking, ghosts, budget>>
\* An error that is final: only a cancel already acknowledged counts.
Fails ==
  /\ work = "deciding"
  /\ IF signal = "cancel" THEN End("completed", "operator-cancel") ELSE End("failed", "failed")
  /\ UNCHANGED <<holding, keys, signal, stopped, tick, asking, ghosts, budget>>

\* One attempt too many.
GoBackPast ==
  /\ work' = "none"
  /\ tries' = tries + 1
  /\ IF tries <= Attempts
     THEN job' = "waiting" /\ UNCHANGED record
     ELSE job' = "failed" /\ record' = "failed"
GoBack ==
  /\ work' = "none"
  /\ tries' = tries + 1
  /\ IF tries + 1 < Attempts
     THEN job' = "waiting" /\ UNCHANGED record
     ELSE job' = "failed" /\ record' = "failed"
\* An error the queue would retry: a request not yet read counts too.
AnswersPending == req
Retries ==
  /\ work = "deciding"
  /\ CASE signal = "cancel" -> End("completed", "operator-cancel") /\ UNCHANGED <<late, budget>>
       [] signal = "other" -> GoBack /\ UNCHANGED <<late, budget>>
       [] signal = "none" /\ AnswersPending ->
            \/ Fine /\ work' = "answer" /\ ReadBy /\ UNCHANGED <<queue, record>>
            \/ Spend("faults") /\ GoBack /\ UNCHANGED late
       [] OTHER -> GoBack /\ UNCHANGED <<late, budget>>
  /\ UNCHANGED <<holding, keys, signal, stopped, tick, asking, acked, touched>>
AnswerPending ==
  /\ work = "answer"
  /\ work' = "consume"
  /\ Acknowledge
  /\ UNCHANGED <<queue, holding, req, signal, stopped, tick, record, asking, late, touched>>
ConsumePending ==
  /\ work = "consume"
  /\ End("completed", "operator-cancel")
  /\ \/ req' = FALSE /\ Fine
     \/ Spend("faults") /\ UNCHANGED req
  /\ UNCHANGED <<holding, ack, signal, stopped, tick, asking, ghosts>>

\* The worker dies; the stalled job goes back to the queue.
Die ==
  /\ job = "active"
  /\ Spend("deaths")
  /\ job' = "waiting" /\ work' = "none" /\ tick' = "idle"
  /\ UNCHANGED <<tries, holding, keys, signal, stopped, record, asking, ghosts>>

-----------------------------------------------------------------------------
(* The requester: `removeQueuedJob` first, `requestCancel` for an active job. *)

Goto(o, s) == op' = [op EXCEPT ![o] = s]
Tell(o, what) == told' = [told EXCEPT ![o] = what] /\ Goto(o, "done")
Saw(o, s) == saw' = [saw EXCEPT ![o] = s]

Begin(o) ==
  /\ op[o] = "idle"
  /\ Goto(o, "look")
  /\ UNCHANGED <<queue, holding, keys, pickup, record, saw, told, ghosts, budget>>

\* The hold is judged first; then the state decides.
Look(o) ==
  /\ op[o] = "look"
  /\ Saw(o, job)
  /\ CASE hold -> Goto(o, "held") /\ UNCHANGED told
       [] ~hold /\ job \in QueuedStates -> Goto(o, "remove") /\ UNCHANGED told
       [] ~hold /\ job = "active" -> Goto(o, "ask") /\ UNCHANGED told
       [] OTHER -> Tell(o, "nothing")
  /\ UNCHANGED <<queue, holding, keys, pickup, record, ghosts, budget>>

\* `removeHeldJob`: the clock and the state, read again ...
LookHeld(o) ==
  /\ op[o] = "held"
  /\ IF hold /\ job \in QueuedStates
     THEN Goto(o, "unhold") /\ UNCHANGED told
     ELSE Tell(o, "nothing")
  /\ UNCHANGED <<queue, holding, keys, pickup, record, saw, ghosts, budget>>
\* ... the hold goes first.  Of a delete that failed, only a hold that is read
\* back in place makes "nothing was changed" true.
ClearsHold(o) == hold' = FALSE
Unhold(o) ==
  /\ op[o] = "unhold"
  /\ \/ ClearsHold(o) /\ Goto(o, "lease") /\ Fine
     \/ Spend("faults") /\ hold' \in {FALSE, hold} /\ Goto(o, "readback")
  /\ UNCHANGED <<queue, leased, keys, pickup, record, saw, told, ghosts>>
\* A delete that failed is taken for one that did nothing.
TrustFailure(o) ==
  /\ op[o] = "readback"
  /\ Tell(o, "nothing") /\ Fine
  /\ UNCHANGED <<queue, holding, keys, pickup, record, saw, ghosts>>
ReadBack(o) ==
  /\ op[o] = "readback"
  /\ \/ Tell(o, IF hold THEN "nothing" ELSE "cleared") /\ Fine
     \/ Spend("faults") /\ Tell(o, "cleared")
  /\ UNCHANGED <<queue, holding, keys, pickup, record, saw, ghosts>>
\* The lease is left to lapse.
KeepLease(o) ==
  /\ op[o] = "lease"
  /\ Goto(o, "removeHeld")
  /\ UNCHANGED <<queue, holding, keys, pickup, record, saw, told, ghosts, budget>>
DropLease(o) ==
  /\ op[o] = "lease"
  /\ \/ leased' = FALSE /\ Goto(o, "removeHeld") /\ UNCHANGED told /\ Fine
     \/ Spend("faults") /\ Tell(o, "cleared") /\ UNCHANGED leased
  /\ UNCHANGED <<queue, hold, keys, pickup, record, saw, ghosts>>

\* BullMQ refuses to remove a job that is locked.
Removable == job # "active"
RemoveHeld(o) ==
  /\ op[o] = "removeHeld"
  /\ IF Removable
     THEN job' = "removed" /\ Tell(o, "removed")
     ELSE UNCHANGED job /\ Tell(o, "cleared")
  /\ UNCHANGED <<tries, holding, keys, pickup, record, saw, ghosts, budget>>
Remove(o) ==
  /\ op[o] = "remove"
  /\ IF Removable
     THEN job' = "removed" /\ Tell(o, "removed") /\ UNCHANGED saw
     ELSE /\ UNCHANGED job /\ Saw(o, job)
          /\ IF job = "active" THEN Goto(o, "ask") /\ UNCHANGED told ELSE Tell(o, "nothing")
  /\ UNCHANGED <<tries, holding, keys, pickup, record, ghosts, budget>>

\* `requestCancel`: the request ...
Ask(o) ==
  /\ op[o] = "ask"
  /\ \/ req' = TRUE /\ Goto(o, "poll") /\ Fine
     \/ Spend("faults") /\ req' \in {TRUE, req} /\ Goto(o, "withdraw")
  /\ UNCHANGED <<queue, holding, ack, pickup, record, saw, told, ghosts>>
\* ... the poll for its answer, until it comes or the requester gives up ...
PollAck(o) ==
  /\ op[o] = "poll"
  /\ \/ ack /\ Tell(o, "accepted") /\ Fine
     \/ Spend("faults") /\ Goto(o, "withdraw") /\ UNCHANGED told
  /\ UNCHANGED <<queue, holding, keys, pickup, record, saw, ghosts>>
\* The request is left for its expiry.
LeavesStanding(o) == UNCHANGED req
\* ... and the request taken back.
TakesBack(o) == req' = FALSE
GiveUp(o) ==
  /\ op[o] = "poll" /\ ~ack
  /\ \/ TakesBack(o) /\ Goto(o, "reread") /\ Fine
     \/ Spend("faults") /\ req' \in {FALSE, req} /\ Goto(o, "withdraw")
  /\ UNCHANGED <<queue, holding, ack, pickup, record, saw, told, ghosts>>
\* The words after a timeout come from the state, read again.
Reread(o) ==
  /\ op[o] = "reread"
  /\ Saw(o, job) /\ Tell(o, "nothing")
  /\ UNCHANGED <<queue, holding, keys, pickup, record, ghosts, budget>>
\* A failure goes on to be reported: the request is withdrawn behind it.
Withdraw(o) ==
  /\ op[o] = "withdraw"
  /\ \/ req' = FALSE /\ Fine
     \/ Spend("faults") /\ UNCHANGED req
  /\ Tell(o, "unreachable")
  /\ UNCHANGED <<queue, holding, ack, pickup, record, saw, ghosts>>

\* The keys lapse when nobody waits on them.
Lapse ==
  /\ req \/ ack
  /\ \A o \in Ops : op[o] \notin {"poll", "withdraw"}
  /\ req' \in {FALSE, req} /\ ack' \in {FALSE, ack}
  /\ UNCHANGED <<queue, holding, pickup, record, asking, ghosts, budget>>

-----------------------------------------------------------------------------
Cancel(o) ==
  \/ Look(o) \/ LookHeld(o) \/ Unhold(o) \/ ReadBack(o) \/ DropLease(o) \/ RemoveHeld(o)
  \/ Remove(o) \/ Ask(o) \/ PollAck(o) \/ GiveUp(o) \/ Reread(o) \/ Withdraw(o)
Worker ==
  \/ Take \/ Rehold \/ Through \/ OwnAbort
  \/ TickRead \/ TickRaise \/ TickAck \/ TickConsume
  \/ StopPoll \/ PollOver \/ Returns \/ Fails \/ Retries \/ AnswerPending \/ ConsumePending
Next == Worker \/ Die \/ Lapse \/ \E o \in Ops : Begin(o) \/ Cancel(o)
Spec == Init /\ [][Next]_vars

-----------------------------------------------------------------------------
(* Properties. *)

\* The values of every variable.
TypeOK ==
  /\ job \in QueuedStates \cup Ends \cup {"active", "removed"} /\ tries \in 0 .. Attempts
  /\ work \in {"none", "gate", "runs", "stopping", "deciding", "answer", "consume"}
  /\ (work # "none") = (job = "active")
  /\ signal \in {"none", "cancel", "other"}
  /\ tick \in {"idle", "read", "ack", "consume", "over"}
  /\ record \in {"none", "operator-cancel", "worker-abort", "result", "failed"}
  /\ op \in [Ops -> {"idle", "look", "held", "unhold", "readback", "lease", "removeHeld", "remove",
                     "ask", "poll", "reread", "withdraw", "done"}]
  /\ saw \in [Ops -> QueuedStates \cup Ends \cup {"none", "active", "removed"}]
  /\ told \in [Ops -> {"none", "nothing", "accepted", "removed", "cleared", "unreachable"}]
  /\ hold \in BOOLEAN /\ leased \in BOOLEAN /\ req \in BOOLEAN /\ ack \in BOOLEAN
  /\ stopped \in BOOLEAN /\ late \in BOOLEAN /\ acked \in BOOLEAN /\ touched \in [Ops -> BOOLEAN]
  /\ spent \in 0 .. MaxSpent

\* A cancelled job is never run again (index.mjs, the error handler): a job
\* whose cancel a worker acknowledged is not taken once more, whichever way
\* its pickup ends, while no worker dies and none aborted it before.
NeverAgain ==
  [][acked /\ happened \cap {"deaths", "timer"} = {} => ~(job # "active" /\ job' = "active")]_vars

\* What the operator is told of an accepted cancel, the run record says
\* (cancel-cli.mjs): "acknowledged" and "aborted by the operator" are one
\* fact by the time the outcome is decided.
Recorded == (\E o \in Ops : told[o] = "accepted") /\ job \in Ends => record = "operator-cancel"
AcceptedIsRecorded == happened \cap {"deaths", "timer"} = {} => Recorded

\* An operator told that nothing was changed has changed nothing: the job is
\* not cancelled by a request taken back before a worker read it, and a hold
\* that no worker has taken up since is in place.
NothingChanged ==
  (\A o \in Ops : told[o] = "nothing") =>
    /\ record = "operator-cancel" => late
    /\ \A o \in Ops : saw[o] = "held" /\ ~touched[o] => hold

\* A held job taken off the queue leaves neither a row of the held nor a lease
\* that holds off its target, once every cancel is over, where none met a fault
\* and no worker took the job under one.
RemovedLeavesNothing ==
  Held /\ job = "removed" /\ "faults" \notin happened
    /\ (\A o \in Ops : op[o] \in {"idle", "done"} /\ ~touched[o])
  => ~hold /\ ~leased

\* What a requester is told of a cancel is so.
CancelAnswersTrue == AcceptedIsRecorded /\ NothingChanged /\ RemovedLeavesNothing
=============================================================================
