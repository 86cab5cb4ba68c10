----------------------------- MODULE DurableRun -----------------------------
(***************************************************************************)
(* A durable run: a job whose worker or container is lost is continued by  *)
(* a recovery job, numbered from 1, that starts from the run's checkpoint  *)
(* on the host that holds it.  Two sites put the next recovery on the      *)
(* queue, the exit of the lost attempt and the listener for a stalled job; *)
(* a sweep on every host takes a recovery off the queue whose host never   *)
(* returns.                                                                *)
(*                                                                         *)
(* Job 0 is the run's own job, job n its n-th recovery.  All of them run   *)
(* on the worker that holds the checkpoint.                                *)
(***************************************************************************)
EXTENDS Naturals, FiniteSets

CONSTANTS
  Cap,           \* RECOVERY_CAP
  Attempts,      \* the queue's attempts of the run's own job
  Sweepers,      \* hosts that run the host-lost sweep
  Disturbances,  \* what may disturb the run, see Kinds (bound)
  MaxSpent       \* disturbances in all (bound)

Jobs == 0 .. Cap
Recoveries == 1 .. Cap

\* A command that fails or whose reply is lost, a worker's death, a lock that
\* lapses under a live worker, a recovery's gate that asks to wait, the end
\* of the longest wait.
Kinds == {"faults", "crashes", "stalls", "holds", "lapses"}

\* What a worker says of an end; a sweeper's name says that the host is lost.
Comments == {"completed", "absent", "recovery-failed", "failed"}

DurableAssumption ==
  /\ {Cap, Attempts} \subseteq Nat \ {0} /\ MaxSpent \in Nat
  /\ Disturbances \subseteq Kinds
  /\ IsFiniteSet(Sweepers) /\ Sweepers \cap Comments = {}

VARIABLES
  queue,    \* queue[n]: the state of job n
  tries,    \* pickups of job 0
  at,       \* at[n]: how far the pickup of job n is, on the home worker
  result,   \* result[n]: what the pickup will answer
  box,      \* the jobs whose container is alive
  store,    \* the run's checkpoint, on disk
  pointer,  \* run:checkpoint:<run>
  record,   \* record[n]: the run record of job n
  claim,    \* run:recover:claim:<run>:<n>, the numbers taken
  call,     \* call[n]: the two enqueueRecovery calls for what follows job n
  listener, \* listener[n]: the failed listener of a stalled job
  pending,  \* run:recover:pending, <<recovery, the call that added it>>
  due,      \* the members past their deadline
  hard,     \* the longest wait is over
  up,       \* the home worker runs
  sweep,    \* sweep[s]
  told,     \* the comments that end the run: <<job, kind>>, <<job, sweeper>> for host-lost
  beside,   \* an add landed and was answered as failed, for the properties
  dropped,  \* a listener, a sweep or an add died at work, for the properties
  begun,    \* the recoveries a sweep has found started, for the properties
  cut,      \* a pickup died between its comment and its record, for the properties
  spent

pickup == <<tries, at, result, box>>
checkpoint == <<store, pointer>>
enqueuing == <<claim, call>>
backstop == <<pending, due, hard, sweep>>
ghosts == <<beside, dropped, begun, cut>>
vars == <<queue, pickup, checkpoint, record, enqueuing, listener, backstop, up,
          told, ghosts, spent>>

Off == [pc |-> "off", won |-> FALSE]
Rest == [pc |-> "rest", member |-> <<0, "exit">>]
Can(what) ==
  what \in Disturbances
    /\ spent.faults + spent.crashes + spent.stalls + spent.holds + spent.lapses < MaxSpent
Spend(what) == Can(what) /\ spent' = [spent EXCEPT ![what] = @ + 1]

Init ==
  /\ queue = [n \in Jobs |-> IF n = 0 THEN "waiting" ELSE "none"]
  /\ tries = 0
  /\ at = [n \in Jobs |-> "idle"]
  /\ result = [n \in Jobs |-> "none"]
  /\ box = {}
  /\ store = FALSE /\ pointer = FALSE
  /\ record = [n \in Jobs |-> "none"]
  /\ claim = {}
  /\ call = [n \in Jobs |-> [w \in {"exit", "stall"} |-> Off]]
  /\ listener = [n \in Jobs |-> "none"]
  /\ pending = {} /\ due = {} /\ hard = FALSE
  /\ up = TRUE
  /\ sweep = [s \in Sweepers |-> Rest]
  /\ told = {}
  /\ beside = FALSE /\ dropped = FALSE /\ begun = {} /\ cut = FALSE
  /\ spent = [k \in Kinds |-> 0]

-----------------------------------------------------------------------------
(* A pickup: the gates of a recovery. *)

Goto(n, from, to) == at[n] = from /\ at' = [at EXCEPT ![n] = to]

\* The pickup has its answer; a final one clears the durable run up first.
Answer(n, from, what) ==
  /\ Goto(n, from, IF what \in {"continued", "superseded", "retry"}
                     THEN "recording" ELSE "clearing")
  /\ result' = [result EXCEPT ![n] = what]

Pickup(n) ==
  /\ up /\ queue[n] = "waiting"
  /\ Goto(n, "idle", IF n = 0 THEN "start" ELSE "record")
  /\ queue' = [queue EXCEPT ![n] = "active"]
  /\ tries' = IF n = 0 THEN tries + 1 ELSE tries
  /\ UNCHANGED <<result, box, checkpoint, record, enqueuing, listener, backstop,
                 up, told, ghosts, spent>>

\* An earlier job of the run has a completed or policy record.
Settled(n) == \E k \in 0 .. n - 1 : record[k] \in {"final", "superseded"}

\* A record that cannot be read settles nothing.
ReadRecord(n) ==
  /\ \/ Settled(n) /\ Answer(n, "record", "superseded") /\ UNCHANGED spent
     \/ /\ IF Settled(n) THEN Spend("faults") ELSE UNCHANGED spent
        /\ Goto(n, "record", "pointer") /\ UNCHANGED result
  /\ UNCHANGED <<queue, tries, box, checkpoint, record, enqueuing, listener,
                 backstop, up, told, ghosts>>

\* Back to the delayed set without an attempt; a job whose lock is gone cannot
\* be moved.
Wait(n) ==
  /\ at' = [at EXCEPT ![n] = "idle"]
  /\ queue' = [queue EXCEPT ![n] = IF @ = "active" THEN "waiting" ELSE @]
  /\ UNCHANGED result

\* Variant: nobody waits for the run's other jobs.
JudgeAlone(n, seen) ==
  CASE ~seen /\ ~store ->
         Answer(n, "pointer", "superseded") /\ UNCHANGED queue
    [] ~seen /\ store -> Wait(n)
    [] OTHER -> Goto(n, "pointer", "manifest") /\ UNCHANGED <<queue, result>>

\* Superseded is a missing pointer and a missing store; a job of the run that
\* still works here is waited for.
JudgePointer(n, seen) ==
  CASE ~seen /\ ~store ->
         Answer(n, "pointer", "superseded") /\ UNCHANGED queue
    [] ~seen /\ store -> Wait(n)
    [] seen /\ (\E k \in Jobs \ {n} : at[k] # "idle") -> Wait(n)
    [] OTHER -> Goto(n, "pointer", "manifest") /\ UNCHANGED <<queue, result>>

\* The read answers nothing for no pointer and for no answer in time.
ReadPointer(n) ==
  /\ at[n] = "pointer"
  /\ \/ JudgePointer(n, pointer) /\ UNCHANGED spent
     \/ pointer /\ Spend("faults") /\ JudgePointer(n, FALSE)
  /\ UNCHANGED <<tries, box, checkpoint, record, enqueuing, listener, backstop,
                 up, told, ghosts>>

\* The salvage and the manifest: with no checkpoint the run ends here.
ReadManifest(n) ==
  /\ IF store
       THEN Goto(n, "manifest", "start") /\ UNCHANGED <<result, told>>
       ELSE Answer(n, "manifest", "final") /\ told' = told \cup {<<n, "absent">>}
  /\ UNCHANGED <<queue, tries, box, checkpoint, record, enqueuing, listener,
                 backstop, up, ghosts, spent>>

\* A gate before the container that cannot be passed now.
Hold(n) ==
  /\ n > 0 /\ at[n] \in {"manifest", "start"} /\ Spend("holds")
  /\ Wait(n)
  /\ UNCHANGED <<tries, box, checkpoint, record, enqueuing, listener, backstop,
                 up, told, ghosts>>

-----------------------------------------------------------------------------
(* A pickup: the container and its end. *)

Start(n) ==
  /\ Goto(n, "start", "running")
  /\ box' = box \cup {n}
  /\ UNCHANGED <<queue, tries, result, checkpoint, record, enqueuing, listener,
                 backstop, up, told, ghosts, spent>>

\* The pointer follows the commit.
Checkpoint(n) ==
  /\ at[n] = "running" /\ ~(store /\ pointer)
  /\ store' = TRUE
  /\ \/ pointer' = TRUE /\ UNCHANGED spent
     \/ Spend("faults") /\ UNCHANGED pointer
  /\ UNCHANGED <<queue, pickup, record, enqueuing, listener, backstop, up, told,
                 ghosts>>

\* Timing: a container lives longer than the few commands between a sweep's
\* look at its job and the removal.
OutlivesLook(n) ==
  \A s \in Sweepers : ~(sweep[s].pc \in {"look", "remove"} /\ sweep[s].member[1] = n)

\* A completed or a policy exit, with its comment.
Complete(n) ==
  /\ OutlivesLook(n)
  /\ Answer(n, "running", "final")
  /\ box' = box \ {n}
  /\ told' = told \cup {<<n, "completed">>}
  /\ UNCHANGED <<queue, tries, checkpoint, record, enqueuing, listener, backstop,
                 up, ghosts, spent>>

\* The container ended as infrastructure; the exit checkpoint was taken before.
InfraExit(n) ==
  /\ OutlivesLook(n)
  /\ Goto(n, "running", "asking")
  /\ box' = box \ {n}
  /\ UNCHANGED <<queue, tries, result, checkpoint, record, enqueuing, listener,
                 backstop, up, told, ghosts, spent>>

\* Today's retry, or the end of a recovery, which has one attempt.
NotQueued(n, from) ==
  IF n = 0 THEN Answer(n, from, "retry") /\ UNCHANGED told
  ELSE Answer(n, from, "failed") /\ told' = told \cup {<<n, "recovery-failed">>}

Ask(n, who) ==
  call' = [call EXCEPT ![n][who] = [Off EXCEPT !.pc = IF n < Cap THEN "claim" ELSE "no"]]

AskPointer(n) ==
  /\ at[n] = "asking"
  /\ \/ /\ pointer
        /\ Goto(n, "asking", "recovering") /\ Ask(n, "exit")
        /\ UNCHANGED <<result, told, spent>>
     \/ /\ IF pointer THEN Spend("faults") ELSE UNCHANGED spent
        /\ NotQueued(n, "asking")
        /\ UNCHANGED call
  /\ UNCHANGED <<queue, tries, box, checkpoint, record, claim, listener, backstop,
                 up, ghosts>>

ExitAnswered(n) ==
  /\ at[n] = "recovering" /\ call[n].exit.pc \in {"yes", "no"}
  /\ call' = [call EXCEPT ![n].exit = Off]
  /\ IF call[n].exit.pc = "yes"
       THEN Answer(n, "recovering", "continued") /\ UNCHANGED told
       ELSE NotQueued(n, "recovering")
  /\ UNCHANGED <<queue, tries, box, checkpoint, record, claim, listener, backstop,
                 up, ghosts, spent>>

\* endDurableRun: the store, then the pointer, each best effort.
ClearStore(n) ==
  /\ Goto(n, "clearing", "unpointing")
  /\ \/ store' = FALSE /\ UNCHANGED spent
     \/ store /\ Spend("faults") /\ UNCHANGED store
  /\ UNCHANGED <<queue, tries, result, box, pointer, record, enqueuing, listener,
                 backstop, up, told, ghosts>>

ClearPointer(n) ==
  /\ Goto(n, "unpointing", "recording")
  /\ \/ pointer' = FALSE /\ UNCHANGED spent
     \/ pointer /\ Spend("faults") /\ UNCHANGED pointer
  /\ UNCHANGED <<queue, tries, result, box, store, record, enqueuing, listener,
                 backstop, up, told, ghosts>>

Record(n) ==
  /\ Goto(n, "recording", "leaving")
  /\ record' = [record EXCEPT ![n] = result[n]]
  /\ UNCHANGED <<queue, tries, result, box, checkpoint, enqueuing, listener,
                 backstop, up, told, ghosts, spent>>

\* Variant: the pickup under way is not counted.
AgainOnceMore == tries <= Attempts

\* The queue has an attempt left for the run's own job.
Again == tries < Attempts

\* What the queue makes of the answer, while the lock is held.
Leave(n) ==
  LET again == result[n] = "retry" /\ Again
      failed == result[n] = "retry" /\ ~Again IN
  /\ Goto(n, "leaving", "idle")
  /\ result' = [result EXCEPT ![n] = "none"]
  /\ IF queue[n] = "active"
       THEN /\ queue' = [queue EXCEPT ![n] = IF again THEN "waiting" ELSE "settled"]
            /\ told' = told \cup {<<n, "failed">> : x \in {y \in {1} : failed}}
       ELSE UNCHANGED <<queue, told>>
  /\ UNCHANGED <<tries, box, checkpoint, record, enqueuing, listener, backstop,
                 up, ghosts, spent>>

-----------------------------------------------------------------------------
(* The queue's stall check and its listener. *)

\* No stall is forgiven: a job without its lock fails at the next pickup.
Stall(n) ==
  /\ up /\ queue[n] = "active"
  /\ IF at[n] = "idle" THEN UNCHANGED spent ELSE Spend("stalls")
  /\ queue' = [queue EXCEPT ![n] = "stalled"]
  /\ listener' = [listener EXCEPT ![n] = "record"]
  /\ UNCHANGED <<pickup, checkpoint, record, enqueuing, backstop, up, told, ghosts>>

Heard(n, from, to) == listener[n] = from /\ listener' = [listener EXCEPT ![n] = to]

\* An attempt that wrote its own end needs none here.
ListenRecord(n) ==
  /\ Heard(n, "record", IF record[n] \in {"none", "retry"} THEN "pointer" ELSE "done")
  /\ UNCHANGED <<queue, pickup, checkpoint, record, enqueuing, backstop, up, told,
                 ghosts, spent>>

ListenPointer(n) ==
  /\ \/ /\ pointer
        /\ Heard(n, "pointer", "recovering") /\ Ask(n, "stall")
        /\ UNCHANGED <<told, spent>>
     \/ /\ IF pointer THEN Spend("faults") ELSE UNCHANGED spent
        /\ Heard(n, "pointer", "done")
        /\ told' = told \cup {<<n, "failed">>}
        /\ UNCHANGED call
  /\ UNCHANGED <<queue, pickup, checkpoint, record, claim, backstop, up, ghosts>>

ListenAnswered(n) ==
  /\ Heard(n, "recovering", "done") /\ call[n].stall.pc \in {"yes", "no"}
  /\ call' = [call EXCEPT ![n].stall = Off]
  /\ IF call[n].stall.pc = "yes"
       THEN record' = [record EXCEPT ![n] = "continued"] /\ UNCHANGED told
       ELSE told' = told \cup {<<n, "failed">>} /\ UNCHANGED record
  /\ UNCHANGED <<queue, pickup, checkpoint, claim, backstop, up, ghosts, spent>>

-----------------------------------------------------------------------------
(* enqueueRecovery for the recovery after job n. *)

Calls(n, who, from, to, won) ==
  /\ call[n][who].pc = from
  /\ call' = [call EXCEPT ![n][who] = [pc |-> to, won |-> won]]

\* SET NX; a lost reply may leave the claim behind.
Claim(n, who) ==
  /\ \/ /\ n + 1 \notin claim /\ claim' = claim \cup {n + 1}
        /\ Calls(n, who, "claim", "add", TRUE) /\ UNCHANGED spent
     \/ /\ n + 1 \in claim /\ UNCHANGED <<claim, spent>>
        /\ Calls(n, who, "claim", "ask", FALSE)
     \/ /\ Spend("faults") /\ Calls(n, who, "claim", "no", FALSE)
        /\ claim' \in {claim, claim \cup {n + 1}}
  /\ UNCHANGED <<queue, pickup, checkpoint, record, listener, backstop, up, told,
                 ghosts>>

OnQueue(m) == queue[m] \notin {"none", "removed"}

\* Variant: the loser takes the winner's word.
LoserTrusts(n, who) ==
  /\ Calls(n, who, "ask", "yes", FALSE)
  /\ UNCHANGED spent

\* The loser asks the queue: the winner may have died before its add.
LoserAsks(n, who) ==
  \/ /\ Calls(n, who, "ask", IF OnQueue(n + 1) THEN "yes" ELSE "add", FALSE)
     /\ UNCHANGED spent
  \/ Spend("faults") /\ Calls(n, who, "ask", "no", FALSE)

AskJob(n, who) ==
  /\ LoserAsks(n, who)
  /\ UNCHANGED <<queue, pickup, checkpoint, record, claim, listener, backstop, up,
                 told, ghosts>>

\* The custom id makes the add idempotent.  A fault releases the claim this
\* call took; the add may have landed.
Add(n, who) ==
  LET added == [queue EXCEPT ![n + 1] = IF OnQueue(n + 1) THEN @ ELSE "waiting"] IN
  /\ \/ /\ queue' = added
        /\ Calls(n, who, "add", "pend", call[n][who].won)
        /\ UNCHANGED <<claim, beside, spent>>
     \/ /\ Spend("faults")
        /\ Calls(n, who, "add", "no", FALSE)
        /\ claim' = IF call[n][who].won THEN claim \ {n + 1} ELSE claim
        /\ queue' \in {queue, added}
        /\ beside' = (beside \/ queue' # queue)
  /\ UNCHANGED <<pickup, checkpoint, record, listener, backstop, up, told, dropped,
                 begun, cut>>

\* Variant: only the winner of the claim records it pending.
WinnerPends(n, who) ==
  pending' = IF call[n][who].won THEN pending \cup {<<n + 1, who>>} ELSE pending

\* Whoever added records it pending.
AdderPends(n, who) == pending' = pending \cup {<<n + 1, who>>}

Pend(n, who) ==
  /\ Calls(n, who, "pend", "yes", FALSE)
  /\ \/ AdderPends(n, who) /\ UNCHANGED spent
     \/ Spend("faults") /\ UNCHANGED pending
  /\ UNCHANGED <<queue, pickup, checkpoint, record, claim, listener, due, hard,
                 sweep, up, told, ghosts>>

-----------------------------------------------------------------------------
(* The host-lost sweep. *)

\* recoverBy is long after the call that set it and the pickup it belonged to.
Deadline ==
  /\ \E x \in pending \ due :
       /\ call[x[1] - 1][x[2]].pc = "off" /\ at[x[1] - 1] \in {"idle", "running"}
       /\ due' = due \cup {x}
  /\ UNCHANGED <<queue, pickup, checkpoint, record, enqueuing, listener, pending,
                 hard, sweep, up, told, ghosts, spent>>

\* RECOVERY_MAX_WAIT_MS after the enqueue.
LongestWait ==
  /\ ~hard /\ Spend("lapses") /\ hard' = TRUE
  /\ UNCHANGED <<queue, pickup, checkpoint, record, enqueuing, listener, pending,
                 due, sweep, up, told, ghosts>>

Sweeping(s, from, to, x) ==
  sweep[s].pc = from /\ sweep' = [sweep EXCEPT ![s] = [pc |-> to, member |-> x]]

SweepRead(s) ==
  /\ \E x \in due : Sweeping(s, "rest", "take", x)
  /\ UNCHANGED <<queue, pickup, checkpoint, record, enqueuing, listener, pending,
                 due, hard, up, told, ghosts, spent>>

\* Variant: the sweep acts on what it read.
TakeRead(s, x) ==
  /\ Sweeping(s, "take", "look", x)
  /\ pending' = pending \ {x} /\ due' = due \ {x}

\* ZREM answers 1 for exactly one caller.
TakeMember(s, x) ==
  /\ IF x \in pending THEN Sweeping(s, "take", "look", x)
     ELSE Sweeping(s, "take", "rest", Rest.member)
  /\ pending' = pending \ {x} /\ due' = due \ {x}

SweepTake(s) ==
  /\ \/ TakeMember(s, sweep[s].member) /\ UNCHANGED spent
     \/ /\ Spend("faults") /\ Sweeping(s, "take", "rest", Rest.member)
        /\ pending' \in {pending, pending \ {sweep[s].member}}
        /\ due' = due \cap pending'
  /\ UNCHANGED <<queue, pickup, checkpoint, record, enqueuing, listener, hard, up,
                 told, ghosts>>

\* Variant: a deadline is a verdict.
DeadlineDecides == {FALSE}

\* Whether the registry or the pause says to wait: a live host is in it, a
\* dead one may be for a while, an unreadable registry is no verdict.
Excused == IF up THEN {TRUE} ELSE BOOLEAN

\* Only a recovery that has not started is judged.
SweepLook(s) ==
  LET x == sweep[s].member IN
  /\ sweep[s].pc = "look"
  /\ begun' = IF queue[x[1]] # "waiting" THEN begun \cup {x[1]} ELSE begun
  /\ IF queue[x[1]] # "waiting"
       THEN /\ Sweeping(s, "look", "rest", Rest.member)
            /\ UNCHANGED <<pending, due, spent>>
       ELSE \/ /\ ~hard /\ TRUE \in Excused
               /\ pending' = pending \cup {x} /\ UNCHANGED <<due, spent>>
               /\ Sweeping(s, "look", "rest", Rest.member)
            \/ /\ hard \/ FALSE \in Excused
               /\ Sweeping(s, "look", "remove", x)
               /\ UNCHANGED <<pending, due, spent>>
            \/ /\ Spend("faults")
               /\ pending' = pending \cup {x} /\ due' = due \cup {x}
               /\ Sweeping(s, "look", "rest", Rest.member)
  /\ UNCHANGED <<queue, pickup, checkpoint, record, enqueuing, listener, hard, up,
                 told, beside, dropped, cut>>

\* A job that became active refuses to be removed and is looked at again.
SweepRemove(s) ==
  LET x == sweep[s].member
      m == x[1] IN
  /\ Sweeping(s, "remove", "rest", Rest.member)
  /\ IF queue[m] = "active"
       THEN /\ pending' = pending \cup {x} /\ due' = due \cup {x}
            /\ UNCHANGED <<queue, record, told>>
       ELSE /\ queue' = [queue EXCEPT ![m] = "removed"]
            /\ record' = [record EXCEPT ![m] = "lost"]
            /\ told' = told \cup {<<m, s>>}
            /\ UNCHANGED <<pending, due>>
  /\ UNCHANGED <<pickup, checkpoint, enqueuing, listener, hard, up, ghosts, spent>>

-----------------------------------------------------------------------------
(* Deaths. *)

\* The home worker dies with its pickups, its calls and its listeners; the
\* containers live on.
Crash ==
  /\ up /\ Spend("crashes") /\ up' = FALSE
  /\ at' = [n \in Jobs |-> "idle"]
  /\ result' = [n \in Jobs |-> "none"]
  /\ call' = [n \in Jobs |-> [w \in {"exit", "stall"} |-> Off]]
  /\ listener' = [n \in Jobs |->
       IF listener[n] = "none" THEN "none" ELSE "done"]
  /\ dropped' = (dropped \/ \E n \in Jobs :
       \/ listener[n] \notin {"none", "done"}
       \/ \E w \in {"exit", "stall"} : call[n][w].pc = "pend")
  /\ cut' = (cut \/ \E n \in Jobs : at[n] \in {"clearing", "unpointing", "recording"})
  /\ UNCHANGED <<queue, tries, box, checkpoint, record, claim, backstop, told,
                 beside, begun>>

\* The boot reaper stops what is left of this host's containers.
Reboot ==
  /\ ~up /\ up' = TRUE /\ box' = {}
  /\ UNCHANGED <<queue, tries, at, result, checkpoint, record, enqueuing, listener,
                 backstop, told, ghosts, spent>>

SweeperDies(s) ==
  /\ sweep[s].pc # "rest" /\ Spend("crashes")
  /\ sweep' = [sweep EXCEPT ![s] = Rest]
  /\ dropped' = (dropped \/ sweep[s].pc # "take")
  /\ UNCHANGED <<queue, pickup, checkpoint, record, enqueuing, listener, pending,
                 due, hard, up, told, beside, begun, cut>>

Gates(n) == ReadRecord(n) \/ ReadPointer(n) \/ ReadManifest(n) \/ Hold(n)
Work(n) ==
  \/ Start(n) \/ Checkpoint(n) \/ Complete(n) \/ InfraExit(n) \/ AskPointer(n)
  \/ ExitAnswered(n) \/ ClearStore(n) \/ ClearPointer(n) \/ Record(n) \/ Leave(n)
Listener(n) == Stall(n) \/ ListenRecord(n) \/ ListenPointer(n) \/ ListenAnswered(n)
Enqueue(n, who) ==
  Claim(n, who) \/ AskJob(n, who) \/ Add(n, who) \/ Pend(n, who)
Sweep(s) ==
  SweepRead(s) \/ SweepTake(s) \/ SweepLook(s) \/ SweepRemove(s) \/ SweeperDies(s)

Next ==
  \/ \E n \in Jobs : Pickup(n) \/ Gates(n) \/ Work(n) \/ Listener(n)
  \/ \E n \in Jobs, who \in {"exit", "stall"} : Enqueue(n, who)
  \/ \E s \in Sweepers : Sweep(s)
  \/ Deadline \/ LongestWait \/ Crash \/ Reboot

Spec == Init /\ [][Next]_vars

-----------------------------------------------------------------------------
(* Properties. *)

\* The values of every key, and the members past their deadline are members.
TypeOK ==
  /\ queue \in [Jobs -> {"none", "waiting", "active", "stalled", "settled", "removed"}]
  /\ tries \in 0 .. Attempts
  /\ at \in [Jobs -> {"idle", "record", "pointer", "manifest", "start", "running",
                      "asking", "recovering", "clearing", "unpointing",
                      "recording", "leaving"}]
  /\ result \in [Jobs -> {"none", "final", "superseded", "continued", "failed", "retry"}]
  /\ box \subseteq Jobs /\ {store, pointer, hard, up} \subseteq BOOLEAN
  /\ record \in [Jobs -> {"none", "final", "superseded", "continued", "failed",
                          "retry", "lost"}]
  /\ claim \subseteq Recoveries
  /\ \A n \in Jobs, w \in {"exit", "stall"} :
       call[n][w].pc \in {"off", "claim", "ask", "add", "pend", "yes", "no"}
  /\ listener \in [Jobs -> {"none", "record", "pointer", "recovering", "done"}]
  /\ due \subseteq pending /\ pending \subseteq Recoveries \X {"exit", "stall"}
  /\ \A s \in Sweepers : sweep[s].pc \in {"rest", "take", "look", "remove"}

\* One agent on the run's branch: no container of the run starts while another
\* lives, however a lost lock, a crash or two enqueuers fall (the wait for the
\* jobs that work here, the boot reaper, the claim).  The exception is an add
\* that landed and was answered as failed.
OneAgent == Cardinality(box) <= 1 \/ beside

\* A run that is over was told so: no failed step between the lost attempt
\* and its recovery ends a run in silence (enqueueRecovery's fallbacks, the
\* sweep's put-back).  A process that dies with the step in hand can.
Quiet ==
  /\ \A n \in Jobs : queue[n] \notin {"waiting", "active"} /\ at[n] = "idle"
                      /\ listener[n] \in {"none", "done"}
  /\ \A s \in Sweepers : sweep[s].pc = "rest"
NeverSilent == Quiet /\ ~dropped => told # {}

\* One verdict: while every lock holds and the home worker lives, an issue is
\* told one end of the run, and no container of the run is left that could
\* contradict it, whichever command fails and whichever sweep takes the recovery.
OneVerdict ==
  spent.stalls = 0 /\ spent.crashes = 0 /\ ~beside =>
    /\ Cardinality(told) <= 1
    /\ told # {} => box = {}
                    /\ \A n \in Jobs : at[n] \notin {"start", "running"}

\* A run that completed is not told that its checkpoint is gone by the recovery
\* a lost lock put beside it: the recovery waits for the pickup that clears up
\* and then finds neither pointer nor store.
CompletedStays ==
  spent.faults = 0 /\ ~cut /\ (\E n \in Jobs : <<n, "completed">> \in told)
    => \A n \in Jobs : <<n, "absent">> \notin told

\* A host is not given up on a deadline alone: a host-lost verdict follows a
\* death of the home worker or the longest wait.
HostLostIsTrue ==
  (\E x \in told : x[2] \in Sweepers) => hard \/ spent.crashes > 0

\* A recovery that waits is in the set the sweep reads, or in the hands of the
\* call or the sweep that will put it there.
Watched(m) ==
  \/ \E x \in pending : x[1] = m
  \/ \E s \in Sweepers : sweep[s].pc \in {"look", "remove"} /\ sweep[s].member[1] = m
  \/ \E w \in {"exit", "stall"} : call[m - 1][w].pc = "pend"

\* A recovery put on the queue by either enqueuer, the winner or the loser of
\* the claim, is watched until a sweep finds it started, whichever of the two
\* dies before its add.
WatchedFromTheStart ==
  \A m \in Recoveries \ begun :
    queue[m] = "waiting" /\ spent.faults = 0 /\ ~dropped => Watched(m)

\* What the issue can rely on when a run is lost: it is told when the run is over,
\* and a recovery that waits for its host has a deadline (enqueueRecovery, the
\* stall listener, the sweep).
EndIsTold == NeverSilent /\ WatchedFromTheStart

\* And what it is told holds: one end, no host given up on a deadline alone, and
\* no checkpoint said to be gone for a run that completed.
VerdictIsTrue == OneVerdict /\ CompletedStays /\ HostLostIsTrue
=============================================================================
