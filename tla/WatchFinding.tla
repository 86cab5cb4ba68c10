----------------------------- MODULE WatchFinding -----------------------------
(* One digest of a watch rule: the lines of a pulled source, ingested by       *)
(* collectors that share a cursor (receiver/src/watch-puller.mjs, watch.mjs),  *)
(* the finding they make (worker/src/watch-store.mjs), the job that takes it   *)
(* when its window has ended, the decision a rule may ask for first, and the   *)
(* action that is handed on from it (worker/src/watch-runtime.mjs).            *)
(* The next window of the fingerprint is another finding.                      *)
EXTENDS Integers, FiniteSets

CONSTANTS
  Lines,        \* bound: lines the source gets
  Collectors,   \* processes that pull the source
  None,
  MinCount,     \* the rule's minCount
  Rules,        \* the rule: "issue", "run", or one with a decide block, "shadow" or "active"
  Attempts,     \* attempts the queue gives a watch job
  Disturbances, \* what may go wrong: "faults", "crashes", "fails", "skew"
  MaxSpent      \* bound: how often

FindingAssumption ==
  /\ Lines \in Nat \ {0} /\ MinCount \in Nat \ {0} /\ Attempts \in Nat \ {0} /\ MaxSpent \in Nat
  /\ None \notin Collectors /\ Rules \subseteq {"issue", "run", "shadow", "active"}

VARIABLES
  rule,      \* the reviewed rule, one of Rules
  written,   \* lines in the source
  cursor,    \* watch:pull:cursor: the lines behind it
  lease,     \* watch:pull:lease: the collector whose token it is
  pull,      \* per collector: where its cycle is, the line in hand and the batch's last
  window,    \* the fingerprint's entry, by the receiver's clock: none, open or over (cooldown)
  answer,    \* per delivery: the answer kept for its replay
  finding,   \* watch:finding: its count and whether it was claimed
  status, decision, \* and what updateFinding wrote
  pending,   \* watch:pending-actions: due now, due later, or none
  queue,     \* the state of the two jobs of the finding, "dispatch" and "action"
  tries,     \* attempts that failed
  at,        \* per job: where its attempt is
  saw,       \* per job: the status and decision it read
  exit,      \* per job: how its container ended
  taken,     \* the count the finding was first taken with
  decisions, \* decision containers started
  acted,     \* the finding was filed, ignored, investigated or refused
  spent, happened

source == <<written, cursor, lease, pull>>
store == <<window, answer, finding, status, decision, pending>>
jobs == <<queue, tries, at, saw, exit>>
history == <<taken, decisions, acted, spent, happened>>
vars == <<rule, source, store, jobs, history>>

Names == {"dispatch", "action"}
Decisions == {"investigate", "file_issue", "ignore"}
Deciding == rule \in {"shadow", "active"}
Rest == [at |-> "idle", line |-> 0, last |-> 0]

Init ==
  /\ rule \in Rules /\ written = 0 /\ cursor = 0 /\ lease = None
  /\ pull = [c \in Collectors |-> Rest]
  /\ window = "none" /\ answer = [l \in 1 .. Lines |-> "none"]
  /\ finding = [count |-> 0, claimed |-> FALSE]
  /\ status = "held" /\ decision = "none" /\ pending = "none"
  /\ queue = [j \in Names |-> "absent"] /\ tries = [j \in Names |-> 0]
  /\ at = [j \in Names |-> "rest"] /\ saw = [j \in Names |-> <<"held", "none">>]
  /\ exit = [j \in Names |-> "none"]
  /\ taken = 0 /\ decisions = 0 /\ acted = FALSE /\ spent = 0 /\ happened = {}

Disturbed(what) ==
  /\ what \in Disturbances /\ spent < MaxSpent
  /\ spent' = spent + 1 /\ happened' = happened \union {what}
  /\ UNCHANGED <<taken, decisions, acted>>

\* A queue adds no second job of one id, for as long as it keeps the first.
Added(j) == [queue EXCEPT ![j] = IF @ = "absent" THEN "waiting" ELSE @]

-----------------------------------------------------------------------------
(* Collectors: pollWatchSources for one source. *)

Write ==
  /\ written < Lines /\ written' = written + 1
  /\ UNCHANGED <<rule, cursor, lease, pull, store, jobs, history>>

\* The lease and the cursor, and what the source has behind it.
Poll(c) ==
  /\ pull[c] = Rest /\ lease = None /\ cursor < written
  /\ lease' = c
  /\ pull' = [pull EXCEPT ![c] = [at |-> "ingest", line |-> cursor + 1, last |-> written]]
  /\ UNCHANGED <<rule, written, cursor, store, jobs, history>>

After(p) == IF p.line < p.last THEN [p EXCEPT !.at = "ingest", !.line = @ + 1]
            ELSE [p EXCEPT !.at = "checkpoint"]

\* (Mutant: a taken finding counts on.)
CountsTaken == window = "open"
\* WATCH_INGEST_SCRIPT, below its caps: a replay has the answer it had, an open
\* window counts the delivery unless a job took the finding.
Counts == window = "open" /\ ~finding.claimed
Ingest(c) ==
  LET p == pull[c]
      first == answer[p.line] = "none"
      verdict == IF ~first THEN answer[p.line]
                 ELSE IF window = "none" \/ Counts THEN "held" ELSE "suppressed"
  IN /\ p.at = "ingest"
     /\ answer' = [answer EXCEPT ![p.line] = verdict]
     /\ window' = IF window = "none" THEN "open" ELSE window
     /\ finding' = IF first /\ verdict = "held" THEN [finding EXCEPT !.count = @ + 1] ELSE finding
     /\ pull' = [pull EXCEPT ![c] = IF verdict = "held" THEN [p EXCEPT !.at = "enqueue"]
                                    ELSE After(p)]
     /\ UNCHANGED <<rule, written, cursor, lease, status, decision, pending, jobs, history>>

Enqueue(c) ==
  /\ pull[c].at = "enqueue"
  /\ queue' = Added("dispatch")
  /\ pull' = [pull EXCEPT ![c] = After(@)]
  /\ UNCHANGED <<rule, written, cursor, lease, store, tries, at, saw, exit, history>>

\* CHECKPOINT, for the collector whose lease it still is; and RELEASE.
Holds(c) == lease = c
Checkpoint(c) ==
  /\ pull[c].at = "checkpoint"
  /\ cursor' = IF Holds(c) THEN pull[c].last ELSE cursor
  /\ pull' = [pull EXCEPT ![c].at = "release"]
  /\ UNCHANGED <<rule, written, lease, store, jobs, history>>
Release(c) ==
  /\ pull[c].at = "release" /\ pull' = [pull EXCEPT ![c] = Rest]
  /\ lease' = IF Holds(c) THEN None ELSE lease
  /\ UNCHANGED <<rule, written, cursor, store, jobs, history>>

\* A command throws: the cycle ends where it is and the cursor stays.
Breaks(c) ==
  /\ Disturbed("faults") /\ pull[c].at \in {"ingest", "enqueue", "checkpoint"}
  /\ pull' = [pull EXCEPT ![c].at = "release"]
  /\ UNCHANGED <<rule, written, cursor, lease, store, jobs>>
CollectorDies(c) ==
  /\ Disturbed("crashes") /\ pull[c] # Rest
  /\ pull' = [pull EXCEPT ![c] = Rest]
  /\ UNCHANGED <<rule, written, cursor, lease, store, jobs>>

\* The lease's 15 s are no bound of a batch.
LeaseLapses ==
  /\ lease # None /\ lease' = None
  /\ UNCHANGED <<rule, written, cursor, pull, store, jobs, history>>

WindowEnds ==
  /\ window = "open" /\ window' = "over"
  /\ UNCHANGED <<rule, source, answer, finding, status, decision, pending, jobs, history>>

-----------------------------------------------------------------------------
(* Workers: the resolve of a watch job. *)

Goes(j, from, to) == at[j] = from /\ at' = [at EXCEPT ![j] = to]
Returns(j, state) ==
  /\ queue' = [queue EXCEPT ![j] = state] /\ at' = [at EXCEPT ![j] = "rest"]
Ends(j) == Returns(j, "completed")
\* An attempt that throws.
Fails(j) ==
  /\ tries' = [tries EXCEPT ![j] = @ + 1]
  /\ Returns(j, IF tries'[j] < Attempts THEN "waiting" ELSE "failed")

\* The dispatch is delayed until the window's end; a host whose clock is ahead
\* may take it before.
Pick(j) ==
  /\ queue[j] = "waiting"
  /\ \/ (j = "dispatch" => window = "over") /\ UNCHANGED history
     \/ j = "dispatch" /\ window = "open" /\ Disturbed("skew")
  /\ queue' = [queue EXCEPT ![j] = "active"] /\ Goes(j, "rest", "take")
  /\ UNCHANGED <<rule, source, store, tries, saw, exit>>

\* takeFinding: a take is for good, and the same for whoever takes it again.
Take(j) ==
  /\ at[j] = "take"
  /\ finding' = [finding EXCEPT !.claimed = TRUE]
  /\ taken' = IF finding.claimed THEN taken ELSE finding.count
  /\ IF finding.count >= MinCount THEN Goes(j, "take", "look") /\ UNCHANGED queue ELSE Ends(j)
  /\ UNCHANGED <<rule, source, window, answer, status, decision, pending, tries, saw, exit,
                 decisions, acted, spent, happened>>
\* A host whose clock is behind the one that promoted the job ends it untaken.
TakesTooSoon(j) ==
  /\ j = "dispatch" /\ at[j] = "take" /\ ~finding.claimed /\ Disturbed("skew")
  /\ Ends(j)
  /\ UNCHANGED <<rule, source, store, tries, saw, exit>>

\* What the finding asks for, as the job read it.
AsksFirst(j) == j = "dispatch" /\ saw'[j][2] = "none" /\ saw'[j][1] # "deciding"
Wants(j) ==
  IF Deciding
  THEN IF AsksFirst(j) THEN "decision"
       ELSE IF saw'[j][2] = "none" THEN "file_issue"
       ELSE IF rule = "shadow" THEN "investigate" ELSE saw'[j][2]
  ELSE IF rule = "issue" THEN "file_issue" ELSE "investigate"

Look(j) ==
  /\ saw' = [saw EXCEPT ![j] = <<status, decision>>]
  /\ Goes(j, "look", IF j = "action" THEN "ack" ELSE Wants(j))
  /\ UNCHANGED <<rule, source, store, queue, tries, exit, history>>
Acknowledge(j) ==
  /\ pending' = "none" /\ saw' = saw /\ Goes(j, "ack", Wants(j))
  /\ UNCHANGED <<rule, source, window, answer, finding, status, decision, queue, tries, exit, history>>

Acts == acted' = TRUE /\ UNCHANGED <<taken, decisions, spent, happened>>
Ignore(j) ==
  /\ at[j] = "ignore" /\ status' = "ignored" /\ Ends(j) /\ Acts
  /\ UNCHANGED <<rule, source, window, answer, finding, decision, pending, tries, saw, exit>>
\* WatchIssue has the call itself.
File(j) ==
  /\ at[j] = "file_issue" /\ status' = "issue" /\ Ends(j) /\ Acts
  /\ UNCHANGED <<rule, source, window, answer, finding, decision, pending, tries, saw, exit>>

\* An admitted run is told so first; then the gates of every job.
Admit(j) ==
  /\ \/ Goes(j, "decision", "ask") /\ status' = "decision-pending"
     \/ Goes(j, "investigate", "run") /\ status' = "running"
  /\ UNCHANGED <<rule, source, window, answer, finding, decision, pending, queue, tries, saw, exit,
                 history>>
Defers(j) ==
  /\ at[j] \in {"ask", "run"} /\ Returns(j, "waiting")
  /\ UNCHANGED <<rule, source, store, tries, saw, exit, history>>
Refuses(j) ==
  /\ at[j] \in {"ask", "run"} /\ Ends(j) /\ Acts
  /\ UNCHANGED <<rule, source, store, tries, saw, exit>>

-----------------------------------------------------------------------------
(* started(), the containers and collect(). *)

MarkDeciding(j) ==
  /\ Goes(j, "ask", "safety") /\ status' = "deciding"
  /\ UNCHANGED <<rule, source, window, answer, finding, decision, pending, queue, tries, saw, exit,
                 history>>
\* (Mutant: the action is handed on by the decision's own end alone.)
NoNet == "none"
\* 35 minutes from now somebody acts, whatever becomes of the decision.
SafetyNet == "later"
StartDecision(j) ==
  /\ Goes(j, "safety", "deciding") /\ pending' = SafetyNet
  /\ decisions' = decisions + 1
  /\ UNCHANGED <<rule, source, window, answer, finding, status, decision, queue, tries, saw, exit,
                 taken, acted, spent, happened>>
StartRun(j) ==
  /\ Goes(j, "run", "running") /\ Acts
  /\ UNCHANGED <<rule, source, store, queue, tries, saw, exit>>

\* The container ends: an answer, a refusal, or an exit the queue retries.
Exit(j) ==
  /\ at[j] \in {"deciding", "running"}
  /\ at' = [at EXCEPT ![j] = IF @ = "deciding" THEN "decide" ELSE "close"]
  /\ \/ \E e \in {"completed", "policy"} : exit' = [exit EXCEPT ![j] = e] /\ UNCHANGED history
     \/ Disturbed("fails") /\ exit' = [exit EXCEPT ![j] = "throws"]
  /\ UNCHANGED <<rule, source, store, queue, tries, saw>>

\* selectWatchDecision: without an answer a person decides.
Selected(j) == IF exit[j] = "completed" THEN Decisions ELSE {"file_issue"}
Decide(j) ==
  /\ Goes(j, "decide", "hand") /\ status' = "decided" /\ decision' \in Selected(j)
  /\ UNCHANGED <<rule, source, window, answer, finding, pending, queue, tries, saw, exit, history>>
HandOn(j) ==
  /\ Goes(j, "hand", "push") /\ pending' = "now"
  /\ UNCHANGED <<rule, source, window, answer, finding, status, decision, queue, tries, saw, exit,
                 history>>
Push(j) ==
  /\ Goes(j, "push", "end") /\ queue' = Added("action")
  /\ UNCHANGED <<rule, source, store, tries, saw, exit, history>>
CloseRun(j) ==
  /\ Goes(j, "close", "end") /\ status' = IF exit[j] = "completed" THEN "completed" ELSE "failed"
  /\ UNCHANGED <<rule, source, window, answer, finding, decision, pending, queue, tries, saw, exit,
                 history>>
\* Nothing that fails here makes the attempt throw.
Collecting == {"decide", "hand", "push", "close"}
Unavailable(j) ==
  /\ at[j] \in Collecting /\ Disturbed("faults")
  /\ at' = [at EXCEPT ![j] = "end"] /\ status' \in {status, "unavailable"}
  /\ UNCHANGED <<rule, source, window, answer, finding, decision, pending, queue, tries, saw, exit>>

End(j) ==
  /\ at[j] = "end"
  /\ IF exit[j] = "throws" THEN Fails(j) ELSE Ends(j) /\ UNCHANGED tries
  /\ UNCHANGED <<rule, source, store, saw, exit, history>>

\* A command of resolve throws, the forge's call included; one of started()
\* ends the attempt through collect.
Throws(j) ==
  /\ Disturbed("faults")
  /\ \/ at[j] \in {"take", "look", "ack", "ignore", "file_issue", "decision", "investigate"}
        /\ Fails(j) /\ UNCHANGED exit
     \/ /\ at[j] \in {"ask", "safety"} /\ at' = [at EXCEPT ![j] = "decide"]
        /\ exit' = [exit EXCEPT ![j] = "throws"] /\ UNCHANGED <<queue, tries>>
  /\ UNCHANGED <<rule, source, store, saw>>

\* The worker dies: the queue hands the job out again.
Crash(j) ==
  /\ Disturbed("crashes") /\ queue[j] = "active" /\ Returns(j, "waiting")
  /\ UNCHANGED <<rule, source, store, tries, saw, exit>>

SafetyComes ==
  /\ pending = "later" /\ pending' = "now" /\ happened' = happened \union {"late"}
  /\ UNCHANGED <<rule, source, window, answer, finding, status, decision, jobs, taken, decisions,
                 acted, spent>>

\* drain(): every 5 s, on every worker.
Drain ==
  /\ pending = "now" /\ queue' = Added("action") /\ queue' # queue
  /\ UNCHANGED <<rule, source, store, tries, at, saw, exit, history>>

Collects == \E c \in Collectors :
  Poll(c) \/ Ingest(c) \/ Enqueue(c) \/ Checkpoint(c) \/ Release(c) \/ Breaks(c) \/ CollectorDies(c)
Works == \E j \in Names :
  \/ Pick(j) \/ Take(j) \/ TakesTooSoon(j) \/ Look(j) \/ Acknowledge(j) \/ Ignore(j) \/ File(j)
  \/ Admit(j) \/ Defers(j) \/ Refuses(j) \/ MarkDeciding(j) \/ StartDecision(j) \/ StartRun(j)
  \/ Exit(j) \/ Decide(j) \/ HandOn(j) \/ Push(j) \/ CloseRun(j) \/ Unavailable(j) \/ End(j)
  \/ Throws(j) \/ Crash(j)
Next == Write \/ Collects \/ LeaseLapses \/ WindowEnds \/ Works \/ SafetyComes \/ Drain
Spec == Init /\ [][Next]_vars

-----------------------------------------------------------------------------
(* Properties. *)

\* The values of every key and job.
TypeOK ==
  /\ window \in {"none", "open", "over"} /\ finding.count \in 0 .. Lines
  /\ cursor \in 0 .. written /\ lease \in Collectors \union {None}
  /\ decision \in Decisions \union {"none"} /\ pending \in {"none", "now", "later"}
  /\ \A j \in Names : /\ queue[j] \in {"absent", "waiting", "active", "completed", "failed"}
                      /\ tries[j] <= Attempts

\* A job decides on every delivery whose sender was told it is held, each counted
\* once, however often it was sent.
EvidenceIsWhole ==
  finding.claimed => taken = Cardinality({l \in 1 .. Lines : answer[l] = "held"})

\* A line behind the cursor was ingested, and what is held of it has its job:
\* collectors that die, fail or lose their lease repeat lines and skip none.
CheckpointedIsQueued ==
  \A l \in 1 .. cursor : answer[l] # "none" /\ (answer[l] = "held" => queue["dispatch"] # "absent")

\* The decision is paid for once, through deaths and attempts that fail, unless a
\* command failed that should have said it was, or the safety action filed the
\* finding and so wrote over what says it.
DecidedOnce == happened \intersect {"faults", "late"} = {} => decisions <= 1

\* From the decision's container on somebody is to act on the finding, until one
\* has: a job under way, or an action the drain can still put on the queue.  A
\* job of the action that has failed for good keeps the drain from it.
Live(j) == queue[j] \in {"waiting", "active"}
HandedOn ==
  decisions > 0 /\ ~acted /\ queue["action"] # "failed" =>
    \/ \E j \in Names : Live(j)
    \/ pending # "none" /\ queue["action"] = "absent"
=============================================================================
