----------------------------- MODULE SteerInbox -----------------------------
(***************************************************************************)
(* The inbox of a running job and everything that touches it: the receiver *)
(* that hands a comment to a live run, an operator who sends or withdraws  *)
(* a message, the worker's relay that writes messages into the container,  *)
(* the settle that closes the inbox at the run's final outcome, and what   *)
(* becomes of a comment that came too late.                                *)
(*                                                                         *)
(* A comment is also the run it would have started: its job id is its      *)
(* delivery GUID.  All runs here work on one issue or pull request.  Every *)
(* Valkey script or command is one action.                                 *)
(***************************************************************************)
EXTENDS Naturals, Sequences, FiniteSets, SequencesExt

CONSTANTS
  First,          \* the run whose delivery started the work
  Comments,       \* comments of the forge, by delivery GUID
  Ops,            \* messages an operator sends
  Armed,          \* the runs started with steering on
  Resumable,      \* comments whose stored job says `resume`
  Withdrawable,   \* messages an operator may withdraw (bound)
  Limit,          \* Limit[r]: the pickups a run may have (bound)
  MaxMessages,    \* STEER_MAX_MESSAGES
  MaxFallbacks,   \* STEER_MAX_FALLBACKS
  MaxDeliveries,  \* deliveries of one comment, never two at once (bound)
  MaxRetries,     \* console retries of a failed job (bound)
  MaxFaults,      \* failed commands and receiver restarts (bound)
  MaxCrashes,     \* worker deaths (bound)
  MaxLapses,      \* inboxes that outlive their hour (bound)
  NoRun

Runs == {First} \cup Comments
Messages == Comments \cup Ops
Settlers == {"processor", "listener"}
Marks == {"none", "queued", "written", "delivered", "withdrawn", "late"}
Entries == [id: Messages, hop: {0, 1}]

ASSUME RunsAssumption ==
  /\ First \notin Messages /\ NoRun \notin Runs /\ Comments \cap Ops = {}
  /\ Armed \subseteq Runs /\ Resumable \subseteq Comments
  /\ Withdrawable \subseteq Messages
  /\ Limit \in [Runs -> Nat]
ASSUME BoundsAssumption ==
  {MaxMessages, MaxFallbacks, MaxDeliveries, MaxRetries, MaxFaults,
   MaxCrashes, MaxLapses} \subseteq Nat

VARIABLES
  job,        \* job[r]: where the queue's job of run r stands
  tries,      \* tries[r]: pickups made
  recovered,  \* recovered[r]: the job is a recovery, without a dedup id
  list,       \* run:inbox:<r>
  mark,       \* run:inbox:state:<r>
  closed,     \* run:inbox:closed:<r>
  open,       \* run:steer:open:<r> and r's member of the target's set
  fallback,   \* run:inbox:fallback:<r>
  reached,    \* a relay registered r and its worker has not died since
  relay,      \* relay[r]: the pass in flight
  disk,       \* disk[r]: messages with a file in /inbox
  session,    \* session[r]: messages in the attempt's transcript
  acks,       \* acks[r]: verified acks not yet marked
  settle,     \* settle[r][k]: the settle in flight
  window,     \* the job holding the semantic window
  rcv,        \* rcv[c]: the delivery in flight
  deliveries, \* deliveries[c]: deliveries begun
  marker,     \* comments with a steered marker
  log,        \* what became of a message under a run, for the properties
  answers,    \* answers[c]: fixed replies posted for comment c
  spent       \* faults, crashes, lapses and retries so far

keys == <<list, mark, closed, open, fallback>>
attempt == <<relay, disk, session, acks>>
queue == <<job, tries, recovered, window>>
receiver == <<rcv, deliveries, marker>>
vars == <<keys, attempt, queue, receiver, reached, settle, log, answers, spent>>

NoPass == [pc |-> "off", rebase |-> FALSE, list |-> <<>>,
           mark |-> [m \in Messages |-> "none"], i |-> 1]
NoSettle == [pc |-> "idle", late |-> <<>>, resume |-> FALSE,
             thrown |-> FALSE, owed |-> {}]
NoDelivery == [pc |-> "idle", todo |-> {}, at |-> NoRun,
               took |-> FALSE, judged |-> FALSE]
Empty == [m \in Messages |-> "none"]

Ids(s) == {s[i].id : i \in DOMAIN s}
Waiting == {"queued", "written"}
Note(r, ms, what) == log' = log \cup {<<r, m, what>> : m \in ms}
Spend(what) == spent' = [spent EXCEPT ![what] = @ + 1]
CanFault == spent.faults < MaxFaults

Init ==
  /\ job = [r \in Runs |-> IF r = First THEN "queued" ELSE "none"]
  /\ tries = [r \in Runs |-> 0]
  /\ recovered = [r \in Runs |-> FALSE]
  /\ list = [r \in Runs |-> <<>>]
  /\ mark = [r \in Runs |-> Empty]
  /\ closed = [r \in Runs |-> FALSE]
  /\ open = [r \in Runs |-> "none"]
  /\ fallback = [r \in Runs |-> {}]
  /\ reached = [r \in Runs |-> FALSE]
  /\ relay = [r \in Runs |-> NoPass]
  /\ disk = [r \in Runs |-> {}]
  /\ session = [r \in Runs |-> {}]
  /\ acks = [r \in Runs |-> {}]
  /\ settle = [r \in Runs |-> [k \in Settlers |-> NoSettle]]
  /\ window = First
  /\ rcv = [c \in Comments |-> NoDelivery]
  /\ deliveries = [c \in Comments |-> 0]
  /\ marker = {}
  /\ log = {}
  /\ answers = [c \in Comments |-> 0]
  /\ spent = [faults |-> 0, crashes |-> 0, lapses |-> 0, retries |-> 0]

-----------------------------------------------------------------------------
(* The scripts. *)

\* Variant: the cap is checked before the message is counted.
PushOverCap(r, m) ==
  CASE mark[r][m] # "none" -> "dup"
    [] closed[r] -> "closed"
    [] open[r] = "none" -> "gone"
    [] Len(list[r]) > MaxMessages -> "full"
    [] OTHER -> "ok"

\* PUSH: a message the run holds is that message whatever became of the run;
\* "finished" is a truer answer than "gone".
PushOutcome(r, m) ==
  CASE mark[r][m] # "none" -> "dup"
    [] closed[r] -> "closed"
    [] open[r] = "none" -> "gone"
    [] Len(list[r]) + 1 > MaxMessages -> "full"
    [] OTHER -> "ok"

\* What an accepted push writes.
Append1(r, m) ==
  /\ list' = [list EXCEPT ![r] = Append(@, [id |-> m, hop |-> 0])]
  /\ mark' = [mark EXCEPT ![r][m] = "queued"]
  /\ log' = (log \ {<<r, m, "earlier">>}) \cup {<<r, m, "accepted">>}

\* MARK: the compare and set of the state hash.
MarkIf(r, m, from, to) ==
  mark' = IF mark[r][m] \in from THEN [mark EXCEPT ![r][m] = to] ELSE mark

\* Variant: a message already written counts as delivered enough.
CloseQueuedOnly(r) ==
  /\ closed' = [closed EXCEPT ![r] = TRUE]
  /\ open' = [open EXCEPT ![r] = "none"]
  /\ mark' = [mark EXCEPT ![r] =
                [m \in Messages |-> IF @[m] = "queued" THEN "late" ELSE @[m]]]

\* CLOSE.
CloseKeys(r) ==
  /\ closed' = [closed EXCEPT ![r] = TRUE]
  /\ open' = [open EXCEPT ![r] = "none"]
  /\ mark' = [mark EXCEPT ![r] =
                [m \in Messages |-> IF @[m] \in Waiting THEN "late" ELSE @[m]]]

\* Variant: the inbox is opened again with what it holds.
ReopenOnly(r) ==
  /\ closed' = [closed EXCEPT ![r] = FALSE]
  /\ UNCHANGED <<list, mark, fallback>>

Wipe(r) ==
  /\ list' = [list EXCEPT ![r] = <<>>]
  /\ mark' = [mark EXCEPT ![r] = Empty]
  /\ fallback' = [fallback EXCEPT ![r] = {}]
  /\ closed' = [closed EXCEPT ![r] = FALSE]

\* RESET acts only on a closed inbox.
ResetKeys(r) ==
  IF closed[r] THEN Wipe(r) ELSE UNCHANGED <<list, mark, fallback, closed>>

\* Variant: the stopped relay unregisters, as it first did.
DropKeys(r) == open' = [open EXCEPT ![r] = "none"]

\* HOLD: the stopped relay keeps the run reachable past its window.
HoldKeys(r) ==
  open' = IF closed[r] THEN open ELSE [open EXCEPT ![r] = "held"]

-----------------------------------------------------------------------------
(* The receiver: trySteer, then the enqueue it falls through to. *)

\* What follows the last run of the fan-out.
AfterFanout(took, judged) ==
  IF took THEN "mark" ELSE IF judged THEN "ask" ELSE "enqueue"
\* The delivery has dealt with run `at`.  `judged`: some push was answered.
Done(c, took, judged) ==
  LET todo == rcv[c].todo \ {rcv[c].at} IN
  rcv' = [rcv EXCEPT ![c] =
    [pc |-> IF todo = {} THEN AfterFanout(took, judged) ELSE "store",
     todo |-> todo, at |-> IF todo = {} THEN NoRun ELSE CHOOSE r \in todo : TRUE,
     took |-> took, judged |-> judged]]
Goto(c, pc) == rcv' = [rcv EXCEPT ![c] = [NoDelivery EXCEPT !.pc = pc]]

\* The live runs of the target.
Lookup(c) ==
  LET live == {r \in Runs : open[r] # "none"} IN
  /\ rcv[c].pc = "idle" /\ deliveries[c] < MaxDeliveries
  /\ deliveries' = [deliveries EXCEPT ![c] = @ + 1]
  /\ \/ /\ live = {}
        /\ Goto(c, "ask") /\ UNCHANGED spent
     \/ /\ live # {}
        /\ rcv' = [rcv EXCEPT ![c] = [NoDelivery EXCEPT !.pc = "store",
                     !.todo = live, !.at = CHOOSE r \in live : TRUE]]
        /\ UNCHANGED spent
     \/ /\ CanFault /\ Spend("faults")
        /\ Goto(c, "enqueue")
  /\ UNCHANGED <<keys, attempt, queue, marker, reached, settle, log,
                 answers>>

\* Variant: a store that failed does not keep the comment from being pushed.
StoreFailOpen(c) ==
  /\ rcv[c].pc = "store"
  /\ rcv' = [rcv EXCEPT ![c].pc = "push"]
  /\ \/ /\ fallback' = [fallback EXCEPT ![rcv[c].at] = @ \cup {c}]
        /\ UNCHANGED spent
     \/ CanFault /\ Spend("faults") /\ UNCHANGED fallback
  /\ UNCHANGED <<list, mark, closed, open, attempt, queue, deliveries, marker,
                 reached, settle, log, answers>>

\* The fallback job is stored before the push; without it there is no push.
Store(c) ==
  LET r == rcv[c].at
      room == c \in fallback[r] \/ Cardinality(fallback[r]) < MaxFallbacks
  IN
  /\ rcv[c].pc = "store"
  /\ \/ /\ room
        /\ fallback' = [fallback EXCEPT ![r] = @ \cup {c}]
        /\ rcv' = [rcv EXCEPT ![c].pc = "push"]
        /\ UNCHANGED spent
     \/ /\ ~room
        /\ Done(c, rcv[c].took, rcv[c].judged)
        /\ UNCHANGED <<fallback, spent>>
     \/ /\ CanFault /\ Spend("faults")
        /\ Done(c, rcv[c].took, rcv[c].judged)
        /\ UNCHANGED fallback
  /\ UNCHANGED <<list, mark, closed, open, attempt, queue, deliveries, marker,
                 reached, settle, log, answers>>

Push(c) ==
  LET r == rcv[c].at
      outcome == PushOutcome(r, c)
  IN
  /\ rcv[c].pc = "push"
  /\ \/ /\ outcome = "ok"
        /\ Append1(r, c)
        /\ Done(c, TRUE, TRUE) /\ UNCHANGED spent
     \/ /\ outcome # "ok"
        /\ Done(c, rcv[c].took \/ outcome = "dup", TRUE)
        /\ UNCHANGED <<list, mark, log, spent>>
     \/ /\ CanFault /\ Spend("faults")
        /\ Done(c, rcv[c].took, rcv[c].judged)
        /\ UNCHANGED <<list, mark, log>>
  /\ UNCHANGED <<closed, open, fallback, attempt, queue, deliveries, marker,
                 reached, settle, answers>>

\* Variant: no marker outlives the inbox.
NoMarker(c) ==
  /\ rcv[c].pc = "mark"
  /\ Goto(c, "idle")
  /\ UNCHANGED <<keys, attempt, queue, deliveries, marker, reached, settle, log,
                 answers, spent>>

\* The marker of a steered delivery, set after the push.
SetMarker(c) ==
  /\ rcv[c].pc = "mark"
  /\ Goto(c, "idle")
  /\ \/ marker' = marker \cup {c} /\ UNCHANGED spent
     \/ CanFault /\ Spend("faults") /\ UNCHANGED marker
  /\ UNCHANGED <<keys, attempt, queue, deliveries, reached, settle, log, answers>>

\* A delivery that no run took: steered before, or to be enqueued.
AskMarker(c) ==
  /\ rcv[c].pc = "ask"
  /\ \/ /\ Goto(c, IF c \in marker THEN "idle" ELSE "enqueue")
        /\ UNCHANGED spent
     \/ /\ CanFault /\ Spend("faults")
        /\ Goto(c, "enqueue")
  /\ UNCHANGED <<keys, attempt, queue, deliveries, marker, reached, settle,
                 log, answers>>

\* Both dedup layers: the GUID first, then the semantic window.
Enqueue(c) ==
  /\ rcv[c].pc = "enqueue"
  /\ Goto(c, "idle")
  /\ IF job[c] = "none" /\ window = NoRun
       THEN /\ job' = [job EXCEPT ![c] = "queued"]
            /\ window' = c
       ELSE UNCHANGED <<job, window>>
  /\ UNCHANGED <<keys, attempt, tries, recovered, deliveries, marker, reached,
                 settle, log, answers, spent>>

ReceiverRestart(c) ==
  /\ rcv[c].pc # "idle" /\ CanFault
  /\ Spend("faults")
  /\ Goto(c, "idle")
  /\ UNCHANGED <<keys, attempt, queue, deliveries, marker, reached, settle,
                 log, answers>>

-----------------------------------------------------------------------------
(* The operator. *)

OperatorSend(r, m) ==
  /\ \A q \in Runs : <<q, m, "accepted">> \notin log
  /\ PushOutcome(r, m) = "ok"
  /\ Append1(r, m)
  /\ UNCHANGED <<closed, open, fallback, attempt, queue, receiver, reached,
                 settle, answers, spent>>

\* WITHDRAW answers what it found: `queued` is a promise that nobody sees it.
Withdraw(r, m) ==
  /\ mark[r][m] \in Waiting
  /\ MarkIf(r, m, Waiting, "withdrawn")
  /\ Note(r, {m}, IF mark[r][m] = "queued" THEN "promised" ELSE "withdrawn")
  /\ UNCHANGED <<list, closed, open, fallback, attempt, queue, receiver,
                 reached, settle, answers, spent>>

-----------------------------------------------------------------------------
(* The worker's relay, one pass at a time. *)

Pass(r) == relay[r]
Entry(r) == Pass(r).list[Pass(r).i]
Next1(r) == relay' = [relay EXCEPT ![r].i = @ + 1, ![r].pc = "pass"]
Stopped(r) == job[r] = "stopping"
InLoop(r) == Pass(r).pc = "pass" /\ ~Stopped(r) /\ Pass(r).i <= Len(Pass(r).list)
IdlePass(r, rebase) == [NoPass EXCEPT !.pc = "idle", !.rebase = rebase]

\* start: a closed inbox under this id belongs to a run that already ended.
Reset(r) ==
  /\ Pass(r).pc = "starting"
  /\ \/ ResetKeys(r) /\ UNCHANGED spent
     \/ CanFault /\ Spend("faults") /\ UNCHANGED <<list, mark, fallback, closed>>
  /\ relay' = [relay EXCEPT ![r].pc = "registering"]
  /\ UNCHANGED <<open, disk, session, acks, queue, receiver, reached, settle,
                 log, answers>>

\* registerLive, and the baseline: the staged transcript has been read.
Register(r) ==
  /\ Pass(r).pc = "registering"
  /\ \/ /\ open' = [open EXCEPT ![r] = "live"]
        /\ reached' = [reached EXCEPT ![r] = TRUE] /\ UNCHANGED spent
     \/ CanFault /\ Spend("faults") /\ UNCHANGED <<open, reached>>
  /\ relay' = [relay EXCEPT ![r] = IdlePass(r, TRUE)]
  /\ UNCHANGED <<list, mark, closed, fallback, disk, session, acks, queue,
                 receiver, settle, log, answers>>

\* A tick: refreshLive, then one snapshot of the inbox.
ReadInbox(r) ==
  /\ Pass(r).pc = "idle" /\ ~Stopped(r)
  /\ open' = [open EXCEPT ![r] = "live"]
  /\ reached' = [reached EXCEPT ![r] = TRUE]
  /\ relay' = IF closed[r] THEN relay ELSE
       [relay EXCEPT ![r].pc = IF @ = "idle" /\ Pass(r).rebase
                                 THEN "rebase" ELSE "pass",
                     ![r].list = list[r], ![r].mark = mark[r], ![r].i = 1]
  /\ UNCHANGED <<list, mark, closed, fallback, disk, session, acks, queue,
                 receiver, settle, log, answers, spent>>

\* Variant: a retry trusts what the inbox calls delivered.
NothingUnseen(r) == {m \in {} : m \notin session[r]}

\* Delivered to a transcript this attempt does not start from.
Unseen(r) == {m \in Messages :
                Pass(r).mark[m] = "delivered" /\ m \notin session[r]}

\* One message handed back; a fault ends the pass, to be tried again.
Rebaseline(r, m) ==
  /\ Pass(r).pc = "rebase" /\ m \in Unseen(r)
  /\ \/ /\ MarkIf(r, m, {"delivered"}, "written")
        /\ relay' = [relay EXCEPT ![r].mark[m] =
                       IF mark[r][m] = "delivered" THEN "written" ELSE mark[r][m]]
        /\ UNCHANGED spent
     \/ /\ CanFault /\ Spend("faults")
        /\ relay' = [relay EXCEPT ![r] = IdlePass(r, TRUE)]
        /\ UNCHANGED mark
  /\ UNCHANGED <<list, closed, open, fallback, disk, session, acks, queue,
                 receiver, reached, settle, log, answers>>

Rebaselined(r) ==
  /\ Pass(r).pc = "rebase" /\ Unseen(r) = {}
  /\ relay' = [relay EXCEPT ![r].pc = "pass", ![r].rebase = FALSE]
  /\ UNCHANGED <<keys, disk, session, acks, queue, receiver, reached, settle,
                 log, answers, spent>>

\* Nothing to write for this entry; the file of one no longer waiting goes.
Skip(r) ==
  LET m == Entry(r).id
      over == Pass(r).mark[m] \notin Waiting
  IN
  /\ InLoop(r) /\ (over \/ m \in disk[r])
  /\ disk' = IF over THEN [disk EXCEPT ![r] = @ \ {m}] ELSE disk
  /\ Next1(r)
  /\ UNCHANGED <<keys, session, acks, queue, receiver, reached, settle, log,
                 answers, spent>>

\* Variant: the file is renamed whatever the compare and set answered.
RenameAnyway(r) ==
  LET m == Entry(r).id IN
  /\ InLoop(r) /\ m \notin disk[r] /\ Pass(r).mark[m] = "queued"
  /\ MarkIf(r, m, {"queued"}, "written")
  /\ relay' = [relay EXCEPT ![r].pc = "rename"]
  /\ UNCHANGED <<list, closed, open, fallback, disk, session, acks, queue,
                 receiver, reached, settle, log, answers, spent>>

\* The mark comes before the rename: a withdrawal that won leaves no file.
MarkWritten(r) ==
  LET m == Entry(r).id IN
  /\ InLoop(r) /\ m \notin disk[r] /\ Pass(r).mark[m] = "queued"
  /\ \/ /\ mark[r][m] = "queued"
        /\ MarkIf(r, m, {"queued"}, "written")
        /\ relay' = [relay EXCEPT ![r].pc = "rename"] /\ UNCHANGED spent
     \/ /\ mark[r][m] # "queued"
        /\ Next1(r) /\ UNCHANGED <<mark, spent>>
     \/ /\ CanFault /\ Spend("faults")
        /\ Next1(r) /\ UNCHANGED mark
  /\ UNCHANGED <<list, closed, open, fallback, disk, session, acks, queue,
                 receiver, reached, settle, log, answers>>

\* The rename, at once for a message marked in an earlier pass or attempt.
Rename(r) ==
  LET m == Entry(r).id IN
  /\ \/ Pass(r).pc = "rename"
     \/ InLoop(r) /\ m \notin disk[r] /\ Pass(r).mark[m] = "written"
  /\ \/ disk' = [disk EXCEPT ![r] = @ \cup {m}] /\ UNCHANGED spent
     \/ CanFault /\ Spend("faults") /\ UNCHANGED disk
  /\ Next1(r)
  /\ UNCHANGED <<keys, session, acks, queue, receiver, reached, settle, log,
                 answers>>

PassEnds(r) ==
  /\ Pass(r).pc = "pass"
  /\ Stopped(r) \/ Pass(r).i > Len(Pass(r).list)
  /\ relay' = [relay EXCEPT ![r] = IdlePass(r, FALSE)]
  /\ UNCHANGED <<keys, disk, session, acks, queue, receiver, reached, settle,
                 log, answers, spent>>

-----------------------------------------------------------------------------
(* The container: the runner hands a file to the agent and acks it. *)

HandOver(r, m) ==
  /\ job[r] = "running" /\ m \in disk[r] /\ m \notin session[r]
  /\ session' = [session EXCEPT ![r] = @ \cup {m}]
  /\ acks' = [acks EXCEPT ![r] = @ \cup {m}]
  /\ Note(r, {m}, "saw")
  /\ UNCHANGED <<keys, relay, disk, queue, receiver, reached, settle, answers,
                 spent>>

\* relay.delivered: an ack proves it, even for a message withdrawn too late.
Delivered(r, m) ==
  /\ m \in acks[r]
  /\ \/ /\ MarkIf(r, m, Waiting \cup {"withdrawn"}, "delivered")
        /\ UNCHANGED spent
     \/ CanFault /\ Spend("faults") /\ UNCHANGED mark
  /\ acks' = [acks EXCEPT ![r] = @ \ {m}]
  /\ disk' = [disk EXCEPT ![r] = @ \ {m}]
  /\ UNCHANGED <<list, closed, open, fallback, relay, session, queue, receiver,
                 reached, settle, log, answers>>

-----------------------------------------------------------------------------
(* The job around the container. *)

Begin(r, k, resume, thrown) ==
  settle' = [settle EXCEPT ![r][k] =
    [NoSettle EXCEPT !.pc = "close", !.resume = resume, !.thrown = thrown]]

\* A retry's session starts empty, or from the run's checkpoint.
Pickup(r) ==
  /\ job[r] = "queued" /\ r \in Armed
  /\ job' = [job EXCEPT ![r] = "running"]
  /\ tries' = [tries EXCEPT ![r] = @ + 1]
  /\ \E staged \in {{}, session[r]} :
       session' = [session EXCEPT ![r] = staged]
  /\ relay' = [relay EXCEPT ![r] = [NoPass EXCEPT !.pc = "starting"]]
  /\ UNCHANGED <<keys, disk, acks, recovered, window, receiver, reached, settle,
                 log, answers, spent>>

\* A run without steering has no relay and no settle.
RunPlain(r) ==
  /\ job[r] = "queued" /\ r \notin Armed
  /\ job' = [job EXCEPT ![r] = "done"]
  /\ UNCHANGED <<keys, attempt, tries, recovered, window, receiver, reached,
                 settle, log, answers, spent>>

\* The pickup is refused for good before a container: the inbox closes too.
Refuse(r) ==
  /\ job[r] = "queued" /\ r \in Armed
  /\ job' = [job EXCEPT ![r] = "settling"]
  /\ Begin(r, "processor", TRUE, FALSE)
  /\ UNCHANGED <<keys, attempt, tries, recovered, window, receiver, reached, log,
                 answers, spent>>

\* The container is gone and its last ack handed on: the relay stops.
StopRelay(r) ==
  /\ job[r] = "running" /\ acks[r] = {}
  /\ job' = [job EXCEPT ![r] = "stopping"]
  /\ UNCHANGED <<keys, attempt, tries, recovered, window, receiver, reached,
                 settle, log, answers, spent>>

\* holdLive, once the pass in flight is over; the inbox directory goes.
Hold(r) ==
  /\ Stopped(r) /\ Pass(r).pc = "idle" /\ acks[r] = {}
  /\ \/ HoldKeys(r) /\ UNCHANGED spent
     \/ CanFault /\ Spend("faults") /\ UNCHANGED open
  /\ relay' = [relay EXCEPT ![r] = NoPass]
  /\ disk' = [disk EXCEPT ![r] = {}]
  /\ job' = [job EXCEPT ![r] = "exited"]
  /\ UNCHANGED <<list, mark, closed, fallback, session, acks, tries, recovered,
                 window, receiver, reached, settle, log, answers>>

\* Not final: an InfraRetry with attempts left, or a recovery job.
Handoff(r) ==
  /\ job[r] = "exited" /\ tries[r] < Limit[r]
  /\ job' = [job EXCEPT ![r] = "queued"]
  /\ \E again \in BOOLEAN :
       recovered' = [recovered EXCEPT ![r] = @ \/ again]
  /\ UNCHANGED <<keys, attempt, tries, window, receiver, reached, settle, log,
                 answers, spent>>

\* Final: returned or thrown; cancelled, or free to be resumed.
Finish(r) ==
  /\ job[r] = "exited"
  /\ job' = [job EXCEPT ![r] = "settling"]
  /\ \E resume, thrown \in BOOLEAN : Begin(r, "processor", resume, thrown)
  /\ UNCHANGED <<keys, attempt, tries, recovered, window, receiver, reached, log,
                 answers, spent>>

\* The record is written.  A thrown failure has a second settle to come; one
\* still in flight from before a console retry ends first (bound).
Record(r) ==
  LET s == settle[r]["processor"] IN
  /\ job[r] = "settling" /\ s.pc = "idle"
  /\ s.thrown => settle[r]["listener"].pc = "idle"
  /\ IF s.thrown
       THEN /\ job' = [job EXCEPT ![r] = "failed"]
            /\ Begin(r, "listener", TRUE, FALSE)
       ELSE job' = [job EXCEPT ![r] = "done"] /\ UNCHANGED settle
  /\ UNCHANGED <<keys, attempt, tries, recovered, window, receiver, reached, log,
                 answers, spent>>

-----------------------------------------------------------------------------
(* settleInbox and the late comments. *)

S(r, k) == settle[r][k]
Settled(r, k) == [NoSettle EXCEPT !.thrown = S(r, k).thrown]
IsLate(r, e) == e.id \in Comments /\ mark'[r][e.id] = "late"

\* Variant: every close answers what it finds late.
CloseEveryTime(r, k) ==
  /\ S(r, k).pc = "close"
  /\ CloseKeys(r)
  /\ settle' = [settle EXCEPT ![r][k].pc = "release",
       ![r][k].late = SelectSeq(list[r], LAMBDA e : IsLate(r, e))]
  /\ UNCHANGED <<list, fallback, attempt, queue, receiver, reached, log, answers,
                 spent>>

\* The final close.  Only the call that closed it looks at what is late.
Close(r, k) ==
  /\ S(r, k).pc = "close"
  /\ \/ /\ CloseKeys(r)
        /\ settle' = [settle EXCEPT ![r][k] =
             IF closed[r] THEN Settled(r, k)
             ELSE [@ EXCEPT !.pc = "release",
                            !.late = SelectSeq(list[r], LAMBDA e : IsLate(r, e))]]
        /\ UNCHANGED spent
     \/ /\ CanFault /\ Spend("faults")
        /\ settle' = [settle EXCEPT ![r][k] = Settled(r, k)]
        /\ UNCHANGED <<closed, open, mark>>
  /\ UNCHANGED <<list, fallback, attempt, queue, receiver, reached, log, answers>>

\* A compare and delete: a recovery job carries no dedup id to release.
Release(r, k) ==
  /\ S(r, k).pc = "release"
  /\ \/ /\ window' = IF window = r /\ ~recovered[r] THEN NoRun ELSE window
        /\ UNCHANGED spent
     \/ CanFault /\ Spend("faults") /\ UNCHANGED window
  /\ settle' = [settle EXCEPT ![r][k] =
       IF @.late = <<>> THEN Settled(r, k) ELSE [@ EXCEPT !.pc = "decide"]]
  /\ UNCHANGED <<keys, attempt, job, tries, recovered, receiver, reached, log,
                 answers>>

\* Variant: a message carried before is left out of the second run's end.
NoneCarried(r, k) == {e \in {} : e.hop > 0}

Fresh(r, k) == SelectSeq(S(r, k).late, LAMBDA e : e.hop = 0)
CarriedBefore(r, k) == {e \in Range(S(r, k).late) : e.hop > 0}
Rest(r, k) == Ids(Tail(Fresh(r, k)))
Owe(r, k, ms) ==
  settle' = [settle EXCEPT ![r][k].owed = ms,
    ![r][k].pc = IF ms = {} THEN "over" ELSE "answer"]

\* The first comment becomes a job of its own, or all of them are answered.
Decide(r, k) ==
  LET fresh == Fresh(r, k)
      old == {e.id : e \in CarriedBefore(r, k)}
      may == /\ fresh # <<>> /\ S(r, k).resume
             /\ fresh[1].id \in fallback[r] \cap Resumable
  IN
  /\ S(r, k).pc = "decide"
  /\ \/ /\ may
        /\ LET c == fresh[1].id IN
           /\ job' = IF job[c] = "none" THEN [job EXCEPT ![c] = "queued"] ELSE job
           /\ IF Rest(r, k) = {} \/ c \notin Armed
                THEN Owe(r, k, old \cup Rest(r, k))
                ELSE settle' = [settle EXCEPT ![r][k].pc = "carry"]
        /\ UNCHANGED spent
     \/ /\ ~may
        /\ Owe(r, k, old \cup Ids(fresh)) /\ UNCHANGED <<job, spent>>
     \/ /\ may /\ CanFault /\ Spend("faults")
        /\ Owe(r, k, old \cup Ids(fresh)) /\ UNCHANGED job
  /\ UNCHANGED <<keys, attempt, tries, recovered, window, receiver, reached, log,
                 answers>>

\* PRESEED: the rest ride in the new job's inbox, all or none, marked as
\* carried; a job that already ended, or has no room, leaves them to answer.
Carry(r, k) ==
  LET c == Fresh(r, k)[1].id
      rest == Tail(Fresh(r, k))
      new == SelectSeq(rest, LAMBDA e : mark[c][e.id] = "none")
      fits == ~closed[c] /\ Len(list[c]) + Len(new) <= MaxMessages
      old == {e.id : e \in CarriedBefore(r, k)}
  IN
  /\ S(r, k).pc = "carry"
  /\ \/ /\ fits
        /\ list' = [list EXCEPT ![c] = @ \o [i \in DOMAIN new |->
                                              [id |-> new[i].id, hop |-> 1]]]
        /\ mark' = [mark EXCEPT ![c] =
             [m \in Messages |-> IF m \in Ids(new) THEN "queued" ELSE @[m]]]
        /\ Note(c, Ids(new), "carried")
        /\ Owe(r, k, old) /\ UNCHANGED spent
     \/ /\ ~fits
        /\ Owe(r, k, old \cup Ids(rest)) /\ UNCHANGED <<list, mark, log, spent>>
     \/ /\ CanFault /\ Spend("faults")
        /\ Owe(r, k, old \cup Ids(rest)) /\ UNCHANGED <<list, mark, log>>
  /\ UNCHANGED <<closed, open, fallback, attempt, queue, receiver, reached,
                 answers>>

\* One fixed reply for all of them; a failed post is swallowed.
Answer(r, k) ==
  /\ S(r, k).pc \in {"answer", "over"}
  /\ \/ /\ answers' = [c \in Comments |->
             IF c \in S(r, k).owed THEN answers[c] + 1 ELSE answers[c]]
        /\ UNCHANGED spent
     \/ /\ S(r, k).owed # {} /\ CanFault /\ Spend("faults")
        /\ UNCHANGED answers
  /\ settle' = [settle EXCEPT ![r][k] = Settled(r, k)]
  /\ UNCHANGED <<keys, attempt, queue, receiver, reached, log>>

-----------------------------------------------------------------------------
(* What happens around them. *)

\* An operator retries a failed job from the console: same job id.
ConsoleRetry(r) ==
  /\ job[r] = "failed" /\ spent.retries < MaxRetries
  /\ Spend("retries")
  /\ job' = [job EXCEPT ![r] = "queued"]
  /\ reached' = [reached EXCEPT ![r] = FALSE]
  /\ session' = [session EXCEPT ![r] = {}]
  /\ Note(r, {m \in Messages : closed[r] /\ mark[r][m] # "none"}, "earlier")
  /\ UNCHANGED <<keys, relay, disk, acks, tries, recovered, window, receiver,
                 settle, answers>>

\* The worker dies.  The stalled job is picked up again, or killed, and then
\* the failed listener of another worker settles it, which may die as well.
Crash(r) ==
  /\ \/ job[r] \in {"running", "stopping", "exited", "settling"}
     \/ job[r] = "failed" /\ settle[r]["listener"].pc # "idle"
  /\ spent.crashes < MaxCrashes
  /\ Spend("crashes")
  /\ \/ /\ job' = [job EXCEPT ![r] = IF @ = "failed" THEN @ ELSE "queued"]
        /\ settle' = [settle EXCEPT ![r] = [k \in Settlers |-> NoSettle]]
     \/ /\ job[r] # "failed"
        /\ job' = [job EXCEPT ![r] = "failed"]
        /\ settle' = [settle EXCEPT ![r]["processor"] = NoSettle,
             ![r]["listener"] = [NoSettle EXCEPT !.pc = "close", !.resume = TRUE]]
  /\ relay' = [relay EXCEPT ![r] = NoPass]
  /\ disk' = [disk EXCEPT ![r] = {}]
  /\ acks' = [acks EXCEPT ![r] = {}]
  /\ reached' = [reached EXCEPT ![r] = FALSE]
  /\ UNCHANGED <<keys, session, tries, recovered, window, receiver, log, answers>>

\* The open key of a silent relay ends after 30 s; a hold lasts 15 min, and
\* the window of the same job, set before it, 10.
OpenLapses(r) ==
  /\ relay[r].pc \in {"off", "starting", "registering"}
  /\ \/ open[r] = "live"
     \/ open[r] = "held" /\ window # r
  /\ open' = [open EXCEPT ![r] = "none"]
  /\ UNCHANGED <<list, mark, closed, fallback, attempt, queue, receiver, reached,
                 settle, log, answers, spent>>

WindowLapses ==
  /\ window # NoRun
  /\ window' = NoRun
  /\ UNCHANGED <<keys, attempt, job, tries, recovered, receiver, reached, settle,
                 log, answers, spent>>

\* The inbox's hour, which only a live relay renews.
InboxLapses(r) ==
  /\ job[r] \in {"queued", "done", "failed"} /\ open[r] = "none" /\ tries[r] > 0
  /\ list[r] # <<>> /\ spent.lapses < MaxLapses
  /\ Spend("lapses")
  /\ Wipe(r)
  /\ UNCHANGED <<open, attempt, queue, receiver, reached, settle, log, answers>>

Receiver(c) ==
  Lookup(c) \/ Store(c) \/ Push(c) \/ SetMarker(c) \/ AskMarker(c) \/ Enqueue(c)
Operator == \/ \E r \in Runs, m \in Ops : OperatorSend(r, m)
            \/ \E r \in Runs, m \in Withdrawable : Withdraw(r, m)
Relay(r) ==
  \/ Reset(r) \/ Register(r) \/ ReadInbox(r) \/ Rebaselined(r) \/ Skip(r)
  \/ MarkWritten(r) \/ Rename(r) \/ PassEnds(r)
  \/ \E m \in Messages : Rebaseline(r, m)
Container(r) == \E m \in Messages : HandOver(r, m) \/ Delivered(r, m)
Job(r) == Pickup(r) \/ RunPlain(r) \/ StopRelay(r) \/ Hold(r) \/ Finish(r) \/ Record(r)
Settling(r, k) ==
  Close(r, k) \/ Release(r, k) \/ Decide(r, k) \/ Carry(r, k) \/ Answer(r, k)
Lapses == WindowLapses \/ \E r \in Runs : OpenLapses(r) \/ InboxLapses(r)
Disturbance ==
  \/ \E c \in Comments : ReceiverRestart(c)
  \/ \E r \in Runs : Refuse(r) \/ Handoff(r) \/ ConsoleRetry(r) \/ Crash(r)

Next ==
  \/ \E c \in Comments : Receiver(c)
  \/ Operator
  \/ \E r \in Runs : Relay(r) \/ Container(r) \/ Job(r)
  \/ \E r \in Runs, k \in Settlers : Settling(r, k)
  \/ Lapses \/ Disturbance

Spec == Init /\ [][Next]_vars

Fairness ==
  /\ WF_vars(\E c \in Comments : Receiver(c) /\ rcv[c].pc # "idle")
  /\ WF_vars(\E r \in Runs : Job(r) \/ Container(r) \/ \E k \in Settlers : Settling(r, k))
  /\ \A r \in Runs : WF_vars(Relay(r))

FairSpec == Spec /\ Fairness

-----------------------------------------------------------------------------
(* Properties. *)

Phases == {"none", "queued", "running", "stopping", "exited", "settling",
           "done", "failed"}

\* Every variable keeps its type, and no inbox holds more than its cap,
\* whichever of push and preseed filled it.
TypeOK ==
  /\ job \in [Runs -> Phases] /\ tries \in [Runs -> Nat]
  /\ list \in [Runs -> Seq(Entries)] /\ mark \in [Runs -> [Messages -> Marks]]
  /\ closed \in [Runs -> BOOLEAN] /\ reached \in [Runs -> BOOLEAN]
  /\ recovered \in [Runs -> BOOLEAN]
  /\ open \in [Runs -> {"none", "live", "held"}]
  /\ fallback \in [Runs -> SUBSET Comments]
  /\ \A r \in Runs : disk[r] \cup session[r] \cup acks[r] \subseteq Messages
  /\ window \in Runs \cup {NoRun} /\ marker \subseteq Comments
  /\ answers \in [Comments -> Nat]
  /\ \A r \in Runs : Len(list[r]) <= MaxMessages /\ IsInjective(list[r])

Took(r, c) == <<r, c, "accepted">> \in log \/ <<r, c, "carried">> \in log
Fate(r, c) ==
  \/ \E what \in {"saw", "withdrawn", "promised"} : <<r, c, what>> \in log
  \/ answers[c] > 0
  \/ job[c] # "none"
  \/ <<r, c, "accepted">> \in log /\ \E q \in Runs : <<q, c, "carried">> \in log

Over(r) == /\ job[r] \in {"done", "failed"}
           /\ \A k \in Settlers : settle[r][k].pc = "idle"

\* A comment a run accepted reached its agent, was withdrawn, was answered,
\* became a job or rides in another run's inbox by the time the run is over:
\* the close takes in everything a push was told `ok` for.
NeverNeither ==
  \A r \in Runs, c \in Comments :
    Over(r) /\ Took(r, c) => Fate(r, c)

\* A comment in an inbox by a push has its fallback job stored there, however
\* push, close and a failed store interleave.
PushedHasFallback ==
  \A r \in Runs : \A e \in Range(list[r]) :
    e.hop = 0 /\ e.id \in Comments => e.id \in fallback[r]

\* A comment pushed to one run only is answered once or becomes one job, never
\* both and never twice: a second settle only counts, and a carried comment
\* does not start a chain of runs.
OneEnd ==
  \A c \in Comments :
    Cardinality({r \in Runs : <<r, c, "accepted">> \in log}) <= 1 =>
      answers[c] + (IF job[c] # "none" THEN 1 ELSE 0) <= 1

\* A message withdrawn while `queued` is never in the container's reach.
PromiseKept ==
  \A r \in Runs, m \in Messages :
    <<r, m, "promised">> \in log => m \notin disk[r] /\ <<r, m, "saw">> \notin log

\* Once an attempt is past its baseline, what its inbox calls delivered is in
\* the transcript of this attempt: a retry loses no earlier delivery.
DeliveredHere ==
  \A r \in Runs :
    /\ job[r] = "running" /\ ~closed[r] /\ ~relay[r].rebase
    /\ relay[r].pc \in {"idle", "pass", "rename"}
    => {m \in Messages : mark[r][m] = "delivered"} \subseteq session[r]

\* While a run that went live holds the window and its inbox is not closed, a
\* comment finds it: none falls through to an enqueue the window swallows, in
\* the gaps between exit and settle and between two attempts.
WindowMeansReachable ==
  \A r \in Runs :
    reached[r] /\ window = r /\ ~closed[r] => open[r] # "none"

\* A retried job is not handed messages its earlier, settled run accepted.
RetryStartsEmpty ==
  \A r \in Runs, m \in Messages :
    <<r, m, "earlier">> \in log /\ job[r] = "running" => m \notin disk[r] \cup session[r]

StartsByReceiver(c) ==
  rcv[c].pc = "enqueue" /\ job[c] = "none" /\ job'[c] = "queued"

\* A redelivery of a comment some run accepted never starts a paid job beside
\* it, even when that run has ended since.
SteeredNeverEnqueued ==
  [][\A c \in Comments :
       StartsByReceiver(c) => \A r \in Runs : ~Took(r, c)]_vars

\* Every comment a run accepts meets its fate.
AcceptedSettles ==
  \A r \in Runs, c \in Comments : Took(r, c) ~> Fate(r, c)
=============================================================================
