---------------------------- MODULE HeldReplies ----------------------------
(***************************************************************************)
(* Replies to a run that asked a question and is parking: the receiver     *)
(* that holds a reply for the run, the keeper that makes the run reachable *)
(* while it works, the park sequence that takes what was held and starts   *)
(* at most one resumed job from it, and the settle that drops what a run   *)
(* that did not park held.                                                 *)
(*                                                                         *)
(* All runs work on one issue, under one trigger with `resume` and         *)
(* `awaitInput`.  A comment is also the run it would start: its job id is  *)
(* its delivery GUID.  Every Valkey script or command is one action.       *)
(***************************************************************************)
EXTENDS Naturals, Sequences, FiniteSets, SequencesExt

CONSTANTS
  First,          \* the run that started the work
  Comments,       \* comments on the issue, by delivery GUID
  Phrase,         \* those that carry the trigger phrase
  MaxEntries,     \* HELD_MAX_ENTRIES
  Attempts,       \* Attempts[r]: the queue's attempts of a job
  Askers,         \* the runs that may ask a question (bound)
  MaxDeliveries,  \* MaxDeliveries[c]: deliveries, never two at once (bound)
  Disturbances,   \* what may disturb the runs, see Kinds (bound)
  MaxSpent,       \* disturbances in all (bound)
  NoRun

Runs == {First} \cup Comments
\* The filter's parked reply: refused at its pickup unless a run is parked.
ParkedReply == Comments \ Phrase

\* A failed command or a receiver restart, a worker's death, a window or a
\* marker that expires, a console retry of a failed job.
Kinds == {"faults", "crashes", "lapses", "retries"}

ASSUME HeldRunsAssumption ==
  /\ First \notin Comments /\ NoRun \notin Runs /\ Phrase \subseteq Comments
ASSUME HeldBoundsAssumption ==
  /\ MaxEntries \in Nat \ {0} /\ Attempts \in [Runs -> Nat \ {0}]
  /\ Askers \subseteq Runs
  /\ MaxDeliveries \in [Comments -> Nat] /\ MaxSpent \in Nat
  /\ Disturbances \subseteq Kinds

VARIABLES
  stage,      \* stage[r]: how far run r is
  tries,      \* tries[r]: pickups made
  outcome,    \* outcome[r]: the result the settle is given
  list,       \* run:held:<r>
  closed,     \* run:held:closed:<r>
  open,       \* run:await:open:<r> and r's member of the target's set
  marker,     \* run:await:parked: of the target
  label,      \* the parked label on the forge's issue
  sidecar,    \* the `parked` file beside the session's transcript
  window,     \* the job holding the semantic window
  old,        \* old[r]: entries held more than HELD_LOOKBACK_MS ago
  hand,       \* hand[r]: the first of the replies the take closed over, and the rest
  said,       \* said[r]: the comment the park ended with
  rcv,        \* rcv[c]: the delivery in flight
  deliveries, \* deliveries[c]: deliveries begun
  born,       \* born[c]: what stood when the comment was written
  log,        \* what became of a comment under a run, for the properties
  spent       \* faults, crashes, lapses and console retries so far

keys == <<list, closed, open>>
forge == <<label, born>>
receiver == <<rcv, deliveries>>
run == <<stage, tries, outcome, hand, said>>
vars == <<keys, forge, receiver, run, marker, sidecar, window, old, log, spent>>

\* The keeper of a picked up job refreshes until the take or the settle.
Keeping == {"ready", "running", "asked", "promoted", "marked", "released"}
Active == Keeping \cup {"picked", "taking", "saying", "unmarking", "settling"}
\* From the question on.
Parking == {"asked", "promoted", "marked", "released", "taking", "saying"}
Stages == Active \cup {"none", "queued", "listening", "done", "failed"}

\* A delivery: where it is, the runs it is still to be held under, the run it is held
\* for, whether one has taken it.
Delivering(pc, todo, at) == [pc |-> pc, todo |-> todo, at |-> at, took |-> FALSE]
Ids(s) == {s[i] : i \in DOMAIN s}
EmptyHand == [first |-> NoRun, rest |-> {}]
InHand(r) == ({hand[r].first} \ {NoRun}) \cup hand[r].rest
Note(r, cs, what) == log' = log \cup {<<r, c, what>> : c \in cs}
Can(what) ==
  what \in Disturbances
    /\ spent.faults + spent.crashes + spent.lapses + spent.retries < MaxSpent
Spend(what) == Can(what) /\ spent' = [spent EXCEPT ![what] = @ + 1]
CanFault == Can("faults")
Step(r, from, to) == stage[r] = from /\ stage' = [stage EXCEPT ![r] = to]

Init ==
  /\ stage = [r \in Runs |-> IF r = First THEN "queued" ELSE "none"]
  /\ tries = [r \in Runs |-> 0]
  /\ outcome = [r \in Runs |-> "none"]
  /\ list = [r \in Runs |-> <<>>]
  /\ closed = [r \in Runs |-> FALSE]
  /\ open = [r \in Runs |-> "none"]
  /\ marker = FALSE /\ label = FALSE /\ sidecar = FALSE
  /\ window = First
  /\ old = [r \in Runs |-> {}]
  /\ hand = [r \in Runs |-> EmptyHand]
  /\ said = [r \in Runs |-> "nothing"]
  /\ rcv = [c \in Comments |-> Delivering("unposted", {}, NoRun)]
  /\ deliveries = [c \in Comments |-> 0]
  /\ born = [c \in Comments |-> [label |-> FALSE, asked |-> {}]]
  /\ log = {}
  /\ spent = [faults |-> 0, crashes |-> 0, lapses |-> 0, retries |-> 0]

-----------------------------------------------------------------------------
(* The scripts. *)

\* Variant: a reply delivered again is another reply.
HoldNoDup(r, c) ==
  CASE closed[r] -> "closed"
    [] open[r] = "none" -> "gone"
    [] OTHER -> "ok"

\* HOLD: closed first, since the close deletes the open key as well.
HoldOutcome(r, c) ==
  CASE closed[r] -> "closed"
    [] open[r] = "none" -> "gone"
    [] c \in Ids(list[r]) -> "dup"
    [] OTHER -> "ok"

\* RPUSH and LTRIM: at the cap the oldest reply goes, never the new one.
Push(r, c) ==
  list' = [list EXCEPT ![r] =
             LET s == Append(@, c) IN
             SubSeq(s, IF Len(s) > MaxEntries THEN 2 ELSE 1, Len(s))]

\* CLOSE, without the parked marker.
Close(r) ==
  /\ closed' = [closed EXCEPT ![r] = TRUE]
  /\ open' = [open EXCEPT ![r] = "none"]

\* Only the first close may act on what it read.
Entries(r) == IF closed[r] THEN <<>> ELSE list[r]

\* Both dedup layers of an add: the GUID first, then the semantic window.
AddOutcome(c) ==
  IF stage[c] # "none" THEN "replay"
  ELSE IF window = NoRun THEN "created" ELSE "swallowed"

\* Variant: the held answer is added without the window.
AddBare(c) ==
  /\ stage' = [stage EXCEPT ![c] = IF @ = "none" THEN "queued" ELSE @]
  /\ UNCHANGED window

\* What a created job writes.
Add(c) ==
  IF AddOutcome(c) = "created"
    THEN /\ stage' = [stage EXCEPT ![c] = "queued"]
         /\ window' = c
    ELSE UNCHANGED <<stage, window>>

-----------------------------------------------------------------------------
(* The receiver. *)

Goto(c, pc) == rcv' = [rcv EXCEPT ![c] = Delivering(pc, {}, NoRun)]
At(c, pc) == rcv[c].pc = pc

\* A person writes the comment: the payload keeps the labels of this moment.
Post(c) ==
  /\ At(c, "unposted")
  /\ Goto(c, "posted")
  /\ born' = [born EXCEPT ![c] =
       [label |-> label,
        asked |-> {<<r, tries[r]>> : r \in {q \in Runs : stage[q] \in Parking}}]]
  /\ UNCHANGED <<keys, run, label, deliveries, marker, sidecar, window, old,
                 log, spent>>

\* The filter: a phrase or the label routes the comment to the enqueue, a
\* comment that misses only the label is a candidate for a hold.
Deliver(c) ==
  /\ At(c, "posted") \/ At(c, "ended")
  /\ deliveries[c] < MaxDeliveries[c]
  /\ deliveries' = [deliveries EXCEPT ![c] = @ + 1]
  /\ Goto(c, IF c \in Phrase \/ born[c].label THEN "enqueue" ELSE "lookup")
  /\ UNCHANGED <<keys, forge, run, marker, sidecar, window, old, log, spent>>

\* The live runs of the target.
Lookup(c) ==
  LET live == {r \in Runs : open[r] # "none"} IN
  /\ At(c, "lookup")
  /\ \/ /\ rcv' = [rcv EXCEPT ![c] = 
                     Delivering(IF live = {} THEN "askParked" ELSE "hold", live, NoRun)]
        /\ UNCHANGED <<log, spent>>
     \/ /\ Spend("faults")
        /\ Goto(c, "ended") /\ Note(NoRun, {c}, "dropped")
  /\ UNCHANGED <<keys, forge, run, deliveries, marker, sidecar, window, old>>

\* One hold of the fan-out, under any run still to do.
HoldLive(c) ==
  \E r \in rcv[c].todo, faulty \in {FALSE, CanFault} :
    LET answer == HoldOutcome(r, c)
        took == rcv[c].took \/ (~faulty /\ answer \in {"ok", "dup"})
        todo == rcv[c].todo \ {r}
        next == IF todo # {} THEN "hold" ELSE IF took THEN "ended" ELSE "askParked"
    IN
    /\ At(c, "hold")
    /\ rcv' = [rcv EXCEPT ![c] =
                 [pc |-> next, at |-> NoRun, took |-> took /\ todo # {}, todo |-> todo]]
    /\ IF faulty THEN Spend("faults") ELSE UNCHANGED spent
    /\ IF ~faulty /\ answer = "ok" THEN Push(r, c) ELSE UNCHANGED list
    /\ UNCHANGED <<closed, open, forge, run, deliveries, marker, sidecar,
                   window, old, log>>

\* A run that parked within the minute makes it the reply it would have been.
AskParked(c) ==
  /\ At(c, "askParked")
  /\ \/ /\ marker /\ Goto(c, "enqueue") /\ UNCHANGED <<log, spent>>
     \/ /\ ~marker /\ Goto(c, "ended") /\ Note(NoRun, {c}, "dropped")
        /\ UNCHANGED spent
     \/ /\ Spend("faults")
        /\ Goto(c, "ended") /\ Note(NoRun, {c}, "dropped")
  /\ UNCHANGED <<keys, forge, run, deliveries, marker, sidecar, window, old>>

\* The add; a swallowed reply is held for the run the window names.
Enqueue(c) ==
  /\ At(c, "enqueue")
  /\ Add(c)
  /\ IF AddOutcome(c) = "swallowed"
       THEN rcv' = [rcv EXCEPT ![c] = Delivering("holdFor", {}, window)]
       ELSE Goto(c, "ended")
  /\ UNCHANGED <<keys, forge, tries, outcome, hand, said, deliveries, marker,
                 sidecar, old, log, spent>>

\* holdAfterDedup: any answer but ok or dup leaves the reply coalesced, and held nowhere.
HoldFor(c) ==
  LET r == rcv[c].at IN
  \E faulty \in {FALSE, CanFault} :
    /\ At(c, "holdFor")
    /\ Goto(c, "ended")
    /\ IF faulty THEN Spend("faults") ELSE UNCHANGED spent
    /\ IF ~faulty /\ HoldOutcome(r, c) = "ok" THEN Push(r, c) ELSE UNCHANGED list
    /\ UNCHANGED <<closed, open, forge, run, deliveries, marker, sidecar,
                   window, old, log>>

ReceiverRestart(c) ==
  /\ rcv[c].pc \in {"lookup", "hold", "askParked", "enqueue", "holdFor"}
  /\ Spend("faults")
  /\ Goto(c, "ended")
  /\ UNCHANGED <<keys, forge, run, deliveries, marker, sidecar, window, old, log>>

-----------------------------------------------------------------------------
(* The worker: one pickup of a run. *)

\* RESET: a closed list under this id belongs to a run that settled.
Pickup(r) ==
  /\ Step(r, "queued", "picked")
  /\ tries' = [tries EXCEPT ![r] = @ + 1]
  /\ outcome' = [outcome EXCEPT ![r] = "none"]
  /\ \/ /\ closed' = [closed EXCEPT ![r] = FALSE]
        /\ list' = [list EXCEPT ![r] = IF closed[r] THEN <<>> ELSE @]
        /\ old' = [old EXCEPT ![r] = IF closed[r] THEN {} ELSE @]
        /\ UNCHANGED spent
     \/ Spend("faults") /\ UNCHANGED <<closed, list, old>>
  /\ UNCHANGED <<open, forge, receiver, hand, said, marker, sidecar, window, log>>

\* registerAwaitLive; a failed one is made good by the refresh.
Register(r) ==
  /\ Step(r, "picked", "ready")
  /\ \/ open' = [open EXCEPT ![r] = "live"] /\ UNCHANGED spent
     \/ Spend("faults") /\ UNCHANGED open
  /\ UNCHANGED <<list, closed, forge, receiver, tries, outcome, hand, said,
                 marker, sidecar, window, old, log>>

\* Variant: the keeper refreshes until the pickup ends.
RefreshToTheEnd(r) ==
  /\ stage[r] \in Active \ {"picked"} /\ open[r] # "live"
  /\ open' = [open EXCEPT ![r] = "live"]
  /\ UNCHANGED <<list, closed, forge, receiver, run, marker, sidecar, window,
                 old, log, spent>>

Refresh(r) ==
  /\ stage[r] \in Keeping /\ open[r] # "live"
  /\ open' = [open EXCEPT ![r] = "live"]
  /\ UNCHANGED <<list, closed, forge, receiver, run, marker, sidecar, window,
                 old, log, spent>>

\* The job's first gate of its own: a parked reply needs a parked run.
Start(r) ==
  /\ stage[r] = "ready"
  /\ IF r \in ParkedReply /\ ~sidecar
       THEN /\ Step(r, "ready", "settling")
            /\ label' = FALSE
            /\ outcome' = [outcome EXCEPT ![r] = "refused"]
       ELSE Step(r, "ready", "running") /\ UNCHANGED <<label, outcome>>
  /\ UNCHANGED <<keys, born, receiver, tries, hand, said, marker, sidecar,
                 window, old, log, spent>>

\* The agent posts its question.
Ask(r) ==
  /\ r \in Askers /\ Step(r, "running", "asked")
  /\ UNCHANGED <<keys, forge, receiver, tries, outcome, hand, said, marker,
                 sidecar, window, old, log, spent>>

\* The run completes without parking: its promotion clears the mark.
Complete(r) ==
  /\ Step(r, "running", "unmarking")
  /\ sidecar' = FALSE
  /\ outcome' = [outcome EXCEPT ![r] = "completed"]
  /\ UNCHANGED <<keys, forge, receiver, tries, hand, said, marker, window, old,
                 log, spent>>

Unmark(r) ==
  /\ Step(r, "unmarking", "settling")
  /\ label' = FALSE
  /\ UNCHANGED <<keys, born, receiver, tries, outcome, hand, said, marker,
                 sidecar, window, old, log, spent>>

\* An infrastructure failure: the keeper stops and leaves its keys to expire
\* when the queue will try again, else the outcome is final.
Fail(r) ==
  /\ stage[r] \in {"ready", "running", "asked"}
  /\ IF tries[r] < Attempts[r]
       THEN stage' = [stage EXCEPT ![r] = "queued"] /\ UNCHANGED outcome
       ELSE /\ stage' = [stage EXCEPT ![r] = "settling"]
            /\ outcome' = [outcome EXCEPT ![r] = "failed"]
  /\ UNCHANGED <<keys, forge, receiver, tries, hand, said, marker, sidecar,
                 window, old, log, spent>>

-----------------------------------------------------------------------------
(* The park sequence. *)

\* The transcript and its parked mark.
Promote(r) ==
  /\ Step(r, "asked", "promoted")
  /\ sidecar' = TRUE
  /\ UNCHANGED <<keys, forge, receiver, tries, outcome, hand, said, marker,
                 window, old, log, spent>>

\* The forge's label: a hint, whose failure is not told.
Mark(r) ==
  /\ Step(r, "promoted", "marked")
  /\ \/ label' = TRUE /\ UNCHANGED spent
     \/ Spend("faults") /\ UNCHANGED label
  /\ UNCHANGED <<keys, born, receiver, tries, outcome, hand, said, marker,
                 sidecar, window, old, log>>

\* releaseSemanticWindow: a compare and delete.
Release(r) ==
  /\ Step(r, "marked", "released")
  /\ \/ window' = (IF window = r THEN NoRun ELSE window) /\ UNCHANGED spent
     \/ Spend("faults") /\ UNCHANGED window
  /\ UNCHANGED <<keys, forge, receiver, tries, outcome, hand, said, marker,
                 sidecar, old, log>>

\* The entries held within the lookback, in their order, become the hand; the
\* older ones are dropped.
TakeEntries(r) ==
  LET held == Entries(r)
      recent == {i \in DOMAIN held : held[i] \notin old[r]} IN
  /\ Note(r, Ids(held) \cap old[r], "stale")
  /\ \/ recent = {} /\ Step(r, "released", "saying")
        /\ hand' = [hand EXCEPT ![r] = EmptyHand]
     \/ /\ recent # {} /\ Step(r, "released", "taking")
        /\ \E i \in recent :
             /\ \A k \in recent : i <= k
             /\ hand' = [hand EXCEPT ![r] =
                           [first |-> held[i], rest |-> {held[k] : k \in recent \ {i}}]]

\* Variant: the parked marker goes up in a call of its own, after the close.
TakeUnmarked(r) ==
  /\ stage[r] = "released"
  /\ Close(r) /\ TakeEntries(r)
  /\ UNCHANGED <<list, marker, forge, receiver, tries, outcome, said, sidecar,
                 window, old, spent>>

\* The take: the keeper stops, and the close raises the target's parked marker in
\* the same script.  A close that failed tells the person that nothing could be
\* started.
Take(r) ==
  /\ stage[r] = "released"
  /\ \/ /\ Close(r) /\ marker' = TRUE
        /\ TakeEntries(r)
        /\ UNCHANGED spent
     \/ /\ Spend("faults")
        /\ Step(r, "released", "saying")
        /\ \/ Close(r) /\ marker' = TRUE
           \/ UNCHANGED <<closed, open, marker>>
        /\ Note(r, {NoRun}, "notStarted")
        /\ UNCHANGED hand
  /\ UNCHANGED <<list, forge, receiver, tries, outcome, said, sidecar, window, old>>

\* Variant: only the reply that is answered is told.
TookFirst(r, how) ==
  /\ log' = log \cup {<<r, hand[r].first, IF how = "here" THEN "resumed"
                                           ELSE "notStarted">>}
  /\ said' = [said EXCEPT ![r] = IF how = "failed" THEN "invites" ELSE "continues"]
  /\ hand' = [hand EXCEPT ![r] = EmptyHand]

\* What the first recent reply became, and what the others are told.
Took(r, how) ==
  LET first == {hand[r].first}
      rest == hand[r].rest IN
  /\ log' = log \cup
       CASE how = "here" -> {<<r, c, "resumed">> : c \in first}
                              \cup {<<r, c, "extra">> : c \in rest}
         [] how = "other" -> {<<r, c, "extra">> : c \in first \cup rest}
         [] how = "failed" -> {<<r, c, "notStarted">> : c \in first \cup rest}
  /\ said' = [said EXCEPT ![r] = IF how = "failed" THEN "invites" ELSE "continues"]
  /\ hand' = [hand EXCEPT ![r] = EmptyHand]

\* Variant: a window held is a window held by the answer.
AnsweredByAny(r, c) ==
  IF AddOutcome(c) # "swallowed" THEN "here" ELSE "other"

\* A window that another job holds is the answer already, and this run's own
\* window means the release failed.
Answered(r, c) ==
  IF AddOutcome(c) # "swallowed" THEN "here"
  ELSE IF window = r THEN "failed" ELSE "other"

\* The first recent reply is added with the window.  A failed add may have
\* landed.
StartAnswer(r) ==
  LET c == hand[r].first
      how == Answered(r, c) IN
  /\ stage[r] = "taking"
  /\ \/ /\ Took(r, how)
        /\ IF how = "here" /\ AddOutcome(c) = "created"
             THEN /\ stage' = [stage EXCEPT ![c] = "queued", ![r] = "saying"]
                  /\ window' = c
             ELSE stage' = [stage EXCEPT ![r] = "saying"] /\ UNCHANGED window
        /\ UNCHANGED spent
     \/ /\ Spend("faults")
        /\ Took(r, "failed")
        /\ \/ stage' = [stage EXCEPT ![r] = "saying"] /\ UNCHANGED window
           \/ /\ AddOutcome(c) = "created"
              /\ stage' = [stage EXCEPT ![c] = "queued", ![r] = "saying"]
              /\ window' = c
  /\ UNCHANGED <<keys, forge, receiver, tries, outcome, marker, sidecar, old>>

\* The park's comment, last because it invites an answer.
Say(r) ==
  /\ Step(r, "saying", "settling")
  /\ said' = [said EXCEPT ![r] = IF @ = "nothing" THEN "invites" ELSE @]
  /\ outcome' = [outcome EXCEPT ![r] = "parked"]
  /\ UNCHANGED <<keys, forge, receiver, tries, hand, marker, sidecar, window,
                 old, log, spent>>

-----------------------------------------------------------------------------
(* The settle at a final outcome, and what disturbs a run. *)

\* Variant: a run that holds nothing needs no close.
SettleHolders(r, next) ==
  /\ IF Entries(r) # <<>>
       THEN Close(r) /\ Note(r, Ids(Entries(r)), "letGo")
       ELSE UNCHANGED <<closed, open, log>>
  /\ stage' = [stage EXCEPT ![r] = next]
  /\ UNCHANGED <<hand, spent>>

\* settleHeld: after a take, and for any outcome but a park, the first close
\* drops every reply the run held.
SettleHeld(r, next) ==
  /\ \/ /\ Close(r) /\ Note(r, Ids(Entries(r)), "letGo")
        /\ UNCHANGED spent
     \/ Spend("faults") /\ UNCHANGED <<closed, open, log>>
  /\ stage' = [stage EXCEPT ![r] = next]
  /\ UNCHANGED hand

\* The processor's settle, before its record.
Settle(r) ==
  /\ stage[r] = "settling"
  /\ SettleHeld(r, IF outcome[r] = "failed" THEN "listening" ELSE "done")
  /\ UNCHANGED <<list, forge, receiver, tries, outcome, said, marker, sidecar,
                 window, old>>

\* The failed listener settles again: its close is the second, or the only
\* one of a job the stall check took from a dead worker.
Listen(r) ==
  /\ stage[r] = "listening"
  /\ SettleHeld(r, "failed")
  /\ UNCHANGED <<list, forge, receiver, tries, outcome, said, marker, sidecar,
                 window, old>>

ConsoleRetry(r) ==
  /\ Step(r, "failed", "queued")
  /\ Spend("retries")
  /\ UNCHANGED <<keys, forge, receiver, tries, outcome, hand, said, marker,
                 sidecar, window, old, log>>

Crash(r) ==
  /\ stage[r] \in Active /\ Spend("crashes")
  /\ stage' = [stage EXCEPT ![r] = "listening"]
  /\ outcome' = [outcome EXCEPT ![r] = "failed"]
  /\ hand' = [hand EXCEPT ![r] = EmptyHand]
  /\ UNCHANGED <<keys, forge, receiver, tries, said, marker, sidecar, window,
                 old, log>>

\* Five minutes pass before the agent asks anything.
Age(r) ==
  /\ stage[r] \in {"ready", "running", "queued"}
  /\ old[r] # Ids(list[r])
  /\ old' = [old EXCEPT ![r] = Ids(list[r])]
  /\ UNCHANGED <<keys, forge, receiver, run, marker, sidecar, window, log, spent>>

\* Thirty seconds without a refresh.
OpenLapses(r) ==
  /\ open[r] = "live" /\ stage[r] \notin Keeping
  /\ open' = [open EXCEPT ![r] = "none"]
  /\ UNCHANGED <<list, closed, forge, receiver, run, marker, sidecar, window,
                 old, log, spent>>

\* Ten minutes of the window, one minute of the parked marker.
Lapse ==
  /\ Spend("lapses")
  /\ \/ window # NoRun /\ window' = NoRun /\ UNCHANGED marker
     \/ marker /\ marker' = FALSE /\ UNCHANGED window
  /\ UNCHANGED <<keys, forge, receiver, run, sidecar, old, log>>

Delivery(c) ==
  \/ Post(c) \/ Deliver(c) \/ Lookup(c) \/ HoldLive(c) \/ AskParked(c)
  \/ Enqueue(c) \/ HoldFor(c)
Park(r) ==
  \/ Promote(r) \/ Mark(r) \/ Release(r) \/ Take(r)
  \/ StartAnswer(r) \/ Say(r)
Work(r) ==
  \/ Pickup(r) \/ Register(r) \/ Refresh(r) \/ Start(r) \/ Ask(r)
  \/ Complete(r) \/ Unmark(r) \/ Settle(r) \/ Listen(r)
Disturb(r) ==
  Fail(r) \/ ConsoleRetry(r) \/ Crash(r) \/ Age(r) \/ OpenLapses(r)

Next ==
  \/ \E c \in Comments : Delivery(c) \/ ReceiverRestart(c)
  \/ \E r \in Runs : Work(r) \/ Park(r) \/ Disturb(r)
  \/ Lapse

Spec == Init /\ [][Next]_vars

-----------------------------------------------------------------------------
(* Properties. *)

Undisturbed ==
  spent = [faults |-> 0, crashes |-> 0, lapses |-> 0, retries |-> 0]

\* The values of every key; a list holds each delivery once and no more than
\* HELD_MAX_ENTRIES (the HEXISTS and LTRIM of HOLD_SCRIPT).
TypeOK ==
  /\ stage \in [Runs -> Stages]
  /\ tries \in [Runs -> Nat]
  /\ outcome \in [Runs -> {"none", "parked", "completed", "refused", "failed"}]
  /\ list \in [Runs -> Seq(Comments)]
  /\ \A r \in Runs : Len(list[r]) <= MaxEntries /\ IsInjective(list[r])
  /\ old \in [Runs -> SUBSET Comments]
  /\ hand \in [Runs -> [first : Comments \cup {NoRun}, rest : SUBSET Comments]]
  /\ closed \in [Runs -> BOOLEAN]
  /\ open \in [Runs -> {"none", "live"}]
  /\ marker \in BOOLEAN /\ label \in BOOLEAN /\ sidecar \in BOOLEAN
  /\ window \in Runs \cup {NoRun}
  /\ said \in [Runs -> {"nothing", "invites", "continues"}]
  /\ rcv \in [Comments -> [pc : {"unposted", "posted", "lookup", "hold", "askParked",
                                 "enqueue", "holdFor", "ended"},
                           todo : SUBSET Runs, at : Runs \cup {NoRun}, took : BOOLEAN]]
  /\ \A c \in Comments : deliveries[c] \in 0 .. MaxDeliveries[c]
  /\ born \in [Comments -> [label : BOOLEAN, asked : SUBSET (Runs \X Nat)]]
  /\ spent \in [{"faults", "crashes", "lapses", "retries"} -> Nat]

\* Only a run that can still read its list is live on its target: the keeper
\* is stopped before the close, so no refresh registers a settled run again
\* and later replies are not sent to it (index.mjs takeHeldReplies,
\* settleHeldReplies).
LiveNotSettled ==
  spent.faults = 0 => \A r \in Runs : open[r] = "live" => ~closed[r]

\* One transcript, one continuation: while no window lapses and no command
\* fails, at most one job of the target is waiting or working, the parking
\* run past its release aside (held-settle.mjs: the taken reply holds the
\* window, every later answer is coalesced against it).
OneContinuation ==
  (spent.lapses = 0 /\ spent.faults = 0 /\ spent.retries = 0) =>
    Cardinality({r \in Runs : stage[r] \notin {"none", "done", "failed",
      "released", "taking", "saying", "settling", "listening"}}) <= 1

\* Nothing is held for a run that is over: whichever site ended it, its list
\* is closed and it is off its target, so the receiver is told (isFinalOutcome
\* and the settle at the processor and the failed listener).
EndedIsClosed ==
  spent.faults = 0 =>
    \A r \in Runs : stage[r] \in {"done", "failed"} => closed[r] /\ open[r] = "none"

\* A run owes every reply it held an end.  A run that parked owes those since
\* the question one the person can see: the resumed job, the extra comment or
\* the comment that nothing was started; it is silent only about replies that
\* newer ones displaced (held-settle.mjs start, settleHeld).
Seen == {"resumed", "extra", "notStarted"}
HeldHasEnd ==
  spent.faults = 0 /\ spent.crashes = 0 =>
    \A r \in Runs : stage[r] \in {"done", "failed"} =>
      \A c \in Ids(list[r]) :
        \E e \in Seen \cup (IF outcome[r] = "parked" /\ <<r, tries[r]>> \in born[c].asked
                               THEN {} ELSE {"stale", "letGo"}) :
          <<r, c, e>> \in log

\* The parked comment and the queue say the same: `continues` only when
\* another job of the target exists, and a run that started its held answer
\* never asks for one, unless it was retried to park again (HELD_TAKEN_COMMENT,
\* HELD_RESUME_FAILED_REPLY).
SaidTrue ==
  \A r \in Runs :
    /\ said[r] = "continues" => \E q \in Runs \ {r} : stage[q] # "none"
    /\ spent.retries = 0 /\ (\E c \in Comments : <<r, c, "resumed">> \in log)
         => said[r] # "invites"

\* A phrase-free reply written while the run asks is held or enqueued however
\* late within the marker's minute it is delivered, never dropped for the
\* label it raced (held.mjs holdBeforeLabel).
PreLabelKept ==
  Undisturbed =>
    \A r \in Runs, c \in Comments :
      outcome[r] = "parked" /\ <<r, tries[r]>> \in born[c].asked
        => <<NoRun, c, "dropped">> \notin log

\* One continuation, every held reply with an end the person sees, and a comment
\* that says what the queue does.
RepliesEnd == OneContinuation /\ HeldHasEnd /\ SaidTrue
\* No reply is sent to a run that can no longer read it, and none that answers a
\* question is dropped for the label it raced.
RepliesMeetTheRun == LiveNotSettled /\ EndedIsClosed /\ PreLabelKept
=============================================================================
