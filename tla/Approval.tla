------------------------------ MODULE Approval ------------------------------
(* Approval requests: approval-state.mjs, the two scripts every transition of  *)
(* a request is one run of, approval-runtime.mjs around them, the pickup in    *)
(* processor.mjs and the failed listener and sweep in start.mjs that call it.  *)
(* One target and one host.  A job's agent asks and its job ends; a reply, or  *)
(* the deadline's own job, continues the session with the decision.  A request *)
(* is named by the job whose agent asked, a decision by its author.            *)
EXTENDS Naturals, FiniteSets

CONSTANTS
  First,         \* the job that is there at the start
  Replies,       \* comments that answer, each the job made of it
  Foreign,       \* the replies that came in by a rule with other gates
  Askers,        \* the jobs whose agent may ask
  Timed,         \* the askers whose rule has a gateTimeout
  Attempts,      \* attempts of a job
  None,          \* no request, no job
  Disturbances,  \* of Kinds, what may happen
  MaxSpent       \* bound: disturbances in all

Kinds == {"failures", "faults", "crashes", "edits", "unreadable", "retries"}
\* approvalExpiryJobId
Expiry(r) == <<"expiry", r>>
Jobs == {First} \cup Replies \cup {Expiry(r) : r \in Timed}
System == {"expiry", "revocation"}

ApprovalAssumption ==
  /\ Foreign \subseteq Replies /\ Timed \subseteq Askers /\ Askers \subseteq {First} \cup Replies
  /\ Attempts \in Nat \ {0} /\ Disturbances \subseteq Kinds /\ MaxSpent \in Nat
  \* Ids of jobs, as the forge and the queue make them, are none of the other names.
  /\ ({None} \cup System) \cap ({First} \cup Replies) = {} /\ None \notin System
  /\ \A r \in Askers : Expiry(r) \notin {First} \cup Replies

VARIABLES
  request,   \* run:approval:request:<id>
  target,    \* run:approval:target:*, the request the target waits for
  due,       \* the two deadline indexes
  late,      \* the requests whose expiresAt has passed
  file,      \* the triggers file, against what the request was made under
  queue,     \* BullMQ's state of each job
  tries,     \* failed attempts
  bound,     \* approvalRequestId in the job's data
  at,        \* where a pickup is
  found,     \* `request` in before(): the request of the target, and its decision
  asks,      \* the run ended on its approval tool
  listener,  \* the failed listener's finish: to come or made
  sweep,     \* how far the sweep is, and with which request
  started,   \* history: containers, with their request and the decision they were given
  spent, happened

store == <<request, target, due>>
outside == <<late, file>>
luck == <<spent, happened>>
pickup == <<queue, tries, bound, at, found, asks, listener>>
vars == <<store, outside, pickup, sweep, started, luck>>

Unasked == [state |-> "none", decision |-> None, job |-> None]
Nothing == [request |-> None, decision |-> None]
Resting == [pc |-> "rest", request |-> None]

Init ==
  /\ request = [r \in Askers |-> Unasked] /\ target = None /\ due = {}
  /\ late = {} /\ file = "same"
  /\ queue = [j \in Jobs |-> IF j = First THEN "waiting" ELSE "none"]
  /\ tries = [j \in Jobs |-> 0] /\ bound = [j \in Jobs |-> None]
  /\ at = [j \in Jobs |-> "idle"] /\ found = [j \in Jobs |-> Nothing]
  /\ asks = [j \in Jobs |-> FALSE] /\ listener = [j \in Jobs |-> "none"]
  /\ sweep = Resting /\ started = {} /\ spent = 0 /\ happened = {}

Can(kind) == kind \in Disturbances /\ spent < MaxSpent
Note(kind) == spent' = spent + 1 /\ happened' = happened \cup {kind}

-----------------------------------------------------------------------------
(* The scripts *)

\* MOVE answers ok again to whoever made the move.
Repeats(op, r, j) ==
  LET q == request[r] IN
  \/ op \in {"finish", "cancel"} /\ q.state = "finished" /\ q.job = j
  \/ /\ target = r
     /\ \/ op = "decide" /\ q.state # "pending" /\ q.decision = j
        \/ op = "expire" /\ q.state # "pending" /\ q.decision \in System
        \/ op = "claim" /\ q.state = "claimed" /\ q.job = j
\* Mutant: a decision is taken until the request is over.
NotOver(q) == q.state # "finished"
Undecided(q) == q.state = "pending"
Changes(op, r, j) ==
  LET q == request[r] IN
  /\ target = r
  /\ CASE op = "decide" -> Undecided(q)
       [] op = "expire" -> Undecided(q) /\ r \in late
       [] op = "claim" -> q.state = "decided"
       [] op = "finish" -> q.state = "claimed" /\ q.job = j
       [] op = "cancel" -> q.state \in {"pending", "decided"} \/ (q.state = "claimed" /\ q.job = j)
Ok(op, r, j) == Repeats(op, r, j) \/ Changes(op, r, j)
\* What the request becomes.  A decision past the deadline is the deadline's.
Becomes(op, r, j) ==
  LET q == request[r] IN
  CASE op \in {"decide", "expire"} ->
         [q EXCEPT !.state = "decided", !.decision = IF r \in late THEN "expiry" ELSE j]
    [] op = "claim" -> [q EXCEPT !.state = "claimed", !.job = j]
    [] op = "finish" -> [q EXCEPT !.state = "finished"]
    [] op = "cancel" ->
         [state |-> "finished", job |-> j,
          decision |-> IF q.decision = None THEN "revocation" ELSE q.decision]
\* The deadline's own decision stays due: the sweep has its job to queue.
LeavesDue(op, r) == op \in {"claim", "finish", "cancel"} \/ (op = "decide" /\ r \notin late)
Move(op, r, j) ==
  IF Changes(op, r, j)
  THEN /\ request' = [request EXCEPT ![r] = Becomes(op, r, j)]
       /\ target' = IF op \in {"finish", "cancel"} THEN None ELSE target
       /\ due' = IF LeavesDue(op, r) THEN due \ {r} ELSE due
  ELSE UNCHANGED store

\* PUBLISH
Publishes(r) ==
  IF request[r].state = "none" /\ target = None
  THEN /\ request' = [request EXCEPT ![r].state = "pending"] /\ target' = r
       /\ due' = due \cup ({r} \cap Timed)
  ELSE UNCHANGED store

-----------------------------------------------------------------------------
(* A comment becomes a job, bound to the request it could see. *)

\* enqueueForgeJob.  GET target and GET request answer as one look would: a
\* request that ended in between was not pending in either.
Look(c) ==
  /\ c \in Replies /\ queue[c] = "none" /\ at[c] = "idle"
  /\ bound' = [bound EXCEPT ![c] =
       IF target # None /\ request[target].state = "pending" THEN target ELSE None]
  /\ at' = [at EXCEPT ![c] = "add"]
  /\ UNCHANGED <<store, outside, queue, tries, found, asks, listener, sweep, started, luck>>
Add(c) ==
  /\ at[c] = "add" /\ queue' = [queue EXCEPT ![c] = "waiting"] /\ at' = [at EXCEPT ![c] = "idle"]
  /\ UNCHANGED <<store, outside, tries, bound, found, asks, listener, sweep, started, luck>>

-----------------------------------------------------------------------------
(* A pickup *)

Goes(j, phase) == at' = [at EXCEPT ![j] = phase] /\ UNCHANGED <<queue, found, asks>>
\* The pickup is over and forgets what it read.
Leaves(j, state) ==
  /\ at' = [at EXCEPT ![j] = "idle"] /\ queue' = [queue EXCEPT ![j] = state]
  /\ found' = [found EXCEPT ![j] = Nothing] /\ asks' = [asks EXCEPT ![j] = FALSE]
Completes(j) == Leaves(j, "done")
\* Mutant: a policy refusal leaves its claim.
RefusesOpen(j) == Completes(j)
\* An outcome of the policy kind ends the job; a claim it holds is closed first.
Refuses(j) == IF found[j].request = None THEN Completes(j) ELSE Goes(j, "close")
\* A step at phase of j's pickup that leaves what outlasts the pickup alone, but for the store and the queue.
Steps(j, phase) ==
  /\ at[j] = phase
  /\ UNCHANGED <<outside, tries, bound, listener, sweep, started, luck>>

Pickup(j) ==
  /\ queue[j] = "waiting"
  /\ queue' = [queue EXCEPT ![j] = "active"] /\ at' = [at EXCEPT ![j] = "find"]
  /\ UNCHANGED <<store, outside, tries, bound, found, asks, listener, sweep, started, luck>>
\* before(): only the job bound to the request of the target goes on with it.
Find(j) ==
  /\ Steps(j, "find") /\ UNCHANGED store
  /\ IF target = bound[j]
     THEN /\ at' = [at EXCEPT ![j] = "policy"] /\ UNCHANGED <<queue, asks>>
          /\ found' = [found EXCEPT ![j] =
               IF target = None THEN Nothing
               ELSE [request |-> target, decision |-> request[target].decision]]
     ELSE Completes(j)
\* What the file says of the request's rule and of the rule the job came in by.
Verdict(j) == IF file = "same" /\ j \in Foreign THEN "changed" ELSE file
Policy(j) ==
  LET f == found[j] IN
  /\ Steps(j, "policy") /\ UNCHANGED store
  /\ CASE Verdict(j) = "newer" -> Leaves(j, "waiting")      \* NewerReleaseHold
       [] Verdict(j) = "unreadable" -> Completes(j)   \* approval-policy-unavailable
       [] Verdict(j) = "changed" ->
            IF f.request = None THEN Completes(j) ELSE Goes(j, "cancel")
       [] Verdict(j) = "same" /\ f.request = None -> Goes(j, "run")
       [] Verdict(j) = "same" /\ f.request # None /\ j = Expiry(f.request) ->
            IF f.decision = "expiry" THEN Goes(j, "claim") ELSE Completes(j)
       [] Verdict(j) = "same" /\ f.request # None /\ j # Expiry(f.request) ->
            IF f.decision \in System THEN Completes(j) ELSE Goes(j, "decide")
Cancel(j) == Steps(j, "cancel") /\ Move("cancel", found[j].request, j) /\ Completes(j)
\* A reply that finds the deadline passed leaves its job to the deadline's.
Decide(j) ==
  LET r == found[j].request IN
  /\ Steps(j, "decide") /\ Move("decide", r, j)
  /\ IF Ok("decide", r, j) /\ request'[r].decision = j THEN Goes(j, "claim") ELSE Completes(j)
Claim(j) ==
  LET r == found[j].request IN
  /\ Steps(j, "claim") /\ Move("claim", r, j)
  /\ IF Ok("claim", r, j) THEN Goes(j, "check") ELSE Completes(j)
\* approvalSessionCheck: the retained session is the one the request was made on.
Check(j) == Steps(j, "check") /\ UNCHANGED store /\ (Goes(j, "run") \/ Goes(j, "close"))

\* runAttempt: refused before the container, put back by a gate, or started.
Refuse(j) == Steps(j, "run") /\ UNCHANGED store /\ Refuses(j)
Defer(j) == Steps(j, "run") /\ UNCHANGED store /\ Leaves(j, "waiting")
Start(j) ==
  LET r == found[j].request IN
  /\ at[j] = "run" /\ Goes(j, "box")
  /\ started' = IF r = None THEN started
                ELSE started \cup {[job |-> j, request |-> r, decision |-> request[r].decision]}
  /\ UNCHANGED <<store, outside, tries, bound, listener, sweep, luck>>
\* Exit 0, with or without a question; any other end that is no infrastructure failure.
Exit(j, asking) ==
  /\ Steps(j, "box") /\ UNCHANGED store
  /\ asking => j \in Askers /\ request[j].state = "none"
  /\ IF found[j].request = None /\ ~asking THEN Completes(j)
     ELSE /\ at' = [at EXCEPT ![j] = IF found[j].request = None THEN "vouch" ELSE "finish"]
          /\ asks' = [asks EXCEPT ![j] = asking] /\ UNCHANGED <<queue, found>>
ExitPolicy(j) == Steps(j, "box") /\ UNCHANGED store /\ Refuses(j)
\* The claim of a completed run ends before the run asks again.
Finish(j) ==
  LET r == found[j].request IN
  /\ Steps(j, "finish") /\ Move("finish", r, j)
  /\ CASE ~Ok("finish", r, j) -> Goes(j, "close")
       [] Ok("finish", r, j) /\ asks[j] -> Goes(j, "vouch")
       [] OTHER -> Completes(j)
\* afterPark
Vouch(j) ==
  /\ Steps(j, "vouch") /\ UNCHANGED store
  /\ IF Verdict(j) = "same" THEN Goes(j, "publish") ELSE Refuses(j)
Publish(j) ==
  /\ Steps(j, "publish") /\ Publishes(j)
  /\ IF target = None THEN Completes(j) ELSE Refuses(j)
Close(j) == Steps(j, "close") /\ Move("finish", found[j].request, j) /\ Completes(j)

\* An attempt that throws: tried again, or failed, and the listener closes its claim.
Throws(j) ==
  /\ tries' = [tries EXCEPT ![j] = @ + 1]
  /\ Leaves(j, IF tries[j] + 1 < Attempts THEN "waiting" ELSE "failed")
  /\ listener' = [listener EXCEPT ![j] = IF tries[j] + 1 < Attempts THEN @ ELSE "due"]
Fails(j) ==
  /\ at[j] \in {"run", "box"} /\ Can("failures") /\ Note("failures") /\ Throws(j)
  /\ UNCHANGED <<store, outside, bound, sweep, started>>
\* A command with no answer: it ran or it did not.
Operation == [cancel |-> "cancel", decide |-> "decide", claim |-> "claim", finish |-> "finish",
              close |-> "finish"]
Unanswered(j) ==
  /\ Can("faults") /\ Note("faults")
  /\ \/ at[j] = "find" /\ UNCHANGED store
     \/ /\ at[j] \in DOMAIN Operation
        /\ (UNCHANGED store \/ Move(Operation[at[j]], found[j].request, j))
     \/ at[j] = "publish" /\ (UNCHANGED store \/ Publishes(j))
  /\ \/ at[j] \in {"find", "cancel", "decide", "claim"} /\ Throws(j)
     \/ /\ UNCHANGED <<tries, listener>>
        /\ \/ at[j] = "finish" /\ Goes(j, "close")
           \/ at[j] = "close" /\ Completes(j)
           \/ at[j] = "publish" /\ Refuses(j)
  /\ UNCHANGED <<outside, bound, sweep, started>>
\* onFailed, once per terminal failure; an error of it is logged.
Listen(j) ==
  /\ listener[j] = "due" /\ listener' = [listener EXCEPT ![j] = "made"]
  /\ \/ (IF bound[j] = None THEN UNCHANGED store ELSE Move("finish", bound[j], j)) /\ UNCHANGED luck
     \/ Can("faults") /\ Note("faults") /\ UNCHANGED store
  /\ UNCHANGED <<outside, queue, tries, bound, at, found, asks, sweep, started>>

-----------------------------------------------------------------------------
(* The sweep, of the requests past their deadline *)

Sweeping(phase) ==
  /\ sweep.pc = phase
  /\ UNCHANGED <<outside, tries, at, found, asks, listener, started>>
SweepLook(r) ==
  /\ Sweeping("rest") /\ r \in due \cap late /\ sweep' = [pc |-> "policy", request |-> r]
  /\ UNCHANGED <<store, queue, bound, luck>>
SweepPolicy ==
  /\ Sweeping("policy")
  /\ sweep' = CASE file = "same" -> [sweep EXCEPT !.pc = "expire"]
                [] file = "changed" -> [sweep EXCEPT !.pc = "cancel"]
                [] OTHER -> Resting
  /\ UNCHANGED <<store, queue, bound, luck>>
SweepCancel ==
  LET r == sweep.request IN
  /\ Sweeping("cancel") /\ sweep' = Resting /\ Move("cancel", r, Expiry(r))
  /\ UNCHANGED <<queue, bound, luck>>
SweepExpire ==
  LET r == sweep.request IN
  /\ Sweeping("expire") /\ Move("expire", r, Expiry(r))
  /\ sweep' = IF Ok("expire", r, Expiry(r)) THEN [sweep EXCEPT !.pc = "add"] ELSE Resting
  /\ UNCHANGED <<queue, bound, luck>>
\* queue.add: an id that is known already adds nothing.
ExpiryJob(r) ==
  IF queue[Expiry(r)] = "none"
  THEN queue' = [queue EXCEPT ![Expiry(r)] = "waiting"] /\ bound' = [bound EXCEPT ![Expiry(r)] = r]
  ELSE UNCHANGED <<queue, bound>>
SweepAdd ==
  LET r == sweep.request IN
  /\ Sweeping("add") /\ ExpiryJob(r) /\ sweep' = Resting
  /\ UNCHANGED <<store, luck>>
SweepFails ==
  LET r == sweep.request IN
  /\ Can("faults") /\ Note("faults") /\ sweep' = Resting
  /\ \/ /\ \E op \in {"cancel", "expire"} :
             Sweeping(op) /\ (UNCHANGED store \/ Move(op, r, Expiry(r)))
        /\ UNCHANGED <<queue, bound>>
     \/ Sweeping("add") /\ (UNCHANGED <<queue, bound>> \/ ExpiryJob(r)) /\ UNCHANGED store

-----------------------------------------------------------------------------
(* What happens around them *)

DeadlinePasses(r) ==
  /\ r \in Timed \ late /\ request[r].state # "none" /\ late' = late \cup {r}
  /\ UNCHANGED <<store, file, pickup, sweep, started, luck>>
\* An operator edits the triggers file, a newer release writes it, or it cannot be read.
Edit(to) ==
  LET kind == IF to = "unreadable" THEN to ELSE "edits" IN
  /\ Can(kind) /\ Note(kind) /\ to # file /\ file' = to
  /\ UNCHANGED <<store, late, pickup, sweep, started>>
\* The worker dies: its jobs stall, and a stalled job fails at once.
Crash ==
  /\ Can("crashes") /\ Note("crashes") /\ sweep' = Resting
  /\ \E j \in Jobs : queue[j] = "active" \/ listener[j] = "due" \/ sweep # Resting
  /\ queue' = [j \in Jobs |-> IF queue[j] = "active" THEN "failed" ELSE queue[j]]
  /\ listener' = [j \in Jobs |-> CASE queue[j] = "active" -> "due" [] listener[j] = "due" -> "made"
                                   [] OTHER -> listener[j]]
  /\ at' = [j \in Jobs |-> IF queue[j] = "active" THEN "idle" ELSE at[j]]
  /\ found' = [j \in Jobs |-> Nothing] /\ asks' = [j \in Jobs |-> FALSE]
  /\ UNCHANGED <<store, outside, tries, bound, started>>
ConsoleRetry(j) ==
  /\ Can("retries") /\ Note("retries") /\ queue[j] = "failed" /\ listener[j] = "made"
  /\ queue' = [queue EXCEPT ![j] = "waiting"] /\ tries' = [tries EXCEPT ![j] = 0]
  /\ UNCHANGED <<store, outside, bound, at, found, asks, listener, sweep, started>>

Next ==
  \/ \E c \in Replies : Look(c) \/ Add(c)
  \/ \E j \in Jobs : \/ Pickup(j) \/ Find(j) \/ Policy(j) \/ Cancel(j) \/ Decide(j) \/ Claim(j)
                     \/ Check(j) \/ Refuse(j) \/ Defer(j) \/ Start(j) \/ Exit(j, TRUE)
                     \/ Exit(j, FALSE) \/ ExitPolicy(j) \/ Finish(j) \/ Vouch(j) \/ Publish(j)
                     \/ Close(j) \/ Fails(j) \/ Unanswered(j) \/ Listen(j) \/ ConsoleRetry(j)
  \/ \E r \in Askers : SweepLook(r) \/ DeadlinePasses(r)
  \/ SweepPolicy \/ SweepCancel \/ SweepExpire \/ SweepAdd \/ SweepFails \/ Crash
  \/ \E to \in {"same", "changed", "newer", "unreadable"} : Edit(to)
Spec == Init /\ [][Next]_vars

-----------------------------------------------------------------------------
(* Properties *)

TypeOK ==
  /\ request \in [Askers -> [state : {"none", "pending", "decided", "claimed", "finished"},
                             decision : {None} \cup Jobs \cup System, job : {None} \cup Jobs]]
  /\ target \in {None} \cup Askers /\ due \subseteq Timed
  /\ queue \in [Jobs -> {"none", "waiting", "active", "done", "failed"}]

\* The first accepted decision wins (docs/approval-gates.md): whatever replies, the
\* deadline, retries and deaths do, one job continues with a request, and every
\* container of it is given the one decision that stands.
OneContinuation ==
  \A x, y \in started :
    x.request = y.request =>
      x.job = y.job /\ x.decision = y.decision /\ x.decision = request[x.request].decision

\* "A policy refusal closes its continuation without retry" (docs/approval-gates.md):
\* no job that ended keeps the claim of its target.  A retry that cannot read the
\* triggers file is refused before it looks at the claim its first attempt holds.
RefusalCloses ==
  happened \cap {"faults", "crashes"} = {} =>
    \A r \in Askers : target = r /\ request[r].state = "claimed" => queue[request[r].job] # "done"

\* A decision is acted on (docs/approval-gates.md, "Exhausting infrastructure retries
\* closes the request"): while a target waits for a request that is decided or claimed,
\* a job of that request, its failed listener or the sweep is still to come, so the
\* target cannot stay taken for good.  A death or a command with no answer between
\* decide and claim, and an unreadable file, do leave it taken.
DecisionIsActedOn ==
  happened \cap {"faults", "crashes", "unreadable"} = {} =>
    \A r \in Askers : target = r /\ request[r].state \in {"decided", "claimed"} =>
      \/ r \in due \cap late /\ queue[Expiry(r)] = "none"
      \/ \E j \in Jobs : bound[j] = r /\ (queue[j] \in {"waiting", "active"} \/ listener[j] = "due")
=============================================================================
