------------------------------ MODULE WatchIssue ------------------------------
(* The issue a watch rule keeps on a forge for one fingerprint                 *)
(* (worker/src/watch-issue.mjs): the publisher that creates it once and        *)
(* updates it, the activity every matching finding notes, and the sweep, on    *)
(* every worker, that closes it after a quiet time.  Valkey and the forge      *)
(* cannot be changed together.  The forge may apply a call and lose the        *)
(* answer; a publish is attempted again by its queue.                          *)
EXTENDS Integers, FiniteSets

CONSTANTS
  Jobs,         \* jobs that publish a finding of this fingerprint
  Attempts,     \* attempts the queue gives a job
  Sweepers,     \* workers whose drain sweeps quiet issues
  None,
  CloseAfter,   \* the quiet time, in ticks
  MaxClock,     \* bound: ticks
  MaxNotes,     \* bound: activity versions a receiver adds up to
  Disturbances, \* what may go wrong: "calls", "deaths", "policy"
  MaxSpent      \* bound: how often

IssueAssumption ==
  /\ IsFiniteSet(Jobs) /\ None \notin Sweepers \union Nat /\ Attempts \in Nat \ {0}
  /\ CloseAfter \in Nat \ {0} /\ MaxClock \in Nat /\ MaxNotes \in Nat /\ MaxSpent \in Nat

VARIABLES
  mapping,   \* <prefix>:<identity>: the state, and whether it has a closeAfterMs
  activity,  \* <prefix>:activity:<identity>
  quiet,     \* the identity's score in <prefix>:quiet, or None
  lock,      \* <prefix>:closing:<identity>: the sweeper whose token it is
  room,      \* the source's index has room for one more identity
  issues,    \* issues with the identity's marker on the forge
  open,      \* whether the issue is open
  policy,    \* the reviewed rule has a closeAfter
  clock,
  publish,   \* per job: where its call of publishWatchIssue is
  target,    \* per job: its rule has a closeAfter, as the job read it
  held,      \* per job: what the reservation answered
  tries,     \* per job: attempts that failed
  sweep,     \* per sweeper: where it is, and the two values it read
  spent, happened, crossed

vars == <<mapping, activity, quiet, lock, room, issues, open, policy, clock, publish, target, held,
          tries, sweep, spent, happened, crossed>>
keys == <<mapping, activity, quiet, lock, room>>
forge == <<issues, open>>
jobs == <<publish, target, held, tries>>
history == <<spent, happened, crossed>>

Unmapped == [state |-> "none", quiet |-> FALSE]
Mapping == [state : {"none", "pending", "mapped", "closed"}, quiet : BOOLEAN]
Activity == [at : 0 .. MaxClock, version : Nat]
Idle == [at |-> "idle", raw |-> Unmapped, act |-> [at |-> 0, version |-> 0]]
Over == {"created", "updated", "uncertain", "capped", "failed"}

Init ==
  /\ mapping = Unmapped /\ activity = Idle.act /\ quiet = None /\ lock = None
  /\ room \in BOOLEAN /\ issues = 0 /\ open = FALSE /\ policy = TRUE /\ clock = 0
  /\ publish = [j \in Jobs |-> "ready"] /\ target = [j \in Jobs |-> FALSE]
  /\ held = [j \in Jobs |-> Unmapped] /\ tries = [j \in Jobs |-> 0]
  /\ sweep = [s \in Sweepers |-> Idle]
  /\ spent = 0 /\ happened = {} /\ crossed = FALSE

Disturbed(what) ==
  /\ what \in Disturbances /\ spent < MaxSpent
  /\ spent' = spent + 1 /\ happened' = happened \union {what} /\ UNCHANGED crossed

-----------------------------------------------------------------------------
(* Activity. *)

Due(act) == act.at + CloseAfter <= clock

\* What WATCH_ISSUE_ACTIVITY_SCRIPT does of a mapping that exists: an issue that
\* is open is due a quiet time from now.
Note ==
  /\ activity' = [at |-> clock, version |-> activity.version + 1]
  /\ quiet' = IF mapping.quiet /\ mapping.state = "mapped" THEN clock + CloseAfter ELSE quiet

\* A receiver takes a matching finding in, whatever its verdict.
NoteActivity ==
  /\ mapping # Unmapped /\ activity.version < MaxNotes
  /\ Note
  /\ UNCHANGED <<mapping, lock, room, forge, policy, clock, jobs, sweep, history>>

-----------------------------------------------------------------------------
(* publishWatchIssue, for each job that files the finding. *)

Goes(j, from, to) == publish[j] = from /\ publish' = [publish EXCEPT ![j] = to]
Settled(j) == [state |-> "mapped", quiet |-> target[j]]

\* The rule is read when the job is picked up.
Begin(j) ==
  /\ Goes(j, "ready", "reserve")
  /\ target' = [target EXCEPT ![j] = policy]
  /\ UNCHANGED <<keys, forge, policy, clock, held, tries, sweep, history>>

\* RESERVE: one job becomes the owner of the identity.
Reserve(j) ==
  /\ IF mapping = Unmapped /\ ~room
     THEN Goes(j, "reserve", "capped") /\ UNCHANGED <<mapping, held>>
     ELSE /\ Goes(j, "reserve", "note")
          /\ held' = [held EXCEPT ![j] = mapping]
          /\ mapping' = IF mapping = Unmapped THEN [state |-> "pending", quiet |-> target[j]]
                        ELSE mapping
  /\ UNCHANGED <<activity, quiet, lock, room, forge, policy, clock, target, tries, sweep, history>>

\* A mapping that is pending in another's name is looked for on the forge.
NextCall(j) ==
  CASE held[j] = Unmapped -> "create"
    [] held[j].state = "pending" -> "find"
    [] OTHER -> "update"
NoteOwn(j) ==
  /\ Goes(j, "note", NextCall(j)) /\ Note
  /\ UNCHANGED <<mapping, lock, room, forge, policy, clock, target, held, tries, sweep, history>>

\* (Mutant: an owner who died before its create is helped out.)
CreateAgain == "create"
\* findIssue: a marker nobody can see is not created again.
Unseen == "uncertain"
Find(j) ==
  /\ Goes(j, "find", IF issues = 0 THEN Unseen ELSE "adopt")
  /\ UNCHANGED <<keys, forge, policy, clock, target, held, tries, sweep, history>>

Create(j) ==
  /\ Goes(j, "create", "set") /\ issues' = issues + 1 /\ open' = TRUE
  /\ UNCHANGED <<keys, policy, clock, target, held, tries, sweep, history>>

Update(j) ==
  /\ Goes(j, "update", "set") /\ open' = TRUE
  /\ UNCHANGED <<keys, issues, policy, clock, target, held, tries, sweep, history>>

\* The mapping is set after a find, and after the forge took the call.
SetMapping(j) ==
  /\ Goes(j, "adopt", "update") \/ Goes(j, "set", "schedule")
  /\ mapping' = Settled(j)
  /\ UNCHANGED <<activity, quiet, lock, room, forge, policy, clock, target, held, tries, sweep,
                 history>>

Schedule(j) ==
  /\ Goes(j, "schedule", IF held[j] = Unmapped THEN "created" ELSE "updated")
  /\ quiet' = IF target[j] THEN activity.at + CloseAfter ELSE None
  /\ UNCHANGED <<mapping, activity, lock, room, forge, policy, clock, target, held, tries, sweep,
                 history>>

\* A call that throws, applied by the forge or not: the queue tries the job again.
Fails(j) ==
  /\ Disturbed("calls") /\ publish[j] \in {"create", "find", "update"}
  /\ \/ UNCHANGED forge
     \/ publish[j] = "create" /\ issues' = issues + 1 /\ open' = TRUE
     \/ publish[j] = "update" /\ open' = TRUE /\ UNCHANGED issues
  /\ tries' = [tries EXCEPT ![j] = @ + 1]
  /\ publish' = [publish EXCEPT ![j] = IF tries'[j] < Attempts THEN "ready" ELSE "failed"]
  /\ UNCHANGED <<keys, policy, clock, target, held, sweep>>

\* The worker dies, and the queue hands the job to another.
Dies(j) ==
  /\ Disturbed("deaths") /\ publish[j] \notin Over \union {"ready"}
  /\ publish' = [publish EXCEPT ![j] = "ready"]
  /\ UNCHANGED <<keys, forge, policy, clock, target, held, tries, sweep>>

-----------------------------------------------------------------------------
(* publish.sweep, of each worker. *)

Moves(s, from, to) == sweep[s].at = from /\ sweep' = [sweep EXCEPT ![s].at = to]

List(s) ==
  /\ quiet # None /\ quiet <= clock
  /\ Moves(s, "idle", "map")
  /\ UNCHANGED <<keys, forge, policy, clock, jobs, history>>

ReadMapping(s) ==
  /\ sweep[s].at = "map"
  /\ sweep' = [sweep EXCEPT ![s].at = "activity", ![s].raw = mapping]
  /\ UNCHANGED <<keys, forge, policy, clock, jobs, history>>

ReadActivity(s) ==
  LET raw == sweep[s].raw
      next == IF ~raw.quiet \/ raw.state # "mapped" THEN "remove"
              ELSE IF Due(activity) THEN "ask" ELSE "later"
  IN /\ sweep[s].at = "activity"
     /\ sweep' = [sweep EXCEPT ![s].at = next, ![s].act = activity]
     /\ UNCHANGED <<keys, forge, policy, clock, jobs, history>>

\* Off the list: nothing to close, or a policy that no longer says so.
Remove(s) ==
  /\ \/ Moves(s, "remove", "idle")
     \/ ~policy /\ Moves(s, "ask", "idle")
  /\ quiet' = None
  /\ crossed' = (crossed \/ (sweep[s].at = "remove" /\ mapping # sweep[s].raw))
  /\ UNCHANGED <<mapping, activity, lock, room, forge, policy, clock, jobs, spent, happened>>

Later(s) ==
  /\ Moves(s, "later", "idle") /\ quiet' = sweep[s].act.at + CloseAfter
  /\ UNCHANGED <<mapping, activity, lock, room, forge, policy, clock, jobs, history>>

Unchanged(s) == mapping = sweep[s].raw /\ activity = sweep[s].act
Claim(s) ==
  /\ policy
  /\ IF Unchanged(s) /\ lock = None
     THEN Moves(s, "ask", "close") /\ lock' = s
     ELSE Moves(s, "ask", "idle") /\ UNCHANGED lock
  /\ UNCHANGED <<mapping, activity, quiet, room, forge, policy, clock, jobs, history>>

Close(s) ==
  /\ Moves(s, "close", "commit") /\ open' = FALSE
  /\ UNCHANGED <<keys, issues, policy, clock, jobs, history>>

\* (Mutant: the lock alone.)
LockedOnly(s) == lock = s
\* COMMIT, when the mapping and the activity are the ones that were read.
Committable(s) == lock = s /\ Unchanged(s)
Commit(s) ==
  /\ IF Committable(s)
     THEN /\ Moves(s, "commit", "unlock")
          /\ mapping' = [mapping EXCEPT !.state = "closed"] /\ quiet' = None
     ELSE Moves(s, "commit", "reopen") /\ UNCHANGED <<mapping, quiet>>
  /\ UNCHANGED <<activity, lock, room, forge, policy, clock, jobs, history>>

\* Activity came during the remote close.
Reopen(s) ==
  /\ Moves(s, "reopen", "restore") /\ open' = TRUE
  /\ UNCHANGED <<keys, issues, policy, clock, jobs, history>>

Restore(s) ==
  /\ Moves(s, "restore", "again")
  /\ mapping' = IF mapping.state = "closed" THEN [mapping EXCEPT !.state = "mapped"] ELSE mapping
  /\ UNCHANGED <<activity, quiet, lock, room, forge, policy, clock, jobs, history>>

ScheduleAgain(s) ==
  /\ Moves(s, "again", "unlock") /\ quiet' = activity.at + CloseAfter
  /\ UNCHANGED <<mapping, activity, lock, room, forge, policy, clock, jobs, history>>

Unlock(s) ==
  /\ Moves(s, "unlock", "idle") /\ lock' = IF lock = s THEN None ELSE lock
  /\ UNCHANGED <<mapping, activity, quiet, room, forge, policy, clock, jobs, history>>

\* A call to the forge throws, applied or not: the outcome is uncertain.
CallFails(s) ==
  /\ Disturbed("calls")
  /\ \/ Moves(s, "close", "unlock") /\ (UNCHANGED open \/ open' = FALSE)
     \/ Moves(s, "reopen", "unlock") /\ (UNCHANGED open \/ open' = TRUE)
  /\ UNCHANGED <<keys, issues, policy, clock, jobs>>

SweeperDies(s) ==
  /\ Disturbed("deaths") /\ sweep[s].at # "idle"
  /\ sweep' = [sweep EXCEPT ![s] = Idle]
  /\ UNCHANGED <<keys, forge, policy, clock, jobs>>

-----------------------------------------------------------------------------
\* The lock's 30 s are longer than the two calls of a sweep that lives.
LockLapses ==
  /\ lock # None /\ sweep[lock].at = "idle" /\ lock' = None
  /\ UNCHANGED <<mapping, activity, quiet, room, forge, policy, clock, jobs, sweep, history>>

\* The operator takes closeAfter out of the rule, or puts it back.
Edit ==
  /\ Disturbed("policy") /\ policy' = ~policy
  /\ UNCHANGED <<keys, forge, clock, jobs, sweep>>

\* A quiet time is longer than what a publish takes after its note.
OutlivesPublish == \A j \in Jobs : publish[j] \in Over \union {"ready", "reserve", "note"}
Tick ==
  /\ clock < MaxClock /\ OutlivesPublish /\ clock' = clock + 1
  /\ UNCHANGED <<keys, forge, policy, jobs, sweep, history>>

Next ==
  \/ \E j \in Jobs : \/ Begin(j) \/ Reserve(j) \/ NoteOwn(j) \/ Find(j) \/ Create(j) \/ Update(j)
                     \/ SetMapping(j) \/ Schedule(j) \/ Fails(j) \/ Dies(j)
  \/ \E s \in Sweepers : \/ List(s) \/ ReadMapping(s) \/ ReadActivity(s) \/ Remove(s) \/ Later(s)
                         \/ Claim(s) \/ Close(s) \/ Commit(s) \/ Reopen(s) \/ Restore(s)
                         \/ ScheduleAgain(s) \/ Unlock(s) \/ CallFails(s) \/ SweeperDies(s)
  \/ NoteActivity \/ LockLapses \/ Edit \/ Tick
Spec == Init /\ [][Next]_vars

-----------------------------------------------------------------------------
(* Properties. *)

\* The values of every key and call.
TypeOK ==
  /\ mapping \in Mapping /\ activity \in Activity /\ quiet \in (0 .. MaxClock + CloseAfter) \union {None}
  /\ lock \in Sweepers \union {None} /\ issues \in Nat /\ clock \in 0 .. MaxClock
  /\ \A j \in Jobs : held[j] \in Mapping /\ tries[j] <= Attempts
  /\ \A s \in Sweepers : sweep[s].raw \in Mapping /\ sweep[s].act \in Activity

AtRest ==
  /\ \A j \in Jobs : publish[j] \in Over \union {"ready"}
  /\ \A s \in Sweepers : sweep[s].at = "idle"

\* An identity has one issue on the forge, whoever created it, died or lost the
\* answer (docs/watch.md: an uncertain create never blindly creates a second).
OneIssue == issues <= 1

\* With nobody at work the forge shows what the mapping says: closed is what is
\* recorded as closed, and open what is mapped, due to be closed or not.  A call
\* that failed and a worker that died on the way may leave it otherwise.
ShownAsMapped ==
  AtRest /\ happened \subseteq {"policy"} =>
    /\ mapping.state = "closed" => ~open
    /\ mapping.state = "mapped" => open

\* With nobody at work an open issue with a quiet policy is on the list of the
\* sweep.  A sweep that takes it off for a mapping it read before a job published
\* again (crossed) leaves it off.
WatchedForQuiet ==
  AtRest /\ happened = {} /\ ~crossed /\ mapping = [state |-> "mapped", quiet |-> TRUE] =>
    quiet # None
=============================================================================
