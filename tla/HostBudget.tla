----------------------------- MODULE HostBudget -----------------------------
(***************************************************************************)
(* The host budget: one ledger per worker of what its running jobs may     *)
(* hold, a line of the jobs that wait for room, and the room the oldest of *)
(* them is promised while it is away.  Pickups pass the gate at once;      *)
(* stops that do not take, restarts, lost locks, other hosts and the reads *)
(* of the tick run beside them.                                            *)
(*                                                                         *)
(* A size is one number: memory and CPU are judged alike, one after the    *)
(* other.  A job's container carries the job's name.                       *)
(***************************************************************************)
EXTENDS Naturals, Sequences, FiniteSets, FiniteSetsExt

CONSTANTS
  Jobs,
  Venues,
  VenueOf,       \* VenueOf[j]: the runtime j's container runs on
  Projects,
  ProjectOf,     \* ProjectOf[j]: j's project, or None
  None,
  Size,          \* Size[j]: what j's container may hold
  Budget,        \* what the host's jobs may hold together
  Count,         \* PI_CONCURRENCY
  Share,         \* Share[p]: the most that p's jobs may hold, its hostShare
  MinJobs,       \* MinJobs[p]: the soft minimum of p's jobs
  Stream,        \* jobs that come again once done
  MaxTickets,    \* tickets in use at a time (bound)
  Disturbances,  \* what may disturb the host, see Kinds (bound)
  MaxSpent       \* disturbances in all (bound)

\* Another gate defers a pickup, or ends it; a deferral of the budget fails; a
\* stop does not take; a job loses its lock; another host takes it; a read of
\* the queue is not answered for long, or falls into the moment between a job's
\* fetch and its entry; the worker dies.
Kinds == {"busy", "ends", "undeferred", "stuck", "stall", "elsewhere",
          "unanswered", "unlucky", "crash"}

\* What the code makes sure of; the modules that instantiate this one assume it.
BudgetAssumption ==
  /\ None \notin Projects /\ Stream \subseteq Jobs /\ IsFiniteSet(Jobs)
  /\ VenueOf \in [Jobs -> Venues] /\ ProjectOf \in [Jobs -> Projects \cup {None}]
  /\ Size \in [Jobs -> Nat \ {0}] /\ Share \in [Projects -> Nat]
  /\ MinJobs \in [Projects -> Nat]
  /\ {Budget, Count, MaxTickets} \subseteq Nat \ {0} /\ MaxSpent \in Nat
  /\ Disturbances \subseteq Kinds
  \* `neverFits`: such a job is refused before it comes this far.
  /\ \A j \in Jobs : Size[j] <= Budget
  /\ \A j \in Jobs : ProjectOf[j] # None => Size[j] <= Share[ProjectOf[j]]

VARIABLES
  ledger,    \* what is held: the entries of the map
  line,      \* the waiters, oldest first
  pickups,   \* the pickups inside this host's processors
  where,     \* where[j]: the queue's word on j
  box,       \* box[j]: j's container, as its runtime has it
  unread,    \* the venues whose boot listing has not been read
  up,        \* the worker runs
  look,      \* the waiter `verify` reads the queue about
  sweep,     \* the orphan whose container the runtime called gone
  spent,     \* disturbances so far
  happened,  \* their kinds, for the properties
  strayed    \* jobs not in this host's hands since their waiter was written, for the properties

tick == <<look, sweep>>
outside == <<spent, happened>>
vars == <<ledger, line, pickups, where, box, unread, up, tick, outside, strayed>>

Tickets == 1..MaxTickets
NoLook == [job |-> None]
NoSweep == [job |-> None]
EntryKinds == {"live", "orphan", "seed"}

Can(what) == what \in Disturbances /\ spent < MaxSpent
Spend(what) == Can(what) /\ spent' = spent + 1 /\ happened' = happened \cup {what}
Quiet == UNCHANGED outside

Init ==
  /\ ledger = {} /\ line = <<>> /\ pickups = {}
  /\ where = [j \in Jobs |-> "queue"]
  /\ box = [j \in Jobs |-> "none"]
  /\ unread = Venues /\ up = TRUE
  /\ look = NoLook /\ sweep = NoSweep
  /\ spent = 0 /\ happened = {} /\ strayed = {}

-----------------------------------------------------------------------------
(* The rule. *)

Total(jobs) == MapThenSumSet(LAMBDA j : Size[j], jobs)
\* A seeded survivor belongs to no project.
RunningOf(p) == {e.job : e \in {e \in ledger : e.kind # "seed" /\ ProjectOf[e.job] = p}}

\* Whose id the ledger holds, and whose container name an orphan carries.
Holds(j) == \E e \in ledger : e.job = j /\ e.kind # "seed"
NameTaken(j) == \E e \in ledger : e.job = j /\ e.kind # "live"

InLine(j) == \E i \in DOMAIN line : line[i].job = j
Without(j) == SelectSeq(line, LAMBDA w : w.job # j)
\* Mutants: a waiter is filed anew each time; beside its old self.
WrittenAnew(j, suspended) == Append(Without(j), [job |-> j, suspended |-> suspended])
WrittenTwice(j, suspended) == Append(line, [job |-> j, suspended |-> suspended])
\* The waiter j is, or would be: an old one keeps its age.
Written(j, suspended) ==
  LET waiter == [job |-> j, suspended |-> suspended] IN
  IF InLine(j) THEN [i \in DOMAIN line |-> IF line[i].job = j THEN waiter ELSE line[i]]
  ELSE Append(line, waiter)

\* The jobs of a line that are not suspended.
Standing(l) == {i \in DOMAIN l : ~l[i].suspended}
\* Tier 1: the oldest of each project that runs fewer than its minimum.
Tier1(l) ==
  {i \in Standing(l) :
     LET its == ProjectOf[l[i].job] IN
     /\ its # None
     /\ \A k \in Standing(l) : k < i => ProjectOf[l[k].job] # its
     /\ Cardinality(RunningOf(its)) < MinJobs[its]}
\* Mutant: no hold beside the soft minimums.
NoOldest(l) == {}
\* Tier 2: the oldest of all.
Oldest(l) == {i \in Standing(l) : \A k \in Standing(l) : i <= k}
\* The jobs whose hold ranks above j's.
Above(l, j) ==
  LET held == Tier1(l) \cup Oldest(l)
      mine == {i \in held : l[i].job = j}
      over(i) == {k \in held : IF i \in Tier1(l) THEN k \in Tier1(l) /\ k < i ELSE k # i}
  IN {l[k].job : k \in IF mine = {} THEN held ELSE UNION {over(i) : i \in mine}}

WithinShare(j) ==
  ProjectOf[j] # None => Total(RunningOf(ProjectOf[j])) + Size[j] <= Share[ProjectOf[j]]
Fits(j) ==
  LET above == Above(Written(j, FALSE), j)
      held == MapThenSumSet(LAMBDA e : Size[e.job], ledger)
  IN /\ held + Size[j] + Total(above) <= Budget
     /\ Cardinality(ledger) + 1 + Cardinality(above) <= Count

-----------------------------------------------------------------------------
(* Waiters and entries. *)

\* The waiter of j is another object, or none: what `verify` reads is not about it.
Replaced(j) ==
  look' = IF look.job = j THEN [look EXCEPT !.same = FALSE] ELSE look
Wait(j, suspended) ==
  /\ line' = Written(j, suspended) /\ Replaced(j)
  /\ strayed' = {k \in strayed : k # j \/ where[j] = "elsewhere"}
Suspend(j) ==
  IF InLine(j) THEN Wait(j, TRUE) ELSE UNCHANGED <<line, look, strayed>>
Forget(j) == line' = Without(j) /\ Replaced(j) /\ UNCHANGED strayed

\* The entry of j that the pickup's own ticket took.
Taken(p) == {e \in ledger : e.job = p.job /\ e.kind = "live" /\ e.ticket = p.ticket}
\* Mutant: only a pickup that still has its lock gives back.
ReleaseLocked(p) == ledger' = IF p.locked THEN ledger \ Taken(p) ELSE ledger
Release(p) == ledger' = ledger \ Taken(p)
\* Mutant: the room goes back with the pickup, whatever became of its container.
OrphanReleased(p) == ledger' = ledger \ Taken(p)
Orphan(p) ==
  ledger' = (ledger \ Taken(p)) \cup {[e EXCEPT !.kind = "orphan"] : e \in Taken(p)}

-----------------------------------------------------------------------------
(* The queue. *)

\* A worker fetches j: its deferral is over.
Fetch(j) ==
  /\ up /\ where[j] = "queue"
  /\ where' = [where EXCEPT ![j] = "active"]
  /\ UNCHANGED <<ledger, line, pickups, box, unread, up, tick, outside, strayed>>

Fetched(j) ==
  where[j] = "active" /\ \A p \in pickups : p.job = j => ~p.locked
InUse == {p.ticket : p \in pickups} \cup {e.ticket : e \in {e \in ledger : e.kind # "seed"}}

\* `enter`: the pickup gets a ticket nobody carries.
Enter(j) ==
  /\ up /\ Fetched(j) /\ Tickets \ InUse # {}
  /\ pickups' = pickups \cup
       {[ticket |-> CHOOSE t \in Tickets \ InUse : TRUE, job |-> j, step |-> "gates",
         locked |-> TRUE]}
  /\ UNCHANGED <<ledger, line, where, box, unread, up, tick, outside, strayed>>

\* Where the job goes as a pickup ends; one without its lock has no say.
Goes(p, places) ==
  IF p.locked THEN \E q \in places : where' = [where EXCEPT ![p.job] = q]
  ELSE UNCHANGED where
Leave(p) == pickups' = pickups \ {p}

\* A done job of a stream comes again.
Again(j) ==
  /\ j \in Stream /\ where[j] = "done"
  /\ where' = [where EXCEPT ![j] = "queue"]
  /\ UNCHANGED <<ledger, line, pickups, box, unread, up, tick, outside, strayed>>

\* The lock of an active job lapses, and the stall check queues it again.
Stall(p) ==
  /\ p \in pickups /\ p.locked /\ Spend("stall")
  /\ pickups' = (pickups \ {p}) \cup {[p EXCEPT !.locked = FALSE]}
  /\ where' = [where EXCEPT ![p.job] = "queue"]
  /\ UNCHANGED <<ledger, line, box, unread, up, tick, strayed>>

\* Another host takes j from the shared queue; it defers it, or runs it.
ElsewhereTakes(j) ==
  /\ where[j] = "queue" /\ Spend("elsewhere")
  /\ where' = [where EXCEPT ![j] = "elsewhere"]
  /\ strayed' = strayed \cup {j}
  /\ UNCHANGED <<ledger, line, pickups, box, unread, up, tick>>
ElsewhereLeaves(j) ==
  /\ where[j] = "elsewhere"
  /\ \E q \in {"queue", "done"} : where' = [where EXCEPT ![j] = q]
  /\ UNCHANGED <<ledger, line, pickups, box, unread, up, tick, outside, strayed>>

-----------------------------------------------------------------------------
(* The pickup. *)

\* An earlier gate defers the job: its hold, if any, is kept and stops counting.
\* Without its lock the deferral throws, and the waiter is dropped.
OtherGateDefers(p) ==
  /\ p \in pickups /\ p.step = "gates" /\ Spend("busy")
  /\ IF p.locked THEN Suspend(p.job) ELSE Forget(p.job)
  /\ Leave(p) /\ Goes(p, {"queue"})
  /\ UNCHANGED <<ledger, box, unread, up, sweep>>

\* It ends before the gate: refused, or failed.
EndsEarly(p) ==
  /\ p \in pickups /\ p.step = "gates" /\ Spend("ends")
  /\ Forget(p.job) /\ Leave(p) /\ Goes(p, {"queue", "done"})
  /\ UNCHANGED <<ledger, box, unread, up, sweep>>

\* Mutants: a second pickup of a job is judged; so is one whose name is taken.
AgainJudged(j) == VenueOf[j] \in unread \/ NameTaken(j)
NameJudged(j) == VenueOf[j] \in unread \/ Holds(j)
\* `unseeded` and `running-here` make no waiter.
NotJudged(j) == VenueOf[j] \in unread \/ Holds(j) \/ NameTaken(j)
\* No await between what is read and what is written.
Gate(p) ==
  /\ p \in pickups /\ p.step = "gates"
  /\ LET j == p.job IN
     \/ /\ NotJudged(j)
        /\ pickups' = (pickups \ {p}) \cup {[p EXCEPT !.step = "defers"]}
        /\ UNCHANGED <<ledger, line, look, strayed>>
     \/ /\ ~NotJudged(j) /\ WithinShare(j) /\ Fits(j)
        /\ ledger' = {e \in ledger : e.job # j \/ e.kind = "seed"} \cup
                       {[job |-> j, ticket |-> p.ticket, kind |-> "live"]}
        /\ pickups' = (pickups \ {p}) \cup {[p EXCEPT !.step = "admitted"]}
        /\ Forget(j)
     \/ /\ ~NotJudged(j) /\ ~(WithinShare(j) /\ Fits(j))
        /\ pickups' = (pickups \ {p}) \cup {[p EXCEPT !.step = "defers"]}
        /\ Wait(j, ~WithinShare(j))
        /\ UNCHANGED ledger
  /\ Quiet /\ UNCHANGED <<where, box, unread, up, sweep>>

\* The budget's own deferral leaves the waiter as the gate wrote it, even when
\* it fails and the attempt is lost.
Defer(p) ==
  /\ p \in pickups /\ p.step = "defers"
  /\ \/ Goes(p, {"queue"}) /\ Quiet
     \/ Goes(p, {"queue", "done"}) /\ Spend("undeferred")
  /\ Leave(p)
  /\ UNCHANGED <<ledger, line, box, unread, up, tick, strayed>>

\* `docker run`: the container is created, is started, and exits.
Create(p) ==
  /\ p \in pickups /\ p.step = "admitted" /\ box[p.job] = "none"
  /\ box' = [box EXCEPT ![p.job] = "created"]
  /\ pickups' = (pickups \ {p}) \cup {[p EXCEPT !.step = "waits"]}
  /\ Quiet /\ UNCHANGED <<ledger, line, where, unread, up, tick, strayed>>
Starts(j) ==
  /\ box[j] = "created"
  /\ box' = [box EXCEPT ![j] = "running"]
  /\ Quiet /\ UNCHANGED <<ledger, line, pickups, where, unread, up, tick, strayed>>
Exits(j) ==
  /\ box[j] = "running"
  /\ box' = [box EXCEPT ![j] = "none"]
  /\ Quiet /\ UNCHANGED <<ledger, line, pickups, where, unread, up, tick, strayed>>

\* The job ended, before a container or with it gone; or it is retried.
Finish(p) ==
  /\ p \in pickups
  /\ p.step = "admitted" \/ (p.step = "waits" /\ box[p.job] = "none")
  /\ Release(p) /\ Forget(p.job) /\ Leave(p) /\ Goes(p, {"queue", "done"})
  /\ Quiet /\ UNCHANGED <<box, unread, up, sweep>>

\* The stop of its container did not take: the pickup gives up on it.
GiveUp(p) ==
  /\ p \in pickups /\ p.step = "waits" /\ box[p.job] # "none" /\ Spend("stuck")
  /\ Orphan(p) /\ Forget(p.job) /\ Leave(p) /\ Goes(p, {"queue", "done"})
  /\ UNCHANGED <<box, unread, up, sweep>>

-----------------------------------------------------------------------------
(* The tick. *)

\* A boot listing is read: what it lists is seeded.
Seed(v) ==
  /\ up /\ v \in unread
  /\ unread' = unread \ {v}
  /\ ledger' = ledger \cup
       {[job |-> j, ticket |-> 0, kind |-> "seed"] :
          j \in {j \in Jobs : VenueOf[j] = v /\ box[j] # "none"}}
  /\ Quiet /\ UNCHANGED <<line, pickups, where, box, up, tick, strayed>>

\* `verify` asks the queue about a waiter that has not been back for
\* HOLD_VERIFY_AFTER_MS: longer than a deferral takes.
Look(j) ==
  /\ up /\ look = NoLook /\ InLine(j)
  /\ \A p \in pickups : p.job = j => p.step # "defers"
  /\ look' = [job |-> j, same |-> TRUE,
              state |-> IF where[j] = "elsewhere" THEN "active" ELSE where[j]]
  /\ Quiet /\ UNCHANGED <<ledger, line, pickups, where, box, unread, up, sweep, strayed>>

Handled(j) == \E p \in pickups : p.job = j
\* Mutant: the waiter that is there now is judged by what was read of the old one.
GoneUnchecked == look.state = "done" \/ (look.state = "active" /\ ~Handled(look.job))
Gone ==
  look.same /\ (look.state = "done" \/ (look.state = "active" /\ ~Handled(look.job)))
\* It judges the waiter it asked about, if that is still there.
Judge ==
  /\ look # NoLook /\ look' = NoLook
  /\ line' = IF Gone THEN Without(look.job) ELSE line
  \* The job is on its way into a processor of this host.
  /\ IF Gone /\ where[look.job] = "active" THEN Spend("unlucky") ELSE Quiet
  /\ UNCHANGED <<ledger, pickups, where, box, unread, up, sweep, strayed>>

\* No answer, and the job has been away for HOLD_DROP_ON_ERROR_MS.
Unverifiable ==
  /\ look # NoLook /\ Spend("unanswered")
  /\ look' = NoLook
  /\ line' = IF look.same THEN Without(look.job) ELSE line
  /\ UNCHANGED <<ledger, pickups, where, box, unread, up, sweep, strayed>>

\* Mutant: the orphan's own entry counts as one that carries its name.
AskUnnamed(e) ==
  /\ up /\ sweep = NoSweep /\ e \in ledger /\ e.kind # "live"
  /\ ~\E f \in ledger : f.job = e.job
  /\ box' = [box EXCEPT ![e.job] = "none"] /\ sweep' = e
  /\ Quiet /\ UNCHANGED <<ledger, line, pickups, where, unread, up, look, strayed>>
\* The sweep asks about an orphan whose name no live entry carries, and an
\* answer of "gone" comes; a container that was never started is removed.
Ask(e) ==
  /\ up /\ sweep = NoSweep /\ e \in ledger /\ e.kind # "live"
  /\ ~\E f \in ledger : f.kind = "live" /\ f.job = e.job
  /\ box[e.job] # "running"
  /\ box' = [box EXCEPT ![e.job] = "none"]
  /\ sweep' = e
  /\ Quiet /\ UNCHANGED <<ledger, line, pickups, where, unread, up, look, strayed>>
GiveBack ==
  /\ sweep # NoSweep /\ sweep' = NoSweep
  /\ ledger' = ledger \ {sweep}
  /\ Quiet /\ UNCHANGED <<line, pickups, where, box, unread, up, look, strayed>>

-----------------------------------------------------------------------------
(* Restarts. *)

Crash ==
  /\ up /\ Spend("crash")
  /\ up' = FALSE
  /\ ledger' = {} /\ line' = <<>> /\ pickups' = {}
  /\ unread' = Venues /\ look' = NoLook /\ sweep' = NoSweep /\ strayed' = {}
  /\ where' = [j \in Jobs |-> IF where[j] = "active" THEN "queue" ELSE where[j]]
  /\ UNCHANGED box

\* The boot reaper removes what it can.
Boot ==
  /\ ~up /\ up' = TRUE
  /\ \E left \in SUBSET {j \in Jobs : box[j] # "none"} :
       box' = [j \in Jobs |-> IF j \in left THEN box[j] ELSE "none"]
  /\ Quiet /\ UNCHANGED <<ledger, line, pickups, where, unread, tick, strayed>>

Next ==
  \/ \E j \in Jobs :
       Fetch(j) \/ Enter(j) \/ Again(j) \/ ElsewhereTakes(j) \/ ElsewhereLeaves(j)
         \/ Starts(j) \/ Exits(j) \/ Look(j)
  \/ \E p \in pickups :
       Stall(p) \/ OtherGateDefers(p) \/ EndsEarly(p) \/ Gate(p) \/ Defer(p) \/ Create(p)
         \/ Finish(p) \/ GiveUp(p)
  \/ \E v \in Venues : Seed(v)
  \/ \E e \in ledger : Ask(e)
  \/ Judge \/ Unverifiable \/ GiveBack \/ Crash \/ Boot

Spec == Init /\ [][Next]_vars

\* Fair scheduling: the queue hands a job over again, pickups go on, containers
\* end, and the tick reads what is unread, asks about every waiter that stays
\* away, and sweeps.
Steps(t) ==
  \E p \in pickups : p.ticket = t /\ (Gate(p) \/ Defer(p) \/ Create(p) \/ Finish(p))
Sweeps == (\E e \in ledger : Ask(e)) \/ GiveBack
Verifies == \E j \in Jobs : where[j] = "done" /\ Look(j)
Fairness ==
  /\ SF_vars(Verifies)
  /\ \A j \in Jobs :
       WF_vars(Fetch(j)) /\ WF_vars(Enter(j)) /\ WF_vars(Starts(j)) /\ WF_vars(Exits(j))
  /\ \A t \in Tickets : WF_vars(Steps(t))
  /\ \A v \in Venues : WF_vars(Seed(v))
  /\ WF_vars(Judge) /\ WF_vars(Sweeps) /\ WF_vars(Boot)
FairSpec == Spec /\ Fairness

-----------------------------------------------------------------------------
(* Properties. *)

Entries ==
  [job : Jobs, ticket : Tickets, kind : {"live", "orphan"}] \cup
  [job : Jobs, ticket : {0}, kind : {"seed"}]
Looks == [job : Jobs, same : BOOLEAN, state : {"queue", "active", "done"}]
\* Types, and a line in which no job waits twice.
TypeOK ==
  /\ ledger \subseteq Entries
  /\ line \in Seq([job : Jobs, suspended : BOOLEAN])
  /\ \A i, k \in DOMAIN line : line[i].job = line[k].job => i = k
  /\ pickups \subseteq [ticket : Tickets, job : Jobs,
                        step : {"gates", "defers", "admitted", "waits"}, locked : BOOLEAN]
  /\ where \in [Jobs -> {"queue", "active", "elsewhere", "done"}]
  /\ box \in [Jobs -> {"none", "created", "running"}]
  /\ unread \subseteq Venues /\ up \in BOOLEAN
  /\ look \in Looks \cup {NoLook} /\ sweep \in Entries \cup {NoSweep}
  /\ spent \in 0..MaxSpent /\ happened \subseteq Kinds /\ strayed \subseteq Jobs

\* No container of a listed venue runs uncounted: stalled first attempts, stops
\* that did not take and what a restart left behind included.
Accounted ==
  \A j \in Jobs :
    up /\ VenueOf[j] \notin unread /\ box[j] # "none" => \E e \in ledger : e.job = j

\* None is counted twice: a job is not admitted beside the orphan or the
\* survivor whose container carries its name.
CountedOnce == \A e, f \in ledger : e.job = f.job => e = f

\* Room is held by a pickup that is at work on it, or by a container nobody
\* stopped: no exit of a pickup keeps an entry, whichever came first.
NoRoomLost ==
  \A e \in ledger :
    e.kind = "live" => \E p \in pickups :
      p.ticket = e.ticket /\ p.job = e.job /\ p.step \in {"admitted", "waits"}

\* The host is never asked for more than it has: what its containers may hold
\* fits, and so does their number, from one life of the worker to the next.
NoOvercommit ==
  LET present == {j \in Jobs : box[j] # "none"} IN
  Total(present) <= Budget /\ Cardinality(present) <= Count

Admitted(j) == \E e \in ledger' \ ledger : e.job = j /\ e.kind = "live"
PickupEnds(j) == \E p \in pickups \ pickups' : p.job = j
\* Why a waiter may leave the line.
MayLeave(j) ==
  \/ Admitted(j) \/ PickupEnds(j) \/ j \in strayed \/ where[j] = "done" \/ ~up'
  \/ spent' # spent /\ happened' \cap {"unanswered", "unlucky"} # {}
\* A waiter keeps its place: it leaves the line only to run, because its pickup
\* ended without waiting, or because it is not this host's any more; what
\* `verify` read about it before it came back drops nothing.
KeepsPlace == [][\A j \in Jobs : InLine(j) /\ ~InLine(j)' => MayLeave(j)]_vars

NobodyOvertaken ==
  \A i, k \in DOMAIN line, m, n \in DOMAIN line' :
    i < k /\ line[i].job = line'[m].job /\ line[k].job = line'[n].job => m < n
\* Nobody is overtaken in the line: a waiter keeps its age across deferrals,
\* suspensions and looks.
InOrder == [][NobodyOvertaken]_vars

\* A job that waits is admitted in the end, however many smaller ones come
\* and go meanwhile.
BigRuns ==
  \A j \in Jobs : where[j] = "queue" ~> \E e \in ledger : e.job = j /\ e.kind = "live"

\* The room of a container nobody stopped comes back once it is gone.
OrphansEnd == \A j \in Jobs : NameTaken(j) ~> ~NameTaken(j)
=============================================================================
