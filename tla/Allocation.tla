----------------------------- MODULE Allocation -----------------------------
(***************************************************************************)
(* The applied split of the fleet's money: `alloc:plan`, written only by a *)
(* compare-and-set on the plan id and the envelope digest that were read,  *)
(* and `alloc:envelope:expected`, the digest a host's envelope must have   *)
(* to re-base the fleet.  Calls of four kinds meet there: the pickups of   *)
(* every host, which reconcile; plans and reverts, which reconcile first,  *)
(* take a lock and write their audit row before the state; and the         *)
(* operator's writes of the envelope file, which name its digest first.    *)
(*                                                                         *)
(* A split is known by its plan's id.  Shares and weights are left out.    *)
(***************************************************************************)
EXTENDS Naturals, FiniteSets

CONSTANTS
  Pickups, Plans, Reverts, Writes,  \* the calls
  HostOf,        \* HostOf[x]: the host of call x, whose envelope file it reads
  NewOf,         \* NewOf[w]: the digest of the envelope that write w makes
  None,
  Hosts,
  Digests,
  First,         \* the digest every host begins with
  Delegates,     \* the digests whose envelope delegates
  Interval,      \* minIntervalHours
  Life,          \* maxPlanDays
  MaxClock,      \* time (bound)
  Rounds,        \* rounds of `reconcile`, 4 in the code
  Disturbances,  \* what may disturb the calls, see Kinds (bound)
  MaxSpent       \* disturbances in all (bound)

\* A command or a file that fails, the answer of a compare-and-set lost, a
\* call's process dies, the lock lapses under its holder, a file that cannot
\* be replaced, an envelope edited by hand, keys deleted, a state spoilt.
Kinds == {"faults", "lost", "crash", "lapse", "disk", "edit", "flush", "corrupt"}

Calls == Pickups \cup Plans \cup Reverts \cup Writes
Appliers == Plans \cup Reverts

VARIABLES
  plan,      \* alloc:plan: a state, or Gone, or Corrupt
  expected,  \* alloc:envelope:expected
  lock,      \* alloc:lock
  file,      \* file[h]: the digest of h's envelope
  clock,
  at,        \* at[x]: how far call x is
  my,        \* my[x]: its locals
  told,      \* told[x]: its outcome
  rows,      \* the plans and reverts whose audit row is written
  spent, happened,
  landed,    \* plans and reverts whose state was in force, for the properties
  robbed,    \* calls whose lock lapsed while they held it, for the properties
  stale,     \* calls whose state was replaced since they read it, for the properties
  back,      \* a state came back that such a call had read, for the properties
  planned,   \* when the last plan or revert landed since the seed, for the properties
  named,     \* the digests named since the seed, for the properties
  official   \* the digest of the last envelope written, for the properties

redis == <<plan, expected, lock>>
locals == <<at, my, told>>
outside == <<spent, happened>>
history == <<stale, back, planned, named>>
deeds == <<landed, robbed>>
vars == <<redis, file, clock, locals, rows, outside, deeds, history, official>>

Gone == [id |-> "gone"]
Corrupt == [id |-> "corrupt"]
\* Mutant: a neutral split forgets when the last plan was applied.
NeutralAnew(d, last) == [id |-> None, digest |-> d, last |-> 0, until |-> 0]
\* `neutralState`: no plan, no end.  Times begin at 1; 0 is none.
Neutral(d, last) == [id |-> None, digest |-> d, last |-> last, until |-> 0]
Stored == plan \notin {Gone, Corrupt}
NoCall == [now |-> 0, digest |-> None, read |-> Gone, basis |-> None, round |-> 0, next |-> Gone,
           prev |-> None, saw |-> None]
\* The stages at which a call relies on the state it has read.
Relying == {"expected", "agree", "cas", "lock", "row", "land"}
Applying == {"row", "land", "letgo"}
Idle == {"idle", "over"}

Can(what) == what \in Disturbances /\ spent < MaxSpent
Spend(what) == Can(what) /\ spent' = spent + 1 /\ happened' = happened \cup {what}
Fine == UNCHANGED outside

Init ==
  /\ plan = Gone /\ expected = None /\ lock = None
  /\ file = [h \in Hosts |-> First]
  /\ clock = 1
  /\ at = [x \in Calls |-> "idle"] /\ my = [x \in Calls |-> NoCall]
  /\ told = [x \in Calls |-> "none"]
  /\ rows = {}
  /\ spent = 0 /\ happened = {}
  /\ landed = {} /\ robbed = {} /\ stale = {} /\ back = FALSE /\ planned = 0 /\ named = {}
  /\ official = First

Goto(x, s) == at' = [at EXCEPT ![x] = s]
\* A pickup may come again; the other calls are made once.
End(x, outcome) ==
  /\ at' = [at EXCEPT ![x] = IF x \in Pickups THEN "idle" ELSE "over"]
  /\ my' = [my EXCEPT ![x] = NoCall]
  /\ told' = [told EXCEPT ![x] = outcome]
Say(x, outcome, s) == Goto(x, s) /\ told' = [told EXCEPT ![x] = outcome]

\* The state is read, or written.
Reads(x) == stale' = stale \ {x} /\ UNCHANGED <<back, planned, named>>
Puts(x, s) ==
  /\ plan' = s
  /\ stale' = (stale \cup {y \in Calls : at[y] \in Relying}) \ {x}
  /\ back' = (back \/ \E y \in stale' : /\ my[y].read.id = s.id
                                        /\ my[y].read.digest = s.digest)

\* CAS_SCRIPT.
\* Mutant: with no comparison.
MatchesAny(x) == Stored
Matches(x) == Stored /\ plan.id = my[x].read.id /\ plan.digest = my[x].read.digest

-----------------------------------------------------------------------------
(* Time. *)

\* A call is over before the clock has moved on twice.
Tick ==
  /\ clock < MaxClock /\ clock' = clock + 1
  /\ \A x \in Calls : at[x] \notin Idle => my[x].now \in {0, clock}
  /\ UNCHANGED <<redis, file, locals, rows, outside, deeds, history, official>>

\* The lock of a call that died lapses, or that of one that takes long.
Lapse ==
  /\ lock # None /\ lock' = None
  /\ IF at[lock] \in Applying THEN Spend("lapse") /\ robbed' = robbed \cup {lock}
     ELSE Fine /\ UNCHANGED robbed
  /\ UNCHANGED <<plan, expected, file, clock, locals, rows, landed, history, official>>

-----------------------------------------------------------------------------
(* `reconcile`. *)

Begin(x, s, basis) ==
  /\ at[x] = "idle"
  /\ at' = [at EXCEPT ![x] = s]
  /\ my' = [my EXCEPT ![x] = [NoCall EXCEPT !.now = clock, !.digest = file[HostOf[x]],
                                            !.basis = basis]]

Pickup(x) ==
  /\ x \in Pickups /\ Begin(x, "get", None)
  /\ UNCHANGED <<redis, file, clock, told, rows, outside, deeds, history, official>>

\* A plan names the state its author has read; without delegation it is refused at once.
Propose(x) ==
  /\ x \in Plans /\ file[HostOf[x]] \in Delegates
  /\ Begin(x, "get", IF Stored THEN plan.id ELSE None)
  /\ UNCHANGED <<redis, file, clock, told, rows, outside, deeds, history, official>>

\* A revert goes to a plan that was applied, or to neutral.
Revert(x) ==
  /\ x \in Reverts /\ file[HostOf[x]] \in Delegates
  /\ \E target \in {None} \cup {p \in Plans : told[p] = "applied"} : Begin(x, "get", target)
  /\ UNCHANGED <<redis, file, clock, told, rows, outside, deeds, history, official>>

\* The ladder, as far as it is about the state.
Refused(x, s) ==
  \/ s.id = x \/ my[x].basis # s.id
  \/ s.last # 0 /\ my[x].now - s.last < Interval
\* What the caller does with the answer: s, and whether its envelope is that of s.
Returns(x, s, mismatch) ==
  CASE x \in Pickups -> End(x, IF mismatch THEN "mismatch" ELSE "ok")
    [] x \in Appliers /\ (mismatch \/ (x \in Plans /\ Refused(x, s))) ->
         End(x, IF mismatch THEN "mismatch" ELSE "refused")
    [] OTHER -> Goto(x, "lock") /\ my' = [my EXCEPT ![x].read = s] /\ UNCHANGED told

\* What the read state calls for, the digests being the same.
Due(x, s) ==
  \/ s.id # None /\ my[x].digest \notin Delegates
  \/ s.until # 0 /\ s.until <= my[x].now
Proceed(x, s) ==
  IF Due(x, s)
  THEN /\ Goto(x, "cas") /\ UNCHANGED told
       /\ my' = [my EXCEPT ![x].read = s, ![x].next = Neutral(my[x].digest, s.last)]
  ELSE Returns(x, s, FALSE)

\* GET: no state is seeded, another digest is asked about.
Get(x) ==
  /\ at[x] = "get"
  /\ at' = [at EXCEPT ![x] = CASE ~Stored -> "seed"
                               [] Stored /\ plan.digest # my[x].digest -> "expected"
                               [] OTHER -> "agree"]
  /\ my' = [my EXCEPT ![x].read = plan]
  /\ Reads(x)
  /\ UNCHANGED <<redis, file, clock, told, rows, outside, deeds, official>>

\* Mutant: a stale `expected` survives a fresh seed.
SeedKeeps(x) ==
  /\ plan = my[x].read
  /\ expected' = IF expected = None THEN my[x].digest ELSE expected
  /\ named' = {my[x].digest}
\* SEED_SCRIPT: a fresh seed names its digest, a replacement only where none is.
SeedLands(x) ==
  /\ plan = my[x].read
  /\ expected' = IF plan = Gone \/ expected = None THEN my[x].digest ELSE expected
  /\ named' = IF plan = Gone THEN {my[x].digest} ELSE named \cup {expected'}
Seed(x) ==
  /\ at[x] = "seed"
  /\ \/ /\ SeedLands(x)
        /\ Puts(x, Neutral(my[x].digest, 0)) /\ planned' = 0
        /\ Goto(x, "agree") /\ my' = [my EXCEPT ![x].read = plan']
     \/ /\ plan # my[x].read
        /\ Goto(x, "again") /\ UNCHANGED <<plan, expected, my, history>>
  /\ UNCHANGED <<lock, file, clock, told, rows, outside, deeds, official>>
\* A seed that lost reads the winner's; where there is none by then, it goes on
\* with its own, which is stored nowhere.
Again(x) ==
  /\ at[x] = "again"
  /\ my' = [my EXCEPT ![x].read = IF Stored THEN plan ELSE Neutral(my[x].digest, 0)]
  /\ Goto(x, IF my'[x].read.digest # my[x].digest THEN "expected" ELSE "agree")
  /\ Reads(x)
  /\ UNCHANGED <<redis, file, clock, told, rows, outside, deeds, official>>

\* `expectedDigest`: an absent key is seeded with the applied digest.
ExpectedNow(x) == IF expected = None THEN my[x].read.digest ELSE expected
Names(x) ==
  /\ expected' = ExpectedNow(x)
  /\ named' = IF expected = None THEN named \cup {expected'} ELSE named

\* Another digest: a mismatch, unless it is the expected one.
AskExpected(x) ==
  /\ at[x] = "expected" /\ Names(x)
  /\ LET s == my[x].read IN
     IF ExpectedNow(x) # my[x].digest THEN Returns(x, s, TRUE)
     ELSE /\ Goto(x, "cas") /\ UNCHANGED told
          /\ my' = [my EXCEPT ![x].next =
               IF s.id = None \/ my[x].digest \notin Delegates THEN Neutral(my[x].digest, s.last)
               ELSE [s EXCEPT !.digest = my[x].digest]]
  /\ UNCHANGED <<plan, lock, file, clock, rows, outside, deeds, stale, back, planned, official>>

Agree(x) ==
  /\ at[x] = "agree" /\ Names(x)
  /\ Proceed(x, my[x].read)
  /\ UNCHANGED <<plan, lock, file, clock, rows, outside, deeds, stale, back, planned, official>>

\* Mutant: the loser goes round for ever.
CasForEver(x) ==
  /\ at[x] = "cas"
  /\ \/ /\ Matches(x)
        /\ Puts(x, my[x].next) /\ UNCHANGED <<planned, named>>
        /\ Returns(x, my[x].next, FALSE)
     \/ /\ ~Matches(x)
        /\ Goto(x, "get") /\ my' = [my EXCEPT ![x].round = @ + 1]
        /\ UNCHANGED <<plan, told, history>>
  /\ UNCHANGED <<expected, lock, file, clock, rows, outside, deeds, official>>
\* The change that is due; the loser goes round again.
Cas(x) ==
  /\ at[x] = "cas"
  /\ \/ /\ Matches(x)
        /\ Puts(x, my[x].next) /\ UNCHANGED <<planned, named>>
        /\ \/ Returns(x, my[x].next, FALSE) /\ Fine
           \/ End(x, "threw") /\ Spend("lost")
     \/ /\ ~Matches(x)
        /\ Goto(x, IF my[x].round + 1 = Rounds THEN "last" ELSE "get")
        /\ my' = [my EXCEPT ![x].round = @ + 1]
        /\ Fine /\ UNCHANGED <<plan, told, history>>
  /\ UNCHANGED <<expected, lock, file, clock, rows, deeds, official>>

\* After the last round the state is read once more, and not changed.
Last(x) ==
  /\ at[x] = "last" /\ Stored
  /\ Returns(x, plan, plan.digest # my[x].digest)
  /\ Reads(x)
  /\ UNCHANGED <<redis, file, clock, rows, outside, deeds, official>>

-----------------------------------------------------------------------------
(* `applyPlan` and `revert`. *)

TakeLock(x) ==
  /\ at[x] = "lock"
  /\ IF lock = None
     THEN lock' = x /\ Goto(x, "row") /\ UNCHANGED <<my, told>>
     ELSE End(x, "refused") /\ UNCHANGED lock
  /\ UNCHANGED <<plan, expected, file, clock, rows, outside, deeds, history, official>>

Target(x) ==
  LET m == my[x] IN
  IF x \in Reverts /\ m.basis = None THEN Neutral(m.digest, m.now)
  ELSE [id |-> IF x \in Plans THEN x ELSE m.basis, digest |-> m.digest, last |-> m.now,
        until |-> m.now + Life]

\* Mutant: the row is left for later.
RowLater(x) ==
  /\ at[x] = "row" /\ Goto(x, "land")
  /\ UNCHANGED <<redis, file, clock, my, told, rows, outside, deeds, history, official>>
\* The file first; without the row nothing is applied.
WriteRow(x) ==
  /\ at[x] = "row"
  /\ \/ Goto(x, "land") /\ rows' = rows \cup {x} /\ Fine /\ UNCHANGED told
     \/ Say(x, "threw", "letgo") /\ Spend("faults") /\ UNCHANGED rows
  /\ UNCHANGED <<redis, file, clock, my, deeds, history, official>>

\* Mutant: the answer is taken on trust.
LandTold(x) ==
  /\ at[x] = "land"
  /\ IF Matches(x)
     THEN /\ Puts(x, Target(x)) /\ planned' = my[x].now /\ landed' = landed \cup {x}
     ELSE UNCHANGED <<plan, stale, back, planned, landed>>
  /\ Say(x, "applied", "letgo")
  /\ UNCHANGED <<expected, lock, file, clock, my, rows, outside, robbed, named, official>>
\* The compare-and-set is the write.
Land(x) ==
  /\ at[x] = "land"
  /\ \/ /\ Matches(x)
        /\ Puts(x, Target(x)) /\ planned' = my[x].now /\ landed' = landed \cup {x}
        /\ \/ Say(x, "applied", "letgo") /\ Fine
           \/ Say(x, "threw", "letgo") /\ Spend("lost")
     \/ /\ ~Matches(x) /\ Say(x, "failed", "letgo") /\ Fine
        /\ UNCHANGED <<plan, stale, back, planned, landed>>
     \/ /\ Say(x, "threw", "letgo") /\ Spend("faults")
        /\ UNCHANGED <<plan, stale, back, planned, landed>>
  /\ UNCHANGED <<expected, lock, file, clock, my, rows, robbed, named, official>>

Over(x) == Goto(x, "over") /\ my' = [my EXCEPT ![x] = NoCall]
\* Mutant: the lock is deleted, whoever holds it.
LetGoAny(x) ==
  /\ at[x] = "letgo" /\ Over(x) /\ lock' = None
  /\ UNCHANGED <<plan, expected, file, clock, told, rows, outside, deeds, history, official>>
\* RELEASE_IF_MINE.
LetGo(x) ==
  /\ at[x] = "letgo" /\ Over(x)
  /\ \/ lock' = (IF lock = x THEN None ELSE lock) /\ Fine
     \/ UNCHANGED lock /\ Spend("faults")
  /\ UNCHANGED <<plan, expected, file, clock, told, rows, deeds, history, official>>

-----------------------------------------------------------------------------
(* `writeEnvelope`. *)

\* The operator confirms a change of the file as it is now.
Confirm(w) ==
  /\ w \in Writes /\ at[w] = "idle" /\ file[HostOf[w]] # NewOf[w]
  /\ Goto(w, "name") /\ my' = [my EXCEPT ![w].saw = file[HostOf[w]]]
  /\ UNCHANGED <<redis, file, clock, told, rows, outside, deeds, history, official>>

\* SET GET: the digest is named, what it replaces is kept.
Name(w) ==
  /\ at[w] = "name"
  /\ \/ /\ expected' = NewOf[w] /\ named' = named \cup {NewOf[w]}
        /\ \/ /\ Goto(w, "replace") /\ my' = [my EXCEPT ![w].prev = expected]
              /\ Fine /\ UNCHANGED told
           \/ End(w, "refused") /\ Spend("lost")
     \/ End(w, "refused") /\ Spend("faults") /\ UNCHANGED <<expected, named>>
  /\ UNCHANGED <<plan, lock, file, clock, rows, deeds, stale, back, planned, official>>

\* Only a file that is still the confirmed one is replaced.
Replace(w) ==
  /\ at[w] = "replace"
  /\ \/ /\ file[HostOf[w]] = my[w].saw
        /\ file' = [file EXCEPT ![HostOf[w]] = NewOf[w]] /\ official' = NewOf[w]
        /\ End(w, "applied") /\ Fine
     \/ /\ file[HostOf[w]] # my[w].saw
        /\ Goto(w, "restore") /\ Fine /\ UNCHANGED <<file, official, my, told>>
     \/ Goto(w, "restore") /\ Spend("disk") /\ UNCHANGED <<file, official, my, told>>
  /\ UNCHANGED <<redis, clock, rows, deeds, history>>

\* Mutants: nothing is put back; the old digest is, whatever is there by now.
RestoreNot(w) ==
  /\ at[w] = "restore" /\ End(w, "refused")
  /\ UNCHANGED <<redis, file, clock, rows, outside, deeds, history, official>>
RestoreAny(w) ==
  /\ at[w] = "restore"
  /\ expected' = my[w].prev /\ End(w, "refused")
  /\ UNCHANGED <<plan, lock, file, clock, rows, outside, deeds, history, official>>
\* RESTORE_EXPECTED_SCRIPT.
Restore(w) ==
  /\ at[w] = "restore" /\ End(w, "refused")
  /\ \/ expected' = (IF expected = NewOf[w] THEN my[w].prev ELSE expected) /\ Fine
     \/ UNCHANGED expected /\ Spend("faults")
  /\ named' = named \cup ({expected'} \ {None})
  /\ UNCHANGED <<plan, lock, file, clock, rows, deeds, stale, back, planned, official>>

-----------------------------------------------------------------------------
(* Disturbances. *)

\* A command of `reconcile` or the lock's fails: the caller gives up.
Throw(x) ==
  /\ at[x] \in {"get", "seed", "again", "expected", "agree", "cas", "last", "lock"}
  /\ End(x, "threw") /\ Spend("faults")
  /\ UNCHANGED <<redis, file, clock, rows, deeds, history, official>>
\* The process of a call dies.
Die(x) ==
  /\ at[x] \notin Idle /\ End(x, "died") /\ Spend("crash")
  /\ UNCHANGED <<redis, file, clock, rows, deeds, history, official>>
\* An envelope file is changed with no write: by hand, by a copy.
Edit(h) ==
  /\ \E d \in Digests \ {file[h]} : file' = [file EXCEPT ![h] = d]
  /\ Spend("edit")
  /\ UNCHANGED <<redis, clock, locals, rows, deeds, history, official>>
\* The operator deletes the state, its expected digest, or both.
Flush ==
  /\ Spend("flush")
  /\ \/ plan' = Gone /\ expected' \in {None, expected}
     \/ UNCHANGED plan /\ expected' = None
  /\ UNCHANGED <<lock, file, clock, locals, rows, deeds, history, official>>
Spoil ==
  /\ Stored /\ plan' = Corrupt /\ Spend("corrupt")
  /\ UNCHANGED <<expected, lock, file, clock, locals, rows, deeds, history, official>>

Reconcile(x) ==
  Get(x) \/ Seed(x) \/ Again(x) \/ AskExpected(x) \/ Agree(x) \/ Cas(x) \/ Last(x)
Next ==
  \/ \E x \in Calls :
       \/ Pickup(x) \/ Propose(x) \/ Revert(x) \/ Reconcile(x)
       \/ TakeLock(x) \/ WriteRow(x) \/ Land(x) \/ LetGo(x)
       \/ Confirm(x) \/ Name(x) \/ Replace(x) \/ Restore(x)
       \/ Throw(x) \/ Die(x)
  \/ \E h \in Hosts : Edit(h)
  \/ Tick \/ Lapse \/ Flush \/ Spoil
Spec == Init /\ [][Next]_vars

-----------------------------------------------------------------------------
(* Properties. *)

States == [id : Plans \cup {None}, digest : Digests, last : 0 .. MaxClock,
           until : 0 .. MaxClock + Life]
\* The values of the keys and of every call.
TypeOK ==
  /\ plan \in States \cup {Gone, Corrupt}
  /\ expected \in Digests \cup {None} /\ lock \in Appliers \cup {None}
  /\ file \in [Hosts -> Digests] /\ clock \in 1 .. MaxClock
  /\ at \in [Calls -> Relying \cup Applying \cup Idle \cup {"get", "seed", "again", "last",
                                                            "name", "replace", "restore"}]
  /\ \A x \in Calls : my[x].round < Rounds \/ at[x] \in {"last", "lock"} \cup Applying
  /\ \A x \in Calls : my[x].read \in States \cup {Gone, Corrupt}
  /\ rows \subseteq Appliers /\ landed \subseteq Appliers /\ spent \in 0 .. MaxSpent

\* A change that happened always has its row ("the file first"): through
\* deaths, a file that fails and answers that are lost.
ChangeHasRow == landed \subseteq rows

\* The audit and the caller are told the truth: what was applied was in force,
\* and what was refused or failed never was.
ToldTheTruth ==
  \A x \in Appliers :
    /\ told[x] = "applied" => x \in landed
    /\ told[x] \in {"refused", "mismatch", "failed"} => x \notin landed

\* The lock is one apply's at a time: as long as it does not lapse under its
\* holder it is the holder's, whoever else's has lapsed and is let go late.
LockKept ==
  \A x \in Appliers : at[x] \in Applying /\ x \notin robbed => lock = x

Lands(x) == at[x] \in {"cas", "land"} /\ plan' # plan /\ at'[x] # at[x] /\ Matches(x)
Overwrites(x) == Lands(x) /\ x \in stale /\ ~back
\* A step is computed from the state it replaces, and an expiry, a re-base or a
\* return to neutral judges it: a state that was replaced in between is never
\* overwritten, where the same plan did not come back under the same envelope.
ReplacesWhatItRead == [][\A x \in Calls : ~Overwrites(x)]_vars

TooSoon(x) ==
  /\ x \in (landed' \ landed) \cap Plans
  /\ planned # 0 /\ my[x].now - planned < Interval /\ ~back
\* Plans keep the interval, through expiries, re-bases and delegation off in
\* between, which all keep when the last one was applied.
PlansKeepInterval == [][\A x \in Plans : ~TooSoon(x)]_vars

Misled ==
  /\ Stored /\ plan' \notin {Gone, Corrupt} /\ plan'.digest # plan.digest
  /\ plan'.digest \notin named /\ ~back
\* A hand edit never re-bases the fleet: the split goes to another envelope only
\* when its digest was named since the split was seeded, by the seed or by a
\* write that the operator confirmed (or one it gives way to); where no state
\* came back under a call.
RebasedOnlyToNamed == [][~Misled]_vars

Quiet == \A w \in Writes : at[w] \in Idle
TakenForEdit(x) ==
  /\ at[x] = "expected" /\ at'[x] = "idle" /\ told'[x] = "mismatch"
  /\ my[x].digest = official /\ official \in named /\ Quiet
  /\ happened \cap {"edit", "flush", "crash", "faults", "lost", "corrupt"} = {}
\* An envelope that the operator wrote is never taken for a hand edit by the
\* hosts that carry it, once no other write is on its way: a fresh seed alone, of
\* another host, may take its name back.
WrittenIsNoEdit == [][\A x \in Pickups : ~TakenForEdit(x)]_vars

\* A write that did not take puts the expected digest back: when none is on its
\* way it is one that a host's envelope has, unless two files in a row could not
\* be replaced, or a seed took the name back.
ExpectedHasFile ==
  Quiet /\ official \in named /\ expected # None /\ happened \subseteq {"disk", "lapse"} /\ spent <= 1
    => \E h \in Hosts : file[h] = expected
=============================================================================
