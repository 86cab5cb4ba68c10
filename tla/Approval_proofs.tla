--------------------------- MODULE Approval_proofs ---------------------------
(* Proofs about Approval: one job continues with a request, under one decision, *)
(* and a decision that stands is still to be acted on.                          *)
EXTENDS Approval, TLAPS

Phases == {"idle", "add", "find", "policy", "cancel", "decide", "claim", "check", "run", "box",
           "finish", "close", "vouch", "publish"}
RequestOf == [state : {"none", "pending", "decided", "claimed", "finished"},
              decision : {None} \cup Jobs \cup System, job : {None} \cup Jobs]
FoundOf == [request : {None} \cup Askers, decision : {None} \cup Jobs \cup System]

\* The types of everything a step reads.
StoreTyped ==
  /\ request \in [Askers -> RequestOf] /\ target \in {None} \cup Askers
  /\ due \subseteq Timed
PickupTyped ==
  /\ queue \in [Jobs -> {"none", "waiting", "active", "done", "failed"}]
  /\ tries \in [Jobs -> Nat] /\ bound \in [Jobs -> {None} \cup Askers]
  /\ at \in [Jobs -> Phases] /\ found \in [Jobs -> FoundOf]
  /\ asks \in [Jobs -> BOOLEAN] /\ listener \in [Jobs -> {"none", "due", "made"}]
SweepTyped ==
  /\ late \subseteq Timed /\ file \in {"same", "changed", "newer", "unreadable"}
  /\ sweep \in [pc : {"rest", "policy", "cancel", "expire", "add"}, request : {None} \cup Timed]
  /\ sweep.pc # "rest" => sweep.request \in Timed
Typed == StoreTyped /\ PickupTyped /\ SweepTyped

Settled(q) == q.state \in {"claimed", "finished"}

\* A request has a decision from its first one on, and nobody revokes one that
\* is still waited for.
Decisions ==
  \A r \in Askers :
    /\ request[r].state \in {"none", "pending"} <=> request[r].decision = None
    /\ request[r].decision = "revocation" => request[r].state = "finished"

\* A job is active while its pickup works, and a pickup works on the request its
\* job is bound to; the deadline's job is bound to its own and decides nothing.
Named == {First} \cup Replies
Working ==
  \A j \in Jobs :
    /\ queue[j] = "active" <=> at[j] \notin {"idle", "add"}
    /\ at[j] = "add" => queue[j] = "none" /\ j \in Replies
    /\ found[j].request \in {None, bound[j]}
    /\ found[j].request # None => at[j] \notin {"idle", "add", "find"}
    /\ found[j].request = None => at[j] \in {"idle", "add", "find", "policy", "run", "box",
                                             "vouch", "publish"}
    /\ at[j] = "decide" => j \in Named
    /\ asks[j] \/ at[j] \in {"vouch", "publish"} => j \in Askers
Bound == \A r \in Timed : bound[Expiry(r)] \in {None, r}

\* Who works past its claim has claimed the request it found.
Past == {"check", "run", "box", "finish", "close", "vouch", "publish"}
Holder ==
  \A j \in Jobs : LET r == found[j].request IN
    at[j] \in Past /\ r # None => Settled(request[r]) /\ request[r].job = j

\* Every container of a request is of the job that claimed it, under its decision.
Given ==
  \A x \in started :
    /\ x.request \in Askers /\ Settled(request[x.request])
    /\ x.job = request[x.request].job /\ x.decision = request[x.request].decision

ContinueInv == Typed /\ Decisions /\ Working /\ Bound /\ Holder /\ Given

-----------------------------------------------------------------------------
\* What a pickup has read of a decision stays true, and it goes to claim only
\* what is its own.
Own(r, j) == request[r].decision = IF j = Expiry(r) THEN "expiry" ELSE j
Reads(j) ==
  LET f == found[j] IN
    f.request # None =>
      /\ f.decision # None => request[f.request].decision = f.decision
      /\ at[j] = "claim" => Own(f.request, j)
Reading == \A j \in Jobs : Reads(j)

\* A request that waits for its deadline is due, and so is the deadline's decision
\* until its job is there.
Dues ==
  /\ \A r \in Timed :
       /\ request[r].state = "pending" => r \in due
       /\ request[r].state = "decided" /\ request[r].decision = "expiry" => r \in due \cap late
  /\ \A r \in Askers \ Timed : request[r].state = "decided" => request[r].decision # "expiry"
\* The deadline's job comes after a decision, and is bound to its request.
Expiring ==
  /\ \A r \in Timed :
       queue[Expiry(r)] # "none" =>
         bound[Expiry(r)] = r /\ request[r].state \notin {"none", "pending"}
  /\ sweep.pc = "add" => request[sweep.request].state \notin {"none", "pending"}

\* Who has claimed is bound to the request, and is the one who decided.
Claimed(r) ==
  request[r].state = "claimed" =>
    LET j == request[r].job IN j \in Jobs /\ queue[j] # "none" /\ bound[j] = r /\ Own(r, j)
Claimer == \A r \in Askers : Claimed(r)

\* A job of request r that will still look at it.
Onward == {"policy", "cancel", "decide", "claim", "check", "run", "box", "finish", "close"}
Coming(j, r, phases) ==
  \/ queue[j] = "waiting" \/ at[j] = "find"
  \/ /\ at[j] \in phases /\ found[j].request = r
     /\ at[j] = "policy" => found[j].decision = request[r].decision
Calm == happened \cap {"faults", "crashes", "unreadable"} = {}
Claims(r, j) == request[r].state = "claimed" /\ request[r].job = j
Expires(r, j) == request[r].state = "decided" /\ request[r].decision = "expiry" /\ j = Expiry(r)
Decides(r, j) == request[r].state = "decided" /\ request[r].decision = j /\ j # "expiry"
Acted(r) ==
  /\ request[r].state = "claimed" =>
       LET j == request[r].job IN listener[j] = "due" \/ Coming(j, r, Onward)
  /\ request[r].state = "decided" =>
       IF request[r].decision = "expiry"
       THEN queue[Expiry(r)] = "none" \/ Coming(Expiry(r), r, {"policy", "cancel", "claim"})
       ELSE LET j == request[r].decision IN
            j \in Jobs /\ at[j] = "claim" /\ found[j].request = r
\* Past its finish a run holds nothing.
Passed(j) ==
  LET r == found[j].request IN
    at[j] \in {"vouch", "publish"} /\ r # None => request[r].state = "finished"
Over == \A j \in Jobs : Passed(j)
Acting ==
  Calm => file # "unreadable" /\ \A r \in Askers : target = r => Acted(r)

ActInv == ContinueInv /\ Reading /\ Dues /\ Expiring /\ Claimer /\ Over /\ Acting

-----------------------------------------------------------------------------
(* The store.                                                                  *)

Ops == {"decide", "expire", "claim", "finish", "cancel"}

\* What a step may do to a request: nothing, or one move of its life.
Grows(q, w) ==
  /\ q.decision # None => w.decision = q.decision
  /\ Settled(q) => Settled(w) /\ w.job = q.job
  /\ q.state = "finished" => w = q
StoreGrows ==
  /\ StoreTyped' /\ Decisions' /\ \A r \in Askers : Grows(request[r], request'[r])

LEMMA MoveGrows ==
  ASSUME ApprovalAssumption, Typed, Decisions, NEW op \in Ops, NEW r \in Askers, NEW j \in Jobs,
         Move(op, r, j), op = "decide" => j \in Named
  PROVE  StoreGrows
<1>1. CASE ~Changes(op, r, j)
  BY <1>1 DEF Move, store, StoreGrows, Grows, Typed, StoreTyped, Decisions
<1>2. CASE Changes(op, r, j)
  <2>1. /\ request' = [request EXCEPT ![r] = Becomes(op, r, j)]
        /\ target' \in {target, None} /\ due' \subseteq due
    BY <1>2 DEF Move
  <2>2. /\ Becomes(op, r, j) \in RequestOf /\ Grows(request[r], Becomes(op, r, j))
        /\ Becomes(op, r, j).state \notin {"none", "pending"}
        /\ Becomes(op, r, j).decision # None
        /\ Becomes(op, r, j).decision = "revocation" => Becomes(op, r, j).state = "finished"
    <3>1. request[r] \in RequestOf
      BY DEF Typed, StoreTyped
    <3>2. CASE op = "decide"
      BY <1>2, <3>1, <3>2 DEF Changes, Becomes, Undecided, Grows, Settled, Decisions, RequestOf,
         System, ApprovalAssumption, Named
    <3>3. CASE op = "expire"
      BY <1>2, <3>1, <3>3 DEF Changes, Becomes, Undecided, Grows, Settled, Decisions, RequestOf,
         System, ApprovalAssumption
    <3>4. CASE op \in {"claim", "finish", "cancel"}
      BY <1>2, <3>1, <3>4 DEF Changes, Becomes, Grows, Settled, Decisions, RequestOf,
         System, ApprovalAssumption
    <3> QED
      BY <3>2, <3>3, <3>4 DEF Ops
  <2> QED
    BY <2>1, <2>2 DEF StoreGrows, Grows, Settled, Typed, StoreTyped, Decisions
<1> QED
  BY <1>1, <1>2

LEMMA PublishGrows ==
  ASSUME ApprovalAssumption, Typed, Decisions, NEW r \in Askers, Publishes(r)
  PROVE  StoreGrows
<1>1. CASE request[r].state = "none" /\ target = None
  <2>1. /\ request' = [request EXCEPT ![r].state = "pending"] /\ target' = r
        /\ due' = due \cup ({r} \cap Timed)
    BY <1>1 DEF Publishes
  <2>2. request[r] \in RequestOf /\ request[r].decision = None
    BY <1>1 DEF Typed, StoreTyped, Decisions
  <2>3. /\ request' = [request EXCEPT ![r] = [request[r] EXCEPT !.state = "pending"]]
        /\ [request[r] EXCEPT !.state = "pending"] \in RequestOf
        /\ Grows(request[r], [request[r] EXCEPT !.state = "pending"])
    BY <1>1, <2>1, <2>2 DEF Grows, Settled, RequestOf, Typed, StoreTyped
  <2> QED
    BY <2>1, <2>2, <2>3 DEF StoreGrows, Grows, Settled, Typed, StoreTyped, Decisions, RequestOf,
       System, ApprovalAssumption
<1>2. CASE ~(request[r].state = "none" /\ target = None)
  BY <1>2 DEF Publishes, store, StoreGrows, Grows, Typed, StoreTyped, Decisions
<1> QED
  BY <1>1, <1>2

LEMMA SameGrows ==
  ASSUME Typed, Decisions, UNCHANGED store
  PROVE  StoreGrows
BY DEF store, StoreGrows, Grows, Typed, StoreTyped, Decisions

\* A container that was started keeps its job and its decision.
LEMMA GivenKept ==
  ASSUME ContinueInv, StoreGrows, UNCHANGED started
  PROVE  Given'
BY DEF ContinueInv, Given, StoreGrows, Grows, Settled, Decisions, Typed, StoreTyped

-----------------------------------------------------------------------------
(* One pickup: what holds of every job needs a proof for the one that moves.   *)

Works(j) ==
  /\ queue[j] = "active" <=> at[j] \notin {"idle", "add"}
  /\ at[j] = "add" => queue[j] = "none" /\ j \in Replies
  /\ found[j].request \in {None, bound[j]}
  /\ found[j].request # None => at[j] \notin {"idle", "add", "find"}
  /\ found[j].request = None => at[j] \in {"idle", "add", "find", "policy", "run", "box",
                                           "vouch", "publish"}
  /\ at[j] = "decide" => j \in Named
  /\ asks[j] \/ at[j] \in {"vouch", "publish"} => j \in Askers
Holds(j) ==
  LET r == found[j].request IN
    at[j] \in Past /\ r # None => Settled(request[r]) /\ request[r].job = j

LEMMA OneWorks ==
  ASSUME ContinueInv, StoreGrows, NEW j \in Jobs,
         \A k \in Jobs \ {j} : /\ at'[k] = at[k] /\ found'[k] = found[k]
                               /\ bound'[k] = bound[k] /\ queue'[k] = queue[k] /\ asks'[k] = asks[k],
         PickupTyped', SweepTyped', Works(j)', Holds(j)', Bound', Given'
  PROVE  ContinueInv'
<1>1. Typed' /\ Decisions'
  BY DEF StoreGrows, Typed
<1>2. \A k \in Jobs \ {j} : Works(k)'
  BY DEF ContinueInv, Working, Works
<1>3. \A k \in Jobs \ {j} : Holds(k)'
  <2> SUFFICES ASSUME NEW k \in Jobs \ {j}, at[k] \in Past, found[k].request # None
               PROVE  Settled(request'[found[k].request]) /\ request'[found[k].request].job = k
    BY DEF Holds, Settled
  <2>1. found[k].request \in Askers
    BY DEF ContinueInv, Typed, PickupTyped, FoundOf
  <2> QED
    BY <2>1 DEF ContinueInv, Holder, StoreGrows, Grows
<1>4. Working' /\ Holder'
  BY <1>2, <1>3 DEF Working, Works, Holder, Holds
<1> QED
  BY <1>1, <1>4 DEF ContinueInv

\* A pickup that is over.
LEMMA LeavesWell ==
  ASSUME ContinueInv, StoreGrows, NEW j \in Jobs, NEW state \in {"waiting", "done", "failed"},
         Leaves(j, state), UNCHANGED <<late, bound, sweep, started>>,
         UNCHANGED file, tries' \in [Jobs -> Nat], listener' \in [Jobs -> {"none", "due", "made"}]
  PROVE  ContinueInv'
<1>1. PickupTyped' /\ SweepTyped'
  <2>1. Nothing \in FoundOf
    BY DEF Nothing, FoundOf
  <2> QED
    BY <2>1 DEF ContinueInv, Typed, PickupTyped, SweepTyped, Leaves, Phases
<1>2. /\ at'[j] = "idle" /\ queue'[j] = state /\ found'[j].request = None /\ bound'[j] = bound[j]
      /\ asks'[j] = FALSE
  BY DEF Leaves, ContinueInv, Typed, PickupTyped, Nothing
<1>3. Works(j)' /\ Holds(j)'
  BY <1>2 DEF Works, Holds, Past
<1>4. \A k \in Jobs \ {j} : /\ at'[k] = at[k] /\ found'[k] = found[k]
                            /\ bound'[k] = bound[k] /\ queue'[k] = queue[k] /\ asks'[k] = asks[k]
  BY DEF Leaves, ContinueInv, Typed, PickupTyped
<1>5. Given' /\ Bound'
  BY GivenKept DEF ContinueInv, Bound
<1> QED
  BY <1>1, <1>3, <1>4, <1>5, OneWorks

\* A pickup that goes on, with the claim of what it found when it is past its claim.
LEMMA GoesWell ==
  ASSUME ContinueInv, StoreGrows, NEW j \in Jobs, NEW phase \in Phases \ {"idle", "add", "find"},
         at[j] \notin {"idle", "add"}, at' = [at EXCEPT ![j] = phase], UNCHANGED <<queue, found>>,
         asks' \in [Jobs -> BOOLEAN], \A k \in Jobs \ {j} : asks'[k] = asks[k], UNCHANGED <<outside, tries, bound, listener, sweep>>,
         phase = "decide" => j \in Named,
         asks'[j] \/ phase \in {"vouch", "publish"} => j \in Askers,
         found[j].request = None => phase \in {"policy", "run", "box", "vouch", "publish"},
         found[j].request # None /\ phase \in Past =>
           Settled(request'[found[j].request]) /\ request'[found[j].request].job = j,
         Given'
  PROVE  ContinueInv'
<1>1. PickupTyped' /\ SweepTyped'
  BY DEF outside, ContinueInv, Typed, PickupTyped, SweepTyped
<1>2. at'[j] = phase /\ queue'[j] = "active" /\ found'[j] = found[j] /\ bound'[j] = bound[j]
  BY DEF ContinueInv, Typed, PickupTyped, Working
<1>3. Works(j)'
  BY <1>2 DEF ContinueInv, Working, Works
<1>4. Holds(j)'
  BY <1>2 DEF Holds, Settled
<1>5. \A k \in Jobs \ {j} : /\ at'[k] = at[k] /\ found'[k] = found[k]
                            /\ bound'[k] = bound[k] /\ queue'[k] = queue[k] /\ asks'[k] = asks[k]
  BY DEF ContinueInv, Typed, PickupTyped
<1>6. Bound'
  BY DEF ContinueInv, Bound
<1> QED
  BY <1>1, <1>3, <1>4, <1>5, <1>6, OneWorks

-----------------------------------------------------------------------------
(* The steps of a pickup.                                                      *)

\* What a pickup at work has found is the request its job is bound to.
LEMMA AtWork ==
  ASSUME ContinueInv, NEW j \in Jobs
  PROVE  /\ found[j].request \in {None} \cup Askers
         /\ at[j] \notin {"idle", "add"} => queue[j] = "active"
         /\ at[j] \in {"cancel", "decide", "claim", "check", "finish", "close"} =>
              found[j].request \in Askers /\ found[j].request = bound[j]
         /\ at[j] \in Past /\ found[j].request # None =>
              Settled(request[found[j].request]) /\ request[found[j].request].job = j
BY DEF ContinueInv, Typed, PickupTyped, FoundOf, Working, Holder

\* A step that leaves the store, with the pickup over or at its next phase.
LEMMA QuietLeaves ==
  ASSUME ContinueInv, NEW j \in Jobs, NEW phase, Steps(j, phase), UNCHANGED store,
         NEW state \in {"waiting", "done"}, Leaves(j, state)
  PROVE  ContinueInv'
<1>1. StoreGrows
  BY SameGrows DEF ContinueInv
<1> QED
  BY <1>1, LeavesWell DEF Steps, outside, ContinueInv, Typed, PickupTyped
LEMMA QuietGoes ==
  ASSUME ContinueInv, NEW j \in Jobs, NEW phase \in Phases \ {"idle", "add"}, Steps(j, phase), UNCHANGED store,
         NEW next \in Phases \ {"idle", "add", "find"}, Goes(j, next),
         next = "decide" => j \in Named, next \in {"vouch", "publish"} => j \in Askers,
         found[j].request = None => next \in {"policy", "run", "box", "vouch", "publish"},
         found[j].request # None /\ next \in Past => phase \in Past
  PROVE  ContinueInv'
<1>1. StoreGrows
  BY SameGrows DEF ContinueInv
<1>2. Given'
  BY <1>1, GivenKept DEF Steps
<1>3. /\ asks' \in [Jobs -> BOOLEAN] /\ \A k \in Jobs \ {j} : asks'[k] = asks[k]
      /\ asks'[j] => j \in Askers
  BY DEF Goes, ContinueInv, Typed, PickupTyped, Working
<1>4. UNCHANGED request /\ at[j] = phase
  BY DEF store, Steps
<1>5. found[j].request # None /\ next \in Past =>
        Settled(request'[found[j].request]) /\ request'[found[j].request].job = j
  BY <1>4, AtWork
<1>6. /\ at[j] \notin {"idle", "add"} /\ at' = [at EXCEPT ![j] = next] /\ UNCHANGED <<queue, found>>
      /\ UNCHANGED <<outside, tries, bound, listener, sweep>>
  BY DEF Steps, Goes, outside
<1> QED
  BY <1>1, <1>2, <1>3, <1>5, <1>6, GoesWell

LEMMA PickupStep ==
  ASSUME ContinueInv, NEW j \in Jobs, Pickup(j)
  PROVE  ContinueInv'
<1>1. StoreGrows /\ Given'
  BY SameGrows, GivenKept DEF Pickup, ContinueInv
<1>2. PickupTyped' /\ SweepTyped' /\ Bound'
  BY DEF Pickup, outside, ContinueInv, Typed, PickupTyped, SweepTyped, Bound, Phases
<1>3. found[j].request = None
  BY DEF Pickup, ContinueInv, Working
<1>4. Works(j)' /\ Holds(j)'
  BY <1>3 DEF Pickup, Works, Holds, Past, ContinueInv, Typed, PickupTyped, Working
<1>5. \A k \in Jobs \ {j} : /\ at'[k] = at[k] /\ found'[k] = found[k]
                            /\ bound'[k] = bound[k] /\ queue'[k] = queue[k] /\ asks'[k] = asks[k]
  BY DEF Pickup, ContinueInv, Typed, PickupTyped
<1> QED
  BY <1>1, <1>2, <1>4, <1>5, OneWorks

LEMMA FindStep ==
  ASSUME ContinueInv, NEW j \in Jobs, Find(j)
  PROVE  ContinueInv'
<1>1. CASE target # bound[j]
  BY <1>1, QuietLeaves DEF Find, Completes
<1>2. CASE target = bound[j]
  <2> DEFINE f == IF target = None THEN Nothing
                  ELSE [request |-> target, decision |-> request[target].decision]
  <2>1. StoreGrows /\ Given'
    BY SameGrows, GivenKept DEF Find, Steps, ContinueInv
  <2>2. f \in FoundOf /\ f.request \in {None, bound[j]}
    BY <1>2 DEF ContinueInv, Typed, StoreTyped, RequestOf, FoundOf, Nothing
  <2>3. /\ at' = [at EXCEPT ![j] = "policy"] /\ found' = [found EXCEPT ![j] = f]
        /\ UNCHANGED <<queue, asks, late, file, tries, bound, listener, sweep>>
    BY <1>2 DEF Find, Steps, outside
  <2> HIDE DEF f
  <2>4. PickupTyped' /\ SweepTyped' /\ Bound'
    BY <2>2, <2>3 DEF ContinueInv, Typed, PickupTyped, SweepTyped, Bound, Phases
  <2>5. queue'[j] = "active" /\ at'[j] = "policy" /\ found'[j] = f /\ bound'[j] = bound[j]
    BY <2>3, AtWork DEF Find, Steps, ContinueInv, Typed, PickupTyped
  <2>6. Works(j)' /\ Holds(j)'
    BY <2>2, <2>3, <2>5 DEF Works, Holds, Past, ContinueInv, Working
  <2>7. \A k \in Jobs \ {j} : /\ at'[k] = at[k] /\ found'[k] = found[k]
                              /\ bound'[k] = bound[k] /\ queue'[k] = queue[k] /\ asks'[k] = asks[k]
    BY <2>3 DEF ContinueInv, Typed, PickupTyped
  <2> QED
    BY <2>1, <2>4, <2>6, <2>7, OneWorks
<1> QED
  BY <1>1, <1>2

LEMMA PolicyStep ==
  ASSUME ApprovalAssumption, ContinueInv, NEW j \in Jobs, Policy(j)
  PROVE  ContinueInv'
<1>1. Steps(j, "policy") /\ UNCHANGED store /\ "policy" \in Phases \ {"idle", "add"}
  BY DEF Policy, Phases
<1>2. \/ Leaves(j, "waiting") \/ Leaves(j, "done")
      \/ found[j].request # None /\ Goes(j, "cancel")
      \/ found[j].request = None /\ Goes(j, "run")
      \/ /\ found[j].request # None
         /\ \/ j = Expiry(found[j].request) /\ Goes(j, "claim")
            \/ j # Expiry(found[j].request) /\ Goes(j, "decide")
  <2>1. Verdict(j) \in {"same", "changed", "newer", "unreadable"}
    BY DEF Verdict, ContinueInv, Typed, SweepTyped
  <2> QED
    BY <2>1 DEF Policy, Completes
<1>3. found[j].request # None => found[j].request = bound[j]
  BY DEF ContinueInv, Working
<1>4. j \notin Named => \E q \in Timed : j = Expiry(q)
  BY DEF Named, Jobs
<1>5. j # Expiry(found[j].request) /\ found[j].request # None => j \in Named
  BY <1>3, <1>4 DEF ContinueInv, Bound
<1> QED
  BY <1>1, <1>2, <1>5, QuietLeaves, QuietGoes DEF Phases, Past

\* Who is told that it claims a request is the one the claim names.
LEMMA ClaimHolds ==
  ASSUME Typed, NEW r \in Askers, NEW j \in Jobs, Move("claim", r, j), Ok("claim", r, j)
  PROVE  Settled(request'[r]) /\ request'[r].job = j
<1>1. request[r] \in RequestOf
  BY DEF Typed, StoreTyped
<1>2. CASE Changes("claim", r, j)
  <2>1. Becomes("claim", r, j) = [request[r] EXCEPT !.state = "claimed", !.job = j]
    BY DEF Becomes
  <2>2. Becomes("claim", r, j).state = "claimed" /\ Becomes("claim", r, j).job = j
    BY <1>1, <2>1 DEF RequestOf
  <2>3. request'[r] = Becomes("claim", r, j)
    BY <1>2 DEF Move, Typed, StoreTyped
  <2> QED
    BY <2>2, <2>3 DEF Settled
<1>3. CASE ~Changes("claim", r, j)
  BY <1>3 DEF Move, Ok, Repeats, Settled, store
<1> QED
  BY <1>2, <1>3

LEMMA PastKept ==
  ASSUME ContinueInv, StoreGrows, NEW j \in Jobs, at[j] \in Past, found[j].request # None
  PROVE  Settled(request'[found[j].request]) /\ request'[found[j].request].job = j
<1>1. found[j].request \in Askers
  BY AtWork
<1> QED
  BY <1>1, AtWork DEF StoreGrows, Grows

\* A step of j's pickup, whatever luck it notes.
Moves(j, phase) ==
  /\ at[j] = phase /\ UNCHANGED <<outside, tries, bound, listener, sweep, started>>
LEMMA StepsMoves ==
  ASSUME NEW j, NEW phase, Steps(j, phase)
  PROVE  Moves(j, phase)
BY DEF Steps, Moves

\* A step that moves the store and ends the pickup, or goes on under its claim.
LEMMA MovedLeaves ==
  ASSUME ContinueInv, StoreGrows, NEW j \in Jobs, NEW phase, Moves(j, phase), Completes(j)
  PROVE  ContinueInv'
BY LeavesWell DEF Moves, Completes, outside, ContinueInv, Typed, PickupTyped
LEMMA MovedGoes ==
  ASSUME ContinueInv, StoreGrows, NEW j \in Jobs, NEW phase \in Phases \ {"idle", "add"},
         Moves(j, phase), NEW next \in Phases \ {"idle", "add", "find", "decide"}, Goes(j, next),
         next \in {"vouch", "publish"} => j \in Askers,
         found[j].request # None \/ next \in {"run", "box", "vouch", "publish"},
         found[j].request # None /\ next \in Past =>
           Settled(request'[found[j].request]) /\ request'[found[j].request].job = j
  PROVE  ContinueInv'
<1>1. Given'
  BY GivenKept DEF Moves
<1>2. /\ asks' \in [Jobs -> BOOLEAN] /\ \A k \in Jobs \ {j} : asks'[k] = asks[k]
      /\ asks'[j] => j \in Askers
  BY DEF Goes, ContinueInv, Typed, PickupTyped, Working
<1>3. /\ at[j] \notin {"idle", "add"} /\ at' = [at EXCEPT ![j] = next] /\ UNCHANGED <<queue, found>>
      /\ UNCHANGED <<outside, tries, bound, listener, sweep>>
  BY DEF Moves, Goes
<1> QED
  BY <1>1, <1>2, <1>3, GoesWell

LEMMA CancelStep ==
  ASSUME ApprovalAssumption, ContinueInv, NEW j \in Jobs, Cancel(j)
  PROVE  ContinueInv'
<1>1. StoreGrows
  BY AtWork, MoveGrows DEF Cancel, Steps, ContinueInv, Ops
<1> QED
  BY <1>1, StepsMoves, MovedLeaves DEF Cancel
LEMMA DecideStep ==
  ASSUME ApprovalAssumption, ContinueInv, NEW j \in Jobs, Decide(j)
  PROVE  ContinueInv'
<1>1. found[j].request \in Askers /\ j \in Named /\ Steps(j, "decide")
  BY AtWork DEF Decide, Steps, ContinueInv, Working
<1>2. StoreGrows
  BY <1>1, MoveGrows DEF Decide, ContinueInv, Ops
<1>3. found[j].request # None
  BY <1>1, AtWork DEF Steps, ContinueInv, Working
<1>4. Goes(j, "claim") \/ Completes(j)
  BY DEF Decide
<1> QED
  BY <1>1, <1>2, <1>3, <1>4, StepsMoves, MovedLeaves, MovedGoes DEF Phases, Past
LEMMA ClaimStep ==
  ASSUME ApprovalAssumption, ContinueInv, NEW j \in Jobs, Claim(j)
  PROVE  ContinueInv'
<1>1. found[j].request \in Askers /\ Steps(j, "claim") /\ Move("claim", found[j].request, j)
  BY AtWork DEF Claim, Steps
<1>2. StoreGrows
  BY <1>1, MoveGrows DEF ContinueInv, Ops
<1>3. found[j].request # None
  BY <1>1 DEF Steps, ContinueInv, Working
<1>4. CASE Ok("claim", found[j].request, j)
  <2>1. Goes(j, "check")
    BY <1>4 DEF Claim
  <2> QED
    BY <1>1, <1>2, <1>3, <1>4, <2>1, ClaimHolds, StepsMoves, MovedGoes DEF Phases, ContinueInv
<1>5. CASE ~Ok("claim", found[j].request, j)
  BY <1>1, <1>2, <1>5, StepsMoves, MovedLeaves DEF Claim
<1> QED
  BY <1>4, <1>5

LEMMA RefusesStep ==
  ASSUME ContinueInv, NEW j \in Jobs, NEW phase \in Past, Moves(j, phase), StoreGrows, Refuses(j)
  PROVE  ContinueInv'
<1>1. CASE found[j].request = None
  BY <1>1, MovedLeaves DEF Refuses
<1>2. CASE found[j].request # None
  <2>1. Goes(j, "close") /\ at[j] \in Past
    BY <1>2 DEF Refuses, Moves
  <2> QED
    BY <1>2, <2>1, PastKept, MovedGoes DEF Phases, Past
<1> QED
  BY <1>1, <1>2

LEMMA RunStep ==
  ASSUME ContinueInv, NEW j \in Jobs,
         Check(j) \/ Refuse(j) \/ Defer(j) \/ ExitPolicy(j) \/ Vouch(j)
  PROVE  ContinueInv'
<1> USE DEF Past, Phases
<1>1. CASE Check(j)
  <2>1. found[j].request # None
    BY <1>1 DEF Check, Steps, ContinueInv, Working
  <2> QED
    BY <1>1, <2>1, QuietGoes DEF Check
<1>2. CASE Refuse(j)
  BY <1>2, SameGrows, StepsMoves, RefusesStep DEF Refuse, ContinueInv
<1>3. CASE Defer(j)
  BY <1>3, QuietLeaves DEF Defer
<1>4. CASE ExitPolicy(j)
  BY <1>4, SameGrows, StepsMoves, RefusesStep DEF ExitPolicy, ContinueInv
<1>5. CASE Vouch(j)
  <2>1. CASE Goes(j, "publish")
    BY <1>5, <2>1, QuietGoes DEF Vouch, Steps, ContinueInv, Working
  <2>2. CASE Refuses(j)
    BY <1>5, <2>2, SameGrows, StepsMoves, RefusesStep DEF Vouch, ContinueInv
  <2> QED
    BY <1>5, <2>1, <2>2 DEF Vouch
<1> QED
  BY <1>1, <1>2, <1>3, <1>4, <1>5

\* The container is given what its job claimed.
LEMMA StartStep ==
  ASSUME ContinueInv, NEW j \in Jobs, Start(j)
  PROVE  ContinueInv'
<1> DEFINE r == found[j].request
<1>1. StoreGrows /\ UNCHANGED request
  BY SameGrows DEF Start, store, ContinueInv
<1>2. r # None => r \in Askers /\ Settled(request[r]) /\ request[r].job = j
  BY AtWork DEF Start, Past
<1>3. \A x \in started' :
        \/ x \in started
        \/ r # None /\ x = [job |-> j, request |-> r, decision |-> request[r].decision]
  BY DEF Start
<1>4. Given'
  BY <1>1, <1>2, <1>3 DEF ContinueInv, Given, Settled
<1>5. /\ at[j] \notin {"idle", "add"} /\ at' = [at EXCEPT ![j] = "box"] /\ UNCHANGED <<queue, found>>
      /\ UNCHANGED <<outside, tries, bound, listener, sweep>> /\ asks' \in [Jobs -> BOOLEAN]
      /\ UNCHANGED asks /\ (asks[j] => j \in Askers)
  BY DEF Start, Goes, ContinueInv, Typed, PickupTyped, Working
<1>6. "box" \in Phases \ {"idle", "add", "find", "decide"}
  BY DEF Phases
<1>7. r # None => Settled(request'[r]) /\ request'[r].job = j
  BY <1>1, <1>2
<1> QED
  BY <1>1, <1>4, <1>5, <1>6, <1>7, GoesWell

LEMMA ExitStep ==
  ASSUME ContinueInv, NEW j \in Jobs, NEW asking \in BOOLEAN, Exit(j, asking)
  PROVE  ContinueInv'
<1> DEFINE next == IF found[j].request = None THEN "vouch" ELSE "finish"
<1>1. CASE found[j].request = None /\ ~asking
  BY <1>1, QuietLeaves DEF Exit, Completes
<1>2. CASE ~(found[j].request = None /\ ~asking)
  <2>1. /\ Steps(j, "box") /\ UNCHANGED store /\ at' = [at EXCEPT ![j] = next]
        /\ asks' = [asks EXCEPT ![j] = asking] /\ UNCHANGED <<queue, found>>
    BY <1>2 DEF Exit
  <2>2. StoreGrows /\ Given'
    BY <2>1, SameGrows, GivenKept DEF Steps, ContinueInv
  <2>3. /\ asks' \in [Jobs -> BOOLEAN] /\ at[j] = "box"
        /\ \A k \in Jobs \ {j} : asks'[k] = asks[k]
        /\ asks'[j] = asking
    BY <2>1 DEF Steps, ContinueInv, Typed, PickupTyped
  <2>7. next = "vouch" \/ asking => j \in Askers
    BY <1>2 DEF Exit
  <2>4. next \in Phases \ {"idle", "add", "find", "decide"}
    BY DEF Phases
  <2>5. UNCHANGED <<outside, tries, bound, listener, sweep>>
    BY <2>1 DEF Steps
  <2>6. found[j].request # None =>
          Settled(request'[found[j].request]) /\ request'[found[j].request].job = j
    BY <2>2, <2>3, PastKept DEF Past
  <2> QED
    BY <2>1, <2>2, <2>3, <2>4, <2>5, <2>6, <2>7, GoesWell
<1> QED
  BY <1>1, <1>2

LEMMA EndStep ==
  ASSUME ApprovalAssumption, ContinueInv, NEW j \in Jobs, Finish(j) \/ Close(j)
  PROVE  ContinueInv'
<1>1. /\ at[j] \in {"finish", "close"} /\ Steps(j, at[j])
      /\ Move("finish", found[j].request, j)
  BY DEF Finish, Close, Steps
<1>2. found[j].request \in Askers /\ found[j].request # None
  BY <1>1, AtWork DEF ContinueInv, Working
<1>3. StoreGrows
  BY <1>1, <1>2, MoveGrows DEF ContinueInv, Ops
<1>4. Completes(j) \/ Goes(j, "close") \/ (Goes(j, "vouch") /\ j \in Askers)
  BY DEF Finish, Close, ContinueInv, Working
<1> QED
  BY <1>1, <1>2, <1>3, <1>4, PastKept, StepsMoves, MovedGoes, MovedLeaves DEF Past, Phases

LEMMA PublishStep ==
  ASSUME ApprovalAssumption, ContinueInv, NEW j \in Jobs, Publish(j)
  PROVE  ContinueInv'
<1>1. StoreGrows
  BY PublishGrows DEF Publish, Steps, ContinueInv, Working
<1> QED
  BY <1>1, StepsMoves, MovedLeaves, RefusesStep DEF Publish, Past

-----------------------------------------------------------------------------
(* Failures, the listener, the sweep and what happens around them.             *)

LEMMA ThrowsStep ==
  ASSUME ContinueInv, NEW j \in Jobs, StoreGrows, Throws(j),
         UNCHANGED <<outside, bound, sweep, started>>
  PROVE  ContinueInv'
<1>1. Leaves(j, "waiting") \/ Leaves(j, "failed")
  BY DEF Throws
<1>2. tries' \in [Jobs -> Nat] /\ listener' \in [Jobs -> {"none", "due", "made"}]
  BY DEF Throws, ContinueInv, Typed, PickupTyped
<1> QED
  BY <1>1, <1>2, LeavesWell DEF outside

\* A command with no answer either ran or did not.
LEMMA UnansweredStep ==
  ASSUME ApprovalAssumption, ContinueInv, NEW j \in Jobs, Unanswered(j)
  PROVE  ContinueInv'
<1>1. StoreGrows
  <2>1. CASE UNCHANGED store
    BY <2>1, SameGrows DEF ContinueInv
  <2>2. CASE at[j] \in DOMAIN Operation /\ Move(Operation[at[j]], found[j].request, j)
    <3>1. /\ at[j] \in {"cancel", "decide", "claim", "finish", "close"} /\ Operation[at[j]] \in Ops
          /\ Operation[at[j]] = "decide" => j \in Named
      BY <2>2 DEF Operation, Ops, ContinueInv, Working
    <3>2. found[j].request \in Askers
      BY <3>1, AtWork
    <3> QED
      BY <2>2, <3>1, <3>2, MoveGrows DEF ContinueInv
  <2>3. CASE at[j] = "publish" /\ Publishes(j)
    BY <2>3, PublishGrows DEF ContinueInv, Working
  <2> QED
    BY <2>1, <2>2, <2>3 DEF Unanswered
<1>2. CASE Throws(j)
  BY <1>1, <1>2, ThrowsStep DEF Unanswered
<1>3. CASE /\ UNCHANGED <<tries, listener>>
           /\ \/ at[j] = "finish" /\ Goes(j, "close")
              \/ at[j] = "close" /\ Completes(j)
              \/ at[j] = "publish" /\ Refuses(j)
  <2>1. Moves(j, at[j]) /\ at[j] \in Past /\ at[j] \in Phases \ {"idle", "add"}
    BY <1>3 DEF Unanswered, Moves, Past, Phases
  <2>2. CASE at[j] = "finish" /\ Goes(j, "close")
    <3>1. found[j].request # None
      BY <2>2 DEF ContinueInv, Working
    <3> QED
      BY <1>1, <2>1, <2>2, <3>1, PastKept, MovedGoes DEF Phases
  <2> QED
    BY <1>1, <1>3, <2>1, <2>2, MovedLeaves, RefusesStep
<1> QED
  BY <1>2, <1>3 DEF Unanswered

\* A step that leaves every pickup where it is.
LEMMA AwayStep ==
  ASSUME ContinueInv, StoreGrows, SweepTyped', UNCHANGED <<at, found, asks, started>>,
         queue' \in [Jobs -> {"none", "waiting", "active", "done", "failed"}],
         tries' \in [Jobs -> Nat], bound' \in [Jobs -> {None} \cup Askers],
         listener' \in [Jobs -> {"none", "due", "made"}], Bound',
         \A k \in Jobs : \/ bound'[k] = bound[k] /\ queue'[k] = queue[k]
                         \/ at[k] = "idle" /\ queue'[k] # "active" /\ queue[k] # "active"
  PROVE  ContinueInv'
<1>1. Typed' /\ Decisions' /\ Given'
  BY GivenKept DEF StoreGrows, Typed, PickupTyped, ContinueInv
<1>2. Working'
  <2> SUFFICES ASSUME NEW k \in Jobs PROVE Works(k)'
    BY DEF Working, Works
  <2> QED
    BY DEF ContinueInv, Working, Works
<1>3. Holder'
  <2> SUFFICES ASSUME NEW k \in Jobs PROVE Holds(k)'
    BY DEF Holder, Holds
  <2> QED
    BY PastKept DEF Holds
<1> QED
  BY <1>1, <1>2, <1>3 DEF ContinueInv

LEMMA AddStep ==
  ASSUME ApprovalAssumption, ContinueInv, NEW c \in Replies, Look(c) \/ Add(c)
  PROVE  ContinueInv'
<1>1. StoreGrows /\ Given' /\ c \in Jobs
  BY SameGrows, GivenKept DEF Look, Add, ContinueInv, Jobs
<1>2. bound' \in [Jobs -> {None} \cup Askers] /\ \A k \in Jobs \ {c} : bound'[k] = bound[k]
  BY DEF Look, Add, ContinueInv, Typed, PickupTyped, StoreTyped
<1>3. Bound'
  <2>1. \A r \in Timed : Expiry(r) \in Jobs \ {c}
    BY DEF ApprovalAssumption, Jobs
  <2> QED
    BY <1>2, <2>1 DEF Bound, ContinueInv
<1>4. PickupTyped' /\ SweepTyped'
  BY <1>1, <1>2 DEF Look, Add, outside, ContinueInv, Typed, PickupTyped, SweepTyped, Phases
<1>5. at[c] \in {"idle", "add"} /\ queue[c] = "none" /\ found[c].request = None
  BY <1>1 DEF Look, Add, ContinueInv, Working
<1>6. Works(c)' /\ Holds(c)'
  BY <1>1, <1>5 DEF Look, Add, Works, Holds, Past, ContinueInv, Working, Typed, PickupTyped
<1>7. \A k \in Jobs \ {c} : /\ at'[k] = at[k] /\ found'[k] = found[k]
                            /\ bound'[k] = bound[k] /\ queue'[k] = queue[k] /\ asks'[k] = asks[k]
  BY <1>1, <1>2 DEF Look, Add, ContinueInv, Typed, PickupTyped
<1> QED
  BY <1>1, <1>3, <1>4, <1>6, <1>7, OneWorks

LEMMA ListenStep ==
  ASSUME ApprovalAssumption, ContinueInv, NEW j \in Jobs, Listen(j)
  PROVE  ContinueInv'
<1>1. StoreGrows
  <2>1. CASE UNCHANGED store
    BY <2>1, SameGrows DEF ContinueInv
  <2>2. CASE bound[j] # None /\ Move("finish", bound[j], j)
    BY <2>2, MoveGrows DEF ContinueInv, Typed, PickupTyped, Ops
  <2> QED
    BY <2>1, <2>2 DEF Listen
<1>2. /\ UNCHANGED <<outside, queue, tries, bound, at, found, asks, sweep, started>>
      /\ listener' \in [Jobs -> {"none", "due", "made"}]
  BY DEF Listen, ContinueInv, Typed, PickupTyped
<1> QED
  BY <1>1, <1>2, AwayStep DEF outside, ContinueInv, Typed, PickupTyped, SweepTyped, Bound

LEMMA RetryStep ==
  ASSUME ContinueInv, NEW j \in Jobs, ConsoleRetry(j)
  PROVE  ContinueInv'
<1>1. StoreGrows
  BY SameGrows DEF ConsoleRetry, ContinueInv
<1>2. at[j] \in {"idle", "add"} /\ at[j] # "add"
  BY DEF ConsoleRetry, ContinueInv, Working
<1> QED
  BY <1>1, <1>2, AwayStep DEF ConsoleRetry, outside, ContinueInv, Typed, PickupTyped, SweepTyped, Bound

\* Each request has an id of its own for its deadline's job.
LEMMA ExpiryApart == ASSUME NEW a, NEW b, Expiry(a) = Expiry(b) PROVE a = b
BY DEF Expiry

LEMMA SweepStep ==
  ASSUME ApprovalAssumption, ContinueInv,
         SweepPolicy \/ SweepCancel \/ SweepExpire \/ SweepAdd \/ SweepFails
           \/ \E r \in Askers : SweepLook(r)
  PROVE  ContinueInv'
<1> DEFINE r == sweep.request
<1>1. UNCHANGED <<outside, tries, at, found, asks, listener, started>>
  BY DEF SweepPolicy, SweepCancel, SweepExpire, SweepAdd, SweepFails, SweepLook, Sweeping
<1>2. SweepTyped'
  BY DEF SweepPolicy, SweepCancel, SweepExpire, SweepAdd, SweepFails, SweepLook, Sweeping, outside,
     Resting, ContinueInv, Typed, SweepTyped
<1>3. sweep.pc # "rest" => r \in Timed /\ r \in Askers /\ Expiry(r) \in Jobs
  BY DEF ContinueInv, Typed, SweepTyped, Jobs, ApprovalAssumption
<1>4. StoreGrows
  <2>1. CASE UNCHANGED store
    BY <2>1, SameGrows DEF ContinueInv
  <2>2. CASE sweep.pc # "rest" /\ \E op \in {"cancel", "expire"} : Move(op, r, Expiry(r))
    BY <1>3, <2>2, MoveGrows DEF ContinueInv, Ops
  <2> QED
    BY <2>1, <2>2 DEF SweepPolicy, SweepCancel, SweepExpire, SweepAdd, SweepFails, SweepLook, Sweeping
<1>5. UNCHANGED <<queue, bound>> \/ (sweep.pc = "add" /\ ExpiryJob(r))
  BY DEF SweepPolicy, SweepCancel, SweepExpire, SweepAdd, SweepFails, SweepLook, Sweeping
<1>6. CASE UNCHANGED <<queue, bound>>
  BY <1>1, <1>2, <1>4, <1>6, AwayStep DEF ContinueInv, Typed, PickupTyped, Bound
<1>7. CASE sweep.pc = "add" /\ queue[Expiry(r)] = "none" /\ ExpiryJob(r)
  <2>1. /\ queue' = [queue EXCEPT ![Expiry(r)] = "waiting"]
        /\ bound' = [bound EXCEPT ![Expiry(r)] = r]
    BY <1>7 DEF ExpiryJob
  <2>2. r \in Timed /\ r \in Askers /\ Expiry(r) \in Jobs
    BY <1>3, <1>7
  <2>3. at[Expiry(r)] = "idle"
    BY <1>7, <2>2 DEF ContinueInv, Working, ApprovalAssumption, Typed, PickupTyped, Phases
  <2>4. Bound'
    BY <2>1, <2>2, ExpiryApart DEF ContinueInv, Bound, Typed, PickupTyped
  <2>5. /\ queue' \in [Jobs -> {"none", "waiting", "active", "done", "failed"}]
        /\ bound' \in [Jobs -> {None} \cup Askers]
        /\ \A k \in Jobs : \/ bound'[k] = bound[k] /\ queue'[k] = queue[k]
                           \/ at[k] = "idle" /\ queue'[k] # "active" /\ queue[k] # "active"
    BY <1>7, <2>1, <2>2, <2>3 DEF ContinueInv, Typed, PickupTyped
  <2> QED
    BY <1>1, <1>2, <1>4, <2>4, <2>5, AwayStep DEF ContinueInv, Typed, PickupTyped
<1> QED
  BY <1>5, <1>6, <1>7 DEF ExpiryJob

LEMMA OutsideStep ==
  ASSUME ApprovalAssumption, ContinueInv,
         \/ \E r \in Askers : DeadlinePasses(r)
         \/ \E to \in {"same", "changed", "newer", "unreadable"} : Edit(to)
  PROVE  ContinueInv'
<1>1. UNCHANGED <<store, pickup, sweep, started>> /\ StoreGrows
  BY SameGrows DEF DeadlinePasses, Edit, ContinueInv
<1>2. SweepTyped'
  BY DEF DeadlinePasses, Edit, ContinueInv, Typed, SweepTyped
<1> QED
  BY <1>1, <1>2, AwayStep DEF pickup, ContinueInv, Typed, PickupTyped, Bound

LEMMA CrashStep ==
  ASSUME ContinueInv, Crash
  PROVE  ContinueInv'
<1>1. StoreGrows /\ Given'
  BY SameGrows, GivenKept DEF Crash, ContinueInv
<1>2. Nothing \in FoundOf /\ Nothing.request = None
  BY DEF Nothing, FoundOf
<1>3. PickupTyped' /\ SweepTyped' /\ Bound'
  BY <1>2 DEF Crash, outside, Resting, ContinueInv, Typed, PickupTyped, SweepTyped, Bound, Phases
<1>4. Working'
  <2> SUFFICES ASSUME NEW k \in Jobs PROVE Works(k)'
    BY DEF Working, Works
  <2> QED
    BY <1>2 DEF Crash, ContinueInv, Typed, PickupTyped, Working, Works, Phases
<1>5. Holder'
  BY <1>2 DEF Crash, Holder
<1> QED
  BY <1>1, <1>3, <1>4, <1>5 DEF ContinueInv, Typed, StoreGrows

-----------------------------------------------------------------------------
(* One continuation.                                                           *)

LEMMA ContinueInit ==
  ASSUME ApprovalAssumption, Init
  PROVE  ContinueInv
<1>1. Typed
  BY DEF ApprovalAssumption, Init, Typed, StoreTyped, PickupTyped, SweepTyped, RequestOf, FoundOf,
     Unasked, Nothing, Resting, Phases
<1>2. Decisions /\ Working /\ Bound /\ Holder /\ Given
  BY DEF ApprovalAssumption, Init, Decisions, Working, Bound, Holder, Given, Unasked, Nothing, Jobs,
     Past, System
<1> QED
  BY <1>1, <1>2 DEF ContinueInv

LEMMA ContinueKept ==
  ASSUME ApprovalAssumption, ContinueInv, [Next]_vars
  PROVE  ContinueInv'
<1>1. CASE Next
  BY <1>1, AddStep, PickupStep, FindStep, PolicyStep, CancelStep, DecideStep, ClaimStep, RunStep,
     StartStep, ExitStep, EndStep, PublishStep, UnansweredStep, ListenStep, RetryStep, SweepStep,
     OutsideStep, CrashStep, ThrowsStep, SameGrows DEF Next, Fails, ContinueInv
<1>2. CASE UNCHANGED vars
  <2>1. StoreGrows /\ UNCHANGED <<store, pickup, outside, sweep, started>>
    BY <1>2, SameGrows DEF vars, ContinueInv
  <2> QED
    BY <2>1, AwayStep DEF pickup, outside, ContinueInv, Typed, PickupTyped, SweepTyped, Bound
<1> QED
  BY <1>1, <1>2

\* Whatever answers a request, in any order, with retries, faults and deaths: one
\* job continues with it, and all its containers are given the decision that stands.
THEOREM OneContinuationHolds ==
  ASSUME ApprovalAssumption
  PROVE  Spec => []OneContinuation
<1>1. ContinueInv => OneContinuation
  BY DEF ContinueInv, Given, OneContinuation
<1> QED
  BY <1>1, ContinueInit, ContinueKept, PTL DEF Spec

-----------------------------------------------------------------------------
(* A decision that stands is acted on: the store.                              *)

\* Who is no deadline's job has no name of the system's.
LEMMA NamedApart ==
  ASSUME ApprovalAssumption, NEW j \in Named
  PROVE  j # "expiry" /\ j # None /\ j \notin System /\ \A r \in Askers : j # Expiry(r)
BY DEF ApprovalAssumption, Named, System

\* Who is bound to a request is its deadline's job or no deadline's.
LEMMA Whose ==
  ASSUME ContinueInv, NEW r \in Askers, NEW j \in Jobs, bound[j] = r, r # None
  PROVE  j = Expiry(r) \/ j \in Named
<1>1. j \notin Named => \E q \in Timed : j = Expiry(q)
  BY DEF Named, Jobs
<1> QED
  BY <1>1 DEF ContinueInv, Bound

LEMMA MoveDues ==
  ASSUME ApprovalAssumption, Typed, Decisions, Dues, NEW op \in Ops, NEW r \in Askers, NEW j \in Jobs,
         Move(op, r, j), op = "decide" => j \in Named, UNCHANGED late
  PROVE  Dues'
<1>1. CASE ~Changes(op, r, j)
  BY <1>1 DEF Move, store, Dues
<1>2. CASE Changes(op, r, j)
  <2>1. /\ request' = [request EXCEPT ![r] = Becomes(op, r, j)]
        /\ due' = IF LeavesDue(op, r) THEN due \ {r} ELSE due
    BY <1>2 DEF Move
  <2>2. /\ request'[r] = Becomes(op, r, j) /\ \A q \in Askers \ {r} : request'[q] = request[q]
        /\ \A q \in Timed \ {r} : q \in due => q \in due'
    BY <2>1 DEF Typed, StoreTyped
  <2>3. request[r] \in RequestOf
    BY DEF Typed, StoreTyped
  <2>4. /\ request'[r].state # "pending"
        /\ request'[r].state = "decided" /\ request'[r].decision = "expiry" =>
             r \in late /\ (r \in due => r \in due') /\ request[r].state = "pending"
    <3>1. CASE op = "decide"
      <4>1. request[r].state = "pending"
        BY <1>2, <3>1 DEF Changes, Undecided
      <4>2. Becomes(op, r, j) = [request[r] EXCEPT !.state = "decided",
                                   !.decision = IF r \in late THEN "expiry" ELSE j]
        BY <3>1 DEF Becomes
      <4>3. /\ request'[r].state = "decided"
            /\ request'[r].decision = IF r \in late THEN "expiry" ELSE j
        BY <2>2, <2>3, <4>2 DEF RequestOf
      <4>4. r \in late => due' = due
        BY <2>1, <3>1 DEF LeavesDue
      <4> QED
        BY <3>1, <4>1, <4>3, <4>4, NamedApart
    <3>2. CASE op = "expire"
      <4>1. request[r].state = "pending" /\ r \in late
        BY <1>2, <3>2 DEF Changes, Undecided
      <4>2. Becomes(op, r, j) = [request[r] EXCEPT !.state = "decided", !.decision = "expiry"]
        BY <3>2, <4>1 DEF Becomes
      <4>3. request'[r].state = "decided" /\ request'[r].decision = "expiry"
        BY <2>2, <2>3, <4>2 DEF RequestOf
      <4>4. due' = due
        BY <2>1, <3>2 DEF LeavesDue
      <4> QED
        BY <4>1, <4>3, <4>4
    <3>3. CASE op \in {"claim", "finish", "cancel"}
      <4>1. Becomes(op, r, j).state \in {"claimed", "finished"}
        BY <2>3, <3>3 DEF Becomes, RequestOf
      <4> QED
        BY <2>2, <4>1
    <3> QED
      BY <3>1, <3>2, <3>3 DEF Ops
  <2>5. late \subseteq Timed /\ Timed \subseteq Askers
    BY DEF Typed, SweepTyped, ApprovalAssumption
  <2> QED
    BY <2>2, <2>4, <2>5 DEF Dues
<1> QED
  BY <1>1, <1>2

LEMMA PublishDues ==
  ASSUME Typed, Dues, ApprovalAssumption, NEW r \in Askers, Publishes(r), UNCHANGED late
  PROVE  Dues'
<1>1. CASE request[r].state = "none" /\ target = None
  <2>1. /\ request' = [request EXCEPT ![r].state = "pending"] /\ due' = due \cup ({r} \cap Timed)
    BY <1>1 DEF Publishes
  <2>2. /\ request'[r].state = "pending" /\ \A q \in Askers \ {r} : request'[q] = request[q]
        /\ r \in Timed => r \in due'
    BY <2>1 DEF Typed, StoreTyped, RequestOf
  <2> QED
    BY <2>1, <2>2 DEF Dues, ApprovalAssumption
<1>2. CASE ~(request[r].state = "none" /\ target = None)
  BY <1>2 DEF Publishes, store, Dues
<1> QED
  BY <1>1, <1>2

\* The jobs that are there stay, with what they are bound to.
Lasting == \A k \in Jobs : queue[k] # "none" => queue'[k] # "none" /\ bound'[k] = bound[k]

\* Nobody claims but by a claim.
LEMMA MoveClaims ==
  ASSUME Typed, Decisions, Claimer, NEW op \in Ops, NEW r \in Askers, NEW j \in Jobs,
         Move(op, r, j), StoreGrows, Lasting,
         op = "claim" => queue[j] # "none" /\ bound[j] = r /\ Own(r, j)
  PROVE  Claimer'
<1> SUFFICES ASSUME NEW q \in Askers, request'[q].state = "claimed"
             PROVE  Claimed(q)'
  BY DEF Claimer, Claimed
<1>1. CASE request[q].state = "claimed"
  <2>1. request'[q].job = request[q].job /\ request'[q].decision = request[q].decision
    BY <1>1 DEF StoreGrows, Grows, Settled, Decisions
  <2> QED
    BY <1>1, <2>1 DEF Claimer, Claimed, Own, Lasting
<1>2. CASE request[q].state # "claimed"
  <2>1. Changes(op, r, j) /\ q = r
    BY <1>2 DEF Move, store, Typed, StoreTyped
  <2>2. request'[r] = Becomes(op, r, j) /\ request[r] \in RequestOf
    BY <2>1 DEF Move, Typed, StoreTyped
  <2>3. op = "claim" /\ request'[r].job = j /\ request'[r].decision = request[r].decision
    BY <2>1, <2>2 DEF Becomes, RequestOf, Ops
  <2> QED
    BY <2>1, <2>3 DEF Claimed, Own, Lasting
<1> QED
  BY <1>1, <1>2
LEMMA PublishClaims ==
  ASSUME Typed, Decisions, Claimer, NEW r \in Askers, Publishes(r), StoreGrows, Lasting
  PROVE  Claimer'
<1>1. \A q \in Askers : request'[q] = request[q] \/ request'[q].state = "pending"
  BY DEF Publishes, store, Typed, StoreTyped, RequestOf
<1> QED
  BY <1>1 DEF Claimer, Claimed, Own, Lasting
LEMMA SameStore ==
  ASSUME ApprovalAssumption, Dues, Claimer, UNCHANGED store, late \subseteq late', Lasting
  PROVE  Dues' /\ Claimer'
<1>1. Dues'
  BY DEF store, Dues
<1>2. Claimer'
  BY DEF store, Claimer, Claimed, Own, Lasting
<1> QED
  BY <1>1, <1>2

\* What becomes of the request a target waits for.
LEMMA MoveTarget ==
  ASSUME ApprovalAssumption, Typed, NEW op \in Ops, NEW r \in Askers, NEW j \in Jobs, Move(op, r, j),
         NEW t \in Askers, target' = t
  PROVE  /\ target = t
         /\ \/ request'[t] = request[t] /\ (t = r => ~Changes(op, r, j))
            \/ /\ t = r /\ op \in {"decide", "expire", "claim"} /\ Changes(op, r, j)
               /\ request'[t] = Becomes(op, r, j)
<1>1. t # None
  BY DEF ApprovalAssumption
<1>2. CASE ~Changes(op, r, j)
  BY <1>2 DEF Move, store
<1>3. CASE Changes(op, r, j)
  <2>1. op \notin {"finish", "cancel"}
    BY <1>1, <1>3 DEF Move
  <2>2. target = t /\ t = r /\ request'[t] = Becomes(op, r, j)
    BY <1>3, <2>1 DEF Move, Changes, Typed, StoreTyped
  <2> QED
    BY <1>3, <2>1, <2>2 DEF Ops
<1> QED
  BY <1>2, <1>3

-----------------------------------------------------------------------------
(* A decision that stands is acted on: one job's step.                         *)

\* A step of one job: the others are where they were.
Apart(j) ==
  \A k \in Jobs \ {j} : /\ at'[k] = at[k] /\ found'[k] = found[k]
                        /\ queue'[k] = queue[k] /\ listener'[k] = listener[k]

\* What a job has read stays true while it stays where it is.
LEMMA ReadsSame ==
  ASSUME ApprovalAssumption, ContinueInv, Reading, Over, StoreGrows, NEW k \in Jobs,
         at'[k] = at[k], found'[k] = found[k]
  PROVE  Reads(k)' /\ Passed(k)'
<1>1. Reads(k) /\ Passed(k) /\ found[k].request \in {None} \cup Askers
  BY AtWork DEF Reading, Over
<1>2. found[k].request # None =>
        Grows(request[found[k].request], request'[found[k].request])
  BY <1>1 DEF StoreGrows
<1>3. Reads(k)'
  <2> SUFFICES ASSUME found[k].request # None PROVE Reads(k)'
    BY DEF Reads
  <2>1. request[found[k].request].decision # None =>
          request'[found[k].request].decision = request[found[k].request].decision
    BY <1>2 DEF Grows
  <2>2. at[k] = "claim" => request[found[k].request].decision # None
    <3>1. found[k].request = bound[k] /\ found[k].request \in Askers
      BY <1>1 DEF ContinueInv, Working
    <3>2. k = Expiry(found[k].request) \/ k \in Named
      BY <3>1, Whose
    <3> QED
      BY <1>1, <3>2, NamedApart DEF Reads, Own, ApprovalAssumption, System
  <2> QED
    BY <1>1, <2>1, <2>2 DEF Reads, Own
<1>4. Passed(k)'
  BY <1>1, <1>2 DEF Passed, Grows
<1> QED
  BY <1>3, <1>4

LEMMA OneJob ==
  ASSUME ApprovalAssumption, ContinueInv, Reading, Over, ContinueInv', StoreGrows, Dues', Claimer',
         Expiring', NEW j \in Jobs, Apart(j), Reads(j)', Passed(j)', Acting'
  PROVE  ActInv'
<1>1. \A k \in Jobs \ {j} : Reads(k)' /\ Passed(k)'
  BY ReadsSame DEF Apart
<1> QED
  BY <1>1 DEF ActInv, Reading, Over

\* What is left of a decision when one job moves and its request does not.
LEMMA FrameActs ==
  ASSUME ApprovalAssumption, ActInv, ContinueInv', NEW t \in Askers, Acted(t),
         request'[t] = request[t], NEW j \in Jobs, Apart(j),
         Claims(t, j) => listener'[j] = "due" \/ Coming(j, t, Onward)',
         Expires(t, j) => queue'[j] = "none" \/ Coming(j, t, {"policy", "cancel", "claim"})',
         Decides(t, j) => at'[j] = "claim" /\ found'[j].request = t
  PROVE  Acted(t)'
<1>1. CASE request[t].state = "claimed"
  <2>1. request[t].job \in Jobs
    BY <1>1 DEF ActInv, Claimer, Claimed
  <2>2. CASE request[t].job = j
    BY <1>1, <2>2 DEF Claims, Acted
  <2>3. CASE request[t].job # j
    BY <1>1, <2>1, <2>3 DEF Acted, Apart, Coming
  <2> QED
    BY <2>2, <2>3
<1>2. CASE request[t].state = "decided" /\ request[t].decision = "expiry"
  <2>1. t \in Timed /\ Expiry(t) \in Jobs
    BY <1>2 DEF ActInv, Dues, Jobs
  <2>2. CASE Expiry(t) = j
    BY <1>2, <2>2 DEF Expires, Acted
  <2>3. CASE Expiry(t) # j
    BY <1>2, <2>1, <2>3 DEF Acted, Apart, Coming
  <2> QED
    BY <2>2, <2>3
<1>3. CASE request[t].state = "decided" /\ request[t].decision # "expiry"
  <2>1. request[t].decision \in Jobs
    BY <1>3 DEF Acted
  <2>2. CASE request[t].decision = j
    BY <1>3, <2>1, <2>2 DEF Decides, Acted
  <2>3. CASE request[t].decision # j
    BY <1>3, <2>1, <2>3 DEF Acted, Apart
  <2> QED
    BY <2>2, <2>3
<1>4. CASE request[t].state \notin {"claimed", "decided"}
  BY <1>4 DEF Acted
<1> QED
  BY <1>1, <1>2, <1>3, <1>4

\* What a job at work has still to do for a decision.
LEMMA Active ==
  ASSUME ApprovalAssumption, ActInv, Calm, NEW t \in Askers, target = t, NEW j \in Jobs,
         queue[j] # "none"
  PROVE  /\ Acted(t) /\ t # None
         /\ Claims(t, j) => /\ bound[j] = t /\ Own(t, j)
                            /\ listener[j] = "due" \/ Coming(j, t, Onward)
         /\ Expires(t, j) => bound[j] = t /\ Coming(j, t, {"policy", "cancel", "claim"})
         /\ Decides(t, j) => at[j] = "claim" /\ found[j].request = t
<1>1. Acted(t) /\ t # None
  BY DEF ActInv, Acting, ApprovalAssumption
<1>2. Claims(t, j) => /\ bound[j] = t /\ Own(t, j)
                      /\ listener[j] = "due" \/ Coming(j, t, Onward)
  BY <1>1 DEF Claims, Acted, ActInv, Claimer, Claimed
<1>3. Expires(t, j) => bound[j] = t /\ Coming(j, t, {"policy", "cancel", "claim"})
  BY <1>1 DEF Expires, Acted, ActInv, Dues, Expiring
<1>4. Decides(t, j) => at[j] = "claim" /\ found[j].request = t
  BY <1>1 DEF Decides, Acted
<1> QED
  BY <1>1, <1>2, <1>3, <1>4

LEMMA ExpiringKept ==
  ASSUME ApprovalAssumption, ContinueInv, Expiring, StoreGrows, Lasting, UNCHANGED sweep,
         \A r \in Timed : queue[Expiry(r)] = "none" => queue'[Expiry(r)] = "none"
  PROVE  Expiring'
<1>1. \A r \in Askers : request[r].state \notin {"none", "pending"} =>
                          request'[r].state \notin {"none", "pending"}
  BY DEF ContinueInv, StoreGrows, Grows, Decisions
<1>2. \A r \in Timed : r \in Askers /\ Expiry(r) \in Jobs
  BY DEF ApprovalAssumption, Jobs
<1> QED
  BY <1>1, <1>2 DEF Expiring, Lasting, ContinueInv, Typed, SweepTyped

\* A step of one job.
LEMMA JobStep ==
  ASSUME ApprovalAssumption, ActInv, ContinueInv', StoreGrows, Dues', Claimer', NEW j \in Jobs,
         Apart(j), queue[j] = "none" <=> queue'[j] = "none", UNCHANGED <<bound, sweep>>,
         Reads(j)', Passed(j)', Acting'
  PROVE  ActInv'
<1>1. Lasting
  BY DEF Lasting, Apart
<1>2. \A r \in Timed : queue[Expiry(r)] = "none" => queue'[Expiry(r)] = "none"
  BY DEF Apart, Jobs
<1>3. Expiring'
  BY <1>1, <1>2, ExpiringKept DEF ActInv
<1> QED
  BY <1>3, OneJob DEF ActInv

\* A step of a job that is there and leaves the store.
Onto(t, j) ==
  /\ Claims(t, j) => listener'[j] = "due" \/ Coming(j, t, Onward)'
  /\ Expires(t, j) => queue'[j] = "none" \/ Coming(j, t, {"policy", "cancel", "claim"})'
  /\ Decides(t, j) => at'[j] = "claim" /\ found'[j].request = t
LEMMA QuietStep ==
  ASSUME ApprovalAssumption, ActInv, ContinueInv', NEW j \in Jobs, Apart(j), queue[j] # "none",
         queue'[j] # "none", UNCHANGED <<store, late, file, bound, sweep>>,
         happened \subseteq happened', Reads(j)', Passed(j)',
         \A t \in Askers : Calm /\ target = t => Onto(t, j)
  PROVE  ActInv'
<1>1. StoreGrows
  BY SameGrows DEF ActInv, ContinueInv
<1>2. Lasting
  BY DEF Lasting, Apart
<1>3. Dues' /\ Claimer'
  BY <1>2, SameStore DEF ActInv
<1>4. Acting'
  <2> SUFFICES ASSUME Calm'
               PROVE  file' # "unreadable" /\ \A t \in Askers : target' = t => Acted(t)'
    BY DEF Acting
  <2>1. Calm /\ file' # "unreadable"
    BY DEF Calm, ActInv, Acting
  <2>2. ASSUME NEW t \in Askers, target' = t
        PROVE  Acted(t)'
    <3>1. target = t /\ request'[t] = request[t]
      BY <2>2 DEF store
    <3>2. Acted(t)
      BY <2>1, <3>1 DEF ActInv, Acting
    <3>3. Onto(t, j)
      BY <2>1, <3>1
    <3> QED
      BY <3>1, <3>2, <3>3, FrameActs DEF Onto
  <2> QED
    BY <2>1, <2>2
<1> QED
  BY <1>1, <1>3, <1>4, JobStep

LEMMA LeavesApart ==
  ASSUME ContinueInv, NEW j \in Jobs, NEW state, Leaves(j, state),
         \A k \in Jobs \ {j} : listener'[k] = listener[k]
  PROVE  /\ Apart(j) /\ at'[j] = "idle" /\ queue'[j] = state /\ found'[j].request = None
         /\ Reads(j)' /\ Passed(j)'
<1>1. Apart(j) /\ at'[j] = "idle" /\ queue'[j] = state /\ found'[j].request = None
  BY DEF Leaves, Apart, Nothing, ContinueInv, Typed, PickupTyped
<1> QED
  BY <1>1 DEF Reads, Passed
LEMMA GoesApart ==
  ASSUME ContinueInv, NEW j \in Jobs, NEW next, at' = [at EXCEPT ![j] = next],
         UNCHANGED <<queue, found, listener>>
  PROVE  Apart(j) /\ at'[j] = next /\ queue'[j] = queue[j] /\ found'[j] = found[j]
BY DEF Apart, ContinueInv, Typed, PickupTyped
\* What was read of a decision stays true.
LEMMA ReadsStay ==
  ASSUME ContinueInv, Reading, StoreGrows, NEW j \in Jobs, found'[j] = found[j], at'[j] # "claim"
  PROVE  Reads(j)'
<1>1. found[j].request \in {None} \cup Askers /\ Reads(j)
  BY AtWork DEF Reading
<1> QED
  BY <1>1 DEF Reads, StoreGrows, Grows

-----------------------------------------------------------------------------
(* A decision that stands is acted on: the steps of a pickup.                  *)

\* From its check on, a job keeps its claim, is tried again, or its listener is due.
Ran(j) ==
  /\ Apart(j) /\ listener'[j] \in {listener[j], "due"} /\ queue'[j] # "none"
  /\ \/ /\ at'[j] = "idle" /\ found'[j].request = None
        /\ \/ queue'[j] = "waiting" \/ listener'[j] = "due"
           \/ found[j].request = None \/ at[j] = "vouch"
     \/ /\ found'[j] = found[j]
        /\ \/ at'[j] \in {"run", "box", "finish", "close"}
           \/ at'[j] = "vouch" /\ found[j].request = None
           \/ at'[j] = "publish" /\ at[j] = "vouch"

LEMMA LeavesRan ==
  ASSUME ContinueInv, NEW j \in Jobs, at[j] \in {"check", "run", "box", "vouch"},
         NEW state \in {"waiting", "done"}, Leaves(j, state), UNCHANGED listener,
         state = "waiting" \/ found[j].request = None \/ at[j] = "vouch"
  PROVE  Ran(j)
BY LeavesApart DEF Ran
LEMMA GoesRan ==
  ASSUME ContinueInv, NEW j \in Jobs, at[j] \in {"check", "run", "box", "vouch"}, NEW next,
         at' = [at EXCEPT ![j] = next], UNCHANGED <<queue, found, listener>>,
         \/ next \in {"run", "box", "finish", "close"}
         \/ next = "vouch" /\ found[j].request = None
         \/ next = "publish" /\ at[j] = "vouch"
  PROVE  Ran(j)
BY GoesApart, AtWork DEF Ran
LEMMA RefusesRan ==
  ASSUME ContinueInv, NEW j \in Jobs, at[j] \in {"check", "run", "box", "vouch"}, Refuses(j),
         UNCHANGED listener
  PROVE  Ran(j)
<1>1. CASE found[j].request = None
  BY <1>1, LeavesRan DEF Refuses, Completes
<1>2. CASE found[j].request # None
  BY <1>2, GoesRan DEF Refuses, Goes
<1> QED
  BY <1>1, <1>2

Running(j) ==
  \/ Check(j) \/ Refuse(j) \/ Defer(j) \/ Start(j) \/ Exit(j, TRUE) \/ Exit(j, FALSE)
  \/ ExitPolicy(j) \/ Vouch(j) \/ Fails(j)
LEMMA RunRan ==
  ASSUME ContinueInv, NEW j \in Jobs, Running(j)
  PROVE  Ran(j)
<1> USE DEF Steps
<1>1. CASE Check(j)
  BY <1>1, GoesRan DEF Check, Goes
<1>2. CASE Refuse(j)
  BY <1>2, RefusesRan DEF Refuse
<1>3. CASE Defer(j)
  BY <1>3, LeavesRan DEF Defer
<1>4. CASE Start(j)
  BY <1>4, GoesRan DEF Start, Goes
<1>5. ASSUME NEW asking \in BOOLEAN, Exit(j, asking) PROVE Ran(j)
  <2>1. CASE found[j].request = None /\ ~asking
    BY <1>5, <2>1, LeavesRan DEF Exit, Completes
  <2>2. CASE ~(found[j].request = None /\ ~asking)
    <3> DEFINE next == IF found[j].request = None THEN "vouch" ELSE "finish"
    <3>1. at' = [at EXCEPT ![j] = next] /\ UNCHANGED <<queue, found, listener>> /\ at[j] = "box"
      BY <1>5, <2>2 DEF Exit
    <3> QED
      BY <3>1, GoesRan
  <2> QED
    BY <2>1, <2>2
<1>6. CASE ExitPolicy(j)
  BY <1>6, RefusesRan DEF ExitPolicy
<1>7. CASE Vouch(j)
  <2>1. CASE Goes(j, "publish")
    BY <1>7, <2>1, GoesRan DEF Vouch, Goes
  <2>2. CASE Refuses(j)
    BY <1>7, <2>2, RefusesRan DEF Vouch
  <2> QED
    BY <1>7, <2>1, <2>2 DEF Vouch
<1>8. CASE Fails(j)
  <2>1. /\ Leaves(j, IF tries[j] + 1 < Attempts THEN "waiting" ELSE "failed")
        /\ listener' = [listener EXCEPT ![j] = IF tries[j] + 1 < Attempts THEN @ ELSE "due"]
    BY <1>8 DEF Fails, Throws
  <2>2. /\ \A k \in Jobs \ {j} : listener'[k] = listener[k]
        /\ listener'[j] = IF tries[j] + 1 < Attempts THEN listener[j] ELSE "due"
    BY <2>1 DEF ContinueInv, Typed, PickupTyped
  <2> QED
    BY <2>1, <2>2, LeavesApart DEF Ran
<1> QED
  BY <1>1, <1>2, <1>3, <1>4, <1>5, <1>6, <1>7, <1>8 DEF Running

LEMMA RunningActs ==
  ASSUME ApprovalAssumption, ActInv, ContinueInv', NEW j \in Jobs, Running(j)
  PROVE  ActInv'
<1>1. /\ at[j] \in {"check", "run", "box", "vouch"} /\ happened \subseteq happened'
      /\ UNCHANGED <<store, late, file, bound, sweep>>
  BY DEF Running, Check, Refuse, Defer, Start, Exit, ExitPolicy, Vouch, Fails, Steps, outside, luck, Note
<1>2. Ran(j) /\ queue[j] = "active" /\ StoreGrows /\ UNCHANGED request
  BY <1>1, RunRan, AtWork, SameGrows DEF ActInv, ContinueInv, store
<1>3. Apart(j) /\ queue[j] # "none" /\ queue'[j] # "none"
  BY <1>2 DEF Ran
<1>4. Reads(j)'
  <2>1. CASE found'[j].request = None
    BY <2>1 DEF Reads
  <2>2. CASE found'[j] = found[j] /\ at'[j] # "claim"
    BY <1>2, <2>2, ReadsStay DEF ActInv
  <2> QED
    BY <1>2, <2>1, <2>2 DEF Ran
<1>5. Passed(j)'
  BY <1>2 DEF Ran, Passed, ActInv, Over
<1>6. ASSUME NEW t \in Askers, Calm, target = t
      PROVE  Onto(t, j)
  <2>1. /\ Claims(t, j) => listener[j] = "due" \/ Coming(j, t, Onward)
        /\ Expires(t, j) => Coming(j, t, {"policy", "cancel", "claim"})
        /\ Decides(t, j) => at[j] = "claim"
        /\ t # None
    BY <1>3, <1>6, Active
  <2>2. ~Expires(t, j) /\ ~Decides(t, j)
    BY <1>1, <1>2, <2>1 DEF Coming
  <2>3. Claims(t, j) => listener[j] = "due" \/ (found[j].request = t /\ at[j] # "vouch")
    BY <1>1, <1>2, <2>1 DEF Coming, Onward
  <2>4. Claims(t, j) => listener'[j] = "due" \/ Coming(j, t, Onward)'
    BY <1>2, <2>1, <2>3 DEF Ran, Coming, Onward
  <2> QED
    BY <2>2, <2>4 DEF Onto
<1> QED
  BY <1>1, <1>3, <1>4, <1>5, <1>6, QuietStep

\* A pickup begins, or a failed job is put back by hand: the job will look again.
LEMMA AgainActs ==
  ASSUME ApprovalAssumption, ActInv, ContinueInv', NEW j \in Jobs, Pickup(j) \/ ConsoleRetry(j)
  PROVE  ActInv'
<1>1. /\ queue[j] \in {"waiting", "failed"} /\ queue'[j] # "none" /\ Apart(j)
      /\ queue'[j] = "waiting" \/ at'[j] = "find"
      /\ UNCHANGED <<store, late, file, bound, sweep>> /\ happened \subseteq happened'
      /\ found'[j] = found[j]
  BY DEF Pickup, ConsoleRetry, outside, luck, Note, Apart, ActInv, ContinueInv, Typed, PickupTyped
<1>2. at[j] = "idle" /\ found[j].request = None
  BY <1>1 DEF ActInv, ContinueInv, Working
<1>3. Reads(j)' /\ Passed(j)'
  BY <1>1, <1>2 DEF Reads, Passed
<1>4. ASSUME NEW t \in Askers, Calm, target = t
      PROVE  Onto(t, j)
  <2>1. ~Decides(t, j)
    BY <1>1, <1>2, <1>4, Active
  <2> QED
    BY <1>1, <2>1 DEF Onto, Coming
<1> QED
  BY <1>1, <1>3, <1>4, QuietStep

\* before() finds the request its job is bound to, as it is.
LEMMA FindActs ==
  ASSUME ApprovalAssumption, ActInv, ContinueInv', NEW j \in Jobs, Find(j)
  PROVE  ActInv'
<1>1. /\ at[j] = "find" /\ UNCHANGED <<store, late, file, bound, sweep, listener, happened>>
      /\ UNCHANGED request /\ target' = target
  BY DEF Find, Steps, outside, luck, store
<1>2. queue[j] = "active"
  BY <1>1, AtWork DEF ActInv
<1>3. CASE target # bound[j]
  <2>1. Leaves(j, "done")
    BY <1>3 DEF Find, Completes
  <2>2. Apart(j) /\ queue'[j] # "none" /\ Reads(j)' /\ Passed(j)'
    BY <1>1, <2>1, LeavesApart DEF ActInv
  <2>3. ASSUME NEW t \in Askers, Calm, target = t
        PROVE  Onto(t, j)
    BY <1>1, <1>2, <1>3, <2>3, Active DEF Onto
  <2> QED
    BY <1>1, <1>2, <2>2, <2>3, QuietStep
<1>4. CASE target = bound[j]
  <2> DEFINE f == IF target = None THEN Nothing
                  ELSE [request |-> target, decision |-> request[target].decision]
  <2>1. /\ at' = [at EXCEPT ![j] = "policy"] /\ UNCHANGED queue
        /\ found' = [found EXCEPT ![j] = f]
    BY <1>4 DEF Find
  <2>2. /\ Apart(j) /\ queue'[j] # "none" /\ at'[j] = "policy" /\ found'[j] = f
    BY <1>1, <1>2, <2>1 DEF Apart, ActInv, ContinueInv, Typed, PickupTyped
  <2>3. /\ target # None => f.request = target /\ f.decision = request[target].decision
        /\ target = None => f.request = None
    BY DEF Nothing
  <2> HIDE DEF f
  <2>4. Reads(j)' /\ Passed(j)'
    BY <1>1, <2>2, <2>3 DEF Reads, Passed
  <2>5. ASSUME NEW t \in Askers, Calm, target = t
        PROVE  Onto(t, j)
    <3>1. t # None /\ ~Decides(t, j)
      BY <1>1, <1>2, <2>5, Active
    <3>2. \A phases : "policy" \in phases => Coming(j, t, phases)'
      BY <1>1, <2>2, <2>3, <2>5, <3>1 DEF Coming
    <3> QED
      BY <3>1, <3>2 DEF Onto, Onward
  <2> QED
    BY <1>1, <1>2, <2>2, <2>4, <2>5, QuietStep
<1> QED
  BY <1>3, <1>4

\* A file that can be read and is no newer sends whoever is to act on to its act.
LEMMA PolicyActs ==
  ASSUME ApprovalAssumption, ActInv, ContinueInv', NEW j \in Jobs, Policy(j)
  PROVE  ActInv'
<1> DEFINE f == found[j]
<1>1. /\ at[j] = "policy" /\ UNCHANGED <<store, late, file, bound, sweep, listener, happened>>
      /\ UNCHANGED request /\ Verdict(j) \in {"same", "changed", "newer", "unreadable"}
  BY DEF Policy, Steps, outside, luck, store, Verdict, ActInv, ContinueInv, Typed, SweepTyped
<1>2. /\ queue[j] = "active" /\ Reads(j)
      /\ f.request \in {None} \cup Askers /\ f.request \in {None, bound[j]}
  BY <1>1, AtWork DEF ActInv, Reading, ContinueInv, Working
<1>3. StoreGrows
  BY <1>1, SameGrows DEF ActInv, ContinueInv
<1>4. /\ Apart(j) /\ queue'[j] # "none" /\ Reads(j)' /\ Passed(j)'
      /\ \/ queue'[j] = "waiting"
         \/ /\ \/ f.request = None \/ Verdict(j) = "unreadable"
               \/ j = Expiry(f.request) /\ f.decision # "expiry"
               \/ j # Expiry(f.request) /\ f.decision \in System
         \/ /\ found'[j] = f /\ f.request # None
            /\ \/ at'[j] = "cancel"
               \/ at'[j] = "claim" /\ j = Expiry(f.request)
               \/ at'[j] = "decide" /\ j # Expiry(f.request)
  <2>1. CASE Verdict(j) = "newer"
    <3>1. Leaves(j, "waiting")
      BY <2>1 DEF Policy
    <3> QED
      BY <1>1, <3>1, LeavesApart DEF ActInv
  <2>2. CASE /\ Completes(j)
             /\ \/ f.request = None \/ Verdict(j) = "unreadable"
                \/ j = Expiry(f.request) /\ f.decision # "expiry"
                \/ j # Expiry(f.request) /\ f.decision \in System
    BY <1>1, <2>2, LeavesApart DEF Completes, ActInv
  <2>3. CASE f.request = None /\ Goes(j, "run")
    <3>1. Apart(j) /\ at'[j] = "run" /\ queue'[j] = queue[j] /\ found'[j] = f
      BY <1>1, <2>3, GoesApart DEF Goes, ActInv
    <3> QED
      BY <1>2, <2>3, <3>1 DEF Reads, Passed
  <2>4. CASE f.request # None /\ \E next \in {"cancel", "decide"} : 
               Goes(j, next) /\ (next = "decide" => j # Expiry(f.request))
    <3>1. PICK next \in {"cancel", "decide"} :
            Goes(j, next) /\ (next = "decide" => j # Expiry(f.request))
      BY <2>4
    <3>2. Apart(j) /\ at'[j] = next /\ queue'[j] = queue[j] /\ found'[j] = f
      BY <1>1, <3>1, GoesApart DEF Goes, ActInv
    <3>3. Reads(j)'
      BY <1>3, <3>2, ReadsStay DEF ActInv
    <3> QED
      BY <1>2, <2>4, <3>1, <3>2, <3>3 DEF Passed
  <2>5. CASE f.request # None /\ j = Expiry(f.request) /\ f.decision = "expiry" /\ Goes(j, "claim")
    <3>1. Apart(j) /\ at'[j] = "claim" /\ queue'[j] = queue[j] /\ found'[j] = f
      BY <1>1, <2>5, GoesApart DEF Goes, ActInv
    <3>2. "expiry" # None
      BY DEF ApprovalAssumption, System
    <3>3. Reads(j)'
      BY <1>1, <1>2, <2>5, <3>1, <3>2 DEF Reads, Own
    <3> QED
      BY <1>2, <2>5, <3>1, <3>3 DEF Passed
  <2> QED
    BY <1>1, <2>1, <2>2, <2>3, <2>4, <2>5 DEF Policy
<1>5. ASSUME NEW t \in Askers, Calm, target = t
      PROVE  Onto(t, j)
  <2>1. /\ t # None /\ ~Decides(t, j)
        /\ Claims(t, j) => bound[j] = t /\ Own(t, j) /\ (listener[j] = "due" \/ Coming(j, t, Onward))
        /\ Expires(t, j) => bound[j] = t /\ Coming(j, t, {"policy", "cancel", "claim"})
    BY <1>1, <1>2, <1>5, Active
  <2>2. Verdict(j) # "unreadable"
    BY <1>5 DEF Verdict, ActInv, Acting
  <2>3. /\ Claims(t, j) => listener[j] = "due" \/ (f.request = t /\ f.decision = request[t].decision)
        /\ Expires(t, j) => f.request = t /\ f.decision = request[t].decision
    BY <1>1, <1>2, <2>1 DEF Coming
  <2>4. bound[j] = t => j = Expiry(t) \/ j \in Named
    BY <2>1, Whose DEF ActInv
  <2>5. Claims(t, j) /\ f.request = t => Onto(t, j)
    BY <1>1, <1>4, <2>1, <2>2, <2>3, <2>4, NamedApart DEF Onto, Own, Coming, Onward, Claims, Expires
  <2>6. Claims(t, j) /\ listener[j] = "due" => Onto(t, j)
    BY <1>1, <2>1 DEF Onto, Claims, Expires
  <2>7. Expires(t, j) => Onto(t, j)
    BY <1>1, <1>4, <2>1, <2>2, <2>3 DEF Onto, Coming, Claims, Expires
  <2> QED
    BY <2>1, <2>3, <2>5, <2>6, <2>7 DEF Onto
<1> QED
  BY <1>1, <1>2, <1>4, <1>5, QuietStep

\* A step of a job that moves a request.
LEMMA MoveSafe ==
  ASSUME ApprovalAssumption, ActInv, NEW op \in Ops, NEW r \in Askers, NEW j \in Jobs,
         Move(op, r, j), op = "decide" => j \in Named,
         op = "claim" => queue[j] # "none" /\ bound[j] = r /\ Own(r, j),
         Lasting, UNCHANGED late
  PROVE  StoreGrows /\ Dues' /\ Claimer'
<1>1. StoreGrows
  BY MoveGrows DEF ActInv, ContinueInv
<1> QED
  BY <1>1, MoveDues, MoveClaims DEF ActInv, ContinueInv
LEMMA MoveStep ==
  ASSUME ApprovalAssumption, ActInv, ContinueInv', NEW j \in Jobs, Apart(j),
         queue[j] = "none" <=> queue'[j] = "none", UNCHANGED <<late, file, bound, sweep>>,
         happened \subseteq happened',
         NEW op \in Ops, NEW r \in Askers, Move(op, r, j), op = "decide" => j \in Named,
         op = "claim" => queue[j] # "none" /\ bound[j] = r /\ Own(r, j),
         Reads(j)', Passed(j)',
         \A t \in Askers : Calm /\ target = t /\ request'[t] = request[t]
                            /\ (t = r => ~Changes(op, r, j)) => Onto(t, j),
         Calm /\ target = r /\ Changes(op, r, j) /\ op \in {"decide", "expire", "claim"} => Acted(r)'
  PROVE  ActInv'
<1>1. Lasting
  BY DEF Lasting, Apart
<1>2. StoreGrows /\ Dues' /\ Claimer'
  BY <1>1, MoveSafe
<1>3. Acting'
  <2> SUFFICES ASSUME Calm'
               PROVE  file' # "unreadable" /\ \A t \in Askers : target' = t => Acted(t)'
    BY DEF Acting
  <2>1. Calm /\ file' # "unreadable"
    BY DEF Calm, ActInv, Acting
  <2>2. ASSUME NEW t \in Askers, target' = t
        PROVE  Acted(t)'
    <3>1. /\ target = t
          /\ \/ request'[t] = request[t] /\ (t = r => ~Changes(op, r, j))
             \/ t = r /\ op \in {"decide", "expire", "claim"} /\ Changes(op, r, j)
      BY <2>2, MoveTarget DEF ActInv, ContinueInv
    <3>2. Acted(t)
      BY <2>1, <3>1 DEF ActInv, Acting
    <3>3. CASE request'[t] = request[t] /\ (t = r => ~Changes(op, r, j))
      <4>1. Onto(t, j)
        BY <2>1, <3>1, <3>3
      <4> QED
        BY <3>2, <3>3, <4>1, FrameActs DEF Onto
    <3>4. CASE t = r /\ op \in {"decide", "expire", "claim"} /\ Changes(op, r, j)
      BY <2>1, <3>1, <3>4
    <3> QED
      BY <3>1, <3>3, <3>4
  <2> QED
    BY <2>1, <2>2
<1> QED
  BY <1>2, <1>3, JobStep

\* What a job that found a request has still to do for the one the target waits for.
LEMMA AtActive ==
  ASSUME ApprovalAssumption, ActInv, Calm, NEW t \in Askers, target = t, NEW j \in Jobs,
         at[j] \in {"cancel", "decide", "claim", "finish", "close", "publish"}
  PROVE  /\ Claims(t, j) => \/ listener[j] = "due"
                            \/ found[j].request = t /\ at[j] # "publish" /\ Own(t, j)
         /\ Expires(t, j) => at[j] \in {"cancel", "claim"} /\ found[j].request = t
         /\ Decides(t, j) => at[j] = "claim" /\ found[j].request = t
<1>1. queue[j] = "active"
  BY AtWork DEF ActInv
<1>2. /\ Claims(t, j) => Own(t, j) /\ (listener[j] = "due" \/ Coming(j, t, Onward))
      /\ Expires(t, j) => Coming(j, t, {"policy", "cancel", "claim"})
      /\ Decides(t, j) => at[j] = "claim" /\ found[j].request = t
  BY <1>1, Active
<1> QED
  BY <1>1, <1>2 DEF Coming, Onward

\* A cancel, a finish and a close by the job a request waits for end the request.
LEMMA EndActs ==
  ASSUME ApprovalAssumption, ActInv, ContinueInv', NEW j \in Jobs, Cancel(j) \/ Finish(j) \/ Close(j)
  PROVE  ActInv'
<1> DEFINE r == found[j].request
           op == IF at[j] = "cancel" THEN "cancel" ELSE "finish"
<1>1. /\ at[j] \in {"cancel", "finish", "close"} /\ Move(op, r, j)
      /\ UNCHANGED <<late, file, bound, sweep, listener, happened>>
  BY DEF Cancel, Finish, Close, Steps, outside, luck
<1>2. queue[j] = "active" /\ r \in Askers /\ op \in {"cancel", "finish"} /\ op \in Ops
  BY <1>1, AtWork DEF ActInv, Ops
<1>3. StoreGrows
  BY <1>1, <1>2, MoveGrows DEF ActInv, ContinueInv
<1>4. Apart(j) /\ queue'[j] # "none" /\ Reads(j)' /\ Passed(j)'
  <2>1. CASE Completes(j)
    BY <1>1, <2>1, LeavesApart DEF Completes, ActInv
  <2>2. CASE Goes(j, "close")
    <3>1. Apart(j) /\ at'[j] = "close" /\ queue'[j] = queue[j] /\ found'[j] = found[j]
      BY <1>1, <2>2, GoesApart DEF Goes, ActInv
    <3> QED
      BY <1>2, <1>3, <3>1, ReadsStay DEF Passed, ActInv
  <2>3. CASE Finish(j) /\ Ok("finish", r, j) /\ Goes(j, "vouch")
    <3>1. Apart(j) /\ at'[j] = "vouch" /\ queue'[j] = queue[j] /\ found'[j] = found[j]
      BY <1>1, <2>3, GoesApart DEF Goes, ActInv
    <3>2. op = "finish" /\ request[r] \in RequestOf
      BY <1>2, <2>3 DEF Finish, Steps, ActInv, ContinueInv, Typed, StoreTyped
    <3>3. request'[r].state = "finished"
      <4>1. CASE Changes("finish", r, j)
        <5>1. request'[r] = [request[r] EXCEPT !.state = "finished"]
          BY <1>1, <1>2, <3>2, <4>1 DEF Move, Becomes, ActInv, ContinueInv, Typed, StoreTyped
        <5> QED
          BY <3>2, <5>1 DEF RequestOf
      <4>2. CASE ~Changes("finish", r, j)
        BY <1>1, <2>3, <3>2, <4>2 DEF Move, Ok, Repeats, store
      <4> QED
        BY <4>1, <4>2
    <3> QED
      BY <1>2, <1>3, <3>1, <3>3, ReadsStay DEF Passed, ActInv
  <2> QED
    BY <2>1, <2>2, <2>3 DEF Cancel, Finish, Close
<1>5. ASSUME NEW t \in Askers, Calm, target = t, t = r => ~Changes(op, r, j)
      PROVE  Onto(t, j)
  <2>1. /\ Claims(t, j) => listener[j] = "due" \/ r = t
        /\ Expires(t, j) => at[j] \in {"cancel", "claim"} /\ r = t
        /\ ~Decides(t, j)
    BY <1>1, <1>5, AtActive
  <2>2. r = t => ~Claims(t, j)
    BY <1>1, <1>5 DEF Changes, Claims
  <2>3. ~Expires(t, j)
    BY <1>1, <1>5, <2>1 DEF Changes, Expires
  <2> QED
    BY <1>1, <2>1, <2>2, <2>3 DEF Onto
<1> HIDE DEF op
<1> QED
  BY <1>1, <1>2, <1>4, <1>5, MoveStep

\* A reply decides, or leaves the request to the deadline's job, which is not there yet.
LEMMA DecideActs ==
  ASSUME ApprovalAssumption, ActInv, ContinueInv', NEW j \in Jobs, Decide(j)
  PROVE  ActInv'
<1>0. at[j] = "decide" /\ found[j].request \in Askers
  BY AtWork DEF Decide, Steps, ActInv
<1> SUFFICES ASSUME NEW r \in Askers, r = found[j].request
             PROVE  ActInv'
  BY <1>0
<1>1. /\ at[j] = "decide" /\ Move("decide", r, j)
      /\ UNCHANGED <<late, file, bound, sweep, listener, happened>>
  BY DEF Decide, Steps, outside, luck
<1>2. /\ queue[j] = "active" /\ r \in Askers /\ "decide" \in Ops /\ j \in Named /\ r = bound[j]
      /\ request[r] \in RequestOf
  BY <1>1, AtWork DEF ActInv, Ops, ContinueInv, Working, Typed, StoreTyped
<1>3. StoreGrows
  BY <1>1, <1>2, MoveGrows DEF ActInv, ContinueInv
<1>4. j # "expiry" /\ \A q \in Askers : j # Expiry(q)
  BY <1>2, NamedApart
<1>5. /\ Apart(j) /\ queue'[j] # "none" /\ Reads(j)' /\ Passed(j)'
      /\ Ok("decide", r, j) /\ request'[r].decision = j => at'[j] = "claim" /\ found'[j] = found[j]
  <2>1. CASE Ok("decide", r, j) /\ request'[r].decision = j /\ Goes(j, "claim")
    <3>1. Apart(j) /\ at'[j] = "claim" /\ queue'[j] = queue[j] /\ found'[j] = found[j]
      BY <1>1, <2>1, GoesApart DEF Goes, ActInv
    <3>2. Reads(j)'
      <4>1. found[j].decision # None => request[r].decision = found[j].decision
        <5>1. Reads(j)
          BY DEF ActInv, Reading
        <5>2. r # None
          BY ApprovalAssumption DEF ApprovalAssumption
        <5> QED
          BY <5>1, <5>2 DEF Reads
      <4>2. request[r].decision # None => request'[r].decision = request[r].decision
        BY <1>2, <1>3 DEF StoreGrows, Grows
      <4> QED
        BY <1>2, <1>4, <2>1, <3>1, <4>1, <4>2 DEF Reads, Own
    <3> QED
      BY <1>2, <3>1, <3>2 DEF Passed
  <2>2. CASE ~(Ok("decide", r, j) /\ request'[r].decision = j) /\ Completes(j)
    BY <1>1, <2>2, LeavesApart DEF Completes, ActInv
  <2> QED
    BY <2>1, <2>2 DEF Decide
<1>6. ASSUME NEW t \in Askers, Calm, target = t, t = r => ~Changes("decide", r, j)
      PROVE  Onto(t, j)
  <2>1. /\ Claims(t, j) => listener[j] = "due" \/ (r = t /\ Own(t, j))
        /\ ~Expires(t, j) /\ ~Decides(t, j)
    BY <1>1, <1>6, AtActive
  <2>2. Claims(t, j) /\ r = t /\ Own(t, j) => at'[j] = "claim" /\ found'[j] = found[j]
    <3> SUFFICES ASSUME Claims(t, j), r = t, Own(t, j)
                 PROVE  at'[j] = "claim" /\ found'[j] = found[j]
      OBVIOUS
    <3>1. request[r].decision = j /\ request'[r] = request[r]
      BY <1>1, <1>4, <1>6 DEF Own, Move, store
    <3>2. Ok("decide", r, j)
      BY <1>6, <3>1 DEF Ok, Repeats, Claims
    <3> QED
      BY <1>5, <3>1, <3>2
  <2> QED
    BY <1>1, <2>1, <2>2 DEF Onto, Coming, Onward
<1>7. ASSUME target = r, Changes("decide", r, j)
      PROVE  Acted(r)'
  <2>1. request[r].state = "pending"
    BY <1>7 DEF Changes, Undecided
  <2>2. request'[r] = [request[r] EXCEPT !.state = "decided",
                         !.decision = IF r \in late THEN "expiry" ELSE j]
    BY <1>1, <1>2, <1>7 DEF Move, Becomes, ActInv, ContinueInv, Typed, StoreTyped
  <2>3. /\ request'[r].state = "decided"
        /\ request'[r].decision = IF r \in late THEN "expiry" ELSE j
    BY <1>2, <2>2 DEF RequestOf
  <2>4. CASE r \in late
    <3>1. r \in Timed /\ Expiry(r) \in Jobs /\ Expiry(r) # j
      BY <1>2, <1>4, <2>4 DEF ActInv, ContinueInv, Typed, SweepTyped, Jobs
    <3>2. queue'[Expiry(r)] = "none"
      BY <1>5, <2>1, <3>1 DEF Apart, ActInv, Expiring
    <3> QED
      BY <2>3, <2>4, <3>2 DEF Acted
  <2>5. CASE r \notin late
    <3>1. at'[j] = "claim" /\ found'[j] = found[j]
      BY <1>5, <1>7, <2>3, <2>5 DEF Ok
    <3> QED
      BY <1>4, <2>3, <2>5, <3>1 DEF Acted
  <2> QED
    BY <2>4, <2>5
<1> QED
  BY <1>1, <1>2, <1>5, <1>6, <1>7, MoveStep

\* Whoever is to claim does, and goes on.
LEMMA ClaimActs ==
  ASSUME ApprovalAssumption, ActInv, ContinueInv', NEW j \in Jobs, Claim(j)
  PROVE  ActInv'
<1>0. at[j] = "claim" /\ found[j].request \in Askers
  BY AtWork DEF Claim, Steps, ActInv
<1> SUFFICES ASSUME NEW r \in Askers, r = found[j].request
             PROVE  ActInv'
  BY <1>0
<1>1. /\ at[j] = "claim" /\ Move("claim", r, j)
      /\ UNCHANGED <<late, file, bound, sweep, listener, happened>>
  BY DEF Claim, Steps, outside, luck
<1>2. /\ queue[j] = "active" /\ r \in Askers /\ "claim" \in Ops /\ r = bound[j] /\ r # None
      /\ request[r] \in RequestOf
  BY <1>1, AtWork DEF ActInv, Ops, ContinueInv, Working, Typed, StoreTyped, ApprovalAssumption
<1>3. StoreGrows
  BY <1>1, <1>2, MoveGrows DEF ActInv, ContinueInv
<1>4. Own(r, j)
  BY <1>1, <1>2 DEF ActInv, Reading, Reads
<1>5. /\ Apart(j) /\ queue'[j] # "none" /\ Reads(j)' /\ Passed(j)'
      /\ Ok("claim", r, j) => at'[j] = "check" /\ found'[j] = found[j]
  <2>1. CASE Ok("claim", r, j) /\ Goes(j, "check")
    <3>1. Apart(j) /\ at'[j] = "check" /\ queue'[j] = queue[j] /\ found'[j] = found[j]
      BY <1>1, <2>1, GoesApart DEF Goes, ActInv
    <3> QED
      BY <1>2, <1>3, <3>1, ReadsStay DEF Passed, ActInv
  <2>2. CASE ~Ok("claim", r, j) /\ Completes(j)
    BY <1>1, <2>2, LeavesApart DEF Completes, ActInv
  <2> QED
    BY <2>1, <2>2 DEF Claim
<1>6. ASSUME NEW t \in Askers, Calm, target = t, t = r => ~Changes("claim", r, j)
      PROVE  Onto(t, j)
  <2>1. /\ Claims(t, j) => listener[j] = "due" \/ r = t
    BY <1>1, <1>6, AtActive
  <2>2. ~Expires(t, j) /\ ~Decides(t, j)
    BY <1>1, <1>6, AtActive DEF Expires, Decides, Changes
  <2>3. Claims(t, j) /\ r = t => at'[j] = "check" /\ found'[j] = found[j]
    BY <1>5, <1>6 DEF Ok, Repeats, Claims
  <2> QED
    BY <1>1, <2>1, <2>2, <2>3 DEF Onto, Coming, Onward
<1>7. ASSUME target = r, Changes("claim", r, j)
      PROVE  Acted(r)'
  <2>1. request'[r] = [request[r] EXCEPT !.state = "claimed", !.job = j]
    BY <1>1, <1>2, <1>7 DEF Move, Becomes, ActInv, ContinueInv, Typed, StoreTyped
  <2>2. request'[r].state = "claimed" /\ request'[r].job = j
    BY <1>2, <2>1 DEF RequestOf
  <2>3. at'[j] = "check" /\ found'[j] = found[j]
    BY <1>5, <1>7 DEF Ok
  <2> QED
    BY <2>2, <2>3 DEF Acted, Coming, Onward
<1> QED
  BY <1>1, <1>2, <1>4, <1>5, <1>6, <1>7, MoveStep

\* A run that asks finds its target free, or is refused.
LEMMA PublishActs ==
  ASSUME ApprovalAssumption, ActInv, ContinueInv', NEW j \in Jobs, Publish(j)
  PROVE  ActInv'
<1>1. /\ at[j] = "publish" /\ j \in Askers /\ Publishes(j) /\ queue[j] = "active"
      /\ UNCHANGED <<late, file, bound, sweep, listener, happened>>
  BY AtWork DEF Publish, Steps, outside, luck, ActInv, ContinueInv, Working
<1>2. StoreGrows
  BY <1>1, PublishGrows DEF ActInv, ContinueInv
<1>3. Apart(j) /\ queue'[j] # "none" /\ Reads(j)' /\ Passed(j)'
  <2>1. CASE Completes(j)
    BY <1>1, <2>1, LeavesApart DEF Completes, ActInv
  <2>2. CASE Goes(j, "close")
    <3>1. Apart(j) /\ at'[j] = "close" /\ queue'[j] = queue[j] /\ found'[j] = found[j]
      BY <1>1, <2>2, GoesApart DEF Goes, ActInv
    <3> QED
      BY <1>1, <1>2, <3>1, ReadsStay DEF Passed, ActInv
  <2> QED
    BY <2>1, <2>2 DEF Publish, Refuses
<1>4. Lasting
  BY <1>1, <1>3 DEF Lasting, Apart
<1>5. Dues' /\ Claimer'
  BY <1>1, <1>2, <1>4, PublishDues, PublishClaims DEF ActInv, ContinueInv
<1>6. Acting'
  <2> SUFFICES ASSUME Calm'
               PROVE  file' # "unreadable" /\ \A t \in Askers : target' = t => Acted(t)'
    BY DEF Acting
  <2>1. Calm /\ file' # "unreadable"
    BY <1>1 DEF Calm, ActInv, Acting
  <2>2. ASSUME NEW t \in Askers, target' = t
        PROVE  Acted(t)'
    <3>1. CASE UNCHANGED store
      <4>1. target = t /\ request'[t] = request[t]
        BY <2>2, <3>1 DEF store
      <4>2. /\ Acted(t) /\ (Claims(t, j) => listener[j] = "due")
            /\ ~Expires(t, j) /\ ~Decides(t, j)
        BY <1>1, <2>1, <4>1, AtActive DEF ActInv, Acting
      <4> QED
        BY <1>1, <1>3, <4>1, <4>2, FrameActs
    <3>2. CASE /\ request' = [request EXCEPT ![j].state = "pending"] /\ target' = j
      <4>1. request'[t].state = "pending"
        BY <2>2, <3>2 DEF ActInv, ContinueInv, Typed, StoreTyped, RequestOf
      <4> QED
        BY <4>1 DEF Acted
    <3> QED
      BY <1>1, <3>1, <3>2 DEF Publishes
  <2> QED
    BY <2>1, <2>2
<1> QED
  BY <1>1, <1>2, <1>3, <1>5, <1>6, JobStep

\* A command with no answer is a fault, which may leave a target taken.
LEMMA UnansweredActs ==
  ASSUME ApprovalAssumption, ActInv, ContinueInv', NEW j \in Jobs, Unanswered(j)
  PROVE  ActInv'
<1>1. /\ at[j] \in {"find", "cancel", "decide", "claim", "finish", "close", "publish"}
      /\ UNCHANGED <<late, file, bound, sweep>> /\ ~Calm'
  BY DEF Unanswered, Operation, outside, Note, Calm
<1>2. queue[j] = "active"
  BY <1>1, AtWork DEF ActInv
<1>3. StoreGrows
  <2>1. CASE UNCHANGED store
    BY <2>1, SameGrows DEF ActInv, ContinueInv
  <2>2. CASE at[j] \in DOMAIN Operation /\ Move(Operation[at[j]], found[j].request, j)
    <3>1. /\ at[j] \in {"cancel", "decide", "claim", "finish", "close"} /\ Operation[at[j]] \in Ops
          /\ Operation[at[j]] = "decide" => j \in Named
      BY <2>2 DEF Operation, Ops, ActInv, ContinueInv, Working
    <3>2. found[j].request \in Askers
      BY <3>1, AtWork DEF ActInv
    <3> QED
      BY <2>2, <3>1, <3>2, MoveGrows DEF ActInv, ContinueInv
  <2>3. CASE at[j] = "publish" /\ Publishes(j)
    BY <2>3, PublishGrows DEF ActInv, ContinueInv, Working
  <2> QED
    BY <2>1, <2>2, <2>3 DEF Unanswered
<1>4. Apart(j) /\ queue'[j] # "none" /\ Reads(j)' /\ Passed(j)'
  <2>1. CASE Throws(j)
    <3>1. Leaves(j, IF tries[j] + 1 < Attempts THEN "waiting" ELSE "failed")
      BY <2>1 DEF Throws
    <3>2. \A k \in Jobs \ {j} : listener'[k] = listener[k]
      BY <2>1 DEF Throws, ActInv, ContinueInv, Typed, PickupTyped
    <3> QED
      BY <3>1, <3>2, LeavesApart DEF ActInv
  <2>2. CASE UNCHANGED listener /\ Completes(j)
    BY <2>2, LeavesApart DEF Completes, ActInv
  <2>3. CASE UNCHANGED listener /\ Goes(j, "close")
    <3>1. Apart(j) /\ at'[j] = "close" /\ queue'[j] = queue[j] /\ found'[j] = found[j]
      BY <2>3, GoesApart DEF Goes, ActInv
    <3> QED
      BY <1>2, <1>3, <3>1, ReadsStay DEF Passed, ActInv
  <2> QED
    BY <2>1, <2>2, <2>3 DEF Unanswered, Refuses
<1>5. Lasting
  BY <1>1, <1>4 DEF Lasting, Apart
<1>6. Dues' /\ Claimer'
  <2>1. CASE UNCHANGED store
    BY <1>1, <1>5, <2>1, SameStore DEF ActInv
  <2>2. CASE at[j] \in DOMAIN Operation /\ Move(Operation[at[j]], found[j].request, j)
    <3>1. /\ at[j] \in {"cancel", "decide", "claim", "finish", "close"} /\ Operation[at[j]] \in Ops
          /\ Operation[at[j]] = "decide" => j \in Named
          /\ Operation[at[j]] = "claim" => at[j] = "claim"
      BY <2>2 DEF Operation, Ops, ActInv, ContinueInv, Working
    <3>2. found[j].request \in Askers /\ found[j].request # None /\ bound[j] = found[j].request
      BY <3>1, AtWork DEF ActInv, ApprovalAssumption
    <3>3. at[j] = "claim" => Own(found[j].request, j)
      BY <3>2 DEF ActInv, Reading, Reads
    <3> QED
      BY <1>1, <1>2, <1>5, <2>2, <3>1, <3>2, <3>3, MoveSafe
  <2>3. CASE at[j] = "publish" /\ Publishes(j)
    <3>1. j \in Askers
      BY <2>3 DEF ActInv, ContinueInv, Working
    <3> QED
      BY <1>1, <1>3, <1>5, <2>3, <3>1, PublishDues, PublishClaims DEF ActInv, ContinueInv
  <2> QED
    BY <2>1, <2>2, <2>3 DEF Unanswered
<1>7. Acting'
  BY <1>1 DEF Acting
<1> QED
  BY <1>1, <1>2, <1>3, <1>4, <1>6, <1>7, JobStep

-----------------------------------------------------------------------------
(* A decision that stands is acted on: what happens around the pickups.        *)

\* The listener of a failed job finishes the request its job has claimed.
LEMMA ListenActs ==
  ASSUME ApprovalAssumption, ActInv, ContinueInv', NEW j \in Jobs, Listen(j)
  PROVE  ActInv'
<1>1. /\ UNCHANGED <<late, file, bound, sweep, queue, at, found>> /\ happened \subseteq happened'
      /\ \A k \in Jobs \ {j} : listener'[k] = listener[k]
  BY DEF Listen, outside, luck, Note, ActInv, ContinueInv, Typed, PickupTyped
<1>2. Apart(j) /\ at'[j] = at[j] /\ found'[j] = found[j]
  BY <1>1 DEF Apart
<1>3. /\ Lasting /\ bound[j] \in {None} \cup Askers
      /\ ~Calm' \/ bound[j] = None \/ Move("finish", bound[j], j)
  BY <1>1 DEF Lasting, Listen, Note, Calm, ActInv, ContinueInv, Typed, PickupTyped
<1>4. ASSUME NEW t \in Askers, Calm, target = t, request'[t] = request[t],
             t = bound[j] => ~Changes("finish", bound[j], j)
      PROVE  Onto(t, j)
  <2>1. ~Claims(t, j)
    BY <1>4 DEF Claims, Changes, ActInv, Claimer, Claimed
  <2>2. Acted(t)
    BY <1>4 DEF ActInv, Acting
  <2> QED
    BY <1>1, <1>4, <2>1, <2>2 DEF Onto, Acted, Expires, Decides, Coming
<1>5. CASE UNCHANGED store
  <2>1. StoreGrows /\ Dues' /\ Claimer'
    BY <1>1, <1>3, <1>5, SameGrows, SameStore DEF ActInv, ContinueInv
  <2>2. Reads(j)' /\ Passed(j)'
    BY <1>2, <2>1, ReadsSame DEF ActInv
  <2>3. Acting'
    <3> SUFFICES ASSUME Calm' PROVE Acting'
      BY DEF Acting
    <3>1. Calm /\ file' # "unreadable" /\ (bound[j] = None \/ Move("finish", bound[j], j))
      BY <1>1, <1>3 DEF Calm, ActInv, Acting
    <3>2. ASSUME NEW t \in Askers, target' = t PROVE Acted(t)'
      <4>1. target = t /\ request'[t] = request[t] /\ Acted(t)
        BY <1>5, <3>1, <3>2 DEF store, ActInv, Acting
      <4>2. t = bound[j] => ~Changes("finish", bound[j], j)
        <5> SUFFICES ASSUME t = bound[j], Changes("finish", bound[j], j) PROVE FALSE
          OBVIOUS
        <5>1. t # None
          BY DEF ApprovalAssumption
        <5>2. target' = None
          BY <3>1, <5>1 DEF Move
        <5> QED
          BY <3>2, <5>1, <5>2
      <4>3. Onto(t, j)
        BY <1>4, <3>1, <4>1, <4>2
      <4> QED
        BY <1>2, <4>1, <4>3, FrameActs DEF Onto
    <3> QED
      BY <3>1, <3>2 DEF Acting
  <2> QED
    BY <1>1, <1>2, <2>1, <2>2, <2>3, JobStep
<1>6. CASE bound[j] # None /\ Move("finish", bound[j], j)
  <2>1. bound[j] \in Askers /\ "finish" \in Ops
    BY <1>3, <1>6 DEF Ops
  <2>2. StoreGrows
    BY <1>6, <2>1, MoveGrows DEF ActInv, ContinueInv
  <2>3. Reads(j)' /\ Passed(j)'
    BY <1>2, <2>2, ReadsSame DEF ActInv
  <2> QED
    BY <1>1, <1>2, <1>4, <1>6, <2>1, <2>3, MoveStep
<1> QED
  BY <1>5, <1>6 DEF Listen

\* A comment's job that is not there yet has nothing to do for a request.
LEMMA AddActs ==
  ASSUME ApprovalAssumption, ActInv, ContinueInv', NEW c \in Replies, Look(c) \/ Add(c)
  PROVE  ActInv'
<1>1. c \in Jobs /\ queue[c] = "none" /\ at[c] \in {"idle", "add"}
  BY DEF Look, Add, ActInv, ContinueInv, Working, Jobs
<1>2. /\ UNCHANGED <<store, late, file, sweep, listener, found, happened>>
      /\ \A k \in Jobs \ {c} : at'[k] = at[k] /\ queue'[k] = queue[k] /\ bound'[k] = bound[k]
  BY <1>1 DEF Look, Add, outside, luck, ActInv, ContinueInv, Typed, PickupTyped
<1>3. Apart(c) /\ Lasting
  BY <1>1, <1>2 DEF Apart, Lasting
<1>4. StoreGrows /\ Dues' /\ Claimer'
  BY <1>2, <1>3, SameGrows, SameStore DEF ActInv, ContinueInv
<1>5. \A r \in Askers : c # Expiry(r)
  BY DEF ApprovalAssumption
<1>6. Expiring'
  <2>1. \A r \in Timed : queue[Expiry(r)] = "none" => queue'[Expiry(r)] = "none"
    BY <1>2, <1>5 DEF Jobs, ApprovalAssumption
  <2> QED
    BY <1>2, <1>3, <1>4, <2>1, ExpiringKept DEF ActInv
<1>7. found'[c].request = None
  BY <1>1, <1>2 DEF ActInv, ContinueInv, Working
<1>8. Reads(c)' /\ Passed(c)'
  BY <1>7 DEF Reads, Passed
<1>9. Acting'
  <2> SUFFICES ASSUME Calm'
               PROVE  file' # "unreadable" /\ \A t \in Askers : target' = t => Acted(t)'
    BY DEF Acting
  <2>1. Calm /\ file' # "unreadable"
    BY <1>2 DEF Calm, ActInv, Acting
  <2>2. ASSUME NEW t \in Askers, target' = t
        PROVE  Acted(t)'
    <3>1. Acted(t) /\ request'[t] = request[t]
      BY <1>2, <2>1, <2>2 DEF store, ActInv, Acting
    <3>2. ~Claims(t, c)
      BY <1>1 DEF Claims, ActInv, Claimer, Claimed
    <3>3. ~Expires(t, c) /\ ~Decides(t, c)
      BY <1>1, <1>5, <3>1 DEF Expires, Decides, Acted
    <3> QED
      BY <1>1, <1>3, <3>1, <3>2, <3>3, FrameActs
  <2> QED
    BY <2>1, <2>2
<1> QED
  BY <1>1, <1>3, <1>4, <1>6, <1>8, <1>9, OneJob DEF ActInv

\* A step that leaves every pickup where it is and at most adds a job.
LEMMA AwayActs ==
  ASSUME ApprovalAssumption, ActInv, ContinueInv', StoreGrows, Dues', Claimer', Expiring',
         NEW j \in Jobs, UNCHANGED <<at, found, listener>>,
         \A k \in Jobs \ {j} : queue'[k] = queue[k], Acting'
  PROVE  ActInv'
<1>1. Apart(j)
  BY DEF Apart
<1>2. Reads(j)' /\ Passed(j)'
  BY ReadsSame DEF ActInv
<1> QED
  BY <1>1, <1>2, OneJob DEF ActInv
LEMMA ActedSame ==
  ASSUME UNCHANGED <<at, found, listener, queue>>, NEW t \in Askers, request'[t] = request[t], Acted(t)
  PROVE  Acted(t)'
BY DEF Acted, Coming

\* A step that leaves the requests and the jobs.
LEMMA IdleActs ==
  ASSUME ApprovalAssumption, ActInv, ContinueInv', UNCHANGED <<store, at, found, listener, queue, bound>>,
         late \subseteq late', Calm' => Calm /\ file' # "unreadable",
         sweep'.pc = "add" => sweep.pc = "add" /\ sweep'.request = sweep.request
  PROVE  ActInv'
<1>1. Lasting
  BY DEF Lasting
<1>2. StoreGrows /\ Dues' /\ Claimer'
  BY <1>1, SameGrows, SameStore DEF ActInv, ContinueInv
<1>3. Expiring'
  BY DEF ActInv, Expiring, store
<1>4. Acting'
  <2> SUFFICES ASSUME Calm', NEW t \in Askers, target' = t
               PROVE  Acted(t)'
    BY DEF Acting
  <2>1. Acted(t) /\ request'[t] = request[t]
    BY DEF store, ActInv, Acting
  <2> QED
    BY <2>1, ActedSame
<1>5. First \in Jobs
  BY DEF Jobs
<1> QED
  BY <1>2, <1>3, <1>4, <1>5, AwayActs

-----------------------------------------------------------------------------
(* A decision that stands is acted on: the sweep.                              *)

\* The sweep ends a request, or hands it to the deadline's job, which is not there yet.
LEMMA SweepMoves ==
  ASSUME ApprovalAssumption, ActInv, ContinueInv', NEW r \in Timed, NEW op \in {"cancel", "expire"},
         Move(op, r, Expiry(r)), happened \subseteq happened',
         UNCHANGED <<late, file, at, found, listener, queue, bound>>,
         sweep'.pc = "add" => sweep'.request = r /\ op = "expire" /\ Ok(op, r, Expiry(r))
  PROVE  ActInv'
<1>1. r \in Askers /\ Expiry(r) \in Jobs /\ op \in Ops /\ Lasting /\ request[r] \in RequestOf
  BY DEF ApprovalAssumption, Jobs, Ops, Lasting, ActInv, ContinueInv, Typed, StoreTyped
<1>2. StoreGrows /\ Dues' /\ Claimer'
  BY <1>1, MoveSafe
<1>3. Changes(op, r, Expiry(r)) /\ op = "expire" =>
        /\ request[r].state = "pending"
        /\ request'[r].state = "decided" /\ request'[r].decision = "expiry"
  <2> SUFFICES ASSUME Changes(op, r, Expiry(r)), op = "expire"
               PROVE  /\ request[r].state = "pending"
                      /\ request'[r].state = "decided" /\ request'[r].decision = "expiry"
    OBVIOUS
  <2>1. request[r].state = "pending" /\ r \in late
    BY DEF Changes, Undecided
  <2>2. request'[r] = [request[r] EXCEPT !.state = "decided", !.decision = "expiry"]
    BY <1>1, <2>1 DEF Move, Becomes, ActInv, ContinueInv, Typed, StoreTyped
  <2> QED
    BY <1>1, <2>1, <2>2 DEF RequestOf
<1>4. Expiring'
  <2>1. \A q \in Askers : request[q].state \notin {"none", "pending"} =>
                            request'[q].state \notin {"none", "pending"}
    BY <1>2 DEF ActInv, ContinueInv, StoreGrows, Grows, Decisions
  <2>2. sweep'.pc = "add" => request'[r].state \notin {"none", "pending"}
    <3>1. Repeats("expire", r, Expiry(r)) => request[r].state \notin {"none", "pending"}
      BY <1>1 DEF Repeats, ActInv, ContinueInv, Decisions, ApprovalAssumption
    <3> QED
      BY <1>1, <1>3, <2>1, <3>1 DEF Ok
  <2> QED
    BY <2>1, <2>2 DEF ActInv, Expiring, ApprovalAssumption
<1>5. Acting'
  <2> SUFFICES ASSUME Calm'
               PROVE  file' # "unreadable" /\ \A t \in Askers : target' = t => Acted(t)'
    BY DEF Acting
  <2>1. Calm /\ file' # "unreadable"
    BY DEF Calm, ActInv, Acting
  <2>2. ASSUME NEW t \in Askers, target' = t
        PROVE  Acted(t)'
    <3>1. /\ target = t
          /\ \/ request'[t] = request[t]
             \/ t = r /\ op = "expire" /\ Changes(op, r, Expiry(r))
      BY <1>1, <2>2, MoveTarget DEF ActInv, ContinueInv
    <3>2. CASE request'[t] = request[t]
      BY <2>1, <3>1, <3>2, ActedSame DEF ActInv, Acting
    <3>3. CASE t = r /\ op = "expire" /\ Changes(op, r, Expiry(r))
      BY <1>3, <3>3 DEF Acted, ActInv, Expiring
    <3> QED
      BY <3>1, <3>2, <3>3
  <2> QED
    BY <2>1, <2>2
<1> QED
  BY <1>1, <1>2, <1>4, <1>5, AwayActs

\* The deadline's job comes to the request it is bound to.
LEMMA SweepAdds ==
  ASSUME ApprovalAssumption, ActInv, ContinueInv', NEW r \in Timed, r = sweep.request,
         sweep.pc = "add", ExpiryJob(r), sweep'.pc # "add", happened \subseteq happened',
         UNCHANGED <<store, late, file, at, found, listener>>
  PROVE  ActInv'
<1>1. CASE queue[Expiry(r)] # "none"
  BY <1>1, IdleActs DEF ExpiryJob, Calm, ActInv, Acting
<1>2. CASE queue[Expiry(r)] = "none"
  <2>1. r \in Askers /\ Expiry(r) \in Jobs
    BY DEF ApprovalAssumption, Jobs
  <2>2. /\ queue'[Expiry(r)] = "waiting" /\ bound'[Expiry(r)] = r
        /\ \A k \in Jobs \ {Expiry(r)} : queue'[k] = queue[k] /\ bound'[k] = bound[k]
    BY <1>2, <2>1 DEF ExpiryJob, ActInv, ContinueInv, Typed, PickupTyped
  <2>3. Lasting /\ Apart(Expiry(r))
    BY <1>2, <2>2 DEF Lasting, Apart
  <2>4. StoreGrows /\ Dues' /\ Claimer'
    BY <2>3, SameGrows, SameStore DEF ActInv, ContinueInv
  <2>5. Expiring'
    <3>1. \A q \in Timed : Expiry(q) \in Jobs /\ (q # r => Expiry(q) # Expiry(r))
      BY ExpiryApart DEF Jobs
    <3> QED
      BY <2>2, <3>1 DEF ActInv, Expiring, store
  <2>6. Acting'
    <3> SUFFICES ASSUME Calm'
                 PROVE  file' # "unreadable" /\ \A t \in Askers : target' = t => Acted(t)'
      BY DEF Acting
    <3>1. Calm /\ file' # "unreadable"
      BY DEF Calm, ActInv, Acting
    <3>2. ASSUME NEW t \in Askers, target' = t
          PROVE  Acted(t)'
      <4>1. Acted(t) /\ request'[t] = request[t]
        BY <3>1, <3>2 DEF store, ActInv, Acting
      <4>2. Decides(t, Expiry(r)) => at'[Expiry(r)] = "claim" /\ found'[Expiry(r)].request = t
        BY <4>1 DEF Decides, Acted
      <4>3. \A phases : Coming(Expiry(r), t, phases)'
        BY <2>2 DEF Coming
      <4> QED
        BY <2>1, <2>3, <4>1, <4>2, <4>3, FrameActs
    <3> QED
      BY <3>1, <3>2
  <2> QED
    BY <2>1, <2>2, <2>4, <2>5, <2>6, AwayActs
<1> QED
  BY <1>1, <1>2

LEMMA SweepActs ==
  ASSUME ApprovalAssumption, ActInv, ContinueInv',
         SweepPolicy \/ SweepCancel \/ SweepExpire \/ SweepAdd \/ SweepFails
           \/ \E r \in Askers : SweepLook(r)
  PROVE  ActInv'
<1>1. /\ UNCHANGED <<late, file, at, found, listener>> /\ happened \subseteq happened'
      /\ Calm' => Calm /\ file' # "unreadable"
  BY DEF SweepPolicy, SweepCancel, SweepExpire, SweepAdd, SweepFails, SweepLook, Sweeping, outside,
     luck, Note, Calm, ActInv, Acting
<1>2. CASE UNCHANGED <<store, queue, bound>> /\ sweep'.pc # "add"
  BY <1>1, <1>2, IdleActs
<1>3. CASE /\ sweep.pc \in {"cancel", "expire"} /\ Move(sweep.pc, sweep.request, Expiry(sweep.request))
           /\ UNCHANGED <<queue, bound>>
           /\ sweep'.pc = "add" => /\ sweep.pc = "expire" /\ sweep'.request = sweep.request
                                   /\ Ok("expire", sweep.request, Expiry(sweep.request))
  <2>1. sweep.request \in Timed
    BY <1>3 DEF ActInv, ContinueInv, Typed, SweepTyped
  <2> SUFFICES ASSUME NEW r \in Timed, r = sweep.request, NEW op \in {"cancel", "expire"}, op = sweep.pc
               PROVE  ActInv'
    BY <1>3, <2>1
  <2> QED
    BY <1>1, <1>3, SweepMoves
<1>4. CASE /\ sweep.pc = "add" /\ ExpiryJob(sweep.request) /\ sweep'.pc # "add"
           /\ UNCHANGED store
  <2>1. sweep.request \in Timed
    BY <1>4 DEF ActInv, ContinueInv, Typed, SweepTyped
  <2> SUFFICES ASSUME NEW r \in Timed, r = sweep.request
               PROVE  ActInv'
    BY <2>1
  <2> QED
    BY <1>1, <1>4, SweepAdds
<1>5. CASE SweepPolicy \/ \E r \in Askers : SweepLook(r)
  <2>1. sweep'.pc # "add" /\ UNCHANGED <<store, queue, bound>>
    BY <1>5 DEF SweepPolicy, SweepLook, Sweeping, Resting, ActInv, ContinueInv, Typed, SweepTyped
  <2> QED
    BY <1>2, <2>1
<1>6. CASE SweepCancel
  BY <1>3, <1>6 DEF SweepCancel, Sweeping, Resting
<1>7. CASE SweepExpire
  <2>1. sweep'.pc = "add" => /\ sweep'.request = sweep.request
                             /\ Ok("expire", sweep.request, Expiry(sweep.request))
    BY <1>7 DEF SweepExpire, Sweeping, Resting, ActInv, ContinueInv, Typed, SweepTyped
  <2> QED
    BY <1>3, <1>7, <2>1 DEF SweepExpire, Sweeping
<1>8. CASE SweepAdd
  BY <1>4, <1>8 DEF SweepAdd, Sweeping, Resting
<1>9. CASE SweepFails
  BY <1>2, <1>3, <1>4, <1>9 DEF SweepFails, Sweeping, Resting
<1> QED
  BY <1>5, <1>6, <1>7, <1>8, <1>9

-----------------------------------------------------------------------------
(* A decision that stands is acted on.                                         *)

\* Time passes, and an operator or a newer release edits the file.
LEMMA OutsideActs ==
  ASSUME ApprovalAssumption, ActInv, ContinueInv',
         \/ \E r \in Askers : DeadlinePasses(r)
         \/ \E to \in {"same", "changed", "newer", "unreadable"} : Edit(to)
  PROVE  ActInv'
<1>1. /\ UNCHANGED <<store, at, found, listener, queue, bound, sweep>> /\ late \subseteq late'
      /\ Calm' => Calm
  BY DEF DeadlinePasses, Edit, pickup, luck, Note, Calm
<1>2. Calm' => file' # "unreadable"
  BY DEF DeadlinePasses, Edit, luck, Note, Calm, ActInv, Acting
<1> QED
  BY <1>1, <1>2, IdleActs

\* A death forgets every pickup, and may leave a target taken.
LEMMA CrashActs ==
  ASSUME ApprovalAssumption, ActInv, ContinueInv', Crash
  PROVE  ActInv'
<1>1. /\ UNCHANGED <<store, late, bound>> /\ found' = [j \in Jobs |-> Nothing] /\ ~Calm'
      /\ sweep' = Resting /\ \A k \in Jobs : queue'[k] = "none" <=> queue[k] = "none"
  BY DEF Crash, outside, Note, Calm
<1>2. Lasting
  BY <1>1 DEF Lasting
<1>3. Dues' /\ Claimer'
  BY <1>1, <1>2, SameStore DEF ActInv
<1>4. Reading' /\ Over'
  BY <1>1 DEF Reading, Reads, Over, Passed, Nothing
<1>5. Expiring'
  BY <1>1 DEF Expiring, ActInv, store, Resting, Jobs
<1>6. Acting'
  BY <1>1 DEF Acting
<1> QED
  BY <1>3, <1>4, <1>5, <1>6 DEF ActInv

LEMMA ActInit ==
  ASSUME ApprovalAssumption, Init
  PROVE  ActInv
<1>1. ContinueInv
  BY ContinueInit
<1>2. Reading /\ Over
  BY DEF Init, Reading, Reads, Over, Passed, Nothing
<1>3. Dues /\ Claimer
  BY DEF Init, Dues, Claimer, Claimed, Unasked, ApprovalAssumption
<1>4. Expiring
  BY DEF Init, Expiring, Resting, Jobs, ApprovalAssumption
<1>5. Acting
  BY DEF Init, Acting, ApprovalAssumption
<1> QED
  BY <1>1, <1>2, <1>3, <1>4, <1>5 DEF ActInv

LEMMA ActKept ==
  ASSUME ApprovalAssumption, ActInv, [Next]_vars
  PROVE  ActInv'
<1>1. ContinueInv'
  BY ContinueKept DEF ActInv
<1>2. CASE Next
  BY <1>1, <1>2, AddActs, AgainActs, FindActs, PolicyActs, EndActs, DecideActs, ClaimActs, RunningActs,
     PublishActs, UnansweredActs, ListenActs, SweepActs, OutsideActs, CrashActs DEF Next, Running
<1>3. CASE UNCHANGED vars
  BY <1>1, <1>3, IdleActs DEF vars, pickup, outside, luck, Calm, ActInv, Acting
<1> QED
  BY <1>2, <1>3

\* What ActInv says of a target that waits for a request with a decision: someone
\* who is bound to the request is still to act, or the sweep is.
LEMMA ActInvActs ==
  ASSUME ApprovalAssumption, ActInv
  PROVE  DecisionIsActedOn
<1> SUFFICES ASSUME Calm, NEW r \in Askers, target = r, request[r].state \in {"decided", "claimed"}
             PROVE  \/ r \in due \cap late /\ queue[Expiry(r)] = "none"
                    \/ \E j \in Jobs : /\ bound[j] = r
                                       /\ queue[j] \in {"waiting", "active"} \/ listener[j] = "due"
  BY DEF DecisionIsActedOn, Calm
<1>1. Acted(r) /\ r # None
  BY DEF ActInv, Acting, ApprovalAssumption
<1>2. ASSUME NEW j \in Jobs, NEW phases \in {Onward, {"policy", "cancel", "claim"}}, Coming(j, r, phases)
      PROVE  queue[j] \in {"waiting", "active"}
  BY <1>2, AtWork DEF Coming, Onward, ActInv
<1>3. CASE request[r].state = "claimed"
  <2>1. request[r].job \in Jobs /\ bound[request[r].job] = r
    BY <1>3 DEF ActInv, Claimer, Claimed
  <2> QED
    BY <1>1, <1>2, <1>3, <2>1 DEF Acted
<1>4. CASE request[r].state = "decided" /\ request[r].decision = "expiry"
  <2>1. r \in Timed /\ r \in due \cap late /\ Expiry(r) \in Jobs
    BY <1>4 DEF ActInv, Dues, Jobs
  <2>2. queue[Expiry(r)] # "none" => bound[Expiry(r)] = r /\ queue[Expiry(r)] \in {"waiting", "active"}
    BY <1>1, <1>2, <1>4, <2>1 DEF Acted, ActInv, Expiring
  <2> QED
    BY <2>1, <2>2
<1>5. CASE request[r].state = "decided" /\ request[r].decision # "expiry"
  <2>1. PICK j \in Jobs : at[j] = "claim" /\ found[j].request = r
    BY <1>1, <1>5 DEF Acted
  <2> QED
    BY <2>1, AtWork DEF ActInv
<1> QED
  BY <1>3, <1>4, <1>5

\* While nothing dies, goes without an answer or cannot be read, a target that waits
\* for a decided or claimed request has somebody to come: a job bound to the request,
\* the failed listener of one, or the sweep with the deadline's job.
THEOREM DecisionIsActedOnHolds ==
  ASSUME ApprovalAssumption
  PROVE  Spec => []DecisionIsActedOn
BY ActInit, ActKept, ActInvActs, PTL DEF Spec

-----------------------------------------------------------------------------
\* The store's keys and the jobs of the queue keep their values.
THEOREM ApprovalTypeHolds == ASSUME ApprovalAssumption PROVE Spec => []TypeOK
<1>1. ContinueInv => TypeOK
  BY DEF ContinueInv, Typed, StoreTyped, PickupTyped, RequestOf, TypeOK
<1> QED
  BY <1>1, ContinueInit, ContinueKept, PTL DEF Spec
=============================================================================
