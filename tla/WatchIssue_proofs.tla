-------------------------- MODULE WatchIssue_proofs --------------------------
(* What TLAPS proves of WatchIssue, for every number of publishing jobs,       *)
(* attempts and sweepers, every quiet time and every bound on lost answers,    *)
(* deaths and edits of the policy: an identity has one issue on the forge, at  *)
(* rest the issue is as the mapping says, and an open one with a quiet time    *)
(* stays on the list the sweeps read.                                          *)
EXTENDS WatchIssue, TLAPS

Places == {"ready", "reserve", "note", "find", "adopt", "create", "update", "set", "schedule"}
          \union Over

\* The jobs that own the reservation and have not asked the forge yet.
Creators == {j \in Jobs : held[j] = Unmapped /\ publish[j] \in {"note", "create"}}

Shapes == publish \in [Jobs -> Places] /\ held \in [Jobs -> Mapping] /\ mapping \in Mapping

Policies == target \in [Jobs -> BOOLEAN] /\ policy \in BOOLEAN

\* The one issue is still to be created by the one owner of the reservation, or
\* nobody is going to create it.
OwnerInv ==
  /\ Shapes
  /\ issues \in {0, 1}
  /\ \A j, k \in Creators : j = k
  /\ Creators # {} => issues = 0
  /\ mapping.state = "none" => mapping = Unmapped /\ issues = 0 /\ Creators = {}
  /\ \A j \in Jobs : publish[j] = "create" => held[j] = Unmapped

-----------------------------------------------------------------------------
LEMMA MappingMade ==
  /\ Unmapped \in Mapping /\ Unmapped.state = "none"
  /\ \A m \in Mapping : m.state # "none" => m # Unmapped
  /\ \A b \in BOOLEAN : \A s \in {"pending", "mapped"} :
       [state |-> s, quiet |-> b] \in Mapping /\ [state |-> s, quiet |-> b].state = s
  /\ \A m \in Mapping : \A s \in {"mapped", "closed"} :
       [m EXCEPT !.state = s] \in Mapping /\ [m EXCEPT !.state = s].state = s
  BY DEF Mapping, Unmapped

\* A step that creates nothing, makes nobody an owner and does not take the
\* mapping back.
LEMMA Kept ==
  ASSUME OwnerInv, Shapes', issues' = issues, Creators' \subseteq Creators,
         mapping' = mapping \/ mapping'.state # "none",
         \A j \in Jobs : publish'[j] = "create" => held'[j] = Unmapped
  PROVE  OwnerInv'
<1>1. Creators' # {} => issues' = 0
  BY DEF OwnerInv
<1>2. \A j, k \in Creators' : j = k
  BY DEF OwnerInv
<1>3. mapping'.state = "none" => mapping' = Unmapped /\ issues' = 0 /\ Creators' = {}
  BY DEF OwnerInv
<1> QED
  BY <1>1, <1>2, <1>3 DEF OwnerInv, Unmapped

\* A job that goes on to a place from which it creates nothing.
LEMMA Moved ==
  ASSUME OwnerInv, NEW j \in Jobs, NEW to \in Places \ {"note", "create"},
         publish' = [publish EXCEPT ![j] = to], held' = held, issues' = issues,
         mapping' \in Mapping, mapping' = mapping \/ mapping'.state # "none"
  PROVE  OwnerInv'
<1>1. Shapes'
  BY DEF OwnerInv, Shapes
<1>2. Creators' \subseteq Creators
  BY DEF OwnerInv, Shapes, Creators
<1>3. \A k \in Jobs : publish'[k] = "create" => held'[k] = Unmapped
  BY DEF OwnerInv, Shapes
<1> QED
  BY <1>1, <1>2, <1>3, Kept

\* A step of a sweeper or of the surroundings.
LEMMA Aside ==
  ASSUME OwnerInv, UNCHANGED <<publish, held, issues>>,
         mapping' \in Mapping, mapping' = mapping \/ mapping'.state # "none"
  PROVE  OwnerInv'
<1>1. Shapes' /\ Creators' = Creators
  BY DEF OwnerInv, Shapes, Creators
<1>2. \A k \in Jobs : publish'[k] = "create" => held'[k] = Unmapped
  BY DEF OwnerInv
<1> QED
  BY <1>1, <1>2, Kept

\* The owner asks the forge: whatever it learns, nobody asks again.
LEMMA Created ==
  ASSUME OwnerInv, NEW j \in Jobs, publish[j] = "create", NEW to \in Places \ {"note", "create"},
         publish' = [publish EXCEPT ![j] = to], held' = held, issues' = issues + 1,
         mapping' = mapping
  PROVE  OwnerInv'
<1>1. Shapes'
  BY DEF OwnerInv, Shapes
<1>2. Creators = {j}
  BY DEF OwnerInv, Creators
<1>3. Creators' = {}
  BY <1>2 DEF OwnerInv, Shapes, Creators
<1>4. issues = 0 /\ mapping.state # "none"
  BY <1>2 DEF OwnerInv
<1>5. \A k \in Jobs : publish'[k] = "create" => held'[k] = Unmapped
  BY DEF OwnerInv, Shapes
<1> QED
  BY <1>1, <1>3, <1>4, <1>5 DEF OwnerInv

LEMMA OwnerInit == Init => OwnerInv
<1> SUFFICES ASSUME Init PROVE OwnerInv
  OBVIOUS
<1>1. Shapes
  BY MappingMade DEF Init, Shapes, Places
<1>2. Creators = {}
  BY DEF Init, Creators
<1> QED
  BY <1>1, <1>2, MappingMade DEF Init, OwnerInv

LEMMA OwnerStep == OwnerInv /\ Policies /\ [Next]_vars => OwnerInv'
<1> SUFFICES ASSUME OwnerInv, Policies, [Next]_vars PROVE OwnerInv'
  OBVIOUS
<1> USE DEF keys, forge, jobs, history
<1>1. ASSUME NEW j \in Jobs, Begin(j) PROVE OwnerInv'
  <2>1. mapping' \in Mapping
    BY <1>1 DEF Begin, OwnerInv, Shapes
  <2> QED
    BY <1>1, <2>1, Moved DEF Begin, Goes, Places
<1>2. ASSUME NEW j \in Jobs, Reserve(j) PROVE OwnerInv'
  <2>1. CASE mapping = Unmapped /\ ~room
    <3>1. mapping' \in Mapping
      BY <1>2, <2>1 DEF Reserve, OwnerInv, Shapes
    <3> QED
      BY <1>2, <2>1, <3>1, Moved DEF Reserve, Goes, Places, Over
  <2>2. CASE mapping # Unmapped
    <3>1. publish' = [publish EXCEPT ![j] = "note"] /\ held' = [held EXCEPT ![j] = mapping]
          /\ mapping' = mapping /\ issues' = issues
      BY <1>2, <2>2 DEF Reserve, Goes
    <3>2. Shapes'
      BY <3>1 DEF OwnerInv, Shapes, Places
    <3>3. Creators' \subseteq Creators
      BY <2>2, <3>1 DEF OwnerInv, Shapes, Creators
    <3>4. \A k \in Jobs : publish'[k] = "create" => held'[k] = Unmapped
      BY <3>1 DEF OwnerInv, Shapes
    <3> QED
      BY <3>1, <3>2, <3>3, <3>4, Kept
  <2>3. CASE mapping = Unmapped /\ room
    <3>1. publish' = [publish EXCEPT ![j] = "note"] /\ held' = [held EXCEPT ![j] = mapping]
          /\ mapping' = [state |-> "pending", quiet |-> target[j]] /\ issues' = issues
      BY <1>2, <2>3 DEF Reserve, Goes
    <3>2. issues = 0 /\ Creators = {}
      BY <2>3, MappingMade DEF OwnerInv
    <3>3. Creators' = {j}
      BY <2>3, <3>1, <3>2 DEF OwnerInv, Shapes, Creators
    <3>4. mapping' \in Mapping /\ mapping'.state = "pending"
      BY <3>1, MappingMade DEF Policies
    <3>5. \A k \in Jobs : publish'[k] = "create" => held'[k] = Unmapped
      BY <3>1 DEF OwnerInv, Shapes
    <3>6. Shapes'
      BY <2>3, <3>1, <3>4, MappingMade DEF OwnerInv, Shapes, Places
    <3>7. issues' = 0
      BY <3>1, <3>2
    <3> QED
      BY <3>3, <3>4, <3>5, <3>6, <3>7 DEF OwnerInv
  <2> QED
    BY <2>1, <2>2, <2>3
<1>3. ASSUME NEW j \in Jobs, NoteOwn(j) PROVE OwnerInv'
  <2>1. publish[j] = "note" /\ publish' = [publish EXCEPT ![j] = NextCall(j)] /\ held' = held
        /\ mapping' = mapping /\ issues' = issues
    BY <1>3 DEF NoteOwn, Goes
  <2>2. NextCall(j) \in {"create", "find", "update"}
        /\ (NextCall(j) = "create" <=> held[j] = Unmapped)
    <3>1. CASE held[j] = Unmapped
      BY <3>1 DEF NextCall, Unmapped
    <3>2. CASE held[j] # Unmapped /\ held[j].state = "pending"
      BY <3>2 DEF NextCall
    <3>3. CASE held[j] # Unmapped /\ held[j].state # "pending"
      BY <3>3 DEF NextCall
    <3> QED
      BY <3>1, <3>2, <3>3
  <2>3. Shapes'
    BY <2>1, <2>2 DEF OwnerInv, Shapes, Places
  <2>4. Creators' \subseteq Creators
    BY <2>1, <2>2 DEF OwnerInv, Shapes, Creators
  <2>5. \A k \in Jobs : publish'[k] = "create" => held'[k] = Unmapped
    BY <2>1, <2>2 DEF OwnerInv, Shapes
  <2> QED
    BY <2>1, <2>3, <2>4, <2>5, Kept
<1>4. ASSUME NEW j \in Jobs, Find(j) PROVE OwnerInv'
  <2>1. \E to \in {"uncertain", "adopt"} : publish' = [publish EXCEPT ![j] = to]
    BY <1>4 DEF Find, Goes, Unseen
  <2>2. PICK to \in {"uncertain", "adopt"} : publish' = [publish EXCEPT ![j] = to]
    BY <2>1
  <2>3. to \in Places \ {"note", "create"} /\ mapping' = mapping /\ mapping' \in Mapping
        /\ held' = held /\ issues' = issues
    BY <1>4 DEF Find, Places, Over, OwnerInv, Shapes
  <2> QED
    BY <2>2, <2>3, Moved
<1>5. ASSUME NEW j \in Jobs, Create(j) PROVE OwnerInv'
  BY <1>5, Created DEF Create, Goes, Places
<1>6. ASSUME NEW j \in Jobs, Update(j) PROVE OwnerInv'
  <2>1. mapping' \in Mapping
    BY <1>6 DEF Update, OwnerInv, Shapes
  <2> QED
    BY <1>6, <2>1, Moved DEF Update, Goes, Places
<1>7. ASSUME NEW j \in Jobs, SetMapping(j) PROVE OwnerInv'
  <2>1. PICK to \in {"update", "schedule"} : publish' = [publish EXCEPT ![j] = to]
    BY <1>7 DEF SetMapping, Goes
  <2>2. mapping' \in Mapping /\ mapping'.state = "mapped"
    BY <1>7, MappingMade DEF SetMapping, Settled, Policies
  <2>3. to \in Places \ {"note", "create"} /\ held' = held /\ issues' = issues
    BY <1>7 DEF SetMapping, Places
  <2> QED
    BY <2>1, <2>2, <2>3, Moved
<1>8. ASSUME NEW j \in Jobs, Schedule(j) PROVE OwnerInv'
  <2>1. PICK to \in {"created", "updated"} : publish' = [publish EXCEPT ![j] = to]
    BY <1>8 DEF Schedule, Goes
  <2>2. to \in Places \ {"note", "create"} /\ mapping' = mapping /\ mapping' \in Mapping
        /\ held' = held /\ issues' = issues
    BY <1>8 DEF Schedule, Places, Over, OwnerInv, Shapes
  <2> QED
    BY <2>1, <2>2, Moved
<1>9. ASSUME NEW j \in Jobs, Fails(j) PROVE OwnerInv'
  <2>1. PICK to \in {"ready", "failed"} : publish' = [publish EXCEPT ![j] = to]
    BY <1>9 DEF Fails
  <2>2. to \in Places \ {"note", "create"} /\ mapping' = mapping /\ mapping' \in Mapping
        /\ held' = held
    BY <1>9 DEF Fails, Places, Over, OwnerInv, Shapes
  <2>3. CASE issues' = issues
    BY <2>1, <2>2, <2>3, Moved
  <2>4. CASE publish[j] = "create" /\ issues' = issues + 1
    BY <2>1, <2>2, <2>4, Created
  <2> QED
    BY <1>9, <2>3, <2>4 DEF Fails
<1>10. ASSUME NEW j \in Jobs, Dies(j) PROVE OwnerInv'
  <2>1. mapping' \in Mapping
    BY <1>10 DEF Dies, OwnerInv, Shapes
  <2> QED
    BY <1>10, <2>1, Moved DEF Dies, Places
<1>11. ASSUME NEW s \in Sweepers,
              \/ List(s) \/ ReadMapping(s) \/ ReadActivity(s) \/ Remove(s) \/ Later(s)
              \/ Claim(s) \/ Close(s) \/ Reopen(s) \/ ScheduleAgain(s) \/ Unlock(s)
              \/ CallFails(s) \/ SweeperDies(s)
       PROVE  OwnerInv'
  <2>1. UNCHANGED <<publish, held, issues, mapping>>
    BY <1>11 DEF List, ReadMapping, ReadActivity, Remove, Later, Claim, Close, Reopen,
                 ScheduleAgain, Unlock, CallFails, SweeperDies
  <2>2. mapping' \in Mapping
    BY <2>1 DEF OwnerInv, Shapes
  <2> QED
    BY <2>1, <2>2, Aside
<1>12. ASSUME NEW s \in Sweepers, Commit(s) \/ Restore(s) PROVE OwnerInv'
  <2>1. UNCHANGED <<publish, held, issues>>
    BY <1>12 DEF Commit, Restore
  <2>2. mapping' \in Mapping /\ (mapping' = mapping \/ mapping'.state # "none")
    BY <1>12, MappingMade DEF Commit, Restore, OwnerInv, Shapes
  <2> QED
    BY <2>1, <2>2, Aside
<1>13. ASSUME NoteActivity \/ LockLapses \/ Edit \/ Tick PROVE OwnerInv'
  <2>1. UNCHANGED <<publish, held, issues, mapping>>
    BY <1>13 DEF NoteActivity, LockLapses, Edit, Tick
  <2>2. mapping' \in Mapping
    BY <2>1 DEF OwnerInv, Shapes
  <2> QED
    BY <2>1, <2>2, Aside
<1>14. ASSUME UNCHANGED vars PROVE OwnerInv'
  <2>1. UNCHANGED <<publish, held, issues, mapping>> /\ mapping' \in Mapping
    BY <1>14 DEF vars, OwnerInv, Shapes
  <2> QED
    BY <2>1, Aside
<1> QED
  BY <1>1, <1>2, <1>3, <1>4, <1>5, <1>6, <1>7, <1>8, <1>9, <1>10, <1>11, <1>12, <1>13, <1>14
  DEF Next

\* A reviewed rule either has a quiet time or has none, and a job keeps what it read.
LEMMA PoliciesStep == Policies /\ [Next]_vars => Policies'
<1> SUFFICES ASSUME Policies, [Next]_vars PROVE Policies'
  OBVIOUS
<1> USE DEF keys, forge, jobs, history
<1>1. ASSUME NEW j \in Jobs, Begin(j) PROVE Policies'
  BY <1>1 DEF Begin, Policies
<1>2. ASSUME NEW j \in Jobs,
             \/ Reserve(j) \/ NoteOwn(j) \/ Find(j) \/ Create(j) \/ Update(j) \/ SetMapping(j)
             \/ Schedule(j) \/ Fails(j) \/ Dies(j)
      PROVE  Policies'
  <2>1. UNCHANGED <<target, policy>>
    BY <1>2 DEF Reserve, NoteOwn, Find, Create, Update, SetMapping, Schedule, Fails, Dies
  <2> QED
    BY <2>1 DEF Policies
<1>3. ASSUME NEW s \in Sweepers,
             \/ List(s) \/ ReadMapping(s) \/ ReadActivity(s) \/ Remove(s) \/ Later(s)
             \/ Claim(s) \/ Close(s) \/ Commit(s) \/ Reopen(s) \/ Restore(s) \/ ScheduleAgain(s)
             \/ Unlock(s) \/ CallFails(s) \/ SweeperDies(s)
      PROVE  Policies'
  <2>1. UNCHANGED <<target, policy>>
    BY <1>3 DEF List, ReadMapping, ReadActivity, Remove, Later, Claim, Close, Commit, Reopen,
                Restore, ScheduleAgain, Unlock, CallFails, SweeperDies
  <2> QED
    BY <2>1 DEF Policies
<1>4. ASSUME NoteActivity \/ LockLapses \/ Edit \/ Tick PROVE Policies'
  BY <1>4 DEF NoteActivity, LockLapses, Edit, Tick, Policies
<1>5. ASSUME UNCHANGED vars PROVE Policies'
  BY <1>5 DEF vars, Policies
<1> QED
  BY <1>1, <1>2, <1>3, <1>4, <1>5 DEF Next

\* Whoever reserves the identity, dies before its create, loses the forge's answer
\* or is tried again: the forge is asked for one issue and no second one.
THEOREM OneIssueHolds == Spec => []OneIssue
<1>1. Init => OwnerInv /\ Policies
  BY OwnerInit DEF Init, Policies
<1>2. OwnerInv /\ Policies /\ [Next]_vars => (OwnerInv /\ Policies)'
  BY OwnerStep, PoliciesStep
<1>3. OwnerInv => OneIssue
  BY DEF OwnerInv, OneIssue
<1> QED
  BY <1>1, <1>2, <1>3, PTL DEF Spec

-----------------------------------------------------------------------------
\* The types of what the sweepers read.
SweepPlaces == {"idle", "map", "activity", "remove", "later", "ask", "close", "commit", "reopen",
                "restore", "again", "unlock"}
Notes == [at : Nat, version : Nat]
Calls == [at : SweepPlaces, raw : Mapping, act : Notes]
Read ==
  /\ sweep \in [Sweepers -> Calls] /\ activity \in Notes /\ clock \in Nat
  /\ open \in BOOLEAN /\ publish \in [Jobs -> Places] /\ mapping \in Mapping /\ Policies

Publishing(places) == \E j \in Jobs : publish[j] \in places
Sweeping(places) == \E s \in Sweepers : sweep[s].at \in places
Working == {"find", "adopt", "create", "update", "set", "schedule"}
Known(act) == act.version <= activity.version /\ (act.version = activity.version => act = activity)

\* The inductive invariant of ShownAsMapped, while no call fails and nobody dies.  One
\* sweeper at a time is past its claim; ...
Locked ==
  \A s \in Sweepers :
    sweep[s].at \in {"close", "commit", "reopen", "restore", "again", "unlock"} => lock = s
\* ... a job that publishes has just noted activity, which is no quiet time ago, so
\* a sweeper that finds what it read unchanged has nobody beside it; ...
Fresh == Publishing(Working) => activity.at = clock
Judged ==
  \A s \in Sweepers : sweep[s].at \in {"ask", "close", "commit"} =>
                        Due(sweep[s].act) /\ Known(sweep[s].act)
Shut == \A s \in Sweepers : sweep[s].at = "commit" => ~open \/ activity # sweep[s].act
\* ... and where the forge does not show the mapping, who will see to it.
AsClosed == mapping.state = "closed" => ~open \/ Publishing({"set"}) \/ Sweeping({"restore"})
AsMapped ==
  mapping.state = "mapped" \/ Publishing({"set"}) =>
    open \/ Publishing({"update"}) \/ Sweeping({"commit", "reopen"})
Undone == Sweeping({"restore"}) => open
Still == happened \subseteq {"policy"}
Sealed == Locked /\ Fresh /\ Judged /\ Shut /\ AsClosed /\ AsMapped /\ Undone
ShownInv == Read /\ (Still => Sealed)

\* The step of a job, and of a sweeper, to its next place.
LEMMA JobGoes ==
  ASSUME Read, NEW j \in Jobs, NEW to \in Places, publish' = [publish EXCEPT ![j] = to]
  PROVE  /\ publish' \in [Jobs -> Places]
         /\ publish'[j] = to
         /\ \A k \in Jobs : k # j => publish'[k] = publish[k]
  BY DEF Read

LEMMA SweeperGoes ==
  ASSUME Read, NEW s \in Sweepers, NEW to \in SweepPlaces, sweep' = [sweep EXCEPT ![s].at = to]
  PROVE  /\ sweep' \in [Sweepers -> Calls]
         /\ sweep'[s].at = to
         /\ \A t \in Sweepers : t # s => sweep'[t].at = sweep[t].at
         /\ \A t \in Sweepers : sweep'[t].raw = sweep[t].raw /\ sweep'[t].act = sweep[t].act
<1>1. \A t \in Sweepers : sweep[t] \in Calls
  BY DEF Read
<1>2. [sweep[s] EXCEPT !.at = to] \in Calls
  BY <1>1 DEF Calls
<1>3. sweep' = [sweep EXCEPT ![s] = [sweep[s] EXCEPT !.at = to]]
  BY DEF Read
<1>4. \A t \in Sweepers : sweep'[t] = IF t = s THEN [sweep[s] EXCEPT !.at = to] ELSE sweep[t]
  BY <1>3 DEF Read
<1>5. sweep' \in [Sweepers -> Calls]
  BY <1>2, <1>3 DEF Read
<1>6. /\ [sweep[s] EXCEPT !.at = to].at = to
      /\ [sweep[s] EXCEPT !.at = to].raw = sweep[s].raw
      /\ [sweep[s] EXCEPT !.at = to].act = sweep[s].act
  BY <1>1 DEF Calls
<1> QED
  BY <1>4, <1>5, <1>6

\* A quiet time is over for nobody who publishes.
LEMMA QuietAlone ==
  ASSUME Read, Fresh, Due(activity), CloseAfter \in Nat \ {0}
  PROVE  ~Publishing(Working)
  BY DEF Read, Fresh, Due, Notes

\* What was read stays behind what is noted.
LEMMA NotedLater ==
  ASSUME Read, NEW act \in Notes, Known(act),
         activity' = [at |-> clock, version |-> activity.version + 1]
  PROVE  /\ activity' \in Notes /\ activity' # act
         /\ act.version <= activity'.version /\ (act.version = activity'.version => act = activity')
  BY DEF Read, Known, Notes
\* Activity is noted: nothing that was read is unchanged any more.
LEMMA NotedJudged ==
  ASSUME Read, Sealed, activity' = [at |-> clock, version |-> activity.version + 1],
         UNCHANGED <<clock, sweep, open>>
  PROVE  Fresh' /\ Judged' /\ Shut'
<1>1. Fresh'
  BY DEF Fresh
<1>2. ASSUME NEW s \in Sweepers, sweep[s].at \in {"ask", "close", "commit"}
      PROVE  Due(sweep[s].act) /\ activity' # sweep[s].act /\ sweep[s].act.version <= activity'.version
             /\ (sweep[s].act.version = activity'.version => sweep[s].act = activity')
  <2>1. sweep[s].act \in Notes
    BY DEF Read, Calls
  <2>2. Due(sweep[s].act) /\ Known(sweep[s].act)
    BY <1>2 DEF Sealed, Judged
  <2> QED
    BY <2>1, <2>2, NotedLater
<1>3. Judged'
  BY <1>2 DEF Judged, Due, Known
<1>4. Shut'
  BY <1>2 DEF Shut
<1> QED
  BY <1>1, <1>3, <1>4

LEMMA ShownByJob ==
  ASSUME Read, Sealed, CloseAfter \in Nat \ {0}, NEW j \in Jobs,
         \/ Begin(j) \/ Reserve(j) \/ NoteOwn(j) \/ Find(j) \/ Create(j) \/ Update(j)
         \/ SetMapping(j) \/ Schedule(j)
  PROVE  Sealed'
<1> USE DEF keys, forge, jobs, history
<1>1. CASE Begin(j)
  <2>1. /\ publish' = [publish EXCEPT ![j] = "reserve"] /\ publish[j] = "ready"
        /\ UNCHANGED <<mapping, activity, lock, open, clock, sweep>>
    BY <1>1 DEF Begin, Goes
  <2>2. publish'[j] = "reserve" /\ \A k \in Jobs : k # j => publish'[k] = publish[k]
    BY <2>1, JobGoes DEF Places
  <2> QED
    BY <2>1, <2>2 DEF Sealed, Locked, Fresh, Judged, Shut, AsClosed, AsMapped, Undone,
                      Publishing, Sweeping, Working, Due, Known
<1>2. CASE Reserve(j)
  <2>1. PICK to \in {"note", "capped"} : publish' = [publish EXCEPT ![j] = to]
    BY <1>2 DEF Reserve, Goes
  <2>2. /\ publish[j] = "reserve" /\ UNCHANGED <<activity, lock, open, clock, sweep>>
        /\ mapping' = mapping \/ mapping'.state = "pending"
    BY <1>2 DEF Reserve, Goes
  <2>3. publish'[j] = to /\ \A k \in Jobs : k # j => publish'[k] = publish[k]
    BY <2>1, JobGoes DEF Places, Over
  <2> QED
    BY <2>2, <2>3 DEF Sealed, Locked, Fresh, Judged, Shut, AsClosed, AsMapped, Undone,
                      Publishing, Sweeping, Working, Due, Known
<1>3. CASE NoteOwn(j)
  <2>1. /\ publish' = [publish EXCEPT ![j] = NextCall(j)] /\ publish[j] = "note"
        /\ activity' = [at |-> clock, version |-> activity.version + 1]
        /\ UNCHANGED <<mapping, lock, open, clock, sweep>>
    BY <1>3 DEF NoteOwn, Goes, Note
  <2>2. NextCall(j) \in {"create", "find", "update"}
    BY DEF NextCall
  <2>3. publish'[j] \in {"create", "find", "update"}
        /\ \A k \in Jobs : k # j => publish'[k] = publish[k]
    BY <2>1, <2>2, JobGoes DEF Places
  <2>4. Locked' /\ AsClosed' /\ AsMapped' /\ Undone'
    BY <2>1, <2>3 DEF Sealed, Locked, Fresh, Judged, Shut, AsClosed, AsMapped, Undone,
                      Publishing, Sweeping, Working, Due, Known
  <2>5. Fresh' /\ Judged' /\ Shut'
    BY <2>1, NotedJudged
  <2> QED
    BY <2>4, <2>5 DEF Sealed
<1>4. CASE Find(j)
  <2>1. PICK to \in {"uncertain", "adopt"} : publish' = [publish EXCEPT ![j] = to]
    BY <1>4 DEF Find, Goes, Unseen
  <2>2. publish[j] = "find" /\ UNCHANGED <<mapping, activity, lock, open, clock, sweep>>
    BY <1>4 DEF Find, Goes
  <2>3. publish'[j] = to /\ \A k \in Jobs : k # j => publish'[k] = publish[k]
    BY <2>1, JobGoes DEF Places, Over
  <2> QED
    BY <2>2, <2>3 DEF Sealed, Locked, Fresh, Judged, Shut, AsClosed, AsMapped, Undone,
                      Publishing, Sweeping, Working, Due, Known
<1>5. CASE Create(j) \/ Update(j)
  <2>1. /\ publish[j] \in {"create", "update"} /\ publish' = [publish EXCEPT ![j] = "set"]
        /\ open' = TRUE /\ UNCHANGED <<mapping, activity, lock, clock, sweep>>
    BY <1>5 DEF Create, Update, Goes
  <2>2. publish'[j] = "set" /\ \A k \in Jobs : k # j => publish'[k] = publish[k]
    BY <2>1, JobGoes DEF Places
  <2>3. ~Due(activity)
    BY <2>1, QuietAlone DEF Sealed, Publishing, Working
  <2>4. Shut'
    BY <2>1, <2>3 DEF Sealed, Shut, Judged
  <2> QED
    BY <2>1, <2>2, <2>4 DEF Sealed, Locked, Fresh, Judged, AsClosed, AsMapped, Undone,
                            Publishing, Sweeping, Working, Due, Known
<1>6. CASE SetMapping(j)
  <2>1. /\ \/ publish[j] = "adopt" /\ publish' = [publish EXCEPT ![j] = "update"]
           \/ publish[j] = "set" /\ publish' = [publish EXCEPT ![j] = "schedule"]
        /\ mapping' = Settled(j) /\ UNCHANGED <<activity, lock, open, clock, sweep>>
    BY <1>6 DEF SetMapping, Goes
  <2>2. mapping'.state = "mapped"
    BY <2>1 DEF Settled
  <2>3. CASE publish[j] = "adopt" /\ publish' = [publish EXCEPT ![j] = "update"]
    <3>1. publish'[j] = "update" /\ \A k \in Jobs : k # j => publish'[k] = publish[k]
      BY <2>3, JobGoes DEF Places
    <3> QED
      BY <2>1, <2>2, <2>3, <3>1 DEF Sealed, Locked, Fresh, Judged, Shut, AsClosed, AsMapped,
                                    Undone, Publishing, Sweeping, Working, Due, Known
  <2>4. CASE publish[j] = "set" /\ publish' = [publish EXCEPT ![j] = "schedule"]
    <3>1. publish'[j] = "schedule" /\ \A k \in Jobs : k # j => publish'[k] = publish[k]
      BY <2>4, JobGoes DEF Places
    <3> QED
      BY <2>1, <2>2, <2>4, <3>1 DEF Sealed, Locked, Fresh, Judged, Shut, AsClosed, AsMapped,
                                    Undone, Publishing, Sweeping, Working, Due, Known
  <2> QED
    BY <2>1, <2>3, <2>4
<1>7. CASE Schedule(j)
  <2>1. PICK to \in {"created", "updated"} : publish' = [publish EXCEPT ![j] = to]
    BY <1>7 DEF Schedule, Goes
  <2>2. publish[j] = "schedule" /\ UNCHANGED <<mapping, activity, lock, open, clock, sweep>>
    BY <1>7 DEF Schedule, Goes
  <2>3. publish'[j] = to /\ \A k \in Jobs : k # j => publish'[k] = publish[k]
    BY <2>1, JobGoes DEF Places, Over
  <2> QED
    BY <2>2, <2>3 DEF Sealed, Locked, Fresh, Judged, Shut, AsClosed, AsMapped, Undone,
                      Publishing, Sweeping, Working, Due, Known
<1> QED
  BY <1>1, <1>2, <1>3, <1>4, <1>5, <1>6, <1>7

LEMMA ShownBySweeper ==
  ASSUME Read, Sealed, CloseAfter \in Nat \ {0}, NEW s \in Sweepers, None \notin Sweepers,
         \/ List(s) \/ ReadMapping(s) \/ ReadActivity(s) \/ Remove(s) \/ Later(s) \/ Claim(s)
         \/ Close(s) \/ Commit(s) \/ Reopen(s) \/ Restore(s) \/ ScheduleAgain(s) \/ Unlock(s)
  PROVE  Sealed'
<1> USE DEF keys, forge, jobs, history
<1>1. CASE List(s) \/ Remove(s) \/ Later(s)
  <2>1. PICK to \in {"map", "idle"} : sweep' = [sweep EXCEPT ![s].at = to]
    BY <1>1 DEF List, Remove, Later, Moves
  <2>2. /\ sweep[s].at \in {"idle", "remove", "ask", "later"}
        /\ UNCHANGED <<mapping, activity, lock, open, clock, publish>>
    BY <1>1 DEF List, Remove, Later, Moves
  <2>3. /\ sweep'[s].at = to
        /\ \A x \in Sweepers : x # s => sweep'[x].at = sweep[x].at
        /\ \A x \in Sweepers : sweep'[x].act = sweep[x].act
    BY <2>1, SweeperGoes DEF SweepPlaces
  <2> QED
    BY <2>2, <2>3 DEF Sealed, Locked, Fresh, Judged, Shut, AsClosed, AsMapped, Undone,
                      Publishing, Sweeping, Working, Due, Known
<1>2. CASE ReadMapping(s)
  <2>1. /\ sweep[s].at = "map" /\ UNCHANGED <<mapping, activity, lock, open, clock, publish>>
        /\ sweep' = [sweep EXCEPT ![s].at = "activity", ![s].raw = mapping]
    BY <1>2 DEF ReadMapping
  <2>3. /\ sweep'[s].at = "activity"
        /\ \A x \in Sweepers : x # s => sweep'[x] = sweep[x]
    BY <2>1 DEF Read, Calls
  <2> QED
    BY <2>1, <2>3 DEF Sealed, Locked, Fresh, Judged, Shut, AsClosed, AsMapped, Undone,
                      Publishing, Sweeping, Working, Due, Known
<1>3. CASE ReadActivity(s)
  <2>1. /\ sweep[s].at = "activity" /\ UNCHANGED <<mapping, activity, lock, open, clock, publish>>
        /\ \E to \in {"remove", "ask", "later"} :
             /\ sweep' = [sweep EXCEPT ![s].at = to, ![s].act = activity]
             /\ to = "ask" => Due(activity)
    BY <1>3 DEF ReadActivity
  <2>2. PICK to \in {"remove", "ask", "later"} :
             /\ sweep' = [sweep EXCEPT ![s].at = to, ![s].act = activity]
             /\ to = "ask" => Due(activity)
    BY <2>1
  <2>3. /\ sweep'[s].at = to /\ sweep'[s].act = activity
        /\ \A x \in Sweepers : x # s => sweep'[x] = sweep[x]
    BY <2>2 DEF Read, Calls
  <2>4. Judged'
    BY <2>1, <2>2, <2>3 DEF Sealed, Judged, Due, Known, Read, Notes
  <2> QED
    BY <2>1, <2>3, <2>4 DEF Sealed, Locked, Fresh, Shut, AsClosed, AsMapped, Undone, Publishing,
                            Sweeping, Working
<1>4. CASE Claim(s)
  <2>1. /\ sweep[s].at = "ask" /\ UNCHANGED <<mapping, activity, open, clock, publish>>
        /\ \/ lock = None /\ lock' = s /\ sweep' = [sweep EXCEPT ![s].at = "close"]
           \/ lock' = lock /\ sweep' = [sweep EXCEPT ![s].at = "idle"]
    BY <1>4 DEF Claim, Moves
  <2>2. CASE lock = None /\ lock' = s /\ sweep' = [sweep EXCEPT ![s].at = "close"]
    <3>1. /\ sweep'[s].at = "close"
          /\ \A x \in Sweepers : x # s => sweep'[x].at = sweep[x].at
          /\ \A x \in Sweepers : sweep'[x].act = sweep[x].act
      BY <2>2, SweeperGoes DEF SweepPlaces
    <3>2. Locked'
      BY <2>2, <3>1 DEF Sealed, Locked
    <3>3. Judged'
      BY <2>1, <3>1 DEF Sealed, Judged, Due, Known
    <3> QED
      BY <2>1, <3>1, <3>2, <3>3 DEF Sealed, Fresh, Shut, AsClosed, AsMapped, Undone, Publishing,
                                    Sweeping, Working
  <2>3. CASE lock' = lock /\ sweep' = [sweep EXCEPT ![s].at = "idle"]
    <3>1. /\ sweep'[s].at = "idle"
          /\ \A x \in Sweepers : x # s => sweep'[x].at = sweep[x].at
          /\ \A x \in Sweepers : sweep'[x].act = sweep[x].act
      BY <2>3, SweeperGoes DEF SweepPlaces
    <3> QED
      BY <2>1, <2>3, <3>1 DEF Sealed, Locked, Fresh, Judged, Shut, AsClosed, AsMapped, Undone,
                              Publishing, Sweeping, Working, Due, Known
  <2> QED
    BY <2>1, <2>2, <2>3
<1>5. CASE Close(s)
  <2>1. /\ sweep[s].at = "close" /\ sweep' = [sweep EXCEPT ![s].at = "commit"] /\ open' = FALSE
        /\ UNCHANGED <<mapping, activity, lock, clock, publish>>
    BY <1>5 DEF Close, Moves
  <2>2. /\ sweep'[s].at = "commit"
        /\ \A x \in Sweepers : x # s => sweep'[x].at = sweep[x].at
        /\ \A x \in Sweepers : sweep'[x].act = sweep[x].act
    BY <2>1, SweeperGoes DEF SweepPlaces
  <2>3. \A x \in Sweepers : sweep'[x].at # "restore"
    BY <2>1, <2>2 DEF Sealed, Locked
  <2> QED
    BY <2>1, <2>2, <2>3 DEF Sealed, Locked, Fresh, Judged, Shut, AsClosed, AsMapped, Undone,
                            Publishing, Sweeping, Working, Due, Known
<1>6. CASE Commit(s)
  <2>1. /\ sweep[s].at = "commit" /\ UNCHANGED <<activity, lock, open, clock, publish>>
        /\ \/ /\ Unchanged(s) /\ sweep' = [sweep EXCEPT ![s].at = "unlock"]
              /\ mapping' = [mapping EXCEPT !.state = "closed"]
           \/ mapping' = mapping /\ sweep' = [sweep EXCEPT ![s].at = "reopen"]
    BY <1>6 DEF Commit, Moves, Committable
  <2>2. CASE /\ Unchanged(s) /\ sweep' = [sweep EXCEPT ![s].at = "unlock"]
             /\ mapping' = [mapping EXCEPT !.state = "closed"]
    <3>1. /\ sweep'[s].at = "unlock"
          /\ \A x \in Sweepers : x # s => sweep'[x].at = sweep[x].at
          /\ \A x \in Sweepers : sweep'[x].act = sweep[x].act
      BY <2>2, SweeperGoes DEF SweepPlaces
    <3>2. mapping'.state = "closed"
      BY <2>2 DEF Read, Mapping
    <3>3. activity = sweep[s].act /\ Due(activity) /\ ~open
      BY <2>1, <2>2 DEF Sealed, Unchanged, Judged, Shut
    <3>4. \A k \in Jobs : publish[k] # "set"
      BY <3>3, QuietAlone DEF Sealed, Publishing, Working
    <3> QED
      BY <2>1, <3>1, <3>2, <3>3, <3>4 DEF Sealed, Locked, Fresh, Judged, Shut, AsClosed,
                                          AsMapped, Undone, Publishing, Sweeping, Working, Due,
                                          Known
  <2>3. CASE mapping' = mapping /\ sweep' = [sweep EXCEPT ![s].at = "reopen"]
    <3>1. /\ sweep'[s].at = "reopen"
          /\ \A x \in Sweepers : x # s => sweep'[x].at = sweep[x].at
          /\ \A x \in Sweepers : sweep'[x].act = sweep[x].act
      BY <2>3, SweeperGoes DEF SweepPlaces
    <3> QED
      BY <2>1, <2>3, <3>1 DEF Sealed, Locked, Fresh, Judged, Shut, AsClosed, AsMapped, Undone,
                              Publishing, Sweeping, Working, Due, Known
  <2> QED
    BY <2>1, <2>2, <2>3
<1>7. CASE Reopen(s)
  <2>1. /\ sweep[s].at = "reopen" /\ sweep' = [sweep EXCEPT ![s].at = "restore"] /\ open' = TRUE
        /\ UNCHANGED <<mapping, activity, lock, clock, publish>>
    BY <1>7 DEF Reopen, Moves
  <2>2. /\ sweep'[s].at = "restore"
        /\ \A x \in Sweepers : x # s => sweep'[x].at = sweep[x].at
        /\ \A x \in Sweepers : sweep'[x].act = sweep[x].act
    BY <2>1, SweeperGoes DEF SweepPlaces
  <2>3. \A x \in Sweepers : sweep'[x].at # "commit"
    BY <2>1, <2>2 DEF Sealed, Locked
  <2> QED
    BY <2>1, <2>2, <2>3 DEF Sealed, Locked, Fresh, Judged, Shut, AsClosed, AsMapped, Undone,
                            Publishing, Sweeping, Working, Due, Known
<1>8. CASE Restore(s)
  <2>1. /\ sweep[s].at = "restore" /\ sweep' = [sweep EXCEPT ![s].at = "again"]
        /\ mapping' = (IF mapping.state = "closed" THEN [mapping EXCEPT !.state = "mapped"]
                       ELSE mapping)
        /\ UNCHANGED <<activity, lock, open, clock, publish>>
    BY <1>8 DEF Restore, Moves
  <2>2. /\ sweep'[s].at = "again"
        /\ \A x \in Sweepers : x # s => sweep'[x].at = sweep[x].at
        /\ \A x \in Sweepers : sweep'[x].act = sweep[x].act
    BY <2>1, SweeperGoes DEF SweepPlaces
  <2>3. mapping'.state # "closed" /\ open
    <3>1. mapping.state = "closed" => mapping'.state = "mapped"
      BY <2>1 DEF Read, Mapping
    <3> QED
      BY <2>1, <3>1 DEF Sealed, Undone, Sweeping
  <2> QED
    BY <2>1, <2>2, <2>3 DEF Sealed, Locked, Fresh, Judged, Shut, AsClosed, AsMapped, Undone,
                            Publishing, Sweeping, Working, Due, Known
<1>9. CASE ScheduleAgain(s) \/ Unlock(s)
  <2>1. PICK to \in {"unlock", "idle"} : sweep' = [sweep EXCEPT ![s].at = to]
    BY <1>9 DEF ScheduleAgain, Unlock, Moves
  <2>2. /\ sweep[s].at \in {"again", "unlock"}
        /\ UNCHANGED <<mapping, activity, open, clock, publish>>
        /\ \/ lock' = lock
           \/ lock = s /\ to = "idle"
    <3>1. CASE ScheduleAgain(s)
      BY <3>1 DEF ScheduleAgain, Moves
    <3>2. CASE Unlock(s)
      <4>1. sweep' = [sweep EXCEPT ![s].at = "idle"]
        BY <3>2 DEF Unlock, Moves
      <4>2. sweep'[s].at = to /\ sweep'[s].at = "idle"
        BY <2>1, <4>1, SweeperGoes DEF SweepPlaces
      <4> QED
        BY <3>2, <4>2 DEF Unlock, Moves
    <3> QED
      BY <1>9, <3>1, <3>2
  <2>3. /\ sweep'[s].at = to
        /\ \A x \in Sweepers : x # s => sweep'[x].at = sweep[x].at
        /\ \A x \in Sweepers : sweep'[x].act = sweep[x].act
    BY <2>1, SweeperGoes DEF SweepPlaces
  <2>4. Locked'
    BY <2>2, <2>3 DEF Sealed, Locked
  <2> QED
    BY <2>2, <2>3, <2>4 DEF Sealed, Fresh, Judged, Shut, AsClosed, AsMapped, Undone, Publishing,
                            Sweeping, Working, Due, Known
<1> QED
  BY <1>1, <1>2, <1>3, <1>4, <1>5, <1>6, <1>7, <1>8, <1>9

LEMMA ShownAside ==
  ASSUME Read, Sealed, CloseAfter \in Nat \ {0}, None \notin Sweepers,
         NoteActivity \/ LockLapses \/ Edit \/ Tick \/ UNCHANGED vars
  PROVE  Sealed'
<1> USE DEF keys, forge, jobs, history
<1>1. CASE NoteActivity
  <2>1. /\ activity' = [at |-> clock, version |-> activity.version + 1]
        /\ UNCHANGED <<mapping, lock, open, clock, sweep, publish>>
    BY <1>1 DEF NoteActivity, Note
  <2>2. Locked' /\ AsClosed' /\ AsMapped' /\ Undone'
    BY <2>1 DEF Sealed, Locked, Fresh, Judged, Shut, AsClosed, AsMapped, Undone, Publishing,
                Sweeping, Working, Due, Known
  <2>3. Fresh' /\ Judged' /\ Shut'
    BY <2>1, NotedJudged
  <2> QED
    BY <2>2, <2>3 DEF Sealed
<1>2. CASE LockLapses
  <2>1. /\ lock # None /\ sweep[lock].at = "idle"
        /\ UNCHANGED <<mapping, activity, open, clock, sweep, publish>>
    BY <1>2 DEF LockLapses
  <2>2. Locked'
    BY <2>1 DEF Sealed, Locked
  <2> QED
    BY <2>1, <2>2 DEF Sealed, Fresh, Judged, Shut, AsClosed, AsMapped, Undone, Publishing,
                      Sweeping, Working, Due, Known
<1>3. CASE Edit \/ UNCHANGED vars
  <2>1. UNCHANGED <<mapping, activity, open, clock, sweep, publish, lock>>
    BY <1>3 DEF Edit, vars
  <2> QED
    BY <2>1 DEF Sealed, Locked, Fresh, Judged, Shut, AsClosed, AsMapped, Undone, Publishing,
                Sweeping, Working, Due, Known
<1>4. CASE Tick
  <2>1. OutlivesPublish /\ clock' = clock + 1
        /\ UNCHANGED <<mapping, activity, open, sweep, publish, lock>>
    BY <1>4 DEF Tick
  <2>2. ~Publishing(Working)'
    BY <2>1 DEF OutlivesPublish, Publishing, Working, Over
  <2>3. Fresh'
    BY <2>2 DEF Fresh
  <2>4. \A s \in Sweepers : sweep[s].act \in Notes
    BY DEF Read, Calls
  <2>5. Judged'
    BY <2>1, <2>4 DEF Sealed, Judged, Due, Known, Notes, Read
  <2> QED
    BY <2>1, <2>3, <2>5 DEF Sealed, Locked, Shut, AsClosed, AsMapped, Undone, Publishing,
                            Sweeping
<1> QED
  BY <1>1, <1>2, <1>3, <1>4

LEMMA ReadStep ==
  IssueAssumption /\ OwnerInv /\ Policies /\ Read /\ [Next]_vars => Read'
<1> SUFFICES ASSUME IssueAssumption, OwnerInv, Policies, Read, [Next]_vars PROVE Read'
  OBVIOUS
<1> USE DEF keys, forge, jobs, history
<1>1. publish' \in [Jobs -> Places] /\ mapping' \in Mapping /\ Policies'
  BY OwnerStep, PoliciesStep DEF OwnerInv, Shapes
<1>2. [at |-> clock, version |-> activity.version + 1] \in Notes
  BY DEF Read, Notes
<1>3. ASSUME UNCHANGED <<sweep, activity, clock>>, open' \in BOOLEAN PROVE Read'
  BY <1>1, <1>3 DEF Read
<1>4. ASSUME NEW j \in Jobs,
             \/ Begin(j) \/ Reserve(j) \/ Find(j) \/ Create(j) \/ Update(j) \/ SetMapping(j)
             \/ Schedule(j) \/ Fails(j) \/ Dies(j)
      PROVE  Read'
  <2>1. UNCHANGED <<sweep, activity, clock>> /\ open' \in {open, TRUE}
    BY <1>4 DEF Begin, Reserve, Find, Create, Update, SetMapping, Schedule, Fails, Dies
  <2> QED
    BY <1>3, <2>1 DEF Read
<1>5. ASSUME (\E j \in Jobs : NoteOwn(j)) \/ NoteActivity PROVE Read'
  <2>1. UNCHANGED <<sweep, clock, open>> /\ activity' = [at |-> clock, version |-> activity.version + 1]
    BY <1>5 DEF NoteOwn, NoteActivity, Note
  <2> QED
    BY <1>1, <1>2, <2>1 DEF Read
<1>6. ASSUME NEW s \in Sweepers,
             \/ List(s) \/ Remove(s) \/ Later(s) \/ Claim(s) \/ Close(s) \/ Commit(s) \/ Reopen(s)
             \/ Restore(s) \/ ScheduleAgain(s) \/ Unlock(s) \/ CallFails(s)
      PROVE  Read'
  <2>1. PICK to \in SweepPlaces : sweep' = [sweep EXCEPT ![s].at = to]
    BY <1>6 DEF List, Remove, Later, Claim, Close, Commit, Reopen, Restore, ScheduleAgain, Unlock,
                CallFails, Moves, SweepPlaces
  <2>2. UNCHANGED <<activity, clock>> /\ open' \in BOOLEAN
    BY <1>6 DEF List, Remove, Later, Claim, Close, Commit, Reopen, Restore, ScheduleAgain, Unlock,
                CallFails, Read
  <2>3. sweep' \in [Sweepers -> Calls]
    BY <2>1, SweeperGoes
  <2> QED
    BY <1>1, <2>2, <2>3 DEF Read
<1>7. ASSUME NEW s \in Sweepers, ReadMapping(s) \/ ReadActivity(s) \/ SweeperDies(s) PROVE Read'
  <2>1. UNCHANGED <<activity, clock, open>>
    BY <1>7 DEF ReadMapping, ReadActivity, SweeperDies
  <2>2. sweep[s] \in Calls
    BY DEF Read
  <2>3. PICK row \in Calls : sweep' = [sweep EXCEPT ![s] = row]
    <3>1. CASE ReadMapping(s)
      <4> DEFINE row == [sweep[s] EXCEPT !.at = "activity", !.raw = mapping]
      <4>1. row \in Calls /\ sweep' = [sweep EXCEPT ![s] = row]
        BY <3>1, <2>2 DEF ReadMapping, Calls, SweepPlaces, Read
      <4> QED
        BY <4>1
    <3>2. CASE ReadActivity(s)
      <4>1. PICK to \in {"remove", "ask", "later"} :
              sweep' = [sweep EXCEPT ![s].at = to, ![s].act = activity]
        BY <3>2 DEF ReadActivity
      <4> DEFINE row == [sweep[s] EXCEPT !.at = to, !.act = activity]
      <4>2. row \in Calls /\ sweep' = [sweep EXCEPT ![s] = row]
        BY <4>1, <2>2 DEF Calls, SweepPlaces, Read
      <4> QED
        BY <4>2
    <3>3. CASE SweeperDies(s)
      <4>1. Idle \in Calls
        BY MappingMade DEF Idle, Calls, SweepPlaces, Notes
      <4> QED
        BY <3>3, <4>1 DEF SweeperDies
    <3> QED
      BY <1>7, <3>1, <3>2, <3>3
  <2>4. sweep' \in [Sweepers -> Calls]
    BY <2>3 DEF Read
  <2> QED
    BY <1>1, <2>1, <2>4 DEF Read
<1>8. ASSUME LockLapses \/ Edit \/ UNCHANGED vars PROVE Read'
  <2>1. UNCHANGED <<sweep, activity, clock, open>>
    BY <1>8 DEF LockLapses, Edit, vars
  <2> QED
    BY <1>3, <2>1 DEF Read
<1>9. ASSUME Tick PROVE Read'
  <2>1. UNCHANGED <<sweep, activity, open>> /\ clock' \in Nat
    BY <1>9 DEF Tick, Read
  <2> QED
    BY <1>1, <2>1 DEF Read
<1> QED
  BY <1>4, <1>5, <1>6, <1>7, <1>8, <1>9 DEF Next

LEMMA ShownStep ==
  IssueAssumption /\ OwnerInv /\ Policies /\ ShownInv /\ [Next]_vars => ShownInv'
<1> SUFFICES ASSUME IssueAssumption, OwnerInv, Policies, ShownInv, [Next]_vars PROVE ShownInv'
  OBVIOUS
<1>1. Read /\ Read' /\ CloseAfter \in Nat \ {0} /\ None \notin Sweepers
  BY ReadStep DEF ShownInv, IssueAssumption
<1>2. ASSUME NEW j \in Jobs, Fails(j) \/ Dies(j) PROVE ~Still'
  BY <1>2 DEF Fails, Dies, Disturbed, Still
<1>3. ASSUME NEW s \in Sweepers, CallFails(s) \/ SweeperDies(s) PROVE ~Still'
  BY <1>3 DEF CallFails, SweeperDies, Disturbed, Still
<1>4. Still' => Still
  <2>1. happened' = happened \/ \E what : happened' = happened \union {what}
    <3> USE DEF keys, forge, jobs, history, Disturbed
    <3>1. ASSUME NEW j \in Jobs,
                 \/ Begin(j) \/ Reserve(j) \/ NoteOwn(j) \/ Find(j) \/ Create(j) \/ Update(j)
                 \/ SetMapping(j) \/ Schedule(j)
          PROVE  happened' = happened
      BY <3>1 DEF Begin, Reserve, NoteOwn, Find, Create, Update, SetMapping, Schedule
    <3>2. ASSUME NEW s \in Sweepers,
                 \/ List(s) \/ ReadMapping(s) \/ ReadActivity(s) \/ Remove(s) \/ Later(s)
                 \/ Claim(s) \/ Close(s) \/ Commit(s) \/ Reopen(s) \/ Restore(s)
                 \/ ScheduleAgain(s) \/ Unlock(s)
          PROVE  happened' = happened
      BY <3>2 DEF List, ReadMapping, ReadActivity, Remove, Later, Claim, Close, Commit, Reopen,
                  Restore, ScheduleAgain, Unlock
    <3>3. ASSUME NoteActivity \/ LockLapses \/ Edit \/ Tick \/ UNCHANGED vars
          PROVE  happened' = happened \/ \E what : happened' = happened \union {what}
      BY <3>3 DEF NoteActivity, LockLapses, Edit, Tick, vars
    <3>4. ASSUME NEW j \in Jobs, Fails(j) \/ Dies(j)
          PROVE  \E what : happened' = happened \union {what}
      BY <3>4 DEF Fails, Dies
    <3>5. ASSUME NEW s \in Sweepers, CallFails(s) \/ SweeperDies(s)
          PROVE  \E what : happened' = happened \union {what}
      BY <3>5 DEF CallFails, SweeperDies
    <3> QED
      BY <3>1, <3>2, <3>3, <3>4, <3>5 DEF Next
  <2> QED
    BY <2>1 DEF Still
<1>5. ASSUME Still' PROVE Sealed'
  <2>1. Sealed
    BY <1>4, <1>5 DEF ShownInv
  <2> QED
    BY <1>1, <1>2, <1>3, <1>5, <2>1, ShownByJob, ShownBySweeper, ShownAside DEF Next
<1> QED
  BY <1>1, <1>5 DEF ShownInv

LEMMA ShownInit == Init => ShownInv
<1> SUFFICES ASSUME Init PROVE ShownInv
  OBVIOUS
<1>1. Idle \in Calls /\ Idle.act \in Notes /\ Idle.at = "idle"
  BY MappingMade DEF Idle, Calls, SweepPlaces, Notes
<1>2. Read
  BY <1>1, MappingMade DEF Init, Read, Places, Policies
<1>3. \A s \in Sweepers : sweep[s].at = "idle"
  BY <1>1 DEF Init
<1>4. mapping.state = "none" /\ \A j \in Jobs : publish[j] = "ready"
  BY MappingMade DEF Init
<1>5. Sealed
  BY <1>3, <1>4 DEF Sealed, Locked, Fresh, Judged, Shut, AsClosed, AsMapped, Undone, Publishing,
                   Sweeping, Working
<1> QED
  BY <1>2, <1>5 DEF ShownInv

\* At rest, whoever published, closed or was edited in between: what is recorded as closed
\* is closed on the forge, and what is mapped is open.
THEOREM ShownAsMappedHolds == ASSUME IssueAssumption PROVE Spec => []ShownAsMapped
<1>1. Init => OwnerInv /\ Policies /\ ShownInv
  BY OwnerInit, ShownInit DEF Init, Policies
<1>2. OwnerInv /\ Policies /\ ShownInv /\ [Next]_vars => (OwnerInv /\ Policies /\ ShownInv)'
  BY OwnerStep, PoliciesStep, ShownStep
<1>3. ShownInv => ShownAsMapped
  <2> SUFFICES ASSUME ShownInv, AtRest, happened \subseteq {"policy"}
               PROVE  /\ mapping.state = "closed" => ~open
                      /\ mapping.state = "mapped" => open
    BY DEF ShownAsMapped
  <2>1. AsClosed /\ AsMapped
    BY DEF ShownInv, Still, Sealed
  <2>2. /\ \A j \in Jobs : publish[j] \notin {"set", "update"}
        /\ \A s \in Sweepers : sweep[s].at \notin {"restore", "commit", "reopen"}
    BY DEF AtRest, Over
  <2> QED
    BY <2>1, <2>2 DEF AsClosed, AsMapped, Publishing, Sweeping
<1> QED
  BY <1>1, <1>2, <1>3, PTL DEF Spec
-----------------------------------------------------------------------------
\* The inductive invariant of WatchedForQuiet: as long as nothing went wrong, every job
\* read the same rule, a sweeper takes off the list only what it read as not to be
\* watched, and what is to be watched is on the list or about to be put there.
Watched == [state |-> "mapped", quiet |-> TRUE]
Undisturbed == happened = {} /\ ~crossed
Listed ==
  /\ policy /\ \A j \in Jobs : publish[j] # "ready" => target[j]
  /\ \A s \in Sweepers : sweep[s].at = "remove" => sweep[s].raw # Watched
  /\ mapping = Watched =>
       quiet # None \/ Publishing({"update", "set", "schedule"}) \/ Sweeping({"again"})
ListInv == Undisturbed => Listed

LEMMA ListedByJob ==
  ASSUME Read, Listed, IssueAssumption, NEW j \in Jobs,
         \/ Begin(j) \/ Reserve(j) \/ NoteOwn(j) \/ Find(j) \/ Create(j) \/ Update(j)
         \/ SetMapping(j) \/ Schedule(j)
  PROVE  Listed'
<1> USE DEF keys, forge, jobs, history
<1>0. /\ \A n \in Nat : n # None /\ n + CloseAfter \in Nat
      /\ activity.at \in Nat /\ clock \in Nat /\ CloseAfter \in Nat
  BY DEF IssueAssumption, Read, Notes
<1>1. CASE Begin(j)
  <2>1. /\ publish' = [publish EXCEPT ![j] = "reserve"] /\ publish[j] = "ready"
        /\ target' = [target EXCEPT ![j] = policy]
        /\ UNCHANGED <<mapping, quiet, policy, sweep>>
    BY <1>1 DEF Begin, Goes
  <2>2. publish'[j] = "reserve" /\ \A k \in Jobs : k # j => publish'[k] = publish[k]
    BY <2>1, JobGoes DEF Places
  <2>3. \A k \in Jobs : publish'[k] # "ready" => target'[k]
    BY <2>1, <2>2 DEF Read, Policies, Listed
  <2> QED
    BY <2>1, <2>2, <2>3 DEF Listed, Publishing, Sweeping
<1>2. CASE Reserve(j)
  <2>1. PICK to \in {"note", "capped"} : publish' = [publish EXCEPT ![j] = to]
    BY <1>2 DEF Reserve, Goes
  <2>2. /\ publish[j] = "reserve" /\ UNCHANGED <<quiet, policy, target, sweep>>
        /\ mapping' = mapping \/ mapping'.state = "pending"
    BY <1>2 DEF Reserve, Goes
  <2>3. publish'[j] = to /\ \A k \in Jobs : k # j => publish'[k] = publish[k]
    BY <2>1, JobGoes DEF Places, Over
  <2> QED
    BY <2>2, <2>3 DEF Listed, Publishing, Sweeping, Watched
<1>3. CASE NoteOwn(j)
  <2>1. /\ publish' = [publish EXCEPT ![j] = NextCall(j)] /\ publish[j] = "note"
        /\ quiet' = quiet \/ quiet' = clock + CloseAfter
        /\ UNCHANGED <<mapping, policy, target, sweep>>
    BY <1>3 DEF NoteOwn, Goes, Note
  <2>2. NextCall(j) \in {"create", "find", "update"}
    BY DEF NextCall
  <2>3. publish'[j] \in {"create", "find", "update"}
        /\ \A k \in Jobs : k # j => publish'[k] = publish[k]
    BY <2>1, <2>2, JobGoes DEF Places
  <2> QED
    BY <1>0, <2>1, <2>3 DEF Listed, Publishing, Sweeping
<1>4. CASE Find(j)
  <2>1. PICK to \in {"uncertain", "adopt"} : publish' = [publish EXCEPT ![j] = to]
    BY <1>4 DEF Find, Goes, Unseen
  <2>2. publish[j] = "find" /\ UNCHANGED <<mapping, quiet, policy, target, sweep>>
    BY <1>4 DEF Find, Goes
  <2>3. publish'[j] = to /\ \A k \in Jobs : k # j => publish'[k] = publish[k]
    BY <2>1, JobGoes DEF Places, Over
  <2> QED
    BY <2>2, <2>3 DEF Listed, Publishing, Sweeping
<1>5. CASE Create(j) \/ Update(j)
  <2>1. /\ publish[j] \in {"create", "update"} /\ publish' = [publish EXCEPT ![j] = "set"]
        /\ UNCHANGED <<mapping, quiet, policy, target, sweep>>
    BY <1>5 DEF Create, Update, Goes
  <2>2. publish'[j] = "set" /\ \A k \in Jobs : k # j => publish'[k] = publish[k]
    BY <2>1, JobGoes DEF Places
  <2> QED
    BY <2>1, <2>2 DEF Listed, Publishing, Sweeping
<1>6. CASE SetMapping(j)
  <2>1. PICK to \in {"update", "schedule"} : publish' = [publish EXCEPT ![j] = to]
    BY <1>6 DEF SetMapping, Goes
  <2>2. publish[j] # "ready" /\ UNCHANGED <<quiet, policy, target, sweep>>
    BY <1>6 DEF SetMapping, Goes
  <2>3. publish'[j] = to /\ \A k \in Jobs : k # j => publish'[k] = publish[k]
    BY <2>1, JobGoes DEF Places
  <2> QED
    BY <2>2, <2>3 DEF Listed, Publishing, Sweeping
<1>7. CASE Schedule(j)
  <2>1. PICK to \in {"created", "updated"} : publish' = [publish EXCEPT ![j] = to]
    BY <1>7 DEF Schedule, Goes
  <2>2. /\ publish[j] = "schedule" /\ UNCHANGED <<mapping, policy, target, sweep>>
        /\ quiet' = IF target[j] THEN activity.at + CloseAfter ELSE None
    BY <1>7 DEF Schedule, Goes
  <2>3. publish'[j] = to /\ \A k \in Jobs : k # j => publish'[k] = publish[k]
    BY <2>1, JobGoes DEF Places, Over
  <2>4. target[j]
    BY <2>2 DEF Listed
  <2>5. quiet' # None
    BY <1>0, <2>2, <2>4
  <2> QED
    BY <2>2, <2>3, <2>5 DEF Listed, Publishing, Sweeping
<1> QED
  BY <1>1, <1>2, <1>3, <1>4, <1>5, <1>6, <1>7

LEMMA ListedBySweeper ==
  ASSUME Read, Listed, IssueAssumption, NEW s \in Sweepers, ~crossed',
         \/ List(s) \/ ReadMapping(s) \/ ReadActivity(s) \/ Remove(s) \/ Later(s) \/ Claim(s)
         \/ Close(s) \/ Commit(s) \/ Reopen(s) \/ Restore(s) \/ ScheduleAgain(s) \/ Unlock(s)
  PROVE  Listed'
<1> USE DEF keys, forge, jobs, history
<1>0. /\ \A n \in Nat : n # None /\ n + CloseAfter \in Nat
      /\ activity.at \in Nat /\ sweep[s].act.at \in Nat /\ CloseAfter \in Nat
  BY DEF IssueAssumption, Read, Notes, Calls
<1>1. UNCHANGED <<publish, policy, target>>
  BY DEF List, ReadMapping, ReadActivity, Remove, Later, Claim, Close, Commit, Reopen, Restore,
         ScheduleAgain, Unlock
<1>2. CASE List(s) \/ Claim(s) \/ Close(s) \/ Reopen(s) \/ Unlock(s)
  <2>1. PICK to \in {"map", "close", "idle", "commit", "restore"} :
          sweep' = [sweep EXCEPT ![s].at = to]
    BY <1>2 DEF List, Claim, Close, Reopen, Unlock, Moves
  <2>2. sweep[s].at # "again" /\ UNCHANGED <<mapping, quiet>>
    BY <1>2 DEF List, Claim, Close, Reopen, Unlock, Moves
  <2>3. /\ sweep'[s].at = to
        /\ \A x \in Sweepers : x # s => sweep'[x].at = sweep[x].at
        /\ \A x \in Sweepers : sweep'[x].raw = sweep[x].raw
    BY <2>1, SweeperGoes DEF SweepPlaces
  <2> QED
    BY <1>1, <2>2, <2>3 DEF Listed, Publishing, Sweeping
<1>3. CASE ReadMapping(s)
  <2>1. /\ sweep[s].at = "map" /\ UNCHANGED <<mapping, quiet>>
        /\ sweep' = [sweep EXCEPT ![s].at = "activity", ![s].raw = mapping]
    BY <1>3 DEF ReadMapping
  <2>2. /\ sweep'[s].at = "activity"
        /\ \A x \in Sweepers : x # s => sweep'[x] = sweep[x]
    BY <2>1 DEF Read, Calls
  <2> QED
    BY <1>1, <2>1, <2>2 DEF Listed, Publishing, Sweeping
<1>4. CASE ReadActivity(s)
  <2>1. /\ sweep[s].at = "activity" /\ UNCHANGED <<mapping, quiet>>
        /\ \E to \in {"remove", "ask", "later"} :
             /\ sweep' = [sweep EXCEPT ![s].at = to, ![s].act = activity]
             /\ to = "remove" => ~sweep[s].raw.quiet \/ sweep[s].raw.state # "mapped"
    BY <1>4 DEF ReadActivity
  <2>2. PICK to \in {"remove", "ask", "later"} :
             /\ sweep' = [sweep EXCEPT ![s].at = to, ![s].act = activity]
             /\ to = "remove" => ~sweep[s].raw.quiet \/ sweep[s].raw.state # "mapped"
    BY <2>1
  <2>3. /\ sweep'[s].at = to /\ sweep'[s].raw = sweep[s].raw
        /\ \A x \in Sweepers : x # s => sweep'[x] = sweep[x]
    BY <2>2 DEF Read, Calls
  <2>4. to = "remove" => sweep[s].raw # Watched
    BY <2>2 DEF Watched
  <2> QED
    BY <1>1, <2>1, <2>3, <2>4 DEF Listed, Publishing, Sweeping
<1>5. CASE Remove(s)
  <2>1. /\ sweep' = [sweep EXCEPT ![s].at = "idle"] /\ mapping' = mapping
        /\ sweep[s].at = "remove" /\ mapping = sweep[s].raw
    BY <1>5 DEF Remove, Moves, Listed
  <2>2. mapping' # Watched
    BY <2>1 DEF Listed
  <2>3. /\ sweep'[s].at = "idle"
        /\ \A x \in Sweepers : x # s => sweep'[x].at = sweep[x].at
        /\ \A x \in Sweepers : sweep'[x].raw = sweep[x].raw
    BY <2>1, SweeperGoes DEF SweepPlaces
  <2> QED
    BY <1>1, <2>2, <2>3 DEF Listed
<1>6. CASE Later(s) \/ ScheduleAgain(s)
  <2>1. PICK to \in {"idle", "unlock"} : sweep' = [sweep EXCEPT ![s].at = to]
    BY <1>6 DEF Later, ScheduleAgain, Moves
  <2>2. quiet' # None
    BY <1>0, <1>6 DEF Later, ScheduleAgain
  <2>3. /\ sweep'[s].at = to
        /\ \A x \in Sweepers : x # s => sweep'[x].at = sweep[x].at
        /\ \A x \in Sweepers : sweep'[x].raw = sweep[x].raw
    BY <2>1, SweeperGoes DEF SweepPlaces
  <2> QED
    BY <1>1, <2>2, <2>3 DEF Listed
<1>7. CASE Commit(s)
  <2>1. /\ sweep[s].at = "commit"
        /\ \/ /\ sweep' = [sweep EXCEPT ![s].at = "unlock"]
              /\ mapping' = [mapping EXCEPT !.state = "closed"]
           \/ UNCHANGED <<mapping, quiet>> /\ sweep' = [sweep EXCEPT ![s].at = "reopen"]
    BY <1>7 DEF Commit, Moves
  <2>2. PICK to \in {"unlock", "reopen"} : sweep' = [sweep EXCEPT ![s].at = to]
    BY <2>1
  <2>3. /\ sweep'[s].at = to
        /\ \A x \in Sweepers : x # s => sweep'[x].at = sweep[x].at
        /\ \A x \in Sweepers : sweep'[x].raw = sweep[x].raw
    BY <2>2, SweeperGoes DEF SweepPlaces
  <2>4. CASE mapping' = [mapping EXCEPT !.state = "closed"]
    <3>1. mapping' # Watched
      BY <2>4 DEF Watched, Read, Mapping
    <3> QED
      BY <1>1, <2>3, <3>1 DEF Listed
  <2>5. CASE UNCHANGED <<mapping, quiet>>
    BY <1>1, <2>1, <2>3, <2>5 DEF Listed, Publishing, Sweeping
  <2> QED
    BY <2>1, <2>4, <2>5
<1>8. CASE Restore(s)
  <2>1. sweep' = [sweep EXCEPT ![s].at = "again"]
    BY <1>8 DEF Restore, Moves
  <2>2. /\ sweep'[s].at = "again"
        /\ \A x \in Sweepers : x # s => sweep'[x].at = sweep[x].at
        /\ \A x \in Sweepers : sweep'[x].raw = sweep[x].raw
    BY <2>1, SweeperGoes DEF SweepPlaces
  <2> QED
    BY <1>1, <2>2 DEF Listed, Sweeping
<1> QED
  BY <1>2, <1>3, <1>4, <1>5, <1>6, <1>7, <1>8

LEMMA ListStep == IssueAssumption /\ Read /\ ListInv /\ [Next]_vars => ListInv'
<1> SUFFICES ASSUME IssueAssumption, Read, ListInv, [Next]_vars, Undisturbed' PROVE Listed'
  BY DEF ListInv
<1> USE DEF keys, forge, jobs, history
<1>1. ASSUME NEW j \in Jobs,
             \/ Begin(j) \/ Reserve(j) \/ NoteOwn(j) \/ Find(j) \/ Create(j) \/ Update(j)
             \/ SetMapping(j) \/ Schedule(j)
      PROVE  Listed'
  <2>1. UNCHANGED <<happened, crossed>>
    BY <1>1 DEF Begin, Reserve, NoteOwn, Find, Create, Update, SetMapping, Schedule
  <2>2. Listed
    BY <2>1 DEF ListInv, Undisturbed
  <2> QED
    BY <1>1, <2>2, ListedByJob
<1>2. ASSUME NEW s \in Sweepers,
             \/ List(s) \/ ReadMapping(s) \/ ReadActivity(s) \/ Remove(s) \/ Later(s) \/ Claim(s)
             \/ Close(s) \/ Commit(s) \/ Reopen(s) \/ Restore(s) \/ ScheduleAgain(s) \/ Unlock(s)
      PROVE  Listed'
  <2>1. happened' = happened /\ (~crossed' => ~crossed)
    <3>1. CASE Remove(s)
      BY <3>1 DEF Remove
    <3>2. CASE ~Remove(s)
      <4>1. UNCHANGED <<happened, crossed>>
        BY <1>2, <3>2 DEF List, ReadMapping, ReadActivity, Later, Claim, Close, Commit, Reopen,
                          Restore, ScheduleAgain, Unlock
      <4> QED
        BY <4>1
    <3> QED
      BY <3>1, <3>2
  <2>2. Listed /\ ~crossed'
    BY <2>1 DEF ListInv, Undisturbed
  <2> QED
    BY <1>2, <2>2, ListedBySweeper
<1>3. ASSUME NEW j \in Jobs, Fails(j) \/ Dies(j) PROVE FALSE
  BY <1>3 DEF Fails, Dies, Disturbed, Undisturbed
<1>4. ASSUME NEW s \in Sweepers, CallFails(s) \/ SweeperDies(s) PROVE FALSE
  BY <1>4 DEF CallFails, SweeperDies, Disturbed, Undisturbed
<1>5. ASSUME Edit PROVE FALSE
  BY <1>5 DEF Edit, Disturbed, Undisturbed
<1>6. ASSUME NoteActivity \/ LockLapses \/ Tick \/ UNCHANGED vars PROVE Listed'
  <2>1. /\ UNCHANGED <<happened, crossed, publish, policy, target, sweep, mapping>>
        /\ quiet' = quiet \/ quiet' = clock + CloseAfter
    BY <1>6 DEF NoteActivity, Note, LockLapses, Tick, vars
  <2>2. Listed
    BY <2>1 DEF ListInv, Undisturbed
  <2>3. clock + CloseAfter \in Nat /\ None \notin Nat
    BY DEF IssueAssumption, Read
  <2>4. quiet # None => quiet' # None
    BY <2>1, <2>3
  <2> QED
    BY <2>1, <2>2, <2>4 DEF Listed, Publishing, Sweeping
<1> QED
  BY <1>1, <1>2, <1>3, <1>4, <1>5, <1>6 DEF Next

\* At rest, after closes, publications and quiet times in any order: an open issue whose rule
\* has a quiet time is on the list the sweeps read, unless a sweep took it off for a
\* mapping that was no longer the one it had read.
THEOREM WatchedForQuietHolds == ASSUME IssueAssumption PROVE Spec => []WatchedForQuiet
<1>1. Init => OwnerInv /\ Policies /\ ShownInv /\ ListInv
  <2> SUFFICES ASSUME Init PROVE Listed
    BY OwnerInit, ShownInit DEF Init, Policies, ListInv
  <2>1. \A s \in Sweepers : sweep[s].at = "idle"
    BY DEF Init, Idle
  <2>2. mapping # Watched
    BY DEF Init, Watched, Unmapped
  <2> QED
    BY <2>1, <2>2 DEF Init, Listed
<1>2. OwnerInv /\ Policies /\ ShownInv /\ ListInv /\ [Next]_vars
        => (OwnerInv /\ Policies /\ ShownInv /\ ListInv)'
  BY OwnerStep, PoliciesStep, ShownStep, ListStep DEF ShownInv
<1>3. ListInv => WatchedForQuiet
  <2> SUFFICES ASSUME Listed, AtRest, mapping = Watched PROVE quiet # None
    BY DEF ListInv, Undisturbed, WatchedForQuiet, Watched
  <2>1. /\ \A j \in Jobs : publish[j] \notin {"update", "set", "schedule"}
        /\ \A s \in Sweepers : sweep[s].at # "again"
    BY DEF AtRest, Over
  <2> QED
    BY <2>1 DEF Listed, Publishing, Sweeping
<1> QED
  BY <1>1, <1>2, <1>3, PTL DEF Spec
-----------------------------------------------------------------------------
\* The types, and what bounds them: a job that is not over has an attempt left, and no
\* time that was noted or read is later than the clock.
TriesOK ==
  /\ tries \in [Jobs -> Nat]
  /\ \A j \in Jobs : tries[j] <= Attempts /\ (publish[j] \notin Over => tries[j] < Attempts)
TimesOK ==
  /\ clock <= MaxClock /\ activity.at <= MaxClock
  /\ \A s \in Sweepers : sweep[s].act.at <= MaxClock
  /\ quiet \in (0 .. MaxClock + CloseAfter) \union {None}
TypeInv == TriesOK /\ TimesOK /\ lock \in Sweepers \union {None}

LEMMA TypeStep ==
  IssueAssumption /\ OwnerInv /\ Policies /\ Read /\ TypeInv /\ [Next]_vars => TypeInv'
<1> SUFFICES ASSUME IssueAssumption, OwnerInv, Policies, Read, TypeInv, [Next]_vars PROVE TypeInv'
  OBVIOUS
<1> USE DEF keys, forge, jobs, history
<1>0. /\ clock \in Nat /\ clock <= MaxClock /\ activity.at \in Nat /\ activity.at <= MaxClock
      /\ \A s \in Sweepers : sweep[s].act.at \in Nat /\ sweep[s].act.at <= MaxClock
      /\ MaxClock \in Nat /\ CloseAfter \in Nat /\ Attempts \in Nat \ {0}
      /\ \A n \in 0 .. MaxClock : n + CloseAfter \in 0 .. MaxClock + CloseAfter
  BY DEF IssueAssumption, Read, Notes, Calls, TypeInv, TimesOK
<1>1. TriesOK'
  <2>1. ASSUME NEW j \in Jobs, NEW to, publish[j] \notin Over, publish' = [publish EXCEPT ![j] = to],
               tries' = tries
        PROVE  TriesOK'
    BY <2>1 DEF TypeInv, TriesOK, Read
  <2>2. ASSUME NEW j \in Jobs, Fails(j) PROVE TriesOK'
    <3>1. /\ publish[j] \notin Over /\ tries' = [tries EXCEPT ![j] = tries[j] + 1]
          /\ publish' = [publish EXCEPT ![j] = IF tries'[j] < Attempts THEN "ready" ELSE "failed"]
      BY <2>2 DEF Fails, Over
    <3>2. tries[j] \in Nat /\ tries[j] < Attempts
      BY <3>1 DEF TypeInv, TriesOK
    <3>3. /\ tries' \in [Jobs -> Nat] /\ tries'[j] = tries[j] + 1
          /\ \A k \in Jobs : k # j => tries'[k] = tries[k] /\ publish'[k] = publish[k]
          /\ publish'[j] \notin Over => tries'[j] < Attempts
      BY <3>1, <3>2 DEF TypeInv, TriesOK, Read, Over
    <3> QED
      BY <1>0, <3>2, <3>3 DEF TypeInv, TriesOK
  <2>3. ASSUME NEW j \in Jobs,
               \/ Begin(j) \/ Reserve(j) \/ NoteOwn(j) \/ Find(j) \/ Create(j) \/ Update(j)
               \/ SetMapping(j) \/ Schedule(j) \/ Dies(j)
        PROVE  TriesOK'
    <3>1. publish[j] \notin Over /\ tries' = tries
      BY <2>3 DEF Begin, Reserve, NoteOwn, Find, Create, Update, SetMapping, Schedule, Dies, Goes, Over
    <3>2. \E to : publish' = [publish EXCEPT ![j] = to]
      BY <2>3 DEF Begin, Reserve, NoteOwn, Find, Create, Update, SetMapping, Schedule, Dies, Goes
    <3> QED
      BY <2>1, <3>1, <3>2
  <2>4. ASSUME UNCHANGED <<publish, tries>> PROVE TriesOK'
    BY <2>4 DEF TypeInv, TriesOK
  <2>5. ASSUME NEW s \in Sweepers,
               \/ List(s) \/ ReadMapping(s) \/ ReadActivity(s) \/ Remove(s) \/ Later(s) \/ Claim(s)
               \/ Close(s) \/ Commit(s) \/ Reopen(s) \/ Restore(s) \/ ScheduleAgain(s) \/ Unlock(s)
               \/ CallFails(s) \/ SweeperDies(s)
        PROVE  UNCHANGED <<publish, tries>>
    BY <2>5 DEF List, ReadMapping, ReadActivity, Remove, Later, Claim, Close, Commit, Reopen, Restore,
                ScheduleAgain, Unlock, CallFails, SweeperDies
  <2>6. ASSUME NoteActivity \/ LockLapses \/ Edit \/ Tick \/ UNCHANGED vars
        PROVE  UNCHANGED <<publish, tries>>
    BY <2>6 DEF NoteActivity, LockLapses, Edit, Tick, vars
  <2> QED
    BY <2>2, <2>3, <2>4, <2>5, <2>6 DEF Next
<1>2. TimesOK' /\ lock' \in Sweepers \union {None}
  <2>1. ASSUME UNCHANGED <<clock, activity>>, lock' \in Sweepers \union {None},
               \A s \in Sweepers : sweep'[s].act \in {sweep[s].act, activity, Idle.act},
               \/ quiet' \in {quiet, None, activity.at + CloseAfter}
               \/ \E s \in Sweepers : quiet' = sweep[s].act.at + CloseAfter
        PROVE  TimesOK' /\ lock' \in Sweepers \union {None}
    <3>1. quiet' \in (0 .. MaxClock + CloseAfter) \union {None}
      BY <1>0, <2>1 DEF TypeInv, TimesOK
    <3>2. Idle.act.at = 0
      BY DEF Idle
    <3>3. \A s \in Sweepers : sweep'[s].act.at <= MaxClock
      BY <1>0, <2>1, <3>2
    <3> QED
      BY <1>0, <2>1, <3>1, <3>3 DEF TimesOK
  <2>2. ASSUME NEW j \in Jobs,
               \/ Begin(j) \/ Reserve(j) \/ Find(j) \/ Create(j) \/ Update(j) \/ SetMapping(j)
               \/ Schedule(j) \/ Fails(j) \/ Dies(j)
        PROVE  /\ UNCHANGED <<clock, activity, lock, sweep>>
               /\ quiet' \in {quiet, None, activity.at + CloseAfter}
    BY <2>2 DEF Begin, Reserve, Find, Create, Update, SetMapping, Schedule, Fails, Dies
  <2>3. ASSUME (\E j \in Jobs : NoteOwn(j)) \/ NoteActivity PROVE TimesOK' /\ lock' = lock
    <3>1. /\ UNCHANGED <<clock, sweep, lock>> /\ activity'.at = clock
          /\ quiet' \in {quiet, clock + CloseAfter}
      BY <2>3 DEF NoteOwn, NoteActivity, Note
    <3>2. quiet' \in (0 .. MaxClock + CloseAfter) \union {None}
      BY <1>0, <3>1 DEF TypeInv, TimesOK
    <3> QED
      BY <1>0, <3>1, <3>2 DEF TimesOK
  <2>4. ASSUME NEW s \in Sweepers,
               \/ List(s) \/ Remove(s) \/ Later(s) \/ Claim(s) \/ Close(s) \/ Commit(s) \/ Reopen(s)
               \/ Restore(s) \/ ScheduleAgain(s) \/ Unlock(s) \/ CallFails(s)
        PROVE  TimesOK' /\ lock' \in Sweepers \union {None}
    <3>1. PICK to \in SweepPlaces : sweep' = [sweep EXCEPT ![s].at = to]
      BY <2>4 DEF List, Remove, Later, Claim, Close, Commit, Reopen, Restore, ScheduleAgain, Unlock,
                  CallFails, Moves, SweepPlaces
    <3>2. \A x \in Sweepers : sweep'[x].act = sweep[x].act
      BY <3>1, SweeperGoes
    <3>3. /\ UNCHANGED <<clock, activity>> /\ lock' \in {lock, s, None}
          /\ quiet' \in {quiet, None, activity.at + CloseAfter, sweep[s].act.at + CloseAfter}
      BY <2>4 DEF List, Remove, Later, Claim, Close, Commit, Reopen, Restore, ScheduleAgain, Unlock,
                  CallFails
    <3> QED
      BY <2>1, <3>2, <3>3 DEF TypeInv
  <2>5. ASSUME NEW s \in Sweepers, ReadMapping(s) \/ ReadActivity(s) \/ SweeperDies(s)
        PROVE  TimesOK' /\ lock' \in Sweepers \union {None}
    <3>1. UNCHANGED <<clock, activity, lock, quiet>>
      BY <2>5 DEF ReadMapping, ReadActivity, SweeperDies
    <3>2. /\ \A x \in Sweepers : x # s => sweep'[x] = sweep[x]
          /\ sweep'[s].act \in {sweep[s].act, activity, Idle.act}
      <4>1. CASE ReadMapping(s)
        BY <4>1 DEF ReadMapping, Read, Calls
      <4>2. CASE ReadActivity(s)
        <5>1. PICK to : sweep' = [sweep EXCEPT ![s].at = to, ![s].act = activity]
          BY <4>2 DEF ReadActivity
        <5> QED
          BY <5>1 DEF Read, Calls
      <4>3. CASE SweeperDies(s)
        BY <4>3 DEF SweeperDies, Read
      <4> QED
        BY <2>5, <4>1, <4>2, <4>3
    <3> QED
      BY <2>1, <3>1, <3>2 DEF TypeInv
  <2>6. ASSUME LockLapses \/ Edit \/ UNCHANGED vars PROVE TimesOK' /\ lock' \in Sweepers \union {None}
    <3>1. UNCHANGED <<clock, activity, sweep, quiet>> /\ lock' \in {lock, None}
      BY <2>6 DEF LockLapses, Edit, vars
    <3> QED
      BY <2>1, <3>1 DEF TypeInv
  <2>7. ASSUME Tick PROVE TimesOK' /\ lock' = lock
    <3>1. UNCHANGED <<activity, sweep, quiet, lock>> /\ clock < MaxClock /\ clock' = clock + 1
      BY <2>7 DEF Tick
    <3> QED
      BY <1>0, <3>1 DEF TypeInv, TimesOK
  <2>8. ASSUME NEW j \in Jobs,
               \/ Begin(j) \/ Reserve(j) \/ Find(j) \/ Create(j) \/ Update(j) \/ SetMapping(j)
               \/ Schedule(j) \/ Fails(j) \/ Dies(j)
        PROVE  TimesOK' /\ lock' \in Sweepers \union {None}
    BY <2>1, <2>2, <2>8 DEF TypeInv
  <2> QED
    BY <2>3, <2>4, <2>5, <2>6, <2>7, <2>8 DEF Next, TypeInv
<1> QED
  BY <1>1, <1>2 DEF TypeInv

\* Every key, call and count keeps its values: within its attempts, its quiet time and the clock.
THEOREM IssueTypeHolds == ASSUME IssueAssumption PROVE Spec => []TypeOK
<1>1. Init => OwnerInv /\ Policies /\ Read /\ TypeInv
  <2> SUFFICES ASSUME Init PROVE TypeInv
    BY OwnerInit, ShownInit DEF Init, Policies, ShownInv
  <2>1. TriesOK
    BY DEF Init, TriesOK, IssueAssumption
  <2>2. TimesOK
    BY DEF Init, TimesOK, Idle, IssueAssumption
  <2> QED
    BY <2>1, <2>2 DEF Init, TypeInv
<1>2. OwnerInv /\ Policies /\ Read /\ TypeInv /\ [Next]_vars
        => (OwnerInv /\ Policies /\ Read /\ TypeInv)'
  BY OwnerStep, PoliciesStep, ReadStep, TypeStep
<1>3. OwnerInv /\ Read /\ TypeInv => TypeOK
  <2> SUFFICES ASSUME OwnerInv, Read, TypeInv PROVE TypeOK
    OBVIOUS
  <2>1. activity \in Activity /\ clock \in 0 .. MaxClock
    BY DEF Read, TypeInv, TimesOK, Notes, Activity, IssueAssumption
  <2>2. \A s \in Sweepers : sweep[s].raw \in Mapping /\ sweep[s].act \in Activity
    BY DEF Read, TypeInv, TimesOK, Calls, Notes, Activity, IssueAssumption
  <2>3. \A j \in Jobs : held[j] \in Mapping /\ tries[j] <= Attempts
    BY DEF OwnerInv, Shapes, TypeInv, TriesOK
  <2>4. mapping \in Mapping /\ issues \in Nat /\ lock \in Sweepers \union {None}
        /\ quiet \in (0 .. MaxClock + CloseAfter) \union {None}
    BY DEF OwnerInv, Shapes, TypeInv, TimesOK
  <2> QED
    BY <2>1, <2>2, <2>3, <2>4 DEF TypeOK
<1> QED
  BY <1>1, <1>2, <1>3, PTL DEF Spec
=============================================================================
