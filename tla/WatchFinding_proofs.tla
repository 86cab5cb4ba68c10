------------------------- MODULE WatchFinding_proofs -------------------------
(* What TLAPS proves of WatchFinding, for every number of lines, collectors    *)
(* and attempts, every kind of rule and every bound on what goes wrong: a job  *)
(* decides on each held line once, no line behind the cursor is without its    *)
(* verdict and its job, the model is asked once, and once it was asked         *)
(* somebody is to act until one has.                                           *)
EXTENDS WatchFinding, FiniteSetTheorems, TLAPS

JobStates == {"absent", "waiting", "active", "completed", "failed"}
Verdicts == {"none", "held", "suppressed"}
Cycles == [at : {"idle", "ingest", "enqueue", "checkpoint", "release"}, line : Nat, last : Nat]

Typed ==
  /\ window \in {"none", "open", "over"} /\ answer \in [1 .. Lines -> Verdicts]
  /\ finding \in [count : Nat, claimed : BOOLEAN]
  /\ queue \in [Names -> JobStates]
  /\ written \in 0 .. Lines /\ cursor \in 0 .. written
  /\ pull \in [Collectors -> Cycles]

\* Before the first line there is nothing to take.
Untouched ==
  window = "none" =>
    /\ ~finding.claimed /\ pending = "none"
    /\ \A j \in Names : queue[j] = "absent" /\ at[j] = "rest"
    /\ \A c \in Collectors : pull[c].at # "enqueue"

\* The count is that of the held lines, and stays what the first take saw.
Held == {l \in 1 .. Lines : answer[l] = "held"}
Tallied == finding.count = Cardinality(Held) /\ (finding.claimed => taken = finding.count)

\* A collector has seen to every line before the one in its hand, and so has
\* whoever moved the cursor.
SeenTo(n) ==
  \A l \in 1 .. n : answer[l] # "none" /\ (answer[l] = "held" => queue["dispatch"] # "absent")
BatchOK(p) ==
  /\ p.at \in {"ingest", "enqueue"} =>
       p.line \in 1 .. p.last /\ p.last \in 1 .. written /\ SeenTo(p.line - 1)
  /\ p.at = "enqueue" => answer[p.line] = "held"
  /\ p.at = "checkpoint" => p.last \in 1 .. written /\ SeenTo(p.last)
Batches == SeenTo(cursor) /\ \A c \in Collectors : BatchOK(pull[c])

PullInv == Typed /\ Untouched /\ Tallied /\ Batches

-----------------------------------------------------------------------------
\* What a line has been seen to by, it is for good.
LEMMA SeenToStays ==
  ASSUME NEW n \in Nat, SeenTo(n), Lines \in Nat, n <= Lines,
         \A l \in 1 .. Lines : answer[l] # "none" => answer'[l] = answer[l],
         queue["dispatch"] # "absent" => queue'["dispatch"] # "absent"
  PROVE  SeenTo(n)'
  BY DEF SeenTo

LEMMA BatchStays ==
  ASSUME NEW p \in Cycles, BatchOK(p), written \in 0 .. Lines, written' \in written .. Lines,
         Lines \in Nat,
         \A l \in 1 .. Lines : answer[l] # "none" => answer'[l] = answer[l],
         queue["dispatch"] # "absent" => queue'["dispatch"] # "absent"
  PROVE  /\ p.at \in {"ingest", "enqueue"} =>
              p.line \in 1 .. p.last /\ p.last \in 1 .. written' /\ SeenTo(p.line - 1)'
         /\ p.at = "enqueue" => answer'[p.line] = "held"
         /\ p.at = "checkpoint" => p.last \in 1 .. written' /\ SeenTo(p.last)'
<1>1. CASE p.at \in {"ingest", "enqueue"}
  <2>1. p.line \in 1 .. p.last /\ p.last \in 1 .. written /\ SeenTo(p.line - 1)
    BY <1>1 DEF BatchOK
  <2>2. p.line - 1 \in Nat /\ p.line - 1 <= Lines /\ p.last \in 1 .. written' /\ p.line \in 1 .. Lines
    BY <2>1 DEF Cycles
  <2>3. SeenTo(p.line - 1)'
    BY <2>1, <2>2, SeenToStays
  <2>4. p.at = "enqueue" => answer'[p.line] = "held"
    BY <2>2 DEF BatchOK
  <2> QED
    BY <1>1, <2>1, <2>2, <2>3, <2>4
<1>2. CASE p.at = "checkpoint"
  <2>1. p.last \in 1 .. written /\ SeenTo(p.last)
    BY <1>2 DEF BatchOK
  <2>2. p.last \in Nat /\ p.last <= Lines /\ p.last \in 1 .. written'
    BY <2>1 DEF Cycles
  <2> QED
    BY <1>2, <2>1, <2>2, SeenToStays
<1> QED
  BY <1>1, <1>2

\* A step of a job: no line is touched.
LEMMA JobStep ==
  ASSUME PullInv, Lines \in Nat, window # "none",
         UNCHANGED <<window, answer, written, cursor, pull>>,
         queue' \in [Names -> JobStates],
         queue["dispatch"] # "absent" => queue'["dispatch"] # "absent",
         finding' \in [count : Nat, claimed : BOOLEAN], finding'.count = finding.count,
         finding'.claimed => taken' = finding'.count
  PROVE  PullInv'
<1>1. Typed'
  BY DEF PullInv, Typed
<1>2. Untouched'
  BY DEF Untouched
<1>3. Tallied'
  BY DEF PullInv, Tallied, Held
<1>4. Batches'
  <2>1. /\ written \in 0 .. Lines /\ cursor \in 0 .. written
        /\ \A c \in Collectors : pull[c] \in Cycles /\ pull'[c] = pull[c]
        /\ cursor \in Nat /\ cursor <= Lines
    BY DEF PullInv, Typed
  <2>2. SeenTo(cursor)'
    BY <2>1, SeenToStays DEF PullInv, Batches
  <2>3. ASSUME NEW c \in Collectors PROVE BatchOK(pull[c])'
    BY <2>1, BatchStays DEF PullInv, Batches, BatchOK
  <2> QED
    BY <2>1, <2>2, <2>3 DEF Batches
<1> QED
  BY <1>1, <1>2, <1>3, <1>4 DEF PullInv

\* The queue's part of a job's step: one of its two jobs gets another state.
LEMMA QueueSet ==
  ASSUME Typed, NEW j \in Names, NEW s \in JobStates \ {"absent"},
         queue' = [queue EXCEPT ![j] = s]
  PROVE  queue' \in [Names -> JobStates]
         /\ (queue["dispatch"] # "absent" => queue'["dispatch"] # "absent")
  BY DEF Typed, Names

LEMMA QueueAdded ==
  ASSUME Typed, NEW j \in Names, queue' = Added(j)
  PROVE  /\ queue' \in [Names -> JobStates]
         /\ queue["dispatch"] # "absent" => queue'["dispatch"] # "absent"
         /\ queue'[j] # "absent"
  BY DEF Typed, Names, Added, JobStates

LEMMA WorkStep ==
  ASSUME PullInv, Lines \in Nat, NEW j \in Names,
         \/ Pick(j) \/ Take(j) \/ TakesTooSoon(j) \/ Look(j) \/ Acknowledge(j) \/ Ignore(j)
         \/ File(j) \/ Admit(j) \/ Defers(j) \/ Refuses(j) \/ MarkDeciding(j) \/ StartDecision(j)
         \/ StartRun(j) \/ Exit(j) \/ Decide(j) \/ HandOn(j) \/ Push(j) \/ CloseRun(j)
         \/ Unavailable(j) \/ End(j) \/ Throws(j) \/ Crash(j)
  PROVE  PullInv'
<1> USE DEF source, store, jobs, history
<1>1. Typed /\ finding \in [count : Nat, claimed : BOOLEAN] /\ queue \in [Names -> JobStates]
      /\ (finding.claimed => taken = finding.count)
  BY DEF PullInv, Typed, Tallied
<1>2. at[j] # "rest" \/ queue[j] # "absent" => window # "none"
  BY DEF PullInv, Untouched
<1>3. ASSUME \/ Look(j) \/ Acknowledge(j) \/ Admit(j) \/ MarkDeciding(j) \/ StartDecision(j)
             \/ StartRun(j) \/ Exit(j) \/ Decide(j) \/ HandOn(j) \/ CloseRun(j) \/ Unavailable(j)
      PROVE  PullInv'
  <2>1. at[j] # "rest"
    BY <1>3 DEF Look, Acknowledge, Admit, MarkDeciding, StartDecision, StartRun, Exit, Decide,
                HandOn, CloseRun, Unavailable, Collecting, Goes
  <2>2. UNCHANGED <<window, answer, written, cursor, pull, queue, finding, taken>>
    BY <1>3 DEF Look, Acknowledge, Admit, MarkDeciding, StartDecision, StartRun, Exit, Decide,
                HandOn, CloseRun, Unavailable, Acts, Disturbed
  <2> QED
    BY <2>1, <2>2, <1>1, <1>2, JobStep
<1>4. ASSUME \/ Pick(j) \/ TakesTooSoon(j) \/ Ignore(j) \/ File(j) \/ Defers(j) \/ Refuses(j)
             \/ End(j) \/ Crash(j)
      PROVE  PullInv'
  <2>1. at[j] # "rest" \/ queue[j] # "absent"
    BY <1>4 DEF Pick, TakesTooSoon, Ignore, File, Defers, Refuses, End, Crash, Goes
  <2>2. UNCHANGED <<window, answer, written, cursor, pull, finding, taken>>
    BY <1>4 DEF Pick, TakesTooSoon, Ignore, File, Defers, Refuses, End, Crash, Acts, Disturbed
  <2>3. \E s \in JobStates \ {"absent"} : queue' = [queue EXCEPT ![j] = s]
    BY <1>4 DEF Pick, TakesTooSoon, Ignore, File, Defers, Refuses, End, Crash, Ends, Fails, Returns,
                JobStates
  <2>4. queue' \in [Names -> JobStates]
        /\ (queue["dispatch"] # "absent" => queue'["dispatch"] # "absent")
    BY <2>3, <1>1, QueueSet
  <2> QED
    BY <2>1, <2>2, <2>4, <1>1, <1>2, JobStep
<1>5. ASSUME Push(j) PROVE PullInv'
  <2>1. at[j] # "rest" /\ queue' = Added("action")
        /\ UNCHANGED <<window, answer, written, cursor, pull, finding, taken>>
    BY <1>5 DEF Push, Goes
  <2>2. queue' \in [Names -> JobStates]
        /\ (queue["dispatch"] # "absent" => queue'["dispatch"] # "absent")
    BY <2>1, <1>1, QueueAdded DEF Names
  <2> QED
    BY <2>1, <2>2, <1>1, <1>2, JobStep
<1>6. ASSUME Take(j) PROVE PullInv'
  <2>1. at[j] # "rest" /\ finding' = [finding EXCEPT !.claimed = TRUE]
        /\ UNCHANGED <<window, answer, written, cursor, pull>>
        /\ taken' = IF finding.claimed THEN taken ELSE finding.count
    BY <1>6 DEF Take
  <2>2. queue' = queue \/ queue' = [queue EXCEPT ![j] = "completed"]
    BY <1>6 DEF Take, Goes, Ends, Returns
  <2>3. queue' \in [Names -> JobStates]
        /\ (queue["dispatch"] # "absent" => queue'["dispatch"] # "absent")
    BY <2>2, <1>1, QueueSet DEF JobStates
  <2>4. finding' \in [count : Nat, claimed : BOOLEAN] /\ finding'.count = finding.count
        /\ taken' = finding'.count
    BY <2>1, <1>1
  <2> QED
    BY <2>1, <2>3, <2>4, <1>2, JobStep
<1>7. ASSUME Throws(j) PROVE PullInv'
  <2>1. at[j] # "rest" /\ UNCHANGED <<window, answer, written, cursor, pull, finding, taken>>
    BY <1>7 DEF Throws, Disturbed
  <2>2. queue' = queue \/ \E s \in JobStates \ {"absent"} : queue' = [queue EXCEPT ![j] = s]
    BY <1>7 DEF Throws, Fails, Returns, JobStates
  <2>3. queue' \in [Names -> JobStates]
        /\ (queue["dispatch"] # "absent" => queue'["dispatch"] # "absent")
    BY <2>2, <1>1, QueueSet
  <2> QED
    BY <2>1, <2>3, <1>1, <1>2, JobStep
<1> QED
  BY <1>3, <1>4, <1>5, <1>6, <1>7

-----------------------------------------------------------------------------
(* Collectors. *)

\* One collector goes on to p, the others stay where they are.
LEMMA CycleSet ==
  ASSUME PullInv, Lines \in Nat, NEW c \in Collectors, NEW p \in Cycles,
         pull' = [pull EXCEPT ![c] = p], written' = written,
         \A l \in 1 .. Lines : answer[l] # "none" => answer'[l] = answer[l],
         queue["dispatch"] # "absent" => queue'["dispatch"] # "absent",
         BatchOK(p)', SeenTo(cursor)'
  PROVE  pull' \in [Collectors -> Cycles] /\ Batches'
<1>1. pull' \in [Collectors -> Cycles]
  BY DEF PullInv, Typed
<1>2. ASSUME NEW d \in Collectors PROVE BatchOK(pull[d])'
  <2>1. CASE d = c
    <3>1. pull'[d] = p
      BY <2>1 DEF PullInv, Typed
    <3> QED
      BY <3>1 DEF BatchOK
  <2>2. CASE d # c
    <3>1. pull'[d] = pull[d] /\ pull[d] \in Cycles /\ written' \in written .. Lines /\ written \in 0 .. Lines
      BY <2>2 DEF PullInv, Typed
    <3>2. BatchOK(pull[d])
      BY DEF PullInv, Batches
    <3> QED
      BY <3>1, <3>2, BatchStays DEF BatchOK
  <2> QED
    BY <2>1, <2>2
<1> QED
  BY <1>1, <1>2 DEF Batches

\* A collector that rests or is about to has nothing to answer for.
LEMMA CycleEnds ==
  ASSUME PullInv, Lines \in Nat, NEW c \in Collectors, NEW p \in Cycles,
         p.at \in {"idle", "release"}, pull' = [pull EXCEPT ![c] = p],
         UNCHANGED <<window, answer, written, queue, finding, taken, at, pending>>,
         cursor' = cursor \/ (cursor' \in 0 .. written /\ SeenTo(cursor)')
  PROVE  PullInv'
<1>1. BatchOK(p)'
  BY DEF BatchOK
<1>2. cursor \in Nat /\ cursor <= Lines /\ SeenTo(cursor) /\ cursor' \in 0 .. written
  BY DEF PullInv, Typed, Batches
<1>3. SeenTo(cursor)'
  BY <1>2, SeenToStays DEF SeenTo
<1>4. pull' \in [Collectors -> Cycles] /\ Batches'
  BY <1>1, <1>3, CycleSet
<1>5. Typed'
  BY <1>2, <1>4 DEF PullInv, Typed
<1>6. Untouched'
  BY DEF PullInv, Typed, Untouched
<1>7. Tallied'
  BY DEF PullInv, Tallied, Held
<1> QED
  BY <1>4, <1>5, <1>6, <1>7 DEF PullInv

\* Past the line in hand, with that line seen to.
LEMMA AfterOK ==
  ASSUME Lines \in Nat, NEW p \in Cycles, p.line \in 1 .. p.last, p.last \in 1 .. written',
         written' \in 0 .. Lines, SeenTo(p.line)'
  PROVE  After(p) \in Cycles /\ After(p).at # "enqueue" /\ BatchOK(After(p))'
<1>1. CASE p.line < p.last
  <2>1. After(p) = [p EXCEPT !.at = "ingest", !.line = @ + 1]
    BY <1>1 DEF After
  <2>2. p.line \in Nat /\ p.last \in Nat
    BY DEF Cycles
  <2>3. After(p) = [at |-> "ingest", line |-> p.line + 1, last |-> p.last]
    BY <2>1 DEF Cycles
  <2>4. After(p) \in Cycles /\ After(p).at = "ingest"
    BY <2>2, <2>3 DEF Cycles
  <2>5. After(p).line = p.line + 1 /\ After(p).last = p.last
    BY <2>3
  <2>6. After(p).line - 1 = p.line /\ After(p).line \in 1 .. After(p).last
    BY <1>1, <2>2, <2>5
  <2> QED
    BY <2>4, <2>5, <2>6 DEF BatchOK
<1>2. CASE ~(p.line < p.last)
  <2>1. After(p) = [p EXCEPT !.at = "checkpoint"] /\ p.line = p.last
    BY <1>2 DEF After, Cycles
  <2>2. After(p).at = "checkpoint" /\ After(p).last = p.last /\ After(p) \in Cycles
    BY <2>1 DEF Cycles
  <2> QED
    BY <2>1, <2>2 DEF BatchOK
<1> QED
  BY <1>1, <1>2

LEMMA CollectStep ==
  ASSUME PullInv, Lines \in Nat, NEW c \in Collectors,
         \/ Poll(c) \/ Ingest(c) \/ Enqueue(c) \/ Checkpoint(c) \/ Release(c) \/ Breaks(c)
         \/ CollectorDies(c)
  PROVE  PullInv'
<1> USE DEF source, store, jobs, history
<1>0. /\ Typed /\ pull[c] \in Cycles /\ BatchOK(pull[c]) /\ SeenTo(cursor)
      /\ written \in 0 .. Lines /\ cursor \in 0 .. written /\ cursor \in Nat /\ cursor <= Lines
      /\ pull \in [Collectors -> Cycles]
  BY DEF PullInv, Typed, Batches
<1>1. CASE Poll(c)
  <2>1. /\ pull' = [pull EXCEPT ![c] = [at |-> "ingest", line |-> cursor + 1, last |-> written]]
        /\ cursor < written
        /\ UNCHANGED <<written, cursor, window, answer, finding, queue, taken, at, pending>>
    BY <1>1 DEF Poll
  <2>a. [at |-> "ingest", line |-> cursor + 1, last |-> written] \in Cycles
    BY <1>0 DEF Cycles
  <2>2. PICK p \in Cycles : p = [at |-> "ingest", line |-> cursor + 1, last |-> written]
    BY <2>a
  <2>3. p.line \in 1 .. p.last /\ p.last \in 1 .. written /\ p.line - 1 = cursor /\ p.at = "ingest"
    BY <1>0, <2>1, <2>2
  <2>4. SeenTo(cursor)'
    BY <1>0, <2>1, SeenToStays
  <2>5. BatchOK(p)'
    BY <2>1, <2>3, <2>4 DEF BatchOK, SeenTo
  <2>6. pull' \in [Collectors -> Cycles] /\ Batches'
    BY <2>1, <2>2, <2>4, <2>5, CycleSet
  <2>7. Typed'
    BY <1>0, <2>1, <2>6 DEF Typed
  <2>8. Untouched'
    BY <2>1, <2>2, <2>3, <1>0 DEF PullInv, Untouched
  <2>9. Tallied'
    BY <2>1 DEF PullInv, Tallied, Held
  <2> QED
    BY <2>6, <2>7, <2>8, <2>9 DEF PullInv
<1>2. CASE Enqueue(c)
  <2>p. PICK p \in Cycles : p = pull[c]
    BY <1>0
  <2>1. /\ p.at = "enqueue" /\ queue' = Added("dispatch") /\ pull' = [pull EXCEPT ![c] = After(p)]
        /\ UNCHANGED <<written, cursor, window, answer, finding, taken, at, pending>>
    BY <1>2, <2>p DEF Enqueue
  <2>2. /\ p.line \in 1 .. p.last /\ p.last \in 1 .. written /\ SeenTo(p.line - 1)
        /\ answer[p.line] = "held" /\ p.line \in Nat /\ p.line - 1 \in Nat /\ p.line - 1 <= Lines
        /\ window # "none"
    BY <1>0, <2>p, <2>1 DEF BatchOK, Cycles, PullInv, Untouched
  <2>3. queue' \in [Names -> JobStates] /\ queue'["dispatch"] # "absent"
    BY <1>0, <2>1, QueueAdded DEF Names
  <2>4. SeenTo(p.line - 1)' /\ SeenTo(cursor)'
    BY <1>0, <2>1, <2>2, <2>3, SeenToStays
  <2>5. SeenTo(p.line)'
    BY <2>1, <2>2, <2>3, <2>4 DEF SeenTo
  <2>6. After(p) \in Cycles /\ BatchOK(After(p))'
    <3>1. p \in Cycles /\ p.last \in 1 .. written' /\ written' \in 0 .. Lines
      BY <1>0, <2>1, <2>2
    <3> QED
      BY <3>1, <2>2, <2>5, AfterOK
  <2>7. pull' \in [Collectors -> Cycles] /\ Batches'
    BY <2>1, <2>3, <2>4, <2>6, CycleSet
  <2>8. Typed'
    BY <1>0, <2>1, <2>3, <2>7 DEF Typed
  <2>9. Untouched' /\ Tallied'
    BY <2>1, <2>2 DEF PullInv, Untouched, Tallied, Held
  <2> QED
    BY <2>7, <2>8, <2>9 DEF PullInv
<1>3. CASE Checkpoint(c)
  <2> DEFINE p == [pull[c] EXCEPT !.at = "release"]
  <2>1. /\ pull[c].at = "checkpoint" /\ pull' = [pull EXCEPT ![c] = p]
        /\ cursor' = IF Holds(c) THEN pull[c].last ELSE cursor
        /\ UNCHANGED <<written, window, answer, finding, queue, taken, at, pending>>
    BY <1>3 DEF Checkpoint
  <2>2. p \in Cycles /\ p.at = "release"
    BY <1>0 DEF Cycles
  <2>3. pull[c].last \in 0 .. written /\ SeenTo(pull[c].last)
    BY <1>0, <2>1 DEF BatchOK
  <2>4. cursor' = cursor \/ (cursor' \in 0 .. written /\ SeenTo(cursor)')
    BY <2>1, <2>3 DEF SeenTo
  <2> QED
    BY <2>1, <2>2, <2>4, CycleEnds
<1>4. CASE Release(c) \/ CollectorDies(c)
  <2>1. Rest \in Cycles /\ Rest.at = "idle"
    BY DEF Rest, Cycles
  <2>2. pull' = [pull EXCEPT ![c] = Rest]
        /\ UNCHANGED <<window, answer, written, queue, finding, taken, at, pending, cursor>>
    BY <1>4 DEF Release, CollectorDies, Disturbed
  <2> QED
    BY <2>1, <2>2, CycleEnds
<1>5. CASE Breaks(c)
  <2> DEFINE p == [pull[c] EXCEPT !.at = "release"]
  <2>1. p \in Cycles /\ p.at = "release"
    BY <1>0 DEF Cycles
  <2>2. pull' = [pull EXCEPT ![c] = p]
        /\ UNCHANGED <<window, answer, written, queue, finding, taken, at, pending, cursor>>
    BY <1>5 DEF Breaks, Disturbed
  <2> QED
    BY <2>1, <2>2, CycleEnds
<1>6. CASE Ingest(c)
  <2>p. PICK p \in Cycles : p = pull[c]
    BY <1>0
  <2> DEFINE first == answer[p.line] = "none"
             verdict == IF ~first THEN answer[p.line]
                        ELSE IF window = "none" \/ Counts THEN "held" ELSE "suppressed"
             kept == [p EXCEPT !.at = "enqueue"]
  <2>1. /\ p.at = "ingest" /\ answer' = [answer EXCEPT ![p.line] = verdict]
        /\ window' = (IF window = "none" THEN "open" ELSE window)
        /\ finding' = IF first /\ verdict = "held" THEN [finding EXCEPT !.count = @ + 1] ELSE finding
        /\ pull' = [pull EXCEPT ![c] = IF verdict = "held" THEN kept ELSE After(p)]
        /\ UNCHANGED <<written, cursor, queue, taken, at, pending>>
    BY <1>6, <2>p DEF Ingest
  <2>2. /\ p.line \in 1 .. p.last /\ p.last \in 1 .. written /\ SeenTo(p.line - 1)
        /\ p.line \in Nat /\ p.line - 1 \in Nat /\ p.line - 1 <= Lines /\ p.line \in 1 .. Lines
    BY <1>0, <2>p, <2>1 DEF BatchOK, Cycles
  <2>3. verdict \in {"held", "suppressed"}
    BY <1>0, <2>2 DEF Typed, Verdicts
  <2>4. /\ answer' \in [1 .. Lines -> Verdicts] /\ answer'[p.line] = verdict
        /\ \A l \in 1 .. Lines : answer[l] # "none" => answer'[l] = answer[l]
    BY <1>0, <2>1, <2>2, <2>3 DEF Typed, Verdicts
  <2>5. SeenTo(p.line - 1)' /\ SeenTo(cursor)'
    BY <1>0, <2>1, <2>2, <2>4, SeenToStays
  <2>6. kept \in Cycles /\ kept.at = "enqueue" /\ kept.line = p.line /\ kept.last = p.last
    BY DEF Cycles
  <2> HIDE DEF verdict, kept
  <2>7. \E q \in Cycles : pull' = [pull EXCEPT ![c] = q] /\ BatchOK(q)'
    <3>1. CASE verdict = "held"
      <4>1. PICK q \in Cycles : q = kept
        BY <2>6
      <4>2. BatchOK(q)'
        BY <3>1, <4>1, <2>1, <2>2, <2>4, <2>5, <2>6 DEF BatchOK
      <4> QED
        BY <3>1, <4>1, <4>2, <2>1
    <3>2. CASE verdict = "suppressed"
      <4>1. SeenTo(p.line)'
        BY <3>2, <2>1, <2>2, <2>4, <2>5 DEF SeenTo
      <4>2. p.last \in 1 .. written' /\ written' \in 0 .. Lines
        BY <1>0, <2>1, <2>2
      <4>3. After(p) \in Cycles /\ BatchOK(After(p))'
        BY <4>1, <4>2, <2>2, AfterOK
      <4> QED
        BY <3>2, <4>3, <2>1
    <3> QED
      BY <3>1, <3>2, <2>3
  <2>8. pull' \in [Collectors -> Cycles] /\ Batches'
    BY <2>1, <2>4, <2>5, <2>7, CycleSet
  <2>9. Typed'
    BY <1>0, <2>1, <2>4, <2>8 DEF Typed
  <2>10. Untouched'
    BY <2>1, <1>0 DEF Untouched, Typed
  <2>11. Tallied'
    <3>1. CASE first /\ verdict = "held"
      <4>1. ~finding.claimed
        BY <3>1 DEF verdict, Counts, PullInv, Untouched
      <4>2. Held' = Held \union {p.line} /\ p.line \notin Held
        BY <3>1, <1>0, <2>1, <2>2, <2>4 DEF Held, Typed
      <4>3. IsFiniteSet(Held)
        <5>1. IsFiniteSet(1 .. Lines)
          BY FS_Interval
        <5>2. Held \subseteq 1 .. Lines
          BY DEF Held
        <5> QED
          BY <5>1, <5>2, FS_Subset
      <4>4. Cardinality(Held') = Cardinality(Held) + 1
        BY <4>2, <4>3, FS_AddElement
      <4>5. finding'.count = finding.count + 1 /\ finding'.claimed = finding.claimed
        BY <1>0, <2>1, <3>1 DEF Typed
      <4> QED
        BY <4>1, <4>4, <4>5 DEF PullInv, Tallied
    <3>2. CASE ~(first /\ verdict = "held")
      <4>1. Held' = Held
        BY <3>2, <1>0, <2>1, <2>2, <2>3, <2>4 DEF Held, Typed, verdict
      <4> QED
        BY <3>2, <4>1, <2>1 DEF PullInv, Tallied
    <3> QED
      BY <3>1, <3>2
  <2> QED
    BY <2>8, <2>9, <2>10, <2>11 DEF PullInv
<1> QED
  BY <1>1, <1>2, <1>3, <1>4, <1>5, <1>6

LEMMA PullInit == Lines \in Nat /\ Init => PullInv
<1> SUFFICES ASSUME Lines \in Nat, Init PROVE PullInv
  OBVIOUS
<1>1. Typed /\ Untouched
  BY DEF Init, Typed, Untouched, Rest, Cycles, Verdicts, JobStates, Names
<1>2. Tallied
  <2>1. Held = {}
    BY DEF Init, Held
  <2> QED
    BY <2>1, FS_EmptySet DEF Init, Tallied
<1>3. Batches
  BY DEF Init, Batches, SeenTo, BatchOK, Rest
<1> QED
  BY <1>1, <1>2, <1>3 DEF PullInv

LEMMA PullStep == Lines \in Nat /\ PullInv /\ [Next]_vars => PullInv'
<1> SUFFICES ASSUME Lines \in Nat, PullInv, [Next]_vars PROVE PullInv'
  OBVIOUS
<1> USE DEF source, store, jobs, history
<1>0. /\ Typed /\ SeenTo(cursor) /\ cursor \in Nat /\ cursor <= Lines /\ written \in 0 .. Lines
      /\ \A c \in Collectors : pull[c] \in Cycles /\ BatchOK(pull[c])
  BY DEF PullInv, Typed, Batches
<1>1. ASSUME Write PROVE PullInv'
  <2>1. written' = written + 1 /\ written' \in written .. Lines
        /\ UNCHANGED <<cursor, pull, window, answer, finding, queue, taken, at, pending>>
    BY <1>0, <1>1 DEF Write
  <2>2. SeenTo(cursor)'
    BY <1>0, <2>1, SeenToStays
  <2>3. ASSUME NEW c \in Collectors PROVE BatchOK(pull[c])'
    BY <1>0, <2>1, BatchStays DEF BatchOK
  <2>4. Typed'
    BY <1>0, <2>1 DEF Typed
  <2>5. Untouched' /\ Tallied'
    BY <2>1 DEF PullInv, Untouched, Tallied, Held
  <2> QED
    BY <2>1, <2>2, <2>3, <2>4, <2>5 DEF PullInv, Batches
<1>2. ASSUME Collects PROVE PullInv'
  BY <1>2, CollectStep DEF Collects
<1>3. ASSUME Works PROVE PullInv'
  BY <1>3, WorkStep DEF Works
<1>4. ASSUME LeaseLapses \/ UNCHANGED vars PROVE PullInv'
  <2>1. UNCHANGED <<written, cursor, pull, window, answer, finding, queue, taken, at, pending>>
    BY <1>4 DEF LeaseLapses, vars
  <2>2. Typed' /\ Untouched' /\ Tallied' /\ Batches'
    BY <2>1 DEF PullInv, Typed, Untouched, Tallied, Held, Batches, BatchOK, SeenTo
  <2> QED
    BY <2>2 DEF PullInv
<1>5. ASSUME WindowEnds PROVE PullInv'
  <2>1. /\ window = "open" /\ window' = "over"
        /\ UNCHANGED <<written, cursor, pull, answer, finding, queue, taken, at, pending>>
    BY <1>5 DEF WindowEnds
  <2>2. Typed' /\ Untouched' /\ Tallied' /\ Batches'
    BY <2>1 DEF PullInv, Typed, Untouched, Tallied, Held, Batches, BatchOK, SeenTo
  <2> QED
    BY <2>2 DEF PullInv
<1>6. ASSUME SafetyComes \/ Drain PROVE PullInv'
  <2>1. window # "none"
    BY <1>6 DEF SafetyComes, Drain, PullInv, Untouched
  <2>2. UNCHANGED <<written, cursor, pull, window, answer, finding, taken>>
    BY <1>6 DEF SafetyComes, Drain
  <2>3. queue' = queue \/ queue' = Added("action")
    BY <1>6 DEF SafetyComes, Drain
  <2>4. queue' \in [Names -> JobStates]
        /\ (queue["dispatch"] # "absent" => queue'["dispatch"] # "absent")
    BY <1>0, <2>3, QueueAdded DEF Names, Typed
  <2> QED
    BY <2>1, <2>2, <2>4, JobStep DEF PullInv, Typed, Tallied
<1> QED
  BY <1>1, <1>2, <1>3, <1>4, <1>5, <1>6 DEF Next

\* A job decides on every delivery whose sender was told it is held, each counted
\* once: through resent batches, lapsed leases, deaths and clocks apart.
THEOREM EvidenceHolds ==
  ASSUME FindingAssumption
  PROVE  Spec => []EvidenceIsWhole
<1>1. Lines \in Nat
  BY DEF FindingAssumption
<1>2. PullInv => EvidenceIsWhole
  BY DEF PullInv, Tallied, Held, EvidenceIsWhole
<1> QED
  BY <1>1, <1>2, PullInit, PullStep, PTL DEF Spec

\* A line behind the cursor has its verdict, and its job if it is held, whoever
\* moved the cursor and whatever broke off before.
THEOREM CheckpointHolds ==
  ASSUME FindingAssumption
  PROVE  Spec => []CheckpointedIsQueued
<1>1. Lines \in Nat
  BY DEF FindingAssumption
<1>2. PullInv => CheckpointedIsQueued
  BY DEF PullInv, Batches, SeenTo, CheckpointedIsQueued
<1> QED
  BY <1>1, <1>2, PullInit, PullStep, PTL DEF Spec

-----------------------------------------------------------------------------
(* The decision is bought once. *)

Statuses == {"held", "decision-pending", "deciding", "decided", "ignored", "issue", "running",
             "completed", "failed", "unavailable"}
Choices == Decisions \union {"none"}
Steps == {"rest", "take", "look", "ack", "decision", "investigate", "file_issue", "ignore", "ask", "run",
          "safety", "deciding", "running", "decide", "close", "hand", "push", "end"}
BeforeDecision == {"decision", "ask", "safety"}
OfRun == {"investigate", "run", "running", "close", "ignore"}

\* Where the attempts are: a dispatch alone decides, and only where the rule asks.
JobsOK ==
  /\ queue \in [Names -> JobStates] /\ at \in [Names -> Steps] /\ decision \in Choices
  /\ saw \in [Names -> Statuses \X Choices] /\ status \in Statuses /\ decisions \in Nat
  /\ \A j \in Names : at[j] # "rest" => queue[j] = "active"
  /\ at["dispatch"] # "ack" /\ at["action"] \notin BeforeDecision \union {"deciding"}
  /\ at["dispatch"] \in BeforeDecision => Deciding
  /\ decisions > 0 => Deciding

Calm == "faults" \notin happened /\ "late" \notin happened

\* While no command fails and the safety action is not due: once the decision's
\* container started, the finding says so until no dispatch can ask again.
Paid ==
  /\ decisions <= 1
  /\ at["dispatch"] \in BeforeDecision => decisions = 0
  /\ at["dispatch"] = "safety" => status = "deciding"
  /\ decisions > 0 =>
       decision # "none" \/ status = "deciding" \/ queue["dispatch"] \in {"completed", "failed"}
  /\ decision # "none" => decisions > 0
  /\ \A j \in Names : at[j] \in {"deciding", "decide"} => decisions > 0
  /\ \A j \in Names : at[j] \in {"hand", "push"} => decision # "none"
  /\ queue["action"] # "absent" \/ pending = "now" => decision # "none"
  /\ at["dispatch"] \in OfRun /\ decisions > 0 => decision # "none"

PayInv == JobsOK /\ (Calm => Paid)

LEMMA PayInit == Init => PayInv
<1> SUFFICES ASSUME Init PROVE PayInv
  OBVIOUS
<1>1. saw \in [Names -> Statuses \X Choices]
  BY DEF Init, Choices, Statuses
<1>2. JobsOK
  BY <1>1 DEF Init, JobsOK, Names, JobStates, Steps, Choices, Statuses, BeforeDecision
<1>3. Paid
  BY DEF Init, Paid, Names, BeforeDecision, OfRun
<1> QED
  BY <1>2, <1>3 DEF PayInv

\* A step that leaves the jobs and the finding alone.
LEMMA PayKept ==
  ASSUME PayInv, UNCHANGED <<rule, at, saw, status, decision, pending, decisions>>,
         queue' = queue \/ queue' = Added("dispatch"), Calm' => Calm
  PROVE  PayInv'
<1>1. CASE queue' = queue
  BY <1>1 DEF PayInv, JobsOK, Paid, Deciding
<1>2. CASE queue' = Added("dispatch")
  <2>1. /\ queue' \in [Names -> JobStates] /\ queue'["action"] = queue["action"]
        /\ queue["dispatch"] # "absent" => queue'["dispatch"] = queue["dispatch"]
    BY <1>2 DEF PayInv, JobsOK, Added, Names, JobStates
  <2>2. JobsOK'
    BY <2>1 DEF PayInv, JobsOK, Deciding, Names
  <2>3. Calm => Paid'
    BY <2>1 DEF PayInv, Paid
  <2> QED
    BY <2>2, <2>3 DEF PayInv
<1> QED
  BY <1>1, <1>2

LEMMA WantsFacts ==
  ASSUME NEW j \in Names, saw' \in [Names -> Statuses \X Choices]
  PROVE  /\ Wants(j) \in {"decision", "file_issue", "investigate", "ignore"}
         /\ Wants(j) = "decision" =>
              Deciding /\ j = "dispatch" /\ saw'[j][2] = "none" /\ saw'[j][1] # "deciding"
         /\ Deciding /\ Wants(j) \in OfRun => saw'[j][2] # "none"
  BY DEF Wants, AsksFirst, Choices, Decisions, OfRun

LEMMA PayWork ==
  ASSUME PayInv, NEW j \in Names,
         \/ Pick(j) \/ Take(j) \/ TakesTooSoon(j) \/ Look(j) \/ Acknowledge(j) \/ Ignore(j)
         \/ File(j) \/ Admit(j) \/ Defers(j) \/ Refuses(j) \/ MarkDeciding(j) \/ StartDecision(j)
         \/ StartRun(j) \/ Exit(j) \/ Decide(j) \/ HandOn(j) \/ Push(j) \/ CloseRun(j)
         \/ Unavailable(j) \/ End(j) \/ Throws(j) \/ Crash(j)
  PROVE  PayInv'
<1> USE DEF source, store, jobs, history, Names
<1>1. CASE Pick(j)
  <2>1. /\ queue[j] = "waiting" /\ queue' = [queue EXCEPT ![j] = "active"] /\ at' = [at EXCEPT ![j] = "take"]
        /\ UNCHANGED <<rule, saw, status, decision, pending, decisions>> /\ (Calm' => Calm)
    BY <1>1 DEF Pick, Goes, Disturbed, Calm
  <2>2. JobsOK'
    BY <2>1 DEF PayInv, JobsOK, Steps, JobStates, Statuses, BeforeDecision, Deciding
  <2>3. Calm' => Paid'
    BY <2>1 DEF PayInv, JobsOK, Paid, BeforeDecision, OfRun
  <2> QED
    BY <2>2, <2>3 DEF PayInv
<1>2. CASE Take(j)
  <2>1. /\ at[j] = "take" /\ UNCHANGED <<rule, saw, status, decision, pending, decisions, happened>>
        /\ \/ queue' = queue /\ at' = [at EXCEPT ![j] = "look"]
           \/ queue' = [queue EXCEPT ![j] = "completed"] /\ at' = [at EXCEPT ![j] = "rest"]
    BY <1>2 DEF Take, Goes, Ends, Returns
  <2>2. JobsOK'
    BY <2>1 DEF PayInv, JobsOK, Steps, JobStates, Statuses, BeforeDecision, Deciding
  <2>3. Calm' => Paid'
    BY <2>1 DEF PayInv, JobsOK, Paid, BeforeDecision, OfRun, Calm
  <2> QED
    BY <2>2, <2>3 DEF PayInv
<1>3. CASE TakesTooSoon(j) \/ Refuses(j)
  <2>1. /\ at[j] # "rest" /\ UNCHANGED <<rule, saw, status, decision, pending, decisions>> /\ (Calm' => Calm)
        /\ queue' = [queue EXCEPT ![j] = "completed"] /\ at' = [at EXCEPT ![j] = "rest"]
    BY <1>3 DEF TakesTooSoon, Refuses, Disturbed, Ends, Returns, Calm, Acts
  <2>2. JobsOK'
    BY <2>1 DEF PayInv, JobsOK, Steps, JobStates, Statuses, BeforeDecision, Deciding
  <2>3. Calm' => Paid'
    BY <2>1 DEF PayInv, JobsOK, Paid, BeforeDecision, OfRun
  <2> QED
    BY <2>2, <2>3 DEF PayInv
<1>4. CASE Look(j)
  <2>1. /\ at[j] = "look" /\ saw' = [saw EXCEPT ![j] = <<status, decision>>]
        /\ at' = [at EXCEPT ![j] = IF j = "action" THEN "ack" ELSE Wants(j)]
        /\ UNCHANGED <<rule, queue, status, decision, pending, decisions, happened>>
    BY <1>4 DEF Look, Goes
  <2>2. saw' \in [Names -> Statuses \X Choices] /\ saw'[j] = <<status, decision>>
    BY <2>1 DEF PayInv, JobsOK
  <2>3. /\ Wants(j) \in {"decision", "file_issue", "investigate", "ignore"}
        /\ Wants(j) = "decision" =>
             Deciding /\ j = "dispatch" /\ decision = "none" /\ status # "deciding"
        /\ Deciding /\ Wants(j) \in OfRun => decision # "none"
    BY <2>2, WantsFacts
  <2>4. queue[j] = "active"
    BY <2>1 DEF PayInv, JobsOK
  <2>5. JobsOK'
    BY <2>1, <2>2, <2>3, <2>4 DEF PayInv, JobsOK, Steps, Statuses, BeforeDecision, Deciding
  <2>6. Calm' => Paid'
    BY <2>1, <2>3, <2>4 DEF PayInv, JobsOK, Paid, BeforeDecision, OfRun, Calm
  <2> QED
    BY <2>5, <2>6 DEF PayInv
<1>5. CASE Acknowledge(j)
  <2>1. /\ at[j] = "ack" /\ saw' = saw /\ at' = [at EXCEPT ![j] = Wants(j)] /\ pending' = "none"
        /\ UNCHANGED <<rule, queue, status, decision, decisions, happened>>
    BY <1>5 DEF Acknowledge, Goes
  <2>2. j = "action" /\ saw' \in [Names -> Statuses \X Choices]
    BY <2>1 DEF PayInv, JobsOK
  <2>3. Wants(j) \in {"file_issue", "investigate", "ignore"}
    BY <2>2, WantsFacts
  <2>8. JobsOK'
    BY <2>1, <2>2, <2>3 DEF PayInv, JobsOK, Steps, JobStates, Statuses, BeforeDecision, Deciding
  <2>9. Calm' => Paid'
    BY <2>1, <2>2, <2>3 DEF PayInv, JobsOK, Paid, BeforeDecision, OfRun, Calm
  <2> QED
    BY <2>8, <2>9 DEF PayInv
<1>6. CASE Ignore(j) \/ File(j)
  <2>1. /\ at[j] # "rest" /\ status' \in {"ignored", "issue"}
        /\ queue' = [queue EXCEPT ![j] = "completed"] /\ at' = [at EXCEPT ![j] = "rest"]
        /\ UNCHANGED <<rule, saw, decision, pending, decisions, happened>>
    BY <1>6 DEF Ignore, File, Ends, Returns, Acts
  <2>2. queue[j] = "active"
    BY <2>1 DEF PayInv, JobsOK
  <2>8. JobsOK'
    BY <2>1, <2>2 DEF PayInv, JobsOK, Steps, JobStates, Statuses, BeforeDecision, Deciding
  <2>9. Calm' => Paid'
    BY <2>1, <2>2 DEF PayInv, JobsOK, Paid, BeforeDecision, OfRun, Calm
  <2> QED
    BY <2>8, <2>9 DEF PayInv
<1>7. CASE Admit(j)
  <2>1. /\ \/ at[j] = "decision" /\ at' = [at EXCEPT ![j] = "ask"] /\ status' = "decision-pending"
           \/ at[j] = "investigate" /\ at' = [at EXCEPT ![j] = "run"] /\ status' = "running"
        /\ UNCHANGED <<rule, queue, saw, decision, pending, decisions, happened>>
    BY <1>7 DEF Admit, Goes
  <2>2. queue[j] = "active"
    BY <2>1 DEF PayInv, JobsOK
  <2>8. JobsOK'
    BY <2>1, <2>2 DEF PayInv, JobsOK, Steps, JobStates, Statuses, BeforeDecision, Deciding
  <2>9. Calm' => Paid'
    BY <2>1, <2>2 DEF PayInv, JobsOK, Paid, BeforeDecision, OfRun, Calm
  <2> QED
    BY <2>8, <2>9 DEF PayInv
<1>8. CASE Defers(j) \/ Crash(j)
  <2>1. /\ queue[j] = "active" /\ queue' = [queue EXCEPT ![j] = "waiting"]
        /\ at' = [at EXCEPT ![j] = "rest"]
        /\ UNCHANGED <<rule, saw, status, decision, pending, decisions>> /\ (Calm' => Calm)
    BY <1>8 DEF Defers, Crash, Returns, Disturbed, PayInv, JobsOK, Calm
  <2>8. JobsOK'
    BY <2>1 DEF PayInv, JobsOK, Steps, JobStates, Statuses, BeforeDecision, Deciding
  <2>9. Calm' => Paid'
    BY <2>1 DEF PayInv, JobsOK, Paid, BeforeDecision, OfRun, Calm
  <2> QED
    BY <2>8, <2>9 DEF PayInv
<1>9. CASE MarkDeciding(j)
  <2>1. /\ at[j] = "ask" /\ at' = [at EXCEPT ![j] = "safety"] /\ status' = "deciding"
        /\ UNCHANGED <<rule, queue, saw, decision, pending, decisions, happened>>
    BY <1>9 DEF MarkDeciding, Goes
  <2>8. JobsOK'
    BY <2>1 DEF PayInv, JobsOK, Steps, JobStates, Statuses, BeforeDecision, Deciding
  <2>9. Calm' => Paid'
    BY <2>1 DEF PayInv, JobsOK, Paid, BeforeDecision, OfRun, Calm
  <2> QED
    BY <2>8, <2>9 DEF PayInv
<1>10. CASE StartDecision(j)
  <2>1. /\ at[j] = "safety" /\ at' = [at EXCEPT ![j] = "deciding"] /\ pending' = "later"
        /\ decisions' = decisions + 1
        /\ UNCHANGED <<rule, queue, saw, decision, status, happened>>
    BY <1>10 DEF StartDecision, Goes, SafetyNet
  <2>8. JobsOK'
    BY <2>1 DEF PayInv, JobsOK, Steps, JobStates, Statuses, BeforeDecision, Deciding
  <2>9. Calm' => Paid'
    BY <2>1 DEF PayInv, JobsOK, Paid, BeforeDecision, OfRun, Calm
  <2> QED
    BY <2>8, <2>9 DEF PayInv
<1>11. CASE StartRun(j)
  <2>1. /\ at[j] = "run" /\ at' = [at EXCEPT ![j] = "running"]
        /\ UNCHANGED <<rule, queue, saw, decision, status, pending, decisions, happened>>
    BY <1>11 DEF StartRun, Goes, Acts
  <2>8. JobsOK'
    BY <2>1 DEF PayInv, JobsOK, Steps, JobStates, Statuses, BeforeDecision, Deciding
  <2>9. Calm' => Paid'
    BY <2>1 DEF PayInv, JobsOK, Paid, BeforeDecision, OfRun, Calm
  <2> QED
    BY <2>8, <2>9 DEF PayInv
<1>12. CASE Exit(j)
  <2>1. /\ \/ at[j] = "deciding" /\ at' = [at EXCEPT ![j] = "decide"]
           \/ at[j] = "running" /\ at' = [at EXCEPT ![j] = "close"]
        /\ UNCHANGED <<rule, queue, saw, decision, status, pending, decisions>> /\ (Calm' => Calm)
    BY <1>12 DEF Exit, Disturbed, Calm
  <2>8. JobsOK'
    BY <2>1 DEF PayInv, JobsOK, Steps, JobStates, Statuses, BeforeDecision, Deciding
  <2>9. Calm' => Paid'
    BY <2>1 DEF PayInv, JobsOK, Paid, BeforeDecision, OfRun, Calm
  <2> QED
    BY <2>8, <2>9 DEF PayInv
<1>13. CASE Decide(j)
  <2>1. /\ at[j] = "decide" /\ at' = [at EXCEPT ![j] = "hand"] /\ status' = "decided"
        /\ decision' \in Decisions
        /\ UNCHANGED <<rule, queue, saw, pending, decisions, happened>>
    BY <1>13 DEF Decide, Goes, Selected, Decisions
  <2>2. decision' \in Choices /\ decision' # "none"
    BY <2>1 DEF Choices, Decisions
  <2>8. JobsOK'
    BY <2>1, <2>2 DEF PayInv, JobsOK, Steps, JobStates, Statuses, BeforeDecision, Deciding
  <2>9. Calm' => Paid'
    BY <2>1, <2>2 DEF PayInv, JobsOK, Paid, BeforeDecision, OfRun, Calm
  <2> QED
    BY <2>8, <2>9 DEF PayInv
<1>14. CASE HandOn(j)
  <2>1. /\ at[j] = "hand" /\ at' = [at EXCEPT ![j] = "push"] /\ pending' = "now"
        /\ UNCHANGED <<rule, queue, saw, status, decision, decisions, happened>>
    BY <1>14 DEF HandOn, Goes
  <2>8. JobsOK'
    BY <2>1 DEF PayInv, JobsOK, Steps, JobStates, Statuses, BeforeDecision, Deciding
  <2>9. Calm' => Paid'
    BY <2>1 DEF PayInv, JobsOK, Paid, BeforeDecision, OfRun, Calm
  <2> QED
    BY <2>8, <2>9 DEF PayInv
<1>15. CASE Push(j)
  <2>1. /\ at[j] = "push" /\ at' = [at EXCEPT ![j] = "end"] /\ queue' = Added("action")
        /\ UNCHANGED <<rule, saw, status, decision, pending, decisions, happened>>
    BY <1>15 DEF Push, Goes
  <2>2. /\ queue' \in [Names -> JobStates] /\ queue'["dispatch"] = queue["dispatch"]
        /\ queue["action"] # "absent" => queue'["action"] = queue["action"]
    BY <2>1 DEF PayInv, JobsOK, Added, JobStates
  <2>8. JobsOK'
    BY <2>1, <2>2 DEF PayInv, JobsOK, Steps, JobStates, Statuses, BeforeDecision, Deciding
  <2>9. Calm' => Paid'
    BY <2>1, <2>2 DEF PayInv, JobsOK, Paid, BeforeDecision, OfRun, Calm
  <2> QED
    BY <2>8, <2>9 DEF PayInv
<1>16. CASE CloseRun(j)
  <2>1. /\ at[j] = "close" /\ at' = [at EXCEPT ![j] = "end"] /\ status' \in {"completed", "failed"}
        /\ UNCHANGED <<rule, queue, saw, decision, pending, decisions, happened>>
    BY <1>16 DEF CloseRun, Goes
  <2>2. queue[j] = "active"
    BY <2>1 DEF PayInv, JobsOK
  <2>8. JobsOK'
    BY <2>1, <2>2 DEF PayInv, JobsOK, Steps, JobStates, Statuses, BeforeDecision, Deciding
  <2>9. Calm' => Paid'
    BY <2>1, <2>2 DEF PayInv, JobsOK, Paid, BeforeDecision, OfRun, Calm
  <2> QED
    BY <2>8, <2>9 DEF PayInv
<1>17. CASE End(j)
  <2>1. /\ at[j] = "end" /\ at' = [at EXCEPT ![j] = "rest"]
        /\ \E s \in {"waiting", "failed", "completed"} : queue' = [queue EXCEPT ![j] = s]
        /\ UNCHANGED <<rule, saw, status, decision, pending, decisions, happened>>
    BY <1>17 DEF End, Fails, Ends, Returns
  <2>2. queue[j] = "active"
    BY <2>1 DEF PayInv, JobsOK
  <2>8. JobsOK'
    BY <2>1, <2>2 DEF PayInv, JobsOK, Steps, JobStates, Statuses, BeforeDecision, Deciding
  <2>9. Calm' => Paid'
    BY <2>1, <2>2 DEF PayInv, JobsOK, Paid, BeforeDecision, OfRun, Calm
  <2> QED
    BY <2>8, <2>9 DEF PayInv
<1>18. CASE Unavailable(j)
  <2>1. /\ at[j] # "rest" /\ at' = [at EXCEPT ![j] = "end"] /\ status' \in {status, "unavailable"}
        /\ UNCHANGED <<rule, queue, saw, decision, decisions>> /\ ~Calm'
    BY <1>18 DEF Unavailable, Collecting, Disturbed, Calm
  <2>2. JobsOK'
    BY <2>1 DEF PayInv, JobsOK, Steps, Statuses, BeforeDecision, Deciding
  <2> QED
    BY <2>1, <2>2 DEF PayInv
<1>19. CASE Throws(j)
  <2>1. /\ \/ /\ at' = [at EXCEPT ![j] = "rest"]
              /\ \E s \in {"waiting", "failed"} : queue' = [queue EXCEPT ![j] = s]
           \/ at[j] \in {"ask", "safety"} /\ at' = [at EXCEPT ![j] = "decide"] /\ queue' = queue
        /\ UNCHANGED <<rule, saw, status, decision, decisions>> /\ ~Calm'
    BY <1>19 DEF Throws, Fails, Returns, Disturbed, Calm
  <2>2. JobsOK'
    BY <2>1 DEF PayInv, JobsOK, Steps, JobStates, Statuses, BeforeDecision, Deciding
  <2> QED
    BY <2>1, <2>2 DEF PayInv
<1> QED
  BY <1>1, <1>2, <1>3, <1>4, <1>5, <1>6, <1>7, <1>8, <1>9, <1>10, <1>11, <1>12, <1>13, <1>14, <1>15,
     <1>16, <1>17, <1>18, <1>19

LEMMA PayStep == PayInv /\ [Next]_vars => PayInv'
<1> SUFFICES ASSUME PayInv, [Next]_vars PROVE PayInv'
  OBVIOUS
<1> USE DEF source, store, jobs, history
<1>1. ASSUME NEW c \in Collectors, Ingest(c) \/ Enqueue(c) PROVE PayInv'
  <2>1. /\ UNCHANGED <<rule, at, saw, status, decision, pending, decisions, happened>>
        /\ queue' = queue \/ queue' = Added("dispatch")
    BY <1>1 DEF Ingest, Enqueue
  <2> QED
    BY <2>1, PayKept DEF Calm
<1>2. ASSUME NEW c \in Collectors,
             Poll(c) \/ Checkpoint(c) \/ Release(c) \/ Breaks(c) \/ CollectorDies(c)
      PROVE  PayInv'
  <2>1. UNCHANGED <<rule, at, saw, status, decision, pending, decisions, queue>> /\ (Calm' => Calm)
    BY <1>2 DEF Poll, Checkpoint, Release, Breaks, CollectorDies, Disturbed, Calm
  <2> QED
    BY <2>1, PayKept
<1>3. ASSUME Write \/ LeaseLapses \/ WindowEnds \/ UNCHANGED vars PROVE PayInv'
  <2>1. UNCHANGED <<rule, at, saw, status, decision, pending, decisions, queue, happened>>
    BY <1>3 DEF Write, LeaseLapses, WindowEnds, vars
  <2> QED
    BY <2>1, PayKept DEF Calm
<1>4. ASSUME Works PROVE PayInv'
  BY <1>4, PayWork DEF Works
<1>5. ASSUME SafetyComes PROVE PayInv'
  <2>1. UNCHANGED <<rule, at, saw, status, decision, decisions, queue>> /\ ~Calm'
    BY <1>5 DEF SafetyComes, Calm
  <2> QED
    BY <2>1 DEF PayInv, JobsOK, Deciding
<1>6. ASSUME Drain PROVE PayInv'
  <2>1. /\ pending = "now" /\ queue' = Added("action")
        /\ UNCHANGED <<rule, at, saw, status, decision, pending, decisions, happened>>
    BY <1>6 DEF Drain
  <2>2. /\ queue' \in [Names -> JobStates] /\ queue'["dispatch"] = queue["dispatch"]
        /\ queue["action"] # "absent" => queue'["action"] = queue["action"]
    BY <2>1 DEF PayInv, JobsOK, Added, JobStates, Names
  <2>3. JobsOK'
    BY <2>1, <2>2 DEF PayInv, JobsOK, Deciding, Names
  <2>4. Calm' => Paid'
    BY <2>1, <2>2 DEF PayInv, Paid, Calm
  <2> QED
    BY <2>3, <2>4 DEF PayInv
<1> QED
  BY <1>1, <1>2, <1>3, <1>4, <1>5, <1>6 DEF Next, Collects

\* The model is asked once for a finding, whatever dies, is put back, runs out of
\* attempts or exits without an answer, as long as no command fails and the
\* answer is there before the safety action.
THEOREM DecidedOnceHolds == Spec => []DecidedOnce
<1>1. PayInv => DecidedOnce
  BY DEF PayInv, JobsOK, Paid, Calm, DecidedOnce
<1> QED
  BY <1>1, PayInit, PayStep, PTL DEF Spec

-----------------------------------------------------------------------------
\* The inductive invariant of HandedOn: whoever is past its take has evidence enough,
\* so an action can only end by acting, and the safety net is up from the
\* decision's container until the action is on the queue.
Reached == finding.count >= MinCount
Onward ==
  /\ queue["action"] # "absent" \/ pending # "none" => Reached
  /\ \A j \in Names : at[j] \notin {"rest", "take"} => Reached
  /\ at["action"] \notin {"decide", "hand", "push"}
  /\ at["action"] \in {"running", "close", "end"} \/ queue["action"] = "completed" => acted
  /\ decisions > 0 => pending # "none" \/ queue["action"] # "absent"
HandInv == PayInv /\ finding \in [count : Nat, claimed : BOOLEAN] /\ Onward

LEMMA HandInit == Init => HandInv
<1> SUFFICES ASSUME Init PROVE HandInv
  OBVIOUS
<1>1. finding \in [count : Nat, claimed : BOOLEAN]
  BY DEF Init
<1>2. Onward
  BY DEF Init, Onward, Names
<1> QED
  BY <1>1, <1>2, PayInit DEF HandInv

\* A step that leaves the jobs alone, but for a dispatch it may add.
LEMMA HandAside ==
  ASSUME JobsOK, Onward, UNCHANGED <<at, pending, decisions, acted>>, Reached => Reached',
         queue' = queue \/ queue' = Added("dispatch")
  PROVE  Onward'
<1>1. queue'["action"] = queue["action"]
  BY DEF JobsOK, Added, Names
<1> QED
  BY <1>1 DEF Onward

\* An attempt that goes on.
LEMMA HandGoes ==
  ASSUME JobsOK, Onward, NEW j \in Names, NEW to,
         at' = [at EXCEPT ![j] = to], at[j] \notin {"rest", "take"},
         UNCHANGED <<queue, finding, pending, decisions>>, acted => acted',
         j = "action" => /\ to \notin {"decide", "hand", "push"}
                         /\ to \in {"running", "close", "end"} => acted'
  PROVE  Onward'
<1>1. \A k \in Names : at'[k] = IF k = j THEN to ELSE at[k]
  BY DEF JobsOK
<1>2. Reached' = Reached
  BY DEF Reached
<1>3. at'["action"] \notin {"decide", "hand", "push"}
  BY <1>1 DEF Onward, Names
<1>4. at'["action"] \in {"running", "close", "end"} \/ queue'["action"] = "completed" => acted'
  BY <1>1 DEF Onward, Names
<1>5. \A k \in Names : at'[k] \notin {"rest", "take"} => Reached'
  BY <1>1, <1>2 DEF Onward
<1> QED
  BY <1>2, <1>3, <1>4, <1>5 DEF Onward

\* An attempt that is over, whichever way.
LEMMA HandReturns ==
  ASSUME JobsOK, Onward, NEW j \in Names, NEW state,
         at' = [at EXCEPT ![j] = "rest"], queue' = [queue EXCEPT ![j] = state],
         state # "absent", queue[j] = "active",
         UNCHANGED <<pending, decisions>>, acted => acted', Reached' = Reached,
         j = "action" /\ state = "completed" => acted'
  PROVE  Onward'
<1>1. \A k \in Names : /\ at'[k] = IF k = j THEN "rest" ELSE at[k]
                       /\ queue'[k] = IF k = j THEN state ELSE queue[k]
  BY DEF JobsOK
<1>2. queue'["action"] # "absent" <=> queue["action"] # "absent"
  BY <1>1 DEF Names
<1>3. at'["action"] \in {"running", "close", "end"} \/ queue'["action"] = "completed" => acted'
  BY <1>1 DEF Onward, Names
<1>4. at'["action"] \notin {"decide", "hand", "push"}
  BY <1>1 DEF Onward, Names
<1>5. \A k \in Names : at'[k] \notin {"rest", "take"} => Reached'
  BY <1>1 DEF Onward
<1> QED
  BY <1>2, <1>3, <1>4, <1>5 DEF Onward

LEMMA HandWork ==
  ASSUME JobsOK, JobsOK', Onward, finding \in [count : Nat, claimed : BOOLEAN], NEW j \in Names,
         \/ Pick(j) \/ Take(j) \/ TakesTooSoon(j) \/ Look(j) \/ Acknowledge(j) \/ Ignore(j)
         \/ File(j) \/ Admit(j) \/ Defers(j) \/ Refuses(j) \/ MarkDeciding(j) \/ StartDecision(j)
         \/ StartRun(j) \/ Exit(j) \/ Decide(j) \/ HandOn(j) \/ Push(j) \/ CloseRun(j)
         \/ Unavailable(j) \/ End(j) \/ Throws(j) \/ Crash(j)
  PROVE  Onward'
<1> USE DEF source, store, jobs, history
<1>0. "action" \in Names /\ "dispatch" \in Names /\ j \in {"action", "dispatch"}
  BY DEF Names
<1>1. CASE Pick(j)
  <2>1. /\ at' = [at EXCEPT ![j] = "take"] /\ queue' = [queue EXCEPT ![j] = "active"]
        /\ queue[j] = "waiting" /\ UNCHANGED <<finding, pending, decisions, acted>>
    BY <1>1 DEF Pick, Goes, Disturbed
  <2>2. \A k \in Names : /\ at'[k] = IF k = j THEN "take" ELSE at[k]
                         /\ queue'[k] = IF k = j THEN "active" ELSE queue[k]
    BY <2>1 DEF JobsOK
  <2>3. /\ queue'["action"] # "absent" <=> queue["action"] # "absent"
        /\ queue'["action"] = "completed" => queue["action"] = "completed"
        /\ Reached' = Reached
    BY <1>0, <2>1, <2>2 DEF Reached
  <2> QED
    BY <1>0, <2>1, <2>2, <2>3 DEF Onward
<1>2. CASE Take(j)
  <2>1. at[j] = "take" /\ UNCHANGED <<pending, decisions, acted>> /\ queue[j] = "active"
    BY <1>2 DEF Take, JobsOK
  <2>2. Reached' = Reached
    BY <1>2 DEF Take, Reached
  <2>3. CASE Reached
    <3>1. queue' = queue /\ at' = [at EXCEPT ![j] = "look"]
      BY <1>2, <2>3 DEF Take, Goes, Reached
    <3>2. \A k \in Names : at'[k] = IF k = j THEN "look" ELSE at[k]
      BY <3>1 DEF JobsOK
    <3> QED
      BY <1>0, <2>1, <2>2, <2>3, <3>1, <3>2 DEF Onward
  <2>4. CASE ~Reached
    <3>1. queue' = [queue EXCEPT ![j] = "completed"] /\ at' = [at EXCEPT ![j] = "rest"]
      BY <1>2, <2>4 DEF Take, Ends, Returns, Reached
    <3>2. j # "action"
      BY <2>1, <2>4 DEF Onward
    <3> QED
      BY <2>1, <2>2, <3>1, <3>2, HandReturns
  <2> QED
    BY <2>3, <2>4
<1>3. CASE TakesTooSoon(j)
  <2>1. /\ at' = [at EXCEPT ![j] = "rest"] /\ queue' = [queue EXCEPT ![j] = "completed"]
        /\ j # "action" /\ UNCHANGED <<finding, pending, decisions, acted>>
    BY <1>3 DEF TakesTooSoon, Ends, Returns, Disturbed
  <2>2. queue[j] = "active" /\ Reached' = Reached
    BY <1>3, <2>1 DEF TakesTooSoon, JobsOK, Reached
  <2> QED
    BY <2>1, <2>2, HandReturns
<1>4. CASE Ignore(j) \/ File(j) \/ Refuses(j)
  <2>1. /\ at' = [at EXCEPT ![j] = "rest"] /\ queue' = [queue EXCEPT ![j] = "completed"]
        /\ acted' = TRUE /\ at[j] # "rest" /\ UNCHANGED <<finding, pending, decisions>>
    BY <1>4 DEF Ignore, File, Refuses, Ends, Returns, Acts
  <2>2. queue[j] = "active" /\ Reached' = Reached
    BY <2>1 DEF JobsOK, Reached
  <2> QED
    BY <2>1, <2>2, HandReturns
<1>5. CASE Defers(j) \/ Crash(j)
  <2>1. /\ at' = [at EXCEPT ![j] = "rest"] /\ queue' = [queue EXCEPT ![j] = "waiting"]
        /\ at[j] # "rest" \/ queue[j] = "active"
        /\ UNCHANGED <<finding, pending, decisions, acted>>
    BY <1>5 DEF Defers, Crash, Returns, Disturbed
  <2>2. queue[j] = "active" /\ Reached' = Reached
    BY <2>1 DEF JobsOK, Reached
  <2> QED
    BY <2>1, <2>2, HandReturns
<1>6. CASE End(j)
  <2>1. /\ at[j] = "end" /\ at' = [at EXCEPT ![j] = "rest"]
        /\ \E s \in {"waiting", "failed", "completed"} : queue' = [queue EXCEPT ![j] = s]
        /\ UNCHANGED <<finding, pending, decisions, acted>>
    BY <1>6 DEF End, Fails, Ends, Returns
  <2>2. PICK s \in {"waiting", "failed", "completed"} : queue' = [queue EXCEPT ![j] = s]
    BY <2>1
  <2>3. queue[j] = "active" /\ Reached' = Reached /\ (j = "action" => acted')
    BY <2>1 DEF JobsOK, Reached, Onward
  <2> QED
    BY <2>1, <2>2, <2>3, HandReturns
<1>7. CASE Throws(j)
  <2>1. UNCHANGED <<finding, pending, decisions, acted>>
    BY <1>7 DEF Throws, Disturbed
  <2>2. CASE at[j] \in {"take", "look", "ack", "ignore", "file_issue", "decision", "investigate"}
    <3>1. /\ at' = [at EXCEPT ![j] = "rest"]
          /\ \E s \in {"waiting", "failed"} : queue' = [queue EXCEPT ![j] = s]
      BY <1>7, <2>2 DEF Throws, Fails, Returns
    <3>2. PICK s \in {"waiting", "failed"} : queue' = [queue EXCEPT ![j] = s]
      BY <3>1
    <3>3. queue[j] = "active" /\ Reached' = Reached
      BY <2>1, <2>2 DEF JobsOK, Reached
    <3> QED
      BY <2>1, <3>1, <3>2, <3>3, HandReturns
  <2>3. CASE at[j] \in {"ask", "safety"}
    <3>1. at' = [at EXCEPT ![j] = "decide"] /\ queue' = queue
      BY <1>7, <2>3 DEF Throws
    <3>2. j # "action"
      BY <2>3 DEF JobsOK, BeforeDecision
    <3> QED
      BY <2>1, <2>3, <3>1, <3>2, HandGoes
  <2> QED
    BY <1>7, <2>2, <2>3 DEF Throws
<1>8. CASE Look(j)
  <2>1. /\ at[j] = "look" /\ saw' = [saw EXCEPT ![j] = <<status, decision>>]
        /\ at' = [at EXCEPT ![j] = IF j = "action" THEN "ack" ELSE Wants(j)]
        /\ UNCHANGED <<queue, finding, pending, decisions, acted>>
    BY <1>8 DEF Look, Goes
  <2>2. PICK to : at' = [at EXCEPT ![j] = to] /\ (j = "action" => to = "ack")
    BY <2>1
  <2> QED
    BY <2>1, <2>2, HandGoes
<1>9. CASE Acknowledge(j)
  <2>1. /\ at[j] = "ack" /\ pending' = "none" /\ at' = [at EXCEPT ![j] = Wants(j)]
        /\ UNCHANGED <<saw, queue, finding, decisions, acted>>
    BY <1>9 DEF Acknowledge, Goes
  <2>2. j = "action" /\ queue["action"] = "active"
    BY <1>0, <2>1 DEF JobsOK
  <2>3. Wants(j) \in {"file_issue", "investigate", "ignore"}
    <3>1. saw' \in [Names -> Statuses \X Choices]
      BY <2>1 DEF JobsOK
    <3> QED
      BY <2>2, <3>1, WantsFacts
  <2>4. \A k \in Names : at'[k] = IF k = j THEN Wants(j) ELSE at[k]
    BY <2>1 DEF JobsOK
  <2>5. Reached' = Reached
    BY <2>1 DEF Reached
  <2> QED
    BY <1>0, <2>1, <2>2, <2>3, <2>4, <2>5 DEF Onward
<1>10. CASE Admit(j) \/ MarkDeciding(j) \/ StartRun(j)
  <2>1. PICK to \in {"ask", "run", "safety", "running"} : at' = [at EXCEPT ![j] = to]
    BY <1>10 DEF Admit, MarkDeciding, StartRun, Goes
  <2>2. /\ at[j] \notin {"rest", "take"} /\ UNCHANGED <<queue, finding, pending, decisions>>
        /\ acted => acted'
    BY <1>10 DEF Admit, MarkDeciding, StartRun, Goes, Acts
  <2>3. to = "running" => acted'
    <3>1. CASE StartRun(j)
      BY <3>1 DEF StartRun, Acts
    <3>2. CASE Admit(j) \/ MarkDeciding(j)
      <4>1. at'[j] = to
        BY <2>1 DEF JobsOK
      <4>2. at'[j] \in {"ask", "run", "safety"}
        BY <3>2 DEF Admit, MarkDeciding, Goes, JobsOK
      <4> QED
        BY <4>1, <4>2
    <3> QED
      BY <1>10, <3>1, <3>2
  <2> QED
    BY <2>1, <2>2, <2>3, HandGoes
<1>11. CASE Exit(j)
  <2>1. /\ at[j] \in {"deciding", "running"}
        /\ at' = [at EXCEPT ![j] = IF at[j] = "deciding" THEN "decide" ELSE "close"]
        /\ UNCHANGED <<queue, finding, pending, decisions, acted>>
    BY <1>11 DEF Exit, Disturbed
  <2>2. j = "action" => at[j] = "running" /\ acted'
    BY <2>1 DEF JobsOK, Onward
  <2>3. PICK to \in {"decide", "close"} :
          at' = [at EXCEPT ![j] = to] /\ (to = "decide" => at[j] = "deciding")
    BY <2>1
  <2> QED
    BY <2>1, <2>2, <2>3, HandGoes
<1>12. CASE Decide(j)
  <2>1. /\ at[j] = "decide" /\ at' = [at EXCEPT ![j] = "hand"]
        /\ UNCHANGED <<queue, finding, pending, decisions, acted>>
    BY <1>12 DEF Decide, Goes
  <2>2. j # "action"
    BY <2>1 DEF Onward
  <2> QED
    BY <2>1, <2>2, HandGoes
<1>13. CASE CloseRun(j)
  <2>1. /\ at[j] = "close" /\ at' = [at EXCEPT ![j] = "end"]
        /\ UNCHANGED <<queue, finding, pending, decisions, acted>>
    BY <1>13 DEF CloseRun, Goes
  <2>2. j = "action" => acted'
    BY <2>1 DEF Onward
  <2> QED
    BY <2>1, <2>2, HandGoes
<1>14. CASE Unavailable(j)
  <2>1. /\ at[j] \in {"decide", "hand", "push", "close"} /\ at' = [at EXCEPT ![j] = "end"]
        /\ UNCHANGED <<queue, finding, pending, decisions, acted>>
    BY <1>14 DEF Unavailable, Collecting, Disturbed
  <2>2. j = "action" => acted'
    BY <2>1 DEF Onward
  <2> QED
    BY <2>1, <2>2, HandGoes
<1>15. CASE StartDecision(j)
  <2>1. /\ at[j] = "safety" /\ at' = [at EXCEPT ![j] = "deciding"] /\ pending' = "later"
        /\ UNCHANGED <<queue, finding, acted>>
    BY <1>15 DEF StartDecision, Goes, SafetyNet
  <2>2. \A k \in Names : at'[k] = IF k = j THEN "deciding" ELSE at[k]
    BY <2>1 DEF JobsOK
  <2>3. Reached /\ Reached' = Reached
    BY <2>1 DEF Onward, Reached
  <2> QED
    BY <1>0, <2>1, <2>2, <2>3 DEF Onward
<1>16. CASE HandOn(j)
  <2>1. /\ at[j] = "hand" /\ at' = [at EXCEPT ![j] = "push"] /\ pending' = "now"
        /\ UNCHANGED <<queue, finding, acted>>
    BY <1>16 DEF HandOn, Goes
  <2>2. \A k \in Names : at'[k] = IF k = j THEN "push" ELSE at[k]
    BY <2>1 DEF JobsOK
  <2>3. Reached /\ Reached' = Reached /\ j # "action"
    BY <2>1 DEF Onward, Reached
  <2> QED
    BY <1>0, <2>1, <2>2, <2>3 DEF Onward
<1>17. CASE Push(j)
  <2>1. /\ at[j] = "push" /\ at' = [at EXCEPT ![j] = "end"] /\ queue' = Added("action")
        /\ UNCHANGED <<finding, pending, decisions, acted>>
    BY <1>17 DEF Push, Goes
  <2>2. \A k \in Names : at'[k] = IF k = j THEN "end" ELSE at[k]
    BY <2>1 DEF JobsOK
  <2>3. Reached /\ Reached' = Reached /\ j # "action"
    BY <2>1 DEF Onward, Reached
  <2>4. /\ queue'["action"] # "absent"
        /\ queue'["action"] = "completed" => queue["action"] = "completed"
    BY <1>0, <2>1 DEF Added, JobsOK
  <2> QED
    BY <1>0, <2>1, <2>2, <2>3, <2>4 DEF Onward
<1> QED
  BY <1>1, <1>2, <1>3, <1>4, <1>5, <1>6, <1>7, <1>8, <1>9, <1>10, <1>11, <1>12, <1>13, <1>14, <1>15,
     <1>16, <1>17

LEMMA HandStep == FindingAssumption /\ HandInv /\ [Next]_vars => HandInv'
<1> SUFFICES ASSUME FindingAssumption, HandInv, [Next]_vars PROVE HandInv'
  OBVIOUS
<1> USE DEF source, store, jobs, history
<1>0. JobsOK /\ Onward /\ PayInv' /\ JobsOK' /\ MinCount \in Nat
  BY PayStep DEF HandInv, PayInv, FindingAssumption
<1>1. /\ finding' \in [count : Nat, claimed : BOOLEAN]
      /\ finding'.count >= finding.count
  <2>1. CASE finding' = finding
    BY <2>1 DEF HandInv
  <2>2. ASSUME NEW c \in Collectors, Ingest(c)
        PROVE  finding' = finding \/ finding' = [finding EXCEPT !.count = @ + 1]
    BY <2>2 DEF Ingest
  <2>3. ASSUME NEW j \in Names, Take(j) PROVE finding' = [finding EXCEPT !.claimed = TRUE]
    BY <2>3 DEF Take
  <2>4. ASSUME NEW c \in Collectors,
               Poll(c) \/ Enqueue(c) \/ Checkpoint(c) \/ Release(c) \/ Breaks(c) \/ CollectorDies(c)
        PROVE  finding' = finding
    BY <2>4 DEF Poll, Enqueue, Checkpoint, Release, Breaks, CollectorDies
  <2>5. ASSUME NEW j \in Names,
               \/ Pick(j) \/ TakesTooSoon(j) \/ Look(j) \/ Acknowledge(j) \/ Ignore(j)
               \/ File(j) \/ Admit(j) \/ Defers(j) \/ Refuses(j) \/ MarkDeciding(j)
               \/ StartDecision(j) \/ StartRun(j) \/ Exit(j) \/ Decide(j) \/ HandOn(j) \/ Push(j)
               \/ CloseRun(j) \/ Unavailable(j) \/ End(j) \/ Throws(j) \/ Crash(j)
        PROVE  finding' = finding
    BY <2>5 DEF Pick, TakesTooSoon, Look, Acknowledge, Ignore, File, Admit, Defers, Refuses,
                MarkDeciding, StartDecision, StartRun, Exit, Decide, HandOn, Push, CloseRun,
                Unavailable, End, Throws, Crash
  <2>6. CASE Write \/ LeaseLapses \/ WindowEnds \/ SafetyComes \/ Drain \/ UNCHANGED vars
    <3>1. finding' = finding
      BY <2>6 DEF Write, LeaseLapses, WindowEnds, SafetyComes, Drain, vars
    <3> QED
      BY <3>1, <2>1
  <2>7. CASE Collects
    <3>1. finding' = finding \/ finding' = [finding EXCEPT !.count = @ + 1]
      BY <2>7, <2>2, <2>4 DEF Collects
    <3> QED
      BY <3>1, <2>1 DEF HandInv
  <2>8. CASE Works
    <3>1. finding' = finding \/ finding' = [finding EXCEPT !.claimed = TRUE]
      BY <2>8, <2>3, <2>5 DEF Works
    <3>2. finding \in [count : Nat, claimed : BOOLEAN]
      BY DEF HandInv
    <3>3. CASE finding' = [finding EXCEPT !.claimed = TRUE]
      <4>1. finding' \in [count : Nat, claimed : BOOLEAN] /\ finding'.count = finding.count
        BY <3>2, <3>3
      <4> QED
        BY <3>2, <4>1
    <3> QED
      BY <3>1, <3>3, <2>1
  <2> QED
    BY <2>6, <2>7, <2>8 DEF Next
<1>2. Reached => Reached'
  BY <1>0, <1>1 DEF Reached, HandInv
<1>3. CASE Collects
  <2>1. /\ UNCHANGED <<at, pending, decisions, acted>>
        /\ queue' = queue \/ queue' = Added("dispatch")
    BY <1>3 DEF Collects, Poll, Ingest, Enqueue, Checkpoint, Release, Breaks, CollectorDies, Disturbed
  <2>2. Onward'
    BY <1>0, <1>2, <2>1, HandAside
  <2> QED
    BY <1>0, <1>1, <2>2 DEF HandInv
<1>4. CASE Write \/ LeaseLapses \/ WindowEnds \/ UNCHANGED vars
  <2>1. UNCHANGED <<at, pending, decisions, acted, queue>>
    BY <1>4 DEF Write, LeaseLapses, WindowEnds, vars
  <2>2. Onward'
    BY <1>0, <1>2, <2>1, HandAside
  <2> QED
    BY <1>0, <1>1, <2>2 DEF HandInv
<1>5. CASE Works
  <2>1. Onward'
    BY <1>0, <1>5, HandWork DEF Works, HandInv
  <2> QED
    BY <1>0, <1>1, <2>1 DEF HandInv
<1>6. CASE SafetyComes
  <2>1. pending = "later" /\ pending' = "now" /\ UNCHANGED <<at, decisions, acted, queue>>
    BY <1>6 DEF SafetyComes
  <2>2. Onward'
    BY <1>0, <1>2, <2>1 DEF Onward
  <2> QED
    BY <1>0, <1>1, <2>2 DEF HandInv
<1>7. CASE Drain
  <2>1. pending = "now" /\ queue' = Added("action") /\ UNCHANGED <<at, decisions, acted, pending>>
    BY <1>7 DEF Drain
  <2>2. queue'["action"] = "completed" => queue["action"] = "completed"
    BY <1>0, <2>1 DEF Added, JobsOK, Names
  <2>3. Onward'
    BY <1>0, <1>2, <2>1, <2>2 DEF Onward
  <2> QED
    BY <1>0, <1>1, <2>3 DEF HandInv
<1> QED
  BY <1>3, <1>4, <1>5, <1>6, <1>7 DEF Next

\* Once a decision's container was started somebody is to act on the finding until one
\* has, for every kind of rule and whatever fails, dies or comes late: the safety net
\* is up before the container, and only the action's own attempt takes it down.
THEOREM HandedOnHolds == ASSUME FindingAssumption PROVE Spec => []HandedOn
<1>1. HandInv => HandedOn
  <2> SUFFICES ASSUME HandInv, decisions > 0, ~acted, queue["action"] # "failed"
               PROVE  \/ \E j \in Names : Live(j)
                      \/ pending # "none" /\ queue["action"] = "absent"
    BY DEF HandedOn
  <2>1. queue["action"] \in JobStates /\ "action" \in Names
    BY DEF HandInv, PayInv, JobsOK, Names
  <2>2. queue["action"] # "completed"
    BY DEF HandInv, Onward
  <2>3. CASE queue["action"] = "absent"
    BY <2>3 DEF HandInv, Onward
  <2>4. CASE queue["action"] \in {"waiting", "active"}
    BY <2>1, <2>4 DEF Live
  <2> QED
    BY <2>1, <2>2, <2>3, <2>4 DEF JobStates
<1> QED
  BY <1>1, HandInit, HandStep, PTL DEF Spec
-----------------------------------------------------------------------------
\* The types that the other invariants leave out: an attempt is left to a job that is not over.
TriesOK ==
  /\ tries \in [Names -> Nat]
  /\ \A j \in Names : tries[j] <= Attempts
                      /\ (queue[j] \in {"absent", "waiting", "active"} => tries[j] < Attempts)
TypeInv ==
  /\ TriesOK /\ lease \in Collectors \union {None} /\ pending \in {"none", "now", "later"}

LEMMA TypeStep == FindingAssumption /\ JobsOK /\ TypeInv /\ [Next]_vars => TypeInv'
<1> SUFFICES ASSUME FindingAssumption, JobsOK, TypeInv, [Next]_vars PROVE TypeInv'
  OBVIOUS
<1> USE DEF source, store, jobs, history
<1>0. Attempts \in Nat \ {0}
  BY DEF FindingAssumption
<1>1. ASSUME UNCHANGED <<queue, tries>>, lease' \in Collectors \union {None},
             pending' \in {"none", "now", "later"}
      PROVE  TypeInv'
  BY <1>1 DEF TypeInv, TriesOK
\* A step of the queue that counts no attempt.
<1>2. ASSUME NEW j \in Names, NEW state, queue' = [queue EXCEPT ![j] = state],
             UNCHANGED <<tries, lease, pending>>, queue[j] \in {"absent", "waiting", "active"}
      PROVE  TypeInv'
  <2>1. \A k \in Names : k # j => queue'[k] = queue[k]
    BY <1>2 DEF JobsOK
  <2>2. TriesOK'
    BY <1>2, <2>1 DEF TypeInv, TriesOK
  <2> QED
    BY <1>2, <2>2 DEF TypeInv
<1>3. ASSUME NEW j \in Names, queue' = Added(j), UNCHANGED <<tries, lease, pending>> PROVE TypeInv'
  <2>1. CASE queue[j] = "absent"
    BY <1>2, <1>3, <2>1 DEF Added
  <2>2. CASE queue[j] # "absent"
    <3>1. \A k \in Names : queue'[k] = queue[k]
      BY <1>3, <2>2 DEF Added, JobsOK
    <3> QED
      BY <1>3, <3>1 DEF TypeInv, TriesOK
  <2> QED
    BY <2>1, <2>2
<1>4. ASSUME NEW j \in Names, Fails(j), queue[j] = "active", UNCHANGED <<lease, pending>> PROVE TypeInv'
  <2>1. tries[j] \in Nat /\ tries[j] < Attempts
    BY <1>4 DEF TypeInv, TriesOK
  <2>2. /\ tries' \in [Names -> Nat] /\ tries'[j] = tries[j] + 1
        /\ \A k \in Names : k # j => tries'[k] = tries[k] /\ queue'[k] = queue[k]
        /\ queue'[j] = IF tries'[j] < Attempts THEN "waiting" ELSE "failed"
    BY <1>4, <2>1 DEF Fails, Returns, TypeInv, TriesOK, JobsOK
  <2>3. TriesOK'
    BY <1>0, <2>1, <2>2 DEF TypeInv, TriesOK
  <2> QED
    BY <1>4, <2>3 DEF TypeInv
<1>5. CASE Collects
  <2>1. PICK c \in Collectors : \/ Poll(c) \/ Ingest(c) \/ Enqueue(c) \/ Checkpoint(c) \/ Release(c)
                                \/ Breaks(c) \/ CollectorDies(c)
    BY <1>5 DEF Collects
  <2>2. CASE Enqueue(c)
    <3>1. queue' = Added("dispatch") /\ UNCHANGED <<tries, lease, pending>>
      BY <2>2 DEF Enqueue
    <3> QED
      BY <1>3, <3>1 DEF Names
  <2>3. CASE ~Enqueue(c)
    <3>1. UNCHANGED <<queue, tries, pending>> /\ lease' \in {lease, c, None}
      BY <2>1, <2>3 DEF Poll, Ingest, Checkpoint, Release, Breaks, CollectorDies
    <3> QED
      BY <1>1, <3>1 DEF TypeInv
  <2> QED
    BY <2>2, <2>3
<1>6. CASE Write \/ LeaseLapses \/ WindowEnds \/ SafetyComes \/ UNCHANGED vars
  <2>1. UNCHANGED <<queue, tries>> /\ lease' \in {lease, None} /\ pending' \in {pending, "now"}
    BY <1>6 DEF Write, LeaseLapses, WindowEnds, SafetyComes, vars
  <2> QED
    BY <1>1, <2>1 DEF TypeInv
<1>7. CASE Drain
  BY <1>3, <1>7 DEF Drain, Names
<1>8. ASSUME NEW j \in Names,
             \/ Look(j) \/ Acknowledge(j) \/ Admit(j) \/ MarkDeciding(j) \/ StartDecision(j)
             \/ StartRun(j) \/ Exit(j) \/ Decide(j) \/ HandOn(j) \/ CloseRun(j) \/ Unavailable(j)
      PROVE  TypeInv'
  <2>1. UNCHANGED <<queue, tries, lease>> /\ pending' \in {pending, "none", "later", "now"}
    BY <1>8 DEF Look, Acknowledge, Admit, MarkDeciding, StartDecision, StartRun, Exit, Decide, HandOn,
                CloseRun, Unavailable, SafetyNet
  <2> QED
    BY <1>1, <2>1 DEF TypeInv
<1>9. ASSUME NEW j \in Names,
             Pick(j) \/ TakesTooSoon(j) \/ Ignore(j) \/ File(j) \/ Defers(j) \/ Refuses(j) \/ Crash(j)
      PROVE  TypeInv'
  <2>1. /\ \E state : queue' = [queue EXCEPT ![j] = state]
        /\ UNCHANGED <<tries, lease, pending>>
        /\ at[j] # "rest" \/ queue[j] \in {"waiting", "active"}
    BY <1>9 DEF Pick, TakesTooSoon, Ignore, File, Defers, Refuses, Crash, Ends, Returns
  <2>2. queue[j] \in {"absent", "waiting", "active"}
    BY <2>1 DEF JobsOK
  <2>3. PICK state : queue' = [queue EXCEPT ![j] = state]
    BY <2>1
  <2> QED
    BY <1>2, <2>1, <2>2, <2>3
<1>10. ASSUME NEW j \in Names, Take(j) PROVE TypeInv'
  <2>1. at[j] = "take" /\ UNCHANGED <<tries, lease, pending>>
        /\ (queue' = queue \/ queue' = [queue EXCEPT ![j] = "completed"])
    BY <1>10 DEF Take, Ends, Returns
  <2>2. queue[j] = "active"
    BY <2>1 DEF JobsOK
  <2>3. CASE queue' = queue
    BY <1>1, <2>1, <2>3 DEF TypeInv
  <2>4. CASE queue' = [queue EXCEPT ![j] = "completed"]
    BY <1>2, <2>1, <2>2, <2>4
  <2> QED
    BY <2>1, <2>3, <2>4
<1>11. ASSUME NEW j \in Names, Push(j) PROVE TypeInv'
  <2>1. queue' = Added("action") /\ UNCHANGED <<tries, lease, pending>>
    BY <1>11 DEF Push
  <2> QED
    BY <1>3, <2>1 DEF Names
<1>12. ASSUME NEW j \in Names, End(j) PROVE TypeInv'
  <2>1. at[j] = "end" /\ UNCHANGED <<lease, pending>>
    BY <1>12 DEF End
  <2>2. queue[j] = "active"
    BY <2>1 DEF JobsOK
  <2>3. CASE Fails(j)
    BY <1>4, <2>1, <2>2, <2>3
  <2>4. CASE Ends(j) /\ UNCHANGED tries
    <3>1. queue' = [queue EXCEPT ![j] = "completed"]
      BY <2>4 DEF Ends, Returns
    <3> QED
      BY <1>2, <2>1, <2>2, <2>4, <3>1
  <2> QED
    BY <1>12, <2>3, <2>4 DEF End
<1>13. ASSUME NEW j \in Names, Throws(j) PROVE TypeInv'
  <2>1. /\ UNCHANGED <<lease, pending>>
        /\ \/ at[j] # "rest" /\ Fails(j)
           \/ UNCHANGED <<queue, tries>>
    BY <1>13 DEF Throws
  <2>2. CASE at[j] # "rest" /\ Fails(j)
    <3>1. queue[j] = "active"
      BY <2>2 DEF JobsOK
    <3> QED
      BY <1>4, <2>1, <2>2, <3>1
  <2>3. CASE UNCHANGED <<queue, tries>>
    BY <1>1, <2>1, <2>3 DEF TypeInv
  <2> QED
    BY <2>1, <2>2, <2>3
<1> QED
  BY <1>5, <1>6, <1>7, <1>8, <1>9, <1>10, <1>11, <1>12, <1>13 DEF Next, Works

\* Every key, job and count keeps its values: no more lines counted than the source has,
\* no cursor past what was written, no attempt beyond the queue's.
THEOREM FindingTypeHolds == ASSUME FindingAssumption PROVE Spec => []TypeOK
<1>1. Init => PullInv /\ PayInv /\ TypeInv
  <2> SUFFICES ASSUME Init PROVE TypeInv
    BY PullInit, PayInit DEF FindingAssumption
  <2> QED
    BY DEF Init, TypeInv, TriesOK, Names, FindingAssumption
<1>2. PullInv /\ PayInv /\ TypeInv /\ [Next]_vars => (PullInv /\ PayInv /\ TypeInv)'
  BY PullStep, PayStep, TypeStep DEF FindingAssumption, PayInv
<1>3. PullInv /\ PayInv /\ TypeInv => TypeOK
  <2> SUFFICES ASSUME PullInv, PayInv, TypeInv PROVE TypeOK
    OBVIOUS
  <2>1. Lines \in Nat
    BY DEF FindingAssumption
  <2>2. finding.count \in 0 .. Lines
    <3>1. IsFiniteSet(1 .. Lines) /\ Cardinality(1 .. Lines) = Lines
      BY <2>1, FS_Interval
    <3>2. IsFiniteSet(Held) /\ Cardinality(Held) <= Lines
      BY <3>1, FS_Subset DEF Held
    <3>3. Cardinality(Held) \in Nat
      BY <3>2, FS_CardinalityType
    <3> QED
      BY <2>1, <3>2, <3>3 DEF PullInv, Tallied
  <2>3. /\ window \in {"none", "open", "over"} /\ cursor \in 0 .. written
        /\ lease \in Collectors \union {None} /\ pending \in {"none", "now", "later"}
        /\ decision \in Decisions \union {"none"}
    BY DEF PullInv, Typed, PayInv, JobsOK, Choices, TypeInv
  <2>4. \A j \in Names : queue[j] \in JobStates /\ tries[j] <= Attempts
    BY DEF PayInv, JobsOK, TypeInv, TriesOK
  <2> QED
    BY <2>2, <2>3, <2>4 DEF TypeOK, JobStates
<1> QED
  BY <1>1, <1>2, <1>3, PTL DEF Spec
=============================================================================
