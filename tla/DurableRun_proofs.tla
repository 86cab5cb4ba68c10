-------------------------- MODULE DurableRun_proofs --------------------------
(* What TLAPS proves of DurableRun, for any number of recoveries, attempts,    *)
(* sweeping hosts and disturbances: one container of a run at a time, no       *)
(* recovery that waits without a deadline, no run that ends in silence, and    *)
(* one end told of it that holds.                                              *)
EXTENDS DurableRun, FiniteSetTheorems, WellFoundedInduction, TLAPS

Sites == {"exit", "stall"}
States == {"none", "waiting", "active", "stalled", "settled", "removed"}
Places == {"idle", "record", "pointer", "manifest", "start", "running", "asking",
           "recovering", "clearing", "unpointing", "recording", "leaving"}
Results == {"none", "final", "superseded", "continued", "failed", "retry"}
CallPlaces == {"off", "claim", "ask", "add", "pend", "yes", "no"}

CallShape ==
  /\ call \in [Jobs -> [Sites -> [pc : CallPlaces, won : BOOLEAN]]]
  /\ \A n \in Jobs, who \in Sites : call[n][who].pc \notin {"off", "no"} => n < Cap
Members == Recoveries \X Sites
SweepShape ==
  /\ pending \subseteq Members /\ due \subseteq pending
  /\ sweep \in [Sweepers -> [pc : {"rest", "take", "look", "remove"},
     member : Jobs \X Sites]]
  /\ \A s \in Sweepers : sweep[s].pc # "rest" => sweep[s].member \in Members
Shape ==
  /\ queue \in [Jobs -> States] /\ at \in [Jobs -> Places] /\ result \in [Jobs -> Results]
  /\ listener \in [Jobs -> {"none", "record", "pointer", "recovering", "done"}]
  /\ box \subseteq Jobs /\ {up, beside, store, pointer} \subseteq BOOLEAN
  /\ CallShape /\ SweepShape

\* Who calls for a recovery is the pickup whose container ended, or the listener
\* of a job whose lock is gone; both are about a job that was on the queue.
Callers ==
  /\ \A n \in Jobs : call[n]["exit"].pc # "off" => at[n] = "recovering"
  /\ \A n \in Jobs : at[n] # "idle" \/ listener[n] # "none" \/ call[n]["stall"].pc # "off"
                       => queue[n] # "none"
  /\ at[0] \notin {"record", "pointer", "manifest"}
  /\ at[0] # "idle" => queue[0] \in {"active", "stalled"}
  /\ listener[0] # "none" \/ call[0]["stall"].pc # "off" => queue[0] = "stalled"

\* A sweep removes what it has seen on the queue.
Judged == \A s \in Sweepers : sweep[s].pc = "remove" => queue[sweep[s].member[1]] # "none"

\* Once a recovery has been on the queue, the run's own job is not picked up again.
Left ==
  \/ queue[0] \in {"stalled", "settled"}
  \/ /\ queue[0] = "active"
     /\ \/ at[0] = "idle"
        \/ at[0] = "recovering" /\ call[0]["exit"].pc \in {"pend", "yes"}
        \/ at[0] \in {"recording", "leaving"} /\ result[0] = "continued"
Recovered == \E m \in Recoveries : queue[m] # "none"
HandedOver == ~beside /\ Recovered => Left

\* One pickup is between the wait for the others and the end of its clearing up,
\* and the container is that one's.
Deep == {"manifest", "start", "running", "asking", "recovering", "clearing", "unpointing"}
Alone == ~beside => \A j, k \in Jobs : at[j] \in Deep /\ at[k] \in Deep => j = k
Boxed ==
  /\ up => box = {n \in Jobs : at[n] = "running"}
  /\ ~up => \A n \in Jobs : at[n] = "idle"
  /\ ~beside => \A j, k \in box : j = k

\* The inductive invariant of OneAgent.
AgentInv == Shape /\ Callers /\ Judged /\ HandedOver /\ Alone /\ Boxed

\* The disturbances are counted.
Counted == spent \in [Kinds -> Nat]

\* A pickup that ends has an answer, and no recovery is retried.
Ended ==
  /\ record \in [Jobs -> Results \cup {"lost"}]
  /\ \A n \in Recoveries : record[n] # "retry" /\ result[n] # "retry"
  /\ \A n \in Jobs : at[n] \in {"clearing", "unpointing", "recording", "leaving"}
     => result[n] # "none"

\* A recovery that was taken off the queue, or whose listener outlives its
\* stall, has a record, so that no listener starts a call beside its own.
Listened ==
  /\ \A n \in Recoveries : queue[n] = "removed" => record[n] # "none"
  /\ \A n \in Recoveries : listener[n] # "none"
     => queue[n] = "stalled" \/ record[n] # "none"
  /\ \A n \in Jobs : call[n]["stall"].pc # "off" =>
       \/ listener[n] = "recovering"
       \/ n # 0 /\ record[n] # "none" /\ listener[n] \in {"record", "done"}

\* The inductive invariant of WatchedFromTheStart: a recovery that waits or is
\* at work is in the set the sweep reads, or in the hands of who will put it there.
InHand ==
  \A m \in Recoveries \ begun :
    queue[m] \in {"waiting", "active"} /\ spent["faults"] = 0 /\ ~dropped => Watched(m)
WatchInv == Shape /\ Callers /\ Counted /\ Ended /\ Listened /\ InHand

\* The recovery after a job is or was on the queue.
Follows(n) == n < Cap /\ queue[n + 1] # "none"

\* An end was told before it is the answer, and who says the run continues has
\* a recovery that follows.
Answered ==
  /\ \A n \in Jobs :
       \/ at[n] \in {"clearing", "unpointing"}
       \/ result[n] \in {"final", "superseded", "failed"}
       \/ record[n] \in {"final", "superseded", "failed", "lost"}
       => told # {}
  /\ \A n \in Jobs :
       \/ result[n] = "continued" \/ record[n] = "continued"
       \/ \E w \in Sites : call[n][w].pc \in {"pend", "yes"}
       => Follows(n)

\* A run that is or may be continued has its checkpoint until its end is told.
Stored ==
  \/ pointer \/ (\E n \in Recoveries : queue[n] # "none")
  \/ \E n \in Jobs, w \in Sites : call[n][w].pc # "off"
  => store \/ told # {}

\* The inductive invariant of NeverSilent: each job that was on the queue waits,
\* works, is listened for or is followed, as long as nothing was told.
Carried(n) ==
  \/ queue[n] \in {"none", "waiting", "active"}
  \/ queue[n] = "stalled" /\ listener[n] \in {"record", "pointer", "recovering"}
  \/ queue[n] \in {"stalled", "settled"} /\ Follows(n)
Carry ==
  /\ queue[0] # "none"
  /\ ~dropped /\ told = {} => \A n \in Jobs : Carried(n)
ToldInv == Shape /\ Callers /\ Ended /\ Answered /\ Stored /\ Carry

\* The inductive invariant of CompletedStays: without a fault the store goes before
\* the pointer, and no recovery that has seen the pointer is at work beside that.
Faultless == spent["faults"] = 0 /\ ~cut
Backed ==
  Faultless =>
    /\ ~beside
    /\ pointer => store \/ \E n \in Jobs : at[n] = "unpointing"
    /\ \A n \in Jobs : at[n] = "manifest" => store
    /\ \A n \in Jobs : <<n, "absent">> \notin told
StaysInv == AgentInv /\ Counted /\ Backed

\* The inductive invariant of HostLostIsTrue: the host lives, no sweep decides.
Alive == spent["crashes"] = 0 /\ ~hard
Spared ==
  Alive =>
    /\ up
    /\ \A s \in Sweepers : sweep[s].pc # "remove"
    /\ \A x \in told : x[2] \notin Sweepers
SparedInv == Counted /\ Spared

\* The inductive invariant of OneVerdict.  While every lock holds and the home worker
\* lives, the jobs of the run follow one another, ...
Lossless == spent["stalls"] = 0 /\ spent["crashes"] = 0 /\ ~beside
Locked ==
  /\ up
  /\ \A n \in Jobs :
       /\ listener[n] = "none" /\ call[n]["stall"].pc = "off" /\ queue[n] # "stalled"
       /\ queue[n] = "active" <=> at[n] # "idle"
HandedOn(n) ==
  \/ at[n] = "recovering" /\ call[n]["exit"].pc \in {"pend", "yes"}
  \/ at[n] \in {"recording", "leaving"} /\ result[n] = "continued"
InTurn ==
  \A n, m \in Jobs : n < m /\ queue[m] # "none" => queue[n] = "settled" \/ HandedOn(n)

\* ... a recovery is in the set the sweep reads or in the hands of one sweep, and
\* what that sweep removes has not got to the end of its container, ...
Judging(s, m) == sweep[s].pc \in {"look", "remove"} /\ sweep[s].member[1] = m
Free(m) == \A s \in Sweepers : ~Judging(s, m)
OneMember ==
  /\ \A x \in pending : x[2] = "exit" /\ Free(x[1])
  /\ \A s \in Sweepers : sweep[s].pc # "rest" => sweep[s].member[2] = "exit"
  /\ \A s, t \in Sweepers, m \in Jobs : Judging(s, m) /\ Judging(t, m) => s = t
  /\ \A m \in Recoveries : (\E x \in pending : x[1] = m) \/ ~Free(m)
       => queue[m] # "none" /\ call[m - 1]["exit"].pc # "pend"
Early == {"record", "pointer", "manifest", "start", "running"}
Waits ==
  \A s \in Sweepers, m \in Jobs :
    sweep[s].pc = "remove" /\ sweep[s].member[1] = m
       => queue[m] = "waiting" \/ at[m] \in Early

\* ... and once an end was told, no job waits and each that works is ending.
Ending(n) ==
  \/ at[n] = "idle"
  \/ at[n] \in {"clearing", "unpointing", "recording", "leaving"} /\ result[n] # "retry"
  \/ HandedOn(n)
Verdict ==
  /\ \A x, y \in told : x = y
  /\ told # {} => \A n \in Jobs : queue[n] # "waiting" /\ Ending(n)
Calm == Locked /\ InTurn /\ OneMember /\ Waits /\ Verdict
Quieted == Lossless => Calm
VerdictInv == AgentInv /\ Counted /\ Ended /\ Answered /\ Stored /\ Quieted

\* The inductive invariant of TypeOK: a pickup of the run's own job takes an attempt.
Numbers ==
  /\ tries \in Nat /\ tries <= Attempts /\ (queue[0] = "waiting" => tries < Attempts)
  /\ claim \subseteq Recoveries /\ hard \in BOOLEAN
TypeInv == Shape /\ Callers /\ Ended /\ Numbers

-----------------------------------------------------------------------------
(* What the steps of several commands do.                                      *)

\* A pickup goes from one place to another, with an answer or without.
Steps(n, to, answer) ==
  /\ at' = [at EXCEPT ![n] = to]
  /\ result' = [result EXCEPT ![n] = answer]

\* A gate lets the pickup on, answers for it or sends it back to wait; only the
\* wait for the others opens the way to the container.
GateTo(n, to, answer) ==
  /\ Steps(n, to, answer)
  /\ queue' = [queue EXCEPT ![n] = IF to = "idle" /\ @ = "active" THEN "waiting" ELSE @]
  /\ at[n] \in {"record", "pointer", "manifest", "start"}
  /\ at[n] = "start" => n > 0 /\ to = "idle"
  /\ to = "manifest" => at[n] = "pointer" /\ pointer /\ \A k \in Jobs \ {n} : at[k] = "idle"
  /\ to = "start" => at[n] = "manifest"
  /\ to = "recording" => answer = "superseded" /\ (Settled(n) \/ ~store)
  /\ to = "clearing" => at[n] = "manifest" /\ answer = "final" /\ told' # {}
  /\ \/ told' = told
     \/ at[n] = "manifest" /\ ~store /\ told' = told \cup {<<n, "absent">>}
  /\ to \notin {"recording", "clearing"} => answer = result[n]
  /\ UNCHANGED <<box, call, listener, pending, due, sweep, up, beside, checkpoint>>
  /\ UNCHANGED <<record, dropped, begun, hard, cut>>

LEMMA GateEffect ==
  ASSUME Shape, NEW n \in Jobs, Gates(n)
  PROVE  \E to \in {"idle", "pointer", "manifest", "start", "recording", "clearing"},
            answer \in Results : GateTo(n, to, answer)
<1> USE DEF GateTo, Shape, Steps, pickup, checkpoint, enqueuing, backstop, ghosts, Results
<1>1. queue = [queue EXCEPT ![n] = queue[n]] /\ result = [result EXCEPT ![n] = result[n]]
  OBVIOUS
<1>2. CASE ReadRecord(n)
  BY <1>1, <1>2 DEF ReadRecord, Goto, Answer
<1>3. CASE ReadPointer(n)
  <2>1. PICK seen \in BOOLEAN : JudgePointer(n, seen) /\ (seen => pointer)
    BY <1>3 DEF ReadPointer
  <2>2. at[n] = "pointer"
        /\ UNCHANGED <<box, call, listener, pending, due, sweep, up, beside, checkpoint>>
        /\ UNCHANGED <<record, dropped, begun, told, hard, cut>>
    BY <1>3 DEF ReadPointer
  <2>3. CASE ~seen /\ ~store
    BY <1>1, <2>1, <2>2, <2>3 DEF JudgePointer, Goto, Answer
  <2>4. CASE Wait(n)
    BY <1>1, <2>2, <2>4 DEF Wait
  <2>5. CASE seen /\ \A k \in Jobs \ {n} : at[k] = "idle"
    BY <1>1, <2>1, <2>2, <2>5 DEF JudgePointer, Goto
  <2> QED
    BY <2>1, <2>3, <2>4, <2>5 DEF JudgePointer
<1>4. CASE ReadManifest(n)
  <2>1. CASE store
    BY <1>1, <1>4, <2>1 DEF ReadManifest, Goto
  <2>2. CASE ~store
    BY <1>1, <1>4, <2>2 DEF ReadManifest, Goto, Answer
  <2> QED
    BY <2>1, <2>2
<1>5. CASE Hold(n)
  BY <1>1, <1>5 DEF Hold, Wait, Jobs
<1> QED
  BY <1>2, <1>3, <1>4, <1>5 DEF Gates

\* A call is at another place.
Called(n, who, c) == call' = [call EXCEPT ![n][who] = c]

\* A call begins with the claim, where a recovery is left.
LEMMA CallBegins ==
  ASSUME NEW n \in Jobs, NEW who \in Sites, Ask(n, who)
  PROVE  \E c \in [pc : {"claim", "no"}, won : BOOLEAN] :
           Called(n, who, c) /\ (c.pc = "claim" => n < Cap)
<1>1. \A pc : /\ [Off EXCEPT !.pc = pc] \in [pc : {pc}, won : BOOLEAN]
               /\ [Off EXCEPT !.pc = pc].pc = pc
  BY DEF Off
<1>2. CASE n < Cap
  BY <1>1, <1>2 DEF Ask, Called
<1>3. CASE ~(n < Cap)
  BY <1>1, <1>3 DEF Ask, Called
<1> QED
  BY <1>2, <1>3

\* One call moves at a time, ...
LEMMA CallsKept ==
  ASSUME CallShape, NEW n \in Jobs, NEW who \in Sites,
     NEW c \in [pc : CallPlaces, won : BOOLEAN],
         c.pc \notin {"off", "no"} => n < Cap, Called(n, who, c)
  PROVE  /\ CallShape' /\ call'[n][who] = c
         /\ \A m \in Jobs, w \in Sites : m # n \/ w # who => call'[m][w] = call[m][w]
<1>1. /\ call'[n][who] = c
      /\ \A m \in Jobs, w \in Sites : m # n \/ w # who => call'[m][w] = call[m][w]
  BY DEF CallShape, Called
<1>2. call' \in [Jobs -> [Sites -> [pc : CallPlaces, won : BOOLEAN]]]
  BY DEF CallShape, Called
<1> QED
  BY <1>1, <1>2 DEF CallShape

LEMMA OffMade == Off \in [pc : CallPlaces, won : BOOLEAN] /\ Off.pc = "off"
  BY DEF Off, CallPlaces

\* ... and one sweep.
LEMMA SweepsKept ==
  ASSUME SweepShape, NEW s \in Sweepers, NEW from,
     NEW to \in {"rest", "take", "look", "remove"},
         NEW x \in Jobs \X Sites, Sweeping(s, from, to, x), to # "rest" => x \in Members,
         pending' \subseteq Members, due' \subseteq pending'
  PROVE  SweepShape'
<1>1. sweep' = [sweep EXCEPT ![s] = [pc |-> to, member |-> x]]
  BY DEF Sweeping
<1>2. sweep' \in [Sweepers -> [pc : {"rest", "take", "look", "remove"},
          member : Jobs \X Sites]]
  BY <1>1 DEF SweepShape
<1>3. \A r \in Sweepers : sweep'[r].pc # "rest" => sweep'[r].member \in Members
  BY <1>1 DEF SweepShape
<1> QED
  BY <1>2, <1>3 DEF SweepShape

LEMMA RestMade ==
  ASSUME DurableAssumption
  PROVE  Rest.member \in Jobs \X Sites /\ Rest.pc = "rest"
     /\ Rest = [pc |-> "rest", member |-> Rest.member]
BY DEF Rest, Jobs, Sites, DurableAssumption

\* An exit asks for a recovery, or has its answer: a job that is not continued
\* is retried or fails.
ExitTo(n, to, answer, c) ==
  /\ Steps(n, to, answer)
  /\ \/ Called(n, "exit", c)
     \/ c.pc = "off" /\ at[n] = "asking" /\ call' = call
  /\ at[n] = "asking" \/ (at[n] = "recovering" /\ call[n]["exit"].pc \in {"yes", "no"})
  /\ c.pc # "off" => to = "recovering" /\ at[n] = "asking"
  /\ c.pc = "claim" => n < Cap
  /\ at[n] = "recovering" => to # "recovering"
  /\ at[n] = "recovering" /\ call[n]["exit"].pc = "yes" => to = "recording"
     /\ answer = "continued"
  /\ to = "recovering" => answer = result[n]
  /\ to = "recording" =>
       answer = "retry" \/ (answer = "continued" /\ at[n] = "recovering"
          /\ call[n]["exit"].pc = "yes")
  /\ to = "clearing" => answer = "failed" /\ told' = told \cup {<<n, "recovery-failed">>}
  /\ to # "clearing" => told' = told
  /\ n # 0 => answer # "retry" \/ answer = result[n]
  /\ c.pc # "off" => pointer
  /\ UNCHANGED <<queue, box, listener, pending, due, sweep, up, beside, checkpoint>>
  /\ UNCHANGED <<record, dropped, begun, hard, cut>>

LEMMA ExitEffect ==
  ASSUME Shape, NEW n \in Jobs, AskPointer(n) \/ ExitAnswered(n)
  PROVE  \E to \in {"recovering", "recording", "clearing"}, answer \in Results,
            c \in [pc : {"off", "claim", "no"}, won : BOOLEAN] : ExitTo(n, to, answer, c)
<1> USE DEF ExitTo, Called, CallShape, Shape, Steps, pickup, checkpoint, enqueuing,
          backstop, ghosts, Results
<1>1. result = [result EXCEPT ![n] = result[n]]
  OBVIOUS
<1>2. Off \in [pc : {"off", "claim", "no"}, won : BOOLEAN] /\ Off.pc = "off"
  BY DEF Off
<1>3. CASE AskPointer(n)
  <2>1. CASE pointer /\ Goto(n, "asking", "recovering") /\ Ask(n, "exit")
            /\ UNCHANGED <<result, told>>
    <3>1. PICK c \in [pc : {"claim", "no"}, won : BOOLEAN] :
            Called(n, "exit", c) /\ (c.pc = "claim" => n < Cap)
      BY <2>1, CallBegins DEF Sites
    <3>2. c \in [pc : {"off", "claim", "no"}, won : BOOLEAN]
      OBVIOUS
    <3> QED
      BY <1>1, <1>3, <2>1, <3>1, <3>2 DEF AskPointer, Goto
  <2>2. CASE NotQueued(n, "asking") /\ UNCHANGED call
    BY <1>2, <1>3, <2>2 DEF AskPointer, NotQueued, Goto, Answer
  <2> QED
    BY <1>3, <2>1, <2>2 DEF AskPointer
<1>4. CASE ExitAnswered(n)
  <2>1. /\ call' = [call EXCEPT ![n]["exit"] = Off] /\ at[n] = "recovering"
        /\ UNCHANGED <<queue, box, listener, pending, due, sweep, up, beside, checkpoint>>
        /\ UNCHANGED <<record, dropped, begun, hard, cut>>
    BY <1>4 DEF ExitAnswered
  <2>2. CASE call[n]["exit"].pc = "yes"
    BY <1>2, <1>4, <2>1, <2>2 DEF ExitAnswered, Goto, Answer
  <2>3. CASE call[n]["exit"].pc = "no"
    BY <1>2, <1>4, <2>1, <2>3 DEF ExitAnswered, NotQueued, Goto, Answer
  <2> QED
    BY <1>4, <2>2, <2>3 DEF ExitAnswered
<1> QED
  BY <1>3, <1>4

\* A call goes on: what it adds is a recovery that is not on the queue, and who
\* adds one unseen leaves the add beside the claim.
CallTo(n, who, c) ==
  /\ Called(n, who, c)
  /\ call[n][who].pc \in {"claim", "ask", "add", "pend"}
  /\ \/ queue' = queue
     \/ /\ call[n][who].pc = "add" /\ (c.pc = "pend" \/ (beside' /\ Spend("faults")))
        /\ queue' = [queue EXCEPT ![n + 1] = "waiting"]
        /\ ~OnQueue(n + 1)
  /\ c.pc = "pend" /\ n + 1 \in Jobs => queue'[n + 1] # "none"
  /\ c.pc = "yes" => call[n][who].pc = "pend" \/ OnQueue(n + 1)
  /\ c.pc = "pend" => call[n][who].pc = "add"
  /\ call[n][who].pc = "pend" => c.pc = "yes"
     /\ (<<n + 1, who>> \in pending' \/ Spend("faults"))
  /\ pending \subseteq pending' /\ pending' \subseteq pending \cup {<<n + 1, who>>}
  /\ call[n][who].pc # "pend" => pending' = pending
  /\ beside' \in BOOLEAN /\ (beside => beside') /\ (beside' => beside \/ Spend("faults"))
  /\ UNCHANGED <<at, result, box, listener, due, sweep, up, checkpoint>>
  /\ UNCHANGED <<record, dropped, begun, told, hard, cut>>

LEMMA CallMoves ==
  ASSUME NEW n, NEW who, NEW from, NEW to, NEW won \in BOOLEAN, Calls(n, who, from, to, won)
  PROVE  \E c \in [pc : {to}, won : BOOLEAN] :
           c.pc = to /\ Called(n, who, c) /\ call[n][who].pc = from
<1> DEFINE c == [pc |-> to, won |-> won]
<1>1. c \in [pc : {to}, won : BOOLEAN] /\ c.pc = to
  OBVIOUS
<1>2. Called(n, who, c) /\ call[n][who].pc = from
  BY DEF Calls, Called
<1> QED
  BY <1>1, <1>2

LEMMA CallEffect ==
  ASSUME Shape, NEW n \in Jobs, NEW who \in Sites, Enqueue(n, who)
  PROVE  \E c \in [pc : {"ask", "add", "pend", "yes", "no"}, won : BOOLEAN] :
     CallTo(n, who, c)
<1> DEFINE Same == /\ UNCHANGED <<at, result, box, listener, due, sweep, up, checkpoint>>
                   /\ UNCHANGED <<record, dropped, begun, told, hard, cut>>
<1> USE DEF pickup, checkpoint, enqueuing, backstop, ghosts
<1>0. beside \in BOOLEAN
  BY DEF Shape
<1>1. CASE Claim(n, who)
  <2>1. PICK to \in {"add", "ask", "no"}, won \in BOOLEAN : Calls(n, who, "claim", to, won)
    BY <1>1 DEF Claim
  <2>2. PICK c \in [pc : {to}, won : BOOLEAN] :
          c.pc = to /\ Called(n, who, c) /\ call[n][who].pc = "claim"
    BY <2>1, CallMoves
  <2>3. queue' = queue /\ pending' = pending /\ beside' = beside /\ Same
    BY <1>1 DEF Claim
  <2>4. CallTo(n, who, c)
    BY <1>0, <2>2, <2>3 DEF CallTo
  <2> QED
    BY <2>4
<1>2. CASE AskJob(n, who)
  <2>1. PICK to \in {"yes", "add", "no"}, won \in BOOLEAN :
          Calls(n, who, "ask", to, won) /\ (to = "yes" => OnQueue(n + 1))
    BY <1>2 DEF AskJob, LoserAsks
  <2>2. PICK c \in [pc : {to}, won : BOOLEAN] :
          c.pc = to /\ Called(n, who, c) /\ call[n][who].pc = "ask"
    BY <2>1, CallMoves
  <2>3. queue' = queue /\ pending' = pending /\ beside' = beside /\ Same
    BY <1>2 DEF AskJob
  <2>4. CallTo(n, who, c)
    BY <1>0, <2>1, <2>2, <2>3 DEF CallTo
  <2> QED
    BY <2>4
<1>3. CASE Add(n, who)
  <2>1. call[n][who].won \in BOOLEAN
    BY DEF Shape, CallShape
  <2>2. PICK to \in {"pend", "no"}, won \in BOOLEAN :
          /\ Calls(n, who, "add", to, won)
          /\ \/ /\ to = "pend" /\ beside' = beside
                /\ queue' = [queue EXCEPT ![n + 1] = IF OnQueue(n + 1) THEN @ ELSE "waiting"]
             \/ to = "no" /\ Spend("faults") /\ beside' = (beside \/ queue' # queue)
    BY <1>3, <2>1 DEF Add
  <2>3. PICK c \in [pc : {to}, won : BOOLEAN] :
          c.pc = to /\ Called(n, who, c) /\ call[n][who].pc = "add"
    BY <2>2, CallMoves
  <2>4. queue' = queue \/ (queue' = [queue EXCEPT ![n + 1] = "waiting"] /\ ~OnQueue(n + 1))
    <3>1. queue = [queue EXCEPT ![n + 1] = queue[n + 1]]
      BY DEF Shape
    <3> QED
      BY <1>3, <3>1 DEF Add
  <2>5. pending' = pending /\ Same
    BY <1>3 DEF Add
  <2>11. n + 1 \in Jobs => to # "pend" \/ queue'[n + 1] # "none"
    <3>1. to = "pend" => queue' = [queue EXCEPT ![n + 1] = IF OnQueue(n + 1) THEN @ ELSE "waiting"]
      BY <2>2
    <3> QED
      BY <3>1 DEF OnQueue, Shape
  <2>6. beside' \in BOOLEAN /\ (beside => beside') /\ (beside' => beside \/ Spend("faults"))
    <3>1. beside' = beside \/ (beside' = (beside \/ queue' # queue) /\ Spend("faults"))
      BY <2>2
    <3>2. CASE beside' = beside
      BY <1>0, <3>2
    <3>3. CASE beside' = (beside \/ queue' # queue) /\ Spend("faults")
      BY <1>0, <3>3
    <3> QED
      BY <3>1, <3>2, <3>3
  <2>8. queue' = queue \/ c.pc = "pend" \/ (beside' /\ Spend("faults"))
    <3>1. CASE to = "pend"
      BY <2>3, <3>1
    <3>2. CASE Spend("faults") /\ beside' = (beside \/ queue' # queue)
      BY <1>0, <3>2
    <3> QED
      BY <2>2, <3>1, <3>2
  <2>7. \/ queue' = queue
        \/ /\ call[n][who].pc = "add" /\ (c.pc = "pend" \/ (beside' /\ Spend("faults")))
           /\ queue' = [queue EXCEPT ![n + 1] = "waiting"]
           /\ ~OnQueue(n + 1)
    <3>1. call[n][who].pc = "add"
      BY <2>3
    <3> QED
      BY <2>4, <2>8, <3>1
  <2>9. /\ pending \subseteq pending' /\ pending' \subseteq pending \cup {<<n + 1, who>>}
        /\ call[n][who].pc # "pend" => pending' = pending
    BY <2>5
  <2>10. CallTo(n, who, c)
    BY <2>3, <2>5, <2>6, <2>7, <2>9, <2>11 DEF CallTo
  <2> QED
    BY <2>10
<1>4. CASE Pend(n, who)
  <2>1. PICK to \in {"yes"}, won \in BOOLEAN : Calls(n, who, "pend", to, won)
    BY <1>4 DEF Pend
  <2>2. PICK c \in [pc : {to}, won : BOOLEAN] :
          c.pc = to /\ Called(n, who, c) /\ call[n][who].pc = "pend"
    BY <2>1, CallMoves
  <2>3. queue' = queue /\ beside' = beside /\ Same
    BY <1>4 DEF Pend
  <2>4. /\ pending \subseteq pending' /\ pending' \subseteq pending \cup {<<n + 1, who>>}
        /\ <<n + 1, who>> \in pending' \/ Spend("faults")
    BY <1>4 DEF Pend, AdderPends
  <2>5. CallTo(n, who, c)
    BY <1>0, <2>2, <2>3, <2>4 DEF CallTo
  <2> QED
    BY <2>5
<1> QED
  BY <1>1, <1>2, <1>3, <1>4 DEF Enqueue

\* A job does not come off the queue without a trace, and what was told stays.
Kept ==
  /\ told \subseteq told' /\ (beside => beside')
  /\ \A m \in Jobs : queue[m] # "none" => queue'[m] # "none"

\* A step spends a disturbance or none.
Paid == spent' = spent \/ \E what \in Kinds : Spend(what)


-----------------------------------------------------------------------------
(* The invariants hold at first, and each conjunct is kept by every step.      *)
LEMMA AgentInit == DurableAssumption /\ Init => AgentInv
<1> SUFFICES ASSUME DurableAssumption, Init PROVE AgentInv
  OBVIOUS
<1>1. Shape
  <2>1. CallShape
    BY OffMade DEF Init, CallShape, Sites
  <2>2. SweepShape
    BY RestMade DEF Init, SweepShape, Members
  <2> QED
    BY <2>1, <2>2 DEF Init, Shape, States, Places, Results
<1>2. Callers
  BY DEF DurableAssumption, Init, Callers, Jobs, Recoveries, Off
<1>3. HandedOver
  BY DEF Init, HandedOver, Recovered, Jobs, Recoveries
<1>4. Alone /\ Boxed
  BY DEF Init, Alone, Boxed, Deep
<1>5. Judged
  BY RestMade DEF Init, Judged
<1> QED
  BY <1>1, <1>2, <1>3, <1>4, <1>5 DEF AgentInv

LEMMA WatchInit == DurableAssumption /\ Init => WatchInv
<1> SUFFICES ASSUME DurableAssumption, Init PROVE WatchInv
  OBVIOUS
<1>1. Shape /\ Callers
  BY AgentInit DEF AgentInv
<1>2. Counted
  BY DEF Init, Counted
<1>3. Ended /\ Listened
  BY DEF Init, Ended, Listened, Results, Jobs, Recoveries, Off
<1>4. InHand
  BY DEF Init, InHand, Jobs, Recoveries
<1> QED
  BY <1>1, <1>2, <1>3, <1>4 DEF WatchInv

LEMMA ToldInit == DurableAssumption /\ Init => ToldInv
<1> SUFFICES ASSUME DurableAssumption, Init PROVE ToldInv
  OBVIOUS
<1>1. Shape /\ Callers /\ Ended
  BY WatchInit DEF WatchInv
<1>2. Answered
  BY DEF Init, Answered, Off, Sites
<1>3. Stored
  BY DEF Init, Stored, Off, Sites, Jobs, Recoveries
<1>4. 0 \in Jobs
  BY DEF DurableAssumption, Jobs
<1>5. Carry
  BY <1>4 DEF Init, Carry, Carried
<1> QED
  BY <1>1, <1>2, <1>3, <1>5 DEF ToldInv

LEMMA StaysInit == DurableAssumption /\ Init => StaysInv /\ SparedInv
<1> SUFFICES ASSUME DurableAssumption, Init PROVE StaysInv /\ SparedInv
  OBVIOUS
<1>1. AgentInv
  BY AgentInit
<1>2. Counted
  BY DEF Init, Counted
<1>3. Backed
  BY DEF Init, Backed
<1>4. Spared
  BY DEF Init, Spared, Rest
<1> QED
  BY <1>1, <1>2, <1>3, <1>4 DEF StaysInv, SparedInv

LEMMA VerdictInit == DurableAssumption /\ Init => VerdictInv
<1> SUFFICES ASSUME DurableAssumption, Init PROVE VerdictInv
  OBVIOUS
<1>1. AgentInv /\ Counted /\ Ended /\ Answered /\ Stored
  BY AgentInit, WatchInit, ToldInit DEF WatchInv, ToldInv
<1>2. Locked
  BY OffMade DEF Init, Locked, Sites
<1>3. InTurn
  BY DEF Init, InTurn, Jobs
<1>4. OneMember /\ Waits
  BY DEF Init, OneMember, Waits, Judging, Free, Rest
<1>5. Verdict
  BY DEF Init, Verdict
<1> QED
  BY <1>1, <1>2, <1>3, <1>4, <1>5 DEF VerdictInv, Quieted, Calm

\* The values of the variables, and whom a sweep may judge.
LEMMA ShapeStep == DurableAssumption /\ Shape /\ [Next]_vars => Shape'
<1> SUFFICES ASSUME DurableAssumption, Shape, [Next]_vars PROVE Shape'
  OBVIOUS
<1> USE DEF pickup, checkpoint, enqueuing, backstop, ghosts
<1>1. ASSUME NEW n \in Jobs, Pickup(n) PROVE Shape'
  BY <1>1 DEF Pickup, Goto, Shape, CallShape, SweepShape, States, Places, Results
<1>2. ASSUME NEW n \in Jobs, Gates(n) PROVE Shape'
  <2>1. PICK to \in {"idle", "pointer", "manifest", "start", "recording", "clearing"},
            answer \in Results : GateTo(n, to, answer)
    BY <1>2, GateEffect
  <2> QED
    BY <2>1 DEF GateTo, Steps, Shape, CallShape, SweepShape, States, Places, Results
<1>3. ASSUME NEW n \in Jobs, Start(n) PROVE Shape'
  BY <1>3 DEF Start, Goto, Shape, CallShape, SweepShape, States, Places, Results
<1>4. ASSUME NEW n \in Jobs, Checkpoint(n) PROVE Shape'
  BY <1>4 DEF Checkpoint, Shape, CallShape, SweepShape, States, Places, Results
<1>5. ASSUME NEW n \in Jobs, Complete(n) PROVE Shape'
  BY <1>5 DEF Complete, Goto, Answer, Shape, CallShape, SweepShape, States, Places, Results
<1>6. ASSUME NEW n \in Jobs, InfraExit(n) PROVE Shape'
  BY <1>6 DEF InfraExit, Goto, Shape, CallShape, SweepShape, States, Places, Results
<1>7. ASSUME NEW n \in Jobs, AskPointer(n) \/ ExitAnswered(n) PROVE Shape'
  <2>1. PICK to \in {"recovering", "recording", "clearing"}, answer \in Results,
            c \in [pc : {"off", "claim", "no"}, won : BOOLEAN] : ExitTo(n, to, answer, c)
    BY <1>7, ExitEffect
  <2>2. c \in [pc : CallPlaces, won : BOOLEAN] /\ "exit" \in Sites
    BY DEF CallPlaces, Sites
  <2>3. CallShape'
    <3>1. CASE call' = call
      BY <3>1 DEF Shape, CallShape
    <3>2. CASE Called(n, "exit", c)
      BY <2>1, <2>2, <3>2, CallsKept DEF ExitTo, Shape
    <3> QED
      BY <2>1, <3>1, <3>2 DEF ExitTo
  <2> QED
    BY <2>1, <2>3 DEF ExitTo, Steps, Shape, SweepShape, Places
<1>8. ASSUME NEW n \in Jobs, ClearStore(n) PROVE Shape'
  BY <1>8 DEF ClearStore, Goto, Shape, CallShape, SweepShape, States, Places, Results
<1>9. ASSUME NEW n \in Jobs, ClearPointer(n) PROVE Shape'
  BY <1>9 DEF ClearPointer, Goto, Shape, CallShape, SweepShape, States, Places, Results
<1>10. ASSUME NEW n \in Jobs, Record(n) PROVE Shape'
  BY <1>10 DEF Record, Goto, Shape, CallShape, SweepShape, States, Places, Results
<1>11. ASSUME NEW n \in Jobs, Leave(n) PROVE Shape'
  BY <1>11 DEF Leave, Goto, Shape, CallShape, SweepShape, States, Places, Results
<1>12. ASSUME NEW n \in Jobs, Stall(n) PROVE Shape'
  BY <1>12 DEF Stall, Shape, CallShape, SweepShape, States, Places, Results
<1>13. ASSUME NEW n \in Jobs, ListenRecord(n) PROVE Shape'
  BY <1>13 DEF ListenRecord, Heard, Shape, CallShape, SweepShape, States, Places, Results
<1>14. ASSUME NEW n \in Jobs, ListenPointer(n) PROVE Shape'
  <2>1. CASE UNCHANGED call
    BY <1>14, <2>1 DEF ListenPointer, Heard, Shape, CallShape, SweepShape
  <2>2. CASE Ask(n, "stall") /\ Heard(n, "pointer", "recovering")
    <3>1. PICK c \in [pc : {"claim", "no"}, won : BOOLEAN] :
            Called(n, "stall", c) /\ (c.pc = "claim" => n < Cap)
      BY <2>2, CallBegins DEF Sites
    <3>2. c \in [pc : CallPlaces, won : BOOLEAN] /\ "stall" \in Sites
      BY DEF CallPlaces, Sites
    <3>3. CallShape' /\ \A m \in Jobs, w \in Sites : m # n \/ w # "stall"
              => call'[m][w] = call[m][w]
      BY <3>1, <3>2, CallsKept DEF Shape
    <3> QED
      BY <1>14, <2>2, <3>3 DEF ListenPointer, Heard, Shape, SweepShape
  <2> QED
    BY <1>14, <2>1, <2>2 DEF ListenPointer
<1>15. ASSUME NEW n \in Jobs, ListenAnswered(n) PROVE Shape'
  <2>1. Called(n, "stall", Off) /\ "stall" \in Sites
    BY <1>15 DEF ListenAnswered, Called, Sites
  <2>2. CallShape'
    BY <2>1, OffMade, CallsKept DEF Shape
  <2> QED
    BY <1>15, <2>2 DEF ListenAnswered, Heard, Shape, SweepShape
<1>16. ASSUME NEW n \in Jobs, NEW who \in Sites, Enqueue(n, who) PROVE Shape'
  <2>1. PICK c \in [pc : {"ask", "add", "pend", "yes", "no"}, won : BOOLEAN] :
            CallTo(n, who, c)
    BY <1>16, CallEffect
  <2>2. c \in [pc : CallPlaces, won : BOOLEAN] /\ n < Cap
    BY <2>1 DEF CallTo, CallPlaces, Shape, CallShape
  <2>3. CallShape'
    BY <2>1, <2>2, CallsKept DEF CallTo, Shape
  <2>4. n + 1 \in Recoveries /\ n + 1 \in Jobs
    BY <2>2, DurableAssumption DEF Jobs, Recoveries, DurableAssumption
  <2>5. SweepShape'
    BY <2>1, <2>4 DEF CallTo, Shape, SweepShape, Members
  <2> QED
    BY <2>1, <2>3, <2>4, <2>5 DEF CallTo, Shape, States
<1>17. ASSUME NEW s \in Sweepers, SweepRead(s) PROVE Shape'
  <2>1. PICK x \in due : Sweeping(s, "rest", "take", x)
    BY <1>17 DEF SweepRead
  <2>2. x \in Members /\ x \in Jobs \X Sites
    BY DEF Shape, SweepShape, Members, Jobs, Recoveries
  <2>3. SweepShape'
    BY <1>17, <2>1, <2>2, SweepsKept DEF SweepRead, Shape, SweepShape
  <2> QED
    BY <1>17, <2>3 DEF SweepRead, Shape, CallShape
<1>18. ASSUME NEW s \in Sweepers, SweepTake(s) PROVE Shape'
  <2>1. PICK to \in {"look", "rest"}, x \in {sweep[s].member, Rest.member} :
          Sweeping(s, "take", to, x) /\ (to = "look" => x = sweep[s].member)
    BY <1>18 DEF SweepTake, TakeMember
  <2>2. sweep[s].member \in Members /\ x \in Jobs \X Sites
    BY <2>1, RestMade DEF Sweeping, Shape, SweepShape
  <2>3. pending' \subseteq pending /\ due' \subseteq pending'
    BY <1>18 DEF SweepTake, TakeMember, Shape, SweepShape
  <2>5. pending' \subseteq Members
    BY <2>2, <2>3 DEF Shape, SweepShape
  <2>4. SweepShape'
    BY <2>1, <2>2, <2>3, <2>5, SweepsKept DEF Shape
  <2> QED
    BY <1>18, <2>4 DEF SweepTake, Shape, CallShape
<1>19. ASSUME NEW s \in Sweepers, SweepLook(s) PROVE Shape'
  <2>1. PICK to \in {"remove", "rest"}, x \in {sweep[s].member, Rest.member} :
          Sweeping(s, "look", to, x) /\ (to = "remove" => x = sweep[s].member)
    BY <1>19 DEF SweepLook
  <2>2. sweep[s].member \in Members /\ x \in Jobs \X Sites
    BY <2>1, RestMade DEF Sweeping, Shape, SweepShape
  <2>3. pending' \subseteq pending \cup {sweep[s].member} /\ due' \subseteq pending'
    BY <1>19 DEF SweepLook, Shape, SweepShape
  <2>5. pending' \subseteq Members
    BY <2>2, <2>3 DEF Shape, SweepShape
  <2>4. SweepShape'
    BY <2>1, <2>2, <2>3, <2>5, SweepsKept DEF Shape
  <2> QED
    BY <1>19, <2>4 DEF SweepLook, Shape, CallShape
<1>20. ASSUME NEW s \in Sweepers, SweepRemove(s) PROVE Shape'
  <2>1. Sweeping(s, "remove", "rest", Rest.member)
    BY <1>20 DEF SweepRemove
  <2>2. sweep[s].member \in Members
    BY <2>1 DEF Sweeping, Shape, SweepShape
  <2>3. pending' \subseteq pending \cup {sweep[s].member} /\ due' \subseteq pending'
    BY <1>20 DEF SweepRemove, Shape, SweepShape
  <2>6. pending' \subseteq Members
    BY <2>2, <2>3 DEF Shape, SweepShape
  <2>4. SweepShape'
    BY <2>1, <2>2, <2>3, <2>6, RestMade, SweepsKept DEF Shape
  <2>5. queue' \in [Jobs -> States]
    BY <1>20 DEF SweepRemove, Shape, States
  <2> QED
    BY <1>20, <2>4, <2>5 DEF SweepRemove, Shape, CallShape
<1>21. ASSUME NEW s \in Sweepers, SweeperDies(s) PROVE Shape'
  <2>1. sweep' = [sweep EXCEPT ![s] = Rest]
    BY <1>21 DEF SweeperDies
  <2>2. SweepShape'
    BY <1>21, <2>1, RestMade DEF SweeperDies, Shape, SweepShape
  <2> QED
    BY <1>21, <2>2 DEF SweeperDies, Shape, CallShape
<1>22. CASE Deadline
  BY <1>22 DEF Deadline, Shape, CallShape, SweepShape, States, Places, Results
<1>23. CASE LongestWait
  BY <1>23 DEF LongestWait, Shape, CallShape, SweepShape, States, Places, Results
<1>24. CASE Crash
  <2>1. CallShape'
    BY <1>24, OffMade DEF Crash, CallShape, Sites
  <2> QED
    BY <1>24, <2>1 DEF Crash, Shape, SweepShape, Places, Results
<1>25. CASE Reboot
  BY <1>25 DEF Reboot, Shape, CallShape, SweepShape, States, Places, Results
<1>26. CASE UNCHANGED vars
  BY <1>26 DEF vars, Shape, CallShape, SweepShape, States, Places, Results
<1> QED
  BY <1>1, <1>2, <1>3, <1>4, <1>5, <1>6, <1>7, <1>8, <1>9, <1>10, <1>11, <1>12, <1>13,
     <1>14,
     <1>15, <1>16, <1>17, <1>18, <1>19, <1>20, <1>21, <1>22, <1>23, <1>24, <1>25, <1>26
  DEF Next, Work, Listener, Sweep, Sites

\* A call belongs to a pickup or to a listener that waits for its answer.
LEMMA CallersStep == DurableAssumption /\ Shape /\ Callers /\ [Next]_vars => Callers'
<1> SUFFICES ASSUME DurableAssumption, Shape, Callers, [Next]_vars PROVE Callers'
  OBVIOUS
<1> USE DEF pickup, checkpoint, enqueuing, backstop, ghosts
<1>1. ASSUME NEW n \in Jobs, Pickup(n) PROVE Callers'
  <2>1. UNCHANGED <<call, listener>> /\ queue[n] = "waiting"
    BY <1>1 DEF Pickup
  <2>2. /\ at[n] = "idle" /\ at'[n] \in {"start", "record"}
            /\ (n = 0 => at'[n] = "start") /\ queue'[n] = "active"
        /\ \A m \in Jobs \ {n} : at'[m] = at[m] /\ queue'[m] = queue[m]
    BY <1>1 DEF Pickup, Goto, Shape
  <2>3. \A m \in Jobs : queue[m] # "none" => queue'[m] # "none"
    BY <2>2
  <2>4. \A m \in Jobs : (call[m]["exit"].pc # "off" => m # n)
            /\ (at'[m] # "idle" => at[m] # "idle" \/ m = n)
    BY <2>2 DEF Callers
  <2>5. \A m \in Jobs : call'[m]["exit"].pc # "off" => at'[m] = "recovering"
    BY <2>1, <2>2, <2>4 DEF Callers
  <2>0. 0 \in Jobs
    BY DurableAssumption DEF Jobs, DurableAssumption
  <2>6. n = 0 => listener[0] = "none" /\ call[0]["stall"].pc = "off"
    BY <2>1 DEF Callers
  <2>7. n # 0 => queue'[0] = queue[0] /\ at'[0] = at[0]
    BY <2>0, <2>2
  <2>8. \A m \in Jobs : at'[m] # "idle" \/ listener'[m] # "none"
            \/ call'[m]["stall"].pc # "off"
                        => queue'[m] # "none"
    BY <2>1, <2>2, <2>3, <2>4 DEF Callers
  <2>9. CASE n = 0
    BY <2>1, <2>2, <2>5, <2>6, <2>8, <2>9 DEF Callers
  <2>10. CASE n # 0
    BY <2>1, <2>5, <2>7, <2>8, <2>10 DEF Callers
  <2> QED
    BY <2>9, <2>10
<1>2. ASSUME NEW n \in Jobs, Gates(n) PROVE Callers'
  <2>1. PICK to \in {"idle", "pointer", "manifest", "start", "recording", "clearing"},
            answer \in Results : GateTo(n, to, answer)
    BY <1>2, GateEffect
  <2> QED
    BY <2>1 DEF GateTo, Steps, Shape, Callers
<1>3. ASSUME NEW n \in Jobs, Start(n) PROVE Callers'
  BY <1>3 DEF Start, Goto, Shape, Callers
<1>4. ASSUME NEW n \in Jobs, Checkpoint(n) PROVE Callers'
  BY <1>4 DEF Checkpoint, Shape, Callers
<1>5. ASSUME NEW n \in Jobs, Complete(n) PROVE Callers'
  BY <1>5 DEF Complete, Goto, Answer, Shape, Callers
<1>6. ASSUME NEW n \in Jobs, InfraExit(n) PROVE Callers'
  BY <1>6 DEF InfraExit, Goto, Shape, Callers
<1>7. ASSUME NEW n \in Jobs, AskPointer(n) \/ ExitAnswered(n) PROVE Callers'
  <2>1. PICK to \in {"recovering", "recording", "clearing"}, answer \in Results,
            c \in [pc : {"off", "claim", "no"}, won : BOOLEAN] : ExitTo(n, to, answer, c)
    BY <1>7, ExitEffect
  <2>2. c \in [pc : CallPlaces, won : BOOLEAN] /\ "exit" \in Sites
    BY DEF CallPlaces, Sites
  <2>3. /\ \A m \in Jobs, w \in Sites : m # n \/ w # "exit" => call'[m][w] = call[m][w]
        /\ call'[n]["exit"].pc # "off" => to = "recovering"
    <3>1. CASE at[n] = "asking" /\ call' = call
      BY <3>1 DEF Callers
    <3>2. CASE Called(n, "exit", c)
      <4>0. CallShape /\ (c.pc \notin {"off", "no"} => n < Cap)
        BY <2>1 DEF ExitTo, Shape
      <4>1. /\ call'[n]["exit"] = c
            /\ \A m \in Jobs, w \in Sites : m # n \/ w # "exit" => call'[m][w] = call[m][w]
        BY <2>2, <3>2, <4>0, CallsKept
      <4> QED
        BY <2>1, <4>1 DEF ExitTo
    <3> QED
      BY <2>1, <3>1, <3>2 DEF ExitTo
  <2>4. /\ at'[n] = to /\ result'[n] = answer
        /\ \A m \in Jobs \ {n} : at'[m] = at[m] /\ result'[m] = result[m]
    BY <2>1 DEF ExitTo, Steps, Shape
  <2>5. UNCHANGED <<queue, listener, beside>> /\ at[n] \in {"asking", "recovering"}
    BY <2>1 DEF ExitTo
  <2>0. 0 \in Jobs
    BY DurableAssumption DEF Jobs, DurableAssumption
  <2>6. \A m \in Jobs : call'[m]["exit"].pc # "off" => at'[m] = "recovering"
    BY <2>3, <2>4 DEF Callers, Sites
  <2>7. \A m \in Jobs : call'[m]["stall"] = call[m]["stall"]
            /\ (at'[m] # "idle" => at[m] # "idle")
    BY <2>3, <2>4, <2>5 DEF Sites
  <2>8. at'[0] \notin {"record", "pointer", "manifest"}
    BY <2>0, <2>4 DEF Callers
  <2> QED
    BY <2>0, <2>5, <2>6, <2>7, <2>8 DEF Callers
<1>8. ASSUME NEW n \in Jobs, ClearStore(n) PROVE Callers'
  BY <1>8 DEF ClearStore, Goto, Shape, Callers
<1>9. ASSUME NEW n \in Jobs, ClearPointer(n) PROVE Callers'
  BY <1>9 DEF ClearPointer, Goto, Shape, Callers
<1>10. ASSUME NEW n \in Jobs, Record(n) PROVE Callers'
  BY <1>10 DEF Record, Goto, Shape, Callers
<1>11. ASSUME NEW n \in Jobs, Leave(n) PROVE Callers'
  <2>1. at[n] = "leaving" /\ at'[n] = "idle" /\ \A m \in Jobs \ {n} : at'[m] = at[m]
    BY <1>11 DEF Leave, Goto, Shape
  <2>2. UNCHANGED <<call, listener, beside>>
            /\ \A m \in Jobs \ {n} : queue'[m] = queue[m] /\ result'[m] = result[m]
    BY <1>11 DEF Leave, Shape
  <2>3. queue[n] # "active" => queue'[n] = queue[n]
    BY <1>11 DEF Leave
  <2>4. queue[n] = "active" => queue'[n] = "settled"
            \/ (queue'[n] = "waiting" /\ result[n] = "retry")
    BY <1>11 DEF Leave, Shape
  <2>0. 0 \in Jobs
    BY DurableAssumption DEF Jobs, DurableAssumption
  <2>5. \A m \in Jobs : (at'[m] # "idle" => at[m] # "idle" /\ m # n)
            /\ (queue[m] # "none" => queue'[m] # "none")
    BY <2>1, <2>2, <2>3, <2>4
  <2>6. \A m \in Jobs : call'[m]["exit"].pc # "off" => at'[m] = "recovering"
    BY <2>1, <2>2 DEF Callers
  <2>7. queue[0] = "stalled" => queue'[0] = "stalled"
    BY <2>0, <2>2, <2>3
  <2>8. at'[0] # "idle" => queue'[0] \in {"active", "stalled"} /\ at'[0] = at[0]
    BY <2>0, <2>1, <2>2 DEF Callers
  <2> QED
    BY <2>0, <2>2, <2>5, <2>6, <2>7, <2>8 DEF Callers
<1>12. ASSUME NEW n \in Jobs, Stall(n) PROVE Callers'
  <2>1. /\ queue[n] = "active" /\ queue' = [queue EXCEPT ![n] = "stalled"]
        /\ listener' = [listener EXCEPT ![n] = "record"] /\ UNCHANGED <<at, call>>
    BY <1>12 DEF Stall
  <2> QED
    BY <2>1 DEF Shape, Callers
<1>13. ASSUME NEW n \in Jobs, ListenRecord(n) PROVE Callers'
  BY <1>13 DEF ListenRecord, Heard, Shape, Callers
<1>14. ASSUME NEW n \in Jobs, ListenPointer(n) PROVE Callers'
  <2>1. /\ UNCHANGED <<at, queue>> /\ listener[n] = "pointer" /\ listener'[n] # "none"
        /\ \A m \in Jobs \ {n} : listener'[m] = listener[m]
    BY <1>14 DEF ListenPointer, Heard, Shape
  <2>2. \A m \in Jobs, w \in Sites : m # n \/ w # "stall" => call'[m][w] = call[m][w]
    <3>1. CASE UNCHANGED call
      BY <3>1
    <3>2. CASE Ask(n, "stall")
      <4>1. PICK c \in [pc : {"claim", "no"}, won : BOOLEAN] :
              Called(n, "stall", c) /\ (c.pc = "claim" => n < Cap)
        BY <3>2, CallBegins DEF Sites
      <4>2. c \in [pc : CallPlaces, won : BOOLEAN] /\ "stall" \in Sites
        BY DEF CallPlaces, Sites
      <4> QED
        BY <4>1, <4>2, CallsKept DEF Shape
    <3> QED
      BY <1>14, <3>1, <3>2 DEF ListenPointer
  <2>0. 0 \in Jobs
    BY DurableAssumption DEF Jobs, DurableAssumption
  <2>3. \A m \in Jobs : call'[m]["exit"] = call[m]["exit"]
    BY <2>2 DEF Sites
  <2>4. \A m \in Jobs : m # n => call'[m]["stall"] = call[m]["stall"]
    BY <2>2 DEF Sites
  <2>5. queue[n] # "none" /\ (n = 0 => queue[n] = "stalled")
    BY <2>1 DEF Callers
  <2> QED
    BY <2>0, <2>1, <2>3, <2>4, <2>5 DEF Callers
<1>15. ASSUME NEW n \in Jobs, ListenAnswered(n) PROVE Callers'
  BY <1>15 DEF ListenAnswered, Heard, Shape, Callers
<1>16. ASSUME NEW n \in Jobs, NEW who \in Sites, Enqueue(n, who) PROVE Callers'
  <2>1. PICK c \in [pc : {"ask", "add", "pend", "yes", "no"}, won : BOOLEAN] :
            CallTo(n, who, c)
    BY <1>16, CallEffect
  <2>2. c \in [pc : CallPlaces, won : BOOLEAN] /\ n < Cap
    BY <2>1 DEF CallTo, CallPlaces, Shape, CallShape
  <2>3. /\ \A m \in Jobs, w \in Sites : m # n \/ w # who => call'[m][w] = call[m][w]
        /\ call'[n][who] = c
    <3>1. CallShape /\ Called(n, who, c)
      BY <2>1 DEF CallTo, Shape
    <3> QED
      BY <2>2, <3>1, CallsKept
  <2>4. n + 1 \in Recoveries /\ n + 1 \in Jobs /\ n + 1 # 0
    BY <2>2, DurableAssumption DEF Jobs, Recoveries, DurableAssumption
  <2>5. UNCHANGED <<at, result, listener>> /\ (beside => beside')
            /\ call[n][who].pc \in {"claim", "ask", "add", "pend"}
    BY <2>1 DEF CallTo
  <2>6. /\ queue' # queue => call[n][who].pc = "add" /\ (c.pc = "pend" \/ beside')
        /\ \A m \in Jobs : queue'[m] = queue[m] \/ (queue'[m] = "waiting" /\ m # 0)
    BY <2>1, <2>4 DEF CallTo, Shape
  <2>0. 0 \in Jobs
    BY DurableAssumption DEF Jobs, DurableAssumption
  <2>7. \A m \in Jobs, w \in Sites : call'[m][w].pc # "off" => call[m][w].pc # "off"
    BY <2>3, <2>5
  <2>8. queue'[0] = queue[0] /\ \A m \in Jobs : queue[m] # "none" => queue'[m] # "none"
    BY <2>0, <2>6
  <2> QED
    BY <2>0, <2>5, <2>7, <2>8 DEF Callers, Sites
<1>17. ASSUME NEW s \in Sweepers, SweepRead(s) PROVE Callers'
  BY <1>17 DEF SweepRead, Sweeping, Shape, Callers
<1>18. ASSUME NEW s \in Sweepers, SweepTake(s) PROVE Callers'
  BY <1>18 DEF SweepTake, TakeMember, Sweeping, Shape, Callers
<1>19. ASSUME NEW s \in Sweepers, SweepLook(s) PROVE Callers'
  BY <1>19 DEF SweepLook, Sweeping, Shape, Callers
<1>20. ASSUME NEW s \in Sweepers, SweepRemove(s) PROVE Callers'
  <2>1. sweep[s].member[1] \in Recoveries
    BY <1>20 DEF SweepRemove, Sweeping, Shape, SweepShape, Members
  <2>2. UNCHANGED <<at, call, listener, result, beside>>
    BY <1>20 DEF SweepRemove
  <2>3. 0 \notin Recoveries
    BY DEF Recoveries
  <2>0. 0 \in Jobs
    BY DurableAssumption DEF Jobs, DurableAssumption
  <2>4. queue'[0] = queue[0] /\ \A m \in Jobs : queue[m] # "none" => queue'[m] # "none"
    BY <2>0, <1>20, <2>1, <2>3 DEF SweepRemove, Shape
  <2> QED
    BY <2>0, <2>2, <2>4 DEF Callers
<1>21. ASSUME NEW s \in Sweepers, SweeperDies(s) PROVE Callers'
  BY <1>21 DEF SweeperDies, Shape, Callers
<1>22. CASE Deadline
  BY <1>22 DEF Deadline, Shape, Callers
<1>23. CASE LongestWait
  BY <1>23 DEF LongestWait, Shape, Callers
<1>24. CASE Crash
  <2>1. \A n \in Jobs : call'[n]["exit"].pc = "off" /\ call'[n]["stall"].pc = "off"
            /\ at'[n] = "idle"
    BY <1>24, OffMade DEF Crash
  <2>2. queue' = queue /\ \A n \in Jobs : listener'[n] # "none" => listener[n] # "none"
    BY <1>24 DEF Crash
  <2>0. 0 \in Jobs
    BY DurableAssumption DEF Jobs, DurableAssumption
  <2> QED
    BY <2>1, <2>2, <2>0 DEF Callers
<1>25. CASE Reboot
  BY <1>25 DEF Reboot, Shape, Callers
<1>26. CASE UNCHANGED vars
  BY <1>26 DEF vars, Shape, Callers
<1> QED
  BY <1>1, <1>2, <1>3, <1>4, <1>5, <1>6, <1>7, <1>8, <1>9, <1>10, <1>11, <1>12, <1>13,
     <1>14,
     <1>15, <1>16, <1>17, <1>18, <1>19, <1>20, <1>21, <1>22, <1>23, <1>24, <1>25, <1>26
  DEF Next, Work, Listener, Sweep, Sites

\* No job leaves the queue without a trace, and nothing told is taken back.
LEMMA StepKeeps == DurableAssumption /\ Shape /\ [Next]_vars => Kept
<1> SUFFICES ASSUME DurableAssumption, Shape, [Next]_vars PROVE Kept
  OBVIOUS
<1> USE DEF pickup, checkpoint, enqueuing, backstop, ghosts
<1>1. ASSUME NEW n \in Jobs, Pickup(n) PROVE Kept
  BY <1>1 DEF Pickup, Shape, Kept
<1>2. ASSUME NEW n \in Jobs, Gates(n) PROVE Kept
  <2>1. PICK to \in {"idle", "pointer", "manifest", "start", "recording", "clearing"},
            answer \in Results : GateTo(n, to, answer)
    BY <1>2, GateEffect
  <2> QED
    BY <2>1 DEF GateTo, Shape, Kept
<1>3. ASSUME NEW n \in Jobs, Start(n) PROVE Kept
  BY <1>3 DEF Start, Goto, Kept
<1>4. ASSUME NEW n \in Jobs, Checkpoint(n) PROVE Kept
  BY <1>4 DEF Checkpoint, Kept
<1>5. ASSUME NEW n \in Jobs, Complete(n) PROVE Kept
  BY <1>5 DEF Complete, Goto, Answer, Kept
<1>6. ASSUME NEW n \in Jobs, InfraExit(n) PROVE Kept
  BY <1>6 DEF InfraExit, Goto, Kept
<1>7. ASSUME NEW n \in Jobs, AskPointer(n) \/ ExitAnswered(n) PROVE Kept
  <2>1. PICK to \in {"recovering", "recording", "clearing"}, answer \in Results,
            c \in [pc : {"off", "claim", "no"}, won : BOOLEAN] : ExitTo(n, to, answer, c)
    BY <1>7, ExitEffect
  <2> QED
    BY <2>1 DEF ExitTo, Kept
<1>8. ASSUME NEW n \in Jobs, ClearStore(n) PROVE Kept
  BY <1>8 DEF ClearStore, Goto, Kept
<1>9. ASSUME NEW n \in Jobs, ClearPointer(n) PROVE Kept
  BY <1>9 DEF ClearPointer, Goto, Kept
<1>10. ASSUME NEW n \in Jobs, Record(n) PROVE Kept
  BY <1>10 DEF Record, Goto, Kept
<1>11. ASSUME NEW n \in Jobs, Leave(n) PROVE Kept
  BY <1>11 DEF Leave, Shape, Kept
<1>12. ASSUME NEW n \in Jobs, Stall(n) PROVE Kept
  BY <1>12 DEF Stall, Shape, Kept
<1>13. ASSUME NEW n \in Jobs, ListenRecord(n) PROVE Kept
  BY <1>13 DEF ListenRecord, Heard, Kept
<1>14. ASSUME NEW n \in Jobs, ListenPointer(n) PROVE Kept
  BY <1>14 DEF ListenPointer, Heard, Ask, Kept
<1>15. ASSUME NEW n \in Jobs, ListenAnswered(n) PROVE Kept
  BY <1>15 DEF ListenAnswered, Heard, Kept
<1>16. ASSUME NEW n \in Jobs, NEW who \in Sites, Enqueue(n, who) PROVE Kept
  <2>1. PICK c \in [pc : {"ask", "add", "pend", "yes", "no"}, won : BOOLEAN] :
            CallTo(n, who, c)
    BY <1>16, CallEffect
  <2> QED
    BY <2>1 DEF CallTo, Shape, Kept
<1>17. ASSUME NEW s \in Sweepers, SweepRead(s) PROVE Kept
  BY <1>17 DEF SweepRead, Sweeping, Kept
<1>18. ASSUME NEW s \in Sweepers, SweepTake(s) PROVE Kept
  BY <1>18 DEF SweepTake, TakeMember, Sweeping, Kept
<1>19. ASSUME NEW s \in Sweepers, SweepLook(s) PROVE Kept
  BY <1>19 DEF SweepLook, Sweeping, Kept
<1>20. ASSUME NEW s \in Sweepers, SweepRemove(s) PROVE Kept
  BY <1>20 DEF SweepRemove, Shape, Kept
<1>21. ASSUME NEW s \in Sweepers, SweeperDies(s) PROVE Kept
  BY <1>21 DEF SweeperDies, Kept
<1>22. CASE Deadline
  BY <1>22 DEF Deadline, Kept
<1>23. CASE LongestWait
  BY <1>23 DEF LongestWait, Kept
<1>24. CASE Crash
  BY <1>24 DEF Crash, Kept
<1>25. CASE Reboot
  BY <1>25 DEF Reboot, Kept
<1>26. CASE UNCHANGED vars
  BY <1>26 DEF vars, Kept
<1> QED
  BY <1>1, <1>2, <1>3, <1>4, <1>5, <1>6, <1>7, <1>8, <1>9, <1>10, <1>11, <1>12, <1>13,
     <1>14,
     <1>15, <1>16, <1>17, <1>18, <1>19, <1>20, <1>21, <1>22, <1>23, <1>24, <1>25, <1>26
  DEF Next, Work, Listener, Sweep, Sites

\* What a sweep removes was on the queue.
LEMMA JudgedStep == DurableAssumption /\ Shape /\ Judged /\ [Next]_vars => Judged'
<1> SUFFICES ASSUME DurableAssumption, Shape, Judged, [Next]_vars PROVE Judged'
  OBVIOUS
<1> USE DEF pickup, checkpoint, enqueuing, backstop, ghosts
<1>1. ASSUME NEW n \in Jobs, Pickup(n) PROVE Judged'
  <2>9. \A m \in Jobs : queue[m] # "none" => queue'[m] # "none"
    BY StepKeeps DEF Kept
  <2>8. sweep' = sweep /\ \A s \in Sweepers : sweep[s].pc = "remove"
            => sweep[s].member[1] \in Jobs
    BY <1>1 DEF Pickup, Goto, Shape, SweepShape, Members, Jobs, Recoveries
  <2> QED
    BY <2>8, <2>9 DEF Judged
<1>2. ASSUME NEW n \in Jobs, Gates(n) PROVE Judged'
  <2>1. PICK to \in {"idle", "pointer", "manifest", "start", "recording", "clearing"},
            answer \in Results : GateTo(n, to, answer)
    BY <1>2, GateEffect
  <2>9. \A m \in Jobs : queue[m] # "none" => queue'[m] # "none"
    BY StepKeeps DEF Kept
  <2>8. sweep' = sweep /\ \A s \in Sweepers : sweep[s].pc = "remove"
            => sweep[s].member[1] \in Jobs
    BY <2>1 DEF GateTo, Steps, Shape, SweepShape, Members, Jobs, Recoveries
  <2> QED
    BY <2>8, <2>9 DEF Judged
<1>3. ASSUME NEW n \in Jobs, Start(n) PROVE Judged'
  BY <1>3 DEF Start, Goto, Shape, Judged
<1>4. ASSUME NEW n \in Jobs, Checkpoint(n) PROVE Judged'
  BY <1>4 DEF Checkpoint, Shape, Judged
<1>5. ASSUME NEW n \in Jobs, Complete(n) PROVE Judged'
  BY <1>5 DEF Complete, Goto, Answer, Shape, Judged
<1>6. ASSUME NEW n \in Jobs, InfraExit(n) PROVE Judged'
  BY <1>6 DEF InfraExit, Goto, Shape, Judged
<1>7. ASSUME NEW n \in Jobs, AskPointer(n) \/ ExitAnswered(n) PROVE Judged'
  <2>1. PICK to \in {"recovering", "recording", "clearing"}, answer \in Results,
            c \in [pc : {"off", "claim", "no"}, won : BOOLEAN] : ExitTo(n, to, answer, c)
    BY <1>7, ExitEffect
  <2> QED
    BY <2>1 DEF ExitTo, Judged
<1>8. ASSUME NEW n \in Jobs, ClearStore(n) PROVE Judged'
  BY <1>8 DEF ClearStore, Goto, Shape, Judged
<1>9. ASSUME NEW n \in Jobs, ClearPointer(n) PROVE Judged'
  BY <1>9 DEF ClearPointer, Goto, Shape, Judged
<1>10. ASSUME NEW n \in Jobs, Record(n) PROVE Judged'
  BY <1>10 DEF Record, Goto, Shape, Judged
<1>11. ASSUME NEW n \in Jobs, Leave(n) PROVE Judged'
  <2>9. \A m \in Jobs : queue[m] # "none" => queue'[m] # "none"
    BY StepKeeps DEF Kept
  <2>8. sweep' = sweep /\ \A s \in Sweepers : sweep[s].pc = "remove"
            => sweep[s].member[1] \in Jobs
    BY <1>11 DEF Leave, Goto, Shape, SweepShape, Members, Jobs, Recoveries
  <2> QED
    BY <2>8, <2>9 DEF Judged
<1>12. ASSUME NEW n \in Jobs, Stall(n) PROVE Judged'
  <2>9. \A m \in Jobs : queue[m] # "none" => queue'[m] # "none"
    BY StepKeeps DEF Kept
  <2>8. sweep' = sweep /\ \A s \in Sweepers : sweep[s].pc = "remove"
            => sweep[s].member[1] \in Jobs
    BY <1>12 DEF Stall, Shape, SweepShape, Members, Jobs, Recoveries
  <2> QED
    BY <2>8, <2>9 DEF Judged
<1>13. ASSUME NEW n \in Jobs, ListenRecord(n) PROVE Judged'
  BY <1>13 DEF ListenRecord, Heard, Shape, Judged
<1>14. ASSUME NEW n \in Jobs, ListenPointer(n) PROVE Judged'
  BY <1>14 DEF ListenPointer, Heard, Ask, Shape, Judged
<1>15. ASSUME NEW n \in Jobs, ListenAnswered(n) PROVE Judged'
  BY <1>15 DEF ListenAnswered, Heard, Shape, Judged
<1>16. ASSUME NEW n \in Jobs, NEW who \in Sites, Enqueue(n, who) PROVE Judged'
  <2>1. PICK c \in [pc : {"ask", "add", "pend", "yes", "no"}, won : BOOLEAN] :
            CallTo(n, who, c)
    BY <1>16, CallEffect
  <2>2. c \in [pc : CallPlaces, won : BOOLEAN] /\ n < Cap
    BY <2>1 DEF CallTo, CallPlaces, Shape, CallShape
  <2>9. \A m \in Jobs : queue[m] # "none" => queue'[m] # "none"
    BY StepKeeps DEF Kept
  <2>8. sweep' = sweep /\ \A s \in Sweepers : sweep[s].pc = "remove"
            => sweep[s].member[1] \in Jobs
    BY <2>1 DEF CallTo, Shape, SweepShape, Members, Jobs, Recoveries
  <2> QED
    BY <2>8, <2>9 DEF Judged
<1>17. ASSUME NEW s \in Sweepers, SweepRead(s) PROVE Judged'
  <2>1. /\ \A r \in Sweepers : sweep'[r] = sweep[r] \/ (r = s /\ sweep'[s].pc # "remove")
        /\ queue' = queue
    BY <1>17 DEF SweepRead, Sweeping, Rest, TakeMember, Shape, SweepShape
  <2> QED
    BY <2>1 DEF Judged
<1>18. ASSUME NEW s \in Sweepers, SweepTake(s) PROVE Judged'
  <2>1. /\ \A r \in Sweepers : sweep'[r] = sweep[r] \/ (r = s /\ sweep'[s].pc # "remove")
        /\ queue' = queue
    BY <1>18 DEF SweepTake, Sweeping, Rest, TakeMember, Shape, SweepShape
  <2> QED
    BY <2>1 DEF Judged
<1>19. ASSUME NEW s \in Sweepers, SweepLook(s) PROVE Judged'
  <2>1. queue' = queue
    BY <1>19 DEF SweepLook
  <2>2. \A r \in Sweepers \ {s} : sweep'[r] = sweep[r]
    BY <1>19 DEF SweepLook, Sweeping, Shape, SweepShape
  <2>3. \/ Sweeping(s, "look", "rest", Rest.member)
        \/ queue[sweep[s].member[1]] = "waiting"
           /\ Sweeping(s, "look", "remove", sweep[s].member)
    BY <1>19 DEF SweepLook
  <2>4. sweep'[s].pc = "remove" => queue[sweep'[s].member[1]] = "waiting"
    <3>1. CASE Sweeping(s, "look", "rest", Rest.member)
      BY <3>1 DEF Sweeping, Shape, SweepShape
    <3>2. CASE queue[sweep[s].member[1]] = "waiting"
              /\ Sweeping(s, "look", "remove", sweep[s].member)
      BY <3>2 DEF Sweeping, Shape, SweepShape
    <3> QED
      BY <2>3, <3>1, <3>2
  <2> QED
    BY <2>1, <2>2, <2>4 DEF Judged
<1>20. ASSUME NEW s \in Sweepers, SweepRemove(s) PROVE Judged'
  <2>1. \A r \in Sweepers : sweep'[r] = sweep[r] \/ sweep'[r].pc # "remove"
    BY <1>20 DEF SweepRemove, Sweeping, Shape, SweepShape
  <2>2. \A m \in Jobs : queue[m] # "none" => queue'[m] # "none"
    BY StepKeeps DEF Kept
  <2>3. \A r \in Sweepers : sweep[r].pc = "remove" => sweep[r].member[1] \in Jobs
    BY DEF Shape, SweepShape, Members, Jobs, Recoveries
  <2> QED
    BY <2>1, <2>2, <2>3 DEF Judged
<1>21. ASSUME NEW s \in Sweepers, SweeperDies(s) PROVE Judged'
  <2>1. /\ \A r \in Sweepers : sweep'[r] = sweep[r] \/ (r = s /\ sweep'[s].pc # "remove")
        /\ queue' = queue
    BY <1>21 DEF SweeperDies, Sweeping, Rest, TakeMember, Shape, SweepShape
  <2> QED
    BY <2>1 DEF Judged
<1>22. CASE Deadline
  BY <1>22 DEF Deadline, Shape, Judged
<1>23. CASE LongestWait
  BY <1>23 DEF LongestWait, Shape, Judged
<1>24. CASE Crash
  BY <1>24 DEF Crash, Shape, Judged
<1>25. CASE Reboot
  BY <1>25 DEF Reboot, Shape, Judged
<1>26. CASE UNCHANGED vars
  BY <1>26 DEF vars, Shape, Judged
<1> QED
  BY <1>1, <1>2, <1>3, <1>4, <1>5, <1>6, <1>7, <1>8, <1>9, <1>10, <1>11, <1>12, <1>13,
     <1>14,
     <1>15, <1>16, <1>17, <1>18, <1>19, <1>20, <1>21, <1>22, <1>23, <1>24, <1>25, <1>26
  DEF Next, Work, Listener, Sweep, Sites

\* The run's own job hands over to its recoveries.
LEMMA HandedStep ==
  DurableAssumption /\ Shape /\ Callers /\ Judged /\ HandedOver
     /\ [Next]_vars => HandedOver'
<1> SUFFICES ASSUME DurableAssumption, Shape, Callers, Judged, HandedOver, [Next]_vars
             PROVE  HandedOver'
  OBVIOUS
<1> USE DEF pickup, checkpoint, enqueuing, backstop, ghosts
<1>1. ASSUME NEW n \in Jobs, Pickup(n) PROVE HandedOver'
  BY <1>1 DEF Pickup, Goto, Shape, HandedOver, Recovered, Left, Callers, Jobs, Recoveries
<1>2. ASSUME NEW n \in Jobs, Gates(n) PROVE HandedOver'
  <2>1. PICK to \in {"idle", "pointer", "manifest", "start", "recording", "clearing"},
            answer \in Results : GateTo(n, to, answer)
    BY <1>2, GateEffect
  <2> QED
    BY <2>1 DEF GateTo, Steps, Shape, HandedOver, Recovered, Left, Callers, Jobs, Recoveries
<1>3. ASSUME NEW n \in Jobs, Start(n) PROVE HandedOver'
  BY <1>3 DEF Start, Goto, Shape, HandedOver, Recovered, Left, Callers, Jobs, Recoveries
<1>4. ASSUME NEW n \in Jobs, Checkpoint(n) PROVE HandedOver'
  BY <1>4 DEF Checkpoint, Shape, HandedOver, Recovered, Left, Callers, Jobs, Recoveries
<1>5. ASSUME NEW n \in Jobs, Complete(n) PROVE HandedOver'
  BY <1>5 DEF Complete, Goto, Answer, Shape, HandedOver, Recovered, Left, Callers, Jobs,
     Recoveries
<1>6. ASSUME NEW n \in Jobs, InfraExit(n) PROVE HandedOver'
  BY <1>6 DEF InfraExit, Goto, Shape, HandedOver, Recovered, Left, Callers, Jobs, Recoveries
<1>7. ASSUME NEW n \in Jobs, AskPointer(n) \/ ExitAnswered(n) PROVE HandedOver'
  <2>1. PICK to \in {"recovering", "recording", "clearing"}, answer \in Results,
            c \in [pc : {"off", "claim", "no"}, won : BOOLEAN] : ExitTo(n, to, answer, c)
    BY <1>7, ExitEffect
  <2>2. c \in [pc : CallPlaces, won : BOOLEAN] /\ "exit" \in Sites
    BY DEF CallPlaces, Sites
  <2>3. /\ \A m \in Jobs, w \in Sites : m # n \/ w # "exit" => call'[m][w] = call[m][w]
        /\ call'[n]["exit"].pc # "off" => to = "recovering"
    <3>1. CASE at[n] = "asking" /\ call' = call
      BY <3>1 DEF Callers
    <3>2. CASE Called(n, "exit", c)
      <4>0. CallShape /\ (c.pc \notin {"off", "no"} => n < Cap)
        BY <2>1 DEF ExitTo, Shape
      <4>1. /\ call'[n]["exit"] = c
            /\ \A m \in Jobs, w \in Sites : m # n \/ w # "exit" => call'[m][w] = call[m][w]
        BY <2>2, <3>2, <4>0, CallsKept
      <4> QED
        BY <2>1, <4>1 DEF ExitTo
    <3> QED
      BY <2>1, <3>1, <3>2 DEF ExitTo
  <2>4. /\ at'[n] = to /\ result'[n] = answer
        /\ \A m \in Jobs \ {n} : at'[m] = at[m] /\ result'[m] = result[m]
    BY <2>1 DEF ExitTo, Steps, Shape
  <2>5. UNCHANGED <<queue, listener, beside>> /\ at[n] \in {"asking", "recovering"}
    BY <2>1 DEF ExitTo
  <2>0. 0 \in Jobs /\ 0 \notin Recoveries /\ Recoveries \subseteq Jobs
    BY DurableAssumption DEF Jobs, Recoveries, DurableAssumption
  <2>6. Left => queue[0] \in {"stalled", "settled", "active"}
    BY DEF Left
  <2>7. CASE n # 0
    <3>1. /\ at'[0] = at[0] /\ result'[0] = result[0]
          /\ call'[0]["exit"] = call[0]["exit"]
      BY <2>0, <2>3, <2>4, <2>7 DEF Sites
    <3> QED
      BY <2>5, <3>1 DEF HandedOver, Recovered, Left
  <2>8. CASE n = 0
    <3>1. Left => \/ queue[0] \in {"stalled", "settled"}
                  \/ at[0] = "recovering" /\ call[0]["exit"].pc = "yes"
                     /\ queue[0] = "active"
      BY <2>1, <2>8 DEF ExitTo, Left
    <3>2. at[0] = "recovering" /\ call[0]["exit"].pc = "yes"
            => at'[0] = "recording" /\ result'[0] = "continued"
      BY <2>1, <2>4, <2>8 DEF ExitTo
    <3>3. Left => Left'
      BY <2>5, <3>1, <3>2 DEF Left
    <3> QED
      BY <2>5, <3>3 DEF HandedOver, Recovered
  <2> QED
    BY <2>7, <2>8
<1>8. ASSUME NEW n \in Jobs, ClearStore(n) PROVE HandedOver'
  BY <1>8 DEF ClearStore, Goto, Shape, HandedOver, Recovered, Left, Callers, Jobs,
     Recoveries
<1>9. ASSUME NEW n \in Jobs, ClearPointer(n) PROVE HandedOver'
  BY <1>9 DEF ClearPointer, Goto, Shape, HandedOver, Recovered, Left, Callers, Jobs,
     Recoveries
<1>10. ASSUME NEW n \in Jobs, Record(n) PROVE HandedOver'
  BY <1>10 DEF Record, Goto, Shape, HandedOver, Recovered, Left, Callers, Jobs, Recoveries
<1>11. ASSUME NEW n \in Jobs, Leave(n) PROVE HandedOver'
  <2>1. at[n] = "leaving" /\ at'[n] = "idle" /\ \A m \in Jobs \ {n} : at'[m] = at[m]
    BY <1>11 DEF Leave, Goto, Shape
  <2>2. UNCHANGED <<call, listener, beside>>
            /\ \A m \in Jobs \ {n} : queue'[m] = queue[m] /\ result'[m] = result[m]
    BY <1>11 DEF Leave, Shape
  <2>3. queue[n] # "active" => queue'[n] = queue[n]
    BY <1>11 DEF Leave
  <2>4. queue[n] = "active" => queue'[n] = "settled"
            \/ (queue'[n] = "waiting" /\ result[n] = "retry")
    BY <1>11 DEF Leave, Shape
  <2>0. 0 \in Jobs /\ 0 \notin Recoveries /\ Recoveries \subseteq Jobs
    BY DurableAssumption DEF Jobs, Recoveries, DurableAssumption
  <2>5. Recovered' => Recovered
    BY <2>0, <2>2, <2>3, <2>4 DEF Recovered
  <2>6. CASE n # 0
    <3>1. queue'[0] = queue[0] /\ at'[0] = at[0] /\ result'[0] = result[0] /\ call' = call
      BY <2>0, <2>1, <2>2, <2>6
    <3> QED
      BY <2>2, <2>5, <3>1 DEF HandedOver, Left
  <2>7. CASE n = 0
    <3>1. Left => queue[0] \in {"stalled", "settled"}
              \/ (queue[0] = "active" /\ result[0] = "continued")
      BY <2>1, <2>7 DEF Left
    <3>2. Left => Left'
      BY <2>3, <2>4, <2>7, <3>1 DEF Left
    <3> QED
      BY <2>2, <2>5, <3>2 DEF HandedOver
  <2> QED
    BY <2>6, <2>7
<1>12. ASSUME NEW n \in Jobs, Stall(n) PROVE HandedOver'
  BY <1>12 DEF Stall, Shape, HandedOver, Recovered, Left, Callers, Jobs, Recoveries
<1>13. ASSUME NEW n \in Jobs, ListenRecord(n) PROVE HandedOver'
  BY <1>13 DEF ListenRecord, Heard, Shape, HandedOver, Recovered, Left, Callers, Jobs,
     Recoveries
<1>14. ASSUME NEW n \in Jobs, ListenPointer(n) PROVE HandedOver'
  <2>1. UNCHANGED <<queue, at, result, beside>>
    BY <1>14 DEF ListenPointer
  <2>2. call'[0]["exit"] = call[0]["exit"]
    <3>1. CASE UNCHANGED call
      BY <3>1
    <3>2. CASE Ask(n, "stall")
      <4>1. PICK c \in [pc : {"claim", "no"}, won : BOOLEAN] :
              Called(n, "stall", c)
        BY <3>2, CallBegins DEF Sites
      <4> QED
        BY <4>1 DEF Called, Shape, CallShape, Sites
    <3> QED
      BY <1>14, <3>1, <3>2 DEF ListenPointer
  <2> QED
    BY <2>1, <2>2 DEF HandedOver, Recovered, Left
<1>15. ASSUME NEW n \in Jobs, ListenAnswered(n) PROVE HandedOver'
  BY <1>15 DEF ListenAnswered, Heard, Shape, HandedOver, Recovered, Left, Callers, Jobs,
     Recoveries
<1>16. ASSUME NEW n \in Jobs, NEW who \in Sites, Enqueue(n, who) PROVE HandedOver'
  <2>1. PICK c \in [pc : {"ask", "add", "pend", "yes", "no"}, won : BOOLEAN] :
            CallTo(n, who, c)
    BY <1>16, CallEffect
  <2>2. c \in [pc : CallPlaces, won : BOOLEAN] /\ n < Cap
    BY <2>1 DEF CallTo, CallPlaces, Shape, CallShape
  <2>3. /\ \A m \in Jobs, w \in Sites : m # n \/ w # who => call'[m][w] = call[m][w]
        /\ call'[n][who] = c
    <3>1. CallShape /\ Called(n, who, c)
      BY <2>1 DEF CallTo, Shape
    <3> QED
      BY <2>2, <3>1, CallsKept
  <2>4. n + 1 \in Recoveries /\ n + 1 \in Jobs /\ n + 1 # 0
    BY <2>2, DurableAssumption DEF Jobs, Recoveries, DurableAssumption
  <2>5. UNCHANGED <<at, result, listener>> /\ (beside => beside')
            /\ call[n][who].pc \in {"claim", "ask", "add", "pend"}
    BY <2>1 DEF CallTo
  <2>6. /\ queue' # queue => call[n][who].pc = "add" /\ (c.pc = "pend" \/ beside')
        /\ \A m \in Jobs : queue'[m] = queue[m] \/ (queue'[m] = "waiting" /\ m # 0)
    BY <2>1, <2>4 DEF CallTo, Shape
  <2>0. 0 \in Jobs /\ 0 \notin Recoveries /\ Recoveries \subseteq Jobs
    BY DurableAssumption DEF Jobs, Recoveries, DurableAssumption
  <2>7. queue'[0] = queue[0] /\ (Left => queue[0] \in {"stalled", "settled", "active"})
    BY <2>0, <2>6 DEF Left
  <2>8. Left => Left'
    <3>1. call[0]["exit"].pc \in {"pend", "yes"} => call'[0]["exit"].pc \in {"pend", "yes"}
      <4>1. CASE n = 0 /\ who = "exit"
        BY <2>1, <2>3, <4>1 DEF CallTo
      <4>2. CASE ~(n = 0 /\ who = "exit")
        BY <2>0, <2>3, <4>2 DEF Sites
      <4> QED
        BY <4>1, <4>2
    <3> QED
      BY <2>5, <2>7, <3>1 DEF Left
  <2>9. CASE queue' = queue
    BY <2>5, <2>8, <2>9 DEF HandedOver, Recovered
  <2>10. CASE queue' # queue
    <3> SUFFICES ASSUME ~beside, ~beside' PROVE Left'
      BY <2>5 DEF HandedOver
    <3>1. call[n][who].pc = "add" /\ c.pc = "pend"
      BY <2>6, <2>10
    <3>2. CASE n # 0
      <4>1. queue[n] # "none"
        BY <3>1 DEF Callers, Sites
      <4>2. n \in Recoveries
        BY <3>2 DEF Jobs, Recoveries
      <4> QED
        BY <2>8, <4>1, <4>2 DEF HandedOver, Recovered
    <3>3. CASE n = 0 /\ who = "stall"
      BY <2>7, <3>1, <3>3 DEF Callers, Left
    <3>4. CASE n = 0 /\ who = "exit"
      <4>1. at[0] = "recovering" /\ queue[0] \in {"active", "stalled"}
        BY <2>0, <3>1, <3>4 DEF Callers
      <4>2. call'[0]["exit"].pc = "pend" /\ at' = at
        BY <2>3, <2>5, <3>1, <3>4
      <4> QED
        BY <2>7, <4>1, <4>2 DEF Left
    <3> QED
      BY <3>2, <3>3, <3>4 DEF Sites
  <2> QED
    BY <2>9, <2>10
<1>17. ASSUME NEW s \in Sweepers, SweepRead(s) PROVE HandedOver'
  BY <1>17 DEF SweepRead, Sweeping, Shape, HandedOver, Recovered, Left, Callers, Jobs,
     Recoveries
<1>18. ASSUME NEW s \in Sweepers, SweepTake(s) PROVE HandedOver'
  BY <1>18 DEF SweepTake, TakeMember, Sweeping, Shape, HandedOver, Recovered, Left,
     Callers, Jobs, Recoveries
<1>19. ASSUME NEW s \in Sweepers, SweepLook(s) PROVE HandedOver'
  BY <1>19 DEF SweepLook, Sweeping, Shape, HandedOver, Recovered, Left, Callers, Jobs,
     Recoveries
<1>20. ASSUME NEW s \in Sweepers, SweepRemove(s) PROVE HandedOver'
  <2>1. sweep[s].member[1] \in Recoveries
    BY <1>20 DEF SweepRemove, Sweeping, Shape, SweepShape, Members
  <2>2. UNCHANGED <<at, call, listener, result, beside>>
    BY <1>20 DEF SweepRemove
  <2>3. 0 \notin Recoveries
    BY DEF Recoveries
  <2>0. 0 \in Jobs /\ 0 \notin Recoveries /\ Recoveries \subseteq Jobs
    BY DurableAssumption DEF Jobs, Recoveries, DurableAssumption
  <2>4. queue'[0] = queue[0]
    BY <1>20, <2>0, <2>1 DEF SweepRemove, Shape
  <2>5. queue[sweep[s].member[1]] # "none"
    BY <1>20 DEF SweepRemove, Sweeping, Judged
  <2>6. Recovered
    BY <2>1, <2>5 DEF Recovered
  <2> QED
    BY <2>2, <2>4, <2>6 DEF HandedOver, Left
<1>21. ASSUME NEW s \in Sweepers, SweeperDies(s) PROVE HandedOver'
  BY <1>21 DEF SweeperDies, Shape, HandedOver, Recovered, Left, Callers, Jobs, Recoveries
<1>22. CASE Deadline
  BY <1>22 DEF Deadline, Shape, HandedOver, Recovered, Left, Callers, Jobs, Recoveries
<1>23. CASE LongestWait
  BY <1>23 DEF LongestWait, Shape, HandedOver, Recovered, Left, Callers, Jobs, Recoveries
<1>24. CASE Crash
  <2>1. \A n \in Jobs : at'[n] = "idle"
    BY <1>24 DEF Crash
  <2>2. queue' = queue /\ beside' = beside
    BY <1>24 DEF Crash
  <2>0. 0 \in Jobs /\ 0 \notin Recoveries /\ Recoveries \subseteq Jobs
    BY DurableAssumption DEF Jobs, Recoveries, DurableAssumption
  <2>3. Left => queue[0] \in {"stalled", "settled", "active"}
    BY DEF Left
  <2>4. Left => Left'
    BY <2>0, <2>1, <2>2, <2>3 DEF Left
  <2> QED
    BY <2>2, <2>4 DEF HandedOver, Recovered
<1>25. CASE Reboot
  BY <1>25 DEF Reboot, Shape, HandedOver, Recovered, Left, Callers, Jobs, Recoveries
<1>26. CASE UNCHANGED vars
  BY <1>26 DEF vars, Shape, HandedOver, Recovered, Left, Callers, Jobs, Recoveries
<1> QED
  BY <1>1, <1>2, <1>3, <1>4, <1>5, <1>6, <1>7, <1>8, <1>9, <1>10, <1>11, <1>12, <1>13,
     <1>14,
     <1>15, <1>16, <1>17, <1>18, <1>19, <1>20, <1>21, <1>22, <1>23, <1>24, <1>25, <1>26
  DEF Next, Work, Listener, Sweep, Sites

\* A recovery waits for the others, and the run's own job does not come back.
LEMMA AloneStep == Shape /\ Callers /\ HandedOver /\ Alone /\ [Next]_vars => Alone'
<1> SUFFICES ASSUME Shape, Callers, HandedOver, Alone, [Next]_vars PROVE Alone'
  OBVIOUS
<1> USE DEF pickup, checkpoint, enqueuing, backstop, ghosts, Shape, Callers, HandedOver,
          Recovered, Left, Alone, Deep, Jobs, Recoveries
<1>1. ASSUME NEW n \in Jobs, Pickup(n) PROVE Alone'
  BY <1>1 DEF Pickup, Goto
<1>2. ASSUME NEW n \in Jobs, Gates(n) PROVE Alone'
  <2>1. PICK to \in {"idle", "pointer", "manifest", "start", "recording", "clearing"},
            answer \in Results : GateTo(n, to, answer)
    BY <1>2, GateEffect
  <2>2. at'[n] = to /\ \A m \in Jobs \ {n} : at'[m] = at[m]
    BY <2>1 DEF GateTo, Steps
  <2>3. /\ to \in {"start", "clearing"} => at[n] = "manifest"
        /\ to = "manifest" => \A m \in Jobs \ {n} : at[m] = "idle"
        /\ UNCHANGED beside
    BY <2>1 DEF GateTo
  <2> QED
    BY <2>2, <2>3
<1>3. ASSUME NEW n \in Jobs, Start(n) PROVE Alone'
  BY <1>3 DEF Start, Goto
<1>4. ASSUME NEW n \in Jobs, Checkpoint(n) PROVE Alone'
  BY <1>4 DEF Checkpoint
<1>5. ASSUME NEW n \in Jobs, Complete(n) PROVE Alone'
  BY <1>5 DEF Complete, Goto, Answer
<1>6. ASSUME NEW n \in Jobs, InfraExit(n) PROVE Alone'
  BY <1>6 DEF InfraExit, Goto
<1>7. ASSUME NEW n \in Jobs, AskPointer(n) \/ ExitAnswered(n) PROVE Alone'
  <2>1. PICK to \in {"recovering", "recording", "clearing"}, answer \in Results,
            c \in [pc : {"off", "claim", "no"}, won : BOOLEAN] : ExitTo(n, to, answer, c)
    BY <1>7, ExitEffect
  <2> QED
    BY <2>1 DEF ExitTo, Steps
<1>8. ASSUME NEW n \in Jobs, ClearStore(n) PROVE Alone'
  BY <1>8 DEF ClearStore, Goto
<1>9. ASSUME NEW n \in Jobs, ClearPointer(n) PROVE Alone'
  BY <1>9 DEF ClearPointer, Goto
<1>10. ASSUME NEW n \in Jobs, Record(n) PROVE Alone'
  BY <1>10 DEF Record, Goto
<1>11. ASSUME NEW n \in Jobs, Leave(n) PROVE Alone'
  BY <1>11 DEF Leave, Goto
<1>12. ASSUME NEW n \in Jobs, Stall(n) PROVE Alone'
  BY <1>12 DEF Stall
<1>13. ASSUME NEW n \in Jobs, ListenRecord(n) PROVE Alone'
  BY <1>13 DEF ListenRecord, Heard
<1>14. ASSUME NEW n \in Jobs, ListenPointer(n) PROVE Alone'
  BY <1>14 DEF ListenPointer, Heard, Ask
<1>15. ASSUME NEW n \in Jobs, ListenAnswered(n) PROVE Alone'
  BY <1>15 DEF ListenAnswered, Heard
<1>16. ASSUME NEW n \in Jobs, NEW who \in Sites, Enqueue(n, who) PROVE Alone'
  <2>1. PICK c \in [pc : {"ask", "add", "pend", "yes", "no"}, won : BOOLEAN] :
            CallTo(n, who, c)
    BY <1>16, CallEffect
  <2> QED
    BY <2>1 DEF CallTo
<1>17. ASSUME NEW s \in Sweepers, SweepRead(s) PROVE Alone'
  BY <1>17 DEF SweepRead, Sweeping
<1>18. ASSUME NEW s \in Sweepers, SweepTake(s) PROVE Alone'
  BY <1>18 DEF SweepTake, TakeMember, Sweeping
<1>19. ASSUME NEW s \in Sweepers, SweepLook(s) PROVE Alone'
  BY <1>19 DEF SweepLook, Sweeping
<1>20. ASSUME NEW s \in Sweepers, SweepRemove(s) PROVE Alone'
  BY <1>20 DEF SweepRemove, Sweeping
<1>21. ASSUME NEW s \in Sweepers, SweeperDies(s) PROVE Alone'
  BY <1>21 DEF SweeperDies
<1>22. CASE Deadline
  BY <1>22 DEF Deadline
<1>23. CASE LongestWait
  BY <1>23 DEF LongestWait
<1>24. CASE Crash
  BY <1>24 DEF Crash
<1>25. CASE Reboot
  BY <1>25 DEF Reboot
<1>26. CASE UNCHANGED vars
  BY <1>26 DEF vars
<1> QED
  BY <1>1, <1>2, <1>3, <1>4, <1>5, <1>6, <1>7, <1>8, <1>9, <1>10, <1>11, <1>12, <1>13,
     <1>14,
     <1>15, <1>16, <1>17, <1>18, <1>19, <1>20, <1>21, <1>22, <1>23, <1>24, <1>25, <1>26
  DEF Next, Work, Listener, Sweep, Sites

\* A live worker knows its containers, and a dead one's are stopped at its boot.
LEMMA BoxedStep == Shape /\ Callers /\ Alone /\ Boxed /\ [Next]_vars => Boxed'
<1> SUFFICES ASSUME Shape, Callers, Alone, Boxed, [Next]_vars PROVE Boxed'
  OBVIOUS
<1> USE DEF pickup, checkpoint, enqueuing, backstop, ghosts, Shape, Alone, Boxed, Deep
<1>1. ASSUME NEW n \in Jobs, Pickup(n) PROVE Boxed'
  BY <1>1 DEF Pickup, Goto
<1>2. ASSUME NEW n \in Jobs, Gates(n) PROVE Boxed'
  <2>1. PICK to \in {"idle", "pointer", "manifest", "start", "recording", "clearing"},
            answer \in Results : GateTo(n, to, answer)
    BY <1>2, GateEffect
  <2> QED
    BY <2>1 DEF GateTo, Steps
<1>3. ASSUME NEW n \in Jobs, Start(n) PROVE Boxed'
  BY <1>3 DEF Start, Goto
<1>4. ASSUME NEW n \in Jobs, Checkpoint(n) PROVE Boxed'
  BY <1>4 DEF Checkpoint
<1>5. ASSUME NEW n \in Jobs, Complete(n) PROVE Boxed'
  BY <1>5 DEF Complete, Goto, Answer
<1>6. ASSUME NEW n \in Jobs, InfraExit(n) PROVE Boxed'
  BY <1>6 DEF InfraExit, Goto
<1>7. ASSUME NEW n \in Jobs, AskPointer(n) \/ ExitAnswered(n) PROVE Boxed'
  <2>1. PICK to \in {"recovering", "recording", "clearing"}, answer \in Results,
            c \in [pc : {"off", "claim", "no"}, won : BOOLEAN] : ExitTo(n, to, answer, c)
    BY <1>7, ExitEffect
  <2> QED
    BY <2>1 DEF ExitTo, Steps
<1>8. ASSUME NEW n \in Jobs, ClearStore(n) PROVE Boxed'
  BY <1>8 DEF ClearStore, Goto
<1>9. ASSUME NEW n \in Jobs, ClearPointer(n) PROVE Boxed'
  BY <1>9 DEF ClearPointer, Goto
<1>10. ASSUME NEW n \in Jobs, Record(n) PROVE Boxed'
  BY <1>10 DEF Record, Goto
<1>11. ASSUME NEW n \in Jobs, Leave(n) PROVE Boxed'
  BY <1>11 DEF Leave, Goto
<1>12. ASSUME NEW n \in Jobs, Stall(n) PROVE Boxed'
  BY <1>12 DEF Stall
<1>13. ASSUME NEW n \in Jobs, ListenRecord(n) PROVE Boxed'
  BY <1>13 DEF ListenRecord, Heard
<1>14. ASSUME NEW n \in Jobs, ListenPointer(n) PROVE Boxed'
  BY <1>14 DEF ListenPointer, Heard, Ask
<1>15. ASSUME NEW n \in Jobs, ListenAnswered(n) PROVE Boxed'
  BY <1>15 DEF ListenAnswered, Heard
<1>16. ASSUME NEW n \in Jobs, NEW who \in Sites, Enqueue(n, who) PROVE Boxed'
  <2>1. PICK c \in [pc : {"ask", "add", "pend", "yes", "no"}, won : BOOLEAN] :
            CallTo(n, who, c)
    BY <1>16, CallEffect
  <2> QED
    BY <2>1 DEF CallTo
<1>17. ASSUME NEW s \in Sweepers, SweepRead(s) PROVE Boxed'
  BY <1>17 DEF SweepRead, Sweeping
<1>18. ASSUME NEW s \in Sweepers, SweepTake(s) PROVE Boxed'
  BY <1>18 DEF SweepTake, TakeMember, Sweeping
<1>19. ASSUME NEW s \in Sweepers, SweepLook(s) PROVE Boxed'
  BY <1>19 DEF SweepLook, Sweeping
<1>20. ASSUME NEW s \in Sweepers, SweepRemove(s) PROVE Boxed'
  BY <1>20 DEF SweepRemove, Sweeping
<1>21. ASSUME NEW s \in Sweepers, SweeperDies(s) PROVE Boxed'
  BY <1>21 DEF SweeperDies
<1>22. CASE Deadline
  BY <1>22 DEF Deadline
<1>23. CASE LongestWait
  BY <1>23 DEF LongestWait
<1>24. CASE Crash
  BY <1>24 DEF Crash
<1>25. CASE Reboot
  BY <1>25 DEF Reboot
<1>26. CASE UNCHANGED vars
  BY <1>26 DEF vars
<1> QED
  BY <1>1, <1>2, <1>3, <1>4, <1>5, <1>6, <1>7, <1>8, <1>9, <1>10, <1>11, <1>12, <1>13,
     <1>14,
     <1>15, <1>16, <1>17, <1>18, <1>19, <1>20, <1>21, <1>22, <1>23, <1>24, <1>25, <1>26
  DEF Next, Work, Listener, Sweep, Sites

\* Every step spends a disturbance or none.
LEMMA Disturbed == [Next]_vars => Paid
<1> SUFFICES ASSUME [Next]_vars PROVE Paid
  OBVIOUS
<1> USE DEF pickup, checkpoint, enqueuing, backstop, ghosts
<1>1. ASSUME NEW n \in Jobs, Pickup(n) PROVE Paid
  BY <1>1 DEF Pickup, Kinds, Paid
<1>2. ASSUME NEW n \in Jobs, Gates(n) PROVE Paid
  BY <1>2 DEF Gates, ReadRecord, ReadPointer, ReadManifest, Hold, Kinds, Paid
<1>3. ASSUME NEW n \in Jobs, Start(n) PROVE Paid
  BY <1>3 DEF Start, Kinds, Paid
<1>4. ASSUME NEW n \in Jobs, Checkpoint(n) PROVE Paid
  BY <1>4 DEF Checkpoint, Kinds, Paid
<1>5. ASSUME NEW n \in Jobs, Complete(n) PROVE Paid
  BY <1>5 DEF Complete, Kinds, Paid
<1>6. ASSUME NEW n \in Jobs, InfraExit(n) PROVE Paid
  BY <1>6 DEF InfraExit, Kinds, Paid
<1>7. ASSUME NEW n \in Jobs, AskPointer(n) \/ ExitAnswered(n) PROVE Paid
  BY <1>7 DEF AskPointer, ExitAnswered, Kinds, Paid
<1>8. ASSUME NEW n \in Jobs, ClearStore(n) PROVE Paid
  BY <1>8 DEF ClearStore, Kinds, Paid
<1>9. ASSUME NEW n \in Jobs, ClearPointer(n) PROVE Paid
  BY <1>9 DEF ClearPointer, Kinds, Paid
<1>10. ASSUME NEW n \in Jobs, Record(n) PROVE Paid
  BY <1>10 DEF Record, Kinds, Paid
<1>11. ASSUME NEW n \in Jobs, Leave(n) PROVE Paid
  BY <1>11 DEF Leave, Kinds, Paid
<1>12. ASSUME NEW n \in Jobs, Stall(n) PROVE Paid
  BY <1>12 DEF Stall, Kinds, Paid
<1>13. ASSUME NEW n \in Jobs, ListenRecord(n) PROVE Paid
  BY <1>13 DEF ListenRecord, Kinds, Paid
<1>14. ASSUME NEW n \in Jobs, ListenPointer(n) PROVE Paid
  BY <1>14 DEF ListenPointer, Kinds, Paid
<1>15. ASSUME NEW n \in Jobs, ListenAnswered(n) PROVE Paid
  BY <1>15 DEF ListenAnswered, Kinds, Paid
<1>16. ASSUME NEW n \in Jobs, NEW who \in Sites, Enqueue(n, who) PROVE Paid
  BY <1>16 DEF Enqueue, Claim, AskJob, LoserAsks, Add, Pend, Kinds, Paid
<1>17. ASSUME NEW s \in Sweepers, SweepRead(s) PROVE Paid
  BY <1>17 DEF SweepRead, Kinds, Paid
<1>18. ASSUME NEW s \in Sweepers, SweepTake(s) PROVE Paid
  BY <1>18 DEF SweepTake, Kinds, Paid
<1>19. ASSUME NEW s \in Sweepers, SweepLook(s) PROVE Paid
  BY <1>19 DEF SweepLook, Kinds, Paid
<1>20. ASSUME NEW s \in Sweepers, SweepRemove(s) PROVE Paid
  BY <1>20 DEF SweepRemove, Kinds, Paid
<1>21. ASSUME NEW s \in Sweepers, SweeperDies(s) PROVE Paid
  BY <1>21 DEF SweeperDies, Kinds, Paid
<1>22. CASE Deadline
  BY <1>22 DEF Deadline, Kinds, Paid
<1>23. CASE LongestWait
  BY <1>23 DEF LongestWait, Kinds, Paid
<1>24. CASE Crash
  BY <1>24 DEF Crash, Kinds, Paid
<1>25. CASE Reboot
  BY <1>25 DEF Reboot, Kinds, Paid
<1>26. CASE UNCHANGED vars
  BY <1>26 DEF vars, Paid
<1> QED
  BY <1>1, <1>2, <1>3, <1>4, <1>5, <1>6, <1>7, <1>8, <1>9, <1>10, <1>11, <1>12, <1>13,
     <1>14,
     <1>15, <1>16, <1>17, <1>18, <1>19, <1>20, <1>21, <1>22, <1>23, <1>24, <1>25, <1>26
  DEF Next, Work, Listener, Sweep, Sites

\* What a job leaves on record.
LEMMA EndedStep == Shape /\ Ended /\ [Next]_vars => Ended'
<1> SUFFICES ASSUME Shape, Ended, [Next]_vars PROVE Ended'
  OBVIOUS
<1> USE DEF pickup, checkpoint, enqueuing, backstop, ghosts
<1>1. ASSUME NEW n \in Jobs, Pickup(n) PROVE Ended'
  BY <1>1 DEF Pickup, Goto, Shape, Ended, Results
<1>2. ASSUME NEW n \in Jobs, Gates(n) PROVE Ended'
  <2>1. PICK to \in {"idle", "pointer", "manifest", "start", "recording", "clearing"},
            answer \in Results : GateTo(n, to, answer)
    BY <1>2, GateEffect
  <2> QED
    BY <2>1 DEF GateTo, Steps, Shape, Ended, Results
<1>3. ASSUME NEW n \in Jobs, Start(n) PROVE Ended'
  BY <1>3 DEF Start, Goto, Shape, Ended, Results
<1>4. ASSUME NEW n \in Jobs, Checkpoint(n) PROVE Ended'
  BY <1>4 DEF Checkpoint, Shape, Ended, Results
<1>5. ASSUME NEW n \in Jobs, Complete(n) PROVE Ended'
  BY <1>5 DEF Complete, Goto, Answer, Shape, Ended, Results
<1>6. ASSUME NEW n \in Jobs, InfraExit(n) PROVE Ended'
  BY <1>6 DEF InfraExit, Goto, Shape, Ended, Results
<1>7. ASSUME NEW n \in Jobs, AskPointer(n) \/ ExitAnswered(n) PROVE Ended'
  <2>1. PICK to \in {"recovering", "recording", "clearing"}, answer \in Results,
            c \in [pc : {"off", "claim", "no"}, won : BOOLEAN] : ExitTo(n, to, answer, c)
    BY <1>7, ExitEffect
  <2>2. /\ at'[n] = to /\ result'[n] = answer /\ record' = record
        /\ \A m \in Jobs \ {n} : at'[m] = at[m] /\ result'[m] = result[m]
    BY <2>1 DEF ExitTo, Steps, Shape
  <2>3. (to # "recovering" => answer # "none")
            /\ (n # 0 => answer # "retry" \/ answer = result[n])
    BY <2>1 DEF ExitTo
  <2>4. Recoveries = Jobs \ {0}
    BY DEF Jobs, Recoveries
  <2> QED
    BY <2>2, <2>3, <2>4 DEF Ended
<1>8. ASSUME NEW n \in Jobs, ClearStore(n) PROVE Ended'
  BY <1>8 DEF ClearStore, Goto, Shape, Ended, Results
<1>9. ASSUME NEW n \in Jobs, ClearPointer(n) PROVE Ended'
  BY <1>9 DEF ClearPointer, Goto, Shape, Ended, Results
<1>10. ASSUME NEW n \in Jobs, Record(n) PROVE Ended'
  BY <1>10 DEF Record, Goto, Shape, Ended, Results
<1>11. ASSUME NEW n \in Jobs, Leave(n) PROVE Ended'
  BY <1>11 DEF Leave, Goto, Shape, Ended, Results
<1>12. ASSUME NEW n \in Jobs, Stall(n) PROVE Ended'
  BY <1>12 DEF Stall, Shape, Ended, Results
<1>13. ASSUME NEW n \in Jobs, ListenRecord(n) PROVE Ended'
  BY <1>13 DEF ListenRecord, Heard, Shape, Ended, Results
<1>14. ASSUME NEW n \in Jobs, ListenPointer(n) PROVE Ended'
  BY <1>14 DEF ListenPointer, Heard, Ask, Shape, Ended, Results
<1>15. ASSUME NEW n \in Jobs, ListenAnswered(n) PROVE Ended'
  <2>1. UNCHANGED <<at, result>> /\ (record' = record
            \/ record' = [record EXCEPT ![n] = "continued"])
    BY <1>15 DEF ListenAnswered
  <2>2. Recoveries \subseteq Jobs
    BY DEF Jobs, Recoveries
  <2> QED
    BY <2>1, <2>2 DEF Ended, Results
<1>16. ASSUME NEW n \in Jobs, NEW who \in Sites, Enqueue(n, who) PROVE Ended'
  <2>1. PICK c \in [pc : {"ask", "add", "pend", "yes", "no"}, won : BOOLEAN] :
            CallTo(n, who, c)
    BY <1>16, CallEffect
  <2>2. UNCHANGED <<at, result, record>>
    BY <2>1 DEF CallTo
  <2> QED
    BY <2>2 DEF Ended
<1>17. ASSUME NEW s \in Sweepers, SweepRead(s) PROVE Ended'
  BY <1>17 DEF SweepRead, Sweeping, Shape, Ended, Results
<1>18. ASSUME NEW s \in Sweepers, SweepTake(s) PROVE Ended'
  BY <1>18 DEF SweepTake, TakeMember, Sweeping, Shape, Ended, Results
<1>19. ASSUME NEW s \in Sweepers, SweepLook(s) PROVE Ended'
  BY <1>19 DEF SweepLook, Sweeping, Shape, Ended, Results
<1>20. ASSUME NEW s \in Sweepers, SweepRemove(s) PROVE Ended'
  <2>1. /\ UNCHANGED <<at, result>>
        /\ record' = record \/ \E m : record' = [record EXCEPT ![m] = "lost"]
    BY <1>20 DEF SweepRemove
  <2>2. Recoveries \subseteq Jobs
    BY DEF Jobs, Recoveries
  <2> QED
    BY <2>1, <2>2 DEF Ended, Results
<1>21. ASSUME NEW s \in Sweepers, SweeperDies(s) PROVE Ended'
  BY <1>21 DEF SweeperDies, Shape, Ended, Results
<1>22. CASE Deadline
  BY <1>22 DEF Deadline, Shape, Ended, Results
<1>23. CASE LongestWait
  BY <1>23 DEF LongestWait, Shape, Ended, Results
<1>24. CASE Crash
  <2>1. record' = record /\ \A n \in Jobs : at'[n] = "idle" /\ result'[n] = "none"
    BY <1>24 DEF Crash
  <2>2. Recoveries \subseteq Jobs
    BY DEF Jobs, Recoveries
  <2> QED
    BY <2>1, <2>2 DEF Ended
<1>25. CASE Reboot
  BY <1>25 DEF Reboot, Shape, Ended, Results
<1>26. CASE UNCHANGED vars
  BY <1>26 DEF vars, Shape, Ended, Results
<1> QED
  BY <1>1, <1>2, <1>3, <1>4, <1>5, <1>6, <1>7, <1>8, <1>9, <1>10, <1>11, <1>12, <1>13,
     <1>14,
     <1>15, <1>16, <1>17, <1>18, <1>19, <1>20, <1>21, <1>22, <1>23, <1>24, <1>25, <1>26
  DEF Next, Work, Listener, Sweep, Sites

\* A listener that calls is the only one of its job that does.
LEMMA ListenedStep ==
  DurableAssumption /\ Shape /\ Callers /\ Ended /\ Listened /\ [Next]_vars => Listened'
<1> SUFFICES ASSUME DurableAssumption, Shape, Callers, Ended, Listened, [Next]_vars
             PROVE  Listened'
  OBVIOUS
<1> USE DEF pickup, checkpoint, enqueuing, backstop, ghosts
<1>1. ASSUME NEW n \in Jobs, Pickup(n) PROVE Listened'
  BY <1>1 DEF Pickup, Goto, Shape, Callers, Ended, Listened, Jobs, Recoveries
<1>2. ASSUME NEW n \in Jobs, Gates(n) PROVE Listened'
  <2>1. PICK to \in {"idle", "pointer", "manifest", "start", "recording", "clearing"},
            answer \in Results : GateTo(n, to, answer)
    BY <1>2, GateEffect
  <2> QED
    BY <2>1 DEF GateTo, Steps, Shape, Callers, Ended, Listened, Jobs, Recoveries
<1>3. ASSUME NEW n \in Jobs, Start(n) PROVE Listened'
  BY <1>3 DEF Start, Goto, Shape, Callers, Ended, Listened, Jobs, Recoveries
<1>4. ASSUME NEW n \in Jobs, Checkpoint(n) PROVE Listened'
  BY <1>4 DEF Checkpoint, Shape, Callers, Ended, Listened, Jobs, Recoveries
<1>5. ASSUME NEW n \in Jobs, Complete(n) PROVE Listened'
  BY <1>5 DEF Complete, Goto, Answer, Shape, Callers, Ended, Listened, Jobs, Recoveries
<1>6. ASSUME NEW n \in Jobs, InfraExit(n) PROVE Listened'
  BY <1>6 DEF InfraExit, Goto, Shape, Callers, Ended, Listened, Jobs, Recoveries
<1>7. ASSUME NEW n \in Jobs, AskPointer(n) \/ ExitAnswered(n) PROVE Listened'
  <2>1. PICK to \in {"recovering", "recording", "clearing"}, answer \in Results,
            c \in [pc : {"off", "claim", "no"}, won : BOOLEAN] : ExitTo(n, to, answer, c)
    BY <1>7, ExitEffect
  <2>2. c \in [pc : CallPlaces, won : BOOLEAN] /\ "exit" \in Sites
    BY DEF CallPlaces, Sites
  <2>3. /\ \A m \in Jobs, w \in Sites : m # n \/ w # "exit" => call'[m][w] = call[m][w]
        /\ call'[n]["exit"].pc # "off" => to = "recovering"
    <3>1. CASE at[n] = "asking" /\ call' = call
      BY <3>1 DEF Callers
    <3>2. CASE Called(n, "exit", c)
      <4>0. CallShape /\ (c.pc \notin {"off", "no"} => n < Cap)
        BY <2>1 DEF ExitTo, Shape
      <4>1. /\ call'[n]["exit"] = c
            /\ \A m \in Jobs, w \in Sites : m # n \/ w # "exit" => call'[m][w] = call[m][w]
        BY <2>2, <3>2, <4>0, CallsKept
      <4> QED
        BY <2>1, <4>1 DEF ExitTo
    <3> QED
      BY <2>1, <3>1, <3>2 DEF ExitTo
  <2>4. /\ at'[n] = to /\ result'[n] = answer
        /\ \A m \in Jobs \ {n} : at'[m] = at[m] /\ result'[m] = result[m]
    BY <2>1 DEF ExitTo, Steps, Shape
  <2>5. UNCHANGED <<queue, listener, beside>> /\ at[n] \in {"asking", "recovering"}
    BY <2>1 DEF ExitTo
  <2>20. Recoveries = Jobs \ {0}
    BY DEF Jobs, Recoveries
  <2>6. record' = record /\ \A m \in Jobs : call'[m]["stall"] = call[m]["stall"]
    BY <2>1, <2>3 DEF ExitTo, Sites
  <2> QED
    BY <2>5, <2>6 DEF Listened
<1>8. ASSUME NEW n \in Jobs, ClearStore(n) PROVE Listened'
  BY <1>8 DEF ClearStore, Goto, Shape, Callers, Ended, Listened, Jobs, Recoveries
<1>9. ASSUME NEW n \in Jobs, ClearPointer(n) PROVE Listened'
  BY <1>9 DEF ClearPointer, Goto, Shape, Callers, Ended, Listened, Jobs, Recoveries
<1>10. ASSUME NEW n \in Jobs, Record(n) PROVE Listened'
  BY <1>10 DEF Record, Goto, Shape, Callers, Ended, Listened, Jobs, Recoveries
<1>11. ASSUME NEW n \in Jobs, Leave(n) PROVE Listened'
  <2>1. at[n] = "leaving" /\ at'[n] = "idle" /\ \A m \in Jobs \ {n} : at'[m] = at[m]
    BY <1>11 DEF Leave, Goto, Shape
  <2>2. UNCHANGED <<call, listener, beside>>
            /\ \A m \in Jobs \ {n} : queue'[m] = queue[m] /\ result'[m] = result[m]
    BY <1>11 DEF Leave, Shape
  <2>3. queue[n] # "active" => queue'[n] = queue[n]
    BY <1>11 DEF Leave
  <2>4. queue[n] = "active" => queue'[n] = "settled"
            \/ (queue'[n] = "waiting" /\ result[n] = "retry")
    BY <1>11 DEF Leave, Shape
  <2>20. Recoveries = Jobs \ {0}
    BY DEF Jobs, Recoveries
  <2>5. record' = record
    BY <1>11 DEF Leave
  <2>6. \A m \in Jobs : /\ queue'[m] = "removed" => queue[m] = "removed"
                        /\ queue[m] = "stalled" => queue'[m] = "stalled"
    BY <2>2, <2>3, <2>4
  <2> QED
    BY <2>2, <2>5, <2>6, <2>20 DEF Listened
<1>12. ASSUME NEW n \in Jobs, Stall(n) PROVE Listened'
  BY <1>12 DEF Stall, Shape, Callers, Ended, Listened, Jobs, Recoveries
<1>13. ASSUME NEW n \in Jobs, ListenRecord(n) PROVE Listened'
  BY <1>13 DEF ListenRecord, Heard, Shape, Callers, Ended, Listened, Jobs, Recoveries
<1>14. ASSUME NEW n \in Jobs, ListenPointer(n) PROVE Listened'
  <2>1. /\ UNCHANGED <<at, queue>> /\ listener[n] = "pointer" /\ listener'[n] # "none"
        /\ \A m \in Jobs \ {n} : listener'[m] = listener[m]
    BY <1>14 DEF ListenPointer, Heard, Shape
  <2>2. \A m \in Jobs, w \in Sites : m # n \/ w # "stall" => call'[m][w] = call[m][w]
    <3>1. CASE UNCHANGED call
      BY <3>1
    <3>2. CASE Ask(n, "stall")
      <4>1. PICK c \in [pc : {"claim", "no"}, won : BOOLEAN] :
              Called(n, "stall", c) /\ (c.pc = "claim" => n < Cap)
        BY <3>2, CallBegins DEF Sites
      <4>2. c \in [pc : CallPlaces, won : BOOLEAN] /\ "stall" \in Sites
        BY DEF CallPlaces, Sites
      <4> QED
        BY <4>1, <4>2, CallsKept DEF Shape
    <3> QED
      BY <1>14, <3>1, <3>2 DEF ListenPointer
  <2>20. Recoveries = Jobs \ {0}
    BY DEF Jobs, Recoveries
  <2>3. record' = record
    BY <1>14 DEF ListenPointer
  <2>4. \A m \in Jobs \ {n} : call'[m]["stall"] = call[m]["stall"]
    BY <2>2 DEF Sites
  <2>5. listener'[n] = "recovering" \/ call' = call
    BY <1>14 DEF ListenPointer, Heard, Shape
  <2>6. call[n]["stall"].pc = "off"
    BY <2>1 DEF Listened
  <2>7. \A m \in Recoveries : listener'[m] # "none" => listener[m] # "none"
    BY <2>1, <2>20
  <2>8. \A m \in Jobs : call'[m]["stall"].pc # "off" =>
          listener'[m] = "recovering" \/ (m # n /\ call[m]["stall"].pc # "off")
    BY <2>4, <2>5, <2>6
  <2> QED
    BY <2>1, <2>3, <2>7, <2>8 DEF Listened
<1>15. ASSUME NEW n \in Jobs, ListenAnswered(n) PROVE Listened'
  <2>1. /\ listener[n] = "recovering" /\ listener'[n] = "done" /\ UNCHANGED queue
        /\ \A m \in Jobs \ {n} : listener'[m] = listener[m]
    BY <1>15 DEF ListenAnswered, Heard, Shape
  <2>2. /\ call'[n]["stall"].pc = "off"
        /\ \A m \in Jobs \ {n} : call'[m]["stall"] = call[m]["stall"]
    BY <1>15, OffMade DEF ListenAnswered, Shape, CallShape, Sites
  <2>3. \A m \in Jobs : record[m] # "none" => record'[m] # "none"
    BY <1>15 DEF ListenAnswered, Ended
  <2>20. Recoveries = Jobs \ {0}
    BY DEF Jobs, Recoveries
  <2> QED
    BY <2>1, <2>2, <2>3, <2>20 DEF Listened
<1>16. ASSUME NEW n \in Jobs, NEW who \in Sites, Enqueue(n, who) PROVE Listened'
  <2>1. PICK c \in [pc : {"ask", "add", "pend", "yes", "no"}, won : BOOLEAN] :
            CallTo(n, who, c)
    BY <1>16, CallEffect
  <2>2. c \in [pc : CallPlaces, won : BOOLEAN] /\ n < Cap
    BY <2>1 DEF CallTo, CallPlaces, Shape, CallShape
  <2>3. /\ \A m \in Jobs, w \in Sites : m # n \/ w # who => call'[m][w] = call[m][w]
        /\ call'[n][who] = c
    <3>1. CallShape /\ Called(n, who, c)
      BY <2>1 DEF CallTo, Shape
    <3> QED
      BY <2>2, <3>1, CallsKept
  <2>4. n + 1 \in Recoveries /\ n + 1 \in Jobs /\ n + 1 # 0
    BY <2>2, DurableAssumption DEF Jobs, Recoveries, DurableAssumption
  <2>5. UNCHANGED <<at, result, listener>> /\ (beside => beside')
            /\ call[n][who].pc \in {"claim", "ask", "add", "pend"}
    BY <2>1 DEF CallTo
  <2>6. /\ queue' # queue => call[n][who].pc = "add" /\ (c.pc = "pend" \/ beside')
        /\ \A m \in Jobs : queue'[m] = queue[m] \/ (queue'[m] = "waiting" /\ m # 0)
    BY <2>1, <2>4 DEF CallTo, Shape
  <2>20. Recoveries = Jobs \ {0}
    BY DEF Jobs, Recoveries
  <2>7. record' = record /\ \A m \in Jobs : call'[m]["stall"].pc # "off"
            => call[m]["stall"].pc # "off"
    BY <2>1, <2>3, <2>5 DEF CallTo, Sites
  <2>8. \A m \in Recoveries : queue'[m] # queue[m] => queue[m] \in {"none", "removed"}
            /\ queue'[m] = "waiting"
    BY <2>1, <2>4, <2>20 DEF CallTo, OnQueue, Shape
  <2>9. \A m \in Recoveries : listener[m] # "none" => queue[m] # "none"
    BY <2>20 DEF Callers
  <2>10. \A m \in Recoveries : listener[m] # "none"
             => queue'[m] = "stalled" \/ record[m] # "none"
    BY <2>8, <2>9 DEF Listened
  <2> QED
    BY <2>5, <2>7, <2>8, <2>10 DEF Listened
<1>17. ASSUME NEW s \in Sweepers, SweepRead(s) PROVE Listened'
  BY <1>17 DEF SweepRead, Sweeping, Shape, Callers, Ended, Listened, Jobs, Recoveries
<1>18. ASSUME NEW s \in Sweepers, SweepTake(s) PROVE Listened'
  BY <1>18 DEF SweepTake, TakeMember, Sweeping, Shape, Callers, Ended, Listened, Jobs,
     Recoveries
<1>19. ASSUME NEW s \in Sweepers, SweepLook(s) PROVE Listened'
  BY <1>19 DEF SweepLook, Sweeping, Shape, Callers, Ended, Listened, Jobs, Recoveries
<1>20. ASSUME NEW s \in Sweepers, SweepRemove(s) PROVE Listened'
  <2>1. sweep[s].member[1] \in Recoveries
    BY <1>20 DEF SweepRemove, Sweeping, Shape, SweepShape, Members
  <2>2. UNCHANGED <<at, call, listener, result, beside>>
    BY <1>20 DEF SweepRemove
  <2>3. 0 \notin Recoveries
    BY DEF Recoveries
  <2>20. Recoveries = Jobs \ {0}
    BY DEF Jobs, Recoveries
  <2>4. \A m \in Jobs : /\ record[m] # "none" => record'[m] # "none"
                        /\ queue'[m] = queue[m]
                           \/ (queue'[m] = "removed" /\ record'[m] # "none")
    BY <1>20, <2>1 DEF SweepRemove, Shape, Ended
  <2> QED
    BY <2>2, <2>4, <2>20 DEF Listened
<1>21. ASSUME NEW s \in Sweepers, SweeperDies(s) PROVE Listened'
  BY <1>21 DEF SweeperDies, Shape, Callers, Ended, Listened, Jobs, Recoveries
<1>22. CASE Deadline
  BY <1>22 DEF Deadline, Shape, Callers, Ended, Listened, Jobs, Recoveries
<1>23. CASE LongestWait
  BY <1>23 DEF LongestWait, Shape, Callers, Ended, Listened, Jobs, Recoveries
<1>24. CASE Crash
  <2>1. \A n \in Jobs : call'[n]["stall"].pc = "off"
            /\ (listener'[n] # "none" => listener[n] # "none")
    BY <1>24, OffMade DEF Crash
  <2>2. UNCHANGED <<queue, record>>
    BY <1>24 DEF Crash
  <2>20. Recoveries = Jobs \ {0}
    BY DEF Jobs, Recoveries
  <2> QED
    BY <2>1, <2>2, <2>20 DEF Listened
<1>25. CASE Reboot
  BY <1>25 DEF Reboot, Shape, Callers, Ended, Listened, Jobs, Recoveries
<1>26. CASE UNCHANGED vars
  BY <1>26 DEF vars, Shape, Callers, Ended, Listened, Jobs, Recoveries
<1> QED
  BY <1>1, <1>2, <1>3, <1>4, <1>5, <1>6, <1>7, <1>8, <1>9, <1>10, <1>11, <1>12, <1>13,
     <1>14,
     <1>15, <1>16, <1>17, <1>18, <1>19, <1>20, <1>21, <1>22, <1>23, <1>24, <1>25, <1>26
  DEF Next, Work, Listener, Sweep, Sites

\* Nothing was spent of a kind in a step after which nothing of it was spent.
LEMMA SpentCounts ==
  ASSUME Counted, [Next]_vars
  PROVE  Counted' /\ \A k \in Kinds : spent'[k] = 0 => spent[k] = 0 /\ ~Spend(k)
<1>1. spent' = spent \/ \E what \in Kinds : Spend(what)
  BY Disturbed DEF Paid
<1>2. ASSUME NEW k \in Kinds, Spend(k) PROVE spent'[k] = spent[k] + 1
  BY <1>2 DEF Spend, Counted
<1>3. CASE spent' = spent
  BY <1>2, <1>3 DEF Counted
<1>4. ASSUME NEW what \in Kinds, Spend(what)
      PROVE  Counted' /\ \A k \in Kinds : spent'[k] = 0 => spent[k] = 0 /\ ~Spend(k)
  <2>1. spent' = [spent EXCEPT ![what] = spent[what] + 1]
    BY <1>4 DEF Spend
  <2> QED
    BY <1>2, <2>1 DEF Counted
<1> QED
  BY <1>1, <1>3, <1>4

\* Nor was a fault.
LEMMA FaultsCount ==
  ASSUME Counted, [Next]_vars
  PROVE  Counted' /\ (spent'["faults"] = 0 => spent["faults"] = 0 /\ ~Spend("faults"))
BY SpentCounts DEF Kinds

\* What a step that takes nothing away leaves watched.
LEMMA WatchedKept ==
  ASSUME NEW m, Watched(m), pending \subseteq pending', sweep' = sweep,
         \A w \in Sites : call[m - 1][w].pc = "pend" => call'[m - 1][w].pc = "pend"
  PROVE  Watched(m)'
BY DEF Watched, Sites

\* The deadline of a recovery is in somebody's hands.
LEMMA InHandStep ==
  DurableAssumption /\ Shape /\ Callers /\ Counted /\ Listened /\ InHand
     /\ [Next]_vars => InHand'
<1> SUFFICES ASSUME DurableAssumption, Shape, Callers, Counted, Listened, InHand,
                    [Next]_vars,
                    NEW m \in Recoveries \ begun', queue'[m] \in {"waiting", "active"},
                    spent'["faults"] = 0, ~dropped'
             PROVE  Watched(m)'
  BY DEF InHand
<1> USE DEF pickup, checkpoint, enqueuing, backstop, ghosts
<1>a. spent["faults"] = 0 /\ ~Spend("faults")
  BY FaultsCount
<1>b. m \in Jobs /\ m - 1 \in Jobs /\ (m - 1) + 1 = m
  BY DurableAssumption DEF Jobs, Recoveries, DurableAssumption
<1>c. queue[m] \in {"waiting", "active"} /\ m \notin begun /\ ~dropped => Watched(m)
  BY <1>a DEF InHand
<1>1. ASSUME NEW n \in Jobs, Pickup(n) PROVE Watched(m)'
  <2>1. UNCHANGED <<begun, dropped, pending, sweep, call>>
    BY <1>1 DEF Pickup
  <2>2. queue[m] \in {"waiting", "active"}
    BY <1>1, <1>b DEF Pickup, Shape
  <2> QED
    BY <1>c, <2>1, <2>2, WatchedKept
<1>2. ASSUME NEW n \in Jobs, Gates(n) PROVE Watched(m)'
  <2>0. PICK to \in {"idle", "pointer", "manifest", "start", "recording", "clearing"},
            answer \in Results : GateTo(n, to, answer)
    BY <1>2, GateEffect
  <2>1. UNCHANGED <<begun, dropped, pending, sweep, call>>
    BY <2>0 DEF GateTo
  <2>2. queue[m] \in {"waiting", "active"}
    BY <2>0, <1>b DEF GateTo, Shape
  <2> QED
    BY <1>c, <2>1, <2>2, WatchedKept
<1>3. ASSUME NEW n \in Jobs, Start(n) PROVE Watched(m)'
  <2>1. UNCHANGED <<begun, dropped, pending, sweep, call>>
    BY <1>3 DEF Start
  <2>2. queue[m] \in {"waiting", "active"}
    BY <1>3, <1>b DEF Start
  <2> QED
    BY <1>c, <2>1, <2>2, WatchedKept
<1>4. ASSUME NEW n \in Jobs, Checkpoint(n) PROVE Watched(m)'
  <2>1. UNCHANGED <<begun, dropped, pending, sweep, call>>
    BY <1>4 DEF Checkpoint
  <2>2. queue[m] \in {"waiting", "active"}
    BY <1>4, <1>b DEF Checkpoint
  <2> QED
    BY <1>c, <2>1, <2>2, WatchedKept
<1>5. ASSUME NEW n \in Jobs, Complete(n) PROVE Watched(m)'
  <2>1. UNCHANGED <<begun, dropped, pending, sweep, call>>
    BY <1>5 DEF Complete
  <2>2. queue[m] \in {"waiting", "active"}
    BY <1>5, <1>b DEF Complete
  <2> QED
    BY <1>c, <2>1, <2>2, WatchedKept
<1>6. ASSUME NEW n \in Jobs, InfraExit(n) PROVE Watched(m)'
  <2>1. UNCHANGED <<begun, dropped, pending, sweep, call>>
    BY <1>6 DEF InfraExit
  <2>2. queue[m] \in {"waiting", "active"}
    BY <1>6, <1>b DEF InfraExit
  <2> QED
    BY <1>c, <2>1, <2>2, WatchedKept
<1>7. ASSUME NEW n \in Jobs, AskPointer(n) \/ ExitAnswered(n) PROVE Watched(m)'
  <2>1. PICK to \in {"recovering", "recording", "clearing"}, answer \in Results,
            c \in [pc : {"off", "claim", "no"}, won : BOOLEAN] : ExitTo(n, to, answer, c)
    BY <1>7, ExitEffect
  <2>2. c \in [pc : CallPlaces, won : BOOLEAN] /\ "exit" \in Sites
    BY DEF CallPlaces, Sites
  <2>3. /\ \A j \in Jobs, w \in Sites : j # n \/ w # "exit" => call'[j][w] = call[j][w]
        /\ call'[n]["exit"].pc # "off" => to = "recovering"
    <3>1. CASE at[n] = "asking" /\ call' = call
      BY <3>1 DEF Callers
    <3>2. CASE Called(n, "exit", c)
      <4>0. CallShape /\ (c.pc \notin {"off", "no"} => n < Cap)
        BY <2>1 DEF ExitTo, Shape
      <4>1. /\ call'[n]["exit"] = c
            /\ \A j \in Jobs, w \in Sites : j # n \/ w # "exit" => call'[j][w] = call[j][w]
        BY <2>2, <3>2, <4>0, CallsKept
      <4> QED
        BY <2>1, <4>1 DEF ExitTo
    <3> QED
      BY <2>1, <3>1, <3>2 DEF ExitTo
  <2>4. /\ at'[n] = to /\ result'[n] = answer
        /\ \A j \in Jobs \ {n} : at'[j] = at[j] /\ result'[j] = result[j]
    BY <2>1 DEF ExitTo, Steps, Shape
  <2>5. UNCHANGED <<queue, listener, beside>> /\ at[n] \in {"asking", "recovering"}
    BY <2>1 DEF ExitTo
  <2>6. UNCHANGED <<begun, dropped, pending, sweep>>
    BY <2>1 DEF ExitTo
  <2>7. call[n]["exit"].pc # "pend"
    BY <2>1 DEF ExitTo, Callers
  <2>8. \A w \in Sites : call[m - 1][w].pc = "pend" => call'[m - 1][w].pc = "pend"
    BY <1>b, <2>3, <2>7
  <2> QED
    BY <1>c, <2>5, <2>6, <2>8, WatchedKept
<1>8. ASSUME NEW n \in Jobs, ClearStore(n) PROVE Watched(m)'
  <2>1. UNCHANGED <<begun, dropped, pending, sweep, call>>
    BY <1>8 DEF ClearStore
  <2>2. queue[m] \in {"waiting", "active"}
    BY <1>8, <1>b DEF ClearStore
  <2> QED
    BY <1>c, <2>1, <2>2, WatchedKept
<1>9. ASSUME NEW n \in Jobs, ClearPointer(n) PROVE Watched(m)'
  <2>1. UNCHANGED <<begun, dropped, pending, sweep, call>>
    BY <1>9 DEF ClearPointer
  <2>2. queue[m] \in {"waiting", "active"}
    BY <1>9, <1>b DEF ClearPointer
  <2> QED
    BY <1>c, <2>1, <2>2, WatchedKept
<1>10. ASSUME NEW n \in Jobs, Record(n) PROVE Watched(m)'
  <2>1. UNCHANGED <<begun, dropped, pending, sweep, call>>
    BY <1>10 DEF Record
  <2>2. queue[m] \in {"waiting", "active"}
    BY <1>10, <1>b DEF Record
  <2> QED
    BY <1>c, <2>1, <2>2, WatchedKept
<1>11. ASSUME NEW n \in Jobs, Leave(n) PROVE Watched(m)'
  <2>1. UNCHANGED <<begun, dropped, pending, sweep, call>>
    BY <1>11 DEF Leave
  <2>2. queue[m] \in {"waiting", "active"}
    BY <1>11, <1>b DEF Leave, Shape
  <2> QED
    BY <1>c, <2>1, <2>2, WatchedKept
<1>12. ASSUME NEW n \in Jobs, Stall(n) PROVE Watched(m)'
  <2>1. UNCHANGED <<begun, dropped, pending, sweep, call>>
    BY <1>12 DEF Stall
  <2>2. queue[m] \in {"waiting", "active"}
    BY <1>12, <1>b DEF Stall, Shape
  <2> QED
    BY <1>c, <2>1, <2>2, WatchedKept
<1>13. ASSUME NEW n \in Jobs, ListenRecord(n) PROVE Watched(m)'
  <2>1. UNCHANGED <<begun, dropped, pending, sweep, call>>
    BY <1>13 DEF ListenRecord
  <2>2. queue[m] \in {"waiting", "active"}
    BY <1>13, <1>b DEF ListenRecord
  <2> QED
    BY <1>c, <2>1, <2>2, WatchedKept
<1>14. ASSUME NEW n \in Jobs, ListenPointer(n) PROVE Watched(m)'
  <2>1. /\ UNCHANGED <<at, queue>> /\ listener[n] = "pointer" /\ listener'[n] # "none"
        /\ \A j \in Jobs \ {n} : listener'[j] = listener[j]
    BY <1>14 DEF ListenPointer, Heard, Shape
  <2>2. \A j \in Jobs, w \in Sites : j # n \/ w # "stall" => call'[j][w] = call[j][w]
    <3>1. CASE UNCHANGED call
      BY <3>1
    <3>2. CASE Ask(n, "stall")
      <4>1. PICK c \in [pc : {"claim", "no"}, won : BOOLEAN] :
              Called(n, "stall", c) /\ (c.pc = "claim" => n < Cap)
        BY <3>2, CallBegins DEF Sites
      <4>2. c \in [pc : CallPlaces, won : BOOLEAN] /\ "stall" \in Sites
        BY DEF CallPlaces, Sites
      <4> QED
        BY <4>1, <4>2, CallsKept DEF Shape
    <3> QED
      BY <1>14, <3>1, <3>2 DEF ListenPointer
  <2>3. UNCHANGED <<begun, dropped, pending, sweep>>
    BY <1>14 DEF ListenPointer
  <2>4. call[n]["stall"].pc = "off"
    BY <2>1 DEF Listened
  <2>5. \A w \in Sites : call[m - 1][w].pc = "pend" => call'[m - 1][w].pc = "pend"
    BY <1>b, <2>2, <2>4
  <2> QED
    BY <1>c, <2>1, <2>3, <2>5, WatchedKept
<1>15. ASSUME NEW n \in Jobs, ListenAnswered(n) PROVE Watched(m)'
  <2>1. UNCHANGED <<begun, dropped, pending, sweep, queue>>
    BY <1>15 DEF ListenAnswered
  <2>2. call[n]["stall"].pc # "pend" /\ \A j \in Jobs,
            w \in Sites : j # n \/ w # "stall" => call'[j][w] = call[j][w]
    BY <1>15 DEF ListenAnswered, Shape, CallShape, Sites
  <2>3. \A w \in Sites : call[m - 1][w].pc = "pend" => call'[m - 1][w].pc = "pend"
    BY <1>b, <2>2
  <2> QED
    BY <1>c, <2>1, <2>3, WatchedKept
<1>16. ASSUME NEW n \in Jobs, NEW who \in Sites, Enqueue(n, who) PROVE Watched(m)'
  <2>1. PICK c \in [pc : {"ask", "add", "pend", "yes", "no"}, won : BOOLEAN] :
            CallTo(n, who, c)
    BY <1>16, CallEffect
  <2>2. c \in [pc : CallPlaces, won : BOOLEAN] /\ n < Cap
    BY <2>1 DEF CallTo, CallPlaces, Shape, CallShape
  <2>3. /\ \A j \in Jobs, w \in Sites : j # n \/ w # who => call'[j][w] = call[j][w]
        /\ call'[n][who] = c
    <3>1. CallShape /\ Called(n, who, c)
      BY <2>1 DEF CallTo, Shape
    <3> QED
      BY <2>2, <3>1, CallsKept
  <2>4. n + 1 \in Recoveries /\ n + 1 \in Jobs /\ n + 1 # 0
    BY <2>2, DurableAssumption DEF Jobs, Recoveries, DurableAssumption
  <2>5. UNCHANGED <<at, result, listener>> /\ (beside => beside')
            /\ call[n][who].pc \in {"claim", "ask", "add", "pend"}
    BY <2>1 DEF CallTo
  <2>6. /\ queue' # queue => call[n][who].pc = "add" /\ (c.pc = "pend" \/ beside')
        /\ \A j \in Jobs : queue'[j] = queue[j] \/ (queue'[j] = "waiting" /\ j # 0)
    BY <2>1, <2>4 DEF CallTo, Shape
  <2>7. UNCHANGED <<begun, dropped, sweep>> /\ pending \subseteq pending'
    BY <2>1 DEF CallTo
  <2>8. CASE queue'[m] # queue[m]
    <3>1. m = n + 1 /\ c.pc = "pend"
      BY <1>a, <1>b, <2>1, <2>8 DEF CallTo, Shape
    <3>2. m - 1 = n
      BY <3>1, <1>b DEF Jobs
    <3>3. call'[m - 1][who].pc = "pend"
      BY <2>3, <3>1, <3>2
    <3> QED
      BY <3>3 DEF Watched, Sites
  <2>9. CASE queue'[m] = queue[m]
    <3>1. Watched(m)
      BY <1>c, <2>7, <2>9
    <3>2. CASE call[n][who].pc = "pend" /\ m = n + 1
      <4>1. <<m, who>> \in pending'
        BY <1>a, <2>1, <3>2 DEF CallTo
      <4> QED
        BY <4>1 DEF Watched
    <3>3. CASE ~(call[n][who].pc = "pend" /\ m = n + 1)
      <4>1. \A w \in Sites : call[m - 1][w].pc = "pend" => call'[m - 1][w].pc = "pend"
        BY <1>b, <2>3, <3>3
      <4> QED
        BY <2>7, <3>1, <4>1, WatchedKept
    <3> QED
      BY <3>2, <3>3
  <2> QED
    BY <2>8, <2>9
<1>17. ASSUME NEW s \in Sweepers, SweepRead(s) PROVE Watched(m)'
  <2>1. UNCHANGED <<begun, dropped, pending, call, queue>>
    BY <1>17 DEF SweepRead
  <2>2. /\ sweep[s].pc = "rest"
        /\ \A r \in Sweepers \ {s} : sweep'[r] = sweep[r]
    BY <1>17 DEF SweepRead, Sweeping, Shape, SweepShape
  <2>3. Watched(m)
    BY <1>c, <2>1
  <2> QED
    BY <2>1, <2>2, <2>3 DEF Watched
<1>18. ASSUME NEW s \in Sweepers, SweepTake(s) PROVE Watched(m)'
  <2>1. UNCHANGED <<begun, dropped, call, queue>>
    BY <1>18 DEF SweepTake
  <2>2. /\ sweep[s].pc = "take"
        /\ \A r \in Sweepers \ {s} : sweep'[r] = sweep[r]
    BY <1>18 DEF SweepTake, TakeMember, Sweeping, Shape, SweepShape
  <2>3. pending' = pending \ {sweep[s].member}
    BY <1>18, <1>a DEF SweepTake, TakeMember
  <2>4. sweep[s].member \in pending => sweep'[s].pc = "look"
            /\ sweep'[s].member = sweep[s].member
    BY <1>18, <1>a DEF SweepTake, TakeMember, Sweeping, Shape, SweepShape
  <2>5. Watched(m)
    BY <1>c, <2>1
  <2>6. CASE \E x \in pending : x[1] = m
    BY <2>3, <2>4, <2>6 DEF Watched
  <2>7. CASE \E r \in Sweepers : sweep[r].pc \in {"look", "remove"}
            /\ sweep[r].member[1] = m
    BY <2>2, <2>7 DEF Watched
  <2>8. CASE \E w \in Sites : call[m - 1][w].pc = "pend"
    BY <2>1, <2>8 DEF Watched, Sites
  <2> QED
    BY <2>5, <2>6, <2>7, <2>8 DEF Watched, Sites
<1>19. ASSUME NEW s \in Sweepers, SweepLook(s) PROVE Watched(m)'
  <2>1. UNCHANGED <<dropped, call, queue>> /\ m \notin begun
    BY <1>19 DEF SweepLook
  <2>2. \A r \in Sweepers \ {s} : sweep'[r] = sweep[r]
    BY <1>19 DEF SweepLook, Sweeping, Shape, SweepShape
  <2>3. pending \subseteq pending'
    BY <1>19 DEF SweepLook
  <2>4. Watched(m)
    BY <1>c, <2>1
  <2>5. CASE sweep[s].member[1] = m
    <3>1. queue[m] = "waiting"
      BY <1>19, <2>5 DEF SweepLook
    <3>2. \/ sweep[s].member \in pending'
          \/ Sweeping(s, "look", "remove", sweep[s].member)
      BY <1>19, <1>a, <2>5, <3>1 DEF SweepLook
    <3>3. CASE sweep[s].member \in pending'
      BY <2>5, <3>3 DEF Watched
    <3>4. CASE Sweeping(s, "look", "remove", sweep[s].member)
      <4>1. sweep'[s].pc = "remove" /\ sweep'[s].member = sweep[s].member
        BY <3>4 DEF Sweeping, Shape, SweepShape
      <4> QED
        BY <2>5, <4>1 DEF Watched
    <3> QED
      BY <3>2, <3>3, <3>4
  <2>6. CASE sweep[s].member[1] # m
    BY <2>1, <2>2, <2>3, <2>4, <2>6 DEF Watched
  <2> QED
    BY <2>5, <2>6
<1>20. ASSUME NEW s \in Sweepers, SweepRemove(s) PROVE Watched(m)'
  <2>1. UNCHANGED <<begun, dropped, call>>
    BY <1>20 DEF SweepRemove
  <2>2. \A r \in Sweepers \ {s} : sweep'[r] = sweep[r]
    BY <1>20 DEF SweepRemove, Sweeping, Shape, SweepShape
  <2>3. pending \subseteq pending' /\ queue[m] \in {"waiting", "active"}
    BY <1>20, <1>b DEF SweepRemove, Shape
  <2>4. Watched(m)
    BY <1>c, <2>1, <2>3
  <2>5. CASE sweep[s].member[1] = m
    <3>1. sweep[s].member \in pending'
      BY <1>20, <1>b, <2>5 DEF SweepRemove, Shape
    <3> QED
      BY <2>5, <3>1 DEF Watched
  <2>6. CASE sweep[s].member[1] # m
    BY <2>1, <2>2, <2>3, <2>4, <2>6 DEF Watched
  <2> QED
    BY <2>5, <2>6
<1>21. ASSUME NEW s \in Sweepers, SweeperDies(s) PROVE Watched(m)'
  <2>1. UNCHANGED <<begun, pending, call, queue>> /\ ~dropped /\ sweep[s].pc = "take"
    BY <1>21 DEF SweeperDies
  <2>2. \A r \in Sweepers \ {s} : sweep'[r] = sweep[r]
    BY <1>21 DEF SweeperDies, Shape, SweepShape
  <2>3. Watched(m)
    BY <1>c, <2>1
  <2> QED
    BY <2>1, <2>2, <2>3 DEF Watched
<1>22. CASE Deadline
  <2>1. UNCHANGED <<begun, dropped, pending, sweep, call>>
    BY <1>22 DEF Deadline
  <2>2. queue[m] \in {"waiting", "active"}
    BY <1>22, <1>b DEF Deadline
  <2> QED
    BY <1>c, <2>1, <2>2, WatchedKept
<1>23. CASE LongestWait
  <2>1. UNCHANGED <<begun, dropped, pending, sweep, call>>
    BY <1>23 DEF LongestWait
  <2>2. queue[m] \in {"waiting", "active"}
    BY <1>23, <1>b DEF LongestWait
  <2> QED
    BY <1>c, <2>1, <2>2, WatchedKept
<1>24. CASE Crash
  <2>1. UNCHANGED <<begun, pending, sweep, queue>> /\ ~dropped
    BY <1>24 DEF Crash
  <2>2. \A w \in Sites : call[m - 1][w].pc # "pend"
    BY <1>24, <1>b DEF Crash, Sites
  <2>3. Watched(m)
    BY <1>c, <2>1
  <2> QED
    BY <2>1, <2>2, <2>3 DEF Watched, Sites
<1>25. CASE Reboot
  <2>1. UNCHANGED <<begun, dropped, pending, sweep, call>>
    BY <1>25 DEF Reboot
  <2>2. queue[m] \in {"waiting", "active"}
    BY <1>25, <1>b DEF Reboot
  <2> QED
    BY <1>c, <2>1, <2>2, WatchedKept
<1>26. CASE UNCHANGED vars
  <2>1. UNCHANGED <<begun, dropped, pending, sweep, call>>
    BY <1>26 DEF vars
  <2>2. queue[m] \in {"waiting", "active"}
    BY <1>26, <1>b DEF vars
  <2> QED
    BY <1>c, <2>1, <2>2, WatchedKept
<1> QED
  BY <1>1, <1>2, <1>3, <1>4, <1>5, <1>6, <1>7, <1>8, <1>9, <1>10, <1>11, <1>12, <1>13,
     <1>14,
     <1>15, <1>16, <1>17, <1>18, <1>19, <1>20, <1>21, <1>22, <1>23, <1>24, <1>25, <1>26
  DEF Next, Work, Listener, Sweep, Sites

LEMMA KeepsFollowed ==
  ASSUME DurableAssumption, Shape, [Next]_vars
  PROVE  (told # {} => told' # {}) /\ \A m \in Jobs : Follows(m) => Follows(m)'
<1>1. Kept
  BY StepKeeps
<1>2. \A m \in Jobs : m < Cap => m + 1 \in Jobs
  BY DurableAssumption DEF Jobs, DurableAssumption
<1> QED
  BY <1>1, <1>2 DEF Kept, Follows

\* Nothing ends or continues before it was told or is followed.
LEMMA AnsweredStep ==
  DurableAssumption /\ Shape /\ Callers /\ Ended /\ Answered /\ Stored
     /\ [Next]_vars => Answered'
<1> SUFFICES ASSUME DurableAssumption, Shape, Callers, Ended, Answered, Stored, [Next]_vars
             PROVE  Answered'
  OBVIOUS
<1> USE DEF pickup, checkpoint, enqueuing, backstop, ghosts
<1>1. ASSUME NEW n \in Jobs, Pickup(n) PROVE Answered'
  <2>1. \A m \in Jobs :
          /\ at'[m] \in {"clearing", "unpointing"} => at[m] \in {"clearing", "unpointing"}
          /\ result'[m] = result[m] \/ result'[m] = "none"
    BY <1>1 DEF Pickup, Goto, Shape
  <2>2. record' = record /\ call' = call
    BY <1>1 DEF Pickup, Goto
  <2>90. /\ told # {} => told' # {}
        /\ \A m \in Jobs : Follows(m) => Follows(m)'
    BY KeepsFollowed
  <2> QED
    BY <2>1, <2>2, <2>90 DEF Answered
<1>2. ASSUME NEW n \in Jobs, Gates(n) PROVE Answered'
  <2>1. PICK to \in {"idle", "pointer", "manifest", "start", "recording", "clearing"},
            answer \in Results : GateTo(n, to, answer)
    BY <1>2, GateEffect
  <2>2. /\ at'[n] = to /\ result'[n] = answer /\ UNCHANGED <<record, call>>
        /\ \A m \in Jobs \ {n} : at'[m] = at[m] /\ result'[m] = result[m]
    BY <2>1 DEF GateTo, Steps, Shape
  <2>3. n \in Jobs /\ \A k \in 0 .. n - 1 : k \in Jobs
    BY DurableAssumption DEF Jobs, DurableAssumption
  <2>4. Settled(n) => told # {}
    BY <2>3 DEF Settled, Answered
  <2>5. CASE to = "recording"
    <3>1. n # 0 /\ queue[n] # "none"
      BY <2>1, <2>5 DEF GateTo, Callers
    <3>2. n \in Recoveries
      BY <3>1 DEF Jobs, Recoveries
    <3>3. ~store => told # {}
      BY <3>1, <3>2 DEF Stored
    <3>4. answer = "superseded" /\ told # {}
      BY <2>1, <2>4, <2>5, <3>3 DEF GateTo
    <3>90. /\ told # {} => told' # {}
        /\ \A m \in Jobs : Follows(m) => Follows(m)'
      BY KeepsFollowed
    <3> QED
      BY <2>2, <2>5, <3>4, <3>90 DEF Answered
  <2>6. CASE to = "clearing"
    <3>1. told' # {} /\ answer # "continued"
      BY <2>1, <2>6 DEF GateTo
    <3>2. \A m \in Jobs : Follows(m) => Follows(m)'
      BY KeepsFollowed
    <3> QED
      BY <2>2, <3>1, <3>2 DEF Answered
  <2>7. CASE to \notin {"recording", "clearing"}
    <3>1. answer = result[n] /\ to # "unpointing"
      BY <2>1, <2>7 DEF GateTo
    <3>2. /\ told # {} => told' # {}
          /\ \A m \in Jobs : Follows(m) => Follows(m)'
      BY KeepsFollowed
    <3> QED
      BY <2>2, <2>7, <3>1, <3>2 DEF Answered
  <2> QED
    BY <2>5, <2>6, <2>7
<1>3. ASSUME NEW n \in Jobs, Start(n) PROVE Answered'
  <2>1. \A m \in Jobs :
          /\ at'[m] \in {"clearing", "unpointing"} => at[m] \in {"clearing", "unpointing"}
          /\ result'[m] = result[m] \/ result'[m] = "none"
    BY <1>3 DEF Start, Goto, Shape
  <2>2. record' = record /\ call' = call
    BY <1>3 DEF Start, Goto
  <2>90. /\ told # {} => told' # {}
        /\ \A m \in Jobs : Follows(m) => Follows(m)'
    BY KeepsFollowed
  <2> QED
    BY <2>1, <2>2, <2>90 DEF Answered
<1>4. ASSUME NEW n \in Jobs, Checkpoint(n) PROVE Answered'
  <2>1. \A m \in Jobs :
          /\ at'[m] \in {"clearing", "unpointing"} => at[m] \in {"clearing", "unpointing"}
          /\ result'[m] = result[m] \/ result'[m] = "none"
    BY <1>4 DEF Checkpoint, Shape
  <2>2. record' = record /\ call' = call
    BY <1>4 DEF Checkpoint
  <2>90. /\ told # {} => told' # {}
        /\ \A m \in Jobs : Follows(m) => Follows(m)'
    BY KeepsFollowed
  <2> QED
    BY <2>1, <2>2, <2>90 DEF Answered
<1>5. ASSUME NEW n \in Jobs, Complete(n) PROVE Answered'
  <2>1. told' # {} /\ UNCHANGED <<record, call>>
    BY <1>5 DEF Complete
  <2>2. \A m \in Jobs : result'[m] = "continued" => result[m] = "continued"
    BY <1>5 DEF Complete, Answer, Shape
  <2>90. /\ told # {} => told' # {}
        /\ \A m \in Jobs : Follows(m) => Follows(m)'
    BY KeepsFollowed
  <2> QED
    BY <2>1, <2>2, <2>90 DEF Answered
<1>6. ASSUME NEW n \in Jobs, InfraExit(n) PROVE Answered'
  <2>1. \A m \in Jobs :
          /\ at'[m] \in {"clearing", "unpointing"} => at[m] \in {"clearing", "unpointing"}
          /\ result'[m] = result[m] \/ result'[m] = "none"
    BY <1>6 DEF InfraExit, Goto, Shape
  <2>2. record' = record /\ call' = call
    BY <1>6 DEF InfraExit, Goto
  <2>90. /\ told # {} => told' # {}
        /\ \A m \in Jobs : Follows(m) => Follows(m)'
    BY KeepsFollowed
  <2> QED
    BY <2>1, <2>2, <2>90 DEF Answered
<1>7. ASSUME NEW n \in Jobs, AskPointer(n) \/ ExitAnswered(n) PROVE Answered'
  <2>1. PICK to \in {"recovering", "recording", "clearing"}, answer \in Results,
            c \in [pc : {"off", "claim", "no"}, won : BOOLEAN] : ExitTo(n, to, answer, c)
    BY <1>7, ExitEffect
  <2>2. c \in [pc : CallPlaces, won : BOOLEAN] /\ "exit" \in Sites
    BY DEF CallPlaces, Sites
  <2>3. /\ \A m \in Jobs, w \in Sites : m # n \/ w # "exit" => call'[m][w] = call[m][w]
        /\ call'[n]["exit"].pc # "off" => to = "recovering"
    <3>1. CASE at[n] = "asking" /\ call' = call
      BY <3>1 DEF Callers
    <3>2. CASE Called(n, "exit", c)
      <4>0. CallShape /\ (c.pc \notin {"off", "no"} => n < Cap)
        BY <2>1 DEF ExitTo, Shape
      <4>1. /\ call'[n]["exit"] = c
            /\ \A m \in Jobs, w \in Sites : m # n \/ w # "exit" => call'[m][w] = call[m][w]
        BY <2>2, <3>2, <4>0, CallsKept
      <4> QED
        BY <2>1, <4>1 DEF ExitTo
    <3> QED
      BY <2>1, <3>1, <3>2 DEF ExitTo
  <2>4. /\ at'[n] = to /\ result'[n] = answer
        /\ \A m \in Jobs \ {n} : at'[m] = at[m] /\ result'[m] = result[m]
    BY <2>1 DEF ExitTo, Steps, Shape
  <2>5. UNCHANGED <<queue, listener, beside>> /\ at[n] \in {"asking", "recovering"}
    BY <2>1 DEF ExitTo
  <2>6. record' = record
    BY <2>1 DEF ExitTo
  <2>7. \A m \in Jobs, w \in Sites : call'[m][w].pc \in {"pend", "yes"}
            => call[m][w].pc \in {"pend", "yes"}
    <3>1. CASE at[n] = "asking" /\ call' = call
      BY <3>1
    <3>2. CASE Called(n, "exit", c)
      <4>1. call'[n]["exit"] = c
        BY <3>2 DEF Called, Shape, CallShape, Sites
      <4> QED
        BY <2>3, <4>1
    <3> QED
      BY <2>1, <3>1, <3>2 DEF ExitTo
  <2>8. answer \in {"final", "superseded", "failed"} /\ answer # result[n] => told' # {}
    BY <2>1 DEF ExitTo
  <2>9. answer = "continued" => result[n] = "continued" \/ call[n]["exit"].pc = "yes"
    BY <2>1 DEF ExitTo
  <2>10. to = "clearing" => told' # {}
    BY <2>1 DEF ExitTo
  <2>11. \A m \in Jobs : \/ at'[m] \in {"clearing", "unpointing"}
                         \/ result'[m] \in {"final", "superseded", "failed"}
                         => told' # {} \/ at[m] \in {"clearing", "unpointing"}
                              \/ result[m] \in {"final", "superseded", "failed"}
    BY <2>4, <2>8, <2>10
  <2>12. \A m \in Jobs : result'[m] = "continued" => Follows(m)
    BY <2>4, <2>9 DEF Answered, Sites
  <2>90. /\ told # {} => told' # {}
        /\ \A m \in Jobs : Follows(m) => Follows(m)'
    BY KeepsFollowed
  <2> QED
    BY <2>6, <2>7, <2>11, <2>12, <2>90 DEF Answered
<1>8. ASSUME NEW n \in Jobs, ClearStore(n) PROVE Answered'
  <2>1. \A m \in Jobs :
          /\ at'[m] \in {"clearing", "unpointing"} => at[m] \in {"clearing", "unpointing"}
          /\ result'[m] = result[m] \/ result'[m] = "none"
    BY <1>8 DEF ClearStore, Goto, Shape
  <2>2. record' = record /\ call' = call
    BY <1>8 DEF ClearStore, Goto
  <2>90. /\ told # {} => told' # {}
        /\ \A m \in Jobs : Follows(m) => Follows(m)'
    BY KeepsFollowed
  <2> QED
    BY <2>1, <2>2, <2>90 DEF Answered
<1>9. ASSUME NEW n \in Jobs, ClearPointer(n) PROVE Answered'
  <2>1. \A m \in Jobs :
          /\ at'[m] \in {"clearing", "unpointing"} => at[m] \in {"clearing", "unpointing"}
          /\ result'[m] = result[m] \/ result'[m] = "none"
    BY <1>9 DEF ClearPointer, Goto, Shape
  <2>2. record' = record /\ call' = call
    BY <1>9 DEF ClearPointer, Goto
  <2>90. /\ told # {} => told' # {}
        /\ \A m \in Jobs : Follows(m) => Follows(m)'
    BY KeepsFollowed
  <2> QED
    BY <2>1, <2>2, <2>90 DEF Answered
<1>10. ASSUME NEW n \in Jobs, Record(n) PROVE Answered'
  <2>1. \A m \in Jobs : record'[m] = record[m] \/ record'[m] = result[m]
    BY <1>10 DEF Record, Ended
  <2>2. \A m \in Jobs : at'[m] \in {"clearing", "unpointing"}
            => at[m] \in {"clearing", "unpointing"}
    BY <1>10 DEF Record, Goto, Shape
  <2>3. UNCHANGED <<result, call>>
    BY <1>10 DEF Record
  <2>4. \A m \in Jobs : result[m] # "lost"
    BY DEF Shape, Results
  <2>90. /\ told # {} => told' # {}
        /\ \A m \in Jobs : Follows(m) => Follows(m)'
    BY KeepsFollowed
  <2> QED
    BY <2>1, <2>2, <2>3, <2>4, <2>90 DEF Answered
<1>11. ASSUME NEW n \in Jobs, Leave(n) PROVE Answered'
  <2>1. \A m \in Jobs :
          /\ at'[m] \in {"clearing", "unpointing"} => at[m] \in {"clearing", "unpointing"}
          /\ result'[m] = result[m] \/ result'[m] = "none"
    BY <1>11 DEF Leave, Goto, Shape
  <2>2. record' = record /\ call' = call
    BY <1>11 DEF Leave, Goto
  <2>90. /\ told # {} => told' # {}
        /\ \A m \in Jobs : Follows(m) => Follows(m)'
    BY KeepsFollowed
  <2> QED
    BY <2>1, <2>2, <2>90 DEF Answered
<1>12. ASSUME NEW n \in Jobs, Stall(n) PROVE Answered'
  <2>1. \A m \in Jobs :
          /\ at'[m] \in {"clearing", "unpointing"} => at[m] \in {"clearing", "unpointing"}
          /\ result'[m] = result[m] \/ result'[m] = "none"
    BY <1>12 DEF Stall, Shape
  <2>2. record' = record /\ call' = call
    BY <1>12 DEF Stall
  <2>90. /\ told # {} => told' # {}
        /\ \A m \in Jobs : Follows(m) => Follows(m)'
    BY KeepsFollowed
  <2> QED
    BY <2>1, <2>2, <2>90 DEF Answered
<1>13. ASSUME NEW n \in Jobs, ListenRecord(n) PROVE Answered'
  <2>1. \A m \in Jobs :
          /\ at'[m] \in {"clearing", "unpointing"} => at[m] \in {"clearing", "unpointing"}
          /\ result'[m] = result[m] \/ result'[m] = "none"
    BY <1>13 DEF ListenRecord, Shape
  <2>2. record' = record /\ call' = call
    BY <1>13 DEF ListenRecord
  <2>90. /\ told # {} => told' # {}
        /\ \A m \in Jobs : Follows(m) => Follows(m)'
    BY KeepsFollowed
  <2> QED
    BY <2>1, <2>2, <2>90 DEF Answered
<1>14. ASSUME NEW n \in Jobs, ListenPointer(n) PROVE Answered'
  <2>1. /\ UNCHANGED <<at, queue>> /\ listener[n] = "pointer" /\ listener'[n] # "none"
        /\ \A m \in Jobs \ {n} : listener'[m] = listener[m]
    BY <1>14 DEF ListenPointer, Heard, Shape
  <2>2. \A m \in Jobs, w \in Sites : m # n \/ w # "stall" => call'[m][w] = call[m][w]
    <3>1. CASE UNCHANGED call
      BY <3>1
    <3>2. CASE Ask(n, "stall")
      <4>1. PICK c \in [pc : {"claim", "no"}, won : BOOLEAN] :
              Called(n, "stall", c) /\ (c.pc = "claim" => n < Cap)
        BY <3>2, CallBegins DEF Sites
      <4>2. c \in [pc : CallPlaces, won : BOOLEAN] /\ "stall" \in Sites
        BY DEF CallPlaces, Sites
      <4> QED
        BY <4>1, <4>2, CallsKept DEF Shape
    <3> QED
      BY <1>14, <3>1, <3>2 DEF ListenPointer
  <2>3. UNCHANGED <<at, result, record>>
    BY <1>14 DEF ListenPointer
  <2>4. call'[n]["stall"].pc \notin {"pend", "yes"} \/ call' = call
    <3>1. CASE Ask(n, "stall")
      <4>1. PICK c \in [pc : {"claim", "no"}, won : BOOLEAN] :
              Called(n, "stall", c) /\ (c.pc = "claim" => n < Cap)
        BY <3>1, CallBegins DEF Sites
      <4>2. call'[n]["stall"] = c
        BY <4>1 DEF Called, Shape, CallShape, Sites
      <4> QED
        BY <4>2
    <3> QED
      BY <1>14, <3>1 DEF ListenPointer
  <2>5. \A m \in Jobs, w \in Sites : call'[m][w].pc \in {"pend", "yes"}
            => call[m][w].pc \in {"pend", "yes"}
    BY <2>2, <2>4
  <2>90. /\ told # {} => told' # {}
        /\ \A m \in Jobs : Follows(m) => Follows(m)'
    BY KeepsFollowed
  <2> QED
    BY <2>3, <2>5, <2>90 DEF Answered
<1>15. ASSUME NEW n \in Jobs, ListenAnswered(n) PROVE Answered'
  <2>1. UNCHANGED <<at, result>>
    BY <1>15 DEF ListenAnswered
  <2>2. \A m \in Jobs, w \in Sites : call'[m][w].pc \in {"pend", "yes"}
            => call[m][w].pc \in {"pend", "yes"}
    BY <1>15, OffMade DEF ListenAnswered, Shape, CallShape, Sites
  <2>3. \A m \in Jobs : \/ record'[m] = record[m]
                        \/ m = n /\ record'[m] = "continued" /\ call[n]["stall"].pc = "yes"
    BY <1>15 DEF ListenAnswered, Ended
  <2>4. \A m \in Jobs : record'[m] = "continued" => Follows(m)
    BY <2>3 DEF Answered, Sites
  <2>90. /\ told # {} => told' # {}
        /\ \A m \in Jobs : Follows(m) => Follows(m)'
    BY KeepsFollowed
  <2> QED
    BY <2>1, <2>2, <2>3, <2>4, <2>90 DEF Answered
<1>16. ASSUME NEW n \in Jobs, NEW who \in Sites, Enqueue(n, who) PROVE Answered'
  <2>1. PICK c \in [pc : {"ask", "add", "pend", "yes", "no"}, won : BOOLEAN] :
            CallTo(n, who, c)
    BY <1>16, CallEffect
  <2>2. c \in [pc : CallPlaces, won : BOOLEAN] /\ n < Cap
    BY <2>1 DEF CallTo, CallPlaces, Shape, CallShape
  <2>3. /\ \A m \in Jobs, w \in Sites : m # n \/ w # who => call'[m][w] = call[m][w]
        /\ call'[n][who] = c
    <3>1. CallShape /\ Called(n, who, c)
      BY <2>1 DEF CallTo, Shape
    <3> QED
      BY <2>2, <3>1, CallsKept
  <2>4. n + 1 \in Recoveries /\ n + 1 \in Jobs /\ n + 1 # 0
    BY <2>2, DurableAssumption DEF Jobs, Recoveries, DurableAssumption
  <2>5. UNCHANGED <<at, result, listener>> /\ (beside => beside')
            /\ call[n][who].pc \in {"claim", "ask", "add", "pend"}
    BY <2>1 DEF CallTo
  <2>6. /\ queue' # queue => call[n][who].pc = "add" /\ (c.pc = "pend" \/ beside')
        /\ \A m \in Jobs : queue'[m] = queue[m] \/ (queue'[m] = "waiting" /\ m # 0)
    BY <2>1, <2>4 DEF CallTo, Shape
  <2>7. UNCHANGED <<record, told>>
    BY <2>1 DEF CallTo
  <2>90. /\ told # {} => told' # {}
        /\ \A m \in Jobs : Follows(m) => Follows(m)'
    BY KeepsFollowed
  <2>8. c.pc \in {"pend", "yes"} => Follows(n)'
    <3>1. CASE c.pc = "pend"
      <4>1. queue'[n + 1] # "none"
        BY <2>1, <2>4, <3>1 DEF CallTo
      <4> QED
        BY <2>2, <4>1 DEF Follows
    <3>2. CASE c.pc = "yes"
      <4>1. call[n][who].pc = "pend" => Follows(n)
        BY DEF Answered
      <4>2. OnQueue(n + 1) => Follows(n)
        BY <2>2 DEF OnQueue, Follows
      <4> QED
        BY <2>1, <2>90, <3>2, <4>1, <4>2 DEF CallTo
    <3> QED
      BY <3>1, <3>2
  <2>9. \A m \in Jobs, w \in Sites : call'[m][w].pc \in {"pend", "yes"}
                                   => Follows(m)' \/ call[m][w].pc \in {"pend", "yes"}
    BY <2>3, <2>8
  <2> QED
    BY <2>5, <2>7, <2>9, <2>90 DEF Answered
<1>17. ASSUME NEW s \in Sweepers, SweepRead(s) PROVE Answered'
  <2>1. \A m \in Jobs :
          /\ at'[m] \in {"clearing", "unpointing"} => at[m] \in {"clearing", "unpointing"}
          /\ result'[m] = result[m] \/ result'[m] = "none"
    BY <1>17 DEF SweepRead, Shape
  <2>2. record' = record /\ call' = call
    BY <1>17 DEF SweepRead
  <2>90. /\ told # {} => told' # {}
        /\ \A m \in Jobs : Follows(m) => Follows(m)'
    BY KeepsFollowed
  <2> QED
    BY <2>1, <2>2, <2>90 DEF Answered
<1>18. ASSUME NEW s \in Sweepers, SweepTake(s) PROVE Answered'
  <2>1. \A m \in Jobs :
          /\ at'[m] \in {"clearing", "unpointing"} => at[m] \in {"clearing", "unpointing"}
          /\ result'[m] = result[m] \/ result'[m] = "none"
    BY <1>18 DEF SweepTake, Shape
  <2>2. record' = record /\ call' = call
    BY <1>18 DEF SweepTake
  <2>90. /\ told # {} => told' # {}
        /\ \A m \in Jobs : Follows(m) => Follows(m)'
    BY KeepsFollowed
  <2> QED
    BY <2>1, <2>2, <2>90 DEF Answered
<1>19. ASSUME NEW s \in Sweepers, SweepLook(s) PROVE Answered'
  <2>1. \A m \in Jobs :
          /\ at'[m] \in {"clearing", "unpointing"} => at[m] \in {"clearing", "unpointing"}
          /\ result'[m] = result[m] \/ result'[m] = "none"
    BY <1>19 DEF SweepLook, Shape
  <2>2. record' = record /\ call' = call
    BY <1>19 DEF SweepLook
  <2>90. /\ told # {} => told' # {}
        /\ \A m \in Jobs : Follows(m) => Follows(m)'
    BY KeepsFollowed
  <2> QED
    BY <2>1, <2>2, <2>90 DEF Answered
<1>20. ASSUME NEW s \in Sweepers, SweepRemove(s) PROVE Answered'
  <2>1. UNCHANGED <<at, result, call>>
    BY <1>20 DEF SweepRemove
  <2>2. record' = record \/ (told' # {} /\ \A m \in Jobs : record'[m] = "continued"
            => record[m] = "continued")
    BY <1>20 DEF SweepRemove, Ended
  <2>90. /\ told # {} => told' # {}
        /\ \A m \in Jobs : Follows(m) => Follows(m)'
    BY KeepsFollowed
  <2> QED
    BY <2>1, <2>2, <2>90 DEF Answered
<1>21. ASSUME NEW s \in Sweepers, SweeperDies(s) PROVE Answered'
  <2>1. \A m \in Jobs :
          /\ at'[m] \in {"clearing", "unpointing"} => at[m] \in {"clearing", "unpointing"}
          /\ result'[m] = result[m] \/ result'[m] = "none"
    BY <1>21 DEF SweeperDies, Shape
  <2>2. record' = record /\ call' = call
    BY <1>21 DEF SweeperDies
  <2>90. /\ told # {} => told' # {}
        /\ \A m \in Jobs : Follows(m) => Follows(m)'
    BY KeepsFollowed
  <2> QED
    BY <2>1, <2>2, <2>90 DEF Answered
<1>22. CASE Deadline
  <2>1. \A m \in Jobs :
          /\ at'[m] \in {"clearing", "unpointing"} => at[m] \in {"clearing", "unpointing"}
          /\ result'[m] = result[m] \/ result'[m] = "none"
    BY <1>22 DEF Deadline, Shape
  <2>2. record' = record /\ call' = call
    BY <1>22 DEF Deadline
  <2>90. /\ told # {} => told' # {}
        /\ \A m \in Jobs : Follows(m) => Follows(m)'
    BY KeepsFollowed
  <2> QED
    BY <2>1, <2>2, <2>90 DEF Answered
<1>23. CASE LongestWait
  <2>1. \A m \in Jobs :
          /\ at'[m] \in {"clearing", "unpointing"} => at[m] \in {"clearing", "unpointing"}
          /\ result'[m] = result[m] \/ result'[m] = "none"
    BY <1>23 DEF LongestWait, Shape
  <2>2. record' = record /\ call' = call
    BY <1>23 DEF LongestWait
  <2>90. /\ told # {} => told' # {}
        /\ \A m \in Jobs : Follows(m) => Follows(m)'
    BY KeepsFollowed
  <2> QED
    BY <2>1, <2>2, <2>90 DEF Answered
<1>24. CASE Crash
  <2>1. record' = record
    BY <1>24 DEF Crash
  <2>2. \A m \in Jobs : at'[m] = "idle" /\ result'[m] = "none"
    BY <1>24 DEF Crash
  <2>3. \A m \in Jobs, w \in Sites : call'[m][w].pc = "off"
    BY <1>24, OffMade DEF Crash, Sites
  <2>90. /\ told # {} => told' # {}
        /\ \A m \in Jobs : Follows(m) => Follows(m)'
    BY KeepsFollowed
  <2> QED
    BY <2>1, <2>2, <2>3, <2>90 DEF Answered
<1>25. CASE Reboot
  <2>1. \A m \in Jobs :
          /\ at'[m] \in {"clearing", "unpointing"} => at[m] \in {"clearing", "unpointing"}
          /\ result'[m] = result[m] \/ result'[m] = "none"
    BY <1>25 DEF Reboot, Shape
  <2>2. record' = record /\ call' = call
    BY <1>25 DEF Reboot
  <2>90. /\ told # {} => told' # {}
        /\ \A m \in Jobs : Follows(m) => Follows(m)'
    BY KeepsFollowed
  <2> QED
    BY <2>1, <2>2, <2>90 DEF Answered
<1>26. CASE UNCHANGED vars
  <2>1. \A m \in Jobs :
          /\ at'[m] \in {"clearing", "unpointing"} => at[m] \in {"clearing", "unpointing"}
          /\ result'[m] = result[m] \/ result'[m] = "none"
    BY <1>26 DEF vars, Shape
  <2>2. record' = record /\ call' = call
    BY <1>26 DEF vars
  <2>90. /\ told # {} => told' # {}
        /\ \A m \in Jobs : Follows(m) => Follows(m)'
    BY KeepsFollowed
  <2> QED
    BY <2>1, <2>2, <2>90 DEF Answered
<1> QED
  BY <1>1, <1>2, <1>3, <1>4, <1>5, <1>6, <1>7, <1>8, <1>9, <1>10, <1>11, <1>12, <1>13,
     <1>14,
     <1>15, <1>16, <1>17, <1>18, <1>19, <1>20, <1>21, <1>22, <1>23, <1>24, <1>25, <1>26
  DEF Next, Work, Listener, Sweep, Sites

\* The checkpoint stays until the end is told.
LEMMA StoredStep ==
  DurableAssumption /\ Shape /\ Callers /\ Answered /\ Stored /\ [Next]_vars => Stored'
<1> SUFFICES ASSUME DurableAssumption, Shape, Callers, Answered, Stored, [Next]_vars
             PROVE  Stored'
  OBVIOUS
<1> USE DEF pickup, checkpoint, enqueuing, backstop, ghosts
<1>1. ASSUME NEW n \in Jobs, Pickup(n) PROVE Stored'
  <2>1. UNCHANGED <<store, pointer, call>>
    BY <1>1 DEF Pickup
  <2>2. \A m \in Recoveries : queue'[m] # "none" => queue[m] # "none"
    BY <1>1 DEF Pickup, Shape, Jobs, Recoveries
  <2> QED
    BY <2>1, <2>2, KeepsFollowed DEF Stored
<1>2. ASSUME NEW n \in Jobs, Gates(n) PROVE Stored'
  <2>0. PICK to \in {"idle", "pointer", "manifest", "start", "recording", "clearing"},
            answer \in Results : GateTo(n, to, answer)
    BY <1>2, GateEffect
  <2>1. UNCHANGED <<store, pointer, call>>
    BY <2>0 DEF GateTo
  <2>2. \A m \in Recoveries : queue'[m] # "none" => queue[m] # "none"
    BY <2>0 DEF GateTo, Shape, Jobs, Recoveries
  <2> QED
    BY <2>1, <2>2, KeepsFollowed DEF Stored
<1>3. ASSUME NEW n \in Jobs, Start(n) PROVE Stored'
  <2>1. UNCHANGED <<store, pointer, call>>
    BY <1>3 DEF Start
  <2>2. \A m \in Recoveries : queue'[m] # "none" => queue[m] # "none"
    BY <1>3 DEF Start, Shape, Jobs, Recoveries
  <2> QED
    BY <2>1, <2>2, KeepsFollowed DEF Stored
<1>4. ASSUME NEW n \in Jobs, Checkpoint(n) PROVE Stored'
  <2>1. store' = TRUE
    BY <1>4 DEF Checkpoint
  <2> QED
    BY <2>1 DEF Stored
<1>5. ASSUME NEW n \in Jobs, Complete(n) PROVE Stored'
  <2>1. UNCHANGED <<store, pointer, call>>
    BY <1>5 DEF Complete
  <2>2. \A m \in Recoveries : queue'[m] # "none" => queue[m] # "none"
    BY <1>5 DEF Complete, Shape, Jobs, Recoveries
  <2> QED
    BY <2>1, <2>2, KeepsFollowed DEF Stored
<1>6. ASSUME NEW n \in Jobs, InfraExit(n) PROVE Stored'
  <2>1. UNCHANGED <<store, pointer, call>>
    BY <1>6 DEF InfraExit
  <2>2. \A m \in Recoveries : queue'[m] # "none" => queue[m] # "none"
    BY <1>6 DEF InfraExit, Shape, Jobs, Recoveries
  <2> QED
    BY <2>1, <2>2, KeepsFollowed DEF Stored
<1>7. ASSUME NEW n \in Jobs, AskPointer(n) \/ ExitAnswered(n) PROVE Stored'
  <2>1. PICK to \in {"recovering", "recording", "clearing"}, answer \in Results,
            c \in [pc : {"off", "claim", "no"}, won : BOOLEAN] : ExitTo(n, to, answer, c)
    BY <1>7, ExitEffect
  <2>2. UNCHANGED <<store, pointer, queue>>
    BY <2>1 DEF ExitTo
  <2>3. CASE c.pc # "off"
    <3>1. pointer
      BY <2>1, <2>3 DEF ExitTo
    <3> QED
      BY <2>2, <3>1, KeepsFollowed DEF Stored
  <2>4. CASE c.pc = "off"
    <3>1. \A m \in Jobs, w \in Sites : call'[m][w].pc # "off" => call[m][w].pc # "off"
      <4>1. c \in [pc : CallPlaces, won : BOOLEAN] /\ "exit" \in Sites
        BY DEF CallPlaces, Sites
      <4>2. Called(n, "exit", c) => \A m \in Jobs,
                w \in Sites : call'[m][w] = call[m][w] \/ call'[m][w] = c
        BY <4>1 DEF Called, Shape, CallShape
      <4> QED
        BY <2>1, <2>4, <4>2 DEF ExitTo
    <3> QED
      BY <2>2, <3>1, KeepsFollowed DEF Stored
  <2> QED
    BY <2>3, <2>4
<1>8. ASSUME NEW n \in Jobs, ClearStore(n) PROVE Stored'
  <2>1. told # {}
    BY <1>8 DEF ClearStore, Goto, Answered
  <2>2. told' # {}
    BY <2>1, KeepsFollowed
  <2> QED
    BY <2>2 DEF Stored
<1>9. ASSUME NEW n \in Jobs, ClearPointer(n) PROVE Stored'
  <2>1. told # {}
    BY <1>9 DEF ClearPointer, Goto, Answered
  <2>2. told' # {}
    BY <2>1, KeepsFollowed
  <2> QED
    BY <2>2 DEF Stored
<1>10. ASSUME NEW n \in Jobs, Record(n) PROVE Stored'
  <2>1. UNCHANGED <<store, pointer, call>>
    BY <1>10 DEF Record
  <2>2. \A m \in Recoveries : queue'[m] # "none" => queue[m] # "none"
    BY <1>10 DEF Record, Shape, Jobs, Recoveries
  <2> QED
    BY <2>1, <2>2, KeepsFollowed DEF Stored
<1>11. ASSUME NEW n \in Jobs, Leave(n) PROVE Stored'
  <2>1. UNCHANGED <<store, pointer, call>>
    BY <1>11 DEF Leave
  <2>2. queue' = queue \/ (queue[n] # "none" /\ \A m \in Jobs \ {n} : queue'[m] = queue[m])
    BY <1>11 DEF Leave, Shape
  <2>3. \A m \in Recoveries : queue'[m] # "none" => queue[m] # "none"
    BY <2>2 DEF Jobs, Recoveries
  <2> QED
    BY <2>1, <2>3, KeepsFollowed DEF Stored
<1>12. ASSUME NEW n \in Jobs, Stall(n) PROVE Stored'
  <2>1. UNCHANGED <<store, pointer, call>>
    BY <1>12 DEF Stall
  <2>2. \A m \in Recoveries : queue'[m] # "none" => queue[m] # "none"
    BY <1>12 DEF Stall, Shape, Jobs, Recoveries
  <2> QED
    BY <2>1, <2>2, KeepsFollowed DEF Stored
<1>13. ASSUME NEW n \in Jobs, ListenRecord(n) PROVE Stored'
  <2>1. UNCHANGED <<store, pointer, call>>
    BY <1>13 DEF ListenRecord
  <2>2. \A m \in Recoveries : queue'[m] # "none" => queue[m] # "none"
    BY <1>13 DEF ListenRecord, Shape, Jobs, Recoveries
  <2> QED
    BY <2>1, <2>2, KeepsFollowed DEF Stored
<1>14. ASSUME NEW n \in Jobs, ListenPointer(n) PROVE Stored'
  <2>1. UNCHANGED <<store, pointer, queue>>
    BY <1>14 DEF ListenPointer
  <2>2. CASE pointer
    BY <2>1, <2>2, KeepsFollowed DEF Stored
  <2>3. CASE ~pointer
    <3>1. call' = call
      BY <1>14, <2>3 DEF ListenPointer
    <3> QED
      BY <2>1, <3>1, KeepsFollowed DEF Stored
  <2> QED
    BY <2>2, <2>3
<1>15. ASSUME NEW n \in Jobs, ListenAnswered(n) PROVE Stored'
  <2>1. UNCHANGED <<store, pointer, queue>>
    BY <1>15 DEF ListenAnswered
  <2>2. \A m \in Jobs, w \in Sites : call'[m][w].pc # "off" => call[m][w].pc # "off"
    BY <1>15, OffMade DEF ListenAnswered, Shape, CallShape
  <2> QED
    BY <2>1, <2>2, KeepsFollowed DEF Stored
<1>16. ASSUME NEW n \in Jobs, NEW who \in Sites, Enqueue(n, who) PROVE Stored'
  <2>1. PICK c \in [pc : {"ask", "add", "pend", "yes", "no"}, won : BOOLEAN] :
            CallTo(n, who, c)
    BY <1>16, CallEffect
  <2>2. call[n][who].pc # "off" /\ UNCHANGED <<store, pointer>>
    BY <2>1 DEF CallTo
  <2>3. store \/ told # {}
    BY <2>2 DEF Stored
  <2> QED
    BY <2>2, <2>3, KeepsFollowed DEF Stored
<1>17. ASSUME NEW s \in Sweepers, SweepRead(s) PROVE Stored'
  <2>1. UNCHANGED <<store, pointer, call>>
    BY <1>17 DEF SweepRead
  <2>2. \A m \in Recoveries : queue'[m] # "none" => queue[m] # "none"
    BY <1>17 DEF SweepRead, Shape, Jobs, Recoveries
  <2> QED
    BY <2>1, <2>2, KeepsFollowed DEF Stored
<1>18. ASSUME NEW s \in Sweepers, SweepTake(s) PROVE Stored'
  <2>1. UNCHANGED <<store, pointer, call>>
    BY <1>18 DEF SweepTake
  <2>2. \A m \in Recoveries : queue'[m] # "none" => queue[m] # "none"
    BY <1>18 DEF SweepTake, Shape, Jobs, Recoveries
  <2> QED
    BY <2>1, <2>2, KeepsFollowed DEF Stored
<1>19. ASSUME NEW s \in Sweepers, SweepLook(s) PROVE Stored'
  <2>1. UNCHANGED <<store, pointer, call>>
    BY <1>19 DEF SweepLook
  <2>2. \A m \in Recoveries : queue'[m] # "none" => queue[m] # "none"
    BY <1>19 DEF SweepLook, Shape, Jobs, Recoveries
  <2> QED
    BY <2>1, <2>2, KeepsFollowed DEF Stored
<1>20. ASSUME NEW s \in Sweepers, SweepRemove(s) PROVE Stored'
  <2>1. UNCHANGED <<store, pointer, call>>
    BY <1>20 DEF SweepRemove
  <2>2. queue' = queue \/ told' # {}
    BY <1>20 DEF SweepRemove
  <2> QED
    BY <2>1, <2>2, KeepsFollowed DEF Stored
<1>21. ASSUME NEW s \in Sweepers, SweeperDies(s) PROVE Stored'
  <2>1. UNCHANGED <<store, pointer, call>>
    BY <1>21 DEF SweeperDies
  <2>2. \A m \in Recoveries : queue'[m] # "none" => queue[m] # "none"
    BY <1>21 DEF SweeperDies, Shape, Jobs, Recoveries
  <2> QED
    BY <2>1, <2>2, KeepsFollowed DEF Stored
<1>22. CASE Deadline
  <2>1. UNCHANGED <<store, pointer, call>>
    BY <1>22 DEF Deadline
  <2>2. \A m \in Recoveries : queue'[m] # "none" => queue[m] # "none"
    BY <1>22 DEF Deadline, Shape, Jobs, Recoveries
  <2> QED
    BY <2>1, <2>2, KeepsFollowed DEF Stored
<1>23. CASE LongestWait
  <2>1. UNCHANGED <<store, pointer, call>>
    BY <1>23 DEF LongestWait
  <2>2. \A m \in Recoveries : queue'[m] # "none" => queue[m] # "none"
    BY <1>23 DEF LongestWait, Shape, Jobs, Recoveries
  <2> QED
    BY <2>1, <2>2, KeepsFollowed DEF Stored
<1>24. CASE Crash
  <2>1. UNCHANGED <<store, pointer, queue>>
    BY <1>24 DEF Crash
  <2>2. \A m \in Jobs, w \in Sites : call'[m][w].pc = "off"
    BY <1>24, OffMade DEF Crash, Sites
  <2> QED
    BY <2>1, <2>2, KeepsFollowed DEF Stored
<1>25. CASE Reboot
  <2>1. UNCHANGED <<store, pointer, call>>
    BY <1>25 DEF Reboot
  <2>2. \A m \in Recoveries : queue'[m] # "none" => queue[m] # "none"
    BY <1>25 DEF Reboot, Shape, Jobs, Recoveries
  <2> QED
    BY <2>1, <2>2, KeepsFollowed DEF Stored
<1>26. CASE UNCHANGED vars
  <2>1. UNCHANGED <<store, pointer, call>>
    BY <1>26 DEF vars
  <2>2. \A m \in Recoveries : queue'[m] # "none" => queue[m] # "none"
    BY <1>26 DEF vars, Shape, Jobs, Recoveries
  <2> QED
    BY <2>1, <2>2, KeepsFollowed DEF Stored
<1> QED
  BY <1>1, <1>2, <1>3, <1>4, <1>5, <1>6, <1>7, <1>8, <1>9, <1>10, <1>11, <1>12, <1>13,
     <1>14,
     <1>15, <1>16, <1>17, <1>18, <1>19, <1>20, <1>21, <1>22, <1>23, <1>24, <1>25, <1>26
  DEF Next, Work, Listener, Sweep, Sites

\* The run goes from job to job.
LEMMA CarryStep ==
  DurableAssumption /\ Shape /\ Ended /\ Answered /\ Carry /\ [Next]_vars => Carry'
<1>a. DurableAssumption => 0 \in Jobs
  BY DEF DurableAssumption, Jobs
<1> SUFFICES ASSUME DurableAssumption, Shape, Ended, Answered, Carry, [Next]_vars,
                    ~dropped', told' = {}, NEW k \in Jobs
             PROVE  Carried(k)'
  BY <1>a, StepKeeps DEF Carry, Kept
<1> USE DEF pickup, checkpoint, enqueuing, backstop, ghosts
<1>b. told = {} /\ (Follows(k) => Follows(k)')
  BY KeepsFollowed
<1>c. ~dropped => Carried(k)
  BY <1>b DEF Carry
<1>d. /\ result[k] \in {"continued", "retry", "none"}
          /\ record[k] \in {"continued", "retry", "none"}
      /\ result[k] = "continued" \/ record[k] = "continued" => Follows(k)
  BY <1>b DEF Answered, Shape, Ended, Results
<1>1. ASSUME NEW n \in Jobs, Pickup(n) PROVE Carried(k)'
  <2>1. UNCHANGED <<dropped, listener>>
    BY <1>1 DEF Pickup
  <2>2. queue'[k] = queue[k] \/ queue'[k] \in {"waiting", "active"}
    BY <1>1 DEF Pickup, Shape
  <2> QED
    BY <1>b, <1>c, <2>1, <2>2 DEF Carried
<1>2. ASSUME NEW n \in Jobs, Gates(n) PROVE Carried(k)'
  <2>0. PICK to \in {"idle", "pointer", "manifest", "start", "recording", "clearing"},
            answer \in Results : GateTo(n, to, answer)
    BY <1>2, GateEffect
  <2>1. UNCHANGED <<dropped, listener>>
    BY <2>0 DEF GateTo
  <2>2. queue'[k] = queue[k] \/ queue'[k] \in {"waiting", "active"}
    BY <2>0 DEF GateTo, Shape
  <2> QED
    BY <1>b, <1>c, <2>1, <2>2 DEF Carried
<1>3. ASSUME NEW n \in Jobs, Start(n) PROVE Carried(k)'
  <2>1. UNCHANGED <<dropped, listener>>
    BY <1>3 DEF Start
  <2>2. queue'[k] = queue[k] \/ queue'[k] \in {"waiting", "active"}
    BY <1>3 DEF Start
  <2> QED
    BY <1>b, <1>c, <2>1, <2>2 DEF Carried
<1>4. ASSUME NEW n \in Jobs, Checkpoint(n) PROVE Carried(k)'
  <2>1. UNCHANGED <<dropped, listener>>
    BY <1>4 DEF Checkpoint
  <2>2. queue'[k] = queue[k] \/ queue'[k] \in {"waiting", "active"}
    BY <1>4 DEF Checkpoint
  <2> QED
    BY <1>b, <1>c, <2>1, <2>2 DEF Carried
<1>5. ASSUME NEW n \in Jobs, Complete(n) PROVE Carried(k)'
  <2>1. UNCHANGED <<dropped, listener>>
    BY <1>5 DEF Complete
  <2>2. queue'[k] = queue[k] \/ queue'[k] \in {"waiting", "active"}
    BY <1>5 DEF Complete
  <2> QED
    BY <1>b, <1>c, <2>1, <2>2 DEF Carried
<1>6. ASSUME NEW n \in Jobs, InfraExit(n) PROVE Carried(k)'
  <2>1. UNCHANGED <<dropped, listener>>
    BY <1>6 DEF InfraExit
  <2>2. queue'[k] = queue[k] \/ queue'[k] \in {"waiting", "active"}
    BY <1>6 DEF InfraExit
  <2> QED
    BY <1>b, <1>c, <2>1, <2>2 DEF Carried
<1>7. ASSUME NEW n \in Jobs, AskPointer(n) \/ ExitAnswered(n) PROVE Carried(k)'
  <2>0. PICK to \in {"recovering", "recording", "clearing"}, answer \in Results,
            c \in [pc : {"off", "claim", "no"}, won : BOOLEAN] : ExitTo(n, to, answer, c)
    BY <1>7, ExitEffect
  <2>1. UNCHANGED <<dropped, listener>>
    BY <2>0 DEF ExitTo
  <2>2. queue'[k] = queue[k] \/ queue'[k] \in {"waiting", "active"}
    BY <2>0 DEF ExitTo, Shape
  <2> QED
    BY <1>b, <1>c, <2>1, <2>2 DEF Carried
<1>8. ASSUME NEW n \in Jobs, ClearStore(n) PROVE Carried(k)'
  <2>1. UNCHANGED <<dropped, listener>>
    BY <1>8 DEF ClearStore
  <2>2. queue'[k] = queue[k] \/ queue'[k] \in {"waiting", "active"}
    BY <1>8 DEF ClearStore
  <2> QED
    BY <1>b, <1>c, <2>1, <2>2 DEF Carried
<1>9. ASSUME NEW n \in Jobs, ClearPointer(n) PROVE Carried(k)'
  <2>1. UNCHANGED <<dropped, listener>>
    BY <1>9 DEF ClearPointer
  <2>2. queue'[k] = queue[k] \/ queue'[k] \in {"waiting", "active"}
    BY <1>9 DEF ClearPointer
  <2> QED
    BY <1>b, <1>c, <2>1, <2>2 DEF Carried
<1>10. ASSUME NEW n \in Jobs, Record(n) PROVE Carried(k)'
  <2>1. UNCHANGED <<dropped, listener>>
    BY <1>10 DEF Record
  <2>2. queue'[k] = queue[k] \/ queue'[k] \in {"waiting", "active"}
    BY <1>10 DEF Record
  <2> QED
    BY <1>b, <1>c, <2>1, <2>2 DEF Carried
<1>11. ASSUME NEW n \in Jobs, Leave(n) PROVE Carried(k)'
  <2>1. UNCHANGED <<dropped, listener>>
    BY <1>11 DEF Leave
  <2>2. CASE k # n \/ queue[n] # "active"
    <3>1. queue'[k] = queue[k]
      BY <1>11, <2>2 DEF Leave, Shape
    <3> QED
      BY <1>b, <1>c, <2>1, <3>1 DEF Carried
  <2>3. CASE k = n /\ queue[n] = "active"
    <3>1. result[n] \in {"continued", "retry"}
      BY <1>11, <1>d, <2>3 DEF Leave, Goto, Ended
    <3>2. CASE result[n] = "retry"
      <4>1. CASE Again
        BY <1>11, <2>3, <3>2, <4>1 DEF Leave, Shape, Carried
      <4>2. CASE ~Again
        <5>1. <<n, "failed">> \in told'
          BY <1>11, <2>3, <3>2, <4>2 DEF Leave
        <5> QED
          BY <5>1
      <4> QED
        BY <4>1, <4>2
    <3>3. CASE result[n] = "continued"
      <4>1. queue'[n] = "settled"
        BY <1>11, <2>3, <3>3 DEF Leave, Shape
      <4> QED
        BY <1>b, <1>d, <2>3, <3>3, <4>1 DEF Carried
    <3> QED
      BY <3>1, <3>2, <3>3
  <2> QED
    BY <2>2, <2>3
<1>12. ASSUME NEW n \in Jobs, Stall(n) PROVE Carried(k)'
  <2>1. dropped' = dropped
    BY <1>12 DEF Stall
  <2>2. CASE k # n
    <3>1. queue'[k] = queue[k] /\ listener'[k] = listener[k]
      BY <1>12, <2>2 DEF Stall, Shape
    <3> QED
      BY <1>b, <1>c, <2>1, <3>1 DEF Carried
  <2>3. CASE k = n
    <3>1. queue'[k] = "stalled" /\ listener'[k] = "record"
      BY <1>12, <2>3 DEF Stall, Shape
    <3> QED
      BY <3>1 DEF Carried
  <2> QED
    BY <2>2, <2>3
<1>13. ASSUME NEW n \in Jobs, ListenRecord(n) PROVE Carried(k)'
  <2>1. UNCHANGED <<dropped, queue>>
    BY <1>13 DEF ListenRecord
  <2>2. \/ listener'[k] = listener[k]
        \/ listener'[k] = "pointer"
        \/ k = n /\ record[k] \notin {"none", "retry"}
    BY <1>13 DEF ListenRecord, Heard, Shape
  <2> QED
    BY <1>b, <1>c, <1>d, <2>1, <2>2, <1>13 DEF Carried, ListenRecord, Heard
<1>14. ASSUME NEW n \in Jobs, ListenPointer(n) PROVE Carried(k)'
  <2>1. UNCHANGED <<dropped, queue>>
    BY <1>14 DEF ListenPointer
  <2>2. Heard(n, "pointer", "recovering")
    <3>1. ~(told' = told \cup {<<n, "failed">>})
      OBVIOUS
    <3> QED
      BY <1>14, <3>1 DEF ListenPointer
  <2>3. listener'[k] = listener[k] \/ listener'[k] = "recovering"
    BY <2>2 DEF Heard, Shape
  <2>4. CASE listener'[k] = listener[k]
    BY <1>b, <1>c, <2>1, <2>4 DEF Carried
  <2>5. CASE k = n /\ listener'[k] = "recovering"
    <3>1. listener[k] = "pointer"
      BY <2>2, <2>5 DEF Heard
    <3> QED
      BY <1>b, <1>c, <2>1, <2>5, <3>1 DEF Carried
  <2>6. k # n => listener'[k] = listener[k]
    BY <2>2 DEF Heard, Shape
  <2> QED
    BY <2>3, <2>4, <2>5, <2>6
<1>15. ASSUME NEW n \in Jobs, ListenAnswered(n) PROVE Carried(k)'
  <2>1. UNCHANGED <<dropped, queue>>
    BY <1>15 DEF ListenAnswered
  <2>2. CASE k # n
    <3>1. listener'[k] = listener[k]
      BY <1>15, <2>2 DEF ListenAnswered, Heard, Shape
    <3> QED
      BY <1>b, <1>c, <2>1, <3>1 DEF Carried
  <2>3. CASE k = n
    <3>1. call[n]["stall"].pc = "yes"
      <4>1. ~(told' = told \cup {<<n, "failed">>})
        OBVIOUS
      <4> QED
        BY <1>15, <4>1 DEF ListenAnswered
    <3>2. Follows(k)
      BY <2>3, <3>1 DEF Answered, Sites
    <3> QED
      BY <1>b, <1>c, <2>1, <3>2 DEF Carried
  <2> QED
    BY <2>2, <2>3
<1>16. ASSUME NEW n \in Jobs, NEW who \in Sites, Enqueue(n, who) PROVE Carried(k)'
  <2>0. PICK c \in [pc : {"ask", "add", "pend", "yes", "no"}, won : BOOLEAN] :
            CallTo(n, who, c)
    BY <1>16, CallEffect
  <2>1. UNCHANGED <<dropped, listener>>
    BY <2>0 DEF CallTo
  <2>2. queue'[k] = queue[k] \/ queue'[k] \in {"waiting", "active"}
    BY <2>0 DEF CallTo, Shape
  <2> QED
    BY <1>b, <1>c, <2>1, <2>2 DEF Carried
<1>17. ASSUME NEW s \in Sweepers, SweepRead(s) PROVE Carried(k)'
  <2>1. UNCHANGED <<dropped, listener>>
    BY <1>17 DEF SweepRead
  <2>2. queue'[k] = queue[k] \/ queue'[k] \in {"waiting", "active"}
    BY <1>17 DEF SweepRead
  <2> QED
    BY <1>b, <1>c, <2>1, <2>2 DEF Carried
<1>18. ASSUME NEW s \in Sweepers, SweepTake(s) PROVE Carried(k)'
  <2>1. UNCHANGED <<dropped, listener>>
    BY <1>18 DEF SweepTake
  <2>2. queue'[k] = queue[k] \/ queue'[k] \in {"waiting", "active"}
    BY <1>18 DEF SweepTake
  <2> QED
    BY <1>b, <1>c, <2>1, <2>2 DEF Carried
<1>19. ASSUME NEW s \in Sweepers, SweepLook(s) PROVE Carried(k)'
  <2>1. UNCHANGED <<dropped, listener>>
    BY <1>19 DEF SweepLook
  <2>2. queue'[k] = queue[k] \/ queue'[k] \in {"waiting", "active"}
    BY <1>19 DEF SweepLook
  <2> QED
    BY <1>b, <1>c, <2>1, <2>2 DEF Carried
<1>20. ASSUME NEW s \in Sweepers, SweepRemove(s) PROVE Carried(k)'
  <2>1. UNCHANGED <<dropped, listener>> /\ ~(told' = told \cup {<<sweep[s].member[1], s>>})
    BY <1>20 DEF SweepRemove
  <2>2. queue' = queue
    BY <1>20, <2>1 DEF SweepRemove
  <2> QED
    BY <1>b, <1>c, <2>1, <2>2 DEF Carried
<1>21. ASSUME NEW s \in Sweepers, SweeperDies(s) PROVE Carried(k)'
  <2>1. ~dropped /\ UNCHANGED <<queue, listener>>
    BY <1>21 DEF SweeperDies
  <2> QED
    BY <1>b, <1>c, <2>1 DEF Carried
<1>22. CASE Deadline
  <2>1. UNCHANGED <<dropped, listener>>
    BY <1>22 DEF Deadline
  <2>2. queue'[k] = queue[k] \/ queue'[k] \in {"waiting", "active"}
    BY <1>22 DEF Deadline
  <2> QED
    BY <1>b, <1>c, <2>1, <2>2 DEF Carried
<1>23. CASE LongestWait
  <2>1. UNCHANGED <<dropped, listener>>
    BY <1>23 DEF LongestWait
  <2>2. queue'[k] = queue[k] \/ queue'[k] \in {"waiting", "active"}
    BY <1>23 DEF LongestWait
  <2> QED
    BY <1>b, <1>c, <2>1, <2>2 DEF Carried
<1>24. CASE Crash
  <2>1. ~dropped /\ queue' = queue /\ listener[k] \in {"none", "done"}
    BY <1>24 DEF Crash
  <2> QED
    BY <1>b, <1>c, <2>1 DEF Carried
<1>25. CASE Reboot
  <2>1. UNCHANGED <<dropped, listener>>
    BY <1>25 DEF Reboot
  <2>2. queue'[k] = queue[k] \/ queue'[k] \in {"waiting", "active"}
    BY <1>25 DEF Reboot
  <2> QED
    BY <1>b, <1>c, <2>1, <2>2 DEF Carried
<1>26. CASE UNCHANGED vars
  <2>1. UNCHANGED <<dropped, listener>>
    BY <1>26 DEF vars
  <2>2. queue'[k] = queue[k] \/ queue'[k] \in {"waiting", "active"}
    BY <1>26 DEF vars
  <2> QED
    BY <1>b, <1>c, <2>1, <2>2 DEF Carried
<1> QED
  BY <1>1, <1>2, <1>3, <1>4, <1>5, <1>6, <1>7, <1>8, <1>9, <1>10, <1>11, <1>12, <1>13,
     <1>14,
     <1>15, <1>16, <1>17, <1>18, <1>19, <1>20, <1>21, <1>22, <1>23, <1>24, <1>25, <1>26
  DEF Next, Work, Listener, Sweep, Sites

\* No sweep decides over a host that lives, before the longest wait.
LEMMA SparedStep ==
  DurableAssumption /\ Shape /\ Counted /\ Spared /\ [Next]_vars => Spared'
<1> SUFFICES ASSUME DurableAssumption, Shape, Counted, Spared, [Next]_vars,
                    spent'["crashes"] = 0, ~hard'
             PROVE  up' /\ (\A s \in Sweepers : sweep'[s].pc # "remove")
                /\ \A x \in told' : x[2] \notin Sweepers
  BY DEF Spared, Alive
<1> DEFINE Goal == up' /\ (\A s \in Sweepers : sweep'[s].pc # "remove")
   /\ \A x \in told' : x[2] \notin Sweepers
<1>a. spent["crashes"] = 0 /\ ~Spend("crashes")
  BY SpentCounts DEF Kinds
<1>b. hard \/ (up /\ (\A s \in Sweepers : sweep[s].pc # "remove")
          /\ \A x \in told : x[2] \notin Sweepers)
  BY <1>a DEF Spared, Alive
<1>c. \A k \in Comments : k \notin Sweepers
  BY DEF DurableAssumption
<1> USE <1>a, <1>b, <1>c DEF Comments, pickup, checkpoint, enqueuing, backstop, ghosts
<1>1. ASSUME NEW n \in Jobs, Pickup(n) PROVE Goal
  BY <1>1 DEF Pickup, Goto
<1>2. ASSUME NEW n \in Jobs, Gates(n) PROVE Goal
  <2>1. PICK to \in {"idle", "pointer", "manifest", "start", "recording", "clearing"},
            answer \in Results : GateTo(n, to, answer)
    BY <1>2, GateEffect
  <2>2. UNCHANGED <<up, sweep, hard>> /\ \A x \in told' : x \in told \/ x[2] = "absent"
    BY <2>1 DEF GateTo
  <2> QED
    BY <2>2
<1>3. ASSUME NEW n \in Jobs, Start(n) PROVE Goal
  BY <1>3 DEF Start, Goto
<1>4. ASSUME NEW n \in Jobs, Checkpoint(n) PROVE Goal
  BY <1>4 DEF Checkpoint
<1>5. ASSUME NEW n \in Jobs, Complete(n) PROVE Goal
  BY <1>5 DEF Complete, Goto, Answer
<1>6. ASSUME NEW n \in Jobs, InfraExit(n) PROVE Goal
  BY <1>6 DEF InfraExit, Goto
<1>7. ASSUME NEW n \in Jobs, AskPointer(n) \/ ExitAnswered(n) PROVE Goal
  <2>1. PICK to \in {"recovering", "recording", "clearing"}, answer \in Results,
            c \in [pc : {"off", "claim", "no"}, won : BOOLEAN] : ExitTo(n, to, answer, c)
    BY <1>7, ExitEffect
  <2>2. c \in [pc : CallPlaces, won : BOOLEAN] /\ "exit" \in Sites
    BY DEF CallPlaces, Sites
  <2>3. UNCHANGED <<up, sweep, hard>> /\ \A x \in told' : x \in told
            \/ x[2] = "recovery-failed"
    BY <2>1 DEF ExitTo
  <2> QED
    BY <2>3
<1>8. ASSUME NEW n \in Jobs, ClearStore(n) PROVE Goal
  BY <1>8 DEF ClearStore, Goto
<1>9. ASSUME NEW n \in Jobs, ClearPointer(n) PROVE Goal
  BY <1>9 DEF ClearPointer, Goto
<1>10. ASSUME NEW n \in Jobs, Record(n) PROVE Goal
  BY <1>10 DEF Record, Goto
<1>11. ASSUME NEW n \in Jobs, Leave(n) PROVE Goal
  BY <1>11 DEF Leave, Goto
<1>12. ASSUME NEW n \in Jobs, Stall(n) PROVE Goal
  BY <1>12 DEF Stall
<1>13. ASSUME NEW n \in Jobs, ListenRecord(n) PROVE Goal
  BY <1>13 DEF ListenRecord, Heard
<1>14. ASSUME NEW n \in Jobs, ListenPointer(n) PROVE Goal
  BY <1>14 DEF ListenPointer, Heard, Ask
<1>15. ASSUME NEW n \in Jobs, ListenAnswered(n) PROVE Goal
  BY <1>15 DEF ListenAnswered, Heard
<1>16. ASSUME NEW n \in Jobs, NEW who \in Sites, Enqueue(n, who) PROVE Goal
  <2>1. PICK c \in [pc : {"ask", "add", "pend", "yes", "no"}, won : BOOLEAN] :
            CallTo(n, who, c)
    BY <1>16, CallEffect
  <2>2. c \in [pc : CallPlaces, won : BOOLEAN] /\ n < Cap
    BY <2>1 DEF CallTo, CallPlaces, Shape, CallShape
  <2>3. UNCHANGED <<up, sweep, told, hard>>
    BY <2>1 DEF CallTo
  <2> QED
    BY <2>3
<1>17. ASSUME NEW s \in Sweepers, SweepRead(s) PROVE Goal
  <2>1. UNCHANGED <<up, told, hard>>
    BY <1>17 DEF SweepRead
  <2>2. \A r \in Sweepers : sweep'[r].pc = "remove" => sweep[r].pc = "remove"
    BY <1>17 DEF SweepRead, TakeMember, Sweeping, Shape, SweepShape
  <2> QED
    BY <2>1, <2>2
<1>18. ASSUME NEW s \in Sweepers, SweepTake(s) PROVE Goal
  <2>1. UNCHANGED <<up, told, hard>>
    BY <1>18 DEF SweepTake
  <2>2. \A r \in Sweepers : sweep'[r].pc = "remove" => sweep[r].pc = "remove"
    BY <1>18 DEF SweepTake, TakeMember, Sweeping, Shape, SweepShape
  <2> QED
    BY <2>1, <2>2
<1>19. ASSUME NEW s \in Sweepers, SweepLook(s) PROVE Goal
  <2>1. UNCHANGED <<up, told, hard>>
    BY <1>19 DEF SweepLook
  <2>2. \A r \in Sweepers : sweep'[r].pc = "remove"
            => sweep[r].pc = "remove" \/ hard \/ FALSE \in Excused
    <3>1. PICK to \in {"remove", "rest"}, x \in {sweep[s].member, Rest.member} :
              Sweeping(s, "look", to, x) /\ (to = "rest" \/ hard \/ FALSE \in Excused)
      BY <1>19 DEF SweepLook
    <3> QED
      BY <3>1 DEF Sweeping, Shape, SweepShape
  <2> QED
    BY <2>1, <2>2 DEF Excused
<1>20. ASSUME NEW s \in Sweepers, SweepRemove(s) PROVE Goal
  <2>1. sweep[s].pc = "remove" /\ UNCHANGED hard
    BY <1>20 DEF SweepRemove, Sweeping
  <2> QED
    BY <2>1
<1>21. ASSUME NEW s \in Sweepers, SweeperDies(s) PROVE Goal
  <2>1. Spend("crashes")
    BY <1>21 DEF SweeperDies
  <2> QED
    BY <2>1
<1>22. CASE Deadline
  BY <1>22 DEF Deadline
<1>23. CASE LongestWait
  BY <1>23 DEF LongestWait
<1>24. CASE Crash
  <2>1. Spend("crashes")
    BY <1>24 DEF Crash
  <2> QED
    BY <2>1
<1>25. CASE Reboot
  BY <1>25 DEF Reboot
<1>26. CASE UNCHANGED vars
  BY <1>26 DEF vars
<1> QED
  BY <1>1, <1>2, <1>3, <1>4, <1>5, <1>6, <1>7, <1>8, <1>9, <1>10, <1>11, <1>12, <1>13,
     <1>14,
     <1>15, <1>16, <1>17, <1>18, <1>19, <1>20, <1>21, <1>22, <1>23, <1>24, <1>25, <1>26
  DEF Next, Work, Listener, Sweep, Sites

\* What a recovery finds gone was cleared up, and what was cleared up is found gone.
LEMMA BackedStep ==
  DurableAssumption /\ Shape /\ Callers /\ Alone /\ Counted /\ Backed
     /\ [Next]_vars => Backed'
<1> DEFINE Goal == /\ ~beside'
                   /\ pointer' => store' \/ \E n \in Jobs : at'[n] = "unpointing"
                   /\ \A n \in Jobs : at'[n] = "manifest" => store'
                   /\ \A n \in Jobs : <<n, "absent">> \notin told'
<1> SUFFICES ASSUME DurableAssumption, Shape, Callers, Alone, Counted, Backed,
                    [Next]_vars, spent'["faults"] = 0, ~cut'
             PROVE  Goal
  BY DEF Backed, Faultless
<1>a. spent["faults"] = 0 /\ ~Spend("faults")
  BY FaultsCount
<1>b. cut \/ (/\ ~beside
              /\ pointer => store \/ \E n \in Jobs : at[n] = "unpointing"
              /\ \A n \in Jobs : at[n] = "manifest" => store
              /\ \A n \in Jobs : <<n, "absent">> \notin told)
  BY <1>a DEF Backed, Faultless
<1>c. ~beside => \A j, k \in Jobs : at[j] \in Deep /\ at[k] \in Deep => j = k
  BY DEF Alone
<1> USE <1>a, <1>b DEF pickup, checkpoint, enqueuing, backstop, ghosts
<1>1. ASSUME NEW n \in Jobs, Pickup(n) PROVE Goal
  BY <1>1 DEF Pickup, Goto
<1>2. ASSUME NEW n \in Jobs, Gates(n) PROVE Goal
  <2>1. PICK to \in {"idle", "pointer", "manifest", "start", "recording", "clearing"},
            answer \in Results : GateTo(n, to, answer)
    BY <1>2, GateEffect
  <2> QED
    BY <2>1 DEF GateTo, Steps
<1>3. ASSUME NEW n \in Jobs, Start(n) PROVE Goal
  BY <1>3 DEF Start, Goto
<1>4. ASSUME NEW n \in Jobs, Checkpoint(n) PROVE Goal
  BY <1>4 DEF Checkpoint
<1>5. ASSUME NEW n \in Jobs, Complete(n) PROVE Goal
  BY <1>5 DEF Complete, Goto, Answer
<1>6. ASSUME NEW n \in Jobs, InfraExit(n) PROVE Goal
  BY <1>6 DEF InfraExit, Goto
<1>7. ASSUME NEW n \in Jobs, AskPointer(n) \/ ExitAnswered(n) PROVE Goal
  <2>1. PICK to \in {"recovering", "recording", "clearing"}, answer \in Results,
            c \in [pc : {"off", "claim", "no"}, won : BOOLEAN] : ExitTo(n, to, answer, c)
    BY <1>7, ExitEffect
  <2> QED
    BY <2>1 DEF ExitTo, Steps
<1>8. ASSUME NEW n \in Jobs, ClearStore(n) PROVE Goal
  <2>1. at[n] = "clearing" /\ at'[n] = "unpointing" /\ \A m \in Jobs \ {n} : at'[m] = at[m]
    BY <1>8 DEF ClearStore, Goto, Shape
  <2>2. UNCHANGED <<pointer, beside, told, cut>>
    BY <1>8 DEF ClearStore
  <2>3. \A m \in Jobs : at'[m] # "manifest"
    BY <2>1, <2>2, <1>c DEF Deep
  <2> QED
    BY <2>1, <2>2, <2>3
<1>9. ASSUME NEW n \in Jobs, ClearPointer(n) PROVE Goal
  BY <1>9 DEF ClearPointer, Goto
<1>10. ASSUME NEW n \in Jobs, Record(n) PROVE Goal
  BY <1>10 DEF Record, Goto
<1>11. ASSUME NEW n \in Jobs, Leave(n) PROVE Goal
  BY <1>11 DEF Leave, Goto
<1>12. ASSUME NEW n \in Jobs, Stall(n) PROVE Goal
  BY <1>12 DEF Stall
<1>13. ASSUME NEW n \in Jobs, ListenRecord(n) PROVE Goal
  BY <1>13 DEF ListenRecord, Heard
<1>14. ASSUME NEW n \in Jobs, ListenPointer(n) PROVE Goal
  BY <1>14 DEF ListenPointer, Heard, Ask
<1>15. ASSUME NEW n \in Jobs, ListenAnswered(n) PROVE Goal
  BY <1>15 DEF ListenAnswered, Heard
<1>16. ASSUME NEW n \in Jobs, NEW who \in Sites, Enqueue(n, who) PROVE Goal
  <2>1. PICK c \in [pc : {"ask", "add", "pend", "yes", "no"}, won : BOOLEAN] :
            CallTo(n, who, c)
    BY <1>16, CallEffect
  <2> QED
    BY <2>1 DEF CallTo
<1>17. ASSUME NEW s \in Sweepers, SweepRead(s) PROVE Goal
  BY <1>17 DEF SweepRead, Sweeping
<1>18. ASSUME NEW s \in Sweepers, SweepTake(s) PROVE Goal
  BY <1>18 DEF SweepTake, TakeMember, Sweeping
<1>19. ASSUME NEW s \in Sweepers, SweepLook(s) PROVE Goal
  BY <1>19 DEF SweepLook, Sweeping
<1>20. ASSUME NEW s \in Sweepers, SweepRemove(s) PROVE Goal
  <2>1. UNCHANGED <<pointer, store, at, beside, cut>>
    BY <1>20 DEF SweepRemove
  <2>2. told' = told \/ told' = told \cup {<<sweep[s].member[1], s>>}
    BY <1>20 DEF SweepRemove
  <2>3. s # "absent"
    BY DEF DurableAssumption, Comments
  <2> QED
    BY <2>1, <2>2, <2>3
<1>21. ASSUME NEW s \in Sweepers, SweeperDies(s) PROVE Goal
  BY <1>21 DEF SweeperDies
<1>22. CASE Deadline
  BY <1>22 DEF Deadline
<1>23. CASE LongestWait
  BY <1>23 DEF LongestWait
<1>24. CASE Crash
  BY <1>24 DEF Crash
<1>25. CASE Reboot
  BY <1>25 DEF Reboot
<1>26. CASE UNCHANGED vars
  BY <1>26 DEF vars
<1> QED
  BY <1>1, <1>2, <1>3, <1>4, <1>5, <1>6, <1>7, <1>8, <1>9, <1>10, <1>11, <1>12, <1>13,
     <1>14,
     <1>15, <1>16, <1>17, <1>18, <1>19, <1>20, <1>21, <1>22, <1>23, <1>24, <1>25, <1>26
  DEF Next, Work, Listener, Sweep, Sites

\* The run's own job is picked up while it has an attempt left.
LEMMA NumbersStep ==
  DurableAssumption /\ Shape /\ Callers /\ Numbers /\ [Next]_vars => Numbers'
<1> SUFFICES ASSUME DurableAssumption, Shape, Callers, Numbers, [Next]_vars PROVE Numbers'
  OBVIOUS
<1>0. 0 \in Jobs
  BY DEF DurableAssumption, Jobs
<1> USE DEF pickup, checkpoint, enqueuing, backstop, ghosts
<1>1. ASSUME NEW n \in Jobs, Pickup(n) PROVE Numbers'
  <2>1. /\ UNCHANGED <<claim, hard>> /\ queue[n] = "waiting" /\ queue'[n] = "active"
        /\ tries' = IF n = 0 THEN tries + 1 ELSE tries
        /\ \A k \in Jobs \ {n} : queue'[k] = queue[k]
    BY <1>1 DEF Pickup, Shape
  <2> QED
    BY <2>1, <1>0 DEF Numbers, DurableAssumption
<1>2. ASSUME NEW n \in Jobs, Gates(n) PROVE Numbers'
  <2>1. UNCHANGED <<claim, hard, tries>>
    BY <1>2 DEF Gates, ReadRecord, ReadPointer, ReadManifest, Hold
  <2>2. PICK to \in {"idle", "pointer", "manifest", "start", "recording", "clearing"},
          answer \in Results : GateTo(n, to, answer)
    BY <1>2, GateEffect
  <2>3. n # 0
    BY <2>2 DEF GateTo, Callers
  <2>4. queue'[0] = queue[0]
    BY <2>2, <2>3, <1>0 DEF GateTo, Shape
  <2> QED
    BY <2>1, <2>4 DEF Numbers
<1>3. ASSUME NEW n \in Jobs, Start(n) PROVE Numbers'
  <2>1. UNCHANGED <<claim, hard, tries, queue>>
    BY <1>3 DEF Start
  <2> QED
    BY <2>1 DEF Numbers
<1>4. ASSUME NEW n \in Jobs, Checkpoint(n) PROVE Numbers'
  <2>1. UNCHANGED <<claim, hard, tries, queue>>
    BY <1>4 DEF Checkpoint
  <2> QED
    BY <2>1 DEF Numbers
<1>5. ASSUME NEW n \in Jobs, Complete(n) PROVE Numbers'
  <2>1. UNCHANGED <<claim, hard, tries, queue>>
    BY <1>5 DEF Complete
  <2> QED
    BY <2>1 DEF Numbers
<1>6. ASSUME NEW n \in Jobs, InfraExit(n) PROVE Numbers'
  <2>1. UNCHANGED <<claim, hard, tries, queue>>
    BY <1>6 DEF InfraExit
  <2> QED
    BY <2>1 DEF Numbers
<1>7. ASSUME NEW n \in Jobs, AskPointer(n) \/ ExitAnswered(n) PROVE Numbers'
  <2>1. UNCHANGED <<claim, hard, tries, queue>>
    BY <1>7 DEF AskPointer, ExitAnswered
  <2> QED
    BY <2>1 DEF Numbers
<1>8. ASSUME NEW n \in Jobs, ClearStore(n) PROVE Numbers'
  <2>1. UNCHANGED <<claim, hard, tries, queue>>
    BY <1>8 DEF ClearStore
  <2> QED
    BY <2>1 DEF Numbers
<1>9. ASSUME NEW n \in Jobs, ClearPointer(n) PROVE Numbers'
  <2>1. UNCHANGED <<claim, hard, tries, queue>>
    BY <1>9 DEF ClearPointer
  <2> QED
    BY <2>1 DEF Numbers
<1>10. ASSUME NEW n \in Jobs, Record(n) PROVE Numbers'
  <2>1. UNCHANGED <<claim, hard, tries, queue>>
    BY <1>10 DEF Record
  <2> QED
    BY <2>1 DEF Numbers
<1>11. ASSUME NEW n \in Jobs, Leave(n) PROVE Numbers'
  <2>1. UNCHANGED <<claim, hard, tries>>
    BY <1>11 DEF Leave
  <2>2. queue'[0] = "waiting" => queue[0] = "waiting" \/ tries < Attempts
    BY <1>11, <1>0 DEF Leave, Again, Shape
  <2> QED
    BY <2>1, <2>2 DEF Numbers
<1>12. ASSUME NEW n \in Jobs, Stall(n) PROVE Numbers'
  <2>1. UNCHANGED <<claim, hard, tries>>
    BY <1>12 DEF Stall
  <2>2. queue'[0] = "waiting" => queue[0] = "waiting"
    BY <1>12, <1>0 DEF Stall, Shape
  <2> QED
    BY <2>1, <2>2 DEF Numbers
<1>13. ASSUME NEW n \in Jobs, ListenRecord(n) PROVE Numbers'
  <2>1. UNCHANGED <<claim, hard, tries, queue>>
    BY <1>13 DEF ListenRecord
  <2> QED
    BY <2>1 DEF Numbers
<1>14. ASSUME NEW n \in Jobs, ListenPointer(n) PROVE Numbers'
  <2>1. UNCHANGED <<claim, hard, tries, queue>>
    BY <1>14 DEF ListenPointer
  <2> QED
    BY <2>1 DEF Numbers
<1>15. ASSUME NEW n \in Jobs, ListenAnswered(n) PROVE Numbers'
  <2>1. UNCHANGED <<claim, hard, tries, queue>>
    BY <1>15 DEF ListenAnswered
  <2> QED
    BY <2>1 DEF Numbers
<1>16. ASSUME NEW n \in Jobs, NEW who \in Sites, Enqueue(n, who) PROVE Numbers'
  <2>1. PICK c \in [pc : {"ask", "add", "pend", "yes", "no"}, won : BOOLEAN] :
            CallTo(n, who, c)
    BY <1>16, CallEffect
  <2>2. c \in [pc : CallPlaces, won : BOOLEAN] /\ n < Cap
    BY <2>1 DEF CallTo, CallPlaces, Shape, CallShape
  <2>3. n + 1 \in Recoveries /\ n + 1 # 0
    BY <2>2 DEF DurableAssumption, Jobs, Recoveries
  <2>4. UNCHANGED <<tries, hard>> /\ claim' \subseteq claim \cup {n + 1}
    BY <1>16 DEF Enqueue, Claim, AskJob, Add, Pend
  <2>5. queue'[0] = queue[0]
    BY <2>1, <2>3, <1>0 DEF CallTo, Shape
  <2> QED
    BY <2>3, <2>4, <2>5 DEF Numbers
<1>17. ASSUME NEW s \in Sweepers, SweepRead(s) PROVE Numbers'
  <2>1. UNCHANGED <<claim, hard, tries, queue>>
    BY <1>17 DEF SweepRead
  <2> QED
    BY <2>1 DEF Numbers
<1>18. ASSUME NEW s \in Sweepers, SweepTake(s) PROVE Numbers'
  <2>1. UNCHANGED <<claim, hard, tries, queue>>
    BY <1>18 DEF SweepTake
  <2> QED
    BY <2>1 DEF Numbers
<1>19. ASSUME NEW s \in Sweepers, SweepLook(s) PROVE Numbers'
  <2>1. UNCHANGED <<claim, hard, tries, queue>>
    BY <1>19 DEF SweepLook
  <2> QED
    BY <2>1 DEF Numbers
<1>20. ASSUME NEW s \in Sweepers, SweepRemove(s) PROVE Numbers'
  <2>1. UNCHANGED <<claim, hard, tries>>
    BY <1>20 DEF SweepRemove
  <2>2. queue'[0] = "waiting" => queue[0] = "waiting"
    BY <1>20, <1>0 DEF SweepRemove, Shape
  <2> QED
    BY <2>1, <2>2 DEF Numbers
<1>21. ASSUME NEW s \in Sweepers, SweeperDies(s) PROVE Numbers'
  <2>1. UNCHANGED <<claim, hard, tries, queue>>
    BY <1>21 DEF SweeperDies
  <2> QED
    BY <2>1 DEF Numbers
<1>22. CASE Deadline
  <2>1. UNCHANGED <<claim, hard, tries, queue>>
    BY <1>22 DEF Deadline
  <2> QED
    BY <2>1 DEF Numbers
<1>23. CASE LongestWait
  <2>1. hard' = TRUE /\ UNCHANGED <<claim, tries, queue>>
    BY <1>23 DEF LongestWait
  <2> QED
    BY <2>1 DEF Numbers
<1>24. CASE Crash
  <2>1. UNCHANGED <<claim, hard, tries, queue>>
    BY <1>24 DEF Crash
  <2> QED
    BY <2>1 DEF Numbers
<1>25. CASE Reboot
  <2>1. UNCHANGED <<claim, hard, tries, queue>>
    BY <1>25 DEF Reboot
  <2> QED
    BY <2>1 DEF Numbers
<1>26. CASE UNCHANGED vars
  <2>1. UNCHANGED <<claim, hard, tries, queue>>
    BY <1>26 DEF vars
  <2> QED
    BY <2>1 DEF Numbers
<1> QED
  BY <1>1, <1>2, <1>3, <1>4, <1>5, <1>6, <1>7, <1>8, <1>9, <1>10, <1>11, <1>12, <1>13,
     <1>14,
     <1>15, <1>16, <1>17, <1>18, <1>19, <1>20, <1>21, <1>22, <1>23, <1>24, <1>25, <1>26
  DEF Next, Work, Listener, Sweep, Sites

-----------------------------------------------------------------------------
(* One verdict.                                                                *)

\* What a job's part in the order and in the end depends on.
Same(k) ==
  /\ at'[k] = at[k] /\ result'[k] = result[k] /\ queue'[k] = queue[k]
  /\ call'[k]["exit"] = call[k]["exit"]
Stalls == UNCHANGED <<up, listener>> /\ \A k \in Jobs : call'[k]["stall"] = call[k]["stall"]

LEMMA SameKeeps ==
  ASSUME NEW k, Same(k)
  PROVE  (HandedOn(k)' <=> HandedOn(k)) /\ (Ending(k)' <=> Ending(k))
BY DEF Same, HandedOn, Ending

\* A job that neither left nor handed over is the last one of the run at work.
LEMMA LastAtWork ==
  ASSUME Locked, InTurn, NEW n \in Jobs, queue[n] \notin {"none", "settled"}, ~HandedOn(n),
         NEW k \in Jobs, k # n
  PROVE  /\ queue[k] # "waiting" /\ Ending(k)
         /\ n < k => queue[k] = "none"
<1>1. k < n \/ n < k
  BY DEF Jobs
<1>2. CASE n < k
  <2>1. queue[k] = "none"
    BY <1>2 DEF InTurn
  <2>2. at[k] = "idle"
    BY <2>1 DEF Locked
  <2> QED
    BY <1>2, <2>1, <2>2 DEF Ending
<1>3. CASE k < n
  <2>1. queue[k] = "settled" \/ HandedOn(k)
    BY <1>3 DEF InTurn
  <2>2. queue[k] = "settled" => at[k] = "idle"
    BY DEF Locked
  <2>3. HandedOn(k) => queue[k] = "active"
    BY DEF Locked, HandedOn
  <2>4. ~(n < k)
    BY <1>3 DEF Jobs
  <2> QED
    BY <2>1, <2>2, <2>3, <2>4 DEF Ending
<1> QED
  BY <1>1, <1>2, <1>3

\* The first end to be told is the last job's.
LEMMA FirstEnd ==
  ASSUME Locked, InTurn, Verdict, NEW n \in Jobs, queue[n] \notin {"none", "settled"},
     ~HandedOn(n),
         ~Ending(n) \/ queue[n] = "waiting", \A k \in Jobs \ {n} : Same(k),
         \E x : told' = told \cup {x}, queue'[n] # "waiting", Ending(n)'
  PROVE  Verdict'
<1>1. told = {}
  BY DEF Verdict
<1>2. ASSUME NEW k \in Jobs PROVE queue'[k] # "waiting" /\ Ending(k)'
  <2>1. CASE k = n
    BY <2>1
  <2>2. CASE k # n
    <3>1. queue[k] # "waiting" /\ Ending(k) /\ Same(k)
      BY <2>2, LastAtWork
    <3> QED
      BY <3>1, SameKeeps DEF Same
  <2> QED
    BY <2>1, <2>2
<1>3. \A x, y \in told' : x = y
  BY <1>1
<1> QED
  BY <1>2, <1>3 DEF Verdict

\* A job at work goes on with its work, and hands over to no recovery by itself.
Works(n) ==
  /\ at[n] # "idle" /\ at'[n] # "idle" /\ queue'[n] = queue[n]
  /\ Stalls /\ UNCHANGED <<sweep, pending>>
  /\ \A k \in Jobs \ {n} : Same(k)
  /\ HandedOn(n) => HandedOn(n)'
  /\ call'[n]["exit"].pc = "pend" => call[n]["exit"].pc = "pend"
  /\ at[n] \in Early => at'[n] \in Early \/ OutlivesLook(n)
  /\ \/ told' = told /\ (told # {} /\ Ending(n) => Ending(n)')
     \/ ~Ending(n) /\ Ending(n)' /\ \E x : told' = told \cup {x}

LEMMA WorkIsCalm ==
  ASSUME DurableAssumption, Shape, Calm, NEW n \in Jobs, Works(n)
  PROVE  Calm'
<1> USE DEF Calm
<1>1. /\ at[n] # "idle" /\ at'[n] # "idle" /\ queue'[n] = queue[n]
      /\ \A k \in Jobs \ {n} : Same(k)
  BY DEF Works
<1>2. \A k \in Jobs : queue'[k] = queue[k] /\ (at'[k] # "idle" <=> at[k] # "idle")
  BY <1>1 DEF Same
<1>3. Locked'
  BY <1>2 DEF Works, Stalls, Locked
<1>4. \A k \in Jobs : HandedOn(k) => HandedOn(k)'
  BY <1>1, SameKeeps DEF Works
<1>5. InTurn'
  BY <1>2, <1>4 DEF InTurn
<1>6. OneMember'
  <2>1. \A k \in Jobs : call'[k]["exit"].pc = "pend" => call[k]["exit"].pc = "pend"
    BY <1>1 DEF Works, Same
  <2>2. \A m \in Recoveries : m \in Jobs /\ m - 1 \in Jobs
    BY DEF DurableAssumption, Jobs, Recoveries
  <2>3. UNCHANGED <<sweep, pending>>
    BY DEF Works
  <2> QED
    BY <1>2, <2>1, <2>2, <2>3 DEF OneMember, Judging, Free
<1>7. Waits'
  <2> SUFFICES ASSUME NEW s \in Sweepers, NEW m \in Jobs,
                      sweep'[s].pc = "remove", sweep'[s].member[1] = m
               PROVE  queue'[m] = "waiting" \/ at'[m] \in Early
    BY DEF Waits
  <2>1. sweep[s].pc = "remove" /\ sweep[s].member[1] = m
    BY DEF Works
  <2>2. queue[m] = "waiting" \/ at[m] \in Early
    BY <2>1 DEF Waits
  <2>3. CASE m # n
    BY <1>1, <2>2, <2>3 DEF Same
  <2>4. CASE m = n
    <3>1. queue[n] = "active"
      BY <1>1 DEF Locked
    <3>2. ~OutlivesLook(n)
      BY <2>1, <2>4 DEF OutlivesLook
    <3> QED
      BY <2>2, <2>4, <3>1, <3>2 DEF Works
  <2> QED
    BY <2>3, <2>4
<1>8. Verdict'
  <2>1. queue[n] = "active"
    BY <1>1 DEF Locked
  <2>2. CASE told' = told /\ (told # {} /\ Ending(n) => Ending(n)')
    <3>1. told # {} => \A k \in Jobs : Ending(k)'
      BY <1>1, <2>2, SameKeeps DEF Verdict
    <3> QED
      BY <1>2, <2>2, <3>1 DEF Verdict
  <2>3. CASE ~Ending(n) /\ Ending(n)' /\ \E x : told' = told \cup {x}
    <3>1. ~HandedOn(n)
      BY <2>3 DEF Ending
    <3> QED
      BY <1>1, <2>1, <2>3, <3>1, FirstEnd
  <2> QED
    BY <2>2, <2>3 DEF Works
<1> QED
  BY <1>3, <1>5, <1>6, <1>7, <1>8

\* A step of nobody's job leaves all but the sweeps as they were, ...
Still == UNCHANGED <<queue, at, result, call, listener, up, told>>
LEMMA StillIsCalm ==
  ASSUME Calm, Still
  PROVE  Locked' /\ InTurn' /\ Verdict'
BY DEF Calm, Still, Locked, InTurn, Verdict, Ending, HandedOn

\* ... and these too, where no sweep takes a recovery up.
LEMMA FewerTokens ==
  ASSUME Calm, Still, pending' \subseteq pending,
         \A s \in Sweepers :
           sweep'[s] = sweep[s] \/ sweep'[s].pc = "rest"
             \/ (sweep'[s].pc = "take" /\ sweep'[s].member[2] = "exit")
  PROVE  Calm'
<1>1. Locked' /\ InTurn' /\ Verdict'
  BY StillIsCalm
<1>2. OneMember'
  <2>1. \A s \in Sweepers : \A m : Judging(s, m)' => Judging(s, m)
    BY DEF Judging
  <2>2. \A m : Free(m) => Free(m)'
    BY <2>1 DEF Free
  <2>3. UNCHANGED <<queue, call>>
    BY DEF Still
  <2> QED
    BY <2>1, <2>2, <2>3 DEF Calm, OneMember
<1>3. Waits'
  BY DEF Calm, Waits, Still
<1> QED
  BY <1>1, <1>2, <1>3 DEF Calm

\* What a sweep puts back is in nobody else's hands.
LEMMA PutBack ==
  ASSUME Shape, Calm, Still, NEW s \in Sweepers,
         sweep' = [sweep EXCEPT ![s] = [pc |-> "rest", member |-> Rest.member]],
         sweep[s].pc \in {"look", "remove"}, NEW x \in Members, x = sweep[s].member,
         x[1] \in Recoveries \cap Jobs, pending' = pending \cup {x}
  PROVE  Calm'
<1>1. Locked' /\ InTurn' /\ Verdict'
  BY StillIsCalm
<1>2. sweep'[s].pc = "rest" /\ \A r \in Sweepers \ {s} : sweep'[r] = sweep[r]
  BY DEF Shape, SweepShape
<1>3. \A r \in Sweepers : \A m : Judging(r, m)' <=> r # s /\ Judging(r, m)
  BY <1>2 DEF Judging
<1>4. \A m : Free(m) => Free(m)'
  BY <1>3 DEF Free
<1>5. Judging(s, x[1]) /\ x[2] = "exit"
  BY DEF Judging, Calm, OneMember
<1>6. Free(x[1])'
  <2>1. \A r \in Sweepers : Judging(r, x[1]) => r = s
    BY <1>5 DEF Calm, OneMember
  <2> QED
    BY <1>3, <2>1 DEF Free
<1>7. UNCHANGED <<queue, call, at>>
  BY DEF Still
<1>8. OneMember'
  <2>1. \A y \in pending' : y[2] = "exit" /\ Free(y[1])'
    <3>1. \A y \in pending : y[2] = "exit" /\ Free(y[1])
      BY DEF Calm, OneMember
    <3> QED
      BY <1>4, <1>5, <1>6, <3>1
  <2>2. \A r \in Sweepers : sweep'[r].pc # "rest" => sweep'[r].member[2] = "exit"
    BY <1>2 DEF Calm, OneMember
  <2>3. \A m \in Recoveries : (\E y \in pending' : y[1] = m) \/ ~Free(m)'
          => (\E y \in pending : y[1] = m) \/ ~Free(m)
    BY <1>4, <1>5 DEF Free
  <2> QED
    BY <1>3, <1>7, <2>1, <2>2, <2>3 DEF Calm, OneMember
<1>9. Waits'
  BY <1>2, <1>7 DEF Calm, Waits
<1> QED
  BY <1>1, <1>8, <1>9 DEF Calm

\* While every lock holds and the home worker lives, the run is calm.
LEMMA CalmStep ==
  DurableAssumption /\ Shape /\ Callers /\ Counted /\ Answered /\ Stored /\ Quieted
     /\ [Next]_vars => Quieted'
<1> SUFFICES ASSUME DurableAssumption, Shape, Callers, Counted, Answered, Stored, Quieted,
                    [Next]_vars, Lossless'
             PROVE  Calm'
  BY DEF Quieted
<1>a. Lossless /\ ~Spend("stalls") /\ ~Spend("crashes")
  BY SpentCounts, StepKeeps DEF Lossless, Kinds, Kept
<1>b. Calm
  BY <1>a DEF Quieted
<1>c. ~beside'
  BY DEF Lossless
<1>d. \A m \in Recoveries : m \in Jobs /\ m - 1 \in Jobs /\ m # 0
  BY DEF DurableAssumption, Jobs, Recoveries
<1>e. \A s \in Sweepers : sweep[s].pc # "rest" => sweep[s].member \in Members
          /\ sweep[s].member[1] \in Recoveries
  BY DEF Shape, SweepShape, Members
<1>f. \A n \in Jobs : /\ listener[n] = "none" /\ call[n]["stall"].pc = "off"
                     /\ queue[n] # "stalled" /\ (queue[n] = "active" <=> at[n] # "idle")
  BY <1>b DEF Calm, Locked
<1> USE <1>b DEF pickup, checkpoint, enqueuing, backstop, ghosts
<1>1. ASSUME NEW n \in Jobs, Pickup(n) PROVE Calm'
  <2>1. /\ queue[n] = "waiting" /\ queue'[n] = "active" /\ at[n] = "idle"
            /\ at'[n] \in {"record", "start"}
        /\ UNCHANGED <<call, result, listener, sweep, pending, told, up>>
        /\ \A k \in Jobs \ {n} : queue'[k] = queue[k] /\ at'[k] = at[k]
    BY <1>1 DEF Pickup, Goto, Shape
  <2>2. \A k \in Jobs : (queue'[k] = "none" <=> queue[k] = "none")
            /\ (HandedOn(k) => HandedOn(k)')
    BY <2>1 DEF HandedOn
  <2>3. Locked'
    BY <2>1, <1>f DEF Calm, Locked
  <2>4. InTurn'
    <3>1. \A j \in Jobs : queue[j] = "settled" \/ HandedOn(j)
              => queue'[j] = "settled" \/ HandedOn(j)'
      BY <2>1, <2>2
    <3> QED
      BY <2>2, <3>1 DEF Calm, InTurn
  <2>5. OneMember'
    BY <2>1, <2>2, <1>d DEF Calm, OneMember, Judging, Free
  <2>6. Waits'
    BY <2>1 DEF Calm, Waits, Early
  <2>7. Verdict'
    BY <2>1 DEF Calm, Verdict
  <2> QED
    BY <2>3, <2>4, <2>5, <2>6, <2>7 DEF Calm
<1>2. ASSUME NEW n \in Jobs, Gates(n) PROVE Calm'
  <2>1. PICK to \in {"idle", "pointer", "manifest", "start", "recording", "clearing"},
            answer \in Results : GateTo(n, to, answer)
    BY <1>2, GateEffect
  <2>2. /\ at[n] \in {"record", "pointer", "manifest", "start"} /\ at'[n] = to
            /\ result'[n] = answer
        /\ \A k \in Jobs \ {n} : Same(k)
        /\ UNCHANGED <<call, listener, sweep, pending, up>>
    BY <2>1 DEF GateTo, Steps, Same, Shape
  <2>3. told = {} /\ ~HandedOn(n) /\ queue[n] = "active"
    BY <2>2, <1>f DEF Calm, Verdict, Ending, HandedOn
  <2>4. n \in Recoveries
    BY <2>1, <2>2 DEF GateTo, Callers, Jobs, Recoveries
  <2>5. store /\ ~Settled(n)
    <3>1. store
      BY <2>3, <2>4 DEF Stored
    <3>2. \A k \in 0 .. n - 1 : k \in Jobs
      BY DEF Jobs, DurableAssumption
    <3> QED
      BY <2>3, <3>1, <3>2 DEF Settled, Answered
  <2>6. to \in {"idle", "pointer", "manifest", "start"} /\ told' = told
    BY <2>1, <2>3, <2>5 DEF GateTo
  <2>7. CASE to # "idle"
    <3>1. queue' = queue
      BY <2>1, <2>7 DEF GateTo, Shape
    <3>2. Works(n)
      BY <2>2, <2>3, <2>6, <2>7, <3>1 DEF Works, Stalls, Early
    <3> QED
      BY <3>2, WorkIsCalm
  <2>8. CASE to = "idle"
    <3>1. queue'[n] = "waiting"
      BY <2>1, <2>3, <2>8 DEF GateTo, Shape
    <3>2. \A k \in Jobs : (queue'[k] = "none" <=> queue[k] = "none")
              /\ (k # n => (HandedOn(k)' <=> HandedOn(k)))
      BY <2>2, <2>3, <3>1, SameKeeps DEF Same
    <3>3. Locked'
      BY <2>2, <2>8, <3>1, <1>f DEF Calm, Locked, Same
    <3>4. InTurn'
      <4> SUFFICES ASSUME NEW j \in Jobs, NEW m \in Jobs, j < m, queue'[m] # "none"
                   PROVE  queue'[j] = "settled" \/ HandedOn(j)'
        BY DEF InTurn
      <4>1. queue[j] = "settled" \/ HandedOn(j)
        BY <3>2 DEF Calm, InTurn
      <4>2. j # n
        BY <2>3, <4>1
      <4> QED
        BY <2>2, <3>2, <4>1, <4>2 DEF Same
    <3>5. OneMember'
      BY <2>2, <3>2, <1>d DEF Calm, OneMember, Judging, Free
    <3>6. Waits'
      BY <2>2, <3>1 DEF Calm, Waits, Same
    <3>7. Verdict'
      BY <2>3, <2>6 DEF Verdict
    <3> QED
      BY <3>3, <3>4, <3>5, <3>6, <3>7 DEF Calm
  <2> QED
    BY <2>7, <2>8
<1>3. ASSUME NEW n \in Jobs, Start(n) PROVE Calm'
  <2>1. /\ at[n] = "start" /\ at'[n] = "running"
        /\ UNCHANGED <<queue, result, call, listener, up, sweep, pending, told>>
        /\ \A k \in Jobs \ {n} : at'[k] = at[k]
    BY <1>3 DEF Start, Goto, Shape
  <2>2. ~HandedOn(n) /\ ~Ending(n)
    BY <2>1 DEF HandedOn, Ending
  <2>3. Works(n)
    BY <2>1, <2>2 DEF Works, Stalls, Same, Early
  <2> QED
    BY <2>3, WorkIsCalm
<1>4. ASSUME NEW n \in Jobs, Checkpoint(n) PROVE Calm'
  <2>1. Still /\ UNCHANGED <<pending, sweep>>
    BY <1>4 DEF Checkpoint, Still
  <2> QED
    BY <2>1, FewerTokens
<1>5. ASSUME NEW n \in Jobs, Complete(n) PROVE Calm'
  <2>1. /\ at[n] = "running" /\ at'[n] = "clearing" /\ result'[n] = "final"
            /\ OutlivesLook(n)
        /\ UNCHANGED <<queue, call, listener, up, sweep, pending>>
        /\ told' = told \cup {<<n, "completed">>}
        /\ \A k \in Jobs \ {n} : at'[k] = at[k] /\ result'[k] = result[k]
    BY <1>5 DEF Complete, Answer, Goto, Shape
  <2>2. ~HandedOn(n) /\ ~Ending(n) /\ Ending(n)'
    BY <2>1 DEF HandedOn, Ending
  <2>3. Works(n)
    BY <2>1, <2>2 DEF Works, Stalls, Same
  <2> QED
    BY <2>3, WorkIsCalm
<1>6. ASSUME NEW n \in Jobs, InfraExit(n) PROVE Calm'
  <2>1. /\ at[n] = "running" /\ at'[n] = "asking" /\ OutlivesLook(n)
        /\ UNCHANGED <<queue, result, call, listener, up, sweep, pending, told>>
        /\ \A k \in Jobs \ {n} : at'[k] = at[k]
    BY <1>6 DEF InfraExit, Goto, Shape
  <2>2. ~HandedOn(n) /\ ~Ending(n)
    BY <2>1 DEF HandedOn, Ending
  <2>3. Works(n)
    BY <2>1, <2>2 DEF Works, Stalls, Same
  <2> QED
    BY <2>3, WorkIsCalm
<1>7. ASSUME NEW n \in Jobs, AskPointer(n) \/ ExitAnswered(n) PROVE Calm'
  <2>1. PICK to \in {"recovering", "recording", "clearing"}, answer \in Results,
            c \in [pc : {"off", "claim", "no"}, won : BOOLEAN] : ExitTo(n, to, answer, c)
    BY <1>7, ExitEffect
  <2>2. c \in [pc : CallPlaces, won : BOOLEAN] /\ "exit" \in Sites
    BY DEF CallPlaces, Sites
  <2>3. /\ at'[n] = to /\ result'[n] = answer
        /\ \A k \in Jobs \ {n} : at'[k] = at[k] /\ result'[k] = result[k]
        /\ UNCHANGED <<queue, listener, up, sweep, pending>>
    BY <2>1 DEF ExitTo, Steps, Shape
  <2>4. /\ \A m \in Jobs, w \in Sites : m # n \/ w # "exit" => call'[m][w] = call[m][w]
        /\ call'[n]["exit"].pc # "pend"
    <3>1. CASE at[n] = "asking" /\ call' = call
      BY <3>1 DEF Callers
    <3>2. CASE Called(n, "exit", c)
      <4>1. CallShape /\ (c.pc \notin {"off", "no"} => n < Cap)
        BY <2>1 DEF ExitTo, Shape
      <4>2. /\ call'[n]["exit"] = c
            /\ \A m \in Jobs, w \in Sites : m # n \/ w # "exit" => call'[m][w] = call[m][w]
        BY <2>2, <3>2, <4>1, CallsKept
      <4> QED
        BY <4>2
    <3> QED
      BY <2>1, <3>1, <3>2 DEF ExitTo
  <2>5. at[n] \in {"asking", "recovering"}
    BY <2>1 DEF ExitTo
  <2>6. HandedOn(n) => HandedOn(n)' /\ to = "recording"
    BY <2>1, <2>3, <2>5 DEF ExitTo, HandedOn
  <2>7. Ending(n) <=> HandedOn(n)
    BY <2>5 DEF Ending, HandedOn
  <2>8. CASE to = "clearing"
    <3>1. ~HandedOn(n) /\ ~Ending(n) /\ Ending(n)'
      BY <2>1, <2>3, <2>6, <2>7, <2>8 DEF ExitTo, Ending
    <3>2. \E x : told' = told \cup {x}
      BY <2>1, <2>8 DEF ExitTo
    <3>3. Works(n)
      BY <2>3, <2>4, <2>5, <2>8, <3>1, <3>2 DEF Works, Stalls, Same, Early, Sites
    <3> QED
      BY <3>3, WorkIsCalm
  <2>9. CASE to # "clearing"
    <3>1. told' = told /\ (Ending(n) => Ending(n)')
      BY <2>1, <2>6, <2>7, <2>9 DEF ExitTo, Ending
    <3>2. Works(n)
      BY <2>3, <2>4, <2>5, <2>6, <2>9, <3>1 DEF Works, Stalls, Same, Early, Sites
    <3> QED
      BY <3>2, WorkIsCalm
  <2> QED
    BY <2>8, <2>9
<1>8. ASSUME NEW n \in Jobs, ClearStore(n) PROVE Calm'
  <2>1. /\ at[n] = "clearing" /\ at'[n] = "unpointing"
        /\ UNCHANGED <<queue, result, call, listener, up, sweep, pending, told>>
        /\ \A k \in Jobs \ {n} : at'[k] = at[k]
    BY <1>8 DEF ClearStore, Goto, Shape
  <2>2. (HandedOn(n) => HandedOn(n)') /\ (Ending(n) => Ending(n)')
    BY <2>1 DEF HandedOn, Ending
  <2>3. Works(n)
    BY <2>1, <2>2 DEF Works, Stalls, Same, Early
  <2> QED
    BY <2>3, WorkIsCalm
<1>9. ASSUME NEW n \in Jobs, ClearPointer(n) PROVE Calm'
  <2>1. /\ at[n] = "unpointing" /\ at'[n] = "recording"
        /\ UNCHANGED <<queue, result, call, listener, up, sweep, pending, told>>
        /\ \A k \in Jobs \ {n} : at'[k] = at[k]
    BY <1>9 DEF ClearPointer, Goto, Shape
  <2>2. (HandedOn(n) => HandedOn(n)') /\ (Ending(n) => Ending(n)')
    BY <2>1 DEF HandedOn, Ending
  <2>3. Works(n)
    BY <2>1, <2>2 DEF Works, Stalls, Same, Early
  <2> QED
    BY <2>3, WorkIsCalm
<1>10. ASSUME NEW n \in Jobs, Record(n) PROVE Calm'
  <2>1. /\ at[n] = "recording" /\ at'[n] = "leaving"
        /\ UNCHANGED <<queue, result, call, listener, up, sweep, pending, told>>
        /\ \A k \in Jobs \ {n} : at'[k] = at[k]
    BY <1>10 DEF Record, Goto, Shape
  <2>2. (HandedOn(n) => HandedOn(n)') /\ (Ending(n) => Ending(n)')
    BY <2>1 DEF HandedOn, Ending
  <2>3. Works(n)
    BY <2>1, <2>2 DEF Works, Stalls, Same, Early
  <2> QED
    BY <2>3, WorkIsCalm
<1>11. ASSUME NEW n \in Jobs, Leave(n) PROVE Calm'
  <2>1. /\ at[n] = "leaving" /\ at'[n] = "idle"
        /\ UNCHANGED <<call, listener, up, sweep, pending>>
        /\ \A k \in Jobs \ {n} : Same(k)
    BY <1>11 DEF Leave, Goto, Same, Shape
  <2>2. queue[n] = "active"
    BY <2>1, <1>f
  <2>3. \/ /\ queue'[n] = "settled"
           /\ told' = told \/ (result[n] = "retry" /\ told' = told \cup {<<n, "failed">>})
        \/ queue'[n] = "waiting" /\ result[n] = "retry" /\ told' = told
    BY <1>11, <2>2 DEF Leave, Shape
  <2>4. result[n] = "retry" => told = {} /\ ~HandedOn(n) /\ ~Ending(n)
    BY <2>1 DEF Calm, Verdict, Ending, HandedOn
  <2>5. Ending(n)' /\ ~HandedOn(n)'
    BY <2>1 DEF Ending, HandedOn
  <2>6. \A k \in Jobs : (queue'[k] = "none" <=> queue[k] = "none")
    BY <2>1, <2>2, <2>3 DEF Same
  <2>7. Locked'
    BY <2>1, <2>3, <1>f DEF Calm, Locked, Same
  <2>8. InTurn'
    <3> SUFFICES ASSUME NEW j \in Jobs, NEW m \in Jobs, j < m, queue'[m] # "none"
                 PROVE  queue'[j] = "settled" \/ HandedOn(j)'
      BY DEF InTurn
    <3>1. queue[j] = "settled" \/ HandedOn(j)
      BY <2>6 DEF Calm, InTurn
    <3>2. CASE j = n
      BY <2>2, <2>3, <2>4, <3>1, <3>2
    <3>3. CASE j # n
      BY <2>1, <3>1, <3>3, SameKeeps DEF Same
    <3> QED
      BY <3>2, <3>3
  <2>9. OneMember'
    BY <2>1, <2>6, <1>d DEF Calm, OneMember, Judging, Free
  <2>10. Waits'
    <3> SUFFICES ASSUME NEW s \in Sweepers, NEW m \in Jobs, sweep[s].pc = "remove",
                        sweep[s].member[1] = m
                 PROVE  queue'[m] = "waiting" \/ at'[m] \in Early
      BY <2>1 DEF Waits
    <3>1. queue[m] = "waiting" \/ at[m] \in Early
      BY DEF Calm, Waits
    <3>2. m # n
      BY <2>1, <2>2, <3>1 DEF Early
    <3> QED
      BY <2>1, <3>1, <3>2 DEF Same
  <2>11. Verdict'
    <3>1. CASE queue'[n] = "waiting"
      BY <2>3, <2>4, <3>1 DEF Verdict
    <3>2. CASE queue'[n] = "settled" /\ told' = told
      BY <2>1, <2>5, <3>2, SameKeeps DEF Calm, Verdict, Same
    <3>3. CASE queue'[n] = "settled" /\ result[n] = "retry"
              /\ told' = told \cup {<<n, "failed">>}
      <4>1. \E x : told' = told \cup {x}
        BY <3>3
      <4> QED
        BY <2>1, <2>2, <2>4, <2>5, <3>3, <4>1, FirstEnd DEF Calm
    <3> QED
      BY <2>3, <3>1, <3>2, <3>3
  <2> QED
    BY <2>7, <2>8, <2>9, <2>10, <2>11 DEF Calm
<1>12. ASSUME NEW n \in Jobs, Stall(n) PROVE Calm'
  <2>1. queue[n] = "active" /\ (at[n] = "idle" \/ Spend("stalls"))
    BY <1>12 DEF Stall
  <2> QED
    BY <2>1, <1>a, <1>f, <1>b DEF Calm, Locked
<1>13. ASSUME NEW n \in Jobs, ListenRecord(n) PROVE Calm'
  <2>1. listener[n] = "record"
    BY <1>13 DEF ListenRecord, Heard
  <2> QED
    BY <2>1, <1>a, <1>f, <1>b DEF Calm, Locked
<1>14. ASSUME NEW n \in Jobs, ListenPointer(n) PROVE Calm'
  <2>1. listener[n] = "pointer"
    BY <1>14 DEF ListenPointer, Heard
  <2> QED
    BY <2>1, <1>a, <1>f, <1>b DEF Calm, Locked
<1>15. ASSUME NEW n \in Jobs, ListenAnswered(n) PROVE Calm'
  <2>1. listener[n] = "recovering"
    BY <1>15 DEF ListenAnswered, Heard
  <2> QED
    BY <2>1, <1>a, <1>f, <1>b DEF Calm, Locked
<1>16. ASSUME NEW n \in Jobs, NEW who \in Sites, Enqueue(n, who) PROVE Calm'
  <2>1. PICK c \in [pc : {"ask", "add", "pend", "yes", "no"}, won : BOOLEAN] :
            CallTo(n, who, c)
    BY <1>16, CallEffect
  <2>2. c \in [pc : CallPlaces, won : BOOLEAN] /\ n < Cap
    BY <2>1 DEF CallTo, CallPlaces, Shape, CallShape
  <2>3. /\ \A m \in Jobs, w \in Sites : m # n \/ w # who => call'[m][w] = call[m][w]
        /\ call'[n][who] = c
    <3>1. CallShape /\ Called(n, who, c)
      BY <2>1 DEF CallTo, Shape
    <3> QED
      BY <2>2, <3>1, CallsKept
  <2>4. n + 1 \in Recoveries /\ n + 1 \in Jobs /\ n < n + 1
    BY <2>2 DEF DurableAssumption, Jobs, Recoveries
  <2>5. call[n][who].pc \in {"claim", "ask", "add", "pend"}
            /\ UNCHANGED <<at, result, listener, up, sweep, told>>
    BY <2>1 DEF CallTo
  <2>6. who = "exit"
    BY <2>5, <1>f DEF Sites
  <2>7. at[n] = "recovering" /\ queue[n] = "active" /\ (Ending(n) <=> HandedOn(n))
    BY <2>5, <2>6, <1>f DEF Callers, Ending, HandedOn
  <2>8. /\ \A k \in Jobs : call'[k]["stall"] = call[k]["stall"]
        /\ \A k \in Jobs \ {n} : call'[k]["exit"] = call[k]["exit"]
    BY <2>3, <2>6 DEF Sites
  <2>9. \A k \in Jobs \ {n} : (HandedOn(k)' <=> HandedOn(k)) /\ (Ending(k)' <=> Ending(k))
    BY <2>5, <2>8 DEF HandedOn, Ending
  <2>10. \A m \in Recoveries : m # n + 1 => m - 1 \in Jobs \ {n}
    BY <1>d DEF Recoveries, Jobs
  <2>11. CASE call[n]["exit"].pc = "pend"
    <3>1. /\ c.pc = "yes" /\ queue' = queue
          /\ pending \subseteq pending' /\ pending' \subseteq pending \cup {<<n + 1,
             "exit">>}
      BY <2>1, <2>6, <2>11 DEF CallTo
    <3>2. HandedOn(n)' /\ Ending(n)' /\ HandedOn(n)
      BY <2>3, <2>5, <2>6, <2>7, <2>11, <3>1 DEF HandedOn, Ending
    <3>3. Locked'
      BY <2>5, <2>8, <3>1 DEF Calm, Locked
    <3>4. InTurn'
      <4>1. \A k \in Jobs : HandedOn(k) => HandedOn(k)'
        BY <2>9, <3>2
      <4> QED
        BY <3>1, <4>1 DEF Calm, InTurn
    <3>5. Verdict'
      <4>1. \A k \in Jobs : Ending(k) => Ending(k)'
        BY <2>9, <3>2
      <4> QED
        BY <2>5, <3>1, <4>1 DEF Calm, Verdict
    <3>6. OneMember'
      <4>1. queue[n + 1] # "none"
        BY <2>11 DEF Answered, Follows, Sites
      <4>2. (n + 1) - 1 = n
        BY DEF Jobs
      <4>3. Free(n + 1) /\ \A x \in pending : x[1] # n + 1
        BY <2>4, <2>11, <4>2 DEF Calm, OneMember
      <4>4. \A x \in pending' : x \in pending \/ (x[1] = n + 1 /\ x[2] = "exit")
        BY <3>1
      <4>5. \A s \in Sweepers, m \in Jobs : Judging(s, m)' <=> Judging(s, m)
        BY <2>5 DEF Judging
      <4>6. \A m : Free(m)' <=> Free(m)
        BY <2>5 DEF Judging, Free
      <4>7. \A x \in pending' : x[2] = "exit" /\ Free(x[1])'
        BY <4>3, <4>4, <4>6 DEF Calm, OneMember
      <4>8. \A m \in Recoveries : (\E x \in pending' : x[1] = m) \/ ~Free(m)'
              => queue'[m] # "none" /\ call'[m - 1]["exit"].pc # "pend"
        <5> SUFFICES ASSUME NEW m \in Recoveries,
                            (\E x \in pending' : x[1] = m) \/ ~Free(m)'
                     PROVE  queue'[m] # "none" /\ call'[m - 1]["exit"].pc # "pend"
          OBVIOUS
        <5>1. CASE m = n + 1
          BY <2>3, <2>6, <3>1, <4>1, <4>2, <5>1
        <5>2. CASE m # n + 1
          <6>1. (\E x \in pending : x[1] = m) \/ ~Free(m)
            BY <4>4, <4>6, <5>2
          <6> QED
            BY <2>8, <2>10, <3>1, <5>2, <6>1 DEF Calm, OneMember
        <5> QED
          BY <5>1, <5>2
      <4> QED
        BY <2>5, <4>5, <4>7, <4>8 DEF Calm, OneMember
    <3>7. Waits'
      BY <2>5, <3>1 DEF Calm, Waits
    <3> QED
      BY <3>3, <3>4, <3>5, <3>6, <3>7 DEF Calm
  <2>12. CASE call[n]["exit"].pc # "pend"
    <3>1. ~HandedOn(n) /\ told = {}
      <4>1. ~HandedOn(n)
        BY <2>5, <2>6, <2>7, <2>12 DEF HandedOn
      <4> QED
        BY <2>7, <4>1 DEF Calm, Verdict
    <3>2. \A k \in Jobs : n < k => queue[k] = "none"
      BY <2>7, <3>1 DEF Calm, InTurn
    <3>3. queue[n + 1] = "none" /\ at[n + 1] = "idle"
      BY <2>4, <3>2, <1>f
    <3>4. pending' = pending /\ c.pc # "yes"
      BY <2>1, <2>6, <2>12, <3>3 DEF CallTo, OnQueue
    <3>5. queue' = queue \/ (c.pc = "pend" /\ queue' = [queue EXCEPT ![n + 1] = "waiting"])
      BY <2>1, <1>c DEF CallTo
    <3>6. c.pc = "pend" => queue'[n + 1] # "none"
      BY <2>1, <2>4 DEF CallTo
    <3>7. c.pc = "pend" => HandedOn(n)'
      BY <2>3, <2>5, <2>6, <2>7 DEF HandedOn
    <3>8. \A k \in Jobs \ {n + 1} : queue'[k] = queue[k]
      BY <3>5 DEF Shape
    <3>9. queue'[n + 1] \in {"none", "waiting"} /\ (queue'[n + 1] # "none" => c.pc = "pend")
      BY <2>4, <3>3, <3>5 DEF Shape
    <3>10. Locked'
      BY <2>5, <2>8, <3>3, <3>8, <3>9 DEF Calm, Locked
    <3>11. InTurn'
      <4> SUFFICES ASSUME NEW j \in Jobs, NEW m \in Jobs, j < m, queue'[m] # "none"
                   PROVE  queue'[j] = "settled" \/ HandedOn(j)'
        BY DEF InTurn
      <4>1. CASE m = n + 1
        <5>1. HandedOn(n)'
          BY <3>7, <3>9, <4>1
        <5>2. CASE j = n
          BY <5>1, <5>2
        <5>3. CASE j # n
          <6>1. j < n
            BY <4>1, <5>3 DEF Jobs
          <6>2. queue[j] = "settled" \/ HandedOn(j)
            BY <2>7, <6>1 DEF Calm, InTurn
          <6> QED
            BY <2>9, <3>8, <4>1, <5>3, <6>2
        <5> QED
          BY <5>2, <5>3
      <4>2. CASE m # n + 1
        <5>1. queue[m] # "none" /\ ~(n < m)
          BY <3>2, <3>8, <4>2
        <5>2. j # n /\ j # n + 1
          BY <5>1 DEF Jobs
        <5>3. queue[j] = "settled" \/ HandedOn(j)
          BY <5>1 DEF Calm, InTurn
        <5> QED
          BY <2>9, <3>8, <5>2, <5>3
      <4> QED
        BY <4>1, <4>2
    <3>12. Free(n + 1) /\ \A x \in pending : x[1] # n + 1
      BY <2>4, <3>3 DEF Calm, OneMember
    <3>13. OneMember'
      <4>1. \A s \in Sweepers, m \in Jobs : Judging(s, m)' <=> Judging(s, m)
        BY <2>5 DEF Judging
      <4>2. \A m : Free(m)' <=> Free(m)
        BY <2>5 DEF Judging, Free
      <4>3. \A m \in Recoveries : (\E x \in pending : x[1] = m) \/ ~Free(m)
              => queue'[m] # "none" /\ call'[m - 1]["exit"].pc # "pend"
        BY <2>8, <2>10, <3>8, <3>12, <1>d DEF Calm, OneMember
      <4> QED
        BY <2>5, <3>4, <4>1, <4>2, <4>3 DEF Calm, OneMember
    <3>14. Waits'
      BY <2>5, <3>3, <3>8 DEF Calm, Waits, Early
    <3>15. Verdict'
      BY <2>5, <3>1 DEF Verdict
    <3> QED
      BY <3>10, <3>11, <3>13, <3>14, <3>15 DEF Calm
  <2> QED
    BY <2>11, <2>12
<1>17. ASSUME NEW s \in Sweepers, SweepRead(s) PROVE Calm'
  <2>1. PICK x \in due : Sweeping(s, "rest", "take", x)
    BY <1>17 DEF SweepRead
  <2>2. Still /\ pending' = pending
    BY <1>17 DEF SweepRead, Still
  <2>3. x[2] = "exit"
    BY DEF Calm, OneMember, Shape, SweepShape
  <2>4. \A r \in Sweepers :
          sweep'[r] = sweep[r] \/ (sweep'[r].pc = "take" /\ sweep'[r].member[2] = "exit")
    BY <2>1, <2>3 DEF Sweeping, Shape, SweepShape
  <2> QED
    BY <2>2, <2>4, FewerTokens
<1>18. ASSUME NEW s \in Sweepers, SweepTake(s) PROVE Calm'
  <2>1. Still
    BY <1>18 DEF SweepTake, Still
  <2>2. CASE Sweeping(s, "take", "rest", Rest.member) /\ pending' \subseteq pending
    <3>1. \A r \in Sweepers : sweep'[r] = sweep[r] \/ sweep'[r].pc = "rest"
      BY <2>2 DEF Sweeping, Shape, SweepShape
    <3> QED
      BY <2>1, <2>2, <3>1, FewerTokens
  <2>3. CASE sweep[s].member \in pending /\ TakeMember(s, sweep[s].member)
    <3> DEFINE x == sweep[s].member
    <3>1. /\ sweep[s].pc = "take" /\ pending' = pending \ {x}
          /\ sweep' = [sweep EXCEPT ![s] = [pc |-> "look", member |-> x]]
      BY <2>3 DEF TakeMember, Sweeping
    <3>2. /\ sweep'[s].pc = "look" /\ sweep'[s].member = x
          /\ \A r \in Sweepers \ {s} : sweep'[r] = sweep[r]
      BY <3>1 DEF Shape, SweepShape
    <3>3. x[2] = "exit" /\ Free(x[1]) /\ x \in Members
      BY <2>3 DEF Calm, OneMember, Shape, SweepShape
    <3>4. \A y \in pending' : y \in pending /\ y[1] # x[1]
      <4>1. \A y \in pending : y[2] = "exit" /\ y = <<y[1], y[2]>>
        BY DEF Calm, OneMember, Shape, SweepShape, Members
      <4>2. x = <<x[1], "exit">>
        BY <3>3 DEF Members
      <4> QED
        BY <3>1, <4>1, <4>2
    <3>5. \A r \in Sweepers : \A m : Judging(r, m)' <=> (r = s /\ m = x[1])
              \/ (r # s /\ Judging(r, m))
      BY <3>2 DEF Judging
    <3>6. \A m : Free(m) /\ m # x[1] => Free(m)'
      BY <3>5 DEF Free
    <3>7. UNCHANGED <<queue, call, at>>
      BY <2>1 DEF Still
    <3>8. OneMember'
      <4>1. \A y \in pending' : y[2] = "exit" /\ Free(y[1])'
        BY <3>4, <3>6 DEF Calm, OneMember
      <4>2. \A r \in Sweepers : sweep'[r].pc # "rest" => sweep'[r].member[2] = "exit"
        BY <3>2, <3>3 DEF Calm, OneMember
      <4>3. \A r, t \in Sweepers, m \in Jobs : Judging(r, m)' /\ Judging(t, m)' => r = t
        BY <3>3, <3>5 DEF Free, Calm, OneMember
      <4>4. \A m \in Recoveries : (\E y \in pending' : y[1] = m) \/ ~Free(m)'
              => (\E y \in pending : y[1] = m) \/ ~Free(m)
        BY <2>3, <3>4, <3>6
      <4> QED
        BY <3>7, <4>1, <4>2, <4>3, <4>4 DEF Calm, OneMember
    <3>9. Waits'
      BY <3>2, <3>7 DEF Calm, Waits
    <3> QED
      BY <2>1, <3>8, <3>9, StillIsCalm DEF Calm
  <2> QED
    BY <1>18, <2>2, <2>3 DEF SweepTake, TakeMember
<1>19. ASSUME NEW s \in Sweepers, SweepLook(s) PROVE Calm'
  <2> DEFINE x == sweep[s].member
  <2>1. Still /\ sweep[s].pc = "look"
    BY <1>19 DEF SweepLook, Still
  <2>2. x \in Members /\ x[1] \in Recoveries
    BY <2>1, <1>e
  <2>3. CASE Sweeping(s, "look", "rest", Rest.member) /\ pending' = pending
    <3>1. \A r \in Sweepers : sweep'[r] = sweep[r] \/ sweep'[r].pc = "rest"
      BY <2>3 DEF Sweeping, Shape, SweepShape
    <3> QED
      BY <2>1, <2>3, <3>1, FewerTokens
  <2>4. CASE Sweeping(s, "look", "rest", Rest.member) /\ pending' = pending \cup {x}
    <3>1. sweep' = [sweep EXCEPT ![s] = [pc |-> "rest", member |-> Rest.member]]
      BY <2>4 DEF Sweeping
    <3> HIDE DEF x
    <3>2. x = sweep[s].member
      BY DEF x
    <3> QED
      BY <2>1, <2>2, <2>4, <3>1, <3>2, <1>d, PutBack
  <2>5. CASE Sweeping(s, "look", "remove", x) /\ queue[x[1]] = "waiting"
            /\ pending' = pending
    <3>1. /\ sweep'[s].pc = "remove" /\ sweep'[s].member = x
          /\ \A r \in Sweepers \ {s} : sweep'[r] = sweep[r]
      BY <2>5 DEF Sweeping, Shape, SweepShape
    <3>2. \A r \in Sweepers : \A m : Judging(r, m)' <=> Judging(r, m)
      BY <2>1, <3>1 DEF Judging
    <3>3. \A m : Free(m)' <=> Free(m)
      BY <3>2 DEF Free
    <3>4. UNCHANGED <<queue, call, at>>
      BY <2>1 DEF Still
    <3>5. \A r \in Sweepers : sweep'[r].pc # "rest" => sweep[r].pc # "rest"
              /\ sweep'[r].member = sweep[r].member
      BY <2>1, <3>1
    <3>6. OneMember'
      BY <2>5, <3>2, <3>3, <3>4, <3>5 DEF Calm, OneMember
    <3>7. Waits'
      BY <2>5, <3>1, <3>4 DEF Calm, Waits
    <3> QED
      BY <2>1, <3>6, <3>7, StillIsCalm DEF Calm
  <2> QED
    BY <1>19, <2>3, <2>4, <2>5 DEF SweepLook
<1>20. ASSUME NEW s \in Sweepers, SweepRemove(s) PROVE Calm'
  <2>a. PICK x, m : x = sweep[s].member /\ m = x[1]
    OBVIOUS
  <2> USE <2>a
  <2>1. Sweeping(s, "remove", "rest", Rest.member) /\ sweep[s].pc = "remove"
        /\ UNCHANGED <<at, result, call, listener, up>>
    BY <1>20 DEF SweepRemove, Sweeping
  <2>2. x \in Members /\ m \in Recoveries /\ m \in Jobs
    BY <2>1, <1>d, <1>e
  <2>3. queue[m] = "waiting" \/ at[m] \in Early
    BY <2>1, <2>2 DEF Calm, Waits
  <2>4. CASE queue[m] = "active"
    <3>1. UNCHANGED <<queue, told>> /\ pending' = pending \cup {x}
      BY <1>20, <2>4 DEF SweepRemove
    <3>2. Still
      BY <2>1, <3>1 DEF Still
    <3>3. sweep' = [sweep EXCEPT ![s] = [pc |-> "rest", member |-> Rest.member]]
      BY <2>1 DEF Sweeping
    <3> QED
      BY <2>1, <2>2, <3>1, <3>2, <3>3, PutBack
  <2>5. CASE queue[m] # "active"
    <3>1. queue[m] = "waiting" /\ at[m] = "idle"
      BY <2>2, <2>3, <2>5, <1>f DEF Early
    <3>2. /\ queue' = [queue EXCEPT ![m] = "removed"] /\ told' = told \cup {<<m, s>>}
          /\ pending' = pending
      BY <1>20, <2>5 DEF SweepRemove
    <3>3. queue'[m] = "removed" /\ \A k \in Jobs \ {m} : queue'[k] = queue[k]
      BY <2>2, <3>2 DEF Shape
    <3>4. \A k \in Jobs \ {m} : Same(k)
      BY <2>1, <3>3 DEF Same
    <3>5. \A k \in Jobs : HandedOn(k)' <=> HandedOn(k)
      BY <2>1 DEF HandedOn
    <3>14. ~HandedOn(m)
      BY <3>1 DEF HandedOn
    <3>15. Ending(m)'
      BY <2>1, <3>1 DEF Ending
    <3>6. Locked'
      BY <2>1, <3>1, <3>3, <1>f DEF Calm, Locked
    <3>7. InTurn'
      <4> SUFFICES ASSUME NEW j \in Jobs, NEW k \in Jobs, j < k, queue'[k] # "none"
                   PROVE  queue'[j] = "settled" \/ HandedOn(j)'
        BY DEF InTurn
      <4>1. queue[k] # "none"
        BY <3>1, <3>3
      <4>2. queue[j] = "settled" \/ HandedOn(j)
        BY <4>1 DEF Calm, InTurn
      <4>3. j # m
        BY <3>1, <3>14, <4>2
      <4> QED
        BY <3>3, <3>5, <4>2, <4>3
    <3>8. Verdict'
      <4>1. \E y : told' = told \cup {y}
        BY <3>2
      <4>2. Locked /\ InTurn /\ Verdict
        BY DEF Calm
      <4>3. queue[m] \notin {"none", "settled"} /\ queue'[m] # "waiting"
        BY <3>1, <3>3
      <4> QED
        BY <2>2, <3>1, <3>4, <3>14, <3>15, <4>1, <4>2, <4>3, FirstEnd
    <3>9. \A r \in Sweepers : sweep'[r] = sweep[r] \/ sweep'[r].pc = "rest"
      BY <2>1 DEF Sweeping, Shape, SweepShape
    <3>10. \A r \in Sweepers : \A k : Judging(r, k)' => Judging(r, k)
      BY <3>9 DEF Judging
    <3>11. \A k : Free(k) => Free(k)'
      BY <3>10 DEF Free
    <3>12. OneMember'
      <4>1. \A k \in Jobs : queue[k] # "none" => queue'[k] # "none"
        BY <3>3
      <4>2. \A r \in Sweepers : sweep'[r].pc # "rest" => sweep'[r].member[2] = "exit"
        BY <3>9 DEF Calm, OneMember
      <4> QED
        BY <2>1, <3>2, <3>10, <3>11, <4>1, <4>2, <1>d DEF Calm, OneMember
    <3>13. Waits'
      <4> SUFFICES ASSUME NEW r \in Sweepers, NEW k \in Jobs, sweep'[r].pc = "remove",
                          sweep'[r].member[1] = k
                   PROVE  queue'[k] = "waiting" \/ at'[k] \in Early
        BY DEF Waits
      <4>1. sweep'[r] = sweep[r] /\ r # s
        BY <2>1, <3>9 DEF Sweeping, Shape, SweepShape
      <4>2. queue[k] = "waiting" \/ at[k] \in Early
        BY <4>1 DEF Calm, Waits
      <4>3. k # m
        BY <2>1, <2>2, <4>1 DEF Calm, OneMember, Judging
      <4> QED
        BY <2>1, <3>3, <4>2, <4>3
    <3> QED
      BY <3>6, <3>7, <3>8, <3>12, <3>13 DEF Calm
  <2> QED
    BY <2>4, <2>5
<1>21. ASSUME NEW s \in Sweepers, SweeperDies(s) PROVE Calm'
  <2>1. Spend("crashes")
    BY <1>21 DEF SweeperDies
  <2> QED
    BY <2>1, <1>a, <1>f, <1>b DEF Calm, Locked
<1>22. CASE Deadline
  <2>1. Still /\ UNCHANGED <<pending, sweep>>
    BY <1>22 DEF Deadline, Still
  <2> QED
    BY <2>1, FewerTokens
<1>23. CASE LongestWait
  <2>1. Still /\ UNCHANGED <<pending, sweep>>
    BY <1>23 DEF LongestWait, Still
  <2> QED
    BY <2>1, FewerTokens
<1>24. CASE Crash
  <2>1. Spend("crashes")
    BY <1>24 DEF Crash
  <2> QED
    BY <2>1, <1>a, <1>f, <1>b DEF Calm, Locked
<1>25. CASE Reboot
  <2>1. ~up
    BY <1>25 DEF Reboot
  <2> QED
    BY <2>1, <1>a, <1>f, <1>b DEF Calm, Locked
<1>26. CASE UNCHANGED vars
  <2>1. Still /\ UNCHANGED <<pending, sweep>>
    BY <1>26 DEF vars, Still
  <2> QED
    BY <2>1, FewerTokens
<1> QED
  BY <1>1, <1>2, <1>3, <1>4, <1>5, <1>6, <1>7, <1>8, <1>9, <1>10, <1>11, <1>12, <1>13,
     <1>14,
     <1>15, <1>16, <1>17, <1>18, <1>19, <1>20, <1>21, <1>22, <1>23, <1>24, <1>25, <1>26
  DEF Next, Work, Listener, Sweep, Sites

\* The values of every key, and an attempt for each pickup of the run's own job
\* (Again, the queue's count of attempts), whatever fails or dies.
THEOREM TypeHolds == ASSUME DurableAssumption PROVE Spec => []TypeOK
<1>1. Init => TypeInv
  <2> SUFFICES ASSUME Init PROVE TypeInv
    OBVIOUS
  <2>1. Shape /\ Callers /\ Ended
    BY WatchInit DEF WatchInv
  <2>2. Numbers
    <3>1. Attempts \in Nat /\ 0 < Attempts
      BY DEF DurableAssumption
    <3>2. tries = 0 /\ claim = {} /\ hard \in BOOLEAN
      <4>1. hard = FALSE
        BY DEF Init
      <4>2. tries = 0 /\ claim = {}
        BY DEF Init
      <4> QED
        BY <4>1, <4>2
    <3> QED
      BY <3>1, <3>2 DEF Numbers
  <2> QED
    BY <2>1, <2>2 DEF TypeInv
<1>2. TypeInv /\ [Next]_vars => TypeInv'
  BY ShapeStep, CallersStep, EndedStep, NumbersStep DEF TypeInv
<1>3. TypeInv => TypeOK
  <2> SUFFICES ASSUME TypeInv PROVE TypeOK
    OBVIOUS
  <2>1. tries \in 0 .. Attempts
    BY DEF TypeInv, Numbers, DurableAssumption
  <2>2. /\ \A n \in Jobs, w \in Sites : call[n][w].pc \in CallPlaces
        /\ \A s \in Sweepers : sweep[s].pc \in {"rest", "take", "look", "remove"}
    BY DEF TypeInv, Shape, CallShape, SweepShape
  <2>3. record \in [Jobs -> Results \cup {"lost"}]
    BY DEF TypeInv, Ended
  <2>4. Results \cup {"lost"} = {"none", "final", "superseded", "continued", "failed",
            "retry", "lost"}
    BY DEF Results
  <2> QED
    BY <2>1, <2>2, <2>3, <2>4 DEF TypeInv, Numbers, Shape, SweepShape, Members, Sites,
       States,
                                  Places, Results, CallPlaces, TypeOK
<1> QED
  BY <1>1, <1>2, <1>3, PTL DEF Spec

LEMMA AgentStep == DurableAssumption /\ AgentInv /\ [Next]_vars => AgentInv'
BY ShapeStep, CallersStep, JudgedStep, HandedStep, AloneStep, BoxedStep DEF AgentInv

\* One agent at a time: of two pickups of a run at most one has passed the wait
\* for the others (readPointer's gate), and the containers of a dead worker are
\* stopped before it picks anything up.
THEOREM OneAgentHolds == ASSUME DurableAssumption PROVE Spec => []OneAgent
<1>1. Init => AgentInv
  BY AgentInit
<1>2. AgentInv /\ [Next]_vars => AgentInv'
  BY AgentStep
<1>3. AgentInv => OneAgent
  <2> SUFFICES ASSUME AgentInv, ~beside PROVE Cardinality(box) <= 1
    BY DEF OneAgent
  <2>1. CASE box = {}
    BY <2>1, FS_EmptySet
  <2>2. ASSUME NEW n \in box PROVE Cardinality(box) <= 1
    <3>1. box = {n}
      BY DEF AgentInv, Boxed
    <3>2. Cardinality({n}) = 1
      BY FS_Singleton
    <3> QED
      BY <3>1, <3>2
  <2> QED
    BY <2>1, <2>2
<1> QED
  BY <1>1, <1>2, <1>3, PTL DEF Spec

\* A recovery put on the queue by either enqueuer is watched until a sweep finds
\* it started (whoever adds it records it pending, the sweep puts back what it
\* does not judge), while no command fails and nothing dies at work.
THEOREM WatchedFromTheStartHolds ==
  ASSUME DurableAssumption PROVE Spec => []WatchedFromTheStart
<1>1. Init => WatchInv
  BY WatchInit
<1>2. WatchInv /\ [Next]_vars => WatchInv'
  BY ShapeStep, CallersStep, FaultsCount, EndedStep, ListenedStep, InHandStep DEF WatchInv
<1>3. WatchInv => WatchedFromTheStart
  BY DEF WatchInv, InHand, WatchedFromTheStart
<1> QED
  BY <1>1, <1>2, <1>3, PTL DEF Spec

\* Of the jobs that were on the queue one is the last.
LEMMA LastJob ==
  ASSUME DurableAssumption, NEW T \in SUBSET Jobs, T # {}
  PROVE  \E n \in T : \A k \in T : k <= n
<1> USE DEF Jobs, DurableAssumption
<1> DEFINE D == {d \in Jobs : Cap - d \in T}
<1> DEFINE Less == OpToRel(<, Nat)
<1>1. \A d, e \in Nat : e < d => <<e, d>> \in Less
  BY DEF OpToRel
<1>2. D \subseteq Nat /\ D # {}
  <2>1. PICK k \in T : TRUE
    OBVIOUS
  <2>2. Cap - k \in Jobs /\ Cap - (Cap - k) = k
    OBVIOUS
  <2> QED
    BY <2>1, <2>2
<1>3. PICK d \in D : \A e \in D : <<e, d>> \notin Less
  <2> HIDE DEF D, Less, Jobs, DurableAssumption
  <2>1. IsWellFoundedOn(Less, Nat)
    BY NatLessThanWellFounded DEF Less
  <2> QED
    BY <1>2, <2>1, WFMin, Zenon
<1>4. ASSUME NEW k \in T PROVE k <= Cap - d
  <2> SUFFICES ASSUME ~(k <= Cap - d) PROVE FALSE
    OBVIOUS
  <2>1. Cap - k \in Jobs /\ Cap - (Cap - k) = k /\ Cap - k < d
    OBVIOUS
  <2>2. Cap - k \in D
    BY <2>1
  <2> HIDE DEF Less
  <2> QED
    BY <1>1, <1>2, <1>3, <2>1, <2>2
<1> QED
  BY <1>3, <1>4

\* A run that is over was told so, whatever fails, while nothing dies at work: each
\* job that leaves the queue tells the end, is listened for or is followed by the
\* next (enqueueRecovery's fallbacks, the stall listener, the sweep's verdict).
THEOREM NeverSilentHolds == ASSUME DurableAssumption PROVE Spec => []NeverSilent
<1>1. Init => ToldInv
  BY ToldInit
<1>2. ToldInv /\ [Next]_vars => ToldInv'
  BY ShapeStep, CallersStep, EndedStep, AnsweredStep, StoredStep, CarryStep DEF ToldInv
<1>3. ToldInv => NeverSilent
  <2> SUFFICES ASSUME ToldInv, Quiet, ~dropped, told = {} PROVE FALSE
    BY DEF NeverSilent
  <2> DEFINE T == {n \in Jobs : queue[n] # "none"}
  <2>1. 0 \in T
    BY DEF ToldInv, Carry, Jobs, DurableAssumption
  <2>2. PICK n \in T : \A k \in T : k <= n
    <3>1. T \in SUBSET Jobs /\ T # {}
      BY <2>1
    <3> HIDE DEF T
    <3> QED
      BY <3>1, LastJob
  <2>3. Follows(n)
    BY DEF ToldInv, Carry, Carried, Quiet
  <2>4. n + 1 \in T
    BY <2>3 DEF Follows, Jobs, DurableAssumption
  <2> QED
    BY <2>2, <2>4 DEF Jobs
<1> QED
  BY <1>1, <1>2, <1>3, PTL DEF Spec

\* Both parts of what an issue is told of a lost run.
THEOREM EndIsToldHolds == ASSUME DurableAssumption PROVE Spec => []EndIsTold
  BY NeverSilentHolds, WatchedFromTheStartHolds, PTL DEF EndIsTold

\* A run that completed is not told that its checkpoint is gone (the wait for the
\* pickup that clears up, then neither pointer nor store), while no command fails
\* and no pickup dies between its comment and its record.
THEOREM CompletedStaysHolds == ASSUME DurableAssumption PROVE Spec => []CompletedStays
<1>1. Init => StaysInv
  BY StaysInit
<1>2. StaysInv /\ [Next]_vars => StaysInv'
  BY AgentStep, SpentCounts, BackedStep DEF StaysInv, AgentInv
<1>3. StaysInv => CompletedStays
  BY DEF StaysInv, Backed, Faultless, CompletedStays
<1> QED
  BY <1>1, <1>2, <1>3, PTL DEF Spec

\* No host is given up on a deadline alone (recoveryJudgement): a verdict follows a
\* death of the home worker or the longest wait.
THEOREM HostLostHolds == ASSUME DurableAssumption PROVE Spec => []HostLostIsTrue
<1>1. Init => AgentInv /\ SparedInv
  BY AgentInit, StaysInit
<1>2. AgentInv /\ SparedInv /\ [Next]_vars => (AgentInv /\ SparedInv)'
  BY AgentStep, SpentCounts, SparedStep DEF SparedInv, AgentInv
<1>3. SparedInv => HostLostIsTrue
  <2>1. Counted => spent["crashes"] = 0 \/ spent["crashes"] > 0
    BY DEF Counted, Kinds
  <2> QED
    BY <2>1 DEF SparedInv, Spared, Alive, HostLostIsTrue
<1> QED
  BY <1>1, <1>2, <1>3, PTL DEF Spec

\* One verdict: while every lock holds and the home worker lives, an issue is told
\* one end of the run, and no container of it is left that could contradict it,
\* whichever command fails and whichever sweep takes the recovery.
THEOREM OneVerdictHolds == ASSUME DurableAssumption PROVE Spec => []OneVerdict
<1>1. Init => VerdictInv
  BY VerdictInit
<1>2. VerdictInv /\ [Next]_vars => VerdictInv'
  BY AgentStep, SpentCounts, EndedStep, AnsweredStep, StoredStep, CalmStep
     DEF VerdictInv, AgentInv
<1>3. VerdictInv => OneVerdict
  <2> SUFFICES ASSUME VerdictInv, Lossless
               PROVE  /\ Cardinality(told) <= 1
                      /\ told # {} => box = {}
                         /\ \A n \in Jobs : at[n] \notin {"start", "running"}
    BY DEF OneVerdict, Lossless
  <2>1. Locked /\ Verdict /\ Boxed
    BY DEF VerdictInv, Quieted, Calm, AgentInv
  <2>2. told # {} => \A n \in Jobs : at[n] \notin {"start", "running"}
    BY <2>1 DEF Verdict, Ending, HandedOn
  <2>3. told # {} => box = {}
    BY <2>1, <2>2 DEF Locked, Boxed
  <2>4. CASE told = {}
    BY <2>2, <2>3, <2>4, FS_EmptySet
  <2>5. ASSUME NEW x \in told PROVE Cardinality(told) <= 1
    <3>1. told = {x}
      BY <2>1 DEF Verdict
    <3>2. Cardinality({x}) = 1
      BY FS_Singleton
    <3> QED
      BY <3>1, <3>2
  <2> QED
    BY <2>2, <2>3, <2>4, <2>5
<1> QED
  BY <1>1, <1>2, <1>3, PTL DEF Spec

\* What an issue is told of a lost run holds: the three parts above.
THEOREM VerdictIsTrueHolds == ASSUME DurableAssumption PROVE Spec => []VerdictIsTrue
  BY OneVerdictHolds, CompletedStaysHolds, HostLostHolds, PTL DEF VerdictIsTrue
=============================================================================
