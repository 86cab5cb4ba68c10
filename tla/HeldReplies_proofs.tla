------------------------- MODULE HeldReplies_proofs -------------------------
(***************************************************************************)
(* What TLAPS proves of HeldReplies, for any comments, askers, attempts,   *)
(* deliveries and disturbances: one continuation at a time, an end for     *)
(* every reply a run held, a parked comment that says what the queue does, *)
(* and no reply sent to a run that can no longer read it.                  *)
(***************************************************************************)
EXTENDS HeldReplies, FiniteSetTheorems, TLAPS

USE HeldRunsAssumption, HeldBoundsAssumption

\* The job of a run that has not parked yet.
Working == {"queued", "picked", "ready", "running", "asked", "promoted", "marked", "unmarking"}
\* A run that has asked, before its take.
Unheard == {"asked", "promoted", "marked", "released"}
\* The comment c answers the question of r's present pickup.
Answers(c, r) == <<r, tries[r]>> \in born[c].asked
Unposted(c) == rcv[c].pc = "unposted"

\* A job that works holds the window, while nobody takes it away.
WindowHeld ==
  spent.lapses = 0 /\ spent.faults = 0 /\ spent.retries = 0
    => \A r \in Runs : stage[r] \in Working => window = r
\* The window names a job that was created, and the first one always was.
WindowBorn == stage[First] # "none" /\ (window \in Runs => stage[window] # "none")

\* A closed list belongs to a run past its take or its settle, which is off its target;
\* a run that parked or ended has closed its own.
ClosedLate ==
  spent.faults = 0 =>
    \A r \in Runs :
      /\ closed[r] => /\ stage[r] \in {"queued", "taking", "saying", "settling", "listening", "done", "failed"}
                      /\ open[r] = "none"
      /\ stage[r] \in {"taking", "saying", "done", "failed"} \/ outcome[r] = "parked" => closed[r]
ParkedLate == \A r \in Runs : outcome[r] = "parked" => stage[r] \in {"settling", "done"}

\* A comment nobody has written has answered nothing and is held nowhere; what one
\* answers is a question of a pickup that was made.
Unwritten ==
  \A c \in Comments : Unposted(c) =>
    /\ born[c].asked = {} /\ <<NoRun, c, "dropped">> \notin log
    /\ \A r \in Runs : c \notin Ids(list[r]) /\ c \notin old[r]
Counted == \A c \in Comments, r \in Runs, n \in Nat : <<r, n>> \in born[c].asked => n <= tries[r]
\* Before the question nothing answers it, and what answers it is written after the
\* last look at what had grown old.
Unasked == \A c \in Comments, r \in Runs : stage[r] \in {"picked", "ready", "running"} => ~Answers(c, r)
Recent == \A c \in Comments, r \in Runs : stage[r] \in Unheard /\ Answers(c, r) => c \notin old[r]

\* What a closed list held has its end, or is in the hand that is being told.
Owed(c, r) == Answers(c, r) /\ (outcome[r] = "parked" \/ stage[r] \in {"taking", "saying"})
HasEnd(c, r) == \E e \in Seen \cup (IF Owed(c, r) THEN {} ELSE {"stale", "letGo"}) : <<r, c, e>> \in log
ListEnds(r) ==
  closed[r] => \A c \in Ids(list[r]) : HasEnd(c, r) \/ (stage[r] = "taking" /\ c \in InHand(r))
ListsEnd == spent.faults = 0 /\ spent.crashes = 0 => \A r \in Runs : ListEnds(r)
\* The hand of a run that takes has a first reply.
HandHeld == \A r \in Runs : stage[r] = "taking" => hand[r].first # NoRun

\* A run that started its answer is past that, and said that the work goes on.
ResumedSaid ==
  spent.retries = 0 =>
    \A r \in Runs, c \in Comments : <<r, c, "resumed">> \in log =>
      /\ stage[r] \in {"saying", "settling", "listening", "done", "failed"}
      /\ said[r] = "continues"
\* A comment that says so has another job beside it.
Continued == \A r \in Runs : said[r] = "continues" => \E q \in Runs \ {r} : stage[q] # "none"

\* Whoever answers a run that asks finds it live until the take, and the parked marker
\* after it.
Reached ==
  Undisturbed =>
    \A r \in Runs :
      /\ stage[r] \in Keeping => open[r] = "live"
      /\ stage[r] \in {"taking", "saying"} \/ outcome[r] = "parked" => marker
Routed ==
  Undisturbed =>
    \A r \in Runs, c \in Comments : Answers(c, r) /\ stage[r] \in Unheard =>
      /\ rcv[c].pc # "askParked"
      /\ rcv[c].pc = "hold" => r \in rcv[c].todo \/ rcv[c].took
Kept ==
  Undisturbed =>
    \A r \in Runs, c \in Comments :
      Answers(c, r) /\ (stage[r] \in Parking \/ outcome[r] = "parked") => <<NoRun, c, "dropped">> \notin log

\* A swallowed reply is held for the run that has the window.
Swallowing == \A c \in Comments : rcv[c].pc = "holdFor" => rcv[c].at \in Runs

HeldInv ==
  /\ TypeOK /\ Swallowing /\ WindowHeld /\ WindowBorn /\ ClosedLate /\ ParkedLate
  /\ Unwritten /\ Counted /\ Unasked /\ Recent /\ ListsEnd /\ HandHeld
  /\ ResumedSaid /\ Continued /\ Reached /\ Routed /\ Kept

\* The parts of the type invariant.
RunTypes ==
  /\ stage \in [Runs -> Stages] /\ tries \in [Runs -> Nat]
  /\ outcome \in [Runs -> {"none", "parked", "completed", "refused", "failed"}]
  /\ said \in [Runs -> {"nothing", "invites", "continues"}]
  /\ hand \in [Runs -> [first : Comments \cup {NoRun}, rest : SUBSET Comments]]
  /\ window \in Runs \cup {NoRun}
ListTypes ==
  /\ list \in [Runs -> Seq(Comments)]
  /\ \A r \in Runs : Len(list[r]) <= MaxEntries /\ IsInjective(list[r])
  /\ old \in [Runs -> SUBSET Comments]
FlagTypes ==
  /\ closed \in [Runs -> BOOLEAN] /\ open \in [Runs -> {"none", "live"}]
  /\ marker \in BOOLEAN /\ label \in BOOLEAN /\ sidecar \in BOOLEAN
ReceiverTypes ==
  rcv \in [Comments -> [pc : {"unposted", "posted", "lookup", "hold", "askParked", "enqueue",
                              "holdFor", "ended"},
                        todo : SUBSET Runs, at : Runs \cup {NoRun}, took : BOOLEAN]]
BornTypes ==
  /\ \A c \in Comments : deliveries[c] \in 0 .. MaxDeliveries[c]
  /\ born \in [Comments -> [label : BOOLEAN, asked : SUBSET (Runs \X Nat)]]
SpentTypes == spent \in [{"faults", "crashes", "lapses", "retries"} -> Nat]

\* The parts of the type invariant and what is kept with them.
Based == RunTypes /\ ListTypes /\ FlagTypes /\ ReceiverTypes /\ BornTypes /\ Swallowing
           /\ SpentTypes /\ WindowBorn /\ HandHeld

-----------------------------------------------------------------------------
(* What the larger actions do. *)

\* What is read of a list is among its comments.
LEMMA EntriesType ==
  ASSUME NEW r \in Runs, ListTypes
  PROVE  Entries(r) \in Seq(Comments) /\ Ids(Entries(r)) \subseteq Comments
<1>1. Entries(r) \in Seq(Comments)
  BY DEF Entries, ListTypes
<1> QED
  BY <1>1 DEF Ids

\* The take finds nothing recent, or deals a first reply and the rest.
Emptied(r) ==
  /\ stage' = [stage EXCEPT ![r] = "saying"]
  /\ hand' = [hand EXCEPT ![r] = EmptyHand]
  /\ \A c \in Ids(Entries(r)) : c \in old[r]
Dealt(r, f, rest) ==
  /\ stage' = [stage EXCEPT ![r] = "taking"]
  /\ hand' = [hand EXCEPT ![r] = [first |-> f, rest |-> rest]]
  /\ \A c \in Ids(Entries(r)) : c \in old[r] \/ c = f \/ c \in rest

\* What TakeEntries makes of the entries.
LEMMA TakeEntriesEffect ==
  ASSUME NEW r \in Runs, ListTypes, TakeEntries(r)
  PROVE  Emptied(r) \/ \E f \in Comments, rest \in SUBSET Comments : Dealt(r, f, rest)
<1> DEFINE held == Entries(r)
           recent == {i \in DOMAIN held : held[i] \notin old[r]}
<1>1. held \in Seq(Comments)
  BY EntriesType
<1>2. \A i \in DOMAIN held : held[i] \in Comments
  BY <1>1
<1>3. CASE recent = {} /\ Step(r, "released", "saying") /\ hand' = [hand EXCEPT ![r] = EmptyHand]
  BY <1>3 DEF Emptied, Step, Ids
<1>4. ASSUME Step(r, "released", "taking"), NEW i \in recent,
             hand' = [hand EXCEPT ![r] = [first |-> held[i], rest |-> {held[k] : k \in recent \ {i}}]]
      PROVE  \E f \in Comments, rest \in SUBSET Comments : Dealt(r, f, rest)
  <2>1. held[i] \in Comments /\ {held[k] : k \in recent \ {i}} \in SUBSET Comments
    BY <1>2
  <2>2. Dealt(r, held[i], {held[k] : k \in recent \ {i}})
    BY <1>4 DEF Dealt, Step, Ids
  <2> QED
    BY <2>1, <2>2
<1> QED
  BY <1>3, <1>4 DEF TakeEntries

\* The take in two ways: the close did what it should, or a command failed.
Took1(r) ==
  /\ spent' = spent /\ Close(r) /\ marker' = TRUE
  /\ log' = log \cup {<<r, c, "stale">> : c \in Ids(Entries(r)) \cap old[r]}
  /\ Emptied(r) \/ \E f \in Comments, rest \in SUBSET Comments : Dealt(r, f, rest)
Took0(r) ==
  /\ Spend("faults") /\ stage' = [stage EXCEPT ![r] = "saying"] /\ UNCHANGED hand
  /\ (Close(r) /\ marker' = TRUE) \/ UNCHANGED <<closed, open, marker>>
  /\ log' = log \cup {<<r, NoRun, "notStarted">>}

\* The take does one of the two.
LEMMA TakeEffect ==
  ASSUME NEW r \in Runs, ListTypes, Take(r)
  PROVE  /\ stage[r] = "released" /\ (Took1(r) \/ Took0(r))
         /\ UNCHANGED <<list, tries, outcome, said, sidecar, window, old, label, born, rcv, deliveries>>
<1> USE DEF Take, forge, receiver
<1>1. /\ stage[r] = "released"
      /\ UNCHANGED <<list, tries, outcome, said, sidecar, window, old, label, born, rcv, deliveries>>
  OBVIOUS
<1>2. CASE Close(r) /\ marker' = TRUE /\ TakeEntries(r) /\ UNCHANGED spent
  BY <1>2, TakeEntriesEffect DEF Took1, TakeEntries, Note
<1>3. CASE /\ Spend("faults") /\ Step(r, "released", "saying")
           /\ (Close(r) /\ marker' = TRUE) \/ UNCHANGED <<closed, open, marker>>
           /\ Note(r, {NoRun}, "notStarted") /\ UNCHANGED hand
  <2>1. log' = log \cup {<<r, NoRun, "notStarted">>}
    BY <1>3 DEF Note
  <2> QED
    BY <1>3, <2>1, <1>1 DEF Took0, Step
<1> QED
  BY <1>1, <1>2, <1>3

\* What of it matters to the parts that do not read the log.
LEMMA TakeShape ==
  ASSUME NEW r \in Runs, ListTypes, Take(r)
  PROVE  /\ UNCHANGED spent \/ Spend("faults")
         /\ \E s \in {"saying", "taking"} : stage' = [stage EXCEPT ![r] = s]
         /\ \/ UNCHANGED hand
            \/ \E h \in [first : Comments \cup {NoRun}, rest : SUBSET Comments] :
                 hand' = [hand EXCEPT ![r] = h]
         /\ UNCHANGED <<list, tries, outcome, said, sidecar, window, old, label, born, rcv, deliveries>>
<1>1. Took1(r) \/ Took0(r)
  BY TakeEffect
<1>2. UNCHANGED <<list, tries, outcome, said, sidecar, window, old, label, born, rcv, deliveries>>
  BY TakeEffect
<1>3. CASE Took0(r)
  BY <1>2, <1>3 DEF Took0
<1>4. CASE Took1(r) /\ Emptied(r)
  BY <1>2, <1>4 DEF Took1, Emptied, EmptyHand
<1>5. ASSUME Took1(r), NEW f \in Comments, NEW rest \in SUBSET Comments, Dealt(r, f, rest)
      PROVE  /\ spent' = spent /\ stage' = [stage EXCEPT ![r] = "taking"]
             /\ \E h \in [first : Comments \cup {NoRun}, rest : SUBSET Comments] :
                  hand' = [hand EXCEPT ![r] = h]
  BY <1>5 DEF Took1, Dealt
<1> QED
  BY <1>1, <1>2, <1>3, <1>4, <1>5 DEF Took1

\* The answer is created in a free window, or no job is.
Created(r) ==
  LET c == hand[r].first IN
  /\ stage[c] = "none" /\ window = NoRun
  /\ stage' = [stage EXCEPT ![c] = "queued", ![r] = "saying"] /\ window' = c
Added(r) == stage' = [stage EXCEPT ![r] = "saying"] /\ UNCHANGED window
\* What is said and what is logged of every reply in hand.
Answer(r, x) ==
  /\ said' = [said EXCEPT ![r] = x] /\ hand' = [hand EXCEPT ![r] = EmptyHand]
  /\ log \subseteq log'
  /\ \A c \in InHand(r) : \E e \in Seen : <<r, c, e>> \in log'
  /\ \A q, c, e : <<q, c, e>> \in log' =>
       <<q, c, e>> \in log \/ (q = r /\ c # NoRun /\ e \in Seen /\ (e = "resumed" => x = "continues"))

\* Every reply in hand is told of, and the comment says what was logged.
LEMMA TookEffect ==
  ASSUME NEW r \in Runs, RunTypes, hand[r].first # NoRun, NEW how \in {"here", "other", "failed"}, Took(r, how)
  PROVE  Answer(r, IF how = "failed" THEN "invites" ELSE "continues")
<1>1. hand[r].rest \subseteq Comments /\ hand[r].first \in Comments
  BY DEF RunTypes
<1>2. \A c \in InHand(r) : \E e \in Seen : <<r, c, e>> \in log'
  BY DEF Took, InHand, Seen
<1>3. \A q, c, e : <<q, c, e>> \in log' =>
        <<q, c, e>> \in log \/ (q = r /\ c # NoRun /\ e \in Seen /\ (e = "resumed" => how = "here"))
  <2> SUFFICES ASSUME NEW q, NEW c, NEW e, <<q, c, e>> \in log', <<q, c, e>> \notin log
               PROVE  q = r /\ c # NoRun /\ e \in Seen /\ (e = "resumed" => how = "here")
    OBVIOUS
  <2>1. CASE how = "here"
    <3>1. log' = log \cup ({<<r, d, "resumed">> : d \in {hand[r].first}} \cup {<<r, d, "extra">> : d \in hand[r].rest})
      BY <2>1 DEF Took
    <3> QED
      BY <1>1, <2>1, <3>1 DEF Seen, Runs
  <2>2. CASE how = "other"
    <3>1. log' = log \cup {<<r, d, "extra">> : d \in {hand[r].first} \cup hand[r].rest}
      BY <2>2 DEF Took
    <3> QED
      BY <1>1, <2>2, <3>1 DEF Seen, Runs
  <2>3. CASE how = "failed"
    <3>1. log' = log \cup {<<r, d, "notStarted">> : d \in {hand[r].first} \cup hand[r].rest}
      BY <2>3 DEF Took
    <3> QED
      BY <1>1, <2>3, <3>1 DEF Seen, Runs
  <2> QED
    BY <2>1, <2>2, <2>3
<1> QED
  BY <1>2, <1>3 DEF Answer, Took

\* The start of the answer: a job that goes on exists whenever the comment says so.
LEMMA StartAnswerEffect ==
  ASSUME NEW r \in Runs, RunTypes, WindowBorn, HandHeld, StartAnswer(r)
  PROVE  /\ stage[r] = "taking" /\ (Created(r) \/ Added(r))
         /\ UNCHANGED <<list, closed, open, label, born, rcv, deliveries, tries, outcome, marker, sidecar, old>>
         /\ UNCHANGED spent \/ Spend("faults")
         /\ \E x \in {"invites", "continues"} :
              Answer(r, x) /\ (x = "continues" => \E q \in Runs \ {r} : stage'[q] # "none")
<1> DEFINE c == hand[r].first
<1> USE DEF StartAnswer, keys, forge, receiver
<1>1. c \in Comments /\ c \in Runs /\ c # First /\ c # NoRun
  BY DEF RunTypes, Runs, HandHeld
<1>2. /\ stage[r] = "taking" /\ (Created(r) \/ Added(r))
      /\ UNCHANGED <<list, closed, open, label, born, rcv, deliveries, tries, outcome, marker, sidecar, old>>
      /\ UNCHANGED spent \/ Spend("faults")
  BY DEF Created, Added, AddOutcome
<1>3. CASE /\ UNCHANGED spent /\ Took(r, Answered(r, c))
           /\ Answered(r, c) = "here" /\ AddOutcome(c) = "created" => Created(r)
  <2>1. Answered(r, c) \in {"here", "other", "failed"}
    BY DEF Answered
  <2>2. Answer(r, IF Answered(r, c) = "failed" THEN "invites" ELSE "continues")
    BY <1>1, <1>3, <2>1, TookEffect
  <2>3. ASSUME Answered(r, c) # "failed" PROVE \E q \in Runs \ {r} : stage'[q] # "none"
    <3>1. CASE AddOutcome(c) = "swallowed"
      <4>1. window # r /\ window \in Runs /\ stage[window] # "none"
        BY <2>3, <3>1 DEF Answered, AddOutcome, RunTypes, WindowBorn
      <4>2. stage'[window] # "none"
        BY <4>1, <1>2 DEF Created, Added, RunTypes
      <4> QED
        BY <4>1, <4>2
    <3>2. CASE AddOutcome(c) # "swallowed"
      <4>1. stage[c] # "none" \/ Created(r)
        BY <1>3, <3>2 DEF Answered, AddOutcome
      <4>2. stage'[c] # "none" /\ stage'[First] # "none"
        BY <1>1, <1>2, <4>1 DEF Created, Added, RunTypes, WindowBorn, Runs
      <4> QED
        BY <4>2, <1>1 DEF Runs
    <3> QED
      BY <3>1, <3>2
  <2> QED
    BY <1>2, <2>2, <2>3
<1>4. CASE Spend("faults") /\ Took(r, "failed")
  BY <1>1, <1>2, <1>4, TookEffect
<1> QED
  BY <1>3, <1>4 DEF Created, AddOutcome

\* The settle of a run: the list is closed, or a command failed.
LEMMA SettleEffect ==
  ASSUME NEW r \in Runs, RunTypes, Settle(r) \/ Listen(r)
  PROVE  /\ stage[r] \in {"settling", "listening"}
         /\ \E s \in {"listening", "done", "failed"} : stage' = [stage EXCEPT ![r] = s]
         /\ stage'[r] = "done" => outcome[r] # "failed"
         /\ \/ Close(r) /\ spent' = spent
                 /\ log' = log \cup {<<r, c, "letGo">> : c \in Ids(Entries(r))}
            \/ Spend("faults") /\ UNCHANGED <<closed, open, log>>
         /\ UNCHANGED <<list, tries, outcome, said, hand, sidecar, marker, window, old, label, born, rcv, deliveries>>
<1> USE DEF forge, receiver
<1>1. CASE Settle(r)
  <2> DEFINE next == IF outcome[r] = "failed" THEN "listening" ELSE "done"
  <2>1. /\ stage[r] = "settling" /\ stage' = [stage EXCEPT ![r] = next]
        /\ UNCHANGED <<list, tries, outcome, said, hand, sidecar, marker, window, old, label, born, rcv, deliveries>>
    BY <1>1 DEF Settle, SettleHeld
  <2>2. stage'[r] = "done" => outcome[r] # "failed"
    BY <2>1 DEF RunTypes
  <2>3. next \in {"listening", "done", "failed"}
    OBVIOUS
  <2>4. \/ Close(r) /\ spent' = spent
              /\ log' = log \cup {<<r, c, "letGo">> : c \in Ids(Entries(r))}
        \/ Spend("faults") /\ UNCHANGED <<closed, open, log>>
    BY <1>1 DEF Settle, SettleHeld, Note
  <2> QED
    BY <2>1, <2>2, <2>3, <2>4
<1>2. CASE Listen(r)
  BY <1>2 DEF Listen, SettleHeld, Note
<1> QED
  BY <1>1, <1>2

\* A hold appends to the list of a run that is live and has not closed it; at the cap
\* the oldest entry goes.
Held(r, c) ==
  /\ ~closed[r] /\ open[r] # "none" /\ c \notin Ids(list[r])
  /\ list' \in [Runs -> Seq(Comments)] /\ \A q \in Runs \ {r} : list'[q] = list[q]
  /\ Len(list'[r]) <= MaxEntries /\ IsInjective(list'[r])
  /\ Ids(list'[r]) \subseteq Ids(list[r]) \cup {c}

\* Appending what a sequence does not hold keeps it free of repetitions ...
LEMMA Appended ==
  ASSUME NEW S, NEW s \in Seq(S), IsInjective(s), NEW c \in S, c \notin Ids(s)
  PROVE  /\ Append(s, c) \in Seq(S) /\ Len(Append(s, c)) = Len(s) + 1
         /\ IsInjective(Append(s, c)) /\ Ids(Append(s, c)) = Ids(s) \cup {c}
<1> DEFINE a == Append(s, c)
<1>1. /\ a \in Seq(S) /\ Len(a) = Len(s) + 1 /\ a[Len(s) + 1] = c /\ DOMAIN s = 1 .. Len(s)
      /\ DOMAIN a = 1 .. Len(s) + 1 /\ \A i \in 1 .. Len(s) : a[i] = s[i]
  OBVIOUS
<1>2. \A i \in 1 .. Len(s) : s[i] # c
  BY DEF Ids
<1> HIDE DEF a
<1>3. ASSUME NEW i \in DOMAIN a, NEW j \in DOMAIN a, a[i] = a[j] PROVE i = j
  <2>1. CASE i \in 1 .. Len(s) /\ j \in 1 .. Len(s)
    BY <1>1, <1>3, <2>1 DEF IsInjective
  <2>2. CASE i = Len(s) + 1 \/ j = Len(s) + 1
    BY <1>1, <1>2, <1>3, <2>2
  <2> QED
    BY <1>1, <2>1, <2>2
<1>4. Ids(a) = Ids(s) \cup {c}
  <2>1. \A x \in Ids(s) \cup {c} : x \in Ids(a)
    BY <1>1 DEF Ids
  <2>2. \A x \in Ids(a) : x \in Ids(s) \cup {c}
    BY <1>1 DEF Ids
  <2> QED
    BY <2>1, <2>2
<1> QED
  BY <1>1, <1>3, <1>4 DEF IsInjective, a

\* ... and so does trimming its front.
LEMMA Trimmed ==
  ASSUME NEW S, NEW a \in Seq(S), IsInjective(a), a # <<>>, NEW k \in {1, 2}
  PROVE  LET t == SubSeq(a, k, Len(a)) IN
         t \in Seq(S) /\ Len(t) = Len(a) + 1 - k /\ IsInjective(t) /\ Ids(t) \subseteq Ids(a)
<1> DEFINE t == SubSeq(a, k, Len(a))
<1>1. /\ t \in Seq(S) /\ Len(t) = Len(a) + 1 - k /\ DOMAIN t = 1 .. Len(t) /\ DOMAIN a = 1 .. Len(a)
      /\ \A i \in 1 .. Len(t) : t[i] = a[i + k - 1] /\ i + k - 1 \in 1 .. Len(a)
  OBVIOUS
<1> HIDE DEF t
<1>2. ASSUME NEW i \in DOMAIN t, NEW j \in DOMAIN t, t[i] = t[j] PROVE i = j
  <2>1. i \in 1 .. Len(t) /\ j \in 1 .. Len(t)
    BY <1>1
  <2>2. t[i] = a[i + k - 1] /\ t[j] = a[j + k - 1] /\ i + k - 1 \in DOMAIN a /\ j + k - 1 \in DOMAIN a
    BY <1>1, <2>1
  <2>3. i + k - 1 = j + k - 1
    BY <1>2, <2>2 DEF IsInjective
  <2> QED
    BY <2>1, <2>3
<1>3. Ids(t) \subseteq Ids(a)
  BY <1>1 DEF Ids
<1> QED
  BY <1>1, <1>2, <1>3 DEF t, IsInjective

\* The push of a hold that was accepted does that.
LEMMA PushEffect ==
  ASSUME NEW r \in Runs, NEW c \in Comments, ListTypes, Push(r, c), HoldOutcome(r, c) = "ok"
  PROVE  Held(r, c)
<1> DEFINE a == Append(list[r], c)
           t == SubSeq(a, IF Len(a) > MaxEntries THEN 2 ELSE 1, Len(a))
<1>1. ~closed[r] /\ open[r] # "none" /\ c \notin Ids(list[r])
  BY DEF HoldOutcome
<1>2. list[r] \in Seq(Comments) /\ Len(list[r]) <= MaxEntries /\ IsInjective(list[r])
  BY DEF ListTypes
<1>3. /\ a \in Seq(Comments) /\ Len(a) = Len(list[r]) + 1 /\ IsInjective(a)
      /\ Ids(a) = Ids(list[r]) \cup {c}
  BY <1>1, <1>2, Appended
<1>4. t \in Seq(Comments) /\ IsInjective(t) /\ Ids(t) \subseteq Ids(a) /\ Len(t) <= MaxEntries
  <2> HIDE DEF a
  <2>1. a # <<>> /\ Len(a) \in Nat /\ Len(a) <= MaxEntries + 1
    BY <1>2, <1>3
  <2>2. CASE Len(a) > MaxEntries
    BY <1>3, <2>1, <2>2, Trimmed
  <2>3. CASE ~(Len(a) > MaxEntries)
    BY <1>3, <2>1, <2>3, Trimmed
  <2> QED
    BY <2>2, <2>3
<1>5. list' = [list EXCEPT ![r] = t] /\ list \in [Runs -> Seq(Comments)]
  BY DEF Push, ListTypes
<1> HIDE DEF a, t
<1>6. list'[r] = t /\ list' \in [Runs -> Seq(Comments)] /\ \A q \in Runs \ {r} : list'[q] = list[q]
  BY <1>4, <1>5
<1> QED
  BY <1>1, <1>3, <1>4, <1>6 DEF Held

\* One delivery's hold: under one run, with its answer, or a failed command.
Holding(c, r) ==
  /\ Held(r, c) \/ UNCHANGED list
  /\ UNCHANGED spent \/ Spend("faults")
  /\ UNCHANGED <<closed, open, label, born, stage, tries, outcome, hand, said, deliveries, marker,
                 sidecar, window, old, log>>

\* The hold of a swallowed reply, under the run that has the window.
LEMMA HoldForEffect ==
  ASSUME NEW c \in Comments, ListTypes, ReceiverTypes, Swallowing, HoldFor(c)
  PROVE  /\ \E r \in Runs : Holding(c, r)
         /\ rcv[c].pc = "holdFor" /\ rcv' = [rcv EXCEPT ![c] = Delivering("ended", {}, NoRun)]
<1> DEFINE r == rcv[c].at
<1>1. rcv[c].pc = "holdFor" /\ rcv' = [rcv EXCEPT ![c] = Delivering("ended", {}, NoRun)]
  BY DEF HoldFor, At, Goto
<1>2. r \in Runs
  BY <1>1 DEF Swallowing
<1>3. (Push(r, c) /\ HoldOutcome(r, c) = "ok") \/ UNCHANGED list
  BY DEF HoldFor
<1>4. /\ UNCHANGED spent \/ Spend("faults")
      /\ UNCHANGED <<closed, open, label, born, stage, tries, outcome, hand, said, deliveries, marker,
                     sidecar, window, old, log>>
  BY DEF HoldFor, forge, run
<1> QED
  BY <1>1, <1>2, <1>3, <1>4, PushEffect DEF Holding
Fanned(c, r) ==
  \E took \in BOOLEAN :
    /\ rcv[c].took => took
    /\ ~closed[r] /\ open[r] = "live" /\ UNCHANGED spent => took
    /\ LET todo == rcv[c].todo \ {r} IN
       rcv' = [rcv EXCEPT ![c] =
         [pc |-> IF todo # {} THEN "hold" ELSE IF took THEN "ended" ELSE "askParked",
          at |-> NoRun, took |-> took /\ todo # {}, todo |-> todo]]

\* One hold of the fan-out.
LEMMA HoldLiveEffect ==
  ASSUME NEW c \in Comments, ListTypes, ReceiverTypes, SpentTypes, HoldLive(c)
  PROVE  rcv[c].pc = "hold" /\ \E r \in rcv[c].todo : r \in Runs /\ Holding(c, r) /\ Fanned(c, r)
<1>1. PICK r \in rcv[c].todo, faulty \in {FALSE, CanFault} :
        LET answer == HoldOutcome(r, c)
            took == rcv[c].took \/ (~faulty /\ answer \in {"ok", "dup"})
            todo == rcv[c].todo \ {r}
            next == IF todo # {} THEN "hold" ELSE IF took THEN "ended" ELSE "askParked"
        IN
        /\ At(c, "hold")
        /\ rcv' = [rcv EXCEPT ![c] =
                     [pc |-> next, at |-> NoRun, took |-> took /\ todo # {}, todo |-> todo]]
        /\ IF faulty THEN Spend("faults") ELSE UNCHANGED spent
        /\ IF ~faulty /\ answer = "ok" THEN Push(r, c) ELSE UNCHANGED list
        /\ UNCHANGED <<closed, open, forge, run, deliveries, marker, sidecar, window, old, log>>
  BY DEF HoldLive
<1>2. r \in Runs /\ rcv[c].took \in BOOLEAN /\ rcv[c].pc = "hold"
  BY <1>1 DEF ReceiverTypes, At
<1>3. Holding(c, r)
  <2>1. Held(r, c) \/ UNCHANGED list
    BY <1>1, <1>2, PushEffect
  <2> QED
    BY <1>1, <2>1 DEF Holding, forge, run
<1>4. Fanned(c, r)
  <2> DEFINE took == rcv[c].took \/ (~faulty /\ HoldOutcome(r, c) \in {"ok", "dup"})
  <2>1. faulty => Spend("faults")
    BY <1>1
  <2>2. faulty => spent' # spent
    BY <2>1 DEF Spend, SpentTypes
  <2>3. ~closed[r] /\ open[r] = "live" => HoldOutcome(r, c) \in {"ok", "dup"}
    BY DEF HoldOutcome
  <2>4. rcv[c].took => took
    OBVIOUS
  <2>5. took \in BOOLEAN
    OBVIOUS
  <2>6. ~closed[r] /\ open[r] = "live" /\ UNCHANGED spent => took
    BY <2>2, <2>3
  <2>7. LET todo == rcv[c].todo \ {r} IN
        rcv' = [rcv EXCEPT ![c] =
          [pc |-> IF todo # {} THEN "hold" ELSE IF took THEN "ended" ELSE "askParked",
           at |-> NoRun, took |-> took /\ todo # {}, todo |-> todo]]
    BY <1>1
  <2> HIDE DEF took
  <2> QED
    BY <2>4, <2>5, <2>6, <2>7 DEF Fanned
<1> QED
  BY <1>2, <1>3, <1>4

\* Either hold is one under some run.
LEMMA HoldEffect ==
  ASSUME NEW c \in Comments, ListTypes, ReceiverTypes, Swallowing, SpentTypes, HoldLive(c) \/ HoldFor(c)
  PROVE  \E r \in Runs : Holding(c, r)
<1>1. CASE HoldLive(c)
  BY <1>1, HoldLiveEffect
<1>2. CASE HoldFor(c)
  BY <1>2, HoldForEffect
<1> QED
  BY <1>1, <1>2

\* The receiver's records stay what they are.
Deliveries == [pc : {"unposted", "posted", "lookup", "hold", "askParked", "enqueue", "holdFor", "ended"},
               todo : SUBSET Runs, at : Runs \cup {NoRun}, took : BOOLEAN]

\* Setting one delivery to such a record keeps them all.
LEMMA RcvSet ==
  ASSUME NEW c \in Comments, ReceiverTypes, Swallowing, NEW v \in Deliveries,
         v.pc = "holdFor" => v.at \in Runs, rcv' = [rcv EXCEPT ![c] = v]
  PROVE  ReceiverTypes' /\ Swallowing'
<1>1. rcv' \in [Comments -> Deliveries] /\ \A d \in Comments : rcv'[d] = IF d = c THEN v ELSE rcv[d]
  BY DEF ReceiverTypes, Deliveries
<1> QED
  BY <1>1 DEF ReceiverTypes, Deliveries, Swallowing

\* So does going on to a place that holds for nobody.
LEMMA GotoType ==
  ASSUME NEW c \in Comments, ReceiverTypes, Swallowing,
         NEW pc \in {"posted", "lookup", "askParked", "enqueue", "ended"}, Goto(c, pc)
  PROVE  ReceiverTypes' /\ Swallowing'
<1>1. Delivering(pc, {}, NoRun) \in Deliveries
  BY DEF Delivering, Deliveries
<1>2. Delivering(pc, {}, NoRun).pc # "holdFor"
  BY DEF Delivering
<1> QED
  BY <1>1, <1>2, RcvSet DEF Goto

\* What was spent stays counted.
LEMMA SpentStep ==
  Based /\ [Next]_vars
  => SpentTypes'
<1> SUFFICES ASSUME Based, [Next]_vars
             PROVE  SpentTypes'
  OBVIOUS
<1> USE DEF Based, keys, forge, receiver, run, Step, Spend, Can
<1> USE DEF SpentTypes
<1>1. ASSUME UNCHANGED <<spent>> PROVE SpentTypes'
  BY <1>1
<1>2. ASSUME NEW c \in Comments,
             Post(c) \/ Deliver(c) \/ Enqueue(c)
      PROVE  UNCHANGED <<spent>>
  BY <1>2 DEF Post, Deliver, Enqueue
<1>3. ASSUME NEW c \in Comments, Lookup(c) PROVE SpentTypes'
  BY <1>3 DEF Lookup, Goto, At, Note, Spend, Can
<1>4. ASSUME NEW c \in Comments, HoldLive(c) PROVE SpentTypes'
  BY <1>4, HoldEffect DEF Holding
<1>5. ASSUME NEW c \in Comments, AskParked(c) PROVE SpentTypes'
  BY <1>5 DEF AskParked, Goto, At, Note, Spend, Can
<1>6. ASSUME NEW c \in Comments, HoldFor(c) PROVE SpentTypes'
  BY <1>6, HoldEffect DEF Holding
<1>7. ASSUME NEW c \in Comments, ReceiverRestart(c) PROVE SpentTypes'
  BY <1>7 DEF ReceiverRestart, Goto, Spend, Can
<1>8. ASSUME NEW r \in Runs,
             Refresh(r) \/ Start(r) \/ Ask(r) \/ Complete(r) \/ Unmark(r) \/
               Promote(r) \/ Say(r) \/ Fail(r) \/ Age(r) \/ OpenLapses(r)
      PROVE  UNCHANGED <<spent>>
  BY <1>8 DEF Refresh, Start, Ask, Complete, Unmark, Promote, Say, Fail, Age, OpenLapses
<1>9. ASSUME NEW r \in Runs, Pickup(r) PROVE SpentTypes'
  BY <1>9 DEF Pickup
<1>10. ASSUME NEW r \in Runs, Register(r) PROVE SpentTypes'
  BY <1>10 DEF Register
<1>11. ASSUME NEW r \in Runs, Settle(r) PROVE SpentTypes'
  BY <1>11, SettleEffect DEF Close
<1>12. ASSUME NEW r \in Runs, Listen(r) PROVE SpentTypes'
  BY <1>12, SettleEffect DEF Close
<1>13. ASSUME NEW r \in Runs, Mark(r) PROVE SpentTypes'
  BY <1>13 DEF Mark
<1>14. ASSUME NEW r \in Runs, Release(r) PROVE SpentTypes'
  BY <1>14 DEF Release
<1>15. ASSUME NEW r \in Runs, Take(r) PROVE SpentTypes'
  BY <1>15, TakeShape
<1>16. ASSUME NEW r \in Runs, StartAnswer(r) PROVE SpentTypes'
  BY <1>16, StartAnswerEffect DEF Created, Added, Answer
<1>17. ASSUME NEW r \in Runs, ConsoleRetry(r) PROVE SpentTypes'
  BY <1>17 DEF ConsoleRetry
<1>18. ASSUME NEW r \in Runs, Crash(r) PROVE SpentTypes'
  BY <1>18 DEF Crash
<1>19. CASE Lapse
  BY <1>19 DEF Lapse
<1>20. CASE UNCHANGED vars
  BY <1>1, <1>20 DEF vars
<1> QED
  BY <1>1, <1>2, <1>3, <1>4, <1>5, <1>6, <1>7, <1>8, <1>9, <1>10, <1>11, <1>12, <1>13, <1>14, <1>15,
     <1>16, <1>17, <1>18, <1>19, <1>20 DEF Next, Delivery, Work, Park, Disturb

\* The flags stay flags.
LEMMA FlagStep ==
  Based /\ [Next]_vars
  => FlagTypes'
<1> SUFFICES ASSUME Based, [Next]_vars
             PROVE  FlagTypes'
  OBVIOUS
<1> USE DEF Based, keys, forge, receiver, run, Step, Spend, Can
<1> USE DEF FlagTypes
<1>1. ASSUME UNCHANGED <<closed, open, marker, label, sidecar>> PROVE FlagTypes'
  BY <1>1
<1>2. ASSUME NEW c \in Comments,
             Post(c) \/ Deliver(c) \/ Lookup(c) \/ HoldLive(c) \/ AskParked(c) \/
               Enqueue(c) \/ HoldFor(c) \/ ReceiverRestart(c)
      PROVE  UNCHANGED <<closed, open, marker, label, sidecar>>
  BY <1>2 DEF Post, Deliver, Lookup, HoldLive, AskParked, Enqueue, HoldFor, ReceiverRestart
<1>3. ASSUME NEW r \in Runs,
             Ask(r) \/ Release(r) \/ StartAnswer(r) \/ Say(r) \/ Fail(r) \/
               ConsoleRetry(r) \/ Crash(r) \/ Age(r)
      PROVE  UNCHANGED <<closed, open, marker, label, sidecar>>
  BY <1>3 DEF Ask, Release, StartAnswer, Say, Fail, ConsoleRetry, Crash, Age
<1>4. ASSUME NEW r \in Runs, Pickup(r) PROVE FlagTypes'
  BY <1>4 DEF Pickup
<1>5. ASSUME NEW r \in Runs, Register(r) PROVE FlagTypes'
  BY <1>5 DEF Register
<1>6. ASSUME NEW r \in Runs, Refresh(r) PROVE FlagTypes'
  BY <1>6 DEF Refresh
<1>7. ASSUME NEW r \in Runs, Start(r) PROVE FlagTypes'
  BY <1>7 DEF Start
<1>8. ASSUME NEW r \in Runs, Complete(r) PROVE FlagTypes'
  BY <1>8 DEF Complete
<1>9. ASSUME NEW r \in Runs, Unmark(r) PROVE FlagTypes'
  BY <1>9 DEF Unmark
<1>10. ASSUME NEW r \in Runs, Settle(r) PROVE FlagTypes'
  BY <1>10, SettleEffect DEF Close
<1>11. ASSUME NEW r \in Runs, Listen(r) PROVE FlagTypes'
  BY <1>11, SettleEffect DEF Close
<1>12. ASSUME NEW r \in Runs, Promote(r) PROVE FlagTypes'
  BY <1>12 DEF Promote
<1>13. ASSUME NEW r \in Runs, Mark(r) PROVE FlagTypes'
  BY <1>13 DEF Mark
<1>14. ASSUME NEW r \in Runs, Take(r) PROVE FlagTypes'
  BY <1>14, TakeEffect DEF Took1, Took0, Close
<1>15. ASSUME NEW r \in Runs, OpenLapses(r) PROVE FlagTypes'
  BY <1>15 DEF OpenLapses
<1>16. CASE Lapse
  BY <1>16 DEF Lapse
<1>17. CASE UNCHANGED vars
  BY <1>1, <1>17 DEF vars
<1> QED
  BY <1>1, <1>2, <1>3, <1>4, <1>5, <1>6, <1>7, <1>8, <1>9, <1>10, <1>11, <1>12, <1>13, <1>14, <1>15,
     <1>16, <1>17 DEF Next, Delivery, Work, Park, Disturb

\* The runs' values stay in their types: an answer is created as a queued run.
LEMMA RunStep ==
  Based /\ [Next]_vars
  => RunTypes'
<1> SUFFICES ASSUME Based, [Next]_vars
             PROVE  RunTypes'
  OBVIOUS
<1> USE DEF Based, keys, forge, receiver, run, Step, Spend, Can
<1> USE DEF RunTypes, Stages, Active, Keeping, Parking, Runs
<1>1. ASSUME UNCHANGED <<stage, tries, outcome, said, hand, window>> PROVE RunTypes'
  BY <1>1
<1>2. ASSUME NEW c \in Comments,
             Post(c) \/ Deliver(c) \/ Lookup(c) \/ HoldLive(c) \/ AskParked(c) \/
               HoldFor(c) \/ ReceiverRestart(c)
      PROVE  UNCHANGED <<stage, tries, outcome, said, hand, window>>
  BY <1>2 DEF Post, Deliver, Lookup, HoldLive, AskParked, HoldFor, ReceiverRestart
<1>3. ASSUME NEW c \in Comments, Enqueue(c) PROVE RunTypes'
  BY <1>3 DEF Enqueue, Goto, At, Add, AddOutcome
<1>4. ASSUME NEW r \in Runs,
             Refresh(r) \/ Age(r) \/ OpenLapses(r)
      PROVE  UNCHANGED <<stage, tries, outcome, said, hand, window>>
  BY <1>4 DEF Refresh, Age, OpenLapses
<1>5. ASSUME NEW r \in Runs, Pickup(r) PROVE RunTypes'
  BY <1>5 DEF Pickup
<1>6. ASSUME NEW r \in Runs, Register(r) PROVE RunTypes'
  BY <1>6 DEF Register
<1>7. ASSUME NEW r \in Runs, Start(r) PROVE RunTypes'
  BY <1>7 DEF Start
<1>8. ASSUME NEW r \in Runs, Ask(r) PROVE RunTypes'
  BY <1>8 DEF Ask
<1>9. ASSUME NEW r \in Runs, Complete(r) PROVE RunTypes'
  BY <1>9 DEF Complete
<1>10. ASSUME NEW r \in Runs, Unmark(r) PROVE RunTypes'
  BY <1>10 DEF Unmark
<1>11. ASSUME NEW r \in Runs, Settle(r) PROVE RunTypes'
  BY <1>11, SettleEffect DEF Close
<1>12. ASSUME NEW r \in Runs, Listen(r) PROVE RunTypes'
  BY <1>12, SettleEffect DEF Close
<1>13. ASSUME NEW r \in Runs, Promote(r) PROVE RunTypes'
  BY <1>13 DEF Promote
<1>14. ASSUME NEW r \in Runs, Mark(r) PROVE RunTypes'
  BY <1>14 DEF Mark
<1>15. ASSUME NEW r \in Runs, Release(r) PROVE RunTypes'
  BY <1>15 DEF Release
<1>16. ASSUME NEW r \in Runs, Take(r) PROVE RunTypes'
  BY <1>16, TakeShape
<1>17. ASSUME NEW r \in Runs, StartAnswer(r) PROVE RunTypes'
  BY <1>17, StartAnswerEffect DEF Created, Added, Answer, EmptyHand
<1>18. ASSUME NEW r \in Runs, Say(r) PROVE RunTypes'
  BY <1>18 DEF Say
<1>19. ASSUME NEW r \in Runs, Fail(r) PROVE RunTypes'
  BY <1>19 DEF Fail
<1>20. ASSUME NEW r \in Runs, ConsoleRetry(r) PROVE RunTypes'
  BY <1>20 DEF ConsoleRetry
<1>21. ASSUME NEW r \in Runs, Crash(r) PROVE RunTypes'
  BY <1>21 DEF Crash, EmptyHand
<1>22. CASE Lapse
  BY <1>22 DEF Lapse
<1>23. CASE UNCHANGED vars
  BY <1>1, <1>23 DEF vars
<1> QED
  BY <1>1, <1>2, <1>3, <1>4, <1>5, <1>6, <1>7, <1>8, <1>9, <1>10, <1>11, <1>12, <1>13, <1>14, <1>15,
     <1>16, <1>17, <1>18, <1>19, <1>20, <1>21, <1>22, <1>23 DEF Next, Delivery, Work, Park, Disturb

\* The lists keep their cap and hold a delivery once.
LEMMA ListStep ==
  Based /\ [Next]_vars
  => ListTypes'
<1> SUFFICES ASSUME Based, [Next]_vars
             PROVE  ListTypes'
  OBVIOUS
<1> USE DEF Based, keys, forge, receiver, run, Step, Spend, Can
<1> USE DEF ListTypes
<1>1. ASSUME UNCHANGED <<list, old>> PROVE ListTypes'
  BY <1>1
<1>2. ASSUME NEW c \in Comments,
             Post(c) \/ Deliver(c) \/ Lookup(c) \/ AskParked(c) \/ Enqueue(c) \/
               ReceiverRestart(c)
      PROVE  UNCHANGED <<list, old>>
  BY <1>2 DEF Post, Deliver, Lookup, AskParked, Enqueue, ReceiverRestart
<1>3. ASSUME NEW c \in Comments, HoldLive(c) PROVE ListTypes'
  BY <1>3, HoldEffect DEF Holding, Held
<1>4. ASSUME NEW c \in Comments, HoldFor(c) PROVE ListTypes'
  BY <1>4, HoldEffect DEF Holding, Held
<1>5. ASSUME NEW r \in Runs,
             Register(r) \/ Refresh(r) \/ Start(r) \/ Ask(r) \/ Complete(r) \/
               Unmark(r) \/ Settle(r) \/ Listen(r) \/ Promote(r) \/ Mark(r) \/
               Release(r) \/ Take(r) \/ StartAnswer(r) \/ Say(r) \/ Fail(r) \/
               ConsoleRetry(r) \/ Crash(r) \/ OpenLapses(r)
      PROVE  UNCHANGED <<list, old>>
  BY <1>5 DEF Register, Refresh, Start, Ask, Complete, Unmark, Settle, SettleHeld, Listen,
     SettleHeld, Promote, Mark, Release, Take, StartAnswer, Say, Fail, ConsoleRetry, Crash,
     OpenLapses
<1>6. ASSUME NEW r \in Runs, Pickup(r) PROVE ListTypes'
  <2>1. <<>> \in Seq(Comments) /\ Len(<<>>) <= MaxEntries /\ IsInjective(<<>>)
    BY DEF IsInjective
  <2>2. \/ UNCHANGED <<list, old>>
        \/ /\ list' = [list EXCEPT ![r] = IF closed[r] THEN <<>> ELSE @]
           /\ old' = [old EXCEPT ![r] = IF closed[r] THEN {} ELSE @]
    BY <1>6 DEF Pickup
  <2>3. CASE closed[r]
    <3>1. UNCHANGED <<list, old>> \/ (list' = [list EXCEPT ![r] = <<>>] /\ old' = [old EXCEPT ![r] = {}])
      BY <2>2, <2>3
    <3> QED
      BY <2>1, <3>1
  <2>4. CASE ~closed[r]
    BY <2>2, <2>4
  <2> QED
    BY <2>3, <2>4
<1>7. ASSUME NEW r \in Runs, Age(r) PROVE ListTypes'
  <2>1. Ids(list[r]) \subseteq Comments
    BY DEF Ids
  <2> QED
    BY <1>7, <2>1 DEF Age
<1>8. CASE Lapse \/ UNCHANGED vars
  BY <1>1, <1>8 DEF Lapse, vars
<1> QED
  BY <1>1, <1>2, <1>3, <1>4, <1>5, <1>6, <1>7, <1>8 DEF Next, Delivery, Work, Park, Disturb

\* The receiver's records stay what they are, and a swallowed reply names a run.
LEMMA ReceiverStep ==
  Based /\ [Next]_vars
  => ReceiverTypes' /\ Swallowing'
<1> SUFFICES ASSUME Based, [Next]_vars
             PROVE  ReceiverTypes' /\ Swallowing'
  OBVIOUS
<1> USE DEF Based, keys, forge, receiver, run, Step, Spend, Can
<1>1. ASSUME UNCHANGED <<rcv>> PROVE ReceiverTypes' /\ Swallowing'
  BY <1>1 DEF ReceiverTypes, Swallowing
<1>2. ASSUME NEW c \in Comments, Post(c) PROVE ReceiverTypes' /\ Swallowing'
  BY <1>2, GotoType DEF Post
<1>3. ASSUME NEW c \in Comments, Deliver(c) PROVE ReceiverTypes' /\ Swallowing'
  BY <1>3, GotoType DEF Deliver
<1>4. ASSUME NEW c \in Comments, Lookup(c) PROVE ReceiverTypes' /\ Swallowing'
  <2>1. CASE Goto(c, "ended")
    BY <2>1, GotoType
  <2> DEFINE live == {r \in Runs : open[r] # "none"}
             v == Delivering(IF live = {} THEN "askParked" ELSE "hold", live, NoRun)
  <2>2. CASE rcv' = [rcv EXCEPT ![c] = v]
    <3>1. v \in Deliveries /\ v.pc # "holdFor"
      BY DEF Delivering, Deliveries
    <3> HIDE DEF v
    <3> QED
      BY <2>2, <3>1, RcvSet
  <2> QED
    BY <1>4, <2>1, <2>2 DEF Lookup
<1>5. ASSUME NEW c \in Comments, HoldLive(c) PROVE ReceiverTypes' /\ Swallowing'
  <2>1. PICK r \in Runs : Fanned(c, r)
    BY <1>5, HoldLiveEffect
  <2>2. PICK took \in BOOLEAN :
          rcv' = [rcv EXCEPT ![c] =
            [pc |-> IF rcv[c].todo \ {r} # {} THEN "hold" ELSE IF took THEN "ended" ELSE "askParked",
             at |-> NoRun, took |-> took /\ rcv[c].todo \ {r} # {}, todo |-> rcv[c].todo \ {r}]]
    BY <2>1 DEF Fanned
  <2> DEFINE v == [pc |-> IF rcv[c].todo \ {r} # {} THEN "hold" ELSE IF took THEN "ended" ELSE "askParked",
                   at |-> NoRun, took |-> took /\ rcv[c].todo \ {r} # {}, todo |-> rcv[c].todo \ {r}]
  <2>3. rcv[c].todo \in SUBSET Runs
    BY DEF ReceiverTypes
  <2>4. v \in Deliveries /\ v.pc # "holdFor"
    BY <2>3 DEF Deliveries
  <2> HIDE DEF v
  <2>5. rcv' = [rcv EXCEPT ![c] = v]
    BY <2>2 DEF v
  <2> QED
    BY <2>4, <2>5, RcvSet
<1>6. ASSUME NEW c \in Comments, AskParked(c) PROVE ReceiverTypes' /\ Swallowing'
  BY <1>6, GotoType DEF AskParked
<1>7. ASSUME NEW c \in Comments, Enqueue(c) PROVE ReceiverTypes' /\ Swallowing'
  <2>1. CASE AddOutcome(c) # "swallowed"
    BY <1>7, <2>1, GotoType DEF Enqueue
  <2>2. CASE AddOutcome(c) = "swallowed"
    <3> DEFINE v == Delivering("holdFor", {}, window)
    <3>1. window \in Runs
      BY <2>2 DEF AddOutcome, RunTypes
    <3>3. v \in Deliveries /\ v.at \in Runs
      BY <3>1 DEF Delivering, Deliveries
    <3>4. rcv' = [rcv EXCEPT ![c] = v]
      BY <1>7, <2>2 DEF Enqueue
    <3> HIDE DEF v
    <3> QED
      BY <3>3, <3>4, RcvSet
  <2> QED
    BY <2>1, <2>2
<1>8. ASSUME NEW c \in Comments, HoldFor(c) PROVE ReceiverTypes' /\ Swallowing'
  <2>1. Goto(c, "ended")
    BY <1>8 DEF HoldFor
  <2> QED
    BY <2>1, GotoType
<1>9. ASSUME NEW c \in Comments, ReceiverRestart(c) PROVE ReceiverTypes' /\ Swallowing'
  BY <1>9, GotoType DEF ReceiverRestart
<1>10. ASSUME NEW r \in Runs,
             Pickup(r) \/ Register(r) \/ Refresh(r) \/ Start(r) \/ Ask(r) \/
               Complete(r) \/ Unmark(r) \/ Settle(r) \/ Listen(r) \/ Promote(r) \/
               Mark(r) \/ Release(r) \/ Take(r) \/ StartAnswer(r) \/ Say(r) \/
               Fail(r) \/ ConsoleRetry(r) \/ Crash(r) \/ Age(r) \/ OpenLapses(r)
      PROVE  UNCHANGED <<rcv>>
  BY <1>10 DEF Pickup, Register, Refresh, Start, Ask, Complete, Unmark, Settle, SettleHeld, Listen,
     SettleHeld, Promote, Mark, Release, Take, StartAnswer, Say, Fail, ConsoleRetry, Crash, Age,
     OpenLapses
<1>11. CASE Lapse \/ UNCHANGED vars
  BY <1>1, <1>11 DEF Lapse, vars
<1> QED
  BY <1>1, <1>2, <1>3, <1>4, <1>5, <1>6, <1>7, <1>8, <1>9, <1>10, <1>11 DEF Next, Delivery, Work,
     Park, Disturb

\* A comment remembers questions of pickups that were made.
LEMMA BornStep ==
  Based /\ [Next]_vars
  => BornTypes'
<1> SUFFICES ASSUME Based, [Next]_vars
             PROVE  BornTypes'
  OBVIOUS
<1> USE DEF Based, keys, forge, receiver, run, Step, Spend, Can
<1> USE DEF BornTypes
<1>1. ASSUME UNCHANGED <<deliveries, born>> PROVE BornTypes'
  BY <1>1
<1>2. ASSUME NEW c \in Comments,
             Lookup(c) \/ HoldLive(c) \/ AskParked(c) \/ Enqueue(c) \/ HoldFor(c) \/
               ReceiverRestart(c)
      PROVE  UNCHANGED <<deliveries, born>>
  BY <1>2 DEF Lookup, HoldLive, AskParked, Enqueue, HoldFor, ReceiverRestart
<1>3. ASSUME NEW c \in Comments, Post(c) PROVE BornTypes'
  <2> DEFINE asked == {<<r, tries[r]>> : r \in {q \in Runs : stage[q] \in Parking}}
  <2>1. asked \in SUBSET (Runs \X Nat)
    BY DEF RunTypes
  <2>2. born' = [born EXCEPT ![c] = [label |-> label, asked |-> asked]] /\ UNCHANGED deliveries
    BY <1>3 DEF Post
  <2>3. [label |-> label, asked |-> asked] \in [label : BOOLEAN, asked : SUBSET (Runs \X Nat)]
    BY <2>1 DEF FlagTypes
  <2> HIDE DEF asked
  <2> QED
    BY <2>2, <2>3
<1>4. ASSUME NEW c \in Comments, Deliver(c) PROVE BornTypes'
  BY <1>4 DEF Deliver, Goto, At
<1>5. ASSUME NEW r \in Runs,
             Pickup(r) \/ Register(r) \/ Refresh(r) \/ Start(r) \/ Ask(r) \/
               Complete(r) \/ Unmark(r) \/ Settle(r) \/ Listen(r) \/ Promote(r) \/
               Mark(r) \/ Release(r) \/ Take(r) \/ StartAnswer(r) \/ Say(r) \/
               Fail(r) \/ ConsoleRetry(r) \/ Crash(r) \/ Age(r) \/ OpenLapses(r)
      PROVE  UNCHANGED <<deliveries, born>>
  BY <1>5 DEF Pickup, Register, Refresh, Start, Ask, Complete, Unmark, Settle, SettleHeld, Listen,
     SettleHeld, Promote, Mark, Release, Take, StartAnswer, Say, Fail, ConsoleRetry, Crash, Age,
     OpenLapses
<1>6. CASE Lapse \/ UNCHANGED vars
  BY <1>1, <1>6 DEF Lapse, vars
<1> QED
  BY <1>1, <1>2, <1>3, <1>4, <1>5, <1>6 DEF Next, Delivery, Work, Park, Disturb

\* A fault shows in the budget.
LEMMA FaultShows == ASSUME SpentTypes, Spend("faults") PROVE spent'.faults # 0
  BY DEF SpentTypes, Spend

\* Only the add that finds the window free makes a job work, and it takes the window.
LEMMA WindowStep ==
  Based /\ WindowHeld /\ [Next]_vars
  => WindowHeld'
<1> SUFFICES ASSUME Based, WindowHeld, [Next]_vars
             PROVE  WindowHeld'
  OBVIOUS
<1> USE DEF Based, keys, forge, receiver, run, Step, Spend, Can
<1> USE DEF WindowHeld, Working, SpentTypes, RunTypes, Runs
<1>1. ASSUME UNCHANGED <<stage, window, spent>> PROVE WindowHeld'
  BY <1>1
<1>2. ASSUME NEW c \in Comments,
             Post(c) \/ Deliver(c)
      PROVE  UNCHANGED <<stage, window, spent>>
  BY <1>2 DEF Post, Deliver
<1>3. ASSUME NEW c \in Comments, Lookup(c) PROVE WindowHeld'
  BY <1>3 DEF Lookup, Goto, At, Note, Spend, Can
<1>4. ASSUME NEW c \in Comments, HoldLive(c) PROVE WindowHeld'
  BY <1>4, HoldEffect DEF Holding
<1>5. ASSUME NEW c \in Comments, AskParked(c) PROVE WindowHeld'
  BY <1>5 DEF AskParked, Goto, At, Note, Spend, Can
<1>6. ASSUME NEW c \in Comments, Enqueue(c) PROVE WindowHeld'
  BY <1>6 DEF Enqueue, Goto, At, Add, AddOutcome
<1>7. ASSUME NEW c \in Comments, HoldFor(c) PROVE WindowHeld'
  BY <1>7, HoldEffect DEF Holding
<1>8. ASSUME NEW c \in Comments, ReceiverRestart(c) PROVE WindowHeld'
  BY <1>8 DEF ReceiverRestart, Goto, Spend, Can
<1>9. ASSUME NEW r \in Runs,
             Refresh(r) \/ Age(r) \/ OpenLapses(r)
      PROVE  UNCHANGED <<stage, window, spent>>
  BY <1>9 DEF Refresh, Age, OpenLapses
<1>10. ASSUME NEW r \in Runs, Pickup(r) PROVE WindowHeld'
  BY <1>10 DEF Pickup
<1>11. ASSUME NEW r \in Runs, Register(r) PROVE WindowHeld'
  BY <1>11 DEF Register
<1>12. ASSUME NEW r \in Runs, Start(r) PROVE WindowHeld'
  BY <1>12 DEF Start
<1>13. ASSUME NEW r \in Runs, Ask(r) PROVE WindowHeld'
  BY <1>13 DEF Ask
<1>14. ASSUME NEW r \in Runs, Complete(r) PROVE WindowHeld'
  BY <1>14 DEF Complete
<1>15. ASSUME NEW r \in Runs, Unmark(r) PROVE WindowHeld'
  BY <1>15 DEF Unmark
<1>16. ASSUME NEW r \in Runs, Settle(r) PROVE WindowHeld'
  BY <1>16, SettleEffect DEF Close
<1>17. ASSUME NEW r \in Runs, Listen(r) PROVE WindowHeld'
  BY <1>17, SettleEffect DEF Close
<1>18. ASSUME NEW r \in Runs, Promote(r) PROVE WindowHeld'
  BY <1>18 DEF Promote
<1>19. ASSUME NEW r \in Runs, Mark(r) PROVE WindowHeld'
  BY <1>19 DEF Mark
<1>20. ASSUME NEW r \in Runs, Release(r) PROVE WindowHeld'
  BY <1>20 DEF Release
<1>21. ASSUME NEW r \in Runs, Take(r) PROVE WindowHeld'
  BY <1>21, TakeShape
<1>22. ASSUME NEW r \in Runs, StartAnswer(r) PROVE WindowHeld'
  BY <1>22, StartAnswerEffect DEF Created, Added, Answer
<1>23. ASSUME NEW r \in Runs, Say(r) PROVE WindowHeld'
  BY <1>23 DEF Say
<1>24. ASSUME NEW r \in Runs, Fail(r) PROVE WindowHeld'
  BY <1>24 DEF Fail
<1>25. ASSUME NEW r \in Runs, ConsoleRetry(r) PROVE WindowHeld'
  BY <1>25 DEF ConsoleRetry
<1>26. ASSUME NEW r \in Runs, Crash(r) PROVE WindowHeld'
  BY <1>26 DEF Crash
<1>27. CASE Lapse
  BY <1>27 DEF Lapse
<1>28. CASE UNCHANGED vars
  BY <1>1, <1>28 DEF vars
<1> QED
  BY <1>1, <1>2, <1>3, <1>4, <1>5, <1>6, <1>7, <1>8, <1>9, <1>10, <1>11, <1>12, <1>13, <1>14, <1>15,
     <1>16, <1>17, <1>18, <1>19, <1>20, <1>21, <1>22, <1>23, <1>24, <1>25, <1>26, <1>27, <1>28 DEF
     Next, Delivery, Work, Park, Disturb

\* The window goes from one created job to another.
LEMMA WindowBornStep ==
  Based /\ [Next]_vars
  => WindowBorn'
<1> SUFFICES ASSUME Based, [Next]_vars
             PROVE  WindowBorn'
  OBVIOUS
<1> USE DEF Based, keys, forge, receiver, run, Step, Spend, Can
<1> USE DEF WindowBorn, RunTypes, Runs
<1>1. ASSUME UNCHANGED <<stage, window>> PROVE WindowBorn'
  BY <1>1
<1>2. ASSUME NEW c \in Comments,
             Post(c) \/ Deliver(c) \/ Lookup(c) \/ HoldLive(c) \/ AskParked(c) \/
               HoldFor(c) \/ ReceiverRestart(c)
      PROVE  UNCHANGED <<stage, window>>
  BY <1>2 DEF Post, Deliver, Lookup, HoldLive, AskParked, HoldFor, ReceiverRestart
<1>3. ASSUME NEW c \in Comments, Enqueue(c) PROVE WindowBorn'
  BY <1>3 DEF Enqueue, Goto, At, Add, AddOutcome
<1>4. ASSUME NEW r \in Runs,
             Refresh(r) \/ Age(r) \/ OpenLapses(r)
      PROVE  UNCHANGED <<stage, window>>
  BY <1>4 DEF Refresh, Age, OpenLapses
<1>5. ASSUME NEW r \in Runs, Pickup(r) PROVE WindowBorn'
  BY <1>5 DEF Pickup
<1>6. ASSUME NEW r \in Runs, Register(r) PROVE WindowBorn'
  BY <1>6 DEF Register
<1>7. ASSUME NEW r \in Runs, Start(r) PROVE WindowBorn'
  BY <1>7 DEF Start
<1>8. ASSUME NEW r \in Runs, Ask(r) PROVE WindowBorn'
  BY <1>8 DEF Ask
<1>9. ASSUME NEW r \in Runs, Complete(r) PROVE WindowBorn'
  BY <1>9 DEF Complete
<1>10. ASSUME NEW r \in Runs, Unmark(r) PROVE WindowBorn'
  BY <1>10 DEF Unmark
<1>11. ASSUME NEW r \in Runs, Settle(r) PROVE WindowBorn'
  BY <1>11, SettleEffect DEF Close
<1>12. ASSUME NEW r \in Runs, Listen(r) PROVE WindowBorn'
  BY <1>12, SettleEffect DEF Close
<1>13. ASSUME NEW r \in Runs, Promote(r) PROVE WindowBorn'
  BY <1>13 DEF Promote
<1>14. ASSUME NEW r \in Runs, Mark(r) PROVE WindowBorn'
  BY <1>14 DEF Mark
<1>15. ASSUME NEW r \in Runs, Release(r) PROVE WindowBorn'
  BY <1>15 DEF Release
<1>16. ASSUME NEW r \in Runs, Take(r) PROVE WindowBorn'
  BY <1>16, TakeShape
<1>17. ASSUME NEW r \in Runs, StartAnswer(r) PROVE WindowBorn'
  BY <1>17, StartAnswerEffect DEF Created, Added, Answer
<1>18. ASSUME NEW r \in Runs, Say(r) PROVE WindowBorn'
  BY <1>18 DEF Say
<1>19. ASSUME NEW r \in Runs, Fail(r) PROVE WindowBorn'
  BY <1>19 DEF Fail
<1>20. ASSUME NEW r \in Runs, ConsoleRetry(r) PROVE WindowBorn'
  BY <1>20 DEF ConsoleRetry
<1>21. ASSUME NEW r \in Runs, Crash(r) PROVE WindowBorn'
  BY <1>21 DEF Crash
<1>22. CASE Lapse
  BY <1>22 DEF Lapse
<1>23. CASE UNCHANGED vars
  BY <1>1, <1>23 DEF vars
<1> QED
  BY <1>1, <1>2, <1>3, <1>4, <1>5, <1>6, <1>7, <1>8, <1>9, <1>10, <1>11, <1>12, <1>13, <1>14, <1>15,
     <1>16, <1>17, <1>18, <1>19, <1>20, <1>21, <1>22, <1>23 DEF Next, Delivery, Work, Park, Disturb

\* A close is the take's or a settle's, and the keeper is stopped before both.
LEMMA ClosedStep ==
  Based /\ ClosedLate /\ ParkedLate /\ [Next]_vars
  => ClosedLate' /\ ParkedLate'
<1> SUFFICES ASSUME Based, ClosedLate, ParkedLate, [Next]_vars
             PROVE  ClosedLate' /\ ParkedLate'
  OBVIOUS
<1> USE DEF Based, keys, forge, receiver, run, Step, Spend, Can
<1> USE DEF ClosedLate, ParkedLate, SpentTypes, RunTypes, FlagTypes, Keeping, Active
<1>1. ASSUME UNCHANGED <<stage, closed, open, outcome, spent>> PROVE ClosedLate' /\ ParkedLate'
  BY <1>1
<1>2. ASSUME NEW c \in Comments,
             Post(c) \/ Deliver(c)
      PROVE  UNCHANGED <<stage, closed, open, outcome, spent>>
  BY <1>2 DEF Post, Deliver
<1>3. ASSUME NEW c \in Comments, Lookup(c) PROVE ClosedLate' /\ ParkedLate'
  BY <1>3 DEF Lookup, Goto, At, Note, Spend, Can
<1>4. ASSUME NEW c \in Comments, HoldLive(c) PROVE ClosedLate' /\ ParkedLate'
  BY <1>4, HoldEffect DEF Holding
<1>5. ASSUME NEW c \in Comments, AskParked(c) PROVE ClosedLate' /\ ParkedLate'
  BY <1>5 DEF AskParked, Goto, At, Note, Spend, Can
<1>6. ASSUME NEW c \in Comments, Enqueue(c) PROVE ClosedLate' /\ ParkedLate'
  BY <1>6 DEF Enqueue, Goto, At, Add, AddOutcome
<1>7. ASSUME NEW c \in Comments, HoldFor(c) PROVE ClosedLate' /\ ParkedLate'
  BY <1>7, HoldEffect DEF Holding
<1>8. ASSUME NEW c \in Comments, ReceiverRestart(c) PROVE ClosedLate' /\ ParkedLate'
  BY <1>8 DEF ReceiverRestart, Goto, Spend, Can
<1>9. ASSUME NEW r \in Runs,
             Age(r)
      PROVE  UNCHANGED <<stage, closed, open, outcome, spent>>
  BY <1>9 DEF Age
<1>10. ASSUME NEW r \in Runs, Pickup(r) PROVE ClosedLate' /\ ParkedLate'
  BY <1>10 DEF Pickup
<1>11. ASSUME NEW r \in Runs, Register(r) PROVE ClosedLate' /\ ParkedLate'
  BY <1>11 DEF Register
<1>12. ASSUME NEW r \in Runs, Refresh(r) PROVE ClosedLate' /\ ParkedLate'
  BY <1>12 DEF Refresh
<1>13. ASSUME NEW r \in Runs, Start(r) PROVE ClosedLate' /\ ParkedLate'
  <2>1. ClosedLate'
    BY <1>13 DEF Start
  <2>2. ParkedLate'
    BY <1>13 DEF Start
  <2> QED
    BY <2>1, <2>2
<1>14. ASSUME NEW r \in Runs, Ask(r) PROVE ClosedLate' /\ ParkedLate'
  BY <1>14 DEF Ask
<1>15. ASSUME NEW r \in Runs, Complete(r) PROVE ClosedLate' /\ ParkedLate'
  BY <1>15 DEF Complete
<1>16. ASSUME NEW r \in Runs, Unmark(r) PROVE ClosedLate' /\ ParkedLate'
  BY <1>16 DEF Unmark
<1>17. ASSUME NEW r \in Runs, Settle(r) PROVE ClosedLate' /\ ParkedLate'
  <2>1. /\ stage[r] \in {"settling", "listening"} /\ UNCHANGED outcome
        /\ \E s \in {"listening", "done", "failed"} : stage' = [stage EXCEPT ![r] = s]
        /\ stage'[r] = "done" => outcome[r] # "failed"
        /\ (Close(r) /\ spent' = spent) \/ (Spend("faults") /\ UNCHANGED <<closed, open>>)
    BY <1>17, SettleEffect
  <2>2. ParkedLate'
    BY <1>17, <2>1 DEF Settle, SettleHeld
  <2>3. CASE Spend("faults")
    BY <2>2, <2>3, FaultShows
  <2>4. CASE Close(r) /\ spent' = spent
    BY <2>1, <2>2, <2>4 DEF Close
  <2> QED
    BY <2>1, <2>3, <2>4
<1>18. ASSUME NEW r \in Runs, Listen(r) PROVE ClosedLate' /\ ParkedLate'
  <2>1. /\ stage[r] \in {"settling", "listening"} /\ UNCHANGED outcome
        /\ \E s \in {"listening", "done", "failed"} : stage' = [stage EXCEPT ![r] = s]
        /\ stage'[r] = "done" => outcome[r] # "failed"
        /\ (Close(r) /\ spent' = spent) \/ (Spend("faults") /\ UNCHANGED <<closed, open>>)
    BY <1>18, SettleEffect
  <2>2. ParkedLate'
    BY <1>18, <2>1 DEF Listen, SettleHeld
  <2>3. CASE Spend("faults")
    BY <2>2, <2>3, FaultShows
  <2>4. CASE Close(r) /\ spent' = spent
    BY <2>1, <2>2, <2>4 DEF Close
  <2> QED
    BY <2>1, <2>3, <2>4
<1>19. ASSUME NEW r \in Runs, Promote(r) PROVE ClosedLate' /\ ParkedLate'
  BY <1>19 DEF Promote
<1>20. ASSUME NEW r \in Runs, Mark(r) PROVE ClosedLate' /\ ParkedLate'
  BY <1>20 DEF Mark
<1>21. ASSUME NEW r \in Runs, Release(r) PROVE ClosedLate' /\ ParkedLate'
  BY <1>21 DEF Release
<1>22. ASSUME NEW r \in Runs, Take(r) PROVE ClosedLate' /\ ParkedLate'
  <2>1. CASE Took0(r)
    <3>1. spent'.faults # 0
      BY <2>1, FaultShows DEF Took0
    <3>2. ParkedLate'
      BY <1>22, TakeShape, TakeEffect
    <3> QED
      BY <3>1, <3>2
  <2>2. CASE Took1(r)
    <3>1. /\ closed' = [closed EXCEPT ![r] = TRUE] /\ open' = [open EXCEPT ![r] = "none"] /\ spent' = spent
      BY <2>2 DEF Took1, Close
    <3>2. \E s \in {"saying", "taking"} : stage' = [stage EXCEPT ![r] = s]
      BY <1>22, TakeShape
    <3>3. stage[r] = "released" /\ outcome' = outcome
      BY <1>22, TakeEffect
    <3> QED
      BY <3>1, <3>2, <3>3
  <2> QED
    BY <1>22, <2>1, <2>2, TakeEffect
<1>23. ASSUME NEW r \in Runs, StartAnswer(r) PROVE ClosedLate' /\ ParkedLate'
  <2>1. /\ stage[r] = "taking" /\ (Created(r) \/ Added(r)) /\ UNCHANGED <<closed, open, outcome>>
        /\ UNCHANGED spent \/ Spend("faults")
    BY <1>23, StartAnswerEffect
  <2>2. \A q \in Runs : \/ stage'[q] = stage[q]
                        \/ q = r /\ stage'[q] = "saying"
                        \/ stage[q] = "none" /\ stage'[q] = "queued"
    BY <2>1 DEF Created, Added
  <2> QED
    BY <2>1, <2>2
<1>24. ASSUME NEW r \in Runs, Say(r) PROVE ClosedLate' /\ ParkedLate'
  BY <1>24 DEF Say
<1>25. ASSUME NEW r \in Runs, Fail(r) PROVE ClosedLate' /\ ParkedLate'
  <2>1. ClosedLate'
    BY <1>25 DEF Fail
  <2>2. ParkedLate'
    BY <1>25 DEF Fail
  <2> QED
    BY <2>1, <2>2
<1>26. ASSUME NEW r \in Runs, ConsoleRetry(r) PROVE ClosedLate' /\ ParkedLate'
  BY <1>26 DEF ConsoleRetry
<1>27. ASSUME NEW r \in Runs, Crash(r) PROVE ClosedLate' /\ ParkedLate'
  BY <1>27 DEF Crash
<1>28. ASSUME NEW r \in Runs, OpenLapses(r) PROVE ClosedLate' /\ ParkedLate'
  BY <1>28 DEF OpenLapses
<1>29. CASE Lapse
  BY <1>29 DEF Lapse
<1>30. CASE UNCHANGED vars
  BY <1>1, <1>30 DEF vars
<1> QED
  BY <1>1, <1>2, <1>3, <1>4, <1>5, <1>6, <1>7, <1>8, <1>9, <1>10, <1>11, <1>12, <1>13, <1>14, <1>15,
     <1>16, <1>17, <1>18, <1>19, <1>20, <1>21, <1>22, <1>23, <1>24, <1>25, <1>26, <1>27, <1>28,
     <1>29, <1>30 DEF Next, Delivery, Work, Park, Disturb

\* The take that goes on has a first reply in hand.
LEMMA HandStep ==
  Based /\ [Next]_vars
  => HandHeld'
<1> SUFFICES ASSUME Based, [Next]_vars
             PROVE  HandHeld'
  OBVIOUS
<1> USE DEF Based, keys, forge, receiver, run, Step, Spend, Can
<1> USE DEF HandHeld, RunTypes
<1>1. ASSUME UNCHANGED <<stage, hand>> PROVE HandHeld'
  BY <1>1
<1>2. ASSUME NEW c \in Comments,
             Post(c) \/ Deliver(c) \/ Lookup(c) \/ HoldLive(c) \/ AskParked(c) \/
               HoldFor(c) \/ ReceiverRestart(c)
      PROVE  UNCHANGED <<stage, hand>>
  BY <1>2 DEF Post, Deliver, Lookup, HoldLive, AskParked, HoldFor, ReceiverRestart
<1>3. ASSUME NEW c \in Comments, Enqueue(c) PROVE HandHeld'
  BY <1>3 DEF Enqueue, Goto, At, Add, AddOutcome
<1>4. ASSUME NEW r \in Runs,
             Refresh(r) \/ Age(r) \/ OpenLapses(r)
      PROVE  UNCHANGED <<stage, hand>>
  BY <1>4 DEF Refresh, Age, OpenLapses
<1>5. ASSUME NEW r \in Runs, Pickup(r) PROVE HandHeld'
  BY <1>5 DEF Pickup
<1>6. ASSUME NEW r \in Runs, Register(r) PROVE HandHeld'
  BY <1>6 DEF Register
<1>7. ASSUME NEW r \in Runs, Start(r) PROVE HandHeld'
  BY <1>7 DEF Start
<1>8. ASSUME NEW r \in Runs, Ask(r) PROVE HandHeld'
  BY <1>8 DEF Ask
<1>9. ASSUME NEW r \in Runs, Complete(r) PROVE HandHeld'
  BY <1>9 DEF Complete
<1>10. ASSUME NEW r \in Runs, Unmark(r) PROVE HandHeld'
  BY <1>10 DEF Unmark
<1>11. ASSUME NEW r \in Runs, Settle(r) PROVE HandHeld'
  BY <1>11, SettleEffect DEF Close
<1>12. ASSUME NEW r \in Runs, Listen(r) PROVE HandHeld'
  BY <1>12, SettleEffect DEF Close
<1>13. ASSUME NEW r \in Runs, Promote(r) PROVE HandHeld'
  BY <1>13 DEF Promote
<1>14. ASSUME NEW r \in Runs, Mark(r) PROVE HandHeld'
  BY <1>14 DEF Mark
<1>15. ASSUME NEW r \in Runs, Release(r) PROVE HandHeld'
  BY <1>15 DEF Release
<1>16. ASSUME NEW r \in Runs, Take(r) PROVE HandHeld'
  <2>1. ASSUME stage' = [stage EXCEPT ![r] = "saying"], \A q \in Runs \ {r} : hand'[q] = hand[q] PROVE HandHeld'
    BY <2>1
  <2>2. ASSUME NEW f \in Comments, NEW rest \in SUBSET Comments, Dealt(r, f, rest) PROVE HandHeld'
    BY <2>2 DEF Dealt, Runs
  <2> QED
    BY <1>16, <2>1, <2>2, TakeEffect DEF Took1, Took0, Emptied
<1>17. ASSUME NEW r \in Runs, StartAnswer(r) PROVE HandHeld'
  <2>1. stage[r] = "taking" /\ (Created(r) \/ Added(r)) /\ hand' = [hand EXCEPT ![r] = EmptyHand]
    BY <1>17, StartAnswerEffect DEF Answer
  <2> QED
    BY <2>1 DEF Created, Added
<1>18. ASSUME NEW r \in Runs, Say(r) PROVE HandHeld'
  BY <1>18 DEF Say
<1>19. ASSUME NEW r \in Runs, Fail(r) PROVE HandHeld'
  BY <1>19 DEF Fail
<1>20. ASSUME NEW r \in Runs, ConsoleRetry(r) PROVE HandHeld'
  BY <1>20 DEF ConsoleRetry
<1>21. ASSUME NEW r \in Runs, Crash(r) PROVE HandHeld'
  BY <1>21 DEF Crash
<1>22. CASE Lapse \/ UNCHANGED vars
  BY <1>1, <1>22 DEF Lapse, vars
<1> QED
  BY <1>1, <1>2, <1>3, <1>4, <1>5, <1>6, <1>7, <1>8, <1>9, <1>10, <1>11, <1>12, <1>13, <1>14, <1>15,
     <1>16, <1>17, <1>18, <1>19, <1>20, <1>21, <1>22 DEF Next, Delivery, Work, Park, Disturb

\* Only the start of an answer logs one resumed, and it says so at once.
LEMMA ResumedStep ==
  Based /\ ResumedSaid /\ [Next]_vars
  => ResumedSaid'
<1> SUFFICES ASSUME Based, ResumedSaid, [Next]_vars
             PROVE  ResumedSaid'
  OBVIOUS
<1> USE DEF Based, keys, forge, receiver, run, Step, Spend, Can
<1> USE DEF ResumedSaid, SpentTypes, RunTypes
<1>1. ASSUME UNCHANGED <<stage, said, log, spent>> PROVE ResumedSaid'
  BY <1>1
<1>2. ASSUME NEW c \in Comments,
             Post(c) \/ Deliver(c)
      PROVE  UNCHANGED <<stage, said, log, spent>>
  BY <1>2 DEF Post, Deliver
<1>3. ASSUME NEW c \in Comments, Lookup(c) PROVE ResumedSaid'
  BY <1>3 DEF Lookup, Goto, At, Note, Spend, Can
<1>4. ASSUME NEW c \in Comments, HoldLive(c) PROVE ResumedSaid'
  BY <1>4, HoldEffect DEF Holding
<1>5. ASSUME NEW c \in Comments, AskParked(c) PROVE ResumedSaid'
  BY <1>5 DEF AskParked, Goto, At, Note, Spend, Can
<1>6. ASSUME NEW c \in Comments, Enqueue(c) PROVE ResumedSaid'
  BY <1>6 DEF Enqueue, Goto, At, Add, AddOutcome
<1>7. ASSUME NEW c \in Comments, HoldFor(c) PROVE ResumedSaid'
  BY <1>7, HoldEffect DEF Holding
<1>8. ASSUME NEW c \in Comments, ReceiverRestart(c) PROVE ResumedSaid'
  BY <1>8 DEF ReceiverRestart, Goto, Spend, Can
<1>9. ASSUME NEW r \in Runs,
             Refresh(r) \/ Age(r) \/ OpenLapses(r)
      PROVE  UNCHANGED <<stage, said, log, spent>>
  BY <1>9 DEF Refresh, Age, OpenLapses
<1>10. ASSUME NEW r \in Runs, Pickup(r) PROVE ResumedSaid'
  BY <1>10 DEF Pickup
<1>11. ASSUME NEW r \in Runs, Register(r) PROVE ResumedSaid'
  BY <1>11 DEF Register
<1>12. ASSUME NEW r \in Runs, Start(r) PROVE ResumedSaid'
  BY <1>12 DEF Start
<1>13. ASSUME NEW r \in Runs, Ask(r) PROVE ResumedSaid'
  BY <1>13 DEF Ask
<1>14. ASSUME NEW r \in Runs, Complete(r) PROVE ResumedSaid'
  BY <1>14 DEF Complete
<1>15. ASSUME NEW r \in Runs, Unmark(r) PROVE ResumedSaid'
  BY <1>15 DEF Unmark
<1>16. ASSUME NEW r \in Runs, Settle(r) PROVE ResumedSaid'
  BY <1>16, SettleEffect DEF Close
<1>17. ASSUME NEW r \in Runs, Listen(r) PROVE ResumedSaid'
  BY <1>17, SettleEffect DEF Close
<1>18. ASSUME NEW r \in Runs, Promote(r) PROVE ResumedSaid'
  BY <1>18 DEF Promote
<1>19. ASSUME NEW r \in Runs, Mark(r) PROVE ResumedSaid'
  BY <1>19 DEF Mark
<1>20. ASSUME NEW r \in Runs, Release(r) PROVE ResumedSaid'
  BY <1>20 DEF Release
<1>21. ASSUME NEW r \in Runs, Take(r) PROVE ResumedSaid'
  <2>1. /\ stage[r] = "released" /\ UNCHANGED said
        /\ \E s \in {"saying", "taking"} : stage' = [stage EXCEPT ![r] = s]
        /\ UNCHANGED spent \/ Spend("faults")
    BY <1>21, TakeShape, TakeEffect
  <2>2. \A q \in Runs, c \in Comments : <<q, c, "resumed">> \in log' => <<q, c, "resumed">> \in log
    <3>1. \/ log' = log \cup {<<r, c, "stale">> : c \in Ids(Entries(r)) \cap old[r]}
          \/ log' = log \cup {<<r, NoRun, "notStarted">>}
      BY <1>21, TakeEffect DEF Took1, Took0
    <3> QED
      BY <3>1
  <2> QED
    BY <2>1, <2>2
<1>22. ASSUME NEW r \in Runs, StartAnswer(r) PROVE ResumedSaid'
  <2>1. /\ stage[r] = "taking" /\ (Created(r) \/ Added(r)) /\ (UNCHANGED spent \/ Spend("faults"))
    BY <1>22, StartAnswerEffect
  <2>2. PICK x \in {"invites", "continues"} : Answer(r, x)
    BY <1>22, StartAnswerEffect
  <2>3. \A q \in Runs : \/ stage'[q] = stage[q]
                        \/ q = r /\ stage'[q] = "saying"
                        \/ stage[q] = "none" /\ stage'[q] = "queued"
    BY <2>1 DEF Created, Added
  <2>4. \A q \in Runs, c \in Comments : <<q, c, "resumed">> \in log' =>
          <<q, c, "resumed">> \in log \/ (q = r /\ x = "continues")
    BY <2>2 DEF Answer
  <2>5. said' = [said EXCEPT ![r] = x]
    BY <2>2 DEF Answer
  <2>6. spent'.retries = spent.retries
    BY <2>1
  <2> SUFFICES ASSUME spent.retries = 0, NEW q \in Runs, NEW c \in Comments, <<q, c, "resumed">> \in log'
               PROVE  /\ stage'[q] \in {"saying", "settling", "listening", "done", "failed"}
                      /\ said'[q] = "continues"
    BY <2>6
  <2>7. CASE <<q, c, "resumed">> \in log
    BY <2>1, <2>3, <2>5, <2>7
  <2>8. CASE q = r /\ x = "continues"
    <3>1. stage'[r] = "saying"
      BY <2>1 DEF Created, Added
    <3> QED
      BY <2>5, <2>8, <3>1
  <2> QED
    BY <2>4, <2>7, <2>8
<1>23. ASSUME NEW r \in Runs, Say(r) PROVE ResumedSaid'
  BY <1>23 DEF Say
<1>24. ASSUME NEW r \in Runs, Fail(r) PROVE ResumedSaid'
  BY <1>24 DEF Fail
<1>25. ASSUME NEW r \in Runs, ConsoleRetry(r) PROVE ResumedSaid'
  BY <1>25 DEF ConsoleRetry
<1>26. ASSUME NEW r \in Runs, Crash(r) PROVE ResumedSaid'
  BY <1>26 DEF Crash
<1>27. CASE Lapse
  BY <1>27 DEF Lapse
<1>28. CASE UNCHANGED vars
  BY <1>1, <1>28 DEF vars
<1> QED
  BY <1>1, <1>2, <1>3, <1>4, <1>5, <1>6, <1>7, <1>8, <1>9, <1>10, <1>11, <1>12, <1>13, <1>14, <1>15,
     <1>16, <1>17, <1>18, <1>19, <1>20, <1>21, <1>22, <1>23, <1>24, <1>25, <1>26, <1>27, <1>28 DEF
     Next, Delivery, Work, Park, Disturb

\* Jobs are not forgotten: what another run was said to continue stays created.
LEMMA ContinuedStep ==
  Based /\ Continued /\ [Next]_vars
  => Continued'
<1> SUFFICES ASSUME Based, Continued, [Next]_vars
             PROVE  Continued'
  OBVIOUS
<1> USE DEF Based, keys, forge, receiver, run, Step, Spend, Can
<1> USE DEF Continued, RunTypes, Runs
<1>1. ASSUME UNCHANGED <<said, stage>> PROVE Continued'
  BY <1>1
<1>2. ASSUME NEW c \in Comments,
             Post(c) \/ Deliver(c) \/ Lookup(c) \/ HoldLive(c) \/ AskParked(c) \/
               HoldFor(c) \/ ReceiverRestart(c)
      PROVE  UNCHANGED <<said, stage>>
  BY <1>2 DEF Post, Deliver, Lookup, HoldLive, AskParked, HoldFor, ReceiverRestart
<1>3. ASSUME NEW c \in Comments, Enqueue(c) PROVE Continued'
  BY <1>3 DEF Enqueue, Goto, At, Add, AddOutcome
<1>4. ASSUME NEW r \in Runs,
             Refresh(r) \/ Age(r) \/ OpenLapses(r)
      PROVE  UNCHANGED <<said, stage>>
  BY <1>4 DEF Refresh, Age, OpenLapses
<1>5. ASSUME NEW r \in Runs, Pickup(r) PROVE Continued'
  BY <1>5 DEF Pickup
<1>6. ASSUME NEW r \in Runs, Register(r) PROVE Continued'
  BY <1>6 DEF Register
<1>7. ASSUME NEW r \in Runs, Start(r) PROVE Continued'
  BY <1>7 DEF Start
<1>8. ASSUME NEW r \in Runs, Ask(r) PROVE Continued'
  BY <1>8 DEF Ask
<1>9. ASSUME NEW r \in Runs, Complete(r) PROVE Continued'
  BY <1>9 DEF Complete
<1>10. ASSUME NEW r \in Runs, Unmark(r) PROVE Continued'
  BY <1>10 DEF Unmark
<1>11. ASSUME NEW r \in Runs, Settle(r) PROVE Continued'
  BY <1>11, SettleEffect DEF Close
<1>12. ASSUME NEW r \in Runs, Listen(r) PROVE Continued'
  BY <1>12, SettleEffect DEF Close
<1>13. ASSUME NEW r \in Runs, Promote(r) PROVE Continued'
  BY <1>13 DEF Promote
<1>14. ASSUME NEW r \in Runs, Mark(r) PROVE Continued'
  BY <1>14 DEF Mark
<1>15. ASSUME NEW r \in Runs, Release(r) PROVE Continued'
  BY <1>15 DEF Release
<1>16. ASSUME NEW r \in Runs, Take(r) PROVE Continued'
  BY <1>16, TakeShape
<1>17. ASSUME NEW r \in Runs, StartAnswer(r) PROVE Continued'
  BY <1>17, StartAnswerEffect DEF Created, Added, Answer
<1>18. ASSUME NEW r \in Runs, Say(r) PROVE Continued'
  BY <1>18 DEF Say
<1>19. ASSUME NEW r \in Runs, Fail(r) PROVE Continued'
  BY <1>19 DEF Fail
<1>20. ASSUME NEW r \in Runs, ConsoleRetry(r) PROVE Continued'
  BY <1>20 DEF ConsoleRetry
<1>21. ASSUME NEW r \in Runs, Crash(r) PROVE Continued'
  BY <1>21 DEF Crash
<1>22. CASE Lapse \/ UNCHANGED vars
  BY <1>1, <1>22 DEF Lapse, vars
<1> QED
  BY <1>1, <1>2, <1>3, <1>4, <1>5, <1>6, <1>7, <1>8, <1>9, <1>10, <1>11, <1>12, <1>13, <1>14, <1>15,
     <1>16, <1>17, <1>18, <1>19, <1>20, <1>21, <1>22 DEF Next, Delivery, Work, Park, Disturb

\* What a step of a delivery makes of it.
LEMMA Written ==
  ASSUME NEW c \in Comments, ReceiverTypes, Swallowing, ListTypes, SpentTypes, Delivery(c) \/ ReceiverRestart(c)
  PROVE  \E v : v.pc # "unposted" /\ rcv' = [rcv EXCEPT ![c] = v]
<1>1. ASSUME NEW pc \in {"posted", "lookup", "askParked", "enqueue", "ended"}, Goto(c, pc)
      PROVE  \E v : v.pc # "unposted" /\ rcv' = [rcv EXCEPT ![c] = v]
  <2>1. Delivering(pc, {}, NoRun).pc # "unposted"
    BY DEF Delivering
  <2> QED
    BY <1>1, <2>1 DEF Goto
<1>2. CASE Post(c) \/ Deliver(c) \/ AskParked(c) \/ HoldFor(c) \/ ReceiverRestart(c)
  BY <1>1, <1>2 DEF Post, Deliver, AskParked, HoldFor, ReceiverRestart
<1>3. CASE Lookup(c)
  <2> DEFINE live == {r \in Runs : open[r] # "none"}
             v == Delivering(IF live = {} THEN "askParked" ELSE "hold", live, NoRun)
  <2>1. v.pc # "unposted"
    BY DEF Delivering
  <2>2. rcv' = [rcv EXCEPT ![c] = v] \/ Goto(c, "ended")
    BY <1>3 DEF Lookup
  <2> HIDE DEF v
  <2> QED
    BY <1>1, <2>1, <2>2
<1>4. CASE HoldLive(c)
  <2>1. PICK r \in Runs : Fanned(c, r)
    BY <1>4, HoldLiveEffect
  <2> QED
    BY <2>1 DEF Fanned
<1>5. CASE Enqueue(c)
  <2>1. Delivering("holdFor", {}, window).pc # "unposted"
    BY DEF Delivering
  <2>2. rcv' = [rcv EXCEPT ![c] = Delivering("holdFor", {}, window)] \/ Goto(c, "ended")
    BY <1>5 DEF Enqueue
  <2> QED
    BY <1>1, <2>1, <2>2
<1> QED
  BY <1>2, <1>3, <1>4, <1>5 DEF Delivery

\* Only a comment that was written is held, grows old or is dropped.
LEMMA UnwrittenStep ==
  Based /\ Unwritten /\ [Next]_vars
  => Unwritten'
<1> SUFFICES ASSUME Based, Unwritten, [Next]_vars
             PROVE  Unwritten'
  OBVIOUS
<1> USE DEF Based, keys, forge, receiver, run, Step, Spend, Can
<1> USE DEF Unwritten
<1>1. ASSUME UNCHANGED <<rcv, born, log, list, old>> PROVE Unwritten'
  BY <1>1 DEF Unposted
<1>2. ASSUME NEW c \in Comments, Post(c) PROVE Unwritten'
  <2>1. PICK v : v.pc # "unposted" /\ rcv' = [rcv EXCEPT ![c] = v]
    BY <1>2, Written DEF Delivery
  <2>2. \A x \in Comments : Unposted(x)' => x # c /\ Unposted(x)
    BY <2>1 DEF Unposted, ReceiverTypes
  <2> QED
    BY <1>2, <2>2 DEF Post
<1>3. ASSUME NEW c \in Comments, Deliver(c) PROVE Unwritten'
  <2>1. PICK v : v.pc # "unposted" /\ rcv' = [rcv EXCEPT ![c] = v]
    BY <1>3, Written DEF Delivery
  <2>2. \A x \in Comments : Unposted(x)' => x # c /\ Unposted(x)
    BY <2>1 DEF Unposted, ReceiverTypes
  <2> QED
    BY <1>3, <2>2 DEF Deliver
<1>4. ASSUME NEW c \in Comments, Lookup(c) PROVE Unwritten'
  <2>1. PICK v : v.pc # "unposted" /\ rcv' = [rcv EXCEPT ![c] = v]
    BY <1>4, Written DEF Delivery
  <2>2. \A x \in Comments : Unposted(x)' => x # c /\ Unposted(x)
    BY <2>1 DEF Unposted, ReceiverTypes
  <2>3. \A x \in Comments \ {c} : <<NoRun, x, "dropped">> \in log' => <<NoRun, x, "dropped">> \in log
    BY <1>4 DEF Lookup, Note
  <2> QED
    BY <1>4, <2>2, <2>3 DEF Lookup
<1>5. ASSUME NEW c \in Comments, HoldLive(c) PROVE Unwritten'
  <2>1. PICK v : v.pc # "unposted" /\ rcv' = [rcv EXCEPT ![c] = v]
    BY <1>5, Written DEF Delivery
  <2>2. \A x \in Comments : Unposted(x)' => x # c /\ Unposted(x)
    BY <2>1 DEF Unposted, ReceiverTypes
  <2>3. PICK r \in Runs : Holding(c, r)
    BY <1>5, HoldEffect
  <2>4. \A q \in Runs : Ids(list'[q]) \subseteq Ids(list[q]) \cup {c}
    BY <2>3 DEF Holding, Held
  <2>5. \A x \in Comments : <<NoRun, x, "dropped">> \in log' => <<NoRun, x, "dropped">> \in log
    BY <2>3 DEF Holding, Runs
  <2>6. UNCHANGED <<born, old>>
    BY <2>3 DEF Holding
  <2> QED
    BY <2>2, <2>4, <2>5, <2>6
<1>6. ASSUME NEW c \in Comments, AskParked(c) PROVE Unwritten'
  <2>1. PICK v : v.pc # "unposted" /\ rcv' = [rcv EXCEPT ![c] = v]
    BY <1>6, Written DEF Delivery
  <2>2. \A x \in Comments : Unposted(x)' => x # c /\ Unposted(x)
    BY <2>1 DEF Unposted, ReceiverTypes
  <2>3. \A x \in Comments \ {c} : <<NoRun, x, "dropped">> \in log' => <<NoRun, x, "dropped">> \in log
    BY <1>6 DEF AskParked, Note
  <2> QED
    BY <1>6, <2>2, <2>3 DEF AskParked
<1>7. ASSUME NEW c \in Comments, Enqueue(c) PROVE Unwritten'
  <2>1. PICK v : v.pc # "unposted" /\ rcv' = [rcv EXCEPT ![c] = v]
    BY <1>7, Written DEF Delivery
  <2>2. \A x \in Comments : Unposted(x)' => x # c /\ Unposted(x)
    BY <2>1 DEF Unposted, ReceiverTypes
  <2> QED
    BY <1>7, <2>2 DEF Enqueue
<1>8. ASSUME NEW c \in Comments, HoldFor(c) PROVE Unwritten'
  <2>1. PICK v : v.pc # "unposted" /\ rcv' = [rcv EXCEPT ![c] = v]
    BY <1>8, Written DEF Delivery
  <2>2. \A x \in Comments : Unposted(x)' => x # c /\ Unposted(x)
    BY <2>1 DEF Unposted, ReceiverTypes
  <2>3. PICK r \in Runs : Holding(c, r)
    BY <1>8, HoldEffect
  <2>4. \A q \in Runs : Ids(list'[q]) \subseteq Ids(list[q]) \cup {c}
    BY <2>3 DEF Holding, Held
  <2>5. \A x \in Comments : <<NoRun, x, "dropped">> \in log' => <<NoRun, x, "dropped">> \in log
    BY <2>3 DEF Holding, Runs
  <2>6. UNCHANGED <<born, old>>
    BY <2>3 DEF Holding
  <2> QED
    BY <2>2, <2>4, <2>5, <2>6
<1>9. ASSUME NEW c \in Comments, ReceiverRestart(c) PROVE Unwritten'
  <2>1. PICK v : v.pc # "unposted" /\ rcv' = [rcv EXCEPT ![c] = v]
    BY <1>9, Written DEF Delivery
  <2>2. \A x \in Comments : Unposted(x)' => x # c /\ Unposted(x)
    BY <2>1 DEF Unposted, ReceiverTypes
  <2> QED
    BY <1>9, <2>2 DEF ReceiverRestart
<1>10. ASSUME NEW r \in Runs,
             Register(r) \/ Refresh(r) \/ Start(r) \/ Ask(r) \/ Complete(r) \/
               Unmark(r) \/ Promote(r) \/ Mark(r) \/ Release(r) \/ Say(r) \/ Fail(r)
               \/ ConsoleRetry(r) \/ Crash(r) \/ OpenLapses(r)
      PROVE  UNCHANGED <<rcv, born, log, list, old>>
  BY <1>10 DEF Register, Refresh, Start, Ask, Complete, Unmark, Promote, Mark, Release, Say, Fail,
     ConsoleRetry, Crash, OpenLapses
<1>11. ASSUME NEW r \in Runs, Pickup(r) PROVE Unwritten'
  <2>1. \A q \in Runs : list'[q] = list[q] \/ list'[q] = <<>>
    BY <1>11 DEF Pickup, ListTypes
  <2>2. \A q \in Runs : Ids(list'[q]) \subseteq Ids(list[q]) /\ old'[q] \subseteq old[q]
    BY <1>11, <2>1 DEF Pickup, Ids, ListTypes
  <2>3. UNCHANGED <<rcv, born, log>>
    BY <1>11 DEF Pickup
  <2> QED
    BY <2>2, <2>3 DEF Unposted
<1>12. ASSUME NEW r \in Runs, Settle(r) PROVE Unwritten'
  <2>1. \A x \in Comments : <<NoRun, x, "dropped">> \in log' => <<NoRun, x, "dropped">> \in log
    BY <1>12, SettleEffect
  <2>2. UNCHANGED <<rcv, born, list, old>>
    BY <1>12, SettleEffect
  <2> QED
    BY <2>1, <2>2 DEF Unposted
<1>13. ASSUME NEW r \in Runs, Listen(r) PROVE Unwritten'
  <2>1. \A x \in Comments : <<NoRun, x, "dropped">> \in log' => <<NoRun, x, "dropped">> \in log
    BY <1>13, SettleEffect
  <2>2. UNCHANGED <<rcv, born, list, old>>
    BY <1>13, SettleEffect
  <2> QED
    BY <2>1, <2>2 DEF Unposted
<1>14. ASSUME NEW r \in Runs, Take(r) PROVE Unwritten'
  <2>1. \A x \in Comments : <<NoRun, x, "dropped">> \in log' => <<NoRun, x, "dropped">> \in log
    <3>1. \/ log' = log \cup {<<r, c, "stale">> : c \in Ids(Entries(r)) \cap old[r]}
          \/ log' = log \cup {<<r, NoRun, "notStarted">>}
      BY <1>14, TakeEffect DEF Took1, Took0
    <3> QED
      BY <3>1
  <2>2. UNCHANGED <<rcv, born, list, old>>
    BY <1>14, TakeShape
  <2> QED
    BY <2>1, <2>2 DEF Unposted
<1>15. ASSUME NEW r \in Runs, StartAnswer(r) PROVE Unwritten'
  <2>1. \A x \in Comments : <<NoRun, x, "dropped">> \in log' => <<NoRun, x, "dropped">> \in log
    <3>1. PICK x \in {"invites", "continues"} : Answer(r, x)
      BY <1>15, StartAnswerEffect
    <3> QED
      BY <3>1 DEF Answer, Runs
  <2>2. UNCHANGED <<rcv, born, list, old>>
    BY <1>15, StartAnswerEffect
  <2> QED
    BY <2>1, <2>2 DEF Unposted
<1>16. ASSUME NEW r \in Runs, Age(r) PROVE Unwritten'
  BY <1>16 DEF Age, Unposted, ListTypes
<1>17. CASE Lapse \/ UNCHANGED vars
  BY <1>1, <1>17 DEF Lapse, vars
<1> QED
  BY <1>1, <1>2, <1>3, <1>4, <1>5, <1>6, <1>7, <1>8, <1>9, <1>10, <1>11, <1>12, <1>13, <1>14, <1>15,
     <1>16, <1>17 DEF Next, Delivery, Work, Park, Disturb

\* Pickups only add up, and a comment answers those that stand.
LEMMA CountedStep ==
  Based /\ Counted /\ [Next]_vars
  => Counted'
<1> SUFFICES ASSUME Based, Counted, [Next]_vars
             PROVE  Counted'
  OBVIOUS
<1> USE DEF Based, keys, forge, receiver, run, Step, Spend, Can
<1> USE DEF Counted, RunTypes
<1>1. ASSUME UNCHANGED <<born, tries>> PROVE Counted'
  BY <1>1
<1>2. ASSUME NEW c \in Comments,
             Deliver(c) \/ Lookup(c) \/ HoldLive(c) \/ AskParked(c) \/ Enqueue(c) \/
               HoldFor(c) \/ ReceiverRestart(c)
      PROVE  UNCHANGED <<born, tries>>
  BY <1>2 DEF Deliver, Lookup, HoldLive, AskParked, Enqueue, HoldFor, ReceiverRestart
<1>3. ASSUME NEW c \in Comments, Post(c) PROVE Counted'
  <2> DEFINE asked == {<<r, tries[r]>> : r \in {q \in Runs : stage[q] \in Parking}}
  <2>1. \A r \in Runs, n \in Nat : <<r, n>> \in asked => n = tries[r]
    OBVIOUS
  <2>2. born' = [born EXCEPT ![c] = [label |-> label, asked |-> asked]] /\ UNCHANGED tries
    BY <1>3 DEF Post
  <2> HIDE DEF asked
  <2>3. \A d \in Comments : born'[d] = born[d] \/ born'[d].asked = asked
    BY <2>2 DEF BornTypes
  <2> QED
    BY <2>1, <2>2, <2>3
<1>4. ASSUME NEW r \in Runs,
             Register(r) \/ Refresh(r) \/ Start(r) \/ Ask(r) \/ Complete(r) \/
               Unmark(r) \/ Settle(r) \/ Listen(r) \/ Promote(r) \/ Mark(r) \/
               Release(r) \/ Take(r) \/ StartAnswer(r) \/ Say(r) \/ Fail(r) \/
               ConsoleRetry(r) \/ Crash(r) \/ Age(r) \/ OpenLapses(r)
      PROVE  UNCHANGED <<born, tries>>
  BY <1>4 DEF Register, Refresh, Start, Ask, Complete, Unmark, Settle, SettleHeld, Listen,
     SettleHeld, Promote, Mark, Release, Take, StartAnswer, Say, Fail, ConsoleRetry, Crash, Age,
     OpenLapses
<1>5. ASSUME NEW r \in Runs, Pickup(r) PROVE Counted'
  <2>1. tries' = [tries EXCEPT ![r] = @ + 1] /\ UNCHANGED born
    BY <1>5 DEF Pickup
  <2>2. \A q \in Runs : tries[q] <= tries'[q] /\ tries[q] \in Nat /\ tries'[q] \in Nat
    BY <2>1
  <2> QED
    BY <2>1, <2>2
<1>6. CASE Lapse \/ UNCHANGED vars
  BY <1>1, <1>6 DEF Lapse, vars
<1> QED
  BY <1>1, <1>2, <1>3, <1>4, <1>5, <1>6 DEF Next, Delivery, Work, Park, Disturb

\* A pickup begins with a number nobody has answered yet.
LEMMA UnaskedStep ==
  Based /\ Counted /\ Unasked /\ [Next]_vars
  => Unasked'
<1> SUFFICES ASSUME Based, Counted, Unasked, [Next]_vars
             PROVE  Unasked'
  OBVIOUS
<1> USE DEF Based, keys, forge, receiver, run, Step, Spend, Can
<1> USE DEF Unasked, Answers, RunTypes
<1>1. ASSUME UNCHANGED <<stage, tries, born>> PROVE Unasked'
  BY <1>1
<1>2. ASSUME NEW c \in Comments,
             Deliver(c) \/ Lookup(c) \/ HoldLive(c) \/ AskParked(c) \/ HoldFor(c) \/
               ReceiverRestart(c)
      PROVE  UNCHANGED <<stage, tries, born>>
  BY <1>2 DEF Deliver, Lookup, HoldLive, AskParked, HoldFor, ReceiverRestart
<1>3. ASSUME NEW c \in Comments, Post(c) PROVE Unasked'
  <2> DEFINE asked == {<<r, tries[r]>> : r \in {q \in Runs : stage[q] \in Parking}}
  <2>1. \A r \in Runs, n \in Nat : <<r, n>> \in asked => stage[r] \in Parking
    OBVIOUS
  <2>2. born' = [born EXCEPT ![c] = [label |-> label, asked |-> asked]] /\ UNCHANGED <<stage, tries>>
    BY <1>3 DEF Post
  <2> HIDE DEF asked
  <2>3. \A d \in Comments : born'[d] = born[d] \/ born'[d].asked = asked
    BY <2>2 DEF BornTypes
  <2>4. \A r \in Runs : stage[r] \in {"picked", "ready", "running"} => <<r, tries[r]>> \notin asked
    BY <2>1 DEF Parking
  <2> QED
    BY <2>2, <2>3, <2>4
<1>4. ASSUME NEW c \in Comments, Enqueue(c) PROVE Unasked'
  BY <1>4 DEF Enqueue, Goto, At, Add, AddOutcome
<1>5. ASSUME NEW r \in Runs,
             Refresh(r) \/ Age(r) \/ OpenLapses(r)
      PROVE  UNCHANGED <<stage, tries, born>>
  BY <1>5 DEF Refresh, Age, OpenLapses
<1>6. ASSUME NEW r \in Runs, Pickup(r) PROVE Unasked'
  <2>1. /\ tries' = [tries EXCEPT ![r] = @ + 1] /\ stage' = [stage EXCEPT ![r] = "picked"]
        /\ UNCHANGED born
    BY <1>6 DEF Pickup
  <2>2. \A c \in Comments : <<r, tries[r] + 1>> \notin born[c].asked
    BY DEF Counted
  <2> QED
    BY <2>1, <2>2
<1>7. ASSUME NEW r \in Runs, Register(r) PROVE Unasked'
  BY <1>7 DEF Register
<1>8. ASSUME NEW r \in Runs, Start(r) PROVE Unasked'
  BY <1>8 DEF Start
<1>9. ASSUME NEW r \in Runs, Ask(r) PROVE Unasked'
  BY <1>9 DEF Ask
<1>10. ASSUME NEW r \in Runs, Complete(r) PROVE Unasked'
  BY <1>10 DEF Complete
<1>11. ASSUME NEW r \in Runs, Unmark(r) PROVE Unasked'
  BY <1>11 DEF Unmark
<1>12. ASSUME NEW r \in Runs, Settle(r) PROVE Unasked'
  BY <1>12, SettleEffect DEF Close
<1>13. ASSUME NEW r \in Runs, Listen(r) PROVE Unasked'
  BY <1>13, SettleEffect DEF Close
<1>14. ASSUME NEW r \in Runs, Promote(r) PROVE Unasked'
  BY <1>14 DEF Promote
<1>15. ASSUME NEW r \in Runs, Mark(r) PROVE Unasked'
  BY <1>15 DEF Mark
<1>16. ASSUME NEW r \in Runs, Release(r) PROVE Unasked'
  BY <1>16 DEF Release
<1>17. ASSUME NEW r \in Runs, Take(r) PROVE Unasked'
  BY <1>17, TakeShape
<1>18. ASSUME NEW r \in Runs, StartAnswer(r) PROVE Unasked'
  BY <1>18, StartAnswerEffect DEF Created, Added, Answer
<1>19. ASSUME NEW r \in Runs, Say(r) PROVE Unasked'
  BY <1>19 DEF Say
<1>20. ASSUME NEW r \in Runs, Fail(r) PROVE Unasked'
  BY <1>20 DEF Fail
<1>21. ASSUME NEW r \in Runs, ConsoleRetry(r) PROVE Unasked'
  BY <1>21 DEF ConsoleRetry
<1>22. ASSUME NEW r \in Runs, Crash(r) PROVE Unasked'
  BY <1>22 DEF Crash
<1>23. CASE Lapse \/ UNCHANGED vars
  BY <1>1, <1>23 DEF Lapse, vars
<1> QED
  BY <1>1, <1>2, <1>3, <1>4, <1>5, <1>6, <1>7, <1>8, <1>9, <1>10, <1>11, <1>12, <1>13, <1>14, <1>15,
     <1>16, <1>17, <1>18, <1>19, <1>20, <1>21, <1>22, <1>23 DEF Next, Delivery, Work, Park, Disturb

\* After the question nothing held grows old any more.
LEMMA RecentStep ==
  Based /\ Unwritten /\ Unasked /\ Recent /\ [Next]_vars
  => Recent'
<1> SUFFICES ASSUME Based, Unwritten, Unasked, Recent, [Next]_vars
             PROVE  Recent'
  OBVIOUS
<1> USE DEF Based, keys, forge, receiver, run, Step, Spend, Can
<1> USE DEF Recent, Unheard, Answers, RunTypes
<1>1. ASSUME UNCHANGED <<stage, tries, born, old>> PROVE Recent'
  BY <1>1
<1>2. ASSUME NEW c \in Comments,
             Deliver(c) \/ Lookup(c) \/ HoldLive(c) \/ AskParked(c) \/ HoldFor(c) \/
               ReceiverRestart(c)
      PROVE  UNCHANGED <<stage, tries, born, old>>
  BY <1>2 DEF Deliver, Lookup, HoldLive, AskParked, HoldFor, ReceiverRestart
<1>3. ASSUME NEW c \in Comments, Post(c) PROVE Recent'
  <2> DEFINE asked == {<<r, tries[r]>> : r \in {q \in Runs : stage[q] \in Parking}}
  <2>1. \A r \in Runs : c \notin old[r]
    BY <1>3 DEF Post, At, Unwritten, Unposted
  <2>2. born' = [born EXCEPT ![c] = [label |-> label, asked |-> asked]] /\ UNCHANGED <<stage, tries, old>>
    BY <1>3 DEF Post
  <2> HIDE DEF asked
  <2>3. \A d \in Comments \ {c} : born'[d] = born[d]
    BY <2>2 DEF BornTypes
  <2> QED
    BY <2>1, <2>2, <2>3
<1>4. ASSUME NEW c \in Comments, Enqueue(c) PROVE Recent'
  BY <1>4 DEF Enqueue, Goto, At, Add, AddOutcome
<1>5. ASSUME NEW r \in Runs,
             Refresh(r) \/ OpenLapses(r)
      PROVE  UNCHANGED <<stage, tries, born, old>>
  BY <1>5 DEF Refresh, OpenLapses
<1>6. ASSUME NEW r \in Runs, Pickup(r) PROVE Recent'
  BY <1>6 DEF Pickup, ListTypes
<1>7. ASSUME NEW r \in Runs, Register(r) PROVE Recent'
  BY <1>7 DEF Register
<1>8. ASSUME NEW r \in Runs, Start(r) PROVE Recent'
  BY <1>8 DEF Start
<1>9. ASSUME NEW r \in Runs, Ask(r) PROVE Recent'
  BY <1>9 DEF Ask, Unasked
<1>10. ASSUME NEW r \in Runs, Complete(r) PROVE Recent'
  BY <1>10 DEF Complete
<1>11. ASSUME NEW r \in Runs, Unmark(r) PROVE Recent'
  BY <1>11 DEF Unmark
<1>12. ASSUME NEW r \in Runs, Settle(r) PROVE Recent'
  BY <1>12, SettleEffect DEF Close
<1>13. ASSUME NEW r \in Runs, Listen(r) PROVE Recent'
  BY <1>13, SettleEffect DEF Close
<1>14. ASSUME NEW r \in Runs, Promote(r) PROVE Recent'
  BY <1>14 DEF Promote
<1>15. ASSUME NEW r \in Runs, Mark(r) PROVE Recent'
  BY <1>15 DEF Mark
<1>16. ASSUME NEW r \in Runs, Release(r) PROVE Recent'
  BY <1>16 DEF Release
<1>17. ASSUME NEW r \in Runs, Take(r) PROVE Recent'
  BY <1>17, TakeShape
<1>18. ASSUME NEW r \in Runs, StartAnswer(r) PROVE Recent'
  BY <1>18, StartAnswerEffect DEF Created, Added, Answer
<1>19. ASSUME NEW r \in Runs, Say(r) PROVE Recent'
  BY <1>19 DEF Say
<1>20. ASSUME NEW r \in Runs, Fail(r) PROVE Recent'
  BY <1>20 DEF Fail
<1>21. ASSUME NEW r \in Runs, ConsoleRetry(r) PROVE Recent'
  BY <1>21 DEF ConsoleRetry
<1>22. ASSUME NEW r \in Runs, Crash(r) PROVE Recent'
  BY <1>22 DEF Crash
<1>23. ASSUME NEW r \in Runs, Age(r) PROVE Recent'
  BY <1>23 DEF Age, ListTypes
<1>24. CASE Lapse \/ UNCHANGED vars
  BY <1>1, <1>24 DEF Lapse, vars
<1> QED
  BY <1>1, <1>2, <1>3, <1>4, <1>5, <1>6, <1>7, <1>8, <1>9, <1>10, <1>11, <1>12, <1>13, <1>14, <1>15,
     <1>16, <1>17, <1>18, <1>19, <1>20, <1>21, <1>22, <1>23, <1>24 DEF Next, Delivery, Work, Park,
     Disturb

\* A list whose comments owe no more than they did keeps their ends.
LEMMA EndKept ==
  ASSUME NEW r \in Runs, ListEnds(r), log \subseteq log',
         closed'[r] => closed[r] /\ list'[r] = list[r],
         \A c \in Ids(list[r]) : Owed(c, r)' => Owed(c, r),
         stage[r] = "taking" => stage'[r] = "taking" /\ hand'[r] = hand[r]
  PROVE  ListEnds(r)'
<1> SUFFICES ASSUME closed'[r], NEW c \in Ids(list'[r])
             PROVE  HasEnd(c, r)' \/ (stage'[r] = "taking" /\ c \in InHand(r)')
  BY DEF ListEnds
<1>1. c \in Ids(list[r]) /\ (Owed(c, r)' => Owed(c, r))
  OBVIOUS
<1>2. HasEnd(c, r) \/ (stage[r] = "taking" /\ c \in InHand(r))
  BY <1>1 DEF ListEnds
<1>3. CASE stage[r] = "taking" /\ c \in InHand(r)
  BY <1>3 DEF InHand
<1>4. CASE HasEnd(c, r)
  <2>1. PICK e \in Seen \cup (IF Owed(c, r) THEN {} ELSE {"stale", "letGo"}) : <<r, c, e>> \in log
    BY <1>4 DEF HasEnd
  <2>2. e \in Seen \cup (IF Owed(c, r)' THEN {} ELSE {"stale", "letGo"}) /\ <<r, c, e>> \in log'
    BY <1>1, <2>1
  <2> QED
    BY <2>2 DEF HasEnd
<1> QED
  BY <1>2, <1>3, <1>4

\* The take gives every recent entry to the hand, the start tells every one in it, and a
\* settle lets go only what answers nothing.
LEMMA ListsStep ==
  Based /\ ClosedLate /\ ParkedLate /\ Unwritten /\ Unasked /\ Recent /\ ListsEnd /\ [Next]_vars
  => ListsEnd'
<1> SUFFICES ASSUME Based, ClosedLate, ParkedLate, Unwritten, Unasked, Recent, ListsEnd, [Next]_vars
             PROVE  ListsEnd'
  OBVIOUS
<1> USE DEF Based, keys, forge, receiver, run, Step, Spend, Can
<1> USE DEF RunTypes
<1>1. ASSUME UNCHANGED <<stage, tries, outcome, hand, closed, list, log, born, spent>> PROVE ListsEnd'
  <2> SUFFICES ASSUME spent'.faults = 0, spent'.crashes = 0, NEW q \in Runs PROVE ListEnds(q)'
    BY DEF ListsEnd
  <2>1. ListEnds(q) /\ log \subseteq log'
    BY <1>1 DEF ListsEnd
  <2>2. closed'[q] => closed[q] /\ list'[q] = list[q]
    BY <1>1
  <2>3. \A d \in Ids(list[q]) : Owed(d, q)' => Owed(d, q)
    BY <1>1 DEF Owed, Answers
  <2>4. stage[q] = "taking" => stage'[q] = "taking" /\ hand'[q] = hand[q]
    BY <1>1
  <2> QED
    BY <2>1, <2>2, <2>3, <2>4, EndKept
<1>2. ASSUME NEW c \in Comments,
             Deliver(c)
      PROVE  UNCHANGED <<stage, tries, outcome, hand, closed, list, log, born, spent>>
  BY <1>2 DEF Deliver
<1>3. ASSUME NEW c \in Comments, Post(c) PROVE ListsEnd'
  <2> SUFFICES ASSUME spent'.faults = 0, spent'.crashes = 0, NEW q \in Runs PROVE ListEnds(q)'
    BY DEF ListsEnd
  <2>1. ListEnds(q) /\ log \subseteq log' /\ closed' = closed /\ list' = list /\ stage' = stage /\ hand' = hand
    BY <1>3 DEF Post, ListsEnd
  <2>2. c \notin Ids(list[q])
    BY <1>3 DEF Post, At, Unwritten, Unposted
  <2>3. \A d \in Comments \ {c} : born'[d] = born[d]
    BY <1>3 DEF Post, BornTypes
  <2>4. Ids(list[q]) \subseteq Comments /\ UNCHANGED <<tries, outcome>>
    BY <1>3 DEF Post, Ids, ListTypes
  <2>5. \A d \in Ids(list[q]) : Owed(d, q)' => Owed(d, q)
    BY <2>1, <2>2, <2>3, <2>4 DEF Owed, Answers
  <2> QED
    BY <2>1, <2>5, EndKept
<1>4. ASSUME NEW c \in Comments, Lookup(c) PROVE ListsEnd'
  <2> SUFFICES ASSUME spent'.faults = 0, spent'.crashes = 0, NEW q \in Runs PROVE ListEnds(q)'
    BY DEF ListsEnd
  <2>1. ListEnds(q) /\ log \subseteq log'
    BY <1>4 DEF Lookup, Goto, At, Note, Spend, Can, ListsEnd, SpentTypes
  <2>2. closed'[q] => closed[q] /\ list'[q] = list[q]
    BY <1>4 DEF Lookup, Goto, At, Note, Spend, Can
  <2>3. \A d \in Ids(list[q]) : Owed(d, q)' => Owed(d, q)
    BY <1>4 DEF Lookup, Goto, At, Note, Spend, Can, Owed, Answers
  <2>4. stage[q] = "taking" => stage'[q] = "taking" /\ hand'[q] = hand[q]
    BY <1>4 DEF Lookup, Goto, At, Note, Spend, Can
  <2> QED
    BY <2>1, <2>2, <2>3, <2>4, EndKept
<1>5. ASSUME NEW c \in Comments, HoldLive(c) PROVE ListsEnd'
  <2> SUFFICES ASSUME spent'.faults = 0, spent'.crashes = 0, NEW q \in Runs PROVE ListEnds(q)'
    BY DEF ListsEnd
  <2>0. PICK r \in Runs : Holding(c, r)
    BY <1>5, HoldEffect
  <2>1. ListEnds(q) /\ log \subseteq log'
    BY <2>0 DEF Holding, Held, ListsEnd, SpentTypes
  <2>2. closed'[q] => closed[q] /\ list'[q] = list[q]
    BY <2>0 DEF Holding, Held
  <2>3. \A d \in Ids(list[q]) : Owed(d, q)' => Owed(d, q)
    BY <2>0 DEF Holding, Held, Owed, Answers
  <2>4. stage[q] = "taking" => stage'[q] = "taking" /\ hand'[q] = hand[q]
    BY <2>0 DEF Holding, Held
  <2> QED
    BY <2>1, <2>2, <2>3, <2>4, EndKept
<1>6. ASSUME NEW c \in Comments, AskParked(c) PROVE ListsEnd'
  <2> SUFFICES ASSUME spent'.faults = 0, spent'.crashes = 0, NEW q \in Runs PROVE ListEnds(q)'
    BY DEF ListsEnd
  <2>1. ListEnds(q) /\ log \subseteq log'
    BY <1>6 DEF AskParked, Goto, At, Note, Spend, Can, ListsEnd, SpentTypes
  <2>2. closed'[q] => closed[q] /\ list'[q] = list[q]
    BY <1>6 DEF AskParked, Goto, At, Note, Spend, Can
  <2>3. \A d \in Ids(list[q]) : Owed(d, q)' => Owed(d, q)
    BY <1>6 DEF AskParked, Goto, At, Note, Spend, Can, Owed, Answers
  <2>4. stage[q] = "taking" => stage'[q] = "taking" /\ hand'[q] = hand[q]
    BY <1>6 DEF AskParked, Goto, At, Note, Spend, Can
  <2> QED
    BY <2>1, <2>2, <2>3, <2>4, EndKept
<1>7. ASSUME NEW c \in Comments, Enqueue(c) PROVE ListsEnd'
  <2> SUFFICES ASSUME spent'.faults = 0, spent'.crashes = 0, NEW q \in Runs PROVE ListEnds(q)'
    BY DEF ListsEnd
  <2>1. ListEnds(q) /\ log \subseteq log'
    BY <1>7 DEF Enqueue, Goto, At, Add, AddOutcome, ListsEnd, SpentTypes
  <2>2. closed'[q] => closed[q] /\ list'[q] = list[q]
    BY <1>7 DEF Enqueue, Goto, At, Add, AddOutcome
  <2>3. \A d \in Ids(list[q]) : Owed(d, q)' => Owed(d, q)
    BY <1>7 DEF Enqueue, Goto, At, Add, AddOutcome, Owed, Answers
  <2>4. stage[q] = "taking" => stage'[q] = "taking" /\ hand'[q] = hand[q]
    BY <1>7 DEF Enqueue, Goto, At, Add, AddOutcome
  <2> QED
    BY <2>1, <2>2, <2>3, <2>4, EndKept
<1>8. ASSUME NEW c \in Comments, HoldFor(c) PROVE ListsEnd'
  <2> SUFFICES ASSUME spent'.faults = 0, spent'.crashes = 0, NEW q \in Runs PROVE ListEnds(q)'
    BY DEF ListsEnd
  <2>0. PICK r \in Runs : Holding(c, r)
    BY <1>8, HoldEffect
  <2>1. ListEnds(q) /\ log \subseteq log'
    BY <2>0 DEF Holding, Held, ListsEnd, SpentTypes
  <2>2. closed'[q] => closed[q] /\ list'[q] = list[q]
    BY <2>0 DEF Holding, Held
  <2>3. \A d \in Ids(list[q]) : Owed(d, q)' => Owed(d, q)
    BY <2>0 DEF Holding, Held, Owed, Answers
  <2>4. stage[q] = "taking" => stage'[q] = "taking" /\ hand'[q] = hand[q]
    BY <2>0 DEF Holding, Held
  <2> QED
    BY <2>1, <2>2, <2>3, <2>4, EndKept
<1>9. ASSUME NEW c \in Comments, ReceiverRestart(c) PROVE ListsEnd'
  <2> SUFFICES ASSUME spent'.faults = 0, spent'.crashes = 0, NEW q \in Runs PROVE ListEnds(q)'
    BY DEF ListsEnd
  <2>1. ListEnds(q) /\ log \subseteq log'
    BY <1>9 DEF ReceiverRestart, Goto, Spend, Can, ListsEnd, SpentTypes
  <2>2. closed'[q] => closed[q] /\ list'[q] = list[q]
    BY <1>9 DEF ReceiverRestart, Goto, Spend, Can
  <2>3. \A d \in Ids(list[q]) : Owed(d, q)' => Owed(d, q)
    BY <1>9 DEF ReceiverRestart, Goto, Spend, Can, Owed, Answers
  <2>4. stage[q] = "taking" => stage'[q] = "taking" /\ hand'[q] = hand[q]
    BY <1>9 DEF ReceiverRestart, Goto, Spend, Can
  <2> QED
    BY <2>1, <2>2, <2>3, <2>4, EndKept
<1>10. ASSUME NEW r \in Runs,
             Refresh(r) \/ Age(r) \/ OpenLapses(r)
      PROVE  UNCHANGED <<stage, tries, outcome, hand, closed, list, log, born, spent>>
  BY <1>10 DEF Refresh, Age, OpenLapses
<1>11. ASSUME NEW r \in Runs, Pickup(r) PROVE ListsEnd'
  <2> SUFFICES ASSUME spent'.faults = 0, spent'.crashes = 0, NEW q \in Runs PROVE ListEnds(q)'
    BY DEF ListsEnd
  <2>1. ListEnds(q) /\ log \subseteq log'
    BY <1>11 DEF Pickup, ListsEnd, SpentTypes
  <2>2. closed'[q] => closed[q] /\ list'[q] = list[q]
    BY <1>11 DEF Pickup, ListTypes, FlagTypes
  <2>3. \A d \in Ids(list[q]) : Owed(d, q)' => Owed(d, q)
    BY <1>11 DEF Pickup, Owed, Answers
  <2>4. stage[q] = "taking" => stage'[q] = "taking" /\ hand'[q] = hand[q]
    BY <1>11 DEF Pickup
  <2> QED
    BY <2>1, <2>2, <2>3, <2>4, EndKept
<1>12. ASSUME NEW r \in Runs, Register(r) PROVE ListsEnd'
  <2> SUFFICES ASSUME spent'.faults = 0, spent'.crashes = 0, NEW q \in Runs PROVE ListEnds(q)'
    BY DEF ListsEnd
  <2>1. ListEnds(q) /\ log \subseteq log'
    BY <1>12 DEF Register, ListsEnd, SpentTypes
  <2>2. closed'[q] => closed[q] /\ list'[q] = list[q]
    BY <1>12 DEF Register
  <2>3. \A d \in Ids(list[q]) : Owed(d, q)' => Owed(d, q)
    BY <1>12 DEF Register, Owed, Answers
  <2>4. stage[q] = "taking" => stage'[q] = "taking" /\ hand'[q] = hand[q]
    BY <1>12 DEF Register
  <2> QED
    BY <2>1, <2>2, <2>3, <2>4, EndKept
<1>13. ASSUME NEW r \in Runs, Start(r) PROVE ListsEnd'
  <2> SUFFICES ASSUME spent'.faults = 0, spent'.crashes = 0, NEW q \in Runs PROVE ListEnds(q)'
    BY DEF ListsEnd
  <2>1. ListEnds(q) /\ log \subseteq log'
    BY <1>13 DEF Start, ListsEnd, SpentTypes
  <2>2. closed'[q] => closed[q] /\ list'[q] = list[q]
    BY <1>13 DEF Start
  <2>3. \A d \in Ids(list[q]) : Owed(d, q)' => Owed(d, q)
    BY <1>13 DEF Start, Owed, Answers
  <2>4. stage[q] = "taking" => stage'[q] = "taking" /\ hand'[q] = hand[q]
    BY <1>13 DEF Start
  <2> QED
    BY <2>1, <2>2, <2>3, <2>4, EndKept
<1>14. ASSUME NEW r \in Runs, Ask(r) PROVE ListsEnd'
  <2> SUFFICES ASSUME spent'.faults = 0, spent'.crashes = 0, NEW q \in Runs PROVE ListEnds(q)'
    BY DEF ListsEnd
  <2>1. ListEnds(q) /\ log \subseteq log'
    BY <1>14 DEF Ask, ListsEnd, SpentTypes
  <2>2. closed'[q] => closed[q] /\ list'[q] = list[q]
    BY <1>14 DEF Ask
  <2>3. \A d \in Ids(list[q]) : Owed(d, q)' => Owed(d, q)
    BY <1>14 DEF Ask, Owed, Answers
  <2>4. stage[q] = "taking" => stage'[q] = "taking" /\ hand'[q] = hand[q]
    BY <1>14 DEF Ask
  <2> QED
    BY <2>1, <2>2, <2>3, <2>4, EndKept
<1>15. ASSUME NEW r \in Runs, Complete(r) PROVE ListsEnd'
  <2> SUFFICES ASSUME spent'.faults = 0, spent'.crashes = 0, NEW q \in Runs PROVE ListEnds(q)'
    BY DEF ListsEnd
  <2>1. ListEnds(q) /\ log \subseteq log'
    BY <1>15 DEF Complete, ListsEnd, SpentTypes
  <2>2. closed'[q] => closed[q] /\ list'[q] = list[q]
    BY <1>15 DEF Complete
  <2>3. \A d \in Ids(list[q]) : Owed(d, q)' => Owed(d, q)
    BY <1>15 DEF Complete, Owed, Answers
  <2>4. stage[q] = "taking" => stage'[q] = "taking" /\ hand'[q] = hand[q]
    BY <1>15 DEF Complete
  <2> QED
    BY <2>1, <2>2, <2>3, <2>4, EndKept
<1>16. ASSUME NEW r \in Runs, Unmark(r) PROVE ListsEnd'
  <2> SUFFICES ASSUME spent'.faults = 0, spent'.crashes = 0, NEW q \in Runs PROVE ListEnds(q)'
    BY DEF ListsEnd
  <2>1. ListEnds(q) /\ log \subseteq log'
    BY <1>16 DEF Unmark, ListsEnd, SpentTypes
  <2>2. closed'[q] => closed[q] /\ list'[q] = list[q]
    BY <1>16 DEF Unmark
  <2>3. \A d \in Ids(list[q]) : Owed(d, q)' => Owed(d, q)
    BY <1>16 DEF Unmark, Owed, Answers
  <2>4. stage[q] = "taking" => stage'[q] = "taking" /\ hand'[q] = hand[q]
    BY <1>16 DEF Unmark
  <2> QED
    BY <2>1, <2>2, <2>3, <2>4, EndKept
<1>17. ASSUME NEW r \in Runs, Settle(r) PROVE ListsEnd'
  <2> SUFFICES ASSUME spent'.faults = 0, spent'.crashes = 0, NEW q \in Runs PROVE ListEnds(q)'
    BY DEF ListsEnd
  <2>1. /\ stage[r] \in {"settling", "listening"}
        /\ \E s \in {"listening", "done", "failed"} : stage' = [stage EXCEPT ![r] = s]
        /\ UNCHANGED <<list, tries, outcome, hand, born>>
    BY <1>17, SettleEffect
  <2>2. Close(r) /\ spent' = spent /\ log' = log \cup {<<r, c, "letGo">> : c \in Ids(Entries(r))}
    BY <1>17, SettleEffect, FaultShows
  <2>3. ListEnds(q) /\ log \subseteq log' /\ spent.faults = 0
    BY <2>2 DEF ListsEnd
  <2>4. \A c : Owed(c, q)' => Owed(c, q)
    BY <2>1 DEF Owed, Answers
  <2>5. stage[q] = "taking" => stage'[q] = "taking" /\ hand'[q] = hand[q]
    BY <2>1
  <2>6. CASE q # r \/ closed[r]
    <3>1. closed'[q] => closed[q] /\ list'[q] = list[q]
      BY <2>1, <2>2, <2>6 DEF Close, FlagTypes
    <3> QED
      BY <2>3, <2>4, <2>5, <3>1, EndKept
  <2>7. CASE q = r /\ ~closed[r]
    <3>1. outcome[r] # "parked" /\ outcome'[r] # "parked"
      BY <2>1, <2>3, <2>7 DEF ClosedLate
    <3>2. stage'[r] \notin {"taking", "saying"}
      BY <2>1
    <3>3. \A c : ~Owed(c, r)'
      BY <3>1, <3>2 DEF Owed
    <3>4. \A c \in Ids(list'[r]) : <<r, c, "letGo">> \in log'
      BY <2>1, <2>2, <2>7 DEF Entries
    <3>5. \A c \in Ids(list'[r]) : HasEnd(c, r)'
      BY <3>3, <3>4 DEF HasEnd
    <3> QED
      BY <2>7, <3>5 DEF ListEnds
  <2> QED
    BY <2>6, <2>7
<1>18. ASSUME NEW r \in Runs, Listen(r) PROVE ListsEnd'
  <2> SUFFICES ASSUME spent'.faults = 0, spent'.crashes = 0, NEW q \in Runs PROVE ListEnds(q)'
    BY DEF ListsEnd
  <2>1. /\ stage[r] \in {"settling", "listening"}
        /\ \E s \in {"listening", "done", "failed"} : stage' = [stage EXCEPT ![r] = s]
        /\ UNCHANGED <<list, tries, outcome, hand, born>>
    BY <1>18, SettleEffect
  <2>2. Close(r) /\ spent' = spent /\ log' = log \cup {<<r, c, "letGo">> : c \in Ids(Entries(r))}
    BY <1>18, SettleEffect, FaultShows
  <2>3. ListEnds(q) /\ log \subseteq log' /\ spent.faults = 0
    BY <2>2 DEF ListsEnd
  <2>4. \A c : Owed(c, q)' => Owed(c, q)
    BY <2>1 DEF Owed, Answers
  <2>5. stage[q] = "taking" => stage'[q] = "taking" /\ hand'[q] = hand[q]
    BY <2>1
  <2>6. CASE q # r \/ closed[r]
    <3>1. closed'[q] => closed[q] /\ list'[q] = list[q]
      BY <2>1, <2>2, <2>6 DEF Close, FlagTypes
    <3> QED
      BY <2>3, <2>4, <2>5, <3>1, EndKept
  <2>7. CASE q = r /\ ~closed[r]
    <3>1. outcome[r] # "parked" /\ outcome'[r] # "parked"
      BY <2>1, <2>3, <2>7 DEF ClosedLate
    <3>2. stage'[r] \notin {"taking", "saying"}
      BY <2>1
    <3>3. \A c : ~Owed(c, r)'
      BY <3>1, <3>2 DEF Owed
    <3>4. \A c \in Ids(list'[r]) : <<r, c, "letGo">> \in log'
      BY <2>1, <2>2, <2>7 DEF Entries
    <3>5. \A c \in Ids(list'[r]) : HasEnd(c, r)'
      BY <3>3, <3>4 DEF HasEnd
    <3> QED
      BY <2>7, <3>5 DEF ListEnds
  <2> QED
    BY <2>6, <2>7
<1>19. ASSUME NEW r \in Runs, Promote(r) PROVE ListsEnd'
  <2> SUFFICES ASSUME spent'.faults = 0, spent'.crashes = 0, NEW q \in Runs PROVE ListEnds(q)'
    BY DEF ListsEnd
  <2>1. ListEnds(q) /\ log \subseteq log'
    BY <1>19 DEF Promote, ListsEnd, SpentTypes
  <2>2. closed'[q] => closed[q] /\ list'[q] = list[q]
    BY <1>19 DEF Promote
  <2>3. \A d \in Ids(list[q]) : Owed(d, q)' => Owed(d, q)
    BY <1>19 DEF Promote, Owed, Answers
  <2>4. stage[q] = "taking" => stage'[q] = "taking" /\ hand'[q] = hand[q]
    BY <1>19 DEF Promote
  <2> QED
    BY <2>1, <2>2, <2>3, <2>4, EndKept
<1>20. ASSUME NEW r \in Runs, Mark(r) PROVE ListsEnd'
  <2> SUFFICES ASSUME spent'.faults = 0, spent'.crashes = 0, NEW q \in Runs PROVE ListEnds(q)'
    BY DEF ListsEnd
  <2>1. ListEnds(q) /\ log \subseteq log'
    BY <1>20 DEF Mark, ListsEnd, SpentTypes
  <2>2. closed'[q] => closed[q] /\ list'[q] = list[q]
    BY <1>20 DEF Mark
  <2>3. \A d \in Ids(list[q]) : Owed(d, q)' => Owed(d, q)
    BY <1>20 DEF Mark, Owed, Answers
  <2>4. stage[q] = "taking" => stage'[q] = "taking" /\ hand'[q] = hand[q]
    BY <1>20 DEF Mark
  <2> QED
    BY <2>1, <2>2, <2>3, <2>4, EndKept
<1>21. ASSUME NEW r \in Runs, Release(r) PROVE ListsEnd'
  <2> SUFFICES ASSUME spent'.faults = 0, spent'.crashes = 0, NEW q \in Runs PROVE ListEnds(q)'
    BY DEF ListsEnd
  <2>1. ListEnds(q) /\ log \subseteq log'
    BY <1>21 DEF Release, ListsEnd, SpentTypes
  <2>2. closed'[q] => closed[q] /\ list'[q] = list[q]
    BY <1>21 DEF Release
  <2>3. \A d \in Ids(list[q]) : Owed(d, q)' => Owed(d, q)
    BY <1>21 DEF Release, Owed, Answers
  <2>4. stage[q] = "taking" => stage'[q] = "taking" /\ hand'[q] = hand[q]
    BY <1>21 DEF Release
  <2> QED
    BY <2>1, <2>2, <2>3, <2>4, EndKept
<1>22. ASSUME NEW r \in Runs, Take(r) PROVE ListsEnd'
  <2> SUFFICES ASSUME spent'.faults = 0, spent'.crashes = 0, NEW q \in Runs PROVE ListEnds(q)'
    BY DEF ListsEnd
  <2>1. Took1(r)
    BY <1>22, TakeEffect, FaultShows DEF Took0
  <2>2. stage[r] = "released" /\ UNCHANGED <<list, tries, outcome, born>>
    BY <1>22, TakeEffect
  <2>3. spent' = spent /\ log \subseteq log' /\ closed' = [closed EXCEPT ![r] = TRUE]
    BY <2>1 DEF Took1, Close
  <2>4. ListEnds(q) /\ ~closed[r]
    BY <2>2, <2>3 DEF ListsEnd, ClosedLate
  <2>5. \E s \in {"saying", "taking"} : stage' = [stage EXCEPT ![r] = s]
    BY <1>22, TakeShape
  <2>6. CASE q # r
    <3>1. closed'[q] => closed[q] /\ list'[q] = list[q]
      BY <2>2, <2>3, <2>6 DEF FlagTypes
    <3>2. stage'[q] = stage[q]
      BY <2>5, <2>6
    <3>3. hand'[q] = hand[q]
      BY <2>1, <2>6 DEF Took1, Emptied, Dealt, RunTypes
    <3>4. \A c : Owed(c, q)' => Owed(c, q)
      BY <2>2, <3>2 DEF Owed, Answers
    <3> QED
      BY <2>3, <2>4, <3>1, <3>2, <3>3, <3>4, EndKept
  <2>7. CASE q = r
    <3> SUFFICES ASSUME NEW c \in Ids(list[r])
                 PROVE  HasEnd(c, r)' \/ (stage'[r] = "taking" /\ c \in InHand(r)')
      BY <2>2, <2>7 DEF ListEnds
    <3>1. c \in Ids(Entries(r)) /\ c \in Comments
      BY <2>4 DEF Entries, ListTypes, Ids
    <3>2. CASE c \in old[r]
      <4>1. ~Owed(c, r)'
        BY <2>2, <3>1, <3>2 DEF Owed, Answers, Recent, Unheard
      <4>2. <<r, c, "stale">> \in log'
        BY <2>1, <3>1, <3>2 DEF Took1
      <4> QED
        BY <4>1, <4>2 DEF HasEnd
    <3>3. CASE c \notin old[r]
      <4>1. PICK f \in Comments, rest \in SUBSET Comments : Dealt(r, f, rest)
        BY <2>1, <3>1, <3>3 DEF Took1, Emptied
      <4>2. stage'[r] = "taking" /\ hand'[r] = [first |-> f, rest |-> rest] /\ (c = f \/ c \in rest)
        BY <3>1, <3>3, <4>1 DEF Dealt, RunTypes
      <4>3. c # NoRun
        BY <3>1 DEF Runs
      <4> QED
        BY <4>2, <4>3 DEF InHand
    <3> QED
      BY <3>2, <3>3
  <2> QED
    BY <2>6, <2>7
<1>23. ASSUME NEW r \in Runs, StartAnswer(r) PROVE ListsEnd'
  <2> SUFFICES ASSUME spent'.faults = 0, spent'.crashes = 0, NEW q \in Runs PROVE ListEnds(q)'
    BY DEF ListsEnd
  <2>1. /\ stage[r] = "taking" /\ (Created(r) \/ Added(r))
        /\ UNCHANGED <<list, closed, tries, outcome, born>>
        /\ UNCHANGED spent
    BY <1>23, StartAnswerEffect, FaultShows
  <2>2. \E x : Answer(r, x)
    BY <1>23, StartAnswerEffect
  <2>3. /\ log \subseteq log' /\ hand' = [hand EXCEPT ![r] = EmptyHand]
        /\ \A c \in InHand(r) : \E e \in Seen : <<r, c, e>> \in log'
    BY <2>2 DEF Answer
  <2>4. ListEnds(q)
    BY <2>1 DEF ListsEnd
  <2>5. \/ stage'[q] = stage[q]
        \/ q = r /\ stage'[q] = "saying"
        \/ q # r /\ stage[q] = "none" /\ stage'[q] = "queued"
    BY <2>1 DEF Created, Added
  <2>6. stage'[r] = "saying"
    BY <2>1 DEF Created, Added
  <2>7. \A c : Owed(c, q)' => Owed(c, q)
    BY <2>1, <2>5 DEF Owed, Answers
  <2>8. CASE q # r
    <3>1. stage[q] = "taking" => stage'[q] = "taking" /\ hand'[q] = hand[q]
      BY <2>3, <2>5, <2>8
    <3> QED
      BY <2>1, <2>3, <2>4, <2>7, <3>1, EndKept
  <2>9. CASE q = r
    <3> SUFFICES ASSUME closed[r], NEW c \in Ids(list[r]) PROVE HasEnd(c, r)'
      BY <2>1, <2>9 DEF ListEnds
    <3>1. CASE c \in InHand(r)
      BY <2>3, <3>1 DEF HasEnd
    <3>2. CASE HasEnd(c, r)
      <4>1. PICK e \in Seen \cup (IF Owed(c, r) THEN {} ELSE {"stale", "letGo"}) : <<r, c, e>> \in log
        BY <3>2 DEF HasEnd
      <4>2. e \in Seen \cup (IF Owed(c, r)' THEN {} ELSE {"stale", "letGo"}) /\ <<r, c, e>> \in log'
        BY <2>3, <2>7, <2>9, <4>1
      <4> QED
        BY <4>2 DEF HasEnd
    <3> QED
      BY <2>4, <2>9, <3>1, <3>2 DEF ListEnds
  <2> QED
    BY <2>8, <2>9
<1>24. ASSUME NEW r \in Runs, Say(r) PROVE ListsEnd'
  <2> SUFFICES ASSUME spent'.faults = 0, spent'.crashes = 0, NEW q \in Runs PROVE ListEnds(q)'
    BY DEF ListsEnd
  <2>1. ListEnds(q) /\ log \subseteq log'
    BY <1>24 DEF Say, ListsEnd, SpentTypes
  <2>2. closed'[q] => closed[q] /\ list'[q] = list[q]
    BY <1>24 DEF Say
  <2>3. \A d \in Ids(list[q]) : Owed(d, q)' => Owed(d, q)
    BY <1>24 DEF Say, Owed, Answers
  <2>4. stage[q] = "taking" => stage'[q] = "taking" /\ hand'[q] = hand[q]
    BY <1>24 DEF Say
  <2> QED
    BY <2>1, <2>2, <2>3, <2>4, EndKept
<1>25. ASSUME NEW r \in Runs, Fail(r) PROVE ListsEnd'
  <2> SUFFICES ASSUME spent'.faults = 0, spent'.crashes = 0, NEW q \in Runs PROVE ListEnds(q)'
    BY DEF ListsEnd
  <2>1. ListEnds(q) /\ log \subseteq log'
    BY <1>25 DEF Fail, ListsEnd, SpentTypes
  <2>2. closed'[q] => closed[q] /\ list'[q] = list[q]
    BY <1>25 DEF Fail
  <2>3. \A d \in Ids(list[q]) : Owed(d, q)' => Owed(d, q)
    BY <1>25 DEF Fail, Owed, Answers
  <2>4. stage[q] = "taking" => stage'[q] = "taking" /\ hand'[q] = hand[q]
    BY <1>25 DEF Fail
  <2> QED
    BY <2>1, <2>2, <2>3, <2>4, EndKept
<1>26. ASSUME NEW r \in Runs, ConsoleRetry(r) PROVE ListsEnd'
  <2> SUFFICES ASSUME spent'.faults = 0, spent'.crashes = 0, NEW q \in Runs PROVE ListEnds(q)'
    BY DEF ListsEnd
  <2>1. ListEnds(q) /\ log \subseteq log'
    BY <1>26 DEF ConsoleRetry, ListsEnd, SpentTypes
  <2>2. closed'[q] => closed[q] /\ list'[q] = list[q]
    BY <1>26 DEF ConsoleRetry
  <2>3. \A d \in Ids(list[q]) : Owed(d, q)' => Owed(d, q)
    BY <1>26 DEF ConsoleRetry, Owed, Answers
  <2>4. stage[q] = "taking" => stage'[q] = "taking" /\ hand'[q] = hand[q]
    BY <1>26 DEF ConsoleRetry
  <2> QED
    BY <2>1, <2>2, <2>3, <2>4, EndKept
<1>27. ASSUME NEW r \in Runs, Crash(r) PROVE ListsEnd'
  <2>1. spent'.crashes # 0
    BY <1>27 DEF Crash, SpentTypes
  <2> QED
    BY <2>1 DEF ListsEnd
<1>28. CASE Lapse
  <2> SUFFICES ASSUME spent'.faults = 0, spent'.crashes = 0, NEW q \in Runs PROVE ListEnds(q)'
    BY DEF ListsEnd
  <2>1. ListEnds(q) /\ log \subseteq log'
    BY <1>28 DEF Lapse, ListsEnd, SpentTypes
  <2>2. closed'[q] => closed[q] /\ list'[q] = list[q]
    BY <1>28 DEF Lapse
  <2>3. \A d \in Ids(list[q]) : Owed(d, q)' => Owed(d, q)
    BY <1>28 DEF Lapse, Owed, Answers
  <2>4. stage[q] = "taking" => stage'[q] = "taking" /\ hand'[q] = hand[q]
    BY <1>28 DEF Lapse
  <2> QED
    BY <2>1, <2>2, <2>3, <2>4, EndKept
<1>29. CASE UNCHANGED vars
  BY <1>1, <1>29 DEF vars
<1> QED
  BY <1>1, <1>2, <1>3, <1>4, <1>5, <1>6, <1>7, <1>8, <1>9, <1>10, <1>11, <1>12, <1>13, <1>14, <1>15,
     <1>16, <1>17, <1>18, <1>19, <1>20, <1>21, <1>22, <1>23, <1>24, <1>25, <1>26, <1>27, <1>28,
     <1>29 DEF Next, Delivery, Work, Park, Disturb

\* A step after which nothing has disturbed the runs spends nothing.
LEMMA Spends ==
  ASSUME NEW w \in Kinds, SpentTypes, Spend(w)
  PROVE  ~Undisturbed' /\ spent' # spent
<1>1. spent'[w] = spent[w] + 1 /\ spent[w] \in Nat
  BY DEF Spend, SpentTypes, Kinds
<1>2. spent'[w] # 0
  BY <1>1
<1> QED
  BY <1>1, <1>2 DEF Undisturbed, Kinds

\* A step spends one disturbance or none.
LEMMA Calm ==
  Based /\ [Next]_vars
  => UNCHANGED spent \/ \E w \in Kinds : Spend(w)
<1> SUFFICES ASSUME Based, [Next]_vars
             PROVE  UNCHANGED spent \/ \E w \in Kinds : Spend(w)
  OBVIOUS
<1> USE DEF Based, keys, forge, receiver, run, Step, Spend, Can
<1> USE DEF Kinds
<1>1. ASSUME UNCHANGED spent PROVE UNCHANGED spent \/ \E w \in Kinds : Spend(w)
  BY <1>1
<1>2. ASSUME NEW c \in Comments,
             Post(c) \/ Deliver(c) \/ Enqueue(c)
      PROVE  UNCHANGED spent
  BY <1>2 DEF Post, Deliver, Enqueue
<1>3. ASSUME NEW c \in Comments, Lookup(c) PROVE UNCHANGED spent \/ \E w \in Kinds : Spend(w)
  BY <1>3 DEF Lookup, Goto, At, Note, Spend, Can
<1>4. ASSUME NEW c \in Comments, HoldLive(c) PROVE UNCHANGED spent \/ \E w \in Kinds : Spend(w)
  BY <1>4, HoldEffect DEF Holding
<1>5. ASSUME NEW c \in Comments, AskParked(c) PROVE UNCHANGED spent \/ \E w \in Kinds : Spend(w)
  BY <1>5 DEF AskParked, Goto, At, Note, Spend, Can
<1>6. ASSUME NEW c \in Comments, HoldFor(c) PROVE UNCHANGED spent \/ \E w \in Kinds : Spend(w)
  BY <1>6, HoldEffect DEF Holding
<1>7. ASSUME NEW c \in Comments, ReceiverRestart(c) PROVE UNCHANGED spent \/ \E w \in Kinds : Spend(w)
  BY <1>7 DEF ReceiverRestart, Goto, Spend, Can
<1>8. ASSUME NEW r \in Runs,
             Refresh(r) \/ Start(r) \/ Ask(r) \/ Complete(r) \/ Unmark(r) \/
               Promote(r) \/ Say(r) \/ Fail(r) \/ Age(r) \/ OpenLapses(r)
      PROVE  UNCHANGED spent
  BY <1>8 DEF Refresh, Start, Ask, Complete, Unmark, Promote, Say, Fail, Age, OpenLapses
<1>9. ASSUME NEW r \in Runs, Pickup(r) PROVE UNCHANGED spent \/ \E w \in Kinds : Spend(w)
  BY <1>9 DEF Pickup
<1>10. ASSUME NEW r \in Runs, Register(r) PROVE UNCHANGED spent \/ \E w \in Kinds : Spend(w)
  BY <1>10 DEF Register
<1>11. ASSUME NEW r \in Runs, Settle(r) PROVE UNCHANGED spent \/ \E w \in Kinds : Spend(w)
  BY <1>11, SettleEffect DEF Close
<1>12. ASSUME NEW r \in Runs, Listen(r) PROVE UNCHANGED spent \/ \E w \in Kinds : Spend(w)
  BY <1>12, SettleEffect DEF Close
<1>13. ASSUME NEW r \in Runs, Mark(r) PROVE UNCHANGED spent \/ \E w \in Kinds : Spend(w)
  BY <1>13 DEF Mark
<1>14. ASSUME NEW r \in Runs, Release(r) PROVE UNCHANGED spent \/ \E w \in Kinds : Spend(w)
  BY <1>14 DEF Release
<1>15. ASSUME NEW r \in Runs, Take(r) PROVE UNCHANGED spent \/ \E w \in Kinds : Spend(w)
  BY <1>15, TakeEffect DEF Took1, Took0, Emptied, Dealt, Close
<1>16. ASSUME NEW r \in Runs, StartAnswer(r) PROVE UNCHANGED spent \/ \E w \in Kinds : Spend(w)
  BY <1>16, StartAnswerEffect DEF Created, Added, Answer
<1>17. ASSUME NEW r \in Runs, ConsoleRetry(r) PROVE UNCHANGED spent \/ \E w \in Kinds : Spend(w)
  BY <1>17 DEF ConsoleRetry
<1>18. ASSUME NEW r \in Runs, Crash(r) PROVE UNCHANGED spent \/ \E w \in Kinds : Spend(w)
  BY <1>18 DEF Crash
<1>19. CASE Lapse
  BY <1>19 DEF Lapse
<1>20. CASE UNCHANGED vars
  BY <1>1, <1>20 DEF vars
<1> QED
  BY <1>1, <1>2, <1>3, <1>4, <1>5, <1>6, <1>7, <1>8, <1>9, <1>10, <1>11, <1>12, <1>13, <1>14, <1>15,
     <1>16, <1>17, <1>18, <1>19, <1>20 DEF Next, Delivery, Work, Park, Disturb

\* After a step that left the runs undisturbed, they were before, and nothing was spent.
LEMMA CalmStep ==
  Based /\ [Next]_vars
  => (Undisturbed' => Undisturbed /\ UNCHANGED spent /\ \A w \in Kinds : ~Spend(w))
  BY Calm, Spends DEF Undisturbed, Based

\* The keeper refreshes until the take, and the take raises the marker with its close.
LEMMA ReachedStep ==
  Based /\ Reached /\ [Next]_vars
  => Reached'
<1> SUFFICES ASSUME Based, Reached, [Next]_vars
             PROVE  Reached'
  OBVIOUS
<1>0. Undisturbed' => Undisturbed /\ UNCHANGED spent /\ \A w \in Kinds : ~Spend(w)
  BY CalmStep
<1> SUFFICES ASSUME Undisturbed' PROVE Reached'
  BY DEF Reached
<1>u. Undisturbed /\ UNCHANGED spent /\ (\A w \in Kinds : ~Spend(w)) /\ spent.faults = 0
  BY <1>0 DEF Undisturbed
<1> USE DEF Based, keys, forge, receiver, run, Step, Kinds
<1> USE DEF RunTypes, FlagTypes, Keeping, Reached
<1>1. ASSUME UNCHANGED <<stage, outcome, open, marker, spent>> PROVE Reached'
  BY <1>1, <1>u
<1>2. ASSUME NEW c \in Comments,
             Post(c) \/ Deliver(c)
      PROVE  UNCHANGED <<stage, outcome, open, marker, spent>>
  BY <1>2 DEF Post, Deliver
<1>3. ASSUME NEW c \in Comments, Lookup(c) PROVE Reached'
  BY <1>3, <1>u DEF Lookup, Goto, At, Note, Spend, Can
<1>4. ASSUME NEW c \in Comments, HoldLive(c) PROVE Reached'
  BY <1>4, <1>u, HoldEffect DEF Holding
<1>5. ASSUME NEW c \in Comments, AskParked(c) PROVE Reached'
  BY <1>5, <1>u DEF AskParked, Goto, At, Note, Spend, Can
<1>6. ASSUME NEW c \in Comments, Enqueue(c) PROVE Reached'
  BY <1>6, <1>u DEF Enqueue, Goto, At, Add, AddOutcome
<1>7. ASSUME NEW c \in Comments, HoldFor(c) PROVE Reached'
  BY <1>7, <1>u, HoldEffect DEF Holding
<1>8. ASSUME NEW c \in Comments, ReceiverRestart(c) PROVE Reached'
  BY <1>8, <1>u DEF ReceiverRestart, Goto, Spend, Can
<1>9. ASSUME NEW r \in Runs,
             Age(r)
      PROVE  UNCHANGED <<stage, outcome, open, marker, spent>>
  BY <1>9 DEF Age
<1>10. ASSUME NEW r \in Runs, Pickup(r) PROVE Reached'
  BY <1>10, <1>u DEF Pickup
<1>11. ASSUME NEW r \in Runs, Register(r) PROVE Reached'
  BY <1>11, <1>u DEF Register
<1>12. ASSUME NEW r \in Runs, Refresh(r) PROVE Reached'
  BY <1>12, <1>u DEF Refresh
<1>13. ASSUME NEW r \in Runs, Start(r) PROVE Reached'
  BY <1>13, <1>u DEF Start
<1>14. ASSUME NEW r \in Runs, Ask(r) PROVE Reached'
  BY <1>14, <1>u DEF Ask
<1>15. ASSUME NEW r \in Runs, Complete(r) PROVE Reached'
  BY <1>15, <1>u DEF Complete
<1>16. ASSUME NEW r \in Runs, Unmark(r) PROVE Reached'
  BY <1>16, <1>u DEF Unmark
<1>17. ASSUME NEW r \in Runs, Settle(r) PROVE Reached'
  BY <1>17, <1>u, SettleEffect DEF Close
<1>18. ASSUME NEW r \in Runs, Listen(r) PROVE Reached'
  BY <1>18, <1>u, SettleEffect DEF Close
<1>19. ASSUME NEW r \in Runs, Promote(r) PROVE Reached'
  BY <1>19, <1>u DEF Promote
<1>20. ASSUME NEW r \in Runs, Mark(r) PROVE Reached'
  BY <1>20, <1>u DEF Mark
<1>21. ASSUME NEW r \in Runs, Release(r) PROVE Reached'
  BY <1>21, <1>u DEF Release
<1>22. ASSUME NEW r \in Runs, Take(r) PROVE Reached'
  <2>1. Took1(r)
    BY <1>22, <1>u, TakeEffect DEF Took0
  <2>2. /\ stage[r] = "released" /\ UNCHANGED outcome
        /\ \E s \in {"saying", "taking"} : stage' = [stage EXCEPT ![r] = s]
    BY <1>22, TakeEffect, TakeShape
  <2>3. marker' = TRUE /\ open' = [open EXCEPT ![r] = "none"]
    BY <2>1 DEF Took1, Close
  <2> QED
    BY <1>u, <2>2, <2>3
<1>23. ASSUME NEW r \in Runs, StartAnswer(r) PROVE Reached'
  BY <1>23, <1>u, StartAnswerEffect DEF Created, Added, Answer
<1>24. ASSUME NEW r \in Runs, Say(r) PROVE Reached'
  BY <1>24, <1>u DEF Say
<1>25. ASSUME NEW r \in Runs, Fail(r) PROVE Reached'
  BY <1>25, <1>u DEF Fail
<1>26. ASSUME NEW r \in Runs, ConsoleRetry(r) PROVE Reached'
  BY <1>26, <1>u DEF ConsoleRetry
<1>27. ASSUME NEW r \in Runs, Crash(r) PROVE Reached'
  BY <1>27, <1>u DEF Crash
<1>28. ASSUME NEW r \in Runs, OpenLapses(r) PROVE Reached'
  BY <1>28, <1>u DEF OpenLapses
<1>29. CASE Lapse
  BY <1>29, <1>u DEF Lapse
<1>30. CASE UNCHANGED vars
  BY <1>1, <1>30 DEF vars
<1> QED
  BY <1>1, <1>2, <1>3, <1>4, <1>5, <1>6, <1>7, <1>8, <1>9, <1>10, <1>11, <1>12, <1>13, <1>14, <1>15,
     <1>16, <1>17, <1>18, <1>19, <1>20, <1>21, <1>22, <1>23, <1>24, <1>25, <1>26, <1>27, <1>28,
     <1>29, <1>30 DEF Next, Delivery, Work, Park, Disturb

\* The lookup finds a run that asks, and the hold under it succeeds.
LEMMA RoutedStep ==
  Based /\ ClosedLate /\ Unasked /\ Reached /\ Routed /\ [Next]_vars
  => Routed'
<1> SUFFICES ASSUME Based, ClosedLate, Unasked, Reached, Routed, [Next]_vars
             PROVE  Routed'
  OBVIOUS
<1>0. Undisturbed' => Undisturbed /\ UNCHANGED spent /\ \A w \in Kinds : ~Spend(w)
  BY CalmStep
<1> SUFFICES ASSUME Undisturbed' PROVE Routed'
  BY DEF Routed
<1>u. Undisturbed /\ UNCHANGED spent /\ (\A w \in Kinds : ~Spend(w)) /\ spent.faults = 0
  BY <1>0 DEF Undisturbed
<1> USE DEF Based, keys, forge, receiver, run, Step, Kinds
<1> USE DEF RunTypes, Routed, Answers, Unheard
<1>1. ASSUME UNCHANGED <<stage, tries, born, rcv, spent>> PROVE Routed'
  BY <1>1, <1>u
<1>2. ASSUME NEW c \in Comments, Post(c) PROVE Routed'
  <2>1. \A d \in Comments \ {c} : born'[d] = born[d] /\ rcv'[d] = rcv[d]
    BY <1>2 DEF Post, Goto, BornTypes, ReceiverTypes
  <2>2. rcv'[c].pc = "posted"
    BY <1>2 DEF Post, Goto, Delivering, ReceiverTypes
  <2>3. UNCHANGED <<stage, tries>>
    BY <1>2 DEF Post
  <2> QED
    BY <1>u, <2>1, <2>2, <2>3
<1>3. ASSUME NEW c \in Comments, Deliver(c) PROVE Routed'
  <2>1. \A d \in Comments \ {c} : rcv'[d] = rcv[d]
    BY <1>3 DEF Deliver, Goto, ReceiverTypes
  <2>2. rcv'[c].pc \in {"enqueue", "lookup"}
    BY <1>3 DEF Deliver, Goto, Delivering, ReceiverTypes
  <2>3. UNCHANGED <<stage, tries, born>>
    BY <1>3 DEF Deliver
  <2> QED
    BY <1>u, <2>1, <2>2, <2>3
<1>4. ASSUME NEW c \in Comments, Lookup(c) PROVE Routed'
  <2> DEFINE live == {r \in Runs : open[r] # "none"}
             v == Delivering(IF live = {} THEN "askParked" ELSE "hold", live, NoRun)
  <2>1. rcv' = [rcv EXCEPT ![c] = v] /\ UNCHANGED <<stage, tries, born>>
    BY <1>4, <1>u DEF Lookup
  <2>2. \A r \in Runs : stage[r] \in Unheard => r \in live
    BY <1>u DEF Reached, Keeping
  <2>3. v.todo = live /\ (live # {} => v.pc = "hold")
    BY DEF Delivering
  <2>4. \A d \in Comments : rcv'[d] = IF d = c THEN v ELSE rcv[d]
    BY <2>1 DEF ReceiverTypes
  <2> HIDE DEF v, live
  <2> QED
    BY <1>u, <2>1, <2>2, <2>3, <2>4
<1>5. ASSUME NEW c \in Comments, HoldLive(c) PROVE Routed'
  <2>1. PICK q \in Runs : Holding(c, q) /\ Fanned(c, q) /\ rcv[c].pc = "hold"
    BY <1>5, HoldLiveEffect
  <2> DEFINE todo == rcv[c].todo \ {q}
             v(took) == [pc |-> IF todo # {} THEN "hold" ELSE IF took THEN "ended" ELSE "askParked",
                         at |-> NoRun, took |-> took /\ todo # {}, todo |-> todo]
  <2>2. PICK took \in BOOLEAN :
          /\ rcv[c].took => took
          /\ ~closed[q] /\ open[q] = "live" /\ UNCHANGED spent => took
          /\ rcv' = [rcv EXCEPT ![c] = v(took)]
    BY <2>1 DEF Fanned
  <2>3. UNCHANGED <<stage, tries, born>>
    BY <2>1 DEF Holding
  <2>4. \A d \in Comments : rcv'[d] = IF d = c THEN v(took) ELSE rcv[d]
    BY <2>2 DEF ReceiverTypes
  <2>5. ASSUME NEW r \in Runs, Answers(c, r), stage[r] \in Unheard
        PROVE  r \in todo \/ took
    <3>1. r \in rcv[c].todo \/ rcv[c].took
      BY <1>u, <2>1, <2>5
    <3>2. ~closed[r] /\ open[r] = "live"
      BY <1>u, <2>5 DEF ClosedLate, Reached, Keeping
    <3> QED
      BY <1>u, <2>2, <3>1, <3>2
  <2>6. ASSUME NEW r \in Runs, r \in todo \/ took
        PROVE  /\ v(took).pc # "askParked"
               /\ v(took).pc = "hold" => r \in v(took).todo \/ v(took).took
    BY <2>6
  <2> HIDE DEF v, todo
  <2> QED
    BY <1>u, <2>3, <2>4, <2>5, <2>6
<1>6. ASSUME NEW c \in Comments, AskParked(c) PROVE Routed'
  <2>1. \A d \in Comments \ {c} : rcv'[d] = rcv[d]
    BY <1>6 DEF AskParked, Goto, ReceiverTypes
  <2>2. rcv'[c].pc \in {"enqueue", "ended"}
    BY <1>6 DEF AskParked, Goto, Delivering, ReceiverTypes
  <2>3. UNCHANGED <<stage, tries, born>>
    BY <1>6 DEF AskParked
  <2> QED
    BY <1>u, <2>1, <2>2, <2>3
<1>7. ASSUME NEW c \in Comments, Enqueue(c) PROVE Routed'
  <2>1. \A d \in Comments : rcv'[d] = rcv[d] \/ rcv'[d].pc \in {"holdFor", "ended"}
    BY <1>7 DEF Enqueue, Goto, Delivering, ReceiverTypes
  <2>2. \A q \in Runs : stage'[q] = stage[q] \/ stage'[q] = "queued"
    BY <1>7 DEF Enqueue, Add
  <2>3. UNCHANGED <<tries, born>>
    BY <1>7 DEF Enqueue
  <2> QED
    BY <1>u, <2>1, <2>2, <2>3
<1>8. ASSUME NEW c \in Comments, HoldFor(c) PROVE Routed'
  <2>1. rcv' = [rcv EXCEPT ![c] = Delivering("ended", {}, NoRun)]
    BY <1>8, HoldForEffect
  <2>2. \A d \in Comments : rcv'[d] = rcv[d] \/ rcv'[d].pc = "ended"
    BY <2>1 DEF Delivering, ReceiverTypes
  <2>3. UNCHANGED <<stage, tries, born>>
    BY <1>8 DEF HoldFor
  <2> QED
    BY <1>u, <2>2, <2>3
<1>9. ASSUME NEW c \in Comments, ReceiverRestart(c) PROVE Routed'
  BY <1>9, <1>u DEF ReceiverRestart
<1>10. ASSUME NEW r \in Runs,
             Refresh(r) \/ Age(r) \/ OpenLapses(r)
      PROVE  UNCHANGED <<stage, tries, born, rcv, spent>>
  BY <1>10 DEF Refresh, Age, OpenLapses
<1>11. ASSUME NEW r \in Runs, Pickup(r) PROVE Routed'
  <2>1. /\ tries' = [tries EXCEPT ![r] = @ + 1] /\ stage' = [stage EXCEPT ![r] = "picked"]
        /\ UNCHANGED <<born, rcv>>
    BY <1>11 DEF Pickup
  <2> QED
    BY <1>u, <2>1
<1>12. ASSUME NEW r \in Runs, Register(r) PROVE Routed'
  BY <1>12, <1>u DEF Register
<1>13. ASSUME NEW r \in Runs, Start(r) PROVE Routed'
  BY <1>13, <1>u DEF Start
<1>14. ASSUME NEW r \in Runs, Ask(r) PROVE Routed'
  BY <1>14, <1>u DEF Ask, Unasked
<1>15. ASSUME NEW r \in Runs, Complete(r) PROVE Routed'
  BY <1>15, <1>u DEF Complete
<1>16. ASSUME NEW r \in Runs, Unmark(r) PROVE Routed'
  BY <1>16, <1>u DEF Unmark
<1>17. ASSUME NEW r \in Runs, Settle(r) PROVE Routed'
  BY <1>17, <1>u, SettleEffect DEF Close
<1>18. ASSUME NEW r \in Runs, Listen(r) PROVE Routed'
  BY <1>18, <1>u, SettleEffect DEF Close
<1>19. ASSUME NEW r \in Runs, Promote(r) PROVE Routed'
  BY <1>19, <1>u DEF Promote
<1>20. ASSUME NEW r \in Runs, Mark(r) PROVE Routed'
  BY <1>20, <1>u DEF Mark
<1>21. ASSUME NEW r \in Runs, Release(r) PROVE Routed'
  BY <1>21, <1>u DEF Release
<1>22. ASSUME NEW r \in Runs, Take(r) PROVE Routed'
  BY <1>22, <1>u, TakeShape
<1>23. ASSUME NEW r \in Runs, StartAnswer(r) PROVE Routed'
  <2>1. /\ stage[r] = "taking" /\ (Created(r) \/ Added(r)) /\ UNCHANGED <<tries, born, rcv>>
    BY <1>23, StartAnswerEffect
  <2>2. \A q \in Runs : \/ stage'[q] = stage[q]
                        \/ q = r /\ stage'[q] = "saying"
                        \/ stage[q] = "none" /\ stage'[q] = "queued"
    BY <2>1 DEF Created, Added
  <2> QED
    BY <1>u, <2>1, <2>2
<1>24. ASSUME NEW r \in Runs, Say(r) PROVE Routed'
  BY <1>24, <1>u DEF Say
<1>25. ASSUME NEW r \in Runs, Fail(r) PROVE Routed'
  BY <1>25, <1>u DEF Fail
<1>26. ASSUME NEW r \in Runs, ConsoleRetry(r) PROVE Routed'
  BY <1>26, <1>u DEF ConsoleRetry
<1>27. ASSUME NEW r \in Runs, Crash(r) PROVE Routed'
  BY <1>27, <1>u DEF Crash
<1>28. CASE Lapse
  BY <1>28, <1>u DEF Lapse
<1>29. CASE UNCHANGED vars
  BY <1>1, <1>29 DEF vars
<1> QED
  BY <1>1, <1>2, <1>3, <1>4, <1>5, <1>6, <1>7, <1>8, <1>9, <1>10, <1>11, <1>12, <1>13, <1>14, <1>15,
     <1>16, <1>17, <1>18, <1>19, <1>20, <1>21, <1>22, <1>23, <1>24, <1>25, <1>26, <1>27, <1>28,
     <1>29 DEF Next, Delivery, Work, Park, Disturb

\* Who answers a run that asks is not sent to the marker; who comes later finds it up.
LEMMA KeptStep ==
  Based /\ ParkedLate /\ Unwritten /\ Unasked /\ Reached /\ Routed /\ Kept /\ [Next]_vars
  => Kept'
<1> SUFFICES ASSUME Based, ParkedLate, Unwritten, Unasked, Reached, Routed, Kept, [Next]_vars
             PROVE  Kept'
  OBVIOUS
<1>0. Undisturbed' => Undisturbed /\ UNCHANGED spent /\ \A w \in Kinds : ~Spend(w)
  BY CalmStep
<1> SUFFICES ASSUME Undisturbed' PROVE Kept'
  BY DEF Kept
<1>u. Undisturbed /\ UNCHANGED spent /\ (\A w \in Kinds : ~Spend(w)) /\ spent.faults = 0
  BY <1>0 DEF Undisturbed
<1> USE DEF Based, keys, forge, receiver, run, Step, Kinds
<1> USE DEF RunTypes, Kept, Answers, Parking
<1>1. ASSUME UNCHANGED <<stage, tries, outcome, born, log, spent>> PROVE Kept'
  BY <1>1, <1>u
<1>2. ASSUME NEW c \in Comments,
             Deliver(c)
      PROVE  UNCHANGED <<stage, tries, outcome, born, log, spent>>
  BY <1>2 DEF Deliver
<1>3. ASSUME NEW c \in Comments, Post(c) PROVE Kept'
  <2>1. \A d \in Comments \ {c} : born'[d] = born[d]
    BY <1>3 DEF Post, BornTypes
  <2>2. <<NoRun, c, "dropped">> \notin log
    BY <1>3 DEF Post, At, Unwritten, Unposted
  <2>3. UNCHANGED <<stage, tries, outcome, log>>
    BY <1>3 DEF Post
  <2> QED
    BY <1>u, <2>1, <2>2, <2>3
<1>4. ASSUME NEW c \in Comments, Lookup(c) PROVE Kept'
  BY <1>4, <1>u DEF Lookup, Goto, At, Note, Spend, Can
<1>5. ASSUME NEW c \in Comments, HoldLive(c) PROVE Kept'
  <2>1. PICK r \in Runs : Holding(c, r)
    BY <1>5, HoldEffect
  <2>2. UNCHANGED <<stage, tries, outcome, born>>
    BY <2>1 DEF Holding
  <2>3. \A d \in Comments : <<NoRun, d, "dropped">> \in log' => <<NoRun, d, "dropped">> \in log
    BY <2>1 DEF Holding, Runs
  <2> QED
    BY <1>u, <2>2, <2>3
<1>6. ASSUME NEW c \in Comments, AskParked(c) PROVE Kept'
  <2>1. (log' = log \/ (~marker /\ Note(NoRun, {c}, "dropped"))) /\ UNCHANGED <<stage, tries, outcome, born>>
    BY <1>6, <1>u DEF AskParked
  <2>2. ASSUME ~marker, NEW r \in Runs, Answers(c, r), stage[r] \in Parking \/ outcome[r] = "parked" PROVE FALSE
    <3>1. rcv[c].pc = "askParked"
      BY <1>6 DEF AskParked, At
    <3>2. stage[r] \in Unheard
      BY <1>u, <2>2 DEF Reached, Unheard
    <3> QED
      BY <1>u, <2>2, <3>1, <3>2 DEF Routed
  <2>3. CASE log' = log
    BY <1>u, <2>1, <2>3
  <2>4. CASE ~marker /\ log' = log \cup {<<NoRun, c, "dropped">>}
    BY <1>u, <2>1, <2>2, <2>4
  <2> QED
    BY <2>1, <2>3, <2>4 DEF Note
<1>7. ASSUME NEW c \in Comments, Enqueue(c) PROVE Kept'
  BY <1>7, <1>u DEF Enqueue, Goto, At, Add, AddOutcome
<1>8. ASSUME NEW c \in Comments, HoldFor(c) PROVE Kept'
  <2>1. PICK r \in Runs : Holding(c, r)
    BY <1>8, HoldEffect
  <2>2. UNCHANGED <<stage, tries, outcome, born>>
    BY <2>1 DEF Holding
  <2>3. \A d \in Comments : <<NoRun, d, "dropped">> \in log' => <<NoRun, d, "dropped">> \in log
    BY <2>1 DEF Holding, Runs
  <2> QED
    BY <1>u, <2>2, <2>3
<1>9. ASSUME NEW c \in Comments, ReceiverRestart(c) PROVE Kept'
  BY <1>9, <1>u DEF ReceiverRestart
<1>10. ASSUME NEW r \in Runs,
             Refresh(r) \/ Age(r) \/ OpenLapses(r)
      PROVE  UNCHANGED <<stage, tries, outcome, born, log, spent>>
  BY <1>10 DEF Refresh, Age, OpenLapses
<1>11. ASSUME NEW r \in Runs, Pickup(r) PROVE Kept'
  <2>1. /\ tries' = [tries EXCEPT ![r] = @ + 1] /\ stage' = [stage EXCEPT ![r] = "picked"]
        /\ outcome' = [outcome EXCEPT ![r] = "none"] /\ UNCHANGED <<born, log>>
    BY <1>11 DEF Pickup
  <2> QED
    BY <1>u, <2>1
<1>12. ASSUME NEW r \in Runs, Register(r) PROVE Kept'
  BY <1>12, <1>u DEF Register
<1>13. ASSUME NEW r \in Runs, Start(r) PROVE Kept'
  BY <1>13, <1>u DEF Start
<1>14. ASSUME NEW r \in Runs, Ask(r) PROVE Kept'
  BY <1>14, <1>u DEF Ask, Unasked
<1>15. ASSUME NEW r \in Runs, Complete(r) PROVE Kept'
  BY <1>15, <1>u DEF Complete
<1>16. ASSUME NEW r \in Runs, Unmark(r) PROVE Kept'
  BY <1>16, <1>u DEF Unmark
<1>17. ASSUME NEW r \in Runs, Settle(r) PROVE Kept'
  <2>1. /\ stage[r] \in {"settling", "listening"}
        /\ \E s \in {"listening", "done", "failed"} : stage' = [stage EXCEPT ![r] = s]
        /\ UNCHANGED <<tries, outcome, born>>
    BY <1>17, SettleEffect
  <2>2. \A d \in Comments : <<NoRun, d, "dropped">> \in log' => <<NoRun, d, "dropped">> \in log
    BY <1>17, SettleEffect
  <2> QED
    BY <1>u, <2>1, <2>2
<1>18. ASSUME NEW r \in Runs, Listen(r) PROVE Kept'
  <2>1. /\ stage[r] \in {"settling", "listening"}
        /\ \E s \in {"listening", "done", "failed"} : stage' = [stage EXCEPT ![r] = s]
        /\ UNCHANGED <<tries, outcome, born>>
    BY <1>18, SettleEffect
  <2>2. \A d \in Comments : <<NoRun, d, "dropped">> \in log' => <<NoRun, d, "dropped">> \in log
    BY <1>18, SettleEffect
  <2> QED
    BY <1>u, <2>1, <2>2
<1>19. ASSUME NEW r \in Runs, Promote(r) PROVE Kept'
  BY <1>19, <1>u DEF Promote
<1>20. ASSUME NEW r \in Runs, Mark(r) PROVE Kept'
  BY <1>20, <1>u DEF Mark
<1>21. ASSUME NEW r \in Runs, Release(r) PROVE Kept'
  BY <1>21, <1>u DEF Release
<1>22. ASSUME NEW r \in Runs, Take(r) PROVE Kept'
  <2>1. Took1(r) /\ stage[r] = "released" /\ UNCHANGED <<tries, outcome, born>>
    BY <1>22, <1>u, TakeEffect DEF Took0
  <2>2. \A q \in Runs : stage'[q] = stage[q] \/ q = r
    BY <1>22, TakeShape
  <2>3. \A c \in Comments : <<NoRun, c, "dropped">> \in log' => <<NoRun, c, "dropped">> \in log
    BY <2>1 DEF Took1
  <2> QED
    BY <1>u, <2>1, <2>2, <2>3
<1>23. ASSUME NEW r \in Runs, StartAnswer(r) PROVE Kept'
  <2>1. /\ stage[r] = "taking" /\ (Created(r) \/ Added(r)) /\ UNCHANGED <<tries, outcome, born>>
    BY <1>23, StartAnswerEffect
  <2>2. PICK x : Answer(r, x)
    BY <1>23, StartAnswerEffect
  <2>3. \A q \in Runs : \/ stage'[q] = stage[q]
                        \/ q = r /\ stage'[q] = "saying"
                        \/ stage[q] = "none" /\ stage'[q] = "queued"
    BY <2>1 DEF Created, Added
  <2>4. \A c \in Comments : <<NoRun, c, "dropped">> \in log' => <<NoRun, c, "dropped">> \in log
    BY <2>2 DEF Answer, Runs
  <2> QED
    BY <1>u, <2>1, <2>3, <2>4
<1>24. ASSUME NEW r \in Runs, Say(r) PROVE Kept'
  BY <1>24, <1>u DEF Say
<1>25. ASSUME NEW r \in Runs, Fail(r) PROVE Kept'
  BY <1>25, <1>u DEF Fail
<1>26. ASSUME NEW r \in Runs, ConsoleRetry(r) PROVE Kept'
  BY <1>26, <1>u DEF ConsoleRetry
<1>27. ASSUME NEW r \in Runs, Crash(r) PROVE Kept'
  BY <1>27, <1>u DEF Crash
<1>28. CASE Lapse
  BY <1>28, <1>u DEF Lapse
<1>29. CASE UNCHANGED vars
  BY <1>1, <1>29 DEF vars
<1> QED
  BY <1>1, <1>2, <1>3, <1>4, <1>5, <1>6, <1>7, <1>8, <1>9, <1>10, <1>11, <1>12, <1>13, <1>14, <1>15,
     <1>16, <1>17, <1>18, <1>19, <1>20, <1>21, <1>22, <1>23, <1>24, <1>25, <1>26, <1>27, <1>28,
     <1>29 DEF Next, Delivery, Work, Park, Disturb

-----------------------------------------------------------------------------
(* The invariant. *)

\* The parts are TypeOK.
LEMMA TypeParts ==
  TypeOK <=> RunTypes /\ ListTypes /\ FlagTypes /\ ReceiverTypes /\ BornTypes /\ SpentTypes
  BY DEF TypeOK, RunTypes, ListTypes, FlagTypes, ReceiverTypes, BornTypes, SpentTypes

\* Nothing has happened yet to the first run or to any comment.
LEMMA Initially == Init => HeldInv
<1> SUFFICES ASSUME Init PROVE HeldInv
  OBVIOUS
<1> USE DEF Init
<1>1. RunTypes /\ FlagTypes /\ SpentTypes
  <2>1. stage \in [Runs -> Stages] /\ window \in Runs
    BY DEF Stages, Runs
  <2>2. hand \in [Runs -> [first : Comments \cup {NoRun}, rest : SUBSET Comments]]
    BY DEF EmptyHand
  <2>3. SpentTypes
    BY DEF SpentTypes
  <2> QED
    BY <2>1, <2>2, <2>3 DEF RunTypes, FlagTypes
<1>2. ListTypes
  <2>1. <<>> \in Seq(Comments) /\ Len(<<>>) <= MaxEntries /\ IsInjective(<<>>)
    BY DEF IsInjective
  <2> QED
    BY <2>1 DEF ListTypes
<1>3. ReceiverTypes /\ Swallowing
  BY DEF ReceiverTypes, Swallowing, Delivering
<1>4. BornTypes
  BY DEF BornTypes
<1>5. WindowHeld /\ WindowBorn
  BY DEF WindowHeld, WindowBorn, Working, Runs
<1>6. ClosedLate /\ ParkedLate /\ ListsEnd
  BY DEF ClosedLate, ParkedLate, ListsEnd, ListEnds
<1>7. Unwritten /\ Counted /\ Unasked /\ Recent
  <2>1. \A r \in Runs : Ids(list[r]) = {}
    BY DEF Ids
  <2> QED
    BY <2>1 DEF Unwritten, Counted, Unasked, Recent, Answers, Unposted
<1>8. HandHeld /\ ResumedSaid /\ Continued
  BY DEF HandHeld, ResumedSaid, Continued
<1>9. Reached /\ Routed /\ Kept
  BY DEF Reached, Routed, Kept, Keeping, Unheard, Parking, Answers
<1> QED
  BY <1>1, <1>2, <1>3, <1>4, <1>5, <1>6, <1>7, <1>8, <1>9, TypeParts DEF HeldInv

\* A step keeps the types.
LEMMA BasedStep == Based /\ [Next]_vars => Based'
<1> SUFFICES ASSUME Based, [Next]_vars PROVE Based'
  OBVIOUS
<1> USE DEF Based
<1>1. RunTypes' /\ ListTypes' /\ FlagTypes'
  BY RunStep, ListStep, FlagStep
<1>2. ReceiverTypes' /\ Swallowing' /\ BornTypes'
  BY ReceiverStep, BornStep
<1>3. SpentTypes' /\ WindowBorn' /\ HandHeld'
  BY SpentStep, WindowBornStep, HandStep
<1> QED
  BY <1>1, <1>2, <1>3

\* A step keeps every part of the invariant.
LEMMA InvariantStep == HeldInv /\ [Next]_vars => HeldInv'
<1> SUFFICES ASSUME HeldInv, [Next]_vars PROVE HeldInv'
  OBVIOUS
<1>1. Based
  BY TypeParts DEF HeldInv, Based
<1>2. Based'
  BY <1>1, BasedStep
<1>3. TypeOK'
  BY <1>2 DEF Based, TypeOK, RunTypes, ListTypes, FlagTypes, ReceiverTypes, BornTypes, SpentTypes
<1>4. WindowHeld' /\ ClosedLate' /\ ParkedLate'
  BY <1>1, WindowStep, ClosedStep DEF HeldInv, Based
<1>5. Unwritten' /\ Counted'
  BY <1>1, UnwrittenStep, CountedStep DEF HeldInv, Based
<1>6. Unasked' /\ Recent'
  BY <1>1, UnaskedStep, RecentStep DEF HeldInv, Based
<1>7. ListsEnd'
  BY <1>1, ListsStep DEF HeldInv, Based
<1>8. ResumedSaid' /\ Continued'
  BY <1>1, ResumedStep, ContinuedStep DEF HeldInv, Based
<1>9. Reached' /\ Routed'
  BY <1>1, ReachedStep, RoutedStep DEF HeldInv, Based
<1>10. Kept'
  BY <1>1, KeptStep DEF HeldInv, Based
<1> QED
  BY <1>2, <1>3, <1>4, <1>5, <1>6, <1>7, <1>8, <1>9, <1>10 DEF HeldInv, Based

\* Whatever the comments, the askers, the attempts, the deliveries and the disturbances,
\* the receiver, the worker and the forge keep the invariant (held.mjs, held-settle.mjs).
THEOREM HeldInvariant == Spec => []HeldInv
  BY Initially, InvariantStep, PTL DEF Spec

-----------------------------------------------------------------------------
(* What it implies. *)

\* Whoever works holds the window, and only one can.
LEMMA OneHolds == HeldInv => OneContinuation
<1> DEFINE W == {r \in Runs : stage[r] \notin {"none", "done", "failed",
                   "released", "taking", "saying", "settling", "listening"}}
<1> SUFFICES ASSUME HeldInv, spent.lapses = 0, spent.faults = 0, spent.retries = 0
             PROVE  Cardinality(W) <= 1
  BY DEF OneContinuation
<1>1. \A r \in W : stage[r] \in Working
  BY DEF HeldInv, TypeOK, Stages, Active, Keeping, Working
<1>2. W \subseteq {window}
  BY <1>1 DEF HeldInv, WindowHeld
<1> HIDE DEF W
<1>3. IsFiniteSet({window}) /\ Cardinality({window}) = 1
  BY FS_Singleton
<1> QED
  BY <1>2, <1>3, FS_Subset

\* An ended run has closed its list, and a closed list's comments have their ends.
LEMMA EndHolds == HeldInv => HeldHasEnd
<1> SUFFICES ASSUME HeldInv, NEW r \in Runs, stage[r] \in {"done", "failed"}, spent.faults = 0,
                    spent.crashes = 0, NEW c \in Ids(list[r])
             PROVE  \E e \in Seen \cup (IF outcome[r] = "parked" /\ <<r, tries[r]>> \in born[c].asked
                                          THEN {} ELSE {"stale", "letGo"}) : <<r, c, e>> \in log
  BY DEF HeldHasEnd
<1>1. closed[r]
  BY DEF HeldInv, ClosedLate
<1>2. HasEnd(c, r)
  BY <1>1 DEF HeldInv, ListsEnd, ListEnds
<1> QED
  BY <1>2 DEF HasEnd, Owed, Answers

\* The comment follows from what was logged and created.
LEMMA SaidHolds == HeldInv => SaidTrue
  BY DEF HeldInv, SaidTrue, ResumedSaid, Continued

\* Closing late, and keeping what answers, is meeting the run.
LEMMA MeetHolds == HeldInv => RepliesMeetTheRun
<1> SUFFICES ASSUME HeldInv PROVE RepliesMeetTheRun
  OBVIOUS
<1>1. LiveNotSettled
  BY DEF HeldInv, LiveNotSettled, ClosedLate, TypeOK
<1>2. EndedIsClosed
  BY DEF HeldInv, EndedIsClosed, ClosedLate
<1>3. PreLabelKept
  BY DEF HeldInv, PreLabelKept, Kept, Answers
<1> QED
  BY <1>1, <1>2, <1>3 DEF RepliesMeetTheRun

\* At most one continuation works at a time, every reply a run held gets an end that its
\* author can see when it answered the question, and the parked comment says what the
\* queue does (held-settle.mjs start and settleHeld, held.mjs HOLD and CLOSE scripts).
THEOREM RepliesEndHolds == Spec => []RepliesEnd
<1>1. HeldInv => RepliesEnd
  BY OneHolds, EndHolds, SaidHolds DEF RepliesEnd
<1> QED
  BY <1>1, HeldInvariant, PTL

\* No reply is sent to a run that can no longer read it, an ended run is off its target,
\* and a reply that raced the parked label is not dropped (held.mjs holdBeforeLabel).
THEOREM RepliesMeetHolds == Spec => []RepliesMeetTheRun
  BY MeetHolds, HeldInvariant, PTL

\* Every list, key and window of the held replies keeps its values: no list is longer than its
\* cap or names a comment twice, and no comment is delivered more often than it can be.
THEOREM RepliesTypeHold == Spec => []TypeOK
<1>1. HeldInv => TypeOK
  BY DEF HeldInv
<1> QED
  BY <1>1, HeldInvariant, PTL
=============================================================================
