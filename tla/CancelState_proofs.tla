-------------------------- MODULE CancelState_proofs -------------------------
(***************************************************************************)
(* What TLAPS proves of CancelState: an acknowledged cancel is final and   *)
(* recorded, and what a requester is told of the request and of the hold   *)
(* is so, for any requesters, attempts and disturbances.                   *)
(***************************************************************************)
EXTENDS CancelState, TLAPS

USE CancelAssumption

\* No worker died, and none aborted the job of its own accord.
Calm == happened \cap {"deaths", "timer"} = {}

\* The job cannot be taken again, and its record will name the operator: the abort
\* is raised, or the answer is given and only the request is to be consumed.
Doomed ==
  \/ job \in Ends /\ record = "operator-cancel"
  \/ job = "removed"
  \/ job = "active" /\ (signal = "cancel" \/ work = "consume")

\* The worker's side.  A tick raises the abort before it answers, and the poll is
\* stopped before the outcome is decided.
Sealed ==
  /\ tick = "read" /\ ~stopped => work = "runs"
  /\ work = "gate" => signal = "none" /\ tick = "idle"
  /\ ack => acked
  /\ Calm => /\ signal # "other"
             /\ tick \in {"ack", "consume"} => signal = "cancel"
             /\ acked \/ tick \in {"ack", "consume"} => Doomed

\* Somebody was told otherwise than "nothing was changed".
Informed == \E o \in Ops : told[o] \in {"accepted", "unreachable"}
\* A request stands only while its requester waits, or after one was told so; what
\* a worker does with it was read then.
Asked ==
  /\ \A o \in Ops : told[o] # "none" => op[o] = "done"
  /\ \A o \in Ops : told[o] = "accepted" => acked
  /\ req => Informed \/ \E o \in Ops : op[o] \in {"poll", "withdraw"}
  /\ \/ tick \in {"read", "ack", "consume"} \/ signal = "cancel" \/ work \in {"answer", "consume"}
     \/ record = "operator-cancel"
     => late \/ Informed

\* Somebody takes the hold down, or was told that it is gone.
Taken == \E o \in Ops : op[o] \in {"readback", "lease", "removeHeld"} \/ told[o] \in {"cleared", "removed"}
Clean == "faults" \notin happened /\ \A o \in Ops : ~touched[o]
\* The hold of a job nobody has taken up goes by a requester's hand alone, and its
\* lease right after it.
Holding ==
  /\ \A o \in Ops : op[o] = "idle" => saw[o] = "none" /\ ~touched[o]
  /\ \A o \in Ops : saw[o] = "held" /\ ~touched[o] => work = "none" /\ (hold \/ Taken)
  /\ job = "held" => hold \/ Taken
  /\ \A o \in Ops : op[o] \in {"unhold", "readback", "lease", "removeHeld", "remove"} /\ ~touched[o]
       => work = "none"
  /\ Clean =>
       /\ job = "removed" \/ (\E o \in Ops : op[o] \in {"lease", "removeHeld", "remove"}) => ~hold
       /\ leased => hold \/ \E o \in Ops : op[o] = "lease"

\* An attempt is left to a job that is not over.
Trying == job \in QueuedStates \cup {"active"} => tries < Attempts

\* The parts of the type invariant that are kept together: the job and its pickup,
Queued ==
  /\ job \in QueuedStates \cup Ends \cup {"active", "removed"} /\ tries \in 0 .. Attempts
  /\ work \in {"none", "gate", "runs", "stopping", "deciding", "answer", "consume"}
  /\ (work # "none") = (job = "active")
  /\ Trying
\* what the pickup hears and leaves behind,
Heard ==
  /\ signal \in {"none", "cancel", "other"}
  /\ tick \in {"idle", "read", "ack", "consume", "over"}
  /\ record \in {"none", "operator-cancel", "worker-abort", "result", "failed"}
\* the requesters,
Asking ==
  /\ op \in [Ops -> {"idle", "look", "held", "unhold", "readback", "lease", "removeHeld", "remove",
                     "ask", "poll", "reread", "withdraw", "done"}]
  /\ saw \in [Ops -> QueuedStates \cup Ends \cup {"none", "active", "removed"}]
  /\ told \in [Ops -> {"none", "nothing", "accepted", "removed", "cleared", "unreachable"}]
\* and the Boolean variables.
Flags ==
  /\ hold \in BOOLEAN /\ leased \in BOOLEAN /\ req \in BOOLEAN /\ ack \in BOOLEAN
  /\ stopped \in BOOLEAN /\ late \in BOOLEAN /\ acked \in BOOLEAN /\ touched \in [Ops -> BOOLEAN]

CancelInv == TypeOK /\ Trying /\ Sealed /\ Asked /\ Holding

-----------------------------------------------------------------------------
\* The invariant holds when the story begins.
LEMMA Initially == Init => CancelInv
<1> SUFFICES ASSUME Init PROVE CancelInv
  OBVIOUS
<1>1. TypeOK /\ Trying
  <2>1. Queued /\ spent \in 0 .. MaxSpent
    BY DEF Init, Queued, Trying, QueuedStates, Ends
  <2>2. Heard /\ Asking
    BY DEF Init, Heard, Asking
  <2>3. Flags
    BY DEF Init, Flags
  <2> QED
    BY <2>1, <2>2, <2>3 DEF TypeOK, Queued, Heard, Asking, Flags
<1>2. Sealed
  BY DEF Init, Sealed, Doomed
<1>3. Asked
  BY DEF Init, Asked, Informed
<1>4. Holding
  BY DEF Init, Holding
<1> QED
  BY <1>1, <1>2, <1>3, <1>4 DEF CancelInv

\* The budget of disturbances is kept to.
LEMMA SpentStep == spent \in 0 .. MaxSpent /\ [Next]_vars => spent' \in 0 .. MaxSpent
<1> SUFFICES ASSUME spent \in 0 .. MaxSpent, [Next]_vars PROVE spent' \in 0 .. MaxSpent
  OBVIOUS
<1>1. ASSUME NEW what, Spend(what) PROVE spent' \in 0 .. MaxSpent
  BY <1>1 DEF Spend, Can
<1>2. CASE UNCHANGED spent
  BY <1>2
<1>3. (\E what : Spend(what)) \/ UNCHANGED spent
  <2> USE DEF Fine, budget
  <2>1. CASE UNCHANGED vars
    BY <2>1 DEF vars
  <2>2. CASE Worker
    BY <2>2, Zenon DEF Worker, Take, Rehold, Through, OwnAbort, TickRead, TickRaise, TickAck, TickConsume,
       Acknowledge, StopPoll, PollOver, Returns, Fails, Retries, AnswerPending, ConsumePending
  <2>3. CASE Die \/ Lapse
    BY <2>3 DEF Die, Lapse
  <2>4. ASSUME NEW o \in Ops, Begin(o) \/ Cancel(o) PROVE (\E what : Spend(what)) \/ UNCHANGED spent
    BY <2>4, Zenon DEF Begin, Cancel, Look, LookHeld, Unhold, ReadBack, DropLease, RemoveHeld, Remove, Ask,
       PollAck, GiveUp, Reread, Withdraw
  <2> QED
    BY <2>1, <2>2, <2>3, <2>4 DEF Next
<1> QED
    BY <1>1, <1>2, <1>3

\* The job's states, its pickup's, and the attempts are kept in their types.
LEMMA QueuedStep == Queued /\ [Next]_vars => Queued'
<1> SUFFICES ASSUME Queued, [Next]_vars PROVE Queued'
  OBVIOUS
<1> USE DEF queue, holding, keys, pickup, asking, ghosts, budget, Spend, Can, Fine, QueuedStates, Ends
<1> USE DEF Queued, Trying
<1>1. CASE Take \/ Rehold \/ Through \/ OwnAbort
  BY <1>1 DEF Take, Rehold, Through, OwnAbort, Abort
<1>2. CASE TickRead \/ TickRaise \/ TickAck \/ TickConsume
  BY <1>2 DEF TickRead, TickRaise, TickAck, TickConsume, ReadBy, Raises, Abort, Acknowledge
<1>3. CASE StopPoll \/ PollOver \/ Returns \/ Fails
  BY <1>3 DEF StopPoll, PollOver, Returns, Fails, End
<1>4. CASE Retries
  BY <1>4 DEF Retries, End, GoBack, AnswersPending, ReadBy
<1>5. CASE AnswerPending \/ ConsumePending
  BY <1>5 DEF AnswerPending, ConsumePending, Acknowledge, End
<1>6. CASE Die \/ Lapse \/ UNCHANGED vars
  BY <1>6 DEF Die, Lapse, vars
<1>7. ASSUME NEW o \in Ops, Begin(o) \/ Look(o) \/ LookHeld(o) PROVE Queued'
  BY <1>7 DEF Begin, Look, LookHeld, Goto, Tell, Saw
<1>8. ASSUME NEW o \in Ops, Unhold(o) \/ ReadBack(o) \/ DropLease(o) PROVE Queued'
  BY <1>8 DEF Unhold, ClearsHold, ReadBack, DropLease, Goto, Tell
<1>9. ASSUME NEW o \in Ops, RemoveHeld(o) \/ Remove(o) PROVE Queued'
  BY <1>9 DEF RemoveHeld, Remove, Removable, Goto, Tell, Saw
<1>10. ASSUME NEW o \in Ops, Ask(o) \/ PollAck(o) \/ GiveUp(o) PROVE Queued'
  BY <1>10 DEF Ask, PollAck, GiveUp, TakesBack, Goto, Tell
<1>11. ASSUME NEW o \in Ops, Reread(o) \/ Withdraw(o) PROVE Queued'
  BY <1>11 DEF Reread, Withdraw, Goto, Tell, Saw
<1> QED
    BY <1>1, <1>2, <1>3, <1>4, <1>5, <1>6, <1>7, <1>8, <1>9, <1>10, <1>11 DEF Next, Worker, Cancel

\* So are the abort, the poll tick and the record,
LEMMA HeardStep == Heard /\ [Next]_vars => Heard'
<1> SUFFICES ASSUME Heard, [Next]_vars PROVE Heard'
  OBVIOUS
<1> USE DEF queue, holding, keys, pickup, asking, ghosts, budget, Spend, Can, Fine, QueuedStates, Ends
<1> USE DEF Heard
<1>1. CASE Take \/ Rehold \/ Through \/ OwnAbort
  BY <1>1 DEF Take, Rehold, Through, OwnAbort, Abort
<1>2. CASE TickRead \/ TickRaise \/ TickAck \/ TickConsume
  BY <1>2 DEF TickRead, TickRaise, TickAck, TickConsume, ReadBy, Raises, Abort, Acknowledge
<1>3. CASE StopPoll \/ PollOver \/ Returns \/ Fails
  BY <1>3 DEF StopPoll, PollOver, Returns, Fails, End
<1>4. CASE Retries
  BY <1>4 DEF Retries, End, GoBack, AnswersPending, ReadBy
<1>5. CASE AnswerPending \/ ConsumePending
  BY <1>5 DEF AnswerPending, ConsumePending, Acknowledge, End
<1>6. CASE Die \/ Lapse \/ UNCHANGED vars
  BY <1>6 DEF Die, Lapse, vars
<1>7. ASSUME NEW o \in Ops, Begin(o) \/ Look(o) \/ LookHeld(o) PROVE Heard'
  BY <1>7 DEF Begin, Look, LookHeld, Goto, Tell, Saw
<1>8. ASSUME NEW o \in Ops, Unhold(o) \/ ReadBack(o) \/ DropLease(o) PROVE Heard'
  BY <1>8 DEF Unhold, ClearsHold, ReadBack, DropLease, Goto, Tell
<1>9. ASSUME NEW o \in Ops, RemoveHeld(o) \/ Remove(o) PROVE Heard'
  BY <1>9 DEF RemoveHeld, Remove, Removable, Goto, Tell, Saw
<1>10. ASSUME NEW o \in Ops, Ask(o) \/ PollAck(o) \/ GiveUp(o) PROVE Heard'
  BY <1>10 DEF Ask, PollAck, GiveUp, TakesBack, Goto, Tell
<1>11. ASSUME NEW o \in Ops, Reread(o) \/ Withdraw(o) PROVE Heard'
  BY <1>11 DEF Reread, Withdraw, Goto, Tell, Saw
<1> QED
    BY <1>1, <1>2, <1>3, <1>4, <1>5, <1>6, <1>7, <1>8, <1>9, <1>10, <1>11 DEF Next, Worker, Cancel

\* what a requester does and is told,
LEMMA AskingStep == Queued /\ Asking /\ [Next]_vars => Asking'
<1> SUFFICES ASSUME Queued, Asking, [Next]_vars PROVE Asking'
  OBVIOUS
<1> USE DEF queue, holding, keys, pickup, asking, ghosts, budget, Spend, Can, Fine, QueuedStates, Ends
<1> USE DEF Asking, Queued
<1>1. CASE Take \/ Rehold \/ Through \/ OwnAbort
  BY <1>1 DEF Take, Rehold, Through, OwnAbort, Abort
<1>2. CASE TickRead \/ TickRaise \/ TickAck \/ TickConsume
  BY <1>2 DEF TickRead, TickRaise, TickAck, TickConsume, ReadBy, Raises, Abort, Acknowledge
<1>3. CASE StopPoll \/ PollOver \/ Returns \/ Fails
  BY <1>3 DEF StopPoll, PollOver, Returns, Fails, End
<1>4. CASE Retries
  BY <1>4 DEF Retries, End, GoBack, AnswersPending, ReadBy
<1>5. CASE AnswerPending \/ ConsumePending
  BY <1>5 DEF AnswerPending, ConsumePending, Acknowledge, End
<1>6. CASE Die \/ Lapse \/ UNCHANGED vars
  BY <1>6 DEF Die, Lapse, vars
<1>7. ASSUME NEW o \in Ops, Begin(o) \/ Look(o) \/ LookHeld(o) PROVE Asking'
  BY <1>7 DEF Begin, Look, LookHeld, Goto, Tell, Saw
<1>8. ASSUME NEW o \in Ops, Unhold(o) \/ ReadBack(o) \/ DropLease(o) PROVE Asking'
  BY <1>8 DEF Unhold, ClearsHold, ReadBack, DropLease, Goto, Tell
<1>9. ASSUME NEW o \in Ops, RemoveHeld(o) \/ Remove(o) PROVE Asking'
  BY <1>9 DEF RemoveHeld, Remove, Removable, Goto, Tell, Saw
<1>10. ASSUME NEW o \in Ops, Ask(o) \/ PollAck(o) \/ GiveUp(o) PROVE Asking'
  BY <1>10 DEF Ask, PollAck, GiveUp, TakesBack, Goto, Tell
<1>11. ASSUME NEW o \in Ops, Reread(o) \/ Withdraw(o) PROVE Asking'
  BY <1>11 DEF Reread, Withdraw, Goto, Tell, Saw
<1> QED
    BY <1>1, <1>2, <1>3, <1>4, <1>5, <1>6, <1>7, <1>8, <1>9, <1>10, <1>11 DEF Next, Worker, Cancel

\* and the flags.
LEMMA FlagsStep == Flags /\ [Next]_vars => Flags'
<1> SUFFICES ASSUME Flags, [Next]_vars PROVE Flags'
  OBVIOUS
<1> USE DEF queue, holding, keys, pickup, asking, ghosts, budget, Spend, Can, Fine, QueuedStates, Ends
<1> USE DEF Flags
<1>1. CASE Take \/ Rehold \/ Through \/ OwnAbort
  BY <1>1 DEF Take, Rehold, Through, OwnAbort, Abort
<1>2. CASE TickRead \/ TickRaise \/ TickAck \/ TickConsume
  BY <1>2 DEF TickRead, TickRaise, TickAck, TickConsume, ReadBy, Raises, Abort, Acknowledge
<1>3. CASE StopPoll \/ PollOver \/ Returns \/ Fails
  BY <1>3 DEF StopPoll, PollOver, Returns, Fails, End
<1>4. CASE Retries
  BY <1>4 DEF Retries, End, GoBack, AnswersPending, ReadBy
<1>5. CASE AnswerPending \/ ConsumePending
  BY <1>5 DEF AnswerPending, ConsumePending, Acknowledge, End
<1>6. CASE Die \/ Lapse \/ UNCHANGED vars
  BY <1>6 DEF Die, Lapse, vars
<1>7. ASSUME NEW o \in Ops, Begin(o) \/ Look(o) \/ LookHeld(o) PROVE Flags'
  BY <1>7 DEF Begin, Look, LookHeld, Goto, Tell, Saw
<1>8. ASSUME NEW o \in Ops, Unhold(o) \/ ReadBack(o) \/ DropLease(o) PROVE Flags'
  BY <1>8 DEF Unhold, ClearsHold, ReadBack, DropLease, Goto, Tell
<1>9. ASSUME NEW o \in Ops, RemoveHeld(o) \/ Remove(o) PROVE Flags'
  BY <1>9 DEF RemoveHeld, Remove, Removable, Goto, Tell, Saw
<1>10. ASSUME NEW o \in Ops, Ask(o) \/ PollAck(o) \/ GiveUp(o) PROVE Flags'
  BY <1>10 DEF Ask, PollAck, GiveUp, TakesBack, Goto, Tell
<1>11. ASSUME NEW o \in Ops, Reread(o) \/ Withdraw(o) PROVE Flags'
  BY <1>11 DEF Reread, Withdraw, Goto, Tell, Saw
<1> QED
    BY <1>1, <1>2, <1>3, <1>4, <1>5, <1>6, <1>7, <1>8, <1>9, <1>10, <1>11 DEF Next, Worker, Cancel

\* A lapse only takes keys away.
LEMMA Lapsing == Lapse => (ack' => ack) /\ (req' => req)
<1> SUFFICES ASSUME Lapse PROVE (ack' => ack) /\ (req' => req)
  OBVIOUS
<1>1. (ack' = FALSE \/ ack' = ack) /\ (req' = FALSE \/ req' = req)
  BY DEF Lapse
<1> QED
  BY <1>1

\* A worker answers only after the abort that seals the job's end, and nothing but a
\* death or an abort of its own unseals it.
LEMMA SealedStep == Queued /\ Heard /\ Flags /\ Asked /\ Sealed /\ [Next]_vars => Sealed'
<1> SUFFICES ASSUME Queued, Heard, Flags, Asked, Sealed, [Next]_vars PROVE Sealed'
  OBVIOUS
<1> USE DEF queue, holding, keys, pickup, asking, ghosts, budget, Spend, Can, Fine, QueuedStates, Ends
<1> USE DEF Queued, Heard, Flags, Sealed, Doomed, Calm, Asked
<1>1. CASE Take
  BY <1>1 DEF Take
<1>2. CASE Rehold
  BY <1>2 DEF Rehold
<1>3. CASE Through
  BY <1>3 DEF Through
<1>4. CASE OwnAbort
  BY <1>4 DEF OwnAbort, Abort
<1>5. CASE TickRead
  BY <1>5 DEF TickRead, ReadBy
<1>6. CASE TickRaise
  BY <1>6 DEF TickRaise, Raises, Abort
<1>7. CASE TickAck
  BY <1>7 DEF TickAck, Acknowledge
<1>8. CASE TickConsume
  BY <1>8 DEF TickConsume
<1>9. CASE StopPoll
  BY <1>9 DEF StopPoll
<1>10. CASE PollOver
  BY <1>10 DEF PollOver
<1>11. CASE Returns
  BY <1>11 DEF Returns, End
<1>12. CASE Fails
  BY <1>12 DEF Fails, End
<1>13. CASE Retries
  BY <1>13 DEF Retries, End, GoBack, AnswersPending, ReadBy
<1>14. CASE AnswerPending
  BY <1>14 DEF AnswerPending, Acknowledge
<1>15. CASE ConsumePending
  BY <1>15 DEF ConsumePending, End
<1>16. CASE Die
  BY <1>16 DEF Die
<1>17. CASE Lapse
  <2>1. (ack' => ack) /\ (req' => req)
    BY <1>17, Lapsing
  <2>2. UNCHANGED <<job, tries, work, signal, stopped, tick, record, op, told, late, acked, happened>>
    BY <1>17 DEF Lapse
  <2> QED
    BY <2>1, <2>2
<1>18. CASE UNCHANGED vars
  BY <1>18 DEF vars
<1>19. ASSUME NEW o \in Ops, Begin(o) PROVE Sealed'
  BY <1>19 DEF Begin, Goto
<1>20. ASSUME NEW o \in Ops, Look(o) PROVE Sealed'
  BY <1>20 DEF Look, Tell, Saw, Goto
<1>21. ASSUME NEW o \in Ops, LookHeld(o) PROVE Sealed'
  BY <1>21 DEF LookHeld, Tell, Goto
<1>22. ASSUME NEW o \in Ops, Unhold(o) PROVE Sealed'
  BY <1>22 DEF Unhold, ClearsHold, Goto
<1>23. ASSUME NEW o \in Ops, ReadBack(o) PROVE Sealed'
  BY <1>23 DEF ReadBack, Tell, Goto
<1>24. ASSUME NEW o \in Ops, DropLease(o) PROVE Sealed'
  BY <1>24 DEF DropLease, Tell, Goto
<1>25. ASSUME NEW o \in Ops, RemoveHeld(o) PROVE Sealed'
  BY <1>25 DEF RemoveHeld, Removable, Tell, Goto
<1>26. ASSUME NEW o \in Ops, Remove(o) PROVE Sealed'
  BY <1>26 DEF Remove, Removable, Tell, Saw, Goto
<1>27. ASSUME NEW o \in Ops, Ask(o) PROVE Sealed'
  BY <1>27 DEF Ask, Goto
<1>28. ASSUME NEW o \in Ops, PollAck(o) PROVE Sealed'
  BY <1>28 DEF PollAck, Tell, Goto
<1>29. ASSUME NEW o \in Ops, GiveUp(o) PROVE Sealed'
  BY <1>29 DEF GiveUp, TakesBack, Goto
<1>30. ASSUME NEW o \in Ops, Reread(o) PROVE Sealed'
  BY <1>30 DEF Reread, Tell, Saw, Goto
<1>31. ASSUME NEW o \in Ops, Withdraw(o) PROVE Sealed'
  BY <1>31 DEF Withdraw, Tell, Goto
<1> QED
    BY <1>1, <1>2, <1>3, <1>4, <1>5, <1>6, <1>7, <1>8, <1>9, <1>10, <1>11, <1>12, <1>13, <1>14,
     <1>15, <1>16, <1>17, <1>18, <1>19, <1>20, <1>21, <1>22, <1>23, <1>24, <1>25, <1>26, <1>27,
     <1>28, <1>29, <1>30, <1>31 DEF Next, Worker, Cancel

\* A request outlives its requester's wait only where the requester is told so, and
\* what a worker does with a request it does while somebody waits, or was told.
LEMMA AskedStep == Queued /\ Heard /\ Flags /\ Asking /\ Asked /\ Sealed /\ [Next]_vars => Asked'
<1> SUFFICES ASSUME Queued, Heard, Flags, Asking, Asked, Sealed, [Next]_vars PROVE Asked'
  OBVIOUS
<1> USE DEF queue, holding, keys, pickup, asking, ghosts, budget, Spend, Can, Fine, QueuedStates, Ends
<1> USE DEF Queued, Heard, Asking, Flags, Asked, Sealed, Informed
<1>1. CASE Take
  BY <1>1 DEF Take
<1>2. CASE Rehold
  BY <1>2 DEF Rehold
<1>3. CASE Through
  BY <1>3 DEF Through
<1>4. CASE OwnAbort
  BY <1>4 DEF OwnAbort, Abort
<1>5. CASE TickRead
  BY <1>5 DEF TickRead, ReadBy
<1>6. CASE TickRaise
  BY <1>6 DEF TickRaise, Raises, Abort
<1>7. CASE TickAck
  BY <1>7 DEF TickAck, Acknowledge
<1>8. CASE TickConsume
  BY <1>8 DEF TickConsume
<1>9. CASE StopPoll
  BY <1>9 DEF StopPoll
<1>10. CASE PollOver
  BY <1>10 DEF PollOver
<1>11. CASE Returns
  BY <1>11 DEF Returns, End
<1>12. CASE Fails
  BY <1>12 DEF Fails, End
<1>13. CASE Retries
  BY <1>13 DEF Retries, End, GoBack, AnswersPending, ReadBy
<1>14. CASE AnswerPending
  BY <1>14 DEF AnswerPending, Acknowledge
<1>15. CASE ConsumePending
  BY <1>15 DEF ConsumePending, End
<1>16. CASE Die
  BY <1>16 DEF Die
<1>17. CASE Lapse
  <2>1. (ack' => ack) /\ (req' => req)
    BY <1>17, Lapsing
  <2>2. UNCHANGED <<job, tries, work, signal, stopped, tick, record, op, told, late, acked, happened>>
    BY <1>17 DEF Lapse
  <2> QED
    BY <2>1, <2>2
<1>18. CASE UNCHANGED vars
  BY <1>18 DEF vars
<1>19. ASSUME NEW o \in Ops, Begin(o) PROVE Asked'
  BY <1>19 DEF Begin, Goto
<1>20. ASSUME NEW o \in Ops, Look(o) PROVE Asked'
  BY <1>20 DEF Look, Tell, Saw, Goto
<1>21. ASSUME NEW o \in Ops, LookHeld(o) PROVE Asked'
  BY <1>21 DEF LookHeld, Tell, Goto
<1>22. ASSUME NEW o \in Ops, Unhold(o) PROVE Asked'
  <2>1. op[o] = "unhold" /\ UNCHANGED <<req, work, signal, tick, record, told, late, acked>>
    BY <1>22 DEF Unhold
  <2>2. op' = [op EXCEPT ![o] = "lease"] \/ op' = [op EXCEPT ![o] = "readback"]
    BY <1>22 DEF Unhold, Goto
  <2> QED
    BY <2>1, <2>2 DEF Informed
<1>23. ASSUME NEW o \in Ops, ReadBack(o) PROVE Asked'
  BY <1>23 DEF ReadBack, Tell, Goto
<1>24. ASSUME NEW o \in Ops, DropLease(o) PROVE Asked'
  BY <1>24 DEF DropLease, Tell, Goto
<1>25. ASSUME NEW o \in Ops, RemoveHeld(o) PROVE Asked'
  BY <1>25 DEF RemoveHeld, Removable, Tell, Goto
<1>26. ASSUME NEW o \in Ops, Remove(o) PROVE Asked'
  BY <1>26 DEF Remove, Removable, Tell, Saw, Goto
<1>27. ASSUME NEW o \in Ops, Ask(o) PROVE Asked'
  <2>1. op[o] = "ask" /\ UNCHANGED <<work, signal, tick, record, told, late, acked>>
    BY <1>27 DEF Ask
  <2>2. op' = [op EXCEPT ![o] = "poll"] \/ op' = [op EXCEPT ![o] = "withdraw"]
    BY <1>27 DEF Ask, Goto
  <2> QED
    BY <2>1, <2>2 DEF Informed
<1>28. ASSUME NEW o \in Ops, PollAck(o) PROVE Asked'
  BY <1>28 DEF PollAck, Tell, Goto
<1>29. ASSUME NEW o \in Ops, GiveUp(o) PROVE Asked'
  <2>1. op[o] = "poll" /\ UNCHANGED <<work, signal, tick, record, told, late, acked>>
    BY <1>29 DEF GiveUp
  <2>2. (req' = FALSE /\ op' = [op EXCEPT ![o] = "reread"]) \/ op' = [op EXCEPT ![o] = "withdraw"]
    BY <1>29 DEF GiveUp, TakesBack, Goto
  <2> QED
    BY <2>1, <2>2 DEF Informed
<1>30. ASSUME NEW o \in Ops, Reread(o) PROVE Asked'
  BY <1>30 DEF Reread, Tell, Saw, Goto
<1>31. ASSUME NEW o \in Ops, Withdraw(o) PROVE Asked'
  BY <1>31 DEF Withdraw, Tell, Goto
<1> QED
    BY <1>1, <1>2, <1>3, <1>4, <1>5, <1>6, <1>7, <1>8, <1>9, <1>10, <1>11, <1>12, <1>13, <1>14,
     <1>15, <1>16, <1>17, <1>18, <1>19, <1>20, <1>21, <1>22, <1>23, <1>24, <1>25, <1>26, <1>27,
     <1>28, <1>29, <1>30, <1>31 DEF Next, Worker, Cancel

\* The hold and its lease go by the hand of a requester or of the worker that takes the job up.
LEMMA HoldingStep == Queued /\ Flags /\ Asking /\ Asked /\ Holding /\ [Next]_vars => Holding'
<1> SUFFICES ASSUME Queued, Flags, Asking, Asked, Holding, [Next]_vars PROVE Holding'
  OBVIOUS
<1> USE DEF queue, holding, keys, pickup, asking, ghosts, budget, Spend, Can, Fine, QueuedStates, Ends
<1> USE DEF Queued, Flags, Asking, Asked, Holding, Taken, Clean
<1>1. CASE Take
  BY <1>1 DEF Take
<1>2. CASE Rehold
  BY <1>2 DEF Rehold
<1>3. CASE Through
  BY <1>3 DEF Through
<1>4. CASE OwnAbort
  BY <1>4 DEF OwnAbort, Abort
<1>5. CASE TickRead
  BY <1>5 DEF TickRead, ReadBy
<1>6. CASE TickRaise
  BY <1>6 DEF TickRaise, Raises, Abort
<1>7. CASE TickAck
  BY <1>7 DEF TickAck, Acknowledge
<1>8. CASE TickConsume
  BY <1>8 DEF TickConsume
<1>9. CASE StopPoll
  BY <1>9 DEF StopPoll
<1>10. CASE PollOver
  BY <1>10 DEF PollOver
<1>11. CASE Returns
  BY <1>11 DEF Returns, End
<1>12. CASE Fails
  BY <1>12 DEF Fails, End
<1>13. CASE Retries
  BY <1>13 DEF Retries, End, GoBack, AnswersPending, ReadBy
<1>14. CASE AnswerPending
  BY <1>14 DEF AnswerPending, Acknowledge
<1>15. CASE ConsumePending
  BY <1>15 DEF ConsumePending, End
<1>16. CASE Die
  BY <1>16 DEF Die
<1>17. CASE Lapse
  BY <1>17 DEF Lapse
<1>18. CASE UNCHANGED vars
  BY <1>18 DEF vars
<1>19. ASSUME NEW o \in Ops, Begin(o) PROVE Holding'
  BY <1>19 DEF Begin, Goto
<1>20. ASSUME NEW o \in Ops, Look(o) PROVE Holding'
  BY <1>20 DEF Look, Tell, Saw, Goto
<1>21. ASSUME NEW o \in Ops, LookHeld(o) PROVE Holding'
  BY <1>21 DEF LookHeld, Tell, Goto
<1>22. ASSUME NEW o \in Ops, Unhold(o) PROVE Holding'
  <2>1. op[o] = "unhold" /\ UNCHANGED <<job, tries, leased, work, saw, told, touched>>
    BY <1>22 DEF Unhold
  <2>2. CASE hold' = FALSE /\ op' = [op EXCEPT ![o] = "lease"] /\ UNCHANGED happened
    BY <2>1, <2>2
  <2>3. CASE op' = [op EXCEPT ![o] = "readback"] /\ "faults" \in happened'
    BY <2>1, <2>3
  <2> QED
    BY <1>22, <2>2, <2>3 DEF Unhold, ClearsHold, Goto
<1>23. ASSUME NEW o \in Ops, ReadBack(o) PROVE Holding'
  BY <1>23 DEF ReadBack, Tell, Goto
<1>24. ASSUME NEW o \in Ops, DropLease(o) PROVE Holding'
  BY <1>24 DEF DropLease, Tell, Goto
<1>25. ASSUME NEW o \in Ops, RemoveHeld(o) PROVE Holding'
  BY <1>25 DEF RemoveHeld, Removable, Tell, Goto
<1>26. ASSUME NEW o \in Ops, Remove(o) PROVE Holding'
  BY <1>26 DEF Remove, Removable, Tell, Saw, Goto
<1>27. ASSUME NEW o \in Ops, Ask(o) PROVE Holding'
  <2>1. /\ op[o] \in {"ask", "poll"} /\ op'[o] \in {"poll", "reread", "withdraw"}
        /\ \A p \in Ops \ {o} : op'[p] = op[p]
        /\ UNCHANGED <<job, tries, hold, leased, work, saw, told, touched>> /\ ("faults" \in happened => "faults" \in happened')
    BY <1>27 DEF Ask, Goto
  <2>2. Taken' = Taken /\ (Clean' => Clean)
    BY <2>1
  <2> QED
    BY <2>1, <2>2 
<1>28. ASSUME NEW o \in Ops, PollAck(o) PROVE Holding'
  BY <1>28 DEF PollAck, Tell, Goto
<1>29. ASSUME NEW o \in Ops, GiveUp(o) PROVE Holding'
  <2>1. /\ op[o] \in {"ask", "poll"} /\ op'[o] \in {"poll", "reread", "withdraw"}
        /\ \A p \in Ops \ {o} : op'[p] = op[p]
        /\ UNCHANGED <<job, tries, hold, leased, work, saw, told, touched>> /\ ("faults" \in happened => "faults" \in happened')
    BY <1>29 DEF GiveUp, TakesBack, Goto
  <2>2. Taken' = Taken /\ (Clean' => Clean)
    BY <2>1
  <2> QED
    BY <2>1, <2>2 
<1>30. ASSUME NEW o \in Ops, Reread(o) PROVE Holding'
  BY <1>30 DEF Reread, Tell, Saw, Goto
<1>31. ASSUME NEW o \in Ops, Withdraw(o) PROVE Holding'
  BY <1>31 DEF Withdraw, Tell, Goto
<1> QED
    BY <1>1, <1>2, <1>3, <1>4, <1>5, <1>6, <1>7, <1>8, <1>9, <1>10, <1>11, <1>12, <1>13, <1>14,
     <1>15, <1>16, <1>17, <1>18, <1>19, <1>20, <1>21, <1>22, <1>23, <1>24, <1>25, <1>26, <1>27,
     <1>28, <1>29, <1>30, <1>31 DEF Next, Worker, Cancel

\* The invariant of the cancel: what every state keeps, whoever asks and whatever fails.
LEMMA CancelInvariant == Spec => []CancelInv
<1>1. Init => CancelInv
  BY Initially
<1>2. CancelInv /\ [Next]_vars => CancelInv'
  <2> SUFFICES ASSUME CancelInv, [Next]_vars PROVE CancelInv'
    OBVIOUS
  <2>1. Queued /\ Heard /\ Asking /\ Flags /\ spent \in 0 .. MaxSpent
    BY DEF CancelInv, TypeOK, Queued, Heard, Asking, Flags
  <2>2. Queued' /\ Heard' /\ Asking' /\ Flags' /\ spent' \in 0 .. MaxSpent
    BY <2>1, QueuedStep, HeardStep, AskingStep, FlagsStep, SpentStep
  <2>3. TypeOK' /\ Trying'
    BY <2>2 DEF TypeOK, Queued, Heard, Asking, Flags
  <2>4. Sealed' /\ Asked' /\ Holding'
    BY <2>1, SealedStep, AskedStep, HoldingStep DEF CancelInv
  <2> QED
    BY <2>3, <2>4 DEF CancelInv
<1> QED
  BY <1>1, <1>2, PTL DEF Spec

\* Only a job in the queue is taken.
LEMMA Taking == Queued /\ [Next]_vars /\ job # "active" /\ job' = "active" => job \in QueuedStates
<1> SUFFICES ASSUME Queued, [Next]_vars, job # "active", job' = "active" PROVE job \in QueuedStates
  OBVIOUS
<1> USE DEF Queued, queue, pickup, QueuedStates, Ends
<1>1. CASE Take
  BY <1>1 DEF Take
<1>2. CASE Worker /\ ~Take
  BY <1>2 DEF Worker, Rehold, Through, OwnAbort, TickRead, TickRaise, TickAck, TickConsume, StopPoll,
     PollOver, Returns, Fails, Retries, GoBack, AnswerPending, ConsumePending, End
<1>3. CASE Die \/ Lapse \/ UNCHANGED vars
  BY <1>3 DEF Die, Lapse, vars
<1>4. ASSUME NEW o \in Ops, Begin(o) \/ Cancel(o) PROVE FALSE
  BY <1>4 DEF Begin, Cancel, Look, LookHeld, Unhold, ReadBack, DropLease, RemoveHeld, Remove, Ask,
     PollAck, GiveUp, Reread, Withdraw
<1> QED
  BY <1>1, <1>2, <1>3, <1>4 DEF Next

\* A job whose cancel a worker acknowledged is never taken again, while no worker dies
\* and none aborted it before (index.mjs, the error handler; processor.mjs, the poll
\* stopped before the outcome): whoever asks, and however often calls fail.
THEOREM NeverAgainHolds == Spec => NeverAgain
<1>1. CancelInv /\ [Next]_vars
        => [acked /\ happened \cap {"deaths", "timer"} = {} => ~(job # "active" /\ job' = "active")]_vars
  <2> SUFFICES ASSUME CancelInv, [Next]_vars, acked, Calm, job # "active", job' = "active" PROVE FALSE
    BY DEF Calm
  <2>1. Doomed
    BY DEF CancelInv, Sealed
  <2>2. job \in Ends \cup {"removed"}
    BY <2>1 DEF Doomed
  <2>3. job \in QueuedStates
    BY Taking DEF CancelInv, TypeOK, Queued
  <2> QED
    BY <2>2, <2>3 DEF QueuedStates, Ends
<1> QED
  BY <1>1, CancelInvariant, PTL DEF Spec, NeverAgain

\* What a requester is told is so: an accepted cancel is in the run record once the job
\* has ended, "nothing was changed" has changed nothing, and a held job removed leaves
\* neither hold nor lease (cancel.mjs, cancel-cli.mjs, wait-hold.mjs).
THEOREM CancelAnswersHold == Spec => []CancelAnswersTrue
<1>1. CancelInv => CancelAnswersTrue
  <2> SUFFICES ASSUME CancelInv PROVE CancelAnswersTrue
    OBVIOUS
  <2> USE DEF CancelInv
  <2>1. AcceptedIsRecorded
    BY DEF AcceptedIsRecorded, Recorded, Calm, Sealed, Asked, Doomed, Ends
  <2>2. NothingChanged
    BY DEF NothingChanged, Asked, Informed, Holding, Taken
  <2>3. RemovedLeavesNothing
    BY DEF RemovedLeavesNothing, Holding, Clean
  <2> QED
    BY <2>1, <2>2, <2>3 DEF CancelAnswersTrue
<1> QED
  BY <1>1, CancelInvariant, PTL

\* Every key, every answer and every count of the cancel keeps its values, the attempts among them.
THEOREM CancelTypeHolds == Spec => []TypeOK
<1>1. CancelInv => TypeOK
  BY DEF CancelInv
<1> QED
  BY <1>1, CancelInvariant, PTL
=============================================================================
