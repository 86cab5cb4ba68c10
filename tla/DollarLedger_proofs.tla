------------------------- MODULE DollarLedger_proofs -------------------------
(* Proofs about DollarLedger: the run's ledger licenses one settlement per hold. *)
EXTENDS DollarLedger, TLAPS

\* The fields of an attempt's locals, and the run ledger's numbers.
Shape ==
  /\ DOMAIN at = Attempts /\ \A a \in Attempts : DOMAIN at[a] = DOMAIN Idle
  /\ seq \in [Runs -> Nat] /\ DOMAIN ledger = Attempts

\* No attempt has a number its run has not given out, and a run that is not
\* armed gives none out.
Numbered ==
  /\ \A a \in Attempts : at[a].seq \in Nat /\ at[a].seq <= seq[RunOf[a]]
  /\ \A r \in Runs \ Armed : seq[r] = 0

\* Attempts of one run have different numbers.
Apart ==
  \A a, b \in Attempts :
    a # b /\ RunOf[a] = RunOf[b] /\ at[a].seq > 0 => at[a].seq # at[b].seq

\* A hold is recorded once it is admitted, and moves keys only after its number
\* is closed: from then on no recovery finds it held.
Early == {"idle", "close", "reserve", "giveback", "hold"}
Closing(a) == IF at[a].releasing THEN "released" ELSE "settled"
Ordered ==
  \A a \in Attempts :
    /\ at[a].phase \in Early => ~at[a].recorded
    /\ at[a].phase \in Early \cup {"run", "ended"} => at[a].moved = {}
    /\ at[a].recorded /\ (at[a].phase = "move" \/ at[a].moved # {}) => ledger[a] = Closing(a)

\* The inductive invariant of HoldsCloseOnce.
CloseInv == Shape /\ Numbered /\ Apart /\ Ordered

LEMMA CloseInit == ASSUME LedgerAssumption PROVE Init => CloseInv
  BY DEF LedgerAssumption, Init, CloseInv, Shape, Numbered, Apart, Ordered, Idle, Early, Closing

-----------------------------------------------------------------------------
(* Most steps move one attempt on and leave its number, its hold and what it   *)
(* moved as they were.                                                         *)

Onward ==
  /\ Shape' /\ UNCHANGED <<seq, ledger>>
  /\ \A b \in Attempts :
       /\ at'[b].seq = at[b].seq /\ at'[b].recorded = at[b].recorded
       /\ at'[b].moved = at[b].moved
       /\ at'[b].phase \in Early => at[b].phase \in Early
       /\ at'[b].phase \in {"run", "ended"} => at[b].phase \in Early \cup {"run", "ended"}
       /\ at'[b].phase = "move" => at[b].phase = "move"
       /\ at'[b].moved # {} \/ at'[b].phase = "move" => at'[b].releasing = at[b].releasing

LEMMA OnwardKeeps == CloseInv /\ Onward => CloseInv'
<1> SUFFICES ASSUME CloseInv, Onward PROVE CloseInv'
  OBVIOUS
<1>1. Numbered' /\ Apart'
  BY DEF CloseInv, Onward, Numbered, Apart
<1>2. Ordered'
  BY DEF CloseInv, Onward, Ordered, Early, Closing
<1> QED
  BY <1>1, <1>2 DEF CloseInv, Onward

LEMMA ReservingKeeps ==
  ASSUME CloseInv, NEW a \in Attempts,
         Reserve(a) \/ ReserveFails(a) \/ GiveBack(a) \/ GivenBack(a)
  PROVE  CloseInv'
<1>1. CASE Reserve(a)
  <2> PICK keys, granted, todo :
        \E phase \in {"giveback", "hold", "reserve"} :
          at' = [at EXCEPT ![a] = [@ EXCEPT !.keys = keys, !.granted = granted,
                                            !.todo = todo, !.phase = phase]]
    BY <1>1 DEF Reserve
  <2> at[a].phase = "reserve" /\ UNCHANGED <<seq, ledger>>
    BY <1>1 DEF Reserve, In
  <2> QED
    BY OnwardKeeps DEF CloseInv, Shape, Ordered, Onward, Idle, Early
<1>2. CASE ReserveFails(a)
  <2> PICK touched :
        at' = [at EXCEPT ![a] = [@ EXCEPT !.phase = "giveback", !.keys = touched, !.todo = touched]]
    BY <1>2 DEF ReserveFails
  <2> at[a].phase = "reserve" /\ UNCHANGED <<seq, ledger>>
    BY <1>2 DEF ReserveFails, In
  <2> QED
    BY OnwardKeeps DEF CloseInv, Shape, Ordered, Onward, Idle, Early
<1>3. CASE GiveBack(a)
  BY <1>3, OnwardKeeps DEF CloseInv, Shape, Ordered, Onward, GiveBack, In, Idle, Early
<1>4. CASE GivenBack(a)
  BY <1>4, OnwardKeeps DEF CloseInv, Shape, Ordered, Onward, GivenBack, In, Local, Idle, Early
<1> QED
  BY <1>1, <1>2, <1>3, <1>4

LEMMA RunningKeeps ==
  ASSUME CloseInv, NEW a \in Attempts,
         Exits(a) \/ NeverStarts(a) \/ Throws(a) \/ MoveFails(a) \/ Moved(a) \/ Crash(a)
  PROVE  CloseInv'
<1>1. CASE Exits(a)
  <2> PICK job, model :
        at' = [at EXCEPT ![a] = [@ EXCEPT !.phase = "ended", !.job = job, !.model = model]]
    BY <1>1 DEF Exits
  <2> at[a].phase = "run" /\ UNCHANGED <<seq, ledger>>
    BY <1>1 DEF Exits, In
  <2> QED
    BY OnwardKeeps DEF CloseInv, Shape, Ordered, Onward, Idle, Early
<1>2. CASE NeverStarts(a)
  BY <1>2, OnwardKeeps DEF CloseInv, Shape, Ordered, Onward, NeverStarts, Release, In, Idle, Early
<1>3. CASE Throws(a)
  BY <1>3, OnwardKeeps DEF CloseInv, Shape, Ordered, Onward, Throws, In, Local, Idle, Early
<1>4. CASE MoveFails(a)
  BY <1>4, OnwardKeeps DEF CloseInv, Shape, Ordered, Onward, MoveFails, In, Idle, Early
<1>5. CASE Moved(a)
  BY <1>5, OnwardKeeps DEF CloseInv, Shape, Ordered, Onward, Moved, In, Local, Idle, Early
<1>6. CASE Crash(a)
  BY <1>6, OnwardKeeps DEF CloseInv, Shape, Ordered, Onward, Crash, Idle, Early
<1> QED
  BY <1>1, <1>2, <1>3, <1>4, <1>5, <1>6

-----------------------------------------------------------------------------
(* The steps of the run's ledger.                                              *)

\* nextSeq: a number above those of the run's other attempts.
LEMMA StartKeeps ==
  ASSUME LedgerAssumption, CloseInv, NEW a \in Attempts, Start(a) PROVE CloseInv'
<1> PICK n \in {1, 2} :
      /\ n = 2 => IsArmed(a)
      /\ seq' = IF IsArmed(a) THEN [seq EXCEPT ![RunOf[a]] = @ + n] ELSE seq
  BY DEF Start
<1>0. RunOf \in [Attempts -> Runs] /\ RunOf[a] \in Runs
  BY DEF LedgerAssumption
<1>1. /\ \A b \in Attempts \ {a} : at'[b] = at[b]
      /\ at'[a].seq = seq'[RunOf[a]] /\ at'[a].phase \in {"close", "reserve"}
      /\ at'[a].moved = at[a].moved /\ at'[a].recorded = at[a].recorded
      /\ DOMAIN at' = Attempts /\ DOMAIN at'[a] = DOMAIN Idle
  BY DEF CloseInv, Shape, Start, Idle
<1>2. Shape'
  BY <1>0, <1>1 DEF CloseInv, Shape, Start
<1>3. Numbered'
  BY <1>0, <1>1 DEF CloseInv, Shape, Numbered, IsArmed
<1>4. Apart'
  BY <1>0, <1>1 DEF CloseInv, Shape, Numbered, Apart, IsArmed
<1>5. Ordered'
  BY <1>1 DEF CloseInv, Ordered, Start, In, Early, Closing
<1> QED
  BY <1>2, <1>3, <1>4, <1>5 DEF CloseInv

\* settleCrashed changes holds that are held; a hold that moves is none.
LEMMA CrashedKeeps == ASSUME CloseInv, NEW a \in Attempts, CloseCrashed(a) PROVE CloseInv'
<1>1. /\ \A b \in Attempts : /\ at'[b].seq = at[b].seq /\ at'[b].recorded = at[b].recorded
                             /\ at'[b].moved = at[b].moved /\ at'[b].releasing = at[b].releasing
                             /\ at'[b].phase = IF b = a THEN "reserve" ELSE at[b].phase
      /\ at[a].phase = "close" /\ seq' = seq /\ Shape'
  BY DEF CloseInv, Shape, CloseCrashed, In, Local, Idle, NoFault
<1>2. \A b \in Attempts : ledger[b] # "held" => ledger'[b] = ledger[b]
  BY DEF CloseCrashed, HeldBefore
<1>3. Numbered' /\ Apart'
  BY <1>1 DEF CloseInv, Numbered, Apart
<1>4. Ordered'
  BY <1>1, <1>2 DEF CloseInv, Ordered, Early, Closing
<1> QED
  BY <1>1, <1>3, <1>4 DEF CloseInv

\* recordHold is before the container, and before any key moves.
LEMMA RecordKeeps == ASSUME CloseInv, NEW a \in Attempts, RecordHold(a) PROVE CloseInv'
<1>1. /\ \A b \in Attempts \ {a} : at'[b] = at[b] /\ ledger'[b] = ledger[b]
      /\ at[a].phase = "hold" /\ at'[a].phase \in {"run", "ended"}
      /\ at'[a].seq = at[a].seq /\ at'[a].moved = at[a].moved /\ seq' = seq /\ Shape'
  <2>1. at[a].phase = "hold" /\ seq' = seq
    BY DEF RecordHold, In
  <2>2. \/ at' = [at EXCEPT ![a].phase = "run"]
        \/ at' = [at EXCEPT ![a] = [@ EXCEPT !.phase = "ended", !.releasing = TRUE]]
        \/ at' = [at EXCEPT ![a] = [@ EXCEPT !.phase = "run", !.recorded = TRUE]]
    BY DEF RecordHold, Release, Local
  <2>3. ledger' = ledger \/ ledger' = [ledger EXCEPT ![a] = "held"]
    BY DEF RecordHold
  <2>4. /\ DOMAIN at = Attempts /\ DOMAIN ledger = Attempts /\ seq \in [Runs -> Nat]
        /\ \A b \in Attempts : DOMAIN at[b] = DOMAIN Idle
    BY DEF CloseInv, Shape
  <2>5. \A b \in Attempts \ {a} : at'[b] = at[b] /\ ledger'[b] = ledger[b]
    BY <2>2, <2>3, <2>4
  <2>6. DOMAIN at' = Attempts /\ DOMAIN ledger' = Attempts
    BY <2>2, <2>3, <2>4
  <2>7. /\ at'[a].phase \in {"run", "ended"} /\ DOMAIN at'[a] = DOMAIN Idle
        /\ at'[a].seq = at[a].seq /\ at'[a].moved = at[a].moved
    BY <2>2, <2>4 DEF Idle
  <2>8. Shape'
    BY <2>1, <2>4, <2>5, <2>6, <2>7 DEF Shape
  <2> QED
    BY <2>1, <2>5, <2>7, <2>8
<1>2. Numbered' /\ Apart'
  BY <1>1 DEF CloseInv, Numbered, Apart
<1>3. Ordered'
  BY <1>1 DEF CloseInv, Ordered, Early, Closing
<1> QED
  BY <1>1, <1>2, <1>3 DEF CloseInv

\* The walk begins only with the answer that the number was held.
LEMMA CloseKeeps == ASSUME CloseInv, NEW a \in Attempts, CloseHold(a) PROVE CloseInv'
<1>1. /\ \A b \in Attempts \ {a} : at'[b] = at[b] /\ ledger'[b] = ledger[b]
      /\ at[a].phase = "ended" /\ at'[a].phase \in {"move", "end"}
      /\ at'[a].seq = at[a].seq /\ at'[a].moved = at[a].moved /\ seq' = seq /\ Shape'
      /\ at'[a].releasing = at[a].releasing /\ at'[a].recorded = at[a].recorded
  <2>1. at[a].phase = "ended" /\ seq' = seq
    BY DEF CloseHold, In
  <2>2. \/ at' = [at EXCEPT ![a] = [@ EXCEPT !.phase = "move", !.todo = Walk(a)]]
        \/ at' = [at EXCEPT ![a].phase = "end"]
    BY DEF CloseHold, Local
  <2>3. ledger' = ledger \/ \E x : ledger' = [ledger EXCEPT ![a] = x]
    BY DEF CloseHold
  <2>4. /\ DOMAIN at = Attempts /\ DOMAIN ledger = Attempts /\ seq \in [Runs -> Nat]
        /\ \A b \in Attempts : DOMAIN at[b] = DOMAIN Idle
    BY DEF CloseInv, Shape
  <2>5. \A b \in Attempts \ {a} : at'[b] = at[b] /\ ledger'[b] = ledger[b]
    BY <2>2, <2>3, <2>4
  <2>6. DOMAIN at' = Attempts /\ DOMAIN ledger' = Attempts
    BY <2>2, <2>3, <2>4
  <2>7. /\ at'[a].phase \in {"move", "end"} /\ DOMAIN at'[a] = DOMAIN Idle
        /\ at'[a].seq = at[a].seq /\ at'[a].moved = at[a].moved
        /\ at'[a].releasing = at[a].releasing /\ at'[a].recorded = at[a].recorded
    BY <2>2, <2>4 DEF Idle
  <2>8. Shape'
    BY <2>1, <2>4, <2>5, <2>6, <2>7 DEF Shape
  <2> QED
    BY <2>1, <2>5, <2>7, <2>8
<1>2. at'[a].phase = "move" /\ at[a].recorded => ledger'[a] = Closing(a)
  BY DEF CloseInv, Shape, CloseHold, Moves, MoveScript, In, Local, Idle, Closing
<1>3. Numbered' /\ Apart'
  BY <1>1 DEF CloseInv, Numbered, Apart
<1>4. Ordered'
  BY <1>1, <1>2 DEF CloseInv, Ordered, Early, Closing
<1> QED
  BY <1>1, <1>3, <1>4 DEF CloseInv

LEMMA MoveKeeps == ASSUME CloseInv, NEW a \in Attempts, Move(a) PROVE CloseInv'
<1>1. /\ \A b \in Attempts \ {a} : at'[b] = at[b]
      /\ at[a].phase = "move" /\ at'[a].phase = "move"
      /\ at'[a].seq = at[a].seq /\ seq' = seq /\ ledger' = ledger /\ Shape'
      /\ at'[a].releasing = at[a].releasing /\ at'[a].recorded = at[a].recorded
  BY DEF CloseInv, Shape, Move, In, Idle
<1>2. Numbered' /\ Apart'
  BY <1>1 DEF CloseInv, Numbered, Apart
<1>3. Ordered'
  BY <1>1 DEF CloseInv, Ordered, Early, Closing
<1> QED
  BY <1>1, <1>2, <1>3 DEF CloseInv

LEMMA CloseStep == ASSUME LedgerAssumption PROVE CloseInv /\ [Next]_vars => CloseInv'
<1> SUFFICES ASSUME CloseInv, [Next]_vars PROVE CloseInv'
  OBVIOUS
<1>1. ASSUME NEW a \in Attempts, AttemptStep(a) PROVE CloseInv'
  BY <1>1, ReservingKeeps, RunningKeeps, StartKeeps, CrashedKeeps, RecordKeeps, CloseKeeps,
     MoveKeeps DEF AttemptStep
<1>2. ASSUME Midnight \/ \E k \in Key : Evict(k) PROVE CloseInv'
  BY <1>2
  DEF CloseInv, Shape, Numbered, Apart, Ordered, Closing, Midnight, Evict
<1>3. CASE UNCHANGED vars
  BY <1>3 DEF CloseInv, Shape, Numbered, Apart, Ordered, Closing, vars
<1> QED
  BY <1>1, <1>2, <1>3 DEF Next

\* The run's ledger (run-budget-ledger.mjs) gives no number twice and licenses one
\* settlement of a hold: a hold that moved a key of a window is settled or released
\* there, and one a recovery closed as crashed has moved none, for any runs,
\* attempts, windows, faults, resends and deaths.
THEOREM HoldsCloseOnceHolds == ASSUME LedgerAssumption PROVE Spec => []HoldsCloseOnce
<1>1. CloseInv => HoldsCloseOnce
  BY DEF CloseInv, Apart, Ordered, Closing, HoldsCloseOnce
<1> QED
  BY <1>1, CloseInit, CloseStep, PTL DEF Spec
=============================================================================
