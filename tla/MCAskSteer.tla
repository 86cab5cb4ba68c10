----------------------------- MODULE MCAskSteer -----------------------------
(* Two parts that share no state, one of them at work in a behaviour: a job    *)
(* held on an approval (the constants of the cfg: a job asks, two comments     *)
(* answer, the second under a rule with other gates, and the first may ask     *)
(* again), and the inbox, three instances of SteerInbox: two comments and one  *)
(* fault (the constants of the cfg), one comment and an operator's message     *)
(* through a crash, a fault and a lapse with room for one message, and one     *)
(* comment delivered twice beside a run with two attempts and a console retry. *)
EXTENDS Approval

CONSTANTS
  j0, r0, c1, c2, o1, NoRun,
  Comments, Ops, Armed, Resumable, Withdrawable, Limit, MaxMessages, MaxFallbacks, MaxDeliveries,
  MaxRetries, MaxFaults, MaxCrashes, MaxLapses   \* as in SteerInbox
VARIABLES part,
  job, pickups, recovered, list, mark, closed, open, fallback, reached, relay, disk, session, acks,
  settle, window, rcv, deliveries, marker, log, answers, used, scenario

ASSUME AskAssumption == ApprovalAssumption

\* Pickups of a run: the first run's twice in the last two instances.
Once == [r \in {r0, c1, c2} |-> 1]
FirstTwice == [r \in {r0, c1} |-> IF r = r0 THEN 2 ELSE 1]
Two == INSTANCE SteerInbox WITH First <- r0, tries <- pickups, spent <- used
Crashes == INSTANCE SteerInbox WITH
  First <- r0, Comments <- {c1}, Ops <- {o1}, Armed <- {r0}, Resumable <- {c1},
  Withdrawable <- {c1}, Limit <- FirstTwice, MaxMessages <- 1, MaxFallbacks <- 1,
  MaxFaults <- 1, MaxCrashes <- 1, MaxLapses <- 1, tries <- pickups, spent <- used
Again == INSTANCE SteerInbox WITH
  First <- r0, Comments <- {c1}, Ops <- {}, Armed <- {r0}, Resumable <- {c1},
  Withdrawable <- {}, Limit <- FirstTwice, MaxMessages <- 2, MaxFallbacks <- 2,
  MaxDeliveries <- 2, MaxRetries <- 1, MaxFaults <- 0, MaxCrashes <- 0, MaxLapses <- 0,
  tries <- pickups, spent <- used

inbox == <<job, pickups, recovered, list, mark, closed, open, fallback, reached, relay, disk,
           session, acks, settle, window, rcv, deliveries, marker, log, answers, used>>
all == <<part, scenario, vars, inbox>>

InboxInit ==
  \/ scenario = "two" /\ Two!Init
  \/ scenario = "crashes" /\ Crashes!Init
  \/ scenario = "again" /\ Again!Init
InboxNext ==
  \/ scenario = "two" /\ Two!Next
  \/ scenario = "crashes" /\ Crashes!Next
  \/ scenario = "again" /\ Again!Next
PartsInit ==
  /\ Init /\ InboxInit
  /\ part = "inbox" \/ (part = "ask" /\ scenario = "two")
PartsNext ==
  /\ UNCHANGED <<part, scenario>>
  /\ \/ part = "ask" /\ Next /\ UNCHANGED inbox
     \/ part = "inbox" /\ InboxNext /\ UNCHANGED vars
PartsSpec == PartsInit /\ [][PartsNext]_all

-----------------------------------------------------------------------------
(* The properties of SteerInbox, of each of its instances.  OneContinuation    *)
(* and DecisionIsActedOn are Approval's own.                                   *)

Of(two, crashes, again) ==
  part = "inbox" =>
    CASE scenario = "two" -> two [] scenario = "crashes" -> crashes [] scenario = "again" -> again

OneLife == used.crashes + used.lapses + used.retries = 0
Undisturbed == used.faults + used.crashes + used.lapses = 0

\* See Approval and SteerInbox: the values of every key, and the cap on an inbox.
TypesOK == TypeOK /\ Of(Two!TypeOK, Crashes!TypeOK, Again!TypeOK)
\* See SteerInbox: what a run accepted meets its fate (no command fails, no
\* worker dies, no inbox lapses); and where no worker dies, no key lapses and
\* nobody retries by hand, that is one answer or one job of a comment delivered
\* once, for which a pushed comment has its fallback job.
MessageEnds ==
  /\ Undisturbed => Of(Two!NeverNeither, Crashes!NeverNeither, Again!NeverNeither)
  /\ OneLife => /\ Of(Two!OneEnd, Crashes!OneEnd, TRUE)
                /\ Of(Two!PushedHasFallback, Crashes!PushedHasFallback, Again!PushedHasFallback)
\* See SteerInbox: what is withdrawn in time is seen by nobody, and what is
\* called delivered is in this attempt's transcript.
SaidIsTrue ==
  Of(Two!PromiseKept /\ Two!DeliveredHere, Crashes!PromiseKept /\ Crashes!DeliveredHere,
     Again!PromiseKept /\ Again!DeliveredHere)
\* See SteerInbox: the window swallows no comment while its run is open, and a
\* retried run opens without the earlier one's messages.
RunIsReachable ==
  /\ Undisturbed => Of(Two!WindowMeansReachable, Crashes!WindowMeansReachable,
                       Again!WindowMeansReachable)
  /\ Of(Two!RetryStartsEmpty, Crashes!RetryStartsEmpty, Again!RetryStartsEmpty)
\* See SteerInbox: a second delivery starts no job beside the run that accepted.
NeverEnqueuedBeside ==
  [][part = "inbox" /\ scenario = "again" /\ Again!StartsByReceiver(c1) =>
       \A r \in {r0, c1} : ~Again!Took(r, c1)]_all
=============================================================================
