----------------------------- MODULE MCArrivals -----------------------------
(* What arrives from a forge, one of two parts that share no state: replies to *)
(* a run that parks (HeldReplies, the constants of the cfg), and the poller's  *)
(* cycles, the four instances of Poller that MCPoller puts together.           *)
EXTENDS HeldReplies

CONSTANTS r0, c1, c2, c3, None
VARIABLES part,
  events, comments, pulls, heads, reviews, clock, moves, cursor, armed, snapshot, etag, etagOf,
  attempts, at, todo, pullsInHand, top, jobs, before, passed, owed, fetched, quiet, clean,
  broken, happened, feed

\* The first run may be tried twice, a comment's job once.
MCAttempts == [r \in Runs |-> IF r = r0 THEN 2 ELSE 1]
\* The comment with the phrase may be delivered twice.
MCDeliveries == [c \in Comments |-> IF c = c1 THEN 2 ELSE 1]

Polled == INSTANCE MCPoller WITH
  EventKinds <- {"label", "close", "other"}, Pulls <- {}, PageSize <- 1, EventPages <- 2,
  PullPages <- 1, GateAttempts <- 2, MaxEvents <- 3, MaxComments <- 0, MaxPushes <- 1,
  MaxReviews <- 0, MaxClock <- 1, MaxMoves <- 0, Disturbances <- {"breaks", "unclear"},
  MaxSpent <- 2, open <- pullsInHand, spent <- broken

polled == <<events, comments, pulls, heads, reviews, clock, moves, cursor, armed, snapshot, etag,
            etagOf, attempts, at, todo, pullsInHand, top, jobs, before, passed, owed, fetched,
            quiet, clean, broken, happened, feed>>
all == <<part, polled, vars>>

MCInit ==
  \/ part = "held" /\ Init /\ feed = "events" /\ Polled!MCInit
  \/ part = "polled" /\ Init /\ Polled!MCInit
MCNext ==
  /\ part' = part
  /\ \/ part = "held" /\ Next /\ UNCHANGED polled
     \/ part = "polled" /\ Polled!MCNext /\ UNCHANGED vars
MCSpec == MCInit /\ [][MCNext]_all

-----------------------------------------------------------------------------
\* See HeldReplies and Poller: the values of the keys, the lists within their
\* bounds.
TypesOK == IF part = "held" THEN TypeOK ELSE Polled!EachTypeOK
\* See Poller: arming replays nothing.
ArmedWithoutReplay == part = "polled" => Polled!EachArmedWithoutReplay
\* See Poller: no cursor, snapshot or whole cycle passes an item that is not done
\* with.
NothingPassedOver ==
  part = "polled" => /\ Polled!EachEventsNotSkipped
                     /\ Polled!EachCommentsNotSkipped
                     /\ Polled!EachSnapshotIsFired
                     /\ Polled!EachCaughtUp
=============================================================================
