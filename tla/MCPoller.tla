------------------------------ MODULE MCPoller ------------------------------
(* Four instances of Poller side by side: of events of every kind, more than   *)
(* the pages reach (the constants); of comments, more than a page; of pull     *)
(* requests, more than all pages; of pull requests and their reviews.          *)
EXTENDS Poller

VARIABLE feed

OfComments == INSTANCE Poller WITH
  EventKinds <- {}, MaxEvents <- 0, PageSize <- 2, MaxComments <- 3, MaxClock <- 3, MaxMoves <- 1,
  MaxSpent <- 1
OfPulls == INSTANCE Poller WITH
  EventKinds <- {}, MaxEvents <- 0, Pulls <- 1 .. 3, PageSize <- 1, PullPages <- 2,
  MaxPushes <- 2, MaxMoves <- 3, MaxSpent <- 1
OfReviews == INSTANCE Poller WITH
  EventKinds <- {}, MaxEvents <- 0, Pulls <- 1 .. 2, PageSize <- 2, PullPages <- 1,
  MaxMoves <- 2, MaxReviews <- 2, MaxSpent <- 1

MCInit ==
  \/ feed = "events" /\ Init
  \/ feed = "comments" /\ OfComments!Init
  \/ feed = "pulls" /\ OfPulls!Init
  \/ feed = "reviews" /\ OfReviews!Init
MCNext ==
  /\ feed' = feed
  /\ \/ feed = "events" /\ Next
     \/ feed = "comments" /\ OfComments!Next
     \/ feed = "pulls" /\ OfPulls!Next
     \/ feed = "reviews" /\ OfReviews!Next
MCSpec == MCInit /\ [][MCNext]_<<vars, feed>>

-----------------------------------------------------------------------------
(* The properties of Poller, of each instance. *)

Of(ofEvents, ofComments, ofPulls, ofReviews) ==
  CASE feed = "events" -> ofEvents [] feed = "comments" -> ofComments
    [] feed = "pulls" -> ofPulls [] feed = "reviews" -> ofReviews

\* See Poller: the values of the keys, the lists within their bounds.
EachTypeOK == Of(TypeOK, OfComments!TypeOK, OfPulls!TypeOK, OfReviews!TypeOK)
\* See Poller: arming replays nothing.
EachArmedWithoutReplay ==
  Of(ArmedWithoutReplay, OfComments!ArmedWithoutReplay, OfPulls!ArmedWithoutReplay,
     OfReviews!ArmedWithoutReplay)
\* See Poller: the cursor passes no event that is not done with.
EachEventsNotSkipped == feed = "events" => EventsNotSkipped
\* See Poller: the cursor passes no comment without a job.
EachCommentsNotSkipped == feed = "comments" => OfComments!CommentsNotSkipped
\* See Poller: the snapshot knows a head only when its job is enqueued.
EachSnapshotIsFired ==
  Of(TRUE, TRUE, OfPulls!SnapshotIsFired, OfReviews!SnapshotIsFired)
\* See Poller: a cycle that runs through leaves nothing behind.
EachCaughtUp == Of(CaughtUp, OfComments!CaughtUp, OfPulls!CaughtUp, OfReviews!CaughtUp)
=============================================================================
