-------------------------------- MODULE Poller --------------------------------
(***************************************************************************)
(* The poller of one repository: cycle after cycle it reads four feeds of  *)
(* the forge, one after another, and enqueues a job for what is new.  Each *)
(* feed has a cursor in Valkey, armed at first without a job, and for each *)
(* list the validator of its last answer; a list that has not changed is   *)
(* not answered.  A cycle that breaks off keeps what it has written.       *)
(*                                                                         *)
(* Every item passes the filter but the events of kind "other".  Time is   *)
(* in the seconds of the forge's timestamps.                               *)
(***************************************************************************)
EXTENDS Naturals, Sequences, FiniteSets, SequencesExt, FiniteSetsExt

CONSTANTS
  EventKinds,       \* the kinds of event the forge makes: "label", "close", "other"
  Pulls,            \* numbers of pull requests
  None,
  PageSize,         \* items of a page, 100 in the code
  EventPages,       \* MAX_EVENT_PAGES
  PullPages,        \* MAX_PR_PAGES
  GateAttempts,     \* CLOSE_GATE_MAX_ATTEMPTS
  MaxEvents, MaxComments, MaxPushes, MaxReviews,  \* what the forge makes (bounds)
  MaxClock,         \* time (bound)
  MaxMoves,         \* openings, closings, pushes and edits in all (bound)
  Disturbances,     \* "breaks": a cycle breaks off; "unclear": a closer's standing is not known
  MaxSpent          \* disturbances in all (bound)

VARIABLES
  events,    \* the forge: the kinds of its events, by id
  comments,  \* its comments, by id: when created, when last updated
  pulls,     \* its open pull requests with their heads, the longest untouched first
  heads,     \* heads[p]: the last head of p, 0 if it was never opened
  reviews,   \* its reviews, by id: of which pull request
  clock, moves,
  cursor,    \* cursor[f]: the cursor of feed f, or None
  armed,     \* poll:<repo>:cursor:prs
  snapshot,  \* poll:<repo>:prs: the head of each pull request, Closed, or None
  etag,      \* etag[f]: the validator of feed f's list
  etagOf,    \* etagOf[p]: of the reviews of p
  attempts,  \* attempts[e]: the close-gate counter of event e
  at,        \* how far the cycle is
  todo,      \* the items of the list in hand
  open,      \* the pull requests in hand
  top,       \* the cursor to be written; the page to be read
  jobs,      \* the items that have a job
  before,    \* items seen by a feed that was not armed, for the properties
  passed,    \* items given up, refused, or out of reach, for the properties
  owed,      \* items in hand when their cycle broke off, for the properties
  fetched,   \* when the comments were last read, for the properties
  quiet,     \* the forge has rested since the cycle began, for the properties
  clean,     \* the last cycle has not broken off, for the properties
  spent, happened

forge == <<events, comments, pulls, heads, reviews, clock, moves>>
valkey == <<cursor, armed, snapshot, etag, etagOf, attempts>>
hand == <<todo, open, top>>
seen == <<before, passed, fetched>>
luck == <<owed, quiet, clean, spent, happened>>
vars == <<forge, valkey, at, hand, jobs, seen, luck>>

\* CLOSED_MARKER, which is no head.
Closed == 0
Feeds == {"events", "comments", "reviews"}
Lists == {"events", "comments", "pulls"}
Event(e) == <<"e", e>>
Comment(c) == <<"c", c>>
Pull(p, sha) == <<"p", p, sha>>
Review(r) == <<"r", r>>
FirstOf(s, n) == SubSeq(s, 1, IF n < Len(s) THEN n ELSE Len(s))
Can(what) == what \in Disturbances /\ spent < MaxSpent
Spend(what) == Can(what) /\ spent' = spent + 1 /\ happened' = happened \cup {what}

Init ==
  /\ events = <<>> /\ comments = <<>> /\ pulls = <<>> /\ reviews = <<>>
  /\ heads = [p \in Pulls |-> 0]
  /\ clock = 1 /\ moves = 0
  /\ cursor = [f \in Feeds |-> None] /\ armed = FALSE
  /\ snapshot = [p \in Pulls |-> None]
  /\ etag = [f \in Lists |-> None] /\ etagOf = [p \in Pulls |-> None]
  /\ attempts = [e \in 1 .. MaxEvents |-> 0]
  /\ at = "rest" /\ todo = <<>> /\ open = <<>> /\ top = 0
  /\ jobs = {} /\ before = {} /\ passed = {} /\ owed = {}
  /\ fetched = 0 /\ quiet = FALSE /\ clean = FALSE
  /\ spent = 0 /\ happened = {}

-----------------------------------------------------------------------------
(* The forge. *)

Moves == moves < MaxMoves /\ moves' = moves + 1
Rests == UNCHANGED <<valkey, at, hand, jobs, before, fetched, owed, clean, spent, happened>>
Stirs == quiet' = FALSE /\ Rests

MakesEvent ==
  /\ Len(events) < MaxEvents /\ \E k \in EventKinds : events' = Append(events, k)
  /\ UNCHANGED <<comments, pulls, heads, reviews, clock, moves, passed>> /\ Stirs

\* A comment in the second in which the list was read, and after, is not seen:
\* the code's own words for it are "one-second blindness".
MakesComment ==
  /\ Len(comments) < MaxComments
  /\ comments' = Append(comments, [created |-> clock, updated |-> clock])
  /\ passed' = IF fetched = clock THEN passed \cup {Comment(Len(comments'))} ELSE passed
  /\ UNCHANGED <<events, pulls, heads, reviews, clock, moves>> /\ Stirs

EditsComment ==
  /\ Moves
  /\ \E c \in 1 .. Len(comments) : /\ comments[c].updated < clock
                                   /\ comments' = [comments EXCEPT ![c].updated = clock]
  /\ UNCHANGED <<events, pulls, heads, reviews, clock, passed>> /\ Stirs

ReviewsOf(p) == {r \in 1 .. Len(reviews) : reviews[r] = p}
OpenNow(p) == \E i \in 1 .. Len(pulls) : pulls[i].pr = p
Others(p) == SelectSeq(pulls, LAMBDA x : x.pr # p)
Touched(p, sha) == Append(Others(p), [pr |-> p, sha |-> sha])

\* A list that moves between two of its pages hides a pull request from the diff.
Slipped(list) == IF at = "pages" THEN {Pull(x.pr, x.sha) : x \in ToSet(list)} ELSE {}
\* Opened, reopened at its last head, pushed to, or touched by anything else.
MovesPull ==
  /\ Moves
  /\ \E p \in Pulls, pushed \in BOOLEAN :
       LET sha == heads[p] + (IF pushed THEN 1 ELSE 0) IN
       /\ sha \in 1 .. MaxPushes
       /\ heads' = [heads EXCEPT ![p] = sha]
       /\ pulls' = Touched(p, sha)
  /\ passed' = passed \cup Slipped(pulls')
  /\ UNCHANGED <<events, comments, reviews, clock>> /\ Stirs

\* What is closed may be reopened at the same head; its reviews are not looked for.
ClosesPull ==
  /\ Moves
  /\ \E p \in Pulls :
       /\ OpenNow(p) /\ pulls' = Others(p)
       /\ passed' = passed \cup {Review(r) : r \in ReviewsOf(p)} \cup {Pull(p, heads[p])}
                           \cup Slipped(pulls)
  /\ UNCHANGED <<events, comments, heads, reviews, clock>> /\ Stirs

Sweeping == at \in {"pages", "pull", "note", "reviews", "review"}
\* A review, which may or may not touch its pull request.  One that comes in the
\* middle of a sweep can be overtaken by the cursor.
MakesReview ==
  /\ Len(reviews) < MaxReviews
  /\ \E i \in 1 .. Len(pulls) :
       /\ reviews' = Append(reviews, pulls[i].pr)
       /\ pulls' \in {pulls, Touched(pulls[i].pr, pulls[i].sha)}
  /\ passed' = passed \cup (IF Sweeping THEN {Review(Len(reviews'))} ELSE {})
                      \cup (IF pulls' # pulls THEN Slipped(pulls) ELSE {})
  /\ UNCHANGED <<events, comments, heads, clock, moves>> /\ Stirs

Tick ==
  /\ clock < MaxClock /\ clock' = clock + 1
  /\ UNCHANGED <<events, comments, pulls, heads, reviews, moves, passed, quiet>> /\ Rests

-----------------------------------------------------------------------------
(* A cycle, and the end of one that breaks off. *)

Begins ==
  /\ at = "rest" /\ at' = "events" /\ quiet' = TRUE /\ clean' = TRUE
  /\ UNCHANGED <<forge, valkey, hand, jobs, seen, owed, spent, happened>>

Wanted(e) == events[e] # "other"
\* The items in hand that are still to be handled.
InHand ==
  CASE at \in {"event", "advance"} -> {Event(e) : e \in {x \in ToSet(todo) : Wanted(x)}}
    [] at = "comment" -> {Comment(x.id) : x \in {y \in ToSet(todo) : y.created > cursor["comments"]}}
    [] at \in {"pull", "note"} /\ armed ->
         {Pull(x.pr, x.sha) : x \in {y \in ToSet(todo) : snapshot[y.pr] # y.sha}}
    [] at = "review" -> {Review(r) : r \in ToSet(todo)}
    [] OTHER -> {}

\* A request, a command or an enqueue that fails, an exhausted quota, or the
\* process's death: the rest of the cycle is not run.  What fails about a close
\* ends its feed alone.
Breaks ==
  /\ at # "rest" /\ Spend("breaks") /\ clean' = FALSE
  /\ at' \in {"rest"} \cup (IF at = "event" /\ events[Head(todo)] = "close" THEN {"comments"} ELSE {})
  /\ owed' = owed \cup (InHand \ jobs)
  /\ todo' = <<>> /\ open' = <<>> /\ top' = 0
  /\ UNCHANGED <<forge, valkey, jobs, seen, quiet>>

Calm == UNCHANGED <<owed, quiet, clean, spent, happened>>
Enqueued(item) == jobs' = jobs \cup {item}

-----------------------------------------------------------------------------
(* `pollLabelEvents`. *)

\* The newest first; the validator is known by the newest id.
FetchEvents ==
  /\ at = "events"
  /\ LET armedNow == cursor["events"] # None
         newest == Len(events)
         oldest == Max({1} \cup (IF newest > EventPages * PageSize
                                 THEN {newest - EventPages * PageSize + 1} ELSE {}))
         fresh == {e \in oldest .. newest : e > cursor["events"]} IN
     IF armedNow /\ etag["events"] = newest
     THEN at' = "comments" /\ UNCHANGED <<etag, todo, top, before, passed>>
     ELSE /\ etag' = [etag EXCEPT !["events"] = newest]
          /\ IF armedNow
             THEN /\ todo' = SetToSortSeq(fresh, LAMBDA a, b : a < b)
                  /\ at' = (IF fresh = {} THEN "comments" ELSE "event")
                  /\ passed' = passed \cup {Event(e) : e \in {x \in 1 .. oldest - 1 :
                                                               x > cursor["events"]}}
                  /\ UNCHANGED <<top, before>>
             ELSE /\ todo' = <<>> /\ top' = newest /\ at' = "advance"
                  /\ before' = before \cup {Event(e) : e \in 1 .. newest}
                  /\ UNCHANGED passed
  /\ UNCHANGED <<forge, cursor, armed, snapshot, etagOf, attempts, open, jobs, fetched>> /\ Calm

Handled == at' = "advance" /\ top' = Head(todo) /\ todo' = Tail(todo)

HandleEvent ==
  /\ at = "event" /\ events[Head(todo)] # "close" /\ Handled
  /\ IF events[Head(todo)] = "label" THEN Enqueued(Event(Head(todo))) ELSE UNCHANGED jobs
  /\ UNCHANGED <<forge, valkey, open, seen>> /\ Calm

\* A close, whose closer is authorized or not.
HandleClose ==
  /\ at = "event" /\ events[Head(todo)] = "close" /\ Handled
  /\ \/ Enqueued(Event(Head(todo))) /\ UNCHANGED passed
     \/ passed' = passed \cup {Event(Head(todo))} /\ UNCHANGED jobs
  /\ UNCHANGED <<forge, valkey, open, before, fetched>> /\ Calm

\* The lookup has no answer: this feed alone ends for the cycle, until the
\* attempts are used up and the close is dropped.
CloseUnclear ==
  /\ at = "event" /\ events[Head(todo)] = "close" /\ Spend("unclear")
  /\ attempts' = [attempts EXCEPT ![Head(todo)] = @ + 1]
  /\ IF attempts'[Head(todo)] < GateAttempts
     THEN /\ at' = "comments" /\ todo' = <<>> /\ top' = 0
          /\ owed' = owed \cup (InHand \ jobs)
          /\ UNCHANGED passed
     ELSE /\ Handled /\ passed' = passed \cup {Event(Head(todo))}
          /\ UNCHANGED owed
  /\ clean' = FALSE
  /\ UNCHANGED <<forge, cursor, armed, snapshot, etag, etagOf, open, jobs, before, fetched, quiet>>

\* Mutant: the cursor goes to the end of the list.
AdvanceToLast ==
  /\ at = "advance"
  /\ cursor' = [cursor EXCEPT !["events"] = IF todo = <<>> THEN top ELSE Last(todo)]
  /\ at' = (IF todo = <<>> THEN "comments" ELSE "event")
  /\ UNCHANGED <<forge, armed, snapshot, etag, etagOf, attempts, hand, jobs, seen>> /\ Calm
\* Event by event.
Advance ==
  /\ at = "advance"
  /\ cursor' = [cursor EXCEPT !["events"] = top]
  /\ at' = (IF todo = <<>> THEN "comments" ELSE "event")
  /\ UNCHANGED <<forge, armed, snapshot, etag, etagOf, attempts, hand, jobs, seen>> /\ Calm

-----------------------------------------------------------------------------
(* `pollComments`. *)

Listed(c) == [id |-> c, created |-> comments[c].created, updated |-> comments[c].updated]
\* ?sort=updated&direction=asc&since=<cursor>
SinceCursor ==
  SetToSortSeq({Listed(c) : c \in {x \in 1 .. Len(comments) :
                                     comments[x].updated >= cursor["comments"]}},
               LAMBDA a, b : a.updated < b.updated \/ (a.updated = b.updated /\ a.id < b.id))

\* Armed by the time alone.  What one page cuts off is read in a later cycle,
\* if it was created after all that the page holds.
FetchComments ==
  /\ at = "comments" /\ fetched' = clock
  /\ IF cursor["comments"] = None
     THEN /\ cursor' = [cursor EXCEPT !["comments"] = clock]
          /\ before' = before \cup {Comment(c) : c \in 1 .. Len(comments)}
          /\ at' = "pulls" /\ UNCHANGED <<etag, todo, top, passed>>
     ELSE LET all == SinceCursor
              page == FirstOf(all, PageSize)
              cut == {all[i] : i \in Len(page) + 1 .. Len(all)} IN
          /\ UNCHANGED <<cursor, before>>
          /\ IF etag["comments"] = page
             THEN at' = "pulls" /\ UNCHANGED <<etag, todo, top, passed>>
             ELSE /\ etag' = [etag EXCEPT !["comments"] = page]
                  /\ todo' = page /\ top' = cursor["comments"]
                  /\ at' = "comment"
                  /\ passed' = passed \cup {Comment(x.id) : x \in {y \in cut :
                                                y.created <= page[Len(page)].updated}}
  /\ UNCHANGED <<forge, armed, snapshot, etagOf, attempts, open, jobs>> /\ Calm

NewComment == Head(todo).created > cursor["comments"]
Later(t) == IF Head(todo).updated > t THEN Head(todo).updated ELSE t
\* Mutant: the cursor goes from comment to comment.
HandleCommentPerItem ==
  /\ at = "comment" /\ todo # <<>>
  /\ IF NewComment THEN Enqueued(Comment(Head(todo).id)) ELSE UNCHANGED jobs
  /\ todo' = Tail(todo) /\ top' = Later(top)
  /\ cursor' = [cursor EXCEPT !["comments"] = Later(@)]
  /\ UNCHANGED <<forge, armed, snapshot, etag, etagOf, attempts, at, open, seen>> /\ Calm
\* New is what was created after the cursor; an edit is not.
HandleComment ==
  /\ at = "comment" /\ todo # <<>>
  /\ IF NewComment THEN Enqueued(Comment(Head(todo).id)) ELSE UNCHANGED jobs
  /\ todo' = Tail(todo) /\ top' = Later(top)
  /\ UNCHANGED <<forge, valkey, at, open, seen>> /\ Calm

\* Once, after the list.
AdvanceComments ==
  /\ at = "comment" /\ todo = <<>>
  /\ cursor' = [cursor EXCEPT !["comments"] = top]
  /\ at' = "pulls"
  /\ UNCHANGED <<forge, armed, snapshot, etag, etagOf, attempts, hand, jobs, seen>> /\ Calm

-----------------------------------------------------------------------------
(* `pollPulls`. *)

Page(k) == SubSeq(pulls, (k - 1) * PageSize + 1,
                  IF k * PageSize < Len(pulls) THEN k * PageSize ELSE Len(pulls))
Numbers(list) == [i \in 1 .. Len(list) |-> list[i].pr]
KnownOpen ==
  SetToSortSeq({p \in Pulls : snapshot[p] \notin {None, Closed}}, LAMBDA a, b : a < b)
Swept == IF cursor["reviews"] = None THEN 0 ELSE cursor["reviews"]

\* Mutant: a list that has not changed ends the feed, the reviews with it.
FetchPullsOnly ==
  /\ at = "pulls"
  /\ IF armed /\ etag["pulls"] = Page(1)
     THEN at' = "rest" /\ todo' = <<>> /\ top' = 0 /\ UNCHANGED <<etag, open>>
     ELSE /\ etag' = [etag EXCEPT !["pulls"] = Page(1)]
          /\ open' = Page(1) /\ top' = 2 /\ todo' = <<>> /\ at' = "pages"
  /\ UNCHANGED <<forge, cursor, armed, snapshot, etagOf, attempts, jobs, seen>> /\ Calm
\* The validator is that of the first page; where it holds, the reviews are
\* swept by the snapshot.
FetchPulls ==
  /\ at = "pulls"
  /\ IF armed /\ etag["pulls"] = Page(1)
     THEN at' = "reviews" /\ open' = KnownOpen /\ top' = Swept /\ UNCHANGED <<etag, todo>>
     ELSE /\ etag' = [etag EXCEPT !["pulls"] = Page(1)]
          /\ open' = Page(1) /\ top' = 2 /\ todo' = <<>> /\ at' = "pages"
  /\ UNCHANGED <<forge, cursor, armed, snapshot, etagOf, attempts, jobs, seen>> /\ Calm

\* Mutant: one page too many.
MorePullsPast ==
  /\ at = "pages"
  /\ IF Len(open) = (top - 1) * PageSize /\ top <= PullPages + 1
     THEN open' = open \o Page(top) /\ top' = top + 1 /\ UNCHANGED <<at, todo>>
     ELSE at' = "pull" /\ todo' = open /\ UNCHANGED <<open, top>>
  /\ UNCHANGED <<forge, valkey, jobs, seen>> /\ Calm
\* As long as pages are full; the list may have moved since the last one.
MorePulls ==
  /\ at = "pages"
  /\ IF Len(open) = (top - 1) * PageSize /\ top <= PullPages
     THEN open' = open \o Page(top) /\ top' = top + 1 /\ UNCHANGED <<at, todo>>
     ELSE at' = "pull" /\ todo' = open /\ UNCHANGED <<open, top>>
  /\ UNCHANGED <<forge, valkey, jobs, seen>> /\ Calm

Marked(x) == [snapshot EXCEPT ![x.pr] = x.sha]
\* Mutant: the marker first, then the snapshot.
SeedPullMarked ==
  /\ at = "pull" /\ ~armed /\ todo # <<>>
  /\ snapshot' = Marked(Head(todo)) /\ armed' = TRUE
  /\ before' = before \cup {Pull(x.pr, x.sha) : x \in ToSet(open)}
  /\ todo' = Tail(todo)
  /\ UNCHANGED <<forge, cursor, etag, etagOf, attempts, at, open, top, jobs, passed, fetched>>
  /\ Calm
\* Arming: the snapshot first.
SeedPull ==
  /\ at = "pull" /\ ~armed /\ todo # <<>>
  /\ snapshot' = Marked(Head(todo))
  /\ before' = before \cup {Pull(Head(todo).pr, Head(todo).sha)}
  /\ todo' = Tail(todo)
  /\ UNCHANGED <<forge, cursor, armed, etag, etagOf, attempts, at, open, top, jobs, passed, fetched>>
  /\ Calm

\* Mutant: the snapshot is written before the gate.
HandlePullNoted ==
  /\ at = "pull" /\ armed /\ todo # <<>>
  /\ snapshot' = Marked(Head(todo))
  /\ \/ /\ IF snapshot[Head(todo).pr] # Head(todo).sha
           THEN Enqueued(Pull(Head(todo).pr, Head(todo).sha)) ELSE UNCHANGED jobs
        /\ todo' = Tail(todo) /\ UNCHANGED <<at, open, top>> /\ Calm
     \/ Spend("breaks") /\ at' = "rest" /\ todo' = <<>> /\ open' = <<>> /\ top' = 0
        /\ UNCHANGED <<jobs, owed, quiet>> /\ clean' = FALSE
  /\ UNCHANGED <<forge, cursor, armed, etag, etagOf, attempts, seen>>
\* Opened, reopened or pushed to: its head is not the one of the snapshot.
HandlePull ==
  /\ at = "pull" /\ armed /\ todo # <<>>
  /\ IF snapshot[Head(todo).pr] # Head(todo).sha
     THEN Enqueued(Pull(Head(todo).pr, Head(todo).sha)) /\ at' = "note" /\ UNCHANGED todo
     ELSE todo' = Tail(todo) /\ UNCHANGED <<jobs, at>>
  /\ UNCHANGED <<forge, valkey, open, top, seen>> /\ Calm
\* The snapshot after the gate.
NotePull ==
  /\ at = "note"
  /\ snapshot' = Marked(Head(todo))
  /\ at' = "pull" /\ todo' = Tail(todo)
  /\ UNCHANGED <<forge, cursor, armed, etag, etagOf, attempts, open, top, jobs, seen>> /\ Calm

\* What left the list is marked; or, in the end, the feed is armed.
EndPulls ==
  /\ at = "pull" /\ todo = <<>>
  /\ passed' = IF Len(pulls) > PullPages * PageSize
               THEN passed \cup {Pull(x.pr, x.sha) : x \in ToSet(pulls)} ELSE passed
  /\ snapshot' = IF armed
                 THEN [p \in Pulls |-> IF snapshot[p] # None /\ p \notin ToSet(Numbers(open))
                                       THEN Closed ELSE snapshot[p]]
                 ELSE snapshot
  /\ armed' = TRUE
  /\ at' = "reviews" /\ open' = Numbers(open) /\ top' = Swept
  /\ UNCHANGED <<forge, cursor, etag, etagOf, attempts, todo, jobs, before, fetched>> /\ Calm

-----------------------------------------------------------------------------
(* `pollReviews`, with the pull requests to sweep in `open`. *)

\* The validator is known by the reviews listed.
FetchReviews ==
  /\ at = "reviews" /\ open # <<>>
  /\ LET p == Head(open)
         all == ReviewsOf(p)
         fresh == {r \in all : r > Swept} IN
     /\ open' = Tail(open)
     /\ IF cursor["reviews"] # None /\ etagOf[p] = all
        THEN UNCHANGED <<etagOf, at, todo, top, before>>
        ELSE /\ etagOf' = [etagOf EXCEPT ![p] = all]
             /\ top' = Max(fresh \cup {top})
             /\ IF cursor["reviews"] = None
                THEN before' = before \cup {Review(r) : r \in all} /\ UNCHANGED <<at, todo>>
                ELSE /\ todo' = SetToSortSeq(fresh, LAMBDA a, b : a < b)
                     /\ at' = "review" /\ UNCHANGED before
  /\ UNCHANGED <<forge, cursor, armed, snapshot, etag, attempts, jobs, passed, fetched>> /\ Calm

HandleReview ==
  /\ at = "review"
  /\ IF todo = <<>> THEN at' = "reviews" /\ UNCHANGED <<todo, jobs>>
     ELSE Enqueued(Review(Head(todo))) /\ todo' = Tail(todo) /\ UNCHANGED at
  /\ UNCHANGED <<forge, valkey, open, top, seen>> /\ Calm

\* Once, after the sweep; the cycle is over.
AdvanceReviews ==
  /\ at = "reviews" /\ open = <<>>
  /\ cursor' = [cursor EXCEPT !["reviews"] = top]
  /\ at' = "rest" /\ top' = 0 /\ todo' = <<>>
  /\ owed' = owed \ jobs
  /\ UNCHANGED <<forge, armed, snapshot, etag, etagOf, attempts, open, jobs, seen, quiet, clean,
                 spent, happened>>

Forge == MakesEvent \/ MakesComment \/ EditsComment \/ MovesPull \/ ClosesPull \/ MakesReview
Next ==
  \/ Forge \/ Tick \/ Begins \/ Breaks
  \/ FetchEvents \/ HandleEvent \/ HandleClose \/ CloseUnclear \/ Advance
  \/ FetchComments \/ HandleComment \/ AdvanceComments
  \/ FetchPulls \/ MorePulls \/ SeedPull \/ HandlePull \/ NotePull \/ EndPulls
  \/ FetchReviews \/ HandleReview \/ AdvanceReviews
Spec == Init /\ [][Next]_vars

-----------------------------------------------------------------------------
(* Properties. *)

\* The values of the keys, a cycle's list within its bounds, the pages too.
TypeOK ==
  /\ \A f \in Feeds : cursor[f] = None \/ cursor[f] \in 0 .. MaxEvents + MaxReviews + MaxClock
  /\ armed \in BOOLEAN
  /\ \A p \in Pulls : snapshot[p] = None \/ snapshot[p] \in Closed .. MaxPushes
  /\ \A p \in Pulls : etagOf[p] = None \/ etagOf[p] \subseteq ReviewsOf(p)
  /\ \A e \in 1 .. MaxEvents : attempts[e] \in 0 .. GateAttempts + MaxSpent
  /\ at \in {"rest", "events", "event", "advance", "comments", "comment", "pulls", "pages", "pull",
             "note", "reviews", "review"}
  /\ at = "event" => todo # <<>> /\ Len(todo) <= EventPages * PageSize
  /\ at = "comment" => Len(todo) <= PageSize
  /\ at = "pages" => top <= PullPages + 1
  /\ spent \in 0 .. MaxSpent

\* Arming replays nothing: what a feed had seen when it was not armed yet gets no
\* job, however often the arming breaks off; but a pull request that was closed
\* since, or that the list hid, may be taken for reopened.
ArmedWithoutReplay == jobs \cap before \subseteq passed

\* The cursor passes no event that is not done with: enqueued, refused, given up
\* when its attempts were used up, or further back than the pages reach (which
\* the log says); wherever a cycle breaks off.
EventsNotSkipped ==
  cursor["events"] # None =>
    \A e \in 1 .. cursor["events"] :
      Wanted(e) => Event(e) \in jobs \cup before \cup passed

\* The cursor passes no comment without a job, those of one second included,
\* wherever a cycle breaks off; but one made in the second of the read, after
\* it, or cut off by a full page that reaches past its creation.
CommentsNotSkipped ==
  cursor["comments"] # None =>
    \A c \in 1 .. Len(comments) :
      comments[c].created <= cursor["comments"] => Comment(c) \in jobs \cup before \cup passed

\* The snapshot knows a head only when its job is enqueued, or when it was there
\* before the feed was armed.
SnapshotIsFired ==
  \A p \in Pulls :
    snapshot[p] \notin {None, Closed} => Pull(p, snapshot[p]) \in jobs \cup before

Done == jobs \cup before \cup passed
\* A cycle that runs through while the forge rests leaves nothing behind, whatever
\* lists answered that they had not changed; a close whose closer is not known
\* holds up its own feed only.  Lists of one page.
CaughtUp ==
  at = "rest" /\ quiet /\ happened \subseteq {"unclear"} =>
    /\ happened = {} => \A e \in 1 .. Len(events) : Wanted(e) => Event(e) \in Done
    /\ Len(comments) <= PageSize => \A c \in 1 .. Len(comments) : Comment(c) \in Done
    /\ Len(pulls) <= PageSize => \A x \in ToSet(pulls) : Pull(x.pr, x.sha) \in Done
    /\ Cardinality(Pulls) <= PageSize =>
         \A r \in 1 .. Len(reviews) : OpenNow(reviews[r]) => Review(r) \in Done

\* "The retry next cycle resumes at the exact failed event": after a cycle that runs
\* through while the forge rests, nothing is left that broke off in an earlier one.
FailedIsRetried ==
  at = "rest" /\ clean /\ quiet =>
    \A i \in owed : (i[1] = "p" => \E x \in ToSet(pulls) : i = Pull(x.pr, x.sha)) => i \in Done
=============================================================================
