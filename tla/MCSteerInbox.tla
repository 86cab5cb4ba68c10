---------------------------- MODULE MCSteerInbox ----------------------------
(* SteerInbox alone, every run picked up once.  MCAskSteer has the instances   *)
(* with retries, crashes, lapses and second deliveries.                        *)
EXTENDS SteerInbox

CONSTANTS r0, c1, c2

MCOnce == [r \in Runs |-> 1]

\* A fair history in which no command fails, nobody dies or retries by hand and
\* no key lapses: what is promised of every message is promised of these.
QuietNext == Next /\ UNCHANGED spent
QuietSpec == Init /\ [][QuietNext]_vars /\ Fairness
=============================================================================
