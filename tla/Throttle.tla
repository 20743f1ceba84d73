------------------------------- MODULE Throttle -------------------------------
(***************************************************************************)
(* RedisThrottlerStorage.increment, as the throttler guard calls it for    *)
(* the requests of one client on one route: read the block key, count the  *)
(* hit, and beyond the limit write the block key - three round trips, with *)
(* requests in between.                                                    *)
(***************************************************************************)
EXTENDS Naturals, FiniteSets

CONSTANTS
  Calls,       \* requests in flight
  HitLimit,    \* throttler.limit
  MaxHits      \* bound: hits counted

ASSUME ThrottleAssumption == HitLimit \in Nat \ {0} /\ MaxHits \in Nat

VARIABLES
  hits,      \* the counter, 0 when its key has expired
  blocked,   \* the block key is there
  tpc,       \* tpc[c]: "idle", "unblocked" (pTTL said so), "over" (beyond the limit)
  passed,    \* history: requests that were counted and let through since the counter began
  stale,     \* history: requests that read the block key before it was written
  counted    \* history: hits counted

throttleVars == <<hits, blocked, tpc, passed, stale, counted>>

ThrottleTypeOK ==
  /\ hits \in 0..MaxHits
  /\ blocked \in BOOLEAN
  /\ tpc \in [Calls -> {"idle", "unblocked", "over"}]
  /\ passed \in 0..MaxHits
  /\ stale \in SUBSET Calls
  /\ counted \in 0..MaxHits

ThrottleInit ==
  /\ hits = 0
  /\ blocked = FALSE
  /\ tpc = [c \in Calls |-> "idle"]
  /\ passed = 0
  /\ stale = {}
  /\ counted = 0

-----------------------------------------------------------------------------
\* A positive pTTL is an answer: blocked, and not counted.
ReadBlock(c) ==
  /\ tpc[c] = "idle"
  /\ ~blocked
  /\ tpc' = [tpc EXCEPT ![c] = "unblocked"]
  /\ stale' = stale \ {c}
  /\ UNCHANGED <<hits, blocked, passed, counted>>

\* Mutant: the limit is one too many.
WithinOneMore(n) == n <= HitLimit + 1

Within(n) == n <= HitLimit

\* The script: INCR, and PEXPIRE with the first hit.
CountHit(c) ==
  /\ tpc[c] = "unblocked"
  /\ counted < MaxHits
  /\ counted' = counted + 1
  /\ hits' = hits + 1
  /\ IF Within(hits + 1)
       THEN tpc' = [tpc EXCEPT ![c] = "idle"] /\ passed' = passed + 1
       ELSE tpc' = [tpc EXCEPT ![c] = "over"] /\ UNCHANGED passed
  /\ UNCHANGED <<blocked, stale>>

\* SET PX blockDuration, again with every further one.
SetBlock(c) ==
  /\ tpc[c] = "over"
  /\ blocked' = TRUE
  /\ stale' = {d \in Calls : tpc[d] = "unblocked"} \cup stale
  /\ tpc' = [tpc EXCEPT ![c] = "idle"]
  /\ UNCHANGED <<hits, passed, counted>>

\* The script ran and its answer was lost: the request is let through.
CountHitUnanswered(c) ==
  /\ tpc[c] = "unblocked"
  /\ counted < MaxHits
  /\ counted' = counted + 1
  /\ hits' = hits + 1
  /\ tpc' = [tpc EXCEPT ![c] = "idle"]
  /\ UNCHANGED <<blocked, passed, stale>>

\* Redis fails at any of the three: the request is let through.
FailsOpen(c) ==
  /\ tpc[c] # "idle"
  /\ tpc' = [tpc EXCEPT ![c] = "idle"]
  /\ UNCHANGED <<hits, blocked, passed, stale, counted>>

CounterExpires ==
  /\ hits > 0
  /\ hits' = 0
  /\ passed' = 0
  /\ UNCHANGED <<blocked, tpc, stale, counted>>

BlockExpires ==
  /\ blocked
  /\ blocked' = FALSE
  /\ UNCHANGED <<hits, tpc, passed, stale, counted>>

ThrottleNext ==
  \/ \E c \in Calls :
       ReadBlock(c) \/ CountHit(c) \/ CountHitUnanswered(c) \/ SetBlock(c) \/ FailsOpen(c)
  \/ CounterExpires
  \/ BlockExpires

ThrottleSpec == ThrottleInit /\ [][ThrottleNext]_throttleVars

-----------------------------------------------------------------------------
\* While Redis answers, one window of the counter lets the limit of requests through
\* and no more, in whatever order the round trips of parallel requests come; and while
\* a client is blocked only those get through that asked before the block was written.
ThrottleExact ==
  [][/\ passed' <= HitLimit
     /\ blocked /\ passed' > passed => \E c \in stale : tpc[c] = "unblocked"]_throttleVars
=============================================================================
