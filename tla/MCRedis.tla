------------------------------- MODULE MCRedis -------------------------------
(***************************************************************************)
(* Model values for TLC's run about what the processes keep in Redis: the  *)
(* cache of posts with the ranking, the failures of logins, locks and the  *)
(* counters of the throttler.  The parts have no state in common, so that  *)
(* a behaviour of one of them at a time shows all there is to see; `part`  *)
(* says of which.                                                          *)
(***************************************************************************)
EXTENDS PostCache, LoginAttempts, RedisLock, Throttle

CONSTANTS a1, a2, a3, w1, v1, p1, p2

VARIABLE part

TwoServers == {p1, p2}
TwoReaders == {a1, a2}
OneWriter == {w1}
OneViewer == {v1}
ReadersApart == [a \in {a1, a2, w1, v1} |-> IF a \in TwoReaders THEN p1 ELSE p2]
Three == {a1, a2, a3}

vars == <<part, postVars, loginVars, lockVars, throttleVars>>

Init ==
  /\ part \in {"cache", "logins", "lock", "throttle"}
  /\ PostCacheInit /\ LoginInit /\ LockInit /\ ThrottleInit

Runs(p) == part = p /\ UNCHANGED part

OnlyCache ==
  /\ Runs("cache") /\ PostCacheNext
  /\ UNCHANGED <<loginVars, lockVars, throttleVars>>

OnlyLogins ==
  /\ Runs("logins") /\ LoginNext
  /\ UNCHANGED <<postVars, lockVars, throttleVars>>

OnlyLock ==
  /\ Runs("lock") /\ LockNext
  /\ UNCHANGED <<postVars, loginVars, throttleVars>>

OnlyThrottle ==
  /\ Runs("throttle") /\ ThrottleNext
  /\ UNCHANGED <<postVars, loginVars, lockVars>>

Next ==
  \/ OnlyCache
  \/ OnlyLogins
  \/ OnlyLock
  \/ OnlyThrottle

\* The fairness of the cache, while it is the part that runs; the others need none.
Fairness ==
  /\ PostCacheGoesOn
  /\ SF_postVars(part = "cache" /\ AsksRanking)

Spec == Init /\ [][Next]_vars /\ Fairness

\* Every variable keeps its type in every part.
TypeOK ==
  /\ PostCacheTypeOK /\ LoginTypeOK /\ LockTypeOK /\ ThrottleTypeOK
=============================================================================
