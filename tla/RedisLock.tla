------------------------------ MODULE RedisLock ------------------------------
(***************************************************************************)
(* The distributed lock: RedisLockService.acquire, release and withLock,   *)
(* for one key.  Every acquisition has a random token of its own, so that  *)
(* a token stands for the holder that made it.  Redis forgets the key when *)
(* its time is over, whether or not the holder's work is.                  *)
(***************************************************************************)

CONSTANTS
  Holders,   \* calls of withLock
  Free       \* the key does not exist

ASSUME FreeAssumption == Free \notin Holders

VARIABLES
  lock,      \* the token under the key
  hpc,       \* hpc[h]: "idle", "critical" (fn runs), "releasing" (in finally)
  overrun    \* history: calls whose lock expired before they were done

lockVars == <<lock, hpc, overrun>>

LockTypeOK ==
  /\ lock \in Holders \cup {Free}
  /\ hpc \in [Holders -> {"idle", "critical", "releasing"}]
  /\ overrun \in SUBSET Holders

LockInit ==
  /\ lock = Free
  /\ hpc = [h \in Holders |-> "idle"]
  /\ overrun = {}

-----------------------------------------------------------------------------
Steps(h, pc) == hpc' = [hpc EXCEPT ![h] = pc]

\* SET NX EX answers OK.  Any other answer, and none, is undefined for the caller, who
\* does without: nothing changes.
Acquire(h) ==
  /\ hpc[h] = "idle"
  /\ lock = Free
  /\ lock' = h
  /\ Steps(h, "critical")
  /\ UNCHANGED overrun

\* SET NX EX was executed and its answer lost: the key stays until it expires.
AcquireUnanswered(h) ==
  /\ hpc[h] = "idle"
  /\ lock = Free
  /\ lock' = h
  /\ UNCHANGED <<hpc, overrun>>

\* fn returns or throws.
Finish(h) ==
  /\ hpc[h] = "critical"
  /\ Steps(h, "releasing")
  /\ UNCHANGED <<lock, overrun>>

\* Mutant: DEL without the comparison.
Delete(h) ==
  /\ hpc[h] = "releasing"
  /\ lock' = Free
  /\ Steps(h, "idle")
  /\ overrun' = overrun \ {h}

\* The script: delete when the token is one's own.
Release(h) ==
  /\ hpc[h] = "releasing"
  /\ lock' = IF lock = h THEN Free ELSE lock
  /\ Steps(h, "idle")
  /\ overrun' = overrun \ {h}

\* Redis does not answer the release, or the process dies at any time.
ReleaseFails(h) ==
  /\ hpc[h] # "idle"
  /\ Steps(h, "idle")
  /\ overrun' = overrun \ {h}
  /\ UNCHANGED lock

Expire ==
  /\ lock # Free
  /\ lock' = Free
  /\ overrun' = IF hpc[lock] = "idle" THEN overrun ELSE overrun \cup {lock}
  /\ UNCHANGED hpc

LockNext ==
  \/ \E h \in Holders :
       Acquire(h) \/ AcquireUnanswered(h) \/ Finish(h) \/ Release(h) \/ ReleaseFails(h)
  \/ Expire

LockSpec == LockInit /\ [][LockNext]_lockVars

-----------------------------------------------------------------------------
\* Two critical sections run at the same time only when the lock of one of them
\* expired under it: neither a lost answer nor the late release of an expired holder
\* lets anybody else in.
LockExclusive ==
  \A h, g \in Holders :
    hpc[h] = "critical" /\ hpc[g] = "critical" /\ h # g => overrun \cap {h, g} # {}
=============================================================================
