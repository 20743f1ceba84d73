--------------------------- MODULE LoginAttempts ---------------------------
(***************************************************************************)
(* Password logins for one email: AuthService.login with                   *)
(* LoginAttemptService, whose counter is one Redis key with a time to live. *)
(* The counter is asked, the password verified (slow), and the outcome     *)
(* recorded: three steps, with other requests between them.                *)
(***************************************************************************)
EXTENDS Naturals, FiniteSets

CONSTANTS
  Logins,       \* login requests in flight
  MaxAttempts,  \* AUTH_LOCKOUT.maxAttempts
  MaxOutages    \* bound: Redis commands that fail

ASSUME LoginsAssumption == IsFiniteSet(Logins)
ASSUME MaxAttemptsAssumption == MaxAttempts \in Nat \ {0} /\ MaxOutages \in Nat

VARIABLES
  fails,    \* the counter; 0: no key
  expires,  \* the key has a time to live
  lpc,      \* lpc[r]: "idle", "verify" (not locked, argon2 at work), "wrong", "right"
  outages   \* Redis commands that failed

loginVars == <<fails, expires, lpc, outages>>

\* login-attempt.service.ts:18-19: a locked account unlocks by itself, since no counter
\* is ever without a time to live.
LoginTypeOK ==
  /\ fails \in Nat
  /\ expires = (fails > 0)
  /\ lpc \in [Logins -> {"idle", "verify", "wrong", "right"}]
  /\ outages \in 0..MaxOutages

LoginInit ==
  /\ fails = 0
  /\ expires = FALSE
  /\ lpc = [r \in Logins |-> "idle"]
  /\ outages = 0

Locked == fails >= MaxAttempts

Advance(r, pc) == lpc' = [lpc EXCEPT ![r] = pc]

-----------------------------------------------------------------------------
\* withRedis: a command that fails is replaced by its fallback value.
Outage == outages < MaxOutages /\ outages' = outages + 1

\* Mutant: the lock is not asked.
IsLockedIgnored(r) ==
  /\ lpc[r] = "idle"
  /\ Advance(r, "verify")
  /\ UNCHANGED <<fails, expires, outages>>

\* isLocked, false: the login goes on to the password.  A locked one is answered at
\* once and changes nothing.
IsLocked(r) ==
  /\ lpc[r] = "idle"
  /\ ~Locked
  /\ Advance(r, "verify")
  /\ UNCHANGED <<fails, expires, outages>>

\* The fallback of isLocked is false.
IsLockedFails(r) ==
  /\ lpc[r] = "idle"
  /\ Outage
  /\ Advance(r, "verify")
  /\ UNCHANGED <<fails, expires>>

\* argon2.verify of the user's hash, or of the dummy when there is no user.
Verify(r) ==
  /\ lpc[r] = "verify"
  /\ \E outcome \in {"wrong", "right"} : Advance(r, outcome)
  /\ UNCHANGED <<fails, expires, outages>>

\* Mutant: EXPIRE is a command of its own, and the process dies before it.
RecordFailureInTwo(r) ==
  /\ lpc[r] = "wrong"
  /\ fails' = fails + 1
  /\ Advance(r, "idle")
  /\ UNCHANGED <<expires, outages>>

\* The Lua script: INCR, and EXPIRE when the counter is 1.
RecordFailure(r) ==
  /\ lpc[r] = "wrong"
  /\ fails' = fails + 1
  /\ expires' = (expires \/ fails' = 1)
  /\ Advance(r, "idle")
  /\ UNCHANGED outages

RecordFailureFails(r) ==
  /\ lpc[r] = "wrong"
  /\ Outage
  /\ Advance(r, "idle")
  /\ UNCHANGED <<fails, expires>>

\* DEL: whoever failed while this password was being verified is forgiven too.
Clear(r) ==
  /\ lpc[r] = "right"
  /\ fails' = 0
  /\ expires' = FALSE
  /\ Advance(r, "idle")
  /\ UNCHANGED outages

ClearFails(r) ==
  /\ lpc[r] = "right"
  /\ Outage
  /\ Advance(r, "idle")
  /\ UNCHANGED <<fails, expires>>

\* Redis: the window is over.
WindowEnds ==
  /\ expires
  /\ fails' = 0
  /\ expires' = FALSE
  /\ UNCHANGED <<lpc, outages>>

LoginNext ==
  \/ \E r \in Logins :
       \/ IsLocked(r) \/ IsLockedFails(r) \/ Verify(r)
       \/ RecordFailure(r) \/ RecordFailureFails(r) \/ Clear(r) \/ ClearFails(r)
  \/ WindowEnds

LoginSpec == LoginInit /\ [][LoginNext]_loginVars

-----------------------------------------------------------------------------
\* However many logins run in parallel, the guesses of one window - those counted and
\* those under way - stay below the limit plus one for each request that was already
\* past the lock.  Every outage of Redis lets one more pass.
Guesses == fails + Cardinality({r \in Logins : lpc[r] \in {"verify", "wrong"}})

GuessesBounded == Guesses <= MaxAttempts - 1 + Cardinality(Logins) + outages
=============================================================================
