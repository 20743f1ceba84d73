------------------------------ MODULE Sessions ------------------------------
(***************************************************************************)
(* The refresh tokens of one user: RefreshTokenService (issue, rotate,     *)
(* revoke, cleanupExpired), the logins that lead to issue (AuthService     *)
(* login, register, loginWithGithub) and UsersService.remove, which ends   *)
(* the user's sessions.  Tokens of other users are never touched by any of *)
(* these statements.                                                       *)
(*                                                                         *)
(* A transaction is two steps: its plain reads, which see a snapshot, and  *)
(* its writes up to the commit.  Its conditional updates see current rows  *)
(* and lock them, so that the writes take effect as one step.              *)
(***************************************************************************)
EXTENDS Naturals

CONSTANTS
  Tokens,    \* ids of refresh tokens, in the order they are generated
  Requests,  \* HTTP requests in flight
  NoToken,   \* not a token
  TTL,       \* jwt.refreshExpiresIn
  MaxClock   \* bound: units of time that pass

ASSUME TokensAssumption == Tokens \subseteq Nat /\ NoToken \notin Tokens
ASSUME TTLAssumption == TTL \in Nat \ {0} /\ MaxClock \in Nat

VARIABLES
  now,      \* Date.now(), and the NOW() of the database
  row,      \* row[t]: the refresh_tokens row: "none", "live" (revokedAt null),
            \* "revoked" or "deleted"
  exp,      \* exp[t]: expiresAt
  removed,  \* users.deletedAt # null
  rpc,      \* rpc[r]: "idle", "login" (user read, token to be issued) or
            \* "rotate" (transaction open, token read and found good)
  rtok,     \* rtok[r]: the token a rotation was asked for
  head,     \* head[t]: history: the token whose login began the session of t
  used,     \* used[t]: history: how often t was exchanged for a successor
  ended,    \* history: heads of sessions that were logged out, removed or cleaned up
  late      \* history: heads issued when the user had been removed

tokenVars   == <<row, exp, head, used>>
requestVars == <<rpc, rtok>>
sessionVars == <<now, tokenVars, removed, requestVars, ended, late>>

RowStates == {"none", "live", "revoked", "deleted"}

SessionTypeOK ==
  /\ now \in Nat
  /\ row \in [Tokens -> RowStates]
  /\ exp \in [Tokens -> Nat]
  /\ removed \in BOOLEAN
  /\ rpc \in [Requests -> {"idle", "login", "rotate"}]
  /\ rtok \in [Requests -> Tokens \cup {NoToken}]
  /\ head \in [Tokens -> Tokens \cup {NoToken}]
  /\ used \in [Tokens -> Nat]
  /\ ended \in SUBSET Tokens
  /\ late \in SUBSET Tokens

SessionInit ==
  /\ now = 0
  /\ row = [t \in Tokens |-> "none"]
  /\ exp = [t \in Tokens |-> 0]
  /\ removed = FALSE
  /\ rpc = [r \in Requests |-> "idle"]
  /\ rtok = [r \in Requests |-> NoToken]
  /\ head = [t \in Tokens |-> NoToken]
  /\ used = [t \in Tokens |-> 0]
  /\ ended = {}
  /\ late = {}

-----------------------------------------------------------------------------
Expired(t) == exp[t] <= now

\* generateSnowflakeId: t is the next id.
IsNextId(t) == row[t] = "none" /\ \A u \in Tokens : u < t => row[u] # "none"

\* RefreshTokenService.issue inside `rows`: the row of t is inserted.
Inserted(rows, t) == [rows EXCEPT ![t] = "live"]

\* The sessions whose live token is among ts.
SessionsOf(ts) == {head[t] : t \in {u \in ts : row[u] = "live"}}

Proceed(r, pc, t) ==
  /\ rpc' = [rpc EXCEPT ![r] = pc]
  /\ rtok' = [rtok EXCEPT ![r] = t]

\* login found the password right, register re-read the new user, loginWithGithub
\* loaded the account: each reads the user without looking at deletedAt.
LoadUser(r) ==
  /\ rpc[r] = "idle"
  /\ Proceed(r, "login", NoToken)
  /\ UNCHANGED <<now, tokenVars, removed, ended, late>>

IssueToken(r, t) ==
  /\ rpc[r] = "login"
  /\ IsNextId(t)
  /\ row' = Inserted(row, t)
  /\ exp' = [exp EXCEPT ![t] = now + TTL]
  /\ head' = [head EXCEPT ![t] = t]
  /\ late' = IF removed THEN late \cup {t} ELSE late
  /\ Proceed(r, "idle", NoToken)
  /\ UNCHANGED <<now, used, removed, ended>>

\* The INSERT of issue fails, within a rotation or not, or the process dies before
\* the commit: the transaction is rolled back and the old token stays good.
RequestFails(r) ==
  /\ rpc[r] # "idle"
  /\ Proceed(r, "idle", NoToken)
  /\ UNCHANGED <<now, tokenVars, removed, ended, late>>

\* rotate's findUnique and its check; a token it refuses changes nothing.
RotateRead(r, t) ==
  /\ rpc[r] = "idle"
  /\ row[t] = "live"
  /\ ~Expired(t)
  /\ Proceed(r, "rotate", t)
  /\ UNCHANGED <<now, tokenVars, removed, ended, late>>

\* Mutant: the row count of the conditional update is not looked at.
RotateCommitUnchecked(r, t) ==
  /\ rpc[r] = "rotate"
  /\ IsNextId(t)
  /\ row' = [Inserted(row, t) EXCEPT ![rtok[r]] = "revoked"]
  /\ exp' = [exp EXCEPT ![t] = now + TTL]
  /\ head' = [head EXCEPT ![t] = head[rtok[r]]]
  /\ used' = [used EXCEPT ![rtok[r]] = @ + 1]
  /\ Proceed(r, "idle", NoToken)
  /\ UNCHANGED <<now, removed, ended, late>>

\* Revoke where revokedAt is null, issue, commit.
RotateCommit(r, t) ==
  /\ rpc[r] = "rotate"
  /\ row[rtok[r]] = "live"
  /\ IsNextId(t)
  /\ row' = [Inserted(row, t) EXCEPT ![rtok[r]] = "revoked"]
  /\ exp' = [exp EXCEPT ![t] = now + TTL]
  /\ head' = [head EXCEPT ![t] = head[rtok[r]]]
  /\ used' = [used EXCEPT ![rtok[r]] = @ + 1]
  /\ Proceed(r, "idle", NoToken)
  /\ UNCHANGED <<now, removed, ended, late>>

\* The update hits no row: somebody else used, revoked or deleted the token.
RotateRefused(r) ==
  /\ rpc[r] = "rotate"
  /\ row[rtok[r]] # "live"
  /\ Proceed(r, "idle", NoToken)
  /\ UNCHANGED <<now, tokenVars, removed, ended, late>>

\* Logout: a token that is not live any more is left as it is.
Revoke(t) ==
  /\ row[t] = "live"
  /\ row' = [row EXCEPT ![t] = "revoked"]
  /\ ended' = ended \cup {head[t]}
  /\ UNCHANGED <<now, exp, head, used, removed, requestVars, late>>

\* Mutant: the user is removed and the sessions stay.
RemoveUserOnly ==
  /\ ~removed
  /\ removed' = TRUE
  /\ UNCHANGED <<now, tokenVars, requestVars, ended, late>>

\* Soft delete where deletedAt is null and revoke of every live token, in one
\* transaction.
RemoveUser ==
  /\ ~removed
  /\ removed' = TRUE
  /\ row' = [t \in Tokens |-> IF row[t] = "live" THEN "revoked" ELSE row[t]]
  /\ ended' = ended \cup SessionsOf(Tokens)
  /\ UNCHANGED <<now, exp, head, used, requestVars, late>>

\* The clean-up job: DELETE where expiresAt < now, revoked or not.
CleanupExpired ==
  LET old == {t \in Tokens : row[t] \in {"live", "revoked"} /\ exp[t] < now}
  IN
  /\ old # {}
  /\ row' = [t \in Tokens |-> IF t \in old THEN "deleted" ELSE row[t]]
  /\ ended' = ended \cup SessionsOf(old)
  /\ UNCHANGED <<now, exp, head, used, removed, requestVars, late>>

SessionTick ==
  /\ now < MaxClock
  /\ now' = now + 1
  /\ UNCHANGED <<tokenVars, removed, requestVars, ended, late>>

SessionNext ==
  \/ \E r \in Requests :
       \/ LoadUser(r) \/ RequestFails(r) \/ RotateRefused(r)
       \/ \E t \in Tokens : IssueToken(r, t) \/ RotateRead(r, t) \/ RotateCommit(r, t)
  \/ \E t \in Tokens : Revoke(t)
  \/ RemoveUser
  \/ CleanupExpired
  \/ SessionTick

SessionSpec == SessionInit /\ [][SessionNext]_sessionVars

-----------------------------------------------------------------------------
\* A session that nobody ended holds exactly one live token, whatever refreshes,
\* failures and clean-ups ran in parallel: it does not fork, and its user is not
\* logged out by accident.  An ended one holds none, so that a refresh that was
\* under way when the user logged out leaves nothing behind.
OneTokenPerSession ==
  /\ \A t, u \in Tokens :
       row[t] = "live" /\ row[u] = "live" /\ head[t] = head[u] => t = u
  /\ \A h \in Tokens : head[h] = h =>
       (h \notin ended <=> \E t \in Tokens : row[t] = "live" /\ head[t] = h)

\* Removing a user ends every session that was there: what is still live belongs to
\* a login that was completed after the removal.
RemovalEndsSessions ==
  removed => \A t \in Tokens : row[t] = "live" => head[t] \in late

\* Refresh tokens are one-time tokens: redeemed is exchanged for a successor.
Standing(t) ==
  CASE row[t] = "none" -> "absent"
    [] row[t] = "live" -> "valid"
    [] OTHER -> "gone"

Refreshes == INSTANCE OneTimeToken WITH
  OneTimeTokens <- Tokens,
  standing <- [t \in Tokens |-> Standing(t)],
  uses <- used

RefreshTokensOnce == Refreshes!OneTimeSpec
=============================================================================
