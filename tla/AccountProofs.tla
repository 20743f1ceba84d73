---------------------------- MODULE AccountProofs ----------------------------
(***************************************************************************)
(* What holds of the accounts, for any number of users, roles, tokens,     *)
(* callbacks, server processes and requests in flight and any limits: of a *)
(* user's sessions (OneSession, RemovalIsFinal, RefreshOnce), of the       *)
(* passwords of users (NobodyChangesUnshown) and of removed roles          *)
(* (RemovedStaysBare), and of signing in a GitHub user, with Redis or with *)
(* a Map per process (OneGithubAccount, EveryRaceIsCaught,                 *)
(* CredentialsOnce).                                                       *)
(***************************************************************************)
EXTENDS Sessions, Users, Roles, OAuthLogin, FiniteSetTheorems, TLAPS

-----------------------------------------------------------------------------
(***************************************************************************)
(* Sessions: the inductive invariant                                       *)
(***************************************************************************)

\* A token has a head exactly when it was issued, and its head began its own session.
HeadsAreHeads ==
  \A t \in Tokens :
    /\ row[t] = "none" <=> head[t] = NoToken
    /\ head[t] # NoToken => head[head[t]] = head[t]

\* Only sessions that were begun have ended, and a rotation is always of a token that
\* was issued.
EndedWereBegun == \A h \in ended : head[h] = h

RotationsHaveTokens ==
  \A r \in Requests : rpc[r] = "rotate" => rtok[r] \in Tokens

SessionInv ==
  /\ SessionTypeOK
  /\ HeadsAreHeads
  /\ EndedWereBegun
  /\ RotationsHaveTokens
  /\ OneTokenPerSession
  /\ RemovalEndsSessions

-----------------------------------------------------------------------------
\* A token that was issued belongs to a session.
LEMMA IssuedHasHead ==
  ASSUME SessionTypeOK, HeadsAreHeads, NEW t \in Tokens, row[t] # "none"
  PROVE  head[t] \in Tokens /\ head[head[t]] = head[t]
  BY DEF SessionTypeOK, HeadsAreHeads

\* Every action of the sessions keeps every variable in its type.
LEMMA SessionStepType == SessionInv /\ [SessionNext]_sessionVars => SessionTypeOK'
<1> SUFFICES ASSUME SessionInv, [SessionNext]_sessionVars PROVE SessionTypeOK'
  OBVIOUS
<1>0. SessionTypeOK /\ HeadsAreHeads /\ RotationsHaveTokens
  BY DEF SessionInv
<1> USE <1>0, TokensAssumption, TTLAssumption
    DEF SessionTypeOK, RowStates, tokenVars, requestVars, Proceed
<1>1. ASSUME NEW r \in Requests, LoadUser(r) PROVE SessionTypeOK'
  BY <1>1 DEF LoadUser
<1>2. ASSUME NEW r \in Requests, RequestFails(r) PROVE SessionTypeOK'
  BY <1>2 DEF RequestFails
<1>3. ASSUME NEW r \in Requests, RotateRefused(r) PROVE SessionTypeOK'
  BY <1>3 DEF RotateRefused
<1>4. ASSUME NEW r \in Requests, NEW t \in Tokens, IssueToken(r, t) PROVE SessionTypeOK'
  BY <1>4 DEF IssueToken, Inserted
<1>5. ASSUME NEW r \in Requests, NEW t \in Tokens, RotateRead(r, t) PROVE SessionTypeOK'
  BY <1>5 DEF RotateRead
<1>6. ASSUME NEW r \in Requests, NEW t \in Tokens, RotateCommit(r, t)
      PROVE SessionTypeOK'
  <2>1. rtok[r] \in Tokens
    BY <1>6 DEF RotateCommit, RotationsHaveTokens
  <2>2. row' \in [Tokens -> RowStates] /\ exp' \in [Tokens -> Nat]
    BY <1>6, <2>1 DEF RotateCommit, Inserted
  <2>3. head' \in [Tokens -> Tokens \cup {NoToken}]
    BY <1>6, <2>1 DEF RotateCommit
  <2>4. used' \in [Tokens -> Nat]
    <3>1. used' = [used EXCEPT ![rtok[r]] = used[rtok[r]] + 1]
      BY <1>6 DEF RotateCommit
    <3>2. used[rtok[r]] \in Nat
      BY <2>1
    <3>3. used[rtok[r]] + 1 \in Nat
      BY <3>2
    <3> QED
      BY <3>1, <3>3
  <2>5. rpc' \in [Requests -> {"idle", "login", "rotate"}]
        /\ rtok' \in [Requests -> Tokens \cup {NoToken}]
    BY <1>6 DEF RotateCommit
  <2> QED
    BY <1>6, <2>2, <2>3, <2>4, <2>5 DEF RotateCommit
<1>7. ASSUME NEW t \in Tokens, Revoke(t) PROVE SessionTypeOK'
  <2>1. head[t] \in Tokens
    BY <1>7, IssuedHasHead DEF Revoke
  <2> QED
    BY <1>7, <2>1 DEF Revoke
<1>8. CASE RemoveUser
  <2>1. SessionsOf(Tokens) \subseteq Tokens
    BY IssuedHasHead DEF SessionsOf
  <2> QED
    BY <1>8, <2>1 DEF RemoveUser
<1>9. CASE CleanupExpired
  <2> DEFINE old == {t \in Tokens : row[t] \in {"live", "revoked"} /\ exp[t] < now}
  <2>1. SessionsOf(old) \subseteq Tokens
    BY IssuedHasHead DEF SessionsOf
  <2> QED
    BY <1>9, <2>1 DEF CleanupExpired
<1>10. CASE SessionTick
  BY <1>10 DEF SessionTick
<1>11. CASE UNCHANGED sessionVars
  BY <1>11 DEF sessionVars
<1> QED
  BY <1>1, <1>2, <1>3, <1>4, <1>5, <1>6, <1>7, <1>8, <1>9, <1>10, <1>11 DEF SessionNext

\* The steps that touch no token, but the requests and the clock.
RequestsOnly ==
  /\ UNCHANGED <<row, head, used, removed, ended, late>>
  /\ RotationsHaveTokens'

\* Reading, failing and being refused touch no token.
LEMMA StepRequestsOnly ==
  ASSUME SessionInv,
         \/ \E r \in Requests :
              \/ LoadUser(r) \/ RequestFails(r) \/ RotateRefused(r)
              \/ \E t \in Tokens : RotateRead(r, t)
         \/ SessionTick
         \/ UNCHANGED sessionVars
  PROVE  RequestsOnly
<1> USE DEF SessionInv, SessionTypeOK, RequestsOnly, RotationsHaveTokens, tokenVars,
            requestVars, Proceed
<1>1. ASSUME NEW r \in Requests, LoadUser(r) PROVE RequestsOnly
  BY <1>1 DEF LoadUser
<1>2. ASSUME NEW r \in Requests, RequestFails(r) PROVE RequestsOnly
  BY <1>2 DEF RequestFails
<1>3. ASSUME NEW r \in Requests, RotateRefused(r) PROVE RequestsOnly
  BY <1>3 DEF RotateRefused
<1>4. ASSUME NEW r \in Requests, NEW t \in Tokens, RotateRead(r, t) PROVE RequestsOnly
  BY <1>4 DEF RotateRead
<1>5. ASSUME SessionTick \/ UNCHANGED sessionVars PROVE RequestsOnly
  BY <1>5 DEF SessionTick, sessionVars
<1> QED
  BY <1>1, <1>2, <1>3, <1>4, <1>5

\* What a step does to the tokens keeps the invariant: begun, exchanged, revoked,
\* removed with the user, and cleaned up.
LEMMA SessionStep == SessionInv /\ [SessionNext]_sessionVars => SessionInv'
<1> SUFFICES ASSUME SessionInv, [SessionNext]_sessionVars PROVE SessionInv'
  OBVIOUS
<1>0. SessionTypeOK'
  BY SessionStepType
<1>1. /\ SessionTypeOK /\ HeadsAreHeads /\ EndedWereBegun /\ RotationsHaveTokens
      /\ OneTokenPerSession /\ RemovalEndsSessions
  BY DEF SessionInv
<1> USE DEF HeadsAreHeads, EndedWereBegun, RotationsHaveTokens, OneTokenPerSession,
            RemovalEndsSessions
<1>2. CASE RequestsOnly
  BY <1>0, <1>1, <1>2 DEF SessionInv, RequestsOnly, SessionTypeOK
<1>3. ASSUME NEW r \in Requests, NEW t \in Tokens, IssueToken(r, t) PROVE SessionInv'
  <2>1. /\ row[t] = "none"
        /\ row' = [row EXCEPT ![t] = "live"]
        /\ head' = [head EXCEPT ![t] = t]
        /\ late' = IF removed THEN late \cup {t} ELSE late
        /\ rpc' = [rpc EXCEPT ![r] = "idle"]
        /\ rtok' = [rtok EXCEPT ![r] = NoToken]
        /\ UNCHANGED <<removed, ended>>
    BY <1>3 DEF IssueToken, IsNextId, Inserted, Proceed
  <2>2. head[t] = NoToken /\ t \notin ended
    BY <1>1, <2>1, TokensAssumption DEF SessionTypeOK
  <2>3. HeadsAreHeads' /\ EndedWereBegun'
    BY <1>1, <2>1, <2>2, TokensAssumption DEF SessionTypeOK
  <2>4. RotationsHaveTokens'
    BY <1>1, <2>1 DEF SessionTypeOK
  <2>5. \A u \in Tokens : row[u] = "live" => head[u] # t
    BY <1>1, <2>2, TokensAssumption, IssuedHasHead
  <2>6. OneTokenPerSession'
    BY <1>1, <2>1, <2>2, <2>5 DEF SessionTypeOK
  <2>7. RemovalEndsSessions'
    BY <1>1, <2>1 DEF SessionTypeOK
  <2> QED
    BY <1>0, <2>3, <2>4, <2>6, <2>7 DEF SessionInv
<1>4. ASSUME NEW r \in Requests, NEW t \in Tokens, RotateCommit(r, t) PROVE SessionInv'
  <2> DEFINE o == rtok[r]
  <2>1. o \in Tokens
    BY <1>1, <1>4 DEF RotateCommit
  <2>2. /\ row[t] = "none" /\ row[o] = "live" /\ t # o
        /\ row' = [row EXCEPT ![t] = "live", ![o] = "revoked"]
        /\ head' = [head EXCEPT ![t] = head[o]]
        /\ rpc' = [rpc EXCEPT ![r] = "idle"]
        /\ rtok' = [rtok EXCEPT ![r] = NoToken]
        /\ UNCHANGED <<removed, ended, late>>
    BY <1>4 DEF RotateCommit, IsNextId, Inserted, Proceed
  <2>3. head[t] = NoToken /\ head[o] \in Tokens /\ head[head[o]] = head[o]
        /\ head[o] # t
    BY <1>1, <2>1, <2>2, TokensAssumption, IssuedHasHead
  <2> HIDE DEF o
  <2>4. HeadsAreHeads' /\ EndedWereBegun'
    BY <1>1, <2>1, <2>2, <2>3, TokensAssumption DEF SessionTypeOK
  <2>5. RotationsHaveTokens'
    BY <1>1, <2>2 DEF SessionTypeOK
  <2>6. OneTokenPerSession'
    BY <1>1, <2>1, <2>2, <2>3, TokensAssumption DEF SessionTypeOK
  <2>7. RemovalEndsSessions'
    BY <1>1, <2>1, <2>2 DEF SessionTypeOK
  <2> QED
    BY <1>0, <2>4, <2>5, <2>6, <2>7 DEF SessionInv
<1>5. ASSUME NEW t \in Tokens, Revoke(t) PROVE SessionInv'
  <2>1. head[t] \in Tokens /\ head[head[t]] = head[t]
    BY <1>1, <1>5, IssuedHasHead DEF Revoke
  <2>2. HeadsAreHeads' /\ EndedWereBegun' /\ RotationsHaveTokens'
    BY <1>1, <1>5, <2>1 DEF Revoke, requestVars, SessionTypeOK
  <2>3. OneTokenPerSession' /\ RemovalEndsSessions'
    BY <1>1, <1>5, <2>1 DEF Revoke, SessionTypeOK
  <2> QED
    BY <1>0, <2>2, <2>3 DEF SessionInv
<1>6. CASE RemoveUser
  <2>1. \A h \in SessionsOf(Tokens) : h \in Tokens /\ head[h] = h
    BY <1>1, IssuedHasHead DEF SessionsOf
  <2>2. HeadsAreHeads' /\ EndedWereBegun' /\ RotationsHaveTokens'
    BY <1>1, <1>6, <2>1 DEF RemoveUser, requestVars, SessionTypeOK
  <2>3. \A t \in Tokens : row'[t] # "live"
    BY <1>6 DEF RemoveUser
  <2>4. ASSUME NEW h \in Tokens, head[h] = h PROVE h \in ended'
    BY <1>1, <1>6, <2>4 DEF RemoveUser, SessionsOf
  <2>5. OneTokenPerSession' /\ RemovalEndsSessions'
    BY <1>6, <2>3, <2>4 DEF RemoveUser
  <2> QED
    BY <1>0, <2>2, <2>5 DEF SessionInv
<1>7. CASE CleanupExpired
  <2> DEFINE old == {t \in Tokens : row[t] \in {"live", "revoked"} /\ exp[t] < now}
  <2>1. /\ row' = [t \in Tokens |-> IF t \in old THEN "deleted" ELSE row[t]]
        /\ ended' = ended \cup SessionsOf(old)
        /\ UNCHANGED <<head, removed, rpc, rtok, late>>
    BY <1>7 DEF CleanupExpired, requestVars
  <2>2. \A t \in old : t \in Tokens /\ row[t] # "none"
    OBVIOUS
  <2> HIDE DEF old
  <2>3. SessionsOf(old) = {head[t] : t \in {u \in old : row[u] = "live"}}
    BY DEF SessionsOf
  <2>4. \A h \in SessionsOf(old) : h \in Tokens /\ head[h] = h
    BY <1>1, <2>2, <2>3, IssuedHasHead
  <2>5. \A t \in Tokens : row'[t] = "live" <=> row[t] = "live" /\ t \notin old
    BY <2>1
  <2>6. HeadsAreHeads' /\ EndedWereBegun' /\ RotationsHaveTokens'
    BY <1>1, <2>1, <2>2, <2>4 DEF SessionTypeOK
  <2>7. OneTokenPerSession' /\ RemovalEndsSessions'
    BY <1>1, <2>1, <2>2, <2>3, <2>5
  <2> QED
    BY <1>0, <2>6, <2>7 DEF SessionInv
<1> QED
  BY <1>2, <1>3, <1>4, <1>5, <1>6, <1>7, StepRequestsOnly DEF SessionNext

\* The invariant of the sessions is one.
LEMMA SessionInvariance == SessionSpec => []SessionInv
<1>1. ASSUME SessionInit PROVE SessionInv
  <2> USE <1>1 DEF SessionInit
  <2>1. SessionTypeOK
    BY DEF SessionTypeOK, RowStates
  <2>2. HeadsAreHeads /\ EndedWereBegun /\ RotationsHaveTokens
    BY DEF HeadsAreHeads, EndedWereBegun, RotationsHaveTokens
  <2>3. OneTokenPerSession /\ RemovalEndsSessions
    BY TokensAssumption DEF OneTokenPerSession, RemovalEndsSessions
  <2> QED
    BY <2>1, <2>2, <2>3 DEF SessionInv
<1> QED
  BY <1>1, SessionStep, PTL DEF SessionSpec

-----------------------------------------------------------------------------
(***************************************************************************)
(* Sessions: the theorems                                                  *)
(***************************************************************************)

\* RefreshTokenService.rotate and revoke: a session never forks and never loses its
\* token by accident, and an ended one keeps none, for any number of tokens and requests.
THEOREM OneSession == SessionSpec => []OneTokenPerSession
<1>1. SessionInv => OneTokenPerSession
  BY DEF SessionInv
<1> QED
  BY <1>1, SessionInvariance, PTL

\* UsersService.remove: no session that was there survives the removal of its user.
THEOREM RemovalIsFinal == SessionSpec => []RemovalEndsSessions
<1>1. SessionInv => RemovalEndsSessions
  BY DEF SessionInv
<1> QED
  BY <1>1, SessionInvariance, PTL

\* A step of the sessions redeems, issues or voids tokens as OneTimeToken allows.
LEMMA SessionStepRefines ==
  SessionInv /\ [SessionNext]_sessionVars =>
    [Refreshes!Exchange]_<<[t \in Tokens |-> Standing(t)], used>>
<1> DEFINE standing == [t \in Tokens |-> Standing(t)]
<1> SUFFICES ASSUME SessionInv, [SessionNext]_sessionVars
             PROVE Refreshes!Exchange \/ UNCHANGED <<standing, used>>
  OBVIOUS
<1>1. SessionTypeOK /\ RotationsHaveTokens
  BY DEF SessionInv
<1> USE <1>1 DEF SessionTypeOK, RotationsHaveTokens, Standing, Refreshes!Exchange,
        Refreshes!Same, Refreshes!Issue, Refreshes!Redeem, Refreshes!Void
<1>2. CASE RequestsOnly
  BY <1>2 DEF RequestsOnly
<1>3. ASSUME NEW r \in Requests, NEW t \in Tokens, IssueToken(r, t)
      PROVE Refreshes!Exchange
  BY <1>3 DEF IssueToken, IsNextId, Inserted
<1>4. ASSUME NEW r \in Requests, NEW t \in Tokens, RotateCommit(r, t)
      PROVE Refreshes!Exchange
  BY <1>4 DEF RotateCommit, IsNextId, Inserted
<1>5. ASSUME NEW t \in Tokens, Revoke(t) PROVE Refreshes!Exchange
  BY <1>5 DEF Revoke
<1>6. CASE RemoveUser
  BY <1>6 DEF RemoveUser
<1>7. CASE CleanupExpired
  BY <1>7 DEF CleanupExpired, RowStates
<1> QED
  BY <1>2, <1>3, <1>4, <1>5, <1>6, <1>7, StepRequestsOnly DEF SessionNext

\* RefreshTokenService implements one-time tokens: redeemed at most once, and never good
\* again after they were redeemed, revoked or deleted.
THEOREM RefreshOnce == SessionSpec => RefreshTokensOnce
<1>1. SessionInit => Refreshes!Fresh
  BY DEF SessionInit, Standing, Refreshes!Fresh
<1> QED
  BY <1>1, SessionInvariance, SessionStepRefines, PTL
  DEF SessionSpec, RefreshTokensOnce, Refreshes!OneTimeSpec
-----------------------------------------------------------------------------
(***************************************************************************)
(* Users                                                                   *)
(***************************************************************************)

\* The types of the rows and of the requests.
RowsTypeOK == user \in [Accounts -> Row] /\ job \in [UserRequests -> Job]

\* What a request is about to write is of its kind; an insert is of a row that nobody
\* else works on and that is not there, every other write of one that was found.
JobsMakeSense ==
  \A q \in UserRequests :
    /\ job[q].kind # "none" => job[q].who \in Accounts
    /\ job[q].kind \in {"insert", "found", "name"} => job[q].value \in UserNames
    /\ job[q].kind = "special" => job[q].value \in BOOLEAN
    /\ job[q].kind \in {"verify", "password"} => job[q].value \in Passwords
    /\ job[q].kind \in {"found", "name", "special", "verify", "password"} =>
         user[job[q].who].name # NoName
    /\ job[q].kind = "insert" =>
         /\ user[job[q].who] = Absent
         /\ \A o \in UserRequests : job[o].kind # "none" /\ job[o].who = job[q].who => o = q

RowsInv == RowsTypeOK /\ JobsMakeSense

\* A request's new record, and the others' old ones.
LEMMA JobsKeep ==
  ASSUME RowsTypeOK, NEW q \in UserRequests, NEW work, job' = [job EXCEPT ![q] = work]
  PROVE  /\ job'[q] = work
         /\ \A o \in UserRequests : o # q => job'[o] = job[o]
         /\ work \in Job => job' \in [UserRequests -> Job]
  BY DEF RowsTypeOK

\* Idle is no work.
LEMMA IdleIsNone == Idle \in Job /\ Idle.kind = "none" /\ Idle.who = NoName
  BY DEF Idle, Job

\* A step that leaves every row alone and takes up no insert keeps the invariant when
\* the work is of its kind.
LEMMA WorkOnly ==
  ASSUME RowsInv, NEW q \in UserRequests, NEW work \in Job,
         job' = [job EXCEPT ![q] = work], UNCHANGED user,
         /\ work.kind # "none" => work.who \in Accounts
         /\ work.kind \in {"insert", "found", "name"} => work.value \in UserNames
         /\ work.kind = "special" => work.value \in BOOLEAN
         /\ work.kind \in {"verify", "password"} => work.value \in Passwords
         /\ work.kind \in {"found", "name", "special", "verify", "password"} =>
              user[work.who].name # NoName
         /\ work.kind = "insert" =>
              /\ user[work.who] = Absent
              /\ \A o \in UserRequests : job[o].who # work.who
  PROVE  RowsInv'
<1>1. /\ job'[q] = work
      /\ \A o \in UserRequests : o # q => job'[o] = job[o]
      /\ job' \in [UserRequests -> Job]
  BY JobsKeep DEF RowsInv
<1>2. RowsTypeOK'
  BY <1>1 DEF RowsInv, RowsTypeOK
<1>3. work.kind \in {"none", "insert", "found", "name", "special", "verify", "password"}
  BY DEF Job
<1>4. ASSUME NEW o \in UserRequests, o # q, job[o].kind = "insert", work.kind # "none"
      PROVE  work.who # job[o].who
  <2>1. user[job[o].who].name = NoName
    BY <1>4 DEF RowsInv, JobsMakeSense, Absent
  <2> QED
    BY <1>3, <1>4, <2>1
<1>5. JobsMakeSense'
  BY <1>1, <1>4 DEF RowsInv, JobsMakeSense
<1> QED
  BY <1>2, <1>5 DEF RowsInv

\* Rows that are there are not absent.
LEMMA LiveIsThere ==
  \A u \in Accounts : Live(u) => user[u] # Absent /\ user[u].name # NoName /\ ~user[u].gone
  BY DEF Live, Absent

\* A step that gives one row that is there, or that its insert was for, a new content
\* with a name keeps the invariant.
LEMMA RowWritten ==
  ASSUME RowsInv, NEW u \in Accounts, NEW row0 \in Row,
         user' = [user EXCEPT ![u] = row0],
         row0.name # NoName,
         job' = job \/ \E q \in UserRequests : job' = [job EXCEPT ![q] = Idle],
         \A o \in UserRequests :
           job[o].kind = "insert" /\ job[o].who = u => job'[o] = Idle
  PROVE  RowsInv'
<1>1. user'[u] = row0 /\ \A v \in Accounts : v # u => user'[v] = user[v]
  BY DEF RowsInv, RowsTypeOK
<1>2. job' \in [UserRequests -> Job]
      /\ \A o \in UserRequests : job'[o] = job[o] \/ job'[o] = Idle
  BY IdleIsNone DEF RowsInv, RowsTypeOK
<1>3. RowsTypeOK'
  BY <1>2 DEF RowsInv, RowsTypeOK
<1>4. JobsMakeSense'
  BY <1>1, <1>2, IdleIsNone DEF RowsInv, JobsMakeSense
<1> QED
  BY <1>3, <1>4 DEF RowsInv

\* Every action on users keeps the requests sensible.
LEMMA RowsStep == RowsInv /\ [UsersNext]_userVars => RowsInv'
<1> SUFFICES ASSUME RowsInv, [UsersNext]_userVars PROVE RowsInv'
  OBVIOUS
<1>i. RowsTypeOK /\ JobsMakeSense
  BY DEF RowsInv
<1>t. (\A u \in Accounts : user[u] \in Row) /\ \A q \in UserRequests : job[q] \in Job
  BY <1>i DEF RowsTypeOK
<1>1. ASSUME NEW q \in UserRequests, Done(q), UNCHANGED user PROVE RowsInv'
  BY <1>1, WorkOnly, IdleIsNone DEF Done
<1>2. ASSUME NEW q \in UserRequests, NEW u \in Accounts, NEW n \in UserNames,
             CreateLooks(q, u, n)
      PROVE  RowsInv'
  <2> DEFINE work == [kind |-> "insert", who |-> u, value |-> n, read |-> NoHash]
  <2>1. work \in Job /\ work.kind = "insert" /\ work.who = u /\ work.value = n
    BY DEF Job
  <2> QED
    BY <1>2, <2>1, WorkOnly DEF CreateLooks, Takes
<1>3. ASSUME NEW q \in UserRequests, NEW u \in Accounts,
             NEW kind \in {"found", "special", "verify"}, NEW value, NEW read,
             Live(u), UNCHANGED user, read \in Passwords \cup {NoHash},
             kind = "found" => value \in UserNames,
             kind = "special" => value \in BOOLEAN,
             kind = "verify" => value \in Passwords,
             Takes(q, kind, u, value, read)
      PROVE  RowsInv'
  <2> DEFINE work == [kind |-> kind, who |-> u, value |-> value, read |-> read]
  <2>1. work \in Job /\ work.kind = kind /\ work.who = u /\ work.value = value
    BY <1>3 DEF Job
  <2>2. job' = [job EXCEPT ![q] = work]
    BY <1>3 DEF Takes
  <2> HIDE DEF work
  <2> QED
    BY <1>3, <2>1, <2>2, WorkOnly, LiveIsThere
<1>4. ASSUME NEW q \in UserRequests, NEW a \in Accounts, NEW u \in Accounts,
             NEW n \in UserNames, UpdateFinds(q, a, u, n)
      PROVE  RowsInv'
  BY <1>3, <1>4 DEF UpdateFinds
<1>5. ASSUME NEW q \in UserRequests, NEW a \in Accounts, NEW u \in Accounts,
             NEW s \in BOOLEAN, SpecialLooks(q, a, u, s)
      PROVE  RowsInv'
  BY <1>3, <1>5 DEF SpecialLooks
<1>6. ASSUME NEW q \in UserRequests, NEW u \in Accounts, NEW p \in Passwords,
             PasswordLooks(q, u, p)
      PROVE  RowsInv'
  <2>1. user[u].hash \in Passwords \cup {NoHash}
    BY <1>t DEF Row
  <2> QED
    BY <1>3, <1>6, <2>1 DEF PasswordLooks
<1>r. ASSUME NEW q \in UserRequests, NEW work \in Job,
             job' = [job EXCEPT ![q] = work], UNCHANGED user,
             \/ job[q].kind = "verify" /\ work.kind = "password"
             \/ job[q].kind = "found" /\ work.kind = "name",
             work.who = job[q].who, work.value = job[q].value
      PROVE  RowsInv'
  <2>1. /\ job'[q] = work /\ \A o \in UserRequests : o # q => job'[o] = job[o]
        /\ job' \in [UserRequests -> Job]
    BY <1>i, <1>r, JobsKeep
  <2> QED
    BY <1>i, <1>r, <2>1 DEF RowsInv, RowsTypeOK, JobsMakeSense
<1>7. ASSUME NEW q \in UserRequests, NEW p \in Passwords, PasswordVerified(q, p) PROVE RowsInv'
  <2>1. CASE p = job[q].read /\ job[q].value # job[q].read
    <3> DEFINE work == [job[q] EXCEPT !.kind = "password", !.read = p]
    <3>1. /\ work \in Job /\ work.kind = "password" /\ work.who = job[q].who
          /\ work.value = job[q].value
      BY <1>t DEF Job
    <3>2. job[q].kind = "verify" /\ UNCHANGED user /\ job' = [job EXCEPT ![q] = work]
      BY <1>7, <2>1 DEF PasswordVerified
    <3> HIDE DEF work
    <3> QED
      BY <1>r, <3>1, <3>2
  <2>2. CASE ~(p = job[q].read /\ job[q].value # job[q].read)
    BY <1>1, <1>7, <2>2 DEF PasswordVerified, Done
  <2> QED
    BY <2>1, <2>2
<1>0. ASSUME NEW q \in UserRequests, UpdateLooks(q) PROVE RowsInv'
  <2>1. CASE ~TakenByLive(job[q].who, job[q].value)
    <3> DEFINE work == [job[q] EXCEPT !.kind = "name"]
    <3>1. /\ work \in Job /\ work.kind = "name" /\ work.who = job[q].who
          /\ work.value = job[q].value
      BY <1>t DEF Job
    <3>2. job[q].kind = "found" /\ UNCHANGED user /\ job' = [job EXCEPT ![q] = work]
      BY <1>0, <2>1 DEF UpdateLooks
    <3> HIDE DEF work
    <3> QED
      BY <1>r, <3>1, <3>2
  <2>2. CASE TakenByLive(job[q].who, job[q].value)
    BY <1>0, <1>1, <2>2 DEF UpdateLooks
  <2> QED
    BY <2>1, <2>2
<1>8. ASSUME NEW q \in UserRequests, NEW p \in Passwords, CreateWrites(q, p) PROVE RowsInv'
  <2> DEFINE u == job[q].who
             row0 == [name |-> job[q].value, hash |-> p, special |-> FALSE, gone |-> FALSE]
  <2>1. CASE Indexed(u, job[q].value)
    BY <1>1, <1>8, <2>1 DEF CreateWrites
  <2>2. CASE ~Indexed(u, job[q].value)
    <3>1. u \in Accounts /\ job[q].value \in UserNames /\ user[u] = Absent
      BY <1>8, <1>i DEF CreateWrites, JobsMakeSense
    <3>2. row0 \in Row /\ row0.name = job[q].value
      BY <3>1 DEF Row
    <3>3. user' = [user EXCEPT ![u] = row0] /\ job' = [job EXCEPT ![q] = Idle]
      BY <1>8, <2>2 DEF CreateWrites, Done
    <3>4. \A o \in UserRequests : job[o].kind = "insert" /\ job[o].who = u => o = q
      BY <1>8, <1>i DEF CreateWrites, JobsMakeSense
    <3> HIDE DEF row0, u
    <3>5. \A o \in UserRequests :
            job[o].kind = "insert" /\ job[o].who = u => job'[o] = Idle
      BY <1>i, <3>3, <3>4, JobsKeep
    <3>6. row0.name # NoName
      BY <3>1, <3>2, AccountsAssumption
    <3> QED
      BY <3>1, <3>2, <3>3, <3>5, <3>6, RowWritten
  <2> QED
    BY <2>1, <2>2
<1>9. ASSUME NEW q \in UserRequests, NEW row0 \in Row,
             job[q].kind \in {"name", "special", "password"},
             user' = [user EXCEPT ![job[q].who] = row0],
             job' = [job EXCEPT ![q] = Idle],
             row0.name # user[job[q].who].name => row0.name \in UserNames
      PROVE  RowsInv'
  <2> DEFINE u == job[q].who
  <2>1. u \in Accounts
    BY <1>9, <1>i DEF JobsMakeSense
  <2>2. \A o \in UserRequests : ~(job[o].kind = "insert" /\ job[o].who = u)
    BY <1>9, <1>i DEF JobsMakeSense
  <2>3. job' = [job EXCEPT ![q] = Idle]
    BY <1>9
  <2>4. row0.name # NoName
    BY <1>9, <1>i, AccountsAssumption DEF JobsMakeSense
  <2> QED
    BY <1>9, <2>1, <2>2, <2>3, <2>4, RowWritten
<1>10. ASSUME NEW q \in UserRequests, UpdateWrites(q) PROVE RowsInv'
  <2> DEFINE u == job[q].who
             row0 == [user[u] EXCEPT !.name = job[q].value]
  <2>1. CASE Indexed(u, job[q].value)
    BY <1>1, <1>10, <2>1 DEF UpdateWrites
  <2>2. CASE ~Indexed(u, job[q].value)
    <3>1. u \in Accounts /\ job[q].value \in UserNames
      BY <1>10, <1>i DEF UpdateWrites, JobsMakeSense
    <3>2. row0 \in Row /\ row0.name = job[q].value
      BY <1>t, <3>1 DEF Row
    <3>3. /\ user' = [user EXCEPT ![u] = row0] /\ job[q].kind = "name"
          /\ job' = [job EXCEPT ![q] = Idle]
      BY <1>10, <2>2 DEF UpdateWrites, Done
    <3> QED
      BY <1>9, <3>1, <3>2, <3>3
  <2> QED
    BY <2>1, <2>2
<1>11. ASSUME NEW q \in UserRequests, SpecialWrites(q) PROVE RowsInv'
  <2> DEFINE u == job[q].who
             row0 == [user[u] EXCEPT !.special = job[q].value]
  <2>1. u \in Accounts /\ job[q].value \in BOOLEAN
    BY <1>11, <1>i DEF SpecialWrites, JobsMakeSense
  <2>2. row0 \in Row /\ row0.name = user[u].name
    BY <1>t, <2>1 DEF Row
  <2>3. /\ user' = [user EXCEPT ![u] = row0] /\ job[q].kind = "special"
        /\ job' = [job EXCEPT ![q] = Idle]
    BY <1>11 DEF SpecialWrites, Done
  <2> QED
    BY <1>9, <2>2, <2>3
<1>12. ASSUME NEW q \in UserRequests, PasswordWrites(q) PROVE RowsInv'
  <2> DEFINE u == job[q].who
             row0 == [user[u] EXCEPT !.hash = job[q].value]
  <2>1. u \in Accounts /\ job[q].value \in Passwords
    BY <1>12, <1>i DEF PasswordWrites, JobsMakeSense
  <2>2. row0 \in Row /\ row0.name = user[u].name
    BY <1>t, <2>1 DEF Row
  <2>3. /\ user' = [user EXCEPT ![u] = row0] /\ job[q].kind = "password"
        /\ job' = [job EXCEPT ![q] = Idle]
    BY <1>12 DEF PasswordWrites
  <2> QED
    BY <1>9, <2>2, <2>3
<1>13. ASSUME NEW u \in Accounts, NEW row0 \in Row, UNCHANGED job,
              user' = [user EXCEPT ![u] = row0],
              row0.name # NoName,
              \A o \in UserRequests : job[o].kind = "insert" => job[o].who # u
       PROVE  RowsInv'
  BY <1>13, RowWritten
<1>l. ASSUME NEW u \in Accounts, Live(u)
      PROVE  /\ user[u].name # NoName
             /\ \A o \in UserRequests : job[o].kind = "insert" => job[o].who # u
  BY <1>i, <1>l, LiveIsThere DEF JobsMakeSense
<1>14. ASSUME NEW a \in Accounts, NEW u \in Accounts, NEW p \in Passwords,
              ResetByAdmin(a, u, p)
       PROVE  RowsInv'
  <2> DEFINE row0 == [user[u] EXCEPT !.hash = p]
  <2>1. row0 \in Row /\ row0.name = user[u].name
    BY <1>t DEF Row
  <2>2. user' = [user EXCEPT ![u] = row0] /\ UNCHANGED job /\ Live(u)
    BY <1>14 DEF ResetByAdmin
  <2> QED
    BY <1>13, <1>l, <2>1, <2>2
<1>15. ASSUME NEW a \in Accounts, NEW u \in Accounts, RemoveAccount(a, u) PROVE RowsInv'
  <2> DEFINE row0 == [user[u] EXCEPT !.gone = TRUE]
  <2>1. row0 \in Row /\ row0.name = user[u].name
    BY <1>t DEF Row
  <2>2. user' = [user EXCEPT ![u] = row0] /\ UNCHANGED job /\ Live(u)
    BY <1>15 DEF RemoveAccount
  <2> QED
    BY <1>13, <1>l, <2>1, <2>2
<1>16. ASSUME NEW u \in Accounts, NEW n \in UserNames, OAuthCreates(u, n) PROVE RowsInv'
  <2> DEFINE row0 == [Absent EXCEPT !.name = n]
  <2>1. row0 \in Row /\ row0.name = n
    BY DEF Row, Absent
  <2>2. /\ user' = [user EXCEPT ![u] = row0] /\ UNCHANGED job
        /\ \A o \in UserRequests : job[o].who # u
    BY <1>16 DEF OAuthCreates
  <2> HIDE DEF row0
  <2> QED
    BY <1>13, <2>1, <2>2, AccountsAssumption
<1>17. ASSUME NEW q \in UserRequests, RequestEnds(q) PROVE RowsInv'
  BY <1>1, <1>17 DEF RequestEnds
<1>18. ASSUME UNCHANGED userVars PROVE RowsInv'
  BY <1>i, <1>18 DEF userVars, RowsInv, RowsTypeOK, JobsMakeSense
<1> QED
  BY <1>0, <1>2, <1>4, <1>5, <1>6, <1>7, <1>8, <1>10, <1>11, <1>12, <1>14, <1>15, <1>16, <1>17,
     <1>18
  DEF UsersNext

\* What the verification of a password is about to be used for: the password that was
\* found, and then shown, is the account's, or the request was overtaken.
PasswordsInOrder ==
  /\ overtaken \in SUBSET UserRequests
  /\ \A q \in UserRequests :
       job[q].kind \in {"verify", "password"} =>
         job[q].read = user[job[q].who].hash \/ q \in overtaken

UsersInv == RowsInv /\ PasswordsInOrder

\* A request that took up other work, or none, and the others as they were.
LEMMA OtherWork ==
  ASSUME RowsInv, PasswordsInOrder, NEW q \in UserRequests, NEW work,
         job' = [job EXCEPT ![q] = work], UNCHANGED user,
         work.kind \notin {"verify", "password"},
         overtaken' = overtaken \/ overtaken' = overtaken \ {q}
  PROVE  PasswordsInOrder'
<1>1. job'[q] = work /\ \A o \in UserRequests : o # q => job'[o] = job[o]
  BY JobsKeep DEF RowsInv
<1> QED
  BY <1>1 DEF PasswordsInOrder

\* A row that was written where no password is being changed, or whose password stays.
LEMMA PasswordStays ==
  ASSUME RowsInv, PasswordsInOrder, NEW u \in Accounts, NEW row0,
         user' = [user EXCEPT ![u] = row0],
         row0.hash = user[u].hash \/ Changing(u) = {},
         \/ job' = job /\ overtaken' = overtaken
         \/ \E q \in UserRequests : Done(q)
  PROVE  PasswordsInOrder'
<1>1. user'[u] = row0 /\ \A v \in Accounts : v # u => user'[v] = user[v]
  BY DEF RowsInv, RowsTypeOK
<1>2. \A o \in UserRequests : /\ job'[o] = job[o] \/ job'[o] = Idle
                              /\ job'[o] # Idle => (o \in overtaken' <=> o \in overtaken)
  BY DEF RowsInv, RowsTypeOK, Done
<1>3. overtaken' \in SUBSET UserRequests
  BY DEF PasswordsInOrder, Done
<1>4. \A o \in UserRequests : job[o].kind \in {"verify", "password"} =>
        /\ job[o].who \in Accounts
        /\ job[o].who = u => o \in Changing(u)
  BY DEF RowsInv, JobsMakeSense, Changing
<1> QED
  BY <1>1, <1>2, <1>3, <1>4, IdleIsNone DEF PasswordsInOrder

\* A row whose password was written, and everybody marked who was changing it.
LEMMA PasswordOvertakes ==
  ASSUME RowsInv, PasswordsInOrder, NEW u \in Accounts, NEW p,
         user' = [user EXCEPT ![u].hash = p],
         \/ job' = job /\ overtaken' = overtaken \cup Changing(u)
         \/ \E q \in UserRequests :
              /\ job' = [job EXCEPT ![q] = Idle]
              /\ overtaken' = (overtaken \cup Changing(u)) \ {q}
  PROVE  PasswordsInOrder'
<1>1. \A v \in Accounts : v # u => user'[v] = user[v]
  BY DEF RowsInv, RowsTypeOK
<1>2. \A o \in UserRequests :
        /\ job'[o] = job[o] \/ job'[o] = Idle
        /\ job'[o] # Idle => (o \in overtaken' <=> o \in overtaken \cup Changing(u))
  BY DEF RowsInv, RowsTypeOK
<1>3. Changing(u) \in SUBSET UserRequests
  BY DEF Changing
<1>4. \A o \in UserRequests : job[o].kind \in {"verify", "password"} =>
        /\ job[o].who \in Accounts
        /\ job[o].who = u => o \in Changing(u)
  BY DEF RowsInv, JobsMakeSense, Changing
<1>5. overtaken' \in SUBSET UserRequests
  BY <1>3 DEF PasswordsInOrder
<1> QED
  BY <1>1, <1>2, <1>4, <1>5, IdleIsNone DEF PasswordsInOrder

\* Every action on users keeps the account of who has shown what.
LEMMA PasswordsStep ==
  RowsInv /\ PasswordsInOrder /\ [UsersNext]_userVars => PasswordsInOrder'
<1> SUFFICES ASSUME RowsInv, PasswordsInOrder, [UsersNext]_userVars
             PROVE  PasswordsInOrder'
  OBVIOUS
<1>i. RowsTypeOK /\ JobsMakeSense
  BY DEF RowsInv
<1>t. (\A u \in Accounts : user[u] \in Row) /\ \A q \in UserRequests : job[q] \in Job
  BY <1>i DEF RowsTypeOK
<1>1. ASSUME NEW q \in UserRequests, Done(q), UNCHANGED user PROVE PasswordsInOrder'
  BY <1>1, OtherWork, IdleIsNone DEF Done
<1>2. ASSUME NEW q \in UserRequests, NEW u, NEW value, NEW kind \in {"insert", "found", "special"},
             Takes(q, kind, u, value, NoHash), UNCHANGED user
      PROVE  PasswordsInOrder'
  <2> DEFINE work == [kind |-> kind, who |-> u, value |-> value, read |-> NoHash]
  <2>1. work.kind \notin {"verify", "password"} /\ job' = [job EXCEPT ![q] = work]
        /\ UNCHANGED overtaken
    BY <1>2 DEF Takes
  <2> HIDE DEF work
  <2> QED
    BY <1>2, <2>1, OtherWork
<1>3. ASSUME NEW q \in UserRequests, NEW u \in Accounts, NEW p \in Passwords,
             PasswordLooks(q, u, p)
      PROVE  PasswordsInOrder'
  <2> DEFINE work == [kind |-> "verify", who |-> u, value |-> p, read |-> user[u].hash]
  <2>1. work.who = u /\ work.read = user[u].hash /\ job' = [job EXCEPT ![q] = work]
        /\ UNCHANGED <<user, overtaken>>
    BY <1>3 DEF PasswordLooks, Takes
  <2> HIDE DEF work
  <2>2. job'[q] = work /\ \A o \in UserRequests : o # q => job'[o] = job[o]
    BY <1>i, <2>1, JobsKeep
  <2> QED
    BY <2>1, <2>2 DEF PasswordsInOrder
<1>4. ASSUME NEW q \in UserRequests, NEW p \in Passwords, PasswordVerified(q, p)
      PROVE  PasswordsInOrder'
  <2>1. CASE p = job[q].read /\ job[q].value # job[q].read
    <3> DEFINE work == [job[q] EXCEPT !.kind = "password", !.read = p]
    <3>1. work.who = job[q].who /\ work.read = job[q].read
      BY <1>t, <2>1 DEF Job
    <3>2. /\ job[q].kind = "verify" /\ job' = [job EXCEPT ![q] = work]
          /\ UNCHANGED <<user, overtaken>>
      BY <1>4, <2>1 DEF PasswordVerified
    <3> HIDE DEF work
    <3>3. job'[q] = work /\ \A o \in UserRequests : o # q => job'[o] = job[o]
      BY <1>i, <3>2, JobsKeep
    <3> QED
      BY <3>1, <3>2, <3>3 DEF PasswordsInOrder
  <2>2. CASE ~(p = job[q].read /\ job[q].value # job[q].read)
    BY <1>1, <1>4, <2>2 DEF PasswordVerified
  <2> QED
    BY <2>1, <2>2
<1>5. ASSUME NEW q \in UserRequests, NEW p \in Passwords, CreateWrites(q, p)
      PROVE  PasswordsInOrder'
  <2> DEFINE u == job[q].who
             row0 == [name |-> job[q].value, hash |-> p, special |-> FALSE, gone |-> FALSE]
  <2>1. CASE Indexed(u, job[q].value)
    BY <1>1, <1>5, <2>1 DEF CreateWrites
  <2>2. CASE ~Indexed(u, job[q].value)
    <3>1. u \in Accounts /\ Changing(u) = {}
      BY <1>5, <1>i DEF CreateWrites, JobsMakeSense, Changing
    <3>2. user' = [user EXCEPT ![u] = row0] /\ Done(q)
      BY <1>5, <2>2 DEF CreateWrites
    <3> HIDE DEF u, row0
    <3> QED
      BY <3>1, <3>2, PasswordStays
  <2> QED
    BY <2>1, <2>2
<1>0. ASSUME NEW q \in UserRequests, UpdateLooks(q) PROVE PasswordsInOrder'
  <2>1. CASE ~TakenByLive(job[q].who, job[q].value)
    <3> DEFINE work == [job[q] EXCEPT !.kind = "name"]
    <3>1. /\ work.kind = "name" /\ job' = [job EXCEPT ![q] = work]
          /\ UNCHANGED <<user, overtaken>>
      BY <1>0, <1>t, <2>1 DEF UpdateLooks, Job
    <3> HIDE DEF work
    <3> QED
      BY <3>1, OtherWork
  <2>2. CASE TakenByLive(job[q].who, job[q].value)
    BY <1>0, <1>1, <2>2 DEF UpdateLooks
  <2> QED
    BY <2>1, <2>2
<1>6. ASSUME NEW q \in UserRequests, UpdateWrites(q) PROVE PasswordsInOrder'
  <2> DEFINE u == job[q].who
             row0 == [user[u] EXCEPT !.name = job[q].value]
  <2>1. CASE Indexed(u, job[q].value)
    BY <1>1, <1>6, <2>1 DEF UpdateWrites
  <2>2. CASE ~Indexed(u, job[q].value)
    <3>1. u \in Accounts
      BY <1>6, <1>i DEF UpdateWrites, JobsMakeSense
    <3>2. user' = [user EXCEPT ![u] = row0] /\ Done(q) /\ row0.hash = user[u].hash
      BY <1>6, <1>t, <2>2, <3>1 DEF UpdateWrites, Row
    <3> HIDE DEF u, row0
    <3> QED
      BY <3>1, <3>2, PasswordStays
  <2> QED
    BY <2>1, <2>2
<1>7. ASSUME NEW q \in UserRequests, SpecialWrites(q) PROVE PasswordsInOrder'
  <2> DEFINE u == job[q].who
             row0 == [user[u] EXCEPT !.special = job[q].value]
  <2>1. u \in Accounts
    BY <1>7, <1>i DEF SpecialWrites, JobsMakeSense
  <2>2. user' = [user EXCEPT ![u] = row0] /\ Done(q) /\ row0.hash = user[u].hash
    BY <1>7, <1>t, <2>1 DEF SpecialWrites, Row
  <2> HIDE DEF u, row0
  <2> QED
    BY <2>1, <2>2, PasswordStays
<1>8. ASSUME NEW q \in UserRequests, PasswordWrites(q) PROVE PasswordsInOrder'
  <2>1. job[q].who \in Accounts
    BY <1>8, <1>i DEF PasswordWrites, JobsMakeSense
  <2> QED
    BY <1>8, <2>1, PasswordOvertakes DEF PasswordWrites
<1>9. ASSUME NEW a \in Accounts, NEW u \in Accounts, NEW p \in Passwords,
             ResetByAdmin(a, u, p)
      PROVE  PasswordsInOrder'
  BY <1>9, PasswordOvertakes DEF ResetByAdmin
<1>10. ASSUME NEW a \in Accounts, NEW u \in Accounts, RemoveAccount(a, u)
       PROVE  PasswordsInOrder'
  <2> DEFINE row0 == [user[u] EXCEPT !.gone = TRUE]
  <2>1. /\ user' = [user EXCEPT ![u] = row0] /\ UNCHANGED <<job, overtaken>>
        /\ row0.hash = user[u].hash
    BY <1>10, <1>t DEF RemoveAccount, Row
  <2> HIDE DEF row0
  <2> QED
    BY <2>1, PasswordStays
<1>11. ASSUME NEW u \in Accounts, NEW n \in UserNames, OAuthCreates(u, n)
       PROVE  PasswordsInOrder'
  <2> DEFINE row0 == [Absent EXCEPT !.name = n]
  <2>1. /\ user' = [user EXCEPT ![u] = row0] /\ UNCHANGED <<job, overtaken>>
        /\ Changing(u) = {}
    BY <1>11 DEF OAuthCreates, Changing
  <2> HIDE DEF row0
  <2> QED
    BY <2>1, PasswordStays
<1>12. CASE UNCHANGED userVars
  BY <1>12 DEF userVars, PasswordsInOrder
<1> QED
  BY <1>0, <1>1, <1>2, <1>3, <1>4, <1>5, <1>6, <1>7, <1>8, <1>9, <1>10, <1>11, <1>12
  DEF UsersNext, CreateLooks, UpdateFinds, SpecialLooks, RequestEnds

\* The invariant of the users is one.
LEMMA UsersStep == UsersInv /\ [UsersNext]_userVars => UsersInv'
BY RowsStep, PasswordsStep DEF UsersInv

LEMMA UsersInitInv == UsersInit => UsersInv
<1> SUFFICES ASSUME UsersInit PROVE UsersInv
  OBVIOUS
<1> USE AccountsAssumption DEF UsersInit
<1>1. RowsTypeOK
  BY IdleIsNone DEF RowsTypeOK, Row, Absent
<1>2. JobsMakeSense
  BY IdleIsNone DEF JobsMakeSense, Absent, Idle
<1>3. PasswordsInOrder
  BY IdleIsNone DEF PasswordsInOrder
<1> QED
  BY <1>1, <1>2, <1>3 DEF UsersInv, RowsInv

LEMMA UsersInvariance == UsersSpec => []UsersInv
BY UsersInitInv, UsersStep, PTL DEF UsersSpec

\* UsersService.updatePassword: for any number of requests that change passwords, whoever
\* is about to has shown the account's password, unless another change overtook him.
THEOREM NobodyChangesUnshown == UsersSpec => []ShownIsCurrent
<1>1. UsersInv => ShownIsCurrent
  BY DEF UsersInv, PasswordsInOrder, ShownIsCurrent
<1> QED
  BY <1>1, UsersInvariance, PTL

-----------------------------------------------------------------------------
(***************************************************************************)
(* Roles                                                                   *)
(***************************************************************************)

\* A role that is being created is not there and is being created once; every other
\* change is of roles that were found.
ChangesFoundTheirRoles ==
  \A q \in Changes, r \in RoleIds : r \in rq[q].roles =>
    /\ rq[q].kind = "create" =>
         /\ roleState[r] = "absent"
         /\ \A o \in Changes : rq[o].kind = "create" /\ r \in rq[o].roles => o = q
    /\ rq[q].kind \in {"assign", "update", "remove"} => roleState[r] # "absent"

\* Unless they raced: nobody holds a role that is about to be removed, and nobody is
\* about to use one that was.
RemovalsAreAlone ==
  \A q \in Changes, r \in RoleIds : r \in rq[q].roles /\ r \notin raced =>
    /\ rq[q].kind = "remove" => HoldersOf(r) = {}
    /\ roleState[r] = "gone" => rq[q].kind \notin {"assign", "update"}

RolesInv ==
  /\ RolesTypeOK
  /\ ChangesFoundTheirRoles
  /\ RemovalsAreAlone
  /\ RemovedRoleIsBare

\* A request's new record, and the others' old ones.
LEMMA ChangesKeep ==
  ASSUME RolesTypeOK, NEW q \in Changes, NEW change, rq' = [rq EXCEPT ![q] = change]
  PROVE  /\ rq'[q] = change
         /\ \A o \in Changes : o # q => rq'[o] = rq[o]
         /\ change \in Change => rq' \in [Changes -> Change]
  BY DEF RolesTypeOK

\* No change is one, and concerns no role.
LEMMA NothingChanges ==
  NoChange \in Change /\ NoChange.kind = "none" /\ NoChange.roles = {}
  BY DEF NoChange, Change

\* A step that ends the request q, or begins another one, and touches no role.
LEMMA RequestOnly ==
  ASSUME RolesInv, NEW q \in Changes, NEW change \in Change,
         rq' = [rq EXCEPT ![q] = change],
         UNCHANGED <<roleState, held, grants, permGone, raced>>,
         \A r \in change.roles :
           /\ change.kind = "create" =>
                roleState[r] = "absent" /\ Others(q, {"create"}, r) = {}
           /\ change.kind \in {"assign", "update", "remove"} => roleState[r] = "live"
           /\ change.kind = "remove" => HoldersOf(r) = {}
  PROVE  RolesInv'
<1>1. /\ rq'[q] = change
      /\ \A o \in Changes : o # q => rq'[o] = rq[o]
      /\ rq' \in [Changes -> Change]
  BY ChangesKeep DEF RolesInv
<1>2. RolesTypeOK' /\ RemovedRoleIsBare'
  BY <1>1 DEF RolesInv, RolesTypeOK, RemovedRoleIsBare, HoldersOf
<1>3. \A r \in RoleIds : HoldersOf(r)' = HoldersOf(r)
  BY DEF HoldersOf
<1>4. ChangesFoundTheirRoles'
  BY <1>1 DEF RolesInv, ChangesFoundTheirRoles, Others
<1>5. RemovalsAreAlone'
  BY <1>1, <1>3 DEF RolesInv, RemovalsAreAlone
<1> QED
  BY <1>2, <1>4, <1>5 DEF RolesInv

\* Every action on roles keeps removed roles bare, or notes that they raced.
LEMMA RolesStep == RolesInv /\ [RolesNext]_roleVars => RolesInv'
<1> SUFFICES ASSUME RolesInv, [RolesNext]_roleVars PROVE RolesInv'
  OBVIOUS
<1>i. RolesTypeOK /\ ChangesFoundTheirRoles /\ RemovalsAreAlone /\ RemovedRoleIsBare
  BY DEF RolesInv
<1>t. \A q \in Changes : rq[q] \in Change /\ rq[q].roles \subseteq RoleIds
  BY <1>i DEF RolesTypeOK, Change
<1>1. ASSUME NEW q \in Changes, NEW u \in People, NEW rs \in SUBSET RoleIds,
             AssignCheck(q, u, rs)
      PROVE  RolesInv'
  <2> DEFINE c == [NoChange EXCEPT !.kind = "assign", !.who = {u}, !.roles = rs,
                                   !.seen = {h \in held : h[1] = u}]
  <2>1. c \in Change /\ c.kind = "assign" /\ c.roles = rs
    BY <1>i DEF NoChange, Change, RolesTypeOK
  <2> QED
    BY <1>1, <2>1, RequestOnly DEF AssignCheck, Asks
<1>2. ASSUME NEW q \in Changes, NEW r \in RoleIds, NEW ps \in SUBSET Permissions,
             CreateCheck(q, r, ps)
      PROVE  RolesInv'
  <2> DEFINE c == [NoChange EXCEPT !.kind = "create", !.roles = {r}, !.perms = ps]
  <2>1. c \in Change /\ c.kind = "create" /\ c.roles = {r}
    BY DEF NoChange, Change
  <2> QED
    BY <1>2, <2>1, RequestOnly DEF CreateCheck, Asks
<1>3. ASSUME NEW q \in Changes, NEW r \in RoleIds, NEW ps \in SUBSET Permissions,
             UpdateCheck(q, r, ps)
      PROVE  RolesInv'
  <2> DEFINE c == [NoChange EXCEPT !.kind = "update", !.roles = {r}, !.perms = ps]
  <2>1. c \in Change /\ c.kind = "update" /\ c.roles = {r}
    BY DEF NoChange, Change
  <2> QED
    BY <1>3, <2>1, RequestOnly DEF UpdateCheck, Asks
<1>4. ASSUME NEW q \in Changes, NEW r \in RoleIds, RemoveCheck(q, r) PROVE RolesInv'
  <2> DEFINE c == [NoChange EXCEPT !.kind = "remove", !.roles = {r}]
  <2>1. c \in Change /\ c.kind = "remove" /\ c.roles = {r}
    BY DEF NoChange, Change
  <2> QED
    BY <1>4, <2>1, RequestOnly DEF RemoveCheck, Asks
<1>5. ASSUME NEW q \in Changes, ChangeFails(q) PROVE RolesInv'
  BY <1>5, NothingChanges, RequestOnly DEF ChangeFails, Ends
<1>6. ASSUME NEW q \in Changes, AssignCommit(q) PROVE RolesInv'
  <2>1. /\ rq[q].kind = "assign"
        /\ held' \subseteq held \cup (rq[q].who \X rq[q].roles)
        /\ raced' = raced \cup {r \in rq[q].roles : Others(q, {"remove"}, r) # {}}
        /\ UNCHANGED <<roleState, grants, permGone>>
        /\ rq'[q] = NoChange /\ \A o \in Changes : o # q => rq'[o] = rq[o]
        /\ rq' \in [Changes -> Change]
    BY <1>6, <1>i, ChangesKeep, NothingChanges DEF AssignCommit, Ends
  <2>2. rq[q].who \in SUBSET People /\ rq[q].roles \in SUBSET RoleIds
    BY <1>t DEF Change
  <2>3. RolesTypeOK'
    BY <1>i, <2>1, <2>2 DEF RolesTypeOK
  <2>4. ChangesFoundTheirRoles'
    BY <1>i, <2>1, NothingChanges DEF ChangesFoundTheirRoles
  <2>5. \A r \in RoleIds : r \notin rq[q].roles /\ HoldersOf(r) = {} => HoldersOf(r)' = {}
    BY <2>1 DEF HoldersOf
  <2>6. RemovalsAreAlone'
    BY <1>i, <2>1, <2>5, NothingChanges DEF RemovalsAreAlone, Others
  <2>7. RemovedRoleIsBare'
    BY <1>i, <2>1, <2>5 DEF RemovalsAreAlone, RemovedRoleIsBare
  <2> QED
    BY <2>3, <2>4, <2>6, <2>7 DEF RolesInv
<1>7. ASSUME NEW q \in Changes, CreateCommit(q) PROVE RolesInv'
  <2>1. /\ rq[q].kind = "create"
        /\ roleState' = [r \in RoleIds |-> IF r \in rq[q].roles THEN "live" ELSE roleState[r]]
        /\ grants' = grants \cup (rq[q].roles \X rq[q].perms)
        /\ UNCHANGED <<held, permGone, raced>>
        /\ rq'[q] = NoChange /\ \A o \in Changes : o # q => rq'[o] = rq[o]
        /\ rq' \in [Changes -> Change]
    BY <1>7, <1>i, ChangesKeep, NothingChanges DEF CreateCommit, Ends
  <2>2. rq[q].perms \in SUBSET Permissions /\ rq[q].roles \in SUBSET RoleIds
    BY <1>t DEF Change
  <2>3. RolesTypeOK'
    BY <1>i, <2>1, <2>2 DEF RolesTypeOK
  <2>4. ChangesFoundTheirRoles'
    BY <1>i, <2>1, NothingChanges DEF ChangesFoundTheirRoles
  <2>5. RemovalsAreAlone'
    BY <1>i, <2>1, NothingChanges DEF RemovalsAreAlone, HoldersOf
  <2>6. RemovedRoleIsBare'
    BY <1>i, <2>1 DEF RemovedRoleIsBare, HoldersOf
  <2> QED
    BY <2>3, <2>4, <2>5, <2>6 DEF RolesInv
<1>8. ASSUME NEW q \in Changes, UpdateCommit(q) PROVE RolesInv'
  <2>1. /\ rq[q].kind = "update"
        /\ grants' \subseteq grants \cup (rq[q].roles \X rq[q].perms)
        /\ UNCHANGED <<roleState, held, permGone, raced>>
        /\ rq'[q] = NoChange /\ \A o \in Changes : o # q => rq'[o] = rq[o]
        /\ rq' \in [Changes -> Change]
    BY <1>8, <1>i, ChangesKeep, NothingChanges DEF UpdateCommit, Ends
  <2>2. rq[q].perms \in SUBSET Permissions /\ rq[q].roles \in SUBSET RoleIds
    BY <1>t DEF Change
  <2>3. RolesTypeOK'
    BY <1>i, <2>1, <2>2 DEF RolesTypeOK
  <2>4. ChangesFoundTheirRoles'
    BY <1>i, <2>1, NothingChanges DEF ChangesFoundTheirRoles
  <2>5. RemovalsAreAlone'
    BY <1>i, <2>1, NothingChanges DEF RemovalsAreAlone, HoldersOf
  <2>6. RemovedRoleIsBare'
    BY <1>i, <2>1 DEF RemovalsAreAlone, RemovedRoleIsBare, HoldersOf
  <2> QED
    BY <2>3, <2>4, <2>5, <2>6 DEF RolesInv
<1>9. ASSUME NEW q \in Changes, RemoveCommit(q) PROVE RolesInv'
  <2>1. /\ rq[q].kind = "remove"
        /\ roleState' = [r \in RoleIds |-> IF r \in rq[q].roles THEN "gone" ELSE roleState[r]]
        /\ grants' = {g \in grants : g[1] \notin rq[q].roles}
        /\ raced' = raced \cup {r \in rq[q].roles : Others(q, {"assign", "update"}, r) # {}}
        /\ UNCHANGED <<held, permGone>>
        /\ rq'[q] = NoChange /\ \A o \in Changes : o # q => rq'[o] = rq[o]
        /\ rq' \in [Changes -> Change]
    BY <1>9, <1>i, ChangesKeep, NothingChanges DEF RemoveCommit, Ends
  <2>2. RolesTypeOK'
    BY <1>i, <1>t, <2>1 DEF RolesTypeOK
  <2>3. ChangesFoundTheirRoles'
    BY <1>i, <2>1, NothingChanges DEF ChangesFoundTheirRoles
  <2>4. RemovalsAreAlone'
    BY <1>i, <2>1, NothingChanges DEF RemovalsAreAlone, HoldersOf, Others
  <2>5. \A r \in rq[q].roles, p \in Permissions : <<r, p>> \notin grants'
    BY <2>1
  <2>6. RemovedRoleIsBare'
    BY <1>i, <2>1, <2>5 DEF RemovalsAreAlone, RemovedRoleIsBare, HoldersOf
  <2> QED
    BY <2>2, <2>3, <2>4, <2>6 DEF RolesInv
<1>10. ASSUME NEW p \in Permissions, RemovePermission(p) PROVE RolesInv'
  BY <1>i, <1>10 DEF RemovePermission, RolesInv, RolesTypeOK, ChangesFoundTheirRoles,
     RemovalsAreAlone, RemovedRoleIsBare, HoldersOf
<1>11. CASE UNCHANGED roleVars
  BY <1>i, <1>11 DEF roleVars, RolesInv, RolesTypeOK, ChangesFoundTheirRoles,
     RemovalsAreAlone, RemovedRoleIsBare, HoldersOf
<1> QED
  BY <1>1, <1>2, <1>3, <1>4, <1>5, <1>6, <1>7, <1>8, <1>9, <1>10, <1>11 DEF RolesNext

LEMMA RolesInvariance == RolesSpec => []RolesInv
<1>1. ASSUME RolesInit PROVE RolesInv
  <2> USE <1>1 DEF RolesInit
  <2>1. RolesTypeOK
    BY NothingChanges DEF RolesTypeOK
  <2>2. ChangesFoundTheirRoles /\ RemovalsAreAlone /\ RemovedRoleIsBare
    BY NothingChanges DEF ChangesFoundTheirRoles, RemovalsAreAlone, RemovedRoleIsBare
  <2> QED
    BY <2>1, <2>2 DEF RolesInv
<1> QED
  BY <1>1, RolesStep, PTL DEF RolesSpec

\* RolesService.remove: a removed role has no holder and no permission, unless its
\* removal overlapped with a change that had found it, for any number of administrators.
THEOREM RemovedStaysBare == RolesSpec => []RemovedRoleIsBare
<1>1. RolesInv => RemovedRoleIsBare
  BY DEF RolesInv
<1> QED
  BY <1>1, RolesInvariance, PTL

-----------------------------------------------------------------------------
(***************************************************************************)
(* Signing in with GitHub: the inductive invariant                         *)
(***************************************************************************)

\* A callback tries again only when somebody has the name it tried, or when the
\* identity is there by now.
TriesAreJustified ==
  \A c \in Callbacks :
    /\ cpc[c] = "retry" => identity # Nobody \/ BaseName \in others
    /\ cpc[c] = "refind" =>
         identity # Nobody \/ (BaseName \in others /\ Suffixed \cap others # {})

\* A callback issues its ticket with its last step.
TicketsComeLast == \A c \in Callbacks : ticket[c] # "absent" => cpc[c] = "done"

OAuthInv ==
  /\ OAuthTypeOK
  /\ OneAccount
  /\ TriesAreJustified
  /\ RacesAreCaught
  /\ TicketsComeLast

-----------------------------------------------------------------------------
\* Every action of the login keeps every variable in its type.
LEMMA OAuthStepType == OAuthTypeOK /\ [OAuthNext]_oauthVars => OAuthTypeOK'
<1> SUFFICES ASSUME OAuthTypeOK, [OAuthNext]_oauthVars PROVE OAuthTypeOK'
  OBVIOUS
<1> USE NamesAssumption
    DEF OAuthTypeOK, Places, Names, CallbackStates, accountVars, storeVars, callbackFrame,
        Goto
<1>1. ASSUME NEW s \in States, StateExpires(s) PROVE OAuthTypeOK'
  BY <1>1 DEF StateExpires
<1>2. ASSUME NEW s \in States, NEW p \in Servers, GenerateState(s, p) PROVE OAuthTypeOK'
  BY <1>2 DEF GenerateState
<1>3. ASSUME NEW s \in States, NEW p \in Servers, NEW c \in Callbacks,
             ConsumeState(c, s, p)
      PROVE  OAuthTypeOK'
  <2>1. stateUses[s] \in Nat
    OBVIOUS
  <2>2. stateUses[s] + 1 \in Nat
    BY <2>1
  <2>3. stateUses' \in [States -> Nat]
    BY <1>3, <2>2 DEF ConsumeState
  <2> QED
    BY <1>3, <2>3 DEF ConsumeState
<1>4. ASSUME NEW c \in Callbacks, CallGithub(c) PROVE OAuthTypeOK'
  BY <1>4 DEF CallGithub
<1>5. ASSUME NEW c \in Callbacks, FindIdentity(c) PROVE OAuthTypeOK'
  BY <1>5 DEF FindIdentity
<1>6. ASSUME NEW c \in Callbacks, CreateGithubUser(c) PROVE OAuthTypeOK'
  BY <1>6 DEF CreateGithubUser, CreateUserWithIdentity
<1>7. ASSUME NEW c \in Callbacks, RetryWithSuffix(c) PROVE OAuthTypeOK'
  BY <1>7 DEF RetryWithSuffix, CreateUserWithIdentity
<1>8. ASSUME NEW c \in Callbacks, TicketExpires(c) PROVE OAuthTypeOK'
  BY <1>8 DEF TicketExpires
<1>9. ASSUME NEW c \in Callbacks, NEW p \in Servers, IssueTicket(c, p) PROVE OAuthTypeOK'
  BY <1>9 DEF IssueTicket
<1>10. ASSUME NEW c \in Callbacks, NEW p \in Servers, ConsumeTicket(c, p)
       PROVE  OAuthTypeOK'
  <2>1. ticketUses[c] \in Nat
    OBVIOUS
  <2>2. ticketUses[c] + 1 \in Nat
    BY <2>1
  <2>3. ticketUses' \in [Callbacks -> Nat]
    BY <1>10, <2>2 DEF ConsumeTicket
  <2> QED
    BY <1>10, <2>3 DEF ConsumeTicket
<1>11. ASSUME NEW name \in Names, NameIsTaken(name) PROVE OAuthTypeOK'
  BY <1>11 DEF NameIsTaken
<1>12. CASE UNCHANGED oauthVars
  BY <1>12 DEF oauthVars
<1> QED
  BY <1>1, <1>2, <1>3, <1>4, <1>5, <1>6, <1>7, <1>8, <1>9, <1>10, <1>11, <1>12
  DEF OAuthNext

\* The transaction of createUserWithIdentity, and the P2002 that rolls it back: with
\* an account there is an identity, or there is neither.
LEMMA CreationIsAtomic ==
  ASSUME OAuthInv, NEW c \in Callbacks, NEW name \in Names, NEW onConflict,
         CreateUserWithIdentity(c, name, onConflict)
  PROVE  \/ /\ identity # Nobody \/ name \in others
            /\ Goto(c, onConflict, Nobody)
            /\ UNCHANGED <<accounts, identity>>
         \/ /\ identity = Nobody /\ identity' = name /\ identity' # Nobody
            /\ accounts' = {name}
            /\ Goto(c, "load", name)
  BY NamesAssumption DEF OAuthInv, OneAccount, CreateUserWithIdentity, Names

\* Every action of the login keeps the one account, and catches its races.
LEMMA OAuthStep == OAuthInv /\ [OAuthNext]_oauthVars => OAuthInv'
<1> SUFFICES ASSUME OAuthInv, [OAuthNext]_oauthVars PROVE OAuthInv'
  OBVIOUS
<1> DEFINE Rest == OneAccount /\ TriesAreJustified /\ RacesAreCaught /\ TicketsComeLast
<1>0. OAuthTypeOK'
  BY OAuthStepType DEF OAuthInv
<1> USE DEF OAuthInv, OneAccount, TriesAreJustified, RacesAreCaught, TicketsComeLast,
            accountVars, storeVars, callbackFrame, Goto
<1>1. ASSUME NEW s \in States, StateExpires(s) PROVE Rest'
  BY <1>1 DEF StateExpires
<1>2. ASSUME NEW s \in States, NEW p \in Servers, GenerateState(s, p) PROVE Rest'
  BY <1>2 DEF GenerateState
<1>3. ASSUME NEW s \in States, NEW p \in Servers, NEW c \in Callbacks,
             ConsumeState(c, s, p)
      PROVE  Rest'
  BY <1>3 DEF ConsumeState, OAuthTypeOK
<1>4. ASSUME NEW c \in Callbacks, CallGithub(c) PROVE Rest'
  BY <1>4 DEF CallGithub, OAuthTypeOK
<1>5. ASSUME NEW c \in Callbacks, FindIdentity(c) PROVE Rest'
  BY <1>5 DEF FindIdentity, OAuthTypeOK
<1>6. ASSUME NEW c \in Callbacks, CreateGithubUser(c) PROVE Rest'
  <2>1. cpc[c] = "create" /\ UNCHANGED callbackFrame
        /\ CreateUserWithIdentity(c, BaseName, "retry") /\ BaseName \in Names
    BY <1>6 DEF CreateGithubUser, Names
  <2>2. \/ /\ identity # Nobody \/ BaseName \in others
           /\ Goto(c, "retry", Nobody)
           /\ UNCHANGED <<accounts, identity>>
        \/ /\ identity = Nobody /\ identity' = BaseName /\ identity' # Nobody
           /\ accounts' = {BaseName}
           /\ Goto(c, "load", BaseName)
    BY <2>1, CreationIsAtomic
  <2> QED
    BY <2>1, <2>2 DEF OAuthTypeOK
<1>7. ASSUME NEW c \in Callbacks, RetryWithSuffix(c) PROVE Rest'
  <2>1. cpc[c] = "retry" /\ UNCHANGED callbackFrame
    BY <1>7 DEF RetryWithSuffix
  <2>2. PICK name \in Suffixed : CreateUserWithIdentity(c, name, "refind")
    BY <1>7 DEF RetryWithSuffix
  <2>3. \/ /\ identity # Nobody \/ name \in others
           /\ Goto(c, "refind", Nobody)
           /\ UNCHANGED <<accounts, identity>>
        \/ /\ identity = Nobody /\ identity' = name /\ identity' # Nobody
           /\ accounts' = {name}
           /\ Goto(c, "load", name)
    BY <2>2, CreationIsAtomic DEF Names
  <2> QED
    BY <2>1, <2>3 DEF OAuthTypeOK
<1>8. ASSUME NEW c \in Callbacks, TicketExpires(c) PROVE Rest'
  BY <1>8 DEF TicketExpires, OAuthTypeOK
<1>9. ASSUME NEW c \in Callbacks, NEW p \in Servers, IssueTicket(c, p) PROVE Rest'
  BY <1>9 DEF IssueTicket, OAuthTypeOK
<1>10. ASSUME NEW c \in Callbacks, NEW p \in Servers, ConsumeTicket(c, p) PROVE Rest'
  BY <1>10 DEF ConsumeTicket, OAuthTypeOK
<1>11. ASSUME NEW name \in Names, NameIsTaken(name) PROVE Rest'
  BY <1>11 DEF NameIsTaken
<1>12. ASSUME UNCHANGED oauthVars PROVE Rest'
  BY <1>12 DEF oauthVars
<1>13. Rest'
  BY <1>1, <1>2, <1>3, <1>4, <1>5, <1>6, <1>7, <1>8, <1>9, <1>10, <1>11, <1>12
  DEF OAuthNext
<1> QED
  BY <1>0, <1>13

\* The invariant of the login is one.
LEMMA OAuthInvariance == OAuthSpec => []OAuthInv
<1>1. ASSUME OAuthInit PROVE OAuthInv
  <2> USE <1>1 DEF OAuthInit
  <2>1. OAuthTypeOK
    BY DEF OAuthTypeOK, Places, CallbackStates
  <2>2. OneAccount /\ TriesAreJustified /\ RacesAreCaught /\ TicketsComeLast
    BY DEF OneAccount, TriesAreJustified, RacesAreCaught, TicketsComeLast
  <2> QED
    BY <2>1, <2>2 DEF OAuthInv
<1> QED
  BY <1>1, OAuthStep, PTL DEF OAuthSpec

-----------------------------------------------------------------------------
(***************************************************************************)
(* The theorems                                                            *)
(***************************************************************************)

\* AuthService.loginWithGithub: one account per GitHub user, never one without its
\* identity, and tickets only for it, for any number of racing callbacks.
THEOREM OneGithubAccount == OAuthSpec => []OneAccount
<1>1. OAuthInv => OneAccount
  BY DEF OAuthInv
<1> QED
  BY <1>1, OAuthInvariance, PTL

\* auth.service.ts:128-129: no callback fails because of another one, for any number
\* of them and of suffixes.
THEOREM EveryRaceIsCaught == OAuthSpec => []RacesAreCaught
<1>1. OAuthInv => RacesAreCaught
  BY DEF OAuthInv
<1> QED
  BY <1>1, OAuthInvariance, PTL

\* A step of the login treats every state as OneTimeToken allows.
LEMMA StateStepRefines ==
  OAuthInv /\ [OAuthNext]_oauthVars => [StatesOnce!Exchange]_<<state, stateUses>>
<1> SUFFICES ASSUME OAuthInv, [OAuthNext]_oauthVars
             PROVE StatesOnce!Exchange \/ UNCHANGED <<state, stateUses>>
  OBVIOUS
<1> USE DEF OAuthInv, OAuthTypeOK, StatesOnce!Exchange, StatesOnce!Same, StatesOnce!Issue,
            StatesOnce!Redeem, StatesOnce!Void, storeVars, callbackFrame
<1>1. ASSUME NEW s \in States, StateExpires(s) PROVE StatesOnce!Exchange
  BY <1>1 DEF StateExpires
<1>2. ASSUME NEW s \in States, NEW p \in Servers, GenerateState(s, p)
      PROVE  StatesOnce!Exchange
  BY <1>2 DEF GenerateState
<1>3. ASSUME NEW s \in States, NEW p \in Servers, NEW c \in Callbacks,
             ConsumeState(c, s, p)
      PROVE  StatesOnce!Exchange
  BY <1>3 DEF ConsumeState
<1>4. ASSUME NEW c \in Callbacks,
             \/ CallGithub(c) \/ FindIdentity(c) \/ CreateGithubUser(c)
             \/ RetryWithSuffix(c) \/ TicketExpires(c)
             \/ \E p \in Servers : IssueTicket(c, p) \/ ConsumeTicket(c, p)
      PROVE  UNCHANGED <<state, stateUses>>
  BY <1>4 DEF CallGithub, FindIdentity, CreateGithubUser, RetryWithSuffix, TicketExpires,
              IssueTicket, ConsumeTicket
<1>5. ASSUME (\E name \in Names : NameIsTaken(name)) \/ UNCHANGED oauthVars
      PROVE  UNCHANGED <<state, stateUses>>
  BY <1>5 DEF NameIsTaken, oauthVars
<1> QED
  BY <1>1, <1>2, <1>3, <1>4, <1>5 DEF OAuthNext

\* A step of the login treats every ticket as OneTimeToken allows.
LEMMA TicketStepRefines ==
  OAuthInv /\ [OAuthNext]_oauthVars => [TicketsOnce!Exchange]_<<ticket, ticketUses>>
<1> SUFFICES ASSUME OAuthInv, [OAuthNext]_oauthVars
             PROVE TicketsOnce!Exchange \/ UNCHANGED <<ticket, ticketUses>>
  OBVIOUS
<1> USE DEF OAuthInv, OAuthTypeOK, TicketsComeLast, TicketsOnce!Exchange, TicketsOnce!Same,
            TicketsOnce!Issue, TicketsOnce!Redeem, TicketsOnce!Void, storeVars,
            callbackFrame
<1>1. ASSUME NEW c \in Callbacks, TicketExpires(c) PROVE TicketsOnce!Exchange
  BY <1>1 DEF TicketExpires
<1>2. ASSUME NEW c \in Callbacks, NEW p \in Servers, IssueTicket(c, p)
      PROVE  TicketsOnce!Exchange
  BY <1>2 DEF IssueTicket
<1>3. ASSUME NEW c \in Callbacks, NEW p \in Servers, ConsumeTicket(c, p)
      PROVE  TicketsOnce!Exchange
  BY <1>3 DEF ConsumeTicket
<1>4. ASSUME NEW s \in States,
             \/ StateExpires(s)
             \/ \E p \in Servers :
                  GenerateState(s, p) \/ \E c \in Callbacks : ConsumeState(c, s, p)
      PROVE  UNCHANGED <<ticket, ticketUses>>
  BY <1>4 DEF StateExpires, GenerateState, ConsumeState
<1>5. ASSUME NEW c \in Callbacks,
             CallGithub(c) \/ FindIdentity(c) \/ CreateGithubUser(c) \/ RetryWithSuffix(c)
      PROVE  UNCHANGED <<ticket, ticketUses>>
  BY <1>5 DEF CallGithub, FindIdentity, CreateGithubUser, RetryWithSuffix
<1>6. ASSUME (\E name \in Names : NameIsTaken(name)) \/ UNCHANGED oauthVars
      PROVE  UNCHANGED <<ticket, ticketUses>>
  BY <1>6 DEF NameIsTaken, oauthVars
<1> QED
  BY <1>1, <1>2, <1>3, <1>4, <1>5, <1>6 DEF OAuthNext

\* OAuthStateService and OAuthTicketService implement one-time tokens, in Redis and in
\* a Map per process: consumed at most once, and never good again afterwards.
THEOREM CredentialsOnce == OAuthSpec => OAuthCredentialsOnce
<1>1. OAuthInit => StatesOnce!Fresh /\ TicketsOnce!Fresh
  BY DEF OAuthInit, StatesOnce!Fresh, TicketsOnce!Fresh
<1> QED
  BY <1>1, OAuthInvariance, StateStepRefines, TicketStepRefines, PTL
  DEF OAuthSpec, OAuthCredentialsOnce, StatesOnce!OneTimeSpec, TicketsOnce!OneTimeSpec

=============================================================================
