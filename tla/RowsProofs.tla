----------------------------- MODULE RowsProofs -----------------------------
(***************************************************************************)
(* What holds of the ids that a process gives, for any clock and any size  *)
(* of the sequence number (SnowflakeIncreases); and of all the services    *)
(* about rows, and what a process or a browser keeps, in the one system    *)
(* that the run checks (RowsParts, RowsTypes, RowsKeepPromises,            *)
(* RowsImplement).                                                         *)
(***************************************************************************)
EXTENDS MCRows, AccountProofs, PostProofs, PostRevisionProofs, JobPageProofs

-----------------------------------------------------------------------------
(***************************************************************************)
(* Snowflake ids                                                           *)
(***************************************************************************)

\* Every id that was given is of a millisecond an earlier process used, of a past one,
\* or of the current one and not above the sequence number, which is used up while the
\* process waits for the next.
GivenAreBelow ==
  \A id \in given :
    \/ id[1] <= before
    \/ id[1] < lastTime
    \/ id[1] = lastTime /\ (waiting \/ id[2] <= sequence)

SnowflakeInv == SnowflakeTypeOK /\ GivenAreBelow /\ IdsIncrease

\* The mask takes the last sequence number to 0 and every other one to the next.
LEMMA Masked ==
  \A s \in 0..SeqSize - 1 :
    (s + 1) % SeqSize = IF s + 1 = SeqSize THEN 0 ELSE s + 1
  BY SnowflakeAssumption

\* An id of a millisecond after lastTimestamp, or of the same one with a higher
\* sequence number, is above all that were given but those of an earlier process.
LEMMA GiveOrdered ==
  ASSUME SnowflakeInv, NEW t \in Times, NEW s \in 0..SeqSize - 1, Give(t, s),
         UNCHANGED before,
         t > lastTime \/ (t = lastTime /\ ~waiting /\ s > sequence)
  PROVE  /\ given' \in SUBSET (Times \X (0..SeqSize - 1))
         /\ disorder' \in BOOLEAN /\ behind' \in BOOLEAN
         /\ \A id \in given' :
              id[1] <= before' \/ id[1] < t \/ (id[1] = t /\ id[2] <= s)
         /\ IdsIncrease'
<1> USE SnowflakeAssumption
    DEF SnowflakeInv, SnowflakeTypeOK, GivenAreBelow, Give, Times
<1>1. /\ given' \in SUBSET (Times \X (0..SeqSize - 1))
      /\ disorder' \in BOOLEAN /\ behind' \in BOOLEAN
  OBVIOUS
<1>2. \A id \in given : id[1] \in Int /\ id[2] \in Int
  OBVIOUS
<1>3. \A id \in given' : id[1] <= before' \/ id[1] < t \/ (id[1] = t /\ id[2] <= s)
  BY <1>2
<1>4. ASSUME NEW id \in given, ~Above(<<t, s>>, id) PROVE t <= before
  BY <1>2, <1>4 DEF Above
<1>5. IdsIncrease'
  BY <1>4 DEF IdsIncrease
<1> QED
  BY <1>1, <1>3, <1>5

\* Every action of the id generator keeps the ids given below what it gives next.
LEMMA SnowflakeStep == SnowflakeInv /\ [SnowflakeNext]_snowflakeVars => SnowflakeInv'
<1> SUFFICES ASSUME SnowflakeInv, [SnowflakeNext]_snowflakeVars PROVE SnowflakeInv'
  OBVIOUS
<1> USE SnowflakeAssumption DEF SnowflakeInv
<1>0. 0 \in 0..SeqSize - 1
  OBVIOUS
<1>1. CASE NextIdNewTime
  <2>1. Give(clock, 0) /\ clock \in Times /\ clock > lastTime /\ UNCHANGED <<clock, waiting, before, back>>
    BY <1>1 DEF NextIdNewTime, SnowflakeTypeOK
  <2> QED
    BY <2>1, <1>0, GiveOrdered DEF Give, SnowflakeTypeOK, GivenAreBelow
<1>2. CASE NextIdSameTime
  <2> DEFINE s == (sequence + 1) % SeqSize
  <2>1. s \in 0..SeqSize - 1 /\ (s = 0 \/ s > sequence)
    BY Masked DEF SnowflakeTypeOK
  <2>2. CASE s = 0
    BY <1>2, <2>2, <1>0 DEF NextIdSameTime, SnowflakeTypeOK, GivenAreBelow, IdsIncrease
  <2>3. CASE s # 0
    <3>1. Give(clock, s) /\ clock \in Times /\ clock = lastTime /\ ~waiting
          /\ UNCHANGED <<clock, waiting, before, back>>
      BY <1>2, <2>3 DEF NextIdSameTime, SnowflakeTypeOK
    <3> HIDE DEF s
    <3> QED
      BY <3>1, <2>1, <2>3, GiveOrdered DEF Give, SnowflakeTypeOK, GivenAreBelow
  <2> QED
    BY <2>2, <2>3
<1>3. CASE NextMillis
  <2>1. Give(clock, 0) /\ clock \in Times /\ clock > lastTime /\ waiting' = FALSE
        /\ UNCHANGED <<clock, before, back>>
    BY <1>3 DEF NextMillis, SnowflakeTypeOK
  <2> QED
    BY <2>1, <1>0, GiveOrdered DEF Give, SnowflakeTypeOK, GivenAreBelow
<1>4. CASE Restart
  <2> USE <1>4 DEF Restart
  <2>1. SnowflakeTypeOK'
    BY <1>0 DEF SnowflakeTypeOK
  <2>2. before' \in Int /\ before' >= before /\ before' >= lastTime
    BY DEF SnowflakeTypeOK, Times
  <2>3. ASSUME NEW id \in given PROVE id[1] \in Int
    BY DEF SnowflakeTypeOK, Times
  <2>4. GivenAreBelow'
    BY <2>2, <2>3 DEF GivenAreBelow, SnowflakeTypeOK, Times
  <2> QED
    BY <2>1, <2>4 DEF IdsIncrease
<1>5. CASE ClockGoesOn
  BY <1>5 DEF ClockGoesOn, SnowflakeTypeOK, GivenAreBelow, IdsIncrease, Times
<1>6. CASE ClockSetBack
  BY <1>6 DEF ClockSetBack, SnowflakeTypeOK, GivenAreBelow, IdsIncrease, Times
<1>7. CASE UNCHANGED snowflakeVars
  BY <1>7 DEF snowflakeVars, SnowflakeTypeOK, GivenAreBelow, IdsIncrease
<1> QED
  BY <1>1, <1>2, <1>3, <1>4, <1>5, <1>6, <1>7 DEF SnowflakeNext

LEMMA SnowflakeInvariance == SnowflakeSpec => []SnowflakeInv
<1>1. ASSUME SnowflakeInit PROVE SnowflakeInv
  <2> USE <1>1, SnowflakeAssumption DEF SnowflakeInit
  <2>1. SnowflakeTypeOK
    <3>1. waiting \in BOOLEAN /\ disorder \in BOOLEAN /\ behind \in BOOLEAN
      OBVIOUS
    <3>2. clock \in Times /\ sequence \in 0..SeqSize - 1 /\ back \in 0..MaxBack
      BY DEF Times
    <3>3. lastTime \in Times \cup {-1} /\ before \in Times \cup {-1}
      OBVIOUS
    <3>4. given \in SUBSET (Times \X (0..SeqSize - 1))
      OBVIOUS
    <3> QED
      BY <3>1, <3>2, <3>3, <3>4 DEF SnowflakeTypeOK
  <2>2. GivenAreBelow /\ IdsIncrease
    BY DEF GivenAreBelow, IdsIncrease
  <2> QED
    BY <2>1, <2>2 DEF SnowflakeInv
<1> QED
  BY <1>1, SnowflakeStep, PTL DEF SnowflakeSpec

\* Snowflake.nextId: the ids of one process increase through full milliseconds, clocks
\* set back and restarts; only a process that comes to a millisecond of its predecessor
\* gives ids that are not new.
THEOREM SnowflakeIncreases == SnowflakeSpec => []IdsIncrease
<1>1. SnowflakeInv => IdsIncrease
  BY DEF SnowflakeInv
<1> QED
  BY <1>1, SnowflakeInvariance, PTL

-----------------------------------------------------------------------------
(***************************************************************************)
(* All of them together                                                    *)
(***************************************************************************)

\* A step of one part leaves the others alone: it is a step or a stutter of each.
LEMMA EachPartSteps ==
  ASSUME [Next]_vars
  PROVE  /\ [SessionNext]_sessionVars
         /\ [OAuthNext]_oauthVars
         /\ [UsersNext]_userVars
         /\ [RolesNext]_roleVars
         /\ [RevisionsNext]_revisionVars
         /\ [CoversNext]_coverVars
         /\ [FeedNext]_feedVars
         /\ [SnowflakeNext]_snowflakeVars
         /\ [PageNext]_pageVars
         /\ [PermitsNext]_permitVars
<1>1. CASE OnlySessions
  BY <1>1 DEF OnlySessions
<1>2. CASE OnlyOAuth
  BY <1>2 DEF OnlyOAuth
<1>3. CASE OnlyUsers
  BY <1>3 DEF OnlyUsers
<1>4. CASE OnlyRoles
  BY <1>4 DEF OnlyRoles
<1>5. CASE OnlyRevisions
  BY <1>5 DEF OnlyRevisions
<1>6. CASE OnlyCovers
  BY <1>6 DEF OnlyCovers
<1>7. CASE OnlyFeed
  BY <1>7 DEF OnlyFeed
<1>8. CASE OnlySnowflake
  BY <1>8 DEF OnlySnowflake
<1>9. CASE OnlyPage
  BY <1>9 DEF OnlyPage
<1>10. CASE OnlyPermits
  BY <1>10 DEF OnlyPermits
<1>11. CASE UNCHANGED vars
  BY <1>11 DEF vars
<1> QED
  BY <1>1, <1>2, <1>3, <1>4, <1>5, <1>6, <1>7, <1>8, <1>9, <1>10, <1>11 DEF Next

\* No two of the services write the same rows, files or memory, so that a behaviour of
\* the whole is one of each of them.
THEOREM RowsParts ==
  Spec => /\ SessionSpec /\ OAuthSpec /\ UsersSpec /\ RolesSpec /\ RevisionsSpec
          /\ CoversSpec /\ FeedSpec /\ SnowflakeSpec /\ PageSpec /\ PermitsSpec
<1>1. Init => /\ SessionInit /\ OAuthInit /\ UsersInit /\ RolesInit /\ RevisionsInit
              /\ CoversInit /\ FeedInit /\ SnowflakeInit /\ PageInit /\ PermitsInit
  BY DEF Init, FeedStarts, OAuthStarts
<1> QED
  BY <1>1, EachPartSteps, PTL
     DEF Spec, SessionSpec, OAuthSpec, UsersSpec, RolesSpec, RevisionsSpec, CoversSpec,
         FeedSpec, SnowflakeSpec, PageSpec, PermitsSpec

\* Every variable of every part keeps its type, whatever the others do meanwhile; among
\* them: no permit is lost, and the page's parser never keeps a whole block.
THEOREM RowsTypes == Spec => []TypeOK
<1>1. /\ SessionInv => SessionTypeOK
      /\ OAuthInv => OAuthTypeOK
      /\ RolesInv => RolesTypeOK
      /\ RevisionsInv => RevisionsTypeOK
      /\ CoversInv => CoversTypeOK
      /\ FeedInv => FeedTypeOK
      /\ SnowflakeInv => SnowflakeTypeOK
      /\ PermitsInv => PermitsTypeOK
  BY DEF SessionInv, OAuthInv, RolesInv, RevisionsInv, CoversInv, FeedInv, SnowflakeInv,
         PermitsInv
<1>2. UsersInv => UsersTypeOK
  BY DEF UsersInv, RowsInv, RowsTypeOK, PasswordsInOrder, UsersTypeOK
<1>3. Spec => [](/\ SessionTypeOK /\ OAuthTypeOK /\ UsersTypeOK /\ RolesTypeOK
                 /\ RevisionsTypeOK /\ CoversTypeOK /\ FeedTypeOK /\ SnowflakeTypeOK
                 /\ PageTypeOK /\ PermitsTypeOK)
  BY <1>1, <1>2, RowsParts, SessionInvariance, OAuthInvariance, UsersInvariance,
     RolesInvariance, RevisionsInvariance, CoversInvariance, FeedInvariance,
     SnowflakeInvariance, PageTypes, PermitsInvariance, PTL
<1> QED
  BY <1>3, PTL DEF TypeOK

\* What is promised of the rows of users, posts and roles, and of what a process or a
\* browser keeps, holds of the system of all of them.
THEOREM RowsKeepPromises ==
  Spec => /\ [](OneTokenPerSession /\ RemovalEndsSessions)
          /\ [](OneAccount /\ RacesAreCaught)
          /\ []ShownIsCurrent
          /\ []RemovedRoleIsBare
          /\ [](RevisionsExact /\ RetryConnects)
          /\ [](FilesExact /\ MetaKept)
          /\ []FeedExact
          /\ []IdsIncrease
          /\ []PanelExact
          /\ []PermitsExact
          /\ NoLostUpdate
BY RowsParts, OneSession, RemovalIsFinal, OneGithubAccount, EveryRaceIsCaught,
   NobodyChangesUnshown, RemovedStaysBare, ExactHistory, SecondAttemptConnects,
   FilesStayExact, MetaStays, EveryPostOnce, SnowflakeIncreases,
   PanelIsNewest, NoPermitIsLost, NoUpdateLost, PTL

\* And what is an abstract specification's: refresh tokens, OAuth states and tickets are
\* redeemed once, the revisions are a history, the permits a fair semaphore.
THEOREM RowsImplement ==
  Spec => RefreshTokensOnce /\ OAuthCredentialsOnce /\ ImplementsHistory /\ ImplementsSemaphore
BY RowsParts, RefreshOnce, CredentialsOnce, RevisionsAreHistory, SemaphoreIsFair, PTL
=============================================================================
