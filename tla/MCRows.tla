------------------------------- MODULE MCRows -------------------------------
(***************************************************************************)
(* Model values for TLC's run about what the rows of the database keep:    *)
(* sessions, OAuth accounts, users, roles, and posts with their revisions, *)
(* covers and pages - and about what a process or a browser keeps for      *)
(* itself: ids, the permits of uploads, and the page that follows a job.   *)
(* The parts have no state in common, so that a behaviour of one of them   *)
(* at a time shows all there is to see; `part` says of which.              *)
(***************************************************************************)
EXTENDS Sessions, OAuthLogin, Users, Roles, PostRevisions, PostCovers, PostFeed, Snowflake,
        JobPage, UploadPermits

CONSTANTS r1, r2, r3, r4, r5, s1, s2, c1, c2, p1, p2, base, suf1, suf2, u1, u2, role1, perm1, perm2,
          n1, n2, w1, w2, t1, t2, g1, g2, j1, j2

VARIABLE part

FourTokens == 1..4
TwoRequests == {r1, r2}
FiveRequests == {r1, r2, r3, r4, r5}
TwoStates == {s1, s2}
TwoCallbacks == {c1, c2}
TwoServers == {p1, p2}
TwoSuffixes == {suf1, suf2}
TwoAccounts == {Admin, u1}
ThreeNames == {Admin, n1, n2}
TwoPasswords == {w1, w2}
TwoPeople == {u1, u2}
OneRole == {role1}
TwoPermissions == {perm1, perm2}
TwoTexts == {t1, t2}
TwoTagLists == {{g1}, {g1, g2}}
TwoUploads == {c1, c2}
OneMeta == {t1}
FourPosts == 1..4
TwoKeys == 1..2
TwoJobs == {j1, j2}

vars == <<part, sessionVars, oauthVars, userVars, roleVars, revisionVars, coverVars, feedVars, snowflakeVars,
          pageVars, permitVars>>

\* The first state of a part that does not run does not matter.
FeedStarts ==
  FeedInit /\ (part # "feed" => order = "asc" /\ sortKey = [i \in PostIds |-> 0])

OAuthStarts == OAuthInit /\ (part # "oauth" => shared)

Init ==
  /\ part \in {"sessions", "oauth", "users", "roles", "revisions", "covers", "feed", "snowflake",
              "page", "permits"}
  /\ SessionInit /\ OAuthStarts /\ UsersInit /\ RolesInit /\ RevisionsInit /\ CoversInit
  /\ FeedStarts /\ SnowflakeInit /\ PageInit /\ PermitsInit

Runs(p) == part = p /\ UNCHANGED part

OnlySessions ==
  /\ Runs("sessions") /\ SessionNext
  /\ UNCHANGED <<oauthVars, userVars, roleVars, revisionVars, coverVars, feedVars, snowflakeVars,
                 pageVars, permitVars>>

OnlyOAuth ==
  /\ Runs("oauth") /\ OAuthNext
  /\ UNCHANGED <<sessionVars, userVars, roleVars, revisionVars, coverVars, feedVars, snowflakeVars,
                 pageVars, permitVars>>

OnlyUsers ==
  /\ Runs("users") /\ UsersNext
  /\ UNCHANGED <<sessionVars, oauthVars, roleVars, revisionVars, coverVars, feedVars, snowflakeVars,
                 pageVars, permitVars>>

OnlyRoles ==
  /\ Runs("roles") /\ RolesNext
  /\ UNCHANGED <<sessionVars, oauthVars, userVars, revisionVars, coverVars, feedVars, snowflakeVars,
                 pageVars, permitVars>>

OnlyRevisions ==
  /\ Runs("revisions") /\ RevisionsNext
  /\ UNCHANGED <<sessionVars, oauthVars, userVars, roleVars, coverVars, feedVars, snowflakeVars,
                 pageVars, permitVars>>

OnlyCovers ==
  /\ Runs("covers") /\ CoversNext
  /\ UNCHANGED <<sessionVars, oauthVars, userVars, roleVars, revisionVars, feedVars, snowflakeVars,
                 pageVars, permitVars>>

OnlyFeed ==
  /\ Runs("feed") /\ FeedNext
  /\ UNCHANGED <<sessionVars, oauthVars, userVars, roleVars, revisionVars, coverVars, snowflakeVars,
                 pageVars, permitVars>>

OnlySnowflake ==
  /\ Runs("snowflake") /\ SnowflakeNext
  /\ UNCHANGED <<sessionVars, oauthVars, userVars, roleVars, revisionVars, coverVars, feedVars,
                 pageVars, permitVars>>

OnlyPage ==
  /\ Runs("page") /\ PageNext
  /\ UNCHANGED <<sessionVars, oauthVars, userVars, roleVars, revisionVars, coverVars, feedVars,
                 snowflakeVars, permitVars>>

OnlyPermits ==
  /\ Runs("permits") /\ PermitsNext
  /\ UNCHANGED <<sessionVars, oauthVars, userVars, roleVars, revisionVars, coverVars, feedVars,
                 snowflakeVars, pageVars>>

Next ==
  \/ OnlySessions
  \/ OnlyOAuth
  \/ OnlyUsers
  \/ OnlyRoles
  \/ OnlyRevisions
  \/ OnlyCovers
  \/ OnlyFeed
  \/ OnlySnowflake
  \/ OnlyPage
  \/ OnlyPermits

Spec == Init /\ [][Next]_vars

\* Every variable keeps its type in every part.
TypeOK ==
  /\ SessionTypeOK /\ OAuthTypeOK /\ UsersTypeOK /\ RolesTypeOK
  /\ RevisionsTypeOK /\ CoversTypeOK /\ FeedTypeOK /\ SnowflakeTypeOK
  /\ PageTypeOK /\ PermitsTypeOK
=============================================================================
