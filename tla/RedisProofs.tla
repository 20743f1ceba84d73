---------------------------- MODULE RedisProofs ----------------------------
(***************************************************************************)
(* What holds of what the processes keep in Redis, for any number of       *)
(* processes and requests, any limits and any number of faults: of a post  *)
(* that is read through the cache and its place on the ranking             *)
(* (StalenessIsExplained, LoadsAreAwaited, ScoreIsKept), of the lock of an *)
(* account (GuessesStayBounded), of the distributed lock (LockExclusion)   *)
(* and of the throttler (ThrottleIsExact); and of all of them in the one   *)
(* system that the run checks (RedisTypes, RedisKeepsPromises).            *)
(***************************************************************************)
EXTENDS MCRedis, FiniteSetTheorems, TLAPS

-----------------------------------------------------------------------------
(***************************************************************************)
(* The cache of posts                                                      *)
(***************************************************************************)
\* Whoever is about to take the post off the ranking has found it gone, or failed.
DropsAreDue ==
  /\ \A r \in Readers : dpc[r] = "dropping" => gone \/ faults > 0
  /\ \A w \in Writers : upc[w] = "unranked" => gone

\* The inductive invariant: each of its last three parts is kept by every step on its own,
\* given the types.
PostCacheInv ==
  /\ PostCacheTypeOK
  /\ StaleOnlyWhenKnown
  /\ InFlightExact
  /\ DropsAreDue

-----------------------------------------------------------------------------
(***************************************************************************)
(* The cache: types                                                        *)
(***************************************************************************)
LEMMA KeyOfIsKey == \A r \in Readers : KeyOf(r) \in Keys
BY DEF KeyOf, Keys

\* What a reader goes on with keeps the types of the variables of readers.
ReadersTypeOK ==
  /\ dpc \in [Readers -> {"idle", "load", "miss", "joined", "fill", "dropping"}]
  /\ dkey \in [Readers -> {"post", "list", "ranked"}]
  /\ dval \in [Readers -> Versions \cup {Nothing}]

LEMMA AnsweredType ==
  ASSUME ReadersTypeOK, NEW r \in Readers, Answered(r)
  PROVE  ReadersTypeOK'
BY DEF ReadersTypeOK, Answered, Versions

LEMMA ReadsType ==
  ASSUME ReadersTypeOK, NEW r \in Readers, NEW pc \in {"load", "miss", "joined", "dropping"},
         NEW what \in {"post", "list", "ranked"}, Reads(r, pc, what)
  PROVE  ReadersTypeOK'
BY DEF ReadersTypeOK, Reads, Versions

LEMMA RejectedType ==
  ASSUME ReadersTypeOK, NEW r \in Readers, LoadRejected(r)
  PROVE  ReadersTypeOK'
BY AnsweredType, ReadsType DEF LoadRejected

LEMMA FaultType ==
  ASSUME faults \in 0..MaxFaults, Fault
  PROVE  faults' \in 0..MaxFaults /\ faults' > 0
BY PostBoundsAssumption DEF Fault

\* The variables of writes, of what is cached and of what fails.
RestTypeOK ==
  /\ version \in Versions
  /\ gone \in BOOLEAN
  /\ entry \in [Keys -> Versions \cup {Nothing}]
  /\ late \in [Keys -> BOOLEAN]
  /\ cooling \in [Servers -> BOOLEAN]
  /\ inFlight \in [Servers -> Versions \cup {Nothing, Loading}]
  /\ upc \in [Writers -> {"idle", "written", "half", "unranked"}]
  /\ vpc \in [Viewers -> {"idle", "counted"}]
  /\ ranked \in BOOLEAN
  /\ inTop \in BOOLEAN
  /\ faults \in 0..MaxFaults

LEMMA TypeParts == PostCacheTypeOK <=> ReadersTypeOK /\ RestTypeOK
BY DEF PostCacheTypeOK, ReadersTypeOK, RestTypeOK

LEMMA TypePartsNext == PostCacheTypeOK' <=> ReadersTypeOK' /\ RestTypeOK'
BY DEF PostCacheTypeOK, ReadersTypeOK, RestTypeOK

LEMMA HomeIsServer ==
  /\ \A r \in Readers : Home[r] \in Servers
  /\ \A w \in Writers : Home[w] \in Servers
BY HomeAssumption

LEMMA TypeStep == PostCacheTypeOK /\ [PostCacheNext]_postVars => PostCacheTypeOK'
<1> SUFFICES ASSUME ReadersTypeOK, RestTypeOK, [PostCacheNext]_postVars
             PROVE  ReadersTypeOK' /\ RestTypeOK'
  BY TypeParts, TypePartsNext
<1> USE PostBoundsAssumption DEF Versions, rankVars
<1>f. faults \in 0..MaxFaults
  BY DEF RestTypeOK
<1>1. ASSUME NEW r \in Readers, NEW what \in {"post", "list", "ranked"}, AskCache(r, what)
      PROVE  ReadersTypeOK' /\ RestTypeOK'
  <2>1. ReadersTypeOK'
    BY <1>1, ReadsType DEF AskCache
  <2>2. inFlight' \in [Servers -> Versions \cup {Nothing, Loading}]
    BY <1>1 DEF AskCache, RestTypeOK
  <2> QED
    BY <1>1, <2>1, <2>2 DEF AskCache, RestTypeOK, storeVars, readFrame
<1>2. ASSUME NEW r \in Readers, NEW what \in {"post", "list", "ranked"}, AskCacheFails(r, what)
      PROVE  ReadersTypeOK' /\ RestTypeOK'
  <2>1. ReadersTypeOK'
    BY <1>2, ReadsType DEF AskCacheFails
  <2>2. faults' \in 0..MaxFaults
    BY <1>f, <1>2, FaultType DEF AskCacheFails
  <2> QED
    BY <1>2, <2>1, <2>2 DEF AskCacheFails, RestTypeOK, EntersCoolDown, storeVars, readFrame
<1>3. ASSUME NEW r \in Readers, LoadById(r)
      PROVE  ReadersTypeOK' /\ RestTypeOK'
  <2>1. ReadersTypeOK'
    <3>1. CASE gone
      BY <1>3, <3>1, RejectedType DEF LoadById
    <3>2. CASE ~gone
      BY <1>3, <3>2 DEF LoadById, ReadersTypeOK, RestTypeOK
    <3> QED
      BY <3>1, <3>2
  <2> QED
    BY <1>3, <2>1 DEF LoadById, RestTypeOK, storeVars, readFrame
<1>4. ASSUME NEW r \in Readers, LoadBypassing(r)
      PROVE  ReadersTypeOK' /\ RestTypeOK'
  <2>1. ReadersTypeOK'
    BY <1>4, RejectedType, AnsweredType DEF LoadBypassing
  <2> QED
    BY <1>4, <2>1 DEF LoadBypassing, RestTypeOK, storeVars, readFrame
<1>5. ASSUME NEW r \in Readers, LoadFails(r)
      PROVE  ReadersTypeOK' /\ RestTypeOK'
  <2>1. ReadersTypeOK' /\ faults' \in 0..MaxFaults
    BY <1>5, <1>f, RejectedType, FaultType DEF LoadFails
  <2> QED
    BY <1>5, <2>1 DEF LoadFails, RestTypeOK, storeVars, readFrame
<1>6. ASSUME NEW r \in Readers, Fill(r)
      PROVE  ReadersTypeOK' /\ RestTypeOK'
  <2>1. ReadersTypeOK'
    BY <1>6, AnsweredType DEF Fill
  <2>2. dval[r] \in Versions \cup {Nothing} /\ KeyOf(r) \in Keys
    BY KeyOfIsKey DEF ReadersTypeOK
  <2>3. entry' \in [Keys -> Versions \cup {Nothing}]
    BY <1>6, <2>2 DEF Fill, RestTypeOK
  <2>4. late' \in [Keys -> BOOLEAN]
    BY <1>6, <2>2 DEF Fill, RestTypeOK
  <2> QED
    BY <1>6, <2>1, <2>3, <2>4 DEF Fill, RestTypeOK, readFrame
<1>7. ASSUME NEW r \in Readers, FillFails(r)
      PROVE  ReadersTypeOK' /\ RestTypeOK'
  <2>1. ReadersTypeOK' /\ faults' \in 0..MaxFaults
    BY <1>7, <1>f, AnsweredType, FaultType DEF FillFails
  <2> QED
    BY <1>7, <2>1 DEF FillFails, RestTypeOK, EntersCoolDown, storeVars, readFrame
<1>8. ASSUME NEW r \in Readers, DropFromRanking(r)
      PROVE  ReadersTypeOK' /\ RestTypeOK'
  <2>1. ReadersTypeOK'
    BY <1>8, AnsweredType DEF DropFromRanking
  <2> QED
    BY <1>8, <2>1 DEF DropFromRanking, OffRanking, RestTypeOK, storeVars
<1>9. ASSUME NEW r \in Readers, DropFails(r)
      PROVE  ReadersTypeOK' /\ RestTypeOK'
  <2>1. ReadersTypeOK' /\ faults' \in 0..MaxFaults
    BY <1>9, <1>f, AnsweredType, FaultType DEF DropFails
  <2> QED
    BY <1>9, <2>1 DEF DropFails, RestTypeOK, storeVars, readFrame
<1>10. ASSUME NEW p \in Servers, ListSelect(p)
       PROVE  ReadersTypeOK' /\ RestTypeOK'
  BY <1>10 DEF ListSelect, ReadersTypeOK, RestTypeOK, storeVars, readFrame
<1>11. ASSUME NEW p \in Servers, ListResolve(p)
       PROVE  ReadersTypeOK' /\ RestTypeOK'
  <2>1. ReadersTypeOK'
    BY <1>11 DEF ListResolve, ReadersTypeOK
  <2> QED
    BY <1>11, <2>1 DEF ListResolve, RestTypeOK, storeVars, readFrame
<1>12. ASSUME NEW p \in Servers, ListLoadFails(p)
       PROVE  ReadersTypeOK' /\ RestTypeOK'
  <2>1. ReadersTypeOK'
    BY <1>12 DEF ListLoadFails, ReadersTypeOK
  <2>2. faults' \in 0..MaxFaults
    BY <1>12, <1>f, FaultType DEF ListLoadFails
  <2> QED
    BY <1>12, <2>1, <2>2 DEF ListLoadFails, RestTypeOK, storeVars, readFrame
<1>13. ASSUME NEW p \in Servers, CoolDownEnds(p)
       PROVE  ReadersTypeOK' /\ RestTypeOK'
  BY <1>13 DEF CoolDownEnds, ReadersTypeOK, RestTypeOK, storeVars, readVars, readFrame
<1>14. ASSUME NEW p \in Servers, ServerDies(p)
       PROVE  ReadersTypeOK' /\ RestTypeOK'
  <2>1. ReadersTypeOK'
    BY <1>14 DEF ServerDies, ReadersTypeOK
  <2>2. faults' \in 0..MaxFaults
    BY <1>14, <1>f, FaultType DEF ServerDies
  <2>3. upc' \in [Writers -> {"idle", "written", "half", "unranked"}]
    BY <1>14 DEF ServerDies, RestTypeOK
  <2>4. vpc' \in [Viewers -> {"idle", "counted"}]
    BY <1>14 DEF ServerDies, RestTypeOK
  <2> QED
    BY <1>14, <2>1, <2>2, <2>3, <2>4 DEF ServerDies, RestTypeOK, storeVars
<1>15. ASSUME NEW k \in Keys, EntryExpires(k)
       PROVE  ReadersTypeOK' /\ RestTypeOK'
  BY <1>15 DEF EntryExpires, ReadersTypeOK, RestTypeOK, readVars, readFrame
<1>16. ASSUME NEW w \in Writers, Write(w)
       PROVE  ReadersTypeOK' /\ RestTypeOK'
  BY <1>16 DEF Write, Moves, ReadersTypeOK, RestTypeOK, storeVars, readVars
<1>17. ASSUME NEW w \in Writers, InvalidatePost(w)
       PROVE  ReadersTypeOK' /\ RestTypeOK'
  BY <1>17 DEF InvalidatePost, Deleted, Moves, ReadersTypeOK, RestTypeOK, readVars
<1>18. ASSUME NEW w \in Writers, InvalidateLists(w)
       PROVE  ReadersTypeOK' /\ RestTypeOK'
  BY <1>18 DEF InvalidateLists, AfterInvalidation, Deleted, Moves, ReadersTypeOK, RestTypeOK,
     readVars
<1>19. ASSUME NEW w \in Writers, InvalidationFails(w)
       PROVE  ReadersTypeOK' /\ RestTypeOK'
  <2>1. faults' \in 0..MaxFaults
    BY <1>19, <1>f, FaultType DEF InvalidationFails
  <2> QED
    BY <1>19, <2>1 DEF InvalidationFails, AfterInvalidation, EntersCoolDown, Moves,
       ReadersTypeOK, RestTypeOK, storeVars, readVars
<1>20. ASSUME NEW w \in Writers, InvalidationSkipped(w)
       PROVE  ReadersTypeOK' /\ RestTypeOK'
  <2>1. faults' \in 0..MaxFaults
    BY <1>20, <1>f, FaultType DEF InvalidationSkipped
  <2> QED
    BY <1>20, <2>1 DEF InvalidationSkipped, AfterInvalidation, Moves, ReadersTypeOK,
       RestTypeOK, storeVars, readVars
<1>21. ASSUME NEW w \in Writers, Unrank(w)
       PROVE  ReadersTypeOK' /\ RestTypeOK'
  <2>1. faults' \in 0..MaxFaults /\ ranked' \in BOOLEAN /\ inTop' \in BOOLEAN
    BY <1>21, <1>f, FaultType DEF Unrank, OffRanking, RestTypeOK
  <2> QED
    BY <1>21, <2>1 DEF Unrank, Moves, ReadersTypeOK, RestTypeOK, storeVars, readVars
<1>22. ASSUME NEW v \in Viewers, CountView(v)
       PROVE  ReadersTypeOK' /\ RestTypeOK'
  BY <1>22 DEF CountView, ReadersTypeOK, RestTypeOK, storeVars, readVars
<1>23. ASSUME NEW v \in Viewers, Bump(v)
       PROVE  ReadersTypeOK' /\ RestTypeOK'
  <2>1. faults' \in 0..MaxFaults /\ ranked' \in BOOLEAN /\ inTop' \in BOOLEAN
    BY <1>23, <1>f, FaultType DEF Bump, RestTypeOK
  <2> QED
    BY <1>23, <2>1 DEF Bump, ReadersTypeOK, RestTypeOK, storeVars, readVars
<1>24. ASSUME Reranked
       PROVE  ReadersTypeOK' /\ RestTypeOK'
  BY <1>24 DEF Reranked, ReadersTypeOK, RestTypeOK, storeVars, readVars
<1>25. CASE UNCHANGED postVars
  BY <1>25 DEF postVars, ReadersTypeOK, RestTypeOK, storeVars, readVars
<1> QED
  BY <1>1, <1>2, <1>3, <1>4, <1>5, <1>6, <1>7, <1>8, <1>9, <1>10, <1>11, <1>12, <1>13,
     <1>14, <1>15, <1>16, <1>17, <1>18, <1>19, <1>20, <1>21, <1>22, <1>23, <1>24, <1>25
     DEF PostCacheNext

-----------------------------------------------------------------------------
(***************************************************************************)
(* The cache: staleness                                                    *)
(***************************************************************************)

\* A fault explains whatever the cache holds, from then on.
LEMMA FaultExplains ==
  ASSUME faults \in 0..MaxFaults, Fault
  PROVE  StaleOnlyWhenKnown'
BY FaultType DEF StaleOnlyWhenKnown

\* Nothing is more stale when no key, no row and no write has changed.
LEMMA NothingStaler ==
  ASSUME StaleOnlyWhenKnown, UNCHANGED <<version, storeVars, upc, faults>>
  PROVE  StaleOnlyWhenKnown'
BY DEF StaleOnlyWhenKnown, Pending, storeVars

LEMMA StalenessStep ==
  PostCacheTypeOK /\ StaleOnlyWhenKnown /\ [PostCacheNext]_postVars => StaleOnlyWhenKnown'
<1> SUFFICES ASSUME PostCacheTypeOK, StaleOnlyWhenKnown, [PostCacheNext]_postVars
             PROVE  StaleOnlyWhenKnown'
  OBVIOUS
<1>f. faults \in 0..MaxFaults
  BY DEF PostCacheTypeOK
<1>1. ASSUME NEW r \in Readers, NEW what \in {"post", "list", "ranked"}, AskCache(r, what)
      PROVE  StaleOnlyWhenKnown'
  BY <1>1, NothingStaler DEF AskCache, readFrame
<1>2. ASSUME NEW r \in Readers, NEW what \in {"post", "list", "ranked"}, AskCacheFails(r, what)
      PROVE  StaleOnlyWhenKnown'
  BY <1>2, <1>f, FaultExplains DEF AskCacheFails
<1>3. ASSUME NEW r \in Readers, LoadById(r) \/ LoadBypassing(r)
      PROVE  StaleOnlyWhenKnown'
  BY <1>3, NothingStaler DEF LoadById, LoadBypassing, readFrame
<1>4. ASSUME NEW r \in Readers, LoadFails(r) \/ FillFails(r) \/ DropFails(r)
      PROVE  StaleOnlyWhenKnown'
  BY <1>4, <1>f, FaultExplains DEF LoadFails, FillFails, DropFails
<1>5. ASSUME NEW r \in Readers, Fill(r)
      PROVE  StaleOnlyWhenKnown'
  <2>1. KeyOf(r) \in Keys
    BY KeyOfIsKey
  <2>2. /\ entry'[KeyOf(r)] # version' => late'[KeyOf(r)]
        /\ \A k \in Keys \ {KeyOf(r)} : entry'[k] = entry[k] /\ late'[k] = late[k]
    BY <1>5, <2>1 DEF Fill, PostCacheTypeOK, readFrame
  <2>3. \A k \in Keys : Pending(k)' <=> Pending(k)
    BY <1>5 DEF Fill, Pending, readFrame
  <2>4. UNCHANGED <<version, faults>>
    BY <1>5 DEF Fill, readFrame
  <2> QED
    BY <2>2, <2>3, <2>4 DEF StaleOnlyWhenKnown
<1>6. ASSUME NEW r \in Readers, DropFromRanking(r)
      PROVE  StaleOnlyWhenKnown'
  BY <1>6, NothingStaler DEF DropFromRanking
<1>7. ASSUME NEW p \in Servers, ListSelect(p) \/ ListResolve(p) \/ CoolDownEnds(p)
      PROVE  StaleOnlyWhenKnown'
  BY <1>7, NothingStaler DEF ListSelect, ListResolve, CoolDownEnds, readFrame
<1>8. ASSUME NEW p \in Servers, ListLoadFails(p) \/ ServerDies(p)
      PROVE  StaleOnlyWhenKnown'
  BY <1>8, <1>f, FaultExplains DEF ListLoadFails, ServerDies
<1>9. ASSUME NEW k \in Keys, EntryExpires(k)
      PROVE  StaleOnlyWhenKnown'
  BY <1>9 DEF EntryExpires, StaleOnlyWhenKnown, Pending, PostCacheTypeOK, readFrame
<1>10. ASSUME NEW w \in Writers, Write(w)
       PROVE  StaleOnlyWhenKnown'
  <2>1. upc'[w] = "written"
    BY <1>10 DEF Write, Moves, PostCacheTypeOK
  <2>2. \A k \in Keys : Pending(k)'
    BY <2>1 DEF Pending
  <2> QED
    BY <2>2 DEF StaleOnlyWhenKnown
<1>11. ASSUME NEW w \in Writers, InvalidatePost(w)
       PROVE  StaleOnlyWhenKnown'
  <2>1. entry'["post"] = Nothing /\ entry'["list"] = entry["list"] /\ late'["list"] = late["list"]
    BY <1>11 DEF InvalidatePost, Deleted, PostCacheTypeOK, Keys
  <2>2. upc'[w] = "half"
    BY <1>11 DEF InvalidatePost, Moves, PostCacheTypeOK
  <2>3. Pending("list")'
    BY <2>2 DEF Pending
  <2> QED
    BY <2>1, <2>3 DEF StaleOnlyWhenKnown, Keys
<1>12. ASSUME NEW w \in Writers, InvalidateLists(w)
       PROVE  StaleOnlyWhenKnown'
  <2>1. entry'["list"] = Nothing /\ entry'["post"] = entry["post"] /\ late'["post"] = late["post"]
    BY <1>12 DEF InvalidateLists, Deleted, PostCacheTypeOK, Keys
  <2>2. \A x \in Writers : upc[x] = "written" => upc'[x] = "written"
    BY <1>12 DEF InvalidateLists, Moves, PostCacheTypeOK
  <2>3. Pending("post") => Pending("post")'
    BY <2>2 DEF Pending
  <2>4. UNCHANGED <<version, faults>>
    BY <1>12 DEF InvalidateLists
  <2> QED
    BY <2>1, <2>3, <2>4 DEF StaleOnlyWhenKnown, Keys
<1>13. ASSUME NEW w \in Writers, InvalidationFails(w) \/ InvalidationSkipped(w)
       PROVE  StaleOnlyWhenKnown'
  BY <1>13, <1>f, FaultExplains DEF InvalidationFails, InvalidationSkipped
<1>14. ASSUME NEW w \in Writers, Unrank(w)
       PROVE  StaleOnlyWhenKnown'
  <2>1. CASE Fault
    BY <1>f, <2>1, FaultExplains
  <2>2. CASE UNCHANGED faults
    <3>1. \A x \in Writers : upc[x] \in {"written", "half"} => upc'[x] = upc[x]
      BY <1>14 DEF Unrank, Moves, PostCacheTypeOK
    <3>2. \A k \in Keys : Pending(k) => Pending(k)'
      BY <3>1 DEF Pending
    <3> QED
      BY <1>14, <2>2, <3>2 DEF Unrank, StaleOnlyWhenKnown, storeVars
  <2> QED
    BY <1>14, <2>1, <2>2 DEF Unrank
<1>15. ASSUME NEW v \in Viewers, CountView(v)
       PROVE  StaleOnlyWhenKnown'
  BY <1>15, NothingStaler DEF CountView
<1>16. ASSUME NEW v \in Viewers, Bump(v)
       PROVE  StaleOnlyWhenKnown'
  BY <1>16, <1>f, NothingStaler, FaultExplains DEF Bump
<1>17. CASE Reranked \/ UNCHANGED postVars
  BY <1>17, NothingStaler DEF Reranked, postVars
<1> QED
  BY <1>1, <1>2, <1>3, <1>4, <1>5, <1>6, <1>7, <1>8, <1>9, <1>10, <1>11, <1>12, <1>13,
     <1>14, <1>15, <1>16, <1>17 DEF PostCacheNext

-----------------------------------------------------------------------------
(***************************************************************************)
(* The cache: the table of loads under way                                 *)
(***************************************************************************)

\* The table stays exact as long as it does not change and nobody joins or leaves.
LEMMA NobodyJoins ==
  ASSUME InFlightExact, inFlight' = inFlight,
         \A r \in Readers : dpc'[r] = "joined" <=> dpc[r] = "joined"
  PROVE  InFlightExact'
<1>1. \A p \in Servers : Joined(p)' = Joined(p)
  BY DEF Joined
<1> QED
  BY <1>1 DEF InFlightExact

LEMMA TableUntouched ==
  ASSUME InFlightExact, UNCHANGED <<inFlight, dpc>>
  PROVE  InFlightExact'
BY NobodyJoins

\* A reader that had not joined a load and does not join one now.
LEMMA NotJoined ==
  ASSUME PostCacheTypeOK, InFlightExact, inFlight' = inFlight, NEW r \in Readers,
         dpc[r] # "joined",
         \/ Answered(r)
         \/ \E what \in {"post", "list", "ranked"}, pc \in {"load", "miss", "dropping"} :
              Reads(r, pc, what)
  PROVE  InFlightExact'
<1>1. dpc'[r] # "joined" /\ \A q \in Readers \ {r} : dpc'[q] = dpc[q]
  BY DEF Answered, Reads, PostCacheTypeOK
<1> QED
  BY <1>1, NobodyJoins

LEMMA TableStep ==
  PostCacheTypeOK /\ InFlightExact /\ [PostCacheNext]_postVars => InFlightExact'
<1> SUFFICES ASSUME PostCacheTypeOK, InFlightExact, [PostCacheNext]_postVars
             PROVE  InFlightExact'
  OBVIOUS
<1>1. ASSUME NEW r \in Readers, NEW what \in {"post", "list", "ranked"}, AskCache(r, what)
      PROVE  InFlightExact'
  <2> DEFINE p == Home[r]
  <2>1. CASE cooling[p]
    <3>1. Reads(r, "load", what) /\ UNCHANGED inFlight /\ dpc[r] # "joined"
      BY <1>1, <2>1 DEF AskCache
    <3> QED
      BY <3>1, NotJoined
  <2>2. CASE ~cooling[p] /\ what # "list"
    <3>1. Reads(r, "miss", what) /\ UNCHANGED inFlight /\ dpc[r] # "joined"
      BY <1>1, <2>2 DEF AskCache
    <3> QED
      BY <3>1, NotJoined
  <2>3. CASE ~cooling[p] /\ what = "list"
    <3>1. /\ dpc[r] = "idle" /\ Reads(r, "joined", what)
          /\ inFlight' = IF inFlight[p] = Nothing
                           THEN [inFlight EXCEPT ![p] = Loading] ELSE inFlight
      BY <1>1, <2>3 DEF AskCache
    <3>2. dpc'[r] = "joined" /\ \A q \in Readers \ {r} : dpc'[q] = dpc[q]
      BY <3>1 DEF Reads, PostCacheTypeOK
    <3>3. p \in Servers /\ r \in Joined(p)'
      BY <3>2, HomeIsServer DEF Joined
    <3>4. inFlight'[p] # Nothing
      BY <3>1, <3>3, NothingAssumption DEF PostCacheTypeOK
    <3>5. ASSUME NEW q \in Servers \ {p}
          PROVE  inFlight'[q] = inFlight[q] /\ Joined(q)' = Joined(q)
      <4>1. inFlight'[q] = inFlight[q]
        BY <3>1 DEF PostCacheTypeOK
      <4>2. Joined(q)' = Joined(q)
        BY <3>2 DEF Joined
      <4> QED
        BY <4>1, <4>2
    <3> QED
      BY <3>3, <3>4, <3>5 DEF InFlightExact
  <2> QED
    BY <2>1, <2>2, <2>3
<1>2. ASSUME NEW r \in Readers, NEW what \in {"post", "list", "ranked"}, AskCacheFails(r, what)
      PROVE  InFlightExact'
  <2>1. Reads(r, "load", what) /\ UNCHANGED inFlight /\ dpc[r] # "joined"
    BY <1>2 DEF AskCacheFails
  <2> QED
    BY <2>1, NotJoined
<1>3. ASSUME NEW r \in Readers, LoadById(r)
      PROVE  InFlightExact'
  <2>1. CASE gone
    <3>1. UNCHANGED inFlight /\ dpc[r] # "joined" /\ LoadRejected(r)
      BY <1>3, <2>1 DEF LoadById
    <3> QED
      BY <3>1, NotJoined DEF LoadRejected
  <2>2. CASE ~gone
    <3>1. dpc[r] = "miss" /\ dpc' = [dpc EXCEPT ![r] = "fill"] /\ UNCHANGED inFlight
      BY <1>3, <2>2 DEF LoadById
    <3>2. \A q \in Readers : dpc'[q] = "joined" <=> dpc[q] = "joined"
      BY <3>1 DEF PostCacheTypeOK
    <3> QED
      BY <3>1, <3>2, NobodyJoins
  <2> QED
    BY <2>1, <2>2
<1>4. ASSUME NEW r \in Readers, LoadBypassing(r) \/ LoadFails(r)
      PROVE  InFlightExact'
  <2>1. UNCHANGED inFlight /\ dpc[r] # "joined" /\ (LoadRejected(r) \/ Answered(r))
    BY <1>4 DEF LoadBypassing, LoadFails
  <2> QED
    BY <2>1, NotJoined DEF LoadRejected
<1>5. ASSUME NEW r \in Readers, Fill(r) \/ FillFails(r) \/ DropFromRanking(r) \/ DropFails(r)
      PROVE  InFlightExact'
  <2>1. UNCHANGED inFlight /\ dpc[r] # "joined" /\ Answered(r)
    BY <1>5 DEF Fill, FillFails, DropFromRanking, DropFails
  <2> QED
    BY <2>1, NotJoined
<1>6. ASSUME NEW p \in Servers, ListSelect(p)
      PROVE  InFlightExact'
  <2>1. /\ inFlight[p] = Loading /\ inFlight'[p] = version
        /\ \A q \in Servers \ {p} : inFlight'[q] = inFlight[q]
    BY <1>6 DEF ListSelect, PostCacheTypeOK
  <2>2. inFlight[p] # Nothing /\ inFlight'[p] # Nothing
    BY <2>1, NothingAssumption DEF PostCacheTypeOK, Versions
  <2>3. \A q \in Servers : Joined(q)' = Joined(q)
    BY <1>6 DEF ListSelect, Joined
  <2> QED
    BY <2>1, <2>2, <2>3 DEF InFlightExact
<1>7. ASSUME NEW p \in Servers, ListResolve(p) \/ ListLoadFails(p) \/ ServerDies(p)
      PROVE  InFlightExact'
  <2>1. inFlight'[p] = Nothing /\ \A q \in Servers \ {p} : inFlight'[q] = inFlight[q]
    BY <1>7 DEF ListResolve, ListLoadFails, ServerDies, PostCacheTypeOK
  <2>2. \A r \in Readers : /\ Home[r] = p => dpc'[r] # "joined"
                           /\ Home[r] # p => dpc'[r] = dpc[r]
    BY <1>7 DEF ListResolve, ListLoadFails, ServerDies, Joined
  <2>3. Joined(p)' = {} /\ \A q \in Servers \ {p} : Joined(q)' = Joined(q)
    BY <2>2 DEF Joined
  <2> QED
    BY <2>1, <2>3 DEF InFlightExact
<1>8. ASSUME NEW p \in Servers, CoolDownEnds(p)
      PROVE  InFlightExact'
  BY <1>8, TableUntouched DEF CoolDownEnds, readVars
<1>9. ASSUME NEW k \in Keys, EntryExpires(k)
      PROVE  InFlightExact'
  BY <1>9, TableUntouched DEF EntryExpires, readVars
<1>10. ASSUME NEW w \in Writers,
              \/ Write(w) \/ InvalidatePost(w) \/ InvalidateLists(w)
              \/ InvalidationFails(w) \/ InvalidationSkipped(w) \/ Unrank(w)
       PROVE  InFlightExact'
  BY <1>10, TableUntouched DEF Write, InvalidatePost, InvalidateLists, InvalidationFails,
     InvalidationSkipped, Unrank, readVars
<1>11. ASSUME NEW v \in Viewers, CountView(v) \/ Bump(v)
       PROVE  InFlightExact'
  BY <1>11, TableUntouched DEF CountView, Bump, readVars
<1>12. CASE Reranked \/ UNCHANGED postVars
  BY <1>12, TableUntouched DEF Reranked, postVars, readVars
<1> QED
  BY <1>1, <1>2, <1>3, <1>4, <1>5, <1>6, <1>7, <1>8, <1>9, <1>10, <1>11, <1>12
     DEF PostCacheNext

-----------------------------------------------------------------------------
(***************************************************************************)
(* The cache: the ranking                                                  *)
(***************************************************************************)

\* No step makes another drop the post, and what made one drop it stays.
LEMMA NoNewDrops ==
  ASSUME PostCacheTypeOK, DropsAreDue, gone => gone', faults > 0 => faults' > 0,
         \A r \in Readers : dpc'[r] = "dropping" => dpc[r] = "dropping" \/ gone' \/ faults' > 0,
         \A w \in Writers : upc'[w] = "unranked" => upc[w] = "unranked" \/ gone'
  PROVE  DropsAreDue'
BY DEF DropsAreDue

\* A reader that answers, or goes on with anything else than a drop.
LEMMA ReaderDoesNotDrop ==
  ASSUME PostCacheTypeOK, NEW r \in Readers,
         \/ Answered(r)
         \/ \E what \in {"post", "list", "ranked"}, pc \in {"load", "miss", "joined"} :
              Reads(r, pc, what)
  PROVE  \A q \in Readers : dpc'[q] = "dropping" => dpc[q] = "dropping"
BY DEF Answered, Reads, PostCacheTypeOK

LEMMA RejectedDrops ==
  ASSUME PostCacheTypeOK, NEW r \in Readers, LoadRejected(r)
  PROVE  \A q \in Readers \ {r} : dpc'[q] = dpc[q]
BY DEF LoadRejected, Answered, Reads, PostCacheTypeOK

LEMMA WriterGoesIdle ==
  ASSUME PostCacheTypeOK, NEW w \in Writers, NEW pc, Moves(w, pc), pc = "unranked" => gone
  PROVE  \A x \in Writers : upc'[x] = "unranked" => upc[x] = "unranked" \/ gone
BY DEF Moves, PostCacheTypeOK

LEMMA DropsStep ==
  PostCacheTypeOK /\ DropsAreDue /\ [PostCacheNext]_postVars => DropsAreDue'
<1> SUFFICES ASSUME PostCacheTypeOK, DropsAreDue, [PostCacheNext]_postVars
             PROVE  DropsAreDue'
  OBVIOUS
<1>f. faults \in 0..MaxFaults
  BY DEF PostCacheTypeOK
<1>1. ASSUME NEW r \in Readers, NEW what \in {"post", "list", "ranked"}, AskCache(r, what)
      PROVE  DropsAreDue'
  <2>1. \E pc \in {"load", "miss", "joined"} : Reads(r, pc, what)
    BY <1>1 DEF AskCache
  <2>2. \A q \in Readers : dpc'[q] = "dropping" => dpc[q] = "dropping"
    BY <2>1, ReaderDoesNotDrop
  <2> QED
    BY <1>1, <2>2, NoNewDrops DEF AskCache, readFrame
<1>2. ASSUME NEW r \in Readers, NEW what \in {"post", "list", "ranked"}, AskCacheFails(r, what)
      PROVE  DropsAreDue'
  <2>1. \A q \in Readers : dpc'[q] = "dropping" => dpc[q] = "dropping"
    BY <1>2, ReaderDoesNotDrop DEF AskCacheFails
  <2> QED
    BY <1>2, <1>f, <2>1, FaultType, NoNewDrops DEF AskCacheFails, readFrame
<1>3. ASSUME NEW r \in Readers, LoadById(r)
      PROVE  DropsAreDue'
  <2>1. CASE gone
    <3>1. gone'
      BY <1>3, <2>1 DEF LoadById, readFrame
    <3> QED
      BY <1>3, <3>1, NoNewDrops DEF LoadById, readFrame
  <2>2. CASE ~gone
    <3>1. \A q \in Readers : dpc'[q] = "dropping" => dpc[q] = "dropping"
      BY <1>3, <2>2 DEF LoadById, PostCacheTypeOK
    <3> QED
      BY <1>3, <3>1, NoNewDrops DEF LoadById, readFrame
  <2> QED
    BY <2>1, <2>2
<1>4. ASSUME NEW r \in Readers, LoadBypassing(r)
      PROVE  DropsAreDue'
  <2>1. CASE gone
    <3>1. gone'
      BY <1>4, <2>1 DEF LoadBypassing, readFrame
    <3> QED
      BY <1>4, <3>1, NoNewDrops DEF LoadBypassing, readFrame
  <2>2. CASE ~gone
    <3>1. \A q \in Readers : dpc'[q] = "dropping" => dpc[q] = "dropping"
      BY <1>4, <2>2, ReaderDoesNotDrop DEF LoadBypassing
    <3> QED
      BY <1>4, <3>1, NoNewDrops DEF LoadBypassing, readFrame
  <2> QED
    BY <2>1, <2>2
<1>5. ASSUME NEW r \in Readers, LoadFails(r)
      PROVE  DropsAreDue'
  <2>1. faults' > 0
    BY <1>5, <1>f, FaultType DEF LoadFails
  <2> QED
    BY <1>5, <2>1, NoNewDrops DEF LoadFails, readFrame
<1>6. ASSUME NEW r \in Readers, Fill(r) \/ DropFromRanking(r)
      PROVE  DropsAreDue'
  <2>1. \A q \in Readers : dpc'[q] = "dropping" => dpc[q] = "dropping"
    BY <1>6, ReaderDoesNotDrop DEF Fill, DropFromRanking
  <2> QED
    BY <1>6, <2>1, NoNewDrops DEF Fill, DropFromRanking, readFrame
<1>7. ASSUME NEW r \in Readers, FillFails(r) \/ DropFails(r)
      PROVE  DropsAreDue'
  <2>1. faults' > 0
    BY <1>7, <1>f, FaultType DEF FillFails, DropFails
  <2> QED
    BY <1>7, <2>1, NoNewDrops DEF FillFails, DropFails, readFrame
<1>8. ASSUME NEW p \in Servers, ListSelect(p) \/ ListResolve(p) \/ CoolDownEnds(p)
      PROVE  DropsAreDue'
  <2>1. \A q \in Readers : dpc'[q] = "dropping" => dpc[q] = "dropping"
    BY <1>8 DEF ListSelect, ListResolve, CoolDownEnds, readVars
  <2> QED
    BY <1>8, <2>1, NoNewDrops DEF ListSelect, ListResolve, CoolDownEnds, readFrame
<1>9. ASSUME NEW p \in Servers, ListLoadFails(p)
      PROVE  DropsAreDue'
  <2>1. faults' > 0
    BY <1>9, <1>f, FaultType DEF ListLoadFails
  <2> QED
    BY <1>9, <2>1, NoNewDrops DEF ListLoadFails, readFrame
<1>10. ASSUME NEW p \in Servers, ServerDies(p)
       PROVE  DropsAreDue'
  <2>1. faults' > 0
    BY <1>10, <1>f, FaultType DEF ServerDies
  <2>2. \A w \in Writers : upc'[w] = "unranked" => upc[w] = "unranked"
    BY <1>10 DEF ServerDies
  <2> QED
    BY <1>10, <2>1, <2>2, NoNewDrops DEF ServerDies
<1>11. ASSUME NEW k \in Keys, EntryExpires(k)
       PROVE  DropsAreDue'
  BY <1>11, NoNewDrops DEF EntryExpires, readVars, readFrame
<1>12. ASSUME NEW w \in Writers, Write(w)
       PROVE  DropsAreDue'
  BY <1>12, WriterGoesIdle, NoNewDrops DEF Write, readVars
<1>13. ASSUME NEW w \in Writers, InvalidatePost(w) \/ InvalidateLists(w)
       PROVE  DropsAreDue'
  BY <1>13, WriterGoesIdle, NoNewDrops DEF InvalidatePost, InvalidateLists, AfterInvalidation,
     readVars
<1>14. ASSUME NEW w \in Writers, InvalidationFails(w) \/ InvalidationSkipped(w)
       PROVE  DropsAreDue'
  <2>1. faults' > 0
    BY <1>14, <1>f, FaultType DEF InvalidationFails, InvalidationSkipped
  <2>2. \A x \in Writers : upc'[x] = "unranked" => upc[x] = "unranked" \/ gone
    BY <1>14, WriterGoesIdle DEF InvalidationFails, InvalidationSkipped, AfterInvalidation
  <2> QED
    BY <1>14, <2>1, <2>2, NoNewDrops DEF InvalidationFails, InvalidationSkipped, readVars
<1>15. ASSUME NEW w \in Writers, Unrank(w)
       PROVE  DropsAreDue'
  <2>1. faults > 0 => faults' > 0
    BY <1>15, <1>f, FaultType DEF Unrank
  <2>2. \A x \in Writers : upc'[x] = "unranked" => upc[x] = "unranked" \/ gone
    BY <1>15, WriterGoesIdle DEF Unrank
  <2> QED
    BY <1>15, <2>1, <2>2, NoNewDrops DEF Unrank, readVars
<1>16. ASSUME NEW v \in Viewers, CountView(v) \/ Bump(v)
       PROVE  DropsAreDue'
  <2>1. faults > 0 => faults' > 0
    BY <1>16, <1>f, FaultType DEF CountView, Bump
  <2>2. UNCHANGED <<gone, upc, readVars>>
    BY <1>16 DEF CountView, Bump
  <2> QED
    BY <2>1, <2>2, NoNewDrops DEF readVars
<1>17. CASE Reranked \/ UNCHANGED postVars
  BY <1>17, NoNewDrops DEF Reranked, postVars, readVars
<1> QED
  BY <1>1, <1>2, <1>3, <1>4, <1>5, <1>6, <1>7, <1>8, <1>9, <1>10, <1>11, <1>12, <1>13,
     <1>14, <1>15, <1>16, <1>17 DEF PostCacheNext

\* Of all the steps two take the post off the ranking, and both are due.
LEMMA DropIsDue ==
  ASSUME DropsAreDue, [PostCacheNext]_postVars, ranked, ~ranked'
  PROVE  gone \/ faults > 0
<1>1. \/ \E r \in Readers : dpc[r] = "dropping"
      \/ \E w \in Writers : upc[w] = "unranked"
  <2>1. UNCHANGED ranked
        \/ (\E r \in Readers : DropFromRanking(r))
        \/ (\E w \in Writers : Unrank(w))
        \/ (\E v \in Viewers : Bump(v))
    BY DEF PostCacheNext, AskCache, AskCacheFails, LoadById, LoadBypassing, LoadFails, Fill,
       FillFails, DropFails, ListSelect, ListResolve, ListLoadFails, CoolDownEnds, ServerDies,
       EntryExpires, Write, InvalidatePost, InvalidateLists, InvalidationFails,
       InvalidationSkipped, CountView, Reranked, rankVars, readFrame, postVars
  <2> QED
    BY <2>1 DEF DropFromRanking, Unrank, Bump, rankVars
<1> QED
  BY <1>1 DEF DropsAreDue

-----------------------------------------------------------------------------
LEMMA PostCacheInitInv == PostCacheInit => PostCacheInv
<1> SUFFICES ASSUME PostCacheInit PROVE PostCacheInv
  OBVIOUS
<1> USE DEF PostCacheInit
<1>1. PostCacheTypeOK
  <2>1. version \in Versions /\ faults \in 0..MaxFaults
    BY PostBoundsAssumption DEF Versions
  <2>2. gone \in BOOLEAN /\ ranked \in BOOLEAN /\ inTop \in BOOLEAN
    OBVIOUS
  <2>3. late \in [Keys -> BOOLEAN] /\ cooling \in [Servers -> BOOLEAN]
    OBVIOUS
  <2>4. entry \in [Keys -> Versions \cup {Nothing}]
    OBVIOUS
  <2>5. inFlight \in [Servers -> Versions \cup {Nothing, Loading}]
    OBVIOUS
  <2>6. ReadersTypeOK
    BY DEF ReadersTypeOK
  <2>7. /\ upc \in [Writers -> {"idle", "written", "half", "unranked"}]
        /\ vpc \in [Viewers -> {"idle", "counted"}]
    OBVIOUS
  <2> QED
    BY <2>1, <2>2, <2>3, <2>4, <2>5, <2>6, <2>7 DEF PostCacheTypeOK, ReadersTypeOK
<1>2. StaleOnlyWhenKnown
  BY DEF StaleOnlyWhenKnown
<1>3. InFlightExact
  BY DEF InFlightExact, Joined
<1>4. DropsAreDue
  BY DEF DropsAreDue
<1> QED
  BY <1>1, <1>2, <1>3, <1>4 DEF PostCacheInv

\* It needs no fairness.
LEMMA PostCacheInvariance ==
  PostCacheInit /\ [][PostCacheNext]_postVars => []PostCacheInv
<1>1. PostCacheInv /\ [PostCacheNext]_postVars => PostCacheInv'
  BY TypeStep, StalenessStep, TableStep, DropsStep DEF PostCacheInv
<1> QED
  BY <1>1, PostCacheInitInv, PTL

\* PostsService.invalidate with CacheService: without a failed command or a crash, an
\* entry differs from the row only while a write has still to delete it, or when a
\* reader stored what it had loaded before a write.
THEOREM StalenessIsExplained == PostCacheSpec => []StaleOnlyWhenKnown
<1>1. PostCacheInv => StaleOnlyWhenKnown
  BY DEF PostCacheInv
<1> QED
  BY <1>1, PostCacheInvariance, PTL DEF PostCacheSpec

\* PostsService.findAll: a process has a load of the list under way exactly while one of
\* its requests waits for it, so that no failed load stays behind and is joined for ever.
THEOREM LoadsAreAwaited == PostCacheSpec => []InFlightExact
<1>1. PostCacheInv => InFlightExact
  BY DEF PostCacheInv
<1> QED
  BY <1>1, PostCacheInvariance, PTL DEF PostCacheSpec

\* PostsService.trending, remove: whatever views, writes and readers of the ranking race,
\* a post keeps its score until it is gone or something failed.
THEOREM ScoreIsKept == PostCacheSpec => RankingKept
<1>1. PostCacheInv /\ [PostCacheNext]_postVars => [ranked /\ ~ranked' => gone \/ faults > 0]_postVars
  BY DropIsDue DEF PostCacheInv
<1> QED
  BY <1>1, PostCacheInvariance, PTL DEF PostCacheSpec, RankingKept

-----------------------------------------------------------------------------
(***************************************************************************)
(* Failed logins                                                           *)
(***************************************************************************)

\* The guesses under way: past the lock, and not yet recorded.
UnderVerification == {r \in Logins : lpc[r] \in {"verify", "wrong"}}

LoginInv == LoginTypeOK /\ GuessesBounded

\* Guesses under way are at most the requests in flight.
LEMMA FewUnderVerification ==
  /\ IsFiniteSet(UnderVerification)
  /\ Cardinality(UnderVerification) \in Nat
  /\ Cardinality(Logins) \in Nat
  /\ Cardinality(UnderVerification) <= Cardinality(Logins)
<1>1. UnderVerification \subseteq Logins
  BY DEF UnderVerification
<1> QED
  BY <1>1, LoginsAssumption, FS_Subset, FS_CardinalityType

\* The next state's guesses, when one request goes on: it begins to be verified, stays
\* so, or is done with.
LEMMA OneLoginMoves ==
  ASSUME LoginTypeOK, NEW r \in Logins, NEW pc, Advance(r, pc)
  PROVE  /\ lpc[r] \notin {"verify", "wrong"} /\ pc = "verify" =>
              Cardinality(UnderVerification') = Cardinality(UnderVerification) + 1
         /\ lpc[r] \in {"verify", "wrong"} /\ pc = "wrong" =>
              Cardinality(UnderVerification') = Cardinality(UnderVerification)
         /\ lpc[r] \in {"verify", "wrong"} /\ pc \in {"right", "idle"} =>
              Cardinality(UnderVerification') = Cardinality(UnderVerification) - 1
         /\ lpc[r] = "right" /\ pc = "idle" =>
              Cardinality(UnderVerification') = Cardinality(UnderVerification)
<1>1. lpc'[r] = pc /\ \A q \in Logins \ {r} : lpc'[q] = lpc[q]
  BY DEF LoginTypeOK, Advance
<1>2. CASE lpc[r] \notin {"verify", "wrong"} /\ pc = "verify"
  <2>1. UnderVerification' = UnderVerification \cup {r} /\ r \notin UnderVerification
    BY <1>1, <1>2 DEF UnderVerification
  <2> QED
    BY <1>2, <2>1, FewUnderVerification, FS_AddElement
<1>3. CASE lpc[r] \in {"verify", "wrong"} /\ pc = "wrong"
  <2>1. UnderVerification' = UnderVerification
    BY <1>1, <1>3 DEF UnderVerification
  <2> QED
    BY <1>3, <2>1
<1>4. CASE lpc[r] \in {"verify", "wrong"} /\ pc \in {"right", "idle"}
  <2>1. UnderVerification' = UnderVerification \ {r} /\ r \in UnderVerification
    BY <1>1, <1>4 DEF UnderVerification
  <2> QED
    BY <1>4, <2>1, FewUnderVerification, FS_RemoveElement
<1>5. CASE lpc[r] = "right" /\ pc = "idle"
  <2>1. UnderVerification' = UnderVerification
    BY <1>1, <1>5 DEF UnderVerification
  <2> QED
    BY <1>5, <2>1
<1> QED
  BY <1>2, <1>3, <1>4, <1>5

\* Without a counter there is no key that could expire.
LEMMA NoCounterNoKey == FALSE = (0 > 0)
<1>1. ~(0 > 0)
  OBVIOUS
<1> QED
  BY <1>1

LEMMA LoginInitInv == LoginInit => LoginInv
<1> SUFFICES ASSUME LoginInit PROVE LoginInv
  OBVIOUS
<1>1. LoginTypeOK
  <2>1. expires = (fails > 0)
    BY NoCounterNoKey DEF LoginInit
  <2> QED
    BY <2>1, MaxAttemptsAssumption DEF LoginInit, LoginTypeOK
<1>2. UnderVerification = {}
  BY DEF LoginInit, UnderVerification
<1>3. GuessesBounded
  BY <1>2, FS_EmptySet, FewUnderVerification, MaxAttemptsAssumption
     DEF LoginInit, GuessesBounded, Guesses, UnderVerification
<1> QED
  BY <1>1, <1>3 DEF LoginInv

\* A request that is refused, or whose failure is recorded, is one guess less under way;
\* the counter grows by no more than that.
LEMMA LoginStep == LoginInv /\ [LoginNext]_loginVars => LoginInv'
<1> SUFFICES ASSUME LoginInv, [LoginNext]_loginVars
             PROVE  LoginInv'
  OBVIOUS
<1> USE DEF LoginInv
<1> DEFINE n == Cardinality(UnderVerification)
           m == Cardinality(UnderVerification')
           all == Cardinality(Logins)
<1>1. /\ n \in Nat /\ n <= all /\ all \in Nat
      /\ m \in Nat /\ m <= all
  <2>1. UnderVerification' \subseteq Logins
    BY DEF UnderVerification
  <2> QED
    BY <2>1, FewUnderVerification, LoginsAssumption, FS_Subset, FS_CardinalityType
<1>2. /\ fails \in Nat /\ outages \in Nat /\ MaxAttempts \in Nat \ {0} /\ MaxOutages \in Nat
      /\ fails + n <= MaxAttempts - 1 + all + outages
  BY MaxAttemptsAssumption DEF LoginTypeOK, GuessesBounded, Guesses, UnderVerification
<1>3. Guesses = fails + n /\ Guesses' = fails' + m
  BY DEF Guesses, UnderVerification
<1>4. ASSUME NEW r \in Logins, IsLocked(r) PROVE LoginInv'
  <2>1. lpc[r] \notin {"verify", "wrong"} /\ Advance(r, "verify")
    BY <1>4 DEF IsLocked
  <2>2. LoginTypeOK'
    BY <1>4 DEF IsLocked, LoginTypeOK, Advance
  <2>3. fails' = fails /\ outages' = outages /\ fails < MaxAttempts
    BY <1>2, <1>4 DEF IsLocked, Locked
  <2> QED
    BY <1>1, <1>2, <1>3, <2>2, <2>3 DEF GuessesBounded
<1>5. ASSUME NEW r \in Logins, IsLockedFails(r) PROVE LoginInv'
  <2>1. lpc[r] \notin {"verify", "wrong"} /\ Advance(r, "verify")
    BY <1>5 DEF IsLockedFails
  <2>2. m = n + 1
    BY <2>1, OneLoginMoves
  <2>3. LoginTypeOK'
    BY <1>2, <1>5 DEF IsLockedFails, LoginTypeOK, Advance, Outage
  <2>4. fails' = fails /\ outages' = outages + 1
    BY <1>5 DEF IsLockedFails, Outage
  <2> QED
    BY <1>1, <1>2, <1>3, <2>2, <2>3, <2>4 DEF GuessesBounded
<1>6. ASSUME NEW r \in Logins, Verify(r) PROVE LoginInv'
  <2>1. PICK outcome \in {"wrong", "right"} : Advance(r, outcome)
    BY <1>6 DEF Verify
  <2>2. lpc[r] \in {"verify", "wrong"} /\ fails' = fails /\ outages' = outages
    BY <1>6 DEF Verify
  <2>3. m <= n
    BY <1>1, <2>1, <2>2, OneLoginMoves
  <2>4. LoginTypeOK'
    BY <1>6, <2>1 DEF Verify, LoginTypeOK, Advance
  <2> QED
    BY <1>1, <1>2, <1>3, <2>2, <2>3, <2>4 DEF GuessesBounded
<1>7. ASSUME NEW r \in Logins, RecordFailure(r) PROVE LoginInv'
  <2>1. lpc[r] \in {"verify", "wrong"} /\ Advance(r, "idle")
    BY <1>7 DEF RecordFailure
  <2>2. m = n - 1
    BY <2>1, OneLoginMoves
  <2>3. fails' = fails + 1 /\ outages' = outages
    BY <1>7 DEF RecordFailure
  <2>4. expires' = (fails' > 0)
    <3>1. CASE fails = 0
      BY <1>2, <1>7, <3>1 DEF RecordFailure
    <3>2. CASE fails > 0
      <4>1. expires
        BY <3>2 DEF LoginTypeOK
      <4> QED
        BY <1>2, <1>7, <3>2, <4>1 DEF RecordFailure
    <3> QED
      BY <1>2, <3>1, <3>2
  <2>5. LoginTypeOK'
    BY <1>2, <2>1, <2>3, <2>4 DEF LoginTypeOK, Advance
  <2> QED
    BY <1>1, <1>2, <1>3, <2>2, <2>3, <2>5 DEF GuessesBounded
<1>8. ASSUME NEW r \in Logins, RecordFailureFails(r) PROVE LoginInv'
  <2>1. lpc[r] \in {"verify", "wrong"} /\ Advance(r, "idle")
    BY <1>8 DEF RecordFailureFails
  <2>2. m = n - 1
    BY <2>1, OneLoginMoves
  <2>3. fails' = fails /\ outages' = outages + 1
    BY <1>8 DEF RecordFailureFails, Outage
  <2>4. LoginTypeOK'
    BY <1>2, <1>8 DEF RecordFailureFails, LoginTypeOK, Advance, Outage
  <2> QED
    BY <1>1, <1>2, <1>3, <2>2, <2>3, <2>4 DEF GuessesBounded
<1>9. ASSUME NEW r \in Logins, Clear(r) PROVE LoginInv'
  <2>1. fails' = 0 /\ outages' = outages
    BY <1>9 DEF Clear
  <2>2. LoginTypeOK'
    <3>1. expires' = (fails' > 0)
      BY <1>9, NoCounterNoKey DEF Clear
    <3> QED
      BY <1>9, <2>1, <3>1 DEF Clear, LoginTypeOK, Advance
  <2> QED
    BY <1>1, <1>2, <1>3, <2>1, <2>2 DEF GuessesBounded
<1>10. ASSUME NEW r \in Logins, ClearFails(r) PROVE LoginInv'
  <2>1. lpc[r] = "right" /\ Advance(r, "idle")
    BY <1>10 DEF ClearFails
  <2>2. m = n
    BY <2>1, OneLoginMoves
  <2>3. fails' = fails /\ outages' = outages + 1
    BY <1>10 DEF ClearFails, Outage
  <2>4. LoginTypeOK'
    BY <1>2, <1>10 DEF ClearFails, LoginTypeOK, Advance, Outage
  <2> QED
    BY <1>1, <1>2, <1>3, <2>2, <2>3, <2>4 DEF GuessesBounded
<1>11. CASE WindowEnds
  <2>1. fails' = 0 /\ outages' = outages
    BY <1>11 DEF WindowEnds
  <2>2. LoginTypeOK'
    <3>1. expires' = (fails' > 0)
      BY <1>11, NoCounterNoKey DEF WindowEnds
    <3> QED
      BY <1>11, <3>1, <2>1 DEF WindowEnds, LoginTypeOK
  <2> QED
    BY <1>1, <1>2, <1>3, <2>1, <2>2 DEF GuessesBounded
<1>12. CASE UNCHANGED loginVars
  BY <1>12 DEF loginVars, LoginTypeOK, GuessesBounded, Guesses
<1> QED
  BY <1>4, <1>5, <1>6, <1>7, <1>8, <1>9, <1>10, <1>11, <1>12 DEF LoginNext

\* LoginAttemptService: however many logins run in parallel, and whenever Redis fails,
\* one window sees fewer guesses than the limit, one for each request in flight and one
\* for each failed command - for any limit and any number of requests.
THEOREM GuessesStayBounded == LoginSpec => []GuessesBounded
<1>1. LoginInv => GuessesBounded
  BY DEF LoginInv
<1> QED
  BY <1>1, LoginInitInv, LoginStep, PTL DEF LoginSpec

-----------------------------------------------------------------------------
(***************************************************************************)
(* The distributed lock                                                    *)
(***************************************************************************)

\* Whoever is past acquire and did not overrun still has its token under the key.
HoldersHold == \A h \in Holders : hpc[h] # "idle" /\ h \notin overrun => lock = h

\* Every action of the lock keeps its variables in their types.
LEMMA LockStepType == LockTypeOK /\ [LockNext]_lockVars => LockTypeOK'
<1> SUFFICES ASSUME LockTypeOK, [LockNext]_lockVars PROVE LockTypeOK'
  OBVIOUS
<1> USE DEF LockTypeOK
<1>1. ASSUME NEW h \in Holders, Acquire(h) PROVE LockTypeOK'
  BY <1>1 DEF Acquire, Steps
<1>2. ASSUME NEW h \in Holders, AcquireUnanswered(h) PROVE LockTypeOK'
  BY <1>2 DEF AcquireUnanswered
<1>3. ASSUME NEW h \in Holders, Finish(h) PROVE LockTypeOK'
  BY <1>3 DEF Finish, Steps
<1>4. ASSUME NEW h \in Holders, Release(h) PROVE LockTypeOK'
  BY <1>4 DEF Release, Steps
<1>5. ASSUME NEW h \in Holders, ReleaseFails(h) PROVE LockTypeOK'
  BY <1>5 DEF ReleaseFails, Steps
<1>6. CASE Expire
  BY <1>6 DEF Expire
<1>7. CASE UNCHANGED lockVars
  BY <1>7 DEF lockVars
<1> QED
  BY <1>1, <1>2, <1>3, <1>4, <1>5, <1>6, <1>7 DEF LockNext

\* Every action of the lock keeps the token of a holder that did not overrun.
LEMMA LockStepHolds ==
  LockTypeOK /\ HoldersHold /\ [LockNext]_lockVars => HoldersHold'
<1> SUFFICES ASSUME LockTypeOK, HoldersHold, [LockNext]_lockVars PROVE HoldersHold'
  OBVIOUS
<1> USE FreeAssumption DEF LockTypeOK, HoldersHold
<1>1. ASSUME NEW h \in Holders, Acquire(h) PROVE HoldersHold'
  BY <1>1 DEF Acquire, Steps
<1>2. ASSUME NEW h \in Holders, AcquireUnanswered(h) PROVE HoldersHold'
  BY <1>2 DEF AcquireUnanswered
<1>3. ASSUME NEW h \in Holders, Finish(h) PROVE HoldersHold'
  BY <1>3 DEF Finish, Steps
<1>4. ASSUME NEW h \in Holders, Release(h) PROVE HoldersHold'
  BY <1>4 DEF Release, Steps
<1>5. ASSUME NEW h \in Holders, ReleaseFails(h) PROVE HoldersHold'
  BY <1>5 DEF ReleaseFails, Steps
<1>6. CASE Expire
  BY <1>6 DEF Expire
<1>7. CASE UNCHANGED lockVars
  BY <1>7 DEF lockVars
<1> QED
  BY <1>1, <1>2, <1>3, <1>4, <1>5, <1>6, <1>7 DEF LockNext

LockInv == LockTypeOK /\ HoldersHold

LEMMA LockInvariance == LockSpec => []LockInv
<1>1. LockInit => LockInv
  BY DEF LockInit, LockInv, LockTypeOK, HoldersHold
<1>2. LockInv /\ [LockNext]_lockVars => LockInv'
  BY LockStepType, LockStepHolds DEF LockInv
<1> QED
  BY <1>1, <1>2, PTL DEF LockSpec

\* RedisLockService: two critical sections run at once only when the lock of one of
\* them expired under it, for any number of callers.
THEOREM LockExclusion == LockSpec => []LockExclusive
<1>1. HoldersHold => LockExclusive
  BY DEF HoldersHold, LockExclusive
<1> QED
  BY <1>1, LockInvariance, PTL DEF LockInv

-----------------------------------------------------------------------------
(***************************************************************************)
(* The throttler                                                           *)
(***************************************************************************)

\* The counter counts: no more hits stand on it than were counted, no more requests
\* were let through than it stands on, and none beyond the limit.
Counted == hits <= counted /\ passed <= hits /\ passed <= HitLimit

\* Who may still pass a block asked before it was written.
PassersAreStale == blocked => \A c \in Calls : tpc[c] = "unblocked" => c \in stale

ThrottleInv == ThrottleTypeOK /\ Counted /\ PassersAreStale

\* Every action of the throttler keeps the counters in step and the block effective.
LEMMA ThrottleStep == ThrottleInv /\ [ThrottleNext]_throttleVars => ThrottleInv'
<1> SUFFICES ASSUME ThrottleInv, [ThrottleNext]_throttleVars PROVE ThrottleInv'
  OBVIOUS
<1> USE ThrottleAssumption DEF ThrottleInv, ThrottleTypeOK, Counted, PassersAreStale
<1>1. ASSUME NEW c \in Calls, ReadBlock(c) PROVE ThrottleInv'
  BY <1>1 DEF ReadBlock
<1>2. ASSUME NEW c \in Calls, CountHit(c) PROVE ThrottleInv'
  BY <1>2 DEF CountHit, Within
<1>3. ASSUME NEW c \in Calls, CountHitUnanswered(c) PROVE ThrottleInv'
  BY <1>3 DEF CountHitUnanswered
<1>4. ASSUME NEW c \in Calls, SetBlock(c) PROVE ThrottleInv'
  BY <1>4 DEF SetBlock
<1>5. ASSUME NEW c \in Calls, FailsOpen(c) PROVE ThrottleInv'
  BY <1>5 DEF FailsOpen
<1>6. CASE CounterExpires
  BY <1>6 DEF CounterExpires
<1>7. CASE BlockExpires
  BY <1>7 DEF BlockExpires
<1>8. CASE UNCHANGED throttleVars
  BY <1>8 DEF throttleVars
<1> QED
  BY <1>1, <1>2, <1>3, <1>4, <1>5, <1>6, <1>7, <1>8 DEF ThrottleNext

LEMMA ThrottleInitInv == ThrottleInit => ThrottleInv
<1> SUFFICES ASSUME ThrottleInit PROVE ThrottleInv
  OBVIOUS
<1> USE ThrottleAssumption DEF ThrottleInit
<1>1. ThrottleTypeOK
  <2>1. blocked \in BOOLEAN
    OBVIOUS
  <2>2. hits \in 0..MaxHits /\ passed \in 0..MaxHits /\ counted \in 0..MaxHits
    OBVIOUS
  <2>3. tpc \in [Calls -> {"idle", "unblocked", "over"}] /\ stale \in SUBSET Calls
    OBVIOUS
  <2> QED
    BY <2>1, <2>2, <2>3 DEF ThrottleTypeOK
<1>2. Counted /\ PassersAreStale
  BY DEF Counted, PassersAreStale
<1> QED
  BY <1>1, <1>2 DEF ThrottleInv

\* RedisThrottlerStorage.increment: a window of the counter lets no more than the limit
\* through, and a block only those that asked before it, whatever the limit.
THEOREM ThrottleIsExact == ThrottleSpec => ThrottleExact
<1> DEFINE Exact ==
      /\ passed' <= HitLimit
      /\ blocked /\ passed' > passed => \E c \in stale : tpc[c] = "unblocked"
<1>1. ThrottleInv /\ [ThrottleNext]_throttleVars => Exact \/ UNCHANGED throttleVars
  <2> SUFFICES ASSUME ThrottleInv, ThrottleNext PROVE Exact
    OBVIOUS
  <2>1. passed' <= HitLimit
    BY ThrottleStep DEF ThrottleInv, Counted
  <2>2. ASSUME blocked, passed' > passed PROVE \E c \in stale : tpc[c] = "unblocked"
    <3>1. passed \in Nat
      BY DEF ThrottleInv, ThrottleTypeOK
    <3>2. ASSUME NEW c \in Calls,
                 ReadBlock(c) \/ CountHitUnanswered(c) \/ SetBlock(c) \/ FailsOpen(c)
          PROVE  passed' = passed
      BY <3>2 DEF ReadBlock, CountHitUnanswered, SetBlock, FailsOpen
    <3>3. CounterExpires \/ BlockExpires => passed' = 0 \/ passed' = passed
      BY DEF CounterExpires, BlockExpires
    <3>4. PICK c \in Calls : CountHit(c)
      BY <2>2, <3>1, <3>2, <3>3 DEF ThrottleNext
    <3>5. tpc[c] = "unblocked"
      BY <3>4 DEF CountHit
    <3> QED
      BY <3>5, <2>2 DEF ThrottleInv, PassersAreStale
  <2> QED
    BY <2>1, <2>2
<1>2. ThrottleInv /\ [ThrottleNext]_throttleVars => [Exact]_throttleVars
  BY <1>1
<1> QED
  BY <1>2, ThrottleInitInv, ThrottleStep, PTL DEF ThrottleSpec, ThrottleExact

-----------------------------------------------------------------------------
(***************************************************************************)
(* All of them together                                                    *)
(***************************************************************************)

\* A step of one part leaves the others alone: it is a step or a stutter of each.
LEMMA EachPartSteps ==
  ASSUME [Next]_vars
  PROVE  /\ [PostCacheNext]_postVars
         /\ [LoginNext]_loginVars
         /\ [LockNext]_lockVars
         /\ [ThrottleNext]_throttleVars
<1>1. CASE OnlyCache
  BY <1>1 DEF OnlyCache
<1>2. CASE OnlyLogins
  BY <1>2 DEF OnlyLogins
<1>3. CASE OnlyLock
  BY <1>3 DEF OnlyLock
<1>4. CASE OnlyThrottle
  BY <1>4 DEF OnlyThrottle
<1>5. CASE UNCHANGED vars
  BY <1>5 DEF vars
<1> QED
  BY <1>1, <1>2, <1>3, <1>4, <1>5 DEF Next

\* What the four services keep in Redis meets in no key, so that a behaviour of the whole
\* is one of each of them.
THEOREM RedisParts ==
  Spec => /\ PostCacheInit /\ [][PostCacheNext]_postVars
          /\ LoginSpec /\ LockSpec /\ ThrottleSpec
<1>1. Init => PostCacheInit /\ LoginInit /\ LockInit /\ ThrottleInit
  BY DEF Init
<1> QED
  BY <1>1, EachPartSteps, PTL DEF Spec, LoginSpec, LockSpec, ThrottleSpec

\* CacheService, LoginAttemptService, RedisLockService and RedisThrottlerStorage: every
\* variable of every part keeps its type, whatever the others do meanwhile; among them
\* the promise that no counter of failures is ever without a time to live.
THEOREM RedisTypes == Spec => []TypeOK
<1>1. PostCacheInv /\ LoginInv /\ LockInv /\ ThrottleInv => TypeOK
  BY DEF TypeOK, PostCacheInv, LoginInv, LockInv, ThrottleInv
<1>2. LoginSpec => []LoginInv
  BY LoginInitInv, LoginStep, PTL DEF LoginSpec
<1>3. ThrottleSpec => []ThrottleInv
  BY ThrottleInitInv, ThrottleStep, PTL DEF ThrottleSpec
<1> QED
  BY <1>1, <1>2, <1>3, RedisParts, PostCacheInvariance, LockInvariance, PTL

\* What is promised of each service holds of the system of all of them.
THEOREM RedisKeepsPromises ==
  Spec => /\ [](StaleOnlyWhenKnown /\ InFlightExact /\ GuessesBounded /\ LockExclusive)
          /\ RankingKept
          /\ ThrottleExact
<1>1. PostCacheInv => StaleOnlyWhenKnown /\ InFlightExact
  BY DEF PostCacheInv
<1>2. PostCacheInit /\ [][PostCacheNext]_postVars => RankingKept
  <2>1. PostCacheInv /\ [PostCacheNext]_postVars => [ranked /\ ~ranked' => gone \/ faults > 0]_postVars
    BY DropIsDue DEF PostCacheInv
  <2> QED
    BY <2>1, PostCacheInvariance, PTL DEF RankingKept
<1> QED
  BY <1>1, <1>2, RedisParts, PostCacheInvariance, GuessesStayBounded, LockExclusion,
     ThrottleIsExact, PTL
=============================================================================
