----------------------------- MODULE PostCache -----------------------------
(***************************************************************************)
(* How one post is read through the cache and what writing it does:        *)
(* PostsService.findOne, findAll, trending, incrementView, update, remove  *)
(* and uploadCover, with CacheService and TrendingService.                 *)
(*                                                                         *)
(* The row is a version number that every write increases; deleting the    *)
(* post is its last write.  Two cache keys depend on it: its own, and the  *)
(* lists it is in, which the pattern invalidation treats as one.  The      *)
(* ranking is a sorted set of which the post is a member or not; a read of *)
(* it gets the members with the best scores only.                          *)
(***************************************************************************)
EXTENDS Naturals, FiniteSets

CONSTANTS
  Servers,      \* processes; each has its cool-down and its loads under way
  Readers,      \* GET requests
  Writers,      \* writing requests
  Viewers,      \* POST /posts/:id/view requests
  Home,         \* Home[a]: the process that serves request a
  Nothing,      \* no entry, no load, no answer
  Loading,      \* a load whose SELECT has not returned
  MaxVersion,   \* bound: writes
  MaxFaults     \* bound: failed commands and crashes

ASSUME HomeAssumption == Home \in [Readers \cup Writers \cup Viewers -> Servers]
ASSUME PostBoundsAssumption == MaxVersion \in Nat /\ MaxFaults \in Nat
ASSUME NothingAssumption ==
  Nothing # Loading /\ Nothing \notin 0..MaxVersion /\ Loading \notin 0..MaxVersion

Keys == {"post", "list"}

VARIABLES
  version,   \* the posts row, as a number
  gone,      \* the row is deleted
  entry,     \* entry[k]: the version cached under k, or Nothing
  late,      \* late[k]: history: it was already overwritten when it was stored
  cooling,   \* cooling[p]: now < redisCoolDownUntil in process p
  inFlight,  \* inFlight[p]: the list load p shares: Nothing, Loading or the
             \* version its SELECT returned
  dpc,       \* dpc[r]: "idle", "load" (from the database, not to be cached),
             \* "miss", "joined", "fill", "dropping" (a member of the ranking)
  dkey,      \* dkey[r]: what r reads: "post", "list" or "ranked" (trending)
  dval,      \* dval[r]: the version it loaded
  upc,       \* upc[w]: "idle", "written", "half" (its own key deleted), "unranked"
  vpc,       \* vpc[v]: "idle", "counted"
  ranked,    \* the post is in the ZSET
  inTop,     \* it is among the first `limit` of its members, which top(limit) reads
  faults     \* commands that failed, processes that died

readVars  == <<dpc, dkey, dval, inFlight>>
storeVars == <<entry, late>>
rankVars  == <<ranked, inTop>>
postVars  == <<version, gone, storeVars, cooling, readVars, upc, vpc, rankVars, faults>>

Versions == 0..MaxVersion

PostCacheTypeOK ==
  /\ version \in Versions
  /\ gone \in BOOLEAN
  /\ entry \in [Keys -> Versions \cup {Nothing}]
  /\ late \in [Keys -> BOOLEAN]
  /\ cooling \in [Servers -> BOOLEAN]
  /\ inFlight \in [Servers -> Versions \cup {Nothing, Loading}]
  /\ dpc \in [Readers -> {"idle", "load", "miss", "joined", "fill", "dropping"}]
  /\ dkey \in [Readers -> {"post", "list", "ranked"}]
  /\ dval \in [Readers -> Versions \cup {Nothing}]
  /\ upc \in [Writers -> {"idle", "written", "half", "unranked"}]
  /\ vpc \in [Viewers -> {"idle", "counted"}]
  /\ ranked \in BOOLEAN
  /\ inTop \in BOOLEAN
  /\ faults \in 0..MaxFaults

PostCacheInit ==
  /\ version = 0
  /\ gone = FALSE
  /\ entry = [k \in Keys |-> Nothing]
  /\ late = [k \in Keys |-> FALSE]
  /\ cooling = [p \in Servers |-> FALSE]
  /\ inFlight = [p \in Servers |-> Nothing]
  /\ dpc = [r \in Readers |-> "idle"]
  /\ dkey = [r \in Readers |-> "post"]
  /\ dval = [r \in Readers |-> Nothing]
  /\ upc = [w \in Writers |-> "idle"]
  /\ vpc = [v \in Viewers |-> "idle"]
  /\ ranked = FALSE
  /\ inTop = FALSE
  /\ faults = 0

-----------------------------------------------------------------------------
Fault == faults < MaxFaults /\ faults' = faults + 1

KeyOf(r) == IF dkey[r] = "list" THEN "list" ELSE "post"

Joined(p) == {r \in Readers : Home[r] = p /\ dpc[r] = "joined"}

\* A reader that got its answer, or its error.
Answered(r) ==
  /\ dpc' = [dpc EXCEPT ![r] = "idle"]
  /\ dkey' = [dkey EXCEPT ![r] = "post"]
  /\ dval' = [dval EXCEPT ![r] = Nothing]

Reads(r, pc, what) ==
  /\ dpc' = [dpc EXCEPT ![r] = pc]
  /\ dkey' = [dkey EXCEPT ![r] = what]
  /\ UNCHANGED dval

EntersCoolDown(p) == cooling' = [cooling EXCEPT ![p] = TRUE]

-----------------------------------------------------------------------------
(***************************************************************************)
(* Reading                                                                 *)
(***************************************************************************)
readFrame == <<version, gone, upc, vpc, rankVars>>

\* findAll, findOne, and trending with the post among the top: bypass while cooling
\* down, else GET; a hit is answered at once.  A list miss joins the load under way,
\* or begins one, before anything else can run.
AskCache(r, what) ==
  LET p == Home[r]
      k == IF what = "list" THEN "list" ELSE "post"
  IN
  /\ dpc[r] = "idle"
  /\ what = "ranked" => inTop
  /\ \/ /\ cooling[p]
        /\ Reads(r, "load", what)
        /\ UNCHANGED inFlight
     \/ /\ ~cooling[p] /\ entry[k] = Nothing
        /\ Reads(r, IF k = "list" THEN "joined" ELSE "miss", what)
        /\ inFlight' = IF k = "list" /\ inFlight[p] = Nothing
                         THEN [inFlight EXCEPT ![p] = Loading] ELSE inFlight
  /\ UNCHANGED <<storeVars, cooling, faults, readFrame>>

\* GET fails: cool down, and bypass.
AskCacheFails(r, what) ==
  /\ dpc[r] = "idle"
  /\ what = "ranked" => inTop
  /\ ~cooling[Home[r]]
  /\ Fault
  /\ EntersCoolDown(Home[r])
  /\ Reads(r, "load", what)
  /\ UNCHANGED <<storeVars, inFlight, readFrame>>

\* Mutant: trending skips a post that is gone and leaves it on the ranking.
Skip(r) == Answered(r)

\* What a failed load does: trending takes any error for a post that is gone.
LoadRejected(r) ==
  IF dkey[r] = "ranked" THEN Reads(r, "dropping", "ranked") ELSE Answered(r)

\* loadById of a miss: the SELECT; a post that is gone is an error.
LoadById(r) ==
  /\ dpc[r] = "miss"
  /\ IF gone
       THEN LoadRejected(r)
       ELSE /\ dpc' = [dpc EXCEPT ![r] = "fill"]
            /\ dval' = [dval EXCEPT ![r] = version]
            /\ UNCHANGED dkey
  /\ UNCHANGED <<storeVars, inFlight, cooling, faults, readFrame>>

\* The same around the cache, for a post or a list.
LoadBypassing(r) ==
  /\ dpc[r] = "load"
  /\ IF gone /\ dkey[r] # "list" THEN LoadRejected(r) ELSE Answered(r)
  /\ UNCHANGED <<storeVars, inFlight, cooling, faults, readFrame>>

LoadFails(r) ==
  /\ dpc[r] \in {"miss", "load"}
  /\ Fault
  /\ LoadRejected(r)
  /\ UNCHANGED <<storeVars, inFlight, cooling, readFrame>>

\* The shared list load: its SELECT, and the promise that wakes whoever joined.
ListSelect(p) ==
  /\ inFlight[p] = Loading
  /\ inFlight' = [inFlight EXCEPT ![p] = version]
  /\ UNCHANGED <<storeVars, cooling, dpc, dkey, dval, faults, readFrame>>

ListResolve(p) ==
  /\ inFlight[p] \in Versions
  /\ inFlight' = [inFlight EXCEPT ![p] = Nothing]
  /\ dpc' = [r \in Readers |-> IF r \in Joined(p) THEN "fill" ELSE dpc[r]]
  /\ dval' = [r \in Readers |-> IF r \in Joined(p) THEN inFlight[p] ELSE dval[r]]
  /\ UNCHANGED <<storeVars, cooling, dkey, faults, readFrame>>

\* Mutant: the load is forgotten only when it succeeds (then, not finally).
ListLoadFailsKept(p) ==
  /\ inFlight[p] = Loading
  /\ Fault
  /\ dpc' = [r \in Readers |-> IF r \in Joined(p) THEN "idle" ELSE dpc[r]]
  /\ dkey' = [r \in Readers |-> IF r \in Joined(p) THEN "post" ELSE dkey[r]]
  /\ UNCHANGED <<inFlight, storeVars, cooling, dval, readFrame>>

\* finally: the load is forgotten when it fails too, and everybody gets the error.
ListLoadFails(p) ==
  /\ inFlight[p] = Loading
  /\ Fault
  /\ inFlight' = [inFlight EXCEPT ![p] = Nothing]
  /\ dpc' = [r \in Readers |-> IF r \in Joined(p) THEN "idle" ELSE dpc[r]]
  /\ dkey' = [r \in Readers |-> IF r \in Joined(p) THEN "post" ELSE dkey[r]]
  /\ UNCHANGED <<storeVars, cooling, dval, readFrame>>

\* SET with a time to live, of what was read some time ago.
Fill(r) ==
  /\ dpc[r] = "fill"
  /\ entry' = [entry EXCEPT ![KeyOf(r)] = dval[r]]
  /\ late' = [late EXCEPT ![KeyOf(r)] = dval[r] # version]
  /\ Answered(r)
  /\ UNCHANGED <<inFlight, cooling, faults, readFrame>>

FillFails(r) ==
  /\ dpc[r] = "fill"
  /\ Fault
  /\ EntersCoolDown(Home[r])
  /\ Answered(r)
  /\ UNCHANGED <<storeVars, inFlight, readFrame>>

\* ZREM.
OffRanking == ranked' = FALSE /\ inTop' = FALSE

\* trending's catch: ZREM; a failing one is swallowed by withRedis.
DropFromRanking(r) ==
  /\ dpc[r] = "dropping"
  /\ OffRanking
  /\ Answered(r)
  /\ UNCHANGED <<version, gone, storeVars, inFlight, cooling, upc, vpc, faults>>

DropFails(r) ==
  /\ dpc[r] = "dropping"
  /\ Fault
  /\ Answered(r)
  /\ UNCHANGED <<storeVars, inFlight, cooling, readFrame>>

\* Mutant: the lists are stored without a time to live.
PostExpiresOnly(k) ==
  /\ k = "post" /\ entry[k] # Nothing
  /\ entry' = [entry EXCEPT ![k] = Nothing]
  /\ late' = [late EXCEPT ![k] = FALSE]
  /\ UNCHANGED <<cooling, readVars, faults, readFrame>>

\* The time to live of an entry, and the cool-down, are over.
EntryExpires(k) ==
  /\ entry[k] # Nothing
  /\ entry' = [entry EXCEPT ![k] = Nothing]
  /\ late' = [late EXCEPT ![k] = FALSE]
  /\ UNCHANGED <<cooling, readVars, faults, readFrame>>

CoolDownEnds(p) ==
  /\ cooling[p]
  /\ cooling' = [cooling EXCEPT ![p] = FALSE]
  /\ UNCHANGED <<storeVars, readVars, faults, readFrame>>

-----------------------------------------------------------------------------
(***************************************************************************)
(* Writing                                                                 *)
(***************************************************************************)
Deleted(k) ==
  /\ entry' = [entry EXCEPT ![k] = Nothing]
  /\ late' = [late EXCEPT ![k] = FALSE]

Moves(w, pc) == upc' = [upc EXCEPT ![w] = pc]

\* The statement of update, uploadCover or remove; the last one deletes the row.
Write(w) ==
  /\ upc[w] = "idle"
  /\ ~gone
  /\ version < MaxVersion
  /\ version' = version + 1
  /\ gone' \in BOOLEAN
  /\ Moves(w, "written")
  /\ UNCHANGED <<storeVars, cooling, readVars, vpc, rankVars, faults>>

\* Mutant: a write invalidates the lists only.
InvalidateListOnly(w) ==
  /\ upc[w] = "written"
  /\ Moves(w, "half")
  /\ UNCHANGED <<version, gone, storeVars, cooling, readVars, vpc, rankVars, faults>>

\* invalidate: DEL of the post's key, then the pattern.
InvalidatePost(w) ==
  /\ upc[w] = "written"
  /\ Deleted("post")
  /\ Moves(w, "half")
  /\ UNCHANGED <<version, gone, cooling, readVars, vpc, rankVars, faults>>

\* Mutant: every write takes the post off the ranking, not the removal alone.
AfterInvalidationAlways == "unranked"

AfterInvalidation == IF gone THEN "unranked" ELSE "idle"

InvalidateLists(w) ==
  /\ upc[w] = "half"
  /\ Deleted("list")
  /\ Moves(w, AfterInvalidation)
  /\ UNCHANGED <<version, gone, cooling, readVars, vpc, rankVars, faults>>

\* A command of the invalidation fails: cool down, and answer as if nothing happened.
InvalidationFails(w) ==
  /\ upc[w] \in {"written", "half"}
  /\ Fault
  /\ EntersCoolDown(Home[w])
  /\ Moves(w, AfterInvalidation)
  /\ UNCHANGED <<version, gone, storeVars, readVars, vpc, rankVars>>

\* A node of the cluster does not answer the scan: its keys stay, and no cool-down.
InvalidationSkipped(w) ==
  /\ upc[w] = "half"
  /\ Fault
  /\ Moves(w, AfterInvalidation)
  /\ UNCHANGED <<version, gone, storeVars, cooling, readVars, vpc, rankVars>>

\* remove: the post leaves the ranking last; a failing ZREM is swallowed.
Unrank(w) ==
  /\ upc[w] = "unranked"
  /\ \/ OffRanking /\ UNCHANGED faults
     \/ Fault /\ UNCHANGED rankVars
  /\ Moves(w, "idle")
  /\ UNCHANGED <<version, gone, storeVars, cooling, readVars, vpc>>

\* A process dies with what it had under way; its successor starts with nothing.
ServerDies(p) ==
  /\ Fault
  /\ cooling' = [cooling EXCEPT ![p] = FALSE]
  /\ inFlight' = [inFlight EXCEPT ![p] = Nothing]
  /\ dpc' = [r \in Readers |-> IF Home[r] = p THEN "idle" ELSE dpc[r]]
  /\ dkey' = [r \in Readers |-> IF Home[r] = p THEN "post" ELSE dkey[r]]
  /\ dval' = [r \in Readers |-> IF Home[r] = p THEN Nothing ELSE dval[r]]
  /\ upc' = [w \in Writers |-> IF Home[w] = p THEN "idle" ELSE upc[w]]
  /\ vpc' = [v \in Viewers |-> IF Home[v] = p THEN "idle" ELSE vpc[v]]
  /\ UNCHANGED <<version, gone, storeVars, rankVars>>

\* incrementView: the UPDATE hits a row or not, then ZINCRBY.
CountView(v) ==
  /\ vpc[v] = "idle"
  /\ ~gone
  /\ vpc' = [vpc EXCEPT ![v] = "counted"]
  /\ UNCHANGED <<version, gone, storeVars, cooling, readVars, upc, rankVars, faults>>

\* A point more: a member by then, and among the first or not, as the others' scores are.
Bump(v) ==
  /\ vpc[v] = "counted"
  /\ \/ ranked' = TRUE /\ inTop' \in {inTop, TRUE} /\ UNCHANGED faults
     \/ Fault /\ UNCHANGED rankVars
  /\ vpc' = [vpc EXCEPT ![v] = "idle"]
  /\ UNCHANGED <<version, gone, storeVars, cooling, readVars, upc>>

\* Other posts are viewed or taken off, and pass this one or let it pass.
Reranked ==
  /\ ranked
  /\ inTop' = ~inTop
  /\ UNCHANGED <<version, gone, storeVars, cooling, readVars, upc, vpc, ranked, faults>>

PostCacheNext ==
  \/ \E r \in Readers :
       \/ \E what \in {"post", "list", "ranked"} : AskCache(r, what) \/ AskCacheFails(r, what)
       \/ LoadById(r) \/ LoadBypassing(r) \/ LoadFails(r)
       \/ Fill(r) \/ FillFails(r) \/ DropFromRanking(r) \/ DropFails(r)
  \/ \E p \in Servers :
       \/ ListSelect(p) \/ ListResolve(p) \/ ListLoadFails(p) \/ CoolDownEnds(p)
       \/ ServerDies(p)
  \/ \E k \in Keys : EntryExpires(k)
  \/ \E w \in Writers :
       \/ Write(w) \/ InvalidatePost(w) \/ InvalidateLists(w)
       \/ InvalidationFails(w) \/ InvalidationSkipped(w) \/ Unrank(w)
  \/ \E v \in Viewers : CountView(v) \/ Bump(v)
  \/ Reranked

\* What a request that was accepted goes on to do.
ReaderGoesOn(r) == LoadById(r) \/ LoadBypassing(r) \/ Fill(r) \/ DropFromRanking(r)
WriterGoesOn(w) == InvalidatePost(w) \/ InvalidateLists(w) \/ Unrank(w)
LoadGoesOn(p)   == ListSelect(p) \/ ListResolve(p)
AsksRanking     == \E r \in Readers : AskCache(r, "ranked")

\* Requests are served, and Redis ends what has a time to live.
PostCacheGoesOn ==
  /\ \A r \in Readers : WF_postVars(ReaderGoesOn(r))
  /\ \A w \in Writers : WF_postVars(WriterGoesOn(w))
  /\ \A p \in Servers : WF_postVars(LoadGoesOn(p))
  /\ \A k \in Keys : WF_postVars(EntryExpires(k))

\* Besides, people keep asking for the ranking; nothing else has to happen.
PostCacheFairness == PostCacheGoesOn /\ SF_postVars(AsksRanking)

PostCacheSpec == PostCacheInit /\ [][PostCacheNext]_postVars /\ PostCacheFairness

-----------------------------------------------------------------------------
\* A write has still to invalidate k.
Pending(k) ==
  \E w \in Writers : upc[w] = "written" \/ (k = "list" /\ upc[w] = "half")

\* Without faults the cache is stale in two cases only: while a write has still to
\* invalidate the key, and when a reader stored what it had loaded before the write.
StaleOnlyWhenKnown ==
  \A k \in Keys :
    entry[k] # Nothing /\ entry[k] # version =>
      late[k] \/ Pending(k) \/ faults > 0

\* The table of loads under way holds exactly the loads that somebody waits for, so a
\* list that failed to load once is loaded again by the next reader.
InFlightExact ==
  \A p \in Servers : inFlight[p] # Nothing <=> Joined(p) # {}

\* A post leaves the ranking when it is gone.  A read that failed has the same effect, so
\* that it takes a fault for a post to lose its score while it is there: no race of views,
\* writes and readers of the ranking does that.
RankingKept == [][ranked /\ ~ranked' => gone \/ faults > 0]_postVars

\* Stale entries end: once writes cease, whatever failed and whoever was late, the
\* cache holds the current version or nothing, for good.
CacheConverges ==
  <>[](\A k \in Keys : entry[k] = Nothing \/ entry[k] = version)

\* A view that was counted before the deletion may put the deleted post back on the
\* ranking.  It does not stay among the members that are read: those who read them take
\* it off.  Nothing takes off one that ranks below them.
GhostsLeave == gone /\ inTop ~> ~inTop
=============================================================================
