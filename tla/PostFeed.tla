------------------------------- MODULE PostFeed -------------------------------
(***************************************************************************)
(* GET /posts/feed: a client walks the posts page by page, each page asked *)
(* for with the cursor of the one before (PostsService.feed,               *)
(* PrismaPostsRepository.findByCursor and cursorOf, encodeCursor and       *)
(* decodeCursor), while posts are created, edited and removed.             *)
(*                                                                         *)
(* A post is its id and the value of the column the feed is sorted by;     *)
(* posts that do not pass the filter of the query are not there.           *)
(***************************************************************************)
EXTENDS Naturals, FiniteSets

CONSTANTS
  PostIds,    \* ids of posts
  SortKeys,   \* values of the column, which several posts may share
  Limit,      \* query.limit
  MaxEdits    \* bound: changes during the walk

ASSUME FeedAssumption ==
  /\ PostIds \subseteq Nat /\ IsFiniteSet(PostIds)
  /\ SortKeys \subseteq Nat \ {0}
  /\ Limit \in Nat \ {0}
  /\ MaxEdits \in Nat

VARIABLES
  sortKey,  \* sortKey[i]: the sorted column of post i, 0 when it is not there
  order,    \* query.order
  cursor,   \* <<value, id>> of the last post of the page, or <<>>
  walking,  \* the last page was not the last one
  seen,     \* seen[i]: how often the client was given post i
  steady,   \* history: posts whose place did not change during the walk
  edits     \* changes so far

feedVars == <<sortKey, order, cursor, walking, seen, steady, edits>>

Present == {i \in PostIds : sortKey[i] # 0}

FeedTypeOK ==
  /\ sortKey \in [PostIds -> SortKeys \cup {0}]
  /\ order \in {"asc", "desc"}
  /\ cursor \in {<<>>} \cup (SortKeys \X PostIds)
  /\ walking \in BOOLEAN
  /\ seen \in [PostIds -> Nat]
  /\ steady \in SUBSET PostIds
  /\ edits \in 0..MaxEdits

FeedInit ==
  /\ sortKey \in [PostIds -> SortKeys \cup {0}]
  /\ order \in {"asc", "desc"}
  /\ cursor = <<>>
  /\ walking = TRUE
  /\ seen = [i \in PostIds |-> 0]
  /\ steady = Present
  /\ edits = 0

-----------------------------------------------------------------------------
\* The position of a post: equal values are told apart by the id.
Position(i) == <<sortKey[i], i>>

\* gt or lt, on the value and then on the id.
Past(p, q) ==
  IF order = "asc"
    THEN p[1] > q[1] \/ (p[1] = q[1] /\ p[2] > q[2])
    ELSE p[1] < q[1] \/ (p[1] = q[1] /\ p[2] < q[2])

\* Mutant: the cursor is the value alone.
AfterValueOnly(i) ==
  cursor = <<>> \/ IF order = "asc" THEN sortKey[i] > cursor[1] ELSE sortKey[i] < cursor[1]

\* The keyset condition.
AfterCursor(i) == cursor = <<>> \/ Past(Position(i), cursor)

\* orderBy and take: the first n of what the condition leaves.
Rows(n) ==
  LET after == {i \in Present : AfterCursor(i)}
  IN {i \in after : Cardinality({j \in after : Past(Position(i), Position(j))}) < n}

\* One post more than the page tells whether there is a next page.
GetPage ==
  /\ walking
  /\ LET page == Rows(Limit)
         hasMore == Cardinality(Rows(Limit + 1)) > Limit
     IN
     /\ seen' = [i \in PostIds |-> IF i \in page THEN seen[i] + 1 ELSE seen[i]]
     /\ walking' = hasMore
     /\ IF hasMore
          THEN \E i \in page : /\ \A j \in page : j = i \/ Past(Position(i), Position(j))
                               /\ cursor' = Position(i)
          ELSE UNCHANGED cursor
  /\ UNCHANGED <<sortKey, order, steady, edits>>

\* A post is created, removed, or its value changes (a title, updatedAt); a post that
\* was not touched keeps its place.
PostMoves(i, k) ==
  /\ walking
  /\ edits < MaxEdits
  /\ k # sortKey[i]
  /\ sortKey' = [sortKey EXCEPT ![i] = k]
  /\ steady' = steady \ {i}
  /\ edits' = edits + 1
  /\ UNCHANGED <<order, cursor, walking, seen>>

FeedNext ==
  \/ GetPage
  \/ \E i \in PostIds, k \in SortKeys \cup {0} : PostMoves(i, k)

FeedSpec == FeedInit /\ [][FeedNext]_feedVars

-----------------------------------------------------------------------------
\* Whatever is created, removed or moved during the walk, a post that keeps its place
\* is given to the client at most once, and exactly once when the walk ends - also
\* when the post the cursor was made from has gone and when posts share a value.
FeedExact ==
  \A i \in steady : seen[i] <= 1 /\ (~walking => seen[i] = 1)
=============================================================================
