------------------------- MODULE PostRevisionProofs -------------------------
(***************************************************************************)
(* What holds of the text of a post for any number of editors, texts, tags *)
(* and versions: ExactHistory, NoUpdateLost, SecondAttemptConnects, and    *)
(* that the revisions implement TextHistory, RevisionsAreHistory.  They    *)
(* rest on the inductive invariant RevisionsInv.                           *)
(***************************************************************************)
EXTENDS PostRevisions, FiniteSetTheorems, TLAPS

-----------------------------------------------------------------------------
(***************************************************************************)
(* The inductive invariant                                                 *)
(***************************************************************************)

\* A row has a text; there is none before the post is created, and until then the
\* request that creates it is alone.
BornOnce ==
  /\ Exists <=> ptext # NoText
  /\ ~born => ~Exists
  /\ \A e \in Editors : ed[e].kind = "create" /\ ed[e].pc # "idle" =>
       /\ ~born
       /\ ed[e].text # NoText
       /\ ed[e].expected = 0
       /\ ~ed[e].archive
       /\ \A d \in Editors : d # e => ed[d].pc = "idle"

\* A form shows the text of the version it will send along, as long as that is the
\* version of the post; and who is past the check does not update an archived post.
FormsShowVersions ==
  \A e \in Editors :
    ed[e].pc # "idle" /\ ed[e].expected # 0 =>
      /\ Exists => ed[e].expected <= pver
      /\ ed[e].expected = pver => ed[e].shown = ptext
      /\ ed[e].expected = pver /\ ed[e].pc \in {"ready", "tx"} => pstatus # "archived"

\* The row lock: one update at a time, of a post that is there in the version sent.
OneUpdate ==
  \A e \in Editors : ed[e].pc = "tx" /\ ed[e].kind = "update" =>
    /\ Exists
    /\ ed[e].expected \in {0, pver}
    /\ \A d \in Editors : ed[d].pc = "tx" /\ ed[d].kind = "update" => d = e

\* A transaction inserts tags of its list only, and a second attempt with one tag none.
RetriesKnowTheirTag ==
  \A e \in Editors :
    /\ IsFiniteSet(ed[e].tags)
    /\ ed[e].absent \subseteq ed[e].tags
    /\ ed[e].pc = "open" => ~ed[e].retried /\ ed[e].absent = {}
    /\ ed[e].retried /\ Cardinality(ed[e].tags) = 1 =>
         ed[e].tags \subseteq tagNames /\ ed[e].absent = {}

RevisionsInv ==
  /\ RevisionsTypeOK
  /\ BornOnce
  /\ FormsShowVersions
  /\ OneUpdate
  /\ RetriesKnowTheirTag
  /\ RevisionsExact

-----------------------------------------------------------------------------
\* The other editors keep their requests.
LEMMA OthersKeep ==
  ASSUME RevisionsTypeOK, NEW e \in Editors, NEW request, Becomes(e, request)
  PROVE  /\ ed'[e] = request
         /\ \A d \in Editors : d # e => ed'[d] = ed[d]
         /\ request \in Request => ed' \in [Editors -> Request]
  BY DEF RevisionsTypeOK, Becomes

\* No request is one, and it asks for nothing.
LEMMA NothingAsked ==
  /\ NoRequest \in Request
  /\ NoRequest.pc = "idle" /\ NoRequest.kind = "update" /\ NoRequest.expected = 0
  /\ NoRequest.tags = {} /\ NoRequest.absent = {} /\ ~NoRequest.retried
  BY DEF NoRequest, Request

\* What an action makes of the request of its editor.
LEMMA RequestSteps ==
  ASSUME RevisionsTypeOK, NEW e \in Editors
  PROVE  /\ ed[e] \in Request
         /\ \A s \in TagLists, t \in Texts \cup {NoText}, a \in BOOLEAN :
              [ed[e] EXCEPT !.pc = "ready", !.text = t, !.archive = a, !.tags = s]
                \in Request
         /\ [ed[e] EXCEPT !.pc = "tx", !.absent = ed[e].tags \ tagNames] \in Request
         /\ [ed[e] EXCEPT !.pc = "ready", !.absent = {}, !.retried = TRUE] \in Request
<1>1. ed[e] \in Request
  BY DEF RevisionsTypeOK
<1>2. \A s \in TagLists : s \subseteq Tags
  BY DEF Tags
<1>3. ed[e].tags \ tagNames \in SUBSET Tags
  BY <1>1 DEF Request
<1> QED
  BY <1>1, <1>2, <1>3 DEF Request

\* Every action on a post keeps every variable in its type.
LEMMA RevisionsStepType ==
  RevisionsTypeOK /\ [RevisionsNext]_revisionVars => RevisionsTypeOK'
<1> SUFFICES ASSUME RevisionsTypeOK, [RevisionsNext]_revisionVars PROVE RevisionsTypeOK'
  OBVIOUS
<1> USE PostVersionAssumption
    DEF RevisionsTypeOK, PostVersions, NoRevisions
<1>1. ASSUME NEW e \in Editors, NEW v \in BOOLEAN, OpenForm(e, v) PROVE RevisionsTypeOK'
  BY <1>1 DEF OpenForm, Exists, Becomes, Request, NoRequest
<1>2. ASSUME NEW e \in Editors, NEW s \in TagLists, NEW t \in Texts, SubmitCreate(e, t, s)
      PROVE  RevisionsTypeOK'
  BY <1>2 DEF SubmitCreate, Tags, Becomes, Request, NoRequest
<1>3. ASSUME NEW e \in Editors, NEW s \in TagLists, NEW t \in Texts \cup {NoText},
             NEW a \in BOOLEAN, Check(e, t, a, s)
      PROVE  RevisionsTypeOK'
  BY <1>3, OthersKeep, NothingAsked, RequestSteps DEF Check
<1>4. ASSUME NEW e \in Editors, Begin(e) PROVE RevisionsTypeOK'
  BY <1>4, OthersKeep, NothingAsked, RequestSteps DEF Begin
<1>5. ASSUME NEW e \in Editors, CommitCreate(e) PROVE RevisionsTypeOK'
  <2>1. ed[e].text \in Texts \cup {NoText} /\ ed[e].tags \subseteq Tags
    BY DEF Request
  <2>2. ed' \in [Editors -> Request]
    BY <1>5, OthersKeep, NothingAsked DEF CommitCreate
  <2> QED
    BY <1>5, <2>1, <2>2 DEF CommitCreate
<1>6. ASSUME NEW e \in Editors, CommitUpdate(e) PROVE RevisionsTypeOK'
  <2>1. NewText(e) \in Texts \cup {NoText} /\ ed[e].tags \subseteq Tags
    BY DEF Request, NewText
  <2>2. ed' \in [Editors -> Request]
    BY <1>6, OthersKeep, NothingAsked DEF CommitUpdate
  <2>3. pver' \in PostVersions
    BY <1>6 DEF CommitUpdate
  <2>4. revs' \in [PostVersions -> Texts \cup {NoText}]
    BY <1>6, <2>1 DEF CommitUpdate, Snapshot
  <2> QED
    BY <1>6, <2>1, <2>2, <2>3, <2>4 DEF CommitUpdate
<1>7. ASSUME NEW e \in Editors, TagConflict(e) PROVE RevisionsTypeOK'
  BY <1>7, OthersKeep, NothingAsked, RequestSteps DEF TagConflict
<1>8. ASSUME NEW e \in Editors, WriteFails(e) PROVE RevisionsTypeOK'
  BY <1>8, OthersKeep, NothingAsked DEF WriteFails
<1>9. CASE RemovePost
  BY <1>9 DEF RemovePost
<1>10. ASSUME NEW t \in Tags, OtherPostTagged(t) PROVE RevisionsTypeOK'
  BY <1>10 DEF OtherPostTagged
<1>11. CASE UNCHANGED revisionVars
  BY <1>11 DEF revisionVars
<1> QED
  BY <1>1, <1>2, <1>3, <1>4, <1>5, <1>6, <1>7, <1>8, <1>9, <1>10, <1>11 DEF RevisionsNext

\* A list with one tag that lacks none of the tags there are.
LEMMA OneTag ==
  ASSUME NEW tags, IsFiniteSet(tags), Cardinality(tags) = 1, NEW absent \in SUBSET tags,
         NEW names, absent \cap names # {}
  PROVE  tags \subseteq names
  BY FS_Singleton

\* Every action on a post keeps its history exact, its forms true and its lock exclusive.
LEMMA RevisionsStep == RevisionsInv /\ [RevisionsNext]_revisionVars => RevisionsInv'
<1> SUFFICES ASSUME RevisionsInv, [RevisionsNext]_revisionVars PROVE RevisionsInv'
  OBVIOUS
<1> DEFINE Rest ==
      BornOnce /\ FormsShowVersions /\ OneUpdate /\ RetriesKnowTheirTag /\ RevisionsExact
<1>0. RevisionsTypeOK'
  BY RevisionsStepType DEF RevisionsInv
<1>i. RevisionsTypeOK /\ Rest
  BY DEF RevisionsInv
<1>t. \A e \in Editors : ed[e] \in Request
  BY <1>i DEF RevisionsTypeOK
<1>v. pver \in Nat /\ MaxPostVersion \in Nat
  BY <1>i, PostVersionAssumption DEF RevisionsTypeOK, PostVersions
<1> USE DEF Exists
<1>1. ASSUME NEW e \in Editors, NEW v \in BOOLEAN, OpenForm(e, v) PROVE Rest'
  <2> DEFINE q == [NoRequest EXCEPT !.pc = "open", !.shown = ptext,
                                    !.expected = IF v THEN pver ELSE 0]
  <2>1. /\ q.pc = "open" /\ q.kind = "update" /\ q.expected \in {0, pver}
        /\ q.shown = ptext /\ q.tags = {} /\ q.absent = {} /\ ~q.retried
    BY DEF NoRequest
  <2>2. /\ pver # 0 /\ UNCHANGED <<pver, ptext, pstatus, revs, tagNames, born>>
        /\ ed'[e] = q /\ \A d \in Editors : d # e => ed'[d] = ed[d]
    BY <1>1, <1>i, OthersKeep DEF OpenForm
  <2> HIDE DEF q
  <2>3. BornOnce'
    BY <1>i, <2>1, <2>2 DEF BornOnce
  <2>4. FormsShowVersions' /\ OneUpdate'
    BY <1>i, <1>v, <2>1, <2>2 DEF FormsShowVersions, OneUpdate
  <2>5. RetriesKnowTheirTag' /\ RevisionsExact'
    BY <1>i, <2>1, <2>2, FS_EmptySet DEF RetriesKnowTheirTag, RevisionsExact
  <2> QED
    BY <2>3, <2>4, <2>5
<1>2. ASSUME NEW e \in Editors, NEW s \in TagLists, NEW t \in Texts, SubmitCreate(e, t, s)
      PROVE  Rest'
  <2> DEFINE q == [NoRequest EXCEPT !.pc = "ready", !.kind = "create",
                                    !.text = t, !.tags = s]
  <2>1. /\ q.pc = "ready" /\ q.kind = "create" /\ q.expected = 0 /\ ~q.archive
        /\ q.text = t /\ q.tags = s /\ q.absent = {} /\ ~q.retried
    BY DEF NoRequest
  <2>2. /\ ~born /\ UNCHANGED <<pver, ptext, pstatus, revs, tagNames, born>>
        /\ \A d \in Editors : ed[d].pc = "idle"
        /\ ed'[e] = q /\ \A d \in Editors : d # e => ed'[d] = ed[d]
    BY <1>2, <1>i, OthersKeep DEF SubmitCreate
  <2> HIDE DEF q
  <2>3. BornOnce'
    BY <1>i, <2>1, <2>2, NoTextAssumption DEF BornOnce
  <2>4. FormsShowVersions' /\ OneUpdate'
    BY <1>i, <2>1, <2>2 DEF FormsShowVersions, OneUpdate
  <2>5. RetriesKnowTheirTag' /\ RevisionsExact'
    BY <1>i, <2>1, <2>2, TagListsAssumption DEF RetriesKnowTheirTag, RevisionsExact
  <2> QED
    BY <2>3, <2>4, <2>5
<1>3. ASSUME NEW e \in Editors, NEW request,
             Becomes(e, request), request = NoRequest,
             UNCHANGED <<pver, ptext, pstatus, revs, tagNames, born>>
      PROVE  Rest'
  <2>1. ed'[e] = NoRequest /\ \A d \in Editors : d # e => ed'[d] = ed[d]
    BY <1>3, <1>i, OthersKeep
  <2>2. BornOnce' /\ FormsShowVersions' /\ OneUpdate'
    BY <1>3, <1>i, <2>1, NothingAsked DEF BornOnce, FormsShowVersions, OneUpdate
  <2>3. RetriesKnowTheirTag' /\ RevisionsExact'
    BY <1>3, <1>i, <2>1, NothingAsked, FS_EmptySet
    DEF RetriesKnowTheirTag, RevisionsExact
  <2> QED
    BY <2>2, <2>3
<1>4. ASSUME NEW e \in Editors, NEW s \in TagLists, NEW t \in Texts \cup {NoText},
             NEW a \in BOOLEAN, Check(e, t, a, s)
      PROVE  Rest'
  <2> DEFINE q == [ed[e] EXCEPT !.pc = "ready", !.text = t, !.archive = a, !.tags = s]
  <2>1. CASE Exists /\ pstatus # "archived"
    <3>1. /\ q.pc = "ready" /\ q.kind = ed[e].kind /\ q.expected = ed[e].expected
          /\ q.shown = ed[e].shown /\ q.tags = s /\ q.absent = ed[e].absent
          /\ q.retried = ed[e].retried
      BY <1>t DEF Request
    <3>2. /\ ed[e].pc = "open" /\ UNCHANGED <<pver, ptext, pstatus, revs, tagNames, born>>
          /\ ed'[e] = q /\ \A d \in Editors : d # e => ed'[d] = ed[d]
      BY <1>4, <1>i, <2>1, OthersKeep DEF Check
    <3> HIDE DEF q
    <3>3. BornOnce'
      BY <1>i, <2>1, <3>1, <3>2 DEF BornOnce
    <3>4. FormsShowVersions' /\ OneUpdate'
      BY <1>i, <2>1, <3>1, <3>2 DEF FormsShowVersions, OneUpdate
    <3>5. RetriesKnowTheirTag' /\ RevisionsExact'
      BY <1>i, <3>1, <3>2, TagListsAssumption DEF RetriesKnowTheirTag, RevisionsExact
    <3> QED
      BY <3>3, <3>4, <3>5
  <2>2. CASE ~(Exists /\ pstatus # "archived")
    BY <1>3, <1>4, <2>2 DEF Check
  <2> QED
    BY <2>1, <2>2
<1>5. ASSUME NEW e \in Editors, Begin(e) PROVE Rest'
  <2> DEFINE q == [ed[e] EXCEPT !.pc = "tx", !.absent = ed[e].tags \ tagNames]
  <2>1. CASE Hits(e)
    <3>1. /\ q.pc = "tx" /\ q.kind = ed[e].kind /\ q.expected = ed[e].expected
          /\ q.shown = ed[e].shown /\ q.tags = ed[e].tags /\ q.text = ed[e].text
          /\ q.archive = ed[e].archive /\ q.absent = ed[e].tags \ tagNames
          /\ q.retried = ed[e].retried
      BY <1>t DEF Request
    <3>2. /\ ed[e].pc = "ready" /\ UNCHANGED <<pver, ptext, pstatus, revs, tagNames, born>>
          /\ ed[e].kind = "update" => ~RowLocked
          /\ ed'[e] = q /\ \A d \in Editors : d # e => ed'[d] = ed[d]
      BY <1>5, <1>i, <2>1, OthersKeep DEF Begin
    <3> HIDE DEF q
    <3>3. BornOnce'
      BY <1>i, <3>1, <3>2 DEF BornOnce
    <3>4. FormsShowVersions'
      BY <1>i, <3>1, <3>2 DEF FormsShowVersions
    <3>5. OneUpdate'
      BY <1>i, <2>1, <3>1, <3>2 DEF OneUpdate, Hits, RowLocked
    <3>6. RetriesKnowTheirTag' /\ RevisionsExact'
      BY <1>i, <3>1, <3>2 DEF RetriesKnowTheirTag, RevisionsExact
    <3> QED
      BY <3>3, <3>4, <3>5, <3>6
  <2>2. CASE ~Hits(e)
    BY <1>3, <1>5, <2>2 DEF Begin
  <2> QED
    BY <2>1, <2>2
<1>6. ASSUME NEW e \in Editors, CommitCreate(e) PROVE Rest'
  <2>1. /\ ed[e].pc = "tx" /\ ed[e].kind = "create"
        /\ pver' = 1 /\ ptext' = ed[e].text /\ born' = TRUE
        /\ tagNames' = tagNames \cup ed[e].tags
        /\ UNCHANGED <<pstatus, revs>>
        /\ ed'[e] = NoRequest /\ \A d \in Editors : d # e => ed'[d] = ed[d]
    BY <1>6, <1>i, OthersKeep DEF CommitCreate
  <2>2. pver = 0 /\ ed[e].text # NoText /\ \A d \in Editors : ed'[d].pc = "idle"
    BY <1>i, <2>1, NothingAsked DEF BornOnce
  <2>3. BornOnce' /\ FormsShowVersions' /\ OneUpdate'
    BY <2>1, <2>2 DEF BornOnce, FormsShowVersions, OneUpdate
  <2>4. RetriesKnowTheirTag'
    BY <1>i, <2>1, NothingAsked, FS_EmptySet DEF RetriesKnowTheirTag
  <2>5. RevisionsExact'
    BY <1>i, <2>1, <2>2 DEF RevisionsExact
  <2> QED
    BY <2>3, <2>4, <2>5
<1>7. ASSUME NEW e \in Editors, CommitUpdate(e) PROVE Rest'
  <2>1. /\ ed[e].pc = "tx" /\ ed[e].kind = "update" /\ pver < MaxPostVersion
        /\ pver' = pver + 1 /\ ptext' = NewText(e)
        /\ revs' = [revs EXCEPT ![pver + 1] = NewText(e)]
        /\ tagNames' = tagNames \cup ed[e].tags
        /\ UNCHANGED born
        /\ ed'[e] = NoRequest /\ \A d \in Editors : d # e => ed'[d] = ed[d]
    BY <1>7, <1>i, OthersKeep DEF CommitUpdate, Snapshot
  <2>2. pver >= 1 /\ born /\ NewText(e) # NoText
    BY <1>i, <1>v, <2>1 DEF OneUpdate, BornOnce, NewText
  <2>3. BornOnce'
    BY <1>i, <1>v, <2>1, <2>2, NothingAsked DEF BornOnce
  <2>4. \A d \in Editors : ed'[d].pc # "idle" /\ ed'[d].expected # 0 =>
          ed'[d].expected <= pver
    BY <1>i, <2>1, <2>2, NothingAsked DEF FormsShowVersions
  <2>5. \A d \in Editors : ed'[d].expected \in Nat
    BY <1>0 DEF RevisionsTypeOK, Request, PostVersions
  <2>6. FormsShowVersions'
    BY <1>v, <2>1, <2>4, <2>5 DEF FormsShowVersions
  <2>7. OneUpdate'
    BY <1>i, <2>1, NothingAsked DEF OneUpdate
  <2>8. RetriesKnowTheirTag'
    BY <1>i, <2>1, NothingAsked, FS_EmptySet DEF RetriesKnowTheirTag
  <2>9. revs'[pver + 1] = NewText(e) /\ pver + 1 \in PostVersions
        /\ \A v \in PostVersions : v # pver + 1 => revs'[v] = revs[v]
    BY <1>i, <1>v, <2>1 DEF RevisionsTypeOK, PostVersions
  <2>10. \A v \in PostVersions : revs'[v] # NoText <=> v \in 2..pver + 1
    BY <1>i, <1>v, <2>2, <2>9 DEF RevisionsExact, PostVersions
  <2>11. RevisionsExact'
    BY <2>1, <2>9, <2>10 DEF RevisionsExact
  <2> QED
    BY <2>3, <2>6, <2>7, <2>8, <2>11
<1>8. ASSUME NEW e \in Editors, TagConflict(e) PROVE Rest'
  <2> DEFINE q == [ed[e] EXCEPT !.pc = "ready", !.absent = {}, !.retried = TRUE]
  <2>1. CASE ~ed[e].retried
    <3>1. /\ q.pc = "ready" /\ q.kind = ed[e].kind /\ q.expected = ed[e].expected
          /\ q.shown = ed[e].shown /\ q.tags = ed[e].tags /\ q.text = ed[e].text
          /\ q.archive = ed[e].archive /\ q.absent = {} /\ q.retried
      BY <1>t DEF Request
    <3>2. /\ ed[e].pc = "tx" /\ UNCHANGED <<pver, ptext, pstatus, revs, tagNames, born>>
          /\ ed[e].absent \cap tagNames # {}
          /\ ed'[e] = q /\ \A d \in Editors : d # e => ed'[d] = ed[d]
      BY <1>8, <1>i, <2>1, OthersKeep DEF TagConflict, Conflicts
    <3> HIDE DEF q
    <3>3. BornOnce'
      BY <1>i, <3>1, <3>2 DEF BornOnce
    <3>4. FormsShowVersions' /\ OneUpdate'
      BY <1>i, <3>1, <3>2 DEF FormsShowVersions, OneUpdate
    <3>5. Cardinality(ed[e].tags) = 1 => ed[e].tags \subseteq tagNames
      BY <1>i, <3>2, OneTag DEF RetriesKnowTheirTag
    <3>6. RetriesKnowTheirTag' /\ RevisionsExact'
      BY <1>i, <3>1, <3>2, <3>5 DEF RetriesKnowTheirTag, RevisionsExact
    <3> QED
      BY <3>3, <3>4, <3>6
  <2>2. CASE ed[e].retried
    BY <1>3, <1>8, <2>2 DEF TagConflict
  <2> QED
    BY <2>1, <2>2
<1>9. ASSUME NEW e \in Editors, WriteFails(e) PROVE Rest'
  BY <1>3, <1>9 DEF WriteFails
<1>10. ASSUME RemovePost PROVE Rest'
  <2>1. /\ pver # 0 /\ ~RowLocked
        /\ pver' = 0 /\ ptext' = NoText /\ revs' = NoRevisions
        /\ UNCHANGED <<pstatus, tagNames, born, ed>>
    BY <1>10 DEF RemovePost
  <2>2. BornOnce' /\ FormsShowVersions'
    BY <1>i, <2>1 DEF BornOnce, FormsShowVersions
  <2>3. OneUpdate' /\ RetriesKnowTheirTag'
    BY <1>i, <2>1 DEF OneUpdate, RetriesKnowTheirTag, RowLocked
  <2>4. RevisionsExact'
    BY <2>1 DEF RevisionsExact, NoRevisions, PostVersions
  <2> QED
    BY <2>2, <2>3, <2>4
<1>11. ASSUME NEW t \in Tags, OtherPostTagged(t) PROVE Rest'
  BY <1>i, <1>11 DEF OtherPostTagged, BornOnce, FormsShowVersions, OneUpdate,
     RetriesKnowTheirTag, RevisionsExact
<1>12. ASSUME UNCHANGED revisionVars PROVE Rest'
  BY <1>i, <1>12 DEF revisionVars, BornOnce, FormsShowVersions, OneUpdate,
     RetriesKnowTheirTag, RevisionsExact
<1>13. Rest'
  BY <1>1, <1>2, <1>4, <1>5, <1>6, <1>7, <1>8, <1>9, <1>10, <1>11, <1>12
  DEF RevisionsNext
<1> QED
  BY <1>0, <1>13 DEF RevisionsInv

\* The invariant of the revisions is one.
LEMMA RevisionsInvariance == RevisionsSpec => []RevisionsInv
<1>1. ASSUME RevisionsInit PROVE RevisionsInv
  <2> USE <1>1 DEF RevisionsInit
  <2>1. RevisionsTypeOK
    BY NothingAsked DEF RevisionsTypeOK, NoRevisions
  <2>2. BornOnce /\ FormsShowVersions /\ OneUpdate
    BY NothingAsked DEF BornOnce, FormsShowVersions, OneUpdate, Exists
  <2>3. RetriesKnowTheirTag /\ RevisionsExact
    BY NothingAsked, FS_EmptySet
    DEF RetriesKnowTheirTag, RevisionsExact, NoRevisions, PostVersions
  <2> QED
    BY <2>1, <2>2, <2>3 DEF RevisionsInv
<1> QED
  BY <1>1, RevisionsStep, PTL DEF RevisionsSpec

-----------------------------------------------------------------------------
(***************************************************************************)
(* The theorems                                                            *)
(***************************************************************************)

\* PrismaPostsRepository.updateOnce: one revision per version, the newest one the post
\* itself, for any number of editors, conflicts, retries and roll-backs.
THEOREM ExactHistory == RevisionsSpec => []RevisionsExact
<1>1. RevisionsInv => RevisionsExact
  BY DEF RevisionsInv
<1> QED
  BY <1>1, RevisionsInvariance, PTL

\* PrismaPostsRepository.update: the second attempt of a save with one tag does not
\* collide on it again.
THEOREM SecondAttemptConnects == RevisionsSpec => []RetryConnects
<1>1. RevisionsInv => RetryConnects
  BY DEF RevisionsInv, RetriesKnowTheirTag, RetryConnects, Conflicts
<1> QED
  BY <1>1, RevisionsInvariance, PTL

\* PostsService.update: a save that carries its version replaces exactly the text its
\* author saw, and no archived post, for any number of editors and attempts.
THEOREM NoUpdateLost == RevisionsSpec => NoLostUpdate
<1> DEFINE Seen(e) ==
      /\ ed[e].pc = "tx"
      /\ ed[e].expected # 0 => ed[e].expected = pver /\ ed[e].shown = ptext
      /\ pstatus = "archived" => ed[e].expected = 0
<1>1. RevisionsInv /\ [RevisionsNext]_revisionVars =>
        [Updated => \E e \in Editors : Seen(e)]_revisionVars
  <2> SUFFICES ASSUME RevisionsInv, RevisionsNext, Updated
               PROVE  \E e \in Editors : Seen(e)
    OBVIOUS
  <2>1. pver \in Nat \ {0} /\ pver' = pver + 1
    BY DEF RevisionsInv, RevisionsTypeOK, PostVersions, Updated, Exists
  <2>2. ASSUME NEW e \in Editors,
               \/ \E v \in BOOLEAN : OpenForm(e, v)
               \/ \E s \in TagLists :
                    \/ \E t \in Texts : SubmitCreate(e, t, s) \/ Check(e, t, FALSE, s)
                    \/ Check(e, NoText, TRUE, s)
               \/ Begin(e) \/ TagConflict(e) \/ WriteFails(e)
        PROVE  pver' = pver
    BY <2>2 DEF OpenForm, SubmitCreate, Check, Begin, TagConflict, WriteFails
  <2>3. ASSUME NEW e \in Editors, CommitCreate(e) PROVE pver' = 1
    BY <2>3 DEF CommitCreate
  <2>4. RemovePost => pver' = 0
    BY DEF RemovePost
  <2>5. ASSUME NEW t \in Tags, OtherPostTagged(t) PROVE pver' = pver
    BY <2>5 DEF OtherPostTagged
  <2>6. PICK e \in Editors : CommitUpdate(e)
    <3>1. pver' # pver /\ pver' # 1 /\ pver' # 0
      BY <2>1
    <3> QED
      BY <3>1, <2>2, <2>3, <2>4, <2>5 DEF RevisionsNext
  <2>7. ed[e].pc = "tx" /\ ed[e].kind = "update"
    BY <2>6 DEF CommitUpdate
  <2>8. Seen(e)
    BY <2>1, <2>7 DEF RevisionsInv, OneUpdate, FormsShowVersions
  <2> QED
    BY <2>8
<1> QED
  BY <1>1, RevisionsInvariance, PTL DEF RevisionsSpec, NoLostUpdate

-----------------------------------------------------------------------------
(***************************************************************************)
(* The revisions implement a history                                       *)
(***************************************************************************)

\* As long as neither versions nor revisions change, neither do the updates.
LEMMA SameUpdates ==
  ASSUME UNCHANGED <<pver, revs>>
  PROVE  Updates' = Updates
BY DEF Updates, Exists

\* An update adds its revision to the updates, behind the others.
LEMMA UpdateAppends ==
  ASSUME RevisionsInv, NEW e \in Editors, CommitUpdate(e)
  PROVE  Updates' = Append(Updates, ptext')
<1> DEFINE n == pver - 1
<1>1. /\ ed[e].pc = "tx" /\ ed[e].kind = "update" /\ pver < MaxPostVersion
      /\ pver' = pver + 1 /\ ptext' = NewText(e)
      /\ revs' = [revs EXCEPT ![pver + 1] = NewText(e)]
  BY DEF CommitUpdate, Snapshot
<1>2. pver \in Nat /\ pver >= 1 /\ MaxPostVersion \in Nat
  BY <1>1, PostVersionAssumption
  DEF RevisionsInv, RevisionsTypeOK, PostVersions, OneUpdate, Exists
<1>3. /\ revs'[pver + 1] = ptext'
      /\ \A v \in 1..pver : revs'[v] = revs[v]
  BY <1>1, <1>2 DEF RevisionsInv, RevisionsTypeOK, PostVersions
<1>4. n \in Nat /\ Updates = [i \in 1..n |-> revs[i + 1]]
  BY <1>2 DEF Updates, Exists
<1>5. Updates' = [i \in 1..(n + 1) |-> revs'[i + 1]]
  <2>1. pver' # 0 /\ pver' - 1 = n + 1
    BY <1>1, <1>2
  <2> QED
    BY <2>1 DEF Updates, Exists
<1> HIDE DEF n
<1>6. \A i \in 1..n : revs[i + 1] \in Texts \cup {NoText}
  <2>1. \A i \in 1..n : i + 1 \in PostVersions
    BY <1>1, <1>2 DEF n, PostVersions
  <2> QED
    BY <2>1 DEF RevisionsInv, RevisionsTypeOK
<1>7. Updates \in Seq(Texts \cup {NoText}) /\ Len(Updates) = n
  BY <1>4, <1>6
<1>8. ptext' \in Texts \cup {NoText}
  BY <1>1 DEF RevisionsInv, RevisionsTypeOK, NewText, Request
<1>9. Append(Updates, ptext') = [i \in 1..(n + 1) |-> IF i = n + 1 THEN ptext' ELSE Updates[i]]
  BY <1>4, <1>7, <1>8
<1>10. \A i \in 1..(n + 1) :
         revs'[i + 1] = IF i = n + 1 THEN ptext' ELSE Updates[i]
  <2> SUFFICES ASSUME NEW i \in 1..(n + 1)
               PROVE  revs'[i + 1] = IF i = n + 1 THEN ptext' ELSE Updates[i]
    OBVIOUS
  <2>1. CASE i = n + 1
    BY <1>2, <1>3, <2>1 DEF n
  <2>2. CASE i # n + 1
    <3>1. i \in 1..n /\ i + 1 \in 1..pver
      BY <1>2, <1>4, <2>2 DEF n
    <3> QED
      BY <1>3, <1>4, <2>2, <3>1
  <2> QED
    BY <2>1, <2>2
<1> QED
  BY <1>5, <1>9, <1>10

\* Every step on a post is one of its history, or none.
LEMMA HistoryStep ==
  RevisionsInv /\ RevisionsInv' /\ [RevisionsNext]_revisionVars
  => [Texting!HistoryNext]_<<ptext, Updates, born>>
<1> DEFINE Goal == [Texting!HistoryNext]_<<ptext, Updates, born>>
<1> SUFFICES ASSUME RevisionsInv, RevisionsInv', [RevisionsNext]_revisionVars
             PROVE  Goal
  OBVIOUS
<1>1. ASSUME NEW e \in Editors, CommitCreate(e) PROVE Goal
  <2>1. /\ ed[e].pc = "tx" /\ ed[e].kind = "create"
        /\ pver' = 1 /\ ptext' = ed[e].text /\ born' = TRUE /\ UNCHANGED revs
    BY <1>1 DEF CommitCreate
  <2>2. ~born /\ ed[e].text # NoText /\ pver = 0
    BY <2>1 DEF RevisionsInv, BornOnce, Exists
  <2>3. ptext' \in Texts
    BY <2>1, <2>2 DEF RevisionsInv, RevisionsTypeOK, Request
  <2>4. Updates = <<>> /\ Updates' = <<>>
    BY <2>1, <2>2 DEF Updates, Exists
  <2>5. Texting!Creation
    BY <2>1, <2>2, <2>3, <2>4 DEF Texting!Creation
  <2> QED
    BY <2>5 DEF Texting!HistoryNext
<1>2. ASSUME NEW e \in Editors, CommitUpdate(e) PROVE Goal
  <2>1. Exists /\ UNCHANGED born /\ pver' = pver + 1
    BY <1>2 DEF CommitUpdate, RevisionsInv, OneUpdate
  <2>2. ptext # NoText
    BY <2>1 DEF RevisionsInv, BornOnce
  <2>3. ptext' \in Texts
    <3>1. Exists'
      BY <2>1 DEF RevisionsInv, RevisionsTypeOK, PostVersions, Exists
    <3> QED
      BY <3>1 DEF RevisionsInv, RevisionsTypeOK, BornOnce
  <2>4. Texting!Save
    BY <1>2, <2>1, <2>2, <2>3, UpdateAppends DEF Texting!Save
  <2> QED
    BY <2>4 DEF Texting!HistoryNext
<1>3. CASE RemovePost
  <2>1. Exists /\ pver' = 0 /\ ptext' = NoText /\ UNCHANGED born
    BY <1>3 DEF RemovePost
  <2>2. ptext # NoText /\ Updates' = <<>>
    BY <2>1 DEF RevisionsInv, BornOnce, Updates, Exists
  <2>3. Texting!Removal
    BY <2>1, <2>2 DEF Texting!Removal
  <2> QED
    BY <2>3 DEF Texting!HistoryNext
<1>4. ASSUME UNCHANGED <<pver, ptext, revs, born>> PROVE Goal
  BY <1>4, SameUpdates
<1>5. \/ \E e \in Editors : CommitCreate(e) \/ CommitUpdate(e)
      \/ RemovePost
      \/ UNCHANGED <<pver, ptext, revs, born>>
  BY DEF RevisionsNext, OpenForm, SubmitCreate, Check, Begin, TagConflict, WriteFails,
     OtherPostTagged, revisionVars
<1> QED
  BY <1>1, <1>2, <1>3, <1>4, <1>5

\* PrismaPostsRepository.updateOnce: for any number of editors, conflicts, retries and
\* roll-backs the revisions are a history to which every update adds one text.
THEOREM RevisionsAreHistory == RevisionsSpec => ImplementsHistory
<1>1. RevisionsInit => Texting!Blank
  BY DEF RevisionsInit, Updates, Exists, Texting!Blank
<1> QED
  BY <1>1, HistoryStep, RevisionsInvariance, PTL
  DEF RevisionsSpec, ImplementsHistory, Texting!HistorySpec
=============================================================================
