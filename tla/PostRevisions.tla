---------------------------- MODULE PostRevisions ----------------------------
(***************************************************************************)
(* The writes of one post: PostsService.create, update and remove with     *)
(* PrismaPostsRepository.create, update, updateOnce, listRevisions and     *)
(* remove.  A post has a text (its title and content), a version, and one  *)
(* revision per version it was updated to.                                 *)
(*                                                                         *)
(* The UPDATE of a transaction locks the post's row until the commit, so   *)
(* that the transaction is two steps: its beginning, which also finds out  *)
(* which of the tags exist, and its end, where the tags that did not exist *)
(* are inserted under a unique index.                                      *)
(***************************************************************************)
EXTENDS Naturals, FiniteSets, Sequences

CONSTANTS
  Editors,         \* clients with an edit form
  Texts, NoText,   \* what a post says; not a text
  TagLists,        \* the sets of tags that saves are sent with
  MaxPostVersion   \* bound: updates

ASSUME PostVersionAssumption == MaxPostVersion \in Nat \ {0}
ASSUME NoTextAssumption == NoText \notin Texts
ASSUME TagListsAssumption == \A s \in TagLists : IsFiniteSet(s)

Tags == UNION TagLists

VARIABLES
  pver,      \* posts.version, 0 when there is no row
  ptext,     \* its title and content
  pstatus,   \* "draft" or "archived"
  revs,      \* revs[v]: the text of the revision with version v, or NoText
  tagNames,  \* the rows of tags
  born,      \* the post was created
  ed         \* ed[e]: the request of e, see Request

revisionVars == <<pver, ptext, pstatus, revs, tagNames, born, ed>>

PostVersions == 1..MaxPostVersion

\* pc: "idle", "open" (the form shows what was read), "ready" (to begin a transaction),
\* "tx".  expected: the version sent along, 0 when the client sends none.
\* shown: the text the client had before its eyes.  text: the new one, NoText to leave it.
Request ==
  [pc : {"idle", "open", "ready", "tx"}, kind : {"create", "update"},
   expected : PostVersions \cup {0}, shown : Texts \cup {NoText},
   text : Texts \cup {NoText}, archive : BOOLEAN, tags : SUBSET Tags,
   absent : SUBSET Tags, retried : BOOLEAN]

NoRequest ==
  [pc |-> "idle", kind |-> "update", expected |-> 0, shown |-> NoText, text |-> NoText,
   archive |-> FALSE, tags |-> {}, absent |-> {}, retried |-> FALSE]

RevisionsTypeOK ==
  /\ pver \in PostVersions \cup {0}
  /\ ptext \in Texts \cup {NoText}
  /\ pstatus \in {"draft", "archived"}
  /\ revs \in [PostVersions -> Texts \cup {NoText}]
  /\ tagNames \in SUBSET Tags
  /\ born \in BOOLEAN
  /\ ed \in [Editors -> Request]

NoRevisions == [v \in PostVersions |-> NoText]

RevisionsInit ==
  /\ pver = 0
  /\ ptext = NoText
  /\ pstatus = "draft"
  /\ revs = NoRevisions
  /\ tagNames = {}
  /\ born = FALSE
  /\ ed = [e \in Editors |-> NoRequest]

-----------------------------------------------------------------------------
Exists == pver # 0

Becomes(e, request) == ed' = [ed EXCEPT ![e] = request]

\* The row is locked by a transaction on it.
RowLocked == \E e \in Editors : ed[e].pc = "tx" /\ ed[e].kind = "update"

\* create: no look before the INSERT, the unique slug decides.
SubmitCreate(e, text, tags) ==
  /\ ~born
  /\ \A d \in Editors : ed[d].pc = "idle"
  /\ Becomes(e, [NoRequest EXCEPT !.pc = "ready", !.kind = "create",
                                  !.text = text, !.tags = tags])
  /\ UNCHANGED <<pver, ptext, pstatus, revs, tagNames, born>>

\* A client loads the post into a form; its save will carry the version or not.
OpenForm(e, versioned) ==
  /\ ed[e].pc = "idle"
  /\ Exists
  /\ Becomes(e, [NoRequest EXCEPT !.pc = "open", !.shown = ptext,
                                  !.expected = IF versioned THEN pver ELSE 0])
  /\ UNCHANGED <<pver, ptext, pstatus, revs, tagNames, born>>

\* update: loadById and the check of the status; a refused save goes no further.
Check(e, text, archive, tags) ==
  /\ ed[e].pc = "open"
  /\ Becomes(e, IF Exists /\ pstatus # "archived"
                  THEN [ed[e] EXCEPT !.pc = "ready", !.text = text,
                                     !.archive = archive, !.tags = tags]
                  ELSE NoRequest)
  /\ UNCHANGED <<pver, ptext, pstatus, revs, tagNames, born>>

\* Mutant: the version that was sent is not compared.
HitsAnyVersion(e) == ed[e].kind = "create" \/ Exists

\* The row that UPDATE ... WHERE id (AND version) hits; none is a 404 or a 409.
Hits(e) ==
  \/ ed[e].kind = "create"
  \/ Exists /\ ed[e].expected \in {0, pver}

\* createOnce or updateOnce begins.
Begin(e) ==
  /\ ed[e].pc = "ready"
  /\ ed[e].kind = "update" => ~RowLocked
  /\ Becomes(e, IF Hits(e)
                  THEN [ed[e] EXCEPT !.pc = "tx", !.absent = ed[e].tags \ tagNames]
                  ELSE NoRequest)
  /\ UNCHANGED <<pver, ptext, pstatus, revs, tagNames, born>>

\* The INSERT of a tag fails, somebody else inserted it meanwhile.
Conflicts(e) == ed[e].absent \cap tagNames # {}

CommitCreate(e) ==
  /\ ed[e].pc = "tx" /\ ed[e].kind = "create"
  /\ ~Conflicts(e)
  /\ pver' = 1
  /\ ptext' = ed[e].text
  /\ tagNames' = tagNames \cup ed[e].tags
  /\ born' = TRUE
  /\ Becomes(e, NoRequest)
  /\ UNCHANGED <<pstatus, revs>>

NewText(e) == IF ed[e].text = NoText THEN ptext ELSE ed[e].text

\* Mutant: the newest revision is brought up to date too (upsert by post).
SnapshotOverNewest(e) ==
  [v \in PostVersions |->
     IF v = pver + 1 \/ (v = pver /\ pver > 1) THEN NewText(e) ELSE revs[v]]

\* postRevision.create from the row the UPDATE returned.
Snapshot(e) == [revs EXCEPT ![pver + 1] = NewText(e)]

CommitUpdate(e) ==
  /\ ed[e].pc = "tx" /\ ed[e].kind = "update"
  /\ ~Conflicts(e)
  /\ pver < MaxPostVersion
  /\ pver' = pver + 1
  /\ ptext' = NewText(e)
  /\ pstatus' = IF ed[e].archive THEN "archived" ELSE pstatus
  /\ revs' = Snapshot(e)
  /\ tagNames' = tagNames \cup ed[e].tags
  /\ Becomes(e, NoRequest)
  /\ UNCHANGED born

\* P2002 on tags.name: rolled back; once more from the beginning, the second time a 500.
TagConflict(e) ==
  /\ ed[e].pc = "tx"
  /\ Conflicts(e)
  /\ Becomes(e, IF ed[e].retried
                  THEN NoRequest
                  ELSE [ed[e] EXCEPT !.pc = "ready", !.absent = {}, !.retried = TRUE])
  /\ UNCHANGED <<pver, ptext, pstatus, revs, tagNames, born>>

\* The slug is taken, the connection or the process is lost: rolled back.
WriteFails(e) ==
  /\ ed[e].pc = "tx"
  /\ Becomes(e, NoRequest)
  /\ UNCHANGED <<pver, ptext, pstatus, revs, tagNames, born>>

\* remove: the revisions go with the post.
RemovePost ==
  /\ Exists
  /\ ~RowLocked
  /\ pver' = 0
  /\ ptext' = NoText
  /\ revs' = NoRevisions
  /\ UNCHANGED <<pstatus, tagNames, born, ed>>

\* Another post is the first with a tag.
OtherPostTagged(t) ==
  /\ t \notin tagNames
  /\ tagNames' = tagNames \cup {t}
  /\ UNCHANGED <<pver, ptext, pstatus, revs, born, ed>>

RevisionsNext ==
  \/ \E e \in Editors :
       \/ \E v \in BOOLEAN : OpenForm(e, v)
       \/ \E s \in TagLists :
            \/ \E t \in Texts : SubmitCreate(e, t, s) \/ Check(e, t, FALSE, s)
            \/ Check(e, NoText, TRUE, s)
       \/ Begin(e) \/ CommitCreate(e) \/ CommitUpdate(e) \/ TagConflict(e) \/ WriteFails(e)
  \/ RemovePost
  \/ \E t \in Tags : OtherPostTagged(t)

RevisionsSpec == RevisionsInit /\ [][RevisionsNext]_revisionVars

-----------------------------------------------------------------------------
Updated == pver' = pver + 1 /\ Exists

\* The history of a post has no gap and no double, and its newest revision says what
\* the post says - through conflicts, retries and roll-backs of several editors.
RevisionsExact ==
  /\ \A v \in PostVersions : revs[v] # NoText <=> v \in 2..pver
  /\ pver >= 2 => revs[pver] = ptext

\* A save that carries its version replaces exactly the text its author had before
\* the eyes, however late it comes and however often it is tried.  So an archived post
\* is only ever changed by a save without a version that was checked before.
NoLostUpdate ==
  [][Updated => \E e \in Editors :
       /\ ed[e].pc = "tx"
       /\ ed[e].expected # 0 => ed[e].expected = pver /\ ed[e].shown = ptext
       /\ pstatus = "archived" => ed[e].expected = 0]_revisionVars

\* A second attempt finds the tag that the first one collided on: with one tag it does
\* not fail.  (With two it may collide on the other one.)
RetryConnects ==
  \A e \in Editors :
    ed[e].pc = "tx" /\ ed[e].retried /\ Cardinality(ed[e].tags) = 1 => ~Conflicts(e)

\* The revisions, from that of the first update on.
Updates == [i \in 1..(IF Exists THEN pver - 1 ELSE 0) |-> revs[i + 1]]

Texting == INSTANCE TextHistory WITH
  Says <- Texts, Silent <- NoText, says <- ptext, history <- Updates, created <- born

\* The revisions are the history of the post: every update that commits adds its text
\* and no transaction, whether it commits or is rolled back, writes an older one.
ImplementsHistory == Texting!HistorySpec
=============================================================================
