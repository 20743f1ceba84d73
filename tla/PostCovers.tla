------------------------------ MODULE PostCovers ------------------------------
(***************************************************************************)
(* The cover image of one post: PostsService.uploadCover,                  *)
(* PrismaPostsRepository.setCoverImage, the storage (LocalStorageService   *)
(* save and delete) and the other writes of posts.meta, update and remove. *)
(* An upload stores its file under a name of its own; the post refers to   *)
(* one file at most, by the coverImage of its meta.  Whatever else clients *)
(* keep in the meta is one value, which the write of a cover must keep.    *)
(***************************************************************************)
EXTENDS FiniteSets

CONSTANTS
  Uploads,   \* POST /posts/:id/cover requests; each names the file it stores
  NoFile,    \* no cover
  Metas,     \* what else a meta says
  NoMeta     \* it says nothing else

ASSUME NoFileAssumption == NoFile \notin Uploads

VARIABLES
  posted,    \* the post exists
  cover,     \* meta.coverImage
  meta,      \* the rest of the meta
  files,     \* the files in the storage
  upload,    \* upload[u]: "idle", "loaded" (post read), "saved" (file stored),
             \* "merging" (meta read), "replaced" (meta written), "done"
  old,       \* old[u]: the cover of the post that u loaded
  metaRead,      \* metaRead[u]: the meta that u read, while it merges
  putBack,   \* history: a PATCH wrote a coverImage
  disturbed, \* history: uploads overlapped, or something else than uploads happened
  patched,   \* history: what the last PATCH wrote
  overdue,    \* history: uploads that merge with a meta from before the last PATCH
  undone     \* history: one of these wrote it back

imageVars  == <<posted, cover, files, old, putBack, disturbed>>
metaVars   == <<meta, metaRead, patched, overdue, undone>>
coverVars  == <<imageVars, upload, metaVars>>

CoversTypeOK ==
  /\ posted \in BOOLEAN
  /\ cover \in Uploads \cup {NoFile}
  /\ files \in SUBSET Uploads
  /\ upload \in [Uploads -> {"idle", "loaded", "saved", "merging", "replaced", "done"}]
  /\ old \in [Uploads -> Uploads \cup {NoFile}]
  /\ putBack \in BOOLEAN
  /\ disturbed \in BOOLEAN
  /\ meta \in Metas \cup {NoMeta} /\ patched \in Metas \cup {NoMeta}
  /\ metaRead \in [Uploads -> Metas \cup {NoMeta}]
  /\ overdue \in SUBSET Uploads
  /\ undone \in BOOLEAN

CoversInit ==
  /\ posted = TRUE
  /\ cover = NoFile
  /\ files = {}
  /\ upload = [u \in Uploads |-> "idle"]
  /\ old = [u \in Uploads |-> NoFile]
  /\ putBack = FALSE
  /\ disturbed = FALSE
  /\ meta = NoMeta /\ patched = NoMeta
  /\ metaRead = [u \in Uploads |-> NoMeta]
  /\ overdue = {}
  /\ undone = FALSE

-----------------------------------------------------------------------------
Goes(u, pc) == upload' = [upload EXCEPT ![u] = pc]

UnderWay == {u \in Uploads : upload[u] \notin {"idle", "done"}}

\* loadById, the check of the author, and the processing of the image.
LoadPost(u) ==
  /\ upload[u] = "idle"
  /\ posted
  /\ Goes(u, "loaded")
  /\ old' = [old EXCEPT ![u] = cover]
  /\ disturbed' = (disturbed \/ UnderWay # {})
  /\ UNCHANGED <<posted, cover, files, putBack, metaVars>>

\* save: a temporary file, renamed; a file is there completely or not at all.
SaveFile(u) ==
  /\ upload[u] = "loaded"
  /\ files' = files \cup {u}
  /\ Goes(u, "saved")
  /\ UNCHANGED <<posted, cover, old, putBack, disturbed, metaVars>>

\* setCoverImage: reads the meta; without the post it is a 404, and the file stays.
ReadMeta(u) ==
  /\ upload[u] = "saved"
  /\ IF posted
       THEN Goes(u, "merging") /\ metaRead' = [metaRead EXCEPT ![u] = meta]
       ELSE Goes(u, "done") /\ UNCHANGED metaRead
  /\ UNCHANGED <<imageVars, meta, patched, overdue, undone>>

\* u has merged, or given up.
Merged(u) ==
  /\ metaRead' = [metaRead EXCEPT ![u] = NoMeta]
  /\ overdue' = overdue \ {u}

\* Mutant: the old file is deleted before the new one is referred to, and the write may
\* fail.
DeleteThenWrite(u) ==
  /\ upload[u] = "merging"
  /\ files' = files \ {old[u]}
  /\ \/ cover' = u /\ Goes(u, "replaced")
     \/ Goes(u, "done") /\ UNCHANGED cover
  /\ Merged(u)
  /\ UNCHANGED <<posted, old, putBack, disturbed, meta, patched, undone>>

\* Mutant: the write is not merged, the meta becomes the cover alone.
WriteCoverAlone(u) ==
  /\ upload[u] = "merging"
  /\ IF posted
       THEN /\ cover' = u /\ Goes(u, "replaced")
            /\ meta' = NoMeta
            /\ undone' = (undone \/ u \in overdue)
       ELSE Goes(u, "done") /\ UNCHANGED <<cover, meta, undone>>
  /\ Merged(u)
  /\ UNCHANGED <<posted, files, old, putBack, disturbed, patched>>

\* setCoverImage: writes the meta it read, with the new cover; what a PATCH wrote in
\* between is lost.
WriteMeta(u) ==
  /\ upload[u] = "merging"
  /\ IF posted
       THEN /\ cover' = u /\ Goes(u, "replaced")
            /\ meta' = metaRead[u]
            /\ undone' = (undone \/ u \in overdue)
       ELSE Goes(u, "done") /\ UNCHANGED <<cover, meta, undone>>
  /\ Merged(u)
  /\ UNCHANGED <<posted, files, old, putBack, disturbed, patched>>

\* tryDeleteByUrl of the cover that was loaded.
DeleteOld(u) ==
  /\ upload[u] = "replaced"
  /\ files' = files \ {old[u]}
  /\ Goes(u, "done")
  /\ UNCHANGED <<posted, cover, old, putBack, disturbed, metaVars>>

\* The storage or the database fails, or the process dies; a failed delete is logged.
UploadFails(u) ==
  /\ u \in UnderWay
  /\ Goes(u, "done")
  /\ disturbed' = TRUE
  /\ Merged(u)
  /\ UNCHANGED <<posted, cover, files, old, putBack, meta, patched, undone>>

\* update with a meta: it replaces the whole meta, with a cover the client has seen or
\* made up, or with none.
PatchMeta(c, m) ==
  /\ posted
  /\ cover' = c /\ meta' = m
  /\ putBack' = (putBack \/ c # NoFile)
  /\ disturbed' = TRUE
  /\ patched' = m
  /\ overdue' = {u \in Uploads : upload[u] = "merging"}
  /\ undone' = FALSE
  /\ UNCHANGED <<posted, files, upload, old, metaRead>>

\* remove: the row goes, its file stays.
RemovePosted ==
  /\ posted
  /\ posted' = FALSE
  /\ cover' = NoFile
  /\ disturbed' = TRUE
  /\ UNCHANGED <<files, upload, old, putBack, metaVars>>

CoversNext ==
  \/ \E u \in Uploads :
       \/ LoadPost(u) \/ SaveFile(u) \/ ReadMeta(u) \/ WriteMeta(u) \/ DeleteOld(u)
       \/ UploadFails(u)
  \/ \E c \in Uploads \cup {NoFile}, m \in Metas \cup {NoMeta} : PatchMeta(c, m)
  \/ RemovePosted

CoversSpec == CoversInit /\ [][CoversNext]_coverVars

-----------------------------------------------------------------------------
\* The cover that a post shows is there, however uploads overlap and wherever they
\* fail - unless a client wrote a coverImage by itself, which may name a file that an
\* upload has replaced.
CoverExists == putBack \/ cover = NoFile \/ cover \in files

\* Uploads that succeed one after the other leave one file, the one that is shown.
\* (Overlapping ones leave the files of the losers behind, and so do a failure after
\* the file was stored, a PATCH that drops the cover, and the removal of the post.)
NoFileLeaks == disturbed \/ UnderWay # {} \/ files = {cover} \ {NoFile}

FilesExact == CoverExists /\ NoFileLeaks

\* However many uploads merge their covers into it, the rest of the meta is what the last
\* PATCH made it - unless an upload had read the meta before that PATCH and wrote it
\* behind it, against which nothing is done.
MetaKept == undone \/ meta = patched
=============================================================================
