----------------------------- MODULE PostProofs -----------------------------
(***************************************************************************)
(* What holds of the uploads of covers, for any number of them and any     *)
(* limits: FilesStayExact and MetaStays of a post and its files,           *)
(* NoPermitIsLost and SemaphoreIsFair of the line of those who wait        *)
(* for memory; and of a walk through the feed, for any number of posts and *)
(* any size of the pages: EveryPostOnce.                                   *)
(***************************************************************************)
EXTENDS PostCovers, UploadPermits, PostFeed, FiniteSetTheorems, SequenceTheorems,
        WellFoundedInduction, TLAPS

-----------------------------------------------------------------------------
(***************************************************************************)
(* The cover of a post                                                     *)
(***************************************************************************)

Referred == {"replaced", "done"}

\* Unless a client wrote a coverImage: what is shown, or was when an upload began, was
\* stored by an upload that has been referred to; a file that is still to be referred to
\* is there; and what an upload is about to delete is shown no more.
FilesInOrder ==
  ~putBack =>
    /\ cover # NoFile => cover \in files /\ upload[cover] \in Referred
    /\ \A u \in Uploads :
         /\ old[u] # NoFile => upload[old[u]] \in Referred
         /\ upload[u] \in {"saved", "merging"} => u \in files
         /\ upload[u] = "replaced" /\ old[u] # NoFile => cover # old[u]

\* Uploads one after the other: the files are the cover's and that of the upload under
\* way, which replaces the one or has not stored the other.
ShownFile(f) == {f} \ {NoFile}

OneAfterTheOther ==
  ~disturbed =>
    /\ posted /\ ~putBack
    /\ \A u, v \in UnderWay : u = v
    /\ UnderWay = {} => files = ShownFile(cover)
    /\ \A u \in UnderWay :
         /\ upload[u] = "loaded" => old[u] = cover /\ files = ShownFile(cover)
         /\ upload[u] \in {"saved", "merging"} =>
              old[u] = cover /\ files = ShownFile(cover) \cup {u}
         /\ upload[u] = "replaced" => cover = u /\ files = ShownFile(old[u]) \cup {u}

\* The rest of the meta is what the last PATCH wrote, and so is what an upload has read
\* and not yet written back, if it read it after that PATCH.
MetaInOrder ==
  /\ ~undone => meta = patched
  /\ \A u \in Uploads : upload[u] = "merging" /\ u \notin overdue /\ ~undone => metaRead[u] = patched

\* Every action on covers keeps every variable in its type.
LEMMA CoversStepType == CoversTypeOK /\ [CoversNext]_coverVars => CoversTypeOK'
<1> SUFFICES ASSUME CoversTypeOK, [CoversNext]_coverVars PROVE CoversTypeOK'
  OBVIOUS
<1> USE DEF CoversTypeOK, Goes, Merged, imageVars, metaVars
<1>1. ASSUME NEW u \in Uploads, LoadPost(u) PROVE CoversTypeOK'
  BY <1>1 DEF LoadPost
<1>2. ASSUME NEW u \in Uploads, SaveFile(u) PROVE CoversTypeOK'
  BY <1>2 DEF SaveFile
<1>3. ASSUME NEW u \in Uploads, ReadMeta(u) PROVE CoversTypeOK'
  BY <1>3 DEF ReadMeta
<1>4. ASSUME NEW u \in Uploads, WriteMeta(u) PROVE CoversTypeOK'
  BY <1>4 DEF WriteMeta
<1>5. ASSUME NEW u \in Uploads, DeleteOld(u) PROVE CoversTypeOK'
  BY <1>5 DEF DeleteOld
<1>6. ASSUME NEW u \in Uploads, UploadFails(u) PROVE CoversTypeOK'
  BY <1>6 DEF UploadFails
<1>7. ASSUME NEW c \in Uploads \cup {NoFile}, NEW m \in Metas \cup {NoMeta}, PatchMeta(c, m)
      PROVE  CoversTypeOK'
  BY <1>7 DEF PatchMeta
<1>8. CASE RemovePosted
  BY <1>8 DEF RemovePosted
<1>9. CASE UNCHANGED coverVars
  BY <1>9 DEF coverVars
<1> QED
  BY <1>1, <1>2, <1>3, <1>4, <1>5, <1>6, <1>7, <1>8, <1>9 DEF CoversNext

\* Every action on covers keeps the files in order, however uploads overlap and fail.
LEMMA FilesStep ==
  CoversTypeOK /\ FilesInOrder /\ [CoversNext]_coverVars => FilesInOrder'
<1> SUFFICES ASSUME CoversTypeOK, FilesInOrder, [CoversNext]_coverVars
             PROVE FilesInOrder'
  OBVIOUS
<1> USE NoFileAssumption
    DEF CoversTypeOK, FilesInOrder, Referred, Goes, Merged, imageVars, metaVars
<1>1. ASSUME NEW u \in Uploads, LoadPost(u) PROVE FilesInOrder'
  BY <1>1 DEF LoadPost
<1>2. ASSUME NEW u \in Uploads, SaveFile(u) PROVE FilesInOrder'
  BY <1>2 DEF SaveFile
<1>3. ASSUME NEW u \in Uploads, ReadMeta(u) PROVE FilesInOrder'
  BY <1>3 DEF ReadMeta
<1>4. ASSUME NEW u \in Uploads, WriteMeta(u) PROVE FilesInOrder'
  BY <1>4 DEF WriteMeta
<1>5. ASSUME NEW u \in Uploads, DeleteOld(u) PROVE FilesInOrder'
  BY <1>5 DEF DeleteOld
<1>6. ASSUME NEW u \in Uploads, UploadFails(u) PROVE FilesInOrder'
  BY <1>6 DEF UploadFails, UnderWay
<1>7. ASSUME NEW c \in Uploads \cup {NoFile}, NEW m \in Metas \cup {NoMeta}, PatchMeta(c, m)
      PROVE  FilesInOrder'
  BY <1>7 DEF PatchMeta
<1>8. CASE RemovePosted
  BY <1>8 DEF RemovePosted
<1>9. CASE UNCHANGED coverVars
  BY <1>9 DEF coverVars
<1> QED
  BY <1>1, <1>2, <1>3, <1>4, <1>5, <1>6, <1>7, <1>8, <1>9 DEF CoversNext

\* Every action on covers keeps the account of the files, or disturbs it.
LEMMA LeaksStep ==
  /\ CoversTypeOK /\ FilesInOrder /\ OneAfterTheOther
  /\ [CoversNext]_coverVars
  => OneAfterTheOther'
<1> SUFFICES ASSUME CoversTypeOK, FilesInOrder, OneAfterTheOther, [CoversNext]_coverVars
             PROVE OneAfterTheOther'
  OBVIOUS
<1> USE NoFileAssumption
    DEF CoversTypeOK, FilesInOrder, OneAfterTheOther, Referred, ShownFile, UnderWay, Goes, Merged,
        imageVars, metaVars
<1>1. ASSUME NEW u \in Uploads, LoadPost(u) PROVE OneAfterTheOther'
  BY <1>1 DEF LoadPost
<1>2. ASSUME NEW u \in Uploads, SaveFile(u) PROVE OneAfterTheOther'
  BY <1>2 DEF SaveFile
<1>3. ASSUME NEW u \in Uploads, ReadMeta(u) PROVE OneAfterTheOther'
  BY <1>3 DEF ReadMeta
<1>4. ASSUME NEW u \in Uploads, WriteMeta(u) PROVE OneAfterTheOther'
  BY <1>4 DEF WriteMeta
<1>5. ASSUME NEW u \in Uploads, DeleteOld(u) PROVE OneAfterTheOther'
  BY <1>5 DEF DeleteOld
<1>6. ASSUME NEW u \in Uploads, UploadFails(u) PROVE OneAfterTheOther'
  BY <1>6 DEF UploadFails
<1>7. ASSUME NEW c \in Uploads \cup {NoFile}, NEW m \in Metas \cup {NoMeta}, PatchMeta(c, m)
      PROVE  OneAfterTheOther'
  BY <1>7 DEF PatchMeta
<1>8. CASE RemovePosted
  BY <1>8 DEF RemovePosted
<1>9. CASE UNCHANGED coverVars
  BY <1>9 DEF coverVars
<1> QED
  BY <1>1, <1>2, <1>3, <1>4, <1>5, <1>6, <1>7, <1>8, <1>9 DEF CoversNext

\* Every action on covers keeps the rest of the meta, or undoes a PATCH.
LEMMA MetaStep ==
  CoversTypeOK /\ MetaInOrder /\ [CoversNext]_coverVars => MetaInOrder'
<1> SUFFICES ASSUME CoversTypeOK, MetaInOrder, [CoversNext]_coverVars
             PROVE MetaInOrder'
  OBVIOUS
<1> USE DEF CoversTypeOK, MetaInOrder, Goes, Merged, imageVars, metaVars
<1>1. ASSUME NEW u \in Uploads, LoadPost(u) PROVE MetaInOrder'
  BY <1>1 DEF LoadPost
<1>2. ASSUME NEW u \in Uploads, SaveFile(u) PROVE MetaInOrder'
  BY <1>2 DEF SaveFile
<1>3. ASSUME NEW u \in Uploads, ReadMeta(u) PROVE MetaInOrder'
  BY <1>3 DEF ReadMeta
<1>4. ASSUME NEW u \in Uploads, WriteMeta(u) PROVE MetaInOrder'
  BY <1>4 DEF WriteMeta
<1>5. ASSUME NEW u \in Uploads, DeleteOld(u) PROVE MetaInOrder'
  BY <1>5 DEF DeleteOld
<1>6. ASSUME NEW u \in Uploads, UploadFails(u) PROVE MetaInOrder'
  BY <1>6 DEF UploadFails, UnderWay
<1>7. ASSUME NEW c \in Uploads \cup {NoFile}, NEW m \in Metas \cup {NoMeta}, PatchMeta(c, m)
      PROVE  MetaInOrder'
  BY <1>7 DEF PatchMeta
<1>8. CASE RemovePosted
  BY <1>8 DEF RemovePosted
<1>9. CASE UNCHANGED coverVars
  BY <1>9 DEF coverVars
<1> QED
  BY <1>1, <1>2, <1>3, <1>4, <1>5, <1>6, <1>7, <1>8, <1>9 DEF CoversNext

CoversInv == CoversTypeOK /\ FilesInOrder /\ OneAfterTheOther /\ MetaInOrder

\* The invariant of the covers is one.
LEMMA CoversInvariance == CoversSpec => []CoversInv
<1>1. ASSUME CoversInit PROVE CoversInv
  <2> USE <1>1, NoFileAssumption DEF CoversInit
  <2>1. CoversTypeOK
    BY DEF CoversTypeOK
  <2>2. FilesInOrder /\ OneAfterTheOther
    BY DEF FilesInOrder, OneAfterTheOther, ShownFile, UnderWay
  <2>3. MetaInOrder
    BY DEF MetaInOrder
  <2> QED
    BY <2>1, <2>2, <2>3 DEF CoversInv
<1>2. CoversInv /\ [CoversNext]_coverVars => CoversInv'
  BY CoversStepType, FilesStep, LeaksStep, MetaStep DEF CoversInv
<1> QED
  BY <1>1, <1>2, PTL DEF CoversSpec

\* PostsService.uploadCover with setCoverImage: the cover that a post shows is in the
\* storage, whatever uploads and updates overlap and wherever they fail; and any number
\* of uploads one after the other leave one file.
THEOREM FilesStayExact == CoversSpec => []FilesExact
<1>1. CoversInv => CoverExists
  BY DEF CoversInv, FilesInOrder, CoverExists
<1>2. CoversInv => NoFileLeaks
  BY DEF CoversInv, OneAfterTheOther, NoFileLeaks, ShownFile
<1> QED
  BY <1>1, <1>2, CoversInvariance, PTL DEF FilesExact

\* setCoverImage: any number of uploads keep what a PATCH wrote into the meta, all but
\* those that read the meta before it.
THEOREM MetaStays == CoversSpec => []MetaKept
<1>1. CoversInv => MetaKept
  BY DEF CoversInv, MetaInOrder, MetaKept
<1> QED
  BY <1>1, CoversInvariance, PTL

-----------------------------------------------------------------------------
(***************************************************************************)
(* The permits of uploads                                                  *)
(***************************************************************************)

\* The line holds exactly those who wait, each once.
LineExact ==
  /\ \A i, j \in 1..Len(queue) : queue[i] = queue[j] => i = j
  /\ \A u \in UploadRequests :
       slot[u] = "waiting" <=> \E i \in 1..Len(queue) : queue[i] = u

PermitsCounted ==
  /\ IsFiniteSet(Parsing)
  /\ available + Cardinality(Parsing) = MaxConcurrentUploads
  /\ queue # <<>> => available = 0

PermitsInv == PermitsTypeOK /\ LineExact /\ PermitsCounted

-----------------------------------------------------------------------------
\* A sequence without its element at i: the others keep their order.
LEMMA WithoutElement ==
  ASSUME NEW S, NEW s \in Seq(S), NEW i \in 1..Len(s), NEW t,
         t = SubSeq(s, 1, i - 1) \o SubSeq(s, i + 1, Len(s))
  PROVE  /\ t \in Seq(S)
         /\ Len(t) = Len(s) - 1
         /\ \A k \in 1..(Len(s) - 1) : t[k] = IF k < i THEN s[k] ELSE s[k + 1]
<1> DEFINE a == SubSeq(s, 1, i - 1)
           b == SubSeq(s, i + 1, Len(s))
<1>1. Len(s) \in Nat /\ i \in Int /\ 1 <= i /\ i <= Len(s)
  BY LenProperties
<1>2. \A k \in 1..Len(s) : s[k] \in S
  BY ElementOfSeq
<1>3. /\ a \in Seq(S) /\ Len(a) = i - 1
      /\ \A k \in 1..(i - 1) : a[k] = s[k]
  <2>1. \A k \in 1..(i - 1) : s[k] \in S
    BY <1>1, <1>2
  <2> HIDE DEF a
  <2>2. /\ SubSeq(s, 1, i - 1) \in Seq(S)
        /\ Len(SubSeq(s, 1, i - 1)) = IF 1 <= i - 1 THEN (i - 1) - 1 + 1 ELSE 0
        /\ \A k \in 1..((i - 1) - 1 + 1) : SubSeq(s, 1, i - 1)[k] = s[1 + k - 1]
    BY <1>1, <2>1, SubSeqProperties
  <2> QED
    BY <1>1, <2>2 DEF a
<1>4. /\ b \in Seq(S) /\ Len(b) = Len(s) - i
      /\ \A k \in 1..(Len(s) - i) : b[k] = s[i + k]
  <2>1. \A k \in (i + 1)..Len(s) : s[k] \in S
    BY <1>1, <1>2
  <2> HIDE DEF b
  <2>2. /\ SubSeq(s, i + 1, Len(s)) \in Seq(S)
        /\ Len(SubSeq(s, i + 1, Len(s))) = IF i + 1 <= Len(s) THEN Len(s) - (i + 1) + 1 ELSE 0
        /\ \A k \in 1..(Len(s) - (i + 1) + 1) : SubSeq(s, i + 1, Len(s))[k] = s[i + 1 + k - 1]
    BY <1>1, <2>1, SubSeqProperties
  <2> QED
    BY <1>1, <2>2 DEF b
<1> HIDE DEF a, b
<1>5. t = a \o b
  BY DEF a, b
<1>6. /\ t \in Seq(S) /\ Len(t) = Len(a) + Len(b)
      /\ \A k \in 1..(Len(a) + Len(b)) : t[k] = IF k <= Len(a) THEN a[k] ELSE b[k - Len(a)]
  <2>1. /\ a \o b \in Seq(S) /\ Len(a \o b) = Len(a) + Len(b)
        /\ \A k \in 1..(Len(a) + Len(b)) :
             (a \o b)[k] = IF k <= Len(a) THEN a[k] ELSE b[k - Len(a)]
    BY ONLY <1>3, <1>4, ConcatProperties, Zenon
  <2> QED
    BY ONLY <1>5, <2>1, Zenon
<1>7. Len(t) = Len(s) - 1
  BY ONLY <1>1, <1>3, <1>4, <1>6
<1>8. ASSUME NEW k \in 1..(Len(s) - 1) PROVE t[k] = IF k < i THEN s[k] ELSE s[k + 1]
  <2>0. k \in 1..(Len(s) - 1)
    OBVIOUS
  <2>1. CASE k < i
    BY ONLY <1>1, <1>3, <1>4, <1>6, <2>1, <2>0
  <2>2. CASE ~(k < i)
    <3>1. t[k] = b[k - (i - 1)]
      <4>1. k \in 1..(Len(a) + Len(b)) /\ ~(k <= Len(a)) /\ k - Len(a) = k - (i - 1)
        BY ONLY <1>1, <1>3, <1>4, <2>2, <2>0
      <4> QED
        BY ONLY <1>6, <4>1
    <3>2. k - (i - 1) \in 1..(Len(s) - i)
      BY <1>1, <2>2
    <3>3. b[k - (i - 1)] = s[i + (k - (i - 1))]
      BY <1>4, <3>2
    <3>4. i + (k - (i - 1)) = k + 1
      BY <1>1
    <3> QED
      BY <2>2, <3>1, <3>3, <3>4
  <2> QED
    BY <2>1, <2>2
<1> QED
  BY <1>6, <1>7, <1>8

LEMMA PermitsInitInv == PermitsInit => PermitsInv
<1> SUFFICES ASSUME PermitsInit PROVE PermitsInv
  OBVIOUS
<1> USE DEF PermitsInit
<1>1. PermitsTypeOK
  BY PermitsAssumption, EmptySeq DEF PermitsTypeOK
<1>2. Len(queue) = 0
  BY EmptySeq
<1>3. LineExact
  BY <1>2 DEF LineExact
<1>4. Parsing = {}
  BY DEF Parsing
<1>5. PermitsCounted
  BY <1>4, PermitsAssumption, FS_EmptySet DEF PermitsCounted
<1> QED
  BY <1>1, <1>3, <1>5 DEF PermitsInv

LEMMA PermitsStep == PermitsInv /\ [PermitsNext]_permitVars => PermitsInv'
<1> SUFFICES ASSUME PermitsInv, [PermitsNext]_permitVars
             PROVE  PermitsInv'
  OBVIOUS
<1> USE DEF PermitsInv
<1>1. /\ available \in Nat /\ MaxConcurrentUploads \in Nat
      /\ Cardinality(Parsing) \in Nat /\ IsFiniteSet(Parsing)
      /\ available + Cardinality(Parsing) = MaxConcurrentUploads
      /\ available <= MaxConcurrentUploads
  BY PermitsAssumption, FS_CardinalityType DEF PermitsTypeOK, PermitsCounted
<1>2. /\ queue \in Seq(UploadRequests) /\ Len(queue) \in Nat
      /\ \A i \in 1..Len(queue) : queue[i] \in UploadRequests
  BY LenProperties, ElementOfSeq DEF PermitsTypeOK
<1>3. ASSUME NEW u \in UploadRequests, AcquirePermit(u) PROVE PermitsInv'
  <2>1. /\ slot'[u] = "parsing" /\ \A v \in UploadRequests \ {u} : slot'[v] = slot[v]
        /\ slot[u] = "idle" /\ queue' = queue /\ available' = available - 1 /\ available > 0
    BY <1>3 DEF AcquirePermit, PermitsTypeOK
  <2>2. PermitsTypeOK'
    BY <1>1, <1>3, <2>1 DEF AcquirePermit, PermitsTypeOK
  <2>3. LineExact'
    BY <2>1 DEF LineExact
  <2>4. Parsing' = Parsing \cup {u} /\ u \notin Parsing
    BY <2>1 DEF Parsing
  <2>5. IsFiniteSet(Parsing') /\ Cardinality(Parsing') = Cardinality(Parsing) + 1
    BY <1>1, <2>4, FS_AddElement
  <2>6. PermitsCounted'
    BY <1>1, <2>1, <2>5 DEF PermitsCounted
  <2> QED
    BY <2>2, <2>3, <2>6
<1>4. ASSUME NEW u \in UploadRequests, QueueUp(u) PROVE PermitsInv'
  <2>1. /\ slot'[u] = "waiting" /\ \A v \in UploadRequests \ {u} : slot'[v] = slot[v]
        /\ slot[u] = "idle" /\ queue' = Append(queue, u) /\ available' = available
        /\ available = 0
    BY <1>4 DEF QueueUp, PermitsTypeOK
  <2>2. /\ queue' \in Seq(UploadRequests) /\ Len(queue') = Len(queue) + 1
        /\ \A i \in 1..Len(queue) : queue'[i] = queue[i]
        /\ queue'[Len(queue) + 1] = u
    BY <1>2, <2>1, AppendProperties
  <2>3. PermitsTypeOK'
    BY <1>4, <2>1, <2>2 DEF QueueUp, PermitsTypeOK
  <2>4. \A i \in 1..Len(queue) : queue[i] # u
    BY <2>1 DEF LineExact
  <2>5. \A i, j \in 1..Len(queue') : queue'[i] = queue'[j] => i = j
    <3>1. \A i \in 1..Len(queue') : i \in 1..Len(queue) \/ i = Len(queue) + 1
      BY <1>2, <2>2
    <3> QED
      BY <2>2, <2>4, <3>1 DEF LineExact
  <2>6. ASSUME NEW v \in UploadRequests
        PROVE  slot'[v] = "waiting" <=> \E i \in 1..Len(queue') : queue'[i] = v
    <3>1. CASE v = u
      BY <1>2, <2>1, <2>2, <3>1
    <3>2. CASE v # u
      <4>1. slot'[v] = "waiting" <=> \E i \in 1..Len(queue) : queue[i] = v
        BY <2>1, <3>2 DEF LineExact
      <4>2. ASSUME NEW i \in 1..Len(queue), queue[i] = v
            PROVE  i \in 1..Len(queue') /\ queue'[i] = v
        BY <1>2, <2>2, <4>2
      <4>3. ASSUME NEW i \in 1..Len(queue'), queue'[i] = v
            PROVE  i \in 1..Len(queue) /\ queue[i] = v
        BY <1>2, <2>2, <3>2, <4>3
      <4> QED
        BY <4>1, <4>2, <4>3
    <3> QED
      BY <3>1, <3>2
  <2>7. Parsing' = Parsing
    BY <2>1 DEF Parsing
  <2>8. PermitsCounted'
    BY <1>1, <2>1, <2>7 DEF PermitsCounted
  <2> QED
    BY <2>3, <2>5, <2>6, <2>8 DEF LineExact
<1>5. ASSUME NEW u \in UploadRequests, TimesOut(u) PROVE PermitsInv'
  <2>1. /\ slot'[u] = "idle" /\ \A v \in UploadRequests \ {u} : slot'[v] = slot[v]
        /\ slot[u] = "waiting" /\ available' = available
    BY <1>5 DEF TimesOut, PermitsTypeOK
  <2>2. PICK i \in 1..Len(queue) :
          /\ queue[i] = u
          /\ queue' = SubSeq(queue, 1, i - 1) \o SubSeq(queue, i + 1, Len(queue))
    BY <1>5, <2>1 DEF TimesOut, LineExact
  <2>3. /\ queue' \in Seq(UploadRequests) /\ Len(queue') = Len(queue) - 1
        /\ \A k \in 1..(Len(queue) - 1) : queue'[k] = IF k < i THEN queue[k] ELSE queue[k + 1]
    BY <1>2, <2>2, WithoutElement
  <2> DEFINE from(k) == IF k < i THEN k ELSE k + 1
             to(k) == IF k < i THEN k ELSE k - 1
  <2>4. \A k \in 1..Len(queue') : /\ from(k) \in 1..Len(queue) /\ from(k) # i
                                  /\ queue'[k] = queue[from(k)]
    BY <1>2, <2>3
  <2>5. \A k, l \in 1..Len(queue') : from(k) = from(l) => k = l
    BY <1>2, <2>3
  <2>6. \A k \in 1..Len(queue) : k # i => to(k) \in 1..Len(queue') /\ from(to(k)) = k
    BY <1>2, <2>3
  <2> HIDE DEF from, to
  <2>7. \A k, l \in 1..Len(queue') : queue'[k] = queue'[l] => k = l
    BY <2>4, <2>5 DEF LineExact
  <2>8. ASSUME NEW v \in UploadRequests
        PROVE  slot'[v] = "waiting" <=> \E k \in 1..Len(queue') : queue'[k] = v
    <3>1. CASE v = u
      <4>1. \A k \in 1..Len(queue') : queue'[k] # u
        <5>1. \A k \in 1..Len(queue) : queue[k] = u => k = i
          BY <2>2 DEF LineExact
        <5> QED
          BY <2>4, <5>1
      <4> QED
        BY <2>1, <3>1, <4>1
    <3>2. CASE v # u
      <4>1. slot'[v] = "waiting" <=> \E k \in 1..Len(queue) : queue[k] = v
        BY <2>1, <3>2 DEF LineExact
      <4>2. ASSUME NEW k \in 1..Len(queue), queue[k] = v
            PROVE  to(k) \in 1..Len(queue') /\ queue'[to(k)] = v
        <5>1. k # i
          BY <2>2, <3>2, <4>2
        <5> QED
          BY <2>4, <2>6, <4>2, <5>1
      <4>3. ASSUME NEW k \in 1..Len(queue'), queue'[k] = v
            PROVE  from(k) \in 1..Len(queue) /\ queue[from(k)] = v
        BY <2>4, <4>3
      <4> QED
        BY <4>1, <4>2, <4>3
    <3> QED
      BY <3>1, <3>2
  <2>9. PermitsTypeOK'
    BY <1>5, <2>1, <2>3 DEF TimesOut, PermitsTypeOK
  <2>10. Parsing' = Parsing
    BY <2>1 DEF Parsing
  <2>11. queue # <<>>
    <3>1. Len(queue) # 0
      BY <1>2, <2>2
    <3> QED
      BY <3>1, EmptySeq
  <2>12. PermitsCounted'
    BY <1>1, <2>1, <2>10, <2>11 DEF PermitsCounted
  <2> QED
    BY <2>7, <2>8, <2>9, <2>12 DEF LineExact
<1>6. ASSUME NEW u \in UploadRequests, Parsed(u) PROVE PermitsInv'
  <2>1. PICK next \in {"handling", "idle"} : ReleasePermit(u, next)
    BY <1>6 DEF Parsed
  <2>2. slot[u] = "parsing" /\ u \in Parsing
    BY <1>6 DEF Parsed, Parsing
  <2>3. /\ IsFiniteSet(Parsing \ {u})
        /\ Cardinality(Parsing \ {u}) = Cardinality(Parsing) - 1
        /\ Cardinality(Parsing \ {u}) \in Nat
    BY <1>1, <2>2, FS_RemoveElement, FS_CardinalityType
  <2>4. CASE queue = <<>>
    <3>1. /\ available' = available + 1 /\ queue' = queue
          /\ slot' = [slot EXCEPT ![u] = next]
      BY <2>1, <2>4 DEF ReleasePermit
    <3>2. slot'[u] = next /\ \A v \in UploadRequests \ {u} : slot'[v] = slot[v]
      BY <3>1 DEF PermitsTypeOK
    <3>3. PermitsTypeOK'
      BY <1>1, <2>3, <3>1 DEF PermitsTypeOK
    <3>4. LineExact'
      BY <2>2, <3>1, <3>2 DEF LineExact
    <3>5. Parsing' = Parsing \ {u}
      BY <3>2 DEF Parsing
    <3>6. PermitsCounted'
      BY <1>1, <2>3, <2>4, <3>1, <3>5 DEF PermitsCounted
    <3> QED
      BY <3>3, <3>4, <3>6
  <2>5. CASE queue # <<>>
    <3> DEFINE h == Head(queue)
    <3>1. /\ available' = available /\ queue' = Tail(queue)
          /\ slot' = [slot EXCEPT ![u] = next, ![h] = "parsing"]
      BY <2>1, <2>5 DEF ReleasePermit
    <3>2. /\ h \in UploadRequests /\ h = queue[1] /\ Len(queue) >= 1
          /\ queue' \in Seq(UploadRequests) /\ Len(queue') = Len(queue) - 1
          /\ \A k \in 1..Len(queue') : queue'[k] = queue[k + 1]
      BY <1>2, <2>5, <3>1, EmptySeq, HeadTailProperties
    <3> HIDE DEF h
    <3>3. slot[h] = "waiting" /\ h # u
      BY <1>2, <2>2, <3>2 DEF LineExact
    <3>4. /\ slot'[u] = next /\ slot'[h] = "parsing"
          /\ \A v \in UploadRequests \ {u, h} : slot'[v] = slot[v]
      BY <3>1, <3>2, <3>3 DEF PermitsTypeOK
    <3>5. PermitsTypeOK'
      BY <3>1, <3>2 DEF PermitsTypeOK
    <3>6. \A k, l \in 1..Len(queue') : queue'[k] = queue'[l] => k = l
      <4>1. \A k \in 1..Len(queue') : k + 1 \in 1..Len(queue)
        BY <1>2, <3>2
      <4> QED
        BY <3>2, <4>1 DEF LineExact
    <3>7. ASSUME NEW v \in UploadRequests
          PROVE  slot'[v] = "waiting" <=> \E k \in 1..Len(queue') : queue'[k] = v
      <4>1. ASSUME NEW k \in 1..Len(queue'), queue'[k] = v
            PROVE  v # h /\ k + 1 \in 1..Len(queue) /\ queue[k + 1] = v
        <5>1. k + 1 \in 1..Len(queue) /\ queue[k + 1] = v /\ k + 1 # 1
          BY <1>2, <3>2, <4>1
        <5>2. 1 \in 1..Len(queue)
          BY <1>2, <3>2
        <5> QED
          BY <3>2, <5>1, <5>2 DEF LineExact
      <4>2. ASSUME NEW k \in 1..Len(queue), queue[k] = v, v # h
            PROVE  k - 1 \in 1..Len(queue') /\ queue'[k - 1] = v
        BY <1>2, <3>2, <4>2
      <4>3. CASE v = h
        BY <3>4, <4>1, <4>3
      <4>4. CASE v = u
        BY <2>2, <3>3, <3>4, <4>1, <4>4 DEF LineExact
      <4>5. CASE v \notin {u, h}
        BY <3>4, <4>1, <4>2, <4>5 DEF LineExact
      <4> QED
        BY <4>3, <4>4, <4>5
    <3>8. Parsing' = (Parsing \ {u}) \cup {h} /\ h \notin Parsing \ {u}
      BY <3>2, <3>3, <3>4 DEF Parsing
    <3>9. IsFiniteSet(Parsing') /\ Cardinality(Parsing') = Cardinality(Parsing)
      BY <1>1, <2>3, <3>8, FS_AddElement
    <3>10. PermitsCounted'
      BY <1>1, <2>5, <3>1, <3>9 DEF PermitsCounted
    <3> QED
      BY <3>5, <3>6, <3>7, <3>10 DEF LineExact
  <2> QED
    BY <2>4, <2>5
<1>7. ASSUME NEW u \in UploadRequests, Handled(u) PROVE PermitsInv'
  <2>1. /\ slot'[u] = "idle" /\ \A v \in UploadRequests \ {u} : slot'[v] = slot[v]
        /\ slot[u] = "handling" /\ UNCHANGED <<available, queue>>
    BY <1>7 DEF Handled, PermitsTypeOK
  <2>2. PermitsTypeOK'
    BY <1>7 DEF Handled, PermitsTypeOK
  <2>3. LineExact'
    BY <2>1 DEF LineExact
  <2>4. Parsing' = Parsing
    BY <2>1 DEF Parsing
  <2>5. PermitsCounted'
    BY <2>1, <2>4 DEF PermitsCounted
  <2> QED
    BY <2>2, <2>3, <2>5
<1>8. CASE UNCHANGED permitVars
  BY <1>8 DEF permitVars, PermitsTypeOK, LineExact, PermitsCounted, Parsing
<1> QED
  BY <1>3, <1>4, <1>5, <1>6, <1>7, <1>8 DEF PermitsNext

\* In a line without doubles, whoever waits is in it once.
LEMMA PermitsInvariance == PermitsSpec => []PermitsInv
BY PermitsInitInv, PermitsStep, PTL DEF PermitsSpec

LEMMA InLineOnce == PermitsInv => PermitsExact
<1> SUFFICES ASSUME PermitsInv PROVE PermitsExact
  OBVIOUS
<1> USE DEF PermitsInv
<1>1. ASSUME NEW u \in UploadRequests
      PROVE  Cardinality({i \in 1..Len(queue) : queue[i] = u}) =
               IF slot[u] = "waiting" THEN 1 ELSE 0
  <2>1. CASE slot[u] = "waiting"
    <3>1. PICK i \in 1..Len(queue) : queue[i] = u
      BY <2>1 DEF LineExact
    <3>2. {j \in 1..Len(queue) : queue[j] = u} = {i}
      BY <3>1 DEF LineExact
    <3> QED
      BY <2>1, <3>2, FS_Singleton
  <2>2. CASE slot[u] # "waiting"
    <3>1. {j \in 1..Len(queue) : queue[j] = u} = {}
      BY <2>2 DEF LineExact
    <3> QED
      BY <2>2, <3>1, FS_EmptySet
  <2> QED
    BY <2>1, <2>2
<1> QED
  BY <1>1 DEF PermitsExact, PermitsCounted, Parsing

\* UploadSemaphore: for any number of permits, places in line and uploads, no permit is
\* lost or made up, nobody waits while one is free, and the line holds exactly those who
\* wait - although timers take people out of its middle.
THEOREM NoPermitIsLost == PermitsSpec => []PermitsExact
BY PermitsInvariance, InLineOnce, PTL

-----------------------------------------------------------------------------
(***************************************************************************)
(* The permits implement a fair semaphore                                  *)
(***************************************************************************)

\* Whoever is idle is neither inside nor in the line.
LEMMA IdleIsOutside ==
  ASSUME PermitsInv, NEW u \in UploadRequests, slot[u] = "idle"
  PROVE  Semaphore!Outside(u)
BY DEF PermitsInv, LineExact, Parsing, Semaphore!Outside

\* The semaphore counts as the permits do.
LEMMA SameCount == Semaphore!Cardinality(Parsing) = Cardinality(Parsing)
BY DEF Semaphore!Cardinality, Cardinality

\* Every step of the permits is one of the semaphore, or none.
LEMMA SemaphoreStep ==
  PermitsInv /\ [PermitsNext]_permitVars => [Semaphore!SemaphoreNext]_<<Parsing, queue>>
<1> DEFINE Goal == [Semaphore!SemaphoreNext]_<<Parsing, queue>>
<1> SUFFICES ASSUME PermitsInv, [PermitsNext]_permitVars
             PROVE  Goal
  OBVIOUS
<1>0. /\ available \in Nat /\ MaxConcurrentUploads \in Nat
      /\ Cardinality(Parsing) \in Nat
      /\ available + Cardinality(Parsing) = MaxConcurrentUploads
      /\ slot \in [UploadRequests -> {"idle", "waiting", "parsing", "handling"}]
  BY PermitsAssumption, FS_CardinalityType DEF PermitsInv, PermitsTypeOK, PermitsCounted
<1>1. ASSUME NEW u \in UploadRequests, AcquirePermit(u) PROVE Goal
  <2>1. slot[u] = "idle" /\ available > 0 /\ UNCHANGED queue
        /\ slot' = [slot EXCEPT ![u] = "parsing"]
    BY <1>1 DEF AcquirePermit
  <2>2. Parsing' = Parsing \cup {u}
    BY <1>0, <2>1 DEF Parsing
  <2>3. queue = <<>> /\ Cardinality(Parsing) < MaxConcurrentUploads
    BY <1>0, <2>1 DEF PermitsInv, PermitsCounted
  <2>o. Semaphore!Outside(u)
    BY <2>1, IdleIsOutside
  <2>4. Semaphore!Enter(u)
    BY <2>1, <2>2, <2>3, <2>o, SameCount DEF Semaphore!Enter
  <2> QED
    BY <2>4 DEF Semaphore!SemaphoreNext
<1>2. ASSUME NEW u \in UploadRequests, QueueUp(u) PROVE Goal
  <2>1. /\ slot[u] = "idle" /\ available = 0 /\ Len(queue) < MaxUploadQueue
        /\ queue' = Append(queue, u) /\ slot' = [slot EXCEPT ![u] = "waiting"]
    BY <1>2 DEF QueueUp
  <2>2. Parsing' = Parsing
    BY <1>0, <2>1 DEF Parsing
  <2>3. Cardinality(Parsing) = MaxConcurrentUploads
    BY <1>0, <2>1
  <2>o. Semaphore!Outside(u)
    BY <2>1, IdleIsOutside
  <2>4. Semaphore!Join(u)
    BY <2>1, <2>2, <2>3, <2>o, SameCount DEF Semaphore!Join
  <2> QED
    BY <2>4 DEF Semaphore!SemaphoreNext
<1>3. ASSUME NEW u \in UploadRequests, TimesOut(u) PROVE Goal
  <2>1. slot[u] = "waiting" /\ slot' = [slot EXCEPT ![u] = "idle"]
    BY <1>3 DEF TimesOut
  <2>2. Parsing' = Parsing
    BY <1>0, <2>1 DEF Parsing
  <2>3. PICK i \in 1..Len(queue) :
          queue' = SubSeq(queue, 1, i - 1) \o SubSeq(queue, i + 1, Len(queue))
    BY <1>3, <2>1 DEF TimesOut, PermitsInv, LineExact
  <2>4. Semaphore!GiveUp(i)
    BY <2>2, <2>3 DEF Semaphore!GiveUp
  <2> QED
    BY <2>4 DEF Semaphore!SemaphoreNext
<1>4. ASSUME NEW u \in UploadRequests, Parsed(u) PROVE Goal
  <2>1. PICK next \in {"handling", "idle"} : ReleasePermit(u, next)
    BY <1>4 DEF Parsed
  <2>2. u \in Parsing
    BY <1>4 DEF Parsed, Parsing
  <2>3. CASE queue = <<>>
    <3>1. UNCHANGED queue /\ slot' = [slot EXCEPT ![u] = next]
      BY <2>1, <2>3 DEF ReleasePermit
    <3>2. Parsing' = Parsing \ {u}
      BY <1>0, <3>1 DEF Parsing
    <3>3. Semaphore!LeaveEmpty(u)
      BY <2>2, <2>3, <3>1, <3>2 DEF Semaphore!LeaveEmpty
    <3> QED
      BY <3>3 DEF Semaphore!SemaphoreNext
  <2>4. CASE queue # <<>>
    <3> DEFINE h == Head(queue)
    <3>1. queue' = Tail(queue) /\ slot' = [slot EXCEPT ![u] = next, ![h] = "parsing"]
      BY <2>1, <2>4 DEF ReleasePermit
    <3>2. h \in UploadRequests /\ slot[h] = "waiting"
      <4>1. /\ h \in UploadRequests /\ h = queue[1] /\ Len(queue) >= 1
        BY <2>4, EmptySeq, HeadTailProperties DEF PermitsInv, PermitsTypeOK
      <4>2. 1 \in 1..Len(queue)
        BY <4>1, LenProperties DEF PermitsInv, PermitsTypeOK
      <4> QED
        BY <4>1, <4>2 DEF PermitsInv, LineExact
    <3> HIDE DEF h
    <3>3. Parsing' = (Parsing \ {u}) \cup {h}
      BY <1>0, <2>2, <3>1, <3>2 DEF Parsing
    <3>4. Semaphore!HandOver(u)
      BY <2>2, <2>4, <3>1, <3>3 DEF Semaphore!HandOver, h
    <3> QED
      BY <3>4 DEF Semaphore!SemaphoreNext
  <2> QED
    BY <2>3, <2>4
<1>5. ASSUME NEW u \in UploadRequests, Handled(u) PROVE Goal
  <2>1. slot[u] = "handling" /\ slot' = [slot EXCEPT ![u] = "idle"] /\ UNCHANGED queue
    BY <1>5 DEF Handled
  <2>2. Parsing' = Parsing
    BY <1>0, <2>1 DEF Parsing
  <2> QED
    BY <2>1, <2>2
<1>6. CASE UNCHANGED permitVars
  BY <1>6 DEF permitVars, Parsing
<1> QED
  BY <1>1, <1>2, <1>3, <1>4, <1>5, <1>6 DEF PermitsNext

\* UploadSemaphore: for any number of permits, places in line and uploads it lets people
\* in as a fair semaphore does, although a counter stands for those who are inside.
THEOREM SemaphoreIsFair == PermitsSpec => ImplementsSemaphore
<1>1. PermitsInit => Semaphore!Open
  BY DEF PermitsInit, Parsing, Semaphore!Open
<1>2. PermitsSpec => []PermitsInv
  BY PermitsInitInv, PermitsStep, PTL DEF PermitsSpec
<1> QED
  BY <1>1, <1>2, SemaphoreStep, PTL
  DEF PermitsSpec, ImplementsSemaphore, Semaphore!SemaphoreSpec
-----------------------------------------------------------------------------
(***************************************************************************)
(* A walk through the feed                                                 *)
(***************************************************************************)

\* The posts the next page is taken from, and those of them that are listed before i.
Left == {i \in Present : AfterCursor(i)}

ListedBefore(i) == {j \in Left : Past(Position(i), Position(j))}

LEMMA LeastNat ==
  ASSUME NEW T \in SUBSET Nat, T # {}
  PROVE  \E n \in T : \A m \in T : n <= m
<1>1. PICK n \in T : \A m \in T : ~ (<<m, n>> \in OpToRel(<, Nat))
  BY WFMin, NatLessThanWellFounded
<1>2. \A m \in T : <<m, n>> \in OpToRel(<, Nat) <=> m < n
  BY DEF OpToRel
<1>3. \A m \in T : ~ (m < n)
  BY <1>1, <1>2, Zenon
<1> QED
  BY <1>3

\* The order of the feed is a strict total order of the positions.
LEMMA PastOrder ==
  ASSUME NEW p \in Nat \X Nat, NEW q \in Nat \X Nat, NEW r \in Nat \X Nat
  PROVE  /\ ~Past(p, p)
         /\ Past(p, q) => ~Past(q, p)
         /\ Past(p, q) /\ Past(q, r) => Past(p, r)
         /\ p[2] # q[2] => Past(p, q) \/ Past(q, p)
BY DEF Past

LEMMA Positions ==
  ASSUME FeedTypeOK
  PROVE  /\ \A i \in PostIds : /\ Position(i) \in Nat \X Nat
                               /\ Position(i)[2] = i
         /\ cursor # <<>> => cursor \in Nat \X Nat
<1>1. ASSUME NEW i \in PostIds PROVE i \in Nat /\ sortKey[i] \in Nat
  <2>1. sortKey[i] \in SortKeys \cup {0}
    BY DEF FeedTypeOK
  <2>2. i \in Nat
    BY FeedAssumption
  <2>3. \A k \in SortKeys \cup {0} : k \in Nat
    BY FeedAssumption
  <2> QED
    BY <2>1, <2>2, <2>3
<1>2. ASSUME cursor # <<>> PROVE cursor \in Nat \X Nat
  <2>1. cursor \in SortKeys \X PostIds
    BY <1>2 DEF FeedTypeOK
  <2> QED
    BY <2>1, FeedAssumption
<1> QED
  BY <1>1, <1>2 DEF Position

\* Whoever is listed behind j has more posts before it than j.
LEMMA FewerBefore ==
  ASSUME FeedTypeOK, NEW i \in Left, NEW j \in Left, Past(Position(i), Position(j))
  PROVE  /\ IsFiniteSet(ListedBefore(i)) /\ IsFiniteSet(ListedBefore(j))
         /\ Cardinality(ListedBefore(j)) < Cardinality(ListedBefore(i))
<1>1. Left \subseteq PostIds /\ IsFiniteSet(PostIds)
  BY FeedAssumption DEF Left, Present
<1>2. /\ ListedBefore(i) \in SUBSET PostIds
      /\ ListedBefore(j) \in SUBSET PostIds
  BY <1>1 DEF ListedBefore
<1>3. IsFiniteSet(ListedBefore(i)) /\ IsFiniteSet(ListedBefore(j))
  BY <1>1, <1>2, FS_Subset
<1>4. ListedBefore(j) \subseteq ListedBefore(i)
  BY <1>1, Positions, PastOrder DEF ListedBefore
<1>5. j \in ListedBefore(i) /\ j \notin ListedBefore(j)
  BY <1>1, Positions, PastOrder DEF ListedBefore
<1>6. /\ Cardinality(ListedBefore(j)) <= Cardinality(ListedBefore(i))
      /\ Cardinality(ListedBefore(j)) # Cardinality(ListedBefore(i))
  BY <1>3, <1>4, <1>5, FS_Subset
<1>7. Cardinality(ListedBefore(i)) \in Nat /\ Cardinality(ListedBefore(j)) \in Nat
  BY <1>3, FS_CardinalityType
<1> QED
  BY <1>3, <1>6, <1>7

LEMMA RowsAreFirst ==
  ASSUME FeedTypeOK, NEW n \in Nat,
         NEW j \in Rows(n), NEW i \in Left, i \notin Rows(n)
  PROVE  Past(Position(i), Position(j))
<1>1. j \in Left /\ Cardinality(ListedBefore(j)) < n
  BY DEF Rows, ListedBefore, Left
<1>2. ~(Cardinality(ListedBefore(i)) < n)
  BY DEF Rows, ListedBefore, Left
<1>3. i # j /\ i \in PostIds /\ j \in PostIds
  BY <1>1 DEF Left, Present
<1>4. CASE Past(Position(j), Position(i))
  <2>1. Cardinality(ListedBefore(i)) < Cardinality(ListedBefore(j))
    BY <1>1, <1>4, FewerBefore
  <2>2. Cardinality(ListedBefore(i)) \in Nat /\ Cardinality(ListedBefore(j)) \in Nat
    BY <1>1, <1>4, FewerBefore, FS_CardinalityType
  <2> QED
    BY <1>1, <1>2, <2>1, <2>2
<1> QED
  BY <1>3, <1>4, Positions, PastOrder

\* When a post does not fit the page, the query for one more finds more than the page.
LEMMA NextPageIsSeen ==
  ASSUME FeedTypeOK, NEW i \in Left, i \notin Rows(Limit)
  PROVE  Cardinality(Rows(Limit + 1)) > Limit
<1> DEFINE more == Rows(Limit + 1)
<1>1. Left \subseteq PostIds /\ IsFiniteSet(PostIds) /\ Limit \in Nat
  BY FeedAssumption DEF Left, Present
<1>2. /\ more \subseteq Left
      /\ \A k \in Left : k \in more <=> Cardinality(ListedBefore(k)) < Limit + 1
  BY DEF Rows, Left, ListedBefore
<1>3. IsFiniteSet(more) /\ Cardinality(more) \in Nat
  BY <1>1, <1>2, FS_Subset, FS_CardinalityType
<1>4. \A k \in Left : /\ IsFiniteSet(ListedBefore(k))
                      /\ Cardinality(ListedBefore(k)) \in Nat
                      /\ k \notin ListedBefore(k)
  <2> SUFFICES ASSUME NEW k \in Left
               PROVE  /\ ListedBefore(k) \in SUBSET PostIds
                      /\ k \notin ListedBefore(k)
    BY <1>1, FS_Subset, FS_CardinalityType
  <2> QED
    BY <1>1, Positions, PastOrder DEF ListedBefore
<1>5. CASE Left \subseteq more
  <2> DEFINE upTo == ListedBefore(i) \cup {i}
  <2>1. ~(Cardinality(ListedBefore(i)) < Limit)
    BY DEF Rows, Left, ListedBefore
  <2>2. Cardinality(upTo) = Cardinality(ListedBefore(i)) + 1
    BY <1>4, FS_AddElement
  <2>3. upTo \in SUBSET more
    BY <1>5 DEF ListedBefore
  <2>4. Cardinality(upTo) <= Cardinality(more)
    BY <1>3, <2>3, FS_Subset
  <2> QED
    BY <1>1, <1>3, <1>4, <2>1, <2>2, <2>4
<1>6. CASE ~(Left \subseteq more)
  <2> DEFINE Ranks == {Cardinality(ListedBefore(k)) : k \in Left \ more}
  <2>1. Ranks \in SUBSET Nat /\ Ranks # {}
    BY <1>4, <1>6
  <2>2. PICK n \in Ranks : \A m \in Ranks : n <= m
    BY <2>1, LeastNat
  <2>3. PICK k \in Left \ more : n = Cardinality(ListedBefore(k))
    BY <2>2
  <2>4. ASSUME NEW j \in ListedBefore(k) PROVE j \in more
    <3>1. j \in Left /\ Past(Position(k), Position(j))
      BY DEF ListedBefore
    <3>2. Cardinality(ListedBefore(j)) < n
      BY <2>3, <3>1, FewerBefore
    <3>3. CASE j \notin more
      <4>1. Cardinality(ListedBefore(j)) \in Ranks
        BY <3>1, <3>3
      <4>2. n <= Cardinality(ListedBefore(j))
        BY <2>2, <4>1
      <4> QED
        BY <1>4, <2>3, <3>1, <3>2, <4>2
    <3> QED
      BY <3>3
  <2>5. ListedBefore(k) \in SUBSET more
    BY <2>4
  <2>6. Cardinality(ListedBefore(k)) <= Cardinality(more)
    BY <1>3, <2>5, FS_Subset
  <2>7. ~(Cardinality(ListedBefore(k)) < Limit + 1)
    BY <1>2
  <2> QED
    BY <1>1, <1>3, <1>4, <2>6, <2>7
<1> QED
  BY <1>5, <1>6

\* A post that keeps its place was given exactly when the cursor has passed it, and
\* every one of them when the walk is over.
GivenWhenPassed ==
  \A i \in steady :
    /\ i \in Present
    /\ seen[i] = IF walking /\ AfterCursor(i) THEN 0 ELSE 1

FeedInv == FeedTypeOK /\ GivenWhenPassed

LEMMA FeedStep == FeedInv /\ [FeedNext]_feedVars => FeedInv'
<1> SUFFICES ASSUME FeedTypeOK, GivenWhenPassed, [FeedNext]_feedVars PROVE FeedInv'
  BY DEF FeedInv
<1>1. CASE GetPage
  <2> DEFINE page == Rows(Limit)
             hasMore == Cardinality(Rows(Limit + 1)) > Limit
  <2>1. /\ walking
        /\ seen' = [i \in PostIds |-> IF i \in page THEN seen[i] + 1 ELSE seen[i]]
        /\ walking' = hasMore
        /\ UNCHANGED <<sortKey, order, steady, edits>>
    BY <1>1 DEF GetPage
  <2>2. page \subseteq Left /\ Left \subseteq PostIds /\ steady \subseteq PostIds
    BY DEF Rows, Left, Present, FeedTypeOK
  <2>3. \A i \in steady : /\ i \in Left <=> AfterCursor(i)
                          /\ seen[i] = IF i \in Left THEN 0 ELSE 1
    BY <2>1 DEF GivenWhenPassed, Left
  <2>4. \A i \in steady : seen'[i] = IF i \in Left \ page THEN 0 ELSE 1
    BY <2>1, <2>2, <2>3
  <2>5. /\ seen' \in [PostIds -> Nat] /\ walking' \in BOOLEAN
        /\ \A i \in steady : i \in Present'
    BY <2>1 DEF FeedTypeOK, GivenWhenPassed, Present
  <2>6. CASE hasMore
    <3>1. PICK i \in page : /\ \A j \in page : j = i \/ Past(Position(i), Position(j))
                            /\ cursor' = Position(i)
      BY <1>1, <2>6 DEF GetPage
    <3>2. i \in Left /\ i \in PostIds /\ Position(i) \in SortKeys \X PostIds
      BY <2>2 DEF Left, Present, Position, FeedTypeOK
    <3>3. cursor' # <<>>
      BY <3>1 DEF Position
    <3>4. \A j \in PostIds : AfterCursor(j)' <=> Past(Position(j), Position(i))
      BY <2>1, <3>1, <3>3 DEF AfterCursor, Past, Position
    <3>5. ASSUME NEW j \in steady PROVE AfterCursor(j)' <=> j \in Left \ page
      <4>1. j \in PostIds
        BY <2>2
      <4>2. CASE j \in page
        BY <3>1, <3>2, <3>4, <4>1, <4>2, Positions, PastOrder
      <4>3. CASE j \in Left \ page
        BY <3>1, <3>4, <4>1, <4>3, RowsAreFirst, FeedAssumption
      <4>4. CASE j \notin Left
        <5>1. cursor # <<>> /\ ~Past(Position(j), cursor)
          BY <2>3, <4>4 DEF AfterCursor
        <5>2. Past(Position(i), cursor)
          BY <3>2, <5>1 DEF Left, AfterCursor
        <5>3. ~Past(Position(j), Position(i))
          BY <3>2, <4>1, <5>1, <5>2, Positions, PastOrder
        <5> QED
          BY <3>4, <4>1, <4>4, <5>3
      <4> QED
        BY <4>2, <4>3, <4>4
    <3>6. FeedTypeOK'
      BY <2>1, <2>5, <3>1, <3>2 DEF FeedTypeOK
    <3>7. GivenWhenPassed'
      BY <2>1, <2>4, <2>5, <2>6, <3>5 DEF GivenWhenPassed
    <3> QED
      BY <3>6, <3>7 DEF FeedInv
  <2>7. CASE ~hasMore
    <3>1. Left \subseteq page
      BY <2>7, NextPageIsSeen
    <3>2. UNCHANGED cursor
      BY <1>1, <2>7 DEF GetPage
    <3>3. FeedTypeOK'
      BY <2>1, <2>5, <3>2 DEF FeedTypeOK
    <3>4. GivenWhenPassed'
      BY <2>1, <2>4, <2>5, <2>7, <3>1 DEF GivenWhenPassed
    <3> QED
      BY <3>3, <3>4 DEF FeedInv
  <2> QED
    BY <2>6, <2>7
<1>2. ASSUME NEW i \in PostIds, NEW k \in SortKeys \cup {0}, PostMoves(i, k) PROVE FeedInv'
  <2>1. FeedTypeOK'
    BY <1>2, FeedAssumption DEF PostMoves, FeedTypeOK
  <2>2. ASSUME NEW j \in steady'
        PROVE  /\ j \in Present'
               /\ seen'[j] = IF walking' /\ AfterCursor(j)' THEN 0 ELSE 1
    <3>1. j \in steady /\ j \in PostIds /\ sortKey'[j] = sortKey[j]
      BY <1>2, <2>2 DEF PostMoves, FeedTypeOK
    <3>2. AfterCursor(j)' <=> AfterCursor(j)
      BY <1>2, <3>1 DEF PostMoves, AfterCursor, Past, Position
    <3> QED
      BY <1>2, <3>1, <3>2 DEF PostMoves, GivenWhenPassed, Present
  <2> QED
    BY <2>1, <2>2 DEF FeedInv, GivenWhenPassed
<1>3. CASE UNCHANGED feedVars
  BY <1>3 DEF feedVars, FeedInv, FeedTypeOK, GivenWhenPassed, Present, AfterCursor, Past,
       Position
<1> QED
  BY <1>1, <1>2, <1>3 DEF FeedNext

LEMMA FeedInvariance == FeedSpec => []FeedInv
<1>1. FeedInit => FeedInv
  BY FeedAssumption
  DEF FeedInit, FeedInv, FeedTypeOK, GivenWhenPassed, Present, AfterCursor
<1> QED
  BY <1>1, FeedStep, PTL DEF FeedSpec

\* PostsService.feed: a post that keeps its place is given once in a walk, whatever the
\* others do, however many there are and however long the pages.
THEOREM EveryPostOnce == FeedSpec => []FeedExact
<1>1. FeedInv => FeedExact
  BY DEF FeedInv, GivenWhenPassed, FeedExact
<1> QED
  BY <1>1, FeedInvariance, PTL

=============================================================================
