--------------------------- MODULE JobPageProofs ---------------------------
(***************************************************************************)
(* What holds of the page that follows a job, for any number of jobs and   *)
(* of subscriptions: PanelIsNewest.  The text of a stream is the one of    *)
(* the model, three blocks; where the network cuts it is arbitrary.        *)
(***************************************************************************)
EXTENDS JobPage, SequenceTheorems, TLAPS

-----------------------------------------------------------------------------
(***************************************************************************)
(* The parser                                                              *)
(***************************************************************************)
LEMMA Text ==
  /\ StreamText \in Seq(Nat)
  /\ Len(StreamText) = 9
  /\ StreamText[1] = 1 /\ StreamText[2] = 10 /\ StreamText[3] = 10
  /\ StreamText[4] = 0 /\ StreamText[5] = 10 /\ StreamText[6] = 10
  /\ StreamText[7] = 2 /\ StreamText[8] = 10 /\ StreamText[9] = 10
BY DEF StreamText, Newline

\* The last place up to k where a block ends, and the version that the blocks before it
\* show.
EndBy(k) == IF k >= 9 THEN 9 ELSE IF k >= 6 THEN 6 ELSE IF k >= 3 THEN 3 ELSE 0

VersionBy(k) == IF k >= 9 THEN 2 ELSE IF k >= 3 THEN 1 ELSE 0

LEMMA WholeIsVersion ==
  ASSUME NEW s \in Streams, NEW k \in 0..9, received[s] = k
  PROVE  Whole(s) = VersionBy(k)
<1> DEFINE whole == {i \in 1..Len(StreamText) : StreamText[i] # Newline /\ i + 2 <= received[s]}
           best == CHOOSE i \in whole : \A j \in whole : StreamText[j] <= StreamText[i]
<1>1. \A i \in 1..9 : StreamText[i] # Newline <=> i \in {1, 4, 7}
  BY Text DEF Newline
<1>2. \A i : i \in whole <=> i \in {1, 4, 7} /\ i + 2 <= k
  BY <1>1, Text
<1>3. CASE k < 3
  <2>1. whole = {}
    BY <1>2, <1>3
  <2> QED
    BY <1>3, <2>1 DEF Whole, VersionBy
<1>4. CASE k \in 3..8
  <2>1. 1 \in whole /\ \A j \in whole : j \in {1, 4}
    BY <1>2, <1>4
  <2>2. \A j \in whole : StreamText[j] <= StreamText[1]
    BY <2>1, Text
  <2>3. PICK b \in whole : b = best /\ StreamText[1] <= StreamText[b]
    BY <2>1, <2>2
  <2>4. b = 1 \/ b = 4
    BY <2>1
  <2>5. StreamText[b] = 1
    <3>1. ~(1 <= 0) /\ StreamText[1] = 1 /\ StreamText[4] = 0
      BY Text
    <3>2. CASE b = 1
      BY <3>1, <3>2
    <3>3. CASE b = 4
      <4>1. StreamText[b] = 0
        BY <3>1, <3>3, Zenon
      <4>2. 1 <= 0
        BY <2>3, <3>1, <4>1, Zenon
      <4> QED
        BY <3>1, <4>2
    <3> QED
      BY <2>4, <3>2, <3>3
  <2>6. Whole(s) = 1
    BY <2>1, <2>3, <2>5 DEF Whole
  <2> QED
    BY <1>4, <2>6 DEF VersionBy
<1>5. CASE k = 9
  <2>1. 7 \in whole /\ \A j \in whole : j \in {1, 4, 7}
    BY <1>2, <1>5
  <2>2. \A j \in whole : StreamText[j] <= StreamText[7]
    BY <2>1, Text
  <2>3. PICK b \in whole : b = best /\ StreamText[7] <= StreamText[b]
    BY <2>1, <2>2
  <2>4. b = 1 \/ b = 4 \/ b = 7
    BY <2>1
  <2>5. StreamText[b] = 2
    <3>1. /\ ~(2 <= 0) /\ ~(2 <= 1)
          /\ StreamText[1] = 1 /\ StreamText[4] = 0 /\ StreamText[7] = 2
      BY Text
    <3>2. CASE b = 7
      BY <3>1, <3>2
    <3>3. CASE b \in {1, 4}
      <4>1. StreamText[b] = 0 \/ StreamText[b] = 1
        BY <3>1, <3>3, Zenon
      <4>2. 2 <= 0 \/ 2 <= 1
        BY <2>3, <3>1, <4>1, Zenon
      <4> QED
        BY <3>1, <4>2
    <3> QED
      BY <2>4, <3>2, <3>3
  <2>6. Whole(s) = 2
    BY <2>1, <2>3, <2>5 DEF Whole
  <2> QED
    BY <1>5, <2>6 DEF VersionBy
<1> QED
  BY <1>3, <1>4, <1>5

\* The stream's text behind e, up to k.
Piece(e, k) == SubSeq(StreamText, e + 1, k)

LEMMA PieceIs ==
  ASSUME NEW e \in 0..9, NEW k \in e..9
  PROVE  /\ Piece(e, k) \in Seq(Nat)
         /\ Len(Piece(e, k)) = k - e
         /\ \A p \in (e + 1)..k : Piece(e, k)[p - e] = StreamText[p]
<1>1. \A p \in (e + 1)..k : StreamText[p] \in Nat
  BY Text
<1>2. /\ Piece(e, k) \in Seq(Nat)
      /\ Len(Piece(e, k)) = IF e + 1 <= k THEN k - (e + 1) + 1 ELSE 0
      /\ \A i \in 1..(k - (e + 1) + 1) : Piece(e, k)[i] = StreamText[(e + 1) + i - 1]
  BY <1>1, SubSeqProperties DEF Piece
<1>3. ASSUME NEW p \in (e + 1)..k PROVE Piece(e, k)[p - e] = StreamText[p]
  <2>1. p - e \in 1..(k - (e + 1) + 1) /\ (e + 1) + (p - e) - 1 = p
    OBVIOUS
  <2> QED
    BY <1>2, <2>1
<1> QED
  BY <1>2, <1>3

\* A piece that begins behind a block has its last whole block end where the text's
\* blocks end.
LEMMA EndOfPiece ==
  ASSUME NEW e \in {0, 3, 6, 9}, NEW f \in {0, 3, 6, 9}, NEW k \in 0..9,
         e <= f, f <= k, k < f + 3
  PROVE  LastEnd(Piece(e, k)) = f - e
<1> DEFINE text == Piece(e, k)
           ends == {i \in 2..Len(text) : text[i] = Newline /\ text[i - 1] = Newline}
<1>1. /\ e \in 0..9 /\ f \in 0..9 /\ k \in e..9
  OBVIOUS
<1>2. /\ Len(text) = k - e
      /\ \A p \in (e + 1)..k : text[p - e] = StreamText[p]
  BY <1>1, PieceIs
<1> HIDE DEF text
<1>3. ASSUME NEW p \in (e + 2)..k PROVE p - e \in ends <=> p \in {3, 6, 9}
  <2>1. /\ p \in (e + 1)..k /\ p - 1 \in (e + 1)..k /\ p \in 2..9
        /\ p - e \in 2..(k - e) /\ (p - e) - 1 = (p - 1) - e
    BY <1>1
  <2>2. text[p - e] = StreamText[p] /\ text[(p - e) - 1] = StreamText[p - 1]
    BY <1>2, <2>1
  <2>3. StreamText[p] = 10 /\ StreamText[p - 1] = 10 <=> p \in {3, 6, 9}
    BY <2>1, Text
  <2> QED
    BY <1>2, <2>1, <2>2, <2>3 DEF Newline
<1>4. ASSUME NEW i \in ends PROVE i + e \in {3, 6, 9} /\ i + e <= f /\ i \in Nat /\ i >= 2
  <2>1. i \in 2..(k - e)
    BY <1>2
  <2>2. i + e \in (e + 2)..k /\ (i + e) - e = i
    BY <1>1, <2>1
  <2>3. i + e \in {3, 6, 9}
    BY <1>3, <2>2
  <2> QED
    BY <1>1, <2>1, <2>2, <2>3
<1>5. CASE e = f
  <2>1. ends = {}
    BY <1>1, <1>4, <1>5
  <2> QED
    BY <1>1, <1>5, <2>1 DEF LastEnd, text
<1>6. CASE e < f
  <2>1. f - e \in ends
    <3>1. f \in (e + 2)..k /\ f \in {3, 6, 9}
      BY <1>1, <1>6
    <3> QED
      BY <1>3, <3>1
  <2>2. \A j \in ends : j <= f - e
    BY <1>1, <1>4
  <2>3. Last(ends) \in ends /\ \A j \in ends : j <= Last(ends)
    BY <2>1, <2>2 DEF Last
  <2>4. Last(ends) = f - e
    BY <1>1, <1>4, <2>1, <2>2, <2>3
  <2> QED
    BY <2>1, <2>4 DEF LastEnd, text
<1> QED
  BY <1>1, <1>5, <1>6

\* The last event of a piece is the last of the text, if it is behind e.
LEMMA EventsOfPiece ==
  ASSUME NEW e \in {0, 3, 6, 9}, NEW f \in {0, 3, 6, 9}, NEW k \in 0..9,
         e <= f, f <= k, k < f + 3
  PROVE  LET events == Events(Piece(e, k)) IN
         /\ events = {} => (f = 9 <=> e = 9) /\ (f = 0 <=> e = 0)
         /\ events # {} => /\ f # 0
                           /\ Piece(e, k)[Last(events)] = IF f = 9 THEN 2 ELSE 1
<1> DEFINE text == Piece(e, k)
           events == Events(text)
<1>1. /\ e \in 0..9 /\ f \in 0..9 /\ k \in e..9
  OBVIOUS
<1>2. /\ Len(text) = k - e
      /\ \A p \in (e + 1)..k : text[p - e] = StreamText[p]
  BY <1>1, PieceIs
<1>3. LastEnd(text) = f - e
  BY EndOfPiece
<1> HIDE DEF text
<1>4. ASSUME NEW p \in (e + 1)..f PROVE p - e \in events <=> p \in {1, 7}
  <2>1. p \in (e + 1)..k /\ p \in 1..9 /\ p - e \in 1..(f - e)
    BY <1>1
  <2>2. text[p - e] = StreamText[p]
    BY <1>2, <2>1
  <2>3. StreamText[p] \notin {10, 0} <=> p \in {1, 7}
    BY <2>1, Text
  <2> QED
    BY <1>3, <2>1, <2>2, <2>3 DEF Events, Newline
<1>5. ASSUME NEW i \in events PROVE i + e \in {1, 7} /\ i + e <= f /\ i \in Nat /\ i >= 1
  <2>1. i \in 1..(f - e)
    BY <1>3 DEF Events
  <2>2. i + e \in (e + 1)..f /\ (i + e) - e = i
    BY <1>1, <2>1
  <2> QED
    BY <1>1, <1>4, <2>1, <2>2
<1>6. CASE events = {}
  <2>1. \A p \in {1, 7} : ~(e + 1 <= p /\ p <= f)
    BY <1>1, <1>4, <1>6
  <2> QED
    BY <1>6, <2>1 DEF text
<1>7. CASE events # {}
  <2>1. f # 0
    BY <1>1, <1>5, <1>7
  <2>2. PICK p \in {1, 7} : p = IF f = 9 THEN 7 ELSE 1
    OBVIOUS
  <2>3. p - e \in events
    <3>1. p \in (e + 1)..f
      BY <1>1, <1>5, <1>7, <2>2
    <3> QED
      BY <1>4, <3>1
  <2>4. \A j \in events : j <= p - e
    BY <1>1, <1>5, <2>2
  <2>5. Last(events) \in events /\ \A j \in events : j <= Last(events)
    BY <2>3, <2>4 DEF Last
  <2>6. Last(events) = p - e
    BY <1>1, <1>5, <2>2, <2>3, <2>4, <2>5
  <2>7. text[p - e] = StreamText[p]
    BY <1>1, <1>2, <1>5, <2>3
  <2>8. StreamText[p] = IF f = 9 THEN 2 ELSE 1
    BY <2>2, Text
  <2> QED
    BY <1>7, <2>1, <2>6, <2>7, <2>8 DEF text
<1> QED
  BY <1>6, <1>7

\* What the parser keeps of a stream that has arrived up to k.
Unparsed(k) == Piece(EndBy(k), k)

\* The parser finds the last whole block, shows the last event up to it, and keeps the
\* rest.
LEMMA ChunkParsed ==
  ASSUME NEW r \in 0..9, NEW k \in r..9
  PROVE  LET text == Unparsed(r) \o SubSeq(StreamText, r + 1, k) IN
         /\ SubSeq(text, LastEnd(text) + 1, Len(text)) = Unparsed(k)
         /\ Events(text) = {} => VersionBy(k) = VersionBy(r)
         /\ Events(text) # {} => /\ text[Last(Events(text))] = VersionBy(k)
                                 /\ VersionBy(k) # 0
<1>1. PICK e \in {0, 3, 6, 9} : e = EndBy(r)
  BY DEF EndBy
<1>2. PICK f \in {0, 3, 6, 9} : f = EndBy(k)
  BY DEF EndBy
<1>3. e <= r /\ r < e + 3 /\ e <= f /\ f <= k /\ k < f + 3
  BY <1>1, <1>2 DEF EndBy
<1>4. e \in 0..9 /\ f \in 0..9 /\ k \in 0..9 /\ k \in e..9 /\ k \in f..9
  BY <1>3
<1>5. Unparsed(r) \o SubSeq(StreamText, r + 1, k) = Piece(e, k)
  <2>1. /\ StreamText \in Seq(Nat)
        /\ e + 1 \in 1..(Len(StreamText) + 1)
        /\ r \in ((e + 1) - 1)..Len(StreamText)
        /\ k \in r..Len(StreamText)
    BY <1>3, <1>4, Text
  <2> QED
    BY <1>1, <2>1, ConcatAdjacentSubSeq DEF Unparsed, Piece
<1>6. SubSeq(Piece(e, k), (f - e) + 1, k - e) = Piece(f, k)
  <2>1. CASE f = k
    <3>1. /\ (f - e) + 1 \in Int /\ k - e \in Int /\ k - e < (f - e) + 1
          /\ f + 1 \in Int /\ k \in Int /\ k < f + 1
      BY <1>4, <2>1
    <3> QED
      BY <3>1, SubSeqEmpty DEF Piece
  <2>2. CASE f < k
    <3>1. /\ StreamText \in Seq(Nat)
          /\ e + 1 \in 1..Len(StreamText) /\ k \in 1..Len(StreamText)
          /\ (f - e) + 1 \in 1..(k - (e + 1) + 1) /\ k - e \in 1..(k - (e + 1) + 1)
          /\ (e + 1) + ((f - e) + 1) - 1 = f + 1 /\ (e + 1) + (k - e) - 1 = k
      BY <1>3, <1>4, <2>2, Text
    <3> QED
      BY <3>1, SubSeqOfSubSeq DEF Piece
  <2> QED
    BY <1>3, <1>4, <2>1, <2>2
<1>7. LastEnd(Piece(e, k)) = f - e /\ Len(Piece(e, k)) = k - e
  BY <1>3, <1>4, EndOfPiece, PieceIs
<1>8. /\ VersionBy(r) = IF e = 9 THEN 2 ELSE IF e = 0 THEN 0 ELSE 1
      /\ VersionBy(k) = IF f = 9 THEN 2 ELSE IF f = 0 THEN 0 ELSE 1
  BY <1>1, <1>2, <1>3, <1>4 DEF VersionBy
<1>9. /\ Events(Piece(e, k)) = {} => (f = 9 <=> e = 9) /\ (f = 0 <=> e = 0)
      /\ Events(Piece(e, k)) # {} =>
           f # 0 /\ Piece(e, k)[Last(Events(Piece(e, k)))] = IF f = 9 THEN 2 ELSE 1
  BY <1>3, <1>4, EventsOfPiece
<1>10. Events(Piece(e, k)) = {} => VersionBy(k) = VersionBy(r)
  BY <1>8, <1>9
<1>11. Events(Piece(e, k)) # {} =>
         /\ Piece(e, k)[Last(Events(Piece(e, k)))] = VersionBy(k)
         /\ VersionBy(k) # 0
  BY <1>8, <1>9
<1>12. Piece(f, k) = Unparsed(k)
  BY <1>2 DEF Unparsed
<1> QED
  BY <1>5, <1>6, <1>7, <1>10, <1>11, <1>12

-----------------------------------------------------------------------------
(***************************************************************************)
(* The page                                                                *)
(***************************************************************************)
\* Only the latest stream can still be asked for or open, what the parser keeps of each
\* is the rest behind its last whole block, and the page shows the latest one's version.
StreamsFollowed ==
  /\ latest \in Streams \cup {0}
  /\ streamOf \in [Streams -> JobIds \cup {NoJob}]
  /\ phase \in [Streams -> {"none", "asking", "open", "over"}]
  /\ received \in [Streams -> 0..9]
  /\ DOMAIN buffer = Streams
  /\ \A s \in Streams :
       /\ buffer[s] = Unparsed(received[s])
       /\ s > latest => received[s] = 0
       /\ phase[s] \in {"asking", "open"} => s = latest

PanelFollows ==
  latest # 0 =>
    /\ streamOf[latest] = currentJobId
    /\ panel = IF VersionBy(received[latest]) = 0 THEN shownBefore[latest]
               ELSE [job |-> currentJobId, version |-> VersionBy(received[latest])]

PageInv == StreamsFollowed /\ PanelFollows /\ DOMAIN shownBefore = Streams

LEMMA PageStart == PageInit => PageInv
<1> SUFFICES ASSUME PageInit PROVE PageInv
  OBVIOUS
<1>1. Unparsed(0) = <<>>
  BY SubSeqEmpty DEF Unparsed, Piece, EndBy
<1>2. \A s \in Streams : s > 0
  BY MaxStreamsAssumption DEF Streams
<1> QED
  BY <1>1, <1>2 DEF PageInit, PageInv, StreamsFollowed, PanelFollows

\* A new stream has received nothing, and the one before it is over.
LEMMA NewStream ==
  ASSUME PageInv, NEW j \in JobIds, NEW shown,
         StartSse(j, shown), currentJobId' = j, panel' = shown
  PROVE  PageInv'
<1> USE MaxStreamsAssumption
<1>1. PICK t \in Streams : t = latest + 1 /\ t # latest
  BY DEF PageInv, StreamsFollowed, StartSse, Streams
<1>2. /\ latest' = t /\ streamOf' = [streamOf EXCEPT ![t] = j]
      /\ phase' = [s \in Streams |-> IF s = t THEN "asking"
                                     ELSE IF s = latest THEN "over" ELSE phase[s]]
      /\ shownBefore' = [shownBefore EXCEPT ![t] = shown]
      /\ received' = received /\ buffer' = buffer
  BY <1>1 DEF StartSse
<1>3. \A s \in Streams : s > t => s > latest
  BY <1>1 DEF PageInv, StreamsFollowed, Streams
<1>4. t > latest
  BY <1>1 DEF PageInv, StreamsFollowed, Streams
<1>5. StreamsFollowed'
  BY <1>1, <1>2, <1>3 DEF PageInv, StreamsFollowed
<1>6. received[t] = 0
  BY <1>4 DEF PageInv, StreamsFollowed
<1>7. PanelFollows'
  BY <1>2, <1>6 DEF PageInv, StreamsFollowed, PanelFollows, VersionBy
<1> QED
  BY <1>2, <1>5, <1>7 DEF PageInv

\* A step that neither starts a stream nor receives from one.
LEMMA OtherStep ==
  ASSUME PageInv,
         UNCHANGED <<currentJobId, panel, latest, streamOf, received, buffer, shownBefore>>,
         phase' \in [Streams -> {"none", "asking", "open", "over"}],
         \A s \in Streams : phase'[s] \in {"asking", "open"} => phase[s] \in {"asking", "open"}
  PROVE  PageInv'
BY DEF PageInv, StreamsFollowed, PanelFollows

\* A chunk is of the latest stream; what it completes is shown.
LEMMA Received ==
  ASSUME PageInv, NEW s \in Streams, NEW n \in 1..Len(StreamText), Chunk(s, n)
  PROVE  PageInv'
<1>1. s = latest /\ latest # 0
  BY MaxStreamsAssumption DEF PageInv, StreamsFollowed, Chunk, Streams
<1>2. PICK r \in 0..9 : r = received[s]
  BY DEF PageInv, StreamsFollowed
<1>3. n \in 1..9
  BY Text
<1>4. PICK k \in r..9 : k = r + n
  BY <1>2, <1>3, Text DEF Chunk
<1>5. k \in 0..9
  BY <1>2, <1>4
<1>6. PICK text : text = Unparsed(r) \o SubSeq(StreamText, r + 1, k)
  OBVIOUS
<1>7. buffer[s] = Unparsed(r)
  BY <1>2 DEF PageInv, StreamsFollowed
<1>8. /\ received' = [received EXCEPT ![s] = k]
      /\ buffer' = [buffer EXCEPT ![s] = SubSeq(text, LastEnd(text) + 1, Len(text))]
      /\ panel' = IF Events(text) = {} THEN panel
                  ELSE [job |-> streamOf[s], version |-> text[Last(Events(text))]]
      /\ UNCHANGED <<phase, currentJobId, latest, streamOf, shownBefore>>
  BY <1>2, <1>4, <1>6, <1>7 DEF Chunk, pageFrame
<1>9. /\ SubSeq(text, LastEnd(text) + 1, Len(text)) = Unparsed(k)
      /\ Events(text) = {} => VersionBy(k) = VersionBy(r)
      /\ Events(text) # {} => text[Last(Events(text))] = VersionBy(k) /\ VersionBy(k) # 0
  BY <1>6, ChunkParsed
<1>10. buffer' = [buffer EXCEPT ![s] = Unparsed(k)]
  BY <1>8, <1>9
<1>11. StreamsFollowed'
  <2>1. received' \in [Streams -> 0..9] /\ DOMAIN buffer' = Streams
    BY <1>5, <1>8, <1>10 DEF PageInv, StreamsFollowed
  <2>2. ASSUME NEW t \in Streams
        PROVE  /\ buffer'[t] = Unparsed(received'[t])
               /\ t > latest => received'[t] = 0
    <3>1. CASE t = s
      <4>1. buffer'[s] = Unparsed(k) /\ received'[s] = k /\ ~(s > latest)
        BY <1>1, <1>8, <1>10 DEF PageInv, StreamsFollowed, Streams
      <4> QED
        BY <3>1, <4>1
    <3>2. CASE t # s
      <4>1. buffer'[t] = buffer[t] /\ received'[t] = received[t]
        BY <1>8, <1>10, <3>2 DEF PageInv, StreamsFollowed
      <4> QED
        BY <4>1 DEF PageInv, StreamsFollowed
    <3> QED
      BY <3>1, <3>2
  <2> QED
    BY <1>8, <2>1, <2>2 DEF PageInv, StreamsFollowed
<1>12. received'[latest'] = k /\ received[latest] = r
  BY <1>1, <1>2, <1>8 DEF PageInv, StreamsFollowed
<1>13. /\ streamOf[latest] = currentJobId
       /\ panel = IF VersionBy(r) = 0 THEN shownBefore[latest]
                  ELSE [job |-> currentJobId, version |-> VersionBy(r)]
  BY <1>1, <1>12 DEF PageInv, PanelFollows
<1>14. panel' = IF VersionBy(k) = 0 THEN shownBefore[latest]
                ELSE [job |-> currentJobId, version |-> VersionBy(k)]
  <2>1. CASE Events(text) = {}
    BY <1>8, <1>9, <1>13, <2>1
  <2>2. CASE Events(text) # {}
    BY <1>1, <1>8, <1>9, <1>13, <2>2
  <2> QED
    BY <2>1, <2>2
<1>15. PanelFollows'
  BY <1>8, <1>12, <1>13, <1>14 DEF PanelFollows
<1> QED
  BY <1>8, <1>11, <1>15 DEF PageInv

LEMMA PageStep == PageInv /\ [PageNext]_pageVars => PageInv'
<1> SUFFICES ASSUME PageInv, [PageNext]_pageVars PROVE PageInv'
  OBVIOUS
<1> USE DEF streamVars, pageFrame
<1>0. phase \in [Streams -> {"none", "asking", "open", "over"}]
  BY DEF PageInv, StreamsFollowed
<1>1. CASE LoginClicked
  BY <1>0, <1>1, OtherStep DEF LoginClicked
<1>2. ASSUME NEW ok \in BOOLEAN, LoginAnswered(ok) PROVE PageInv'
  BY <1>0, <1>2, OtherStep DEF LoginAnswered
<1>3. CASE ExportClicked
  BY <1>0, <1>3, OtherStep DEF ExportClicked
<1>4. ASSUME NEW j \in JobIds, ExportAnswered(j) PROVE PageInv'
  <2>1. PICK shown : shown = [job |-> j, version |-> 0]
    OBVIOUS
  <2>2. StartSse(j, shown) /\ currentJobId' = j /\ panel' = shown
    BY <1>4, <2>1 DEF ExportAnswered, StartSse
  <2> QED
    BY <2>2, NewStream
<1>5. CASE ExportFails
  BY <1>0, <1>5, OtherStep DEF ExportFails
<1>6. ASSUME NEW j \in JobIds, Subscribe(j) PROVE PageInv'
  <2>1. PICK shown : shown = panel
    OBVIOUS
  <2>2. StartSse(j, shown) /\ currentJobId' = j /\ panel' = shown
    BY <1>6, <2>1 DEF Subscribe, StartSse
  <2> QED
    BY <2>2, NewStream
<1>7. ASSUME NEW s \in Streams, NEW ok \in BOOLEAN, Response(s, ok) PROVE PageInv'
  BY <1>0, <1>7, OtherStep DEF Response
<1>8. ASSUME NEW s \in Streams, NEW n \in 1..Len(StreamText), Chunk(s, n) PROVE PageInv'
  BY <1>8, Received
<1>9. ASSUME NEW s \in Streams, StreamOver(s) PROVE PageInv'
  BY <1>0, <1>9, OtherStep DEF StreamOver
<1>10. CASE UNCHANGED pageVars
  BY <1>0, <1>10, OtherStep DEF pageVars
<1> QED
  BY <1>1, <1>2, <1>3, <1>4, <1>5, <1>6, <1>7, <1>8, <1>9, <1>10 DEF PageNext

\* What the parser keeps behind its last whole block is shorter than a block.
LEMMA KeptIsShort == \A k \in 0..9 : Len(Unparsed(k)) <= 2
<1> SUFFICES ASSUME NEW k \in 0..9 PROVE Len(Unparsed(k)) <= 2
  OBVIOUS
<1>1. EndBy(k) \in 0..9 /\ k \in EndBy(k)..9 /\ k - EndBy(k) <= 2
  BY DEF EndBy
<1> QED
  BY <1>1, PieceIs DEF Unparsed

\* What the buttons and the clicks leave behind; the panel while nothing is followed.
PageRestTypeOK ==
  /\ signedIn \in BOOLEAN /\ signingIn \in BOOLEAN /\ exporting \in BOOLEAN
  /\ currentJobId \in JobIds \cup {NoJob}
  /\ panel \in Shown
  /\ shownBefore \in [Streams -> Shown]

LEMMA PageTypeParts == PageInv /\ PageRestTypeOK => PageTypeOK
<1> SUFFICES ASSUME PageInv, PageRestTypeOK PROVE PageTypeOK
  OBVIOUS
<1>1. ASSUME NEW s \in Streams PROVE Len(buffer[s]) <= 2
  BY KeptIsShort DEF PageInv, StreamsFollowed
<1> QED
  BY <1>1, Text DEF PageInv, StreamsFollowed, PageRestTypeOK, PageTypeOK

LEMMA PageStepType ==
  PageInv /\ PageRestTypeOK /\ [PageNext]_pageVars => PageRestTypeOK'
<1> SUFFICES ASSUME PageInv, PageRestTypeOK, [PageNext]_pageVars PROVE PageRestTypeOK'
  OBVIOUS
<1> USE DEF PageRestTypeOK, streamVars, pageFrame
<1>1. CASE LoginClicked
  BY <1>1 DEF LoginClicked
<1>2. ASSUME NEW ok \in BOOLEAN, LoginAnswered(ok) PROVE PageRestTypeOK'
  BY <1>2 DEF LoginAnswered
<1>3. CASE ExportClicked
  BY <1>3 DEF ExportClicked
<1>4. ASSUME NEW j \in JobIds, ExportAnswered(j) PROVE PageRestTypeOK'
  <2>1. [job |-> j, version |-> 0] \in Shown
    BY DEF Shown
  <2> QED
    BY <1>4, <2>1 DEF ExportAnswered, StartSse
<1>5. CASE ExportFails
  BY <1>5 DEF ExportFails
<1>6. ASSUME NEW j \in JobIds, Subscribe(j) PROVE PageRestTypeOK'
  BY <1>6 DEF Subscribe, StartSse
<1>7. ASSUME NEW s \in Streams, NEW ok \in BOOLEAN, Response(s, ok) PROVE PageRestTypeOK'
  BY <1>7 DEF Response
<1>8. ASSUME NEW s \in Streams, NEW n \in 1..Len(StreamText), Chunk(s, n)
      PROVE  PageRestTypeOK'
  <2>1. UNCHANGED <<signedIn, signingIn, exporting, currentJobId, latest, shownBefore>>
    BY <1>8 DEF Chunk
  <2>2. latest # 0
    BY <1>8, MaxStreamsAssumption DEF PageInv, StreamsFollowed, Chunk, Streams
  <2>3. PageInv'
    BY <1>8, Received
  <2>4. latest' \in Streams /\ VersionBy(received'[latest']) \in 0..2
    BY <2>1, <2>2, <2>3 DEF PageInv, StreamsFollowed, VersionBy
  <2>5. panel' \in Shown
    BY <2>1, <2>2, <2>3, <2>4 DEF PageInv, PanelFollows, Shown
  <2> QED
    BY <2>1, <2>5
<1>9. ASSUME NEW s \in Streams, StreamOver(s) PROVE PageRestTypeOK'
  BY <1>9 DEF StreamOver
<1>10. CASE UNCHANGED pageVars
  BY <1>10 DEF pageVars
<1> QED
  BY <1>1, <1>2, <1>3, <1>4, <1>5, <1>6, <1>7, <1>8, <1>9, <1>10 DEF PageNext

LEMMA PageInvariance == PageSpec => []PageInv
BY PageStart, PageStep, PTL DEF PageSpec

\* The page's variables keep their types, and the parser never keeps a whole block.
LEMMA PageTypes == PageSpec => []PageTypeOK
<1>1. PageInit => PageRestTypeOK
  <2> SUFFICES ASSUME PageInit PROVE PageRestTypeOK
    OBVIOUS
  <2>1. NothingShown \in Shown
    BY DEF NothingShown, Shown
  <2>2. signedIn \in BOOLEAN /\ signingIn \in BOOLEAN /\ exporting \in BOOLEAN
    BY DEF PageInit
  <2>3. /\ currentJobId \in JobIds \cup {NoJob} /\ panel \in Shown
        /\ shownBefore \in [Streams -> Shown]
    BY <2>1 DEF PageInit
  <2> QED
    BY <2>2, <2>3 DEF PageRestTypeOK
<1> QED
  BY <1>1, PageStepType, PageTypeParts, PageInvariance, PTL DEF PageSpec

\* Wherever the network cuts the streams, and whatever is clicked while other requests
\* are under way, the page shows the newest event that has arrived of the job asked for
\* last, and no stream that it aborted writes to it.
THEOREM PanelIsNewest == PageSpec => []PanelExact
<1>1. PageInv => PanelExact
  <2> SUFFICES ASSUME PageInv, latest # 0
               PROVE  /\ streamOf[latest] = currentJobId
                      /\ panel = IF Whole(latest) = 0 THEN shownBefore[latest]
                                 ELSE [job |-> currentJobId, version |-> Whole(latest)]
    BY DEF PanelExact
  <2>1. latest \in Streams /\ received[latest] \in 0..9
    BY DEF PageInv, StreamsFollowed
  <2>2. Whole(latest) = VersionBy(received[latest])
    BY <2>1, WholeIsVersion
  <2> QED
    BY <2>2 DEF PageInv, PanelFollows
<1> QED
  BY PageInvariance, <1>1, PTL

=============================================================================
