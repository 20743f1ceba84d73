------------------------------- MODULE JobPage -------------------------------
(***************************************************************************)
(* The page that starts an export and follows a job                        *)
(* (client/js/export-report-sse.js): its buttons, its requests in flight,  *)
(* and the events it parses from a fetch stream that the network cuts into *)
(* chunks anywhere.  JavaScript runs a handler to its next await without   *)
(* interruption.                                                           *)
(*                                                                         *)
(* What the page shows of a job is its id and a version, which stands for  *)
(* status, progress and result; the log and the hints are left out.        *)
(***************************************************************************)
EXTENDS Naturals, Sequences

CONSTANTS
  JobIds, NoJob,  \* jobs; none
  MaxStreams      \* bound: subscriptions

ASSUME MaxStreamsAssumption == MaxStreams \in Nat \ {0}

VARIABLES
  signedIn,      \* accessToken # null
  signingIn,     \* the login button is disabled
  exporting,     \* the export button is disabled
  currentJobId,
  panel,         \* what updateJobUI showed last
  latest,        \* the stream of abortController, 0 when there was none
  streamOf,      \* streamOf[s]: the job stream s was started for
  phase,         \* phase[s]: "none", "asking", "open", "over" (ended or aborted)
  received,      \* received[s]: how much of the stream's text has arrived
  buffer,        \* buffer[s]: the parser's
  shownBefore    \* history: shownBefore[s]: the panel when stream s was started

streamVars == <<latest, streamOf, phase, received, buffer, shownBefore>>
pageVars   == <<signedIn, signingIn, exporting, currentJobId, panel, streamVars>>

Streams == 1..MaxStreams

\* What the server writes: the snapshot (version 1), a heartbeat (a comment, here 0), the
\* terminal event (version 2).  Each is a block that an empty line ends: two newlines.
Newline == 10
StreamText == <<1, Newline, Newline, 0, Newline, Newline, 2, Newline, Newline>>

Shown == [job : JobIds \cup {NoJob}, version : 0..2]

PageTypeOK ==
  /\ signedIn \in BOOLEAN /\ signingIn \in BOOLEAN /\ exporting \in BOOLEAN
  /\ currentJobId \in JobIds \cup {NoJob}
  /\ panel \in Shown
  /\ latest \in Streams \cup {0}
  /\ streamOf \in [Streams -> JobIds \cup {NoJob}]
  /\ phase \in [Streams -> {"none", "asking", "open", "over"}]
  /\ received \in [Streams -> 0..Len(StreamText)]
  /\ \A s \in Streams : Len(buffer[s]) <= 2
  /\ shownBefore \in [Streams -> Shown]

NothingShown == [job |-> NoJob, version |-> 0]

PageInit ==
  /\ signedIn = FALSE /\ signingIn = FALSE /\ exporting = FALSE
  /\ currentJobId = NoJob
  /\ panel = NothingShown
  /\ latest = 0
  /\ streamOf = [s \in Streams |-> NoJob]
  /\ phase = [s \in Streams |-> "none"]
  /\ received = [s \in Streams |-> 0]
  /\ buffer = [s \in Streams |-> <<>>]
  /\ shownBefore = [s \in Streams |-> NothingShown]

-----------------------------------------------------------------------------
\* Mutant: the stream before is not aborted.
StartSseBeside(j, shown) ==
  /\ latest < MaxStreams
  /\ latest' = latest + 1
  /\ streamOf' = [streamOf EXCEPT ![latest + 1] = j]
  /\ phase' = [phase EXCEPT ![latest + 1] = "asking"]
  /\ shownBefore' = [shownBefore EXCEPT ![latest + 1] = shown]
  /\ UNCHANGED <<received, buffer>>

\* startSse: abort the stream before, whatever became of it, and ask for a new one with
\* a parser of its own.
StartSse(j, shown) ==
  /\ latest < MaxStreams
  /\ latest' = latest + 1
  /\ streamOf' = [streamOf EXCEPT ![latest + 1] = j]
  /\ phase' = [s \in Streams |-> IF s = latest + 1 THEN "asking"
                                 ELSE IF s = latest THEN "over" ELSE phase[s]]
  /\ shownBefore' = [shownBefore EXCEPT ![latest + 1] = shown]
  /\ UNCHANGED <<received, buffer>>

LoginClicked ==
  /\ ~signingIn
  /\ signingIn' = TRUE
  /\ UNCHANGED <<signedIn, exporting, currentJobId, panel, streamVars>>

\* A login that fails leaves the token of an earlier one.
LoginAnswered(ok) ==
  /\ signingIn
  /\ signingIn' = FALSE
  /\ signedIn' = (signedIn \/ ok)
  /\ UNCHANGED <<exporting, currentJobId, panel, streamVars>>

ExportClicked ==
  /\ signedIn
  /\ ~exporting
  /\ exporting' = TRUE
  /\ UNCHANGED <<signedIn, signingIn, currentJobId, panel, streamVars>>

\* The job was submitted: it is shown and followed at once, also when the user has
\* subscribed to another one meanwhile.
ExportAnswered(j) ==
  /\ exporting
  /\ exporting' = FALSE
  /\ currentJobId' = j
  /\ panel' = [job |-> j, version |-> 0]
  /\ StartSse(j, panel')
  /\ UNCHANGED <<signedIn, signingIn>>

ExportFails ==
  /\ exporting
  /\ exporting' = FALSE
  /\ UNCHANGED <<signedIn, signingIn, currentJobId, panel, streamVars>>

Subscribe(j) ==
  /\ signedIn
  /\ currentJobId' = j
  /\ StartSse(j, panel)
  /\ UNCHANGED <<signedIn, signingIn, exporting, panel>>

-----------------------------------------------------------------------------
pageFrame == <<signedIn, signingIn, exporting, currentJobId, latest, streamOf, shownBefore>>

Response(s, ok) ==
  /\ phase[s] = "asking"
  /\ phase' = [phase EXCEPT ![s] = IF ok THEN "open" ELSE "over"]
  /\ UNCHANGED <<panel, received, buffer, pageFrame>>

Last(S) == CHOOSE i \in S : \A j \in S : j <= i

\* split('\n\n'): the last place where a block ends, and what is before and behind it.
LastEnd(text) ==
  LET ends == {i \in 2..Len(text) : text[i] = Newline /\ text[i - 1] = Newline}
  IN IF ends = {} THEN 0 ELSE Last(ends)

\* Where the whole blocks have an event; a comment has no fields and is skipped.
Events(text) == {i \in 1..LastEnd(text) : text[i] \notin {Newline, 0}}

\* reader.read() and feed, for a chunk of n.  The events are shown one after the other.
Chunk(s, n) ==
  LET arrived == received[s] + n
      text    == buffer[s] \o SubSeq(StreamText, received[s] + 1, arrived)
  IN
  /\ phase[s] = "open"
  /\ arrived <= Len(StreamText)
  /\ received' = [received EXCEPT ![s] = arrived]
  /\ buffer' = [buffer EXCEPT ![s] = SubSeq(text, LastEnd(text) + 1, Len(text))]
  /\ panel' = IF Events(text) = {} THEN panel
              ELSE [job |-> streamOf[s], version |-> text[Last(Events(text))]]
  /\ UNCHANGED <<phase, pageFrame>>

\* The stream is done or broken: the page stays as it is and does not ask again.
StreamOver(s) ==
  /\ phase[s] = "open"
  /\ phase' = [phase EXCEPT ![s] = "over"]
  /\ UNCHANGED <<panel, received, buffer, pageFrame>>

PageNext ==
  \/ LoginClicked \/ ExportClicked \/ ExportFails
  \/ \E ok \in BOOLEAN : LoginAnswered(ok)
  \/ \E j \in JobIds : ExportAnswered(j) \/ Subscribe(j)
  \/ \E s \in Streams :
       \/ \E ok \in BOOLEAN : Response(s, ok)
       \/ \E n \in 1..Len(StreamText) : Chunk(s, n)
       \/ StreamOver(s)

PageSpec == PageInit /\ [][PageNext]_pageVars

-----------------------------------------------------------------------------
\* The newest version whose block has arrived to its last character.
Whole(s) ==
  LET whole == {i \in 1..Len(StreamText) : StreamText[i] # Newline /\ i + 2 <= received[s]}
  IN IF whole = {} THEN 0 ELSE StreamText[CHOOSE i \in whole : \A j \in whole :
                                            StreamText[j] <= StreamText[i]]

\* However the streams are cut, and whatever is clicked while other requests are under
\* way, the page shows the newest event that has arrived of the job that was asked for
\* last, or what it showed before as long as none has; no other stream writes to it.
PanelExact ==
  latest # 0 =>
    /\ streamOf[latest] = currentJobId
    /\ panel = IF Whole(latest) = 0 THEN shownBefore[latest]
               ELSE [job |-> currentJobId, version |-> Whole(latest)]
=============================================================================
