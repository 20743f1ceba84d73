----------------------------- MODULE TextHistory -----------------------------
(***************************************************************************)
(* What the history of a document promises: it is created once, every save *)
(* adds what the document says from then on behind the history, which is   *)
(* otherwise never written, and the removal ends both.  PostRevisions      *)
(* implements it (PostRevisions!Texting) while several editors' saves      *)
(* conflict, are tried again and are rolled back.                          *)
(***************************************************************************)
EXTENDS Sequences

CONSTANTS Says, Silent   \* the texts; no text

VARIABLES
  says,      \* the text of the document, Silent when there is none
  history,   \* what each save made of it, the oldest first
  created    \* there has been a document

Blank == says = Silent /\ history = <<>> /\ created = FALSE

Creation ==
  /\ ~created
  /\ says' \in Says
  /\ created' = TRUE
  /\ UNCHANGED history

Save ==
  /\ says # Silent
  /\ says' \in Says
  /\ history' = Append(history, says')
  /\ UNCHANGED created

Removal ==
  /\ says # Silent
  /\ says' = Silent
  /\ history' = <<>>
  /\ UNCHANGED created

HistoryNext == Creation \/ Save \/ Removal

HistorySpec == Blank /\ [][HistoryNext]_<<says, history, created>>
=============================================================================
