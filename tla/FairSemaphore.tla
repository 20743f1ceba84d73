---------------------------- MODULE FairSemaphore ----------------------------
(***************************************************************************)
(* What a fair semaphore with a bounded line promises: never more than     *)
(* Permits inside, nobody passes those who wait, whoever leaves lets in    *)
(* the one who has waited longest, and giving up costs the others nothing. *)
(* UploadPermits implements it (UploadPermits!Semaphore) with a counter    *)
(* instead of the set of those who are inside.                             *)
(***************************************************************************)
EXTENDS Naturals, Sequences, FiniteSets

CONSTANTS Guests, Permits, Places

VARIABLES
  inside,   \* those who hold a permit
  line      \* those who wait, the one who came first at the head

Outside(u) == u \notin inside /\ \A i \in 1..Len(line) : line[i] # u

Open == inside = {} /\ line = <<>>

Enter(u) ==
  /\ Outside(u)
  /\ line = <<>>
  /\ Cardinality(inside) < Permits
  /\ inside' = inside \cup {u}
  /\ UNCHANGED line

Join(u) ==
  /\ Outside(u)
  /\ Cardinality(inside) = Permits
  /\ Len(line) < Places
  /\ line' = Append(line, u)
  /\ UNCHANGED inside

\* Whoever gives up leaves the line as it was before and behind him.
GiveUp(i) ==
  /\ line' = SubSeq(line, 1, i - 1) \o SubSeq(line, i + 1, Len(line))
  /\ UNCHANGED inside

LeaveEmpty(u) ==
  /\ u \in inside
  /\ line = <<>>
  /\ inside' = inside \ {u}
  /\ UNCHANGED line

HandOver(u) ==
  /\ u \in inside
  /\ line # <<>>
  /\ inside' = (inside \ {u}) \cup {Head(line)}
  /\ line' = Tail(line)

SemaphoreNext ==
  \/ \E u \in Guests : Enter(u) \/ Join(u) \/ LeaveEmpty(u) \/ HandOver(u)
  \/ \E i \in 1..Len(line) : GiveUp(i)

SemaphoreSpec == Open /\ [][SemaphoreNext]_<<inside, line>>
=============================================================================
