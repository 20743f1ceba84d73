---------------------------- MODULE JobSseProofs ----------------------------
(***************************************************************************)
(* What holds of the clients that follow a job, for any number of          *)
(* connections, limits, writes, milliseconds and losses: TypesHold,        *)
(* EverySlotIsFreed, NobodyGoesBack and QuietMeansUpToDate.                *)
(*                                                                         *)
(* The invariant, SseInv at the end, says that all versions anybody has    *)
(* are points of one history (Chain), that they travel in its order but    *)
(* for one last progress behind the job's end (Order), and that what a     *)
(* client has yet to see is in its buffer or on its way (Arrives,          *)
(* EndArrives).                                                            *)
(***************************************************************************)
EXTENDS JobSse, FiniteSetTheorems, SequenceTheorems, TLAPS

-----------------------------------------------------------------------------
(***************************************************************************)
(* What the operators of the model do                                      *)
(***************************************************************************)
LEMMA RowFields ==
  \A x \in Row : /\ x.ver \in 0..MaxVersions /\ x.ver \in Nat
                 /\ x.at \in 0..MaxClock /\ x.at \in Nat
                 /\ x.terminal \in BOOLEAN
BY BoundsAssumption DEF Row

LEMMA FunctionIsSeq ==
  ASSUME NEW S, NEW m \in Nat, NEW f \in [1..m -> S]
  PROVE  f \in Seq(S) /\ Len(f) = m
<1>1. f \in Seq(S)
  OBVIOUS
<1>2. DOMAIN f = 1..m
  OBVIOUS
<1> QED
  BY <1>1, <1>2, LenProperties

\* The buffer with an event more: all of it or all but its first, and the event behind.
LEMMA Buffered ==
  ASSUME NEW s \in Seq(Row), Len(s) <= MaxPending, NEW e \in Row
  PROVE  /\ Buffer(s, e) \in Seq(Row)
         /\ Len(Buffer(s, e)) <= MaxPending
         /\ \E k \in {0, 1} :
              /\ k = 1 => Len(s) >= 2
              /\ Len(Buffer(s, e)) = Len(s) - k + 1
              /\ Buffer(s, e)[Len(Buffer(s, e))] = e
              /\ \A i \in 1..(Len(s) - k) : Buffer(s, e)[i] = s[i + k]
<1>1. MaxPending \in Nat /\ MaxPending >= 2 /\ Len(s) \in Nat
  BY LimitsAssumption, LenProperties
<1>2. CASE Len(s) >= MaxPending
  <2>1. Buffer(s, e) = Append(Tail(s), e)
    BY <1>2 DEF Buffer
  <2>2. s # <<>>
    BY <1>1, <1>2, EmptySeq
  <2>3. /\ Tail(s) \in Seq(Row) /\ Len(Tail(s)) = Len(s) - 1
        /\ \A i \in 1..Len(Tail(s)) : Tail(s)[i] = s[i + 1]
    BY <2>2, HeadTailProperties
  <2>4. /\ Append(Tail(s), e) \in Seq(Row) /\ Len(Append(Tail(s), e)) = Len(Tail(s)) + 1
        /\ \A i \in 1..Len(Tail(s)) : Append(Tail(s), e)[i] = Tail(s)[i]
        /\ Append(Tail(s), e)[Len(Tail(s)) + 1] = e
    BY <2>3, AppendProperties
  <2> DEFINE b == Buffer(s, e)
  <2>5. /\ b \in Seq(Row) /\ Len(b) = Len(s) - 1 + 1 /\ b[Len(b)] = e
        /\ \A i \in 1..(Len(s) - 1) : b[i] = s[i + 1]
    BY <1>1, <2>1, <2>3, <2>4
  <2> HIDE DEF b
  <2> QED
    BY <1>1, <1>2, <2>5 DEF b
<1>3. CASE ~(Len(s) >= MaxPending)
  <2>1. Buffer(s, e) = Append(s, e)
    BY <1>3 DEF Buffer
  <2>2. /\ Append(s, e) \in Seq(Row) /\ Len(Append(s, e)) = Len(s) + 1
        /\ \A i \in 1..Len(s) : Append(s, e)[i] = s[i]
        /\ Append(s, e)[Len(s) + 1] = e
    BY AppendProperties
  <2> DEFINE b == Buffer(s, e)
  <2>3. /\ b \in Seq(Row) /\ Len(b) = Len(s) - 0 + 1 /\ b[Len(b)] = e
        /\ \A i \in 1..(Len(s) - 0) : b[i] = s[i + 0]
    BY <1>1, <2>1, <2>2
  <2> HIDE DEF b
  <2> QED
    BY <1>1, <1>3, <2>3 DEF b
<1> QED
  BY <1>2, <1>3

\* A client is sent the event's version behind the others.
LEMMA Sent ==
  ASSUME NEW f \in Seq(0..MaxVersions), NEW e \in Row
  PROVE  /\ Append(f, e.ver) \in Seq(0..MaxVersions)
         /\ Len(Append(f, e.ver)) = Len(f) + 1
         /\ \A i \in 1..Len(f) : Append(f, e.ver)[i] = f[i]
         /\ Append(f, e.ver)[Len(f) + 1] = e.ver
BY RowFields, AppendProperties

-----------------------------------------------------------------------------
(***************************************************************************)
(* Types, and the shape of a state                                         *)
(***************************************************************************)

\* A writer has a copy exactly between its re-read and its publication; only a
\* connection that loads has a buffer and a snapshot; a version is not from the future.
Shape ==
  /\ row.at <= clock
  /\ \A w \in Writers : wpc[w] = "read" <=> wcopy[w] # NoRow
  /\ ~redis => chan = <<>>
  /\ \A c \in Conns : conn[c] # "loading" => pending[c] = <<>> /\ snap[c] = NoRow

OpenConns == {c \in Conns : Open(c)}

\* What a dispatch does to each connection.
LEMMA Dispatched ==
  ASSUME TypeOK, Shape, NEW e \in Row, Dispatch(e)
  PROVE  /\ pending' \in [Conns -> Seq(Row)] /\ \A c \in Conns : Len(pending'[c]) <= MaxPending
         /\ frames' \in [Conns -> Seq(0..MaxVersions)]
         /\ conn' \in [Conns -> {"closed", "refused", "loading", "streaming"}]
         /\ snap' = snap
         /\ slots' = slots - Cardinality({c \in Conns : conn[c] = "streaming" /\ e.terminal})
         /\ \A c \in Conns :
              /\ conn'[c] = IF conn[c] = "streaming" /\ e.terminal THEN "closed" ELSE conn[c]
              /\ conn[c] # "loading" => pending'[c] = pending[c]
              /\ conn[c] = "loading" =>
                   \E k \in {0, 1} :
                     /\ k = 1 => Len(pending[c]) >= 2
                     /\ Len(pending'[c]) = Len(pending[c]) - k + 1
                     /\ pending'[c][Len(pending'[c])] = e
                     /\ \A i \in 1..(Len(pending[c]) - k) : pending'[c][i] = pending[c][i + k]
              /\ conn[c] # "streaming" => frames'[c] = frames[c]
              /\ conn[c] = "streaming" =>
                   /\ Len(frames'[c]) = Len(frames[c]) + 1
                   /\ \A i \in 1..Len(frames[c]) : frames'[c][i] = frames[c][i]
                   /\ frames'[c][Len(frames[c]) + 1] = e.ver
<1>0. e.terminal \in BOOLEAN
  BY RowFields
<1>1. /\ pending' = [c \in Conns |->
                       IF conn[c] = "loading" THEN Buffer(pending[c], e) ELSE pending[c]]
      /\ frames' = [c \in Conns |->
                      IF conn[c] = "streaming" THEN Append(frames[c], e.ver) ELSE frames[c]]
  BY DEF Dispatch
<1>2. {c \in Conns : conn[c] = "streaming" /\ e.terminal} =
        IF e.terminal THEN {c \in Conns : conn[c] = "streaming"} ELSE {}
  BY <1>0
<1>3. /\ conn' = [c \in Conns |->
                    IF conn[c] = "streaming" /\ e.terminal THEN "closed" ELSE conn[c]]
      /\ snap' = [c \in Conns |->
                    IF conn[c] = "streaming" /\ e.terminal THEN NoRow ELSE snap[c]]
      /\ slots' = slots - Cardinality({c \in Conns : conn[c] = "streaming" /\ e.terminal})
  BY <1>2 DEF Dispatch, Teardown
<1>4. snap' = snap
  BY <1>3 DEF TypeOK, Shape
<1>5. conn' \in [Conns -> {"closed", "refused", "loading", "streaming"}]
  BY <1>3 DEF TypeOK
<1>6. ASSUME NEW c \in Conns, conn[c] = "loading"
      PROVE  /\ pending'[c] \in Seq(Row) /\ Len(pending'[c]) <= MaxPending
             /\ \E k \in {0, 1} :
                  /\ k = 1 => Len(pending[c]) >= 2
                  /\ Len(pending'[c]) = Len(pending[c]) - k + 1
                  /\ pending'[c][Len(pending'[c])] = e
                  /\ \A i \in 1..(Len(pending[c]) - k) : pending'[c][i] = pending[c][i + k]
  <2>1. pending'[c] = Buffer(pending[c], e)
    BY <1>1, <1>6
  <2>2. pending[c] \in Seq(Row) /\ Len(pending[c]) <= MaxPending
    BY DEF TypeOK
  <2> DEFINE b == Buffer(pending[c], e)
  <2>3. /\ b \in Seq(Row) /\ Len(b) <= MaxPending
        /\ \E k \in {0, 1} :
             /\ k = 1 => Len(pending[c]) >= 2
             /\ Len(b) = Len(pending[c]) - k + 1
             /\ b[Len(b)] = e
             /\ \A i \in 1..(Len(pending[c]) - k) : b[i] = pending[c][i + k]
    BY <2>2, Buffered
  <2> QED
    BY ONLY <2>1, <2>3
<1>7. ASSUME NEW c \in Conns, conn[c] = "streaming"
      PROVE  /\ frames'[c] \in Seq(0..MaxVersions)
             /\ Len(frames'[c]) = Len(frames[c]) + 1
             /\ \A i \in 1..Len(frames[c]) : frames'[c][i] = frames[c][i]
             /\ frames'[c][Len(frames[c]) + 1] = e.ver
  <2>1. frames'[c] = Append(frames[c], e.ver)
    BY <1>1, <1>7
  <2>2. frames[c] \in Seq(0..MaxVersions)
    BY DEF TypeOK
  <2> QED
    BY <2>1, <2>2, Sent
<1>8. ASSUME NEW c \in Conns, conn[c] # "loading" PROVE pending'[c] = pending[c]
  BY <1>1, <1>8
<1>9. ASSUME NEW c \in Conns, conn[c] # "streaming" PROVE frames'[c] = frames[c]
  BY <1>1, <1>9
<1>10. pending' \in [Conns -> Seq(Row)] /\ \A c \in Conns : Len(pending'[c]) <= MaxPending
  <2>1. \A c \in Conns : pending'[c] \in Seq(Row) /\ Len(pending'[c]) <= MaxPending
    BY <1>6, <1>8 DEF TypeOK
  <2>2. pending' = [c \in Conns |-> pending'[c]]
    BY <1>1
  <2> QED
    BY <2>1, <2>2
<1>11. frames' \in [Conns -> Seq(0..MaxVersions)]
  <2>1. \A c \in Conns : frames'[c] \in Seq(0..MaxVersions)
    BY <1>7, <1>9 DEF TypeOK
  <2>2. frames' = [c \in Conns |-> frames'[c]]
    BY <1>1
  <2> QED
    BY <2>1, <2>2
<1>12. \A c \in Conns :
         conn'[c] = IF conn[c] = "streaming" /\ e.terminal THEN "closed" ELSE conn[c]
  BY <1>3
<1> QED
  BY <1>3, <1>4, <1>5, <1>6, <1>7, <1>8, <1>9, <1>10, <1>11, <1>12

\* What going live does to the connection: it is sent the snapshot, and then m of its
\* buffered events, the positions q.
LEMMA WentLive ==
  ASSUME TypeOK, NEW c \in Conns, GoLive(c)
  PROVE  \E n \in 0..Len(pending[c]) : \E m \in 0..n : \E q \in [1..m -> 1..n] :
           /\ \A i, j \in 1..m : i < j => q[i] < q[j]
           /\ IF snap[c].terminal THEN m = 0 ELSE Replays(pending[c], snap[c], n, q)
           /\ frames'[c] \in Seq(0..MaxVersions)
           /\ Len(frames'[c]) = m + 1
           /\ frames'[c][1] = snap[c].ver
           /\ \A i \in 1..m : frames'[c][i + 1] = pending[c][q[i]].ver
           /\ LET ended == snap[c].terminal \/ \E i \in 1..m : pending[c][q[i]].terminal
              IN  IF ended
                    THEN Teardown({c})
                    ELSE /\ conn' = [conn EXCEPT ![c] = "streaming"]
                         /\ snap' = [snap EXCEPT ![c] = NoRow]
                         /\ UNCHANGED slots
<1>1. /\ snap[c] \in Row /\ snap[c].ver \in 0..MaxVersions
      /\ pending[c] \in Seq(Row) /\ Len(pending[c]) \in Nat
      /\ \A i \in 1..Len(pending[c]) : pending[c][i] \in Row /\ pending[c][i].ver \in 0..MaxVersions
  BY RowFields, LenProperties, ElementOfSeq DEF TypeOK, GoLive
<1>a. PICK n \in 0..Len(pending[c]) : \E q \in Picks(n) :
        /\ IF snap[c].terminal THEN n = 0 ELSE Replays(pending[c], snap[c], n, q)
        /\ frames' = [frames EXCEPT ![c] =
                        <<snap[c].ver>> \o Versions([i \in DOMAIN q |-> pending[c][q[i]]])]
        /\ IF \/ snap[c].terminal
              \/ \E i \in DOMAIN q : [j \in DOMAIN q |-> pending[c][q[j]]][i].terminal
             THEN Teardown({c})
             ELSE /\ conn' = [conn EXCEPT ![c] = "streaming"]
                  /\ snap' = [snap EXCEPT ![c] = NoRow]
                  /\ UNCHANGED slots
  BY DEF GoLive
<1>2. PICK q \in Picks(n) :
        /\ IF snap[c].terminal THEN n = 0 ELSE Replays(pending[c], snap[c], n, q)
        /\ frames' = [frames EXCEPT ![c] =
                        <<snap[c].ver>> \o Versions([i \in DOMAIN q |-> pending[c][q[i]]])]
        /\ IF \/ snap[c].terminal
              \/ \E i \in DOMAIN q : [j \in DOMAIN q |-> pending[c][q[j]]][i].terminal
             THEN Teardown({c})
             ELSE /\ conn' = [conn EXCEPT ![c] = "streaming"]
                  /\ snap' = [snap EXCEPT ![c] = NoRow]
                  /\ UNCHANGED slots
  BY <1>a
<1>3. PICK m \in 0..n : q \in [1..m -> 1..n]
  BY DEF Picks
<1>4. \A i, j \in 1..m : i < j => q[i] < q[j]
  BY <1>3 DEF Picks
<1>5. \A i \in 1..m : q[i] \in 1..n /\ q[i] \in 1..Len(pending[c])
  BY <1>1, <1>3
<1> DEFINE sent == [i \in 1..m |-> pending[c][q[i]].ver]
<1>6. Versions([i \in DOMAIN q |-> pending[c][q[i]]]) = sent
  BY <1>3 DEF Versions
<1>7. sent \in Seq(0..MaxVersions) /\ Len(sent) = m
  <2>1. \A i \in 1..m : pending[c][q[i]].ver \in 0..MaxVersions
    BY <1>1, <1>5
  <2>2. m \in Nat
    BY <1>1
  <2>3. sent \in [1..m -> 0..MaxVersions]
    BY <2>1
  <2> QED
    BY <2>2, <2>3, FunctionIsSeq
<1>8. <<snap[c].ver>> \in Seq(0..MaxVersions) /\ Len(<<snap[c].ver>>) = 1
  BY <1>1
<1> HIDE DEF sent
<1> DEFINE shown == <<snap[c].ver>> \o sent
<1>9. /\ shown \in Seq(0..MaxVersions) /\ Len(shown) = 1 + m
      /\ \A i \in 1..(1 + m) :
           shown[i] = IF i <= 1 THEN <<snap[c].ver>>[i] ELSE sent[i - 1]
  BY <1>7, <1>8, ConcatProperties
<1> HIDE DEF shown
<1>10. /\ shown[1] = snap[c].ver
       /\ \A i \in 1..m : shown[i + 1] = pending[c][q[i]].ver
  <2>1. shown[1] = snap[c].ver
    BY <1>9
  <2>2. ASSUME NEW i \in 1..m PROVE shown[i + 1] = pending[c][q[i]].ver
    <3>1. i + 1 \in 1..(1 + m) /\ ~(i + 1 <= 1) /\ (i + 1) - 1 = i
      OBVIOUS
    <3>2. shown[i + 1] = sent[i]
      BY <1>9, <3>1
    <3> QED
      BY <3>2 DEF sent
  <2> QED
    BY <2>1, <2>2
<1>11. frames'[c] = shown
  BY <1>2, <1>6 DEF TypeOK, shown
<1>12. snap[c].terminal => m = 0
  BY <1>2, <1>3
<1>13. (\E i \in DOMAIN q : [j \in DOMAIN q |-> pending[c][q[j]]][i].terminal)
         <=> \E i \in 1..m : pending[c][q[i]].terminal
  BY <1>3
<1>14. IF snap[c].terminal THEN m = 0 ELSE Replays(pending[c], snap[c], n, q)
  BY <1>2, <1>12
<1>15. LET ended == snap[c].terminal \/ \E i \in 1..m : pending[c][q[i]].terminal
       IN  IF ended
             THEN Teardown({c})
             ELSE /\ conn' = [conn EXCEPT ![c] = "streaming"]
                  /\ snap' = [snap EXCEPT ![c] = NoRow]
                  /\ UNCHANGED slots
  BY <1>2, <1>13
<1>16. /\ frames'[c] \in Seq(0..MaxVersions) /\ Len(frames'[c]) = m + 1
       /\ frames'[c][1] = snap[c].ver
       /\ \A i \in 1..m : frames'[c][i + 1] = pending[c][q[i]].ver
  BY <1>9, <1>10, <1>11
<1> HIDE DEF Replays
<1> QED
  BY <1>3, <1>4, <1>14, <1>15, <1>16, Zenon

\* How the variables of a connection change when it goes live.
LEMMA LiveConns ==
  ASSUME TypeOK, Shape, NEW c \in Conns, GoLive(c)
  PROVE  /\ conn'[c] \in {"closed", "streaming"} /\ \A d \in Conns \ {c} : conn'[d] = conn[d]
         /\ conn' \in [Conns -> {"closed", "refused", "loading", "streaming"}]
         /\ snap'[c] = NoRow /\ \A d \in Conns \ {c} : snap'[d] = snap[d]
         /\ snap' \in [Conns -> Row \cup {NoRow}]
         /\ pending'[c] = <<>> /\ \A d \in Conns \ {c} : pending'[d] = pending[d]
         /\ pending' \in [Conns -> Seq(Row)]
         /\ frames' \in [Conns -> Seq(0..MaxVersions)]
         /\ \A d \in Conns \ {c} : frames'[d] = frames[d]
         /\ slots' = IF conn'[c] = "closed" THEN slots - 1 ELSE slots
<1>1. PICK n \in 0..Len(pending[c]) : \E m \in 0..n : \E q \in [1..m -> 1..n] :
        /\ frames'[c] \in Seq(0..MaxVersions)
        /\ LET ended == snap[c].terminal \/ \E i \in 1..m : pending[c][q[i]].terminal
           IN  IF ended
                 THEN Teardown({c})
                 ELSE /\ conn' = [conn EXCEPT ![c] = "streaming"]
                      /\ snap' = [snap EXCEPT ![c] = NoRow]
                      /\ UNCHANGED slots
  BY WentLive
<1>2. /\ frames'[c] \in Seq(0..MaxVersions)
      /\ \/ Teardown({c})
         \/ /\ conn' = [conn EXCEPT ![c] = "streaming"]
            /\ snap' = [snap EXCEPT ![c] = NoRow]
            /\ UNCHANGED slots
  BY <1>1
<1>3. /\ pending' = [pending EXCEPT ![c] = <<>>]
      /\ \E f : frames' = [frames EXCEPT ![c] = f]
  BY DEF GoLive
<1>4. /\ pending'[c] = <<>> /\ \A d \in Conns \ {c} : pending'[d] = pending[d]
      /\ pending' \in [Conns -> Seq(Row)]
  BY <1>3, EmptySeq DEF TypeOK
<1>5. /\ frames' \in [Conns -> Seq(0..MaxVersions)]
      /\ \A d \in Conns \ {c} : frames'[d] = frames[d]
  BY <1>2, <1>3 DEF TypeOK
<1>6. CASE Teardown({c})
  <2>1. Cardinality({c}) = 1
    BY FS_Singleton
  <2>2. /\ conn' = [d \in Conns |-> IF d \in {c} THEN "closed" ELSE conn[d]]
        /\ snap' = [d \in Conns |-> IF d \in {c} THEN NoRow ELSE snap[d]]
        /\ slots' = slots - 1
    BY <1>6, <2>1 DEF Teardown
  <2> QED
    BY <1>4, <1>5, <2>2 DEF TypeOK
<1>7. CASE /\ conn' = [conn EXCEPT ![c] = "streaming"]
           /\ snap' = [snap EXCEPT ![c] = NoRow]
           /\ UNCHANGED slots
  BY <1>4, <1>5, <1>7 DEF TypeOK
<1> QED
  BY <1>2, <1>6, <1>7

\* Every copy and every event on its way is a row.
LEMMA CopyIsRow ==
  ASSUME TypeOK, Shape
  PROVE  /\ \A w \in Writers : wpc[w] = "read" => wcopy[w] \in Row
         /\ \A i \in 1..Len(chan) : chan[i] \in Row
         /\ Len(chan) \in Nat
         /\ \A c \in Conns : /\ Len(pending[c]) \in Nat
                             /\ \A i \in 1..Len(pending[c]) : pending[c][i] \in Row
<1>1. ASSUME NEW c \in Conns
      PROVE  /\ Len(pending[c]) \in Nat
             /\ \A i \in 1..Len(pending[c]) : pending[c][i] \in Row
  <2>1. pending[c] \in Seq(Row)
    BY DEF TypeOK
  <2> QED
    BY <2>1, LenProperties, ElementOfSeq
<1>2. chan \in Seq(Row)
  BY DEF TypeOK
<1>3. Len(chan) \in Nat /\ \A i \in 1..Len(chan) : chan[i] \in Row
  BY <1>2, LenProperties, ElementOfSeq
<1>4. \A w \in Writers : wpc[w] = "read" => wcopy[w] \in Row
  BY DEF TypeOK, Shape
<1> QED
  BY <1>1, <1>3, <1>4

\* The channel without its head.
LEMMA Received ==
  ASSUME TypeOK, chan # <<>>, chan' = Tail(chan)
  PROVE  /\ Len(chan) >= 1 /\ Head(chan) \in Row /\ Head(chan) = chan[1]
         /\ chan' \in Seq(Row) /\ Len(chan') = Len(chan) - 1
         /\ \A i \in 1..Len(chan') : i + 1 \in 1..Len(chan) /\ chan'[i] = chan[i + 1]
<1>1. chan \in Seq(Row) /\ Len(chan) \in Nat \ {0}
  BY EmptySeq DEF TypeOK
<1>2. /\ Head(chan) \in Row /\ Tail(chan) \in Seq(Row) /\ Len(Tail(chan)) = Len(chan) - 1
      /\ \A i \in 1..Len(Tail(chan)) : Tail(chan)[i] = chan[i + 1]
  BY <1>1, HeadTailProperties
<1> QED
  BY <1>1, <1>2

-----------------------------------------------------------------------------
(***************************************************************************)
(* Slots                                                                   *)
(***************************************************************************)
SlotsInv == IsFiniteSet(OpenConns) /\ SlotsExact

LEMMA SlotsFacts ==
  ASSUME SlotsInv
  PROVE  /\ IsFiniteSet(OpenConns) /\ Cardinality(OpenConns) \in Nat
         /\ slots = Cardinality(OpenConns) /\ slots <= MaxConns /\ MaxConns \in Nat
BY FS_CardinalityType, LimitsAssumption DEF SlotsInv, SlotsExact, OpenConns

LEMMA SlotsFrom ==
  ASSUME IsFiniteSet(OpenConns'), slots' = Cardinality(OpenConns'), slots' <= MaxConns
  PROVE  SlotsInv'
BY DEF SlotsInv, SlotsExact, OpenConns

LEMMA DispatchSlots ==
  ASSUME TypeOK, Shape, SlotsInv, NEW e \in Row, Dispatch(e)
  PROVE  SlotsInv'
<1> DEFINE ended == {c \in Conns : conn[c] = "streaming" /\ e.terminal}
<1>1. slots' = slots - Cardinality(ended)
  BY Dispatched
<1>2. \A c \in Conns :
        conn'[c] = IF conn[c] = "streaming" /\ e.terminal THEN "closed" ELSE conn[c]
  BY Dispatched
<1>3. OpenConns' = OpenConns \ ended /\ ended = OpenConns \cap ended
  BY <1>2 DEF OpenConns, Open
<1> HIDE DEF ended
<1>4. /\ IsFiniteSet(OpenConns \ ended)
      /\ Cardinality(OpenConns \ ended) = Cardinality(OpenConns) - Cardinality(OpenConns \cap ended)
      /\ Cardinality(OpenConns \ ended) <= Cardinality(OpenConns)
      /\ Cardinality(OpenConns \ ended) \in Nat
  <2>1. OpenConns \ ended \in SUBSET OpenConns
    OBVIOUS
  <2> QED
    BY <2>1, SlotsFacts, FS_Difference, FS_Subset, FS_CardinalityType
<1>5. slots' <= MaxConns /\ slots' = Cardinality(OpenConns')
  BY <1>1, <1>3, <1>4, SlotsFacts
<1> QED
  BY <1>3, <1>4, <1>5, SlotsFrom

\* A connection that is no longer open gives one slot back.
LEMMA OneSlotLess ==
  ASSUME SlotsInv, NEW c \in Conns, Open(c), slots' = slots - 1,
         \A d \in Conns \ {c} : Open(d)' = Open(d), ~Open(c)'
  PROVE  SlotsInv'
<1>1. OpenConns' = OpenConns \ {c} /\ c \in OpenConns
  BY DEF OpenConns
<1>2. IsFiniteSet(OpenConns') /\ Cardinality(OpenConns') = Cardinality(OpenConns) - 1
  BY <1>1, SlotsFacts, FS_RemoveElement
<1> QED
  BY <1>2, SlotsFacts, SlotsFrom

LEMMA SameSlots ==
  ASSUME SlotsInv, slots' = slots, \A d \in Conns : Open(d)' = Open(d)
  PROVE  SlotsInv'
<1>1. OpenConns' = OpenConns
  BY DEF OpenConns
<1> QED
  BY <1>1, SlotsFacts, SlotsFrom

LEMMA SlotsStep == TypeOK /\ Shape /\ SlotsInv /\ [Next]_vars => SlotsInv'
<1> SUFFICES ASSUME TypeOK, Shape, SlotsInv, [Next]_vars
             PROVE  SlotsInv'
  OBVIOUS
<1>1. CASE \/ Tick \/ Lose
           \/ \E w \in Writers : UpdateRow(w) \/ UpdateMisses(w) \/ ReadBack(w) \/ ReadBackFails(w)
  BY <1>1, SameSlots DEF Tick, Lose, UpdateRow, UpdateMisses, ReadBack, ReadBackFails, connVars, Open
<1>2. ASSUME NEW w \in Writers, Publish(w) PROVE SlotsInv'
  <2>1. CASE redis
    BY <1>2, <2>1, SameSlots DEF Publish, connVars, Open
  <2>2. CASE ~redis
    <3>1. Dispatch(wcopy[w]) /\ wcopy[w] \in Row
      BY <1>2, <2>2, CopyIsRow DEF Publish
    <3> QED
      BY <3>1, DispatchSlots
  <2> QED
    BY <2>1, <2>2
<1>3. CASE Receive
  BY <1>3, Received, DispatchSlots DEF Receive
<1>4. ASSUME NEW c \in Conns, Connect(c) PROVE SlotsInv'
  <2>1. /\ slots' = slots + 1 /\ slots < MaxConns
        /\ conn[c] = "closed" /\ conn'[c] = "loading"
        /\ \A d \in Conns \ {c} : conn'[d] = conn[d]
    BY <1>4 DEF Connect, TypeOK
  <2>2. OpenConns' = OpenConns \cup {c} /\ c \notin OpenConns
    BY <2>1 DEF OpenConns, Open
  <2>3. IsFiniteSet(OpenConns') /\ Cardinality(OpenConns') = Cardinality(OpenConns) + 1
    BY <2>2, SlotsFacts, FS_AddElement
  <2> QED
    BY <2>1, <2>3, SlotsFacts, SlotsFrom
<1>5. ASSUME NEW c \in Conns, ReadSnapshot(c) PROVE SlotsInv'
  BY <1>5, SameSlots DEF ReadSnapshot, Open
<1>6. ASSUME NEW c \in Conns, GoLive(c) PROVE SlotsInv'
  <2>1. /\ conn'[c] \in {"closed", "streaming"} /\ \A d \in Conns \ {c} : conn'[d] = conn[d]
        /\ slots' = IF conn'[c] = "closed" THEN slots - 1 ELSE slots
    BY <1>6, LiveConns
  <2>2. conn[c] = "loading"
    BY <1>6 DEF GoLive
  <2>3. Open(c) /\ \A d \in Conns \ {c} : Open(d)' = Open(d)
    BY <2>1, <2>2 DEF Open
  <2>4. CASE conn'[c] = "closed"
    BY <2>1, <2>3, <2>4, OneSlotLess DEF Open
  <2>5. CASE conn'[c] = "streaming"
    BY <2>1, <2>3, <2>5, SameSlots DEF Open
  <2> QED
    BY <2>1, <2>4, <2>5
<1>7. ASSUME NEW c \in Conns, Refuse(c) PROVE SlotsInv'
  <2>1. /\ slots' = slots - 1 /\ conn[c] = "loading" /\ conn'[c] = "refused"
        /\ \A d \in Conns \ {c} : conn'[d] = conn[d]
    BY <1>7 DEF Refuse, TypeOK
  <2> QED
    BY <2>1, OneSlotLess DEF Open
<1>8. ASSUME NEW c \in Conns, Abort(c) PROVE SlotsInv'
  <2>1. Cardinality({c}) = 1
    BY FS_Singleton
  <2>2. /\ slots' = slots - 1 /\ Open(c) /\ conn'[c] = "closed"
        /\ \A d \in Conns \ {c} : conn'[d] = conn[d]
    BY <1>8, <2>1 DEF Abort, Teardown
  <2> QED
    BY <2>2, OneSlotLess DEF Open
<1>9. ASSUME NEW c \in Conns, GiveUp(c) PROVE SlotsInv'
  <2>1. /\ slots' = slots /\ conn[c] = "refused" /\ conn'[c] = "closed"
        /\ \A d \in Conns \ {c} : conn'[d] = conn[d]
    BY <1>9 DEF GiveUp, TypeOK
  <2> QED
    BY <2>1, SameSlots DEF Open
<1>10. CASE UNCHANGED vars
  BY <1>10, SameSlots DEF vars, connVars, Open
<1> QED
  BY <1>1, <1>2, <1>3, <1>4, <1>5, <1>6, <1>7, <1>8, <1>9, <1>10 DEF Next

-----------------------------------------------------------------------------
(***************************************************************************)
(* The types and the shape are kept                                        *)
(***************************************************************************)
LEMMA TypeStep == TypeOK /\ Shape /\ SlotsInv /\ [Next]_vars => TypeOK' /\ Shape'
<1> SUFFICES ASSUME TypeOK, Shape, SlotsInv, [Next]_vars
             PROVE  TypeOK' /\ Shape'
  OBVIOUS
<1>s. slots' \in Nat
  BY SlotsStep, FS_CardinalityType DEF SlotsInv, SlotsExact, OpenConns
<1>r. row \in Row /\ clock \in Nat /\ row.at \in Nat /\ row.at <= clock /\ MaxClock \in Nat
      /\ MaxLosses \in Nat /\ lost \in 0..MaxLosses /\ MaxVersions \in Nat
  BY RowFields, BoundsAssumption DEF TypeOK, Shape
<1>1. CASE Tick
  <2>1. clock' \in 0..MaxClock /\ row.at <= clock'
    BY <1>1, <1>r DEF Tick, TypeOK
  <2> QED
    BY <1>1, <2>1 DEF Tick, TypeOK, Shape, pubVars, connVars
<1>2. ASSUME NEW w \in Writers, UpdateRow(w) PROVE TypeOK' /\ Shape'
  <2>1. PICK terminal \in BOOLEAN :
          row' = [ver |-> row.ver + 1, at |-> clock, terminal |-> terminal]
    BY <1>2 DEF UpdateRow
  <2>2. row.ver + 1 \in 0..MaxVersions /\ clock \in 0..MaxClock
    BY <1>2, <1>r, RowFields DEF UpdateRow, TypeOK
  <2>3. row' \in Row /\ row'.at = clock
    BY <2>1, <2>2 DEF Row
  <2>4. tie' \in BOOLEAN
    BY <1>2 DEF UpdateRow
  <2>5. wpc' \in [Writers -> {"ready", "written", "read"}]
    BY <1>2 DEF UpdateRow, TypeOK
  <2>6. \A v \in Writers : wpc'[v] = "read" <=> wcopy'[v] # NoRow
    BY <1>2 DEF UpdateRow, TypeOK, Shape
  <2>7. TypeOK'
    BY <1>2, <2>3, <2>4, <2>5 DEF UpdateRow, TypeOK, connVars
  <2> QED
    BY <1>2, <1>r, <2>3, <2>6, <2>7 DEF UpdateRow, Shape, connVars
<1>3. ASSUME NEW w \in Writers, ReadBack(w) PROVE TypeOK' /\ Shape'
  <2>1. /\ wpc' \in [Writers -> {"ready", "written", "read"}]
        /\ wcopy' \in [Writers -> Row \cup {NoRow}]
    BY <1>3, <1>r DEF ReadBack, TypeOK
  <2>2. \A v \in Writers : wpc'[v] = "read" <=> wcopy'[v] # NoRow
    BY <1>3, <1>r, NoRowAssumption DEF ReadBack, TypeOK, Shape
  <2> QED
    BY <1>3, <2>1, <2>2 DEF ReadBack, TypeOK, Shape, rowVars, connVars
<1>4. ASSUME NEW w \in Writers, ReadBackFails(w) PROVE TypeOK' /\ Shape'
  <2>1. lost' \in 0..MaxLosses /\ wpc' \in [Writers -> {"ready", "written", "read"}]
    BY <1>4, <1>r DEF ReadBackFails, TypeOK
  <2>2. \A v \in Writers : wpc'[v] = "read" <=> wcopy'[v] # NoRow
    BY <1>4 DEF ReadBackFails, TypeOK, Shape
  <2> QED
    BY <1>4, <2>1, <2>2 DEF ReadBackFails, TypeOK, Shape, rowVars, connVars
<1>5. ASSUME NEW w \in Writers, Publish(w) PROVE TypeOK' /\ Shape'
  <2>1. /\ wpc' \in [Writers -> {"ready", "written", "read"}]
        /\ wcopy' \in [Writers -> Row \cup {NoRow}]
    BY <1>5 DEF Publish, TypeOK
  <2>2. \A v \in Writers : wpc'[v] = "read" <=> wcopy'[v] # NoRow
    BY <1>5 DEF Publish, TypeOK, Shape
  <2>3. wcopy[w] \in Row
    BY <1>5, CopyIsRow DEF Publish
  <2>4. CASE redis
    <3>1. chan' \in Seq(Row)
      <4>1. chan' = Append(chan, wcopy[w]) /\ chan \in Seq(Row)
        BY <1>5, <2>4 DEF Publish, TypeOK
      <4> QED
        BY <2>3, <4>1, AppendProperties
    <3> QED
      BY <1>5, <2>1, <2>2, <2>4, <3>1 DEF Publish, TypeOK, Shape, rowVars, connVars
  <2>5. CASE ~redis
    <3>1. Dispatch(wcopy[w]) /\ UNCHANGED chan
      BY <1>5, <2>5 DEF Publish
    <3>2. /\ pending' \in [Conns -> Seq(Row)] /\ \A c \in Conns : Len(pending'[c]) <= MaxPending
          /\ frames' \in [Conns -> Seq(0..MaxVersions)]
          /\ conn' \in [Conns -> {"closed", "refused", "loading", "streaming"}]
          /\ snap' = snap
          /\ \A c \in Conns : /\ conn'[c] = "loading" <=> conn[c] = "loading"
                              /\ conn[c] # "loading" => pending'[c] = pending[c]
      BY <2>3, <3>1, Dispatched
    <3>3. TypeOK'
      BY <1>5, <1>s, <2>1, <3>1, <3>2 DEF Publish, TypeOK, rowVars
    <3> QED
      BY <1>5, <2>2, <2>5, <3>1, <3>2, <3>3 DEF Publish, Shape, rowVars
  <2> QED
    BY <2>4, <2>5
<1>6. CASE Receive
  <2>1. /\ Dispatch(Head(chan)) /\ Head(chan) \in Row /\ chan' \in Seq(Row)
        /\ UNCHANGED <<redis, rowVars, pubVars, lost>> /\ redis
    BY <1>6, Received DEF Receive, Shape, TypeOK
  <2>2. /\ pending' \in [Conns -> Seq(Row)] /\ \A c \in Conns : Len(pending'[c]) <= MaxPending
        /\ frames' \in [Conns -> Seq(0..MaxVersions)]
        /\ conn' \in [Conns -> {"closed", "refused", "loading", "streaming"}]
        /\ snap' = snap
        /\ \A c \in Conns : /\ conn'[c] = "loading" <=> conn[c] = "loading"
                            /\ conn[c] # "loading" => pending'[c] = pending[c]
    BY <2>1, Dispatched
  <2>3. TypeOK'
    BY <1>s, <2>1, <2>2 DEF TypeOK, rowVars, pubVars
  <2> QED
    BY <2>1, <2>2, <2>3 DEF Shape, rowVars, pubVars
<1>7. CASE Lose
  <2>1. chan' \in Seq(Row) /\ lost' \in 0..MaxLosses /\ redis
    BY <1>7, <1>r, Received DEF Lose, Shape, TypeOK
  <2> QED
    BY <1>7, <2>1 DEF Lose, TypeOK, Shape, rowVars, pubVars, connVars
<1>8. ASSUME NEW c \in Conns, Connect(c) PROVE TypeOK' /\ Shape'
  <2>1. /\ conn' \in [Conns -> {"closed", "refused", "loading", "streaming"}]
        /\ snap' \in [Conns -> Row \cup {NoRow}]
        /\ pending' \in [Conns -> Seq(Row)]
        /\ frames' \in [Conns -> Seq(0..MaxVersions)]
    BY <1>8, EmptySeq DEF Connect, TypeOK
  <2>2. \A d \in Conns : Len(pending'[d]) <= MaxPending
    BY <1>8, LimitsAssumption, EmptySeq DEF Connect, TypeOK
  <2>3. \A d \in Conns : conn'[d] # "loading" => pending'[d] = <<>> /\ snap'[d] = NoRow
    BY <1>8 DEF Connect, TypeOK, Shape
  <2>4. TypeOK'
    BY <1>8, <1>s, <2>1, <2>2 DEF Connect, TypeOK, connFrame, rowVars, pubVars
  <2> QED
    BY <1>8, <2>3, <2>4 DEF Connect, Shape, connFrame, rowVars, pubVars
<1>9. ASSUME NEW c \in Conns, ReadSnapshot(c) PROVE TypeOK' /\ Shape'
  <2>1. snap' \in [Conns -> Row \cup {NoRow}]
    BY <1>9, <1>r DEF ReadSnapshot, TypeOK
  <2>2. \A d \in Conns : conn'[d] # "loading" => pending'[d] = <<>> /\ snap'[d] = NoRow
    BY <1>9 DEF ReadSnapshot, TypeOK, Shape
  <2> QED
    BY <1>9, <2>1, <2>2 DEF ReadSnapshot, TypeOK, Shape, connFrame, rowVars, pubVars
<1>10. ASSUME NEW c \in Conns, GoLive(c) PROVE TypeOK' /\ Shape'
  <2>1. UNCHANGED connFrame
    BY <1>10 DEF GoLive
  <2>2. /\ conn' \in [Conns -> {"closed", "refused", "loading", "streaming"}]
        /\ snap' \in [Conns -> Row \cup {NoRow}]
        /\ pending' \in [Conns -> Seq(Row)]
        /\ frames' \in [Conns -> Seq(0..MaxVersions)]
    BY <1>10, LiveConns
  <2>3. /\ pending'[c] = <<>> /\ \A d \in Conns \ {c} : pending'[d] = pending[d]
        /\ snap'[c] = NoRow /\ \A d \in Conns \ {c} : snap'[d] = snap[d]
        /\ \A d \in Conns \ {c} : conn'[d] = conn[d]
    BY <1>10, LiveConns
  <2>4. ASSUME NEW d \in Conns PROVE Len(pending'[d]) <= MaxPending
    <3>1. CASE d = c
      BY <2>3, <3>1, LimitsAssumption, EmptySeq
    <3>2. CASE d # c
      BY <2>3, <3>2 DEF TypeOK
    <3> QED
      BY <3>1, <3>2
  <2>5. TypeOK'
    BY <1>s, <2>1, <2>2, <2>4 DEF TypeOK, connFrame, rowVars, pubVars
  <2> QED
    BY <2>1, <2>3, <2>5 DEF Shape, connFrame, rowVars, pubVars
<1>11. ASSUME NEW c \in Conns, Refuse(c) PROVE TypeOK' /\ Shape'
  <2>1. /\ conn' \in [Conns -> {"closed", "refused", "loading", "streaming"}]
        /\ pending' \in [Conns -> Seq(Row)]
    BY <1>11, EmptySeq DEF Refuse, TypeOK
  <2>2. \A d \in Conns : Len(pending'[d]) <= MaxPending
    BY <1>11, LimitsAssumption, EmptySeq DEF Refuse, TypeOK
  <2>3. \A d \in Conns : conn'[d] # "loading" => pending'[d] = <<>> /\ snap'[d] = NoRow
    BY <1>11 DEF Refuse, TypeOK, Shape
  <2>4. TypeOK'
    BY <1>11, <1>s, <2>1, <2>2 DEF Refuse, TypeOK, connFrame, rowVars, pubVars
  <2> QED
    BY <1>11, <2>3, <2>4 DEF Refuse, Shape, connFrame, rowVars, pubVars
<1>12. ASSUME NEW c \in Conns, Abort(c) PROVE TypeOK' /\ Shape'
  <2>1. /\ conn' = [d \in Conns |-> IF d \in {c} THEN "closed" ELSE conn[d]]
        /\ snap' = [d \in Conns |-> IF d \in {c} THEN NoRow ELSE snap[d]]
        /\ pending' = [pending EXCEPT ![c] = <<>>]
        /\ frames' = [frames EXCEPT ![c] = <<>>]
    BY <1>12 DEF Abort, Teardown
  <2>2. /\ conn' \in [Conns -> {"closed", "refused", "loading", "streaming"}]
        /\ snap' \in [Conns -> Row \cup {NoRow}]
        /\ pending' \in [Conns -> Seq(Row)]
        /\ frames' \in [Conns -> Seq(0..MaxVersions)]
    BY <2>1, EmptySeq DEF TypeOK
  <2>3. \A d \in Conns : Len(pending'[d]) <= MaxPending
    BY <2>1, LimitsAssumption, EmptySeq DEF TypeOK
  <2>4. \A d \in Conns : conn'[d] # "loading" => pending'[d] = <<>> /\ snap'[d] = NoRow
    BY <2>1 DEF TypeOK, Shape
  <2>5. TypeOK'
    BY <1>12, <1>s, <2>2, <2>3 DEF Abort, TypeOK, connFrame, rowVars, pubVars
  <2> QED
    BY <1>12, <2>4, <2>5 DEF Abort, Shape, connFrame, rowVars, pubVars
<1>13. ASSUME NEW c \in Conns, GiveUp(c) PROVE TypeOK' /\ Shape'
  <2>1. conn' \in [Conns -> {"closed", "refused", "loading", "streaming"}]
    BY <1>13 DEF GiveUp, TypeOK
  <2>2. \A d \in Conns : conn'[d] # "loading" => pending'[d] = <<>> /\ snap'[d] = NoRow
    BY <1>13 DEF GiveUp, TypeOK, Shape
  <2> QED
    BY <1>13, <2>1, <2>2 DEF GiveUp, TypeOK, Shape, connFrame, rowVars, pubVars
<1>14. ASSUME NEW w \in Writers, UpdateMisses(w) PROVE TypeOK' /\ Shape'
  <2>1. wpc' \in [Writers -> {"ready", "written", "read"}]
    BY <1>14 DEF UpdateMisses, TypeOK
  <2>2. \A v \in Writers : wpc'[v] = "read" <=> wcopy'[v] # NoRow
    BY <1>14 DEF UpdateMisses, TypeOK, Shape
  <2> QED
    BY <1>14, <2>1, <2>2 DEF UpdateMisses, TypeOK, Shape, rowVars, connVars
<1>15. CASE UNCHANGED vars
  BY <1>15 DEF vars, TypeOK, Shape, rowVars, pubVars, connVars
<1> QED
  BY <1>1, <1>2, <1>3, <1>4, <1>5, <1>6, <1>7, <1>8, <1>9, <1>10, <1>11, <1>12, <1>13, <1>14,
     <1>15 DEF Next

-----------------------------------------------------------------------------
(***************************************************************************)
(* The versions that are known somewhere, and what they say of each other  *)
(***************************************************************************)

\* The rows somebody has: the database, a writer, the channel, a connection.
Known ==
  {x \in Row :
     \/ x = row
     \/ \E w \in Writers : x = wcopy[w]
     \/ \E i \in 1..Len(chan) : x = chan[i]
     \/ \E c \in Conns : x = snap[c]
     \/ \E c \in Conns : \E i \in 1..Len(pending[c]) : x = pending[c][i]}

\* x is the same version as y or an earlier one: then it is no younger, older unless two
\* versions shared a millisecond, and ended only if y has.
Before(x, y) ==
  \/ x = y
  \/ /\ x.ver < y.ver /\ x.at <= y.at
     /\ x.terminal => y.terminal
     /\ tie \/ x.at < y.at

Chain ==
  /\ \A x, y \in Known : Before(x, y) \/ Before(y, x)
  /\ \A x \in Known : Before(x, row)

\* Whoever ends the job from outside has ended it, and its copy says so.
OtherEnds ==
  /\ wpc["other"] # "ready" => row.terminal
  /\ wpc["other"] = "read" => wcopy["other"].terminal

-----------------------------------------------------------------------------
\* A request takes nothing out of the channel, and a buffer is kept or emptied.
LEMMA ConnSteps ==
  ASSUME TypeOK, Shape, NEW c \in Conns,
         Connect(c) \/ ReadSnapshot(c) \/ GoLive(c) \/ Refuse(c) \/ Abort(c) \/ GiveUp(c)
  PROVE  /\ UNCHANGED connFrame
         /\ \A d \in Conns : pending'[d] = pending[d] \/ pending'[d] = <<>>
         /\ \A d \in Conns : snap'[d] = snap[d] \/ snap'[d] = NoRow \/ snap'[d] = row
<1>1. CASE Connect(c)
  BY <1>1 DEF Connect, TypeOK
<1>2. CASE ReadSnapshot(c)
  BY <1>2 DEF ReadSnapshot, TypeOK
<1>3. CASE GoLive(c)
  <2>1. UNCHANGED connFrame
    BY <1>3 DEF GoLive
  <2>2. /\ snap'[c] = NoRow /\ \A d \in Conns \ {c} : snap'[d] = snap[d]
        /\ pending'[c] = <<>> /\ \A d \in Conns \ {c} : pending'[d] = pending[d]
    BY <1>3, LiveConns
  <2> QED
    BY <2>1, <2>2
<1>4. CASE Refuse(c)
  BY <1>4 DEF Refuse, TypeOK
<1>5. CASE Abort(c)
  BY <1>5 DEF Abort, Teardown, TypeOK
<1>6. CASE GiveUp(c)
  BY <1>6 DEF GiveUp
<1> QED
  BY <1>1, <1>2, <1>3, <1>4, <1>5, <1>6

\* An event that is dispatched comes to be known in buffers only.
LEMMA DispatchKnown ==
  ASSUME TypeOK, Shape, NEW e \in Row, Dispatch(e),
         NEW c \in Conns, NEW i \in 1..Len(pending'[c])
  PROVE  pending'[c][i] = e \/ \E j \in 1..Len(pending[c]) : pending'[c][i] = pending[c][j]
<1>1. Len(pending[c]) \in Nat
  BY CopyIsRow
<1>2. CASE conn[c] = "loading"
  <2>1. PICK k \in {0, 1} :
          /\ k = 1 => Len(pending[c]) >= 2
          /\ Len(pending'[c]) = Len(pending[c]) - k + 1
          /\ pending'[c][Len(pending'[c])] = e
          /\ \A j \in 1..(Len(pending[c]) - k) : pending'[c][j] = pending[c][j + k]
    BY <1>2, Dispatched
  <2>2. CASE i = Len(pending'[c])
    BY <2>1, <2>2
  <2>3. CASE i # Len(pending'[c])
    <3>1. i \in 1..(Len(pending[c]) - k) /\ i + k \in 1..Len(pending[c])
      BY <1>1, <2>1, <2>3
    <3> QED
      BY <2>1, <3>1
  <2> QED
    BY <2>2, <2>3
<1>3. CASE conn[c] # "loading"
  <2>1. pending'[c] = pending[c]
    BY <1>3, Dispatched
  <2> QED
    BY <2>1
<1> QED
  BY <1>2, <1>3

\* A step makes known only what it writes to the row.
LEMMA KnownStep ==
  ASSUME TypeOK, Shape, [Next]_vars
  PROVE  Known' \subseteq Known \cup {row'}
<1> SUFFICES ASSUME NEW x \in Known', x # row'
             PROVE  x \in Known
  OBVIOUS
<1>0. /\ x \in Row
      /\ \/ \E w \in Writers : x = wcopy'[w]
         \/ \E i \in 1..Len(chan') : x = chan'[i]
         \/ \E c \in Conns : x = snap'[c]
         \/ \E c \in Conns : \E i \in 1..Len(pending'[c]) : x = pending'[c][i]
  BY DEF Known
<1>n. x # NoRow
  BY <1>0, NoRowAssumption
<1>1. CASE Tick \/ \E w \in Writers : UpdateRow(w) \/ UpdateMisses(w) \/ ReadBackFails(w)
  BY <1>0, <1>1 DEF Tick, UpdateRow, UpdateMisses, ReadBackFails, Known, pubVars, connVars
<1>2. ASSUME NEW w \in Writers, ReadBack(w) PROVE x \in Known
  <2>1. \A v \in Writers : wcopy'[v] = wcopy[v] \/ wcopy'[v] = row'
    BY <1>2 DEF ReadBack, TypeOK, rowVars
  <2> QED
    BY <1>0, <1>2, <2>1 DEF ReadBack, Known, connVars
<1>3. ASSUME NEW w \in Writers, Publish(w) PROVE x \in Known
  <2>1. \A v \in Writers : wcopy'[v] = wcopy[v] \/ wcopy'[v] = NoRow
    BY <1>3 DEF Publish, TypeOK
  <2>2. wcopy[w] \in Row
    BY <1>3, CopyIsRow DEF Publish
  <2>3. CASE redis
    <3>1. chan' = Append(chan, wcopy[w]) /\ chan \in Seq(Row) /\ UNCHANGED connVars
      BY <1>3, <2>3 DEF Publish, TypeOK
    <3>2. /\ Len(chan') = Len(chan) + 1 /\ Len(chan) \in Nat
          /\ \A i \in 1..Len(chan) : chan'[i] = chan[i]
          /\ chan'[Len(chan) + 1] = wcopy[w]
      BY <2>2, <3>1, AppendProperties, LenProperties
    <3>3. \A i \in 1..Len(chan') : i \in 1..Len(chan) \/ i = Len(chan) + 1
      BY <3>2
    <3> QED
      BY <1>0, <1>n, <2>1, <3>1, <3>2, <3>3 DEF Known, connVars
  <2>4. CASE ~redis
    <3>1. Dispatch(wcopy[w]) /\ UNCHANGED chan
      BY <1>3, <2>4 DEF Publish
    <3>2. snap' = snap
      BY <2>2, <3>1, Dispatched
    <3>3. \A c \in Conns : \A i \in 1..Len(pending'[c]) :
            pending'[c][i] = wcopy[w] \/ \E j \in 1..Len(pending[c]) : pending'[c][i] = pending[c][j]
      BY <2>2, <3>1, DispatchKnown
    <3> QED
      BY <1>0, <1>n, <2>1, <3>1, <3>2, <3>3 DEF Known
  <2> QED
    BY <2>3, <2>4
<1>4. CASE Receive
  <2>1. /\ Dispatch(chan[1]) /\ chan[1] \in Row /\ 1 \in 1..Len(chan) /\ wcopy' = wcopy
        /\ \A i \in 1..Len(chan') : i + 1 \in 1..Len(chan) /\ chan'[i] = chan[i + 1]
    <3>1. /\ Len(chan) >= 1 /\ Head(chan) \in Row /\ Head(chan) = chan[1]
          /\ \A i \in 1..Len(chan') : i + 1 \in 1..Len(chan) /\ chan'[i] = chan[i + 1]
      BY <1>4, Received DEF Receive
    <3> QED
      BY <1>4, <3>1, CopyIsRow DEF Receive, pubVars
  <2>2. snap' = snap
    BY <2>1, Dispatched
  <2>3. \A c \in Conns : \A i \in 1..Len(pending'[c]) :
          pending'[c][i] = chan[1] \/ \E j \in 1..Len(pending[c]) : pending'[c][i] = pending[c][j]
    BY <2>1, DispatchKnown
  <2> QED
    BY <1>0, <2>1, <2>2, <2>3 DEF Known
<1>5. CASE Lose
  <2>1. \A i \in 1..Len(chan') : i + 1 \in 1..Len(chan) /\ chan'[i] = chan[i + 1]
    BY <1>5, Received DEF Lose
  <2> QED
    BY <1>0, <1>5, <2>1 DEF Lose, Known, pubVars, connVars
<1>6. ASSUME NEW c \in Conns,
             Connect(c) \/ ReadSnapshot(c) \/ GoLive(c) \/ Refuse(c) \/ Abort(c) \/ GiveUp(c)
      PROVE  x \in Known
  <2>1. /\ UNCHANGED connFrame
        /\ \A d \in Conns : pending'[d] = pending[d] \/ pending'[d] = <<>>
        /\ \A d \in Conns : snap'[d] = snap[d] \/ snap'[d] = NoRow \/ snap'[d] = row
    BY <1>6, ConnSteps
  <2>2. Len(<<>>) = 0
    OBVIOUS
  <2> QED
    BY <1>0, <1>n, <2>1, <2>2 DEF Known, connFrame, rowVars, pubVars
<1>7. CASE UNCHANGED vars
  BY <1>0, <1>7 DEF vars, Known, rowVars, pubVars, connVars
<1> QED
  BY <1>1, <1>2, <1>3, <1>4, <1>5, <1>6, <1>7 DEF Next

\* What is known is a row, and these are among it.
LEMMA KnownRows ==
  ASSUME TypeOK, Shape
  PROVE  /\ row \in Known
         /\ \A x \in Known : x \in Row
         /\ \A w \in Writers : wpc[w] = "read" => wcopy[w] \in Known
         /\ \A i \in 1..Len(chan) : chan[i] \in Known
         /\ \A c \in Conns : snap[c] # NoRow => snap[c] \in Known
         /\ \A c \in Conns : \A i \in 1..Len(pending[c]) : pending[c][i] \in Known
BY CopyIsRow DEF Known, TypeOK

\* Only a write changes the row, and with it what is known of ties.
LEMMA RowStep ==
  ASSUME [Next]_vars
  PROVE  (row' = row /\ tie' = tie) \/ \E w \in Writers : UpdateRow(w)
BY DEF Next, vars, Tick, UpdateMisses, ReadBack, ReadBackFails, Publish, Receive, Lose, Connect,
       ReadSnapshot, GoLive, Refuse, Abort, GiveUp, connFrame, rowVars

\* A write makes a version that comes behind every other.
LEMMA Written ==
  ASSUME TypeOK, Shape, NEW w \in Writers, UpdateRow(w)
  PROVE  /\ row' \in Row /\ row'.ver = row.ver + 1 /\ row'.at = clock
         /\ row.terminal => row'.terminal
         /\ w = "other" => row'.terminal
         /\ tie \/ row.at = clock => tie'
<1>1. PICK terminal \in BOOLEAN :
        /\ w = "other" \/ row.terminal => terminal
        /\ row' = [ver |-> row.ver + 1, at |-> clock, terminal |-> terminal]
  BY DEF UpdateRow
<1>2. row.ver + 1 \in 0..MaxVersions /\ clock \in 0..MaxClock
  BY RowFields, BoundsAssumption DEF UpdateRow, TypeOK
<1>3. row' \in Row /\ row'.ver = row.ver + 1 /\ row'.at = clock /\ row'.terminal = terminal
  BY <1>1, <1>2 DEF Row
<1> QED
  BY <1>1, <1>3 DEF UpdateRow

LEMMA ChainStep == TypeOK /\ Shape /\ Chain /\ [Next]_vars => Chain'
<1> SUFFICES ASSUME TypeOK, Shape, Chain, [Next]_vars
             PROVE  Chain'
  OBVIOUS
<1>1. CASE row' = row /\ tie' = tie
  <2>1. Known' \subseteq Known
    BY <1>1, KnownStep, KnownRows
  <2> QED
    BY <1>1, <2>1 DEF Chain, Before
<1>2. ASSUME NEW w \in Writers, UpdateRow(w) PROVE Chain'
  <2>1. Known' \subseteq Known \cup {row'}
    BY KnownStep
  <2>2. ASSUME NEW x \in Known PROVE Before(x, row)'
    <3>1. Before(x, row) /\ x \in Row /\ row \in Row
      BY KnownRows DEF Chain, TypeOK
    <3>2. /\ row' \in Row /\ row'.ver = row.ver + 1 /\ row'.at = clock
          /\ row.terminal => row'.terminal
          /\ tie \/ row.at = clock => tie'
      BY <1>2, Written
    <3>3. /\ x.ver \in Nat /\ row.ver \in Nat /\ x.at \in Nat /\ row.at \in Nat
          /\ clock \in Nat /\ row.at <= clock
      BY <3>1, RowFields, BoundsAssumption DEF TypeOK, Shape
    <3>4. x.ver < row'.ver /\ x.at <= row'.at
      BY <3>1, <3>2, <3>3 DEF Before
    <3>5. x.terminal => row'.terminal
      BY <3>1, <3>2 DEF Before
    <3>6. tie' \/ x.at < row'.at
      BY <3>1, <3>2, <3>3 DEF Before
    <3> QED
      BY <3>4, <3>5, <3>6 DEF Before
  <2>3. Before(row, row)'
    BY DEF Before
  <2>4. ASSUME NEW x \in Known, NEW y \in Known PROVE Before(x, y)' \/ Before(y, x)'
    <3>1. tie => tie'
      BY <1>2, Written
    <3> QED
      BY <3>1 DEF Chain, Before
  <2> QED
    BY <2>1, <2>2, <2>3, <2>4 DEF Chain
<1> QED
  BY <1>1, <1>2, RowStep

LEMMA OtherEndsStep == TypeOK /\ Shape /\ OtherEnds /\ [Next]_vars => OtherEnds'
<1> SUFFICES ASSUME TypeOK, Shape, OtherEnds, [Next]_vars
             PROVE  OtherEnds'
  OBVIOUS
<1>1. ASSUME NEW w \in Writers, UpdateRow(w) PROVE OtherEnds'
  <2>1. /\ row.terminal => row'.terminal
        /\ w = "other" => row'.terminal
    BY <1>1, Written
  <2> QED
    BY <1>1, <2>1 DEF UpdateRow, OtherEnds, TypeOK, Writers
<1>2. ASSUME NEW w \in Writers, ReadBack(w) \/ ReadBackFails(w) \/ Publish(w) PROVE OtherEnds'
  <2>1. row' = row /\ "other" \in Writers
    BY <1>2 DEF ReadBack, ReadBackFails, Publish, rowVars, Writers
  <2>2. \/ wpc'["other"] = wpc["other"] /\ wcopy'["other"] = wcopy["other"]
        \/ wpc["other"] = "written" /\ wpc'["other"] \in {"read", "ready"}
           /\ (wpc'["other"] = "read" => wcopy'["other"] = row)
        \/ wpc'["other"] = "ready"
    BY <1>2, <2>1 DEF ReadBack, ReadBackFails, Publish, TypeOK
  <2> QED
    BY <2>1, <2>2 DEF OtherEnds
<1>3. CASE UNCHANGED <<row, pubVars>>
  BY <1>3 DEF OtherEnds, pubVars
<1>4. ASSUME NEW w \in Writers, UpdateMisses(w) PROVE OtherEnds'
  <2>1. /\ row' = row /\ wcopy' = wcopy
        /\ wpc'["other"] = wpc["other"]
    BY <1>4 DEF UpdateMisses, TypeOK, rowVars, Writers
  <2> QED
    BY <2>1 DEF OtherEnds
<1>5. \/ \E w \in Writers :
            UpdateRow(w) \/ UpdateMisses(w) \/ ReadBack(w) \/ ReadBackFails(w) \/ Publish(w)
      \/ UNCHANGED <<row, pubVars>>
  BY DEF Next, vars, Tick, Receive, Lose, Connect, ReadSnapshot,
       GoLive, Refuse, Abort, GiveUp, connFrame, rowVars
<1> QED
  BY <1>1, <1>2, <1>3, <1>4, <1>5

-----------------------------------------------------------------------------
(***************************************************************************)
(* The order in which events travel                                        *)
(***************************************************************************)
Copying == wpc["worker"] = "read"

Newest(y) == \A z \in Known : ~z.terminal => z.ver <= y.ver

\* y may be delivered behind x: it ends the job, or it is a later version, or the job
\* was ended while y, its last progress, was on its way.
InOrder(x, y) == ~y.terminal => IF x.terminal THEN Newest(y) ELSE x.ver < y.ver

\* x reaches some connection before y does.
Ahead(x, y) ==
  \/ \E i, j \in 1..Len(chan) : i < j /\ x = chan[i] /\ y = chan[j]
  \/ Copying /\ y = wcopy["worker"] /\ \E i \in 1..Len(chan) : x = chan[i]
  \/ \E c \in Conns :
       \/ \E i, j \in 1..Len(pending[c]) : i < j /\ x = pending[c][i] /\ y = pending[c][j]
       \/ \E i \in 1..Len(pending[c]), j \in 1..Len(chan) : x = pending[c][i] /\ y = chan[j]
       \/ Copying /\ y = wcopy["worker"] /\ \E i \in 1..Len(pending[c]) : x = pending[c][i]

Queued(x) ==
  \/ \E i \in 1..Len(chan) : x = chan[i]
  \/ \E c \in Conns : \E i \in 1..Len(pending[c]) : x = pending[c][i]

Order ==
  /\ \A x, y \in Known : Ahead(x, y) => InOrder(x, y)
  /\ Copying /\ ~wcopy["worker"].terminal => Newest(wcopy["worker"])
  /\ wpc["worker"] = "written" /\ ~row.terminal => \A x \in Known : Queued(x) => x.ver < row.ver

\* What is ahead of something, or queued, is known.
LEMMA AheadKnown ==
  ASSUME TypeOK, Shape, NEW x, NEW y
  PROVE  /\ Ahead(x, y) => x \in Known /\ y \in Known /\ Queued(x)
         /\ Queued(x) => x \in Known
BY KnownRows DEF Ahead, Queued, Copying, Writers

\* Two events in a buffer behind a dispatch were there before, or the second is the event.
LEMMA DispatchPairs ==
  ASSUME TypeOK, Shape, NEW e \in Row, Dispatch(e),
         NEW c \in Conns, NEW i \in 1..Len(pending'[c]), NEW j \in 1..Len(pending'[c]), i < j
  PROVE  \E a \in 1..Len(pending[c]) :
           /\ pending'[c][i] = pending[c][a]
           /\ \/ pending'[c][j] = e
              \/ \E b \in 1..Len(pending[c]) : a < b /\ pending'[c][j] = pending[c][b]
<1>1. Len(pending[c]) \in Nat /\ i \in Nat /\ j \in Nat
  BY CopyIsRow
<1>2. CASE conn[c] = "loading"
  <2>1. PICK k \in {0, 1} :
          /\ k = 1 => Len(pending[c]) >= 2
          /\ Len(pending'[c]) = Len(pending[c]) - k + 1
          /\ pending'[c][Len(pending'[c])] = e
          /\ \A h \in 1..(Len(pending[c]) - k) : pending'[c][h] = pending[c][h + k]
    BY <1>2, Dispatched
  <2>2. i \in 1..(Len(pending[c]) - k) /\ i + k \in 1..Len(pending[c])
    BY <1>1, <2>1
  <2>3. pending'[c][i] = pending[c][i + k]
    BY <2>1, <2>2
  <2>4. CASE j = Len(pending'[c])
    BY <2>1, <2>2, <2>3, <2>4
  <2>5. CASE j # Len(pending'[c])
    <3>1. j \in 1..(Len(pending[c]) - k) /\ j + k \in 1..Len(pending[c]) /\ i + k < j + k
      BY <1>1, <2>1, <2>5
    <3>2. pending'[c][j] = pending[c][j + k]
      BY <2>1, <3>1
    <3> QED
      BY <2>2, <2>3, <3>1, <3>2
  <2> QED
    BY <2>4, <2>5
<1>3. CASE conn[c] # "loading"
  <2>1. pending'[c] = pending[c]
    BY <1>3, Dispatched
  <2> QED
    BY <1>1, <2>1
<1> QED
  BY <1>2, <1>3

\* Behind a publication an event is ahead of another if it was, if it was queued and the
\* other is the one published, or if it is the one published and the worker has a copy.
LEMMA PublishAhead ==
  ASSUME TypeOK, Shape, NEW w \in Writers, Publish(w), NEW x, NEW y, Ahead(x, y)'
  PROVE  \/ Ahead(x, y)
         \/ y = wcopy[w] /\ Queued(x)
         \/ x = wcopy[w] /\ w = "other" /\ Copying /\ y = wcopy["worker"]
<1>1. wcopy[w] \in Row
  BY CopyIsRow DEF Publish
<1>2. Copying' => w = "other" /\ Copying /\ wcopy'["worker"] = wcopy["worker"]
  BY DEF Publish, Copying, TypeOK, Writers
<1>3. CASE redis
  <2>1. chan' = Append(chan, wcopy[w]) /\ chan \in Seq(Row) /\ pending' = pending
    BY <1>3 DEF Publish, TypeOK, connVars
  <2>2. /\ Len(chan') = Len(chan) + 1 /\ Len(chan) \in Nat
        /\ \A i \in 1..Len(chan) : chan'[i] = chan[i]
        /\ chan'[Len(chan) + 1] = wcopy[w]
    BY <1>1, <2>1, AppendProperties, LenProperties
  <2>3. \A i \in 1..Len(chan') : i \in 1..Len(chan) \/ (i = Len(chan) + 1 /\ chan'[i] = wcopy[w])
    BY <2>2
  <2>4. ASSUME NEW i \in 1..Len(chan'), NEW j \in 1..Len(chan'), i < j, x = chan'[i], y = chan'[j]
        PROVE  Ahead(x, y) \/ (y = wcopy[w] /\ Queued(x))
    <3>1. i \in 1..Len(chan) /\ x = chan[i]
      BY <2>2, <2>4
    <3> QED
      BY <2>2, <2>3, <2>4, <3>1 DEF Ahead, Queued
  <2>5. ASSUME Copying', y = wcopy'["worker"], NEW i \in 1..Len(chan'), x = chan'[i]
        PROVE  Ahead(x, y) \/ (x = wcopy[w] /\ w = "other" /\ Copying /\ y = wcopy["worker"])
    BY <1>2, <2>2, <2>3, <2>5 DEF Ahead
  <2>6. ASSUME NEW c \in Conns, NEW i \in 1..Len(pending[c]), NEW j \in 1..Len(chan'),
               x = pending[c][i], y = chan'[j]
        PROVE  Ahead(x, y) \/ (y = wcopy[w] /\ Queued(x))
    BY <2>2, <2>3, <2>6 DEF Ahead, Queued
  <2>7. ASSUME NEW c \in Conns, NEW i \in 1..Len(pending[c]), NEW j \in 1..Len(pending[c]),
               i < j, x = pending[c][i], y = pending[c][j]
        PROVE  Ahead(x, y)
    BY <2>7 DEF Ahead
  <2>8. ASSUME Copying', y = wcopy'["worker"], NEW c \in Conns, NEW i \in 1..Len(pending[c]),
               x = pending[c][i]
        PROVE  Ahead(x, y)
    BY <1>2, <2>8 DEF Ahead
  <2> QED
    BY <2>1, <2>4, <2>5, <2>6, <2>7, <2>8 DEF Ahead
<1>4. CASE ~redis
  <2>1. Dispatch(wcopy[w]) /\ chan' = chan /\ Len(chan) = 0
    BY <1>4, EmptySeq DEF Publish, Shape
  <2>2. ASSUME NEW c \in Conns, NEW i \in 1..Len(pending'[c]), NEW j \in 1..Len(pending'[c]),
               i < j, x = pending'[c][i], y = pending'[c][j]
        PROVE  Ahead(x, y) \/ (y = wcopy[w] /\ Queued(x))
    <3>1. \E a \in 1..Len(pending[c]) :
            /\ x = pending[c][a]
            /\ \/ y = wcopy[w]
               \/ \E b \in 1..Len(pending[c]) : a < b /\ y = pending[c][b]
      BY <1>1, <2>1, <2>2, DispatchPairs
    <3> QED
      BY <3>1 DEF Ahead, Queued
  <2>3. ASSUME Copying', y = wcopy'["worker"], NEW c \in Conns, NEW i \in 1..Len(pending'[c]),
               x = pending'[c][i]
        PROVE  Ahead(x, y) \/ (x = wcopy[w] /\ w = "other" /\ Copying /\ y = wcopy["worker"])
    <3>1. x = wcopy[w] \/ \E a \in 1..Len(pending[c]) : x = pending[c][a]
      BY <1>1, <2>1, <2>3, DispatchKnown
    <3> QED
      BY <1>2, <2>3, <3>1 DEF Ahead
  <2> QED
    BY <2>1, <2>2, <2>3 DEF Ahead
<1> QED
  BY <1>3, <1>4

\* An event that is received keeps its place.
LEMMA ReceiveAhead ==
  ASSUME TypeOK, Shape, Receive, NEW x, NEW y, Ahead(x, y)'
  PROVE  Ahead(x, y)
<1>1. /\ Dispatch(chan[1]) /\ chan[1] \in Row /\ 1 \in 1..Len(chan) /\ UNCHANGED <<wpc, wcopy>>
      /\ \A i \in 1..Len(chan') : i + 1 \in 1..Len(chan) /\ chan'[i] = chan[i + 1]
  <2>1. /\ Len(chan) >= 1 /\ Head(chan) \in Row /\ Head(chan) = chan[1]
        /\ \A i \in 1..Len(chan') : i + 1 \in 1..Len(chan) /\ chan'[i] = chan[i + 1]
    BY Received DEF Receive
  <2> QED
    BY <2>1, CopyIsRow DEF Receive, pubVars
<1>2. ASSUME NEW i \in 1..Len(chan'), NEW j \in 1..Len(chan'), i < j, x = chan'[i], y = chan'[j]
      PROVE  Ahead(x, y)
  <2>1. i + 1 < j + 1
    BY <1>2, <1>1
  <2> QED
    BY <1>1, <1>2, <2>1 DEF Ahead
<1>3. ASSUME Copying', y = wcopy'["worker"], NEW i \in 1..Len(chan'), x = chan'[i]
      PROVE  Ahead(x, y)
  BY <1>1, <1>3 DEF Ahead, Copying
<1>4. ASSUME NEW c \in Conns, NEW i \in 1..Len(pending'[c]), NEW j \in 1..Len(pending'[c]),
             i < j, x = pending'[c][i], y = pending'[c][j]
      PROVE  Ahead(x, y)
  <2>1. \E a \in 1..Len(pending[c]) :
          /\ x = pending[c][a]
          /\ \/ y = chan[1]
             \/ \E b \in 1..Len(pending[c]) : a < b /\ y = pending[c][b]
    <3>1. \E a \in 1..Len(pending[c]) :
            /\ pending'[c][i] = pending[c][a]
            /\ \/ pending'[c][j] = chan[1]
               \/ \E b \in 1..Len(pending[c]) : a < b /\ pending'[c][j] = pending[c][b]
      BY <1>1, <1>4, DispatchPairs
    <3> QED
      BY ONLY <1>4, <3>1
  <2> QED
    BY <1>1, <2>1 DEF Ahead
<1>5. ASSUME NEW c \in Conns, NEW i \in 1..Len(pending'[c]),
             x = pending'[c][i]
      PROVE  x = chan[1] \/ \E a \in 1..Len(pending[c]) : x = pending[c][a]
  BY <1>1, <1>5, DispatchKnown
<1>6. ASSUME NEW c \in Conns, NEW i \in 1..Len(pending'[c]), NEW j \in 1..Len(chan'),
             x = pending'[c][i], y = chan'[j]
      PROVE  Ahead(x, y)
  <2>1. j + 1 \in 1..Len(chan) /\ y = chan[j + 1] /\ 1 < j + 1
    BY <1>1, <1>6
  <2>2. x = chan[1] \/ \E a \in 1..Len(pending[c]) : x = pending[c][a]
    BY <1>5, <1>6
  <2> QED
    BY <1>1, <2>1, <2>2 DEF Ahead
<1>7. ASSUME Copying', y = wcopy'["worker"], NEW c \in Conns, NEW i \in 1..Len(pending'[c]),
             x = pending'[c][i]
      PROVE  Ahead(x, y)
  <2>1. x = chan[1] \/ \E a \in 1..Len(pending[c]) : x = pending[c][a]
    BY <1>5, <1>7
  <2> QED
    BY <1>1, <1>7, <2>1 DEF Ahead, Copying
<1> QED
  BY <1>2, <1>3, <1>4, <1>6, <1>7 DEF Ahead

\* How an event can come to be ahead of another in a step.
LEMMA AheadStep ==
  ASSUME TypeOK, Shape, [Next]_vars, NEW x, NEW y, Ahead(x, y)'
  PROVE  \/ Ahead(x, y)
         \/ y = row /\ Queued(x) /\ wpc["worker"] = "written"
         \/ wpc["other"] = "read" /\ y = wcopy["other"]
         \/ wpc["other"] = "read" /\ x = wcopy["other"] /\ Copying /\ y = wcopy["worker"]
<1>1. ASSUME UNCHANGED <<chan, pending>>,
             Copying' => Copying /\ wcopy'["worker"] = wcopy["worker"]
      PROVE  Ahead(x, y)
  BY <1>1 DEF Ahead
<1>2. CASE Tick
  BY <1>1, <1>2 DEF Tick, pubVars, connVars, Copying
<1>3. ASSUME NEW w \in Writers, UpdateRow(w) \/ UpdateMisses(w) \/ ReadBackFails(w) PROVE Ahead(x, y)
  BY <1>1, <1>3 DEF UpdateRow, UpdateMisses, ReadBackFails, connVars, Copying, TypeOK, Writers
<1>4. ASSUME NEW w \in Writers, ReadBack(w)
      PROVE  Ahead(x, y) \/ (y = row /\ Queued(x) /\ wpc["worker"] = "written")
  <2>1. CASE w = "worker"
    <3>1. /\ UNCHANGED <<chan, pending>> /\ wpc["worker"] = "written" /\ wcopy'["worker"] = row
      BY <1>4, <2>1 DEF ReadBack, connVars, TypeOK
    <3> QED
      BY <3>1 DEF Ahead, Queued
  <2>2. CASE w # "worker"
    BY <1>1, <1>4, <2>2 DEF ReadBack, connVars, Copying, TypeOK, Writers
  <2> QED
    BY <2>1, <2>2
<1>5. ASSUME NEW w \in Writers, Publish(w)
      PROVE  \/ Ahead(x, y)
             \/ wpc["other"] = "read" /\ y = wcopy["other"]
             \/ wpc["other"] = "read" /\ x = wcopy["other"] /\ Copying /\ y = wcopy["worker"]
  <2>1. \/ Ahead(x, y)
        \/ y = wcopy[w] /\ Queued(x)
        \/ x = wcopy[w] /\ w = "other" /\ Copying /\ y = wcopy["worker"]
    BY <1>5, PublishAhead
  <2>2. wpc[w] = "read" /\ w \in {"worker", "other"}
    BY <1>5 DEF Publish, Writers
  <2>3. y = wcopy["worker"] /\ Queued(x) /\ Copying => Ahead(x, y)
    BY DEF Ahead, Queued
  <2> QED
    BY <2>1, <2>2, <2>3 DEF Copying
<1>6. CASE Receive
  BY <1>6, ReceiveAhead
<1>7. CASE Lose
  <2>1. /\ UNCHANGED <<pending, wpc, wcopy>>
        /\ \A i \in 1..Len(chan') : i + 1 \in 1..Len(chan) /\ chan'[i] = chan[i + 1]
    BY <1>7, Received DEF Lose, pubVars, connVars
  <2>2. \A i, j \in 1..Len(chan') : i < j => i + 1 < j + 1
    OBVIOUS
  <2> QED
    BY <2>1, <2>2 DEF Ahead, Copying
<1>8. ASSUME NEW c \in Conns,
             Connect(c) \/ ReadSnapshot(c) \/ GoLive(c) \/ Refuse(c) \/ Abort(c) \/ GiveUp(c)
      PROVE  Ahead(x, y)
  <2>1. /\ UNCHANGED <<chan, wpc, wcopy>>
        /\ \A d \in Conns : pending'[d] = pending[d] \/ pending'[d] = <<>>
    BY <1>8, ConnSteps DEF connFrame, pubVars
  <2>2. \A d \in Conns : \A i \in 1..Len(pending'[d]) : pending'[d] = pending[d]
    BY <2>1
  <2> QED
    BY <2>1, <2>2 DEF Ahead, Copying
<1>9. CASE UNCHANGED vars
  BY <1>1, <1>9 DEF vars, pubVars, connVars, Copying
<1> QED
  BY <1>2, <1>3, <1>4, <1>5, <1>6, <1>7, <1>8, <1>9 DEF Next

\* An event comes to be queued by its publication.
LEMMA QueuedStep ==
  ASSUME TypeOK, Shape, [Next]_vars, NEW x, Queued(x)'
  PROVE  Queued(x) \/ \E w \in Writers : Publish(w) /\ x = wcopy[w]
<1>1. CASE UNCHANGED <<chan, pending>>
  BY <1>1 DEF Queued
<1>2. ASSUME NEW w \in Writers, Publish(w) PROVE Queued(x) \/ x = wcopy[w]
  <2>1. wcopy[w] \in Row
    BY <1>2, CopyIsRow DEF Publish
  <2>2. CASE redis
    <3>1. chan' = Append(chan, wcopy[w]) /\ chan \in Seq(Row) /\ pending' = pending
      BY <1>2, <2>2 DEF Publish, TypeOK, connVars
    <3>2. /\ Len(chan') = Len(chan) + 1 /\ Len(chan) \in Nat
          /\ \A i \in 1..Len(chan) : chan'[i] = chan[i]
          /\ chan'[Len(chan) + 1] = wcopy[w]
      BY <2>1, <3>1, AppendProperties, LenProperties
    <3>3. \A i \in 1..Len(chan') : i \in 1..Len(chan) \/ chan'[i] = wcopy[w]
      BY <3>2
    <3> QED
      BY <3>1, <3>2, <3>3 DEF Queued
  <2>3. CASE ~redis
    <3>1. Dispatch(wcopy[w]) /\ chan' = chan
      BY <1>2, <2>3 DEF Publish
    <3>2. \A c \in Conns : \A i \in 1..Len(pending'[c]) :
            pending'[c][i] = wcopy[w] \/ \E j \in 1..Len(pending[c]) : pending'[c][i] = pending[c][j]
      BY <2>1, <3>1, DispatchKnown
    <3> QED
      BY <3>1, <3>2 DEF Queued
  <2> QED
    BY <2>2, <2>3
<1>3. CASE Receive
  <2>1. /\ Dispatch(chan[1]) /\ chan[1] \in Row /\ 1 \in 1..Len(chan)
        /\ \A i \in 1..Len(chan') : i + 1 \in 1..Len(chan) /\ chan'[i] = chan[i + 1]
    <3>1. /\ Len(chan) >= 1 /\ Head(chan) \in Row /\ Head(chan) = chan[1]
          /\ \A i \in 1..Len(chan') : i + 1 \in 1..Len(chan) /\ chan'[i] = chan[i + 1]
      BY <1>3, Received DEF Receive
    <3> QED
      BY <1>3, <3>1, CopyIsRow DEF Receive
  <2>2. \A c \in Conns : \A i \in 1..Len(pending'[c]) :
          pending'[c][i] = chan[1] \/ \E j \in 1..Len(pending[c]) : pending'[c][i] = pending[c][j]
    BY <2>1, DispatchKnown
  <2> QED
    BY <2>1, <2>2 DEF Queued
<1>4. CASE Lose
  <2>1. /\ pending' = pending
        /\ \A i \in 1..Len(chan') : i + 1 \in 1..Len(chan) /\ chan'[i] = chan[i + 1]
    BY <1>4, Received DEF Lose, connVars
  <2> QED
    BY <2>1 DEF Queued
<1>5. ASSUME NEW c \in Conns,
             Connect(c) \/ ReadSnapshot(c) \/ GoLive(c) \/ Refuse(c) \/ Abort(c) \/ GiveUp(c)
      PROVE  Queued(x)
  <2>1. /\ chan' = chan
        /\ \A d \in Conns : pending'[d] = pending[d] \/ pending'[d] = <<>>
    BY <1>5, ConnSteps DEF connFrame
  <2>2. \A d \in Conns : \A i \in 1..Len(pending'[d]) : pending'[d] = pending[d]
    BY <2>1
  <2> QED
    BY <2>1, <2>2 DEF Queued
<1>6. CASE Tick \/ (\E w \in Writers : UpdateRow(w) \/ UpdateMisses(w) \/ ReadBack(w) \/ ReadBackFails(w))
           \/ UNCHANGED vars
  BY <1>1, <1>6 DEF Tick, UpdateRow, UpdateMisses, ReadBack, ReadBackFails, vars, connVars
<1> QED
  BY <1>2, <1>3, <1>4, <1>5, <1>6 DEF Next

\* What has ended ends the row.
LEMMA EndedEnds ==
  ASSUME Chain, NEW x \in Known, x.terminal
  PROVE  row.terminal
BY DEF Chain, Before

\* A version stays the newest while nobody writes one that does not end the job.
LEMMA NewestKept ==
  ASSUME TypeOK, Shape, Chain, OtherEnds, [Next]_vars, NEW y \in Row, Newest(y),
         row.terminal \/ wpc["worker"] # "ready"
  PROVE  Newest(y)'
<1>1. Known' \subseteq Known \cup {row'} /\ row \in Known
  BY KnownStep, KnownRows
<1>2. row' = row \/ row'.terminal
  <2>1. ASSUME NEW w \in Writers, UpdateRow(w) PROVE row'.terminal
    <3>1. (row.terminal => row'.terminal) /\ (w = "other" => row'.terminal)
      BY <2>1, Written
    <3>2. wpc[w] = "ready" /\ w \in {"worker", "other"}
      BY <2>1 DEF UpdateRow, Writers
    <3> QED
      BY <3>1, <3>2
  <2> QED
    BY <2>1, RowStep
<1> QED
  BY <1>1, <1>2 DEF Newest

LEMMA OrderStep == TypeOK /\ Shape /\ Chain /\ OtherEnds /\ Order /\ [Next]_vars => Order'
<1> SUFFICES ASSUME TypeOK, Shape, Chain, OtherEnds, Order, [Next]_vars
             PROVE  Order'
  OBVIOUS
<1>k. Known' \subseteq Known \cup {row'} /\ row \in Known /\ \A x \in Known : x \in Row
  BY KnownStep, KnownRows
<1>1. ASSUME NEW x \in Known', NEW y \in Known', Ahead(x, y)', ~y.terminal
      PROVE  InOrder(x, y)'
  <2>1. \/ Ahead(x, y)
        \/ y = row /\ Queued(x) /\ wpc["worker"] = "written"
        \/ wpc["other"] = "read" /\ y = wcopy["other"]
        \/ wpc["other"] = "read" /\ x = wcopy["other"] /\ Copying /\ y = wcopy["worker"]
    BY <1>1, AheadStep
  <2>2. CASE Ahead(x, y)
    <3>1. x \in Known /\ y \in Known /\ InOrder(x, y)
      BY <2>2, AheadKnown DEF Order
    <3>2. CASE x.terminal
      <4>1. Newest(y) /\ row.terminal /\ y \in Row
        BY <1>1, <1>k, <3>1, <3>2, EndedEnds DEF InOrder
      <4>2. Newest(y)'
        BY <4>1, NewestKept
      <4> QED
        BY <3>2, <4>2 DEF InOrder
    <3>3. CASE ~x.terminal
      BY <1>1, <3>1, <3>3 DEF InOrder
    <3> QED
      BY <3>2, <3>3
  <2>3. CASE y = row /\ Queued(x) /\ wpc["worker"] = "written"
    <3>1. x \in Known /\ ~x.terminal
      BY <1>1, <2>3, AheadKnown, EndedEnds
    <3>2. x.ver < y.ver
      BY <1>1, <2>3, <3>1 DEF Order
    <3> QED
      BY <3>1, <3>2 DEF InOrder
  <2>4. CASE wpc["other"] = "read" /\ y = wcopy["other"]
    BY <1>1, <2>4 DEF OtherEnds
  <2>5. CASE wpc["other"] = "read" /\ x = wcopy["other"] /\ Copying /\ y = wcopy["worker"]
    <3>1. x.terminal /\ row.terminal /\ Newest(y) /\ y \in Row
      BY <1>1, <2>5, CopyIsRow DEF OtherEnds, Order, Copying, Writers
    <3>2. Newest(y)'
      BY <3>1, NewestKept
    <3> QED
      BY <3>1, <3>2 DEF InOrder
  <2> QED
    BY <2>1, <2>2, <2>3, <2>4, <2>5
<1>2. ASSUME Copying', ~wcopy'["worker"].terminal
      PROVE  Newest(wcopy["worker"])'
  <2>1. \/ Copying /\ wcopy'["worker"] = wcopy["worker"]
        \/ wcopy'["worker"] = row /\ row' = row
    BY <1>2 DEF Next, vars, Tick, UpdateRow, UpdateMisses, ReadBack, ReadBackFails, Publish, Receive, Lose,
         Connect, ReadSnapshot, GoLive, Refuse, Abort, GiveUp, connFrame, pubVars, rowVars,
         Copying, TypeOK, Writers
  <2>2. CASE Copying /\ wcopy'["worker"] = wcopy["worker"]
    <3>1. PICK y \in Row : y = wcopy["worker"]
      BY <2>2, CopyIsRow DEF Copying, Writers
    <3>2. Newest(y) /\ wpc["worker"] # "ready"
      BY <1>2, <2>2, <3>1 DEF Order, Copying
    <3>3. Newest(y)'
      BY <3>2, NewestKept
    <3> QED
      BY <2>2, <3>1, <3>3 DEF Newest
  <2>3. CASE wcopy'["worker"] = row /\ row' = row
    <3>1. ASSUME NEW z \in Known' PROVE z.ver <= row.ver
      <4>1. Before(z, row) /\ z \in Row
        BY <1>k, <2>3, <3>1 DEF Chain
      <4>2. z.ver \in Nat /\ row.ver \in Nat
        BY <1>k, <4>1, RowFields
      <4> QED
        BY <4>1, <4>2 DEF Before
    <3> QED
      BY <2>3, <3>1 DEF Newest
  <2> QED
    BY <2>1, <2>2, <2>3
<1>3. ASSUME wpc'["worker"] = "written", ~row'.terminal, NEW x \in Known', Queued(x)'
      PROVE  x.ver < row'.ver
  <2>1. Queued(x) \/ \E w \in Writers : Publish(w) /\ x = wcopy[w]
    BY <1>3, QueuedStep
  <2>2. \/ UpdateRow("worker")
        \/ wpc["worker"] = "written" /\ (row' = row \/ UpdateRow("other"))
    BY <1>3 DEF Next, vars, Tick, UpdateRow, UpdateMisses, ReadBack, ReadBackFails, Publish, Receive, Lose,
         Connect, ReadSnapshot, GoLive, Refuse, Abort, GiveUp, connFrame, pubVars, rowVars,
         TypeOK, Writers
  <2>3. CASE UpdateRow("worker")
    <3>1. UNCHANGED <<chan, pending>> /\ row'.ver = row.ver + 1
      BY <2>3, Written DEF UpdateRow, connVars, Writers
    <3>2. x \in Known
      BY <1>3, <3>1, AheadKnown DEF Queued
    <3>3. Before(x, row) /\ x.ver \in Nat /\ row.ver \in Nat
      BY <1>k, <3>2, RowFields DEF Chain
    <3> QED
      BY <3>1, <3>3 DEF Before
  <2>4. CASE wpc["worker"] = "written" /\ row' = row
    <3>1. ASSUME NEW w \in Writers, Publish(w) PROVE FALSE
      <4>1. wpc[w] = "read" /\ w = "other"
        BY <2>4, <3>1 DEF Publish, Writers
      <4> QED
        BY <1>3, <2>4, <4>1 DEF OtherEnds
    <3>2. Queued(x) /\ x \in Known
      BY <2>1, <3>1, AheadKnown
    <3> QED
      BY <1>3, <2>4, <3>2 DEF Order
  <2>5. CASE UpdateRow("other")
    BY <1>3, <2>5, Written DEF Writers
  <2> QED
    BY <2>2, <2>3, <2>4, <2>5
<1> QED
  BY <1>1, <1>2, <1>3 DEF Order, InOrder

-----------------------------------------------------------------------------
(***************************************************************************)
(* What a client is shown                                                  *)
(***************************************************************************)

\* The connection was sent its snapshot and then, of the first n events of its buffer, the
\* m at the positions q: those that are not older; only the last can have ended it.
SentLive(c, n, m, q) ==
  /\ \A i, j \in 1..m : i < j => q[i] < q[j]
  /\ Len(frames'[c]) = m + 1
  /\ frames'[c][1] = snap[c].ver
  /\ \A i \in 1..m : frames'[c][i + 1] = pending[c][q[i]].ver
  /\ \A i \in 1..m : ~Older(pending[c][q[i]], snap[c])
  /\ \A i \in 1..m : q[i] < n => ~pending[c][q[i]].terminal
  /\ conn'[c] = "streaming" =>
       /\ ~snap[c].terminal
       /\ n = Len(pending[c])
       /\ \A i \in 1..m : ~pending[c][q[i]].terminal
       /\ \A i \in 1..n : Older(pending[c][i], snap[c]) \/ \E j \in 1..m : q[j] = i

LEMMA LiveFrames ==
  ASSUME TypeOK, Shape, NEW c \in Conns, GoLive(c)
  PROVE  \E n \in 0..Len(pending[c]) : \E m \in 0..n : \E q \in [1..m -> 1..n] :
           SentLive(c, n, m, q)
<1>1. PICK n \in 0..Len(pending[c]) : \E m \in 0..n : \E q \in [1..m -> 1..n] :
        /\ \A i, j \in 1..m : i < j => q[i] < q[j]
        /\ IF snap[c].terminal THEN m = 0 ELSE Replays(pending[c], snap[c], n, q)
        /\ frames'[c] \in Seq(0..MaxVersions)
        /\ Len(frames'[c]) = m + 1
        /\ frames'[c][1] = snap[c].ver
        /\ \A i \in 1..m : frames'[c][i + 1] = pending[c][q[i]].ver
        /\ LET ended == snap[c].terminal \/ \E i \in 1..m : pending[c][q[i]].terminal
           IN  IF ended
                 THEN Teardown({c})
                 ELSE /\ conn' = [conn EXCEPT ![c] = "streaming"]
                      /\ snap' = [snap EXCEPT ![c] = NoRow]
                      /\ UNCHANGED slots
  BY WentLive
<1>2. PICK m \in 0..n : \E q \in [1..m -> 1..n] :
        /\ \A i, j \in 1..m : i < j => q[i] < q[j]
        /\ IF snap[c].terminal THEN m = 0 ELSE Replays(pending[c], snap[c], n, q)
        /\ Len(frames'[c]) = m + 1
        /\ frames'[c][1] = snap[c].ver
        /\ \A i \in 1..m : frames'[c][i + 1] = pending[c][q[i]].ver
        /\ snap[c].terminal \/ (\E i \in 1..m : pending[c][q[i]].terminal) => Teardown({c})
  BY <1>1
<1>3. PICK q \in [1..m -> 1..n] :
        /\ \A i, j \in 1..m : i < j => q[i] < q[j]
        /\ IF snap[c].terminal THEN m = 0 ELSE Replays(pending[c], snap[c], n, q)
        /\ Len(frames'[c]) = m + 1
        /\ frames'[c][1] = snap[c].ver
        /\ \A i \in 1..m : frames'[c][i + 1] = pending[c][q[i]].ver
        /\ snap[c].terminal \/ (\E i \in 1..m : pending[c][q[i]].terminal) => Teardown({c})
  BY <1>2
<1>4. Len(pending[c]) \in Nat /\ n \in Nat /\ m \in Nat
  BY CopyIsRow
<1>5. Teardown({c}) => conn'[c] # "streaming"
  BY DEF Teardown
<1>6. ~snap[c].terminal =>
        /\ \A i \in 1..n : (\E j \in 1..m : q[j] = i) <=> ~Older(pending[c][i], snap[c])
        /\ \A i \in 1..(n - 1) : ~Older(pending[c][i], snap[c]) => ~pending[c][i].terminal
        /\ n < Len(pending[c]) =>
             n > 0 /\ ~Older(pending[c][n], snap[c]) /\ pending[c][n].terminal
  <2>1. \A i : i \in Range(q) <=> \E j \in 1..m : q[j] = i
    BY DEF Range
  <2>2. ~snap[c].terminal => Replays(pending[c], snap[c], n, q)
    BY <1>3
  <2> QED
    BY <2>1, <2>2 DEF Replays
<1>7. \A i \in 1..m : q[i] \in 1..n /\ ~snap[c].terminal
  BY <1>3, <1>4
<1>8. \A i \in 1..m : ~Older(pending[c][q[i]], snap[c])
  BY <1>6, <1>7
<1>9. \A i \in 1..m : q[i] < n => ~pending[c][q[i]].terminal
  <2>1. ASSUME NEW i \in 1..m, q[i] < n PROVE q[i] \in 1..(n - 1)
    BY <1>4, <1>7, <2>1
  <2> QED
    BY <1>6, <1>7, <1>8, <2>1
<1>10. ASSUME conn'[c] = "streaming"
       PROVE  /\ ~snap[c].terminal
              /\ n = Len(pending[c])
              /\ \A i \in 1..m : ~pending[c][q[i]].terminal
              /\ \A i \in 1..n : Older(pending[c][i], snap[c]) \/ \E j \in 1..m : q[j] = i
  <2>1. ~snap[c].terminal /\ \A i \in 1..m : ~pending[c][q[i]].terminal
    BY <1>3, <1>5, <1>10
  <2>2. ~(n < Len(pending[c]))
    <3>1. SUFFICES ASSUME n < Len(pending[c])
                   PROVE  FALSE
      OBVIOUS
    <3>2. n \in 1..n /\ ~Older(pending[c][n], snap[c]) /\ pending[c][n].terminal
      BY <1>4, <1>6, <2>1, <3>1
    <3>3. PICK j \in 1..m : q[j] = n
      BY <1>6, <2>1, <3>2
    <3> QED
      BY <2>1, <3>2, <3>3
  <2> QED
    BY <1>4, <1>6, <2>1, <2>2
<1>11. SentLive(c, n, m, q)
  BY <1>3, <1>8, <1>9, <1>10 DEF SentLive
<1> QED
  BY <1>11

\* What a step does to a connection.
LEMMA ConnCases ==
  ASSUME TypeOK, Shape, [Next]_vars, NEW c \in Conns
  PROVE  \/ conn'[c] = conn[c] /\ snap'[c] = snap[c] /\ pending'[c] = pending[c] /\ frames'[c] = frames[c]
         \/ Connect(c) \/ ReadSnapshot(c) \/ GoLive(c)
         \/ conn'[c] \notin {"loading", "streaming"} /\ frames'[c] \in {frames[c], <<>>}
         \/ Receive /\ Dispatch(chan[1]) /\ chan[1] \in Known
         \/ \E w \in Writers : Publish(w) /\ ~redis /\ Dispatch(wcopy[w]) /\ wcopy[w] \in Known
<1>1. CASE \/ Tick \/ Lose
           \/ \E w \in Writers : UpdateRow(w) \/ UpdateMisses(w) \/ ReadBack(w) \/ ReadBackFails(w)
  BY <1>1 DEF Tick, Lose, UpdateRow, UpdateMisses, ReadBack, ReadBackFails, connVars
<1>2. ASSUME NEW w \in Writers, Publish(w)
      PROVE  \/ UNCHANGED connVars
             \/ ~redis /\ Dispatch(wcopy[w]) /\ wcopy[w] \in Known
  BY <1>2, KnownRows DEF Publish
<1>3. CASE Receive
  <2>1. Len(chan) >= 1 /\ Head(chan) = chan[1] /\ Len(chan) \in Nat
    BY <1>3, Received, CopyIsRow DEF Receive
  <2> QED
    BY <1>3, <2>1, KnownRows DEF Receive
<1>4. ASSUME NEW d \in Conns, ReadSnapshot(d) \/ Refuse(d) \/ Abort(d) \/ GiveUp(d), d # c
      PROVE  conn'[c] = conn[c] /\ snap'[c] = snap[c] /\ pending'[c] = pending[c] /\ frames'[c] = frames[c]
  BY <1>4 DEF ReadSnapshot, Refuse, Abort, GiveUp, Teardown, TypeOK
<1>5. ASSUME NEW d \in Conns, GoLive(d), d # c
      PROVE  conn'[c] = conn[c] /\ snap'[c] = snap[c] /\ pending'[c] = pending[c] /\ frames'[c] = frames[c]
  BY <1>5, LiveConns
<1>6. CASE Refuse(c) \/ Abort(c) \/ GiveUp(c)
  BY <1>6 DEF Refuse, Abort, GiveUp, Teardown, TypeOK
<1>7. CASE UNCHANGED vars
  BY <1>7 DEF vars, connVars
<1>8. ASSUME NEW d \in Conns, Connect(d), d # c
      PROVE  \/ conn'[c] = conn[c] /\ snap'[c] = snap[c] /\ pending'[c] = pending[c]
                /\ frames'[c] = frames[c]
             \/ conn'[c] \notin {"loading", "streaming"} /\ frames'[c] \in {frames[c], <<>>}
  BY <1>8 DEF Connect, Open, TypeOK
<1> QED
  BY <1>1, <1>2, <1>3, <1>4, <1>5, <1>6, <1>7, <1>8 DEF Next, connVars

\* A version that a client may have seen, while there is more to come.
Fits(v) ==
  /\ v <= row.ver
  /\ \A x \in Known : x.terminal => v < x.ver
  /\ Copying /\ ~wcopy["worker"].terminal => v <= wcopy["worker"].ver

Shown ==
  \A c \in Conns : conn[c] = "streaming" =>
    Len(frames[c]) > 0 /\ \A i \in 1..Len(frames[c]) : Fits(frames[c][i])

LEMMA RowFits ==
  ASSUME TypeOK, Shape, Chain, Order, NEW z \in Known, ~z.terminal
  PROVE  Fits(z.ver)
<1>1. \A x \in Known : x.ver \in Nat
  BY KnownRows, RowFields
<1>2. z.ver <= row.ver
  BY <1>1, KnownRows DEF Chain, Before
<1>3. ASSUME NEW x \in Known, x.terminal PROVE z.ver < x.ver
  BY <1>3 DEF Chain, Before
<1>4. Copying /\ ~wcopy["worker"].terminal => z.ver <= wcopy["worker"].ver
  BY DEF Order, Newest
<1> QED
  BY <1>2, <1>3, <1>4 DEF Fits

LEMMA FitsStep ==
  ASSUME TypeOK, Shape, [Next]_vars, NEW v \in Nat, Fits(v)
  PROVE  Fits(v)'
<1>1. Known' \subseteq Known \cup {row'} /\ row \in Known /\ row.ver \in Nat
  BY KnownStep, KnownRows, RowFields
<1>2. (row' = row \/ row'.ver = row.ver + 1)
  BY RowStep, Written
<1>3. v <= row'.ver /\ \A x \in Known' : x.terminal => v < x.ver
  BY <1>1, <1>2 DEF Fits
<1>4. Copying' => (Copying /\ wcopy'["worker"] = wcopy["worker"]) \/ wcopy'["worker"] = row
  BY DEF Next, vars, Tick, UpdateRow, UpdateMisses, ReadBack, ReadBackFails, Publish, Receive, Lose,
     Connect, ReadSnapshot, GoLive, Refuse, Abort, GiveUp, connFrame, pubVars, rowVars,
     Copying, TypeOK, Writers
<1> QED
  BY <1>3, <1>4 DEF Fits

\* A streaming connection is sent a dispatched event behind the frames it was sent.
LEMMA DispatchFrames ==
  ASSUME TypeOK, Shape, NEW e \in Row, Dispatch(e), NEW c \in Conns, conn[c] = "streaming"
  PROVE  /\ Len(frames[c]) \in Nat /\ Len(frames'[c]) = Len(frames[c]) + 1
         /\ \A i \in 1..Len(frames'[c]) :
              \/ i \in 1..Len(frames[c]) /\ frames'[c][i] = frames[c][i]
              \/ i = Len(frames[c]) + 1 /\ frames'[c][i] = e.ver
         /\ e.terminal => conn'[c] = "closed"
<1>1. /\ Len(frames'[c]) = Len(frames[c]) + 1
      /\ \A i \in 1..Len(frames[c]) : frames'[c][i] = frames[c][i]
      /\ frames'[c][Len(frames[c]) + 1] = e.ver
      /\ conn'[c] = IF conn[c] = "streaming" /\ e.terminal THEN "closed" ELSE conn[c]
  BY Dispatched
<1>2. Len(frames[c]) \in Nat
  BY LenProperties DEF TypeOK
<1> QED
  BY <1>1, <1>2

LEMMA FrameTypes ==
  ASSUME TypeOK, NEW c \in Conns
  PROVE  Len(frames[c]) \in Nat /\ \A i \in 1..Len(frames[c]) : frames[c][i] \in Nat
<1>1. frames[c] \in Seq(0..MaxVersions)
  BY DEF TypeOK
<1>2. Len(frames[c]) \in Nat /\ \A i \in 1..Len(frames[c]) : frames[c][i] \in 0..MaxVersions
  BY <1>1, LenProperties, ElementOfSeq
<1> QED
  BY <1>2

LEMMA ShownStep ==
  TypeOK /\ Shape /\ Chain /\ OtherEnds /\ Order /\ Shown /\ [Next]_vars => Shown'
<1> SUFFICES ASSUME TypeOK, Shape, Chain, OtherEnds, Order, Shown, [Next]_vars,
                    NEW c \in Conns, conn'[c] = "streaming"
             PROVE  Len(frames'[c]) > 0 /\ \A i \in 1..Len(frames'[c]) : Fits(frames[c][i])'
  BY DEF Shown
<1>1. ASSUME conn[c] = "streaming", NEW v, \E i \in 1..Len(frames[c]) : v = frames[c][i]
      PROVE  Fits(v)'
  <2>1. v \in Nat /\ Fits(v)
    BY <1>1, FrameTypes DEF Shown
  <2> QED
    BY <2>1, FitsStep
<1>2. ASSUME NEW z \in Known, ~z.terminal
      PROVE  Fits(z.ver)'
  <2>1. z.ver \in Nat /\ Fits(z.ver)
    BY <1>2, RowFits, KnownRows, RowFields
  <2> QED
    BY <2>1, FitsStep
<1>3. CASE conn'[c] = conn[c] /\ frames'[c] = frames[c]
  BY <1>1, <1>3 DEF Shown
<1>4. CASE Connect(c) \/ ReadSnapshot(c)
  BY <1>4 DEF Connect, ReadSnapshot, TypeOK
<1>5. CASE GoLive(c)
  <2>1. PICK n \in 0..Len(pending[c]) : \E m \in 0..n : \E q \in [1..m -> 1..n] :
          SentLive(c, n, m, q)
    BY <1>5, LiveFrames
  <2>2. PICK m \in 0..n : \E q \in [1..m -> 1..n] : SentLive(c, n, m, q)
    BY <2>1
  <2>a. PICK q \in [1..m -> 1..n] : SentLive(c, n, m, q)
    BY <2>2
  <2>3. /\ Len(frames'[c]) = m + 1
        /\ frames'[c][1] = snap[c].ver
        /\ \A i \in 1..m : frames'[c][i + 1] = pending[c][q[i]].ver
        /\ ~snap[c].terminal
        /\ \A i \in 1..m : ~pending[c][q[i]].terminal
    BY <2>a DEF SentLive
  <2>4. Len(pending[c]) \in Nat /\ n \in Nat /\ m \in Nat
    BY CopyIsRow
  <2>5. snap[c] \in Known /\ \A i \in 1..m : pending[c][q[i]] \in Known
    <3>1. snap[c] \in Known /\ \A i \in 1..Len(pending[c]) : pending[c][i] \in Known
      BY <1>5, KnownRows DEF GoLive
    <3>2. \A i \in 1..m : q[i] \in 1..Len(pending[c])
      BY <2>4
    <3> QED
      BY <3>1, <3>2
  <2>6. ASSUME NEW i \in 1..Len(frames'[c]) PROVE Fits(frames[c][i])'
    <3>1. PICK z \in Known : ~z.terminal /\ frames'[c][i] = z.ver
      <4>1. CASE i = 1
        BY <2>3, <2>5, <4>1
      <4>2. CASE i # 1
        <5>1. i - 1 \in 1..m /\ (i - 1) + 1 = i
          BY <2>3, <2>4, <4>2
        <5>2. frames'[c][i] = pending[c][q[i - 1]].ver
          BY <2>3, <5>1
        <5> QED
          BY <2>3, <2>5, <5>1, <5>2
      <4> QED
        BY <4>1, <4>2
    <3> QED
      BY <1>2, <3>1 DEF Fits
  <2> QED
    BY <2>3, <2>4, <2>6
<1>6. ASSUME NEW e \in Known, Dispatch(e)
      PROVE  Len(frames'[c]) > 0 /\ \A i \in 1..Len(frames'[c]) : Fits(frames[c][i])'
  <2>1. e \in Row
    BY KnownRows
  <2>2. conn[c] = "streaming"
    <3>1. conn'[c] = IF conn[c] = "streaming" /\ e.terminal THEN "closed" ELSE conn[c]
      BY <1>6, <2>1, Dispatched
    <3> QED
      BY <3>1
  <2>3. /\ Len(frames[c]) \in Nat /\ Len(frames'[c]) = Len(frames[c]) + 1
        /\ \A i \in 1..Len(frames'[c]) :
             \/ i \in 1..Len(frames[c]) /\ frames'[c][i] = frames[c][i]
             \/ i = Len(frames[c]) + 1 /\ frames'[c][i] = e.ver
        /\ e.terminal => conn'[c] = "closed"
    BY <1>6, <2>1, <2>2, DispatchFrames
  <2>4. ASSUME NEW i \in 1..Len(frames'[c]) PROVE Fits(frames[c][i])'
    <3>1. CASE frames'[c][i] = e.ver
      BY <1>2, <2>3, <3>1 DEF Fits
    <3>2. CASE i \in 1..Len(frames[c]) /\ frames'[c][i] = frames[c][i]
      <4>1. PICK v : v = frames[c][i]
        OBVIOUS
      <4>2. Fits(v)'
        BY <1>1, <2>2, <3>2, <4>1
      <4> QED
        BY <3>2, <4>1, <4>2 DEF Fits
    <3> QED
      BY <2>3, <3>1, <3>2
  <2> QED
    BY <2>3, <2>4
<1> QED
  BY <1>3, <1>4, <1>5, <1>6, ConnCases

\* What is dispatched locally is no earlier than what was shown.
LEMMA LocalDispatch ==
  ASSUME TypeOK, Shape, OtherEnds, NEW w \in Writers, wpc[w] = "read", wcopy[w] \in Known,
         NEW v \in Nat, Fits(v)
  PROVE  v <= wcopy[w].ver
<1>1. wcopy[w].ver \in Nat /\ wcopy[w].terminal \in BOOLEAN
  BY KnownRows, RowFields
<1>2. CASE wcopy[w].terminal
  BY <1>1, <1>2 DEF Fits
<1>3. CASE ~wcopy[w].terminal
  <2>1. w = "worker"
    BY <1>3 DEF OtherEnds, Writers
  <2> QED
    BY <1>3, <2>1 DEF Fits, Copying
<1> QED
  BY <1>2, <1>3

LEMMA BackwardsStep ==
  /\ TypeOK /\ Shape /\ Chain /\ OtherEnds /\ Order /\ Shown /\ LocalNeverBackwards
  /\ [Next]_vars
  => LocalNeverBackwards'
<1> SUFFICES ASSUME TypeOK, Shape, Chain, OtherEnds, Order, Shown, LocalNeverBackwards,
                    [Next]_vars, ~redis', NEW c \in Conns, NEW h \in 1..(Len(frames'[c]) - 1)
             PROVE  frames'[c][h] <= frames'[c][h + 1]
  BY DEF LocalNeverBackwards, NeverBackwards
<1>0. redis' = redis
  BY DEF Next, vars, Tick, UpdateRow, UpdateMisses, ReadBack, ReadBackFails, Publish, Receive, Lose,
     Connect, ReadSnapshot, GoLive, Refuse, Abort, GiveUp, connFrame
<1>1. \A i \in 1..(Len(frames[c]) - 1) : frames[c][i] <= frames[c][i + 1]
  BY <1>0 DEF LocalNeverBackwards, NeverBackwards
<1>2. CASE frames'[c] = frames[c]
  BY <1>1, <1>2
<1>3. CASE frames'[c] = <<>>
  BY <1>3
<1>4. CASE Connect(c) \/ ReadSnapshot(c)
  BY <1>2, <1>3, <1>4 DEF Connect, ReadSnapshot, TypeOK
<1>5. CASE GoLive(c)
  <2>1. PICK n \in 0..Len(pending[c]) : \E m \in 0..n : \E q \in [1..m -> 1..n] :
          SentLive(c, n, m, q)
    BY <1>5, LiveFrames
  <2>2. PICK m \in 0..n : \E q \in [1..m -> 1..n] : SentLive(c, n, m, q)
    BY <2>1
  <2>a. PICK q \in [1..m -> 1..n] : SentLive(c, n, m, q)
    BY <2>2
  <2>3. /\ \A i, j \in 1..m : i < j => q[i] < q[j]
        /\ Len(frames'[c]) = m + 1
        /\ frames'[c][1] = snap[c].ver
        /\ \A i \in 1..m : frames'[c][i + 1] = pending[c][q[i]].ver
        /\ \A i \in 1..m : ~Older(pending[c][q[i]], snap[c])
        /\ \A i \in 1..m : q[i] < n => ~pending[c][q[i]].terminal
    BY <2>a DEF SentLive
  <2>4. Len(pending[c]) \in Nat /\ n \in Nat /\ m \in Nat
    BY CopyIsRow
  <2>5. snap[c] \in Known /\ \A i \in 1..Len(pending[c]) : pending[c][i] \in Known
    BY <1>5, KnownRows DEF GoLive
  <2>6. \A x \in Known : x.ver \in Nat /\ x.at \in Nat /\ x.terminal \in BOOLEAN
    BY KnownRows, RowFields
  <2>7. \A i \in 1..m : q[i] \in 1..n /\ q[i] \in 1..Len(pending[c])
    BY <2>4
  <2>8. CASE h = 1
    <3>1. 1 \in 1..m /\ frames'[c][2] = pending[c][q[1]].ver
      BY <2>3, <2>4, <2>8
    <3> DEFINE x == pending[c][q[1]]
    <3>2. x \in Known /\ ~(x.at <= snap[c].at)
      BY <1>0, <2>3, <2>5, <2>7, <3>1 DEF Older
    <3> HIDE DEF x
    <3>3. snap[c].ver <= x.ver
      BY <2>5, <2>6, <3>2 DEF Chain, Before
    <3> QED
      BY <2>3, <2>8, <3>1, <3>3 DEF x
  <2>9. CASE h # 1
    <3>1. /\ h - 1 \in 1..m /\ h \in 1..m /\ (h - 1) + 1 = h /\ h - 1 < h
      BY <2>3, <2>4, <2>9
    <3> DEFINE x == pending[c][q[h - 1]]
               y == pending[c][q[h]]
    <3>2. frames'[c][h] = x.ver /\ frames'[c][h + 1] = y.ver
      BY <2>3, <3>1
    <3>3. q[h - 1] < q[h] /\ q[h - 1] \in 1..Len(pending[c]) /\ q[h] \in 1..Len(pending[c])
      BY <2>3, <2>7, <3>1
    <3>4. q[h - 1] < n
      BY <2>4, <2>7, <3>1, <3>3
    <3>5. x \in Known /\ y \in Known /\ ~x.terminal
      BY <2>3, <2>5, <3>1, <3>3, <3>4
    <3>6. Ahead(x, y)
      BY <3>3 DEF Ahead
    <3> HIDE DEF x, y
    <3>7. y.terminal => x.ver <= y.ver
      BY <2>6, <3>5 DEF Chain, Before
    <3>8. ~y.terminal => x.ver <= y.ver
      BY <2>6, <3>5, <3>6 DEF Order, InOrder
    <3>9. x.ver <= y.ver
      BY <3>7, <3>8
    <3> QED
      BY <3>2, <3>9
  <2> QED
    BY <2>8, <2>9
<1>6. ASSUME NEW w \in Writers, Publish(w), Dispatch(wcopy[w]), wcopy[w] \in Known
      PROVE  frames'[c][h] <= frames'[c][h + 1]
  <2>1. wcopy[w] \in Row /\ wpc[w] = "read"
    BY <1>6, KnownRows DEF Publish
  <2>2. CASE conn[c] # "streaming"
    <3>1. frames'[c] = frames[c]
      BY <1>6, <2>1, <2>2, Dispatched
    <3> QED
      BY <1>2, <3>1
  <2>3. CASE conn[c] = "streaming"
    <3>1. /\ Len(frames[c]) \in Nat /\ Len(frames'[c]) = Len(frames[c]) + 1
          /\ \A i \in 1..Len(frames'[c]) :
               \/ i \in 1..Len(frames[c]) /\ frames'[c][i] = frames[c][i]
               \/ i = Len(frames[c]) + 1 /\ frames'[c][i] = wcopy[w].ver
      <4> DEFINE e == wcopy[w]
      <4>1. e \in Row /\ Dispatch(e)
        BY <1>6, <2>1
      <4> HIDE DEF e
      <4>2. /\ Len(frames[c]) \in Nat /\ Len(frames'[c]) = Len(frames[c]) + 1
            /\ \A i \in 1..Len(frames'[c]) :
                 \/ i \in 1..Len(frames[c]) /\ frames'[c][i] = frames[c][i]
                 \/ i = Len(frames[c]) + 1 /\ frames'[c][i] = e.ver
        BY <2>3, <4>1, DispatchFrames
      <4> QED
        BY ONLY <4>2 DEF e
    <3>2. h \in 1..Len(frames[c]) /\ frames'[c][h] = frames[c][h]
      BY <3>1
    <3>3. CASE h = Len(frames[c])
      <4>1. frames'[c][h + 1] = wcopy[w].ver
        BY <3>1, <3>3
      <4>2. Fits(frames[c][h])
        BY <2>3, <3>2 DEF Shown
      <4> QED
        BY <1>6, <2>1, <3>2, <4>1, <4>2, FrameTypes, LocalDispatch
    <3>4. CASE h # Len(frames[c])
      <4>1. h \in 1..(Len(frames[c]) - 1) /\ frames'[c][h + 1] = frames[c][h + 1]
        BY <3>1, <3>2, <3>4
      <4> QED
        BY <1>1, <3>2, <4>1
    <3> QED
      BY <3>3, <3>4
  <2> QED
    BY <2>2, <2>3
<1>7. ~Receive
  BY <1>0 DEF Receive, Shape
<1> QED
  BY <1>2, <1>3, <1>4, <1>5, <1>6, <1>7, ConnCases

-----------------------------------------------------------------------------
(***************************************************************************)
(* What arrives                                                            *)
(***************************************************************************)
Settled == (\A w \in Writers : wpc[w] = "ready") /\ chan = <<>>

\* While the job runs and nothing was lost: behind the last publication the newest
\* version is the last in the channel, and when all is settled the last a client has.
Arrives ==
  lost = 0 /\ ~row.terminal =>
    /\ wpc["worker"] = "ready" /\ chan # <<>> => Last(chan) = row
    /\ Settled => \A c \in Conns :
         /\ conn[c] = "loading" =>
              IF pending[c] = <<>> THEN snap[c] \in {NoRow, row} ELSE Last(pending[c]) = row
         /\ conn[c] = "streaming" /\ (redis \/ ~tie) => Last(frames[c]) = row.ver

\* The job's end is still to be read back, to be published or to be received.
EndInAir ==
  \/ \E w \in Writers : wpc[w] = "written" \/ (wpc[w] = "read" /\ wcopy[w].terminal)
  \/ \E i \in 1..Len(chan) : chan[i].terminal

EndBuffered(c) == \E i \in 1..Len(pending[c]) : pending[c][i].terminal

\* Once the job has ended and nothing was lost, a client that does not know has its end
\* in its buffer or on its way.
EndArrives ==
  lost = 0 /\ row.terminal =>
    \A c \in Conns :
      /\ conn[c] = "loading" /\ snap[c] # NoRow /\ ~snap[c].terminal => EndInAir \/ EndBuffered(c)
      /\ conn[c] = "streaming" /\ (redis \/ ~tie) => EndInAir

LEMMA LastOf ==
  ASSUME NEW S, NEW s \in Seq(S), s # <<>>
  PROVE  Len(s) \in Nat /\ Len(s) >= 1 /\ Last(s) = s[Len(s)]
BY EmptySeq, LenProperties DEF Last

\* Events are lost for good, and a job that has ended has ended.
LEMMA Onwards ==
  ASSUME TypeOK, Shape, [Next]_vars
  PROVE  /\ lost' = 0 => lost = 0
         /\ ~row'.terminal => ~row.terminal
         /\ redis' = redis
<1>1. lost \in Nat
  BY BoundsAssumption DEF TypeOK
<1>2. (lost' = lost \/ lost' = lost + 1) /\ redis' = redis
  BY DEF Next, vars, Tick, UpdateRow, UpdateMisses, ReadBack, ReadBackFails, Publish, Receive, Lose,
     Connect, ReadSnapshot, GoLive, Refuse, Abort, GiveUp, connFrame
<1>3. row' = row \/ (row.terminal => row'.terminal)
  BY RowStep, Written
<1> QED
  BY <1>1, <1>2, <1>3

\* The worker's copy is the row as long as the job runs.
LEMMA CopyIsCurrent ==
  ASSUME TypeOK, Shape, Chain, Order, Copying, ~row.terminal
  PROVE  wcopy["worker"] = row
<1>1. wcopy["worker"] \in Known /\ row \in Known /\ \A x \in Known : x.ver \in Nat
  BY KnownRows, RowFields DEF Copying, Writers
<1>2. ~wcopy["worker"].terminal
  BY <1>1, EndedEnds
<1>3. row.ver <= wcopy["worker"].ver
  BY <1>1, <1>2 DEF Order, Newest
<1> QED
  BY <1>1, <1>3 DEF Chain, Before

\* Going live on a job that runs, with its current version as the last buffered event or,
\* if nothing is buffered, in the snapshot, ends the frames with that version.
LEMMA LiveLast ==
  ASSUME TypeOK, Shape, Chain, NEW c \in Conns, GoLive(c), conn'[c] = "streaming",
         redis \/ ~tie, ~row.terminal,
         IF pending[c] = <<>> THEN snap[c] = row ELSE Last(pending[c]) = row
  PROVE  Last(frames'[c]) = row.ver
<1>1. PICK n \in 0..Len(pending[c]) : \E m \in 0..n : \E q \in [1..m -> 1..n] :
        SentLive(c, n, m, q)
  BY LiveFrames
<1>2. PICK m \in 0..n : \E q \in [1..m -> 1..n] : SentLive(c, n, m, q)
  BY <1>1
<1>3. PICK q \in [1..m -> 1..n] : SentLive(c, n, m, q)
  BY <1>2
<1>4. /\ \A i, j \in 1..m : i < j => q[i] < q[j]
      /\ Len(frames'[c]) = m + 1
      /\ frames'[c][1] = snap[c].ver
      /\ \A i \in 1..m : frames'[c][i + 1] = pending[c][q[i]].ver
      /\ \A i \in 1..m : ~Older(pending[c][q[i]], snap[c])
      /\ n = Len(pending[c])
      /\ \A i \in 1..n : Older(pending[c][i], snap[c]) \/ \E j \in 1..m : q[j] = i
  BY <1>3 DEF SentLive
<1>5. n \in Nat /\ m \in Nat /\ \A i \in 1..m : q[i] \in 1..n
  BY <1>4, CopyIsRow
<1>6. Last(frames'[c]) = frames'[c][m + 1]
  BY <1>4 DEF Last
<1>7. /\ row \in Known /\ snap[c] \in Known /\ \A i \in 1..n : pending[c][i] \in Known
      /\ \A x \in Known : x.ver \in Nat /\ x.at \in Nat
  BY <1>4, KnownRows, RowFields DEF GoLive
<1>8. CASE pending[c] = <<>>
  <2>1. n = 0 /\ m = 0
    BY <1>4, <1>5, <1>8
  <2> QED
    BY <1>4, <1>6, <1>8, <2>1
<1>9. CASE pending[c] # <<>>
  <2>1. n >= 1 /\ pending[c][n] = row
    <3>1. pending[c] \in Seq(Row)
      BY DEF TypeOK
    <3>2. Len(pending[c]) >= 1 /\ Last(pending[c]) = pending[c][Len(pending[c])]
      BY <1>9, <3>1, LastOf
    <3> QED
      BY <1>4, <1>9, <3>2
  <2>2. CASE Older(pending[c][n], snap[c])
    <3>1. ~redis /\ row.at <= snap[c].at /\ ~tie
      BY <2>1, <2>2 DEF Older
    <3>2. snap[c] = row
      BY <1>7, <3>1 DEF Chain, Before
    <3>3. m = 0
      <4>1. SUFFICES ASSUME m # 0
                     PROVE  FALSE
        OBVIOUS
      <4>2. 1 \in 1..m /\ q[1] \in 1..n /\ ~Older(pending[c][q[1]], snap[c])
        BY <1>4, <1>5, <4>1
      <4> DEFINE x == pending[c][q[1]]
      <4>3. x \in Known /\ ~(x.at <= row.at)
        BY <1>7, <3>1, <3>2, <4>2 DEF Older
      <4> HIDE DEF x
      <4> QED
        BY <1>7, <4>3 DEF Chain, Before
    <3> QED
      BY <1>4, <1>6, <3>2, <3>3
  <2>3. CASE ~Older(pending[c][n], snap[c])
    <3>1. n \in 1..n
      BY <1>5, <2>1
    <3>2. PICK j \in 1..m : q[j] = n
      BY <1>4, <2>3, <3>1
    <3>3. j = m
      <4>1. SUFFICES ASSUME j # m
                     PROVE  FALSE
        OBVIOUS
      <4>2. m \in 1..m /\ j < m
        BY <1>5, <4>1
      <4>3. q[j] < q[m] /\ q[m] \in 1..n
        BY <1>4, <1>5, <4>2
      <4> QED
        BY <1>5, <3>2, <4>3
    <3>4. frames'[c][m + 1] = pending[c][n].ver
      BY <1>4, <3>2, <3>3
    <3> QED
      BY <1>6, <2>1, <3>4
  <2> QED
    BY <2>2, <2>3
<1> QED
  BY <1>8, <1>9

\* A connection that goes live with the job's end in its buffer is closed.
LEMMA LiveEnd ==
  ASSUME TypeOK, Shape, Chain, NEW c \in Conns, GoLive(c), EndBuffered(c), redis \/ ~tie
  PROVE  conn'[c] # "streaming"
<1> SUFFICES ASSUME conn'[c] = "streaming"
             PROVE  FALSE
  OBVIOUS
<1>1. PICK n \in 0..Len(pending[c]) : \E m \in 0..n : \E q \in [1..m -> 1..n] :
        SentLive(c, n, m, q)
  BY LiveFrames
<1>2. PICK m \in 0..n : \E q \in [1..m -> 1..n] : SentLive(c, n, m, q)
  BY <1>1
<1>3. PICK q \in [1..m -> 1..n] : SentLive(c, n, m, q)
  BY <1>2
<1>4. /\ ~snap[c].terminal
      /\ n = Len(pending[c])
      /\ \A i \in 1..m : ~pending[c][q[i]].terminal
      /\ \A i \in 1..n : Older(pending[c][i], snap[c]) \/ \E j \in 1..m : q[j] = i
  BY <1>3 DEF SentLive
<1>5. PICK i \in 1..n : pending[c][i].terminal
  BY <1>4 DEF EndBuffered
<1>6. /\ pending[c][i] \in Known /\ snap[c] \in Known
      /\ \A x \in Known : x.ver \in Nat /\ x.at \in Nat
  BY <1>4, KnownRows, RowFields DEF GoLive
<1>7. Older(pending[c][i], snap[c])
  BY <1>4, <1>5
<1>8. ~tie /\ pending[c][i].at <= snap[c].at
  BY <1>7 DEF Older
<1>9. Before(snap[c], pending[c][i]) \/ Before(pending[c][i], snap[c])
  BY <1>6 DEF Chain
<1> QED
  BY <1>4, <1>5, <1>6, <1>8, <1>9 DEF Before

\* A buffer that has the job's end keeps it when a last event of progress comes.
LEMMA EndSurvives ==
  ASSUME TypeOK, Shape, Order, NEW e \in Known, Dispatch(e), NEW c \in Conns, EndBuffered(c),
         \A j \in 1..Len(pending[c]) : Ahead(pending[c][j], e) \/ e.terminal
  PROVE  EndBuffered(c)'
<1>1. e \in Row /\ Len(pending[c]) \in Nat /\ \A x \in Known : x.ver \in Nat
  BY KnownRows, CopyIsRow, RowFields
<1>2. PICK i \in 1..Len(pending[c]) : pending[c][i].terminal
  BY DEF EndBuffered
<1>3. CASE conn[c] # "loading"
  BY <1>1, <1>3, Dispatched DEF EndBuffered
<1>4. CASE conn[c] = "loading"
  <2>1. PICK k \in {0, 1} :
          /\ k = 1 => Len(pending[c]) >= 2
          /\ Len(pending'[c]) = Len(pending[c]) - k + 1
          /\ pending'[c][Len(pending'[c])] = e
          /\ \A h \in 1..(Len(pending[c]) - k) : pending'[c][h] = pending[c][h + k]
    BY <1>1, <1>4, Dispatched
  <2>2. Len(pending'[c]) \in 1..Len(pending'[c])
    BY <1>1, <2>1
  <2>3. CASE e.terminal
    BY <2>1, <2>2, <2>3 DEF EndBuffered
  <2>4. CASE i - k \in 1..(Len(pending[c]) - k)
    <3>1. (i - k) + k = i /\ i - k \in 1..Len(pending'[c])
      BY <1>1, <2>1, <2>4
    <3>2. pending'[c][i - k] = pending[c][i]
      BY <2>1, <2>4, <3>1
    <3> QED
      BY <1>2, <3>1, <3>2 DEF EndBuffered
  <2>5. CASE ~e.terminal /\ i - k \notin 1..(Len(pending[c]) - k)
    <3>1. i = 1 /\ k = 1 /\ 2 \in 1..Len(pending[c]) /\ 1 \in 1..(Len(pending[c]) - k)
          /\ 1 \in 1..Len(pending'[c]) /\ 1 < 2
      BY <1>1, <2>1, <2>5
    <3> DEFINE x == pending[c][1]
               y == pending[c][2]
    <3>2. x \in Known /\ y \in Known /\ Ahead(x, y) /\ Ahead(y, e) /\ x.terminal
      BY <1>2, <2>5, <3>1, KnownRows DEF Ahead
    <3>3. pending'[c][1] = y
      BY <2>1, <3>1
    <3> HIDE DEF x, y
    <3>4. InOrder(x, y) /\ InOrder(y, e)
      BY <3>2 DEF Order
    <3>5. y.terminal
      BY <1>1, <2>5, <3>2, <3>4 DEF InOrder, Newest
    <3> QED
      BY <3>1, <3>3, <3>5 DEF EndBuffered
  <2> QED
    BY <2>3, <2>4, <2>5
<1> QED
  BY <1>3, <1>4

LEMMA DispatchLast ==
  ASSUME TypeOK, Shape, NEW e \in Row, Dispatch(e), NEW c \in Conns
  PROVE  /\ conn'[c] = "loading" => pending'[c] # <<>> /\ Last(pending'[c]) = e
         /\ conn'[c] = "streaming" => Last(frames'[c]) = e.ver
<1>1. conn'[c] = IF conn[c] = "streaming" /\ e.terminal THEN "closed" ELSE conn[c]
  BY Dispatched
<1>2. ASSUME conn[c] = "loading" PROVE pending'[c] # <<>> /\ Last(pending'[c]) = e
  <2>1. \E k \in {0, 1} :
          /\ k = 1 => Len(pending[c]) >= 2
          /\ Len(pending'[c]) = Len(pending[c]) - k + 1
          /\ pending'[c][Len(pending'[c])] = e
          /\ \A i \in 1..(Len(pending[c]) - k) : pending'[c][i] = pending[c][i + k]
    BY <1>2, Dispatched
  <2>2. Len(pending'[c]) # 0 /\ pending'[c][Len(pending'[c])] = e
    BY <2>1, CopyIsRow
  <2> QED
    BY <2>2 DEF Last
<1>3. ASSUME conn[c] = "streaming" PROVE Last(frames'[c]) = e.ver
  <2>1. Len(frames'[c]) = Len(frames[c]) + 1 /\ frames'[c][Len(frames[c]) + 1] = e.ver
    BY <1>3, Dispatched
  <2> QED
    BY <2>1 DEF Last
<1> QED
  BY <1>1, <1>2, <1>3

\* While the job runs, the last event to settle is of its current version.
LEMMA SettledStep ==
  ASSUME TypeOK, Shape, Chain, OtherEnds, Order, Arrives, [Next]_vars,
         lost' = 0, ~row'.terminal, Settled'
  PROVE  row' = row /\ tie' = tie /\ (Settled \/ Dispatch(row))
<1>1. lost = 0 /\ ~row.terminal /\ wpc["other"] = "ready"
  BY Onwards DEF OtherEnds
<1>2. ~\E w \in Writers : UpdateRow(w) \/ UpdateMisses(w) \/ ReadBack(w) \/ ReadBackFails(w)
  BY <1>1 DEF UpdateRow, UpdateMisses, ReadBack, ReadBackFails, Settled, TypeOK
<1>3. row' = row /\ tie' = tie
  BY <1>2, RowStep
<1>4. ~Lose
  BY <1>1 DEF Lose
<1>5. ASSUME NEW w \in Writers, Publish(w) PROVE Dispatch(row)
  <2>1. w = "worker" /\ wcopy["worker"] = row
    BY <1>1, <1>5, CopyIsCurrent DEF Publish, Copying, Writers
  <2>2. CASE redis
    <3>1. chan' = Append(chan, row) /\ chan \in Seq(Row) /\ row \in Row
      BY <1>5, <2>1, <2>2 DEF Publish, TypeOK
    <3>2. Append(chan, row) # <<>>
      BY <3>1, AppendProperties
    <3>3. chan' = <<>>
      BY DEF Settled
    <3> QED
      BY <3>1, <3>2, <3>3
  <2> QED
    BY <1>5, <2>1, <2>2 DEF Publish
<1>6. CASE Receive
  <2>1. /\ Len(chan) >= 1 /\ Head(chan) = chan[1] /\ Len(chan') = Len(chan) - 1
        /\ Len(chan) \in Nat
    BY <1>6, Received, CopyIsRow DEF Receive
  <2>2. Len(chan') = 0
    BY DEF Settled
  <2>3. Len(chan) = 1 /\ Last(chan) = chan[Len(chan)]
    BY <2>1, <2>2 DEF Last
  <2>4. wpc["worker"] = "ready" /\ chan # <<>>
    BY <1>6 DEF Receive, pubVars, Settled, Writers
  <2>5. Last(chan) = row
    BY <1>1, <2>4 DEF Arrives
  <2> QED
    BY <1>3, <1>6, <2>1, <2>3, <2>5 DEF Receive
<1>7. CASE Tick \/ UNCHANGED vars \/
           \E c \in Conns :
             Connect(c) \/ ReadSnapshot(c) \/ GoLive(c) \/ Refuse(c) \/ Abort(c) \/ GiveUp(c)
  BY <1>3, <1>7 DEF Tick, vars, Connect, ReadSnapshot, GoLive, Refuse, Abort, GiveUp, connFrame,
     pubVars, Settled
<1> QED
  BY <1>2, <1>3, <1>4, <1>5, <1>6, <1>7 DEF Next

LEMMA ArrivesStep ==
  TypeOK /\ Shape /\ Chain /\ OtherEnds /\ Order /\ Arrives /\ [Next]_vars => Arrives'
<1> SUFFICES ASSUME TypeOK, Shape, Chain, OtherEnds, Order, Arrives, [Next]_vars,
                    lost' = 0, ~row'.terminal
             PROVE  /\ wpc'["worker"] = "ready" /\ chan' # <<>> => Last(chan') = row'
                    /\ Settled' => \A c \in Conns :
                         /\ conn'[c] = "loading" =>
                              IF pending'[c] = <<>> THEN snap'[c] \in {NoRow, row'}
                                ELSE Last(pending'[c]) = row'
                         /\ conn'[c] = "streaming" /\ (redis' \/ ~tie') => Last(frames'[c]) = row'.ver
  BY DEF Arrives
<1>1. lost = 0 /\ ~row.terminal /\ wpc["other"] = "ready" /\ redis' = redis
  BY Onwards DEF OtherEnds
<1>2. ASSUME wpc'["worker"] = "ready", chan' # <<>> PROVE Last(chan') = row'
  <2>1. ~Lose /\ ~\E w \in Writers : ReadBackFails(w)
    BY <1>1 DEF Lose, ReadBackFails
  <2>2. ASSUME NEW w \in Writers, UpdateRow(w) \/ UpdateMisses(w) \/ ReadBack(w) PROVE FALSE
    <3>1. w = "worker" \/ (w = "other" /\ UpdateRow(w))
      BY <1>1, <2>2 DEF UpdateMisses, ReadBack, Writers
    <3> QED
      BY <1>2, <2>2, <3>1, Written DEF UpdateRow, UpdateMisses, ReadBack, TypeOK
  <2>3. row' = row
    BY <2>2, RowStep
  <2>4. ASSUME NEW w \in Writers, Publish(w) PROVE Last(chan') = row
    <3>1. w = "worker" /\ wcopy["worker"] = row
      BY <1>1, <2>4, CopyIsCurrent DEF Publish, Copying, Writers
    <3>2. redis
      BY <1>2, <2>4 DEF Publish, Shape
    <3>3. chan' = Append(chan, row) /\ chan \in Seq(Row) /\ row \in Row
      BY <2>4, <3>1, <3>2 DEF Publish, TypeOK
    <3>4. Len(chan') = Len(chan) + 1 /\ chan'[Len(chan) + 1] = row
      BY <3>3, AppendProperties
    <3> QED
      BY <3>4 DEF Last
  <2>5. CASE Receive
    <3>1. /\ Len(chan) >= 1 /\ Len(chan') = Len(chan) - 1 /\ Len(chan) \in Nat
          /\ \A i \in 1..Len(chan') : i + 1 \in 1..Len(chan) /\ chan'[i] = chan[i + 1]
          /\ chan' \in Seq(Row)
      BY <2>5, Received, CopyIsRow DEF Receive
    <3>2. Len(chan') >= 1 /\ Len(chan') \in Nat
      BY <1>2, <3>1, LastOf
    <3>3. Last(chan') = chan[Len(chan)]
      BY <3>1, <3>2 DEF Last
    <3>4. wpc["worker"] = "ready" /\ chan # <<>>
      BY <1>2, <2>5 DEF Receive, pubVars
    <3>5. Last(chan) = row
      BY <1>1, <3>4 DEF Arrives
    <3> QED
      BY <2>3, <3>3, <3>5 DEF Last
  <2>6. CASE UNCHANGED <<chan, wpc>>
    BY <1>1, <1>2, <2>3, <2>6 DEF Arrives
  <2>7. UNCHANGED <<chan, wpc>> \/ Receive \/ Lose
        \/ \E w \in Writers :
           UpdateRow(w) \/ UpdateMisses(w) \/ ReadBack(w) \/ ReadBackFails(w) \/ Publish(w)
    BY DEF Next, vars, Tick, Connect, ReadSnapshot, GoLive, Refuse, Abort, GiveUp, connFrame,
       pubVars
  <2> QED
    BY <2>1, <2>2, <2>3, <2>4, <2>5, <2>6, <2>7
<1>3. ASSUME Settled', NEW c \in Conns
      PROVE  /\ conn'[c] = "loading" =>
                  IF pending'[c] = <<>> THEN snap'[c] \in {NoRow, row'}
                    ELSE Last(pending'[c]) = row'
             /\ conn'[c] = "streaming" /\ (redis' \/ ~tie') => Last(frames'[c]) = row'.ver
  <2>1. row' = row /\ tie' = tie /\ (Settled \/ Dispatch(row)) /\ row \in Row
    BY <1>3, SettledStep DEF TypeOK
  <2>2. CASE Dispatch(row)
    BY <2>1, <2>2, DispatchLast
  <2>3. CASE Settled
    <3>1. /\ conn[c] = "loading" =>
               IF pending[c] = <<>> THEN snap[c] \in {NoRow, row} ELSE Last(pending[c]) = row
          /\ conn[c] = "streaming" /\ (redis \/ ~tie) => Last(frames[c]) = row.ver
      BY <1>1, <2>3 DEF Arrives
    <3>2. ~Receive /\ ~\E w \in Writers : Publish(w)
      BY <2>3 DEF Receive, Publish, Settled
    <3>3. CASE conn'[c] = conn[c] /\ snap'[c] = snap[c] /\ pending'[c] = pending[c]
               /\ frames'[c] = frames[c]
      BY <1>1, <2>1, <3>1, <3>3
    <3>4. CASE Connect(c)
      BY <3>4 DEF Connect, TypeOK
    <3>5. CASE ReadSnapshot(c)
      BY <2>1, <3>1, <3>5 DEF ReadSnapshot, TypeOK
    <3>6. CASE GoLive(c)
      <4>1. conn[c] = "loading" /\ snap[c] # NoRow
        BY <3>6 DEF GoLive
      <4>2. IF pending[c] = <<>> THEN snap[c] = row ELSE Last(pending[c]) = row
        BY <3>1, <4>1
      <4>3. conn'[c] \in {"closed", "streaming"}
        BY <3>6, LiveConns
      <4> QED
        BY <1>1, <2>1, <3>6, <4>2, <4>3, LiveLast
    <3>7. CASE conn'[c] \notin {"loading", "streaming"}
      BY <3>7
    <3> QED
      BY <3>2, <3>3, <3>4, <3>5, <3>6, <3>7, ConnCases
  <2> QED
    BY <2>1, <2>2, <2>3
<1> QED
  BY <1>2, <1>3

\* The end of a job that has ended stays in the air until it is dispatched.
LEMMA EndInAirStep ==
  ASSUME TypeOK, Shape, [Next]_vars, lost' = 0, row.terminal, EndInAir
  PROVE  EndInAir' \/ \E e \in Known : e.terminal /\ Dispatch(e)
<1>1. lost = 0
  BY Onwards
<1>2. ~Lose /\ ~\E w \in Writers : ReadBackFails(w)
  BY <1>1 DEF Lose, ReadBackFails
<1>3. ASSUME NEW w \in Writers, UpdateRow(w) PROVE EndInAir'
  <2>1. wpc'[w] = "written"
    BY <1>3 DEF UpdateRow, TypeOK
  <2> QED
    BY <2>1 DEF EndInAir
<1>4. ASSUME NEW w \in Writers, UpdateMisses(w) PROVE EndInAir'
  <2>1. wpc'[w] = "written"
    BY <1>4 DEF UpdateMisses, TypeOK
  <2> QED
    BY <2>1 DEF EndInAir
<1>5. ASSUME NEW w \in Writers, ReadBack(w) PROVE EndInAir'
  <2>1. wpc'[w] = "read" /\ wcopy'[w] = row
    BY <1>5 DEF ReadBack, TypeOK
  <2> QED
    BY <2>1 DEF EndInAir
<1>6. ASSUME NEW v \in Writers, Publish(v)
      PROVE  EndInAir' \/ \E e \in Known : e.terminal /\ Dispatch(e)
  <2>1. /\ wpc[v] = "read" /\ wcopy[v] \in Known /\ wcopy[v] \in Row
        /\ \A w \in Writers \ {v} : wpc'[w] = wpc[w] /\ wcopy'[w] = wcopy[w]
    BY <1>6, KnownRows, CopyIsRow DEF Publish, TypeOK
  <2>2. ASSUME NEW w \in Writers \ {v}, wpc[w] = "written" \/ (wpc[w] = "read" /\ wcopy[w].terminal)
        PROVE  EndInAir'
    BY <2>1, <2>2 DEF EndInAir
  <2>3. CASE redis
    <3>1. chan' = Append(chan, wcopy[v]) /\ chan \in Seq(Row)
      BY <1>6, <2>3 DEF Publish, TypeOK
    <3>2. /\ Len(chan') = Len(chan) + 1 /\ Len(chan) \in Nat
          /\ \A i \in 1..Len(chan) : chan'[i] = chan[i]
          /\ chan'[Len(chan) + 1] = wcopy[v]
      BY <2>1, <3>1, AppendProperties, LenProperties
    <3>3. ASSUME NEW i \in 1..Len(chan), chan[i].terminal PROVE EndInAir'
      <4>1. i \in 1..Len(chan') /\ chan'[i].terminal
        BY <3>2, <3>3
      <4> QED
        BY <4>1 DEF EndInAir
    <3>4. ASSUME wcopy[v].terminal PROVE EndInAir'
      <4>1. Len(chan) + 1 \in 1..Len(chan') /\ chan'[Len(chan) + 1].terminal
        BY <3>2, <3>4
      <4> QED
        BY <4>1 DEF EndInAir
    <3> QED
      BY <2>1, <2>2, <3>3, <3>4 DEF EndInAir
  <2>4. CASE ~redis
    <3>1. Dispatch(wcopy[v]) /\ chan' = chan
      BY <1>6, <2>4 DEF Publish
    <3>2. ASSUME NEW i \in 1..Len(chan), chan[i].terminal PROVE EndInAir'
      BY <3>1, <3>2 DEF EndInAir
    <3>3. wcopy[v].terminal => \E e \in Known : e.terminal /\ Dispatch(e)
      BY <2>1, <3>1
    <3> QED
      BY <2>1, <2>2, <3>2, <3>3 DEF EndInAir
  <2> QED
    BY <2>3, <2>4
<1>7. CASE Receive
  <2>1. /\ Dispatch(chan[1]) /\ chan[1] \in Known /\ UNCHANGED pubVars /\ Len(chan) \in Nat
        /\ Len(chan') = Len(chan) - 1
        /\ \A i \in 1..Len(chan') : chan'[i] = chan[i + 1]
    <3>1. /\ Len(chan) >= 1 /\ Head(chan) = chan[1] /\ Len(chan') = Len(chan) - 1
          /\ Len(chan) \in Nat
          /\ \A i \in 1..Len(chan') : i + 1 \in 1..Len(chan) /\ chan'[i] = chan[i + 1]
      BY <1>7, Received, CopyIsRow DEF Receive
    <3> QED
      BY <1>7, <3>1, KnownRows DEF Receive
  <2>2. ASSUME NEW i \in 1..Len(chan), chan[i].terminal, i # 1 PROVE EndInAir'
    <3>1. i - 1 \in 1..Len(chan') /\ (i - 1) + 1 = i
      BY <2>1, <2>2
    <3>2. chan'[i - 1].terminal
      BY <2>1, <2>2, <3>1
    <3> QED
      BY <3>1, <3>2 DEF EndInAir
  <2>3. ASSUME NEW w \in Writers, wpc[w] = "written" \/ (wpc[w] = "read" /\ wcopy[w].terminal)
        PROVE  EndInAir'
    BY <2>1, <2>3 DEF EndInAir, pubVars
  <2>4. chan[1].terminal => \E e \in Known : e.terminal /\ Dispatch(e)
    BY <2>1
  <2> QED
    BY <2>2, <2>3, <2>4 DEF EndInAir
<1>8. CASE UNCHANGED <<chan, pubVars>>
  BY <1>8 DEF EndInAir, pubVars
<1>9. UNCHANGED <<chan, pubVars>> \/ Receive \/ Lose
      \/ \E w \in Writers :
           UpdateRow(w) \/ UpdateMisses(w) \/ ReadBack(w) \/ ReadBackFails(w) \/ Publish(w)
  BY DEF Next, vars, Tick, Connect, ReadSnapshot, GoLive, Refuse, Abort, GiveUp, connFrame,
     pubVars
<1> QED
  BY <1>2, <1>3, <1>4, <1>5, <1>6, <1>7, <1>8, <1>9

\* A snapshot of a job that has ended closes the connection.
LEMMA LiveNonterminal ==
  ASSUME TypeOK, Shape, NEW c \in Conns, GoLive(c), conn'[c] = "streaming"
  PROVE  ~snap[c].terminal
BY LiveFrames DEF SentLive

LEMMA EndArrivesStep ==
  TypeOK /\ Shape /\ Chain /\ OtherEnds /\ Order /\ EndArrives /\ [Next]_vars => EndArrives'
<1> SUFFICES ASSUME TypeOK, Shape, Chain, OtherEnds, Order, EndArrives, [Next]_vars,
                    lost' = 0, row'.terminal, ~EndInAir', NEW c \in Conns
             PROVE  /\ conn'[c] = "loading" /\ snap'[c] # NoRow /\ ~snap'[c].terminal =>
                         EndBuffered(c)'
                    /\ conn'[c] = "streaming" => ~(redis' \/ ~tie')
  BY DEF EndArrives
<1>1. ~\E w \in Writers : UpdateRow(w)
  BY DEF UpdateRow, EndInAir, TypeOK
<1>2. row' = row /\ tie' = tie /\ redis' = redis /\ lost = 0 /\ row.terminal
  BY <1>1, RowStep, Onwards
<1>3. EndInAir => \E e \in Known : e.terminal /\ Dispatch(e)
  BY <1>2, EndInAirStep
<1>4. ASSUME NEW e \in Known, e.terminal, Dispatch(e)
      PROVE  (conn'[c] = "loading" => EndBuffered(c)') /\ conn'[c] # "streaming"
  <2>1. e \in Row
    BY KnownRows
  <2>2. conn'[c] = IF conn[c] = "streaming" /\ e.terminal THEN "closed" ELSE conn[c]
    BY <1>4, <2>1, Dispatched
  <2>3. ASSUME conn'[c] = "loading" PROVE EndBuffered(c)'
    <3>1. pending'[c] # <<>> /\ Last(pending'[c]) = e
      BY <1>4, <2>1, <2>3, DispatchLast
    <3>2. pending'[c] \in Seq(Row)
      BY <1>4, <2>1, Dispatched
    <3>3. Len(pending'[c]) \in 1..Len(pending'[c]) /\ pending'[c][Len(pending'[c])].terminal
      BY <1>4, <3>1, <3>2, LastOf
    <3> QED
      BY <3>3 DEF EndBuffered
  <2> QED
    BY <1>4, <2>2, <2>3
<1>5. SUFFICES ASSUME ~\E e \in Known : e.terminal /\ Dispatch(e)
               PROVE  /\ conn'[c] = "loading" /\ snap'[c] # NoRow /\ ~snap'[c].terminal =>
                           EndBuffered(c)'
                      /\ conn'[c] = "streaming" => ~(redis' \/ ~tie')
  BY <1>4
<1>6. /\ conn[c] = "loading" /\ snap[c] # NoRow /\ ~snap[c].terminal => EndBuffered(c)
      /\ conn[c] = "streaming" => ~(redis \/ ~tie)
  BY <1>2, <1>3, <1>5 DEF EndArrives
<1>7. CASE conn'[c] = conn[c] /\ snap'[c] = snap[c] /\ pending'[c] = pending[c]
  BY <1>2, <1>6, <1>7 DEF EndBuffered
<1>8. CASE Connect(c)
  BY <1>8 DEF Connect, TypeOK
<1>9. CASE ReadSnapshot(c)
  BY <1>2, <1>9 DEF ReadSnapshot, TypeOK
<1>10. CASE GoLive(c)
  <2>1. conn[c] = "loading" /\ snap[c] # NoRow /\ conn'[c] # "loading"
    BY <1>10, LiveConns DEF GoLive
  <2>2. ASSUME conn'[c] = "streaming", redis \/ ~tie PROVE FALSE
    <3>1. ~snap[c].terminal
      BY <1>10, <2>2, LiveNonterminal
    <3>2. EndBuffered(c)
      BY <1>6, <2>1, <3>1
    <3> QED
      BY <1>10, <2>2, <3>2, LiveEnd
  <2> QED
    BY <1>2, <2>1, <2>2
<1>11. CASE conn'[c] \notin {"loading", "streaming"}
  BY <1>11
<1>12. ASSUME NEW e \in Known, Dispatch(e),
              \A j \in 1..Len(pending[c]) : Ahead(pending[c][j], e) \/ e.terminal
       PROVE  /\ conn'[c] = "loading" /\ snap'[c] # NoRow /\ ~snap'[c].terminal => EndBuffered(c)'
              /\ conn'[c] = "streaming" => ~(redis' \/ ~tie')
  <2>1. conn'[c] = (IF conn[c] = "streaming" /\ e.terminal THEN "closed" ELSE conn[c])
        /\ snap' = snap
    BY <1>12, KnownRows, Dispatched
  <2>2. EndBuffered(c) => EndBuffered(c)'
    BY <1>12, EndSurvives
  <2> QED
    BY <1>2, <1>6, <2>1, <2>2
<1>13. CASE Receive /\ Dispatch(chan[1]) /\ chan[1] \in Known
  <2>1. 1 \in 1..Len(chan)
    BY <1>13, Received, CopyIsRow DEF Receive
  <2>2. \A j \in 1..Len(pending[c]) : Ahead(pending[c][j], chan[1])
    BY <2>1 DEF Ahead
  <2> QED
    BY <1>12, <1>13, <2>2
<1>14. ASSUME NEW w \in Writers, Publish(w), Dispatch(wcopy[w]), wcopy[w] \in Known
       PROVE  /\ conn'[c] = "loading" /\ snap'[c] # NoRow /\ ~snap'[c].terminal => EndBuffered(c)'
              /\ conn'[c] = "streaming" => ~(redis' \/ ~tie')
  <2>1. wpc[w] = "read" /\ w \in {"worker", "other"}
    BY <1>14 DEF Publish, Writers
  <2>2. \A j \in 1..Len(pending[c]) : Ahead(pending[c][j], wcopy[w]) \/ wcopy[w].terminal
    BY <2>1 DEF Ahead, Copying, OtherEnds
  <2> QED
    BY <1>12, <1>14, <2>2
<1> QED
  BY <1>7, <1>8, <1>9, <1>10, <1>11, <1>13, <1>14, ConnCases

-----------------------------------------------------------------------------
(***************************************************************************)
(* The inductive invariant and the theorems                                *)
(***************************************************************************)
SseInv ==
  /\ TypeOK
  /\ Shape
  /\ SlotsInv
  /\ Chain
  /\ OtherEnds
  /\ Order
  /\ Shown
  /\ LocalNeverBackwards
  /\ Arrives
  /\ EndArrives

LEMMA SseInit == Init => SseInv
<1> SUFFICES ASSUME Init
             PROVE  SseInv
  OBVIOUS
<1>1. /\ row \in Row /\ row.ver = 0 /\ row.at = 0 /\ ~row.terminal
      /\ \A w \in Writers : wpc[w] = "ready" /\ wcopy[w] = NoRow
      /\ \A c \in Conns : conn[c] = "closed" /\ snap[c] = NoRow /\ pending[c] = <<>>
                          /\ frames[c] = <<>>
      /\ chan = <<>> /\ clock = 0
  BY BoundsAssumption DEF Init, Row
<1>2. TypeOK
  <2>1. clock \in 0..MaxClock /\ slots \in Nat /\ lost \in 0..MaxLosses
    BY BoundsAssumption DEF Init
  <2>5. redis \in BOOLEAN
    BY DEF Init
  <2>6. tie \in BOOLEAN
    BY DEF Init
  <2>2. <<>> \in Seq(Row) /\ <<>> \in Seq(0..MaxVersions) /\ Len(<<>>) = 0
    BY EmptySeq
  <2>3. /\ wpc \in [Writers -> {"ready", "written", "read"}]
        /\ wcopy \in [Writers -> Row \cup {NoRow}]
        /\ conn \in [Conns -> {"closed", "refused", "loading", "streaming"}]
        /\ snap \in [Conns -> Row \cup {NoRow}]
        /\ pending \in [Conns -> Seq(Row)]
        /\ frames \in [Conns -> Seq(0..MaxVersions)]
    BY <2>2 DEF Init
  <2>4. \A c \in Conns : Len(pending[c]) <= MaxPending
    BY <1>1, <2>2, LimitsAssumption
  <2> QED
    BY <1>1, <2>1, <2>2, <2>3, <2>4, <2>5, <2>6 DEF TypeOK
<1>3. Shape
  BY <1>1 DEF Shape
<1>4. SlotsInv
  <2>1. OpenConns = {}
    BY <1>1 DEF OpenConns, Open
  <2>2. IsFiniteSet(OpenConns) /\ Cardinality(OpenConns) = 0
    BY <2>1, FS_EmptySet
  <2>3. slots = 0 /\ slots <= MaxConns
    BY LimitsAssumption DEF Init
  <2> QED
    BY <2>2, <2>3 DEF SlotsInv, SlotsExact, OpenConns
<1>5. Known = {row} /\ \A x : ~Queued(x)
  BY <1>1, NoRowAssumption DEF Known, Queued
<1>6. Chain
  BY <1>5 DEF Chain, Before
<1>7. OtherEnds
  BY <1>1 DEF OtherEnds, Writers
<1>8. Order
  <2>1. \A x, y \in Known : ~Ahead(x, y)
    BY <1>2, <1>3, <1>5, AheadKnown
  <2> QED
    BY <1>1, <2>1 DEF Order, Copying, Writers
<1>9. Shown
  BY <1>1 DEF Shown
<1>10. LocalNeverBackwards
  BY <1>1 DEF LocalNeverBackwards, NeverBackwards
<1>11. Arrives
  BY <1>1 DEF Arrives
<1>12. EndArrives
  BY <1>1 DEF EndArrives
<1> QED
  BY <1>2, <1>3, <1>4, <1>6, <1>7, <1>8, <1>9, <1>10, <1>11, <1>12 DEF SseInv

LEMMA SseStep == SseInv /\ [Next]_vars => SseInv'
BY TypeStep, SlotsStep, ChainStep, OtherEndsStep, OrderStep, ShownStep, BackwardsStep,
   ArrivesStep, EndArrivesStep
   DEF SseInv

LEMMA SseInvariant == Spec => []SseInv
BY SseInit, SseStep, PTL DEF Spec

\* The type invariant: in particular no connection buffers more than its limit, and only
\* rows are buffered, published and shown (JobEventsService, JobsController.getEvents).
THEOREM TypesHold == Spec => []TypeOK
BY SseInvariant, PTL DEF SseInv

\* Whatever way a stream ends - its job's end, live or in the replay, a refusal, an abort -
\* its slot is given back exactly once: activeSseConnections is the number of open streams
\* and never above the limit (JobsController.getEvents, teardown).
THEOREM EverySlotIsFreed == Spec => []SlotsExact
<1>1. SseInv => SlotsExact
  BY DEF SseInv, SlotsInv
<1> QED
  BY <1>1, SseInvariant, PTL

\* Without Redis no client is shown an earlier version behind a later one, neither by the
\* replay of its buffer nor by events that were published in another order than they were
\* written (JobsController.getEvents, the comparison with the snapshot's updatedAt).
THEOREM NobodyGoesBack == Spec => []LocalNeverBackwards
BY SseInvariant, PTL DEF SseInv

\* A stream that is still open when writers and transport are quiet shows the job's current
\* version, unless an event was lost or, without Redis, two versions share a millisecond:
\* subscribing before the snapshot and replaying the buffer misses nothing, at any size of
\* the buffer from two (JobsController.getEvents, JobEventsService.publish).
THEOREM QuietMeansUpToDate == Spec => []UpToDate
<1>1. SseInv => UpToDate
  <2> SUFFICES ASSUME SseInv, NEW c \in Conns, conn[c] = "streaming",
                      \A w \in Writers : wpc[w] = "ready", chan = <<>>, lost = 0, redis \/ ~tie
               PROVE  Last(frames[c]) = row.ver
    BY DEF UpToDate
  <2>1. ~EndInAir
    BY DEF EndInAir
  <2>2. row.terminal \in BOOLEAN
    BY RowFields DEF SseInv, TypeOK
  <2>3. ~row.terminal
    BY <2>1, <2>2 DEF SseInv, EndArrives
  <2> QED
    BY <2>3 DEF SseInv, Arrives, Settled
<1> QED
  BY <1>1, SseInvariant, PTL
=============================================================================
