------------------------------ MODULE Snowflake ------------------------------
(***************************************************************************)
(* Snowflake ids: Snowflake.nextId and tilNextMillis, in a process that is *)
(* restarted and whose clock is set back.  An id is the millisecond, the   *)
(* worker (with its data centre) and a sequence number of so many bits;    *)
(* processes are configured with different workers, so that only ids of    *)
(* one worker have to be compared.  JavaScript runs nextId without         *)
(* interruption; only the clock goes on while it waits for the next        *)
(* millisecond.                                                            *)
(***************************************************************************)
EXTENDS Integers

CONSTANTS
  SeqSize,   \* 2^12 in the code
  MaxTime,   \* bound: the clock
  MaxBack    \* bound: how often a clock is set back

ASSUME SnowflakeAssumption ==
  /\ SeqSize \in Nat \ {0} /\ MaxTime \in Nat /\ MaxBack \in Nat

VARIABLES
  clock,      \* Date.now()
  lastTime,   \* lastTimestamp, -1 at the start
  sequence,
  waiting,    \* in tilNextMillis
  given,      \* the ids given so far, <<millisecond, sequence number>>
  disorder,   \* history: an id was given that is not above all that were given before
  before,     \* history: the last millisecond an earlier process used, -1 when none
  behind,     \* history: an id was given of a millisecond up to that one
  back        \* how often the clock was set back

snowflakeVars == <<clock, lastTime, sequence, waiting, given, disorder, before,
                   behind, back>>

Times == 0..MaxTime

SnowflakeTypeOK ==
  /\ clock \in Times
  /\ lastTime \in Times \cup {-1}
  /\ sequence \in 0..SeqSize - 1
  /\ waiting \in BOOLEAN
  /\ given \in SUBSET (Times \X (0..SeqSize - 1))
  /\ disorder \in BOOLEAN
  /\ before \in Times \cup {-1}
  /\ behind \in BOOLEAN
  /\ back \in 0..MaxBack

SnowflakeInit ==
  /\ clock = 0
  /\ lastTime = -1
  /\ sequence = 0
  /\ waiting = FALSE
  /\ given = {}
  /\ disorder = FALSE
  /\ before = -1
  /\ behind = FALSE
  /\ back = 0

-----------------------------------------------------------------------------
\* The millisecond is in the high bits of an id, the sequence number in the low ones.
Above(i, j) == i[1] > j[1] \/ (i[1] = j[1] /\ i[2] > j[2])

Give(t, s) ==
  /\ given' = given \cup {<<t, s>>}
  /\ disorder' = (disorder \/ \E j \in given : ~Above(<<t, s>>, j))
  /\ behind' = (behind \/ t <= before)
  /\ lastTime' = t
  /\ sequence' = s

\* The first id of a millisecond.  A clock behind lastTimestamp is an error, and no id.
NextIdNewTime ==
  /\ ~waiting
  /\ clock > lastTime
  /\ Give(clock, 0)
  /\ UNCHANGED <<clock, waiting, before, back>>

\* Mutant: the sequence wraps within the millisecond.
NextIdWrapping ==
  /\ ~waiting
  /\ clock = lastTime
  /\ Give(clock, (sequence + 1) % SeqSize)
  /\ UNCHANGED <<clock, waiting, before, back>>

\* Mutant: the sequence number is not masked.
NextIdUnmasked ==
  /\ ~waiting
  /\ clock = lastTime
  /\ Give(clock, sequence + 1)
  /\ UNCHANGED <<clock, waiting, before, back>>

\* One more id of the same millisecond; when the mask makes it 0 there is none left.
NextIdSameTime ==
  /\ ~waiting
  /\ clock = lastTime
  /\ LET s == (sequence + 1) % SeqSize
     IN IF s = 0
          THEN /\ waiting' = TRUE
               /\ sequence' = 0
               /\ UNCHANGED <<lastTime, given, disorder, behind>>
          ELSE Give(clock, s) /\ UNCHANGED waiting
  /\ UNCHANGED <<clock, before, back>>

\* tilNextMillis is over.
NextMillis ==
  /\ waiting
  /\ clock > lastTime
  /\ waiting' = FALSE
  /\ Give(clock, 0)
  /\ UNCHANGED <<clock, before, back>>

\* initSnowflake of the next process: it knows nothing of its predecessor.
Restart ==
  /\ lastTime # -1
  /\ lastTime' = -1
  /\ sequence' = 0
  /\ waiting' = FALSE
  /\ before' = IF lastTime > before THEN lastTime ELSE before
  /\ UNCHANGED <<clock, given, disorder, behind, back>>

ClockGoesOn ==
  /\ clock < MaxTime
  /\ clock' = clock + 1
  /\ UNCHANGED <<lastTime, sequence, waiting, given, disorder, before, behind, back>>

ClockSetBack ==
  /\ back < MaxBack
  /\ clock' \in {t \in Times : t < clock}
  /\ back' = back + 1
  /\ UNCHANGED <<lastTime, sequence, waiting, given, disorder, before, behind>>

SnowflakeNext ==
  \/ NextIdNewTime \/ NextIdSameTime \/ NextMillis
  \/ Restart
  \/ ClockGoesOn
  \/ ClockSetBack

SnowflakeSpec == SnowflakeInit /\ [][SnowflakeNext]_snowflakeVars

-----------------------------------------------------------------------------
\* Ids of one process increase, and so none is given twice - through full milliseconds,
\* clocks set back and restarts, but for one case: a process that comes to a millisecond
\* which its predecessor used repeats that one's ids.
IdsIncrease == disorder => behind
=============================================================================
