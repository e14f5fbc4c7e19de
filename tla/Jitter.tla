------------------------------- MODULE Jitter -------------------------------
(***************************************************************************)
(* The receive audio of src/app/src/worker.rs with the reorder buffer of   *)
(* crates/k4-audio/src/jitter.rs: in each pass of the worker the frames    *)
(* that arrived are pushed, then frames are popped until none comes.       *)
(*                                                                         *)
(* A frame carries a counter that wraps, and the buffer knows it by that   *)
(* alone.  Here it also carries what the code cannot see: its number `n`   *)
(* in the radio's stream.  The path may lose, reorder and repeat frames;   *)
(* the radio may start its stream over, and then the counter starts        *)
(* anywhere.                                                               *)
(*                                                                         *)
(* Bounds: Sends frames in a run, Restarts new streams, at most Burst      *)
(* frames lost in a row, a frame is overtaken by fewer than Spread, and at *)
(* most Batch arrive for one pass.                                         *)
(***************************************************************************)
EXTENDS Integers, FiniteSets

CONSTANTS
  Numbers,    \* values of the counter (256)
  Capacity,   \* frames held before a gap is given up (8)
  Sends, Restarts, Spread, Burst, Batch,
  None

VARIABLES
  next,       \* JitterBuffer.next
  pending,    \* JitterBuffer.pending: counter value -> frame
  room,       \* frames this pass may still push; none once it pops
  stream,     \* the radio: which stream this is and its next number
  counter,    \* the radio: its next counter value
  flight,     \* frames under way
  burst,      \* frames lost since the last that was not
  last,       \* history: the frame popped last
  newest,     \* history: the highest number that arrived of this stream
  late        \* history: how many of those that were the newest when they
              \* came were dropped in a row

vars == <<next, pending, room, stream, counter, flight, burst, last,
          newest, late>>

Half == Numbers \div 2
Counters == 0 .. Numbers - 1
Plus1(c) == IF c = Numbers - 1 THEN 0 ELSE c + 1

(* wrapping_sub                                                            *)
Distance(c, base) == IF c >= base THEN c - base ELSE c - base + Numbers

(* Mutant: a subtraction that does not wrap.                               *)
IsLateUnwrapped(c, base) == c < base

IsLate(c, base) == Distance(c, base) >= Half

-----------------------------------------------------------------------------
(* The radio and the path.                                                 *)

Goes ==
  /\ room > 0
  /\ stream.n < Sends /\ \A f \in flight : stream.n - f.n < Spread

Send ==
  /\ Goes
  /\ flight' = flight \cup {[of |-> stream.of, n |-> stream.n, counter |-> counter]}
  /\ stream' = [stream EXCEPT !.n = @ + 1]
  /\ counter' = Plus1(counter)
  /\ burst' = 0
  /\ UNCHANGED <<next, pending, room, last, newest, late>>

Lose ==
  /\ Goes /\ burst < Burst
  /\ stream' = [stream EXCEPT !.n = @ + 1]
  /\ counter' = Plus1(counter)
  /\ burst' = burst + 1
  /\ UNCHANGED <<next, pending, room, flight, last, newest, late>>

Restart(c) ==
  /\ room > 0
  /\ stream.of < Restarts /\ stream.n > 0
  /\ stream' = [of |-> stream.of + 1, n |-> 0]
  /\ counter' = c
  /\ flight' = {}
  /\ burst' = 0 /\ newest' = -1 /\ late' = 0
  /\ UNCHANGED <<next, pending, room, last>>

-----------------------------------------------------------------------------
(* The buffer.                                                             *)

(* JitterBuffer::push of a frame that arrives; it may arrive again.        *)
Push(f) ==
  LET expected == IF next = None THEN f.counter ELSE next
      dropped == IsLate(f.counter, expected)
  IN  /\ room > 0
      /\ next' = expected
      /\ pending' = IF dropped \/ f.counter \in DOMAIN pending THEN pending
                    ELSE [c \in DOMAIN pending \cup {f.counter} |->
                            IF c = f.counter THEN f ELSE pending[c]]
      /\ flight' \in {flight, flight \ {f}}
      /\ newest' = IF f.n > newest THEN f.n ELSE newest
      /\ late' = IF ~dropped THEN 0
                 ELSE IF f.n > newest THEN late + 1 ELSE late
      /\ room' = room - 1
      /\ UNCHANGED <<stream, counter, burst, last>>

(* The frame that goes out and what is left.                               *)
Release(c) ==
  /\ next' = Plus1(c)
  /\ last' = pending[c]
  /\ pending' = [d \in DOMAIN pending \ {c} |-> pending[d]]

(* JitterBuffer::pop, the frame expected.                                  *)
PopExpected ==
  /\ next # None /\ next \in DOMAIN pending
  /\ Release(next)

(* Mutant: across a gap the lowest counter goes first.                     *)
NearestLowest ==
  CHOOSE c \in DOMAIN pending : \A d \in DOMAIN pending : c <= d

Nearest ==
  CHOOSE c \in DOMAIN pending :
    \A d \in DOMAIN pending : Distance(c, next) <= Distance(d, next)

(* JitterBuffer::pop across a gap, once enough has come in behind it.      *)
Conceal ==
  /\ next # None /\ next \notin DOMAIN pending
  /\ Cardinality(DOMAIN pending) >= Capacity
  /\ Release(Nearest)

Holds ==
  \/ next = None
  \/ next \notin DOMAIN pending /\ Cardinality(DOMAIN pending) < Capacity

(* The worker's pass: pushes, then pops until None.                        *)
Pass ==
  \/ /\ PopExpected \/ Conceal
     /\ room' = 0
     /\ UNCHANGED <<stream, counter, flight, burst, newest, late>>
  \/ /\ room < Batch /\ Holds
     /\ room' = Batch
     /\ UNCHANGED <<next, pending, stream, counter, flight, burst, last, newest, late>>

-----------------------------------------------------------------------------
Init ==
  /\ next = None
  /\ pending = [c \in {} |-> None]
  /\ room = Batch
  /\ stream = [of |-> 0, n |-> 0]
  /\ counter = Numbers - 2
  /\ flight = {}
  /\ burst = 0 /\ newest = -1 /\ late = 0
  /\ last = None

Next ==
  \/ Send \/ Lose
  \/ \E c \in Counters : Restart(c)
  \/ \E f \in flight : Push(f)
  \/ Pass

Spec == Init /\ [][Next]_vars

-----------------------------------------------------------------------------
(* Properties.                                                             *)

Frames == [of : 0 .. Restarts, n : Nat, counter : Counters]

TypeOK ==
  /\ next \in Counters \cup {None}
  /\ DOMAIN pending \subseteq Counters
  /\ \A c \in DOMAIN pending : pending[c] \in Frames /\ pending[c].counter = c
  /\ next = None => DOMAIN pending = {}
  /\ room \in 0 .. Batch
  /\ stream \in [of : 0 .. Restarts, n : Nat]
  /\ counter \in Counters
  /\ flight \subseteq Frames
  /\ burst \in Nat /\ late \in Nat /\ newest \in Nat \cup {-1}
  /\ last \in Frames \cup {None}

(* What waits is ahead of what is expected, however the counter wraps and  *)
(* whatever was given up: the nearest of it is the oldest, and no frame    *)
(* stays behind to be taken for one that comes a turn of the counter later *)
(* (jitter.rs:48 and :75).                                                 *)
WaitingIsAhead ==
  \A c \in DOMAIN pending : ~IsLate(c, next)

(* Frames are played in the order they were sent and none twice, lost,     *)
(* late and repeated as they may be, across the wrap of the counter, for   *)
(* as long as the radio does not start over (FR-AUD-02, FR-AUD-05).        *)
PlayedInOrder ==
  [][ stream.of = 0 /\ last # None => last'.n > last.n ]_last

(* A stream that starts over, or that lost frames, may look late; it is    *)
(* heard again within half a turn of the counter and what the frames still *)
(* waiting take when they are given up.                                    *)
HeardAgain == late <= Half + Capacity
=============================================================================
