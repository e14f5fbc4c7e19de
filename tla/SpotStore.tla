----------------------------- MODULE SpotStore ------------------------------
(***************************************************************************)
(* The spots on the map: crates/k4-spot/src/store.rs.  Sources insert from *)
(* their thread, in whatever order their networks deliver, and the window  *)
(* purges on its tick.  The list keeps its order, for an insert looks for  *)
(* the first that matches, and an eviction moves the last into the hole.   *)
(*                                                                         *)
(* A spot is its call, its frequency and the time it was stamped.          *)
(*                                                                         *)
(* Bounds: Latest is the last stamp, Heard the reports in a run.           *)
(***************************************************************************)
EXTENDS Integers, Sequences, FiniteSets, SequencesExt

CONSTANTS Calls, Freqs, Tolerance, Capacity, Latest, MaxAge, Heard

VARIABLES
  spots,      \* SpotStore.spots
  now,
  heard       \* history: the reports a purge would have kept

vars == <<spots, now, heard>>

Spot == [call : Calls, freq : Freqs, time : 0 .. Latest]
Held == {spots[i] : i \in DOMAIN spots}
Close(f, g) == f - g <= Tolerance /\ g - f <= Tolerance
Same(held, spot) == held.call = spot.call /\ Close(held.freq, spot.freq)

(* is_fresh: a stamp in the future has no age.                             *)
IsFresh(s, maxAge) == s.time > now \/ now - s.time <= maxAge

-----------------------------------------------------------------------------

Newer(spot, held) == spot.time >= held.time

(* Mutant: the eviction takes the spot that came first.                    *)
OldestFirst(s) == 1

(* The first of the oldest (Iterator::min_by_key).                         *)
Oldest(s) ==
  CHOOSE i \in DOMAIN s :
    /\ \A j \in DOMAIN s : s[i].time <= s[j].time
    /\ \A j \in 1 .. i - 1 : s[j].time > s[i].time

(* Vec::swap_remove                                                        *)
SwapRemove(s, i) == Front(IF i = Len(s) THEN s ELSE [s EXCEPT ![i] = Last(s)])

Inserted(s, spot) ==
  LET same == {i \in DOMAIN s : Same(s[i], spot)}
      first == CHOOSE i \in same : \A j \in same : i <= j
      more == Append(s, spot)
  IN  IF same # {}
      THEN IF Newer(spot, s[first]) THEN [s EXCEPT ![first] = spot] ELSE s
      ELSE IF Len(more) > Capacity THEN SwapRemove(more, Oldest(more)) ELSE more

-----------------------------------------------------------------------------
Insert(spot) ==
  /\ Cardinality(heard) < Heard
  /\ spots' = Inserted(spots, spot)
  /\ heard' = heard \cup {spot}
  /\ UNCHANGED now

(* Vec::retain: the fresh ones in their order.                             *)
Retained(s, maxAge) ==
  LET f[i \in 0 .. Len(s)] ==
        IF i = 0 THEN <<>>
        ELSE IF IsFresh(s[i], maxAge) THEN Append(f[i - 1], s[i]) ELSE f[i - 1]
  IN  f[Len(s)]

Purge(maxAge) ==
  /\ spots' = Retained(spots, maxAge)
  /\ heard' = {s \in heard : IsFresh(s, maxAge)}
  /\ UNCHANGED now

Tick ==
  /\ now < Latest
  /\ now' = now + 1
  /\ UNCHANGED <<spots, heard>>

Init == spots = <<>> /\ now = 0 /\ heard = {}

Next ==
  \/ \E s \in Spot : Insert(s)
  \/ Purge(MaxAge)
  \/ Tick

Spec == Init /\ [][Next]_vars

-----------------------------------------------------------------------------
(* Properties.                                                             *)

TypeOK ==
  /\ spots \in Seq(Spot) /\ Len(spots) <= Capacity
  /\ now \in 0 .. Latest
  /\ heard \subseteq Spot

(* Whatever the order the networks deliver in, the newest word of a        *)
(* station is never lost to an older one: each report still within the age *)
(* limit is there, or one of the same call at least as new is, or the      *)
(* store is full of spots at least as new (FR-SPOT-06).                    *)
FreshestSurvive ==
  \A r \in heard :
    \/ \E h \in Held : h.call = r.call /\ h.time >= r.time
    \/ Len(spots) = Capacity /\ \A h \in Held : h.time >= r.time

(* "de-duplicates repeated reports of the same station on the same         *)
(* frequency (within a small tolerance) keeping the newest" (FR-SPOT-06).  *)
DeDuplicated ==
  \A i, j \in DOMAIN spots : i # j => ~Same(spots[i], spots[j])
=============================================================================
