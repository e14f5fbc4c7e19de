------------------------------ MODULE TxAudio -------------------------------
(***************************************************************************)
(* Where the transmitted audio comes from: the TX audio part of service in *)
(* src/app/src/worker.rs with the capture rings of crates/k4-audio and the *)
(* gate of Session::send_tx_audio.                                         *)
(*                                                                         *)
(* Both sources capture all the time, on threads of their own.  A frame is *)
(* kept as what matters of it: which source it is from and whether it was  *)
(* captured before the key that is down now.  Who holds the transmitter    *)
(* changes between two passes of the worker, by commands and CAT clients   *)
(* (see Session, CatClients); here it is anybody's move.                   *)
(*                                                                         *)
(* Bound: RingMax frames in a ring.                                        *)
(***************************************************************************)
EXTENDS Integers, Sequences, SequencesExt

CONSTANTS
  RingMax,   \* capacity of a ring, in frames
  Rekeys     \* whether a transmit may end and another begin between passes

VARIABLES
  owner,       \* who transmits, by the session's flags
  cat_audio,   \* ws.cat_audio is open
  rings,       \* what each source has captured: "stale" frames from before
               \* the key, "fresh" ones since
  tx_source,   \* ws.tx_source: "none", or the owner it was last flushed for
  out,         \* history: what the last pass sent
  rested       \* history: a pass has seen the transmitter idle

vars == <<owner, cat_audio, rings, tx_source, out, rested>>

Sources == {"mic", "cat"}
Owners == {"nobody", "operator", "client"}

Transmitting == owner # "nobody"

(* A key makes what was captured until then stale.                         *)
Staled == [src \in Sources |-> [i \in DOMAIN rings[src] |-> "stale"]]

-----------------------------------------------------------------------------
(* The callback of a capture stream: the oldest go when the ring is full.  *)

Pushed(ring, x) ==
  Append(IF Len(ring) = RingMax THEN Tail(ring) ELSE ring, x)

Capture(src) ==
  /\ src = "cat" => cat_audio
  /\ rings' = [rings EXCEPT ![src] = Pushed(@, "fresh")]
  /\ UNCHANGED <<owner, cat_audio, tx_source, out, rested>>

(* The transmitter is keyed by who does not hold it, or let go.            *)
KeysFor(who) ==
  /\ owner # who
  /\ who = "client" => cat_audio /\ owner = "nobody"
  /\ Rekeys \/ rested \/ owner # "nobody"
  /\ owner' = who
  /\ rings' = Staled
  /\ rested' = FALSE
  /\ UNCHANGED <<cat_audio, tx_source, out>>

Unkeys ==
  /\ owner' = "nobody"
  /\ UNCHANGED <<cat_audio, rings, tx_source, out, rested>>

(* The CAT audio device opens with an empty ring.  It closes by itself -   *)
(* the opt-out and a change of device end a client's transmit with it.     *)
CatAudioOpens ==
  /\ ~cat_audio
  /\ cat_audio' = TRUE
  /\ rings' = [rings EXCEPT !["cat"] = <<>>]
  /\ UNCHANGED <<owner, tx_source, out, rested>>

CatAudioCloses ==
  /\ cat_audio
  /\ cat_audio' = FALSE
  /\ owner' = IF owner = "client" THEN "nobody" ELSE owner
  /\ rings' = [rings EXCEPT !["cat"] = <<>>]
  /\ UNCHANGED <<tx_source, out, rested>>

-----------------------------------------------------------------------------
(* The TX audio part of a pass.                                            *)

Source == IF owner = "client" THEN "cat" ELSE "mic"

(* Mutant: a takeover is not a new transmit.                               *)
FlushIsDueOnce == tx_source = "none"

FlushIsDue == tx_source # owner

Service ==
  /\ IF Transmitting
     THEN LET ring == IF FlushIsDue THEN <<>> ELSE rings[Source]
          IN  /\ out' = {[by |-> owner, source |-> Source, age |-> ring[i]] : i \in DOMAIN ring}
              /\ rings' = [rings EXCEPT ![Source] = <<>>]
              /\ tx_source' = owner
              /\ UNCHANGED rested
     ELSE /\ tx_source' = "none"
          /\ out' = {}
          /\ rested' = TRUE
          /\ UNCHANGED rings
  /\ UNCHANGED <<owner, cat_audio>>

-----------------------------------------------------------------------------
Init ==
  /\ owner = "nobody"
  /\ cat_audio = FALSE
  /\ rings = [src \in Sources |-> <<>>]
  /\ tx_source = "none"
  /\ out = {}
  /\ rested = TRUE

Next ==
  \/ \E src \in Sources : Capture(src)
  \/ \E who \in {"operator", "client"} : KeysFor(who)
  \/ Unkeys \/ CatAudioOpens \/ CatAudioCloses
  \/ Service

Spec == Init /\ [][Next]_vars

-----------------------------------------------------------------------------
(* Properties.                                                             *)

TypeOK ==
  /\ owner \in Owners
  /\ cat_audio \in BOOLEAN
  /\ rings \in [Sources -> Seq({"stale", "fresh"})]
  /\ \A src \in Sources : Len(rings[src]) <= RingMax
  /\ tx_source \in {"none", "operator", "client"}
  /\ out \subseteq [by : Owners \ {"nobody"}, source : Sources,
                    age : {"stale", "fresh"}]
  /\ rested \in BOOLEAN

(* What goes out was captured since the key that is down, by the source of *)
(* who holds it: a client's transmit never carries the mic, and no         *)
(* transmit - first, next or taken over - carries what was said before it  *)
(* (FR-AUD-TX-01, FR-CATSRV-10).                                           *)
OnlyWhatWasMeant ==
  \A frame \in out :
    /\ frame.age = "fresh"
    /\ frame.by = "client" => frame.source = "cat"
=============================================================================
