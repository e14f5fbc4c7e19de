------------------------------ MODULE AmpTune -------------------------------
(***************************************************************************)
(* An antenna tune of the KPA1500 amplifier (FR-AMP-04): the window keys a *)
(* carrier of the K4 and starts the amplifier's search, and its tick ends  *)
(* both.  The window sends to two workers, of the K4 and of the amplifier, *)
(* and sees of each a snapshot as old as its last tick; either link may    *)
(* fail on the way.                                                        *)
(*                                                                         *)
(* External: the K4 and the amplifier as the commands say.  The clock of   *)
(* AMP_TUNE_TIMEOUT counts ticks.                                          *)
(* Bounds: Sent commands waiting for a worker.                             *)
(***************************************************************************)
EXTENDS Naturals, Sequences, SequencesExt

CONSTANTS Timeout, Sent, None

VARIABLES
  tune,       \* App.amp_tune: None, or [saw, elapsed]
  enabled,    \* kpa1500_enabled and a host
  want,       \* App.kpa_want
  seen,       \* App.ui and App.kpa as of the last tick
  to_k4, to_kpa,
  k4,         \* the session: [connected, armed, tuning]
  target,     \* the amplifier's worker: has a target
  stream,     \* and an open socket
  shared,     \* the snapshot it publishes: [conn, tuning]
  arrives,    \* what is written to the socket reaches the amplifier
  replies,    \* to polls, not read yet
  searching   \* the amplifier

vars == <<tune, enabled, want, seen, to_k4, to_kpa, k4, target, stream, shared,
          arrives, replies, searching>>

window == <<tune, enabled, want, seen>>
amplifier == <<target, stream, shared, arrives, replies, searching>>

Room(s) == Len(s) < Sent

-----------------------------------------------------------------------------
(* The window.                                                             *)

(* kpa_send: only to an amplifier it believes connected.                   *)
KpaSent(cmd) ==
  IF seen.conn = "connected" THEN Append(to_kpa, cmd) ELSE to_kpa

(* Message::KpaTune                                                        *)
KpaTune ==
  /\ seen.armed /\ seen.conn = "connected" /\ tune = None
  /\ Room(to_k4) /\ Room(to_kpa)
  /\ to_k4' = Append(to_k4, "tune")
  /\ to_kpa' = KpaSent("start")
  /\ tune' = [saw |-> FALSE, elapsed |-> 0]
  /\ UNCHANGED <<enabled, want, seen, k4, amplifier>>

(* Message::EmergencyStop, the button.                                     *)
EmergencyStop ==
  /\ Room(to_k4) /\ Room(to_kpa)
  /\ to_k4' = Append(to_k4, "stop")
  /\ to_kpa' = IF tune # None THEN KpaSent("cancel") ELSE to_kpa
  /\ tune' = None
  /\ UNCHANGED <<enabled, want, seen, k4, amplifier>>

(* Its key (Message::KeyPressed), which leaves the tune to the tick.       *)
EmergencyKey ==
  /\ Room(to_k4) /\ to_k4' = Append(to_k4, "stop")
  /\ UNCHANGED <<window, to_kpa, k4, amplifier>>

ToggleArm ==
  /\ Room(to_k4) /\ to_k4' = Append(to_k4, IF seen.armed THEN "disarm" ELSE "arm")
  /\ UNCHANGED <<window, to_kpa, k4, amplifier>>

ToggleKpa1500 ==
  /\ enabled' = ~enabled
  /\ UNCHANGED <<tune, want, seen, to_k4, to_kpa, k4, amplifier>>

(* Mutant: a search nobody answers for is waited for.                      *)
ShouldEndPatiently(t, s) ==
  \/ t.saw /\ s.tuning # TRUE
  \/ s.conn # "connected" \/ ~s.connected \/ ~s.armed

(* ui::amp_tune_should_end                                                 *)
ShouldEnd(t, s) ==
  \/ t.saw /\ s.tuning # TRUE
  \/ t.elapsed >= Timeout
  \/ s.conn # "connected" \/ ~s.connected \/ ~s.armed

(* Message::Tick: the snapshots are copied, the amplifier's link follows   *)
(* the K4's, and a tune is driven to its end.                              *)
Tick ==
  LET s == [armed |-> k4.armed, connected |-> k4.connected,
            conn |-> shared.conn, tuning |-> shared.tuning]
      t == [saw |-> tune.saw \/ s.tuning = TRUE, elapsed |-> tune.elapsed + 1]
      ends == tune # None /\ ShouldEnd(t, s)
      link == IF (enabled /\ s.connected) = want THEN <<>>
              ELSE IF want THEN <<"disconnect">> ELSE <<"connect">>
      cancel == IF ends /\ s.tuning = TRUE /\ s.conn = "connected"
                THEN <<"cancel">> ELSE <<>>
  IN  /\ Room(to_k4) /\ Room(to_kpa)
      /\ seen' = s
      /\ want' = (enabled /\ s.connected)
      /\ to_kpa' = to_kpa \o link \o cancel
      /\ tune' = IF tune = None \/ ends THEN None ELSE t
      /\ to_k4' = IF ends THEN Append(to_k4, "exit") ELSE to_k4
      /\ UNCHANGED <<enabled, k4, amplifier>>

-----------------------------------------------------------------------------
(* The K4: its worker takes a command, or its link changes.  Disarming     *)
(* does not end a tune (Session::disarm_tx).                               *)
TakesCommand ==
  /\ to_k4 # <<>> /\ to_k4' = Tail(to_k4)
  /\ k4' = IF ~k4.connected THEN k4
           ELSE CASE Head(to_k4) = "tune"   -> [k4 EXCEPT !.tuning = @ \/ k4.armed]
                  [] Head(to_k4) = "exit"   -> [k4 EXCEPT !.tuning = FALSE]
                  [] Head(to_k4) = "stop"   -> [k4 EXCEPT !.tuning = FALSE, !.armed = FALSE]
                  [] Head(to_k4) = "arm"    -> [k4 EXCEPT !.armed = TRUE]
                  [] Head(to_k4) = "disarm" -> [k4 EXCEPT !.armed = FALSE]
  /\ UNCHANGED <<window, to_kpa, amplifier>>

LinkChanges ==
  /\ k4' = [connected |-> ~k4.connected, armed |-> FALSE, tuning |-> FALSE]
  /\ UNCHANGED <<window, to_k4, to_kpa, amplifier>>

-----------------------------------------------------------------------------
(* The amplifier's worker.                                                 *)

Publishes(conn, tuning) == shared' = [conn |-> conn, tuning |-> tuning]

TakesConnect ==
  /\ to_kpa # <<>> /\ Head(to_kpa) = "connect" /\ to_kpa' = Tail(to_kpa)
  /\ target' = TRUE
  /\ IF target /\ stream THEN UNCHANGED shared ELSE Publishes("connecting", None)
  /\ UNCHANGED <<window, to_k4, k4, stream, arrives, replies, searching>>

TakesDisconnect ==
  /\ to_kpa # <<>> /\ Head(to_kpa) = "disconnect" /\ to_kpa' = Tail(to_kpa)
  /\ target' = FALSE /\ stream' = FALSE /\ replies' = <<>>
  /\ Publishes("disconnected", None)
  /\ UNCHANGED <<window, to_k4, k4, arrives, searching>>

(* Cmd::Send: written if there is a socket, lost if nothing arrives.       *)
TakesSend ==
  /\ to_kpa # <<>> /\ Head(to_kpa) \in {"start", "cancel"} /\ to_kpa' = Tail(to_kpa)
  /\ searching' = IF stream /\ arrives THEN Head(to_kpa) = "start" ELSE searching
  /\ UNCHANGED <<window, to_k4, k4, target, stream, shared, arrives, replies>>

Opens ==
  /\ target /\ ~stream /\ arrives
  /\ stream' = TRUE /\ replies' = <<searching>>
  /\ Publishes("connected", None)
  /\ UNCHANGED <<window, to_k4, to_kpa, k4, target, arrives, searching>>

Polls ==
  /\ stream /\ arrives /\ replies = <<>>
  /\ replies' = <<searching>>
  /\ UNCHANGED <<window, to_k4, to_kpa, k4, target, stream, shared, arrives,
                 searching>>

Reads ==
  /\ stream /\ replies # <<>>
  /\ replies' = <<>>
  /\ Publishes("connected", Head(replies))
  /\ UNCHANGED <<window, to_k4, to_kpa, k4, target, stream, arrives, searching>>

(* A failed read or write closes the socket; the state is kept.            *)
Breaks ==
  /\ stream /\ ~arrives
  /\ stream' = FALSE /\ replies' = <<>>
  /\ Publishes("connecting", shared.tuning)
  /\ UNCHANGED <<window, to_k4, to_kpa, k4, target, arrives, searching>>

(* The network, and the amplifier that ends its search by itself.          *)
NetworkChanges ==
  /\ arrives' = ~arrives
  /\ stream => arrives       \* a broken socket is not mended
  /\ UNCHANGED <<window, to_k4, to_kpa, k4, target, stream, shared, replies,
                 searching>>

AmpFinishes ==
  /\ searching /\ searching' = FALSE
  /\ UNCHANGED <<window, to_k4, to_kpa, k4, target, stream, shared, arrives,
                 replies>>

-----------------------------------------------------------------------------
Init ==
  /\ tune = None /\ enabled \in BOOLEAN /\ want = FALSE
  /\ seen = [armed |-> FALSE, connected |-> FALSE, conn |-> "disconnected",
             tuning |-> None]
  /\ to_k4 = <<>> /\ to_kpa = <<>>
  /\ k4 = [connected |-> FALSE, armed |-> FALSE, tuning |-> FALSE]
  /\ target = FALSE /\ stream = FALSE
  /\ shared = [conn |-> "disconnected", tuning |-> None]
  /\ arrives = TRUE /\ replies = <<>> /\ searching = FALSE

Next ==
  \/ KpaTune \/ EmergencyStop \/ EmergencyKey \/ ToggleArm \/ ToggleKpa1500
  \/ Tick
  \/ TakesCommand \/ LinkChanges
  \/ TakesConnect \/ TakesDisconnect \/ TakesSend
  \/ Opens \/ Polls \/ Reads \/ Breaks
  \/ NetworkChanges \/ AmpFinishes

Spec == Init /\ [][Next]_vars

-----------------------------------------------------------------------------
(* Properties.                                                             *)

(* The types of the variables.                                             *)
TypeOK ==
  /\ tune = None \/ tune \in [saw : BOOLEAN, elapsed : Nat]
  /\ enabled \in BOOLEAN /\ want \in BOOLEAN
  /\ to_k4 \in Seq({"tune", "exit", "stop", "arm", "disarm"})
  /\ to_kpa \in Seq({"connect", "disconnect", "start", "cancel"})
  /\ k4 \in [connected : BOOLEAN, armed : BOOLEAN, tuning : BOOLEAN]
  /\ target \in BOOLEAN /\ stream \in BOOLEAN /\ arrives \in BOOLEAN
  /\ shared.conn \in {"disconnected", "connecting", "connected"}
  /\ searching \in BOOLEAN

EndsTune == {"exit", "stop"}

(* A carrier keyed for the amplifier, or about to be, always has its end:  *)
(* the word to end it is on its way behind it, or the window still knows   *)
(* of the tune and will end it within the time limit.  Neither link, nor   *)
(* an emergency stop, nor disarming, which does not itself end a tune,     *)
(* leaves it on (main.rs:4257, ui.rs amp_tune_should_end).                 *)
NeverStranded ==
  /\ tune # None => tune.elapsed < Timeout
  /\ tune = None =>
       /\ k4.tuning => \E i \in DOMAIN to_k4 : to_k4[i] \in EndsTune
       /\ \A i \in DOMAIN to_k4 :
            to_k4[i] = "tune" => \E j \in i + 1 .. Len(to_k4) : to_k4[j] \in EndsTune

(* main.rs:4284 says that a search is called off when its tune ends.  It   *)
(* is not when the tune ends before a reply told of the search, nor when   *)
(* the reply that ends it is older than the search: the amplifier then     *)
(* searches without a carrier until it gives up by itself.                 *)
SearchCalledOff ==
  searching =>
    \/ tune # None \/ ~arrives \/ ~stream
    \/ \E i \in DOMAIN to_kpa : to_kpa[i] \in {"cancel", "disconnect"}
    \/ shared.conn # "connected"
=============================================================================
