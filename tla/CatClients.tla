----------------------------- MODULE CatClients -----------------------------
(***************************************************************************)
(* CAT clients and the transmitter: the worker thread of                   *)
(* src/app/src/worker.rs as far as it decides who transmits, over the      *)
(* session of module Session, the clients of the CAT server and the        *)
(* command policy of crates/k4-catsrv.                                     *)
(*                                                                         *)
(* The worker is one thread: a step is one UI command, one pass over the   *)
(* session, or one event of the CAT server, each atomic against the others *)
(* and not against the clients, whose arrivals, lines and departures queue *)
(* up meanwhile.  A client that connects again has a new id, so a client   *)
(* here connects once.                                                     *)
(*                                                                         *)
(* Bound: EventMax caps the queue of events the worker has not polled.     *)
(***************************************************************************)
EXTENDS Integers, Sequences, SequencesExt

CONSTANTS
  LinkTimeout, PingInterval, LimitMin, LimitMax, None,
  Clients,       \* ids of the CAT clients that ever connect
  ClientLines,   \* the lines they send
  EventMax,      \* events not yet polled (a bound of the model)
  Reconfigures   \* whether the operator switches the CAT server off and on

VARIABLES
  session,     \* ws.session: None or the Session
  on_air,      \* see Session
  net,         \* see Session
  keyed_by,    \* ws.keyed_by
  cat_audio,   \* ws.cat_audio is open
  clients,     \* ws.catsrv.clients
  link_down,   \* ws.catsrv.link_down_since: "no", "short", "long" (>= grace)
  peers,       \* what each client's socket does (external)
  events       \* the server's event channel

vars == <<session, on_air, net, keyed_by, cat_audio, clients, link_down,
          peers, events>>

serverVars == <<clients, link_down, peers, events>>

RawCommands == {"FA", "TU0", "RX"}   \* what clients get through as they are
ReplyMax == 0

S == INSTANCE Session WITH replies <- <<>>, ticked <- TRUE, held <- 0

Lines == {"TX", "RX", "TU0", "KY", "FA"}

ASSUME ClientLinesAssumption == ClientLines \subseteq Lines

ASSUME TimesAssumption ==
  /\ LinkTimeout \in Nat \ {0}
  /\ PingInterval \in Nat \ {0}
  /\ LimitMin \in Nat /\ LimitMin > PingInterval
  /\ LimitMax \in Nat
  /\ LimitMin <= LimitMax

ASSUME NoneAssumption == None \notin Int \cup Clients \cup S!Sessions

ASSUME EventMaxAssumption == EventMax \in Nat

Event(kind, id, line) == [kind |-> kind, id |-> id, line |-> line]
Connected(id) == Event("connected", id, None)
Disconnected(id) == Event("disconnected", id, None)

Live == session # None

-----------------------------------------------------------------------------
(* The calls the worker makes on its session, when it has one.             *)

(* A send fails only on a path that is broken, and even then the socket    *)
(* may still take the bytes.                                               *)
Outcome(ok) == ok \in BOOLEAN /\ (ok \/ net' = "down")

On(effect) ==
  /\ session' = effect.session
  /\ S!Send(effect.sent)

Idle == UNCHANGED <<session, on_air, net>>

(* Mutant: the CAT audio device stays open when the session goes.          *)
SessionGoneQuietly ==
  /\ session' = None
  /\ keyed_by' = None
  /\ cat_audio' = cat_audio

(* clear_cat_tx, with the session gone.                                    *)
SessionGone ==
  /\ session' = None
  /\ keyed_by' = None
  /\ cat_audio' = FALSE

-----------------------------------------------------------------------------
(* UI commands.                                                            *)

Command(effect) ==
  /\ On(effect)
  /\ UNCHANGED <<keyed_by, cat_audio>>
  /\ UNCHANGED serverVars

CmdArmTx ==
  /\ Live
  /\ \/ Command(S!ArmTx(session))
     \/ Command(S!DisarmTx(session))

CmdKey ==
  /\ Live
  /\ \/ Command(S!BeginTx(session))
     \/ Command(S!EndTx(session))

CmdEmergencyStop == Live /\ Command(S!EmergencyStop(session))

CmdTune == Live /\ \E a \in {"TU0", "TU1"} : Command(S!Tune(session, a))

(* On: the CAT audio device first - it may fail to open - and without it   *)
(* no opt-in.  Off: the opt-in, then the device.                           *)
CmdOptIn ==
  /\ Live
  /\ \/ Command(S!SetCatMayTransmit(session, TRUE)) /\ cat_audio
     \/ /\ ~cat_audio
        /\ On(S!SetCatMayTransmit(session, TRUE))
        /\ cat_audio' = TRUE
        /\ UNCHANGED keyed_by /\ UNCHANGED serverVars

CmdOptOut ==
  /\ Live
  /\ On(S!SetCatMayTransmit(session, FALSE))
  /\ cat_audio' = FALSE
  /\ UNCHANGED keyed_by
  /\ UNCHANGED serverVars

(* Mutant: the device closes and the opt-in stays.                         *)
CmdAudioDeviceKeepsOptIn ==
  /\ cat_audio
  /\ Idle
  /\ cat_audio' = FALSE
  /\ UNCHANGED keyed_by
  /\ UNCHANGED serverVars

(* A different device: an open one closes, and the opt-in with it.         *)
CmdAudioDevice ==
  /\ cat_audio
  /\ IF Live THEN On(S!SetCatMayTransmit(session, FALSE)) ELSE Idle
  /\ cat_audio' = FALSE
  /\ UNCHANGED keyed_by
  /\ UNCHANGED serverVars

CmdDisconnect ==
  /\ Live
  /\ S!Send(S!Disconnect(session).sent)
  /\ SessionGone
  /\ UNCHANGED serverVars

(* The server is dropped and another one started: its clients and what     *)
(* they had sent are gone with it.                                         *)
CmdCatServer ==
  /\ Reconfigures
  /\ clients' = {}
  /\ link_down' = "no"
  /\ peers' = [c \in Clients |-> IF peers[c] = "here" THEN "gone" ELSE peers[c]]
  /\ events' = <<>>
  /\ UNCHANGED <<session, on_air, net, keyed_by, cat_audio>>

-----------------------------------------------------------------------------
(* One pass over the session (service): what was read, then tick; a        *)
(* session that is no longer connected is dropped in the same pass.        *)

Ended(s) == ~s.connected

Service ==
  /\ Live
  /\ \E read \in {"error", "nothing", "frames"} :
       LET heard == IF read = "frames"
                    THEN [session EXCEPT !.last_rx = 0] ELSE session
           effect == IF read = "error" THEN S!NoteIoError(session)
                     ELSE S!Tick(heard)
       IN  /\ read = "error" => net = "down"
           /\ read = "frames" => net = "up"
           /\ S!Send(effect.sent)
           /\ \/ /\ Ended(effect.session)
                 /\ SessionGone
              \/ /\ ~Ended(effect.session)
                 /\ session' = effect.session
                 /\ \E ok \in BOOLEAN :
                      /\ Outcome(ok)
                      /\ keyed_by' = IF S!HoldIsOver(heard) /\ ok
                                     THEN None ELSE keyed_by
                 /\ UNCHANGED cat_audio
  /\ UNCHANGED serverVars

(* poll_pending finds a link opened: a new session, without opt-in.  The   *)
(* radio may still be on air from before.                                  *)
NewSession ==
  /\ ~Live
  /\ session' = S!New(LimitMax)
  /\ net' = "up"
  /\ UNCHANGED <<on_air, keyed_by, cat_audio>>
  /\ UNCHANGED serverVars

-----------------------------------------------------------------------------
(* The CAT server: service_catsrv with the next event.  The code takes all *)
(* the events there are in one pass; one at a time allows that and more.   *)

(* Mutant: a client's TX takes the way of any allowed command.             *)
VerdictForwardsKeys(line) ==
  CASE line = "RX" -> "Unkey"
    [] line = "TU0" -> "Stop"
    [] OTHER -> IF Live THEN "Forward" ELSE "Dropped"

(* handle: what becomes of a line.                                         *)
Verdict(line) ==
  CASE line = "RX" -> "Unkey"
    [] line = "TU0" -> "Stop"
    [] line = "TX" -> IF Live THEN "KeyRequest" ELSE "Dropped"
    [] line = "KY" -> "Refused"
    [] line = "FA" -> IF Live THEN "Forward" ELSE "Dropped"

(* Mutant: the client that keyed is not recorded.                          *)
KeyRequestUnrecorded(id) ==
  IF Live /\ cat_audio
  THEN On(S!BeginTxForClient(session)) /\ UNCHANGED keyed_by
  ELSE Idle /\ UNCHANGED keyed_by

KeyRequest(id) ==
  IF Live /\ cat_audio
  THEN /\ On(S!BeginTxForClient(session))
       /\ \E ok \in BOOLEAN :
            /\ Outcome(ok)
            /\ keyed_by' = IF S!ClientKeyed(session) /\ ok THEN id
                           ELSE keyed_by
  ELSE Idle /\ UNCHANGED keyed_by

(* RX goes through end_tx when the session transmits, else as it is.       *)
Unkey ==
  /\ keyed_by' = None
  /\ IF ~Live THEN Idle
     ELSE IF session.transmitting THEN On(S!EndTx(session))
     ELSE On(S!SendRaw(session, "RX"))

Raw(line) ==
  /\ IF Live THEN On(S!SendRaw(session, line)) ELSE Idle
  /\ UNCHANGED keyed_by

Handle(id, line) ==
  LET verdict == Verdict(line)
  IN  \/ verdict = "Unkey" /\ Unkey
      \/ verdict = "KeyRequest" /\ KeyRequest(id)
      \/ verdict \in {"Stop", "Forward"} /\ Raw(line)
      \/ verdict \in {"Refused", "Dropped"} /\ Idle /\ UNCHANGED keyed_by

(* Mutant: whatever is being transmitted ends.                             *)
DepartedEndsAll(id) ==
  IF keyed_by = id
  THEN /\ keyed_by' = None
       /\ IF Live THEN On(S!EndTx(session)) ELSE Idle
  ELSE Idle /\ UNCHANGED keyed_by

(* Mutant: a departure is not acted on.                                    *)
DepartedUnnoticed(id) == Idle /\ UNCHANGED keyed_by

(* The client that keyed has left: its transmit ends, and only its.        *)
Departed(id) ==
  IF keyed_by = id
  THEN /\ keyed_by' = None
       /\ IF Live THEN On(S!EndClientTx(session)) ELSE Idle
  ELSE Idle /\ UNCHANGED keyed_by

(* The grace period is looked at before the events; when it is over the    *)
(* clients there are closed and those that arrive turned away.             *)
Grace == IF Live THEN "no" ELSE IF link_down = "no" THEN "short" ELSE link_down

Closed(ids) ==
  peers' = [c \in Clients |->
              IF c \in ids /\ peers[c] = "here" THEN "closed" ELSE peers[c]]

ServeCat ==
  LET expired == Grace = "long"
      served == IF expired THEN {} ELSE clients
      dropped == IF expired THEN clients ELSE {}
  IN  /\ link_down' = Grace
      /\ UNCHANGED cat_audio
      /\ \/ /\ events = <<>>
            /\ clients' = served
            /\ Closed(dropped)
            /\ Idle /\ UNCHANGED <<keyed_by, events>>
         \/ /\ events # <<>>
            /\ events' = Tail(events)
            /\ LET e == Head(events) IN
               \/ /\ e.kind = "connected"
                  /\ clients' = IF expired THEN {} ELSE served \cup {e.id}
                  /\ Closed(IF expired THEN dropped \cup {e.id} ELSE {})
                  /\ Idle /\ UNCHANGED keyed_by
               \/ /\ e.kind = "disconnected"
                  /\ clients' = served \ {e.id}
                  /\ Closed(dropped)
                  /\ Departed(e.id)
               \/ /\ e.kind = "line"
                  /\ clients' = served
                  /\ Closed(dropped)
                  /\ IF e.id \in served THEN Handle(e.id, e.line)
                     ELSE Idle /\ UNCHANGED keyed_by

-----------------------------------------------------------------------------
(* The clients and time.                                                   *)

workerVars == <<session, on_air, net, keyed_by, cat_audio, clients, link_down>>

Arrives(e) ==
  /\ Len(events) < EventMax
  /\ events' = Append(events, e)

PeerConnects(c) ==
  /\ peers[c] = "fresh"
  /\ peers' = [peers EXCEPT ![c] = "here"]
  /\ Arrives(Connected(c))
  /\ UNCHANGED workerVars

PeerSends(c) ==
  /\ peers[c] = "here"
  /\ \E line \in ClientLines : Arrives(Event("line", c, line))
  /\ UNCHANGED <<workerVars, peers>>

(* It leaves, crashes, or has been closed from our side.                   *)
PeerLeaves(c) ==
  /\ peers[c] \in {"here", "closed"}
  /\ peers' = [peers EXCEPT ![c] = "gone"]
  /\ Arrives(Disconnected(c))
  /\ UNCHANGED workerVars

GraceOver ==
  /\ link_down = "short"
  /\ link_down' = "long"
  /\ UNCHANGED <<session, on_air, net, keyed_by, cat_audio, clients, peers,
                 events>>

Time ==
  /\ Live
  /\ session' = S!Aged(session)
  /\ UNCHANGED <<on_air, net, keyed_by, cat_audio, serverVars>>

Break ==
  /\ Live /\ net = "up"
  /\ net' = "down"
  /\ UNCHANGED <<session, on_air, keyed_by, cat_audio, serverVars>>

-----------------------------------------------------------------------------
Init ==
  /\ session = None
  /\ on_air = {}
  /\ net = "down"
  /\ keyed_by = None
  /\ cat_audio = FALSE
  /\ clients = {}
  /\ link_down = "no"
  /\ peers = [c \in Clients |-> "fresh"]
  /\ events = <<>>

Next ==
  \/ CmdArmTx \/ CmdKey \/ CmdEmergencyStop \/ CmdTune
  \/ CmdOptIn \/ CmdOptOut \/ CmdAudioDevice \/ CmdDisconnect \/ CmdCatServer
  \/ Service \/ NewSession \/ ServeCat
  \/ \E c \in Clients : PeerConnects(c) \/ PeerSends(c) \/ PeerLeaves(c)
  \/ GraceOver \/ Time \/ Break

Spec == Init /\ [][Next]_vars

(* The loop polls the CAT server in every iteration.                       *)
FairSpec == Spec /\ WF_vars(ServeCat)

-----------------------------------------------------------------------------
(* Properties.                                                             *)

TypeOK ==
  /\ session \in S!Sessions \cup {None}
  /\ Live => session.connected
  /\ keyed_by \in Clients \cup {None}
  /\ cat_audio \in BOOLEAN
  /\ clients \subseteq Clients
  /\ link_down \in {"no", "short", "long"}
  /\ peers \in [Clients -> {"fresh", "here", "closed", "gone"}]
  /\ Len(events) <= EventMax

ClientHolds == Live /\ S!ClientHolds(session)

(* While a client holds the transmitter of a working link, the worker      *)
(* knows which, and that client is still there or its departure is on its  *)
(* way: no interleaving of claims, takeovers, stops and departures leaves  *)
(* a transmit nobody will end (FR-CATSRV-10).                              *)
HolderKnown ==
  ClientHolds /\ net = "up" =>
    /\ keyed_by # None
    /\ \/ peers[keyed_by] = "here"
       \/ Contains(events, Disconnected(keyed_by))

(* Clients may transmit only while the CAT audio device is open, so their  *)
(* transmit never wants for a source of its own and falls back to the mic. *)
OptInHasAudio == Live /\ session.cat_may_transmit => cat_audio

(* With the session gone nothing of a client's claim is left behind for    *)
(* the next session.                                                       *)
NothingLeftBehind == ~Live => keyed_by = None /\ ~cat_audio

(* What clients send puts nothing on air except TX, through all three      *)
(* licences and with its own audio (FR-CATSRV-07, FR-CATSRV-10).           *)
ClientsKeyThroughTheGate ==
  [][ServeCat /\ ~(on_air' \subseteq on_air) =>
       /\ Head(events).line = "TX"
       /\ session.tx_armed /\ session.cat_may_transmit /\ cat_audio]_vars

(* The operator wins: of what clients do, only an explicit RX ends the     *)
(* operator's own transmit - not the departure of a client that keyed      *)
(* before the operator took over, nor a key request.                       *)
OperatorUndisturbed ==
  [][ServeCat /\ Live /\ session.transmitting /\ ~S!ClientHolds(session)
       => \/ session'.transmitting /\ ~S!ClientHolds(session')
          \/ Head(events).line = "RX"]_vars

(* A client that keyed and left does not leave the transmitter on.         *)
DepartureUnkeys ==
  \A c \in Clients :
    (peers[c] = "gone" /\ keyed_by = c /\ ClientHolds) ~> ~(keyed_by = c /\ ClientHolds)

(* FR-CATSRV-10: the CAT audio device is closed when the opt-in clears.    *)
(* The code does not keep this: disarm and the emergency stop clear the    *)
(* opt-in inside the session.                                              *)
AudioClosesWithOptIn ==
  Live /\ cat_audio => session.cat_may_transmit
=============================================================================
