------------------------------ MODULE Session ------------------------------
(***************************************************************************)
(* The transmit interlock and keep-alive of crates/k4-session (Session,    *)
(* src/crates/k4-session/src/lib.rs) with the two classifiers of           *)
(* crates/k4-protocol it gates raw commands by.                            *)
(*                                                                         *)
(* A method of the Rust type is an operator here: it takes the session     *)
(* record and yields the record after the call and the CAT commands the    *)
(* call sends, in order.  The state of one link's life is the session, the *)
(* radio's transmitter, the network path and the replies on their way.     *)
(* Time is kept as ages (how long ago), one unit being the grain at which  *)
(* the worker is sure to have called tick.                                 *)
(*                                                                         *)
(* Bounds: ages stop counting just above the threshold they are compared   *)
(* with, ReplyMax caps the replies in flight.                              *)
(***************************************************************************)
EXTENDS Integers, Sequences

CONSTANTS
  LinkTimeout,    \* SessionConfig.link_timeout, in units
  PingInterval,   \* SessionConfig.ping_interval
  LimitMin,       \* CLIENT_TX_LIMIT_MIN
  LimitMax,       \* CLIENT_TX_LIMIT_MAX
  RawCommands,    \* commands that reach send() from outside
  ReplyMax,       \* replies in flight (a bound of the model)
  None            \* Option::None

ASSUME TimesAssumption ==
  /\ LinkTimeout \in Nat \ {0}
  /\ PingInterval \in Nat \ {0}
  /\ LimitMin \in Nat /\ LimitMin > PingInterval
  /\ LimitMax \in Nat
  /\ LimitMin <= LimitMax

ASSUME NoneAssumption == None \notin Int

ASSUME ReplyMaxAssumption == ReplyMax \in Nat

VARIABLES
  session,   \* the Session struct
  on_air,    \* what the radio transmits because of this app (external)
  net,       \* the path to the radio (external)
  replies,   \* what the radio has sent and pump has not read (external)
  ticked,    \* tick has run in this unit of time (the worker's schedule)
  held       \* history: how long a client has been transmitting

vars == <<session, on_air, net, replies, ticked, held>>

-----------------------------------------------------------------------------
(* The radio, as the code's comments describe it.  A command stands for    *)
(* its class: TU1 for every tune but TU0 and for the TUNE switches, TX     *)
(* for the XMIT switch, KY for keyed text, PB1 for a DVR message, DAMP for *)
(* stored voice messages; FA for what does not touch the transmitter.      *)

Begins ==
  [TX |-> {"voice"}, TU1 |-> {"tune"}, KY |-> {"text"},
   PB1 |-> {"dvr"}, DAMP |-> {"message"}]

Ends ==
  [RX |-> {"voice", "text"}, TU0 |-> {"tune"}, PB0 |-> {"dvr"},
   DA0 |-> {"message"}]

Emissions == {"voice", "tune", "text", "dvr", "message"}

keys_transmitter(c) == c \in DOMAIN Begins
stops_transmitter(c) == c \in DOMAIN Ends

ASSUME RawCommandsAssumption ==
  RawCommands \subseteq DOMAIN Begins \cup DOMAIN Ends \cup {"FA"}

(* No method sends both commands that begin and commands that end, so the  *)
(* order among the commands it gets through does not matter.               *)
Heard(air, cmds) ==
  (air \ UNION {Ends[c] : c \in cmds \cap DOMAIN Ends})
     \cup UNION {Begins[c] : c \in cmds \cap DOMAIN Begins}

(* Commands reach the radio in order until the path breaks.                *)
Send(cmds) ==
  \E n \in 0 .. Len(cmds) :
    /\ net = "up" \/ n = 0
    /\ on_air' = Heard(on_air, {cmds[i] : i \in 1 .. n})
    /\ net' = IF n = Len(cmds) THEN net ELSE "down"

-----------------------------------------------------------------------------
(* The struct and its methods.                                             *)

RxAges == 0 .. LinkTimeout
PingAges == 0 .. PingInterval + 2
HoldAges == 0 .. LimitMax + 2

Sessions ==
  [connected : BOOLEAN, tx_armed : BOOLEAN, transmitting : BOOLEAN,
   tuning : BOOLEAN, raw_tx : BOOLEAN, cat_may_transmit : BOOLEAN,
   client_tx_since : HoldAges \cup {None},
   client_tx_limit : LimitMin .. LimitMax,
   last_rx : RxAges, last_ping : PingAges,
   reported : {"unknown", "rx", "tx"}]   \* state.transmitting

New(limit) ==
  [connected |-> TRUE, tx_armed |-> FALSE, transmitting |-> FALSE,
   tuning |-> FALSE, raw_tx |-> FALSE, cat_may_transmit |-> FALSE,
   client_tx_since |-> None, client_tx_limit |-> limit,
   last_rx |-> 0, last_ping |-> 0, reported |-> "unknown"]

Does(s, cmds) == [session |-> s, sent |-> cmds]

Keyable(s) == s.tx_armed /\ s.connected
ClientHolds(s) == s.client_tx_since # None

EndTx(s) ==
  Does([s EXCEPT !.client_tx_since = None, !.transmitting = FALSE],
       IF s.transmitting THEN <<"RX">> ELSE <<>>)

EndClientTx(s) == IF ClientHolds(s) THEN EndTx(s) ELSE Does(s, <<>>)

ArmTx(s) == Does([s EXCEPT !.tx_armed = TRUE], <<>>)

(* Mutant: the client's transmit survives the disarm.                      *)
DisarmTxKeepsClient(s) ==
  Does([s EXCEPT !.tx_armed = FALSE, !.cat_may_transmit = FALSE], <<>>)

DisarmTx(s) ==
  EndClientTx([s EXCEPT !.tx_armed = FALSE, !.cat_may_transmit = FALSE])

BeginTx(s) ==
  IF Keyable(s)
  THEN Does([s EXCEPT !.client_tx_since = None, !.transmitting = TRUE],
            <<"TX">>)
  ELSE Does(s, <<>>)

SetCatMayTransmit(s, on) ==
  LET t == [s EXCEPT !.cat_may_transmit = on]
  IN  IF on THEN Does(t, <<>>) ELSE EndClientTx(t)

(* Mutant: the limit is taken as given.                                    *)
Unclamped(limit) == limit

Clamp(limit) ==
  IF limit < LimitMin THEN LimitMin
  ELSE IF limit > LimitMax THEN LimitMax ELSE limit

SetClientTxLimit(s, limit) ==
  Does([s EXCEPT !.client_tx_limit = Clamp(limit)], <<>>)

(* A client's request to key is answered Keyed to whoever asks while a     *)
(* client holds the transmitter; only the first keys anew.                 *)
ClientMayKey(s) == s.cat_may_transmit /\ Keyable(s)
ClientKeyed(s) == ClientMayKey(s) /\ (s.transmitting => ClientHolds(s))

(* Mutant: asking again starts the client's time anew.                     *)
BeginTxForClientAnew(s) ==
  IF ClientKeyed(s)
  THEN Does([s EXCEPT !.transmitting = TRUE, !.client_tx_since = 0],
            <<"TX">>)
  ELSE Does(s, <<>>)

(* Mutant: the client takes over from the operator.                        *)
BeginTxForClientAlways(s) ==
  IF ClientMayKey(s)
  THEN Does([s EXCEPT !.transmitting = TRUE, !.client_tx_since = 0],
            <<"TX">>)
  ELSE Does(s, <<>>)

BeginTxForClient(s) ==
  IF ClientMayKey(s) /\ ~s.transmitting
  THEN Does([s EXCEPT !.transmitting = TRUE, !.client_tx_since = 0],
            <<"TX">>)
  ELSE Does(s, <<>>)

(* TuneAction::Exit is never gated.                                        *)
Tune(s, action) ==
  IF action = "TU0" \/ Keyable(s)
  THEN Does([s EXCEPT !.tuning = (action # "TU0")], <<action>>)
  ELSE Does(s, <<>>)

(* Mutant: only what the flags know of is stopped.                         *)
EmergencyStopByFlags(s) ==
  Does([s EXCEPT !.transmitting = FALSE, !.tx_armed = FALSE,
                 !.cat_may_transmit = FALSE, !.client_tx_since = None,
                 !.raw_tx = FALSE, !.tuning = FALSE],
       (IF s.tuning THEN <<"TU0">> ELSE <<>>) \o <<"RX">>)

EmergencyStop(s) ==
  Does([s EXCEPT !.transmitting = FALSE, !.tx_armed = FALSE,
                 !.cat_may_transmit = FALSE, !.client_tx_since = None,
                 !.raw_tx = FALSE, !.tuning = FALSE],
       <<"TU0", "PB0", "DA0", "RX">>)

(* Mutant: the tune is ended only when there is no transmit to end.        *)
FailSafeEither(s) ==
  Does([s EXCEPT !.cat_may_transmit = FALSE, !.client_tx_since = None,
                 !.transmitting = FALSE, !.tuning = FALSE,
                 !.tx_armed = FALSE],
       IF s.transmitting THEN <<"RX">>
       ELSE IF s.tuning THEN <<"TU0", "RX">> ELSE <<>>)

FailSafe(s) ==
  Does([s EXCEPT !.cat_may_transmit = FALSE, !.client_tx_since = None,
                 !.transmitting = FALSE, !.tuning = FALSE,
                 !.tx_armed = FALSE],
       (IF s.transmitting THEN <<"RX">> ELSE <<>>)
         \o (IF s.tuning THEN <<"TU0", "RX">> ELSE <<>>))

NoteIoError(s) == FailSafe([s EXCEPT !.connected = FALSE])

(* Mutant: the passthrough is not gated.                                   *)
SendRawUngated(s, c) ==
  Does([s EXCEPT !.raw_tx = keys_transmitter(c)
                              \/ (@ /\ ~stops_transmitter(c))],
       <<c>>)

SendRaw(s, c) ==
  IF keys_transmitter(c) /\ ~Keyable(s)
  THEN Does(s, <<>>)
  ELSE Does([s EXCEPT !.raw_tx = keys_transmitter(c)
                                   \/ (@ /\ ~stops_transmitter(c))],
            <<c>>)

Disconnect(s) == Does([s EXCEPT !.connected = FALSE], <<"RRN">>)

(* tick: the link first, then the client's time, then the keep-alive; at   *)
(* most one of the three happens in a call.                                *)
LinkIsLost(s) == s.connected /\ s.last_rx >= LinkTimeout

HoldIsOver(s) ==
  /\ s.connected
  /\ ~LinkIsLost(s)
  /\ ClientHolds(s)
  /\ s.client_tx_since >= s.client_tx_limit

PingIsDue(s) == s.connected /\ s.last_ping >= PingInterval

(* Mutant: sending a PING counts as a sign of life.                        *)
TickPingIsLife(s) ==
  IF LinkIsLost(s) THEN NoteIoError(s)
  ELSE IF HoldIsOver(s) THEN EndTx(s)
  ELSE IF PingIsDue(s)
       THEN Does([s EXCEPT !.last_ping = 0, !.last_rx = 0], <<"PING">>)
  ELSE Does(s, <<>>)

Tick(s) ==
  IF LinkIsLost(s) THEN NoteIoError(s)
  ELSE IF HoldIsOver(s) THEN EndTx(s)
  ELSE IF PingIsDue(s) THEN Does([s EXCEPT !.last_ping = 0], <<"PING">>)
  ELSE Does(s, <<>>)

(* pump, one frame at a time: between the frames of one read nothing else  *)
(* happens, so a read of several is several of these.  "quiet" is a frame  *)
(* that is not folded into the state: PONG, audio, spectrum.               *)
Frames == {"if_rx", "if_tx", "cat", "quiet"}

Reported(s, f) ==
  CASE f = "if_rx" -> "rx" [] f = "if_tx" -> "tx" [] OTHER -> s.reported

Pump(s, f) ==
  [s EXCEPT !.last_rx = 0,
            !.reported = Reported(s, f),
            !.raw_tx = @ /\ (f = "quiet" \/ Reported(s, f) # "rx")]

-----------------------------------------------------------------------------
(* The steps.  What calls the methods is left open: any order at any time. *)

Call(effect) ==
  /\ session' = effect.session
  /\ Send(effect.sent)
  /\ held' = IF ClientHolds(effect.session) THEN held ELSE 0

Arm == Call(ArmTx(session)) /\ UNCHANGED <<replies, ticked>>
Disarm == Call(DisarmTx(session)) /\ UNCHANGED <<replies, ticked>>
OperatorKeys == Call(BeginTx(session)) /\ UNCHANGED <<replies, ticked>>
OperatorUnkeys == Call(EndTx(session)) /\ UNCHANGED <<replies, ticked>>

SetOptIn ==
  /\ \E on \in BOOLEAN : Call(SetCatMayTransmit(session, on))
  /\ UNCHANGED <<replies, ticked>>

(* Limits below, at and above the range are asked for.                     *)
SetLimit ==
  /\ \E limit \in LimitMin - 1 .. LimitMax + 1 :
       Call(SetClientTxLimit(session, limit))
  /\ UNCHANGED <<replies, ticked>>

ClientKeys == Call(BeginTxForClient(session)) /\ UNCHANGED <<replies, ticked>>
ClientLeaves == Call(EndClientTx(session)) /\ UNCHANGED <<replies, ticked>>

TuneStep ==
  /\ \E action \in {"TU0", "TU1"} : Call(Tune(session, action))
  /\ UNCHANGED <<replies, ticked>>

SendStep ==
  /\ \E c \in RawCommands : Call(SendRaw(session, c))
  /\ UNCHANGED <<replies, ticked>>

Stop == Call(EmergencyStop(session)) /\ UNCHANGED <<replies, ticked>>

DisconnectStep == Call(Disconnect(session)) /\ UNCHANGED <<replies, ticked>>

(* The worker reports what pump returned: the path must be broken.         *)
IoError ==
  /\ net = "down"
  /\ Call(NoteIoError(session))
  /\ UNCHANGED <<replies, ticked>>

TickStep ==
  /\ Call(Tick(session))
  /\ ticked' = TRUE
  /\ UNCHANGED replies

PumpStep ==
  /\ replies # <<>>
  /\ session' = Pump(session, Head(replies))
  /\ replies' = Tail(replies)
  /\ UNCHANGED <<on_air, net, ticked, held>>

(* A unit of time.  The worker's loop calls tick many times in each, so    *)
(* time does not run on until it has.                                      *)
Older(age, cap) == IF age < cap THEN age + 1 ELSE age

Aged(s) ==
  [s EXCEPT !.last_rx = Older(@, LinkTimeout),
            !.last_ping = Older(@, PingInterval + 2),
            !.client_tx_since =
              IF @ = None THEN None ELSE Older(@, LimitMax + 2)]

Advance ==
  /\ ticked
  /\ ticked' = FALSE
  /\ session' = Aged(session)
  /\ held' = IF ClientHolds(session) THEN Older(held, LimitMax + 2) ELSE 0
  /\ UNCHANGED <<on_air, net, replies>>

(* The radio answers an IF poll with what it is doing at that moment, or   *)
(* sends something else; it may leave the air on its own.                  *)
RadioReplies ==
  /\ net = "up"
  /\ Len(replies) < ReplyMax
  /\ \E f \in {"cat", "quiet", IF on_air = {} THEN "if_rx" ELSE "if_tx"} :
       replies' = Append(replies, f)
  /\ UNCHANGED <<session, on_air, net, ticked, held>>

RadioEnds ==
  /\ \E e \in on_air : on_air' = on_air \ {e}
  /\ UNCHANGED <<session, net, replies, ticked, held>>

(* The path breaks, for this session for good.                             *)
Break ==
  /\ net = "up"
  /\ net' = "down"
  /\ UNCHANGED <<session, on_air, replies, ticked, held>>

-----------------------------------------------------------------------------
Init ==
  /\ session \in {New(limit) : limit \in LimitMin .. LimitMax}
  /\ on_air = {}
  /\ net = "up"
  /\ replies = <<>>
  /\ ticked = FALSE
  /\ held = 0

Next ==
  \/ Arm \/ Disarm \/ OperatorKeys \/ OperatorUnkeys
  \/ SetOptIn \/ SetLimit \/ ClientKeys \/ ClientLeaves
  \/ TuneStep \/ SendStep \/ Stop \/ DisconnectStep \/ IoError
  \/ TickStep \/ PumpStep \/ Advance
  \/ RadioReplies \/ RadioEnds \/ Break

Spec == Init /\ [][Next]_vars

(* The worker never stops calling tick and time never stops.               *)
FairSpec == Spec /\ WF_vars(TickStep) /\ WF_vars(Advance)

-----------------------------------------------------------------------------
(* Properties.                                                             *)

(* Every field keeps its type; the ages stay within their counts.          *)
TypeOK ==
  /\ session \in Sessions
  /\ on_air \subseteq Emissions
  /\ net \in {"up", "down"}
  /\ replies \in Seq(Frames)
  /\ Len(replies) <= ReplyMax
  /\ ticked \in BOOLEAN
  /\ held \in HoldAges

(* A client's claim on the transmitter never outlives what licensed it:    *)
(* while a claim stands the session is transmitting, armed and opted in,   *)
(* whichever of disarm, opt-out, stop, operator key, limit and link loss   *)
(* came in between (FR-CATSRV-10).                                         *)
ClaimLicensed ==
  ClientHolds(session) =>
    session.transmitting /\ session.tx_armed /\ session.cat_may_transmit

(* No client holds the transmitter of a live link beyond the longest limit *)
(* there is, however often it asks to key again and however the limit is   *)
(* changed meanwhile; once tick has run, not even that long.               *)
HoldBounded ==
  session.connected /\ ClientHolds(session) =>
    /\ held <= LimitMax
    /\ ticked => held < LimitMax

(* The radio hears a PING in every interval and one tick more: neither the *)
(* end of a client's transmit nor anything else starves the keep-alive     *)
(* (FR-SES-01).                                                            *)
KeepAlive == session.connected => session.last_ping <= PingInterval + 1

(* While the path is up and no raw command keys the radio, what is on air  *)
(* by voice or tune is what the session believes it keyed: no sequence of  *)
(* keys, claims, stops and losses leaves the radio keyed behind a flag     *)
(* that says it is not (FR-TX-SAFE-05).                                    *)
KnowsWhatItKeyed ==
  net = "up" =>
    /\ "voice" \in on_air => session.transmitting
    /\ "tune" \in on_air => session.tuning

(* Nothing goes on air from any of the entry points - operator, client,    *)
(* tune, raw command - unless transmit is armed on a live session          *)
(* (FR-TX-SAFE-03).                                                        *)
Interlock == [][on_air' \subseteq on_air \/ Keyable(session)]_vars

(* An emergency stop that got through leaves nothing on air, whatever was  *)
(* keyed and by which route (FR-TX-SAFE-04).                               *)
StopSilences == [][Stop /\ net' = "up" => on_air' = {}]_vars

(* The transmitter changes hands as TransmitOwner allows.                  *)
Owner ==
  IF ~session.transmitting THEN "nobody"
  ELSE IF ClientHolds(session) THEN "client" ELSE "operator"

O == INSTANCE TransmitOwner WITH
       owner <- Owner, armed <- session.tx_armed,
       opt_in <- session.cat_may_transmit, link <- session.connected

OwnerSpec == O!Spec

(* A dead path is noticed, even while the session keeps sending into it:   *)
(* only what arrives counts as life (FR-SES-02).                           *)
DeadPathNoticed == (net = "down") ~> ~session.connected

(* FR-TX-SAFE-05: the gate on the emergency stop's key withholds it only    *)
(* when there is nothing to stop; ui::on_air opens it on the session's      *)
(* flags or the radio's report.  The code does not keep this: a report      *)
(* from before the key was sent closes the gate.                            *)
StopOffered ==
  net = "up" /\ on_air # {} =>
    \/ session.transmitting \/ session.tuning \/ session.raw_tx
    \/ session.reported = "tx"

(* Comment of pump: raw_tx is cleared because the radio says it is         *)
(* receiving.  The code does not keep this: any CAT text clears it while   *)
(* an older report said so.                                                *)
RawTxEndsByReport ==
  [][PumpStep /\ session.raw_tx /\ ~session'.raw_tx
       => Head(replies) = "if_rx"]_vars

(* Comment of Session::send: raw_tx is cleared by the stop and fail-safe   *)
(* paths.  The code does not keep this.                                    *)
FailSafeClearsRawTx ==
  [][session.connected /\ ~session'.connected /\ ~DisconnectStep
       => ~session'.raw_tx]_vars

(* Comment of begin_tx_for_client: a client never keys over the operator's *)
(* own transmit, a tune included.  The code does not keep this.            *)
NeverOverOperator ==
  [][~ClientHolds(session) /\ ClientHolds(session')
       => ~(session.transmitting \/ session.tuning \/ session.raw_tx)]_vars
=============================================================================
