-------------------------- MODULE CatClientsProofs --------------------------
(***************************************************************************)
(* What the worker keeps about its CAT clients, for any number of them,    *)
(* any queue of events and any time-outs: the state is well formed, the    *)
(* audio device and the claim go with the session, nothing a client sends  *)
(* keys the radio but through the gate, and while a client is on air the   *)
(* worker knows which.                                                     *)
(***************************************************************************)
EXTENDS CatClients, TLAPS

-----------------------------------------------------------------------------
(* The session's calls, as the worker uses them.                           *)

(* A session the worker keeps: connected, and a client's claim only while  *)
(* it transmits.                                                           *)
Fit(s) ==
  /\ s \in S!Sessions
  /\ s.connected
  /\ S!ClientHolds(s) => s.transmitting

(* The session after a call is fit and the call grants no opt-in.          *)
Keeps(s, t) == Fit(t) /\ (t.cat_may_transmit => s.cat_may_transmit)

LEMMA Nought ==
  /\ 0 \in S!HoldAges /\ 0 \in S!RxAges /\ 0 \in S!PingAges
BY TimesAssumption DEF S!HoldAges, S!RxAges, S!PingAges

LEMMA Kept ==
  ASSUME NEW s \in S!Sessions, Fit(s)
  PROVE  /\ Keeps(s, S!ArmTx(s).session)
         /\ Keeps(s, S!DisarmTx(s).session)
         /\ Keeps(s, S!BeginTx(s).session)
         /\ Keeps(s, S!EndTx(s).session)
         /\ Keeps(s, S!EndClientTx(s).session)
         /\ Keeps(s, S!EmergencyStop(s).session)
         /\ Keeps(s, S!BeginTxForClient(s).session)
         /\ Keeps(s, S!SetCatMayTransmit(s, FALSE).session)
         /\ Fit(S!SetCatMayTransmit(s, TRUE).session)
         /\ \A a : Keeps(s, S!Tune(s, a).session)
         /\ \A c : Keeps(s, S!SendRaw(s, c).session)
         /\ Keeps(s, S!Aged(s))
<1> USE NoneAssumption
<1> USE DEF Keeps, Fit, S!Sessions, S!Does, S!ClientHolds
<1>1. Keeps(s, S!ArmTx(s).session)
  BY DEF S!ArmTx
<1>2. Keeps(s, S!EndTx(s).session) /\ Keeps(s, S!EndClientTx(s).session)
  BY DEF S!EndTx, S!EndClientTx
<1>3. Keeps(s, S!DisarmTx(s).session)
  BY DEF S!DisarmTx, S!EndTx, S!EndClientTx
<1>4. Keeps(s, S!BeginTx(s).session)
  BY DEF S!BeginTx, S!Keyable
<1>5. Keeps(s, S!EmergencyStop(s).session)
  BY DEF S!EmergencyStop
<1>6. Keeps(s, S!BeginTxForClient(s).session)
  BY Nought DEF S!BeginTxForClient, S!ClientMayKey, S!Keyable
<1>7. Keeps(s, S!SetCatMayTransmit(s, FALSE).session)
  BY DEF S!SetCatMayTransmit, S!EndTx, S!EndClientTx
<1>8. Fit(S!SetCatMayTransmit(s, TRUE).session)
  BY DEF S!SetCatMayTransmit
<1>9. \A a : Keeps(s, S!Tune(s, a).session)
  BY DEF S!Tune
<1>10. \A c : Keeps(s, S!SendRaw(s, c).session)
  BY DEF S!SendRaw, S!keys_transmitter, S!stops_transmitter
<1>11. Keeps(s, S!Aged(s))
  <2>1. S!Older(s.last_rx, LinkTimeout) \in S!RxAges
    BY TimesAssumption DEF S!Older, S!RxAges
  <2>2. S!Older(s.last_ping, PingInterval + 2) \in S!PingAges
    BY TimesAssumption DEF S!Older, S!PingAges
  <2>3. s.client_tx_since # None =>
          S!Older(s.client_tx_since, LimitMax + 2) \in S!HoldAges
    BY TimesAssumption DEF S!Older, S!HoldAges
  <2> QED
    BY <2>1, <2>2, <2>3 DEF S!Aged
<1> QED
  BY <1>1, <1>2, <1>3, <1>4, <1>5, <1>6, <1>7, <1>8, <1>9, <1>10, <1>11

(* tick keeps a fit session fit or has it closed; a client's time over     *)
(* ends its claim.                                                         *)
LEMMA Ticked ==
  ASSUME NEW s \in S!Sessions, Fit(s), S!Tick(s).session.connected
  PROVE  /\ Keeps(s, S!Tick(s).session)
         /\ S!HoldIsOver(s) => ~S!ClientHolds(S!Tick(s).session)
         /\ S!ClientHolds(S!Tick(s).session) => S!ClientHolds(s)
<1>1. ~S!LinkIsLost(s)
  BY DEF S!Tick, S!NoteIoError, S!FailSafe, S!Does, S!Sessions
<1>2. CASE S!HoldIsOver(s)
  BY <1>1, <1>2, Kept
     DEF S!Tick, S!EndTx, S!Does, S!ClientHolds, S!Sessions
<1>3. CASE ~S!HoldIsOver(s) /\ S!PingIsDue(s)
  BY <1>1, <1>3, Nought
     DEF S!Tick, S!Does, S!ClientHolds, S!Sessions, Keeps, Fit
<1>4. CASE ~S!HoldIsOver(s) /\ ~S!PingIsDue(s)
  BY <1>1, <1>4 DEF S!Tick, S!Does, Keeps
<1> QED
  BY <1>2, <1>3, <1>4

(* What a read leaves of a session.                                        *)
LEMMA HeardKept ==
  ASSUME NEW s \in S!Sessions, Fit(s)
  PROVE  /\ Keeps(s, [s EXCEPT !.last_rx = 0])
         /\ S!ClientHolds([s EXCEPT !.last_rx = 0]) <=> S!ClientHolds(s)
BY Nought DEF Keeps, Fit, S!Sessions, S!ClientHolds

(* An error closes the session.                                            *)
LEMMA ErrorEnds ==
  ASSUME NEW s \in S!Sessions
  PROVE  ~S!NoteIoError(s).session.connected
BY DEF S!NoteIoError, S!FailSafe, S!Does, S!Sessions

LEMMA NewFit == Fit(S!New(LimitMax)) /\ ~S!ClientHolds(S!New(LimitMax))
BY Nought, TimesAssumption, NoneAssumption
   DEF Fit, S!New, S!Sessions, S!ClientHolds

-----------------------------------------------------------------------------
(* The state is well formed.                                               *)

Messages ==
  {Connected(c) : c \in Clients} \cup {Disconnected(c) : c \in Clients}
    \cup {Event("line", c, l) : c \in Clients, l \in ClientLines}

LEMMA MessageType ==
  ASSUME NEW e \in Messages
  PROVE  /\ e.id \in Clients
         /\ e.kind \in {"connected", "disconnected", "line"}
         /\ e.kind = "connected" => e = Connected(e.id)
         /\ e.kind = "disconnected" => e = Disconnected(e.id)
         /\ e.kind = "line" => e.line \in Lines
BY ClientLinesAssumption DEF Messages, Connected, Disconnected, Event

(* What is the session's.                                                  *)
Held ==
  /\ session \in S!Sessions \cup {None}
  /\ Live => Fit(session)
  /\ keyed_by \in Clients \cup {None}
  /\ cat_audio \in BOOLEAN
  /\ OptInHasAudio
  /\ NothingLeftBehind

(* What is the server's.                                                   *)
Served ==
  /\ clients \subseteq Clients
  /\ link_down \in {"no", "short", "long"}
  /\ peers \in [Clients -> {"fresh", "here", "closed", "gone"}]
  /\ events \in Seq(Messages)
  /\ Len(events) <= EventMax

LEMMA TypesFromParts ==
  Held /\ Served => TypeOK /\ OptInHasAudio /\ NothingLeftBehind
BY DEF Held, Served, TypeOK, Fit

LEMMA LiveType == Held /\ Live => session \in S!Sessions /\ Fit(session)
BY DEF Held, Live

LEMMA FitIsLive == \A s : Fit(s) => s # None /\ s \in S!Sessions
BY NoneAssumption DEF Fit

(* The next event, and the rest of them.                                   *)
LEMMA NextEvent ==
  ASSUME Served, events # <<>>
  PROVE  /\ Head(events) \in Messages
         /\ Tail(events) \in Seq(Messages)
         /\ Len(Tail(events)) = Len(events) - 1
BY DEF Served

(* What a pass over the CAT server may do to the session.                  *)
LEMMA ServeMeans ==
  ASSUME Served, ServeCat
  PROVE  /\ UNCHANGED cat_audio
         /\ \/ Idle /\ UNCHANGED keyed_by
            \/ /\ events # <<>>
               /\ Head(events) = Disconnected(Head(events).id)
               /\ Departed(Head(events).id)
            \/ /\ events # <<>>
               /\ Head(events).line \in Lines
               /\ Head(events).kind = "line"
               /\ Head(events).id \in clients
               /\ Handle(Head(events).id, Head(events).line)
<1>1. events # <<>> => Head(events) \in Messages
  BY NextEvent
<1> DEFINE e == Head(events)
<1> HIDE DEF e
<1>2. CASE events = <<>>
  BY <1>2 DEF ServeCat
<1>3. CASE events # <<>> /\ e.kind = "connected"
  BY <1>3 DEF ServeCat, e
<1>4. CASE events # <<>> /\ e.kind = "disconnected"
  BY <1>1, <1>4, MessageType DEF ServeCat, e
<1>5. CASE events # <<>> /\ e.kind = "line"
  BY <1>1, <1>5, MessageType DEF ServeCat, e
<1>6. events # <<>> => e.kind \in {"connected", "disconnected", "line"}
  BY <1>1, MessageType DEF e
<1>7. UNCHANGED cat_audio
  BY DEF ServeCat
<1> QED
  BY <1>2, <1>3, <1>4, <1>5, <1>6, <1>7

(* What becomes of a line, by the line.                                    *)
LEMMA HandleMeans ==
  ASSUME NEW id, NEW line \in Lines, Handle(id, line)
  PROVE  \/ line = "RX" /\ Unkey
         \/ line = "TX" /\ KeyRequest(id)
         \/ line \in {"TU0", "FA"} /\ Raw(line)
         \/ Idle /\ UNCHANGED keyed_by
BY DEF Handle, Verdict, Lines

LEMMA HeldByServe ==
  ASSUME Held, Served, ServeCat
  PROVE  Held'
<1>0. CASE Idle /\ UNCHANGED <<keyed_by, cat_audio>>
  BY <1>0 DEF Idle, Held, Live, OptInHasAudio, NothingLeftBehind
<1>1. ASSUME NEW effect, Live, Keeps(session, effect.session), On(effect),
             keyed_by' \in Clients \cup {None}, UNCHANGED cat_audio
      PROVE  Held'
  <2>1. session' = effect.session
    BY <1>1 DEF On
  <2> QED
    BY <1>1, <2>1, FitIsLive
       DEF Held, Live, Keeps, OptInHasAudio, NothingLeftBehind
<1>2. CASE ~Live /\ Idle /\ keyed_by' = None /\ UNCHANGED cat_audio
  BY <1>2 DEF Idle, Held, Live, OptInHasAudio, NothingLeftBehind
<1>3. keyed_by \in Clients \cup {None}
  BY DEF Held
<1>4. UNCHANGED cat_audio
  BY ServeMeans
<1>5. Live => /\ Keeps(session, S!EndTx(session).session)
              /\ Keeps(session, S!EndClientTx(session).session)
              /\ Keeps(session, S!BeginTxForClient(session).session)
              /\ \A c : Keeps(session, S!SendRaw(session, c).session)
  BY LiveType, Kept
<1>6. ASSUME NEW id, Departed(id) PROVE Held'
  <2>1. CASE keyed_by = id /\ Live
    <3>1. On(S!EndClientTx(session)) /\ keyed_by' = None
      BY <1>6, <2>1 DEF Departed
    <3> QED
      BY <1>1, <1>4, <1>5, <2>1, <3>1
  <2>2. CASE keyed_by = id /\ ~Live
    BY <1>2, <1>4, <1>6, <2>2 DEF Departed
  <2>3. CASE keyed_by # id
    BY <1>0, <1>4, <1>6, <2>3 DEF Departed
  <2> QED
    BY <2>1, <2>2, <2>3
<1>7. CASE Unkey
  <2>0. keyed_by' = None
    BY <1>7 DEF Unkey
  <2>1. CASE ~Live
    BY <1>2, <1>4, <1>7, <2>1 DEF Unkey
  <2>2. CASE Live /\ session.transmitting
    <3>1. On(S!EndTx(session))
      BY <1>7, <2>2 DEF Unkey
    <3> QED
      BY <1>1, <1>4, <1>5, <2>0, <2>2, <3>1
  <2>3. CASE Live /\ ~session.transmitting
    <3>1. On(S!SendRaw(session, "RX"))
      BY <1>7, <2>3 DEF Unkey
    <3> QED
      BY <1>1, <1>4, <1>5, <2>0, <2>3, <3>1
  <2> QED
    BY <2>1, <2>2, <2>3
<1>8. ASSUME NEW id \in Clients, KeyRequest(id) PROVE Held'
  <2>1. CASE Live /\ cat_audio
    <3>1. On(S!BeginTxForClient(session)) /\ keyed_by' \in {id, keyed_by}
      BY <1>8, <2>1 DEF KeyRequest
    <3> QED
      BY <1>1, <1>3, <1>4, <1>5, <2>1, <3>1
  <2>2. CASE ~(Live /\ cat_audio)
    BY <1>0, <1>4, <1>8, <2>2 DEF KeyRequest
  <2> QED
    BY <2>1, <2>2
<1>9. ASSUME NEW line, Raw(line) PROVE Held'
  <2>1. CASE Live
    <3>1. On(S!SendRaw(session, line)) /\ UNCHANGED keyed_by
      BY <1>9, <2>1 DEF Raw
    <3> QED
      BY <1>1, <1>3, <1>4, <1>5, <2>1, <3>1
  <2>2. CASE ~Live
    BY <1>0, <1>4, <1>9, <2>2 DEF Raw
  <2> QED
    BY <2>1, <2>2
<1>10. events # <<>> => Head(events).id \in Clients
  BY NextEvent, MessageType
<1> QED
  BY <1>0, <1>4, <1>6, <1>7, <1>8, <1>9, <1>10, ServeMeans, HandleMeans

(* The commands of the operator's that leave the claim and the device.     *)
OperatorCalls(s) ==
  {S!ArmTx(s), S!DisarmTx(s), S!BeginTx(s), S!EndTx(s), S!EmergencyStop(s)}
    \cup {S!Tune(s, a) : a \in {"TU0", "TU1"}}

LEMMA OperatorMeans ==
  ASSUME CmdArmTx \/ CmdKey \/ CmdEmergencyStop \/ CmdTune
  PROVE  Live /\ \E effect \in OperatorCalls(session) : Command(effect)
BY DEF CmdArmTx, CmdKey, CmdEmergencyStop, CmdTune, OperatorCalls

LEMMA HeldByOperator ==
  ASSUME Held, CmdArmTx \/ CmdKey \/ CmdEmergencyStop \/ CmdTune
  PROVE  Held'
<1>1. PICK effect \in OperatorCalls(session) : Command(effect)
  BY OperatorMeans
<1>2. Live /\ Keeps(session, effect.session)
  BY LiveType, Kept, OperatorMeans DEF OperatorCalls
<1>3. session' = effect.session /\ UNCHANGED <<keyed_by, cat_audio>>
  BY <1>1 DEF Command, On
<1> QED
  BY <1>2, <1>3, FitIsLive
     DEF Held, Live, Keeps, OptInHasAudio, NothingLeftBehind

LEMMA HeldByAudio ==
  ASSUME Held, CmdOptIn \/ CmdOptOut \/ CmdAudioDevice
  PROVE  Held'
<1> DEFINE on == S!SetCatMayTransmit(session, TRUE).session
           off == S!SetCatMayTransmit(session, FALSE).session
<1>1. Live => Fit(on) /\ Fit(off) /\ on # None /\ off # None
  BY LiveType, Kept, FitIsLive DEF Keeps
<1>2. off.cat_may_transmit => ~Live
  BY LiveType DEF S!SetCatMayTransmit, S!EndClientTx, S!EndTx, S!Does,
                  S!ClientHolds, S!Sessions
<1>3. CASE CmdOptIn
  <2>1. Live /\ session' = on /\ cat_audio' = TRUE /\ UNCHANGED keyed_by
    BY <1>3 DEF CmdOptIn, Command, On, Held
  <2> HIDE DEF on, off
  <2> QED
    BY <1>1, <2>1, FitIsLive DEF Held, Live, OptInHasAudio, NothingLeftBehind
<1>4. CASE (CmdOptOut \/ CmdAudioDevice) /\ Live
  <2>1. session' = off /\ cat_audio' = FALSE /\ UNCHANGED keyed_by
    BY <1>4 DEF CmdOptOut, CmdAudioDevice, On
  <2> HIDE DEF on, off
  <2> QED
    BY <1>1, <1>2, <1>4, <2>1, FitIsLive
       DEF Held, Live, OptInHasAudio, NothingLeftBehind
<1>5. CASE (CmdOptOut \/ CmdAudioDevice) /\ ~Live
  <2>1. FALSE
    BY <1>5 DEF CmdOptOut, CmdAudioDevice, Held, NothingLeftBehind
  <2> QED
    BY <2>1
<1> QED
  BY <1>3, <1>4, <1>5

LEMMA HeldByEnd == SessionGone => Held'
BY DEF SessionGone, Held, Live, OptInHasAudio, NothingLeftBehind

LEMMA HeldByService ==
  ASSUME Held, Service
  PROVE  Held'
<1>0. Live /\ session \in S!Sessions /\ Fit(session)
  BY LiveType DEF Service
<1>1. PICK read \in {"error", "nothing", "frames"} :
        LET heard == IF read = "frames"
                     THEN [session EXCEPT !.last_rx = 0] ELSE session
            effect == IF read = "error" THEN S!NoteIoError(session)
                      ELSE S!Tick(heard)
        IN  /\ S!Send(effect.sent)
            /\ \/ SessionGone
               \/ /\ ~Ended(effect.session)
                  /\ session' = effect.session
                  /\ keyed_by' \in {None, keyed_by}
                  /\ UNCHANGED cat_audio
  BY DEF Service
<1> DEFINE heard == IF read = "frames"
                    THEN [session EXCEPT !.last_rx = 0] ELSE session
           effect == IF read = "error" THEN S!NoteIoError(session)
                     ELSE S!Tick(heard)
<1>2. Keeps(session, heard) /\ heard \in S!Sessions /\ Fit(heard)
  BY <1>0, HeardKept DEF Keeps, Fit
<1>3. CASE SessionGone
  BY <1>3, HeldByEnd
<1>4. CASE /\ ~Ended(effect.session)
           /\ session' = effect.session
           /\ keyed_by' \in {None, keyed_by}
           /\ UNCHANGED cat_audio
  <2>1. read # "error"
    BY <1>0, <1>4, ErrorEnds DEF Ended
  <2> HIDE DEF heard
  <2>2. Keeps(heard, effect.session)
    BY <1>2, <1>4, <2>1, Ticked DEF Ended
  <2>3. Keeps(session, effect.session)
    BY <1>2, <2>2 DEF Keeps
  <2> HIDE DEF effect
  <2> QED
    BY <1>0, <1>4, <2>3, FitIsLive
       DEF Held, Live, Keeps, OptInHasAudio, NothingLeftBehind
<1> QED
  BY <1>1, <1>3, <1>4

LEMMA HeldByNext ==
  ASSUME Held, Served, [Next]_vars
  PROVE  Held'
<1>1. CASE CmdArmTx \/ CmdKey \/ CmdEmergencyStop \/ CmdTune
  BY <1>1, HeldByOperator
<1>2. CASE CmdOptIn \/ CmdOptOut \/ CmdAudioDevice
  BY <1>2, HeldByAudio
<1>3. CASE CmdDisconnect
  BY <1>3, HeldByEnd DEF CmdDisconnect
<1>4. CASE Service
  BY <1>4, HeldByService
<1>5. CASE NewSession
  <2>1. session' = S!New(LimitMax) /\ UNCHANGED <<keyed_by, cat_audio>>
    BY <1>5 DEF NewSession
  <2>2. Fit(session') /\ session'.cat_may_transmit = FALSE
    BY <2>1, NewFit DEF S!New
  <2> QED
    BY <2>1, <2>2, FitIsLive DEF Held, Live, OptInHasAudio, NothingLeftBehind
<1>6. CASE ServeCat
  BY <1>6, HeldByServe
<1>7. CASE Time
  <2>1. Live /\ session' = S!Aged(session) /\ UNCHANGED <<keyed_by, cat_audio>>
    BY <1>7 DEF Time
  <2>2. Keeps(session, session')
    BY <2>1, LiveType, Kept
  <2> QED
    BY <2>1, <2>2, FitIsLive
       DEF Held, Live, Keeps, OptInHasAudio, NothingLeftBehind
<1>8. CASE UNCHANGED <<session, keyed_by, cat_audio>>
  BY <1>8 DEF Held, Live, OptInHasAudio, NothingLeftBehind
<1>9. CASE \/ CmdCatServer \/ GraceOver \/ Break
           \/ \E c \in Clients : PeerConnects(c) \/ PeerSends(c) \/ PeerLeaves(c)
           \/ UNCHANGED vars
  BY <1>8, <1>9 DEF CmdCatServer, GraceOver, Break, PeerConnects, PeerSends,
                    PeerLeaves, workerVars, vars
<1> QED
  BY <1>1, <1>2, <1>3, <1>4, <1>5, <1>6, <1>7, <1>9 DEF Next

LEMMA ServedByServe ==
  ASSUME Served, ServeCat
  PROVE  Served'
<1>1. link_down' \in {"no", "short", "long"}
  BY DEF ServeCat, Grace, Served
<1>2. ASSUME NEW ids, Closed(ids)
      PROVE  peers' \in [Clients -> {"fresh", "here", "closed", "gone"}]
  BY <1>2 DEF Closed, Served
<1>3. peers' \in [Clients -> {"fresh", "here", "closed", "gone"}]
  BY <1>2 DEF ServeCat
<1>4. CASE events = <<>>
  BY <1>1, <1>3, <1>4 DEF ServeCat, Served
<1>5. CASE events # <<>>
  <2>1. events' = Tail(events)
    BY <1>5 DEF ServeCat
  <2>2. events' \in Seq(Messages) /\ Len(events') <= EventMax
    BY <1>5, <2>1, NextEvent, EventMaxAssumption DEF Served
  <2>3. Head(events).id \in Clients
    BY <1>5, NextEvent, MessageType
  <2>4. clients' \subseteq clients \cup {Head(events).id}
    BY <1>5 DEF ServeCat
  <2> QED
    BY <1>1, <1>3, <2>2, <2>3, <2>4 DEF Served
<1> QED
  BY <1>4, <1>5

LEMMA ServedByArrival ==
  ASSUME Served, NEW e \in Messages, Arrives(e)
  PROVE  events' \in Seq(Messages) /\ Len(events') <= EventMax
BY EventMaxAssumption DEF Served, Arrives

LEMMA ServedByPeers ==
  ASSUME Served, NEW c \in Clients,
         PeerConnects(c) \/ PeerSends(c) \/ PeerLeaves(c)
  PROVE  Served'
<1>1. CASE PeerConnects(c)
  <2>1. Connected(c) \in Messages
    BY DEF Messages
  <2> QED
    BY <1>1, <2>1, ServedByArrival DEF PeerConnects, Served, workerVars
<1>2. CASE PeerSends(c)
  <2>1. PICK line \in ClientLines : Arrives(Event("line", c, line))
    BY <1>2 DEF PeerSends
  <2>2. Event("line", c, line) \in Messages
    BY DEF Messages
  <2> QED
    BY <1>2, <2>1, <2>2, ServedByArrival DEF PeerSends, Served, workerVars
<1>3. CASE PeerLeaves(c)
  <2>1. Disconnected(c) \in Messages
    BY DEF Messages
  <2> QED
    BY <1>3, <2>1, ServedByArrival DEF PeerLeaves, Served, workerVars
<1> QED
  BY <1>1, <1>2, <1>3

LEMMA ServedByNext ==
  ASSUME Served, [Next]_vars
  PROVE  Served'
<1>1. CASE ServeCat
  BY <1>1, ServedByServe
<1>2. CASE \E c \in Clients : PeerConnects(c) \/ PeerSends(c) \/ PeerLeaves(c)
  BY <1>2, ServedByPeers
<1>3. CASE CmdCatServer
  <2>1. events' = <<>> /\ <<>> \in Seq(Messages) /\ Len(<<>>) = 0
    BY <1>3 DEF CmdCatServer
  <2> QED
    BY <1>3, <2>1, EventMaxAssumption DEF CmdCatServer, Served
<1>4. CASE GraceOver
  BY <1>4 DEF GraceOver, Served
<1>5. CASE UNCHANGED serverVars
  BY <1>5 DEF serverVars, Served
<1>6. CASE \/ CmdArmTx \/ CmdKey \/ CmdEmergencyStop \/ CmdTune
           \/ CmdOptIn \/ CmdOptOut \/ CmdAudioDevice \/ CmdDisconnect
           \/ Service \/ NewSession \/ Time \/ Break \/ UNCHANGED vars
  BY <1>5, <1>6 DEF CmdArmTx, CmdKey, CmdEmergencyStop, CmdTune, CmdOptIn,
     CmdOptOut, CmdAudioDevice, CmdDisconnect, Service, NewSession, Time,
     Break, Command, vars, serverVars
<1> QED
  BY <1>1, <1>2, <1>3, <1>4, <1>6 DEF Next

LEMMA InitParts == Init => Held /\ Served
<1> SUFFICES ASSUME Init PROVE Held /\ Served
  OBVIOUS
<1>1. events = <<>> /\ <<>> \in Seq(Messages) /\ Len(<<>>) = 0
  BY DEF Init
<1>2. Len(events) <= EventMax /\ events \in Seq(Messages)
  BY <1>1, EventMaxAssumption
<1>3. Served
  BY <1>2 DEF Init, Served
<1>4. Held
  BY DEF Init, Held, Live, OptInHasAudio, NothingLeftBehind
<1> QED
  BY <1>3, <1>4

(* TypeOK holds of every reachable state, and a session the worker keeps   *)
(* is a connected one.                                                     *)
THEOREM TypesHold == Spec => []TypeOK
<1>1. Held /\ Served /\ [Next]_vars => (Held /\ Served)'
  BY HeldByNext, ServedByNext
<1> QED
  BY <1>1, InitParts, TypesFromParts, PTL DEF Spec

(* OptInHasAudio holds of every reachable state: whichever of opt-in,      *)
(* device change, disarm, stop and link loss came in which order, a client *)
(* that may transmit has its audio device.                                 *)
THEOREM OptInAlwaysHasAudio == Spec => []OptInHasAudio
<1>1. Held /\ Served /\ [Next]_vars => (Held /\ Served)'
  BY HeldByNext, ServedByNext
<1> QED
  BY <1>1, InitParts, TypesFromParts, PTL DEF Spec

(* NothingLeftBehind holds of every reachable state: whichever way a       *)
(* session ends, the claim and the device end in the same step.            *)
THEOREM NothingIsLeftBehind == Spec => []NothingLeftBehind
<1>1. Held /\ Served /\ [Next]_vars => (Held /\ Served)'
  BY HeldByNext, ServedByNext
<1> QED
  BY <1>1, InitParts, TypesFromParts, PTL DEF Spec

-----------------------------------------------------------------------------
(* What clients do to the radio and to the operator.                       *)

Sent(effect) == {effect.sent[i] : i \in 1 .. Len(effect.sent)}

LEMMA SentSets ==
  /\ \A s : Sent(S!Does(s, <<>>)) = {}
  /\ \A s, c : Sent(S!Does(s, <<c>>)) = {c}
<1>1. \A s : Sent(S!Does(s, <<>>)) = {}
  BY DEF Sent, S!Does
<1>2. \A s, c : Sent(S!Does(s, <<c>>)) = {c}
  BY DEF Sent, S!Does
<1> QED
  BY <1>1, <1>2

(* A call that sends nothing that begins an emission puts nothing on air.  *)
LEMMA QuietCall ==
  ASSUME NEW effect, Sent(effect) \cap DOMAIN S!Begins = {}, On(effect)
  PROVE  on_air' \subseteq on_air
<1>1. PICK n \in 0 .. Len(effect.sent) :
        on_air' = S!Heard(on_air, {effect.sent[i] : i \in 1 .. n})
  BY DEF On, S!Send
<1>2. {effect.sent[i] : i \in 1 .. n} \subseteq Sent(effect)
  BY <1>1 DEF Sent
<1> QED
  BY <1>1, <1>2 DEF S!Heard

LEMMA QuietEnds ==
  ASSUME NEW s
  PROVE  /\ Sent(S!EndTx(s)) \cap DOMAIN S!Begins = {}
         /\ Sent(S!EndClientTx(s)) \cap DOMAIN S!Begins = {}
         /\ \A c \in {"RX", "TU0", "FA"} :
              Sent(S!SendRaw(s, c)) \cap DOMAIN S!Begins = {}
<1>0. DOMAIN S!Begins = {"TX", "TU1", "KY", "PB1", "DAMP"}
  BY DEF S!Begins
<1>1. Sent(S!EndTx(s)) \cap DOMAIN S!Begins = {}
  BY <1>0, SentSets DEF S!EndTx
<1>2. Sent(S!EndClientTx(s)) \cap DOMAIN S!Begins = {}
  BY <1>0, <1>1, SentSets DEF S!EndClientTx
<1>3. \A c \in {"RX", "TU0", "FA"} :
        Sent(S!SendRaw(s, c)) \cap DOMAIN S!Begins = {}
  BY <1>0, SentSets DEF S!SendRaw, S!keys_transmitter
<1> QED
  BY <1>1, <1>2, <1>3

(* ClientsKeyThroughTheGate holds of every step: whatever clients send, in *)
(* any interleaving with the operator, puts something on air only as a TX  *)
(* under arm, opt-in and an open audio device.                             *)
THEOREM ClientsAlwaysGated == Spec => ClientsKeyThroughTheGate
<1>1. Held /\ Served /\ [Next]_vars =>
        [ServeCat /\ ~(on_air' \subseteq on_air) =>
           /\ Head(events).line = "TX"
           /\ session.tx_armed /\ session.cat_may_transmit /\ cat_audio]_vars
  <2> SUFFICES ASSUME Held, Served, ServeCat, ~(on_air' \subseteq on_air)
               PROVE  /\ Head(events).line = "TX"
                      /\ session.tx_armed /\ session.cat_may_transmit
                      /\ cat_audio
    OBVIOUS
  <2>1. ~Idle
    BY DEF Idle
  <2>2. ASSUME NEW id PROVE ~Departed(id)
    BY <2>1, QuietCall, QuietEnds DEF Departed
  <2>3. ~Unkey
    BY <2>1, QuietCall, QuietEnds DEF Unkey
  <2>4. ASSUME NEW line \in {"TU0", "FA"} PROVE ~Raw(line)
    BY <2>1, <2>4, QuietCall, QuietEnds DEF Raw
  <2>5. Head(events).line = "TX" /\ KeyRequest(Head(events).id)
    BY <2>1, <2>2, <2>3, <2>4, ServeMeans, HandleMeans
  <2>6. Live /\ cat_audio /\ On(S!BeginTxForClient(session))
    BY <2>1, <2>5 DEF KeyRequest
  <2>7. S!ClientMayKey(session)
    <3>1. ~S!ClientMayKey(session) => Sent(S!BeginTxForClient(session)) = {}
      BY SentSets DEF S!BeginTxForClient
    <3> QED
      BY <2>6, <3>1, QuietCall
  <2> QED
    BY <2>5, <2>6, <2>7 DEF S!ClientMayKey, S!Keyable
<1>2. Held /\ Served /\ [Next]_vars => (Held /\ Served)'
  BY HeldByNext, ServedByNext
<1> QED
  BY <1>1, <1>2, InitParts, PTL DEF Spec, ClientsKeyThroughTheGate

(* OperatorUndisturbed holds of every step: of what clients do, only an    *)
(* explicit RX ends or takes over the operator's own transmit.             *)
THEOREM OperatorNeverDisturbed == Spec => OperatorUndisturbed
<1>1. Held /\ Served /\ [Next]_vars =>
        [ServeCat /\ Live /\ session.transmitting /\ ~S!ClientHolds(session)
           => \/ session'.transmitting /\ ~S!ClientHolds(session')
              \/ Head(events).line = "RX"]_vars
  <2> SUFFICES ASSUME Held, Served, ServeCat, Live, session.transmitting,
                      ~S!ClientHolds(session), Head(events).line # "RX"
               PROVE  session'.transmitting /\ ~S!ClientHolds(session')
    OBVIOUS
  <2>0. session \in S!Sessions
    BY LiveType
  <2>1. CASE Idle
    BY <2>1 DEF Idle
  <2>2. ASSUME NEW id, Departed(id)
        PROVE  session'.transmitting /\ ~S!ClientHolds(session')
    BY <2>1, <2>2 DEF Departed, On, S!EndClientTx, S!Does
  <2>3. ASSUME NEW id, KeyRequest(id)
        PROVE  session'.transmitting /\ ~S!ClientHolds(session')
    BY <2>1, <2>3 DEF KeyRequest, On, S!BeginTxForClient, S!Does
  <2>4. ASSUME NEW line, Raw(line)
        PROVE  session'.transmitting /\ ~S!ClientHolds(session')
    BY <2>0, <2>4 DEF Raw, On, S!SendRaw, S!Does, S!Sessions, S!ClientHolds
  <2> QED
    BY <2>1, <2>2, <2>3, <2>4, ServeMeans, HandleMeans
<1>2. Held /\ Served /\ [Next]_vars => (Held /\ Served)'
  BY HeldByNext, ServedByNext
<1> QED
  BY <1>1, <1>2, InitParts, PTL DEF Spec, OperatorUndisturbed

-----------------------------------------------------------------------------
(* Who holds the transmitter.                                              *)

LEMMA Apart ==
  /\ \A c, d : Connected(c) # Disconnected(d)
  /\ \A c, d : Connected(c) = Connected(d) => c = d
  /\ \A c, d : Disconnected(c) = Disconnected(d) => c = d
  /\ \A c, d, l : /\ Event("line", d, l) # Connected(c)
                  /\ Event("line", d, l) # Disconnected(c)
<1>1. \A c : Connected(c).kind = "connected" /\ Connected(c).id = c
  BY DEF Connected, Event
<1>2. \A c : Disconnected(c).kind = "disconnected" /\ Disconnected(c).id = c
  BY DEF Disconnected, Event
<1>3. \A d, l : Event("line", d, l).kind = "line"
  BY DEF Event
<1> QED
  BY <1>1, <1>2, <1>3

LEMMA InTail ==
  ASSUME events \in Seq(Messages), events # <<>>
  PROVE  /\ \A e : Contains(events, e) <=>
                     e = Head(events) \/ Contains(Tail(events), e)
         /\ \A i \in 1 .. Len(Tail(events)) :
              /\ i + 1 \in 1 .. Len(events)
              /\ Tail(events)[i] = events[i + 1]
<1>1. \A i \in 1 .. Len(Tail(events)) :
        /\ i + 1 \in 1 .. Len(events)
        /\ Tail(events)[i] = events[i + 1]
  OBVIOUS
<1>2. Head(events) = events[1] /\ 1 \in 1 .. Len(events)
  OBVIOUS
<1>3. \A i \in 1 .. Len(events) :
        i # 1 => i - 1 \in 1 .. Len(Tail(events)) /\ (i - 1) + 1 = i
  OBVIOUS
<1>4. \A i \in 1 .. Len(events) : i # 1 => Tail(events)[i - 1] = events[i]
  BY <1>1, <1>3
<1> QED
  BY <1>1, <1>2, <1>3, <1>4 DEF Contains

LEMMA InAppended ==
  ASSUME events \in Seq(Messages), NEW m \in Messages
  PROVE  /\ \A e : Contains(Append(events, m), e) <=>
                     e = m \/ Contains(events, e)
         /\ Len(Append(events, m)) = Len(events) + 1
         /\ Append(events, m)[Len(events) + 1] = m
         /\ \A i \in 1 .. Len(events) : Append(events, m)[i] = events[i]
<1>1. /\ Len(Append(events, m)) = Len(events) + 1
      /\ Append(events, m)[Len(events) + 1] = m
      /\ \A i \in 1 .. Len(events) : Append(events, m)[i] = events[i]
      /\ Len(events) \in Nat
  OBVIOUS
<1> QED
  BY <1>1 DEF Contains

(* The client is there, or the worker will hear that it is not.            *)
There(c) == peers[c] = "here" \/ Contains(events, Disconnected(c))

(* A client's arrival is announced once and before its departure.          *)
InOrder(c, q) ==
  \A i, j \in 1 .. Len(q) :
    i < j /\ q[j] = Connected(c) =>
      q[i] # Connected(c) /\ q[i] # Disconnected(c)

(* Whoever the worker knows or is about to know is there.                  *)
Attended ==
  \A c \in Clients :
    /\ peers[c] = "fresh" => ~Contains(events, Disconnected(c))
    /\ c \in clients => ~Contains(events, Connected(c))
    /\ c \in clients \/ keyed_by = c \/ Contains(events, Connected(c)) =>
         There(c)
    /\ InOrder(c, events)

LEMMA InOrderTail ==
  ASSUME Served, NEW c, InOrder(c, events), events # <<>>
  PROVE  /\ InOrder(c, Tail(events))
         /\ Head(events) \in {Connected(c), Disconnected(c)} =>
              ~Contains(Tail(events), Connected(c))
<1>1. \A i \in 1 .. Len(Tail(events)) :
        /\ i + 1 \in 1 .. Len(events)
        /\ Tail(events)[i] = events[i + 1]
  BY InTail DEF Served
<1>2. Head(events) = events[1] /\ 1 \in 1 .. Len(events)
  BY DEF Served
<1>3. InOrder(c, Tail(events))
  <2> SUFFICES ASSUME NEW i \in 1 .. Len(Tail(events)),
                      NEW j \in 1 .. Len(Tail(events)),
                      i < j, Tail(events)[j] = Connected(c)
               PROVE  /\ Tail(events)[i] # Connected(c)
                      /\ Tail(events)[i] # Disconnected(c)
    BY DEF InOrder
  <2>1. i + 1 < j + 1
    OBVIOUS
  <2> QED
    BY <1>1, <2>1 DEF InOrder
<1>4. ASSUME Head(events) \in {Connected(c), Disconnected(c)},
             NEW i \in 1 .. Len(Tail(events))
      PROVE  Tail(events)[i] # Connected(c)
  <2>1. 1 < i + 1
    OBVIOUS
  <2> QED
    BY <1>1, <1>2, <1>4, <2>1 DEF InOrder
<1> QED
  BY <1>3, <1>4 DEF Contains

LEMMA InOrderAppended ==
  ASSUME Served, NEW c, InOrder(c, events), NEW m \in Messages,
         m = Connected(c) => /\ ~Contains(events, Connected(c))
                             /\ ~Contains(events, Disconnected(c))
  PROVE  InOrder(c, Append(events, m))
<1> SUFFICES ASSUME NEW i \in 1 .. Len(Append(events, m)),
                    NEW j \in 1 .. Len(Append(events, m)),
                    i < j, Append(events, m)[j] = Connected(c)
             PROVE  /\ Append(events, m)[i] # Connected(c)
                    /\ Append(events, m)[i] # Disconnected(c)
  BY DEF InOrder
<1>1. i \in 1 .. Len(events) /\ (j \in 1 .. Len(events) \/ j = Len(events) + 1)
  BY InAppended DEF Served
<1>2. CASE j \in 1 .. Len(events)
  BY <1>1, <1>2, InAppended DEF InOrder, Served
<1>3. CASE j = Len(events) + 1
  BY <1>1, <1>3, InAppended DEF Contains, Served
<1> QED
  BY <1>1, <1>2, <1>3

(* Whom a pass over the CAT server may take for the one that keyed.        *)
LEMMA ServeKeyed ==
  ASSUME Held, Served, ServeCat, NEW c \in Clients, keyed_by' = c
  PROVE  /\ keyed_by = c \/ (Grace # "long" /\ c \in clients)
         /\ events # <<>> => Head(events) # Disconnected(c)
<1> DEFINE e == Head(events)
<1>0. c # None
  BY NoneAssumption
<1>1. CASE Idle /\ UNCHANGED keyed_by
  <2>1. keyed_by = c
    BY <1>1
  <2>2. ASSUME events # <<>>, e = Disconnected(c) PROVE FALSE
    <3>1. e.kind = "disconnected" /\ e.id = c
      BY <2>2 DEF Disconnected, Event
    <3>2. Departed(c)
      BY <2>2, <3>1 DEF ServeCat
    <3> QED
      BY <1>0, <2>1, <3>2 DEF Departed
  <2> QED
    BY <2>1, <2>2
<1>2. CASE /\ events # <<>>
           /\ e = Disconnected(e.id)
           /\ Departed(e.id)
  <2>1. keyed_by = c /\ e.id # c
    BY <1>0, <1>2 DEF Departed
  <2> QED
    BY <1>2, <2>1, Apart
<1>3. CASE /\ events # <<>>
           /\ e.line \in Lines
           /\ e.kind = "line"
           /\ e.id \in clients
           /\ Handle(e.id, e.line)
  <2>1. e # Disconnected(c)
    BY <1>3 DEF Disconnected, Event
  <2>2. keyed_by = c \/ (KeyRequest(e.id) /\ keyed_by # c)
    BY <1>0, <1>3, HandleMeans DEF Unkey, Raw
  <2>3. ASSUME KeyRequest(e.id), keyed_by # c
        PROVE  c = e.id /\ Live
    BY <1>0, <2>3 DEF KeyRequest
  <2>4. Live => Grace # "long"
    BY DEF Grace
  <2> QED
    BY <1>3, <2>1, <2>2, <2>3, <2>4
<1> QED
  BY <1>1, <1>2, <1>3, ServeMeans

LEMMA AttendedByServe ==
  ASSUME Held, Served, Attended, ServeCat
  PROVE  Attended'
<1> DEFINE expired == Grace = "long"
           e == Head(events)
<1>0. expired => keyed_by = None
  BY DEF Grace, Held, NothingLeftBehind
<1>1. events # <<>> => /\ events' = Tail(events)
                       /\ e \in Messages
                       /\ \A m : Contains(events, m) <=>
                                   m = e \/ Contains(events', m)
  BY NextEvent, InTail DEF ServeCat, Served
<1>2. events = <<>> => events' = events
  BY DEF ServeCat
<1>3. \A c \in clients' :
        /\ ~expired
        /\ c \in clients \/ (events # <<>> /\ e = Connected(c))
        /\ events # <<>> => e # Disconnected(c)
  <2>1. CASE events = <<>>
    BY <2>1 DEF ServeCat
  <2>2. CASE events # <<>>
    <3>1. \A c : /\ e = Connected(c) => e.kind = "connected"
                 /\ e = Disconnected(c) => e.kind = "disconnected" /\ e.id = c
      BY DEF Connected, Disconnected, Event
    <3>2. e.kind = "connected" => e = Connected(e.id)
      BY <1>1, <2>2, MessageType
    <3>3. \/ /\ e.kind = "connected"
             /\ clients' = IF expired THEN {} ELSE clients \cup {e.id}
          \/ /\ e.kind = "disconnected"
             /\ clients' = (IF expired THEN {} ELSE clients) \ {e.id}
          \/ /\ e.kind = "line"
             /\ clients' = IF expired THEN {} ELSE clients
      BY <2>2 DEF ServeCat
    <3> QED
      BY <2>2, <3>1, <3>2, <3>3
  <2> QED
    BY <2>1, <2>2
<1>4. PICK ids : /\ Closed(ids)
                 /\ \A c \in ids : /\ expired
                                   /\ \/ c \in clients
                                      \/ events # <<>> /\ e = Connected(c)
  <2>1. CASE events = <<>>
    BY <2>1 DEF ServeCat
  <2>2. CASE events # <<>>
    <3>1. e.kind = "connected" => e = Connected(e.id)
      BY <1>1, <2>2, MessageType
    <3>2. \/ /\ e.kind = "connected"
             /\ Closed(IF expired
                       THEN (IF expired THEN clients ELSE {}) \cup {e.id}
                       ELSE {})
          \/ Closed(IF expired THEN clients ELSE {})
      BY <2>2 DEF ServeCat
    <3> QED
      BY <2>2, <3>1, <3>2
  <2> QED
    BY <2>1, <2>2
<1> SUFFICES ASSUME NEW c \in Clients
             PROVE  /\ peers'[c] = "fresh" =>
                         ~Contains(events', Disconnected(c))
                    /\ c \in clients' => ~Contains(events', Connected(c))
                    /\ \/ c \in clients'
                       \/ keyed_by' = c
                       \/ Contains(events', Connected(c))
                       => There(c)'
                    /\ InOrder(c, events')
  BY DEF Attended, InOrder
<1>5. /\ peers[c] = "fresh" => ~Contains(events, Disconnected(c))
      /\ c \in clients => ~Contains(events, Connected(c))
      /\ c \in clients \/ keyed_by = c \/ Contains(events, Connected(c)) =>
           There(c)
      /\ InOrder(c, events)
  BY DEF Attended
<1>6. \A m : Contains(events', m) => Contains(events, m)
  BY <1>1, <1>2
<1>7. InOrder(c, events')
  BY <1>1, <1>2, <1>5, InOrderTail
<1>8. events # <<>> /\ e \in {Connected(c), Disconnected(c)} =>
        ~Contains(events', Connected(c))
  BY <1>1, <1>5, InOrderTail
<1>9. peers'[c] = IF c \in ids /\ peers[c] = "here" THEN "closed" ELSE peers[c]
  BY <1>4 DEF Closed
<1>10. c \in clients' => ~Contains(events', Connected(c))
  BY <1>3, <1>5, <1>6, <1>8
<1>11. keyed_by' = c => /\ keyed_by = c \/ (~expired /\ c \in clients)
                        /\ events # <<>> => e # Disconnected(c)
  BY ServeKeyed
<1>12. c # None
  BY NoneAssumption
<1>13. c \in ids => /\ c \notin clients'
                    /\ keyed_by' # c
                    /\ ~Contains(events', Connected(c))
  BY <1>0, <1>3, <1>4, <1>5, <1>6, <1>8, <1>11, <1>12
<1>14. c \in clients' \/ keyed_by' = c \/ Contains(events', Connected(c)) =>
         There(c)'
  <2> SUFFICES ASSUME \/ c \in clients'
                      \/ keyed_by' = c
                      \/ Contains(events', Connected(c))
               PROVE  peers'[c] = "here" \/ Contains(events', Disconnected(c))
    BY DEF There
  <2>1. There(c)
    BY <1>1, <1>3, <1>5, <1>6, <1>11
  <2>2. events # <<>> => e # Disconnected(c)
    BY <1>3, <1>8, <1>11
  <2>3. Contains(events, Disconnected(c)) => Contains(events', Disconnected(c))
    BY <1>1, <1>2, <2>2
  <2>4. c \notin ids
    BY <1>13
  <2> QED
    BY <1>9, <2>1, <2>3, <2>4 DEF There
<1> QED
  BY <1>5, <1>6, <1>7, <1>9, <1>10, <1>14

LEMMA AttendedByPeers ==
  ASSUME Served, Attended, NEW p \in Clients,
         PeerConnects(p) \/ PeerSends(p) \/ PeerLeaves(p)
  PROVE  Attended'
<1> SUFFICES ASSUME NEW c \in Clients
             PROVE  /\ peers'[c] = "fresh" =>
                         ~Contains(events', Disconnected(c))
                    /\ c \in clients' => ~Contains(events', Connected(c))
                    /\ \/ c \in clients'
                       \/ keyed_by' = c
                       \/ Contains(events', Connected(c))
                       => There(c)'
                    /\ InOrder(c, events')
  BY DEF Attended, InOrder
<1>1. /\ peers[c] = "fresh" => ~Contains(events, Disconnected(c))
      /\ c \in clients => ~Contains(events, Connected(c))
      /\ c \in clients \/ keyed_by = c \/ Contains(events, Connected(c)) =>
           There(c)
      /\ InOrder(c, events)
  BY DEF Attended
<1>2. UNCHANGED <<clients, keyed_by>>
  BY DEF PeerConnects, PeerSends, PeerLeaves, workerVars
<1>3. ASSUME NEW m \in Messages, Arrives(m)
      PROVE  /\ events' = Append(events, m)
             /\ \A x : Contains(events', x) <=> x = m \/ Contains(events, x)
  BY <1>3, InAppended DEF Arrives, Served
<1>4. CASE PeerConnects(p)
  <2>1. Connected(p) \in Messages
    BY DEF Messages
  <2>2. /\ events' = Append(events, Connected(p))
        /\ \A x : Contains(events', x) <=>
                    x = Connected(p) \/ Contains(events, x)
    BY <1>3, <1>4, <2>1 DEF PeerConnects
  <2>3. /\ peers[p] = "fresh"
        /\ peers'[c] = IF c = p THEN "here" ELSE peers[c]
    BY <1>4 DEF PeerConnects, Served
  <2>4. c = p => /\ c \notin clients
                 /\ ~Contains(events, Connected(c))
                 /\ ~Contains(events, Disconnected(c))
    BY <1>1, <2>3 DEF There
  <2>5. InOrder(c, events')
    BY <1>1, <2>1, <2>2, <2>4, InOrderAppended, Apart
  <2>6. /\ Contains(events', Connected(c)) =>
             c = p \/ Contains(events, Connected(c))
        /\ Contains(events', Disconnected(c)) <=>
             Contains(events, Disconnected(c))
    BY <2>2, Apart
  <2> QED
    BY <1>1, <1>2, <2>3, <2>4, <2>5, <2>6 DEF There
<1>5. CASE PeerSends(p)
  <2>1. PICK line \in ClientLines : Arrives(Event("line", p, line))
    BY <1>5 DEF PeerSends
  <2>2. Event("line", p, line) \in Messages
    BY DEF Messages
  <2>3. /\ events' = Append(events, Event("line", p, line))
        /\ \A x : Contains(events', x) <=>
                    x = Event("line", p, line) \/ Contains(events, x)
    BY <1>3, <2>1, <2>2
  <2>4. InOrder(c, events')
    BY <1>1, <2>2, <2>3, InOrderAppended, Apart
  <2>5. /\ Contains(events', Connected(c)) <=> Contains(events, Connected(c))
        /\ Contains(events', Disconnected(c)) <=>
             Contains(events, Disconnected(c))
    BY <2>3, Apart
  <2>6. UNCHANGED peers
    BY <1>5 DEF PeerSends
  <2> QED
    BY <1>1, <1>2, <2>4, <2>5, <2>6 DEF There
<1>6. CASE PeerLeaves(p)
  <2>1. Disconnected(p) \in Messages
    BY DEF Messages
  <2>2. /\ events' = Append(events, Disconnected(p))
        /\ \A x : Contains(events', x) <=>
                    x = Disconnected(p) \/ Contains(events, x)
    BY <1>3, <1>6, <2>1 DEF PeerLeaves
  <2>3. peers'[c] = IF c = p THEN "gone" ELSE peers[c]
    BY <1>6 DEF PeerLeaves, Served
  <2>4. InOrder(c, events')
    BY <1>1, <2>1, <2>2, InOrderAppended, Apart
  <2>5. /\ Contains(events', Connected(c)) <=> Contains(events, Connected(c))
        /\ Contains(events', Disconnected(c)) <=>
             c = p \/ Contains(events, Disconnected(c))
    BY <2>2, Apart
  <2> QED
    BY <1>1, <1>2, <2>3, <2>4, <2>5 DEF There
<1> QED
  BY <1>4, <1>5, <1>6

LEMMA AttendedByNext ==
  ASSUME ~Reconfigures, Held, Served, Attended, [Next]_vars
  PROVE  Attended'
<1>1. CASE ServeCat
  BY <1>1, AttendedByServe
<1>2. CASE \E c \in Clients : PeerConnects(c) \/ PeerSends(c) \/ PeerLeaves(c)
  BY <1>2, AttendedByPeers
<1>3. CASE UNCHANGED <<clients, peers, events>> /\ keyed_by' \in {keyed_by, None}
  <2> SUFFICES ASSUME NEW c \in Clients
               PROVE  /\ peers'[c] = "fresh" =>
                           ~Contains(events', Disconnected(c))
                      /\ c \in clients' => ~Contains(events', Connected(c))
                      /\ \/ c \in clients'
                         \/ keyed_by' = c
                         \/ Contains(events', Connected(c))
                         => There(c)'
                      /\ InOrder(c, events')
    BY DEF Attended, InOrder
  <2>1. keyed_by' = c => keyed_by = c
    BY <1>3, NoneAssumption
  <2> QED
    BY <1>3, <2>1 DEF Attended, There
<1>4. CASE \/ CmdArmTx \/ CmdKey \/ CmdEmergencyStop \/ CmdTune
           \/ CmdOptIn \/ CmdOptOut \/ CmdAudioDevice \/ CmdDisconnect
  BY <1>3, <1>4 DEF CmdArmTx, CmdKey, CmdEmergencyStop, CmdTune, CmdOptIn,
     CmdOptOut, CmdAudioDevice, CmdDisconnect, SessionGone, Command,
     serverVars
<1>5. CASE Service
  <2>1. keyed_by' \in {keyed_by, None} /\ UNCHANGED serverVars
    BY <1>5 DEF Service, SessionGone
  <2> QED
    BY <1>3, <2>1 DEF serverVars
<1>6. CASE NewSession \/ GraceOver \/ Time \/ Break \/ UNCHANGED vars
  BY <1>3, <1>6 DEF NewSession, GraceOver, Time, Break, vars, serverVars
<1>7. ~CmdCatServer
  BY DEF CmdCatServer
<1> QED
  BY <1>1, <1>2, <1>4, <1>5, <1>6, <1>7 DEF Next

(* A claim on a working link has a name.                                   *)
Known == ClientHolds /\ net = "up" => keyed_by # None

(* No call but one grants a claim.                                         *)
LEMMA NoNewClaim ==
  ASSUME NEW s \in S!Sessions, Fit(s)
  PROVE  /\ \A effect \in OperatorCalls(s) :
              S!ClientHolds(effect.session) => S!ClientHolds(s)
         /\ \A on \in BOOLEAN :
              S!ClientHolds(S!SetCatMayTransmit(s, on).session) =>
                S!ClientHolds(s)
         /\ \A c : S!ClientHolds(S!SendRaw(s, c).session) => S!ClientHolds(s)
         /\ ~S!ClientHolds(S!EndTx(s).session)
         /\ ~S!ClientHolds(S!EndClientTx(s).session)
         /\ S!ClientHolds(S!Aged(s)) => S!ClientHolds(s)
<1> USE DEF S!ClientHolds, S!Does, S!Sessions
<1>1. /\ ~S!ClientHolds(S!EndTx(s).session)
      /\ ~S!ClientHolds(S!EndClientTx(s).session)
  BY DEF S!EndTx, S!EndClientTx
<1>2. \A on \in BOOLEAN :
        S!ClientHolds(S!SetCatMayTransmit(s, on).session) => S!ClientHolds(s)
  BY DEF S!SetCatMayTransmit, S!EndClientTx, S!EndTx
<1>3. \A c : S!ClientHolds(S!SendRaw(s, c).session) => S!ClientHolds(s)
  BY DEF S!SendRaw
<1>4. S!ClientHolds(S!Aged(s)) => S!ClientHolds(s)
  BY DEF S!Aged
<1>5. \A a : S!ClientHolds(S!Tune(s, a).session) => S!ClientHolds(s)
  BY DEF S!Tune
<1>6. /\ S!ClientHolds(S!ArmTx(s).session) => S!ClientHolds(s)
      /\ S!ClientHolds(S!BeginTx(s).session) => S!ClientHolds(s)
      /\ S!ClientHolds(S!EmergencyStop(s).session) => S!ClientHolds(s)
  BY DEF S!ArmTx, S!BeginTx, S!EmergencyStop
<1>7. S!ClientHolds(S!DisarmTx(s).session) => S!ClientHolds(s)
  BY DEF S!DisarmTx, S!EndClientTx, S!EndTx
<1> QED
  BY <1>1, <1>2, <1>3, <1>4, <1>5, <1>6, <1>7 DEF OperatorCalls

LEMMA OnKeepsDown == \A effect : On(effect) /\ net' = "up" => net = "up"
BY DEF On, S!Send

LEMMA KnownByServe ==
  ASSUME Held, Served, Known, ServeCat
  PROVE  Known'
<1> SUFFICES ASSUME ClientHolds', net' = "up" PROVE keyed_by' # None
  BY DEF Known
<1>0. Live' /\ S!ClientHolds(session')
  BY DEF ClientHolds, Live
<1>1. CASE Idle /\ UNCHANGED keyed_by
  BY <1>1 DEF Idle, Known, ClientHolds, Live
<1>2. ASSUME NEW effect, Live, On(effect), UNCHANGED keyed_by,
             S!ClientHolds(effect.session) => S!ClientHolds(session)
      PROVE  keyed_by' # None
  BY <1>0, <1>2, OnKeepsDown DEF On, Known, ClientHolds
<1>3. ASSUME NEW effect, On(effect) PROVE S!ClientHolds(effect.session)
  BY <1>0, <1>3 DEF On
<1>4. Idle => Live
  BY <1>0 DEF Idle, Live
<1>5. Live => session \in S!Sessions /\ Fit(session)
  BY LiveType
<1>6. ASSUME NEW id, Departed(id) PROVE keyed_by' # None
  <2>1. CASE keyed_by = id
    <3>1. Live /\ On(S!EndClientTx(session))
      BY <1>4, <1>6, <2>1 DEF Departed
    <3> QED
      BY <1>3, <1>5, <3>1, NoNewClaim
  <2>2. CASE keyed_by # id
    BY <1>1, <1>6, <2>2 DEF Departed
  <2> QED
    BY <2>1, <2>2
<1>7. ASSUME Unkey PROVE FALSE
  <2>1. Live
    BY <1>4, <1>7 DEF Unkey
  <2>2. CASE session.transmitting
    BY <1>3, <1>5, <1>7, <2>1, <2>2, NoNewClaim DEF Unkey
  <2>3. CASE ~session.transmitting
    <3>1. On(S!SendRaw(session, "RX"))
      BY <1>7, <2>1, <2>3 DEF Unkey
    <3>2. S!ClientHolds(session)
      BY <1>3, <1>5, <2>1, <3>1, NoNewClaim
    <3> QED
      BY <1>5, <2>1, <2>3, <3>2 DEF Fit
  <2> QED
    BY <2>2, <2>3
<1>8. ASSUME NEW id \in Clients, KeyRequest(id) PROVE keyed_by' # None
  <2>1. CASE Live /\ cat_audio
    <3>1. /\ On(S!BeginTxForClient(session))
          /\ keyed_by' = IF S!ClientKeyed(session) THEN id ELSE keyed_by
      BY <1>8, <2>1 DEF KeyRequest, Outcome
    <3>2. CASE S!ClientKeyed(session)
      BY <3>1, <3>2, NoneAssumption
    <3>3. CASE ~S!ClientKeyed(session)
      <4>1. S!BeginTxForClient(session).session = session
        BY <3>3 DEF S!ClientKeyed, S!BeginTxForClient, S!Does
      <4> QED
        BY <1>2, <2>1, <3>1, <3>3, <4>1
    <3> QED
      BY <3>2, <3>3
  <2>2. CASE ~(Live /\ cat_audio)
    BY <1>1, <1>8, <2>2 DEF KeyRequest
  <2> QED
    BY <2>1, <2>2
<1>9. ASSUME NEW line, Raw(line) PROVE keyed_by' # None
  <2>1. CASE Live
    <3>1. On(S!SendRaw(session, line)) /\ UNCHANGED keyed_by
      BY <1>9, <2>1 DEF Raw
    <3>2. S!ClientHolds(S!SendRaw(session, line).session) =>
            S!ClientHolds(session)
      BY <1>5, <2>1, NoNewClaim
    <3> QED
      BY <1>2, <2>1, <3>1, <3>2
  <2>2. CASE ~Live
    BY <1>4, <1>9, <2>2 DEF Raw
  <2> QED
    BY <2>1, <2>2
<1>10. events # <<>> => Head(events).id \in Clients
  BY NextEvent, MessageType
<1> QED
  BY <1>1, <1>6, <1>7, <1>8, <1>9, <1>10, ServeMeans, HandleMeans

LEMMA KnownByService ==
  ASSUME Held, Known, Service
  PROVE  Known'
<1> SUFFICES ASSUME ClientHolds', net' = "up" PROVE keyed_by' # None
  BY DEF Known
<1>0. Live' /\ S!ClientHolds(session')
  BY DEF ClientHolds, Live
<1>1. Live /\ session \in S!Sessions /\ Fit(session)
  BY LiveType DEF Service
<1>2. ~SessionGone
  BY <1>0 DEF SessionGone, Live
<1>3. PICK read \in {"error", "nothing", "frames"} :
        LET heard == IF read = "frames"
                     THEN [session EXCEPT !.last_rx = 0] ELSE session
            effect == IF read = "error" THEN S!NoteIoError(session)
                      ELSE S!Tick(heard)
        IN  /\ S!Send(effect.sent)
            /\ ~Ended(effect.session)
            /\ session' = effect.session
            /\ \E ok \in BOOLEAN :
                 /\ Outcome(ok)
                 /\ keyed_by' = IF S!HoldIsOver(heard) /\ ok
                                THEN None ELSE keyed_by
  BY <1>2 DEF Service
<1> DEFINE heard == IF read = "frames"
                    THEN [session EXCEPT !.last_rx = 0] ELSE session
<1>4. read # "error"
  BY <1>1, <1>3, ErrorEnds DEF Ended
<1>5. /\ heard \in S!Sessions /\ Fit(heard)
      /\ S!ClientHolds(heard) <=> S!ClientHolds(session)
  BY <1>1, HeardKept DEF Keeps, Fit
<1>6. /\ session' = S!Tick(heard).session
      /\ S!Tick(heard).session.connected
      /\ S!Send(S!Tick(heard).sent)
      /\ keyed_by' = IF S!HoldIsOver(heard) THEN None ELSE keyed_by
  BY <1>3, <1>4 DEF Ended, Outcome
<1> HIDE DEF heard
<1>7. net = "up"
  BY <1>6 DEF S!Send
<1>8. ~S!HoldIsOver(heard) /\ S!ClientHolds(heard)
  BY <1>0, <1>5, <1>6, Ticked
<1> QED
  BY <1>1, <1>5, <1>6, <1>7, <1>8 DEF Known, ClientHolds

LEMMA KnownByNext ==
  ASSUME Held, Served, Known, [Next]_vars
  PROVE  Known'
<1>0. Live => session \in S!Sessions /\ Fit(session)
  BY LiveType
<1>1. ASSUME NEW effect, Live, On(effect), UNCHANGED keyed_by,
             S!ClientHolds(effect.session) => S!ClientHolds(session)
      PROVE  Known'
  BY <1>1, OnKeepsDown DEF On, Known, ClientHolds
<1>2. CASE ServeCat
  BY <1>2, KnownByServe
<1>3. CASE Service
  BY <1>3, KnownByService
<1>4. CASE CmdArmTx \/ CmdKey \/ CmdEmergencyStop \/ CmdTune
  <2>1. PICK effect \in OperatorCalls(session) : Live /\ Command(effect)
    BY <1>4, OperatorMeans
  <2>2. S!ClientHolds(effect.session) => S!ClientHolds(session)
    BY <1>0, <2>1, NoNewClaim
  <2> QED
    BY <1>1, <2>1, <2>2 DEF Command
<1>5. CASE (CmdOptIn \/ CmdOptOut \/ CmdAudioDevice) /\ Live
  <2>1. PICK on \in BOOLEAN :
          On(S!SetCatMayTransmit(session, on)) /\ UNCHANGED keyed_by
    BY <1>5 DEF CmdOptIn, CmdOptOut, CmdAudioDevice, Command
  <2>2. S!ClientHolds(S!SetCatMayTransmit(session, on).session) =>
          S!ClientHolds(session)
    BY <1>0, <1>5, NoNewClaim
  <2> QED
    BY <1>1, <1>5, <2>1, <2>2
<1>6. CASE (CmdOptIn \/ CmdOptOut \/ CmdAudioDevice) /\ ~Live
  BY <1>6 DEF CmdOptIn, CmdOptOut, CmdAudioDevice, Idle, Known, ClientHolds,
              Live
<1>7. CASE CmdDisconnect
  BY <1>7 DEF CmdDisconnect, SessionGone, Known, ClientHolds, Live
<1>8. CASE NewSession
  BY <1>8, NewFit DEF NewSession, Known, ClientHolds
<1>9. CASE Time
  BY <1>0, <1>9, NoNewClaim DEF Time, Known, ClientHolds
<1>10. CASE \/ CmdCatServer \/ GraceOver
            \/ \E c \in Clients : PeerConnects(c) \/ PeerSends(c) \/ PeerLeaves(c)
            \/ UNCHANGED vars
  BY <1>10 DEF CmdCatServer, GraceOver, PeerConnects, PeerSends, PeerLeaves,
     workerVars, vars, Known, ClientHolds, Live
<1>11. CASE Break
  BY <1>11 DEF Break, Known
<1> QED
  BY <1>2, <1>3, <1>4, <1>5, <1>6, <1>7, <1>8, <1>9, <1>10, <1>11 DEF Next

(* HolderKnown holds of every reachable state as long as the operator      *)
(* leaves the CAT server running: no interleaving of claims, takeovers,    *)
(* stops and departures of any number of clients leaves a transmit whose   *)
(* client the worker has lost sight of.                                    *)
THEOREM HolderIsAlwaysKnown ==
  ASSUME ~Reconfigures
  PROVE  Spec => []HolderKnown
<1> DEFINE Inv == Held /\ Served /\ Attended /\ Known
<1>1. Init => Inv
  <2> SUFFICES ASSUME Init PROVE Attended /\ Known
    BY InitParts
  <2>1. events = <<>> /\ \A m : ~Contains(events, m)
    BY DEF Init, Contains
  <2>2. \A c \in Clients : keyed_by # c /\ InOrder(c, events)
    BY NoneAssumption DEF Init, InOrder
  <2>3. Attended
    BY <2>1, <2>2 DEF Init, Attended
  <2> QED
    BY <2>3 DEF Init, Known
<1>2. Inv /\ [Next]_vars => Inv'
  BY HeldByNext, ServedByNext, AttendedByNext, KnownByNext
<1>3. Inv => HolderKnown
  BY DEF HolderKnown, Known, Attended, There, Held
<1> QED
  BY <1>1, <1>2, <1>3, PTL DEF Spec
=============================================================================
