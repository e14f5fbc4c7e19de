--------------------------- MODULE SessionProofs ---------------------------
EXTENDS Session, SequenceTheorems, TLAPS

LEMMA HeardType ==
  ASSUME NEW air \in SUBSET Emissions, NEW cmds
  PROVE  Heard(air, cmds) \subseteq Emissions
<1>1. \A c \in DOMAIN Begins : Begins[c] \subseteq Emissions
  BY DEF Begins, Emissions
<1> QED
  BY <1>1 DEF Heard

LEMMA SendType ==
  ASSUME on_air \subseteq Emissions, net \in {"up", "down"},
         NEW cmds, Send(cmds)
  PROVE  on_air' \subseteq Emissions /\ net' \in {"up", "down"}
BY HeardType DEF Send

LEMMA NewType ==
  ASSUME NEW limit \in LimitMin .. LimitMax
  PROVE  New(limit) \in Sessions
<1>1. 0 \in RxAges /\ 0 \in PingAges
  BY TimesAssumption DEF RxAges, PingAges
<1> QED
  BY <1>1 DEF New, Sessions

LEMMA MethodType ==
  ASSUME NEW s \in Sessions
  PROVE  /\ ArmTx(s).session \in Sessions
         /\ DisarmTx(s).session \in Sessions
         /\ BeginTx(s).session \in Sessions
         /\ EndTx(s).session \in Sessions
         /\ EndClientTx(s).session \in Sessions
         /\ \A on \in BOOLEAN : SetCatMayTransmit(s, on).session \in Sessions
         /\ \A limit \in Int : SetClientTxLimit(s, limit).session \in Sessions
         /\ BeginTxForClient(s).session \in Sessions
         /\ \A a : Tune(s, a).session \in Sessions
         /\ \A c : SendRaw(s, c).session \in Sessions
         /\ EmergencyStop(s).session \in Sessions
         /\ NoteIoError(s).session \in Sessions
         /\ Disconnect(s).session \in Sessions
         /\ Tick(s).session \in Sessions
         /\ \A f : Pump(s, f) \in Sessions
         /\ Aged(s) \in Sessions
<1> USE TimesAssumption, NoneAssumption
<1>0. 0 \in HoldAges /\ 0 \in RxAges /\ 0 \in PingAges
  BY DEF HoldAges, RxAges, PingAges
<1> USE DEF Sessions, Does
<1>1. ArmTx(s).session \in Sessions
  BY DEF ArmTx
<1>2. EndTx(s).session \in Sessions /\ EndClientTx(s).session \in Sessions
  BY DEF EndTx, EndClientTx
<1>3. DisarmTx(s).session \in Sessions
  BY DEF DisarmTx, EndTx, EndClientTx
<1>4. BeginTx(s).session \in Sessions
  BY DEF BeginTx
<1>5. \A on \in BOOLEAN : SetCatMayTransmit(s, on).session \in Sessions
  BY DEF SetCatMayTransmit, EndTx, EndClientTx
<1>6. \A limit \in Int : SetClientTxLimit(s, limit).session \in Sessions
  BY DEF SetClientTxLimit, Clamp
<1>7. BeginTxForClient(s).session \in Sessions
  BY <1>0 DEF BeginTxForClient, ClientMayKey, Keyable
<1>8. \A a : Tune(s, a).session \in Sessions
  BY DEF Tune
<1>9. \A c : SendRaw(s, c).session \in Sessions
  BY DEF SendRaw, keys_transmitter, stops_transmitter
<1>10. EmergencyStop(s).session \in Sessions
  BY DEF EmergencyStop
<1>11. NoteIoError(s).session \in Sessions
  BY DEF NoteIoError, FailSafe
<1>12. Disconnect(s).session \in Sessions
  BY DEF Disconnect
<1>13. Tick(s).session \in Sessions
  BY <1>0, <1>2, <1>11 DEF Tick
<1>14. \A f : Pump(s, f) \in Sessions
  <2> TAKE f
  <2>1. Reported(s, f) \in {"unknown", "rx", "tx"}
    BY DEF Reported
  <2>2. (s.raw_tx /\ (f = "quiet" \/ Reported(s, f) # "rx")) \in BOOLEAN
    OBVIOUS
  <2> QED
    BY <1>0, <2>1, <2>2 DEF Pump
<1>15. Aged(s) \in Sessions
  <2>1. Older(s.last_rx, LinkTimeout) \in RxAges
    BY DEF Older, RxAges
  <2>2. Older(s.last_ping, PingInterval + 2) \in PingAges
    BY DEF Older, PingAges
  <2>3. s.client_tx_since # None =>
          Older(s.client_tx_since, LimitMax + 2) \in HoldAges
    BY DEF Older, HoldAges
  <2> QED
    BY <2>1, <2>2, <2>3 DEF Aged
<1> QED
  BY <1>1, <1>2, <1>3, <1>4, <1>5, <1>6, <1>7, <1>8, <1>9, <1>10, <1>11,
     <1>12, <1>13, <1>14, <1>15
-----------------------------------------------------------------------------
(* Every step is a call of a method or one of the environment's steps.     *)

CallStep ==
  \/ Arm \/ Disarm \/ OperatorKeys \/ OperatorUnkeys
  \/ SetOptIn \/ SetLimit \/ ClientKeys \/ ClientLeaves
  \/ TuneStep \/ SendStep \/ Stop \/ DisconnectStep \/ IoError
  \/ TickStep

(* What the session is and may become.                                     *)
Calls(s) ==
  {ArmTx(s), DisarmTx(s), BeginTx(s), EndTx(s), BeginTxForClient(s),
   EndClientTx(s), EmergencyStop(s), Disconnect(s), NoteIoError(s), Tick(s)}
    \cup {SetCatMayTransmit(s, on) : on \in BOOLEAN}
    \cup {SetClientTxLimit(s, limit) : limit \in LimitMin - 1 .. LimitMax + 1}
    \cup {Tune(s, action) : action \in {"TU0", "TU1"}}
    \cup {SendRaw(s, c) : c \in RawCommands}

LEMMA CallStepIsCall ==
  ASSUME CallStep
  PROVE  /\ \E effect \in Calls(session) : Call(effect)
         /\ UNCHANGED replies
         /\ ticked' \in {ticked, TRUE}
         /\ held' \in {held, 0}
<1>1. \E effect \in Calls(session) : Call(effect)
  BY DEF CallStep, Calls, Arm, Disarm, OperatorKeys, OperatorUnkeys,
     SetOptIn, SetLimit, ClientKeys, ClientLeaves, TuneStep, SendStep, Stop,
     DisconnectStep, IoError, TickStep
<1>2. UNCHANGED replies /\ ticked' \in {ticked, TRUE}
  BY DEF CallStep, Arm, Disarm, OperatorKeys, OperatorUnkeys, SetOptIn,
     SetLimit, ClientKeys, ClientLeaves, TuneStep, SendStep, Stop,
     DisconnectStep, IoError, TickStep
<1> QED
  BY <1>1, <1>2 DEF Call

LEMMA CallsType ==
  ASSUME NEW s \in Sessions, NEW effect \in Calls(s)
  PROVE  effect.session \in Sessions
<1>1. LimitMin - 1 .. LimitMax + 1 \subseteq Int
  BY TimesAssumption
<1> QED
  BY <1>1, MethodType DEF Calls

(* TypeOK holds of every reachable state.                                  *)
THEOREM TypeCorrect == Spec => []TypeOK
<1>1. Init => TypeOK
  <2> SUFFICES ASSUME Init PROVE TypeOK
    OBVIOUS
  <2>0. 0 \in HoldAges
    BY TimesAssumption DEF HoldAges
  <2>1. session \in Sessions
    BY TimesAssumption, NewType DEF Init
  <2>2. replies \in Seq(Frames) /\ Len(replies) <= ReplyMax
    BY ReplyMaxAssumption DEF Init
  <2> QED
    BY <2>0, <2>1, <2>2 DEF Init, TypeOK
<1>2. TypeOK /\ [Next]_vars => TypeOK'
  <2> SUFFICES ASSUME TypeOK, [Next]_vars PROVE TypeOK'
    OBVIOUS
  <2>0. 0 \in HoldAges
    BY TimesAssumption DEF HoldAges
  <2>1. CASE CallStep
    <3>1. PICK effect \in Calls(session) : Call(effect)
      BY <2>1, CallStepIsCall
    <3>2. session' \in Sessions
      BY <3>1, CallsType DEF Call, TypeOK
    <3>3. on_air' \subseteq Emissions /\ net' \in {"up", "down"}
      BY <3>1, SendType DEF Call, TypeOK
    <3> QED
      BY <2>0, <2>1, <3>2, <3>3, CallStepIsCall DEF TypeOK
  <2>2. CASE PumpStep
    <3>1. session' \in Sessions
      BY <2>2, MethodType DEF PumpStep, TypeOK
    <3>2. replies' \in Seq(Frames) /\ Len(replies') <= ReplyMax
      BY <2>2, ReplyMaxAssumption DEF PumpStep, TypeOK
    <3> QED
      BY <2>2, <3>1, <3>2 DEF PumpStep, TypeOK
  <2>3. CASE Advance
    <3>1. Older(held, LimitMax + 2) \in HoldAges
      BY TimesAssumption DEF Older, HoldAges, TypeOK
    <3> QED
      BY <2>0, <2>3, <3>1, MethodType DEF Advance, TypeOK
  <2>4. CASE RadioReplies
    <3>1. PICK f \in Frames : replies' = Append(replies, f)
      BY <2>4 DEF RadioReplies, Frames
    <3>2. replies' \in Seq(Frames) /\ Len(replies') <= ReplyMax
      BY <2>4, <3>1, ReplyMaxAssumption DEF RadioReplies, TypeOK
    <3> QED
      BY <2>4, <3>2 DEF RadioReplies, TypeOK
  <2>5. CASE RadioEnds
    BY <2>5 DEF RadioEnds, TypeOK
  <2>6. CASE Break
    BY <2>6 DEF Break, TypeOK
  <2>7. CASE UNCHANGED vars
    BY <2>7 DEF vars, TypeOK
  <2> QED
    BY <2>1, <2>2, <2>3, <2>4, <2>5, <2>6, <2>7 DEF Next, CallStep
<1> QED
  BY <1>1, <1>2, PTL DEF Spec

-----------------------------------------------------------------------------
(* What a step may make of the session.                                    *)
LEMMA SessionMoves ==
  ASSUME [Next]_vars
  PROVE  \/ \E effect \in Calls(session) : session' = effect.session
         \/ \E f : session' = Pump(session, f)
         \/ session' = Aged(session)
         \/ session' = session
<1>1. CASE CallStep
  BY <1>1, CallStepIsCall DEF Call
<1>2. CASE PumpStep
  BY <1>2 DEF PumpStep
<1>3. CASE Advance
  BY <1>3 DEF Advance
<1>4. CASE RadioReplies \/ RadioEnds \/ Break \/ UNCHANGED vars
  BY <1>4 DEF RadioReplies, RadioEnds, Break, vars
<1> QED
  BY <1>1, <1>2, <1>3, <1>4 DEF Next, CallStep

-----------------------------------------------------------------------------
(* The claim and its licences.                                             *)
Licensed(s) ==
  ClientHolds(s) => s.transmitting /\ s.tx_armed /\ s.cat_may_transmit

LEMMA LicensedCalls ==
  ASSUME NEW s \in Sessions, Licensed(s), NEW effect \in Calls(s)
  PROVE  Licensed(effect.session)
<1> USE DEF Licensed, ClientHolds, Does, Sessions
<1>1. Licensed(EndTx(s).session)
  BY DEF EndTx
<1>2. Licensed(EndClientTx(s).session)
  BY <1>1 DEF EndClientTx
<1>3. Licensed(ArmTx(s).session)
  BY DEF ArmTx
<1>4. Licensed(DisarmTx(s).session)
  BY DEF DisarmTx, EndClientTx, EndTx
<1>5. Licensed(BeginTx(s).session)
  BY DEF BeginTx
<1>6. ASSUME NEW on \in BOOLEAN
      PROVE  Licensed(SetCatMayTransmit(s, on).session)
  BY DEF SetCatMayTransmit, EndClientTx, EndTx
<1>7. ASSUME NEW limit
      PROVE  Licensed(SetClientTxLimit(s, limit).session)
  BY DEF SetClientTxLimit
<1>8. Licensed(BeginTxForClient(s).session)
  BY DEF BeginTxForClient, ClientMayKey, Keyable
<1>9. ASSUME NEW action
      PROVE  Licensed(Tune(s, action).session)
  BY DEF Tune
<1>10. ASSUME NEW c
       PROVE  Licensed(SendRaw(s, c).session)
  BY DEF SendRaw
<1>11. Licensed(EmergencyStop(s).session)
  BY DEF EmergencyStop
<1>12. Licensed(NoteIoError(s).session)
  BY DEF NoteIoError, FailSafe
<1>13. Licensed(Disconnect(s).session)
  BY DEF Disconnect
<1>14. Licensed(Tick(s).session)
  BY <1>1, <1>12 DEF Tick
<1> QED
  BY <1>1, <1>2, <1>3, <1>4, <1>5, <1>6, <1>7, <1>8, <1>9, <1>10, <1>11,
     <1>12, <1>13, <1>14 DEF Calls

LEMMA LicensedMoves ==
  ASSUME NEW s \in Sessions, Licensed(s)
  PROVE  Licensed(Aged(s)) /\ \A f : Licensed(Pump(s, f))
<1>1. s.client_tx_since # None => s.client_tx_since \in Int
  BY DEF Sessions, HoldAges
<1>2. Licensed(Aged(s))
  BY <1>1, NoneAssumption DEF Licensed, ClientHolds, Sessions, Aged, Older
<1>3. \A f : Licensed(Pump(s, f))
  BY DEF Licensed, ClientHolds, Sessions, Pump
<1> QED
  BY <1>2, <1>3

(* ClaimLicensed holds of every reachable state: it is inductive, given    *)
(* the types.                                                              *)
THEOREM ClaimAlwaysLicensed == Spec => []ClaimLicensed
<1>1. Init => Licensed(session)
  BY DEF Init, New, Licensed, ClientHolds
<1>2. TypeOK /\ Licensed(session) /\ [Next]_vars => Licensed(session)'
  <2> SUFFICES ASSUME TypeOK, Licensed(session), [Next]_vars
               PROVE  Licensed(session')
    OBVIOUS
  <2>1. session \in Sessions
    BY DEF TypeOK
  <2> QED
    BY <2>1, SessionMoves, LicensedCalls, LicensedMoves
<1>3. Licensed(session) <=> ClaimLicensed
  BY DEF Licensed, ClaimLicensed
<1> QED
  BY <1>1, <1>2, <1>3, TypeCorrect, PTL DEF Spec

-----------------------------------------------------------------------------
(* The bound on a client's hold.                                           *)
Within(s, ran) ==
  s.connected /\ ClientHolds(s) =>
    /\ s.client_tx_since <= LimitMax
    /\ ran => s.client_tx_since < LimitMax

(* The age the session keeps is how long the client has really been        *)
(* transmitting.                                                           *)
Timed(s, real) == real = IF ClientHolds(s) THEN s.client_tx_since ELSE 0

(* A call keeps a hold's age or starts a new one where there was none; it  *)
(* never revives a link.                                                   *)
LEMMA HoldCalls ==
  ASSUME NEW s \in Sessions, Licensed(s), NEW effect \in Calls(s)
  PROVE  /\ effect.session.connected => s.connected
         /\ ClientHolds(effect.session) =>
              \/ /\ ~ClientHolds(s)
                 /\ effect.session.client_tx_since = 0
              \/ /\ ClientHolds(s)
                 /\ effect.session.client_tx_since = s.client_tx_since
<1> DEFINE Keeps(t) ==
      /\ t.connected => s.connected
      /\ ClientHolds(t) => \/ ~ClientHolds(s) /\ t.client_tx_since = 0
                           \/ /\ ClientHolds(s)
                              /\ t.client_tx_since = s.client_tx_since
<1> USE DEF ClientHolds, Does, Sessions, Licensed
<1>1. Keeps(EndTx(s).session) /\ Keeps(EndClientTx(s).session)
  BY DEF EndTx, EndClientTx
<1>2. Keeps(ArmTx(s).session) /\ Keeps(DisarmTx(s).session)
  BY DEF ArmTx, DisarmTx, EndTx, EndClientTx
<1>3. Keeps(BeginTx(s).session)
  BY DEF BeginTx
<1>4. ASSUME NEW on \in BOOLEAN
      PROVE  Keeps(SetCatMayTransmit(s, on).session)
  BY DEF SetCatMayTransmit, EndClientTx, EndTx
<1>5. ASSUME NEW limit
      PROVE  Keeps(SetClientTxLimit(s, limit).session)
  BY DEF SetClientTxLimit
<1>6. Keeps(BeginTxForClient(s).session)
  BY DEF BeginTxForClient
<1>7. ASSUME NEW action
      PROVE  Keeps(Tune(s, action).session)
  BY DEF Tune
<1>8. ASSUME NEW c
      PROVE  Keeps(SendRaw(s, c).session)
  BY DEF SendRaw
<1>9. Keeps(EmergencyStop(s).session) /\ Keeps(Disconnect(s).session)
  BY DEF EmergencyStop, Disconnect
<1>10. Keeps(NoteIoError(s).session)
  BY DEF NoteIoError, FailSafe
<1>11. Keeps(Tick(s).session)
  BY <1>1, <1>10 DEF Tick
<1>12. Keeps(effect.session)
  BY <1>1, <1>2, <1>3, <1>4, <1>5, <1>6, <1>7, <1>8, <1>9, <1>10, <1>11
     DEF Calls
<1> QED
  BY <1>12

(* After tick a hold on a live link is younger than the limit.             *)
LEMMA TickExpires ==
  ASSUME NEW s \in Sessions, Tick(s).session.connected,
         ClientHolds(Tick(s).session)
  PROVE  Tick(s).session.client_tx_since < LimitMax
<1>1. ~LinkIsLost(s) /\ ~HoldIsOver(s)
  BY DEF Tick, NoteIoError, FailSafe, EndTx, ClientHolds, Does, Sessions
<1>2. s.connected /\ ClientHolds(s)
      /\ Tick(s).session.client_tx_since = s.client_tx_since
  BY <1>1 DEF Tick, ClientHolds, Does, Sessions
<1>3. s.client_tx_since < s.client_tx_limit
  BY <1>1, <1>2, NoneAssumption, TimesAssumption
     DEF HoldIsOver, ClientHolds, Sessions, HoldAges
<1> QED
  BY <1>2, <1>3, NoneAssumption, TimesAssumption
     DEF ClientHolds, Sessions, HoldAges

HoldInv == Licensed(session) /\ Within(session, ticked) /\ Timed(session, held)

(* HoldBounded holds of every reachable state: the age the session keeps   *)
(* is the real one, it grows only with time, time runs only after tick,    *)
(* and tick ends a hold at the limit.                                      *)
THEOREM HoldAlwaysBounded == Spec => []HoldBounded
<1>1. Init => HoldInv
  BY DEF Init, New, HoldInv, Licensed, Within, Timed, ClientHolds
<1>2. TypeOK /\ HoldInv /\ [Next]_vars => HoldInv'
  <2> SUFFICES ASSUME TypeOK, HoldInv, [Next]_vars
               PROVE  /\ Licensed(session')
                      /\ Within(session', ticked')
                      /\ Timed(session', held')
    BY DEF HoldInv
  <2>0. /\ session \in Sessions /\ LimitMax \in Nat /\ LimitMax > 0
        /\ Licensed(session) /\ Within(session, ticked)
        /\ Timed(session, held)
    BY TimesAssumption DEF TypeOK, HoldInv
  <2>1. Licensed(session')
    BY <2>0, SessionMoves, LicensedCalls, LicensedMoves
  <2>2. CASE CallStep
    <3>1. PICK effect \in Calls(session) : Call(effect)
      BY <2>2, CallStepIsCall
    <3>2. /\ session' = effect.session
          /\ held' = IF ClientHolds(session') THEN held ELSE 0
      BY <3>1 DEF Call
    <3>3. Timed(session', held')
      BY <2>0, <3>2, HoldCalls DEF Timed
    <3>4. CASE TickStep
      <4>1. session' = Tick(session).session /\ session' \in Sessions
        BY <2>0, <3>4, MethodType DEF TickStep, Call
      <4>2. Within(session', ticked')
        BY <2>0, <4>1, TickExpires, NoneAssumption
           DEF Within, ClientHolds, Sessions, HoldAges
      <4> QED
        BY <2>1, <3>3, <4>2
    <3>5. CASE ~TickStep
      <4>1. ticked' = ticked
        BY <2>2, <3>5 DEF CallStep, Arm, Disarm, OperatorKeys,
           OperatorUnkeys, SetOptIn, SetLimit, ClientKeys, ClientLeaves,
           TuneStep, SendStep, Stop, DisconnectStep, IoError
      <4>2. Within(session', ticked')
        BY <2>0, <3>2, <4>1, HoldCalls DEF Within
      <4> QED
        BY <2>1, <3>3, <4>2
    <3> QED
      BY <3>4, <3>5
  <2>3. CASE PumpStep
    <3>1. PICK f : session' = Pump(session, f) /\ UNCHANGED <<ticked, held>>
      BY <2>3 DEF PumpStep
    <3>2. /\ session'.connected = session.connected
          /\ session'.client_tx_since = session.client_tx_since
      BY <2>0, <3>1 DEF Pump, Sessions
    <3> QED
      BY <2>0, <2>1, <3>1, <3>2 DEF Within, Timed, ClientHolds
  <2>4. CASE Advance
    <3>1. /\ session' = Aged(session) /\ ticked /\ ~ticked'
          /\ held' = IF ClientHolds(session)
                     THEN Older(held, LimitMax + 2) ELSE 0
      BY <2>4 DEF Advance
    <3>2. ClientHolds(session) => session.client_tx_since \in Int
      BY <2>0, NoneAssumption DEF ClientHolds, Sessions, HoldAges
    <3>3. /\ ClientHolds(session') <=> ClientHolds(session)
          /\ ClientHolds(session) =>
               session'.client_tx_since
                 = Older(session.client_tx_since, LimitMax + 2)
      BY <2>0, <3>1, <3>2, NoneAssumption
         DEF Aged, ClientHolds, Sessions, Older
    <3>4. session'.connected = session.connected
      BY <2>0, <3>1 DEF Aged, Sessions
    <3>5. Within(session', ticked')
      BY <2>0, <3>1, <3>2, <3>3, <3>4 DEF Within, Older
    <3>6. Timed(session', held')
      BY <2>0, <3>1, <3>3 DEF Timed
    <3> QED
      BY <2>1, <3>5, <3>6
  <2>5. CASE RadioReplies \/ RadioEnds \/ Break \/ UNCHANGED vars
    <3>1. UNCHANGED <<session, ticked, held>>
      BY <2>5 DEF RadioReplies, RadioEnds, Break, vars
    <3> QED
      BY <2>0, <3>1
  <2> QED
    BY <2>2, <2>3, <2>4, <2>5 DEF Next, CallStep
<1>3. HoldInv => HoldBounded
  BY DEF HoldInv, Within, Timed, HoldBounded
<1> QED
  BY <1>1, <1>2, <1>3, TypeCorrect, PTL DEF Spec

-----------------------------------------------------------------------------
(* The keep-alive.                                                         *)

(* An interval that has run out is one tick old at most, and then no       *)
(* client's time can be over at the next tick as well.                     *)
Beats(s, ran) ==
  s.connected =>
    /\ s.last_ping <= PingInterval + 1
    /\ s.last_ping > PingInterval =>
         ~ran /\ (ClientHolds(s) => s.client_tx_since <= 1)
    /\ s.last_ping = PingInterval /\ ran =>
         (ClientHolds(s) => s.client_tx_since = 0)

(* No call but tick touches the time of the last PING.                     *)
LEMMA PingCalls ==
  ASSUME NEW s \in Sessions, NEW effect \in Calls(s), effect # Tick(s)
  PROVE  effect.session.last_ping = s.last_ping
<1> DEFINE Same(t) == t.last_ping = s.last_ping
<1> USE DEF Does, Sessions
<1>1. Same(EndTx(s).session) /\ Same(EndClientTx(s).session)
  BY DEF EndTx, EndClientTx
<1>2. Same(ArmTx(s).session) /\ Same(DisarmTx(s).session)
  BY DEF ArmTx, DisarmTx, EndTx, EndClientTx
<1>3. Same(BeginTx(s).session) /\ Same(BeginTxForClient(s).session)
  BY DEF BeginTx, BeginTxForClient
<1>4. ASSUME NEW on \in BOOLEAN PROVE Same(SetCatMayTransmit(s, on).session)
  BY DEF SetCatMayTransmit, EndClientTx, EndTx
<1>5. ASSUME NEW limit PROVE Same(SetClientTxLimit(s, limit).session)
  BY DEF SetClientTxLimit
<1>6. ASSUME NEW action PROVE Same(Tune(s, action).session)
  BY DEF Tune
<1>7. ASSUME NEW c PROVE Same(SendRaw(s, c).session)
  BY DEF SendRaw
<1>8. Same(EmergencyStop(s).session) /\ Same(Disconnect(s).session)
  BY DEF EmergencyStop, Disconnect
<1>9. Same(NoteIoError(s).session)
  BY DEF NoteIoError, FailSafe
<1>10. Same(effect.session)
  BY <1>1, <1>2, <1>3, <1>4, <1>5, <1>6, <1>7, <1>8, <1>9 DEF Calls
<1> QED
  BY <1>10

LEMMA TickBeats ==
  ASSUME NEW s \in Sessions, NEW ran \in BOOLEAN, Beats(s, ran)
  PROVE  Beats(Tick(s).session, TRUE)
<1> USE TimesAssumption, NoneAssumption
<1>0. /\ s.last_ping \in Int
      /\ s.client_tx_since # None => s.client_tx_since \in Int
      /\ s.client_tx_limit \in Int /\ s.client_tx_limit >= LimitMin
  BY DEF Sessions, PingAges, HoldAges
<1>1. CASE LinkIsLost(s) \/ ~s.connected
  <2>1. ~Tick(s).session.connected
    BY <1>1 DEF Tick, NoteIoError, FailSafe, HoldIsOver, PingIsDue,
                LinkIsLost, Does, Sessions
  <2> QED
    BY <2>1 DEF Beats
<1>2. CASE ~LinkIsLost(s) /\ s.connected /\ HoldIsOver(s)
  <2>1. s.last_ping <= PingInterval
    BY <1>0, <1>2 DEF Beats, HoldIsOver, ClientHolds
  <2>2. /\ Tick(s).session.last_ping = s.last_ping
        /\ ~ClientHolds(Tick(s).session)
    BY <1>2 DEF Tick, EndTx, ClientHolds, Does, Sessions
  <2> QED
    BY <1>0, <2>1, <2>2 DEF Beats
<1>3. CASE ~LinkIsLost(s) /\ s.connected /\ ~HoldIsOver(s) /\ PingIsDue(s)
  <2>1. Tick(s).session.last_ping = 0
    BY <1>3 DEF Tick, Does, Sessions
  <2> QED
    BY <2>1 DEF Beats
<1>4. CASE ~LinkIsLost(s) /\ s.connected /\ ~HoldIsOver(s) /\ ~PingIsDue(s)
  <2>1. Tick(s).session = s
    BY <1>4 DEF Tick, Does
  <2>2. s.last_ping < PingInterval
    BY <1>0, <1>4 DEF PingIsDue
  <2> QED
    BY <1>0, <2>1, <2>2 DEF Beats
<1> QED
  BY <1>1, <1>2, <1>3, <1>4

BeatInv == Licensed(session) /\ Beats(session, ticked)

(* KeepAlive holds of every reachable state: a tick passes the PING over   *)
(* only to end a client's transmit, and two ends cannot follow each other  *)
(* within the shortest limit.                                              *)
THEOREM KeepAliveHolds == Spec => []KeepAlive
<1>1. Init => BeatInv
  BY TimesAssumption
     DEF Init, New, BeatInv, Licensed, Beats, ClientHolds
<1>2. TypeOK /\ BeatInv /\ [Next]_vars => BeatInv'
  <2> SUFFICES ASSUME TypeOK, BeatInv, [Next]_vars
               PROVE  Licensed(session') /\ Beats(session', ticked')
    BY DEF BeatInv
  <2>0. /\ session \in Sessions /\ ticked \in BOOLEAN
        /\ Licensed(session) /\ Beats(session, ticked)
    BY DEF TypeOK, BeatInv
  <2>1. Licensed(session')
    BY <2>0, SessionMoves, LicensedCalls, LicensedMoves
  <2>2. /\ session.last_ping \in Int
        /\ session.client_tx_since # None => session.client_tx_since \in Int
    BY <2>0 DEF Sessions, PingAges, HoldAges
  <2>3. CASE TickStep
    <3>1. session' = Tick(session).session /\ ticked' = TRUE
      BY <2>3 DEF TickStep, Call
    <3> QED
      BY <2>0, <2>1, <3>1, TickBeats
  <2>4. CASE CallStep /\ ~TickStep
    <3>1. PICK effect \in Calls(session) : Call(effect)
      BY <2>4, CallStepIsCall
    <3>2. ticked' = ticked /\ session' = effect.session
      BY <2>4, <3>1 DEF CallStep, Call, Arm, Disarm, OperatorKeys,
         OperatorUnkeys, SetOptIn, SetLimit, ClientKeys, ClientLeaves,
         TuneStep, SendStep, Stop, DisconnectStep, IoError
    <3>3. CASE effect # Tick(session)
      <4>1. session'.last_ping = session.last_ping
        BY <2>0, <3>1, <3>2, <3>3, PingCalls
      <4>2. /\ session'.connected => session.connected
            /\ ClientHolds(session') =>
                 \/ session'.client_tx_since = 0
                 \/ /\ ClientHolds(session)
                    /\ session'.client_tx_since = session.client_tx_since
        BY <2>0, <3>1, <3>2, HoldCalls
      <4> QED
        BY <2>0, <2>1, <2>2, <4>1, <4>2, <3>2 DEF Beats
    <3>4. CASE effect = Tick(session)
      <4>1. Beats(session', TRUE)
        BY <2>0, <3>2, <3>4, TickBeats
      <4> QED
        BY <2>0, <2>1, <4>1, <3>2, TimesAssumption DEF Beats
    <3> QED
      BY <3>3, <3>4
  <2>5. CASE PumpStep
    <3>1. PICK f : session' = Pump(session, f) /\ UNCHANGED ticked
      BY <2>5 DEF PumpStep
    <3>2. /\ session'.connected = session.connected
          /\ session'.client_tx_since = session.client_tx_since
          /\ session'.last_ping = session.last_ping
      BY <2>0, <3>1 DEF Pump, Sessions
    <3> QED
      BY <2>0, <2>1, <3>1, <3>2 DEF Beats, ClientHolds
  <2>6. CASE Advance
    <3>1. session' = Aged(session) /\ ticked /\ ~ticked'
      BY <2>6 DEF Advance
    <3>2. /\ session'.connected = session.connected
          /\ session'.last_ping = Older(session.last_ping, PingInterval + 2)
          /\ session'.client_tx_since =
               IF session.client_tx_since = None THEN None
               ELSE Older(session.client_tx_since, LimitMax + 2)
      BY <2>0, <3>1 DEF Aged, Sessions
    <3>3. ClientHolds(session') =>
            /\ ClientHolds(session)
            /\ session'.client_tx_since <= session.client_tx_since + 1
      BY <2>2, <3>2 DEF ClientHolds, Older
    <3>4. /\ session'.last_ping <= session.last_ping + 1
      BY <2>2, <3>2 DEF Older
    <3>5. /\ session'.last_ping \in Int
          /\ ClientHolds(session') => session'.client_tx_since \in Int
      BY <2>2, <3>2, <3>3 DEF Older, ClientHolds
    <3> QED
      BY <2>0, <2>1, <2>2, <3>1, <3>2, <3>3, <3>4, <3>5, TimesAssumption
         DEF Beats, ClientHolds
  <2>7. CASE RadioReplies \/ RadioEnds \/ Break \/ UNCHANGED vars
    <3>1. UNCHANGED <<session, ticked>>
      BY <2>7 DEF RadioReplies, RadioEnds, Break, vars
    <3> QED
      BY <2>0, <2>1, <3>1
  <2> QED
    BY <2>3, <2>4, <2>5, <2>6, <2>7 DEF Next, CallStep
<1>3. BeatInv => KeepAlive
  BY DEF BeatInv, Beats, KeepAlive
<1> QED
  BY <1>1, <1>2, <1>3, TypeCorrect, PTL DEF Spec

-----------------------------------------------------------------------------
(* What the calls send, as a set.                                          *)
Sent(effect) == {effect.sent[i] : i \in 1 .. Len(effect.sent)}

LEMMA SentSets ==
  /\ \A s : Sent(Does(s, <<>>)) = {}
  /\ \A s, c : Sent(Does(s, <<c>>)) = {c}
  /\ \A s, c, d : Sent(Does(s, <<c, d>>)) = {c, d}
  /\ \A s, c, d, e : Sent(Does(s, <<c, d, e>>)) = {c, d, e}
  /\ \A s, c, d, e, f : Sent(Does(s, <<c, d, e, f>>)) = {c, d, e, f}
<1>1. \A s : Sent(Does(s, <<>>)) = {}
  BY DEF Sent, Does
<1>2. \A s, c : Sent(Does(s, <<c>>)) = {c}
  BY DEF Sent, Does
<1>3. \A s, c, d : Sent(Does(s, <<c, d>>)) = {c, d}
  BY DEF Sent, Does
<1>4. \A s, c, d, e : Sent(Does(s, <<c, d, e>>)) = {c, d, e}
  BY DEF Sent, Does
<1>5. \A s, c, d, e, f : Sent(Does(s, <<c, d, e, f>>)) = {c, d, e, f}
  BY DEF Sent, Does
<1> QED
  BY <1>1, <1>2, <1>3, <1>4, <1>5

(* Whatever part of a call gets through, the radio's emissions change by   *)
(* commands of that call; all of them while the path stays up.             *)
LEMMA CallHeard ==
  ASSUME NEW effect, Call(effect)
  PROVE  /\ session' = effect.session
         /\ net' = "up" => net = "up" /\ on_air' = Heard(on_air, Sent(effect))
         /\ \E cmds \in SUBSET Sent(effect) : on_air' = Heard(on_air, cmds)
<1>1. PICK n \in 0 .. Len(effect.sent) :
        /\ net = "up" \/ n = 0
        /\ on_air' = Heard(on_air, {effect.sent[i] : i \in 1 .. n})
        /\ net' = IF n = Len(effect.sent) THEN net ELSE "down"
  BY DEF Call, Send
<1>2. {effect.sent[i] : i \in 1 .. n} \subseteq Sent(effect)
  BY <1>1 DEF Sent
<1> QED
  BY <1>1, <1>2 DEF Call, Sent

LEMMA SentConcat ==
  ASSUME NEW s, NEW S, NEW a \in Seq(S), NEW b \in Seq(S)
  PROVE  Sent(Does(s, a \o b)) = Sent(Does(s, a)) \cup Sent(Does(s, b))
<1>1. /\ Len(a \o b) = Len(a) + Len(b)
      /\ \A i \in 1 .. Len(a) : (a \o b)[i] = a[i]
      /\ \A i \in 1 .. Len(b) : (a \o b)[Len(a) + i] = b[i]
      /\ Len(a) \in Nat /\ Len(b) \in Nat
  BY ConcatProperties
<1>2. \A i \in 1 .. Len(a \o b) :
        i \in 1 .. Len(a) \/ i - Len(a) \in 1 .. Len(b)
  BY <1>1
<1>3. Sent(Does(s, a \o b)) \subseteq Sent(Does(s, a)) \cup Sent(Does(s, b))
  <2> SUFFICES ASSUME NEW i \in 1 .. Len(a \o b)
               PROVE  \/ \E j \in 1 .. Len(a) : (a \o b)[i] = a[j]
                      \/ \E j \in 1 .. Len(b) : (a \o b)[i] = b[j]
    BY DEF Sent, Does
  <2>1. CASE i \in 1 .. Len(a)
    BY <1>1, <2>1
  <2>2. CASE i - Len(a) \in 1 .. Len(b)
    <3>1. i = Len(a) + (i - Len(a))
      BY <1>1
    <3> QED
      BY <1>1, <2>2, <3>1
  <2> QED
    BY <1>2, <2>1, <2>2
<1>4. Sent(Does(s, a)) \cup Sent(Does(s, b)) \subseteq Sent(Does(s, a \o b))
  <2>1. \A i \in 1 .. Len(a) : i \in 1 .. Len(a \o b)
    BY <1>1
  <2>2. \A i \in 1 .. Len(b) : Len(a) + i \in 1 .. Len(a \o b)
    BY <1>1
  <2>3. Sent(Does(s, a)) \subseteq Sent(Does(s, a \o b))
    BY <1>1, <2>1 DEF Sent, Does
  <2>4. Sent(Does(s, b)) \subseteq Sent(Does(s, a \o b))
    BY <1>1, <2>2 DEF Sent, Does
  <2> QED
    BY <2>3, <2>4
<1> QED
  BY <1>3, <1>4

LEMMA FailSafeSent ==
  ASSUME NEW s
  PROVE  /\ Sent(FailSafe(s)) \subseteq {"RX", "TU0"}
         /\ s.transmitting => "RX" \in Sent(FailSafe(s))
         /\ s.tuning => "TU0" \in Sent(FailSafe(s))
<1> DEFINE unkey == IF s.transmitting THEN <<"RX">> ELSE <<>>
           untune == IF s.tuning THEN <<"TU0", "RX">> ELSE <<>>
           t == FailSafe(s).session
<1>1. unkey \in Seq({"RX", "TU0"}) /\ untune \in Seq({"RX", "TU0"})
  <2>1. /\ <<"RX">> \in Seq({"RX", "TU0"})
        /\ <<"TU0", "RX">> \in Seq({"RX", "TU0"})
        /\ << >> \in Seq({"RX", "TU0"})
    OBVIOUS
  <2> QED
    BY <2>1
<1>2. FailSafe(s) = Does(t, unkey \o untune)
  BY DEF FailSafe, Does
<1>3. Sent(Does(t, unkey)) = IF s.transmitting THEN {"RX"} ELSE {}
  BY SentSets
<1>4. Sent(Does(t, untune)) = IF s.tuning THEN {"TU0", "RX"} ELSE {}
  <2>1. /\ Sent(Does(t, <<"TU0", "RX">>)) = {"TU0", "RX"}
        /\ Sent(Does(t, << >>)) = {}
    BY SentSets
  <2> QED
    BY <2>1
<1> HIDE DEF unkey, untune, t
<1> QED
  BY <1>1, <1>2, <1>3, <1>4, SentConcat

LEMMA TickSent ==
  ASSUME NEW s
  PROVE  /\ Sent(Tick(s)) \subseteq {"RX", "TU0", "PING"}
<1>1. Sent(NoteIoError(s)) \subseteq {"RX", "TU0"}
  BY FailSafeSent DEF NoteIoError
<1>2. Sent(EndTx(s)) \subseteq {"RX"}
  BY SentSets DEF EndTx
<1> QED
  BY <1>1, <1>2, SentSets DEF Tick

(* Only a keyable session sends what keys the radio.                       *)
LEMMA GateCalls ==
  ASSUME NEW s, ~Keyable(s), NEW effect \in Calls(s)
  PROVE  Sent(effect) \cap DOMAIN Begins = {}
<1> DEFINE Quiet(e) == Sent(e) \cap DOMAIN Begins = {}
<1>0. DOMAIN Begins = {"TX", "TU1", "KY", "PB1", "DAMP"}
  BY DEF Begins
<1>1. Quiet(EndTx(s)) /\ Quiet(EndClientTx(s)) /\ Quiet(ArmTx(s))
  BY <1>0, SentSets DEF EndTx, EndClientTx, ArmTx
<1>2. Quiet(DisarmTx(s))
  BY <1>0, SentSets DEF DisarmTx, EndClientTx, EndTx
<1>3. Quiet(BeginTx(s)) /\ Quiet(BeginTxForClient(s))
  BY <1>0, SentSets DEF BeginTx, BeginTxForClient, ClientMayKey
<1>4. ASSUME NEW on \in BOOLEAN PROVE Quiet(SetCatMayTransmit(s, on))
  BY <1>0, SentSets DEF SetCatMayTransmit, EndClientTx, EndTx
<1>5. ASSUME NEW limit PROVE Quiet(SetClientTxLimit(s, limit))
  BY <1>0, SentSets DEF SetClientTxLimit
<1>6. ASSUME NEW action PROVE Quiet(Tune(s, action))
  BY <1>0, SentSets DEF Tune
<1>7. ASSUME NEW c PROVE Quiet(SendRaw(s, c))
  BY <1>0, SentSets DEF SendRaw, keys_transmitter
<1>8. Quiet(EmergencyStop(s)) /\ Quiet(Disconnect(s))
  BY <1>0, SentSets DEF EmergencyStop, Disconnect
<1>9. Quiet(NoteIoError(s))
  BY <1>0, FailSafeSent DEF NoteIoError
<1>10. Quiet(Tick(s))
  BY <1>0, TickSent
<1>11. Quiet(effect)
  BY <1>1, <1>2, <1>3, <1>4, <1>5, <1>6, <1>7, <1>8, <1>9, <1>10 DEF Calls
<1> QED
  BY <1>11

(* Interlock holds of every step: nothing goes on air unless transmit is   *)
(* armed on a live session, whichever entry point the command takes.       *)
THEOREM InterlockHolds == Spec => Interlock
<1>1. [Next]_vars => [on_air' \subseteq on_air \/ Keyable(session)]_vars
  <2> SUFFICES ASSUME [Next]_vars, ~Keyable(session)
               PROVE  on_air' \subseteq on_air
    OBVIOUS
  <2>1. CASE CallStep
    <3>1. PICK effect \in Calls(session) : Call(effect)
      BY <2>1, CallStepIsCall
    <3>2. PICK cmds \in SUBSET Sent(effect) : on_air' = Heard(on_air, cmds)
      BY <3>1, CallHeard
    <3>3. cmds \cap DOMAIN Begins = {}
      BY <3>1, <3>2, GateCalls
    <3> QED
      BY <3>2, <3>3 DEF Heard
  <2>2. CASE PumpStep \/ Advance \/ RadioReplies \/ RadioEnds \/ Break
    BY <2>2 DEF PumpStep, Advance, RadioReplies, RadioEnds, Break
  <2>3. CASE UNCHANGED vars
    BY <2>3 DEF vars
  <2> QED
    BY <2>1, <2>2, <2>3 DEF Next, CallStep
<1> QED
  BY <1>1, PTL DEF Spec, Interlock

(* StopSilences holds of every step: a stop that gets through ends every   *)
(* kind of emission there is.                                              *)
THEOREM StopAlwaysSilences == Spec => StopSilences
<1>1. TypeOK /\ [Next]_vars => [Stop /\ net' = "up" => on_air' = {}]_vars
  <2> SUFFICES ASSUME TypeOK, Stop, net' = "up"
               PROVE  on_air' = {}
    OBVIOUS
  <2>1. on_air' = Heard(on_air, Sent(EmergencyStop(session)))
    BY CallHeard DEF Stop
  <2>2. Sent(EmergencyStop(session)) = {"TU0", "PB0", "DA0", "RX"}
    BY SentSets DEF EmergencyStop
  <2>3. /\ {"TU0", "PB0", "DA0", "RX"} \cap DOMAIN Begins = {}
        /\ {"TU0", "PB0", "DA0", "RX"} \cap DOMAIN Ends
             = {"TU0", "PB0", "DA0", "RX"}
    BY DEF Begins, Ends
  <2>4. \A e \in Emissions :
          \E c \in {"TU0", "PB0", "DA0", "RX"} : e \in Ends[c]
    BY DEF Emissions, Ends
  <2> QED
    BY <2>1, <2>2, <2>3, <2>4 DEF Heard, TypeOK
<1> QED
  BY <1>1, TypeCorrect, PTL DEF Spec, StopSilences

-----------------------------------------------------------------------------
(* The flags and the air.                                                  *)
Tells(s, effect) ==
  /\ "TX" \in Sent(effect) => effect.session.transmitting
  /\ "TU1" \in Sent(effect) => effect.session.tuning
  /\ s.transmitting /\ ~effect.session.transmitting => "RX" \in Sent(effect)
  /\ s.tuning /\ ~effect.session.tuning => "TU0" \in Sent(effect)

LEMMA TellsNothing ==
  ASSUME NEW s, NEW t, s.transmitting => t.transmitting,
         s.tuning => t.tuning
  PROVE  Tells(s, Does(t, <<>>))
<1>1. Sent(Does(t, <<>>)) = {} /\ Does(t, <<>>).session = t
  BY SentSets DEF Does
<1> QED
  BY <1>1 DEF Tells

LEMMA TellsOne ==
  ASSUME NEW s, NEW t, NEW c,
         c = "TX" => t.transmitting, c = "TU1" => t.tuning,
         s.transmitting /\ ~t.transmitting => c = "RX",
         s.tuning /\ ~t.tuning => c = "TU0"
  PROVE  Tells(s, Does(t, <<c>>))
<1>1. Sent(Does(t, <<c>>)) = {c} /\ Does(t, <<c>>).session = t
  BY SentSets DEF Does
<1> QED
  BY <1>1 DEF Tells

LEMMA TellsCalls ==
  ASSUME NEW s \in Sessions, RawCommands \cap DOMAIN Begins = {},
         NEW effect \in Calls(s)
  PROVE  Tells(s, effect)
<1> USE DEF Sessions
<1>0. DOMAIN Begins = {"TX", "TU1", "KY", "PB1", "DAMP"}
  BY DEF Begins
<1>e. ASSUME NEW t \in Sessions, t.transmitting = s.transmitting,
             t.tuning = s.tuning
      PROVE  Tells(s, EndTx(t)) /\ Tells(s, EndClientTx(t))
  <2> DEFINE u == [t EXCEPT !.client_tx_since = None, !.transmitting = FALSE]
  <2>1. u.transmitting = FALSE /\ u.tuning = s.tuning
    BY <1>e
  <2>2. EndTx(t) = Does(u, IF t.transmitting THEN <<"RX">> ELSE <<>>)
    BY DEF EndTx
  <2> HIDE DEF u
  <2>3. Tells(s, Does(u, <<"RX">>))
    BY <2>1, TellsOne
  <2>4. ~s.transmitting => Tells(s, Does(u, <<>>))
    BY <2>1, TellsNothing
  <2>5. Tells(s, EndTx(t))
    BY <1>e, <2>2, <2>3, <2>4
  <2> QED
    BY <1>e, <2>5, TellsNothing DEF EndClientTx
<1>1. Tells(s, EndTx(s)) /\ Tells(s, EndClientTx(s))
  BY <1>e
<1>2. Tells(s, ArmTx(s))
  BY TellsNothing DEF ArmTx
<1>3. Tells(s, DisarmTx(s))
  BY <1>e DEF DisarmTx
<1>4. Tells(s, BeginTx(s)) /\ Tells(s, BeginTxForClient(s))
  BY TellsNothing, TellsOne DEF BeginTx, BeginTxForClient
<1>5. ASSUME NEW on \in BOOLEAN PROVE Tells(s, SetCatMayTransmit(s, on))
  BY <1>e, TellsNothing DEF SetCatMayTransmit
<1>6. ASSUME NEW limit PROVE Tells(s, SetClientTxLimit(s, limit))
  BY TellsNothing DEF SetClientTxLimit
<1>7. ASSUME NEW action \in {"TU0", "TU1"} PROVE Tells(s, Tune(s, action))
  BY TellsNothing, TellsOne DEF Tune
<1>8. ASSUME NEW c \in RawCommands PROVE Tells(s, SendRaw(s, c))
  <2>1. c \notin {"TX", "TU1"}
    BY <1>0
  <2> QED
    BY <2>1, TellsNothing, TellsOne DEF SendRaw
<1>9. Tells(s, EmergencyStop(s))
  <2>1. Sent(EmergencyStop(s)) = {"TU0", "PB0", "DA0", "RX"}
    BY SentSets DEF EmergencyStop
  <2> QED
    BY <2>1 DEF Tells, EmergencyStop, Does
<1>10. Tells(s, Disconnect(s))
  BY TellsOne DEF Disconnect
<1>11. Tells(s, NoteIoError(s))
  <2> DEFINE t == [s EXCEPT !.connected = FALSE]
  <2>1. /\ NoteIoError(s) = FailSafe(t)
        /\ t.transmitting = s.transmitting /\ t.tuning = s.tuning
    BY DEF NoteIoError
  <2>2. ~FailSafe(t).session.transmitting /\ ~FailSafe(t).session.tuning
    BY DEF FailSafe, Does
  <2> HIDE DEF t
  <2> QED
    BY <2>1, <2>2, FailSafeSent DEF Tells
<1>12. Tells(s, Tick(s))
  <2>1. Tells(s, Does([s EXCEPT !.last_ping = 0], <<"PING">>))
    BY TellsOne
  <2>2. Tells(s, Does(s, <<>>))
    BY TellsNothing
  <2> QED
    BY <1>1, <1>11, <2>1, <2>2 DEF Tick
<1>13. Tells(s, effect)
  BY <1>1, <1>2, <1>3, <1>4, <1>5, <1>6, <1>7, <1>8, <1>9, <1>10, <1>11,
     <1>12 DEF Calls
<1> QED
  BY <1>13

(* KnowsWhatItKeyed holds of every reachable state when no raw command     *)
(* keys: then the flags are an upper bound of what is on air.              *)
THEOREM AlwaysKnowsWhatItKeyed ==
  ASSUME RawCommands \cap DOMAIN Begins = {}
  PROVE  Spec => []KnowsWhatItKeyed
<1>1. Init => KnowsWhatItKeyed
  BY DEF Init, KnowsWhatItKeyed
<1>2. TypeOK /\ KnowsWhatItKeyed /\ [Next]_vars => KnowsWhatItKeyed'
  <2> SUFFICES ASSUME TypeOK, KnowsWhatItKeyed, [Next]_vars
               PROVE  KnowsWhatItKeyed'
    OBVIOUS
  <2>0. session \in Sessions
    BY DEF TypeOK
  <2>1. CASE CallStep
    <3>1. PICK effect \in Calls(session) : Call(effect)
      BY <2>1, CallStepIsCall
    <3>2. SUFFICES ASSUME net' = "up"
                   PROVE  /\ "voice" \in on_air' => session'.transmitting
                          /\ "tune" \in on_air' => session'.tuning
      BY DEF KnowsWhatItKeyed
    <3>3. /\ session' = effect.session
          /\ on_air' = Heard(on_air, Sent(effect))
          /\ "voice" \in on_air => session.transmitting
          /\ "tune" \in on_air => session.tuning
      BY <3>1, <3>2, CallHeard DEF KnowsWhatItKeyed
    <3>4. Tells(session, effect)
      BY <2>0, <3>1, TellsCalls
    <3>5. \A c \in DOMAIN Begins :
            /\ "voice" \in Begins[c] => c = "TX"
            /\ "tune" \in Begins[c] => c = "TU1"
      BY DEF Begins
    <3>6. /\ "RX" \in DOMAIN Ends /\ "voice" \in Ends["RX"]
          /\ "TU0" \in DOMAIN Ends /\ "tune" \in Ends["TU0"]
      BY DEF Ends
    <3>7. "voice" \in on_air' => session'.transmitting
      <4>1. "voice" \in on_air' =>
              "TX" \in Sent(effect)
                \/ ("voice" \in on_air /\ "RX" \notin Sent(effect))
        BY <3>3, <3>5, <3>6 DEF Heard
      <4> QED
        BY <3>3, <3>4, <4>1 DEF Tells
    <3>8. "tune" \in on_air' => session'.tuning
      <4>1. "tune" \in on_air' =>
              "TU1" \in Sent(effect)
                \/ ("tune" \in on_air /\ "TU0" \notin Sent(effect))
        BY <3>3, <3>5, <3>6 DEF Heard
      <4> QED
        BY <3>3, <3>4, <4>1 DEF Tells
    <3> QED
      BY <3>7, <3>8
  <2>2. CASE PumpStep
    BY <2>0, <2>2 DEF PumpStep, Pump, Sessions, KnowsWhatItKeyed
  <2>3. CASE Advance
    BY <2>0, <2>3 DEF Advance, Aged, Sessions, KnowsWhatItKeyed
  <2>4. CASE RadioReplies \/ RadioEnds \/ Break \/ UNCHANGED vars
    BY <2>4 DEF RadioReplies, RadioEnds, Break, vars, KnowsWhatItKeyed
  <2> QED
    BY <2>1, <2>2, <2>3, <2>4 DEF Next, CallStep
<1> QED
  BY <1>1, <1>2, TypeCorrect, PTL DEF Spec

-----------------------------------------------------------------------------
(* Session implements TransmitOwner: a step of the session is a step of    *)
(* the abstract interlock or leaves the transmitter's ownership alone.     *)
THEOREM ImplementsOwner == Spec => OwnerSpec
<1>1. Init => O!Init
  BY DEF Init, New, O!Init, Owner
<1>2. TypeOK /\ Licensed(session) /\ [Next]_vars => [O!Next]_(O!vars)
  <2> SUFFICES ASSUME TypeOK, Licensed(session), [Next]_vars
               PROVE  [O!Next]_(O!vars)
    OBVIOUS
  <2>0. session \in Sessions
    BY DEF TypeOK
  <2> USE <2>0 DEF Call, Does, Sessions, Owner, ClientHolds, O!vars, Licensed
  <2>1. CASE Arm
    BY <2>1 DEF Arm, ArmTx, O!Next, O!Arm
  <2>2. CASE Disarm
    BY <2>2 DEF Disarm, DisarmTx, EndClientTx, EndTx, O!Next, O!Disarm,
                O!Evicted
  <2>3. CASE OperatorKeys
    BY <2>3 DEF OperatorKeys, BeginTx, Keyable, O!Next, O!OperatorKeys
  <2>4. CASE OperatorUnkeys
    BY <2>4 DEF OperatorUnkeys, EndTx, O!Next, O!Release
  <2>5. CASE SetOptIn
    <3>1. PICK on \in BOOLEAN :
            session' = SetCatMayTransmit(session, on).session
      BY <2>5 DEF SetOptIn
    <3>2. CASE on
      BY <3>1, <3>2 DEF SetCatMayTransmit, O!Next, O!OptIn
    <3>3. CASE ~on
      BY <3>1, <3>3 DEF SetCatMayTransmit, EndClientTx, EndTx, O!Next,
                        O!OptOut, O!Evicted
    <3> QED
      BY <3>2, <3>3
  <2>6. CASE SetLimit
    BY <2>6 DEF SetLimit, SetClientTxLimit
  <2>7. CASE ClientKeys
    BY <2>7, NoneAssumption
       DEF ClientKeys, BeginTxForClient, ClientMayKey, Keyable, O!Next,
           O!ClientKeys
  <2>8. CASE ClientLeaves
    BY <2>8 DEF ClientLeaves, EndClientTx, EndTx, O!Next, O!Release
  <2>9. CASE TuneStep
    BY <2>9 DEF TuneStep, Tune
  <2>10. CASE SendStep
    BY <2>10 DEF SendStep, SendRaw
  <2>11. CASE Stop
    BY <2>11 DEF Stop, EmergencyStop, O!Next, O!Stop
  <2>12. CASE DisconnectStep
    BY <2>12 DEF DisconnectStep, Disconnect, O!Next, O!Leave
  <2>13. session' = NoteIoError(session).session => O!Lose
    BY DEF NoteIoError, FailSafe, O!Lose
  <2>14. CASE IoError
    BY <2>13, <2>14 DEF IoError, O!Next
  <2>15. CASE TickStep
    <3>1. session' = Tick(session).session
      BY <2>15 DEF TickStep
    <3>2. CASE LinkIsLost(session)
      BY <2>13, <3>1, <3>2 DEF Tick, O!Next
    <3>3. CASE ~LinkIsLost(session) /\ HoldIsOver(session)
      BY <3>1, <3>3 DEF Tick, EndTx, O!Next, O!Release
    <3>4. CASE ~LinkIsLost(session) /\ ~HoldIsOver(session)
      BY <3>1, <3>4 DEF Tick
    <3> QED
      BY <3>2, <3>3, <3>4
  <2>16. CASE PumpStep
    BY <2>16 DEF PumpStep, Pump
  <2>17. CASE Advance
    <3>1. session.client_tx_since # None =>
            Older(session.client_tx_since, LimitMax + 2) # None
      BY NoneAssumption DEF Older, HoldAges
    <3> QED
      BY <2>17, <3>1 DEF Advance, Aged
  <2>18. CASE RadioReplies \/ RadioEnds \/ Break \/ UNCHANGED vars
    BY <2>18 DEF RadioReplies, RadioEnds, Break, vars
  <2> QED
    BY <2>1, <2>2, <2>3, <2>4, <2>5, <2>6, <2>7, <2>8, <2>9, <2>10, <2>11,
       <2>12, <2>14, <2>15, <2>16, <2>17, <2>18 DEF Next
<1>3. Licensed(session) <=> ClaimLicensed
  BY DEF Licensed, ClaimLicensed
<1> QED
  BY <1>1, <1>2, <1>3, TypeCorrect, ClaimAlwaysLicensed, PTL
     DEF Spec, OwnerSpec, O!Spec
=============================================================================
