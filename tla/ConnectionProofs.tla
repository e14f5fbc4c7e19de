-------------------------- MODULE ConnectionProofs --------------------------
(***************************************************************************)
(* Proofs about Connection: its types, and that the phase tells what goes  *)
(* on, nothing connects unasked, the back-off starts over and a sequence   *)
(* of digits ends with its link, for any radios, delays and bounds.        *)
(***************************************************************************)
EXTENDS Connection, WellFoundedInduction, TLAPS

-----------------------------------------------------------------------------
(* The back-off.                                                           *)

LEMMA MinOfTwo ==
  ASSUME NEW a \in Int, NEW b \in Int
  PROVE  Min({a, b}) = IF a =< b THEN a ELSE b
<1>1. CASE a =< b
  BY <1>1 DEF Min
<1>2. CASE ~(a =< b)
  BY <1>2 DEF Min
<1> QED
  BY <1>1, <1>2

LEMMA PowersOfTwo == \A k \in 0 .. 16 : 2^k \in Nat \ {0}
<1>1. /\ {2^0, 2^1, 2^2, 2^3, 2^4, 2^5, 2^6, 2^7, 2^8} \subseteq Nat \ {0}
      /\ {2^9, 2^10, 2^11, 2^12, 2^13, 2^14, 2^15, 2^16} \subseteq Nat \ {0}
  OBVIOUS
<1>2. ASSUME NEW k \in 0 .. 16
      PROVE  \/ k \in {0, 1, 2, 3, 4, 5, 6, 7, 8}
             \/ k \in {9, 10, 11, 12, 13, 14, 15, 16}
  OBVIOUS
<1> QED
  BY <1>1, <1>2

(* A delay is a time, and none is longer than the longest.                 *)
LEMMA DelayBounded ==
  ASSUME NEW n \in Nat
  PROVE  Delay(n) \in 0 .. Longest
<1> DEFINE k == Min({n, 16})
           p == 2^k
<1>1. k \in 0 .. 16
  BY MinOfTwo
<1>2. p \in Nat
  BY <1>1, PowersOfTwo
<1> HIDE DEF p
<1>3. Base * p \in Nat
  BY <1>2, DelaysAssumption
<1>4. Min({Base * p, Longest}) \in 0 .. Longest
  BY <1>3, MinOfTwo, DelaysAssumption
<1> QED
  BY <1>4 DEF Delay, p

(* The first delay is the shortest.                                        *)
LEMMA FirstDelay == Delay(0) = Base
<1>1. Min({0, 16}) = 0
  BY MinOfTwo
<1>2. Base * 2^0 = Base
  BY DelaysAssumption
<1>3. Min({Base, Longest}) = Base
  BY MinOfTwo, DelaysAssumption
<1> QED
  BY <1>1, <1>2, <1>3 DEF Delay

LEMMA AttemptMaxType == AttemptMax \in 0 .. 16
<1> DEFINE Longs == {n \in 0 .. 16 : Delay(n) = Delay(16)}
<1>1. 16 \in Longs /\ Longs \subseteq Nat
  OBVIOUS
<1>2. PICK n \in Longs : \A m \in Longs : ~(<<m, n>> \in OpToRel(<, Nat))
  BY <1>1, WFMin, NatLessThanWellFounded
<1>3. \A m \in 0 .. n - 1 : Delay(m) # Delay(16)
  <2> SUFFICES ASSUME NEW m \in 0 .. n - 1, Delay(m) = Delay(16)
               PROVE  FALSE
    OBVIOUS
  <2>1. n \in 0 .. 16
    OBVIOUS
  <2>2. m \in 0 .. 16 /\ m \in Nat /\ n \in Nat /\ m < n
    BY <2>1
  <2>3. m \in Longs
    BY <2>2
  <2>4. <<m, n>> \in OpToRel(<, Nat)
    BY <2>2 DEF OpToRel
  <2> QED
    BY <2>3, <2>4, <1>2
<1> QED
  BY <1>3 DEF AttemptMax

LEMMA CountedOn ==
  ASSUME NEW n \in 0 .. AttemptMax
  PROVE  Min({n + 1, AttemptMax}) \in 0 .. AttemptMax
BY AttemptMaxType, MinOfTwo

-----------------------------------------------------------------------------
(* The types, with what a command may be; and what is idle is idle.        *)

Plain == {"disconnect", "key", "unkey", "dtmf", "stop"}
Commands == [kind : {"connect"}, to : Targets] \cup [kind : Plain, to : {None}]

Types ==
  /\ TypeOK
  /\ cmds \in Seq(Commands)
  /\ radio \in Answers /\ hasty \in BOOLEAN

(* No thread has died if threads do not.                                   *)
Alive == ~ThreadsDie /\ pending_connect # None => pending_connect.result # "died"

Safe ==
  /\ Types /\ NothingUnasked /\ Alive
  /\ ~ThreadsDie => PhaseHonest

Sequences == [left : 0 .. DigitMax, own : BOOLEAN]

LEMMA SequencesHave ==
  /\ NoDtmf \in Sequences
  /\ [left |-> DigitMax, own |-> TRUE] \in Sequences
  /\ \A d \in Sequences :
       /\ [d EXCEPT !.own = FALSE] \in Sequences
       /\ d.left # 0 => [d EXCEPT !.left = @ - 1] \in Sequences
<1>1. 0 \in 0 .. DigitMax /\ DigitMax \in 0 .. DigitMax
  BY SizesAssumption
<1>2. ASSUME NEW d \in Sequences, d.left # 0
      PROVE  [d EXCEPT !.left = @ - 1] \in Sequences
  <2>1. d.left - 1 \in 0 .. DigitMax
    BY <1>2, SizesAssumption DEF Sequences
  <2> QED
    BY <2>1 DEF Sequences
<1> QED
  BY <1>1, <1>2 DEF NoDtmf, Sequences

LEMMA DtmfIs == ASSUME Safe PROVE dtmf \in Sequences
BY DEF Safe, Types, TypeOK, Sequences

LEMMA InitSafe == Init => Safe
<1> SUFFICES ASSUME Init PROVE Safe
  OBVIOUS
<1>1. 0 \in 0 .. AttemptMax
  BY AttemptMaxType
<1>2. TypeOK
  BY <1>1, SequencesHave DEF Init, TypeOK, Sequences, Phases
<1>3. Types
  BY <1>2, PacesAssumption DEF Init, Types
<1> QED
  BY <1>3 DEF Init, Safe, NothingUnasked, Alive, PhaseHonest

LEMMA RetryType ==
  ASSUME TypeOK, Retry
  PROVE  /\ next_attempt' \in 0 .. Longest /\ next_attempt' # None
         /\ attempt' \in 0 .. AttemptMax
<1>1. attempt \in Nat
  BY AttemptMaxType DEF TypeOK
<1>2. next_attempt' \in 0 .. Longest
  BY <1>1, DelayBounded DEF Retry
<1>3. attempt' \in 0 .. AttemptMax
  BY CountedOn DEF Retry, TypeOK
<1> QED
  BY <1>2, <1>3, NoneAssumption, DelaysAssumption

LEMMA HandleCmdSafe == ASSUME Safe, HandleCmd PROVE Safe'
<1> DEFINE cmd == Head(cmds)
<1>1. cmd \in Commands /\ cmds' \in Seq(Commands)
  BY DEF HandleCmd, Safe, Types
<1>2. radio' \in Answers /\ hasty' \in BOOLEAN /\ at' = at /\ seen' = seen
  BY DEF HandleCmd, Safe, Types
<1>3. 0 \in 0 .. AttemptMax /\ NoDtmf \in Sequences
  BY AttemptMaxType, SequencesHave
<1>4. CASE cmd.kind = "connect" /\ Connect(cmd.to)
  <2>1. cmd.to \in Targets /\ cmd.to # None
    BY <1>1, <1>4, NoneAssumption DEF Commands, Plain
  <2>2. /\ [to |-> cmd.to, result |-> "open"] \in Attempts
        /\ [to |-> cmd.to, result |-> "open"] # None
    BY <2>1, NoneAssumption DEF Attempts
  <2>3. TypeOK'
    BY <1>2, <1>3, <1>4, <2>1, <2>2
    DEF Connect, Begin, Safe, Types, TypeOK, Phases
  <2> QED
    BY <1>1, <1>2, <1>4, <2>1, <2>2, <2>3
    DEF Connect, Begin, Safe, Types, NothingUnasked, Alive, PhaseHonest
<1>5. CASE cmd.kind = "disconnect" /\ Disconnect
  <2>1. TypeOK'
    BY <1>2, <1>3, <1>5
    DEF Disconnect, Safe, Types, TypeOK, Sequences, Phases
  <2> QED
    BY <1>1, <1>2, <1>5, <2>1
    DEF Disconnect, Safe, Types, NothingUnasked, Alive, PhaseHonest
<1>6. CASE /\ \/ Key(TRUE) \/ Key(FALSE) \/ StartDtmf \/ EmergencyStop
           /\ UNCHANGED <<connect_params, pending_connect, next_attempt, attempt>>
           /\ UNCHANGED snapshotVars
  <2>1. \A on \in BOOLEAN : session # None =>
           [session EXCEPT !.keyed = on] \in Sessions \ {None}
    BY NoneAssumption DEF Safe, Types, TypeOK, Sessions
  <2>2. /\ session' \in Sessions \cup {None}
        /\ session' = None <=> session = None
    BY <1>6, <2>1 DEF Key, StartDtmf, EmergencyStop, Safe, Types, TypeOK
  <2>3. dtmf' \in Sequences
    BY <1>6, SequencesHave, DtmfIs
    DEF Key, StartDtmf, EmergencyStop
  <2>4. TypeOK'
    BY <1>2, <1>6, <2>2, <2>3 DEF Safe, Types, TypeOK, Sequences, snapshotVars
  <2> QED
    BY <1>1, <1>2, <1>6, <2>2, <2>4
    DEF Safe, Types, NothingUnasked, Alive, PhaseHonest, snapshotVars
<1> QED
  BY <1>4, <1>5, <1>6 DEF HandleCmd

LEMMA DrainedSafe == ASSUME Safe, Drained PROVE Safe'
BY DEF Drained, linkVars, snapshotVars, Safe, Types, TypeOK, NothingUnasked,
       Alive, PhaseHonest

LEMMA PollPendingSafe == ASSUME Safe, PollPending PROVE Safe'
<1>1. /\ connect_params' = connect_params /\ transmitting' = transmitting
      /\ cmds' = cmds /\ seen' = seen /\ radio' = radio /\ hasty' = hasty
      /\ at' \in {"cmds", "poll", "dtmf", "link"}
  BY DEF PollPending
<1>2. CASE UNCHANGED <<pending_connect, next_attempt, attempt, session, dtmf,
                       phase>>
  BY <1>1, <1>2
  DEF Safe, Types, TypeOK, NothingUnasked, Alive, PhaseHonest
<1>3. CASE /\ pending_connect # None /\ pending_connect' = None
           /\ Result = "ok" /\ Installed
  <2>1. session' \in Sessions /\ session' # None
    <3>1. pending_connect.to \in Targets
      BY <1>3 DEF Attempts, Safe, Types, TypeOK
    <3>2. [to |-> pending_connect.to, keyed |-> FALSE] \in Sessions
      BY <3>1 DEF Sessions
    <3> QED
      BY <1>3, <3>2, NoneAssumption DEF Installed
  <2>3. dtmf' \in Sequences
    BY <1>3, SequencesHave, DtmfIs DEF Installed, Orphaned
  <2>4. attempt' \in 0 .. AttemptMax
    BY <1>3, AttemptMaxType DEF Installed
  <2>2. connect_params # None
    BY <1>3 DEF Safe, NothingUnasked
  <2> QED
    BY <1>1, <1>3, <2>1, <2>2, <2>3, <2>4
    DEF Installed, Safe, Types, TypeOK, Sequences, Phases, NothingUnasked,
        Alive, PhaseHonest
<1>4. CASE pending_connect # None /\ pending_connect' = None /\ Failed
  <2>1. connect_params # None /\ Retry
    BY <1>4 DEF Safe, NothingUnasked, Failed
  <2>2. /\ next_attempt' \in 0 .. Longest /\ next_attempt' # None
        /\ attempt' \in 0 .. AttemptMax
    BY <2>1, RetryType DEF Safe, Types
  <2> QED
    BY <1>1, <1>4, <2>1, <2>2
    DEF Failed, Safe, Types, TypeOK, NothingUnasked, Alive, PhaseHonest
<1>5. CASE /\ pending_connect # None /\ pending_connect' = None
           /\ Result = "died"
           /\ UNCHANGED <<next_attempt, attempt, session, dtmf, phase>>
  BY <1>1, <1>5
  DEF Result, Safe, Types, TypeOK, NothingUnasked, Alive, PhaseHonest
<1> QED
  BY <1>2, <1>3, <1>4, <1>5 DEF PollPending, Result

LEMMA DtmfSafe == ASSUME Safe, Dtmf PROVE Safe'
<1>1. dtmf' \in Sequences
  BY SequencesHave DEF Dtmf, Safe, Types, TypeOK, Sequences
<1> QED
  BY <1>1
  DEF Dtmf, linkVars, snapshotVars, Safe, Types, TypeOK, Sequences,
      NothingUnasked, Alive, PhaseHonest

LEMMA LinkSafe == ASSUME Safe, Link PROVE Safe'
<1>1. /\ connect_params' = connect_params
      /\ cmds' = cmds /\ seen' = seen /\ radio' = radio /\ hasty' = hasty
      /\ at' \in {"cmds", "poll", "dtmf", "link"}
  BY DEF Link
<1>2. CASE session # None /\ LinkLost
  <2>1. connect_params # None /\ Retry /\ phase' = "Connecting"
    BY <1>2 DEF Safe, NothingUnasked, LinkLost
  <2>2. /\ next_attempt' \in 0 .. Longest /\ next_attempt' # None
        /\ attempt' \in 0 .. AttemptMax
    BY <2>1, RetryType DEF Safe, Types
  <2>3. dtmf' \in Sequences /\ transmitting' \in BOOLEAN
    BY <1>2, SequencesHave
    DEF LinkLost, Orphaned, Safe, Types, TypeOK, Sequences
  <2> QED
    BY <1>1, <1>2, <2>1, <2>2, <2>3
    DEF LinkLost, Safe, Types, TypeOK, Sequences, Phases, NothingUnasked,
        Alive, PhaseHonest
<1>3. CASE session # None /\ Serviced
  <2>1. transmitting' \in BOOLEAN /\ phase' \in {phase, "Connected"}
    BY <1>3 DEF Serviced, Safe, Types, TypeOK, Sessions
  <2> QED
    BY <1>1, <1>3, <2>1
    DEF Serviced, Safe, Types, TypeOK, Phases, NothingUnasked, Alive,
        PhaseHonest
<1>4. CASE /\ session = None /\ NextAttempt
           /\ UNCHANGED <<attempt, session, dtmf, transmitting>>
  <2>1. CASE UNCHANGED <<pending_connect, next_attempt, phase>>
    BY <1>1, <1>4, <2>1
    DEF Safe, Types, TypeOK, NothingUnasked, Alive, PhaseHonest
  <2>2. CASE /\ pending_connect = None /\ next_attempt = 0
             /\ next_attempt' = None /\ Begin(connect_params)
    <3>1. connect_params \in Targets
      BY <2>2, NoneAssumption DEF Safe, Types, TypeOK, NothingUnasked
    <3>2. /\ pending_connect' = [to |-> connect_params, result |-> "open"]
          /\ phase' = "Connecting"
      BY <2>2 DEF Begin
    <3>3. pending_connect' \in Attempts \ {None}
      BY <3>1, <3>2, NoneAssumption DEF Attempts
    <3>4. connect_params # None
      BY <3>1, NoneAssumption
    <3> QED
      BY <1>1, <1>4, <2>2, <3>2, <3>3, <3>4
      DEF Safe, Types, TypeOK, Phases, NothingUnasked, Alive, PhaseHonest
  <2> QED
    BY <1>4, <2>1, <2>2 DEF NextAttempt
<1> QED
  BY <1>2, <1>3, <1>4 DEF Link

LEMMA ThreadEndsSafe == ASSUME Safe, ThreadEnds PROVE Safe'
<1>1. pending_connect \in Attempts
  BY DEF ThreadEnds, Safe, Types, TypeOK
<1>2. /\ radio \in {"ok", "failed", "hung"}
      /\ pending_connect' \in {[pending_connect EXCEPT !.result = radio],
                               [pending_connect EXCEPT !.result = "died"]}
  BY AnswersAssumption DEF ThreadEnds, Safe, Types
<1>3. pending_connect' \in Attempts
  BY <1>1, <1>2 DEF Attempts
<1>4. pending_connect' # None /\ pending_connect # None
  BY <1>1, <1>3, NoneAssumption
<1>5. Alive'
  BY <1>1, <1>2 DEF ThreadEnds, Alive, Attempts
<1> QED
  BY <1>3, <1>4, <1>5
  DEF ThreadEnds, workerVars, Safe, Types, TypeOK, NothingUnasked, PhaseHonest

LEMMA TimeSafe == ASSUME Safe, Time PROVE Safe'
<1>1. next_attempt' \in 0 .. Longest
  BY DelaysAssumption, NoneAssumption DEF Time, Safe, Types, TypeOK
<1>2. next_attempt' # None
  BY <1>1, NoneAssumption, DelaysAssumption
<1> QED
  BY <1>1, <1>2
  DEF Time, snapshotVars, Safe, Types, TypeOK, NothingUnasked, Alive,
      PhaseHonest

LEMMA OperatorSafe == ASSUME Safe, Operator PROVE Safe'
<1>1. Button \cup Others \subseteq Commands
  BY DEF Button, Others, Command, Commands, Plain
<1>2. cmds' \in Seq(Commands)
  BY <1>1 DEF Operator, Safe, Types
<1> QED
  BY <1>2
  DEF Operator, workerVars, Safe, Types, TypeOK, NothingUnasked, Alive,
      PhaseHonest

LEMMA SafeStep == ASSUME Safe, [Next]_vars PROVE Safe'
<1>1. CASE Look
  BY <1>1 DEF Look, workerVars, Safe, Types, TypeOK, NothingUnasked, Alive,
              PhaseHonest
<1>2. CASE RadioChanges
  BY <1>2 DEF RadioChanges, workerVars, Safe, Types, TypeOK, NothingUnasked,
              Alive, PhaseHonest
<1>3. CASE UNCHANGED vars
  BY <1>3 DEF vars, Safe, Types, TypeOK, NothingUnasked, Alive, PhaseHonest
<1> QED
  BY <1>1, <1>2, <1>3, HandleCmdSafe, DrainedSafe, PollPendingSafe, DtmfSafe,
     LinkSafe, ThreadEndsSafe, TimeSafe, OperatorSafe
  DEF Next, Loop

LEMMA AlwaysSafe == Spec => []Safe
BY InitSafe, SafeStep, PTL DEF Spec

(* Every variable keeps its type, and the delay never passes the longest.  *)
THEOREM ConnectionTypes == Spec => []TypeOK
<1>1. Safe => TypeOK
  BY DEF Safe, Types
<1> QED
  BY <1>1, AlwaysSafe, PTL

(* Nothing connects that was not asked for, also when threads die and      *)
(* radios hang.                                                            *)
THEOREM NothingConnectsUnasked == Spec => []NothingUnasked
<1>1. Safe => NothingUnasked
  BY DEF Safe
<1> QED
  BY <1>1, AlwaysSafe, PTL

(* The phase tells what goes on, as long as connect threads do not die.    *)
THEOREM PhaseIsHonest ==
  ASSUME ~ThreadsDie
  PROVE  Spec => []PhaseHonest
<1>1. Safe => PhaseHonest
  BY DEF Safe
<1> QED
  BY <1>1, AlwaysSafe, PTL

-----------------------------------------------------------------------------
(* An operator who waits for each act to show.                             *)

(* One command at a time, and a connect only where nothing is going on.    *)
OneAtATime ==
  /\ Len(cmds) =< 1
  /\ cmds # <<>> /\ Head(cmds).kind = "connect" => phase = "Disconnected"

(* So no attempt runs beside a session, and none was counted.              *)
NoneBeside == session # None => pending_connect = None /\ attempt = 0

(* Digits are left only for the session they were started on, or between   *)
(* its loss and the next pass.                                             *)
DigitsOwned ==
  /\ session # None => dtmf.left = 0 \/ dtmf.own
  /\ pending_connect # None \/ phase = "Disconnected" => dtmf.left = 0
  /\ at = "link" /\ session = None => dtmf.left = 0

Calm == ~hasty => OneAtATime /\ NoneBeside /\ DigitsOwned

SafeAndCalm == Safe /\ PhaseHonest /\ Calm

LEMMA CalmHandleCmd ==
  ASSUME SafeAndCalm, HandleCmd, ~hasty
  PROVE  Calm'
<1> DEFINE cmd == Head(cmds)
<1>1. cmds' = <<>> /\ Len(cmds') = 0 /\ at = "cmds" /\ at' = "cmds"
  <2>1. cmds \in Seq(Commands) /\ Len(cmds) =< 1 /\ cmds # <<>>
    BY DEF SafeAndCalm, Safe, Types, Calm, OneAtATime, HandleCmd
  <2>2. Tail(cmds) = <<>>
    BY <2>1
  <2> QED
    BY <2>2 DEF HandleCmd
<1>2. CASE cmd.kind = "connect" /\ Connect(cmd.to)
  <2>1. phase = "Disconnected"
    BY <1>2 DEF SafeAndCalm, Calm, OneAtATime, HandleCmd
  <2>2. session = None /\ dtmf.left = 0
    BY <2>1 DEF SafeAndCalm, Calm, PhaseHonest, DigitsOwned
  <2>3. session' = None /\ dtmf' = dtmf
    BY <1>2, <2>2 DEF Connect
  <2> QED
    BY <1>1, <2>2, <2>3 DEF Calm, OneAtATime, NoneBeside, DigitsOwned
<1>3. CASE Disconnect
  BY <1>1, <1>3
  DEF Disconnect, NoDtmf, Calm, OneAtATime, NoneBeside, DigitsOwned
<1>4. CASE /\ \/ Key(TRUE) \/ Key(FALSE) \/ StartDtmf \/ EmergencyStop
           /\ UNCHANGED <<connect_params, pending_connect, next_attempt, attempt>>
           /\ UNCHANGED snapshotVars
  <2>1. session' # None => session # None
    BY <1>4 DEF Key, StartDtmf, EmergencyStop
  <2>2. phase' = phase /\ pending_connect' = pending_connect
    BY <1>4 DEF snapshotVars
  <2>3. NoneBeside'
    BY <1>4, <2>1 DEF SafeAndCalm, Calm, NoneBeside
  <2>4. \/ dtmf' = dtmf
        \/ session # None /\ dtmf'.own
        \/ dtmf'.left = 0
    BY <1>4 DEF Key, StartDtmf, EmergencyStop, NoDtmf
  <2>5. DigitsOwned'
    BY <1>1, <2>1, <2>2, <2>4
    DEF SafeAndCalm, Calm, NoneBeside, DigitsOwned, PhaseHonest
  <2> QED
    BY <1>1, <2>3, <2>5 DEF Calm, OneAtATime
<1> QED
  BY <1>2, <1>3, <1>4 DEF HandleCmd

LEMMA CalmPollPending ==
  ASSUME SafeAndCalm, PollPending, ~hasty
  PROVE  Calm'
<1>1. cmds' = cmds /\ at' = "dtmf"
  BY DEF PollPending
<1>2. CASE UNCHANGED <<pending_connect, next_attempt, attempt, session, dtmf,
                       phase>>
  BY <1>1, <1>2
  DEF SafeAndCalm, Calm, OneAtATime, NoneBeside, DigitsOwned
<1>3. CASE pending_connect # None /\ pending_connect' = None
  <2>1. /\ phase # "Disconnected" /\ dtmf.left = 0 /\ session = None
        /\ ~(cmds # <<>> /\ Head(cmds).kind = "connect") /\ Len(cmds) =< 1
    BY <1>3
    DEF SafeAndCalm, Calm, OneAtATime, NoneBeside, DigitsOwned, PhaseHonest
  <2>2. CASE Installed
    <3>1. dtmf'.left = 0
      BY <2>1, <2>2, DtmfIs
      DEF Installed, Orphaned, SafeAndCalm, Sequences
    <3> QED
      BY <1>1, <1>3, <2>1, <2>2, <3>1
      DEF Installed, Calm, OneAtATime, NoneBeside, DigitsOwned
  <2>3. CASE Failed
    BY <1>1, <1>3, <2>1, <2>3
    DEF Failed, Calm, OneAtATime, NoneBeside, DigitsOwned
  <2>4. CASE UNCHANGED <<next_attempt, attempt, session, dtmf, phase>>
    BY <1>1, <1>3, <2>1, <2>4
    DEF Calm, OneAtATime, NoneBeside, DigitsOwned
  <2> QED
    BY <1>3, <2>2, <2>3, <2>4 DEF PollPending
<1> QED
  BY <1>2, <1>3 DEF PollPending, Result

LEMMA CalmDtmf ==
  ASSUME SafeAndCalm, Dtmf, ~hasty
  PROVE  Calm'
<1>1. UNCHANGED <<linkVars, snapshotVars, cmds>> /\ at' = "link"
  BY DEF Dtmf
<1>2. CASE session = None
  <2>1. dtmf'.left = 0
    BY <1>2 DEF Dtmf, NoDtmf
  <2> QED
    BY <1>1, <1>2, <2>1
    DEF linkVars, snapshotVars, SafeAndCalm, Calm, OneAtATime, NoneBeside,
        DigitsOwned
<1>3. CASE session # None
  <2>1. /\ dtmf.left = 0 => dtmf'.left = 0
        /\ dtmf'.own = dtmf.own
    BY <1>3, DtmfIs DEF Dtmf, SafeAndCalm, Sequences
  <2> QED
    BY <1>1, <1>3, <2>1
    DEF linkVars, snapshotVars, SafeAndCalm, Calm, OneAtATime, NoneBeside,
        DigitsOwned
<1> QED
  BY <1>2, <1>3

LEMMA CalmLink ==
  ASSUME SafeAndCalm, Link, ~hasty
  PROVE  Calm'
<1>1. cmds' = cmds /\ at' = "cmds"
  BY DEF Link
<1>2. CASE session # None /\ LinkLost
  <2>1. phase # "Disconnected" /\ connect_params # None /\ phase' = "Connecting"
    BY <1>2 DEF SafeAndCalm, PhaseHonest, Safe, NothingUnasked, LinkLost
  <2>2. session' = None /\ pending_connect' = None
    BY <1>2 DEF SafeAndCalm, Calm, NoneBeside, LinkLost
  <2> QED
    BY <1>1, <2>1, <2>2
    DEF SafeAndCalm, Calm, OneAtATime, NoneBeside, DigitsOwned
<1>3. CASE session # None /\ Serviced
  <2>1. /\ phase # "Disconnected" /\ phase' # "Disconnected"
        /\ UNCHANGED <<pending_connect, attempt, session, dtmf>>
    BY <1>3 DEF SafeAndCalm, PhaseHonest, Serviced
  <2> QED
    BY <1>1, <1>3, <2>1
    DEF SafeAndCalm, Calm, OneAtATime, NoneBeside, DigitsOwned
<1>4. CASE /\ session = None /\ NextAttempt
           /\ UNCHANGED <<attempt, session, dtmf, transmitting>>
  <2>1. dtmf'.left = 0 /\ session' = None
    BY <1>4 DEF Link, SafeAndCalm, Calm, DigitsOwned
  <2>2. phase = "Disconnected" => phase' = phase
    BY <1>4, NoneAssumption DEF SafeAndCalm, PhaseHonest, NextAttempt
  <2> QED
    BY <1>1, <2>1, <2>2
    DEF SafeAndCalm, Calm, OneAtATime, NoneBeside, DigitsOwned
<1> QED
  BY <1>2, <1>3, <1>4 DEF Link

LEMMA CalmOperator ==
  ASSUME SafeAndCalm, Operator, ~hasty
  PROVE  Calm'
<1>1. cmds = <<>> /\ seen = phase
  BY DEF Operator, Settled
<1>2. PICK cmd \in Button \cup Others : cmds' = Append(cmds, cmd)
  BY DEF Operator
<1>3. cmd \in Commands
  BY DEF Button, Others, Command, Commands, Plain
<1>4. Len(cmds') = 1 /\ Head(cmds') = cmd
  BY <1>1, <1>2, <1>3 DEF SafeAndCalm, Safe, Types
<1>5. cmd.kind = "connect" => phase = "Disconnected"
  BY <1>1 DEF Button, Others, Command
<1> QED
  BY <1>4, <1>5
  DEF Operator, workerVars, SafeAndCalm, Calm, OneAtATime, NoneBeside,
      DigitsOwned

LEMMA CalmStep ==
  ASSUME SafeAndCalm, [Next]_vars, ~ThreadsDie
  PROVE  SafeAndCalm'
<1>1. Safe' /\ PhaseHonest'
  BY SafeStep DEF SafeAndCalm, Safe
<1>2. hasty' = hasty
  BY DEF Next, Loop, HandleCmd, Drained, PollPending, Dtmf, Link, ThreadEnds,
         Time, Look, Operator, RadioChanges, vars
<1>3. CASE hasty
  BY <1>1, <1>2, <1>3 DEF SafeAndCalm, Calm
<1>4. CASE ~hasty
  <2> SUFFICES Calm'
    BY <1>1 DEF SafeAndCalm
  <2>1. CASE Drained
    BY <2>1 DEF Drained, linkVars, snapshotVars, SafeAndCalm, Calm, OneAtATime,
                NoneBeside, DigitsOwned
  <2>2. CASE ThreadEnds
    <3>1. pending_connect # None
      BY <2>2 DEF ThreadEnds
    <3> QED
      BY <2>2, <3>1
      DEF ThreadEnds, workerVars, SafeAndCalm, Calm, OneAtATime, NoneBeside,
          DigitsOwned
  <2>3. CASE Time
    BY <2>3 DEF Time, snapshotVars, SafeAndCalm, Calm, OneAtATime, NoneBeside,
                DigitsOwned
  <2>4. CASE Look \/ RadioChanges
    BY <2>4 DEF Look, RadioChanges, workerVars, SafeAndCalm, Calm, OneAtATime,
                NoneBeside, DigitsOwned
  <2>5. CASE UNCHANGED vars
    BY <2>5 DEF vars, SafeAndCalm, Calm, OneAtATime, NoneBeside, DigitsOwned
  <2> QED
    BY <1>4, <2>1, <2>2, <2>3, <2>4, <2>5, CalmHandleCmd, CalmPollPending,
       CalmDtmf, CalmLink, CalmOperator
    DEF Next, Loop
<1> QED
  BY <1>3, <1>4

LEMMA AlwaysCalm ==
  ASSUME ~ThreadsDie
  PROVE  Spec => []SafeAndCalm
<1>1. Init => SafeAndCalm
  BY InitSafe DEF Init, SafeAndCalm, Safe, PhaseHonest, Calm, OneAtATime,
                  NoneBeside, DigitsOwned, NoDtmf
<1> QED
  BY <1>1, CalmStep, PTL DEF Spec

(* The first retry after a loss comes after the shortest delay, for an     *)
(* operator who waits for each act to show.                                *)
THEOREM FirstRetryIsSoon ==
  ASSUME ~ThreadsDie
  PROVE  Spec => FirstRetrySoon
<1>1. ASSUME SafeAndCalm, [Next]_vars
      PROVE  [ (~hasty /\ Link /\ session # None /\ session' = None
                  /\ connect_params # None) => next_attempt' = Base ]_vars
  <2> SUFFICES ASSUME ~hasty, Link, session # None, session' = None,
                      connect_params # None
               PROVE  next_attempt' = Base
    OBVIOUS
  <2>1. attempt = 0
    BY <1>1 DEF SafeAndCalm, Calm, NoneBeside
  <2>2. Retry
    BY DEF Link, LinkLost, Serviced
  <2> QED
    BY <2>1, <2>2, FirstDelay DEF Retry
<1> QED
  BY <1>1, AlwaysCalm, PTL DEF Spec, FirstRetrySoon

(* A digit is sent only over the link its sequence was started on, for an  *)
(* operator who waits for each act to show.                                *)
THEOREM DtmfStaysOnItsLink ==
  ASSUME ~ThreadsDie
  PROVE  Spec => DtmfOnItsLink
<1>1. ASSUME SafeAndCalm, [Next]_vars
      PROVE  [ ~hasty /\ Dtmf /\ dtmf'.left < dtmf.left /\ session # None
                 => dtmf.own ]_vars
  <2> SUFFICES ASSUME ~hasty, Dtmf, dtmf'.left < dtmf.left, session # None
               PROVE  dtmf.own
    OBVIOUS
  <2>1. dtmf.left # 0
    BY <1>1, DtmfIs DEF Dtmf, SafeAndCalm, Sequences
  <2> QED
    BY <1>1, <2>1 DEF SafeAndCalm, Calm, DigitsOwned
<1> QED
  BY <1>1, AlwaysCalm, PTL DEF Spec, DtmfOnItsLink
=============================================================================
