---------------------------- MODULE StreamsProofs ----------------------------
(***************************************************************************)
(* Proofs about what comes and goes beside the session (StreamsMC): each   *)
(* part for any size of its constants.                                     *)
(***************************************************************************)
EXTENDS StreamsMC, Integers, FiniteSetTheorems, WellFoundedInduction, TLAPS

-----------------------------------------------------------------------------
(* A behaviour stays of its part.                                          *)
LEMMA PartStays ==
  ASSUME [Next]_vars
  PROVE  part' = part
BY Zenon DEF Next, vars

(* Of some numbers one is the least.                                       *)
LEMMA LeastIs ==
  ASSUME NEW some \in SUBSET Nat, some # {}
  PROVE  \E n \in some : \A m \in some : n <= m
<1>1. PICK n \in some : \A m \in some : ~(<<m, n>> \in OpToRel(<, Nat))
  BY NatLessThanWellFounded, WFMin
<1>2. ASSUME NEW m \in some
      PROVE  n <= m
  <2>1. m \in Nat /\ n \in Nat
    OBVIOUS
  <2>2. ~(m < n)
    BY <1>1, <2>1 DEF OpToRel
  <2> QED
    BY <2>1, <2>2
<1> QED
  BY <1>2

-----------------------------------------------------------------------------
(* The audio that is sent: TxAudioProofs, for the part of a behaviour.     *)
AP == INSTANCE TxAudioProofs

LEMMA TransmitsAlike ==
  (A!Init <=> AP!Init) /\ (A!Next <=> AP!Next)
BY Zenon
   DEF A!Init, A!Next, A!Capture, A!KeysFor, A!Unkeys, A!CatAudioOpens,
       A!CatAudioCloses, A!Service, A!Sources, A!Transmitting, A!Staled,
       A!Pushed, A!Source, A!FlushIsDue,
       AP!Init, AP!Next, AP!Capture, AP!KeysFor, AP!Unkeys, AP!CatAudioOpens,
       AP!CatAudioCloses, AP!Service, AP!Sources, AP!Transmitting, AP!Staled,
       AP!Pushed, AP!Source, AP!FlushIsDue

(* OnlyWhatWasMeant holds of every reachable state, for rings of any       *)
(* capacity: the comparison that decides the flush is enough, as long as   *)
(* no transmit ends and another begins between two passes.                 *)
THEOREM OnlyWhatWasMeantGoesOut ==
  ASSUME RingMax \in Nat \ {0}, ~Rekeys
  PROVE  Spec => []OnlyWhatWasMeant
<1> DEFINE Inv == part = "transmit" => AP!Safe
<1>1. Init => Inv
  BY AP!InitSafe, TransmitsAlike DEF Init
<1>2. ASSUME Inv, [Next]_vars PROVE Inv'
  <2> SUFFICES ASSUME part = "transmit", AP!Safe PROVE AP!Safe'
    BY <1>2, PartStays
  <2>1. AP!Next \/ UNCHANGED AP!vars
    BY <1>2, TransmitsAlike DEF Next, vars, transmitted, AP!vars
  <2> QED
    BY <2>1, AP!SafeStep
<1>3. Inv => OnlyWhatWasMeant
  BY DEF OnlyWhatWasMeant, A!OnlyWhatWasMeant, AP!Safe, AP!OnlyWhatWasMeant
<1> QED
  BY <1>1, <1>2, <1>3, PTL DEF Spec

-----------------------------------------------------------------------------
(* The reorder buffer.                                                     *)

(* What is assumed of its constants: the counter has two halves.           *)
Reorders ==
  /\ Numbers \in Nat /\ Numbers >= 2 /\ Capacity \in Nat \ {0}
  /\ None \notin Int

Ahead ==
  /\ next \in J!Counters \cup {None}
  /\ DOMAIN pending \subseteq J!Counters
  /\ next = None => DOMAIN pending = {}
  /\ \A c \in DOMAIN pending : J!Distance(c, next) < J!Half

Travels ==
  /\ counter \in J!Counters
  /\ \A f \in flight : f.counter \in J!Counters

Buffered == Ahead /\ Travels

LEMMA InitBuffered ==
  ASSUME Reorders, J!Init
  PROVE  Buffered
BY DEF Reorders, J!Init, Buffered, Ahead, Travels, J!Counters

LEMMA RadioBuffered ==
  ASSUME Reorders, Buffered,
         J!Send \/ J!Lose \/ \E c \in J!Counters : J!Restart(c)
  PROVE  Buffered'
<1>1. Ahead'
  BY DEF Buffered, Ahead, J!Send, J!Lose, J!Restart
<1>2. Travels'
  BY DEF Reorders, Buffered, Travels, J!Send, J!Lose, J!Restart, J!Counters,
         J!Plus1
<1> QED
  BY <1>1, <1>2 DEF Buffered

LEMMA PushBuffered ==
  ASSUME Reorders, Buffered, NEW f \in flight, J!Push(f)
  PROVE  Buffered'
<1>1. f.counter \in J!Counters
  BY DEF Buffered, Travels
<1>2. Travels'
  BY DEF Buffered, Travels, J!Push
<1>3. next' \in J!Counters /\ (next # None => next' = next)
  BY <1>1 DEF Buffered, Ahead, J!Push
<1>4. CASE pending' = pending
  <2>1. next = None => DOMAIN pending' = {}
    BY <1>4 DEF Buffered, Ahead
  <2> QED
    BY <1>2, <1>3, <1>4, <2>1 DEF Reorders, Buffered, Ahead, J!Counters
<1>5. CASE pending' # pending
  <2>1. /\ DOMAIN pending' = DOMAIN pending \cup {f.counter}
        /\ J!Distance(f.counter, next') < J!Half
    BY <1>1, <1>3, <1>5 DEF Reorders, J!Push, J!IsLate, J!Distance, J!Half, J!Counters
  <2>2. \A c \in DOMAIN pending' : J!Distance(c, next') < J!Half
    BY <1>3, <2>1 DEF Buffered, Ahead
  <2> QED
    BY <1>1, <1>2, <1>3, <2>1, <2>2 DEF Reorders, Buffered, Ahead, J!Counters
<1> QED
  BY <1>4, <1>5

LEMMA NearestIs ==
  ASSUME Reorders, Ahead, next # None, DOMAIN pending # {}
  PROVE  /\ J!Nearest \in DOMAIN pending
         /\ \A d \in DOMAIN pending :
              J!Distance(J!Nearest, next) <= J!Distance(d, next)
<1> DEFINE Distances == {J!Distance(c, next) : c \in DOMAIN pending}
<1>1. Distances \subseteq Nat /\ Distances # {}
  BY DEF Reorders, Ahead, J!Distance, J!Counters
<1>2. PICK n \in Distances : \A m \in Distances : <<m, n>> \notin OpToRel(<, Nat)
  BY <1>1, NatLessThanWellFounded, WFMin
<1>3. ASSUME NEW m \in Distances
      PROVE  n <= m
  <2>1. m \in Nat /\ n \in Nat
    BY <1>1, <1>2
  <2>2. ~(m < n)
    BY <1>2, <2>1 DEF OpToRel
  <2> QED
    BY <2>1, <2>2
<1>4. PICK c \in DOMAIN pending : n = J!Distance(c, next)
  BY <1>2
<1>5. \A d \in DOMAIN pending : J!Distance(c, next) <= J!Distance(d, next)
  BY <1>3, <1>4
<1> QED
  BY <1>5 DEF J!Nearest

LEMMA ReleaseBuffered ==
  ASSUME Reorders, Buffered, next # None, NEW c \in DOMAIN pending,
         \A d \in DOMAIN pending : J!Distance(c, next) <= J!Distance(d, next),
         J!Release(c), UNCHANGED <<counter, flight>>
  PROVE  Buffered'
<1>1. c \in J!Counters /\ next \in J!Counters
  BY DEF Buffered, Ahead
<1>2. next' = J!Plus1(c) /\ next' \in J!Counters
  BY <1>1 DEF Reorders, J!Release, J!Plus1, J!Counters
<1>3. DOMAIN pending' = DOMAIN pending \ {c}
  BY DEF J!Release
<1>4. ASSUME NEW d \in DOMAIN pending, d # c
      PROVE  J!Distance(d, next') < J!Half
  <2>1. d \in J!Counters /\ J!Distance(d, next) < J!Half
    BY DEF Buffered, Ahead
  <2>2. J!Distance(c, next) < J!Distance(d, next)
    BY <1>1, <1>4, <2>1 DEF Reorders, J!Distance, J!Counters
  <2> QED
    BY <1>1, <1>2, <2>1, <2>2
       DEF Reorders, J!Distance, J!Counters, J!Plus1, J!Half
<1> QED
  BY <1>2, <1>3, <1>4 DEF Reorders, Buffered, Ahead, Travels, J!Counters

LEMMA PassBuffered ==
  ASSUME Reorders, Buffered, J!Pass
  PROVE  Buffered'
<1>1. CASE J!PopExpected /\ UNCHANGED <<counter, flight>>
  <2>1. \A d \in DOMAIN pending : J!Distance(next, next) <= J!Distance(d, next)
    BY <1>1 DEF Reorders, J!PopExpected, Buffered, Ahead, J!Distance, J!Counters
  <2> QED
    BY <1>1, <2>1, ReleaseBuffered DEF J!PopExpected
<1>2. CASE J!Conceal /\ UNCHANGED <<counter, flight>>
  <2>1. DOMAIN pending # {}
    <3> SUFFICES ASSUME DOMAIN pending = {} PROVE FALSE
      OBVIOUS
    <3>1. Cardinality(DOMAIN pending) = 0
      BY FS_EmptySet, Zenon
    <3>2. Cardinality(DOMAIN pending) >= Capacity
      BY <1>2, Zenon DEF J!Conceal, J!Cardinality, Cardinality
    <3> QED
      BY <3>1, <3>2 DEF Reorders
  <2> QED
    BY <1>2, <2>1, NearestIs, ReleaseBuffered DEF J!Conceal, Buffered
<1>3. CASE UNCHANGED <<next, pending, counter, flight>>
  BY <1>3 DEF Buffered, Ahead, Travels
<1> QED
  BY <1>1, <1>2, <1>3 DEF J!Pass

(* WaitingIsAhead holds of every reachable state, for any size of the      *)
(* counter and of the buffer, and whatever the path loses, repeats and     *)
(* reorders: no frame stays behind to be taken for one a turn later.       *)
THEOREM WaitingIsAlwaysAhead ==
  ASSUME Reorders
  PROVE  Spec => []WaitingIsAhead
<1> DEFINE Inv == part = "receive" => Buffered
<1>1. Init => Inv
  BY InitBuffered DEF Init
<1>2. ASSUME Inv, [Next]_vars PROVE Inv'
  <2> SUFFICES ASSUME part = "receive", Buffered PROVE Buffered'
    BY <1>2, PartStays
  <2>1. CASE J!Next
    BY <2>1, RadioBuffered, PushBuffered, PassBuffered DEF J!Next
  <2>2. CASE UNCHANGED vars
    BY <2>2 DEF vars, received, Buffered, Ahead, Travels
  <2> QED
    BY <1>2, <2>1, <2>2 DEF Next
<1>3. Inv => WaitingIsAhead
  BY DEF Reorders, WaitingIsAhead, J!WaitingIsAhead, J!IsLate, Buffered, Ahead,
         J!Half, J!Distance, J!Counters
<1> QED
  BY <1>1, <1>2, <1>3, PTL DEF Spec

-----------------------------------------------------------------------------
(* The keychain.                                                           *)

Kept ==
  /\ url = None => token = None /\ keychain = None /\ writes \subseteq {None}
  /\ ~apart => /\ writes \subseteq {token}
               /\ writes = {} => keychain = token

(* KeychainFollows holds of every reachable state: only a thread that began *)
(* beside another, or a refusal, parts the keychain from the form, and the  *)
(* next write that stands alone heals it.                                   *)
THEOREM KeychainAlwaysFollows ==
  ASSUME None \notin Servers
  PROVE  Spec => []KeychainFollows
<1> DEFINE Inv == part = "keychain" => apart \in BOOLEAN /\ Kept
<1>1. Init => Inv
  BY DEF Init, K!Init, Kept
<1>2. ASSUME Inv, [Next]_vars PROVE Inv'
  <2> SUFFICES ASSUME part = "keychain", apart \in BOOLEAN, Kept
               PROVE  apart' \in BOOLEAN /\ Kept'
    BY <1>2, PartStays
  <2>1. CASE K!Next
    BY <2>1 DEF K!Next, K!UrlSave, K!TokenSave, K!TokenForget, K!Written,
                K!Refused, K!Restart, K!InBackground, Kept
  <2>2. CASE UNCHANGED vars
    BY <2>2 DEF vars, setup, chain, Kept
  <2> QED
    BY <1>2, <2>1, <2>2 DEF Next
<1>3. Inv => KeychainFollows
  BY DEF KeychainFollows, K!KeychainFollows, Kept
<1> QED
  BY <1>1, <1>2, <1>3, PTL DEF Spec
-----------------------------------------------------------------------------
(* The sources of spots.                                                   *)

(* What is assumed of the constants: the code's times, in units.           *)
Times ==
  /\ {First, Longest, Interval, Deadline, Requests, Slow} \subseteq Nat
  /\ None \notin Int

Waits == wait \in Nat /\ backoff \in Nat

(* The polled source: PolledSourceProofs.                                  *)
PP == INSTANCE PolledSourceProofs

LEMMA PolledAlike ==
  /\ P!Init <=> PP!Init
  /\ P!Next <=> PP!Next
  /\ P!vars = PP!vars
  /\ Times => PP!Times
  /\ PS!Init <=> PP!S!Init
  /\ PS!Next <=> PP!S!Next
  /\ PS!vars = PP!S!vars
<1>1. P!Init <=> PP!Init
  BY Zenon DEF P!Init, P!Number, PP!Init, PP!Number
<1>2. P!Next <=> PP!Next
  BY Zenon
     DEF P!Next, P!ThreadEnds, P!Answered, P!Failed, P!Start, P!Finish,
         P!FinishBadly, P!GiveUp, P!Poll, P!Tick, P!Outcomes, P!Number,
         P!S!Doubled,
         PP!Next, PP!ThreadEnds, PP!Answered, PP!Failed, PP!Start, PP!Finish,
         PP!FinishBadly, PP!GiveUp, PP!Poll, PP!Tick, PP!Outcomes, PP!Number,
         PP!S!Doubled
<1>3. P!vars = PP!vars
  BY Zenon DEF P!vars, PP!vars
<1>4. Times => PP!Times
  BY DEF Times, PP!Times
<1>5. (PS!Init <=> PP!S!Init) /\ PS!vars = PP!S!vars
  BY Zenon DEF PS!Init, PP!S!Init, PS!vars, PP!S!vars
<1>6. PS!Next <=> PP!S!Next
  BY Zenon
     DEF PS!Next, PS!Begin, PS!FailAtOnce, PS!Refuse, PS!Fail, PS!Enter,
         PS!Answer, PS!RetryNow, PS!Pass, PS!Doubled,
         PP!S!Next, PP!S!Begin, PP!S!FailAtOnce, PP!S!Refuse, PP!S!Fail,
         PP!S!Enter, PP!S!Answer, PP!S!RetryNow, PP!S!Pass, PP!S!Doubled
<1> QED
  BY <1>1, <1>2, <1>3, <1>4, <1>5, <1>6

LEMMA PolledKeepsItsWord ==
  ASSUME Times
  PROVE  /\ P!Init => PP!Safe /\ PS!Init
         /\ PP!Safe /\ [P!Next]_(P!vars) => PP!Safe' /\ [PS!Next]_(PS!vars)
<1>1. P!Init => PP!Safe /\ PS!Init
  BY PolledAlike, PP!InitSafe DEF P!Init, PS!Init
<1>2. ASSUME PP!Safe, [P!Next]_(P!vars)
      PROVE  PP!Safe' /\ [PS!Next]_(PS!vars)
  <2>1. [PP!Next]_(PP!vars)
    BY <1>2, PolledAlike DEF P!vars, PP!vars
  <2>2. PP!Safe' /\ [PP!S!Next]_(PP!S!vars)
    BY <1>2, <2>1, PolledAlike, PP!SafeStep, PP!KeepsItsWordStep
  <2> QED
    BY <2>2, PolledAlike DEF PS!vars, PP!S!vars
<1> QED
  BY <1>1, <1>2

-----------------------------------------------------------------------------
LEMMA LessIs ==
  ASSUME NEW n \in Nat, NEW spent \in Nat
  PROVE  /\ T!Less(n, spent) \in 0 .. n
         /\ T!Less(n, 1) = (IF n > 0 THEN n - 1 ELSE 0)
BY DEF T!Less

(* The telnet cluster.                                                     *)
Dials == Waits /\ conn \in {"none", "await", "streaming"}

LEMMA TelnetKeepsItsWord ==
  ASSUME Times
  PROVE  /\ T!Init => Dials /\ TS!Init
         /\ Dials /\ [T!Next]_(T!vars) => Dials' /\ [TS!Next]_(TS!vars)
<1>1. T!Init => Dials /\ TS!Init
  BY DEF Times, T!Init, Dials, Waits, TS!Init
<1> SUFFICES ASSUME Dials, [T!Next]_(T!vars)
             PROVE  Dials' /\ [TS!Next]_(TS!vars)
  BY <1>1
<1> USE DEF Dials, Waits
<1>2. /\ T!S!Doubled(backoff) = TS!Doubled(backoff)
      /\ TS!Doubled(backoff) \in Nat
  BY DEF Times, T!S!Doubled, TS!Doubled
<1>3. CASE T!Failed /\ conn # "none"
  <2>1. TS!Fail /\ Dials'
    BY <1>2, <1>3 DEF T!Failed, TS!Fail
  <2> QED
    BY <2>1 DEF TS!Next
<1>4. CASE UNCHANGED <<conn, wait, backoff>>
  BY <1>4 DEF TS!vars
<1>5. CASE T!SettingsUnusable
  <2>1. TS!Refuse /\ Dials'
    BY <1>5 DEF Times, T!SettingsUnusable, T!NotConnected, TS!Refuse
  <2> QED
    BY <2>1 DEF TS!Next
<1>6. ASSUME NEW spent \in {0, Slow}, T!ConnectFails(spent)
      PROVE  Dials' /\ [TS!Next]_(TS!vars)
  <2>1. wait' \in 0 .. backoff
    BY <1>6, LessIs DEF Times, T!ConnectFails
  <2>2. TS!FailAtOnce /\ Dials'
    BY <1>2, <1>6, <2>1 DEF T!ConnectFails, T!NotConnected, TS!FailAtOnce
  <2> QED
    BY <2>2 DEF TS!Next
<1>7. ASSUME NEW spent \in {0, Slow}, T!Connects(spent)
      PROVE  Dials' /\ [TS!Next]_(TS!vars)
  <2>1. TS!Begin /\ Dials'
    BY <1>7 DEF T!Connects, T!NotConnected, T!BackoffOfConnection, TS!Begin
  <2> QED
    BY <2>1 DEF TS!Next
<1>8. ASSUME NEW n \in 0 .. Len(arrived), T!Login(n)
      PROVE  Dials' /\ [TS!Next]_(TS!vars)
  <2>1. TS!Enter /\ Dials'
    BY <1>8 DEF Times, T!Login, T!Reads, TS!Enter
  <2> QED
    BY <2>1 DEF TS!Next
<1>9. CASE T!Tick
  <2>1. wait' = (IF wait > 0 THEN wait - 1 ELSE 0) /\ UNCHANGED <<conn, backoff>>
    BY <1>9, LessIs DEF T!Tick
  <2>2. CASE wait > 0
    <3>1. TS!Pass /\ Dials'
      BY <2>1, <2>2 DEF TS!Pass
    <3> QED
      BY <3>1 DEF TS!Next
  <2>3. CASE wait = 0
    BY <1>4, <2>1, <2>3
  <2> QED
    BY <2>2, <2>3
<1>10. ASSUME NEW n \in 0 .. Len(arrived), T!NoPrompt(n) \/ T!Streams(n)
       PROVE  Dials' /\ [TS!Next]_(TS!vars)
  <2>1. (T!Failed /\ conn # "none") \/ UNCHANGED <<conn, wait, backoff>>
    BY <1>10 DEF T!NoPrompt, T!Streams, T!Reads
  <2> QED
    BY <1>3, <1>4, <2>1
<1>11. CASE T!Dropped \/ T!ServerCloses \/ (\E kind \in T!Kinds : T!ServerSends(kind))
            \/ UNCHANGED T!vars
  <2>1. (T!Failed /\ conn # "none") \/ UNCHANGED <<conn, wait, backoff>>
    BY <1>11 DEF T!Dropped, T!ServerCloses, T!ServerSends, T!vars
  <2> QED
    BY <1>3, <1>4, <2>1
<1> QED
  BY <1>5, <1>6, <1>7, <1>8, <1>9, <1>10, <1>11 DEF T!Next, T!Poll

-----------------------------------------------------------------------------
(* PSK Reporter.  Logged in, the back-off is the first one, so that a      *)
(* second acknowledgement changes nothing.                                 *)
Logged ==
  /\ Waits /\ conn \in {"none", "await", "streaming"}
  /\ conn = "streaming" => backoff = First

LEMMA MqttKeepsItsWord ==
  ASSUME Times
  PROVE  /\ M!Init => Logged /\ TS!Init
         /\ Logged /\ [M!Next]_(M!vars) => Logged' /\ [TS!Next]_(TS!vars)
<1>1. M!Init => Logged /\ TS!Init
  BY DEF Times, M!Init, Logged, Waits, TS!Init
<1> SUFFICES ASSUME Logged, [M!Next]_(M!vars)
             PROVE  Logged' /\ [TS!Next]_(TS!vars)
  BY <1>1
<1> USE DEF Logged, Waits
<1>2. /\ M!S!Doubled(backoff) = TS!Doubled(backoff)
      /\ TS!Doubled(backoff) \in Nat
  BY DEF Times, M!S!Doubled, TS!Doubled
<1>3. CASE M!Failed /\ conn # "none"
  <2>1. TS!Fail /\ Logged'
    BY <1>2, <1>3 DEF M!Failed, TS!Fail
  <2> QED
    BY <2>1 DEF TS!Next
<1>4. CASE UNCHANGED <<conn, wait, backoff>>
  BY <1>4 DEF TS!vars
<1>5. CASE M!SettingsUnusable
  <2>1. TS!Refuse /\ Logged'
    BY <1>5 DEF Times, M!SettingsUnusable, M!NotConnected, TS!Refuse
  <2> QED
    BY <2>1 DEF TS!Next
<1>6. ASSUME NEW spent \in {0, Slow}, M!ConnectFails(spent)
      PROVE  Logged' /\ [TS!Next]_(TS!vars)
  <2>1. wait' \in 0 .. backoff
    BY <1>6 DEF Times, M!ConnectFails, M!Less
  <2>2. TS!FailAtOnce /\ Logged'
    BY <1>2, <1>6, <2>1 DEF M!ConnectFails, M!NotConnected, TS!FailAtOnce
  <2> QED
    BY <2>2 DEF TS!Next
<1>7. ASSUME NEW spent \in {0, Slow}, M!Connects(spent)
      PROVE  Logged' /\ [TS!Next]_(TS!vars)
  <2>1. TS!Begin /\ Logged'
    BY <1>7 DEF M!Connects, M!NotConnected, TS!Begin
  <2> QED
    BY <2>1 DEF TS!Next
<1>8. CASE M!RetryNow
  <2>1. TS!RetryNow /\ Logged'
    BY <1>8 DEF Times, M!RetryNow, TS!RetryNow
  <2> QED
    BY <2>1 DEF TS!Next
<1>9. CASE M!Tick
  <2>1. /\ wait' = (IF wait > 0 THEN wait - 1 ELSE 0)
        /\ UNCHANGED <<conn, backoff>>
    BY <1>9 DEF M!Tick, M!Less
  <2>2. CASE wait > 0
    <3>1. TS!Pass /\ Logged'
      BY <2>1, <2>2 DEF TS!Pass
    <3> QED
      BY <3>1 DEF TS!Next
  <2>3. CASE wait = 0
    BY <1>4, <2>1, <2>3
  <2> QED
    BY <2>2, <2>3
<1>10. ASSUME NEW n \in 0 .. Len(arrived), M!Service(n)
       PROVE  Logged' /\ [TS!Next]_(TS!vars)
  <2> DEFINE ack == M!Has(SubSeq(arrived, 1, n), "ack")
  <2>1. \/ M!Failed /\ conn # "none"
        \/ /\ conn # "none" /\ wait' = wait
           /\ conn' = IF conn = "streaming" \/ ack THEN "streaming" ELSE conn
           /\ backoff' = IF ack THEN First ELSE backoff
    BY <1>10 DEF M!Service
  <2> HIDE DEF ack
  <2>2. CASE conn = "await" /\ ack /\ ~M!Failed
    <3>1. TS!Enter /\ Logged'
      BY <2>1, <2>2 DEF Times, TS!Enter
    <3> QED
      BY <3>1 DEF TS!Next
  <2> QED
    BY <1>3, <1>4, <2>1, <2>2
<1>11. CASE \/ M!Dropped \/ M!BrokerCloses \/ UNCHANGED M!vars
            \/ \E said \in UNION {M!Answers(op) : op \in {"connect", "subscribe", "ping"}} :
                 M!BrokerReads(said)
            \/ \E topics \in SUBSET Topics : M!SetTopics(topics)
  <2>1. (M!Failed /\ conn # "none") \/ UNCHANGED <<conn, wait, backoff>>
    BY <1>11 DEF M!Dropped, M!BrokerCloses, M!BrokerReads, M!SetTopics, M!vars
  <2> QED
    BY <1>3, <1>4, <2>1
<1> QED
  BY <1>5, <1>6, <1>7, <1>8, <1>9, <1>10, <1>11 DEF M!Next, M!Poll

-----------------------------------------------------------------------------
(* FreeDV Reporter.  What handling the packets of a poll comes to is       *)
(* defined by recursion over them: that the recursion has a solution, and  *)
(* that a session that is live stays so, are shown by the packet that      *)
(* would be the first not to.                                              *)
Phases == {"upgrade", "open", "connect", "live"}

Packets ==
  [op : {"upgrade", "open", "ack", "bulk", "change", "leave", "ping", "bye", "junk"},
   who : SUBSET Stations, placed : SUBSET Stations]

Met ==
  /\ Waits /\ conn \in Phases \cup {"none"}
  /\ roster \in [Stations -> F!Status]
  /\ arrived \in Seq(Packets)
  /\ conn = "live" => backoff = First

(* What handling may come to, for the phase it began in.                   *)
Handleds ==
  {c \in [phase : Phases, roster : [Stations -> F!Status], ok : BOOLEAN] :
     conn = "live" => c.phase = "live"}

Began == [phase |-> conn, roster |-> roster, ok |-> TRUE]
Handles(f, n, read) ==
  f = [i \in 0 .. n |->
         IF i = 0 THEN Began
         ELSE IF f[i - 1].ok THEN F!Handled(f[i - 1], read[i]) ELSE f[i - 1]]

LEMMA HandledType ==
  ASSUME NEW c \in Handleds, NEW p
  PROVE  F!Handled(c, p) \in Handleds
<1> DEFINE C == [phase : Phases, roster : [Stations -> F!Status], ok : BOOLEAN]
<1>1. /\ c \in C /\ (conn = "live" => c.phase = "live")
      /\ c.roster \in [Stations -> F!Status]
  BY DEF Handleds
<1>2. F!Applied(c.roster, p) \in [Stations -> F!Status]
  <2>1. \A s \in Stations : c.roster[s] \in F!Status
    BY <1>1
  <2> QED
    BY <2>1 DEF F!Applied, F!Status
<1>3. [c EXCEPT !.ok = FALSE] \in Handleds
  BY <1>1 DEF Handleds
<1>4. \A q \in Phases : (conn = "live" => q = "live") => [c EXCEPT !.phase = q] \in Handleds
  BY <1>1 DEF Handleds
<1>5. [c EXCEPT !.roster = F!Applied(c.roster, p)] \in Handleds
  BY <1>1, <1>2 DEF Handleds
<1> QED
  BY <1>1, <1>3, <1>4, <1>5 DEF F!Handled, Phases

LEMMA HandlingExists ==
  ASSUME NEW read, NEW n \in Nat
  PROVE  \E f : Handles(f, n, read)
<1> DEFINE Bad == {m \in Nat : ~ \E f : Handles(f, m, read)}
<1> SUFFICES ASSUME Bad # {} PROVE FALSE
  OBVIOUS
<1>1. PICK m \in Bad : \A k \in Bad : ~(<<k, m>> \in OpToRel(<, Nat))
  BY NatLessThanWellFounded, WFMin
<1>2. m # 0
  <2>1. Handles([i \in 0 .. 0 |-> Began], 0, read)
    BY DEF Handles
  <2> QED
    BY <2>1
<1>3. PICK g : Handles(g, m - 1, read)
  <2>1. m - 1 \in Nat /\ <<m - 1, m>> \in OpToRel(<, Nat)
    BY <1>2 DEF OpToRel
  <2> QED
    BY <1>1, <2>1
<1> DEFINE last_ == IF g[m - 1].ok THEN F!Handled(g[m - 1], read[m]) ELSE g[m - 1]
           f == [i \in 0 .. m |-> IF i = m THEN last_ ELSE g[i]]
<1>4. Handles(f, m, read)
  <2> SUFFICES ASSUME NEW i \in 0 .. m
               PROVE  f[i] = IF i = 0 THEN Began
                             ELSE IF f[i - 1].ok THEN F!Handled(f[i - 1], read[i])
                             ELSE f[i - 1]
    BY DEF Handles
  <2>1. CASE i = m
    <3>1. f[i - 1] = g[i - 1] /\ f[i] = last_
      BY <1>2, <2>1
    <3> QED
      BY <1>2, <2>1, <3>1
  <2>2. CASE i # m
    <3>1. i \in 0 .. m - 1 /\ f[i] = g[i]
      BY <2>2
    <3>2. i # 0 => f[i - 1] = g[i - 1]
      BY <2>2
    <3> HIDE DEF f
    <3> QED
      BY <1>3, <3>1, <3>2 DEF Handles
  <2> QED
    BY <2>1, <2>2
<1> QED
  BY <1>4

LEMMA HandlesType ==
  ASSUME NEW read, NEW n \in Nat, NEW f, Handles(f, n, read), Began \in Handleds
  PROVE  f[n] \in Handleds
<1> DEFINE Bad == {i \in 0 .. n : f[i] \notin Handleds}
<1> SUFFICES ASSUME Bad # {} PROVE FALSE
  OBVIOUS
<1>1. PICK i \in Bad : \A k \in Bad : ~(<<k, i>> \in OpToRel(<, Nat))
  <2>1. Bad \subseteq Nat
    OBVIOUS
  <2> QED
    BY <2>1, NatLessThanWellFounded, WFMin
<1>2. i # 0
  BY DEF Handles
<1>3. f[i - 1] \in Handleds
  <2>1. i - 1 \in 0 .. n /\ <<i - 1, i>> \in OpToRel(<, Nat)
    BY <1>2 DEF OpToRel
  <2> QED
    BY <1>1, <2>1
<1>4. f[i] = IF f[i - 1].ok THEN F!Handled(f[i - 1], read[i]) ELSE f[i - 1]
  BY <1>2 DEF Handles
<1> QED
  BY <1>3, <1>4, HandledType

LEMMA HandlingType ==
  ASSUME NEW read, Len(read) \in Nat, Began \in Handleds
  PROVE  F!Handling(read) \in Handleds
<1> DEFINE f == CHOOSE f : Handles(f, Len(read), read)
<1>1. Handles(f, Len(read), read)
  BY HandlingExists
<1>2. f[Len(read)] \in Handleds
  BY <1>1, HandlesType
<1>3. F!Handling(read) = f[Len(read)]
  BY DEF F!Handling, Handles, Began
<1> QED
  BY <1>2, <1>3

LEMMA ArrivedType ==
  ASSUME Met, [F!Next]_(F!vars)
  PROVE  arrived' \in Seq(Packets)
<1> USE DEF Met
<1>1. CASE UNCHANGED arrived
  BY <1>1
<1>2. ASSUME NEW p \in Packets, arrived' = Append(arrived, p)
      PROVE  arrived' \in Seq(Packets)
  BY <1>2
<1>3. CASE F!Greets
  <2>1. PICK op \in {"upgrade", "open", "ack", "bulk"}, who \in SUBSET Stations,
             placed \in SUBSET Stations :
          arrived' = Append(arrived, [op |-> op, who |-> who, placed |-> placed])
    <3>1. /\ {} \in SUBSET Stations
          /\ {s \in Stations : there[s] # "absent"} \in SUBSET Stations
          /\ F!Placed(F!Nobody) \in SUBSET Stations
          /\ F!Placed(there) \in SUBSET Stations
      BY DEF F!Placed
    <3> HIDE DEF Met
    <3> QED
      BY <1>3, <3>1, Zenon DEF F!Greets, F!Pushes
  <2>2. [op |-> op, who |-> who, placed |-> placed] \in Packets
    BY DEF Packets
  <2> QED
    BY <1>2, <2>1, <2>2
<1>4. ASSUME NEW op \in {"ping", "bye", "junk"}, F!Says(op)
      PROVE  arrived' \in Seq(Packets)
  <2> DEFINE placed == F!Placed(IF session = "told" THEN there ELSE F!Nobody)
  <2>1. placed \in SUBSET Stations
    BY DEF F!Placed
  <2>2. arrived' = Append(arrived, [op |-> op, who |-> {}, placed |-> placed])
    BY <1>4 DEF F!Says, F!Pushes
  <2> HIDE DEF placed
  <2>3. [op |-> op, who |-> {}, placed |-> placed] \in Packets
    BY <2>1 DEF Packets
  <2> QED
    BY <1>2, <2>2, <2>3
<1>5. ASSUME NEW s \in Stations, NEW to \in F!Status, F!Moves(s, to)
      PROVE  arrived' \in Seq(Packets)
  <2> DEFINE placed == F!Placed(there')
             op == IF to = "absent" THEN "leave" ELSE "change"
  <2>1. placed \in SUBSET Stations
    BY DEF F!Placed
  <2>2. \/ arrived' = Append(arrived, [op |-> op, who |-> {s}, placed |-> placed])
        \/ UNCHANGED arrived
    BY <1>5 DEF F!Moves, F!Pushes
  <2> HIDE DEF placed
  <2>3. [op |-> op, who |-> {s}, placed |-> placed] \in Packets
    BY <2>1 DEF Packets
  <2> QED
    BY <1>1, <1>2, <2>2, <2>3
<1>6. CASE arrived' = <<>>
  BY <1>6
<1>7. ASSUME NEW n \in 0 .. Len(arrived), F!Reads(n)
      PROVE  arrived' \in Seq(Packets)
  <2>1. SubSeq(arrived, n + 1, Len(arrived)) \in Seq(Packets)
    OBVIOUS
  <2>2. arrived' = <<>> \/ arrived' = SubSeq(arrived, n + 1, Len(arrived))
    BY <1>7 DEF F!Reads, F!Failed
  <2> QED
    BY <1>6, <2>1, <2>2
<1>8. CASE F!ServiceCloses \/ F!RetryNow \/ F!SettingsUnusable \/ F!Dropped
           \/ F!Tick \/ UNCHANGED F!vars
           \/ \E spent \in {0, Slow} : F!ConnectFails(spent) \/ F!Connects(spent)
  BY <1>1, <1>6, <1>8
     DEF F!ServiceCloses, F!RetryNow, F!SettingsUnusable, F!Dropped, F!Failed,
         F!Tick, F!ConnectFails, F!Connects, F!Service, F!vars
<1> QED
  BY <1>3, <1>4, <1>5, <1>7, <1>8 DEF F!Next, F!Poll

LEMMA FreeDvKeepsItsWord ==
  ASSUME Times
  PROVE  /\ F!Init => Met /\ FS!Init
         /\ Met /\ [F!Next]_(F!vars) => Met' /\ [FS!Next]_(FS!vars)
<1>0. F!Nobody \in [Stations -> F!Status]
  BY DEF F!Nobody, F!Status
<1>1. F!Init => Met /\ FS!Init
  BY <1>0 DEF Times, F!Init, Met, Waits, FS!Init
<1> SUFFICES ASSUME Met, [F!Next]_(F!vars)
             PROVE  Met' /\ [FS!Next]_(FS!vars)
  BY <1>1
<1>a. arrived' \in Seq(Packets)
  BY ArrivedType
<1> USE DEF Waits
<1>2. /\ F!S!Doubled(backoff) = FS!Doubled(backoff)
      /\ FS!Doubled(backoff) \in Nat
  BY DEF Times, Met, F!S!Doubled, FS!Doubled
<1>3. CASE F!Failed /\ conn # "none"
  <2>1. FS!Fail /\ Met'
    BY <1>0, <1>2, <1>3, <1>a DEF Met, F!Failed, F!LeftOver, FS!Fail
  <2> QED
    BY <2>1 DEF FS!Next
<1>4. CASE UNCHANGED <<conn, wait, backoff, roster>>
  BY <1>4, <1>a DEF Met, FS!vars
<1>5. CASE F!SettingsUnusable
  <2>1. FS!Refuse /\ Met'
    BY <1>5, <1>a DEF Times, Met, F!SettingsUnusable, F!NotConnected, FS!Refuse
  <2> QED
    BY <2>1 DEF FS!Next
<1>6. ASSUME NEW spent \in {0, Slow}, F!ConnectFails(spent)
      PROVE  Met' /\ [FS!Next]_(FS!vars)
  <2>1. wait' \in 0 .. backoff
    BY <1>6 DEF Times, Met, F!ConnectFails, F!Less
  <2>2. FS!FailAtOnce /\ Met'
    BY <1>0, <1>2, <1>6, <1>a, <2>1
       DEF Met, F!ConnectFails, F!NotConnected, FS!FailAtOnce
  <2> QED
    BY <2>2 DEF FS!Next
<1>7. ASSUME NEW spent \in {0, Slow}, F!Connects(spent)
      PROVE  Met' /\ [FS!Next]_(FS!vars)
  <2>1. FS!Begin /\ Met'
    BY <1>7, <1>a DEF Met, Phases, F!Connects, F!NotConnected, FS!Begin
  <2> QED
    BY <2>1 DEF FS!Next
<1>8. CASE F!RetryNow
  <2>1. FS!RetryNow /\ Met'
    BY <1>8, <1>a DEF Times, Met, F!RetryNow, FS!RetryNow
  <2> QED
    BY <2>1 DEF FS!Next
<1>9. CASE F!Tick
  <2>1. /\ wait' = (IF wait > 0 THEN wait - 1 ELSE 0)
        /\ UNCHANGED <<conn, backoff, roster>>
    BY <1>9 DEF Met, F!Tick, F!Less
  <2>2. CASE wait > 0
    <3>1. FS!Pass /\ Met'
      BY <1>a, <2>1, <2>2 DEF Met, FS!Pass
    <3> QED
      BY <3>1 DEF FS!Next
  <2>3. CASE wait = 0
    BY <1>4, <2>1, <2>3
  <2> QED
    BY <2>2, <2>3 DEF Met
<1>10. ASSUME NEW n \in 0 .. Len(arrived), F!Reads(n)
       PROVE  Met' /\ [FS!Next]_(FS!vars)
  <2> DEFINE h == F!Handling(SubSeq(arrived, 1, n))
             fresh == conn # "live" /\ h.phase = "live"
  <2>1. conn # "none"
    BY <1>10 DEF F!Reads
  <2>2. h \in Handleds
    <3>1. Len(SubSeq(arrived, 1, n)) \in Nat
      BY DEF Met
    <3>2. Began \in Handleds
      BY <2>1 DEF Met, Began, Handleds
    <3> QED
      BY <3>1, <3>2, HandlingType
  <2>3. \/ F!Failed
        \/ /\ conn' = h.phase /\ roster' = h.roster /\ wait' = wait
           /\ backoff' = IF fresh THEN First ELSE backoff
    BY <1>10 DEF F!Reads
  <2>4. /\ h.phase \in Phases /\ h.roster \in [Stations -> F!Status]
        /\ conn = "live" => h.phase = "live"
    BY <2>2 DEF Handleds
  <2> HIDE DEF h
  <2>5. CASE ~F!Failed /\ fresh
    <3>1. FS!Enter /\ Met'
      BY <1>a, <2>1, <2>3, <2>4, <2>5 DEF Times, Met, FS!Enter
    <3> QED
      BY <3>1 DEF FS!Next
  <2>6. CASE ~F!Failed /\ ~fresh
    BY <1>a, <2>1, <2>3, <2>4, <2>6 DEF Met, Phases, FS!vars
  <2> QED
    BY <1>3, <2>1, <2>5, <2>6
<1>11. CASE \/ F!Dropped \/ F!ServiceCloses \/ F!Greets \/ UNCHANGED F!vars
            \/ \E op \in {"ping", "bye", "junk"} : F!Says(op)
            \/ \E s \in Stations, to \in F!Status : F!Moves(s, to)
  <2>1. (F!Failed /\ conn # "none") \/ UNCHANGED <<conn, wait, backoff, roster>>
    BY <1>11
       DEF F!Dropped, F!ServiceCloses, F!Greets, F!Says, F!Moves, F!client, F!vars
  <2> QED
    BY <1>3, <1>4, <2>1
<1> QED
  BY <1>5, <1>6, <1>7, <1>8, <1>9, <1>10, <1>11 DEF F!Next, F!Poll

-----------------------------------------------------------------------------
Promise ==
  /\ part = "polled" => [PS!Next]_(PS!vars)
  /\ part \in {"telnet", "mqtt"} => [TS!Next]_(TS!vars)
  /\ part = "freedv" => [FS!Next]_(FS!vars)

(* SourcesKeepTheirWord: each of the four kinds of source implements       *)
(* SpotSource, for any times, topics, stations and number of requests.     *)
THEOREM SourcesKeepTheirs ==
  ASSUME Times
  PROVE  Spec => SourcesKeepTheirWord
<1> DEFINE Inv == /\ part = "polled" => PP!Safe
                  /\ part = "telnet" => Dials
                  /\ part = "mqtt" => Logged
                  /\ part = "freedv" => Met
           Starts == /\ part = "polled" => PS!Init
                     /\ part \in {"telnet", "mqtt"} => TS!Init
                     /\ part = "freedv" => FS!Init
<1>1. Init => Inv /\ Starts
  BY PolledKeepsItsWord, TelnetKeepsItsWord, MqttKeepsItsWord, FreeDvKeepsItsWord
     DEF Init
<1>2. ASSUME Inv, [Next]_vars PROVE Inv' /\ Promise
  <2>1. part' = part
    BY <1>2, PartStays
  <2>2. /\ part = "polled" => [P!Next]_(P!vars)
        /\ part = "telnet" => [T!Next]_(T!vars)
        /\ part = "mqtt" => [M!Next]_(M!vars)
        /\ part = "freedv" => [F!Next]_(F!vars)
    BY <1>2
       DEF Next, vars, attempt, polling, line, telnet, mqtt, freedv,
           P!vars, T!vars, M!vars, M!link, F!vars
  <2>3. CASE part = "polled"
    BY <1>2, <2>1, <2>2, <2>3, PolledKeepsItsWord DEF Promise
  <2>4. CASE part = "telnet"
    BY <1>2, <2>1, <2>2, <2>4, TelnetKeepsItsWord DEF Promise
  <2>5. CASE part = "mqtt"
    BY <1>2, <2>1, <2>2, <2>5, MqttKeepsItsWord DEF Promise
  <2>6. CASE part = "freedv"
    BY <1>2, <2>1, <2>2, <2>6, FreeDvKeepsItsWord DEF Promise
  <2>7. CASE part \notin {"polled", "telnet", "mqtt", "freedv"}
    BY <2>1, <2>7 DEF Promise
  <2> QED
    BY <2>3, <2>4, <2>5, <2>6, <2>7
<1> HIDE DEF Inv, Starts
<1>3. Spec => Starts /\ [][Promise]_vars
  BY <1>1, <1>2, PTL DEF Spec
<1> QED
  BY <1>3 DEF SourcesKeepTheirWord, Promise, Starts
-----------------------------------------------------------------------------
(* The logging form: what waits, is looked up and was answered went to the *)
(* server its token was entered for.                                       *)
Belongs ==
  {r \in [key : Keys, server : Servers, token : [n : Nat, of : Servers]] :
     r.token.of = r.server}

Formed ==
  /\ url \in Servers \cup {None} /\ typed \in Nat
  /\ key \in Keys \cup {None}
  /\ token # None => token \in [n : Nat, of : Servers] /\ token.of = url
  /\ requests \in Seq(Belongs)
  /\ looking # None => looking \in Belongs
  /\ answer # None => answer.to \in Belongs

LEMMA InitFormed ==
  ASSUME L!Init
  PROVE  Formed
BY DEF L!Init, Formed

LEMMA SettingsFormed ==
  ASSUME Formed, None \notin Belongs,
         \/ \E s \in Servers : L!UrlSave(s)
         \/ L!TokenSave \/ L!TokenForget \/ L!Test
         \/ \E lists \in BOOLEAN : L!TestEnds(lists)
         \/ \E k \in Keys \cup {None} : L!Typed(k)
         \/ \E k \in Keys : L!RadioMoves(k)
         \/ L!Settles
  PROVE  Formed' /\ requests' = requests
<1>1. UNCHANGED <<requests, looking, answer>>
  BY DEF L!UrlSave, L!TokenSave, L!TokenForget, L!Test, L!TestEnds, L!Typed,
         L!RadioMoves, L!Settles, L!thread
<1>2. /\ url' \in Servers \cup {None} /\ typed' \in Nat
      /\ key' \in Keys \cup {None}
      /\ token' # None => token' \in [n : Nat, of : Servers] /\ token'.of = url'
  BY DEF Formed, L!UrlSave, L!TokenSave, L!TokenForget, L!Test, L!TestEnds,
         L!Typed, L!RadioMoves, L!Settles, L!settings, L!form
<1> QED
  BY <1>1, <1>2 DEF Formed

(* A tick asks only while no refusal has come.                             *)
LEMMA TickFormed ==
  ASSUME Formed, None \notin Belongs, L!Tick
  PROVE  /\ Formed'
         /\ requests' # requests =>
              /\ requests'[Len(requests')] \in Belongs
              /\ answer # None => answer.is # "refused"
<1>1. UNCHANGED <<url, token, typed, key, looking, answer>>
  BY DEF L!Tick, L!form
<1>2. CASE UNCHANGED requests
  BY <1>1, <1>2 DEF Formed
<1>3. CASE L!IsDue
  <2> DEFINE r == [key |-> key, server |-> url, token |-> token]
  <2>1. r \in Belongs
    BY <1>3 DEF L!IsDue, L!Ready, Formed, Belongs
  <2>2. requests' = Append(requests, r)
    BY <1>3 DEF L!Tick, L!LookupTick
  <2>3. answer # None => answer.is # "refused"
    BY <1>3 DEF L!IsDue, L!Off, Formed
  <2> HIDE DEF r
  <2>4. requests' \in Seq(Belongs) /\ requests'[Len(requests')] = r
    BY <2>1, <2>2 DEF Formed
  <2> QED
    BY <1>1, <2>1, <2>3, <2>4 DEF Formed
<1> QED
  BY <1>2, <1>3 DEF L!Tick, L!LookupTick

LEMMA ThreadFormed ==
  ASSUME Formed, None \notin Belongs,
         \/ L!LooksUp
         \/ \E is \in {"found", "failed", "refused"} : L!Answered(is)
  PROVE  Formed' /\ Len(requests') <= Len(requests)
<1>1. UNCHANGED <<url, token, typed, key>>
  BY DEF L!LooksUp, L!Answered, L!settings, L!form
<1>2. CASE L!LooksUp
  <2>1. requests[Len(requests)] \in Belongs
    BY <1>2 DEF L!LooksUp, Formed
  <2>2. looking' \in Belongs /\ requests' = <<>> /\ answer' = answer
    BY <1>2, <2>1 DEF L!LooksUp, L!Last
  <2> QED
    BY <1>1, <2>2 DEF Formed
<1>3. ASSUME NEW is \in {"found", "failed", "refused"}, L!Answered(is)
      PROVE  Formed' /\ Len(requests') <= Len(requests)
  BY <1>1, <1>3 DEF L!Answered, Formed
<1> QED
  BY <1>2, <1>3

(* DeadTokenRests holds of every step, for any servers, keys and tokens: a *)
(* lookup goes where its token was entered for, and none is asked once a   *)
(* refusal has come.                                                       *)
THEOREM DeadTokenAlwaysRests ==
  ASSUME None \notin Belongs
  PROVE  Spec => DeadTokenRests
<1> DEFINE Inv == part = "form" => Formed
           Rests ==
             (part = "form" /\ Len(requests') > Len(requests)) =>
               LET r == requests'[Len(requests')]
               IN  /\ r.token.of = r.server
                   /\ (answer # None /\ answer.is = "refused")
                        => r.token # answer.to.token
<1>1. Init => Inv
  BY InitFormed DEF Init
<1>2. ASSUME Inv, [Next]_vars PROVE Inv' /\ Rests
  <2> SUFFICES ASSUME part = "form", Formed PROVE Formed' /\ Rests
    BY <1>2, PartStays
  <2>1. Len(requests) \in Nat
    BY DEF Formed
  <2>2. CASE UNCHANGED <<url, typed, key, token, requests, looking, answer>>
    BY <2>1, <2>2 DEF Formed
  <2>3. CASE L!Next
    BY <2>1, <2>3, SettingsFormed, TickFormed, ThreadFormed DEF L!Next, Belongs
  <2> QED
    BY <1>2, <2>2, <2>3 DEF Next, vars, form, setup
<1> QED
  BY <1>1, <1>2, PTL DEF Spec, DeadTokenRests
-----------------------------------------------------------------------------
(* The worker of the spot networks.                                        *)

Chosen == Settings \cup {None}
Commands ==
  [of : {"configure"}, value : [W!Networks -> Chosen]]
    \cup [of : {"window"}, value : Windows \cup {None}]
    \cup [of : {"propagation"}, value : Counted \cup {None}]

Orders == {"configure", "window", "propagation"}

(* The last command of each kind that waits is what the window sent last.  *)
Unasked(k) == \A i \in 1 .. Len(commands) : commands[i].of # k
LastIsWish(k) ==
  \A i \in 1 .. Len(commands) :
    commands[i].of = k /\ (\A j \in i + 1 .. Len(commands) : commands[j].of # k)
      => commands[i].value = wish[k]

Sent ==
  /\ commands \in Seq(Commands)
  /\ wish \in [configure : [W!Networks -> Chosen], window : Windows \cup {None},
               propagation : Counted \cup {None}]
  /\ \A k \in Orders : LastIsWish(k)

(* With none of a kind waiting, the worker is as the window sent it last.  *)
Applied ==
  /\ Unasked("configure") => \A n \in W!Networks : slots[n].cfg = wish.configure[n]
  /\ Unasked("window") => window = wish.window
  /\ Unasked("propagation") => counted = wish.propagation

Run ==
  /\ slots \in [W!Networks -> [cfg : Chosen, state : {"none", "down", "login", "up"},
                               window : Windows \cup {None}, error : BOOLEAN]]
  /\ window \in Windows \cup {None}
  /\ failing \subseteq W!Networks
  /\ \A n \in W!Networks :
       /\ slots[n].cfg = None => slots[n].state = "none"
       /\ slots[n].cfg # None => slots[n].window = window
       /\ n \in failing => slots[n].error = TRUE

Shown ==
  /\ at \in 0 .. W!AtRest
  /\ cache \in [current : BOOLEAN, value : Counted \cup {None}]
  /\ counted \in Counted \cup {None}
  /\ cache.current = TRUE => cache.value = counted
  /\ at = W!AtRest =>
       /\ \A n \in W!Networks :
            /\ published.slots[n].state = slots[n].state
            /\ published.slots[n].error = slots[n].error
       /\ published.bands = counted

Fed == Sent /\ Applied /\ Run /\ Shown

LEMMA InitFed ==
  ASSUME Slots \in Nat, W!Init
  PROVE  Fed
<1>1. Sent /\ Applied
  BY DEF W!Init, Sent, Applied, LastIsWish, Chosen, W!Off
<1>2. Run
  BY DEF W!Init, Run, Chosen, W!Off
<1>3. Shown
  BY DEF W!Init, Shown, W!AtRest
<1> QED
  BY <1>1, <1>2, <1>3 DEF Fed

LEMMA SendsFed ==
  ASSUME Slots \in Nat, Fed, NEW what \in Orders, NEW value,
         [of |-> what, value |-> value] \in Commands,
         W!SendsCommand(what, value)
  PROVE  Fed'
<1> DEFINE c == [of |-> what, value |-> value]
<1>1. /\ commands' = Append(commands, c) /\ c \in Commands
      /\ c.of = what /\ c.value = value
      /\ wish' = [wish EXCEPT ![what] = value]
      /\ UNCHANGED <<at, slots, window, counted, cache, published, failing>>
  BY DEF W!SendsCommand
<1> HIDE DEF c
<1>2. commands \in Seq(Commands)
  BY DEF Fed, Sent
<1>3. /\ commands' \in Seq(Commands) /\ Len(commands') = Len(commands) + 1
      /\ commands'[Len(commands) + 1] = c
      /\ \A i \in 1 .. Len(commands) : commands'[i] = commands[i]
  BY <1>1, <1>2
<1>4. /\ wish' \in [configure : [W!Networks -> Chosen], window : Windows \cup {None},
                    propagation : Counted \cup {None}]
      /\ wish'[what] = value
      /\ \A k \in Orders : k # what => wish'[k] = wish[k]
  BY <1>1 DEF Fed, Sent, Orders, Commands
<1>5. ASSUME NEW k \in Orders
      PROVE  LastIsWish(k)'
  <2> SUFFICES ASSUME NEW i \in 1 .. Len(commands'), commands'[i].of = k,
                      \A j \in i + 1 .. Len(commands') : commands'[j].of # k
               PROVE  commands'[i].value = wish'[k]
    BY DEF LastIsWish
  <2>1. CASE i = Len(commands) + 1
    BY <1>1, <1>3, <1>4, <2>1
  <2>2. CASE i # Len(commands) + 1
    <3>1. /\ i \in 1 .. Len(commands) /\ Len(commands) + 1 \in i + 1 .. Len(commands')
          /\ \A j \in i + 1 .. Len(commands) : j \in i + 1 .. Len(commands')
      BY <1>2, <1>3, <2>2
    <3>2. k # what
      BY <1>1, <1>3, <3>1
    <3>3. \A j \in i + 1 .. Len(commands) : commands[j].of # k
      BY <1>2, <1>3, <3>1
    <3>4. commands[i].value = wish[k]
      BY <1>3, <3>1, <3>3 DEF Fed, Sent, LastIsWish
    <3> QED
      BY <1>3, <1>4, <3>1, <3>2, <3>4
  <2> QED
    BY <2>1, <2>2
<1>6. ASSUME NEW k \in Orders, Unasked(k)'
      PROVE  Unasked(k) /\ wish'[k] = wish[k]
  BY <1>1, <1>2, <1>3, <1>4, <1>6 DEF Unasked
<1>7. Sent'
  BY <1>3, <1>4, <1>5 DEF Sent
<1>8. Applied'
  <2>1. {"configure", "window", "propagation"} = Orders
    BY DEF Orders
  <2>2. Unasked("configure")' => Unasked("configure") /\ wish'.configure = wish.configure
    BY <1>6, <2>1
  <2>3. Unasked("window")' => Unasked("window") /\ wish'.window = wish.window
    BY <1>6, <2>1
  <2>4. Unasked("propagation")' => Unasked("propagation") /\ wish'.propagation = wish.propagation
    BY <1>6, <2>1
  <2> QED
    BY <1>1, <2>2, <2>3, <2>4 DEF Fed, Applied
<1>9. Run' /\ Shown'
  BY <1>1 DEF Fed, Run, Shown
<1> QED
  BY <1>7, <1>8, <1>9 DEF Fed

LEMMA TakesFed ==
  ASSUME Slots \in Nat, Fed, W!TakesCommand
  PROVE  Fed'
<1> DEFINE c == Head(commands)
<1>1. /\ at = 0 /\ commands # <<>> /\ commands' = Tail(commands)
      /\ UNCHANGED <<wish, at, published>>
  BY DEF W!TakesCommand
<1>2. /\ commands \in Seq(Commands) /\ Len(commands) \in Nat \ {0}
      /\ commands' \in Seq(Commands) /\ Len(commands') = Len(commands) - 1
      /\ \A i \in 1 .. Len(commands') : commands'[i] = commands[i + 1]
      /\ c = commands[1] /\ c \in Commands
  BY <1>1 DEF Fed, Sent
<1>3. \/ c.of = "configure" /\ W!TakesConfigure(c.value)
      \/ c.of = "window" /\ W!TakesWindow(c.value)
      \/ c.of = "propagation" /\ W!TakesPropagation(c.value)
  BY DEF W!TakesCommand
<1> HIDE DEF c
<1>4. ASSUME NEW k \in Orders
      PROVE  LastIsWish(k)'
  <2> SUFFICES ASSUME NEW i \in 1 .. Len(commands'), commands'[i].of = k,
                      \A j \in i + 1 .. Len(commands') : commands'[j].of # k
               PROVE  commands'[i].value = wish'[k]
    BY DEF LastIsWish
  <2>1. i + 1 \in 1 .. Len(commands) /\ commands[i + 1].of = k
    BY <1>2
  <2>2. ASSUME NEW j \in (i + 1) + 1 .. Len(commands)
        PROVE  commands[j].of # k
    <3>1. j - 1 \in i + 1 .. Len(commands') /\ j - 1 \in 1 .. Len(commands')
      BY <1>2
    <3>2. commands'[j - 1] = commands[j]
      BY <1>2, <3>1
    <3> QED
      BY <3>1, <3>2
  <2>3. commands[i + 1].value = wish[k]
    BY <2>1, <2>2 DEF Fed, Sent, LastIsWish
  <2> QED
    BY <1>1, <1>2, <2>3
<1>5. ASSUME NEW k \in Orders, Unasked(k)'
      PROVE  IF c.of = k THEN c.value = wish[k] ELSE Unasked(k)
  <2>1. ASSUME NEW j \in 2 .. Len(commands)
        PROVE  commands[j].of # k
    <3>1. j - 1 \in 1 .. Len(commands')
      BY <1>2
    <3>2. commands'[j - 1] = commands[j]
      BY <1>2, <3>1
    <3> QED
      BY <1>5, <3>1, <3>2 DEF Unasked
  <2>2. CASE c.of = k
    <3>1. 1 \in 1 .. Len(commands) /\ commands[1].of = k
      BY <1>2, <2>2
    <3>2. \A j \in 1 + 1 .. Len(commands) : commands[j].of # k
      BY <2>1
    <3>3. commands[1].value = wish[k]
      BY <3>1, <3>2 DEF Fed, Sent, LastIsWish
    <3> QED
      BY <1>2, <2>2, <3>3
  <2>3. CASE c.of # k
    BY <1>2, <2>1, <2>3 DEF Unasked
  <2> QED
    BY <2>2, <2>3
<1>6. Sent'
  BY <1>1, <1>2, <1>4 DEF Fed, Sent
<1>7. /\ Unasked("configure")' =>
           IF c.of = "configure" THEN c.value = wish.configure ELSE Unasked("configure")
      /\ Unasked("window")' =>
           IF c.of = "window" THEN c.value = wish.window ELSE Unasked("window")
      /\ Unasked("propagation")' =>
           IF c.of = "propagation" THEN c.value = wish.propagation
           ELSE Unasked("propagation")
  BY <1>5 DEF Orders
<1>8. at' # W!AtRest
  BY <1>1 DEF W!AtRest
<1>9. CASE c.of = "configure" /\ W!TakesConfigure(c.value)
  <2>1. c.value \in [W!Networks -> Chosen]
    BY <1>2, <1>9 DEF Commands
  <2>2. /\ slots' = [n \in W!Networks |->
                       IF slots[n].cfg = c.value[n] THEN slots[n]
                       ELSE IF c.value[n] = None THEN W!Off ELSE W!Started(c.value[n])]
        /\ failing' = {n \in failing : slots[n].cfg = c.value[n]}
        /\ UNCHANGED <<window, counted, cache>>
    BY <1>9 DEF W!TakesConfigure
  <2>3. \A n \in W!Networks :
          /\ slots'[n].cfg = c.value[n]
          /\ slots'[n] \in [cfg : Chosen, state : {"none", "down", "login", "up"},
                            window : Windows \cup {None}, error : BOOLEAN]
          /\ slots'[n].cfg = None => slots'[n].state = "none"
          /\ slots'[n].cfg # None => slots'[n].window = window
          /\ n \in failing' => slots'[n].error = TRUE
    BY <2>1, <2>2 DEF Fed, Run, W!Off, W!Started, Chosen
  <2>4. Run'
    BY <2>2, <2>3 DEF Fed, Run
  <2>5. Applied'
    BY <1>1, <1>7, <1>9, <2>2, <2>3 DEF Fed, Applied
  <2> QED
    BY <1>1, <1>6, <1>8, <2>2, <2>4, <2>5 DEF Fed, Shown
<1>10. CASE c.of = "window" /\ W!TakesWindow(c.value)
  <2>1. c.value \in Windows \cup {None}
    BY <1>2, <1>10 DEF Commands
  <2>2. /\ slots' = [n \in W!Networks |->
                       IF slots[n].cfg = None THEN slots[n]
                       ELSE [slots[n] EXCEPT !.window = c.value]]
        /\ window' = c.value /\ UNCHANGED <<counted, cache, failing>>
    BY <1>10 DEF W!TakesWindow
  <2>3. Run'
    BY <2>1, <2>2 DEF Fed, Run
  <2>4. \A n \in W!Networks : slots'[n].cfg = slots[n].cfg
    BY <2>2 DEF Fed, Run
  <2>5. Applied'
    BY <1>1, <1>7, <1>10, <2>2, <2>4 DEF Fed, Applied
  <2> QED
    BY <1>1, <1>6, <1>8, <2>2, <2>3, <2>5 DEF Fed, Shown
<1>11. CASE c.of = "propagation" /\ W!TakesPropagation(c.value)
  <2>1. c.value \in Counted \cup {None}
    BY <1>2, <1>11 DEF Commands
  <2>2. /\ counted' = c.value /\ cache' = [cache EXCEPT !.current = FALSE]
        /\ UNCHANGED <<slots, window, failing>>
    BY <1>11 DEF W!TakesPropagation
  <2>3. Shown'
    BY <1>1, <1>8, <2>1, <2>2 DEF Fed, Shown
  <2>4. Applied'
    BY <1>1, <1>7, <1>11, <2>2 DEF Fed, Applied
  <2> QED
    BY <1>6, <2>2, <2>3, <2>4 DEF Fed, Run
<1> QED
  BY <1>3, <1>9, <1>10, <1>11

LEMMA PassFed ==
  ASSUME Slots \in Nat, Fed,
         \/ W!NoneWaits \/ W!Publish \/ W!Rests \/ W!NextSecond
         \/ \E n \in W!Networks : W!Polls(n)
  PROVE  Fed'
<1>1. UNCHANGED <<wish, commands, window, counted>>
  BY DEF W!NoneWaits, W!Publish, W!Rests, W!NextSecond, W!Polls
<1>2. Sent' /\ (\A k \in Orders : Unasked(k)' <=> Unasked(k))
  BY <1>1 DEF Fed, Sent, LastIsWish, Unasked
<1>3. CASE UNCHANGED <<slots, failing>>
  <2>1. Applied' /\ Run'
    BY <1>1, <1>2, <1>3 DEF Fed, Applied, Run, Unasked
  <2>2. Shown'
    <3>1. CASE W!Publish
      <4>1. cache' \in [current : BOOLEAN, value : Counted \cup {None}]
            /\ cache'.value = counted
        BY <3>1 DEF W!Publish, Fed, Shown
      <4>2. at' \in 0 .. W!AtRest
        BY <3>1 DEF W!Publish, W!AtRest
      <4> QED
        BY <1>1, <1>3, <3>1, <4>1, <4>2 DEF W!Publish, Shown, Fed
    <3>2. CASE W!NoneWaits \/ W!Rests
      BY <1>1, <1>3, <3>2 DEF W!NoneWaits, W!Rests, Fed, Shown, W!AtRest
    <3>3. CASE W!NextSecond
      BY <1>1, <1>3, <3>3 DEF W!NextSecond, Fed, Shown
    <3>4. ASSUME NEW n \in W!Networks, W!Polls(n)
          PROVE  Shown'
      BY <1>1, <1>3, <3>4 DEF W!Polls, Fed, Shown, W!AtRest, W!Networks
    <3> QED
      BY <3>1, <3>2, <3>3, <3>4
  <2> QED
    BY <1>2, <2>1, <2>2 DEF Fed
<1>4. ASSUME NEW n \in W!Networks, W!Polls(n)
      PROVE  Fed'
  <2>1. \A m \in W!Networks :
          slots'[m].cfg = slots[m].cfg /\ slots'[m].window = slots[m].window
    BY <1>4 DEF W!Polls, Fed, Run
  <2>2. Applied'
    BY <1>1, <1>2, <2>1 DEF Fed, Applied, Orders
  <2>3. at' \in 0 .. W!AtRest /\ at' # W!AtRest /\ cache' = cache
    BY <1>4 DEF W!Polls, W!AtRest, W!Networks
  <2>4. Shown'
    BY <1>1, <2>3 DEF Fed, Shown
  <2>5. CASE slots' = [slots EXCEPT ![n].state = "down", ![n].error = TRUE]
             /\ failing' = failing \cup {n} /\ slots[n].cfg # None
    <3> Run'
      BY <1>1, <2>5 DEF Fed, Run
    <3> QED
      BY <1>2, <2>2, <2>4 DEF Fed
  <2>6. ASSUME NEW state \in {"down", "login", "up"}, slots[n].cfg # None,
               slots' = [slots EXCEPT ![n].state = state,
                                      ![n].error = W!ErrorAfter(@, state)],
               failing' = IF state = "up" THEN failing \ {n} ELSE failing
        PROVE  Fed'
    <3> DEFINE e == W!ErrorAfter(slots[n].error, state)
    <3>1. e \in BOOLEAN /\ (slots[n].error = TRUE /\ state # "up" => e = TRUE)
      BY DEF W!ErrorAfter
    <3> HIDE DEF e
    <3> DEFINE new == [[slots[n] EXCEPT !.state = state] EXCEPT !.error = e]
    <3>2. slots' = [slots EXCEPT ![n] = new]
      BY <2>6 DEF Fed, Run, e
    <3>0. /\ new \in [cfg : Chosen, state : {"none", "down", "login", "up"},
                     window : Windows \cup {None}, error : BOOLEAN]
          /\ new.error = e
      <4>1. slots[n] \in [cfg : Chosen, state : {"none", "down", "login", "up"},
                         window : Windows \cup {None}, error : BOOLEAN]
        BY DEF Fed, Run
      <4>2. state \in {"none", "down", "login", "up"}
        OBVIOUS
      <4> QED
        BY <3>1, <4>1, <4>2
    <3> HIDE DEF new
    <3>3. slots' \in [W!Networks ->
                        [cfg : Chosen, state : {"none", "down", "login", "up"},
                         window : Windows \cup {None}, error : BOOLEAN]]
      BY <3>0, <3>2 DEF Fed, Run
    <3>8. slots'[n].error = e
      BY <3>0, <3>2 DEF Fed, Run
    <3>9. \A m \in W!Networks : m # n => slots'[m] = slots[m]
      BY <3>2 DEF Fed, Run
    <3>4. failing' \subseteq W!Networks /\ (n \in failing' => e = TRUE)
          /\ \A m \in failing' : m # n => m \in failing
      BY <2>6, <3>1 DEF Fed, Run
    <3>5. \A m \in W!Networks :
            /\ slots'[m].cfg = None => slots'[m].state = "none"
            /\ slots'[m].cfg # None => slots'[m].window = window
      BY <2>1, <2>6, <3>9 DEF Fed, Run
    <3>6. \A m \in W!Networks : m \in failing' => slots'[m].error = TRUE
      BY <3>4, <3>8, <3>9 DEF Fed, Run
    <3>7. Run'
      BY <1>1, <3>3, <3>4, <3>5, <3>6 DEF Fed, Run
    <3> QED
      BY <1>2, <2>2, <2>4, <3>7 DEF Fed
  <2> QED
    BY <1>3, <1>4, <2>5, <2>6 DEF W!Polls
<1>5. ~(\E n \in W!Networks : W!Polls(n)) => UNCHANGED <<slots, failing>>
  BY DEF W!NoneWaits, W!Publish, W!Rests, W!NextSecond
<1> QED
  BY <1>3, <1>4, <1>5

(* PublishesWhatIs holds of every reachable state, for any number of       *)
(* networks, settings and commands that wait, in whichever order they came.*)
THEOREM AlwaysPublishesWhatIs ==
  ASSUME Slots \in Nat
  PROVE  Spec => []PublishesWhatIs
<1> DEFINE Inv == part = "feed" => Fed
<1>1. Init => Inv
  BY InitFed DEF Init
<1>2. ASSUME Inv, [Next]_vars PROVE Inv'
  <2> SUFFICES ASSUME part = "feed", Fed PROVE Fed'
    BY <1>2, PartStays
  <2>1. CASE W!Next
    <3>1. ASSUME NEW cfgs \in [W!Networks -> Settings \cup {None}],
                 W!SendsCommand("configure", cfgs)
          PROVE  Fed'
      <4>1. [of |-> "configure", value |-> cfgs] \in Commands /\ "configure" \in Orders
        BY DEF Commands, Chosen, Orders
      <4> QED
        BY <3>1, <4>1, SendsFed
    <3>2. ASSUME NEW w \in Windows, W!SendsCommand("window", w)
          PROVE  Fed'
      <4>1. [of |-> "window", value |-> w] \in Commands /\ "window" \in Orders
        BY DEF Commands, Orders
      <4> QED
        BY <3>2, <4>1, SendsFed
    <3>3. ASSUME NEW networks \in Counted, W!SendsCommand("propagation", networks)
          PROVE  Fed'
      <4>1. [of |-> "propagation", value |-> networks] \in Commands
            /\ "propagation" \in Orders
        BY DEF Commands, Orders
      <4> QED
        BY <3>3, <4>1, SendsFed
    <3> QED
      BY <2>1, <3>1, <3>2, <3>3, TakesFed, PassFed DEF W!Next
  <2>2. CASE UNCHANGED feed
    BY <2>2 DEF feed, Fed, Sent, Applied, Run, Shown, LastIsWish, Unasked
  <2> QED
    BY <1>2, <2>1, <2>2 DEF Next, vars
<1>3. Inv => PublishesWhatIs
  <2> SUFFICES ASSUME Fed, at = W!AtRest, commands = <<>>
               PROVE  /\ \A n \in W!Networks :
                           /\ slots[n].cfg = wish.configure[n]
                           /\ slots[n].cfg # None => slots[n].window = wish.window
                           /\ n \in failing => published.slots[n].error
                           /\ slots[n].cfg = None => published.slots[n].state = "none"
                      /\ published.bands = wish.propagation
    BY DEF PublishesWhatIs, W!PublishesWhatIs
  <2>1. Unasked("configure") /\ Unasked("window") /\ Unasked("propagation")
    BY DEF Unasked
  <2> QED
    BY <2>1 DEF Fed, Applied, Run, Shown
<1> QED
  BY <1>1, <1>2, <1>3, PTL DEF Spec
-----------------------------------------------------------------------------
(* What a source delivers is its own.                                      *)

(* Polled: what is delivered came before the request in hand.              *)
LEMMA PolledDeliversItsOwn ==
  ASSUME Times, PP!Safe
  PROVE  P!NoLateAnswer
<1>1. /\ job # None => job = asked /\ job \in Nat /\ sunk # job
      /\ sunk # None => sunk \in Nat /\ sunk <= asked
      /\ sunk \notin given_up
  BY PolledAlike DEF PP!Safe, PP!TypeOK, PP!InHand, PP!Number, PP!Times
<1> QED
  BY <1>1 DEF P!NoLateAnswer

(* Telnet: nothing is handed on before the one login of a connection.      *)
LoggedInOnce ==
  /\ conn \in {"none", "await", "streaming"}
  /\ early = FALSE
  /\ conn = "streaming" => logins = 1
  /\ conn = "await" => logins = 0

LEMMA TelnetDeliversItsOwn ==
  /\ T!Init => LoggedInOnce
  /\ LoggedInOnce /\ [T!Next]_(T!vars) => LoggedInOnce'
  /\ LoggedInOnce => T!LoginThenSpots
<1>1. T!Init => LoggedInOnce
  BY DEF T!Init, LoggedInOnce
<1>2. ASSUME LoggedInOnce, [T!Next]_(T!vars) PROVE LoggedInOnce'
  <2> USE DEF LoggedInOnce
  <2>1. CASE T!Failed
    BY <1>2, <2>1 DEF T!Failed
  <2>2. ASSUME NEW n, T!Reads(n) PROVE early' = FALSE
    BY <1>2, <2>2 DEF T!Reads, T!HandedOn
  <2>3. ASSUME NEW n, T!Login(n) PROVE LoggedInOnce'
    <3>1. /\ conn' = "streaming" /\ logins' = 1
          /\ early' = (early \/ (T!HandedOn(T!Prefix(arrived, n)) /\ conn = "await"))
      BY <1>2, <2>3 DEF T!Login, T!Reads
    <3> QED
      BY <1>2, <3>1 DEF T!HandedOn
  <2>4. ASSUME NEW n, T!NoPrompt(n) \/ T!Streams(n) PROVE LoggedInOnce'
    BY <1>2, <2>1, <2>2, <2>4 DEF T!NoPrompt, T!Streams
  <2>5. ASSUME NEW spent, T!ConnectFails(spent) \/ T!Connects(spent)
        PROVE  LoggedInOnce'
    BY <1>2, <2>5 DEF T!ConnectFails, T!Connects
  <2>6. CASE T!SettingsUnusable \/ T!ServerCloses \/ T!Tick \/ UNCHANGED T!vars
             \/ \E kind \in T!Kinds : T!ServerSends(kind)
    BY <1>2, <2>6
       DEF T!SettingsUnusable, T!ServerCloses, T!Tick, T!vars, T!ServerSends
  <2> QED
    BY <1>2, <2>1, <2>3, <2>4, <2>5, <2>6 DEF T!Next, T!Poll, T!Dropped
<1>3. LoggedInOnce => T!LoginThenSpots
  BY DEF LoggedInOnce, T!LoginThenSpots
<1> QED
  BY <1>1, <1>2, <1>3

(* FreeDV.  A stage is how far the session is: a packet takes it from one  *)
(* to the next, and from what was placed before it to what it says is.     *)
PhaseOf(stage) ==
  CASE stage = 0 -> "upgrade" [] stage = 1 -> "open" [] stage = 2 -> "connect"
    [] OTHER -> "live"
StageOf(s) ==
  CASE s = "asked" -> 0 [] s = "upgraded" -> 1 [] s = "opened" -> 2
    [] s = "acked" -> 3 [] OTHER -> 4

Follows(before, placed, p, after) ==
  /\ after < 4 => p.placed = {}
  /\ \/ p.op = "upgrade" /\ before = 0 /\ after = 1
     \/ p.op = "open" /\ before = 1 /\ after = 2
     \/ p.op = "ack" /\ before = 2 /\ after = 3
     \/ p.op = "bulk" /\ before = 3 /\ after = 4 /\ p.placed \subseteq p.who
     \/ /\ p.op \in {"change", "leave"} /\ before = 4 /\ after = 4
        /\ p.placed \ p.who = placed \ p.who
        /\ p.op = "leave" => p.placed \cap p.who = {}
     \/ p.op \in {"ping", "bye", "junk"} /\ after = before /\ p.placed = placed

Seen(i) == IF i = 0 THEN told ELSE arrived[i].placed

Chain(g) ==
  /\ g \in [0 .. Len(arrived) -> 0 .. 4]
  /\ conn = PhaseOf(g[0])
  /\ g[0] < 4 => told = {}
  /\ \A i \in 1 .. Len(arrived) : Follows(g[i - 1], Seen(i - 1), arrived[i], g[i])
  /\ g[Len(arrived)] = StageOf(session)
  /\ ~closed /\ session = "told" => Seen(Len(arrived)) = F!Placed(there)

Told ==
  /\ Met /\ quiet \in Int /\ there \in [Stations -> F!Status]
  /\ session \in {"asked", "upgraded", "opened", "acked", "told"}
  /\ F!Placed(roster) = told
  /\ conn # "live" => roster = F!Nobody
  /\ conn = "none" => session = "asked" /\ arrived = <<>> /\ told = {}
  /\ conn # "none" => \E g : Chain(g)
  /\ restamped => quiet <= Watchdog

LEMMA NobodyPlaced == F!Placed(F!Nobody) = {}
BY DEF F!Placed, F!Nobody

(* What is pushed extends the chain.                                       *)
LEMMA PushedChains ==
  ASSUME Told, Met', conn # "none", NEW p \in Packets,
         arrived' = Append(arrived, p), UNCHANGED <<conn, told, closed>>,
         Follows(StageOf(session), Seen(Len(arrived)), p, StageOf(session')),
         session' = "told" => p.placed = F!Placed(there)'
  PROVE  \E g : Chain(g)'
<1>1. PICK g : Chain(g)
  BY DEF Told
<1>2. arrived \in Seq(Packets)
  BY DEF Told, Met
<1>0. PICK n \in Nat : n = Len(arrived)
  BY <1>2
<1>3. Len(arrived') = n + 1 /\ arrived'[n + 1] = p
      /\ \A i \in 1 .. n : arrived'[i] = arrived[i]
  BY <1>0, <1>2
<1>4. \A i \in 0 .. n : Seen(i)' = Seen(i)
  BY <1>3 DEF Seen
<1>5. Seen(n + 1)' = p.placed
  BY <1>3 DEF Seen
<1>7. StageOf(session') \in 0 .. 4 /\ g \in [0 .. n -> 0 .. 4]
  BY <1>0, <1>1 DEF StageOf, Chain
<1>8. PICK h \in [0 .. n + 1 -> 0 .. 4] :
        /\ \A i \in 0 .. n : h[i] = g[i]
        /\ h[n + 1] = StageOf(session')
  <2> DEFINE e == [i \in 0 .. n + 1 |-> IF i = n + 1 THEN StageOf(session') ELSE g[i]]
  <2>1. e \in [0 .. n + 1 -> 0 .. 4] /\ (\A i \in 0 .. n : e[i] = g[i])
        /\ e[n + 1] = StageOf(session')
    BY <1>7
  <2> QED
    BY <2>1
<1>6. \A i \in 0 .. n : h[i] = g[i]
  BY <1>8
<1>9. ASSUME NEW i \in 1 .. n + 1
      PROVE  Follows(h[i - 1], Seen(i - 1)', arrived'[i], h[i])
  <2>1. CASE i = n + 1
    <3>1. h[i - 1] = StageOf(session) /\ Seen(i - 1)' = Seen(n)
      BY <1>0, <1>1, <1>3, <1>4, <1>6, <2>1 DEF Chain
    <3> QED
      BY <1>0, <1>3, <1>8, <2>1, <3>1
  <2>2. CASE i # n + 1
    <3>1. i \in 1 .. n /\ i - 1 \in 0 .. n /\ i \in 0 .. n
      BY <1>3, <2>2
    <3>2. Follows(g[i - 1], Seen(i - 1), arrived[i], g[i])
      BY <1>0, <1>1, <3>1 DEF Chain
    <3> QED
      BY <1>3, <1>4, <1>6, <3>1, <3>2
  <2> QED
    BY <2>1, <2>2
<1>10. h[0] = g[0]
  BY <1>6
<1>11. ~closed' /\ session' = "told" => Seen(n + 1)' = F!Placed(there)'
  BY <1>5
<1>12. conn' = PhaseOf(h[0]) /\ (h[0] < 4 => told' = {})
  BY <1>1, <1>10 DEF Chain
<1>13. Chain(h)'
  BY <1>3, <1>8, <1>9, <1>11, <1>12 DEF Chain
<1> QED
  BY <1>13

(* What is read follows the chain.                                         *)
LEMMA HandledFollows ==
  ASSUME NEW c \in Handleds, NEW p \in Packets, NEW before \in 0 .. 4,
         NEW after \in 0 .. 4, NEW placed, Follows(before, placed, p, after),
         before < 4 => placed = {},
         c.phase = PhaseOf(before), F!Placed(c.roster) = placed,
         c.phase # "live" => c.roster = F!Nobody,
         F!Handled(c, p).ok = TRUE
  PROVE  /\ F!Handled(c, p).phase = PhaseOf(after)
         /\ F!Placed(F!Handled(c, p).roster) = p.placed
         /\ PhaseOf(after) # "live" => F!Handled(c, p).roster = F!Nobody
<1>0. c \in [phase : Phases, roster : [Stations -> F!Status], ok : BOOLEAN]
  BY DEF Handleds
<1>1. CASE p.op = "upgrade" /\ before = 0 /\ after = 1
  <2>1. F!Handled(c, p) = [c EXCEPT !.phase = "open"]
    BY <1>1 DEF F!Handled, PhaseOf
  <2>2. F!Handled(c, p).phase = "open" /\ F!Handled(c, p).roster = c.roster
    BY <1>0, <2>1
  <2>3. p.placed = placed /\ PhaseOf(after) = "open" /\ c.phase # "live"
    BY <1>1 DEF PhaseOf, Follows
  <2> QED
    BY <2>2, <2>3
<1>2. CASE p.op = "open" /\ before = 1 /\ after = 2
  <2>1. F!Handled(c, p) = [c EXCEPT !.phase = "connect"]
    BY <1>2 DEF F!Handled, PhaseOf
  <2>2. F!Handled(c, p).phase = "connect" /\ F!Handled(c, p).roster = c.roster
    BY <1>0, <2>1
  <2>3. p.placed = placed /\ PhaseOf(after) = "connect" /\ c.phase # "live"
    BY <1>2 DEF PhaseOf, Follows
  <2> QED
    BY <2>2, <2>3
<1>3. CASE p.op = "ack" /\ before = 2 /\ after = 3
  <2>1. F!Handled(c, p) = [c EXCEPT !.phase = "live"]
    BY <1>3 DEF F!Handled, PhaseOf
  <2>2. F!Handled(c, p).phase = "live" /\ F!Handled(c, p).roster = c.roster
    BY <1>0, <2>1
  <2>3. p.placed = placed /\ PhaseOf(after) = "live" /\ c.phase # "live"
    BY <1>3 DEF PhaseOf, Follows
  <2> QED
    BY <2>2, <2>3
<1>4. CASE p.op \in {"bulk", "change", "leave"} /\ before >= 3 /\ after = 4
  <2>1. c.phase = "live" /\ PhaseOf(after) = "live"
    BY <1>4 DEF PhaseOf
  <2>2. F!Handled(c, p) = [c EXCEPT !.roster = F!Applied(c.roster, p)]
    BY <1>4, <2>1 DEF F!Handled
  <2>3. F!Handled(c, p).phase = "live" /\ F!Handled(c, p).roster = F!Applied(c.roster, p)
    BY <1>0, <2>1, <2>2
  <2>4. p.placed \subseteq Stations /\ p.who \subseteq Stations
    BY DEF Packets
  <2>5. CASE p.op = "bulk"
    <3>1. placed = {} /\ p.placed \subseteq p.who
      BY <1>4, <2>5 DEF Follows
    <3>2. \A s \in Stations : F!Applied(c.roster, p)[s] = "placed" <=> s \in p.placed
      BY <2>5, <3>1 DEF F!Applied, F!Placed
    <3> QED
      BY <2>1, <2>3, <2>4, <3>2 DEF F!Placed
  <2>6. CASE p.op \in {"change", "leave"}
    <3>1. /\ p.placed \ p.who = placed \ p.who
          /\ p.op = "leave" => p.placed \cap p.who = {}
      BY <1>4, <2>6 DEF Follows
    <3>2. \A s \in Stations : F!Applied(c.roster, p)[s] = "placed" <=> s \in p.placed
      BY <2>6, <3>1 DEF F!Applied, F!Placed
    <3> QED
      BY <2>1, <2>3, <2>4, <3>2 DEF F!Placed
  <2> QED
    BY <1>4, <2>5, <2>6
<1>5. CASE p.op \in {"ping", "bye", "junk"} /\ after = before /\ p.placed = placed
  <2>1. F!Handled(c, p) = c
    BY <1>0, <1>5 DEF F!Handled
  <2> QED
    BY <1>5, <2>1
<1> QED
  BY <1>1, <1>2, <1>3, <1>4, <1>5 DEF Follows

LEMMA HandlingFollows ==
  ASSUME Told, conn # "none", NEW g, Chain(g), NEW n \in 0 .. Len(arrived),
         F!Handling(SubSeq(arrived, 1, n)).ok = TRUE
  PROVE  LET h == F!Handling(SubSeq(arrived, 1, n))
         IN  /\ h \in Handleds
             /\ h.phase = PhaseOf(g[n])
             /\ F!Placed(h.roster) = Seen(n)
             /\ h.phase # "live" => h.roster = F!Nobody
<1> DEFINE read == SubSeq(arrived, 1, n)
           f == CHOOSE f : Handles(f, Len(read), read)
           Right(i) == f[i].ok = TRUE =>
                         /\ f[i].phase = PhaseOf(g[i])
                         /\ F!Placed(f[i].roster) = Seen(i)
                         /\ f[i].phase # "live" => f[i].roster = F!Nobody
           Bad == {i \in 0 .. n : ~Right(i)}
<1>1. arrived \in Seq(Packets) /\ n \in Nat
  BY DEF Told, Met
<1>2. Len(read) = n /\ \A i \in 1 .. n : read[i] = arrived[i]
  BY <1>1
<1> HIDE DEF read
<1>3. Handles(f, n, read)
  BY <1>1, <1>2, HandlingExists
<1>4. F!Handling(read) = f[n]
  BY <1>2 DEF F!Handling, Handles, Began
<1> HIDE DEF f
<1>5. Began \in Handleds
  BY DEF Told, Met, Began, Handleds
<1>6. ASSUME NEW i \in 0 .. n
      PROVE  f[i] \in Handleds
  <2> DEFINE fi == [j \in 0 .. i |-> f[j]]
  <2>1. Handles(fi, i, read)
    <3> SUFFICES ASSUME NEW j \in 0 .. i
                 PROVE  fi[j] = IF j = 0 THEN Began
                                ELSE IF fi[j - 1].ok
                                THEN F!Handled(fi[j - 1], read[j]) ELSE fi[j - 1]
      BY DEF Handles
    <3>1. j \in 0 .. n /\ fi[j] = f[j] /\ (j # 0 => fi[j - 1] = f[j - 1])
      OBVIOUS
    <3> HIDE DEF fi
    <3> QED
      BY <1>3, <3>1 DEF Handles
  <2>2. fi[i] = f[i]
    OBVIOUS
  <2> HIDE DEF fi
  <2> QED
    BY <1>5, <2>1, <2>2, HandlesType
<1>7. Bad = {}
  <2> SUFFICES ASSUME Bad # {} PROVE FALSE
    OBVIOUS
  <2>1. PICK i \in Bad : \A k \in Bad : ~(<<k, i>> \in OpToRel(<, Nat))
    <3>1. Bad \subseteq Nat
      OBVIOUS
    <3> QED
      BY <3>1, NatLessThanWellFounded, WFMin
  <2>2. i \in 0 .. n /\ ~Right(i)
    BY <2>1
  <2>3. i # 0
    <3>1. f[0] = Began
      BY <1>1, <1>3 DEF Handles
    <3>2. Right(0)
      BY <3>1 DEF Began, Told, Chain, Seen
    <3> QED
      BY <2>2, <3>2
  <2>4. i - 1 \in 0 .. n /\ i \in 1 .. n
    BY <2>2, <2>3
  <2>5. Right(i - 1)
    <3>1. <<i - 1, i>> \in OpToRel(<, Nat)
      BY <2>4 DEF OpToRel
    <3> QED
      BY <2>1, <2>4, <3>1
  <2>6. f[i] = IF f[i - 1].ok THEN F!Handled(f[i - 1], arrived[i]) ELSE f[i - 1]
    BY <1>2, <1>3, <2>4 DEF Handles
  <2>7. f[i].ok = TRUE /\ f[i - 1].ok \in BOOLEAN
    BY <1>6, <2>2, <2>4 DEF Handleds
  <2>8. f[i - 1].ok = TRUE /\ f[i] = F!Handled(f[i - 1], arrived[i])
    BY <2>6, <2>7
  <2>9. Follows(g[i - 1], Seen(i - 1), arrived[i], g[i])
        /\ g[i - 1] \in 0 .. 4 /\ g[i] \in 0 .. 4 /\ arrived[i] \in Packets
    <3>1. i \in 1 .. Len(arrived) /\ i - 1 \in 0 .. Len(arrived) /\ i \in 0 .. Len(arrived)
      BY <1>1, <2>4
    <3> QED
      BY <1>1, <3>1 DEF Chain
  <2>10. g[i - 1] < 4 => Seen(i - 1) = {}
    <3>1. CASE i = 1
      BY <3>1 DEF Chain, Seen
    <3>2. CASE i # 1
      <4>1. i - 1 \in 1 .. Len(arrived)
        BY <1>1, <2>4, <3>2
      <4>2. Follows(g[(i - 1) - 1], Seen((i - 1) - 1), arrived[i - 1], g[i - 1])
        BY <4>1 DEF Chain
      <4> QED
        BY <4>1, <4>2 DEF Follows, Seen
    <3> QED
      BY <3>1, <3>2
  <2>11. Seen(i) = arrived[i].placed
    BY <2>4 DEF Seen
  <2>12. f[i - 1] \in Handleds
    BY <1>6, <2>4
  <2>13. /\ f[i].phase = PhaseOf(g[i])
         /\ F!Placed(f[i].roster) = arrived[i].placed
         /\ PhaseOf(g[i]) # "live" => f[i].roster = F!Nobody
    BY <2>5, <2>7, <2>8, <2>9, <2>10, <2>12, HandledFollows
  <2> QED
    BY <2>2, <2>11, <2>13
<1>8. n \in 0 .. n
  BY <1>1
<1>9. Right(n)
  BY <1>7, <1>8
<1>10. F!Handling(read).ok = TRUE
  BY DEF read
<1>11. f[n] \in Handleds
  BY <1>6, <1>8
<1> QED
  BY <1>4, <1>9, <1>10, <1>11 DEF read

LEMMA ReadsChains ==
  ASSUME Told, conn # "none", NEW g, Chain(g), NEW n \in 0 .. Len(arrived),
         conn' = PhaseOf(g[n]), told' = Seen(n),
         arrived' = SubSeq(arrived, n + 1, Len(arrived)),
         UNCHANGED <<session, closed, there>>
  PROVE  \E h : Chain(h)'
<1>0. PICK m \in Nat : m = Len(arrived) - n
  <2>1. Len(arrived) - n \in Nat
    BY DEF Told, Met
  <2> QED
    BY <2>1
<1>1. arrived \in Seq(Packets) /\ n \in Nat /\ m \in Nat
  BY DEF Told, Met
<1>2. Len(arrived') = m /\ \A i \in 1 .. m : arrived'[i] = arrived[i + n]
  BY <1>0, <1>1
<1>3. ASSUME NEW i \in 0 .. m
      PROVE  Seen(i)' = Seen(i + n)
  BY <1>0, <1>1, <1>2 DEF Seen
<1>4. g \in [0 .. Len(arrived) -> 0 .. 4]
  BY DEF Chain
<1>5. PICK h \in [0 .. m -> 0 .. 4] : \A i \in 0 .. m : h[i] = g[i + n]
  <2> DEFINE e == [i \in 0 .. m |-> g[i + n]]
  <2>1. e \in [0 .. m -> 0 .. 4] /\ \A i \in 0 .. m : e[i] = g[i + n]
    BY <1>0, <1>1, <1>4
  <2> QED
    BY <2>1
<1>6. \A i \in 0 .. m : h[i] = g[i + n]
  BY <1>5
<1>7. h[0] = g[n] /\ h[m] = g[Len(arrived)]
  BY <1>0, <1>1, <1>6
<1>8. ASSUME NEW i \in 1 .. m
      PROVE  Follows(h[i - 1], Seen(i - 1)', arrived'[i], h[i])
  <2>1. i + n \in 1 .. Len(arrived) /\ i - 1 \in 0 .. m /\ i \in 0 .. m
        /\ (i - 1) + n = (i + n) - 1
    BY <1>0, <1>1
  <2>2. Follows(g[(i + n) - 1], Seen((i + n) - 1), arrived[i + n], g[i + n])
    BY <2>1 DEF Chain
  <2> QED
    BY <1>2, <1>3, <1>6, <2>1, <2>2
<1>9. g[n] < 4 => told' = {}
  <2>1. CASE n = 0
    BY <2>1 DEF Chain, Seen
  <2>2. CASE n # 0
    <3>1. n \in 1 .. Len(arrived)
      BY <1>1, <2>2
    <3>2. Follows(g[n - 1], Seen(n - 1), arrived[n], g[n])
      BY <3>1 DEF Chain
    <3> QED
      BY <2>2, <3>2 DEF Follows, Seen
  <2> QED
    BY <2>1, <2>2
<1>10. Seen(m)' = Seen(Len(arrived))
  <2>1. m \in 0 .. m /\ m + n = Len(arrived)
    BY <1>0, <1>1
  <2>2. Seen(m)' = Seen(m + n)
    BY <1>3, <2>1
  <2> QED
    BY <2>1, <2>2
<1>11. ~closed' /\ session' = "told" => Seen(m)' = F!Placed(there)'
  BY <1>10 DEF Chain, F!Placed
<1>12. h[m] = StageOf(session') /\ conn' = PhaseOf(h[0])
       /\ (h[0] < 4 => told' = {})
  BY <1>7, <1>9 DEF Chain
<1>13. Chain(h)'
  BY <1>2, <1>5, <1>8, <1>11, <1>12 DEF Chain
<1> QED
  BY <1>13

(* What the service said last is what it has, as long as it can say more.  *)
LEMMA LastSeen ==
  ASSUME Told, conn # "none"
  PROVE  /\ session # "told" => Seen(Len(arrived)) = {}
         /\ ~closed /\ session = "told" => Seen(Len(arrived)) = F!Placed(there)
<1>1. PICK g : Chain(g)
  BY DEF Told
<1>2. g[Len(arrived)] = StageOf(session) /\ (session # "told" => StageOf(session) < 4)
  BY <1>1 DEF Told, Chain, StageOf
<1>3. CASE arrived = <<>>
  BY <1>1, <1>2, <1>3 DEF Chain, Seen
<1>4. CASE arrived # <<>>
  <2>1. Len(arrived) \in 1 .. Len(arrived)
    BY <1>4 DEF Told, Met
  <2>2. Follows(g[Len(arrived) - 1], Seen(Len(arrived) - 1), arrived[Len(arrived)],
                g[Len(arrived)])
    BY <1>1, <2>1 DEF Chain
  <2> QED
    BY <1>1, <1>2, <2>1, <2>2 DEF Chain, Follows, Seen
<1> QED
  BY <1>3, <1>4

LEMMA ServicePushes ==
  ASSUME Told, Met',
         \/ F!Greets
         \/ \E op \in {"ping", "bye", "junk"} : F!Says(op)
         \/ \E s \in Stations, to \in F!Status : F!Moves(s, to)
  PROVE  Told'
<1>0. UNCHANGED F!client
  BY DEF F!Greets, F!Says, F!Moves
<1>1. /\ UNCHANGED <<conn, quiet, roster, closed, told, restamped>>
      /\ session' \in {"asked", "upgraded", "opened", "acked", "told"}
  BY <1>0 DEF Told, F!client, F!Greets, F!Says, F!Moves
<1>7. there' \in [Stations -> F!Status]
  BY DEF Told, F!Greets, F!Says, F!Moves
<1>2. CASE UNCHANGED <<arrived, session>>
           /\ (UNCHANGED there \/ conn = "none" \/ closed = TRUE \/ session # "told")
  <2>1. ASSUME NEW g, Chain(g) PROVE Chain(g)'
    <3>1. \A i \in 0 .. Len(arrived) : Seen(i)' = Seen(i)
      BY <1>1, <1>2 DEF Seen
    <3>2. ~closed' /\ session' = "told" /\ conn # "none" => F!Placed(there)' = F!Placed(there)
      BY <1>1, <1>2 DEF F!Placed
    <3>3. Seen(Len(arrived))' = Seen(Len(arrived))
      BY <1>1, <1>2 DEF Seen
    <3>4. ~closed' /\ session' = "told" => Seen(Len(arrived))' = F!Placed(there)'
      BY <1>1, <1>2, <2>1, <3>2, <3>3 DEF Chain, PhaseOf
    <3> QED
      BY <1>1, <1>2, <2>1, <3>4 DEF Chain, Seen
  <2> QED
    BY <1>1, <1>2, <1>7, <2>1 DEF Told
<1>3. ASSUME NEW op, NEW who \in SUBSET Stations, NEW placed \in SUBSET Stations,
             [op |-> op, who |-> who, placed |-> placed] \in Packets,
             conn # "none",
             arrived' = Append(arrived, [op |-> op, who |-> who, placed |-> placed]),
             Follows(StageOf(session), Seen(Len(arrived)),
                     [op |-> op, who |-> who, placed |-> placed], StageOf(session')),
             session' = "told" => placed = F!Placed(there)'
      PROVE  Told'
  <2>1. \E g : Chain(g)'
    BY <1>1, <1>3, PushedChains
  <2> QED
    BY <1>1, <1>3, <1>7, <2>1 DEF Told
<1>4. CASE F!Greets
  <2>1. /\ {} \in SUBSET Stations
        /\ {s \in Stations : there[s] # "absent"} \in SUBSET Stations
        /\ F!Placed(there) \in SUBSET Stations
        /\ F!Placed(there) \subseteq {s \in Stations : there[s] # "absent"}
    BY DEF F!Placed
  <2>2. CASE session = "asked" /\ F!Pushes("upgrade", {}, F!Nobody) /\ session' = "upgraded"
    BY <1>3, <2>1, <2>2, NobodyPlaced DEF F!Pushes, Packets, Follows, StageOf
  <2>3. CASE session = "upgraded" /\ F!Pushes("open", {}, F!Nobody) /\ session' = "opened"
    BY <1>3, <2>1, <2>3, NobodyPlaced DEF F!Pushes, Packets, Follows, StageOf
  <2>4. CASE session = "opened" /\ F!Pushes("ack", {}, F!Nobody) /\ session' = "acked"
    BY <1>3, <2>1, <2>4, NobodyPlaced DEF F!Pushes, Packets, Follows, StageOf
  <2>5. CASE /\ session = "acked" /\ session' = "told"
             /\ F!Pushes("bulk", {s \in Stations : there[s] # "absent"}, there)
    <3> DEFINE who == {s \in Stations : there[s] # "absent"}
               placed == F!Placed(there)
    <3>1. placed = F!Placed(there)'
      BY <1>4 DEF F!Greets, F!Placed
    <3>2. who \in SUBSET Stations /\ placed \in SUBSET Stations /\ placed \subseteq who
      BY <2>1
    <3>3. conn # "none" /\ arrived' = Append(arrived, [op |-> "bulk", who |-> who, placed |-> placed])
      BY <2>5 DEF F!Pushes
    <3> HIDE DEF who, placed
    <3>4. [op |-> "bulk", who |-> who, placed |-> placed] \in Packets
      BY <3>2 DEF Packets
    <3>5. Follows(StageOf(session), Seen(Len(arrived)),
                  [op |-> "bulk", who |-> who, placed |-> placed], StageOf(session'))
      BY <2>5, <3>2 DEF Follows, StageOf
    <3> QED
      BY <1>3, <3>1, <3>2, <3>3, <3>4, <3>5
  <2> QED
    BY <1>4, <2>2, <2>3, <2>4, <2>5 DEF F!Greets
<1>5. ASSUME NEW op \in {"ping", "bye", "junk"}, F!Says(op)
      PROVE  Told'
  <2> DEFINE placed == F!Placed(IF session = "told" THEN there ELSE F!Nobody)
  <2>1. placed \in SUBSET Stations
    BY DEF F!Placed
  <2>2. /\ conn # "none" /\ ~closed
        /\ arrived' = Append(arrived, [op |-> op, who |-> {}, placed |-> placed])
        /\ session' = session /\ there' = there
    BY <1>5 DEF F!Says, F!Pushes
  <2>3. placed = Seen(Len(arrived))
    BY <2>2, LastSeen, NobodyPlaced
  <2>4. session' = "told" => placed = F!Placed(there)'
    BY <2>2 DEF F!Placed
  <2> HIDE DEF placed
  <2>5. [op |-> op, who |-> {}, placed |-> placed] \in Packets
    BY <2>1 DEF Packets
  <2>6. StageOf(session) < 4 => placed = {}
    BY <2>2, <2>3, LastSeen DEF StageOf, Told
  <2>7. Follows(StageOf(session), Seen(Len(arrived)),
                [op |-> op, who |-> {}, placed |-> placed], StageOf(session'))
    BY <2>2, <2>3, <2>6 DEF Follows
  <2> QED
    BY <1>3, <2>1, <2>2, <2>4, <2>5, <2>7
<1>6. ASSUME NEW s \in Stations, NEW to \in F!Status, F!Moves(s, to)
      PROVE  Told'
  <2> DEFINE placed == F!Placed(there')
             op == IF to = "absent" THEN "leave" ELSE "change"
  <2>1. session' = session
    BY <1>6 DEF F!Moves
  <2>2. CASE conn # "none" /\ session = "told" /\ ~closed
    <3>1. arrived' = Append(arrived, [op |-> op, who |-> {s}, placed |-> placed])
      BY <1>6, <2>2 DEF F!Moves, F!Pushes
    <3>2. placed \in SUBSET Stations /\ placed = F!Placed(there)'
      BY DEF F!Placed
    <3>3. Seen(Len(arrived)) = F!Placed(there)
      BY <2>2, LastSeen
    <3>4. placed \ {s} = F!Placed(there) \ {s} /\ (op = "leave" => s \notin placed)
      <4>1. there' = [there EXCEPT ![s] = to] /\ there \in [Stations -> F!Status]
        BY <1>6 DEF F!Moves, Told
      <4>2. \A r \in Stations : r # s => there'[r] = there[r]
        BY <4>1
      <4>3. to = "absent" => there'[s] # "placed"
        BY <4>1
      <4> QED
        BY <4>2, <4>3 DEF F!Placed
    <3>5. op \in {"leave", "change"}
      OBVIOUS
    <3> HIDE DEF placed, op
    <3>6. [op |-> op, who |-> {s}, placed |-> placed] \in Packets
      BY <3>2, <3>5 DEF Packets
    <3>7. Follows(StageOf(session), Seen(Len(arrived)),
                  [op |-> op, who |-> {s}, placed |-> placed], StageOf(session'))
      BY <2>1, <2>2, <3>3, <3>4, <3>5 DEF Follows, StageOf
    <3> QED
      BY <1>3, <2>2, <3>1, <3>2, <3>6, <3>7
  <2>3. CASE ~(conn # "none" /\ session = "told" /\ ~closed)
    BY <1>2, <1>6, <2>1, <2>3 DEF F!Moves
  <2> QED
    BY <2>2, <2>3
<1> QED
  BY <1>4, <1>5, <1>6

LEMMA ClientReads ==
  ASSUME Told, Met', Watchdog \in Nat, NEW n \in 0 .. Len(arrived), F!Reads(n)
  PROVE  Told'
<1> DEFINE h == F!Handling(SubSeq(arrived, 1, n))
           fresh == conn # "live" /\ h.phase = "live"
           due == ~fresh /\ aged >= Refresh
<1>0. conn # "none"
  BY DEF F!Reads
<1>1. CASE F!Failed
  BY <1>1, NobodyPlaced DEF Told, F!Failed, F!LeftOver
<1>2. CASE ~F!Failed
  <2>1. /\ ~F!Overdue(n) /\ h.ok
        /\ conn' = h.phase /\ roster' = h.roster
        /\ quiet' = IF n > 0 THEN 0 ELSE quiet
        /\ told' = IF n > 0 THEN SubSeq(arrived, 1, n)[n].placed ELSE told
        /\ restamped' = (due /\ h.roster # F!Nobody)
        /\ arrived' = SubSeq(arrived, n + 1, Len(arrived))
        /\ UNCHANGED <<session, closed, there>>
    BY <1>2 DEF F!Reads
  <2>2. PICK g : Chain(g)
    BY <1>0 DEF Told
  <2>3. h.ok = TRUE
    <3>1. Len(SubSeq(arrived, 1, n)) \in Nat
      BY DEF Told, Met
    <3>2. Began \in Handleds
      BY <1>0 DEF Told, Met, Began, Handleds
    <3>3. h \in Handleds
      BY <3>1, <3>2, HandlingType
    <3> HIDE DEF h
    <3>4. h.ok \in BOOLEAN
      BY <3>3 DEF Handleds
    <3> QED
      BY <2>1, <3>4
  <2>4. /\ h \in Handleds /\ h.phase = PhaseOf(g[n])
        /\ F!Placed(h.roster) = Seen(n)
        /\ h.phase # "live" => h.roster = F!Nobody
    BY <1>0, <2>2, <2>3, HandlingFollows
  <2>5. told' = Seen(n)
    <3>1. n > 0 => SubSeq(arrived, 1, n)[n] = arrived[n]
      BY DEF Told, Met
    <3> QED
      BY <2>1, <3>1 DEF Seen
  <2>6. h.phase \in Phases /\ (conn = "live" => h.phase = "live")
    BY <2>4 DEF Handleds
  <2> HIDE DEF h
  <2>7. \E e : Chain(e)'
    BY <1>0, <2>1, <2>2, <2>4, <2>5, ReadsChains
  <2>8. restamped' => quiet' <= Watchdog
    <3> SUFFICES ASSUME restamped', n = 0 PROVE quiet <= Watchdog
      BY <2>1 DEF Told
    <3>1. h.phase = "live" /\ conn = "live"
      BY <2>1, <2>4
    <3>2. ~(quiet > Watchdog)
      BY <2>1, <3>1 DEF F!Overdue
    <3> QED
      BY <3>2 DEF Told
  <2>9. conn' # "none" /\ quiet' \in Int
    BY <2>1, <2>6 DEF Phases, Told
  <2> QED
    BY <2>1, <2>4, <2>5, <2>7, <2>8, <2>9 DEF Told
<1> QED
  BY <1>1, <1>2

LEMMA FreeDvDeliversItsOwn ==
  ASSUME Times, {Prompt, Watchdog} \subseteq Nat
  PROVE  /\ F!Init => Told
         /\ Told /\ [F!Next]_(F!vars) => Told'
         /\ Told => F!OnlyWhoIsThere
<1>1. ASSUME F!Init PROVE Told
  <2>1. Met
    BY <1>1, FreeDvKeepsItsWord
  <2>2. F!Nobody \in [Stations -> F!Status]
    BY DEF F!Nobody, F!Status
  <2> QED
    BY <1>1, <2>1, <2>2, NobodyPlaced DEF F!Init, Told
<1>2. ASSUME Told, [F!Next]_(F!vars) PROVE Told'
  <2>0. Met'
    BY <1>2, FreeDvKeepsItsWord DEF Told
  <2>1. CASE \/ F!Greets
             \/ \E op \in {"ping", "bye", "junk"} : F!Says(op)
             \/ \E s \in Stations, to \in F!Status : F!Moves(s, to)
    BY <1>2, <2>0, <2>1, ServicePushes
  <2>2. ASSUME NEW n \in 0 .. Len(arrived), F!Reads(n) PROVE Told'
    BY <1>2, <2>0, <2>2, ClientReads
  <2>3. CASE F!Failed
    BY <1>2, <2>0, <2>3, NobodyPlaced DEF Told, F!Failed, F!LeftOver
  <2>4. ASSUME UNCHANGED <<conn, roster, told, session, there, arrived>>,
               closed' = closed \/ closed' = TRUE, quiet' \in Int,
               restamped' => quiet' <= Watchdog
        PROVE  Told'
    <3>1. ASSUME NEW g, Chain(g) PROVE Chain(g)'
      BY <2>4, <3>1 DEF Chain, Seen
    <3> QED
      BY <1>2, <2>0, <2>4, <3>1 DEF Told
  <2>5. CASE F!ServiceCloses \/ F!RetryNow \/ F!SettingsUnusable \/ F!Tick
             \/ UNCHANGED F!vars
    <3>1. /\ UNCHANGED <<conn, roster, told, session, there, arrived>>
          /\ closed' = closed \/ closed' = TRUE
      BY <2>5 DEF F!ServiceCloses, F!RetryNow, F!SettingsUnusable, F!Tick,
                  F!vars, F!Service
    <3>2. quiet' = quiet \/ quiet' = F!AtMost(quiet + 1, Watchdog + 1)
      BY <2>5 DEF F!ServiceCloses, F!RetryNow, F!SettingsUnusable, F!Tick, F!vars
    <3>3. quiet' \in Int
      BY <1>2, <3>2 DEF F!AtMost, Told
    <3>4. (restamped' = restamped /\ quiet' = quiet) \/ restamped' = FALSE
      BY <2>5 DEF F!ServiceCloses, F!RetryNow, F!SettingsUnusable, F!Tick, F!vars
    <3>5. restamped' => quiet' <= Watchdog
      BY <1>2, <3>4 DEF Told
    <3> QED
      BY <2>4, <3>1, <3>3, <3>5
  <2>6. ASSUME NEW spent \in {0, Slow}, F!ConnectFails(spent) PROVE Told'
    BY <1>2, <2>0, <2>6, NobodyPlaced
       DEF Told, F!ConnectFails, F!NotConnected, F!Service
  <2>7. ASSUME NEW spent \in {0, Slow}, F!Connects(spent) PROVE Told'
    <3>1. /\ conn = "none" /\ conn' = "upgrade" /\ session' = "asked"
          /\ arrived' = <<>> /\ told' = {} /\ roster' = roster
          /\ restamped' = FALSE /\ there' = there
          /\ quiet' = F!AtMost(spent, Watchdog + 1)
      BY <2>7 DEF F!Connects, F!NotConnected
    <3>2. quiet' \in Int
      BY <3>1 DEF Times, F!AtMost
    <3>3. roster' = F!Nobody
      BY <1>2, <3>1 DEF Told
    <3>4. PICK g : g = [i \in 0 .. 0 |-> 0]
      OBVIOUS
    <3>5. g \in [0 .. 0 -> 0 .. 4] /\ g[0] = 0
      BY <3>4
    <3>6. Chain(g)'
      BY <3>1, <3>5 DEF Chain, PhaseOf, StageOf
    <3> QED
      BY <1>2, <2>0, <3>1, <3>2, <3>3, <3>6, NobodyPlaced DEF Told
  <2> QED
    BY <1>2, <2>1, <2>2, <2>3, <2>5, <2>6, <2>7 DEF F!Next, F!Poll, F!Dropped
<1>3. Told => F!OnlyWhoIsThere
  BY DEF Told, F!OnlyWhoIsThere
<1> QED
  BY <1>1, <1>2, <1>3

(* DeliversItsOwn holds of every reachable state, for any times, stations, *)
(* packets under way and number of requests.                               *)
THEOREM AlwaysDeliversItsOwn ==
  ASSUME Times, {Prompt, Watchdog} \subseteq Nat
  PROVE  Spec => []DeliversItsOwn
<1> DEFINE Inv == /\ part = "polled" => PP!Safe
                  /\ part = "telnet" => LoggedInOnce
                  /\ part = "freedv" => Told
<1>1. Init => Inv
  BY PolledKeepsItsWord, TelnetDeliversItsOwn, FreeDvDeliversItsOwn DEF Init
<1>2. ASSUME Inv, [Next]_vars PROVE Inv'
  <2>1. part' = part
    BY <1>2, PartStays
  <2>2. /\ part = "polled" => [P!Next]_(P!vars)
        /\ part = "telnet" => [T!Next]_(T!vars)
        /\ part = "freedv" => [F!Next]_(F!vars)
    BY <1>2
       DEF Next, vars, attempt, polling, line, telnet, freedv,
           P!vars, T!vars, F!vars
  <2>3. CASE part = "polled"
    BY <1>2, <2>1, <2>2, <2>3, PolledKeepsItsWord
  <2>4. CASE part = "telnet"
    BY <1>2, <2>1, <2>2, <2>4, TelnetDeliversItsOwn
  <2>5. CASE part = "freedv"
    BY <1>2, <2>1, <2>2, <2>5, FreeDvDeliversItsOwn
  <2> QED
    BY <2>1, <2>3, <2>4, <2>5
<1>3. Inv => DeliversItsOwn
  BY PolledDeliversItsOwn, TelnetDeliversItsOwn, FreeDvDeliversItsOwn
     DEF DeliversItsOwn
<1> QED
  BY <1>1, <1>2, <1>3, PTL DEF Spec
-----------------------------------------------------------------------------
(* The store of spots.                                                     *)

(* What is assumed of its constants: stamps and the age limit are times.   *)
Stamps == {Latest, MaxAge, Capacity} \subseteq Nat

Survives(r) ==
  \/ \E i \in 1 .. Len(spots) : spots[i].call = r.call /\ spots[i].time >= r.time
  \/ Len(spots) = Capacity /\ \A i \in 1 .. Len(spots) : spots[i].time >= r.time

Stored ==
  /\ spots \in Seq(D!Spot) /\ Len(spots) <= Capacity
  /\ heard \subseteq D!Spot /\ now \in Nat
  /\ \A r \in heard : Survives(r)

(* Of the places of a list one is the oldest, and the first of those.      *)
LEMMA SpotIs ==
  ASSUME Stamps, NEW spot \in D!Spot
  PROVE  spot.time \in Nat
<1>1. spot.time \in 0 .. Latest /\ Latest \in Nat
  BY DEF D!Spot, Stamps
<1> QED
  BY <1>1

LEMMA OldestIs ==
  ASSUME Stamps, NEW s \in Seq(D!Spot), s # <<>>
  PROVE  /\ D!Oldest(s) \in 1 .. Len(s)
         /\ \A j \in 1 .. Len(s) : s[D!Oldest(s)].time <= s[j].time
<1>0. Len(s) \in Nat /\ DOMAIN s = 1 .. Len(s) /\ 1 \in 1 .. Len(s)
  OBVIOUS
<1>1. ASSUME NEW i \in 1 .. Len(s) PROVE s[i].time \in Nat
  <2>1. s[i] \in D!Spot
    OBVIOUS
  <2> QED
    BY <2>1, SpotIs
<1> DEFINE Ages == {s[i].time : i \in 1 .. Len(s)}
<1>2. PICK t \in Ages : \A u \in Ages : t <= u
  <2>1. Ages \in SUBSET Nat /\ s[1].time \in Ages
    BY <1>0, <1>1
  <2> HIDE DEF Ages
  <2> QED
    BY <2>1, LeastIs
<1>3. \A i \in 1 .. Len(s) : t <= s[i].time
  BY <1>2
<1> DEFINE Firsts == {i \in 1 .. Len(s) : s[i].time = t}
<1>4. PICK i \in Firsts : \A j \in Firsts : i <= j
  <2>1. PICK k \in 1 .. Len(s) : s[k].time = t
    BY <1>2
  <2>2. Firsts \in SUBSET Nat /\ k \in Firsts
    BY <2>1
  <2> HIDE DEF Firsts
  <2> QED
    BY <2>2, LeastIs
<1>5. i \in 1 .. Len(s) /\ s[i].time = t
  BY <1>4
<1>6. \A j \in 1 .. i - 1 : s[j].time > s[i].time
  <2> SUFFICES ASSUME NEW j \in 1 .. i - 1 PROVE s[j].time > t
    BY <1>5
  <2>1. j \in 1 .. Len(s) /\ ~(i <= j)
    BY <1>0, <1>5
  <2>2. s[j].time # t
    BY <1>4, <2>1
  <2>3. s[j].time \in Nat /\ t \in Nat /\ t <= s[j].time
    BY <1>1, <1>3, <1>5, <2>1
  <2> QED
    BY <2>2, <2>3
<1>7. \E k \in DOMAIN s :
        /\ \A j \in DOMAIN s : s[k].time <= s[j].time
        /\ \A j \in 1 .. k - 1 : s[j].time > s[k].time
  <2>1. \A j \in DOMAIN s : s[i].time <= s[j].time
    BY <1>0, <1>3, <1>5
  <2> QED
    BY <1>0, <1>5, <1>6, <2>1
<1> QED
  BY <1>0, <1>7 DEF D!Oldest

(* An eviction leaves every other.                                         *)
LEMMA SwapRemoveIs ==
  ASSUME NEW s \in Seq(D!Spot), s # <<>>, NEW i \in 1 .. Len(s)
  PROVE  LET r == D!SwapRemove(s, i)
         IN  /\ r \in Seq(D!Spot) /\ Len(r) = Len(s) - 1
             /\ \A j \in 1 .. Len(s) : j # i => \E k \in 1 .. Len(r) : r[k] = s[j]
             /\ \A k \in 1 .. Len(r) : \E j \in 1 .. Len(s) : j # i /\ r[k] = s[j]
<1> DEFINE e == IF i = Len(s) THEN s ELSE [s EXCEPT ![i] = D!Last(s)]
           r == D!SwapRemove(s, i)
<1>1. Len(s) \in Nat \ {0} /\ D!Last(s) = s[Len(s)] /\ s[Len(s)] \in D!Spot
  BY DEF D!Last
<1>2. e \in Seq(D!Spot) /\ Len(e) = Len(s)
  BY <1>1
<1>3. /\ i # Len(s) => e[i] = s[Len(s)]
      /\ \A j \in 1 .. Len(s) : j # i => e[j] = s[j]
  BY <1>1
<1>4. r = SubSeq(e, 1, Len(e) - 1)
  BY DEF D!SwapRemove, D!Front
<1> HIDE DEF e, r
<1>5. /\ r \in Seq(D!Spot) /\ Len(r) = Len(s) - 1
      /\ \A k \in 1 .. Len(s) - 1 : r[k] = e[k]
  BY <1>1, <1>2, <1>4
<1>6. ASSUME NEW j \in 1 .. Len(s), j # i
      PROVE  \E k \in 1 .. Len(r) : r[k] = s[j]
  <2>1. CASE j = Len(s)
    <3>1. i \in 1 .. Len(r) /\ r[i] = s[j]
      BY <1>1, <1>3, <1>5, <1>6, <2>1
    <3> QED
      BY <3>1
  <2>2. CASE j # Len(s)
    <3>1. j \in 1 .. Len(r) /\ r[j] = s[j]
      BY <1>1, <1>3, <1>5, <1>6, <2>2
    <3> QED
      BY <3>1
  <2> QED
    BY <2>1, <2>2
<1>7. ASSUME NEW k \in 1 .. Len(r)
      PROVE  \E j \in 1 .. Len(s) : j # i /\ r[k] = s[j]
  <2>1. k \in 1 .. Len(s) /\ k # Len(s) /\ Len(s) \in 1 .. Len(s) /\ r[k] = e[k]
    BY <1>1, <1>5
  <2> QED
    BY <1>3, <2>1
<1> QED
  BY <1>5, <1>6, <1>7 DEF r

LEMMA InsertStored ==
  ASSUME Stamps, Stored, NEW spot \in D!Spot, D!Insert(spot)
  PROVE  Stored'
<1>0. /\ spots \in Seq(D!Spot) /\ Len(spots) \in Nat /\ DOMAIN spots = 1 .. Len(spots)
      /\ spot.time \in Nat /\ Capacity \in Nat
      /\ \A i \in 1 .. Len(spots) : spots[i] \in D!Spot /\ spots[i].time \in Nat
      /\ \A r \in heard : r.time \in Nat
  BY SpotIs DEF Stored, Stamps
<1>1. spots' = D!Inserted(spots, spot) /\ heard' = heard \cup {spot} /\ now' = now
  BY DEF D!Insert
<1> SUFFICES /\ spots' \in Seq(D!Spot) /\ Len(spots') <= Capacity
             /\ \A r \in heard : Survives(r)'
             /\ Survives(spot)'
  BY <1>1 DEF Stored
<1> DEFINE same == {i \in DOMAIN spots : D!Same(spots[i], spot)}
           first == CHOOSE i \in same : \A j \in same : i <= j
           more == Append(spots, spot)
<1>2. CASE same # {}
  <2>1. first \in 1 .. Len(spots) /\ spots[first].call = spot.call
    <3>1. same \in SUBSET Nat
      BY <1>0
    <3>2. \E i \in same : \A j \in same : i <= j
      BY <1>2, <3>1, LeastIs
    <3>3. first \in same
      BY <3>2
    <3> QED
      BY <1>0, <3>3 DEF D!Same
  <2>2. spots' = IF D!Newer(spot, spots[first]) THEN [spots EXCEPT ![first] = spot]
                 ELSE spots
    BY <1>1, <1>2 DEF D!Inserted
  <2> HIDE DEF first
  <2>3. CASE D!Newer(spot, spots[first])
    <3>1. /\ spots' = [spots EXCEPT ![first] = spot]
          /\ spot.time >= spots[first].time
      BY <2>2, <2>3 DEF D!Newer
    <3>2. /\ spots' \in Seq(D!Spot) /\ Len(spots') = Len(spots)
          /\ spots'[first] = spot
          /\ \A i \in 1 .. Len(spots) : i # first => spots'[i] = spots[i]
      BY <1>0, <2>1, <3>1
    <3>3. Survives(spot)'
      <4>1. first \in 1 .. Len(spots') /\ spots'[first].time >= spot.time
        BY <1>0, <2>1, <3>2
      <4> QED
        BY <3>2, <4>1 DEF Survives
    <3>4. ASSUME NEW r \in heard
          PROVE  Survives(r)'
      <4>1. CASE \E i \in 1 .. Len(spots) : spots[i].call = r.call /\ spots[i].time >= r.time
        <5>1. PICK i \in 1 .. Len(spots) : spots[i].call = r.call /\ spots[i].time >= r.time
          BY <4>1
        <5>2. spots'[i].call = r.call /\ spots'[i].time >= r.time
          BY <1>0, <2>1, <3>1, <3>2, <5>1
        <5> QED
          BY <3>2, <5>2 DEF Survives
      <4>2. CASE Len(spots) = Capacity /\ \A i \in 1 .. Len(spots) : spots[i].time >= r.time
        <5>1. \A i \in 1 .. Len(spots) : spots'[i].time >= r.time
          BY <1>0, <2>1, <3>1, <3>2, <4>2
        <5> QED
          BY <3>2, <4>2, <5>1 DEF Survives
      <4> QED
        BY <4>1, <4>2 DEF Stored, Survives
    <3> QED
      BY <3>2, <3>3, <3>4 DEF Stored
  <2>4. CASE ~D!Newer(spot, spots[first])
    <3>1. spots' = spots /\ spots[first].time >= spot.time
      BY <1>0, <2>1, <2>2, <2>4 DEF D!Newer
    <3> QED
      BY <2>1, <3>1 DEF Stored, Survives
  <2> QED
    BY <2>3, <2>4
<1>3. CASE same = {} /\ Len(more) <= Capacity
  <2>0. ~(Len(more) > Capacity) /\ Len(spots) + 1 <= Capacity
    BY <1>0, <1>3
  <2>1. spots' = more
    BY <1>1, <1>3, <2>0, Zenon DEF D!Inserted
  <2>2. /\ spots' \in Seq(D!Spot) /\ Len(spots') = Len(spots) + 1
        /\ spots'[Len(spots) + 1] = spot
        /\ \A i \in 1 .. Len(spots) : spots'[i] = spots[i]
    BY <1>0, <2>1
  <2>3. Len(spots) # Capacity
    <3>1. Len(spots) + 1 <= Capacity /\ Len(spots) \in Nat /\ Capacity \in Nat
      BY <1>0, <2>0
    <3> QED
      BY <3>1
  <2>4. ASSUME NEW r \in heard
        PROVE  Survives(r)'
    <3>1. PICK i \in 1 .. Len(spots) : spots[i].call = r.call /\ spots[i].time >= r.time
      BY <2>3 DEF Stored, Survives
    <3>2. i \in 1 .. Len(spots') /\ spots'[i] = spots[i]
      BY <1>0, <2>2
    <3> QED
      BY <3>1, <3>2 DEF Survives
  <2>5. Len(spots) + 1 \in 1 .. Len(spots')
    BY <1>0, <2>2
  <2>6. Survives(spot)'
    BY <1>0, <2>2, <2>5 DEF Survives
  <2> QED
    BY <1>3, <2>1, <2>2, <2>4, <2>6
<1>4. CASE same = {} /\ Len(more) > Capacity
  <2>1. spots' = D!SwapRemove(more, D!Oldest(more))
    BY <1>1, <1>4 DEF D!Inserted
  <2>2. /\ more \in Seq(D!Spot) /\ Len(more) = Len(spots) + 1 /\ more # <<>>
        /\ more[Len(spots) + 1] = spot
        /\ \A i \in 1 .. Len(spots) : more[i] = spots[i]
    BY <1>0
  <2> DEFINE o == D!Oldest(more)
  <2>3. o \in 1 .. Len(more) /\ \A j \in 1 .. Len(more) : more[o].time <= more[j].time
    BY <2>2, OldestIs
  <2> HIDE DEF more, o
  <2>4. /\ spots' \in Seq(D!Spot) /\ Len(spots') = Len(more) - 1
        /\ \A j \in 1 .. Len(more) : j # o => \E k \in 1 .. Len(spots') : spots'[k] = more[j]
        /\ \A k \in 1 .. Len(spots') : \E j \in 1 .. Len(more) : j # o /\ spots'[k] = more[j]
    BY <2>1, <2>2, <2>3, SwapRemoveIs DEF o
  <2>5. Len(spots') = Capacity /\ Len(spots) = Capacity
    <3>1. Len(more) > Capacity /\ Len(spots) <= Capacity
      BY <1>4 DEF Stored
    <3>2. Len(more) = Len(spots) + 1 /\ Len(spots') = Len(more) - 1
      BY <2>2, <2>4
    <3>3. Len(spots) \in Nat /\ Capacity \in Nat
      BY <1>0
    <3> QED
      BY <3>1, <3>2, <3>3
  <2>6. ASSUME NEW j \in 1 .. Len(more) PROVE more[j].time \in Nat
    <3>1. more[j] \in D!Spot
      BY <2>2
    <3> QED
      BY <3>1, SpotIs
  <2>7. ASSUME NEW r, r.time \in Nat, NEW j \in 1 .. Len(more),
               more[j].call = r.call /\ more[j].time >= r.time
        PROVE  Survives(r)'
    <3>1. CASE j # o
      BY <2>4, <2>7, <3>1 DEF Survives
    <3>2. CASE j = o
      <4>1. ASSUME NEW k \in 1 .. Len(spots')
            PROVE  spots'[k].time >= r.time
        <5>1. PICK i \in 1 .. Len(more) : spots'[k] = more[i]
          BY <2>4
        <5>2. /\ more[o].time >= r.time /\ more[o].time <= more[i].time
              /\ more[o].time \in Nat /\ more[i].time \in Nat
          BY <2>3, <2>6, <2>7, <3>2, <5>1
        <5> QED
          BY <2>7, <5>1, <5>2
      <4> QED
        BY <2>5, <4>1 DEF Survives
    <3> QED
      BY <3>1, <3>2
  <2>8. Survives(spot)'
    <3>1. Len(spots) + 1 \in 1 .. Len(more)
      BY <1>0, <2>2
    <3> QED
      BY <1>0, <2>2, <2>7, <3>1
  <2>9. ASSUME NEW r \in heard
        PROVE  Survives(r)'
    <3>1. CASE \E i \in 1 .. Len(spots) : spots[i].call = r.call /\ spots[i].time >= r.time
      <4>1. PICK i \in 1 .. Len(spots) : spots[i].call = r.call /\ spots[i].time >= r.time
        BY <3>1
      <4>2. i \in 1 .. Len(more) /\ more[i] = spots[i]
        BY <1>0, <2>2
      <4> QED
        BY <1>0, <2>7, <4>1, <4>2
    <3>2. CASE \A i \in 1 .. Len(spots) : spots[i].time >= r.time
      <4>1. ASSUME NEW k \in 1 .. Len(spots')
            PROVE  spots'[k].time >= r.time
        <5>1. PICK j \in 1 .. Len(more) : j # o /\ spots'[k] = more[j]
          BY <2>4
        <5>2. CASE j \in 1 .. Len(spots)
          BY <2>2, <3>2, <5>1, <5>2
        <5>3. CASE j = Len(spots) + 1
          <6>1. o \in 1 .. Len(spots)
            BY <1>0, <2>2, <2>3, <5>1, <5>3
          <6>2. more[o].time >= r.time /\ more[o].time <= more[j].time
            BY <2>2, <2>3, <3>2, <6>1
          <6>3. more[o].time \in Nat /\ more[j].time \in Nat /\ r.time \in Nat
            BY <1>0, <2>3, <2>6
          <6> QED
            BY <5>1, <6>2, <6>3
        <5> QED
          BY <1>0, <2>2, <5>1, <5>2, <5>3
      <4> QED
        BY <2>5, <4>1 DEF Survives
    <3> QED
      BY <3>1, <3>2 DEF Stored, Survives
  <2> QED
    BY <1>0, <2>4, <2>5, <2>8, <2>9
<1> QED
  BY <1>0, <1>2, <1>3, <1>4

(* What a purge keeps: those that are fresh, the others gone.              *)
Retains(f, n, s) ==
  f = [i \in 0 .. n |->
         IF i = 0 THEN <<>>
         ELSE IF D!IsFresh(s[i], MaxAge) THEN Append(f[i - 1], s[i]) ELSE f[i - 1]]

LEMMA RetainingExists ==
  ASSUME NEW s, NEW n \in Nat
  PROVE  \E f : Retains(f, n, s)
<1> DEFINE Bad == {m \in Nat : ~ \E f : Retains(f, m, s)}
<1> SUFFICES ASSUME Bad # {} PROVE FALSE
  OBVIOUS
<1>1. PICK m \in Bad : \A k \in Bad : m <= k
  <2>1. Bad \in SUBSET Nat
    OBVIOUS
  <2> HIDE DEF Bad
  <2> QED
    BY <2>1, LeastIs
<1>2. m # 0
  <2>1. Retains([i \in 0 .. 0 |-> <<>>], 0, s)
    BY DEF Retains
  <2> QED
    BY <2>1
<1>3. PICK g : Retains(g, m - 1, s)
  <2>1. m - 1 \in Nat /\ ~(m <= m - 1)
    BY <1>2
  <2> QED
    BY <1>1, <2>1
<1> DEFINE end == IF D!IsFresh(s[m], MaxAge) THEN Append(g[m - 1], s[m]) ELSE g[m - 1]
           f == [i \in 0 .. m |-> IF i = m THEN end ELSE g[i]]
<1>4. Retains(f, m, s)
  <2> SUFFICES ASSUME NEW i \in 0 .. m
               PROVE  f[i] = IF i = 0 THEN <<>>
                             ELSE IF D!IsFresh(s[i], MaxAge)
                             THEN Append(f[i - 1], s[i]) ELSE f[i - 1]
    BY DEF Retains
  <2>1. CASE i = m
    <3>1. f[i - 1] = g[i - 1] /\ f[i] = end
      BY <1>2, <2>1
    <3> QED
      BY <1>2, <2>1, <3>1
  <2>2. CASE i # m
    <3>1. i \in 0 .. m - 1 /\ f[i] = g[i]
      BY <2>2
    <3>2. i # 0 => f[i - 1] = g[i - 1]
      BY <2>2
    <3> HIDE DEF f
    <3> QED
      BY <1>3, <3>1, <3>2 DEF Retains
  <2> QED
    BY <2>1, <2>2
<1> QED
  BY <1>4

(* The list kept is no longer, holds nothing new, and holds every fresh    *)
(* one; all of them fresh, it is as long.                                  *)
Left(r, s, n) ==
  /\ r \in Seq(D!Spot) /\ Len(r) <= n
  /\ \A i \in 1 .. n : D!IsFresh(s[i], MaxAge) => \E k \in 1 .. Len(r) : r[k] = s[i]
  /\ \A k \in 1 .. Len(r) : \E i \in 1 .. n : r[k] = s[i]
  /\ (\A i \in 1 .. n : D!IsFresh(s[i], MaxAge)) => Len(r) = n

LEMMA RetainedIs ==
  ASSUME NEW s \in Seq(D!Spot)
  PROVE  Left(D!Retained(s, MaxAge), s, Len(s))
<1>0. PICK n \in Nat : n = Len(s)
  OBVIOUS
<1> DEFINE f == CHOOSE f : Retains(f, Len(s), s)
           Bad == {i \in 0 .. n : ~Left(f[i], s, i)}
<1>1. Retains(f, n, s)
  BY <1>0, RetainingExists
<1>2. D!Retained(s, MaxAge) = f[n]
  BY <1>0 DEF D!Retained, Retains
<1> HIDE DEF f
<1>3. Bad = {}
  <2> SUFFICES ASSUME Bad # {} PROVE FALSE
    OBVIOUS
  <2>1. PICK i \in Bad : \A k \in Bad : i <= k
    <3>1. Bad \in SUBSET Nat
      OBVIOUS
    <3> HIDE DEF Bad
    <3> QED
      BY <3>1, LeastIs
  <2>2. i # 0
    <3>1. f[0] = <<>>
      BY <1>1 DEF Retains
    <3>2. Left(f[0], s, 0)
      BY <3>1 DEF Left
    <3> QED
      BY <2>1, <3>2
  <2>3. i \in 1 .. n /\ i - 1 \in 0 .. n /\ s[i] \in D!Spot
    BY <1>0, <2>1, <2>2
  <2>4. Left(f[i - 1], s, i - 1)
    <3>1. ~(i <= i - 1)
      BY <2>3
    <3> QED
      BY <2>1, <2>3, <3>1
  <2>5. f[i] = IF D!IsFresh(s[i], MaxAge) THEN Append(f[i - 1], s[i]) ELSE f[i - 1]
    <3>1. i \in 0 .. n /\ i # 0
      BY <2>3
    <3>2. f = [j \in 0 .. n |->
                IF j = 0 THEN <<>>
                ELSE IF D!IsFresh(s[j], MaxAge) THEN Append(f[j - 1], s[j]) ELSE f[j - 1]]
      BY <1>1 DEF Retains
    <3> QED
      BY <3>1, <3>2, Zenon
  <2> DEFINE g == f[i - 1]
  <2>6. /\ g \in Seq(D!Spot) /\ Len(g) \in Nat /\ Len(g) <= i - 1
        /\ \A j \in 1 .. i - 1 : D!IsFresh(s[j], MaxAge) => \E k \in 1 .. Len(g) : g[k] = s[j]
        /\ \A k \in 1 .. Len(g) : \E j \in 1 .. i - 1 : g[k] = s[j]
        /\ (\A j \in 1 .. i - 1 : D!IsFresh(s[j], MaxAge)) => Len(g) = i - 1
    BY <2>4 DEF Left
  <2> HIDE DEF g
  <2>7. \A j \in 1 .. i : j # i => j \in 1 .. i - 1
    BY <2>3
  <2>8. \A j \in 1 .. i - 1 : j \in 1 .. i
    BY <2>3
  <2>9. i \in 1 .. i /\ i \in Nat
    BY <2>3
  <2>10. CASE D!IsFresh(s[i], MaxAge)
    <3>1. f[i] = Append(g, s[i])
      BY <2>5, <2>10 DEF g
    <3>2. /\ f[i] \in Seq(D!Spot) /\ Len(f[i]) = Len(g) + 1
          /\ f[i][Len(g) + 1] = s[i]
          /\ \A k \in 1 .. Len(g) : f[i][k] = g[k]
      BY <2>3, <2>6, <3>1
    <3>3. \A k \in 1 .. Len(g) : k \in 1 .. Len(f[i])
      BY <2>6, <3>2
    <3>4. Len(g) + 1 \in 1 .. Len(f[i])
      BY <2>6, <3>2
    <3>5. \A k \in 1 .. Len(f[i]) : k \in 1 .. Len(g) \/ k = Len(g) + 1
      BY <2>6, <3>2
    <3>6. Len(f[i]) <= i
      BY <2>6, <2>9, <3>2
    <3>7. \A j \in 1 .. i : D!IsFresh(s[j], MaxAge) => \E k \in 1 .. Len(f[i]) : f[i][k] = s[j]
      BY <2>6, <2>7, <3>2, <3>3, <3>4
    <3>8. \A k \in 1 .. Len(f[i]) : \E j \in 1 .. i : f[i][k] = s[j]
      BY <2>6, <2>8, <2>9, <3>2, <3>5
    <3>9. (\A j \in 1 .. i : D!IsFresh(s[j], MaxAge)) => Len(f[i]) = i
      BY <2>6, <2>8, <2>9, <3>2
    <3> QED
      BY <2>1, <3>2, <3>6, <3>7, <3>8, <3>9 DEF Left
  <2>11. CASE ~D!IsFresh(s[i], MaxAge)
    <3>1. f[i] = g
      BY <2>5, <2>11 DEF g
    <3>2. Len(g) <= i
      BY <2>6, <2>9
    <3>3. \A j \in 1 .. i : D!IsFresh(s[j], MaxAge) => \E k \in 1 .. Len(g) : g[k] = s[j]
      BY <2>6, <2>7, <2>11
    <3>4. \A k \in 1 .. Len(g) : \E j \in 1 .. i : g[k] = s[j]
      BY <2>6, <2>8
    <3> QED
      BY <2>1, <2>6, <2>9, <2>11, <3>1, <3>2, <3>3, <3>4 DEF Left
  <2> QED
    BY <2>10, <2>11
<1>4. n \in 0 .. n
  OBVIOUS
<1>5. Left(f[n], s, n)
  BY <1>3, <1>4
<1> QED
  BY <1>0, <1>2, <1>5

LEMMA PurgeStored ==
  ASSUME Stamps, Stored, D!Purge(MaxAge)
  PROVE  Stored'
<1>0. spots' = D!Retained(spots, MaxAge) /\ now' = now
      /\ heard' = {s \in heard : D!IsFresh(s, MaxAge)}
  BY DEF D!Purge
<1>1. spots \in Seq(D!Spot) /\ Len(spots) \in Nat /\ Len(spots) <= Capacity
      /\ Capacity \in Nat /\ now \in Nat /\ MaxAge \in Nat
      /\ \A i \in 1 .. Len(spots) : spots[i] \in D!Spot
  BY DEF Stored, Stamps
<1>2. Left(spots', spots, Len(spots))
  BY <1>0, <1>1, RetainedIs
<1>3. spots' \in Seq(D!Spot) /\ Len(spots') \in Nat /\ Len(spots') <= Len(spots)
  BY <1>2 DEF Left
<1>4. ASSUME NEW r \in heard'
      PROVE  Survives(r)'
  <2>1. r \in heard /\ D!IsFresh(r, MaxAge) /\ r \in D!Spot /\ r.time \in Nat
    BY <1>0, SpotIs DEF Stored
  <2>2. ASSUME NEW i \in 1 .. Len(spots), spots[i].time >= r.time
        PROVE  D!IsFresh(spots[i], MaxAge)
    <3>1. spots[i].time \in Nat
      BY <1>1, SpotIs
    <3> QED
      BY <1>1, <2>1, <2>2, <3>1 DEF D!IsFresh
  <2>3. CASE \E i \in 1 .. Len(spots) : spots[i].call = r.call /\ spots[i].time >= r.time
    <3>1. PICK i \in 1 .. Len(spots) : spots[i].call = r.call /\ spots[i].time >= r.time
      BY <2>3
    <3>2. PICK k \in 1 .. Len(spots') : spots'[k] = spots[i]
      BY <1>2, <2>2, <3>1 DEF Left
    <3> QED
      BY <3>1, <3>2 DEF Survives
  <2>4. CASE Len(spots) = Capacity /\ \A i \in 1 .. Len(spots) : spots[i].time >= r.time
    <3>1. Len(spots') = Capacity
      BY <1>2, <2>2, <2>4 DEF Left
    <3>2. \A k \in 1 .. Len(spots') : spots'[k].time >= r.time
      BY <1>2, <2>4 DEF Left
    <3> QED
      BY <3>1, <3>2 DEF Survives
  <2> QED
    BY <2>1, <2>3, <2>4 DEF Stored, Survives
<1>5. heard' \subseteq D!Spot /\ now' \in Nat /\ Len(spots') <= Capacity
  BY <1>0, <1>1, <1>3 DEF Stored
<1> QED
  BY <1>3, <1>4, <1>5 DEF Stored

(* FreshestSurvive holds of every reachable state, for any calls,          *)
(* frequencies, tolerance, capacity, age limit and number of reports, in   *)
(* whatever order they come.                                               *)
THEOREM FreshestAlwaysSurvive ==
  ASSUME Stamps
  PROVE  Spec => []FreshestSurvive
<1> DEFINE Inv == part = "store" => Stored
<1>1. Init => Inv
  <2> SUFFICES ASSUME D!Init PROVE Stored
    BY DEF Init
  <2> QED
    BY DEF D!Init, Stored, Stamps
<1>2. ASSUME Inv, [Next]_vars PROVE Inv'
  <2> SUFFICES ASSUME part = "store", Stored PROVE Stored'
    BY <1>2, PartStays
  <2>1. CASE D!Tick
    BY <2>1 DEF D!Tick, Stored, Survives
  <2>2. CASE UNCHANGED store
    BY <2>2 DEF store, Stored, Survives
  <2> QED
    BY <1>2, <2>1, <2>2, InsertStored, PurgeStored DEF Next, vars, D!Next
<1>3. Inv => FreshestSurvive
  <2> SUFFICES ASSUME Stored, NEW r \in heard
               PROVE  \/ \E h \in D!Held : h.call = r.call /\ h.time >= r.time
                      \/ Len(spots) = Capacity /\ \A h \in D!Held : h.time >= r.time
    BY DEF FreshestSurvive, D!FreshestSurvive
  <2>1. D!Held = {spots[i] : i \in 1 .. Len(spots)}
    BY DEF D!Held, Stored
  <2>2. Survives(r)
    BY DEF Stored
  <2> QED
    BY <2>1, <2>2 DEF Survives
<1> QED
  BY <1>1, <1>2, <1>3, PTL DEF Spec
-----------------------------------------------------------------------------
(* PSK Reporter: what the broker will hold.                                *)

Sayings == [op : {"connect", "ping", "subscribe", "unsubscribe"}, topics : SUBSET Topics]
Replies == {"ack", "refused", "suback", "subrefused", "other"}

(* From the topics `had`, reading `said` brings the broker to `has`.       *)
Brings(g, had, said, has) ==
  /\ g = [i \in 0 .. Len(said) |->
            IF i = 0 THEN had ELSE M!After(g[i - 1], said[i])]
  /\ g[Len(said)] = has
Comes(had, said, has) == \E g : Brings(g, had, said, has)

LEMMA NothingBrings ==
  ASSUME NEW had
  PROVE  Comes(had, <<>>, had)
<1>1. Brings([i \in 0 .. 0 |-> had], had, <<>>, had)
  BY DEF Brings
<1> QED
  BY <1>1 DEF Comes

LEMMA OneMoreBrings ==
  ASSUME NEW had, NEW has, NEW said \in Seq(Sayings), NEW p \in Sayings,
         Comes(had, said, has)
  PROVE  Comes(had, Append(said, p), M!After(has, p))
<1>0. PICK n \in Nat : n = Len(said)
  OBVIOUS
<1>1. PICK g : Brings(g, had, said, has)
  BY DEF Comes
<1> DEFINE more == Append(said, p)
           h == [i \in 0 .. n + 1 |-> IF i = n + 1 THEN M!After(has, p) ELSE g[i]]
<1>2. Len(more) = n + 1 /\ more[n + 1] = p /\ \A i \in 1 .. n : more[i] = said[i]
  BY <1>0
<1>3. h[n + 1] = M!After(has, p) /\ \A i \in 0 .. n : h[i] = g[i]
  BY <1>0
<1>4. g[n] = has /\ g[0] = had /\ \A i \in 1 .. n : g[i] = M!After(g[i - 1], said[i])
  BY <1>0, <1>1 DEF Brings
<1>5. ASSUME NEW i \in 0 .. n + 1
      PROVE  h[i] = IF i = 0 THEN had ELSE M!After(h[i - 1], more[i])
  <2> HIDE DEF h, more
  <2>1. CASE i = 0
    <3>1. 0 \in 0 .. n
      OBVIOUS
    <3>2. h[0] = g[0]
      BY <1>3, <3>1
    <3>3. g[0] = had
      BY <1>4
    <3>4. h[i] = had
      BY <2>1, <3>2, <3>3
    <3> QED
      BY <2>1, <3>4
  <2>2. CASE i = n + 1
    <3>0. i - 1 = n /\ n \in 0 .. n /\ i # 0
      BY <2>2
    <3>1. h[i - 1] = has /\ i # 0
      BY <1>3, <1>4, <3>0
    <3> QED
      BY <1>2, <1>3, <2>2, <3>1
  <2>3. CASE i \in 1 .. n
    <3>1. h[i - 1] = g[i - 1] /\ h[i] = g[i] /\ i # 0
      BY <1>3, <2>3
    <3> QED
      BY <1>2, <1>4, <2>3, <3>1
  <2> QED
    BY <2>1, <2>2, <2>3
<1>6. h = [i \in 0 .. n + 1 |-> IF i = 0 THEN had ELSE M!After(h[i - 1], more[i])]
  BY <1>5
<1> HIDE DEF h, more
<1>7. Brings(h, had, more, M!After(has, p))
  BY <1>2, <1>3, <1>6 DEF Brings
<1> QED
  BY <1>7 DEF Comes, more

LEMMA OneReadBrings ==
  ASSUME NEW had, NEW has, NEW said \in Seq(Sayings), said # <<>>,
         Comes(had, said, has)
  PROVE  Comes(M!After(had, Head(said)), Tail(said), has)
<1>0. PICK n \in Nat : n + 1 = Len(said)
  <2>1. Len(said) - 1 \in Nat
    OBVIOUS
  <2> QED
    BY <2>1
<1>1. PICK g : Brings(g, had, said, has)
  BY DEF Comes
<1> DEFINE less == Tail(said)
           h == [i \in 0 .. n |-> g[i + 1]]
<1>2. Len(less) = n /\ Head(said) = said[1] /\ \A i \in 1 .. n : less[i] = said[i + 1]
  BY <1>0
<1>3. g[n + 1] = has /\ g[0] = had
      /\ \A i \in 1 .. n + 1 : g[i] = M!After(g[i - 1], said[i])
  BY <1>0, <1>1 DEF Brings
<1>4. g[1] = M!After(had, Head(said))
  BY <1>2, <1>3
<1>5. \A i \in 0 .. n : h[i] = g[i + 1]
  OBVIOUS
<1>6. ASSUME NEW i \in 0 .. n
      PROVE  h[i] = IF i = 0 THEN M!After(had, Head(said)) ELSE M!After(h[i - 1], less[i])
  <2> HIDE DEF h, less
  <2>1. CASE i = 0
    BY <1>4, <1>5, <2>1
  <2>2. CASE i # 0
    <3>1. i \in 1 .. n /\ i + 1 \in 1 .. n + 1 /\ (i + 1) - 1 = i
      BY <2>2
    <3>2. h[i - 1] = g[i]
      BY <1>5, <3>1
    <3> QED
      BY <1>2, <1>3, <1>5, <2>2, <3>1, <3>2
  <2> QED
    BY <2>1, <2>2
<1>7. h = [i \in 0 .. n |-> IF i = 0 THEN M!After(had, Head(said))
                            ELSE M!After(h[i - 1], less[i])]
  BY <1>6
<1>8. h[n] = has
  BY <1>3, <1>5
<1> HIDE DEF h, less
<1>9. Brings(h, M!After(had, Head(said)), less, has)
  BY <1>2, <1>7, <1>8 DEF Brings
<1> QED
  BY <1>9 DEF Comes, less

LEMMA BringsEach ==
  ASSUME NEW had, NEW said \in Seq(Sayings), NEW x, NEW g, Brings(g, had, said, x),
         NEW n \in Nat, n = Len(said)
  PROVE  /\ g[0] = had
         /\ \A i \in 1 .. n : g[i] = M!After(g[i - 1], said[i])
<1>1. g = [i \in 0 .. n |-> IF i = 0 THEN had ELSE M!After(g[i - 1], said[i])]
  BY Zenon DEF Brings
<1>2. 0 \in 0 .. n /\ \A i \in 1 .. n : i \in 0 .. n /\ i # 0
  OBVIOUS
<1>3. \A i \in 0 .. n : g[i] = IF i = 0 THEN had ELSE M!After(g[i - 1], said[i])
  BY <1>1, Zenon
<1> QED
  BY <1>2, <1>3

(* It brings it nowhere else: two runs never part.                         *)
LEMMA BringsOne ==
  ASSUME NEW had, NEW said \in Seq(Sayings), NEW x, NEW y, NEW f, NEW g,
         Brings(f, had, said, x), Brings(g, had, said, y)
  PROVE  x = y
<1>0. PICK n \in Nat : n = Len(said)
  OBVIOUS
<1> DEFINE Bad == {i \in 0 .. n : f[i] # g[i]}
<1>1. /\ f[0] = had /\ g[0] = had
      /\ \A i \in 1 .. n : f[i] = M!After(f[i - 1], said[i])
      /\ \A i \in 1 .. n : g[i] = M!After(g[i - 1], said[i])
  BY <1>0, BringsEach
<1>2. Bad = {}
  <2> SUFFICES ASSUME Bad # {} PROVE FALSE
    OBVIOUS
  <2>1. PICK i \in Bad : \A k \in Bad : i <= k
    <3>1. Bad \in SUBSET Nat
      OBVIOUS
    <3> HIDE DEF Bad
    <3> QED
      BY <3>1, LeastIs
  <2>2. i \in 1 .. n /\ i - 1 \in 0 .. n /\ ~(i <= i - 1)
    BY <1>1, <2>1
  <2>3. f[i - 1] = g[i - 1]
    BY <2>1, <2>2
  <2> QED
    BY <1>1, <2>1, <2>2, <2>3
<1>3. f[n] = g[n]
  BY <1>2
<1> QED
  BY <1>0, <1>3 DEF Brings

LEMMA SettledIs ==
  ASSUME sent \in Seq(Sayings), NEW has, Comes(held, sent, has)
  PROVE  M!Settled = has
<1> DEFINE f == CHOOSE f : f = [i \in 0 .. Len(sent) |->
                                  IF i = 0 THEN held ELSE M!After(f[i - 1], sent[i])]
<1>1. PICK g : Brings(g, held, sent, has)
  BY DEF Comes
<1>2. Brings(f, held, sent, f[Len(sent)])
  BY <1>1 DEF Brings
<1>3. f[Len(sent)] = has
  <2> HIDE DEF f
  <2> QED
    BY <1>1, <1>2, BringsOne
<1> QED
  BY <1>3 DEF M!Settled

-----------------------------------------------------------------------------
(* Unless a refusal is under way, the broker comes to hold what the source *)
(* takes it to be subscribed to; and that is what was wanted at the last   *)
(* poll.                                                                   *)
Subscribed ==
  /\ sent \in Seq(Sayings) /\ arrived \in Seq(Replies)
  /\ conn \in {"none", "await", "streaming"}
  /\ wanted \subseteq Topics /\ subscribed \subseteq Topics
  /\ conn = "await" => subscribed = {}
  /\ conn # "none" /\ ~M!Has(arrived, "subrefused") => Comes(held, sent, subscribed)
  /\ conn = "streaming" /\ polled => subscribed = wanted

LEMMA OneSaid ==
  ASSUME NEW what, NEW p \in what
  PROVE  <<p>> \in Seq(what) /\ <<>> \in Seq(what)
<1>1. <<>> \in Seq(what)
  OBVIOUS
<1>2. <<p>> = Append(<<>>, p)
  OBVIOUS
<1> QED
  BY <1>1, <1>2

LEMMA RequestSays ==
  ASSUME NEW op \in {"subscribe", "unsubscribe"}, NEW topics \in SUBSET Topics
  PROVE  M!Request(op, topics) \in Seq(Sayings)
<1> DEFINE p == [op |-> op, topics |-> topics]
<1>1. M!Request(op, topics) = <<>> \/ M!Request(op, topics) = <<p>>
  BY DEF M!Request
<1>2. p \in Sayings
  BY DEF Sayings
<1> HIDE DEF p
<1> QED
  BY <1>1, <1>2, OneSaid, Zenon

LEMMA RequestBrings ==
  ASSUME NEW had, NEW has, NEW said \in Seq(Sayings), Comes(had, said, has),
         NEW op \in {"subscribe", "unsubscribe"}, NEW topics \in SUBSET Topics
  PROVE  /\ said \o M!Request(op, topics) \in Seq(Sayings)
         /\ Comes(had, said \o M!Request(op, topics),
                  IF op = "subscribe" THEN has \cup topics ELSE has \ topics)
<1>1. CASE topics = {}
  <2>1. M!Request(op, topics) = <<>>
    BY <1>1 DEF M!Request
  <2>2. said \o <<>> = said
    OBVIOUS
  <2>3. (IF op = "subscribe" THEN has \cup topics ELSE has \ topics) = has
    BY <1>1
  <2> QED
    BY <2>1, <2>2, <2>3
<1>2. CASE topics # {}
  <2> DEFINE p == [op |-> op, topics |-> topics]
  <2>1. M!Request(op, topics) = <<p>> /\ p \in Sayings
    BY <1>2 DEF M!Request, Sayings
  <2>2. M!After(has, p) = IF op = "subscribe" THEN has \cup topics ELSE has \ topics
    BY DEF M!After
  <2> HIDE DEF p
  <2>3. said \o <<p>> = Append(said, p)
    OBVIOUS
  <2>4. Append(said, p) \in Seq(Sayings)
    BY <2>1
  <2>5. Comes(had, Append(said, p), M!After(has, p))
    BY <2>1, OneMoreBrings
  <2> QED
    BY <2>1, <2>2, <2>3, <2>4, <2>5, Zenon
<1> QED
  BY <1>1, <1>2

LEMMA PingBrings ==
  ASSUME NEW had, NEW has, NEW said \in Seq(Sayings), Comes(had, said, has)
  PROVE  said \o M!Ping \in Seq(Sayings) /\ Comes(had, said \o M!Ping, has)
<1> DEFINE p == [op |-> "ping", topics |-> {}]
<1>1. M!Ping = <<>> \/ M!Ping = <<p>>
  BY DEF M!Ping
<1>2. p \in Sayings /\ M!After(has, p) = has
  BY DEF Sayings, M!After
<1> HIDE DEF p
<1>3. said \o <<>> = said /\ said \o <<p>> = Append(said, p)
      /\ Append(said, p) \in Seq(Sayings)
  BY <1>2
<1> QED
  BY <1>1, <1>2, <1>3, OneMoreBrings

LEMMA ServiceSubscribes ==
  ASSUME Subscribed, NEW n \in 0 .. Len(arrived), M!Service(n)
  PROVE  Subscribed'
<1> DEFINE read == SubSeq(arrived, 1, n)
           streaming == conn = "streaming" \/ M!Has(read, "ack")
           goes == M!Ping \o IF streaming THEN M!Resubscription ELSE <<>>
<1>0. /\ arrived \in Seq(Replies) /\ sent \in Seq(Sayings) /\ n \in Nat
      /\ wanted \in SUBSET Topics /\ subscribed \in SUBSET Topics
      /\ conn \in {"await", "streaming"}
  BY DEF Subscribed, M!Service
<1>1. CASE M!Failed
  BY <1>0, <1>1 DEF M!Failed, Subscribed
<1>2. CASE ~M!Failed
  <2>1. /\ ~M!Refused(read)
        /\ conn' = IF streaming THEN "streaming" ELSE conn
        /\ arrived' = SubSeq(arrived, n + 1, Len(arrived))
        /\ sent' = sent \o goes
        /\ subscribed' = IF streaming THEN wanted ELSE subscribed
        /\ UNCHANGED <<wanted, held>>
    BY <1>2 DEF M!Service
  <2>2. ~M!Has(arrived', "subrefused") => ~M!Has(arrived, "subrefused")
    <3> SUFFICES ASSUME M!Has(arrived, "subrefused")
                 PROVE  M!Has(arrived', "subrefused")
      OBVIOUS
    <3>1. PICK i \in 1 .. Len(arrived) : arrived[i] = "subrefused"
      BY <1>0 DEF M!Has
    <3>2. CASE i <= n
      <4>1. i \in DOMAIN read /\ read[i] = "subrefused"
        BY <1>0, <3>1, <3>2
      <4> QED
        BY <2>1, <4>1 DEF M!Refused, M!Has
    <3>3. CASE ~(i <= n)
      <4>1. i - n \in DOMAIN arrived' /\ arrived'[i - n] = "subrefused"
        BY <1>0, <2>1, <3>1, <3>3
      <4> QED
        BY <4>1 DEF M!Has
    <3> QED
      BY <3>2, <3>3
  <2>3. arrived' \in Seq(Replies)
    BY <1>0, <2>1
  <2> HIDE DEF read
  <2>4. sent' \in Seq(Sayings)
        /\ (Comes(held, sent, subscribed) => Comes(held, sent', subscribed'))
    <3>1. CASE streaming
      <4> DEFINE old == subscribed \ wanted
                 new == wanted \ subscribed
                 s1 == sent \o M!Ping
                 s2 == s1 \o M!Request("unsubscribe", old)
                 s3 == s2 \o M!Request("subscribe", new)
      <4>1. old \in SUBSET Topics /\ new \in SUBSET Topics
            /\ (subscribed \ old) \cup new = wanted
        BY <1>0
      <4>a. M!Ping \in Seq(Sayings)
        <5> DEFINE p == [op |-> "ping", topics |-> {}]
        <5>1. M!Ping = <<>> \/ M!Ping = <<p>>
          BY DEF M!Ping
        <5>2. p \in Sayings
          BY DEF Sayings
        <5> HIDE DEF p
        <5> QED
          BY <5>1, <5>2, OneSaid, Zenon
      <4>b. /\ M!Request("unsubscribe", old) \in Seq(Sayings)
            /\ M!Request("subscribe", new) \in Seq(Sayings)
        <5> HIDE DEF old, new
        <5>1. \A op \in {"subscribe", "unsubscribe"}, topics \in SUBSET Topics :
                M!Request(op, topics) \in Seq(Sayings)
          BY RequestSays
        <5> QED
          BY <4>1, <5>1
      <4>2. sent' = s3
        <5>1. goes = M!Ping \o (M!Request("unsubscribe", old) \o M!Request("subscribe", new))
          BY <3>1 DEF M!Resubscription
        <5> HIDE DEF old, new, goes
        <5>2. sent' = sent \o goes
          BY <2>1
        <5>3. sent \o goes = ((sent \o M!Ping) \o M!Request("unsubscribe", old))
                               \o M!Request("subscribe", new)
          <6> DEFINE b == M!Ping
                     c == M!Request("unsubscribe", old)
                     d == M!Request("subscribe", new)
          <6>1. sent \in Seq(Sayings) /\ b \in Seq(Sayings) /\ c \in Seq(Sayings)
                /\ d \in Seq(Sayings) /\ goes = b \o (c \o d)
            BY <1>0, <4>a, <4>b, <5>1
          <6> HIDE DEF b, c, d
          <6>2. sent \o (b \o (c \o d)) = ((sent \o b) \o c) \o d
            <7>1. b \o (c \o d) = (b \o c) \o d
              BY <6>1
            <7>2. b \o c \in Seq(Sayings)
              BY <6>1
            <7>3. sent \o ((b \o c) \o d) = (sent \o (b \o c)) \o d
              BY <6>1, <7>2
            <7>4. sent \o (b \o c) = (sent \o b) \o c
              BY <6>1
            <7> QED
              BY <7>1, <7>3, <7>4
          <6>3. sent \o goes = ((sent \o b) \o c) \o d
            BY <6>1, <6>2, Zenon
          <6> QED
            BY <6>3 DEF b, c, d
        <5> QED
          BY <5>2, <5>3
      <4> HIDE DEF old, new
      <4>3. s1 \in Seq(Sayings) /\ s2 \in Seq(Sayings) /\ s3 \in Seq(Sayings)
        BY <1>0, <4>a, <4>b
      <4>4. ASSUME Comes(held, sent, subscribed)
            PROVE  Comes(held, s3, wanted)
        <5>1. Comes(held, s1, subscribed)
          BY <1>0, <4>4, PingBrings
        <5> HIDE DEF s1
        <5>2. Comes(held, s2, subscribed \ old)
          BY <4>1, <4>3, <5>1, RequestBrings
        <5> HIDE DEF s2
        <5>3. Comes(held, s3, (subscribed \ old) \cup new)
          BY <4>1, <4>3, <5>2, RequestBrings
        <5> QED
          BY <4>1, <5>3
      <4> HIDE DEF s3
      <4> QED
        BY <2>1, <3>1, <4>2, <4>3, <4>4
    <3>2. CASE ~streaming
      <4>1. goes = <<>>
        BY <3>2 DEF M!Ping
      <4>2. sent' = sent
        BY <1>0, <2>1, <4>1
      <4> QED
        BY <1>0, <2>1, <3>2, <4>2
    <3> QED
      BY <3>1, <3>2
  <2> HIDE DEF streaming, goes
  <2>5. (~M!Has(arrived, "subrefused"))' => Comes(held, sent', subscribed')
    BY <1>0, <2>2, <2>4 DEF Subscribed, M!Has
  <2>6. Comes(held, sent', subscribed') => Comes(held, sent, subscribed)'
    BY <2>1 DEF Comes, Brings, M!After
  <2>7. /\ conn' \in {"none", "await", "streaming"}
        /\ conn' = "await" => subscribed' = {}
        /\ conn' = "streaming" /\ polled' => subscribed' = wanted'
        /\ wanted' \subseteq Topics /\ subscribed' \subseteq Topics
    <3>1. conn = "streaming" => streaming
      BY DEF streaming
    <3> QED
      BY <1>0, <2>1, <3>1 DEF Subscribed
  <2> QED
    BY <2>3, <2>4, <2>5, <2>6, <2>7 DEF Subscribed
<1> QED
  BY <1>1, <1>2

LEMMA BrokerReadsSubscribed ==
  ASSUME Subscribed, NEW reply, M!BrokerReads(reply)
  PROVE  Subscribed'
<1>0. /\ conn # "none" /\ sent # <<>> /\ reply \in M!Answers(Head(sent).op)
      /\ arrived' = Append(arrived, reply)
      /\ held' = IF reply = "subrefused" THEN held ELSE M!After(held, Head(sent))
      /\ sent' = Tail(sent)
      /\ UNCHANGED <<conn, wanted, subscribed, polled>>
      /\ sent \in Seq(Sayings) /\ arrived \in Seq(Replies)
  BY DEF Subscribed, M!BrokerReads
<1>1. reply \in Replies
  BY <1>0 DEF M!Answers, Replies
<1>2. sent' \in Seq(Sayings) /\ arrived' \in Seq(Replies)
  BY <1>0, <1>1
<1>3. M!Has(arrived, "subrefused") \/ reply = "subrefused"
        => M!Has(arrived', "subrefused")
  <2>1. /\ Len(arrived') = Len(arrived) + 1 /\ arrived'[Len(arrived) + 1] = reply
        /\ DOMAIN arrived' = 1 .. Len(arrived) + 1 /\ DOMAIN arrived = 1 .. Len(arrived)
        /\ \A i \in 1 .. Len(arrived) : arrived'[i] = arrived[i]
        /\ Len(arrived) \in Nat
    BY <1>0, <1>1
  <2> QED
    BY <2>1 DEF M!Has
<1>4. ASSUME ~M!Has(arrived', "subrefused")
      PROVE  Comes(held, sent, subscribed)'
  <2>1. Comes(held, sent, subscribed) /\ reply # "subrefused"
    BY <1>0, <1>3, <1>4 DEF Subscribed
  <2>2. Comes(M!After(held, Head(sent)), Tail(sent), subscribed)
    BY <1>0, <2>1, OneReadBrings
  <2> QED
    BY <1>0, <2>1, <2>2 DEF Comes, Brings, M!After
<1>5. (~M!Has(arrived, "subrefused"))' <=> ~M!Has(arrived', "subrefused")
  BY DEF M!Has
<1> QED
  BY <1>0, <1>2, <1>4, <1>5 DEF Subscribed

(* BrokerKnowsWanted holds of every reachable state, for any topics, times *)
(* and number of packets under way.                                        *)
THEOREM BrokerAlwaysKnows ==
  Spec => []BrokerKnowsWanted
<1> DEFINE Inv == part = "mqtt" => Subscribed
<1>1. Init => Inv
  <2> SUFFICES ASSUME M!Init PROVE Subscribed
    BY DEF Init
  <2> QED
    BY DEF M!Init, Subscribed
<1>2. ASSUME Inv, [Next]_vars PROVE Inv'
  <2> SUFFICES ASSUME part = "mqtt", Subscribed PROVE Subscribed'
    BY <1>2, PartStays
  <2>1. CASE M!Failed
    BY <2>1 DEF M!Failed, Subscribed
  <2>2. ASSUME UNCHANGED <<conn, subscribed, sent, arrived, held>>,
               wanted' \subseteq Topics,
               polled' = FALSE \/ UNCHANGED <<wanted, polled>>
        PROVE  Subscribed'
    BY <2>2 DEF Subscribed, M!Has, Comes, Brings, M!After
  <2>3. ASSUME NEW topics \in SUBSET Topics, M!SetTopics(topics) PROVE Subscribed'
    BY <2>2, <2>3 DEF M!SetTopics, M!link
  <2>4. CASE \/ M!BrokerCloses \/ M!RetryNow \/ M!SettingsUnusable \/ M!Tick
             \/ \E spent \in {0, Slow} : M!ConnectFails(spent)
             \/ UNCHANGED <<conn, wanted, subscribed, sent, arrived, held, polled>>
    <3>1. UNCHANGED <<conn, wanted, subscribed, sent, arrived, held, polled>>
      BY <2>4 DEF M!BrokerCloses, M!RetryNow, M!SettingsUnusable, M!Tick,
                  M!ConnectFails, M!link
    <3> QED
      BY <2>2, <3>1 DEF Subscribed
  <2>5. ASSUME NEW spent \in {0, Slow}, M!Connects(spent) PROVE Subscribed'
    <3> DEFINE p == [op |-> "connect", topics |-> {}]
    <3>1. /\ conn' = "await" /\ subscribed' = {} /\ sent' = <<p>>
          /\ arrived' = <<>> /\ held' = {} /\ wanted' = wanted
      BY <2>5 DEF M!Connects
    <3>2. p \in Sayings /\ M!After({}, p) = {}
      BY DEF Sayings, M!After
    <3> HIDE DEF p
    <3>3. Comes({}, <<p>>, {})
      <4>1. <<>> \in Seq(Sayings) /\ Append(<<>>, p) = <<p>>
        OBVIOUS
      <4> QED
        BY <3>2, <4>1, NothingBrings, OneMoreBrings
    <3>4. Comes(held, sent, subscribed)'
      BY <3>1, <3>3 DEF Comes, Brings, M!After
    <3>5. sent' \in Seq(Sayings)
      BY <3>1, <3>2
    <3> QED
      BY <3>1, <3>4, <3>5 DEF Subscribed
  <2>6. CASE M!Next
    BY <2>1, <2>3, <2>4, <2>5, <2>6, ServiceSubscribes, BrokerReadsSubscribed
       DEF M!Next, M!Poll, M!Dropped
  <2> QED
    BY <1>2, <2>4, <2>6 DEF Next, vars, line, mqtt
<1>3. Inv => BrokerKnowsWanted
  BY SettledIs DEF Subscribed, BrokerKnowsWanted, M!BrokerKnowsWanted
<1> QED
  BY <1>1, <1>2, <1>3, PTL DEF Spec
-----------------------------------------------------------------------------
(* A stream that looks late.                                               *)

(* What is assumed: the counter has two halves; what is lost in a row and  *)
(* what may overtake a frame fit in one; a pass takes no more frames than  *)
(* one over what the buffer holds.                                         *)
Hearable ==
  /\ Reorders
  /\ J!Half \in Nat /\ Numbers = 2 * J!Half /\ J!Half >= 2
  /\ {Spread, Batch} \subseteq Nat \ {0} /\ Burst \in Nat
  /\ Spread + Burst <= J!Half /\ Batch <= Capacity + 1

(* The counter that goes with the number k of the stream.                  *)
CounterOf(k) == J!Distance(counter, stream.n - k)

(* Of the numbers beyond the newest that arrived no more than Burst in a   *)
(* row are not under way.                                                  *)
OnTheWay ==
  /\ stream \in [of : Nat, n : Nat]
  /\ newest \in Int /\ -1 <= newest /\ newest < stream.n
  /\ burst \in 0 .. Burst
  /\ \A f \in flight :
       /\ f.n \in Nat /\ f.n < stream.n /\ stream.n - f.n <= Spread
       /\ f.counter = CounterOf(f.n)
  /\ \A k \in Nat :
       newest < k /\ k + Burst < stream.n =>
         \E g \in flight : k <= g.n /\ g.n <= k + Burst
  /\ newest < stream.n - burst - 1 =>
       \E g \in flight : g.n = stream.n - burst - 1

(* Those dropped in a row came in this pass, behind one that was not; or   *)
(* the buffer does not move until the counter has gone round to it.        *)
DroppedInARow ==
  /\ late \in Nat /\ room \in 0 .. Batch
  /\ \/ room < Batch /\ late <= Batch - 1 - room
     \/ J!Holds /\ late <= Batch - 1
     \/ /\ J!Holds /\ next # None /\ newest >= 0
        /\ J!Distance(CounterOf(newest), next) >= J!Half
        /\ late <= Batch + J!Distance(CounterOf(newest), next) - J!Half

(* No number that arrives is far beyond the newest before it.              *)
LEMMA NotFar ==
  ASSUME Hearable, OnTheWay
  PROVE  /\ stream.n \in Nat /\ stream.n - newest <= Spread + Burst + 1
         /\ \A f \in flight : f.n - newest <= Spread + Burst
<1>1. stream.n \in Nat /\ newest \in Int /\ -1 <= newest
      /\ Spread \in Nat /\ Spread >= 1 /\ Burst \in Nat
  BY DEF Hearable, OnTheWay
<1>2. stream.n - newest <= Spread + Burst + 1
  <2> SUFFICES ASSUME stream.n - newest > Spread + Burst + 1 PROVE FALSE
    BY <1>1
  <2>1. newest + 1 \in Nat /\ newest < newest + 1 /\ (newest + 1) + Burst < stream.n
    BY <1>1
  <2>2. PICK g \in flight : newest + 1 <= g.n /\ g.n <= (newest + 1) + Burst
    BY <2>1 DEF OnTheWay
  <2>3. g.n \in Nat /\ stream.n - g.n <= Spread
    BY DEF OnTheWay
  <2> QED
    BY <1>1, <2>2, <2>3
<1>3. ASSUME NEW f \in flight PROVE f.n - newest <= Spread + Burst
  <2>1. f.n \in Nat /\ f.n < stream.n
    BY DEF OnTheWay
  <2> QED
    BY <1>1, <1>2, <2>1
<1> QED
  BY <1>1, <1>2, <1>3

(* A number's counter stays when the radio goes on to the next.            *)
LEMMA SameCounter ==
  ASSUME Hearable, NEW c \in J!Counters, NEW n \in Nat, NEW k \in Int,
         k <= n, n - k <= J!Half + 1
  PROVE  /\ J!Distance(J!Plus1(c), (n + 1) - k) = J!Distance(c, n - k)
         /\ J!Distance(J!Plus1(c), 1) = c
BY DEF Hearable, Reorders, J!Distance, J!Plus1, J!Counters

LEMMA GoesOn ==
  ASSUME Hearable, Buffered, OnTheWay, J!Send \/ J!Lose
  PROVE  OnTheWay' /\ \A k \in Int : k = newest => CounterOf(k)' = CounterOf(k)
<1>0. /\ counter \in J!Counters /\ counter' = J!Plus1(counter) /\ newest' = newest
      /\ stream' = [stream EXCEPT !.n = @ + 1]
      /\ stream \in [of : Nat, n : Nat] /\ newest \in Int /\ -1 <= newest
      /\ newest < stream.n
      /\ Spread \in Nat /\ Spread >= 1 /\ Burst \in Nat /\ Spread <= J!Half
      /\ J!Half \in Nat /\ Spread + Burst <= J!Half
  BY DEF Hearable, OnTheWay, Buffered, Travels, J!Send, J!Lose
<1>1. stream' \in [of : Nat, n : Nat] /\ stream'.n = stream.n + 1 /\ stream.n \in Nat
  BY <1>0
<1>2. \A f \in flight : f.n \in Nat /\ f.n < stream.n /\ stream.n - f.n < Spread
                        /\ f.counter = CounterOf(f.n)
  BY DEF OnTheWay, J!Send, J!Lose, J!Goes
<1>3. \A k \in Int : k <= stream.n /\ stream.n - k <= J!Half + 1 =>
        CounterOf(k)' = CounterOf(k)
  <2> SUFFICES ASSUME NEW k \in Int, k <= stream.n, stream.n - k <= J!Half + 1
               PROVE  CounterOf(k)' = CounterOf(k)
    OBVIOUS
  <2>1. J!Distance(counter', stream'.n - k) = J!Distance(counter, stream.n - k)
    BY <1>0, <1>1, SameCounter
  <2> QED
    BY <2>1 DEF CounterOf, J!Distance
<1>4. \A f \in flight : /\ f.n < stream'.n /\ stream'.n - f.n <= Spread
                        /\ f.counter = CounterOf(f.n)'
  <2> SUFFICES ASSUME NEW f \in flight
               PROVE  /\ f.n < stream'.n /\ stream'.n - f.n <= Spread
                      /\ f.counter = CounterOf(f.n)'
    OBVIOUS
  <2>1. f.n \in Int /\ f.n <= stream.n /\ stream.n - f.n <= J!Half + 1
    BY <1>0, <1>1, <1>2
  <2>2. CounterOf(f.n)' = CounterOf(f.n)
    BY <1>3, <2>1
  <2> QED
    BY <1>0, <1>1, <1>2, <2>1, <2>2
<1>5. CounterOf(newest)' = CounterOf(newest)
  <2>1. stream.n - newest <= J!Half + 1
    BY <1>0, <1>1, NotFar
  <2>2. \A k \in Int : k = newest => CounterOf(k)' = CounterOf(k)
    BY <1>0, <1>1, <1>3, <2>1
  <2> QED
    BY <1>0, <2>2 DEF CounterOf
<1>6. CASE J!Send
  <2>0. PICK p : p = [of |-> stream.of, n |-> stream.n, counter |-> counter]
    OBVIOUS
  <2>1. flight' = flight \cup {p} /\ burst' = 0 /\ p.n = stream.n /\ p.counter = counter
    BY <1>6, <2>0 DEF J!Send
  <2>2. p.counter = CounterOf(p.n)'
    <3>1. J!Distance(J!Plus1(counter), 1) = counter
      BY <1>0, <1>1, SameCounter
    <3>2. stream'.n - p.n = 1
      BY <1>1, <2>1
    <3> QED
      BY <1>0, <2>1, <3>1, <3>2 DEF CounterOf
  <2>3. \A f \in flight' :
          /\ f.n \in Nat /\ f.n < stream'.n /\ stream'.n - f.n <= Spread
          /\ f.counter = CounterOf(f.n)'
    BY <1>0, <1>1, <1>2, <1>4, <2>1, <2>2
  <2>4. ASSUME NEW k \in Nat, newest' < k, k + Burst < stream'.n
        PROVE  \E g \in flight' : k <= g.n /\ g.n <= k + Burst
    <3>1. CASE k + Burst < stream.n
      BY <1>0, <2>1, <2>4, <3>1 DEF OnTheWay
    <3>2. CASE ~(k + Burst < stream.n)
      BY <1>0, <1>1, <2>1, <2>4, <3>2
    <3> QED
      BY <3>1, <3>2
  <2>5. \E g \in flight' : g.n = stream'.n - burst' - 1
    BY <1>1, <2>1
  <2> QED
    BY <1>0, <1>1, <1>5, <2>1, <2>3, <2>4, <2>5 DEF OnTheWay
<1>7. CASE J!Lose
  <2>1. flight' = flight /\ burst' = burst + 1 /\ burst < Burst /\ burst \in Nat
    BY <1>7 DEF J!Lose, OnTheWay
  <2>2. \A f \in flight' :
          /\ f.n \in Nat /\ f.n < stream'.n /\ stream'.n - f.n <= Spread
          /\ f.counter = CounterOf(f.n)'
    BY <1>2, <1>4, <2>1
  <2>3. newest < stream.n - burst - 1 => \E g \in flight : g.n = stream.n - burst - 1
    BY DEF OnTheWay
  <2>4. ASSUME NEW k \in Nat, newest' < k, k + Burst < stream'.n
        PROVE  \E g \in flight' : k <= g.n /\ g.n <= k + Burst
    <3>1. CASE k + Burst < stream.n
      BY <1>0, <2>1, <2>4, <3>1 DEF OnTheWay
    <3>2. CASE ~(k + Burst < stream.n)
      BY <1>0, <1>1, <2>1, <2>3, <2>4, <3>2
    <3> QED
      BY <3>1, <3>2
  <2>5. newest' < stream'.n - burst' - 1 =>
          \E g \in flight' : g.n = stream'.n - burst' - 1
    BY <1>0, <1>1, <2>1, <2>3
  <2> QED
    BY <1>0, <1>1, <1>5, <2>1, <2>2, <2>4, <2>5 DEF OnTheWay
<1> QED
  BY <1>6, <1>7

LEMMA StartsOver ==
  ASSUME Hearable, OnTheWay, NEW c \in J!Counters, J!Restart(c)
  PROVE  OnTheWay'
<1>1. /\ stream' = [of |-> stream.of + 1, n |-> 0] /\ flight' = {}
      /\ burst' = 0 /\ newest' = -1 /\ stream.of \in Nat /\ Burst \in Nat
  BY DEF Hearable, OnTheWay, J!Restart
<1>2. stream' \in [of : Nat, n : Nat] /\ stream'.n = 0
  BY <1>1
<1> QED
  BY <1>1, <1>2 DEF OnTheWay

LEMMA ArrivesOnTheWay ==
  ASSUME Hearable, OnTheWay, NEW f \in flight, J!Push(f)
  PROVE  OnTheWay'
<1>1. /\ UNCHANGED <<stream, counter, burst>> /\ flight' \in {flight, flight \ {f}}
      /\ newest' = IF f.n > newest THEN f.n ELSE newest
      /\ f.n \in Nat /\ f.n < stream.n /\ newest \in Int /\ -1 <= newest
      /\ stream.n \in Nat /\ Burst \in Nat /\ burst \in Nat /\ newest < stream.n
  BY DEF Hearable, OnTheWay, J!Push
<1>2. newest' \in Int /\ -1 <= newest' /\ newest' < stream.n
      /\ newest <= newest' /\ f.n <= newest'
  BY <1>1
<1>3. \A g \in flight : newest' < g.n => g \in flight'
  BY <1>1, <1>2
<1>4. \A k \in Int : CounterOf(k)' = CounterOf(k)
  BY <1>1 DEF CounterOf, J!Distance
<1>5. \A g \in flight' :
        /\ g.n \in Nat /\ g.n < stream.n /\ stream.n - g.n <= Spread
        /\ g.counter = CounterOf(g.n)'
  BY <1>1, <1>4 DEF OnTheWay
<1>6. ASSUME NEW k \in Nat, newest' < k, k + Burst < stream.n
      PROVE  \E g \in flight' : k <= g.n /\ g.n <= k + Burst
  <2>1. PICK g \in flight : k <= g.n /\ g.n <= k + Burst
    BY <1>1, <1>2, <1>6 DEF OnTheWay
  <2>2. g.n \in Nat
    BY DEF OnTheWay
  <2> QED
    BY <1>2, <1>3, <1>6, <2>1, <2>2
<1>7. ASSUME newest' < stream.n - burst - 1
      PROVE  \E g \in flight' : g.n = stream.n - burst - 1
  <2>1. PICK g \in flight : g.n = stream.n - burst - 1
    BY <1>1, <1>2, <1>7 DEF OnTheWay
  <2> QED
    BY <1>3, <1>7, <2>1
<1> QED
  BY <1>1, <1>2, <1>5, <1>6, <1>7 DEF OnTheWay

(* Another of the radio's steps: what was dropped in a row stays.          *)
LEMMA RadioDropped ==
  ASSUME Hearable, Buffered, OnTheWay, DroppedInARow,
         J!Send \/ J!Lose \/ \E c \in J!Counters : J!Restart(c)
  PROVE  DroppedInARow'
<1>1. CASE J!Send \/ J!Lose
  <2>1. CounterOf(newest)' = CounterOf(newest)
    <3>1. PICK k \in Int : k = newest
      BY DEF OnTheWay
    <3>2. CounterOf(k)' = CounterOf(k) /\ newest' = newest
      BY <1>1, <3>1, GoesOn DEF J!Send, J!Lose
    <3> QED
      BY <3>1, <3>2 DEF CounterOf
  <2>2. UNCHANGED <<next, pending, room, newest, late>>
    BY <1>1 DEF J!Send, J!Lose
  <2>3. J!Holds' <=> J!Holds
    BY <2>2, Zenon DEF J!Holds, J!Cardinality
  <2> QED
    BY <2>1, <2>2, <2>3 DEF DroppedInARow
<1>2. ASSUME NEW c \in J!Counters, J!Restart(c) PROVE DroppedInARow'
  <2>1. UNCHANGED <<next, pending, room>> /\ late' = 0 /\ Batch \in Nat /\ Batch >= 1
    BY <1>2 DEF J!Restart, Hearable
  <2>2. J!Holds' <=> J!Holds
    BY <2>1, Zenon DEF J!Holds, J!Cardinality
  <2>3. room \in 0 .. Batch /\ (room < Batch \/ J!Holds)
    BY DEF DroppedInARow
  <2> QED
    BY <2>1, <2>2, <2>3 DEF DroppedInARow
<1> QED
  BY <1>1, <1>2

(* From a dropped frame to one sent after it the distance grows, if that   *)
(* one is dropped too.                                                     *)
LEMMA FartherOn ==
  ASSUME Hearable, NEW c \in J!Counters, NEW to \in J!Counters,
         NEW i \in Nat, NEW j \in Nat, i < j, j <= J!Half + 1, 0 < i,
         J!Distance(J!Distance(c, i), to) >= J!Half,
         J!Distance(J!Distance(c, j), to) >= J!Half
  PROVE  J!Distance(J!Distance(c, i), to) >= J!Distance(J!Distance(c, j), to) + 1
<1> DEFINE x == J!Distance(c, i)
           y == J!Distance(c, j)
<1>0. Numbers \in Nat /\ J!Half \in Nat /\ Numbers = 2 * J!Half /\ J!Half >= 2
      /\ J!Counters = 0 .. Numbers - 1
  BY DEF Hearable, Reorders, J!Counters
<1>1. x \in J!Counters /\ y \in J!Counters /\ (x = y + (j - i) \/ x = y + (j - i) - Numbers)
  BY <1>0 DEF J!Distance
<1> HIDE DEF x, y
<1>2. J!Distance(x, to) >= J!Half /\ J!Distance(y, to) >= J!Half
  BY DEF x, y
<1>3. J!Distance(x, to) >= J!Distance(y, to) + 1
  BY <1>0, <1>1, <1>2 DEF J!Distance
<1> QED
  BY <1>3 DEF x, y

LEMMA ArrivesDropped ==
  ASSUME Hearable, Buffered, OnTheWay, DroppedInARow, NEW f \in flight, J!Push(f)
  PROVE  DroppedInARow'
<1> DEFINE expected == IF next = None THEN f.counter ELSE next
           dropped == J!IsLate(f.counter, expected)
<1>0. /\ room > 0 /\ room' = room - 1 /\ next' = expected
      /\ newest' = (IF f.n > newest THEN f.n ELSE newest)
      /\ late' = (IF ~dropped THEN 0 ELSE IF f.n > newest THEN late + 1 ELSE late)
      /\ UNCHANGED <<stream, counter>>
      /\ (dropped => pending' = pending)
  BY DEF J!Push
<1>1. /\ room \in 0 .. Batch /\ late \in Nat /\ Batch \in Nat /\ Batch >= 1
      /\ room' \in 0 .. Batch /\ room' < Batch
      /\ Numbers \in Nat /\ J!Half \in Nat /\ Numbers = 2 * J!Half /\ J!Half >= 2
      /\ next \in J!Counters \cup {None} /\ None \notin Int
      /\ counter \in J!Counters /\ J!Counters = 0 .. Numbers - 1
      /\ stream.n \in Nat /\ f.n \in Nat /\ f.n < stream.n /\ newest \in Int
      /\ -1 <= newest /\ newest < stream.n /\ f.counter = CounterOf(f.n)
      /\ f.counter \in J!Counters
      /\ Spread \in Nat /\ Burst \in Nat /\ Spread + Burst <= J!Half
  <2>1. room \in 0 .. Batch /\ late \in Nat
    BY DEF DroppedInARow
  <2>2. /\ Batch \in Nat /\ Batch >= 1
        /\ Numbers \in Nat /\ J!Half \in Nat /\ Numbers = 2 * J!Half /\ J!Half >= 2
        /\ None \notin Int /\ J!Counters = 0 .. Numbers - 1
        /\ Spread \in Nat /\ Burst \in Nat /\ Spread + Burst <= J!Half
    BY DEF Hearable, Reorders, J!Counters
  <2>3. /\ stream.n \in Nat /\ f.n \in Nat /\ f.n < stream.n /\ newest \in Int
        /\ -1 <= newest /\ newest < stream.n /\ f.counter = CounterOf(f.n)
    BY DEF OnTheWay
  <2>4. /\ next \in J!Counters \cup {None} /\ counter \in J!Counters
        /\ f.counter \in J!Counters
    BY DEF Buffered, Ahead, Travels
  <2>5. room' \in 0 .. Batch /\ room' < Batch
    BY <1>0, <2>1, <2>2
  <2> QED
    BY <2>1, <2>2, <2>3, <2>4, <2>5
<1>2. CASE ~dropped
  BY <1>0, <1>1, <1>2 DEF DroppedInARow
<1>3. CASE dropped
  <2>1. next # None /\ next' = next /\ next \in J!Counters
    <3>1. CASE next = None
      <4>1. J!Distance(f.counter, f.counter) >= J!Half
        BY <1>3, <3>1 DEF J!IsLate
      <4> QED
        BY <1>1, <4>1 DEF J!Distance
    <3> QED
      BY <1>0, <1>1, <3>1
  <2>2. J!Distance(CounterOf(f.n), next) >= J!Half
    BY <1>1, <1>3, <2>1 DEF J!IsLate
  <2>3. J!Holds' <=> J!Holds
    <3>1. UNCHANGED <<next, pending>>
      BY <1>0, <1>3, <2>1
    <3> QED
      BY <3>1, Zenon DEF J!Holds, J!Cardinality
  <2>4. ASSUME NEW k \in Int PROVE CounterOf(k)' = CounterOf(k)
    BY <1>0 DEF CounterOf, J!Distance
  <2> HIDE DEF dropped, expected
  <2>5. CASE room < Batch /\ late <= Batch - 1 - room
    BY <1>0, <1>1, <1>3, <2>5 DEF DroppedInARow
  <2> DEFINE inThisPass == room < Batch /\ late <= Batch - 1 - room
  <2>6. CASE ~inThisPass /\ ~(f.n > newest)
    <3>1. newest' = newest /\ late' = late
      BY <1>0, <1>3, <2>6
    <3>2. CounterOf(newest)' = CounterOf(newest)
      BY <1>0, <3>1 DEF CounterOf, J!Distance
    <3> QED
      BY <1>1, <2>1, <2>3, <2>6, <3>1, <3>2 DEF DroppedInARow
  <2>7. CASE ~inThisPass /\ f.n > newest
    <3>0. J!Holds
      BY <2>7 DEF DroppedInARow
    <3>1. newest' = f.n /\ late' = late + 1
      BY <1>0, <1>3, <2>7
    <3>2. CounterOf(newest)' = CounterOf(f.n)
      BY <1>0, <3>1 DEF CounterOf, J!Distance
    <3> DEFINE x == J!Distance(CounterOf(f.n), next)
               y == J!Distance(CounterOf(newest), next)
    <3>3. x \in Int
      BY <1>1, <2>1 DEF J!Distance
    <3>4. J!Distance(CounterOf(newest)', next') = x
      BY <2>1, <3>2
    <3>5. late + 1 <= Batch + x - J!Half
      <4>1. CASE late <= Batch - 1
        BY <1>1, <2>2, <3>3, <4>1
      <4>2. CASE newest >= 0 /\ y >= J!Half /\ late <= Batch + y - J!Half
        <5>1. stream.n - newest <= J!Half + 1
          BY <1>1, NotFar
        <5>2. stream.n - f.n \in Nat /\ stream.n - newest \in Nat
              /\ stream.n - f.n < stream.n - newest /\ 0 < stream.n - f.n
          BY <1>1, <2>7
        <5>3. x >= y + 1
          BY <1>1, <2>1, <2>2, <4>2, <5>1, <5>2, FartherOn DEF CounterOf
        <5>4. y \in Int
          <6>1. CounterOf(newest) \in Int
            BY <1>1 DEF CounterOf, J!Distance
          <6> QED
            BY <1>1, <2>1, <6>1 DEF J!Distance
        <5> HIDE DEF x, y
        <5> QED
          BY <1>1, <3>3, <4>2, <5>3, <5>4
      <4> QED
        BY <2>7, <4>1, <4>2 DEF DroppedInARow
    <3> HIDE DEF x, y
    <3>6. x >= J!Half
      BY <2>2 DEF x
    <3> QED
      <4>1. /\ room' \in 0 .. Batch /\ late' \in Nat /\ J!Holds' /\ next' # None
            /\ newest' >= 0
        BY <1>1, <2>1, <2>3, <3>0, <3>1
      <4>2. /\ J!Distance(CounterOf(newest)', next') >= J!Half
            /\ late' <= Batch + J!Distance(CounterOf(newest)', next') - J!Half
        BY <3>1, <3>4, <3>5, <3>6
      <4> QED
        BY <4>1, <4>2 DEF DroppedInARow
  <2> QED
    BY <2>5, <2>6, <2>7
<1> QED
  BY <1>2, <1>3

LEMMA WaitingIsFinite ==
  ASSUME Hearable, Buffered
  PROVE  J!Cardinality(DOMAIN pending) \in Nat
<1>1. J!Cardinality(DOMAIN pending) = Cardinality(DOMAIN pending)
  BY Zenon DEF J!Cardinality, Cardinality
<1>2. IsFiniteSet(J!Counters)
  BY FS_Interval DEF Hearable, Reorders, J!Counters
<1>3. IsFiniteSet(DOMAIN pending)
  BY <1>2, FS_Subset DEF Buffered, Ahead
<1> QED
  BY <1>1, <1>3, FS_CardinalityType

LEMMA PassDropped ==
  ASSUME Hearable, Buffered, OnTheWay, DroppedInARow, J!Pass
  PROVE  OnTheWay' /\ DroppedInARow'
<1>1. UNCHANGED <<stream, counter, flight, burst, newest, late>>
  BY DEF J!Pass
<1>2. OnTheWay'
  BY <1>1 DEF OnTheWay, CounterOf, J!Distance
<1>3. room \in 0 .. Batch /\ late \in Nat /\ Batch \in Nat /\ Batch >= 1
  BY DEF DroppedInARow, Hearable
<1>4. CASE (J!PopExpected \/ J!Conceal) /\ room' = 0
  <2>1. ~J!Holds
    <3>1. J!Cardinality(DOMAIN pending) \in Nat /\ Capacity \in Nat
      BY WaitingIsFinite DEF Hearable, Reorders
    <3>2. CASE J!PopExpected
      BY <3>2 DEF J!PopExpected, J!Holds
    <3>3. CASE J!Conceal
      <4>1. next # None /\ J!Cardinality(DOMAIN pending) >= Capacity
        BY <3>3, Zenon DEF J!Conceal
      <4>2. J!Holds => next = None \/ J!Cardinality(DOMAIN pending) < Capacity
        BY Zenon DEF J!Holds
      <4> QED
        BY <3>1, <4>1, <4>2
    <3> QED
      BY <1>4, <3>2, <3>3
  <2>2. room < Batch /\ late <= Batch - 1 - room
    BY <2>1 DEF DroppedInARow
  <2> QED
    BY <1>1, <1>2, <1>3, <1>4, <2>2 DEF DroppedInARow
<1>5. CASE room < Batch /\ J!Holds /\ room' = Batch /\ UNCHANGED <<next, pending>>
  <2>1. J!Holds' <=> J!Holds
    BY <1>5, Zenon DEF J!Holds, J!Cardinality
  <2>2. CounterOf(newest)' = CounterOf(newest)
    BY <1>1 DEF CounterOf, J!Distance
  <2>3. CASE late <= Batch - 1
    <3>1. room' \in 0 .. Batch /\ late' \in Nat /\ J!Holds' /\ late' <= Batch - 1
      BY <1>1, <1>3, <1>5, <2>1, <2>3
    <3> QED
      BY <1>2, <3>1 DEF DroppedInARow
  <2>4. CASE /\ next # None /\ newest >= 0
             /\ J!Distance(CounterOf(newest), next) >= J!Half
             /\ late <= Batch + J!Distance(CounterOf(newest), next) - J!Half
    <3>1. /\ room' \in 0 .. Batch /\ late' \in Nat /\ J!Holds' /\ next' # None
          /\ newest' >= 0
      BY <1>1, <1>3, <1>5, <2>1, <2>4
    <3>2. /\ J!Distance(CounterOf(newest)', next') >= J!Half
          /\ late' <= Batch + J!Distance(CounterOf(newest)', next') - J!Half
      BY <1>1, <1>5, <2>2, <2>4
    <3> QED
      BY <1>2, <3>1, <3>2 DEF DroppedInARow
  <2> QED
    BY <1>2, <1>3, <2>3, <2>4 DEF DroppedInARow
<1> QED
  BY <1>4, <1>5 DEF J!Pass

(* HeardAgain holds of every reachable state, for any size of the counter  *)
(* and of the buffer, wherever a new stream begins: the buffer moves on    *)
(* within the pass or not at all, and then the counter comes round.        *)
THEOREM AlwaysHeardAgain ==
  ASSUME Hearable
  PROVE  Spec => []HeardAgain
<1> DEFINE Inv == part = "receive" => Buffered /\ OnTheWay /\ DroppedInARow
<1>0. Reorders
  BY DEF Hearable
<1>1. Init => Inv
  <2> SUFFICES ASSUME J!Init PROVE Buffered /\ OnTheWay /\ DroppedInARow
    BY DEF Init
  <2>1. Buffered
    BY <1>0, InitBuffered
  <2>2. OnTheWay
    <3>1. stream = [of |-> 0, n |-> 0] /\ newest = -1 /\ burst = 0 /\ flight = {}
          /\ Burst \in Nat
      BY DEF J!Init, Hearable
    <3>2. stream \in [of : Nat, n : Nat] /\ stream.n = 0
      BY <3>1
    <3> QED
      BY <3>1, <3>2 DEF OnTheWay
  <2>3. DroppedInARow
    BY DEF J!Init, DroppedInARow, J!Holds, Hearable
  <2> QED
    BY <2>1, <2>2, <2>3
<1>2. ASSUME Inv, [Next]_vars PROVE Inv'
  <2> SUFFICES ASSUME part = "receive", Buffered, OnTheWay, DroppedInARow
               PROVE  Buffered' /\ OnTheWay' /\ DroppedInARow'
    BY <1>2, PartStays
  <2>1. CASE J!Next
    <3>1. Buffered'
      BY <1>0, <2>1, RadioBuffered, PushBuffered, PassBuffered DEF J!Next
    <3>2. OnTheWay'
      BY <2>1, GoesOn, StartsOver, ArrivesOnTheWay, PassDropped DEF J!Next
    <3>3. DroppedInARow'
      BY <2>1, RadioDropped, ArrivesDropped, PassDropped DEF J!Next
    <3> QED
      BY <3>1, <3>2, <3>3
  <2>2. CASE UNCHANGED received
    <3>1. Buffered'
      BY <2>2 DEF received, Buffered, Ahead, Travels
    <3>2. OnTheWay'
      BY <2>2 DEF received, OnTheWay, CounterOf, J!Distance
    <3>3. J!Holds' <=> J!Holds
      BY <2>2, Zenon DEF received, J!Holds, J!Cardinality
    <3>4. CounterOf(newest)' = CounterOf(newest)
      BY <2>2 DEF received, CounterOf, J!Distance
    <3>5. DroppedInARow'
      BY <2>2, <3>3, <3>4 DEF received, DroppedInARow
    <3> QED
      BY <3>1, <3>2, <3>5
  <2> QED
    BY <1>2, <2>1, <2>2 DEF Next, vars
<1>3. Inv => HeardAgain
  <2> SUFFICES ASSUME Buffered, OnTheWay, DroppedInARow
               PROVE  late <= J!Half + Capacity
    BY DEF HeardAgain, J!HeardAgain
  <2>1. /\ late \in Nat /\ Batch \in Nat /\ Capacity \in Nat /\ Batch <= Capacity + 1
        /\ J!Half \in Nat /\ Numbers = 2 * J!Half /\ J!Half >= 2 /\ room \in 0 .. Batch
    BY DEF DroppedInARow, Hearable, Reorders
  <2>2. CASE late <= Batch - 1
    BY <2>1, <2>2
  <2>3. CASE room < Batch /\ late <= Batch - 1 - room
    BY <2>1, <2>3
  <2>4. CASE /\ next # None /\ newest >= 0
             /\ late <= Batch + J!Distance(CounterOf(newest), next) - J!Half
    <3>1. /\ counter \in J!Counters /\ next \in J!Counters
          /\ J!Counters = 0 .. Numbers - 1
      BY <2>4 DEF Buffered, Ahead, Travels, J!Counters
    <3>2. stream.n - newest \in Nat /\ stream.n - newest <= J!Half + 1
      <4>1. stream.n - newest <= Spread + Burst + 1
            /\ stream.n \in Nat /\ newest \in Int /\ newest < stream.n
            /\ Spread \in Nat /\ Burst \in Nat /\ Spread + Burst <= J!Half
        BY NotFar DEF OnTheWay, Hearable
      <4> QED
        BY <2>1, <4>1
    <3>3. CounterOf(newest) \in J!Counters
      BY <2>1, <3>1, <3>2 DEF CounterOf, J!Distance
    <3>4. J!Distance(CounterOf(newest), next) \in 0 .. Numbers - 1
      BY <2>1, <3>1, <3>3 DEF J!Distance
    <3> QED
      BY <2>1, <2>4, <3>4
  <2> QED
    BY <2>2, <2>3, <2>4 DEF DroppedInARow
<1> QED
  BY <1>1, <1>2, <1>3, PTL DEF Spec
-----------------------------------------------------------------------------
(* The order of what is played.                                            *)

(* What is assumed: half a turn of the counter has room for what the radio *)
(* may send, losses and all, while the buffer fills and a pass fills it    *)
(* beyond that, and for what may overtake a frame.                         *)
Roomy ==
  /\ Reorders
  /\ J!Half \in Nat /\ Numbers = 2 * J!Half
  /\ {Spread, Batch} \subseteq Nat \ {0} /\ Burst \in Nat
  /\ (Burst + 1) * (Capacity + Batch - 1) + Spread - 1 <= J!Half

(* How long ago the radio sent the frame with this counter.                *)
Since(c) == J!Distance(counter, c)

(* The number in the stream of the frame the buffer expects.               *)
Due == IF next = None THEN 0 ELSE stream.n - Since(next)

(* A number from k to l is under way or waits.                             *)
AtHand(k, l) ==
  \/ \E g \in flight : k <= g.n /\ g.n <= l
  \/ \E c \in DOMAIN pending : k <= pending[c].n /\ pending[c].n <= l

(* A pass adds no more to what the buffer holds than it may push.          *)
Fits ==
  /\ burst \in 0 .. Burst /\ room \in 0 .. Batch /\ stream.n \in Nat
  /\ J!Cardinality(DOMAIN pending) + room <= Capacity + Batch - 1

(* The counter tells the number: what is under way is young, and what      *)
(* waits is not before what is due nor that half a turn ago.               *)
Numbered ==
  /\ \A f \in flight :
       /\ f.n \in Nat /\ f.n = stream.n - Since(f.counter)
       /\ 1 <= Since(f.counter) /\ Since(f.counter) <= Spread
  /\ \A c \in DOMAIN pending :
       /\ pending[c].n = stream.n - Since(c)
       /\ 1 <= Since(c) /\ Since(c) <= Since(next)
  /\ next # None => Since(next) <= J!Half
  /\ last # None => next # None /\ last.n = Due - 1

(* Of the numbers from the due one on no more than Burst in a row are      *)
(* missing.                                                                *)
FewMissing ==
  /\ \A k \in Int : Due <= k /\ k + Burst < stream.n => AtHand(k, k + Burst)
  /\ \A k \in Int : Due <= k /\ k = stream.n - burst - 1 => AtHand(k, k)

InStep == Fits /\ Numbered /\ FewMissing

(* Counters of a turn and the distances between them.                      *)
LEMMA TurnOf ==
  ASSUME Roomy, NEW n \in J!Counters, NEW c \in J!Counters
  PROVE  /\ J!Distance(n, c) \in 0 .. Numbers - 1
         /\ J!Plus1(n) \in J!Counters
         /\ J!Distance(J!Plus1(n), n) = 1
         /\ J!Distance(n, c) < Numbers - 1 =>
              J!Distance(J!Plus1(n), c) = J!Distance(n, c) + 1
         /\ J!Distance(n, c) >= 1 =>
              J!Distance(n, J!Plus1(c)) = J!Distance(n, c) - 1
BY DEF Roomy, Reorders, J!Distance, J!Plus1, J!Counters

LEMMA Between ==
  ASSUME Roomy, NEW n \in J!Counters, NEW c \in J!Counters, NEW d \in J!Counters
  PROVE  /\ J!Distance(n, c) = J!Distance(n, d) => c = d
         /\ J!Distance(n, c) <= J!Distance(n, d) =>
              J!Distance(c, d) = J!Distance(n, d) - J!Distance(n, c)
         /\ J!Distance(n, c) > J!Distance(n, d) =>
              J!Distance(c, d) = Numbers + J!Distance(n, d) - J!Distance(n, c)
BY DEF Roomy, Reorders, J!Distance, J!Counters

LEMMA Multiples ==
  ASSUME NEW a \in Nat, NEW i \in Nat, NEW j \in Nat, i < j
  PROVE  /\ a * i \in Nat /\ a * j \in Nat
         /\ a * i + a <= a * j
<1>1. PICK d \in Nat : j = (i + 1) + d
  <2>1. j - (i + 1) \in Nat /\ j = (i + 1) + (j - (i + 1))
    OBVIOUS
  <2> QED
    BY <2>1
<1>2. a * j = a * i + a + a * d
  BY <1>1
<1>3. a * i \in Nat /\ a * j \in Nat /\ a * d \in Nat
  OBVIOUS
<1> QED
  BY <1>2, <1>3

LEMMA Spreads ==
  ASSUME Roomy
  PROVE  /\ Spread \in Nat /\ Spread >= 1 /\ Batch \in Nat /\ Batch >= 1
         /\ Burst \in Nat /\ Capacity \in Nat /\ Capacity >= 1
         /\ J!Half \in Nat /\ Numbers = 2 * J!Half /\ J!Half >= 1
         /\ Spread <= J!Half
<1>1. /\ Spread \in Nat /\ Spread >= 1 /\ Batch \in Nat /\ Batch >= 1
      /\ Burst \in Nat /\ Capacity \in Nat /\ Capacity >= 1
      /\ J!Half \in Nat /\ Numbers = 2 * J!Half /\ J!Half >= 1
  BY DEF Roomy, Reorders
<1>2. PICK m \in Nat : m = Capacity + Batch - 1 /\ m >= 1
  BY <1>1
<1>3. (Burst + 1) * 0 + (Burst + 1) <= (Burst + 1) * m
  <2>1. Burst + 1 \in Nat /\ 0 < m
    BY <1>1, <1>2
  <2> QED
    BY <2>1, Multiples
<1>4. (Burst + 1) * 0 = 0 /\ (Burst + 1) * m \in Nat
  BY <1>1
<1>5. (Burst + 1) * m + Spread - 1 <= J!Half
  BY <1>2 DEF Roomy
<1> QED
  BY <1>1, <1>3, <1>4, <1>5

(* While a pass may push, the frame due is less than half a turn ago: of   *)
(* each Burst + 1 numbers since then one waits.                            *)
LEMMA RoomAhead ==
  ASSUME Roomy, Buffered, InStep, next # None, J!Goes
  PROVE  Since(next) < J!Half
<1> DEFINE most == Capacity + Batch - 1
           At(j) == (Burst + 1) * j
           Chunks == 0 .. most - 1
<1>1. /\ most \in Nat /\ most >= 1 /\ Burst \in Nat /\ Spread \in Nat /\ J!Half \in Nat
      /\ At(most) + Spread - 1 <= J!Half
  BY Spreads DEF Roomy
<1>2. \A i \in Nat, j \in Nat : i < j => At(i) + Burst < At(j)
  <2> SUFFICES ASSUME NEW i \in Nat, NEW j \in Nat, i < j
               PROVE  At(i) + Burst < At(j)
    OBVIOUS
  <2>1. (Burst + 1) * i + (Burst + 1) <= (Burst + 1) * j
        /\ (Burst + 1) * i \in Nat /\ (Burst + 1) * j \in Nat
    BY <1>1, Multiples
  <2> QED
    BY <1>1, <2>1
<1>3. \A j \in Nat : At(j) \in Nat
  BY <1>1
<1> HIDE DEF At
<1>4. /\ next \in J!Counters /\ counter \in J!Counters /\ Since(next) \in Nat
      /\ stream.n \in Nat /\ Due = stream.n - Since(next)
  <2>1. next \in J!Counters /\ counter \in J!Counters /\ Numbers \in Nat
    BY DEF Buffered, Ahead, Travels, Roomy, Reorders
  <2>2. Since(next) \in 0 .. Numbers - 1
    BY <2>1, TurnOf DEF Since
  <2> QED
    BY <2>1, <2>2 DEF Due, InStep, Fits
<1> SUFFICES ASSUME Since(next) >= J!Half PROVE FALSE
  BY <1>1, <1>4
<1>5. \A j \in Chunks : \E c \in DOMAIN pending :
        Due + At(j) <= pending[c].n /\ pending[c].n <= Due + At(j) + Burst
  <2> SUFFICES ASSUME NEW j \in Chunks
               PROVE  \E c \in DOMAIN pending :
                        /\ Due + At(j) <= pending[c].n
                        /\ pending[c].n <= Due + At(j) + Burst
    OBVIOUS
  <2>1. j \in Nat /\ At(j) \in Nat /\ At(most) \in Nat /\ At(j) + Burst < At(most)
    BY <1>1, <1>2, <1>3
  <2>2. Due + At(most) <= stream.n + 1 - Spread /\ Spread >= 1
    BY <1>1, <1>4, <2>1, Spreads
  <2>3. Due + At(j) \in Int /\ Due <= Due + At(j) /\ (Due + At(j)) + Burst < stream.n
    BY <1>1, <1>4, <2>1, <2>2
  <2>4. AtHand(Due + At(j), (Due + At(j)) + Burst)
    BY <2>3 DEF InStep, FewMissing
  <2>5. ASSUME NEW g \in flight PROVE ~(g.n <= (Due + At(j)) + Burst)
    <3>1. stream.n - g.n < Spread /\ g.n \in Nat
      BY DEF J!Goes, InStep, Numbered
    <3> QED
      BY <1>1, <1>4, <2>1, <2>2, <3>1
  <2> QED
    BY <2>4, <2>5 DEF AtHand
<1> DEFINE one == [j \in Chunks |->
                   CHOOSE c \in DOMAIN pending :
                     Due + At(j) <= pending[c].n /\ pending[c].n <= Due + At(j) + Burst]
<1>6. \A j \in Chunks : /\ one[j] \in DOMAIN pending
                        /\ Due + At(j) <= pending[one[j]].n
                        /\ pending[one[j]].n <= Due + At(j) + Burst
  BY <1>5
<1>7. one \in [Chunks -> DOMAIN pending]
  BY <1>6
<1> HIDE DEF one
<1>8. IsFiniteSet(Chunks) /\ Cardinality(Chunks) = most
  <2>1. 0 \in Int /\ most - 1 \in Int /\ ~(0 > most - 1) /\ (most - 1) - 0 + 1 = most
    BY <1>1
  <2> QED
    BY <2>1, FS_Interval
<1>9. IsFiniteSet(DOMAIN pending) /\ Cardinality(DOMAIN pending) < most
  <2>1. IsFiniteSet(J!Counters)
    BY FS_Interval DEF Roomy, Reorders, J!Counters
  <2>2. IsFiniteSet(DOMAIN pending)
    BY <2>1, FS_Subset DEF Buffered, Ahead
  <2>3. J!Cardinality(DOMAIN pending) = Cardinality(DOMAIN pending)
    BY Zenon DEF J!Cardinality, Cardinality
  <2>4. Cardinality(DOMAIN pending) \in Nat
    BY <2>2, FS_CardinalityType
  <2>5. room \in Nat /\ room > 0 /\ Cardinality(DOMAIN pending) + room <= most
    BY <2>3, Spreads DEF J!Goes, InStep, Fits
  <2> QED
    BY <1>1, <2>2, <2>4, <2>5
<1>10. PICK i \in Chunks, j \in Chunks : i # j /\ one[i] = one[j]
  BY <1>7, <1>8, <1>9, FS_PigeonHole
<1>11. pending[one[i]].n \in Int
  <2>1. one[i] \in DOMAIN pending /\ one[i] \in J!Counters
    BY <1>6, <1>10 DEF Buffered, Ahead
  <2>2. pending[one[i]].n = stream.n - Since(one[i])
    BY <2>1 DEF InStep, Numbered
  <2>3. Since(one[i]) \in 0 .. Numbers - 1 /\ Numbers \in Nat
    BY <1>4, <2>1, TurnOf DEF Since, Roomy, Reorders
  <2> QED
    BY <1>4, <2>2, <2>3
<1>12. i \in Nat /\ j \in Nat /\ (i < j \/ j < i)
  BY <1>1, <1>10
<1>13. At(i) + Burst < At(j) \/ At(j) + Burst < At(i)
  BY <1>2, <1>12
<1>14. /\ Due + At(i) <= pending[one[i]].n /\ pending[one[i]].n <= Due + At(i) + Burst
       /\ Due + At(j) <= pending[one[i]].n /\ pending[one[i]].n <= Due + At(j) + Burst
  BY <1>6, <1>10
<1> QED
  BY <1>1, <1>3, <1>4, <1>11, <1>12, <1>13, <1>14

LEMMA RadioInStep ==
  ASSUME Roomy, Buffered, InStep, J!Send \/ J!Lose
  PROVE  InStep'
<1>1. /\ counter \in J!Counters /\ counter' = J!Plus1(counter)
      /\ next \in J!Counters \cup {None}
      /\ stream' = [stream EXCEPT !.n = @ + 1]
      /\ UNCHANGED <<next, pending, room, last>>
      /\ \A f \in flight : stream.n - f.n < Spread
  BY DEF Buffered, Ahead, Travels, J!Send, J!Lose, J!Goes
<1>0. /\ Burst \in Nat /\ Spread \in Nat /\ Spread >= 1 /\ Spread <= J!Half
      /\ J!Half \in Nat /\ Numbers = 2 * J!Half /\ J!Half >= 1
  BY Spreads
<1>2. stream.n \in Nat /\ stream'.n = stream.n + 1 /\ stream'.n \in Nat
  BY <1>1 DEF InStep, Fits
<1>3. \A c \in J!Counters : /\ Since(c) \in Nat
                            /\ Since(c) < J!Half => Since(c)' = Since(c) + 1
  <2> SUFFICES ASSUME NEW c \in J!Counters
               PROVE  /\ Since(c) \in Nat
                      /\ Since(c) < J!Half => Since(c)' = Since(c) + 1
    OBVIOUS
  <2>1. /\ J!Distance(counter, c) \in 0 .. Numbers - 1
        /\ J!Distance(counter, c) < Numbers - 1 =>
             J!Distance(J!Plus1(counter), c) = J!Distance(counter, c) + 1
    BY <1>1, TurnOf
  <2>2. Since(c)' = J!Distance(J!Plus1(counter), c)
    BY <1>1 DEF Since, J!Distance
  <2> QED
    BY <1>0, <2>1, <2>2 DEF Since
<1>4. next # None => /\ Since(next) < J!Half /\ Since(next) \in Nat
                     /\ Since(next)' = Since(next) + 1
  <2> SUFFICES ASSUME next # None
               PROVE  /\ Since(next) < J!Half /\ Since(next) \in Nat
                      /\ Since(next)' = Since(next) + 1
    OBVIOUS
  <2>1. Since(next) < J!Half
    BY RoomAhead DEF J!Send, J!Lose
  <2>2. \A c \in J!Counters : c = next => Since(c)' = Since(next)'
    BY <1>1 DEF Since, J!Distance
  <2> QED
    BY <1>1, <1>3, <2>1, <2>2
<1>5. Due' = Due
  <2>1. CASE next = None
    BY <1>1, <2>1 DEF Due
  <2>2. CASE next # None
    BY <1>1, <1>2, <1>4, <2>2 DEF Due
  <2> QED
    BY <2>1, <2>2
<1>6. \A c \in DOMAIN pending :
        /\ pending[c].n = stream'.n - Since(c)'
        /\ 1 <= Since(c)' /\ Since(c)' <= Since(next)'
  <2> SUFFICES ASSUME NEW c \in DOMAIN pending
               PROVE  /\ pending[c].n = stream'.n - Since(c)'
                      /\ 1 <= Since(c)' /\ Since(c)' <= Since(next)'
    OBVIOUS
  <2>1. c \in J!Counters /\ next # None
    BY DEF Buffered, Ahead
  <2>2. pending[c].n = stream.n - Since(c) /\ 1 <= Since(c) /\ Since(c) <= Since(next)
    BY DEF InStep, Numbered
  <2>3. Since(c) \in Nat /\ Since(c) < J!Half
    BY <1>0, <1>3, <1>4, <2>1, <2>2
  <2> QED
    BY <1>2, <1>3, <1>4, <2>1, <2>2, <2>3
<1>7. \A f \in flight :
        /\ f.n \in Nat /\ f.n = stream'.n - Since(f.counter)'
        /\ 1 <= Since(f.counter)' /\ Since(f.counter)' <= Spread
  <2> SUFFICES ASSUME NEW f \in flight
               PROVE  /\ f.n \in Nat /\ f.n = stream'.n - Since(f.counter)'
                      /\ 1 <= Since(f.counter)' /\ Since(f.counter)' <= Spread
    OBVIOUS
  <2>1. f.counter \in J!Counters
    BY DEF Buffered, Travels
  <2>2. /\ f.n \in Nat /\ f.n = stream.n - Since(f.counter) /\ 1 <= Since(f.counter)
        /\ stream.n - f.n < Spread
    BY <1>1 DEF InStep, Numbered
  <2>3. Since(f.counter) \in Nat
    BY <1>3, <2>1
  <2>4. Since(f.counter) < Spread
    BY <1>0, <1>2, <2>2, <2>3
  <2>5. Since(f.counter)' = Since(f.counter) + 1
    BY <1>0, <1>3, <2>1, <2>3, <2>4
  <2> QED
    BY <1>0, <1>2, <2>2, <2>3, <2>4, <2>5
<1>8. (next # None => Since(next)' <= J!Half) /\ (last # None => next # None /\ last.n = Due - 1)
  BY <1>0, <1>4 DEF InStep, Numbered
<1>9. (Due <= stream.n => Due \in Int) /\ Due \in Int
  BY <1>2, <1>4 DEF Due
<1>10. \A k \in Int : Due <= k /\ k + Burst < stream.n => AtHand(k, k + Burst)
  BY DEF InStep, FewMissing
<1>11. J!Cardinality(DOMAIN pending)' = J!Cardinality(DOMAIN pending)
  BY <1>1, Zenon DEF J!Cardinality
<1>12. CASE J!Send
  <2>0. PICK p : p = [of |-> stream.of, n |-> stream.n, counter |-> counter]
    OBVIOUS
  <2>1. /\ flight' = flight \cup {p} /\ burst' = 0
        /\ p.n = stream.n /\ p.counter = counter
    BY <1>12, <2>0 DEF J!Send
  <2>2. Fits'
    BY <1>0, <1>1, <1>2, <1>11, <2>1 DEF InStep, Fits
  <2>3. p.n \in Nat /\ p.n = stream'.n - Since(p.counter)' /\ Since(p.counter)' = 1
    <3>1. J!Distance(J!Plus1(counter), counter) = 1
      BY <1>1, TurnOf
    <3>2. Since(p.counter)' = 1
      BY <1>1, <2>1, <3>1 DEF Since, J!Distance
    <3> QED
      BY <1>2, <2>1, <3>2
  <2>4. \A f \in flight' :
          /\ f.n \in Nat /\ f.n = stream'.n - Since(f.counter)'
          /\ 1 <= Since(f.counter)' /\ Since(f.counter)' <= Spread
    <3> SUFFICES ASSUME NEW f \in flight'
                 PROVE  /\ f.n \in Nat /\ f.n = stream'.n - Since(f.counter)'
                        /\ 1 <= Since(f.counter)' /\ Since(f.counter)' <= Spread
      OBVIOUS
    <3>1. CASE f \in flight
      BY <1>7, <3>1
    <3>2. CASE f = p
      BY <1>0, <2>3, <3>2
    <3> QED
      BY <2>1, <3>1, <3>2
  <2>5. Numbered'
    BY <1>1, <1>5, <1>6, <1>8, <2>4 DEF Numbered
  <2>6. \A k \in Int, l \in Int : /\ AtHand(k, l) => AtHand(k, l)'
                                  /\ k <= stream.n /\ stream.n <= l => AtHand(k, l)'
    BY <1>1, <2>1 DEF AtHand
  <2>7. FewMissing'
    <3>1. ASSUME NEW k \in Int, Due' <= k, k + Burst < stream'.n
          PROVE  AtHand(k, k + Burst)'
      <4>1. k + Burst \in Int /\ (k + Burst < stream.n \/ (k <= stream.n /\ stream.n <= k + Burst))
        BY <1>0, <1>2, <3>1
      <4>2. k + Burst < stream.n => AtHand(k, k + Burst)
        BY <1>5, <1>10, <3>1
      <4> QED
        BY <2>6, <4>1, <4>2
    <3>2. ASSUME NEW k \in Int, Due' <= k, k = stream'.n - burst' - 1
          PROVE  AtHand(k, k)'
      <4>1. k = stream.n
        BY <1>2, <2>1, <3>2
      <4> QED
        BY <1>2, <2>6, <4>1
    <3> QED
      BY <3>1, <3>2 DEF FewMissing
  <2> QED
    BY <2>2, <2>5, <2>7 DEF InStep
<1>13. CASE J!Lose
  <2>1. flight' = flight /\ burst' = burst + 1 /\ burst < Burst /\ burst \in Nat
    BY <1>13 DEF J!Lose, InStep, Fits
  <2>2. Fits'
    BY <1>0, <1>1, <1>2, <1>11, <2>1 DEF InStep, Fits
  <2>3. Numbered'
    BY <1>1, <1>5, <1>6, <1>7, <1>8, <2>1 DEF Numbered
  <2>4. \A k \in Int, l \in Int : AtHand(k, l)' <=> AtHand(k, l)
    BY <1>1, <2>1 DEF AtHand
  <2>5. \A k \in Int : Due <= k /\ k = stream.n - burst - 1 => AtHand(k, k)
    BY DEF InStep, FewMissing
  <2>6. FewMissing'
    <3>1. ASSUME NEW k \in Int, Due' <= k, k + Burst < stream'.n
          PROVE  AtHand(k, k + Burst)'
      <4>1. CASE k + Burst < stream.n
        <5>1. AtHand(k, k + Burst)
          BY <1>5, <1>10, <3>1, <4>1
        <5> QED
          BY <1>0, <2>4, <5>1
      <4>2. CASE ~(k + Burst < stream.n)
        <5>1. PICK m \in Int : m = stream.n - burst - 1
          BY <1>2, <2>1
        <5>2. k <= m /\ m <= k + Burst /\ Due <= m
          BY <1>0, <1>2, <1>5, <1>9, <2>1, <3>1, <4>2, <5>1
        <5>3. AtHand(m, m)
          BY <2>5, <5>1, <5>2
        <5>4. AtHand(k, k + Burst)
          <6>1. \A g \in flight : g.n \in Nat
            BY DEF InStep, Numbered
          <6>2. \A c \in DOMAIN pending : pending[c].n \in Int
            <7>1. \A c \in DOMAIN pending : c \in J!Counters
              BY DEF Buffered, Ahead
            <7>2. \A c \in DOMAIN pending : pending[c].n = stream.n - Since(c)
              BY DEF InStep, Numbered
            <7> QED
              BY <1>2, <1>3, <7>1, <7>2
          <6>3. k + Burst \in Int
            BY <1>0
          <6> QED
            BY <5>2, <5>3, <6>1, <6>2, <6>3 DEF AtHand
        <5> QED
          BY <1>0, <2>4, <5>4
      <4> QED
        BY <4>1, <4>2
    <3>2. ASSUME NEW k \in Int, Due' <= k, k = stream'.n - burst' - 1
          PROVE  AtHand(k, k)'
      <4>1. k = stream.n - burst - 1
        BY <1>2, <2>1, <3>2
      <4> QED
        BY <1>5, <2>4, <2>5, <3>2, <4>1
    <3> QED
      BY <3>1, <3>2 DEF FewMissing
  <2> QED
    BY <2>2, <2>3, <2>6 DEF InStep
<1> QED
  BY <1>12, <1>13

LEMMA WaitingCounts ==
  ASSUME Roomy, Buffered
  PROVE  /\ IsFiniteSet(DOMAIN pending) /\ Cardinality(DOMAIN pending) \in Nat
         /\ J!Cardinality(DOMAIN pending) = Cardinality(DOMAIN pending)
<1>1. IsFiniteSet(J!Counters)
  BY FS_Interval DEF Roomy, Reorders, J!Counters
<1>2. IsFiniteSet(DOMAIN pending)
  BY <1>1, FS_Subset DEF Buffered, Ahead
<1>3. J!Cardinality(DOMAIN pending) = Cardinality(DOMAIN pending)
  BY Zenon DEF J!Cardinality, Cardinality
<1> QED
  BY <1>2, <1>3, FS_CardinalityType

(* Whether a frame that arrives is taken for late: exactly if it is before *)
(* what is due.                                                            *)
LEMMA LateIs ==
  ASSUME Roomy, Buffered, InStep, next # None, NEW f \in flight
  PROVE  J!IsLate(f.counter, next) <=> f.n < Due
<1>1. f.counter \in J!Counters /\ next \in J!Counters /\ counter \in J!Counters
  BY DEF Buffered, Ahead, Travels
<1>2. Since(f.counter) \in Nat /\ Since(next) \in Nat
  <2>1. Since(f.counter) \in 0 .. Numbers - 1 /\ Since(next) \in 0 .. Numbers - 1
    BY <1>1, TurnOf DEF Since
  <2> QED
    BY <2>1
<1>3. /\ f.n = stream.n - Since(f.counter) /\ stream.n \in Nat
      /\ 1 <= Since(f.counter) /\ Since(f.counter) <= Spread
      /\ Since(next) <= J!Half /\ Due = stream.n - Since(next)
  BY DEF InStep, Fits, Numbered, Due
<1>4. Spread \in Nat /\ Spread <= J!Half /\ J!Half \in Nat /\ Numbers = 2 * J!Half
  BY Spreads
<1>5. CASE Since(f.counter) <= Since(next)
  <2>1. J!Distance(f.counter, next) = Since(next) - Since(f.counter)
    BY <1>1, <1>5, Between DEF Since
  <2> QED
    BY <1>2, <1>3, <1>4, <1>5, <2>1 DEF J!IsLate
<1>6. CASE Since(f.counter) > Since(next)
  <2>1. J!Distance(f.counter, next) = Numbers + Since(next) - Since(f.counter)
    BY <1>1, <1>6, Between DEF Since
  <2> QED
    BY <1>2, <1>3, <1>4, <1>6, <2>1 DEF J!IsLate
<1> QED
  BY <1>2, <1>5, <1>6

LEMMA ArrivesInStep ==
  ASSUME Roomy, Buffered, InStep, NEW f \in flight, J!Push(f)
  PROVE  InStep'
<1>1. /\ f.counter \in J!Counters /\ counter \in J!Counters
      /\ next \in J!Counters \cup {None} /\ None \notin J!Counters
      /\ DOMAIN pending \subseteq J!Counters
      /\ next = None => DOMAIN pending = {}
  BY DEF Buffered, Ahead, Travels, Roomy, Reorders, J!Counters
<1>2. /\ UNCHANGED <<stream, counter, burst, last>>
      /\ room > 0 /\ room' = room - 1
      /\ flight' \subseteq flight /\ flight \ {f} \subseteq flight'
      /\ next' = IF next = None THEN f.counter ELSE next
      /\ \/ pending' = pending
         \/ pending' = [c \in DOMAIN pending \cup {f.counter} |->
                          IF c = f.counter THEN f ELSE pending[c]]
  BY DEF J!Push
<1>3. /\ burst \in 0 .. Burst /\ room \in 0 .. Batch /\ stream.n \in Nat
      /\ Batch \in Nat /\ Burst \in Nat /\ Capacity \in Nat
      /\ Spread \in Nat /\ Spread <= J!Half /\ J!Half \in Nat /\ J!Half >= 1
      /\ Numbers = 2 * J!Half
  BY Spreads DEF InStep, Fits
<1>4. \A c \in J!Counters : Since(c) \in Nat /\ Since(c)' = Since(c)
  <2> SUFFICES ASSUME NEW c \in J!Counters
               PROVE  Since(c) \in Nat /\ Since(c)' = Since(c)
    OBVIOUS
  <2>1. Since(c) \in 0 .. Numbers - 1
    BY <1>1, TurnOf DEF Since
  <2>2. Since(c)' = Since(c)
    BY <1>2 DEF Since, J!Distance
  <2> QED
    BY <2>1, <2>2
<1>5. /\ f.n \in Nat /\ f.n = stream.n - Since(f.counter)
      /\ 1 <= Since(f.counter) /\ Since(f.counter) <= Spread
  BY DEF InStep, Numbered
<1>6. Fits'
  <2>1. /\ J!Cardinality(DOMAIN pending) + room <= Capacity + Batch - 1
    BY DEF InStep, Fits
  <2>2. /\ Cardinality(DOMAIN pending) \in Nat /\ IsFiniteSet(DOMAIN pending)
        /\ J!Cardinality(DOMAIN pending) = Cardinality(DOMAIN pending)
    BY WaitingCounts
  <2>3. J!Cardinality(DOMAIN pending)' = Cardinality(DOMAIN pending')
    BY Zenon DEF J!Cardinality, Cardinality
  <2>4. DOMAIN pending' = DOMAIN pending \/ DOMAIN pending' = DOMAIN pending \cup {f.counter}
    BY <1>2
  <2>5. \/ Cardinality(DOMAIN pending') = Cardinality(DOMAIN pending)
        \/ Cardinality(DOMAIN pending') = Cardinality(DOMAIN pending) + 1
    BY <2>2, <2>4, FS_AddElement
  <2>6. J!Cardinality(DOMAIN pending)' + room' <= Capacity + Batch - 1
    BY <1>2, <1>3, <2>1, <2>2, <2>3, <2>5
  <2> QED
    BY <1>2, <1>3, <2>6 DEF Fits
<1>7. \A g \in flight' :
        /\ g.n \in Nat /\ g.n = stream'.n - Since(g.counter)'
        /\ 1 <= Since(g.counter)' /\ Since(g.counter)' <= Spread
  <2> SUFFICES ASSUME NEW g \in flight'
               PROVE  /\ g.n \in Nat /\ g.n = stream'.n - Since(g.counter)'
                      /\ 1 <= Since(g.counter)' /\ Since(g.counter)' <= Spread
    OBVIOUS
  <2>1. g \in flight /\ g.counter \in J!Counters
    BY <1>2 DEF Buffered, Travels
  <2>2. /\ g.n \in Nat /\ g.n = stream.n - Since(g.counter)
        /\ 1 <= Since(g.counter) /\ Since(g.counter) <= Spread
    BY <2>1 DEF InStep, Numbered
  <2> QED
    BY <1>2, <1>4, <2>1, <2>2
<1>8. CASE next = None
  <2>1. next' = f.counter /\ next' # None /\ last = None /\ last' = None
    BY <1>1, <1>2, <1>8 DEF InStep, Numbered
  <2>2. Since(next)' = Since(f.counter)
    <3>1. Since(next)' = Since(f.counter)'
      BY <2>1 DEF Since, J!Distance
    <3> QED
      BY <1>1, <1>4, <3>1
  <2>3. Due' = f.n
    BY <1>2, <1>5, <2>1, <2>2 DEF Due
  <2>4. /\ pending' = [c \in DOMAIN pending \cup {f.counter} |->
                         IF c = f.counter THEN f ELSE pending[c]]
        /\ DOMAIN pending = {}
    <3>1. J!Distance(f.counter, f.counter) = 0
      BY <1>1 DEF J!Distance, J!Counters, Roomy, Reorders
    <3>2. ~J!IsLate(f.counter, f.counter)
      BY <1>3, <3>1 DEF J!IsLate
    <3> QED
      BY <1>1, <1>8, <3>2 DEF J!Push
  <2>5. DOMAIN pending' = {f.counter} /\ pending'[f.counter] = f
    BY <2>4
  <2>6. Numbered'
    <3>1. \A c \in DOMAIN pending' :
            /\ pending'[c].n = stream'.n - Since(c)'
            /\ 1 <= Since(c)' /\ Since(c)' <= Since(next)'
      BY <1>1, <1>2, <1>4, <1>5, <2>2, <2>5
    <3>2. next' # None => Since(next)' <= J!Half
      BY <1>1, <1>3, <1>4, <1>5, <2>2
    <3> QED
      BY <1>7, <2>1, <3>1, <3>2 DEF Numbered
  <2>7. \A k \in Int, l \in Int : AtHand(k, l) => AtHand(k, l)'
    BY <1>2, <2>4, <2>5 DEF AtHand
  <2>8. FewMissing'
    <3>1. Due = 0
      BY <1>8 DEF Due
    <3> QED
      BY <1>2, <1>3, <1>5, <2>3, <2>7, <3>1 DEF InStep, FewMissing
  <2> QED
    BY <1>6, <2>6, <2>8 DEF InStep
<1>9. CASE next # None
  <2>1. next' = next /\ next \in J!Counters
    BY <1>1, <1>2, <1>9
  <2>2. Since(next)' = Since(next) /\ Since(next) \in Nat
    <3>1. Since(next)' = J!Distance(counter', next')
      BY DEF Since, J!Distance
    <3> QED
      BY <1>2, <1>4, <2>1, <3>1 DEF Since
  <2>3. Due' = Due /\ Due \in Int /\ Due = stream.n - Since(next)
    BY <1>2, <1>3, <1>9, <2>1, <2>2 DEF Due
  <2>4. J!IsLate(f.counter, next) <=> f.n < Due
    BY <1>9, LateIs
  <2>5. \A c \in DOMAIN pending :
          /\ pending[c].n = stream.n - Since(c)
          /\ 1 <= Since(c) /\ Since(c) <= Since(next)
    BY DEF InStep, Numbered
  <2>6. (next' # None => Since(next)' <= J!Half)
        /\ (last' # None => next' # None /\ last'.n = Due' - 1)
    BY <1>2, <2>1, <2>2, <2>3 DEF InStep, Numbered
  <2>7. CASE pending' = pending
    <3>1. f.n < Due \/ (f.counter \in DOMAIN pending /\ pending[f.counter].n = f.n)
      <4>1. CASE f.counter \in DOMAIN pending
        BY <1>5, <2>5, <4>1
      <4>2. CASE J!IsLate(f.counter, next)
        BY <2>4, <4>2
      <4>3. CASE f.counter \notin DOMAIN pending /\ ~J!IsLate(f.counter, next)
        <5>1. DOMAIN pending' = DOMAIN pending \cup {f.counter}
          BY <1>9, <4>3 DEF J!Push
        <5> QED
          BY <2>7, <4>3, <5>1
      <4> QED
        BY <4>1, <4>2, <4>3
    <3>2. Numbered'
      <4>1. \A c \in DOMAIN pending' :
              /\ pending'[c].n = stream'.n - Since(c)'
              /\ 1 <= Since(c)' /\ Since(c)' <= Since(next)'
        BY <1>1, <1>2, <1>4, <2>2, <2>5, <2>7
      <4> QED
        BY <1>7, <2>6, <4>1 DEF Numbered
    <3>3. \A k \in Int, l \in Int : Due <= k /\ AtHand(k, l) => AtHand(k, l)'
      <4> SUFFICES ASSUME NEW k \in Int, NEW l \in Int, Due <= k, AtHand(k, l)
                   PROVE  AtHand(k, l)'
        OBVIOUS
      <4>1. ASSUME NEW g \in flight, k <= g.n, g.n <= l PROVE AtHand(k, l)'
        <5>1. CASE g # f
          <6>1. g \in flight'
            BY <1>2, <5>1
          <6> QED
            BY <4>1, <6>1 DEF AtHand
        <5>2. CASE g = f
          BY <1>5, <2>3, <2>7, <3>1, <4>1, <5>2 DEF AtHand
        <5> QED
          BY <5>1, <5>2
      <4>2. ASSUME NEW c \in DOMAIN pending, k <= pending[c].n, pending[c].n <= l
            PROVE  AtHand(k, l)'
        BY <2>7, <4>2 DEF AtHand
      <4> QED
        BY <4>1, <4>2 DEF AtHand
    <3>4. FewMissing'
      BY <1>2, <1>3, <2>3, <3>3 DEF InStep, FewMissing
    <3> QED
      BY <1>6, <3>2, <3>4 DEF InStep
  <2>8. CASE pending' # pending
    <3>1. /\ ~J!IsLate(f.counter, next) /\ f.counter \notin DOMAIN pending
          /\ pending' = [c \in DOMAIN pending \cup {f.counter} |->
                           IF c = f.counter THEN f ELSE pending[c]]
      BY <1>9, <2>8 DEF J!Push
    <3>2. /\ DOMAIN pending' = DOMAIN pending \cup {f.counter}
          /\ pending'[f.counter] = f
          /\ \A c \in DOMAIN pending : pending'[c] = pending[c]
      BY <3>1
    <3>3. Since(f.counter) <= Since(next)
      BY <1>1, <1>3, <1>4, <1>5, <2>2, <2>3, <2>4, <3>1
    <3>4. Numbered'
      <4>1. ASSUME NEW c \in DOMAIN pending'
            PROVE  /\ pending'[c].n = stream'.n - Since(c)'
                   /\ 1 <= Since(c)' /\ Since(c)' <= Since(next)'
        <5>1. CASE c = f.counter
          BY <1>1, <1>2, <1>4, <1>5, <2>2, <3>2, <3>3, <5>1
        <5>2. CASE c \in DOMAIN pending
          <6>1. pending'[c].n = pending[c].n /\ c \in J!Counters
            BY <1>1, <3>2, <5>2
          <6> QED
            BY <1>2, <1>4, <2>2, <2>5, <5>2, <6>1
        <5> QED
          BY <3>2, <5>1, <5>2
      <4> QED
        BY <1>7, <2>6, <4>1 DEF Numbered
    <3>5. \A k \in Int, l \in Int : AtHand(k, l) => AtHand(k, l)'
      <4> SUFFICES ASSUME NEW k \in Int, NEW l \in Int, AtHand(k, l)
                   PROVE  AtHand(k, l)'
        OBVIOUS
      <4>1. ASSUME NEW g \in flight, k <= g.n, g.n <= l PROVE AtHand(k, l)'
        <5>1. g \in flight' \/ (f.counter \in DOMAIN pending' /\ pending'[f.counter] = g)
          BY <1>2, <3>2
        <5> QED
          BY <4>1, <5>1 DEF AtHand
      <4>2. ASSUME NEW c \in DOMAIN pending, k <= pending[c].n, pending[c].n <= l
            PROVE  AtHand(k, l)'
        <5>1. c \in DOMAIN pending' /\ pending'[c] = pending[c]
          BY <3>2
        <5> QED
          BY <4>2, <5>1 DEF AtHand
      <4> QED
        BY <4>1, <4>2 DEF AtHand
    <3>6. FewMissing'
      BY <1>2, <1>3, <2>3, <3>5 DEF InStep, FewMissing
    <3> QED
      BY <1>6, <3>4, <3>6 DEF InStep
  <2> QED
    BY <2>7, <2>8
<1> QED
  BY <1>8, <1>9

(* A frame that goes out is the first that waits, and not before the due.  *)
LEMMA ReleaseInStep ==
  ASSUME Roomy, Buffered, InStep, next # None, NEW c \in DOMAIN pending,
         \A d \in DOMAIN pending : J!Distance(c, next) <= J!Distance(d, next),
         J!Release(c), room' = 0,
         UNCHANGED <<stream, counter, flight, burst>>
  PROVE  InStep' /\ pending[c].n \in Int /\ pending[c].n >= Due
<1>1. /\ counter \in J!Counters /\ next \in J!Counters /\ c \in J!Counters
      /\ DOMAIN pending \subseteq J!Counters /\ None \notin J!Counters
      /\ J!Plus1(c) \in J!Counters
  <2>1. /\ counter \in J!Counters /\ next \in J!Counters /\ c \in J!Counters
        /\ DOMAIN pending \subseteq J!Counters /\ None \notin J!Counters
    BY DEF Buffered, Ahead, Travels, Roomy, Reorders, J!Counters
  <2> QED
    BY <2>1, TurnOf
<1>2. /\ next' = J!Plus1(c) /\ last' = pending[c]
      /\ pending' = [d \in DOMAIN pending \ {c} |-> pending[d]]
      /\ DOMAIN pending' = DOMAIN pending \ {c}
  BY DEF J!Release
<1>3. /\ burst \in 0 .. Burst /\ room \in 0 .. Batch /\ stream.n \in Nat
      /\ Batch \in Nat /\ Burst \in Nat /\ Capacity \in Nat
      /\ J!Half \in Nat /\ Numbers = 2 * J!Half
  BY Spreads DEF InStep, Fits
<1>4. \A d \in J!Counters : Since(d) \in Nat /\ Since(d)' = Since(d)
  <2> SUFFICES ASSUME NEW d \in J!Counters
               PROVE  Since(d) \in Nat /\ Since(d)' = Since(d)
    OBVIOUS
  <2>1. Since(d) \in 0 .. Numbers - 1
    BY <1>1, TurnOf DEF Since
  <2>2. Since(d)' = Since(d)
    BY DEF Since, J!Distance
  <2> QED
    BY <2>1, <2>2
<1>5. \A d \in DOMAIN pending :
        /\ d \in J!Counters /\ pending[d].n = stream.n - Since(d)
        /\ 1 <= Since(d) /\ Since(d) <= Since(next)
        /\ J!Distance(d, next) = Since(next) - Since(d)
  <2> SUFFICES ASSUME NEW d \in DOMAIN pending
               PROVE  /\ d \in J!Counters /\ pending[d].n = stream.n - Since(d)
                      /\ 1 <= Since(d) /\ Since(d) <= Since(next)
                      /\ J!Distance(d, next) = Since(next) - Since(d)
    OBVIOUS
  <2>1. /\ pending[d].n = stream.n - Since(d)
        /\ 1 <= Since(d) /\ Since(d) <= Since(next)
    BY DEF InStep, Numbered
  <2>2. J!Distance(d, next) = Since(next) - Since(d)
    BY <1>1, <2>1, Between DEF Since
  <2> QED
    BY <1>1, <2>1, <2>2
<1>6. Since(next) \in Nat /\ Since(next) <= J!Half /\ Due = stream.n - Since(next)
  BY <1>1, <1>4 DEF InStep, Numbered, Due
<1>7. \A d \in DOMAIN pending' : Since(d) < Since(c)
  <2> SUFFICES ASSUME NEW d \in DOMAIN pending, d # c PROVE Since(d) < Since(c)
    BY <1>2
  <2>1. Since(d) <= Since(c)
    BY <1>1, <1>4, <1>5, <1>6
  <2>2. Since(d) # Since(c)
    BY <1>1, <1>5, Between DEF Since
  <2> QED
    BY <1>1, <1>4, <1>5, <2>1, <2>2
<1>8. Since(next)' = Since(c) - 1 /\ Since(c) \in Nat /\ 1 <= Since(c)
  <2>1. Since(next)' = J!Distance(counter, J!Plus1(c))
    BY <1>2 DEF Since, J!Distance
  <2>2. J!Distance(counter, c) >= 1 =>
          J!Distance(counter, J!Plus1(c)) = J!Distance(counter, c) - 1
    BY <1>1, TurnOf
  <2>3. Since(c) \in Nat /\ 1 <= Since(c)
    BY <1>4, <1>5
  <2> QED
    BY <2>1, <2>2, <2>3 DEF Since
<1>9. next' # None /\ Due' = pending[c].n + 1 /\ pending[c].n >= Due
  <2>1. next' # None
    BY <1>1, <1>2
  <2>2. Due' = stream.n - (Since(c) - 1)
    BY <1>8, <2>1 DEF Due
  <2> QED
    BY <1>3, <1>5, <1>6, <1>8, <2>1, <2>2
<1>10. Fits'
  <2>1. J!Cardinality(DOMAIN pending) + room <= Capacity + Batch - 1
    BY DEF InStep, Fits
  <2>2. /\ Cardinality(DOMAIN pending) \in Nat /\ IsFiniteSet(DOMAIN pending)
        /\ J!Cardinality(DOMAIN pending) = Cardinality(DOMAIN pending)
    BY WaitingCounts
  <2>3. J!Cardinality(DOMAIN pending)' = Cardinality(DOMAIN pending')
    BY Zenon DEF J!Cardinality, Cardinality
  <2>4. Cardinality(DOMAIN pending') = Cardinality(DOMAIN pending) - 1
    BY <1>2, <2>2, FS_RemoveElement
  <2> QED
    BY <1>3, <2>1, <2>2, <2>3, <2>4 DEF Fits
<1>11. Numbered'
  <2>1. \A f \in flight' :
          /\ f.n \in Nat /\ f.n = stream'.n - Since(f.counter)'
          /\ 1 <= Since(f.counter)' /\ Since(f.counter)' <= Spread
    BY <1>4 DEF InStep, Numbered, Buffered, Travels
  <2>2. ASSUME NEW d \in DOMAIN pending'
        PROVE  /\ pending'[d].n = stream'.n - Since(d)'
               /\ 1 <= Since(d)' /\ Since(d)' <= Since(next)'
    <3>1. d \in DOMAIN pending /\ pending'[d] = pending[d] /\ Since(d)' = Since(d)
      BY <1>1, <1>2, <1>4
    <3> QED
      BY <1>4, <1>5, <1>7, <1>8, <3>1
  <2>3. Since(next)' <= J!Half
    BY <1>3, <1>5, <1>6, <1>8
  <2>4. last'.n = Due' - 1
    BY <1>2, <1>3, <1>5, <1>8, <1>9
  <2> QED
    BY <1>9, <2>1, <2>2, <2>3, <2>4 DEF Numbered
<1>12. FewMissing'
  <2>1. \A k \in Int, l \in Int : Due' <= k /\ AtHand(k, l) => AtHand(k, l)'
    <3> SUFFICES ASSUME NEW k \in Int, NEW l \in Int, Due' <= k, AtHand(k, l)
                 PROVE  AtHand(k, l)'
      OBVIOUS
    <3>1. CASE \E g \in flight : k <= g.n /\ g.n <= l
      BY <3>1 DEF AtHand
    <3>2. ASSUME NEW d \in DOMAIN pending, k <= pending[d].n, pending[d].n <= l
          PROVE  AtHand(k, l)'
      <4>1. d # c
        BY <1>3, <1>5, <1>8, <1>9, <3>2
      <4>2. d \in DOMAIN pending' /\ pending'[d] = pending[d]
        BY <1>2, <4>1
      <4> QED
        BY <3>2, <4>2 DEF AtHand
    <3> QED
      BY <3>1, <3>2 DEF AtHand
  <2>2. \A k \in Int : Due' <= k => Due <= k
    BY <1>3, <1>5, <1>6, <1>8, <1>9
  <2> QED
    BY <1>3, <2>1, <2>2 DEF InStep, FewMissing
<1> QED
  BY <1>3, <1>5, <1>8, <1>9, <1>10, <1>11, <1>12 DEF InStep

LEMMA PassInStep ==
  ASSUME Roomy, Buffered, InStep, J!Pass
  PROVE  /\ InStep'
         /\ last' # last => next # None /\ last'.n \in Int /\ last'.n >= Due
<1>1. UNCHANGED <<stream, counter, flight, burst>>
  BY DEF J!Pass
<1>2. CASE J!PopExpected /\ room' = 0
  <2>1. \A d \in DOMAIN pending : J!Distance(next, next) <= J!Distance(d, next)
    BY <1>2 DEF Roomy, Reorders, J!PopExpected, Buffered, Ahead, J!Distance, J!Counters
  <2>2. next # None /\ next \in DOMAIN pending /\ J!Release(next) /\ last' = pending[next]
    BY <1>2 DEF J!PopExpected, J!Release
  <2> QED
    BY <1>1, <1>2, <2>1, <2>2, ReleaseInStep
<1>3. CASE J!Conceal /\ room' = 0
  <2>1. DOMAIN pending # {}
    <3> SUFFICES ASSUME DOMAIN pending = {} PROVE FALSE
      OBVIOUS
    <3>1. Cardinality(DOMAIN pending) = 0
      BY FS_EmptySet, Zenon
    <3>2. Cardinality(DOMAIN pending) >= Capacity
      BY <1>3, Zenon DEF J!Conceal, J!Cardinality, Cardinality
    <3> QED
      BY <3>1, <3>2, Spreads
  <2>2. next # None /\ J!Release(J!Nearest) /\ last' = pending[J!Nearest]
    BY <1>3 DEF J!Conceal, J!Release
  <2>3. /\ J!Nearest \in DOMAIN pending
        /\ \A d \in DOMAIN pending :
             J!Distance(J!Nearest, next) <= J!Distance(d, next)
    BY <2>1, <2>2, NearestIs DEF Roomy, Buffered
  <2>4. PICK c \in DOMAIN pending : c = J!Nearest
    BY <2>3
  <2>5. /\ \A d \in DOMAIN pending : J!Distance(c, next) <= J!Distance(d, next)
        /\ J!Release(c) /\ last' = pending[c]
    BY <2>2, <2>3, <2>4
  <2> QED
    BY <1>1, <1>3, <2>2, <2>5, ReleaseInStep
<1>4. CASE /\ J!Holds /\ room' = Batch
           /\ UNCHANGED <<next, pending, last>>
  <2>1. J!Cardinality(DOMAIN pending) <= Capacity - 1
    <3>1. CASE next = None
      <4>1. DOMAIN pending = {}
        BY <3>1 DEF Buffered, Ahead
      <4>2. J!Cardinality(DOMAIN pending) = 0
        BY <4>1, FS_EmptySet, WaitingCounts
      <4> QED
        BY <4>2, Spreads
    <3>2. CASE J!Cardinality(DOMAIN pending) < Capacity
      BY <3>2, WaitingCounts, Spreads
    <3> QED
      BY <1>4, <3>1, <3>2, Zenon DEF J!Holds
  <2>2. J!Cardinality(DOMAIN pending)' = J!Cardinality(DOMAIN pending)
    BY <1>4, Zenon DEF J!Cardinality
  <2>3. J!Cardinality(DOMAIN pending) \in Nat
    BY WaitingCounts
  <2>4. Fits'
    BY <1>1, <1>4, <2>1, <2>2, <2>3, Spreads DEF InStep, Fits
  <2>5. Numbered'
    BY <1>1, <1>4 DEF InStep, Numbered, Since, Due, J!Distance
  <2>6. FewMissing'
    BY <1>1, <1>4 DEF InStep, FewMissing, AtHand, Since, Due, J!Distance
  <2> QED
    BY <1>4, <2>4, <2>5, <2>6 DEF InStep
<1> QED
  BY <1>2, <1>3, <1>4 DEF J!Pass

(* PlayedInOrder holds of every step, for any size of the counter and of   *)
(* the buffer in whose half turn there is room: the counter still tells    *)
(* the number, and what goes out is not before what is due.                *)
THEOREM AlwaysPlayedInOrder ==
  ASSUME Roomy
  PROVE  Spec => PlayedInOrder
<1> DEFINE Inv == part = "receive" =>
                    /\ Buffered /\ stream \in [of : Nat, n : Nat]
                    /\ stream.of = 0 => InStep
<1>0. Reorders
  BY DEF Roomy
<1>1. Init => Inv
  <2> SUFFICES ASSUME J!Init PROVE Buffered /\ stream \in [of : Nat, n : Nat] /\ InStep
    BY DEF Init
  <2>1. Buffered
    BY <1>0, InitBuffered
  <2>2. /\ stream = [of |-> 0, n |-> 0] /\ stream.n = 0 /\ burst = 0 /\ flight = {} /\ room = Batch
        /\ next = None /\ last = None /\ DOMAIN pending = {}
    BY DEF J!Init
  <2>3. J!Cardinality(DOMAIN pending) = 0
    BY <2>1, <2>2, FS_EmptySet, WaitingCounts
  <2>4. Fits
    BY <2>2, <2>3, Spreads DEF Fits
  <2>5. Numbered
    BY <2>2 DEF Numbered
  <2>6. FewMissing
    BY <2>2, Spreads DEF FewMissing, Due
  <2> QED
    BY <2>1, <2>2, <2>4, <2>5, <2>6 DEF InStep
<1>2. ASSUME Inv, [Next]_vars PROVE Inv' /\ [(part = "receive" /\ stream.of = 0 /\ last # None) => last'.n > last.n]_last
  <2> SUFFICES ASSUME part = "receive", Buffered, stream \in [of : Nat, n : Nat],
                      stream.of = 0 => InStep
               PROVE  /\ Buffered' /\ stream' \in [of : Nat, n : Nat]
                      /\ stream'.of = 0 => InStep'
                      /\ stream.of = 0 /\ last # None /\ last' # last => last'.n > last.n
    BY <1>2, PartStays
  <2>1. CASE J!Next
    <3>1. Buffered'
      BY <1>0, <2>1, RadioBuffered, PushBuffered, PassBuffered DEF J!Next
    <3>2. CASE J!Send \/ J!Lose
      <4>1. stream' \in [of : Nat, n : Nat] /\ stream'.of = stream.of /\ last' = last
        BY <3>2 DEF J!Send, J!Lose
      <4> QED
        BY <3>1, <3>2, <4>1, RadioInStep
    <3>3. ASSUME NEW c \in J!Counters, J!Restart(c)
          PROVE  stream' \in [of : Nat, n : Nat] /\ stream'.of # 0 /\ last' = last
      BY <3>3 DEF J!Restart
    <3>4. ASSUME NEW f \in flight, J!Push(f)
          PROVE  /\ stream' = stream /\ last' = last
                 /\ stream'.of = 0 => InStep'
      <4>1. stream' = stream /\ last' = last
        BY <3>4 DEF J!Push
      <4> QED
        BY <3>4, <4>1, ArrivesInStep
    <3>5. CASE J!Pass
      <4>1. stream' = stream
        BY <3>5 DEF J!Pass
      <4>2. CASE stream.of = 0
        <5>1. InStep' /\ (last' # last => next # None /\ last'.n \in Int /\ last'.n >= Due)
          BY <3>5, <4>2, PassInStep
        <5>2. last # None => last.n = Due - 1
          BY <4>2 DEF InStep, Numbered
        <5>3. next # None => Due \in Int
          <6> SUFFICES ASSUME next # None PROVE Due \in Int
            OBVIOUS
          <6>1. next \in J!Counters /\ counter \in J!Counters
            BY DEF Buffered, Ahead, Travels
          <6>2. Since(next) \in 0 .. Numbers - 1
            BY <6>1, TurnOf DEF Since
          <6> QED
            BY <4>2, <6>2 DEF InStep, Fits, Due
        <5> QED
          BY <3>1, <4>1, <5>1, <5>2, <5>3
      <4>3. CASE stream.of # 0
        BY <3>1, <4>1, <4>3
      <4> QED
        BY <4>2, <4>3
    <3> QED
      BY <2>1, <3>1, <3>2, <3>3, <3>4, <3>5 DEF J!Next
  <2>2. CASE UNCHANGED received
    <3>1. Buffered'
      BY <2>2 DEF received, Buffered, Ahead, Travels
    <3>2. InStep => InStep'
      <4>1. J!Cardinality(DOMAIN pending)' = J!Cardinality(DOMAIN pending)
        BY <2>2, Zenon DEF received, J!Cardinality
      <4>2. Fits => Fits'
        BY <2>2, <4>1 DEF received, Fits
      <4>3. Numbered => Numbered'
        BY <2>2 DEF received, Numbered, Since, Due, J!Distance
      <4>4. FewMissing => FewMissing'
        BY <2>2 DEF received, FewMissing, AtHand, Since, Due, J!Distance
      <4> QED
        BY <4>2, <4>3, <4>4 DEF InStep
    <3> QED
      BY <2>2, <3>1, <3>2 DEF received
  <2> QED
    BY <1>2, <2>1, <2>2 DEF Next, vars
<1> QED
  BY <1>1, <1>2, PTL DEF Spec, PlayedInOrder
=============================================================================
