----------------------------- MODULE DeskProofs -----------------------------
(***************************************************************************)
(* Proofs about what the operator's desk has beside the connection         *)
(* (DeskMC): the amplifier's tune, the push-to-talk hotkey and the         *)
(* certificates, each for any size of its constants.                       *)
(***************************************************************************)
EXTENDS DeskMC, SequenceTheorems, FiniteSetTheorems, TLAPS

-----------------------------------------------------------------------------
(* A behaviour stays of its part.                                          *)
LEMMA PartStays ==
  ASSUME [Next]_vars
  PROVE  part' = part
BY Zenon DEF Next, vars

-----------------------------------------------------------------------------
(* Queues of commands, of which some begin what others end.                *)

HasOneOf(q, ends) == \E i \in DOMAIN q : q[i] \in ends

(* What begins has its end behind it.                                      *)
Closed(q, begins, ends) ==
  \A i \in DOMAIN q :
    q[i] \in begins => \E j \in i + 1 .. Len(q) : q[j] \in ends

LEMMA AppendEnd ==
  ASSUME NEW Words, NEW begins, NEW ends, begins \cap ends = {},
         NEW q \in Seq(Words), NEW c \in Words \cap ends
  PROVE  /\ Append(q, c) \in Seq(Words)
         /\ HasOneOf(Append(q, c), ends) /\ Closed(Append(q, c), begins, ends)
<1> DEFINE r == Append(q, c)
<1>1. /\ r \in Seq(Words) /\ Len(r) = Len(q) + 1 /\ r[Len(q) + 1] = c
      /\ DOMAIN r = 1 .. Len(q) + 1 /\ Len(q) \in Nat
  OBVIOUS
<1> HIDE DEF r
<1>2. HasOneOf(r, ends)
  BY <1>1 DEF HasOneOf
<1>3. Closed(r, begins, ends)
  BY <1>1 DEF Closed
<1> QED
  BY <1>1, <1>2, <1>3 DEF r

LEMMA AppendOther ==
  ASSUME NEW Words, NEW begins, NEW ends,
         NEW q \in Seq(Words), NEW c \in Words \ begins
  PROVE  /\ Append(q, c) \in Seq(Words)
         /\ HasOneOf(q, ends) => HasOneOf(Append(q, c), ends)
         /\ Closed(q, begins, ends) => Closed(Append(q, c), begins, ends)
<1> DEFINE r == Append(q, c)
<1>1. /\ r \in Seq(Words) /\ Len(r) = Len(q) + 1 /\ r[Len(q) + 1] = c
      /\ DOMAIN r = 1 .. Len(q) + 1 /\ DOMAIN q = 1 .. Len(q) /\ Len(q) \in Nat
      /\ \A i \in 1 .. Len(q) : r[i] = q[i]
  OBVIOUS
<1> HIDE DEF r
<1>2. HasOneOf(q, ends) => HasOneOf(r, ends)
  BY <1>1 DEF HasOneOf
<1>3. Closed(q, begins, ends) => Closed(r, begins, ends)
  BY <1>1 DEF Closed
<1> QED
  BY <1>1, <1>2, <1>3 DEF r

LEMMA TakeHead ==
  ASSUME NEW Words, NEW begins, NEW ends, NEW q \in Seq(Words), q # <<>>
  PROVE  /\ Head(q) \in Words /\ Tail(q) \in Seq(Words)
         /\ Closed(q, begins, ends) => Closed(Tail(q), begins, ends)
         /\ Closed(q, begins, ends) /\ Head(q) \in begins => HasOneOf(Tail(q), ends)
         /\ HasOneOf(q, ends) /\ Head(q) \notin ends => HasOneOf(Tail(q), ends)
<1> DEFINE r == Tail(q)
<1>1. /\ r \in Seq(Words) /\ Len(q) = Len(r) + 1 /\ Head(q) = q[1]
      /\ DOMAIN r = 1 .. Len(r) /\ DOMAIN q = 1 .. Len(r) + 1 /\ Len(r) \in Nat
      /\ \A i \in 1 .. Len(r) : r[i] = q[i + 1]
      /\ Head(q) \in Words
  OBVIOUS
<1> HIDE DEF r
<1>2. \A j \in 2 .. Len(q) : j - 1 \in DOMAIN r /\ r[j - 1] = q[j]
  BY <1>1
<1>3. Closed(q, begins, ends) => Closed(r, begins, ends)
  <2> SUFFICES ASSUME Closed(q, begins, ends), NEW i \in DOMAIN r, r[i] \in begins
               PROVE  \E j \in i + 1 .. Len(r) : r[j] \in ends
    BY DEF Closed
  <2>1. i + 1 \in DOMAIN q /\ q[i + 1] \in begins
    BY <1>1
  <2>2. PICK j \in i + 2 .. Len(q) : q[j] \in ends
    BY <1>1, <2>1 DEF Closed
  <2> QED
    BY <1>1, <1>2, <2>2
<1>4. Closed(q, begins, ends) /\ q[1] \in begins => HasOneOf(r, ends)
  <2> SUFFICES ASSUME Closed(q, begins, ends), q[1] \in begins
               PROVE  HasOneOf(r, ends)
    OBVIOUS
  <2>1. PICK j \in 2 .. Len(q) : q[j] \in ends
    BY <1>1 DEF Closed
  <2> QED
    BY <1>2, <2>1 DEF HasOneOf
<1>5. HasOneOf(q, ends) /\ q[1] \notin ends => HasOneOf(r, ends)
  <2> SUFFICES ASSUME HasOneOf(q, ends), q[1] \notin ends
               PROVE  HasOneOf(r, ends)
    OBVIOUS
  <2>1. PICK j \in DOMAIN q : q[j] \in ends
    BY DEF HasOneOf
  <2>2. j \in 2 .. Len(q)
    BY <1>1, <2>1
  <2> QED
    BY <1>2, <2>1, <2>2 DEF HasOneOf
<1> QED
  BY <1>1, <1>3, <1>4, <1>5 DEF r

-----------------------------------------------------------------------------
(* The amplifier's tune.                                                   *)

(* What is assumed of the constants.                                       *)
AmpLimits ==
  /\ Timeout \in Nat \ {0}
  /\ None \notin [saw : BOOLEAN, elapsed : Nat]

AmpCommands == {"tune", "exit", "stop", "arm", "disarm"}

(* Every tune in q has its end behind it.                                  *)
Followed(q) == Closed(q, {"tune"}, A!EndsTune)
HasEnd(q) == HasOneOf(q, A!EndsTune)

AmpTypes ==
  /\ tune \in [saw : BOOLEAN, elapsed : Nat] \cup {None}
  /\ to_k4 \in Seq(AmpCommands)
  /\ k4 \in [connected : BOOLEAN, armed : BOOLEAN, tuning : BOOLEAN]

(* The end of a tune is lost with the link, and so is the tune.            *)
AmpSafe ==
  /\ AmpTypes
  /\ ~k4.connected => ~k4.tuning
  /\ tune # None => tune.elapsed < Timeout
  /\ tune = None => (k4.tuning => HasEnd(to_k4)) /\ Followed(to_k4)

LEMMA Ended ==
  ASSUME NEW q \in Seq(AmpCommands), NEW c \in A!EndsTune
  PROVE  /\ Append(q, c) \in Seq(AmpCommands)
         /\ HasEnd(Append(q, c)) /\ Followed(Append(q, c))
<1>1. {"tune"} \cap A!EndsTune = {} /\ c \in AmpCommands \cap A!EndsTune
  BY DEF AmpCommands, A!EndsTune
<1> QED
  BY <1>1, AppendEnd DEF HasEnd, Followed

LEMMA Further ==
  ASSUME NEW q \in Seq(AmpCommands), NEW c \in AmpCommands \ {"tune"}
  PROVE  /\ Append(q, c) \in Seq(AmpCommands)
         /\ HasEnd(q) => HasEnd(Append(q, c))
         /\ Followed(q) => Followed(Append(q, c))
BY AppendOther DEF HasEnd, Followed

LEMMA Taken ==
  ASSUME NEW q \in Seq(AmpCommands), q # <<>>
  PROVE  /\ Head(q) \in AmpCommands /\ Tail(q) \in Seq(AmpCommands)
         /\ Followed(q) => Followed(Tail(q))
         /\ Followed(q) /\ Head(q) = "tune" => HasEnd(Tail(q))
         /\ HasEnd(q) /\ Head(q) \notin A!EndsTune => HasEnd(Tail(q))
BY TakeHead DEF HasEnd, Followed

LEMMA AmpInit ==
  ASSUME AmpLimits, A!Init
  PROVE  AmpSafe
<1>1. <<>> \in Seq(AmpCommands) /\ Followed(<<>>)
  BY DEF Followed, Closed
<1> QED
  BY <1>1 DEF A!Init, AmpSafe, AmpTypes

LEMMA KpaTuneSafe ==
  ASSUME AmpLimits, AmpSafe, A!KpaTune
  PROVE  AmpSafe'
<1>1. tune' = [saw |-> FALSE, elapsed |-> 0] /\ k4' = k4
  BY DEF A!KpaTune
<1>2. tune' \in [saw : BOOLEAN, elapsed : Nat] /\ tune'.elapsed = 0
  BY <1>1
<1>4. tune' # None
  BY <1>2 DEF AmpLimits
<1>3. to_k4' \in Seq(AmpCommands)
  BY DEF A!KpaTune, AmpSafe, AmpTypes, AmpCommands
<1> QED
  BY <1>1, <1>2, <1>3, <1>4 DEF AmpLimits, AmpSafe, AmpTypes

LEMMA EmergencyStopSafe ==
  ASSUME AmpLimits, AmpSafe, A!EmergencyStop
  PROVE  AmpSafe'
<1>1. to_k4' = Append(to_k4, "stop") /\ tune' = None /\ k4' = k4
  BY DEF A!EmergencyStop
<1>2. "stop" \in A!EndsTune
  BY DEF A!EndsTune
<1> QED
  BY <1>1, <1>2, Ended DEF AmpSafe, AmpTypes

LEMMA FurtherSafe ==
  ASSUME AmpSafe, UNCHANGED <<tune, k4>>,
         NEW c \in AmpCommands \ {"tune"}, to_k4' = Append(to_k4, c)
  PROVE  AmpSafe'
BY Further DEF AmpSafe, AmpTypes

LEMMA TickSafe ==
  ASSUME AmpLimits, AmpSafe, A!Tick
  PROVE  AmpSafe'
<1> DEFINE s == [armed |-> k4.armed, connected |-> k4.connected,
                 conn |-> shared.conn, tuning |-> shared.tuning]
           t == [saw |-> tune.saw \/ s.tuning = TRUE, elapsed |-> tune.elapsed + 1]
           ends == tune # None /\ A!ShouldEnd(t, s)
<1>1. /\ tune' = IF tune = None \/ ends THEN None ELSE t
      /\ to_k4' = IF ends THEN Append(to_k4, "exit") ELSE to_k4
      /\ k4' = k4
  BY DEF A!Tick
<1>2. CASE ends
  <2>1. "exit" \in A!EndsTune /\ tune' = None /\ to_k4' = Append(to_k4, "exit")
    BY <1>1, <1>2 DEF A!EndsTune
  <2> QED
    BY <1>1, <2>1, Ended DEF AmpSafe, AmpTypes
<1>3. CASE ~ends /\ tune = None
  BY <1>1, <1>3 DEF AmpSafe, AmpTypes
<1>4. CASE ~ends /\ tune # None
  <2>1. tune' = t /\ to_k4' = to_k4
    BY <1>1, <1>4
  <2>2. t.elapsed \in Nat /\ t.elapsed < Timeout
    <3>1. tune.elapsed \in Nat /\ t.elapsed = tune.elapsed + 1
      BY <1>4 DEF AmpSafe, AmpTypes
    <3>2. ~(t.elapsed >= Timeout)
      BY <1>4 DEF A!ShouldEnd
    <3> QED
      BY <3>1, <3>2 DEF AmpLimits
  <2>3. t \in [saw : BOOLEAN, elapsed : Nat]
    BY <1>4, <2>2 DEF AmpSafe, AmpTypes
  <2>4. t # None
    BY <2>3 DEF AmpLimits
  <2> QED
    BY <1>1, <2>1, <2>2, <2>3, <2>4 DEF AmpSafe, AmpTypes
<1> QED
  BY <1>2, <1>3, <1>4

LEMMA TakesCommandSafe ==
  ASSUME AmpSafe, A!TakesCommand
  PROVE  AmpSafe'
<1> DEFINE c == Head(to_k4)
<1>1. /\ to_k4 # <<>> /\ to_k4' = Tail(to_k4) /\ tune' = tune
      /\ c \in AmpCommands /\ to_k4' \in Seq(AmpCommands)
  BY Taken DEF A!TakesCommand, A!window, AmpSafe, AmpTypes
<1>2. k4 \in [connected : BOOLEAN, armed : BOOLEAN, tuning : BOOLEAN]
  BY DEF AmpSafe, AmpTypes
<1>3. /\ k4' \in [connected : BOOLEAN, armed : BOOLEAN, tuning : BOOLEAN]
      /\ ~k4'.connected => ~k4'.tuning
      /\ k4'.tuning => \/ c = "tune"
                       \/ k4.tuning /\ c \notin A!EndsTune
  <2>1. CASE ~k4.connected
    BY <1>2, <2>1 DEF A!TakesCommand, AmpSafe
  <2>2. CASE k4.connected /\ c = "tune"
    BY <1>2, <2>2 DEF A!TakesCommand
  <2>3. CASE k4.connected /\ c \in {"exit", "stop"}
    BY <1>2, <2>3 DEF A!TakesCommand
  <2>4. CASE k4.connected /\ c \in {"arm", "disarm"}
    BY <1>2, <2>4 DEF A!TakesCommand, A!EndsTune
  <2> QED
    BY <1>1, <2>1, <2>2, <2>3, <2>4 DEF AmpCommands
<1>4. tune = None =>
        (k4'.tuning => HasEnd(Tail(to_k4))) /\ Followed(Tail(to_k4))
  BY <1>1, <1>3, Taken DEF AmpSafe, AmpTypes
<1> QED
  BY <1>1, <1>3, <1>4 DEF AmpSafe, AmpTypes

LEMMA LinkChangesSafe ==
  ASSUME AmpSafe, A!LinkChanges
  PROVE  AmpSafe'
BY DEF A!LinkChanges, A!window, AmpSafe, AmpTypes

LEMMA AmpStep ==
  ASSUME AmpLimits, AmpSafe, [A!Next]_(A!vars)
  PROVE  AmpSafe'
<1>1. CASE A!EmergencyKey
  BY <1>1, FurtherSafe DEF A!EmergencyKey, A!window, AmpCommands
<1>2. CASE A!ToggleArm
  <2> DEFINE c == IF seen.armed THEN "disarm" ELSE "arm"
  <2>1. c \in AmpCommands \ {"tune"}
    BY DEF AmpCommands
  <2>2. to_k4' = Append(to_k4, c) /\ UNCHANGED <<tune, k4>>
    BY <1>2 DEF A!ToggleArm, A!window
  <2> HIDE DEF c
  <2> QED
    BY <2>1, <2>2, FurtherSafe
<1>3. CASE UNCHANGED <<tune, to_k4, k4>>
  BY <1>3 DEF AmpSafe, AmpTypes
<1>4. CASE \/ A!ToggleKpa1500 \/ A!TakesConnect \/ A!TakesDisconnect \/ A!TakesSend
           \/ A!Opens \/ A!Polls \/ A!Reads \/ A!Breaks \/ A!NetworkChanges \/ A!AmpFinishes
  BY <1>3, <1>4
  DEF A!ToggleKpa1500, A!TakesConnect, A!TakesDisconnect, A!TakesSend, A!Opens, A!Polls,
      A!Reads, A!Breaks, A!NetworkChanges, A!AmpFinishes, A!window
<1> QED
  BY <1>1, <1>2, <1>3, <1>4, KpaTuneSafe, EmergencyStopSafe, TickSafe,
     TakesCommandSafe, LinkChangesSafe
  DEF A!Next, A!vars

(* NeverStranded holds of every reachable state, for any time limit and    *)
(* any number of commands on their way: a carrier keyed for the amplifier, *)
(* or about to be, has its end on its way or a window that will end it.    *)
THEOREM NeverIsStranded ==
  ASSUME AmpLimits
  PROVE  Spec => []NeverStranded
<1> DEFINE Inv == part = "amp" => AmpSafe
<1>1. Init => Inv
  BY AmpInit DEF Init
<1>2. ASSUME Inv, [Next]_vars PROVE Inv'
  <2> SUFFICES ASSUME part = "amp", AmpSafe PROVE AmpSafe'
    BY <1>2, PartStays
  <2>1. A!Next \/ UNCHANGED A!vars
    BY <1>2 DEF Next, vars, radio, amp, A!vars
  <2> QED
    BY <2>1, AmpStep
<1>3. Inv => NeverStranded
  BY DEF AmpSafe, HasEnd, Followed, HasOneOf, Closed, NeverStranded, A!NeverStranded
<1> QED
  BY <1>1, <1>2, <1>3, PTL DEF Spec

-----------------------------------------------------------------------------
(* The push-to-talk hotkey.                                                *)

(* What is assumed of the constants.                                       *)
PttNone == None \notin {"hold", "flip"}

KeyDown == [key |-> TRUE, how |-> "hold"]
KeyUps == [key : {FALSE}, how : {None}]
PttCommands ==
  KeyUps \cup [key : {TRUE}, how : {"flip", "hold"}]
         \cup [arm : BOOLEAN] \cup [stop : {TRUE}]

Events == [on : {"press", "release"}, key : Keys, shift : BOOLEAN]
Of(on, k) == {e \in Events : e.on = on /\ e.key = k}

PttTypes ==
  /\ held \subseteq Keys
  /\ shift \in BOOLEAN
  /\ events \in Seq(Events)
  /\ hotkey \in [key : Keys, shift : BOOLEAN]
  /\ capturing \in BOOLEAN /\ down \in BOOLEAN /\ keyed \in BOOLEAN
  /\ seen \in [armed : BOOLEAN, tx : BOOLEAN]
  /\ to_k4 \in Seq(PttCommands)
  /\ k4 \in [armed : BOOLEAN, tx : {None, "hold", "flip"}]

(* A key that was pressed is held, or its release is on its way.           *)
Pressed == \A k \in Keys : k \in held \/ Closed(events, Of("press", k), Of("release", k))
ReleaseComes == by \in held \/ HasOneOf(events, Of("release", by))

(* While it keys the hotkey stays what it is, and its release comes.       *)
Holds == keyed => down /\ ~capturing /\ by = hotkey.key /\ ReleaseComes

(* When it no longer does, each key-down has its key-up behind it.         *)
Ends ==
  ~keyed => /\ k4.tx = "hold" => HasOneOf(to_k4, KeyUps)
            /\ Closed(to_k4, {KeyDown}, KeyUps)

PttSafe == PttTypes /\ Pressed /\ Holds /\ Ends

LEMMA CommandsAre ==
  /\ [key |-> FALSE, how |-> None] \in PttCommands \cap KeyUps
  /\ KeyDown \in PttCommands /\ {KeyDown} \cap KeyUps = {}
  /\ [key |-> TRUE, how |-> "flip"] \in PttCommands \ {KeyDown}
  /\ [key |-> FALSE, how |-> None] # KeyDown
  /\ \A b \in BOOLEAN : [arm |-> b] \in PttCommands \ {KeyDown}
  /\ [stop |-> TRUE] \in PttCommands \ {KeyDown}
<1>1. [key |-> FALSE, how |-> None] # KeyDown
  <2>1. [key |-> FALSE, how |-> None].key # KeyDown.key
    BY DEF KeyDown
  <2> QED
    BY <2>1
<1>2. [key |-> TRUE, how |-> "flip"] # KeyDown
  <2>1. [key |-> TRUE, how |-> "flip"].how # KeyDown.how
    BY DEF KeyDown
  <2> QED
    BY <2>1
<1>3. \A b \in BOOLEAN : [arm |-> b] # KeyDown
  <2> TAKE b \in BOOLEAN
  <2>1. "key" \in DOMAIN KeyDown /\ "key" \notin DOMAIN [arm |-> b]
    BY DEF KeyDown
  <2> QED
    BY <2>1
<1>4. [stop |-> TRUE] # KeyDown
  <2>1. "key" \in DOMAIN KeyDown /\ "key" \notin DOMAIN [stop |-> TRUE]
    BY DEF KeyDown
  <2> QED
    BY <2>1
<1>5. KeyDown \notin KeyUps
  BY DEF KeyDown, KeyUps
<1> QED
  BY <1>1, <1>2, <1>3, <1>4, <1>5 DEF PttCommands, KeyUps, KeyDown

(* The events.                                                             *)
LEMMA EventComes ==
  ASSUME PttSafe, NEW e \in Events, events' = Append(events, e),
         IF e.on = "release" THEN held' = held \ {e.key}
                             ELSE held' = held \cup {e.key},
         UNCHANGED <<shift, hotkey, capturing, down, keyed, seen, to_k4, k4, by>>
  PROVE  PttSafe'
<1>1. PttTypes'
  <2>1. held' \subseteq Keys
    BY DEF PttSafe, PttTypes, Events
  <2>2. events' \in Seq(Events)
    BY DEF PttSafe, PttTypes
  <2> QED
    BY <2>1, <2>2 DEF PttSafe, PttTypes
<1>2. /\ events \in Seq(Events)
      /\ e.on \in {"press", "release"} /\ e.key \in Keys
      /\ e \in Of(e.on, e.key)
  BY DEF PttSafe, PttTypes, Events, Of
<1>3. Pressed'
  <2> SUFFICES ASSUME NEW k \in Keys, k \notin held'
               PROVE  Closed(events', Of("press", k), Of("release", k))
    BY DEF Pressed
  <2>1. Of("press", k) \cap Of("release", k) = {}
    BY DEF Of
  <2>2. CASE e \in Of("release", k)
    <3>1. e \in Events \cap Of("release", k)
      BY <2>2
    <3> QED
      BY <1>2, <2>1, <3>1, AppendEnd
  <2>3. CASE e \notin Of("release", k)
    <3>1. e.key # k /\ k \notin held
      BY <1>2, <2>3 DEF Of
    <3>2. e \in Events \ Of("press", k)
      BY <3>1 DEF Of
    <3>3. Closed(events, Of("press", k), Of("release", k))
      BY <3>1 DEF PttSafe, Pressed
    <3> QED
      BY <1>2, <3>2, <3>3, AppendOther
  <2> QED
    BY <2>2, <2>3
<1>4. Holds'
  <2> SUFFICES ASSUME keyed PROVE ReleaseComes'
    BY DEF PttSafe, Holds
  <2>1. ReleaseComes
    BY DEF PttSafe, Holds
  <2>2. CASE HasOneOf(events, Of("release", by))
    <3>1. e \in Events \ {}
      OBVIOUS
    <3> QED
      BY <1>2, <2>2, <3>1, AppendOther DEF ReleaseComes
  <2>3. CASE by \in held /\ ~(e.on = "release" /\ e.key = by)
    BY <2>3 DEF ReleaseComes
  <2>4. CASE e.on = "release" /\ e.key = by
    <3>1. e \in Events \cap Of("release", by) /\ {} \cap Of("release", by) = {}
      BY <1>2, <2>4
    <3> QED
      BY <1>2, <3>1, AppendEnd DEF ReleaseComes
  <2> QED
    BY <2>1, <2>2, <2>3, <2>4 DEF ReleaseComes
<1>5. Ends'
  BY DEF PttSafe, Ends
<1> QED
  BY <1>1, <1>3, <1>4, <1>5 DEF PttSafe

(* An event is taken: what it leaves behind.                               *)
LEMMA EventTaken ==
  ASSUME PttSafe, events # <<>>, events' = Tail(events), UNCHANGED held
  PROVE  /\ Head(events) \in Events /\ events' \in Seq(Events)
         /\ Pressed'
         /\ Head(events).on = "press" =>
              \/ Head(events).key \in held
              \/ HasOneOf(events', Of("release", Head(events).key))
         /\ keyed /\ by' = by /\ Head(events) \notin Of("release", by) => ReleaseComes'
<1>1. /\ events \in Seq(Events)
      /\ Head(events) \in Events /\ events' \in Seq(Events)
  BY TakeHead DEF PttSafe, PttTypes
<1>2. Pressed'
  <2> SUFFICES ASSUME NEW k \in Keys, k \notin held
               PROVE  Closed(events', Of("press", k), Of("release", k))
    BY DEF Pressed
  <2>1. Closed(events, Of("press", k), Of("release", k))
    BY DEF PttSafe, Pressed
  <2> QED
    BY <1>1, <2>1, TakeHead
<1>3. ASSUME Head(events).on = "press", Head(events).key \notin held
      PROVE  HasOneOf(events', Of("release", Head(events).key))
  <2> DEFINE k == Head(events).key
  <2>1. k \in Keys /\ Head(events) \in Of("press", k)
    BY <1>1, <1>3 DEF Events, Of
  <2>2. Closed(events, Of("press", k), Of("release", k))
    BY <1>3, <2>1 DEF PttSafe, Pressed
  <2> HIDE DEF k
  <2>3. HasOneOf(events', Of("release", k))
    BY <1>1, <2>1, <2>2, TakeHead
  <2> QED
    BY <2>3 DEF k
<1>4. ASSUME keyed, by' = by, Head(events) \notin Of("release", by)
      PROVE  ReleaseComes'
  <2>1. HasOneOf(events, Of("release", by)) => HasOneOf(events', Of("release", by))
    BY <1>1, <1>4, TakeHead
  <2> QED
    BY <1>4, <2>1 DEF PttSafe, Holds, ReleaseComes
<1> QED
  BY <1>1, <1>2, <1>3, <1>4

(* The window: what leaves the hotkey's hold as it is, and sends at most a *)
(* command that is not its key-down.                                       *)
LEMMA OtherStep ==
  ASSUME PttNone, PttSafe, PttTypes', Pressed', ReleaseComes => ReleaseComes',
         UNCHANGED <<hotkey, down, keyed, by, k4>>, keyed => ~capturing',
         \/ UNCHANGED to_k4
         \/ \E c \in PttCommands \ {KeyDown} : to_k4' = Append(to_k4, c)
  PROVE  PttSafe'
<1>1. Holds'
  BY DEF PttSafe, Holds
<1>2. Ends'
  <2>1. CASE UNCHANGED to_k4
    BY <2>1 DEF PttSafe, Ends
  <2>2. CASE \E c \in PttCommands \ {KeyDown} : to_k4' = Append(to_k4, c)
    BY <2>2, AppendOther DEF PttSafe, PttTypes, Ends
  <2> QED
    BY <2>1, <2>2
<1> QED
  BY <1>1, <1>2 DEF PttSafe

LEMMA SentType ==
  ASSUME PttTypes, UNCHANGED <<held, shift, events, hotkey, capturing, down, keyed, seen, k4>>,
         NEW c \in PttCommands, to_k4' = Append(to_k4, c)
  PROVE  PttTypes'
BY DEF PttTypes

LEMMA KeyIs ==
  ASSUME NEW on \in BOOLEAN, NEW how \in {"flip", "hold"}
  PROVE  /\ P!Key(on, how) =
              Append(to_k4, IF on THEN [key |-> TRUE, how |-> how]
                            ELSE [key |-> FALSE, how |-> None])
         /\ P!Key(FALSE, how) = Append(to_k4, [key |-> FALSE, how |-> None])
         /\ P!Key(TRUE, how) = Append(to_k4, [key |-> TRUE, how |-> how])
<1>1. CASE on
  BY <1>1 DEF P!Key
<1>2. CASE ~on
  BY <1>2 DEF P!Key
<1> QED
  BY <1>1, <1>2 DEF P!Key

LEMMA ButtonsSafe ==
  ASSUME PttNone, PttSafe,
         \/ P!ToggleArm \/ P!ToggleKey \/ P!EmergencyStop \/ P!Tick
         \/ P!TogglePttMode \/ P!Shift \/ (~keyed /\ P!StartCaptureHotkey)
         \/ UNCHANGED P!vars
  PROVE  PttSafe'
<1>1. UNCHANGED <<held, events, by>> => Pressed' /\ (ReleaseComes => ReleaseComes')
  BY DEF PttSafe, Pressed, ReleaseComes
<1>2. CASE P!ToggleArm
  <2>1. (~seen.armed) \in BOOLEAN
    BY DEF PttSafe, PttTypes
  <2>2. [arm |-> ~seen.armed] \in PttCommands \ {KeyDown}
    BY <2>1, CommandsAre
  <2>3. to_k4' = Append(to_k4, [arm |-> ~seen.armed])
    BY <1>2 DEF P!ToggleArm
  <2>4. UNCHANGED <<held, shift, events, hotkey, capturing, down, keyed, seen, k4, by>>
    BY <1>2 DEF P!ToggleArm, P!window
  <2>5. PttTypes'
    BY <2>2, <2>3, <2>4, SentType DEF PttSafe
  <2> QED
    BY <1>1, <2>2, <2>3, <2>4, <2>5, OtherStep DEF PttSafe, Holds
<1>3. CASE P!ToggleKey
  <2> DEFINE c == IF ~seen.tx THEN [key |-> TRUE, how |-> "flip"]
                  ELSE [key |-> FALSE, how |-> None]
  <2>1. seen.tx \in BOOLEAN
    BY DEF PttSafe, PttTypes
  <2>2. c \in PttCommands \ {KeyDown}
    BY CommandsAre
  <2>3. to_k4' = Append(to_k4, c)
    BY <1>3, <2>1, KeyIs DEF P!ToggleKey
  <2>4. UNCHANGED <<held, shift, events, hotkey, capturing, down, keyed, seen, k4, by>>
    BY <1>3 DEF P!ToggleKey, P!window
  <2> HIDE DEF c
  <2>5. PttTypes'
    BY <2>2, <2>3, <2>4, SentType DEF PttSafe
  <2> QED
    BY <1>1, <2>2, <2>3, <2>4, <2>5, OtherStep DEF PttSafe, Holds
<1>4. CASE P!EmergencyStop
  <2>1. [stop |-> TRUE] \in PttCommands \ {KeyDown}
    BY CommandsAre
  <2>2. to_k4' = Append(to_k4, [stop |-> TRUE])
    BY <1>4 DEF P!EmergencyStop
  <2>3. UNCHANGED <<held, shift, events, hotkey, capturing, down, keyed, seen, k4, by>>
    BY <1>4 DEF P!EmergencyStop, P!window
  <2>4. PttTypes'
    BY <2>1, <2>2, <2>3, SentType DEF PttSafe
  <2> QED
    BY <1>1, <2>1, <2>2, <2>3, <2>4, OtherStep DEF PttSafe, Holds
<1>5. CASE \/ P!Tick \/ P!TogglePttMode \/ P!Shift
           \/ (~keyed /\ P!StartCaptureHotkey) \/ UNCHANGED P!vars
  <2>1. UNCHANGED <<held, events, hotkey, down, keyed, by, k4, to_k4>>
    BY <1>5 DEF P!Tick, P!TogglePttMode, P!Shift, P!StartCaptureHotkey, P!vars, P!window
  <2>2. keyed => ~capturing'
    BY <1>5 DEF PttSafe, Holds, P!Tick, P!TogglePttMode, P!Shift, P!vars, P!window
  <2>3. seen' \in [armed : BOOLEAN, tx : BOOLEAN]
    <3>1. k4.armed \in BOOLEAN /\ (k4.tx # None) \in BOOLEAN
      BY DEF PttSafe, PttTypes
    <3>2. \/ UNCHANGED seen
          \/ seen' = [armed |-> k4.armed, tx |-> k4.tx # None]
      BY <1>5 DEF P!Tick, P!TogglePttMode, P!Shift, P!StartCaptureHotkey, P!vars, P!window
    <3>3. CASE seen' = [armed |-> k4.armed, tx |-> k4.tx # None]
      BY <3>1, <3>3
    <3>4. CASE UNCHANGED seen
      BY <3>4 DEF PttSafe, PttTypes
    <3> QED
      BY <3>2, <3>3, <3>4
  <2>4. shift' \in BOOLEAN /\ capturing' \in BOOLEAN
    BY <1>5 DEF PttSafe, PttTypes, P!Tick, P!TogglePttMode, P!Shift,
                P!StartCaptureHotkey, P!vars, P!window
  <2>5. PttTypes'
    BY <2>1, <2>3, <2>4 DEF PttSafe, PttTypes
  <2> QED
    BY <1>1, <2>1, <2>2, <2>5, OtherStep
<1> QED
  BY <1>2, <1>3, <1>4, <1>5

LEMMA HotkeyPressedSafe ==
  ASSUME PttNone, PttSafe, P!HotkeyPressed
  PROVE  PttSafe'
<1> DEFINE e == Head(events)
<1>1. /\ events # <<>> /\ events' = Tail(events) /\ e.on = "press"
      /\ e.key = hotkey.key /\ ~down /\ ~capturing /\ down' = TRUE
      /\ UNCHANGED <<held, shift, hotkey, capturing, seen, k4>>
  <2>1. [key |-> e.key, shift |-> e.shift] = hotkey
    BY DEF P!HotkeyPressed, P!Handled, P!Matches, P!Combo
  <2> QED
    BY <2>1 DEF P!HotkeyPressed, P!Handled, P!Matches
<1>2. ~keyed
  BY <1>1 DEF PttSafe, Holds
<1>3. /\ e \in Events /\ events' \in Seq(Events) /\ Pressed'
      /\ e.key \in held \/ HasOneOf(events', Of("release", e.key))
  BY <1>1, EventTaken
<1> HIDE DEF e
<1>9. /\ held' \subseteq Keys /\ shift' \in BOOLEAN /\ hotkey' \in [key : Keys, shift : BOOLEAN]
      /\ capturing' \in BOOLEAN /\ down' \in BOOLEAN
  BY <1>1 DEF PttSafe, PttTypes
<1>4. CASE UNCHANGED <<keyed, to_k4, by>>
  <2>1. PttTypes'
    BY <1>1, <1>3, <1>4, <1>9 DEF PttSafe, PttTypes
  <2>2. Holds' /\ Ends'
    BY <1>1, <1>2, <1>4 DEF PttSafe, Holds, Ends
  <2> QED
    BY <1>3, <2>1, <2>2 DEF PttSafe
<1>5. CASE to_k4' = P!Key(~seen.tx, "flip") /\ UNCHANGED <<keyed, by>>
  <2> DEFINE c == IF ~seen.tx THEN [key |-> TRUE, how |-> "flip"]
                  ELSE [key |-> FALSE, how |-> None]
  <2>1. seen.tx \in BOOLEAN
    BY DEF PttSafe, PttTypes
  <2>2. c \in PttCommands \ {KeyDown}
    BY CommandsAre
  <2>3. to_k4' = Append(to_k4, c)
    BY <1>5, <2>1, KeyIs
  <2> HIDE DEF c
  <2>4. PttTypes'
    <3>1. to_k4' \in Seq(PttCommands)
      BY <2>2, <2>3, AppendOther DEF PttSafe, PttTypes
    <3> QED
      BY <1>1, <1>3, <1>5, <1>9, <3>1 DEF PttSafe, PttTypes
  <2>5. Ends'
    <3>1. /\ to_k4 \in Seq(PttCommands) /\ Closed(to_k4, {KeyDown}, KeyUps)
          /\ k4.tx = "hold" => HasOneOf(to_k4, KeyUps)
      BY <1>2 DEF PttSafe, PttTypes, Ends
    <3>2. /\ Closed(to_k4', {KeyDown}, KeyUps)
          /\ k4.tx = "hold" => HasOneOf(to_k4', KeyUps)
      BY <2>2, <2>3, <3>1, AppendOther
    <3> QED
      BY <1>1, <3>2 DEF Ends
  <2>6. Holds'
    BY <1>2, <1>5 DEF Holds
  <2> QED
    BY <1>3, <2>4, <2>5, <2>6 DEF PttSafe
<1>6. CASE keyed' = TRUE /\ to_k4' = P!Key(TRUE, "hold") /\ by' = e.key
  <2>1. to_k4' = Append(to_k4, KeyDown)
    BY <1>6, KeyIs DEF KeyDown
  <2>2. PttTypes'
    <3>1. to_k4' \in Seq(PttCommands)
      BY <2>1, CommandsAre, AppendOther DEF PttSafe, PttTypes
    <3> QED
      BY <1>1, <1>3, <1>6, <1>9, <3>1 DEF PttSafe, PttTypes
  <2>3. Holds'
    BY <1>1, <1>3, <1>6 DEF Holds, ReleaseComes
  <2>4. Ends'
    BY <1>6 DEF Ends
  <2> QED
    BY <1>3, <2>2, <2>3, <2>4 DEF PttSafe
<1> QED
  BY <1>4, <1>5, <1>6 DEF P!HotkeyPressed, e

LEMMA OtherEventsSafe ==
  ASSUME PttNone, PttSafe, P!CapturesHotkey \/ P!OtherPressed
  PROVE  PttSafe'
<1> DEFINE e == Head(events)
<1>1. /\ events # <<>> /\ events' = Tail(events) /\ e.on = "press"
      /\ UNCHANGED <<held, shift, down, keyed, seen, to_k4, k4, by>>
  BY DEF P!CapturesHotkey, P!OtherPressed, P!Handled, P!window
<1>2. /\ e \in Events /\ events' \in Seq(Events) /\ Pressed'
      /\ keyed /\ e \notin Of("release", by) => ReleaseComes'
  BY <1>1, EventTaken
<1>3. e \notin Of("release", by)
  BY <1>1 DEF Of
<1>4. /\ hotkey' \in [key : Keys, shift : BOOLEAN] /\ capturing' \in BOOLEAN
      /\ keyed => UNCHANGED <<hotkey, capturing>>
  <2>1. CASE P!CapturesHotkey
    <3>1. ~keyed
      BY <2>1 DEF PttSafe, Holds, P!CapturesHotkey
    <3>2. hotkey' \in [key : Keys, shift : BOOLEAN]
      BY <1>2, <2>1 DEF Events, P!CapturesHotkey, P!Combo
    <3> QED
      BY <2>1, <3>1, <3>2 DEF P!CapturesHotkey
  <2>2. CASE P!OtherPressed
    BY <2>2 DEF PttSafe, PttTypes, P!OtherPressed, P!window
  <2> QED
    BY <2>1, <2>2
<1>5. PttTypes'
  BY <1>1, <1>2, <1>4 DEF PttSafe, PttTypes
<1>6. Holds' /\ Ends'
  BY <1>1, <1>2, <1>3, <1>4 DEF PttSafe, Holds, Ends
<1> QED
  BY <1>2, <1>5, <1>6 DEF PttSafe

LEMMA KeyReleasedSafe ==
  ASSUME PttNone, PttSafe, P!KeyReleased
  PROVE  PttSafe'
<1> DEFINE e == Head(events)
<1>1. /\ events # <<>> /\ events' = Tail(events) /\ e.on = "release"
      /\ UNCHANGED <<held, shift, hotkey, capturing, seen, k4>>
  BY DEF P!KeyReleased, P!Handled
<1>2. /\ e \in Events /\ events' \in Seq(Events) /\ Pressed'
      /\ keyed /\ by' = by /\ e \notin Of("release", by) => ReleaseComes'
  BY <1>1, EventTaken
<1>3. CASE down /\ e.key = hotkey.key
  <2>1. /\ down' = FALSE /\ keyed' = FALSE /\ by' = None
        /\ to_k4' = IF keyed THEN P!Key(FALSE, "hold") ELSE to_k4
    BY <1>3 DEF P!KeyReleased, P!IsRelease
  <2> DEFINE up == [key |-> FALSE, how |-> None]
  <2>2. to_k4' = IF keyed THEN Append(to_k4, up) ELSE to_k4
    BY <2>1, KeyIs
  <2>3. up \in PttCommands \cap KeyUps /\ {KeyDown} \cap KeyUps = {}
    BY CommandsAre
  <2> HIDE DEF up
  <2>4. PttTypes'
    <3>1. to_k4' \in Seq(PttCommands)
      BY <2>2, <2>3, AppendEnd DEF PttSafe, PttTypes
    <3> QED
      BY <1>1, <1>2, <2>1, <3>1 DEF PttSafe, PttTypes
  <2>5. Ends'
    <3>1. CASE keyed
      BY <2>2, <2>3, <3>1, AppendEnd DEF PttSafe, PttTypes, Ends
    <3>2. CASE ~keyed
      BY <1>1, <2>2, <3>2 DEF PttSafe, Ends
    <3> QED
      BY <3>1, <3>2
  <2>6. Holds'
    BY <2>1 DEF Holds
  <2> QED
    BY <1>2, <2>4, <2>5, <2>6 DEF PttSafe
<1>4. CASE ~(down /\ e.key = hotkey.key)
  <2>1. UNCHANGED <<down, keyed, by, to_k4>>
    BY <1>4 DEF P!KeyReleased, P!IsRelease
  <2>2. keyed => e \notin Of("release", by)
    BY <1>4 DEF PttSafe, Holds, Of
  <2>3. PttTypes'
    BY <1>1, <1>2, <2>1 DEF PttSafe, PttTypes
  <2>4. Holds' /\ Ends'
    BY <1>1, <1>2, <2>1, <2>2 DEF PttSafe, Holds, Ends
  <2> QED
    BY <1>2, <2>3, <2>4 DEF PttSafe
<1> QED
  BY <1>3, <1>4

-----------------------------------------------------------------------------
(* The worker.                                                             *)

LEMMA DoesIs ==
  ASSUME PttNone, k4 \in [armed : BOOLEAN, tx : {None, "hold", "flip"}],
         NEW c \in PttCommands
  PROVE  /\ P!Does(c) \in [armed : BOOLEAN, tx : {None, "hold", "flip"}]
         /\ P!Does(c).tx = "hold" => \/ c = KeyDown
                                     \/ k4.tx = "hold" /\ c \notin KeyUps
<1>1. CASE c \in KeyUps
  <2>1. DOMAIN c = {"key", "how"} /\ c.key = FALSE
    BY <1>1 DEF KeyUps
  <2> QED
    BY <2>1 DEF PttNone, P!Does
<1>2. CASE c \in [key : {TRUE}, how : {"flip", "hold"}]
  <2>1. DOMAIN c = {"key", "how"} /\ c.key = TRUE /\ c.how \in {"flip", "hold"}
    BY <1>2
  <2>2. c = [key |-> TRUE, how |-> c.how]
    BY <1>2
  <2>3. c.how = "hold" => c = KeyDown
    BY <2>2 DEF KeyDown
  <2>4. c \notin KeyUps
    BY <2>1 DEF KeyUps
  <2>5. P!Does(c) = IF k4.armed THEN [k4 EXCEPT !.tx = c.how] ELSE k4
    BY <2>1 DEF P!Does
  <2> QED
    BY <2>1, <2>3, <2>4, <2>5
<1>3. CASE c \in [arm : BOOLEAN]
  <2>1. DOMAIN c = {"arm"} /\ c.arm \in BOOLEAN
    BY <1>3
  <2>2. c \notin KeyUps
    BY <2>1 DEF KeyUps
  <2>3. P!Does(c) = [k4 EXCEPT !.armed = c.arm]
    BY <2>1 DEF P!Does
  <2> QED
    BY <2>1, <2>2, <2>3
<1>4. CASE c \in [stop : {TRUE}]
  <2>1. DOMAIN c = {"stop"}
    BY <1>4
  <2> QED
    BY <2>1 DEF PttNone, P!Does
<1> QED
  BY <1>1, <1>2, <1>3, <1>4 DEF PttCommands

LEMMA PttTakesCommandSafe ==
  ASSUME PttNone, PttSafe, P!TakesCommand \/ P!LinkLost
  PROVE  PttSafe'
<1>1. /\ UNCHANGED <<held, shift, events, hotkey, capturing, down, keyed, seen, by>>
  BY DEF P!TakesCommand, P!LinkLost, P!window
<1>2. Pressed' /\ Holds'
  BY <1>1 DEF PttSafe, Pressed, Holds, ReleaseComes
<1>3. CASE P!TakesCommand
  <2>1. to_k4 # <<>> /\ to_k4' = Tail(to_k4) /\ k4' = P!Does(Head(to_k4))
    BY <1>3 DEF P!TakesCommand
  <2>2. /\ Head(to_k4) \in PttCommands /\ to_k4' \in Seq(PttCommands)
    BY <2>1, TakeHead DEF PttSafe, PttTypes
  <2>3. /\ k4' \in [armed : BOOLEAN, tx : {None, "hold", "flip"}]
        /\ k4'.tx = "hold" => \/ Head(to_k4) = KeyDown
                              \/ k4.tx = "hold" /\ Head(to_k4) \notin KeyUps
    BY <2>1, <2>2, DoesIs DEF PttSafe, PttTypes
  <2>4. PttTypes'
    BY <1>1, <2>2, <2>3 DEF PttSafe, PttTypes
  <2>5. Ends'
    <3> SUFFICES ASSUME ~keyed
                 PROVE  /\ k4'.tx = "hold" => HasOneOf(to_k4', KeyUps)
                        /\ Closed(to_k4', {KeyDown}, KeyUps)
      BY <1>1 DEF Ends
    <3>1. Closed(to_k4, {KeyDown}, KeyUps) /\ (k4.tx = "hold" => HasOneOf(to_k4, KeyUps))
      BY DEF PttSafe, Ends
    <3> QED
      BY <2>1, <2>3, <3>1, TakeHead DEF PttSafe, PttTypes
  <2> QED
    BY <1>2, <2>4, <2>5 DEF PttSafe
<1>4. CASE P!LinkLost
  <2>1. k4' = [armed |-> FALSE, tx |-> None] /\ to_k4' = to_k4
    BY <1>4 DEF P!LinkLost
  <2>2. k4'.tx # "hold"
    BY <2>1 DEF PttNone
  <2>3. PttTypes'
    BY <1>1, <2>1 DEF PttSafe, PttTypes
  <2>4. Ends'
    BY <1>1, <2>1, <2>2 DEF PttSafe, Ends
  <2> QED
    BY <1>2, <2>3, <2>4 DEF PttSafe
<1> QED
  BY <1>3, <1>4

LEMMA PttInit ==
  ASSUME PttNone, P!Init
  PROVE  PttSafe
<1>1. <<>> \in Seq(Events) /\ <<>> \in Seq(PttCommands)
  OBVIOUS
<1>2. \A begins, ends : Closed(<<>>, begins, ends)
  BY DEF Closed
<1>3. PttTypes
  BY <1>1 DEF P!Init, PttTypes
<1> QED
  BY <1>2, <1>3 DEF PttNone, P!Init, PttSafe, Pressed, Holds, Ends

LEMMA PttStep ==
  ASSUME PttNone, PttSafe, [P!Next]_(P!vars)
  PROVE  PttSafe'
<1>1. ASSUME NEW k \in Keys, P!Press(k) \/ P!Repeat(k) \/ P!Release(k)
      PROVE  PttSafe'
  <2>1. shift \in BOOLEAN /\ held \subseteq Keys
    BY DEF PttSafe, PttTypes
  <2>2. UNCHANGED <<shift, hotkey, capturing, down, keyed, seen, to_k4, k4, by>>
    BY <1>1 DEF P!Press, P!Repeat, P!Release, P!window
  <2>3. CASE P!Press(k) \/ P!Repeat(k)
    <3> DEFINE e == [on |-> "press", key |-> k, shift |-> shift]
    <3>1. e \in Events /\ e.on # "release" /\ e.key = k
      BY <2>1 DEF Events
    <3>2. events' = Append(events, e) /\ held' = held \cup {k}
      BY <2>3 DEF P!Press, P!Repeat
    <3> HIDE DEF e
    <3> QED
      BY <2>2, <3>1, <3>2, EventComes
  <2>4. CASE P!Release(k)
    <3> DEFINE e == [on |-> "release", key |-> k, shift |-> shift]
    <3>1. e \in Events /\ e.on = "release" /\ e.key = k
      BY <2>1 DEF Events
    <3>2. events' = Append(events, e) /\ held' = held \ {k}
      BY <2>4 DEF P!Release
    <3> HIDE DEF e
    <3> QED
      BY <2>2, <3>1, <3>2, EventComes
  <2> QED
    BY <1>1, <2>3, <2>4
<1> QED
  BY <1>1, ButtonsSafe, HotkeyPressedSafe, OtherEventsSafe, KeyReleasedSafe,
     PttTakesCommandSafe
  DEF P!Next

(* HoldEnds holds of every reachable state, for any number of keys, events *)
(* and commands on their way: what the hotkey keys ends with its hold.     *)
THEOREM HoldAlwaysEnds ==
  ASSUME PttNone
  PROVE  Spec => []HoldEnds
<1> DEFINE Inv == part = "ptt" => PttSafe
<1>1. Init => Inv
  BY PttInit DEF Init
<1>2. ASSUME Inv, [Next]_vars PROVE Inv'
  <2> SUFFICES ASSUME part = "ptt", PttSafe PROVE PttSafe'
    BY <1>2, PartStays
  <2>1. P!Next \/ UNCHANGED P!vars
    BY <1>2 DEF Next, vars, radio, ptt, P!vars
  <2> QED
    BY <2>1, PttStep
<1>3. Inv => HoldEnds
  <2> SUFFICES ASSUME PttSafe PROVE P!HoldEnds
    BY DEF HoldEnds
  <2>1. keyed => \/ by \in held
                 \/ \E i \in DOMAIN events : events[i].on = "release" /\ events[i].key = by
    BY DEF PttSafe, Holds, ReleaseComes, HasOneOf, Of
  <2>2. \A c \in KeyUps : "key" \in DOMAIN c /\ ~c.key
    BY DEF KeyUps
  <2>3. ASSUME ~keyed, NEW i \in 0 .. Len(to_k4),
               IF i = 0 THEN k4.tx = "hold"
               ELSE to_k4[i] = [key |-> TRUE, how |-> "hold"]
        PROVE  \E j \in i + 1 .. Len(to_k4) : "key" \in DOMAIN to_k4[j] /\ ~to_k4[j].key
    <3>1. DOMAIN to_k4 = 1 .. Len(to_k4) /\ Len(to_k4) \in Nat
      BY DEF PttSafe, PttTypes
    <3>2. \E j \in i + 1 .. Len(to_k4) : to_k4[j] \in KeyUps
      <4>1. CASE i = 0
        BY <2>3, <3>1, <4>1 DEF PttSafe, Ends, HasOneOf
      <4>2. CASE i # 0
        <5>1. i \in DOMAIN to_k4 /\ to_k4[i] \in {KeyDown}
          BY <2>3, <3>1, <4>2 DEF KeyDown
        <5> QED
          BY <2>3, <5>1 DEF PttSafe, Ends, Closed
      <4> QED
        BY <4>1, <4>2
    <3> QED
      BY <2>2, <3>2
  <2> QED
    BY <2>1, <2>3 DEF P!HoldEnds
<1> QED
  BY <1>1, <1>2, <1>3, PTL DEF Spec

-----------------------------------------------------------------------------
(* The certificates.                                                       *)

(* What is assumed: a click is handled before the next one, so that the    *)
(* list it was made on is the list it is handled with.                     *)
CertLimits == Clicks = 1 /\ None \notin C!Pins

Ordered ==
  [do : {"retry"}] \cup [do : {"configure"}, place : Places]
Asks ==
  [on : {"trust"}, cert : Certs] \cup [on : {"forget"}, index : Nat, meant : C!Pins]

Distinct(q) == \A i, j \in DOMAIN q : q[i] = q[j] => i = j
RangeOf(q) == {q[i] : i \in DOMAIN q}

CertTypes ==
  /\ serves \in [Places -> Certs]
  /\ place \in Places
  /\ commands \in Seq(Ordered)
  /\ source \in [place : Places, pending : C!Pins \cup {None}]
  /\ shown \in C!Pins \cup {None}
  /\ trusted \in Seq(C!Pins) /\ Distinct(trusted)
  /\ clicks \in Seq(Asks) /\ Len(clicks) <= 1

(* What is shown was refused, and the list is of what was approved; a      *)
(* click that waits still means what it was made on.                       *)
Vouched ==
  /\ {source.pending, shown} \ {None} \subseteq refused
  /\ RangeOf(trusted) \subseteq approved \cap refused
  /\ clicks = <<>> => drawn = [prompt |-> shown, list |-> trusted]
  /\ clicks # <<>> =>
       /\ clicks[1].on = "trust" =>
            \A p \in Places : [place |-> p, cert |-> clicks[1].cert] \in approved
       /\ clicks[1].on = "forget" =>
            /\ clicks[1].index \in DOMAIN trusted
            /\ trusted[clicks[1].index] = clicks[1].meant

CertSafe == CertTypes /\ Vouched

LEMMA RemovedIs ==
  ASSUME NEW Words, NEW q \in Seq(Words), Distinct(q), NEW i \in DOMAIN q
  PROVE  /\ C!RemoveAt(q, i) \in Seq(Words) /\ Distinct(C!RemoveAt(q, i))
         /\ RangeOf(C!RemoveAt(q, i)) \subseteq RangeOf(q) \ {q[i]}
<1> DEFINE r == C!RemoveAt(q, i)
<1>1. /\ r \in Seq(Words) /\ DOMAIN r = 1 .. Len(q) - 1 /\ DOMAIN q = 1 .. Len(q)
      /\ Len(q) \in Nat
      /\ \A j \in 1 .. Len(q) - 1 : r[j] = IF j < i THEN q[j] ELSE q[j + 1]
  <2> DEFINE a == SubSeq(q, 1, i - 1)
             b == SubSeq(q, i + 1, Len(q))
  <2>1. Len(q) \in Nat /\ DOMAIN q = 1 .. Len(q) /\ i \in 1 .. Len(q)
    OBVIOUS
  <2>2. /\ a \in Seq(Words) /\ Len(a) = i - 1
        /\ \A j \in 1 .. i - 1 : a[j] = q[j]
    BY <2>1
  <2>3. /\ b \in Seq(Words) /\ Len(b) = Len(q) - i
        /\ \A j \in 1 .. Len(q) - i : b[j] = q[i + j]
    BY <2>1
  <2>4. r = a \o b
    BY DEF C!RemoveAt
  <2> HIDE DEF a, b, r
  <2>5. /\ r \in Seq(Words) /\ Len(r) = Len(a) + Len(b)
        /\ \A j \in 1 .. Len(a) + Len(b) :
             r[j] = IF j <= Len(a) THEN a[j] ELSE b[j - Len(a)]
    BY <2>2, <2>3, <2>4, ConcatProperties, Zenon
  <2>6. ASSUME NEW j \in 1 .. Len(q) - 1
        PROVE  r[j] = IF j < i THEN q[j] ELSE q[j + 1]
    <3>1. CASE j < i
      BY <2>1, <2>2, <2>3, <2>5, <3>1
    <3>2. CASE ~(j < i)
      <4>1. j - (i - 1) \in 1 .. Len(q) - i /\ i + (j - (i - 1)) = j + 1
        BY <2>1, <3>2
      <4> DEFINE k == j - (i - 1)
      <4>2. b[k] = q[i + k]
        BY <2>3, <4>1
      <4>3. r[j] = b[k]
        <5>1. j \in 1 .. Len(a) + Len(b) /\ ~(j <= Len(a)) /\ Len(a) = i - 1
          BY <2>1, <2>2, <2>3, <3>2
        <5> QED
          BY <2>5, <5>1
      <4> QED
        BY <3>2, <4>1, <4>2, <4>3
    <3> QED
      BY <3>1, <3>2
  <2>7. Len(r) = Len(q) - 1 /\ DOMAIN r = 1 .. Len(q) - 1
    BY <2>1, <2>2, <2>3, <2>5
  <2> QED
    BY <2>1, <2>5, <2>6, <2>7
<1> HIDE DEF r
<1>2. \A j \in DOMAIN r :
        LET k == IF j < i THEN j ELSE j + 1
        IN  k \in DOMAIN q /\ k # i /\ r[j] = q[k]
  BY <1>1
<1>3. RangeOf(r) \subseteq RangeOf(q) \ {q[i]}
  BY <1>2 DEF RangeOf, Distinct
<1>4. Distinct(r)
  BY <1>1, <1>2 DEF Distinct
<1> QED
  BY <1>1, <1>3, <1>4 DEF r

LEMMA AppendedIs ==
  ASSUME NEW Words, NEW q \in Seq(Words), Distinct(q), NEW x \in Words, x \notin RangeOf(q)
  PROVE  /\ Append(q, x) \in Seq(Words) /\ Distinct(Append(q, x))
         /\ RangeOf(Append(q, x)) = RangeOf(q) \cup {x}
<1> DEFINE r == Append(q, x)
<1>1. /\ r \in Seq(Words) /\ DOMAIN r = 1 .. Len(q) + 1 /\ DOMAIN q = 1 .. Len(q)
      /\ Len(q) \in Nat /\ r[Len(q) + 1] = x
      /\ \A j \in 1 .. Len(q) : r[j] = q[j]
  OBVIOUS
<1> HIDE DEF r
<1>2. RangeOf(r) = RangeOf(q) \cup {x}
  BY <1>1 DEF RangeOf
<1>3. Distinct(r)
  BY <1>1 DEF Distinct, RangeOf
<1> QED
  BY <1>1, <1>2, <1>3 DEF r

LEMMA CertInit ==
  ASSUME CertLimits, C!Init
  PROVE  CertSafe
<1>1. CertTypes
  BY DEF C!Init, CertTypes, Distinct
<1>2. Vouched
  BY DEF C!Init, Vouched, RangeOf
<1> QED
  BY <1>1, <1>2 DEF CertSafe

LEMMA ClicksSafe ==
  ASSUME CertLimits, CertSafe,
         C!ClickTrust \/ \E i \in 1 .. Most : C!ClickForget(i)
  PROVE  CertSafe'
<1>1. /\ clicks = <<>> /\ drawn = [prompt |-> shown, list |-> trusted]
      /\ UNCHANGED <<serves, place, commands, source, shown, trusted, refused>>
  <2>1. Len(clicks) < 1
    BY DEF CertLimits, C!ClickTrust, C!ClickForget
  <2>2. clicks = <<>>
    BY <2>1 DEF CertSafe, CertTypes
  <2> QED
    BY <2>2 DEF CertSafe, Vouched, C!ClickTrust, C!ClickForget
<1>2. CASE C!ClickTrust
  <2> DEFINE c == [on |-> "trust", cert |-> shown.cert]
  <2>1. shown \in C!Pins /\ shown.cert \in Certs
    BY <1>1, <1>2 DEF CertSafe, CertTypes, C!ClickTrust, C!Pins
  <2>2. c \in Asks /\ c.on = "trust" /\ c.cert = shown.cert
    BY <2>1 DEF Asks
  <2>3. /\ clicks' = Append(clicks, c)
        /\ approved' = approved \cup {[place |-> p, cert |-> shown.cert] : p \in Places}
    BY <1>1, <1>2 DEF C!ClickTrust
  <2> HIDE DEF c
  <2>4. clicks' \in Seq(Asks) /\ clicks'[1] = c /\ Len(clicks') = 1 /\ clicks' # <<>>
    BY <1>1, <2>2, <2>3
  <2>5. CertTypes'
    BY <1>1, <2>4 DEF CertSafe, CertTypes
  <2>6. Vouched'
    BY <1>1, <2>2, <2>3, <2>4 DEF CertSafe, Vouched
  <2> QED
    BY <2>5, <2>6 DEF CertSafe
<1>3. ASSUME NEW i \in 1 .. Most, C!ClickForget(i)
      PROVE  CertSafe'
  <2> DEFINE c == [on |-> "forget", index |-> i, meant |-> trusted[i]]
  <2>1. i \in DOMAIN trusted /\ i \in Nat /\ trusted[i] \in C!Pins
    BY <1>1, <1>3 DEF CertSafe, CertTypes, C!ClickForget
  <2>2. c \in Asks /\ c.on = "forget" /\ c.index = i /\ c.meant = trusted[i]
    BY <2>1 DEF Asks
  <2>3. clicks' = Append(clicks, c) /\ approved' = approved
    BY <1>1, <1>3 DEF C!ClickForget
  <2> HIDE DEF c
  <2>4. clicks' \in Seq(Asks) /\ clicks'[1] = c /\ Len(clicks') = 1 /\ clicks' # <<>>
    BY <1>1, <2>2, <2>3
  <2>5. CertTypes'
    BY <1>1, <2>4 DEF CertSafe, CertTypes
  <2>6. Vouched'
    BY <1>1, <2>1, <2>2, <2>3, <2>4 DEF CertSafe, Vouched
  <2> QED
    BY <2>5, <2>6 DEF CertSafe
<1> QED
  BY <1>2, <1>3

(* The click that waits is the only one.                                   *)
LEMMA ClickTaken ==
  ASSUME CertSafe, clicks # <<>>, clicks' = Tail(clicks)
  PROVE  /\ clicks' = <<>> /\ Head(clicks) = clicks[1] /\ Head(clicks) \in Asks
         /\ clicks' \in Seq(Asks) /\ Len(clicks') <= 1
BY DEF CertSafe, CertTypes

LEMMA HandleTrustSafe ==
  ASSUME CertLimits, CertSafe, C!HandleTrust
  PROVE  CertSafe'
<1>1. /\ clicks # <<>> /\ clicks' = Tail(clicks) /\ clicks[1].on = "trust"
      /\ clicks' = <<>> /\ Head(clicks) = clicks[1]
      /\ UNCHANGED <<serves, place, source, shown, approved, refused>>
      /\ clicks' \in Seq(Asks) /\ Len(clicks') <= 1
  BY ClickTaken DEF C!HandleTrust
<1>2. drawn' = [prompt |-> shown', list |-> trusted']
  BY <1>1 DEF C!HandleTrust, C!Redraw
<1>3. CASE UNCHANGED <<trusted, commands>>
  <2>1. CertTypes'
    BY <1>1, <1>3 DEF CertSafe, CertTypes
  <2>2. Vouched'
    BY <1>1, <1>2, <1>3 DEF CertSafe, Vouched
  <2> QED
    BY <2>1, <2>2 DEF CertSafe
<1>4. CASE /\ C!Names(Head(clicks).cert) /\ shown \notin C!Listed
           /\ trusted' = Append(trusted, shown)
           /\ commands' = Append(commands, [do |-> "retry"])
  <2>1. shown \in C!Pins /\ shown.cert = clicks[1].cert /\ shown \in refused
    BY <1>1, <1>4 DEF CertSafe, CertTypes, Vouched, C!Names
  <2>2. shown = [place |-> shown.place, cert |-> shown.cert] /\ shown.place \in Places
    BY <2>1 DEF C!Pins
  <2>3. shown \in approved
    BY <1>1, <2>1, <2>2 DEF CertSafe, Vouched
  <2>4. shown \notin RangeOf(trusted)
    BY <1>4 DEF C!Listed, RangeOf
  <2>5. /\ trusted' \in Seq(C!Pins) /\ Distinct(trusted')
        /\ RangeOf(trusted') = RangeOf(trusted) \cup {shown}
    BY <1>4, <2>1, <2>4, AppendedIs DEF CertSafe, CertTypes
  <2>6. commands' \in Seq(Ordered)
    <3>1. [do |-> "retry"] \in Ordered
      BY DEF Ordered
    <3> QED
      BY <1>4, <3>1 DEF CertSafe, CertTypes
  <2>7. CertTypes'
    BY <1>1, <2>5, <2>6 DEF CertSafe, CertTypes
  <2>8. Vouched'
    BY <1>1, <1>2, <2>1, <2>3, <2>5 DEF CertSafe, Vouched
  <2> QED
    BY <2>7, <2>8 DEF CertSafe
<1> QED
  BY <1>3, <1>4 DEF C!HandleTrust

LEMMA HandleForgetSafe ==
  ASSUME CertLimits, CertSafe, C!HandleForget
  PROVE  CertSafe'
<1> DEFINE i == clicks[1].index
<1>1. /\ clicks # <<>> /\ clicks' = Tail(clicks) /\ clicks[1].on = "forget"
      /\ clicks' = <<>> /\ Head(clicks) = clicks[1]
      /\ UNCHANGED <<serves, place, commands, source, shown, refused>>
      /\ clicks' \in Seq(Asks) /\ Len(clicks') <= 1
  BY ClickTaken DEF C!HandleForget
<1>2. drawn' = [prompt |-> shown', list |-> trusted']
  BY <1>1 DEF C!HandleForget, C!Redraw
<1>3. i \in DOMAIN trusted /\ trusted[i] = clicks[1].meant
  BY <1>1 DEF CertSafe, Vouched
<1>4. trusted' = C!RemoveAt(trusted, i) /\ approved' = approved \ {trusted[i]}
  <2>1. Head(clicks).index = i /\ Head(clicks).meant = trusted[i]
    BY <1>1, <1>3
  <2> QED
    BY <1>3, <2>1 DEF C!HandleForget
<1> HIDE DEF i
<1>5. /\ trusted' \in Seq(C!Pins) /\ Distinct(trusted')
      /\ RangeOf(trusted') \subseteq RangeOf(trusted) \ {trusted[i]}
  BY <1>3, <1>4, RemovedIs DEF CertSafe, CertTypes
<1>6. CertTypes'
  BY <1>1, <1>5 DEF CertSafe, CertTypes
<1>7. Vouched'
  BY <1>1, <1>2, <1>4, <1>5 DEF CertSafe, Vouched
<1> QED
  BY <1>6, <1>7 DEF CertSafe

LEMMA UiTickSafe ==
  ASSUME CertLimits, CertSafe, C!UiTick
  PROVE  CertSafe'
<1>1. /\ shown' = source.pending
      /\ UNCHANGED <<serves, place, source, trusted, clicks, approved, refused>>
      /\ clicks = <<>> => drawn' = [prompt |-> shown', list |-> trusted']
  BY DEF C!UiTick, C!Redraw
<1>2. commands' \in Seq(Ordered)
  <2>1. [do |-> "configure", place |-> place] \in Ordered
    BY DEF CertSafe, CertTypes, Ordered
  <2> QED
    BY <2>1 DEF C!UiTick, CertSafe, CertTypes
<1>3. CertTypes'
  BY <1>1, <1>2 DEF CertSafe, CertTypes
<1>4. Vouched'
  BY <1>1 DEF CertSafe, Vouched
<1> QED
  BY <1>3, <1>4 DEF CertSafe

LEMMA SourceSafe ==
  ASSUME CertLimits, CertSafe,
         \/ C!TakesCommand \/ C!Handshake \/ C!Lost \/ C!WaitIsOver
         \/ \E p \in Places, c \in Certs : C!ServerChanges(p, c)
         \/ \E p \in Places : C!OperatorMoves(p)
         \/ UNCHANGED C!vars
  PROVE  CertSafe'
<1>1. CASE C!TakesCommand
  <2>1. /\ commands # <<>> /\ commands' = Tail(commands)
        /\ UNCHANGED <<serves, place, shown, trusted, drawn, clicks, approved, refused>>
    BY <1>1 DEF C!TakesCommand
  <2>2. commands' \in Seq(Ordered) /\ Head(commands) \in Ordered
    BY <2>1, TakeHead DEF CertSafe, CertTypes
  <2>3. /\ source' \in [place : Places, pending : C!Pins \cup {None}]
        /\ source' = source \/ source'.pending = None
    <3>1. CASE Head(commands).do = "configure" /\ Head(commands).place # source.place
      <4>1. Head(commands).place \in Places
        BY <2>2, <3>1 DEF Ordered
      <4> QED
        BY <1>1, <3>1, <4>1 DEF C!TakesCommand
    <3>2. CASE UNCHANGED source
      BY <3>2 DEF CertSafe, CertTypes
    <3> QED
      BY <1>1, <3>1, <3>2 DEF C!TakesCommand
  <2>4. CertTypes'
    BY <2>1, <2>2, <2>3 DEF CertSafe, CertTypes
  <2>5. Vouched'
    BY <2>1, <2>3 DEF CertSafe, Vouched
  <2> QED
    BY <2>4, <2>5 DEF CertSafe
<1>2. CASE C!Handshake
  <2> DEFINE p == source.place
             pin == [place |-> p, cert |-> serves[p]]
  <2>1. /\ UNCHANGED <<serves, place, commands, shown, trusted, drawn, clicks, approved>>
        /\ \/ source' = [source EXCEPT !.pending = None] /\ UNCHANGED refused
           \/ source' = [source EXCEPT !.pending = pin] /\ refused' = refused \cup {pin}
    BY <1>2 DEF C!Handshake
  <2>2. pin \in C!Pins
    BY DEF CertSafe, CertTypes, C!Pins
  <2> HIDE DEF pin
  <2>3. /\ source' \in [place : Places, pending : C!Pins \cup {None}]
        /\ source'.pending # None => source'.pending \in refused'
        /\ refused \subseteq refused'
    BY <2>1, <2>2 DEF CertSafe, CertTypes
  <2>4. CertTypes'
    BY <2>1, <2>3 DEF CertSafe, CertTypes
  <2>5. Vouched'
    BY <2>1, <2>3 DEF CertSafe, Vouched
  <2> QED
    BY <2>4, <2>5 DEF CertSafe
<1>3. ASSUME NEW p \in Places, NEW c \in Certs, C!ServerChanges(p, c)
      PROVE  CertSafe'
  <2>1. /\ serves' \in [Places -> Certs]
        /\ UNCHANGED <<place, commands, source, shown, trusted, drawn, clicks, approved, refused>>
    BY <1>3 DEF C!ServerChanges, CertSafe, CertTypes
  <2> QED
    BY <2>1 DEF CertSafe, CertTypes, Vouched
<1>4. ASSUME NEW p \in Places, C!OperatorMoves(p)
      PROVE  CertSafe'
  BY <1>4 DEF C!OperatorMoves, CertSafe, CertTypes, Vouched
<1>5. CASE C!Lost \/ C!WaitIsOver \/ UNCHANGED C!vars
  BY <1>5 DEF C!Lost, C!WaitIsOver, C!vars, CertSafe, CertTypes, Vouched
<1> QED
  BY <1>1, <1>2, <1>3, <1>4, <1>5

LEMMA CertStep ==
  ASSUME CertLimits, CertSafe, [C!Next]_(C!vars)
  PROVE  /\ CertSafe'
         /\ conn' # None /\ conn' # conn =>
              \/ conn' \in Public
              \/ [place |-> source.place, cert |-> conn'] \in approved \cap refused
<1>1. CertSafe'
  BY ClicksSafe, HandleTrustSafe, HandleForgetSafe, UiTickSafe, SourceSafe
     DEF C!Next
<1>2. ASSUME conn' # None, conn' # conn
      PROVE  \/ conn' \in Public
             \/ [place |-> source.place, cert |-> conn'] \in approved \cap refused
  <2>1. C!Handshake
    BY <1>2 DEF C!Next, C!vars, C!ServerChanges, C!OperatorMoves, C!ClickTrust,
                C!ClickForget, C!HandleTrust, C!HandleForget, C!UiTick,
                C!TakesCommand, C!Lost, C!WaitIsOver
  <2>2. conn' = serves[source.place] /\ C!Accepted(source.place, conn')
    BY <1>2, <2>1 DEF C!Handshake
  <2> QED
    BY <2>2 DEF C!Accepted, C!Listed, CertSafe, Vouched, RangeOf
<1> QED
  BY <1>1, <1>2

(* OnlyTrusted holds of every step, for any places, certificates and       *)
(* length of the list, as long as each click is handled before the next.   *)
THEOREM OnlyTrustedOpens ==
  ASSUME CertLimits
  PROVE  Spec => OnlyTrusted
<1> DEFINE Inv == part = "certs" => CertSafe
           Opens == (part = "certs" /\ conn' # None /\ conn' # conn) =>
                      \/ conn' \in Public
                      \/ [place |-> source.place, cert |-> conn'] \in approved \cap refused
<1>1. Init => Inv
  BY CertInit DEF Init
<1>2. ASSUME Inv, [Next]_vars PROVE Inv' /\ Opens
  <2> SUFFICES ASSUME part = "certs", CertSafe PROVE CertSafe' /\ Opens
    BY <1>2, PartStays
  <2>1. C!Next \/ UNCHANGED C!vars
    BY <1>2 DEF Next, vars, certs, C!vars
  <2> QED
    BY <2>1, CertStep
<1> HIDE DEF Inv
<1>3. Spec => [][Opens]_vars
  BY <1>1, <1>2, PTL DEF Spec
<1> QED
  BY <1>3 DEF OnlyTrusted, Opens
-----------------------------------------------------------------------------
(* The CAT server.                                                         *)

ServerUnlike ==
  /\ None \notin {"reading", "leaving", "telling", "gone"}
  /\ None \notin [client : Clients, at : {"insert", "announce", "spawn"}]

StartingAt(c, steps) == accepting # None /\ accepting.client = c /\ accepting.at \in steps

(* The worker was told of a client and is yet to be told of its end; or    *)
(* was told nothing of it yet.                                             *)
Owed(c) == StartingAt(c, {"spawn"}) \/ reader[c] \in {"reading", "leaving", "telling"}
Unheard(c) == reader[c] = None /\ ~StartingAt(c, {"spawn"})

Tidings == [kind : {"connected", "line", "disconnected"}, client : Clients]

Handles ==
  /\ peers \subseteq Clients /\ IsFiniteSet(peers) /\ known \subseteq Clients
  /\ stop \in BOOLEAN
  /\ \/ accepting = None
     \/ accepting \in [client : Clients, at : {"insert", "announce", "spawn"}]
  /\ reader \in [Clients -> {None, "reading", "leaving", "telling", "gone"}]
  /\ events \in Seq(Tidings)

Limited ==
  /\ Cardinality(peers) <= MaxClients
  /\ accepting # None /\ accepting.at = "insert" => Cardinality(peers) < MaxClients
  /\ accepting # None => reader[accepting.client] = None

(* Of each client the events tell that it connected first, that it left    *)
(* last.                                                                   *)
InTurn ==
  \A i, j \in DOMAIN events :
    i < j /\ events[i].client = events[j].client =>
      events[i].kind # "disconnected" /\ events[j].kind # "connected"

ToldOf(c) ==
  /\ c \in peers => StartingAt(c, {"announce", "spawn"}) \/ reader[c] \in {"reading", "leaving"}
  /\ Unheard(c) => c \notin known /\ \A i \in DOMAIN events : events[i].client # c
  /\ Owed(c) => \A i \in DOMAIN events : events[i] # S!Event("disconnected", c)
  /\ Owed(c) /\ ~stop => c \in known \/ S!Told("connected", c)
  /\ ~stop /\ (c \in known \/ S!Told("connected", c)) =>
       Owed(c) \/ S!Told("disconnected", c)
  /\ S!Told("connected", c) => c \notin known
  /\ ~stop /\ (S!Told("line", c) \/ S!Told("disconnected", c)) =>
       c \in known \/ S!Told("connected", c)

Serves == Handles /\ Limited /\ InTurn /\ \A c \in Clients : ToldOf(c)

LEMMA ShrinkServes ==
  ASSUME Serves, MaxClients \in Nat, peers' \subseteq peers, stop' \in BOOLEAN,
         stop => stop', UNCHANGED <<accepting, reader, events, known>>
  PROVE  Serves'
<1>1. IsFiniteSet(peers') /\ Cardinality(peers') <= Cardinality(peers)
      /\ Cardinality(peers) \in Nat /\ Cardinality(peers') \in Nat
  BY FS_Subset, FS_CardinalityType DEF Serves, Handles
<1>2. Handles'
  BY <1>1 DEF Serves, Handles
<1>3. Limited'
  BY <1>1 DEF Serves, Limited
<1>4. InTurn'
  BY DEF Serves, InTurn
<1>5. ASSUME NEW c \in Clients PROVE ToldOf(c)'
  <2>1. /\ \A h : S!Told(h, c)' <=> S!Told(h, c)
        /\ Owed(c)' <=> Owed(c)
        /\ Unheard(c)' <=> Unheard(c)
        /\ \A steps : StartingAt(c, steps)' <=> StartingAt(c, steps)
    BY DEF S!Told, S!Event, Owed, Unheard, StartingAt
  <2>2. S!Event("disconnected", c)' = S!Event("disconnected", c)
    BY DEF S!Event
  <2> QED
    BY <2>1, <2>2 DEF Serves, ToldOf
<1> QED
  BY <1>2, <1>3, <1>4, <1>5 DEF Serves

(* An event more.                                                          *)
LEMMA EventAppended ==
  ASSUME Handles, NEW k \in {"connected", "line", "disconnected"}, NEW c \in Clients,
         events' = Append(events, S!Event(k, c))
  PROVE  /\ events' \in Seq(Tidings) /\ Len(events) \in Nat
         /\ DOMAIN events = 1 .. Len(events) /\ DOMAIN events' = 1 .. Len(events) + 1
         /\ \A i \in 1 .. Len(events) : events'[i] = events[i]
         /\ events'[Len(events) + 1] = S!Event(k, c)
         /\ S!Event(k, c).kind = k /\ S!Event(k, c).client = c
<1> DEFINE e == S!Event(k, c)
<1>1. e \in Tidings /\ e.kind = k /\ e.client = c
  BY DEF S!Event, Tidings
<1>2. events \in Seq(Tidings)
  BY DEF Handles
<1> HIDE DEF e
<1>3. /\ Append(events, e) \in Seq(Tidings) /\ Len(events) \in Nat
      /\ DOMAIN events = 1 .. Len(events)
      /\ DOMAIN Append(events, e) = 1 .. Len(events) + 1
      /\ \A i \in 1 .. Len(events) : Append(events, e)[i] = events[i]
      /\ Append(events, e)[Len(events) + 1] = e
  BY <1>1, <1>2
<1>4. events' = Append(events, e)
  BY DEF e
<1> QED
  BY <1>1, <1>3, <1>4 DEF e

LEMMA ToldMore ==
  ASSUME Handles, NEW k \in {"connected", "line", "disconnected"}, NEW c \in Clients,
         events' = Append(events, S!Event(k, c)), NEW h, NEW d
  PROVE  S!Told(h, d)' <=> S!Told(h, d) \/ (h = k /\ d = c)
<1> DEFINE e == S!Event(h, d)
<1>1. e = S!Event(k, c) <=> h = k /\ d = c
  BY DEF S!Event
<1>2. S!Told(h, d) <=> \E i \in DOMAIN events : events[i] = e
  BY DEF S!Told
<1>3. S!Told(h, d)' <=> \E i \in DOMAIN events' : events'[i] = e
  BY DEF S!Told, S!Event
<1> HIDE DEF e
<1> QED
  BY <1>1, <1>2, <1>3, EventAppended

(* One that tells of a client nothing that is out of turn.                 *)
LEMMA EventInTurn ==
  ASSUME Handles, InTurn, NEW k \in {"connected", "line", "disconnected"},
         NEW c \in Clients, events' = Append(events, S!Event(k, c)),
         ~S!Told("disconnected", c),
         k = "connected" => \A i \in DOMAIN events : events[i].client # c
  PROVE  InTurn'
<1>1. /\ DOMAIN events = 1 .. Len(events) /\ DOMAIN events' = 1 .. Len(events) + 1
      /\ Len(events) \in Nat /\ \A i \in 1 .. Len(events) : events'[i] = events[i]
      /\ events'[Len(events) + 1].kind = k /\ events'[Len(events) + 1].client = c
  BY EventAppended
<1>2. ASSUME NEW i \in DOMAIN events, events[i].client = c
      PROVE  events[i].kind # "disconnected"
  <2>1. events[i] \in Tidings
    BY DEF Handles
  <2>2. events[i] = [kind |-> events[i].kind, client |-> events[i].client]
    BY <2>1 DEF Tidings
  <2> QED
    BY <1>2, <2>2 DEF S!Told, S!Event
<1>3. ASSUME NEW i \in DOMAIN events', NEW j \in DOMAIN events', i < j,
             events'[i].client = events'[j].client
      PROVE  events'[i].kind # "disconnected" /\ events'[j].kind # "connected"
  <2>1. i \in 1 .. Len(events) /\ i \in DOMAIN events /\ events'[i] = events[i]
    BY <1>1, <1>3
  <2>2. CASE j = Len(events) + 1
    BY <1>1, <1>2, <1>3, <2>1, <2>2
  <2>3. CASE j # Len(events) + 1
    <3>1. j \in DOMAIN events /\ events'[j] = events[j]
      BY <1>1, <2>3
    <3> QED
      BY <1>3, <2>1, <3>1 DEF InTurn
  <2> QED
    BY <2>2, <2>3
<1> QED
  BY <1>3 DEF InTurn

(* The accept loop keeps the limit, and starts a client nobody heard of.   *)
LEMMA AcceptServes ==
  ASSUME Serves, ServerUnlike, MaxClients \in Nat, NEW c \in Clients, S!Accept(c)
  PROVE  Serves'
<1>0. reader[c] = None /\ accepting = None
      /\ UNCHANGED <<peers, reader, events, known, stop>>
  BY DEF S!Accept
<1>1. CASE S!IsFull
  BY <1>0, <1>1, ShrinkServes DEF S!Accept, Serves, Handles
<1>2. CASE ~S!IsFull
  <2>1. accepting' = [client |-> c, at |-> "insert"]
    BY <1>2 DEF S!Accept
  <2>2. accepting' \in [client : Clients, at : {"insert", "announce", "spawn"}]
        /\ accepting'.client = c /\ accepting'.at = "insert" /\ accepting' # None
    BY <2>1 DEF ServerUnlike
  <2>3. Handles'
    BY <1>0, <2>2 DEF Serves, Handles
  <2>4. Cardinality(peers) \in Nat
    BY FS_CardinalityType DEF Serves, Handles
  <2>5. Limited'
    <3>0. S!Cardinality(peers) = Cardinality(peers)
      BY Zenon DEF Cardinality, S!Cardinality
    <3>1. Cardinality(peers) < MaxClients
      BY <1>2, <2>4, <3>0 DEF S!IsFull
    <3>2. Cardinality(peers') < MaxClients /\ Cardinality(peers') <= MaxClients
      BY <1>0, <2>4, <3>1
    <3> QED
      BY <1>0, <2>2, <3>2 DEF Limited
  <2>6. InTurn'
    BY <1>0 DEF Serves, InTurn
  <2>7. ASSUME NEW d \in Clients PROVE ToldOf(d)'
    <3>1. /\ ~StartingAt(d, {"announce", "spawn"}) /\ ~StartingAt(d, {"announce", "spawn"})'
          /\ ~StartingAt(d, {"spawn"}) /\ ~StartingAt(d, {"spawn"})'
      BY <1>0, <2>2 DEF StartingAt
    <3>2. ToldOf(d)
      BY DEF Serves
    <3> QED
      BY <1>0, <3>1, <3>2 DEF ToldOf, Owed, Unheard, S!Told, S!Event
  <2> QED
    BY <2>3, <2>5, <2>6, <2>7 DEF Serves
<1> QED
  BY <1>1, <1>2

LEMMA StartServes ==
  ASSUME Serves, ServerUnlike, MaxClients \in Nat, S!SetUpFails \/ S!Insert
  PROVE  Serves'
<1>0. /\ accepting # None /\ accepting.at = "insert" /\ accepting.client \in Clients
      /\ UNCHANGED <<reader, events, known, stop>>
      /\ accepting \in [client : Clients, at : {"insert", "announce", "spawn"}]
      /\ Cardinality(peers) \in Nat /\ IsFiniteSet(peers)
  BY FS_CardinalityType DEF S!SetUpFails, S!Insert, Serves, Handles
<1>1. \/ accepting' = None /\ peers' = peers
      \/ /\ accepting' = [accepting EXCEPT !.at = "announce"]
         /\ peers' = peers \cup {accepting.client}
  BY DEF S!SetUpFails, S!Insert
<1>2. \/ accepting' = None /\ peers' = peers
      \/ /\ accepting' \in [client : Clients, at : {"insert", "announce", "spawn"}]
         /\ accepting'.at = "announce" /\ accepting'.client = accepting.client
         /\ accepting' # None /\ peers' = peers \cup {accepting.client}
  BY <1>0, <1>1 DEF ServerUnlike
<1>3. /\ IsFiniteSet(peers') /\ Cardinality(peers') \in Nat
      /\ Cardinality(peers') <= Cardinality(peers) + 1
  <2>1. CASE peers' = peers
    BY <1>0, <2>1
  <2>2. CASE peers' = peers \cup {accepting.client}
    <3>1. /\ IsFiniteSet(peers')
          /\ \/ Cardinality(peers') = Cardinality(peers)
             \/ Cardinality(peers') = Cardinality(peers) + 1
      BY <1>0, <2>2, FS_AddElement
    <3> QED
      BY <1>0, <3>1
  <2> QED
    BY <1>1, <2>1, <2>2
<1>4. Handles'
  BY <1>0, <1>1, <1>2, <1>3 DEF Serves, Handles
<1>5. Limited'
  BY <1>0, <1>2, <1>3 DEF Serves, Limited
<1>6. InTurn'
  BY <1>0 DEF Serves, InTurn
<1>7. ASSUME NEW d \in Clients PROVE ToldOf(d)'
  <2>1. /\ ~StartingAt(d, {"announce", "spawn"})
        /\ d \in peers' => d \in peers \/ StartingAt(d, {"announce", "spawn"})'
        /\ ~StartingAt(d, {"spawn"}) /\ ~StartingAt(d, {"spawn"})'
    <3>1. ~StartingAt(d, {"announce", "spawn"}) /\ ~StartingAt(d, {"spawn"})
      BY <1>0 DEF StartingAt
    <3>2. ~StartingAt(d, {"spawn"})'
      BY <1>2 DEF StartingAt
    <3>3. d \in peers' => d \in peers \/ StartingAt(d, {"announce", "spawn"})'
      <4>1. CASE accepting' = None
        BY <1>2, <4>1
      <4>2. CASE accepting' # None
        BY <1>2, <4>2 DEF StartingAt
      <4> QED
        BY <4>1, <4>2
    <3> QED
      BY <3>1, <3>2, <3>3
  <2>2. ToldOf(d)
    BY DEF Serves
  <2> QED
    BY <1>0, <2>1, <2>2 DEF ToldOf, Owed, Unheard, S!Told, S!Event
<1> QED
  BY <1>4, <1>5, <1>6, <1>7 DEF Serves

LEMMA AnnounceServes ==
  ASSUME Serves, ServerUnlike, S!Announce
  PROVE  Serves'
<1> DEFINE c == accepting.client
<1>0. /\ accepting # None /\ accepting.at = "announce" /\ c \in Clients
      /\ UNCHANGED <<peers, reader, known, stop>>
      /\ accepting \in [client : Clients, at : {"insert", "announce", "spawn"}]
      /\ accepting' = [accepting EXCEPT !.at = "spawn"]
      /\ events' = Append(events, S!Event("connected", c))
      /\ reader[c] = None
  BY DEF S!Announce, Serves, Handles, Limited
<1>1. /\ accepting' \in [client : Clients, at : {"insert", "announce", "spawn"}]
      /\ accepting'.at = "spawn" /\ accepting'.client = c /\ accepting' # None
  BY <1>0 DEF ServerUnlike
<1> HIDE DEF c
<1>2. Unheard(c)
  BY <1>0 DEF Unheard, StartingAt
<1>3. c \notin known /\ \A i \in DOMAIN events : events[i].client # c
  BY <1>0, <1>2 DEF Serves, ToldOf
<1>4. \A h : ~S!Told(h, c)
  BY <1>3 DEF S!Told, S!Event
<1>5. Handles'
  BY <1>0, <1>1, EventAppended DEF Serves, Handles
<1>6. Limited'
  BY <1>0, <1>1 DEF Serves, Limited, c
<1>7. InTurn'
  BY <1>0, <1>3, <1>4, EventInTurn DEF Serves
<1>8. ASSUME NEW d \in Clients PROVE ToldOf(d)'
  <2>0. ToldOf(d)
    BY DEF Serves
  <2>1. \A h : S!Told(h, d)' <=> S!Told(h, d) \/ (h = "connected" /\ d = c)
    BY <1>0, ToldMore DEF Serves
  <2>2. CASE d = c
    <3>1. StartingAt(d, {"announce", "spawn"})' /\ Owed(d)' /\ ~Unheard(d)'
      BY <1>1, <2>2 DEF StartingAt, Owed, Unheard
    <3>2. \A i \in DOMAIN events' : events'[i] # S!Event("disconnected", d)'
      BY <1>4, <2>1, <2>2 DEF S!Told
    <3> QED
      BY <1>0, <1>3, <1>4, <2>1, <2>2, <3>1, <3>2 DEF ToldOf
  <2>3. CASE d # c
    <3>1. /\ ~StartingAt(d, {"announce", "spawn"}) /\ ~StartingAt(d, {"announce", "spawn"})'
          /\ ~StartingAt(d, {"spawn"}) /\ ~StartingAt(d, {"spawn"})'
      BY <1>0, <1>1, <2>3 DEF StartingAt, c
    <3>2. (Owed(d)' <=> Owed(d)) /\ (Unheard(d)' <=> Unheard(d))
      BY <1>0, <3>1 DEF Owed, Unheard
    <3>3. (\A i \in DOMAIN events : events[i].client # d)
             => \A i \in DOMAIN events' : events'[i].client # d
      BY <1>0, <2>3, EventAppended DEF Serves
    <3>4. (\A i \in DOMAIN events : events[i] # S!Event("disconnected", d))
             => \A i \in DOMAIN events' : events'[i] # S!Event("disconnected", d)'
      BY <2>1, <2>3 DEF S!Told
    <3> QED
      BY <1>0, <2>0, <2>1, <2>3, <3>1, <3>2, <3>3, <3>4 DEF ToldOf
  <2> QED
    BY <2>2, <2>3
<1> QED
  BY <1>5, <1>6, <1>7, <1>8 DEF Serves

(* Its threads started; from then on its reader owes the end.              *)
LEMMA SpawnServes ==
  ASSUME Serves, ServerUnlike, S!Spawn
  PROVE  Serves'
<1> DEFINE c == accepting.client
<1>0. /\ accepting # None /\ accepting.at = "spawn" /\ c \in Clients
      /\ UNCHANGED <<peers, known, stop, events>>
      /\ accepting' = None
      /\ reader' = [reader EXCEPT ![c] = "reading"]
      /\ reader \in [Clients -> {None, "reading", "leaving", "telling", "gone"}]
  BY DEF S!Spawn, Serves, Handles
<1>1. \A d \in Clients : reader'[d] = IF d = c THEN "reading" ELSE reader[d]
  BY <1>0
<1>2. Handles'
  BY <1>0 DEF Serves, Handles
<1>3. Limited'
  BY <1>0 DEF Serves, Limited
<1>4. InTurn'
  BY <1>0 DEF Serves, InTurn
<1>5. ASSUME NEW d \in Clients PROVE ToldOf(d)'
  <2>0. ToldOf(d)
    BY DEF Serves
  <2>1. /\ S!Event("disconnected", d)' = S!Event("disconnected", d)
        /\ \A h : S!Told(h, d)' <=> S!Told(h, d)
    BY <1>0 DEF S!Told, S!Event
  <2>2. \A steps : ~StartingAt(d, steps)'
    BY <1>0 DEF StartingAt
  <2> HIDE DEF c
  <2>3. CASE d = c
    <3>1. Owed(d) /\ Owed(d)' /\ ~Unheard(d)' /\ reader'[d] = "reading"
      BY <1>0, <1>1, <2>3 DEF Owed, Unheard, StartingAt, ServerUnlike, c
    <3> QED
      BY <1>0, <2>0, <2>1, <3>1 DEF ToldOf
  <2>4. CASE d # c
    <3>1. \A steps : ~StartingAt(d, steps)
      BY <2>4 DEF StartingAt, c
    <3>2. reader'[d] = reader[d]
      BY <1>1, <2>4
    <3>3. (Owed(d)' <=> Owed(d)) /\ (Unheard(d)' <=> Unheard(d))
      BY <2>2, <3>1, <3>2 DEF Owed, Unheard
    <3> QED
      BY <1>0, <2>0, <2>1, <3>1, <3>2, <3>3 DEF ToldOf
  <2> QED
    BY <2>3, <2>4
<1> QED
  BY <1>2, <1>3, <1>4, <1>5 DEF Serves

(* A reader leaves its loop, then takes its client out, whoever closed it. *)
LEMMA LeaveServes ==
  ASSUME Serves, ServerUnlike, MaxClients \in Nat, NEW c \in Clients,
         S!Leaves(c) \/ S!TakesOut(c)
  PROVE  Serves'
<1>0. /\ reader[c] \in {"reading", "leaving"}
      /\ \/ reader' = [reader EXCEPT ![c] = "leaving"] /\ peers' = peers
         \/ reader' = [reader EXCEPT ![c] = "telling"] /\ peers' = peers \ {c}
      /\ UNCHANGED <<accepting, known, stop, events>>
      /\ reader \in [Clients -> {None, "reading", "leaving", "telling", "gone"}]
  BY DEF S!Leaves, S!TakesOut, S!AfterReading, S!Removed, Serves, Handles
<1>1. /\ \A d \in Clients : d # c => reader'[d] = reader[d]
      /\ \/ reader'[c] = "leaving"
         \/ reader'[c] = "telling" /\ c \notin peers'
      /\ reader' \in [Clients -> {None, "reading", "leaving", "telling", "gone"}]
      /\ peers' \subseteq peers
  BY <1>0
<1>2. IsFiniteSet(peers') /\ Cardinality(peers') <= Cardinality(peers)
      /\ Cardinality(peers) \in Nat /\ Cardinality(peers') \in Nat
  BY <1>1, FS_Subset, FS_CardinalityType DEF Serves, Handles
<1>3. Handles'
  BY <1>0, <1>1, <1>2 DEF Serves, Handles
<1>4. Limited'
  <2>1. accepting # None => accepting.client \in Clients
    BY DEF Serves, Handles
  <2>2. accepting # None => accepting.client # c
    BY <1>0 DEF Serves, Limited, ServerUnlike
  <2>3. accepting # None => reader'[accepting.client] = None
    BY <1>1, <2>1, <2>2 DEF Serves, Limited
  <2> QED
    BY <1>0, <1>2, <2>3 DEF Serves, Limited
<1>5. InTurn'
  BY <1>0 DEF Serves, InTurn
<1>6. ASSUME NEW d \in Clients PROVE ToldOf(d)'
  <2>0. ToldOf(d)
    BY DEF Serves
  <2>1. /\ S!Event("disconnected", d)' = S!Event("disconnected", d)
        /\ \A h : S!Told(h, d)' <=> S!Told(h, d)
        /\ \A steps : StartingAt(d, steps)' <=> StartingAt(d, steps)
    BY <1>0 DEF S!Told, S!Event, StartingAt
  <2>2. CASE d = c
    <3>1. Owed(d) /\ Owed(d)' /\ ~Unheard(d)'
      BY <1>0, <1>1, <2>2 DEF Owed, Unheard, ServerUnlike
    <3>2. d \in peers' => reader'[d] = "leaving"
      BY <1>1, <2>2
    <3> QED
      BY <1>0, <2>0, <2>1, <3>1, <3>2 DEF ToldOf
  <2>3. CASE d # c
    <3>1. reader'[d] = reader[d]
      BY <1>1, <2>3
    <3>2. (Owed(d)' <=> Owed(d)) /\ (Unheard(d)' <=> Unheard(d))
      BY <2>1, <3>1 DEF Owed, Unheard
    <3> QED
      BY <1>0, <1>1, <2>0, <2>1, <3>1, <3>2 DEF ToldOf
  <2> QED
    BY <2>2, <2>3
<1> QED
  BY <1>3, <1>4, <1>5, <1>6 DEF Serves

(* A reader's line, or its last word.                                      *)
LEMMA ReadsServes ==
  ASSUME Serves, ServerUnlike, NEW c \in Clients, S!Reads(c)
  PROVE  Serves'
<1>0. /\ reader[c] = "reading" /\ ~stop
      /\ events' = Append(events, S!Event("line", c))
      /\ UNCHANGED <<peers, accepting, reader, known, stop>>
  BY DEF S!Reads
<1>1. Handles'
  BY <1>0, EventAppended DEF Serves, Handles
<1>2. Limited'
  BY <1>0 DEF Serves, Limited
<1>3. Owed(c)
  BY <1>0 DEF Owed
<1>4. ~S!Told("disconnected", c)
  BY <1>3 DEF Serves, ToldOf, S!Told
<1>5. InTurn'
  BY <1>0, <1>4, EventInTurn DEF Serves
<1>6. ASSUME NEW d \in Clients PROVE ToldOf(d)'
  <2>0. ToldOf(d)
    BY DEF Serves
  <2>1. \A h : S!Told(h, d)' <=> S!Told(h, d) \/ (h = "line" /\ d = c)
    BY <1>0, ToldMore DEF Serves
  <2>2. /\ \A steps : StartingAt(d, steps)' <=> StartingAt(d, steps)
        /\ (Owed(d)' <=> Owed(d)) /\ (Unheard(d)' <=> Unheard(d))
    BY <1>0 DEF StartingAt, Owed, Unheard
  <2>3. (\A i \in DOMAIN events : events[i] # S!Event("disconnected", d))
           => \A i \in DOMAIN events' : events'[i] # S!Event("disconnected", d)'
    BY <2>1 DEF S!Told
  <2>4. CASE d = c
    <3>1. ~Unheard(d)
      BY <1>0, <2>4 DEF Unheard, ServerUnlike
    <3> QED
      BY <1>0, <1>3, <2>0, <2>1, <2>2, <2>3, <2>4, <3>1 DEF ToldOf
  <2>5. CASE d # c
    <3>1. (\A i \in DOMAIN events : events[i].client # d)
             => \A i \in DOMAIN events' : events'[i].client # d
      BY <1>0, <2>5, EventAppended DEF Serves
    <3> QED
      BY <1>0, <2>0, <2>1, <2>2, <2>3, <2>5, <3>1 DEF ToldOf
  <2> QED
    BY <2>4, <2>5
<1> QED
  BY <1>1, <1>2, <1>5, <1>6 DEF Serves

LEMMA TellsServes ==
  ASSUME Serves, ServerUnlike, NEW c \in Clients, S!Tells(c)
  PROVE  Serves'
<1>0. /\ reader[c] = "telling"
      /\ reader' = [reader EXCEPT ![c] = "gone"]
      /\ events' = Append(events, S!Event("disconnected", c))
      /\ UNCHANGED <<peers, accepting, known, stop>>
      /\ reader \in [Clients -> {None, "reading", "leaving", "telling", "gone"}]
  BY DEF S!Tells, Serves, Handles
<1>1. /\ \A d \in Clients : d # c => reader'[d] = reader[d]
      /\ reader'[c] = "gone"
      /\ reader' \in [Clients -> {None, "reading", "leaving", "telling", "gone"}]
  BY <1>0
<1>2. Handles'
  BY <1>0, <1>1, EventAppended DEF Serves, Handles
<1>3. accepting # None => accepting.client # c /\ accepting.client \in Clients
  BY <1>0 DEF Serves, Limited, Handles, ServerUnlike
<1>4. Limited'
  BY <1>0, <1>1, <1>3 DEF Serves, Limited
<1>5. Owed(c) /\ ~S!Told("disconnected", c)
  <2>1. Owed(c)
    BY <1>0 DEF Owed
  <2> QED
    BY <2>1 DEF Serves, ToldOf, S!Told
<1>6. InTurn'
  BY <1>0, <1>5, EventInTurn DEF Serves
<1>7. ASSUME NEW d \in Clients PROVE ToldOf(d)'
  <2>0. ToldOf(d)
    BY DEF Serves
  <2>1. \A h : S!Told(h, d)' <=> S!Told(h, d) \/ (h = "disconnected" /\ d = c)
    BY <1>0, ToldMore DEF Serves
  <2>2. \A steps : StartingAt(d, steps)' <=> StartingAt(d, steps)
    BY <1>0 DEF StartingAt
  <2>3. CASE d = c
    <3>1. \A steps : ~StartingAt(d, steps)
      BY <1>3, <2>3 DEF StartingAt
    <3>2. ~Owed(d)' /\ ~Unheard(d)'
      BY <1>1, <2>2, <2>3, <3>1 DEF Owed, Unheard, ServerUnlike
    <3>3. d \notin peers
      BY <1>0, <2>0, <2>3, <3>1 DEF ToldOf
    <3> QED
      BY <1>0, <1>5, <2>0, <2>1, <2>3, <3>2, <3>3 DEF ToldOf
  <2>4. CASE d # c
    <3>1. reader'[d] = reader[d]
      BY <1>1, <2>4
    <3>2. (Owed(d)' <=> Owed(d)) /\ (Unheard(d)' <=> Unheard(d))
      BY <2>2, <3>1 DEF Owed, Unheard
    <3>3. (\A i \in DOMAIN events : events[i].client # d)
             => \A i \in DOMAIN events' : events'[i].client # d
      BY <1>0, <2>4, EventAppended DEF Serves
    <3>4. (\A i \in DOMAIN events : events[i] # S!Event("disconnected", d))
             => \A i \in DOMAIN events' : events'[i] # S!Event("disconnected", d)'
      BY <2>1, <2>4 DEF S!Told
    <3> QED
      BY <1>0, <2>0, <2>1, <2>2, <2>4, <3>1, <3>2, <3>3, <3>4 DEF ToldOf
  <2> QED
    BY <2>3, <2>4
<1> QED
  BY <1>2, <1>4, <1>6, <1>7 DEF Serves

(* The worker takes what waits; once the server is dropped nobody does.    *)
LEMMA PollServes ==
  ASSUME Serves, ServerUnlike, S!Poll \/ S!NobodyHears
  PROVE  Serves'
<1>0. /\ events' = <<>> /\ UNCHANGED <<peers, accepting, reader, stop>>
      /\ \/ ~stop /\ known' = {c \in Clients : S!StillKnown(c)}
         \/ stop = TRUE /\ known' = known
  BY DEF S!Poll, S!NobodyHears, Serves, Handles
<1>1. Handles'
  BY <1>0 DEF Serves, Handles
<1>2. Limited'
  BY <1>0 DEF Serves, Limited
<1>3. InTurn'
  BY <1>0 DEF InTurn
<1>4. ASSUME NEW c \in Clients PROVE ToldOf(c)'
  <2>0. ToldOf(c)
    BY DEF Serves
  <2>1. /\ \A h : ~S!Told(h, c)'
        /\ \A i \in DOMAIN events' : FALSE
        /\ \A steps : StartingAt(c, steps)' <=> StartingAt(c, steps)
        /\ (Owed(c)' <=> Owed(c)) /\ (Unheard(c)' <=> Unheard(c))
    BY <1>0 DEF S!Told, StartingAt, Owed, Unheard
  <2>2. CASE stop = TRUE /\ known' = known
    BY <1>0, <2>0, <2>1, <2>2 DEF ToldOf
  <2>3. CASE ~stop /\ known' = {d \in Clients : S!StillKnown(d)}
    <3>1. Unheard(c) => ~S!StillKnown(c)
      BY <2>0 DEF ToldOf, S!StillKnown, S!Event
    <3>2. Owed(c) => S!StillKnown(c)
      <4> SUFFICES ASSUME Owed(c) PROVE S!StillKnown(c)
        OBVIOUS
      <4>1. \A i \in DOMAIN events : events[i] # S!Event("disconnected", c)
        BY <2>0 DEF ToldOf
      <4>2. \A i \in DOMAIN events : i + 1 .. Len(events) \subseteq DOMAIN events
        BY DEF Serves, Handles
      <4>3. c \in known \/ S!Told("connected", c)
        BY <2>0, <2>3 DEF ToldOf
      <4> QED
        BY <4>1, <4>2, <4>3 DEF S!StillKnown, S!Told
    <3>3. S!StillKnown(c) => Owed(c)
      <4> SUFFICES ASSUME S!StillKnown(c), S!Told("disconnected", c) PROVE FALSE
        BY <2>0, <2>3 DEF ToldOf, S!StillKnown, S!Told
      <4>1. PICK j \in DOMAIN events : events[j] = S!Event("disconnected", c)
        BY DEF S!Told
      <4>2. PICK i \in DOMAIN events :
              /\ events[i] = S!Event("connected", c)
              /\ \A k \in i + 1 .. Len(events) : events[k] # S!Event("disconnected", c)
        BY <4>1 DEF S!StillKnown
      <4>3. DOMAIN events = 1 .. Len(events) /\ Len(events) \in Nat
        BY DEF Serves, Handles
      <4>4. /\ events[j].kind = "disconnected" /\ events[j].client = c
            /\ events[i].kind = "connected" /\ events[i].client = c
        BY <4>1, <4>2 DEF S!Event
      <4>5. ~(j < i)
        BY <4>4 DEF Serves, InTurn
      <4>6. j # i
        BY <4>4
      <4> QED
        BY <4>1, <4>2, <4>3, <4>5, <4>6
    <3> QED
      BY <1>0, <2>0, <2>1, <2>3, <3>1, <3>2, <3>3 DEF ToldOf
  <2> QED
    BY <1>0, <2>2, <2>3
<1> QED
  BY <1>1, <1>2, <1>3, <1>4 DEF Serves

(* EveryEndIsTold holds of every reachable state, for any clients, limit,  *)
(* queues and number of events waiting.                                    *)
THEOREM EveryEndIsAlwaysTold ==
  ASSUME ServerUnlike, MaxClients \in Nat
  PROVE  Spec => []EveryEndIsTold
<1> DEFINE Inv == part = "server" => Serves
<1>1. Init => Inv
  <2> SUFFICES ASSUME S!Init PROVE Serves
    BY DEF Init
  <2>0. /\ peers = {} /\ accepting = None /\ events = <<>> /\ known = {} /\ stop = FALSE
        /\ reader = [c \in Clients |-> None]
    BY DEF S!Init
  <2>1. Handles /\ Limited /\ InTurn
    <3>1. Handles
      <4>1. IsFiniteSet(peers)
        BY <2>0, FS_EmptySet
      <4>2. events \in Seq(Tidings)
        BY <2>0
      <4>3. reader \in [Clients -> {None, "reading", "leaving", "telling", "gone"}]
        BY <2>0
      <4> QED
        BY <2>0, <4>1, <4>2, <4>3 DEF Handles
    <3>2. Cardinality(peers) = 0
      BY <2>0, FS_EmptySet
    <3>3. Limited /\ InTurn
      BY <2>0, <3>2 DEF Limited, InTurn
    <3> QED
      BY <3>1, <3>3
  <2>2. ASSUME NEW c \in Clients PROVE ToldOf(c)
    <3>1. reader[c] = None /\ DOMAIN events = {}
      BY <2>0
    <3>2. (\A h : ~S!Told(h, c)) /\ (\A steps : ~StartingAt(c, steps)) /\ ~Owed(c)
      BY <2>0, <3>1 DEF S!Told, StartingAt, Owed, ServerUnlike
    <3> QED
      BY <2>0, <3>1, <3>2 DEF ToldOf
  <2> QED
    BY <2>1, <2>2 DEF Serves
<1>2. ASSUME Inv, [Next]_vars PROVE Inv'
  <2> SUFFICES ASSUME part = "server", Serves PROVE Serves'
    BY <1>2, PartStays
  <2>1. ASSUME peers' \subseteq peers, stop' \in BOOLEAN, stop => stop',
               UNCHANGED <<accepting, reader, events, known>>
        PROVE  Serves'
    BY <2>1, ShrinkServes
  <2>2. stop \in BOOLEAN
    BY DEF Serves, Handles
  <2>3. CASE UNCHANGED <<server, events>>
    BY <2>1, <2>2, <2>3 DEF server
  <2>4. ASSUME NEW c \in Clients,
               \/ S!ClientLeaves(c) \/ S!TakesLine(c) \/ S!Writes(c) \/ S!WriteFails(c)
               \/ S!QueueEnds(c) \/ S!Send(c) \/ S!Close(c)
        PROVE  Serves'
    <3>1. peers' \subseteq peers /\ UNCHANGED <<accepting, reader, events, known, stop>>
      BY <2>4 DEF S!ClientLeaves, S!TakesLine, S!Writes, S!WriteFails, S!QueueEnds,
                  S!Send, S!Close, S!Removed
    <3> QED
      BY <2>1, <2>2, <3>1
  <2>5. CASE S!CloseAll \/ S!DropServer
    <3>1. peers' \subseteq peers /\ UNCHANGED <<accepting, reader, events, known>>
          /\ stop' \in BOOLEAN /\ (stop => stop')
      BY <2>2, <2>5 DEF S!CloseAll, S!DropServer
    <3> QED
      BY <2>1, <3>1
  <2>6. CASE S!Next
    BY <2>4, <2>5, <2>6, AcceptServes, StartServes, AnnounceServes, SpawnServes,
       LeaveServes, ReadsServes, TellsServes, PollServes DEF S!Next
  <2> QED
    BY <1>2, <2>3, <2>6 DEF Next, vars
<1>3. Inv => EveryEndIsTold
  <2> SUFFICES ASSUME Serves PROVE S!EveryEndIsTold
    BY DEF EveryEndIsTold
  <2>1. S!Cardinality(peers) <= MaxClients
    <3>1. S!Cardinality(peers) = Cardinality(peers)
      BY Zenon DEF Cardinality, S!Cardinality
    <3> QED
      BY <3>1 DEF Serves, Limited
  <2>2. ASSUME NEW c \in Clients
        PROVE  LET starting == accepting # None /\ accepting.client = c
                   reading == reader[c] \in {"reading", "leaving", "telling"}
               IN  /\ c \in peers => starting \/ reader[c] \in {"reading", "leaving"}
                   /\ ~stop /\ (c \in known \/ S!Told("connected", c)) =>
                        starting \/ reading \/ S!Told("disconnected", c)
    BY DEF Serves, ToldOf, StartingAt, Owed
  <2>3. ASSUME NEW i \in DOMAIN events
        PROVE  LET e == events[i]
                   later == {events[j] : j \in i + 1 .. Len(events)}
               IN  /\ e.kind = "connected" =>
                        e.client \notin known /\ e \notin later
                   /\ ~stop /\ e.kind # "connected" =>
                        \/ e.client \in known
                        \/ \E j \in 1 .. i - 1 : events[j] = S!Event("connected", e.client)
                   /\ e.kind = "disconnected" => \A f \in later : f.client # e.client
    <3> DEFINE c == events[i].client
               k == events[i].kind
    <3>1. c \in Clients /\ k \in {"connected", "line", "disconnected"}
          /\ events[i] = S!Event(k, c)
          /\ DOMAIN events = 1 .. Len(events) /\ Len(events) \in Nat
      <4>1. events[i] \in Tidings /\ DOMAIN events = 1 .. Len(events) /\ Len(events) \in Nat
        BY DEF Serves, Handles
      <4> QED
        BY <4>1 DEF Tidings, S!Event
    <3>2. ToldOf(c) /\ S!Told(k, c)
      BY <3>1 DEF Serves, S!Told
    <3>3. \A j \in i + 1 .. Len(events) : j \in DOMAIN events /\ i < j
      BY <3>1
    <3>4. k = "connected" => c \notin known
      BY <3>2 DEF ToldOf
    <3>5. k = "connected" => \A j \in i + 1 .. Len(events) : events[j] # events[i]
      BY <3>3 DEF Serves, InTurn
    <3>6. k = "disconnected" => \A j \in i + 1 .. Len(events) : events[j].client # c
      BY <3>3 DEF Serves, InTurn
    <3>7. ASSUME ~stop, k # "connected", c \notin known
          PROVE  \E j \in 1 .. i - 1 : events[j] = S!Event("connected", c)
      <4>1. S!Told("connected", c)
        BY <3>1, <3>2, <3>7 DEF ToldOf
      <4>2. PICK j \in DOMAIN events : events[j] = S!Event("connected", c)
        BY <4>1 DEF S!Told
      <4>3. events[j].kind = "connected" /\ events[j].client = c
        BY <4>2 DEF S!Event
      <4>4. ~(i < j) /\ i # j
        BY <3>7, <4>3 DEF Serves, InTurn
      <4> QED
        BY <3>1, <4>2, <4>4
    <3> QED
      BY <3>4, <3>5, <3>6, <3>7
  <2> QED
    BY <2>1, <2>2, <2>3 DEF S!EveryEndIsTold
<1> QED
  BY <1>1, <1>2, <1>3, PTL DEF Spec
=============================================================================
