--------------------------- MODULE TxAudioProofs ---------------------------
(***************************************************************************)
(* Proofs about TxAudio: what goes out is from the right source and was    *)
(* captured since the key, for rings of any capacity.                      *)
(***************************************************************************)
EXTENDS TxAudio, TLAPS

Ages == {"stale", "fresh"}
Fresh(ring) == \A i \in DOMAIN ring : ring[i] = "fresh"

(* The flush is skipped only when the transmitter is held by whom the ring *)
(* was flushed for, and nobody else held it in between: a pass has seen it *)
(* idle before it is keyed from idle, and a client takes it from idle only.*)
Flushed ==
  /\ rested => tx_source = "none" /\ ~Transmitting
  /\ owner = "client" => tx_source # "operator"
  /\ tx_source = owner => Fresh(rings[Source])

Safe == TypeOK /\ Flushed /\ OnlyWhatWasMeant

-----------------------------------------------------------------------------
LEMMA PushedType ==
  ASSUME RingMax \in Nat \ {0}, NEW ring \in Seq(Ages), Len(ring) =< RingMax
  PROVE  /\ Pushed(ring, "fresh") \in Seq(Ages)
         /\ Len(Pushed(ring, "fresh")) =< RingMax
         /\ Fresh(ring) => Fresh(Pushed(ring, "fresh"))
<1> DEFINE kept == IF Len(ring) = RingMax THEN Tail(ring) ELSE ring
<1>1. /\ kept \in Seq(Ages) /\ Len(kept) < RingMax
      /\ Fresh(ring) => Fresh(kept)
  BY DEF Fresh
<1> HIDE DEF kept
<1>2. /\ Append(kept, "fresh") \in Seq(Ages)
      /\ Len(Append(kept, "fresh")) =< RingMax
      /\ Fresh(kept) => Fresh(Append(kept, "fresh"))
  BY <1>1 DEF Fresh, Ages
<1> QED
  BY <1>1, <1>2 DEF Pushed, kept

LEMMA EmptyRing ==
  ASSUME RingMax \in Nat \ {0}
  PROVE  /\ <<>> \in Seq({"stale", "fresh"}) /\ Len(<<>>) =< RingMax
         /\ Fresh(<<>>) /\ "cat" \in Sources
BY DEF Fresh, Sources

LEMMA InitSafe ==
  ASSUME RingMax \in Nat \ {0}, Init
  PROVE  Safe
<1>1. TypeOK
  BY EmptyRing DEF Init, TypeOK, Owners
<1> QED
  BY <1>1
  DEF Init, Safe, Flushed, OnlyWhatWasMeant, Transmitting

LEMMA CaptureSafe ==
  ASSUME RingMax \in Nat \ {0}, Safe, NEW src \in Sources, Capture(src)
  PROVE  Safe'
<1>1. rings[src] \in Seq(Ages) /\ Len(rings[src]) =< RingMax
  BY DEF Safe, TypeOK, Ages
<1>2. rings' = [rings EXCEPT ![src] = Pushed(rings[src], "fresh")]
  BY DEF Capture
<1>3. TypeOK'
  BY <1>1, <1>2, PushedType DEF Capture, Safe, TypeOK, Ages
<1>4. \A s \in Sources : Fresh(rings[s]) => Fresh(rings'[s])
  BY <1>1, <1>2, PushedType DEF Safe, TypeOK
<1>5. Source \in Sources /\ Source' = Source
  BY DEF Capture, Source, Sources
<1>6. Flushed'
  BY <1>4, <1>5 DEF Capture, Safe, Flushed, Transmitting
<1> QED
  BY <1>3, <1>6 DEF Capture, Safe, OnlyWhatWasMeant

LEMMA StaledType ==
  ASSUME TypeOK
  PROVE  /\ Staled \in [Sources -> Seq(Ages)]
         /\ \A src \in Sources : Len(Staled[src]) = Len(rings[src])
<1>1. ASSUME NEW src \in Sources
      PROVE  /\ Staled[src] \in Seq(Ages)
             /\ Len(Staled[src]) = Len(rings[src])
  BY DEF TypeOK, Staled, Ages
<1> QED
  BY <1>1 DEF Staled

LEMMA KeysForSafe ==
  ASSUME RingMax \in Nat \ {0}, ~Rekeys, Safe,
         NEW who \in {"operator", "client"}, KeysFor(who)
  PROVE  Safe'
<1>1. TypeOK'
  BY StaledType DEF KeysFor, Safe, TypeOK, Ages, Owners
<1>2. tx_source' # who /\ (who = "client" => tx_source' # "operator")
  BY DEF KeysFor, Safe, Flushed, TypeOK, Owners
<1>3. Flushed'
  BY <1>2 DEF KeysFor, Flushed
<1> QED
  BY <1>1, <1>3 DEF KeysFor, Safe, OnlyWhatWasMeant

LEMMA UnkeysSafe ==
  ASSUME Safe, Unkeys
  PROVE  Safe'
BY DEF Unkeys, Safe, TypeOK, Owners, Flushed, Transmitting, OnlyWhatWasMeant

LEMMA CatAudioOpensSafe ==
  ASSUME RingMax \in Nat \ {0}, Safe, CatAudioOpens
  PROVE  Safe'
<1>1. TypeOK'
  BY EmptyRing DEF CatAudioOpens, Safe, TypeOK
<1>2. \A s \in Sources : Fresh(rings[s]) => Fresh(rings'[s])
  BY DEF CatAudioOpens, Safe, TypeOK, Fresh
<1>3. Source \in Sources /\ Source' = Source
  BY DEF CatAudioOpens, Source, Sources
<1>4. Flushed'
  BY <1>2, <1>3 DEF CatAudioOpens, Safe, Flushed, Transmitting
<1> QED
  BY <1>1, <1>4 DEF CatAudioOpens, Safe, OnlyWhatWasMeant

LEMMA CatAudioClosesSafe ==
  ASSUME RingMax \in Nat \ {0}, Safe, CatAudioCloses
  PROVE  Safe'
<1>1. TypeOK'
  BY EmptyRing DEF CatAudioCloses, Safe, TypeOK, Owners
<1>2. \A s \in Sources : Fresh(rings[s]) => Fresh(rings'[s])
  BY DEF CatAudioCloses, Safe, TypeOK, Fresh
<1>3. Flushed'
  <2>1. CASE owner = "client"
    BY <2>1 DEF CatAudioCloses, Safe, TypeOK, Flushed, Transmitting
  <2>2. CASE owner # "client"
    <3>1. Source \in Sources /\ Source' = Source
      BY <2>2 DEF CatAudioCloses, Source, Sources
    <3> QED
      BY <1>2, <2>2, <3>1 DEF CatAudioCloses, Safe, Flushed, Transmitting
  <2> QED
    BY <2>1, <2>2
<1> QED
  BY <1>1, <1>3 DEF CatAudioCloses, Safe, OnlyWhatWasMeant

LEMMA ServiceSafe ==
  ASSUME RingMax \in Nat \ {0}, Safe, Service
  PROVE  Safe'
<1>1. CASE Transmitting
  <2> DEFINE ring == IF FlushIsDue THEN <<>> ELSE rings[Source]
  <2>1. /\ out' = {[by |-> owner, source |-> Source, age |-> ring[i]] :
                     i \in DOMAIN ring}
        /\ rings' = [rings EXCEPT ![Source] = <<>>]
        /\ tx_source' = owner
        /\ UNCHANGED <<owner, cat_audio, rested>>
    BY <1>1 DEF Service
  <2>2. Source \in Sources /\ Source' = Source
    BY <2>1 DEF Source, Sources
  <2>3. owner \in {"operator", "client"}
    BY <1>1 DEF Safe, TypeOK, Owners, Transmitting
  <2>4. Fresh(ring)
    BY DEF FlushIsDue, Safe, Flushed, Fresh
  <2> HIDE DEF ring
  <2>5. \A frame \in out' : /\ frame.by = owner /\ frame.source = Source
                            /\ frame.age = "fresh"
                            /\ frame = [by |-> owner, source |-> Source,
                                        age |-> "fresh"]
    BY <2>1, <2>4 DEF Fresh
  <2>6. TypeOK'
    BY <2>1, <2>2, <2>3, <2>5 DEF Safe, TypeOK, Owners
  <2>7. Flushed'
    <3>1. rings'[Source] = <<>>
      BY <2>1, <2>2 DEF Safe, TypeOK
    <3> QED
      BY <1>1, <2>1, <2>2, <2>3, <3>1 DEF Safe, Flushed, Fresh, Transmitting
  <2>8. OnlyWhatWasMeant'
    BY <2>5 DEF OnlyWhatWasMeant, Source
  <2> QED
    BY <2>6, <2>7, <2>8 DEF Safe
<1>2. CASE ~Transmitting
  BY <1>2
  DEF Service, Safe, TypeOK, Flushed, OnlyWhatWasMeant, Transmitting, Owners
<1> QED
  BY <1>1, <1>2

LEMMA SafeStep ==
  ASSUME RingMax \in Nat \ {0}, ~Rekeys, Safe, [Next]_vars
  PROVE  Safe'
<1>1. CASE UNCHANGED vars
  BY <1>1 DEF vars, Safe, TypeOK, Flushed, OnlyWhatWasMeant, Transmitting,
              Source
<1> QED
  BY <1>1, CaptureSafe, KeysForSafe, UnkeysSafe, CatAudioOpensSafe,
     CatAudioClosesSafe, ServiceSafe
  DEF Next

(* What goes out was captured since the key that is down, by the source of *)
(* who holds it, as long as the transmitter is not let go and keyed again  *)
(* between two passes.                                                     *)
THEOREM OnlyWhatWasMeantGoesOut ==
  ASSUME RingMax \in Nat \ {0}, ~Rekeys
  PROVE  Spec => []OnlyWhatWasMeant
<1>1. Safe => OnlyWhatWasMeant
  BY DEF Safe
<1> QED
  BY <1>1, InitSafe, SafeStep, PTL DEF Spec
=============================================================================
