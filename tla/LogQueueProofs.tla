--------------------------- MODULE LogQueueProofs ---------------------------
(***************************************************************************)
(* Proofs about LogQueue, for any number of instances, QSOs, servers and   *)
(* faults: its types, that no QSO shown as queued is lost, that a held     *)
(* duplicate is somebody else's, and that what is discarded stays so.      *)
(***************************************************************************)
EXTENDS LogQueue, WellFoundedInduction, TLAPS

LEMMA FirstPending ==
  ASSUME Pending # {}
  PROVE  First \in Pending
<1>1. Pending \subseteq Nat
  BY SizesAssumption DEF Pending, Present, Qsos
<1>2. PICK q \in Pending :
        \A p \in Pending : ~(<<p, q>> \in OpToRel(<, Nat))
  BY <1>1, WFMin, NatLessThanWellFounded
<1>3. ASSUME NEW p \in Pending
      PROVE  q =< p
  <2>1. p \in Nat /\ q \in Nat
    BY <1>1
  <2>2. p < q => <<p, q>> \in OpToRel(<, Nat)
    BY <2>1 DEF OpToRel
  <2>3. ~(p < q)
    BY <1>2, <2>2
  <2> QED
    BY <2>1, <2>3
<1> QED
  BY <1>3 DEF First, Min

LEMMA FirstEntry ==
  ASSUME TypeOK, Pending # {}
  PROVE  First \in Qsos /\ dir[First] \in Entries
BY FirstPending DEF Pending, Present, TypeOK

LEMMA OffType == Off \in Workers
BY DEF Off, Workers

LEMMA RestedType ==
  ASSUME NEW w \in Workers
  PROVE  /\ Rested(w) \in Workers
         /\ Rested(w).at = "idle" /\ Rested(w).job = None
         /\ Rested(w).qso = None
BY DEF Rested, Workers

LEMMA WritingType ==
  ASSUME NEW w \in Workers, NEW q \in Qsos, NEW e \in Entries,
         NEW adds \in BOOLEAN
  PROVE  /\ Writing(w, q, e, adds) \in Workers
         /\ Writing(w, q, e, adds).at = "tmp"
         /\ Writing(w, q, e, adds).job = e
         /\ Writing(w, q, e, adds).qso = q
BY DEF Writing, Workers

(* The worker's half of TypeOK: what each worker is, and that it holds a   *)
(* QSO and its entry unless it is idle.                                    *)
Sound(w) ==
  /\ w \in Workers
  /\ w.at = "idle" <=> w.job = None
  /\ w.at = "idle" <=> w.qso = None

AllSound ==
  /\ worker \in [Instances -> Workers]
  /\ \A j \in Instances : Sound(worker[j])

LEMMA WritingSound ==
  ASSUME NEW w, Sound(w), NEW q \in Qsos, NEW e \in Entries,
         NEW adds \in BOOLEAN
  PROVE  Sound(Writing(w, q, e, adds))
<1>1. w \in Workers
  BY DEF Sound
<1>2. e # None /\ q # None
  BY NoneAssumption, SizesAssumption DEF Qsos
<1> QED
  BY <1>1, <1>2, WritingType DEF Sound

LEMMA OneSound ==
  ASSUME TypeOK, NEW i \in Instances, NEW w, Sound(w),
         worker' = [worker EXCEPT ![i] = w]
  PROVE  AllSound'
BY DEF TypeOK, Sound, AllSound

(* The steps of one instance keep its worker sound.                        *)
LEMMA WorkerSound ==
  ASSUME TypeOK, [Next]_vars
  PROVE  AllSound'
<1>0. AllSound
  BY DEF TypeOK, Sound, AllSound
<1>1. ASSUME NEW i \in Instances, Works(i)
      PROVE  AllSound'
  <2> DEFINE w == worker[i]
  <2>0. Sound(w)
    BY <1>0 DEF AllSound
  <2>1. CASE Rename(i)
    <3>1. Sound([w EXCEPT !.at = "renamed"])
      BY <2>0, <2>1 DEF Rename, Sound, Workers
    <3>2. worker' = [worker EXCEPT ![i] = [w EXCEPT !.at = "renamed"]]
      BY <2>1 DEF Rename
    <3> QED
      BY <3>1, <3>2, OneSound
  <2>2. CASE WriteFails(i)
    BY <2>0, <2>2, RestedType, OneSound DEF WriteFails, Sound
  <2>3. CASE Written(i)
    <3> DEFINE v == [Rested(w) EXCEPT !.due = @ \/ w.adding]
    <3>1. Sound(v)
      BY <2>0, NoneAssumption DEF Sound, Rested, Workers
    <3>2. worker' = [worker EXCEPT ![i] = v]
      BY <2>3 DEF Written
    <3> QED
      BY <3>1, <3>2, OneSound
  <2>4. CASE Locks(i)
    BY <1>0, <2>4 DEF Locks, AllSound
  <2>5. CASE HoldsElsewhere(i)
    <3> DEFINE e == [dir[First] EXCEPT !.state = "held", !.reason = "elsewhere"]
    <3>1. First \in Qsos /\ e \in Entries
      BY <2>5, FirstEntry DEF HoldsElsewhere, MayStep, Entries
    <3>2. Sound(Writing(w, First, e, FALSE))
      BY <2>0, <3>1, WritingSound
    <3> QED
      BY <2>5, <3>2, OneSound DEF HoldsElsewhere
  <2>6. CASE Call(i)
    <3>1. First \in Qsos /\ dir[First] \in Entries
      BY <2>6, FirstEntry DEF Call, MayStep
    <3>2. PICK attempt \in Attempts :
            worker' = [worker EXCEPT
                         ![i] = [w EXCEPT !.at = "answered", !.qso = First,
                                          !.job = dir[First],
                                          !.attempt = attempt]]
      BY <2>6 DEF Call
    <3>3. Sound([w EXCEPT !.at = "answered", !.qso = First,
                          !.job = dir[First], !.attempt = attempt])
      <4>1. First # None /\ dir[First] # None
        BY <3>1, NoneAssumption, SizesAssumption DEF Qsos
      <4> QED
        BY <2>0, <3>1, <4>1 DEF Sound, Workers
    <3> QED
      BY <3>2, <3>3, OneSound
  <2>7. CASE Answered(i)
    <3> DEFINE outcome == classify(w.attempt, w.job.last_attempt)
               entry == Tried(w.job, w.attempt)
               held == [entry EXCEPT !.state = "held",
                          !.reason = IF w.attempt = "duplicate"
                                     THEN "duplicate" ELSE "refused"]
               e == IF outcome = "held" THEN held ELSE entry
               v == [Writing(w, w.qso, e, FALSE)
                       EXCEPT !.paused = (outcome = "paused"),
                              !.due = (outcome # "retry")]
    <3>1. worker' = [worker EXCEPT ![i] = Rested(w)]
            \/ worker' = [worker EXCEPT ![i] = v]
      BY <2>7 DEF Answered
    <3>2. w.job \in Entries
      BY <2>0, <2>7 DEF Answered, Sound, Workers
    <3>3. entry \in Entries
      BY <3>2 DEF Tried, Entries
    <3>4. held \in Entries
      BY <3>3 DEF Entries
    <3>5. e \in Entries
      BY <3>3, <3>4
    <3>6. w.qso \in Qsos
      BY <2>0, <2>7 DEF Answered, Sound, Workers
    <3>7. Sound(v)
      <4>1. Sound(Writing(w, w.qso, e, FALSE))
        BY <2>0, <3>5, <3>6, WritingSound
      <4> HIDE DEF e, outcome
      <4> QED
        BY <4>1 DEF Sound, Workers
    <3>8. Sound(Rested(w))
      BY <2>0, RestedType DEF Sound
    <3> HIDE DEF v
    <3> QED
      BY <3>1, <3>7, <3>8, OneSound
  <2> QED
    BY <1>1, <2>1, <2>2, <2>3, <2>4, <2>5, <2>6, <2>7 DEF Works
<1>2. ASSUME NEW i \in Instances,
             \/ WaitEnds(i) \/ RemoveFails(i) \/ Configure(i) \/ Log(i)
             \/ SendNow(i) \/ Discard(i) \/ Start(i) \/ Kill(i)
      PROVE  AllSound'
  <2> DEFINE w == worker[i]
  <2>0. Sound(w)
    BY <1>0 DEF AllSound
  <2>1. CASE WaitEnds(i)
    <3>1. Sound([w EXCEPT !.due = TRUE])
      BY <2>0 DEF Sound, Workers
    <3>2. worker' = [worker EXCEPT ![i] = [w EXCEPT !.due = TRUE]]
      BY <2>1 DEF WaitEnds
    <3> QED
      BY <3>1, <3>2, OneSound
  <2>2. CASE RemoveFails(i)
    BY <2>0, <2>2, RestedType, OneSound DEF RemoveFails, Sound
  <2>3. CASE Configure(i)
    <3>1. PICK setup \in Servers \cup {None} :
            worker' = [worker EXCEPT
                         ![i] = [w EXCEPT !.setup = setup, !.paused = FALSE,
                                          !.due = TRUE]]
      BY <2>3 DEF Configure
    <3>2. Sound([w EXCEPT !.setup = setup, !.paused = FALSE, !.due = TRUE])
      BY <2>0 DEF Sound, Workers
    <3> QED
      BY <3>1, <3>2, OneSound
  <2>4. CASE Log(i)
    <3> DEFINE e == [url |-> w.setup, state |-> "pending",
                     reason |-> "none", last_attempt |-> "not_sent"]
    <3>1. CASE worker' = worker
      BY <1>0, <3>1 DEF AllSound
    <3>2. CASE /\ w.setup # None
               /\ worker' = [worker EXCEPT ![i] = Writing(w, logged', e, TRUE)]
      <4>1. logged' \in Qsos
        BY <2>4, SizesAssumption DEF Log, TypeOK, Qsos
      <4>2. e \in Entries
        BY <2>0, <3>2 DEF Sound, Workers, Entries
      <4>3. Sound(Writing(w, logged', e, TRUE))
        BY <2>0, <4>1, <4>2, WritingSound
      <4> QED
        BY <3>2, <4>3, OneSound
    <3> QED
      BY <2>4, <3>1, <3>2 DEF Log
  <2>5. CASE SendNow(i)
    <3>1. Sound([w EXCEPT !.paused = FALSE, !.due = TRUE])
      BY <2>0 DEF Sound, Workers
    <3>2. worker' = [worker EXCEPT
                       ![i] = [w EXCEPT !.paused = FALSE, !.due = TRUE]]
      BY <2>5 DEF SendNow
    <3> QED
      BY <3>1, <3>2, OneSound
  <2>6. CASE Discard(i)
    BY <1>0, <2>6 DEF Discard, AllSound
  <2>7. CASE Start(i)
    <3>1. ASSUME NEW j \in Instances, Sound(worker[j]), worker[j].at = "tmp"
          PROVE  Sound([worker[j] EXCEPT !.at = "taken"])
      BY <3>1 DEF Sound, Workers
    <3>2. Sound([Off EXCEPT !.on = TRUE])
      BY DEF Sound, Off, Workers
    <3> QED
      BY <1>0, <2>7, <3>1, <3>2 DEF Start, AllSound, Sound
  <2>8. CASE Kill(i)
    <3>1. Sound(Off)
      BY OffType DEF Sound, Off
    <3> QED
      BY <2>8, <3>1, OneSound DEF Kill
  <2> QED
    BY <1>2, <2>1, <2>2, <2>3, <2>4, <2>5, <2>6, <2>7, <2>8
<1>3. CASE PowerFails
  BY <1>3, OffType DEF PowerFails, Sound, Off, AllSound
<1>4. CASE LoggedElsewhere \/ ServerChanges \/ UNCHANGED vars
  BY <1>0, <1>4 DEF LoggedElsewhere, ServerChanges, vars, AllSound
<1> QED
  BY <1>1, <1>2, <1>3, <1>4 DEF Next

-----------------------------------------------------------------------------
(* The directory: what a step makes of it.                                 *)

Files == [Qsos -> Entries \cup {None}]

LEMMA FilesType ==
  ASSUME TypeOK, [Next]_vars
  PROVE  dir' \in Files /\ durable' \in Files
<1>0. dir \in Files /\ durable \in Files
  BY DEF TypeOK, Files
<1>1. ASSUME NEW i \in Instances, Rename(i)
      PROVE  dir' \in Files /\ durable' \in Files
  <2>1. worker[i] \in Workers /\ worker[i].job # None
    BY <1>1 DEF Rename, TypeOK
  <2>2. worker[i].job \in Entries
    BY <2>1 DEF Workers
  <2> QED
    BY <1>0, <1>1, <2>2 DEF Rename, Files
<1>2. ASSUME NEW i \in Instances, Written(i)
      PROVE  dir' \in Files /\ durable' \in Files
  BY <1>0, <1>2 DEF Written, Flushed
<1>3. ASSUME NEW i \in Instances, Answered(i) \/ Discard(i)
      PROVE  dir' \in Files /\ durable' \in Files
  <2>1. durable' = durable
    BY <1>3 DEF Answered, Discard, Removed, disk
  <2>2. dir' = dir \/ \E q : dir' = [dir EXCEPT ![q] = None]
    BY <1>3 DEF Answered, Discard, Removed, disk
  <2> QED
    BY <1>0, <2>1, <2>2 DEF Files
<1>4. CASE PowerFails
  BY <1>0, <1>4 DEF PowerFails, Files
<1>5. CASE UNCHANGED disk
  BY <1>0, <1>5 DEF disk
<1> QED
  BY <1>1, <1>2, <1>3, <1>4, <1>5
     DEF Next, Works, WriteFails, Locks, HoldsElsewhere, Call, WaitEnds,
         RemoveFails, Configure, Log, SendNow, Start, Kill, LoggedElsewhere,
         ServerChanges, vars, disk

-----------------------------------------------------------------------------
(* Written by induction: the types.                                        *)

Wavelogs == [Qsos -> {"none", "ours", "foreign"}]

LEMMA WorldType ==
  ASSUME TypeOK, [Next]_vars
  PROVE  /\ lock' \in Instances \cup {None}
         /\ wavelog' \in Wavelogs
         /\ server' \in {"good", "bad"}
         /\ logged' \in 0 .. QsoMax
         /\ faults' \in 0 .. FaultMax
<1> DEFINE Goal == /\ lock' \in Instances \cup {None}
                   /\ wavelog' \in Wavelogs
                   /\ server' \in {"good", "bad"}
                   /\ logged' \in 0 .. QsoMax
                   /\ faults' \in 0 .. FaultMax
<1> USE SizesAssumption DEF TypeOK, Wavelogs, world
<1>1. ASSUME NEW i \in Instances, Works(i)
      PROVE  Goal
  <2>1. CASE Rename(i) \/ Written(i) \/ HoldsElsewhere(i) \/ Answered(i)
    BY <2>1 DEF Rename, Written, HoldsElsewhere, Answered
  <2>2. CASE WriteFails(i)
    BY <2>2 DEF WriteFails
  <2>3. CASE Locks(i)
    BY <2>3 DEF Locks
  <2>4. CASE Call(i)
    BY <2>4 DEF Call
  <2> QED
    BY <1>1, <2>1, <2>2, <2>3, <2>4 DEF Works
<1>2. ASSUME NEW i \in Instances,
             \/ WaitEnds(i) \/ Configure(i) \/ SendNow(i) \/ Discard(i)
             \/ Start(i)
      PROVE  Goal
  BY <1>2 DEF WaitEnds, Configure, SendNow, Discard, Start
<1>3. ASSUME NEW i \in Instances, RemoveFails(i) \/ Log(i) \/ Kill(i)
      PROVE  Goal
  <2>1. CASE RemoveFails(i)
    BY <2>1 DEF RemoveFails, disk
  <2>2. CASE Log(i)
    <3>1. logged' \in 0 .. QsoMax
      BY <2>2 DEF Log
    <3> QED
      BY <2>2, <3>1 DEF Log
  <2>3. CASE Kill(i)
    BY <2>3 DEF Kill
  <2> QED
    BY <1>3, <2>1, <2>2, <2>3
<1>4. CASE PowerFails
  BY <1>4 DEF PowerFails
<1>5. CASE LoggedElsewhere \/ ServerChanges \/ UNCHANGED vars
  BY <1>5 DEF LoggedElsewhere, ServerChanges, vars
<1> QED
  BY <1>1, <1>2, <1>3, <1>4, <1>5 DEF Next

LEMMA HistoryType ==
  ASSUME TypeOK, [Next]_vars
  PROVE  (confirmed \cup discarded \cup disturbed)' \subseteq Qsos
<1>1. \A i \in Instances : InHand(i) \subseteq Qsos
  BY DEF InHand, TypeOK, Workers
<1>2. \A i \in Instances : worker[i].at # "idle" => worker[i].qso \in Qsos
  BY DEF TypeOK, Workers
<1>3. confirmed \subseteq Qsos /\ discarded \subseteq Qsos
        /\ disturbed \subseteq Qsos
  BY DEF TypeOK
<1>4. ASSUME NEW i \in Instances,
             \/ WriteFails(i) \/ Written(i) \/ RemoveFails(i) \/ Discard(i)
             \/ Kill(i)
      PROVE  (confirmed \cup discarded \cup disturbed)' \subseteq Qsos
  BY <1>1, <1>2, <1>3, <1>4
     DEF WriteFails, Written, RemoveFails, Discard, Kill, Present
<1>5. CASE PowerFails
  <2>1. Unsettled \subseteq Qsos
    BY DEF Unsettled
  <2> QED
    BY <1>3, <1>5, <2>1 DEF PowerFails
<1>6. CASE UNCHANGED history
  BY <1>3, <1>6 DEF history
<1> QED
  BY <1>4, <1>5, <1>6
     DEF Next, Works, Rename, Locks, HoldsElsewhere, Call, Answered, WaitEnds,
         Configure, Log, SendNow, Start, LoggedElsewhere, ServerChanges, vars,
         world, history

LEMMA InitType == Init => TypeOK
BY OffType, SizesAssumption DEF Init, TypeOK, Off

(* Every state has its type, and a worker that is not idle has a QSO and   *)
(* its entry in hand: queue.rs and wavelog.rs never write an entry file    *)
(* that they did not make from an entry.                                   *)
THEOREM QueueTypeCorrect == Spec => []TypeOK
<1>1. TypeOK /\ [Next]_vars => TypeOK'
  <2> SUFFICES ASSUME TypeOK, [Next]_vars
               PROVE  TypeOK'
    OBVIOUS
  <2>1. dir' \in Files /\ durable' \in Files
    BY FilesType
  <2>2. AllSound'
    BY WorkerSound
  <2> QED
    BY <2>1, <2>2, WorldType, HistoryType
       DEF TypeOK, Files, Wavelogs, AllSound, Sound
<1> QED
  BY <1>1, InitType, PTL DEF Spec

-----------------------------------------------------------------------------
(* No QSO is lost.  The invariant says of every confirmed QSO that neither *)
(* the directory as it stands nor what a power loss leaves of it is        *)
(* without it for nothing, that the same will hold of one about to be      *)
(* confirmed, and that an entry about to be removed is at the server.      *)

Kept(q, files) ==
  files[q] # None \/ wavelog[q] # "none" \/ q \in discarded

QueueSafe ==
  /\ \A q \in confirmed : Kept(q, dir) /\ Kept(q, durable)
  /\ \A i \in Instances :
       worker[i].at = "renamed" => Kept(worker[i].qso, dir)
  /\ \A i \in Instances :
       worker[i].at = "answered"
         /\ worker[i].attempt \in {"created", "duplicate"}
           => wavelog[worker[i].qso] # "none"

(* A step makes a QSO less kept only by taking its file.                   *)
LEMMA KeptWorld ==
  ASSUME TypeOK, [Next]_vars, NEW q \in Qsos
  PROVE  /\ wavelog[q] # "none" => wavelog'[q] # "none"
         /\ q \in discarded => q \in discarded'
<1>1. wavelog[q] # "none" => wavelog'[q] # "none"
  <2>1. ASSUME NEW i \in Instances, Call(i)
        PROVE  wavelog[q] # "none" => wavelog'[q] # "none"
    BY <2>1 DEF Call, TypeOK
  <2>2. CASE LoggedElsewhere
    BY <2>2 DEF LoggedElsewhere, TypeOK
  <2>3. CASE UNCHANGED wavelog
    BY <2>3
  <2> QED
    BY <2>1, <2>2, <2>3
       DEF Next, Works, Rename, WriteFails, Written, Locks, HoldsElsewhere,
           Answered, WaitEnds, RemoveFails, Configure, Log, SendNow, Discard,
           Start, Kill, PowerFails, ServerChanges, vars, world
<1>2. q \in discarded => q \in discarded'
  <2>1. ASSUME NEW i \in Instances, Discard(i)
        PROVE  q \in discarded => q \in discarded'
    BY <2>1 DEF Discard
  <2>2. CASE UNCHANGED discarded
    BY <2>2
  <2> QED
    BY <2>1, <2>2
       DEF Next, Works, Rename, WriteFails, Written, Locks, HoldsElsewhere,
           Call, Answered, WaitEnds, RemoveFails, Configure, Log, SendNow,
           Start, Kill, PowerFails, LoggedElsewhere, ServerChanges, vars,
           world, history
<1> QED
  BY <1>1, <1>2

(* A worker is in the middle of a write, or has an answer, because it made *)
(* the step to it or was there before.                                     *)
WorkerStays(i) ==
  /\ worker'[i].at = worker[i].at
  /\ worker'[i].qso = worker[i].qso
  /\ worker'[i].attempt = worker[i].attempt

LEMMA WorkerStep ==
  ASSUME TypeOK, [Next]_vars, NEW i \in Instances,
         worker'[i].at \in {"renamed", "answered"}
  PROVE  WorkerStays(i) \/ Rename(i) \/ Call(i)
<1> DEFINE Goal == WorkerStays(i) \/ Rename(i) \/ Call(i)
<1>0. worker \in [Instances -> Workers]
  BY DEF TypeOK
<1>1. CASE UNCHANGED worker
  BY <1>1 DEF WorkerStays
<1>3. ASSUME NEW j \in Instances, Works(j)
      PROVE  Goal
  <2>1. CASE Rename(j) \/ Call(j)
    BY <1>0, <2>1 DEF Rename, Call, WorkerStays
  <2>2. CASE \/ WriteFails(j) \/ Written(j) \/ HoldsElsewhere(j)
             \/ Answered(j)
    <3>1. /\ worker'[j].at \in {"idle", "tmp"}
          /\ i # j => worker'[i] = worker[i]
      <4>1. CASE WriteFails(j)
        BY <1>0, <4>1 DEF WriteFails, Rested, Workers
      <4>2. CASE Written(j)
        BY <1>0, <4>2 DEF Written, Rested, Workers
      <4>3. CASE HoldsElsewhere(j)
        BY <1>0, <4>3 DEF HoldsElsewhere, Writing, Workers
      <4>4. CASE Answered(j)
        <5>1. worker[j] \in Workers
          BY <1>0
        <5>2. Rested(worker[j]).at = "idle"
          BY <5>1 DEF Rested, Workers
        <5> DEFINE w == worker[j]
                   outcome == classify(w.attempt, w.job.last_attempt)
                   entry == Tried(w.job, w.attempt)
                   held == [entry EXCEPT !.state = "held",
                              !.reason = IF w.attempt = "duplicate"
                                         THEN "duplicate" ELSE "refused"]
                   e == IF outcome = "held" THEN held ELSE entry
                   v == [Writing(w, w.qso, e, FALSE)
                           EXCEPT !.paused = (outcome = "paused"),
                                  !.due = (outcome # "retry")]
        <5>3. worker' = [worker EXCEPT ![j] = Rested(w)]
                \/ worker' = [worker EXCEPT ![j] = v]
          BY <4>4 DEF Answered
        <5>4. v.at = "tmp"
          <6> HIDE DEF e, outcome
          <6> QED
            BY <5>1 DEF Writing, Workers
        <5> HIDE DEF v
        <5> QED
          BY <1>0, <5>2, <5>3, <5>4
      <4> QED
        BY <2>2, <4>1, <4>2, <4>3, <4>4
    <3> QED
      BY <3>1 DEF WorkerStays
  <2>3. CASE Locks(j)
    BY <1>1, <2>3 DEF Locks
  <2> QED
    BY <1>3, <2>1, <2>2, <2>3 DEF Works
<1>4. ASSUME NEW j \in Instances,
             WaitEnds(j) \/ RemoveFails(j) \/ Configure(j) \/ SendNow(j)
      PROVE  Goal
  <2>1. CASE WaitEnds(j)
    BY <1>0, <2>1 DEF WaitEnds, WorkerStays, Workers
  <2>2. CASE RemoveFails(j)
    BY <1>0, <2>2 DEF RemoveFails, Rested, WorkerStays, Workers
  <2>3. CASE Configure(j)
    BY <1>0, <2>3 DEF Configure, Idle, WorkerStays, Workers
  <2>4. CASE SendNow(j)
    BY <1>0, <2>4 DEF SendNow, Idle, WorkerStays, Workers
  <2> QED
    BY <1>4, <2>1, <2>2, <2>3, <2>4
<1>5. ASSUME NEW j \in Instances, Log(j) \/ Discard(j) \/ Start(j) \/ Kill(j)
      PROVE  Goal
  <2>1. CASE Log(j)
    <3>1. worker[j] \in Workers
      BY <1>0
    <3>2. ASSUME NEW q, NEW e
          PROVE  Writing(worker[j], q, e, TRUE).at = "tmp"
      BY <3>1 DEF Writing, Workers
    <3> DEFINE e == [url |-> worker[j].setup, state |-> "pending",
                     reason |-> "none", last_attempt |-> "not_sent"]
               v == Writing(worker[j], logged', e, TRUE)
    <3>3. v.at = "tmp"
      BY <3>2
    <3>4. UNCHANGED worker \/ worker' = [worker EXCEPT ![j] = v]
      BY <2>1 DEF Log
    <3> HIDE DEF v
    <3> QED
      BY <1>0, <1>1, <3>3, <3>4 DEF WorkerStays
  <2>2. CASE Discard(j)
    BY <1>1, <2>2 DEF Discard
  <2>3. CASE Start(j)
    BY <1>0, <2>3 DEF Start, Off, WorkerStays, Workers
  <2>4. CASE Kill(j)
    BY <1>0, <2>4 DEF Kill, Off, WorkerStays, Workers
  <2> QED
    BY <1>5, <2>1, <2>2, <2>3, <2>4
<1>6. CASE PowerFails
  BY <1>6 DEF PowerFails, Off
<1>7. CASE LoggedElsewhere \/ ServerChanges \/ UNCHANGED vars
  BY <1>1, <1>7 DEF LoggedElsewhere, ServerChanges, vars
<1> QED
  BY <1>3, <1>4, <1>5, <1>6, <1>7 DEF Next

(* What is kept in the directory stays kept, whoever moves, unless the     *)
(* power fails.                                                            *)
LEMMA KeptDir ==
  ASSUME TypeOK, QueueSafe, [Next]_vars, ~PowerFails, NEW q \in Qsos,
         Kept(q, dir)
  PROVE  Kept(q, dir)'
<1>0. CASE dir'[q] = dir[q]
  BY <1>0, KeptWorld DEF Kept
<1>1. ASSUME NEW i \in Instances, Rename(i)
      PROVE  dir'[q] = dir[q] \/ dir'[q] # None
  BY <1>1 DEF Rename, TypeOK
<1>2. ASSUME NEW i \in Instances, Discard(i)
      PROVE  dir'[q] = dir[q] \/ q \in discarded'
  BY <1>2 DEF Discard, Removed, TypeOK
<1>3. ASSUME NEW i \in Instances, Answered(i)
      PROVE  dir'[q] = dir[q] \/ wavelog'[q] # "none"
  <2>1. CASE UNCHANGED disk
    BY <2>1 DEF disk
  <2>2. CASE /\ classify(worker[i].attempt, worker[i].job.last_attempt)
                  \in {"logged", "already_logged"}
             /\ Removed(worker[i].qso)
    <3>1. worker[i].attempt \in {"created", "duplicate"}
      BY <2>2 DEF classify
    <3>2. wavelog[worker[i].qso] # "none"
      BY <1>3, <3>1 DEF QueueSafe, Answered
    <3>3. dir'[q] = dir[q] \/ q = worker[i].qso
      BY <2>2 DEF Removed, TypeOK
    <3> QED
      BY <3>2, <3>3, KeptWorld
  <2> QED
    BY <1>3, <2>1, <2>2 DEF Answered
<1>4. CASE UNCHANGED dir
  BY <1>0, <1>4
<1> QED
  BY <1>0, <1>1, <1>2, <1>3, <1>4
     DEF Kept, Next, Works, WriteFails, Written, Locks, HoldsElsewhere, Call,
         WaitEnds, RemoveFails, Configure, Log, SendNow, Start, Kill,
         LoggedElsewhere, ServerChanges, vars, disk

(* The same of what a power loss would leave: it changes with a flush only *)
(* and then to what the directory shows.                                   *)
LEMMA KeptDurable ==
  ASSUME TypeOK, QueueSafe, [Next]_vars, ~PowerFails, NEW q \in Qsos,
         Kept(q, dir), Kept(q, durable)
  PROVE  Kept(q, durable)'
<1>1. durable'[q] = durable[q] \/ durable'[q] = dir[q]
  BY DEF Next, Works, Rename, WriteFails, Written, Flushed, Locks,
         HoldsElsewhere, Call, Answered, Removed, WaitEnds, RemoveFails,
         Configure, Log, SendNow, Discard, Start, Kill, LoggedElsewhere,
         ServerChanges, vars, disk
<1> QED
  BY <1>1, KeptWorld DEF Kept

LEMMA QueueSafeStep ==
  ASSUME TypeOK, QueueSafe, [Next]_vars
  PROVE  QueueSafe'
<1>0. confirmed \subseteq Qsos
  BY DEF TypeOK
<1>1. CASE PowerFails
  <2>1. ASSUME NEW q \in confirmed
        PROVE  (Kept(q, dir) /\ Kept(q, durable))'
    BY <1>0, <1>1, <2>1 DEF PowerFails, QueueSafe, Kept
  <2>2. confirmed' = confirmed /\ \A i \in Instances : worker'[i].at = "idle"
    BY <1>1 DEF PowerFails, Off
  <2> QED
    BY <2>1, <2>2 DEF QueueSafe
<1>2. CASE ~PowerFails
  <2>1. ASSUME NEW q \in confirmed'
        PROVE  (Kept(q, dir) /\ Kept(q, durable))'
    <3>1. CASE q \in confirmed
      BY <1>0, <1>2, <3>1, KeptDir, KeptDurable DEF QueueSafe
    <3>2. CASE q \notin confirmed
      <4>1. PICK i \in Instances : Written(i) /\ q = worker[i].qso
        BY <2>1, <3>2
           DEF Next, Works, Rename, WriteFails, Written, Locks, HoldsElsewhere,
               Call, Answered, WaitEnds, RemoveFails, Configure, Log, SendNow,
               Discard, Start, Kill, PowerFails, LoggedElsewhere,
               ServerChanges, vars, world, history
      <4>2. q \in Qsos
        BY <4>1 DEF Written, TypeOK, Workers
      <4>3. Kept(q, dir)'
        BY <1>2, <4>1, <4>2, KeptDir DEF QueueSafe, Written
      <4>4. dir' = dir /\ durable' = dir
        BY <4>1 DEF Written, Flushed
      <4> QED
        BY <4>3, <4>4 DEF Kept
    <3> QED
      BY <3>1, <3>2
  <2>2. ASSUME NEW i \in Instances, worker'[i].at = "renamed"
        PROVE  Kept(worker[i].qso, dir)'
    <3>1. CASE WorkerStays(i)
      <4>1. worker[i].qso \in Qsos
        BY <2>2, <3>1 DEF WorkerStays, TypeOK, Workers
      <4>2. Kept(worker[i].qso, dir)
        BY <2>2, <3>1 DEF WorkerStays, QueueSafe
      <4>3. \A q \in Qsos : Kept(q, dir) => Kept(q, dir)'
        BY <1>2, KeptDir
      <4> QED
        BY <3>1, <4>1, <4>2, <4>3 DEF WorkerStays, Kept
    <3>2. CASE Rename(i)
      BY <3>2 DEF Rename, TypeOK, Workers, Kept
    <3>3. ~Call(i)
      BY <2>2 DEF Call, TypeOK, Workers
    <3> QED
      BY <2>2, <3>1, <3>2, <3>3, WorkerStep
  <2>3. ASSUME NEW i \in Instances, worker'[i].at = "answered",
               worker'[i].attempt \in {"created", "duplicate"}
        PROVE  wavelog'[worker'[i].qso] # "none"
    <3>1. CASE WorkerStays(i)
      <4>1. worker[i].qso \in Qsos
        BY <2>3, <3>1 DEF WorkerStays, TypeOK, Workers
      <4> QED
        BY <2>3, <3>1, <4>1, KeptWorld DEF WorkerStays, QueueSafe
    <3>2. CASE Call(i)
      <4>1. First \in Qsos
        BY <3>2, FirstEntry DEF Call, MayStep
      <4> QED
        BY <2>3, <3>2, <4>1 DEF Call, Possible, TypeOK
    <3>3. ~Rename(i)
      BY <2>3 DEF Rename, TypeOK, Workers
    <3> QED
      BY <2>3, <3>1, <3>2, <3>3, WorkerStep
  <2> QED
    BY <2>1, <2>2, <2>3 DEF QueueSafe
<1> QED
  BY <1>1, <1>2

(* A QSO shown as queued stays in the directory until the server has it or *)
(* the operator discards it, for any number of instances and faults: the   *)
(* durable write of queue.rs before the answer of wavelog.rs, and the      *)
(* removal only once the server has confirmed.                             *)
THEOREM NothingIsLost == Spec => []NothingLost
<1>1. Init => QueueSafe
  BY DEF Init, QueueSafe, Off
<1>2. TypeOK /\ QueueSafe /\ [Next]_vars => QueueSafe'
  BY QueueSafeStep
<1>3. QueueSafe => NothingLost
  BY DEF QueueSafe, NothingLost, Kept
<1> QED
  BY <1>1, <1>2, <1>3, QueueTypeCorrect, PTL DEF Spec

-----------------------------------------------------------------------------
(* What is known of a try that got through.                                *)

(* A worker with an entry of the directory in hand, and one with a new one *)
(* that is not there yet.                                                  *)
Takes(w) == w.at = "answered" \/ (w.at \in {"tmp", "taken"} /\ ~w.adding)
Adds(w) == w.at \in {"tmp", "taken"} /\ w.adding

(* Only the holder of the lock takes entries, they are pending and stay    *)
(* what they were; what is being added is nowhere else.                    *)
Hand(i) ==
  /\ ~worker[i].on => worker[i].at = "idle"
  /\ Takes(worker[i]) =>
       /\ lock = i
       /\ dir[worker[i].qso] # None
       /\ dir[worker[i].qso].state = "pending"
       /\ dir[worker[i].qso].last_attempt = "unknown" =>
            worker[i].job.last_attempt = "unknown"
       /\ worker[i].at = "answered" => worker[i].job = dir[worker[i].qso]
  /\ Adds(worker[i]) =>
       /\ dir[worker[i].qso] = None
       /\ wavelog[worker[i].qso] # "ours"
       /\ worker[i].job.reason = "none"
       /\ worker[i].qso <= logged
       /\ \A j \in Instances \ {i} :
            ~(Adds(worker[j]) /\ worker[j].qso = worker[i].qso)

Hands == \A i \in Instances : Hand(i)

(* Nothing is known of QSOs not logged yet.                                *)
Beyond ==
  \A q \in Qsos :
    q > logged => dir[q] = None /\ durable[q] = None /\ wavelog[q] # "ours"

(* The try in hand may have reached the server, and says so or will.       *)
Reached(w) ==
  \/ w.at = "answered" /\ w.attempt \in {"created", "error", "after_send"}
  \/ w.at \in {"tmp", "taken"} /\ ~w.adding /\ w.job.last_attempt = "unknown"

(* A QSO of ours at the server is marked as possibly there, in the file or *)
(* by who has it in hand; a duplicate that is not so marked is foreign.    *)
Traced(q) ==
  /\ dir[q] # None /\ dir[q].reason = "duplicate" => wavelog[q] = "foreign"
  /\ wavelog[q] = "ours" /\ dir[q] # None /\ dir[q].state = "pending" =>
       \/ dir[q].last_attempt = "unknown"
       \/ \E i \in Instances : worker[i].qso = q /\ Reached(worker[i])
  /\ \A i \in Instances :
       worker[i].qso = q =>
         /\ worker[i].at = "tmp" /\ worker[i].job.reason = "duplicate" =>
              wavelog[q] = "foreign"
         /\ /\ worker[i].at = "answered"
            /\ worker[i].attempt = "duplicate"
            /\ worker[i].job.last_attempt = "not_sent"
            => wavelog[q] = "foreign"

Tracks == Hands /\ Beyond /\ \A q \in Qsos \ disturbed : Traced(q)

LEMMA ReachedTakes == \A w : Reached(w) => Takes(w)
BY DEF Reached, Takes

(* A worker goes on with what it has in hand (its .tmp may be taken away), *)
(* or it has nothing in hand any more.                                     *)
GoesOn(i) ==
  /\ worker'[i].on = worker[i].on
  /\ \/ worker'[i].at = worker[i].at
     \/ worker[i].at = "tmp" /\ worker'[i].at = "taken"
  /\ worker'[i].qso = worker[i].qso
  /\ worker'[i].job = worker[i].job
  /\ worker'[i].adding = worker[i].adding
  /\ worker'[i].attempt = worker[i].attempt

LetsGo(i) ==
  /\ worker'[i].at = "idle"
  /\ Reached(worker[i]) => worker[i].qso \in disturbed'

(* The steps that end or leave alone what is in hand.                      *)
Quieter ==
  /\ \A i \in Instances : GoesOn(i) \/ LetsGo(i)
  /\ \A i \in Instances : lock = i => lock' = i \/ worker'[i].at = "idle"
  /\ \A q \in Qsos : \/ dir'[q] = dir[q]
                     \/ dir'[q] = None /\ dir[q].state # "pending"
  /\ \A q \in Qsos : durable'[q] \in {durable[q], dir[q]}
  /\ \A q \in Qsos : \/ wavelog'[q] = wavelog[q]
                     \/ wavelog[q] = "none" /\ wavelog'[q] = "foreign"
  /\ logged' = logged
  /\ disturbed \subseteq disturbed'

LEMMA InHandQso ==
  ASSUME TypeOK, NEW i \in Instances, Takes(worker[i]) \/ Adds(worker[i])
  PROVE  worker[i].qso \in Qsos /\ worker[i].job \in Entries
<1>1. worker[i].at # "idle"
  BY DEF Takes, Adds
<1> QED
  BY <1>1 DEF TypeOK, Workers

LEMMA IdleHasNone ==
  ASSUME NEW w, w.at = "idle"
  PROVE  ~Takes(w) /\ ~Adds(w) /\ ~Reached(w)
BY DEF Takes, Adds, Reached

LEMMA GoesOnHand ==
  ASSUME NEW i, GoesOn(i)
  PROVE  /\ Takes(worker'[i]) <=> Takes(worker[i])
         /\ Adds(worker'[i]) <=> Adds(worker[i])
         /\ Reached(worker'[i]) <=> Reached(worker[i])
BY DEF GoesOn, Takes, Adds, Reached

LEMMA QuieterHands ==
  ASSUME TypeOK, Tracks, Quieter
  PROVE  Hands'
<1> SUFFICES ASSUME NEW i \in Instances PROVE Hand(i)'
  BY DEF Hands
<1>0. Hand(i)
  BY DEF Tracks, Hands
<1>1. CASE LetsGo(i)
  BY <1>1, IdleHasNone DEF LetsGo, Hand
<1>2. CASE GoesOn(i)
  <2>1. /\ Takes(worker'[i]) <=> Takes(worker[i])
        /\ Adds(worker'[i]) <=> Adds(worker[i])
    BY <1>2, GoesOnHand
  <2>2. ~worker'[i].on => worker'[i].at = "idle"
    BY <1>0, <1>2 DEF GoesOn, Hand
  <2>3. ASSUME Takes(worker[i])
        PROVE  /\ lock' = i
               /\ dir'[worker[i].qso] = dir[worker[i].qso]
    <3>1. worker[i].qso \in Qsos /\ worker'[i].at # "idle"
      BY <1>2, <2>1, <2>3, InHandQso, IdleHasNone
    <3> QED
      BY <1>0, <2>3, <3>1 DEF Hand, Quieter
  <2>4. Takes(worker'[i]) =>
          /\ lock' = i
          /\ dir'[worker'[i].qso] # None
          /\ dir'[worker'[i].qso].state = "pending"
          /\ dir'[worker'[i].qso].last_attempt = "unknown" =>
               worker'[i].job.last_attempt = "unknown"
          /\ worker'[i].at = "answered" => worker'[i].job = dir'[worker'[i].qso]
    BY <1>0, <1>2, <2>1, <2>3 DEF GoesOn, Hand
  <2>5. ASSUME Adds(worker'[i])
        PROVE  /\ dir'[worker'[i].qso] = None
               /\ wavelog'[worker'[i].qso] # "ours"
               /\ worker'[i].job.reason = "none"
               /\ worker'[i].qso <= logged'
    <3>1. Adds(worker[i]) /\ worker[i].qso \in Qsos
      BY <2>1, <2>5, InHandQso
    <3>2. worker'[i].qso = worker[i].qso /\ worker'[i].job = worker[i].job
      BY <1>2 DEF GoesOn
    <3> QED
      BY <1>0, <3>1, <3>2 DEF Hand, Quieter
  <2>6. ASSUME Adds(worker'[i]), NEW j \in Instances \ {i},
               Adds(worker'[j]), worker'[j].qso = worker'[i].qso
        PROVE  FALSE
    <3>1. GoesOn(j)
      BY <2>6, IdleHasNone DEF Quieter, LetsGo
    <3>2. Adds(worker[j]) /\ worker[j].qso = worker[i].qso
      BY <1>2, <2>6, <3>1, GoesOnHand DEF GoesOn
    <3> QED
      BY <1>0, <2>1, <2>6, <3>2 DEF Hand
  <2> QED
    BY <2>2, <2>4, <2>5, <2>6 DEF Hand
<1> QED
  BY <1>1, <1>2 DEF Quieter

LEMMA QuieterTraced ==
  ASSUME TypeOK, Tracks, Quieter, NEW q \in Qsos \ disturbed'
  PROVE  Traced(q)'
<1>0. Traced(q)
  BY DEF Tracks, Quieter
<1>1. dir'[q] = dir[q] \/ dir'[q] = None
  BY DEF Quieter
<1>2. wavelog[q] = "foreign" => wavelog'[q] = "foreign"
  BY DEF Quieter
<1>3. wavelog'[q] = "ours" => wavelog[q] = "ours"
  BY DEF Quieter
<1>4. ASSUME wavelog'[q] = "ours", dir'[q] # None, dir'[q].state = "pending",
             dir'[q].last_attempt # "unknown"
      PROVE  \E i \in Instances : worker'[i].qso = q /\ Reached(worker'[i])
  <2>1. PICK i \in Instances : worker[i].qso = q /\ Reached(worker[i])
    BY <1>0, <1>1, <1>3, <1>4 DEF Traced
  <2>2. GoesOn(i)
    BY <2>1 DEF Quieter, LetsGo
  <2> QED
    BY <2>1, <2>2, GoesOnHand DEF GoesOn
<1>5. ASSUME NEW i \in Instances, worker'[i].qso = q,
             worker'[i].at \in {"tmp", "answered"}
      PROVE  /\ GoesOn(i) /\ worker[i].at = worker'[i].at
             /\ worker[i].qso = q
             /\ worker'[i].job = worker[i].job
             /\ worker'[i].attempt = worker[i].attempt
  BY <1>5 DEF Quieter, LetsGo, GoesOn
<1>6. ASSUME NEW i \in Instances, worker'[i].qso = q
      PROVE  /\ worker'[i].at = "tmp" /\ worker'[i].job.reason = "duplicate" =>
                  wavelog'[q] = "foreign"
             /\ /\ worker'[i].at = "answered"
                /\ worker'[i].attempt = "duplicate"
                /\ worker'[i].job.last_attempt = "not_sent"
                => wavelog'[q] = "foreign"
  BY <1>0, <1>2, <1>5, <1>6 DEF Traced
<1>7. dir'[q] # None /\ dir'[q].reason = "duplicate" => wavelog'[q] = "foreign"
  BY <1>0, <1>1, <1>2 DEF Traced
<1> QED
  BY <1>4, <1>6, <1>7 DEF Traced

LEMMA QuieterTracks ==
  ASSUME TypeOK, Tracks, Quieter
  PROVE  Tracks'
<1>1. Beyond'
  BY DEF Tracks, Beyond, Quieter
<1> QED
  BY <1>1, QuieterHands, QuieterTraced DEF Tracks

LEMMA OneQuieter ==
  ASSUME TypeOK, NEW i \in Instances, NEW w,
         worker' = [worker EXCEPT ![i] = w],
         w.at = "idle", Reached(worker[i]) => worker[i].qso \in disturbed',
         lock' = lock \/ (lock = i /\ lock' = None),
         \A q \in Qsos : \/ dir'[q] = dir[q]
                         \/ dir'[q] = None /\ dir[q].state # "pending",
         durable' = durable \/ durable' = dir, wavelog' = wavelog,
         logged' = logged, disturbed \subseteq disturbed'
  PROVE  Quieter
<1>1. worker'[i] = w /\ \A j \in Instances \ {i} : worker'[j] = worker[j]
  BY DEF TypeOK
<1>2. LetsGo(i)
  BY <1>1 DEF LetsGo
<1>3. \A j \in Instances \ {i} : GoesOn(j)
  BY <1>1 DEF GoesOn
<1>4. \A j \in Instances : lock = j => lock' = j \/ worker'[j].at = "idle"
  BY <1>1
<1> QED
  BY <1>2, <1>3, <1>4 DEF Quieter

LEMMA SameQuieter ==
  ASSUME TypeOK, \A i \in Instances : GoesOn(i),
         \A i \in Instances : lock = i => lock' = i,
         \A q \in Qsos : \/ dir'[q] = dir[q]
                         \/ dir'[q] = None /\ dir[q].state # "pending",
         durable' = durable,
         \A q \in Qsos : \/ wavelog'[q] = wavelog[q]
                         \/ wavelog[q] = "none" /\ wavelog'[q] = "foreign",
         logged' = logged, disturbed' = disturbed
  PROVE  Quieter
BY DEF Quieter

LEMMA EndsQuietly ==
  ASSUME TypeOK, Tracks, NEW i \in Instances,
         WriteFails(i) \/ Written(i) \/ RemoveFails(i) \/ Kill(i)
  PROVE  Quieter
<1> DEFINE w == worker[i]
<1>0. w \in Workers /\ Rested(w).at = "idle"
  BY RestedType DEF TypeOK
<1>1. CASE WriteFails(i)
  BY <1>0, <1>1, OneQuieter DEF WriteFails, disk
<1>2. CASE Written(i)
  <2> DEFINE v == [Rested(w) EXCEPT !.due = @ \/ w.adding]
  <2>1. v.at = "idle"
    BY <1>0 DEF Rested, Workers
  <2>2. ~Reached(w)
    BY <1>2 DEF Written, Reached
  <2>3. worker' = [worker EXCEPT ![i] = v]
    BY <1>2 DEF Written
  <2> HIDE DEF v
  <2> QED
    BY <1>2, <2>1, <2>2, <2>3, OneQuieter DEF Written, Flushed
<1>3. CASE RemoveFails(i)
  BY <1>0, <1>3, OneQuieter DEF RemoveFails, disk
<1>4. CASE Kill(i)
  <2>1. Off.at = "idle"
    BY DEF Off
  <2>2. Reached(w) => w.qso \in InHand(i)
    BY ReachedTakes, InHandQso, NoneAssumption, SizesAssumption
       DEF InHand, Qsos
  <2>3. disturbed' = disturbed \cup InHand(i)
    BY <1>4 DEF Kill
  <2>4. /\ worker' = [worker EXCEPT ![i] = Off]
        /\ lock' = lock \/ (lock = i /\ lock' = None)
        /\ UNCHANGED <<dir, durable, wavelog, logged>>
    BY <1>4 DEF Kill, disk
  <2> QED
    BY <2>1, <2>2, <2>3, <2>4, OneQuieter
<1> QED
  BY <1>1, <1>2, <1>3, <1>4

LEMMA LeavesQuietly ==
  ASSUME TypeOK, Tracks, NEW i \in Instances,
         \/ Locks(i) \/ WaitEnds(i) \/ Configure(i) \/ SendNow(i)
         \/ Discard(i) \/ Start(i)
  PROVE  Quieter
<1>0. worker \in [Instances -> Workers]
  BY DEF TypeOK
<1>1. CASE Locks(i)
  <2>1. \A j \in Instances : GoesOn(j)
    BY <1>1 DEF Locks, GoesOn
  <2>2. \A j \in Instances : lock = j => lock' = j
    BY <1>1, NoneAssumption DEF Locks
  <2> QED
    BY <1>1, <2>1, <2>2, SameQuieter DEF Locks, disk, world, history
<1>2. CASE WaitEnds(i) \/ Configure(i) \/ SendNow(i)
  <2>1. \A j \in Instances : GoesOn(j)
    <3>1. CASE WaitEnds(i)
      BY <1>0, <3>1 DEF WaitEnds, GoesOn, Workers
    <3>2. CASE Configure(i)
      <4>1. PICK setup \in Servers \cup {None} :
              worker' = [worker EXCEPT ![i] =
                [worker[i] EXCEPT !.setup = setup, !.paused = FALSE,
                                  !.due = TRUE]]
        BY <1>0, <3>2 DEF Configure
      <4>2. worker[i] \in Workers
        BY <1>0
      <4> QED
        BY <1>0, <4>1, <4>2 DEF GoesOn, Workers
    <3>3. CASE SendNow(i)
      <4>1. worker' = [worker EXCEPT ![i] =
                [worker[i] EXCEPT !.paused = FALSE, !.due = TRUE]]
        BY <1>0, <3>3 DEF SendNow
      <4>2. worker[i] \in Workers
        BY <1>0
      <4> QED
        BY <1>0, <4>1, <4>2 DEF GoesOn, Workers
    <3> QED
      BY <1>2, <3>1, <3>2, <3>3
  <2> QED
    BY <1>2, <2>1, SameQuieter
       DEF WaitEnds, Configure, SendNow, disk, world, history
<1>3. CASE Discard(i)
  <2>1. \A j \in Instances : GoesOn(j)
    BY <1>3 DEF Discard, GoesOn
  <2>2. \A q \in Qsos : \/ dir'[q] = dir[q]
                        \/ dir'[q] = None /\ dir[q].state # "pending"
    BY <1>3 DEF Discard, Removed, TypeOK, Pending, Present
  <2>3. durable' = durable
    BY <1>3 DEF Discard, Removed
  <2> QED
    BY <1>3, <2>1, <2>2, <2>3, SameQuieter DEF Discard
<1>4. CASE Start(i)
  <2>1. LetsGo(i)
    <3>1. worker[i].at = "idle"
      BY <1>4 DEF Start, Tracks, Hands, Hand
    <3>2. worker'[i].at = "idle"
      BY <1>4 DEF Start, Off
    <3> QED
      BY <3>1, <3>2, IdleHasNone DEF LetsGo
  <2>2. ASSUME NEW j \in Instances \ {i} PROVE GoesOn(j)
    BY <1>0, <1>4, <2>2 DEF Start, GoesOn, Workers
  <2> QED
    BY <1>4, <2>1, <2>2 DEF Start, Quieter, disk, world, history
<1> QED
  BY <1>1, <1>2, <1>3, <1>4

LEMMA WorldQuietly ==
  ASSUME TypeOK, LoggedElsewhere \/ ServerChanges \/ UNCHANGED vars
  PROVE  Quieter
<1>1. \A j \in Instances : GoesOn(j)
  BY DEF LoggedElsewhere, ServerChanges, vars, GoesOn
<1>2. \A q \in Qsos : \/ wavelog'[q] = wavelog[q]
                      \/ wavelog[q] = "none" /\ wavelog'[q] = "foreign"
  BY DEF LoggedElsewhere, ServerChanges, vars, TypeOK
<1> QED
  BY <1>1, <1>2, SameQuieter
     DEF LoggedElsewhere, ServerChanges, vars, disk, history

(* The power fails: nothing is in hand, and what it may have undone is     *)
(* disturbed.                                                              *)
LEMMA PowerTracks ==
  ASSUME TypeOK, Tracks, PowerFails
  PROVE  Tracks'
<1>1. \A i \in Instances : worker'[i].at = "idle" /\ worker'[i].qso = None
  BY DEF PowerFails, Off
<1>2. Hands'
  BY <1>1, IdleHasNone DEF Hands, Hand
<1>3. wavelog' = wavelog /\ logged' = logged /\ disturbed' = disturbed \cup Unsettled
  BY DEF PowerFails
<1>4. PICK undone \in SUBSET {q \in Qsos : dir[q] # durable[q]} :
        LET left == [q \in Qsos |-> IF q \in undone THEN durable[q] ELSE dir[q]]
        IN  dir' = left /\ durable' = left
  BY DEF PowerFails
<1>5. \A q \in Qsos : dir'[q] = durable'[q] /\ dir'[q] \in {dir[q], durable[q]}
  BY <1>4
<1>6. Beyond'
  BY <1>3, <1>5 DEF Beyond, Tracks
<1>7. ASSUME NEW q \in Qsos \ disturbed'
      PROVE  Traced(q)'
  <2>1. q \notin disturbed /\ q \notin Unsettled
    BY <1>3, <1>7
  <2>2. dir'[q] = dir[q]
    BY <1>5, <2>1 DEF Unsettled
  <2>3. \A i \in Instances : worker[i].qso # q
    BY <2>1, NoneAssumption, SizesAssumption DEF Unsettled, InHand, Qsos
  <2>4. \A i \in Instances : worker'[i].qso # q
    BY <1>1, <1>7, NoneAssumption, SizesAssumption DEF Qsos
  <2>5. Traced(q)
    BY <1>7, <2>1 DEF Tracks
  <2> QED
    BY <1>3, <2>2, <2>3, <2>4, <2>5 DEF Traced
<1> QED
  BY <1>2, <1>6, <1>7 DEF Tracks

(* The holder of the lock takes an entry in hand, or gets further with it. *)
LEMMA OneHand ==
  ASSUME TypeOK, Tracks, NEW i \in Instances, NEW w,
         worker' = [worker EXCEPT ![i] = w],
         lock = i, UNCHANGED <<dir, durable, lock, logged, disturbed>>,
         w.on, Takes(w), w.qso \in Qsos,
         dir[w.qso] # None, dir[w.qso].state = "pending",
         dir[w.qso].last_attempt = "unknown" => w.job.last_attempt = "unknown",
         w.at = "answered" => w.job = dir[w.qso],
         \/ wavelog' = wavelog
         \/ /\ wavelog[w.qso] = "none"
            /\ wavelog' = [wavelog EXCEPT ![w.qso] = "ours"]
            /\ Reached(w),
         Reached(worker[i]) => worker[i].qso = w.qso /\ Reached(w),
         w.qso \notin disturbed =>
           /\ w.at = "tmp" /\ w.job.reason = "duplicate" =>
                wavelog[w.qso] = "foreign"
           /\ /\ w.at = "answered"
              /\ w.attempt = "duplicate"
              /\ w.job.last_attempt = "not_sent"
              => wavelog[w.qso] = "foreign"
  PROVE  Tracks'
<1>1. worker'[i] = w /\ \A j \in Instances \ {i} : worker'[j] = worker[j]
  BY DEF TypeOK
<1>2. \A q \in Qsos : \/ wavelog'[q] = wavelog[q]
                      \/ /\ q = w.qso /\ wavelog[q] = "none"
                         /\ wavelog'[q] = "ours" /\ Reached(w)
  BY DEF TypeOK
<1>3. ~Adds(w)
  BY DEF Takes, Adds
<1>4. ASSUME NEW j \in Instances \ {i}
      PROVE  Hand(j)'
  <2>1. Hand(j) /\ worker'[j] = worker[j]
    BY <1>1, <1>4 DEF Tracks, Hands
  <2>2. ~Takes(worker[j])
    BY <1>4, <2>1 DEF Hand
  <2>3. Adds(worker[j]) => wavelog'[worker[j].qso] # "ours"
    BY <1>2, <1>4, <2>1, InHandQso DEF Hand
  <2>4. \A k \in Instances : Adds(worker'[k]) => worker'[k] = worker[k]
    BY <1>1, <1>3
  <2> QED
    BY <2>1, <2>2, <2>3, <2>4 DEF Hand
<1>5. Hand(i)'
  BY <1>1, <1>3 DEF Hand
<1>6. Beyond'
  <2>1. ~(w.qso > logged)
    BY DEF Tracks, Beyond
  <2> QED
    BY <1>2, <2>1 DEF Tracks, Beyond
<1>7. ASSUME NEW q \in Qsos \ disturbed'
      PROVE  Traced(q)'
  <2>0. Traced(q)
    BY <1>7 DEF Tracks
  <2>1. wavelog[q] = "foreign" => wavelog'[q] = "foreign"
    BY <1>2, <1>7
  <2>2. ASSUME wavelog'[q] = "ours", dir'[q] # None,
               dir'[q].state = "pending", dir'[q].last_attempt # "unknown"
        PROVE  \E j \in Instances : worker'[j].qso = q /\ Reached(worker'[j])
    <3>1. CASE wavelog[q] = "ours"
      <4>1. PICK j \in Instances : worker[j].qso = q /\ Reached(worker[j])
        BY <2>0, <2>2, <3>1 DEF Traced
      <4> QED
        BY <1>1, <4>1
    <3>2. CASE wavelog[q] # "ours"
      BY <1>1, <1>2, <1>7, <2>2, <3>2
    <3> QED
      BY <3>1, <3>2
  <2>3. ASSUME NEW j \in Instances, worker'[j].qso = q
        PROVE  /\ worker'[j].at = "tmp" /\ worker'[j].job.reason = "duplicate"
                    => wavelog'[q] = "foreign"
               /\ /\ worker'[j].at = "answered"
                  /\ worker'[j].attempt = "duplicate"
                  /\ worker'[j].job.last_attempt = "not_sent"
                  => wavelog'[q] = "foreign"
    <3>1. CASE j = i
      BY <1>1, <1>7, <2>1, <2>3, <3>1
    <3>2. CASE j # i
      BY <1>1, <2>0, <2>1, <2>3, <3>2 DEF Traced
    <3> QED
      BY <3>1, <3>2
  <2> QED
    BY <2>0, <2>1, <2>2, <2>3 DEF Traced
<1> QED
  BY <1>4, <1>5, <1>6, <1>7 DEF Tracks, Hands

(* What was in hand goes into the directory, or out of it.                 *)
LEMMA OneLets ==
  ASSUME TypeOK, Tracks, NEW i \in Instances, NEW w, NEW e,
         worker' = [worker EXCEPT ![i] = w],
         w.at \in {"idle", "renamed"}, w.on \/ w.at = "idle",
         Takes(worker[i]) \/ Adds(worker[i]),
         dir' = [dir EXCEPT ![worker[i].qso] = e],
         UNCHANGED <<durable, lock, wavelog, logged, disturbed>>,
         worker[i].qso \notin disturbed /\ e # None =>
           /\ e.reason = "duplicate" => wavelog[worker[i].qso] = "foreign"
           /\ e.state = "pending" /\ wavelog[worker[i].qso] = "ours" =>
                e.last_attempt = "unknown"
  PROVE  Tracks'
<1> DEFINE p == worker[i].qso
<1>0. p \in Qsos
  BY InHandQso
<1>1. worker'[i] = w /\ \A j \in Instances \ {i} : worker'[j] = worker[j]
  BY DEF TypeOK
<1>2. dir'[p] = e /\ \A q \in Qsos \ {p} : dir'[q] = dir[q]
  BY <1>0 DEF TypeOK
<1>3. ~Takes(w) /\ ~Adds(w) /\ ~Reached(w)
  BY DEF Takes, Adds, Reached
<1>h. Hand(i)
  BY DEF Tracks, Hands
<1>4. ASSUME NEW j \in Instances \ {i}
      PROVE  Hand(j)'
  <2>1. Hand(j) /\ worker'[j] = worker[j]
    BY <1>1, <1>4 DEF Tracks, Hands
  <2>2. Takes(worker[j]) \/ Adds(worker[j]) => worker[j].qso # p
    <3>1. ASSUME Takes(worker[j]), worker[j].qso = p PROVE FALSE
      BY <1>4, <1>h, <2>1, <3>1 DEF Hand
    <3>2. ASSUME Adds(worker[j]), worker[j].qso = p PROVE FALSE
      BY <1>4, <1>h, <2>1, <3>2 DEF Hand
    <3> QED
      BY <3>1, <3>2
  <2>3. Takes(worker[j]) \/ Adds(worker[j]) =>
          dir'[worker[j].qso] = dir[worker[j].qso]
    BY <1>2, <1>4, <2>2, InHandQso
  <2>4. \A k \in Instances : Adds(worker'[k]) => worker'[k] = worker[k]
    BY <1>1, <1>3
  <2> QED
    BY <2>1, <2>3, <2>4 DEF Hand
<1>5. Hand(i)'
  BY <1>1, <1>3 DEF Hand
<1>6. Beyond'
  <2>1. ~(p > logged)
    BY <1>0, <1>h, SizesAssumption DEF Tracks, Beyond, Hand, Qsos, TypeOK
  <2> QED
    BY <1>2, <2>1 DEF Tracks, Beyond
<1>7. ASSUME NEW q \in Qsos \ disturbed'
      PROVE  Traced(q)'
  <2>0. Traced(q)
    BY <1>7 DEF Tracks
  <2>1. ASSUME NEW j \in Instances, worker'[j].qso = q
        PROVE  /\ worker'[j].at = "tmp" /\ worker'[j].job.reason = "duplicate"
                    => wavelog'[q] = "foreign"
               /\ /\ worker'[j].at = "answered"
                  /\ worker'[j].attempt = "duplicate"
                  /\ worker'[j].job.last_attempt = "not_sent"
                  => wavelog'[q] = "foreign"
    BY <1>1, <2>0, <2>1 DEF Traced
  <2>2. CASE q = p
    <3>1. /\ dir'[q] # None /\ dir'[q].reason = "duplicate" =>
               wavelog'[q] = "foreign"
          /\ wavelog'[q] = "ours" /\ dir'[q] # None /\ dir'[q].state = "pending"
               => dir'[q].last_attempt = "unknown"
      BY <1>2, <1>7, <2>2
    <3> QED
      BY <2>1, <3>1 DEF Traced
  <2>3. CASE q # p
    <3>1. dir'[q] = dir[q]
      BY <1>2, <1>7, <2>3
    <3>2. ASSUME NEW j \in Instances, worker[j].qso = q, Reached(worker[j])
          PROVE  worker'[j] = worker[j]
      BY <1>1, <2>3, <3>2
    <3> QED
      BY <2>0, <2>1, <3>1, <3>2 DEF Traced
  <2> QED
    BY <2>2, <2>3
<1> QED
  BY <1>4, <1>5, <1>6, <1>7 DEF Tracks, Hands

LEMMA RenameTracks ==
  ASSUME TypeOK, Tracks, NEW i \in Instances, Rename(i)
  PROVE  Tracks'
<1> DEFINE w == [worker[i] EXCEPT !.at = "renamed"]
           e == worker[i].job
           p == worker[i].qso
<1>1. /\ worker[i].at = "tmp" /\ worker[i] \in Workers
      /\ Takes(worker[i]) \/ Adds(worker[i])
  BY DEF Rename, TypeOK, Workers, Takes, Adds
<1>2. /\ worker' = [worker EXCEPT ![i] = w]
      /\ dir' = [dir EXCEPT ![p] = e]
      /\ UNCHANGED <<durable, lock, wavelog, logged, disturbed>>
  BY DEF Rename, TypeOK, world, history
<1>3. Hand(i) /\ p \in Qsos
  BY <1>1, InHandQso DEF Tracks, Hands
<1>4. w.at = "renamed" /\ w.on
  BY <1>1, <1>3 DEF Hand, Workers
<1>5. ASSUME p \notin disturbed, e # None
      PROVE  /\ e.reason = "duplicate" => wavelog[p] = "foreign"
             /\ e.state = "pending" /\ wavelog[p] = "ours" =>
                  e.last_attempt = "unknown"
  <2>1. Traced(p)
    BY <1>3, <1>5 DEF Tracks
  <2>2. e.reason = "duplicate" => wavelog[p] = "foreign"
    BY <1>1, <2>1 DEF Traced
  <2>3. ASSUME wavelog[p] = "ours" PROVE e.last_attempt = "unknown"
    <3>1. ~Adds(worker[i])
      BY <1>3, <2>3 DEF Hand
    <3>2. Takes(worker[i]) /\ lock = i
      BY <1>1, <1>3, <3>1 DEF Hand
    <3>3. CASE dir[p].last_attempt = "unknown"
      BY <1>3, <3>2, <3>3 DEF Hand
    <3>4. CASE dir[p].last_attempt # "unknown"
      <4>1. PICK j \in Instances : worker[j].qso = p /\ Reached(worker[j])
        BY <1>3, <2>1, <2>3, <3>2, <3>4 DEF Hand, Traced
      <4>2. lock = j
        BY <4>1, ReachedTakes DEF Tracks, Hands, Hand
      <4> QED
        BY <1>1, <3>2, <4>1, <4>2 DEF Reached
    <3> QED
      BY <3>3, <3>4
  <2> QED
    BY <2>2, <2>3
<1> HIDE DEF w
<1> QED
  BY <1>1, <1>2, <1>4, <1>5, OneLets

LEMMA HoldsElsewhereTracks ==
  ASSUME TypeOK, Tracks, NEW i \in Instances, HoldsElsewhere(i)
  PROVE  Tracks'
<1> DEFINE e == [dir[First] EXCEPT !.state = "held", !.reason = "elsewhere"]
           w == Writing(worker[i], First, e, FALSE)
<1>1. /\ worker[i] \in Workers /\ worker[i].at = "idle" /\ worker[i].on
      /\ First \in Pending /\ First \in Qsos /\ dir[First] \in Entries
      /\ lock = i
  BY FirstPending, FirstEntry
     DEF HoldsElsewhere, MayStep, Idle, TypeOK
<1>2. /\ e.reason = "elsewhere" /\ e.last_attempt = dir[First].last_attempt
  BY <1>1 DEF Entries
<1>3. /\ worker' = [worker EXCEPT ![i] = w]
      /\ UNCHANGED <<dir, durable, lock, wavelog, logged, disturbed>>
  BY DEF HoldsElsewhere, disk, world, history
<1> HIDE DEF e
<1>4. /\ w.at = "tmp" /\ w.qso = First /\ w.job = e /\ ~w.adding /\ w.on
  BY <1>1 DEF Writing, Workers
<1>5. dir[First] # None /\ dir[First].state = "pending"
  BY <1>1 DEF Pending, Present
<1>6. ~Reached(worker[i])
  BY <1>1, IdleHasNone
<1> HIDE DEF w
<1>7. Takes(w)
  BY <1>4 DEF Takes
<1> QED
  BY <1>1, <1>2, <1>3, <1>4, <1>5, <1>6, <1>7, OneHand

LEMMA CallTracks ==
  ASSUME TypeOK, Tracks, NEW i \in Instances, Call(i)
  PROVE  Tracks'
<1>1. /\ worker[i] \in Workers /\ worker[i].at = "idle" /\ worker[i].on
      /\ First \in Pending /\ First \in Qsos /\ dir[First] \in Entries
      /\ lock = i
  BY FirstPending, FirstEntry DEF Call, MayStep, Idle, TypeOK
<1>2. PICK attempt \in Attempts, stores \in BOOLEAN :
        /\ Possible(First, attempt, stores)
        /\ wavelog' = IF stores THEN [wavelog EXCEPT ![First] = "ours"]
                      ELSE wavelog
        /\ worker' = [worker EXCEPT
                        ![i].at = "answered", ![i].qso = First,
                        ![i].job = dir[First], ![i].attempt = attempt]
  BY DEF Call
<1> DEFINE w == [worker[i] EXCEPT !.at = "answered", !.qso = First,
                                  !.job = dir[First], !.attempt = attempt]
<1>3. worker' = [worker EXCEPT ![i] = w]
  BY <1>1, <1>2 DEF TypeOK
<1>4. /\ w.at = "answered" /\ w.qso = First /\ w.job = dir[First]
      /\ w.attempt = attempt /\ w.on
  BY <1>1 DEF Workers
<1> HIDE DEF w
<1>5. dir[First] # None /\ dir[First].state = "pending"
  BY <1>1 DEF Pending, Present
<1>6. ~Reached(worker[i]) /\ Takes(w)
  BY <1>1, <1>4, IdleHasNone DEF Takes
<1>7. UNCHANGED <<dir, durable, lock, logged, disturbed>>
  BY DEF Call, disk, history
<1>8. \/ wavelog' = wavelog
      \/ /\ wavelog[w.qso] = "none"
         /\ wavelog' = [wavelog EXCEPT ![w.qso] = "ours"]
         /\ Reached(w)
  BY <1>2, <1>4 DEF Possible, Reached
<1>9. ASSUME First \notin disturbed, attempt = "duplicate",
             dir[First].last_attempt = "not_sent"
      PROVE  wavelog[First] = "foreign"
  <2>1. wavelog[First] # "none"
    BY <1>2, <1>9 DEF Possible
  <2>2. ASSUME wavelog[First] = "ours" PROVE FALSE
    <3>1. PICK j \in Instances : worker[j].qso = First /\ Reached(worker[j])
      BY <1>1, <1>5, <1>9, <2>2 DEF Tracks, Traced
    <3>2. lock = j
      BY <3>1, ReachedTakes DEF Tracks, Hands, Hand
    <3> QED
      BY <1>1, <1>6, <3>1, <3>2
  <2> QED
    BY <1>1, <2>1, <2>2 DEF TypeOK
<1> QED
  BY <1>1, <1>3, <1>4, <1>5, <1>6, <1>7, <1>8, <1>9, OneHand

LEMMA AnsweredTracks ==
  ASSUME TypeOK, Tracks, NEW i \in Instances, Answered(i)
  PROVE  Tracks'
<1> DEFINE w == worker[i]
           outcome == classify(w.attempt, w.job.last_attempt)
           entry == Tried(w.job, w.attempt)
           held == [entry EXCEPT !.state = "held",
                      !.reason = IF w.attempt = "duplicate" THEN "duplicate"
                                 ELSE "refused"]
           e == IF outcome = "held" THEN held ELSE entry
           v == [Writing(w, w.qso, e, FALSE)
                   EXCEPT !.paused = (outcome = "paused"),
                          !.due = (outcome # "retry")]
<1>1. /\ w \in Workers /\ w.at = "answered" /\ Takes(w)
      /\ w.qso \in Qsos /\ w.job \in Entries
  BY InHandQso DEF Answered, Takes, TypeOK
<1>2. /\ w.on /\ lock = i /\ dir[w.qso] # None
      /\ dir[w.qso].state = "pending" /\ w.job = dir[w.qso]
  BY <1>1 DEF Tracks, Hands, Hand
<1>3. CASE /\ Removed(w.qso)
           /\ worker' = [worker EXCEPT ![i] = Rested(w)]
           /\ UNCHANGED <<lock, world>>
  <2>1. Rested(w).at = "idle"
    BY <1>1, RestedType
  <2>2. dir' = [dir EXCEPT ![w.qso] = None] /\ UNCHANGED durable
    BY <1>3 DEF Removed
  <2>3. UNCHANGED <<lock, wavelog, logged, disturbed>>
    BY <1>3 DEF world, history
  <2> QED
    BY <1>1, <1>3, <2>1, <2>2, <2>3, OneLets
<1>4. CASE /\ outcome \in {"held", "paused", "retry"}
           /\ worker' = [worker EXCEPT ![i] = v]
           /\ UNCHANGED <<disk, lock, world>>
  <2>1. /\ entry.last_attempt = IF may_have_reached(w.attempt) THEN "unknown"
                                ELSE w.job.last_attempt
        /\ entry.reason = w.job.reason /\ entry \in Entries
    BY <1>1 DEF Tried, Entries
  <2> HIDE DEF entry
  <2>2. /\ e.last_attempt = entry.last_attempt
        /\ e.reason = "duplicate" =>
             \/ entry.reason = "duplicate"
             \/ outcome = "held" /\ w.attempt = "duplicate"
    BY <2>1 DEF Entries
  <2> HIDE DEF e
  <2>3. /\ v.at = "tmp" /\ v.qso = w.qso /\ v.job = e /\ ~v.adding /\ v.on
    BY <1>1, <1>2 DEF Writing, Workers
  <2>4. worker' = [worker EXCEPT ![i] = v]
    BY <1>4
  <2> HIDE DEF v
  <2>5. Takes(v) /\ (Reached(v) <=> e.last_attempt = "unknown")
    BY <2>3 DEF Takes, Reached
  <2>6. Reached(w) => Reached(v)
    <3>1. outcome \in {"held", "paused", "retry"} => w.attempt # "created"
      BY DEF classify
    <3>2. Reached(w) => w.attempt \in {"error", "after_send"}
      BY <1>1, <1>4, <3>1 DEF Reached
    <3> QED
      BY <2>1, <2>2, <2>5, <3>2 DEF may_have_reached
  <2>7. ASSUME w.qso \notin disturbed, e.reason = "duplicate"
        PROVE  wavelog[w.qso] = "foreign"
    <3>1. Traced(w.qso)
      BY <1>1, <2>7 DEF Tracks
    <3>2. CASE entry.reason = "duplicate"
      BY <1>2, <2>1, <3>1, <3>2 DEF Traced
    <3>3. CASE outcome = "held" /\ w.attempt = "duplicate"
      <4>1. w.job.last_attempt = "not_sent"
        BY <1>1, <3>3 DEF classify, Entries
      <4> QED
        BY <1>1, <3>1, <3>3, <4>1 DEF Traced
    <3> QED
      BY <2>2, <2>7, <3>2, <3>3
  <2>8. UNCHANGED <<dir, durable, lock, wavelog, logged, disturbed>>
    BY <1>4 DEF disk, world, history
  <2>9. dir[w.qso].last_attempt = "unknown" => e.last_attempt = "unknown"
    BY <1>2, <2>1, <2>2
  <2> HIDE DEF w
  <2>10. /\ v.qso \in Qsos /\ dir[v.qso] # None
         /\ dir[v.qso].state = "pending"
         /\ dir[v.qso].last_attempt = "unknown" => v.job.last_attempt = "unknown"
         /\ v.at # "answered"
    BY <1>1, <1>2, <2>3, <2>9
  <2>11. /\ Reached(worker[i]) => worker[i].qso = v.qso /\ Reached(v)
         /\ v.qso \notin disturbed =>
              (v.job.reason = "duplicate" => wavelog[v.qso] = "foreign")
    BY <2>3, <2>6, <2>7 DEF w
  <2> QED
    BY <1>2, <2>3, <2>4, <2>5, <2>8, <2>10, <2>11, OneHand
<1>5. UNCHANGED <<lock, world>>
  BY DEF Answered
<1>6. \/ /\ Removed(w.qso)
         /\ worker' = [worker EXCEPT ![i] = Rested(w)]
      \/ /\ outcome \in {"held", "paused", "retry"}
         /\ worker' = [worker EXCEPT ![i] = v]
         /\ UNCHANGED disk
  BY DEF Answered
<1> QED
  BY <1>3, <1>4, <1>5, <1>6

LEMMA LogTracks ==
  ASSUME TypeOK, Tracks, NEW i \in Instances, Log(i)
  PROVE  Tracks'
<1>1. /\ logged' = logged + 1 /\ logged' \in Qsos /\ logged \in Nat
      /\ UNCHANGED <<dir, durable, lock, wavelog, disturbed>>
  BY SizesAssumption DEF Log, TypeOK, Qsos, disk, history
<1>2. Beyond'
  BY <1>1, SizesAssumption DEF Tracks, Beyond, Qsos
<1>3. CASE UNCHANGED worker
  <2>1. ASSUME NEW j \in Instances PROVE Hand(j)'
    <3>1. Adds(worker[j]) => worker[j].qso <= logged'
      <4>1. Adds(worker[j]) => worker[j].qso \in Nat /\ worker[j].qso <= logged
        BY InHandQso, SizesAssumption DEF Tracks, Hands, Hand, Qsos
      <4> QED
        BY <1>1, <4>1
    <3> QED
      BY <1>1, <1>3, <3>1 DEF Tracks, Hands, Hand
  <2>2. \A q \in Qsos \ disturbed' : Traced(q)'
    BY <1>1, <1>3 DEF Tracks, Traced
  <2> QED
    BY <1>2, <2>1, <2>2 DEF Tracks, Hands
<1> DEFINE e == [url |-> worker[i].setup, state |-> "pending",
                 reason |-> "none", last_attempt |-> "not_sent"]
           w == Writing(worker[i], logged', e, TRUE)
<1>4. CASE worker' = [worker EXCEPT ![i] = w]
  <2>1. e.reason = "none"
    OBVIOUS
  <2>2. worker[i] \in Workers /\ worker[i].at = "idle" /\ worker[i].on
    BY DEF Log, Idle, TypeOK
  <2> HIDE DEF e
  <2>3. /\ w.at = "tmp" /\ w.qso = logged' /\ w.job = e /\ w.adding /\ w.on
    BY <2>2 DEF Writing, Workers
  <2>4. worker'[i] = w /\ \A j \in Instances \ {i} : worker'[j] = worker[j]
    BY <1>4 DEF TypeOK
  <2> HIDE DEF w
  <2>5. Adds(w) /\ ~Takes(w) /\ ~Reached(w) /\ ~Reached(worker[i])
    BY <2>2, <2>3 DEF Adds, Takes, Reached
  <2>6. ASSUME NEW j \in Instances, Adds(worker[j])
        PROVE  worker[j].qso <= logged' /\ worker[j].qso # logged'
    <3>1. worker[j].qso \in Nat /\ worker[j].qso <= logged
      BY <2>6, InHandQso, SizesAssumption DEF Tracks, Hands, Hand, Qsos
    <3> QED
      BY <1>1, <3>1
  <2>7. ASSUME NEW j \in Instances \ {i} PROVE Hand(j)'
    <3>1. Hand(j) /\ worker'[j] = worker[j]
      BY <2>4, <2>7 DEF Tracks, Hands
    <3>2. ASSUME Adds(worker[j]), NEW k \in Instances \ {j}
          PROVE  ~(Adds(worker'[k]) /\ worker'[k].qso = worker[j].qso)
      BY <2>3, <2>4, <2>6, <3>1, <3>2 DEF Hand
    <3> QED
      BY <1>1, <2>6, <3>1, <3>2 DEF Hand
  <2>8. Hand(i)'
    <3>1. ASSUME NEW k \in Instances \ {i}
          PROVE  ~(Adds(worker'[k]) /\ worker'[k].qso = w.qso)
      BY <2>3, <2>4, <2>6, <3>1
    <3>2. dir[logged'] = None /\ wavelog[logged'] # "ours"
      BY <1>1 DEF Tracks, Beyond
    <3>3. logged' <= logged'
      BY <1>1
    <3> QED
      BY <1>1, <2>1, <2>3, <2>4, <2>5, <3>1, <3>2, <3>3 DEF Hand
  <2>9. ASSUME NEW q \in Qsos \ disturbed' PROVE Traced(q)'
    <3>1. Traced(q)
      BY <1>1, <2>9 DEF Tracks
    <3>2. \A j \in Instances : Reached(worker[j]) => worker'[j] = worker[j]
      BY <2>4, <2>5
    <3> QED
      BY <1>1, <2>1, <2>3, <2>4, <3>1, <3>2 DEF Traced
  <2> QED
    BY <1>2, <2>7, <2>8, <2>9 DEF Tracks, Hands
<1> QED
  BY <1>3, <1>4 DEF Log

-----------------------------------------------------------------------------
(* What the operator discarded.                                            *)

Gone ==
  \A q \in discarded :
    /\ q <= logged
    /\ \A i \in Instances : Adds(worker[i]) => worker[i].qso # q

(* A new entry comes into hand by Log only.                                *)
LEMMA AddsAreLogged ==
  ASSUME TypeOK, Tracks, [Next]_vars, NEW i \in Instances, Adds(worker'[i])
  PROVE  \/ Adds(worker[i]) /\ worker'[i].qso = worker[i].qso
         \/ logged' = logged + 1 /\ worker'[i].qso = logged'
<1> DEFINE Goal == \/ Adds(worker[i]) /\ worker'[i].qso = worker[i].qso
                   \/ logged' = logged + 1 /\ worker'[i].qso = logged'
<1>0. worker \in [Instances -> Workers]
  BY DEF TypeOK
<1>1. ASSUME Quieter
      PROVE  Goal
  <2>1. GoesOn(i)
    BY <1>1, IdleHasNone DEF Quieter, LetsGo
  <2> QED
    BY <2>1, GoesOnHand DEF GoesOn
<1>2. ASSUME PowerFails
      PROVE  Goal
  BY <1>2, IdleHasNone DEF PowerFails, Off
<1>3. ASSUME NEW j \in Instances, NEW w, ~Adds(w),
             worker' = [worker EXCEPT ![j] = w]
      PROVE  Goal
  BY <1>0, <1>3
<1>4. ASSUME NEW j \in Instances,
             Rename(j) \/ HoldsElsewhere(j) \/ Call(j) \/ Answered(j)
      PROVE  Goal
  <2>0. worker[j] \in Workers
    BY <1>0
  <2>1. CASE Rename(j)
    <3>1. ~Adds([worker[j] EXCEPT !.at = "renamed"])
      BY <2>0 DEF Adds, Workers
    <3>2. worker' = [worker EXCEPT ![j] = [worker[j] EXCEPT !.at = "renamed"]]
      BY <1>0, <2>1 DEF Rename
    <3> QED
      BY <1>3, <3>1, <3>2
  <2>2. ASSUME NEW q, NEW e PROVE ~Adds(Writing(worker[j], q, e, FALSE))
    BY <2>0 DEF Adds, Writing, Workers
  <2>3. CASE HoldsElsewhere(j)
    <3>1. PICK e : worker' = [worker EXCEPT ![j] =
                                Writing(worker[j], First, e, FALSE)]
      BY <2>3 DEF HoldsElsewhere
    <3> QED
      BY <1>3, <2>2, <3>1
  <2>4. CASE Call(j)
    <3>1. PICK a \in Attempts :
            worker' = [worker EXCEPT ![j].at = "answered", ![j].qso = First,
                                     ![j].job = dir[First], ![j].attempt = a]
      BY <2>4 DEF Call
    <3> DEFINE w == [worker[j] EXCEPT !.at = "answered", !.qso = First,
                                      !.job = dir[First], !.attempt = a]
    <3>2. worker' = [worker EXCEPT ![j] = w]
      BY <1>0, <2>0, <3>1 DEF Workers
    <3>3. ~Adds(w)
      BY <2>0 DEF Adds, Workers
    <3> HIDE DEF w
    <3> QED
      BY <1>3, <3>2, <3>3
  <2>5. CASE Answered(j)
    <3>1. ~Adds(Rested(worker[j]))
      BY <2>0, RestedType, IdleHasNone
    <3>2. ASSUME NEW q, NEW e, NEW a, NEW b
          PROVE  ~Adds([Writing(worker[j], q, e, FALSE)
                          EXCEPT !.paused = a, !.due = b])
      BY <2>0 DEF Adds, Writing, Workers
    <3>3. CASE worker' = [worker EXCEPT ![j] = Rested(worker[j])]
      BY <1>3, <3>1, <3>3
    <3>4. CASE worker' # [worker EXCEPT ![j] = Rested(worker[j])]
      <4> DEFINE v == worker[j]
                 outcome == classify(v.attempt, v.job.last_attempt)
                 entry == Tried(v.job, v.attempt)
                 held == [entry EXCEPT !.state = "held",
                            !.reason = IF v.attempt = "duplicate"
                                       THEN "duplicate" ELSE "refused"]
                 w == [Writing(v, v.qso, IF outcome = "held" THEN held
                                         ELSE entry, FALSE)
                         EXCEPT !.paused = (outcome = "paused"),
                                !.due = (outcome # "retry")]
      <4>2. ~Adds(w)
        BY <3>2
      <4>3. worker' = [worker EXCEPT ![j] = w]
        BY <2>5, <3>4, Zenon DEF Answered
      <4> HIDE DEF w
      <4> QED
        BY <1>3, <4>2, <4>3
    <3> QED
      BY <3>3, <3>4
  <2> QED
    BY <1>4, <2>1, <2>3, <2>4, <2>5
<1>5. ASSUME NEW j \in Instances, Log(j)
      PROVE  Goal
  <2>0. worker[j] \in Workers
    BY <1>0
  <2>1. ASSUME NEW q, NEW e PROVE Writing(worker[j], q, e, TRUE).qso = q
    BY <2>0 DEF Writing, Workers
  <2>2. CASE worker' = worker
    BY <2>2
  <2>3. CASE worker' # worker
    <3>1. PICK e : worker' = [worker EXCEPT ![j] =
                                Writing(worker[j], logged', e, TRUE)]
      BY <1>5, <2>3 DEF Log
    <3>2. logged' = logged + 1
      BY <1>5 DEF Log
    <3>3. i = j => worker'[i].qso = logged'
      BY <1>0, <2>1, <3>1
    <3>4. i # j => worker'[i] = worker[i]
      BY <1>0, <3>1
    <3> QED
      BY <3>2, <3>3, <3>4
  <2> QED
    BY <2>2, <2>3
<1>6. Quieter \/ PowerFails \/ \E j \in Instances :
        Rename(j) \/ HoldsElsewhere(j) \/ Call(j) \/ Answered(j) \/ Log(j)
  BY EndsQuietly, LeavesQuietly, WorldQuietly DEF Next, Works
<1> HIDE DEF Goal
<1>7. Goal
  BY <1>1, <1>2, <1>4, <1>5, <1>6 DEF Goal
<1> QED
  BY <1>7 DEF Goal

LEMMA GoneStep ==
  ASSUME TypeOK, Tracks, Gone, [Next]_vars
  PROVE  Gone'
<1>0. logged \in Nat /\ logged' \in {logged, logged + 1}
  <2>1. logged \in Nat
    BY SizesAssumption DEF TypeOK
  <2>2. ASSUME NEW i \in Instances,
               \/ Works(i) \/ WaitEnds(i) \/ RemoveFails(i) \/ Configure(i)
               \/ SendNow(i) \/ Discard(i) \/ Start(i) \/ Kill(i)
        PROVE  logged' = logged
    BY <2>2, Zenon
       DEF Works, Rename, WriteFails, Written, Locks, HoldsElsewhere, Call,
           Answered, WaitEnds, RemoveFails, Configure, SendNow, Discard,
           Start, Kill, world
  <2>3. ASSUME NEW i \in Instances, Log(i) PROVE logged' = logged + 1
    BY <2>3 DEF Log
  <2>4. ASSUME PowerFails \/ LoggedElsewhere \/ ServerChanges \/ UNCHANGED vars
        PROVE  logged' = logged
    BY <2>4, Zenon DEF PowerFails, LoggedElsewhere, ServerChanges, vars
  <2> QED
    BY <2>1, <2>2, <2>3, <2>4 DEF Next
<1>1. SUFFICES ASSUME NEW q \in discarded'
               PROVE  /\ q <= logged'
                      /\ \A i \in Instances :
                           Adds(worker'[i]) => worker'[i].qso # q
  BY DEF Gone
<1>2. CASE q \in discarded
  <2>1. q \in Int /\ q <= logged
    BY <1>2, SizesAssumption DEF TypeOK, Gone, Qsos
  <2>2. q <= logged' /\ (logged' = logged + 1 => q # logged')
    BY <1>0, <2>1
  <2> QED
    BY <1>2, <2>2, AddsAreLogged DEF Gone
<1>3. CASE q \notin discarded
  <2>1. PICK i \in Instances : Discard(i)
    BY <1>1, <1>3
       DEF Next, Works, Rename, WriteFails, Written, Locks, HoldsElsewhere,
           Call, Answered, WaitEnds, RemoveFails, Configure, Log, SendNow,
           Start, Kill, PowerFails, LoggedElsewhere, ServerChanges, vars,
           world, history
  <2>2. q \in Qsos /\ dir[q] # None
    BY <1>1, <1>3, <2>1 DEF Discard, Present
  <2>3. UNCHANGED <<worker, logged>>
    BY <2>1 DEF Discard
  <2>4. q <= logged
    BY <2>2, <1>0, SizesAssumption DEF Tracks, Beyond, Qsos
  <2>5. \A j \in Instances : Adds(worker[j]) => worker[j].qso # q
    BY <2>2 DEF Tracks, Hands, Hand
  <2> QED
    BY <2>3, <2>4, <2>5
<1> QED
  BY <1>2, <1>3

LEMMA InitTracks == Init => Tracks /\ Gone
BY IdleHasNone, NoneAssumption, SizesAssumption
   DEF Init, Off, Tracks, Hands, Hand, Beyond, Traced, Gone

LEMMA TracksStep == TypeOK /\ Tracks /\ [Next]_vars => Tracks'
BY QuieterTracks, EndsQuietly, LeavesQuietly, WorldQuietly, PowerTracks,
   RenameTracks, HoldsElsewhereTracks, CallTracks, AnsweredTracks, LogTracks
   DEF Next, Works

(* HeldIsForeign holds of every reachable state: the sender lock keeps     *)
(* every entry in one pair of hands, and a try that may have got through   *)
(* is marked in the file before the entry is tried again.                  *)
THEOREM HeldIsAlwaysForeign == Spec => []HeldIsForeign
<1>1. Tracks => HeldIsForeign
  BY DEF Tracks, Traced, HeldIsForeign, Present
<1> QED
  BY <1>1, InitTracks, TracksStep, QueueTypeCorrect, PTL DEF Spec

(* DiscardStays holds of every step: no write another instance has under   *)
(* way brings a discarded QSO back; only a power loss undoes a removal.    *)
THEOREM DiscardAlwaysStays == Spec => DiscardStays
<1>1. TypeOK /\ Tracks /\ Gone /\ [Next]_vars =>
        [\A q \in discarded :
           dir[q] = None /\ dir'[q] # None => PowerFails]_vars
  <2> SUFFICES ASSUME TypeOK, Tracks, Gone, Next, NEW q \in discarded,
                      dir[q] = None, dir'[q] # None, ~PowerFails
               PROVE  FALSE
    OBVIOUS
  <2>1. PICK i \in Instances : Rename(i)
    BY DEF Next, Works, WriteFails, Written, Locks, HoldsElsewhere, Call,
           Answered, Removed, WaitEnds, RemoveFails, Configure, Log, SendNow,
           Discard, Start, Kill, LoggedElsewhere, ServerChanges, disk, TypeOK
  <2>2. worker[i].qso = q
    BY <2>1 DEF Rename, TypeOK
  <2>3. Takes(worker[i]) \/ Adds(worker[i])
    BY <2>1 DEF Rename, Takes, Adds, TypeOK, Workers
  <2> QED
    BY <2>2, <2>3 DEF Tracks, Hands, Hand, Gone
<1>2. TypeOK /\ (Tracks /\ Gone) /\ [Next]_vars => (Tracks /\ Gone)'
  BY TracksStep, GoneStep
<1> QED
  BY <1>1, <1>2, InitTracks, QueueTypeCorrect, PTL DEF Spec, DiscardStays
=============================================================================
