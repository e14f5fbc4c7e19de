------------------------- MODULE PolledSourceProofs -------------------------
(***************************************************************************)
(* Proofs about PolledSource: no answer is delivered late, and it keeps    *)
(* the promise of every source (SpotSource), for any times and any number  *)
(* of requests.                                                            *)
(***************************************************************************)
EXTENDS PolledSource, TLAPS

(* What is assumed of the constants: the code's times, in units.           *)
Times ==
  /\ First \in Nat /\ Longest \in Nat /\ Interval \in Nat
  /\ Deadline \in Nat /\ Requests \in Nat
  /\ None \notin Nat

(* The request in hand is the last one asked, was not given up, and came   *)
(* after every one that was delivered.                                     *)
InHand ==
  /\ job # None => job = asked /\ job \notin given_up /\ sunk # job
  /\ sunk # None => sunk =< asked
  /\ \A r \in given_up : r =< asked
  /\ sunk \notin given_up

Safe == TypeOK /\ InHand

-----------------------------------------------------------------------------
LEMMA DoubledType ==
  ASSUME Times, NEW b \in Nat
  PROVE  S!Doubled(b) \in Nat
BY DEF Times, S!Doubled

LEMMA FailedType ==
  ASSUME Times, TypeOK, Failed
  PROVE  ok' \in BOOLEAN /\ wait' \in Nat /\ backoff' \in Nat
BY DoubledType DEF Failed, TypeOK

LEMMA InitSafe ==
  ASSUME Times, Init
  PROVE  Safe
<1>1. threads \in [Number -> Outcomes \cup {"none", "asking"}]
  BY DEF Init, Outcomes
<1>2. TypeOK
  <2>1. age \in 0 .. Deadline + 1 /\ asked \in 0 .. Requests
    BY DEF Times, Init
  <2> QED
    BY <1>1, <2>1 DEF Times, Init, TypeOK
<1>3. InHand
  BY DEF Init, InHand
<1> QED
  BY <1>2, <1>3 DEF Safe

LEMMA ThreadEndsSafe ==
  ASSUME Times, Safe, NEW r \in Number, NEW outcome \in Outcomes,
         ThreadEnds(r, outcome)
  PROVE  Safe'
BY DEF Times, ThreadEnds, Safe, TypeOK, InHand

LEMMA StartSafe ==
  ASSUME Times, Safe, Start
  PROVE  Safe'
<1>1. /\ asked' = asked + 1 /\ asked' \in Number /\ asked' \in 0 .. Requests
      /\ asked' # None
      /\ UNCHANGED <<sunk, given_up>>
  BY DEF Times, Start, Safe, TypeOK, Number
<1>2. CASE /\ job' = asked' /\ age' = 0
           /\ threads' = [threads EXCEPT ![asked'] = "asking"]
           /\ UNCHANGED <<ok, wait, backoff>>
  <2>1. TypeOK'
    BY <1>1, <1>2 DEF Times, Safe, TypeOK
  <2>2. InHand'
    BY <1>1, <1>2 DEF Times, Safe, TypeOK, InHand, Number
  <2> QED
    BY <2>1, <2>2 DEF Safe
<1>3. CASE Failed /\ UNCHANGED <<job, age, threads>>
  <2>1. TypeOK'
    BY <1>1, <1>3, FailedType DEF Safe, TypeOK
  <2>2. InHand'
    BY <1>1, <1>3 DEF Times, Start, Safe, TypeOK, InHand, Number
  <2> QED
    BY <2>1, <2>2 DEF Safe
<1> QED
  BY <1>2, <1>3 DEF Start

LEMMA FinishSafe ==
  ASSUME Times, Safe, Finish
  PROVE  Safe'
<1>1. sunk' = job /\ job' = None /\ job # None
  BY DEF Finish, Answered
<1>2. TypeOK'
  BY <1>1 DEF Times, Finish, Safe, TypeOK
<1>3. InHand'
  BY <1>1 DEF Times, Finish, Safe, TypeOK, InHand, Number
<1> QED
  BY <1>2, <1>3 DEF Safe

LEMMA FinishBadlySafe ==
  ASSUME Times, Safe, FinishBadly
  PROVE  Safe'
BY FailedType DEF FinishBadly, Safe, TypeOK, InHand

LEMMA GiveUpSafe ==
  ASSUME Times, Safe, GiveUp
  PROVE  Safe'
<1>1. TypeOK'
  BY FailedType DEF GiveUp, Safe, TypeOK
<1>2. InHand'
  BY DEF Times, GiveUp, Safe, TypeOK, InHand, Number
<1> QED
  BY <1>1, <1>2 DEF Safe

LEMMA TickSafe ==
  ASSUME Times, Safe, Tick
  PROVE  Safe'
BY DEF Times, Tick, Safe, TypeOK, InHand

LEMMA SafeStep ==
  ASSUME Times, Safe, [Next]_vars
  PROVE  Safe'
<1>1. CASE UNCHANGED vars
  BY <1>1 DEF vars, Safe, TypeOK, InHand
<1> QED
  BY <1>1, ThreadEndsSafe, StartSafe, FinishSafe, FinishBadlySafe,
     GiveUpSafe, TickSafe
  DEF Next, Poll

(* The answer to a request given up is never delivered, and what was       *)
(* delivered came before the request in hand.                              *)
THEOREM NeverLate ==
  ASSUME Times
  PROVE  Spec => []NoLateAnswer
<1>1. Safe => NoLateAnswer
  BY DEF Times, Safe, TypeOK, InHand, NoLateAnswer, Number
<1> QED
  BY <1>1, InitSafe, SafeStep, PTL DEF Spec

LEMMA KeepsItsWordStep ==
  ASSUME Times, Safe, [Next]_vars
  PROVE  [S!Next]_(S!vars)
<1> SUFFICES S!Next \/ UNCHANGED S!vars
  OBVIOUS
<1>1. ASSUME NEW r \in Number, NEW outcome \in Outcomes,
             ThreadEnds(r, outcome)
      PROVE  UNCHANGED S!vars
  BY <1>1 DEF ThreadEnds, S!vars
<1>2. CASE Start
  <2>1. CASE job' = asked' /\ UNCHANGED <<ok, wait, backoff>>
    <3>1. asked' # None
      BY <1>2 DEF Times, Start, Safe, TypeOK
    <3>2. S!Begin
      BY <1>2, <2>1, <3>1 DEF Start, S!Begin
    <3> QED
      BY <3>2 DEF S!Next
  <2>2. CASE Failed /\ UNCHANGED job
    <3>1. backoff \in 0 .. backoff
      BY DEF Safe, TypeOK
    <3>2. S!FailAtOnce
      BY <1>2, <2>2, <3>1 DEF Start, Failed, S!FailAtOnce
    <3> QED
      BY <3>2 DEF S!Next
  <2> QED
    BY <1>2, <2>1, <2>2 DEF Start
<1>3. CASE Finish
  <2>1. S!Answer
    BY <1>3 DEF Finish, S!Answer
  <2> QED
    BY <2>1 DEF S!Next
<1>4. CASE FinishBadly \/ GiveUp
  <2>1. S!Fail
    BY <1>4 DEF FinishBadly, GiveUp, Failed, S!Fail
  <2> QED
    BY <2>1 DEF S!Next
<1>5. CASE Tick
  <2>1. CASE wait > 0
    <3>1. S!Pass
      BY <1>5, <2>1 DEF Tick, S!Pass
    <3> QED
      BY <3>1 DEF S!Next
  <2>2. CASE ~(wait > 0)
    <3>1. wait = 0
      BY <2>2 DEF Safe, TypeOK
    <3> QED
      BY <1>5, <3>1 DEF Tick, S!vars
  <2> QED
    BY <2>1, <2>2
<1>6. CASE UNCHANGED vars
  BY <1>6 DEF vars, S!vars
<1> QED
  BY <1>1, <1>2, <1>3, <1>4, <1>5, <1>6 DEF Next, Poll

(* A polled source implements SpotSource: each step of its requests and    *)
(* its clock is a step of the promise, or none.                            *)
THEOREM PolledImplementsSource ==
  ASSUME Times
  PROVE  Spec => KeepsItsWord
<1>1. Init => S!Init
  BY DEF Init, S!Init
<1> QED
  BY <1>1, KeepsItsWordStep, InitSafe, SafeStep, PTL
     DEF Spec, S!Spec, KeepsItsWord
=============================================================================
