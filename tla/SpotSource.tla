----------------------------- MODULE SpotSource -----------------------------
(***************************************************************************)
(* What every source of spots promises of its attempts, whatever it speaks *)
(* (trait SpotSource in crates/k4-spot/src/model.rs, and the back-off each *)
(* source repeats).  PolledSource, TelnetSource, MqttSource and            *)
(* FreeDvSource are shown to implement it.                                 *)
(*                                                                         *)
(* Time is counted in units; `wait` is how many are left until next_       *)
(* attempt.  An attempt may take time, and what it takes is part of the    *)
(* wait that follows its failure: the code takes the time once, when poll  *)
(* begins.                                                                 *)
(***************************************************************************)
EXTENDS Naturals

CONSTANTS
  First,      \* Timing.initial_backoff
  Longest,    \* Timing.max_backoff
  Interval    \* a polled source's time between requests

VARIABLES
  open,       \* a connection or a request is there
  connected,  \* state() is Connected
  wait,
  backoff

vars == <<open, connected, wait, backoff>>

Doubled(b) == IF 2 * b < Longest THEN 2 * b ELSE Longest

Init ==
  /\ open = FALSE /\ connected = FALSE
  /\ wait = 0
  /\ backoff = First

(* An attempt begins, once its time has come.                              *)
Begin ==
  /\ ~open /\ wait = 0
  /\ open' = TRUE
  /\ UNCHANGED <<connected, wait, backoff>>

(* An attempt that fails at once, for whatever it took.                    *)
FailAtOnce ==
  /\ ~open /\ wait = 0
  /\ connected' = FALSE
  /\ wait' \in 0 .. backoff
  /\ backoff' = Doubled(backoff)
  /\ UNCHANGED open

(* Settings no attempt can be made with.                                   *)
Refuse ==
  /\ ~open /\ wait = 0
  /\ wait' = Longest
  /\ UNCHANGED <<open, connected, backoff>>

(* What was open fails: the wait is the back-off, in full.                 *)
Fail ==
  /\ open
  /\ open' = FALSE /\ connected' = FALSE
  /\ wait' = backoff
  /\ backoff' = Doubled(backoff)

(* The far end lets the source in.                                         *)
Enter ==
  /\ open /\ ~connected
  /\ connected' = TRUE
  /\ backoff' = First
  /\ UNCHANGED <<open, wait>>

(* A request is answered.                                                  *)
Answer ==
  /\ open
  /\ open' = FALSE /\ connected' = TRUE
  /\ wait' = Interval
  /\ backoff' = First

(* The operator asks for another try now.                                  *)
RetryNow ==
  /\ wait' = 0
  /\ backoff' = First
  /\ UNCHANGED <<open, connected>>

Pass ==
  /\ wait > 0
  /\ wait' = wait - 1
  /\ UNCHANGED <<open, connected, backoff>>

Next ==
  \/ Begin \/ FailAtOnce \/ Refuse
  \/ Fail \/ Enter \/ Answer
  \/ RetryNow \/ Pass

Spec == Init /\ [][Next]_vars
=============================================================================
