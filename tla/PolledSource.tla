---------------------------- MODULE PolledSource ----------------------------
(***************************************************************************)
(* A source that asks a server at an interval:                             *)
(* crates/k4-spot/src/polled.rs.  Each request runs on a thread of its own *)
(* with a channel of its own; the source looks at the channel of the       *)
(* request in hand, gives a request up at its deadline, and never waits.   *)
(* The thread of a request given up goes on, and answers when it likes.    *)
(*                                                                         *)
(* Bound: Requests in a run.  The window and the cap on one reply only     *)
(* choose which of an answer's spots go on, and are left out.              *)
(***************************************************************************)
EXTENDS Naturals

CONSTANTS First, Longest, Interval, Deadline, Requests, None

VARIABLES
  job,        \* the request in hand
  age,        \* since it started, up to the deadline and one more
  wait,       \* until next_attempt
  backoff,
  ok,         \* the last completed request succeeded
  asked,      \* requests started
  threads,    \* what each request's thread has come to
  sunk,       \* history: the request whose answer was delivered last
  given_up    \* history: requests given up

vars == <<job, age, wait, backoff, ok, asked, threads, sunk, given_up>>

S == INSTANCE SpotSource WITH open <- job # None, connected <- ok

Outcomes == {"spots", "unreadable", "error", "died"}
Number == 1 .. Requests

-----------------------------------------------------------------------------
(* What the request's thread does.                                         *)
ThreadEnds(r, outcome) ==
  /\ threads[r] = "asking"
  /\ threads' = [threads EXCEPT ![r] = outcome]
  /\ UNCHANGED <<job, age, wait, backoff, ok, asked, sunk, given_up>>

(* The channel poll reads.                                                 *)

Answered(r) == r

-----------------------------------------------------------------------------
(* poll.                                                                   *)

Failed ==
  /\ ok' = FALSE
  /\ wait' = backoff
  /\ backoff' = S!Doubled(backoff)

Start ==
  /\ job = None /\ wait = 0 /\ asked < Requests
  /\ asked' = asked + 1
  /\ \/ /\ job' = asked' /\ age' = 0
        /\ threads' = [threads EXCEPT ![asked'] = "asking"]
        /\ UNCHANGED <<ok, wait, backoff>>
     \/ /\ Failed
        /\ UNCHANGED <<job, age, threads>>
  /\ UNCHANGED <<sunk, given_up>>

Finish ==
  /\ job # None /\ threads[Answered(job)] = "spots"
  /\ job' = None /\ ok' = TRUE
  /\ sunk' = Answered(job)
  /\ backoff' = First
  /\ wait' = Interval
  /\ UNCHANGED <<age, asked, threads, given_up>>

FinishBadly ==
  /\ job # None /\ threads[Answered(job)] \in {"unreadable", "error", "died"}
  /\ job' = None
  /\ Failed
  /\ UNCHANGED <<age, asked, threads, sunk, given_up>>

GiveUp ==
  /\ job # None /\ threads[Answered(job)] = "asking" /\ age > Deadline
  /\ job' = None
  /\ given_up' = given_up \cup {job}
  /\ Failed
  /\ UNCHANGED <<age, asked, threads, sunk>>

Poll == Start \/ Finish \/ FinishBadly \/ GiveUp

Tick ==
  /\ wait > 0 \/ (job # None /\ age <= Deadline)
  /\ wait' = IF wait > 0 THEN wait - 1 ELSE 0
  /\ age' = IF job # None /\ age <= Deadline THEN age + 1 ELSE age
  /\ UNCHANGED <<job, backoff, ok, asked, threads, sunk, given_up>>

-----------------------------------------------------------------------------
Init ==
  /\ job = None /\ age = 0
  /\ wait = 0 /\ backoff = First
  /\ ok = FALSE
  /\ asked = 0
  /\ threads = [r \in Number |-> "none"]
  /\ sunk = None /\ given_up = {}

Next ==
  \/ \E r \in Number, outcome \in Outcomes : ThreadEnds(r, outcome)
  \/ Poll
  \/ Tick

Spec == Init /\ [][Next]_vars

-----------------------------------------------------------------------------
(* Properties.                                                             *)

TypeOK ==
  /\ job \in Number \cup {None} /\ sunk \in Number \cup {None}
  /\ age \in 0 .. Deadline + 1
  /\ wait \in Nat /\ backoff \in Nat
  /\ ok \in BOOLEAN
  /\ asked \in 0 .. Requests
  /\ threads \in [Number -> Outcomes \cup {"none", "asking"}]
  /\ given_up \subseteq Number

(* An answer that comes after its request was given up goes nowhere: what  *)
(* is delivered answers the request in hand, never one before it           *)
(* (FR-SPOT-08, polled.rs:224).                                            *)
NoLateAnswer ==
  /\ sunk \notin given_up
  /\ job # None => sunk = None \/ sunk < job

(* It keeps the promise of every source.                                   *)
KeepsItsWord == S!Spec
=============================================================================
