------------------------------ MODULE LogQueue ------------------------------
(***************************************************************************)
(* The persisted QSO queue of crates/k4-log (queue.rs, reply.rs) and the   *)
(* logging worker that sends it to Wavelog (src/app/src/wavelog.rs), run   *)
(* by several instances of the program over one directory.                 *)
(*                                                                         *)
(* A QSO is a number, given in the order of logging (queued_at, its place  *)
(* in the queue).  The directory is kept twice: as the file system shows   *)
(* it and as a power loss would leave it.  The worker's thread is followed *)
(* from one access to the directory or the server to the next; between any *)
(* two of them the instance may be killed, the power may fail, or another  *)
(* instance may act.                                                       *)
(*                                                                         *)
(* Bound: FaultMax kills, power losses and failed writes in all.  The      *)
(* length of a wait (back-off, Retry-After) is left out, that it ends is   *)
(* not.  Unreadable files, a flush of the directory that fails, the Test   *)
(* and the ADIF export are left out.                                       *)
(***************************************************************************)
EXTENDS Integers, FiniteSets, FiniteSetsExt

CONSTANTS
  Instances,    \* copies of the program
  Servers,      \* Wavelog servers that may be configured
  QsoMax,       \* QSOs the operator logs
  MaxEntries,   \* MAX_ENTRIES
  FaultMax,     \* see above
  None

ASSUME SizesAssumption == {QsoMax, MaxEntries, FaultMax} \subseteq Nat

VARIABLES
  dir,         \* the entry files, as the file system shows them
  durable,     \* the entry files a power loss leaves
  lock,        \* who holds the sender lock
  worker,      \* each instance's worker
  wavelog,     \* each QSO at the server it was logged for (external)
  server,      \* how the servers answer now (external)
  logged,      \* the QSOs logged so far
  confirmed,   \* history: those shown as "queued"
  discarded,   \* history: those the operator discarded
  disturbed,   \* history: those whose file a fault may have kept out of date
  faults       \* see FaultMax

vars == <<dir, durable, lock, worker, wavelog, server, logged,
          confirmed, discarded, disturbed, faults>>

disk == <<dir, durable>>
history == <<confirmed, discarded, disturbed>>
world == <<wavelog, server, logged, history, faults>>

Qsos == 1 .. QsoMax

Entries == [url : Servers, state : {"pending", "held"},
            reason : {"none", "duplicate", "refused", "elsewhere"},
            last_attempt : {"not_sent", "unknown"}]

Attempts == {"created", "duplicate", "rejected", "denied", "later", "error",
             "after_send", "not_connected"}

ASSUME NoneAssumption ==
  None \notin Servers \cup Instances \cup Entries \cup Attempts \cup Nat

(* What a worker does: nothing, a write with its .tmp made, or taken away  *)
(* meanwhile, a write with its file renamed, a request answered.  "job" is *)
(* the entry in hand.  A .tmp a crash leaves does nothing.                 *)
Workers == [on : BOOLEAN, setup : Servers \cup {None}, paused : BOOLEAN,
            due : BOOLEAN, at : {"idle", "tmp", "taken", "renamed", "answered"},
            qso : Qsos \cup {None}, job : Entries \cup {None},
            adding : BOOLEAN, attempt : Attempts \cup {None}]

Off == [on |-> FALSE, setup |-> None, paused |-> FALSE, due |-> TRUE,
        at |-> "idle", qso |-> None, job |-> None, adding |-> FALSE,
        attempt |-> None]

Present == {q \in Qsos : dir[q] # None}
Pending == {q \in Present : dir[q].state = "pending"}

Idle(i) == worker[i].on /\ worker[i].at = "idle"

(* Mutant: the entry is kept in hand.                                      *)
RestedHolding(w) == [w EXCEPT !.at = "idle", !.qso = None, !.adding = FALSE,
                              !.attempt = None]

(* The worker is through with what it has in hand.                         *)
Rested(w) == [w EXCEPT !.at = "idle", !.qso = None, !.job = None,
                       !.adding = FALSE, !.attempt = None]

-----------------------------------------------------------------------------
(* Queue::write, in three steps: the .tmp is written and flushed, renamed  *)
(* over the entry's file, and the directory flushed.                       *)

Writing(w, q, entry, adds) ==
  [w EXCEPT !.at = "tmp", !.qso = q, !.job = entry, !.adding = adds,
            !.attempt = None]

Rename(i) ==
  /\ worker[i].at = "tmp"
  /\ dir' = [dir EXCEPT ![worker[i].qso] = worker[i].job]
  /\ worker' = [worker EXCEPT ![i].at = "renamed"]
  /\ UNCHANGED <<durable, lock, world>>

(* The write comes to nothing: an add reports the error, an update ignores *)
(* it.  The disk is full, say, or another instance, starting, took the     *)
(* .tmp for one a crash left.                                              *)
WriteFails(i) ==
  /\ \/ worker[i].at = "taken" /\ UNCHANGED faults
     \/ worker[i].at = "tmp" /\ faults < FaultMax /\ faults' = faults + 1
  /\ worker' = [worker EXCEPT ![i] = Rested(worker[i])]
  /\ disturbed' = disturbed \cup {worker[i].qso}
  /\ UNCHANGED <<disk, lock, wavelog, server, logged, confirmed, discarded>>

(* Mutant: the directory is not flushed.                                   *)
FlushedNot == UNCHANGED durable

Flushed == durable' = dir

(* An added QSO is now shown as queued and sent without delay.             *)
Written(i) ==
  LET w == worker[i] IN
  /\ w.at = "renamed"
  /\ Flushed
  /\ worker' = [worker EXCEPT ![i] = [Rested(w) EXCEPT !.due = @ \/ w.adding]]
  /\ confirmed' = IF w.adding THEN confirmed \cup {w.qso} ELSE confirmed
  /\ UNCHANGED <<dir, lock, wavelog, server, logged, discarded, disturbed,
                 faults>>

(* Queue::remove: gone at once, durably only with the next flush.          *)
Removed(q) == dir' = [dir EXCEPT ![q] = None] /\ UNCHANGED durable

-----------------------------------------------------------------------------
(* Worker::command.  The code takes no command between the requests of one *)
(* round of steps; here it may.                                            *)

Configure(i) ==
  /\ Idle(i)
  /\ \E setup \in Servers \cup {None} :
       worker' = [worker EXCEPT ![i].setup = setup, ![i].paused = FALSE,
                                ![i].due = TRUE]
  /\ UNCHANGED <<disk, lock, world>>

(* Refused when the queue is full or logging is not set up.                *)
Log(i) ==
  /\ Idle(i)
  /\ logged < QsoMax
  /\ logged' = logged + 1
  /\ IF worker[i].setup # None /\ Cardinality(Present) < MaxEntries
     THEN LET entry == [url |-> worker[i].setup, state |-> "pending",
                        reason |-> "none", last_attempt |-> "not_sent"]
          IN  worker' = [worker EXCEPT
                           ![i] = Writing(worker[i], logged', entry, TRUE)]
     ELSE UNCHANGED worker
  /\ UNCHANGED <<disk, lock, wavelog, server, history, faults>>

SendNow(i) ==
  /\ Idle(i)
  /\ worker' = [worker EXCEPT ![i].paused = FALSE, ![i].due = TRUE]
  /\ UNCHANGED <<disk, lock, world>>

(* Mutant: also an entry that is being sent.                               *)
DiscardAny(i) ==
  /\ Idle(i)
  /\ \E q \in Present :
       /\ Removed(q)
       /\ discarded' = discarded \cup {q}
  /\ UNCHANGED <<lock, worker, wavelog, server, logged, confirmed, disturbed,
                 faults>>

(* The UI offers the held entries.                                         *)
Discard(i) ==
  /\ Idle(i)
  /\ \E q \in Present \ Pending :
       /\ Removed(q)
       /\ discarded' = discarded \cup {q}
  /\ UNCHANGED <<lock, worker, wavelog, server, logged, confirmed, disturbed,
                 faults>>

-----------------------------------------------------------------------------
(* Worker::step, up to the request and the answer, then from the answer.   *)

(* The sender lock is taken by whoever comes first with logging set up,    *)
(* and kept until its process ends.                                        *)
Locks(i) ==
  /\ Idle(i)
  /\ worker[i].setup # None
  /\ lock = None
  /\ lock' = i
  /\ UNCHANGED <<disk, worker, world>>

MayStep(i) ==
  /\ Idle(i)
  /\ worker[i].setup # None
  /\ lock = i
  /\ ~worker[i].paused
  /\ worker[i].due
  /\ Pending # {}

First == Min(Pending)

(* Mutant: such an entry stays where it is.                                *)
PassesElsewhere(i) ==
  /\ MayStep(i)
  /\ dir[First].url # worker[i].setup
  /\ UNCHANGED vars

(* Logged for another server than the one configured now.                  *)
HoldsElsewhere(i) ==
  /\ MayStep(i)
  /\ dir[First].url # worker[i].setup
  /\ worker' = [worker EXCEPT ![i] =
       Writing(worker[i], First,
               [dir[First] EXCEPT !.state = "held", !.reason = "elsewhere"],
               FALSE)]
  /\ UNCHANGED <<disk, lock, world>>

(* The request: whether the server stores the QSO, and what comes back.    *)
(* An error or a lost reply may follow either; a stored QSO, ours or one   *)
(* logged by other means, is a duplicate the next time.                    *)
Possible(q, attempt, stores) ==
  /\ stores =>
       wavelog[q] = "none" /\ attempt \in {"created", "error", "after_send"}
  /\ attempt = "created" => stores
  /\ attempt = "duplicate" => wavelog[q] # "none"
  /\ server = "good" => attempt \in {"created", "duplicate"}

Call(i) ==
  /\ MayStep(i)
  /\ dir[First].url = worker[i].setup
  /\ \E attempt \in Attempts, stores \in BOOLEAN :
       /\ Possible(First, attempt, stores)
       /\ wavelog' = IF stores THEN [wavelog EXCEPT ![First] = "ours"]
                     ELSE wavelog
       /\ worker' = [worker EXCEPT
                       ![i].at = "answered", ![i].qso = First,
                       ![i].job = dir[First], ![i].attempt = attempt]
  /\ UNCHANGED <<disk, lock, server, logged, history, faults>>

classify(attempt, last) ==
  CASE attempt = "created" -> "logged"
    [] attempt = "duplicate" /\ last = "unknown" -> "already_logged"
    [] attempt = "duplicate" /\ last = "not_sent" -> "held"
    [] attempt = "rejected" -> "held"
    [] attempt = "denied" -> "paused"
    [] OTHER -> "retry"

may_have_reached(attempt) == attempt \in {"error", "after_send"}

(* Mutant: only the last try counts.                                       *)
TriedAfresh(entry, attempt) ==
  [entry EXCEPT !.last_attempt =
     IF may_have_reached(attempt) THEN "unknown" ELSE "not_sent"]

Tried(entry, attempt) ==
  IF may_have_reached(attempt) THEN [entry EXCEPT !.last_attempt = "unknown"]
  ELSE entry

Answered(i) ==
  LET w == worker[i]
      outcome == classify(w.attempt, w.job.last_attempt)
      entry == Tried(w.job, w.attempt)
      held == [entry EXCEPT !.state = "held",
                 !.reason = IF w.attempt = "duplicate" THEN "duplicate"
                            ELSE "refused"]
  IN  /\ w.at = "answered"
      /\ \/ /\ outcome \in {"logged", "already_logged"}
            /\ Removed(w.qso)
            /\ worker' = [worker EXCEPT ![i] = Rested(w)]
         \/ /\ outcome \in {"held", "paused", "retry"}
            /\ worker' = [worker EXCEPT ![i] =
                 [Writing(w, w.qso, IF outcome = "held" THEN held ELSE entry,
                          FALSE)
                    EXCEPT !.paused = (outcome = "paused"),
                           !.due = (outcome # "retry")]]
            /\ UNCHANGED disk
      /\ UNCHANGED <<lock, world>>

(* A failure to remove the file is ignored.                                *)
RemoveFails(i) ==
  LET w == worker[i]
  IN  /\ w.at = "answered"
      /\ classify(w.attempt, w.job.last_attempt) \in {"logged", "already_logged"}
      /\ faults < FaultMax
      /\ faults' = faults + 1
      /\ worker' = [worker EXCEPT ![i] = Rested(w)]
      /\ disturbed' = disturbed \cup {w.qso}
      /\ UNCHANGED <<disk, lock, wavelog, server, logged, confirmed, discarded>>

WaitEnds(i) ==
  /\ worker[i].on
  /\ ~worker[i].due
  /\ worker' = [worker EXCEPT ![i].due = TRUE]
  /\ UNCHANGED <<disk, lock, world>>

-----------------------------------------------------------------------------
(* Processes, power, the servers.                                          *)

InHand(i) == {worker[i].qso} \ {None}

Unsettled == {q \in Qsos : \/ dir[q] # durable[q]
                           \/ \E i \in Instances : q \in InHand(i)}

(* Queue::open removes the .tmp files there are, whoever made them.        *)
Start(i) ==
  /\ ~worker[i].on
  /\ worker' = [j \in Instances |->
                  IF j = i THEN [Off EXCEPT !.on = TRUE]
                  ELSE IF worker[j].at = "tmp"
                       THEN [worker[j] EXCEPT !.at = "taken"]
                       ELSE worker[j]]
  /\ UNCHANGED <<disk, lock, world>>

Kill(i) ==
  /\ worker[i].on
  /\ faults < FaultMax
  /\ faults' = faults + 1
  /\ worker' = [worker EXCEPT ![i] = Off]
  /\ lock' = IF lock = i THEN None ELSE lock
  /\ disturbed' = disturbed \cup InHand(i)
  /\ UNCHANGED <<disk, wavelog, server, logged, confirmed, discarded>>

(* Of what was not flushed any part may be undone.                         *)
PowerFails ==
  /\ faults < FaultMax
  /\ faults' = faults + 1
  /\ \E undone \in SUBSET {q \in Qsos : dir[q] # durable[q]} :
       LET left == [q \in Qsos |-> IF q \in undone THEN durable[q] ELSE dir[q]]
       IN  dir' = left /\ durable' = left
  /\ worker' = [i \in Instances |-> Off]
  /\ lock' = None
  /\ disturbed' = disturbed \cup Unsettled
  /\ UNCHANGED <<wavelog, server, logged, confirmed, discarded>>

(* The operator logs the same QSO by other means.                          *)
LoggedElsewhere ==
  /\ \E q \in Qsos :
       /\ wavelog[q] = "none"
       /\ wavelog' = [wavelog EXCEPT ![q] = "foreign"]
  /\ UNCHANGED <<disk, lock, worker, server, logged, history, faults>>

ServerChanges ==
  /\ server' \in {"good", "bad"}
  /\ UNCHANGED <<disk, lock, worker, wavelog, logged, history, faults>>

-----------------------------------------------------------------------------
Init ==
  /\ dir = [q \in Qsos |-> None]
  /\ durable = dir
  /\ lock = None
  /\ worker = [i \in Instances |-> Off]
  /\ wavelog = [q \in Qsos |-> "none"]
  /\ server = "good"
  /\ logged = 0
  /\ confirmed = {} /\ discarded = {} /\ disturbed = {}
  /\ faults = 0

Works(i) ==
  \/ Rename(i) \/ WriteFails(i) \/ Written(i)
  \/ Locks(i) \/ HoldsElsewhere(i) \/ Call(i) \/ Answered(i)

Next ==
  \/ \E i \in Instances :
       \/ Works(i) \/ WaitEnds(i) \/ RemoveFails(i)
       \/ Configure(i) \/ Log(i) \/ SendNow(i) \/ Discard(i)
       \/ Start(i) \/ Kill(i)
  \/ PowerFails \/ LoggedElsewhere \/ ServerChanges

Spec == Init /\ [][Next]_vars

(* The worker's thread runs, its waits end.                                *)
FairSpec ==
  /\ Spec
  /\ \A i \in Instances : WF_vars(Works(i)) /\ WF_vars(WaitEnds(i))

-----------------------------------------------------------------------------
(* Properties.                                                             *)

TypeOK ==
  /\ {dir, durable} \subseteq [Qsos -> Entries \cup {None}]
  /\ lock \in Instances \cup {None}
  /\ worker \in [Instances -> Workers]
  /\ \A i \in Instances : /\ worker[i].at = "idle" <=> worker[i].job = None
                          /\ worker[i].at = "idle" <=> worker[i].qso = None
  /\ wavelog \in [Qsos -> {"none", "ours", "foreign"}]
  /\ server \in {"good", "bad"}
  /\ logged \in 0 .. QsoMax
  /\ confirmed \cup discarded \cup disturbed \subseteq Qsos
  /\ faults \in 0 .. FaultMax

(* A QSO shown as queued is in the directory until the server has it or    *)
(* the operator discards it - through kills, power losses, failed writes,  *)
(* lost replies and a second instance (FR-LOG-04).                         *)
NothingLost ==
  \A q \in confirmed \ discarded : dir[q] # None \/ wavelog[q] # "none"

(* A QSO is held as a duplicate because somebody else logged it, never     *)
(* because an earlier try of our own got through unnoticed - but for a     *)
(* fault while that try was in hand (FR-LOG-04, may have reached).         *)
HeldIsForeign ==
  \A q \in Present \ disturbed :
    dir[q].reason = "duplicate" => wavelog[q] = "foreign"

(* What the operator discarded does not come back with an update another   *)
(* instance has under way; only a power loss brings it back.               *)
DiscardStays ==
  [][\A q \in discarded : dir[q] = None /\ dir'[q] # None => PowerFails]_vars

(* While the servers answer well and every running instance is set up for  *)
(* the same one, the pending QSOs are sent or held: no entry, lock, wait   *)
(* or pause is in the way for good.                                        *)
AllSetUp ==
  \E s \in Servers : \A i \in Instances :
    /\ worker[i].setup = s
    /\ ~worker[i].paused

Drains ==
  []<>(Pending = {}) \/ []<>(server = "bad" \/ ~AllSetUp)
=============================================================================
