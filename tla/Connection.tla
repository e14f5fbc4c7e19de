----------------------------- MODULE Connection -----------------------------
(***************************************************************************)
(* The life of the connection: the worker's loop (run, begin_connect,      *)
(* poll_pending, service and the commands Connect, Disconnect, DtmfSequence*)
(* and EmergencyStop of src/app/src/worker.rs), the threads that open      *)
(* links, Backoff of crates/k4-session, and the connect button of the UI.  *)
(*                                                                         *)
(* One iteration of the loop is four steps, taken in turn: drain the       *)
(* commands, collect a finished attempt, send the next DTMF digit, service *)
(* the link or start the next attempt.  The UI looks at what the worker    *)
(* published ten times a second and acts on what it saw.  Of the session   *)
(* only who it is with and whether it is keyed is kept (see Session).      *)
(*                                                                         *)
(* Bounds: CmdMax commands waiting, DigitMax digits in a sequence; the     *)
(* attempts are counted up to the last delay that differs.                 *)
(***************************************************************************)
EXTENDS Integers, Sequences, FiniteSetsExt

CONSTANTS
  Targets,      \* the radios one may connect to
  None,
  Base, Longest,   \* Backoff.base and .max, in units of time
  CmdMax, DigitMax,
  Answers,      \* what a radio may do when called, see radio
  ThreadsDie,   \* whether a connect thread may end without a result
  Paces         \* of the operator, see hasty

ASSUME DelaysAssumption ==
  /\ Base \in Nat \ {0}
  /\ Longest \in Nat
  /\ Base <= Longest

ASSUME SizesAssumption == CmdMax \in Nat /\ DigitMax \in Nat

(* What ws.pending_connect and ws.session may be, when they are not None.  *)
Attempts == [to : Targets, result : {"open", "ok", "failed", "hung", "died"}]
Sessions == [to : Targets, keyed : BOOLEAN]

ASSUME NoneAssumption ==
  None \notin Targets /\ None \notin Int /\ None \notin Attempts \cup Sessions

ASSUME AnswersAssumption == Answers \subseteq {"ok", "failed", "hung"}

ASSUME PacesAssumption == Paces \subseteq BOOLEAN

VARIABLES
  connect_params,   \* ws.connect_params
  pending_connect,  \* ws.pending_connect: None or [to, result], the result
                    \* "open" until the thread has sent one
  next_attempt,     \* ws.next_attempt: None or the time left
  attempt,          \* ws.backoff.attempt
  session,          \* ws.session: None or [to, keyed]
  dtmf,             \* ws.dtmf: the digits left, and (history) whether they
                    \* were started on the session there is
  at,               \* where the worker's loop is
  phase, transmitting,   \* of the snapshot
  cmds,             \* the channel from the UI to the worker
  seen,             \* the phase the UI shows
  radio,            \* how a call to the radio goes now (external)
  hasty             \* the operator acts before the last act shows (external)

vars == <<connect_params, pending_connect, next_attempt, attempt, session,
          dtmf, at, phase, transmitting, cmds, seen, radio, hasty>>

linkVars == <<connect_params, pending_connect, next_attempt, attempt, session>>
snapshotVars == <<phase, transmitting>>

-----------------------------------------------------------------------------
(* Backoff.                                                                *)

Delay(n) == Min({Base * 2^Min({n, 16}), Longest})

(* Counting on past the first longest delay changes nothing.               *)
AttemptMax == CHOOSE n \in 0 .. 16 :
                /\ Delay(n) = Delay(16)
                /\ \A m \in 0 .. n - 1 : Delay(m) # Delay(16)

Retry ==
  /\ next_attempt' = Delay(attempt)
  /\ attempt' = Min({attempt + 1, AttemptMax})

NoDtmf == [left |-> 0, own |-> FALSE]
Orphaned == [dtmf EXCEPT !.own = FALSE]

-----------------------------------------------------------------------------
(* 1. The commands.                                                        *)

Command(kind, to) == [kind |-> kind, to |-> to]

(* begin_connect: nothing if an attempt is in flight.                      *)
Begin(to) ==
  IF pending_connect # None
  THEN UNCHANGED <<pending_connect, phase>>
  ELSE /\ pending_connect' = [to |-> to, result |-> "open"]
       /\ phase' = "Connecting"

Connect(to) ==
  /\ connect_params' = to
  /\ attempt' = 0
  /\ next_attempt' = None
  /\ Begin(to)
  /\ UNCHANGED <<session, dtmf, transmitting>>

(* Mutant: the attempt in flight is not called off.                        *)
DisconnectKeepsAttempt ==
  /\ session' = None
  /\ dtmf' = NoDtmf
  /\ connect_params' = None
  /\ next_attempt' = None
  /\ attempt' = 0
  /\ phase' = "Disconnected"
  /\ UNCHANGED <<pending_connect, transmitting>>

(* Also cancels an attempt: its thread's result will find no receiver.     *)
Disconnect ==
  /\ session' = None
  /\ dtmf' = NoDtmf
  /\ pending_connect' = None
  /\ connect_params' = None
  /\ next_attempt' = None
  /\ attempt' = 0
  /\ phase' = "Disconnected"
  /\ UNCHANGED transmitting

(* What concerns the session is dropped when there is none.                *)
Key(on) ==
  /\ session' = IF session = None THEN None ELSE [session EXCEPT !.keyed = on]
  /\ UNCHANGED dtmf

StartDtmf ==
  /\ dtmf' = IF session = None THEN dtmf
             ELSE [left |-> DigitMax, own |-> TRUE]
  /\ UNCHANGED session

EmergencyStop ==
  /\ session' = IF session = None THEN None
                ELSE [session EXCEPT !.keyed = FALSE]
  /\ dtmf' = NoDtmf

HandleCmd ==
  /\ at = "cmds" /\ cmds # <<>>
  /\ cmds' = Tail(cmds)
  /\ LET cmd == Head(cmds) IN
     \/ cmd.kind = "connect" /\ Connect(cmd.to)
     \/ cmd.kind = "disconnect" /\ Disconnect
     \/ /\ \/ cmd.kind = "key" /\ Key(TRUE)
           \/ cmd.kind = "unkey" /\ Key(FALSE)
           \/ cmd.kind = "dtmf" /\ StartDtmf
           \/ cmd.kind = "stop" /\ EmergencyStop
        /\ UNCHANGED <<connect_params, pending_connect, next_attempt, attempt>>
        /\ UNCHANGED snapshotVars
  /\ UNCHANGED <<at, seen, radio, hasty>>

Drained ==
  /\ at = "cmds" /\ cmds = <<>>
  /\ at' = "poll"
  /\ UNCHANGED <<linkVars, dtmf, snapshotVars, cmds, seen, radio, hasty>>

-----------------------------------------------------------------------------
(* 2. poll_pending.                                                        *)

(* Mutant: the count of attempts runs on over a success.                   *)
InstalledCountingOn ==
  /\ session' = [to |-> pending_connect.to, keyed |-> FALSE]
  /\ dtmf' = Orphaned
  /\ next_attempt' = None
  /\ phase' = "Connected"
  /\ UNCHANGED attempt

(* A link is open: it takes the place of whatever session there is.        *)
Installed ==
  /\ session' = [to |-> pending_connect.to, keyed |-> FALSE]
  /\ dtmf' = Orphaned
  /\ attempt' = 0
  /\ next_attempt' = None
  /\ phase' = "Connected"

(* Mutant: a failed attempt is only reported.                              *)
FailedForGood ==
  /\ phase' = IF connect_params = None THEN "Disconnected" ELSE phase
  /\ UNCHANGED <<next_attempt, attempt, session, dtmf>>

Failed ==
  /\ IF connect_params # None
     THEN Retry /\ UNCHANGED phase
     ELSE phase' = "Disconnected" /\ UNCHANGED <<next_attempt, attempt>>
  /\ UNCHANGED <<session, dtmf>>

Result == IF pending_connect = None THEN "open" ELSE pending_connect.result

PollPending ==
  /\ at = "poll"
  /\ at' = "dtmf"
  /\ \/ /\ Result \in {"open", "hung"}
        /\ UNCHANGED <<pending_connect, next_attempt, attempt, session, dtmf,
                       phase>>
     \/ /\ Result \in {"ok", "failed", "died"}
        /\ pending_connect' = None
        /\ \/ Result = "ok" /\ Installed
           \/ Result = "failed" /\ Failed
           \/ /\ Result = "died"
              /\ UNCHANGED <<next_attempt, attempt, session, dtmf, phase>>
  /\ UNCHANGED <<connect_params, transmitting, cmds, seen, radio, hasty>>

-----------------------------------------------------------------------------
(* 3. The DTMF sequence: the next digit if it is due.                      *)

(* Mutant: a sequence waits for the next link.                             *)
DtmfWaits ==
  /\ at = "dtmf"
  /\ at' = "link"
  /\ dtmf' \in IF session = None \/ dtmf.left = 0 THEN {dtmf}
               ELSE {dtmf, [dtmf EXCEPT !.left = @ - 1]}
  /\ UNCHANGED <<linkVars, snapshotVars, cmds, seen, radio, hasty>>

Dtmf ==
  /\ at = "dtmf"
  /\ at' = "link"
  /\ dtmf' \in IF session = None THEN {NoDtmf}
               ELSE IF dtmf.left = 0 THEN {dtmf}
               ELSE {dtmf, [dtmf EXCEPT !.left = @ - 1]}
  /\ UNCHANGED <<linkVars, snapshotVars, cmds, seen, radio, hasty>>

-----------------------------------------------------------------------------
(* 5. service, or the next attempt if it is due.                           *)

(* The link is lost: the transmit ends with it (the fail-safe), the pass   *)
(* publishes (every 50 ms only) and drops the session.                     *)
LinkLost ==
  /\ session' = None
  /\ dtmf' = Orphaned
  /\ \E published \in BOOLEAN :
       transmitting' = IF published THEN FALSE ELSE transmitting
  /\ IF connect_params # None
     THEN Retry /\ phase' = "Connecting"
     ELSE phase' = "Disconnected" /\ UNCHANGED <<next_attempt, attempt>>
  /\ UNCHANGED pending_connect

Serviced ==
  /\ \E published \in BOOLEAN :
       /\ transmitting' = IF published THEN session.keyed ELSE transmitting
       /\ phase' = IF published THEN "Connected" ELSE phase
  /\ UNCHANGED <<pending_connect, next_attempt, attempt, session, dtmf>>

NextAttempt ==
  IF pending_connect = None /\ next_attempt = 0
  THEN next_attempt' = None /\ Begin(connect_params)
  ELSE UNCHANGED <<pending_connect, next_attempt, phase>>

Link ==
  /\ at = "link"
  /\ at' = "cmds"
  /\ \/ session # None /\ (LinkLost \/ Serviced)
     \/ /\ session = None
        /\ NextAttempt
        /\ UNCHANGED <<attempt, session, dtmf, transmitting>>
  /\ UNCHANGED <<connect_params, cmds, seen, radio, hasty>>

-----------------------------------------------------------------------------
(* The connect threads, time, the UI and the radio.                        *)

workerVars == <<connect_params, next_attempt, attempt, session, dtmf, at,
                phase, transmitting>>

(* open_link returns, does not return, or its thread panics.               *)
ThreadEnds ==
  /\ Result = "open" /\ pending_connect # None
  /\ \/ pending_connect' = [pending_connect EXCEPT !.result = radio]
     \/ ThreadsDie /\ pending_connect' = [pending_connect EXCEPT !.result = "died"]
  /\ UNCHANGED <<workerVars, cmds, seen, radio, hasty>>

Time ==
  /\ next_attempt # None
  /\ next_attempt > 0
  /\ next_attempt' = next_attempt - 1
  /\ UNCHANGED <<connect_params, pending_connect, attempt, session, dtmf, at,
                 snapshotVars, cmds, seen, radio, hasty>>

(* Message::Tick: the UI takes the snapshot.                               *)
Look ==
  /\ seen' = phase
  /\ UNCHANGED <<workerVars, pending_connect, cmds, radio, hasty>>

Settled == cmds = <<>> /\ seen = phase

(* The connect button's command follows from the phase shown.              *)
Button ==
  IF seen = "Disconnected" THEN {Command("connect", t) : t \in Targets}
  ELSE {Command("disconnect", None)}

Others == {Command(k, None) : k \in {"key", "unkey", "dtmf", "stop"}}

Operator ==
  /\ Len(cmds) < CmdMax
  /\ hasty \/ Settled
  /\ \E cmd \in Button \cup Others : cmds' = Append(cmds, cmd)
  /\ UNCHANGED <<workerVars, pending_connect, seen, radio, hasty>>

RadioChanges ==
  /\ radio' \in Answers
  /\ UNCHANGED <<workerVars, pending_connect, cmds, seen, hasty>>

-----------------------------------------------------------------------------
Init ==
  /\ connect_params = None
  /\ pending_connect = None
  /\ next_attempt = None
  /\ attempt = 0
  /\ session = None
  /\ dtmf = NoDtmf
  /\ at = "cmds"
  /\ phase = "Disconnected"
  /\ transmitting = FALSE
  /\ cmds = <<>>
  /\ seen = "Disconnected"
  /\ radio \in Answers
  /\ hasty \in Paces

Loop == HandleCmd \/ Drained \/ PollPending \/ Dtmf \/ Link

Next == Loop \/ ThreadEnds \/ Time \/ Look \/ Operator \/ RadioChanges

Spec == Init /\ [][Next]_vars

(* The loop runs on and gets through the commands - they come from a hand  *)
(* on a mouse - threads run, the clock and the UI tick.                    *)
FairSpec ==
  /\ Spec
  /\ WF_vars(Loop) /\ SF_vars(Drained)
  /\ WF_vars(ThreadEnds) /\ WF_vars(Time) /\ WF_vars(Look)

-----------------------------------------------------------------------------
(* Properties.                                                             *)

Phases == {"Disconnected", "Connecting", "Connected"}

TypeOK ==
  /\ connect_params \in Targets \cup {None}
  /\ pending_connect \in Attempts \cup {None}
  /\ next_attempt \in 0 .. Longest \cup {None}
  /\ attempt \in 0 .. AttemptMax
  /\ session \in Sessions \cup {None}
  /\ dtmf \in [left : 0 .. DigitMax, own : BOOLEAN]
  /\ at \in {"cmds", "poll", "dtmf", "link"}
  /\ {phase, seen} \subseteq Phases
  /\ transmitting \in BOOLEAN

(* The phase the connect button follows tells what goes on: idle is idle,  *)
(* and connecting always has an attempt in flight, a retry to come or a    *)
(* session behind it (FR-UI-16).                                           *)
PhaseHonest ==
  /\ phase = "Disconnected" =>
       session = None /\ pending_connect = None /\ next_attempt = None
  /\ phase = "Connecting" =>
       session # None \/ pending_connect # None \/ next_attempt # None
  /\ phase = "Connected" => session # None

(* After a disconnect or a cancel nothing connects again by itself: no     *)
(* result that comes late, no retry, no session (FR-UI-16).                *)
NothingUnasked ==
  connect_params = None =>
    session = None /\ pending_connect = None /\ next_attempt = None

(* However many attempts it took to connect, the first retry after a loss  *)
(* comes after the shortest delay, if the operator waits for each act to   *)
(* show: a second Connect in flight beside a session may fail and count    *)
(* (FR-SES-RECONNECT).                                                     *)
FirstRetrySoon ==
  [][ (~hasty /\ Link /\ session # None /\ session' = None /\ connect_params # None)
        => next_attempt' = Base ]_vars

(* A digit is sent only over the link its sequence was started on, if the  *)
(* operator waits for each act to show (FR-FM-03).                         *)
DtmfOnItsLink ==
  [][ ~hasty /\ Dtmf /\ dtmf'.left < dtmf.left /\ session # None
        => dtmf.own ]_vars

(* The same for a hasty operator.  The code does not keep this: a second   *)
(* Connect installs a new link under a running sequence.                   *)
DtmfOnItsLinkHasty ==
  [][Dtmf /\ dtmf'.left < dtmf.left /\ session # None => dtmf.own]_vars

(* As long as the operator wants the connection, waits for each act to     *)
(* show, and the radio can be reached, there is a session again and again: *)
(* no interleaving of losses, failures, commands and late results strands  *)
(* it (FR-SES-RECONNECT).                                                  *)
Reconnects ==
  \/ []<>(session # None)
  \/ []<>(hasty \/ radio # "ok" \/ connect_params = None)

(* Comment of poll_pending: when a connect thread dies without a result    *)
(* the retry logic runs.  The code does not keep this: nothing schedules   *)
(* an attempt.                                                             *)
RetryAfterDeath ==
  connect_params # None =>
    session # None \/ pending_connect # None \/ next_attempt # None

(* FR-CONN-05: an attempt fails, and does not hang, if no handshake        *)
(* response arrives.  The code does not keep this for TLS.                 *)
AttemptEnds ==
  (pending_connect # None)
    ~> (pending_connect = None \/ Result \in {"ok", "failed"})

(* FR-TX-SAFE-05: off air ESC keeps its dismiss role; it is a stop as long *)
(* as the snapshot says transmitting.  The code does not keep this: a      *)
(* disconnect while keyed leaves the snapshot so.                          *)
OffAirWithoutSession ==
  phase = "Disconnected" => ~transmitting

(* The target retained for reconnecting is the one connected to.  The code *)
(* does not keep this: a second Connect while an attempt is in flight      *)
(* changes the one and not the other.                                      *)
ConnectedWhereAsked ==
  session # None => session.to = connect_params
=============================================================================
