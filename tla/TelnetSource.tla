---------------------------- MODULE TelnetSource ----------------------------
(***************************************************************************)
(* A telnet cluster: crates/k4-spot/src/telnet.rs.  One poll makes an      *)
(* attempt, or reads what has come and acts on it; a poll that connects    *)
(* waits for the far end, and may take its time.                           *)
(*                                                                         *)
(* A line is a "prompt" for a callsign, a "spot", or "other".  The window  *)
(* and the rate gate only choose which spots go on, and are left out.      *)
(*                                                                         *)
(* Bounds: Unread lines under way; an attempt takes 0 or Slow units.       *)
(***************************************************************************)
EXTENDS Naturals, Sequences

CONSTANTS
  First, Longest,
  Prompt,     \* Timing.prompt_timeout
  Idle,       \* Timing.idle_timeout
  Slow, Unread

VARIABLES
  usable,     \* the settings have a host and a valid callsign
  conn,       \* "none", "await" (Phase::AwaitPrompt) or "streaming"
  since,      \* since the connection was made, up to Prompt and one more
  quiet,      \* since data came, up to Idle and one more
  wait,       \* until next_attempt
  backoff,
  arrived,    \* lines the server sent that were not read
  closed,     \* the server has closed
  logins,     \* history: callsigns sent on this connection
  early       \* history: lines handed on in a poll that began before the login

vars == <<usable, conn, since, quiet, wait, backoff, arrived, closed, logins, early>>

S == INSTANCE SpotSource
       WITH open <- conn # "none", connected <- conn = "streaming", Interval <- 0

Kinds == {"prompt", "spot", "other"}
AtMost(n, most) == IF n < most THEN n ELSE most
Less(n, spent) == IF n > spent THEN n - spent ELSE 0
Prefix(s, n) == SubSeq(s, 1, n)
Has(lines, kind) == \E i \in DOMAIN lines : lines[i] = kind

-----------------------------------------------------------------------------
(* The server.                                                             *)

ServerSends(kind) ==
  /\ conn # "none" /\ ~closed /\ Len(arrived) < Unread
  /\ arrived' = Append(arrived, kind)
  /\ UNCHANGED <<usable, conn, since, quiet, wait, backoff, closed, logins, early>>

ServerCloses ==
  /\ conn # "none" /\ ~closed
  /\ closed' = TRUE
  /\ UNCHANGED <<usable, conn, since, quiet, wait, backoff, arrived, logins, early>>

-----------------------------------------------------------------------------
(* poll with no connection: try_connect.                                   *)

(* Mutant: the back-off starts over with every connection made.            *)
BackoffOfConnectionReset == First

BackoffOfConnection == backoff

NotConnected == conn = "none" /\ wait = 0

SettingsUnusable ==
  /\ NotConnected /\ ~usable
  /\ wait' = Longest
  /\ UNCHANGED <<usable, conn, since, quiet, backoff, arrived, closed, logins, early>>

ConnectFails(spent) ==
  /\ NotConnected /\ usable
  /\ wait' = Less(backoff, spent)
  /\ backoff' = S!Doubled(backoff)
  /\ UNCHANGED <<usable, conn, since, quiet, arrived, closed, logins, early>>

Connects(spent) ==
  /\ NotConnected /\ usable
  /\ conn' = "await"
  /\ since' = AtMost(spent, Prompt + 1) /\ quiet' = AtMost(spent, Idle + 1)
  /\ backoff' = BackoffOfConnection
  /\ arrived' = <<>> /\ closed' = FALSE /\ logins' = 0
  /\ UNCHANGED <<usable, wait, early>>

-----------------------------------------------------------------------------
(* poll with a connection: service, and fail for its errors.               *)

Failed ==
  /\ conn' = "none"
  /\ wait' = backoff
  /\ backoff' = S!Doubled(backoff)
  /\ arrived' = <<>> /\ closed' = FALSE
  /\ UNCHANGED <<usable, since, quiet, logins, early>>

(* The end of the stream, or an error in reading or in sending the         *)
(* callsign: what this poll read is lost.                                  *)
Dropped == conn # "none" /\ closed /\ Failed

(* Lines become spots once logged in; those read with the prompt do not.   *)
HandedOn(read) == conn = "streaming" /\ Has(read, "spot")

Reads(n) ==
  /\ arrived' = SubSeq(arrived, n + 1, Len(arrived))
  /\ quiet' = IF n > 0 THEN 0 ELSE quiet
  /\ early' = (early \/ (HandedOn(Prefix(arrived, n)) /\ conn = "await"))
  /\ UNCHANGED <<usable, since, wait, closed>>

(* The prompt: the callsign is sent, and everything read so far dropped.   *)
Login(n) ==
  /\ conn = "await" /\ Has(Prefix(arrived, n), "prompt")
  /\ Reads(n)
  /\ conn' = "streaming"
  /\ logins' = logins + 1
  /\ backoff' = First

NoPrompt(n) ==
  /\ conn = "await" /\ ~Has(Prefix(arrived, n), "prompt")
  /\ IF since > Prompt THEN Failed
     ELSE Reads(n) /\ UNCHANGED <<conn, backoff, logins>>

Streams(n) ==
  /\ conn = "streaming"
  /\ IF n = 0 /\ quiet > Idle THEN Failed
     ELSE Reads(n) /\ UNCHANGED <<conn, backoff, logins>>

Poll ==
  \/ SettingsUnusable
  \/ \E spent \in {0, Slow} : ConnectFails(spent) \/ Connects(spent)
  \/ Dropped
  \/ \E n \in 0 .. Len(arrived) : Login(n) \/ NoPrompt(n) \/ Streams(n)

Tick ==
  /\ wait' = Less(wait, 1)
  /\ since' = AtMost(since + 1, Prompt + 1)
  /\ quiet' = AtMost(quiet + 1, Idle + 1)
  /\ UNCHANGED <<usable, conn, backoff, arrived, closed, logins, early>>

-----------------------------------------------------------------------------
Init ==
  /\ usable \in BOOLEAN
  /\ conn = "none"
  /\ since = 0 /\ quiet = 0
  /\ wait = 0 /\ backoff = First
  /\ arrived = <<>> /\ closed = FALSE
  /\ logins = 0 /\ early = FALSE

Next ==
  \/ \E kind \in Kinds : ServerSends(kind)
  \/ ServerCloses
  \/ Poll
  \/ Tick

Spec == Init /\ [][Next]_vars

-----------------------------------------------------------------------------
(* Properties.                                                             *)

TypeOK ==
  /\ usable \in BOOLEAN
  /\ conn \in {"none", "await", "streaming"}
  /\ since \in 0 .. Prompt + 1 /\ quiet \in 0 .. Idle + 1
  /\ wait \in Nat /\ backoff \in Nat
  /\ arrived \in Seq(Kinds)
  /\ closed \in BOOLEAN /\ early \in BOOLEAN
  /\ logins \in {0, 1}

(* The callsign is the only thing sent, once on a connection and when the  *)
(* server asks for it; nothing of the banner, however it is split between  *)
(* reads, is taken for a spot (FR-SPOT-07).                                *)
LoginThenSpots ==
  /\ ~early
  /\ conn = "streaming" => logins = 1
  /\ conn = "await" => logins = 0

(* It keeps the promise of every source.                                   *)
KeepsItsWord == S!Spec
=============================================================================
