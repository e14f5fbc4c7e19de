---------------------------- MODULE FreeDvSource ----------------------------
(***************************************************************************)
(* FreeDV Reporter: crates/k4-spot/src/freedv_source.rs, with the roster   *)
(* of freedv.rs.  The service tells who is on it when a session starts and *)
(* then each change; the source stamps a station's spot when it changes    *)
(* and, every Refresh, that of everyone still on the roster.  So the       *)
(* roster must be the service's, or a station that left stays on the map.  *)
(*                                                                         *)
(* Each packet also carries what the code cannot see, the stations the     *)
(* service had placed when it was sent.  Spots, texts, the window and the  *)
(* rate gate are left out.  The service is external; it sends no event     *)
(* about a station that left.                                              *)
(*                                                                         *)
(* Bounds: Unread packets under way; an attempt takes 0 or Slow units.     *)
(***************************************************************************)
EXTENDS Naturals, Sequences

CONSTANTS
  First, Longest,
  Prompt,     \* Timing.prompt_timeout
  Watchdog,   \* the service's ping interval and timeout
  Refresh,    \* FreeDvSource.refresh
  Slow, Unread,
  Stations    \* session ids

VARIABLES
  usable,     \* the settings make a request
  conn,       \* "none" or Conn.phase: "upgrade", "open", "connect", "live"
  since,      \* since the connection was made, up to Prompt and one more
  quiet,      \* since data came, up to Watchdog and one more
  aged,       \* since last_refresh, up to Refresh
  wait, backoff,
  roster,     \* Roster.by_sid: "absent", "joined" or "placed" (a frequency)
  arrived,    \* what the service sent that was not read
  closed,     \* the service has closed
  session,    \* the service: how far it is with this client
  there,      \* the service: each station
  told,       \* history: the stations placed in the last packet read
  restamped   \* history: this poll stamped all of the roster

vars == <<usable, conn, since, quiet, aged, wait, backoff, roster, arrived,
          closed, session, there, told, restamped>>

S == INSTANCE SpotSource
       WITH open <- conn # "none", connected <- conn = "live", Interval <- 0

AtMost(n, most) == IF n < most THEN n ELSE most
Less(n, spent) == IF n > spent THEN n - spent ELSE 0
Status == {"absent", "joined", "placed"}
Nobody == [s \in Stations |-> "absent"]
Placed(r) == {s \in Stations : r[s] = "placed"}

-----------------------------------------------------------------------------
(* The service.                                                            *)

client == <<usable, conn, since, quiet, aged, wait, backoff, roster, closed,
            told, restamped>>

Pushes(op, who, now) ==
  /\ conn # "none" /\ ~closed /\ Len(arrived) < Unread
  /\ arrived' = Append(arrived, [op |-> op, who |-> who, placed |-> Placed(now)])

(* The reply to the upgrade, then the steps of the session; the roster     *)
(* goes out once the client was let in.                                    *)
Greets ==
  /\ \/ session = "asked" /\ Pushes("upgrade", {}, Nobody) /\ session' = "upgraded"
     \/ session = "upgraded" /\ Pushes("open", {}, Nobody) /\ session' = "opened"
     \/ /\ session = "opened" /\ conn = "connect"
        /\ Pushes("ack", {}, Nobody) /\ session' = "acked"
     \/ /\ session = "acked"
        /\ Pushes("bulk", {s \in Stations : there[s] # "absent"}, there)
        /\ session' = "told"
  /\ UNCHANGED <<client, there>>

(* A ping, a goodbye or a refusal, and data that is no packet.             *)
Says(op) ==
  /\ Pushes(op, {}, IF session = "told" THEN there ELSE Nobody)
  /\ UNCHANGED <<client, session, there>>

(* A station joins, tells or clears its frequency, or leaves.              *)
Moves(s, to) ==
  /\ to # there[s]
  /\ there[s] = "absent" => to = "joined"
  /\ there' = [there EXCEPT ![s] = to]
  /\ IF conn # "none" /\ session = "told" /\ ~closed
     THEN Pushes(IF to = "absent" THEN "leave" ELSE "change", {s}, there')
     ELSE UNCHANGED arrived
  /\ UNCHANGED <<client, session>>

ServiceCloses ==
  /\ conn # "none" /\ ~closed
  /\ closed' = TRUE
  /\ UNCHANGED <<usable, conn, since, quiet, aged, wait, backoff, roster,
                 arrived, session, there, told, restamped>>

-----------------------------------------------------------------------------
(* poll with no connection: try_connect.                                   *)

NotConnected == conn = "none" /\ wait = 0
Service == <<session, there, arrived, closed>>

SettingsUnusable ==
  /\ NotConnected /\ ~usable
  /\ wait' = Longest
  /\ restamped' = FALSE
  /\ UNCHANGED <<usable, conn, since, quiet, aged, backoff, roster, told, Service>>

ConnectFails(spent) ==
  /\ NotConnected /\ usable
  /\ wait' = Less(backoff, spent)
  /\ backoff' = S!Doubled(backoff)
  /\ roster' = Nobody
  /\ restamped' = FALSE
  /\ UNCHANGED <<usable, conn, since, quiet, aged, told, Service>>

Connects(spent) ==
  /\ NotConnected /\ usable
  /\ conn' = "upgrade"
  /\ since' = AtMost(spent, Prompt + 1) /\ quiet' = AtMost(spent, Watchdog + 1)
  /\ session' = "asked" /\ arrived' = <<>> /\ closed' = FALSE
  /\ told' = {} /\ restamped' = FALSE
  /\ UNCHANGED <<usable, aged, wait, backoff, roster, there>>

RetryNow ==
  /\ wait' = 0 /\ backoff' = First
  /\ UNCHANGED <<usable, conn, since, quiet, aged, roster, told, restamped, Service>>

-----------------------------------------------------------------------------
(* poll with a connection: service, and fail for its errors.               *)

(* Mutant: the roster outlives the session.                                *)
LeftOverKept == roster

LeftOver == Nobody

Failed ==
  /\ conn' = "none"
  /\ roster' = LeftOver
  /\ wait' = backoff
  /\ backoff' = S!Doubled(backoff)
  /\ arrived' = <<>> /\ closed' = FALSE /\ session' = "asked"
  /\ since' = 0 /\ quiet' = 0
  /\ told' = {} /\ restamped' = FALSE
  /\ UNCHANGED <<usable, aged, there>>

(* The end of the stream, or an error in reading or sending.               *)
Dropped == conn # "none" /\ closed /\ Failed

(* Roster::on_event: the stations the event is about become what it says.  *)
Applied(r, p) ==
  [s \in Stations |->
     IF s \notin p.who THEN r[s]
     ELSE IF p.op = "leave" THEN "absent"
     ELSE IF s \in p.placed THEN "placed" ELSE "joined"]

(* FreeDvSource::handle: what one packet makes of the phase and the roster.*)
Handled(c, p) ==
  CASE p.op = "bye" -> [c EXCEPT !.ok = FALSE]
    [] p.op = "junk" /\ c.phase # "live" -> [c EXCEPT !.ok = FALSE]
    [] p.op = "upgrade" /\ c.phase = "upgrade" -> [c EXCEPT !.phase = "open"]
    [] p.op = "open" /\ c.phase = "open" -> [c EXCEPT !.phase = "connect"]
    [] p.op = "ack" /\ c.phase = "connect" -> [c EXCEPT !.phase = "live"]
    [] p.op \in {"bulk", "change", "leave"} /\ c.phase = "live" ->
         [c EXCEPT !.roster = Applied(c.roster, p)]
    [] OTHER -> c

Handling(read) ==
  LET f[i \in 0 .. Len(read)] ==
        IF i = 0 THEN [phase |-> conn, roster |-> roster, ok |-> TRUE]
        ELSE IF f[i - 1].ok THEN Handled(f[i - 1], read[i]) ELSE f[i - 1]
  IN  f[Len(read)]

(* No ping in time.  The service said how long that is when it opened.     *)
Overdue(n) == conn \in {"connect", "live"} /\ n = 0 /\ quiet > Watchdog

Reads(n) ==
  LET read == SubSeq(arrived, 1, n)
      h == Handling(read)
      fresh == conn # "live" /\ h.phase = "live"
      due == ~fresh /\ aged >= Refresh
  IN  /\ conn # "none"
      /\ IF Overdue(n) \/ (conn # "live" /\ since > Prompt) \/ ~h.ok THEN Failed
         ELSE /\ conn' = h.phase /\ roster' = h.roster
              /\ quiet' = IF n > 0 THEN 0 ELSE quiet
              /\ told' = IF n > 0 THEN read[n].placed ELSE told
              /\ backoff' = IF fresh THEN First ELSE backoff
              /\ aged' = IF fresh \/ due THEN 0 ELSE aged
              /\ restamped' = (due /\ h.roster # Nobody)
              /\ arrived' = SubSeq(arrived, n + 1, Len(arrived))
              /\ UNCHANGED <<usable, since, wait, closed, session, there>>

Poll ==
  \/ SettingsUnusable
  \/ \E spent \in {0, Slow} : ConnectFails(spent) \/ Connects(spent)
  \/ Dropped
  \/ \E n \in 0 .. Len(arrived) : Reads(n)

Tick ==
  /\ wait' = Less(wait, 1)
  /\ since' = AtMost(since + 1, Prompt + 1)
  /\ quiet' = AtMost(quiet + 1, Watchdog + 1)
  /\ aged' = AtMost(aged + 1, Refresh)
  /\ restamped' = FALSE
  /\ UNCHANGED <<usable, conn, backoff, roster, told, Service>>

-----------------------------------------------------------------------------
Init ==
  /\ usable \in BOOLEAN
  /\ conn = "none" /\ session = "asked"
  /\ since = 0 /\ quiet = 0 /\ aged = 0
  /\ wait = 0 /\ backoff = First
  /\ roster = Nobody /\ there = Nobody
  /\ arrived = <<>> /\ closed = FALSE
  /\ told = {} /\ restamped = FALSE

Next ==
  \/ Greets
  \/ \E op \in {"ping", "bye", "junk"} : Says(op)
  \/ \E s \in Stations, to \in Status : Moves(s, to)
  \/ ServiceCloses
  \/ RetryNow
  \/ Poll
  \/ Tick

Spec == Init /\ [][Next]_vars

-----------------------------------------------------------------------------
(* Properties.                                                             *)

TypeOK ==
  /\ usable \in BOOLEAN /\ closed \in BOOLEAN /\ restamped \in BOOLEAN
  /\ conn \in {"none", "upgrade", "open", "connect", "live"}
  /\ since \in 0 .. Prompt + 1 /\ quiet \in 0 .. Watchdog + 1
  /\ aged \in 0 .. Refresh
  /\ wait \in Nat /\ backoff \in Nat
  /\ roster \in [Stations -> Status] /\ there \in [Stations -> Status]
  /\ told \subseteq Stations

(* A station on the map is one the service, when it was last heard, had    *)
(* there: stations come, move and leave while the source is away or the    *)
(* path is silent, and nobody is stamped again on the strength of an older *)
(* session or of a service not heard within its own time (FR-SPOT-08,      *)
(* freedv_source.rs:245 and :523).                                         *)
OnlyWhoIsThere ==
  /\ Placed(roster) = told
  /\ roster # Nobody => conn = "live"
  /\ restamped => quiet <= Watchdog

(* It keeps the promise of every source.                                   *)
KeepsItsWord == S!Spec
=============================================================================
