----------------------------- MODULE MqttSource -----------------------------
(***************************************************************************)
(* PSK Reporter over MQTT: crates/k4-spot/src/mqtt_source.rs.  One poll    *)
(* makes an attempt, or reads what has come, acts on it, and then asks the *)
(* broker for the topics it is not yet subscribed to and lets the others   *)
(* go.  The broker reads what was sent when it likes, in order, and may    *)
(* refuse the connection or a subscription.                                *)
(*                                                                         *)
(* Spots, the window and the rate gate are left out: a Publish is handed   *)
(* on in every phase and changes nothing here.  Packet ids are not looked  *)
(* at by the code that reads the answers, and are left out as well.        *)
(*                                                                         *)
(* Bounds: Unread packets under way each way; an attempt takes 0 or Slow.  *)
(***************************************************************************)
EXTENDS Naturals, Sequences

CONSTANTS
  First, Longest,
  Prompt,     \* Timing.prompt_timeout
  Keepalive,  \* Timing.keepalive
  Slow, Unread,
  Topics      \* one per amateur band

VARIABLES
  usable,     \* the settings have a host, and TLS where they ask for it
  conn,       \* "none", "await" (Phase::AwaitConnAck) or "streaming"
  since,      \* since the connection was made, up to Prompt and one more
  quiet,      \* since data came, up to two Keepalives and one more
  mute,       \* since anything was sent, likewise
  wait, backoff,
  wanted,     \* MqttSource.topics
  subscribed, \* Conn.subscribed
  sent,       \* what the broker has not read
  arrived,    \* what the broker sent that was not read
  closed,     \* the broker has closed
  held,       \* the broker: the topics this client is subscribed to
  polled      \* history: a poll came after the last set_topics

link == <<since, quiet, mute, subscribed, sent, arrived, closed, held>>
vars == <<usable, conn, wait, backoff, wanted, polled, link>>

S == INSTANCE SpotSource
       WITH open <- conn # "none", connected <- conn = "streaming", Interval <- 0

AtMost(n, most) == IF n < most THEN n ELSE most
Less(n, spent) == IF n > spent THEN n - spent ELSE 0
Has(s, x) == \E i \in DOMAIN s : s[i] = x
Dead == 2 * Keepalive + 1

-----------------------------------------------------------------------------
(* The broker.                                                             *)

(* What the topics become once a packet is read.                           *)
After(topics, p) ==
  CASE p.op = "subscribe"   -> topics \cup p.topics
    [] p.op = "unsubscribe" -> topics \ p.topics
    [] OTHER                -> topics

(* What the broker will hold when it has read all that was sent.           *)
Settled ==
  LET f[i \in 0 .. Len(sent)] == IF i = 0 THEN held ELSE After(f[i - 1], sent[i])
  IN  f[Len(sent)]

Answers(op) ==
  CASE op = "connect"   -> {"ack", "refused"}
    [] op = "subscribe" -> {"suback", "subrefused"}
    [] OTHER            -> {"other"}

BrokerReads(answer) ==
  /\ conn # "none" /\ ~closed /\ sent # <<>> /\ Len(arrived) < Unread
  /\ answer \in Answers(Head(sent).op)
  /\ arrived' = Append(arrived, answer)
  /\ held' = IF answer = "subrefused" THEN held ELSE After(held, Head(sent))
  /\ sent' = Tail(sent)
  /\ UNCHANGED <<usable, conn, since, quiet, mute, wait, backoff, wanted,
                 subscribed, closed, polled>>

BrokerCloses ==
  /\ conn # "none" /\ ~closed
  /\ closed' = TRUE
  /\ UNCHANGED <<usable, conn, since, quiet, mute, wait, backoff, wanted,
                 subscribed, sent, arrived, held, polled>>

-----------------------------------------------------------------------------
(* The feed.                                                               *)

SetTopics(topics) ==
  /\ topics # wanted
  /\ wanted' = topics
  /\ polled' = FALSE
  /\ UNCHANGED <<usable, conn, wait, backoff, link>>

RetryNow ==
  /\ wait' = 0 /\ backoff' = First
  /\ UNCHANGED <<usable, conn, wanted, polled, link>>

-----------------------------------------------------------------------------
(* poll with no connection: try_connect.                                   *)

NotConnected == conn = "none" /\ wait = 0

SettingsUnusable ==
  /\ NotConnected /\ ~usable
  /\ wait' = Longest
  /\ UNCHANGED <<usable, conn, backoff, wanted, polled, link>>

(* No stream, a certificate not trusted, or CONNECT that cannot be sent.   *)
ConnectFails(spent) ==
  /\ NotConnected /\ usable
  /\ wait' = Less(backoff, spent)
  /\ backoff' = S!Doubled(backoff)
  /\ UNCHANGED <<usable, conn, wanted, polled, link>>

Connects(spent) ==
  /\ NotConnected /\ usable
  /\ conn' = "await"
  /\ since' = AtMost(spent, Prompt + 1) /\ quiet' = AtMost(spent, Dead)
  /\ mute' = 0
  /\ subscribed' = {}
  /\ sent' = <<[op |-> "connect", topics |-> {}]>> /\ arrived' = <<>>
  /\ closed' = FALSE /\ held' = {}
  /\ UNCHANGED <<usable, wait, backoff, wanted, polled>>

-----------------------------------------------------------------------------
(* poll with a connection: service, and fail for its errors.               *)

Failed ==
  /\ conn' = "none"
  /\ wait' = backoff
  /\ backoff' = S!Doubled(backoff)
  /\ subscribed' = {} /\ sent' = <<>> /\ arrived' = <<>>
  /\ closed' = FALSE /\ held' = {}
  /\ since' = 0 /\ quiet' = 0 /\ mute' = 0
  /\ UNCHANGED <<usable, wanted, polled>>

(* The end of the stream, or an error in reading or sending: what this     *)
(* poll read is lost.                                                      *)
Dropped == conn # "none" /\ closed /\ Failed

Silent(n) ==
  \/ conn = "await" /\ since > Prompt
  \/ conn = "streaming" /\ n = 0 /\ quiet > 2 * Keepalive

Ping == IF conn = "streaming" /\ mute > Keepalive \div 2
        THEN <<[op |-> "ping", topics |-> {}]>> ELSE <<>>

Request(op, topics) ==
  IF topics = {} THEN <<>> ELSE <<[op |-> op, topics |-> topics]>>

Resubscription ==
  Request("unsubscribe", subscribed \ wanted)
    \o Request("subscribe", wanted \ subscribed)

(* Mutant: a refused subscription is passed over.                          *)
RefusedLoosely(read) == Has(read, "refused")

Refused(read) == Has(read, "refused") \/ Has(read, "subrefused")

Service(n) ==
  LET read == SubSeq(arrived, 1, n)
      streaming == conn = "streaming" \/ Has(read, "ack")
      out == Ping \o IF streaming THEN Resubscription ELSE <<>>
  IN  /\ conn # "none"
      /\ IF Silent(n) \/ Refused(read) THEN Failed
         ELSE /\ Len(sent) + Len(out) <= Unread
              /\ conn' = IF streaming THEN "streaming" ELSE conn
              /\ backoff' = IF Has(read, "ack") THEN First ELSE backoff
              /\ arrived' = SubSeq(arrived, n + 1, Len(arrived))
              /\ quiet' = IF n > 0 THEN 0 ELSE quiet
              /\ mute' = IF out = <<>> THEN mute ELSE 0
              /\ sent' = sent \o out
              /\ subscribed' = IF streaming THEN wanted ELSE subscribed
              /\ polled' = TRUE
              /\ UNCHANGED <<usable, since, wait, wanted, closed, held>>

Poll ==
  \/ SettingsUnusable
  \/ \E spent \in {0, Slow} : ConnectFails(spent) \/ Connects(spent)
  \/ Dropped
  \/ \E n \in 0 .. Len(arrived) : Service(n)

Tick ==
  /\ wait' = Less(wait, 1)
  /\ since' = AtMost(since + 1, Prompt + 1)
  /\ quiet' = AtMost(quiet + 1, Dead)
  /\ mute' = AtMost(mute + 1, Dead)
  /\ UNCHANGED <<usable, conn, backoff, wanted, subscribed, sent, arrived,
                 closed, held, polled>>

-----------------------------------------------------------------------------
Init ==
  /\ usable \in BOOLEAN
  /\ conn = "none"
  /\ since = 0 /\ quiet = 0 /\ mute = 0
  /\ wait = 0 /\ backoff = First
  /\ wanted = {} /\ subscribed = {}
  /\ sent = <<>> /\ arrived = <<>> /\ closed = FALSE /\ held = {}
  /\ polled = TRUE

Next ==
  \/ \E answer \in UNION {Answers(op) : op \in {"connect", "subscribe", "ping"}} :
       BrokerReads(answer)
  \/ BrokerCloses
  \/ \E topics \in SUBSET Topics : SetTopics(topics)
  \/ RetryNow
  \/ Poll
  \/ Tick

Spec == Init /\ [][Next]_vars

-----------------------------------------------------------------------------
(* Properties.                                                             *)

TypeOK ==
  /\ usable \in BOOLEAN /\ closed \in BOOLEAN /\ polled \in BOOLEAN
  /\ conn \in {"none", "await", "streaming"}
  /\ since \in 0 .. Prompt + 1 /\ quiet \in 0 .. Dead /\ mute \in 0 .. Dead
  /\ wait \in Nat /\ backoff \in Nat
  /\ wanted \subseteq Topics /\ subscribed \subseteq Topics /\ held \subseteq Topics
  /\ sent \in Seq([op : {"connect", "ping", "subscribe", "unsubscribe"},
                   topics : SUBSET Topics])
  /\ arrived \in Seq(STRING)

(* While it counts as connected, what the broker will send is what the     *)
(* view wants: every poll brings the broker's own set there, whichever     *)
(* requests crossed and however often the view moved before the broker     *)
(* read them.  A refusal under way ends the connection (FR-SPOT-05,        *)
(* mqtt_source.rs:439).                                                    *)
BrokerKnowsWanted ==
  (conn = "streaming" /\ polled /\ ~Has(arrived, "subrefused"))
    => Settled = wanted

(* It keeps the promise of every source.                                   *)
KeepsItsWord == S!Spec
=============================================================================
