------------------------------ MODULE StreamsMC ------------------------------
(***************************************************************************)
(* What comes and goes beside the session, for TLC, each a part of one     *)
(* run: the two directions of audio; the four kinds of spot source, the    *)
(* worker that runs them and the store they fill; the lookups of the       *)
(* logging form and the keychain of its token.  They share no state in the *)
(* code.  A behaviour is of one part; the others' variables stay None.     *)
(***************************************************************************)
EXTENDS Naturals, Sequences

CONSTANTS
  RingMax, Rekeys, Numbers, Sends, Restarts, Spread, Burst, Batch,
  First, Longest, Interval, Deadline, Requests, Prompt, Idle, Keepalive,
  Watchdog, Refresh, Slow, Unread, Topics, Stations,
  Calls, Freqs, Tolerance, Capacity, Latest, MaxAge, Heard,
  Slots, Settings, Windows, Counted, Waiting,
  Servers, Keys, Entered, Asked, None

VARIABLES
  part,
  owner, cat_audio, rings, tx_source, out, rested,
  next, pending, room, stream, counter, flight, burst, last, newest, late,
  wait, backoff,
  job, age, ok, threads, sunk, given_up,
  usable, conn, since, quiet, arrived, closed,
  logins, early,
  mute, wanted, subscribed, sent, polled,
  aged, roster, session, there, told, restamped,
  spots, now, heard,
  wish, commands, at, slots, window, counted, cache, published, failing,
  key, settled, off, requests, looking, answer, testing, report, station,
  seen_test, url, token, typed, keychain, writes, apart,
  asked, held   \* of two parts each

transmitted == <<owner, cat_audio, rings, tx_source, out, rested>>
received == <<next, pending, room, stream, counter, flight, burst, last,
              newest, late>>
attempt == <<wait, backoff>>
polling == <<job, age, ok, threads, sunk, given_up>>
line == <<usable, conn, since, quiet, arrived, closed>>
telnet == <<logins, early>>
mqtt == <<mute, wanted, subscribed, sent, polled>>
freedv == <<aged, roster, session, there, told, restamped>>
store == <<spots, now, heard>>
feed == <<wish, commands, at, slots, window, counted, cache, published, failing>>
form == <<key, settled, off, requests, looking, answer, testing, report,
          station, seen_test>>
setup == <<url, token, typed>>
chain == <<keychain, writes, apart>>
vars == <<part, transmitted, received, attempt, polling, line, telnet, mqtt,
          freedv, store, feed, form, setup, chain, asked, held>>

A == INSTANCE TxAudio
J == INSTANCE Jitter
P == INSTANCE PolledSource
T == INSTANCE TelnetSource
M == INSTANCE MqttSource
F == INSTANCE FreeDvSource
D == INSTANCE SpotStore
W == INSTANCE SpotFeed
L == INSTANCE LogForm
K == INSTANCE LogToken

PS == INSTANCE SpotSource WITH open <- job # None, connected <- ok
TS == INSTANCE SpotSource
        WITH open <- conn # "none", connected <- conn = "streaming", Interval <- 0
FS == INSTANCE SpotSource
        WITH open <- conn # "none", connected <- conn = "live", Interval <- 0

(* The variables of the parts a behaviour is not of.                       *)
NoTransmitted == owner = None /\ cat_audio = None /\ rings = None
                 /\ tx_source = None /\ out = None /\ rested = None
NoReceived == next = None /\ pending = None /\ room = None /\ stream = None
              /\ counter = None /\ flight = None /\ burst = None /\ last = None
              /\ newest = None /\ late = None
NoAttempt == wait = None /\ backoff = None
NoPolling == job = None /\ age = None /\ ok = None /\ threads = None
             /\ sunk = None /\ given_up = None
NoLine == usable = None /\ conn = None /\ since = None /\ quiet = None
          /\ arrived = None /\ closed = None
NoTelnet == logins = None /\ early = None
NoMqtt == mute = None /\ wanted = None /\ subscribed = None /\ sent = None
          /\ polled = None
NoFreedv == aged = None /\ roster = None /\ session = None /\ there = None
            /\ told = None /\ restamped = None
NoStore == spots = None /\ now = None /\ heard = None
NoFeed == wish = None /\ commands = None /\ at = None /\ slots = None
          /\ window = None /\ counted = None /\ cache = None /\ published = None
          /\ failing = None
NoForm == key = None /\ settled = None /\ off = None /\ requests = None
          /\ looking = None /\ answer = None /\ testing = None /\ report = None
          /\ station = None /\ seen_test = None
NoSetup == url = None /\ token = None /\ typed = None
NoChain == keychain = None /\ writes = None /\ apart = None
NoAsked == asked = None
NoHeld == held = None

Init ==
  \/ /\ part = "transmit" /\ A!Init
     /\ NoReceived /\ NoAttempt /\ NoPolling /\ NoLine /\ NoTelnet /\ NoMqtt
     /\ NoFreedv /\ NoStore /\ NoFeed /\ NoForm /\ NoSetup /\ NoChain
     /\ NoAsked /\ NoHeld
  \/ /\ part = "receive" /\ J!Init
     /\ NoTransmitted /\ NoAttempt /\ NoPolling /\ NoLine /\ NoTelnet
     /\ NoMqtt /\ NoFreedv /\ NoStore /\ NoFeed /\ NoForm /\ NoSetup
     /\ NoChain /\ NoAsked /\ NoHeld
  \/ /\ part = "polled" /\ P!Init
     /\ NoTransmitted /\ NoReceived /\ NoLine /\ NoTelnet /\ NoMqtt
     /\ NoFreedv /\ NoStore /\ NoFeed /\ NoForm /\ NoSetup /\ NoChain
     /\ NoHeld
  \/ /\ part = "telnet" /\ T!Init
     /\ NoTransmitted /\ NoReceived /\ NoPolling /\ NoMqtt /\ NoFreedv
     /\ NoStore /\ NoFeed /\ NoForm /\ NoSetup /\ NoChain /\ NoAsked
     /\ NoHeld
  \/ /\ part = "mqtt" /\ M!Init
     /\ NoTransmitted /\ NoReceived /\ NoPolling /\ NoTelnet /\ NoFreedv
     /\ NoStore /\ NoFeed /\ NoForm /\ NoSetup /\ NoChain /\ NoAsked
  \/ /\ part = "freedv" /\ F!Init
     /\ NoTransmitted /\ NoReceived /\ NoPolling /\ NoTelnet /\ NoMqtt
     /\ NoStore /\ NoFeed /\ NoForm /\ NoSetup /\ NoChain /\ NoAsked
     /\ NoHeld
  \/ /\ part = "store" /\ D!Init
     /\ NoTransmitted /\ NoReceived /\ NoAttempt /\ NoPolling /\ NoLine
     /\ NoTelnet /\ NoMqtt /\ NoFreedv /\ NoFeed /\ NoForm /\ NoSetup
     /\ NoChain /\ NoAsked /\ NoHeld
  \/ /\ part = "feed" /\ W!Init
     /\ NoTransmitted /\ NoReceived /\ NoAttempt /\ NoPolling /\ NoLine
     /\ NoTelnet /\ NoMqtt /\ NoFreedv /\ NoStore /\ NoForm /\ NoSetup
     /\ NoChain /\ NoAsked /\ NoHeld
  \/ /\ part = "form" /\ L!Init
     /\ NoTransmitted /\ NoReceived /\ NoAttempt /\ NoPolling /\ NoLine
     /\ NoTelnet /\ NoMqtt /\ NoFreedv /\ NoStore /\ NoFeed /\ NoChain
  \/ /\ part = "keychain" /\ K!Init
     /\ NoTransmitted /\ NoReceived /\ NoAttempt /\ NoPolling /\ NoLine
     /\ NoTelnet /\ NoMqtt /\ NoFreedv /\ NoStore /\ NoFeed /\ NoForm
     /\ NoAsked /\ NoHeld

Next ==
  \/ /\ part = "transmit" /\ A!Next
     /\ UNCHANGED <<part, received, attempt, polling, line, telnet, mqtt,
                    freedv, store, feed, form, setup, chain, asked, held>>
  \/ /\ part = "receive" /\ J!Next
     /\ UNCHANGED <<part, transmitted, attempt, polling, line, telnet, mqtt,
                    freedv, store, feed, form, setup, chain, asked, held>>
  \/ /\ part = "polled" /\ P!Next
     /\ UNCHANGED <<part, transmitted, received, line, telnet, mqtt, freedv,
                    store, feed, form, setup, chain, held>>
  \/ /\ part = "telnet" /\ T!Next
     /\ UNCHANGED <<part, transmitted, received, polling, mqtt, freedv, store,
                    feed, form, setup, chain, asked, held>>
  \/ /\ part = "mqtt" /\ M!Next
     /\ UNCHANGED <<part, transmitted, received, polling, telnet, freedv,
                    store, feed, form, setup, chain, asked>>
  \/ /\ part = "freedv" /\ F!Next
     /\ UNCHANGED <<part, transmitted, received, polling, telnet, mqtt, store,
                    feed, form, setup, chain, asked, held>>
  \/ /\ part = "store" /\ D!Next
     /\ UNCHANGED <<part, transmitted, received, attempt, polling, line,
                    telnet, mqtt, freedv, feed, form, setup, chain, asked, held>>
  \/ /\ part = "feed" /\ W!Next
     /\ UNCHANGED <<part, transmitted, received, attempt, polling, line,
                    telnet, mqtt, freedv, store, form, setup, chain, asked,
                    held>>
  \/ /\ part = "form" /\ L!Next
     /\ UNCHANGED <<part, transmitted, received, attempt, polling, line,
                    telnet, mqtt, freedv, store, feed, chain>>
  \/ /\ part = "keychain" /\ K!Next
     /\ UNCHANGED <<part, transmitted, received, attempt, polling, line,
                    telnet, mqtt, freedv, store, feed, form, asked, held>>

Spec == Init /\ [][Next]_vars

(* See TxAudio: what goes out was captured since the key, by the source of *)
(* who holds it (worker.rs:1809).                                          *)
OnlyWhatWasMeant == part = "transmit" => A!OnlyWhatWasMeant

(* See Jitter: what waits is ahead of what is expected (jitter.rs:48).     *)
WaitingIsAhead == part = "receive" => J!WaitingIsAhead

(* See Jitter: frames of one stream are played once and in order.          *)
PlayedInOrder ==
  [][ (part = "receive" /\ stream.of = 0 /\ last # None) => last'.n > last.n ]_last

(* See Jitter: a stream that looks late is heard again within half a turn  *)
(* of the counter and what the frames still waiting take.                  *)
HeardAgain == part = "receive" => J!HeardAgain

(* Every source keeps the promise of SpotSource: it waits out the back-off *)
(* after what was open fails, doubles it up to the longest, starts it over *)
(* only when it was let in or the operator asks, and a request answered is *)
(* followed by the interval (FR-SPOT-07, FR-SPOT-08).                      *)
SourcesKeepTheirWord ==
  /\ part = "polled" => PS!Init
  /\ part \in {"telnet", "mqtt"} => TS!Init
  /\ part = "freedv" => FS!Init
  /\ [][ /\ part = "polled" => [PS!Next]_(PS!vars)
         /\ part \in {"telnet", "mqtt"} => [TS!Next]_(TS!vars)
         /\ part = "freedv" => [FS!Next]_(FS!vars) ]_vars

(* What a source delivers is of the request, the login and the session it  *)
(* is in: no answer of a request given up, no line of before the login, no *)
(* station of an older session (polled.rs:224, telnet.rs:294,              *)
(* freedv_source.rs:245).                                                  *)
DeliversItsOwn ==
  /\ part = "polled" => P!NoLateAnswer
  /\ part = "telnet" => T!LoginThenSpots
  /\ part = "freedv" => F!OnlyWhoIsThere

(* What the broker will send is what the view wants (mqtt_source.rs:439).  *)
BrokerKnowsWanted == part = "mqtt" => M!BrokerKnowsWanted

(* The newest word of a station is never lost to an older one.             *)
FreshestSurvive == part = "store" => D!FreshestSurvive

(* When a pass of the worker is over, everything is as the window sent it  *)
(* last, and a network that failed shows so.                               *)
PublishesWhatIs == part = "feed" => W!PublishesWhatIs

(* See LogForm: a lookup goes where its token belongs, and never with one  *)
(* whose refusal has come (wavelog.rs:739).                                *)
DeadTokenRests ==
  [][ (part = "form" /\ Len(requests') > Len(requests)) =>
        LET r == requests'[Len(requests')]
        IN  /\ r.token.of = r.server
            /\ (answer # None /\ answer.is = "refused") => r.token # answer.to.token ]_vars

(* See LogToken: when the threads are done, the keychain has the token of  *)
(* the form, unless one began beside another or was refused                *)
(* (wavelog.rs:218).                                                       *)
KeychainFollows == part = "keychain" => K!KeychainFollows
=============================================================================
