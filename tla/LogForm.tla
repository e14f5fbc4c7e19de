------------------------------ MODULE LogForm -------------------------------
(***************************************************************************)
(* The logging form and its settings (src/app/src/log_ui.rs) with what     *)
(* runs beside the window: the callsign lookup's thread and the Test of    *)
(* the logging worker (src/app/src/wavelog.rs).  Each answers later than   *)
(* it was asked, and the settings may have changed meanwhile.  The token's *)
(* keychain is in LogToken.                                                *)
(*                                                                         *)
(* A lookup's key stands for the call, the band and the mode.  A token     *)
(* carries, unseen by the code, the server it was entered for; a station   *)
(* location the server whose list it is of.                                *)
(*                                                                         *)
(* External: the servers, the radio and the operator.                      *)
(* Bounds: Entered tokens typed, Asked lookups waiting; one Test at once.  *)
(***************************************************************************)
EXTENDS Naturals, Sequences, SequencesExt

CONSTANTS Servers, Keys, Entered, Asked, None

VARIABLES
  url, token, station,   \* prefs.url, .token and prefs.station_id
  typed,      \* how many tokens were typed
  key,        \* lookup_key of the form as it is, None if there is none
  settled,    \* LOOKUP_SETTLE has passed since the call was edited
  held,       \* the view: paused or unreachable
  asked,      \* LogUi.asked
  off,        \* LogUi.lookup_off: None or the request that was refused
  requests,   \* the channel to the lookup thread
  looking,    \* what the lookup thread asks about, or None
  answer,     \* LookupHandle: None or [to, is]
  testing,    \* the server and token a Test is at, or None
  report,     \* Status.test: None or [of, lists]
  seen_test

vars == <<url, token, station, typed, key, settled, held, asked, off, requests,
          looking, answer, testing, report, seen_test>>

settings == <<url, token, station, typed>>
form == <<key, settled>>
lookups == <<asked, off>>
thread == <<requests, looking, answer>>
tests == <<testing, report>>

Setup == <<url, token, station>>
Ready == url # None /\ token # None /\ station # None
NewSetup == Setup' # Setup

(* log_update's end: another setup may look up again.                      *)
Reconfigured ==
  /\ off' = IF NewSetup THEN None ELSE off
  /\ asked' = IF NewSetup THEN None ELSE asked

-----------------------------------------------------------------------------
(* The settings.                                                           *)

(* LogMsg::UrlSave: another server takes token and station location away.  *)
UrlSave(s) ==
  /\ s # url
  /\ url' = s /\ token' = None /\ station' = None
  /\ Reconfigured
  /\ UNCHANGED <<typed, form, held, thread, tests, seen_test>>

TokenSave ==
  /\ url # None /\ typed < Entered
  /\ typed' = typed + 1
  /\ token' = [n |-> typed', of |-> url]
  /\ UNCHANGED <<url, station>>
  /\ Reconfigured
  /\ UNCHANGED <<form, held, thread, tests, seen_test>>

TokenForget ==
  /\ token' = None
  /\ UNCHANGED <<url, station>>
  /\ Reconfigured
  /\ UNCHANGED <<typed, form, held, thread, tests, seen_test>>

Test ==
  /\ url # None /\ token # None /\ testing = None
  /\ testing' = [server |-> url, token |-> token]
  /\ UNCHANGED <<settings, form, held, lookups, thread, report, seen_test>>

(* Worker::test, whatever the server answers.                              *)
TestEnds(lists) ==
  /\ testing # None
  /\ report' = [of |-> testing.server, lists |-> lists]
  /\ testing' = None
  /\ UNCHANGED <<settings, form, held, lookups, thread, seen_test>>

-----------------------------------------------------------------------------
(* The form and the tick.                                                  *)

(* LogMsg::Call, Log and Clear, a spot clicked: the call is another.       *)
Typed(k) ==
  /\ key' = k /\ settled' = FALSE
  /\ UNCHANGED <<settings, held, lookups, thread, tests, seen_test>>

(* The radio or the digital mode changes the key, not the call.            *)
RadioMoves(k) ==
  /\ key # None /\ key' = k
  /\ UNCHANGED <<settings, settled, held, lookups, thread, tests, seen_test>>

Settles ==
  /\ settled' = TRUE
  /\ UNCHANGED <<settings, key, held, lookups, thread, tests, seen_test>>

(* take_lookup_answer                                                      *)
Off == IF answer # None /\ answer.is = "refused" THEN answer.to ELSE off

(* Mutant: the answer is taken after the next lookup is asked.             *)
IsDueBefore ==
  off = None /\ ~held /\ settled /\ key # None /\ key # asked /\ Ready

(* lookup_request                                                          *)
IsDue ==
  Off = None /\ ~held /\ settled /\ key # None /\ key # asked /\ Ready

LookupTick ==
  /\ off' = Off
  /\ IF IsDue
     THEN /\ Len(requests) < Asked
          /\ asked' = key
          /\ requests' = Append(requests, [key |-> key, server |-> url, token |-> token])
     ELSE UNCHANGED <<asked, requests>>

(* log_tick: the worker's status, the lookup, and a report that is new.    *)
Tick ==
  /\ held' \in BOOLEAN
  /\ LookupTick
  /\ seen_test' = report
  /\ station' = IF report # seen_test /\ report # None /\ report.lists
                THEN report.of ELSE station
  /\ UNCHANGED <<url, token, typed, form, looking, answer, tests>>

-----------------------------------------------------------------------------
(* The lookup thread: the newest request waiting.                          *)

LooksUp ==
  /\ looking = None /\ requests # <<>>
  /\ looking' = Last(requests) /\ requests' = <<>>
  /\ UNCHANGED <<settings, form, held, lookups, answer, tests, seen_test>>

Answered(is) ==
  /\ looking # None
  /\ answer' = [to |-> looking, is |-> is]
  /\ looking' = None
  /\ UNCHANGED <<settings, form, held, lookups, requests, tests, seen_test>>

-----------------------------------------------------------------------------
Init ==
  /\ url = None /\ token = None /\ station = None /\ typed = 0
  /\ key = None /\ settled = FALSE /\ held = FALSE
  /\ asked = None /\ off = None
  /\ requests = <<>> /\ looking = None /\ answer = None
  /\ testing = None /\ report = None /\ seen_test = None

Next ==
  \/ \E s \in Servers : UrlSave(s)
  \/ TokenSave \/ TokenForget \/ Test
  \/ \E lists \in BOOLEAN : TestEnds(lists)
  \/ \E k \in Keys \cup {None} : Typed(k)
  \/ \E k \in Keys : RadioMoves(k)
  \/ Settles \/ Tick
  \/ LooksUp
  \/ \E is \in {"found", "failed", "refused"} : Answered(is)

Spec == Init /\ [][Next]_vars

-----------------------------------------------------------------------------
(* Properties.                                                             *)

Tokens == [n : 1 .. Entered, of : Servers]
Lookups == [key : Keys, server : Servers, token : Tokens]

(* The types of the variables.                                             *)
TypeOK ==
  /\ url \in Servers \cup {None} /\ token \in Tokens \cup {None}
  /\ station \in Servers \cup {None}
  /\ key \in Keys \cup {None} /\ {settled, held} \subseteq BOOLEAN
  /\ asked \in Keys \cup {None} /\ off \in Lookups \cup {None}
  /\ requests \in Seq(Lookups) /\ looking \in Lookups \cup {None}

(* A lookup goes to the server its token was entered for, and never with a *)
(* token whose refusal has come, whatever else is typed, saved or answered *)
(* meanwhile: a dead token is not sent on every call (wavelog.rs:739).     *)
DeadTokenRests ==
  [][ Len(requests') > Len(requests) =>
        LET r == Last(requests')
        IN  /\ r.token.of = r.server
            /\ (answer # None /\ answer.is = "refused") => r.token # answer.to.token ]_vars

(* log_ui.rs:90 and 244: the lookup is off until the URL or the token      *)
(* changes.  The code does not keep this: the refusal stays in the         *)
(* lookup thread's handle, and the next tick takes it again.               *)
OffForThisSetup ==
  off # None => off.server = url /\ off.token = token

(* The station location is one of the server that QSOs are sent to.  The   *)
(* code does not keep this: a Test begun before the URL changed fills in   *)
(* the old server's.                                                       *)
StationOfServer == station # None => station = url

(* The report of a Test of this server is taken.  The code does not keep   *)
(* this: one equal to the report taken last is passed over, though the URL *)
(* was changed and changed back meanwhile and the location is gone.        *)
ReportTaken ==
  [][ (testing # None /\ testing' = None /\ report'.lists /\ report'.of = url)
        => station # None \/ report' # seen_test ]_vars
=============================================================================
