----------------------------- MODULE CertTrust ------------------------------
(***************************************************************************)
(* Encrypted spot networks (FR-SPOT-13): the connector of src/app/src/tls  *)
(* with its list of approved certificates, one source that uses it, and    *)
(* the operator who approves a certificate and withdraws an approval.      *)
(*                                                                         *)
(* Three actors see different moments: the source refused a certificate,   *)
(* the window shows the status of its last tick as it was last drawn, and  *)
(* a click is handled after it was made.  A server may change its          *)
(* certificate, and the operator the server, at any time.                  *)
(*                                                                         *)
(* Bounds: Clicks clicks in one batch of events, Sent commands waiting.    *)
(***************************************************************************)
EXTENDS Naturals, Sequences, SequencesExt

CONSTANTS
  Places,     \* a host and a port
  Certs,
  Public,     \* those the public authorities vouch for
  Most,       \* MAX_TRUSTED_CERTS
  Clicks, Sent, None

VARIABLES
  serves,     \* what each place presents
  place,      \* the settings in the window
  asked,      \* SpotSent: the settings last sent
  commands,   \* the channel to the worker
  source,     \* the source: its place and pending_cert
  conn,       \* the certificate of its connection, or None
  waits,      \* next_attempt is in the future
  shown,      \* App.spot_status_ui: the prompt as of the last tick
  trusted,    \* SpotNetworks.trusted_certs and, synced with it, the Pins
  drawn,      \* the window as laid out: the prompt and the list
  clicks,     \* clicks not handled
  approved,   \* history: what the operator approved and did not withdraw
  refused     \* history: the certificates refused, with their place

vars == <<serves, place, asked, commands, source, conn, waits, shown, trusted,
          drawn, clicks, approved, refused>>

Pins == [place : Places, cert : Certs]
Listed == {trusted[i] : i \in DOMAIN trusted}

-----------------------------------------------------------------------------
(* The server and the operator.                                            *)

ServerChanges(p, c) ==
  /\ serves' = [serves EXCEPT ![p] = c]
  /\ UNCHANGED <<place, asked, commands, source, conn, waits, shown, trusted,
                 drawn, clicks, approved, refused>>

OperatorMoves(p) ==
  /\ p # place /\ place' = p
  /\ UNCHANGED <<serves, asked, commands, source, conn, waits, shown, trusted,
                 drawn, clicks, approved, refused>>

(* A click on what is drawn: the prompt's button or one of the list.       *)
ClickTrust ==
  /\ drawn.prompt # None /\ Len(clicks) < Clicks
  /\ clicks' = Append(clicks, [on |-> "trust", cert |-> drawn.prompt.cert])
  /\ approved' = approved \cup {[place |-> p, cert |-> drawn.prompt.cert] : p \in Places}
  /\ UNCHANGED <<serves, place, asked, commands, source, conn, waits, shown,
                 trusted, drawn, refused>>

ClickForget(i) ==
  /\ i \in DOMAIN drawn.list /\ Len(clicks) < Clicks
  /\ clicks' = Append(clicks, [on |-> "forget", index |-> i, meant |-> drawn.list[i]])
  /\ UNCHANGED <<serves, place, asked, commands, source, conn, waits, shown,
                 trusted, drawn, approved, refused>>

-----------------------------------------------------------------------------
(* The window.                                                             *)

(* It is drawn again after a message, unless events of the same batch wait.*)
Redraw == drawn' = IF clicks' = <<>> THEN [prompt |-> shown', list |-> trusted'] ELSE drawn

(* cert_to_trust                                                           *)
Names(c) == shown # None /\ shown.cert = c

(* Message::TrustSpotCert with SpotNetworks::trust.                        *)
HandleTrust ==
  /\ clicks # <<>> /\ Head(clicks).on = "trust"
  /\ clicks' = Tail(clicks)
  /\ IF Names(Head(clicks).cert) /\ shown \notin Listed /\ Len(trusted) < Most
     THEN /\ Len(commands) < Sent
          /\ trusted' = Append(trusted, shown)
          /\ commands' = Append(commands, [do |-> "retry"])
     ELSE UNCHANGED <<trusted, commands>>
  /\ UNCHANGED <<serves, place, asked, source, conn, waits, shown, approved,
                 refused>>
  /\ Redraw

(* Message::ForgetSpotCert: by its place in the list.                      *)
HandleForget ==
  /\ clicks # <<>> /\ Head(clicks).on = "forget"
  /\ clicks' = Tail(clicks)
  /\ trusted' = IF Head(clicks).index \in DOMAIN trusted
                THEN RemoveAt(trusted, Head(clicks).index) ELSE trusted
  /\ approved' = approved \ {Head(clicks).meant}
  /\ UNCHANGED <<serves, place, asked, commands, source, conn, waits, shown,
                 refused>>
  /\ Redraw

(* Message::Tick: the status is copied and changed settings are sent.      *)
UiTick ==
  /\ shown' = source.pending
  /\ asked' = place
  /\ IF asked = place THEN UNCHANGED commands
     ELSE /\ Len(commands) < Sent
          /\ commands' = Append(commands, [do |-> "configure", place |-> place])
  /\ UNCHANGED <<serves, place, source, conn, waits, trusted, clicks, approved,
                 refused>>
  /\ Redraw

-----------------------------------------------------------------------------
(* The worker and its source.                                              *)

TakesCommand ==
  /\ commands # <<>>
  /\ commands' = Tail(commands)
  /\ waits' = FALSE
  /\ IF Head(commands).do = "configure" /\ Head(commands).place # source.place
     THEN /\ source' = [place |-> Head(commands).place, pending |-> None]
          /\ conn' = None
     ELSE UNCHANGED <<source, conn>>
  /\ UNCHANGED <<serves, place, asked, shown, trusted, drawn, clicks, approved,
                 refused>>

(* Mutant: an approval of a certificate is good for every place.           *)
AcceptedAnywhere(p, c) == c \in Public \/ \E pin \in Listed : pin.cert = c

(* PinVerifier::verify_server_cert                                         *)
Accepted(p, c) == c \in Public \/ [place |-> p, cert |-> c] \in Listed

(* An attempt whose handshake comes to the certificate.                    *)
Handshake ==
  LET p == source.place
      c == serves[p]
  IN  /\ conn = None /\ ~waits
      /\ IF Accepted(p, c)
         THEN /\ conn' = c
              /\ source' = [source EXCEPT !.pending = None]
              /\ UNCHANGED <<waits, refused>>
         ELSE /\ source' = [source EXCEPT !.pending = [place |-> p, cert |-> c]]
              /\ refused' = refused \cup {[place |-> p, cert |-> c]}
              /\ waits' = TRUE
              /\ UNCHANGED conn
      /\ UNCHANGED <<serves, place, asked, commands, shown, trusted, drawn,
                     clicks, approved>>

(* An attempt that fails for another reason, or a connection that is lost. *)
Lost ==
  /\ ~waits \/ conn # None
  /\ conn' = None /\ waits' = TRUE
  /\ UNCHANGED <<serves, place, asked, commands, source, shown, trusted, drawn,
                 clicks, approved, refused>>

WaitIsOver ==
  /\ waits /\ waits' = FALSE
  /\ UNCHANGED <<serves, place, asked, commands, source, conn, shown, trusted,
                 drawn, clicks, approved, refused>>

-----------------------------------------------------------------------------
Init ==
  /\ serves \in [Places -> Certs]
  /\ place \in Places /\ asked = place
  /\ commands = <<>>
  /\ source = [place |-> place, pending |-> None]
  /\ conn = None /\ waits = FALSE
  /\ shown = None /\ trusted = <<>>
  /\ drawn = [prompt |-> None, list |-> <<>>] /\ clicks = <<>>
  /\ approved = {} /\ refused = {}

Next ==
  \/ \E p \in Places, c \in Certs : ServerChanges(p, c)
  \/ \E p \in Places : OperatorMoves(p)
  \/ ClickTrust
  \/ \E i \in 1 .. Most : ClickForget(i)
  \/ HandleTrust \/ HandleForget \/ UiTick
  \/ TakesCommand \/ Handshake \/ Lost \/ WaitIsOver

Spec == Init /\ [][Next]_vars

-----------------------------------------------------------------------------
(* Properties.                                                             *)

TypeOK ==
  /\ serves \in [Places -> Certs]
  /\ place \in Places /\ asked \in Places
  /\ source \in [place : Places, pending : Pins \cup {None}]
  /\ conn \in Certs \cup {None} /\ waits \in BOOLEAN
  /\ shown \in Pins \cup {None}
  /\ trusted \in Seq(Pins) /\ Len(trusted) <= Most
  /\ approved \subseteq Pins /\ refused \subseteq Pins

(* A connection opens only with a certificate the public authorities vouch *)
(* for, or one that was refused at that very place and that the operator   *)
(* approved after seeing it, and has not withdrawn: though the server, the *)
(* settings and the prompt change between the refusal, the drawing and the *)
(* click (FR-SPOT-13, main.rs:3838).                                       *)
OnlyTrusted ==
  [][ (conn' # None /\ conn' # conn) =>
        \/ conn' \in Public
        \/ [place |-> source.place, cert |-> conn'] \in approved \cap refused ]_vars
=============================================================================
