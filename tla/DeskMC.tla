------------------------------- MODULE DeskMC --------------------------------
(***************************************************************************)
(* What the operator's desk has beside the connection, for TLC, each a     *)
(* part of one run: the certificates approved, the amplifier's tune, the   *)
(* push-to-talk hotkey, and the sockets of the CAT server.  A behaviour is *)
(* of one part; the others' variables stay None.  The certificates no      *)
(* public authority vouches for are interchangeable.                       *)
(***************************************************************************)
EXTENDS Naturals, Sequences, TLC

CONSTANTS
  Places, Certs, Public, Most, Clicks,
  Timeout, Sent,
  Keys, Waiting,
  Clients, MaxClients, OutQueue, Untold,
  None

VARIABLES
  part,
  serves, place, asked, commands, source, conn, waits, shown, trusted, drawn,
  clicks, approved, refused,
  seen, to_k4, k4,
  tune, enabled, want, to_kpa, target, stream, shared, arrives, replies,
  searching,
  events,
  held, shift, hotkey, capturing, down, keyed, toggles, by,
  peers, lines, shut, left, accepting, reader, writer, known, stop

certs == <<serves, place, asked, commands, source, conn, waits, shown, trusted,
           drawn, clicks, approved, refused>>
radio == <<seen, to_k4, k4>>
amp == <<tune, enabled, want, to_kpa, target, stream, shared, arrives, replies,
         searching>>
ptt == <<held, shift, hotkey, capturing, down, keyed, toggles, by>>
server == <<peers, lines, shut, left, accepting, reader, writer, known, stop>>
vars == <<part, certs, radio, amp, events, ptt, server>>

C == INSTANCE CertTrust WITH Sent <- 1
A == INSTANCE AmpTune
P == INSTANCE Ptt
S == INSTANCE CatServer

Symmetric == Permutations(Certs \ Public)

(* The variables of the parts a behaviour is not of.                       *)
NoCerts == serves = None /\ place = None /\ asked = None /\ commands = None
           /\ source = None /\ conn = None /\ waits = None /\ shown = None
           /\ trusted = None /\ drawn = None /\ clicks = None
           /\ approved = None /\ refused = None
NoRadio == seen = None /\ to_k4 = None /\ k4 = None
NoAmp == tune = None /\ enabled = None /\ want = None /\ to_kpa = None
         /\ target = None /\ stream = None /\ shared = None
         /\ arrives = None /\ replies = None /\ searching = None
NoPtt == held = None /\ shift = None /\ hotkey = None /\ capturing = None
         /\ down = None /\ keyed = None /\ toggles = None /\ by = None
NoServer == peers = None /\ lines = None /\ shut = None /\ left = None
            /\ accepting = None /\ reader = None /\ writer = None
            /\ known = None /\ stop = None
NoEvents == events = None

Init ==
  \/ part = "certs" /\ C!Init /\ NoRadio /\ NoAmp /\ NoEvents /\ NoPtt /\ NoServer
  \/ part = "amp" /\ A!Init /\ NoCerts /\ NoEvents /\ NoPtt /\ NoServer
  \/ part = "ptt" /\ P!Init /\ NoCerts /\ NoAmp /\ NoServer
  \/ part = "server" /\ S!Init /\ NoCerts /\ NoRadio /\ NoAmp /\ NoPtt

Next ==
  \/ part = "certs" /\ C!Next /\ UNCHANGED <<part, radio, amp, events, ptt, server>>
  \/ part = "amp" /\ A!Next /\ UNCHANGED <<part, certs, events, ptt, server>>
  \/ part = "ptt" /\ P!Next /\ UNCHANGED <<part, certs, amp, server>>
  \/ part = "server" /\ S!Next /\ UNCHANGED <<part, certs, radio, amp, ptt>>

Spec == Init /\ [][Next]_vars

(* An encrypted connection opens only with a certificate the authorities   *)
(* vouch for or the operator approved after it was refused at that place   *)
(* (FR-SPOT-13, main.rs:3838).                                             *)
OnlyTrusted ==
  [][ (part = "certs" /\ conn' # None /\ conn' # conn) =>
        \/ conn' \in Public
        \/ [place |-> source.place, cert |-> conn'] \in approved \cap refused ]_vars

(* A carrier keyed for the amplifier always has its end: one is on its way *)
(* or the window still knows of the tune, within its limit (main.rs:4257). *)
NeverStranded == part = "amp" => A!NeverStranded

(* A transmission the hotkey holds ends with the hold (main.rs:3436).      *)
HoldEnds == part = "ptt" => P!HoldEnds

(* The worker is told of the end of every client it heard of, once and     *)
(* last, whoever closed it; no more are taken than the limit               *)
(* (server.rs:112).                                                        *)
EveryEndIsTold == part = "server" => S!EveryEndIsTold
=============================================================================
