--------------------------- MODULE TransmitOwner ---------------------------
(***************************************************************************)
(* What the transmit interlock of crates/k4-session promises, with no      *)
(* timer, no wire and no flag: the transmitter belongs to nobody, to the   *)
(* operator or to a CAT client, and two licences decide who may take it.   *)
(*                                                                         *)
(*   armed   the operator armed transmit (FR-TX-SAFE-03);                  *)
(*   opt_in  "CAT clients may transmit" (FR-CATSRV-10), a licence within   *)
(*           the first;                                                    *)
(*   link    the link to the radio is believed up.                         *)
(*                                                                         *)
(* Session implements this module (Session!OwnerSpec, proved in            *)
(* SessionProofs).                                                         *)
(***************************************************************************)
VARIABLES owner, armed, opt_in, link

vars == <<owner, armed, opt_in, link>>

Owners == {"nobody", "operator", "client"}

Init ==
  /\ owner = "nobody"
  /\ armed = FALSE
  /\ opt_in = FALSE
  /\ link = TRUE

(* Without its licences a client's transmit does not survive; the          *)
(* operator's own does.                                                    *)
Evicted == IF owner = "client" THEN "nobody" ELSE owner

Arm ==
  /\ armed' = TRUE
  /\ UNCHANGED <<owner, opt_in, link>>

Disarm ==
  /\ armed' = FALSE
  /\ opt_in' = FALSE
  /\ owner' = Evicted
  /\ UNCHANGED link

OptIn ==
  /\ opt_in' = TRUE
  /\ UNCHANGED <<owner, armed, link>>

OptOut ==
  /\ opt_in' = FALSE
  /\ owner' = Evicted
  /\ UNCHANGED <<armed, link>>

(* The operator takes the transmitter from anybody.                        *)
OperatorKeys ==
  /\ armed
  /\ link
  /\ owner' = "operator"
  /\ UNCHANGED <<armed, opt_in, link>>

(* A client takes it from nobody, with both licences.                      *)
ClientKeys ==
  /\ armed
  /\ opt_in
  /\ link
  /\ owner = "nobody"
  /\ owner' = "client"
  /\ UNCHANGED <<armed, opt_in, link>>

(* The holder lets go, or the client's time is over.                       *)
Release ==
  /\ owner' = "nobody"
  /\ UNCHANGED <<armed, opt_in, link>>

(* The emergency stop takes everything but the link.                       *)
Stop ==
  /\ owner' = "nobody"
  /\ armed' = FALSE
  /\ opt_in' = FALSE
  /\ UNCHANGED link

(* A lost link takes everything.                                           *)
Lose ==
  /\ owner' = "nobody"
  /\ armed' = FALSE
  /\ opt_in' = FALSE
  /\ link' = FALSE

(* A clean disconnect only ends the link.                                  *)
Leave ==
  /\ link' = FALSE
  /\ UNCHANGED <<owner, armed, opt_in>>

Next ==
  \/ Arm \/ Disarm \/ OptIn \/ OptOut
  \/ OperatorKeys \/ ClientKeys \/ Release
  \/ Stop \/ Lose \/ Leave

Spec == Init /\ [][Next]_vars
=============================================================================
