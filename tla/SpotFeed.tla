------------------------------ MODULE SpotFeed ------------------------------
(***************************************************************************)
(* The worker that runs the spot networks: src/app/src/spot_sources.rs.    *)
(* A pass takes every command that waits, polls each source in turn and    *)
(* publishes their status with the band conditions; the window sends a     *)
(* command only when something changed, so one that is not applied to      *)
(* everything it concerns stays unapplied.                                 *)
(*                                                                         *)
(* A source is what SpotSource promises, seen from outside: an error       *)
(* leaves it down, and otherwise it may be in any state.                   *)
(*                                                                         *)
(* Bound: Waiting commands in the channel.                                 *)
(***************************************************************************)
EXTENDS Naturals, Sequences

CONSTANTS
  Slots,      \* how many networks there are
  Settings,   \* of one network, when it is on
  Windows, Counted,
  Waiting, None

VARIABLES
  wish,       \* the window: what it sent last
  commands,   \* the channel
  at,         \* 0 at the commands, then the slot to be polled, then AtPublish
              \* and AtRest
  slots,      \* Slot.cfg, its source's state and window, and Slot.error
  window,     \* the worker's window
  counted,    \* the networks counted for the band conditions
  cache,      \* BandsCache: whether it is of this second, and its value
  published,  \* Statuses
  failing     \* history: the networks whose last word was a failure

vars == <<wish, commands, at, slots, window, counted, cache, published, failing>>

Networks == 1 .. Slots
AtPublish == Slots + 1
AtRest == Slots + 2

Off == [cfg |-> None, state |-> "none", window |-> None, error |-> FALSE]

-----------------------------------------------------------------------------
(* The window (App::update, Message::Tick).                                *)

SendsCommand(what, value) ==
  /\ wish[what] # value /\ Len(commands) < Waiting
  /\ wish' = [wish EXCEPT ![what] = value]
  /\ commands' = Append(commands, [of |-> what, value |-> value])
  /\ UNCHANGED <<at, slots, window, counted, cache, published, failing>>

-----------------------------------------------------------------------------
(* The pass.                                                               *)

(* Mutant: a source that is started is not told the window.                *)
StartedBlind(cfg) == [Off EXCEPT !.cfg = cfg, !.state = "down"]

Started(cfg) == [Off EXCEPT !.cfg = cfg, !.state = "down", !.window = window]

TakesConfigure(cfgs) ==
  /\ slots' = [n \in Networks |->
                 IF slots[n].cfg = cfgs[n] THEN slots[n]
                 ELSE IF cfgs[n] = None THEN Off ELSE Started(cfgs[n])]
  /\ failing' = {n \in failing : slots[n].cfg = cfgs[n]}
  /\ UNCHANGED <<window, counted, cache>>

TakesWindow(w) ==
  /\ window' = w
  /\ slots' = [n \in Networks |->
                 IF slots[n].cfg = None THEN slots[n]
                 ELSE [slots[n] EXCEPT !.window = w]]
  /\ UNCHANGED <<counted, cache, failing>>

TakesPropagation(networks) ==
  /\ counted' = networks
  /\ cache' = [cache EXCEPT !.current = FALSE]
  /\ UNCHANGED <<slots, window, failing>>

TakesCommand ==
  /\ at = 0 /\ commands # <<>>
  /\ commands' = Tail(commands)
  /\ LET c == Head(commands)
     IN  \/ c.of = "configure" /\ TakesConfigure(c.value)
         \/ c.of = "window" /\ TakesWindow(c.value)
         \/ c.of = "propagation" /\ TakesPropagation(c.value)
  /\ UNCHANGED <<wish, at, published>>

NoneWaits ==
  /\ at = 0 /\ commands = <<>>
  /\ at' = 1
  /\ UNCHANGED <<wish, commands, slots, window, counted, cache, published, failing>>

ErrorAfter(error, state) == error /\ state # "up"

Polls(n) ==
  /\ at = n
  /\ at' = n + 1
  /\ \/ slots[n].cfg = None /\ UNCHANGED <<slots, failing>>
     \/ /\ slots[n].cfg # None
        /\ slots' = [slots EXCEPT ![n].state = "down", ![n].error = TRUE]
        /\ failing' = failing \cup {n}
     \/ /\ slots[n].cfg # None
        /\ \E state \in {"down", "login", "up"} :
             /\ slots' = [slots EXCEPT ![n].state = state,
                                       ![n].error = ErrorAfter(@, state)]
             /\ failing' = IF state = "up" THEN failing \ {n} ELSE failing
  /\ UNCHANGED <<wish, commands, window, counted, cache, published>>

(* Slot::status of each, and the bands, computed at most once a second.    *)
Publish ==
  /\ at = AtPublish /\ at' = AtRest
  /\ cache' = IF cache.current THEN cache ELSE [current |-> TRUE, value |-> counted]
  /\ published' = [slots |-> [n \in Networks |->
                                [state |-> slots[n].state, error |-> slots[n].error]],
                   bands |-> cache'.value]
  /\ UNCHANGED <<wish, commands, slots, window, counted, failing>>

Rests ==
  /\ at = AtRest /\ at' = 0
  /\ UNCHANGED <<wish, commands, slots, window, counted, cache, published, failing>>

NextSecond ==
  /\ cache.current /\ cache' = [cache EXCEPT !.current = FALSE]
  /\ UNCHANGED <<wish, commands, at, slots, window, counted, published, failing>>

-----------------------------------------------------------------------------
Init ==
  /\ wish = [configure |-> [n \in Networks |-> None], window |-> None,
             propagation |-> None]
  /\ commands = <<>> /\ at = 0
  /\ slots = [n \in Networks |-> Off]
  /\ window = None /\ counted = None
  /\ cache = [current |-> FALSE, value |-> None]
  /\ published = [slots |-> [n \in Networks |-> [state |-> "none", error |-> FALSE]],
                  bands |-> None]
  /\ failing = {}

Next ==
  \/ \E cfgs \in [Networks -> Settings \cup {None}] : SendsCommand("configure", cfgs)
  \/ \E w \in Windows : SendsCommand("window", w)
  \/ \E networks \in Counted : SendsCommand("propagation", networks)
  \/ TakesCommand \/ NoneWaits
  \/ \E n \in Networks : Polls(n)
  \/ Publish \/ Rests
  \/ NextSecond

Spec == Init /\ [][Next]_vars

-----------------------------------------------------------------------------
(* Properties.                                                             *)

TypeOK ==
  /\ at \in 0 .. AtRest
  /\ slots \in [Networks -> [cfg : Settings \cup {None}, error : BOOLEAN,
                             state : {"none", "down", "login", "up"},
                             window : Windows \cup {None}]]
  /\ window \in Windows \cup {None}
  /\ counted \in Counted \cup {None}
  /\ failing \subseteq Networks

(* When a pass is over and no command waits, everything is as the window   *)
(* sent it last: each network runs with its settings and looks at the      *)
(* view, whichever of the two came first; a network that failed shows so   *)
(* until it is up again or changed, and one that was switched off shows    *)
(* nothing; and the bands count the networks chosen, within the second     *)
(* (FR-SPOT-04, FR-SPOT-09, FR-UI-25).                                     *)
PublishesWhatIs ==
  (at = AtRest /\ commands = <<>>) =>
    /\ \A n \in Networks :
         /\ slots[n].cfg = wish.configure[n]
         /\ slots[n].cfg # None => slots[n].window = wish.window
         /\ n \in failing => published.slots[n].error
         /\ slots[n].cfg = None => published.slots[n].state = "none"
    /\ published.bands = wish.propagation
=============================================================================
