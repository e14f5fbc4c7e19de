-------------------------------- MODULE Ptt ---------------------------------
(***************************************************************************)
(* The push-to-talk hotkey (FR-TX-PTT-01): presses and releases come as    *)
(* events the window handles later, what it knows of the radio is as old   *)
(* as its last tick, and the K4's worker takes its commands later still.   *)
(*                                                                         *)
(* An event names its key as without modifiers (vendor/iced_core/src/      *)
(* keyboard/event.rs has modified_key beside it), so its label is the key. *)
(*                                                                         *)
(* External: the operator's hands.  In CarelessSpec they may also start to *)
(* capture another hotkey while holding the present one, or let go of it   *)
(* while the window has no focus; the hold then ends only with the next    *)
(* tap of the hotkey.                                                      *)
(* Bounds: Waiting events, Sent commands.                                  *)
(***************************************************************************)
EXTENDS Naturals, Sequences, SequencesExt

CONSTANTS Keys, Waiting, Sent, None

VARIABLES
  held,       \* the keys held down
  shift,      \* Shift is
  events,     \* keyboard events not handled yet
  hotkey,     \* ptt_hotkey: [key, shift]
  capturing,  \* capturing_hotkey
  down,       \* hotkey_down
  keyed,      \* hotkey_keyed
  toggles,    \* ptt_toggle
  seen,       \* App.ui as of the last tick: [armed, tx]
  to_k4,
  k4,         \* the session: [armed, tx], tx with how it was keyed
  by          \* history: the key that keyed

vars == <<held, shift, events, hotkey, capturing, down, keyed, toggles, seen,
          to_k4, k4, by>>

window == <<hotkey, capturing, down, keyed, toggles, seen>>

-----------------------------------------------------------------------------
(* The operator.                                                           *)

Press(k) ==
  /\ k \notin held /\ Len(events) < Waiting
  /\ held' = held \cup {k}
  /\ events' = Append(events, [on |-> "press", key |-> k, shift |-> shift])
  /\ UNCHANGED <<shift, window, to_k4, k4, by>>

(* A key held down is pressed again and again.                             *)
Repeat(k) ==
  /\ k \in held /\ Len(events) < Waiting
  /\ events' = Append(events, [on |-> "press", key |-> k, shift |-> shift])
  /\ UNCHANGED <<held, shift, window, to_k4, k4, by>>

Release(k) ==
  /\ k \in held /\ Len(events) < Waiting
  /\ held' = held \ {k}
  /\ events' = Append(events, [on |-> "release", key |-> k, shift |-> shift])
  /\ UNCHANGED <<shift, window, to_k4, k4, by>>

ReleaseUnseen(k) ==
  /\ k \in held
  /\ held' = held \ {k}
  /\ UNCHANGED <<shift, events, window, to_k4, k4, by>>

Shift ==
  /\ shift' = ~shift
  /\ UNCHANGED <<held, events, window, to_k4, k4, by>>

-----------------------------------------------------------------------------
(* The window.                                                             *)

Key(on, how) ==
  Append(to_k4, [key |-> on, how |-> IF on THEN how ELSE None])
Room == Len(to_k4) < Sent

(* hotkey_string                                                           *)
Combo(e) == [key |-> e.key, shift |-> e.shift]

Matches(e) == Combo(e) = hotkey /\ ~down

Handled(on) == events # <<>> /\ Head(events).on = on /\ events' = Tail(events)

CapturesHotkey ==
  /\ Handled("press") /\ capturing
  /\ hotkey' = Combo(Head(events)) /\ capturing' = FALSE
  /\ UNCHANGED <<held, shift, down, keyed, toggles, seen, to_k4, k4, by>>

(* Message::KeyPressed: refused, flipped or keyed for as long as it is     *)
(* held; a repeat or another key does nothing.                             *)
HotkeyPressed ==
  /\ Handled("press") /\ ~capturing /\ Matches(Head(events)) /\ Room
  /\ down' = TRUE
  /\ IF ~seen.armed THEN UNCHANGED <<keyed, to_k4, by>>
     ELSE IF toggles
     THEN to_k4' = Key(~seen.tx, "flip") /\ UNCHANGED <<keyed, by>>
     ELSE keyed' = TRUE /\ to_k4' = Key(TRUE, "hold") /\ by' = Head(events).key
  /\ UNCHANGED <<held, shift, hotkey, capturing, toggles, seen, k4>>

OtherPressed ==
  /\ Handled("press") /\ ~capturing /\ ~Matches(Head(events))
  /\ UNCHANGED <<held, shift, window, to_k4, k4, by>>

(* Mutant: the whole combination must be released at once.                 *)
IsReleaseExact(e) == Combo(e) = hotkey

(* It matches the main key: "modifiers may lift first".                    *)
IsRelease(e) == e.key = hotkey.key

(* Message::KeyReleased                                                    *)
KeyReleased ==
  /\ Handled("release") /\ Room
  /\ IF down /\ IsRelease(Head(events))
     THEN /\ down' = FALSE /\ keyed' = FALSE /\ by' = None
          /\ to_k4' = IF keyed THEN Key(FALSE, "hold") ELSE to_k4
     ELSE UNCHANGED <<down, keyed, by, to_k4>>
  /\ UNCHANGED <<held, shift, hotkey, capturing, toggles, seen, k4>>

StartCaptureHotkey ==
  /\ capturing' = TRUE
  /\ UNCHANGED <<held, shift, events, hotkey, down, keyed, toggles, seen, to_k4,
                 k4, by>>

TogglePttMode ==
  /\ toggles' = ~toggles
  /\ UNCHANGED <<held, shift, events, hotkey, capturing, down, keyed, seen,
                 to_k4, k4, by>>

ToggleArm ==
  /\ Room /\ to_k4' = Append(to_k4, [arm |-> ~seen.armed])
  /\ UNCHANGED <<held, shift, events, window, k4, by>>

(* The PTT button.                                                         *)
ToggleKey ==
  /\ Room /\ to_k4' = Key(~seen.tx, "flip")
  /\ UNCHANGED <<held, shift, events, window, k4, by>>

EmergencyStop ==
  /\ Room /\ to_k4' = Append(to_k4, [stop |-> TRUE])
  /\ UNCHANGED <<held, shift, events, window, k4, by>>

Tick ==
  /\ seen' = [armed |-> k4.armed, tx |-> k4.tx # None]
  /\ UNCHANGED <<held, shift, events, hotkey, capturing, down, keyed, toggles,
                 to_k4, k4, by>>

-----------------------------------------------------------------------------
(* The worker; the flags of the session only, Session.tla has the rest.    *)
Does(c) ==
  IF "stop" \in DOMAIN c THEN [armed |-> FALSE, tx |-> None]
  ELSE IF "arm" \in DOMAIN c THEN [k4 EXCEPT !.armed = c.arm]
  ELSE IF c.key THEN IF k4.armed THEN [k4 EXCEPT !.tx = c.how] ELSE k4
  ELSE [k4 EXCEPT !.tx = None]

TakesCommand ==
  /\ to_k4 # <<>> /\ to_k4' = Tail(to_k4)
  /\ k4' = Does(Head(to_k4))
  /\ UNCHANGED <<held, shift, events, window, by>>

LinkLost ==
  /\ k4' = [armed |-> FALSE, tx |-> None]
  /\ UNCHANGED <<held, shift, events, window, to_k4, by>>

-----------------------------------------------------------------------------
Init ==
  /\ held = {} /\ shift = FALSE /\ events = <<>>
  /\ hotkey \in [key : Keys, shift : BOOLEAN]
  /\ capturing = FALSE /\ down = FALSE /\ keyed = FALSE /\ toggles \in BOOLEAN
  /\ seen = [armed |-> FALSE, tx |-> FALSE]
  /\ to_k4 = <<>> /\ k4 = [armed |-> FALSE, tx |-> None]
  /\ by = None

Next ==
  \/ \E k \in Keys : Press(k) \/ Repeat(k) \/ Release(k)
  \/ Shift
  \/ CapturesHotkey \/ HotkeyPressed \/ OtherPressed \/ KeyReleased
  \/ ~keyed /\ StartCaptureHotkey
  \/ TogglePttMode \/ ToggleArm \/ ToggleKey
  \/ EmergencyStop \/ Tick
  \/ TakesCommand \/ LinkLost

Spec == Init /\ [][Next]_vars

CarelessNext == Next \/ StartCaptureHotkey \/ \E k \in Keys : ReleaseUnseen(k)

CarelessSpec == Init /\ [][CarelessNext]_vars

-----------------------------------------------------------------------------
(* Properties.                                                             *)

(* The types of the variables.                                             *)
TypeOK ==
  /\ held \subseteq Keys /\ shift \in BOOLEAN
  /\ events \in Seq([on : {"press", "release"}, key : Keys, shift : BOOLEAN])
  /\ capturing \in BOOLEAN /\ down \in BOOLEAN /\ keyed \in BOOLEAN
  /\ toggles \in BOOLEAN /\ seen \in [armed : BOOLEAN, tx : BOOLEAN]
  /\ k4 \in [armed : BOOLEAN, tx : {None, "hold", "flip"}]
  /\ by \in Keys \cup {None}

(* A transmission that the hotkey holds ends with the hold: while the      *)
(* radio is so keyed, the key is held, or its release or the key-up it     *)
(* caused is on its way, whatever else was clicked, toggled, stopped or    *)
(* lifted in between (main.rs:3436).                                       *)
HoldEnds ==
  /\ keyed => \/ by \in held
              \/ \E i \in DOMAIN events : events[i].on = "release" /\ events[i].key = by
  /\ ~keyed => \A i \in 0 .. Len(to_k4) :
       (IF i = 0 THEN k4.tx = "hold"
        ELSE to_k4[i] = [key |-> TRUE, how |-> "hold"]) =>
          \E j \in i + 1 .. Len(to_k4) : "key" \in DOMAIN to_k4[j] /\ ~to_k4[j].key
=============================================================================
