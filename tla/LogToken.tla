------------------------------ MODULE LogToken ------------------------------
(***************************************************************************)
(* The API token of the logging form and its keychain                      *)
(* (src/app/src/log_ui.rs, src/app/src/wavelog.rs save_ and                *)
(* forget_token_in_background): the window changes the token at once, a    *)
(* thread of its own for each change writes the keychain, and the next     *)
(* start of the program takes the token from there.                        *)
(*                                                                         *)
(* A token carries, unseen by the code, the server it was entered for.     *)
(* External: the keychain.  Bound: Entered tokens typed.                   *)
(***************************************************************************)
EXTENDS Naturals

CONSTANTS Servers, Entered, None

VARIABLES
  url, token,     \* prefs.url, LogUi.token
  typed,          \* how many tokens were typed
  keychain,       \* the token kept
  writes,         \* the threads: each the token it saves, None to forget
  apart           \* history: a thread began beside another or was refused,
                  \* and none has since written the token of the form

vars == <<url, token, typed, keychain, writes, apart>>

InBackground(w) ==
  /\ writes' = writes \cup {w}
  /\ apart' = (apart \/ writes # {})

-----------------------------------------------------------------------------
(* LogMsg::UrlSave: the token belongs to the old URL.                      *)
UrlSave(s) ==
  /\ s # url
  /\ url' = s /\ token' = None
  /\ IF url = None THEN UNCHANGED <<writes, apart>> ELSE InBackground(None)
  /\ UNCHANGED <<typed, keychain>>

TokenSave ==
  /\ url # None /\ typed < Entered
  /\ typed' = typed + 1
  /\ token' = [n |-> typed', of |-> url]
  /\ InBackground(token')
  /\ UNCHANGED <<url, keychain>>

(* Mutant: the token is only dropped from the form.                        *)
TokenForgetHere ==
  /\ token' = None
  /\ UNCHANGED <<url, typed, keychain, writes, apart>>

TokenForget ==
  /\ token' = None
  /\ InBackground(None)
  /\ UNCHANGED <<url, typed, keychain>>

(* save_token and forget_token; the form keeps its token either way.       *)
Written(w) ==
  /\ w \in writes /\ writes' = writes \ {w}
  /\ keychain' = w
  /\ apart' = (apart /\ (writes' # {} \/ w # token))
  /\ UNCHANGED <<url, token, typed>>

Refused(w) ==
  /\ w \in writes /\ writes' = writes \ {w}
  /\ apart' = TRUE
  /\ UNCHANGED <<url, token, typed, keychain>>

(* LogUi::start after the program ended, with whatever was written by then.*)
Restart ==
  /\ token' = IF url = None THEN None ELSE keychain
  /\ writes' = {}
  /\ apart' = FALSE
  /\ UNCHANGED <<url, typed, keychain>>

-----------------------------------------------------------------------------
Init ==
  /\ url = None /\ token = None /\ typed = 0
  /\ keychain = None /\ writes = {} /\ apart = FALSE

Next ==
  \/ \E s \in Servers : UrlSave(s)
  \/ TokenSave \/ TokenForget
  \/ \E w \in writes : Written(w) \/ Refused(w)
  \/ Restart

Spec == Init /\ [][Next]_vars

-----------------------------------------------------------------------------
(* Properties.                                                             *)

(* The types of the variables.                                             *)
TypeOK ==
  LET Tokens == [n : 1 .. Entered, of : Servers] \cup {None}
  IN  /\ url \in Servers \cup {None}
      /\ {token, keychain} \subseteq Tokens /\ writes \subseteq Tokens
      /\ apart \in BOOLEAN

(* When the threads are done, the next start has the token of the form, or *)
(* none if it was removed, unless one began beside another or the keychain *)
(* refused.  (FR-LOG-03)                                                   *)
KeychainFollows == (writes = {} /\ ~apart) => keychain = token

(* log_ui.rs:398: the token of the old URL is deleted, never sent          *)
(* elsewhere.  The code does not keep this over a restart when the removal *)
(* was refused, cut off, or overtaken by the write before it.              *)
TokenStaysHome == token # None => token.of = url
=============================================================================
