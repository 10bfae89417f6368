---------------------------- MODULE ConnectionForm ----------------------------
(***************************************************************************)
(* What the host-connection dialog promises its caller and its user,       *)
(* without controls, buttons or messages: a form keeps a record for its    *)
(* caller, shows it to the user when it opens, lets the user change what   *)
(* is shown, and on acceptance stores what is shown, if that is valid.     *)
(***************************************************************************)
CONSTANTS
  Display(_),  \* what the user sees of a record
  Valid(_),    \* may the user accept what is shown?
  Blank        \* what is shown while there is no window

VARIABLES
  stored,  \* the record the caller presets and reads
  shown,   \* what the user sees
  status   \* "none", "open", "ok" or "cancel"

vars == <<stored, shown, status>>

Init == status = "none" /\ shown = Blank

\* The caller presets the record, at any time; an open form does not follow.
Preset == UNCHANGED <<shown, status>>

Open ==
  /\ status # "open"
  /\ status' = "open"
  /\ shown' = Display(stored)
  /\ UNCHANGED stored

Edit ==
  /\ status = "open"
  /\ UNCHANGED <<stored, status>>

\* The record stored is the one that displays as what the user accepted.
Accept ==
  /\ status = "open" /\ Valid(shown)
  /\ Display(stored') = shown
  /\ status' = "ok" /\ shown' = Blank

Cancel ==
  /\ status = "open"
  /\ status' = "cancel" /\ shown' = Blank
  /\ UNCHANGED stored

Next == Preset \/ Open \/ Edit \/ Accept \/ Cancel

Spec == Init /\ [][Next]_vars

=============================================================================
