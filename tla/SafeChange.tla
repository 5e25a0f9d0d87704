----------------------------- MODULE SafeChange -----------------------------
(***************************************************************************)
(* What the transaction manager promises (docs/SAFETY.md): changes are put  *)
(* on trial one at a time; a trial ends with the change kept or reverted,   *)
(* once and for all; and whenever no change is on trial, the configuration  *)
(* in force is, as a whole, the one that was kept last.                     *)
(***************************************************************************)
CONSTANTS
  Change,    \* the changes anybody may ask for
  Config,    \* configurations
  Nothing,   \* the configuration of a box that was never set up
  NoTrial,   \* no change is on trial
  OnTrial    \* what is in force while one is, left open

VARIABLES
  wants,     \* wants[c]: the configuration change c asks for
  trial,     \* the change on trial
  fate,      \* fate[c]: "open", "kept" or "reverted"
  kept,      \* the configuration kept last
  inForce    \* the configuration in force

svars == <<wants, trial, fate, kept, inForce>>

Init ==
  /\ wants = [c \in Change |-> Nothing]
  /\ trial = NoTrial
  /\ fate  = [c \in Change |-> "open"]
  /\ kept  = Nothing
  /\ inForce = Nothing

\* Asking commits the box to nothing.
Ask(c) ==
  /\ wants[c] = Nothing
  /\ \E w \in Config : wants' = [wants EXCEPT ![c] = w]
  /\ UNCHANGED <<trial, fate, kept, inForce>>

Try(c) ==
  /\ trial = NoTrial /\ wants[c] # Nothing /\ fate[c] = "open"
  /\ trial' = c
  /\ inForce' = OnTrial
  /\ UNCHANGED <<wants, fate, kept>>

Keep(c) ==
  /\ trial = c /\ fate[c] = "open"
  /\ fate' = [fate EXCEPT ![c] = "kept"]
  /\ kept' = wants[c]
  /\ UNCHANGED <<wants, trial, inForce>>

Revert(c) ==
  /\ trial = c /\ fate[c] = "open"
  /\ fate' = [fate EXCEPT ![c] = "reverted"]
  /\ UNCHANGED <<wants, trial, kept, inForce>>

\* The next trial may start, from the configuration that was kept.
Close(c) ==
  /\ trial = c /\ fate[c] # "open"
  /\ trial' = NoTrial
  /\ inForce' = kept
  /\ UNCHANGED <<wants, fate, kept>>

Next == \E c \in Change : Ask(c) \/ Try(c) \/ Keep(c) \/ Revert(c) \/ Close(c)

\* Every trial ends.
Spec == Init /\ [][Next]_svars /\ \A c \in Change : WF_svars(Keep(c) \/ Revert(c) \/ Close(c))
=============================================================================
