----------------------------- MODULE MCHotplug -----------------------------
(* Small instances of Hotplug for TLC.                                      *)
EXTENDS Hotplug, TLC

\* A thread that polls adds states of its own, so less else happens then.
MCFaults   == [p \in BOOLEAN |-> IF p THEN 2 ELSE 3]
FourFaults == [p \in BOOLEAN |-> 4]

\* Radios, kernel names and tabs are interchangeable; for runs without liveness.
HotplugSymmetry == Permutations(Radios) \cup Permutations(Names) \cup Permutations(Tabs)
=============================================================================
