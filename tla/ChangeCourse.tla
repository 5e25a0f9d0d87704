---------------------------- MODULE ChangeCourse ----------------------------
(***************************************************************************)
(* The course of a change: what the threads of the transaction manager do   *)
(* together to the box, one after the other.  Transaction shows that its    *)
(* workers, watchdogs and the boot process, with the lock between them, do  *)
(* nothing else; AccessPoints opens up each step and follows the same       *)
(* course with a single pc.                                                 *)
(***************************************************************************)
VARIABLES
  at,   \* the step that is next, "idle", or "off" until the boot unit has begun
  by    \* who staged the change at work, "boot" or "request"; "none" when there is
        \* none, and once its files are taken back, which is done for both alike

cvars == <<at, by>>

Init == at = "off" /\ by = "none"

Go(stage, who) == at' = stage /\ by' = who

\* The boot unit applies what is stored, or finds nothing it can apply.
BootUp == at = "off" /\ (Go("hostapd", "boot") \/ Go("idle", "none"))

Request == at = "idle" /\ Go("hostapd", "request")

\* The file groups are written in this order, and each may raise.
After == [hostapd |-> "dnsmasq", dnsmasq |-> "nftables", nftables |-> "reload"]
Write == at \in DOMAIN After /\ Go(After[at], by)
Raise == at \in DOMAIN After /\ Go("restore", by)

Reload == at = "reload" /\ Go("health", by)

\* Boot keeps its change whatever the probe says; a request's is put on trial.
Pass ==
  /\ at = "health"
  /\ IF by = "boot" THEN Go("idle", "none") ELSE Go("trial", by)

Reject == at = "health" /\ by = "request" /\ Go("restore", by)

Keep   == at = "trial" /\ Go("idle", "none")
Revert == at = "trial" /\ Go("restore", by)

\* Taking back: the files of the snapshot, then a reload.
Restore  == at = "restore" /\ Go("rereload", "none")
Rereload == at = "rereload" /\ Go("idle", "none")

\* The box loses power, or the web process is restarted in the middle of its change.
Reboot  == Go("off", "none")
Restart == at # "off" /\ by # "boot" /\ Go("idle", "none")

Next ==
  \/ BootUp \/ Request \/ Write \/ Raise \/ Reload \/ Pass \/ Reject \/ Keep \/ Revert
  \/ Restore \/ Rereload \/ Reboot \/ Restart

Spec == Init /\ [][Next]_cvars
=============================================================================
