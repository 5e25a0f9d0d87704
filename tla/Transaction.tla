---------------------------- MODULE Transaction ----------------------------
(***************************************************************************)
(* The anti-lockout core of travelrouter: core/transaction.py as            *)
(* core/config_manager.py drives it for the web API, and boot.py for the    *)
(* power-on path.                                                           *)
(*                                                                         *)
(* A change persists its access points in the database, takes the global    *)
(* change lock, snapshots the generated files, rewrites them, reloads the   *)
(* services, probes them and is then left on trial: the admin keeps it      *)
(* before the countdown ends or a watchdog thread restores the snapshot.    *)
(*                                                                         *)
(* An actor is a thread that runs that code: a worker of the web server,    *)
(* the watchdog thread of one transaction (named by the transaction), or    *)
(* the boot process.  pc[a] is the next call actor a makes; every call      *)
(* that changes the lock, the journal, the timers, the generated files or   *)
(* the running services is a step of its own, so that steps of different    *)
(* actors interleave, and crashes fall, between any two of them.            *)
(***************************************************************************)
EXTENDS Naturals

CONSTANTS
  Tx,        \* transactions; also names the AP configuration each one brings
  Workers,   \* threads of the web server that run API handlers
  Boot,      \* the process of travelrouter-boot.service
  NoTx,      \* the lock is free / the actor runs no transaction
  Factory,   \* the bootstrap configuration of config/default.yaml
  Absent,    \* no configuration: no file, no rows, nothing loaded
  Overlap,   \* may an answer arrive when no countdown runs, or beside another
             \* handler of the same transaction?
  Crashes,   \* may the web process die, the box lose power?
  Faults,    \* may the disk or the database raise, a command fail, at any call?
  Rejected   \* <<c, f>>: the service of file group f will not load that of c

Actors == Workers \cup Tx \cup {Boot}

ASSUME NamesAreDistinct ==
  /\ Workers \cap Tx = {} /\ Boot \notin Workers \cup Tx
  /\ NoTx \notin Tx /\ Factory \notin Tx
  /\ Absent \notin Tx \cup {Factory}

ASSUME RegimesAreBoolean == {Overlap, Crashes, Faults} \subseteq BOOLEAN

Files    == {"hostapd", "dnsmasq", "nftables"}  \* file groups under GEN_DIR
Services == Files \cup {"network"}              \* network: addresses, policy rules
Configs  == Tx \cup {Factory, Absent}

\* A configuration an admin asks for may be one that some service refuses (without
\* an enabled access point the ruleset does not parse); the bootstrap AP is not.
ASSUME SomeAreRejected == Rejected \subseteq Tx \X Files

Applying   == {"snapshot", "journal", "hostapd", "dnsmasq", "nftables",
               "reload", "applied", "health", "arm"}
Committing == {"cancel", "commit", "unlock"}
Undoing    == {"wipe", "extract", "rereload", "rolledback", "disarm", "release"}
Calls      == Applying \cup Committing \cup Undoing
Labels     == Calls \cup {"idle", "boot", "acquire"}

VARIABLES
  pc,      \* pc[a]: the call actor a makes next
  tx,      \* tx[a]: the transaction a works on
  lock,    \* _active_lock: NoTx, or the transaction that acquired it
  timer,   \* timer[t]: the countdown of t is ticking
  row,     \* row[t]: state column of t in the transactions table
  snap,    \* snap[t]: the file groups in the snapshot of t
  gen,     \* gen[f]: the configuration file group f was generated from
  aps,     \* the configuration in the access_points table
  live,    \* live[s]: the configuration service s runs
  cfg,     \* cfg[t]: the configuration t applies (Absent: t is not begun)
  said,    \* history: answers given and asked about t
  good     \* history: the configuration committed last

vars == <<pc, tx, lock, timer, row, snap, gen, aps, live, cfg, said, good>>

---------------------------------------------------------------------------
All(c) == [f \in Files |-> c]

At(a, l)      == pc[a] = l
Busy(a)       == pc[a] \in Calls           \* past acquire: the lock was taken for it
Attended(t)   == \E a \in Actors : Busy(a) /\ tx[a] = t
WebUp         == pc[Boot] = "idle"         \* the boot unit runs Before= the web unit

Goto(a, l)  == pc' = [pc EXCEPT ![a] = l]
Finish(a)   == Goto(a, "idle") /\ tx' = [tx EXCEPT ![a] = IF a \in Tx THEN a ELSE NoTx]

\* Mutant: a reload sets up addresses and rules only where there are none.
ReloadedOnce ==
  [s \in Services |->
     IF s = "network" THEN IF live[s] = Absent THEN aps ELSE live[s]
     ELSE IF <<gen[s], s>> \in Rejected THEN Absent ELSE gen[s]]

\* What a reload leaves running if every command that can succeed does: addresses and
\* rules from the table, units restarted on the generated files or down if they refuse
\* them, and nft, which loads a file as a whole or keeps what it has, with its ruleset.
Reloaded ==
  [s \in Services |->
     IF s = "network" THEN aps
     ELSE IF s = "nftables" /\ (gen[s] = Absent \/ <<gen[s], s>> \in Rejected) THEN live[s]
     ELSE IF <<gen[s], s>> \in Rejected THEN Absent
     ELSE gen[s]]

\* services.run reports a failed or timed-out command to nobody: with Faults a reload may
\* leave any service on what it ran, or stopped.
Left(s) == {Reloaded[s]} \cup IF Faults THEN {live[s], Absent} ELSE {}

Reloads == live' \in {l \in [Services -> Configs] : \A s \in Services : l[s] \in Left(s)}

\* The units systemd itself starts read the generated files; nobody loads the
\* ruleset, and apctl prestart has flushed the addresses.
UnitsOnly(nft) ==
  [s \in Services |->
     IF s = "network" THEN Absent
     ELSE IF s = "nftables" THEN nft
     ELSE IF <<gen[s], s>> \in Rejected THEN Absent ELSE gen[s]]

Init ==
  /\ pc   = [a \in Actors |-> IF a = Boot THEN "boot" ELSE "idle"]
  /\ tx   = [a \in Actors |-> IF a \in Tx THEN a ELSE NoTx]
  /\ lock = NoTx
  /\ timer = [t \in Tx |-> FALSE]
  /\ row  = [t \in Tx |-> "none"]
  /\ snap = [t \in Tx |-> All(Absent)]
  /\ gen  = All(Absent)
  /\ aps  = Absent
  /\ live = [s \in Services |-> Absent]
  /\ cfg  = [t \in Tx |-> Absent]
  /\ said = [t \in Tx |-> {}]
  /\ good = Absent

---------------------------------------------------------------------------
(* config_manager.apply_aps up to begin(): the rows are stored first.       *)

PersistAps(c) == aps' = c

Stage(a, t, c) ==
  /\ cfg[t] = Absent
  /\ cfg' = [cfg EXCEPT ![t] = c]
  /\ PersistAps(c)
  /\ tx'  = [tx EXCEPT ![a] = t]
  /\ Goto(a, "acquire")
  /\ UNCHANGED <<lock, timer, row, snap, gen, live, said, good>>

Apply(w, t) == WebUp /\ At(w, "idle") /\ Stage(w, t, t)

\* boot.main: the stored rows again, or the bootstrap AP when there are none.
BootApply(t) == At(Boot, "boot") /\ Stage(Boot, t, IF aps = Absent THEN Factory ELSE aps)

\* No radio for the bootstrap AP, or the stored rows fail validation.
BootSkip ==
  /\ At(Boot, "boot")
  /\ Finish(Boot)
  /\ UNCHANGED <<lock, timer, row, snap, gen, aps, live, cfg, said, good>>

(* Transaction.begin *)

\* Mutant: the result of the non-blocking acquire is not looked at.
AcquireUnchecked(a) ==
  /\ At(a, "acquire")
  /\ lock' = tx[a]
  /\ Goto(a, "snapshot")
  /\ UNCHANGED <<tx, timer, row, snap, gen, aps, live, cfg, said, good>>

Acquire(a) ==
  /\ At(a, "acquire") /\ lock = NoTx
  /\ lock' = tx[a]
  /\ Goto(a, "snapshot")
  /\ UNCHANGED <<tx, timer, row, snap, gen, aps, live, cfg, said, good>>

Refuse(a) ==
  /\ At(a, "acquire") /\ lock # NoTx
  /\ Finish(a)
  /\ UNCHANGED <<lock, timer, row, snap, gen, aps, live, cfg, said, good>>

TakeSnapshot(a) ==
  /\ At(a, "snapshot")
  /\ snap' = [snap EXCEPT ![tx[a]] = gen]
  /\ Goto(a, "journal")
  /\ UNCHANGED <<tx, lock, timer, row, gen, aps, live, cfg, said, good>>

Journal(a) ==
  /\ At(a, "journal")
  /\ row' = [row EXCEPT ![tx[a]] = "staged"]
  /\ Goto(a, "hostapd")
  /\ UNCHANGED <<tx, lock, timer, snap, gen, aps, live, cfg, said, good>>

(* Transaction.apply: _generate_all, _reload_services, state=applied.       *)

AfterFile == [hostapd |-> "dnsmasq", dnsmasq |-> "nftables", nftables |-> "reload"]

Generate(a, f) ==
  /\ At(a, f)
  /\ gen' = [gen EXCEPT ![f] = cfg[tx[a]]]
  /\ Goto(a, AfterFile[f])
  /\ UNCHANGED <<tx, lock, timer, row, snap, aps, live, cfg, said, good>>

\* Mutant: apply() logs the exception of a generator and goes on.
GenerateSwallows(a, f) ==
  /\ At(a, f)
  /\ Goto(a, AfterFile[f])
  /\ UNCHANGED <<tx, lock, timer, row, snap, gen, aps, live, cfg, said, good>>

\* A generator raises (a row without a field it reads): hostapd has removed its
\* stale files by then, the others have not replaced theirs, and sysctl and vpn
\* may still raise when all three are written.
GenerateFails(a, f) ==
  /\ At(a, f)
  /\ \/ f = "hostapd" /\ gen' = [gen EXCEPT ![f] = Absent]
     \/ f # "hostapd" /\ UNCHANGED gen
     \/ f = "nftables" /\ gen' = [gen EXCEPT ![f] = cfg[tx[a]]]
  /\ Goto(a, "wipe")
  /\ UNCHANGED <<tx, lock, timer, row, snap, aps, live, cfg, said, good>>

Reload(a) ==
  /\ At(a, "reload")
  /\ Reloads
  /\ Goto(a, "applied")
  /\ UNCHANGED <<tx, lock, timer, row, snap, gen, aps, cfg, said, good>>

MarkApplied(a) ==
  /\ At(a, "applied")
  /\ row' = [row EXCEPT ![tx[a]] = "applied"]
  /\ Goto(a, "health")
  /\ UNCHANGED <<tx, lock, timer, snap, gen, aps, live, cfg, said, good>>

\* The database raises inside apply(), which rolls back.
ApplyFault(a) ==
  /\ Faults /\ pc[a] \in {"reload", "applied"}
  /\ Goto(a, "wipe")
  /\ UNCHANGED <<tx, lock, timer, row, snap, gen, aps, live, cfg, said, good>>

(* Transaction.health and the choice between arm() and commit().           *)

\* nft parses the file, dnsmasq is active and so is every AP unit that has a file; a probe that cannot run
\* its command counts as passed.
ProbesPass ==
  \/ Faults
  \/ /\ <<gen["nftables"], "nftables">> \notin Rejected
     /\ live["dnsmasq"] # Absent
     /\ gen["hostapd"] # Absent => live["hostapd"] # Absent

\* Boot only logs the probe and commits; a request may opt out of the countdown.
HealthPasses(a) ==
  /\ At(a, "health") /\ (a = Boot \/ ProbesPass)
  /\ \E l \in IF a = Boot THEN {"cancel"} ELSE {"arm", "cancel"} : Goto(a, l)
  /\ UNCHANGED <<tx, lock, timer, row, snap, gen, aps, live, cfg, said, good>>

\* Mutant: a failed probe only ends the transaction, nothing is rolled back.
HealthGivesUp(a) ==
  /\ At(a, "health") /\ a # Boot
  /\ Goto(a, "disarm")
  /\ UNCHANGED <<tx, lock, timer, row, snap, gen, aps, live, cfg, said, good>>

HealthFails(a) ==
  /\ At(a, "health") /\ a # Boot
  /\ Goto(a, "wipe")
  /\ UNCHANGED <<tx, lock, timer, row, snap, gen, aps, live, cfg, said, good>>

\* Mutant: the timer is built and registered but not started.
ArmNotStarted(a) ==
  /\ At(a, "arm")
  /\ said' = [said EXCEPT ![tx[a]] = @ \cup {"deadline"}]
  /\ Finish(a)
  /\ UNCHANGED <<lock, timer, row, snap, gen, aps, live, cfg, good>>

\* arm() stores the deadline, which no code path compares with the time, and
\* starts the timer; the request is answered and its thread is free again.
Arm(a) ==
  /\ At(a, "arm")
  /\ timer' = [timer EXCEPT ![tx[a]] = TRUE]
  /\ said'  = [said EXCEPT ![tx[a]] = @ \cup {"deadline"}]
  /\ Finish(a)
  /\ UNCHANGED <<lock, row, snap, gen, aps, live, cfg, good>>

---------------------------------------------------------------------------
(* The answers to a change on trial.                                        *)

\* Without Overlap the admin answers only a running countdown, one answer at
\* a time, and the countdown does not end under an answer being served.
Answerable(t) == Overlap \/ (timer[t] /\ ~Attended(t))

\* Mutant: the shell transaction is not given the id of the row.
ConfirmForgetsId(w, t) ==
  /\ WebUp /\ At(w, "idle") /\ row[t] = "applied" /\ Answerable(t)
  /\ Goto(w, "cancel")
  /\ UNCHANGED <<tx, lock, timer, row, snap, gen, aps, live, cfg, said, good>>

\* config_manager.confirm: the journal row is read, then commit() runs.
Confirm(w, t) ==
  /\ WebUp /\ At(w, "idle") /\ row[t] = "applied" /\ Answerable(t)
  /\ tx' = [tx EXCEPT ![w] = t]
  /\ Goto(w, "cancel")
  /\ UNCHANGED <<lock, timer, row, snap, gen, aps, live, cfg, said, good>>

\* config_manager.rollback asks only that the row exists.
Rollback(w, t) ==
  /\ WebUp /\ At(w, "idle") /\ row[t] # "none" /\ Answerable(t)
  /\ tx'   = [tx EXCEPT ![w] = t]
  /\ said' = [said EXCEPT ![t] = @ \cup {"revert"}]
  /\ Goto(w, "wipe")
  /\ UNCHANGED <<lock, timer, row, snap, gen, aps, live, cfg, good>>

\* _watchdog_fire, on the timer's own thread.
Expire(t) ==
  /\ timer[t] /\ At(t, "idle") /\ (Overlap \/ ~Attended(t))
  /\ timer' = [timer EXCEPT ![t] = FALSE]
  /\ Goto(t, "wipe")
  /\ UNCHANGED <<tx, lock, row, snap, gen, aps, live, cfg, said, good>>

(* Transaction.commit *)

\* Mutant: the timer is dropped from _watchdogs but not cancelled.
CancelForgotten(a) ==
  /\ At(a, "cancel")
  /\ Goto(a, "commit")
  /\ UNCHANGED <<tx, lock, timer, row, snap, gen, aps, live, cfg, said, good>>

CancelWatchdog(a) ==
  /\ At(a, "cancel")
  /\ timer' = [timer EXCEPT ![tx[a]] = FALSE]
  /\ Goto(a, "commit")
  /\ UNCHANGED <<tx, lock, row, snap, gen, aps, live, cfg, said, good>>

MarkCommitted(a) ==
  /\ At(a, "commit")
  /\ row'  = [row EXCEPT ![tx[a]] = "committed"]
  /\ good' = cfg[tx[a]]
  /\ Goto(a, "unlock")
  /\ UNCHANGED <<tx, lock, timer, snap, gen, aps, live, cfg, said>>

\* Mutant: commit() ends without _release.
UnlockForgotten(a) ==
  /\ At(a, "unlock")
  /\ said' = [said EXCEPT ![tx[a]] = @ \cup {"kept"}]
  /\ Finish(a)
  /\ UNCHANGED <<lock, timer, row, snap, gen, aps, live, cfg, good>>

\* _release frees the global lock whoever holds it, and the answer is ok.
Unlock(a) ==
  /\ At(a, "unlock")
  /\ lock' = NoTx
  /\ said' = [said EXCEPT ![tx[a]] = @ \cup {"kept"}]
  /\ Finish(a)
  /\ UNCHANGED <<timer, row, snap, gen, aps, live, cfg, good>>

(* Transaction._rollback; its finally clause disarms and releases.          *)

Wipe(a) ==
  /\ At(a, "wipe")
  /\ gen' = All(Absent)
  /\ Goto(a, "extract")
  /\ UNCHANGED <<tx, lock, timer, row, snap, aps, live, cfg, said, good>>

Extract(a) ==
  /\ At(a, "extract")
  /\ gen' = snap[tx[a]]
  /\ Goto(a, "rereload")
  /\ UNCHANGED <<tx, lock, timer, row, snap, aps, live, cfg, said, good>>

\* Mutant: the restored files are not loaded.
RereloadSkipped(a) ==
  /\ At(a, "rereload")
  /\ Goto(a, "rolledback")
  /\ UNCHANGED <<tx, lock, timer, row, snap, gen, aps, live, cfg, said, good>>

\* An exception of this reload is swallowed.
Rereload(a) ==
  /\ At(a, "rereload")
  /\ Reloads
  /\ Goto(a, "rolledback")
  /\ UNCHANGED <<tx, lock, timer, row, snap, gen, aps, cfg, said, good>>

MarkRolledBack(a) ==
  /\ At(a, "rolledback")
  /\ row' = [row EXCEPT ![tx[a]] = "rolledback"]
  /\ Goto(a, "disarm")
  /\ UNCHANGED <<tx, lock, timer, snap, gen, aps, live, cfg, said, good>>

UndoFault(a) ==
  /\ Faults /\ pc[a] \in {"wipe", "extract", "rolledback"}
  /\ Goto(a, "disarm")
  /\ UNCHANGED <<tx, lock, timer, row, snap, gen, aps, live, cfg, said, good>>

\* Mutant: a rollback by hand leaves the countdown running.
DisarmForgotten(a) ==
  /\ At(a, "disarm")
  /\ Goto(a, "release")
  /\ UNCHANGED <<tx, lock, timer, row, snap, gen, aps, live, cfg, said, good>>

Disarm(a) ==
  /\ At(a, "disarm")
  /\ timer' = [timer EXCEPT ![tx[a]] = FALSE]
  /\ Goto(a, "release")
  /\ UNCHANGED <<tx, lock, row, snap, gen, aps, live, cfg, said, good>>

Release(a) ==
  /\ At(a, "release")
  /\ lock' = NoTx
  /\ Finish(a)
  /\ UNCHANGED <<timer, row, snap, gen, aps, live, cfg, said, good>>

---------------------------------------------------------------------------
(* What can go wrong underneath.                                            *)

\* An exception in begin, health, arm or commit reaches the caller with the
\* lock still held; the boot process exits, and its lock goes with it.
Escape(a) ==
  /\ Faults /\ pc[a] \in {"snapshot", "journal", "health", "arm", "commit", "unlock"}
  /\ \/ UNCHANGED row
     \/ At(a, "journal") /\ row' = [row EXCEPT ![tx[a]] = "staged"]
  /\ lock' = IF a = Boot THEN NoTx ELSE lock
  /\ Finish(a)
  /\ UNCHANGED <<timer, snap, gen, aps, live, cfg, said, good>>

\* The audit call of arm() raises with the timer already started: the request
\* fails, the deadline is not announced and the countdown runs all the same.
ArmRaises(a) ==
  /\ Faults /\ At(a, "arm")
  /\ timer' = [timer EXCEPT ![tx[a]] = TRUE]
  /\ Finish(a)
  /\ UNCHANGED <<lock, row, snap, gen, aps, live, cfg, said, good>>

\* Mutant: a lock that outlives the process, as a lock file does.
DieLocked ==
  /\ tx'    = [a \in Actors |-> IF a \in Tx THEN a ELSE NoTx]
  /\ timer' = [t \in Tx |-> FALSE]
  /\ UNCHANGED <<lock, row, snap, gen, aps, cfg, said, good>>

\* A process takes its threads, its timers and its lock with it.
Die ==
  /\ tx'    = [a \in Actors |-> IF a \in Tx THEN a ELSE NoTx]
  /\ lock'  = NoTx
  /\ timer' = [t \in Tx |-> FALSE]
  /\ UNCHANGED <<row, snap, gen, aps, cfg, said, good>>

\* systemd restarts the web process (and the AP units that are PartOf it).
Restart ==
  /\ Crashes /\ WebUp
  /\ pc'   = [a \in Actors |-> "idle"]
  /\ live' = UnitsOnly(live["nftables"])
  /\ Die

Reboot ==
  /\ Crashes
  /\ pc'   = [a \in Actors |-> IF a = Boot THEN "boot" ELSE "idle"]
  /\ live' = UnitsOnly(Absent)
  /\ Die

---------------------------------------------------------------------------
\* What an actor that has work does next, unless something raises.
Step(a) ==
  \/ Acquire(a) \/ Refuse(a) \/ TakeSnapshot(a) \/ Journal(a)
  \/ \E f \in Files : Generate(a, f) \/ GenerateFails(a, f)
  \/ Reload(a) \/ MarkApplied(a) \/ HealthPasses(a) \/ HealthFails(a) \/ Arm(a)
  \/ CancelWatchdog(a) \/ MarkCommitted(a) \/ Unlock(a)
  \/ Wipe(a) \/ Extract(a) \/ Rereload(a) \/ MarkRolledBack(a)
  \/ Disarm(a) \/ Release(a)

Fault(a) == ApplyFault(a) \/ UndoFault(a) \/ Escape(a) \/ ArmRaises(a)

Request(w, t) == Apply(w, t) \/ Confirm(w, t) \/ Rollback(w, t)

BootRuns == BootSkip \/ \E t \in Tx : BootApply(t)

Next ==
  \/ \E a \in Actors : Step(a) \/ Fault(a)
  \/ \E w \in Workers, t \in Tx : Request(w, t)
  \/ \E t \in Tx : Expire(t)
  \/ BootRuns
  \/ Restart
  \/ Reboot

Spec == Init /\ [][Next]_vars

\* Threads are scheduled, timers fire and the boot unit runs; nobody promises
\* that the admin answers.
Fairness ==
  /\ \A a \in Actors : WF_vars(Step(a))
  /\ \A t \in Tx : WF_vars(Expire(t))
  /\ WF_vars(BootRuns)

FairSpec == Spec /\ Fairness

---------------------------------------------------------------------------
(* Properties                                                               *)

\* Types of the state: actors, journal states, file groups and configurations.
TypeOK ==
  /\ pc \in [Actors -> Labels]
  /\ tx \in [Actors -> Tx \cup {NoTx}]
  /\ lock \in Tx \cup {NoTx}
  /\ timer \in [Tx -> BOOLEAN]
  /\ row \in [Tx -> {"none", "staged", "applied", "committed", "rolledback"}]
  /\ snap \in [Tx -> [Files -> Configs]]
  /\ gen \in [Files -> Configs]
  /\ aps \in Configs
  /\ live \in [Services -> Configs]
  /\ cfg \in [Tx -> Configs]
  /\ said \in [Tx -> SUBSET {"deadline", "kept", "revert"}]
  /\ good \in Configs
  /\ \A t \in Tx : tx[t] = t
  /\ \A a \in Actors : pc[a] \notin {"idle", "boot"} => tx[a] # NoTx

\* Mutual exclusion behind _active_lock: a thread that is changing the box, and
\* a countdown that will, belong to the transaction the lock was acquired for,
\* and no two threads change the box at a time - although _release frees the
\* lock without asking whose it is.
Exclusive ==
  /\ \A a \in Actors : Busy(a) => lock = tx[a]
  /\ \A t \in Tx : timer[t] => lock = t
  /\ \A a, b \in Actors : Busy(a) /\ Busy(b) => a = b

\* While the lock is free the generated files are, as a whole, the configuration
\* committed last, and so is what the services run: no half-written, reverted or
\* mixed set of files survives a transaction, however it ended.  (On a box where
\* nothing was ever committed there are no files, and nft keeps what it has.)
Settled == \A f \in Files : gen[f] = good /\ (good # Absent => live[f] = good)

WholeConfig == lock = NoTx => Settled

\* transaction.py:14-16, as far as it is true: as long as no later request has stored
\* its rows, what runs while the lock is free is the configuration committed last in
\* every respect, addresses and policy rules, which no snapshot holds, included.
WholeBox ==
  lock = NoTx /\ good # Absent /\ aps = good => live = [s \in Services |-> good]

\* An admin who was told the change is kept, and did not ask to revert it, never
\* finds it reverted in the journal.
KeptStaysKept ==
  \A t \in Tx : "kept" \in said[t] /\ "revert" \notin said[t] => row[t] = "committed"

\* transaction.py:8-10: a change whose deadline was announced and that nobody has
\* decided is being watched - its countdown runs, or some thread is deciding it -
\* so that it is restored if the admin stays away.
TrialIsWatched ==
  \A t \in Tx : "deadline" \in said[t] /\ row[t] = "applied" => timer[t] \/ Attended(t)

\* The lock is never orphaned: if it is held, a thread at work on the holder
\* will release it, or the holder's countdown is ticking and its watchdog will.
NoOrphanLock ==
  lock # NoTx => timer[lock] \/ Attended(lock)

\* When the boot process commits, whatever its probes said and whatever crash it
\* followed, the files are as a whole those of the database, and so is all that runs:
\* a service that refuses its file runs nothing, never an older configuration.
BootConverges ==
  pc[Boot] \in Committing =>
    /\ gen = All(aps)
    /\ \A s \in Services : live[s] = IF <<aps, s>> \in Rejected THEN Absent ELSE aps

\* docs/SAFETY.md:33-34 and boot.py:12-14: boot applies the last committed
\* configuration, so never one whose transaction was rolled back.
BootAppliesCommitted ==
  pc[Boot] \in Calls /\ cfg[tx[Boot]] \in Tx => row[cfg[tx[Boot]]] # "rolledback"

\* transaction.py:14-16: restoring the snapshot and reloading returns the box -
\* everything that runs, addresses and policy rules too - to its last-known-good
\* state, so that is what runs once nobody changes it and nobody is asking to.
LastKnownGood ==
  (lock = NoTx /\ good # Absent /\ \A a \in Actors : At(a, "idle")) =>
    live = [s \in Services |-> good]

\* A decided transaction stays decided in the journal.
JournalFinal ==
  [][\A t \in Tx : row[t] \in {"committed", "rolledback"} => row'[t] = row[t]]_vars

\* Every journalled change is decided, though the admin may never answer.
Resolved ==
  \A t \in Tx : row[t] = "staged" ~> row[t] \in {"committed", "rolledback"}

\* Whoever holds the lock gives it up, or dies, so the next change is not
\* refused forever.
LockIsFreed == \A t \in Tx : lock = t ~> lock # t

\* The abstract promise: the lock is the trial, the journal row its fate, and the
\* files are in force when they are of one configuration and nobody changes them.
Fate ==
  [t \in Tx |-> IF row[t] = "committed" THEN "kept"
               ELSE IF row[t] = "rolledback" THEN "reverted" ELSE "open"]

InForce ==
  IF lock = NoTx /\ \A f \in Files : gen[f] = gen["hostapd"] THEN gen["hostapd"] ELSE NoTx

Promise == INSTANCE SafeChange WITH
  Change  <- Tx,
  Config  <- Tx \cup {Factory},
  Nothing <- Absent,
  NoTrial <- NoTx,
  OnTrial <- NoTx,
  wants   <- cfg,
  trial   <- lock,
  fate    <- Fate,
  kept    <- good,
  inForce <- InForce

\* The transaction manager implements the promise: every step is a step of it or
\* changes nothing it speaks of, and every trial ends.
KeepsPromise == Promise!Spec

PromiseSafety == Promise!Init /\ [][Promise!Next]_(Promise!svars)

\* The course of a change as one thread would run it: the lock is free between changes,
\* whoever is at work says how far the change has come, and a change nobody works on
\* is on trial.
StageOf(call) ==
  CASE call \in {"snapshot", "journal", "hostapd"} -> "hostapd"
    [] call \in {"reload", "applied"} -> "reload"
    [] call \in {"arm"} \cup Committing -> "trial"
    [] call \in {"wipe", "extract"} -> "restore"
    [] call \in Undoing \ {"wipe", "extract"} -> "rereload"
    [] OTHER -> call

CourseAt ==
  IF pc[Boot] \in {"boot", "acquire"} THEN "off"
  ELSE IF lock = NoTx \/ pc[Boot] \in Committing THEN "idle"
  ELSE IF \E a \in Actors : Busy(a) THEN StageOf(pc[CHOOSE a \in Actors : Busy(a)])
  ELSE "trial"

CourseBy ==
  IF CourseAt \in {"off", "idle", "rereload"} THEN "none"
  ELSE IF WebUp THEN "request" ELSE "boot"

Course == INSTANCE ChangeCourse WITH at <- CourseAt, by <- CourseBy

\* transaction.py:31, 73-75: the lock makes of all threads one: together they take
\* one change after the other along its course, and none does a step out of turn.
FollowsCourse == Course!Spec
=============================================================================
