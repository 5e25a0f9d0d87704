------------------------- MODULE TransactionProofs -------------------------
(***************************************************************************)
(* Proofs about Transaction, for any number of transactions and workers.    *)
(***************************************************************************)
EXTENDS Transaction, TLAPS

---------------------------------------------------------------------------
(* Type correctness                                                         *)

LEMMA TypeInit == Init => TypeOK
<1> SUFFICES ASSUME Init PROVE TypeOK
  OBVIOUS
<1> USE NamesAreDistinct DEF Init, Actors
<1>1. pc \in [Actors -> Labels]
  BY DEF Labels
<1>2. tx \in [Actors -> Tx \cup {NoTx}] /\ \A t \in Tx : tx[t] = t
  OBVIOUS
<1>3. \A a \in Actors : pc[a] \in {"idle", "boot"}
  OBVIOUS
<1>4. snap \in [Tx -> [Files -> Configs]] /\ gen \in [Files -> Configs]
  BY DEF All, Configs
<1>5. QED
  BY <1>1, <1>2, <1>3, <1>4 DEF TypeOK, Configs

LEMMA TypeNext == TypeOK /\ [Next]_vars => TypeOK'
<1> SUFFICES ASSUME TypeOK, [Next]_vars PROVE TypeOK'
  OBVIOUS
<1> USE NamesAreDistinct DEF TypeOK, At, Goto, Finish, Labels, Calls, Applying, Committing, Undoing, Actors
<1>1. ASSUME NEW a \in Actors, Acquire(a) PROVE TypeOK'
  BY <1>1 DEF Acquire
<1>2. ASSUME NEW a \in Actors, Refuse(a) PROVE TypeOK'
  BY <1>2 DEF Refuse
<1>3. ASSUME NEW a \in Actors, TakeSnapshot(a) PROVE TypeOK'
  BY <1>3 DEF TakeSnapshot
<1>4. ASSUME NEW a \in Actors, Journal(a) PROVE TypeOK'
  BY <1>4 DEF Journal
<1>5. ASSUME NEW a \in Actors, NEW f \in Files, Generate(a, f) PROVE TypeOK'
  BY <1>5 DEF Generate, Files, Configs, AfterFile
<1>6. ASSUME NEW a \in Actors, NEW f \in Files, GenerateFails(a, f) PROVE TypeOK'
  BY <1>6 DEF GenerateFails, Files, Configs
<1>7. ASSUME NEW a \in Actors, Reload(a) PROVE TypeOK'
  BY <1>7 DEF Reload, Reloads
<1>8. ASSUME NEW a \in Actors, MarkApplied(a) PROVE TypeOK'
  BY <1>8 DEF MarkApplied
<1>9. ASSUME NEW a \in Actors, HealthPasses(a) PROVE TypeOK'
  BY <1>9 DEF HealthPasses
<1>10. ASSUME NEW a \in Actors, HealthFails(a) PROVE TypeOK'
  BY <1>10 DEF HealthFails
<1>11. ASSUME NEW a \in Actors, Arm(a) PROVE TypeOK'
  BY <1>11 DEF Arm
<1>12. ASSUME NEW a \in Actors, CancelWatchdog(a) PROVE TypeOK'
  BY <1>12 DEF CancelWatchdog
<1>13. ASSUME NEW a \in Actors, MarkCommitted(a) PROVE TypeOK'
  BY <1>13 DEF MarkCommitted
<1>14. ASSUME NEW a \in Actors, Unlock(a) PROVE TypeOK'
  BY <1>14 DEF Unlock
<1>15. ASSUME NEW a \in Actors, Wipe(a) PROVE TypeOK'
  BY <1>15 DEF Wipe, All, Configs
<1>16. ASSUME NEW a \in Actors, Extract(a) PROVE TypeOK'
  BY <1>16 DEF Extract
<1>17. ASSUME NEW a \in Actors, Rereload(a) PROVE TypeOK'
  BY <1>17 DEF Rereload, Reloads
<1>18. ASSUME NEW a \in Actors, MarkRolledBack(a) PROVE TypeOK'
  BY <1>18 DEF MarkRolledBack
<1>19. ASSUME NEW a \in Actors, Disarm(a) PROVE TypeOK'
  BY <1>19 DEF Disarm
<1>20. ASSUME NEW a \in Actors, Release(a) PROVE TypeOK'
  BY <1>20 DEF Release
<1>21. ASSUME NEW a \in Actors, ApplyFault(a) PROVE TypeOK'
  BY <1>21 DEF ApplyFault
<1>22. ASSUME NEW a \in Actors, UndoFault(a) PROVE TypeOK'
  BY <1>22 DEF UndoFault
<1>23. ASSUME NEW a \in Actors, Escape(a) PROVE TypeOK'
  <2>1. row' \in [Tx -> {"none", "staged", "applied", "committed", "rolledback"}]
    BY <1>23 DEF Escape
  <2>2. lock' \in Tx \cup {NoTx}
    BY <1>23 DEF Escape
  <2>3. pc' \in [Actors -> Labels] /\ tx' \in [Actors -> Tx \cup {NoTx}]
    BY <1>23 DEF Escape
  <2>4. /\ \A t \in Tx : tx'[t] = t
        /\ \A b \in Actors : pc'[b] \notin {"idle", "boot"} => tx'[b] # NoTx
    BY <1>23 DEF Escape
  <2>5. QED
    BY <1>23, <2>1, <2>2, <2>3, <2>4 DEF Escape
<1>23a. ASSUME NEW a \in Actors, ArmRaises(a) PROVE TypeOK'
  BY <1>23a DEF ArmRaises
<1>24. ASSUME NEW w \in Workers, NEW t \in Tx, Apply(w, t) PROVE TypeOK'
  BY <1>24 DEF Apply, WebUp, Stage, PersistAps, Configs
<1>25. ASSUME NEW w \in Workers, NEW t \in Tx, Confirm(w, t) PROVE TypeOK'
  BY <1>25 DEF Confirm, WebUp
<1>26. ASSUME NEW w \in Workers, NEW t \in Tx, Rollback(w, t) PROVE TypeOK'
  BY <1>26 DEF Rollback, WebUp
<1>27. ASSUME NEW t \in Tx, Expire(t) PROVE TypeOK'
  BY <1>27 DEF Expire
<1>28. ASSUME NEW t \in Tx, BootApply(t) PROVE TypeOK'
  BY <1>28 DEF BootApply, Stage, PersistAps, Configs
<1>29. CASE BootSkip
  BY <1>29 DEF BootSkip
<1>30. CASE Restart
  BY <1>30 DEF Restart, Die, UnitsOnly, Services, Files, Configs, WebUp
<1>31. CASE Reboot
  BY <1>31 DEF Reboot, Die, UnitsOnly, Services, Files, Configs
<1>32. CASE UNCHANGED vars
  BY <1>32 DEF vars
<1>33. QED
  BY <1>1, <1>2, <1>3, <1>4, <1>5, <1>6, <1>7, <1>8, <1>9, <1>10, <1>11,
     <1>12, <1>13, <1>14, <1>15, <1>16, <1>17, <1>18, <1>19, <1>20, <1>21,
     <1>22, <1>23, <1>23a, <1>24, <1>25, <1>26, <1>27, <1>28, <1>29, <1>30, <1>31,
     <1>32
  DEF Next, Step, Fault, Request, BootRuns

\* Every variable keeps its type; an actor with work to do has a transaction.
THEOREM TypeCorrect == Spec => []TypeOK
  BY TypeInit, TypeNext, PTL DEF Spec

---------------------------------------------------------------------------
(* Mutual exclusion behind the change lock                                  *)

\* Exclusive is not inductive: freeing the lock is harmless only when the
\* countdown of the transaction that ends is off.  A thread that works on a
\* transaction whose countdown still ticks is one that answers it, on its way
\* to the call that cancels the timer.
Answering == {"cancel", "wipe", "extract", "rereload", "rolledback", "disarm"}

ExclusiveInv ==
  /\ Exclusive
  /\ \A a \in Actors : Busy(a) /\ timer[tx[a]] => pc[a] \in Answering

LEMMA ExclusiveInit == Init => ExclusiveInv
  BY DEF Init, ExclusiveInv, Exclusive, Busy, Calls, Applying, Committing, Undoing

\* Whoever frees the lock is alone with it: no countdown ticks, nobody else works.
LEMMA NobodyLeft ==
  ASSUME TypeOK, ExclusiveInv, NEW a \in Actors, Unlock(a) \/ Release(a)
  PROVE  /\ pc' = [pc EXCEPT ![a] = "idle"]
         /\ UNCHANGED <<timer, snap, gen, live, cfg, good, row>>
         /\ \A t \in Tx : ~timer[t]
         /\ \A b \in Actors : ~Busy(b)'
         /\ \A b \in Actors : b # a => tx'[b] = tx[b]
<1> USE DEF TypeOK, ExclusiveInv, Exclusive, Busy, Answering, At, Goto, Finish,
            Calls, Applying, Committing, Undoing
<1>1. /\ pc[a] \in {"unlock", "release"} /\ pc' = [pc EXCEPT ![a] = "idle"]
      /\ tx' = [tx EXCEPT ![a] = IF a \in Tx THEN a ELSE NoTx]
      /\ UNCHANGED <<timer, snap, gen, live, cfg, good, row>>
  BY DEF Unlock, Release
<1>2. Busy(a) /\ lock = tx[a] /\ ~timer[tx[a]]
  BY <1>1
<1>3. \A t \in Tx : ~timer[t]
  BY <1>2
<1>4. \A b \in Actors : b # a => ~Busy(b)
  BY <1>2
<1>5. \A b \in Actors : ~Busy(b)'
  BY <1>1, <1>4
<1>6. QED
  BY <1>1, <1>3, <1>5

LEMMA ExclusiveNext ==
  ASSUME ~Overlap, TypeOK, ExclusiveInv, [Next]_vars
  PROVE  ExclusiveInv'
<1> USE NamesAreDistinct
    DEF TypeOK, ExclusiveInv, Exclusive, Busy, Answering, At, Goto, Finish, Actors,
        Calls, Applying, Committing, Undoing
<1>1. ASSUME NEW a \in Actors, Acquire(a) PROVE ExclusiveInv'
  BY <1>1 DEF Acquire
<1>2. ASSUME NEW a \in Actors, Refuse(a) PROVE ExclusiveInv'
  BY <1>2 DEF Refuse
<1>3. ASSUME NEW a \in Actors, TakeSnapshot(a) PROVE ExclusiveInv'
  BY <1>3 DEF TakeSnapshot
<1>4. ASSUME NEW a \in Actors, Journal(a) PROVE ExclusiveInv'
  BY <1>4 DEF Journal
<1>5. ASSUME NEW a \in Actors, NEW f \in Files, Generate(a, f) PROVE ExclusiveInv'
  BY <1>5 DEF Generate, Files, AfterFile
<1>6. ASSUME NEW a \in Actors, NEW f \in Files, GenerateFails(a, f) PROVE ExclusiveInv'
  BY <1>6 DEF GenerateFails, Files
<1>7. ASSUME NEW a \in Actors, Reload(a) PROVE ExclusiveInv'
  BY <1>7 DEF Reload
<1>8. ASSUME NEW a \in Actors, MarkApplied(a) PROVE ExclusiveInv'
  BY <1>8 DEF MarkApplied
<1>9. ASSUME NEW a \in Actors, HealthPasses(a) PROVE ExclusiveInv'
  BY <1>9 DEF HealthPasses
<1>10. ASSUME NEW a \in Actors, HealthFails(a) PROVE ExclusiveInv'
  BY <1>10 DEF HealthFails
<1>11. ASSUME NEW a \in Actors, Arm(a) PROVE ExclusiveInv'
  BY <1>11 DEF Arm
<1>12. ASSUME NEW a \in Actors, CancelWatchdog(a) PROVE ExclusiveInv'
  BY <1>12 DEF CancelWatchdog
<1>13. ASSUME NEW a \in Actors, MarkCommitted(a) PROVE ExclusiveInv'
  BY <1>13 DEF MarkCommitted
<1>14. ASSUME NEW a \in Actors, Unlock(a) PROVE ExclusiveInv'
  BY <1>14, NobodyLeft
<1>15. ASSUME NEW a \in Actors, Wipe(a) PROVE ExclusiveInv'
  BY <1>15 DEF Wipe
<1>16. ASSUME NEW a \in Actors, Extract(a) PROVE ExclusiveInv'
  BY <1>16 DEF Extract
<1>17. ASSUME NEW a \in Actors, Rereload(a) PROVE ExclusiveInv'
  BY <1>17 DEF Rereload
<1>18. ASSUME NEW a \in Actors, MarkRolledBack(a) PROVE ExclusiveInv'
  BY <1>18 DEF MarkRolledBack
<1>19. ASSUME NEW a \in Actors, Disarm(a) PROVE ExclusiveInv'
  BY <1>19 DEF Disarm
<1>20. ASSUME NEW a \in Actors, Release(a) PROVE ExclusiveInv'
  BY <1>20, NobodyLeft
<1>21. ASSUME NEW a \in Actors, ApplyFault(a) PROVE ExclusiveInv'
  BY <1>21 DEF ApplyFault
<1>22. ASSUME NEW a \in Actors, UndoFault(a) PROVE ExclusiveInv'
  BY <1>22 DEF UndoFault
<1>23. ASSUME NEW a \in Actors, Escape(a) PROVE ExclusiveInv'
  BY <1>23 DEF Escape
<1>23a. ASSUME NEW a \in Actors, ArmRaises(a) PROVE ExclusiveInv'
  BY <1>23a DEF ArmRaises
<1>24. ASSUME NEW w \in Workers, NEW t \in Tx, Apply(w, t) PROVE ExclusiveInv'
  BY <1>24 DEF Apply, Stage, PersistAps
<1>25. ASSUME NEW w \in Workers, NEW t \in Tx, Confirm(w, t) PROVE ExclusiveInv'
  BY <1>25 DEF Confirm, Answerable, Attended
<1>26. ASSUME NEW w \in Workers, NEW t \in Tx, Rollback(w, t) PROVE ExclusiveInv'
  BY <1>26 DEF Rollback, Answerable, Attended
<1>27. ASSUME NEW t \in Tx, Expire(t) PROVE ExclusiveInv'
  BY <1>27 DEF Expire, Attended
<1>28. ASSUME NEW t \in Tx, BootApply(t) PROVE ExclusiveInv'
  BY <1>28 DEF BootApply, Stage, PersistAps
<1>29. CASE BootSkip
  BY <1>29 DEF BootSkip
<1>30. CASE Restart
  BY <1>30 DEF Restart, Die
<1>31. CASE Reboot
  BY <1>31 DEF Reboot, Die
<1>32. CASE UNCHANGED vars
  BY <1>32 DEF vars
<1>33. QED
  BY <1>1, <1>2, <1>3, <1>4, <1>5, <1>6, <1>7, <1>8, <1>9, <1>10, <1>11,
     <1>12, <1>13, <1>14, <1>15, <1>16, <1>17, <1>18, <1>19, <1>20, <1>21,
     <1>22, <1>23, <1>23a, <1>24, <1>25, <1>26, <1>27, <1>28, <1>29, <1>30, <1>31,
     <1>32
  DEF Next, Step, Fault, Request, BootRuns

\* While the admin answers only running countdowns, one answer at a time, no
\* crash, no fault and no order of steps lets two threads change the box at once,
\* or leaves a countdown ticking for a transaction that lost the lock.
THEOREM MutualExclusion == ASSUME ~Overlap PROVE Spec => []Exclusive
<1>1. Init => TypeOK /\ ExclusiveInv
  BY TypeInit, ExclusiveInit
<1>2. TypeOK /\ ExclusiveInv /\ [Next]_vars => (TypeOK /\ ExclusiveInv)'
  BY TypeNext, ExclusiveNext
<1>3. ExclusiveInv => Exclusive
  BY DEF ExclusiveInv
<1>4. QED
  BY <1>1, <1>2, <1>3, PTL DEF Spec

---------------------------------------------------------------------------
(* The lock is never orphaned                                               *)

LEMMA NoOrphanNext ==
  ASSUME ~Faults, TypeOK, NoOrphanLock, [Next]_vars
  PROVE  NoOrphanLock'
<1> USE NamesAreDistinct
    DEF TypeOK, NoOrphanLock, Attended, Busy, At, Goto, Finish, Actors,
        Calls, Applying, Committing, Undoing
<1>1. ASSUME NEW a \in Actors, Acquire(a) PROVE NoOrphanLock'
  BY <1>1 DEF Acquire
<1>2. ASSUME NEW a \in Actors, Refuse(a) PROVE NoOrphanLock'
  BY <1>2 DEF Refuse
<1>3. ASSUME NEW a \in Actors, TakeSnapshot(a) PROVE NoOrphanLock'
  BY <1>3 DEF TakeSnapshot
<1>4. ASSUME NEW a \in Actors, Journal(a) PROVE NoOrphanLock'
  BY <1>4 DEF Journal
<1>5. ASSUME NEW a \in Actors, NEW f \in Files, Generate(a, f) PROVE NoOrphanLock'
  BY <1>5 DEF Generate, Files, AfterFile
<1>6. ASSUME NEW a \in Actors, NEW f \in Files, GenerateFails(a, f) PROVE NoOrphanLock'
  BY <1>6 DEF GenerateFails, Files
<1>7. ASSUME NEW a \in Actors, Reload(a) PROVE NoOrphanLock'
  BY <1>7 DEF Reload
<1>8. ASSUME NEW a \in Actors, MarkApplied(a) PROVE NoOrphanLock'
  BY <1>8 DEF MarkApplied
<1>9. ASSUME NEW a \in Actors, HealthPasses(a) PROVE NoOrphanLock'
  BY <1>9 DEF HealthPasses
<1>10. ASSUME NEW a \in Actors, HealthFails(a) PROVE NoOrphanLock'
  BY <1>10 DEF HealthFails
<1>11. ASSUME NEW a \in Actors, Arm(a) PROVE NoOrphanLock'
  BY <1>11 DEF Arm
<1>12. ASSUME NEW a \in Actors, CancelWatchdog(a) PROVE NoOrphanLock'
  BY <1>12 DEF CancelWatchdog
<1>13. ASSUME NEW a \in Actors, MarkCommitted(a) PROVE NoOrphanLock'
  BY <1>13 DEF MarkCommitted
<1>14. ASSUME NEW a \in Actors, Unlock(a) PROVE NoOrphanLock'
  BY <1>14 DEF Unlock
<1>15. ASSUME NEW a \in Actors, Wipe(a) PROVE NoOrphanLock'
  BY <1>15 DEF Wipe
<1>16. ASSUME NEW a \in Actors, Extract(a) PROVE NoOrphanLock'
  BY <1>16 DEF Extract
<1>17. ASSUME NEW a \in Actors, Rereload(a) PROVE NoOrphanLock'
  BY <1>17 DEF Rereload
<1>18. ASSUME NEW a \in Actors, MarkRolledBack(a) PROVE NoOrphanLock'
  BY <1>18 DEF MarkRolledBack
<1>19. ASSUME NEW a \in Actors, Disarm(a) PROVE NoOrphanLock'
  BY <1>19 DEF Disarm
<1>20. ASSUME NEW a \in Actors, Release(a) PROVE NoOrphanLock'
  BY <1>20 DEF Release
<1>21. ASSUME NEW a \in Actors, ApplyFault(a) PROVE NoOrphanLock'
  BY <1>21 DEF ApplyFault
<1>22. ASSUME NEW a \in Actors, UndoFault(a) PROVE NoOrphanLock'
  BY <1>22 DEF UndoFault
<1>23. ASSUME NEW a \in Actors, Escape(a) PROVE NoOrphanLock'
  BY <1>23 DEF Escape
<1>23a. ASSUME NEW a \in Actors, ArmRaises(a) PROVE NoOrphanLock'
  BY <1>23a DEF ArmRaises
<1>24. ASSUME NEW w \in Workers, NEW t \in Tx, Apply(w, t) PROVE NoOrphanLock'
  BY <1>24 DEF Apply, Stage, PersistAps
<1>25. ASSUME NEW w \in Workers, NEW t \in Tx, Confirm(w, t) PROVE NoOrphanLock'
  BY <1>25 DEF Confirm, Answerable, Attended
<1>26. ASSUME NEW w \in Workers, NEW t \in Tx, Rollback(w, t) PROVE NoOrphanLock'
  BY <1>26 DEF Rollback, Answerable, Attended
<1>27. ASSUME NEW t \in Tx, Expire(t) PROVE NoOrphanLock'
  BY <1>27 DEF Expire, Attended
<1>28. ASSUME NEW t \in Tx, BootApply(t) PROVE NoOrphanLock'
  BY <1>28 DEF BootApply, Stage, PersistAps
<1>29. CASE BootSkip
  BY <1>29 DEF BootSkip
<1>30. CASE Restart
  BY <1>30 DEF Restart, Die
<1>31. CASE Reboot
  BY <1>31 DEF Reboot, Die
<1>32. CASE UNCHANGED vars
  BY <1>32 DEF vars
<1>33. QED
  BY <1>1, <1>2, <1>3, <1>4, <1>5, <1>6, <1>7, <1>8, <1>9, <1>10, <1>11,
     <1>12, <1>13, <1>14, <1>15, <1>16, <1>17, <1>18, <1>19, <1>20, <1>21,
     <1>22, <1>23, <1>23a, <1>24, <1>25, <1>26, <1>27, <1>28, <1>29, <1>30, <1>31,
     <1>32
  DEF Next, Step, Fault, Request, BootRuns

\* Whatever answers arrive, at whatever moment, and whatever crashes: as long as
\* the disk and the database raise nothing, somebody is left who will free the lock.
THEOREM LockHasAReleaser == ASSUME ~Faults PROVE Spec => []NoOrphanLock
<1>1. Init => NoOrphanLock
  BY DEF Init, NoOrphanLock
<1>2. QED
  BY <1>1, TypeInit, TypeNext, NoOrphanNext, PTL DEF Spec

---------------------------------------------------------------------------
(* The configuration in force while no change is on trial                   *)

\* A web process that runs leaves the boot process ended.
LEMMA WebStaysUp ==
  ASSUME TypeOK, WebUp, [Next]_vars, ~Reboot
  PROVE  pc'[Boot] = "idle"
<1> USE NamesAreDistinct DEF TypeOK, WebUp, At, Goto, Finish, Actors, Files
<1>1. ASSUME NEW a \in Actors, Step(a) PROVE pc'[Boot] = "idle"
  <2>1. a # Boot /\ \E l : pc' = [pc EXCEPT ![a] = l]
    BY <1>1
    DEF Step, Acquire, Refuse, TakeSnapshot, Journal, Generate, GenerateFails, Reload, MarkApplied,
        HealthPasses, HealthFails, Arm, CancelWatchdog, MarkCommitted, Unlock, Wipe, Extract,
        Rereload, MarkRolledBack, Disarm, Release
  <2>2. QED
    BY <2>1
<1>2. ASSUME NEW a \in Actors, Fault(a) PROVE pc'[Boot] = "idle"
  BY <1>2 DEF Fault, ApplyFault, UndoFault, Escape, ArmRaises
<1>3. ASSUME NEW w \in Workers, NEW t \in Tx, Request(w, t) PROVE pc'[Boot] = "idle"
  BY <1>3 DEF Request, Apply, Stage, Confirm, Rollback
<1>4. ASSUME NEW t \in Tx, Expire(t) PROVE pc'[Boot] = "idle"
  BY <1>4 DEF Expire
<1>5. Restart \/ BootRuns \/ UNCHANGED vars => pc'[Boot] = "idle"
  BY DEF Restart, BootRuns, BootSkip, BootApply, vars
<1>6. QED
  BY <1>1, <1>2, <1>3, <1>4, <1>5 DEF Next

\* The first boot of a box has no rows to apply, and without crashes there is no other.
FirstBoot ==
  /\ pc[Boot] = "boot" => aps = Absent
  /\ pc[Boot] \notin {"boot", "idle"} => cfg[tx[Boot]] = Factory

LEMMA FirstBootNext ==
  ASSUME ~Crashes, TypeOK, FirstBoot, [Next]_vars PROVE FirstBoot'
<1> USE NamesAreDistinct DEF TypeOK, FirstBoot, Actors
<1>1. CASE WebUp
  BY <1>1, WebStaysUp DEF WebUp, At, Reboot
<1>2. CASE ~WebUp
  <2>1. ASSUME NEW a \in Actors, Step(a) \/ Fault(a) PROVE FirstBoot'
    <3>1. /\ pc[a] \notin {"idle", "boot"} /\ UNCHANGED <<aps, cfg>>
          /\ \/ UNCHANGED tx /\ \E l \in Calls : pc' = [pc EXCEPT ![a] = l]
             \/ /\ pc' = [pc EXCEPT ![a] = "idle"]
                /\ tx' = [tx EXCEPT ![a] = IF a \in Tx THEN a ELSE NoTx]
      BY <2>1
      DEF Step, Acquire, Refuse, TakeSnapshot, Journal, Generate, AfterFile, GenerateFails, Reload,
          MarkApplied, HealthPasses, HealthFails, Arm, CancelWatchdog, MarkCommitted, Unlock, Wipe,
          Extract, Rereload, MarkRolledBack, Disarm, Release, Files, Goto, Finish, At,
          Fault, ApplyFault, UndoFault, Escape, ArmRaises, Calls, Applying, Committing, Undoing
    <3>2. QED
      BY <3>1 DEF Calls, Applying, Committing, Undoing
  <2>2. ASSUME NEW t \in Tx, BootApply(t) PROVE FirstBoot'
    BY <2>2 DEF BootApply, Stage, PersistAps, Goto, At
  <2>3. CASE BootSkip
    BY <2>3 DEF BootSkip, Finish, Goto
  <2>4. CASE UNCHANGED vars
    BY <2>4 DEF vars
  <2>5. /\ ~Restart /\ ~Reboot
        /\ \A w \in Workers, t \in Tx : ~Request(w, t)
    BY <1>2 DEF Restart, Reboot, Request, Apply, Confirm, Rollback
  <2>6. ASSUME NEW t \in Tx, Expire(t) PROVE FirstBoot'
    BY <2>6 DEF Expire, Goto
  <2>7. QED
    BY <2>1, <2>2, <2>3, <2>4, <2>5, <2>6 DEF Next, BootRuns
<1>3. QED
  BY <1>1, <1>2

\* Every service loads the files of configuration c.
Accepted(c) == \A f \in Files : <<c, f>> \notin Rejected

\* The state of a change on trial that nobody is deciding: its probes have passed.
OnTrial(t) ==
  /\ cfg[t] # Absent /\ Accepted(cfg[t])
  /\ \A f \in Files : gen[f] = cfg[t] /\ live[f] = cfg[t] /\ snap[t][f] = good

\* What has been saved, written, loaded or restored when an actor gets to a call.
Progress(a) ==
  LET t == tx[a] IN
  /\ pc[a] \in {"snapshot", "journal", "hostapd", "unlock", "rolledback", "disarm", "release"}
       => Settled
  /\ pc[a] \in Calls \ {"snapshot", "unlock"} => \A f \in Files : snap[t][f] = good
  /\ pc[a] \in {"dnsmasq", "nftables"} => gen["hostapd"] = cfg[t]
  /\ pc[a] = "nftables" => gen["dnsmasq"] = cfg[t]
  /\ pc[a] = "reload" => \A f \in Files : gen[f] = cfg[t]
  /\ pc[a] \in {"applied", "health"} =>
       \A f \in Files : gen[f] = cfg[t] /\ (Accepted(cfg[t]) => live[f] = cfg[t])
  /\ pc[a] \in {"applied", "health"} /\ ~Accepted(cfg[t]) => ~ProbesPass
  /\ pc[a] \in {"arm", "cancel", "commit"} => OnTrial(t)
  /\ pc[a] = "rereload" => \A f \in Files : gen[f] = good

\* WholeConfig, strengthened with the way back (the snapshot is the configuration
\* committed last) and the way forward of whoever holds the lock.
WholeInv ==
  /\ WholeConfig
  /\ \A t \in Tx : timer[t] /\ ~Attended(t) => OnTrial(t)
  /\ \A a \in Actors : Busy(a) => Progress(a)
  /\ \A a \in Actors : Busy(a) \/ At(a, "acquire") => cfg[tx[a]] # Absent
  /\ \A t \in Tx : timer[t] => cfg[t] # Absent
  /\ Accepted(good)

\* No service refuses the bootstrap configuration, or the lack of one.
LEMMA OwnAreAccepted == Accepted(Factory) /\ Accepted(Absent)
  BY SomeAreRejected, NamesAreDistinct DEF Accepted

\* A reload none of whose commands fails for another reason runs what is generated,
\* if no service refuses it; if one does, a probe tells.
LEMMA ReloadShows ==
  ASSUME ~Faults, Reloads, NEW c \in Configs \ {Absent}, \A f \in Files : gen[f] = c,
         UNCHANGED gen
  PROVE  /\ live' = Reloaded
         /\ Accepted(c) => \A f \in Files : live'[f] = c
         /\ ~Accepted(c) => ~ProbesPass'
<1>1. \A s \in Services : live'[s] = Reloaded[s]
  BY DEF Reloads, Left
<1>2. live' = Reloaded
  BY <1>1 DEF Reloads, Reloaded
<1>3. Accepted(c) => \A f \in Files : live'[f] = c
  BY <1>1 DEF Accepted, Reloaded, Services, Files
<1>4. ASSUME ~Accepted(c) PROVE ~ProbesPass'
  BY <1>1, <1>4 DEF Accepted, Reloaded, ProbesPass, Services, Files
<1>5. QED
  BY <1>2, <1>3, <1>4

LEMMA WholeInit == Init => WholeInv
<1> SUFFICES ASSUME Init PROVE WholeInv
  OBVIOUS
<1>1. \A a \in Actors : ~Busy(a) /\ ~At(a, "acquire")
  BY DEF Init, Busy, At, Calls, Applying, Committing, Undoing
<1>2. Settled
  BY DEF Init, Settled, All, Files, Services
<1>3. (\A t \in Tx : ~timer[t]) /\ Accepted(good)
  BY OwnAreAccepted DEF Init
<1>4. QED
  BY <1>1, <1>2, <1>3 DEF WholeInv, WholeConfig

\* The thread at work goes on to its next call: all that is left to show is what has been
\* saved, written, loaded or restored when it gets there.
LEMMA AtWork ==
  ASSUME TypeOK, TypeOK', Exclusive, WholeInv, NEW a \in Actors, Busy(a), NEW l \in Calls,
         pc' = [pc EXCEPT ![a] = l], UNCHANGED <<tx, lock, cfg>>,
         \A t \in Tx : timer'[t] => timer[t], Accepted(good'), Progress(a)'
  PROVE  WholeInv'
<1> USE DEF Busy, At, Actors
<1>1. \A b \in Actors : Busy(b)' => b = a
  BY DEF TypeOK, Exclusive
<1>2. Busy(a)' /\ lock = tx[a] /\ tx[a] \in Tx /\ tx[a] # NoTx /\ cfg[tx[a]] # Absent
  BY NamesAreDistinct DEF TypeOK, Exclusive, WholeInv, Calls, Applying, Committing, Undoing
<1>3. WholeConfig'
  BY <1>2, NamesAreDistinct DEF WholeConfig
<1>4. \A t \in Tx : timer'[t] => t = tx[a] /\ Attended(t)'
  BY <1>2 DEF Exclusive, Attended
<1>5. \A b \in Actors : b # a => pc'[b] = pc[b]
  BY DEF TypeOK
<1>6. \A b \in Actors : (Busy(b) \/ At(b, "acquire"))' => cfg'[tx'[b]] # Absent
  BY <1>1, <1>2, <1>5 DEF WholeInv, TypeOK
<1>7. QED
  BY <1>1, <1>2, <1>3, <1>4, <1>6 DEF WholeInv

\* The thread at work ends and frees the lock.
LEMMA WorkEnds ==
  ASSUME TypeOK, ExclusiveInv, WholeInv, NEW a \in Actors, Unlock(a) \/ Release(a)
  PROVE  WholeInv'
<1>1. /\ pc' = [pc EXCEPT ![a] = "idle"]
      /\ UNCHANGED <<timer, snap, gen, live, cfg, good>>
      /\ \A t \in Tx : ~timer[t]
      /\ \A b \in Actors : ~Busy(b)'
      /\ \A b \in Actors : b # a => tx'[b] = tx[b]
  BY NobodyLeft
<1>2. Settled
  BY DEF Unlock, Release, WholeInv, Progress, Busy, At, Calls, Committing, Undoing
<1>3. Settled'
  BY <1>1, <1>2 DEF Settled
<1>4. \A b \in Actors : At(b, "acquire")' => cfg'[tx'[b]] # Absent
  BY <1>1 DEF WholeInv, At, TypeOK
<1>5. QED
  BY <1>1, <1>3, <1>4 DEF WholeInv, WholeConfig, Attended

LEMMA WholeNext ==
  ASSUME ~Overlap, ~Crashes, ~Faults, TypeOK, ExclusiveInv, FirstBoot, WholeInv, [Next]_vars
  PROVE  WholeInv'
<1> USE NamesAreDistinct DEF At, Goto, Calls, Applying, Committing, Undoing
<1>0. TypeOK' /\ Exclusive
  BY TypeNext DEF ExclusiveInv
<1>1. ASSUME NEW a \in Actors, Acquire(a) PROVE WholeInv'
  <2>1. /\ pc[a] = "acquire" /\ lock = NoTx /\ lock' = tx[a] /\ tx[a] \in Tx
        /\ pc' = [pc EXCEPT ![a] = "snapshot"]
        /\ UNCHANGED <<tx, timer, snap, gen, live, cfg, good>>
    BY <1>1 DEF Acquire, TypeOK
  <2>2. (\A b \in Actors : ~Busy(b)) /\ \A t \in Tx : ~timer[t]
    <3>1. \A b \in Actors : Busy(b) => tx[b] # NoTx
      BY DEF TypeOK, Busy
    <3>2. QED
      BY <1>0, <2>1, <3>1 DEF Exclusive
  <2>3. Settled'
    BY <2>1 DEF WholeInv, WholeConfig, Settled
  <2>4. \A b \in Actors : (Busy(b) \/ At(b, "acquire"))' => cfg'[tx'[b]] # Absent /\ (Busy(b)' => b = a)
    BY <2>1, <2>2 DEF WholeInv, Busy, TypeOK
  <2>5. Progress(a)'
    BY <2>1, <2>3 DEF Progress, TypeOK
  <2>6. QED
    BY <2>1, <2>2, <2>3, <2>4, <2>5 DEF WholeInv, WholeConfig
<1>2. ASSUME NEW a \in Actors, Refuse(a) PROVE WholeInv'
  <2>1. /\ pc[a] = "acquire" /\ lock # NoTx /\ pc' = [pc EXCEPT ![a] = "idle"]
        /\ \A b \in Actors : b # a => tx'[b] = tx[b]
        /\ UNCHANGED <<lock, timer, snap, gen, aps, live, cfg, good>>
    BY <1>2 DEF Refuse, Finish, TypeOK
  <2>2. \A b \in Actors : Busy(b)' => Busy(b) /\ b # a /\ pc'[b] = pc[b] /\ tx'[b] = tx[b]
    BY <2>1 DEF Busy, TypeOK
  <2>3. \A b \in Actors : Busy(b) => b # a /\ Busy(b)' /\ tx'[b] = tx[b]
    BY <2>1 DEF Busy, TypeOK
  <2>4. \A b \in Actors : Busy(b)' => Progress(b)'
    BY <2>1, <2>2 DEF WholeInv, Progress, Settled, OnTrial, ProbesPass
  <2>5. \A t \in Tx : Attended(t)' <=> Attended(t)
    BY <2>2, <2>3 DEF Attended
  <2>6. \A b \in Actors : (Busy(b) \/ At(b, "acquire"))' => cfg'[tx'[b]] # Absent
    BY <2>1, <2>2 DEF WholeInv, TypeOK
  <2>7. QED
    BY <2>1, <2>4, <2>5, <2>6 DEF WholeInv, WholeConfig, OnTrial
\* The thread at work: who it is, and what it knows.
<1>3. ASSUME NEW a \in Actors, Busy(a)
      PROVE  /\ tx[a] \in Tx /\ cfg[tx[a]] \in Configs \ {Absent}
             /\ Progress(a) /\ Accepted(good)
  BY <1>3 DEF WholeInv, TypeOK, Busy
<1>4. ASSUME NEW a \in Actors, TakeSnapshot(a) \/ Journal(a) PROVE WholeInv'
  <2>1. \E l \in Calls : pc' = [pc EXCEPT ![a] = l]
    BY <1>4 DEF TakeSnapshot, Journal
  <2>2. Busy(a) /\ Progress(a)'
    BY <1>3, <1>4 DEF TakeSnapshot, Journal, Progress, Settled, Busy, TypeOK
  <2>3. QED
    BY <1>0, <1>3, <1>4, <2>1, <2>2, AtWork DEF TakeSnapshot, Journal
<1>5. ASSUME NEW a \in Actors, NEW f \in Files, Generate(a, f) \/ GenerateFails(a, f)
      PROVE  WholeInv'
  <2>1. Busy(a) /\ \E l \in Calls : pc' = [pc EXCEPT ![a] = l]
    BY <1>5 DEF Generate, GenerateFails, AfterFile, Files, Busy
  <2>2. Progress(a)'
    BY <1>3, <1>5, <2>1 DEF Generate, GenerateFails, AfterFile, Files, Progress, TypeOK
  <2>3. QED
    BY <1>0, <1>3, <1>5, <2>1, <2>2, AtWork DEF Generate, GenerateFails
<1>7. ASSUME NEW a \in Actors, Reload(a) PROVE WholeInv'
  <2>1. /\ pc[a] = "reload" /\ pc' = [pc EXCEPT ![a] = "applied"] /\ Reloads /\ Busy(a)
        /\ UNCHANGED <<tx, lock, timer, row, snap, gen, aps, cfg, good>>
    BY <1>7 DEF Reload, Busy
  <2>2. \A f \in Files : gen[f] = cfg[tx[a]] /\ snap[tx[a]][f] = good
    BY <1>3, <2>1 DEF Progress
  <2>3. /\ Accepted(cfg[tx[a]]) => \A f \in Files : live'[f] = cfg[tx[a]]
        /\ ~Accepted(cfg[tx[a]]) => ~ProbesPass'
    BY <1>3, <2>1, <2>2, ReloadShows
  <2>4. pc'[a] = "applied"
    BY <2>1 DEF TypeOK
  <2>5. Progress(a)'
    BY <2>1, <2>2, <2>3, <2>4 DEF Progress
  <2>6. QED
    BY <1>0, <1>3, <2>1, <2>5, AtWork
<1>8. ASSUME NEW a \in Actors, MarkApplied(a) PROVE WholeInv'
  <2>1. /\ pc[a] = "applied" /\ pc' = [pc EXCEPT ![a] = "health"] /\ Busy(a)
        /\ UNCHANGED <<tx, lock, timer, snap, gen, aps, live, cfg, good>>
    BY <1>8 DEF MarkApplied, Busy
  <2>2. pc'[a] = "health" /\ (ProbesPass' <=> ProbesPass)
    BY <2>1 DEF TypeOK, ProbesPass
  <2>3. Progress(a)'
    BY <1>3, <2>1, <2>2 DEF Progress
  <2>4. QED
    BY <1>0, <1>3, <2>1, <2>3, AtWork
<1>9. ASSUME NEW a \in Actors, HealthPasses(a) PROVE WholeInv'
  <2>1. /\ pc[a] = "health" /\ Busy(a) /\ (a = Boot \/ ProbesPass)
        /\ UNCHANGED <<tx, lock, timer, row, snap, gen, aps, live, cfg, said, good>>
    BY <1>9 DEF HealthPasses, Busy
  <2>2. PICK l \in {"arm", "cancel"} : pc' = [pc EXCEPT ![a] = l]
    BY <1>9 DEF HealthPasses
  <2>3. Accepted(cfg[tx[a]])
    BY <1>3, <2>1, OwnAreAccepted DEF FirstBoot, Progress
  <2>4. OnTrial(tx[a])
    BY <1>3, <2>1, <2>3 DEF Progress, OnTrial
  <2>5. pc'[a] = l
    BY <2>2 DEF TypeOK
  <2>6. Progress(a)'
    BY <2>1, <2>4, <2>5 DEF Progress, OnTrial
  <2>7. QED
    BY <1>0, <1>3, <2>1, <2>2, <2>6, AtWork
<1>10. ASSUME NEW a \in Actors, HealthFails(a) PROVE WholeInv'
  <2>1. Busy(a) /\ Progress(a)'
    BY <1>3, <1>10 DEF HealthFails, Progress, Busy, TypeOK
  <2>2. QED
    BY <1>0, <1>3, <1>10, <2>1, AtWork DEF HealthFails
<1>11. ASSUME NEW a \in Actors, Arm(a) PROVE WholeInv'
  <2>1. /\ pc[a] = "arm" /\ pc' = [pc EXCEPT ![a] = "idle"] /\ Busy(a)
        /\ timer' = [timer EXCEPT ![tx[a]] = TRUE]
        /\ \A b \in Actors : b # a => tx'[b] = tx[b]
        /\ UNCHANGED <<lock, row, snap, gen, aps, live, cfg, good>>
    BY <1>11 DEF Arm, Finish, Busy, TypeOK
  <2>2. OnTrial(tx[a]) /\ lock = tx[a] /\ lock # NoTx
    BY <1>0, <1>3, <2>1 DEF Progress, Exclusive
  <2>3. \A b \in Actors : ~Busy(b)'
    BY <1>0, <2>1 DEF Exclusive, Busy, TypeOK
  <2>4. \A t \in Tx : timer'[t] => t = tx[a]
    BY <1>0, <2>1, <2>2 DEF Exclusive, TypeOK
  <2>5. \A b \in Actors : At(b, "acquire")' => cfg'[tx'[b]] # Absent
    BY <2>1 DEF WholeInv, TypeOK
  <2>7. OnTrial(lock)' /\ cfg'[lock'] # Absent /\ lock' # NoTx /\ Accepted(good')
    BY <2>1, <2>2, <1>3 DEF OnTrial
  <2>8. \A t \in Tx : timer'[t] => OnTrial(t)' /\ cfg'[t] # Absent
    BY <2>1, <2>2, <2>4, <2>7 DEF OnTrial
  <2>9. QED
    BY <2>3, <2>5, <2>7, <2>8 DEF WholeInv, WholeConfig
<1>12. ASSUME NEW a \in Actors, CancelWatchdog(a) PROVE WholeInv'
  <2>1. /\ pc[a] = "cancel" /\ pc' = [pc EXCEPT ![a] = "commit"] /\ Busy(a)
        /\ \A t \in Tx : timer'[t] => timer[t]
        /\ UNCHANGED <<tx, lock, row, snap, gen, aps, live, cfg, said, good>>
    BY <1>12 DEF CancelWatchdog, Busy, TypeOK
  <2>2. Progress(a)'
    BY <1>3, <2>1 DEF Progress, OnTrial, TypeOK
  <2>3. QED
    BY <1>0, <1>3, <2>1, <2>2, AtWork
<1>13. ASSUME NEW a \in Actors, MarkCommitted(a) PROVE WholeInv'
  <2>1. /\ pc[a] = "commit" /\ pc' = [pc EXCEPT ![a] = "unlock"] /\ Busy(a)
        /\ good' = cfg[tx[a]]
        /\ UNCHANGED <<tx, lock, timer, snap, gen, aps, live, cfg, said>>
    BY <1>13 DEF MarkCommitted, Busy
  <2>2. OnTrial(tx[a])
    BY <1>3, <2>1 DEF Progress
  <2>3. pc'[a] = "unlock" /\ Settled' /\ Accepted(good')
    BY <2>1, <2>2 DEF OnTrial, Settled, TypeOK
  <2>4. Progress(a)'
    BY <2>3 DEF Progress
  <2>5. QED
    BY <1>0, <2>1, <2>3, <2>4, AtWork
<1>14. ASSUME NEW a \in Actors, Unlock(a) \/ Release(a) PROVE WholeInv'
  BY <1>14, WorkEnds
<1>15. ASSUME NEW a \in Actors, Wipe(a) \/ Extract(a) PROVE WholeInv'
  <2>1. Busy(a) /\ \E l \in Calls : pc' = [pc EXCEPT ![a] = l]
    BY <1>15 DEF Wipe, Extract, Busy
  <2>2. Progress(a)'
    BY <1>3, <1>15, <2>1 DEF Wipe, Extract, All, Progress, TypeOK
  <2>3. QED
    BY <1>0, <1>3, <1>15, <2>1, <2>2, AtWork DEF Wipe, Extract
<1>17. ASSUME NEW a \in Actors, Rereload(a) PROVE WholeInv'
  <2>1. /\ pc[a] = "rereload" /\ pc' = [pc EXCEPT ![a] = "rolledback"] /\ Reloads /\ Busy(a)
        /\ UNCHANGED <<tx, lock, timer, row, snap, gen, aps, cfg, good>>
    BY <1>17 DEF Rereload, Busy
  <2>2. \A f \in Files : gen[f] = good /\ snap[tx[a]][f] = good
    BY <1>3, <2>1 DEF Progress
  <2>3. good \in Configs
    BY DEF TypeOK
  <2>4. good # Absent => \A f \in Files : live'[f] = good
    BY <1>3, <2>1, <2>2, <2>3, ReloadShows
  <2>5. Settled' /\ pc'[a] = "rolledback"
    BY <2>1, <2>2, <2>4 DEF Settled, TypeOK
  <2>6. Progress(a)'
    BY <2>1, <2>2, <2>5 DEF Progress
  <2>7. QED
    BY <1>0, <1>3, <2>1, <2>6, AtWork
<1>18. ASSUME NEW a \in Actors, MarkRolledBack(a) \/ Disarm(a) PROVE WholeInv'
  <2>1. /\ Busy(a) /\ pc[a] \in {"rolledback", "disarm"}
        /\ \E l \in {"disarm", "release"} : pc' = [pc EXCEPT ![a] = l]
        /\ \A t \in Tx : timer'[t] => timer[t]
        /\ UNCHANGED <<tx, lock, snap, gen, aps, live, cfg, said, good>>
    BY <1>18 DEF MarkRolledBack, Disarm, Busy, TypeOK
  <2>2. Progress(a)'
    BY <1>3, <2>1 DEF Progress, Settled, TypeOK
  <2>3. QED
    BY <1>0, <1>3, <2>1, <2>2, AtWork
<1>21. ASSUME NEW a \in Actors, Fault(a) PROVE WholeInv'
  BY <1>21 DEF Fault, ApplyFault, UndoFault, Escape, ArmRaises
<1>24. ASSUME NEW a \in Actors, NEW t \in Tx, NEW c \in Configs \ {Absent}, ~Busy(a), Stage(a, t, c)
       PROVE  WholeInv'
  <2>1. /\ pc' = [pc EXCEPT ![a] = "acquire"] /\ tx' = [tx EXCEPT ![a] = t]
        /\ cfg' = [cfg EXCEPT ![t] = c] /\ cfg[t] = Absent
        /\ UNCHANGED <<lock, timer, row, snap, gen, live, good>>
    BY <1>24 DEF Stage
  <2>2. \A b \in Actors : Busy(b)' => Busy(b) /\ b # a /\ pc'[b] = pc[b] /\ tx'[b] = tx[b]
    BY <2>1 DEF Busy, TypeOK
  <2>3. \A b \in Actors : Busy(b) => b # a /\ Busy(b)' /\ tx'[b] = tx[b] /\ tx[b] # t
    BY <1>3, <1>24, <2>1 DEF Busy, TypeOK
  <2>4. \A b \in Actors : Busy(b)' => Progress(b)' /\ cfg'[tx'[b]] # Absent
    <3> TAKE b \in Actors
    <3> HAVE Busy(b)'
    <3>1. Busy(b) /\ pc'[b] = pc[b] /\ tx'[b] = tx[b] /\ tx[b] \in Tx /\ cfg'[tx[b]] = cfg[tx[b]]
      BY <1>3, <2>1, <2>2, <2>3 DEF TypeOK
    <3>2. Progress(b) /\ cfg[tx[b]] # Absent
      BY <1>3, <3>1
    <3>3. QED
      BY <2>1, <3>1, <3>2 DEF Progress, Settled, OnTrial, ProbesPass
  <2>5. \A u \in Tx : timer[u] => u # t /\ cfg'[u] = cfg[u]
    BY <2>1 DEF WholeInv, TypeOK
  <2>6. \A u \in Tx : timer'[u] /\ ~Attended(u)' => OnTrial(u)'
    BY <2>1, <2>3, <2>5 DEF WholeInv, OnTrial, Attended
  <2>7. \A b \in Actors : At(b, "acquire")' => cfg'[tx'[b]] # Absent
    BY <2>1 DEF WholeInv, TypeOK
  <2>8. QED
    BY <2>1, <2>4, <2>5, <2>6, <2>7 DEF WholeInv, WholeConfig, Settled
<1>25. ASSUME NEW w \in Workers, NEW t \in Tx, Apply(w, t) PROVE WholeInv'
  BY <1>24, <1>25 DEF Apply, Busy, Actors, Configs
<1>26. ASSUME NEW t \in Tx, BootApply(t) PROVE WholeInv'
  <2>1. Boot \in Actors /\ ~Busy(Boot) /\ Stage(Boot, t, Factory) /\ Factory \in Configs \ {Absent}
    BY <1>26 DEF BootApply, FirstBoot, Busy, Actors, Configs
  <2>2. QED
    BY <1>24, <2>1
\* An answer to the change on trial, or the end of its countdown, finds nobody at work.
<1>27. ASSUME NEW a \in Actors, NEW t \in Tx, timer[t], ~Attended(t), ~Busy(a),
              NEW l \in {"cancel", "wipe"}, pc' = [pc EXCEPT ![a] = l],
              tx' = [tx EXCEPT ![a] = t], \A u \in Tx : timer'[u] => timer[u],
              UNCHANGED <<lock, snap, gen, live, cfg, good>>
       PROVE  WholeInv'
  <2>1. lock = t /\ t # NoTx /\ OnTrial(t) /\ \A b \in Actors : ~Busy(b)
    BY <1>0, <1>27 DEF Exclusive, WholeInv, Attended
  <2>2. pc'[a] = l /\ tx'[a] = t /\ Busy(a)' /\ \A b \in Actors : Busy(b)' => b = a
    BY <1>27, <2>1 DEF Busy, TypeOK
  <2>3. Progress(a)'
    BY <1>27, <2>1, <2>2 DEF Progress, OnTrial
  <2>4. \A u \in Tx : timer'[u] => u = t /\ Attended(u)'
    BY <1>0, <1>27, <2>1, <2>2 DEF Exclusive, Attended
  <2>5. \A b \in Actors : (Busy(b) \/ At(b, "acquire"))' => cfg'[tx'[b]] # Absent
    BY <1>27, <2>1, <2>2 DEF WholeInv, OnTrial, TypeOK
  <2>6. QED
    BY <1>27, <2>1, <2>2, <2>3, <2>4, <2>5 DEF WholeInv, WholeConfig, OnTrial
<1>28. ASSUME NEW w \in Workers, NEW t \in Tx, Confirm(w, t) \/ Rollback(w, t) PROVE WholeInv'
  <2>1. w \in Actors /\ timer[t] /\ ~Attended(t) /\ ~Busy(w)
    BY <1>28 DEF Confirm, Rollback, Answerable, Busy, Actors
  <2>2. QED
    BY <1>27, <1>28, <2>1 DEF Confirm, Rollback
<1>29. ASSUME NEW t \in Tx, Expire(t) PROVE WholeInv'
  <2>1. t \in Actors /\ timer[t] /\ ~Attended(t) /\ ~Busy(t)
    BY <1>29 DEF Expire, Busy, Actors
  <2>2. tx' = [tx EXCEPT ![t] = t] /\ \A u \in Tx : timer'[u] => timer[u]
    BY <1>29, <2>1 DEF Expire, TypeOK
  <2>3. QED
    BY <1>27, <1>29, <2>1, <2>2 DEF Expire
<1>30. CASE BootSkip
  <2>1. /\ pc[Boot] = "boot" /\ pc' = [pc EXCEPT ![Boot] = "idle"]
        /\ \A b \in Actors : b # Boot => tx'[b] = tx[b]
        /\ UNCHANGED <<lock, timer, row, snap, gen, aps, live, cfg, said, good>>
    BY <1>30 DEF BootSkip, Finish, TypeOK, Actors
  <2>2. \A b \in Actors : Busy(b)' => Busy(b) /\ pc'[b] = pc[b] /\ tx'[b] = tx[b]
    BY <2>1 DEF Busy, TypeOK, Actors
  <2>3. \A b \in Actors : Busy(b) => Busy(b)' /\ tx'[b] = tx[b]
    BY <2>1 DEF Busy, TypeOK, Actors
  <2>4. \A b \in Actors : Busy(b)' => Progress(b)'
    BY <2>1, <2>2 DEF WholeInv, Progress, Settled, OnTrial, ProbesPass
  <2>5. \A t \in Tx : Attended(t)' <=> Attended(t)
    BY <2>2, <2>3 DEF Attended
  <2>6. \A b \in Actors : (Busy(b) \/ At(b, "acquire"))' => cfg'[tx'[b]] # Absent
    BY <2>1, <2>2 DEF WholeInv, TypeOK, Actors
  <2>7. QED
    BY <2>1, <2>4, <2>5, <2>6 DEF WholeInv, WholeConfig, Settled, OnTrial
<1>31. ~Restart /\ ~Reboot
  BY DEF Restart, Reboot
<1>32. CASE UNCHANGED vars
  BY <1>32 DEF vars, WholeInv, WholeConfig, Settled, OnTrial, Progress, Attended, Busy, ProbesPass
<1>33. QED
  BY <1>1, <1>2, <1>4, <1>5, <1>7, <1>8, <1>9, <1>10, <1>11, <1>12, <1>13, <1>14, <1>15,
     <1>17, <1>18, <1>21, <1>25, <1>26, <1>28, <1>29, <1>30, <1>31, <1>32
  DEF Next, Step, Request, BootRuns

\* While answers come to running countdowns one at a time and nothing crashes or
\* raises, the files and services are, whenever the lock is free, as a whole the
\* configuration committed last.
THEOREM LastCommittedInForce ==
  ASSUME ~Overlap, ~Crashes, ~Faults PROVE Spec => []WholeConfig
<1>1. Init => TypeOK /\ ExclusiveInv /\ FirstBoot /\ WholeInv
  BY TypeInit, ExclusiveInit, WholeInit DEF Init, FirstBoot, Actors
<1>2. TypeOK /\ ExclusiveInv /\ FirstBoot /\ WholeInv /\ [Next]_vars
      => (TypeOK /\ ExclusiveInv /\ FirstBoot /\ WholeInv)'
  BY TypeNext, ExclusiveNext, FirstBootNext, WholeNext
<1>3. WholeInv => WholeConfig
  BY DEF WholeInv
<1>4. QED
  BY <1>1, <1>2, <1>3, PTL DEF Spec

---------------------------------------------------------------------------
(* All that runs, addresses and policy rules included                       *)

\* If configuration c is still the one in the table, addresses and rules are its.
Carried(c) == aps = c => live["network"] = c

\* A reload gives addresses and rules to the configuration in the table; a request
\* that comes later puts a configuration there that nobody else works with.
BoxInv ==
  /\ lock = NoTx => Carried(good)
  /\ \A a \in Actors : pc[a] \in {"applied", "health", "arm", "cancel", "commit"} =>
       Carried(cfg[tx[a]])
  /\ \A a \in Actors : pc[a] \in {"unlock", "rolledback", "disarm", "release"} => Carried(good)
  /\ \A t \in Tx : timer[t] /\ ~Attended(t) => Carried(cfg[t])
  /\ \A t \in Tx : cfg[t] \in {Absent, Factory, t}
  /\ good \in Tx => cfg[good] = good
  /\ At(Boot, "boot") => aps = Absent /\ good = Absent /\ \A t \in Tx : cfg[t] = Absent

LEMMA BoxInit == Init => BoxInv
  BY NamesAreDistinct DEF Init, BoxInv, Carried, Services

LEMMA NetworkFollows == ~Faults /\ Reloads => live'["network"] = aps
  BY DEF Reloads, Left, Reloaded, Services

LEMMA BoxNext ==
  ASSUME ~Overlap, ~Crashes, ~Faults, TypeOK, ExclusiveInv, WholeInv, BoxInv, [Next]_vars
  PROVE  BoxInv'
<1> USE NamesAreDistinct
    DEF TypeOK, ExclusiveInv, Exclusive, BoxInv, Carried, Attended, Busy, At, Goto, Finish,
        Actors, Calls, Applying, Committing, Undoing
\* Whoever is at work, or will be, has a configuration.
<1>0. /\ \A a \in Actors : Busy(a) => cfg[tx[a]] # Absent
      /\ \A t \in Tx : timer[t] => cfg[t] # Absent
  BY DEF WholeInv
<1>1. ASSUME NEW a \in Actors, Acquire(a) PROVE BoxInv'
  BY <1>1 DEF Acquire
<1>2. ASSUME NEW a \in Actors, Refuse(a) PROVE BoxInv'
  BY <1>2 DEF Refuse
<1>3. ASSUME NEW a \in Actors, TakeSnapshot(a) PROVE BoxInv'
  BY <1>3 DEF TakeSnapshot
<1>4. ASSUME NEW a \in Actors, Journal(a) PROVE BoxInv'
  BY <1>4 DEF Journal
<1>5. ASSUME NEW a \in Actors, NEW f \in Files, Generate(a, f) PROVE BoxInv'
  BY <1>5 DEF Generate, Files, AfterFile
<1>6. ASSUME NEW a \in Actors, NEW f \in Files, GenerateFails(a, f) PROVE BoxInv'
  BY <1>6 DEF GenerateFails, Files
<1>7. ASSUME NEW a \in Actors, Reload(a) PROVE BoxInv'
  BY <1>7, NetworkFollows DEF Reload
<1>8. ASSUME NEW a \in Actors, MarkApplied(a) PROVE BoxInv'
  BY <1>8 DEF MarkApplied
<1>9. ASSUME NEW a \in Actors, HealthPasses(a) PROVE BoxInv'
  BY <1>9 DEF HealthPasses
<1>10. ASSUME NEW a \in Actors, HealthFails(a) PROVE BoxInv'
  BY <1>10 DEF HealthFails
<1>11. ASSUME NEW a \in Actors, Arm(a) PROVE BoxInv'
  BY <1>11 DEF Arm
<1>12. ASSUME NEW a \in Actors, CancelWatchdog(a) PROVE BoxInv'
  <2>1. /\ UNCHANGED <<tx, lock, live, cfg, aps, good>>
        /\ \A t \in Tx : timer'[t] => timer[t]
        /\ pc[a] = "cancel" /\ pc' = [pc EXCEPT ![a] = "commit"]
    BY <1>12 DEF CancelWatchdog
  <2>2. \A t \in Tx : Attended(t)' <=> Attended(t)
    BY <2>1
  <2>3. \A t \in Tx : timer'[t] /\ ~Attended(t)' => Carried(cfg[t])
    BY <2>1, <2>2
  <2>4. QED
    BY <2>1, <2>3
<1>13. ASSUME NEW a \in Actors, MarkCommitted(a) PROVE BoxInv'
  BY <1>0, <1>13 DEF MarkCommitted
<1>14. ASSUME NEW a \in Actors, Unlock(a) \/ Release(a) PROVE BoxInv'
  <2>1. /\ pc' = [pc EXCEPT ![a] = "idle"]
        /\ UNCHANGED <<timer, live, cfg, good>>
        /\ \A t \in Tx : ~timer[t]
        /\ \A b \in Actors : ~Busy(b)'
    BY <1>14, NobodyLeft
  <2>2. aps' = aps /\ Carried(good)
    BY <1>14 DEF Unlock, Release
  <2>3. QED
    BY <2>1, <2>2
<1>15. ASSUME NEW a \in Actors, Wipe(a) PROVE BoxInv'
  BY <1>15 DEF Wipe
<1>16. ASSUME NEW a \in Actors, Extract(a) PROVE BoxInv'
  BY <1>16 DEF Extract
<1>17. ASSUME NEW a \in Actors, Rereload(a) PROVE BoxInv'
  BY <1>17, NetworkFollows DEF Rereload
<1>18. ASSUME NEW a \in Actors, MarkRolledBack(a) PROVE BoxInv'
  BY <1>18 DEF MarkRolledBack
<1>19. ASSUME NEW a \in Actors, Disarm(a) PROVE BoxInv'
  BY <1>19 DEF Disarm
<1>21. ASSUME NEW a \in Actors, Fault(a) PROVE BoxInv'
  BY <1>21 DEF Fault, ApplyFault, UndoFault, Escape, ArmRaises
<1>24. ASSUME NEW w \in Workers, NEW t \in Tx, Apply(w, t) PROVE BoxInv'
  <2>1. /\ cfg[t] = Absent /\ cfg' = [cfg EXCEPT ![t] = t] /\ aps' = t
        /\ pc' = [pc EXCEPT ![w] = "acquire"] /\ tx' = [tx EXCEPT ![w] = t] /\ ~Busy(w)
        /\ At(Boot, "idle") /\ UNCHANGED <<lock, timer, live, good>>
    BY <1>24 DEF Apply, WebUp, Stage, PersistAps
  <2>2. good # t
    BY <2>1
  <2>3. \A a \in Actors : Busy(a)' => Busy(a) /\ pc'[a] = pc[a] /\ tx'[a] = tx[a]
    BY <2>1
  <2>4. \A a \in Actors : Busy(a) => tx[a] # t /\ cfg'[tx[a]] # t
    BY <1>0, <2>1
  <2>5. \A u \in Tx : timer[u] => u # t /\ cfg'[u] # t
    BY <1>0, <2>1
  <2>6. \A u \in Tx : cfg'[u] \in {Absent, Factory, u}
    BY <2>1
  <2>7. \A a \in Actors : pc'[a] \in {"applied", "health", "arm", "cancel", "commit"} =>
          Carried(cfg[tx[a]])'
    BY <2>1, <2>3, <2>4
  <2>8. Carried(good)' /\ \A u \in Tx : timer'[u] => Carried(cfg[u])'
    BY <2>1, <2>2, <2>5
  <2>9. good' \in Tx => cfg'[good'] = good'
    BY <2>1, <2>2
  <2>10. ~At(Boot, "boot")'
    BY <2>1
  <2>11. QED
    BY <2>6, <2>7, <2>8, <2>9, <2>10
<1>25. ASSUME NEW w \in Workers, NEW t \in Tx, Confirm(w, t) PROVE BoxInv'
  BY <1>25 DEF Confirm, Answerable
<1>26. ASSUME NEW w \in Workers, NEW t \in Tx, Rollback(w, t) PROVE BoxInv'
  BY <1>26 DEF Rollback, Answerable
<1>27. ASSUME NEW t \in Tx, Expire(t) PROVE BoxInv'
  BY <1>27 DEF Expire
<1>28. ASSUME NEW t \in Tx, BootApply(t) PROVE BoxInv'
  BY <1>0, <1>28 DEF BootApply, Stage, PersistAps
<1>29. CASE BootSkip
  BY <1>29 DEF BootSkip
<1>30. ~Restart /\ ~Reboot
  BY DEF Restart, Reboot
<1>32. CASE UNCHANGED vars
  BY <1>32 DEF vars
<1>33. QED
  BY <1>1, <1>2, <1>3, <1>4, <1>5, <1>6, <1>7, <1>8, <1>9, <1>10, <1>11,
     <1>12, <1>13, <1>14, <1>15, <1>16, <1>17, <1>18, <1>19, <1>21,
     <1>24, <1>25, <1>26, <1>27, <1>28, <1>29, <1>30, <1>32
  DEF Next, Step, Request, BootRuns

\* transaction.py:14-16, as far as it is true: in the orderly regime all that runs
\* while the lock is free, addresses and policy rules included, is the configuration
\* committed last, as long as no later request has stored its rows.
THEOREM WholeBoxInForce ==
  ASSUME ~Overlap, ~Crashes, ~Faults PROVE Spec => []WholeBox
<1>1. Init => TypeOK /\ ExclusiveInv /\ FirstBoot /\ WholeInv /\ BoxInv
  BY TypeInit, ExclusiveInit, WholeInit, BoxInit DEF Init, FirstBoot, Actors
<1>2. TypeOK /\ ExclusiveInv /\ FirstBoot /\ WholeInv /\ BoxInv /\ [Next]_vars
      => (TypeOK /\ ExclusiveInv /\ FirstBoot /\ WholeInv /\ BoxInv)'
  BY TypeNext, ExclusiveNext, FirstBootNext, WholeNext, BoxNext
<1>3. TypeOK /\ WholeInv /\ BoxInv => WholeBox
  <2> SUFFICES ASSUME TypeOK, WholeInv, BoxInv, lock = NoTx, good # Absent, aps = good
               PROVE  live = [s \in Services |-> good]
    BY DEF WholeBox
  <2>1. \A s \in Services : live[s] = good
    BY DEF WholeInv, WholeConfig, Settled, BoxInv, Carried, Services
  <2>2. QED
    BY <2>1 DEF TypeOK
<1>4. QED
  BY <1>1, <1>2, <1>3, PTL DEF Spec

---------------------------------------------------------------------------
(* The journal                                                              *)

Undecided(t) == row[t] \notin {"committed", "rolledback"}
Working(a)   == Busy(a) \/ At(a, "acquire")

\* A row is decided by the one thread that still may: until it is, the row is
\* undecided, and a transaction waiting for the lock is nobody else's.
JournalInv ==
  /\ \A a \in Actors : pc[a] \in Calls \ {"unlock", "disarm", "release"} => Undecided(tx[a])
  /\ \A a \in Actors : At(a, "unlock") => row[tx[a]] = "committed"
  /\ \A a \in Actors : ~Faults /\ pc[a] \in {"disarm", "release"} => row[tx[a]] = "rolledback"
  /\ \A t \in Tx : timer[t] /\ ~Attended(t) => Undecided(t)
  /\ \A a \in Actors : At(a, "acquire") =>
       /\ Undecided(tx[a]) /\ ~timer[tx[a]]
       /\ \A b \in Actors : b # a /\ Working(b) => tx[b] # tx[a]
  /\ \A t \in Tx : cfg[t] = Absent =>
       /\ Undecided(t) /\ ~timer[t]
       /\ \A a \in Actors : Working(a) => tx[a] # t

LEMMA JournalInit == Init => JournalInv
  BY DEF Init, JournalInv, Undecided, Working, Busy, At, Calls, Applying, Committing, Undoing

LEMMA JournalNext ==
  ASSUME ~Overlap, TypeOK, ExclusiveInv, JournalInv, [Next]_vars
  PROVE  JournalInv'
<1> USE NamesAreDistinct
    DEF TypeOK, ExclusiveInv, Exclusive, JournalInv, Undecided, Working, Attended, Busy,
        Answering, At, Goto, Finish, Actors, Calls, Applying, Committing, Undoing
<1>1. ASSUME NEW a \in Actors, Acquire(a) PROVE JournalInv'
  BY <1>1 DEF Acquire
<1>2. ASSUME NEW a \in Actors, Refuse(a) PROVE JournalInv'
  BY <1>2 DEF Refuse
<1>3. ASSUME NEW a \in Actors, TakeSnapshot(a) PROVE JournalInv'
  BY <1>3 DEF TakeSnapshot
<1>4. ASSUME NEW a \in Actors, Journal(a) PROVE JournalInv'
  BY <1>4 DEF Journal
<1>5. ASSUME NEW a \in Actors, NEW f \in Files, Generate(a, f) PROVE JournalInv'
  BY <1>5 DEF Generate, Files, AfterFile
<1>6. ASSUME NEW a \in Actors, NEW f \in Files, GenerateFails(a, f) PROVE JournalInv'
  BY <1>6 DEF GenerateFails, Files
<1>7. ASSUME NEW a \in Actors, Reload(a) PROVE JournalInv'
  BY <1>7 DEF Reload
<1>8. ASSUME NEW a \in Actors, MarkApplied(a) PROVE JournalInv'
  BY <1>8 DEF MarkApplied
<1>9. ASSUME NEW a \in Actors, HealthPasses(a) PROVE JournalInv'
  BY <1>9 DEF HealthPasses
<1>10. ASSUME NEW a \in Actors, HealthFails(a) PROVE JournalInv'
  BY <1>10 DEF HealthFails
<1>11. ASSUME NEW a \in Actors, Arm(a) PROVE JournalInv'
  BY <1>11 DEF Arm
<1>12. ASSUME NEW a \in Actors, CancelWatchdog(a) PROVE JournalInv'
  BY <1>12 DEF CancelWatchdog
<1>13. ASSUME NEW a \in Actors, MarkCommitted(a) PROVE JournalInv'
  BY <1>13 DEF MarkCommitted
<1>14. ASSUME NEW a \in Actors, Unlock(a) PROVE JournalInv'
  <2>1. /\ pc' = [pc EXCEPT ![a] = "idle"]
        /\ UNCHANGED <<timer, cfg, row>>
        /\ \A t \in Tx : ~timer[t]
        /\ \A b \in Actors : ~Busy(b)'
        /\ \A b \in Actors : b # a => tx'[b] = tx[b]
    BY <1>14, NobodyLeft
  <2>2. \A b \in Actors : Working(b)' =>
          b # a /\ At(b, "acquire") /\ At(b, "acquire")' /\ tx'[b] = tx[b]
    BY <2>1
  <2>3. \A b \in Actors : pc'[b] \notin Calls
    BY <2>1
  <2>4. \A b \in Actors : At(b, "acquire")' =>
          /\ Undecided(tx[b])'
          /\ \A c \in Actors : c # b /\ Working(c)' => tx'[c] # tx'[b]
    BY <2>1, <2>2
  <2>5. \A t \in Tx : cfg'[t] = Absent =>
          Undecided(t)' /\ \A b \in Actors : Working(b)' => tx'[b] # t
    BY <2>1, <2>2
  <2>6. QED
    BY <2>1, <2>2, <2>3, <2>4, <2>5
<1>15. ASSUME NEW a \in Actors, Wipe(a) PROVE JournalInv'
  BY <1>15 DEF Wipe
<1>16. ASSUME NEW a \in Actors, Extract(a) PROVE JournalInv'
  BY <1>16 DEF Extract
<1>17. ASSUME NEW a \in Actors, Rereload(a) PROVE JournalInv'
  BY <1>17 DEF Rereload
<1>18. ASSUME NEW a \in Actors, MarkRolledBack(a) PROVE JournalInv'
  BY <1>18 DEF MarkRolledBack
<1>19. ASSUME NEW a \in Actors, Disarm(a) PROVE JournalInv'
  BY <1>19 DEF Disarm
<1>20. ASSUME NEW a \in Actors, Release(a) PROVE JournalInv'
  <2>1. /\ pc' = [pc EXCEPT ![a] = "idle"]
        /\ UNCHANGED <<timer, cfg, row>>
        /\ \A t \in Tx : ~timer[t]
        /\ \A b \in Actors : ~Busy(b)'
        /\ \A b \in Actors : b # a => tx'[b] = tx[b]
    BY <1>20, NobodyLeft
  <2>2. \A b \in Actors : Working(b)' =>
          b # a /\ At(b, "acquire") /\ At(b, "acquire")' /\ tx'[b] = tx[b]
    BY <2>1
  <2>3. \A b \in Actors : pc'[b] \notin Calls
    BY <2>1
  <2>4. \A b \in Actors : At(b, "acquire")' =>
          /\ Undecided(tx[b])'
          /\ \A c \in Actors : c # b /\ Working(c)' => tx'[c] # tx'[b]
    BY <2>1, <2>2
  <2>5. \A t \in Tx : cfg'[t] = Absent =>
          Undecided(t)' /\ \A b \in Actors : Working(b)' => tx'[b] # t
    BY <2>1, <2>2
  <2>6. QED
    BY <2>1, <2>2, <2>3, <2>4, <2>5
<1>21. ASSUME NEW a \in Actors, ApplyFault(a) PROVE JournalInv'
  BY <1>21 DEF ApplyFault
<1>22. ASSUME NEW a \in Actors, UndoFault(a) PROVE JournalInv'
  BY <1>22 DEF UndoFault
<1>23. ASSUME NEW a \in Actors, Escape(a) PROVE JournalInv'
  BY <1>23 DEF Escape
<1>23a. ASSUME NEW a \in Actors, ArmRaises(a) PROVE JournalInv'
  BY <1>23a DEF ArmRaises
<1>24. ASSUME NEW w \in Workers, NEW t \in Tx, Apply(w, t) PROVE JournalInv'
  BY <1>24 DEF Apply, Stage, PersistAps
<1>25. ASSUME NEW w \in Workers, NEW t \in Tx, Confirm(w, t) PROVE JournalInv'
  BY <1>25 DEF Confirm, Answerable, Attended
<1>26. ASSUME NEW w \in Workers, NEW t \in Tx, Rollback(w, t) PROVE JournalInv'
  BY <1>26 DEF Rollback, Answerable, Attended
<1>27. ASSUME NEW t \in Tx, Expire(t) PROVE JournalInv'
  BY <1>27 DEF Expire, Attended
<1>28. ASSUME NEW t \in Tx, BootApply(t) PROVE JournalInv'
  BY <1>28 DEF BootApply, Stage, PersistAps
<1>29. CASE BootSkip
  BY <1>29 DEF BootSkip
<1>30. CASE Restart
  BY <1>30 DEF Restart, Die
<1>31. CASE Reboot
  BY <1>31 DEF Reboot, Die
<1>32. CASE UNCHANGED vars
  BY <1>32 DEF vars
<1>33. QED
  BY <1>1, <1>2, <1>3, <1>4, <1>5, <1>6, <1>7, <1>8, <1>9, <1>10, <1>11,
     <1>12, <1>13, <1>14, <1>15, <1>16, <1>17, <1>18, <1>19, <1>20, <1>21,
     <1>22, <1>23, <1>23a, <1>24, <1>25, <1>26, <1>27, <1>28, <1>29, <1>30, <1>31,
     <1>32
  DEF Next, Step, Fault, Request, BootRuns

LEMMA JournalStep ==
  ASSUME TypeOK, JournalInv, [Next]_vars
  PROVE  \A t \in Tx : row[t] \in {"committed", "rolledback"} => row'[t] = row[t]
<1> DEFINE Final == \A t \in Tx : row[t] \in {"committed", "rolledback"} => row'[t] = row[t]
<1> USE DEF TypeOK, JournalInv, Undecided, At, Calls, Applying, Committing, Undoing
<1>1. ASSUME NEW a \in Actors, Acquire(a) PROVE Final
  BY <1>1 DEF Acquire
<1>2. ASSUME NEW a \in Actors, Refuse(a) PROVE Final
  BY <1>2 DEF Refuse
<1>3. ASSUME NEW a \in Actors, TakeSnapshot(a) PROVE Final
  BY <1>3 DEF TakeSnapshot
<1>4. ASSUME NEW a \in Actors, Journal(a) PROVE Final
  BY <1>4 DEF Journal
<1>5. ASSUME NEW a \in Actors, NEW f \in Files, Generate(a, f) PROVE Final
  BY <1>5 DEF Generate, Files, AfterFile
<1>6. ASSUME NEW a \in Actors, NEW f \in Files, GenerateFails(a, f) PROVE Final
  BY <1>6 DEF GenerateFails, Files
<1>7. ASSUME NEW a \in Actors, Reload(a) PROVE Final
  BY <1>7 DEF Reload
<1>8. ASSUME NEW a \in Actors, MarkApplied(a) PROVE Final
  BY <1>8 DEF MarkApplied
<1>9. ASSUME NEW a \in Actors, HealthPasses(a) PROVE Final
  BY <1>9 DEF HealthPasses
<1>10. ASSUME NEW a \in Actors, HealthFails(a) PROVE Final
  BY <1>10 DEF HealthFails
<1>11. ASSUME NEW a \in Actors, Arm(a) PROVE Final
  BY <1>11 DEF Arm
<1>12. ASSUME NEW a \in Actors, CancelWatchdog(a) PROVE Final
  BY <1>12 DEF CancelWatchdog
<1>13. ASSUME NEW a \in Actors, MarkCommitted(a) PROVE Final
  BY <1>13 DEF MarkCommitted
<1>14. ASSUME NEW a \in Actors, Unlock(a) PROVE Final
  BY <1>14 DEF Unlock
<1>15. ASSUME NEW a \in Actors, Wipe(a) PROVE Final
  BY <1>15 DEF Wipe
<1>16. ASSUME NEW a \in Actors, Extract(a) PROVE Final
  BY <1>16 DEF Extract
<1>17. ASSUME NEW a \in Actors, Rereload(a) PROVE Final
  BY <1>17 DEF Rereload
<1>18. ASSUME NEW a \in Actors, MarkRolledBack(a) PROVE Final
  BY <1>18 DEF MarkRolledBack
<1>19. ASSUME NEW a \in Actors, Disarm(a) PROVE Final
  BY <1>19 DEF Disarm
<1>20. ASSUME NEW a \in Actors, Release(a) PROVE Final
  BY <1>20 DEF Release
<1>21. ASSUME NEW a \in Actors, ApplyFault(a) PROVE Final
  BY <1>21 DEF ApplyFault
<1>22. ASSUME NEW a \in Actors, UndoFault(a) PROVE Final
  BY <1>22 DEF UndoFault
<1>23. ASSUME NEW a \in Actors, Escape(a) PROVE Final
  BY <1>23 DEF Escape
<1>23a. ASSUME NEW a \in Actors, ArmRaises(a) PROVE Final
  BY <1>23a DEF ArmRaises
<1>24. ASSUME NEW w \in Workers, NEW t \in Tx, Apply(w, t) PROVE Final
  BY <1>24 DEF Apply, Stage, PersistAps
<1>25. ASSUME NEW w \in Workers, NEW t \in Tx, Confirm(w, t) PROVE Final
  BY <1>25 DEF Confirm, Answerable, Attended
<1>26. ASSUME NEW w \in Workers, NEW t \in Tx, Rollback(w, t) PROVE Final
  BY <1>26 DEF Rollback, Answerable, Attended
<1>27. ASSUME NEW t \in Tx, Expire(t) PROVE Final
  BY <1>27 DEF Expire, Attended
<1>28. ASSUME NEW t \in Tx, BootApply(t) PROVE Final
  BY <1>28 DEF BootApply, Stage, PersistAps
<1>29. CASE BootSkip
  BY <1>29 DEF BootSkip
<1>30. CASE Restart
  BY <1>30 DEF Restart, Die
<1>31. CASE Reboot
  BY <1>31 DEF Reboot, Die
<1>32. CASE UNCHANGED vars
  BY <1>32 DEF vars
<1>33. QED
  BY <1>1, <1>2, <1>3, <1>4, <1>5, <1>6, <1>7, <1>8, <1>9, <1>10, <1>11,
     <1>12, <1>13, <1>14, <1>15, <1>16, <1>17, <1>18, <1>19, <1>20, <1>21,
     <1>22, <1>23, <1>23a, <1>24, <1>25, <1>26, <1>27, <1>28, <1>29, <1>30, <1>31,
     <1>32
  DEF Next, Step, Fault, Request, BootRuns

\* While answers come to running countdowns one at a time, a decided transaction
\* stays decided, whatever crashes or raises.
THEOREM DecisionsAreFinal == ASSUME ~Overlap PROVE Spec => JournalFinal
<1>1. Init => TypeOK /\ ExclusiveInv /\ JournalInv
  BY TypeInit, ExclusiveInit, JournalInit
<1>2. TypeOK /\ ExclusiveInv /\ JournalInv /\ [Next]_vars
      => (TypeOK /\ ExclusiveInv /\ JournalInv)'
  BY TypeNext, ExclusiveNext, JournalNext
<1>3. TypeOK /\ JournalInv /\ [Next]_vars
      => \A t \in Tx : row[t] \in {"committed", "rolledback"} => row'[t] = row[t]
  BY JournalStep
<1>4. QED
  BY <1>1, <1>2, <1>3, PTL DEF Spec, JournalFinal

---------------------------------------------------------------------------
(* What was promised to the admin                                           *)

\* Nobody is told that a change is kept before its row is committed.
LEMMA KeptIsSaidLate ==
  ASSUME TypeOK, JournalInv, [Next]_vars
  PROVE  \A t \in Tx : "kept" \in said'[t] => "kept" \in said[t] \/ row'[t] = "committed"
<1> DEFINE Late == \A t \in Tx : "kept" \in said'[t] => "kept" \in said[t] \/ row'[t] = "committed"
<1> USE DEF TypeOK, JournalInv, At
<1>1. ASSUME NEW a \in Actors, Unlock(a) PROVE Late
  BY <1>1 DEF Unlock
<1>2. ASSUME NEW a \in Actors, Arm(a) PROVE Late
  BY <1>2 DEF Arm
<1>3. ASSUME NEW w \in Workers, NEW t \in Tx, Rollback(w, t) PROVE Late
  BY <1>3 DEF Rollback
<1>4. ASSUME UNCHANGED said PROVE Late
  BY <1>4
<1>5. ASSUME NEW a \in Actors, Step(a) PROVE Late
  BY <1>1, <1>2, <1>4, <1>5
  DEF Step, Acquire, Refuse, TakeSnapshot, Journal, Generate, GenerateFails, Reload,
      MarkApplied, HealthPasses, HealthFails, CancelWatchdog, MarkCommitted, Wipe, Extract,
      Rereload, MarkRolledBack, Disarm, Release
<1>6. ASSUME NEW a \in Actors, Fault(a) PROVE Late
  BY <1>4, <1>6 DEF Fault, ApplyFault, UndoFault, Escape, ArmRaises
<1>7. ASSUME NEW w \in Workers, NEW t \in Tx, Request(w, t) PROVE Late
  BY <1>3, <1>4, <1>7 DEF Request, Apply, Confirm, Stage
<1>8. QED
  BY <1>4, <1>5, <1>6, <1>7
  DEF Next, Expire, BootRuns, BootSkip, BootApply, Stage, Restart, Reboot, Die, vars

KeptInv == \A t \in Tx : "kept" \in said[t] => row[t] = "committed"

\* config_manager.confirm: while answers come to running countdowns one at a time, a
\* change the admin was told is kept is never reverted, whatever crashes or raises.
THEOREM KeptIsNotReverted == ASSUME ~Overlap PROVE Spec => []KeptStaysKept
<1>1. Init => TypeOK /\ ExclusiveInv /\ JournalInv /\ KeptInv
  <2>1. Init => KeptInv
    BY DEF Init, KeptInv
  <2>2. QED
    BY <2>1, TypeInit, ExclusiveInit, JournalInit
<1>2. TypeOK /\ ExclusiveInv /\ JournalInv /\ KeptInv /\ [Next]_vars
      => (TypeOK /\ ExclusiveInv /\ JournalInv /\ KeptInv)'
  <2>1. TypeOK /\ JournalInv /\ KeptInv /\ [Next]_vars => KeptInv'
    BY KeptIsSaidLate, JournalStep DEF KeptInv
  <2>2. QED
    BY <2>1, TypeNext, ExclusiveNext, JournalNext
<1>3. KeptInv => KeptStaysKept
  BY DEF KeptInv, KeptStaysKept
<1>4. QED
  BY <1>1, <1>2, <1>3, PTL DEF Spec

\* A call that does not end its thread takes nobody off the transaction.
LEMMA AttendanceStays ==
  ASSUME TypeOK, NEW a \in Actors, NEW l, Goto(a, l),
         \A b \in Actors : b # a => tx'[b] = tx[b],
         ~Busy(a) \/ (l \in Calls /\ tx'[a] = tx[a])
  PROVE  /\ \A t \in Tx : Attended(t) => Attended(t)'
         /\ l \in Calls => \A t \in Tx : t = tx'[a] => Attended(t)'
<1>1. \A b \in Actors : b # a => pc'[b] = pc[b]
  BY DEF Goto, TypeOK
<1>2. pc'[a] = l
  BY DEF Goto, TypeOK
<1>3. ASSUME NEW t \in Tx, NEW b \in Actors, Busy(b), tx[b] = t PROVE Attended(t)'
  <2>1. CASE b = a
    BY <1>2, <1>3, <2>1 DEF Attended, Busy
  <2>2. CASE b # a
    BY <1>1, <1>3, <2>2 DEF Attended, Busy
  <2>3. QED
    BY <2>1, <2>2
<1>4. ASSUME l \in Calls, NEW t \in Tx, t = tx'[a] PROVE Attended(t)'
  BY <1>2, <1>4 DEF Attended, Busy
<1>5. QED
  BY <1>3, <1>4 DEF Attended

LEMMA WatchedNext ==
  ASSUME ~Overlap, ~Crashes, ~Faults, TypeOK, ExclusiveInv, JournalInv, TrialIsWatched, [Next]_vars
  PROVE  TrialIsWatched'
<1> USE NamesAreDistinct DEF At
\* A thread goes on: what it changes about timer and row is about its own trial.
<1>1. ASSUME NEW a \in Actors, NEW l, Goto(a, l),
             \A b \in Actors : b # a => tx'[b] = tx[b],
             ~Busy(a) \/ (l \in Calls /\ tx'[a] = tx[a]),
             \A t \in Tx : "deadline" \in said'[t] => "deadline" \in said[t],
             \A t \in Tx : (l \in Calls /\ t = tx'[a])
                           \/ (timer'[t] = timer[t] /\ (row'[t] = "applied" => row[t] = "applied"))
      PROVE  TrialIsWatched'
  <2>1. /\ \A t \in Tx : Attended(t) => Attended(t)'
        /\ l \in Calls => \A t \in Tx : t = tx'[a] => Attended(t)'
    BY <1>1, AttendanceStays
  <2>2. QED
    BY <1>1, <2>1 DEF TrialIsWatched
\* A thread ends: its trial is decided or has its countdown.
<1>2. ASSUME NEW a \in Actors, Finish(a), UNCHANGED row,
             \A t \in Tx : t # tx[a] => said'[t] = said[t] /\ timer'[t] = timer[t],
             \A t \in Tx : t = tx[a] => timer'[t] \/ row[t] # "applied"
      PROVE  TrialIsWatched'
  <2>1. ASSUME NEW t \in Tx, t # tx[a], Attended(t) PROVE Attended(t)'
    <3>1. PICK b \in Actors : Busy(b) /\ tx[b] = t /\ b # a
      BY <2>1 DEF Attended
    <3>2. pc'[b] = pc[b] /\ tx'[b] = t
      BY <1>2, <3>1 DEF Finish, Goto, TypeOK
    <3>3. QED
      BY <3>1, <3>2 DEF Attended, Busy
  <2>2. QED
    BY <1>2, <2>1 DEF TrialIsWatched
<1> USE DEF Calls, Applying, Committing, Undoing
<1>3. ASSUME NEW a \in Actors, Acquire(a) \/ TakeSnapshot(a) \/ Journal(a) PROVE TrialIsWatched'
  BY <1>1, <1>3 DEF Acquire, TakeSnapshot, Journal, Busy, TypeOK
<1>4. ASSUME NEW a \in Actors, NEW f \in Files, Generate(a, f) \/ GenerateFails(a, f)
      PROVE  TrialIsWatched'
  BY <1>1, <1>4 DEF Generate, GenerateFails, Files, AfterFile
<1>5. ASSUME NEW a \in Actors, Reload(a) \/ MarkApplied(a) PROVE TrialIsWatched'
  <2>1. CASE Reload(a)
    BY <1>1, <2>1 DEF Reload
  <2>2. CASE MarkApplied(a)
    <3>1. /\ Goto(a, "health") /\ UNCHANGED <<tx, timer, said>>
          /\ row' = [row EXCEPT ![tx[a]] = "applied"]
      BY <2>2 DEF MarkApplied
    <3>2. \A t \in Tx : t # tx[a] => row'[t] = row[t]
      BY <3>1 DEF TypeOK
    <3>3. QED
      BY <1>1, <3>1, <3>2
  <2>3. QED
    BY <1>5, <2>1, <2>2
<1>6. ASSUME NEW a \in Actors, HealthPasses(a) \/ HealthFails(a) PROVE TrialIsWatched'
  BY <1>1, <1>6 DEF HealthPasses, HealthFails
<1>7. ASSUME NEW a \in Actors, CancelWatchdog(a) \/ MarkCommitted(a) PROVE TrialIsWatched'
  <2>1. CASE CancelWatchdog(a)
    <3>1. /\ Goto(a, "commit") /\ UNCHANGED <<tx, row, said>>
          /\ timer' = [timer EXCEPT ![tx[a]] = FALSE]
      BY <2>1 DEF CancelWatchdog
    <3>2. \A t \in Tx : t # tx[a] => timer'[t] = timer[t]
      BY <3>1 DEF TypeOK
    <3>3. QED
      BY <1>1, <3>1, <3>2
  <2>2. CASE MarkCommitted(a)
    <3>1. /\ Goto(a, "unlock") /\ UNCHANGED <<tx, timer, said>>
          /\ row' = [row EXCEPT ![tx[a]] = "committed"]
      BY <2>2 DEF MarkCommitted
    <3>2. \A t \in Tx : t # tx[a] => row'[t] = row[t]
      BY <3>1 DEF TypeOK
    <3>3. QED
      BY <1>1, <3>1, <3>2
  <2>3. QED
    BY <1>7, <2>1, <2>2
<1>8. ASSUME NEW a \in Actors, Wipe(a) \/ Extract(a) \/ Rereload(a) PROVE TrialIsWatched'
  BY <1>1, <1>8 DEF Wipe, Extract, Rereload
<1>9. ASSUME NEW a \in Actors, MarkRolledBack(a) \/ Disarm(a) PROVE TrialIsWatched'
  <2>1. CASE MarkRolledBack(a)
    <3>1. /\ Goto(a, "disarm") /\ UNCHANGED <<tx, timer, said>>
          /\ row' = [row EXCEPT ![tx[a]] = "rolledback"]
      BY <2>1 DEF MarkRolledBack
    <3>2. \A t \in Tx : t # tx[a] => row'[t] = row[t]
      BY <3>1 DEF TypeOK
    <3>3. QED
      BY <1>1, <3>1, <3>2
  <2>2. CASE Disarm(a)
    <3>1. /\ Goto(a, "release") /\ UNCHANGED <<tx, row, said>>
          /\ timer' = [timer EXCEPT ![tx[a]] = FALSE]
      BY <2>2 DEF Disarm
    <3>2. \A t \in Tx : t # tx[a] => timer'[t] = timer[t]
      BY <3>1 DEF TypeOK
    <3>3. QED
      BY <1>1, <3>1, <3>2
  <2>3. QED
    BY <1>9, <2>1, <2>2
<1>10. ASSUME NEW a \in Actors, Refuse(a) PROVE TrialIsWatched'
  <2>1. ~Busy(a) /\ Goto(a, "idle") /\ \A b \in Actors : b # a => tx'[b] = tx[b]
    BY <1>10 DEF Refuse, Finish, Busy, TypeOK
  <2>2. QED
    BY <1>1, <1>10, <2>1 DEF Refuse
<1>11. ASSUME NEW a \in Actors, Arm(a) PROVE TrialIsWatched'
  BY <1>2, <1>11 DEF Arm, TypeOK
<1>12. ASSUME NEW a \in Actors, Unlock(a) PROVE TrialIsWatched'
  BY <1>2, <1>12 DEF Unlock, TypeOK, JournalInv
<1>13. ASSUME NEW a \in Actors, Release(a) PROVE TrialIsWatched'
  BY <1>2, <1>13 DEF Release, TypeOK, JournalInv
<1>14. ASSUME NEW a \in Actors, Fault(a) PROVE TrialIsWatched'
  BY <1>14 DEF Fault, ApplyFault, UndoFault, Escape, ArmRaises
<1>15. ASSUME NEW w \in Workers, NEW t \in Tx, Request(w, t) PROVE TrialIsWatched'
  <2>1. PICK l : Goto(w, l) /\ tx' = [tx EXCEPT ![w] = t] /\ UNCHANGED <<timer, row>>
    BY <1>15 DEF Request, Apply, Stage, Confirm, Rollback
  <2>2. \A u \in Tx : "deadline" \in said'[u] => "deadline" \in said[u]
    BY <1>15 DEF Request, Apply, Stage, Confirm, Rollback, TypeOK
  <2>3. w \in Actors /\ ~Busy(w)
    BY <1>15 DEF Request, Apply, Confirm, Rollback, Busy, Actors
  <2>4. QED
    BY <1>1, <2>1, <2>2, <2>3 DEF TypeOK
<1>16. ASSUME NEW t \in Tx, Expire(t) PROVE TrialIsWatched'
  <2>1. t \in Actors /\ ~Busy(t) /\ tx[t] = t
    BY <1>16 DEF Expire, Busy, Actors, TypeOK
  <2>2. Goto(t, "wipe") /\ timer' = [timer EXCEPT ![t] = FALSE] /\ UNCHANGED <<tx, row, said>>
    BY <1>16 DEF Expire
  <2>3. \A u \in Tx : ("wipe" \in Calls /\ u = tx'[t])
                       \/ (timer'[u] = timer[u] /\ (row'[u] = "applied" => row[u] = "applied"))
    <3>1. timer \in [Tx -> BOOLEAN]
      BY DEF TypeOK
    <3>2. \A u \in Tx : u # t => timer'[u] = timer[u]
      BY <2>2, <3>1
    <3>3. "wipe" \in Calls
      BY DEF Calls, Undoing
    <3>4. QED
      BY <2>1, <2>2, <3>2, <3>3
  <2>4. \A b \in Actors : b # t => tx'[b] = tx[b]
    BY <2>2
  <2>5. \A u \in Tx : "deadline" \in said'[u] => "deadline" \in said[u]
    BY <2>2
  <2>6. QED
    BY <1>1, <2>1, <2>2, <2>3, <2>4, <2>5
<1>17. ASSUME BootRuns PROVE TrialIsWatched'
  <2>1. PICK l, t : /\ Goto(Boot, l) /\ tx' = [tx EXCEPT ![Boot] = t]
                    /\ UNCHANGED <<timer, row, said>>
    BY <1>17 DEF BootRuns, BootSkip, BootApply, Stage, Finish
  <2>2. Boot \in Actors /\ ~Busy(Boot)
    BY <1>17 DEF BootRuns, BootSkip, BootApply, Busy, Actors
  <2>3. QED
    BY <1>1, <2>1, <2>2 DEF TypeOK
<1>18. CASE Restart \/ Reboot
  BY <1>18 DEF Restart, Reboot
<1>19. CASE UNCHANGED vars
  BY <1>19 DEF vars, TrialIsWatched, Attended, Busy
<1>20. QED
  BY <1>3, <1>4, <1>5, <1>6, <1>7, <1>8, <1>9, <1>10, <1>11, <1>12, <1>13, <1>14, <1>15,
     <1>16, <1>17, <1>18, <1>19
  DEF Next, Step

\* transaction.py:8-10: while answers come to running countdowns one at a time and
\* nothing crashes or raises, a change whose deadline was announced is always watched:
\* its countdown runs, or a thread is deciding it.
THEOREM DeadlinesAreWatched ==
  ASSUME ~Overlap, ~Crashes, ~Faults PROVE Spec => []TrialIsWatched
<1>1. Init => TypeOK /\ ExclusiveInv /\ JournalInv /\ TrialIsWatched
  <2>1. Init => TrialIsWatched
    BY DEF Init, TrialIsWatched
  <2>2. QED
    BY <2>1, TypeInit, ExclusiveInit, JournalInit
<1>2. TypeOK /\ ExclusiveInv /\ JournalInv /\ TrialIsWatched /\ [Next]_vars
      => (TypeOK /\ ExclusiveInv /\ JournalInv /\ TrialIsWatched)'
  BY TypeNext, ExclusiveNext, JournalNext, WatchedNext
<1>3. QED
  BY <1>1, <1>2, PTL DEF Spec

---------------------------------------------------------------------------
(* Boot                                                                     *)

Prepared == {"snapshot", "journal", "hostapd", "dnsmasq", "nftables"}
Written  == {"applied", "health", "arm"} \cup Committing

\* Until the boot process ends it is alone, and what it has written and loaded so far
\* is the configuration in the table.
BootInv ==
  /\ ~WebUp => (\A a \in Actors : a # Boot => At(a, "idle")) /\ \A t \in Tx : ~timer[t]
  /\ pc[Boot] \in {"acquire"} \cup Applying \cup Committing => cfg[tx[Boot]] = aps /\ aps # Absent
  /\ pc[Boot] \in {"dnsmasq", "nftables", "reload"} \cup Written => gen["hostapd"] = aps
  /\ pc[Boot] \in {"nftables", "reload"} \cup Written => gen["dnsmasq"] = aps
  /\ pc[Boot] \in {"reload"} \cup Written => gen["nftables"] = aps
  /\ pc[Boot] \in {"boot", "acquire", "reload"} \cup Prepared => live["nftables"] = Absent
  /\ ~Faults /\ pc[Boot] \in Written =>
       \A s \in Services : live[s] = IF <<aps, s>> \in Rejected THEN Absent ELSE aps
  /\ pc[Boot] # "arm"

LEMMA BootInit == Init => BootInv
  BY NamesAreDistinct
  DEF Init, Services, Files, BootInv, At, WebUp, Actors, Prepared, Written, Applying, Committing

\* Cancelling one more countdown starts none.
LEMMA NoneTicks ==
  ASSUME timer \in [Tx -> BOOLEAN], \A t \in Tx : ~timer[t],
         NEW a, timer' = timer \/ timer' = [timer EXCEPT ![tx[a]] = FALSE]
  PROVE  \A t \in Tx : ~timer'[t]
<1>1. CASE timer' = timer
  BY <1>1
<1>2. CASE timer' = [timer EXCEPT ![tx[a]] = FALSE]
  <2> TAKE t \in Tx
  <2>1. timer'[t] = FALSE \/ timer'[t] = timer[t]
    BY <1>2
  <2>2. QED
    BY <2>1
<1>3. QED
  BY <1>1, <1>2

LEMMA BootNext == TypeOK /\ BootInv /\ [Next]_vars => BootInv'
<1> SUFFICES ASSUME TypeOK, BootInv, [Next]_vars PROVE BootInv'
  OBVIOUS
<1> USE NamesAreDistinct DEF TypeOK, BootInv, WebUp, At, Goto, Actors, Prepared, Written, Applying, Committing
<1>1. CASE Reboot
  BY <1>1 DEF Reboot, Die, UnitsOnly, Services, Files
<1>2. CASE WebUp /\ ~Reboot
  BY <1>2, WebStaysUp
<1>3. CASE ~WebUp
  <2>1. \A a \in Actors : a # Boot => At(a, "idle") /\ ~Step(a) /\ ~Fault(a)
    BY <1>3
    DEF Step, Acquire, Refuse, TakeSnapshot, Journal, Generate, GenerateFails, Reload, MarkApplied,
        HealthPasses, HealthFails, Arm, CancelWatchdog, MarkCommitted, Unlock, Wipe, Extract,
        Rereload, MarkRolledBack, Disarm, Release, Files, Fault, ApplyFault, UndoFault, Escape,
        ArmRaises, Committing, Undoing
  <2>2. Boot \in Actors
    OBVIOUS
  <2>3. ASSUME Acquire(Boot) \/ TakeSnapshot(Boot) \/ Journal(Boot) PROVE BootInv'
    BY <2>3, <1>3 DEF Acquire, TakeSnapshot, Journal
  <2>4. ASSUME NEW f \in Files, Generate(Boot, f) PROVE BootInv'
    BY <2>4, <1>3 DEF Generate, Files, AfterFile
  <2>5. ASSUME NEW f \in Files, GenerateFails(Boot, f) PROVE BootInv'
    BY <2>5, <1>3 DEF GenerateFails, Files
  <2>6. ASSUME Reload(Boot) PROVE BootInv'
    <3>1. /\ pc[Boot] = "reload" /\ pc' = [pc EXCEPT ![Boot] = "applied"] /\ Reloads
          /\ UNCHANGED <<tx, lock, timer, row, snap, gen, aps, cfg, good>>
      BY <2>6 DEF Reload
    <3>2. ASSUME ~Faults, NEW s \in Services
          PROVE  live'[s] = IF <<aps, s>> \in Rejected THEN Absent ELSE aps
      <4>1. live'[s] = Reloaded[s]
        BY <3>1, <3>2 DEF Reloads, Left
      <4>2. live["nftables"] = Absent /\ (s \in Files => gen[s] = aps)
        BY <3>1 DEF Calls, Undoing, Files
      <4>3. <<aps, "network">> \notin Rejected
        BY SomeAreRejected DEF Files
      <4>4. QED
        BY <4>1, <4>2, <4>3 DEF Reloaded, Services, Files
    <3>3. QED
      BY <1>3, <3>1, <3>2 DEF Calls, Undoing
  <2>7. ASSUME MarkApplied(Boot) \/ HealthPasses(Boot) \/ HealthFails(Boot) PROVE BootInv'
    BY <2>7, <1>3 DEF MarkApplied, HealthPasses, HealthFails
  <2>8. ASSUME CancelWatchdog(Boot) \/ MarkCommitted(Boot) PROVE BootInv'
    <3>0. timer \in [Tx -> BOOLEAN] /\ \A t \in Tx : ~timer[t]
      BY <1>3
    <3>1. \A t \in Tx : ~timer'[t]
      BY <2>8, <3>0, NoneTicks DEF CancelWatchdog, MarkCommitted
    <3>2. pc[Boot] \in Committing /\ \E l \in Committing : pc' = [pc EXCEPT ![Boot] = l]
      BY <2>8 DEF CancelWatchdog, MarkCommitted
    <3>3. UNCHANGED <<tx, cfg, aps, gen, live>>
      BY <2>8 DEF CancelWatchdog, MarkCommitted
    <3>4. QED
      BY <1>3, <3>1, <3>2, <3>3
  <2>9. ASSUME Wipe(Boot) \/ Extract(Boot) \/ Rereload(Boot) \/ MarkRolledBack(Boot) \/ Disarm(Boot)
        PROVE  BootInv'
    <3>1. \A t \in Tx : ~timer'[t]
      BY <2>9, <1>3 DEF Wipe, Extract, Rereload, MarkRolledBack, Disarm
    <3>2. \E l \in Undoing : pc' = [pc EXCEPT ![Boot] = l]
      BY <2>9 DEF Wipe, Extract, Rereload, MarkRolledBack, Disarm, Undoing
    <3>3. QED
      BY <1>3, <3>1, <3>2 DEF Undoing
  <2>10. ASSUME Finish(Boot) PROVE BootInv'
    BY <2>10, <1>3 DEF Finish
  <2>11. ASSUME Refuse(Boot) \/ Arm(Boot) \/ Unlock(Boot) \/ Release(Boot) PROVE BootInv'
    BY <2>10, <2>11 DEF Refuse, Arm, Unlock, Release
  <2>12. ASSUME Fault(Boot) PROVE BootInv'
    <3>1. CASE ApplyFault(Boot) \/ UndoFault(Boot)
      BY <3>1, <1>3 DEF ApplyFault, UndoFault
    <3>2. CASE Escape(Boot) \/ ArmRaises(Boot)
      BY <3>2, <2>10 DEF Escape, ArmRaises
    <3>3. QED
      BY <2>12, <3>1, <3>2 DEF Fault
  <2>13. ASSUME NEW t \in Tx, BootApply(t) PROVE BootInv'
    BY <2>13, <1>3 DEF BootApply, Stage, PersistAps
  <2>14. CASE BootSkip
    BY <2>10, <2>14 DEF BootSkip
  <2>15. CASE UNCHANGED vars
    BY <2>15, <1>3 DEF vars
  <2>16. ~Restart /\ \A t \in Tx : ~Expire(t) /\ \A w \in Workers : ~Request(w, t)
    BY <1>3 DEF Restart, Expire, Request, Apply, Confirm, Rollback
  <2>17. QED
    BY <1>1, <2>1, <2>2, <2>3, <2>4, <2>5, <2>6, <2>7, <2>8, <2>9, <2>11, <2>12, <2>13, <2>14,
       <2>15, <2>16
    DEF Next, Step, BootRuns
<1>4. QED
  BY <1>1, <1>2, <1>3

\* boot.py:85-91, config_manager.py:88-90: as long as no command or call fails for another
\* reason than its input, whatever crash or half-done change a boot follows and whatever
\* its probes say, when it commits the files are those of the table and every service
\* runs its file or, if it refuses it, nothing.
THEOREM BootAlwaysConverges == ASSUME ~Faults PROVE Spec => []BootConverges
<1>1. TypeOK /\ BootInv => BootConverges
  <2> SUFFICES ASSUME TypeOK, BootInv, pc[Boot] \in Committing
               PROVE  /\ gen = All(aps)
                      /\ \A s \in Services :
                           live[s] = IF <<aps, s>> \in Rejected THEN Absent ELSE aps
    BY DEF BootConverges
  <2>1. \A f \in Files : gen[f] = aps
    BY DEF BootInv, Written, Files
  <2>2. gen = All(aps)
    BY <2>1 DEF TypeOK, All
  <2>3. QED
    BY <2>2 DEF BootInv, Written
<1>2. QED
  BY <1>1, TypeInit, TypeNext, BootInit, BootNext, PTL DEF Spec

---------------------------------------------------------------------------
(* Refinement of SafeChange                                                 *)

LEMMA PromiseInit == Init => Promise!Init
  BY DEF Init, Promise!Init, Fate, InForce, All, Files

LEMMA PromiseNext ==
  ASSUME ~Overlap, ~Crashes, ~Faults,
         TypeOK, ExclusiveInv, WholeInv, JournalInv, [Next]_vars
  PROVE  [Promise!Next]_(Promise!svars)
<1> DEFINE Abstract == [Promise!Next]_(Promise!svars)
<1> USE NamesAreDistinct
    DEF TypeOK, ExclusiveInv, Exclusive, WholeInv, Settled, Progress, JournalInv, Undecided,
        Working, Busy, At, Goto, Finish, Files, Calls, Applying, Committing, Undoing
<1>1. ASSUME NEW a \in Actors, Acquire(a) PROVE Abstract
  <2>1. Promise!Try(tx[a])
    BY <1>1 DEF Acquire, Promise!Try, Fate, InForce
  <2>2. tx[a] \in Tx
    BY <1>1 DEF Acquire
  <2>3. QED
    BY <2>1, <2>2 DEF Promise!Next
<1>2. ASSUME NEW a \in Actors, Refuse(a) PROVE Abstract
  BY <1>2 DEF Refuse, Promise!svars, Fate, InForce
<1>3. ASSUME NEW a \in Actors, TakeSnapshot(a) PROVE Abstract
  BY <1>3 DEF TakeSnapshot, Promise!svars, Fate, InForce
<1>4. ASSUME NEW a \in Actors, Journal(a) PROVE Abstract
  BY <1>4 DEF Journal, Promise!svars, Fate, InForce
<1>5. ASSUME NEW a \in Actors, NEW f \in Files, Generate(a, f) PROVE Abstract
  BY <1>5 DEF Generate, AfterFile, Promise!svars, Fate, InForce
<1>6. ASSUME NEW a \in Actors, NEW f \in Files, GenerateFails(a, f) PROVE Abstract
  BY <1>6 DEF GenerateFails, Promise!svars, Fate, InForce
<1>7. ASSUME NEW a \in Actors, Reload(a) PROVE Abstract
  BY <1>7 DEF Reload, Promise!svars, Fate, InForce
<1>8. ASSUME NEW a \in Actors, MarkApplied(a) PROVE Abstract
  BY <1>8 DEF MarkApplied, Promise!svars, Fate, InForce
<1>9. ASSUME NEW a \in Actors, HealthPasses(a) PROVE Abstract
  BY <1>9 DEF HealthPasses, Promise!svars, Fate, InForce
<1>10. ASSUME NEW a \in Actors, HealthFails(a) PROVE Abstract
  BY <1>10 DEF HealthFails, Promise!svars, Fate, InForce
<1>11. ASSUME NEW a \in Actors, Arm(a) PROVE Abstract
  BY <1>11 DEF Arm, Promise!svars, Fate, InForce
<1>12. ASSUME NEW a \in Actors, CancelWatchdog(a) PROVE Abstract
  BY <1>12 DEF CancelWatchdog, Promise!svars, Fate, InForce
<1>13. ASSUME NEW a \in Actors, MarkCommitted(a) PROVE Abstract
  <2>1. tx[a] \in Tx /\ lock = tx[a] /\ lock # NoTx /\ lock' = lock /\ cfg' = cfg
    BY <1>13 DEF MarkCommitted
  <2>2. Fate[tx[a]] = "open"
    BY <1>13, <2>1 DEF MarkCommitted, Fate
  <2>3. Fate' = [Fate EXCEPT ![tx[a]] = "kept"]
    BY <1>13, <2>1 DEF MarkCommitted, Fate
  <2>4. InForce' = InForce
    BY <2>1 DEF InForce
  <2>5. Promise!Keep(tx[a])
    BY <1>13, <2>1, <2>2, <2>3, <2>4 DEF MarkCommitted, Promise!Keep
  <2>6. QED
    BY <2>1, <2>5 DEF Promise!Next
<1>14. ASSUME NEW a \in Actors, Unlock(a) PROVE Abstract
  <2>1. Promise!Close(tx[a])
    BY <1>14 DEF Unlock, Promise!Close, Fate, InForce
  <2>2. tx[a] \in Tx
    BY <1>14 DEF Unlock
  <2>3. QED
    BY <2>1, <2>2 DEF Promise!Next
<1>15. ASSUME NEW a \in Actors, Wipe(a) PROVE Abstract
  BY <1>15 DEF Wipe, Promise!svars, Fate, InForce
<1>16. ASSUME NEW a \in Actors, Extract(a) PROVE Abstract
  BY <1>16 DEF Extract, Promise!svars, Fate, InForce
<1>17. ASSUME NEW a \in Actors, Rereload(a) PROVE Abstract
  BY <1>17 DEF Rereload, Promise!svars, Fate, InForce
<1>18. ASSUME NEW a \in Actors, MarkRolledBack(a) PROVE Abstract
  <2>1. tx[a] \in Tx /\ lock = tx[a] /\ lock # NoTx /\ lock' = lock /\ cfg' = cfg
    BY <1>18 DEF MarkRolledBack
  <2>2. Fate[tx[a]] = "open"
    BY <1>18, <2>1 DEF MarkRolledBack, Fate
  <2>3. Fate' = [Fate EXCEPT ![tx[a]] = "reverted"]
    BY <1>18, <2>1 DEF MarkRolledBack, Fate
  <2>4. InForce' = InForce
    BY <2>1 DEF InForce
  <2>5. Promise!Revert(tx[a])
    BY <1>18, <2>1, <2>2, <2>3, <2>4 DEF MarkRolledBack, Promise!Revert
  <2>6. QED
    BY <2>1, <2>5 DEF Promise!Next
<1>19. ASSUME NEW a \in Actors, Disarm(a) PROVE Abstract
  BY <1>19 DEF Disarm, Promise!svars, Fate, InForce
<1>20. ASSUME NEW a \in Actors, Release(a) PROVE Abstract
  <2>1. Promise!Close(tx[a])
    BY <1>20 DEF Release, Promise!Close, Fate, InForce
  <2>2. tx[a] \in Tx
    BY <1>20 DEF Release
  <2>3. QED
    BY <2>1, <2>2 DEF Promise!Next
<1>21. ASSUME NEW a \in Actors, ApplyFault(a) PROVE Abstract
  BY <1>21 DEF ApplyFault, Promise!svars, Fate, InForce
<1>22. ASSUME NEW a \in Actors, UndoFault(a) PROVE Abstract
  BY <1>22 DEF UndoFault, Promise!svars, Fate, InForce
<1>23. ASSUME NEW a \in Actors, Escape(a) PROVE Abstract
  BY <1>23 DEF Escape, Promise!svars, Fate, InForce
<1>23a. ASSUME NEW a \in Actors, ArmRaises(a) PROVE Abstract
  BY <1>23a DEF ArmRaises, Promise!svars, Fate, InForce
<1>24. ASSUME NEW w \in Workers, NEW t \in Tx, Apply(w, t) PROVE Abstract
  <2> DEFINE c == t
  <2>1. cfg[t] = Absent /\ cfg' = [cfg EXCEPT ![t] = c] /\ c \in Tx \cup {Factory}
    BY <1>24 DEF Apply, Stage, PersistAps, Configs
  <2>2. UNCHANGED <<lock, row, good, gen>>
    BY <1>24 DEF Apply, Stage, PersistAps
  <2>3. Fate' = Fate /\ InForce' = InForce
    BY <2>2 DEF Fate, InForce
  <2> HIDE DEF c
  <2>4. Promise!Ask(t)
    BY <2>1, <2>2, <2>3 DEF Promise!Ask
  <2>5. QED
    BY <2>4 DEF Promise!Next
<1>25. ASSUME NEW w \in Workers, NEW t \in Tx, Confirm(w, t) PROVE Abstract
  BY <1>25 DEF Confirm, Answerable, Attended, Promise!svars, Fate, InForce
<1>26. ASSUME NEW w \in Workers, NEW t \in Tx, Rollback(w, t) PROVE Abstract
  BY <1>26 DEF Rollback, Answerable, Attended, Promise!svars, Fate, InForce
<1>27. ASSUME NEW t \in Tx, Expire(t) PROVE Abstract
  BY <1>27 DEF Expire, Attended, Promise!svars, Fate, InForce
<1>28. ASSUME NEW t \in Tx, BootApply(t) PROVE Abstract
  <2> DEFINE c == IF aps = Absent THEN Factory ELSE aps
  <2>1. cfg[t] = Absent /\ cfg' = [cfg EXCEPT ![t] = c] /\ c \in Tx \cup {Factory}
    BY <1>28 DEF BootApply, Stage, PersistAps, Configs
  <2>2. UNCHANGED <<lock, row, good, gen>>
    BY <1>28 DEF BootApply, Stage, PersistAps
  <2>3. Fate' = Fate /\ InForce' = InForce
    BY <2>2 DEF Fate, InForce
  <2> HIDE DEF c
  <2>4. Promise!Ask(t)
    BY <2>1, <2>2, <2>3 DEF Promise!Ask
  <2>5. QED
    BY <2>4 DEF Promise!Next
<1>29. CASE BootSkip
  BY <1>29 DEF BootSkip, Promise!svars, Fate, InForce
<1>30. CASE Restart
  BY <1>30 DEF Restart, Die, Promise!svars, Fate, InForce
<1>31. CASE Reboot
  BY <1>31 DEF Reboot, Die, Promise!svars, Fate, InForce
<1>32. CASE UNCHANGED vars
  BY <1>32 DEF vars, Promise!svars, Fate, InForce
<1>33. QED
  BY <1>1, <1>2, <1>3, <1>4, <1>5, <1>6, <1>7, <1>8, <1>9, <1>10, <1>11,
     <1>12, <1>13, <1>14, <1>15, <1>16, <1>17, <1>18, <1>19, <1>20, <1>21,
     <1>22, <1>23, <1>23a, <1>24, <1>25, <1>26, <1>27, <1>28, <1>29, <1>30, <1>31,
     <1>32
  DEF Next, Step, Fault, Request, BootRuns

\* While answers come to running countdowns one at a time and nothing crashes or
\* raises, the transaction manager implements the abstract promise: one trial at a
\* time, kept or reverted once, and the configuration kept last in force between
\* trials.
THEOREM ImplementsPromise ==
  ASSUME ~Overlap, ~Crashes, ~Faults PROVE Spec => PromiseSafety
<1> DEFINE Inv == TypeOK /\ ExclusiveInv /\ FirstBoot /\ WholeInv /\ JournalInv
<1>1. Init => Inv /\ Promise!Init
  BY TypeInit, ExclusiveInit, WholeInit, JournalInit, PromiseInit DEF Init, FirstBoot, Actors
<1>2. Inv /\ [Next]_vars => Inv'
  BY TypeNext, ExclusiveNext, FirstBootNext, WholeNext, JournalNext
<1>3. Inv /\ [Next]_vars => [Promise!Next]_(Promise!svars)
  BY PromiseNext
<1>4. QED
  BY <1>1, <1>2, <1>3, PTL DEF Spec, PromiseSafety

---------------------------------------------------------------------------
(* The course of a change                                                   *)

\* Where the course is while actor a is at call l, and who staged the change.
Place(a, l) == IF a = Boot /\ l \in Committing THEN "idle" ELSE StageOf(l)

Who(a, stage) ==
  IF stage \in {"off", "idle", "rereload"} THEN "none" ELSE IF a = Boot THEN "boot" ELSE "request"

\* Whoever is at work tells where the course is, and if nobody is, the lock does.
Placed ==
  /\ \A a \in Actors : Busy(a) => CourseAt = Place(a, pc[a]) /\ (WebUp <=> a # Boot)
  /\ (\A a \in Actors : ~Busy(a)) =>
       CourseAt = IF ~WebUp THEN "off" ELSE IF lock = NoTx THEN "idle" ELSE "trial"
  /\ ~WebUp /\ ~Busy(Boot) => lock = NoTx

LEMMA CourseIsPlaced == TypeOK /\ ExclusiveInv /\ NoOrphanLock /\ BootInv => Placed
<1> SUFFICES ASSUME TypeOK, ExclusiveInv, NoOrphanLock, BootInv PROVE Placed
  OBVIOUS
<1>0. Boot \in Actors /\ pc[Boot] \in Labels
  BY DEF TypeOK, Actors
<1>1. ASSUME NEW a \in Actors, Busy(a)
      PROVE  CourseAt = Place(a, pc[a]) /\ (WebUp <=> a # Boot)
  <2>1. \A b \in Actors : Busy(b) => b = a
    BY <1>1 DEF ExclusiveInv, Exclusive
  <2>2. lock # NoTx
    BY <1>1 DEF TypeOK, ExclusiveInv, Exclusive, Busy, Calls, Applying, Committing, Undoing
  <2>3. (CHOOSE b \in Actors : Busy(b)) = a
    BY <1>1, <2>1
  <2>4. CASE a = Boot
    BY <1>1, <2>2, <2>3, <2>4
    DEF CourseAt, Place, WebUp, At, Busy, Calls, Applying, Committing, Undoing
  <2>5. CASE a # Boot
    <3>1. pc[Boot] = "idle"
      BY <1>1, <2>5 DEF BootInv, WebUp, At, Busy, Calls, Applying, Committing, Undoing
    <3>2. QED
      BY <1>1, <2>2, <2>3, <2>5, <3>1 DEF CourseAt, Place, WebUp, At, Committing
  <2>6. QED
    BY <2>4, <2>5
<1>2. ~WebUp /\ ~Busy(Boot) => lock = NoTx
  BY <1>0 DEF NoOrphanLock, BootInv, Attended, Busy, At, TypeOK, Calls, Applying, Committing, Undoing
<1>3. ASSUME \A a \in Actors : ~Busy(a)
      PROVE  CourseAt = IF ~WebUp THEN "off" ELSE IF lock = NoTx THEN "idle" ELSE "trial"
  <2>1. pc[Boot] \in {"idle", "boot", "acquire"}
    BY <1>0, <1>3 DEF Busy, Labels
  <2>2. QED
    BY <1>3, <2>1 DEF CourseAt, WebUp, At, Committing
<1>4. QED
  BY <1>1, <1>2, <1>3 DEF Placed

\* A call of whoever is at work moves the course from its place to the next.
LEMMA CourseAtWork ==
  ASSUME TypeOK, Placed, Placed', NEW a \in Actors, Busy(a),
         NEW l \in Calls, pc' = [pc EXCEPT ![a] = l]
  PROVE  /\ CourseAt = Place(a, pc[a]) /\ CourseBy = Who(a, CourseAt)
         /\ CourseAt' = Place(a, l) /\ CourseBy' = Who(a, CourseAt')
<1>1. pc'[a] = l /\ Busy(a)'
  BY DEF TypeOK, Busy
<1>2. QED
  BY <1>1 DEF Placed, CourseBy, Who

\* A step of an actor that is not at work, before or after, leaves the course alone.
LEMMA CourseAwayFromWork ==
  ASSUME TypeOK, Placed, Placed', NEW a \in Actors, ~Busy(a), ~Busy(a)',
         lock' = lock, WebUp' = WebUp, \A b \in Actors : b # a => pc'[b] = pc[b]
  PROVE  UNCHANGED Course!cvars
<1>1. \A b \in Actors : Busy(b)' <=> Busy(b)
  BY DEF Busy
<1>2. CASE \E b \in Actors : Busy(b)
  <2>1. PICK b \in Actors : Busy(b)
    BY <1>2
  <2>2. b # a /\ Busy(b)' /\ pc'[b] = pc[b]
    BY <1>1, <2>1
  <2>3. CourseAt' = CourseAt
    BY <2>1, <2>2 DEF Placed, Place
  <2>4. QED
    BY <2>3 DEF CourseBy, Course!cvars
<1>3. CASE \A b \in Actors : ~Busy(b)
  <2>1. CourseAt' = CourseAt
    BY <1>1, <1>3 DEF Placed
  <2>2. QED
    BY <2>1 DEF CourseBy, Course!cvars
<1>4. QED
  BY <1>2, <1>3

LEMMA CourseNext ==
  ASSUME ~Overlap, ~Faults, TypeOK, ExclusiveInv, BootInv, Placed, Placed', [Next]_vars
  PROVE  [Course!Next]_(Course!cvars)
<1> DEFINE Abstract == [Course!Next]_(Course!cvars)
<1> USE NamesAreDistinct DEF Goto, Finish, At, Files, Course!Go
<1>0. Boot \in Actors /\ Committing \subseteq Calls
  BY DEF Actors, Calls
\* Steps along the course of whoever is at work.
<1>1. ASSUME NEW a \in Actors, TakeSnapshot(a) \/ Journal(a) \/ Reload(a) \/ CancelWatchdog(a)
                               \/ MarkCommitted(a) \/ Wipe(a) \/ Rereload(a)
                               \/ MarkRolledBack(a) \/ Disarm(a)
      PROVE  Abstract
  <2>1. PICK l \in Calls : pc' = [pc EXCEPT ![a] = l] /\ Busy(a) /\ Place(a, l) = Place(a, pc[a])
    BY <1>1
    DEF TakeSnapshot, Journal, Reload, CancelWatchdog, MarkCommitted, Wipe, Rereload,
        MarkRolledBack, Disarm, Busy, Calls, Applying, Committing, Undoing, Place, StageOf
  <2>2. QED
    BY <2>1, CourseAtWork DEF Course!cvars
<1>2. ASSUME NEW a \in Actors, NEW f \in Files, Generate(a, f) PROVE Abstract
  <2>1. /\ pc[a] = f /\ pc' = [pc EXCEPT ![a] = AfterFile[f]] /\ Busy(a)
        /\ f \in {"hostapd", "dnsmasq", "nftables"} /\ AfterFile[f] \in {"dnsmasq", "nftables", "reload"}
    BY <1>2 DEF Generate, AfterFile, Busy, Calls, Applying
  <2>2. Place(a, f) = f /\ Place(a, AfterFile[f]) = AfterFile[f] /\ AfterFile[f] = Course!After[f]
    BY <2>1 DEF Place, StageOf, AfterFile, Course!After, Committing, Undoing
  <2>3. /\ CourseAt = f /\ CourseAt' = AfterFile[f]
        /\ CourseBy = Who(a, f) /\ CourseBy' = Who(a, AfterFile[f])
    BY <2>1, <2>2, CourseAtWork DEF Calls, Applying
  <2>4. Course!Write
    BY <2>1, <2>2, <2>3 DEF Course!Write, Course!After, Who
  <2>5. QED
    BY <2>4 DEF Course!Next
<1>3. ASSUME NEW a \in Actors, NEW f \in Files, GenerateFails(a, f) PROVE Abstract
  <2>1. pc[a] = f /\ pc' = [pc EXCEPT ![a] = "wipe"] /\ Busy(a) /\ "wipe" \in Calls
    BY <1>3 DEF GenerateFails, Busy, Calls, Applying, Undoing
  <2>2. Place(a, f) = f /\ Place(a, "wipe") = "restore"
    BY DEF Place, StageOf, Committing, Undoing
  <2>3. CourseAt = f /\ CourseAt' = "restore" /\ CourseBy = Who(a, f) /\ CourseBy' = Who(a, "restore")
    BY <2>1, <2>2, CourseAtWork
  <2>4. Course!Raise
    BY <2>3 DEF Course!Raise, Course!After, Who
  <2>5. QED
    BY <2>4 DEF Course!Next
<1>4. ASSUME NEW a \in Actors, MarkApplied(a) PROVE Abstract
  <2>1. pc[a] = "applied" /\ pc' = [pc EXCEPT ![a] = "health"] /\ Busy(a) /\ "health" \in Calls
    BY <1>4 DEF MarkApplied, Busy, Calls, Applying
  <2>2. Place(a, "applied") = "reload" /\ Place(a, "health") = "health"
    BY DEF Place, StageOf, Committing, Undoing
  <2>3. Course!Reload
    BY <2>1, <2>2, CourseAtWork DEF Course!Reload, Who
  <2>4. QED
    BY <2>3 DEF Course!Next
<1>5. ASSUME NEW a \in Actors, HealthPasses(a) PROVE Abstract
  <2>1. /\ pc[a] = "health" /\ Busy(a)
        /\ \E l \in IF a = Boot THEN {"cancel"} ELSE {"arm", "cancel"} : pc' = [pc EXCEPT ![a] = l]
    BY <1>5 DEF HealthPasses, Busy, Calls, Applying
  <2>2. PICK l \in {"arm", "cancel"} : pc' = [pc EXCEPT ![a] = l] /\ (a = Boot => l = "cancel")
    BY <2>1
  <2>3. l \in Calls /\ Place(a, "health") = "health"
        /\ Place(a, l) = IF a = Boot THEN "idle" ELSE "trial"
    BY <2>2 DEF Place, StageOf, Calls, Applying, Committing, Undoing
  <2>4. Course!Pass
    BY <2>1, <2>2, <2>3, CourseAtWork DEF Course!Pass, Who
  <2>5. QED
    BY <2>4 DEF Course!Next
<1>6. ASSUME NEW a \in Actors, HealthFails(a) PROVE Abstract
  <2>1. /\ pc[a] = "health" /\ a # Boot /\ Busy(a)
        /\ pc' = [pc EXCEPT ![a] = "wipe"] /\ "wipe" \in Calls
    BY <1>6 DEF HealthFails, Busy, Calls, Applying, Undoing
  <2>2. Place(a, "health") = "health" /\ Place(a, "wipe") = "restore"
    BY DEF Place, StageOf, Committing, Undoing
  <2>3. Course!Reject
    BY <2>1, <2>2, CourseAtWork DEF Course!Reject, Who
  <2>4. QED
    BY <2>3 DEF Course!Next
<1>7. ASSUME NEW a \in Actors, Extract(a) PROVE Abstract
  <2>1. /\ pc[a] = "extract" /\ Busy(a)
        /\ pc' = [pc EXCEPT ![a] = "rereload"] /\ "rereload" \in Calls
    BY <1>7 DEF Extract, Busy, Calls, Undoing
  <2>2. Place(a, "extract") = "restore" /\ Place(a, "rereload") = "rereload"
    BY DEF Place, StageOf, Committing, Undoing
  <2>3. Course!Restore
    BY <2>1, <2>2, CourseAtWork DEF Course!Restore, Who
  <2>4. QED
    BY <2>3 DEF Course!Next
\* The lock is taken and given back.
<1>8. ASSUME NEW a \in Actors, Acquire(a) PROVE Abstract
  <2>1. \A b \in Actors : ~Busy(b)
    BY <1>8 DEF Acquire, TypeOK, ExclusiveInv, Exclusive, Busy, Calls, Applying, Committing, Undoing
  <2>2. pc'[a] = "snapshot" /\ Busy(a)' /\ pc[a] = "acquire" /\ lock = NoTx
    BY <1>8 DEF Acquire, TypeOK, Busy, Calls, Applying
  <2>3. a # Boot <=> WebUp
    BY <2>2 DEF BootInv, WebUp
  <2>4. Place(a, "snapshot") = "hostapd"
    BY DEF Place, StageOf, Committing, Undoing
  <2>5. CourseAt' = "hostapd" /\ (WebUp' <=> a # Boot)
    BY <2>2, <2>4 DEF Placed
  <2>6. CourseBy' = IF a = Boot THEN "boot" ELSE "request"
    BY <2>5 DEF CourseBy
  <2>7. CourseAt = (IF a = Boot THEN "off" ELSE "idle") /\ CourseBy = "none"
    BY <2>1, <2>2, <2>3 DEF Placed, CourseBy
  <2>8. Course!BootUp \/ Course!Request
    BY <2>5, <2>6, <2>7 DEF Course!BootUp, Course!Request
  <2>9. QED
    BY <2>8 DEF Course!Next
<1>9. ASSUME NEW a \in Actors, Unlock(a) \/ Release(a) PROVE Abstract
  <2>1. /\ pc[a] \in {"unlock", "release"} /\ Busy(a) /\ lock' = NoTx
        /\ pc' = [pc EXCEPT ![a] = "idle"] /\ \A b \in Actors : ~Busy(b)'
    BY <1>9, NobodyLeft DEF Unlock, Release, Busy, Calls, Committing, Undoing
  <2>2. CourseAt = Place(a, pc[a]) /\ (WebUp <=> a # Boot)
    BY <2>1 DEF Placed
  <2>3. WebUp'
    BY <1>0, <2>1, <2>2 DEF WebUp, TypeOK
  <2>4. CourseAt' = "idle" /\ CourseBy' = "none"
    BY <2>1, <2>3 DEF Placed, CourseBy
  <2>5. CourseAt = IF pc[a] = "release" THEN "rereload" ELSE IF a = Boot THEN "idle" ELSE "trial"
    BY <2>1, <2>2 DEF Place, StageOf, Committing, Undoing
  <2>6. CourseAt = "idle" => CourseBy = "none"
    BY DEF CourseBy
  <2>7. Course!Keep \/ Course!Rereload \/ UNCHANGED Course!cvars
    BY <2>4, <2>5, <2>6 DEF Course!Keep, Course!Rereload, Course!cvars
  <2>8. QED
    BY <2>7 DEF Course!Next
\* A trial begins, and its countdown or the admin ends it.
<1>10. ASSUME NEW a \in Actors, Arm(a) PROVE Abstract
  <2>1. pc[a] = "arm" /\ Busy(a) /\ a # Boot /\ lock' = lock /\ pc' = [pc EXCEPT ![a] = "idle"]
    BY <1>10 DEF Arm, BootInv, Busy, Calls, Applying
  <2>2. CourseAt = "trial" /\ WebUp
    BY <2>1 DEF Placed, Place, StageOf, Committing, Undoing
  <2>3. lock # NoTx
    BY <2>1 DEF TypeOK, ExclusiveInv, Exclusive
  <2>4. \A b \in Actors : ~Busy(b)'
    BY <2>1 DEF TypeOK, ExclusiveInv, Exclusive, Busy, Calls, Applying, Committing, Undoing
  <2>5. WebUp'
    BY <1>0, <2>1, <2>2 DEF WebUp, TypeOK
  <2>6. CourseAt' = "trial"
    BY <2>1, <2>3, <2>4, <2>5 DEF Placed
  <2>7. QED
    BY <2>2, <2>5, <2>6 DEF CourseBy, Course!cvars
<1>11. ASSUME NEW a \in Actors, a # Boot, NEW t \in Tx, NEW l \in {"cancel", "wipe"},
              timer[t], ~Attended(t), pc[a] = "idle", pc' = [pc EXCEPT ![a] = l]
       PROVE  Abstract
  <2>1. lock = t /\ \A b \in Actors : ~Busy(b)
    BY <1>11 DEF ExclusiveInv, Exclusive, Attended
  <2>2. WebUp
    BY <1>11 DEF BootInv
  <2>3. CourseAt = "trial" /\ CourseBy = "request"
    BY <2>1, <2>2 DEF Placed, CourseBy
  <2>4. pc'[a] = l /\ Busy(a)'
    BY <1>11 DEF TypeOK, Busy, Calls, Committing, Undoing
  <2>5. Place(a, l) = IF l = "cancel" THEN "trial" ELSE "restore"
    BY <1>11 DEF Place, StageOf, Committing, Undoing
  <2>6. CourseAt' = (IF l = "cancel" THEN "trial" ELSE "restore") /\ CourseBy' = "request"
    BY <1>11, <2>4, <2>5 DEF Placed, CourseBy
  <2>7. Course!Revert \/ UNCHANGED Course!cvars
    BY <2>3, <2>6 DEF Course!Revert, Course!cvars
  <2>8. QED
    BY <2>7 DEF Course!Next
\* A request or a countdown before its turn, and a boot that has not asked yet.
<1>12. ASSUME NEW a \in Actors, Refuse(a) PROVE Abstract
  <2>1. pc[a] = "acquire" /\ lock # NoTx /\ lock' = lock /\ pc' = [pc EXCEPT ![a] = "idle"]
    BY <1>12 DEF Refuse
  <2>2. ~Busy(a) /\ ~Busy(a)'
    BY <2>1 DEF TypeOK, Busy, Calls, Applying, Committing, Undoing
  <2>3. a # Boot
    BY <2>1, <2>2 DEF Placed, WebUp
  <2>4. WebUp' = WebUp
    BY <1>0, <2>1, <2>3 DEF TypeOK, WebUp
  <2>5. QED
    BY <2>1, <2>2, <2>4, CourseAwayFromWork DEF TypeOK
<1>13. ASSUME NEW w \in Workers, NEW t \in Tx, Apply(w, t) PROVE Abstract
  <2>1. pc[w] = "idle" /\ WebUp /\ lock' = lock /\ pc' = [pc EXCEPT ![w] = "acquire"]
        /\ w \in Actors /\ w # Boot
    BY <1>13 DEF Apply, Stage, Actors
  <2>2. ~Busy(w) /\ ~Busy(w)' /\ WebUp' = WebUp
    BY <1>0, <2>1 DEF TypeOK, Busy, WebUp, Calls, Applying, Committing, Undoing
  <2>3. QED
    BY <2>1, <2>2, CourseAwayFromWork DEF TypeOK
<1>14. ASSUME NEW t \in Tx, BootApply(t) PROVE Abstract
  <2>1. pc[Boot] = "boot" /\ lock' = lock /\ pc' = [pc EXCEPT ![Boot] = "acquire"]
    BY <1>14 DEF BootApply, Stage
  <2>2. ~Busy(Boot) /\ ~Busy(Boot)' /\ WebUp' = WebUp
    BY <1>0, <2>1 DEF TypeOK, Busy, WebUp, Calls, Applying, Committing, Undoing
  <2>3. QED
    BY <1>0, <2>1, <2>2, CourseAwayFromWork DEF TypeOK
<1>15. CASE BootSkip
  <2>1. pc[Boot] = "boot" /\ lock' = lock /\ pc' = [pc EXCEPT ![Boot] = "idle"]
    BY <1>15 DEF BootSkip
  <2>2. ~WebUp /\ lock = NoTx /\ \A a \in Actors : ~Busy(a)
    BY <1>0, <2>1
    DEF BootInv, Placed, WebUp, Busy, Calls, Applying, Committing, Undoing
  <2>3. WebUp' /\ \A a \in Actors : ~Busy(a)'
    BY <1>0, <2>1, <2>2 DEF TypeOK, WebUp, Busy, Calls, Applying, Committing, Undoing
  <2>4. CourseAt = "off" /\ CourseAt' = "idle" /\ CourseBy' = "none"
    BY <2>1, <2>2, <2>3 DEF Placed, CourseBy
  <2>5. Course!BootUp
    BY <2>4 DEF Course!BootUp
  <2>6. QED
    BY <2>5 DEF Course!Next
\* What ends everything.
<1>16. CASE Restart
  <2>1. WebUp /\ lock' = NoTx /\ \A a \in Actors : pc'[a] = "idle"
    BY <1>16 DEF Restart, Die
  <2>2. CourseAt' = "idle" /\ CourseBy' = "none"
    BY <1>0, <2>1 DEF Placed, CourseBy, WebUp, Busy, Calls, Applying, Committing, Undoing
  <2>3. CourseAt # "off" /\ CourseBy # "boot"
    BY <2>1 DEF CourseAt, CourseBy, WebUp, Placed, Place, StageOf, Busy, Calls, Applying,
                Committing, Undoing
  <2>4. Course!Restart
    BY <2>2, <2>3 DEF Course!Restart
  <2>5. QED
    BY <2>4 DEF Course!Next
<1>17. CASE Reboot
  <2>1. pc'[Boot] = "boot"
    BY <1>0, <1>17 DEF Reboot
  <2>2. CourseAt' = "off" /\ CourseBy' = "none"
    BY <2>1 DEF CourseAt, CourseBy
  <2>3. Course!Reboot
    BY <2>2 DEF Course!Reboot
  <2>4. QED
    BY <2>3 DEF Course!Next
<1>18. CASE UNCHANGED vars
  <2>1. UNCHANGED <<pc, lock>>
    BY <1>18 DEF vars
  <2>2. CourseAt' = CourseAt
    BY <2>1 DEF CourseAt, Busy
  <2>3. CourseBy' = CourseBy
    BY <2>1, <2>2 DEF CourseBy, WebUp
  <2>4. QED
    BY <2>2, <2>3 DEF Course!cvars
<1>19. ASSUME NEW a \in Actors PROVE ~Fault(a)
  BY DEF Fault, ApplyFault, UndoFault, Escape, ArmRaises
<1>20. ASSUME NEW w \in Workers, NEW t \in Tx, Confirm(w, t) \/ Rollback(w, t) PROVE Abstract
  BY <1>11, <1>20 DEF Confirm, Rollback, Answerable, Actors
<1>21. ASSUME NEW t \in Tx, Expire(t) PROVE Abstract
  BY <1>11, <1>21 DEF Expire, Actors
<1>22. QED
  BY <1>1, <1>2, <1>3, <1>4, <1>5, <1>6, <1>7, <1>8, <1>9, <1>10, <1>12, <1>13, <1>14, <1>15,
     <1>16, <1>17, <1>18, <1>19, <1>20, <1>21
  DEF Next, Step, Request, BootRuns

\* transaction.py:31, 73-75: as long as answers come to running countdowns one at a time
\* and nothing raises, all threads together take one change after the other along its
\* course, whatever restarts and reboots do; AccessPointsTakeThatCourse of
\* AccessPointsProofs says that AccessPoints models that course.
THEOREM ThreadsTakeOneCourse ==
  ASSUME ~Overlap, ~Faults PROVE Spec => FollowsCourse
<1> DEFINE Inv == TypeOK /\ ExclusiveInv /\ NoOrphanLock /\ BootInv
<1>1. Init => Inv /\ Course!Init
  <2>1. Init => Inv
    BY TypeInit, ExclusiveInit, BootInit DEF Init, NoOrphanLock
  <2>2. Init => Course!Init
    BY DEF Init, Course!Init, CourseAt, CourseBy, Actors
  <2>3. QED
    BY <2>1, <2>2
<1>2. Inv /\ [Next]_vars => Inv'
  BY TypeNext, ExclusiveNext, NoOrphanNext, BootNext
<1>3. Inv => Placed
  BY CourseIsPlaced
<1>4. Inv /\ Placed /\ Placed' /\ [Next]_vars => [Course!Next]_(Course!cvars)
  BY CourseNext
<1>5. QED
  BY <1>1, <1>2, <1>3, <1>4, PTL DEF Spec, FollowsCourse, Course!Spec
=============================================================================
