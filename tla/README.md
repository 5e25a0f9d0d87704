# travelrouter: a verification development

travelrouter (PiBridge) turns a Raspberry Pi into a Wi-Fi router that is managed
over the very links it reconfigures. These TLA+ modules model how it changes its
configuration without locking its admin out, what a change makes of each access
point, how it follows the hardware it runs on, and how its web server's threads
are shared while a countdown runs. TLC checks small instances; TLAPS proves every
safety property the passing runs check for instances of any size. Paths below are relative to the repository.

## 1. The system

| component | state | operations | talks to |
|---|---|---|---|
| transaction manager `trouter/core/transaction.py` | `_active_lock`, `_watchdogs`, a snapshot per transaction, rows of `transactions` | begin, apply, health, arm, commit, rollback, watchdog | config manager (callbacks), database |
| config manager `core/config_manager.py` | rows of `access_points` | apply_aps, confirm, rollback | validation, transaction manager, service adapters |
| boot `boot.py` | none | first discovery, bootstrap access point, apply without countdown | config manager, HAL; ends before the web unit starts |
| HAL `hal/interfaces.py` | rows of `interfaces` | discover, list, resolve_name | sysfs; called by boot, web workers, hotplug thread, doctor |
| hotplug events `hal/events.py` | a bounded queue per open browser tab | udev loop, broadcast, subscribe | HAL, event stream |
| service adapters `services/*.py` | files under `GEN_DIR`; units, ruleset, addresses, policy rules | generate, reload, health | `run` (never raises), `write` (atomic replace) |
| validation, recommendations | none | pure functions of a request and the `interfaces` table | |
| web API `api/*.py`, `app.py`, `run.py` | sessions, the login throttle; 8 threads | requests; event streams that keep their thread | everything above |
| web UI `web/static/js/app.js` | what a tab shows, the countdown overlay | renders on events, confirms, reverts | web API |
| `apctl.py`, `systemd/*` | none | flush of a radio before hostapd starts, restarts | units |

What is hard about it:

- *Concurrency.* Eight web threads, a timer thread per trial, the hotplug thread,
  and one non-blocking lock that `_release` frees without asking who holds it.
- *Time.* A change is on trial for 90 s. The admin's answer and the end of the
  countdown race, and the check of the row and the decision are separate steps.
- *Failure.* A process or the box may die between any two calls. The journal,
  the table and the generated files survive; the lock and the timers do not. A
  full disk or a locked database raises at any call, with the lock held or not.
- *Several copies of the truth.* The table, the generated files, the running
  services and the snapshot are written at different moments, and a rollback
  brings back only one of them.
- *Moving hardware.* Adapters change names while discoveries, several at a time,
  read and write the table that every generator resolves names with.
- *A small pool.* Each open page keeps one of eight threads, and the answer that
  stops a countdown needs one of the others.

What makes the components correct: one change at a time; a trial always ends,
decided once, by the admin or by the watchdog; between trials the box runs, as a
whole, what was committed last; boot converges on that; what requests store can be
booted; the generators agree on the device of each access point, and files, units,
addresses, scopes, marks and routing rules describe the same ones; no two adapters
answer to one name; tables and browsers end up showing the hardware; a Keep that is
clicked in time is served in time.

The hazards of the code, each at its line, are listed in `PROJECT.json` with the
properties that would catch them.

## 2. Modules

| module | role |
|---|---|
| `Transaction` | lock, journal, timers, files, services; workers, watchdogs and boot as interleaved actors |
| `SafeChange` | what the transaction manager promises, without threads or files |
| `ChangeCourse` | the course of one change after the other, which `Transaction` and `AccessPoints` share |
| `TransactionProofs` | theorems about `Transaction`, refinement of `SafeChange` and `ChangeCourse` included |
| `AccessPoints` | access points one by one: validation, table, generators, the reload of each service, and what happens beside them without the lock |
| `AccessPointsProofs` | theorems about `AccessPoints`, refinement of `ChangeCourse` included |
| `Hotplug` | hardware, discovery, the hotplug thread, browser tabs and their streams |
| `HotplugProofs` | theorems about `Hotplug` |
| `WebPool` | the web server's threads, event streams and calls against the countdown |
| `WebPoolProofs` | theorems about `WebPool` |
| `MCTransaction`, `MCAccessPoints`, `MCHotplug`, `MCWebPool` | symmetry sets and instances for TLC; the `.cfg` files hold the rest |

The three state machines meet where one takes over what another shows. `Transaction`
treats a configuration as one value and shows that one change is at work at a time;
`AccessPoints` opens that value up and lets one `pc` stand for whoever holds the lock.
What entitles it to is `ChangeCourse`: the threads of `Transaction` together are shown to
take its steps and no others (`ThreadsTakeOneCourse`), and so is that `pc`
(`AccessPointsTakeThatCourse`). The first is true only while answers do not overlap and
no call raises but the generators, so that is what all of `AccessPoints` presumes:
with overlapping answers two threads may write files at a time. Its `Restart`, the web process that dies in the middle of a
change, is a step `AccessPoints` leaves to `Transaction`; reboots it takes itself.
`AccessPoints` moves the interfaces table with the hardware at once; `Hotplug` shows
when it does. `Transaction` lets an answer come or not; `WebPool` shows what may delay it.

Operators whose comment begins with "Mutant:" are no part of a specification: each
is a plausible bug of the definition that follows it, and the property it is
paired with in `PROJECT.json` is violated when it takes that definition's place.

### Transaction

`pc[a]` is the call actor `a` makes next. Actors are the web workers, one watchdog
thread per transaction and the boot process. `tx[a]` is the `Transaction` object it
runs. Every call that changes shared state is one action:

| code | actions |
|---|---|
| `apply_aps` before `begin`, `boot.main` | `Apply`, `BootApply`, `BootSkip` (with `PersistAps`) |
| `begin` | `Acquire`, `Refuse`, `TakeSnapshot`, `Journal` |
| `apply` | `Generate` / `GenerateFails` per file group, `Reload`, `MarkApplied`, `ApplyFault` |
| `health`, the choice of `arm` or `commit` | `HealthPasses`, `HealthFails`, `Arm`, `ArmRaises` |
| `confirm`, `rollback`, `_watchdog_fire` | `Confirm`, `Rollback`, `Expire` |
| `commit` | `CancelWatchdog`, `MarkCommitted`, `Unlock` |
| `_rollback` and its `finally` | `Wipe`, `Extract`, `Rereload`, `MarkRolledBack`, `UndoFault`, `Disarm`, `Release` |
| exceptions nobody catches, process and box | `Escape`, `Restart`, `Reboot` |

`lock` is `_active_lock`, with the transaction that acquired it added as history.
`said` and `good` are history variables: the answers given and asked about a
transaction, and the configuration committed last.

Abstractions, and why they are faithful to what the properties tell apart:

- A configuration is named by the transaction that brought it (`Factory`: the
  bootstrap one). A request carries the whole set of access points, so the
  configuration applied is the one in the table; `AccessPoints` has partial requests,
  which merge with the rows they do not name.
- A reload is one action, and no property of this module speaks of the middle of
  one; `AccessPoints` takes it apart.
- The snapshot archive is written in one action: the lock is held and nobody else
  touches the files between its reads. The restore is two, `Wipe` and `Extract`,
  because a crash between them matters.
- Whether a service accepts what is generated for it depends on the configuration:
  `Rejected` are the pairs of which it does not (no enabled access point, a device that
  is missing). `Reloaded` is what a reload then leaves running: a unit that refuses its
  file is down, and `nft -f` of a file that it refuses, or that does not exist, keeps
  the loaded ruleset. On a box where nothing was ever committed a rollback therefore
  leaves the reverted ruleset loaded; `WholeConfig` says so in its condition on `good`.
- `services.run` reports a command that failed to nobody. With `Faults` a reload may leave
  any service on what it ran before, or stopped (`Left`, `Reloads`), and a probe may pass
  all the same. Boot commits whatever its probe says.
- systemd restarts the units that are `PartOf` the web unit with it; their pre-start
  helper flushes the addresses, and they read whatever files are there (`UnitsOnly`).
- The `deadline` column is compared with the time by no code, so only its
  announcement to the admin is kept (`said`).
- Boot and web are two processes, each with a lock of its own. The boot unit ends
  before the web unit starts, so the two never coexist and one variable serves.
- The writes of `sysctl.apply` and `vpn.sync` do not depend on the configuration;
  that they may raise is part of `GenerateFails`.

Three Boolean constants are the environments the model distinguishes. `Overlap`:
answers may come at any time, also to decided transactions and while another thread
works on the same one. Without it the admin answers a running countdown, one
answer at a time, and the countdown does not end under an answer being served.
`Crashes`: the web process may restart and the box reboot. `Faults`: the disk and
the database may raise, and commands fail. The code has no such constants, and nothing
in it keeps an answer away: `Answerable` and the last guard of `Expire` restrict the
environment, not the program. What they exclude does go wrong. A confirmation that
races with the watchdog is `tx_race`. A rollback of a transaction decided long ago
restores its snapshot and then frees the lock of whoever holds it (`Rollback` under
`Overlap`): `Exclusive`, `JournalFinal` and `WholeConfig` fail in that way, which the code
accepts and no run repeats. A confirmation that arrives between `MarkApplied` and `Arm`
takes two workers and `Overlap` together; no run has both. Each property is checked in the widest environment it
holds in; where it fails, and the documentation promises it, a run shows the
failure (section 4).

### Hotplug

`plug` is the hardware. A discovery of actor `a` (the hotplug thread or a tab's
request) lists the names (`Begin`), probes them one by one (`Probe`), reads the
table (`ReadTable`), and writes what it found in one database transaction
(`WriteTable`). The read is outside that transaction because sqlite3 opens one at
the first write. The order of the probes is left open; the code sorts names, so
the model allows more. A row inserted since the read makes the INSERT raise
(`Conflict`): the request fails, the hotplug thread dies. `queue[b]` counts the
events waiting for tab `b`, dropped beyond `QueueSize`; `shown[b]` is what the tab
displays. `Ended` is the end of `discover()`, by a return or an exception, which takes
its locals with it.

Two variables are history. `overlap` says whether discoveries have overlapped: `"never"`;
`"now"`, one began while another ran; `"past"`, that is over and one runs alone; or
`"healed"`, one has run alone to its end. `since[a][r]` are the names radio `r` has had
since the discovery of `a` began.

`polling` says that pyudev is missing; it is chosen in `Init` and never changes. The
thread then discovers again and again (`Poll`), and `AnnounceIfNew` broadcasts when identities and presence differ from its
own previous snapshot. `Lose` and `Reconnect` are an event stream that breaks and the
`setTimeout` that subscribes again. A tab shows the interfaces view all along; the
keepalive and the thread a stream occupies belong to `WebPool`.

### AccessPoints

`rows` is the table, `req` the list of entries the change at work carries, `files` what was
generated, `wanted`, `up`, `addr`, `dhcp`, `fw`, `ruled` and `holes` what runs: units enabled
and running, addresses, DHCP scopes, the ruleset, ip rules and blackholes.

| code | actions |
|---|---|
| `validate`, `has_blocking` | `Blocked` = `Unusable`, `OverCeiling`, `Overlap`, `NoTunnel` |
| `apply_aps` up to `begin` | `Request`; `Refuse` if the lock is taken (the rows are stored all the same: `Merge`) |
| `boot.main`, `_pick_ap_iface`, `_create_bootstrap_ap` | `Boot` with `Candidates`, `Tables` |
| `hostapd.generate` | `ClearHostapd`, then for each entry `WriteHostapd` or `HostapdRaises` |
| `dnsmasq.generate`, `nftables.generate` | `WriteDnsmasq` or `DnsmasqRaises`, `WriteNftables` or `NftablesRaises` |
| `_reload_services` | `ReloadUnits` (with the table read), `BringUp`, `ReloadDnsmasq`, `ReloadNftables`, `ReloadVpn` |
| `_health`, `confirm`, `_watchdog_fire`, `_rollback` | `HealthPasses`, `HealthFails`, `Keep`, `Revert`, `Restore` |
| `doctor.main` | `DoctorReads`, `DoctorClears`, `DoctorWrites` for each row |
| beside the lock | `Move` (hardware), `RestartUnit`, `RetryDnsmasq` (systemd), `RestartNet`, `Reboot` |

A request carries a list of entries, in order. An entry has the `id` of a row, an id of
null (0), or no such key (`Omitted`), and a list may have any number of each. A new entry
is inserted, a known id updated, an unknown one is an UPDATE of no row (`Row`, `Writers`).
A hostapd file is named by the id or, while there is none, by the SSID (`File`), so two
new access points with one SSID write one file; `hostapd.py:1` says "one config file + one
systemd instance per AP". An entry without the key raises in `hostapd.generate`, or in
`nftables.generate` if its radio was absent.

`dnsmasq.generate` raises for a request without a subnet or a range, and again for a
stored row whose subnet is null: such a request passes validation (`validation.py:28-32`)
and is stored before it raises, so the next boot raises too. A range that is null in the
table is written down as it is, and dnsmasq refuses the file (`ok`). dnsmasq may start
while its devices have no address yet, and must not fail to once they have
(`DhcpWith`); systemd starts one that failed again (`RetryDnsmasq`).

`Move` lets an adapter come, go or change its name, and may leave one name to two
adapters, which is what `hotplug_ambiguous` shows of the table.

`disturbed` is a history variable: what is out of the ordinary about the change at work
(`Doubts` of its list) or came between since it was staged. The properties name what
they exclude of it, and nothing else.

| `disturbed` has | when |
|---|---|
| `"rows"` | an enabled row is not in the list |
| `"ids"` | the list has an unknown id, or one twice |
| `"files"` | two of its entries share a file |
| `"new"` | it brings an access point |
| `"names"` | two adapters were listed under one name |
| `"move"`, `"unit"` | an adapter moved, a unit was restarted by systemd |
| `"table"`, `"later"` | another request stored its rows before, or after, the reload was over |
| `"doctor"` | the doctor wrote while files were written or units not restarted yet |

Abstractions:

- An access point says its radio, its SSID, its subnet (a set of addresses, empty if none
  is given), its policy, whether band, name or passphrase, the tunnel or the range is
  wrong (`flaw`), and whether it is enabled. Warnings block nothing and are left out.
- A subnet that is not a valid network is not modelled: the generators cut strings
  out of it and raise or not by its shape.
- Validation and the storing of rows are one step. Both only read or write the
  database, and a discovery between them can be moved before or after the pair
  without any property noticing.
- Interfaces follow the hardware at once, but for names left ambiguous. How far the
  table may lag is `Hotplug`'s.
- `HealthFails` may happen at any time: units that are slow to start fail the probe.

### WebPool

A change is on trial. `calls` is waitress's queue, in order; `held` are the connections
whose event stream keeps a thread. `Load` is a page that opens (it asks for a pending change
and for its stream), `Leave` one that is closed, `Break` a stream that fails under an open
page and `Reconnect` its next connection (`app.js:157`), which takes a second thread while
the old one keeps its own. `Confirm` is the Keep button, `Serve` a free thread that takes
the next call. A stream notices that its other end is gone only by writing to it: `Event`
is a hotplug event, `KeepAlive` the timeout of its queue, which each stream counts from
its own last write (`age`). `Tick` is the time between. In the run a tick is 10 s: 20 s
are `Keepalive` = 2, the countdown of 90 s is `Deadline` = 9.

`Patience` is the number of writes to a closed connection until one raises: the first may
still end up in a buffer, the second meets the reset the other host has answered with. On a
link that was cut no reset comes and writes go to a buffer for minutes; that is a larger
`Patience`, for which `KeptInTime` holds as well but promises nothing: a Keep behind such
a stream may then wait longer than the countdown takes.

Calls that no property is about are left out, as they keep a thread for a moment
only. `due` is history: the tick until which the first Keep may have to wait for the
streams ahead of it (`Wait`).

## 3. Runs that pass

| run | instance | states | what it shows |
|---|---|---|---|
| `tx_orderly` | 3 transactions, 2 workers; no overlap, crash or fault; one configuration that hostapd and nft refuse | 47 k | `WholeConfig` and, for all that runs, `WholeBox`; `KeptStaysKept`, `TrialIsWatched`, every journalled change decided (`Resolved`), refinement of `SafeChange` with its liveness (`KeepsPromise`) and of `ChangeCourse` (`FollowsCourse`) |
| `tx_hostile` | 2 transactions, 1 worker; overlap and crashes; one configuration refused | 183 k | `NoOrphanLock`, `BootConverges`; a held lock is freed (`LockIsFreed`) |
| `tx_faulty` | 2 transactions, 2 workers; crashes and faults; one configuration refused | 337 k | `Exclusive`, `JournalFinal` |
| `ap_served` | 2 radios, both plugged in at first, one of them on USB, 2 names; 5 sound lists and 6 flawed ones; 3 rows; 3 events in any mix of requests, runs of the doctor and moves; unit and dnsmasq restarts, restart-networking and reboots at any time | 6.4 M | `KeptSetBoots`, `FilesAgree`, `Served`, `FilesRun`, `RoutedAsMarked` |
| `hotplug_follows` | 2 radios, 2 names, 1 tab, queue of 1; changes of the hardware and breaks of the stream, 3 in all with udev and 2 with polling | 563 k | `UnambiguousAlone`, `FoundWasTrue`, `QuietIsTrue`, `FollowsHardware`, `PollingRepairs`, `PollingConverges` |
| `web_pool` | 1 tab, 2 threads, 4 connections, keepalive 2, patience 2, countdown 9 | 278 k | `KeptInTime`, every call is served (`CallsAreServed`), streams end (`StreamsEnd`) |

Each also checks the type invariant of its module.

*Bounds.* Three transactions let boot commit, one request be on trial and another be
refused or queue behind it, so a snapshot of a committed configuration is restored
while a third change waits. Two suffice for the other interleavings: one that
ends late and one in its way. A transaction is used once and there is no
behaviour after the last, so deadlock is not checked: a box nobody changes stops.
Three hardware changes are the least that unplug one radio, plug another under
its name and move the first; a queue of one overflows at the second event, as one of
16 does at the seventeenth. With polling two suffice to unplug a radio and plug it in
again between two polls, which is what the comparison of snapshots can miss.
Three events are three requests, of which one may be refused and store its rows, or two
and a move or a run of the doctor, or a request with an unplug and a replug, each of
them at any step; three rows hold the bootstrap access point and two that a request brings at once,
under one SSID. With each condition on `disturbed` but one left out of its property,
TLC refutes the property in this instance; the one is `"rows"` in `Served`, for which
an enabled row that is not in the list must have a higher id and the same radio, with
another subnet. In `web_pool` four connections leave the streams of
three behind beside an open one, on two threads; of the nine ticks one stream costs four
and two cost eight. One tab is enough for that, and with two of them TLC does not finish the
liveness properties in a few minutes. The theorems of section 5 lift the bounds for the safety
properties they state.

*Fairness.* `Transaction`: a thread that has a call to make makes it, a timer that
ticks fires, boot runs its apply. These are the scheduler's and `threading.Timer`'s
promises; none is assumed of the admin, of requests, crashes or faults. With
faults a call may raise for ever and with crashes a box may reboot for ever, so
`LockIsFreed` is checked with crashes only (each ends the lock by itself) and not
with faults, under which it is false (below). `Hotplug`: the hotplug thread takes
events and ends its discovery, a tab handles its messages, its requests are
served and it connects again after an error. `PollingRepairs` assumes in its own premise that the admin opens the view
again and again, `PollingConverges` that the polling thread does not die. `WebPool`:
free threads take calls, time passes and the timer fires; nothing is assumed of
tabs. `CallsAreServed` needs fewer tabs than threads (`TabsFitThreads`): with as many
open tabs as threads no further call is ever served, which is a limit of the
design rather than of an interleaving. `AccessPoints` is checked for safety only.

## 4. Where code and documentation disagree

Each of these runs checks one property that a document or a comment of the
repository states, and TLC finds a behaviour that violates it.

| run | property | what happens |
|---|---|---|
| `tx_not_last_good` | `LastKnownGood` | `transaction.py:14-16` says the snapshot holds a copy of the table. It holds the files only, and addresses and policy rules are rebuilt from the table of the reverted change. `WholeBox` is the part that is true: when the stored table is that of the configuration kept last as well, everything that runs is of it |
| `tx_unwatched` | `TrialIsWatched` | the web process restarts during a trial; the row stays `applied` and nobody reverts it, against `transaction.py:8-10` |
| `tx_boot_revives` | `BootAppliesCommitted` | boot applies the table, which still holds a change that was rolled back, without a countdown, against `boot.py:13-14` and `docs/SAFETY.md:33-34` |
| `tx_race` | `KeptStaysKept` | a confirmation reads `applied`, the watchdog fires, the confirmation is answered ok, and the change is rolled back, against `docs/SAFETY.md:15-16` |
| `ap_drift` | `NeverDrift` | a rollback restores the ruleset with its marks but rebuilds the ip rules from the rows of the reverted change, against `nftables.py:10-12` ("so they can never drift apart") |
| `hotplug_ambiguous` | `NamesUnambiguous` | two overlapping discoveries around a replug leave two adapters present under one name, against `interfaces.py:140` |

`FollowsHardware` has three premises the documentation does not: udev, a stream that
never broke, and discoveries that never overlapped. TLC refutes the property without any
of them; the run `hotplug_ambiguous` is what overlapping ones do. While the thread polls
it compares identities and presence with its own previous snapshot (`events.py:63`): a
tab that asked while an adapter was away between two polls is never told that it is
back, and a rename is never told to anyone, against `events.py:5-8`, which promises
views that update without a refresh with polling too. And an event that is broadcast
while a tab waits to connect again (`app.js:157`) goes to no queue, and connecting does
not ask for what was missed. `PollingConverges` is what polling does achieve, and
`PollingRepairs` what it takes the admin to see it. With udev, a rename in place is an event of
action `move`, which `events.py:51` filters out: it is no change of the hardware in this
model, and the code would not follow it.

One more failure the model shows when `Faults` is TRUE: `Escape` leaves the lock held
when `begin`, `health`, `arm` or `commit` raises after it was taken, so
`NoOrphanLock` and `LockIsFreed` need `Faults = FALSE`. This is why the theorem
`LockHasAReleaser` carries that assumption.

What `AccessPoints` shows besides, by the conditions its properties need:

- A request that leaves out the subnet or the range raises in `dnsmasq.generate` and is
  rolled back, and its row stays. The range becomes null and dnsmasq refuses the next boot's
  file; a null subnet raises at every boot, and nothing is applied any more.
  `KeptSetBoots` speaks of changes that were kept and not followed by another's rows
  (`"table"`, `"later"`).
- A kept change that names only a part of the enabled rows can leave a table that is
  invalid as a whole, and boot applies nothing (`"rows"` in `KeptSetBoots`). One absent
  radio keeps boot from applying anything in any case.
- Two new access points with one SSID share a file: one of them has no unit, and the
  health check passes (`"files"` in `FilesAgree` and `Served`).
- A new access point is marked with base + 0 until the next change, and its policy
  rule with base + id; an unknown id gets a mark and no rule (`"new"`, `"ids"` in
  `RoutedAsMarked`).
- A refused request has stored its rows, and a reload that runs, or the next
  rollback, takes addresses and rules from them (`"table"`).
- The doctor's dry run removes all hostapd files and writes them one after the other,
  without the lock. A reload in between stops every unit, and boot commits that
  (`"doctor"`).
- With a radio that supports several access points the address of all but the last
  is flushed by `bring_up`: `Served` and the last part of `FilesAgree` ask for `Vifs` of 1.
- With no enabled access point the ruleset template is not valid nft input, the
  health probe finds no rule, and the change that disables the last access point is
  rolled back (`ReloadNftables`, `Healthy`). Its rows stay: the next boot commits them
  with no ruleset loaded, which is the `Rejected` of `BootConverges`.
- A killswitch table gets no blackhole, and a blackhole that isolated installed is
  never removed (`holes`); `NoDrift` demands neither.
- A unit that systemd restarts by itself loses its address (`RestartUnit`), and a
  replug under another name leaves files and units on the old one until the next
  change: `Served` excludes both.

## 5. Theorems

All are proved for any values of the constants: any sets of transactions and
workers, of radios, names, designs and tabs, any number of threads and any bounds.
They use the assumptions that the modules state on their constants
(`NamesAreDistinct`, `RegimesAreBoolean` and `SomeAreRejected`; `NamesAreNames`,
`PlugsAreNamed`, `OmittedIsNoId`, `ListsAreTyped`, `CeilingsArePositive`, `BootstrapIsSound`
and `BoundsAreNatural`; `NamesAreApart` and `BoundsArePositive`; `TabsFitThreads` and
`TimesArePositive`) and the environment named in the theorem; "orderly" is no overlap, crash
or fault. "One course" marks the theorems about `AccessPoints`: they hold of its
specification for any values, and that specification has a single `pc`, which
`ThreadsTakeOneCourse` justifies without overlap and faults only.

| theorem | environment | statement |
|---|---|---|
| `TypeCorrect` | any | `Spec => []TypeOK` |
| `MutualExclusion` | no overlap; crashes and faults allowed | `Spec => []Exclusive` |
| `LockHasAReleaser` | no faults; overlap and crashes allowed | `Spec => []NoOrphanLock` |
| `LastCommittedInForce` | orderly | `Spec => []WholeConfig` |
| `WholeBoxInForce` | orderly | `Spec => []WholeBox` |
| `DecisionsAreFinal` | no overlap; crashes and faults allowed | `Spec => JournalFinal` |
| `ImplementsPromise` | orderly | `Spec => PromiseSafety`: initial states and steps of `SafeChange` |
| `ThreadsTakeOneCourse` | no overlap, no faults; crashes allowed | `Spec => FollowsCourse` of `Transaction` |
| `KeptIsNotReverted` | no overlap; crashes and faults allowed | `Spec => []KeptStaysKept` |
| `DeadlinesAreWatched` | orderly | `Spec => []TrialIsWatched` |
| `BootAlwaysConverges` | no faults; overlap and crashes allowed | `Spec => []BootConverges` |
| `TypesHold` | one course | `Spec => []TypeOK` of `AccessPoints` |
| `KeptSetsBoot` | one course | `Spec => []KeptSetBoots` |
| `GeneratorsAgree` | one course | `Spec => []FilesAgree` |
| `MarksAreRouted` | one course | `Spec => []RoutedAsMarked` |
| `AccessPointsTakeThatCourse` | one course | `Spec => FollowsCourse` of `AccessPoints` |
| `FilesAreInForce` | one course | `Spec => []FilesRun` |
| `EnabledAreServed` | one course | `Spec => []Served` |
| `HotplugTypes` | any | `Spec => []TypeOK` of `Hotplug` |
| `PoolTypes` | fewer tabs than threads | `Spec => []TypeOK` of `WebPool` |
| `KeepsAreInTime` | fewer tabs than threads | `Spec => []KeptInTime` |
| `NamesStayUnambiguous` | any | `Spec => []UnambiguousAlone` |
| `DiscoveriesAreTrue` | any | `Spec => []FoundWasTrue` |
| `QuietMomentsAreTrue` | any | `Spec => []QuietIsTrue` |

The arguments:

- `Exclusive` is not inductive. `_release` frees the lock for everybody, so it must be
  known that no countdown of the ending transaction ticks on. `ExclusiveInv` adds
  that a thread working on a transaction whose timer ticks is one that answers it,
  before the call that cancels the timer.
- `NoOrphanLock` is inductive together with `TypeOK`, however answers overlap: the steps
  that end a thread's work, `Unlock` and `Release`, free the lock, and `Arm` leaves a
  ticking countdown behind.
- `WholeConfig` speaks of a free lock only. `WholeInv` says how far each call has come
  (`Progress`): the snapshot of whoever works is the configuration committed last,
  the file groups already written are the new one, and a change on trial is
  entirely in force. It needs `ExclusiveInv`, since all this fails with two threads.
  `BoxInv` adds to it what runs beside the files: addresses and policy rules are built
  of the table, the rest of the files, and each reload makes them so again.
- `JournalFinal` follows from `JournalInv`: a thread that may still write a row finds it
  undecided, and no two threads work on one transaction.
- `ImplementsPromise` takes the lock as the trial, the journal row as its fate and the
  generated files, when the lock is free and they agree, as what is in force. `Acquire`
  is `Try`, `MarkCommitted` is `Keep`, `MarkRolledBack` is `Revert`, `Unlock` and
  `Release` are `Close`, staging a change is `Ask`, and everything else stutters.
- `ThreadsTakeOneCourse` reads the course off whoever is at work, and off the lock when
  nobody is: `Placed`, which follows from `ExclusiveInv` (there is one at most),
  `NoOrphanLock` and `BootInv` (the boot process and the web process do not overlap).
  Each call then moves the course from one place to the next or leaves it. With `Faults`
  it fails, as `Escape` leaves a held lock that no step of the course gives back.
- `NamesStayUnambiguous` rests on `NamesInv`: a name is probed once and belongs to one
  adapter at a time, so a discovery never finds two under one name; and one that
  nobody overlaps has read every row when it writes, so it rewrites all of them
  (`WriteIsWhole`). That is also why it heals a table overlapping discoveries left.
- `FoundWasTrue` needs `SinceInv`, which holds however many discoveries overlap: while one
  probes, a radio has been away since it began, or its name is still to be probed, or
  was found as it is now.
- `QuietIsTrue` is what `FollowsHardware` comes down to without fairness. `QuietInv` needs
  three cases: a change of the hardware leaves an event to take; a discovery that no change
  has outdated has found each radio or has its name still to probe (`Current`); and a tab
  that shows something else has an event to react to, or the hotplug thread is
  about to send it one.
- `KeptStaysKept` follows from `KeptInv`, by which an answer is given only after the
  row was written, and from `JournalInv`: nobody is left who could write it again.
- `TrialIsWatched` is inductive with `ExclusiveInv` and `JournalInv`: a thread that ends
  has either decided the row or left its countdown ticking, and only its own.
- `BootConverges` holds however answers overlap and whatever crashed before. `BootInv` says
  that until boot has ended no other actor works and no countdown ticks, and how far its
  apply has come: the files written so far are of the table's configuration, and after
  the reload each service runs its file or, if it refuses it, nothing. The latter needs
  that the box has just come up, with no ruleset loaded, and that nothing is left
  running by a command that failed: with `Faults` it is false.
- `AccessPointsProofs` builds its invariants on the types (`Types`) and on `NewIdsAreNext`
  and `MergedRows`, which say what a list makes of the table. `StagedInv` says what is known
  of the list at work: it would pass validation but for radios that left since, its files and
  its devices are its own unless `disturbed` says otherwise. `TableInv` says that a change
  nobody disturbed finds each enabled row drawn from an entry of its list, so that the
  table passes validation as the list did; `WrittenInv` that dnsmasq wrote a subnet for each
  entry and noted each missing range; `KeptInv` that a change which came to its trial has no
  such range. Together they are `KeptSetBoots`.
- `FilesInv` follows the generators entry by entry: `ConfUpTo` is what hostapd has written so
  far, one file per entry with the name its radio has (`OnePerDevice`), `ScopeOf` what
  dnsmasq made of the same names; a snapshot is a copy of files of which the same was true.
  `WrittenInv` says the same of the whole set once it is complete, and `LoadedInv`, for each
  step of the reload and of a restore, whether dnsmasq and nft already run with it.
- `RoutesInv` ties the ruleset in force, or about to be loaded, to the rows the policy rules
  are built of: `RowsAreOfList`, `RulesAreOfList` and `MarksAreOfList` say that table, file and
  marks are of the list at work, once its ids are `Known`.
- `ServedInv` says for each step of the reload what has been done for each enabled access
  point (`UnitsServe`, `Addressed`, then scopes and rules) and cannot be undone by the steps
  that follow, while nothing the property excludes has happened (`Quiet`); it needs that
  no two access points share a device and that the device of a unit is that of its row.
- `PoolTypes` rests on `Streams`: a page asks for one stream, which takes its thread once.
- `KeptInTime` is a bound on waiting. `InTime` says that a Keep that is still queued can
  afford the streams ahead of it: `clock + Cost <= due` while a thread is free, and, when
  none is, there is a page that is gone (there are fewer tabs than threads) whose
  stream will give its thread back in time. A thread that is freed pays for the next
  stream in the queue.

Only model-checked: the liveness properties (`Resolved`, `LockIsFreed`,
`FollowsHardware`, `PollingRepairs`, `PollingConverges`, `CallsAreServed`, `StreamsEnd`, the
fairness of `SafeChange`), as liveness under fairness is out of the prover's reach.

## 6. Not modelled, and why

- *Subnets that are no network*, *renames in place* (udev's `move`) and *links cut without a reset*:
  section 2 says what the models assume instead.
- *Order of the forward rules* (`nftables.conf.j2`). A static template: its rules do not
  depend on any state or step of the program but the list of access points.
- *Tunnels.* `vpn._ensure_tunnel` and the profiles' API are stubs in the code; only the
  policy that comes without a tunnel is looked at, by validation.
- *rfkill, regulatory domain, link state, sysctl.* Commands without a result that
  anything reads; that they may fail or raise is part of `HealthFails` and
  `GenerateFails`.
- *The distribution's dnsmasq*, which restart-networking starts beside the project's:
  which of them wins a port is outside the repository.
- *DHCP reservations, clients, scripts, files.* One-row updates and I/O in directories
  of their own; no other component reads them but the reservations' template.
- *Authentication, sessions, the login throttle.* Left out of this development.
- *Capability probe and recommendations.* They parse `iw` and compute advice; neither
  keeps state. What validation takes from the probe is the constant `Vifs`.
- *The doctor's printout, the system summary, the installer.* They read, or run once.
- *The composition in one module.* A transaction with its interleavings, several
  access points and lagging tables together exceed what TLC can enumerate; section 2
  says which module hands what to which.
