------------------------------ MODULE Hotplug ------------------------------
(***************************************************************************)
(* Hardware discovery: hal/interfaces.py reconciles the interfaces table    *)
(* with the kernel, hal/events.py does so on every udev event and tells the *)
(* browsers, and every browser that shows the interfaces asks for another   *)
(* reconciliation (api/interfaces.py, web/static/js/app.js).                *)
(*                                                                         *)
(* A discovery probes the kernel's names one after the other, reads the     *)
(* table, and then writes what it found in one database transaction; the    *)
(* hardware and other discoveries move on between those steps.              *)
(***************************************************************************)
EXTENDS Naturals, FiniteSets

CONSTANTS
  Radios,      \* network adapters, named by the UUID derived from their MAC
  Names,       \* kernel names: wlan0, wlan1, ...
  Gone,        \* no name: not plugged in, or never seen
  Tabs,        \* browser tabs subscribed to the event stream
  Watcher,     \* the hal-hotplug thread
  QueueSize,   \* maxsize of a subscriber's queue (16 in the code)
  MaxFaults    \* bound: how often the hardware changes or an event stream breaks,
               \* by whether the thread polls

Actors == Tabs \cup {Watcher}

ASSUME NamesAreApart == Watcher \notin Tabs /\ Gone \notin Names
ASSUME BoundsArePositive ==
  QueueSize \in Nat \ {0} /\ MaxFaults \in [BOOLEAN -> Nat]

VARIABLES
  plug,        \* plug[r]: the kernel name of r now
  changes,     \* how often the hardware has changed
  udev,        \* netlink events the watcher has not taken
  known,       \* radios with a row in the interfaces table
  name,        \* name[r]: last_name column
  present,     \* present[r]: present column
  pc,          \* pc[a]: what the discovery of a does next
  todo,        \* todo[a]: names listed and not probed yet
  found,       \* found[a]: what the probes found, by radio
  old,         \* old[a]: the radios a read from the table
  queue,       \* queue[b]: events waiting for tab b
  shown,       \* shown[b]: the names of present radios tab b displays
  polling,     \* is pyudev missing, so that the thread polls?
  last,        \* the snapshot _poll_loop compares with; Gone before the first
  linked,      \* the tabs whose event stream is connected
  losses,      \* how often a stream has broken
  since,       \* history: since[a][r]: the names r had since the discovery of a began
  overlap      \* history: have discoveries overlapped, "never" or "now", or in the
               \* "past", or was that "healed" by one that ran alone?

rows  == <<known, name, present>>
feeds == <<polling, last, linked, losses>>
past  == <<since, overlap>>
vars  == <<plug, changes, udev, rows, pc, todo, found, old, queue, shown, feeds, past>>

---------------------------------------------------------------------------
Used      == {plug[r] : r \in Radios} \ {Gone}
Running   == {a \in Actors : pc[a] \in {"probe", "write", "list"}}
Nothing   == [r \in Radios |-> Gone]

\* What resolve_name answers for every radio.
Resolved == [r \in Radios |-> IF r \in known /\ present[r] THEN name[r] ELSE Gone]

\* boot.main has run a discovery over the hardware the box was started with.
Init ==
  /\ plug \in {p \in [Radios -> Names \cup {Gone}] :
                 \A r, s \in Radios : p[r] = p[s] /\ r # s => p[r] = Gone}
  /\ changes = 0 /\ udev = 0
  /\ known = {r \in Radios : plug[r] # Gone}
  /\ name = plug
  /\ present = [r \in Radios |-> plug[r] # Gone]
  /\ pc = [a \in Actors |-> "idle"]
  /\ todo = [a \in Actors |-> {}]
  /\ found = [a \in Actors |-> Nothing]
  /\ old = [a \in Actors |-> {}]
  /\ queue = [b \in Tabs |-> 0]
  /\ shown = [b \in Tabs |-> plug]
  /\ polling \in BOOLEAN /\ last = Gone /\ linked = Tabs /\ losses = 0
  /\ since = [a \in Actors |-> [r \in Radios |-> {}]] /\ overlap = "never"

---------------------------------------------------------------------------
(* The hardware; every change is one udev event of subsystem net.           *)

Bounded == changes + losses < MaxFaults[polling]

\* plug[r] becomes n.
Changed(r, n) ==
  /\ Bounded
  /\ changes' = changes + 1 /\ udev' = udev + 1
  /\ plug' = [plug EXCEPT ![r] = n]
  /\ since' = [a \in Actors |-> IF pc[a] \in {"probe", "write"}
                                 THEN [since[a] EXCEPT ![r] = @ \cup {n}] ELSE since[a]]
  /\ UNCHANGED <<rows, pc, todo, found, old, queue, shown, feeds, overlap>>

PlugIn(r, n) == plug[r] = Gone /\ n \notin Used /\ Changed(r, n)

Unplug(r) == plug[r] # Gone /\ Changed(r, Gone)

---------------------------------------------------------------------------
(* discover()                                                               *)

\* os.listdir of /sys/class/net
Begin(a) ==
  /\ pc' = [pc EXCEPT ![a] = "probe"]
  /\ todo' = [todo EXCEPT ![a] = Used]
  /\ found' = [found EXCEPT ![a] = Nothing]
  /\ since' = [since EXCEPT ![a] = [r \in Radios |-> {plug[r]}]]
  /\ overlap' = IF Running # {} THEN "now" ELSE IF overlap = "now" THEN "past" ELSE overlap

\* Mutant: a name that vanished since it was listed ends the loop.
ProbeGivesUp(a, n) ==
  /\ pc[a] = "probe" /\ n \in todo[a]
  /\ todo' = [todo EXCEPT ![a] = IF n \in Used THEN @ \ {n} ELSE {}]
  /\ found' = [found EXCEPT ![a] = [r \in Radios |-> IF plug[r] = n THEN n ELSE @[r]]]
  /\ UNCHANGED <<plug, changes, udev, rows, pc, old, queue, shown, feeds, past>>

\* probe(): the adapter that has the name now; none if it vanished since.
Probe(a, n) ==
  /\ pc[a] = "probe" /\ n \in todo[a]
  /\ todo' = [todo EXCEPT ![a] = @ \ {n}]
  /\ found' = [found EXCEPT ![a] = [r \in Radios |-> IF plug[r] = n THEN n ELSE @[r]]]
  /\ UNCHANGED <<plug, changes, udev, rows, pc, old, queue, shown, feeds, past>>

\* The SELECT runs outside the write transaction.
ReadTable(a) ==
  /\ pc[a] = "probe" /\ todo[a] = {}
  /\ old' = [old EXCEPT ![a] = known]
  /\ pc' = [pc EXCEPT ![a] = "write"]
  /\ UNCHANGED <<plug, changes, udev, rows, todo, found, queue, shown, feeds, past>>

Live(a)     == {r \in Radios : found[a][r] # Gone}
Conflict(a) == \E r \in Live(a) \ old[a] : r \in known
Healed      == overlap' = IF overlap = "past" THEN "healed" ELSE overlap

\* What discover() held in its locals is gone when it returns or raises.
Ended(a, l) ==
  /\ pc' = [pc EXCEPT ![a] = l]
  /\ found' = [found EXCEPT ![a] = Nothing]
  /\ old' = [old EXCEPT ![a] = {}]
  /\ since' = [since EXCEPT ![a] = [r \in Radios |-> {}]]

\* Mutant: vanished adapters are not marked absent.
WriteLeavesAbsent(a) ==
  /\ pc[a] = "write" /\ ~Conflict(a)
  /\ known' = known \cup Live(a)
  /\ name' = [r \in Radios |-> IF r \in Live(a) THEN found[a][r] ELSE name[r]]
  /\ present' = [r \in Radios |-> r \in Live(a) \/ present[r]]
  /\ Ended(a, "list") /\ Healed
  /\ UNCHANGED <<plug, changes, udev, todo, queue, shown, feeds>>

\* Mutant: the UPDATE of a returning adapter does not set present=1.
WriteForgetsReturn(a) ==
  /\ pc[a] = "write" /\ ~Conflict(a)
  /\ known' = known \cup Live(a)
  /\ name' = [r \in Radios |-> IF r \in Live(a) THEN found[a][r] ELSE name[r]]
  /\ present' = [r \in Radios |-> IF r \in old[a] THEN present[r] /\ r \in Live(a)
                                  ELSE present[r] \/ r \in Live(a)]
  /\ Ended(a, "list") /\ Healed
  /\ UNCHANGED <<plug, changes, udev, todo, queue, shown, feeds>>

\* UPDATE or INSERT what was found, mark absent what was read and not found.
WriteTable(a) ==
  /\ pc[a] = "write" /\ ~Conflict(a)
  /\ known' = known \cup Live(a)
  /\ name' = [r \in Radios |-> IF r \in Live(a) THEN found[a][r] ELSE name[r]]
  /\ present' = [r \in Radios |-> r \in Live(a) \/ (present[r] /\ r \notin old[a])]
  /\ Ended(a, "list") /\ Healed
  /\ UNCHANGED <<plug, changes, udev, todo, queue, shown, feeds>>

---------------------------------------------------------------------------
(* The watcher: _udev_loop                                                  *)

TakeEvent ==
  /\ ~polling
  /\ pc[Watcher] = "idle" /\ udev > 0
  /\ udev' = udev - 1
  /\ Begin(Watcher)
  /\ UNCHANGED <<plug, changes, rows, old, queue, shown, feeds>>

\* Mutant: the queues have no maxsize.
BroadcastUnbounded == queue' = [b \in Tabs |-> queue[b] + 1]

\* put_nowait to every subscriber: a full queue drops the event.
Broadcast ==
  queue' = [b \in Tabs |->
              IF b \in linked /\ queue[b] < QueueSize THEN queue[b] + 1 ELSE queue[b]]

\* Mutant: the watcher updates the table and tells nobody.
AnnounceNothing ==
  /\ pc[Watcher] = "list"
  /\ pc' = [pc EXCEPT ![Watcher] = "idle"]
  /\ UNCHANGED <<plug, changes, udev, rows, todo, found, old, queue, shown, feeds, past>>

Announce ==
  /\ ~polling
  /\ pc[Watcher] = "list"
  /\ Broadcast
  /\ pc' = [pc EXCEPT ![Watcher] = "idle"]
  /\ UNCHANGED <<plug, changes, udev, rows, todo, found, old, shown, feeds, past>>

\* The INSERT of a row another discovery has inserted raises IntegrityError: the
\* finally clause of _udev_loop still broadcasts, and the exception ends the thread.
WatcherDies ==
  /\ pc[Watcher] = "write" /\ Conflict(Watcher)
  /\ IF polling THEN UNCHANGED queue ELSE Broadcast
  /\ Ended(Watcher, "dead")
  /\ UNCHANGED <<plug, changes, udev, rows, todo, shown, feeds, overlap>>

---------------------------------------------------------------------------
(* Without pyudev: _poll_loop, every three seconds                          *)

\* Mutant: the loop ends with its first snapshot.
PollOnce ==
  /\ polling /\ last = Gone
  /\ pc[Watcher] = "idle"
  /\ Begin(Watcher)
  /\ UNCHANGED <<plug, changes, udev, rows, old, queue, shown, feeds>>

Poll ==
  /\ polling
  /\ pc[Watcher] = "idle"
  /\ Begin(Watcher)
  /\ UNCHANGED <<plug, changes, udev, rows, old, queue, shown, feeds>>

\* The identities listed and whether they are present; names are not compared.
Snapshot == {<<r, present[r]>> : r \in known}

AnnounceIfNew ==
  /\ polling
  /\ pc[Watcher] = "list"
  /\ IF Snapshot # last THEN Broadcast ELSE UNCHANGED queue
  /\ last' = Snapshot
  /\ pc' = [pc EXCEPT ![Watcher] = "idle"]
  /\ UNCHANGED <<plug, changes, udev, rows, todo, found, old, shown>>
  /\ UNCHANGED <<polling, linked, losses, past>>

---------------------------------------------------------------------------
(* A browser tab on the interfaces view: GET /api/interfaces                *)

\* onmessage -> render()
React(b) ==
  /\ pc[b] = "idle" /\ queue[b] > 0
  /\ queue' = [queue EXCEPT ![b] = @ - 1]
  /\ Begin(b)
  /\ UNCHANGED <<plug, changes, udev, rows, old, shown, feeds>>

\* The admin opens the view.
Open(b) ==
  /\ pc[b] = "idle"
  /\ Begin(b)
  /\ UNCHANGED <<plug, changes, udev, rows, old, queue, shown, feeds>>

Show(b) ==
  /\ pc[b] = "list"
  /\ shown' = [shown EXCEPT ![b] = Resolved]
  /\ pc' = [pc EXCEPT ![b] = "idle"]
  /\ UNCHANGED <<plug, changes, udev, rows, todo, found, old, queue, feeds, past>>

\* The same exception is answered 500 here, and the view keeps what it shows.
RequestFails(b) ==
  /\ pc[b] = "write" /\ Conflict(b)
  /\ Ended(b, "idle")
  /\ UNCHANGED <<plug, changes, udev, rows, todo, queue, shown, feeds, overlap>>

\* onerror: the stream is closed and its queue is gone; five seconds later the tab
\* subscribes again, without asking what it missed.
Lose(b) ==
  /\ Bounded /\ b \in linked
  /\ losses' = losses + 1
  /\ linked' = linked \ {b}
  /\ queue' = [queue EXCEPT ![b] = 0]
  /\ UNCHANGED <<plug, changes, udev, rows, pc, todo, found, old, shown>>
  /\ UNCHANGED <<polling, last, past>>

Reconnect(b) ==
  /\ b \notin linked
  /\ linked' = linked \cup {b}
  /\ UNCHANGED <<plug, changes, udev, rows, pc, todo, found, old, queue, shown>>
  /\ UNCHANGED <<polling, last, losses, past>>

---------------------------------------------------------------------------
Hardware == \E r \in Radios : Unplug(r) \/ \E n \in Names : PlugIn(r, n)

Discovery(a) == (\E n \in Names : Probe(a, n)) \/ ReadTable(a) \/ WriteTable(a)

Watch  == TakeEvent \/ Announce \/ Poll \/ AnnounceIfNew \/ WatcherDies
Tab(b) == React(b) \/ Show(b) \/ RequestFails(b)

Next ==
  \/ Hardware
  \/ \E a \in Actors : Discovery(a)
  \/ Watch
  \/ \E b \in Tabs : Tab(b) \/ Open(b) \/ Lose(b) \/ Reconnect(b)

Spec == Init /\ [][Next]_vars

\* Threads run, browsers handle their messages and connect again after an error;
\* nobody has to open the view.
FairSpec ==
  /\ Spec
  /\ WF_vars(Watch \/ Discovery(Watcher))
  /\ \A b \in Tabs : WF_vars(Tab(b) \/ Discovery(b)) /\ WF_vars(Reconnect(b))

---------------------------------------------------------------------------
(* Properties                                                               *)

\* Types of the hardware, the table, the discoveries and the browsers.
TypeOK ==
  /\ plug \in [Radios -> Names \cup {Gone}]
  /\ polling \in BOOLEAN /\ changes \in 0..MaxFaults[polling] /\ udev \in 0..changes
  /\ known \subseteq Radios
  /\ name \in [Radios -> Names \cup {Gone}]
  /\ present \in [Radios -> BOOLEAN]
  /\ pc \in [Actors -> {"idle", "probe", "write", "list", "dead"}]
  /\ todo \in [Actors -> SUBSET Names]
  /\ found \in [Actors -> [Radios -> Names \cup {Gone}]]
  /\ old \in [Actors -> SUBSET Radios]
  /\ queue \in [Tabs -> 0..QueueSize]
  /\ shown \in [Tabs -> [Radios -> Names \cup {Gone}]]
  /\ last \in (SUBSET (Radios \X BOOLEAN)) \cup {Gone}
  /\ linked \subseteq Tabs /\ losses \in 0..(MaxFaults[polling] - changes)
  /\ since \in [Actors -> [Radios -> SUBSET (Names \cup {Gone})]]
  /\ overlap \in {"never", "now", "past", "healed"}

\* docs/ARCHITECTURE.md:22-26: an adapter keeps one identity and a service config
\* is rendered for the adapter it is bound to, so no two adapters resolve to the
\* same kernel name - two access points would be configured on one radio.
NamesUnambiguous ==
  \A r, s \in Radios : r # s /\ Resolved[r] # Gone => Resolved[r] # Resolved[s]

\* It does hold as long as discoveries run one at a time, however the hardware
\* changes under their probes, and again once one has run alone.
Whole == overlap \in {"never", "healed"}

UnambiguousAlone == Whole => NamesUnambiguous

\* interfaces.py:87-120: a discovery probes names one after the other and takes no
\* snapshot of the hardware, yet what it is about to write of an adapter was true of
\* it at some moment since the discovery began, also that it was away.
FoundWasTrue ==
  \A a \in Actors : pc[a] = "write" => \A r \in Radios : found[a][r] \in since[a][r]

Truthful == Resolved = plug

\* Each event was taken and nobody is discovering.
Quiet == ~polling /\ udev = 0 /\ Running = {}

\* events.py:3-5: with udev the table is the hardware's at every quiet moment, if since
\* discoveries last overlapped one has run alone: it repairs whatever they left.  What a
\* tab displays that has no event left to react to is the hardware too, if discoveries
\* never overlapped and no stream broke.
QuietIsTrue ==
  Quiet /\ Whole =>
    /\ Truthful
    /\ overlap = "never" /\ losses = 0 => \A b \in Tabs : queue[b] = 0 => shown[b] = plug

\* events.py:3-5: the hotplug thread and the event stream keep the table and the
\* browsers right without a refresh.  Once the hardware is left alone both are,
\* though queues drop events, if udev tells of every change and no stream broke, and
\* unless discoveries overlapped on the way.
FollowsHardware ==
  [](~polling /\ losses = 0 /\ overlap = "never") => <>[](Truthful /\ \A b \in Tabs : shown[b] = plug)

\* Whatever overlapping discoveries did to the table or to the hotplug thread, a
\* tab whose admin keeps opening the view repairs it.
PollingRepairs ==
  \A b \in Tabs : []<><<Open(b)>>_vars => <>[](Truthful /\ shown[b] = plug)

\* events.py:8: without pyudev the table follows the hardware as long as the thread
\* that polls it lives, also if discoveries of it and of tabs overlap.
PollingConverges == [](polling /\ pc[Watcher] # "dead") => <>[]Truthful
=============================================================================
