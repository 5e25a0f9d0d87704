---------------------------- MODULE AccessPoints ----------------------------
(***************************************************************************)
(* Access points one by one: validation, the table, the files generated for *)
(* them, and what the reload makes of files and table: hostapd units,       *)
(* gateway addresses, DHCP scopes, the nftables ruleset, the policy rules.  *)
(*                                                                         *)
(* Module Transaction shows that, as long as requests do not overlap and    *)
(* nothing raises outside the calls that may, one change is at work at a    *)
(* time; so here one pc stands for whoever holds the lock.  What does not   *)
(* ask for the lock goes on beside it: adapters move, refused requests      *)
(* store their rows, systemd restarts units, the doctor rewrites hostapd    *)
(* files, the networking services are restarted, the box reboots.           *)
(***************************************************************************)
EXTENDS Naturals, Sequences, FiniteSets

CONSTANTS
  Radios,      \* wireless adapters with AP mode
  Usb,         \* those on USB
  Names,       \* kernel names
  Wlan0,       \* the name two of the generators fall back to
  Gone,        \* no name: the adapter is absent
  Plugs,       \* what may be plugged in when the box is first booted
  Vifs,        \* Vifs[r]: how many access points radio r supports
  Ssids, Addresses,
  Omitted,     \* the id of an entry that has no such key
  Lists,       \* the lists of entries that requests carry
  Bootstrap,   \* bootstrap_ap of default.yaml; its radio is chosen at boot
  MaxRows,     \* bound: rows of the table
  MaxEvents    \* bound: requests, runs of the doctor and adapters moved, all together

\* net is the set of addresses of the subnet, empty if none is given.  flaw: "radio" if
\* the band, ssid or passphrase does not fit, "tunnel" if a VPN policy comes without a
\* tunnel, "leases" if the range of addresses to lease is not given.
Policies == {"direct", "tunnel", "killswitch", "isolated"}
Design   == [radio : Radios, ssid : Ssids, net : SUBSET Addresses, policy : Policies,
             flaw : {"none", "radio", "tunnel", "leases"}, on : BOOLEAN]

\* An id of null counts as 0.
Entry    == [id : Nat \cup {Omitted}, ap : Design]

ASSUME NamesAreNames == Wlan0 \in Names /\ Gone \notin Names /\ Usb \subseteq Radios
ASSUME PlugsAreNamed == Plugs \subseteq [Radios -> Names \cup {Gone}]
ASSUME OmittedIsNoId == Omitted \notin Nat
ASSUME ListsAreTyped == Lists \subseteq Seq(Entry)
ASSUME CeilingsArePositive == Vifs \in [Radios -> Nat \ {0}]
ASSUME BootstrapIsSound ==
  \A r \in Radios : [Bootstrap EXCEPT !.radio = r] \in
    [radio : {r}, ssid : Ssids, net : SUBSET Addresses, policy : Policies,
     flaw : {"none"}, on : {TRUE}]
ASSUME BoundsAreNatural == MaxRows \in Nat \ {0} /\ MaxEvents \in Nat

VARIABLES
  name,        \* name[r]: what resolve_name answers
  rows,        \* the access_points table
  req,         \* the list of the change at work
  pc,          \* what the change does next
  done,        \* entries of the list hostapd.generate is through with
  why,         \* "request", "boot", "undo", or "none" since the box came up
  files,       \* generated: conf (hostapd, by file name), scope (dnsmasq), rule (nftables)
  snap,        \* the files the snapshot of the change holds
  seen,        \* the rows _reload_services has read
  doc,         \* the doctor: where it is, and the rows it has read
  wanted,      \* enabled hostapd units, by the name of their file
  up,          \* up[f]: the device the running unit of f serves
  addr,        \* addr[n]: the subnet whose gateway address device n has
  dhcp,        \* the scopes dnsmasq runs with; empty if it does not run
  fw,          \* the loaded ruleset, empty if there is none
  ruled,       \* fwmarks with an ip rule
  holes,       \* routing tables with a blackhole default
  disturbed,   \* history: what about the change at work, or beside it, is out of the ordinary
  events

change == <<req, pc, done, why, snap, seen>>
policy == <<ruled, holes>>
live   == <<wanted, up, addr, dhcp, fw, policy>>
vars   == <<name, rows, change, files, doc, live, disturbed, events>>

NoConf   == [f \in {} |-> Gone]
NoAddr   == {}
NoFiles  == [conf |-> NoConf, scope |-> {}, rule |-> {}, clean |-> TRUE]
Away     == [at |-> "away", aps |-> <<>>, k |-> 0]
Routed   == {"tunnel", "killswitch", "isolated"}
Plugged  == {name[r] : r \in Radios} \ {Gone}
Settled  == pc \in {"trial", "idle"}
WebIsUp  == pc = "idle" \/ (pc # "off" /\ why # "boot")

Dev(ap)      == name[ap.radio]
Enabled(aps) == {i \in DOMAIN aps : aps[i].on}
Aps(list)    == [k \in DOMAIN list |-> list[k].ap]
Given(e)     == e.id \in Nat \ {0}
Last(S)      == CHOOSE i \in S : \A j \in S : j <= i

\* Discovery that raced with a replug has left one name to two adapters.
Ambiguous == \E r, s \in Radios : r # s /\ name[r] = name[s] /\ name[r] # Gone

\* The box before its first boot.
Init ==
  /\ name \in Plugs
  /\ rows = <<>> /\ req = <<>>
  /\ pc = "off" /\ done = 0 /\ why = "none"
  /\ files = NoFiles /\ snap = NoFiles /\ seen = <<>> /\ doc = Away
  /\ wanted = {} /\ up = NoConf /\ addr = [n \in Names |-> NoAddr]
  /\ dhcp = {} /\ fw = {} /\ ruled = {} /\ holes = {}
  /\ disturbed = {} /\ events = 0

---------------------------------------------------------------------------
(* Validation                                                               *)

\* Mutant: presence is not asked.
UnusableThough(aps) == \E i \in Enabled(aps) : aps[i].flaw = "radio"

Unusable(aps) == \E i \in Enabled(aps) : Dev(aps[i]) = Gone \/ aps[i].flaw = "radio"

\* The virtual-AP ceiling of each radio.
OverCeiling(aps) ==
  \E r \in Radios : Cardinality({i \in Enabled(aps) : aps[i].radio = r}) > Vifs[r]

Overlap(aps) ==
  \E i, j \in Enabled(aps) : i # j /\ aps[i].net \cap aps[j].net # {}

\* Disabled access points are looked at as well.
NoTunnel(aps) == \E i \in DOMAIN aps : aps[i].flaw = "tunnel"

\* A missing subnet or range is not noticed.
Blocked(aps) == Unusable(aps) \/ OverCeiling(aps) \/ Overlap(aps) \/ NoTunnel(aps)

---------------------------------------------------------------------------
(* apply_aps up to begin(), and boot.main                                   *)

\* The ids that new entries get, in the order of the list.
NewIds(list) ==
  LET new == {k \in DOMAIN list : ~Given(list[k])}
      ids == (Len(rows) + 1)..(Len(rows) + Cardinality(new))
  IN  {f \in [new -> ids] : /\ {f[k] : k \in new} = ids
                            /\ \A j, k \in new : j < k => f[j] < f[k]}

\* The row an entry is for; an UPDATE of a row there is not yet changes none.
Row(list, ids, k) == IF k \in DOMAIN ids THEN ids[k] ELSE list[k].id

Writers(list, ids, i) ==
  {k \in DOMAIN list : /\ Row(list, ids, k) = i
                       /\ i \in DOMAIN rows \/ \E j \in DOMAIN ids : j <= k /\ ids[j] = i}

\* _persist_aps: rows that are not named stay as they are.
Merge(list, ids) ==
  [i \in 1..(Len(rows) + Cardinality(DOMAIN ids)) |->
     IF Writers(list, ids, i) = {} THEN rows[i] ELSE list[Last(Writers(list, ids, i))].ap]

\* hostapd names the file of an access point by its id or, if it has none yet, its ssid.
File(e) == IF Given(e) THEN e.id ELSE e.ap.ssid

\* What a list lets nobody expect: "rows" if an enabled row is not in it, "ids" if one
\* of its ids is unknown or comes twice, "files" if two entries share a file, "new"
\* if it brings an access point, "names" if adapters are listed under one name.
Doubts(list) ==
  LET given == {k \in DOMAIN list : Given(list[k])}
  IN  {d \in {"rows", "ids", "files", "new", "names"} :
        \/ d = "rows" /\ ~ (Enabled(rows) \subseteq {list[k].id : k \in given})
        \/ d = "ids" /\ \E k \in given : \/ list[k].id \notin DOMAIN rows
                                        \/ \E j \in given : j # k /\ list[j].id = list[k].id
        \/ d = "files" /\ \E j, k \in Enabled(Aps(list)) : j # k /\ File(list[j]) = File(list[k])
        \/ d = "new" /\ given # DOMAIN list
        \/ d = "names" /\ Ambiguous}

Stage(list, cause) ==
  /\ req' = list /\ why' = cause /\ pc' = "hostapd"
  /\ snap' = files
  /\ disturbed' = Doubts(list)
  /\ UNCHANGED <<done, seen>>

Stored(list) ==
  /\ events < MaxEvents /\ events' = events + 1
  /\ ~Blocked(Aps(list))
  /\ \E ids \in NewIds(list) : rows' = Merge(list, ids)
  /\ Len(rows') <= MaxRows
  /\ UNCHANGED <<name, files, doc, live>>

Request(list) == pc = "idle" /\ Stored(list) /\ Stage(list, "request")

\* A rollback is not followed: nothing is claimed of it.
Noted(what) == IF why \in {"request", "boot"} THEN disturbed \cup what ELSE disturbed

\* The lock is taken: the rows are stored all the same.
Refuse(list) ==
  /\ pc # "idle" /\ WebIsUp
  /\ Stored(list)
  /\ disturbed' = Noted({IF Settled THEN "later" ELSE "table"})
  /\ UNCHANGED change

\* _pick_ap_iface: a USB radio if one is present.
Candidates == LET here == {r \in Radios : name[r] # Gone}
              IN  IF here \cap Usb # {} THEN here \cap Usb ELSE here

\* The bootstrap access point is created in an empty table.
Tables ==
  IF rows # <<>> \/ Candidates = {} THEN {rows}
  ELSE {<<[Bootstrap EXCEPT !.radio = r]>> : r \in Candidates}

\* dnsmasq on a file: the range of every scope must be given and its device be there
\* (bind-interfaces); a device that has no address yet may do.
MayStart(scope) == \A s \in scope : s.ok /\ s.dev \in Plugged
Starts(scope)   == scope # {} /\ MayStart(scope) /\ \A s \in scope : addr[s.dev] # NoAddr
DhcpWith(scope) == {d \in {{}, {scope}} : IF d = {} THEN ~Starts(scope) ELSE MayStart(scope)}

\* dnsmasq is started after the boot unit, also if it had nothing to apply.
Boot ==
  /\ pc = "off"
  /\ \E t \in Tables :
       /\ rows' = t
       /\ \/ /\ t # <<>> /\ ~Blocked(t)
             /\ req' = [i \in DOMAIN t |-> [id |-> i, ap |-> t[i]]]
             /\ why' = "boot" /\ pc' = "hostapd"
             /\ snap' = files
             /\ disturbed' = IF Ambiguous THEN {"names"} ELSE {}
             /\ UNCHANGED <<done, seen, dhcp>>
          \/ /\ t = <<>> \/ Blocked(t)
             /\ pc' = "idle"
             /\ dhcp' \in DhcpWith(files.scope)
             /\ UNCHANGED <<req, done, why, snap, seen, disturbed>>
  /\ UNCHANGED <<name, files, doc, wanted, up, addr, fw, policy, events>>

---------------------------------------------------------------------------
(* _generate_all                                                            *)

Steps(from, to) == /\ pc = from /\ pc' = to
                   /\ UNCHANGED <<name, rows, req, why, doc, disturbed, events>>

Ap(k)    == req[k].ap
Ons      == Enabled(Aps(req))
Clean    == disturbed \cap {"move", "doctor", "files", "names"} = {}
With(conf, f, n) == [g \in DOMAIN conf \cup {f} |-> IF g = f THEN n ELSE conf[g]]

\* hostapd.generate removes all files, then writes one after the other.
ClearHostapd ==
  /\ Steps("hostapd", IF req = <<>> THEN "dnsmasq" ELSE "confs")
  /\ files' = [files EXCEPT !.conf = NoConf, !.clean = FALSE]
  /\ UNCHANGED <<done, snap, seen, live>>

\* An absent radio is skipped; ap["id"] raises KeyError if there is no such key.
Written(e) == e.ap.on /\ Dev(e.ap) # Gone

WriteHostapd ==
  LET k == done + 1
      e == req[k]
  IN  /\ Steps("confs", IF k = Len(req) THEN "dnsmasq" ELSE "confs")
      /\ ~ (Written(e) /\ e.id = Omitted)
      /\ files' = IF Written(e) THEN [files EXCEPT !.conf = With(@, File(e), Dev(e.ap))] ELSE files
      /\ done' = IF k = Len(req) THEN 0 ELSE k
      /\ UNCHANGED <<snap, seen, live>>

HostapdRaises ==
  /\ Steps("confs", "restore")
  /\ Written(req[done + 1]) /\ req[done + 1].id = Omitted
  /\ done' = 0
  /\ UNCHANGED <<files, snap, seen, live>>

\* An absent radio becomes wlan0, here and in the ruleset.
OrWlan0(ap) == IF Dev(ap) = Gone THEN Wlan0 ELSE Dev(ap)

\* Without a subnet there is no gateway to name; a range that is null is written down.
WriteDnsmasq ==
  /\ \A k \in Ons : Ap(k).net # NoAddr
  /\ Steps("dnsmasq", "nftables")
  /\ files' = [files EXCEPT !.scope =
                 {[dev |-> OrWlan0(Ap(k)), net |-> Ap(k).net, ok |-> Ap(k).flaw # "leases"] : k \in Ons}]
  /\ UNCHANGED <<done, snap, seen, live>>

\* A subnet or a range that a request leaves out, a subnet that is null in the table.
DnsmasqRaises ==
  /\ \E k \in Ons : Ap(k).net = NoAddr \/ (why = "request" /\ Ap(k).flaw = "leases")
  /\ Steps("dnsmasq", "restore")
  /\ UNCHANGED <<done, snap, seen, files, live>>

WriteNftables ==
  /\ \A k \in Ons : req[k].id # Omitted
  /\ Steps("nftables", "units")
  /\ files' = [files EXCEPT !.clean = Clean, !.rule =
                 {[dev |-> OrWlan0(Ap(k)), policy |-> Ap(k).policy, mark |-> req[k].id] : k \in Ons}]
  /\ UNCHANGED <<done, snap, seen, live>>

NftablesRaises ==
  /\ \E k \in Ons : req[k].id = Omitted
  /\ Steps("nftables", "restore")
  /\ UNCHANGED <<done, snap, seen, files, live>>

---------------------------------------------------------------------------
(* _reload_services: units from the files, addresses and rules from the table *)

\* Each restart flushes the device of the unit first (apctl prestart); a unit
\* whose device is missing does not come up.
\* Mutant: a unit counts as running wherever its file points.
StartedBlindly(F) == [f \in {g \in F : files.conf[g] # Gone} |-> files.conf[f]]

Started(F) == [f \in {g \in F : files.conf[g] \in Plugged} |-> files.conf[f]]

Flushed(F) == [n \in Names |-> IF \E f \in F : files.conf[f] = n THEN NoAddr ELSE addr[n]]

ReloadUnits ==
  /\ Steps("units", "addresses")
  /\ seen' = rows
  /\ wanted' = DOMAIN files.conf
  /\ up' = Started(DOMAIN files.conf)
  /\ addr' = Flushed(DOMAIN files.conf)
  /\ UNCHANGED <<done, snap, files, dhcp, fw, policy>>

\* Flush, then add, in the order of the ids: the last one on a device stays.
BringUp ==
  /\ Steps("addresses", "dhcp")
  /\ addr' = [n \in Names |->
       LET on == {i \in Enabled(seen) : Dev(seen[i]) = n /\ seen[i].net # NoAddr}
       IN  IF on = {} THEN addr[n] ELSE seen[Last(on)].net]
  /\ seen' = <<>>
  /\ UNCHANGED <<done, snap, files, wanted, up, dhcp, fw, policy>>

\* Mutant: the running dnsmasq is signalled, which does not make it read its file.
ReloadByHup ==
  /\ Steps("dhcp", "ruleset")
  /\ dhcp' \in IF dhcp = {} THEN DhcpWith(files.scope) ELSE {dhcp}
  /\ UNCHANGED <<done, snap, seen, files, wanted, up, addr, fw, policy>>

ReloadDnsmasq ==
  /\ Steps("dhcp", "ruleset")
  /\ dhcp' \in DhcpWith(files.scope)
  /\ UNCHANGED <<done, snap, seen, files, wanted, up, addr, fw, policy>>

\* Without rules the file is invalid ("oifname != { }"), and before the first
\* change there is none: the loaded ruleset stays.
ReloadNftables ==
  /\ Steps("ruleset", "policy")
  /\ fw' = IF files.rule = {} THEN fw ELSE files.rule
  /\ UNCHANGED <<done, snap, seen, files, wanted, up, addr, dhcp, policy>>

\* Mutant: the former rule of a mark is not deleted.
RulesPileUp(aps) == ruled \cup {i \in DOMAIN aps : aps[i].policy \in Routed}

Rules(aps) ==
  (ruled \ DOMAIN aps) \cup {i \in DOMAIN aps : aps[i].policy \in Routed}

\* vpn.reload reads the table again.  A blackhole is added and never removed.
ReloadVpn ==
  /\ Steps("policy", IF why = "undo" THEN "idle" ELSE "health")
  /\ ruled' = Rules(rows)
  /\ holes' = holes \cup {i \in DOMAIN rows : rows[i].policy = "isolated"}
  /\ UNCHANGED <<done, snap, seen, files, wanted, up, addr, dhcp, fw>>

---------------------------------------------------------------------------
(* Health, trial, rollback                                                  *)

\* Mutant: a dnsmasq that is not active does not fail the probe.
HealthyIfQuiet == files.rule # {} /\ DOMAIN files.conf \subseteq DOMAIN up

Healthy == files.rule # {} /\ dhcp # {} /\ DOMAIN files.conf \subseteq DOMAIN up

\* Boot only logs the verdict and commits.
HealthPasses ==
  /\ why = "boot" \/ Healthy
  /\ Steps("health", IF why = "boot" THEN "idle" ELSE "trial")
  /\ snap' = IF why = "boot" THEN NoFiles ELSE snap
  /\ UNCHANGED <<done, seen, files, live>>

\* Units that are slow to start fail it as well.
HealthFails ==
  /\ why = "request"
  /\ Steps("health", "restore")
  /\ UNCHANGED <<done, snap, seen, files, live>>

Keep ==
  /\ Steps("trial", "idle")
  /\ snap' = NoFiles
  /\ UNCHANGED <<done, seen, files, live>>

Revert == Steps("trial", "restore") /\ UNCHANGED <<done, snap, seen, files, live>>

Undo(next) ==
  /\ pc = "restore" /\ pc' = next /\ why' = "undo"
  /\ files' = snap /\ snap' = NoFiles
  /\ req' = <<>> /\ disturbed' = {}
  /\ UNCHANGED <<name, rows, done, seen, doc, events>>

\* Mutant: the rollback restores the files and reloads the units only.
RestoreInPart ==
  /\ Undo("idle")
  /\ wanted' = DOMAIN snap.conf
  /\ up' = [f \in {g \in DOMAIN snap.conf : snap.conf[g] \in Plugged} |-> snap.conf[f]]
  /\ UNCHANGED <<addr, dhcp, fw, policy>>

Restore == Undo("units") /\ UNCHANGED live

---------------------------------------------------------------------------
(* What does not ask for the lock                                           *)

Disturb(what) == disturbed' = Noted(what) /\ UNCHANGED <<rows, change>>

\* An adapter comes, goes or changes its name.  Its device takes its address and its
\* hostapd with it; a name another adapter is still listed under may stay in use.
Move(r, n) ==
  LET kept == {name[s] : s \in Radios \ {r}}
      lost == {n} \cup ({name[r]} \ kept)
  IN  /\ events < MaxEvents /\ events' = events + 1
      /\ n # name[r]
      /\ Disturb({"move"})
      /\ name' = [name EXCEPT ![r] = n]
      /\ up' = [f \in {g \in DOMAIN up : up[g] \notin lost} |-> up[f]]
      /\ addr' = [m \in Names |-> IF m \in lost THEN NoAddr ELSE addr[m]]
      /\ UNCHANGED <<files, doc, wanted, dhcp, fw, policy>>

\* systemd (re)starts one unit by itself: when the box comes up, when hostapd
\* fails.  Its pre-start flushes the device, and nobody assigns it again.
RestartUnit(f) ==
  /\ f \in wanted \cap DOMAIN files.conf /\ files.conf[f] \in Plugged
  /\ Disturb({"unit"})
  /\ up' = [g \in DOMAIN up \cup {f} |-> IF g = f THEN files.conf[f] ELSE up[g]]
  /\ addr' = Flushed({f})
  /\ UNCHANGED <<name, files, doc, wanted, dhcp, fw, policy, events>>

\* It also starts a dnsmasq that failed, again and again.
RetryDnsmasq ==
  /\ pc # "off" /\ dhcp = {} /\ MayStart(files.scope)
  /\ Disturb({})
  /\ dhcp' = {files.scope}
  /\ UNCHANGED <<name, files, doc, wanted, up, addr, fw, policy, events>>

\* restart-networking: the distribution's nftables unit flushes the ruleset.
RestartNet ==
  /\ WebIsUp
  /\ Disturb({})
  /\ fw' = {}
  /\ UNCHANGED <<name, files, doc, wanted, up, addr, dhcp, policy, events>>

\* The doctor reads the table, and its dry run of hostapd.generate removes the files and
\* writes them again for those rows.  Until the units are restarted that is noted.
DoctorReads ==
  /\ events < MaxEvents /\ events' = events + 1
  /\ doc = Away /\ pc # "off"
  /\ Disturb({})
  /\ doc' = [at |-> "clear", aps |-> rows, k |-> 0]
  /\ UNCHANGED <<name, files, live>>

Noticed == IF pc \in {"confs", "dnsmasq", "nftables", "units"} THEN {"doctor"} ELSE {}

Examine(conf, k) ==
  /\ Disturb(Noticed)
  /\ files' = [files EXCEPT !.conf = conf, !.clean = FALSE]
  /\ doc' = IF k = Len(doc.aps) THEN Away ELSE [doc EXCEPT !.at = "write", !.k = k]
  /\ UNCHANGED <<name, live, events>>

DoctorClears == doc.at = "clear" /\ Examine(NoConf, 0)

DoctorWrites ==
  LET k  == doc.k + 1
      ap == doc.aps[k]
  IN  /\ doc.at = "write"
      /\ Examine(IF ap.on /\ Dev(ap) # Gone THEN With(files.conf, k, Dev(ap)) ELSE files.conf, k)

Reboot ==
  /\ pc # "off" /\ pc' = "off" /\ why' = "none"
  /\ req' = <<>> /\ done' = 0 /\ snap' = NoFiles /\ seen' = <<>> /\ doc' = Away
  /\ up' = NoConf /\ addr' = [n \in Names |-> NoAddr] /\ dhcp' = {}
  /\ fw' = {} /\ ruled' = {} /\ holes' = {} /\ disturbed' = {}
  /\ UNCHANGED <<name, rows, files, wanted, events>>

---------------------------------------------------------------------------
Generate ==
  \/ ClearHostapd \/ WriteHostapd \/ HostapdRaises
  \/ WriteDnsmasq \/ DnsmasqRaises \/ WriteNftables \/ NftablesRaises
Reload   == ReloadUnits \/ BringUp \/ ReloadDnsmasq \/ ReloadNftables \/ ReloadVpn
Decide   == HealthPasses \/ HealthFails \/ Keep \/ Revert \/ Restore
Aside    == RetryDnsmasq \/ RestartNet \/ DoctorReads \/ DoctorClears \/ DoctorWrites \/ Reboot

Next ==
  \/ \E list \in Lists : Request(list) \/ Refuse(list)
  \/ Boot \/ Generate \/ Reload \/ Decide \/ Aside
  \/ \E r \in Radios, n \in Names \cup {Gone} : Move(r, n)
  \/ \E f \in wanted : RestartUnit(f)

Spec == Init /\ [][Next]_vars

---------------------------------------------------------------------------
(* Properties                                                               *)

\* Types of hardware, table, change, files and live state.
TypeOK ==
  /\ name \in [Radios -> Names \cup {Gone}]
  /\ rows \in Seq(Design) /\ Len(rows) <= MaxRows
  /\ req \in Seq(Entry)
  /\ pc \in {"off", "hostapd", "confs", "dnsmasq", "nftables", "units", "addresses", "dhcp",
             "ruleset", "policy", "health", "trial", "restore", "idle"}
  /\ pc = "confs" => done < Len(req)
  /\ done \in Nat /\ (pc # "confs" => done = 0)
  /\ why \in {"none", "request", "boot", "undo"}
  /\ doc.at \in {"away", "clear", "write"} /\ doc.aps \in Seq(Design)
  /\ doc.at = "write" => doc.k \in 0..(Len(doc.aps) - 1)
  /\ DOMAIN up \subseteq wanted /\ \A f \in DOMAIN up : up[f] \in Plugged
  /\ addr \in [Names -> SUBSET Addresses]
  /\ ruled \cup holes \subseteq DOMAIN rows
  /\ disturbed \subseteq {"rows", "ids", "files", "new", "names",
                         "move", "unit", "table", "later", "doctor"}
  /\ events \in 0..MaxEvents

\* boot.py:85-91, validation.py:1-9: what an admin kept the box can apply again at its
\* next boot.  A change that named every enabled row and was not followed by another
\* one's rows leaves a table that passes validation as a whole once its radios are
\* there, for which no generator raises and whose scopes dnsmasq accepts.
KeptSetBoots ==
  /\ pc = "idle" /\ why = "request" /\ disturbed \cap {"rows", "table", "later"} = {}
  /\ \A i \in Enabled(rows) : Dev(rows[i]) # Gone
  => /\ ~Blocked(rows)
     /\ \A i \in Enabled(rows) : rows[i].net # NoAddr /\ rows[i].flaw = "none"

\* Three generators resolve the names of a change one after the other.  Unless an
\* adapter moves or the doctor writes between them, two adapters are listed under one
\* name or two access points share a file, they configure the same devices, never
\* wlan0 in place of an absent one (hostapd.py:28-29), and give no device two
\* hostapds (apctl.py:9-11); also in the files a rollback brings back.
Agree(f) ==
  LET devices == {f.conf[g] : g \in DOMAIN f.conf}
  IN  f.clean =>
        /\ {s.dev : s \in f.scope} = devices /\ {x.dev : x \in f.rule} = devices
        /\ (\A r \in Radios : Vifs[r] = 1) =>
              /\ \A g, h \in DOMAIN f.conf : f.conf[g] = f.conf[h] => g = h
              /\ \A s, t \in f.scope : s.dev = t.dev => s = t

FilesAgree == Agree(files)

\* network.py:3-15: an access point without its address is unusable.  A change that
\* was reloaded gives every enabled access point unit, address, scope and rules on
\* one device: a request of known ids and files of their own that names every
\* enabled row, or what a boot finds stored with its ranges, if meanwhile no adapter
\* moved, no unit restarted, the doctor did not write and nobody else stored rows.
ApIsServed(k) ==
  LET n == Dev(Ap(k))
      f == File(req[k])
  IN  /\ f \in DOMAIN up /\ up[f] = n
      /\ addr[n] = Ap(k).net
      /\ \E scope \in dhcp : \E s \in scope : s.dev = n /\ s.net = Ap(k).net
      /\ fw # {} => \E x \in fw : x.dev = n /\ x.policy = Ap(k).policy

Served ==
  /\ \A r \in Radios : Vifs[r] = 1
  /\ Settled /\ why \in {"request", "boot"}
  /\ disturbed \cap {"rows", "ids", "files", "names", "move", "unit", "table", "doctor"} = {}
  /\ \A k \in Ons : Ap(k).flaw # "leases"
  => \A k \in Ons : ApIsServed(k)

\* transaction.py:14-16, 133-136: whenever no change is being written, reloaded or taken
\* back, dnsmasq runs on the generated scopes - it is down only while a range, a device
\* or an address is missing - and nft on the generated rules, after a rollback as
\* after a change that was kept, whatever requests, the doctor and the hardware did
\* meanwhile - unless restart-networking flushed the ruleset.
FilesRun ==
  Settled =>
    /\ dhcp \subseteq {files.scope} /\ (Starts(files.scope) => dhcp # {})
    /\ files.rule # {} => fw \in {files.rule, {}}

\* nftables.py:10-12: the marks and the routing rules are made together in one
\* transaction "so they can never drift apart".
NoDrift ==
  \A x \in fw :
    /\ x.policy \in {"tunnel", "killswitch"} => x.mark \in ruled
    /\ x.policy = "direct" => x.mark \notin ruled
    /\ x.policy = "isolated" => x.mark \in holes

NeverDrift == Settled => NoDrift

\* They do not, from the reload of a change to the next one's, if the change was not
\* rolled back, brought no new access point, named rows there are, each once, and no
\* other one stored rows.
RoutedAsMarked ==
  /\ Settled /\ why \in {"request", "boot"} /\ disturbed \cap {"new", "ids", "table"} = {}
  => NoDrift

\* The pc read as the course of a change, which Transaction shows its threads to take.
CourseAt ==
  CASE pc = "confs" -> "hostapd"
    [] pc \in {"units", "addresses", "dhcp", "ruleset", "policy"} ->
         IF why = "undo" THEN "rereload" ELSE "reload"
    [] OTHER -> pc

CourseBy == IF CourseAt \in {"off", "idle", "rereload"} THEN "none" ELSE why

Course == INSTANCE ChangeCourse WITH at <- CourseAt, by <- CourseBy

\* transaction.py:31, 73-75: a change takes the course that all threads together take in
\* Transaction, call by call and access point by access point.
FollowsCourse == Course!Spec
=============================================================================
