------------------------- MODULE AccessPointsProofs -------------------------
(***************************************************************************)
(* Proofs about AccessPoints, for any radios, names, rows and lists.        *)
(***************************************************************************)
EXTENDS AccessPoints, FiniteSetTheorems, SequenceTheorems, WellFoundedInduction, TLAPS

---------------------------------------------------------------------------
(* Ids, lists and the table they are merged into                            *)

\* A nonempty set of positions has a last one.
LEMMA LastOne ==
  ASSUME NEW n \in Nat, NEW S \in SUBSET (1..n), S # {}
  PROVE  Last(S) \in S /\ \A j \in S : j <= Last(S)
<1> DEFINE M == {m \in Nat : \E i \in S : m = n - i}
<1>1. \A i \in S : i \in Nat /\ n - i \in M
  OBVIOUS
<1>2. M \in SUBSET Nat /\ M # {}
  BY <1>1
<1> HIDE DEF M
<1>3. PICK m \in M : \A k \in M : m <= k
  <2> DEFINE less == OpToRel(<, Nat)
  <2>1. \A k, l \in Nat : <<k, l>> \in less <=> k < l
    BY DEF OpToRel
  <2> HIDE DEF less
  <2>2. IsWellFoundedOn(less, Nat)
    BY NatLessThanWellFounded DEF less
  <2>3. \E m \in M : \A k \in M : ~ (<<k, m>> \in less)
    BY <1>2, <2>2, WFMin
  <2>4. PICK m \in M : \A k \in M : ~ (<<k, m>> \in less)
    BY <2>3
  <2>5. ASSUME NEW k \in M PROVE m <= k
    <3>1. k \in Nat /\ m \in Nat
      BY <1>2
    <3>2. ~ (k < m)
      BY <2>1, <2>4, <3>1
    <3>3. QED
      BY <3>1, <3>2
  <2>6. QED
    BY <2>5
<1>4. PICK i \in S : m = n - i
  BY DEF M
<1>5. \A j \in S : j <= i
  BY <1>1, <1>3, <1>4
<1>6. QED
  BY <1>5 DEF Last

LEMMA ListsAreSeqs ==
  /\ \A s \in Seq(Design) : /\ Len(s) \in Nat /\ DOMAIN s = 1..Len(s)
                            /\ \A k \in DOMAIN s : s[k] \in Design
  /\ \A s \in Seq(Entry) : /\ Len(s) \in Nat /\ DOMAIN s = 1..Len(s)
                           /\ \A k \in DOMAIN s : s[k] \in Entry /\ s[k].ap \in Design
<1>1. ASSUME NEW S, NEW s \in Seq(S)
      PROVE  Len(s) \in Nat /\ DOMAIN s = 1..Len(s) /\ \A k \in DOMAIN s : s[k] \in S
  BY LenProperties, ElementOfSeq
<1>2. \A e \in Entry : e.ap \in Design
  BY DEF Entry
<1>3. QED
  BY <1>1, <1>2

\* The new entries get the next ids, each its own.
LEMMA NewIdsAreNext ==
  ASSUME rows \in Seq(Design), NEW list \in Seq(Entry), NEW ids \in NewIds(list)
  PROVE  /\ Len(rows) \in Nat /\ Cardinality(DOMAIN ids) \in Nat
         /\ DOMAIN ids = {k \in DOMAIN list : ~Given(list[k])}
         /\ \A k \in DOMAIN ids : ids[k] \in (Len(rows) + 1)..(Len(rows) + Cardinality(DOMAIN ids))
         /\ \A i \in (Len(rows) + 1)..(Len(rows) + Cardinality(DOMAIN ids)) :
              \E k \in DOMAIN ids : ids[k] = i
         /\ \A j, k \in DOMAIN ids : ids[j] = ids[k] => j = k
<1> DEFINE new  == {k \in DOMAIN list : ~Given(list[k])}
           span == (Len(rows) + 1)..(Len(rows) + Cardinality(new))
<1>1. Len(rows) \in Nat /\ Len(list) \in Nat /\ DOMAIN list = 1..Len(list)
  BY LenProperties
<1>2. new \in SUBSET (1..Len(list)) /\ IsFiniteSet(1..Len(list))
  BY <1>1, FS_Interval
<1>3. Cardinality(new) \in Nat
  BY <1>2, FS_Subset, FS_CardinalityType
<1>4. /\ ids \in [new -> span] /\ {ids[k] : k \in new} = span
      /\ \A j, k \in new : j < k => ids[j] < ids[k]
  BY DEF NewIds
<1> HIDE DEF new, span
<1>5. ASSUME NEW j \in new, NEW k \in new, ids[j] = ids[k] PROVE j = k
  <2>1. j \in Nat /\ k \in Nat /\ ids[j] \in Nat
    BY <1>1, <1>2, <1>3, <1>4 DEF span
  <2>2. ~ (j < k) /\ ~ (k < j)
    BY <1>4, <1>5, <2>1
  <2>3. QED
    BY <2>1, <2>2
<1>6. DOMAIN ids = new /\ \A i \in span : \E k \in new : ids[k] = i
  BY <1>4
<1>7. QED
  BY <1>1, <1>3, <1>4, <1>5, <1>6 DEF new, span

\* Every row that has a writer holds what the last of them says, the others stay.
LEMMA MergedRows ==
  ASSUME rows \in Seq(Design), NEW list \in Seq(Entry), NEW ids \in NewIds(list)
  PROVE  /\ Merge(list, ids) \in Seq(Design)
         /\ DOMAIN rows \subseteq DOMAIN Merge(list, ids)
         /\ DOMAIN Merge(list, ids) = 1..(Len(rows) + Cardinality(DOMAIN ids))
         /\ \A i \in DOMAIN Merge(list, ids) :
              \/ Writers(list, ids, i) = {} /\ i \in DOMAIN rows /\ Merge(list, ids)[i] = rows[i]
              \/ \E k \in Writers(list, ids, i) : Merge(list, ids)[i] = list[k].ap
<1> DEFINE n == Len(rows) + Cardinality(DOMAIN ids)
           m == Merge(list, ids)
<1>1. /\ Len(rows) \in Nat /\ Cardinality(DOMAIN ids) \in Nat /\ n \in Nat
      /\ DOMAIN rows = 1..Len(rows) /\ \A i \in DOMAIN rows : rows[i] \in Design
  <2>1. Len(rows) \in Nat /\ Cardinality(DOMAIN ids) \in Nat
    BY NewIdsAreNext
  <2>2. QED
    BY <2>1, ListsAreSeqs
<1>2. Len(list) \in Nat /\ DOMAIN list = 1..Len(list) /\ \A k \in DOMAIN list : list[k].ap \in Design
  BY ListsAreSeqs
<1>3. ASSUME NEW i \in 1..n, Writers(list, ids, i) = {} PROVE i \in DOMAIN rows
  <2>1. SUFFICES ASSUME i \notin DOMAIN rows PROVE FALSE
    OBVIOUS
  <2>2. i \in (Len(rows) + 1)..n
    BY <1>1, <2>1
  <2>3. PICK k \in DOMAIN ids : ids[k] = i
    BY <2>2, NewIdsAreNext
  <2>4. k \in DOMAIN list
    <3>1. DOMAIN ids = {j \in DOMAIN list : ~Given(list[j])}
      BY NewIdsAreNext
    <3>2. QED
      BY <3>1
  <2>5. k <= k
    BY <1>2, <2>4
  <2>6. k \in Writers(list, ids, i)
    BY <2>3, <2>4, <2>5 DEF Writers, Row
  <2>7. QED
    BY <1>3, <2>6
<1>4. ASSUME NEW i \in 1..n, Writers(list, ids, i) # {}
      PROVE  Last(Writers(list, ids, i)) \in Writers(list, ids, i)
  <2>1. Writers(list, ids, i) \in SUBSET (1..Len(list))
    BY <1>2 DEF Writers
  <2>2. QED
    BY <1>2, <1>4, <2>1, LastOne
<1>5. /\ m = [i \in 1..n |-> m[i]]
      /\ \A i \in 1..n : m[i] = IF Writers(list, ids, i) = {} THEN rows[i]
                                ELSE list[Last(Writers(list, ids, i))].ap
  BY DEF Merge
<1> HIDE DEF m, n
<1>6. ASSUME NEW i \in 1..n
      PROVE  /\ m[i] \in Design
             /\ \/ Writers(list, ids, i) = {} /\ i \in DOMAIN rows /\ m[i] = rows[i]
                \/ \E k \in Writers(list, ids, i) : m[i] = list[k].ap
  <2>1. CASE Writers(list, ids, i) = {}
    BY <1>1, <1>3, <1>5, <2>1
  <2>2. CASE Writers(list, ids, i) # {}
    <3>1. Writers(list, ids, i) \subseteq DOMAIN list
      BY DEF Writers
    <3>2. QED
      BY <1>2, <1>4, <1>5, <2>2, <3>1
  <2>3. QED
    BY <2>1, <2>2
<1>7. m \in Seq(Design) /\ DOMAIN m = 1..n
  <2>1. DOMAIN m = 1..n
    BY <1>5
  <2>2. n \in Nat /\ \A i \in 1..n : m[i] \in Design
    BY <1>1, <1>6
  <2>3. [i \in 1..n |-> m[i]] \in Seq(Design)
    BY <2>2, IsASeq
  <2>4. QED
    BY <1>5, <2>1, <2>3
<1>8. DOMAIN rows \subseteq 1..n
  BY <1>1 DEF n
<1>9. QED
  BY <1>6, <1>7, <1>8 DEF m, n

---------------------------------------------------------------------------
(* Type correctness                                                         *)

\* What TypeOK leaves out: the shape of the files, the rows a reload has read, and that
\* the cause of the change at work is known until its files are taken back.
FileTypes(f) ==
  /\ DOMAIN f = {"conf", "scope", "rule", "clean"}
  /\ \A g \in DOMAIN f.conf : f.conf[g] \in Names

Generating == {"hostapd", "confs", "dnsmasq", "nftables"}
Reloading  == {"units", "addresses", "dhcp", "ruleset", "policy"}

Shape ==
  /\ FileTypes(files) /\ FileTypes(snap)
  /\ seen \in Seq(Design)
  /\ DOMAIN doc = {"at", "aps", "k"}
  /\ pc = "off" => why = "none"
  /\ pc \in Generating \cup {"health", "restore"} => why \in {"request", "boot"}
  /\ pc \in Reloading => why \in {"request", "boot", "undo"}
  /\ pc = "trial" => why = "request"

Types == TypeOK /\ Shape

LEMMA NothingIsTyped == FileTypes(NoFiles) /\ DOMAIN NoConf = {} /\ <<>> \in Seq(Design) /\ <<>> \in Seq(Entry)
BY DEF FileTypes, NoFiles, NoConf

LEMMA TypesInit == Init => Types
<1> SUFFICES ASSUME Init PROVE Types
  OBVIOUS
<1> USE NothingIsTyped, NamesAreNames, BoundsAreNatural
    DEF Init, NamesAreNames, BoundsAreNatural
<1>1. name \in [Radios -> Names \cup {Gone}]
  BY PlugsAreNamed DEF PlugsAreNamed
<1>2. addr \in [Names -> SUBSET Addresses]
  BY DEF NoAddr
<1>3. Len(rows) = 0 /\ Len(rows) <= MaxRows
  OBVIOUS
<1>4. doc.at = "away" /\ doc.aps = <<>> /\ DOMAIN doc = {"at", "aps", "k"}
  BY DEF Away
<1>5. TypeOK
  BY <1>1, <1>2, <1>3, <1>4 DEF TypeOK
<1>6. Shape
  BY <1>4 DEF Shape, Generating, Reloading
<1>7. QED
  BY <1>5, <1>6 DEF Types

\* What a request stores.
LEMMA StoredTypes ==
  ASSUME TypeOK, NEW list \in Lists, Stored(list)
  PROVE  /\ list \in Seq(Entry)
         /\ rows' \in Seq(Design) /\ Len(rows') <= MaxRows /\ DOMAIN rows \subseteq DOMAIN rows'
         /\ events' \in 0..MaxEvents
<1>1. list \in Seq(Entry) /\ rows \in Seq(Design)
  BY ListsAreTyped DEF ListsAreTyped, TypeOK
<1>2. PICK ids \in NewIds(list) : rows' = Merge(list, ids)
  BY DEF Stored
<1>3. rows' \in Seq(Design) /\ DOMAIN rows \subseteq DOMAIN rows'
  BY <1>1, <1>2, MergedRows
<1>4. events' \in 0..MaxEvents /\ Len(rows') <= MaxRows
  BY BoundsAreNatural DEF Stored, TypeOK, BoundsAreNatural
<1>5. QED
  BY <1>1, <1>3, <1>4

\* The access point that is created when the table is empty.
LEMMA BootTable ==
  ASSUME NEW t \in Tables
  PROVE  \/ t = rows
         \/ /\ rows = <<>>
            /\ \E r \in Radios : /\ name[r] # Gone
                                 /\ t = <<[Bootstrap EXCEPT !.radio = r]>>
                                 /\ [Bootstrap EXCEPT !.radio = r] \in Design
                                 /\ [Bootstrap EXCEPT !.radio = r].flaw = "none"
<1>1. Candidates \subseteq {r \in Radios : name[r] # Gone}
  BY NamesAreNames DEF Candidates, NamesAreNames
<1>2. ASSUME NEW r \in Radios
      PROVE  /\ [Bootstrap EXCEPT !.radio = r] \in Design
             /\ [Bootstrap EXCEPT !.radio = r].flaw = "none"
  <2>1. [Bootstrap EXCEPT !.radio = r] \in
          [radio : {r}, ssid : Ssids, net : SUBSET Addresses, policy : Policies,
           flaw : {"none"}, on : {TRUE}]
    BY BootstrapIsSound DEF BootstrapIsSound
  <2> DEFINE d == [Bootstrap EXCEPT !.radio = r]
  <2> HIDE DEF d
  <2>2. d \in Design /\ d.flaw = "none"
    BY <2>1 DEF Design, d
  <2>3. QED
    BY <2>2 DEF d
<1>3. QED
  BY <1>1, <1>2 DEF Tables

LEMMA TypesRequest ==
  ASSUME Types, NEW list \in Lists, Request(list) \/ Refuse(list)
  PROVE  Types'
<1>1. Stored(list)
  BY DEF Request, Refuse
<1>2. /\ list \in Seq(Entry) /\ rows' \in Seq(Design) /\ Len(rows') <= MaxRows
      /\ DOMAIN rows \subseteq DOMAIN rows' /\ events' \in 0..MaxEvents
  BY <1>1, StoredTypes DEF Types
<1>3. UNCHANGED <<name, files, doc, live>>
  BY <1>1 DEF Stored
<1>4. CASE Request(list)
  <2>1. /\ pc = "idle" /\ pc' = "hostapd" /\ why' = "request" /\ req' = list
        /\ snap' = files /\ disturbed' = Doubts(list) /\ UNCHANGED <<done, seen>>
    BY <1>4 DEF Request, Stage
  <2>2. disturbed' \subseteq {"rows", "ids", "files", "new", "names"}
    BY <2>1 DEF Doubts
  <2>3. TypeOK'
    BY <1>2, <1>3, <2>1, <2>2 DEF Types, TypeOK, live, policy, Plugged
  <2>4. Shape'
    BY <1>3, <2>1 DEF Types, Shape, FileTypes, Generating, Reloading
  <2>5. QED
    BY <2>3, <2>4 DEF Types
<1>5. CASE Refuse(list)
  <2>1. UNCHANGED change
    BY <1>5 DEF Refuse
  <2>2. disturbed' \subseteq disturbed \cup {"table", "later"}
    BY <1>5 DEF Refuse, Noted
  <2>3. TypeOK'
    BY <1>2, <1>3, <2>1, <2>2 DEF Types, TypeOK, live, policy, change, Plugged
  <2>4. Shape'
    BY <1>3, <2>1 DEF Types, Shape, FileTypes, Generating, Reloading, change
  <2>5. QED
    BY <2>3, <2>4 DEF Types
<1>6. QED
  BY <1>4, <1>5

LEMMA BootTableIsTyped ==
  ASSUME TypeOK, NEW t \in Tables
  PROVE  t \in Seq(Design) /\ Len(t) <= MaxRows /\ DOMAIN rows \subseteq DOMAIN t
<1>1. CASE t = rows
  BY <1>1 DEF TypeOK
<1>2. CASE t # rows
  <2>1. PICK d \in Design : rows = <<>> /\ t = <<d>>
    BY <1>2, BootTable
  <2>2. <<d>> \in Seq(Design) /\ Len(<<d>>) = 1 /\ DOMAIN <<>> = {}
    OBVIOUS
  <2>3. 1 <= MaxRows
    BY BoundsAreNatural DEF BoundsAreNatural
  <2>4. QED
    BY <2>1, <2>2, <2>3
<1>3. QED
  BY <1>1, <1>2

LEMMA TypesBoot == Types /\ Boot => Types'
<1> SUFFICES ASSUME Types, Boot PROVE Types'
  OBVIOUS
<1>1. PICK t \in Tables :
        /\ rows' = t
        /\ \/ /\ t # <<>> /\ ~Blocked(t)
              /\ req' = [i \in DOMAIN t |-> [id |-> i, ap |-> t[i]]]
              /\ why' = "boot" /\ pc' = "hostapd"
              /\ snap' = files
              /\ disturbed' = IF Ambiguous THEN {"names"} ELSE {}
              /\ UNCHANGED <<done, seen, dhcp>>
           \/ /\ t = <<>> \/ Blocked(t)
              /\ pc' = "idle"
              /\ dhcp' \in DhcpWith(files.scope)
              /\ UNCHANGED <<req, done, why, snap, seen, disturbed>>
  BY DEF Boot
<1>2. pc = "off" /\ UNCHANGED <<name, files, doc, wanted, up, addr, fw, policy, events>>
  BY DEF Boot
<1>3. t \in Seq(Design) /\ Len(t) <= MaxRows /\ DOMAIN rows \subseteq DOMAIN t
  BY BootTableIsTyped DEF Types
<1>4. [i \in DOMAIN t |-> [id |-> i, ap |-> t[i]]] \in Seq(Entry)
  <2>1. Len(t) \in Nat /\ DOMAIN t = 1..Len(t) /\ \A i \in DOMAIN t : t[i] \in Design
    BY <1>3, ListsAreSeqs
  <2>2. \A i \in 1..Len(t) : [id |-> i, ap |-> t[i]] \in Entry
    BY <2>1 DEF Entry
  <2>3. [i \in 1..Len(t) |-> [id |-> i, ap |-> t[i]]] \in Seq(Entry)
    BY <2>1, <2>2, IsASeq
  <2>4. QED
    BY <2>1, <2>3
<1>5. CASE pc' = "hostapd" /\ UNCHANGED <<done, seen, dhcp>>
  <2>1. /\ req' \in Seq(Entry) /\ why' = "boot" /\ snap' = files
        /\ disturbed' \subseteq {"names"}
    BY <1>1, <1>4, <1>5
  <2>2. TypeOK'
    BY <1>1, <1>2, <1>3, <1>5, <2>1 DEF Types, TypeOK, policy, Plugged
  <2>3. Shape'
    BY <1>2, <1>5, <2>1 DEF Types, Shape, FileTypes, Generating, Reloading
  <2>4. QED
    BY <2>2, <2>3 DEF Types
<1>6. CASE pc' = "idle" /\ UNCHANGED <<req, done, why, snap, seen, disturbed>>
  <2>1. TypeOK'
    BY <1>1, <1>2, <1>3, <1>6 DEF Types, TypeOK, policy, Plugged
  <2>2. Shape'
    BY <1>2, <1>6 DEF Types, Shape, FileTypes, Generating, Reloading
  <2>3. QED
    BY <2>1, <2>2 DEF Types
<1>7. QED
  BY <1>1, <1>5, <1>6

\* The name of a file and the device it is for.
LEMMA WithConf ==
  ASSUME NEW conf, NEW f, NEW n
  PROVE  /\ DOMAIN With(conf, f, n) = DOMAIN conf \cup {f}
         /\ \A g \in DOMAIN conf \cup {f} : With(conf, f, n)[g] = IF g = f THEN n ELSE conf[g]
BY DEF With

LEMMA WithNames ==
  ASSUME NEW conf, NEW f, NEW n \in Names, \A g \in DOMAIN conf : conf[g] \in Names
  PROVE  \A g \in DOMAIN With(conf, f, n) : With(conf, f, n)[g] \in Names
BY DEF With

LEMMA TypesGenerate == Types /\ Generate => Types'
<1> SUFFICES ASSUME Types, Generate PROVE Types'
  OBVIOUS
<1> USE DEF Types, TypeOK, Shape, FileTypes, Generating, Reloading, Steps, live, policy, Plugged
<1>1. Len(req) \in Nat /\ DOMAIN req = 1..Len(req) /\ \A k \in DOMAIN req : req[k].ap \in Design
  BY ListsAreSeqs
<1>2. CASE ClearHostapd
  <2>1. pc' = "confs" => done < Len(req)
    <3>1. req # <<>> => Len(req) > 0
      BY EmptySeq
    <3>2. QED
      BY <1>1, <1>2, <3>1 DEF ClearHostapd
  <2>2. QED
    BY <1>2, <2>1, NothingIsTyped DEF ClearHostapd
<1>3. CASE WriteHostapd
  <2>1. /\ pc = "confs" /\ done \in Nat /\ done < Len(req)
        /\ pc' = IF done + 1 = Len(req) THEN "dnsmasq" ELSE "confs"
        /\ done' = IF done + 1 = Len(req) THEN 0 ELSE done + 1
        /\ files' = IF Written(req[done + 1])
                    THEN [files EXCEPT !.conf = With(@, File(req[done + 1]), Dev(req[done + 1].ap))]
                    ELSE files
        /\ UNCHANGED <<name, rows, req, why, doc, disturbed, events, snap, seen, live>>
    BY <1>3 DEF WriteHostapd
  <2>2. done' \in Nat /\ (pc' # "confs" => done' = 0) /\ (pc' = "confs" => done' < Len(req))
    BY <1>1, <2>1
  <2>3. Written(req[done + 1]) => Dev(req[done + 1].ap) \in Names
    BY <1>1, <2>1 DEF Written, Dev, Design
  <2>4. FileTypes(files')
    <3>1. CASE Written(req[done + 1])
      <4>1. files' = [files EXCEPT !.conf = With(files.conf, File(req[done + 1]), Dev(req[done + 1].ap))]
        BY <2>1, <3>1
      <4>2. files'.conf = With(files.conf, File(req[done + 1]), Dev(req[done + 1].ap))
        BY <4>1
      <4>3. \A g \in DOMAIN files'.conf : files'.conf[g] \in Names
        BY <2>3, <3>1, <4>2, WithNames
      <4>4. QED
        BY <4>1, <4>3
    <3>2. CASE ~Written(req[done + 1])
      BY <2>1, <3>2
    <3>3. QED
      BY <3>1, <3>2
  <2>5. QED
    BY <2>1, <2>2, <2>4
<1>4. CASE HostapdRaises
  BY <1>4 DEF HostapdRaises
<1>5. CASE WriteDnsmasq
  BY <1>5 DEF WriteDnsmasq
<1>6. CASE DnsmasqRaises
  BY <1>6 DEF DnsmasqRaises
<1>7. CASE WriteNftables
  BY <1>7 DEF WriteNftables
<1>8. CASE NftablesRaises
  BY <1>8 DEF NftablesRaises
<1>9. QED
  BY <1>2, <1>3, <1>4, <1>5, <1>6, <1>7, <1>8 DEF Generate

LEMMA TypesReload == Types /\ Reload => Types'
<1> SUFFICES ASSUME Types, Reload PROVE Types'
  OBVIOUS
<1> USE DEF Types, TypeOK, Shape, FileTypes, Generating, Reloading, Steps, policy, Plugged
<1>1. CASE ReloadUnits
  <2>1. addr' \in [Names -> SUBSET Addresses]
    BY <1>1 DEF ReloadUnits, Flushed, NoAddr
  <2>2. QED
    BY <1>1, <2>1 DEF ReloadUnits, Started
<1>2. CASE BringUp
  <2>1. ASSUME NEW n \in Names PROVE addr'[n] \in SUBSET Addresses
    <3> DEFINE on == {i \in Enabled(seen) : Dev(seen[i]) = n /\ seen[i].net # NoAddr}
    <3>1. Len(seen) \in Nat /\ on \in SUBSET (1..Len(seen)) /\ DOMAIN seen = 1..Len(seen)
          /\ \A i \in DOMAIN seen : seen[i] \in Design
      BY ListsAreSeqs DEF Enabled
    <3>2. addr'[n] = IF on = {} THEN addr[n] ELSE seen[Last(on)].net
      BY <1>2 DEF BringUp
    <3> HIDE DEF on
    <3>3. on # {} => Last(on) \in DOMAIN seen
      BY <3>1, LastOne
    <3>4. QED
      BY <3>1, <3>2, <3>3 DEF Design
  <2>2. addr' \in [Names -> SUBSET Addresses]
    <3>1. addr' = [n \in Names |-> addr'[n]]
      BY <1>2 DEF BringUp
    <3>2. QED
      BY <2>1, <3>1
  <2>3. /\ pc = "addresses" /\ pc' = "dhcp" /\ seen' = <<>>
        /\ UNCHANGED <<name, rows, req, why, doc, disturbed, events,
                       done, snap, files, wanted, up, dhcp, fw, policy>>
    BY <1>2 DEF BringUp
  <2>4. QED
    BY <2>2, <2>3, NothingIsTyped
<1>3. CASE ReloadDnsmasq
  BY <1>3 DEF ReloadDnsmasq
<1>4. CASE ReloadNftables
  BY <1>4 DEF ReloadNftables
<1>5. CASE ReloadVpn
  BY <1>5 DEF ReloadVpn, Rules
<1>6. QED
  BY <1>1, <1>2, <1>3, <1>4, <1>5 DEF Reload

LEMMA TypesDecide == Types /\ Decide => Types'
<1> SUFFICES ASSUME Types, Decide PROVE Types'
  OBVIOUS
<1> USE NothingIsTyped
    DEF Types, TypeOK, Shape, FileTypes, Generating, Reloading, Steps, live, policy, Plugged
<1>1. CASE HealthPasses
  BY <1>1 DEF HealthPasses
<1>2. CASE HealthFails
  BY <1>2 DEF HealthFails
<1>3. CASE Keep
  BY <1>3 DEF Keep
<1>4. CASE Revert
  BY <1>4 DEF Revert
<1>5. CASE Restore
  BY <1>5 DEF Restore, Undo
<1>6. QED
  BY <1>1, <1>2, <1>3, <1>4, <1>5 DEF Decide

LEMMA TypesAside ==
  ASSUME Types,
         \/ Aside
         \/ \E r \in Radios, n \in Names \cup {Gone} : Move(r, n)
         \/ \E f \in wanted : RestartUnit(f)
  PROVE  Types'
<1> USE NamesAreNames, BoundsAreNatural
    DEF Types, TypeOK, Shape, FileTypes, Generating, Reloading, live, policy, change, Plugged,
        Disturb, Noted, NamesAreNames, BoundsAreNatural
<1>1. CASE RetryDnsmasq
  BY <1>1 DEF RetryDnsmasq
<1>2. CASE RestartNet
  BY <1>2 DEF RestartNet
<1>3. CASE DoctorReads
  BY <1>3 DEF DoctorReads
<1>4. ASSUME NEW conf, NEW k \in Nat, Examine(conf, k), k <= Len(doc.aps),
             \A g \in DOMAIN conf : conf[g] \in Names
      PROVE  Types'
  <2>1. /\ files' = [files EXCEPT !.conf = conf, !.clean = FALSE]
        /\ doc' = IF k = Len(doc.aps) THEN Away ELSE [doc EXCEPT !.at = "write", !.k = k]
        /\ disturbed' \subseteq disturbed \cup {"doctor"}
        /\ UNCHANGED <<rows, change, name, live, events>>
    BY <1>4 DEF Examine, Noticed
  <2>2. FileTypes(files')
    BY <1>4, <2>1
  <2>3. Len(doc.aps) \in Nat
    BY LenProperties
  <2>4. /\ doc'.at \in {"away", "clear", "write"} /\ doc'.aps \in Seq(Design)
        /\ DOMAIN doc' = {"at", "aps", "k"}
        /\ doc'.at = "write" => doc'.k \in 0..(Len(doc'.aps) - 1)
    <3>1. CASE k = Len(doc.aps)
      BY <2>1, <3>1, NothingIsTyped DEF Away
    <3>2. CASE k # Len(doc.aps)
      <4>1. doc'.aps = doc.aps /\ doc'.at = "write" /\ doc'.k = k /\ DOMAIN doc' = DOMAIN doc
        BY <2>1, <3>2
      <4>2. k \in 0..(Len(doc.aps) - 1)
        BY <1>4, <2>3, <3>2
      <4>3. QED
        BY <4>1, <4>2
    <3>3. QED
      BY <3>1, <3>2
  <2>5. QED
    BY <2>1, <2>2, <2>4
<1>5. CASE DoctorClears
  <2>1. Examine(NoConf, 0) /\ Len(doc.aps) \in Nat
    BY <1>5, LenProperties DEF DoctorClears
  <2>2. QED
    BY <1>4, <2>1, NothingIsTyped
<1>6. CASE DoctorWrites
  <2> DEFINE k  == doc.k + 1
             ap == doc.aps[k]
             conf == IF ap.on /\ Dev(ap) # Gone THEN With(files.conf, k, Dev(ap)) ELSE files.conf
  <2>1. doc.at = "write" /\ Examine(conf, k)
    BY <1>6 DEF DoctorWrites
  <2>2. Len(doc.aps) \in Nat /\ doc.k \in 0..(Len(doc.aps) - 1) /\ DOMAIN doc.aps = 1..Len(doc.aps)
    BY <2>1, ListsAreSeqs
  <2>3. k \in Nat /\ k <= Len(doc.aps) /\ ap \in Design
    BY <2>2, ListsAreSeqs
  <2>4. Dev(ap) # Gone => Dev(ap) \in Names
    BY <2>3 DEF Dev, Design
  <2> HIDE DEF k, ap
  <2>5. \A g \in DOMAIN conf : conf[g] \in Names
    <3>1. \A g \in DOMAIN files.conf : files.conf[g] \in Names
      OBVIOUS
    <3>2. CASE ap.on /\ Dev(ap) # Gone
      BY <2>4, <3>1, <3>2, WithNames
    <3>3. CASE ~ (ap.on /\ Dev(ap) # Gone)
      BY <3>1, <3>3
    <3>4. QED
      BY <3>2, <3>3
  <2> HIDE DEF conf
  <2>6. QED
    BY <1>4, <2>1, <2>3, <2>5
<1>7. CASE Reboot
  <2>1. addr' \in [Names -> SUBSET Addresses]
    BY <1>7 DEF Reboot, NoAddr
  <2>2. /\ doc'.at = "away" /\ doc'.aps = <<>> /\ DOMAIN doc' = {"at", "aps", "k"}
        /\ pc' = "off" /\ why' = "none" /\ req' = <<>> /\ done' = 0 /\ snap' = NoFiles
        /\ seen' = <<>> /\ up' = NoConf /\ ruled' = {} /\ holes' = {} /\ disturbed' = {}
        /\ UNCHANGED <<name, rows, files, wanted, events>>
    BY <1>7 DEF Reboot, Away
  <2>3. QED
    BY <2>1, <2>2, NothingIsTyped
<1>8. ASSUME NEW r \in Radios, NEW n \in Names \cup {Gone}, Move(r, n) PROVE Types'
  <2> DEFINE kept == {name[s] : s \in Radios \ {r}}
             lost == {n} \cup ({name[r]} \ kept)
  <2>1. /\ events' = events + 1 /\ events < MaxEvents
        /\ Disturb({"move"})
        /\ name' = [name EXCEPT ![r] = n]
        /\ up' = [f \in {g \in DOMAIN up : up[g] \notin lost} |-> up[f]]
        /\ addr' = [m \in Names |-> IF m \in lost THEN NoAddr ELSE addr[m]]
        /\ UNCHANGED <<files, doc, wanted, dhcp, fw, policy>>
    BY <1>8 DEF Move
  <2>2. \A f \in DOMAIN up' : up'[f] \in Plugged'
    <3>1. SUFFICES ASSUME NEW f \in DOMAIN up' PROVE up'[f] \in {name'[s] : s \in Radios} \ {Gone}
      OBVIOUS
    <3>2. f \in DOMAIN up /\ up'[f] = up[f] /\ up[f] \notin lost
      BY <2>1
    <3>3. PICK s \in Radios : up[f] = name[s] /\ name[s] # Gone
      BY <3>2
    <3>4. PICK q \in Radios \ {r} : up[f] = name[q]
      BY <3>2, <3>3
    <3>5. name'[q] = name[q]
      BY <2>1, <3>4
    <3>6. QED
      BY <3>2, <3>3, <3>4, <3>5
  <2>3. disturbed' \subseteq disturbed \cup {"move"} /\ events' \in 0..MaxEvents
    BY <2>1
  <2>4. addr' \in [Names -> SUBSET Addresses]
    BY <2>1 DEF NoAddr
  <2>5. /\ name' \in [Radios -> Names \cup {Gone}] /\ DOMAIN up' \subseteq wanted
        /\ UNCHANGED <<rows, change, files, doc, wanted, policy>>
    BY <2>1
  <2>6. TypeOK'
    BY <2>2, <2>3, <2>4, <2>5
  <2>7. Shape'
    BY <2>5
  <2>8. QED
    BY <2>6, <2>7
<1>9. ASSUME NEW f \in wanted, RestartUnit(f) PROVE Types'
  <2>1. addr' \in [Names -> SUBSET Addresses]
    BY <1>9 DEF RestartUnit, Flushed, NoAddr
  <2>2. /\ f \in wanted /\ files.conf[f] \in Plugged
        /\ up' = [g \in DOMAIN up \cup {f} |-> IF g = f THEN files.conf[f] ELSE up[g]]
        /\ disturbed' \subseteq disturbed \cup {"unit"}
        /\ UNCHANGED <<rows, change, name, files, doc, wanted, dhcp, fw, policy, events>>
    BY <1>9 DEF RestartUnit
  <2>3. DOMAIN up' \subseteq wanted' /\ \A g \in DOMAIN up' : up'[g] \in Plugged'
    BY <2>2
  <2>4. QED
    BY <2>1, <2>2, <2>3
<1>10. QED
  BY <1>1, <1>2, <1>3, <1>5, <1>6, <1>7, <1>8, <1>9 DEF Aside

LEMMA TypesNext == Types /\ [Next]_vars => Types'
<1>1. Types /\ UNCHANGED vars => Types'
  BY DEF vars, Types, TypeOK, Shape, FileTypes, Plugged, change, live, policy
<1>2. QED
  BY <1>1, TypesRequest, TypesBoot, TypesGenerate, TypesReload, TypesDecide, TypesAside DEF Next

\* However adapters, requests, units, the doctor and reboots interleave, the state
\* keeps its types: ids stay dense, a running unit's device is there, the policy rules
\* are of rows in the table.
THEOREM TypesHold == Spec => []TypeOK
<1>1. Types => TypeOK
  BY DEF Types
<1>2. QED
  BY TypesInit, TypesNext, <1>1, PTL DEF Spec

---------------------------------------------------------------------------
(* What is staged                                                           *)

AtWork == why \in {"request", "boot"}

\* What validation asks of a set, but for tunnels and the presence of its radios.
Sound(aps) == ~OverCeiling(aps) /\ ~Overlap(aps) /\ \A i \in Enabled(aps) : aps[i].flaw # "radio"

FilesDiffer(list) ==
  \A j, k \in Enabled(Aps(list)) : j # k => File(list[j]) # File(list[k])

LEMMA DoubtsSay ==
  ASSUME NEW list
  PROVE  /\ "rows" \notin Doubts(list) =>
              \A i \in Enabled(rows) : \E k \in DOMAIN list : Given(list[k]) /\ list[k].id = i
         /\ "ids" \notin Doubts(list) =>
              \A k \in DOMAIN list : Given(list[k]) =>
                /\ list[k].id \in DOMAIN rows
                /\ \A j \in DOMAIN list : Given(list[j]) /\ j # k => list[j].id # list[k].id
         /\ "files" \notin Doubts(list) => FilesDiffer(list)
         /\ "new" \notin Doubts(list) => \A k \in DOMAIN list : Given(list[k])
         /\ "names" \notin Doubts(list) => ~Ambiguous
<1> DEFINE given == {k \in DOMAIN list : Given(list[k])}
<1>1. "rows" \notin Doubts(list) => Enabled(rows) \subseteq {list[k].id : k \in given}
  BY DEF Doubts
<1>2. "ids" \notin Doubts(list) =>
        \A k \in given : /\ list[k].id \in DOMAIN rows
                         /\ \A j \in given : j # k => list[j].id # list[k].id
  BY DEF Doubts
<1>3. "new" \notin Doubts(list) => given = DOMAIN list
  BY DEF Doubts
<1>4. ("files" \notin Doubts(list) => FilesDiffer(list)) /\ ("names" \notin Doubts(list) => ~Ambiguous)
  BY DEF Doubts, FilesDiffer
<1>5. QED
  BY <1>1, <1>2, <1>3, <1>4

LEMMA EnabledOfList ==
  ASSUME NEW list
  PROVE  /\ DOMAIN Aps(list) = DOMAIN list
         /\ Enabled(Aps(list)) = {k \in DOMAIN list : list[k].ap.on}
         /\ \A k \in DOMAIN list : Aps(list)[k] = list[k].ap
BY DEF Aps, Enabled

\* The list of a boot is the table itself.
LEMMA BootList ==
  ASSUME NEW t \in Seq(Design), NEW list, list = [i \in DOMAIN t |-> [id |-> i, ap |-> t[i]]]
  PROVE  /\ DOMAIN list = DOMAIN t /\ \A i \in DOMAIN t : list[i].id = i /\ list[i].ap = t[i]
         /\ Aps(list) = t /\ FilesDiffer(list)
<1>1. Len(t) \in Nat /\ DOMAIN t = 1..Len(t) /\ t = [i \in DOMAIN t |-> t[i]]
  BY LenProperties
<1>2. DOMAIN list = DOMAIN t /\ \A i \in DOMAIN t : list[i].id = i /\ list[i].ap = t[i]
  OBVIOUS
<1>3. Aps(list) = t
  BY <1>1, <1>2 DEF Aps
<1>4. \A i \in DOMAIN t : File(list[i]) = i
  BY <1>1, <1>2 DEF File, Given
<1>5. FilesDiffer(list)
  BY <1>2, <1>3, <1>4 DEF FilesDiffer, Enabled
<1>6. QED
  BY <1>2, <1>3, <1>5

\* What does not stage a change leaves the table alone, and the change as it is or at its end.
Others ==
  \/ Generate \/ Reload \/ Decide \/ Aside
  \/ \E r \in Radios, n \in Names \cup {Gone} : Move(r, n)
  \/ \E f \in wanted : RestartUnit(f)
  \/ UNCHANGED vars

LEMMA OthersOf ==
  ASSUME [Next]_vars
  PROVE  Others \/ Boot \/ \E list \in Lists : Request(list) \/ Refuse(list)
BY DEF Others, Next

LEMMA ChangeGoesOn ==
  ASSUME Others
  PROVE  /\ UNCHANGED rows
         /\ \/ why' \notin {"request", "boot"}
            \/ /\ UNCHANGED <<req, why>> /\ disturbed \subseteq disturbed'
               /\ UNCHANGED name \/ "move" \in disturbed'
<1> USE DEF change, Steps, Disturb, Noted
<1>1. CASE Generate
  BY <1>1 DEF Generate, ClearHostapd, WriteHostapd, HostapdRaises, WriteDnsmasq, DnsmasqRaises,
              WriteNftables, NftablesRaises
<1>2. CASE Reload
  BY <1>2 DEF Reload, ReloadUnits, BringUp, ReloadDnsmasq, ReloadNftables, ReloadVpn
<1>3. CASE Decide
  BY <1>3 DEF Decide, HealthPasses, HealthFails, Keep, Revert, Restore, Undo
<1>4. CASE Aside
  BY <1>4 DEF Aside, RetryDnsmasq, RestartNet, DoctorReads, DoctorClears, DoctorWrites, Examine, Reboot
<1>5. ASSUME NEW r \in Radios, NEW n \in Names \cup {Gone}, Move(r, n)
      PROVE  /\ UNCHANGED rows
             /\ \/ why' \notin {"request", "boot"}
                \/ /\ UNCHANGED <<req, why>> /\ disturbed \subseteq disturbed'
                   /\ "move" \in disturbed'
  BY <1>5 DEF Move
<1>6. ASSUME NEW f \in wanted, RestartUnit(f)
      PROVE  UNCHANGED <<rows, req, why, name>> /\ disturbed \subseteq disturbed'
  BY <1>6 DEF RestartUnit
<1>7. CASE UNCHANGED vars
  BY <1>7 DEF vars
<1>8. QED
  BY <1>1, <1>2, <1>3, <1>4, <1>5, <1>6, <1>7 DEF Others

LEMMA RefusalGoesBy ==
  ASSUME NEW list \in Lists, Refuse(list)
  PROVE  /\ UNCHANGED <<name, change, files, live>>
         /\ disturbed' = Noted({IF Settled THEN "later" ELSE "table"})
BY DEF Refuse, Stored

\* What is staged has passed validation; unless an adapter moves its radios are there.
StagedInv ==
  AtWork =>
    /\ Sound(Aps(req))
    /\ "move" \notin disturbed => \A k \in Ons : Dev(Ap(k)) # Gone
    /\ disturbed \cap {"move", "names"} = {} => ~Ambiguous
    /\ "files" \notin disturbed => FilesDiffer(req)

LEMMA StagedInit == Init => StagedInv
BY DEF Init, StagedInv, AtWork

LEMMA BlockedSays ==
  ASSUME NEW aps, ~Blocked(aps)
  PROVE  /\ Sound(aps) /\ \A i \in Enabled(aps) : Dev(aps[i]) # Gone
         /\ \A i \in DOMAIN aps : aps[i].flaw # "tunnel"
BY DEF Blocked, Unusable, Sound, NoTunnel

LEMMA StagedNext == Types /\ StagedInv /\ [Next]_vars => StagedInv'
<1> SUFFICES ASSUME Types, StagedInv, [Next]_vars, AtWork' PROVE StagedInv'
  BY DEF StagedInv
<1>1. ASSUME NEW list \in Lists, Request(list) PROVE StagedInv'
  <2>1. req' = list /\ disturbed' = Doubts(list) /\ UNCHANGED name /\ ~Blocked(Aps(list))
    BY <1>1 DEF Request, Stage, Stored
  <2>2. Sound(Aps(list)) /\ \A k \in Enabled(Aps(list)) : Dev(Aps(list)[k]) # Gone
    BY <2>1, BlockedSays
  <2>3. \A k \in Ons' : Dev(Ap(k))' # Gone
    BY <2>1, <2>2, EnabledOfList DEF Ons, Ap, Dev
  <2>4. "names" \notin disturbed' => ~Ambiguous'
    BY <2>1, DoubtsSay DEF Ambiguous
  <2>5. "files" \notin disturbed' => FilesDiffer(req')
    BY <2>1, DoubtsSay
  <2>6. QED
    BY <2>1, <2>2, <2>3, <2>4, <2>5 DEF StagedInv
<1>2. ASSUME NEW list \in Lists, Refuse(list) PROVE StagedInv'
  <2>1. UNCHANGED <<name, req, why>> /\ disturbed \subseteq disturbed'
    BY <1>2, RefusalGoesBy DEF change, Noted
  <2>2. QED
    BY <2>1 DEF StagedInv, AtWork, Ons, Ap, Dev, Ambiguous
<1>3. CASE Boot
  <2>1. PICK t \in Tables :
          /\ ~Blocked(t) /\ req' = [i \in DOMAIN t |-> [id |-> i, ap |-> t[i]]]
          /\ disturbed' = IF Ambiguous THEN {"names"} ELSE {}
    BY <1>3 DEF Boot, AtWork, Types, Shape
  <2>2. UNCHANGED name
    BY <1>3 DEF Boot
  <2>3. t \in Seq(Design)
    BY BootTableIsTyped DEF Types
  <2>4. Aps(req') = t /\ FilesDiffer(req') /\ \A k \in DOMAIN t : req'[k].ap = t[k]
    BY <2>1, <2>3, BootList
  <2>5. Sound(t) /\ \A k \in Enabled(t) : Dev(t[k]) # Gone
    BY <2>1, BlockedSays
  <2>6. \A k \in Ons' : Dev(Ap(k))' # Gone
    BY <2>2, <2>4, <2>5 DEF Ons, Ap, Dev, Enabled
  <2>7. "names" \notin disturbed' => ~Ambiguous'
    BY <2>1, <2>2 DEF Ambiguous
  <2>8. QED
    BY <2>4, <2>5, <2>6, <2>7 DEF StagedInv
<1>4. CASE Others
  <2>1. /\ UNCHANGED <<req, why>> /\ disturbed \subseteq disturbed'
        /\ UNCHANGED name \/ "move" \in disturbed'
    BY <1>4, ChangeGoesOn DEF AtWork
  <2>2. QED
    BY <2>1 DEF StagedInv, AtWork, Ons, Ap, Dev, Ambiguous
<1>5. QED
  BY <1>1, <1>2, <1>3, <1>4, OthersOf

---------------------------------------------------------------------------
(* What an admin kept boots again                                           *)

\* The enabled access points are those of entries of a list, each of its own.
Drawn(aps, list) ==
  \E f \in [Enabled(aps) -> DOMAIN list] :
    \A i \in Enabled(aps) : /\ aps[i] = list[f[i]].ap
                            /\ \A j \in Enabled(aps) : f[i] = f[j] => i = j

\* A list that names every enabled row is all that is enabled afterwards.
LEMMA MergeIsDrawn ==
  ASSUME rows \in Seq(Design), NEW list \in Seq(Entry), NEW ids \in NewIds(list),
         "rows" \notin Doubts(list)
  PROVE  Drawn(Merge(list, ids), list)
<1> DEFINE m == Merge(list, ids)
           W(i) == Writers(list, ids, i)
           f == [i \in Enabled(m) |-> CHOOSE k \in W(i) : m[i] = list[k].ap]
<1>1. ASSUME NEW i \in Enabled(m) PROVE \E k \in W(i) : m[i] = list[k].ap
  <2>1. SUFFICES ASSUME W(i) = {}, i \in DOMAIN rows, m[i] = rows[i] PROVE FALSE
    BY MergedRows DEF Enabled
  <2>2. i \in Enabled(rows)
    BY <2>1 DEF Enabled
  <2>3. PICK k \in DOMAIN list : Given(list[k]) /\ list[k].id = i
    BY <2>2, DoubtsSay
  <2>4. k \notin DOMAIN ids
    <3>1. DOMAIN ids = {j \in DOMAIN list : ~Given(list[j])}
      BY NewIdsAreNext
    <3>2. QED
      BY <2>3, <3>1
  <2>5. k \in W(i)
    BY <2>1, <2>3, <2>4 DEF Writers, Row
  <2>6. QED
    BY <2>1, <2>5
<1>2. \A i, k : k \in W(i) => k \in DOMAIN list /\ Row(list, ids, k) = i
  BY DEF Writers
<1> HIDE DEF m, W
<1>3. \A i \in Enabled(m) : f[i] \in W(i) /\ m[i] = list[f[i]].ap
  BY <1>1
<1>4. f \in [Enabled(m) -> DOMAIN list]
  BY <1>2, <1>3
<1>5. \A i, j \in Enabled(m) : f[i] = f[j] => i = j
  BY <1>2, <1>3
<1> HIDE DEF f
<1>6. Drawn(m, list)
  BY <1>3, <1>4, <1>5 DEF Drawn
<1>7. QED
  BY <1>6 DEF m

\* Every tunnel in the table is there; unless other rows were stored since, the
\* enabled ones are those of the change.
TableInv ==
  /\ \A i \in DOMAIN rows : rows[i].flaw # "tunnel"
  /\ why = "request" /\ disturbed \cap {"rows", "table", "later"} = {} => Drawn(rows, req)

LEMMA TableInit == Init => TableInv
BY DEF Init, TableInv

LEMMA TableNext == Types /\ TableInv /\ [Next]_vars => TableInv'
<1> SUFFICES ASSUME Types, TableInv, [Next]_vars PROVE TableInv'
  OBVIOUS
<1>1. ASSUME NEW list \in Lists, Stored(list) PROVE \A i \in DOMAIN rows' : rows'[i].flaw # "tunnel"
  <2>1. PICK ids \in NewIds(list) : rows' = Merge(list, ids)
    BY <1>1 DEF Stored
  <2>2. list \in Seq(Entry) /\ rows \in Seq(Design)
    BY ListsAreTyped DEF ListsAreTyped, Types, TypeOK
  <2>3. \A k \in DOMAIN list : list[k].ap.flaw # "tunnel"
    BY <1>1, BlockedSays, EnabledOfList DEF Stored
  <2>4. \A i, k : k \in Writers(list, ids, i) => k \in DOMAIN list
    BY DEF Writers
  <2>5. QED
    BY <2>1, <2>2, <2>3, <2>4, MergedRows DEF TableInv
<1>2. ASSUME NEW list \in Lists, Request(list) PROVE TableInv'
  <2>1. Stored(list) /\ req' = list /\ disturbed' = Doubts(list)
    BY <1>2 DEF Request, Stage
  <2>2. PICK ids \in NewIds(list) : rows' = Merge(list, ids)
    BY <2>1 DEF Stored
  <2>3. list \in Seq(Entry) /\ rows \in Seq(Design)
    BY ListsAreTyped DEF ListsAreTyped, Types, TypeOK
  <2>4. "rows" \notin disturbed' => Drawn(rows', req')
    BY <2>1, <2>2, <2>3, MergeIsDrawn
  <2>5. QED
    BY <1>1, <2>1, <2>4 DEF TableInv
<1>3. ASSUME NEW list \in Lists, Refuse(list) PROVE TableInv'
  <2>1. Stored(list) /\ UNCHANGED <<req, why>>
        /\ (why = "request" => {"table", "later"} \cap disturbed' # {})
    BY <1>3, RefusalGoesBy DEF change, Noted, Refuse
  <2>2. QED
    BY <1>1, <2>1 DEF TableInv
<1>4. CASE Boot
  <2>1. rows' \in Tables /\ why' # "request"
    BY <1>4 DEF Boot, Types, Shape
  <2>2. \A i \in DOMAIN rows' : rows'[i].flaw # "tunnel"
    <3>1. CASE rows' = rows
      BY <3>1 DEF TableInv
    <3>2. CASE rows' # rows
      <4>1. PICK d : rows' = <<d>> /\ d.flaw = "none"
        BY <2>1, <3>2, BootTable
      <4>2. QED
        BY <4>1
    <3>3. QED
      BY <3>1, <3>2
  <2>3. QED
    BY <2>1, <2>2 DEF TableInv
<1>5. CASE Others
  BY <1>5, ChangeGoesOn DEF TableInv
<1>6. QED
  BY <1>2, <1>3, <1>4, <1>5, OthersOf

\* What is written of scopes and rules is left alone by everything else.
LEMMA WrittenStays ==
  ASSUME Types, [Next]_vars
  PROVE  /\ WriteDnsmasq \/ Restore \/ files'.scope = files.scope
         /\ WriteNftables \/ Restore \/ files'.rule = files.rule
<1> USE DEF Types, Shape, FileTypes, Steps, live
<1>1. ASSUME NEW list \in Lists, Request(list) \/ Refuse(list) PROVE UNCHANGED files
  BY <1>1 DEF Request, Refuse, Stored
<1>2. CASE Boot
  BY <1>2 DEF Boot
<1>3. CASE ClearHostapd \/ HostapdRaises \/ DnsmasqRaises \/ NftablesRaises
  BY <1>3 DEF ClearHostapd, HostapdRaises, DnsmasqRaises, NftablesRaises
<1>4. CASE WriteHostapd
  BY <1>4 DEF WriteHostapd
<1>5. CASE WriteDnsmasq
  BY <1>5 DEF WriteDnsmasq
<1>6. CASE WriteNftables
  BY <1>6 DEF WriteNftables
<1>7. CASE Reload
  BY <1>7 DEF Reload, ReloadUnits, BringUp, ReloadDnsmasq, ReloadNftables, ReloadVpn
<1>8. CASE HealthPasses \/ HealthFails \/ Keep \/ Revert
  BY <1>8 DEF HealthPasses, HealthFails, Keep, Revert
<1>9. CASE Aside
  BY <1>9 DEF Aside, RetryDnsmasq, RestartNet, DoctorReads, DoctorClears, DoctorWrites, Examine, Reboot
<1>10. ASSUME NEW r \in Radios, NEW n \in Names \cup {Gone}, Move(r, n) PROVE UNCHANGED files
  BY <1>10 DEF Move
<1>11. ASSUME NEW f \in wanted, RestartUnit(f) PROVE UNCHANGED files
  BY <1>11 DEF RestartUnit
<1>12. CASE UNCHANGED vars
  BY <1>12 DEF vars
<1>13. QED
  BY <1>1, <1>2, <1>3, <1>4, <1>5, <1>6, <1>7, <1>8, <1>9, <1>10, <1>11, <1>12
  DEF Next, Generate, Decide

Scoped == {"nftables", "health", "trial", "idle"} \cup Reloading

\* Each scope that was written has its subnet, and a range unless that is its flaw.
WrittenInv ==
  AtWork /\ pc \in Scoped =>
    \A k \in Ons : /\ Ap(k).net # NoAddr
                   /\ \E s \in files.scope : s.ok = (Ap(k).flaw # "leases")

LEMMA WrittenInit == Init => WrittenInv
BY DEF Init, WrittenInv, AtWork

\* Only the generators, one after the other, bring a change to where its scopes are written.
LEMMA PcOfOthers ==
  ASSUME Types, Others, AtWork', pc' \in Scoped
  PROVE  WriteDnsmasq \/ (pc \in Scoped /\ files'.scope = files.scope)
<1> USE DEF Scoped, Reloading, Steps, change, Disturb, AtWork
<1>1. ~Restore /\ ~Reboot
  BY DEF Restore, Undo, Reboot
<1>2. WriteDnsmasq \/ files'.scope = files.scope
  BY <1>1, WrittenStays DEF Others, Next
<1>3. CASE Generate
  BY <1>2, <1>3 DEF Generate, ClearHostapd, WriteHostapd, HostapdRaises, DnsmasqRaises,
                    WriteNftables, NftablesRaises
<1>4. CASE Reload
  BY <1>2, <1>4 DEF Reload, ReloadUnits, BringUp, ReloadDnsmasq, ReloadNftables, ReloadVpn
<1>5. CASE Decide
  BY <1>1, <1>2, <1>5 DEF Decide, HealthPasses, HealthFails, Keep, Revert
<1>6. CASE Aside
  BY <1>1, <1>2, <1>6
  DEF Aside, RetryDnsmasq, RestartNet, DoctorReads, DoctorClears, DoctorWrites, Examine
<1>7. ASSUME NEW r \in Radios, NEW n \in Names \cup {Gone}, Move(r, n) PROVE UNCHANGED pc
  BY <1>7 DEF Move
<1>8. ASSUME NEW f \in wanted, RestartUnit(f) PROVE UNCHANGED pc
  BY <1>8 DEF RestartUnit
<1>9. CASE UNCHANGED vars
  BY <1>2, <1>9 DEF vars
<1>10. QED
  BY <1>2, <1>3, <1>4, <1>5, <1>6, <1>7, <1>8, <1>9 DEF Others

LEMMA WrittenNext == Types /\ WrittenInv /\ [Next]_vars => WrittenInv'
<1> SUFFICES ASSUME Types, WrittenInv, [Next]_vars, AtWork', pc' \in Scoped PROVE WrittenInv'
  BY DEF WrittenInv
<1>1. ASSUME NEW list \in Lists, Request(list) PROVE FALSE
  BY <1>1 DEF Request, Stage, Scoped, Reloading
<1>2. ASSUME NEW list \in Lists, Refuse(list) PROVE WrittenInv'
  <2>1. UNCHANGED <<files, pc, why, req>>
    BY <1>2, RefusalGoesBy DEF change
  <2>2. QED
    BY <2>1 DEF WrittenInv, AtWork, Ons, Ap
<1>3. CASE Boot
  BY <1>3 DEF Boot, Scoped, Reloading, AtWork, Types, Shape
<1>4. CASE WriteDnsmasq
  <2>1. /\ \A k \in Ons : Ap(k).net # NoAddr
        /\ files'.scope = {[dev |-> OrWlan0(Ap(k)), net |-> Ap(k).net,
                            ok |-> Ap(k).flaw # "leases"] : k \in Ons}
        /\ UNCHANGED req
    BY <1>4 DEF WriteDnsmasq, Steps, Types, Shape, FileTypes
  <2>2. ASSUME NEW k \in Ons PROVE \E s \in files'.scope : s.ok = (Ap(k).flaw # "leases")
    <3> DEFINE s == [dev |-> OrWlan0(Ap(k)), net |-> Ap(k).net, ok |-> Ap(k).flaw # "leases"]
    <3>1. s \in files'.scope
      BY <2>1
    <3>2. s.ok = (Ap(k).flaw # "leases")
      BY Zenon
    <3>3. QED
      BY <3>1, <3>2
  <2>3. Ons' = Ons /\ \A k \in Ons : Ap(k)' = Ap(k)
    BY <2>1 DEF Ons, Ap
  <2>4. QED
    BY <2>1, <2>2, <2>3 DEF WrittenInv
<1>5. CASE Others /\ ~WriteDnsmasq
  <2>1. UNCHANGED <<req, why>> /\ pc \in Scoped /\ files'.scope = files.scope
    BY <1>5, ChangeGoesOn, PcOfOthers DEF AtWork
  <2>2. QED
    BY <2>1 DEF WrittenInv, AtWork, Ons, Ap
<1>6. QED
  BY <1>1, <1>2, <1>3, <1>4, <1>5, OthersOf

---------------------------------------------------------------------------
(* The generated files are in force                                         *)

\* How far the reload of a change, or of what a rollback restored, has come.
Bound(d) ==
  /\ d \subseteq {files.scope} /\ (Starts(files.scope) => d # {})
  /\ d # {} => \A s \in files.scope : s.ok

LoadedInv ==
  /\ pc = "off" => fw = {}
  /\ pc \in {"ruleset", "policy", "health", "trial", "idle"} => Bound(dhcp)
  /\ pc \in {"policy", "health", "trial", "idle"} /\ files.rule # {} => fw \in {files.rule, {}}

LEMMA LoadedInit == Init => LoadedInv
BY DEF Init, LoadedInv

LEMMA StartedIsBound ==
  ASSUME NEW d \in DhcpWith(files.scope)
  PROVE  Bound(d)
BY DEF DhcpWith, MayStart, Bound

\* Nothing but the address step gives a device its address, so dnsmasq that could not be
\* sure to start cannot be sure later on.
LEMMA BoundStays ==
  ASSUME Types, Bound(dhcp), files'.scope = files.scope, UNCHANGED dhcp,
         \A n \in Names : addr[n] = NoAddr => addr'[n] = NoAddr,
         \A n \in Plugged' \ Plugged : n \in Names => addr'[n] = NoAddr,
         Plugged' \subseteq Names
  PROVE  Bound(dhcp)'
<1>1. Starts(files.scope)' => Starts(files.scope)
  <2>1. SUFFICES ASSUME Starts(files.scope)' PROVE Starts(files.scope)
    OBVIOUS
  <2>2. files.scope # {} /\ \A s \in files.scope : s.ok /\ s.dev \in Plugged' /\ addr'[s.dev] # NoAddr
    BY <2>1 DEF Starts, MayStart
  <2>3. ASSUME NEW s \in files.scope PROVE s.ok /\ s.dev \in Plugged /\ addr[s.dev] # NoAddr
    BY <2>2
  <2>4. QED
    BY <2>2, <2>3 DEF Starts, MayStart
<1>2. QED
  BY <1>1 DEF Bound

LEMMA PluggedAreNames == Types => Plugged \subseteq Names
BY DEF Types, TypeOK, Plugged

LEMMA LoadedNext == Types /\ LoadedInv /\ [Next]_vars => LoadedInv'
<1> SUFFICES ASSUME Types, LoadedInv, [Next]_vars PROVE LoadedInv'
  OBVIOUS
<1> DEFINE same == UNCHANGED <<name, addr, dhcp>> /\ files'.scope = files.scope
<1>1. ASSUME same, Bound(dhcp) PROVE Bound(dhcp)'
  <2>1. UNCHANGED Plugged
    BY <1>1 DEF Plugged
  <2>2. QED
    BY <1>1, <2>1, BoundStays, PluggedAreNames
<1>2. ASSUME NEW list \in Lists, Request(list) \/ Refuse(list) PROVE LoadedInv'
  <2>1. UNCHANGED <<name, files, live>> /\ (pc' = "hostapd" \/ UNCHANGED pc)
    BY <1>2 DEF Request, Refuse, Stored, Stage, change
  <2>2. QED
    BY <1>1, <2>1 DEF LoadedInv, live
\* A boot that applies nothing finds no ruleset loaded and starts dnsmasq.
<1>3. CASE Boot
  <2>1. UNCHANGED <<name, files, addr, fw>> /\ pc = "off"
    BY <1>3 DEF Boot
  <2>2. \/ pc' = "hostapd"
        \/ pc' = "idle" /\ dhcp' \in DhcpWith(files.scope)
    BY <1>3 DEF Boot
  <2>3. dhcp' \in DhcpWith(files.scope) => Bound(dhcp)'
    BY <2>1, StartedIsBound DEF Bound, Starts, MayStart, Plugged
  <2>4. QED
    BY <2>1, <2>2, <2>3 DEF LoadedInv
<1>4. CASE Generate \/ Restore
  <2>1. pc' \in Generating \cup {"restore", "units"}
    BY <1>4
    DEF Generate, ClearHostapd, WriteHostapd, HostapdRaises, WriteDnsmasq, DnsmasqRaises,
        WriteNftables, NftablesRaises, Restore, Undo, Steps, Generating
  <2>2. QED
    BY <2>1 DEF LoadedInv, Generating
<1>5. CASE Reload
  <2> USE DEF LoadedInv, Steps, policy
  <2>1. CASE ReloadUnits \/ BringUp
    BY <2>1 DEF ReloadUnits, BringUp
  <2>2. CASE ReloadDnsmasq
    <3>1. /\ pc' = "ruleset" /\ UNCHANGED <<name, files, addr>>
          /\ dhcp' \in DhcpWith(files.scope)
      BY <2>2 DEF ReloadDnsmasq
    <3>2. Bound(dhcp)'
      BY <3>1, StartedIsBound DEF Bound, Starts, MayStart, Plugged
    <3>3. QED
      BY <3>1, <3>2
  <2>3. CASE ReloadNftables
    BY <1>1, <2>3 DEF ReloadNftables
  <2>4. CASE ReloadVpn
    BY <1>1, <2>4 DEF ReloadVpn
  <2>5. QED
    BY <1>5, <2>1, <2>2, <2>3, <2>4 DEF Reload
<1>6. CASE HealthPasses \/ HealthFails \/ Keep \/ Revert
  <2>1. /\ UNCHANGED <<name, files, live>>
        /\ pc \in {"health", "trial"} /\ pc' \in {"trial", "idle", "restore"}
    BY <1>6 DEF HealthPasses, HealthFails, Keep, Revert, Steps
  <2>2. QED
    BY <1>1, <2>1 DEF LoadedInv, live
<1>7. CASE RetryDnsmasq
  <2>1. MayStart(files.scope) /\ dhcp' = {files.scope} /\ UNCHANGED <<files, name, addr, pc, fw>>
    BY <1>7 DEF RetryDnsmasq, Disturb, change, policy
  <2>2. Bound(dhcp)'
    BY <2>1 DEF Bound, MayStart
  <2>3. QED
    BY <2>1, <2>2 DEF LoadedInv
<1>8. CASE RestartNet
  <2>1. fw' = {} /\ UNCHANGED <<files, name, addr, dhcp, pc>>
    BY <1>8 DEF RestartNet, Disturb, change
  <2>2. QED
    BY <1>1, <2>1 DEF LoadedInv
<1>9. CASE DoctorReads \/ DoctorClears \/ DoctorWrites
  <2>1. UNCHANGED <<pc, name, live>> /\ files'.scope = files.scope /\ files'.rule = files.rule
    BY <1>9
    DEF DoctorReads, DoctorClears, DoctorWrites, Examine, Disturb, change, Types, Shape, FileTypes
  <2>2. QED
    BY <1>1, <2>1 DEF LoadedInv, live
<1>10. CASE Reboot
  BY <1>10 DEF Reboot, LoadedInv
<1>11. ASSUME NEW r \in Radios, NEW n \in Names \cup {Gone}, Move(r, n) PROVE LoadedInv'
  <2> DEFINE kept == {name[s] : s \in Radios \ {r}}
             lost == {n} \cup ({name[r]} \ kept)
  <2>1. /\ name' = [name EXCEPT ![r] = n]
        /\ addr' = [m \in Names |-> IF m \in lost THEN NoAddr ELSE addr[m]]
        /\ UNCHANGED <<pc, files, dhcp, fw>>
    BY <1>11 DEF Move, Disturb, change
  <2>2. \A m \in Plugged' \ Plugged : m = n
    BY <2>1 DEF Plugged, Types, TypeOK
  <2>3. \A m \in Names : addr[m] = NoAddr => addr'[m] = NoAddr
    BY <2>1
  <2>4. \A m \in Plugged' \ Plugged : m \in Names => addr'[m] = NoAddr
    BY <2>1, <2>2
  <2>5. Plugged' \subseteq Names
    BY TypesNext, PluggedAreNames DEF Types, TypeOK, Plugged
  <2>6. Bound(dhcp) => Bound(dhcp)'
    BY <2>1, <2>3, <2>4, <2>5, BoundStays
  <2>7. QED
    BY <2>1, <2>6 DEF LoadedInv
<1>12. ASSUME NEW f \in wanted, RestartUnit(f) PROVE LoadedInv'
  <2>1. UNCHANGED <<pc, name, files, dhcp, fw>> /\ addr' = Flushed({f})
    BY <1>12 DEF RestartUnit, Disturb, change
  <2>2. \A m \in Names : addr[m] = NoAddr => addr'[m] = NoAddr
    BY <2>1 DEF Flushed
  <2>3. UNCHANGED Plugged
    BY <2>1 DEF Plugged
  <2>4. Bound(dhcp) => Bound(dhcp)'
    BY <2>1, <2>2, <2>3, BoundStays, PluggedAreNames
  <2>5. QED
    BY <2>1, <2>4 DEF LoadedInv
<1>13. CASE UNCHANGED vars
  BY <1>1, <1>13 DEF vars, change, live, LoadedInv
<1>14. QED
  BY <1>2, <1>3, <1>4, <1>5, <1>6, <1>7, <1>8, <1>9, <1>10, <1>11, <1>12, <1>13
  DEF Next, Decide, Aside

\* transaction.py:133-136: for any access points and any order of requests, doctors,
\* replugs and reboots, what dnsmasq and nft run between changes, also after one was
\* rolled back, is what the files say - or no ruleset, if restart-networking flushed it,
\* and no dnsmasq, while a range, a device or an address is missing.
THEOREM FilesAreInForce == Spec => []FilesRun
<1>1. LoadedInv => FilesRun
  BY DEF LoadedInv, FilesRun, Settled, Bound
<1>2. QED
  BY TypesInit, TypesNext, LoadedInit, LoadedNext, <1>1, PTL DEF Spec

---------------------------------------------------------------------------
(* A change that was kept                                                   *)

\* What was kept had passed the probe: dnsmasq ran, so no range was missing.
KeptInv == pc \in {"trial", "idle"} /\ why = "request" => \A s \in files.scope : s.ok

LEMMA KeptInit == Init => KeptInv
BY DEF Init, KeptInv

LEMMA KeptNext == Types /\ LoadedInv /\ KeptInv /\ [Next]_vars => KeptInv'
<1> SUFFICES ASSUME Types, LoadedInv, KeptInv, [Next]_vars,
                    pc' \in {"trial", "idle"}, why' = "request"
             PROVE  \A s \in files'.scope : s.ok
  BY DEF KeptInv
<1>1. ASSUME NEW list \in Lists, Request(list) \/ Refuse(list) PROVE KeptInv'
  BY <1>1, RefusalGoesBy DEF Request, Stage, change, KeptInv
<1>2. CASE Boot
  BY <1>2 DEF Boot, Types, Shape
<1>3. CASE HealthPasses
  <2>1. Healthy /\ pc = "health" /\ UNCHANGED <<files, why>>
    BY <1>3 DEF HealthPasses, Steps
  <2>2. QED
    BY <2>1 DEF Healthy, LoadedInv, Bound
<1>4. CASE Others /\ ~HealthPasses
  <2>1. AtWork' /\ pc' \in Scoped
    BY DEF AtWork, Scoped
  <2>2. ~WriteDnsmasq
    BY DEF WriteDnsmasq, Steps
  <2>3. files'.scope = files.scope /\ UNCHANGED why
    BY <1>4, <2>1, <2>2, PcOfOthers, ChangeGoesOn DEF AtWork
  <2>4. pc \in {"trial", "idle"}
    BY <1>4, <2>3
    DEF Others, Generate, ClearHostapd, WriteHostapd, HostapdRaises, WriteDnsmasq, DnsmasqRaises,
        WriteNftables, NftablesRaises, Reload, ReloadUnits, BringUp, ReloadDnsmasq, ReloadNftables,
        ReloadVpn, Decide, HealthFails, Keep, Revert, Restore, Undo, Aside, RetryDnsmasq, RestartNet,
        DoctorReads, DoctorClears, DoctorWrites, Examine, Reboot, Move, RestartUnit, Disturb, Steps,
        change, vars
  <2>5. QED
    BY <2>3, <2>4 DEF KeptInv
<1>5. QED
  BY <1>1, <1>2, <1>3, <1>4, OthersOf DEF KeptInv

LEMMA DrawnIsSound ==
  ASSUME NEW aps \in Seq(Design), NEW list \in Seq(Entry), Drawn(aps, list), Sound(Aps(list))
  PROVE  Sound(aps)
<1>1. PICK f \in [Enabled(aps) -> DOMAIN list] :
        \A i \in Enabled(aps) : /\ aps[i] = list[f[i]].ap
                                /\ \A j \in Enabled(aps) : f[i] = f[j] => i = j
  BY DEF Drawn
<1>2. \A i \in Enabled(aps) : f[i] \in Enabled(Aps(list)) /\ Aps(list)[f[i]] = aps[i]
  BY <1>1, EnabledOfList DEF Enabled
<1>3. ~OverCeiling(aps)
  <2>1. ASSUME NEW r \in Radios
        PROVE  ~ (Cardinality({i \in Enabled(aps) : aps[i].radio = r}) > Vifs[r])
    <3> DEFINE S == {i \in Enabled(aps) : aps[i].radio = r}
               X == {k \in Enabled(Aps(list)) : Aps(list)[k].radio = r}
               g == [i \in S |-> f[i]]
    <3>1. g \in Injection(S, X)
      <4>1. \A i \in S : g[i] \in X
        BY <1>2
      <4>2. \A i, j \in S : g[i] = g[j] => i = j
        BY <1>1
      <4>3. QED
        BY <4>1, <4>2 DEF Injection, IsInjective
    <3>2. IsFiniteSet(X)
      <4>1. Len(list) \in Nat /\ X \in SUBSET (1..Len(list))
        BY ListsAreSeqs, EnabledOfList
      <4>2. IsFiniteSet(1..Len(list))
        BY <4>1, FS_Interval
      <4>3. QED
        BY <4>1, <4>2, FS_Subset
    <3>3. ~ (Cardinality(X) > Vifs[r])
      BY DEF Sound, OverCeiling
    <3> HIDE DEF S, X, g
    <3>4. IsFiniteSet(S) /\ Cardinality(S) <= Cardinality(X)
      BY <3>1, <3>2, FS_Injection
    <3>5. Cardinality(S) \in Nat /\ Cardinality(X) \in Nat /\ Vifs[r] \in Nat
      BY <3>2, <3>4, FS_CardinalityType, CeilingsArePositive DEF CeilingsArePositive
    <3>6. ~ (Cardinality(S) > Vifs[r])
      BY <3>3, <3>4, <3>5
    <3>7. QED
      BY <3>6 DEF S
  <2>2. QED
    BY <2>1 DEF OverCeiling
<1>4. ~Overlap(aps)
  <2>1. ASSUME NEW i \in Enabled(aps), NEW j \in Enabled(aps), i # j
        PROVE  aps[i].net \cap aps[j].net = {}
    <3>1. f[i] # f[j]
      BY <1>1, <2>1
    <3>2. QED
      BY <1>2, <3>1 DEF Sound, Overlap
  <2>2. QED
    BY <2>1 DEF Overlap
<1>5. \A i \in Enabled(aps) : aps[i].flaw # "radio"
  BY <1>2 DEF Sound
<1>6. QED
  BY <1>3, <1>4, <1>5 DEF Sound

\* boot.py:85-91, validation.py:1-9: for any radios and lists, if the change that was kept
\* named every enabled row and nobody stored others since, then the next boot that finds
\* the radios there is neither refused nor made to raise by what is in the table.
THEOREM KeptSetsBoot == Spec => []KeptSetBoots
<1>1. Types /\ StagedInv /\ TableInv /\ WrittenInv /\ KeptInv => KeptSetBoots
  <2> SUFFICES ASSUME Types, StagedInv, TableInv, WrittenInv, KeptInv,
                      pc = "idle", why = "request", disturbed \cap {"rows", "table", "later"} = {},
                      \A i \in Enabled(rows) : Dev(rows[i]) # Gone
               PROVE  /\ ~Blocked(rows)
                      /\ \A i \in Enabled(rows) : rows[i].net # NoAddr /\ rows[i].flaw = "none"
    BY DEF KeptSetBoots
  <2>1. rows \in Seq(Design) /\ req \in Seq(Entry) /\ Drawn(rows, req) /\ Sound(Aps(req))
    BY DEF Types, TypeOK, TableInv, StagedInv, AtWork
  <2>2. Sound(rows) /\ ~NoTunnel(rows)
    BY <2>1, DrawnIsSound DEF TableInv, NoTunnel
  <2>3. ~Blocked(rows)
    BY <2>2 DEF Blocked, Unusable, Sound
  <2>4. ASSUME NEW i \in Enabled(rows) PROVE rows[i].net # NoAddr /\ rows[i].flaw = "none"
    <3>1. PICK k \in DOMAIN req : rows[i] = req[k].ap
      BY <2>1 DEF Drawn
    <3>2. k \in Ons /\ Ap(k) = rows[i]
      BY <3>1, EnabledOfList DEF Ons, Ap, Enabled
    <3>3. rows[i].net # NoAddr /\ \E s \in files.scope : s.ok = (rows[i].flaw # "leases")
      BY <3>2 DEF WrittenInv, AtWork, Scoped
    <3>4. rows[i].flaw # "leases"
      BY <3>3 DEF KeptInv
    <3>5. rows[i].flaw # "radio" /\ rows[i].flaw # "tunnel"
      BY <2>2 DEF Sound, TableInv, Enabled
    <3>6. rows[i].flaw \in {"none", "radio", "tunnel", "leases"}
      BY <2>1, ListsAreSeqs DEF Enabled, Design
    <3>7. QED
      BY <3>3, <3>4, <3>5, <3>6
  <2>5. QED
    BY <2>3, <2>4
<1>2. QED
  BY TypesInit, TypesNext, StagedInit, StagedNext, TableInit, TableNext, WrittenInit, WrittenNext,
     LoadedInit, LoadedNext, KeptInit, KeptNext, <1>1, PTL DEF Spec

---------------------------------------------------------------------------
(* The generated files agree                                                *)

\* Under a ceiling of one, a radio has one enabled access point.
LEMMA OnePerRadio ==
  ASSUME NEW n \in Nat, NEW aps, DOMAIN aps \subseteq 1..n, ~OverCeiling(aps),
         NEW i \in Enabled(aps), NEW j \in Enabled(aps),
         aps[i].radio = aps[j].radio, aps[i].radio \in Radios, Vifs[aps[i].radio] = 1
  PROVE  i = j
<1> DEFINE r == aps[i].radio
           S == {k \in Enabled(aps) : aps[k].radio = r}
<1>1. Cardinality(S) <= 1 /\ IsFiniteSet(S)
  <2>1. S \in SUBSET (1..n) /\ IsFiniteSet(1..n)
    BY FS_Interval DEF Enabled
  <2>2. IsFiniteSet(S)
    BY <2>1, FS_Subset
  <2>3. Cardinality(S) \in Nat /\ ~ (Cardinality(S) > Vifs[r])
    BY <2>2, FS_CardinalityType DEF OverCeiling
  <2>4. QED
    BY <2>2, <2>3
<1>2. {i} \in SUBSET S /\ j \in S
  OBVIOUS
<1> HIDE DEF S
<1>3. Cardinality({i}) = 1
  BY FS_Singleton
<1>4. Cardinality({i}) <= Cardinality(S) /\ (Cardinality(S) = Cardinality({i}) => S = {i})
  BY <1>1, <1>2, FS_Subset
<1>5. Cardinality(S) \in Nat
  BY <1>1, FS_CardinalityType
<1>6. S = {i}
  BY <1>1, <1>3, <1>4, <1>5
<1>7. QED
  BY <1>2, <1>6

\* Then no device has two, unless two adapters share a name.
LEMMA OnePerDevice ==
  ASSUME Types, StagedInv, AtWork, disturbed \cap {"move", "names"} = {},
         \A r \in Radios : Vifs[r] = 1,
         NEW j \in Ons, NEW k \in Ons, Dev(Ap(j)) = Dev(Ap(k))
  PROVE  j = k
<1>1. Len(req) \in Nat /\ DOMAIN Aps(req) = 1..Len(req) /\ \A i \in DOMAIN req : req[i].ap \in Design
  BY ListsAreSeqs, EnabledOfList DEF Types, TypeOK
<1>2. Ap(j) \in Design /\ Ap(k) \in Design /\ Aps(req)[j] = Ap(j) /\ Aps(req)[k] = Ap(k)
  BY <1>1, EnabledOfList DEF Ons, Ap
<1>3. Dev(Ap(j)) # Gone /\ ~Ambiguous /\ ~OverCeiling(Aps(req))
  BY DEF StagedInv, Sound
<1>4. Ap(j).radio \in Radios /\ Ap(k).radio \in Radios
  BY <1>2 DEF Design
<1>5. Ap(j).radio = Ap(k).radio
  BY <1>3, <1>4 DEF Ambiguous, Dev
<1>6. QED
  BY <1>1, <1>2, <1>3, <1>4, <1>5, OnePerRadio DEF Ons

\* What a clean generator has written of the first n entries, and of their scopes.
ConfUpTo(n) ==
  /\ \A g \in DOMAIN files.conf : \E k \in Ons : k <= n /\ g = File(req[k])
  /\ \A k \in Ons : k <= n => /\ File(req[k]) \in DOMAIN files.conf
                              /\ files.conf[File(req[k])] = Dev(Ap(k))

ScopeOf(k) == [dev |-> Dev(Ap(k)), net |-> Ap(k).net, ok |-> Ap(k).flaw # "leases"]

FilesInv ==
  /\ Agree(files) /\ Agree(snap)
  /\ pc \in {"confs", "dnsmasq", "nftables"} => ~files.clean
  /\ Clean =>
       /\ pc = "confs" => ConfUpTo(done)
       /\ pc \in {"dnsmasq", "nftables"} => ConfUpTo(Len(req))
       /\ pc = "nftables" => files.scope = {ScopeOf(k) : k \in Ons}

LEMMA NothingAgrees == Agree(NoFiles)
BY DEF Agree, NoFiles, NoConf

LEMMA UncleanAgrees ==
  ASSUME NEW f, ~f.clean
  PROVE  Agree(f)
BY DEF Agree

LEMMA FilesInit == Init => FilesInv
BY NothingAgrees DEF Init, FilesInv

\* Positions of a list, and those it is through with.
LEMMA Positions ==
  ASSUME Types
  PROVE  /\ Len(req) \in Nat /\ done \in Nat
         /\ \A k \in Ons : k \in Nat /\ 1 <= k /\ k <= Len(req) /\ req[k].ap.on
         /\ pc = "confs" => done + 1 \in DOMAIN req /\ done + 1 <= Len(req)
         /\ \A k \in DOMAIN req : req[k].ap.on => k \in Ons
<1>1. Len(req) \in Nat /\ DOMAIN req = 1..Len(req) /\ done \in Nat /\ (pc = "confs" => done < Len(req))
  BY ListsAreSeqs DEF Types, TypeOK
<1>2. Ons = {k \in DOMAIN req : req[k].ap.on}
  BY EnabledOfList DEF Ons
<1>3. QED
  BY <1>1, <1>2

\* One file more.
LEMMA OneFileMore ==
  ASSUME Types, StagedInv, WriteHostapd, Clean, ConfUpTo(done), ~files.clean,
         CONSTANT k, k = done + 1
  PROVE  ConfUpTo(k)' /\ ~files'.clean
<1> DEFINE e == req[k]
<1>1. /\ pc = "confs" /\ UNCHANGED <<name, req>>
      /\ files' = IF Written(e) THEN [files EXCEPT !.conf = With(@, File(e), Dev(e.ap))] ELSE files
  BY DEF WriteHostapd, Steps
<1>2. AtWork /\ FilesDiffer(req) /\ (\A j \in Ons : Dev(Ap(j)) # Gone)
  BY <1>1 DEF Types, Shape, Generating, AtWork, StagedInv, Clean
<1>3. /\ k \in DOMAIN req /\ done \in Nat /\ e.ap = Ap(k) /\ (e.ap.on <=> k \in Ons)
      /\ \A j \in Ons : j \in Nat /\ (j <= k <=> j <= done \/ j = k)
  BY <1>1, Positions DEF Ap
<1>4. Ons' = Ons /\ \A j \in Ons : Ap(j)' = Ap(j) /\ Dev(Ap(j))' = Dev(Ap(j))
  BY <1>1 DEF Ons, Ap, Dev
<1>5. Written(e) <=> k \in Ons
  BY <1>2, <1>3 DEF Written
<1> HIDE DEF e
<1>6. CASE k \in Ons
  <2>1. /\ files'.conf = With(files.conf, File(e), Dev(e.ap))
        /\ files'.clean = files.clean /\ files'.scope = files.scope
    BY <1>1, <1>5, <1>6 DEF Types, Shape, FileTypes
  <2>2. /\ DOMAIN files'.conf = DOMAIN files.conf \cup {File(e)}
        /\ \A g \in DOMAIN files.conf \cup {File(e)} :
             files'.conf[g] = IF g = File(e) THEN Dev(e.ap) ELSE files.conf[g]
    BY <2>1 DEF With
  <2>3. \A j \in Ons : j # k => File(req[j]) # File(e)
    BY <1>2, <1>6 DEF FilesDiffer, Ons, e
  <2>4. \A g \in DOMAIN files'.conf : \E j \in Ons : j <= k /\ g = File(req[j])
    BY <1>3, <1>6, <2>2 DEF ConfUpTo, e
  <2>5. \A j \in Ons : j <= k => /\ File(req[j]) \in DOMAIN files'.conf
                                /\ files'.conf[File(req[j])] = Dev(Ap(j))
    BY <1>3, <1>6, <2>2, <2>3 DEF ConfUpTo, e
  <2>6. /\ \A g \in DOMAIN files'.conf : \E j \in Ons' : j <= k /\ g = File(req'[j])
        /\ \A j \in Ons' : j <= k => /\ File(req'[j]) \in DOMAIN files'.conf
                                     /\ files'.conf[File(req'[j])] = Dev(Ap(j))'
    BY <1>1, <1>4, <2>4, <2>5
  <2>7. QED
    BY <2>1, <2>6 DEF ConfUpTo
<1>7. CASE k \notin Ons
  <2>1. files' = files
    BY <1>1, <1>5, <1>7
  <2>2. /\ \A g \in DOMAIN files.conf : \E j \in Ons : j <= k /\ g = File(req[j])
        /\ \A j \in Ons : j <= k => /\ File(req[j]) \in DOMAIN files.conf
                                    /\ files.conf[File(req[j])] = Dev(Ap(j))
    BY <1>3, <1>7 DEF ConfUpTo
  <2>3. QED
    BY <1>1, <1>4, <2>1, <2>2 DEF ConfUpTo
<1>8. QED
  BY <1>6, <1>7

\* Between the first file and the last nothing is claimed of the files themselves.
LEMMA FilesStay ==
  ASSUME FilesInv, UNCHANGED <<files, snap, name, req, done, pc>>, disturbed \subseteq disturbed'
  PROVE  FilesInv'
<1>1. Clean' => Clean
  BY DEF Clean
<1>2. /\ \A n : ConfUpTo(n) => ConfUpTo(n)'
      /\ Len(req)' = Len(req) /\ Ons' = Ons /\ \A k : ScopeOf(k)' = ScopeOf(k)
  BY DEF ConfUpTo, ScopeOf, Ons, Ap, Dev
<1>3. {ScopeOf(k) : k \in Ons}' = {ScopeOf(k) : k \in Ons}
  BY <1>2
<1>4. QED
  BY <1>1, <1>2, <1>3 DEF FilesInv

LEMMA FilesAside ==
  ASSUME FilesInv, files' \in {files, snap}, snap' \in {files, snap, NoFiles},
         pc' \notin {"confs", "dnsmasq", "nftables"}
  PROVE  FilesInv'
<1>1. Agree(files)' /\ Agree(snap)'
  BY NothingAgrees DEF FilesInv
<1>2. QED
  BY <1>1 DEF FilesInv

LEMMA FilesGenerated == Types /\ StagedInv /\ FilesInv /\ Generate => FilesInv'
<1> SUFFICES ASSUME Types, StagedInv, FilesInv, Generate PROVE FilesInv'
  OBVIOUS
<1> USE DEF Steps
<1>1. Len(req) \in Nat /\ \A k \in Ons : k \in Nat /\ 1 <= k /\ k <= Len(req)
  BY Positions
<1>2. FileTypes(files)
  BY DEF Types, Shape
<1>3. ASSUME UNCHANGED <<name, req, disturbed>>
      PROVE  Clean' = Clean /\ Ons' = Ons /\ \A k : ScopeOf(k)' = ScopeOf(k)
  BY <1>3 DEF Clean, ScopeOf, Ons, Ap, Dev
<1>4. ASSUME ~files'.clean, UNCHANGED snap, pc' \in {"confs", "dnsmasq"},
             Clean' => IF pc' = "confs" THEN ConfUpTo(done)' ELSE ConfUpTo(Len(req))'
      PROVE  FilesInv'
  BY <1>4, UncleanAgrees DEF FilesInv
<1>5. CASE ClearHostapd
  <2>1. /\ pc = "hostapd" /\ pc' = IF req = <<>> THEN "dnsmasq" ELSE "confs"
        /\ files' = [files EXCEPT !.conf = NoConf, !.clean = FALSE]
        /\ UNCHANGED <<name, req, disturbed, done, snap>>
    BY <1>5 DEF ClearHostapd
  <2>2. files'.conf = NoConf /\ ~files'.clean /\ DOMAIN NoConf = {}
    BY <1>2, <2>1 DEF FileTypes, NoConf
  <2>3. done' = 0
    BY <2>1 DEF Types, TypeOK
  <2>4. ASSUME CONSTANT n, \A k \in Ons : ~ (k <= n) PROVE ConfUpTo(n)'
    <3>1. Ons' = Ons
      BY <1>3, <2>1
    <3>2. QED
      BY <2>2, <2>4, <3>1 DEF ConfUpTo
  <2>5. pc' = "confs" => ConfUpTo(done)'
    <3>1. ConfUpTo(0)'
      BY <1>1, <2>4
    <3>2. QED
      BY <2>3, <3>1 DEF ConfUpTo
  <2>6. pc' = "dnsmasq" => ConfUpTo(Len(req))'
    <3>1. SUFFICES ASSUME req = <<>> PROVE ConfUpTo(Len(req))'
      BY <2>1
    <3>2. Len(req) = 0 /\ Len(req)' = 0
      BY <2>1, <3>1
    <3>3. ConfUpTo(0)'
      BY <1>1, <2>4
    <3>4. QED
      BY <3>2, <3>3 DEF ConfUpTo
  <2>7. QED
    BY <1>4, <2>1, <2>2, <2>5, <2>6
<1>6. CASE WriteHostapd
  <2>1. PICK k : k = done + 1
    OBVIOUS
  <2>2. /\ pc = "confs" /\ pc' = IF k = Len(req) THEN "dnsmasq" ELSE "confs"
        /\ done' = IF k = Len(req) THEN 0 ELSE k
        /\ \/ files' = files
           \/ \E conf : files' = [files EXCEPT !.conf = conf]
        /\ UNCHANGED <<name, req, disturbed, snap>>
    BY <1>6, <2>1 DEF WriteHostapd
  <2>3. ~files'.clean
    BY <1>2, <2>2 DEF FilesInv, FileTypes
  <2>4. Clean => ConfUpTo(k)'
    BY <1>6, <2>1, <2>2, OneFileMore DEF FilesInv
  <2>5. Clean => IF pc' = "confs" THEN ConfUpTo(done)' ELSE ConfUpTo(Len(req))'
    <3>1. IF pc' = "confs" THEN done' = k ELSE Len(req)' = k
      BY <2>2
    <3>2. QED
      BY <2>4, <3>1 DEF ConfUpTo
  <2>6. QED
    BY <1>3, <1>4, <2>2, <2>3, <2>5
<1>7. CASE HostapdRaises \/ DnsmasqRaises \/ NftablesRaises
  <2>1. UNCHANGED <<files, snap>> /\ pc' = "restore"
    BY <1>7 DEF HostapdRaises, DnsmasqRaises, NftablesRaises
  <2>2. QED
    BY <2>1, FilesAside
<1>8. CASE WriteDnsmasq
  <2> DEFINE scope == {[dev |-> OrWlan0(Ap(k)), net |-> Ap(k).net, ok |-> Ap(k).flaw # "leases"] : k \in Ons}
  <2>1. /\ pc = "dnsmasq" /\ pc' = "nftables" /\ files' = [files EXCEPT !.scope = scope]
        /\ UNCHANGED <<name, req, disturbed, snap>>
    BY <1>8 DEF WriteDnsmasq
  <2>2. files'.scope = scope /\ files'.conf = files.conf /\ files'.clean = files.clean
    BY <1>2, <2>1 DEF FileTypes
  <2>3. ~files'.clean /\ Clean' = Clean /\ Ons' = Ons /\ \A k : ScopeOf(k)' = ScopeOf(k)
    BY <1>3, <2>1, <2>2 DEF FilesInv
  <2>4. ASSUME Clean PROVE scope = {ScopeOf(k) : k \in Ons}
    <3>1. \A k \in Ons : Dev(Ap(k)) # Gone
      BY <2>1, <2>4 DEF StagedInv, AtWork, Types, Shape, Generating, Clean
    <3>2. \A k \in Ons : OrWlan0(Ap(k)) = Dev(Ap(k))
      BY <3>1 DEF OrWlan0
    <3>3. QED
      BY <3>2 DEF ScopeOf
  <2>5. Clean => ConfUpTo(Len(req))'
    <3>1. Clean => ConfUpTo(Len(req))
      BY <2>1 DEF FilesInv
    <3>2. ConfUpTo(Len(req)) => ConfUpTo(Len(req))'
      BY <2>1, <2>2 DEF ConfUpTo, Ons, Ap, Dev
    <3>3. QED
      BY <3>1, <3>2
  <2>6. Clean => files'.scope = {ScopeOf(k)' : k \in Ons'}
    BY <2>2, <2>3, <2>4
  <2>7. QED
    <3>1. Agree(files)' /\ Agree(snap)'
      BY <2>1, <2>3, UncleanAgrees DEF FilesInv
    <3>2. QED
      BY <2>1, <2>3, <2>5, <2>6, <3>1 DEF FilesInv
<1>9. CASE WriteNftables
  <2> DEFINE rule == {[dev |-> OrWlan0(Ap(k)), policy |-> Ap(k).policy, mark |-> req[k].id] : k \in Ons}
  <2>1. /\ pc = "nftables" /\ pc' = "units"
        /\ files' = [files EXCEPT !.clean = Clean, !.rule = rule] /\ UNCHANGED snap
    BY <1>9 DEF WriteNftables
  <2>2. /\ files'.rule = rule /\ files'.clean = Clean
        /\ files'.conf = files.conf /\ files'.scope = files.scope
    BY <1>2, <2>1 DEF FileTypes
  <2>3. ASSUME Clean PROVE Agree(files')
    <3> DEFINE devs == {Dev(Ap(k)) : k \in Ons}
    <3>1. AtWork /\ disturbed \cap {"move", "names"} = {} /\ \A k \in Ons : Dev(Ap(k)) # Gone
      BY <2>1, <2>3 DEF StagedInv, AtWork, Types, Shape, Generating, Clean
    <3>2. ConfUpTo(Len(req)) /\ files.scope = {ScopeOf(k) : k \in Ons}
      BY <2>1, <2>3 DEF FilesInv
    <3>3. {files'.conf[g] : g \in DOMAIN files'.conf} = devs
      <4>1. \A g \in DOMAIN files.conf : \E k \in Ons : files.conf[g] = Dev(Ap(k))
        BY <3>2 DEF ConfUpTo
      <4>2. \A k \in Ons : \E g \in DOMAIN files.conf : files.conf[g] = Dev(Ap(k))
        BY <1>1, <3>2 DEF ConfUpTo
      <4>3. QED
        BY <2>2, <4>1, <4>2
    <3>4. {s.dev : s \in files'.scope} = devs
      <4>1. \A k \in Ons : ScopeOf(k).dev = Dev(Ap(k))
        BY DEF ScopeOf
      <4>2. QED
        BY <2>2, <3>2, <4>1
    <3>5. {x.dev : x \in files'.rule} = devs
      <4>1. \A k \in Ons : OrWlan0(Ap(k)) = Dev(Ap(k))
        BY <3>1 DEF OrWlan0
      <4>2. {OrWlan0(Ap(k)) : k \in Ons} = devs
        BY <4>1
      <4>3. \A k \in Ons : [dev |-> OrWlan0(Ap(k)), policy |-> Ap(k).policy, mark |-> req[k].id].dev
                           = OrWlan0(Ap(k))
        OBVIOUS
      <4>4. {x.dev : x \in rule} = {OrWlan0(Ap(k)) : k \in Ons}
        BY <4>3
      <4>5. QED
        BY <2>2, <4>2, <4>4
    <3>6. ASSUME \A r \in Radios : Vifs[r] = 1
          PROVE  /\ \A g, h \in DOMAIN files'.conf : files'.conf[g] = files'.conf[h] => g = h
                 /\ \A s, t \in files'.scope : s.dev = t.dev => s = t
      <4>1. \A j, k \in Ons : Dev(Ap(j)) = Dev(Ap(k)) => j = k
        BY <3>1, <3>6, OnePerDevice
      <4>2. \A g \in DOMAIN files.conf : \E k \in Ons : g = File(req[k]) /\ files.conf[g] = Dev(Ap(k))
        BY <3>2 DEF ConfUpTo
      <4>3. \A s \in files.scope : \E k \in Ons : s = ScopeOf(k) /\ s.dev = Dev(Ap(k))
        BY <3>2 DEF ScopeOf
      <4>4. ASSUME NEW g \in DOMAIN files.conf, NEW h \in DOMAIN files.conf, files.conf[g] = files.conf[h]
            PROVE  g = h
        BY <4>1, <4>2, <4>4
      <4>5. ASSUME NEW s \in files.scope, NEW t \in files.scope, s.dev = t.dev PROVE s = t
        BY <4>1, <4>3, <4>5
      <4>6. QED
        BY <2>2, <4>4, <4>5
    <3>7. QED
      BY <3>3, <3>4, <3>5, <3>6 DEF Agree
  <2>4. Agree(files')
    BY <2>2, <2>3, UncleanAgrees
  <2>5. QED
    BY <2>1, <2>4 DEF FilesInv
<1>10. QED
  BY <1>5, <1>6, <1>7, <1>8, <1>9 DEF Generate

LEMMA FilesNext == Types /\ StagedInv /\ FilesInv /\ [Next]_vars => FilesInv'
<1> SUFFICES ASSUME Types, StagedInv, FilesInv, [Next]_vars PROVE FilesInv'
  OBVIOUS
<1> USE DEF Steps
<1>1. ASSUME NEW list \in Lists, Request(list) PROVE FilesInv'
  <2>1. UNCHANGED files /\ snap' = files /\ pc' = "hostapd"
    BY <1>1 DEF Request, Stage, Stored
  <2>2. QED
    BY <2>1, FilesAside
<1>2. ASSUME NEW list \in Lists, Refuse(list) PROVE FilesInv'
  BY <1>2, RefusalGoesBy, FilesStay DEF change, Noted
<1>3. CASE Boot
  <2>1. UNCHANGED files /\ snap' \in {files, snap} /\ pc' \in {"hostapd", "idle"}
    BY <1>3 DEF Boot
  <2>2. QED
    BY <2>1, FilesAside
<1>4. CASE Reload
  <2>1. /\ UNCHANGED <<files, snap>>
        /\ pc' \in {"addresses", "dhcp", "ruleset", "policy", "health", "idle"}
    BY <1>4 DEF Reload, ReloadUnits, BringUp, ReloadDnsmasq, ReloadNftables, ReloadVpn
  <2>2. QED
    BY <2>1, FilesAside
<1>5. CASE Decide
  <2>1. /\ files' \in {files, snap} /\ snap' \in {snap, NoFiles}
        /\ pc' \in {"idle", "trial", "restore", "units"}
    BY <1>5 DEF Decide, HealthPasses, HealthFails, Keep, Revert, Restore, Undo
  <2>2. QED
    BY <2>1, FilesAside
<1>6. CASE RetryDnsmasq \/ RestartNet \/ DoctorReads
  <2>1. UNCHANGED <<files, snap, name, req, done, pc>> /\ disturbed \subseteq disturbed'
    BY <1>6 DEF RetryDnsmasq, RestartNet, DoctorReads, Disturb, change, Noted
  <2>2. QED
    BY <2>1, FilesStay
<1>7. ASSUME NEW conf, NEW k, Examine(conf, k) PROVE FilesInv'
  <2>1. /\ files' = [files EXCEPT !.conf = conf, !.clean = FALSE] /\ UNCHANGED <<pc, snap>>
        /\ disturbed' = Noted(Noticed)
    BY <1>7 DEF Examine, Disturb, change
  <2>2. ~files'.clean
    BY <2>1 DEF Types, Shape, FileTypes
  <2>3. pc \in {"confs", "dnsmasq", "nftables"} => ~Clean'
    BY <2>1 DEF Noted, Noticed, Clean, Types, Shape, Generating
  <2>4. QED
    BY <2>1, <2>2, <2>3, UncleanAgrees DEF FilesInv
<1>8. CASE Reboot
  <2>1. UNCHANGED files /\ snap' = NoFiles /\ pc' = "off"
    BY <1>8 DEF Reboot
  <2>2. QED
    BY <2>1, FilesAside
<1>9. ASSUME NEW r \in Radios, NEW n \in Names \cup {Gone}, Move(r, n) PROVE FilesInv'
  <2>1. UNCHANGED <<files, change>> /\ disturbed' = Noted({"move"})
    BY <1>9 DEF Move, Disturb
  <2>2. CASE pc \in {"confs", "dnsmasq", "nftables"}
    <3>1. ~Clean'
      BY <2>1, <2>2 DEF Noted, Clean, Types, Shape, Generating
    <3>2. QED
      BY <2>1, <3>1 DEF FilesInv, change
  <2>3. CASE pc \notin {"confs", "dnsmasq", "nftables"}
    BY <2>1, <2>3, FilesAside DEF change
  <2>4. QED
    BY <2>2, <2>3
<1>10. ASSUME NEW f \in wanted, RestartUnit(f) PROVE FilesInv'
  <2>1. UNCHANGED <<files, snap, name, req, done, pc>> /\ disturbed \subseteq disturbed'
    BY <1>10 DEF RestartUnit, Disturb, change, Noted
  <2>2. QED
    BY <2>1, FilesStay
<1>11. CASE UNCHANGED vars
  BY <1>11, FilesStay DEF vars, change
<1>12. QED
  BY <1>1, <1>2, <1>3, <1>4, <1>5, <1>6, <1>7, <1>8, <1>9, <1>10, <1>11, FilesGenerated
  DEF Next, Aside, DoctorClears, DoctorWrites

\* hostapd.py:28-29, apctl.py:9-11: for any radios and lists, unless an adapter moves,
\* the doctor writes, two adapters are listed under one name or two access points of a
\* change share a file, the three generators configure the same devices and no device
\* has two hostapds - in what a rollback brings back as well.
THEOREM GeneratorsAgree == Spec => []FilesAgree
<1>1. FilesInv => FilesAgree
  BY DEF FilesInv, FilesAgree
<1>2. QED
  BY TypesInit, TypesNext, StagedInit, StagedNext, FilesInit, FilesNext, <1>1, PTL DEF Spec

---------------------------------------------------------------------------
(* The course of a change                                                   *)

LEMMA CourseNext ==
  ASSUME Types, [Next]_vars
  PROVE  [Course!Next]_(Course!cvars)
<1> USE DEF Types, Shape, Generating, Reloading, Steps, CourseAt, CourseBy, Course!Go
<1>1. ASSUME UNCHANGED <<pc, why>> PROVE UNCHANGED Course!cvars
  BY <1>1 DEF Course!cvars
<1>2. ASSUME NEW list \in Lists, Request(list) PROVE Course!Request
  BY <1>2 DEF Request, Stage, Course!Request
<1>3. ASSUME NEW list \in Lists, Refuse(list) PROVE UNCHANGED Course!cvars
  BY <1>1, <1>3, RefusalGoesBy DEF change
<1>4. CASE Boot
  BY <1>4 DEF Boot, Course!BootUp, Course!Next
\* hostapd's files are one step of the course, so all but the last write stutter.
<1>5. CASE ClearHostapd \/ WriteHostapd
  <2>1. /\ pc \in {"hostapd", "confs"} /\ pc' \in {"confs", "dnsmasq"} /\ UNCHANGED why
        /\ why \in {"request", "boot"}
    BY <1>5 DEF ClearHostapd, WriteHostapd, TypeOK
  <2>2. CASE pc' = "confs"
    BY <2>1, <2>2 DEF Course!cvars
  <2>3. CASE pc' = "dnsmasq"
    <3>1. Course!Write
      BY <2>1, <2>3 DEF Course!Write, Course!After
    <3>2. QED
      BY <3>1 DEF Course!Next
  <2>4. QED
    BY <2>1, <2>2, <2>3
<1>6. CASE WriteDnsmasq \/ WriteNftables
  BY <1>6 DEF WriteDnsmasq, WriteNftables, Course!Write, Course!After, Course!Next
<1>7. CASE HostapdRaises \/ DnsmasqRaises \/ NftablesRaises
  BY <1>7 DEF HostapdRaises, DnsmasqRaises, NftablesRaises, Course!Raise, Course!After, Course!Next
<1>8. CASE ReloadUnits \/ BringUp \/ ReloadDnsmasq \/ ReloadNftables
  BY <1>8 DEF ReloadUnits, BringUp, ReloadDnsmasq, ReloadNftables, Course!cvars
<1>9. CASE ReloadVpn
  BY <1>9 DEF ReloadVpn, Course!Reload, Course!Rereload, Course!Next
<1>10. CASE HealthPasses
  BY <1>10 DEF HealthPasses, Course!Pass, Course!Next
<1>11. CASE HealthFails
  BY <1>11 DEF HealthFails, Course!Reject, Course!Next
<1>12. CASE Keep
  BY <1>12 DEF Keep, Course!Keep, Course!Next
<1>13. CASE Revert
  BY <1>13 DEF Revert, Course!Revert, Course!Next
<1>14. CASE Restore
  BY <1>14 DEF Restore, Undo, Course!Restore, Course!Next
<1>15. CASE Reboot
  BY <1>15 DEF Reboot, Course!Reboot, Course!Next
<1>16. CASE RetryDnsmasq \/ RestartNet \/ DoctorReads \/ DoctorClears \/ DoctorWrites
  BY <1>1, <1>16
  DEF RetryDnsmasq, RestartNet, DoctorReads, DoctorClears, DoctorWrites, Examine, Disturb, change
<1>17. ASSUME NEW r \in Radios, NEW n \in Names \cup {Gone}, Move(r, n) PROVE UNCHANGED Course!cvars
  BY <1>1, <1>17 DEF Move, Disturb, change
<1>18. ASSUME NEW f \in wanted, RestartUnit(f) PROVE UNCHANGED Course!cvars
  BY <1>1, <1>18 DEF RestartUnit, Disturb, change
<1>19. CASE UNCHANGED vars
  BY <1>1, <1>19 DEF vars, change
<1>20. QED
  BY <1>2, <1>3, <1>4, <1>5, <1>6, <1>7, <1>8, <1>9, <1>10, <1>11, <1>12, <1>13, <1>14,
     <1>15, <1>16, <1>17, <1>18, <1>19
  DEF Next, Generate, Reload, Decide, Aside, Course!Next

\* transaction.py:31, 73-75: access point by access point, a change takes the course that
\* all threads together are shown to take by ThreadsTakeOneCourse of TransactionProofs,
\* where requests do not overlap and only the calls raise that may.
THEOREM AccessPointsTakeThatCourse == Spec => FollowsCourse
<1>1. Init => Course!Init
  BY DEF Init, Course!Init, CourseAt, CourseBy
<1>2. QED
  BY TypesInit, TypesNext, CourseNext, <1>1, PTL DEF Spec, FollowsCourse, Course!Spec

---------------------------------------------------------------------------
(* Marks and routing rules                                                  *)

\* A list of known ids, each there once, while nobody else stores rows.
Known   == disturbed \cap {"new", "ids", "table"} = {}
Routing == {"health", "trial", "idle"}

RowsAreOfList == \A k \in DOMAIN req : req[k].id \in DOMAIN rows /\ rows[req[k].id] = Ap(k)

RulesAreOfList ==
  \A k \in DOMAIN req :
    /\ req[k].id \in ruled <=> Ap(k).policy \in Routed
    /\ Ap(k).policy = "isolated" => req[k].id \in holes

MarksAreOfList == \A x \in files.rule : \E k \in Ons : x.policy = Ap(k).policy /\ x.mark = req[k].id

\* Until the policy rules are reloaded the rows are those of the change, from then on
\* the rules; the ruleset is of the change, and a boot begins with none loaded.
RoutesInv ==
  AtWork =>
    /\ pc \in Generating \cup Reloading /\ Known => RowsAreOfList
    /\ pc \in Routing /\ Known => RulesAreOfList
    /\ pc \in Reloading \cup Routing => MarksAreOfList
    /\ why = "boot" /\ pc \in Generating \cup {"units", "addresses", "dhcp", "ruleset"} => fw = {}
    /\ \/ why = "boot" /\ pc \in {"policy", "health"}
       \/ pc \in {"trial", "idle"}
       => fw \in {files.rule, {}}

LEMMA RoutesInit == Init => RoutesInv
BY DEF Init, RoutesInv, AtWork

\* Entries that name the rows, each its own, are what those rows hold afterwards.
LEMMA KnownAreStored ==
  ASSUME rows \in Seq(Design), NEW list \in Seq(Entry), NEW ids \in NewIds(list),
         "new" \notin Doubts(list), "ids" \notin Doubts(list), NEW k \in DOMAIN list
  PROVE  list[k].id \in DOMAIN Merge(list, ids) /\ Merge(list, ids)[list[k].id] = list[k].ap
<1>1. DOMAIN ids = {}
  <2>1. DOMAIN ids = {j \in DOMAIN list : ~Given(list[j])}
    BY NewIdsAreNext
  <2>2. \A j \in DOMAIN list : Given(list[j])
    BY DoubtsSay
  <2>3. QED
    BY <2>1, <2>2
<1>2. list[k].id \in DOMAIN rows /\ \A j \in DOMAIN list : list[j].id = list[k].id => j = k
  <2>1. \A j \in DOMAIN list : Given(list[j])
    BY DoubtsSay
  <2>2. QED
    BY <2>1, DoubtsSay
<1>3. Writers(list, ids, list[k].id) = {k}
  BY <1>1, <1>2 DEF Writers, Row
<1>4. DOMAIN rows \subseteq DOMAIN Merge(list, ids)
  BY MergedRows
<1>5. list[k].id \in DOMAIN Merge(list, ids)
  BY <1>2, <1>4
<1>6. QED
  BY <1>3, <1>5, MergedRows

\* Where the change stands the same, and its rows, rules and ruleset do.
LEMMA RoutesStay ==
  ASSUME Types, RoutesInv, UNCHANGED <<req, pc, why, ruled, holes>>, disturbed \subseteq disturbed',
         Known' => UNCHANGED rows \/ pc \in Routing,
         files'.rule = files.rule, fw' \in {fw, {}}
  PROVE  RoutesInv'
<1>1. /\ Known' => Known
      /\ Ons' = Ons /\ \A k : Ap(k)' = Ap(k)
  BY DEF Known, Ons, Ap
<1>2. CASE AtWork /\ pc \in Generating \cup Reloading /\ Known'
  BY <1>1, <1>2
  DEF RoutesInv, AtWork, RowsAreOfList, MarksAreOfList, Generating, Reloading, Routing
<1>3. CASE ~ (AtWork /\ pc \in Generating \cup Reloading /\ Known')
  BY <1>1, <1>3
  DEF RoutesInv, AtWork, RulesAreOfList, MarksAreOfList, Generating, Reloading, Routing
<1>4. QED
  BY <1>2, <1>3

LEMMA RoutesNext == Types /\ LoadedInv /\ RoutesInv /\ [Next]_vars => RoutesInv'
<1> SUFFICES ASSUME Types, LoadedInv, RoutesInv, [Next]_vars PROVE RoutesInv'
  OBVIOUS
<1> USE DEF Steps
<1>1. ASSUME NEW list \in Lists, Request(list) PROVE RoutesInv'
  <2>1. /\ Stored(list) /\ pc' = "hostapd" /\ why' = "request" /\ req' = list
        /\ disturbed' = Doubts(list)
    BY <1>1 DEF Request, Stage
  <2>2. PICK ids \in NewIds(list) : rows' = Merge(list, ids)
    BY <2>1 DEF Stored
  <2>3. rows \in Seq(Design) /\ list \in Seq(Entry)
    BY ListsAreTyped DEF ListsAreTyped, Types, TypeOK
  <2>4. Known' => RowsAreOfList'
    BY <2>1, <2>2, <2>3, KnownAreStored DEF Known, RowsAreOfList, Ap
  <2>5. QED
    BY <2>1, <2>4 DEF RoutesInv, Generating, Reloading, Routing
<1>2. ASSUME NEW list \in Lists, Refuse(list) PROVE RoutesInv'
  <2>1. UNCHANGED <<change, files, live>> /\ disturbed' = Noted({IF Settled THEN "later" ELSE "table"})
    BY <1>2, RefusalGoesBy
  <2>2. AtWork => ~Known' \/ pc \in Routing
    BY <2>1 DEF AtWork, Noted, Known, Settled, Routing
  <2>3. CASE AtWork
    BY <2>1, <2>2, <2>3, RoutesStay DEF change, live, policy, Noted
  <2>4. CASE ~AtWork
    BY <2>1, <2>4 DEF RoutesInv, AtWork, change
  <2>5. QED
    BY <2>3, <2>4
<1>3. CASE Boot
  <2>1. PICK t \in Tables :
          /\ rows' = t /\ UNCHANGED fw /\ pc = "off" /\ why = "none"
          /\ \/ /\ req' = [i \in DOMAIN t |-> [id |-> i, ap |-> t[i]]]
                /\ why' = "boot" /\ pc' = "hostapd"
             \/ why' = "none"
    BY <1>3 DEF Boot, Types, Shape
  <2>2. CASE why' = "none"
    BY <2>2 DEF RoutesInv, AtWork
  <2>3. CASE pc' = "hostapd"
    <3>1. t \in Seq(Design)
      BY BootTableIsTyped DEF Types
    <3>2. req' = [i \in DOMAIN t |-> [id |-> i, ap |-> t[i]]] \/ why' = "none"
      BY <2>1
    <3>3. RowsAreOfList' \/ why' = "none"
      BY <2>1, <3>1, <3>2, BootList DEF RowsAreOfList, Ap
    <3>4. fw' = {}
      BY <2>1 DEF LoadedInv
    <3>5. QED
      BY <2>3, <3>3, <3>4 DEF RoutesInv, AtWork, Generating, Reloading, Routing
  <2>4. QED
    BY <2>1, <2>2, <2>3
<1>4. ASSUME UNCHANGED <<req, why, disturbed, rows>> PROVE /\ Known' = Known /\ AtWork' = AtWork
                                                          /\ RowsAreOfList' = RowsAreOfList
                                                          /\ Ons' = Ons /\ \A k : Ap(k)' = Ap(k)
  BY <1>4 DEF Known, AtWork, RowsAreOfList, Ons, Ap
<1>5. CASE Generate /\ ~WriteNftables
  <2>1. /\ UNCHANGED <<req, why, disturbed, rows, live>> /\ pc \in Generating
        /\ pc' \in {"confs", "dnsmasq", "nftables", "restore"}
    BY <1>5
    DEF Generate, ClearHostapd, WriteHostapd, HostapdRaises, WriteDnsmasq, DnsmasqRaises,
        NftablesRaises, Generating
  <2>2. QED
    BY <1>4, <2>1 DEF RoutesInv, Generating, Reloading, Routing, live
<1>6. CASE WriteNftables
  <2>1. /\ UNCHANGED <<req, why, disturbed, rows, live>> /\ pc = "nftables" /\ pc' = "units"
        /\ files'.rule = {[dev |-> OrWlan0(Ap(k)), policy |-> Ap(k).policy, mark |-> req[k].id] : k \in Ons}
    BY <1>6 DEF WriteNftables, Types, Shape, FileTypes
  <2>2. \A x \in files'.rule : \E k \in Ons : x.policy = Ap(k).policy /\ x.mark = req[k].id
    BY <2>1
  <2>3. MarksAreOfList'
    BY <1>4, <2>1, <2>2 DEF MarksAreOfList
  <2>4. QED
    BY <1>4, <2>1, <2>3 DEF RoutesInv, Generating, Reloading, Routing, live
<1>7. CASE Reload /\ ~ReloadVpn
  <2>1. /\ UNCHANGED <<req, why, disturbed, rows, files>> /\ pc \in Reloading
        /\ \/ pc' \in {"addresses", "dhcp", "ruleset"} /\ pc \notin {"ruleset", "policy"} /\ UNCHANGED fw
           \/ pc = "ruleset" /\ pc' = "policy" /\ fw' = IF files.rule = {} THEN fw ELSE files.rule
    BY <1>7 DEF Reload, ReloadUnits, BringUp, ReloadDnsmasq, ReloadNftables, Reloading
  <2>2. MarksAreOfList' = MarksAreOfList
    BY <1>4, <2>1 DEF MarksAreOfList
  <2>3. QED
    BY <1>4, <2>1, <2>2 DEF RoutesInv, Generating, Reloading, Routing
<1>8. CASE ReloadVpn
  <2>1. /\ UNCHANGED <<req, why, disturbed, rows, files, fw>> /\ pc = "policy"
        /\ pc' = IF why = "undo" THEN "idle" ELSE "health"
        /\ ruled' = Rules(rows)
        /\ holes' = holes \cup {i \in DOMAIN rows : rows[i].policy = "isolated"}
    BY <1>8 DEF ReloadVpn
  <2>2. MarksAreOfList' = MarksAreOfList
    BY <1>4, <2>1 DEF MarksAreOfList
  <2>3. RowsAreOfList => RulesAreOfList'
    BY <1>4, <2>1 DEF RowsAreOfList, RulesAreOfList, Rules
  <2>4. QED
    BY <1>4, <2>1, <2>2, <2>3 DEF RoutesInv, Generating, Reloading, Routing, AtWork
<1>9. CASE HealthPasses \/ Keep
  <2>1. /\ UNCHANGED <<req, why, disturbed, rows, files, live>>
        /\ pc \in {"health", "trial"} /\ pc' \in {"trial", "idle"}
        /\ pc = "health" => why = "boot" \/ Healthy
    BY <1>9 DEF HealthPasses, Keep
  <2>2. MarksAreOfList' = MarksAreOfList /\ RulesAreOfList' = RulesAreOfList
    BY <1>4, <2>1 DEF MarksAreOfList, RulesAreOfList, live, policy
  <2>3. AtWork => fw' \in {files'.rule, {}}
    BY <2>1 DEF RoutesInv, LoadedInv, Healthy, live
  <2>4. QED
    BY <1>4, <2>1, <2>2, <2>3 DEF RoutesInv, Generating, Reloading, Routing
<1>10. CASE HealthFails \/ Revert
  <2>1. pc' = "restore"
    BY <1>10 DEF HealthFails, Revert
  <2>2. QED
    BY <2>1 DEF RoutesInv, Generating, Reloading, Routing
<1>11. CASE Restore \/ Reboot
  BY <1>11 DEF Restore, Undo, Reboot, RoutesInv, AtWork
<1>12. ASSUME UNCHANGED <<req, pc, why, ruled, holes, rows>>, disturbed \subseteq disturbed',
              files'.rule = files.rule, fw' \in {fw, {}}
       PROVE  RoutesInv'
  BY <1>12, RoutesStay
<1>13. CASE RetryDnsmasq \/ RestartNet \/ DoctorReads
  BY <1>12, <1>13 DEF RetryDnsmasq, RestartNet, DoctorReads, Disturb, Noted, change, policy, live
<1>14. CASE DoctorClears \/ DoctorWrites
  <2>1. PICK conf, k : Examine(conf, k)
    BY <1>14 DEF DoctorClears, DoctorWrites
  <2>2. files' = [files EXCEPT !.conf = conf, !.clean = FALSE]
    BY <2>1 DEF Examine
  <2>3. files'.rule = files.rule
    BY <2>2 DEF Types, Shape, FileTypes
  <2>4. QED
    BY <1>12, <2>1, <2>3 DEF Examine, Disturb, Noted, change, live, policy
<1>15. ASSUME NEW r \in Radios, NEW n \in Names \cup {Gone}, Move(r, n) PROVE RoutesInv'
  BY <1>12, <1>15 DEF Move, Disturb, Noted, change, policy
<1>16. ASSUME NEW f \in wanted, RestartUnit(f) PROVE RoutesInv'
  BY <1>12, <1>16 DEF RestartUnit, Disturb, Noted, change, policy
<1>17. CASE UNCHANGED vars
  BY <1>12, <1>17 DEF vars, change, live, policy
<1>18. QED
  BY <1>1, <1>2, <1>3, <1>5, <1>6, <1>7, <1>8, <1>9, <1>10, <1>11, <1>13, <1>14, <1>15, <1>16, <1>17
  DEF Next, Generate, Reload, Decide, Aside

\* nftables.py:10-12: for any access points and policies, what a change marked is routed
\* as it says until the next change - if it was not rolled back, brought no new access
\* point, named rows there are, each once, and no other request stored rows before the
\* policy rules were reloaded.
THEOREM MarksAreRouted == Spec => []RoutedAsMarked
<1>1. RoutesInv => RoutedAsMarked
  <2> SUFFICES ASSUME RoutesInv, Settled, AtWork, Known, NEW x \in fw
               PROVE  /\ x.policy \in {"tunnel", "killswitch"} => x.mark \in ruled
                      /\ x.policy = "direct" => x.mark \notin ruled
                      /\ x.policy = "isolated" => x.mark \in holes
    BY DEF RoutedAsMarked, NoDrift, AtWork, Known
  <2>1. MarksAreOfList /\ RulesAreOfList /\ x \in files.rule
    BY DEF RoutesInv, Settled, Routing
  <2>2. PICK k \in Ons : x.policy = Ap(k).policy /\ x.mark = req[k].id
    BY <2>1 DEF MarksAreOfList
  <2>3. k \in DOMAIN req
    BY EnabledOfList DEF Ons
  <2>4. QED
    BY <2>1, <2>2, <2>3 DEF RulesAreOfList, Routed
<1>2. QED
  BY TypesInit, TypesNext, LoadedInit, LoadedNext, RoutesInit, RoutesNext, <1>1, PTL DEF Spec

---------------------------------------------------------------------------
(* Every enabled access point is served                                     *)

\* What Served supposes of a change, but for its ranges.
Quiet ==
  /\ \A r \in Radios : Vifs[r] = 1
  /\ AtWork
  /\ disturbed \cap {"rows", "ids", "files", "names", "move", "unit", "table", "doctor"} = {}

\* The enabled rows are the enabled entries of the list.
EnabledAre(aps) ==
  /\ \A i \in Enabled(aps) : \E k \in Ons : aps[i] = Ap(k)
  /\ \A k \in Ons : \E i \in Enabled(aps) : aps[i] = Ap(k)

ScopesAre  == files.scope = {ScopeOf(k) : k \in Ons}
RulesAre   == \A k \in Ons : \E x \in files.rule : x.dev = Dev(Ap(k)) /\ x.policy = Ap(k).policy
UnitsServe == \A k \in Ons : File(req[k]) \in DOMAIN up /\ up[File(req[k])] = Dev(Ap(k))
Addressed  == \A k \in Ons : addr[Dev(Ap(k))] = Ap(k).net

\* What each step leaves for the next ones.
ServedInv ==
  Quiet =>
    /\ pc \in Generating \cup {"units"} => EnabledAre(rows)
    /\ pc = "addresses" => EnabledAre(seen)
    /\ pc = "units" => ConfUpTo(Len(req))
    /\ pc \in Reloading \cup Routing => ScopesAre /\ RulesAre
    /\ pc \in (Reloading \ {"units"}) \cup Routing => UnitsServe
    /\ pc \in (Reloading \ {"units", "addresses"}) \cup Routing => Addressed

LEMMA ServedInit == Init => ServedInv
BY DEF Init, ServedInv, Quiet, AtWork

\* A list whose ids are known, each once, finds every entry in the table.
LEMMA EntriesAreStored ==
  ASSUME rows \in Seq(Design), NEW list \in Seq(Entry), NEW ids \in NewIds(list),
         "ids" \notin Doubts(list), NEW k \in DOMAIN list
  PROVE  \E i \in DOMAIN Merge(list, ids) : Merge(list, ids)[i] = list[k].ap
<1> DEFINE i == Row(list, ids, k)
           n == Len(rows) + Cardinality(DOMAIN ids)
<1>1. /\ Len(rows) \in Nat /\ Cardinality(DOMAIN ids) \in Nat /\ DOMAIN rows = 1..Len(rows)
      /\ Len(list) \in Nat /\ DOMAIN list = 1..Len(list)
  BY NewIdsAreNext, ListsAreSeqs
<1>2. DOMAIN ids = {j \in DOMAIN list : ~Given(list[j])}
  BY NewIdsAreNext
<1>3. /\ \A j \in DOMAIN ids : ids[j] \in (Len(rows) + 1)..n
      /\ \A j, l \in DOMAIN ids : ids[j] = ids[l] => j = l
  BY NewIdsAreNext
<1>4. \A j \in DOMAIN list \ DOMAIN ids :
        /\ list[j].id \in DOMAIN rows
        /\ \A l \in DOMAIN list \ DOMAIN ids : list[j].id = list[l].id => j = l
  BY <1>2, DoubtsSay
<1>5. \A j \in DOMAIN list : Row(list, ids, j) = IF j \in DOMAIN ids THEN ids[j] ELSE list[j].id
  BY DEF Row
<1>6. ASSUME NEW j \in DOMAIN list, Row(list, ids, j) = i PROVE j = k
  <2>1. CASE j \in DOMAIN ids /\ k \in DOMAIN ids
    BY <1>3, <1>5, <1>6, <2>1
  <2>2. CASE j \notin DOMAIN ids /\ k \notin DOMAIN ids
    BY <1>4, <1>5, <1>6, <2>2
  <2>3. CASE (j \in DOMAIN ids) # (k \in DOMAIN ids)
    <3>1. \A l \in DOMAIN ids : ids[l] \notin 1..Len(rows)
      BY <1>1, <1>3
    <3>2. QED
      BY <1>1, <1>4, <1>5, <1>6, <2>3, <3>1
  <2>4. QED
    BY <2>1, <2>2, <2>3
<1>7. i \in 1..n
  <2>1. CASE k \in DOMAIN ids
    BY <1>1, <1>3, <1>5, <2>1
  <2>2. CASE k \notin DOMAIN ids
    BY <1>1, <1>4, <1>5, <2>2
  <2>3. QED
    BY <2>1, <2>2
<1>8. k \in Writers(list, ids, i)
  <2>1. k <= k
    BY <1>1
  <2>2. i \in DOMAIN rows \/ \E j \in DOMAIN ids : j <= k /\ ids[j] = i
    BY <1>4, <1>5, <2>1
  <2>3. QED
    BY <2>2 DEF Writers
<1>9. \A j \in Writers(list, ids, i) : j = k
  BY <1>6 DEF Writers
<1> HIDE DEF i, n
<1>10. i \in DOMAIN Merge(list, ids)
  BY <1>7, MergedRows DEF n
<1>11. Merge(list, ids)[i] = list[k].ap
  BY <1>8, <1>9, <1>10, MergedRows
<1>12. QED
  BY <1>10, <1>11

LEMMA EnabledAreStored ==
  ASSUME Types, NEW list \in Lists, Request(list), disturbed' \cap {"rows", "ids"} = {}
  PROVE  EnabledAre(rows)'
<1>1. Stored(list) /\ req' = list /\ "rows" \notin Doubts(list) /\ "ids" \notin Doubts(list)
  BY DEF Request, Stage
<1>2. PICK ids \in NewIds(list) : rows' = Merge(list, ids)
  BY <1>1 DEF Stored
<1>3. rows \in Seq(Design) /\ list \in Seq(Entry)
  BY ListsAreTyped DEF ListsAreTyped, Types, TypeOK
<1>4. PICK f \in [Enabled(rows') -> DOMAIN list] : \A i \in Enabled(rows') : rows'[i] = list[f[i]].ap
  BY <1>1, <1>2, <1>3, MergeIsDrawn DEF Drawn
<1>5. Ons' = {k \in DOMAIN list : list[k].ap.on} /\ \A k : Ap(k)' = list[k].ap
  BY <1>1, EnabledOfList DEF Ons, Ap
<1>6. \A i \in Enabled(rows') : rows'[i].on /\ i \in DOMAIN rows'
  BY DEF Enabled
<1>7. ASSUME NEW i \in Enabled(rows') PROVE \E k \in Ons' : rows'[i] = list[k].ap
  <2>1. f[i] \in DOMAIN list /\ rows'[i] = list[f[i]].ap
    BY <1>4
  <2>2. f[i] \in Ons'
    BY <1>5, <1>6, <2>1
  <2>3. QED
    BY <2>1, <2>2
<1>8. ASSUME NEW k \in Ons' PROVE \E i \in Enabled(rows') : rows'[i] = list[k].ap
  <2>1. k \in DOMAIN list /\ list[k].ap.on
    BY <1>5
  <2>2. PICK i \in DOMAIN rows' : rows'[i] = list[k].ap
    BY <1>1, <1>2, <1>3, <2>1, EntriesAreStored
  <2>3. QED
    BY <2>1, <2>2 DEF Enabled
<1>9. QED
  BY <1>5, <1>7, <1>8 DEF EnabledAre

\* The address step gives every device the address of its one access point.
LEMMA BringUpAddresses ==
  ASSUME Types, StagedInv, WrittenInv, ServedInv, Quiet, BringUp, NEW k \in Ons
  PROVE  addr'[Dev(Ap(k))] = Ap(k).net
<1> DEFINE n  == Dev(Ap(k))
           on == {i \in Enabled(seen) : Dev(seen[i]) = n /\ seen[i].net # NoAddr}
<1>1. pc = "addresses" /\ EnabledAre(seen)
  BY DEF BringUp, Steps, ServedInv
<1>2. Dev(Ap(k)) # Gone /\ Ap(k).net # NoAddr
  BY <1>1 DEF StagedInv, WrittenInv, Quiet, Scoped, Reloading
<1>3. n \in Names
  <2>1. k \in DOMAIN req /\ req \in Seq(Entry)
    BY EnabledOfList DEF Ons, Types, TypeOK
  <2>2. Ap(k).radio \in Radios
    BY <2>1, ListsAreSeqs DEF Ap, Design
  <2>3. QED
    BY <1>2, <2>2 DEF Dev, Types, TypeOK
<1>4. on # {}
  BY <1>1, <1>2 DEF EnabledAre
<1>5. \A i \in on : seen[i].net = Ap(k).net
  <2>1. ASSUME NEW i \in on PROVE seen[i].net = Ap(k).net
    <3>1. PICK j \in Ons : seen[i] = Ap(j)
      BY <1>1 DEF EnabledAre
    <3>2. Dev(Ap(j)) = Dev(Ap(k))
      BY <3>1
    <3>3. j = k
      BY <3>2, OnePerDevice DEF Quiet
    <3>4. QED
      BY <3>1, <3>3
  <2>2. QED
    BY <2>1
<1>6. Last(on) \in on
  <2>1. Len(seen) \in Nat /\ on \in SUBSET (1..Len(seen))
    BY ListsAreSeqs DEF Types, Shape, Enabled
  <2>2. QED
    BY <1>4, <2>1, LastOne
<1>7. addr'[n] = IF on = {} THEN addr[n] ELSE seen[Last(on)].net
  BY <1>3 DEF BringUp
<1> HIDE DEF n, on
<1>8. QED
  BY <1>4, <1>5, <1>6, <1>7 DEF n

LEMMA ServedStays ==
  ASSUME ServedInv, UNCHANGED <<name, req, why, pc, up, addr, seen>>, disturbed \subseteq disturbed',
         files'.scope = files.scope, files'.rule = files.rule,
         Quiet' /\ pc \in Generating \cup {"units"} => UNCHANGED rows,
         Quiet' /\ pc = "units" => files'.conf = files.conf
  PROVE  ServedInv'
<1>1. Quiet' => Quiet
  BY DEF Quiet, AtWork
<1>2. Ons' = Ons /\ \A k : Ap(k)' = Ap(k) /\ Dev(Ap(k))' = Dev(Ap(k)) /\ ScopeOf(k)' = ScopeOf(k)
  BY DEF Ons, Ap, Dev, ScopeOf
<1>3. /\ ScopesAre => ScopesAre'
      /\ RulesAre => RulesAre'
      /\ UnitsServe => UnitsServe'
      /\ Addressed => Addressed'
      /\ EnabledAre(seen) => EnabledAre(seen)'
  BY <1>2 DEF ScopesAre, RulesAre, UnitsServe, Addressed, EnabledAre
<1>4. rows' = rows => (EnabledAre(rows) => EnabledAre(rows)')
  BY <1>2 DEF EnabledAre
<1>5. files'.conf = files.conf => (ConfUpTo(Len(req)) => ConfUpTo(Len(req))')
  BY <1>2 DEF ConfUpTo
<1>6. QED
  BY <1>1, <1>3, <1>4, <1>5 DEF ServedInv

LEMMA ServedReload ==
  ASSUME Types, StagedInv, WrittenInv, ServedInv, Reload
  PROVE  ServedInv'
<1> USE DEF Steps
<1>1. SUFFICES ASSUME Quiet, pc \in Reloading,
                      UNCHANGED <<name, rows, req, why, disturbed, files>>
               PROVE  ServedInv'
  BY DEF Reload, ReloadUnits, BringUp, ReloadDnsmasq, ReloadNftables, ReloadVpn, ServedInv, Quiet,
         AtWork, Reloading
<1>2. Ons' = Ons /\ \A k : Ap(k)' = Ap(k) /\ Dev(Ap(k))' = Dev(Ap(k)) /\ ScopeOf(k)' = ScopeOf(k)
  BY <1>1 DEF Ons, Ap, Dev, ScopeOf
<1>3. /\ ScopesAre /\ ScopesAre' /\ RulesAre /\ RulesAre'
  BY <1>1, <1>2 DEF ServedInv, ScopesAre, RulesAre
<1>4. CASE ReloadUnits
  <2>1. /\ pc = "units" /\ pc' = "addresses" /\ seen' = rows
        /\ up' = Started(DOMAIN files.conf)
    BY <1>4 DEF ReloadUnits
  <2>2. ConfUpTo(Len(req)) /\ EnabledAre(rows) /\ \A k \in Ons : Dev(Ap(k)) # Gone
    BY <1>1, <2>1 DEF ServedInv, StagedInv, Quiet
  <2>3. EnabledAre(seen)'
    BY <1>2, <2>1, <2>2 DEF EnabledAre
  <2>4. ASSUME NEW k \in Ons PROVE File(req[k]) \in DOMAIN up' /\ up'[File(req[k])] = Dev(Ap(k))
    <3>1. File(req[k]) \in DOMAIN files.conf /\ files.conf[File(req[k])] = Dev(Ap(k))
      BY <2>2, Positions DEF ConfUpTo
    <3>2. k \in DOMAIN req /\ req \in Seq(Entry)
      BY EnabledOfList DEF Ons, Types, TypeOK
    <3>3. Ap(k).radio \in Radios
      BY <3>2, ListsAreSeqs DEF Ap, Design
    <3>4. Dev(Ap(k)) \in Plugged
      BY <2>2, <3>3 DEF Dev, Plugged
    <3>5. QED
      BY <2>1, <3>1, <3>4 DEF Started
  <2>5. UnitsServe'
    BY <1>1, <1>2, <2>4 DEF UnitsServe
  <2>6. QED
    BY <1>3, <2>1, <2>3, <2>5 DEF ServedInv, Generating, Reloading, Routing
<1>5. CASE BringUp
  <2>1. pc = "addresses" /\ pc' = "dhcp" /\ UNCHANGED up
    BY <1>5 DEF BringUp
  <2>2. UnitsServe'
    BY <1>1, <1>2, <2>1 DEF ServedInv, UnitsServe, Reloading
  <2>3. Addressed'
    BY <1>1, <1>2, <1>5, BringUpAddresses DEF Addressed
  <2>4. QED
    BY <1>3, <2>1, <2>2, <2>3 DEF ServedInv, Generating, Reloading, Routing
<1>6. CASE ReloadDnsmasq \/ ReloadNftables \/ ReloadVpn
  <2>1. /\ pc \in {"dhcp", "ruleset", "policy"} /\ pc' \in {"ruleset", "policy", "health", "idle"}
        /\ UNCHANGED <<up, addr>>
    BY <1>6 DEF ReloadDnsmasq, ReloadNftables, ReloadVpn
  <2>2. UnitsServe' /\ Addressed'
    BY <1>1, <1>2, <2>1 DEF ServedInv, UnitsServe, Addressed, Reloading
  <2>3. QED
    BY <1>3, <2>1, <2>2 DEF ServedInv, Generating, Reloading, Routing
<1>7. QED
  BY <1>4, <1>5, <1>6 DEF Reload

LEMMA ServedNext ==
  Types /\ StagedInv /\ WrittenInv /\ FilesInv /\ ServedInv /\ [Next]_vars => ServedInv'
<1> SUFFICES ASSUME Types, StagedInv, WrittenInv, FilesInv, ServedInv, [Next]_vars
             PROVE  ServedInv'
  OBVIOUS
<1> USE DEF Steps
<1>1. ASSUME NEW list \in Lists, Request(list) PROVE ServedInv'
  <2>1. pc' = "hostapd"
    BY <1>1 DEF Request, Stage
  <2>2. Quiet' => EnabledAre(rows)'
    BY <1>1, EnabledAreStored DEF Quiet
  <2>3. QED
    BY <2>1, <2>2 DEF ServedInv, Generating, Reloading, Routing
<1>2. ASSUME NEW list \in Lists, Refuse(list) PROVE ServedInv'
  <2>1. UNCHANGED <<name, change, files, live>> /\ disturbed' = Noted({IF Settled THEN "later" ELSE "table"})
    BY <1>2, RefusalGoesBy
  <2>2. Quiet' => Settled
    BY <2>1 DEF Quiet, AtWork, Noted, change
  <2>3. QED
    BY <2>1, <2>2, ServedStays DEF change, live, Noted, Settled, Generating
<1>3. CASE Boot
  <2>1. PICK t \in Tables :
          /\ rows' = t
          /\ \/ req' = [i \in DOMAIN t |-> [id |-> i, ap |-> t[i]]] /\ pc' = "hostapd"
             \/ why' = "none"
    BY <1>3 DEF Boot, Types, Shape
  <2>2. CASE why' = "none"
    BY <2>2 DEF ServedInv, Quiet, AtWork
  <2>3. CASE req' = [i \in DOMAIN t |-> [id |-> i, ap |-> t[i]]] /\ pc' = "hostapd"
    <3>1. t \in Seq(Design)
      BY BootTableIsTyped DEF Types
    <3>2. Aps(req') = t /\ \A i \in DOMAIN t : req'[i].ap = t[i]
      BY <2>3, <3>1, BootList
    <3>3. EnabledAre(rows)'
      BY <2>1, <3>2 DEF EnabledAre, Ons, Ap, Enabled
    <3>4. QED
      BY <2>3, <3>3 DEF ServedInv, Generating, Reloading, Routing
  <2>4. QED
    BY <2>1, <2>2, <2>3
<1>4. CASE Generate /\ ~WriteNftables
  <2>1. /\ UNCHANGED <<name, req, why, disturbed, rows>> /\ pc \in Generating
        /\ pc' \in {"confs", "dnsmasq", "nftables", "restore"}
    BY <1>4
    DEF Generate, ClearHostapd, WriteHostapd, HostapdRaises, WriteDnsmasq, DnsmasqRaises,
        NftablesRaises, Generating
  <2>2. Quiet' => EnabledAre(rows)'
    BY <2>1 DEF ServedInv, Quiet, AtWork, EnabledAre, Ons, Ap
  <2>3. QED
    BY <2>1, <2>2 DEF ServedInv, Generating, Reloading, Routing
<1>5. CASE WriteNftables
  <2>1. /\ UNCHANGED <<name, req, why, disturbed, rows>> /\ pc = "nftables" /\ pc' = "units"
        /\ files'.rule = {[dev |-> OrWlan0(Ap(k)), policy |-> Ap(k).policy, mark |-> req[k].id] : k \in Ons}
        /\ files'.conf = files.conf /\ files'.scope = files.scope
    BY <1>5 DEF WriteNftables, Types, Shape, FileTypes
  <2>2. SUFFICES ASSUME Quiet PROVE /\ EnabledAre(rows)' /\ ConfUpTo(Len(req))'
                                    /\ ScopesAre' /\ RulesAre'
    BY <2>1 DEF ServedInv, Generating, Reloading, Routing, Quiet, AtWork
  <2>3. Ons' = Ons /\ \A k : Ap(k)' = Ap(k) /\ Dev(Ap(k))' = Dev(Ap(k)) /\ ScopeOf(k)' = ScopeOf(k)
    BY <2>1 DEF Ons, Ap, Dev, ScopeOf
  <2>4. EnabledAre(rows)'
    BY <2>1, <2>2, <2>3 DEF ServedInv, Generating, EnabledAre
  <2>5. ConfUpTo(Len(req)) /\ ScopesAre
    BY <2>1, <2>2 DEF FilesInv, Clean, Quiet, ScopesAre
  <2>6. ConfUpTo(Len(req))'
    BY <2>1, <2>3, <2>5 DEF ConfUpTo
  <2>7. ScopesAre'
    BY <2>1, <2>3, <2>5 DEF ScopesAre
  <2>8. ASSUME NEW k \in Ons PROVE \E x \in files'.rule : x.dev = Dev(Ap(k)) /\ x.policy = Ap(k).policy
    <3>1. OrWlan0(Ap(k)) = Dev(Ap(k))
      BY <2>2 DEF OrWlan0, StagedInv, Quiet
    <3>2. [dev |-> OrWlan0(Ap(k)), policy |-> Ap(k).policy, mark |-> req[k].id] \in files'.rule
      BY <2>1
    <3>3. QED
      BY <3>1, <3>2
  <2>9. RulesAre'
    BY <2>3, <2>8 DEF RulesAre
  <2>10. QED
    BY <2>4, <2>6, <2>7, <2>9
<1>6. CASE Reload
  BY <1>6, ServedReload
<1>7. CASE HealthPasses \/ Keep
  <2>1. /\ UNCHANGED <<name, req, why, disturbed, files, up, addr>>
        /\ pc \in Routing /\ pc' \in {"trial", "idle"}
    BY <1>7 DEF HealthPasses, Keep, live, Routing
  <2>2. Ons' = Ons /\ \A k : Ap(k)' = Ap(k) /\ Dev(Ap(k))' = Dev(Ap(k)) /\ ScopeOf(k)' = ScopeOf(k)
    BY <2>1 DEF Ons, Ap, Dev, ScopeOf
  <2>3. Quiet' => ScopesAre' /\ RulesAre' /\ UnitsServe' /\ Addressed'
    BY <2>1, <2>2 DEF ServedInv, Quiet, AtWork, ScopesAre, RulesAre, UnitsServe, Addressed
  <2>4. QED
    BY <2>1, <2>3 DEF ServedInv, Generating, Reloading, Routing
<1>8. CASE HealthFails \/ Revert
  <2>1. pc' = "restore"
    BY <1>8 DEF HealthFails, Revert
  <2>2. QED
    BY <2>1 DEF ServedInv, Generating, Reloading, Routing
<1>9. CASE Restore \/ Reboot
  BY <1>9 DEF Restore, Undo, Reboot, ServedInv, Quiet, AtWork
<1>10. CASE RetryDnsmasq \/ RestartNet \/ DoctorReads
  BY <1>10, ServedStays DEF RetryDnsmasq, RestartNet, DoctorReads, Disturb, Noted, change, live
<1>11. CASE DoctorClears \/ DoctorWrites
  <2>1. PICK conf, k : Examine(conf, k)
    BY <1>11 DEF DoctorClears, DoctorWrites
  <2>2. /\ files' = [files EXCEPT !.conf = conf, !.clean = FALSE]
        /\ disturbed' = Noted(Noticed) /\ UNCHANGED <<rows, change, name, live>>
    BY <2>1 DEF Examine, Disturb
  <2>3. files'.rule = files.rule /\ files'.scope = files.scope
    BY <2>2 DEF Types, Shape, FileTypes
  <2>4. ~ (Quiet' /\ pc = "units")
    BY <2>2 DEF Noted, Noticed, Quiet, AtWork, change
  <2>5. QED
    BY <2>2, <2>3, <2>4, ServedStays DEF Noted, change, live
<1>12. ASSUME NEW r \in Radios, NEW n \in Names \cup {Gone}, Move(r, n) PROVE ServedInv'
  <2>1. ~Quiet'
    BY <1>12 DEF Move, Disturb, Noted, Quiet, AtWork, change
  <2>2. QED
    BY <2>1 DEF ServedInv
<1>13. ASSUME NEW f \in wanted, RestartUnit(f) PROVE ServedInv'
  <2>1. ~Quiet'
    BY <1>13 DEF RestartUnit, Disturb, Noted, Quiet, AtWork, change
  <2>2. QED
    BY <2>1 DEF ServedInv
<1>14. CASE UNCHANGED vars
  BY <1>14, ServedStays DEF vars, change, live
<1>15. QED
  BY <1>1, <1>2, <1>3, <1>4, <1>5, <1>6, <1>7, <1>8, <1>9, <1>10, <1>11, <1>12, <1>13, <1>14
  DEF Next, Decide, Aside

\* network.py:3-15: for any number of radios with one access point each, every enabled
\* access point of a change that was reloaded has its unit, its address and its scope on
\* one device, and the loaded ruleset its policy - if the change named every enabled
\* row, known ids once each and files of their own, no range was missing, no two
\* adapters went by one name, and no adapter moved, no unit restarted, the doctor did
\* not write and nobody else stored rows meanwhile.
THEOREM EnabledAreServed == Spec => []Served
<1>1. Types /\ StagedInv /\ WrittenInv /\ LoadedInv /\ RoutesInv /\ ServedInv => Served
  <2> SUFFICES ASSUME Types, StagedInv, WrittenInv, LoadedInv, RoutesInv, ServedInv,
                      Quiet, Settled, \A k \in Ons : Ap(k).flaw # "leases",
                      NEW k \in Ons
               PROVE  ApIsServed(k)
    BY DEF Served, Quiet, AtWork
  <2>1. ScopesAre /\ RulesAre /\ UnitsServe /\ Addressed
    BY DEF ServedInv, Settled, Routing
  <2>2. /\ fw \in {files.rule, {}} /\ Bound(dhcp)
        /\ \A j \in Ons : Dev(Ap(j)) # Gone /\ Ap(j).net # NoAddr
    BY DEF RoutesInv, LoadedInv, StagedInv, WrittenInv, Quiet, Settled, Scoped
  <2>3. ASSUME NEW j \in Ons PROVE ScopeOf(j).ok /\ ScopeOf(j).dev \in Plugged /\ addr[ScopeOf(j).dev] # NoAddr
    <3>1. j \in DOMAIN req /\ req \in Seq(Entry)
      BY EnabledOfList DEF Ons, Types, TypeOK
    <3>2. Ap(j).radio \in Radios
      BY <3>1, ListsAreSeqs DEF Ap, Design
    <3>3. Dev(Ap(j)) \in Plugged /\ addr[Dev(Ap(j))] # NoAddr
      BY <2>1, <2>2, <3>2 DEF Dev, Plugged, Addressed
    <3>4. QED
      BY <3>3 DEF ScopeOf
  <2>4. Starts(files.scope)
    BY <2>1, <2>3 DEF Starts, MayStart, ScopesAre
  <2>5. dhcp = {files.scope}
    BY <2>2, <2>4 DEF Bound
  <2>6. \E scope \in dhcp : \E s \in scope : s.dev = Dev(Ap(k)) /\ s.net = Ap(k).net
    <3>1. ScopeOf(k) \in files.scope /\ ScopeOf(k).dev = Dev(Ap(k)) /\ ScopeOf(k).net = Ap(k).net
      BY <2>1 DEF ScopesAre, ScopeOf
    <3>2. QED
      BY <2>5, <3>1
  <2>7. fw # {} => \E x \in fw : x.dev = Dev(Ap(k)) /\ x.policy = Ap(k).policy
    BY <2>1, <2>2 DEF RulesAre
  <2>8. QED
    BY <2>1, <2>6, <2>7 DEF UnitsServe, Addressed, ApIsServed
<1>2. QED
  BY TypesInit, TypesNext, StagedInit, StagedNext, WrittenInit, WrittenNext, FilesInit, FilesNext,
     LoadedInit, LoadedNext, RoutesInit, RoutesNext, ServedInit, ServedNext, <1>1, PTL DEF Spec
=============================================================================
