--------------------------- MODULE HotplugProofs ---------------------------
(***************************************************************************)
(* Proofs about Hotplug, for any hardware and any number of browser tabs.   *)
(***************************************************************************)
EXTENDS Hotplug, TLAPS

\* The types the argument about names needs (the queues play no part in it).
NameTypes ==
  /\ plug \in [Radios -> Names \cup {Gone}]
  /\ name \in [Radios -> Names \cup {Gone}]
  /\ known \subseteq Radios
  /\ present \in [Radios -> BOOLEAN]
  /\ found \in [Actors -> [Radios -> Names \cup {Gone}]]
  /\ todo \in [Actors -> SUBSET Names]
  /\ old \in [Actors -> SUBSET Radios]
  /\ pc \in [Actors -> {"idle", "probe", "write", "list", "dead"}]
  /\ since \in [Actors -> [Radios -> SUBSET (Names \cup {Gone})]]
  /\ overlap \in {"never", "now", "past", "healed"}

\* No two adapters have one kernel name; no discovery finds two under one name,
\* because it probes a name once; and a discovery that nobody overlaps has read every
\* row there is when it is about to write.
Alone == overlap # "now"

NamesInv ==
  /\ \A r, s \in Radios : r # s /\ plug[r] # Gone => plug[r] # plug[s]
  /\ \A a \in Actors, r, s \in Radios :
       r # s /\ found[a][r] # Gone => found[a][r] # found[a][s]
  /\ \A a \in Actors, r \in Radios :
       pc[a] = "probe" /\ found[a][r] # Gone => found[a][r] \notin todo[a]
  /\ Alone =>
       /\ \A a, b \in Running : a = b
       /\ \A a \in Actors : pc[a] = "write" => old[a] = known
  /\ Whole => NamesUnambiguous

LEMMA NamesInit == Init => NameTypes /\ NamesInv
<1> SUFFICES ASSUME Init PROVE NameTypes /\ NamesInv
  OBVIOUS
<1> USE NamesAreApart
<1>1. plug \in [Radios -> Names \cup {Gone}]
  BY DEF Init
<1>2. NameTypes
  BY <1>1 DEF Init, NameTypes, Nothing
<1>3. \A r, s \in Radios : r # s /\ plug[r] # Gone => plug[r] # plug[s]
  BY DEF Init
<1>4. \A a \in Actors, r \in Radios : found[a][r] = Gone
  BY DEF Init, Nothing
<1>5. Running = {} /\ \A a \in Actors : pc[a] = "idle"
  BY DEF Init, Running
<1>6. \A r \in Radios : Resolved[r] = plug[r]
  BY DEF Init, Resolved
<1>7. NamesUnambiguous
  BY <1>3, <1>6 DEF NamesUnambiguous
<1>8. QED
  BY <1>2, <1>3, <1>4, <1>5, <1>7 DEF NamesInv, Alone

LEMMA TypesNext == NameTypes /\ [Next]_vars => NameTypes'
<1> SUFFICES ASSUME NameTypes, [Next]_vars PROVE NameTypes'
  OBVIOUS
<1> USE NamesAreApart DEF NameTypes, past
<1>1. ASSUME NEW r \in Radios, NEW n \in Names \cup {Gone}, Changed(r, n) PROVE NameTypes'
  <2>1. since' \in [Actors -> [Radios -> SUBSET (Names \cup {Gone})]]
    <3>1. \A a \in Actors : [since[a] EXCEPT ![r] = @ \cup {n}] \in [Radios -> SUBSET (Names \cup {Gone})]
      OBVIOUS
    <3>2. QED
      BY <1>1, <3>1 DEF Changed
  <2>2. QED
    BY <1>1, <2>1 DEF Changed, rows
<1>2. \A r \in Radios : Unplug(r) \/ (\E n \in Names : PlugIn(r, n)) => NameTypes'
  BY <1>1 DEF Unplug, PlugIn
<1>3. Used \subseteq Names
  BY DEF Used
<1>4. ASSUME NEW a \in Actors, Begin(a),
             UNCHANGED <<plug, known, name, present, old>>
      PROVE  NameTypes'
  BY <1>3, <1>4 DEF Begin, Nothing
<1>5. ASSUME NEW a \in Actors, NEW n \in Names, Probe(a, n) PROVE NameTypes'
  BY <1>5 DEF Probe, rows
<1>6. ASSUME NEW a \in Actors, ReadTable(a) PROVE NameTypes'
  BY <1>6 DEF ReadTable, rows
<1>7. ASSUME NEW a \in Actors, WriteTable(a) PROVE NameTypes'
  BY <1>7 DEF WriteTable, Live, Healed, Ended, Nothing
<1>8. CASE TakeEvent
  BY <1>4, <1>8 DEF TakeEvent, rows, Actors
<1>15. CASE Poll
  BY <1>4, <1>15 DEF Poll, rows, Actors
<1>9. CASE Announce \/ AnnounceIfNew
  BY <1>9 DEF Announce, AnnounceIfNew, rows, Actors
<1>10. CASE WatcherDies
  BY <1>10 DEF WatcherDies, Ended, Nothing, rows, Actors
<1>11. ASSUME NEW b \in Tabs, React(b) \/ Open(b) PROVE NameTypes'
  BY <1>4, <1>11 DEF React, Open, rows, Actors
<1>12. ASSUME NEW b \in Tabs, Show(b) PROVE NameTypes'
  BY <1>12 DEF Show, rows, Actors
<1>17. ASSUME NEW b \in Tabs, RequestFails(b) PROVE NameTypes'
  BY <1>17 DEF RequestFails, Ended, Nothing, rows, Actors
<1>16. ASSUME NEW b \in Tabs, Lose(b) \/ Reconnect(b) PROVE NameTypes'
  BY <1>16 DEF Lose, Reconnect, rows
<1>13. CASE UNCHANGED vars
  BY <1>13 DEF vars, rows
<1>14. QED
  BY <1>1, <1>2, <1>5, <1>6, <1>7, <1>8, <1>9, <1>10, <1>11, <1>12, <1>13, <1>15, <1>16, <1>17
  DEF Next, Hardware, Discovery, Watch, Tab

\* A discovery that nobody overlapped replaces the whole table by what it found, and
\* finds no row that was inserted under it.
LEMMA WriteIsWhole ==
  ASSUME NameTypes, NamesInv, Alone, NEW a \in Actors, pc[a] = "write"
  PROVE  /\ ~Conflict(a)
         /\ WriteTable(a) => \A r \in Radios : Resolved'[r] = found[a][r]
<1>1. old[a] = known
  BY DEF NamesInv
<1>2. ~Conflict(a)
  BY <1>1 DEF Conflict
<1>3. ASSUME WriteTable(a) PROVE \A r \in Radios : Resolved'[r] = found[a][r]
  BY <1>1, <1>3 DEF NameTypes, WriteTable, Live, Ended, Resolved
<1>4. QED
  BY <1>2, <1>3

\* A discovery that ends leaves what the others found and read alone.
LEMMA LocalsEnd ==
  ASSUME NameTypes, NEW a \in Actors, NEW l \in {"list", "idle", "dead"}, Ended(a, l)
  PROVE  /\ \A b \in Actors : pc'[b] = "probe" => pc[b] = "probe"
         /\ \A b \in Actors : pc'[b] = "write" => pc[b] = "write" /\ old'[b] = old[b]
         /\ \A b \in Actors, r \in Radios :
              found'[b][r] = Gone \/ (b # a /\ found'[b] = found[b])
<1>1. pc'[a] = l /\ \A r \in Radios : found'[a][r] = Gone
  BY DEF NameTypes, Ended, Nothing
<1>2. \A b \in Actors \ {a} :
        pc'[b] = pc[b] /\ old'[b] = old[b] /\ found'[b] = found[b]
  BY DEF NameTypes, Ended
<1>3. QED
  BY <1>1, <1>2

LEMMA NamesNext ==
  ASSUME NameTypes, NamesInv, [Next]_vars
  PROVE  NamesInv'
<1> USE NamesAreApart DEF NameTypes, NamesInv, Running, Alone, Whole, past
<1>1. ASSUME NEW r \in Radios, NEW n \in Names, PlugIn(r, n) PROVE NamesInv'
  BY <1>1 DEF PlugIn, Changed, Used, rows, NamesUnambiguous, Resolved
<1>2. ASSUME NEW r \in Radios, Unplug(r) PROVE NamesInv'
  BY <1>2 DEF Unplug, Changed, rows, NamesUnambiguous, Resolved
<1>4. ASSUME NEW a \in Actors, Begin(a), pc[a] = "idle",
             UNCHANGED <<plug, known, name, present, old>>
      PROVE  NamesInv'
  <2>1. \A b \in Actors :
          b # a => found'[b] = found[b] /\ todo'[b] = todo[b] /\ pc'[b] = pc[b]
    BY <1>4 DEF Begin
  <2>2. pc'[a] = "probe" /\ \A r \in Radios : found'[a][r] = Gone
    BY <1>4 DEF Begin, Nothing
  <2>3. ASSUME Alone'
        PROVE  Running = {} /\ Running' \subseteq {a}
    <3>1. Running = {}
      BY <1>4, <2>3 DEF Begin
    <3>2. QED
      BY <2>1, <3>1
  <2>4. Whole' => NamesUnambiguous'
    <3>1. Whole' => Whole
      BY <1>4 DEF Begin
    <3>2. NamesUnambiguous' <=> NamesUnambiguous
      BY <1>4 DEF NamesUnambiguous, Resolved
    <3>3. QED
      BY <3>1, <3>2
  <2>5. Alone' => /\ \A b, c \in Running' : b = c
                  /\ \A b \in Actors : pc'[b] = "write" => old'[b] = known'
    <3> SUFFICES ASSUME Alone'
                 PROVE  /\ \A b, c \in Running' : b = c
                        /\ \A b \in Actors : pc'[b] = "write" => old'[b] = known'
      OBVIOUS
    <3>1. \A b, c \in Running' : b = c
      BY <2>3
    <3>2. \A b \in Actors : pc'[b] = "write" => old'[b] = known'
      BY <1>4, <2>1, <2>2, <2>3
    <3>3. QED
      BY <3>1, <3>2
  <2>6. \A b \in Actors, r, s \in Radios :
          r # s /\ found'[b][r] # Gone => found'[b][r] # found'[b][s]
    <3> TAKE b \in Actors, r, s \in Radios
    <3>1. CASE b = a
      BY <2>2, <3>1
    <3>2. CASE b # a
      <4>1. found'[b] = found[b]
        BY <2>1, <3>2
      <4>2. QED
        BY <4>1
    <3>3. QED
      BY <3>1, <3>2
  <2>7. \A b \in Actors, r \in Radios :
          pc'[b] = "probe" /\ found'[b][r] # Gone => found'[b][r] \notin todo'[b]
    BY <2>1, <2>2
  <2>8. \A r, s \in Radios : r # s /\ plug'[r] # Gone => plug'[r] # plug'[s]
    BY <1>4
  <2>9. QED
    BY <2>4, <2>5, <2>6, <2>7, <2>8
<1>5. ASSUME NEW a \in Actors, NEW n \in Names, Probe(a, n) PROVE NamesInv'
  BY <1>5 DEF Probe, rows, NamesUnambiguous, Resolved
<1>6. ASSUME NEW a \in Actors, ReadTable(a) PROVE NamesInv'
  BY <1>6 DEF ReadTable, rows, NamesUnambiguous, Resolved
<1>18. ASSUME NEW a \in Actors, NEW l \in {"list", "idle", "dead"}, Ended(a, l),
              UNCHANGED <<plug, todo>>, Running' \subseteq Running,
              Alone' => /\ Alone
                        /\ known' = known \/ (a \in Running /\ pc[a] = "write"),
              Whole' => NamesUnambiguous'
       PROVE  NamesInv'
  <2>1. \A b \in Actors, r, s \in Radios :
          r # s /\ found'[b][r] # Gone => found'[b][r] # found'[b][s]
    BY <1>18, LocalsEnd
  <2>2. \A b \in Actors, r \in Radios :
          pc'[b] = "probe" /\ found'[b][r] # Gone => found'[b][r] \notin todo'[b]
    BY <1>18, LocalsEnd
  <2>3. Alone' => \A b \in Actors : pc'[b] = "write" => old'[b] = known'
    <3> SUFFICES ASSUME Alone', NEW b \in Actors, pc'[b] = "write" PROVE old'[b] = known'
      OBVIOUS
    <3>1. pc[b] = "write" /\ old'[b] = old[b] /\ b # a
      BY <1>18, LocalsEnd DEF Ended
    <3>2. known' = known
      BY <1>18, <3>1
    <3>3. QED
      BY <1>18, <3>1, <3>2
  <2>4. QED
    BY <1>18, <2>1, <2>2, <2>3
<1>7. ASSUME NEW a \in Actors, WriteTable(a) PROVE NamesInv'
  <2>1. Ended(a, "list") /\ UNCHANGED <<plug, todo>> /\ (Alone' <=> Alone) /\ pc[a] = "write"
    BY <1>7 DEF WriteTable, Healed
  <2>2. Whole' => NamesUnambiguous'
    BY <1>7, <2>1, WriteIsWhole DEF NamesUnambiguous
  <2>3. Running' \subseteq Running /\ a \in Running
    BY <2>1 DEF Ended
  <2>4. QED
    BY <1>18, <2>1, <2>2, <2>3
<1>8. CASE TakeEvent
  BY <1>4, <1>8 DEF TakeEvent, rows, Actors
<1>15. CASE Poll
  BY <1>4, <1>15 DEF Poll, rows, Actors
<1>9. CASE Announce
  BY <1>9 DEF Announce, rows, Actors, NamesUnambiguous, Resolved
<1>17. CASE AnnounceIfNew
  BY <1>17 DEF AnnounceIfNew, rows, Actors, NamesUnambiguous, Resolved
<1>19. ASSUME NEW a \in Actors, NEW l \in {"idle", "dead"}, Ended(a, l),
              UNCHANGED <<plug, known, name, present, todo, overlap>>
       PROVE  NamesInv'
  <2>1. Running' \subseteq Running
    BY <1>19 DEF Ended
  <2>2. NamesUnambiguous' <=> NamesUnambiguous
    BY <1>19 DEF NamesUnambiguous, Resolved
  <2>3. QED
    BY <1>18, <1>19, <2>1, <2>2
<1>10. CASE WatcherDies
  BY <1>10, <1>19 DEF WatcherDies, rows, Actors
<1>11. ASSUME NEW b \in Tabs, React(b) \/ Open(b) PROVE NamesInv'
  BY <1>4, <1>11 DEF React, Open, rows, Actors
<1>12. ASSUME NEW b \in Tabs, Show(b) PROVE NamesInv'
  <2>1. /\ UNCHANGED <<plug, known, name, present, todo, found, old, overlap>>
        /\ b \in Actors /\ pc' = [pc EXCEPT ![b] = "idle"]
    BY <1>12 DEF Show, rows, Actors
  <2>2. Running' \subseteq Running
    BY <2>1
  <2>3. \A a \in Actors : pc'[a] = pc[a] \/ pc'[a] = "idle"
    BY <2>1
  <2>4. NamesUnambiguous' <=> NamesUnambiguous
    BY <2>1 DEF NamesUnambiguous, Resolved
  <2>5. QED
    BY <2>1, <2>2, <2>3, <2>4
<1>20. ASSUME NEW b \in Tabs, RequestFails(b) PROVE NamesInv'
  BY <1>19, <1>20 DEF RequestFails, rows, Actors
<1>16. ASSUME NEW b \in Tabs, Lose(b) \/ Reconnect(b) PROVE NamesInv'
  BY <1>16 DEF Lose, Reconnect, rows, NamesUnambiguous, Resolved
<1>13. CASE UNCHANGED vars
  BY <1>13 DEF vars, rows, NamesUnambiguous, Resolved
<1>14. QED
  BY <1>1, <1>2, <1>5, <1>6, <1>7, <1>8, <1>9, <1>10, <1>11, <1>12, <1>13, <1>15, <1>16,
     <1>17, <1>20
  DEF Next, Hardware, Discovery, Watch, Tab

\* As long as discoveries run one at a time, and again once one has run alone, no two
\* adapters resolve to one kernel name, however the hardware changes under the probes.
THEOREM NamesStayUnambiguous == Spec => []UnambiguousAlone
<1>1. NameTypes /\ NamesInv => UnambiguousAlone
  BY DEF NamesInv, UnambiguousAlone
<1>2. QED
  BY <1>1, NamesInit, TypesNext, NamesNext, PTL DEF Spec

---------------------------------------------------------------------------
(* What a discovery finds, however often it is overlapped                   *)

\* While it probes, a radio has been away since the discovery began, or its name is
\* still to be probed, or was found as it is now.
ToldRight(a, r) ==
  /\ pc[a] \in {"probe", "write"} => plug[r] \in since[a][r]
  /\ pc[a] = "probe" =>
       /\ found[a][r] # Gone => found[a][r] \in since[a][r]
       /\ Gone \in since[a][r] \/ plug[r] \in todo[a] \/ found[a][r] = plug[r]
  /\ pc[a] = "write" => found[a][r] \in since[a][r]

SinceInv == \A a \in Actors, r \in Radios : ToldRight(a, r)

\* A step that neither begins nor probes nor changes the hardware.
LEMMA SinceKept ==
  ASSUME NameTypes, SinceInv, UNCHANGED <<plug, todo>>,
         \A a \in Actors : \/ pc'[a] \notin {"probe", "write"}
                           \/ /\ pc'[a] = pc[a]
                              /\ found'[a] = found[a] /\ since'[a] = since[a]
  PROVE  SinceInv'
<1>1. ASSUME NEW a \in Actors, NEW r \in Radios PROVE ToldRight(a, r)'
  BY DEF SinceInv, ToldRight
<1>2. QED
  BY <1>1 DEF SinceInv

LEMMA SinceNext ==
  ASSUME NameTypes, SinceInv, [Next]_vars
  PROVE  SinceInv'
<1> USE NamesAreApart DEF NameTypes, past
<1>1. ASSUME NEW r \in Radios, NEW n, Changed(r, n), plug[r] = Gone \/ n = Gone
      PROVE  SinceInv'
  <2>1. UNCHANGED <<pc, todo, found>> /\ plug' = [plug EXCEPT ![r] = n]
    BY <1>1 DEF Changed
  <2>2. \A a \in Actors, s \in Radios : pc[a] \in {"probe", "write"} =>
          since'[a][s] = IF s = r THEN since[a][s] \cup {n} ELSE since[a][s]
    BY <1>1 DEF Changed
  <2>3. ASSUME NEW a \in Actors, pc[a] \in {"probe", "write"}
        PROVE  Gone \in since'[a][r] /\ plug'[r] \in since'[a][r]
    <3>1. since'[a][r] = since[a][r] \cup {n} /\ plug'[r] = n
      BY <2>1, <2>2, <2>3
    <3>2. plug[r] \in since[a][r]
      BY <2>3 DEF SinceInv, ToldRight
    <3>3. QED
      BY <1>1, <3>1, <3>2
  <2>4. ASSUME NEW s \in Radios, s # r
        PROVE  plug'[s] = plug[s]
               /\ \A a \in Actors : pc[a] \in {"probe", "write"} => since'[a][s] = since[a][s]
    BY <2>1, <2>2, <2>4
  <2>5. ASSUME NEW a \in Actors, NEW s \in Radios PROVE ToldRight(a, s)'
    <3>0. ToldRight(a, s)
      BY DEF SinceInv
    <3>1. CASE s = r
      BY <2>1, <2>2, <2>3, <3>0, <3>1 DEF ToldRight
    <3>2. CASE s # r
      BY <2>1, <2>4, <3>0, <3>2 DEF ToldRight
    <3>3. QED
      BY <3>1, <3>2
  <2>6. QED
    BY <2>5 DEF SinceInv
<1>2. ASSUME NEW a \in Actors, Begin(a), UNCHANGED plug PROVE SinceInv'
  <2>1. /\ pc'[a] = "probe" /\ todo'[a] = Used
        /\ \A r \in Radios : found'[a][r] = Gone /\ since'[a][r] = {plug[r]}
    BY <1>2 DEF Begin, Nothing
  <2>2. \A b \in Actors \ {a} : /\ pc'[b] = pc[b] /\ todo'[b] = todo[b]
                                /\ found'[b] = found[b] /\ since'[b] = since[b]
    BY <1>2 DEF Begin
  <2>3. \A r \in Radios : plug[r] = Gone \/ plug[r] \in Used
    BY DEF Used
  <2>4. ASSUME NEW b \in Actors, NEW r \in Radios PROVE ToldRight(b, r)'
    <3>1. CASE b = a
      BY <1>2, <2>1, <2>3, <3>1 DEF ToldRight
    <3>2. CASE b # a
      BY <1>2, <2>2, <3>2 DEF SinceInv, ToldRight
    <3>3. QED
      BY <3>1, <3>2
  <2>5. QED
    BY <2>4 DEF SinceInv
<1>3. ASSUME NEW a \in Actors, NEW n \in Names, Probe(a, n) PROVE SinceInv'
  <2>1. UNCHANGED <<plug, pc, since>>
        /\ \A b \in Actors \ {a} : todo'[b] = todo[b] /\ found'[b] = found[b]
    BY <1>3 DEF Probe
  <2>2. pc[a] = "probe" /\ todo'[a] = todo[a] \ {n}
        /\ \A r \in Radios : found'[a][r] = IF plug[r] = n THEN n ELSE found[a][r]
    BY <1>3 DEF Probe
  <2>3. ASSUME NEW b \in Actors, NEW r \in Radios PROVE ToldRight(b, r)'
    <3>0. ToldRight(b, r)
      BY DEF SinceInv
    <3>1. CASE b = a /\ plug[r] = n
      BY <2>1, <2>2, <3>0, <3>1 DEF ToldRight
    <3>2. CASE b = a /\ plug[r] # n
      BY <2>1, <2>2, <3>0, <3>2 DEF ToldRight
    <3>3. CASE b # a
      BY <2>1, <3>0, <3>3 DEF ToldRight
    <3>4. QED
      BY <3>1, <3>2, <3>3
  <2>4. QED
    BY <2>3 DEF SinceInv
<1>4. ASSUME NEW a \in Actors, ReadTable(a) PROVE SinceInv'
  <2>1. UNCHANGED <<plug, todo, found, since>> /\ pc' = [pc EXCEPT ![a] = "write"]
        /\ pc[a] = "probe" /\ todo[a] = {}
    BY <1>4 DEF ReadTable
  <2>2. ASSUME NEW b \in Actors, NEW r \in Radios PROVE ToldRight(b, r)'
    <3>0. ToldRight(b, r) /\ pc'[b] = IF b = a THEN "write" ELSE pc[b]
      BY <2>1 DEF SinceInv
    <3>1. CASE b = a
      BY <2>1, <3>0, <3>1 DEF ToldRight
    <3>2. CASE b # a
      BY <2>1, <3>0, <3>2 DEF ToldRight
    <3>3. QED
      BY <3>1, <3>2
  <2>3. QED
    BY <2>2 DEF SinceInv
<1>5. ASSUME NEW a \in Actors, NEW l \in {"list", "idle", "dead"}, Ended(a, l),
             UNCHANGED <<plug, todo>>
      PROVE  SinceInv'
  BY <1>5, SinceKept DEF Ended
<1>6. ASSUME NEW a \in Actors, pc' = [pc EXCEPT ![a] = "idle"],
             UNCHANGED <<plug, todo, found, since>>
      PROVE  SinceInv'
  BY <1>6, SinceKept
<1>7. ASSUME UNCHANGED <<plug, pc, todo, found, since>> PROVE SinceInv'
  BY <1>7, SinceKept
<1>8. CASE Hardware
  BY <1>1, <1>8 DEF Hardware, PlugIn, Unplug
<1>9. ASSUME NEW a \in Actors, Discovery(a) PROVE SinceInv'
  BY <1>3, <1>4, <1>5, <1>9 DEF Discovery, WriteTable
<1>10. CASE Watch
  BY <1>2, <1>5, <1>6, <1>10
  DEF Watch, TakeEvent, Announce, Poll, AnnounceIfNew, WatcherDies, Actors
<1>11. ASSUME NEW b \in Tabs, Tab(b) \/ Open(b) PROVE SinceInv'
  BY <1>2, <1>5, <1>6, <1>11 DEF Tab, React, Show, RequestFails, Open, Actors
<1>12. ASSUME NEW b \in Tabs, Lose(b) \/ Reconnect(b) PROVE SinceInv'
  BY <1>7, <1>12 DEF Lose, Reconnect
<1>13. CASE UNCHANGED vars
  BY <1>7, <1>13 DEF vars
<1>14. QED
  BY <1>8, <1>9, <1>10, <1>11, <1>12, <1>13 DEF Next

\* interfaces.py:87-120: whatever a discovery is about to write of an adapter was true at
\* some moment since it began, however the hardware changes under its probes and however
\* many discoveries overlap it.
THEOREM DiscoveriesAreTrue == Spec => []FoundWasTrue
<1>1. Init => SinceInv
  BY DEF Init, SinceInv, ToldRight
<1>2. SinceInv => FoundWasTrue
  BY DEF SinceInv, ToldRight, FoundWasTrue
<1>3. QED
  BY <1>1, <1>2, NamesInit, TypesNext, SinceNext, PTL DEF Spec

---------------------------------------------------------------------------
(* Events, queues and views                                                 *)

\* Every pending event stands for a change that happened, and no queue outgrows
\* the size it was given.
EventsInv ==
  /\ polling \in BOOLEAN /\ changes \in Nat /\ udev \in 0..changes
  /\ losses \in Nat /\ changes + losses <= MaxFaults[polling]
  /\ queue \in [Tabs -> 0..QueueSize]
  /\ shown \in [Tabs -> [Radios -> Names \cup {Gone}]]
  /\ last \in (SUBSET (Radios \X BOOLEAN)) \cup {Gone}
  /\ linked \subseteq Tabs

LEMMA EventsInit == Init => EventsInv
<1> SUFFICES ASSUME Init PROVE EventsInv
  OBVIOUS
<1>1. /\ polling \in BOOLEAN /\ changes = 0 /\ udev = 0 /\ losses = 0
      /\ queue \in [Tabs -> 0..QueueSize]
  BY BoundsArePositive DEF Init
<1>6. changes + losses <= MaxFaults[polling]
  BY <1>1, BoundsArePositive
<1>2. plug \in [Radios -> Names \cup {Gone}]
  BY DEF Init
<1>3. shown \in [Tabs -> [Radios -> Names \cup {Gone}]]
  BY <1>2 DEF Init
<1>4. last \in (SUBSET (Radios \X BOOLEAN)) \cup {Gone} /\ linked \subseteq Tabs
  BY DEF Init
<1>5. QED
  BY <1>1, <1>3, <1>4, <1>6 DEF EventsInv

LEMMA EventsNext == NameTypes /\ EventsInv /\ [Next]_vars => EventsInv'
<1> SUFFICES ASSUME NameTypes, EventsInv, [Next]_vars PROVE EventsInv'
  OBVIOUS
<1> USE BoundsArePositive DEF EventsInv
<1>14. MaxFaults[polling] \in Nat
  OBVIOUS
<1>1. ASSUME NEW r \in Radios, NEW n, Changed(r, n) PROVE EventsInv'
  BY <1>1, <1>14 DEF Changed, Bounded, feeds
<1>2. ASSUME Broadcast \/ UNCHANGED queue,
             UNCHANGED <<polling, changes, udev, shown, linked, losses>>,
             last' = last \/ last' = Snapshot
      PROVE  EventsInv'
  <2>1. Snapshot \in SUBSET (Radios \X BOOLEAN)
    BY DEF Snapshot, NameTypes
  <2>2. queue' \in [Tabs -> 0..QueueSize]
    BY <1>2 DEF Broadcast
  <2>3. QED
    BY <1>2, <2>1, <2>2
<1>3. ASSUME UNCHANGED <<changes, udev, queue, shown, feeds>> PROVE EventsInv'
  BY <1>3 DEF feeds
<1>4. CASE TakeEvent
  BY <1>4 DEF TakeEvent, feeds
<1>5. ASSUME NEW b \in Tabs, React(b) PROVE EventsInv'
  BY <1>5 DEF React, feeds
<1>6. ASSUME NEW b \in Tabs, Show(b) PROVE EventsInv'
  BY <1>6 DEF Show, NameTypes, Resolved, feeds
<1>7. \A r \in Radios : Unplug(r) \/ (\E n \in Names : PlugIn(r, n)) => EventsInv'
  BY <1>1 DEF Unplug, PlugIn
<1>8. \A a \in Actors : Discovery(a) => EventsInv'
  BY <1>3 DEF Discovery, Probe, ReadTable, WriteTable
<1>9. Announce \/ AnnounceIfNew \/ WatcherDies => EventsInv'
  BY <1>2 DEF Announce, AnnounceIfNew, WatcherDies, feeds
<1>10. Poll \/ (\E b \in Tabs : Open(b) \/ RequestFails(b)) => EventsInv'
  BY <1>3 DEF Poll, Open, RequestFails
<1>12. ASSUME NEW b \in Tabs, Lose(b) PROVE EventsInv'
  BY <1>12, <1>14 DEF Lose, Bounded
<1>13. ASSUME NEW b \in Tabs, Reconnect(b) PROVE EventsInv'
  BY <1>13 DEF Reconnect
<1>11. QED
  BY <1>3, <1>4, <1>5, <1>6, <1>7, <1>8, <1>9, <1>10, <1>12, <1>13
  DEF Next, Hardware, Watch, Tab, vars

\* events.py:37: whatever browsers and hardware do, a subscriber's queue holds no more
\* than its size, and table, discoveries and views keep their types.
THEOREM HotplugTypes == Spec => []TypeOK
<1>1. NameTypes /\ EventsInv => TypeOK
  <2> SUFFICES ASSUME NameTypes, EventsInv PROVE TypeOK
    OBVIOUS
  <2>1. changes \in 0..MaxFaults[polling] /\ losses \in 0..(MaxFaults[polling] - changes)
    BY BoundsArePositive DEF EventsInv
  <2>2. QED
    BY <2>1 DEF NameTypes, EventsInv, TypeOK
<1>2. QED
  BY <1>1, NamesInit, TypesNext, EventsInit, EventsNext, PTL DEF Spec

---------------------------------------------------------------------------
(* The table and the views at quiet moments                                 *)

\* How far a discovery has come that no change of the hardware has outdated.
Current(a) ==
  /\ pc[a] = "probe" =>
       \A r \in Radios : plug[r] \in todo[a] \/ found[a][r] = plug[r]
  /\ pc[a] = "write" => \A r \in Radios : found[a][r] = plug[r]
  /\ pc[a] = "list" => \A r \in Radios : Resolved[r] = plug[r]

\* When all events are taken, a discovery that nobody overlaps has seen the hardware as
\* it is, and its write makes the table right whatever was there.  Until discoveries
\* overlap, a tab that shows something else has an event to react to or is about to be
\* sent one.
QuietInv ==
  /\ losses = 0 => linked = Tabs
  /\ overlap = "past" => \A a \in Actors : pc[a] # "list"
  /\ ~polling /\ Alone /\ udev = 0 =>
       /\ \A a \in Actors : Current(a)
       /\ Running = {} /\ Whole => \A r \in Radios : Resolved[r] = plug[r]
       /\ overlap = "never" /\ losses = 0 /\ Watcher \notin Running =>
            \A b \in Tabs : queue[b] = 0 /\ b \notin Running =>
              \A r \in Radios : shown[b][r] = plug[r]

LEMMA QuietInit == Init => QuietInv
<1> SUFFICES ASSUME Init PROVE QuietInv
  OBVIOUS
<1>1. \A a \in Actors : Current(a)
  BY DEF Init, Current
<1>2. \A r \in Radios : Resolved[r] = plug[r]
  BY DEF Init, Resolved
<1>3. QED
  BY <1>1, <1>2 DEF Init, QuietInv

LEMMA QuietNext ==
  ASSUME NameTypes, NamesInv, EventsInv, QuietInv, [Next]_vars
  PROVE  QuietInv'
<1> USE NamesAreApart DEF QuietInv, Alone, Whole, past
<1> DEFINE Asked == ~polling /\ Alone /\ udev = 0
\* The hardware changes: there is an event to take.
<1>1. ASSUME NEW r \in Radios, NEW n, Changed(r, n) PROVE QuietInv'
  BY <1>1 DEF Changed, feeds, EventsInv
\* A discovery begins.
<1>2. ASSUME NEW a \in Actors, Begin(a),
             UNCHANGED <<plug, known, name, present, shown, feeds>>,
             a \in Tabs => udev' = udev /\ \A b \in Tabs : b # a => queue'[b] = queue[b]
      PROVE  QuietInv'
  <2>1. pc' = [pc EXCEPT ![a] = "probe"] /\ a \in Running'
    BY <1>2 DEF Begin, NameTypes, Running
  <2>2. ASSUME Alone' PROVE Running = {} /\ (overlap' = "never" => overlap = "never")
    BY <1>2, <2>2 DEF Begin
  <2>3. ASSUME Asked' PROVE \A b \in Actors : Current(b)'
    <3> TAKE b \in Actors
    <3>1. CASE b = a
      <4>1. todo'[a] = Used /\ \A r \in Radios : found'[a][r] = Gone
        BY <1>2 DEF Begin, NameTypes, Nothing
      <4>2. plug' = plug
        BY <1>2
      <4>3. QED
        BY <2>1, <3>1, <4>1, <4>2 DEF Current, Used, NameTypes
    <3>2. CASE b # a
      <4>1. pc[b] \notin {"probe", "write", "list"} /\ pc'[b] = pc[b]
        BY <2>1, <2>2, <2>3, <3>2 DEF Running, NameTypes
      <4>2. QED
        BY <4>1 DEF Current
    <3>3. QED
      BY <3>1, <3>2
  <2>4. ASSUME Asked', overlap' = "never", losses' = 0, Watcher \notin Running'
        PROVE  \A b \in Tabs : queue'[b] = 0 /\ b \notin Running' =>
                 \A r \in Radios : shown'[b][r] = plug'[r]
    <3>1. a \in Tabs
      BY <2>1, <2>4 DEF Actors
    <3>2. Asked /\ overlap = "never" /\ losses = 0 /\ Watcher \notin Running
      BY <1>2, <2>2, <2>4, <3>1 DEF feeds
    <3>3. \A b \in Tabs : b \notin Running' => b # a /\ b \notin Running
      BY <2>1 DEF NameTypes, Actors, Running
    <3>4. QED
      BY <1>2, <3>1, <3>2, <3>3
  <2>5. losses' = 0 => linked' = Tabs
    BY <1>2 DEF feeds
  <2>7. overlap' = "past" => \A b \in Actors : pc'[b] # "list"
    BY <2>1, <2>2 DEF Running, NameTypes
  <2>6. QED
    BY <2>1, <2>3, <2>4, <2>5, <2>7
\* A discovery goes on; no view and no event changes.
<1>3. ASSUME NEW a \in Actors, Discovery(a),
             Asked /\ (\A b \in Actors : Current(b)) => \A b \in Actors : Current(b)'
      PROVE  QuietInv'
  <2>1. UNCHANGED <<plug, udev, queue, shown, feeds>> /\ (Alone' <=> Alone)
        /\ (overlap' = "never" => overlap = "never")
    BY <1>3 DEF Discovery, Probe, ReadTable, WriteTable, Ended, Healed
  <2>2. pc[a] \in {"probe", "write"}
        /\ \E l \in {"probe", "write", "list"} : pc' = [pc EXCEPT ![a] = l]
    BY <1>3 DEF Discovery, Probe, ReadTable, WriteTable, Ended, NameTypes
  <2>4. Running' = Running /\ a \in Running
    BY <2>2 DEF Running, NameTypes
  <2>5. overlap' = "past" => \A b \in Actors : pc'[b] # "list"
    BY <1>3 DEF Discovery, Probe, ReadTable, WriteTable, Ended, Healed, NameTypes
  <2>3. QED
    BY <1>3, <2>1, <2>4, <2>5 DEF feeds
<1>4. ASSUME NEW a \in Actors, NEW n \in Names, Probe(a, n) PROVE QuietInv'
  <2>1. UNCHANGED <<plug, pc, known, name, present>>
        /\ \A b \in Actors : b # a => todo'[b] = todo[b] /\ found'[b] = found[b]
    BY <1>4 DEF Probe, rows, NameTypes
  <2>2. pc[a] = "probe" /\ todo'[a] = todo[a] \ {n}
        /\ \A r \in Radios : found'[a][r] = IF plug[r] = n THEN n ELSE found[a][r]
    BY <1>4 DEF Probe, NameTypes
  <2>3. \A b \in Actors : Current(b) => Current(b)'
    BY <2>1, <2>2 DEF Current, Resolved
  <2>4. QED
    BY <1>3, <1>4, <2>3 DEF Discovery
<1>5. ASSUME NEW a \in Actors, ReadTable(a) PROVE QuietInv'
  <2>1. UNCHANGED <<plug, found, todo, known, name, present>>
        /\ \A b \in Actors : b # a => pc'[b] = pc[b]
    BY <1>5 DEF ReadTable, rows, NameTypes
  <2>2. pc[a] = "probe" /\ pc'[a] = "write" /\ todo[a] = {}
    BY <1>5 DEF ReadTable, NameTypes
  <2>3. \A b \in Actors : Current(b) => Current(b)'
    BY <2>1, <2>2 DEF Current, Resolved
  <2>4. QED
    BY <1>3, <1>5, <2>3 DEF Discovery
<1>6. ASSUME NEW a \in Actors, WriteTable(a) PROVE QuietInv'
  <2>1. plug' = plug /\ \A b \in Actors : b # a => pc'[b] = pc[b]
    BY <1>6 DEF WriteTable, Ended, NameTypes
  <2>2. pc[a] = "write" /\ pc'[a] = "list"
    BY <1>6 DEF WriteTable, Ended, NameTypes
  <2>3. ASSUME Alone PROVE \A r \in Radios : Resolved'[r] = found[a][r]
    BY <1>6, <2>2, <2>3, WriteIsWhole
  <2>4. ASSUME Alone, NEW b \in Actors, b # a PROVE b \notin Running
    BY <2>2, <2>4 DEF NamesInv, Running
  <2>5. ASSUME Asked, \A b \in Actors : Current(b)
        PROVE  \A b \in Actors : Current(b)'
    <3> TAKE b \in Actors
    <3>1. CASE b = a
      BY <2>1, <2>2, <2>3, <2>5, <3>1 DEF Current
    <3>2. CASE b # a
      BY <2>1, <2>4, <2>5, <3>2 DEF Current, Running
    <3>3. QED
      BY <3>1, <3>2
  <2>6. QED
    BY <1>3, <1>6, <2>5 DEF Discovery
\* The watcher tells every tab: each has an event to react to.
<1>7. CASE Announce
  <2>1. UNCHANGED <<plug, udev, known, name, present, todo, found, shown, feeds, overlap>>
        /\ pc[Watcher] = "list" /\ pc' = [pc EXCEPT ![Watcher] = "idle"] /\ Broadcast
    BY <1>7 DEF Announce, rows
  <2>2. \A b \in Actors : pc'[b] # "idle" => pc'[b] = pc[b]
    BY <2>1 DEF NameTypes
  <2>3. \A b \in Actors : Current(b) => Current(b)'
    BY <2>1, <2>2 DEF Current, Resolved
  <2>4. Asked => \A r \in Radios : Resolved'[r] = plug'[r]
    BY <2>1 DEF Current, Resolved, Actors
  <2>5. losses = 0 => \A b \in Tabs : queue'[b] # 0
    BY <2>1, BoundsArePositive DEF Broadcast, EventsInv
  <2>6. QED
    BY <2>1, <2>3, <2>4, <2>5 DEF feeds
<1>8. CASE AnnounceIfNew
  BY <1>8 DEF AnnounceIfNew
<1>9. CASE WatcherDies
  <2>1. pc[Watcher] = "write" /\ Conflict(Watcher) /\ Watcher \in Actors
        /\ UNCHANGED <<feeds, overlap>>
    BY <1>9 DEF WatcherDies, Actors
  <2>2. ~Alone
    BY <2>1, WriteIsWhole
  <2>3. QED
    BY <2>1, <2>2 DEF feeds
\* A tab shows what the discovery it asked for has found.
<1>10. ASSUME NEW b \in Tabs, Show(b) PROVE QuietInv'
  <2>1. /\ UNCHANGED <<plug, udev, known, name, present, todo, found, queue, feeds, overlap>>
        /\ b \in Actors /\ pc[b] = "list" /\ pc' = [pc EXCEPT ![b] = "idle"]
        /\ shown' = [shown EXCEPT ![b] = Resolved]
    BY <1>10 DEF Show, rows, Actors
  <2>2. \A c \in Actors : pc'[c] # "idle" => pc'[c] = pc[c]
    BY <2>1 DEF NameTypes
  <2>3. \A c \in Actors : Current(c) => Current(c)'
    BY <2>1, <2>2 DEF Current, Resolved
  <2>4. Asked => \A r \in Radios : Resolved[r] = plug[r]
    BY <2>1 DEF Current
  <2>5. Resolved' = Resolved
    BY <2>1 DEF Resolved
  <2>6. ASSUME Asked, overlap = "never", losses = 0, NEW c \in Tabs, queue[c] = 0, c \notin Running'
        PROVE  \A r \in Radios : shown'[c][r] = plug[r]
    <3>1. CASE c = b
      BY <2>1, <2>4, <2>6, <3>1 DEF EventsInv
    <3>2. CASE c # b
      <4>1. shown'[c] = shown[c] /\ c \notin Running
        BY <2>1, <2>6, <3>2 DEF EventsInv, NameTypes, Running
      <4>2. Watcher \notin Running
        BY <2>1, <2>6 DEF NamesInv, Running, Actors
      <4>3. QED
        BY <2>6, <4>1, <4>2
    <3>3. QED
      BY <3>1, <3>2
  <2>7. QED
    BY <2>1, <2>3, <2>4, <2>5, <2>6 DEF feeds
<1>11. ASSUME NEW b \in Tabs, RequestFails(b) PROVE QuietInv'
  <2>1. pc[b] = "write" /\ Conflict(b) /\ b \in Actors /\ UNCHANGED <<feeds, overlap>>
    BY <1>11 DEF RequestFails, Actors
  <2>2. ~Alone
    BY <2>1, WriteIsWhole
  <2>3. QED
    BY <2>1, <2>2 DEF feeds
<1>12. ASSUME NEW b \in Tabs, Lose(b) PROVE QuietInv'
  <2>1. losses' # 0 /\ UNCHANGED <<plug, udev, known, name, present, pc, todo, found, polling, overlap>>
    BY <1>12 DEF Lose, rows, EventsInv
  <2>2. Running' = Running /\ Resolved' = Resolved /\ \A a \in Actors : Current(a)' <=> Current(a)
    BY <2>1 DEF Running, Resolved, Current
  <2>3. QED
    BY <2>1, <2>2
<1>13. ASSUME NEW b \in Tabs, Reconnect(b) PROVE QuietInv'
  <2>1. losses # 0 /\ losses' = losses
        /\ UNCHANGED <<plug, udev, known, name, present, pc, todo, found, polling, overlap>>
    BY <1>13 DEF Reconnect, rows
  <2>2. Running' = Running /\ Resolved' = Resolved /\ \A a \in Actors : Current(a)' <=> Current(a)
    BY <2>1 DEF Running, Resolved, Current
  <2>3. QED
    BY <2>1, <2>2
<1>14. CASE UNCHANGED vars
  BY <1>14 DEF vars, rows, feeds, Current, Running, Resolved
<1>15. \A r \in Radios : Unplug(r) \/ (\E n \in Names : PlugIn(r, n)) => QuietInv'
  BY <1>1 DEF Unplug, PlugIn
<1>16. CASE TakeEvent \/ Poll
  BY <1>2, <1>16 DEF TakeEvent, Poll, rows, Actors
<1>17. ASSUME NEW b \in Tabs, React(b) \/ Open(b) PROVE QuietInv'
  <2>1. b \in Actors /\ Begin(b) /\ UNCHANGED <<plug, known, name, present, shown, feeds>>
        /\ udev' = udev
    BY <1>17 DEF React, Open, rows, Actors
  <2>2. \A c \in Tabs : c # b => queue'[c] = queue[c]
    BY <1>17 DEF React, Open, EventsInv
  <2>3. QED
    BY <1>2, <2>1, <2>2
<1>18. QED
  BY <1>4, <1>5, <1>6, <1>7, <1>8, <1>9, <1>10, <1>11, <1>12, <1>13, <1>14, <1>15, <1>16, <1>17
  DEF Next, Hardware, Discovery, Watch, Tab

\* events.py:3-5: with udev the table is the hardware's whenever all events are taken and
\* nobody discovers, if since discoveries last overlapped one has run alone; and so is
\* what each tab shows that has no event left, if they never did and no stream broke.
THEOREM QuietMomentsAreTrue == Spec => []QuietIsTrue
<1>1. NameTypes /\ EventsInv /\ QuietInv => QuietIsTrue
  <2> SUFFICES ASSUME NameTypes, EventsInv, QuietInv, Quiet, Whole
               PROVE  /\ Truthful
                      /\ overlap = "never" /\ losses = 0 =>
                           \A b \in Tabs : queue[b] = 0 => shown[b] = plug
    BY DEF QuietIsTrue
  <2>1. \A r \in Radios : Resolved[r] = plug[r]
    BY DEF QuietInv, Quiet, Alone, Whole
  <2>2. Truthful
    BY <2>1 DEF Truthful, Resolved, NameTypes
  <2>3. ASSUME overlap = "never", losses = 0, NEW b \in Tabs, queue[b] = 0
        PROVE  shown[b] = plug
    <3>1. \A r \in Radios : shown[b][r] = plug[r]
      BY <2>3 DEF QuietInv, Quiet, Alone
    <3>2. QED
      BY <3>1 DEF EventsInv, NameTypes
  <2>4. QED
    BY <2>2, <2>3
<1>2. NameTypes /\ NamesInv /\ EventsInv /\ QuietInv /\ [Next]_vars
      => (NameTypes /\ NamesInv /\ EventsInv /\ QuietInv)'
  BY TypesNext, NamesNext, EventsNext, QuietNext
<1>3. QED
  BY <1>1, <1>2, NamesInit, EventsInit, QuietInit, PTL DEF Spec
=============================================================================
