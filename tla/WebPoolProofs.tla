---------------------------- MODULE WebPoolProofs ----------------------------
(***************************************************************************)
(* Proofs about WebPool, for any tabs, threads, connections, timeouts and   *)
(* countdown.                                                               *)
(***************************************************************************)
EXTENDS WebPool, FiniteSetTheorems, SequenceTheorems, TLAPS

---------------------------------------------------------------------------
(* Type correctness                                                         *)

IsEvents(i) == calls[i].what = "events"

\* Connections are numbered as they are made; each asks for one stream, which takes its
\* thread once and gives it back when its other end is gone and its patience used up.
Numbered ==
  /\ \A t \in Tabs : shows[t] <= made /\ link[t] <= made
  /\ \A i \in DOMAIN calls : calls[i].from <= made
  /\ \A p \in held : p <= made /\ misses[p] < Patience
  /\ \A p \in Streams : p > made => misses[p] = 0
  /\ \A i \in DOMAIN calls :
       IsEvents(i) => calls[i].from \notin held /\ misses[calls[i].from] = 0
  /\ \A i, j \in DOMAIN calls :
       IsEvents(i) /\ IsEvents(j) /\ calls[i].from = calls[j].from => i = j

PoolInv == TypeOK /\ Numbered

LEMMA PoolInit == Init => PoolInv
<1> SUFFICES ASSUME Init PROVE PoolInv
  OBVIOUS
<1>1. calls \in Seq(Call) /\ DOMAIN calls = {}
  BY DEF Init
<1>2. held = {} /\ Cardinality(held) = 0
  BY FS_EmptySet DEF Init
<1>3. /\ Threads \in Nat /\ Keepalive \in Nat /\ Patience \in Nat /\ Patience > 0
      /\ Deadline \in Nat /\ MaxStreams \in Nat
  BY TabsFitThreads, TimesArePositive
<1>4. TypeOK
  BY <1>1, <1>2, <1>3 DEF Init, TypeOK
<1>5. QED
  BY <1>1, <1>2, <1>3, <1>4 DEF Init, PoolInv, Numbered

\* The constants, and that there are finitely many connections.
LEMMA Constants ==
  /\ Threads \in Nat /\ Patience \in Nat /\ Patience > 0 /\ Keepalive \in Nat /\ Keepalive > 0
  /\ Deadline \in Nat /\ MaxStreams \in Nat
  /\ IsFiniteSet(Streams)
<1>1. /\ Threads \in Nat /\ Patience \in Nat /\ Patience > 0 /\ Keepalive \in Nat /\ Keepalive > 0
      /\ Deadline \in Nat /\ MaxStreams \in Nat
  BY TabsFitThreads, TimesArePositive
<1>2. 0 \in Int /\ 1 \in Int /\ MaxStreams \in Int
  BY <1>1
<1>3. IsFiniteSet(1..MaxStreams)
  BY <1>2, FS_Interval
<1>4. QED
  BY <1>1, <1>3 DEF Streams

\* Threads are taken one at a time.
LEMMA ThreadTaken ==
  ASSUME held \in SUBSET Streams, FreeThread, NEW p \in Streams
  PROVE  Cardinality(held \cup {p}) <= Threads
<1>1. IsFiniteSet(held)
  BY Constants, FS_Subset
<1>2. Cardinality(held) \in Nat
  BY <1>1, FS_CardinalityType
<1>3. Cardinality(held \cup {p}) = IF p \in held THEN Cardinality(held) ELSE Cardinality(held) + 1
  BY <1>1, FS_AddElement
<1>4. QED
  BY <1>2, <1>3, Constants DEF FreeThread

\* Streams that end free threads.
LEMMA ThreadsFreed ==
  ASSUME held \in SUBSET Streams, NEW S \in SUBSET held
  PROVE  /\ Cardinality(S) <= Cardinality(held)
         /\ S # held => Cardinality(S) < Cardinality(held)
<1>1. IsFiniteSet(held)
  BY Constants, FS_Subset
<1>2. IsFiniteSet(S) /\ Cardinality(S) <= Cardinality(held)
      /\ (Cardinality(held) = Cardinality(S) => held = S)
  BY <1>1, FS_Subset
<1>3. Cardinality(held) \in Nat /\ Cardinality(S) \in Nat
  BY <1>1, <1>2, FS_CardinalityType
<1>4. QED
  BY <1>2, <1>3

LEMMA FewerThreads ==
  ASSUME held \in SUBSET Streams, Cardinality(held) <= Threads, NEW S \in SUBSET held
  PROVE  Cardinality(S) <= Threads /\ (S # held => Cardinality(S) < Threads)
<1>1. IsFiniteSet(held) /\ IsFiniteSet(S)
  BY Constants, FS_Subset
<1>2. Cardinality(held) \in Nat /\ Cardinality(S) \in Nat
  BY <1>1, FS_CardinalityType
<1>3. QED
  BY <1>2, ThreadsFreed, Constants

LEMMA PoolNext == PoolInv /\ [Next]_vars => PoolInv'
<1> SUFFICES ASSUME PoolInv, [Next]_vars PROVE PoolInv'
  OBVIOUS
<1> USE Constants
<1>1. calls \in Seq(Call) /\ DOMAIN calls = 1..Len(calls) /\ Len(calls) \in Nat
  BY DEF PoolInv, TypeOK
<1>2. \A i \in DOMAIN calls : calls[i].from \in Streams
  <2>1. \A i \in DOMAIN calls : calls[i] \in Call
    BY <1>1, ElementOfSeq
  <2>2. QED
    BY <2>1 DEF Call
<1>3. ASSUME NEW t \in Tabs, Load(t) PROVE PoolInv'
  <2> DEFINE n == made + 1
             asks == <<[from |-> n, what |-> "pending"], [from |-> n, what |-> "events"]>>
  <2>1. n \in Streams /\ made' = n /\ n > made /\ shows' = [shows EXCEPT ![t] = n]
        /\ link' = [link EXCEPT ![t] = n]
        /\ UNCHANGED <<held, age, misses, offered, trial, clock, due>>
    BY <1>3 DEF Load, PoolInv, TypeOK, Streams, streams
  <2>2. asks \in Seq(Call) /\ Len(asks) = 2
    BY <2>1 DEF Call
  <2>3. calls' = calls \o asks
    BY <1>3, <2>1 DEF Load
  <2>4. asks[1] = [from |-> n, what |-> "pending"] /\ asks[2] = [from |-> n, what |-> "events"]
    OBVIOUS
  <2> HIDE DEF asks
  <2>5. /\ calls' \in Seq(Call) /\ Len(calls') = Len(calls) + 2
        /\ \A i \in 1..Len(calls) : calls'[i] = calls[i]
        /\ calls'[Len(calls) + 1] = [from |-> n, what |-> "pending"]
        /\ calls'[Len(calls) + 2] = [from |-> n, what |-> "events"]
    <3>1. /\ calls' \in Seq(Call) /\ Len(calls') = Len(calls) + 2
          /\ \A i \in 1..Len(calls) + 2 :
               calls'[i] = IF i <= Len(calls) THEN calls[i] ELSE asks[i - Len(calls)]
      <4>1. /\ calls \o asks \in Seq(Call)
            /\ Len(calls \o asks) = Len(calls) + Len(asks)
            /\ \A i \in 1..Len(calls) + Len(asks) : (calls \o asks)[i] =
                 IF i <= Len(calls) THEN calls[i] ELSE asks[i - Len(calls)]
        BY <1>1, <2>2, ConcatProperties, Zenon
      <4>2. QED
        BY <2>2, <2>3, <4>1
    <3>2. calls'[Len(calls) + 1] = asks[1] /\ calls'[Len(calls) + 2] = asks[2]
      BY <1>1, <3>1
    <3>3. QED
      BY <1>1, <2>4, <3>1, <3>2
  <2>6. DOMAIN calls' = DOMAIN calls \cup {Len(calls) + 1, Len(calls) + 2}
    BY <1>1, <2>5, LenProperties
  <2>7. TypeOK'
    <3>1. shows' \in [Tabs -> 0..MaxStreams] /\ link' \in [Tabs -> 0..MaxStreams] /\ made' \in 0..MaxStreams
      BY <2>1 DEF PoolInv, TypeOK, Streams
    <3>2. QED
      BY <2>1, <2>5, <3>1 DEF PoolInv, TypeOK
  <2>8. Numbered'
    <3>1. \A i \in DOMAIN calls' : IsEvents(i)' =>
            \/ i \in DOMAIN calls /\ IsEvents(i) /\ calls'[i] = calls[i]
            \/ i = Len(calls) + 2 /\ calls'[i].from = n
      BY <1>1, <2>5, <2>6 DEF IsEvents
    <3>2. \A i \in DOMAIN calls : calls[i].from < n /\ calls[i].from \in Streams
      BY <1>2, <2>1 DEF PoolInv, Numbered, TypeOK, Streams
    <3>3. n \notin held /\ misses[n] = 0
      BY <2>1 DEF PoolInv, Numbered, TypeOK, Streams
    <3>4. \A i \in DOMAIN calls' :
            IsEvents(i)' => calls'[i].from \notin held' /\ misses'[calls'[i].from] = 0
      BY <2>1, <3>1, <3>3 DEF PoolInv, Numbered
    <3>5. \A i, j \in DOMAIN calls' :
            IsEvents(i)' /\ IsEvents(j)' /\ calls'[i].from = calls'[j].from => i = j
      BY <3>1, <3>2 DEF PoolInv, Numbered, Streams
    <3>6. \A i \in DOMAIN calls' : calls'[i].from <= made'
      BY <1>1, <2>1, <2>5, <2>6, <3>2 DEF Streams
    <3>7. \A u \in Tabs : shows'[u] <= made' /\ link'[u] <= made'
      BY <2>1 DEF PoolInv, TypeOK, Numbered
    <3>8. /\ \A p \in held' : p <= made' /\ misses'[p] < Patience
          /\ \A p \in Streams : p > made' => misses'[p] = 0
      BY <2>1 DEF PoolInv, TypeOK, Numbered, Streams
    <3>9. QED
      BY <3>4, <3>5, <3>6, <3>7, <3>8 DEF Numbered
  <2>9. QED
    BY <2>1, <2>7, <2>8 DEF PoolInv
<1>4. ASSUME NEW t \in Tabs, Leave(t) \/ Break(t) PROVE PoolInv'
  <2>1. /\ UNCHANGED <<made, calls, held, age, misses, offered, trial, clock, due>>
        /\ shows' \in {shows, [shows EXCEPT ![t] = 0]} /\ link' = [link EXCEPT ![t] = 0]
    BY <1>4 DEF Leave, Break, streams
  <2>2. TypeOK'
    <3>1. shows' \in [Tabs -> 0..MaxStreams] /\ link' \in [Tabs -> 0..MaxStreams]
      <4>1. /\ shows \in [Tabs -> 0..MaxStreams] /\ link \in [Tabs -> 0..MaxStreams]
            /\ 0 \in 0..MaxStreams
        BY DEF PoolInv, TypeOK
      <4>2. [shows EXCEPT ![t] = 0] \in [Tabs -> 0..MaxStreams]
        BY <4>1
      <4>3. [link EXCEPT ![t] = 0] \in [Tabs -> 0..MaxStreams]
        BY <4>1
      <4>4. QED
        BY <2>1, <4>1, <4>2, <4>3
    <3>2. QED
      BY <2>1, <3>1 DEF PoolInv, TypeOK
  <2>3. \A u \in Tabs : shows'[u] <= made' /\ link'[u] <= made'
    BY <2>1 DEF PoolInv, TypeOK, Numbered
  <2>4. QED
    BY <2>1, <2>2, <2>3 DEF PoolInv, Numbered, IsEvents
<1>4a. ASSUME NEW t \in Tabs, Reconnect(t) PROVE PoolInv'
  <2> DEFINE n == made + 1
             c == [from |-> n, what |-> "events"]
  <2>1. n \in Streams /\ made' = n /\ n > made /\ link' = [link EXCEPT ![t] = n] /\ c \in Call
        /\ UNCHANGED <<shows, held, age, misses, offered, trial, clock, due>>
    BY <1>4a DEF Reconnect, PoolInv, TypeOK, Streams, Call, streams
  <2>2. calls' = Append(calls, c)
    BY <1>4a, <2>1 DEF Reconnect
  <2>3. /\ calls' \in Seq(Call) /\ Len(calls') = Len(calls) + 1
        /\ \A i \in 1..Len(calls) : calls'[i] = calls[i]
        /\ calls'[Len(calls) + 1] = c
    BY <1>1, <2>1, <2>2
  <2>4. DOMAIN calls' = DOMAIN calls \cup {Len(calls) + 1}
    BY <1>1, <2>3
  <2>5. TypeOK'
    <3>1. link \in [Tabs -> 0..MaxStreams] /\ n \in 0..MaxStreams
      BY <2>1 DEF PoolInv, TypeOK, Streams
    <3>2. link' \in [Tabs -> 0..MaxStreams] /\ made' \in 0..MaxStreams
      BY <2>1, <3>1
    <3>3. QED
      BY <2>1, <2>3, <3>2 DEF PoolInv, TypeOK
  <2>6. Numbered'
    <3>1. \A i \in DOMAIN calls' : \/ (i \in DOMAIN calls /\ calls'[i] = calls[i])
                                    \/ (i = Len(calls) + 1 /\ calls'[i].from = n)
      BY <1>1, <2>3, <2>4
    <3>2. \A i \in DOMAIN calls : calls[i].from < n /\ calls[i].from \in Streams
      BY <1>2, <2>1 DEF PoolInv, Numbered, TypeOK, Streams
    <3>3. n \notin held /\ misses[n] = 0
      BY <2>1 DEF PoolInv, Numbered, TypeOK, Streams
    <3>4. \A i \in DOMAIN calls' :
            IsEvents(i)' => calls'[i].from \notin held' /\ misses'[calls'[i].from] = 0
      BY <2>1, <3>1, <3>3 DEF PoolInv, Numbered, IsEvents
    <3>5. \A i, j \in DOMAIN calls' :
            IsEvents(i)' /\ IsEvents(j)' /\ calls'[i].from = calls'[j].from => i = j
      BY <3>1, <3>2 DEF PoolInv, Numbered, Streams, IsEvents
    <3>6. \A i \in DOMAIN calls' : calls'[i].from <= made'
      BY <2>1, <3>1, <3>2 DEF Streams
    <3>7. \A u \in Tabs : shows'[u] <= made' /\ link'[u] <= made'
      BY <2>1 DEF PoolInv, TypeOK, Numbered
    <3>8. /\ \A p \in held' : p <= made' /\ misses'[p] < Patience
          /\ \A p \in Streams : p > made' => misses'[p] = 0
      BY <2>1 DEF PoolInv, TypeOK, Numbered, Streams
    <3>9. QED
      BY <3>4, <3>5, <3>6, <3>7, <3>8 DEF Numbered
  <2>7. QED
    BY <2>5, <2>6 DEF PoolInv
<1>5. ASSUME NEW t \in Tabs, Confirm(t) PROVE PoolInv'
  <2> DEFINE c == [from |-> shows[t], what |-> "confirm"]
  <2>1. shows[t] \in Streams /\ c \in Call /\ shows[t] <= made
    BY <1>5 DEF Confirm, PoolInv, TypeOK, Call, Numbered
  <2>2. calls' = Append(calls, c)
    BY <1>5 DEF Confirm
  <2>3. /\ calls' \in Seq(Call) /\ Len(calls') = Len(calls) + 1
        /\ \A i \in 1..Len(calls) : calls'[i] = calls[i]
        /\ calls'[Len(calls) + 1] = c
    BY <1>1, <2>1, <2>2
  <2>4. DOMAIN calls' = DOMAIN calls \cup {Len(calls) + 1}
    BY <1>1, <2>3
  <2>5. \A i \in DOMAIN calls' : IsEvents(i)' =>
            i \in DOMAIN calls /\ IsEvents(i) /\ calls'[i] = calls[i]
    BY <1>1, <2>3, <2>4 DEF IsEvents
  <2>6. UNCHANGED <<pages, held, age, misses, trial, clock>> /\ offered' \subseteq offered
    BY <1>5 DEF Confirm, streams
  <2>7. due' \in 0..Deadline
    <3>1. clock + Wait < due => clock + Wait \in 0..Deadline
      <4>1. IsFiniteSet({i \in DOMAIN calls : IsEvents(i)})
        <5>1. IsFiniteSet(1..Len(calls))
          BY <1>1, FS_Interval
        <5>2. {i \in DOMAIN calls : IsEvents(i)} \in SUBSET (1..Len(calls))
          BY <1>1
        <5>3. QED
          BY <5>1, <5>2, FS_Subset
      <4>2. Cardinality({i \in DOMAIN calls : IsEvents(i)}) \in Nat
        BY <4>1, FS_CardinalityType
      <4>3. Keepalive * Patience \in Nat
        OBVIOUS
      <4>3a. \A m, k \in Nat : m * (1 + k) \in Nat
        OBVIOUS
      <4>4. Wait \in Nat
        BY <4>2, <4>3, <4>3a DEF Wait, IsEvents
      <4>5. QED
        BY <4>4 DEF PoolInv, TypeOK
    <3>2. QED
      BY <1>5, <3>1 DEF Confirm, PoolInv, TypeOK
  <2>8. TypeOK'
    BY <2>3, <2>6, <2>7 DEF PoolInv, TypeOK, pages
  <2>9. Numbered'
    BY <1>1, <2>1, <2>3, <2>4, <2>5, <2>6 DEF PoolInv, Numbered, pages
  <2>10. QED
    BY <2>6, <2>8, <2>9 DEF PoolInv
<1>6. CASE Serve
  <2> DEFINE c == Head(calls)
  <2>1. calls # <<>> /\ FreeThread /\ Answer(c) /\ calls' = Tail(calls)
        /\ UNCHANGED <<pages, age, misses, due>>
    BY <1>6 DEF Serve
  <2>2. c \in Call /\ c = calls[1] /\ 1 \in DOMAIN calls
    BY <1>1, <2>1
  <2>3. /\ calls' \in Seq(Call) /\ Len(calls') = Len(calls) - 1
        /\ \A i \in 1..Len(calls') : calls'[i] = calls[i + 1]
    BY <1>1, <2>1, HeadTailProperties
  <2>4. \A i \in DOMAIN calls' : /\ i \in Nat /\ i + 1 \in DOMAIN calls /\ i + 1 # 1
                                 /\ calls'[i] = calls[i + 1]
    BY <1>1, <2>3
  <2>5. CASE c.what = "events"
    <3>1. held' = held \cup {c.from} /\ UNCHANGED <<offered, trial, clock>>
      BY <2>1, <2>5 DEF Answer
    <3>2. c.from \in Streams /\ c.from <= made
          /\ c.from \notin held /\ misses[c.from] = 0
      BY <1>2, <2>2, <2>5 DEF PoolInv, Numbered, IsEvents
    <3>3. Cardinality(held') <= Threads
      BY <2>1, <3>1, <3>2, ThreadTaken DEF PoolInv, TypeOK
    <3>4. \A i \in DOMAIN calls' : IsEvents(i)' => calls'[i].from # c.from
      BY <2>2, <2>4, <2>5 DEF PoolInv, Numbered, IsEvents
    <3>5. TypeOK'
      BY <2>1, <2>3, <3>1, <3>2, <3>3 DEF PoolInv, TypeOK, pages
    <3>6. Numbered'
      BY <2>1, <2>4, <3>1, <3>2, <3>4 DEF PoolInv, Numbered, IsEvents, pages
    <3>7. QED
      BY <2>1, <3>1, <3>5, <3>6 DEF PoolInv
  <2>6. CASE c.what # "events"
    <3>1. /\ held' = held /\ trial' \in {trial, "kept"} /\ clock' \in {clock, 0}
          /\ offered' \in {offered, offered \cup {c.from}}
      BY <2>1, <2>2, <2>6 DEF Answer, Call
    <3>2. TypeOK'
      BY <2>1, <2>2, <2>3, <3>1 DEF PoolInv, TypeOK, pages, Call
    <3>3. Numbered'
      BY <2>1, <2>4, <3>1 DEF PoolInv, Numbered, IsEvents, pages
    <3>4. QED
      BY <2>1, <3>1, <3>2, <3>3 DEF PoolInv
  <2>7. QED
    BY <2>5, <2>6
<1>7. ASSUME NEW S \in SUBSET held, Write(S) PROVE PoolInv'
  <2>1. UNCHANGED <<pages, calls, offered, trial, clock, due>> /\ held' \in SUBSET held
    BY <1>7 DEF Write
  <2>2. \A p \in Streams : /\ misses'[p] \in 0..Patience /\ age'[p] \in 0..Keepalive
                           /\ p \in held' => misses'[p] < Patience
                           /\ p \notin held => misses'[p] = misses[p]
    BY <1>7 DEF Write, PoolInv, TypeOK, Numbered
  <2>3. misses' \in [Streams -> 0..Patience] /\ age' \in [Streams -> 0..Keepalive]
    BY <1>7, <2>2 DEF Write
  <2>4. Cardinality(held') <= Threads
    BY <2>1, FewerThreads DEF PoolInv, TypeOK
  <2>5. TypeOK'
    BY <2>1, <2>3, <2>4 DEF PoolInv, TypeOK, pages
  <2>6. Numbered'
    <3>1. \A i \in DOMAIN calls : IsEvents(i)' <=> IsEvents(i)
      BY <2>1 DEF IsEvents
    <3>2. \A p \in Streams : p > made => misses'[p] = 0
      BY <2>2 DEF PoolInv, Numbered, TypeOK, Streams
    <3>3. \A i \in DOMAIN calls :
            IsEvents(i)' => calls[i].from \notin held' /\ misses'[calls[i].from] = 0
      BY <1>2, <2>1, <2>2, <3>1 DEF PoolInv, Numbered
    <3>4. \A p \in held' : p <= made /\ misses'[p] < Patience
      BY <2>1, <2>2 DEF PoolInv, Numbered, TypeOK
    <3>5. QED
      BY <2>1, <3>1, <3>2, <3>3, <3>4 DEF PoolInv, Numbered, pages
  <2>7. QED
    BY <2>5, <2>6 DEF PoolInv
<1>7a. ASSUME Event \/ \E p \in Streams : KeepAlive(p) PROVE PoolInv'
  <2>1. \E S \in SUBSET held : Write(S)
    BY <1>7a DEF Event, KeepAlive
  <2>2. QED
    BY <1>7, <2>1
<1>7b. CASE Tick
  <2>1. /\ UNCHANGED <<pages, calls, held, misses, offered, trial, due>> /\ clock' \in 0..Deadline
        /\ age' \in [Streams -> 0..Keepalive]
    BY <1>7b DEF Tick, Passed, PoolInv, TypeOK
  <2>2. QED
    BY <2>1 DEF PoolInv, TypeOK, Numbered, IsEvents, pages
<1>8. CASE Expire
  BY <1>8 DEF Expire, PoolInv, TypeOK, Numbered, IsEvents, pages, streams
<1>9. CASE UNCHANGED vars
  BY <1>9 DEF vars, PoolInv, TypeOK, Numbered, IsEvents, pages, streams
<1>10. QED
  BY <1>3, <1>4, <1>4a, <1>5, <1>6, <1>7a, <1>7b, <1>8, <1>9 DEF Next

\* Types of pages, calls, streams and the countdown: no more streams than threads,
\* and no stream that outlives its patience.
THEOREM PoolTypes == Spec => []TypeOK
<1>1. Spec => []PoolInv
  BY PoolInit, PoolNext, PTL DEF Spec
<1>2. PoolInv => TypeOK
  BY DEF PoolInv
<1>3. QED
  BY <1>1, <1>2, PTL

---------------------------------------------------------------------------
(* A Keep in time overtakes the watchdog                                    *)

\* How long a stream nobody reads can keep its thread, and how long that of p still can.
Period  == Keepalive * Patience
Left(p) == Keepalive * (Patience - misses[p]) - age[p]

\* Streams that are served before call i, and the ticks they may cost it.
Ahead(s, i) == {j \in 1..(i - 1) : s[j].what = "events"}
Cost(s, i)  == Period * Cardinality(Ahead(s, i))

LEMMA Periods ==
  /\ Period \in Nat /\ \A k \in Nat : Period * k \in Nat /\ Period * (k + 1) = Period * k + Period
  /\ \A m \in 0..Patience : /\ Keepalive * (Patience - m) \in Nat
                             /\ Keepalive * (Patience - m) <= Period
                             /\ (m < Patience => Keepalive * (Patience - m) =
                                                  Keepalive * (Patience - (m + 1)) + Keepalive)
<1>1. \A k \in Nat : Keepalive * k \in Nat /\ Keepalive * (k + 1) = Keepalive * k + Keepalive
  BY Constants
<1>2. Period \in Nat
  BY <1>1, Constants DEF Period
<1>3. \A k \in Nat : Period * k \in Nat /\ Period * (k + 1) = Period * k + Period
  BY <1>2
<1>4. ASSUME NEW m \in 0..Patience
      PROVE  /\ Keepalive * (Patience - m) \in Nat
             /\ Keepalive * (Patience - m) <= Period
             /\ (m < Patience => Keepalive * (Patience - m) =
                                  Keepalive * (Patience - (m + 1)) + Keepalive)
  <2>1. Patience - m \in Nat /\ m \in Nat /\ Patience = (Patience - m) + m
    BY Constants
  <2>2. \A x, y \in Nat : Keepalive * (x + y) = Keepalive * x + Keepalive * y
    BY Constants
  <2>3. Period = Keepalive * (Patience - m) + Keepalive * m
    BY <2>1, <2>2 DEF Period
  <2>4. m < Patience => Patience - (m + 1) \in Nat /\ Patience - m = (Patience - (m + 1)) + 1
    BY Constants
  <2>5. QED
    BY <1>1, <1>2, <2>1, <2>3, <2>4
<1>5. QED
  BY <1>2, <1>3, <1>4

\* What is left of a wait.
LEMMA Remainders ==
  /\ \A k, a, b \in Nat : k <= b => k - a \in Int /\ k - a <= b
  /\ \A k \in Int, a, b, c, d \in Nat : a + b + c <= d /\ k <= c => a + b + k <= d /\ a + b <= d
OBVIOUS

LEMMA CostIsNatural ==
  ASSUME NEW s \in Seq(Call), NEW i \in 1..Len(s)
  PROVE  /\ IsFiniteSet(Ahead(s, i)) /\ Cardinality(Ahead(s, i)) \in Nat
         /\ Cost(s, i) \in Nat
<1>1. IsFiniteSet(1..(i - 1))
  BY FS_Interval
<1>2. IsFiniteSet(Ahead(s, i))
  BY <1>1, FS_Subset DEF Ahead
<1>3. Cardinality(Ahead(s, i)) \in Nat
  BY <1>2, FS_CardinalityType
<1>4. \A k \in Nat : Period * k \in Nat
  BY Periods
<1>5. QED
  BY <1>2, <1>3, <1>4 DEF Cost

\* Calls that are queued behind cost nothing.
LEMMA CostOfPrefix ==
  ASSUME NEW s \in Seq(Call), NEW r \in Seq(Call), NEW i \in 1..Len(s),
         \A j \in 1..Len(s) : r[j] = s[j]
  PROVE  Cost(r, i) = Cost(s, i)
<1>1. Ahead(r, i) = Ahead(s, i)
  BY DEF Ahead
<1>2. QED
  BY <1>1 DEF Cost

\* A stream that takes its thread costs the calls behind it nothing any more.
LEMMA CostOfTail ==
  ASSUME NEW s \in Seq(Call), NEW i \in 2..Len(s)
  PROVE  Cost(Tail(s), i - 1) = IF s[1].what = "events" THEN Cost(s, i) - Period ELSE Cost(s, i)
<1> DEFINE A == Ahead(s, i) \ {1}
           B == Ahead(Tail(s), i - 1)
           f == [j \in B |-> j + 1]
<1>1. /\ s # <<>> /\ Len(s) \in Nat /\ Tail(s) \in Seq(Call) /\ Len(Tail(s)) = Len(s) - 1
      /\ \A j \in 1..Len(Tail(s)) : Tail(s)[j] = s[j + 1]
  <2>1. s # <<>> /\ Len(s) \in Nat
    BY EmptySeq
  <2>2. QED
    BY <2>1, HeadTailProperties
<1>2. \A j \in 1..(i - 2) : Tail(s)[j] = s[j + 1]
  BY <1>1
<1>3. \A k \in A : k - 1 \in B
  BY <1>1, <1>2 DEF Ahead
<1>4. \A j \in B : j \in Int /\ j + 1 \in A
  BY <1>1, <1>2 DEF Ahead
<1>5. A \subseteq Int
  BY DEF Ahead
<1> HIDE DEF A, B
<1>6. f \in Bijection(B, A)
  <2>1. f \in [B -> A]
    BY <1>4
  <2>2. \A j, k \in B : f[j] = f[k] => j = k
    BY <1>4
  <2>3. \A k \in A : \E j \in B : f[j] = k
    <3> TAKE k \in A
    <3>1. k - 1 \in B /\ f[k - 1] = k
      BY <1>3, <1>5
    <3>2. QED
      BY <3>1
  <2>4. QED
    BY <2>1, <2>2, <2>3, Zenon DEF Bijection, Injection, IsInjective, Surjection
<1>7. i \in 1..Len(s) /\ i - 1 \in 1..Len(Tail(s))
  BY <1>1
<1>8. IsFiniteSet(B) /\ Cardinality(B) \in Nat
  BY <1>1, <1>7, CostIsNatural DEF B
<1>9. Cardinality(A) = Cardinality(B)
  BY <1>6, <1>8, FS_Bijection DEF ExistsBijection
<1>10. IsFiniteSet(Ahead(s, i)) /\ Cardinality(Ahead(s, i)) \in Nat
  BY <1>7, CostIsNatural
<1>11. Cardinality(A) = IF 1 \in Ahead(s, i) THEN Cardinality(Ahead(s, i)) - 1
                        ELSE Cardinality(Ahead(s, i))
  BY <1>10, FS_RemoveElement DEF A
<1>12. 1 \in Ahead(s, i) <=> s[1].what = "events"
  BY DEF Ahead
<1>13. \A k \in Nat : Period * (k - 1) = Period * k - Period
  BY Periods
<1>14. QED
  BY <1>8, <1>9, <1>10, <1>11, <1>12, <1>13 DEF Cost, B

\* If no thread is free, a stream nobody reads keeps one.
LEMMA SomeoneIsGone ==
  ASSUME TypeOK, ~FreeThread
  PROVE  \E p \in held : p \notin Open
<1> SUFFICES ASSUME held \subseteq Open PROVE FALSE
  OBVIOUS
<1>1. link \in Surjection(Tabs, Open)
  BY DEF TypeOK, Open, Surjection
<1>2. IsFiniteSet(Tabs) /\ Cardinality(Tabs) < Threads
  BY TabsFitThreads
<1>3. IsFiniteSet(Open) /\ Cardinality(Open) <= Cardinality(Tabs)
  BY <1>1, <1>2, FS_Surjection
<1>4. IsFiniteSet(held) /\ Cardinality(held) <= Cardinality(Open)
  BY <1>3, FS_Subset
<1>5. Cardinality(held) \in Nat /\ Cardinality(Open) \in Nat /\ Cardinality(Tabs) \in Nat
  BY <1>2, <1>3, <1>4, FS_CardinalityType
<1>6. QED
  BY <1>2, <1>3, <1>4, <1>5, Constants DEF FreeThread

\* A Keep that was in time when it was clicked is queued, and still is in time: there
\* is a thread to take what is ahead of it, or a stream nobody reads will
\* give one back before it is too late.
OnTime(i) ==
  \/ FreeThread /\ clock + Cost(calls, i) <= due
  \/ \E p \in held : p \notin Open /\ clock + Cost(calls, i) + Left(p) <= due

InTime ==
  trial = "ticking" /\ due < Deadline =>
    \E i \in DOMAIN calls : calls[i].what = "confirm" /\ OnTime(i)

KeptInv == PoolInv /\ InTime /\ KeptInTime

LEMMA KeptInit == Init => KeptInv
<1>1. Init => InTime /\ KeptInTime
  BY Constants DEF Init, InTime, KeptInTime
<1>2. QED
  BY <1>1, PoolInit DEF KeptInv

LEMMA KeptNext == KeptInv /\ [Next]_vars => KeptInv'
<1> SUFFICES ASSUME KeptInv, [Next]_vars PROVE InTime' /\ KeptInTime'
  BY PoolNext DEF KeptInv
<1>1. /\ calls \in Seq(Call) /\ DOMAIN calls = 1..Len(calls) /\ Len(calls) \in Nat
      /\ clock \in Nat /\ clock <= Deadline /\ due \in Nat /\ due <= Deadline
      /\ held \subseteq Streams /\ misses \in [Streams -> 0..Patience] /\ TypeOK /\ Numbered
      /\ age \in [Streams -> 0..Keepalive] /\ InTime /\ KeptInTime
      /\ trial \in {"ticking", "kept", "reverted"}
  BY Constants DEF KeptInv, PoolInv, TypeOK
<1>2. PoolInv'
  BY PoolNext DEF KeptInv
<1>3. calls' \in Seq(Call) /\ DOMAIN calls' = 1..Len(calls') /\ Len(calls') \in Nat
  BY <1>2 DEF PoolInv, TypeOK
<1>4. \A i \in DOMAIN calls : Cost(calls, i) \in Nat
  BY <1>1, CostIsNatural
<1>4a. \A p \in held : Left(p) \in Nat /\ Left(p) <= Period
  <2> TAKE p \in held
  <2>1. misses[p] \in 0..Patience /\ misses[p] < Patience /\ age[p] \in 0..Keepalive
    BY <1>1 DEF Numbered
  <2>2. Keepalive * (Patience - (misses[p] + 1)) \in Nat
    BY <2>1, Periods, Constants
  <2>3. Keepalive * (Patience - misses[p]) = Keepalive * (Patience - (misses[p] + 1)) + Keepalive
        /\ Keepalive * (Patience - misses[p]) \in Nat /\ Keepalive * (Patience - misses[p]) <= Period
    BY <2>1, Periods
  <2>4. QED
    BY <2>1, <2>2, <2>3, Periods, Constants DEF Left
\* What is queued behind, and pages that come and go, change nothing for a call.
<1>5. ASSUME Len(calls) <= Len(calls'), \A j \in 1..Len(calls) : calls'[j] = calls[j],
             \A p \in held : p \notin Open => p \notin Open',
             UNCHANGED <<held, age, misses, trial, clock>>
      PROVE  \A i \in DOMAIN calls :
               /\ i \in DOMAIN calls' /\ calls'[i] = calls[i]
               /\ due' = due /\ OnTime(i) => OnTime(i)'
  <2> TAKE i \in DOMAIN calls
  <2>1. Cost(calls', i) = Cost(calls, i)
    BY <1>1, <1>3, <1>5, CostOfPrefix
  <2>2. i \in DOMAIN calls' /\ calls'[i] = calls[i]
    BY <1>1, <1>3, <1>5
  <2>3. FreeThread' <=> FreeThread
    BY <1>5 DEF FreeThread
  <2>4. QED
    BY <1>5, <2>1, <2>2, <2>3 DEF OnTime, Left
<1>5a. ASSUME NEW t \in Tabs, NEW n \in {0, made + 1}, link' = [link EXCEPT ![t] = n]
       PROVE  \A p \in held : p \notin Open => p \notin Open'
  <2> SUFFICES ASSUME NEW p \in held, p \notin Open, p \in Open' PROVE FALSE
    OBVIOUS
  <2>1. PICK u \in Tabs : p = link'[u]
    BY DEF Open
  <2>2. p <= made /\ p \in Nat /\ p > 0 /\ made \in Nat /\ link \in [Tabs -> 0..MaxStreams]
    BY <1>1, Constants DEF Numbered, TypeOK, Streams
  <2>3. link'[u] # n
    BY <2>1, <2>2
  <2>4. link'[u] = link[u]
    BY <1>5a, <2>2, <2>3
  <2>5. QED
    BY <2>1, <2>4 DEF Open
<1>6. ASSUME NEW t \in Tabs, Load(t) PROVE InTime' /\ KeptInTime'
  <2>1. /\ made' = made + 1 /\ link' = [link EXCEPT ![t] = made + 1]
        /\ UNCHANGED <<held, age, misses, offered, trial, clock, due>>
    BY <1>6 DEF Load, streams
  <2>2. \A p \in held : p \notin Open => p \notin Open'
    BY <1>5a, <2>1
  <2>3. Len(calls) <= Len(calls') /\ \A j \in 1..Len(calls) : calls'[j] = calls[j]
    <3> DEFINE asks == <<[from |-> made + 1, what |-> "pending"],
                         [from |-> made + 1, what |-> "events"]>>
    <3>1. made + 1 \in Streams
      BY <1>6, Constants DEF Load, KeptInv, PoolInv, TypeOK, Streams
    <3>2. asks \in Seq(Call) /\ Len(asks) = 2
      BY <3>1 DEF Call
    <3>3. calls' = calls \o asks
      BY <1>6, <2>1 DEF Load
    <3> HIDE DEF asks
    <3>4. /\ Len(calls \o asks) = Len(calls) + Len(asks)
          /\ \A i \in 1..Len(calls) + Len(asks) : (calls \o asks)[i] =
               IF i <= Len(calls) THEN calls[i] ELSE asks[i - Len(calls)]
      BY <1>1, <3>2, ConcatProperties, Zenon
    <3>5. QED
      BY <1>1, <3>2, <3>3, <3>4
  <2>4. QED
    BY <1>1, <1>5, <2>1, <2>2, <2>3 DEF InTime, KeptInTime
<1>7. ASSUME NEW t \in Tabs, Leave(t) \/ Break(t) PROVE InTime' /\ KeptInTime'
  <2>1. /\ link' = [link EXCEPT ![t] = 0]
        /\ UNCHANGED <<calls, held, age, misses, trial, clock, due>>
    BY <1>7 DEF Leave, Break, streams
  <2>2. \A p \in held : p \notin Open => p \notin Open'
    BY <1>5a, <2>1
  <2>3. QED
    BY <1>1, <1>5, <2>1, <2>2 DEF InTime, KeptInTime
<1>7a. ASSUME NEW t \in Tabs, Reconnect(t) PROVE InTime' /\ KeptInTime'
  <2> DEFINE c == [from |-> made + 1, what |-> "events"]
  <2>1. /\ link' = [link EXCEPT ![t] = made + 1] /\ calls' = Append(calls, c)
        /\ UNCHANGED <<held, age, misses, trial, clock, due>>
    BY <1>7a DEF Reconnect, streams
  <2>2. \A p \in held : p \notin Open => p \notin Open'
    BY <1>5a, <2>1
  <2>3. c \in Call
    BY <1>7a, Constants DEF Reconnect, KeptInv, PoolInv, TypeOK, Call, Streams
  <2>4. Len(calls) <= Len(calls') /\ \A j \in 1..Len(calls) : calls'[j] = calls[j]
    BY <1>1, <2>1, <2>3, AppendProperties
  <2>5. QED
    BY <1>1, <1>5, <2>1, <2>2, <2>4 DEF InTime, KeptInTime
<1>8. ASSUME NEW t \in Tabs, Confirm(t) PROVE InTime' /\ KeptInTime'
  <2> DEFINE c == [from |-> shows[t], what |-> "confirm"]
             e == {i \in DOMAIN calls : calls[i].what = "events"}
  <2>0. PICK l \in Nat : l = Len(calls) + 1
    BY <1>1
  <2>1. /\ calls' = Append(calls, c) /\ UNCHANGED <<pages, held, age, misses, trial, clock>>
        /\ due' = IF trial = "ticking" /\ clock + Wait < due THEN clock + Wait ELSE due
    BY <1>8 DEF Confirm, streams
  <2>2. c \in Call
    BY <1>1, <1>8, Constants DEF Confirm, TypeOK, Call
  <2>3. Len(calls') = l /\ calls'[l] = c /\ \A j \in 1..Len(calls) : calls'[j] = calls[j]
    BY <1>1, <2>0, <2>1, <2>2, AppendProperties
  <2>4. l \in DOMAIN calls' /\ calls'[l].what = "confirm"
    BY <1>1, <1>3, <2>0, <2>3
  <2>5. Ahead(calls', l) = e
    BY <1>1, <1>3, <2>0, <2>3 DEF Ahead
  <2>6. Wait = Cost(calls', l) + Period /\ Cost(calls', l) \in Nat
    <3>1. Cardinality(e) \in Nat /\ Cost(calls', l) = Period * Cardinality(e)
      BY <1>3, <2>4, <2>5, CostIsNatural DEF Cost
    <3>2. Wait = Period * (1 + Cardinality(e))
      BY DEF Wait, Period
    <3>3. \A k \in Nat : Period * (1 + k) = Period * k + Period /\ Period * k \in Nat
      BY Periods
    <3>4. QED
      BY <3>1, <3>2, <3>3
  <2>7. \A p \in held : p \notin Open => p \notin Open'
    BY <2>1 DEF Open, pages
  <2>8. CASE trial = "ticking" /\ clock + Wait < due
    <3>1. due' = clock + Cost(calls', l) + Period
      BY <1>1, <2>1, <2>6, <2>8, Periods
    <3>2. OnTime(l)'
      <4>1. CASE FreeThread
        BY <1>1, <2>1, <2>6, <3>1, <4>1, Periods DEF OnTime, FreeThread
      <4>2. CASE ~FreeThread
        <5>1. PICK p \in held : p \notin Open
          BY <1>1, <4>2, SomeoneIsGone
        <5>2. Left(p)' = Left(p) /\ Left(p) \in Nat /\ Left(p) <= Period
          BY <1>4a, <2>1, <5>1 DEF Left
        <5>3. clock' + Cost(calls', l) + Left(p)' <= due'
          <6>1. Period \in Nat /\ clock \in Nat /\ clock' = clock /\ Cost(calls', l) \in Nat
            BY <1>1, <2>1, <2>6, Periods DEF TypeOK
          <6>2. QED
            BY <3>1, <5>2, <6>1
        <5>4. QED
          BY <2>1, <2>7, <5>1, <5>3 DEF OnTime
      <4>3. QED
        BY <4>1, <4>2
    <3>3. trial # "reverted"
      BY <2>8
    <3>4. QED
      BY <2>1, <2>4, <3>2, <3>3 DEF InTime, KeptInTime
  <2>9. CASE ~(trial = "ticking" /\ clock + Wait < due)
    <3>1. due' = due
      BY <2>1, <2>9
    <3>2. Len(calls) <= Len(calls')
      BY <1>1, <2>0, <2>3
    <3>3. QED
      BY <1>1, <1>5, <2>1, <2>3, <2>7, <3>1, <3>2 DEF InTime, KeptInTime
  <2>10. QED
    BY <2>8, <2>9
<1>9. CASE Serve
  <2>1. calls # <<>> /\ FreeThread /\ Answer(Head(calls)) /\ calls' = Tail(calls)
        /\ UNCHANGED <<pages, age, misses, due>>
    BY <1>9 DEF Serve
  <2>2. /\ Head(calls) = calls[1] /\ calls[1] \in Call /\ Len(calls') = Len(calls) - 1
        /\ \A i \in 1..Len(calls') : calls'[i] = calls[i + 1]
    BY <1>1, <2>1, HeadTailProperties, ElementOfSeq
  <2>3. trial' = "reverted" => trial = "reverted"
    BY <2>1, <2>2 DEF Answer, Call
  <2>4. ASSUME trial' = "ticking", due' < Deadline
        PROVE  \E i \in DOMAIN calls' : calls'[i].what = "confirm" /\ OnTime(i)'
    <3>1. trial = "ticking" /\ due < Deadline /\ calls[1].what # "confirm" /\ clock' = clock
      BY <2>1, <2>2, <2>4 DEF Answer, Call
    <3>2. PICK i \in DOMAIN calls : calls[i].what = "confirm" /\ OnTime(i)
      BY <1>1, <3>1 DEF InTime
    <3>3. i \in 2..Len(calls)
      BY <1>1, <3>1, <3>2
    <3>4. i - 1 \in DOMAIN calls' /\ calls'[i - 1] = calls[i]
      BY <1>1, <1>3, <2>2, <3>3
    <3>5. Cost(calls', i - 1) = IF calls[1].what = "events" THEN Cost(calls, i) - Period
                                ELSE Cost(calls, i)
      BY <1>1, <2>1, <3>3, CostOfTail
    <3>6. Cost(calls', i - 1) \in Nat /\ Cost(calls, i) \in Nat
      BY <1>3, <1>4, <3>4, CostIsNatural
    <3>7. clock + Cost(calls, i) <= due
      BY <1>1, <1>4a, <3>2, <3>6 DEF OnTime
    <3>8. CASE calls[1].what # "events"
      <4>1. held' = held
        BY <2>1, <2>2, <3>8 DEF Answer, Call
      <4>2. FreeThread' /\ clock' + Cost(calls', i - 1) <= due'
        BY <2>1, <3>1, <3>5, <3>7, <3>8, <4>1 DEF FreeThread
      <4>3. QED
        BY <3>2, <3>4, <4>2 DEF OnTime
    <3>9. CASE calls[1].what = "events"
      <4>1. clock' + Cost(calls', i - 1) + Period <= due'
        BY <1>1, <2>1, <3>1, <3>5, <3>6, <3>7, <3>9, Periods
      <4>2. CASE FreeThread'
        <5>1. clock' + Cost(calls', i - 1) <= due'
          BY <1>1, <2>1, <3>1, <3>6, <4>1, Periods
        <5>2. QED
          BY <3>2, <3>4, <4>2, <5>1 DEF OnTime
      <4>3. CASE ~FreeThread'
        <5>1. (\E p \in held : p \notin Open)'
          <6>1. TypeOK' /\ (~FreeThread)'
            BY <1>2, <4>3 DEF PoolInv
          <6>2. (TypeOK /\ ~FreeThread => \E p \in held : p \notin Open)'
            BY SomeoneIsGone, PTL
          <6>3. QED
            BY <6>1, <6>2
        <5>2. PICK p \in held' : p \notin Open'
          BY <5>1
        <5>3. Left(p)' \in Int /\ Left(p)' <= Period
          <6>1. misses'[p] \in 0..Patience /\ age'[p] \in 0..Keepalive
            BY <1>2, <5>2 DEF PoolInv, TypeOK
          <6>2. Left(p)' = Keepalive * (Patience - misses'[p]) - age'[p]
            BY DEF Left
          <6>3. /\ Keepalive * (Patience - misses'[p]) \in Nat
                /\ Keepalive * (Patience - misses'[p]) <= Period
            BY <6>1, Periods
          <6>4. PICK k \in Nat : k = Keepalive * (Patience - misses'[p])
            BY <6>3
          <6>5. Left(p)' = k - age'[p] /\ k <= Period /\ Period \in Nat /\ age'[p] \in Nat
            <7>1. age'[p] \in Nat /\ Period \in Nat
              BY <6>1, Periods, Constants
            <7>2. QED
              BY <6>2, <6>3, <6>4, <7>1, Zenon
          <6>6. QED
            BY <6>5, Remainders
        <5>4. clock' + Cost(calls', i - 1) + Left(p)' <= due'
          <6>1. Period \in Nat /\ clock' \in Nat /\ due' \in Nat
            BY <1>1, <1>2, Periods, Constants DEF PoolInv, TypeOK
          <6>2. QED
            BY <3>6, <4>1, <5>3, <6>1, Remainders
        <5>5. QED
          BY <3>2, <3>4, <5>2, <5>4 DEF OnTime
      <4>4. QED
        BY <4>2, <4>3
    <3>10. QED
      BY <3>8, <3>9
  <2>5. QED
    BY <1>1, <2>1, <2>3, <2>4 DEF InTime, KeptInTime
<1>10. ASSUME NEW S \in SUBSET held, Write(S) PROVE InTime' /\ KeptInTime'
  <2>1. UNCHANGED <<pages, calls, offered, trial, clock, due>>
    BY <1>10 DEF Write
  <2>2. held' \subseteq held /\ Open' = Open
    BY <1>10, <2>1 DEF Write, Open, pages
  <2>3. FreeThread' <=> FreeThread \/ held' # held
    <3>1. FreeThread' <=> Cardinality(held') < Threads
      BY DEF FreeThread
    <3>2. CASE held' = held
      BY <3>2 DEF FreeThread
    <3>3. CASE held' # held
      BY <1>1, <2>2, <3>1, <3>3, FewerThreads DEF TypeOK
    <3>4. QED
      BY <3>2, <3>3
  <2>4. ASSUME trial = "ticking", due < Deadline
        PROVE  \E i \in DOMAIN calls' : calls'[i].what = "confirm" /\ OnTime(i)'
    <3>1. PICK i \in DOMAIN calls : calls[i].what = "confirm" /\ OnTime(i)
      BY <1>1, <2>4 DEF InTime
    <3>2. Cost(calls, i) \in Nat /\ Cost(calls', i) = Cost(calls, i)
      BY <1>4, <2>1
    <3>3. CASE FreeThread'
      <4>1. clock + Cost(calls, i) <= due
        BY <1>1, <1>4a, <3>1, <3>2 DEF OnTime
      <4>2. QED
        BY <2>1, <3>1, <3>2, <3>3, <4>1 DEF OnTime
    <3>4. CASE ~FreeThread'
      <4>1. PICK p \in held : p \notin Open /\ clock + Cost(calls, i) + Left(p) <= due
        BY <2>3, <3>1, <3>4 DEF OnTime
      <4>2. held' = held
        BY <2>3, <3>4
      <4>3. Left(p)' <= Left(p) /\ Left(p)' \in Int
        <5>1. p \in Streams /\ misses[p] \in 0..Patience /\ misses[p] < Patience /\ age[p] \in 0..Keepalive
          BY <1>1 DEF Numbered
        <5>2. CASE p \notin S
          <6>1. misses'[p] = misses[p] /\ age'[p] = age[p]
            BY <1>10, <5>1, <5>2 DEF Write
          <6>2. QED
            BY <1>4a, <6>1 DEF Left
        <5>3. CASE p \in S
          <6>1. misses'[p] = misses[p] + 1 /\ age'[p] = 0
            BY <1>10, <4>1, <5>1, <5>3 DEF Write
          <6>2. Left(p)' = Keepalive * (Patience - (misses[p] + 1)) - 0
            BY <6>1 DEF Left
          <6>3. Keepalive * (Patience - (misses[p] + 1)) \in Nat
            BY <5>1, Periods, Constants
          <6>4. Keepalive * (Patience - misses[p]) =
                  Keepalive * (Patience - (misses[p] + 1)) + Keepalive
            BY <5>1, Periods
          <6>5. QED
            BY <5>1, <6>2, <6>3, <6>4, Constants DEF Left
        <5>4. QED
          BY <5>2, <5>3
      <4>4. clock' + Cost(calls', i) + Left(p)' <= due'
        BY <1>1, <1>4a, <2>1, <3>2, <4>1, <4>3
      <4>5. QED
        BY <2>1, <2>2, <3>1, <4>1, <4>2, <4>4 DEF OnTime
    <3>5. QED
      BY <3>3, <3>4
  <2>5. QED
    BY <1>1, <2>1, <2>4 DEF InTime, KeptInTime
<1>10a. ASSUME Event \/ \E p \in Streams : KeepAlive(p) PROVE InTime' /\ KeptInTime'
  <2>1. \E S \in SUBSET held : Write(S)
    BY <1>10a DEF Event, KeepAlive
  <2>2. QED
    BY <1>10, <2>1
<1>10b. CASE Tick
  <2>1. UNCHANGED <<pages, calls, held, misses, offered, trial, due>> /\ ~(FreeThread /\ calls # <<>>)
    BY <1>10b DEF Tick
  <2>2. ASSUME trial = "ticking", due < Deadline
        PROVE  \E i \in DOMAIN calls' : calls'[i].what = "confirm" /\ OnTime(i)'
    <3>1. PICK i \in DOMAIN calls : calls[i].what = "confirm" /\ OnTime(i)
      BY <1>1, <2>2 DEF InTime
    <3>2. ~FreeThread /\ Cost(calls', i) = Cost(calls, i) /\ Cost(calls, i) \in Nat
      BY <1>1, <1>4, <2>1, <3>1
    <3>3. PICK p \in held : p \notin Open /\ clock + Cost(calls, i) + Left(p) <= due
      BY <3>1, <3>2 DEF OnTime
    <3>4. clock' = clock + 1 /\ age'[p] = age[p] + 1 /\ age[p] \in Int
      BY <1>1, <1>10b, <2>2, <3>3, Constants DEF Tick, Passed
    <3>5. Left(p)' = Left(p) - 1
      <4>1. misses[p] \in 0..Patience
        BY <1>1, <3>3
      <4>2. Keepalive * (Patience - misses[p]) \in Nat
        BY <4>1, Periods
      <4>3. QED
        BY <2>1, <3>4, <4>2 DEF Left
    <3>6. clock' + Cost(calls', i) + Left(p)' <= due'
      BY <1>1, <1>4a, <2>1, <3>2, <3>3, <3>4, <3>5
    <3>7. QED
      BY <2>1, <3>1, <3>3, <3>6 DEF OnTime, Open, pages
  <2>3. QED
    BY <1>1, <2>1, <2>2 DEF InTime, KeptInTime
<1>11. CASE Expire
  <2>1. trial = "ticking" /\ clock = Deadline /\ trial' = "reverted" /\ due' = due
    BY <1>11 DEF Expire
  <2>2. ~(due < Deadline)
    <3> SUFFICES ASSUME due < Deadline PROVE FALSE
      OBVIOUS
    <3>1. PICK i \in DOMAIN calls : OnTime(i)
      BY <1>1, <2>1 DEF InTime
    <3>2. Cost(calls, i) \in Nat
      BY <1>4
    <3>3. clock <= due
      BY <1>1, <1>4a, <3>1, <3>2 DEF OnTime
    <3>4. QED
      BY <1>1, <2>1, <3>3, Constants
  <2>3. due = Deadline
    BY <1>1, <2>2, Constants
  <2>4. QED
    BY <2>1, <2>3 DEF InTime, KeptInTime
<1>12. CASE UNCHANGED vars
  <2>1. \A i : OnTime(i)' <=> OnTime(i)
    BY <1>12 DEF vars, pages, streams, OnTime, FreeThread, Open, Left
  <2>2. QED
    BY <1>1, <1>12, <2>1 DEF vars, InTime, KeptInTime
<1>13. QED
  BY <1>6, <1>7, <1>7a, <1>8, <1>9, <1>10a, <1>10b, <1>11, <1>12 DEF Next

\* docs/SAFETY.md:15-16, run.py:33: however many tabs load and close pages, and whatever
\* the hotplug events are, a Keep that is clicked early enough for the calls ahead of it
\* is served before the watchdog's timer ends.
THEOREM KeepsAreInTime == Spec => []KeptInTime
<1>1. Spec => []KeptInv
  BY KeptInit, KeptNext, PTL DEF Spec
<1>2. KeptInv => KeptInTime
  BY DEF KeptInv
<1>3. QED
  BY <1>1, <1>2, PTL
=============================================================================
