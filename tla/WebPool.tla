------------------------------ MODULE WebPool ------------------------------
(***************************************************************************)
(* The threads of the web server (run.py) as a resource.  An open page      *)
(* keeps one of them for its event stream (api/interfaces.py); what is      *)
(* left answers everything else, the Keep click that stops a countdown      *)
(* included (app.js), in the order in which calls arrive.                   *)
(*                                                                         *)
(* A stream learns that its page is gone only by writing to it: an event,   *)
(* or the keepalive after 20 s without one.  Time goes in steps that 20 s   *)
(* and the countdown are multiples of, so that every stream has its         *)
(* keepalives at moments of its own.  Calls that are answered at once take  *)
(* no time, and the ones that no property is about are left out: they never *)
(* keep a thread for long.                                                  *)
(***************************************************************************)
EXTENDS Naturals, Sequences, FiniteSets

CONSTANTS
  Tabs,        \* browser tabs
  Threads,     \* threads=8 of waitress
  Keepalive,   \* the timeout of a stream's queue, in ticks (20 s)
  Patience,    \* writes to a closed connection until one of them raises
  Deadline,    \* the countdown, in ticks (90 s)
  MaxStreams   \* bound: how often a page connects

ASSUME TabsFitThreads ==
  Threads \in Nat /\ IsFiniteSet(Tabs) /\ Cardinality(Tabs) < Threads
ASSUME TimesArePositive ==
  {Keepalive, Patience, Deadline} \subseteq Nat \ {0} /\ MaxStreams \in Nat

VARIABLES
  made,        \* connections made so far; they are numbered, a page is called by its first
  shows,       \* shows[t]: the page tab t shows, 0 if it is closed
  link,        \* link[t]: the connection of its event stream, 0 if it is broken
  calls,       \* calls no thread has taken
  held,        \* connections whose stream keeps a thread
  age,         \* age[p]: ticks since the stream of p wrote
  misses,      \* misses[p]: writes of p's stream since its other end is gone
  offered,     \* pages that offer to keep the change
  trial,       \* the change on trial
  clock,       \* ticks since the countdown began, 0 when none runs
  due          \* history: the tick until which the first Keep may wait for a thread

pages   == <<made, shows, link>>
streams == <<held, age, misses>>
vars    == <<pages, streams, calls, offered, trial, clock, due>>

Streams  == 1..MaxStreams
Call     == [from : Streams, what : {"pending", "events", "confirm"}]
Open     == {link[t] : t \in Tabs}

\* Mutant: one call too many.
ThreadToSpare == Cardinality(held) <= Threads

FreeThread == Cardinality(held) < Threads

\* A change has been applied and armed.
Init ==
  /\ made = 0 /\ shows = [t \in Tabs |-> 0] /\ link = shows
  /\ calls = <<>> /\ held = {}
  /\ age = [p \in Streams |-> 0] /\ misses = [p \in Streams |-> 0]
  /\ offered = {} /\ trial = "ticking" /\ clock = 0 /\ due = Deadline

---------------------------------------------------------------------------
(* Browser tabs                                                             *)

\* Load or reload: the former page of the tab is gone.  The new one asks for a
\* pending change and connects to the event stream.
Load(t) ==
  /\ made < MaxStreams
  /\ made' = made + 1
  /\ shows' = [shows EXCEPT ![t] = made']
  /\ link' = [link EXCEPT ![t] = made']
  /\ calls' = calls \o <<[from |-> made', what |-> "pending"],
                         [from |-> made', what |-> "events"]>>
  /\ UNCHANGED <<streams, offered, trial, clock, due>>

Leave(t) ==
  /\ shows[t] # 0
  /\ shows' = [shows EXCEPT ![t] = 0]
  /\ link' = [link EXCEPT ![t] = 0]
  /\ UNCHANGED <<made, calls, streams, offered, trial, clock, due>>

\* The stream of an open page fails: the page closes it, and connects again later.
Break(t) ==
  /\ link[t] # 0
  /\ link' = [link EXCEPT ![t] = 0]
  /\ UNCHANGED <<made, shows, calls, streams, offered, trial, clock, due>>

Reconnect(t) ==
  /\ shows[t] # 0 /\ link[t] = 0 /\ made < MaxStreams
  /\ made' = made + 1
  /\ link' = [link EXCEPT ![t] = made']
  /\ calls' = Append(calls, [from |-> made', what |-> "events"])
  /\ UNCHANGED <<shows, streams, offered, trial, clock, due>>

\* The streams ahead of a call queued now each take a thread, and so does the call; of
\* the threads one at least is kept by a stream nobody reads, for Patience writes.
Wait == Keepalive * Patience * (1 + Cardinality({i \in DOMAIN calls : calls[i].what = "events"}))

\* The Keep button of the overlay.
Confirm(t) ==
  /\ shows[t] \in offered
  /\ offered' = offered \ {shows[t]}
  /\ calls' = Append(calls, [from |-> shows[t], what |-> "confirm"])
  /\ due' = IF trial = "ticking" /\ clock + Wait < due THEN clock + Wait ELSE due
  /\ UNCHANGED <<pages, streams, trial, clock>>

---------------------------------------------------------------------------
(* The server                                                               *)

\* A page that is gone is not offered anything, its stream is served all the same.
\* The greeting a stream begins with is not counted as a write, so it may end later
\* here than it does.
Answer(c) ==
  CASE c.what = "pending" ->
         /\ offered' = IF trial = "ticking" /\ \E t \in Tabs : shows[t] = c.from
                       THEN offered \cup {c.from} ELSE offered
         /\ UNCHANGED <<held, trial, clock>>
    [] c.what = "events" -> held' = held \cup {c.from} /\ UNCHANGED <<offered, trial, clock>>
    [] c.what = "confirm" ->
         /\ trial' = IF trial = "ticking" THEN "kept" ELSE trial
         /\ clock' = 0
         /\ UNCHANGED <<held, offered>>

\* Mutant: the call that arrived last is served first.
ServeLatest ==
  /\ FreeThread /\ calls # <<>>
  /\ Answer(calls[Len(calls)])
  /\ calls' = SubSeq(calls, 1, Len(calls) - 1)
  /\ UNCHANGED <<pages, age, misses, due>>

Serve ==
  /\ FreeThread /\ calls # <<>>
  /\ Answer(Head(calls))
  /\ calls' = Tail(calls)
  /\ UNCHANGED <<pages, age, misses, due>>

\* The streams in S write; the ones nobody reads miss, and end when it raises.
Write(S) ==
  LET gone == S \ Open
  IN  /\ misses' = [p \in Streams |-> IF p \in gone THEN misses[p] + 1 ELSE misses[p]]
      /\ held' = {p \in held : p \in gone => misses[p] + 1 < Patience}
      /\ age' = [p \in Streams |-> IF p \in S THEN 0 ELSE age[p]]
      /\ UNCHANGED <<pages, calls, offered, trial, clock, due>>

\* A hotplug event reaches every subscribed queue.
Event == Write(held)

KeepAlive(p) == p \in held /\ age[p] = Keepalive /\ Write({p})

Passed == clock' = IF trial = "ticking" THEN clock + 1 ELSE clock

\* Mutant: a stream waits for an event without a timeout.
TickInSilence ==
  /\ ~(FreeThread /\ calls # <<>>)
  /\ \A p \in held : age[p] < Keepalive
  /\ trial = "ticking" => clock < Deadline
  /\ Passed
  /\ UNCHANGED <<pages, calls, streams, offered, trial, due>>

\* Time goes by once what threads can take is taken and no stream is due to write.
Tick ==
  /\ ~(FreeThread /\ calls # <<>>)
  /\ \A p \in held : age[p] < Keepalive
  /\ trial = "ticking" => clock < Deadline
  /\ Passed
  /\ age' = [p \in Streams |-> IF p \in held THEN age[p] + 1 ELSE age[p]]
  /\ UNCHANGED <<pages, calls, held, misses, offered, trial, due>>

\* The watchdog's timer has a thread of its own.
Expire ==
  /\ trial = "ticking" /\ clock = Deadline
  /\ trial' = "reverted" /\ clock' = 0
  /\ UNCHANGED <<pages, calls, streams, offered, due>>

---------------------------------------------------------------------------
Next ==
  \/ \E t \in Tabs : Load(t) \/ Leave(t) \/ Break(t) \/ Reconnect(t) \/ Confirm(t)
  \/ \E p \in Streams : KeepAlive(p)
  \/ Serve \/ Event \/ Tick \/ Expire

Spec == Init /\ [][Next]_vars

\* Threads take calls, timeouts and timers end and time passes; nobody promises that a
\* page connects again.
FairSpec ==
  /\ Spec
  /\ WF_vars(Serve) /\ WF_vars(Tick) /\ WF_vars(Expire)
  /\ \A p \in Streams : WF_vars(KeepAlive(p))

---------------------------------------------------------------------------
(* Properties                                                               *)

\* Types of pages, calls, streams and the countdown.
TypeOK ==
  /\ made \in 0..MaxStreams
  /\ shows \in [Tabs -> 0..MaxStreams] /\ link \in [Tabs -> 0..MaxStreams]
  /\ calls \in Seq(Call)
  /\ held \subseteq Streams /\ Cardinality(held) <= Threads
  /\ age \in [Streams -> 0..Keepalive] /\ misses \in [Streams -> 0..Patience]
  /\ offered \subseteq Streams
  /\ trial \in {"ticking", "kept", "reverted"}
  /\ clock \in 0..Deadline /\ due \in 0..Deadline

\* docs/SAFETY.md:15-16: a change the admin keeps before the countdown ends stays.
\* While streams nobody reads keep all threads the click waits, but only for those
\* ahead of it: made early enough for them, it overtakes the watchdog.
KeptInTime == trial = "reverted" => due = Deadline

\* run.py:33: with fewer tabs than threads every call gets one, however pages are
\* reloaded and connect again: the streams they leave behind end.
CallsAreServed == \A p \in Streams :
  (\E i \in DOMAIN calls : calls[i].from = p) ~> (\A i \in DOMAIN calls : calls[i].from # p)

\* api/interfaces.py:43-44: the queue of a stream nobody reads is unsubscribed.
StreamsEnd == \A p \in Streams : (p \in held \ Open) ~> (p \notin held)
=============================================================================
