------------------------------ MODULE EventLoop ------------------------------
(***************************************************************************)
(* The dispatcher of core/event_loop.hpp: two arrays, watchers_ and        *)
(* timers_, whose entries a removal moves around, and the loop that walks  *)
(* them while the callbacks it runs register, unregister, arm, cancel and  *)
(* stop.  A callback is any sequence of at most MaxOps such calls; code    *)
(* that runs before run() is treated like one.                             *)
(*                                                                         *)
(* A timer keeps the milliseconds it has left instead of its expiry time.  *)
(* Callbacks take no time: the clock moves between two steps of the loop.  *)
(* Data arrives between two steps as well: what arrives later is noticed   *)
(* only by the next select().                                              *)
(***************************************************************************)
EXTENDS Integers, Sequences, FiniteSets

CONSTANTS
  Fds,          \* descriptors
  Callbacks,    \* what a descriptor may be registered with
  MaxWatchers,  \* MAX_WATCHERS
  MaxTimers,    \* MAX_TIMERS
  MaxId,        \* bound: timer ids wrap after it (2^32 - 1 in the code)
  Delays,       \* delays given to set_timer
  MaxOps        \* bound on the calls one callback makes

ASSUME LoopAssumption ==
  /\ MaxWatchers \in Nat \ {0} /\ MaxTimers \in Nat \ {0}
  /\ MaxId \in Nat /\ MaxId > MaxTimers
  /\ Delays \subseteq Nat
  /\ MaxOps \in Nat

VARIABLES
  watchers,  \* watchers_[0 .. watcher_count_ - 1]
  timers,    \* timers_[0 .. timer_count_ - 1]
  nextId,    \* next_timer_id_
  running,   \* running_
  data,      \* descriptors with something to read
  pc,        \* "setup", "idle", "dispatch", "fdcb", "timers", "timercb", "done"
  ready,     \* read_fds as select() left it
  i,         \* the index of the for loop in progress
  cur,       \* whose code runs: main()'s, that of a watcher or a timer
  ops,       \* calls that code has made
  call       \* history: the last of them, with its answer

loopVars == <<watchers, timers, nextId, running, data, pc, ready, i, cur, ops, call>>
control  == <<running, pc, ready, i, cur>>

Ids      == 1..MaxId
Elems(s) == {s[k] : k \in 1..Len(s)}
Watched  == {w.fd : w \in Elems(watchers)}

Watcher(fd, cb) == [fd |-> fd, cb |-> cb]

Nobody == [who |-> "nobody"]
Main   == [who |-> "main"]
NoCall == [op |-> "none"]

Init ==
  /\ watchers = <<>> /\ timers = <<>> /\ nextId = 1 /\ running = TRUE
  /\ data = {} /\ pc = "setup" /\ ready = {} /\ i = 0 /\ cur = Main /\ ops = 0
  /\ call = NoCall

\* Entry k (from 1) is replaced by the last one and the count decremented.
RemovedAt(s, k) == SubSeq([s EXCEPT ![k] = s[Len(s)]], 1, Len(s) - 1)

First(found) == CHOOSE k \in found : \A m \in found : k <= m

\* The first of the entries found by a search is dropped, if there is one.
RemovedFirst(s, found) == IF found = {} THEN s ELSE RemovedAt(s, First(found))

\* The entries of a descriptor.
At(fd) == {k \in 1..Len(watchers) : watchers[k].fd = fd}

-----------------------------------------------------------------------------
(* The calls a callback makes.                                             *)

InCallback == pc \in {"setup", "fdcb", "timercb"}

Calls == InCallback /\ ops < MaxOps /\ ops' = ops + 1

WatchersFull == Len(watchers) >= MaxWatchers

RegisterAnswer(fd, cb) ==
  [op |-> "register", fd |-> fd, cb |-> cb, ok |-> ~WatchersFull]

\* Mutant of RegisterRead: the descriptor is not looked for.
RegisterReadAgain(fd, cb) ==
  /\ Calls
  /\ call' = RegisterAnswer(fd, cb)
  /\ watchers' = IF WatchersFull THEN watchers ELSE Append(watchers, Watcher(fd, cb))
  /\ UNCHANGED <<timers, nextId, data, control>>

\* A full array refuses even a new callback for a descriptor it holds.
RegisterRead(fd, cb) ==
  /\ Calls
  /\ call' = RegisterAnswer(fd, cb)
  /\ watchers' = CASE WatchersFull -> watchers
                   [] ~WatchersFull /\ At(fd) # {} ->
                        [watchers EXCEPT ![First(At(fd))] = Watcher(fd, cb)]
                   [] OTHER -> Append(watchers, Watcher(fd, cb))
  /\ UNCHANGED <<timers, nextId, data, control>>

Unregister(fd) ==
  /\ Calls
  /\ call' = [op |-> "unregister", fd |-> fd]
  /\ watchers' = RemovedFirst(watchers, At(fd))
  /\ UNCHANGED <<timers, nextId, data, control>>

(* The wrap of next_timer_id_ is modelled, but not a wrap onto a timer     *)
(* that is still pending, which takes 2^32 calls in its lifetime.          *)
SetTimer(delay) ==
  /\ Calls
  /\ \/ /\ Len(timers) >= MaxTimers
        /\ call' = [op |-> "set", delay |-> delay, id |-> 0]
        /\ UNCHANGED <<timers, nextId>>
     \/ /\ Len(timers) < MaxTimers
        /\ \A t \in Elems(timers) : t.id # nextId
        /\ call' = [op |-> "set", delay |-> delay, id |-> nextId]
        /\ timers' = Append(timers, [id |-> nextId, left |-> delay])
        /\ nextId' = IF nextId = MaxId THEN 1 ELSE nextId + 1
  /\ UNCHANGED <<watchers, data, control>>

CancelTimer(id) ==
  /\ Calls
  /\ call' = [op |-> "cancel", id |-> id]
  /\ timers' = RemovedFirst(timers, {k \in 1..Len(timers) : timers[k].id = id})
  /\ UNCHANGED <<watchers, nextId, data, control>>

Stop ==
  /\ Calls
  /\ running' = FALSE
  /\ UNCHANGED <<watchers, timers, nextId, data, pc, ready, i, cur, call>>

\* The callback of a descriptor reads it empty.
Drain ==
  /\ pc = "fdcb" /\ Calls
  /\ data' = data \ {cur.fd}
  /\ UNCHANGED <<watchers, timers, nextId, control, call>>

CallbackCall ==
  \/ \E fd \in Fds : Unregister(fd) \/ \E cb \in Callbacks : RegisterRead(fd, cb)
  \/ \E d \in Delays : SetTimer(d)
  \/ \E id \in Ids : CancelTimer(id)
  \/ Stop \/ Drain

-----------------------------------------------------------------------------
(* The loop.                                                               *)

\* run() sets running_: a stop() before it has no effect.
Run ==
  /\ pc = "setup"
  /\ running' = TRUE /\ pc' = "idle" /\ ops' = 0
  /\ cur' = Nobody /\ call' = NoCall
  /\ UNCHANGED <<watchers, timers, nextId, data, ready, i>>

RunReturns ==
  /\ pc = "idle" /\ ~running
  /\ pc' = "done"
  /\ UNCHANGED <<watchers, timers, nextId, running, data, ready, i, cur, ops, call>>

\* Mutants of Select: running_ is not looked at; the first watcher is missed.
SelectAnyway ==
  /\ pc = "idle"
  /\ ready' = data \cap Watched
  /\ pc' = "dispatch" /\ i' = 0
  /\ UNCHANGED <<watchers, timers, nextId, running, data, cur, ops, call>>

SelectFromSecond ==
  /\ pc = "idle" /\ running
  /\ ready' = data \cap {watchers[k].fd : k \in 2..Len(watchers)}
  /\ pc' = "dispatch" /\ i' = 0
  /\ UNCHANGED <<watchers, timers, nextId, running, data, cur, ops, call>>

\* select() returns at once if something is readable, else after timeout_ms.
Select ==
  /\ pc = "idle" /\ running
  /\ ready' = data \cap Watched
  /\ pc' = "dispatch" /\ i' = 0
  /\ UNCHANGED <<watchers, timers, nextId, running, data, cur, ops, call>>

PassWatcher ==
  /\ pc = "dispatch" /\ i < Len(watchers)
  /\ watchers[i + 1].fd \notin ready
  /\ i' = i + 1
  /\ UNCHANGED <<watchers, timers, nextId, running, data, pc, ready, cur, ops, call>>

CallWatcher ==
  /\ pc = "dispatch" /\ i < Len(watchers)
  /\ watchers[i + 1].fd \in ready
  /\ pc' = "fdcb" /\ cur' = watchers[i + 1] /\ ops' = 0
  /\ UNCHANGED <<watchers, timers, nextId, running, data, ready, i, call>>

\* Mutant of EndDispatch: timers are looked at only when nothing was ready.
EndDispatchBusy ==
  /\ pc = "dispatch" /\ i >= Len(watchers)
  /\ pc' = (IF ready = {} THEN "timers" ELSE "idle") /\ i' = 0 /\ ready' = {}
  /\ UNCHANGED <<watchers, timers, nextId, running, data, cur, ops, call>>

EndDispatch ==
  /\ pc = "dispatch" /\ i >= Len(watchers)
  /\ pc' = "timers" /\ i' = 0 /\ ready' = {}
  /\ UNCHANGED <<watchers, timers, nextId, running, data, cur, ops, call>>

PassTimer ==
  /\ pc = "timers" /\ i < Len(timers)
  /\ timers[i + 1].left > 0
  /\ i' = i + 1
  /\ UNCHANGED <<watchers, timers, nextId, running, data, pc, ready, cur, ops, call>>

\* The entry is gone before its callback runs, and i stays where it is.
FireTimer ==
  /\ pc = "timers" /\ i < Len(timers)
  /\ timers[i + 1].left = 0
  /\ timers' = RemovedAt(timers, i + 1)
  /\ pc' = "timercb" /\ cur' = [id |-> timers[i + 1].id] /\ ops' = 0
  /\ UNCHANGED <<watchers, nextId, running, data, ready, i, call>>

EndStep ==
  /\ pc = "timers" /\ i >= Len(timers)
  /\ pc' = "idle" /\ i' = 0
  /\ UNCHANGED <<watchers, timers, nextId, running, data, ready, cur, ops, call>>

CallbackReturns ==
  /\ cur' = Nobody /\ ops' = 0 /\ call' = NoCall
  /\ \/ pc = "fdcb" /\ pc' = "dispatch" /\ i' = i + 1
     \/ pc = "timercb" /\ pc' = "timers" /\ UNCHANGED i
  /\ UNCHANGED <<watchers, timers, nextId, running, data, ready>>

LoopStep ==
  \/ Run \/ RunReturns \/ Select
  \/ PassWatcher \/ CallWatcher \/ EndDispatch
  \/ PassTimer \/ FireTimer \/ EndStep
  \/ CallbackReturns

-----------------------------------------------------------------------------
(* The world outside.                                                      *)

Arrive(fd) ==
  /\ pc = "idle"
  /\ data' = data \cup {fd}
  /\ UNCHANGED <<watchers, timers, nextId, control, ops, call>>

Tick ==
  /\ pc = "idle"
  /\ timers' = [k \in 1..Len(timers) |->
                  [timers[k] EXCEPT !.left = IF @ > 0 THEN @ - 1 ELSE 0]]
  /\ UNCHANGED <<watchers, nextId, data, control, ops, call>>

Next ==
  \/ CallbackCall \/ LoopStep \/ Tick
  \/ \E fd \in Fds : Arrive(fd)

(* Callbacks return and select() times out after 50 ms, so the loop moves  *)
(* on whenever it can; and the clock moves, however busy the loop is.      *)
Fairness == WF_loopVars(LoopStep) /\ SF_loopVars(Tick)

LoopSpec == Init /\ [][Next]_loopVars /\ Fairness

-----------------------------------------------------------------------------
(* Properties.                                                             *)

(* The arrays are a set of descriptors and a set of timers, whatever calls *)
(* the callbacks make while the loop walks them.  Each call does to them   *)
(* what its name and answer say: register_read adds the descriptor or      *)
(* replaces its callback, or answers false and changes nothing when no     *)
(* place is free; unregister and cancel_timer take out what they name.  No *)
(* entry has two places and none is lost with another.  What the loop      *)
(* calls is the callback registered last of a descriptor that is still     *)
(* watched, or a timer that is due, pending and not cancelled, once.       *)
Registry ==
  INSTANCE LoopRegistry WITH
    watched <- Elems(watchers), pending <- Elems(timers),
    taken <- <<Len(watchers), Len(timers)>>, caller <- cur

RegistrySpec == Registry!Spec

(* A descriptor with something to read is served, although unregister()    *)
(* may move its entry in front of the index and so skip it in this step.   *)
ReadyIsServed ==
  \A fd \in Fds :
    (pc = "idle" /\ fd \in data /\ fd \in Watched)
      ~> ((pc = "fdcb" /\ cur.fd = fd) \/ fd \notin Watched \/ pc = "done")

(* A timer ends: it fires, or it is cancelled, or the loop stops.          *)
TimerEnds ==
  \A id \in Ids :
    (\E t \in Elems(timers) : t.id = id)
      ~> ((\A t \in Elems(timers) : t.id # id) \/ pc = "done")

(* After stop() the loop finishes its step and run() returns.              *)
StopEnds == (pc # "setup" /\ ~running) ~> pc = "done"
=============================================================================
