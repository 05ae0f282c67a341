---------------------------- MODULE LoopRegistry ----------------------------
(***************************************************************************)
(* What core/event_loop.hpp promises its users, without its arrays: a set  *)
(* of watched descriptors, each with the callback registered last, and a   *)
(* set of pending one-shot timers.  Entries come and go by the calls of    *)
(* the user's code, which are told apart by their name, arguments and      *)
(* answer; the loop itself runs that code for a watched descriptor or for  *)
(* a timer that is due, and drops nothing but that timer.                  *)
(*                                                                         *)
(* A watched descriptor is [fd, cb], a timer [id, left], left the          *)
(* milliseconds to go.                                                     *)
(***************************************************************************)
EXTENDS Integers, FiniteSets

CONSTANTS Fds, Callbacks, MaxWatchers, MaxTimers, Ids, Delays

VARIABLES
  watched, pending,
  taken,   \* the places taken for either
  caller,  \* whose code runs: what precedes run(), a callback, or nobody's
  call     \* the last call of that code, with its answer

registryVars == <<watched, pending, taken, caller, call>>

Nobody == [who |-> "nobody"]
Main   == [who |-> "main"]
NoCall == [op |-> "none"]

Init ==
  /\ watched = {} /\ pending = {} /\ taken = <<0, 0>>
  /\ caller = Main /\ call = NoCall

-----------------------------------------------------------------------------
(* The user's calls.                                                       *)

Called(c) == caller # Nobody /\ call' = c /\ UNCHANGED caller

WatcherPlaceFree == Cardinality(watched) < MaxWatchers
TimerPlaceFree   == Cardinality(pending) < MaxTimers

\* Without a free place even a new callback for a descriptor that is watched
\* is refused; the former one stays.
Register(fd, cb) ==
  /\ Called([op |-> "register", fd |-> fd, cb |-> cb, ok |-> WatcherPlaceFree])
  /\ watched' = IF WatcherPlaceFree
                THEN {w \in watched : w.fd # fd} \cup {[fd |-> fd, cb |-> cb]}
                ELSE watched
  /\ UNCHANGED pending

Unregister(fd) ==
  /\ Called([op |-> "unregister", fd |-> fd])
  /\ watched' = {w \in watched : w.fd # fd}
  /\ UNCHANGED pending

Set(id, delay) ==
  /\ TimerPlaceFree
  /\ \A t \in pending : t.id # id
  /\ Called([op |-> "set", delay |-> delay, id |-> id])
  /\ pending' = pending \cup {[id |-> id, left |-> delay]}
  /\ UNCHANGED watched

SetRefused(delay) ==
  /\ ~TimerPlaceFree
  /\ Called([op |-> "set", delay |-> delay, id |-> 0])
  /\ UNCHANGED <<watched, pending>>

Cancel(id) ==
  /\ Called([op |-> "cancel", id |-> id])
  /\ pending' = {t \in pending : t.id # id}
  /\ UNCHANGED watched

UserCall ==
  \/ \E fd \in Fds : Unregister(fd) \/ \E cb \in Callbacks : Register(fd, cb)
  \/ \E delay \in Delays : SetRefused(delay) \/ \E id \in Ids : Set(id, delay)
  \/ \E id \in Ids : Cancel(id)

Return ==
  /\ caller # Nobody
  /\ caller' = Nobody /\ call' = NoCall
  /\ UNCHANGED <<watched, pending>>

-----------------------------------------------------------------------------
(* The loop's steps.                                                       *)

Serve(w) ==
  /\ caller = Nobody
  /\ w \in watched
  /\ caller' = w
  /\ UNCHANGED <<watched, pending, call>>

\* A timer fires once, not before its time, and leaves the others alone.
Fire(t) ==
  /\ caller = Nobody
  /\ t \in pending /\ t.left = 0
  /\ pending' = pending \ {t}
  /\ caller' = [id |-> t.id]
  /\ UNCHANGED <<watched, call>>

OneLess(t) == [t EXCEPT !.left = IF @ > 0 THEN @ - 1 ELSE 0]

Tick ==
  /\ caller = Nobody
  /\ pending' = {OneLess(t) : t \in pending}
  /\ UNCHANGED <<watched, caller, call>>

\* No entry takes two places, and none is taken for what is gone.
Next ==
  /\ \/ UserCall \/ Return \/ Tick
     \/ \E w \in watched : Serve(w)
     \/ \E t \in pending : Fire(t)
  /\ taken' = <<Cardinality(watched'), Cardinality(pending')>>

Spec == Init /\ [][Next]_registryVars
=============================================================================
