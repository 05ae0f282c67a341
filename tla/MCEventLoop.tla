----------------------------- MODULE MCEventLoop -----------------------------
(* Values for TLC: two descriptors for two places, so that the array is     *)
(* full at times, two callbacks for each, two timers.                       *)
EXTENDS EventLoop

MCFds    == {"pty", "keys"}
MCDelays == {1}
MCCallbacks == {"old", "new"}
=============================================================================
