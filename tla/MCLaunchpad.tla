----------------------------- MODULE MCLaunchpad -----------------------------
(* Values for TLC: two terminals with a session each, or one terminal with  *)
(* a session for its shell and one for a shell that is dying; a first       *)
(* launchpad session and the one that a reload makes.                       *)
EXTENDS Launchpad

MCNames   == {"A1", "A2"}
MCName    == {"A1"}
MCLpId    == {"lp1", "lp2"}
MCShellId == {"sh1", "sh2"}
=============================================================================
