---------------------------- MODULE MCNetSystem ----------------------------
(* A small house: two networks, a grace of a few ticks, a user and a reboot or two. *)
EXTENDS NetSystem
==============================================================================
