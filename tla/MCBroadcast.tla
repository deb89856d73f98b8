---------------------------- MODULE MCBroadcast ----------------------------
(* Broadcast on a small instance: two racing publishers, two subscribers. *)
EXTENDS Broadcast, TLC

CONSTANTS p1, p2

MCPublishers == {p1, p2}
=============================================================================
