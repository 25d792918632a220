---------------------------- MODULE MCHistories ----------------------------
(* Small instances of Histories for TLC: devices and messages are alike. *)
EXTENDS Histories, TLC

Alike == Permutations(Device) \cup Permutations(Message)
=============================================================================
