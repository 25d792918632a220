----------------------------- MODULE MCSyncHub -----------------------------
(* Small instances of SyncHub for TLC. *)
EXTENDS SyncHub, TLC

CONSTANTS d1, d2, w1, w2, w3

OneEach == (w1 :> d1) @@ (w2 :> d2)

OneDeviceTwoWorkers == (w1 :> d1) @@ (w2 :> d2) @@ (w3 :> d1)

\* Messages are alike; devices are not, as Home tells them apart.
Messages == Permutations(Message)
=============================================================================
