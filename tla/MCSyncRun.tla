----------------------------- MODULE MCSyncRun -----------------------------
(* A key in the file, a key in the environment before another one in the     *)
(* file, and one that cannot be read there: with it the sync stays off.      *)
EXTENDS SyncRun

With(enabled, env, url, envKey, fileKey) ==
  [enabled |-> enabled, envEnabled |-> env, url |-> url, interval |-> "good",
   envKey |-> envKey, fileKey |-> fileKey]

MCSettings ==
  {With(TRUE, "junk", TRUE, NoKey, "k1"),
   With(FALSE, "on", TRUE, NoKey, "k2"),
   With(TRUE, "unset", TRUE, "k1", "k2"),
   With(TRUE, "unset", TRUE, BadKey, "k1")}
=============================================================================
