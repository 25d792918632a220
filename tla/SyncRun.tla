------------------------------ MODULE SyncRun ------------------------------
(***************************************************************************)
(* The life of the background sync (Run, sync.go): it is configured from a  *)
(* settings file, the environment and a key file, ticks until its context   *)
(* ends, and stops for good when a pull sees that a holder of the key has   *)
(* ordered the whole namespace destroyed (PostNuke) and the self-destruct   *)
(* hook has run.                                                            *)
(*                                                                         *)
(* The hub is not trusted: with each page it may serve any marker made of   *)
(* public keys and of the signatures it has received.  A signature is the   *)
(* pair of the key that made it and the namespace it is for; a namespace is *)
(* named by the key it is derived from.  The device's program may crash and *)
(* start again.  Blocks are told here only by who has some on the hub; the  *)
(* module SyncHub has their contents.                                       *)
(***************************************************************************)
EXTENDS Naturals, FiniteSets

CONSTANTS
  Device,
  Key,       \* content keys
  Settings   \* what devices may be configured with

NoKey  == "nokey"
BadKey == "badkey"

Setting ==
  [enabled    : BOOLEAN,                          \* settings.json
   envEnabled : {"unset", "junk", "on", "off"},   \* KORAI_SYNC_ENABLED
   url        : BOOLEAN,                          \* from either place
   interval   : {"good", "junk"},
   envKey     : Key \cup {NoKey, BadKey},         \* KORAI_SYNC_KEY
   fileKey    : Key \cup {NoKey, BadKey}]         \* ~/.korai/sync.key

ASSUME SyncRunAssumption ==
  /\ Settings \subseteq Setting
  /\ NoKey \notin Key /\ BadKey \notin Key

VARIABLES
  settings,  \* what each device was configured with; the hook shreds the key file
  key,       \* Config.Key of the running Syncer; NoKey: it is nil
  pc,        \* where Run is
  ctx,       \* whether Run's context is live
  store,     \* devices with sessions in their store
  onHub,     \* devices that have blocks on the hub
  signed,    \* the NUKE signatures the hub has received
  purged     \* devices whose self-destruct hook has succeeded

vars == <<settings, key, pc, ctx, store, onHub, signed, purged>>

Signature == Key \X Key

\* The hub cannot make one: a signature over something else, or no signature.
Junk == <<NoKey, NoKey>>

----------------------------------------------------------------------------
(* Resolve and New *)

\* lookupBool: what is not a Boolean counts as unset.
SyncEnabled(s) ==
  IF s.envEnabled \in {"unset", "junk"} THEN s.enabled ELSE s.envEnabled = "on"

\* The environment wins, also when what it holds is no key.
LoadContentKey(s) == IF s.envKey # NoKey THEN s.envKey ELSE s.fileKey

\* Mutant: a malformed key is taken as it is.
ResolveUnchecked(s) ==
  IF SyncEnabled(s) /\ s.url /\ s.interval = "good" THEN LoadContentKey(s) ELSE NoKey

\* The key of the resolved Config; NoKey: sync is off, with or without an error.
Resolve(s) ==
  IF SyncEnabled(s) /\ s.url /\ s.interval = "good" /\ LoadContentKey(s) \in Key
    THEN LoadContentKey(s) ELSE NoKey

\* The settings a device finds: after the purge there is no key file.
Current(d) ==
  IF d \in purged THEN [settings[d] EXCEPT !.fileKey = NoKey] ELSE settings[d]

DeviceKey(d) == LoadContentKey(settings[d])

Init ==
  /\ settings \in [Device -> Settings]
  /\ key = [d \in Device |-> NoKey]
  /\ pc = [d \in Device |-> "down"]
  /\ ctx = [d \in Device |-> TRUE]
  /\ store = Device
  /\ onHub = {}
  /\ signed = {}
  /\ purged = {}

\* The program starts: New returns a nil Syncer, on which Run returns at once, or
\* one that begins with a Sync.
Start(d) ==
  /\ pc[d] = "down"
  /\ key' = [key EXCEPT ![d] = Resolve(Current(d))]
  /\ pc' = [pc EXCEPT ![d] = IF Resolve(Current(d)) = NoKey THEN "off" ELSE "push"]
  /\ ctx' = [ctx EXCEPT ![d] = TRUE]
  /\ UNCHANGED <<settings, store, onHub, signed, purged>>

----------------------------------------------------------------------------
(* Sync: push, then pull, whether or not push failed *)

\* Push uploads the sessions.
Push(d) ==
  /\ pc[d] = "push"
  /\ ctx[d]
  /\ onHub' = IF d \in store THEN onHub \cup {d} ELSE onHub
  /\ pc' = [pc EXCEPT ![d] = "pull"]
  /\ UNCHANGED <<settings, key, ctx, store, signed, purged>>

\* Mutant: when push fails Sync returns.
PushFailsSync(d) ==
  /\ pc[d] = "push"
  /\ pc' = [pc EXCEPT ![d] = "tick"]
  /\ UNCHANGED <<settings, key, ctx, store, onHub, signed, purged>>

\* Every request fails, as it does once the context has ended.
PushFails(d) ==
  /\ pc[d] = "push"
  /\ pc' = [pc EXCEPT ![d] = "pull"]
  /\ UNCHANGED <<settings, key, ctx, store, onHub, signed, purged>>

\* Mutant: the signature is verified with the public key that came with it.
VerifyOwnPubkey(d, pubkey, sig) == sig[1] = pubkey /\ sig[2] # NoKey

\* The public key must be the one of this namespace, the signature its own over
\* the NUKE payload of this namespace.
VerifyNuke(d, pubkey, sig) ==
  /\ pubkey = key[d]
  /\ sig = <<key[d], key[d]>>

\* The pages come without a marker, or with one that is not verified and ignored:
\* the blocks of the other devices are merged into the store.  Sync returns, and
\* Run waits for the tick.
PullIgnores(d) ==
  /\ pc[d] = "pull"
  /\ ctx[d]
  /\ store' = IF \E e \in onHub \ {d} : DeviceKey(e) = key[d] THEN store \cup {d} ELSE store
  /\ pc' = [pc EXCEPT ![d] = "tick"]
  /\ UNCHANGED <<settings, key, ctx, onHub, signed, purged>>

PullForged(d, pubkey, sig) == ~VerifyNuke(d, pubkey, sig) /\ PullIgnores(d)

\* The manifest, or what comes before it, fails.
PullFails(d) ==
  /\ pc[d] = "pull"
  /\ pc' = [pc EXCEPT ![d] = "tick"]
  /\ UNCHANGED <<settings, key, ctx, store, onHub, signed, purged>>

\* handleNuke.
PullNuked(d, pubkey, sig) ==
  /\ pc[d] = "pull"
  /\ ctx[d]
  /\ VerifyNuke(d, pubkey, sig)
  /\ pc' = [pc EXCEPT ![d] = "hook"]
  /\ UNCHANGED <<settings, key, ctx, store, onHub, signed, purged>>

\* The hook purges the store and shreds the key file.
Purge(d) ==
  /\ pc[d] = "hook"
  /\ store' = store \ {d}
  /\ purged' = purged \cup {d}
  /\ UNCHANGED <<settings, key, ctx, onHub, signed>>

\* Mutant: Run goes on after the hook.
HookDoneGoesOn(d) == Purge(d) /\ pc' = [pc EXCEPT ![d] = "tick"]

\* Sync returns ErrNamespaceNuked: Run stops, unless the context has ended
\* meanwhile.
HookDone(d) == Purge(d) /\ pc' = [pc EXCEPT ![d] = IF ctx[d] THEN "stopped" ELSE "tick"]

\* The hook fails, before or after it has emptied the store: it runs again at a
\* later tick.
HookFails(d) ==
  /\ pc[d] = "hook"
  /\ store' \in {store, store \ {d}}
  /\ pc' = [pc EXCEPT ![d] = "tick"]
  /\ UNCHANGED <<settings, key, ctx, onHub, signed, purged>>

\* A tick; when the context has ended as well either case of the select may run.
Tick(d) ==
  /\ pc[d] = "tick"
  /\ pc' = [pc EXCEPT ![d] = "push"]
  /\ UNCHANGED <<settings, key, ctx, store, onHub, signed, purged>>

RunEnds(d) ==
  /\ pc[d] = "tick"
  /\ ~ctx[d]
  /\ pc' = [pc EXCEPT ![d] = "stopped"]
  /\ UNCHANGED <<settings, key, ctx, store, onHub, signed, purged>>

----------------------------------------------------------------------------
(* The surroundings *)

Running(d) == pc[d] \in {"push", "pull", "hook", "tick"}

EndContext(d) ==
  /\ Running(d)
  /\ ctx[d]
  /\ ctx' = [ctx EXCEPT ![d] = FALSE]
  /\ UNCHANGED <<settings, key, pc, store, onHub, signed, purged>>

\* The program ends or crashes, in the hook too.
Exit(d) ==
  /\ pc[d] # "down"
  /\ pc' = [pc EXCEPT ![d] = "down"]
  /\ key' = [key EXCEPT ![d] = NoKey]
  /\ UNCHANGED <<settings, ctx, store, onHub, signed, purged>>

\* The user of a device writes a session; not after the purge.
Write(d) ==
  /\ d \notin store
  /\ d \notin purged
  /\ store' = store \cup {d}
  /\ UNCHANGED <<settings, key, pc, ctx, onHub, signed, purged>>

\* PostNuke by a holder of key k: it signs the namespace derived from k.
PostNuke(k) ==
  /\ signed' = signed \cup {<<k, k>>}
  /\ UNCHANGED <<settings, key, pc, ctx, store, onHub, purged>>

\* WipeRemote by a holder of key k: the hub deletes the namespace.
WipeRemote(k) ==
  /\ onHub' = {d \in onHub : DeviceKey(d) # k}
  /\ UNCHANGED <<settings, key, pc, ctx, store, signed, purged>>

Pull(d) ==
  \/ PullIgnores(d)
  \/ PullFails(d)
  \/ \E pubkey \in Key, sig \in signed \cup {Junk} :
       PullForged(d, pubkey, sig) \/ PullNuked(d, pubkey, sig)

RunStep(d) ==
  Push(d) \/ PushFails(d) \/ Pull(d) \/ HookDone(d) \/ HookFails(d) \/ Tick(d) \/ RunEnds(d)

Next ==
  \/ \E d \in Device : Start(d) \/ RunStep(d) \/ EndContext(d) \/ Exit(d) \/ Write(d)
  \/ \E k \in Key : PostNuke(k) \/ WipeRemote(k)

Spec == Init /\ [][Next]_vars

\* Run is scheduled; the hub serves a marker that it has, again and again; and the
\* hook does not fail for ever.
FairSpec ==
  /\ Spec
  /\ \A d \in Device :
       /\ WF_vars(RunStep(d))
       /\ SF_vars(\E k \in Key : <<k, k>> \in signed /\ PullNuked(d, k, <<k, k>>))
       /\ SF_vars(HookDone(d))

----------------------------------------------------------------------------
(* Properties *)

TypeOK ==
  /\ settings \in [Device -> Settings]
  /\ key \in [Device -> Key \cup {NoKey}]
  /\ pc \in [Device -> {"down", "off", "push", "pull", "hook", "tick", "stopped"}]
  /\ ctx \in [Device -> BOOLEAN]
  /\ store \subseteq Device
  /\ onHub \subseteq Device
  /\ signed \subseteq Signature
  /\ purged \subseteq Device

\* A holder of the device's key has ordered its namespace destroyed.
Ordered(d) == <<DeviceKey(d), DeviceKey(d)>> \in signed

\* Whatever markers the hub serves, a store is emptied only on the order of a
\* holder of the device's own key; and Run stops by itself only when the hook has
\* succeeded, or its context has ended.
PurgedByHolder ==
  \A d \in Device :
    /\ d \notin store \/ d \in purged => Ordered(d)
    /\ pc[d] = "stopped" => d \in purged \/ ~ctx[d]

\* A purge lasts: no block that is still on the hub comes back into the store,
\* although Run may tick on once its context has ended, and the program may start
\* again.  (With a key in the environment, which the hook does not shred, a later
\* start may fetch blocks again.)
StaysPurged == \A d \in purged : settings[d].envKey = NoKey => d \notin store

\* Every device that runs in a destroyed namespace purges itself, also when push
\* or the hook fails first, unless its context ends or it crashes before.
EveryDevicePurges ==
  \A d \in Device :
    Ordered(d) /\ Running(d) ~> (d \in purged \/ ~ctx[d] \/ pc[d] = "down")
=============================================================================
