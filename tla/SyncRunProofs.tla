--------------------------- MODULE SyncRunProofs ---------------------------
(***************************************************************************)
(* Proofs about the module SyncRun, for every set of devices, of keys and of*)
(* settings: what a hub that is not trusted can and cannot bring about.     *)
(***************************************************************************)
EXTENDS SyncRun, TLAPS

\* A Syncer runs with the device's own key: the one of its file can only disappear.
\* A device in the hook, or one whose store was emptied, has had an order signed
\* with that key.
RunInv ==
  /\ TypeOK
  /\ \A d \in Device :
       /\ key[d] \in {NoKey, DeviceKey(d)}
       /\ Running(d) => key[d] = DeviceKey(d) /\ key[d] # NoKey
       /\ pc[d] = "hook" => Ordered(d)
       /\ d \notin store => Ordered(d)
       /\ d \in purged => Ordered(d)
       /\ pc[d] = "stopped" => d \in purged \/ ~ctx[d]

\* A purged device has no store and, without a key in its environment, no Syncer that
\* could pull again but one whose context has ended.
PurgeInv ==
  \A d \in purged : settings[d].envKey = NoKey =>
    /\ d \notin store
    /\ Running(d) => ~ctx[d]

LEMMA NoKeys == NoKey \notin Key /\ BadKey \notin Key /\ NoKey # BadKey /\ Settings \subseteq Setting
BY SyncRunAssumption DEF SyncRunAssumption, NoKey, BadKey

\* The key a device starts with is its own one or none, and it is none after the purge
\* when the environment holds no key.
LEMMA ResolvedKey ==
  ASSUME TypeOK, NEW d \in Device
  PROVE  /\ Resolve(Current(d)) \in Key \cup {NoKey}
         /\ Resolve(Current(d)) \in {NoKey, DeviceKey(d)}
         /\ d \in purged /\ settings[d].envKey = NoKey => Resolve(Current(d)) = NoKey
<1>1. settings[d] \in Setting
  BY NoKeys DEF TypeOK
<1>2. Current(d).envKey = settings[d].envKey
  BY <1>1 DEF Current, Setting
<1>3. d \in purged => Current(d).fileKey = NoKey
  BY <1>1 DEF Current, Setting
<1>4. d \notin purged => Current(d) = settings[d]
  BY DEF Current
<1> QED BY <1>2, <1>3, <1>4, NoKeys DEF Resolve, LoadContentKey, DeviceKey

LEMMA RunStarts == Init => RunInv /\ PurgeInv
BY NoKeys DEF Init, RunInv, PurgeInv, TypeOK, Running, Signature

\* The hub can serve a marker that verifies only when a holder of the key has signed.
LEMMA OnlyHolders ==
  ASSUME NEW d \in Device, key[d] = DeviceKey(d), key[d] # NoKey,
         NEW pubkey \in Key, NEW sig \in signed \cup {Junk}, VerifyNuke(d, pubkey, sig)
  PROVE  Ordered(d)
BY DEF VerifyNuke, Ordered, Junk

\* Every step keeps the invariant; the settings do not change and a signature stays.
LEMMA RunKept == RunInv /\ [Next]_vars => RunInv'
<1> SUFFICES ASSUME RunInv, [Next]_vars
             PROVE  RunInv'
    OBVIOUS
<1>1. settings' = settings /\ signed \subseteq signed'
  BY DEF Next, RunStep, Pull, PullForged, vars, Start, Push, PushFails, PullIgnores, PullFails,
         PullNuked, HookDone, Purge, HookFails, Tick, RunEnds, EndContext, Exit, Write, PostNuke,
         WipeRemote
<1>2. \A d \in Device : (DeviceKey(d))' = DeviceKey(d) /\ (Ordered(d) => Ordered(d)')
  BY <1>1 DEF DeviceKey, Ordered
<1> USE DEF RunInv, Running
<1>3. ASSUME NEW d \in Device, Start(d)
      PROVE  RunInv'
  BY <1>2, <1>3, ResolvedKey, NoKeys DEF Start, TypeOK
<1>4. ASSUME NEW d \in Device, Push(d) \/ PushFails(d) \/ PullIgnores(d) \/ PullFails(d) \/ Tick(d)
      PROVE  RunInv'
  BY <1>2, <1>4 DEF Push, PushFails, PullIgnores, PullFails, Tick, TypeOK
<1>5. ASSUME NEW d \in Device, NEW pubkey \in Key, NEW sig \in signed \cup {Junk},
             PullNuked(d, pubkey, sig)
      PROVE  RunInv'
  <2>1. Ordered(d)
    BY <1>5, OnlyHolders DEF PullNuked
  <2> QED BY <1>2, <1>5, <2>1 DEF PullNuked, TypeOK
<1>6. ASSUME NEW d \in Device, HookDone(d)
      PROVE  RunInv'
  BY <1>2, <1>6 DEF HookDone, Purge, TypeOK
<1>7. ASSUME NEW d \in Device, HookFails(d)
      PROVE  RunInv'
  BY <1>2, <1>7 DEF HookFails, TypeOK
<1>8. ASSUME NEW d \in Device, RunEnds(d) \/ EndContext(d) \/ Exit(d) \/ Write(d)
      PROVE  RunInv'
  BY <1>2, <1>8 DEF RunEnds, EndContext, Exit, Write, TypeOK
<1>9. ASSUME NEW k \in Key, PostNuke(k) \/ WipeRemote(k)
      PROVE  RunInv'
  BY <1>2, <1>9 DEF PostNuke, WipeRemote, TypeOK, Signature
<1>10. CASE UNCHANGED vars
  BY <1>2, <1>10 DEF vars, TypeOK
<1> QED BY <1>3, <1>4, <1>5, <1>6, <1>7, <1>8, <1>9, <1>10
        DEF Next, RunStep, Pull, PullForged

LEMMA PurgeKept == RunInv /\ PurgeInv /\ [Next]_vars => PurgeInv'
<1> SUFFICES ASSUME RunInv, PurgeInv, [Next]_vars
             PROVE  PurgeInv'
    OBVIOUS
<1>1. TypeOK
  BY DEF RunInv
<1> USE DEF PurgeInv, Running
<1>3. ASSUME NEW d \in Device, Start(d)
      PROVE  PurgeInv'
  BY <1>1, <1>3, ResolvedKey DEF Start, TypeOK
<1>4. ASSUME NEW d \in Device,
             Push(d) \/ PushFails(d) \/ PullIgnores(d) \/ PullFails(d) \/ Tick(d) \/ RunEnds(d)
      PROVE  PurgeInv'
  BY <1>1, <1>4 DEF Push, PushFails, PullIgnores, PullFails, Tick, RunEnds, TypeOK
<1>5. ASSUME NEW d \in Device, HookDone(d) \/ HookFails(d)
      PROVE  PurgeInv'
  BY <1>1, <1>5 DEF HookDone, Purge, HookFails, TypeOK
<1>6. ASSUME NEW d \in Device, EndContext(d) \/ Exit(d) \/ Write(d)
      PROVE  PurgeInv'
  BY <1>1, <1>6 DEF EndContext, Exit, Write, TypeOK
<1>7. ASSUME NEW d \in Device, NEW pubkey \in Key, NEW sig \in signed \cup {Junk},
             PullNuked(d, pubkey, sig)
      PROVE  PurgeInv'
  BY <1>1, <1>7 DEF PullNuked, TypeOK
<1>8. ASSUME NEW k \in Key, PostNuke(k) \/ WipeRemote(k)
      PROVE  PurgeInv'
  BY <1>8 DEF PostNuke, WipeRemote
<1>9. CASE UNCHANGED vars
  BY <1>9 DEF vars
<1> QED BY <1>3, <1>4, <1>5, <1>6, <1>7, <1>8, <1>9
        DEF Next, RunStep, Pull, PullForged

LEMMA RunHolds == Spec => [](RunInv /\ PurgeInv)
<1>1. RunInv /\ PurgeInv /\ [Next]_vars => (RunInv /\ PurgeInv)'
  BY RunKept, PurgeKept
<1> QED BY RunStarts, <1>1, PTL DEF Spec

\* Every variable keeps its type: no Syncer runs with a key that is none.
THEOREM RunTypes == Spec => []TypeOK
<1>1. RunInv => TypeOK
  BY DEF RunInv
<1> QED BY RunHolds, <1>1, PTL

\* Whatever markers the hub serves, a device is purged only on the order of a holder
\* of its key, and Run stops by itself only after the purge.
THEOREM PurgeTheorem == Spec => []PurgedByHolder
<1>1. RunInv => PurgedByHolder
  BY DEF RunInv, PurgedByHolder
<1> QED BY RunHolds, <1>1, PTL

\* A purged store stays empty, unless the environment holds a key.
THEOREM PurgeLasts == Spec => []StaysPurged
<1>1. PurgeInv => StaysPurged
  BY DEF PurgeInv, StaysPurged
<1> QED BY RunHolds, <1>1, PTL
=============================================================================
