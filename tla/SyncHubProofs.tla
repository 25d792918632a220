--------------------------- MODULE SyncHubProofs ---------------------------
(* Theorems about SyncHub for every value of its constants. *)
EXTENDS SyncHub, TLAPS

\* The initial state (New, and an empty hub) has the right types.
LEMMA TypeInit == Init => TypeOK /\ InLog
BY ConstantsAssumption DEF Init, TypeOK, InLog, NoRows, Row, History, PC

\* What appending an entry does to the log.
LEMMA AppendFacts ==
  ASSUME NEW s \in Seq(Entry), NEW e \in Entry
  PROVE  /\ Append(s, e) \in Seq(Entry)
         /\ Len(Append(s, e)) = Len(s) + 1
         /\ DOMAIN s = 1 .. Len(s)
         /\ DOMAIN Append(s, e) = 1 .. (Len(s) + 1)
         /\ \A k \in 1 .. Len(s) : Append(s, e)[k] = s[k]
         /\ Append(s, e)[Len(s) + 1] = e
OBVIOUS

\* A restart sets a worker's variable on one device and keeps the others'.
LEMMA OnDeviceType ==
  ASSUME NEW S, NEW f \in [Worker -> S], NEW v \in S, NEW d \in Device
  PROVE  /\ OnDevice(d, f, v) \in [Worker -> S]
         /\ \A w \in Worker : OnDevice(d, f, v)[w] = IF Home[w] = d THEN v ELSE f[w]
BY DEF OnDevice

\* No handler of push or pull, no failure and no restart leaves a variable out of
\* its type.
LEMMA TypeStep ==
  ASSUME TypeOK, InLog, [Next]_vars
  PROVE  TypeOK'
<1> USE ConstantsAssumption DEF TypeOK
<1>1. ASSUME NEW w \in Worker, StartSync(w) PROVE TypeOK'
  BY <1>1 DEF StartSync, Row, History, PC, Entry, deviceVars, pullVars
<1>2. ASSUME NEW w \in Worker, StartTombstones(w) PROVE TypeOK'
  BY <1>2 DEF StartTombstones, Row, History, PC, Entry, deviceVars, pullVars, NoRows
<1>3. ASSUME NEW w \in Worker, StartPull(w) PROVE TypeOK'
  BY <1>3 DEF StartPull, Row, History, PC, Entry, deviceVars, pushVars
<1>4. ASSUME NEW w \in Worker, FetchPage(w) PROVE TypeOK'
  BY <1>4 DEF FetchPage, Row, History, PC, Entry, deviceVars, pushVars, PageEnd
<1>5. ASSUME NEW w \in Worker, PullDone(w) PROVE TypeOK'
  BY <1>5 DEF PullDone, Row, History, PC, Entry, deviceVars, pushVars, PullReturns
<1>6. ASSUME NEW w \in Worker, SaveMerged(w) PROVE TypeOK'
  BY <1>6 DEF SaveMerged, Row, History, PC, Entry, pushVars, SetRow
<1>7. ASSUME NEW w \in Worker, PageDone(w) PROVE TypeOK'
  BY <1>7 DEF PageDone, Row, History, PC, Entry, pushVars
<1>8. ASSUME NEW w \in Worker, PageFailed(w) PROVE TypeOK'
  BY <1>8 DEF PageFailed, Row, History, PC, Entry, deviceVars, pushVars, PullReturns
<1>9. ASSUME NEW w \in Worker, ListFails(w) PROVE TypeOK'
  BY <1>9 DEF ListFails, Row, History, PC, Entry, deviceVars, pushVars, Fail
<1>10. ASSUME NEW w \in Worker, ManifestFails(w) PROVE TypeOK'
  BY <1>10 DEF ManifestFails, Row, History, PC, Entry, deviceVars, pushVars, Fail, PullReturns
<1>11. ASSUME NEW w \in Worker, SaveFails(w) PROVE TypeOK'
  BY <1>11 DEF SaveFails, Row, History, PC, Entry, deviceVars, pushVars, Fail
<1>12. ASSUME NEW w \in Worker, CursorLost(w) PROVE TypeOK'
  BY <1>12 DEF CursorLost, Row, History, PC, Entry, pushVars, Fail, PullReturns
<1>13. ASSUME NEW w \in Worker, NEW i \in Item, PushUnchanged(w, i) PROVE TypeOK'
  BY <1>13 DEF PushUnchanged, Row, History, PC, Entry, deviceVars, pullVars
<1>14. ASSUME NEW w \in Worker, NEW i \in Item, PutBlock(w, i) PROVE TypeOK'
  BY <1>14 DEF PutBlock, Row, History, PC, Entry, pullVars, SetRow, Append1, Block, Hist, MustPush
<1>15. ASSUME NEW w \in Worker, NEW i \in Item, Tombstone(w, i) PROVE TypeOK'
  BY <1>15 DEF Tombstone, Row, History, PC, Entry, pullVars, SetRow, Append1, Tomb
<1>16. ASSUME NEW w \in Worker, NEW i \in Item, ListSkips(w, i) PROVE TypeOK'
  BY <1>16 DEF ListSkips, Row, History, PC, Entry, deviceVars, pullVars, Fail
<1>17. ASSUME NEW w \in Worker, NEW i \in Item, PutFails(w, i) PROVE TypeOK'
  BY <1>17 DEF PutFails, Row, History, PC, Entry, deviceVars, pullVars, Fail, MustPush
<1>18. ASSUME NEW w \in Worker, NEW i \in Item, PutReplyLost(w, i) PROVE TypeOK'
  BY <1>18 DEF PutReplyLost, Row, History, PC, Entry, deviceVars, pullVars, Fail, Append1, Block, Hist, MustPush
<1>19. ASSUME NEW w \in Worker, NEW i \in Item, TombstoneFails(w, i) PROVE TypeOK'
  BY <1>19 DEF TombstoneFails, Row, History, PC, Entry, deviceVars, pullVars, Fail
<1>20. ASSUME NEW w \in Worker, NEW i \in Item, TombstoneReplyLost(w, i) PROVE TypeOK'
  BY <1>20 DEF TombstoneReplyLost, Row, History, PC, Entry, deviceVars, pullVars, Fail, Append1, Tomb
<1>21. ASSUME NEW w \in Worker, NEW n \in todo[w], ApplyTombstone(w, n) PROVE TypeOK'
  BY <1>21 DEF ApplyTombstone, Row, History, PC, Entry, pushVars, SetRow, NextEntry, Others
<1>22. ASSUME NEW w \in Worker, NEW n \in todo[w], SkipEntry(w, n) PROVE TypeOK'
  BY <1>22 DEF SkipEntry, Row, History, PC, Entry, deviceVars, pushVars, NextEntry
<1>23. ASSUME NEW w \in Worker, NEW n \in todo[w], BlockKnown(w, n) PROVE TypeOK'
  <2>1. log[n] \in Entry
    BY DEF InLog
  <2>2. pushed' \in [Device -> [Item -> Row]]
    BY <1>23, <2>1 DEF BlockKnown, SetRow, Entry
  <2> QED
    BY <1>23, <2>2 DEF BlockKnown, pushVars
<1>24. ASSUME NEW w \in Worker, NEW n \in todo[w], BlockNew(w, n) PROVE TypeOK'
  <2>1. log[n] \in Entry
    BY DEF InLog
  <2>2. merged' \in [Worker -> History]
    BY <1>24, <2>1 DEF BlockNew, StartMerge, MergeMessages, Hist, Row, History, Entry, NextBlock, NextEntry
  <2> QED
    BY <1>24, <2>2 DEF BlockNew, StartMerge, NextBlock, NextEntry, pushVars, PC
<1>25. ASSUME NEW w \in Worker, NEW n \in todo[w], DeleteFails(w, n) PROVE TypeOK'
  BY <1>25 DEF DeleteFails, Row, History, PC, Entry, deviceVars, pushVars, Fail, NextEntry, Others
<1>26. ASSUME NEW w \in Worker, NEW n \in todo[w], GetFails(w, n) PROVE TypeOK'
  BY <1>26 DEF GetFails, Row, History, PC, Entry, deviceVars, pushVars, Fail, NextEntry, NextBlock
<1>27. ASSUME NEW w \in Worker, NEW n \in todo[w], LoadFails(w, n) PROVE TypeOK'
  <2>1. log[n] \in Entry
    BY DEF InLog
  <2>2. merged' \in [Worker -> History]
    BY <1>27, <2>1 DEF LoadFails, StartMerge, MergeMessages, Row, History, Entry, NextBlock, NextEntry
  <2> QED
    BY <1>27, <2>2 DEF LoadFails, StartMerge, NextBlock, NextEntry, pushVars, PC, Fail
<1>28. ASSUME NEW d \in Device, NEW i \in Item, NEW m \in Message, Say(d, i, m) PROVE TypeOK'
  BY <1>28 DEF Say, Row, History, PC, Entry, pushVars, pullVars, SetRow, Hist
<1>29. ASSUME NEW d \in Device, NEW i \in Item, DeleteSession(d, i) PROVE TypeOK'
  BY <1>29 DEF DeleteSession, Row, History, PC, Entry, pushVars, pullVars, SetRow
<1>30. ASSUME NEW d \in Device, Restart(d) PROVE TypeOK'
  <2>1. NoRows \in [Item -> Row] /\ {} \in SUBSET Item /\ {} \in SUBSET Nat
        /\ {} \in History /\ "idle" \in PC /\ 0 \in Nat /\ FALSE \in BOOLEAN
    BY DEF NoRows, Row, History, PC
  <2>2. /\ pc' \in [Worker -> PC]
        /\ snap' \in [Worker -> [Item -> Row]]
        /\ queue' \in [Worker -> SUBSET Item]
    BY <1>30, <2>1, OnDeviceType DEF Restart
  <2>3. /\ at' \in [Worker -> Nat]
        /\ hi' \in [Worker -> Nat]
        /\ todo' \in [Worker -> SUBSET Nat]
    BY <1>30, <2>1, OnDeviceType DEF Restart
  <2>4. /\ failed' \in [Worker -> BOOLEAN]
        /\ block' \in [Worker -> Nat]
        /\ merged' \in [Worker -> History]
    BY <1>30, <2>1, OnDeviceType DEF Restart
  <2>5. /\ pushed' \in [Device -> [Item -> Row]]
        /\ have' \in [Device -> SUBSET Nat]
        /\ faults' \in Nat
        /\ UNCHANGED <<log, said, store, cursor>>
    BY <1>30, <2>1 DEF Restart, Fail
  <2> QED
    BY <2>2, <2>3, <2>4, <2>5
<1>31. CASE UNCHANGED vars
  BY <1>31 DEF vars
<1> QED
  BY <1>1, <1>2, <1>3, <1>4, <1>5, <1>6, <1>7, <1>8, <1>9, <1>10, <1>11, <1>12, <1>13, <1>14, <1>15, <1>16, <1>17, <1>18, <1>19, <1>20, <1>21, <1>22, <1>23, <1>24, <1>25, <1>26, <1>27, <1>28, <1>29, <1>30, <1>31
     DEF Next, PushStep, PullStep, PushFault, PullFault, UserStep

\* What a restart of device d does to the workers.
LEMMA RestartFacts ==
  ASSUME NEW d \in Device, Restart(d), NEW w \in Worker
  PROVE  /\ pc'[w] = (IF Home[w] = d THEN "idle" ELSE pc[w])
         /\ snap'[w] = (IF Home[w] = d THEN NoRows ELSE snap[w])
         /\ queue'[w] = (IF Home[w] = d THEN {} ELSE queue[w])
         /\ at'[w] = (IF Home[w] = d THEN 0 ELSE at[w])
         /\ hi'[w] = (IF Home[w] = d THEN 0 ELSE hi[w])
         /\ todo'[w] = (IF Home[w] = d THEN {} ELSE todo[w])
         /\ failed'[w] = (IF Home[w] = d THEN FALSE ELSE failed[w])
         /\ block'[w] = (IF Home[w] = d THEN 0 ELSE block[w])
         /\ merged'[w] = (IF Home[w] = d THEN {} ELSE merged[w])
BY DEF Restart, OnDevice

\* The hub's log is append-only.
LEMMA LogGrows ==
  ASSUME TypeOK, NEW e \in Entry, Append1(e)
  PROVE  /\ Len(log) \in Nat
         /\ Len(log') = Len(log) + 1
         /\ \A k \in 1 .. Len(log) : log'[k] = log[k]
         /\ log'[Len(log) + 1] = e
BY AppendFacts DEF Append1, TypeOK

\* Blocks and tombstones are entries of the hub's log.
LEMMA EntryFacts ==
  ASSUME NEW i \in Item, NEW msgs \in History
  PROVE  Block(i, msgs) \in Entry /\ Tomb(i) \in Entry
BY DEF Block, Tomb, Entry, History

\* The messages of a row, missing or not, are a history.
LEMMA HistType ==
  ASSUME NEW row \in Row
  PROVE  Hist(row) \in History
BY DEF Hist, Row, History

\* Every step keeps cursors, pages and possessed blocks within the log: the hub
\* never forgets an entry that it has once advertised.
LEMMA InLogStep ==
  ASSUME TypeOK, InLog, [Next]_vars
  PROVE  InLog'
<1> USE ConstantsAssumption DEF TypeOK, InLog
<1>l. Len(log) \in Nat
  OBVIOUS
<1>1. ASSUME NEW w \in Worker, StartSync(w) PROVE InLog'
  BY <1>1 DEF StartSync, deviceVars, pullVars
<1>2. ASSUME NEW w \in Worker, StartTombstones(w) PROVE InLog'
  BY <1>2 DEF StartTombstones, deviceVars, pullVars
<1>3. ASSUME NEW w \in Worker, StartPull(w) PROVE InLog'
  BY <1>3 DEF StartPull, deviceVars, pushVars
<1>4. ASSUME NEW w \in Worker, FetchPage(w) PROVE InLog'
  BY <1>4 DEF FetchPage, deviceVars, pushVars, PageEnd
<1>5. ASSUME NEW w \in Worker, PullDone(w) PROVE InLog'
  BY <1>5 DEF PullDone, deviceVars, pushVars, PullReturns
<1>6. ASSUME NEW w \in Worker, SaveMerged(w) PROVE InLog'
  BY <1>6 DEF SaveMerged, pushVars
<1>7. ASSUME NEW w \in Worker, PageDone(w) PROVE InLog'
  BY <1>7 DEF PageDone, pushVars
<1>8. ASSUME NEW w \in Worker, PageFailed(w) PROVE InLog'
  BY <1>8 DEF PageFailed, deviceVars, pushVars, PullReturns
<1>9. ASSUME NEW w \in Worker, ListFails(w) PROVE InLog'
  BY <1>9 DEF ListFails, deviceVars, pushVars, Fail
<1>10. ASSUME NEW w \in Worker, ManifestFails(w) PROVE InLog'
  BY <1>10 DEF ManifestFails, deviceVars, pushVars, Fail, PullReturns
<1>11. ASSUME NEW w \in Worker, SaveFails(w) PROVE InLog'
  BY <1>11 DEF SaveFails, deviceVars, pushVars, Fail
<1>12. ASSUME NEW w \in Worker, CursorLost(w) PROVE InLog'
  BY <1>12 DEF CursorLost, pushVars, Fail, PullReturns
<1>13. ASSUME NEW w \in Worker, NEW i \in Item, PushUnchanged(w, i) PROVE InLog'
  BY <1>13 DEF PushUnchanged, deviceVars, pullVars
<1>14. ASSUME NEW w \in Worker, NEW i \in Item, PutBlock(w, i) PROVE InLog'
  <2>1. Len(log') = Len(log) + 1
    BY <1>14, LogGrows, EntryFacts, HistType DEF PutBlock, MustPush
  <2>2. have' = [have EXCEPT ![Home[w]] = @ \cup {Len(log) + 1}] /\ UNCHANGED <<cursor, pc, at, hi, todo, block>>
    BY <1>14 DEF PutBlock, pullVars
  <2> QED
    BY <2>1, <2>2, <1>l
<1>15. ASSUME NEW w \in Worker, NEW i \in Item, Tombstone(w, i) PROVE InLog'
  <2>1. Len(log') = Len(log) + 1
    BY <1>15, LogGrows, EntryFacts, HistType DEF Tombstone
  <2>2. UNCHANGED have /\ UNCHANGED <<cursor, pc, at, hi, todo, block>>
    BY <1>15 DEF Tombstone, pullVars
  <2> QED
    BY <2>1, <2>2, <1>l
<1>16. ASSUME NEW w \in Worker, NEW i \in Item, ListSkips(w, i) PROVE InLog'
  BY <1>16 DEF ListSkips, deviceVars, pullVars, Fail
<1>17. ASSUME NEW w \in Worker, NEW i \in Item, PutFails(w, i) PROVE InLog'
  BY <1>17 DEF PutFails, deviceVars, pullVars, Fail, MustPush
<1>18. ASSUME NEW w \in Worker, NEW i \in Item, PutReplyLost(w, i) PROVE InLog'
  <2>1. Len(log') = Len(log) + 1
    BY <1>18, LogGrows, EntryFacts, HistType DEF PutReplyLost, MustPush
  <2>2. UNCHANGED have /\ UNCHANGED <<cursor, pc, at, hi, todo, block>>
    BY <1>18 DEF PutReplyLost, deviceVars, pullVars
  <2> QED
    BY <2>1, <2>2, <1>l
<1>19. ASSUME NEW w \in Worker, NEW i \in Item, TombstoneFails(w, i) PROVE InLog'
  BY <1>19 DEF TombstoneFails, deviceVars, pullVars, Fail
<1>20. ASSUME NEW w \in Worker, NEW i \in Item, TombstoneReplyLost(w, i) PROVE InLog'
  <2>1. Len(log') = Len(log) + 1
    BY <1>20, LogGrows, EntryFacts, HistType DEF TombstoneReplyLost
  <2>2. UNCHANGED have /\ UNCHANGED <<cursor, pc, at, hi, todo, block>>
    BY <1>20 DEF TombstoneReplyLost, deviceVars, pullVars
  <2> QED
    BY <2>1, <2>2, <1>l
<1>21. ASSUME NEW w \in Worker, NEW n \in todo[w], ApplyTombstone(w, n) PROVE InLog'
  BY <1>21 DEF ApplyTombstone, pushVars, NextEntry, Others
<1>22. ASSUME NEW w \in Worker, NEW n \in todo[w], SkipEntry(w, n) PROVE InLog'
  BY <1>22 DEF SkipEntry, deviceVars, pushVars, NextEntry
<1>23. ASSUME NEW w \in Worker, NEW n \in todo[w], BlockKnown(w, n) PROVE InLog'
  BY <1>23 DEF BlockKnown, pushVars, NextEntry, NextBlock
<1>24. ASSUME NEW w \in Worker, NEW n \in todo[w], BlockNew(w, n) PROVE InLog'
  BY <1>24 DEF BlockNew, pushVars, NextEntry, NextBlock, StartMerge
<1>25. ASSUME NEW w \in Worker, NEW n \in todo[w], DeleteFails(w, n) PROVE InLog'
  BY <1>25 DEF DeleteFails, deviceVars, pushVars, Fail, NextEntry, Others
<1>26. ASSUME NEW w \in Worker, NEW n \in todo[w], GetFails(w, n) PROVE InLog'
  BY <1>26 DEF GetFails, deviceVars, pushVars, Fail, NextEntry, NextBlock
<1>27. ASSUME NEW w \in Worker, NEW n \in todo[w], LoadFails(w, n) PROVE InLog'
  BY <1>27 DEF LoadFails, pushVars, Fail, NextEntry, NextBlock, StartMerge
<1>28. ASSUME NEW d \in Device, NEW i \in Item, NEW m \in Message, Say(d, i, m) PROVE InLog'
  BY <1>28 DEF Say, pushVars, pullVars
<1>29. ASSUME NEW d \in Device, NEW i \in Item, DeleteSession(d, i) PROVE InLog'
  BY <1>29 DEF DeleteSession, pushVars, pullVars
<1>30. ASSUME NEW d \in Device, Restart(d) PROVE InLog'
  <2>1. have' = [have EXCEPT ![d] = {}] /\ UNCHANGED <<log, cursor>>
    BY <1>30 DEF Restart
  <2>2. ASSUME NEW w \in Worker
        PROVE  /\ at'[w] <= Len(log)
               /\ hi'[w] <= Len(log)
               /\ todo'[w] \subseteq 1 .. Len(log)
               /\ pc'[w] = "save" => block'[w] \in 1 .. Len(log)
    <3>1. CASE Home[w] = d
      <4>1. at'[w] = 0 /\ hi'[w] = 0 /\ todo'[w] = {} /\ pc'[w] = "idle"
        BY <1>30, <3>1, RestartFacts
      <4> QED
        BY <4>1, <1>l
    <3>2. CASE Home[w] # d
      BY <1>30, <3>2, RestartFacts, <1>l
    <3> QED
      BY <3>1, <3>2
  <2> QED
    BY <2>1, <2>2
<1>31. CASE UNCHANGED vars
  BY <1>31 DEF vars
<1> QED
  BY <1>1, <1>2, <1>3, <1>4, <1>5, <1>6, <1>7, <1>8, <1>9, <1>10, <1>11, <1>12, <1>13, <1>14, <1>15, <1>16, <1>17, <1>18, <1>19, <1>20, <1>21, <1>22, <1>23, <1>24, <1>25, <1>26, <1>27, <1>28, <1>29, <1>30, <1>31
     DEF Next, PushStep, PullStep, PushFault, PullFault, UserStep

\* Rows of kept items only grow, the log only grows.
StoreGrows ==
  \A d \in Device, i \in Kept :
    /\ store[d][i] # Absent => store'[d][i] # Absent
    /\ Hist(store[d][i]) \subseteq Hist(store'[d][i])

LogExtends ==
  /\ Len(log) \in Nat
  /\ Len(log') \in Nat
  /\ Len(log) <= Len(log')
  /\ DOMAIN log = 1 .. Len(log)
  /\ DOMAIN log' = 1 .. Len(log')
  /\ \A k \in 1 .. Len(log) : log'[k] = log[k]

\* An item with a tombstone in the page in hand is not a kept one.
LEMMA KeptNotDead ==
  ASSUME TypeOK, InLog, KeptNeverTombstoned,
         NEW w \in Worker, NEW i \in Item, Dead(w, i)
  PROVE  i \notin Kept
<1>1. PICK n \in (at[w] + 1) .. hi[w] : log[n].item = i /\ log[n].tomb
  BY DEF Dead
<1>2. n \in DOMAIN log
  BY <1>1 DEF TypeOK, InLog
<1> QED
  BY <1>1, <1>2 DEF KeptNeverTombstoned

\* No step changes or removes an entry that is on the hub.
LEMMA LogExtendsStep ==
  ASSUME TypeOK, [Next]_vars, TypeOK'
  PROVE  LogExtends
<1>0. /\ DOMAIN log = 1 .. Len(log) /\ Len(log) \in Nat
      /\ DOMAIN log' = 1 .. Len(log') /\ Len(log') \in Nat
  BY DEF TypeOK
<1>1. ASSUME NEW w \in Worker, StartSync(w) PROVE LogExtends
  BY <1>1, <1>0 DEF StartSync, LogExtends, deviceVars, pullVars
<1>2. ASSUME NEW w \in Worker, StartTombstones(w) PROVE LogExtends
  BY <1>2, <1>0 DEF StartTombstones, LogExtends, deviceVars, pullVars
<1>3. ASSUME NEW w \in Worker, StartPull(w) PROVE LogExtends
  BY <1>3, <1>0 DEF StartPull, LogExtends, deviceVars, pushVars
<1>4. ASSUME NEW w \in Worker, FetchPage(w) PROVE LogExtends
  BY <1>4, <1>0 DEF FetchPage, LogExtends, deviceVars, pushVars
<1>5. ASSUME NEW w \in Worker, PullDone(w) PROVE LogExtends
  BY <1>5, <1>0 DEF PullDone, LogExtends, deviceVars, pushVars, PullReturns
<1>6. ASSUME NEW w \in Worker, SaveMerged(w) PROVE LogExtends
  BY <1>6, <1>0 DEF SaveMerged, LogExtends, pushVars
<1>7. ASSUME NEW w \in Worker, PageDone(w) PROVE LogExtends
  BY <1>7, <1>0 DEF PageDone, LogExtends, pushVars
<1>8. ASSUME NEW w \in Worker, PageFailed(w) PROVE LogExtends
  BY <1>8, <1>0 DEF PageFailed, LogExtends, deviceVars, pushVars, PullReturns
<1>9. ASSUME NEW w \in Worker, ListFails(w) PROVE LogExtends
  BY <1>9, <1>0 DEF ListFails, LogExtends, deviceVars, pushVars
<1>10. ASSUME NEW w \in Worker, ManifestFails(w) PROVE LogExtends
  BY <1>10, <1>0 DEF ManifestFails, LogExtends, deviceVars, pushVars, PullReturns
<1>11. ASSUME NEW w \in Worker, SaveFails(w) PROVE LogExtends
  BY <1>11, <1>0 DEF SaveFails, LogExtends, deviceVars, pushVars
<1>12. ASSUME NEW w \in Worker, CursorLost(w) PROVE LogExtends
  BY <1>12, <1>0 DEF CursorLost, LogExtends, pushVars, PullReturns
<1>13. ASSUME NEW w \in Worker, NEW i \in Item, PushUnchanged(w, i) PROVE LogExtends
  BY <1>13, <1>0 DEF PushUnchanged, LogExtends, deviceVars, pullVars
<1>14. ASSUME NEW w \in Worker, NEW i \in Item, PutBlock(w, i) PROVE LogExtends
  <2>0. Block(i, Hist(snap[w][i])) \in Entry
    BY EntryFacts, HistType DEF TypeOK, History
  <2>1. Len(log') = Len(log) + 1 /\ \A k \in 1 .. Len(log) : log'[k] = log[k]
    BY <1>14, <2>0, LogGrows DEF PutBlock
  <2> QED
    BY <2>1, <1>0 DEF LogExtends
<1>15. ASSUME NEW w \in Worker, NEW i \in Item, Tombstone(w, i) PROVE LogExtends
  <2>0. Tomb(i) \in Entry
    BY EntryFacts, HistType DEF TypeOK, History
  <2>1. Len(log') = Len(log) + 1 /\ \A k \in 1 .. Len(log) : log'[k] = log[k]
    BY <1>15, <2>0, LogGrows DEF Tombstone
  <2> QED
    BY <2>1, <1>0 DEF LogExtends
<1>16. ASSUME NEW w \in Worker, NEW i \in Item, ListSkips(w, i) PROVE LogExtends
  BY <1>16, <1>0 DEF ListSkips, LogExtends, deviceVars, pullVars
<1>17. ASSUME NEW w \in Worker, NEW i \in Item, PutFails(w, i) PROVE LogExtends
  BY <1>17, <1>0 DEF PutFails, LogExtends, deviceVars, pullVars
<1>18. ASSUME NEW w \in Worker, NEW i \in Item, PutReplyLost(w, i) PROVE LogExtends
  <2>0. Block(i, Hist(snap[w][i])) \in Entry
    BY EntryFacts, HistType DEF TypeOK, History
  <2>1. Len(log') = Len(log) + 1 /\ \A k \in 1 .. Len(log) : log'[k] = log[k]
    BY <1>18, <2>0, LogGrows DEF PutReplyLost
  <2> QED
    BY <2>1, <1>0 DEF LogExtends
<1>19. ASSUME NEW w \in Worker, NEW i \in Item, TombstoneFails(w, i) PROVE LogExtends
  BY <1>19, <1>0 DEF TombstoneFails, LogExtends, deviceVars, pullVars
<1>20. ASSUME NEW w \in Worker, NEW i \in Item, TombstoneReplyLost(w, i) PROVE LogExtends
  <2>0. Tomb(i) \in Entry
    BY EntryFacts, HistType DEF TypeOK, History
  <2>1. Len(log') = Len(log) + 1 /\ \A k \in 1 .. Len(log) : log'[k] = log[k]
    BY <1>20, <2>0, LogGrows DEF TombstoneReplyLost
  <2> QED
    BY <2>1, <1>0 DEF LogExtends
<1>21. ASSUME NEW w \in Worker, NEW n \in todo[w], ApplyTombstone(w, n) PROVE LogExtends
  BY <1>21, <1>0 DEF ApplyTombstone, LogExtends, pushVars
<1>22. ASSUME NEW w \in Worker, NEW n \in todo[w], SkipEntry(w, n) PROVE LogExtends
  BY <1>22, <1>0 DEF SkipEntry, LogExtends, deviceVars, pushVars
<1>23. ASSUME NEW w \in Worker, NEW n \in todo[w], BlockKnown(w, n) PROVE LogExtends
  BY <1>23, <1>0 DEF BlockKnown, LogExtends, pushVars
<1>24. ASSUME NEW w \in Worker, NEW n \in todo[w], BlockNew(w, n) PROVE LogExtends
  BY <1>24, <1>0 DEF BlockNew, LogExtends, pushVars, StartMerge
<1>25. ASSUME NEW w \in Worker, NEW n \in todo[w], DeleteFails(w, n) PROVE LogExtends
  BY <1>25, <1>0 DEF DeleteFails, LogExtends, deviceVars, pushVars
<1>26. ASSUME NEW w \in Worker, NEW n \in todo[w], GetFails(w, n) PROVE LogExtends
  BY <1>26, <1>0 DEF GetFails, LogExtends, deviceVars, pushVars
<1>27. ASSUME NEW w \in Worker, NEW n \in todo[w], LoadFails(w, n) PROVE LogExtends
  BY <1>27, <1>0 DEF LoadFails, LogExtends, pushVars, StartMerge
<1>28. ASSUME NEW d \in Device, NEW i \in Item, NEW m \in Message, Say(d, i, m) PROVE LogExtends
  BY <1>28, <1>0 DEF Say, LogExtends, pushVars, pullVars
<1>29. ASSUME NEW d \in Device, NEW i \in Item, DeleteSession(d, i) PROVE LogExtends
  BY <1>29, <1>0 DEF DeleteSession, LogExtends, pushVars, pullVars
<1>30. ASSUME NEW d \in Device, Restart(d) PROVE LogExtends
  BY <1>30, <1>0 DEF Restart, LogExtends
<1>31. CASE UNCHANGED vars
  BY <1>31 DEF vars, LogExtends
<1> QED
  BY <1>1, <1>2, <1>3, <1>4, <1>5, <1>6, <1>7, <1>8, <1>9, <1>10, <1>11, <1>12, <1>13, <1>14, <1>15, <1>16, <1>17, <1>18, <1>19, <1>20, <1>21, <1>22, <1>23, <1>24, <1>25, <1>26, <1>27, <1>28, <1>29, <1>30, <1>31
     DEF Next, PushStep, PullStep, PushFault, PullFault, UserStep

\* No step takes a message of a kept session away from a device: the save of a
\* merge extends what is stored, and no tombstone names a kept session.
LEMMA StoreGrowsStep ==
  ASSUME Regular, TypeOK, InLog, KeptNeverTombstoned, MergeInv, [Next]_vars
  PROVE  StoreGrows
<1> USE ConstantsAssumption
<1>1. ASSUME NEW w \in Worker, StartSync(w) PROVE StoreGrows
  BY <1>1 DEF StartSync, StoreGrows, deviceVars, pullVars
<1>2. ASSUME NEW w \in Worker, StartTombstones(w) PROVE StoreGrows
  BY <1>2 DEF StartTombstones, StoreGrows, deviceVars, pullVars
<1>3. ASSUME NEW w \in Worker, StartPull(w) PROVE StoreGrows
  BY <1>3 DEF StartPull, StoreGrows, deviceVars, pushVars
<1>4. ASSUME NEW w \in Worker, FetchPage(w) PROVE StoreGrows
  BY <1>4 DEF FetchPage, StoreGrows, deviceVars, pushVars
<1>5. ASSUME NEW w \in Worker, PullDone(w) PROVE StoreGrows
  BY <1>5 DEF PullDone, StoreGrows, deviceVars, pushVars, PullReturns
<1>6. ASSUME NEW w \in Worker, SaveMerged(w) PROVE StoreGrows
  <2> DEFINE i == log[block[w]].item
  <2>1. store' = SetRow(store, Home[w], i, merged[w]) /\ pc[w] = "save"
    BY <1>6 DEF SaveMerged
  <2>2. merged[w] \in Row /\ merged[w] # Absent /\ Home[w] \in Device
    BY DEF TypeOK, Row
  <2>3. i \in Kept => Hist(store[Home[w]][i]) \subseteq merged[w]
    BY <2>1 DEF MergeInv
  <2>4. \A e \in Device, j \in Item :
          store'[e][j] = IF e = Home[w] /\ j = i THEN merged[w] ELSE store[e][j]
    BY <2>1 DEF SetRow, TypeOK
  <2> QED
    BY <2>2, <2>3, <2>4 DEF StoreGrows, Hist
<1>7. ASSUME NEW w \in Worker, PageDone(w) PROVE StoreGrows
  BY <1>7 DEF PageDone, StoreGrows, pushVars
<1>8. ASSUME NEW w \in Worker, PageFailed(w) PROVE StoreGrows
  BY <1>8 DEF PageFailed, StoreGrows, deviceVars, pushVars, PullReturns
<1>9. ASSUME NEW w \in Worker, ListFails(w) PROVE StoreGrows
  BY <1>9 DEF ListFails, StoreGrows, deviceVars, pushVars
<1>10. ASSUME NEW w \in Worker, ManifestFails(w) PROVE StoreGrows
  BY <1>10 DEF ManifestFails, StoreGrows, deviceVars, pushVars, PullReturns
<1>11. ASSUME NEW w \in Worker, SaveFails(w) PROVE StoreGrows
  BY <1>11 DEF SaveFails, Regular, Fail
<1>12. ASSUME NEW w \in Worker, CursorLost(w) PROVE StoreGrows
  BY <1>12 DEF CursorLost, StoreGrows, pushVars, PullReturns
<1>13. ASSUME NEW w \in Worker, NEW i \in Item, PushUnchanged(w, i) PROVE StoreGrows
  BY <1>13 DEF PushUnchanged, StoreGrows, deviceVars, pullVars
<1>14. ASSUME NEW w \in Worker, NEW i \in Item, PutBlock(w, i) PROVE StoreGrows
  BY <1>14 DEF PutBlock, StoreGrows, pullVars
<1>15. ASSUME NEW w \in Worker, NEW i \in Item, Tombstone(w, i) PROVE StoreGrows
  BY <1>15 DEF Tombstone, StoreGrows, pullVars
<1>16. ASSUME NEW w \in Worker, NEW i \in Item, ListSkips(w, i) PROVE StoreGrows
  BY <1>16 DEF ListSkips, StoreGrows, deviceVars, pullVars
<1>17. ASSUME NEW w \in Worker, NEW i \in Item, PutFails(w, i) PROVE StoreGrows
  BY <1>17 DEF PutFails, StoreGrows, deviceVars, pullVars
<1>18. ASSUME NEW w \in Worker, NEW i \in Item, PutReplyLost(w, i) PROVE StoreGrows
  BY <1>18 DEF PutReplyLost, StoreGrows, deviceVars, pullVars
<1>19. ASSUME NEW w \in Worker, NEW i \in Item, TombstoneFails(w, i) PROVE StoreGrows
  BY <1>19 DEF TombstoneFails, StoreGrows, deviceVars, pullVars
<1>20. ASSUME NEW w \in Worker, NEW i \in Item, TombstoneReplyLost(w, i) PROVE StoreGrows
  BY <1>20 DEF TombstoneReplyLost, StoreGrows, deviceVars, pullVars
<1>21. ASSUME NEW w \in Worker, NEW n \in todo[w], ApplyTombstone(w, n) PROVE StoreGrows
  <2> DEFINE i == log[n].item
  <2>1. store' = SetRow(store, Home[w], i, Absent) /\ Dead(w, i)
    BY <1>21 DEF ApplyTombstone
  <2>2. i \notin Kept
    BY <2>1, KeptNotDead
  <2>4. \A e \in Device, j \in Item : j # i => store'[e][j] = store[e][j]
    BY <2>1 DEF SetRow, TypeOK
  <2> QED
    BY <2>2, <2>4 DEF StoreGrows
<1>22. ASSUME NEW w \in Worker, NEW n \in todo[w], SkipEntry(w, n) PROVE StoreGrows
  BY <1>22 DEF SkipEntry, StoreGrows, deviceVars, pushVars
<1>23. ASSUME NEW w \in Worker, NEW n \in todo[w], BlockKnown(w, n) PROVE StoreGrows
  BY <1>23 DEF BlockKnown, StoreGrows, pushVars
<1>24. ASSUME NEW w \in Worker, NEW n \in todo[w], BlockNew(w, n) PROVE StoreGrows
  BY <1>24 DEF BlockNew, StoreGrows, pushVars, StartMerge
<1>25. ASSUME NEW w \in Worker, NEW n \in todo[w], DeleteFails(w, n) PROVE StoreGrows
  BY <1>25 DEF DeleteFails, StoreGrows, deviceVars, pushVars
<1>26. ASSUME NEW w \in Worker, NEW n \in todo[w], GetFails(w, n) PROVE StoreGrows
  BY <1>26 DEF GetFails, StoreGrows, deviceVars, pushVars
<1>27. ASSUME NEW w \in Worker, NEW n \in todo[w], LoadFails(w, n) PROVE StoreGrows
  BY <1>27 DEF LoadFails, StoreGrows, pushVars, StartMerge
<1>28. ASSUME NEW d \in Device, NEW i \in Item, NEW m \in Message, Say(d, i, m) PROVE StoreGrows
  <2>1. store' = SetRow(store, d, i, Hist(store[d][i]) \cup {m})
    BY <1>28 DEF Say
  <2>2. Hist(store[d][i]) \cup {m} \in History
    BY DEF TypeOK, Hist, Row, History
  <2>3. Hist(store[d][i]) \cup {m} # Absent
    BY <2>2
  <2>4. \A e \in Device, j \in Item :
          store'[e][j] = IF e = d /\ j = i THEN Hist(store[d][i]) \cup {m} ELSE store[e][j]
    BY <2>1 DEF SetRow, TypeOK
  <2> QED
    BY <2>3, <2>4 DEF StoreGrows, Hist
<1>29. ASSUME NEW d \in Device, NEW i \in Item, DeleteSession(d, i) PROVE StoreGrows
  <2>1. store' = SetRow(store, d, i, Absent) /\ i \notin Kept
    BY <1>29 DEF DeleteSession
  <2>2. \A e \in Device, j \in Item : j # i => store'[e][j] = store[e][j]
    BY <2>1 DEF SetRow, TypeOK
  <2> QED
    BY <2>1, <2>2 DEF StoreGrows
<1>30. ASSUME NEW d \in Device, Restart(d) PROVE StoreGrows
  BY <1>30 DEF Restart, StoreGrows
<1>31. CASE UNCHANGED vars
  BY <1>31 DEF vars, StoreGrows
<1> QED
  BY <1>1, <1>2, <1>3, <1>4, <1>5, <1>6, <1>7, <1>8, <1>9, <1>10, <1>11, <1>12, <1>13, <1>14, <1>15, <1>16, <1>17, <1>18, <1>19, <1>20, <1>21, <1>22, <1>23, <1>24, <1>25, <1>26, <1>27, <1>28, <1>29, <1>30, <1>31
     DEF Next, PushStep, PullStep, PushFault, PullFault, UserStep

\* The entry in hand is an entry of the log.
LEMMA EntryInHand ==
  ASSUME TypeOK, InLog, NEW w \in Worker
  PROVE  /\ Home[w] \in Device
         /\ \A n \in todo[w] : log[n] \in Entry /\ log[n].item \in Item
         /\ pc[w] = "save" => log[block[w]] \in Entry /\ log[block[w]].item \in Item
<1>1. \A n \in 1 .. Len(log) : log[n] \in Entry
  BY DEF TypeOK
<1>2. \A e \in Entry : e.item \in Item
  BY DEF Entry
<1> QED
  BY <1>1, <1>2, ConstantsAssumption DEF InLog, TypeOK

\* Every step preserves the reasons why push never tombstones a kept session.
LEMMA TombStep ==
  ASSUME Regular, TypeOK, TypeOK', InLog, TombInv, SnapInv, MergeInv, [Next]_vars
  PROVE  TombInv'
<1>g. StoreGrows /\ LogExtends
  BY StoreGrowsStep, LogExtendsStep DEF TombInv
<1>k. Kept \subseteq Item /\ Home \in [Worker -> Device]
  BY ConstantsAssumption
<1>r. \A v, w \in Worker : Home[v] = Home[w] => v = w
  BY DEF Regular
<1> USE ConstantsAssumption
<1>1. ASSUME NEW w \in Worker, StartSync(w) PROVE TombInv'
  BY <1>1 DEF StartSync, TypeOK, TombInv, KeptNeverTombstoned, PushedInStore, SnapHoldsPushed, GoneNotKept, deviceVars, pullVars
<1>2. ASSUME NEW w \in Worker, StartTombstones(w) PROVE TombInv'
  BY <1>2 DEF StartTombstones, TypeOK, TombInv, KeptNeverTombstoned, PushedInStore, SnapHoldsPushed, GoneNotKept, deviceVars, pullVars
<1>3. ASSUME NEW w \in Worker, StartPull(w) PROVE TombInv'
  BY <1>3 DEF StartPull, TypeOK, TombInv, KeptNeverTombstoned, PushedInStore, SnapHoldsPushed, GoneNotKept, deviceVars, pushVars
<1>4. ASSUME NEW w \in Worker, FetchPage(w) PROVE TombInv'
  BY <1>4 DEF FetchPage, TypeOK, TombInv, KeptNeverTombstoned, PushedInStore, SnapHoldsPushed, GoneNotKept, deviceVars, pushVars
<1>5. ASSUME NEW w \in Worker, PullDone(w) PROVE TombInv'
  BY <1>5 DEF PullDone, TypeOK, TombInv, KeptNeverTombstoned, PushedInStore, SnapHoldsPushed, GoneNotKept, deviceVars, pushVars, PullReturns
<1>6. ASSUME NEW w \in Worker, SaveMerged(w) PROVE TombInv'
  <2> DEFINE i == log[block[w]].item
  <2>a. /\ pc[w] = "save" /\ i \in Item /\ Home[w] \in Device
        /\ merged[w] # Absent
    BY <1>6, EntryInHand DEF SaveMerged, TypeOK
  <2>b. /\ store' = SetRow(store, Home[w], i, merged[w])
        /\ pushed' = SetRow(pushed, Home[w], i, merged[w])
        /\ pc' = [pc EXCEPT ![w] = "page"]
        /\ UNCHANGED <<log, snap, queue>>
    BY <1>6 DEF SaveMerged, pushVars
  <2>c. \A e \in Device, j \in Item :
          /\ store'[e][j] = IF e = Home[w] /\ j = i THEN merged[w] ELSE store[e][j]
          /\ pushed'[e][j] = IF e = Home[w] /\ j = i THEN merged[w] ELSE pushed[e][j]
    BY <2>a, <2>b DEF SetRow, TypeOK
  <2>1. KeptNeverTombstoned'
    BY <2>b DEF TombInv, KeptNeverTombstoned
  <2>2. PushedInStore'
    BY <2>a, <2>c, <1>k DEF TombInv, PushedInStore
  <2>3. SnapHoldsPushed'
    BY <2>a, <2>b, <2>c, <1>k, <1>r DEF TombInv, SnapHoldsPushed, TypeOK
  <2>4. GoneNotKept'
    BY <2>b DEF TombInv, GoneNotKept, TypeOK
  <2> QED
    BY <2>1, <2>2, <2>3, <2>4 DEF TombInv
<1>7. ASSUME NEW w \in Worker, PageDone(w) PROVE TombInv'
  BY <1>7 DEF PageDone, TypeOK, TombInv, KeptNeverTombstoned, PushedInStore, SnapHoldsPushed, GoneNotKept, pushVars
<1>8. ASSUME NEW w \in Worker, PageFailed(w) PROVE TombInv'
  BY <1>8 DEF PageFailed, TypeOK, TombInv, KeptNeverTombstoned, PushedInStore, SnapHoldsPushed, GoneNotKept, deviceVars, pushVars, PullReturns
<1>9. ASSUME NEW w \in Worker, ListFails(w) PROVE TombInv'
  BY <1>9 DEF ListFails, TypeOK, TombInv, KeptNeverTombstoned, PushedInStore, SnapHoldsPushed, GoneNotKept, deviceVars, pushVars
<1>10. ASSUME NEW w \in Worker, ManifestFails(w) PROVE TombInv'
  BY <1>10 DEF ManifestFails, TypeOK, TombInv, KeptNeverTombstoned, PushedInStore, SnapHoldsPushed, GoneNotKept, deviceVars, pushVars, PullReturns
<1>11. ASSUME NEW w \in Worker, SaveFails(w) PROVE TombInv'
  BY <1>11 DEF SaveFails, TypeOK, TombInv, KeptNeverTombstoned, PushedInStore, SnapHoldsPushed, GoneNotKept, deviceVars, pushVars
<1>12. ASSUME NEW w \in Worker, CursorLost(w) PROVE TombInv'
  BY <1>12 DEF CursorLost, TypeOK, TombInv, KeptNeverTombstoned, PushedInStore, SnapHoldsPushed, GoneNotKept, pushVars, PullReturns
<1>13. ASSUME NEW w \in Worker, NEW i \in Item, PushUnchanged(w, i) PROVE TombInv'
  BY <1>13 DEF PushUnchanged, TypeOK, TombInv, KeptNeverTombstoned, PushedInStore, SnapHoldsPushed, GoneNotKept, deviceVars, pullVars
<1>14. ASSUME NEW w \in Worker, NEW i \in Item, PutBlock(w, i) PROVE TombInv'
  <2>a. Block(i, Hist(snap[w][i])) \in Entry
    BY EntryFacts, HistType DEF TypeOK, History
  <2>b. ~Block(i, Hist(snap[w][i])).tomb
    BY <1>14 DEF PutBlock, MustPush, TombInv, GoneNotKept, Block
  <2>c. Append1(Block(i, Hist(snap[w][i]))) /\ UNCHANGED <<store, snap, pc>> /\ queue' = [queue EXCEPT ![w] = @ \ {i}]
    BY <1>14 DEF PutBlock, pullVars
  <2>d. /\ DOMAIN log' = 1 .. (Len(log) + 1)
        /\ \A k \in 1 .. Len(log) : log'[k] = log[k]
        /\ log'[Len(log) + 1] = Block(i, Hist(snap[w][i]))
    BY <2>a, <2>c, <1>g, LogGrows DEF LogExtends
  <2>e. \A e \in Device, j \in Item :
          pushed'[e][j] = IF e = Home[w] /\ j = i THEN snap[w][i] ELSE pushed[e][j]
    BY <1>14, <1>k DEF PutBlock, SetRow, TypeOK
  <2>1. KeptNeverTombstoned'
    BY <2>b, <2>d, <1>g DEF TombInv, KeptNeverTombstoned, LogExtends, Block
  <2>2. PushedInStore'
    BY <2>c, <2>e, <1>k DEF TombInv, PushedInStore, SnapInv
  <2>3. SnapHoldsPushed'
    BY <2>c, <2>e, <1>k, <1>r DEF TombInv, SnapHoldsPushed
  <2>4. GoneNotKept'
    BY <2>c DEF TombInv, GoneNotKept, TypeOK
  <2> QED
    BY <2>1, <2>2, <2>3, <2>4 DEF TombInv
<1>15. ASSUME NEW w \in Worker, NEW i \in Item, Tombstone(w, i) PROVE TombInv'
  <2>a. Tomb(i) \in Entry
    BY EntryFacts, HistType DEF TypeOK, History
  <2>b. i \notin Kept /\ Tomb(i).item = i
    BY <1>15 DEF Tombstone, TombInv, GoneNotKept, Tomb
  <2>c. Append1(Tomb(i)) /\ UNCHANGED <<store, snap, pc>> /\ queue' = [queue EXCEPT ![w] = @ \ {i}]
    BY <1>15 DEF Tombstone, pullVars
  <2>d. /\ DOMAIN log' = 1 .. (Len(log) + 1)
        /\ \A k \in 1 .. Len(log) : log'[k] = log[k]
        /\ log'[Len(log) + 1] = Tomb(i)
    BY <2>a, <2>c, <1>g, LogGrows DEF LogExtends
  <2>e. \A e \in Device, j \in Item :
          pushed'[e][j] = IF e = Home[w] /\ j = i THEN Absent ELSE pushed[e][j]
    BY <1>15, <1>k DEF Tombstone, SetRow, TypeOK
  <2>1. KeptNeverTombstoned'
    BY <2>b, <2>d, <1>g DEF TombInv, KeptNeverTombstoned, LogExtends, Tomb
  <2>2. PushedInStore'
    BY <2>c, <2>e, <1>k DEF TombInv, PushedInStore, SnapInv
  <2>3. SnapHoldsPushed'
    BY <2>c, <2>e, <1>k, <1>r DEF TombInv, SnapHoldsPushed
  <2>4. GoneNotKept'
    BY <2>c DEF TombInv, GoneNotKept, TypeOK
  <2> QED
    BY <2>1, <2>2, <2>3, <2>4 DEF TombInv
<1>16. ASSUME NEW w \in Worker, NEW i \in Item, ListSkips(w, i) PROVE TombInv'
  BY <1>16 DEF ListSkips, Fail, Regular
<1>17. ASSUME NEW w \in Worker, NEW i \in Item, PutFails(w, i) PROVE TombInv'
  BY <1>17 DEF PutFails, TypeOK, TombInv, KeptNeverTombstoned, PushedInStore, SnapHoldsPushed, GoneNotKept, deviceVars, pullVars
<1>18. ASSUME NEW w \in Worker, NEW i \in Item, PutReplyLost(w, i) PROVE TombInv'
  <2>a. Block(i, Hist(snap[w][i])) \in Entry
    BY EntryFacts, HistType DEF TypeOK, History
  <2>b. ~Block(i, Hist(snap[w][i])).tomb
    BY <1>18 DEF PutReplyLost, MustPush, TombInv, GoneNotKept, Block
  <2>c. Append1(Block(i, Hist(snap[w][i]))) /\ UNCHANGED <<store, snap, pc>> /\ queue' = [queue EXCEPT ![w] = @ \ {i}]
    BY <1>18 DEF PutReplyLost, deviceVars, pullVars
  <2>d. /\ DOMAIN log' = 1 .. (Len(log) + 1)
        /\ \A k \in 1 .. Len(log) : log'[k] = log[k]
        /\ log'[Len(log) + 1] = Block(i, Hist(snap[w][i]))
    BY <2>a, <2>c, <1>g, LogGrows DEF LogExtends
  <2>e. UNCHANGED pushed
    BY <1>18 DEF PutReplyLost, deviceVars
  <2>1. KeptNeverTombstoned'
    BY <2>b, <2>d, <1>g DEF TombInv, KeptNeverTombstoned, LogExtends, Block
  <2>2. PushedInStore'
    BY <2>c, <2>e, <1>k DEF TombInv, PushedInStore, SnapInv
  <2>3. SnapHoldsPushed'
    BY <2>c, <2>e, <1>k, <1>r DEF TombInv, SnapHoldsPushed
  <2>4. GoneNotKept'
    BY <2>c DEF TombInv, GoneNotKept, TypeOK
  <2> QED
    BY <2>1, <2>2, <2>3, <2>4 DEF TombInv
<1>19. ASSUME NEW w \in Worker, NEW i \in Item, TombstoneFails(w, i) PROVE TombInv'
  BY <1>19 DEF TombstoneFails, TypeOK, TombInv, KeptNeverTombstoned, PushedInStore, SnapHoldsPushed, GoneNotKept, deviceVars, pullVars
<1>20. ASSUME NEW w \in Worker, NEW i \in Item, TombstoneReplyLost(w, i) PROVE TombInv'
  <2>a. Tomb(i) \in Entry
    BY EntryFacts, HistType DEF TypeOK, History
  <2>b. i \notin Kept /\ Tomb(i).item = i
    BY <1>20 DEF TombstoneReplyLost, TombInv, GoneNotKept, Tomb
  <2>c. Append1(Tomb(i)) /\ UNCHANGED <<store, snap, pc>> /\ queue' = [queue EXCEPT ![w] = @ \ {i}]
    BY <1>20 DEF TombstoneReplyLost, deviceVars, pullVars
  <2>d. /\ DOMAIN log' = 1 .. (Len(log) + 1)
        /\ \A k \in 1 .. Len(log) : log'[k] = log[k]
        /\ log'[Len(log) + 1] = Tomb(i)
    BY <2>a, <2>c, <1>g, LogGrows DEF LogExtends
  <2>e. UNCHANGED pushed
    BY <1>20 DEF TombstoneReplyLost, deviceVars
  <2>1. KeptNeverTombstoned'
    BY <2>b, <2>d, <1>g DEF TombInv, KeptNeverTombstoned, LogExtends, Tomb
  <2>2. PushedInStore'
    BY <2>c, <2>e, <1>k DEF TombInv, PushedInStore, SnapInv
  <2>3. SnapHoldsPushed'
    BY <2>c, <2>e, <1>k, <1>r DEF TombInv, SnapHoldsPushed
  <2>4. GoneNotKept'
    BY <2>c DEF TombInv, GoneNotKept, TypeOK
  <2> QED
    BY <2>1, <2>2, <2>3, <2>4 DEF TombInv
<1>21. ASSUME NEW w \in Worker, NEW n \in todo[w], ApplyTombstone(w, n) PROVE TombInv'
  <2> DEFINE i == log[n].item
  <2>a. /\ pc[w] = "page" /\ i \in Item /\ Home[w] \in Device
        /\ i \notin Kept
    BY <1>21, EntryInHand, KeptNotDead DEF ApplyTombstone, NextEntry, TombInv
  <2>b. /\ store' = SetRow(store, Home[w], i, Absent)
        /\ pushed' = SetRow(pushed, Home[w], i, Absent)
        /\ UNCHANGED <<log, snap, queue, pc>>
    BY <1>21 DEF ApplyTombstone, pushVars
  <2>c. \A e \in Device, j \in Kept :
          /\ store'[e][j] = store[e][j]
          /\ pushed'[e][j] = pushed[e][j]
    BY <2>a, <2>b, <1>k DEF SetRow, TypeOK
  <2>1. KeptNeverTombstoned'
    BY <2>b DEF TombInv, KeptNeverTombstoned
  <2>2. PushedInStore'
    BY <2>c DEF TombInv, PushedInStore
  <2>3. SnapHoldsPushed'
    BY <2>b, <2>c, <1>k DEF TombInv, SnapHoldsPushed
  <2>4. GoneNotKept'
    BY <2>b DEF TombInv, GoneNotKept
  <2> QED
    BY <2>1, <2>2, <2>3, <2>4 DEF TombInv
<1>22. ASSUME NEW w \in Worker, NEW n \in todo[w], SkipEntry(w, n) PROVE TombInv'
  BY <1>22 DEF SkipEntry, TypeOK, TombInv, KeptNeverTombstoned, PushedInStore, SnapHoldsPushed, GoneNotKept, deviceVars, pushVars, NextEntry
<1>23. ASSUME NEW w \in Worker, NEW n \in todo[w], BlockKnown(w, n) PROVE TombInv'
  <2> DEFINE i == log[n].item
  <2>a. /\ pc[w] = "page" /\ i \in Item /\ Home[w] \in Device
        /\ store[Home[w]][i] # Absent
    BY <1>23, EntryInHand DEF BlockKnown, Contains, NextBlock, NextEntry
  <2>b. /\ pushed' = SetRow(pushed, Home[w], i, store[Home[w]][i])
        /\ UNCHANGED <<store, log, snap, queue, pc>>
    BY <1>23 DEF BlockKnown, pushVars
  <2>c. \A e \in Device, j \in Item :
          pushed'[e][j] = IF e = Home[w] /\ j = i THEN store[Home[w]][i] ELSE pushed[e][j]
    BY <2>a, <2>b DEF SetRow, TypeOK
  <2>1. KeptNeverTombstoned'
    BY <2>b DEF TombInv, KeptNeverTombstoned
  <2>2. PushedInStore'
    BY <2>a, <2>b, <2>c, <1>k DEF TombInv, PushedInStore
  <2>3. SnapHoldsPushed'
    BY <2>a, <2>b, <2>c, <1>k, <1>r DEF TombInv, SnapHoldsPushed
  <2>4. GoneNotKept'
    BY <2>b DEF TombInv, GoneNotKept
  <2> QED
    BY <2>1, <2>2, <2>3, <2>4 DEF TombInv
<1>24. ASSUME NEW w \in Worker, NEW n \in todo[w], BlockNew(w, n) PROVE TombInv'
  BY <1>24 DEF BlockNew, TypeOK, TombInv, KeptNeverTombstoned, PushedInStore, SnapHoldsPushed, GoneNotKept, pushVars, StartMerge, NextEntry, NextBlock
<1>25. ASSUME NEW w \in Worker, NEW n \in todo[w], DeleteFails(w, n) PROVE TombInv'
  BY <1>25 DEF DeleteFails, TypeOK, TombInv, KeptNeverTombstoned, PushedInStore, SnapHoldsPushed, GoneNotKept, deviceVars, pushVars, NextEntry
<1>26. ASSUME NEW w \in Worker, NEW n \in todo[w], GetFails(w, n) PROVE TombInv'
  BY <1>26 DEF GetFails, TypeOK, TombInv, KeptNeverTombstoned, PushedInStore, SnapHoldsPushed, GoneNotKept, deviceVars, pushVars, NextEntry, NextBlock
<1>27. ASSUME NEW w \in Worker, NEW n \in todo[w], LoadFails(w, n) PROVE TombInv'
  BY <1>27 DEF LoadFails, TypeOK, TombInv, KeptNeverTombstoned, PushedInStore, SnapHoldsPushed, GoneNotKept, pushVars, StartMerge, NextEntry, NextBlock
<1>28. ASSUME NEW d \in Device, NEW i \in Item, NEW m \in Message, Say(d, i, m) PROVE TombInv'
  <2>b. UNCHANGED <<log, pushed, snap, queue, pc>>
    BY <1>28 DEF Say, pushVars
  <2>1. KeptNeverTombstoned'
    BY <2>b DEF TombInv, KeptNeverTombstoned
  <2>2. PushedInStore'
    BY <2>b, <1>g DEF TombInv, PushedInStore, StoreGrows
  <2>3. SnapHoldsPushed'
    BY <2>b DEF TombInv, SnapHoldsPushed
  <2>4. GoneNotKept'
    BY <2>b DEF TombInv, GoneNotKept
  <2> QED
    BY <2>1, <2>2, <2>3, <2>4 DEF TombInv
<1>29. ASSUME NEW d \in Device, NEW i \in Item, DeleteSession(d, i) PROVE TombInv'
  <2>b. UNCHANGED <<log, pushed, snap, queue, pc>>
    BY <1>29 DEF DeleteSession, pushVars
  <2>1. KeptNeverTombstoned'
    BY <2>b DEF TombInv, KeptNeverTombstoned
  <2>2. PushedInStore'
    BY <2>b, <1>g DEF TombInv, PushedInStore, StoreGrows
  <2>3. SnapHoldsPushed'
    BY <2>b DEF TombInv, SnapHoldsPushed
  <2>4. GoneNotKept'
    BY <2>b DEF TombInv, GoneNotKept
  <2> QED
    BY <2>1, <2>2, <2>3, <2>4 DEF TombInv
<1>30. ASSUME NEW d \in Device, Restart(d) PROVE TombInv'
  <2>b. /\ UNCHANGED <<log, store>>
        /\ \A e \in Device, j \in Item :
             pushed'[e][j] = IF e = d THEN Absent ELSE pushed[e][j]
    BY <1>30 DEF Restart, NoRows, TypeOK
  <2>c. \A w \in Worker : pc'[w] # "idle" =>
          pc'[w] = pc[w] /\ snap'[w] = snap[w] /\ queue'[w] = queue[w]
    BY <1>30, RestartFacts
  <2>1. KeptNeverTombstoned'
    BY <2>b DEF TombInv, KeptNeverTombstoned
  <2>2. PushedInStore'
    BY <2>b, <1>k DEF TombInv, PushedInStore
  <2>3. SnapHoldsPushed'
    BY <2>b, <2>c, <1>k DEF TombInv, SnapHoldsPushed
  <2>4. GoneNotKept'
    BY <2>c DEF TombInv, GoneNotKept
  <2> QED
    BY <2>1, <2>2, <2>3, <2>4 DEF TombInv
<1>31. CASE UNCHANGED vars
  BY <1>31 DEF vars, TypeOK, TombInv, KeptNeverTombstoned, PushedInStore, SnapHoldsPushed, GoneNotKept
<1> QED
  BY <1>1, <1>2, <1>3, <1>4, <1>5, <1>6, <1>7, <1>8, <1>9, <1>10, <1>11, <1>12, <1>13, <1>14, <1>15, <1>16, <1>17, <1>18, <1>19, <1>20, <1>21, <1>22, <1>23, <1>24, <1>25, <1>26, <1>27, <1>28, <1>29, <1>30, <1>31
     DEF Next, PushStep, PullStep, PushFault, PullFault, UserStep

\* What the lemmas below use of a step: stores and log only grow.
LEMMA GrowsStep ==
  ASSUME Regular, TypeOK, TypeOK', SyncInv, [Next]_vars
  PROVE  /\ StoreGrows
         /\ LogExtends
         /\ Kept \subseteq Item
         /\ Home \in [Worker -> Device]
         /\ \A v, w \in Worker : Home[v] = Home[w] => v = w
BY StoreGrowsStep, LogExtendsStep, ConstantsAssumption DEF SyncInv, TombInv, Regular

\* What push took from List stays part of the store until push is over.
LEMMA SnapStep ==
  ASSUME Regular, TypeOK, TypeOK', SyncInv, [Next]_vars
  PROVE  SnapInv'
<1>g. StoreGrows /\ Kept \subseteq Item /\ Home \in [Worker -> Device]
  BY GrowsStep
<1>u. ASSUME UNCHANGED snap PROVE SnapInv'
  BY <1>g, <1>u DEF SyncInv, SnapInv, StoreGrows, Hist
<1>n. \A i \in Item : NoRows[i] = Absent
  BY DEF NoRows
<1>1. ASSUME NEW w \in Worker, StartSync(w) PROVE SnapInv'
  BY <1>1, <1>g DEF StartSync, SnapInv, SyncInv, StoreGrows, Hist, TypeOK, deviceVars
<1>2. ASSUME NEW w \in Worker, StartTombstones(w) PROVE SnapInv'
  BY <1>2, <1>g, <1>n, <1>u DEF StartTombstones, SnapInv, SyncInv, TypeOK, deviceVars
<1>3. ASSUME NEW w \in Worker, StartPull(w) PROVE SnapInv'
  BY <1>3, <1>u DEF StartPull, deviceVars, pushVars
<1>4. ASSUME NEW w \in Worker, FetchPage(w) PROVE SnapInv'
  BY <1>4, <1>u DEF FetchPage, deviceVars, pushVars
<1>5. ASSUME NEW w \in Worker, PullDone(w) PROVE SnapInv'
  BY <1>5, <1>u DEF PullDone, deviceVars, pushVars, PullReturns
<1>6. ASSUME NEW w \in Worker, SaveMerged(w) PROVE SnapInv'
  BY <1>6, <1>u DEF SaveMerged, pushVars
<1>7. ASSUME NEW w \in Worker, PageDone(w) PROVE SnapInv'
  BY <1>7, <1>u DEF PageDone, pushVars
<1>8. ASSUME NEW w \in Worker, PageFailed(w) PROVE SnapInv'
  BY <1>8, <1>u DEF PageFailed, deviceVars, pushVars, PullReturns
<1>9. ASSUME NEW w \in Worker, ListFails(w) PROVE SnapInv'
  BY <1>9, <1>u DEF ListFails, deviceVars, pushVars
<1>10. ASSUME NEW w \in Worker, ManifestFails(w) PROVE SnapInv'
  BY <1>10, <1>u DEF ManifestFails, deviceVars, pushVars, PullReturns
<1>11. ASSUME NEW w \in Worker, SaveFails(w) PROVE SnapInv'
  BY <1>11, <1>u DEF SaveFails, deviceVars, pushVars
<1>12. ASSUME NEW w \in Worker, CursorLost(w) PROVE SnapInv'
  BY <1>12, <1>u DEF CursorLost, pushVars, PullReturns
<1>13. ASSUME NEW w \in Worker, NEW i \in Item, PushUnchanged(w, i) PROVE SnapInv'
  BY <1>13, <1>u DEF PushUnchanged, deviceVars, pullVars
<1>14. ASSUME NEW w \in Worker, NEW i \in Item, PutBlock(w, i) PROVE SnapInv'
  BY <1>14, <1>u DEF PutBlock, pullVars
<1>15. ASSUME NEW w \in Worker, NEW i \in Item, Tombstone(w, i) PROVE SnapInv'
  BY <1>15, <1>u DEF Tombstone, pullVars
<1>16. ASSUME NEW w \in Worker, NEW i \in Item, ListSkips(w, i) PROVE SnapInv'
  BY <1>16 DEF ListSkips, Fail, Regular
<1>17. ASSUME NEW w \in Worker, NEW i \in Item, PutFails(w, i) PROVE SnapInv'
  BY <1>17, <1>u DEF PutFails, deviceVars, pullVars
<1>18. ASSUME NEW w \in Worker, NEW i \in Item, PutReplyLost(w, i) PROVE SnapInv'
  BY <1>18, <1>u DEF PutReplyLost, deviceVars, pullVars
<1>19. ASSUME NEW w \in Worker, NEW i \in Item, TombstoneFails(w, i) PROVE SnapInv'
  BY <1>19, <1>u DEF TombstoneFails, deviceVars, pullVars
<1>20. ASSUME NEW w \in Worker, NEW i \in Item, TombstoneReplyLost(w, i) PROVE SnapInv'
  BY <1>20, <1>u DEF TombstoneReplyLost, deviceVars, pullVars
<1>21. ASSUME NEW w \in Worker, NEW n \in todo[w], ApplyTombstone(w, n) PROVE SnapInv'
  BY <1>21, <1>u DEF ApplyTombstone, pushVars
<1>22. ASSUME NEW w \in Worker, NEW n \in todo[w], SkipEntry(w, n) PROVE SnapInv'
  BY <1>22, <1>u DEF SkipEntry, deviceVars, pushVars
<1>23. ASSUME NEW w \in Worker, NEW n \in todo[w], BlockKnown(w, n) PROVE SnapInv'
  BY <1>23, <1>u DEF BlockKnown, pushVars
<1>24. ASSUME NEW w \in Worker, NEW n \in todo[w], BlockNew(w, n) PROVE SnapInv'
  BY <1>24, <1>u DEF BlockNew, pushVars, StartMerge
<1>25. ASSUME NEW w \in Worker, NEW n \in todo[w], DeleteFails(w, n) PROVE SnapInv'
  BY <1>25, <1>u DEF DeleteFails, deviceVars, pushVars
<1>26. ASSUME NEW w \in Worker, NEW n \in todo[w], GetFails(w, n) PROVE SnapInv'
  BY <1>26, <1>u DEF GetFails, deviceVars, pushVars
<1>27. ASSUME NEW w \in Worker, NEW n \in todo[w], LoadFails(w, n) PROVE SnapInv'
  BY <1>27, <1>u DEF LoadFails, pushVars, StartMerge
<1>28. ASSUME NEW d \in Device, NEW i \in Item, NEW m \in Message, Say(d, i, m) PROVE SnapInv'
  BY <1>28, <1>u DEF Say, pushVars, pullVars
<1>29. ASSUME NEW d \in Device, NEW i \in Item, DeleteSession(d, i) PROVE SnapInv'
  BY <1>29, <1>u DEF DeleteSession, pushVars, pullVars
<1>30. ASSUME NEW d \in Device, Restart(d) PROVE SnapInv'
  <2>1. \A w \in Worker, i \in Item :
          snap'[w][i] # Absent => snap'[w] = snap[w]
    BY <1>30, <1>n, RestartFacts
  <2>2. UNCHANGED store
    BY <1>30 DEF Restart
  <2> QED
    BY <2>1, <2>2, <1>g DEF SnapInv, SyncInv
<1>31. CASE UNCHANGED vars
  BY <1>31, <1>u DEF vars
<1> QED
  BY <1>1, <1>2, <1>3, <1>4, <1>5, <1>6, <1>7, <1>8, <1>9, <1>10, <1>11, <1>12, <1>13, <1>14, <1>15, <1>16, <1>17, <1>18, <1>19, <1>20, <1>21, <1>22, <1>23, <1>24, <1>25, <1>26, <1>27, <1>28, <1>29, <1>30, <1>31
     DEF Next, PushStep, PullStep, PushFault, PullFault, UserStep

\* Between the Load and the Save of a merge nothing changes the local session.
LEMMA MergeStep ==
  ASSUME Regular, TypeOK, TypeOK', SyncInv, [Next]_vars
  PROVE  MergeInv'
<1>g. /\ LogExtends /\ Kept \subseteq Item /\ Home \in [Worker -> Device]
      /\ \A v, w \in Worker : Home[v] = Home[w] => v = w
  BY GrowsStep
<1>i. TypeOK /\ InLog /\ MergeInv
  BY DEF SyncInv
\* Nothing changes for the workers that go on saving.
<1>u. ASSUME \A v \in Worker : pc'[v] = "save" =>
               /\ pc[v] = "save" /\ block'[v] = block[v] /\ merged'[v] = merged[v]
               /\ \A j \in Kept : store'[Home[v]][j] = store[Home[v]][j]
      PROVE  MergeInv'
  BY <1>g, <1>i, <1>u DEF InLog, MergeInv, LogExtends
<1>1. ASSUME NEW w \in Worker, StartSync(w) PROVE MergeInv'
  BY <1>1, <1>u, <1>i DEF StartSync, deviceVars, pullVars, TypeOK
<1>2. ASSUME NEW w \in Worker, StartTombstones(w) PROVE MergeInv'
  BY <1>2, <1>u, <1>i DEF StartTombstones, deviceVars, pullVars, TypeOK
<1>3. ASSUME NEW w \in Worker, StartPull(w) PROVE MergeInv'
  BY <1>3, <1>u, <1>i DEF StartPull, deviceVars, pushVars, TypeOK
<1>4. ASSUME NEW w \in Worker, FetchPage(w) PROVE MergeInv'
  BY <1>4, <1>u, <1>i DEF FetchPage, deviceVars, pushVars, TypeOK
<1>5. ASSUME NEW w \in Worker, PullDone(w) PROVE MergeInv'
  BY <1>5, <1>u, <1>i DEF PullDone, deviceVars, pushVars, PullReturns, TypeOK
<1>6. ASSUME NEW w \in Worker, SaveMerged(w) PROVE MergeInv'
  <2>1. /\ store' = SetRow(store, Home[w], log[block[w]].item, merged[w])
        /\ pc' = [pc EXCEPT ![w] = "page"]
        /\ block' = [block EXCEPT ![w] = 0]
        /\ merged' = [merged EXCEPT ![w] = {}]
    BY <1>6 DEF SaveMerged
  <2>2. \A v \in Worker : pc'[v] = "save" =>
          pc[v] = "save" /\ v # w /\ block'[v] = block[v] /\ merged'[v] = merged[v]
    BY <2>1, <1>i DEF TypeOK
  <2>3. \A v \in Worker, j \in Item : v # w => store'[Home[v]][j] = store[Home[v]][j]
    BY <2>1, <1>g, <1>i DEF SetRow, TypeOK
  <2> QED
    BY <2>2, <2>3, <1>u, <1>g
<1>7. ASSUME NEW w \in Worker, PageDone(w) PROVE MergeInv'
  BY <1>7, <1>u, <1>i DEF PageDone, pushVars, TypeOK
<1>8. ASSUME NEW w \in Worker, PageFailed(w) PROVE MergeInv'
  BY <1>8, <1>u, <1>i DEF PageFailed, deviceVars, pushVars, PullReturns, TypeOK
<1>9. ASSUME NEW w \in Worker, ListFails(w) PROVE MergeInv'
  BY <1>9, <1>u, <1>i DEF ListFails, deviceVars, pushVars, TypeOK
<1>10. ASSUME NEW w \in Worker, ManifestFails(w) PROVE MergeInv'
  BY <1>10, <1>u, <1>i DEF ManifestFails, deviceVars, pushVars, PullReturns, TypeOK
<1>11. ASSUME NEW w \in Worker, SaveFails(w) PROVE MergeInv'
  BY <1>11 DEF SaveFails, Fail, Regular
<1>12. ASSUME NEW w \in Worker, CursorLost(w) PROVE MergeInv'
  BY <1>12, <1>u, <1>i DEF CursorLost, pushVars, PullReturns, TypeOK
<1>13. ASSUME NEW w \in Worker, NEW i \in Item, PushUnchanged(w, i) PROVE MergeInv'
  BY <1>13, <1>u, <1>i DEF PushUnchanged, deviceVars, pullVars, TypeOK
<1>14. ASSUME NEW w \in Worker, NEW i \in Item, PutBlock(w, i) PROVE MergeInv'
  BY <1>14, <1>u, <1>i DEF PutBlock, pullVars, TypeOK
<1>15. ASSUME NEW w \in Worker, NEW i \in Item, Tombstone(w, i) PROVE MergeInv'
  BY <1>15, <1>u, <1>i DEF Tombstone, pullVars, TypeOK
<1>16. ASSUME NEW w \in Worker, NEW i \in Item, ListSkips(w, i) PROVE MergeInv'
  BY <1>16, <1>u, <1>i DEF ListSkips, deviceVars, pullVars, TypeOK
<1>17. ASSUME NEW w \in Worker, NEW i \in Item, PutFails(w, i) PROVE MergeInv'
  BY <1>17, <1>u, <1>i DEF PutFails, deviceVars, pullVars, TypeOK
<1>18. ASSUME NEW w \in Worker, NEW i \in Item, PutReplyLost(w, i) PROVE MergeInv'
  BY <1>18, <1>u, <1>i DEF PutReplyLost, deviceVars, pullVars, TypeOK
<1>19. ASSUME NEW w \in Worker, NEW i \in Item, TombstoneFails(w, i) PROVE MergeInv'
  BY <1>19, <1>u, <1>i DEF TombstoneFails, deviceVars, pullVars, TypeOK
<1>20. ASSUME NEW w \in Worker, NEW i \in Item, TombstoneReplyLost(w, i) PROVE MergeInv'
  BY <1>20, <1>u, <1>i DEF TombstoneReplyLost, deviceVars, pullVars, TypeOK
<1>21. ASSUME NEW w \in Worker, NEW n \in todo[w], ApplyTombstone(w, n) PROVE MergeInv'
  <2>1. /\ store' = SetRow(store, Home[w], log[n].item, Absent)
        /\ UNCHANGED <<pc, block, merged>>
    BY <1>21 DEF ApplyTombstone
  <2>2. log[n].item \notin Kept
    BY <1>21, <1>i, KeptNotDead, EntryInHand DEF ApplyTombstone, SyncInv, TombInv
  <2>3. \A v \in Worker, j \in Kept : store'[Home[v]][j] = store[Home[v]][j]
    BY <2>1, <2>2, <1>g, <1>i DEF SetRow, TypeOK
  <2> QED
    BY <2>1, <2>3, <1>u
<1>22. ASSUME NEW w \in Worker, NEW n \in todo[w], SkipEntry(w, n) PROVE MergeInv'
  BY <1>22, <1>u, <1>i DEF SkipEntry, deviceVars, pushVars, TypeOK
<1>23. ASSUME NEW w \in Worker, NEW n \in todo[w], BlockKnown(w, n) PROVE MergeInv'
  BY <1>23, <1>u, <1>i DEF BlockKnown, pushVars, TypeOK
<1>24. ASSUME NEW w \in Worker, NEW n \in todo[w], BlockNew(w, n) PROVE MergeInv'
  <2>1. /\ log[n] \in Entry /\ log[n].item \in Item /\ n \in 1 .. Len(log)
        /\ Home[w] \in Device /\ pc[w] = "page"
    BY <1>24, EntryInHand, <1>i DEF BlockNew, NextBlock, NextEntry, InLog
  <2>2. /\ UNCHANGED <<log, store>>
        /\ pc' = [pc EXCEPT ![w] = "save"]
        /\ block' = [block EXCEPT ![w] = n]
        /\ merged' = [merged EXCEPT ![w] = Hist(store[Home[w]][log[n].item]) \cup log[n].msgs]
    BY <1>24 DEF BlockNew, StartMerge, MergeMessages
  <2> QED
    BY <2>1, <2>2, <1>i DEF MergeInv, TypeOK
<1>25. ASSUME NEW w \in Worker, NEW n \in todo[w], DeleteFails(w, n) PROVE MergeInv'
  BY <1>25, <1>u, <1>i DEF DeleteFails, deviceVars, pushVars, TypeOK
<1>26. ASSUME NEW w \in Worker, NEW n \in todo[w], GetFails(w, n) PROVE MergeInv'
  BY <1>26, <1>u, <1>i DEF GetFails, deviceVars, pushVars, TypeOK
<1>27. ASSUME NEW w \in Worker, NEW n \in todo[w], LoadFails(w, n) PROVE MergeInv'
  BY <1>27 DEF LoadFails, Fail, Regular
<1>28. ASSUME NEW d \in Device, NEW i \in Item, NEW m \in Message, Say(d, i, m) PROVE MergeInv'
  <2>1. /\ \A v \in Worker : pc[v] = "save" => Home[v] # d
        /\ store' = SetRow(store, d, i, Hist(store[d][i]) \cup {m})
        /\ UNCHANGED <<pc, block, merged>>
    BY <1>28 DEF Say, UserMayWrite, Workers, Regular, pullVars
  <2>2. \A v \in Worker, j \in Item :
          Home[v] # d => store'[Home[v]][j] = store[Home[v]][j]
    BY <2>1, <1>g, <1>i DEF SetRow, TypeOK
  <2> QED
    BY <2>1, <2>2, <1>u, <1>g
<1>29. ASSUME NEW d \in Device, NEW i \in Item, DeleteSession(d, i) PROVE MergeInv'
  <2>1. /\ \A v \in Worker : pc[v] = "save" => Home[v] # d
        /\ store' = SetRow(store, d, i, Absent)
        /\ UNCHANGED <<pc, block, merged>>
    BY <1>29 DEF DeleteSession, UserMayWrite, Workers, Regular, pullVars
  <2>2. \A v \in Worker, j \in Item :
          Home[v] # d => store'[Home[v]][j] = store[Home[v]][j]
    BY <2>1, <1>g, <1>i DEF SetRow, TypeOK
  <2> QED
    BY <2>1, <2>2, <1>u, <1>g
<1>30. ASSUME NEW d \in Device, Restart(d) PROVE MergeInv'
  <2>1. \A v \in Worker : pc'[v] = "save" =>
          pc[v] = "save" /\ block'[v] = block[v] /\ merged'[v] = merged[v]
    BY <1>30, RestartFacts
  <2>2. UNCHANGED store
    BY <1>30 DEF Restart
  <2> QED
    BY <2>1, <2>2, <1>u
<1>31. CASE UNCHANGED vars
  BY <1>31, <1>u DEF vars
<1> QED
  BY <1>1, <1>2, <1>3, <1>4, <1>5, <1>6, <1>7, <1>8, <1>9, <1>10, <1>11, <1>12, <1>13, <1>14, <1>15, <1>16, <1>17, <1>18, <1>19, <1>20, <1>21, <1>22, <1>23, <1>24, <1>25, <1>26, <1>27, <1>28, <1>29, <1>30, <1>31
     DEF Next, PushStep, PullStep, PushFault, PullFault, UserStep

\* What is covered stays covered: the store grows and old entries do not change.
LEMMA CoveredStays ==
  ASSUME StoreGrows, LogExtends, NEW d \in Device, NEW n \in 1 .. Len(log), Covered(d, n)
  PROVE  Covered(d, n)'
BY DEF StoreGrows, LogExtends, Covered

\* Every block in Syncer.have is in the store or about to be saved.
LEMMA PossessedStep ==
  ASSUME Regular, TypeOK, TypeOK', SyncInv, [Next]_vars
  PROVE  PossessedCovered'
<1>g. /\ StoreGrows /\ LogExtends /\ Kept \subseteq Item /\ Home \in [Worker -> Device]
      /\ \A v, w \in Worker : Home[v] = Home[w] => v = w
  BY GrowsStep
<1>i. TypeOK /\ InLog /\ PossessedCovered /\ MergeInv
  BY DEF SyncInv, PullInv
<1>c. \A d \in Device : \A n \in have[d] : Covered(d, n) => Covered(d, n)'
  BY <1>g, <1>i, CoveredStays DEF InLog
\* Nobody stops saving, and nothing new is possessed but what is covered.
<1>u. ASSUME \A v \in Worker, n \in Nat : Saving(v, n) => Saving(v, n)',
             \A d \in Device : \A n \in have'[d] :
               n \in have[d] \/ Covered(d, n)' \/ \E w \in Workers(d) : Saving(w, n)'
      PROVE  PossessedCovered'
  <2> SUFFICES ASSUME NEW d \in Device, NEW n \in have'[d]
               PROVE  Covered(d, n)' \/ \E w \in Workers(d) : Saving(w, n)'
    BY DEF PossessedCovered, Workers
  <2>1. CASE n \in have[d]
    <3>1. Covered(d, n) \/ \E w \in Workers(d) : Saving(w, n)
      BY <2>1, <1>i DEF PossessedCovered
    <3>2. n \in Nat
      BY <2>1, <1>i DEF TypeOK
    <3> QED
      BY <3>1, <3>2, <2>1, <1>u, <1>c DEF Workers
  <2> QED
    BY <2>1, <1>u
<1>1. ASSUME NEW w \in Worker, StartSync(w) PROVE PossessedCovered'
  BY <1>1, <1>u, <1>i DEF StartSync, Saving, deviceVars, pullVars, TypeOK
<1>2. ASSUME NEW w \in Worker, StartTombstones(w) PROVE PossessedCovered'
  BY <1>2, <1>u, <1>i DEF StartTombstones, Saving, deviceVars, pullVars, TypeOK
<1>3. ASSUME NEW w \in Worker, StartPull(w) PROVE PossessedCovered'
  BY <1>3, <1>u, <1>i DEF StartPull, Saving, deviceVars, pushVars, TypeOK
<1>4. ASSUME NEW w \in Worker, FetchPage(w) PROVE PossessedCovered'
  BY <1>4, <1>u, <1>i DEF FetchPage, Saving, deviceVars, pushVars, TypeOK
<1>5. ASSUME NEW w \in Worker, PullDone(w) PROVE PossessedCovered'
  BY <1>5, <1>u, <1>i DEF PullDone, Saving, deviceVars, pushVars, PullReturns, TypeOK
<1>6. ASSUME NEW w \in Worker, SaveMerged(w) PROVE PossessedCovered'
  <2>0. PICK b \in Nat : b = block[w]
    BY <1>i DEF TypeOK
  <2>1. /\ pc[w] = "save" /\ b \in 1 .. Len(log) /\ Home[w] \in Device
        /\ log[b].item \in Item
    BY <1>6, <2>0, EntryInHand, <1>i DEF SaveMerged, InLog
  <2>2. /\ store' = SetRow(store, Home[w], log[b].item, merged[w])
        /\ pc' = [pc EXCEPT ![w] = "page"]
        /\ block' = [block EXCEPT ![w] = 0]
        /\ UNCHANGED <<log, have>>
    BY <1>6, <2>0 DEF SaveMerged
  <2>3. merged[w] # Absent /\ store'[Home[w]][log[b].item] = merged[w]
    BY <2>1, <2>2, <1>i, ConstantsAssumption DEF SetRow, TypeOK
  <2>4. Covered(Home[w], b)'
    BY <2>0, <2>1, <2>2, <2>3, <1>i DEF Covered, MergeInv, Hist
  <2>5. \A v \in Worker, n \in Nat : Saving(v, n) => Saving(v, n)' \/ (v = w /\ n = b)
    BY <2>0, <2>2, <1>i DEF Saving, TypeOK
  <2> SUFFICES ASSUME NEW d \in Device, NEW n \in have[d]
               PROVE  Covered(d, n)' \/ \E v \in Workers(d) : Saving(v, n)'
    BY <2>2 DEF PossessedCovered, Workers
  <2>6. CASE Covered(d, n)
    BY <2>6, <1>c
  <2>7. CASE \E v \in Workers(d) : Saving(v, n)
    BY <2>4, <2>5, <2>7, <1>i DEF Workers, TypeOK
  <2> QED
    BY <2>6, <2>7, <1>i DEF PossessedCovered
<1>7. ASSUME NEW w \in Worker, PageDone(w) PROVE PossessedCovered'
  BY <1>7, <1>u, <1>i DEF PageDone, Saving, pushVars, TypeOK
<1>8. ASSUME NEW w \in Worker, PageFailed(w) PROVE PossessedCovered'
  BY <1>8, <1>u, <1>i DEF PageFailed, Saving, deviceVars, pushVars, PullReturns, TypeOK
<1>9. ASSUME NEW w \in Worker, ListFails(w) PROVE PossessedCovered'
  BY <1>9, <1>u, <1>i DEF ListFails, Saving, deviceVars, pushVars, TypeOK
<1>10. ASSUME NEW w \in Worker, ManifestFails(w) PROVE PossessedCovered'
  BY <1>10, <1>u, <1>i DEF ManifestFails, Saving, deviceVars, pushVars, PullReturns, TypeOK
<1>11. ASSUME NEW w \in Worker, SaveFails(w) PROVE PossessedCovered'
  BY <1>11 DEF SaveFails, Fail, Regular
<1>12. ASSUME NEW w \in Worker, CursorLost(w) PROVE PossessedCovered'
  BY <1>12, <1>u, <1>i DEF CursorLost, Saving, pushVars, PullReturns, TypeOK
<1>13. ASSUME NEW w \in Worker, NEW i \in Item, PushUnchanged(w, i) PROVE PossessedCovered'
  BY <1>13, <1>u, <1>i DEF PushUnchanged, Saving, deviceVars, pullVars, TypeOK
<1>14. ASSUME NEW w \in Worker, NEW i \in Item, PutBlock(w, i) PROVE PossessedCovered'
  <2>1. /\ Block(i, Hist(snap[w][i])) \in Entry /\ snap[w][i] \in Row
        /\ Home[w] \in Device
    BY EntryFacts, HistType, <1>g, <1>i DEF TypeOK, History
  <2>2. /\ Append1(Block(i, Hist(snap[w][i])))
        /\ have' = [have EXCEPT ![Home[w]] = @ \cup {Len(log) + 1}]
        /\ UNCHANGED <<store, pc, block>>
    BY <1>14 DEF PutBlock, pullVars
  <2>0. PICK k \in Nat : k = Len(log) + 1
    BY <1>g DEF LogExtends
  <2>3. log'[k] = Block(i, Hist(snap[w][i]))
    BY <2>0, <2>1, <2>2, LogGrows, <1>i
  <2>4. Covered(Home[w], k)'
    BY <2>2, <2>3 DEF Covered, Block, SyncInv, SnapInv, Hist
  <2>5. \A d \in Device : \A n \in have'[d] : n \in have[d] \/ Covered(d, n)'
    BY <2>0, <2>1, <2>2, <2>4, <1>i DEF TypeOK
  <2>6. \A v \in Worker, n \in Nat : Saving(v, n) => Saving(v, n)'
    BY <2>2 DEF Saving
  <2> QED
    BY <2>5, <2>6, <1>u
<1>15. ASSUME NEW w \in Worker, NEW i \in Item, Tombstone(w, i) PROVE PossessedCovered'
  BY <1>15, <1>u, <1>i DEF Tombstone, Saving, pullVars, TypeOK
<1>16. ASSUME NEW w \in Worker, NEW i \in Item, ListSkips(w, i) PROVE PossessedCovered'
  BY <1>16, <1>u, <1>i DEF ListSkips, Saving, deviceVars, pullVars, TypeOK
<1>17. ASSUME NEW w \in Worker, NEW i \in Item, PutFails(w, i) PROVE PossessedCovered'
  BY <1>17, <1>u, <1>i DEF PutFails, Saving, deviceVars, pullVars, TypeOK
<1>18. ASSUME NEW w \in Worker, NEW i \in Item, PutReplyLost(w, i) PROVE PossessedCovered'
  BY <1>18, <1>u, <1>i DEF PutReplyLost, Saving, deviceVars, pullVars, TypeOK
<1>19. ASSUME NEW w \in Worker, NEW i \in Item, TombstoneFails(w, i) PROVE PossessedCovered'
  BY <1>19, <1>u, <1>i DEF TombstoneFails, Saving, deviceVars, pullVars, TypeOK
<1>20. ASSUME NEW w \in Worker, NEW i \in Item, TombstoneReplyLost(w, i) PROVE PossessedCovered'
  BY <1>20, <1>u, <1>i DEF TombstoneReplyLost, Saving, deviceVars, pullVars, TypeOK
<1>21. ASSUME NEW w \in Worker, NEW n \in todo[w], ApplyTombstone(w, n) PROVE PossessedCovered'
  BY <1>21, <1>u, <1>i DEF ApplyTombstone, Saving, NextEntry, pushVars, TypeOK
<1>22. ASSUME NEW w \in Worker, NEW n \in todo[w], SkipEntry(w, n) PROVE PossessedCovered'
  BY <1>22, <1>u, <1>i DEF SkipEntry, Saving, NextEntry, deviceVars, pushVars, TypeOK
<1>23. ASSUME NEW w \in Worker, NEW n \in todo[w], BlockKnown(w, n) PROVE PossessedCovered'
  <2>1. /\ log[n] \in Entry /\ log[n].item \in Item /\ n \in 1 .. Len(log)
        /\ Home[w] \in Device
    BY EntryInHand, <1>i DEF InLog
  <2>2. /\ have' = [have EXCEPT ![Home[w]] = @ \cup {n}]
        /\ UNCHANGED <<log, store, pc, block>>
        /\ Contains(Home[w], n)
    BY <1>23 DEF BlockKnown
  <2>3. Covered(Home[w], n)'
    BY <2>2 DEF Covered, Contains, Hist
  <2>4. \A d \in Device : \A k \in have'[d] : k \in have[d] \/ Covered(d, k)'
    BY <2>1, <2>2, <2>3, <1>i DEF TypeOK
  <2>5. \A v \in Worker, k \in Nat : Saving(v, k) => Saving(v, k)'
    BY <2>2 DEF Saving
  <2> QED
    BY <2>4, <2>5, <1>u
<1>24. ASSUME NEW w \in Worker, NEW n \in todo[w], BlockNew(w, n) PROVE PossessedCovered'
  <2>1. n \in 1 .. Len(log) /\ n \in Nat /\ Home[w] \in Device /\ w \in Workers(Home[w])
    BY EntryInHand, <1>i DEF InLog, Workers
  <2>2. /\ have' = [have EXCEPT ![Home[w]] = @ \cup {n}]
        /\ pc' = [pc EXCEPT ![w] = "save"]
        /\ block' = [block EXCEPT ![w] = n]
        /\ pc[w] = "page"
    BY <1>24 DEF BlockNew, StartMerge, NextBlock, NextEntry
  <2>3. Saving(w, n)'
    BY <2>2, <1>i DEF Saving, TypeOK
  <2>4. \A d \in Device : \A k \in have'[d] :
          k \in have[d] \/ \E v \in Workers(d) : Saving(v, k)'
    BY <2>1, <2>2, <2>3, <1>i DEF TypeOK
  <2>5. \A v \in Worker, k \in Nat : Saving(v, k) => Saving(v, k)'
    BY <2>2, <1>i DEF Saving, TypeOK
  <2> QED
    BY <2>4, <2>5, <1>u
<1>25. ASSUME NEW w \in Worker, NEW n \in todo[w], DeleteFails(w, n) PROVE PossessedCovered'
  BY <1>25, <1>u, <1>i DEF DeleteFails, Saving, NextEntry, deviceVars, pushVars, TypeOK
<1>26. ASSUME NEW w \in Worker, NEW n \in todo[w], GetFails(w, n) PROVE PossessedCovered'
  BY <1>26, <1>u, <1>i DEF GetFails, Saving, deviceVars, pushVars, TypeOK
<1>27. ASSUME NEW w \in Worker, NEW n \in todo[w], LoadFails(w, n) PROVE PossessedCovered'
  BY <1>27 DEF LoadFails, Fail, Regular
<1>28. ASSUME NEW d \in Device, NEW i \in Item, NEW m \in Message, Say(d, i, m) PROVE PossessedCovered'
  BY <1>28, <1>u, <1>i DEF Say, Saving, pushVars, pullVars, TypeOK
<1>29. ASSUME NEW d \in Device, NEW i \in Item, DeleteSession(d, i) PROVE PossessedCovered'
  BY <1>29, <1>u, <1>i DEF DeleteSession, Saving, pushVars, pullVars, TypeOK
<1>30. ASSUME NEW d \in Device, Restart(d) PROVE PossessedCovered'
  <2>1. have' = [have EXCEPT ![d] = {}]
    BY <1>30 DEF Restart
  <2>2. \A v \in Worker, n \in Nat : Home[v] # d /\ Saving(v, n) => Saving(v, n)'
    BY <1>30, RestartFacts DEF Saving
  <2> SUFFICES ASSUME NEW e \in Device, NEW n \in have'[e]
               PROVE  Covered(e, n)' \/ \E v \in Workers(e) : Saving(v, n)'
    BY DEF PossessedCovered, Workers
  <2>3. e # d /\ n \in have[e] /\ n \in Nat
    BY <2>1, <1>i DEF TypeOK
  <2>4. Covered(e, n) \/ \E v \in Workers(e) : Saving(v, n)
    BY <2>3, <1>i DEF PossessedCovered
  <2> QED
    BY <2>2, <2>3, <2>4, <1>c DEF Workers
<1>31. CASE UNCHANGED vars
  BY <1>31, <1>u DEF vars, Saving
<1> QED
  BY <1>1, <1>2, <1>3, <1>4, <1>5, <1>6, <1>7, <1>8, <1>9, <1>10, <1>11, <1>12, <1>13, <1>14, <1>15, <1>16, <1>17, <1>18, <1>19, <1>20, <1>21, <1>22, <1>23, <1>24, <1>25, <1>26, <1>27, <1>28, <1>29, <1>30, <1>31
     DEF Next, PushStep, PullStep, PushFault, PullFault, UserStep

\* Everything below pull's local cursor is in the store.
LEMMA PassedStep ==
  ASSUME Regular, TypeOK, TypeOK', SyncInv, [Next]_vars
  PROVE  PassedCovered'
<1>g. StoreGrows /\ LogExtends /\ Home \in [Worker -> Device]
  BY GrowsStep
<1>i. TypeOK /\ InLog /\ PassedCovered /\ PageCovered /\ CursorCovers
  BY DEF SyncInv, PullInv
\* Where a worker stands is covered if it was covered before the step.
<1>c. ASSUME NEW v \in Worker, NEW k \in Nat, k <= Len(log),
             \A n \in DOMAIN log : n <= k => Covered(Home[v], n)
      PROVE  \A n \in DOMAIN log' : n <= k => Covered(Home[v], n)'
  <2> TAKE n \in DOMAIN log'
  <2> HAVE n <= k
  <2>1. n \in 1 .. Len(log) /\ n \in DOMAIN log
    BY <1>g, <1>c DEF LogExtends
  <2> QED
    BY <2>1, <1>c, <1>g, CoveredStays
<1>v. ASSUME NEW v \in Worker, pc[v] \in {"pull", "page", "save"}, at'[v] = at[v]
      PROVE  \A n \in DOMAIN log' : n <= at'[v] => Covered(Home[v], n)'
  BY <1>c, <1>i, <1>v DEF TypeOK, InLog, PassedCovered
<1>u. ASSUME \A v \in Worker : pc'[v] \in {"pull", "page", "save"} =>
               pc[v] \in {"pull", "page", "save"} /\ at'[v] = at[v]
      PROVE  PassedCovered'
  BY <1>u, <1>v DEF PassedCovered
<1>1. ASSUME NEW w \in Worker, StartSync(w) PROVE PassedCovered'
  BY <1>1, <1>u, <1>i DEF StartSync, Regular, deviceVars, pullVars, TypeOK
<1>2. ASSUME NEW w \in Worker, StartTombstones(w) PROVE PassedCovered'
  BY <1>2, <1>u, <1>i DEF StartTombstones, Regular, deviceVars, pullVars, TypeOK
<1>3. ASSUME NEW w \in Worker, StartPull(w) PROVE PassedCovered'
  <2>1. /\ at' = [at EXCEPT ![w] = cursor[Home[w]]]
        /\ pc' = [pc EXCEPT ![w] = "pull"]
    BY <1>3 DEF StartPull
  <2>2. at'[w] = cursor[Home[w]] /\ cursor[Home[w]] \in Nat /\ cursor[Home[w]] <= Len(log)
    BY <2>1, <1>g, <1>i DEF TypeOK, InLog
  <2>3. \A n \in DOMAIN log : n <= cursor[Home[w]] => Covered(Home[w], n)
    BY <1>g, <1>i DEF CursorCovers, Covered
  <2>4. \A n \in DOMAIN log' : n <= at'[w] => Covered(Home[w], n)'
    BY <2>2, <2>3, <1>c
  <2>5. \A v \in Worker : v # w => pc'[v] = pc[v] /\ at'[v] = at[v]
    BY <2>1, <1>i DEF TypeOK
  <2> QED
    BY <2>4, <2>5, <1>v DEF PassedCovered
<1>4. ASSUME NEW w \in Worker, FetchPage(w) PROVE PassedCovered'
  BY <1>4, <1>u, <1>i DEF FetchPage, Regular, deviceVars, pushVars, TypeOK
<1>5. ASSUME NEW w \in Worker, PullDone(w) PROVE PassedCovered'
  BY <1>5, <1>u, <1>i DEF PullDone, Regular, deviceVars, pushVars, PullReturns, TypeOK
<1>6. ASSUME NEW w \in Worker, SaveMerged(w) PROVE PassedCovered'
  BY <1>6, <1>u, <1>i DEF SaveMerged, Regular, pushVars, TypeOK
<1>7. ASSUME NEW w \in Worker, PageDone(w) PROVE PassedCovered'
  <2>1. /\ at' = [at EXCEPT ![w] = hi[w]]
        /\ pc' = [pc EXCEPT ![w] = "pull"]
        /\ pc[w] = "page" /\ ~failed[w] /\ todo[w] = {}
    BY <1>7 DEF PageDone
  <2>2. at'[w] = hi[w] /\ hi[w] \in Nat /\ hi[w] <= Len(log)
    BY <2>1, <1>i DEF TypeOK, InLog
  <2>3. \A n \in DOMAIN log : n <= hi[w] => Covered(Home[w], n)
    BY <2>1, <1>i DEF PageCovered, Saving
  <2>4. \A n \in DOMAIN log' : n <= at'[w] => Covered(Home[w], n)'
    BY <2>2, <2>3, <1>c
  <2>5. \A v \in Worker : v # w => pc'[v] = pc[v] /\ at'[v] = at[v]
    BY <2>1, <1>i DEF TypeOK
  <2> QED
    BY <2>4, <2>5, <1>v DEF PassedCovered
<1>8. ASSUME NEW w \in Worker, PageFailed(w) PROVE PassedCovered'
  BY <1>8, <1>u, <1>i DEF PageFailed, Regular, deviceVars, pushVars, PullReturns, TypeOK
<1>9. ASSUME NEW w \in Worker, ListFails(w) PROVE PassedCovered'
  <2>1. /\ at' = [at EXCEPT ![w] = cursor[Home[w]]]
        /\ pc' = [pc EXCEPT ![w] = "pull"]
    BY <1>9 DEF ListFails
  <2>2. at'[w] = cursor[Home[w]] /\ cursor[Home[w]] \in Nat /\ cursor[Home[w]] <= Len(log)
    BY <2>1, <1>g, <1>i DEF TypeOK, InLog
  <2>3. \A n \in DOMAIN log : n <= cursor[Home[w]] => Covered(Home[w], n)
    BY <1>g, <1>i DEF CursorCovers, Covered
  <2>4. \A n \in DOMAIN log' : n <= at'[w] => Covered(Home[w], n)'
    BY <2>2, <2>3, <1>c
  <2>5. \A v \in Worker : v # w => pc'[v] = pc[v] /\ at'[v] = at[v]
    BY <2>1, <1>i DEF TypeOK
  <2> QED
    BY <2>4, <2>5, <1>v DEF PassedCovered
<1>10. ASSUME NEW w \in Worker, ManifestFails(w) PROVE PassedCovered'
  BY <1>10, <1>u, <1>i DEF ManifestFails, Fail, Regular, deviceVars, pushVars, PullReturns, TypeOK
<1>11. ASSUME NEW w \in Worker, SaveFails(w) PROVE PassedCovered'
  BY <1>11, <1>u, <1>i DEF SaveFails, Fail, Regular, deviceVars, pushVars, TypeOK
<1>12. ASSUME NEW w \in Worker, CursorLost(w) PROVE PassedCovered'
  BY <1>12, <1>u, <1>i DEF CursorLost, Fail, Regular, pushVars, PullReturns, TypeOK
<1>13. ASSUME NEW w \in Worker, NEW i \in Item, PushUnchanged(w, i) PROVE PassedCovered'
  BY <1>13, <1>u, <1>i DEF PushUnchanged, Regular, deviceVars, pullVars, TypeOK
<1>14. ASSUME NEW w \in Worker, NEW i \in Item, PutBlock(w, i) PROVE PassedCovered'
  BY <1>14, <1>u, <1>i DEF PutBlock, Regular, pullVars, TypeOK
<1>15. ASSUME NEW w \in Worker, NEW i \in Item, Tombstone(w, i) PROVE PassedCovered'
  BY <1>15, <1>u, <1>i DEF Tombstone, Regular, pullVars, TypeOK
<1>16. ASSUME NEW w \in Worker, NEW i \in Item, ListSkips(w, i) PROVE PassedCovered'
  BY <1>16, <1>u, <1>i DEF ListSkips, Fail, Regular, deviceVars, pullVars, TypeOK
<1>17. ASSUME NEW w \in Worker, NEW i \in Item, PutFails(w, i) PROVE PassedCovered'
  BY <1>17, <1>u, <1>i DEF PutFails, Fail, Regular, deviceVars, pullVars, TypeOK
<1>18. ASSUME NEW w \in Worker, NEW i \in Item, PutReplyLost(w, i) PROVE PassedCovered'
  BY <1>18, <1>u, <1>i DEF PutReplyLost, Fail, Regular, deviceVars, pullVars, TypeOK
<1>19. ASSUME NEW w \in Worker, NEW i \in Item, TombstoneFails(w, i) PROVE PassedCovered'
  BY <1>19, <1>u, <1>i DEF TombstoneFails, Fail, Regular, deviceVars, pullVars, TypeOK
<1>20. ASSUME NEW w \in Worker, NEW i \in Item, TombstoneReplyLost(w, i) PROVE PassedCovered'
  BY <1>20, <1>u, <1>i DEF TombstoneReplyLost, Fail, Regular, deviceVars, pullVars, TypeOK
<1>21. ASSUME NEW w \in Worker, NEW n \in todo[w], ApplyTombstone(w, n) PROVE PassedCovered'
  BY <1>21, <1>u, <1>i DEF ApplyTombstone, NextEntry, Regular, pushVars, TypeOK
<1>22. ASSUME NEW w \in Worker, NEW n \in todo[w], SkipEntry(w, n) PROVE PassedCovered'
  BY <1>22, <1>u, <1>i DEF SkipEntry, NextEntry, Regular, deviceVars, pushVars, TypeOK
<1>23. ASSUME NEW w \in Worker, NEW n \in todo[w], BlockKnown(w, n) PROVE PassedCovered'
  BY <1>23, <1>u, <1>i DEF BlockKnown, NextBlock, NextEntry, Regular, pushVars, TypeOK
<1>24. ASSUME NEW w \in Worker, NEW n \in todo[w], BlockNew(w, n) PROVE PassedCovered'
  BY <1>24, <1>u, <1>i DEF BlockNew, NextBlock, NextEntry, Regular, pushVars, StartMerge, TypeOK
<1>25. ASSUME NEW w \in Worker, NEW n \in todo[w], DeleteFails(w, n) PROVE PassedCovered'
  BY <1>25, <1>u, <1>i DEF DeleteFails, NextEntry, Fail, Regular, deviceVars, pushVars, TypeOK
<1>26. ASSUME NEW w \in Worker, NEW n \in todo[w], GetFails(w, n) PROVE PassedCovered'
  BY <1>26, <1>u, <1>i DEF GetFails, NextBlock, NextEntry, Fail, Regular, deviceVars, pushVars, TypeOK
<1>27. ASSUME NEW w \in Worker, NEW n \in todo[w], LoadFails(w, n) PROVE PassedCovered'
  BY <1>27, <1>u, <1>i DEF LoadFails, NextBlock, NextEntry, Fail, Regular, pushVars, StartMerge, TypeOK
<1>28. ASSUME NEW d \in Device, NEW i \in Item, NEW m \in Message, Say(d, i, m) PROVE PassedCovered'
  BY <1>28, <1>u, <1>i DEF Say, Regular, pushVars, pullVars, TypeOK
<1>29. ASSUME NEW d \in Device, NEW i \in Item, DeleteSession(d, i) PROVE PassedCovered'
  BY <1>29, <1>u, <1>i DEF DeleteSession, Regular, pushVars, pullVars, TypeOK
<1>30. ASSUME NEW d \in Device, Restart(d) PROVE PassedCovered'
  <2>1. \A v \in Worker : pc'[v] = "idle" \/ (pc'[v] = pc[v] /\ at'[v] = at[v])
    BY <1>30, RestartFacts
  <2> QED
    BY <2>1, <1>u
<1>31. CASE UNCHANGED vars
  BY <1>31, <1>u DEF vars
<1> QED
  BY <1>1, <1>2, <1>3, <1>4, <1>5, <1>6, <1>7, <1>8, <1>9, <1>10, <1>11, <1>12, <1>13, <1>14, <1>15, <1>16, <1>17, <1>18, <1>19, <1>20, <1>21, <1>22, <1>23, <1>24, <1>25, <1>26, <1>27, <1>28, <1>29, <1>30, <1>31
     DEF Next, PushStep, PullStep, PushFault, PullFault, UserStep

\* Of a page in hand without failures, each entry is in the store, about to be
\* saved, or still to be processed.
LEMMA PageStep ==
  ASSUME Regular, TypeOK, TypeOK', SyncInv, [Next]_vars
  PROVE  PageCovered'
<1>g. /\ StoreGrows /\ LogExtends /\ Home \in [Worker -> Device]
      /\ \A v, w \in Worker : Home[v] = Home[w] => v = w
  BY GrowsStep
<1>i. /\ TypeOK /\ InLog /\ PossessedCovered /\ PassedCovered /\ PageCovered
      /\ MergeInv /\ TombInv
  BY DEF SyncInv, PullInv
\* A worker in its page keeps its entries in hand or has covered them.
<1>v. ASSUME NEW v \in Worker,
             pc[v] \in {"page", "save"}, ~failed[v], hi'[v] = hi[v],
             \A n \in 1 .. Len(log) : n \in todo[v] \/ Saving(v, n) =>
               Covered(Home[v], n)' \/ n \in todo'[v] \/ Saving(v, n)'
      PROVE  \A n \in DOMAIN log' : n <= hi'[v] =>
               Covered(Home[v], n)' \/ n \in todo'[v] \/ Saving(v, n)'
  <2> TAKE n \in DOMAIN log'
  <2> HAVE n <= hi'[v]
  <2>1. n \in 1 .. Len(log) /\ n \in DOMAIN log /\ n <= hi[v]
    BY <1>g, <1>i, <1>v DEF LogExtends, InLog, TypeOK
  <2>2. Covered(Home[v], n) \/ n \in todo[v] \/ Saving(v, n)
    BY <2>1, <1>v, <1>i DEF PageCovered
  <2> QED
    BY <2>1, <2>2, <1>v, <1>g, CoveredStays
<1>u. ASSUME \A v \in Worker : pc'[v] \in {"page", "save"} /\ ~failed'[v] =>
               /\ pc[v] \in {"page", "save"} /\ ~failed[v] /\ hi'[v] = hi[v]
               /\ \A n \in 1 .. Len(log) : n \in todo[v] \/ Saving(v, n) =>
                    Covered(Home[v], n)' \/ n \in todo'[v] \/ Saving(v, n)'
      PROVE  PageCovered'
  BY <1>u, <1>v DEF PageCovered
<1>1. ASSUME NEW w \in Worker, StartSync(w) PROVE PageCovered'
  BY <1>1, <1>u, <1>i DEF StartSync, Saving, deviceVars, pullVars, TypeOK
<1>2. ASSUME NEW w \in Worker, StartTombstones(w) PROVE PageCovered'
  BY <1>2, <1>u, <1>i DEF StartTombstones, Saving, deviceVars, pullVars, TypeOK
<1>3. ASSUME NEW w \in Worker, StartPull(w) PROVE PageCovered'
  BY <1>3, <1>u, <1>i DEF StartPull, Saving, deviceVars, pushVars, TypeOK
<1>4. ASSUME NEW w \in Worker, FetchPage(w) PROVE PageCovered'
  <2>1. /\ pc[w] = "pull"
        /\ pc' = [pc EXCEPT ![w] = "page"]
        /\ hi' = [hi EXCEPT ![w] = PageEnd(w)]
        /\ todo' = [todo EXCEPT ![w] = (at[w] + 1) .. PageEnd(w)]
        /\ UNCHANGED <<log, block>>
        /\ UNCHANGED failed \/ failed' = [failed EXCEPT ![w] = FALSE]
    BY <1>4 DEF FetchPage
  <2>2. \A n \in DOMAIN log' : n <= hi'[w] => Covered(Home[w], n)' \/ n \in todo'[w]
    <3> SUFFICES ASSUME NEW n \in DOMAIN log', n <= hi'[w], n \notin todo'[w]
                 PROVE  Covered(Home[w], n)'
      OBVIOUS
    <3>1. n \in 1 .. Len(log) /\ n \in DOMAIN log
      BY <2>1, <1>g DEF LogExtends
    <3>2. n <= PageEnd(w) /\ n \notin (at[w] + 1) .. PageEnd(w) /\ at[w] \in Nat /\ PageEnd(w) \in Nat
      BY <2>1, <1>i, ConstantsAssumption DEF TypeOK, PageEnd
    <3>3. n <= at[w]
      BY <3>1, <3>2
    <3>4. Covered(Home[w], n)
      BY <3>1, <3>3, <2>1, <1>i DEF PassedCovered
    <3> QED
      BY <3>1, <3>4, <1>g, CoveredStays
  <2>3. \A v \in Worker : v # w =>
          /\ pc'[v] = pc[v] /\ hi'[v] = hi[v] /\ todo'[v] = todo[v]
          /\ failed'[v] = failed[v] /\ block'[v] = block[v]
    BY <2>1, <1>i DEF TypeOK
  <2>4. ASSUME NEW v \in Worker, v # w, pc'[v] \in {"page", "save"}, ~failed'[v]
        PROVE  \A n \in DOMAIN log' : n <= hi'[v] =>
                 Covered(Home[v], n)' \/ n \in todo'[v] \/ Saving(v, n)'
    BY <2>3, <2>4, <1>v DEF Saving
  <2> QED
    BY <2>2, <2>4 DEF PageCovered
<1>5. ASSUME NEW w \in Worker, PullDone(w) PROVE PageCovered'
  BY <1>5, <1>u, <1>i DEF PullDone, Saving, deviceVars, pushVars, PullReturns, TypeOK
<1>6. ASSUME NEW w \in Worker, SaveMerged(w) PROVE PageCovered'
  <2>0. PICK b \in Nat : b = block[w]
    BY <1>i DEF TypeOK
  <2>1. /\ pc[w] = "save" /\ b \in 1 .. Len(log) /\ Home[w] \in Device
        /\ log[b].item \in Item
    BY <1>6, <2>0, EntryInHand, <1>i DEF SaveMerged, InLog
  <2>2. /\ store' = SetRow(store, Home[w], log[b].item, merged[w])
        /\ pc' = [pc EXCEPT ![w] = "page"]
        /\ block' = [block EXCEPT ![w] = 0]
        /\ UNCHANGED <<log, todo, hi, failed>>
    BY <1>6, <2>0 DEF SaveMerged
  <2>3. merged[w] # Absent /\ store'[Home[w]][log[b].item] = merged[w]
    BY <2>1, <2>2, <1>i, ConstantsAssumption DEF SetRow, TypeOK
  <2>4. Covered(Home[w], b)'
    BY <2>0, <2>1, <2>2, <2>3, <1>i DEF Covered, MergeInv, Hist
  <2>5. \A v \in Worker, n \in Nat : Saving(v, n) => Saving(v, n)' \/ (v = w /\ n = b)
    BY <2>0, <2>2, <1>i DEF Saving, TypeOK
  <2>6. \A v \in Worker : pc'[v] \in {"page", "save"} => pc[v] \in {"page", "save"}
    BY <2>1, <2>2, <1>i DEF TypeOK
  <2> QED
    BY <2>2, <2>4, <2>5, <2>6, <1>u
<1>7. ASSUME NEW w \in Worker, PageDone(w) PROVE PageCovered'
  BY <1>7, <1>u, <1>i DEF PageDone, Saving, pushVars, TypeOK
<1>8. ASSUME NEW w \in Worker, PageFailed(w) PROVE PageCovered'
  BY <1>8, <1>u, <1>i DEF PageFailed, Saving, deviceVars, pushVars, PullReturns, TypeOK
<1>9. ASSUME NEW w \in Worker, ListFails(w) PROVE PageCovered'
  BY <1>9, <1>u, <1>i DEF ListFails, Saving, deviceVars, pushVars, TypeOK
<1>10. ASSUME NEW w \in Worker, ManifestFails(w) PROVE PageCovered'
  BY <1>10, <1>u, <1>i DEF ManifestFails, Saving, deviceVars, pushVars, PullReturns, TypeOK
<1>11. ASSUME NEW w \in Worker, SaveFails(w) PROVE PageCovered'
  BY <1>11 DEF SaveFails, Fail, Regular
<1>12. ASSUME NEW w \in Worker, CursorLost(w) PROVE PageCovered'
  BY <1>12, <1>u, <1>i DEF CursorLost, Saving, pushVars, PullReturns, TypeOK
<1>13. ASSUME NEW w \in Worker, NEW i \in Item, PushUnchanged(w, i) PROVE PageCovered'
  BY <1>13, <1>u, <1>i DEF PushUnchanged, Saving, deviceVars, pullVars, TypeOK
<1>14. ASSUME NEW w \in Worker, NEW i \in Item, PutBlock(w, i) PROVE PageCovered'
  BY <1>14, <1>u, <1>i DEF PutBlock, Saving, pullVars, TypeOK
<1>15. ASSUME NEW w \in Worker, NEW i \in Item, Tombstone(w, i) PROVE PageCovered'
  BY <1>15, <1>u, <1>i DEF Tombstone, Saving, pullVars, TypeOK
<1>16. ASSUME NEW w \in Worker, NEW i \in Item, ListSkips(w, i) PROVE PageCovered'
  BY <1>16, <1>u, <1>i DEF ListSkips, Saving, deviceVars, pullVars, TypeOK
<1>17. ASSUME NEW w \in Worker, NEW i \in Item, PutFails(w, i) PROVE PageCovered'
  BY <1>17, <1>u, <1>i DEF PutFails, Saving, deviceVars, pullVars, TypeOK
<1>18. ASSUME NEW w \in Worker, NEW i \in Item, PutReplyLost(w, i) PROVE PageCovered'
  BY <1>18, <1>u, <1>i DEF PutReplyLost, Saving, deviceVars, pullVars, TypeOK
<1>19. ASSUME NEW w \in Worker, NEW i \in Item, TombstoneFails(w, i) PROVE PageCovered'
  BY <1>19, <1>u, <1>i DEF TombstoneFails, Saving, deviceVars, pullVars, TypeOK
<1>20. ASSUME NEW w \in Worker, NEW i \in Item, TombstoneReplyLost(w, i) PROVE PageCovered'
  BY <1>20, <1>u, <1>i DEF TombstoneReplyLost, Saving, deviceVars, pullVars, TypeOK
<1>21. ASSUME NEW w \in Worker, NEW n \in todo[w], ApplyTombstone(w, n) PROVE PageCovered'
  <2>1. /\ pc[w] = "page" /\ log[n].item \notin Kept
    BY <1>21, EntryInHand, KeptNotDead, <1>i DEF ApplyTombstone, NextEntry, TombInv
  <2>2. /\ todo' = [todo EXCEPT ![w] = Others(w, log[n].item)]
        /\ UNCHANGED <<log, pc, hi, failed, block>>
    BY <1>21 DEF ApplyTombstone
  <2>3. \A k \in todo[w] : k \in todo'[w] \/ Covered(Home[w], k)'
    BY <2>1, <2>2, <1>i DEF Others, Covered, TypeOK
  <2>4. \A v \in Worker : v # w => todo'[v] = todo[v]
    BY <2>2, <1>i DEF TypeOK
  <2>5. \A v \in Worker, k \in Nat : Saving(v, k) => Saving(v, k)'
    BY <2>2 DEF Saving
  <2> QED
    BY <2>2, <2>3, <2>4, <2>5, <1>u
<1>22. ASSUME NEW w \in Worker, NEW n \in todo[w], SkipEntry(w, n) PROVE PageCovered'
  <2>1. /\ pc[w] = "page" /\ n \in 1 .. Len(log) /\ Home[w] \in Device
        /\ log[n].tomb \/ n \in have[Home[w]]
    BY <1>22, EntryInHand, <1>i DEF SkipEntry, NextEntry, InLog
  <2>2. /\ todo' = [todo EXCEPT ![w] = @ \ {n}]
        /\ UNCHANGED <<log, pc, hi, failed, block, store>>
    BY <1>22 DEF SkipEntry, deviceVars
  <2>3. Covered(Home[w], n)
    <3>1. CASE log[n].tomb
      BY <2>1, <3>1, <1>g, <1>i DEF TombInv, KeptNeverTombstoned, Covered, LogExtends
    <3>2. CASE n \in have[Home[w]]
      <4>1. \A v \in Workers(Home[w]) : ~Saving(v, n)
        BY <2>1, <1>g DEF Workers, Saving
      <4> QED
        BY <2>1, <3>2, <4>1, <1>i DEF PossessedCovered
    <3> QED
      BY <2>1, <3>1, <3>2
  <2>4. Covered(Home[w], n)'
    BY <2>2, <2>3 DEF Covered
  <2>5. \A k \in todo[w] : k \in todo'[w] \/ Covered(Home[w], k)'
    BY <2>2, <2>4, <1>i DEF TypeOK
  <2>6. \A v \in Worker : v # w => todo'[v] = todo[v]
    BY <2>2, <1>i DEF TypeOK
  <2>7. \A v \in Worker, k \in Nat : Saving(v, k) => Saving(v, k)'
    BY <2>2 DEF Saving
  <2> QED
    BY <2>2, <2>5, <2>6, <2>7, <1>u
<1>23. ASSUME NEW w \in Worker, NEW n \in todo[w], BlockKnown(w, n) PROVE PageCovered'
  <2>1. /\ todo' = [todo EXCEPT ![w] = @ \ {n}]
        /\ UNCHANGED <<log, pc, hi, failed, block, store>>
        /\ Contains(Home[w], n)
    BY <1>23 DEF BlockKnown
  <2>2. Covered(Home[w], n)'
    BY <2>1 DEF Covered, Contains, Hist
  <2>3. \A k \in todo[w] : k \in todo'[w] \/ Covered(Home[w], k)'
    BY <2>1, <2>2, <1>i DEF TypeOK
  <2>4. \A v \in Worker : v # w => todo'[v] = todo[v]
    BY <2>1, <1>i DEF TypeOK
  <2>5. \A v \in Worker, k \in Nat : Saving(v, k) => Saving(v, k)'
    BY <2>1 DEF Saving
  <2> QED
    BY <2>1, <2>3, <2>4, <2>5, <1>u
<1>24. ASSUME NEW w \in Worker, NEW n \in todo[w], BlockNew(w, n) PROVE PageCovered'
  <2>1. /\ todo' = [todo EXCEPT ![w] = @ \ {n}]
        /\ pc' = [pc EXCEPT ![w] = "save"]
        /\ block' = [block EXCEPT ![w] = n]
        /\ pc[w] = "page"
        /\ UNCHANGED <<log, hi, failed, store>>
    BY <1>24 DEF BlockNew, StartMerge, NextBlock, NextEntry
  <2>2. Saving(w, n)'
    BY <2>1, <1>i DEF Saving, TypeOK
  <2>3. \A k \in todo[w] : k \in todo'[w] \/ Saving(w, k)'
    BY <2>1, <2>2, <1>i DEF TypeOK
  <2>4. \A v \in Worker : v # w => todo'[v] = todo[v] /\ pc'[v] = pc[v]
    BY <2>1, <1>i DEF TypeOK
  <2>5. \A v \in Worker, k \in Nat : Saving(v, k) => Saving(v, k)'
    BY <2>1, <1>i DEF Saving, TypeOK
  <2> QED
    BY <2>1, <2>3, <2>4, <2>5, <1>u
<1>25. ASSUME NEW w \in Worker, NEW n \in todo[w], DeleteFails(w, n) PROVE PageCovered'
  BY <1>25 DEF DeleteFails, Fail, Regular
<1>26. ASSUME NEW w \in Worker, NEW n \in todo[w], GetFails(w, n) PROVE PageCovered'
  BY <1>26, <1>u, <1>i DEF GetFails, NextBlock, NextEntry, Saving, deviceVars, pushVars, TypeOK
<1>27. ASSUME NEW w \in Worker, NEW n \in todo[w], LoadFails(w, n) PROVE PageCovered'
  BY <1>27 DEF LoadFails, Fail, Regular
<1>28. ASSUME NEW d \in Device, NEW i \in Item, NEW m \in Message, Say(d, i, m) PROVE PageCovered'
  BY <1>28, <1>u, <1>i DEF Say, Saving, pushVars, pullVars, TypeOK
<1>29. ASSUME NEW d \in Device, NEW i \in Item, DeleteSession(d, i) PROVE PageCovered'
  BY <1>29, <1>u, <1>i DEF DeleteSession, Saving, pushVars, pullVars, TypeOK
<1>30. ASSUME NEW d \in Device, Restart(d) PROVE PageCovered'
  <2>1. \A v \in Worker : pc'[v] = "idle" \/
          (/\ pc'[v] = pc[v] /\ hi'[v] = hi[v] /\ todo'[v] = todo[v]
           /\ failed'[v] = failed[v] /\ block'[v] = block[v])
    BY <1>30, RestartFacts
  <2> QED
    BY <2>1, <1>u DEF Saving
<1>31. CASE UNCHANGED vars
  BY <1>31, <1>u DEF vars, Saving
<1> QED
  BY <1>1, <1>2, <1>3, <1>4, <1>5, <1>6, <1>7, <1>8, <1>9, <1>10, <1>11, <1>12, <1>13, <1>14, <1>15, <1>16, <1>17, <1>18, <1>19, <1>20, <1>21, <1>22, <1>23, <1>24, <1>25, <1>26, <1>27, <1>28, <1>29, <1>30, <1>31
     DEF Next, PushStep, PullStep, PushFault, PullFault, UserStep

\* Everything below the persisted cursor is in the store: saveCursor runs only
\* after a page without failures.
LEMMA CursorStep ==
  ASSUME Regular, TypeOK, TypeOK', SyncInv, [Next]_vars
  PROVE  CursorCovers'
<1>g. StoreGrows /\ LogExtends /\ Home \in [Worker -> Device]
  BY GrowsStep
<1>i. TypeOK /\ InLog /\ PageCovered /\ CursorCovers
  BY DEF SyncInv, PullInv
<1>c. ASSUME NEW d \in Device, NEW k \in Nat, k <= Len(log),
             \A n \in DOMAIN log : n <= k => Covered(d, n)
      PROVE  \A n \in DOMAIN log' : n <= k => Covered(d, n)'
  <2> TAKE n \in DOMAIN log'
  <2> HAVE n <= k
  <2>1. n \in 1 .. Len(log) /\ n \in DOMAIN log
    BY <1>g, <1>c DEF LogExtends
  <2> QED
    BY <2>1, <1>c, <1>g, CoveredStays
<1>v. ASSUME NEW d \in Device, cursor'[d] = cursor[d]
      PROVE  \A n \in DOMAIN log' : n <= cursor'[d] => Covered(d, n)'
  <2>1. \A n \in DOMAIN log : n <= cursor[d] => Covered(d, n)
    BY <1>i DEF CursorCovers, Covered
  <2> QED
    BY <2>1, <1>c, <1>i, <1>v DEF TypeOK, InLog
<1>d. ASSUME \A d \in Device : \A n \in DOMAIN log' : n <= cursor'[d] => Covered(d, n)'
      PROVE  CursorCovers'
  BY <1>d DEF CursorCovers, Covered
<1>u. ASSUME UNCHANGED cursor PROVE CursorCovers'
  BY <1>u, <1>v, <1>d
<1>1. ASSUME NEW w \in Worker, StartSync(w) PROVE CursorCovers'
  BY <1>1, <1>u DEF StartSync, deviceVars, pullVars
<1>2. ASSUME NEW w \in Worker, StartTombstones(w) PROVE CursorCovers'
  BY <1>2, <1>u DEF StartTombstones, deviceVars, pullVars
<1>3. ASSUME NEW w \in Worker, StartPull(w) PROVE CursorCovers'
  BY <1>3, <1>u DEF StartPull, deviceVars, pushVars
<1>4. ASSUME NEW w \in Worker, FetchPage(w) PROVE CursorCovers'
  BY <1>4, <1>u DEF FetchPage, deviceVars, pushVars
<1>5. ASSUME NEW w \in Worker, PullDone(w) PROVE CursorCovers'
  BY <1>5, <1>u DEF PullDone, deviceVars, pushVars, PullReturns
<1>6. ASSUME NEW w \in Worker, SaveMerged(w) PROVE CursorCovers'
  BY <1>6, <1>u DEF SaveMerged, pushVars
<1>7. ASSUME NEW w \in Worker, PageDone(w) PROVE CursorCovers'
  <2>1. /\ cursor' = [cursor EXCEPT ![Home[w]] = hi[w]]
        /\ pc[w] = "page" /\ ~failed[w] /\ todo[w] = {}
    BY <1>7 DEF PageDone
  <2>2. hi[w] \in Nat /\ hi[w] <= Len(log) /\ Home[w] \in Device
    BY <1>g, <1>i DEF TypeOK, InLog
  <2>3. \A n \in DOMAIN log : n <= hi[w] => Covered(Home[w], n)
    BY <2>1, <1>i DEF PageCovered, Saving
  <2>4. \A n \in DOMAIN log' : n <= hi[w] => Covered(Home[w], n)'
    BY <2>2, <2>3, <1>c
  <2>5. \A d \in Device : cursor'[d] = IF d = Home[w] THEN hi[w] ELSE cursor[d]
    BY <2>1, <1>i DEF TypeOK
  <2> QED
    BY <2>4, <2>5, <1>v, <1>d
<1>8. ASSUME NEW w \in Worker, PageFailed(w) PROVE CursorCovers'
  BY <1>8, <1>u DEF PageFailed, deviceVars, pushVars, PullReturns
<1>9. ASSUME NEW w \in Worker, ListFails(w) PROVE CursorCovers'
  BY <1>9, <1>u DEF ListFails, deviceVars, pushVars
<1>10. ASSUME NEW w \in Worker, ManifestFails(w) PROVE CursorCovers'
  BY <1>10, <1>u DEF ManifestFails, deviceVars, pushVars, PullReturns
<1>11. ASSUME NEW w \in Worker, SaveFails(w) PROVE CursorCovers'
  BY <1>11, <1>u DEF SaveFails, deviceVars, pushVars
<1>12. ASSUME NEW w \in Worker, CursorLost(w) PROVE CursorCovers'
  <2>1. \A d \in Device : cursor'[d] = IF d = Home[w] THEN 0 ELSE cursor[d]
    BY <1>12, <1>i DEF CursorLost, TypeOK
  <2>2. \A n \in DOMAIN log' : ~(n <= 0)
    BY <1>g DEF LogExtends
  <2> QED
    BY <2>1, <2>2, <1>v, <1>d
<1>13. ASSUME NEW w \in Worker, NEW i \in Item, PushUnchanged(w, i) PROVE CursorCovers'
  BY <1>13, <1>u DEF PushUnchanged, deviceVars, pullVars
<1>14. ASSUME NEW w \in Worker, NEW i \in Item, PutBlock(w, i) PROVE CursorCovers'
  BY <1>14, <1>u DEF PutBlock, pullVars
<1>15. ASSUME NEW w \in Worker, NEW i \in Item, Tombstone(w, i) PROVE CursorCovers'
  BY <1>15, <1>u DEF Tombstone, pullVars
<1>16. ASSUME NEW w \in Worker, NEW i \in Item, ListSkips(w, i) PROVE CursorCovers'
  BY <1>16, <1>u DEF ListSkips, deviceVars, pullVars
<1>17. ASSUME NEW w \in Worker, NEW i \in Item, PutFails(w, i) PROVE CursorCovers'
  BY <1>17, <1>u DEF PutFails, deviceVars, pullVars
<1>18. ASSUME NEW w \in Worker, NEW i \in Item, PutReplyLost(w, i) PROVE CursorCovers'
  BY <1>18, <1>u DEF PutReplyLost, deviceVars, pullVars
<1>19. ASSUME NEW w \in Worker, NEW i \in Item, TombstoneFails(w, i) PROVE CursorCovers'
  BY <1>19, <1>u DEF TombstoneFails, deviceVars, pullVars
<1>20. ASSUME NEW w \in Worker, NEW i \in Item, TombstoneReplyLost(w, i) PROVE CursorCovers'
  BY <1>20, <1>u DEF TombstoneReplyLost, deviceVars, pullVars
<1>21. ASSUME NEW w \in Worker, NEW n \in todo[w], ApplyTombstone(w, n) PROVE CursorCovers'
  BY <1>21, <1>u DEF ApplyTombstone, pushVars
<1>22. ASSUME NEW w \in Worker, NEW n \in todo[w], SkipEntry(w, n) PROVE CursorCovers'
  BY <1>22, <1>u DEF SkipEntry, deviceVars, pushVars
<1>23. ASSUME NEW w \in Worker, NEW n \in todo[w], BlockKnown(w, n) PROVE CursorCovers'
  BY <1>23, <1>u DEF BlockKnown, pushVars
<1>24. ASSUME NEW w \in Worker, NEW n \in todo[w], BlockNew(w, n) PROVE CursorCovers'
  BY <1>24, <1>u DEF BlockNew, pushVars, StartMerge
<1>25. ASSUME NEW w \in Worker, NEW n \in todo[w], DeleteFails(w, n) PROVE CursorCovers'
  BY <1>25, <1>u DEF DeleteFails, deviceVars, pushVars
<1>26. ASSUME NEW w \in Worker, NEW n \in todo[w], GetFails(w, n) PROVE CursorCovers'
  BY <1>26, <1>u DEF GetFails, deviceVars, pushVars
<1>27. ASSUME NEW w \in Worker, NEW n \in todo[w], LoadFails(w, n) PROVE CursorCovers'
  BY <1>27, <1>u DEF LoadFails, pushVars, StartMerge
<1>28. ASSUME NEW d \in Device, NEW i \in Item, NEW m \in Message, Say(d, i, m) PROVE CursorCovers'
  BY <1>28, <1>u DEF Say, pushVars, pullVars
<1>29. ASSUME NEW d \in Device, NEW i \in Item, DeleteSession(d, i) PROVE CursorCovers'
  BY <1>29, <1>u DEF DeleteSession, pushVars, pullVars
<1>30. ASSUME NEW d \in Device, Restart(d) PROVE CursorCovers'
  BY <1>30, <1>u DEF Restart
<1>31. CASE UNCHANGED vars
  BY <1>31, <1>u DEF vars
<1> QED
  BY <1>1, <1>2, <1>3, <1>4, <1>5, <1>6, <1>7, <1>8, <1>9, <1>10, <1>11, <1>12, <1>13, <1>14, <1>15, <1>16, <1>17, <1>18, <1>19, <1>20, <1>21, <1>22, <1>23, <1>24, <1>25, <1>26, <1>27, <1>28, <1>29, <1>30, <1>31
     DEF Next, PushStep, PullStep, PushFault, PullFault, UserStep

\* Everything on the hub about a kept session is held by some device, and all of
\* it was said by a user.
LEMMA KnownStep ==
  ASSUME Regular, TypeOK, TypeOK', SyncInv, [Next]_vars
  PROVE  KnownInv'
<1>g. StoreGrows /\ LogExtends /\ Kept \subseteq Item /\ Home \in [Worker -> Device]
  BY GrowsStep
<1>i. TypeOK /\ InLog /\ KnownInv /\ SnapInv /\ MergeInv
  BY DEF SyncInv
<1> DEFINE Held1(n) == log[n].item \in Kept =>
             \A m \in log[n].msgs : \E d \in Device : m \in Hist(store[d][log[n].item])
\* An old entry stays held.
<1>o. ASSUME NEW n \in 1 .. Len(log) PROVE Held1(n)'
  <2>1. Held1(n)
    BY <1>g DEF KnownInv, SyncInv, LogExtends
  <2> QED
    BY <2>1, <1>g DEF LogExtends, StoreGrows
\* The store holds nothing unsaid when it is unchanged.
<1>s. ASSUME \A d \in Device, i \in Kept : Hist(store'[d][i]) \subseteq Hist(store[d][i]),
             said \subseteq said'
      PROVE  \A d \in Device, i \in Kept : Hist(store'[d][i]) \subseteq said'
  BY <1>s, <1>i DEF KnownInv
<1>l. ASSUME DOMAIN log' = DOMAIN log PROVE \A n \in DOMAIN log' : Held1(n)'
  BY <1>l, <1>o, <1>g DEF LogExtends
<1>a. ASSUME NEW i \in Item, NEW msgs \in History, NEW d \in Device, NEW e \in Entry,
             Append1(e), e.item = i, i \in Kept => e.msgs \subseteq Hist(store[d][i])
      PROVE  \A n \in DOMAIN log' : Held1(n)'
  <2>1. Len(log') = Len(log) + 1 /\ log'[Len(log) + 1] = e
    BY <1>a, <1>i, LogGrows
  <2> SUFFICES ASSUME NEW n \in DOMAIN log', n \notin 1 .. Len(log) PROVE Held1(n)'
    BY <1>o
  <2>2. log'[n] = e
    BY <2>1, <1>g DEF LogExtends
  <2> QED
    BY <2>2, <1>a, <1>g DEF StoreGrows
<1>q. ASSUME \A n \in DOMAIN log' : Held1(n)',
             \A d \in Device, i \in Kept : Hist(store'[d][i]) \subseteq said'
      PROVE  KnownInv'
  BY <1>q DEF KnownInv
<1> HIDE DEF Held1
<1>1. ASSUME NEW w \in Worker, StartSync(w) PROVE KnownInv'
  BY <1>1, <1>l, <1>s, <1>q DEF StartSync, deviceVars, pullVars
<1>2. ASSUME NEW w \in Worker, StartTombstones(w) PROVE KnownInv'
  BY <1>2, <1>l, <1>s, <1>q DEF StartTombstones, deviceVars, pullVars
<1>3. ASSUME NEW w \in Worker, StartPull(w) PROVE KnownInv'
  BY <1>3, <1>l, <1>s, <1>q DEF StartPull, deviceVars, pushVars
<1>4. ASSUME NEW w \in Worker, FetchPage(w) PROVE KnownInv'
  BY <1>4, <1>l, <1>s, <1>q DEF FetchPage, deviceVars, pushVars
<1>5. ASSUME NEW w \in Worker, PullDone(w) PROVE KnownInv'
  BY <1>5, <1>l, <1>s, <1>q DEF PullDone, deviceVars, pushVars, PullReturns
<1>6. ASSUME NEW w \in Worker, SaveMerged(w) PROVE KnownInv'
  <2> DEFINE i == log[block[w]].item
  <2>1. /\ pc[w] = "save" /\ block[w] \in 1 .. Len(log) /\ Home[w] \in Device
        /\ i \in Item
    BY <1>6, EntryInHand, <1>i DEF SaveMerged, InLog
  <2>2. store' = SetRow(store, Home[w], i, merged[w]) /\ UNCHANGED <<log, said>>
    BY <1>6 DEF SaveMerged
  <2>3. i \in Kept => merged[w] \subseteq said
    <3> SUFFICES ASSUME i \in Kept PROVE merged[w] \subseteq said
      OBVIOUS
    <3>1. merged[w] = Hist(store[Home[w]][i]) \cup log[block[w]].msgs
      BY <2>1, <1>i DEF MergeInv
    <3>2. \A m \in log[block[w]].msgs : \E d \in Device : m \in Hist(store[d][i])
      BY <2>1, <1>i, <1>g DEF KnownInv, LogExtends
    <3>3. \A d \in Device : Hist(store[d][i]) \subseteq said
      BY <1>i DEF KnownInv
    <3> QED
      BY <2>1, <3>1, <3>2, <3>3
  <2>4. \A e \in Device, j \in Item :
          store'[e][j] = IF e = Home[w] /\ j = i THEN merged[w] ELSE store[e][j]
    BY <2>1, <2>2, <1>i DEF SetRow, TypeOK
  <2>5. \A e \in Device, j \in Kept : Hist(store'[e][j]) \subseteq said'
    BY <2>2, <2>3, <2>4, <1>g, <1>i DEF KnownInv, Hist
  <2> QED
    BY <2>2, <2>5, <1>l, <1>q
<1>7. ASSUME NEW w \in Worker, PageDone(w) PROVE KnownInv'
  BY <1>7, <1>l, <1>s, <1>q DEF PageDone, pushVars
<1>8. ASSUME NEW w \in Worker, PageFailed(w) PROVE KnownInv'
  BY <1>8, <1>l, <1>s, <1>q DEF PageFailed, deviceVars, pushVars, PullReturns
<1>9. ASSUME NEW w \in Worker, ListFails(w) PROVE KnownInv'
  BY <1>9, <1>l, <1>s, <1>q DEF ListFails, deviceVars, pushVars
<1>10. ASSUME NEW w \in Worker, ManifestFails(w) PROVE KnownInv'
  BY <1>10, <1>l, <1>s, <1>q DEF ManifestFails, deviceVars, pushVars, PullReturns
<1>11. ASSUME NEW w \in Worker, SaveFails(w) PROVE KnownInv'
  BY <1>11, <1>l, <1>s, <1>q DEF SaveFails, deviceVars, pushVars
<1>12. ASSUME NEW w \in Worker, CursorLost(w) PROVE KnownInv'
  BY <1>12, <1>l, <1>s, <1>q DEF CursorLost, pushVars, PullReturns
<1>13. ASSUME NEW w \in Worker, NEW i \in Item, PushUnchanged(w, i) PROVE KnownInv'
  BY <1>13, <1>l, <1>s, <1>q DEF PushUnchanged, deviceVars, pullVars
<1>14. ASSUME NEW w \in Worker, NEW i \in Item, PutBlock(w, i) PROVE KnownInv'
  <2>1. /\ Append1(Block(i, Hist(snap[w][i])))
        /\ UNCHANGED <<store, said>>
    BY <1>14 DEF PutBlock
  <2>2. Hist(snap[w][i]) \in History /\ Block(i, Hist(snap[w][i])) \in Entry
    BY <1>i, HistType, EntryFacts DEF TypeOK
  <2>3. /\ Block(i, Hist(snap[w][i])).item = i
        /\ Block(i, Hist(snap[w][i])).msgs = Hist(snap[w][i])
    BY DEF Block
  <2>4. i \in Kept => Hist(snap[w][i]) \subseteq Hist(store[Home[w]][i])
    BY <1>i DEF SnapInv, Hist
  <2>5. \A n \in DOMAIN log' : Held1(n)'
    BY <2>1, <2>2, <2>3, <2>4, <1>a, <1>g
  <2> QED
    BY <2>1, <2>5, <1>s, <1>q
<1>15. ASSUME NEW w \in Worker, NEW i \in Item, Tombstone(w, i) PROVE KnownInv'
  <2>1. Append1(Tomb(i)) /\ UNCHANGED <<store, said>>
    BY <1>15 DEF Tombstone
  <2>2. {} \in History /\ Tomb(i) \in Entry
    BY EntryFacts DEF History
  <2>3. Tomb(i).item = i /\ Tomb(i).msgs = {}
    BY DEF Tomb
  <2>5. \A n \in DOMAIN log' : Held1(n)'
    BY <2>1, <2>2, <2>3, <1>a, <1>g
  <2> QED
    BY <2>1, <2>5, <1>s, <1>q
<1>16. ASSUME NEW w \in Worker, NEW i \in Item, ListSkips(w, i) PROVE KnownInv'
  BY <1>16, <1>l, <1>s, <1>q DEF ListSkips, deviceVars, pullVars
<1>17. ASSUME NEW w \in Worker, NEW i \in Item, PutFails(w, i) PROVE KnownInv'
  BY <1>17, <1>l, <1>s, <1>q DEF PutFails, deviceVars, pullVars
<1>18. ASSUME NEW w \in Worker, NEW i \in Item, PutReplyLost(w, i) PROVE KnownInv'
  <2>1. /\ Append1(Block(i, Hist(snap[w][i])))
        /\ UNCHANGED <<store, said>>
    BY <1>18 DEF PutReplyLost, deviceVars
  <2>2. Hist(snap[w][i]) \in History /\ Block(i, Hist(snap[w][i])) \in Entry
    BY <1>i, HistType, EntryFacts DEF TypeOK
  <2>3. /\ Block(i, Hist(snap[w][i])).item = i
        /\ Block(i, Hist(snap[w][i])).msgs = Hist(snap[w][i])
    BY DEF Block
  <2>4. i \in Kept => Hist(snap[w][i]) \subseteq Hist(store[Home[w]][i])
    BY <1>i DEF SnapInv, Hist
  <2>5. \A n \in DOMAIN log' : Held1(n)'
    BY <2>1, <2>2, <2>3, <2>4, <1>a, <1>g
  <2> QED
    BY <2>1, <2>5, <1>s, <1>q
<1>19. ASSUME NEW w \in Worker, NEW i \in Item, TombstoneFails(w, i) PROVE KnownInv'
  BY <1>19, <1>l, <1>s, <1>q DEF TombstoneFails, deviceVars, pullVars
<1>20. ASSUME NEW w \in Worker, NEW i \in Item, TombstoneReplyLost(w, i) PROVE KnownInv'
  <2>1. Append1(Tomb(i)) /\ UNCHANGED <<store, said>>
    BY <1>20 DEF TombstoneReplyLost, deviceVars
  <2>2. {} \in History /\ Tomb(i) \in Entry
    BY EntryFacts DEF History
  <2>3. Tomb(i).item = i /\ Tomb(i).msgs = {}
    BY DEF Tomb
  <2>5. \A n \in DOMAIN log' : Held1(n)'
    BY <2>1, <2>2, <2>3, <1>a, <1>g
  <2> QED
    BY <2>1, <2>5, <1>s, <1>q
<1>21. ASSUME NEW w \in Worker, NEW n \in todo[w], ApplyTombstone(w, n) PROVE KnownInv'
  <2>1. /\ store' = SetRow(store, Home[w], log[n].item, Absent)
        /\ UNCHANGED <<log, said>>
    BY <1>21 DEF ApplyTombstone
  <2>2. \A e \in Device, j \in Kept :
          store'[e][j] = store[e][j] \/ store'[e][j] = Absent
    BY <2>1, <1>g, <1>i DEF SetRow, TypeOK
  <2>3. \A e \in Device, j \in Kept : Hist(store'[e][j]) \subseteq Hist(store[e][j])
    BY <2>2 DEF Hist
  <2> QED
    BY <2>1, <2>3, <1>l, <1>s, <1>q
<1>22. ASSUME NEW w \in Worker, NEW n \in todo[w], SkipEntry(w, n) PROVE KnownInv'
  BY <1>22, <1>l, <1>s, <1>q DEF SkipEntry, deviceVars, pushVars
<1>23. ASSUME NEW w \in Worker, NEW n \in todo[w], BlockKnown(w, n) PROVE KnownInv'
  BY <1>23, <1>l, <1>s, <1>q DEF BlockKnown, pushVars
<1>24. ASSUME NEW w \in Worker, NEW n \in todo[w], BlockNew(w, n) PROVE KnownInv'
  BY <1>24, <1>l, <1>s, <1>q DEF BlockNew, pushVars, StartMerge
<1>25. ASSUME NEW w \in Worker, NEW n \in todo[w], DeleteFails(w, n) PROVE KnownInv'
  BY <1>25, <1>l, <1>s, <1>q DEF DeleteFails, deviceVars, pushVars
<1>26. ASSUME NEW w \in Worker, NEW n \in todo[w], GetFails(w, n) PROVE KnownInv'
  BY <1>26, <1>l, <1>s, <1>q DEF GetFails, deviceVars, pushVars
<1>27. ASSUME NEW w \in Worker, NEW n \in todo[w], LoadFails(w, n) PROVE KnownInv'
  BY <1>27, <1>l, <1>s, <1>q DEF LoadFails, pushVars, StartMerge
<1>28. ASSUME NEW d \in Device, NEW i \in Item, NEW m \in Message, Say(d, i, m) PROVE KnownInv'
  <2>1. /\ store' = SetRow(store, d, i, Hist(store[d][i]) \cup {m})
        /\ said' = said \cup {m}
        /\ UNCHANGED log
    BY <1>28 DEF Say
  <2>2. \A e \in Device, j \in Item :
          store'[e][j] = IF e = d /\ j = i THEN Hist(store[d][i]) \cup {m} ELSE store[e][j]
    BY <2>1, <1>i DEF SetRow, TypeOK
  <2>3. \A e \in Device, j \in Kept : Hist(store'[e][j]) \subseteq Hist(store[e][j]) \cup {m}
    BY <2>2, <1>g DEF Hist
  <2>4. \A e \in Device, j \in Kept : Hist(store'[e][j]) \subseteq said'
    BY <2>1, <2>3, <1>i DEF KnownInv
  <2> QED
    BY <2>1, <2>4, <1>l, <1>q
<1>29. ASSUME NEW d \in Device, NEW i \in Item, DeleteSession(d, i) PROVE KnownInv'
  <2>1. /\ store' = SetRow(store, d, i, Absent) /\ i \notin Kept
        /\ UNCHANGED <<log, said>>
    BY <1>29 DEF DeleteSession
  <2>2. \A e \in Device, j \in Kept : store'[e][j] = store[e][j]
    BY <2>1, <1>g, <1>i DEF SetRow, TypeOK
  <2> QED
    BY <2>1, <2>2, <1>l, <1>s, <1>q
<1>30. ASSUME NEW d \in Device, Restart(d) PROVE KnownInv'
  BY <1>30, <1>l, <1>s, <1>q DEF Restart
<1>31. CASE UNCHANGED vars
  BY <1>31, <1>l, <1>s, <1>q DEF vars
<1> QED
  BY <1>1, <1>2, <1>3, <1>4, <1>5, <1>6, <1>7, <1>8, <1>9, <1>10, <1>11, <1>12, <1>13, <1>14, <1>15, <1>16, <1>17, <1>18, <1>19, <1>20, <1>21, <1>22, <1>23, <1>24, <1>25, <1>26, <1>27, <1>28, <1>29, <1>30, <1>31
     DEF Next, PushStep, PullStep, PushFault, PullFault, UserStep

\* The invariant holds of empty stores and an empty hub.
LEMMA SyncInvInit == Init => SyncInv
<1> SUFFICES ASSUME Init PROVE SyncInv
  OBVIOUS
<1>1. /\ Len(log) = 0 /\ DOMAIN log = {}
      /\ \A d \in Device, i \in Item : store[d][i] = Absent /\ pushed[d][i] = Absent
      /\ \A d \in Device : have[d] = {} /\ cursor[d] = 0
      /\ \A w \in Worker :
           /\ pc[w] = "idle" /\ queue[w] = {} /\ at[w] = 0 /\ hi[w] = 0 /\ todo[w] = {}
           /\ \A i \in Item : snap[w][i] = Absent
  BY DEF Init, NoRows
<1>2. InLog
  BY <1>1 DEF InLog
<1>3. TombInv /\ SnapInv /\ MergeInv
  BY <1>1, ConstantsAssumption
     DEF TombInv, KeptNeverTombstoned, PushedInStore, SnapHoldsPushed, GoneNotKept, SnapInv, MergeInv
<1>4. PullInv /\ CursorCovers /\ KnownInv
  BY <1>1, ConstantsAssumption
     DEF PullInv, PossessedCovered, PassedCovered, PageCovered, CursorCovers, KnownInv, Hist
<1> QED
  BY <1>2, <1>3, <1>4 DEF SyncInv

\* Every step of push, pull, the users and the restarts preserves the invariant.
LEMMA SyncInvStep ==
  ASSUME Regular, TypeOK, TypeOK', SyncInv, [Next]_vars
  PROVE  SyncInv'
<1>1. InLog'
  BY InLogStep DEF SyncInv
<1>2. TombInv'
  BY TombStep DEF SyncInv
<1>3. SnapInv' /\ MergeInv'
  BY SnapStep, MergeStep
<1>4. PullInv'
  BY PossessedStep, PassedStep, PageStep DEF PullInv
<1>5. CursorCovers' /\ KnownInv'
  BY CursorStep, KnownStep
<1> QED
  BY <1>1, <1>2, <1>3, <1>4, <1>5 DEF SyncInv

----------------------------------------------------------------------------
(* The theorems *)

\* Every variable keeps its type, whatever fails and however many workers a
\* device runs.
THEOREM TypeCorrect == Spec => []TypeOK
<1>1. TypeOK /\ InLog /\ [Next]_vars => (TypeOK /\ InLog)'
  BY TypeStep, InLogStep
<1> QED
  BY <1>1, TypeInit, PTL DEF Spec

\* The invariant is inductive when a device runs one Sync at a time, its store does
\* not fail and nobody writes between the Load and the Save of a merge.
THEOREM InvariantHolds == ASSUME Regular PROVE Spec => [](TypeOK /\ SyncInv)
<1>1. Init => TypeOK /\ SyncInv
  BY TypeInit, SyncInvInit
<1>2. TypeOK /\ SyncInv /\ [Next]_vars => (TypeOK /\ SyncInv)'
  <2> SUFFICES ASSUME TypeOK, SyncInv, [Next]_vars PROVE (TypeOK /\ SyncInv)'
    OBVIOUS
  <2>1. TypeOK'
    BY TypeStep DEF SyncInv
  <2> QED
    BY <2>1, SyncInvStep
<1> QED
  BY <1>1, <1>2, PTL DEF Spec

\* Under the same conditions pull's persisted cursor never passes a block whose
\* messages are not in the store: nothing that other devices wrote is lost by a
\* restart, a failed page, a lost reply or a lost cursor.
THEOREM CursorTheorem == ASSUME Regular PROVE Spec => []CursorCovers
<1>1. TypeOK /\ SyncInv => CursorCovers
  BY DEF SyncInv
<1> QED
  BY <1>1, InvariantHolds, PTL

\* Under the same conditions push never tombstones a session nobody deleted.
THEOREM TombstoneTheorem == ASSUME Regular PROVE Spec => []KeptNeverTombstoned
<1>1. TypeOK /\ SyncInv => KeptNeverTombstoned
  BY DEF SyncInv, TombInv
<1> QED
  BY <1>1, InvariantHolds, PTL

----------------------------------------------------------------------------
(* SyncHub implements Conversation *)

\* Empty stores are empty conversations.
LEMMA ChatInit == Init => Chat!Init
BY ConstantsAssumption DEF Init, Chat!Init, Held, Hist, NoRows

\* Every step writes a message, learns messages that others hold, or leaves the
\* kept histories alone.
LEMMA ChatStep ==
  ASSUME Regular, TypeOK, TypeOK', SyncInv, [Next]_vars
  PROVE  [Chat!Next]_Held
<1>g. StoreGrows /\ LogExtends /\ Kept \subseteq Item /\ Home \in [Worker -> Device]
  BY GrowsStep
<1>i. TypeOK /\ InLog /\ KnownInv /\ MergeInv
  BY DEF SyncInv
\* A step that leaves the kept histories alone is a stutter.
<1>u. ASSUME \A d \in Device, i \in Kept : Hist(store'[d][i]) = Hist(store[d][i])
      PROVE  [Chat!Next]_Held
  BY <1>u DEF Held
<1>k. \A i \in Kept : Chat!Known(i) = UNION {Hist(store[d][i]) : d \in Device}
  BY DEF Chat!Known, Held
<1>1. ASSUME NEW w \in Worker, StartSync(w) PROVE [Chat!Next]_Held
  BY <1>1, <1>u DEF StartSync, deviceVars, pullVars
<1>2. ASSUME NEW w \in Worker, StartTombstones(w) PROVE [Chat!Next]_Held
  BY <1>2, <1>u DEF StartTombstones, deviceVars, pullVars
<1>3. ASSUME NEW w \in Worker, StartPull(w) PROVE [Chat!Next]_Held
  BY <1>3, <1>u DEF StartPull, deviceVars, pushVars
<1>4. ASSUME NEW w \in Worker, FetchPage(w) PROVE [Chat!Next]_Held
  BY <1>4, <1>u DEF FetchPage, deviceVars, pushVars
<1>5. ASSUME NEW w \in Worker, PullDone(w) PROVE [Chat!Next]_Held
  BY <1>5, <1>u DEF PullDone, deviceVars, pushVars, PullReturns
<1>6. ASSUME NEW w \in Worker, SaveMerged(w) PROVE [Chat!Next]_Held
  <2> DEFINE i == log[block[w]].item
  <2>1. /\ pc[w] = "save" /\ block[w] \in 1 .. Len(log) /\ Home[w] \in Device
        /\ i \in Item
    BY <1>6, EntryInHand, <1>i DEF SaveMerged, InLog
  <2>2. store' = SetRow(store, Home[w], i, merged[w])
    BY <1>6 DEF SaveMerged
  <2>3. merged[w] \in History /\ merged[w] # Absent
    BY <1>i, ConstantsAssumption DEF TypeOK
  <2>4. \A e \in Device, j \in Item :
          store'[e][j] = IF e = Home[w] /\ j = i THEN merged[w] ELSE store[e][j]
    BY <2>1, <2>2, <1>i DEF SetRow, TypeOK
  <2>5. CASE i \in Kept
    <3>1. merged[w] = Hist(store[Home[w]][i]) \cup log[block[w]].msgs
      BY <2>1, <2>5, <1>i DEF MergeInv
    <3>2. \A m \in log[block[w]].msgs : \E d \in Device : m \in Hist(store[d][i])
      BY <2>1, <2>5, <1>i, <1>g DEF KnownInv, LogExtends
    <3>3. merged[w] \subseteq Chat!Known(i)
      BY <2>1, <2>5, <3>1, <3>2, <1>k
    <3>4. Held' = Chat!Gain(Home[w], i, merged[w])
      <4>1. \A e \in Device, j \in Kept :
              Hist(store'[e][j]) =
                IF e = Home[w] /\ j = i THEN Hist(store[e][j]) \cup merged[w]
                ELSE Hist(store[e][j])
        BY <2>3, <2>4, <3>1, <1>g DEF Hist
      <4>2. i \in Kept /\ Home[w] \in Device
        BY <2>1, <2>5
      <4> HIDE DEF i
      <4> QED
        BY <4>1, <4>2 DEF Chat!Gain, Held
    <3> QED
      BY <2>1, <2>3, <2>5, <3>3, <3>4 DEF Chat!Next, Chat!Learn, History
  <2>6. CASE i \notin Kept
    BY <2>4, <2>6, <1>g, <1>u
  <2> QED
    BY <2>5, <2>6
<1>7. ASSUME NEW w \in Worker, PageDone(w) PROVE [Chat!Next]_Held
  BY <1>7, <1>u DEF PageDone, pushVars
<1>8. ASSUME NEW w \in Worker, PageFailed(w) PROVE [Chat!Next]_Held
  BY <1>8, <1>u DEF PageFailed, deviceVars, pushVars, PullReturns
<1>9. ASSUME NEW w \in Worker, ListFails(w) PROVE [Chat!Next]_Held
  BY <1>9, <1>u DEF ListFails, deviceVars, pushVars
<1>10. ASSUME NEW w \in Worker, ManifestFails(w) PROVE [Chat!Next]_Held
  BY <1>10, <1>u DEF ManifestFails, deviceVars, pushVars, PullReturns
<1>11. ASSUME NEW w \in Worker, SaveFails(w) PROVE [Chat!Next]_Held
  BY <1>11, <1>u DEF SaveFails, deviceVars, pushVars
<1>12. ASSUME NEW w \in Worker, CursorLost(w) PROVE [Chat!Next]_Held
  BY <1>12, <1>u DEF CursorLost, pushVars, PullReturns
<1>13. ASSUME NEW w \in Worker, NEW i \in Item, PushUnchanged(w, i) PROVE [Chat!Next]_Held
  BY <1>13, <1>u DEF PushUnchanged, deviceVars, pullVars
<1>14. ASSUME NEW w \in Worker, NEW i \in Item, PutBlock(w, i) PROVE [Chat!Next]_Held
  BY <1>14, <1>u DEF PutBlock, pullVars
<1>15. ASSUME NEW w \in Worker, NEW i \in Item, Tombstone(w, i) PROVE [Chat!Next]_Held
  BY <1>15, <1>u DEF Tombstone, pullVars
<1>16. ASSUME NEW w \in Worker, NEW i \in Item, ListSkips(w, i) PROVE [Chat!Next]_Held
  BY <1>16, <1>u DEF ListSkips, deviceVars, pullVars
<1>17. ASSUME NEW w \in Worker, NEW i \in Item, PutFails(w, i) PROVE [Chat!Next]_Held
  BY <1>17, <1>u DEF PutFails, deviceVars, pullVars
<1>18. ASSUME NEW w \in Worker, NEW i \in Item, PutReplyLost(w, i) PROVE [Chat!Next]_Held
  BY <1>18, <1>u DEF PutReplyLost, deviceVars, pullVars
<1>19. ASSUME NEW w \in Worker, NEW i \in Item, TombstoneFails(w, i) PROVE [Chat!Next]_Held
  BY <1>19, <1>u DEF TombstoneFails, deviceVars, pullVars
<1>20. ASSUME NEW w \in Worker, NEW i \in Item, TombstoneReplyLost(w, i) PROVE [Chat!Next]_Held
  BY <1>20, <1>u DEF TombstoneReplyLost, deviceVars, pullVars
<1>21. ASSUME NEW w \in Worker, NEW n \in todo[w], ApplyTombstone(w, n) PROVE [Chat!Next]_Held
  <2>1. store' = SetRow(store, Home[w], log[n].item, Absent)
    BY <1>21 DEF ApplyTombstone
  <2>2. log[n].item \notin Kept
    BY <1>21, <1>i, KeptNotDead, EntryInHand DEF ApplyTombstone, SyncInv, TombInv
  <2>3. \A e \in Device, j \in Kept : store'[e][j] = store[e][j]
    BY <2>1, <2>2, <1>g, <1>i DEF SetRow, TypeOK
  <2> QED
    BY <2>3, <1>u
<1>22. ASSUME NEW w \in Worker, NEW n \in todo[w], SkipEntry(w, n) PROVE [Chat!Next]_Held
  BY <1>22, <1>u DEF SkipEntry, deviceVars, pushVars
<1>23. ASSUME NEW w \in Worker, NEW n \in todo[w], BlockKnown(w, n) PROVE [Chat!Next]_Held
  BY <1>23, <1>u DEF BlockKnown, pushVars
<1>24. ASSUME NEW w \in Worker, NEW n \in todo[w], BlockNew(w, n) PROVE [Chat!Next]_Held
  BY <1>24, <1>u DEF BlockNew, pushVars, StartMerge
<1>25. ASSUME NEW w \in Worker, NEW n \in todo[w], DeleteFails(w, n) PROVE [Chat!Next]_Held
  BY <1>25, <1>u DEF DeleteFails, deviceVars, pushVars
<1>26. ASSUME NEW w \in Worker, NEW n \in todo[w], GetFails(w, n) PROVE [Chat!Next]_Held
  BY <1>26, <1>u DEF GetFails, deviceVars, pushVars
<1>27. ASSUME NEW w \in Worker, NEW n \in todo[w], LoadFails(w, n) PROVE [Chat!Next]_Held
  BY <1>27, <1>u DEF LoadFails, pushVars, StartMerge
<1>28. ASSUME NEW d \in Device, NEW i \in Item, NEW m \in Message, Say(d, i, m) PROVE [Chat!Next]_Held
  <2>1. /\ store' = SetRow(store, d, i, Hist(store[d][i]) \cup {m})
        /\ m \notin said
    BY <1>28 DEF Say
  <2>2. \A e \in Device, j \in Item :
          store'[e][j] = IF e = d /\ j = i THEN Hist(store[d][i]) \cup {m} ELSE store[e][j]
    BY <2>1, <1>i DEF SetRow, TypeOK
  <2>3. Hist(store[d][i]) \cup {m} # Absent
    <3>1. store[d][i] \in Row
      BY <1>i DEF TypeOK
    <3>2. Hist(store[d][i]) \cup {m} \in History
      BY <3>1, HistType DEF History
    <3> QED
      BY <3>2, ConstantsAssumption
  <2>4. CASE i \in Kept
    <3>1. Held' = Chat!Gain(d, i, {m})
      <4>1. \A e \in Device, j \in Kept :
              Hist(store'[e][j]) =
                IF e = d /\ j = i THEN Hist(store[e][j]) \cup {m} ELSE Hist(store[e][j])
        BY <2>2, <2>3, <1>g DEF Hist
      <4> QED
        BY <4>1, <2>4 DEF Chat!Gain, Held
    <3>2. \A j \in Kept : m \notin Chat!Known(j)
      BY <2>1, <1>k, <1>i DEF KnownInv
    <3> QED
      BY <2>4, <3>1, <3>2 DEF Chat!Next, Chat!Write
  <2>5. CASE i \notin Kept
    BY <2>2, <2>5, <1>g, <1>u
  <2> QED
    BY <2>4, <2>5
<1>29. ASSUME NEW d \in Device, NEW i \in Item, DeleteSession(d, i) PROVE [Chat!Next]_Held
  <2>1. store' = SetRow(store, d, i, Absent) /\ i \notin Kept
    BY <1>29 DEF DeleteSession
  <2>2. \A e \in Device, j \in Kept : store'[e][j] = store[e][j]
    BY <2>1, <1>g, <1>i DEF SetRow, TypeOK
  <2> QED
    BY <2>2, <1>u
<1>30. ASSUME NEW d \in Device, Restart(d) PROVE [Chat!Next]_Held
  BY <1>30, <1>u DEF Restart
<1>31. CASE UNCHANGED vars
  BY <1>31, <1>u DEF vars
<1> QED
  BY <1>1, <1>2, <1>3, <1>4, <1>5, <1>6, <1>7, <1>8, <1>9, <1>10, <1>11, <1>12, <1>13, <1>14, <1>15, <1>16, <1>17, <1>18, <1>19, <1>20, <1>21, <1>22, <1>23, <1>24, <1>25, <1>26, <1>27, <1>28, <1>29, <1>30, <1>31
     DEF Next, PushStep, PullStep, PushFault, PullFault, UserStep

\* Under the same conditions the stores of the devices, restricted to the sessions
\* nobody deletes, behave as replicas of append-only conversations.
THEOREM Refinement == ASSUME Regular PROVE Spec => ChatSpec
<1>1. TypeOK /\ SyncInv /\ (TypeOK /\ SyncInv)' /\ [Next]_vars => [Chat!Next]_Held
  BY ChatStep
<1>2. Spec => [](TypeOK /\ SyncInv)
  BY InvariantHolds
<1> QED
  BY <1>1, <1>2, ChatInit, PTL DEF Spec, ChatSpec, Chat!Spec

----------------------------------------------------------------------------
(* What is recorded as synced is on the hub *)

\* A device runs one Sync at a time, nobody writes while it runs, List returns every
\* session and no upload is refused.  (A reply may be lost: the block is on the hub.)
Quiet ==
  /\ \A v, w \in Worker : Home[v] = Home[w] => v = w
  /\ Faults \cap {"put", "list", "unreadable"} = {}
  /\ SayAt \subseteq {"idle"}

Pulling == {"tomb", "pull", "page", "save"}

\* Nothing that device d says in item i is missing on the hub.
Uploaded(d, i) == Hist(store[d][i]) \subseteq OnHub(i)

\* While push runs the store is what List returned, and what push is done with is on
\* the hub.
PushInv(w) ==
  pc[w] = "push" => \A i \in Item :
    /\ snap[w][i] = store[Home[w]][i]
    /\ i \in queue[w] \/ Uploaded(Home[w], i)

\* After push everything is on the hub, ...
PulledInv(w) == pc[w] \in Pulling => \A i \in Item : Uploaded(Home[w], i)

\* ... and so is what a merge is about to save.
SaveInv(w) ==
  pc[w] = "save" => \A i \in Item : log[block[w]].item = i => merged[w] \subseteq OnHub(i)

WorkerInv(w) == PushInv(w) /\ PulledInv(w) /\ SaveInv(w)

HubInv == SyncedIsOnHub /\ \A w \in Worker : WorkerInv(w)

\* The hub starts empty, and so does every device.
LEMMA HubInit == Init => HubInv
BY ConstantsAssumption
DEF Init, HubInv, WorkerInv, PushInv, PulledInv, SaveInv, SyncedIsOnHub, Hist, NoRows, Pulling

\* The hub forgets nothing.
LEMMA OnHubGrows ==
  ASSUME LogExtends, NEW i
  PROVE  OnHub(i) \subseteq OnHub(i)'
<1> SUFFICES ASSUME NEW m \in OnHub(i)
             PROVE  m \in OnHub(i)'
    OBVIOUS
<1>1. PICK n \in DOMAIN log : log[n].item = i /\ m \in log[n].msgs
  BY DEF OnHub
<1>2. n \in DOMAIN log' /\ log'[n] = log[n]
  BY <1>1 DEF LogExtends
<1> QED BY <1>1, <1>2 DEF OnHub

\* A block on the hub holds messages that are on the hub.
LEMMA BlockOnHub ==
  ASSUME NEW n \in DOMAIN log, NEW i, log[n].item = i
  PROVE  log[n].msgs \subseteq OnHub(i)
BY DEF OnHub

\* A step of worker w changes nothing of other workers and devices.
OthersStay(w) ==
  /\ \A v \in Worker \ {w} :
       /\ pc'[v] = pc[v] /\ snap'[v] = snap[v] /\ queue'[v] = queue[v]
       /\ merged'[v] = merged[v] /\ block'[v] = block[v]
  /\ \A d \in Device \ {Home[w]} : store'[d] = store[d] /\ pushed'[d] = pushed[d]

\* So it is enough to look at worker w and its device.
LEMMA HubFrame ==
  ASSUME Quiet, TypeOK, InLog, HubInv, LogExtends, NEW w \in Worker, OthersStay(w),
         \A i \in Item : Hist(pushed'[Home[w]][i]) \subseteq OnHub(i)', WorkerInv(w)'
  PROVE  HubInv'
<1>1. \A i : OnHub(i) \subseteq OnHub(i)'
  BY OnHubGrows
<1>2. SyncedIsOnHub'
  BY <1>1 DEF HubInv, SyncedIsOnHub, OthersStay
<1>3. ASSUME NEW v \in Worker, v # w
      PROVE  WorkerInv(v)'
  <2>1. Home[v] \in Device \ {Home[w]}
    BY <1>3, ConstantsAssumption DEF Quiet
  <2>2. /\ pc'[v] = pc[v] /\ snap'[v] = snap[v] /\ queue'[v] = queue[v]
        /\ merged'[v] = merged[v] /\ block'[v] = block[v] /\ store'[Home[v]] = store[Home[v]]
    BY <1>3, <2>1 DEF OthersStay
  <2>3. PushInv(v) /\ PulledInv(v) /\ SaveInv(v)
    BY DEF HubInv, WorkerInv
  <2>4. \A i \in Item : Uploaded(Home[v], i) => Uploaded(Home[v], i)'
    BY <1>1, <2>2 DEF Uploaded
  <2>5. PushInv(v)'
    BY <2>2, <2>3, <2>4 DEF PushInv
  <2>6. PulledInv(v)'
    BY <2>2, <2>3, <2>4 DEF PulledInv
  <2>7. SaveInv(v)'
    <3> SUFFICES ASSUME pc'[v] = "save", NEW i \in Item, log'[block'[v]].item = i
                 PROVE  merged'[v] \subseteq OnHub(i)'
        BY DEF SaveInv
    <3>1. log'[block[v]] = log[block[v]]
      BY <2>2 DEF InLog, LogExtends
    <3>2. merged[v] \subseteq OnHub(i)
      BY <2>2, <2>3, <3>1 DEF SaveInv
    <3> QED BY <1>1, <2>2, <3>2
  <2> QED BY <2>5, <2>6, <2>7 DEF WorkerInv
<1> QED BY <1>2, <1>3 DEF HubInv

\* Steps after push that at most forget rows or record what the store says.
LEMMA PullKeeps ==
  ASSUME Quiet, TypeOK, InLog, HubInv, LogExtends, NEW w \in Worker, OthersStay(w),
         pc[w] \in Pulling, pc'[w] \in {"tomb", "pull", "page", "idle"},
         \A i \in Item : store'[Home[w]][i] \in {store[Home[w]][i], Absent},
         \A i \in Item : pushed'[Home[w]][i] \in {pushed[Home[w]][i], store[Home[w]][i], Absent}
  PROVE  HubInv'
<1>1. \A i : OnHub(i) \subseteq OnHub(i)'
  BY OnHubGrows
<1>2. Home[w] \in Device /\ PulledInv(w) /\ Hist(Absent) = {}
  BY ConstantsAssumption DEF HubInv, WorkerInv, Hist
<1>3. \A i \in Item : Hist(store[Home[w]][i]) \subseteq OnHub(i)
  BY <1>2 DEF PulledInv, Uploaded
<1>4. \A i \in Item : Hist(pushed[Home[w]][i]) \subseteq OnHub(i)
  BY <1>2 DEF HubInv, SyncedIsOnHub
<1>5. \A i \in Item : Uploaded(Home[w], i)'
  <2> SUFFICES ASSUME NEW i \in Item
               PROVE  Hist(store'[Home[w]][i]) \subseteq OnHub(i)'
      BY DEF Uploaded
  <2>1. store'[Home[w]][i] = store[Home[w]][i] \/ store'[Home[w]][i] = Absent
    OBVIOUS
  <2> QED BY <1>1, <1>2, <1>3, <2>1
<1>6. \A i \in Item : Hist(pushed'[Home[w]][i]) \subseteq OnHub(i)'
  <2> SUFFICES ASSUME NEW i \in Item
               PROVE  Hist(pushed'[Home[w]][i]) \subseteq OnHub(i)'
      OBVIOUS
  <2>1. \/ pushed'[Home[w]][i] = pushed[Home[w]][i]
        \/ pushed'[Home[w]][i] = store[Home[w]][i]
        \/ pushed'[Home[w]][i] = Absent
    OBVIOUS
  <2> QED BY <1>1, <1>2, <1>3, <1>4, <2>1
<1>7. PulledInv(w)'
  BY <1>5 DEF PulledInv
<1>8. pc'[w] # "push" /\ pc'[w] # "save"
  OBVIOUS
<1>9. WorkerInv(w)'
  BY <1>7, <1>8 DEF WorkerInv, PushInv, SaveInv
<1> QED BY <1>6, <1>9, HubFrame

\* The step of worker w, one action at a time: push.
LEMMA PushKeeps ==
  ASSUME Quiet, TypeOK, TypeOK', InLog, HubInv, LogExtends, NEW w \in Worker,
         \/ StartSync(w) \/ StartTombstones(w)
         \/ \E i \in Item : PushUnchanged(w, i) \/ PutBlock(w, i) \/ PutReplyLost(w, i)
  PROVE  HubInv'
<1> DEFINE d == Home[w]
<1>1. \A i : OnHub(i) \subseteq OnHub(i)'
  BY OnHubGrows
<1>2. d \in Device /\ Hist(Absent) = {} /\ SyncedIsOnHub /\ PushInv(w)
  BY ConstantsAssumption DEF HubInv, WorkerInv, Hist
<1>3. \A i \in Item : Uploaded(d, i) /\ UNCHANGED store => Uploaded(d, i)'
  BY <1>1 DEF Uploaded
<1>4. UNCHANGED pushed => \A i \in Item : Hist(pushed'[d][i]) \subseteq OnHub(i)'
  BY <1>1, <1>2 DEF SyncedIsOnHub
<1>5. CASE StartSync(w)
  <2>1. /\ OthersStay(w) /\ pc'[w] = "push" /\ UNCHANGED <<store, pushed>>
        /\ snap'[w] = store[d] /\ queue'[w] = {i \in Item : store[d][i] # Absent}
    BY <1>5 DEF StartSync, OthersStay, TypeOK, deviceVars, pullVars
  <2>2. \A i \in Item : i \notin queue'[w] => Uploaded(d, i)'
    BY <1>2, <2>1 DEF Uploaded
  <2>3. WorkerInv(w)'
    BY <2>1, <2>2 DEF WorkerInv, PushInv, PulledInv, SaveInv, Pulling
  <2> QED BY <1>4, <2>1, <2>3, HubFrame
<1>6. CASE StartTombstones(w)
  <2>1. /\ OthersStay(w) /\ pc[w] = "push" /\ pc'[w] = "tomb" /\ UNCHANGED <<store, pushed>>
        /\ queue[w] = {}
    BY <1>6 DEF StartTombstones, OthersStay, TypeOK, deviceVars, pullVars
  <2>2. PulledInv(w)'
    BY <1>2, <1>3, <2>1 DEF PushInv, PulledInv
  <2>3. WorkerInv(w)'
    BY <2>1, <2>2 DEF WorkerInv, PushInv, SaveInv
  <2> QED BY <1>4, <2>1, <2>3, HubFrame
<1>7. ASSUME NEW i \in Item, PushUnchanged(w, i) \/ PutBlock(w, i) \/ PutReplyLost(w, i)
      PROVE  HubInv'
  <2>1. /\ OthersStay(w) /\ pc[w] = "push" /\ UNCHANGED <<pc, store, snap>>
        /\ i \in queue[w] /\ queue'[w] = queue[w] \ {i}
        /\ snap[w][i] = store[d][i]
    <3>1. pc[w] = "push" /\ i \in queue[w]
      BY <1>7 DEF PushUnchanged, PutBlock, PutReplyLost, MustPush
    <3>2. /\ UNCHANGED <<pc, store, snap, merged, block>>
          /\ queue' = [queue EXCEPT ![w] = @ \ {i}]
      BY <1>7 DEF PushUnchanged, PutBlock, PutReplyLost, deviceVars, pullVars
    <3>3. \A c \in Device \ {d} : pushed'[c] = pushed[c]
      BY <1>7 DEF PushUnchanged, PutBlock, PutReplyLost, SetRow, TypeOK, deviceVars
    <3>4. OthersStay(w)
      BY <3>2, <3>3 DEF OthersStay, TypeOK
    <3> QED BY <1>2, <3>1, <3>2, <3>4 DEF PushInv, TypeOK
  <2>2. CASE PushUnchanged(w, i)
    <3>1. UNCHANGED pushed /\ pushed[d][i] = store[d][i]
      BY <2>1, <2>2 DEF PushUnchanged, deviceVars
    <3>2. Uploaded(d, i)
      BY <1>2, <3>1 DEF SyncedIsOnHub, Uploaded
    <3>3. PushInv(w)'
      BY <1>2, <1>3, <2>1, <3>2 DEF PushInv
    <3>4. WorkerInv(w)'
      BY <2>1, <3>3 DEF WorkerInv, PulledInv, SaveInv, Pulling
    <3> QED BY <1>4, <2>1, <3>1, <3>4, HubFrame
  <2>3. CASE PutBlock(w, i) \/ PutReplyLost(w, i)
    <3>1. Append1(Block(i, Hist(store[d][i])))
      BY <2>1, <2>3 DEF PutBlock, PutReplyLost
    <3>2. PICK n \in DOMAIN log' : log'[n].item = i /\ log'[n].msgs = Hist(store[d][i])
      <4>1. store[d][i] \in Row
        BY <1>2 DEF TypeOK
      <4>2. Block(i, Hist(store[d][i])) \in Entry
        BY <4>1, EntryFacts, HistType
      <4>3. Len(log) + 1 \in DOMAIN log' /\ log'[Len(log) + 1] = Block(i, Hist(store[d][i]))
        <5>1. /\ Len(log) \in Nat /\ Len(log') = Len(log) + 1
              /\ log'[Len(log) + 1] = Block(i, Hist(store[d][i]))
          BY <3>1, <4>2, LogGrows
        <5>2. DOMAIN log' = 1 .. Len(log')
          BY DEF LogExtends
        <5> QED BY <5>1, <5>2
      <4> QED BY <4>3 DEF Block
    <3>3. Hist(store[d][i]) \subseteq OnHub(i)'
      BY <3>2 DEF OnHub
    <3>4. Uploaded(d, i)'
      BY <2>1, <3>3 DEF Uploaded
    <3>5. PushInv(w)'
      BY <1>2, <1>3, <2>1, <3>4 DEF PushInv
    <3>6. \A j \in Item \ {i} : pushed'[d][j] = pushed[d][j]
      <4>1. CASE PutReplyLost(w, i)
        <5>1. pushed' = pushed
          BY <4>1 DEF PutReplyLost, deviceVars
        <5> QED BY <5>1
      <4>2. CASE PutBlock(w, i)
        <5>1. pushed' = SetRow(pushed, d, i, store[d][i])
          BY <2>1, <4>2 DEF PutBlock
        <5> QED BY <1>2, <5>1 DEF SetRow, TypeOK
      <4> QED BY <2>3, <4>1, <4>2
    <3>7. pushed'[d][i] = pushed[d][i] \/ pushed'[d][i] = store[d][i]
      <4>1. CASE PutReplyLost(w, i)
        <5>1. pushed' = pushed
          BY <4>1 DEF PutReplyLost, deviceVars
        <5> QED BY <5>1
      <4>2. CASE PutBlock(w, i)
        <5>1. pushed' = SetRow(pushed, d, i, store[d][i])
          BY <2>1, <4>2 DEF PutBlock
        <5> QED BY <1>2, <5>1 DEF SetRow, TypeOK
      <4> QED BY <2>3, <4>1, <4>2
    <3>8. \A j \in Item : Hist(pushed'[d][j]) \subseteq OnHub(j)'
      <4> SUFFICES ASSUME NEW j \in Item
                   PROVE  Hist(pushed'[d][j]) \subseteq OnHub(j)'
          OBVIOUS
      <4>1. Hist(pushed[d][j]) \subseteq OnHub(j)'
        BY <1>1, <1>2 DEF SyncedIsOnHub
      <4> QED BY <3>3, <3>6, <3>7, <4>1
    <3>9. WorkerInv(w)'
      BY <2>1, <3>5 DEF WorkerInv, PulledInv, SaveInv, Pulling
    <3> QED BY <2>1, <3>8, <3>9, HubFrame
  <2> QED BY <1>7, <2>2, <2>3
<1> QED BY <1>5, <1>6, <1>7

\* The step of worker w after push: a merge starts or is saved.
LEMMA MergeKeeps ==
  ASSUME Quiet, TypeOK, InLog, HubInv, LogExtends, NEW w \in Worker,
         \/ \E n \in todo[w] : BlockNew(w, n) \/ LoadFails(w, n)
         \/ SaveMerged(w)
  PROVE  HubInv'
<1> DEFINE d == Home[w]
<1>1. \A i : OnHub(i) \subseteq OnHub(i)'
  BY OnHubGrows
<1>2. d \in Device /\ SyncedIsOnHub /\ PulledInv(w) /\ SaveInv(w)
  BY ConstantsAssumption DEF HubInv, WorkerInv
<1>3. ASSUME NEW n \in todo[w], BlockNew(w, n) \/ LoadFails(w, n)
      PROVE  HubInv'
  <2>1. PICK i \in Item : i = log[n].item /\ log[n].msgs \subseteq OnHub(i)
    BY EntryInHand, BlockOnHub DEF InLog, TypeOK
  <2>2. pc[w] = "page" /\ (StartMerge(w, n, Hist(store[d][i])) \/ StartMerge(w, n, {}))
    <3>1. CASE BlockNew(w, n)
      BY <2>1, <3>1 DEF BlockNew, NextBlock, NextEntry
    <3>2. CASE LoadFails(w, n)
      BY <3>2 DEF LoadFails, NextBlock, NextEntry
    <3> QED BY <1>3, <3>1, <3>2
  <2>3. /\ pc[w] = "page" /\ UNCHANGED <<log, store, pushed, snap, queue>>
        /\ pc' = [pc EXCEPT ![w] = "save"] /\ block' = [block EXCEPT ![w] = n]
    BY <2>2 DEF StartMerge, pushVars
  <2>4. PICK local : /\ local = {} \/ local = Hist(store[d][i])
                     /\ merged' = [merged EXCEPT ![w] = local \cup log[n].msgs]
    BY <2>2 DEF StartMerge, MergeMessages
  <2>5. OthersStay(w)
    BY <2>3, <2>4 DEF OthersStay, TypeOK
  <2>6. pc'[w] = "save" /\ block'[w] = n /\ merged'[w] = local \cup log[n].msgs
    BY <2>3, <2>4 DEF TypeOK
  <2>7. \A j \in Item : Uploaded(d, j) /\ Uploaded(d, j)'
    BY <1>1, <1>2, <2>3 DEF PulledInv, Uploaded, Pulling
  <2>8. PulledInv(w)'
    BY <2>7 DEF PulledInv
  <2>9. SaveInv(w)'
    <3>1. merged'[w] \subseteq OnHub(i)'
      BY <1>1, <2>1, <2>4, <2>6, <2>7 DEF Uploaded
    <3>2. log'[block'[w]].item = i
      BY <2>1, <2>3, <2>6
    <3> QED BY <3>1, <3>2 DEF SaveInv
  <2>10. WorkerInv(w)'
    BY <2>6, <2>8, <2>9 DEF WorkerInv, PushInv
  <2>11. \A j \in Item : Hist(pushed'[d][j]) \subseteq OnHub(j)'
    BY <1>1, <1>2, <2>3 DEF SyncedIsOnHub
  <2> QED BY <2>5, <2>10, <2>11, HubFrame
<1>4. CASE SaveMerged(w)
  <2>1. pc[w] = "save"
    BY <1>4 DEF SaveMerged
  <2>2. PICK i \in Item : i = log[block[w]].item
    BY <2>1, EntryInHand
  <2>3. /\ UNCHANGED <<log, snap, queue>> /\ pc' = [pc EXCEPT ![w] = "page"]
        /\ store' = SetRow(store, d, i, merged[w]) /\ pushed' = SetRow(pushed, d, i, merged[w])
        /\ block' = [block EXCEPT ![w] = 0] /\ merged' = [merged EXCEPT ![w] = {}]
    BY <1>4, <2>2 DEF SaveMerged, pushVars
  <2>4. OthersStay(w)
    BY <2>3 DEF OthersStay, SetRow, TypeOK
  <2>5. pc'[w] = "page" /\ merged[w] \in History
    BY <2>3 DEF TypeOK
  <2>6. Hist(merged[w]) = merged[w]
    BY <2>5, ConstantsAssumption DEF Hist
  <2>7. merged[w] \subseteq OnHub(i)
    BY <1>2, <2>1, <2>2 DEF SaveInv
  <2>8. /\ store'[d][i] = merged[w] /\ pushed'[d][i] = merged[w]
        /\ \A j \in Item \ {i} : store'[d][j] = store[d][j] /\ pushed'[d][j] = pushed[d][j]
    BY <1>2, <2>3 DEF SetRow, TypeOK
  <2>9. \A j \in Item : Uploaded(d, j)'
    <3> SUFFICES ASSUME NEW j \in Item
                 PROVE  Hist(store'[d][j]) \subseteq OnHub(j)'
        BY DEF Uploaded
    <3>1. CASE j = i
      BY <1>1, <2>6, <2>7, <2>8, <3>1
    <3>2. CASE j # i
      <4>1. Hist(store[d][j]) \subseteq OnHub(j)
        BY <1>2, <2>1 DEF PulledInv, Uploaded, Pulling
      <4> QED BY <1>1, <2>8, <3>2, <4>1
    <3> QED BY <3>1, <3>2
  <2>10. \A j \in Item : Hist(pushed'[d][j]) \subseteq OnHub(j)'
    <3> SUFFICES ASSUME NEW j \in Item
                 PROVE  Hist(pushed'[d][j]) \subseteq OnHub(j)'
        OBVIOUS
    <3>1. CASE j = i
      BY <1>1, <2>6, <2>7, <2>8, <3>1
    <3>2. CASE j # i
      <4>1. Hist(pushed[d][j]) \subseteq OnHub(j)
        BY <1>2 DEF SyncedIsOnHub
      <4> QED BY <1>1, <2>8, <3>2, <4>1
    <3> QED BY <3>1, <3>2
  <2>11. WorkerInv(w)'
    <3>1. PulledInv(w)'
      BY <2>9 DEF PulledInv
    <3> QED BY <2>5, <3>1 DEF WorkerInv, PushInv, SaveInv
  <2> QED BY <2>4, <2>10, <2>11, HubFrame
<1> QED BY <1>3, <1>4

\* Outside a Sync a device may write, delete or restart.
LEMMA DeviceKeeps ==
  ASSUME Quiet, TypeOK, InLog, HubInv, LogExtends, NEW d \in Device, UserStep(d) \/ Restart(d)
  PROVE  HubInv'
<1>1. \A i : OnHub(i) \subseteq OnHub(i)'
  BY OnHubGrows
<1>2. SyncedIsOnHub /\ \A v \in Worker : Home[v] \in Device /\ WorkerInv(v)
  BY ConstantsAssumption DEF HubInv
<1>3. /\ log' = log
      /\ \A v \in Worker : Home[v] = d => pc'[v] = "idle"
      /\ \A v \in Worker : Home[v] # d =>
           /\ pc'[v] = pc[v] /\ snap'[v] = snap[v] /\ queue'[v] = queue[v]
           /\ merged'[v] = merged[v] /\ block'[v] = block[v]
      /\ \A c \in Device : c # d => store'[c] = store[c] /\ pushed'[c] = pushed[c]
      /\ \A i \in Item : pushed'[d][i] \in {pushed[d][i], Absent}
  <2>1. CASE Restart(d)
    <3>1. /\ UNCHANGED <<log, store>> /\ pushed' = [pushed EXCEPT ![d] = NoRows]
          /\ pc' = OnDevice(d, pc, "idle") /\ snap' = OnDevice(d, snap, NoRows)
          /\ queue' = OnDevice(d, queue, {})
          /\ block' = OnDevice(d, block, 0) /\ merged' = OnDevice(d, merged, {})
      BY <2>1 DEF Restart
    <3>2. \A i \in Item : pushed'[d][i] = Absent
      BY <3>1 DEF TypeOK, NoRows
    <3>3. \A c \in Device : c # d => pushed'[c] = pushed[c]
      BY <3>1 DEF TypeOK
    <3> QED BY <3>1, <3>2, <3>3 DEF OnDevice
  <2>2. ASSUME NEW i \in Item, NEW row, UserMayWrite(d), store' = SetRow(store, d, i, row),
               UNCHANGED <<log, pushed, pc, pushVars, pullVars>>
        PROVE  <1>3!:
    <3>1. \A v \in Worker : Home[v] = d => pc[v] = "idle"
      BY <2>2 DEF UserMayWrite, Workers, Quiet
    <3>2. \A c \in Device : c # d => store'[c] = store[c]
      BY <2>2 DEF SetRow, TypeOK
    <3> QED BY <2>2, <3>1, <3>2 DEF pushVars, pullVars
  <2>3. CASE UserStep(d)
    <3>1. PICK i \in Item : (\E m \in Message : Say(d, i, m)) \/ DeleteSession(d, i)
      BY <2>3 DEF UserStep
    <3>2. /\ UserMayWrite(d) /\ UNCHANGED <<log, pushed, pc, pushVars, pullVars>>
          /\ \E row : store' = SetRow(store, d, i, row)
      BY <3>1 DEF Say, DeleteSession
    <3> QED BY <2>2, <3>2
  <2> QED BY <2>1, <2>3
<1>4. SyncedIsOnHub'
  <2> SUFFICES ASSUME NEW c \in Device, NEW i \in Item
               PROVE  Hist(pushed'[c][i]) \subseteq OnHub(i)'
      BY DEF SyncedIsOnHub
  <2>1. Hist(pushed[c][i]) \subseteq OnHub(i)'
    BY <1>1, <1>2 DEF SyncedIsOnHub
  <2>2. pushed'[c][i] = pushed[c][i] \/ pushed'[c][i] = Absent
    BY <1>3
  <2> QED BY <2>1, <2>2 DEF Hist
<1>5. ASSUME NEW v \in Worker
      PROVE  WorkerInv(v)'
  <2>1. CASE Home[v] = d
    BY <1>3, <2>1 DEF WorkerInv, PushInv, PulledInv, SaveInv, Pulling
  <2>2. CASE Home[v] # d
    <3>1. PushInv(v) /\ PulledInv(v) /\ SaveInv(v)
      BY <1>2 DEF WorkerInv
    <3>2. \A i \in Item : Uploaded(Home[v], i) => Uploaded(Home[v], i)'
      BY <1>1, <1>2, <1>3, <2>2 DEF Uploaded
    <3>3. store'[Home[v]] = store[Home[v]]
      BY <1>2, <1>3, <2>2
    <3>4. PushInv(v)'
      BY <1>3, <2>2, <3>1, <3>2, <3>3 DEF PushInv
    <3>5. PulledInv(v)'
      BY <1>3, <2>2, <3>1, <3>2 DEF PulledInv
    <3>6. SaveInv(v)'
      BY <1>1, <1>3, <2>2, <3>1 DEF SaveInv
    <3> QED BY <3>4, <3>5, <3>6 DEF WorkerInv
  <2> QED BY <2>1, <2>2
<1> QED BY <1>4, <1>5 DEF HubInv

\* The steps after push that leave the rows as they are, forget some or record what
\* the store says.
LEMMA PassiveKeeps ==
  ASSUME Quiet, TypeOK, InLog, HubInv, LogExtends, NEW w \in Worker,
         \/ \E i \in Item :
              Tombstone(w, i) \/ TombstoneReplyLost(w, i) \/ TombstoneFails(w, i)
         \/ StartPull(w) \/ FetchPage(w) \/ PullDone(w) \/ ManifestFails(w)
         \/ \E n \in todo[w] : \/ ApplyTombstone(w, n) \/ SkipEntry(w, n) \/ BlockKnown(w, n)
                               \/ DeleteFails(w, n) \/ GetFails(w, n)
         \/ SaveFails(w) \/ PageDone(w) \/ PageFailed(w) \/ CursorLost(w)
  PROVE  HubInv'
<1> DEFINE d == Home[w]
<1>1. d \in Device
  BY EntryInHand
<1>2. ASSUME pc[w] \in Pulling, pc'[w] \in {"tomb", "pull", "page", "idle"},
             UNCHANGED <<store, pushed>>, OthersStay(w)
      PROVE  HubInv'
  BY <1>2, PullKeeps
<1>3. ASSUME NEW i \in Item, Tombstone(w, i) PROVE HubInv'
  <2>1. /\ OthersStay(w) /\ UNCHANGED <<store, pc>> /\ pc[w] = "tomb"
        /\ pushed' = SetRow(pushed, d, i, Absent)
    BY <1>3 DEF Tombstone, OthersStay, SetRow, TypeOK, pullVars
  <2>2. \A j \in Item : pushed'[d][j] \in {pushed[d][j], store[d][j], Absent}
    BY <1>1, <2>1 DEF SetRow, TypeOK
  <2>3. \A j \in Item : store'[d][j] \in {store[d][j], Absent}
    BY <2>1
  <2>4. pc[w] \in Pulling /\ pc'[w] \in {"tomb", "pull", "page", "idle"}
    BY <2>1 DEF Pulling
  <2> QED BY <2>1, <2>2, <2>3, <2>4, PullKeeps
<1>4. ASSUME NEW i \in Item, TombstoneReplyLost(w, i) \/ TombstoneFails(w, i) PROVE HubInv'
  BY <1>2, <1>4
  DEF TombstoneReplyLost, TombstoneFails, OthersStay, TypeOK, deviceVars, pullVars, Pulling
<1>5. ASSUME StartPull(w) \/ FetchPage(w) \/ PageDone(w) PROVE HubInv'
  BY <1>2, <1>5 DEF StartPull, FetchPage, PageDone, OthersStay, TypeOK, deviceVars, pushVars, Pulling
<1>6. ASSUME PullDone(w) \/ ManifestFails(w) \/ PageFailed(w) \/ CursorLost(w) PROVE HubInv'
  BY <1>2, <1>6
  DEF PullDone, ManifestFails, PageFailed, CursorLost, PullReturns, OthersStay, TypeOK,
      deviceVars, pushVars, Pulling
<1>7. ASSUME SaveFails(w) PROVE HubInv'
  BY <1>2, <1>7 DEF SaveFails, OthersStay, TypeOK, deviceVars, pushVars, Pulling
<1>8. ASSUME NEW n \in todo[w], SkipEntry(w, n) \/ DeleteFails(w, n) \/ GetFails(w, n) PROVE HubInv'
  BY <1>2, <1>8
  DEF SkipEntry, DeleteFails, GetFails, NextBlock, NextEntry, OthersStay, TypeOK,
      deviceVars, pushVars, Pulling
<1>9. ASSUME NEW n \in todo[w], ApplyTombstone(w, n) \/ BlockKnown(w, n) PROVE HubInv'
  <2>1. PICK i \in Item : i = log[n].item
    BY EntryInHand
  <2>2. /\ pc[w] = "page" /\ UNCHANGED <<pc, snap, queue, merged, block>>
        /\ store' = store \/ store' = SetRow(store, d, i, Absent)
        /\ pushed' = SetRow(pushed, d, i, Absent) \/ pushed' = SetRow(pushed, d, i, store[d][i])
    <3>1. CASE ApplyTombstone(w, n)
      BY <2>1, <3>1 DEF ApplyTombstone, NextEntry, pushVars
    <3>2. CASE BlockKnown(w, n)
      BY <2>1, <3>2 DEF BlockKnown, NextBlock, NextEntry, pushVars
    <3> QED BY <1>9, <3>1, <3>2
  <2>3. \A c \in Device \ {d} : store'[c] = store[c] /\ pushed'[c] = pushed[c]
    BY <2>2 DEF SetRow, TypeOK
  <2>4. OthersStay(w)
    BY <2>2, <2>3 DEF OthersStay
  <2>5. \A j \in Item : store'[d][j] \in {store[d][j], Absent}
    <3>1. CASE store' = store
      BY <3>1
    <3>2. CASE store' = SetRow(store, d, i, Absent)
      BY <1>1, <3>2 DEF SetRow, TypeOK
    <3> QED BY <2>2, <3>1, <3>2
  <2>6. \A j \in Item : pushed'[d][j] \in {pushed[d][j], store[d][j], Absent}
    <3>1. CASE pushed' = SetRow(pushed, d, i, Absent)
      BY <1>1, <3>1 DEF SetRow, TypeOK
    <3>2. CASE pushed' = SetRow(pushed, d, i, store[d][i])
      BY <1>1, <3>2 DEF SetRow, TypeOK
    <3> QED BY <2>2, <3>1, <3>2
  <2>7. pc[w] \in Pulling /\ pc'[w] \in {"tomb", "pull", "page", "idle"}
    BY <2>2 DEF Pulling
  <2> QED BY <2>4, <2>5, <2>6, <2>7, PullKeeps
<1> QED BY <1>3, <1>4, <1>5, <1>6, <1>7, <1>8, <1>9, Zenon

\* Every step keeps the invariant.
LEMMA HubStep ==
  ASSUME Quiet, TypeOK, TypeOK', InLog, HubInv, [Next]_vars
  PROVE  HubInv'
<1>1. LogExtends
  BY LogExtendsStep
<1>2. \A k \in {"put", "list", "unreadable"} : ~Fail(k)
  BY DEF Fail, Quiet
<1>3. ASSUME NEW w \in Worker, PushStep(w) \/ PullStep(w) \/ PushFault(w) \/ PullFault(w)
      PROVE  HubInv'
  <2>1. /\ ~ListFails(w)
        /\ \A i \in Item : ~ListSkips(w, i) /\ ~PutFails(w, i)
    BY <1>2 DEF ListFails, ListSkips, PutFails
  <2>2. CASE PushStep(w)
    BY <1>1, <2>2, PushKeeps, PassiveKeeps DEF PushStep
  <2>3. CASE PushFault(w)
    BY <1>1, <2>1, <2>3, PushKeeps, PassiveKeeps DEF PushFault
  <2>4. CASE PullStep(w)
    BY <1>1, <2>4, MergeKeeps, PassiveKeeps DEF PullStep
  <2>5. CASE PullFault(w)
    BY <1>1, <2>5, MergeKeeps, PassiveKeeps DEF PullFault
  <2> QED BY <1>3, <2>2, <2>3, <2>4, <2>5
<1>4. ASSUME NEW d \in Device, UserStep(d) \/ Restart(d)
      PROVE  HubInv'
  BY <1>1, <1>4, DeviceKeeps
<1>5. CASE UNCHANGED vars
  <2>1. UNCHANGED <<log, store, pushed, pc, snap, queue, block, merged>>
    BY <1>5 DEF vars
  <2>2. \A i : OnHub(i)' = OnHub(i)
    BY <2>1 DEF OnHub
  <2>3. SyncedIsOnHub'
    BY <2>1, <2>2 DEF HubInv, SyncedIsOnHub
  <2>4. ASSUME NEW w \in Worker PROVE WorkerInv(w)'
    <3>1. PushInv(w) /\ PulledInv(w) /\ SaveInv(w)
      BY DEF HubInv, WorkerInv
    <3>2. PushInv(w)' /\ PulledInv(w)'
      BY <2>1, <2>2, <3>1 DEF PushInv, PulledInv, Uploaded
    <3>3. SaveInv(w)'
      BY <2>1, <2>2, <3>1 DEF SaveInv
    <3> QED BY <3>2, <3>3 DEF WorkerInv
  <2> QED BY <2>3, <2>4 DEF HubInv
<1> QED BY <1>3, <1>4, <1>5 DEF Next

\* What a device has recorded as synced is on the hub: markSynced after a pull never
\* hides a message that the push before it has not uploaded.
THEOREM SyncedTheorem == ASSUME Quiet PROVE Spec => []SyncedIsOnHub
<1>1. Init => TypeOK /\ InLog /\ HubInv
  BY TypeInit, HubInit
<1>2. TypeOK /\ InLog /\ HubInv /\ [Next]_vars => (TypeOK /\ InLog /\ HubInv)'
  <2> SUFFICES ASSUME TypeOK, InLog, HubInv, [Next]_vars
               PROVE  (TypeOK /\ InLog /\ HubInv)'
      OBVIOUS
  <2>1. TypeOK' /\ InLog'
    BY TypeStep, InLogStep
  <2> QED BY <2>1, HubStep
<1>3. HubInv => SyncedIsOnHub
  BY DEF HubInv
<1> QED BY <1>1, <1>2, <1>3, PTL DEF Spec

----------------------------------------------------------------------------
(* No push/pull ping-pong *)

\* A device runs one Sync at a time, List returns every session, no reply of the
\* hub is lost and no process dies: a device then never forgets what it has synced.
Remembers ==
  /\ \A v, w \in Worker : Home[v] = Home[w] => v = w
  /\ Faults \cap {"reply", "crash", "unreadable"} = {}

\* Message m of item i is in the store of device d or in the hands of its worker.
Has(d, i, m) ==
  \/ m \in Hist(store[d][i])
  \/ \E w \in Workers(d) :
       \/ m \in Hist(snap[w][i])
       \/ pc[w] = "save" /\ log[block[w]].item = i /\ m \in merged[w]

\* What the hub or a device has was said by a user.
AllSaid ==
  \A i \in Item :
    /\ OnHub(i) \subseteq said
    /\ \A d \in Device : \A m : Has(d, i, m) => m \in said

\* Two devices share a message only through the hub.
Private ==
  \A d, e \in Device, i \in Item : \A m :
    d # e /\ Has(d, i, m) /\ Has(e, i, m) => m \in OnHub(i)

\* A session of which the hub has every message is recorded as synced, ...
StoreSynced(d, i) ==
  store[d][i] # Absent /\ store[d][i] \subseteq OnHub(i) => pushed[d][i] = store[d][i]

\* ... and so is a session in the hands of push.
SnapSynced(w, i) ==
  pc[w] = "push" /\ i \in queue[w] =>
    /\ snap[w][i] # Absent
    /\ snap[w][i] \subseteq OnHub(i) => pushed[Home[w]][i] = snap[w][i]

\* A session that changed since push's List was deleted, or has a message that is
\* neither on the hub nor about to be uploaded.
SnapLeft(w, i) ==
  pc[w] = "push" =>
    \/ store[Home[w]][i] \in {snap[w][i], Absent}
    \/ ~(Hist(store[Home[w]][i]) \subseteq OnHub(i) \cup Hist(snap[w][i]))

\* So is a session that came back while push tombstones it.
GoneLeft(w, i) ==
  pc[w] = "tomb" /\ i \in queue[w] =>
    \/ store[Home[w]][i] = Absent
    \/ ~(store[Home[w]][i] \subseteq OnHub(i))

WorkerSynced(w, i) == SnapSynced(w, i) /\ SnapLeft(w, i) /\ GoneLeft(w, i)

DeviceSynced(d) ==
  \A i \in Item : StoreSynced(d, i) /\ \A w \in Workers(d) : WorkerSynced(w, i)

EchoInv == AllSaid /\ Private /\ \A d \in Device : DeviceSynced(d)

\* NoEcho, as a predicate on one step.
UploadsNews ==
  \A n \in DOMAIN log' \ DOMAIN log :
    ~log'[n].tomb => ~(log'[n].msgs \subseteq OnHub(log'[n].item))

\* Nothing has been said, nothing is stored, nothing is on the hub.
LEMMA EchoInit == Init => EchoInv
<1> SUFFICES ASSUME Init PROVE EchoInv
    OBVIOUS
<1>1. /\ \A d \in Device, i \in Item : store[d][i] = Absent
      /\ \A w \in Worker, i \in Item : snap[w][i] = Absent
      /\ \A w \in Worker : pc[w] = "idle"
      /\ log = << >>
  BY ConstantsAssumption DEF Init, NoRows
<1>2. \A i : OnHub(i) = {}
  BY <1>1 DEF OnHub
<1>3. \A d \in Device, i \in Item : \A m : ~Has(d, i, m)
  BY <1>1 DEF Has, Workers, Hist
<1>4. AllSaid /\ Private
  BY <1>2, <1>3 DEF AllSaid, Private
<1>5. ASSUME NEW d \in Device PROVE DeviceSynced(d)
  BY <1>1 DEF DeviceSynced, StoreSynced, WorkerSynced, SnapSynced, SnapLeft, GoneLeft, Workers
<1> QED BY <1>4, <1>5 DEF EchoInv

\* A step changes nothing of other devices and their workers.
OnlyDevice(d) ==
  /\ \A v \in Worker : Home[v] # d =>
       /\ pc'[v] = pc[v] /\ snap'[v] = snap[v] /\ queue'[v] = queue[v]
       /\ merged'[v] = merged[v] /\ block'[v] = block[v]
  /\ \A c \in Device : c # d => store'[c] = store[c] /\ pushed'[c] = pushed[c]

\* What a step of device d may bring to the hub (what d has) and to d (what is on the
\* hub, or what its user just said).
Gains(d) ==
  /\ said \subseteq said'
  /\ \A i \in Item : \A m : m \in OnHub(i)' => m \in OnHub(i) \/ Has(d, i, m)
  /\ \A i \in Item : \A m :
       Has(d, i, m)' => Has(d, i, m) \/ m \in OnHub(i) \/ m \in said' \ said

\* After a step of device d it is enough to look at d: what it brings to the hub is
\* private to it, so it completes no other device's session there.
LEMMA EchoFrame ==
  ASSUME TypeOK, InLog, EchoInv, LogExtends, NEW d \in Device, OnlyDevice(d), Gains(d),
         DeviceSynced(d)'
  PROVE  EchoInv'
<1>1. \A i : OnHub(i) \subseteq OnHub(i)'
  BY OnHubGrows
<1>2. AllSaid /\ Private /\ \A e \in Device : DeviceSynced(e)
  BY DEF EchoInv
<1>3. ASSUME NEW e \in Device, e # d, NEW i \in Item, NEW m
      PROVE  Has(e, i, m)' <=> Has(e, i, m)
  <2>1. store'[e] = store[e]
    BY <1>3 DEF OnlyDevice
  <2>2. ASSUME NEW v \in Workers(e)
        PROVE  /\ snap'[v] = snap[v]
               /\ pc'[v] = pc[v] /\ block'[v] = block[v] /\ merged'[v] = merged[v]
               /\ pc[v] = "save" => log'[block[v]] = log[block[v]]
    <3>1. v \in Worker /\ Home[v] # d
      BY <1>3, <2>2 DEF Workers
    <3>2. pc[v] = "save" => block[v] \in 1 .. Len(log)
      BY <3>1 DEF InLog
    <3> QED BY <3>1, <3>2 DEF OnlyDevice, LogExtends
  <2> QED BY <2>1, <2>2 DEF Has
<1>4. ASSUME NEW e \in Device, e # d, NEW i \in Item, NEW m, Has(e, i, m), m \in OnHub(i)'
      PROVE  m \in OnHub(i)
  BY <1>2, <1>4 DEF Gains, Private
<1>5. AllSaid'
  <2>1. ASSUME NEW i \in Item, NEW m, m \in OnHub(i)' PROVE m \in said'
    BY <1>2, <2>1 DEF Gains, AllSaid
  <2>2. ASSUME NEW e \in Device, NEW i \in Item, NEW m, Has(e, i, m)' PROVE m \in said'
    BY <1>2, <1>3, <2>2 DEF Gains, AllSaid
  <2> QED BY <2>1, <2>2 DEF AllSaid
<1>6. Private'
  <2>1. ASSUME NEW e \in Device, e # d, NEW i \in Item, NEW m, Has(d, i, m)', Has(e, i, m)'
        PROVE  m \in OnHub(i)'
    <3>1. Has(e, i, m) /\ m \in said
      BY <1>2, <1>3, <2>1 DEF AllSaid
    <3>2. Has(d, i, m) \/ m \in OnHub(i)
      BY <2>1, <3>1 DEF Gains
    <3>3. m \in OnHub(i)
      BY <1>2, <2>1, <3>1, <3>2 DEF Private
    <3> QED BY <1>1, <3>3
  <2>2. ASSUME NEW c \in Device, NEW e \in Device, c # e, c # d, e # d, NEW i \in Item, NEW m,
               Has(c, i, m)', Has(e, i, m)'
        PROVE  m \in OnHub(i)'
    BY <1>1, <1>2, <1>3, <2>2 DEF Private
  <2> QED BY <2>1, <2>2 DEF Private
<1>7. ASSUME NEW e \in Device, e # d PROVE DeviceSynced(e)'
  <2>1. store'[e] = store[e] /\ pushed'[e] = pushed[e]
    BY <1>7 DEF OnlyDevice
  <2>2. ASSUME NEW i \in Item PROVE StoreSynced(e, i)'
    <3>1. \A m \in Hist(store[e][i]) : Has(e, i, m)
      BY DEF Has
    <3>2. store[e][i] # Absent /\ store[e][i] \subseteq OnHub(i)' => store[e][i] \subseteq OnHub(i)
      BY <1>4, <1>7, <3>1 DEF Hist
    <3> QED BY <1>2, <2>1, <3>2 DEF DeviceSynced, StoreSynced
  <2>3. ASSUME NEW i \in Item, NEW v \in Workers(e) PROVE WorkerSynced(v, i)'
    <3>1. /\ pc'[v] = pc[v] /\ snap'[v] = snap[v] /\ queue'[v] = queue[v] /\ Home[v] = e
      BY <1>7, <2>3 DEF OnlyDevice, Workers
    <3>2. /\ \A m \in Hist(store[e][i]) : Has(e, i, m)
          /\ \A m \in Hist(snap[v][i]) : Has(e, i, m)
      BY <2>3 DEF Has
    <3>3. SnapSynced(v, i) /\ SnapLeft(v, i) /\ GoneLeft(v, i)
      BY <1>2, <2>3 DEF DeviceSynced, WorkerSynced
    <3>4. SnapSynced(v, i)'
      <4>1. snap[v][i] # Absent /\ snap[v][i] \subseteq OnHub(i)' => snap[v][i] \subseteq OnHub(i)
        BY <1>4, <1>7, <3>2 DEF Hist
      <4> QED BY <2>1, <3>1, <3>3, <4>1 DEF SnapSynced
    <3>5. SnapLeft(v, i)'
      <4>1. Hist(store[e][i]) \subseteq OnHub(i)' \cup Hist(snap[v][i])
              => Hist(store[e][i]) \subseteq OnHub(i) \cup Hist(snap[v][i])
        BY <1>4, <1>7, <3>2
      <4> QED BY <2>1, <3>1, <3>3, <4>1 DEF SnapLeft
    <3>6. GoneLeft(v, i)'
      <4>1. store[e][i] # Absent /\ store[e][i] \subseteq OnHub(i)' => store[e][i] \subseteq OnHub(i)
        BY <1>4, <1>7, <3>2 DEF Hist
      <4> QED BY <2>1, <3>1, <3>3, <4>1 DEF GoneLeft
    <3> QED BY <3>4, <3>5, <3>6 DEF WorkerSynced
  <2> QED BY <2>2, <2>3 DEF DeviceSynced
<1> QED BY <1>5, <1>6, <1>7 DEF EchoInv

\* The hub learns nothing from a step that leaves its log alone.
LEMMA HubUnchanged ==
  ASSUME UNCHANGED log
  PROVE  UploadsNews /\ \A i : OnHub(i)' = OnHub(i)
BY DEF UploadsNews, OnHub

\* What an entry brings to the hub.
LEMMA OnHubAppend ==
  ASSUME TypeOK, LogExtends, NEW e \in Entry, Append1(e), NEW i
  PROVE  OnHub(i)' = OnHub(i) \cup (IF e.item = i THEN e.msgs ELSE {})
<1>1. /\ Len(log) \in Nat /\ Len(log') = Len(log) + 1
      /\ DOMAIN log = 1 .. Len(log) /\ DOMAIN log' = 1 .. Len(log')
      /\ \A k \in 1 .. Len(log) : log'[k] = log[k]
      /\ log'[Len(log) + 1] = e
  BY LogGrows DEF LogExtends
<1>2. DOMAIN log' = DOMAIN log \cup {Len(log) + 1}
  BY <1>1
<1>3. \A k \in DOMAIN log : log'[k] = log[k]
  BY <1>1
<1> QED BY <1>1, <1>2, <1>3 DEF OnHub

\* The entry that a step appends is the only new one.
LEMMA NewEntry ==
  ASSUME TypeOK, NEW e \in Entry, Append1(e), NEW n \in DOMAIN log' \ DOMAIN log
  PROVE  log'[n] = e
<1>1. /\ Len(log) \in Nat
      /\ DOMAIN log = 1 .. Len(log) /\ DOMAIN log' = 1 .. (Len(log) + 1)
      /\ log'[Len(log) + 1] = e
  BY AppendFacts DEF TypeOK, Append1
<1>2. n = Len(log) + 1
  BY <1>1
<1> QED BY <1>1, <1>2

\* A step that brings neither the hub nor device d anything.
LEMMA GainsNothing ==
  ASSUME NEW d \in Device, UNCHANGED <<log, said>>,
         \A i \in Item : \A m : Has(d, i, m)' => Has(d, i, m)
  PROVE  Gains(d)
BY HubUnchanged DEF Gains

\* Steps of push that only shorten its list of sessions.
LEMMA ShorterQueue ==
  ASSUME Remembers, TypeOK, InLog, EchoInv, LogExtends, NEW w \in Worker,
         UNCHANGED <<log, said, store, pushed, pc, snap, merged, block>>,
         NEW i \in Item, queue' = [queue EXCEPT ![w] = @ \ {i}]
  PROVE  EchoInv' /\ UploadsNews
<1> DEFINE d == Home[w]
<1>1. d \in Device /\ DeviceSynced(d)
  BY ConstantsAssumption DEF EchoInv
<1>2. UploadsNews /\ \A j : OnHub(j)' = OnHub(j)
  BY HubUnchanged
<1>3. OnlyDevice(d)
  BY DEF OnlyDevice, TypeOK
<1>4. Gains(d)
  BY <1>1, GainsNothing DEF Has
<1>5. \A v \in Worker : queue'[v] \subseteq queue[v]
  BY DEF TypeOK
<1>6. DeviceSynced(d)'
  <2>1. ASSUME NEW j \in Item PROVE StoreSynced(d, j)'
    BY <1>1, <1>2 DEF DeviceSynced, StoreSynced
  <2>2. ASSUME NEW j \in Item, NEW v \in Workers(d) PROVE WorkerSynced(v, j)'
    <3>1. SnapSynced(v, j) /\ SnapLeft(v, j) /\ GoneLeft(v, j)
      BY <1>1, <2>2 DEF DeviceSynced, WorkerSynced
    <3>2. j \in queue'[v] => j \in queue[v]
      BY <1>5, <2>2 DEF Workers
    <3> QED BY <1>2, <3>1, <3>2 DEF WorkerSynced, SnapSynced, SnapLeft, GoneLeft
  <2> QED BY <2>1, <2>2 DEF DeviceSynced
<1> QED BY <1>1, <1>2, <1>3, <1>4, <1>6, EchoFrame

\* push starts with what the store says.
LEMMA StartSyncEcho ==
  ASSUME Remembers, TypeOK, InLog, EchoInv, LogExtends, NEW w \in Worker, StartSync(w)
  PROVE  EchoInv' /\ UploadsNews
<1> DEFINE d == Home[w]
<1>1. d \in Device /\ DeviceSynced(d)
  BY ConstantsAssumption DEF EchoInv
<1>2. /\ UNCHANGED <<log, said, store, pushed, merged, block>>
      /\ pc' = [pc EXCEPT ![w] = "push"] /\ snap' = [snap EXCEPT ![w] = store[d]]
      /\ queue' = [queue EXCEPT ![w] = {i \in Item : store[d][i] # Absent}]
  BY DEF StartSync, deviceVars, pullVars
<1>3. UploadsNews /\ \A j : OnHub(j)' = OnHub(j)
  BY <1>2, HubUnchanged
<1>4. Workers(d) = {w}
  BY DEF Remembers, Workers
<1>5. pc'[w] = "push" /\ snap'[w] = store[d] /\ queue'[w] = {i \in Item : store[d][i] # Absent}
  BY <1>2 DEF TypeOK
<1>6. OnlyDevice(d)
  BY <1>2 DEF OnlyDevice, TypeOK
<1>7. Gains(d)
  <2>1. ASSUME NEW i \in Item, NEW m, Has(d, i, m)' PROVE Has(d, i, m)
    <3>1. \/ m \in Hist(store'[d][i])
          \/ m \in Hist(snap'[w][i])
      BY <1>4, <1>5, <2>1 DEF Has, Workers
    <3> QED BY <1>2, <1>5, <3>1 DEF Has
  <2> QED BY <1>1, <1>2, <2>1, GainsNothing
<1>8. DeviceSynced(d)'
  <2>1. ASSUME NEW i \in Item PROVE StoreSynced(d, i) /\ StoreSynced(d, i)'
    BY <1>1, <1>2, <1>3 DEF DeviceSynced, StoreSynced
  <2>2. ASSUME NEW i \in Item PROVE WorkerSynced(w, i)'
    BY <1>2, <1>3, <1>5, <2>1 DEF WorkerSynced, SnapSynced, SnapLeft, GoneLeft, StoreSynced
  <2> QED BY <1>4, <2>1, <2>2 DEF DeviceSynced, Workers
<1> QED BY <1>1, <1>3, <1>6, <1>7, <1>8, EchoFrame

\* The tombstones are for sessions that List did not return: those that are back
\* have a message which is not on the hub.
LEMMA StartTombstonesEcho ==
  ASSUME Remembers, TypeOK, InLog, EchoInv, LogExtends, NEW w \in Worker, StartTombstones(w)
  PROVE  EchoInv' /\ UploadsNews
<1> DEFINE d == Home[w]
<1>1. d \in Device /\ DeviceSynced(d)
  BY ConstantsAssumption DEF EchoInv
<1>2. /\ UNCHANGED <<log, said, store, pushed, merged, block>> /\ pc[w] = "push"
      /\ pc' = [pc EXCEPT ![w] = "tomb"] /\ snap' = [snap EXCEPT ![w] = NoRows]
      /\ queue' = [queue EXCEPT ![w] =
                     {i \in Item : pushed[d][i] # Absent /\ snap[w][i] = Absent}]
  BY DEF StartTombstones, deviceVars, pullVars
<1>3. UploadsNews /\ \A j : OnHub(j)' = OnHub(j)
  BY <1>2, HubUnchanged
<1>4. Workers(d) = {w}
  BY DEF Remembers, Workers
<1>5. /\ pc'[w] = "tomb" /\ \A i \in Item : snap'[w][i] = Absent
      /\ \A i \in queue'[w] : i \in Item /\ snap[w][i] = Absent
  BY <1>2 DEF TypeOK, NoRows
<1>6. OnlyDevice(d)
  BY <1>2 DEF OnlyDevice, TypeOK
<1>7. Gains(d)
  <2>1. ASSUME NEW i \in Item, NEW m, Has(d, i, m)' PROVE Has(d, i, m)
    <3>1. m \in Hist(store'[d][i])
      BY <1>4, <1>5, <2>1 DEF Has, Workers, Hist
    <3> QED BY <1>2, <3>1 DEF Has
  <2> QED BY <1>1, <1>2, <2>1, GainsNothing
<1>8. DeviceSynced(d)'
  <2>1. ASSUME NEW i \in Item PROVE StoreSynced(d, i)'
    BY <1>1, <1>2, <1>3 DEF DeviceSynced, StoreSynced
  <2>2. ASSUME NEW i \in Item PROVE WorkerSynced(w, i)'
    <3>1. SnapLeft(w, i)
      BY <1>1, <1>4 DEF DeviceSynced, WorkerSynced
    <3>2. ASSUME i \in queue'[w]
          PROVE  store[d][i] = Absent \/ ~(store[d][i] \subseteq OnHub(i))
      <4>1. snap[w][i] = Absent /\ Hist(snap[w][i]) = {}
        BY <1>5, <3>2 DEF Hist
      <4>2. store[d][i] = Absent \/ ~(Hist(store[d][i]) \subseteq OnHub(i))
        BY <1>2, <3>1, <4>1 DEF SnapLeft
      <4> QED BY <4>2 DEF Hist
    <3> QED BY <1>2, <1>3, <1>5, <3>2 DEF WorkerSynced, SnapSynced, SnapLeft, GoneLeft
  <2> QED BY <1>4, <2>1, <2>2 DEF DeviceSynced, Workers
<1> QED BY <1>1, <1>3, <1>6, <1>7, <1>8, EchoFrame

\* push uploads a session because it has something new, and records it as synced
\* before anything else happens to it.
LEMMA PutBlockEcho ==
  ASSUME Remembers, TypeOK, InLog, EchoInv, LogExtends, NEW w \in Worker, NEW i \in Item,
         PutBlock(w, i)
  PROVE  EchoInv' /\ UploadsNews
<1> DEFINE d == Home[w]
           e == Block(i, Hist(snap[w][i]))
<1>1. d \in Device /\ DeviceSynced(d) /\ Workers(d) = {w}
  BY ConstantsAssumption DEF EchoInv, Remembers, Workers
<1>2. /\ UNCHANGED <<said, store, pc, snap, merged, block>>
      /\ pc[w] = "push" /\ i \in queue[w] /\ pushed[d][i] # snap[w][i]
      /\ Append1(e) /\ pushed' = SetRow(pushed, d, i, snap[w][i])
      /\ queue' = [queue EXCEPT ![w] = @ \ {i}]
  BY DEF PutBlock, MustPush, pullVars
<1>3. e \in Entry /\ e.item = i /\ e.msgs = Hist(snap[w][i])
  <2>1. snap[w][i] \in Row
    BY DEF TypeOK
  <2>2. e \in Entry
    BY <2>1, EntryFacts, HistType
  <2> QED BY <2>2 DEF Block
<1>4. \A j : OnHub(j)' = OnHub(j) \cup (IF i = j THEN Hist(snap[w][i]) ELSE {})
  <2> HIDE DEF e
  <2> QED BY <1>2, <1>3, OnHubAppend
<1>5. SnapSynced(w, i) /\ SnapLeft(w, i)
  BY <1>1 DEF DeviceSynced, WorkerSynced
<1>6. UploadsNews
  <2> SUFFICES ASSUME NEW n \in DOMAIN log' \ DOMAIN log
               PROVE  ~(log'[n].msgs \subseteq OnHub(log'[n].item))
      BY DEF UploadsNews
  <2>1. log'[n] = e
    <3> HIDE DEF e
    <3> QED BY <1>2, <1>3, NewEntry
  <2>2. log'[n].item = i /\ log'[n].msgs = snap[w][i]
    BY <1>2, <1>3, <1>5, <2>1 DEF SnapSynced, Hist
  <2> QED BY <1>2, <1>5, <2>2 DEF SnapSynced
<1>7. OnlyDevice(d)
  BY <1>2 DEF OnlyDevice, SetRow, TypeOK
<1>8. \A v \in Worker, j \in Item : pc[v] = "save" => log'[block[v]] = log[block[v]]
  BY DEF InLog, LogExtends
<1>9. Gains(d)
  <2>1. ASSUME NEW j \in Item, NEW m, m \in OnHub(j)' PROVE m \in OnHub(j) \/ Has(d, j, m)
    <3>1. m \in OnHub(j) \/ (i = j /\ m \in Hist(snap[w][i]))
      BY <1>4, <2>1
    <3> QED BY <1>1, <3>1 DEF Has
  <2>2. ASSUME NEW j \in Item, NEW m, Has(d, j, m)' PROVE Has(d, j, m)
    BY <1>2, <1>8, <2>2 DEF Has, Workers
  <2> QED BY <1>2, <2>1, <2>2 DEF Gains
<1>10. /\ pushed'[d][i] = snap[w][i]
       /\ \A j \in Item \ {i} : pushed'[d][j] = pushed[d][j]
       /\ queue'[w] = queue[w] \ {i}
  BY <1>1, <1>2 DEF SetRow, TypeOK
<1>11. DeviceSynced(d)'
  <2>1. ASSUME NEW j \in Item, j # i PROVE StoreSynced(d, j)' /\ WorkerSynced(w, j)'
    <3>1. OnHub(j)' = OnHub(j)
      BY <1>4, <2>1
    <3>2. pushed'[d][j] = pushed[d][j] /\ (j \in queue'[w] => j \in queue[w])
      BY <1>10, <2>1
    <3>3. StoreSynced(d, j) /\ SnapSynced(w, j) /\ SnapLeft(w, j)
      BY <1>1 DEF DeviceSynced, WorkerSynced
    <3> QED BY <1>2, <3>1, <3>2, <3>3
            DEF StoreSynced, WorkerSynced, SnapSynced, SnapLeft, GoneLeft
  <2>2. OnHub(i)' = OnHub(i) \cup Hist(snap[w][i])
    BY <1>4
  <2>3. StoreSynced(d, i)'
    BY <1>2, <1>5, <1>10, <2>2 DEF StoreSynced, SnapLeft, Hist
  <2>4. WorkerSynced(w, i)'
    BY <1>2, <1>5, <1>10, <2>2 DEF WorkerSynced, SnapSynced, SnapLeft, GoneLeft
  <2> QED BY <1>1, <2>1, <2>3, <2>4 DEF DeviceSynced, Workers
<1> QED BY <1>1, <1>6, <1>7, <1>9, <1>11, EchoFrame

\* A tombstone makes the device forget that it has synced a session it no longer has.
LEMMA TombstoneEcho ==
  ASSUME Remembers, TypeOK, InLog, EchoInv, LogExtends, NEW w \in Worker, NEW i \in Item,
         Tombstone(w, i)
  PROVE  EchoInv' /\ UploadsNews
<1> DEFINE d == Home[w]
           e == Tomb(i)
<1>1. d \in Device /\ DeviceSynced(d) /\ Workers(d) = {w}
  BY ConstantsAssumption DEF EchoInv, Remembers, Workers
<1>2. /\ UNCHANGED <<said, store, pc, snap, merged, block>>
      /\ pc[w] = "tomb" /\ i \in queue[w]
      /\ Append1(e) /\ pushed' = SetRow(pushed, d, i, Absent)
      /\ queue' = [queue EXCEPT ![w] = @ \ {i}]
  BY DEF Tombstone, pullVars
<1>3. e \in Entry /\ e.msgs = {} /\ e.tomb
  BY DEF Tomb, Entry, History
<1>4. \A j : OnHub(j)' = OnHub(j)
  <2> HIDE DEF e
  <2>1. \A j : OnHub(j)' = OnHub(j) \cup (IF e.item = j THEN e.msgs ELSE {})
    BY <1>2, <1>3, OnHubAppend
  <2>2. \A j : (IF e.item = j THEN e.msgs ELSE {}) = {}
    BY <1>3
  <2> QED BY <2>1, <2>2
<1>5. UploadsNews
  <2> HIDE DEF e
  <2> QED BY <1>2, <1>3, NewEntry DEF UploadsNews
<1>6. OnlyDevice(d)
  BY <1>2 DEF OnlyDevice, SetRow, TypeOK
<1>7. \A v \in Worker, j \in Item : pc[v] = "save" => log'[block[v]] = log[block[v]]
  BY DEF InLog, LogExtends
<1>8. Gains(d)
  <2>1. ASSUME NEW j \in Item, NEW m, Has(d, j, m)' PROVE Has(d, j, m)
    BY <1>2, <1>7, <2>1 DEF Has, Workers
  <2> QED BY <1>2, <1>4, <2>1 DEF Gains
<1>9. /\ \A j \in Item \ {i} : pushed'[d][j] = pushed[d][j]
      /\ queue'[w] = queue[w] \ {i}
  BY <1>1, <1>2 DEF SetRow, TypeOK
<1>10. DeviceSynced(d)'
  <2>1. ASSUME NEW j \in Item PROVE StoreSynced(d, j)'
    <3>1. StoreSynced(d, j) /\ GoneLeft(w, j)
      BY <1>1 DEF DeviceSynced, WorkerSynced
    <3>2. CASE j = i
      BY <1>2, <1>4, <3>1, <3>2 DEF StoreSynced, GoneLeft
    <3>3. CASE j # i
      BY <1>2, <1>4, <1>9, <3>1, <3>3 DEF StoreSynced
    <3> QED BY <3>2, <3>3
  <2>2. ASSUME NEW j \in Item PROVE WorkerSynced(w, j)'
    <3>1. GoneLeft(w, j)
      BY <1>1 DEF DeviceSynced, WorkerSynced
    <3> QED BY <1>2, <1>4, <1>9, <3>1 DEF WorkerSynced, SnapSynced, SnapLeft, GoneLeft
  <2> QED BY <1>1, <2>1, <2>2 DEF DeviceSynced, Workers
<1> QED BY <1>1, <1>5, <1>6, <1>8, <1>10, EchoFrame

\* Outside push, a step that leaves a session as it is may record it as synced; one
\* that deletes it may record anything.
LEMMA PullEcho ==
  ASSUME Remembers, TypeOK, InLog, EchoInv, LogExtends, NEW w \in Worker,
         UNCHANGED <<log, said, snap, queue>>,
         pc'[w] \in {"pull", "page", "idle"},
         \A v \in Worker \ {w} : pc'[v] = pc[v] /\ merged'[v] = merged[v] /\ block'[v] = block[v],
         \A c \in Device \ {Home[w]} : store'[c] = store[c] /\ pushed'[c] = pushed[c],
         \A i \in Item :
           \/ /\ store'[Home[w]][i] = store[Home[w]][i]
              /\ pushed'[Home[w]][i] \in {pushed[Home[w]][i], store[Home[w]][i]}
           \/ store'[Home[w]][i] = Absent
  PROVE  EchoInv' /\ UploadsNews
<1> DEFINE d == Home[w]
<1>1. d \in Device /\ DeviceSynced(d) /\ Workers(d) = {w}
  BY ConstantsAssumption DEF EchoInv, Remembers, Workers
<1>2. UploadsNews /\ \A j : OnHub(j)' = OnHub(j)
  BY HubUnchanged
<1>3. OnlyDevice(d)
  BY DEF OnlyDevice
<1>4. Gains(d)
  <2>1. ASSUME NEW i \in Item, NEW m, Has(d, i, m)' PROVE Has(d, i, m)
    <3>1. m \in Hist(store'[d][i]) \/ m \in Hist(snap[w][i])
      BY <1>1, <2>1 DEF Has, Workers
    <3>2. m \in Hist(store'[d][i]) => m \in Hist(store[d][i])
      BY DEF Hist
    <3> QED BY <1>1, <3>1, <3>2 DEF Has
  <2> QED BY <1>1, <2>1, GainsNothing
<1>5. DeviceSynced(d)'
  <2>1. ASSUME NEW i \in Item PROVE StoreSynced(d, i)'
    <3>1. StoreSynced(d, i)
      BY <1>1 DEF DeviceSynced
    <3>2. \/ store'[d][i] = Absent
          \/ store'[d][i] = store[d][i] /\ pushed'[d][i] = pushed[d][i]
          \/ store'[d][i] = store[d][i] /\ pushed'[d][i] = store[d][i]
      OBVIOUS
    <3> QED BY <1>2, <3>1, <3>2 DEF StoreSynced
  <2>2. ASSUME NEW i \in Item PROVE WorkerSynced(w, i)'
    BY DEF WorkerSynced, SnapSynced, SnapLeft, GoneLeft
  <2> QED BY <1>1, <2>1, <2>2 DEF DeviceSynced, Workers
<1> QED BY <1>1, <1>2, <1>3, <1>4, <1>5, EchoFrame

\* A merge takes what the store says, or nothing, and what the hub says.
LEMMA MergeEcho ==
  ASSUME Remembers, TypeOK, InLog, EchoInv, LogExtends, NEW w \in Worker, NEW n \in todo[w],
         BlockNew(w, n) \/ LoadFails(w, n)
  PROVE  EchoInv' /\ UploadsNews
<1> DEFINE d == Home[w]
<1>1. d \in Device /\ DeviceSynced(d) /\ Workers(d) = {w}
  BY ConstantsAssumption DEF EchoInv, Remembers, Workers
<1>2. PICK i \in Item : i = log[n].item /\ log[n].msgs \subseteq OnHub(i)
  BY EntryInHand, BlockOnHub DEF InLog, TypeOK
<1>3. StartMerge(w, n, Hist(store[d][i])) \/ StartMerge(w, n, {})
  BY <1>2 DEF BlockNew, LoadFails
<1>4. /\ UNCHANGED <<log, said, store, pushed, snap, queue>>
      /\ pc' = [pc EXCEPT ![w] = "save"] /\ block' = [block EXCEPT ![w] = n]
  BY <1>3 DEF StartMerge, pushVars
<1>5. PICK local : /\ local = {} \/ local = Hist(store[d][i])
                   /\ merged' = [merged EXCEPT ![w] = local \cup log[n].msgs]
  BY <1>3 DEF StartMerge, MergeMessages
<1>6. pc'[w] = "save" /\ block'[w] = n /\ merged'[w] = local \cup log[n].msgs
  BY <1>4, <1>5 DEF TypeOK
<1>7. UploadsNews /\ \A j : OnHub(j)' = OnHub(j)
  BY <1>4, HubUnchanged
<1>8. OnlyDevice(d)
  BY <1>4, <1>5 DEF OnlyDevice, TypeOK
<1>9. Gains(d)
  <2>1. ASSUME NEW j \in Item, NEW m, Has(d, j, m)' PROVE Has(d, j, m) \/ m \in OnHub(j)
    <3>1. \/ m \in Hist(store[d][j]) \/ m \in Hist(snap[w][j])
          \/ j = i /\ m \in local \cup log[n].msgs
      BY <1>1, <1>2, <1>4, <1>6, <2>1 DEF Has, Workers
    <3> QED BY <1>1, <1>2, <1>5, <3>1 DEF Has
  <2> QED BY <1>4, <1>7, <2>1 DEF Gains
<1>10. DeviceSynced(d)'
  <2>1. ASSUME NEW j \in Item PROVE StoreSynced(d, j)'
    BY <1>1, <1>4, <1>7 DEF DeviceSynced, StoreSynced
  <2>2. ASSUME NEW j \in Item PROVE WorkerSynced(w, j)'
    BY <1>6 DEF WorkerSynced, SnapSynced, SnapLeft, GoneLeft
  <2> QED BY <1>1, <2>1, <2>2 DEF DeviceSynced, Workers
<1> QED BY <1>1, <1>7, <1>8, <1>9, <1>10, EchoFrame

\* The merge is saved and recorded as synced in one step.
LEMMA SaveEcho ==
  ASSUME Remembers, TypeOK, InLog, EchoInv, LogExtends, NEW w \in Worker, SaveMerged(w)
  PROVE  EchoInv' /\ UploadsNews
<1> DEFINE d == Home[w]
<1>1. d \in Device /\ DeviceSynced(d) /\ Workers(d) = {w}
  BY ConstantsAssumption DEF EchoInv, Remembers, Workers
<1>2. pc[w] = "save"
  BY DEF SaveMerged
<1>3. PICK i \in Item : i = log[block[w]].item
  BY <1>2, EntryInHand
<1>4. /\ UNCHANGED <<log, said, snap, queue>> /\ pc' = [pc EXCEPT ![w] = "page"]
      /\ store' = SetRow(store, d, i, merged[w]) /\ pushed' = SetRow(pushed, d, i, merged[w])
      /\ block' = [block EXCEPT ![w] = 0] /\ merged' = [merged EXCEPT ![w] = {}]
  BY <1>3 DEF SaveMerged, pushVars
<1>5. /\ pc'[w] = "page" /\ merged[w] \in History
      /\ store'[d][i] = merged[w] /\ pushed'[d][i] = merged[w]
      /\ \A j \in Item \ {i} : store'[d][j] = store[d][j] /\ pushed'[d][j] = pushed[d][j]
  BY <1>1, <1>4 DEF SetRow, TypeOK
<1>6. Hist(merged[w]) = merged[w]
  BY <1>5, ConstantsAssumption DEF Hist
<1>7. UploadsNews /\ \A j : OnHub(j)' = OnHub(j)
  BY <1>4, HubUnchanged
<1>8. OnlyDevice(d)
  BY <1>4 DEF OnlyDevice, SetRow, TypeOK
<1>9. Gains(d)
  <2>1. ASSUME NEW j \in Item, NEW m, Has(d, j, m)' PROVE Has(d, j, m)
    <3>1. m \in Hist(store'[d][j]) \/ m \in Hist(snap[w][j])
      BY <1>1, <1>4, <1>5, <2>1 DEF Has, Workers
    <3>2. \/ m \in Hist(store[d][j]) \/ m \in Hist(snap[w][j])
          \/ j = i /\ m \in merged[w]
      BY <1>5, <1>6, <3>1
    <3> QED BY <1>1, <1>2, <1>3, <3>2 DEF Has
  <2> QED BY <1>1, <1>4, <2>1, GainsNothing
<1>10. DeviceSynced(d)'
  <2>1. ASSUME NEW j \in Item PROVE StoreSynced(d, j)'
    BY <1>1, <1>5, <1>7 DEF DeviceSynced, StoreSynced
  <2>2. ASSUME NEW j \in Item PROVE WorkerSynced(w, j)'
    BY <1>5 DEF WorkerSynced, SnapSynced, SnapLeft, GoneLeft
  <2> QED BY <1>1, <2>1, <2>2 DEF DeviceSynced, Workers
<1> QED BY <1>1, <1>7, <1>8, <1>9, <1>10, EchoFrame

\* What a user writes is on no hub and in no other hands; what a user deletes is gone.
LEMMA UserEcho ==
  ASSUME Remembers, TypeOK, InLog, EchoInv, LogExtends, NEW d \in Device, UserStep(d)
  PROVE  EchoInv' /\ UploadsNews
<1>1. PICK i \in Item : (\E m \in Message : Say(d, i, m)) \/ DeleteSession(d, i)
  BY DEF UserStep
<1>2. AllSaid /\ DeviceSynced(d)
  BY DEF EchoInv
<1>3. /\ UNCHANGED <<log, pushed, pc, snap, queue, merged, block>>
      /\ \A c \in Device : c # d => store'[c] = store[c]
      /\ \A j \in Item \ {i} : store'[d][j] = store[d][j]
  BY <1>1 DEF Say, DeleteSession, SetRow, TypeOK, pushVars, pullVars
<1>4. \/ \E m \in Message : /\ m \notin said /\ said' = said \cup {m}
                            /\ store'[d][i] = Hist(store[d][i]) \cup {m}
      \/ said' = said /\ store'[d][i] = Absent
  <2>1. \A row : store' = SetRow(store, d, i, row) => store'[d][i] = row
    BY DEF SetRow, TypeOK
  <2>2. ASSUME NEW m \in Message, Say(d, i, m)
        PROVE  /\ m \notin said /\ said' = said \cup {m}
               /\ store'[d][i] = Hist(store[d][i]) \cup {m}
    BY <2>1, <2>2 DEF Say
  <2>3. DeleteSession(d, i) => said' = said /\ store'[d][i] = Absent
    BY <2>1 DEF DeleteSession
  <2> QED BY <1>1, <2>2, <2>3, Zenon
<1>5. UploadsNews /\ \A j : OnHub(j)' = OnHub(j)
  BY <1>3, HubUnchanged
<1>6. OnlyDevice(d)
  BY <1>3 DEF OnlyDevice
<1>7. \A m : m \in Hist(store'[d][i]) => m \in Hist(store[d][i]) \/ m \in said' \ said
  BY <1>4 DEF Hist
<1>8. Gains(d)
  <2>1. ASSUME NEW j \in Item, NEW m, Has(d, j, m)'
        PROVE  Has(d, j, m) \/ m \in said' \ said
    <3>1. CASE j = i
      BY <1>3, <1>7, <2>1, <3>1 DEF Has, Workers
    <3>2. CASE j # i
      BY <1>3, <2>1, <3>2 DEF Has, Workers
    <3> QED BY <3>1, <3>2
  <2>2. said \subseteq said'
    BY <1>4
  <2> QED BY <1>5, <2>1, <2>2 DEF Gains
<1>9. \/ store'[d][i] = Absent
      \/ \E m \in store'[d][i] :
           m \notin OnHub(i) /\ \A v \in Workers(d) : m \notin Hist(snap[v][i])
  <2>1. ASSUME NEW m \in Message, m \notin said, store'[d][i] = Hist(store[d][i]) \cup {m}
        PROVE  <1>9!2
    <3>1. m \in store'[d][i]
      BY <2>1
    <3>2. m \notin OnHub(i) /\ ~Has(d, i, m)
      BY <1>2, <2>1 DEF AllSaid
    <3>3. \A v \in Workers(d) : m \notin Hist(snap[v][i])
      BY <3>2 DEF Has
    <3> QED BY <3>1, <3>2, <3>3
  <2> QED BY <1>4, <2>1
<1>10. DeviceSynced(d)'
  <2>1. ASSUME NEW j \in Item PROVE StoreSynced(d, j)'
    <3>1. CASE j = i
      BY <1>5, <1>9, <3>1 DEF StoreSynced
    <3>2. CASE j # i
      BY <1>2, <1>3, <1>5, <3>2 DEF DeviceSynced, StoreSynced
    <3> QED BY <3>1, <3>2
  <2>2. ASSUME NEW j \in Item, NEW v \in Workers(d) PROVE WorkerSynced(v, j)'
    <3>0. Home[v] = d
      BY DEF Workers
    <3>1. SnapSynced(v, j) /\ SnapLeft(v, j) /\ GoneLeft(v, j)
      BY <1>2, <2>2 DEF DeviceSynced, WorkerSynced
    <3>2. SnapSynced(v, j)'
      BY <1>3, <1>5, <3>1 DEF SnapSynced
    <3>3. CASE j # i
      BY <1>3, <1>5, <3>0, <3>1, <3>2, <3>3 DEF WorkerSynced, SnapLeft, GoneLeft
    <3>4. CASE j = i
      <4>1. SnapLeft(v, j)'
        BY <1>3, <1>5, <1>9, <3>0, <3>4 DEF SnapLeft, Hist
      <4>2. GoneLeft(v, j)'
        BY <1>3, <1>5, <1>9, <3>0, <3>4 DEF GoneLeft
      <4> QED BY <3>2, <4>1, <4>2 DEF WorkerSynced
    <3> QED BY <3>3, <3>4
  <2> QED BY <2>1, <2>2 DEF DeviceSynced, Workers
<1> QED BY <1>5, <1>6, <1>8, <1>10, EchoFrame

\* The other steps of a worker: they leave the rows as they are, delete one, or record
\* what the store says.
LEMMA PassiveEcho ==
  ASSUME Remembers, TypeOK, InLog, EchoInv, LogExtends, NEW w \in Worker,
         \/ \E i \in Item : PushUnchanged(w, i) \/ PutFails(w, i) \/ TombstoneFails(w, i)
         \/ StartPull(w) \/ FetchPage(w) \/ PullDone(w) \/ ManifestFails(w) \/ ListFails(w)
         \/ \E n \in todo[w] : \/ ApplyTombstone(w, n) \/ SkipEntry(w, n) \/ BlockKnown(w, n)
                               \/ DeleteFails(w, n) \/ GetFails(w, n)
         \/ SaveFails(w) \/ PageDone(w) \/ PageFailed(w) \/ CursorLost(w)
  PROVE  EchoInv' /\ UploadsNews
<1> DEFINE d == Home[w]
<1>1. d \in Device
  BY EntryInHand
<1>2. ASSUME NEW i \in Item, PushUnchanged(w, i) \/ PutFails(w, i) \/ TombstoneFails(w, i)
      PROVE  EchoInv' /\ UploadsNews
  <2>1. /\ UNCHANGED <<log, said, store, pushed, pc, snap, merged, block>>
        /\ queue' = [queue EXCEPT ![w] = @ \ {i}]
    BY <1>2 DEF PushUnchanged, PutFails, TombstoneFails, deviceVars, pullVars
  <2> QED BY <2>1, ShorterQueue
<1>3. ASSUME UNCHANGED <<log, said, snap, queue, store, pushed>>,
             pc'[w] \in {"pull", "page", "idle"},
             \A v \in Worker \ {w} :
               pc'[v] = pc[v] /\ merged'[v] = merged[v] /\ block'[v] = block[v]
      PROVE  EchoInv' /\ UploadsNews
  BY <1>3, PullEcho
<1>4. ASSUME StartPull(w) \/ FetchPage(w) \/ PageDone(w) \/ ListFails(w)
      PROVE  EchoInv' /\ UploadsNews
  BY <1>3, <1>4
  DEF StartPull, FetchPage, PageDone, ListFails, TypeOK, deviceVars, pushVars
<1>5. ASSUME PullDone(w) \/ ManifestFails(w) \/ PageFailed(w) \/ CursorLost(w)
      PROVE  EchoInv' /\ UploadsNews
  BY <1>3, <1>5
  DEF PullDone, ManifestFails, PageFailed, CursorLost, PullReturns, TypeOK, deviceVars, pushVars
<1>6. ASSUME SaveFails(w) PROVE EchoInv' /\ UploadsNews
  BY <1>3, <1>6 DEF SaveFails, TypeOK, deviceVars, pushVars
<1>7. ASSUME NEW n \in todo[w], SkipEntry(w, n) \/ DeleteFails(w, n) \/ GetFails(w, n)
      PROVE  EchoInv' /\ UploadsNews
  BY <1>3, <1>7
  DEF SkipEntry, DeleteFails, GetFails, NextBlock, NextEntry, deviceVars, pushVars
<1>8. ASSUME NEW n \in todo[w], ApplyTombstone(w, n) \/ BlockKnown(w, n)
      PROVE  EchoInv' /\ UploadsNews
  <2>1. PICK i \in Item : i = log[n].item
    BY EntryInHand
  <2>2. /\ pc[w] = "page" /\ UNCHANGED <<log, said, pc, snap, queue, merged, block>>
        /\ \/ store' = SetRow(store, d, i, Absent) /\ pushed' = SetRow(pushed, d, i, Absent)
           \/ store' = store /\ pushed' = SetRow(pushed, d, i, store[d][i])
    <3>1. CASE ApplyTombstone(w, n)
      BY <2>1, <3>1 DEF ApplyTombstone, NextEntry, pushVars
    <3>2. CASE BlockKnown(w, n)
      BY <2>1, <3>2 DEF BlockKnown, NextBlock, NextEntry, pushVars
    <3> QED BY <1>8, <3>1, <3>2
  <2>3. \A c \in Device \ {d} : store'[c] = store[c] /\ pushed'[c] = pushed[c]
    BY <2>2 DEF SetRow, TypeOK
  <2>4. \A j \in Item : \/ /\ store'[d][j] = store[d][j]
                           /\ pushed'[d][j] \in {pushed[d][j], store[d][j]}
                        \/ store'[d][j] = Absent
    <3>1. CASE store' = store /\ pushed' = SetRow(pushed, d, i, store[d][i])
      BY <1>1, <3>1 DEF SetRow, TypeOK
    <3>2. CASE store' = SetRow(store, d, i, Absent) /\ pushed' = SetRow(pushed, d, i, Absent)
      BY <1>1, <3>2 DEF SetRow, TypeOK
    <3> QED BY <2>2, <3>1, <3>2
  <2>5. pc'[w] \in {"pull", "page", "idle"}
    BY <2>2
  <2> QED BY <2>2, <2>3, <2>4, <2>5, PullEcho
<1> QED BY <1>2, <1>4, <1>5, <1>6, <1>7, <1>8, Zenon

\* Every step keeps the invariant and uploads only news.
LEMMA EchoStep ==
  ASSUME Remembers, TypeOK, TypeOK', InLog, EchoInv, [Next]_vars
  PROVE  EchoInv' /\ UploadsNews
<1>1. LogExtends
  BY LogExtendsStep
<1>2. \A k \in {"reply", "crash", "unreadable"} : ~Fail(k)
  BY DEF Fail, Remembers
<1>3. ASSUME NEW w \in Worker, PushStep(w) \/ PullStep(w) \/ PushFault(w) \/ PullFault(w)
      PROVE  EchoInv' /\ UploadsNews
  <2>1. \A i \in Item :
          ~ListSkips(w, i) /\ ~PutReplyLost(w, i) /\ ~TombstoneReplyLost(w, i)
    BY <1>2 DEF ListSkips, PutReplyLost, TombstoneReplyLost
  <2>2. CASE PushStep(w)
    <3>1. CASE StartSync(w) \/ StartTombstones(w)
      BY <1>1, <3>1, StartSyncEcho, StartTombstonesEcho
    <3>2. ASSUME NEW i \in Item, PutBlock(w, i) \/ Tombstone(w, i)
          PROVE  EchoInv' /\ UploadsNews
      BY <1>1, <3>2, PutBlockEcho, TombstoneEcho
    <3>3. CASE StartPull(w) \/ \E i \in Item : PushUnchanged(w, i)
      BY <1>1, <3>3, PassiveEcho
    <3> QED BY <2>2, <3>1, <3>2, <3>3 DEF PushStep
  <2>3. CASE PushFault(w)
    BY <1>1, <2>1, <2>3, PassiveEcho DEF PushFault
  <2>4. CASE PullStep(w)
    BY <1>1, <2>4, MergeEcho, SaveEcho, PassiveEcho DEF PullStep
  <2>5. CASE PullFault(w)
    BY <1>1, <2>5, MergeEcho, PassiveEcho DEF PullFault
  <2> QED BY <1>3, <2>2, <2>3, <2>4, <2>5
<1>4. ASSUME NEW d \in Device, UserStep(d) \/ Restart(d)
      PROVE  EchoInv' /\ UploadsNews
  <2>1. ~Restart(d)
    BY <1>2 DEF Restart
  <2> QED BY <1>1, <1>4, <2>1, UserEcho
<1>5. CASE UNCHANGED vars
  <2>1. UNCHANGED <<log, said, store, pushed, pc, snap, queue, block, merged>>
    BY <1>5 DEF vars
  <2>2. UploadsNews /\ \A i : OnHub(i)' = OnHub(i)
    BY <2>1, HubUnchanged
  <2>3. \A d, i, m : Has(d, i, m)' <=> Has(d, i, m)
    BY <2>1 DEF Has
  <2>4. AllSaid' /\ Private'
    BY <2>1, <2>2, <2>3 DEF EchoInv, AllSaid, Private
  <2>5. ASSUME NEW d \in Device PROVE DeviceSynced(d)'
    <3>1. DeviceSynced(d)
      BY DEF EchoInv
    <3> QED BY <2>1, <2>2, <3>1
            DEF DeviceSynced, StoreSynced, WorkerSynced, SnapSynced, SnapLeft, GoneLeft
  <2> QED BY <2>2, <2>4, <2>5 DEF EchoInv
<1> QED BY <1>3, <1>4, <1>5 DEF Next

\* No push/pull ping-pong: a device that runs one Sync at a time, loses no reply and does
\* not restart uploads a session only to bring the hub a message it does not have,
\* whenever its user writes and whatever else fails.
THEOREM NoEchoTheorem == ASSUME Remembers PROVE Spec => NoEcho
<1>1. Init => TypeOK /\ InLog /\ EchoInv
  BY TypeInit, EchoInit
<1>2. TypeOK /\ InLog /\ EchoInv /\ [Next]_vars
        => (TypeOK /\ InLog /\ EchoInv)' /\ UploadsNews
  <2> SUFFICES ASSUME TypeOK, InLog, EchoInv, [Next]_vars
               PROVE  (TypeOK /\ InLog /\ EchoInv)' /\ UploadsNews
      OBVIOUS
  <2>1. TypeOK' /\ InLog'
    BY TypeStep, InLogStep
  <2> QED BY <2>1, EchoStep
<1> QED BY <1>1, <1>2, PTL DEF Spec, NoEcho, UploadsNews

=============================================================================
