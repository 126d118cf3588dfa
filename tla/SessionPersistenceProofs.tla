----------------------- MODULE SessionPersistenceProofs -----------------------
(* Theorems about SessionPersistence, for any number of changes, failures    *)
(* and crashes.                                                              *)
EXTENDS SessionPersistence, TLAPS

Places == Where \cup {"none", "idle", "schedule", "supersede"}
Writing(t) == pc[t] \in {"write", "replace"}
Current(t) == pending[t].gen = gen
Settled == pc[Loop] \notin {"schedule", "supersede"}

\* A thread is started by the generation it is named after.
Ahead == \A t \in Timers : t > gen => pc[t] = "none"

\* Between a change and its save the store is locked, and a generation is free.
Changing ==
    /\ pc[Loop] = "schedule" => op = "save"
    /\ pc[Loop] = "supersede" => op = "clear"
    /\ ~Settled => gen < made

\* Nothing is written, or about to be, that is newer than the store.
Older == disk <= mem /\ \A t \in Threads : Writing(t) => pending[t].version <= mem

\* A snapshot of the current generation is a snapshot of the store: each change
\* ends in a new generation, and the snapshot waits for that (StoreFree).
Latest == Settled =>
    \A t \in Threads : Writing(t) /\ Current(t) => pending[t].version = mem

\* Whoever may still begin to write is at least as new as whoever is writing.
InOrder == \A t, u \in Threads : pc[t] = "write" /\ Current(t) =>
    /\ pc[u] = "replace" => pending[u].version <= pending[t].version
    /\ pc[u] = "write" /\ Current(u) => pending[u].version = pending[t].version

\* What will get into the file is no older than what is there.
Growing == \A t \in Threads :
    pc[t] = "replace" \/ (pc[t] = "write" /\ Current(t)) => disk <= pending[t].version

\* While the event loop writes nobody starts a generation: there is one loop.
Mine == pc[Loop] \in {"snapshot", "write", "replace", "check", "clean"} => Current(Loop)

\* After it has written, what it promises is in the file.
Kept == pc[Loop] \in {"check", "clean"} =>
    disk = mem /\ \A u \in Threads : pc[u] = "replace" => pending[u].version = mem

\* The inductive invariant.
Inv ==
    /\ TypeOK
    /\ Ahead /\ Changing /\ Older /\ Latest /\ InOrder /\ Growing /\ Mine /\ Kept
    /\ PromisesKept

-----------------------------------------------------------------------------
(* The event loop changes the store *)

\* Cancelling the timer touches a thread that is armed, and no other.
LEMMA CancelTimerStops ==
    ASSUME TypeOK
    PROVE  /\ CancelTimer \in [Threads -> Places]
           /\ \A u \in Threads : CancelTimer[u] # pc[u] =>
                 pc[u] = "armed" /\ CancelTimer[u] = "none"
  <1>1. \A u \in Threads : pc[u] \in Places
    BY DEF TypeOK, Places
  <1>2. "none" \in Places
    BY DEF Places
  <1>3. \A u \in Threads : CancelTimer[u] = IF u = timer /\ pc[u] = "armed" THEN "none" ELSE pc[u]
    BY DEF CancelTimer
  <1>4. CancelTimer \in [Threads -> Places]
    BY <1>1, <1>2 DEF CancelTimer
  <1> QED BY <1>3, <1>4

LEMMA SaveKeeps ==
    ASSUME Inv, Save
    PROVE  Inv'
  <1> USE BoundsAssumption DEF Inv, TypeOK, Save, Change, Go, saving, history,
             Loop, Timers, Threads, None
  <1>1. TypeOK'
    BY DEF Where, Changing, Settled, Ahead
  <1>2. Ahead'
    BY DEF Ahead
  <1>3. Changing'
    BY DEF Changing, Settled
  <1>4. Older'
    BY DEF Older, Writing
  <1>5. Latest'
    BY DEF Latest, Older, Writing, Current, Settled
  <1>6. InOrder'
    BY DEF InOrder, Latest, Older, Mine, Writing, Current, Settled
  <1>7. Growing'
    BY DEF Growing, Older, Latest, Writing, Current, Settled
  <1>8. Mine'
    BY DEF Mine, Current
  <1>9. Kept'
    BY DEF Kept, Latest, Older, Mine, InOrder, Growing, Writing, Current, Settled
  <1>10. PromisesKept'
    BY DEF PromisesKept, Older, Kept
  <1> QED BY <1>1, <1>2, <1>3, <1>4, <1>5, <1>6, <1>7, <1>8, <1>9, <1>10

LEMMA ClearKeeps ==
    ASSUME Inv, Clear
    PROVE  Inv'
  <1> USE BoundsAssumption DEF Inv, TypeOK, Clear, Change, Go, saving, history,
             Loop, Timers, Threads, None
  <1>1. TypeOK'
    BY DEF Where, Changing, Settled, Ahead
  <1>2. Ahead'
    BY DEF Ahead
  <1>3. Changing'
    BY DEF Changing, Settled
  <1>4. Older'
    BY DEF Older, Writing
  <1>5. Latest'
    BY DEF Latest, Older, Writing, Current, Settled
  <1>6. InOrder'
    BY DEF InOrder, Latest, Older, Mine, Writing, Current, Settled
  <1>7. Growing'
    BY DEF Growing, Older, Latest, Writing, Current, Settled
  <1>8. Mine'
    BY DEF Mine, Current
  <1>9. Kept'
    BY DEF Kept, Latest, Older, Mine, InOrder, Growing, Writing, Current, Settled
  <1>10. PromisesKept'
    BY DEF PromisesKept, Older, Kept
  <1> QED BY <1>1, <1>2, <1>3, <1>4, <1>5, <1>6, <1>7, <1>8, <1>9, <1>10

LEMMA FlushKeeps ==
    ASSUME Inv, Flush
    PROVE  Inv'
  <1> USE BoundsAssumption DEF Inv, TypeOK, Flush, Go, saving, history,
             Loop, Timers, Threads, None
  <1>1. TypeOK'
    BY DEF Where, Changing, Settled, Ahead
  <1>2. Ahead'
    BY DEF Ahead
  <1>3. Changing'
    BY DEF Changing, Settled
  <1>4. Older'
    BY DEF Older, Writing
  <1>5. Latest'
    BY DEF Latest, Older, Writing, Current, Settled
  <1>6. InOrder'
    BY DEF InOrder, Latest, Older, Mine, Writing, Current, Settled
  <1>7. Growing'
    BY DEF Growing, Older, Latest, Writing, Current, Settled
  <1>8. Mine'
    BY DEF Mine, Current
  <1>9. Kept'
    BY DEF Kept, Latest, Older, Mine, InOrder, Growing, Writing, Current, Settled
  <1>10. PromisesKept'
    BY DEF PromisesKept, Older, Kept
  <1> QED BY <1>1, <1>2, <1>3, <1>4, <1>5, <1>6, <1>7, <1>8, <1>9, <1>10

LEMMA ScheduleSaveKeeps ==
    ASSUME Inv, ScheduleSave
    PROVE  Inv'
  <1> USE DEF Inv
  <1>1. gen' = gen + 1 /\ gen + 1 \in Timers /\ gen + 1 \in 0 .. made
    BY BoundsAssumption DEF ScheduleSave, Changing, Settled, TypeOK, Timers
  <1>2. \A u \in Threads : pc'[u] = IF u = gen + 1 THEN "armed" ELSE
            IF u = Loop THEN "idle" ELSE CancelTimer[u]
    BY <1>1, CancelTimerStops DEF ScheduleSave, Threads, Timers, Loop
  <1>3. \A u \in Threads : (pc'[u] = "write" => pc[u] = "write")
                        /\ (pc'[u] = "replace" <=> pc[u] = "replace")
    <2>1. pc[Loop] = "schedule" /\ pc[gen + 1] = "none"
      BY <1>1 DEF ScheduleSave, Ahead, TypeOK
    <2> QED BY <1>1, <1>2, <2>1, CancelTimerStops DEF Threads, Timers, Loop
  <1>4. \A u \in Threads : ~Current(u)'
    BY <1>1 DEF ScheduleSave, TypeOK, Current
  <1>5. TypeOK'
    <2>1. pc' \in [Threads -> Places]
      BY <1>1 DEF ScheduleSave, TypeOK, CancelTimer, Where, Places
    <2>2. pending' \in [Threads -> [gen : 0 .. gen', version : 0 .. made']]
      BY <1>1 DEF ScheduleSave, TypeOK
    <2> QED BY <1>1, <1>3, <2>1, <2>2 DEF ScheduleSave, TypeOK, Places
  <1>6. Ahead'
    <2> SUFFICES ASSUME NEW u \in Timers, u > gen + 1
                 PROVE  pc'[u] = "none"
      BY <1>1 DEF Ahead
    <2>1. u # gen + 1 /\ u # Loop /\ u > gen /\ u \in Threads
      BY DEF Timers, Loop, Threads, TypeOK
    <2>2. pc[u] = "none"
      BY <2>1 DEF Ahead
    <2> QED BY <1>2, <2>1, <2>2, CancelTimerStops
  <1>7. Changing' /\ Mine' /\ Kept'
    BY <1>1, <1>2 DEF Changing, Mine, Kept, Settled, Loop, Threads, Timers, TypeOK
  <1>8. Older'
    BY <1>3 DEF ScheduleSave, Older, Writing
  <1>9. Latest' /\ InOrder'
    BY <1>4 DEF Latest, InOrder
  <1>10. Growing'
    BY <1>3, <1>4 DEF ScheduleSave, Growing
  <1>11. PromisesKept'
    BY DEF ScheduleSave, PromisesKept
  <1> QED BY <1>5, <1>6, <1>7, <1>8, <1>9, <1>10, <1>11

LEMMA WriteDataKeeps ==
    ASSUME Inv, WriteData
    PROVE  Inv'
  <1> USE BoundsAssumption DEF Inv, TypeOK, WriteData, store,
             Loop, Timers, Threads, None
  <1>1. TypeOK'
    <2>1. gen' = gen + 1 /\ gen' \in 0 .. made'
      BY BoundsAssumption DEF Changing, Settled
    <2>2. pc' \in [Threads -> Places]
      BY CancelTimerStops DEF Places, Where
    <2>3. pending' \in [Threads -> [gen : 0 .. gen', version : 0 .. made']]
      BY <2>1
    <2>4. \A u \in Threads : writer' = u <=> pc'[u] = "replace"
      BY CancelTimerStops
    <2> QED BY <2>1, <2>2, <2>3, <2>4 DEF Places
  <1>2. Ahead'
    BY DEF Ahead, CancelTimer
  <1>3. Changing'
    BY DEF Changing, Settled, CancelTimer
  <1>4. Older'
    BY DEF Older, Writing, CancelTimer
  <1>5. Latest'
    BY DEF Latest, Older, Writing, Current, Settled, CancelTimer
  <1>6. InOrder'
    BY DEF InOrder, Latest, Older, Mine, Writing, Current, Settled, CancelTimer
  <1>7. Growing'
    BY DEF Growing, Older, Latest, Writing, Current, Settled, CancelTimer
  <1>8. Mine'
    BY DEF Mine, Current, CancelTimer
  <1>9. Kept'
    BY DEF Kept, Latest, Older, Mine, InOrder, Growing, Writing, Current, Settled, CancelTimer
  <1>10. PromisesKept'
    BY DEF PromisesKept, Older, Kept, CancelTimer
  <1> QED BY <1>1, <1>2, <1>3, <1>4, <1>5, <1>6, <1>7, <1>8, <1>9, <1>10

-----------------------------------------------------------------------------
(* The writers *)

LEMMA FireKeeps ==
    ASSUME Inv, NEW t \in Threads, Fire(t)
    PROVE  Inv'
  <1> USE BoundsAssumption DEF Inv, TypeOK, Fire, Go, store, saving, history,
             Loop, Timers, Threads, None
  <1>1. TypeOK'
    BY DEF Where, Changing, Settled, Ahead
  <1>2. Ahead'
    BY DEF Ahead
  <1>3. Changing'
    BY DEF Changing, Settled
  <1>4. Older'
    BY DEF Older, Writing
  <1>5. Latest'
    BY DEF Latest, Older, Writing, Current, Settled
  <1>6. InOrder'
    BY DEF InOrder, Latest, Older, Mine, Writing, Current, Settled
  <1>7. Growing'
    BY DEF Growing, Older, Latest, Writing, Current, Settled
  <1>8. Mine'
    BY DEF Mine, Current
  <1>9. Kept'
    BY DEF Kept, Latest, Older, Mine, InOrder, Growing, Writing, Current, Settled
  <1>10. PromisesKept'
    BY DEF PromisesKept, Older, Kept
  <1> QED BY <1>1, <1>2, <1>3, <1>4, <1>5, <1>6, <1>7, <1>8, <1>9, <1>10

LEMMA ClaimKeeps ==
    ASSUME Inv, NEW t \in Threads, Claim(t)
    PROVE  Inv'
  <1> USE DEF Inv
  <1>1. CASE t # Loop /\ (t # gen \/ timer = 0)
    <2> USE <1>1 DEF Claim, Leave, Go, saving, history
    <2>1. TypeOK'
      BY DEF TypeOK
    <2>2. Ahead' /\ Changing' /\ Mine'
      BY DEF TypeOK, Ahead, Changing, Settled, Mine, Current, Loop, Threads, Timers
    <2>3. Older' /\ Latest'
      BY DEF TypeOK, Older, Latest, Writing, Current, Settled, Loop, Threads
    <2>4. InOrder' /\ Growing'
      BY DEF TypeOK, InOrder, Growing, Current
    <2>5. Kept' /\ PromisesKept'
      BY DEF TypeOK, Kept, PromisesKept, Loop, Threads
    <2> QED BY <2>1, <2>2, <2>3, <2>4, <2>5
  <1> DEFINE Fixed == {"write", "replace", "check", "clean", "schedule", "supersede"}
  <1>2. CASE ~(t # Loop /\ (t # gen \/ timer = 0))
    <2>1. \A u \in Threads : pc'[u] = IF u = t THEN "snapshot" ELSE CancelTimer[u]
      BY <1>2 DEF Claim, TypeOK, CancelTimer
    <2>2. \A u \in Threads : /\ u # t => pending'[u] = pending[u]
                             /\ pending'[u].version = pending[u].version
                             /\ Current(u) => Current(u)'
                             /\ pc'[u] \in Fixed => pc'[u] = pc[u] /\ u # t
                             /\ pc[u] \in Fixed => pc'[u] = pc[u]
      BY <1>2, <2>1 DEF Claim, TypeOK, CancelTimer, Current
    <2>3. TypeOK'
      <3>1. pc' \in [Threads -> Places]
        BY <1>2 DEF Claim, TypeOK, CancelTimer, Where, Places
      <3>2. pending' \in [Threads -> [gen : 0 .. gen', version : 0 .. made']]
        BY <1>2 DEF Claim, TypeOK, store
      <3>3. \A u \in Threads : writer' = u <=> pc'[u] = "replace"
        BY <1>2, <2>2 DEF Claim, TypeOK
      <3> QED BY <1>2, <3>1, <3>2, <3>3 DEF Claim, TypeOK, history, store, Places
    <2>4. Ahead'
      BY <1>2, <2>1 DEF Claim, Ahead, CancelTimer, TypeOK, Timers, Threads, Loop
    <2>5. Changing' /\ Mine'
      BY ZenonT(60), <1>2, <2>1 DEF Claim, Changing, Mine, Settled, Current, CancelTimer, TypeOK,
          Threads, Loop, store
    <2>6. Older'
      BY <1>2, <2>2 DEF Claim, Older, Writing, store
    <2>7. Latest'
      BY <1>2, <2>2 DEF Claim, Latest, Writing, Current, Settled, Loop, Threads, store
    <2>8. InOrder' /\ Growing'
      BY <1>2, <2>2 DEF Claim, InOrder, Growing, Current
    <2>9. Kept' /\ PromisesKept'
      BY <1>2, <2>2 DEF Claim, Kept, PromisesKept, Loop, Threads, store, history
    <2> QED BY <2>3, <2>4, <2>5, <2>6, <2>7, <2>8, <2>9
  <1> QED BY <1>1, <1>2

LEMMA SnapshotKeeps ==
    ASSUME Inv, NEW t \in Threads, Snapshot(t)
    PROVE  Inv'
  <1> USE BoundsAssumption DEF Inv, TypeOK, Snapshot, Go, store, saving, history,
             Loop, Timers, Threads, None
  <1>1. TypeOK'
    BY DEF Where, Changing, Settled, Ahead
  <1>2. Ahead'
    BY DEF Ahead
  <1>3. Changing'
    BY DEF Changing, Settled
  <1>4. Older'
    BY DEF Older, Writing
  <1>5. Latest'
    BY DEF Latest, Older, Writing, Current, Settled
  <1>6. InOrder'
    BY DEF InOrder, Latest, Older, Changing, StoreFree, Writing, Current, Settled
  <1>7. Growing'
    BY DEF Growing, Older, Latest, Writing, Current, Settled
  <1>8. Mine'
    BY DEF Mine, Current
  <1>9. Kept'
    BY DEF Kept, Latest, Older, Mine, InOrder, Growing, Writing, Current, Settled
  <1>10. PromisesKept'
    BY DEF PromisesKept, Older, Kept
  <1> QED BY <1>1, <1>2, <1>3, <1>4, <1>5, <1>6, <1>7, <1>8, <1>9, <1>10

LEMMA BeginWriteKeeps ==
    ASSUME Inv, NEW t \in Threads, BeginWrite(t)
    PROVE  Inv'
  <1> USE DEF Inv
  <1>1. CASE pending[t].gen = gen
    <2> USE <1>1 DEF BeginWrite, Go, history
    <2>0. \A u \in Threads : pc[u] # "replace"
      BY BoundsAssumption DEF TypeOK, None, Threads, Timers, Loop
    <2>1. TypeOK'
      <3>1. pc' \in [Threads -> Places]
        BY DEF TypeOK, Where, Places
      <3>2. \A u \in Threads : writer' = u <=> pc'[u] = "replace"
        BY <2>0 DEF TypeOK
      <3> QED BY <3>1, <3>2 DEF TypeOK, Places
    <2>2. Ahead' /\ Changing' /\ Mine'
      BY DEF TypeOK, Ahead, Changing, Settled, Mine, Current, Loop, Threads, Timers
    <2>3. Older' /\ Latest'
      BY DEF TypeOK, Older, Latest, Writing, Current, Settled, Loop, Threads
    <2>4. InOrder'
      BY <2>0 DEF TypeOK, InOrder, Current
    <2>5. Growing'
      BY DEF TypeOK, Growing, Current
    <2>6. Kept' /\ PromisesKept'
      BY DEF TypeOK, Kept, PromisesKept, Latest, Writing, Current, Settled, Loop, Threads
    <2> QED BY <2>1, <2>2, <2>3, <2>4, <2>5, <2>6
  <1>2. CASE pending[t].gen # gen
    <2> USE <1>2 DEF BeginWrite, Return, Leave, Go
    <2>1. TypeOK'
      BY DEF TypeOK
    <2>2. Ahead' /\ Changing' /\ Mine'
      BY DEF TypeOK, Ahead, Changing, Settled, Mine, Current, Loop, Threads, Timers
    <2>3. Older' /\ Latest'
      BY DEF TypeOK, Older, Latest, Writing, Current, Settled, Loop, Threads
    <2>4. InOrder' /\ Growing'
      BY DEF TypeOK, InOrder, Growing, Current
    <2>5. Kept' /\ PromisesKept'
      BY DEF TypeOK, Kept, PromisesKept, Mine, Current, Loop, Threads
    <2> QED BY <2>1, <2>2, <2>3, <2>4, <2>5
  <1> QED BY <1>1, <1>2

LEMMA ReplaceKeeps ==
    ASSUME Inv, NEW t \in Threads, Replace(t)
    PROVE  Inv'
  <1> USE BoundsAssumption DEF Inv, TypeOK, Replace, Go, store, history,
             Loop, Timers, Threads, None
  <1>1. TypeOK'
    BY DEF Where, Changing, Settled, Ahead
  <1>2. Ahead'
    BY DEF Ahead
  <1>3. Changing'
    BY DEF Changing, Settled
  <1>4. Older'
    BY DEF Older, Writing
  <1>5. Latest'
    BY DEF Latest, Older, Writing, Current, Settled
  <1>6. InOrder'
    BY DEF InOrder, Latest, Older, Mine, Writing, Current, Settled
  <1>7. Growing'
    BY DEF Growing, InOrder, Current
  <1>8. Mine'
    BY DEF Mine, Current
  <1>9. Kept'
    BY DEF Kept, Latest, Older, Mine, InOrder, Growing, Writing, Current, Settled
  <1>10. PromisesKept'
    BY DEF PromisesKept, Growing
  <1> QED BY <1>1, <1>2, <1>3, <1>4, <1>5, <1>6, <1>7, <1>8, <1>9, <1>10

LEMMA ReplaceFailsKeeps ==
    ASSUME Inv, NEW t \in Threads, ReplaceFails(t)
    PROVE  Inv'
  <1> USE BoundsAssumption DEF Inv, TypeOK, ReplaceFails, Go, store,
             Loop, Timers, Threads, None
  <1>1. TypeOK'
    BY DEF Where, Changing, Settled, Ahead
  <1>2. Ahead'
    BY DEF Ahead
  <1>3. Changing'
    BY DEF Changing, Settled
  <1>4. Older'
    BY DEF Older, Writing
  <1>5. Latest'
    BY DEF Latest, Older, Writing, Current, Settled
  <1>6. InOrder'
    BY DEF InOrder, Latest, Older, Mine, Writing, Current, Settled
  <1>7. Growing'
    BY DEF Growing, Older, Latest, Writing, Current, Settled
  <1>8. Mine'
    BY DEF Mine, Current
  <1>9. Kept'
    BY DEF Kept, Latest, Older, Mine, InOrder, Growing, Writing, Current, Settled
  <1>10. PromisesKept'
    BY DEF PromisesKept, Older, Kept
  <1> QED BY <1>1, <1>2, <1>3, <1>4, <1>5, <1>6, <1>7, <1>8, <1>9, <1>10

LEMMA CheckCleanKeeps ==
    ASSUME Inv, NEW t \in Threads, CheckClean(t)
    PROVE  Inv'
  <1> USE BoundsAssumption DEF Inv, TypeOK, CheckClean, Go, Return, Leave, saving, history,
             Loop, Timers, Threads, None
  <1>1. TypeOK'
    BY ZenonT(60)  DEF Where, Changing, Settled, Ahead
  <1>2. Ahead'
    BY DEF Ahead
  <1>3. Changing'
    BY DEF Changing, Settled
  <1>4. Older'
    BY DEF Older, Writing
  <1>5. Latest'
    BY DEF Latest, Older, Writing, Current, Settled
  <1>6. InOrder'
    BY ZenonT(60)  DEF InOrder, Latest, Older, Mine, Writing, Current, Settled
  <1>7. Growing'
    BY DEF Growing, Older, Latest, Writing, Current, Settled
  <1>8. Mine'
    BY DEF Mine, Current
  <1>9. Kept'
    BY DEF Kept, Latest, Older, Mine, InOrder, Growing, Writing, Current, Settled
  <1>10. PromisesKept'
    BY DEF PromisesKept, Older, Kept
  <1> QED BY <1>1, <1>2, <1>3, <1>4, <1>5, <1>6, <1>7, <1>8, <1>9, <1>10

LEMMA MarkCleanKeeps ==
    ASSUME Inv, NEW t \in Threads, MarkClean(t)
    PROVE  Inv'
  <1> USE BoundsAssumption DEF Inv, TypeOK, MarkClean, Go, Return, Leave, saving,
             Loop, Timers, Threads, None
  <1>1. TypeOK'
    BY DEF Where, Changing, Settled, Ahead
  <1>2. Ahead'
    BY DEF Ahead
  <1>3. Changing'
    BY DEF Changing, Settled
  <1>4. Older'
    BY DEF Older, Writing
  <1>5. Latest'
    BY DEF Latest, Older, Writing, Current, Settled
  <1>6. InOrder'
    BY ZenonT(60)  DEF InOrder, Latest, Older, Mine, Writing, Current, Settled
  <1>7. Growing'
    BY DEF Growing, Older, Latest, Writing, Current, Settled
  <1>8. Mine'
    BY DEF Mine, Current
  <1>9. Kept'
    BY DEF Kept, Latest, Older, Mine, InOrder, Growing, Writing, Current, Settled
  <1>10. PromisesKept'
    BY DEF PromisesKept, Older, Kept
  <1> QED BY <1>1, <1>2, <1>3, <1>4, <1>5, <1>6, <1>7, <1>8, <1>9, <1>10

LEMMA MarkDirtyKeeps ==
    ASSUME Inv, NEW t \in Threads, MarkDirty(t)
    PROVE  Inv'
  <1> USE BoundsAssumption DEF Inv, TypeOK, MarkDirty, Leave, Go, saving, history,
             Loop, Timers, Threads, None
  <1>1. TypeOK'
    BY DEF Where, Changing, Settled, Ahead
  <1>2. Ahead'
    BY DEF Ahead
  <1>3. Changing'
    BY DEF Changing, Settled
  <1>4. Older'
    BY DEF Older, Writing
  <1>5. Latest'
    BY DEF Latest, Older, Writing, Current, Settled
  <1>6. InOrder'
    BY ZenonT(60)  DEF InOrder, Latest, Older, Mine, Writing, Current, Settled
  <1>7. Growing'
    BY DEF Growing, Older, Latest, Writing, Current, Settled
  <1>8. Mine'
    BY DEF Mine, Current
  <1>9. Kept'
    BY DEF Kept, Latest, Older, Mine, InOrder, Growing, Writing, Current, Settled
  <1>10. PromisesKept'
    BY DEF PromisesKept, Older, Kept
  <1> QED BY <1>1, <1>2, <1>3, <1>4, <1>5, <1>6, <1>7, <1>8, <1>9, <1>10

-----------------------------------------------------------------------------
(* The process dies *)

LEMMA RestartKeeps ==
    ASSUME Inv, Restart
    PROVE  Inv'
  <1> USE BoundsAssumption DEF Inv, TypeOK, Restart,
             Loop, Timers, Threads, None
  <1>1. TypeOK'
    <2>1. pc' \in [Threads -> Places]
      BY DEF Places, Where
    <2>2. pending' \in [Threads -> [gen : 0 .. gen', version : 0 .. made']]
      OBVIOUS
    <2>3. \A u \in Threads : writer' = u <=> pc'[u] = "replace"
      BY BoundsAssumption
    <2>4. crashes' \in 0 .. MaxCrashes
      BY BoundsAssumption
    <2> QED BY <2>1, <2>2, <2>3, <2>4 DEF Places
  <1>2. Ahead'
    BY DEF Ahead
  <1>3. Changing'
    BY DEF Changing, Settled
  <1>4. Older'
    BY DEF Older, Writing
  <1>5. Latest'
    BY DEF Latest, Older, Writing, Current, Settled
  <1>6. InOrder'
    BY DEF InOrder, Latest, Older, Mine, Writing, Current, Settled
  <1>7. Growing'
    BY DEF Growing, Older, Latest, Writing, Current, Settled
  <1>8. Mine'
    BY DEF Mine, Current
  <1>9. Kept'
    BY DEF Kept, Latest, Older, Mine, InOrder, Growing, Writing, Current, Settled
  <1>10. PromisesKept'
    BY DEF PromisesKept, Older, Kept
  <1> QED BY <1>1, <1>2, <1>3, <1>4, <1>5, <1>6, <1>7, <1>8, <1>9, <1>10

-----------------------------------------------------------------------------
(* The theorems *)

LEMMA InitInv == Init => Inv
  <1> SUFFICES ASSUME Init PROVE Inv
    OBVIOUS
  <1>1. /\ mem = 0 /\ made = 0 /\ disk = 0 /\ gen = 0 /\ timer = 0 /\ promised = 0
        /\ failures = 0 /\ crashes = 0 /\ dirty = FALSE /\ gave_up = FALSE
        /\ op = "none" /\ writer = None
    BY DEF Init
  <1>2. /\ pc \in [Threads -> {"idle", "none"}]
        /\ pc[Loop] = "idle" /\ \A t \in Timers : pc[t] = "none"
    <2>1. Loop \in Threads /\ \A t \in Timers : t # Loop /\ t \in Threads
      BY DEF Threads, Timers, Loop
    <2> QED BY <2>1 DEF Init
  <1>3. pending \in [Threads -> [gen : {0}, version : {0}]]
    BY DEF Init
  <1>4. \A t \in Threads : ~Writing(t) /\ pc[t] # "replace" /\ writer # t
    BY <1>1, <1>2, BoundsAssumption DEF Writing, Threads, Timers, Loop, None
  <1>5. TypeOK
    <2>1. pc \in [Threads -> Places]
      BY <1>2 DEF Places
    <2>2. pending \in [Threads -> [gen : 0 .. gen, version : 0 .. made]]
      BY <1>1, <1>3
    <2>3. writer \in Threads \cup {None} /\ \A t \in Threads : writer = t <=> pc[t] = "replace"
      BY <1>1, <1>4
    <2>4. /\ made \in 0 .. MaxVersion /\ mem \in 0 .. made /\ disk \in 0 .. made
          /\ promised \in 0 .. made /\ gen \in 0 .. made /\ timer \in {0, gen}
          /\ failures \in 0 .. MaxFailures /\ crashes \in 0 .. MaxCrashes
      BY <1>1, BoundsAssumption
    <2> QED BY <1>1, <2>1, <2>2, <2>3, <2>4 DEF TypeOK, Places
  <1>6. Ahead /\ Changing /\ Mine /\ Kept
    BY <1>2 DEF Ahead, Changing, Settled, Mine, Kept
  <1>7. Older /\ Latest /\ InOrder /\ Growing /\ PromisesKept
    BY <1>1, <1>4 DEF Older, Latest, InOrder, Growing, PromisesKept, Writing
  <1> QED BY <1>5, <1>6, <1>7 DEF Inv

LEMMA NextInv == Inv /\ [Next]_vars => Inv'
  <1> SUFFICES ASSUME Inv, [Next]_vars PROVE Inv'
    OBVIOUS
  <1>1. CASE Save
    BY <1>1, SaveKeeps
  <1>2. CASE Clear
    BY <1>2, ClearKeeps
  <1>3. CASE Flush
    BY <1>3, FlushKeeps
  <1>4. CASE ScheduleSave
    BY <1>4, ScheduleSaveKeeps
  <1>5. CASE WriteData
    BY <1>5, WriteDataKeeps
  <1>6. ASSUME NEW t \in Threads, Step(t) PROVE Inv'
    BY <1>6, FireKeeps, ClaimKeeps, SnapshotKeeps, BeginWriteKeeps, ReplaceKeeps,
       ReplaceFailsKeeps, CheckCleanKeeps, MarkCleanKeeps, MarkDirtyKeeps DEF Step
  <1>7. CASE Restart
    BY <1>7, RestartKeeps
  <1>8. CASE UNCHANGED vars
    BY <1>8 DEF vars, store, saving, history, Inv, TypeOK, Ahead, Changing, Older, Latest,
        InOrder, Growing, Mine, Kept, PromisesKept, Writing, Current, Settled
  <1> QED BY <1>1, <1>2, <1>3, <1>4, <1>5, <1>6, <1>7, <1>8 DEF Next

LEMMA InvCorrect == Spec => []Inv
  <1> QED BY InitInv, NextInv, PTL DEF Spec

\* However the threads overlap, fail and die: generations and locks fit
\* together, and what a flush or a /clear was told to be saved is in the file.
THEOREM FileIsSoundCorrect == Spec => []FileIsSound
  <1>1. Inv => FileIsSound
    BY DEF Inv, FileIsSound
  <1> QED BY <1>1, InvCorrect, PTL

\* _write_if_current (persistence.py:93): no step of anyone puts an older state
\* in the place of a newer one.
THEOREM NeverGoesBackCorrect == Spec => NeverGoesBack
  <1>1. Inv /\ [Next]_vars => [disk' >= disk]_disk
    <2> SUFFICES ASSUME Inv, [Next]_vars, disk' # disk PROVE disk' >= disk
      OBVIOUS
    <2>1. PICK t \in Threads : Replace(t)
      BY DEF Next, Step, vars, Save, Clear, Flush, Change, ScheduleSave, WriteData, Fire, Claim,
          Snapshot, BeginWrite, ReplaceFails, CheckClean, MarkClean, MarkDirty, Restart, saving
    <2>2. disk <= pending[t].version /\ disk' = pending[t].version
      BY <2>1 DEF Inv, Growing, Replace
    <2> QED BY <2>2 DEF Inv, TypeOK
  <1> QED BY <1>1, InvCorrect, PTL DEF Spec, NeverGoesBack
===============================================================================
