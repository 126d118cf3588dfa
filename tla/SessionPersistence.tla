-------------------------- MODULE SessionPersistence --------------------------
(***************************************************************************)
(* The session file, translated from messaging/session/persistence.py and   *)
(* from the operations of messaging/session/store.py that save.             *)
(*                                                                          *)
(* The event loop changes the store and saves it: a change is written by a  *)
(* debounce timer, a cleared chat and a flush at once. A timer is a thread  *)
(* of its own, named by the save generation it was started for. The state   *)
(* of the store is a version, greater with every change ever made to it.    *)
(* A section under _timer_lock is one step. Under the lock of the store a   *)
(* change takes several; _writer_lock is held while the file is written.    *)
(***************************************************************************)
EXTENDS Naturals

CONSTANTS
    MaxVersion,   \* bound: changes of the store, hence timers
    MaxFailures,  \* bound: writes of the file that fail
    MaxCrashes    \* bound: times the process dies and starts again

ASSUME BoundsAssumption ==
    MaxVersion \in Nat /\ MaxFailures \in Nat /\ MaxCrashes \in Nat

Loop == 0                   \* the event loop
Timers == 1 .. MaxVersion   \* the timer threads
Threads == {Loop} \cup Timers
None == MaxVersion + 1      \* no thread

VARIABLES
    mem,       \* the store: _conversation and _managed_messages
    made,      \* the newest version there has been (history)
    disk,      \* the file
    dirty,     \* _dirty
    gen,       \* _save_generation
    timer,     \* _save_timer, by its generation; 0 is None
    writer,    \* who holds _writer_lock
    op,        \* what the event loop is doing to the store
    pc,        \* where each thread is
    pending,   \* the _PendingWrite of each thread
    gave_up,   \* the save of this generation has failed (history)
    promised,  \* the version that was saved when a caller was told so (history)
    failures, crashes

store == <<mem, made, dirty, op>>
saving == <<gen, timer, writer, disk>>
history == <<gave_up, promised, failures, crashes>>
vars == <<store, saving, pc, pending, history>>

-----------------------------------------------------------------------------
Go(t, where) == pc' = [pc EXCEPT ![t] = where]

\* Timer.cancel() stops a thread that still waits, not one that has woken up.
CancelTimer == [t \in Threads |->
    IF t = timer /\ pc[t] = "armed" THEN "none" ELSE pc[t]]

\* The lock of the store is reentrant, and held by the loop in save_* and
\* clear_scope from the change to the end of the call.
StoreFree(t) == t = Loop \/ op \notin {"save", "clear"}

\* The call of the loop, or the function of the timer, is over.
Leave(t) ==
    IF t = Loop THEN Go(t, "idle") /\ op' = "none" ELSE Go(t, "none") /\ UNCHANGED op

\* So it is without an exception: a flush or a clear has promised its state.
Return(t) ==
    /\ Leave(t)
    /\ promised' = IF t = Loop THEN mem ELSE promised
    /\ UNCHANGED <<gave_up, failures, crashes>>

Init ==
    /\ mem = 0 /\ made = 0 /\ disk = 0 /\ dirty = FALSE
    /\ gen = 0 /\ timer = 0 /\ writer = None /\ op = "none"
    /\ pc = [t \in Threads |-> IF t = Loop THEN "idle" ELSE "none"]
    /\ pending = [t \in Threads |-> [gen |-> 0, version |-> 0]]
    /\ gave_up = FALSE /\ promised = 0 /\ failures = 0 /\ crashes = 0

-----------------------------------------------------------------------------
(* The operations of the store, all on the event loop                       *)

\* save_tree_snapshot and the other calls that change the store and go on to
\* schedule_save, or clear_scope, which goes on to write_data.
Change(kind, next) ==
    /\ pc[Loop] = "idle" /\ made < MaxVersion
    /\ made' = made + 1 /\ mem' = made + 1
    /\ dirty' = TRUE
    /\ op' = kind /\ Go(Loop, next)
    /\ UNCHANGED <<saving, pending, history>>

Save == Change("save", "schedule")
Clear == Change("clear", "supersede")

\* Mutant: an armed timer is left to do the save.
LazySchedule ==
    /\ pc[Loop] = "schedule"
    /\ gen' = gen + 1
    /\ timer' = IF timer = 0 THEN gen + 1 ELSE timer
    /\ pc' = [pc EXCEPT ![Loop] = "idle",
                        ![gen + 1] = IF timer = 0 THEN "armed" ELSE @]
    /\ op' = "none" /\ gave_up' = FALSE
    /\ UNCHANGED <<mem, made, dirty, disk, writer, pending, promised, failures, crashes>>

\* schedule_save: a new generation, and a timer for it.
ScheduleSave ==
    /\ pc[Loop] = "schedule"
    /\ gen' = gen + 1 /\ timer' = gen + 1
    /\ pc' = [CancelTimer EXCEPT ![Loop] = "idle", ![gen + 1] = "armed"]
    /\ op' = "none" /\ gave_up' = FALSE
    /\ UNCHANGED <<mem, made, dirty, disk, writer, pending, promised, failures, crashes>>

\* Mutant: an authoritative write supersedes no pending snapshot.
MeekWriteData ==
    /\ pc[Loop] = "supersede"
    /\ timer' = 0
    /\ pending' = [pending EXCEPT ![Loop] = [gen |-> gen, version |-> mem]]
    /\ pc' = [CancelTimer EXCEPT ![Loop] = "write"]
    /\ gave_up' = FALSE
    /\ UNCHANGED <<store, gen, disk, writer, promised, failures, crashes>>

\* write_data: the state is written now, under a generation of its own.
WriteData ==
    /\ pc[Loop] = "supersede"
    /\ gen' = gen + 1 /\ timer' = 0
    /\ pending' = [pending EXCEPT ![Loop] = [gen |-> gen + 1, version |-> mem]]
    /\ pc' = [CancelTimer EXCEPT ![Loop] = "write"]
    /\ gave_up' = FALSE
    /\ UNCHANGED <<store, disk, writer, promised, failures, crashes>>

\* flush_pending_save, at the end of the workflow's close().
Flush ==
    /\ pc[Loop] = "idle"
    /\ dirty' = TRUE /\ op' = "flush" /\ Go(Loop, "claim")
    /\ UNCHANGED <<mem, made, saving, pending, history>>

-----------------------------------------------------------------------------
(* The writers: timer threads, flush and write_data                         *)

\* The debounce interval has passed.
Fire(t) ==
    /\ pc[t] = "armed" /\ Go(t, "claim")
    /\ UNCHANGED <<store, saving, pending, history>>

\* _claim_timer: a timer claims its own generation only, a flush any.
Claim(t) ==
    /\ pc[t] = "claim"
    /\ IF t # Loop /\ (t # gen \/ timer = 0)
       THEN Leave(t) /\ UNCHANGED <<mem, made, dirty, saving, pending, history>>
       ELSE /\ timer' = 0
            /\ pending' = [pending EXCEPT ![t].gen = gen]
            /\ pc' = [CancelTimer EXCEPT ![t] = "snapshot"]
            /\ UNCHANGED <<store, gen, writer, disk, history>>

\* _snapshot_for_write: the state is read after the claim, under the lock of
\* the store.
Snapshot(t) ==
    /\ pc[t] = "snapshot" /\ StoreFree(t)
    /\ pending' = [pending EXCEPT ![t].version = mem]
    /\ Go(t, "write")
    /\ UNCHANGED <<store, saving, history>>

\* Mutant: a snapshot is written whatever has been saved since.
UncheckedBeginWrite(t) ==
    /\ pc[t] = "write" /\ writer = None
    /\ writer' = t /\ Go(t, "replace")
    /\ UNCHANGED <<store, gen, timer, disk, pending, history>>

\* _write_if_current: with _writer_lock, a snapshot superseded is dropped.
BeginWrite(t) ==
    /\ pc[t] = "write" /\ writer = None
    /\ IF pending[t].gen = gen
       THEN writer' = t /\ Go(t, "replace") /\ UNCHANGED <<op, history>>
       ELSE Return(t) /\ UNCHANGED writer
    /\ UNCHANGED <<mem, made, dirty, gen, timer, disk, pending>>

\* Mutant: the store is marked clean before _writer_lock is released.
ReplaceAndMark(t) ==
    /\ pc[t] = "replace" /\ StoreFree(t)
    /\ disk' = pending[t].version
    /\ writer' = None /\ Go(t, "check")
    /\ UNCHANGED <<store, gen, timer, pending, history>>

\* _write_file: a temporary file is written and renamed, and the lock released.
Replace(t) ==
    /\ pc[t] = "replace"
    /\ disk' = pending[t].version
    /\ writer' = None /\ Go(t, "check")
    /\ UNCHANGED <<store, gen, timer, pending, history>>

\* It fails: the file is as it was.
ReplaceFails(t) ==
    /\ pc[t] = "replace" /\ failures < MaxFailures
    /\ failures' = failures + 1
    /\ gave_up' = (gave_up \/ pending[t].gen = gen)
    /\ writer' = None /\ Go(t, "failed")
    /\ UNCHANGED <<store, gen, timer, disk, pending, promised, crashes>>

\* _mark_clean_if_current: what it finds under _timer_lock ...
CheckClean(t) ==
    /\ pc[t] = "check"
    /\ IF timer = 0 /\ pending[t].gen = gen
       THEN Go(t, "clean") /\ UNCHANGED <<op, history>>
       ELSE Return(t)
    /\ UNCHANGED <<mem, made, dirty, saving, pending>>

\* ... it acts upon after releasing it.
MarkClean(t) ==
    /\ pc[t] = "clean" /\ StoreFree(t)
    /\ dirty' = FALSE /\ Return(t)
    /\ UNCHANGED <<mem, made, saving, pending>>

\* The exception: raised by a flush or a clear, logged by a timer.
MarkDirty(t) ==
    /\ pc[t] = "failed" /\ StoreFree(t)
    /\ dirty' = TRUE /\ Leave(t)
    /\ UNCHANGED <<mem, made, saving, pending, history>>

\* The process dies, at any point, and starts again: _load reads the file.
Restart ==
    /\ crashes < MaxCrashes /\ crashes' = crashes + 1
    /\ mem' = disk /\ dirty' = FALSE /\ gave_up' = FALSE
    /\ gen' = 0 /\ timer' = 0 /\ writer' = None /\ op' = "none"
    /\ pc' = [t \in Threads |-> IF t = Loop THEN "idle" ELSE "none"]
    /\ pending' = [t \in Threads |-> [gen |-> 0, version |-> 0]]
    /\ UNCHANGED <<made, disk, promised, failures>>

-----------------------------------------------------------------------------
Step(t) ==
    \/ Fire(t) \/ Claim(t) \/ Snapshot(t) \/ BeginWrite(t)
    \/ Replace(t) \/ ReplaceFails(t)
    \/ CheckClean(t) \/ MarkClean(t) \/ MarkDirty(t)

Next ==
    \/ Save \/ Clear \/ Flush \/ ScheduleSave \/ WriteData
    \/ \E t \in Threads : Step(t)
    \/ Restart

Spec == Init /\ [][Next]_vars

\* Some thread runs that can, timers fire, and the loop ends the call it is in.
\* Nobody need change the store, flush it or kill the process.
Fairness ==
    /\ WF_vars(ScheduleSave \/ WriteData)
    /\ WF_vars(\E t \in Threads : Step(t))

FairSpec == Spec /\ Fairness

-----------------------------------------------------------------------------
Where == {"armed", "claim", "snapshot", "write", "replace", "check", "clean", "failed"}

\* The types, and what the generation and the locks say of each other: a timer
\* is of the current generation, and the writer is inside its critical section.
TypeOK ==
    /\ made \in 0 .. MaxVersion /\ mem \in 0 .. made /\ disk \in 0 .. made
    /\ promised \in 0 .. made /\ gen \in 0 .. made /\ timer \in {0, gen}
    /\ dirty \in BOOLEAN /\ gave_up \in BOOLEAN
    /\ op \in {"none", "save", "clear", "flush"}
    /\ pc \in [Threads -> Where \cup {"none", "idle", "schedule", "supersede"}]
    /\ pending \in [Threads -> [gen : 0 .. gen, version : 0 .. made]]
    /\ writer \in Threads \cup {None}
    /\ \A t \in Threads : writer = t <=> pc[t] = "replace"
    /\ failures \in 0 .. MaxFailures /\ crashes \in 0 .. MaxCrashes

\* persistence.py:93, "Serialize writers and reject a snapshot superseded
\* before replace": an older state never takes the place of a newer one.
NeverGoesBack == [][disk' >= disk]_disk

\* ARCHITECTURE.md:1478: what a flush or a /clear was told to be saved is in the
\* file, and is there after a restart: no timer thread puts a cleared chat back.
PromisesKept == promised <= disk

\* Whatever the threads are at, the locks and generations fit, and so does the file.
FileIsSound == TypeOK /\ PromisesKept

\* What the store holds gets into the file: by a timer, by a writer that finds
\* its snapshot superseded only when another follows, unless a write failed.
SavedInTheEnd == <>[](disk = mem \/ gave_up)

\* The event loop waits for _writer_lock with the store locked, and comes back.
LoopReturns == (pc[Loop] # "idle") ~> (pc[Loop] = "idle")

\* No save is left undone, and none keeps the event loop.
SavesEnd == SavedInTheEnd /\ LoopReturns

\* Refuted: timer-triggered saves "leave the store dirty on failure"
\* (ARCHITECTURE.md:1481). A timer thread that has found its own write current marks the
\* store clean after the lock is released, when a later write may have failed.
FailureLeavesDirty == gave_up /\ pc[Loop] = "idle" /\ (\A t \in Timers : pc[t] = "none")
                        => dirty \/ disk = mem
=============================================================================
