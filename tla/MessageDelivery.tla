--------------------------- MODULE MessageDelivery ---------------------------
(***************************************************************************)
(* The queue of outgoing messages, translated from messaging/limiter.py.    *)
(*                                                                          *)
(* Each update of a platform message has the key of that message, and they  *)
(* are numbered in the order in which enqueue() and fire_and_forget() are   *)
(* called. enqueue() puts its update in the queue before it first waits;    *)
(* fire_and_forget() leaves that to a task, which runs later, so that an    *)
(* update that is awaited can overtake it, and which tries again after a    *)
(* failure that may pass. One worker takes entries one at a time. A section *)
(* under _condition never waits: it is one step.                            *)
(***************************************************************************)
EXTENDS Naturals, Sequences

CONSTANTS
    Keys,        \* messages that get updated
    MaxUpdates,  \* bound: updates asked for
    MaxFaults    \* bound: platform operations that fail

ASSUME BoundsAssumption == MaxUpdates \in Nat /\ MaxFaults \in Nat

Updates == 1 .. MaxUpdates
MaxRetries == 2  \* max_retries of fire_and_forget

VARIABLES
    key,       \* per update, the message
    future,    \* per update, its future
    attempt,   \* per update, the attempts its background task has left behind
    queue,     \* _queue_list
    entry,     \* _queue_map: per key in queue, the function and the futures
    worker,    \* where the worker is
    job,       \* the entry it has taken, whose futures are _active_futures
    paused,    \* _paused_until is in the future
    closed,    \* _closed and _shutdown
    shutting,  \* where shutdown() is
    shown,     \* external: per message, the update the platform shows
    asked,     \* updates asked for
    overtook,  \* history: per update, earlier ones of its key it went before
    faults     \* operations that have failed

requests == <<key, asked, overtook>>
queued == <<queue, entry>>
vars == <<requests, future, attempt, queued, worker, job, paused, closed, shutting, shown, faults>>

-----------------------------------------------------------------------------
Idle == [func |-> 0, futures |-> {}]
Awaited == {"pending", "background"}  \* futures not done: of a caller, of a task
Scheduled == {u \in Updates : future[u] = "scheduled"}  \* their tasks have yet to run
InQueue(k) == \E i \in DOMAIN queue : queue[i] = k

\* Futures that are done stay as they are.
Settle(us, how) == future' = [u \in Updates |->
    IF u \in us /\ future[u] \in Awaited THEN how ELSE future[u]]

\* Mutant: an entry keeps the function it has.
EnqueueFuture(u, k) ==
    IF InQueue(k)
    THEN /\ entry' = [entry EXCEPT ![k].futures = @ \cup {u}]
         /\ UNCHANGED queue
    ELSE /\ entry' = [entry EXCEPT ![k] = [func |-> u, futures |-> {u}]]
         /\ queue' = Append(queue, k)

\* _enqueue_internal_multi: an entry of the same key gets the new function and
\* one more future; else there is a new entry.
Enqueue(u, k) ==
    IF InQueue(k)
    THEN /\ entry' = [entry EXCEPT ![k] = [func |-> u, futures |-> @.futures \cup {u}]]
         /\ UNCHANGED queue
    ELSE /\ entry' = [entry EXCEPT ![k] = [func |-> u, futures |-> {u}]]
         /\ queue' = Append(queue, k)

Init ==
    /\ key \in [Updates -> Keys] /\ asked = 0
    /\ overtook = [u \in Updates |-> {}]
    /\ future = [u \in Updates |-> "none"]
    /\ attempt = [u \in Updates |-> 0]
    /\ queue = <<>> /\ entry = [k \in Keys |-> Idle]
    /\ worker = "waiting" /\ job = Idle
    /\ paused = FALSE /\ closed = FALSE /\ shutting = "no"
    /\ shown = [k \in Keys |-> 0] /\ faults = 0

-----------------------------------------------------------------------------
(* Callers                                                                  *)

\* enqueue() by a caller that awaits: the next update is queued at once, before
\* those whose tasks have yet to run.
Ask ==
    /\ ~closed /\ asked < MaxUpdates
    /\ asked' = asked + 1
    /\ future' = [future EXCEPT ![asked + 1] = "pending"]
    /\ overtook' = [overtook EXCEPT ![asked + 1] = {u \in Scheduled : key[u] = key[asked + 1]}]
    /\ Enqueue(asked + 1, key[asked + 1])
    /\ UNCHANGED <<key, attempt, worker, job, paused, closed, shutting, shown, faults>>

\* fire_and_forget() only creates the task of the next update.
FireAndForget ==
    /\ ~closed /\ asked < MaxUpdates
    /\ asked' = asked + 1
    /\ future' = [future EXCEPT ![asked + 1] = "scheduled"]
    /\ UNCHANGED <<key, overtook, attempt, queued, worker, job, paused, closed, shutting, shown,
                   faults>>

\* The caller goes away: its future is cancelled, its function stays queued.
CallerLeaves(u) ==
    /\ future[u] = "pending" /\ Settle({u}, "cancelled")
    /\ UNCHANGED <<requests, attempt, queued, worker, job, paused, closed, shutting, shown, faults>>

\* A background task has slept, or runs for the first time: the event loop runs
\* tasks in the order in which they were created.
Wakes(u) ==
    \/ future[u] = "backoff"
    \/ u \in Scheduled /\ \A v \in Scheduled : u <= v

\* It calls enqueue(), like any caller, ...
TaskEnqueues(u) ==
    /\ Wakes(u) /\ ~closed
    /\ future' = [future EXCEPT ![u] = "background"]
    /\ Enqueue(u, key[u])
    /\ UNCHANGED <<requests, attempt, worker, job, paused, closed, shutting, shown, faults>>

\* ... which refuses when the limiter is closed: that error is final.
TaskRefused(u) ==
    /\ Wakes(u) /\ closed
    /\ future' = [future EXCEPT ![u] = "failed"]
    /\ UNCHANGED <<requests, attempt, queued, worker, job, paused, closed, shutting, shown, faults>>

-----------------------------------------------------------------------------
(* The worker                                                               *)

\* The first entry leaves the queue: what is asked for later gets its own.
Take ==
    /\ worker = "waiting" /\ queue # <<>> /\ ~closed
    /\ queue' = Tail(queue)
    /\ entry' = [entry EXCEPT ![Head(queue)] = Idle]
    /\ job' = entry[Head(queue)]
    /\ worker' = "admission"
    /\ UNCHANGED <<requests, future, attempt, paused, closed, shutting, shown, faults>>

\* A pause (FloodWait) is slept through, the rate limit admits the operation.
Admit ==
    /\ worker = "admission"
    /\ paused' = FALSE /\ worker' = "sending"
    /\ UNCHANGED <<requests, future, attempt, queued, job, closed, shutting, shown, faults>>

\* The end of `async with self.limiter`: _active_futures is empty again.
Finish(us, how) ==
    /\ worker = "sending" /\ worker' = "waiting" /\ job' = Idle
    /\ Settle(us, how)
    /\ UNCHANGED <<requests, queued, closed, shutting>>

\* Mutant: only the future of the update that was sent is resolved.
DeliverOne ==
    /\ Finish({job.func}, "ok")
    /\ shown' = [shown EXCEPT ![key[job.func]] = job.func]
    /\ UNCHANGED <<attempt, paused, faults>>

Deliver ==
    /\ Finish(job.futures, "ok")
    /\ shown' = [shown EXCEPT ![key[job.func]] = job.func]
    /\ UNCHANGED <<attempt, paused, faults>>

Fault == faults < MaxFaults /\ faults' = faults + 1

\* The operation is cancelled, not the worker.
OperationCancelled ==
    /\ Fault /\ Finish(job.futures, "cancelled")
    /\ UNCHANGED <<attempt, paused, shown>>

\* It fails for good; a flood error pauses the worker.
OperationFails ==
    /\ Fault /\ Finish(job.futures, "failed")
    /\ paused' \in BOOLEAN
    /\ UNCHANGED <<attempt, shown>>

\* It fails in a way that may pass, and the platform may have got the update
\* all the same. Background tasks with attempts left will try again.
ConnectionFails ==
    /\ Fault
    /\ worker = "sending" /\ worker' = "waiting" /\ job' = Idle
    /\ LET again == {u \in job.futures : future[u] = "background" /\ attempt[u] < MaxRetries}
       IN /\ future' = [u \in Updates |->
                IF u \in again THEN "backoff"
                ELSE IF u \in job.futures /\ future[u] \in Awaited THEN "failed" ELSE future[u]]
          /\ attempt' = [u \in Updates |-> IF u \in again THEN attempt[u] + 1 ELSE attempt[u]]
    /\ shown' \in {shown, [shown EXCEPT ![key[job.func]] = job.func]}
    /\ UNCHANGED <<requests, queued, paused, closed, shutting>>

\* The worker is cancelled, wherever it awaits: an operation it was in may have
\* reached the platform.
WorkerStops ==
    /\ shutting # "no" /\ worker \in {"waiting", "admission", "sending"}
    /\ worker' = "done" /\ job' = Idle
    /\ Settle(job.futures, "cancelled")
    /\ shown' \in IF worker = "sending"
                  THEN {shown, [shown EXCEPT ![key[job.func]] = job.func]} ELSE {shown}
    /\ UNCHANGED <<requests, attempt, queued, paused, closed, shutting, faults>>

-----------------------------------------------------------------------------
(* shutdown()                                                               *)

AllQueued == UNION {entry[k].futures : k \in Keys}

\* No more updates are taken; all that is queued or active is cancelled, and
\* so is the worker.
Shutdown ==
    /\ shutting = "no" /\ shutting' = "joining" /\ closed' = TRUE
    /\ Settle(AllQueued \cup job.futures, "cancelled")
    /\ queue' = <<>> /\ entry' = [k \in Keys |-> Idle]
    /\ UNCHANGED <<requests, attempt, worker, job, paused, shown, faults>>

\* Mutant: shutdown returns before the worker has stopped.
JoinNothing ==
    /\ shutting = "joining"
    /\ future' = [u \in Updates |->
          IF future[u] \in {"scheduled", "backoff"} THEN "cancelled" ELSE future[u]]
    /\ shutting' = "done"
    /\ UNCHANGED <<requests, attempt, queued, worker, job, paused, closed, shown, faults>>

\* The worker is gone: the background tasks are cancelled and awaited.
Joined ==
    /\ shutting = "joining" /\ worker = "done"
    /\ future' = [u \in Updates |->
          IF future[u] \in {"scheduled", "backoff"} THEN "cancelled" ELSE future[u]]
    /\ shutting' = "done"
    /\ UNCHANGED <<requests, attempt, queued, worker, job, paused, closed, shown, faults>>

-----------------------------------------------------------------------------
Work == Take \/ Admit \/ Deliver \/ WorkerStops

Next ==
    \/ Ask \/ FireAndForget
    \/ \E u \in Updates : CallerLeaves(u) \/ TaskEnqueues(u) \/ TaskRefused(u)
    \/ Work \/ OperationCancelled \/ OperationFails \/ ConnectionFails
    \/ Shutdown \/ Joined

Spec == Init /\ [][Next]_vars

\* The worker runs, operations end, background tasks run, shutdown goes on.
Fairness ==
    /\ WF_vars(Work) /\ WF_vars(Joined)
    /\ \A u \in Updates : WF_vars(TaskEnqueues(u) \/ TaskRefused(u))

FairSpec == Spec /\ Fairness

-----------------------------------------------------------------------------
FutureStates == Awaited \cup {"none", "scheduled", "backoff", "ok", "failed", "cancelled"}
Entries == [func : 0 .. asked, futures : SUBSET (1 .. asked)]

\* The types; a key is queued once, exactly when it has an entry.
TypeOK ==
    /\ key \in [Updates -> Keys] /\ asked \in 0 .. MaxUpdates
    /\ overtook \in [Updates -> SUBSET (1 .. asked)]
    /\ future \in [Updates -> FutureStates]
    /\ attempt \in [Updates -> 0 .. MaxRetries]
    /\ queue \in Seq(Keys) /\ entry \in [Keys -> Entries] /\ job \in Entries
    /\ \A i, j \in DOMAIN queue : queue[i] = queue[j] => i = j
    /\ \A k \in Keys : InQueue(k) <=> entry[k].func # 0
    /\ worker \in {"waiting", "admission", "sending", "done"}
    /\ job # Idle <=> worker \in {"admission", "sending"}
    /\ paused \in BOOLEAN /\ closed \in BOOLEAN /\ shutting \in {"no", "joining", "done"}
    /\ shown \in [Keys -> 0 .. asked] /\ faults \in 0 .. MaxFaults

\* Update w is u or a later one, or was queued after u because u overtook its task.
Follows(w, u) == w >= u \/ w \in overtook[u]

\* limiter.py:244-263: an update that is queued while the entry of its key is being
\* taken, sent or compacted is not lost: when the queue is idle and nothing has
\* failed, each message shows that update or one that followed it. In particular
\* that is the last one asked for, unless that one overtook the task of the other.
LastUpdateShown ==
    faults = 0 /\ ~closed /\ worker = "waiting" /\ queue = <<>> =>
        \A u \in (1 .. asked) \ Scheduled : Follows(shown[key[u]], u)

\* The queue and its map agree, and lose no update.
QueueIsSound == TypeOK /\ LastUpdateShown

\* limiter.py:21-22: a message goes back to an older update only when that one was
\* fired and forgotten, and is tried again or was overtaken by the newer one.
OlderReturnsByTask ==
    [][\A k \in Keys : shown'[k] < shown[k] =>
          attempt[shown'[k]] > 0 \/ shown'[k] \in overtook[shown[k]]]_shown

\* limiter.py:172: when shutdown() has returned no future is left to anyone to
\* await, and nothing reaches the platform.
ShutdownIsFinal ==
    [][shutting = "done" => UNCHANGED <<shown, future, worker>>]_vars

\* Nothing comes back but by a task of fire_and_forget: not an update that was
\* replaced, not one that was stopped.
NothingComesBack == OlderReturnsByTask /\ ShutdownIsFinal

\* Whoever awaits an update hears of it, and no background task is left behind: the
\* update is sent, fails, or is cancelled.
FuturesResolve ==
    \A u \in Updates : future[u] \in Awaited \cup {"scheduled", "backoff"}
        ~> future[u] \in {"ok", "failed", "cancelled"}

\* Refuted: "ensure only the latest version of a message update is
\* processed".
LatestVersionWins == [][\A k \in Keys : shown'[k] >= shown[k]]_shown
=============================================================================
