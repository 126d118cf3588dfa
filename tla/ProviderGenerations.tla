------------------------- MODULE ProviderGenerations -------------------------
(***************************************************************************)
(* Publication, leasing, retirement and closing of provider runtimes,       *)
(* translated from runtime/provider_manager.py.                             *)
(*                                                                          *)
(* A runtime is named by the order in which it was built, and stands for    *)
(* its generation once it is published. A cleanup task of a generation, or  *)
(* the cleanup of an unpublished runtime, may fail at any time. A request   *)
(* is whoever holds a ProviderGenerationLease: an API call, a stream, the   *)
(* startup warm-up, a provider test. An admin is whoever calls replace,     *)
(* refresh_model_list_cache or connected_provider_changed.                  *)
(***************************************************************************)
EXTENDS Integers, FiniteSets

CONSTANTS
    Requests, Admins, Closers,  \* the tasks that call the manager
    MaxRuntimes,                \* bound: runtimes built in one process
    None                        \* no task

Tasks == Requests \cup Admins \cup Closers
Runtimes == 1 .. MaxRuntimes

ASSUME TasksAssumption ==
    /\ IsFiniteSet(Tasks)
    /\ None \notin Tasks
    /\ Tasks \cap Runtimes = {}
    /\ Requests \cap (Admins \cup Closers) = {} /\ Admins \cap Closers = {}
ASSUME RuntimesAssumption == MaxRuntimes \in Nat \ {0}

VARIABLES
    made,          \* runtimes built so far
    current,       \* _current
    retired,       \* _retired
    unpublished,   \* _unpublished
    closed,        \* generations closed, unpublished runtimes cleaned up
    cleaning,      \* generations with a cleanup_task
    failed,        \* generations whose cleanup has failed (history)
    leases,        \* active_leases
    refresh_task,  \* _refresh_task, by its generation; 0 is no task
    refresh,       \* where the background refresh of each generation is
    closing,       \* _closing
    terminal,      \* _closed
    replace_lock,  \* who holds _replace_lock
    close_lock,    \* who holds _close_lock
    pc,            \* where each task is
    uses,          \* the runtime it leases or works on; 0 is none
    awaits,        \* the drained events or cleanup tasks it awaits
    todo,          \* what its current loop has still to visit
    unclean        \* closers that met a failure

runtimes == <<made, current, retired, unpublished, closed, cleaning, failed>>
refreshing == <<refresh_task, refresh>>
gates == <<closing, terminal, close_lock>>
tasks == <<pc, uses, awaits, todo, unclean>>
vars == <<runtimes, leases, refreshing, gates, replace_lock, tasks>>

-----------------------------------------------------------------------------
Go(t, where) == pc' = [pc EXCEPT ![t] = where]
Visit(t, rs) == todo' = [todo EXCEPT ![t] = rs]
Uses(t, r) == uses' = [uses EXCEPT ![t] = r]
Lease(r) == leases' = [leases EXCEPT ![r] = @ + 1]

\* The end of `async with self._replace_lock`, if t is in one.
Unlocked(t) == IF replace_lock = t THEN None ELSE replace_lock
Return(t) == Go(t, "out") /\ replace_lock' = Unlocked(t)

\* Task.cancel() on a background refresh: one not yet started never runs; one
\* in discovery still has its finally clause to run.
AfterCancel == [none |-> "none", scheduled |-> "none", running |-> "unwinding",
                unwinding |-> "unwinding", joining |-> "none"]

\* _cancel_refresh: t will wait for the cancelled task.
CancelRefresh(t) ==
    /\ refresh' = [r \in Runtimes |->
          IF r = refresh_task THEN AfterCancel[refresh[r]] ELSE refresh[r]]
    /\ refresh_task' = 0
    /\ Visit(t, {r \in Runtimes : r = refresh_task})
    /\ Go(t, "unwinding")

RefreshUnwound(t) ==
    pc[t] = "unwinding" /\ \A r \in todo[t] : refresh[r] = "none"

\* The release that must close r, and does so through _close_generation.
LastRelease(r) == leases[r] = 1 /\ r \in retired /\ ~closing

Less(n) == IF n > 0 THEN n - 1 ELSE 0

\* Mutant: drained.set() is forgotten.
QuietDropLease(r, waits) ==
    /\ leases' = [leases EXCEPT ![r] = Less(@)]
    /\ cleaning' = IF LastRelease(r) THEN cleaning \cup {r} ELSE cleaning
    /\ awaits' = waits
    /\ UNCHANGED <<made, current, retired, unpublished, closed, failed>>

\* _release up to its await: whoever waits in drained.wait() for r goes on.
DropLease(r, waits) ==
    /\ leases' = [leases EXCEPT ![r] = Less(@)]
    /\ cleaning' = IF LastRelease(r) THEN cleaning \cup {r} ELSE cleaning
    /\ awaits' = [t \in Tasks |->
          IF leases[r] = 1 /\ pc[t] = "draining" THEN waits[t] \ {r} ELSE waits[t]]
    /\ UNCHANGED <<made, current, retired, unpublished, closed, failed>>

-----------------------------------------------------------------------------
\* A process after startup, whose background refresh has been created.
Init ==
    /\ made = 1
    /\ current = 1
    /\ retired = {} /\ unpublished = {} /\ closed = {}
    /\ cleaning = {} /\ failed = {}
    /\ leases = [r \in Runtimes |-> 0]
    /\ refresh_task = 1
    /\ refresh = [r \in Runtimes |-> IF r = 1 THEN "scheduled" ELSE "none"]
    /\ closing = FALSE /\ terminal = FALSE
    /\ replace_lock = None /\ close_lock = None
    /\ pc = [t \in Tasks |-> "out"]
    /\ uses = [t \in Tasks |-> 0]
    /\ awaits = [t \in Tasks |-> {}]
    /\ todo = [t \in Tasks |-> {}]
    /\ unclean = {}

\* Mutant: shutdown does not refuse it.
AcquireAnyway(q) ==
    /\ pc[q] = "out"
    /\ Lease(current)
    /\ Uses(q, current)
    /\ Go(q, "in")
    /\ UNCHANGED <<runtimes, refreshing, gates, replace_lock, awaits, todo, unclean>>

\* acquire
Acquire(q) ==
    /\ pc[q] = "out" /\ ~closing /\ ~terminal
    /\ Lease(current)
    /\ Uses(q, current)
    /\ Go(q, "in")
    /\ UNCHANGED <<runtimes, refreshing, gates, replace_lock, awaits, todo, unclean>>

\* ProviderGenerationLease.release, or the end of an explicit refresh. The
\* last release of a retired generation awaits its cleanup.
Release(t) ==
    LET r == uses[t] IN
    /\ pc[t] = "in"
    /\ DropLease(r, IF LastRelease(r) THEN [awaits EXCEPT ![t] = {r}] ELSE awaits)
    /\ Uses(t, 0)
    /\ IF LastRelease(r) THEN Go(t, "joining") /\ UNCHANGED replace_lock ELSE Return(t)
    /\ UNCHANGED <<refreshing, gates, todo, unclean>>

\* The cleanup that t awaited has ended, well or not.
Joined(t) ==
    /\ pc[t] = "joining" /\ awaits[t] = {} /\ t \notin Closers
    /\ Return(t)
    /\ UNCHANGED <<runtimes, leases, refreshing, gates, uses, awaits, todo, unclean>>

-----------------------------------------------------------------------------
(* Background work *)

\* _refresh_generation on the captured generation
RefreshStarts(r) ==
    /\ refresh[r] = "scheduled"
    /\ IF r \in closed
         THEN refresh' = [refresh EXCEPT ![r] = "none"] /\ UNCHANGED leases
         ELSE refresh' = [refresh EXCEPT ![r] = "running"] /\ Lease(r)
    /\ UNCHANGED <<runtimes, refresh_task, gates, replace_lock, tasks>>

\* Mutant: an except clause and the finally clause each decrement, unguarded.
RefreshEndsTwice(r) ==
    /\ refresh[r] \in {"running", "unwinding"}
    /\ leases' = [leases EXCEPT ![r] = @ - 1]
    /\ refresh' = [refresh EXCEPT ![r] = IF @ = "running" THEN "unwinding" ELSE "none"]
    /\ UNCHANGED <<runtimes, awaits, refresh_task, gates, replace_lock, pc, uses, todo, unclean>>

\* Mutant: a cancelled refresh keeps its lease.
CancelledRefreshKeepsLease(r) ==
    /\ refresh[r] \in {"running", "unwinding"}
    /\ IF refresh[r] = "unwinding"
         THEN UNCHANGED <<leases, runtimes, awaits>>
         ELSE DropLease(r, awaits)
    /\ refresh' = [refresh EXCEPT ![r] = IF LastRelease(r) THEN "joining" ELSE "none"]
    /\ UNCHANGED <<refresh_task, gates, replace_lock, pc, uses, todo, unclean>>

\* Its finally clause, after discovery or cancellation.
RefreshEnds(r) ==
    /\ refresh[r] \in {"running", "unwinding"}
    /\ DropLease(r, awaits)
    /\ refresh' = [refresh EXCEPT ![r] = IF LastRelease(r) THEN "joining" ELSE "none"]
    /\ UNCHANGED <<refresh_task, gates, replace_lock, pc, uses, todo, unclean>>

\* _run_generation_cleanup: all who share the task learn its result.
Cleanup(r, ok) ==
    /\ r \in cleaning
    /\ cleaning' = cleaning \ {r}
    /\ retired' = IF ok THEN retired \ {r} ELSE retired
    /\ closed' = IF ok THEN closed \cup {r} ELSE closed
    /\ failed' = IF ok THEN failed ELSE failed \cup {r}
    /\ refresh' = [refresh EXCEPT ![r] = IF @ = "joining" THEN "none" ELSE @]
    /\ awaits' = [t \in Tasks |->
          IF pc[t] = "draining" THEN awaits[t] ELSE awaits[t] \ {r}]
    /\ unclean' = unclean \cup
          {c \in Closers : ~ok /\ pc[c] = "joining" /\ r \in awaits[c]}
    /\ UNCHANGED <<made, current, unpublished, leases, refresh_task, gates,
                   replace_lock, pc, uses, todo>>

-----------------------------------------------------------------------------
(* Operations under the replace lock *)

\* replace and refresh_model_list_cache begin by stopping the refresh.
Administer(a) ==
    /\ pc[a] = "out" /\ replace_lock = None /\ ~closing /\ ~terminal
    /\ replace_lock' = a
    /\ CancelRefresh(a)
    /\ UNCHANGED <<runtimes, leases, gates, uses, awaits, unclean>>

\* refresh_model_list_cache goes on with a lease on the current generation.
ExplicitRefresh(a) ==
    /\ a \in Admins /\ RefreshUnwound(a)
    /\ IF current \in closed
         THEN Return(a) /\ UNCHANGED <<leases, uses>>
         ELSE /\ Lease(current)
              /\ Uses(a, current)
              /\ Go(a, "in")
              /\ UNCHANGED replace_lock
    /\ UNCHANGED <<runtimes, refreshing, gates, awaits, todo, unclean>>

\* replace: _retry_retired_cleanup takes its snapshot,
RetryRetired(a) ==
    /\ a \in Admins /\ RefreshUnwound(a)
    /\ Visit(a, retired)
    /\ Go(a, "retrying")
    /\ UNCHANGED <<runtimes, leases, refreshing, gates, replace_lock, uses, awaits, unclean>>

\* visits the generations in order, and awaits those it can close;
Retriable(a) == {r \in todo[a] \ closed : leases[r] = 0}
RetryNext(a) ==
    /\ pc[a] = "retrying" /\ awaits[a] = {}
    /\ \E r \in Retriable(a) :
          /\ \A q \in Retriable(a) : r <= q
          /\ Visit(a, {q \in todo[a] : q > r})
          /\ awaits' = [awaits EXCEPT ![a] = {r}]
          /\ cleaning' = cleaning \cup {r}
    /\ UNCHANGED <<made, current, retired, unpublished, closed, failed, leases,
                   refreshing, gates, replace_lock, pc, uses, unclean>>

\* then _retry_unpublished_cleanup takes its own.
RetryUnpublished(a) ==
    /\ pc[a] = "retrying" /\ awaits[a] = {} /\ Retriable(a) = {}
    /\ Visit(a, unpublished)
    /\ Go(a, "discarding")
    /\ UNCHANGED <<runtimes, leases, refreshing, gates, replace_lock, uses, awaits, unclean>>

\* Mutant: a runtime whose cleanup failed is forgotten.
ForgetfulDiscard(t, r, ok) ==
    /\ pc[t] \in {"discarding", "dropping"} /\ r \in todo[t]
    /\ Visit(t, todo[t] \ {r})
    /\ unpublished' = unpublished \ {r}
    /\ closed' = IF ok THEN closed \cup {r} ELSE closed
    /\ unclean' = IF ok \/ t \notin Closers THEN unclean ELSE unclean \cup {t}
    /\ UNCHANGED <<made, current, retired, cleaning, failed, leases, refreshing,
                   gates, replace_lock, pc, uses, awaits>>

\* _cleanup_unpublished, awaited directly by the task that runs the loop.
Discard(t, r, ok) ==
    /\ pc[t] \in {"discarding", "dropping"} /\ r \in todo[t]
    /\ Visit(t, todo[t] \ {r})
    /\ unpublished' = IF ok THEN unpublished \ {r} ELSE unpublished
    /\ closed' = IF ok THEN closed \cup {r} ELSE closed
    /\ unclean' = IF ok \/ t \notin Closers THEN unclean ELSE unclean \cup {t}
    /\ UNCHANGED <<made, current, retired, cleaning, failed, leases, refreshing,
                   gates, replace_lock, pc, uses, awaits>>

Applying(a) == a \in Admins /\ pc[a] = "discarding" /\ todo[a] = {}

\* The runtime factory raises.
FactoryFails(a) ==
    /\ Applying(a)
    /\ Return(a)
    /\ UNCHANGED <<runtimes, leases, refreshing, gates, uses, awaits, todo, unclean>>

\* commit() raises after the runtime was built: it has to be cleaned up.
CommitFails(a) ==
    /\ Applying(a) /\ made < MaxRuntimes
    /\ made' = made + 1
    /\ unpublished' = unpublished \cup {made + 1}
    /\ Visit(a, {made + 1})
    /\ Go(a, "dropping")
    /\ UNCHANGED <<current, retired, closed, cleaning, failed, leases, refreshing,
                   gates, replace_lock, uses, awaits, unclean>>

Dropped(a) ==
    /\ pc[a] = "dropping" /\ todo[a] = {}
    /\ Return(a)
    /\ UNCHANGED <<runtimes, leases, refreshing, gates, uses, awaits, todo, unclean>>

\* The candidate is published, its refresh created and its predecessor retired;
\* replace closes the predecessor, or returns.
PublishAnd(a, closes) ==
    /\ Applying(a) /\ made < MaxRuntimes
    /\ made' = made + 1
    /\ current' = made + 1
    /\ retired' = retired \cup {current}
    /\ refresh_task' = made + 1
    /\ refresh' = [refresh EXCEPT ![made + 1] = "scheduled"]
    /\ IF closes
         THEN /\ cleaning' = cleaning \cup {current}
              /\ awaits' = [awaits EXCEPT ![a] = {current}]
              /\ Go(a, "joining")
              /\ UNCHANGED replace_lock
         ELSE Return(a) /\ UNCHANGED <<cleaning, awaits>>
    /\ UNCHANGED <<unpublished, closed, failed, leases, gates, uses, todo, unclean>>

\* Mutant: the predecessor is closed whoever leases it.
EagerPublish(a) == PublishAnd(a, TRUE)

\* Mutant: only the release of a lease closes it.
LazyPublish(a) == PublishAnd(a, FALSE)

\* A predecessor that nobody leases is closed before replace returns.
Publish(a) == PublishAnd(a, leases[current] = 0)

\* connected_provider_changed works on the current runtime without a lease.
Connect(a) ==
    /\ pc[a] = "out" /\ replace_lock = None /\ ~closing /\ ~terminal
    /\ replace_lock' = a
    /\ Uses(a, current)
    /\ Go(a, "connecting")
    /\ UNCHANGED <<runtimes, leases, refreshing, gates, awaits, todo, unclean>>

Connected(a) ==
    /\ pc[a] = "connecting"
    /\ Uses(a, 0)
    /\ Return(a)
    /\ UNCHANGED <<runtimes, leases, refreshing, gates, awaits, todo, unclean>>

-----------------------------------------------------------------------------
(* close *)

AskClose(c) ==
    /\ pc[c] = "out" /\ close_lock = None /\ ~terminal
    /\ close_lock' = c
    /\ unclean' = unclean \ {c}
    /\ Go(c, "asking")
    /\ UNCHANGED <<runtimes, leases, refreshing, closing, terminal, replace_lock,
                   uses, awaits, todo>>

\* Mutant: the background refresh is left alone.
ShutDownOnly(c) ==
    /\ pc[c] = "asking" /\ replace_lock = None
    /\ replace_lock' = c
    /\ closing' = TRUE
    /\ Visit(c, {})
    /\ Go(c, "unwinding")
    /\ UNCHANGED <<runtimes, leases, refreshing, terminal, close_lock, uses, awaits,
                   unclean>>

ShutDown(c) ==
    /\ pc[c] = "asking" /\ replace_lock = None
    /\ replace_lock' = c
    /\ closing' = TRUE
    /\ CancelRefresh(c)
    /\ UNCHANGED <<runtimes, leases, terminal, close_lock, uses, awaits, unclean>>

\* The current generation retires, unless an earlier close() did that, and the
\* snapshot of all that are left drains.
RetireCurrent(c) ==
    LET left == retired \cup ({current} \ closed) IN
    /\ c \in Closers /\ RefreshUnwound(c)
    /\ retired' = left
    /\ Visit(c, left)
    /\ awaits' = [awaits EXCEPT ![c] = {r \in left : leases[r] # 0}]
    /\ Go(c, "draining")
    /\ replace_lock' = None
    /\ UNCHANGED <<made, current, unpublished, closed, cleaning, failed, leases,
                   refreshing, gates, uses, unclean>>

\* Each of them is closed, or its cleanup joined.
CloseLeft(c, left) ==
    LET idle == {r \in left : leases[r] = 0} IN
    /\ pc[c] = "draining" /\ awaits[c] = {}
    /\ cleaning' = cleaning \cup idle
    /\ awaits' = [awaits EXCEPT ![c] = idle]
    /\ unclean' = IF idle = left THEN unclean ELSE unclean \cup {c}
    /\ Visit(c, {})
    /\ Go(c, "joining")
    /\ UNCHANGED <<made, current, retired, unpublished, closed, failed, leases,
                   refreshing, gates, replace_lock, uses>>

\* Mutant: those that others closed meanwhile are closed again.
CloseAllAgain(c) == CloseLeft(c, todo[c])

CloseAll(c) == CloseLeft(c, todo[c] \ closed)

DiscardAll(c) ==
    /\ c \in Closers /\ pc[c] = "joining" /\ awaits[c] = {}
    /\ Visit(c, unpublished)
    /\ Go(c, "discarding")
    /\ UNCHANGED <<runtimes, leases, refreshing, gates, replace_lock, uses, awaits, unclean>>

\* Mutant: a failed cleanup does not keep the manager open.
EndCloseAnyway(c) ==
    /\ c \in Closers /\ pc[c] = "discarding" /\ todo[c] = {}
    /\ terminal' = TRUE
    /\ close_lock' = None
    /\ Go(c, "out")
    /\ UNCHANGED <<runtimes, leases, refreshing, closing, replace_lock, uses,
                   awaits, todo, unclean>>

\* Any failure is reported and leaves the manager closing, to be closed again.
EndClose(c) ==
    /\ c \in Closers /\ pc[c] = "discarding" /\ todo[c] = {}
    /\ terminal' = (c \notin unclean)
    /\ close_lock' = None
    /\ Go(c, "out")
    /\ UNCHANGED <<runtimes, leases, refreshing, closing, replace_lock, uses,
                   awaits, todo, unclean>>

-----------------------------------------------------------------------------
\* Cancelled at an await other than under a lease, where Release follows. A
\* cleanup task is shielded, so it goes on; the cleanup of an unpublished
\* runtime is cancelled with its caller.
Cancel(t) ==
    /\ pc[t] \notin {"out", "in"}
    /\ Return(t)
    /\ close_lock' = IF close_lock = t THEN None ELSE close_lock
    /\ Uses(t, 0)
    /\ awaits' = [awaits EXCEPT ![t] = {}]
    /\ Visit(t, {})
    /\ UNCHANGED <<runtimes, leases, refreshing, closing, terminal, unclean>>

\* Nothing is left to do once the manager is closed and everyone has returned.
Finished == terminal /\ (\A t \in Tasks : pc[t] = "out") /\ UNCHANGED vars

-----------------------------------------------------------------------------
Background(r) ==
    RefreshStarts(r) \/ RefreshEnds(r) \/ \E ok \in BOOLEAN : Cleanup(r, ok)
Discards(t) == \E r \in Runtimes, ok \in BOOLEAN : Discard(t, r, ok)
Replacing(a) ==
    \/ RetryRetired(a) \/ RetryNext(a) \/ RetryUnpublished(a) \/ Discards(a)
    \/ FactoryFails(a) \/ CommitFails(a) \/ Dropped(a) \/ Publish(a)
Administering(a) ==
    Replacing(a) \/ ExplicitRefresh(a) \/ Connected(a) \/ Release(a) \/ Joined(a)
Closing(c) ==
    \/ RetireCurrent(c) \/ CloseAll(c) \/ DiscardAll(c) \/ Discards(c) \/ EndClose(c)

Next ==
    \/ \E r \in Runtimes : Background(r)
    \/ \E q \in Requests : Acquire(q) \/ Release(q) \/ Joined(q)
    \/ \E a \in Admins : Administer(a) \/ Connect(a) \/ Administering(a)
    \/ \E c \in Closers : AskClose(c) \/ ShutDown(c) \/ Closing(c)
    \/ \E t \in Tasks : Cancel(t)
    \/ Finished

Spec == Init /\ [][Next]_vars

\* Tasks run when they can, requests and cleanups end, and asyncio.Lock serves
\* its waiters in order. Nobody has to call the manager, or to cancel a call.
Fairness ==
    /\ \A r \in Runtimes : WF_vars(Background(r))
    /\ \A q \in Requests : WF_vars(Release(q)) /\ WF_vars(Joined(q))
    /\ \A a \in Admins : WF_vars(Administering(a))
    /\ \A c \in Closers : WF_vars(Closing(c)) /\ SF_vars(ShutDown(c))
FairSpec == Spec /\ Fairness

-----------------------------------------------------------------------------
(* Properties *)

Places == {"out", "in", "joining", "unwinding", "retrying", "discarding",
           "dropping", "connecting", "asking", "draining"}

\* Every variable holds a value of its kind; the counters are natural.
TypeOK ==
    /\ made \in Runtimes /\ current \in Runtimes
    /\ retired \in SUBSET Runtimes /\ unpublished \in SUBSET Runtimes
    /\ closed \in SUBSET Runtimes
    /\ cleaning \in SUBSET Runtimes /\ failed \in SUBSET Runtimes
    /\ leases \in [Runtimes -> Nat]
    /\ refresh_task \in Runtimes \cup {0}
    /\ refresh \in [Runtimes -> {"none", "scheduled", "running", "unwinding", "joining"}]
    /\ closing \in BOOLEAN /\ terminal \in BOOLEAN
    /\ replace_lock \in Tasks \cup {None} /\ close_lock \in Tasks \cup {None}
    /\ pc \in [Tasks -> Places]
    /\ uses \in [Tasks -> Runtimes \cup {0}]
    /\ awaits \in [Tasks -> SUBSET Runtimes]
    /\ todo \in [Tasks -> SUBSET Runtimes]
    /\ unclean \in SUBSET Tasks

\* Who works with r, whether or not it holds a lease.
UsersOf(r) ==
    {t \in Tasks : uses[t] = r}
        \cup {q \in {r} : refresh[q] \in {"running", "unwinding"}}

\* No runtime is closed, or being cleaned up, under anybody who uses it: not a
\* request, not a refresh, not connected_provider_changed, which takes no lease.
NeverClosedInUse ==
    \A r \in Runtimes : UsersOf(r) # {} => r \notin closed \cup cleaning \cup unpublished

\* active_leases counts the leases that are held: none is released twice, none
\* is forgotten by an early return or a cancellation.
Holders(r) == {t \in Tasks : pc[t] = "in" /\ uses[t] = r}
                \cup {q \in {r} : refresh[q] \in {"running", "unwinding"}}
LeasesCounted == \A r \in Runtimes : leases[r] = Cardinality(Holders(r))

\* "The manager is the only owner": a runtime that was built is served, owed a
\* cleanup that close() or replace() will find, or closed; never two of them,
\* except that shutdown retires what is still called current.
NoRuntimeLost ==
    \A r \in 1 .. made :
        /\ r \in closed \cup retired \cup unpublished \cup {current}
        /\ r \in closed => r \notin retired \cup unpublished
        /\ r \in unpublished => r \notin retired \cup {current}
        /\ r = current /\ r \in retired \cup closed => closing

\* "Its last lease closes it": a retired generation without leases is being
\* cleaned up, or its cleanup was tried and failed, or shutdown will see to it.
DrainedIsBeingClosed ==
    \A r \in retired : leases[r] = 0 => r \in cleaning \cup failed \/ closing

\* The cleanup of an unpublished runtime never runs twice at once, although
\* replace() and close() both drive it, under different locks.
DiscardedByOne ==
    \A t, u \in Tasks :
        /\ pc[t] \in {"discarding", "dropping"} /\ pc[u] \in {"discarding", "dropping"}
        /\ t # u
        => todo[t] \cap todo[u] = {}

\* Every runtime has an owner, and one only while it is cleaned up.
RuntimesAreOwned == NoRuntimeLost /\ DiscardedByOne

\* "Final shutdown rejects new acquisition and replacement": once it has begun,
\* no runtime is built or published and no lease is taken, not even by a
\* background refresh that was created before it.
NothingStartsAfterClosing ==
    [][closing => /\ closing'
                  /\ made' = made /\ current' = current
                  /\ \A r \in Runtimes : leases'[r] <= leases[r]]_vars

\* "The manager does not become terminal until every owned runtime closes": nor
\* with a lease, a refresh or a cleanup still alive.
TerminalMeansAllClosed ==
    terminal => /\ closed = 1 .. made
                /\ cleaning = {}
                /\ \A r \in Runtimes : leases[r] = 0 /\ refresh[r] = "none"

\* A generation is closed when nobody holds it, and no generation is left when
\* the manager is terminal.
ClosedWhenDue == DrainedIsBeingClosed /\ TerminalMeansAllClosed

\* A closed runtime stays closed and is not cleaned up again.
ClosedOnce ==
    [][\A r \in closed : r \in closed' /\ r \notin cleaning' \cup retired']_vars

\* The manager keeps what RuntimeLeases promises.
Leases == INSTANCE RuntimeLeases WITH
    Users <- Tasks \cup Runtimes, First <- 1,
    serving <- {current} \ (retired \cup closed),
    old <- (retired \ cleaning) \cup unpublished,
    going <- cleaning, gone <- closed,
    users <- [r \in Runtimes |-> UsersOf(r)]
ImplementsLeases == Leases!Spec

\* Every call of close() returns: nothing it waits for (the locks, the refresh
\* it cancels, leases, cleanups that others started) waits for it.
CloseReturns == \A c \in Closers : pc[c] = "asking" ~> pc[c] = "out"
=============================================================================
