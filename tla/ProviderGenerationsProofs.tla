---------------------- MODULE ProviderGenerationsProofs ----------------------
(***************************************************************************)
(* Theorems about the provider manager, for any tasks and any number of     *)
(* runtimes.                                                                *)
(***************************************************************************)
EXTENDS ProviderGenerations, FiniteSetTheorems, TLAPS

\* Well-typed states map to well-typed states under the shared helpers.
LEMMA DropLeaseType ==
    ASSUME TypeOK, NEW r \in Runtimes, NEW waits \in [Tasks -> SUBSET Runtimes],
           DropLease(r, waits)
    PROVE  /\ leases' \in [Runtimes -> Nat]
           /\ cleaning' \in SUBSET Runtimes
           /\ awaits' \in [Tasks -> SUBSET Runtimes]
  <1>1. leases' \in [Runtimes -> Nat]
    <2>1. \A n \in Nat : Less(n) \in Nat  BY DEF Less
    <2> QED  BY <2>1 DEF DropLease, TypeOK
  <1>2. cleaning' \in SUBSET Runtimes  BY DEF DropLease, TypeOK
  <1>3. awaits' \in [Tasks -> SUBSET Runtimes]  BY DEF DropLease, TypeOK
  <1> QED  BY <1>1, <1>2, <1>3

LEMMA CancelRefreshType ==
    ASSUME TypeOK, NEW t \in Tasks, CancelRefresh(t)
    PROVE  /\ refresh' \in [Runtimes -> {"none", "scheduled", "running", "unwinding", "joining"}]
           /\ refresh_task' \in Runtimes \cup {0}
           /\ todo' \in [Tasks -> SUBSET Runtimes]
           /\ pc' \in [Tasks -> Places]
  BY DEF CancelRefresh, TypeOK, AfterCancel, Visit, Go, Places

LEMMA ReturnType ==
    ASSUME TypeOK, NEW t \in Tasks, Return(t)
    PROVE  pc' \in [Tasks -> Places] /\ replace_lock' \in Tasks \cup {None}
  BY DEF Return, Unlocked, Go, TypeOK, Places

LEMMA InitType == Init => TypeOK
  <1>1. 1 \in Runtimes  BY RuntimesAssumption DEF Runtimes
  <1>2. ASSUME Init
        PROVE  /\ made \in Runtimes /\ current \in Runtimes
               /\ leases \in [Runtimes -> Nat]
               /\ refresh_task \in Runtimes \cup {0}
               /\ refresh \in [Runtimes -> {"none", "scheduled", "running", "unwinding", "joining"}]
    BY <1>1, <1>2 DEF Init
  <1>3. ASSUME Init
        PROVE  /\ pc \in [Tasks -> Places]
               /\ uses \in [Tasks -> Runtimes \cup {0}]
               /\ awaits \in [Tasks -> SUBSET Runtimes]
               /\ todo \in [Tasks -> SUBSET Runtimes]
    BY <1>3 DEF Init, Places
  <1> QED  BY <1>2, <1>3 DEF Init, TypeOK

\* The step lemmas: what each kind of task does keeps TypeOK.
LEMMA BackgroundType ==
    ASSUME TypeOK, NEW r \in Runtimes, Background(r)
    PROVE  TypeOK'
  <1>1. CASE RefreshStarts(r)
    <2>1. refresh' \in [Runtimes -> {"none", "scheduled", "running", "unwinding", "joining"}]
      BY <1>1 DEF RefreshStarts, TypeOK
    <2>2. leases' \in [Runtimes -> Nat]  BY <1>1 DEF RefreshStarts, TypeOK, Lease
    <2> QED  BY <1>1, <2>1, <2>2 DEF RefreshStarts, TypeOK, runtimes, gates, tasks
  <1>2. CASE RefreshEnds(r)
    <2>1. awaits \in [Tasks -> SUBSET Runtimes]  BY DEF TypeOK
    <2>2. DropLease(r, awaits)  BY <1>2 DEF RefreshEnds
    <2>3. refresh' \in [Runtimes -> {"none", "scheduled", "running", "unwinding", "joining"}]
      BY <1>2 DEF RefreshEnds, TypeOK
    <2>4. /\ leases' \in [Runtimes -> Nat]
          /\ cleaning' \in SUBSET Runtimes
          /\ awaits' \in [Tasks -> SUBSET Runtimes]
      BY <2>1, <2>2, DropLeaseType
    <2> QED
      BY <1>2, <2>2, <2>3, <2>4 DEF RefreshEnds, DropLease, TypeOK, gates
  <1>3. ASSUME NEW ok \in BOOLEAN, Cleanup(r, ok)  PROVE TypeOK'
    BY <1>3 DEF Cleanup, TypeOK, gates, Tasks
  <1> QED  BY <1>1, <1>2, <1>3 DEF Background

LEMMA ReleaseType ==
    ASSUME TypeOK, NEW t \in Tasks, Release(t), uses[t] # 0
    PROVE  TypeOK'
  <1> DEFINE r == uses[t]
             waits == IF LastRelease(r) THEN [awaits EXCEPT ![t] = {r}] ELSE awaits
  <1>1. r \in Runtimes  BY DEF TypeOK
  <1>2. waits \in [Tasks -> SUBSET Runtimes]  BY <1>1 DEF TypeOK
  <1>3. DropLease(r, waits)  BY DEF Release
  <1>4. /\ leases' \in [Runtimes -> Nat]
        /\ cleaning' \in SUBSET Runtimes
        /\ awaits' \in [Tasks -> SUBSET Runtimes]
    <2> HIDE DEF r, waits
    <2> QED  BY <1>1, <1>2, <1>3, DropLeaseType
  <1>5. pc' \in [Tasks -> Places] /\ replace_lock' \in Tasks \cup {None}
    <2>1. CASE LastRelease(r)  BY <2>1 DEF Release, Go, TypeOK, Places
    <2>2. CASE ~LastRelease(r)  BY <2>2, ReturnType DEF Release
    <2> QED  BY <2>1, <2>2
  <1>6. uses' \in [Tasks -> Runtimes \cup {0}]  BY DEF Release, Uses, TypeOK
  <1> QED
    BY <1>3, <1>4, <1>5, <1>6 DEF Release, DropLease, TypeOK, refreshing, gates

LEMMA RequestType ==
    ASSUME TypeOK, NEW q \in Tasks, Acquire(q) \/ Joined(q)
    PROVE  TypeOK'
  <1>1. CASE Acquire(q)
    <2>1. leases' \in [Runtimes -> Nat]  BY <1>1 DEF Acquire, TypeOK, Lease
    <2>2. pc' \in [Tasks -> Places] /\ uses' \in [Tasks -> Runtimes \cup {0}]
      BY <1>1 DEF Acquire, TypeOK, Go, Uses, Places
    <2> QED
      BY <1>1, <2>1, <2>2 DEF Acquire, TypeOK, runtimes, refreshing, gates
  <1>2. CASE Joined(q)
    <2>1. Return(q)  BY <1>2 DEF Joined
    <2> QED
      BY <1>2, <2>1, ReturnType DEF Joined, TypeOK, runtimes, refreshing, gates
  <1> QED  BY <1>1, <1>2

LEMMA BeginType ==
    ASSUME TypeOK, NEW a \in Tasks, Administer(a) \/ Connect(a) \/ Connected(a)
    PROVE  TypeOK'
  <1>1. CASE Administer(a)
    <2>1. CancelRefresh(a)  BY <1>1 DEF Administer
    <2> QED
      BY <1>1, <2>1, CancelRefreshType DEF Administer, TypeOK, runtimes, gates
  <1>2. CASE Connect(a)
    BY <1>2 DEF Connect, TypeOK, Uses, Go, Places, runtimes, refreshing, gates
  <1>3. CASE Connected(a)
    <2>1. Return(a)  BY <1>3 DEF Connected
    <2>2. uses' \in [Tasks -> Runtimes \cup {0}]  BY <1>3 DEF Connected, TypeOK, Uses
    <2> QED
      BY <1>3, <2>1, <2>2, ReturnType
      DEF Connected, TypeOK, runtimes, refreshing, gates
  <1> QED  BY <1>1, <1>2, <1>3

LEMMA DiscardType ==
    ASSUME TypeOK, NEW t \in Tasks, NEW r \in Runtimes, NEW ok \in BOOLEAN,
           Discard(t, r, ok)
    PROVE  TypeOK'
  BY DEF Discard, TypeOK, Visit, refreshing, gates

LEMMA PublishType ==
    ASSUME TypeOK, NEW a \in Tasks, Publish(a)
    PROVE  TypeOK'
  <1>1. made + 1 \in Runtimes
    BY RuntimesAssumption DEF Publish, PublishAnd, TypeOK, Runtimes
  <1>2. pc' \in [Tasks -> Places] /\ replace_lock' \in Tasks \cup {None}
    <2>1. CASE leases[current] = 0
      BY <2>1 DEF Publish, PublishAnd, TypeOK, Go, Places
    <2>2. CASE leases[current] # 0
      BY <2>2, ReturnType DEF Publish, PublishAnd
    <2> QED  BY <2>1, <2>2
  <1>3. refresh' \in [Runtimes -> {"none", "scheduled", "running", "unwinding", "joining"}]
    BY <1>1 DEF Publish, PublishAnd, TypeOK
  <1>4. cleaning' \in SUBSET Runtimes /\ awaits' \in [Tasks -> SUBSET Runtimes]
    BY DEF Publish, PublishAnd, TypeOK
  <1> QED
    BY <1>1, <1>2, <1>3, <1>4 DEF Publish, PublishAnd, TypeOK, gates

LEMMA ReplacingType ==
    ASSUME TypeOK, NEW a \in Tasks, Replacing(a)
    PROVE  TypeOK'
  <1>1. CASE RetryRetired(a)
    BY <1>1 DEF RetryRetired, TypeOK, Visit, Go, Places, runtimes, refreshing, gates
  <1>2. CASE RetryNext(a)
    <2>1. PICK r \in Retriable(a) :
             /\ Visit(a, {q \in todo[a] : q > r})
             /\ awaits' = [awaits EXCEPT ![a] = {r}]
             /\ cleaning' = cleaning \cup {r}
      BY <1>2 DEF RetryNext
    <2>2. r \in Runtimes  BY DEF Retriable, TypeOK
    <2>3. /\ todo' \in [Tasks -> SUBSET Runtimes]
          /\ awaits' \in [Tasks -> SUBSET Runtimes]
          /\ cleaning' \in SUBSET Runtimes
      BY <2>1, <2>2 DEF Visit, TypeOK
    <2> QED  BY <1>2, <2>3 DEF RetryNext, TypeOK, refreshing, gates
  <1>3. CASE RetryUnpublished(a)
    BY <1>3 DEF RetryUnpublished, TypeOK, Visit, Go, Places, runtimes, refreshing, gates
  <1>4. CASE Discards(a)
    BY <1>4, DiscardType DEF Discards
  <1>5. CASE FactoryFails(a)
    <2>1. Return(a)  BY <1>5 DEF FactoryFails
    <2> QED
      BY <1>5, <2>1, ReturnType DEF FactoryFails, TypeOK, runtimes, refreshing, gates
  <1>6. CASE CommitFails(a)
    <2>1. made + 1 \in Runtimes
      BY <1>6, RuntimesAssumption DEF CommitFails, TypeOK, Runtimes
    <2>2. pc' \in [Tasks -> Places] /\ todo' \in [Tasks -> SUBSET Runtimes]
      BY <1>6, <2>1 DEF CommitFails, TypeOK, Visit, Go, Places
    <2> QED  BY <1>6, <2>1, <2>2 DEF CommitFails, TypeOK, refreshing, gates
  <1>7. CASE Dropped(a)
    <2>1. Return(a)  BY <1>7 DEF Dropped
    <2> QED
      BY <1>7, <2>1, ReturnType DEF Dropped, TypeOK, runtimes, refreshing, gates
  <1>8. CASE Publish(a)  BY <1>8, PublishType
  <1> QED
    BY <1>1, <1>2, <1>3, <1>4, <1>5, <1>6, <1>7, <1>8 DEF Replacing

LEMMA ExplicitRefreshType ==
    ASSUME TypeOK, NEW a \in Tasks, ExplicitRefresh(a)
    PROVE  TypeOK'
  <1>1. CASE current \in closed
    <2>1. Return(a)  BY <1>1 DEF ExplicitRefresh
    <2> QED
      BY <1>1, <2>1, ReturnType
      DEF ExplicitRefresh, TypeOK, runtimes, refreshing, gates
  <1>2. CASE current \notin closed
    <2>1. leases' \in [Runtimes -> Nat]
      BY <1>2 DEF ExplicitRefresh, TypeOK, Lease
    <2>2. pc' \in [Tasks -> Places] /\ uses' \in [Tasks -> Runtimes \cup {0}]
      BY <1>2 DEF ExplicitRefresh, TypeOK, Go, Uses, Places
    <2> QED
      BY <1>2, <2>1, <2>2 DEF ExplicitRefresh, TypeOK, runtimes, refreshing, gates
  <1> QED  BY <1>1, <1>2

LEMMA ShutdownType ==
    ASSUME TypeOK, NEW c \in Tasks, AskClose(c) \/ ShutDown(c) \/ Closing(c)
    PROVE  TypeOK'
  <1>1. CASE AskClose(c)
    BY <1>1 DEF AskClose, TypeOK, Go, Places, runtimes, refreshing
  <1>2. CASE ShutDown(c)
    <2>1. CancelRefresh(c)  BY <1>2 DEF ShutDown
    <2> QED
      BY <1>2, <2>1, CancelRefreshType DEF ShutDown, TypeOK, runtimes
  <1>3. CASE RetireCurrent(c)
    <2>1. retired \cup ({current} \ closed) \in SUBSET Runtimes  BY DEF TypeOK
    <2>2. /\ pc' \in [Tasks -> Places]
          /\ todo' \in [Tasks -> SUBSET Runtimes]
          /\ awaits' \in [Tasks -> SUBSET Runtimes]
      BY <1>3, <2>1 DEF RetireCurrent, TypeOK, Visit, Go, Places
    <2> QED  BY <1>3, <2>1, <2>2 DEF RetireCurrent, TypeOK, refreshing, gates
  <1>4. CASE CloseAll(c)
    <2>1. \A i \in SUBSET Runtimes : {r \in i : leases[r] = 0} \in SUBSET Runtimes
      OBVIOUS
    <2>2. /\ pc' \in [Tasks -> Places]
          /\ todo' \in [Tasks -> SUBSET Runtimes]
          /\ awaits' \in [Tasks -> SUBSET Runtimes]
          /\ cleaning' \in SUBSET Runtimes
      BY <1>4, <2>1 DEF CloseAll, CloseLeft, TypeOK, Visit, Go, Places
    <2>3. unclean' \in SUBSET Tasks  BY <1>4 DEF CloseAll, CloseLeft, TypeOK
    <2> QED
      BY <1>4, <2>2, <2>3 DEF CloseAll, CloseLeft, TypeOK, refreshing, gates
  <1>5. CASE DiscardAll(c)
    BY <1>5 DEF DiscardAll, TypeOK, Visit, Go, Places, runtimes, refreshing, gates
  <1>6. CASE Discards(c)
    BY <1>6, DiscardType DEF Discards
  <1>7. CASE EndClose(c)
    BY <1>7 DEF EndClose, TypeOK, Go, Places, runtimes, refreshing
  <1> QED  BY <1>1, <1>2, <1>3, <1>4, <1>5, <1>6, <1>7 DEF Closing

LEMMA CancelType ==
    ASSUME TypeOK, NEW t \in Tasks, Cancel(t)
    PROVE  TypeOK'
  <1>1. Return(t)  BY DEF Cancel
  <1>2. /\ close_lock' \in Tasks \cup {None}
        /\ uses' \in [Tasks -> Runtimes \cup {0}]
        /\ awaits' \in [Tasks -> SUBSET Runtimes]
        /\ todo' \in [Tasks -> SUBSET Runtimes]
    BY DEF Cancel, TypeOK, Uses, Visit
  <1> QED
    BY <1>1, <1>2, ReturnType DEF Cancel, TypeOK, runtimes, refreshing

LEMMA StutterType == ASSUME TypeOK, UNCHANGED vars PROVE TypeOK'
  BY DEF TypeOK, vars, runtimes, refreshing, gates, tasks

-----------------------------------------------------------------------------
(* The inductive invariant *)

\* Who works on a runtime: a lease holder on one that was built, and
\* connected_provider_changed on the current one.
InUse ==
    \A t \in Tasks :
        /\ pc[t] = "in" => uses[t] \in Runtimes /\ uses[t] <= made
        /\ pc[t] = "connecting" => t \in Admins /\ uses[t] = current
        /\ pc[t] \notin {"in", "connecting"} => uses[t] = 0

\* Nothing happens to a runtime that was not built, and each that was is owned.
Fresh ==
    /\ \A r \in Runtimes :
          r <= made <=> r \in closed \cup retired \cup unpublished \cup {current}
    /\ \A r \in Runtimes : refresh[r] # "none" => r <= made
    /\ \A r \in Runtimes : leases[r] # 0 => r <= made

\* A runtime has one owner, but for the last one once shutdown has begun.
Apart ==
    /\ closed \cap (retired \cup unpublished) = {}
    /\ unpublished \cap (retired \cup {current}) = {}
    /\ current \in retired \cup closed => closing

\* Only retired generations are cleaned up by a task, and nobody leases what
\* is being closed, is closed, or was never published.
Idle ==
    /\ cleaning \subseteq retired
    /\ \A r \in cleaning \cup closed \cup unpublished : leases[r] = 0

\* What the two locks and _closing exclude.
Locked ==
    /\ \A q \in Requests : pc[q] \in {"out", "in", "joining"}
    /\ \A a \in Admins : pc[a] # "out" =>
          replace_lock = a /\ ~closing /\ pc[a] \notin {"asking", "draining"}
    /\ \A c \in Closers :
          /\ pc[c] \in {"out", "asking", "unwinding", "draining", "joining", "discarding"}
          /\ pc[c] # "out" => close_lock = c
          /\ pc[c] = "unwinding" => replace_lock = c
          /\ pc[c] \notin {"out", "asking"} => closing

\* A refresh that has not started is the manager's own, on the current
\* generation; those who have cancelled it know that there is none.
Scheduled ==
    /\ \A r \in Runtimes : refresh[r] = "scheduled" =>
          r = current /\ r = refresh_task /\ ~closing
    /\ \A a \in Admins :
          pc[a] \in {"unwinding", "retrying", "discarding", "dropping"} => refresh_task = 0

\* What a loop has still to visit has not changed hands.
Snapshots ==
    \A t \in Tasks :
        /\ pc[t] \in {"retrying", "draining"} => todo[t] \subseteq retired \cup closed
        /\ pc[t] \in {"discarding", "dropping"} => todo[t] \subseteq unpublished

Inv == InUse /\ Fresh /\ Apart /\ Idle /\ Locked /\ Scheduled /\ Snapshots

\* A release takes one lease at most, and the last release takes the last.
LEMMA DropLeaseIdle ==
    ASSUME TypeOK, NEW r \in Runtimes, NEW waits, DropLease(r, waits)
    PROVE  /\ \A q \in Runtimes : leases'[q] # 0 => leases[q] # 0
           /\ LastRelease(r) => leases'[r] = 0
           /\ cleaning' \subseteq cleaning \cup {r}
           /\ r \in cleaning' => r \in cleaning \/ LastRelease(r)
           /\ UNCHANGED <<made, current, retired, unpublished, closed>>
  BY DEF DropLease, LastRelease, Less, TypeOK

LEMMA AcquireInv ==
    ASSUME TypeOK, Inv, NEW q \in Requests, Acquire(q)
    PROVE  Inv'
  <1>1. InUse'
    BY DEF Acquire, Uses, Go, runtimes, TypeOK, Inv, InUse, Fresh
  <1>2. Fresh'
    BY DEF Acquire, Lease, runtimes, refreshing, Inv, Fresh
  <1>3. Apart'
    BY DEF Acquire, runtimes, Inv, Apart
  <1>4. Idle'
    BY DEF Acquire, Lease, runtimes, Inv, Idle, Apart
  <1>5. Locked'
    BY TasksAssumption DEF Acquire, Go, gates, Inv, Locked
  <1>6. Scheduled'
    BY DEF Acquire, Go, runtimes, refreshing, gates, Inv, Scheduled
  <1>7. Snapshots'
    BY DEF Acquire, Go, runtimes, Inv, Snapshots
  <1> QED  BY <1>1, <1>2, <1>3, <1>4, <1>5, <1>6, <1>7 DEF Inv

LEMMA ReleaseInv ==
    ASSUME TypeOK, Inv, NEW t \in Requests \cup Admins, Release(t)
    PROVE  Inv'
  <1>1. InUse'
    BY DEF Release, DropLease, Uses, Go, Return, TypeOK, Inv, InUse
  <1>2. Fresh'
    <2>1. uses[t] \in Runtimes  BY DEF Inv, InUse, Release, Tasks
    <2>2. DropLease(uses[t], IF LastRelease(uses[t])
                              THEN [awaits EXCEPT ![t] = {uses[t]}] ELSE awaits)
      BY DEF Release
    <2> QED
      BY <2>1, <2>2, DropLeaseIdle DEF Release, refreshing, TypeOK, Inv, Fresh
  <1>3. Apart'
    BY DEF Release, DropLease, gates, Inv, Apart
  <1>4. Idle'
    <2>1. uses[t] \in Runtimes  BY DEF Inv, InUse, Release, Tasks
    <2>2. DropLease(uses[t], IF LastRelease(uses[t])
                              THEN [awaits EXCEPT ![t] = {uses[t]}] ELSE awaits)
      BY DEF Release
    <2> QED
      BY <2>1, <2>2, DropLeaseIdle DEF LastRelease, TypeOK, Inv, Idle
  <1>5. Locked'
    BY DEF Release, Go, Return, Unlocked, gates, TypeOK, Tasks, Inv, Locked
  <1>6. Scheduled'
    BY DEF Release, DropLease, Go, Return, refreshing, gates, TypeOK, Tasks, Inv, Scheduled
  <1>7. Snapshots'
    BY DEF Release, DropLease, Go, Return, TypeOK, Inv, Snapshots
  <1> QED  BY <1>1, <1>2, <1>3, <1>4, <1>5, <1>6, <1>7 DEF Inv

LEMMA JoinedInv ==
    ASSUME TypeOK, Inv, NEW t \in Requests \cup Admins, Joined(t)
    PROVE  Inv'
  <1>1. InUse'
    BY DEF Joined, Return, Go, runtimes, Inv, InUse
  <1>2. Fresh'
    BY DEF Joined, runtimes, refreshing, Inv, Fresh
  <1>3. Apart'
    BY DEF Joined, runtimes, gates, Inv, Apart
  <1>4. Idle'
    BY DEF Joined, runtimes, Inv, Idle
  <1>5. Locked'
    BY DEF Joined, Return, Unlocked, Go, gates, TypeOK, Inv, Locked
  <1>6. Scheduled'
    BY DEF Joined, Return, Go, runtimes, refreshing, gates, Inv, Scheduled
  <1>7. Snapshots'
    BY DEF Joined, Return, Go, runtimes, Inv, Snapshots
  <1> QED  BY <1>1, <1>2, <1>3, <1>4, <1>5, <1>6, <1>7 DEF Inv

LEMMA RefreshStartsInv ==
    ASSUME TypeOK, Inv, NEW r \in Runtimes, RefreshStarts(r)
    PROVE  Inv'
  <1>1. InUse'
    BY DEF RefreshStarts, runtimes, tasks, Inv, InUse
  <1>2. Fresh'
    BY DEF RefreshStarts, Lease, runtimes, TypeOK, Inv, Fresh
  <1>3. Apart'
    BY DEF RefreshStarts, runtimes, gates, Inv, Apart
  <1>4. Idle'
    BY DEF RefreshStarts, Lease, runtimes, TypeOK, Inv, Idle, Apart, Scheduled
  <1>5. Locked'
    BY DEF RefreshStarts, gates, tasks, Inv, Locked
  <1>6. Scheduled'
    BY DEF RefreshStarts, tasks, TypeOK, Inv, Scheduled
  <1>7. Snapshots'
    BY DEF RefreshStarts, runtimes, tasks, Inv, Snapshots
  <1> QED  BY <1>1, <1>2, <1>3, <1>4, <1>5, <1>6, <1>7 DEF Inv

LEMMA RefreshEndsInv ==
    ASSUME TypeOK, Inv, NEW r \in Runtimes, RefreshEnds(r)
    PROVE  Inv'
  <1>1. InUse'
    BY DEF RefreshEnds, DropLease, Inv, InUse
  <1>2. Fresh'
    BY DEF RefreshEnds, DropLease, Inv, Fresh
  <1>3. Apart'
    BY DEF RefreshEnds, DropLease, gates, Inv, Apart
  <1>4. Idle'
    <2>1. DropLease(r, awaits)  BY DEF RefreshEnds
    <2> QED
      BY <2>1, DropLeaseIdle DEF LastRelease, TypeOK, Inv, Idle
  <1>5. Locked'
    BY DEF RefreshEnds, gates, Inv, Locked
  <1>6. Scheduled'
    BY DEF RefreshEnds, DropLease, gates, Inv, Scheduled
  <1>7. Snapshots'
    BY DEF RefreshEnds, DropLease, Inv, Snapshots
  <1> QED  BY <1>1, <1>2, <1>3, <1>4, <1>5, <1>6, <1>7 DEF Inv

LEMMA CleanupInv ==
    ASSUME TypeOK, Inv, NEW r \in Runtimes, NEW ok \in BOOLEAN, Cleanup(r, ok)
    PROVE  Inv'
  <1>1. InUse'
    BY DEF Cleanup, Inv, InUse
  <1>2. Fresh'
    BY DEF Cleanup, Inv, Fresh, Idle
  <1>3. Apart'
    BY DEF Cleanup, gates, Inv, Apart, Idle
  <1>4. Idle'
    BY DEF Cleanup, Inv, Idle
  <1>5. Locked'
    BY DEF Cleanup, gates, Inv, Locked
  <1>6. Scheduled'
    BY DEF Cleanup, gates, Inv, Scheduled
  <1>7. Snapshots'
    BY DEF Cleanup, Inv, Snapshots
  <1> QED  BY <1>1, <1>2, <1>3, <1>4, <1>5, <1>6, <1>7 DEF Inv

LEMMA AdministerInv ==
    ASSUME TypeOK, Inv, NEW a \in Admins, Administer(a)
    PROVE  Inv'
  <1>1. InUse'
    BY DEF Administer, CancelRefresh, Go, runtimes, Inv, InUse
  <1>2. Fresh'
    BY DEF Administer, CancelRefresh, AfterCancel, runtimes, Inv, Fresh
  <1>3. Apart'
    BY DEF Administer, runtimes, Inv, Apart
  <1>4. Idle'
    BY DEF Administer, runtimes, Inv, Idle
  <1>5. Locked'
    BY TasksAssumption DEF Administer, CancelRefresh, Go, gates, Tasks, Inv, Locked
  <1>6. Scheduled'
    BY DEF Administer, CancelRefresh, AfterCancel, TypeOK, Inv, Scheduled
  <1>7. Snapshots'
    BY DEF Administer, CancelRefresh, Visit, Go, runtimes, Inv, Snapshots
  <1> QED  BY <1>1, <1>2, <1>3, <1>4, <1>5, <1>6, <1>7 DEF Inv

LEMMA ExplicitRefreshInv ==
    ASSUME TypeOK, Inv, NEW a \in Admins, ExplicitRefresh(a)
    PROVE  Inv'
  <1>1. InUse'
    BY DEF ExplicitRefresh, RefreshUnwound, Uses, Go, Return, runtimes, TypeOK, Inv, InUse, Fresh
  <1>2. Fresh'
    BY DEF ExplicitRefresh, Lease, runtimes, refreshing, TypeOK, Inv, Fresh
  <1>3. Apart'
    BY DEF ExplicitRefresh, runtimes, gates, Inv, Apart
  <1>4. Idle'
    BY DEF ExplicitRefresh, RefreshUnwound, Lease, runtimes, TypeOK, Inv, Idle, Apart, Locked
  <1>5. Locked'
    BY DEF ExplicitRefresh, RefreshUnwound, Go, Return, gates, TypeOK, Tasks, Inv, Locked
  <1>6. Scheduled'
    BY DEF ExplicitRefresh, RefreshUnwound, runtimes, refreshing, gates, Inv, Scheduled
  <1>7. Snapshots'
    BY DEF ExplicitRefresh, Go, Return, runtimes, TypeOK, Inv, Snapshots
  <1> QED  BY <1>1, <1>2, <1>3, <1>4, <1>5, <1>6, <1>7 DEF Inv

LEMMA RetryRetiredInv ==
    ASSUME TypeOK, Inv, NEW a \in Admins, RetryRetired(a)
    PROVE  Inv'
  <1>1. InUse'
    BY DEF RetryRetired, RefreshUnwound, Go, runtimes, Inv, InUse
  <1>2. Fresh'
    BY DEF RetryRetired, runtimes, refreshing, Inv, Fresh
  <1>3. Apart'
    BY DEF RetryRetired, runtimes, gates, Inv, Apart
  <1>4. Idle'
    BY DEF RetryRetired, runtimes, Inv, Idle
  <1>5. Locked'
    BY DEF RetryRetired, RefreshUnwound, Go, gates, Inv, Locked
  <1>6. Scheduled'
    BY DEF RetryRetired, RefreshUnwound, runtimes, refreshing, gates, Inv, Scheduled
  <1>7. Snapshots'
    BY DEF RetryRetired, Visit, Go, runtimes, TypeOK, Inv, Snapshots
  <1> QED  BY <1>1, <1>2, <1>3, <1>4, <1>5, <1>6, <1>7 DEF Inv

LEMMA RetryNextInv ==
    ASSUME TypeOK, Inv, NEW a \in Admins, RetryNext(a)
    PROVE  Inv'
  <1>1. InUse'
    BY DEF RetryNext, Inv, InUse
  <1>2. Fresh'
    BY DEF RetryNext, refreshing, Inv, Fresh
  <1>3. Apart'
    BY DEF RetryNext, gates, Inv, Apart
  <1>4. Idle'
    BY DEF RetryNext, Retriable, Tasks, Inv, Idle, Snapshots
  <1>5. Locked'
    BY DEF RetryNext, gates, Inv, Locked
  <1>6. Scheduled'
    BY DEF RetryNext, refreshing, gates, Inv, Scheduled
  <1>7. Snapshots'
    BY DEF RetryNext, Visit, Inv, Snapshots
  <1> QED  BY <1>1, <1>2, <1>3, <1>4, <1>5, <1>6, <1>7 DEF Inv

LEMMA RetryUnpublishedInv ==
    ASSUME TypeOK, Inv, NEW a \in Admins, RetryUnpublished(a)
    PROVE  Inv'
  <1>1. InUse'
    BY DEF RetryUnpublished, Go, runtimes, Inv, InUse
  <1>2. Fresh'
    BY DEF RetryUnpublished, runtimes, refreshing, Inv, Fresh
  <1>3. Apart'
    BY DEF RetryUnpublished, runtimes, gates, Inv, Apart
  <1>4. Idle'
    BY DEF RetryUnpublished, runtimes, Inv, Idle
  <1>5. Locked'
    BY DEF RetryUnpublished, Go, gates, Inv, Locked
  <1>6. Scheduled'
    BY DEF RetryUnpublished, runtimes, refreshing, gates, Inv, Scheduled
  <1>7. Snapshots'
    BY DEF RetryUnpublished, Visit, Go, runtimes, TypeOK, Inv, Snapshots
  <1> QED  BY <1>1, <1>2, <1>3, <1>4, <1>5, <1>6, <1>7 DEF Inv

LEMMA DiscardInv ==
    ASSUME TypeOK, Inv, NEW t \in Admins \cup Closers, NEW r \in Runtimes, NEW ok \in BOOLEAN,
         Discard(t, r, ok)
    PROVE  Inv'
  <1>1. InUse'
    BY DEF Discard, Inv, InUse
  <1>2. Fresh'
    BY DEF Discard, refreshing, Tasks, Inv, Fresh, Snapshots
  <1>3. Apart'
    BY DEF Discard, gates, Tasks, Inv, Apart, Snapshots
  <1>4. Idle'
    BY DEF Discard, Tasks, Inv, Idle, Snapshots
  <1>5. Locked'
    BY DEF Discard, gates, Inv, Locked
  <1>6. Scheduled'
    BY DEF Discard, refreshing, gates, Inv, Scheduled
  <1>7. Snapshots'
    BY DEF Discard, Visit, TypeOK, Tasks, Inv, Snapshots, Locked
  <1> QED  BY <1>1, <1>2, <1>3, <1>4, <1>5, <1>6, <1>7 DEF Inv

LEMMA FactoryFailsInv ==
    ASSUME TypeOK, Inv, NEW a \in Admins, FactoryFails(a)
    PROVE  Inv'
  <1>1. InUse'
    BY DEF FactoryFails, Applying, Return, Go, runtimes, Inv, InUse
  <1>2. Fresh'
    BY DEF FactoryFails, runtimes, refreshing, Inv, Fresh
  <1>3. Apart'
    BY DEF FactoryFails, runtimes, gates, Inv, Apart
  <1>4. Idle'
    BY DEF FactoryFails, runtimes, Inv, Idle
  <1>5. Locked'
    BY DEF FactoryFails, Return, Unlocked, Go, gates, TypeOK, Inv, Locked
  <1>6. Scheduled'
    BY DEF FactoryFails, Applying, runtimes, refreshing, gates, Inv, Scheduled
  <1>7. Snapshots'
    BY DEF FactoryFails, Return, Go, runtimes, Inv, Snapshots
  <1> QED  BY <1>1, <1>2, <1>3, <1>4, <1>5, <1>6, <1>7 DEF Inv

LEMMA CommitFailsInv ==
    ASSUME TypeOK, Inv, NEW a \in Admins, CommitFails(a)
    PROVE  Inv'
  <1>1. InUse'
    <2>1. made' = made + 1 /\ made \in Nat
      BY RuntimesAssumption DEF CommitFails, TypeOK, Runtimes
    <2>2. \A r \in Runtimes : r \in Nat  BY RuntimesAssumption DEF Runtimes
    <2>3. /\ pc[a] = "discarding" /\ pc'[a] = "dropping"
          /\ \A t \in Tasks : t # a => pc'[t] = pc[t]
          /\ UNCHANGED <<uses, current>>
      BY DEF CommitFails, Applying, Go, TypeOK, Tasks
    <2>4. ASSUME NEW t \in Tasks
          PROVE  /\ pc'[t] = "in" => uses'[t] \in Runtimes /\ uses'[t] <= made'
                 /\ pc'[t] = "connecting" => t \in Admins /\ uses'[t] = current'
                 /\ pc'[t] \notin {"in", "connecting"} => uses'[t] = 0
      <3>1. CASE t = a  BY <3>1, <2>3 DEF Inv, InUse
      <3>2. CASE t # a  BY <3>2, <2>1, <2>2, <2>3 DEF Inv, InUse
      <3> QED  BY <3>1, <3>2
    <2> QED  BY <2>4 DEF InUse
  <1>2. Fresh'
    <2>1. made' = made + 1 /\ made \in Nat /\ made + 1 \in Nat
      BY RuntimesAssumption DEF CommitFails, TypeOK, Runtimes
    <2>2. \A r \in Runtimes : r \in Nat  BY RuntimesAssumption DEF Runtimes
    <2>3. made + 1 \in Runtimes  BY <2>1, RuntimesAssumption DEF CommitFails, Runtimes
    <2> QED
      BY <2>1, <2>2, <2>3 DEF CommitFails, Applying, refreshing, gates, TypeOK, Inv, Fresh
  <1>3. Apart'
    <2>1. made' = made + 1 /\ made \in Nat /\ made + 1 \in Nat
      BY RuntimesAssumption DEF CommitFails, TypeOK, Runtimes
    <2>2. \A r \in Runtimes : r \in Nat  BY RuntimesAssumption DEF Runtimes
    <2>3. made + 1 \in Runtimes  BY <2>1, RuntimesAssumption DEF CommitFails, Runtimes
    <2> QED
      BY <2>1, <2>2, <2>3 DEF CommitFails, Applying, refreshing, gates, TypeOK, Inv, Apart,
           Fresh, Locked
  <1>4. Idle'
    <2>1. made' = made + 1 /\ made \in Nat /\ made + 1 \in Nat
      BY RuntimesAssumption DEF CommitFails, TypeOK, Runtimes
    <2>2. \A r \in Runtimes : r \in Nat  BY RuntimesAssumption DEF Runtimes
    <2>3. made + 1 \in Runtimes  BY <2>1, RuntimesAssumption DEF CommitFails, Runtimes
    <2> QED
      BY <2>1, <2>2, <2>3 DEF CommitFails, Applying, refreshing, gates, TypeOK, Inv, Idle, Apart,
           Fresh
  <1>5. Locked'
    BY DEF CommitFails, Applying, Go, gates, Inv, Locked
  <1>6. Scheduled'
    BY DEF CommitFails, Applying, refreshing, gates, Inv, Scheduled
  <1>7. Snapshots'
    BY DEF CommitFails, Applying, Visit, Go, Inv, Snapshots
  <1> QED  BY <1>1, <1>2, <1>3, <1>4, <1>5, <1>6, <1>7 DEF Inv

LEMMA DroppedInv ==
    ASSUME TypeOK, Inv, NEW a \in Admins, Dropped(a)
    PROVE  Inv'
  <1>1. InUse'
    BY DEF Dropped, Return, Go, runtimes, Inv, InUse
  <1>2. Fresh'
    BY DEF Dropped, runtimes, refreshing, Inv, Fresh
  <1>3. Apart'
    BY DEF Dropped, runtimes, gates, Inv, Apart
  <1>4. Idle'
    BY DEF Dropped, runtimes, Inv, Idle
  <1>5. Locked'
    BY DEF Dropped, Return, Unlocked, Go, gates, TypeOK, Inv, Locked
  <1>6. Scheduled'
    BY DEF Dropped, runtimes, refreshing, gates, Inv, Scheduled
  <1>7. Snapshots'
    BY DEF Dropped, Return, Go, runtimes, Inv, Snapshots
  <1> QED  BY <1>1, <1>2, <1>3, <1>4, <1>5, <1>6, <1>7 DEF Inv

\* What publication changes, and what is known where it happens.
LEMMA PublishFacts ==
    ASSUME TypeOK, Inv, NEW a \in Admins, Publish(a)
    PROVE  /\ made \in Nat /\ made + 1 \in Runtimes
           /\ made' = made + 1 /\ current' = made + 1
           /\ retired' = retired \cup {current}
           /\ cleaning' \subseteq cleaning \cup {current}
           /\ current \in cleaning' => current \in cleaning \/ leases[current] = 0
           /\ refresh_task' = made + 1
           /\ refresh' = [refresh EXCEPT ![made + 1] = "scheduled"]
           /\ UNCHANGED <<unpublished, closed, leases, closing, uses, todo>>
           /\ pc[a] = "discarding" /\ replace_lock = a /\ ~closing /\ refresh_task = 0
           /\ pc'[a] \in {"joining", "out"}
           /\ \A t \in Tasks : t # a => pc'[t] = pc[t]
           /\ a \in Tasks
  <1>1. made \in Nat /\ made + 1 \in Runtimes
    BY RuntimesAssumption DEF Publish, PublishAnd, TypeOK, Runtimes
  <1>2. /\ made' = made + 1 /\ current' = made + 1
        /\ retired' = retired \cup {current}
        /\ cleaning' \subseteq cleaning \cup {current}
        /\ current \in cleaning' => current \in cleaning \/ leases[current] = 0
        /\ refresh_task' = made + 1
        /\ refresh' = [refresh EXCEPT ![made + 1] = "scheduled"]
        /\ UNCHANGED <<unpublished, closed, leases, closing, uses, todo>>
        /\ pc[a] = "discarding"
    BY DEF Publish, PublishAnd, Applying, gates
  <1>3. a \in Tasks  BY DEF Tasks
  <1>4. replace_lock = a /\ ~closing /\ refresh_task = 0
    BY <1>2 DEF Inv, Locked, Scheduled
  <1>5. /\ pc'[a] \in {"joining", "out"}
        /\ \A t \in Tasks : t # a => pc'[t] = pc[t]
    BY <1>3 DEF Publish, PublishAnd, Return, Go, TypeOK
  <1> QED  BY <1>1, <1>2, <1>3, <1>4, <1>5

LEMMA PublishInv ==
    ASSUME TypeOK, Inv, NEW a \in Admins, Publish(a)
    PROVE  Inv'
  <1> \A r \in Runtimes : r \in Nat  BY RuntimesAssumption DEF Runtimes
  <1>1. InUse'
    <2>1. ASSUME NEW t \in Tasks
          PROVE  /\ pc'[t] = "in" => uses'[t] \in Runtimes /\ uses'[t] <= made'
                 /\ pc'[t] = "connecting" => t \in Admins /\ uses'[t] = current'
                 /\ pc'[t] \notin {"in", "connecting"} => uses'[t] = 0
      <3>1. CASE t = a  BY <3>1, PublishFacts DEF Inv, InUse
      <3>2. CASE t # a
        <4>1. pc[t] # "connecting"  BY <3>2, PublishFacts DEF Inv, InUse, Locked
        <4> QED  BY <3>2, <4>1, PublishFacts DEF Inv, InUse
      <3> QED  BY <3>1, <3>2
    <2> QED  BY <2>1 DEF InUse
  <1>2. Fresh'
    <2>1. ASSUME NEW r \in Runtimes
          PROVE  r <= made' <=> r \in closed' \cup retired' \cup unpublished' \cup {current'}
      <3>1. r <= made + 1 <=> r <= made \/ r = made + 1  BY PublishFacts
      <3> QED  BY <3>1, PublishFacts DEF Inv, Fresh
    <2>2. ASSUME NEW r \in Runtimes  PROVE refresh'[r] # "none" => r <= made'
      <3>1. CASE r = made + 1  BY <3>1, PublishFacts
      <3>2. CASE r # made + 1  BY <3>2, PublishFacts DEF Inv, Fresh, TypeOK
      <3> QED  BY <3>1, <3>2
    <2>3. \A r \in Runtimes : leases'[r] # 0 => r <= made'
      BY PublishFacts DEF Inv, Fresh
    <2> QED  BY <2>1, <2>2, <2>3 DEF Fresh
  <1>3. Apart'
    <2>1. made + 1 \notin closed \cup retired \cup unpublished \cup {current}
      BY PublishFacts DEF Inv, Fresh
    <2>2. current \notin closed  BY PublishFacts DEF Inv, Apart
    <2> QED  BY <2>1, <2>2, PublishFacts DEF Inv, Apart
  <1>4. Idle'  BY PublishFacts DEF Inv, Idle, TypeOK
  <1>5. Locked'
    BY DEF Publish, PublishAnd, Applying, Return, Go, gates, TypeOK, Tasks, Inv, Locked
  <1>6. Scheduled'
    <2>1. ASSUME NEW r \in Runtimes, refresh'[r] = "scheduled"
          PROVE  r = current' /\ r = refresh_task' /\ ~closing'
      <3>1. CASE r = made + 1  BY <3>1, PublishFacts
      <3>2. CASE r # made + 1
        <4>1. refresh[r] = "scheduled"  BY <2>1, <3>2, PublishFacts DEF TypeOK
        <4>2. r = 0  BY <4>1, PublishFacts DEF Inv, Scheduled
        <4> QED  BY <4>2, RuntimesAssumption DEF Runtimes
      <3> QED  BY <3>1, <3>2
    <2>2. ASSUME NEW b \in Admins
          PROVE  pc'[b] \notin {"unwinding", "retrying", "discarding", "dropping"}
      <3>1. CASE b = a  BY <3>1, PublishFacts
      <3>2. CASE b # a
        <4>1. pc[b] = "out"  BY <3>2, PublishFacts DEF Inv, Locked
        <4> QED  BY <3>2, <4>1, PublishFacts DEF Tasks
      <3> QED  BY <3>1, <3>2
    <2> QED  BY <2>1, <2>2 DEF Scheduled
  <1>7. Snapshots'  BY PublishFacts DEF Inv, Snapshots
  <1> QED  BY <1>1, <1>2, <1>3, <1>4, <1>5, <1>6, <1>7 DEF Inv

LEMMA ConnectInv ==
    ASSUME TypeOK, Inv, NEW a \in Admins, Connect(a)
    PROVE  Inv'
  <1>1. InUse'
    BY DEF Connect, Uses, Go, runtimes, TypeOK, Inv, InUse
  <1>2. Fresh'
    BY DEF Connect, runtimes, refreshing, Inv, Fresh
  <1>3. Apart'
    BY DEF Connect, runtimes, Inv, Apart
  <1>4. Idle'
    BY DEF Connect, runtimes, Inv, Idle
  <1>5. Locked'
    BY TasksAssumption DEF Connect, Go, gates, Tasks, Inv, Locked
  <1>6. Scheduled'
    BY DEF Connect, Go, runtimes, refreshing, gates, Inv, Scheduled
  <1>7. Snapshots'
    BY DEF Connect, Go, runtimes, Inv, Snapshots
  <1> QED  BY <1>1, <1>2, <1>3, <1>4, <1>5, <1>6, <1>7 DEF Inv

LEMMA ConnectedInv ==
    ASSUME TypeOK, Inv, NEW a \in Admins, Connected(a)
    PROVE  Inv'
  <1>1. InUse'
    BY DEF Connected, Uses, Return, Go, runtimes, TypeOK, Inv, InUse
  <1>2. Fresh'
    BY DEF Connected, runtimes, refreshing, Inv, Fresh
  <1>3. Apart'
    BY DEF Connected, runtimes, gates, Inv, Apart
  <1>4. Idle'
    BY DEF Connected, runtimes, Inv, Idle
  <1>5. Locked'
    BY DEF Connected, Return, Unlocked, Go, gates, TypeOK, Inv, Locked
  <1>6. Scheduled'
    BY DEF Connected, Return, Go, runtimes, refreshing, gates, Inv, Scheduled
  <1>7. Snapshots'
    BY DEF Connected, Return, Go, runtimes, Inv, Snapshots
  <1> QED  BY <1>1, <1>2, <1>3, <1>4, <1>5, <1>6, <1>7 DEF Inv

LEMMA AskCloseInv ==
    ASSUME TypeOK, Inv, NEW c \in Closers, AskClose(c)
    PROVE  Inv'
  <1>1. InUse'
    BY DEF AskClose, Go, runtimes, Inv, InUse
  <1>2. Fresh'
    BY DEF AskClose, runtimes, refreshing, Inv, Fresh
  <1>3. Apart'
    BY DEF AskClose, runtimes, Inv, Apart
  <1>4. Idle'
    BY DEF AskClose, runtimes, Inv, Idle
  <1>5. Locked'
    BY TasksAssumption DEF AskClose, Go, Tasks, Inv, Locked
  <1>6. Scheduled'
    BY DEF AskClose, Go, runtimes, refreshing, Inv, Scheduled
  <1>7. Snapshots'
    BY DEF AskClose, Go, runtimes, Inv, Snapshots
  <1> QED  BY <1>1, <1>2, <1>3, <1>4, <1>5, <1>6, <1>7 DEF Inv

LEMMA ShutDownInv ==
    ASSUME TypeOK, Inv, NEW c \in Closers, ShutDown(c)
    PROVE  Inv'
  <1>1. InUse'
    BY DEF ShutDown, CancelRefresh, Go, runtimes, Inv, InUse
  <1>2. Fresh'
    BY DEF ShutDown, CancelRefresh, AfterCancel, runtimes, Inv, Fresh
  <1>3. Apart'
    BY DEF ShutDown, runtimes, Inv, Apart
  <1>4. Idle'
    BY DEF ShutDown, runtimes, Inv, Idle
  <1>5. Locked'
    BY TasksAssumption DEF ShutDown, CancelRefresh, Go, Tasks, Inv, Locked
  <1>6. Scheduled'
    BY DEF ShutDown, CancelRefresh, AfterCancel, TypeOK, Inv, Scheduled
  <1>7. Snapshots'
    BY DEF ShutDown, CancelRefresh, Visit, Go, runtimes, Inv, Snapshots
  <1> QED  BY <1>1, <1>2, <1>3, <1>4, <1>5, <1>6, <1>7 DEF Inv

LEMMA RetireCurrentInv ==
    ASSUME TypeOK, Inv, NEW c \in Closers, RetireCurrent(c)
    PROVE  Inv'
  <1>1. InUse'
    BY DEF RetireCurrent, RefreshUnwound, Go, Inv, InUse
  <1>2. Fresh'
    BY DEF RetireCurrent, refreshing, Inv, Fresh
  <1>3. Apart'
    BY DEF RetireCurrent, RefreshUnwound, gates, Inv, Apart, Locked
  <1>4. Idle'
    BY DEF RetireCurrent, Inv, Idle
  <1>5. Locked'
    BY DEF RetireCurrent, RefreshUnwound, Go, gates, TypeOK, Inv, Locked
  <1>6. Scheduled'
    BY DEF RetireCurrent, Go, refreshing, gates, Inv, Scheduled
  <1>7. Snapshots'
    BY DEF RetireCurrent, Visit, Go, TypeOK, Inv, Snapshots
  <1> QED  BY <1>1, <1>2, <1>3, <1>4, <1>5, <1>6, <1>7 DEF Inv

LEMMA CloseAllInv ==
    ASSUME TypeOK, Inv, NEW c \in Closers, CloseAll(c)
    PROVE  Inv'
  <1>1. InUse'
    BY DEF CloseAll, CloseLeft, Go, Inv, InUse
  <1>2. Fresh'
    BY DEF CloseAll, CloseLeft, refreshing, Inv, Fresh
  <1>3. Apart'
    BY DEF CloseAll, CloseLeft, gates, Inv, Apart
  <1>4. Idle'
    BY DEF CloseAll, CloseLeft, Tasks, Inv, Idle, Snapshots
  <1>5. Locked'
    BY DEF CloseAll, CloseLeft, Go, gates, Inv, Locked
  <1>6. Scheduled'
    BY DEF CloseAll, CloseLeft, Go, refreshing, gates, Inv, Scheduled
  <1>7. Snapshots'
    BY DEF CloseAll, CloseLeft, Visit, Go, Inv, Snapshots
  <1> QED  BY <1>1, <1>2, <1>3, <1>4, <1>5, <1>6, <1>7 DEF Inv

LEMMA DiscardAllInv ==
    ASSUME TypeOK, Inv, NEW c \in Closers, DiscardAll(c)
    PROVE  Inv'
  <1>1. InUse'
    BY DEF DiscardAll, Go, runtimes, Inv, InUse
  <1>2. Fresh'
    BY DEF DiscardAll, runtimes, refreshing, Inv, Fresh
  <1>3. Apart'
    BY DEF DiscardAll, runtimes, gates, Inv, Apart
  <1>4. Idle'
    BY DEF DiscardAll, runtimes, Inv, Idle
  <1>5. Locked'
    BY TasksAssumption DEF DiscardAll, Go, gates, Inv, Locked
  <1>6. Scheduled'
    BY DEF DiscardAll, Go, refreshing, Inv, Scheduled, Locked
  <1>7. Snapshots'
    BY DEF DiscardAll, Visit, Go, runtimes, TypeOK, Inv, Snapshots
  <1> QED  BY <1>1, <1>2, <1>3, <1>4, <1>5, <1>6, <1>7 DEF Inv

LEMMA EndCloseInv ==
    ASSUME TypeOK, Inv, NEW c \in Closers, EndClose(c)
    PROVE  Inv'
  <1>1. InUse'
    BY DEF EndClose, Go, runtimes, Inv, InUse
  <1>2. Fresh'
    BY DEF EndClose, runtimes, refreshing, Inv, Fresh
  <1>3. Apart'
    BY DEF EndClose, runtimes, Inv, Apart
  <1>4. Idle'
    BY DEF EndClose, runtimes, Inv, Idle
  <1>5. Locked'
    BY DEF EndClose, Go, TypeOK, Inv, Locked
  <1>6. Scheduled'
    BY DEF EndClose, Go, runtimes, refreshing, Inv, Scheduled
  <1>7. Snapshots'
    BY DEF EndClose, Go, runtimes, Inv, Snapshots
  <1> QED  BY <1>1, <1>2, <1>3, <1>4, <1>5, <1>6, <1>7 DEF Inv

LEMMA CancelInv ==
    ASSUME TypeOK, Inv, NEW t \in Tasks, Cancel(t)
    PROVE  Inv'
  <1>1. InUse'
    BY DEF Cancel, Return, Go, Uses, runtimes, TypeOK, Inv, InUse
  <1>2. Fresh'
    BY DEF Cancel, runtimes, refreshing, Inv, Fresh
  <1>3. Apart'
    BY DEF Cancel, runtimes, Inv, Apart
  <1>4. Idle'
    BY DEF Cancel, runtimes, Inv, Idle
  <1>5. Locked'
    BY DEF Cancel, Return, Unlocked, Go, TypeOK, Inv, Locked
  <1>6. Scheduled'
    BY DEF Cancel, Return, Go, runtimes, refreshing, Inv, Scheduled
  <1>7. Snapshots'
    BY DEF Cancel, Return, Go, Visit, runtimes, Inv, Snapshots
  <1> QED  BY <1>1, <1>2, <1>3, <1>4, <1>5, <1>6, <1>7 DEF Inv

-----------------------------------------------------------------------------
(* Counting leases *)

LEMMA HoldersFinite == \A r \in Runtimes : IsFiniteSet(Holders(r))
  <1> SUFFICES ASSUME NEW r \in Runtimes  PROVE IsFiniteSet(Holders(r))
    OBVIOUS
  <1> DEFINE S == {t \in Tasks : pc[t] = "in" /\ uses[t] = r}
             R == {q \in {r} : refresh[q] \in {"running", "unwinding"}}
  <1>1. IsFiniteSet(S)  BY TasksAssumption, FS_Subset
  <1>2. IsFiniteSet(R)
    <2>1. R \subseteq {r}  OBVIOUS
    <2> QED  BY <2>1, FS_Singleton, FS_Subset
  <1>3. Holders(r) = S \cup R  BY DEF Holders
  <1> QED
    <2> HIDE DEF S, R
    <2> QED  BY <1>1, <1>2, <1>3, FS_Union

LEMMA Took ==
    ASSUME TypeOK, LeasesCounted, NEW r \in Runtimes, NEW x, x \notin Holders(r),
           Holders(r)' = Holders(r) \cup {x},
           \A q \in Runtimes : q # r => Holders(q)' = Holders(q),
           Lease(r)
    PROVE  LeasesCounted'
  <1>1. Cardinality(Holders(r) \cup {x}) = Cardinality(Holders(r)) + 1
    BY HoldersFinite, FS_AddElement
  <1>2. leases'[r] = leases[r] + 1 /\ \A q \in Runtimes : q # r => leases'[q] = leases[q]
    BY DEF Lease, TypeOK
  <1> QED  BY <1>1, <1>2 DEF LeasesCounted

LEMMA Dropped1 ==
    ASSUME TypeOK, LeasesCounted, NEW r \in Runtimes, NEW x \in Holders(r),
           Holders(r)' = Holders(r) \ {x},
           \A q \in Runtimes : q # r => Holders(q)' = Holders(q),
           leases' = [leases EXCEPT ![r] = Less(@)]
    PROVE  LeasesCounted'
  <1>1. Cardinality(Holders(r) \ {x}) = Cardinality(Holders(r)) - 1
    BY HoldersFinite, FS_RemoveElement
  <1>2. Cardinality(Holders(r) \ {x}) \in Nat
    BY HoldersFinite, FS_RemoveElement, FS_CardinalityType
  <1>3. leases[r] \in Nat /\ leases[r] = Cardinality(Holders(r))
    BY DEF LeasesCounted, TypeOK
  <1>4. Less(leases[r]) = leases[r] - 1  BY <1>1, <1>2, <1>3 DEF Less
  <1>5. leases'[r] = Less(leases[r]) /\ \A q \in Runtimes : q # r => leases'[q] = leases[q]
    BY DEF TypeOK
  <1> QED  BY <1>1, <1>3, <1>4, <1>5 DEF LeasesCounted

\* A step that takes no lease and drops none.
Quiet ==
    /\ leases' = leases
    /\ \A t \in Tasks : (pc'[t] = "in" <=> pc[t] = "in")
                         /\ (pc[t] = "in" => uses'[t] = uses[t])
    /\ \A r \in Runtimes :
          refresh'[r] \in {"running", "unwinding"} <=> refresh[r] \in {"running", "unwinding"}

LEMMA QuietCounts == ASSUME TypeOK, LeasesCounted, Quiet PROVE LeasesCounted'
  <1>1. \A r \in Runtimes : Holders(r)' = Holders(r)  BY DEF Quiet, Holders
  <1> QED  BY <1>1 DEF Quiet, LeasesCounted


LEMMA JoinedQuiet == ASSUME TypeOK, NEW t \in Requests \cup Admins, Joined(t)
                PROVE Quiet
  BY DEF Joined, Return, Go, refreshing, Quiet

LEMMA CleanupQuiet == ASSUME TypeOK, NEW r \in Runtimes, NEW ok \in BOOLEAN, Cleanup(r, ok)
                PROVE Quiet
  BY DEF Cleanup, Quiet

LEMMA AdministerQuiet == ASSUME TypeOK, NEW a \in Admins, Administer(a)
                PROVE Quiet
  BY DEF Administer, CancelRefresh, AfterCancel, Go, TypeOK, Quiet

LEMMA RetryRetiredQuiet == ASSUME TypeOK, NEW a \in Admins, RetryRetired(a)
                PROVE Quiet
  BY DEF RetryRetired, RefreshUnwound, Go, refreshing, Quiet

LEMMA RetryNextQuiet == ASSUME TypeOK, NEW a \in Admins, RetryNext(a)
                PROVE Quiet
  BY DEF RetryNext, refreshing, Quiet

LEMMA RetryUnpublishedQuiet == ASSUME TypeOK, NEW a \in Admins, RetryUnpublished(a)
                PROVE Quiet
  BY DEF RetryUnpublished, Go, refreshing, Quiet

LEMMA DiscardQuiet == ASSUME TypeOK, NEW t \in Admins \cup Closers, NEW r \in Runtimes,
     NEW ok \in BOOLEAN, Discard(t, r, ok)
                PROVE Quiet
  BY DEF Discard, refreshing, Quiet

LEMMA FactoryFailsQuiet == ASSUME TypeOK, NEW a \in Admins, FactoryFails(a)
                PROVE Quiet
  BY DEF FactoryFails, Applying, Return, Go, refreshing, Quiet

LEMMA CommitFailsQuiet == ASSUME TypeOK, NEW a \in Admins, CommitFails(a)
                PROVE Quiet
  BY DEF CommitFails, Applying, Go, refreshing, Quiet

LEMMA DroppedQuiet == ASSUME TypeOK, NEW a \in Admins, Dropped(a)
                PROVE Quiet
  BY DEF Dropped, Return, Go, refreshing, Quiet

LEMMA PublishQuiet == ASSUME TypeOK, Inv, NEW a \in Admins, Publish(a)
                PROVE Quiet
  <1>1. \A t \in Tasks : (pc'[t] = "in" <=> pc[t] = "in") /\ uses'[t] = uses[t]
    BY PublishFacts
  <1>2. ASSUME NEW r \in Runtimes
        PROVE  refresh'[r] \in {"running", "unwinding"} <=> refresh[r] \in {"running", "unwinding"}
    <2>1. ~(made + 1 <= made)  BY PublishFacts
    <2>2. refresh[made + 1] = "none"  BY <2>1, PublishFacts DEF Inv, Fresh
    <2> QED  BY <2>2, PublishFacts DEF TypeOK
  <1> QED  BY <1>1, <1>2, PublishFacts DEF Quiet

LEMMA ConnectQuiet == ASSUME TypeOK, NEW a \in Admins, Connect(a)
                PROVE Quiet
  BY DEF Connect, Uses, Go, refreshing, Quiet

LEMMA ConnectedQuiet == ASSUME TypeOK, NEW a \in Admins, Connected(a)
                PROVE Quiet
  BY DEF Connected, Uses, Return, Go, refreshing, Quiet

LEMMA AskCloseQuiet == ASSUME TypeOK, NEW c \in Closers, AskClose(c)
                PROVE Quiet
  BY DEF AskClose, Go, refreshing, Quiet

LEMMA ShutDownQuiet == ASSUME TypeOK, NEW c \in Closers, ShutDown(c)
                PROVE Quiet
  BY DEF ShutDown, CancelRefresh, AfterCancel, Go, TypeOK, Quiet

LEMMA RetireCurrentQuiet == ASSUME TypeOK, NEW c \in Closers, RetireCurrent(c)
                PROVE Quiet
  BY DEF RetireCurrent, RefreshUnwound, Go, refreshing, Quiet

LEMMA CloseAllQuiet == ASSUME TypeOK, NEW c \in Closers, CloseAll(c)
                PROVE Quiet
  BY DEF CloseAll, CloseLeft, Go, refreshing, Quiet

LEMMA DiscardAllQuiet == ASSUME TypeOK, NEW c \in Closers, DiscardAll(c)
                PROVE Quiet
  BY DEF DiscardAll, Go, refreshing, Quiet

LEMMA EndCloseQuiet == ASSUME TypeOK, NEW c \in Closers, EndClose(c)
                PROVE Quiet
  BY DEF EndClose, Go, refreshing, Quiet

LEMMA CancelQuiet == ASSUME TypeOK, NEW t \in Tasks, Cancel(t)
                PROVE Quiet
  BY DEF Cancel, Return, Go, Uses, refreshing, Quiet

LEMMA AcquireCounts ==
    ASSUME TypeOK, LeasesCounted, NEW q \in Requests, Acquire(q)
    PROVE  LeasesCounted'
  <1>1. q \in Tasks /\ q \notin Runtimes /\ pc[q] = "out"
    BY TasksAssumption DEF Acquire, Tasks
  <1>2. PICK r \in Runtimes : r = current  BY DEF TypeOK
  <1>3. q \notin Holders(r)  BY <1>1 DEF Holders
  <1>4. /\ \A t \in Tasks : t # q => pc'[t] = pc[t] /\ uses'[t] = uses[t]
        /\ pc'[q] = "in" /\ uses'[q] = r /\ refresh' = refresh /\ Lease(r)
    BY <1>1, <1>2 DEF Acquire, Go, Uses, refreshing, TypeOK
  <1>5. Holders(r)' = Holders(r) \cup {q}  BY <1>1, <1>4 DEF Holders
  <1>6. \A p \in Runtimes : p # r => Holders(p)' = Holders(p)
    BY <1>1, <1>4 DEF Holders
  <1> QED  BY <1>3, <1>4, <1>5, <1>6, Took

LEMMA ExplicitRefreshCounts ==
    ASSUME TypeOK, LeasesCounted, NEW a \in Admins, ExplicitRefresh(a)
    PROVE  LeasesCounted'
  <1>1. a \in Tasks /\ a \notin Runtimes /\ pc[a] = "unwinding"
    BY TasksAssumption DEF ExplicitRefresh, RefreshUnwound, Tasks
  <1>2. CASE current \in closed
    <2>1. Quiet
      BY <1>1, <1>2 DEF ExplicitRefresh, Return, Go, refreshing, TypeOK, Quiet
    <2> QED  BY <2>1, QuietCounts
  <1>3. CASE current \notin closed
    <2>1. PICK r \in Runtimes : r = current  BY DEF TypeOK
    <2>2. a \notin Holders(r)  BY <1>1 DEF Holders
    <2>3. /\ \A t \in Tasks : t # a => pc'[t] = pc[t] /\ uses'[t] = uses[t]
          /\ pc'[a] = "in" /\ uses'[a] = r /\ refresh' = refresh /\ Lease(r)
      BY <1>1, <1>3, <2>1 DEF ExplicitRefresh, Go, Uses, refreshing, TypeOK
    <2>4. Holders(r)' = Holders(r) \cup {a}  BY <1>1, <2>3 DEF Holders
    <2>5. \A p \in Runtimes : p # r => Holders(p)' = Holders(p)
      BY <1>1, <2>3 DEF Holders
    <2> QED  BY <2>2, <2>3, <2>4, <2>5, Took
  <1> QED  BY <1>2, <1>3

LEMMA ReleaseCounts ==
    ASSUME TypeOK, Inv, LeasesCounted, NEW t \in Requests \cup Admins, Release(t)
    PROVE  LeasesCounted'
  <1>1. t \in Tasks /\ pc[t] = "in" /\ uses[t] \in Runtimes
    BY DEF Release, Tasks, Inv, InUse
  <1>2. PICK r \in Runtimes : r = uses[t]  BY <1>1
  <1>3. t \notin Runtimes  BY <1>1, TasksAssumption
  <1>4. t \in Holders(r)  BY <1>1, <1>2 DEF Holders
  <1>5. /\ \A u \in Tasks : u # t => pc'[u] = pc[u] /\ uses'[u] = uses[u]
        /\ pc'[t] # "in" /\ refresh' = refresh
    BY <1>1 DEF Release, Return, Go, Uses, refreshing, TypeOK
  <1>6. Holders(r)' = Holders(r) \ {t}  BY <1>1, <1>3, <1>5 DEF Holders
  <1>7. \A q \in Runtimes : q # r => Holders(q)' = Holders(q)
    BY <1>1, <1>2, <1>5 DEF Holders
  <1>8. leases' = [leases EXCEPT ![r] = Less(@)]  BY <1>2 DEF Release, DropLease
  <1> QED  BY <1>4, <1>6, <1>7, <1>8, Dropped1

LEMMA RefreshStartsCounts ==
    ASSUME TypeOK, LeasesCounted, NEW r \in Runtimes, RefreshStarts(r)
    PROVE  LeasesCounted'
  <1>1. CASE r \in closed
    <2>1. Quiet  BY <1>1 DEF RefreshStarts, tasks, TypeOK, Quiet
    <2> QED  BY <2>1, QuietCounts
  <1>2. CASE r \notin closed
    <2>1. r \notin Holders(r)  BY TasksAssumption DEF Holders, RefreshStarts
    <2>2. /\ \A q \in Runtimes : q # r => refresh'[q] = refresh[q]
          /\ refresh'[r] = "running" /\ UNCHANGED <<pc, uses>> /\ Lease(r)
      BY <1>2 DEF RefreshStarts, tasks, TypeOK
    <2>3. Holders(r)' = Holders(r) \cup {r}  BY <2>2 DEF Holders
    <2>4. \A q \in Runtimes : q # r => Holders(q)' = Holders(q)  BY <2>2 DEF Holders
    <2> QED  BY <2>1, <2>2, <2>3, <2>4, Took
  <1> QED  BY <1>1, <1>2

LEMMA RefreshEndsCounts ==
    ASSUME TypeOK, LeasesCounted, NEW r \in Runtimes, RefreshEnds(r)
    PROVE  LeasesCounted'
  <1>1. r \in Holders(r)  BY DEF Holders, RefreshEnds
  <1>2. /\ \A q \in Runtimes : q # r => refresh'[q] = refresh[q]
        /\ refresh'[r] \in {"none", "joining"} /\ UNCHANGED <<pc, uses>>
    BY DEF RefreshEnds, TypeOK
  <1>3. Holders(r)' = Holders(r) \ {r}  BY <1>2, TasksAssumption DEF Holders
  <1>4. \A q \in Runtimes : q # r => Holders(q)' = Holders(q)  BY <1>2 DEF Holders
  <1>5. leases' = [leases EXCEPT ![r] = Less(@)]  BY DEF RefreshEnds, DropLease
  <1> QED  BY <1>1, <1>3, <1>4, <1>5, Dropped1

-----------------------------------------------------------------------------
(* The theorems *)

Invariant == TypeOK /\ Inv /\ LeasesCounted

LEMMA Initially == Init => Invariant
  <1> SUFFICES ASSUME Init  PROVE Inv /\ LeasesCounted
    BY InitType DEF Invariant
  <1>1. 1 \in Runtimes /\ \A r \in Runtimes : r \in Nat /\ r # 0 /\ (r <= 1 <=> r = 1)
    BY RuntimesAssumption DEF Runtimes
  <1>2. InUse /\ Fresh  BY <1>1 DEF Init, InUse, Fresh
  <1>3. Apart /\ Idle  BY <1>1 DEF Init, Apart, Idle
  <1>4. Locked /\ Scheduled /\ Snapshots
    BY <1>1 DEF Init, Locked, Scheduled, Snapshots, Tasks
  <1>5. LeasesCounted
    <2>1. \A r \in Runtimes : Holders(r) = {}  BY <1>1 DEF Init, Holders
    <2> QED  BY <2>1, <1>1, FS_EmptySet DEF LeasesCounted, Init
  <1> QED  BY <1>2, <1>3, <1>4, <1>5 DEF Inv

LEMMA Stutters == ASSUME Invariant, UNCHANGED vars PROVE Invariant'
  <1> USE DEF vars, runtimes, refreshing, gates, tasks
  <1>1. TypeOK'  BY StutterType DEF Invariant
  <1>2. InUse' /\ Fresh' /\ Apart' /\ Idle' /\ Locked' /\ Scheduled' /\ Snapshots'
    BY DEF Invariant, Inv, InUse, Fresh, Apart, Idle, Locked, Scheduled, Snapshots
  <1>3. Quiet  BY DEF Quiet
  <1> QED  BY <1>1, <1>2, <1>3, QuietCounts DEF Invariant, Inv

LEMMA BackgroundStep ==
    ASSUME Invariant, NEW r \in Runtimes, Background(r)  PROVE Invariant'
  <1> USE DEF Invariant
  <1>1. TypeOK'  BY BackgroundType
  <1>2. CASE RefreshStarts(r)
    BY <1>1, <1>2, RefreshStartsInv, RefreshStartsCounts
  <1>3. CASE RefreshEnds(r)  BY <1>1, <1>3, RefreshEndsInv, RefreshEndsCounts
  <1>4. ASSUME NEW ok \in BOOLEAN, Cleanup(r, ok)  PROVE Invariant'
    BY <1>1, <1>4, CleanupInv, CleanupQuiet, QuietCounts
  <1> QED  BY <1>2, <1>3, <1>4 DEF Background

LEMMA ReleaseStep ==
    ASSUME Invariant, NEW t \in Requests \cup Admins, Release(t) \/ Joined(t)
    PROVE  Invariant'
  <1> USE DEF Invariant
  <1>1. t \in Tasks  BY DEF Tasks
  <1>2. CASE Release(t)
    <2>1. uses[t] # 0
      BY <1>1, <1>2, RuntimesAssumption DEF Release, Inv, InUse, Runtimes
    <2>2. TypeOK'  BY <1>1, <1>2, <2>1, ReleaseType
    <2> QED  BY <1>2, <2>2, ReleaseInv, ReleaseCounts
  <1>3. CASE Joined(t)
    BY <1>1, <1>3, RequestType, JoinedInv, JoinedQuiet, QuietCounts
  <1> QED  BY <1>2, <1>3

LEMMA DiscardStep ==
    ASSUME Invariant, NEW t \in Admins \cup Closers, Discards(t)  PROVE Invariant'
  <1> USE DEF Invariant
  <1>1. PICK r \in Runtimes, ok \in BOOLEAN : Discard(t, r, ok)  BY DEF Discards
  <1>2. t \in Tasks  BY DEF Tasks
  <1>3. TypeOK'  BY <1>1, <1>2, DiscardType
  <1>4. Inv'  BY <1>1, DiscardInv
  <1>5. Quiet  BY <1>1, DiscardQuiet
  <1> QED  BY <1>3, <1>4, <1>5, QuietCounts

LEMMA ReplaceStep ==
    ASSUME Invariant, NEW a \in Admins, Replacing(a)  PROVE Invariant'
  <1> USE DEF Invariant
  <1>1. TypeOK'  BY ReplacingType DEF Tasks
  <1>2. CASE RetryRetired(a)  BY <1>1, <1>2, RetryRetiredInv, RetryRetiredQuiet, QuietCounts
  <1>3. CASE RetryNext(a)  BY <1>1, <1>3, RetryNextInv, RetryNextQuiet, QuietCounts
  <1>4. CASE RetryUnpublished(a)
    BY <1>1, <1>4, RetryUnpublishedInv, RetryUnpublishedQuiet, QuietCounts
  <1>5. CASE FactoryFails(a)  BY <1>1, <1>5, FactoryFailsInv, FactoryFailsQuiet, QuietCounts
  <1>6. CASE CommitFails(a)  BY <1>1, <1>6, CommitFailsInv, CommitFailsQuiet, QuietCounts
  <1>7. CASE Dropped(a)  BY <1>1, <1>7, DroppedInv, DroppedQuiet, QuietCounts
  <1>8. CASE Publish(a)  BY <1>1, <1>8, PublishInv, PublishQuiet, QuietCounts
  <1>9. CASE Discards(a)  BY <1>9, DiscardStep
  <1> QED
    BY <1>2, <1>3, <1>4, <1>5, <1>6, <1>7, <1>8, <1>9 DEF Replacing

LEMMA AdminStep ==
    ASSUME Invariant, NEW a \in Admins, Administer(a) \/ Connect(a) \/ Administering(a)
    PROVE  Invariant'
  <1> USE DEF Invariant
  <1>1. a \in Tasks  BY DEF Tasks
  <1>2. CASE Administer(a)
    BY <1>1, <1>2, BeginType, AdministerInv, AdministerQuiet, QuietCounts
  <1>3. CASE Connect(a)
    BY <1>1, <1>3, BeginType, ConnectInv, ConnectQuiet, QuietCounts
  <1>4. CASE Connected(a)
    BY <1>1, <1>4, BeginType, ConnectedInv, ConnectedQuiet, QuietCounts
  <1>5. CASE ExplicitRefresh(a)
    BY <1>1, <1>5, ExplicitRefreshType, ExplicitRefreshInv, ExplicitRefreshCounts
  <1>6. CASE Replacing(a)  BY <1>6, ReplaceStep
  <1>7. CASE Release(a) \/ Joined(a)  BY <1>7, ReleaseStep
  <1> QED  BY <1>2, <1>3, <1>4, <1>5, <1>6, <1>7 DEF Administering

LEMMA CloseStep ==
    ASSUME Invariant, NEW c \in Closers, AskClose(c) \/ ShutDown(c) \/ Closing(c)
    PROVE  Invariant'
  <1> USE DEF Invariant
  <1>1. TypeOK'  BY ShutdownType DEF Tasks
  <1>2. CASE AskClose(c)  BY <1>1, <1>2, AskCloseInv, AskCloseQuiet, QuietCounts
  <1>3. CASE ShutDown(c)  BY <1>1, <1>3, ShutDownInv, ShutDownQuiet, QuietCounts
  <1>4. CASE RetireCurrent(c)  BY <1>1, <1>4, RetireCurrentInv, RetireCurrentQuiet, QuietCounts
  <1>5. CASE CloseAll(c)  BY <1>1, <1>5, CloseAllInv, CloseAllQuiet, QuietCounts
  <1>6. CASE DiscardAll(c)  BY <1>1, <1>6, DiscardAllInv, DiscardAllQuiet, QuietCounts
  <1>7. CASE EndClose(c)  BY <1>1, <1>7, EndCloseInv, EndCloseQuiet, QuietCounts
  <1>8. CASE Discards(c)  BY <1>8, DiscardStep
  <1> QED
    BY <1>2, <1>3, <1>4, <1>5, <1>6, <1>7, <1>8 DEF Closing

LEMMA Inductive == Invariant /\ [Next]_vars => Invariant'
  <1> SUFFICES ASSUME Invariant, [Next]_vars  PROVE Invariant'
    OBVIOUS
  <1>1. ASSUME NEW r \in Runtimes, Background(r)  PROVE Invariant'
    BY <1>1, BackgroundStep
  <1>2. ASSUME NEW q \in Requests, Acquire(q)  PROVE Invariant'
    BY <1>2, RequestType, AcquireInv, AcquireCounts DEF Invariant, Tasks
  <1>3. ASSUME NEW q \in Requests, Release(q) \/ Joined(q)  PROVE Invariant'
    BY <1>3, ReleaseStep
  <1>4. ASSUME NEW a \in Admins, Administer(a) \/ Connect(a) \/ Administering(a)
        PROVE  Invariant'
    BY <1>4, AdminStep
  <1>5. ASSUME NEW c \in Closers, AskClose(c) \/ ShutDown(c) \/ Closing(c)
        PROVE  Invariant'
    BY <1>5, CloseStep
  <1>6. ASSUME NEW t \in Tasks, Cancel(t)  PROVE Invariant'
    BY <1>6, CancelType, CancelInv, CancelQuiet, QuietCounts DEF Invariant
  <1>7. CASE Finished \/ UNCHANGED vars  BY <1>7, Stutters DEF Finished
  <1> QED  BY <1>1, <1>2, <1>3, <1>4, <1>5, <1>6, <1>7 DEF Next

LEMMA Always == Spec => []Invariant
  <1> QED  BY Initially, Inductive, PTL DEF Spec

\* No step takes a runtime out of closed.
LEMMA ClosedGrows == ASSUME [Next]_vars PROVE closed \subseteq closed'
  <1> USE DEF runtimes
  <1>1. ASSUME NEW r \in Runtimes, Background(r)  PROVE closed \subseteq closed'
    BY <1>1 DEF Background, RefreshStarts, RefreshEnds, DropLease, Cleanup
  <1>2. ASSUME NEW t \in Tasks, Acquire(t) \/ Release(t) \/ Joined(t) \/ Cancel(t)
        PROVE  closed \subseteq closed'
    BY <1>2 DEF Acquire, Release, DropLease, Joined, Cancel
  <1>3. ASSUME NEW t \in Tasks, Discards(t)  PROVE closed \subseteq closed'
    BY <1>3 DEF Discards, Discard
  <1>4. ASSUME NEW a \in Admins, Administer(a) \/ Connect(a) \/ ExplicitRefresh(a) \/ Connected(a)
        PROVE  closed \subseteq closed'
    BY <1>4 DEF Administer, Connect, ExplicitRefresh, Connected
  <1>5. ASSUME NEW a \in Admins, Replacing(a), ~Discards(a)  PROVE closed \subseteq closed'
    BY <1>5 DEF Replacing, RetryRetired, RetryNext, RetryUnpublished, FactoryFails,
                CommitFails, Dropped, Publish, PublishAnd
  <1>6. ASSUME NEW c \in Closers, AskClose(c) \/ ShutDown(c) \/ Closing(c), ~Discards(c)
        PROVE  closed \subseteq closed'
    BY <1>6 DEF AskClose, ShutDown, Closing, RetireCurrent, CloseAll, CloseLeft,
                DiscardAll, EndClose
  <1>7. CASE Finished \/ UNCHANGED vars  BY <1>7 DEF Finished, vars
  <1> QED
    BY <1>1, <1>2, <1>3, <1>4, <1>5, <1>6, <1>7 DEF Next, Administering, Tasks, Replacing, Closing

\* After ShutDown, admins are out and no refresh is waiting to start.
LEMMA OnlyWindsDown ==
    ASSUME Invariant, [Next]_vars, closing
    PROVE  /\ closing' /\ made' = made /\ current' = current
           /\ \A r \in Runtimes : leases'[r] <= leases[r]
  <1> DEFINE Winds == /\ closing' /\ made' = made /\ current' = current
                      /\ \A r \in Runtimes : leases'[r] <= leases[r]
  <1> USE DEF runtimes, gates
  <1>1. \A r \in Runtimes : leases[r] \in Nat /\ Less(leases[r]) <= leases[r]
    BY DEF Invariant, TypeOK, Less
  <1>2. ASSUME NEW r, NEW waits, DropLease(r, waits)
        PROVE  \A q \in Runtimes : leases'[q] <= leases[q]
    BY <1>1, <1>2 DEF DropLease, Invariant, TypeOK
  <1>3. ASSUME UNCHANGED <<closing, made, current, leases>>  PROVE Winds
    BY <1>1, <1>3
  <1>4. \A a \in Admins : pc[a] = "out"  BY DEF Invariant, Inv, Locked
  <1>5. ASSUME NEW r \in Runtimes, Background(r)  PROVE Winds
    <2>1. ~RefreshStarts(r)  BY DEF RefreshStarts, Invariant, Inv, Scheduled
    <2>2. CASE RefreshEnds(r)  BY <1>2, <2>2 DEF RefreshEnds, DropLease
    <2>3. ASSUME NEW ok \in BOOLEAN, Cleanup(r, ok)  PROVE Winds
      BY <1>3, <2>3 DEF Cleanup
    <2> QED  BY <1>5, <2>1, <2>2, <2>3 DEF Background
  <1>6. ASSUME NEW t \in Tasks, Release(t)  PROVE Winds
    <2>1. PICK r, waits : DropLease(r, waits)  BY <1>6 DEF Release
    <2>2. \A q \in Runtimes : leases'[q] <= leases[q]  BY <1>2, <2>1
    <2>3. UNCHANGED <<closing, made, current>>  BY <1>6, <2>1 DEF Release, DropLease
    <2> QED  BY <2>2, <2>3
  <1>7. ASSUME NEW t \in Tasks, Acquire(t) \/ Joined(t) \/ Cancel(t) \/ Discards(t)
        PROVE  Winds
    BY <1>3, <1>7 DEF Acquire, Joined, Cancel, Discards, Discard
  <1>8. ASSUME NEW a \in Admins,
               Administer(a) \/ Connect(a) \/ Replacing(a) \/ ExplicitRefresh(a) \/ Connected(a)
        PROVE  Winds
    BY <1>4, <1>8 DEF Administer, Connect, Replacing, RetryRetired, RetryNext,
       RetryUnpublished, Discards, Discard, FactoryFails, CommitFails, Dropped, Publish,
       PublishAnd, Applying, ExplicitRefresh, RefreshUnwound, Connected
  <1>9. ASSUME NEW c \in Closers, AskClose(c) \/ ShutDown(c) \/ Closing(c), ~Discards(c)
        PROVE  Winds
    <2>1. closing' /\ UNCHANGED <<made, current, leases>>
      BY <1>9 DEF AskClose, ShutDown, Closing, RetireCurrent, CloseAll, CloseLeft,
                  DiscardAll, EndClose
    <2> QED  BY <1>3, <2>1
  <1>10. CASE Finished \/ UNCHANGED vars  BY <1>3, <1>10 DEF Finished, vars
  <1> QED
    BY <1>5, <1>6, <1>7, <1>8, <1>9, <1>10 DEF Next, Administering, Tasks, Closing

\* The lease counter of a generation is exactly the number of its holders.
THEOREM LeasesCountedCorrect == Spec => []LeasesCounted
  <1>1. Invariant => LeasesCounted  BY DEF Invariant
  <1> QED  BY <1>1, Always, PTL

\* Every reachable state is well typed.
THEOREM GenerationsTypeCorrect == Spec => []TypeOK
  <1>1. Invariant => TypeOK  BY DEF Invariant
  <1> QED  BY <1>1, Always, PTL

\* Every runtime that was built has an owner that will close it, or is closed.
THEOREM NoRuntimeLostCorrect == Spec => []NoRuntimeLost
  <1>1. Invariant => NoRuntimeLost
    <2> SUFFICES ASSUME Invariant  PROVE NoRuntimeLost
      OBVIOUS
    <2>1. made \in 1 .. MaxRuntimes  BY DEF Invariant, TypeOK, Runtimes
    <2>2. \A r \in 1 .. made : r \in Runtimes /\ r <= made
      BY <2>1, RuntimesAssumption DEF Runtimes
    <2> QED  BY <2>2 DEF Invariant, Inv, Fresh, Apart, NoRuntimeLost
  <1> QED  BY <1>1, Always, PTL

\* No runtime is closed, or being closed, under anybody who uses it.
THEOREM NeverClosedInUseCorrect == Spec => []NeverClosedInUse
  <1>1. ASSUME Invariant, NEW r \in Runtimes, UsersOf(r) # {}
        PROVE  r \notin closed \cup cleaning \cup unpublished
    <2> USE DEF Invariant
    <2>1. CASE Holders(r) # {}
      <3>1. leases[r] # 0
        BY <1>1, <2>1, HoldersFinite, FS_EmptySet DEF LeasesCounted
      <3> QED  BY <1>1, <3>1 DEF Inv, Idle
    <2>2. CASE Holders(r) = {}
      <3>1. refresh[r] \notin {"running", "unwinding"}  BY <2>2 DEF Holders
      <3>2. PICK t \in Tasks : uses[t] = r /\ pc[t] # "in"
        BY <1>1, <2>2, <3>1 DEF UsersOf, Holders
      <3>3. r # 0  BY RuntimesAssumption DEF Runtimes
      <3>4. pc[t] = "connecting" /\ t \in Admins /\ r = current
        BY <1>1, <3>2, <3>3 DEF Inv, InUse
      <3> QED  BY <1>1, <3>4 DEF Inv, Locked, Apart, Idle
    <2> QED  BY <2>1, <2>2
  <1>2. Invariant => NeverClosedInUse  BY <1>1 DEF NeverClosedInUse
  <1> QED  BY <1>2, Always, PTL

\* The cleanup of an unpublished runtime never runs twice at once.
THEOREM DiscardedByOneCorrect == Spec => []DiscardedByOne
  <1>1. Invariant => DiscardedByOne
    BY DEF Invariant, Inv, Locked, DiscardedByOne, Tasks
  <1> QED  BY <1>1, Always, PTL

\* Every runtime has an owner, and one only while it is cleaned up.
THEOREM RuntimesAreOwnedCorrect == Spec => []RuntimesAreOwned
  <1>1. NoRuntimeLost /\ DiscardedByOne => RuntimesAreOwned
    BY DEF RuntimesAreOwned
  <1> QED  BY <1>1, NoRuntimeLostCorrect, DiscardedByOneCorrect, PTL

\* A closed runtime stays closed and is not cleaned up again.
THEOREM ClosedOnceCorrect == Spec => ClosedOnce
  <1>1. ASSUME Invariant, Invariant', [Next]_vars
        PROVE  \A r \in closed : r \in closed' /\ r \notin cleaning' \cup retired'
    <2>1. closed \subseteq closed'
      BY <1>1, ClosedGrows
    <2> QED  BY <1>1, <2>1 DEF Invariant, Inv, Apart, Idle
  <1> QED  BY <1>1, Always, PTL DEF Spec, ClosedOnce

\* Once shutdown has begun nothing is built, published or leased.
THEOREM NothingStartsAfterClosingCorrect == Spec => NothingStartsAfterClosing
  <1>1. ASSUME Invariant, [Next]_vars, closing
        PROVE  /\ closing' /\ made' = made /\ current' = current
               /\ \A r \in Runtimes : leases'[r] <= leases[r]
    BY <1>1, OnlyWindsDown
  <1> QED  BY <1>1, Always, PTL DEF Spec, NothingStartsAfterClosing

-----------------------------------------------------------------------------
(* What is due is closed *)

\* A background refresh that awaits a cleanup awaits one that is running.
Watched == \A r \in Runtimes : refresh[r] = "joining" => r \in cleaning

\* What a call of close() knows of the runtimes that are left, in each loop:
\* all retired ones are in its snapshot, it awaits those that are leased, then
\* those that it closes, and whatever remains has made it unclean.
Progress ==
    \A c \in Closers :
        /\ pc[c] \in {"draining", "joining", "discarding"} => current \in retired \cup closed
        /\ pc[c] = "draining" =>
              /\ retired \subseteq todo[c]
              /\ \A r \in todo[c] : leases[r] # 0 => r \in awaits[c]
        /\ pc[c] = "joining" => c \in unclean \/ retired \subseteq awaits[c]
        /\ pc[c] = "discarding" =>
              c \in unclean \/ (retired = {} /\ unpublished \subseteq todo[c])

\* The manager is terminal after its last close() only.
Over ==
    terminal => closing /\ (\A c \in Closers : pc[c] = "out") /\ TerminalMeansAllClosed

ClosingInv == DrainedIsBeingClosed /\ Watched /\ Progress /\ Over

\* An admin that is in the lock excludes shutdown, and shutdown every admin.
LEMMA AdminsAreOut ==
    ASSUME Invariant, closing PROVE \A a \in Admins : pc[a] = "out"
  BY DEF Invariant, Inv, Locked

\* Only one closer at a time is in close().
LEMMA OneCloser ==
    ASSUME Invariant, NEW c \in Closers, NEW d \in Closers, pc[c] # "out", pc[d] # "out"
    PROVE  c = d
  BY DEF Invariant, Inv, Locked

\* No cleanup stops watched by a refresh but together with the refresh's wait.
LEMMA WatchedStep == ASSUME TypeOK, Watched, [Next]_vars PROVE Watched'
  <1> USE DEF runtimes, refreshing, Watched
  <1>1. ASSUME UNCHANGED refresh, cleaning \subseteq cleaning'  PROVE Watched'
    BY <1>1
  <1>2. ASSUME NEW t, CancelRefresh(t), cleaning' = cleaning  PROVE Watched'
    BY <1>2 DEF CancelRefresh, AfterCancel, TypeOK
  <1>3. ASSUME NEW r \in Runtimes, Background(r)  PROVE Watched'
    <2>1. CASE RefreshStarts(r)  BY <2>1 DEF RefreshStarts, TypeOK
    <2>2. CASE RefreshEnds(r)
      <3>1. LastRelease(r) => r \in cleaning'  BY <2>2 DEF RefreshEnds, DropLease
      <3>2. cleaning \subseteq cleaning'  BY <2>2 DEF RefreshEnds, DropLease
      <3> QED  BY <2>2, <3>1, <3>2 DEF RefreshEnds, TypeOK
    <2>3. ASSUME NEW ok \in BOOLEAN, Cleanup(r, ok)  PROVE Watched'
      BY <2>3 DEF Cleanup, TypeOK
    <2> QED  BY <1>3, <2>1, <2>2, <2>3 DEF Background
  <1>4. ASSUME NEW t \in Tasks, Acquire(t) \/ Release(t) \/ Joined(t) \/ Cancel(t) \/ Discards(t)
        PROVE  Watched'
    BY <1>1, <1>4 DEF Acquire, Release, DropLease, Joined, Cancel, Discards, Discard
  <1>5. ASSUME NEW a \in Admins, Connect(a) \/ ExplicitRefresh(a) \/ Connected(a)
        PROVE  Watched'
    BY <1>1, <1>5 DEF Connect, ExplicitRefresh, Connected
  <1>6. ASSUME NEW a \in Admins, Replacing(a), ~Discards(a)  PROVE Watched'
    <2>1. CASE Publish(a)
      <3>1. cleaning \subseteq cleaning'  BY <2>1 DEF Publish, PublishAnd
      <3>2. refresh' = [refresh EXCEPT ![made + 1] = "scheduled"]
        BY <2>1 DEF Publish, PublishAnd
      <3> QED  BY <3>1, <3>2 DEF TypeOK
    <2> QED
      BY <1>1, <1>6, <2>1 DEF Replacing, RetryRetired, RetryNext, RetryUnpublished,
         FactoryFails, CommitFails, Dropped
  <1>7. ASSUME NEW a \in Admins, Administer(a)  PROVE Watched'
    BY <1>2, <1>7 DEF Administer
  <1>8. ASSUME NEW c \in Closers, AskClose(c) \/ Closing(c), ~Discards(c)  PROVE Watched'
    BY <1>1, <1>8 DEF AskClose, Closing, RetireCurrent, CloseAll, CloseLeft, DiscardAll, EndClose
  <1>9. ASSUME NEW c \in Closers, ShutDown(c)  PROVE Watched'
    BY <1>2, <1>9 DEF ShutDown
  <1>10. CASE Finished \/ UNCHANGED vars  BY <1>1, <1>10 DEF Finished, vars
  <1> QED
    BY <1>3, <1>4, <1>5, <1>6, <1>7, <1>8, <1>9, <1>10
    DEF Next, Administering, Tasks, Replacing, Closing

\* Until shutdown, whoever takes the last lease away, or retires a generation
\* that nobody leases, closes it.
LEMMA DrainedStep ==
    ASSUME Invariant, DrainedIsBeingClosed, [Next]_vars, ~closing'
    PROVE  DrainedIsBeingClosed'
  <1> USE DEF runtimes, gates, DrainedIsBeingClosed
  <1>0. ~closing /\ TypeOK  BY OnlyWindsDown DEF Invariant
  <1>1. ASSUME UNCHANGED <<retired, failed, leases>>, cleaning \subseteq cleaning'
        PROVE  DrainedIsBeingClosed'
    BY <1>0, <1>1
  <1>2. ASSUME NEW r \in Runtimes, UNCHANGED <<retired, failed, cleaning>>, Lease(r)
        PROVE  DrainedIsBeingClosed'
    <2>1. \A q \in Runtimes : leases'[q] = 0 => leases[q] = 0  BY <1>0, <1>2 DEF Lease, TypeOK
    <2> QED  BY <1>0, <1>2, <2>1 DEF TypeOK
  <1>3. ASSUME NEW r \in Runtimes, NEW waits, DropLease(r, waits)
        PROVE  DrainedIsBeingClosed'
    <2>1. \A q \in Runtimes : leases'[q] = 0 =>
              leases[q] = 0 \/ (q = r /\ leases[q] = 1)
      BY <1>0, <1>3 DEF DropLease, TypeOK, Less
    <2> QED  BY <1>0, <1>3, <2>1 DEF DropLease, LastRelease, TypeOK
  <1>4. ASSUME NEW r \in Runtimes, Background(r)  PROVE DrainedIsBeingClosed'
    <2>1. CASE RefreshStarts(r)  BY <1>1, <1>2, <2>1 DEF RefreshStarts
    <2>2. CASE RefreshEnds(r)  BY <1>3, <2>2 DEF RefreshEnds
    <2>3. ASSUME NEW ok \in BOOLEAN, Cleanup(r, ok)  PROVE DrainedIsBeingClosed'
      BY <1>0, <2>3 DEF Cleanup
    <2> QED  BY <1>4, <2>1, <2>2, <2>3 DEF Background
  <1>5. ASSUME NEW q \in Tasks, Acquire(q)  PROVE DrainedIsBeingClosed'
    BY <1>0, <1>2, <1>5 DEF Acquire, TypeOK
  <1>6. ASSUME NEW t \in Tasks, Release(t)  PROVE DrainedIsBeingClosed'
    <2>1. uses[t] \in Runtimes  BY <1>6 DEF Release, Invariant, Inv, InUse
    <2> QED  BY <1>3, <1>6, <2>1 DEF Release
  <1>7. ASSUME NEW t \in Tasks, Joined(t) \/ Cancel(t) \/ Discards(t)
        PROVE  DrainedIsBeingClosed'
    BY <1>1, <1>7 DEF Joined, Cancel, Discards, Discard
  <1>8. ASSUME NEW a \in Admins, Administer(a) \/ Connect(a) \/ Connected(a)
        PROVE  DrainedIsBeingClosed'
    BY <1>1, <1>8 DEF Administer, Connect, Connected
  <1>9. ASSUME NEW a \in Admins, ExplicitRefresh(a)  PROVE DrainedIsBeingClosed'
    BY <1>0, <1>1, <1>2, <1>9 DEF ExplicitRefresh, TypeOK
  <1>10. ASSUME NEW a \in Admins, Replacing(a), ~Discards(a)  PROVE DrainedIsBeingClosed'
    <2>1. CASE Publish(a)
      <3>1. /\ retired' = retired \cup {current} /\ UNCHANGED <<failed, leases>>
            /\ cleaning \subseteq cleaning'
            /\ leases[current] = 0 => current \in cleaning'
        BY <2>1 DEF Publish, PublishAnd
      <3> QED  BY <1>0, <3>1
    <2>2. CASE RetryNext(a)  BY <1>1, <2>2 DEF RetryNext
    <2> QED
      BY <1>1, <1>10, <2>1, <2>2 DEF Replacing, RetryRetired, RetryUnpublished,
         FactoryFails, CommitFails, Dropped
  <1>11. ASSUME NEW c \in Closers, AskClose(c) \/ ShutDown(c) \/ Closing(c), ~Discards(c)
        PROVE  DrainedIsBeingClosed'
    <2>1. ~RetireCurrent(c)
      BY <1>0 DEF RetireCurrent, RefreshUnwound, Invariant, Inv, Locked
    <2> QED
      BY <1>1, <1>11, <2>1 DEF AskClose, ShutDown, Closing, CloseAll, CloseLeft, DiscardAll, EndClose
  <1>12. CASE Finished \/ UNCHANGED vars  BY <1>1, <1>12 DEF Finished, vars
  <1> QED
    BY <1>4, <1>5, <1>6, <1>7, <1>8, <1>9, <1>10, <1>11, <1>12
    DEF Next, Administering, Tasks, Replacing, Closing

LEMMA BackgroundProgress ==
    ASSUME Invariant, Progress, closing, NEW r \in Runtimes, Background(r)
    PROVE  Progress'
  <1> USE DEF runtimes, refreshing, gates, tasks
  <1>0. TypeOK /\ Closers \subseteq Tasks  BY DEF Invariant, Tasks
  <1>1. ~RefreshStarts(r)  BY DEF RefreshStarts, Invariant, Inv, Scheduled
  <1>2. CASE RefreshEnds(r)
    <2>1. \A c \in Closers : pc'[c] = pc[c] /\ todo'[c] = todo[c]
      BY <1>2 DEF RefreshEnds
    <2>2. UNCHANGED <<current, retired, closed, unpublished, unclean>>
      BY <1>2 DEF RefreshEnds, DropLease
    <2>3. \A c \in Closers, q \in Runtimes :
             pc[c] = "draining" /\ leases'[q] # 0 =>
                 leases[q] # 0 /\ (q \in awaits[c] => q \in awaits'[c])
      BY <1>0, <1>2 DEF RefreshEnds, DropLease, TypeOK, Less
    <2>4. \A c \in Closers : pc[c] = "joining" => awaits'[c] = awaits[c]
      BY <1>0, <1>2 DEF RefreshEnds, DropLease, TypeOK
    <2>5. \A c \in Closers : todo[c] \subseteq Runtimes  BY <1>0 DEF TypeOK
    <2> QED  BY <2>1, <2>2, <2>3, <2>4, <2>5 DEF Progress
  <1>3. ASSUME NEW ok \in BOOLEAN, Cleanup(r, ok)  PROVE Progress'
    <2>1. UNCHANGED <<current, leases, unpublished, pc, todo>> /\ unclean \subseteq unclean'
      BY <1>3 DEF Cleanup
    <2>2. retired \cup closed \subseteq retired' \cup closed'  BY <1>3 DEF Cleanup
    <2>3. retired' \subseteq retired /\ (r \in retired' => ~ok \/ r \notin retired)
      BY <1>3 DEF Cleanup
    <2>4. \A c \in Closers : pc[c] = "draining" => awaits'[c] = awaits[c]
      BY <1>0, <1>3 DEF Cleanup
    <2>5. \A c \in Closers : pc[c] = "joining" =>
             /\ awaits'[c] = awaits[c] \ {r}
             /\ ~ok /\ r \in awaits[c] => c \in unclean'
      BY <1>0, <1>3 DEF Cleanup
    <2> QED  BY <2>1, <2>2, <2>3, <2>4, <2>5 DEF Progress
  <1> QED  BY <1>1, <1>2, <1>3 DEF Background

LEMMA ReleaseProgress ==
    ASSUME Invariant, Progress, closing, NEW t \in Requests \cup Admins, Release(t)
    PROVE  Progress'
  <1>0. /\ TypeOK /\ Closers \subseteq Tasks /\ t \in Tasks
        /\ \A c \in Closers : c # t
    BY TasksAssumption DEF Invariant, Tasks
  <1>1. PICK r \in Runtimes : r = uses[t]  BY DEF Release, Invariant, Inv, InUse, Tasks
  <1>2. ~LastRelease(r) /\ DropLease(r, awaits)  BY <1>1 DEF Release, LastRelease
  <1>3. \A c \in Closers : pc'[c] = pc[c] /\ todo'[c] = todo[c]
    BY <1>0 DEF Release, Return, Go, TypeOK
  <1>4. UNCHANGED <<current, retired, closed, unpublished, unclean>>
    BY <1>2 DEF Release, DropLease
  <1>5. \A c \in Closers, q \in Runtimes :
           pc[c] = "draining" /\ leases'[q] # 0 =>
               leases[q] # 0 /\ (q \in awaits[c] => q \in awaits'[c])
    BY <1>0, <1>2 DEF DropLease, TypeOK, Less
  <1>6. \A c \in Closers : pc[c] = "joining" => awaits'[c] = awaits[c]
    BY <1>0, <1>2 DEF DropLease, TypeOK
  <1>7. \A c \in Closers : todo[c] \subseteq Runtimes  BY <1>0 DEF TypeOK
  <1> QED  BY <1>3, <1>4, <1>5, <1>6, <1>7 DEF Progress

LEMMA CloserProgress ==
    ASSUME Invariant, Progress, NEW c \in Closers,
           AskClose(c) \/ ShutDown(c) \/ Closing(c)
    PROVE  Progress'
  <1> USE DEF runtimes, gates, tasks
  <1>0. TypeOK /\ c \in Tasks /\ Closers \subseteq Tasks  BY DEF Invariant, Tasks
  <1>1. CASE AskClose(c)
    BY <1>0, <1>1 DEF AskClose, Go, TypeOK, Invariant, Inv, Locked, Progress
  <1>2. ASSUME NEW place, pc[c] # "out", Go(c, place),
               place \in {"draining", "joining", "discarding"} => current' \in retired' \cup closed',
               place = "draining" =>
                 /\ retired' \subseteq todo'[c]
                 /\ \A r \in todo'[c] : leases'[r] # 0 => r \in awaits'[c],
               place = "joining" => c \in unclean' \/ retired' \subseteq awaits'[c],
               place = "discarding" =>
                 c \in unclean' \/ (retired' = {} /\ unpublished' \subseteq todo'[c])
        PROVE  Progress'
    <2>1. pc'[c] = place  BY <1>0, <1>2 DEF Go, TypeOK
    <2>2. \A d \in Closers : d # c => pc'[d] = "out"
      <3> SUFFICES ASSUME NEW d \in Closers, d # c  PROVE pc'[d] = "out"
        OBVIOUS
      <3>1. pc[d] = "out"  BY <1>2, OneCloser
      <3> QED  BY <1>0, <1>2, <3>1 DEF Go, TypeOK
    <2> QED  BY <1>2, <2>1, <2>2 DEF Progress
  <1>3. CASE ShutDown(c)
    BY <1>2, <1>3 DEF ShutDown, CancelRefresh
  <1>4. CASE RetireCurrent(c)
    <2>1. todo'[c] = retired' /\ awaits'[c] = {r \in retired' : leases[r] # 0}
      BY <1>0, <1>4 DEF RetireCurrent, Visit, TypeOK
    <2>2. current' \in retired' \cup closed'  BY <1>4 DEF RetireCurrent
    <2>3. leases' = leases /\ pc[c] # "out" /\ Go(c, "draining")
      BY <1>4 DEF RetireCurrent, RefreshUnwound
    <2> QED  BY <1>2, <2>1, <2>2, <2>3
  <1>5. CASE CloseAll(c)
    <2>1. /\ pc[c] = "draining" /\ awaits[c] = {} /\ Go(c, "joining")
          /\ awaits'[c] = {r \in todo[c] \ closed : leases[r] = 0}
          /\ UNCHANGED <<current, retired, closed>>
      BY <1>0, <1>5 DEF CloseAll, CloseLeft, TypeOK
    <2>2. retired \subseteq todo[c] /\ retired \cap closed = {}
      BY <2>1 DEF Progress, Invariant, Inv, Apart
    <2>3. \A r \in todo[c] : leases[r] = 0  BY <2>1 DEF Progress
    <2>4. retired' \subseteq awaits'[c]  BY <2>1, <2>2, <2>3
    <2>5. current' \in retired' \cup closed'  BY <2>1 DEF Progress
    <2> QED  BY <1>2, <2>1, <2>4, <2>5
  <1>6. CASE DiscardAll(c)
    <2>1. /\ pc[c] = "joining" /\ awaits[c] = {} /\ Go(c, "discarding")
          /\ todo'[c] = unpublished
          /\ UNCHANGED <<current, retired, closed, unpublished, unclean>>
      BY <1>0, <1>6 DEF DiscardAll, Visit, TypeOK
    <2>2. current \in retired \cup closed /\ (c \in unclean \/ retired = {})
      BY <2>1 DEF Progress
    <2> QED  BY <1>2, <2>1, <2>2
  <1>7. CASE Discards(c)
    <2>1. PICK r \in Runtimes, ok \in BOOLEAN : Discard(c, r, ok)  BY <1>7 DEF Discards
    <2>2. pc[c] = "discarding"  BY <2>1 DEF Discard, Invariant, Inv, Locked
    <2>3. Go(c, "discarding")  BY <1>0, <2>1, <2>2 DEF Discard, Go, TypeOK
    <2>4. /\ UNCHANGED <<current, retired>> /\ closed \subseteq closed'
          /\ todo'[c] = todo[c] \ {r}
          /\ ok => unpublished' = unpublished \ {r} /\ unclean' = unclean
          /\ ~ok => c \in unclean'
      BY <1>0, <2>1 DEF Discard, Visit, TypeOK
    <2>5. current \in retired \cup closed
          /\ (c \in unclean \/ (retired = {} /\ unpublished \subseteq todo[c]))
      BY <2>2 DEF Progress
    <2> QED  BY <1>2, <2>2, <2>3, <2>4, <2>5
  <1>8. CASE EndClose(c)
    BY <1>2, <1>8 DEF EndClose
  <1> QED  BY <1>1, <1>3, <1>4, <1>5, <1>6, <1>7, <1>8 DEF Closing

LEMMA ProgressStep ==
    ASSUME Invariant, Invariant', Progress, Over, [Next]_vars
    PROVE  Progress'
  <1> USE DEF runtimes, gates, tasks
  <1>0. TypeOK /\ Closers \subseteq Tasks /\ (~closing => ~terminal)  BY DEF Invariant, Tasks, Over
  <1>1. ASSUME ~closing'  PROVE Progress'
    BY <1>1 DEF Invariant, Inv, Locked, Progress
  <1>2. ASSUME NEW t \in Tasks, Cancel(t)  PROVE Progress'
    <2>1. /\ UNCHANGED <<runtimes, leases, unclean>> /\ pc'[t] = "out"
          /\ \A c \in Closers : c # t => pc'[c] = pc[c] /\ awaits'[c] = awaits[c] /\ todo'[c] = todo[c]
      BY <1>0, <1>2 DEF Cancel, Return, Go, Visit, TypeOK
    <2> QED  BY <2>1 DEF Progress
  <1>3. ASSUME NEW q \in Tasks \ Closers, Joined(q)  PROVE Progress'
    <2>1. UNCHANGED <<runtimes, leases, todo, awaits, unclean>> /\ \A c \in Closers : pc'[c] = pc[c]
      BY <1>0, <1>3 DEF Joined, Return, Go, TypeOK
    <2> QED  BY <2>1 DEF Progress
  <1>4. ASSUME NEW a \in Admins, Administer(a) \/ Connect(a) \/ Connected(a) \/ ExplicitRefresh(a)
        PROVE  ~closing'
    BY <1>4, AdminsAreOut DEF Administer, Connect, Connected, ExplicitRefresh, RefreshUnwound
  <1>5. ASSUME NEW a \in Admins, Replacing(a)  PROVE ~closing'
    BY <1>5, AdminsAreOut DEF Replacing, RetryRetired, RetryNext,
       RetryUnpublished, Discards, Discard, FactoryFails, CommitFails, Dropped, Publish,
       PublishAnd, Applying, RefreshUnwound
  <1>6. ASSUME NEW q \in Requests, Acquire(q)  PROVE ~closing'
    BY <1>6 DEF Acquire
  <1>7. ASSUME NEW r \in Runtimes, Background(r)  PROVE Progress'
    <2>1. CASE closing  BY <1>7, <2>1, BackgroundProgress
    <2>2. CASE ~closing
      BY <1>1, <1>7, <2>2 DEF Background, RefreshStarts, RefreshEnds, Cleanup
    <2> QED  BY <2>1, <2>2
  <1>8. ASSUME NEW t \in Requests \cup Admins, Release(t)  PROVE Progress'
    <2>1. CASE closing  BY <1>8, <2>1, ReleaseProgress
    <2>2. CASE ~closing  BY <1>1, <1>8, <2>2 DEF Release
    <2> QED  BY <2>1, <2>2
  <1>9. CASE Finished \/ UNCHANGED vars  BY <1>9 DEF Finished, vars, Progress
  <1>10. \A t \in Requests \cup Admins : t \in Tasks \ Closers
    BY TasksAssumption DEF Tasks
  <1> QED
    BY <1>1, <1>2, <1>3, <1>4, <1>5, <1>6, <1>7, <1>8, <1>9, <1>10, CloserProgress
    DEF Next, Administering

\* The last close() found nothing left, and nothing happens after it.
LEMMA OverStep ==
    ASSUME Invariant, Invariant', Watched', Progress, Over, [Next]_vars
    PROVE  Over'
  <1> USE DEF runtimes, refreshing, gates, tasks
  <1>0. TypeOK /\ TypeOK' /\ Closers \subseteq Tasks  BY DEF Invariant, Tasks
  <1>1. ASSUME NEW c \in Closers, EndClose(c), c \notin unclean
        PROVE  Over'
    <2>1. /\ closing /\ UNCHANGED <<closing, made, current, retired, closed, cleaning, unpublished, leases, refresh>>
          /\ pc[c] = "discarding" /\ pc' = [pc EXCEPT ![c] = "out"] /\ todo[c] = {}
      BY <1>1 DEF EndClose, Go, Invariant, Inv, Locked
    <2>2. \A d \in Closers : pc'[d] = "out"
      BY <1>0, <2>1, OneCloser DEF TypeOK
    <2>3. retired = {} /\ unpublished = {} /\ current \in closed
      BY <1>1, <2>1 DEF Progress
    <2>4. closed = 1 .. made
      <3>1. \A r \in Runtimes : r <= made <=> r \in closed
        BY <2>3 DEF Invariant, Inv, Fresh
      <3>2. \A r : r \in 1 .. made <=> r \in Runtimes /\ r <= made
        BY <1>0, RuntimesAssumption DEF TypeOK, Runtimes
      <3> QED  BY <1>0, <3>1, <3>2 DEF TypeOK
    <2>5. cleaning = {}  BY <2>3 DEF Invariant, Inv, Idle
    <2>6. \A r \in Runtimes : leases[r] = 0
      BY <2>3 DEF Invariant, Inv, Idle, Fresh
    <2>7. \A r \in Runtimes : refresh[r] = "none"
      <3> SUFFICES ASSUME NEW r \in Runtimes  PROVE refresh[r] = "none"
        OBVIOUS
      <3>1. refresh[r] # "scheduled"  BY <2>1 DEF Invariant, Inv, Scheduled
      <3>2. refresh[r] \notin {"running", "unwinding"}
        BY ZenonT(60), <2>6, HoldersFinite, FS_EmptySet DEF Invariant, LeasesCounted, Holders
      <3>3. refresh[r] # "joining"  BY <2>1, <2>5 DEF Watched
      <3> QED  BY <1>0, <3>1, <3>2, <3>3 DEF TypeOK
    <2> QED  BY <2>1, <2>2, <2>4, <2>5, <2>6, <2>7 DEF Over, TerminalMeansAllClosed
  <1>2. ASSUME UNCHANGED terminal, terminal, [Next]_vars  PROVE Over'
    <2>1. /\ closing /\ closed = 1 .. made /\ cleaning = {}
          /\ (\A r \in Runtimes : leases[r] = 0 /\ refresh[r] = "none")
          /\ \A c \in Closers : pc[c] = "out"
      BY <1>2 DEF Over, TerminalMeansAllClosed
    <2>2. \A a \in Admins : pc[a] = "out"  BY <2>1, AdminsAreOut
    <2>3. \A t \in Tasks : pc[t] # "in"
      <3>1. \A t \in Tasks : pc[t] = "in" => uses[t] \in Runtimes /\ t \in Holders(uses[t])
        BY DEF Invariant, Inv, InUse, Holders
      <3> QED  BY <2>1, <3>1, HoldersFinite, FS_EmptySet DEF Invariant, LeasesCounted
    <2>4. ASSUME UNCHANGED <<closing, terminal, runtimes, leases, refreshing>>,
                 \A c \in Closers : pc'[c] = pc[c]
          PROVE  Over'
      BY <2>1, <2>4 DEF Over, TerminalMeansAllClosed
    <2>5. ASSUME NEW r \in Runtimes, Background(r)  PROVE FALSE
      BY <2>1, <2>5 DEF Background, RefreshStarts, RefreshEnds, Cleanup
    <2>6. ASSUME NEW q \in Tasks, Acquire(q) \/ Release(q)  PROVE FALSE
      BY <1>2, <2>3, <2>6 DEF Acquire, Release
    <2>7. ASSUME NEW t \in Tasks, Cancel(t)  PROVE Over'
      BY <1>0, <2>1, <2>4, <2>7 DEF Cancel, Return, Go, TypeOK
    <2>8. ASSUME NEW t \in Requests \cup Admins, Joined(t)  PROVE Over'
      <3>1. \A c \in Closers : c # t  BY TasksAssumption
      <3> QED  BY <1>0, <2>4, <2>8, <3>1 DEF Joined, Return, Go, TypeOK
    <2>9. ASSUME NEW a \in Admins, Administer(a) \/ Connect(a) \/ Connected(a)
                                  \/ ExplicitRefresh(a) \/ Replacing(a)
          PROVE  FALSE
      BY <2>1, <2>2, <2>9 DEF Administer, Connect, Connected, ExplicitRefresh, RefreshUnwound,
         Replacing, RetryRetired, RetryNext, RetryUnpublished, Discards, Discard, FactoryFails,
         CommitFails, Dropped, Publish, PublishAnd, Applying
    <2>10. ASSUME NEW c \in Closers, AskClose(c) \/ ShutDown(c) \/ Closing(c)  PROVE FALSE
      BY <1>2, <2>1, <2>10 DEF AskClose, ShutDown, Closing, RetireCurrent, RefreshUnwound,
         CloseAll, CloseLeft, DiscardAll, Discards, Discard, EndClose
    <2>11. CASE Finished \/ UNCHANGED vars
      BY <2>4, <2>11 DEF Finished, vars
    <2> QED
      BY <1>2, <2>5, <2>6, <2>7, <2>8, <2>9, <2>10, <2>11 DEF Next, Administering, Tasks
  <1>3. ASSUME ~terminal'  PROVE Over'
    BY <1>3 DEF Over
  <1>4. ASSUME NEW c \in Closers, EndClose(c)  PROVE Over'
    BY <1>1, <1>3, <1>4 DEF EndClose
  <1>5. (\E c \in Closers : EndClose(c)) \/ UNCHANGED terminal
    <2>1. ASSUME NEW r \in Runtimes, Background(r)  PROVE UNCHANGED terminal
      BY <2>1 DEF Background, RefreshStarts, RefreshEnds, Cleanup
    <2>2. ASSUME NEW t \in Tasks, Acquire(t) \/ Release(t) \/ Joined(t) \/ Cancel(t) \/ Discards(t)
          PROVE  UNCHANGED terminal
      BY <2>2 DEF Acquire, Release, Joined, Cancel, Discards, Discard
    <2>3. ASSUME NEW a \in Admins, Administer(a) \/ Connect(a) \/ Connected(a)
                                  \/ ExplicitRefresh(a) \/ Replacing(a), ~Discards(a)
          PROVE  UNCHANGED terminal
      BY <2>3 DEF Administer, Connect, Connected, ExplicitRefresh, Replacing, RetryRetired,
         RetryNext, RetryUnpublished, FactoryFails, CommitFails, Dropped, Publish, PublishAnd
    <2>4. ASSUME NEW c \in Closers, AskClose(c) \/ ShutDown(c) \/ Closing(c), ~Discards(c),
                 ~EndClose(c)
          PROVE  UNCHANGED terminal
      BY <2>4 DEF AskClose, ShutDown, Closing, RetireCurrent, CloseAll, CloseLeft, DiscardAll
    <2>5. CASE Finished \/ UNCHANGED vars  BY <2>5 DEF Finished, vars
    <2> QED
      BY <2>1, <2>2, <2>3, <2>4, <2>5 DEF Next, Administering, Tasks, Replacing, Closing
  <1> QED  BY <1>2, <1>3, <1>4, <1>5

LEMMA ClosingHolds == Spec => []ClosingInv
  <1>1. Init => ClosingInv
    BY RuntimesAssumption DEF Init, ClosingInv, DrainedIsBeingClosed, Watched, Progress, Over,
       Tasks
  <1>2. ASSUME Invariant, Invariant', ClosingInv, [Next]_vars  PROVE ClosingInv'
    <2> USE DEF ClosingInv
    <2>1. Watched'  BY <1>2, WatchedStep DEF Invariant
    <2>2. Progress'  BY <1>2, ProgressStep
    <2>3. Over'  BY <1>2, <2>1, OverStep
    <2>4. CASE closing'  BY <2>1, <2>2, <2>3, <2>4 DEF DrainedIsBeingClosed
    <2>5. CASE ~closing'  BY <1>2, <2>1, <2>2, <2>3, <2>5, DrainedStep
    <2> QED  BY <2>4, <2>5
  <1> QED  BY <1>1, <1>2, Always, PTL DEF Spec

\* Before shutdown a generation without leases is being closed, or its cleanup
\* has failed; a terminal manager has closed every runtime it ever built, and
\* no lease, refresh or cleanup is left.
THEOREM ClosedWhenDueCorrect == Spec => []ClosedWhenDue
  <1>1. Invariant /\ ClosingInv => ClosedWhenDue
    BY DEF ClosingInv, Over, ClosedWhenDue, TerminalMeansAllClosed
  <1> QED  BY <1>1, Always, ClosingHolds, PTL

-----------------------------------------------------------------------------
(* The manager implements RuntimeLeases *)

LeaseStep == [Leases!Next]_<<Leases!life, [r \in Runtimes |-> UsersOf(r)]>>

UsersStay == \A r \in Runtimes : UsersOf(r)' = UsersOf(r)
LifeStays == UNCHANGED <<current, retired, unpublished, closed, cleaning>>

\* Each step of the abstract specification, in the terms of the manager.
LEMMA StepStutters == ASSUME LifeStays, UsersStay PROVE LeaseStep
  <1>1. [r \in Runtimes |-> UsersOf(r)]' = [r \in Runtimes |-> UsersOf(r)]
    BY DEF UsersStay
  <1> QED  BY <1>1 DEF LifeStays, LeaseStep, Leases!life

LEMMA StepJoins ==
    ASSUME TypeOK, NEW u \in Tasks \cup Runtimes, NEW r \in Runtimes, LifeStays,
           r = current, current \notin retired \cup closed,
           \A q \in Runtimes : u \notin UsersOf(q),
           UsersOf(r)' = UsersOf(r) \cup {u},
           \A q \in Runtimes : q # r => UsersOf(q)' = UsersOf(q)
    PROVE  LeaseStep
  <1> DEFINE U == [q \in Runtimes |-> UsersOf(q)]
  <1>1. U' = [U EXCEPT ![r] = @ \cup {u}]  OBVIOUS
  <1>2. r \in {current} \ (retired \cup closed)  OBVIOUS
  <1>3. UNCHANGED Leases!life  BY DEF LifeStays, Leases!life
  <1>4. Leases!Join(r, u)  BY <1>1, <1>2, <1>3 DEF Leases!Join
  <1> QED  BY <1>4 DEF LeaseStep, Leases!Next

LEMMA StepLeaves ==
    ASSUME TypeOK, NEW r \in Runtimes, NEW u \in UsersOf(r), u \in Tasks \cup Runtimes,
           UNCHANGED <<current, retired, unpublished, closed>>,
           unpublished \cap retired = {},
           NEW now \in SUBSET (retired \ cleaning), cleaning' = cleaning \cup now,
           \A q \in now : UsersOf(q)' = {},
           UsersOf(r)' = UsersOf(r) \ {u},
           \A q \in Runtimes : q # r => UsersOf(q)' = UsersOf(q)
    PROVE  LeaseStep
  <1> DEFINE U == [q \in Runtimes |-> UsersOf(q)]
             old == (retired \ cleaning) \cup unpublished
  <1>1. U' = [U EXCEPT ![r] = @ \ {u}]  OBVIOUS
  <1>2. now \in SUBSET {q \in old : U'[q] = {}}  BY DEF TypeOK
  <1>3. old' = old \ now /\ UNCHANGED <<{current} \ (retired \cup closed), closed>>
    OBVIOUS
  <1>4. u \in U[r]  OBVIOUS
  <1>5. Leases!Leave(r, u)
    <2> HIDE DEF U
    <2> QED  BY <1>1, <1>2, <1>3, <1>4 DEF Leases!Leave, U
  <1> QED  BY <1>5 DEF LeaseStep, Leases!Next

LEMMA StepSupersedes ==
    ASSUME TypeOK, NEW r \in Runtimes, UNCHANGED <<unpublished, closed>>, UsersStay,
           current \notin retired \cup closed \cup unpublished, cleaning \subseteq retired,
           r \notin {current} \cup retired \cup unpublished \cup closed,
           current' = r, retired' = retired \cup {current},
           NEW now \in SUBSET {current}, cleaning' = cleaning \cup now,
           \A q \in now : UsersOf(q) = {}
    PROVE  LeaseStep
  <1> DEFINE U == [q \in Runtimes |-> UsersOf(q)]
             serves == {current} \ (retired \cup closed)
             old == (retired \ cleaning) \cup unpublished
  <1>1. U' = U  BY DEF UsersStay
  <1>2. now \in SUBSET {q \in serves : U[q] = {}}  BY DEF TypeOK
  <1>3. serves # {} /\ serves' = {r}  OBVIOUS
  <1>4. r \notin serves \cup old \cup cleaning \cup closed  OBVIOUS
  <1>5. old' = old \cup (serves \ now)  OBVIOUS
  <1>6. Leases!Supersede(r)
    <2>1. \E d \in SUBSET {q \in serves : U[q] = {}} :
             cleaning' = cleaning \cup d /\ old' = old \cup (serves \ d)
      BY <1>2, <1>5
    <2>2. UNCHANGED <<closed, U>>  BY <1>1
    <2>3. serves # {} /\ serves' = {r} /\ r \notin Leases!Known
      BY <1>3, <1>4 DEF Leases!Known
    <2> QED  BY <2>1, <2>2, <2>3 DEF Leases!Supersede
  <1> QED  BY <1>6 DEF LeaseStep, Leases!Next

LEMMA StepAbandons ==
    ASSUME TypeOK, NEW r \in Runtimes, UNCHANGED <<current, retired, closed, cleaning>>, UsersStay,
           current \notin retired \cup closed,
           cleaning \subseteq retired,
           r \notin {current} \cup retired \cup unpublished \cup closed,
           unpublished' = unpublished \cup {r}
    PROVE  LeaseStep
  <1> DEFINE U == [q \in Runtimes |-> UsersOf(q)]
  <1>1. U' = U  BY DEF UsersStay
  <1>2. Leases!Abandon(r)
    <2> HIDE DEF U
    <2> QED  BY <1>1 DEF Leases!Abandon, Leases!Known, U
  <1> QED  BY <1>2 DEF LeaseStep, Leases!Next

LEMMA StepWithdraws ==
    ASSUME TypeOK, UNCHANGED <<current, unpublished, closed, cleaning>>, UsersStay,
           cleaning \subseteq retired,
           retired' = retired \cup ({current} \ closed)
    PROVE  LeaseStep
  <1> DEFINE U == [q \in Runtimes |-> UsersOf(q)]
  <1>1. U' = U  BY DEF UsersStay
  <1>2. Leases!Withdraw
    <2> HIDE DEF U
    <2> QED  BY <1>1 DEF Leases!Withdraw, U
  <1> QED  BY <1>2 DEF LeaseStep, Leases!Next

LEMMA StepDisposes ==
    ASSUME TypeOK, UNCHANGED <<current, retired, unpublished, closed>>, UsersStay,
           unpublished \cap retired = {},
           NEW now \in SUBSET retired, cleaning' = cleaning \cup now,
           \A r \in now : UsersOf(r) = {}
    PROVE  LeaseStep
  <1> DEFINE U == [q \in Runtimes |-> UsersOf(q)]
             old == (retired \ cleaning) \cup unpublished
             begins == now \ cleaning
  <1>1. U' = U  BY DEF UsersStay
  <1>2. begins \in SUBSET {q \in old : U[q] = {}}  BY DEF TypeOK
  <1>3. old' = old \ begins /\ cleaning' = cleaning \cup begins  OBVIOUS
  <1>4. Leases!DisposalBegins
    <2>1. \E d \in SUBSET {q \in old : U[q] = {}} :
             old' = old \ d /\ cleaning' = cleaning \cup d
      BY <1>2, <1>3
    <2>2. UNCHANGED <<{current} \ (retired \cup closed), closed, U>>  BY <1>1
    <2> QED  BY <2>1, <2>2 DEF Leases!DisposalBegins
  <1> QED  BY <1>4 DEF LeaseStep, Leases!Next

LEMMA StepEnds ==
    ASSUME TypeOK, NEW r \in Runtimes, UsersStay, current' = current, closed' = closed \cup {r},
           cleaning \subseteq retired, unpublished \cap retired = {},
           retired' = retired \ {r}, unpublished' = unpublished \ {r},
           cleaning' = cleaning \ {r},
           r = current => r \in retired \cup closed,
           \/ r \in cleaning
           \/ r \in unpublished /\ UsersOf(r) = {}
    PROVE  LeaseStep
  <1> DEFINE U == [q \in Runtimes |-> UsersOf(q)]
             old == (retired \ cleaning) \cup unpublished
             serves == {current} \ (retired \cup closed)
  <1>1. U' = U /\ U[r] = UsersOf(r)  BY DEF UsersStay
  <1>2. old' = old \ {r} /\ serves' = serves  OBVIOUS
  <1>3. r \in cleaning \/ (r \in old /\ UsersOf(r) = {})  OBVIOUS
  <1>4. Leases!DisposalEnds(r)
    <2> HIDE DEF U, old, serves
    <2> QED  BY <1>1, <1>2, <1>3 DEF Leases!DisposalEnds, U, old, serves
  <1> QED  BY <1>4 DEF LeaseStep, Leases!Next

LEMMA StepFails ==
    ASSUME TypeOK, NEW r \in cleaning, UsersStay,
           UNCHANGED <<current, retired, unpublished, closed>>,
           cleaning \subseteq retired, cleaning' = cleaning \ {r}
    PROVE  LeaseStep
  <1> DEFINE U == [q \in Runtimes |-> UsersOf(q)]
  <1>1. U' = U /\ r \in Runtimes  BY DEF UsersStay, TypeOK
  <1>2. Leases!DisposalFails(r)
    <2> HIDE DEF U
    <2> QED  BY <1>1 DEF Leases!DisposalFails, U
  <1> QED  BY <1>1, <1>2 DEF LeaseStep, Leases!Next

\* Who uses a runtime that is not served holds a lease on it.
LEMMA UsersHold ==
    ASSUME Invariant, NEW r \in Runtimes, r \in retired \cup closed \cup unpublished
    PROVE  UsersOf(r) = Holders(r)
  <1>1. r # 0  BY RuntimesAssumption DEF Runtimes
  <1>2. ASSUME NEW t \in Tasks, uses[t] = r, pc[t] # "in"  PROVE FALSE
    <2>1. pc[t] = "connecting" /\ t \in Admins /\ r = current
      BY <1>1, <1>2 DEF Invariant, Inv, InUse
    <2> QED  BY <2>1 DEF Invariant, Inv, Locked, Apart
  <1> QED  BY <1>2 DEF UsersOf, Holders

LEMMA NoUsers ==
    ASSUME Invariant, NEW r \in Runtimes, leases[r] = 0, r \in retired \cup closed \cup unpublished
    PROVE  UsersOf(r) = {}
  BY UsersHold, HoldersFinite, FS_EmptySet DEF Invariant, LeasesCounted

\* Users change with the uses of tasks and the places of refreshes only.
LEMMA SameUsers ==
    ASSUME uses' = uses,
           \A r \in Runtimes :
              refresh'[r] \in {"running", "unwinding"} <=> refresh[r] \in {"running", "unwinding"}
    PROVE  UsersStay
  BY DEF UsersStay, UsersOf

\* A task begins, or stops, to use r.
LEMMA TaskComes ==
    ASSUME TypeOK, NEW r \in Runtimes, NEW t \in Tasks, uses[t] = 0, Uses(t, r), refresh' = refresh
    PROVE  /\ \A q \in Runtimes : t \notin UsersOf(q)
           /\ UsersOf(r)' = UsersOf(r) \cup {t}
           /\ \A q \in Runtimes : q # r => UsersOf(q)' = UsersOf(q)
  <1>1. 0 \notin Runtimes /\ t \notin Runtimes
    BY TasksAssumption, RuntimesAssumption DEF Runtimes
  <1>2. uses'[t] = r /\ \A u \in Tasks : u # t => uses'[u] = uses[u]
    BY DEF Uses, TypeOK
  <1> QED  BY <1>1, <1>2 DEF UsersOf

LEMMA TaskGoes ==
    ASSUME TypeOK, NEW r \in Runtimes, NEW t \in Tasks, uses[t] = r, Uses(t, 0), refresh' = refresh
    PROVE  /\ t \in UsersOf(r)
           /\ UsersOf(r)' = UsersOf(r) \ {t}
           /\ \A q \in Runtimes : q # r => UsersOf(q)' = UsersOf(q)
  <1>1. 0 \notin Runtimes /\ t \notin Runtimes
    BY TasksAssumption, RuntimesAssumption DEF Runtimes
  <1>2. uses'[t] = 0 /\ \A u \in Tasks : u # t => uses'[u] = uses[u]
    BY DEF Uses, TypeOK
  <1> QED  BY <1>1, <1>2 DEF UsersOf

\* The last release of a retired generation leaves it without users.
LEMMA DropLeaseDisposes ==
    ASSUME Invariant, NEW r \in Runtimes, NEW waits, DropLease(r, waits),
           NEW u \in UsersOf(r), u \in Tasks \cup Runtimes,
           UsersOf(r)' = UsersOf(r) \ {u},
           \A q \in Runtimes : q # r => UsersOf(q)' = UsersOf(q)
    PROVE  LeaseStep
  <1> DEFINE now == IF LastRelease(r) THEN {r} ELSE {}
  <1>1. TypeOK /\ unpublished \cap retired = {} /\ UNCHANGED <<current, retired, unpublished, closed>>
    BY DEF Invariant, Inv, Apart, DropLease
  <1>2. cleaning' = cleaning \cup now  BY DEF DropLease
  <1>3. now \in SUBSET (retired \ cleaning)
    BY DEF LastRelease, Invariant, Inv, Idle
  <1>4. \A q \in now : UsersOf(q)' = {}
    <2>1. SUFFICES ASSUME LastRelease(r)  PROVE UsersOf(r) \ {u} = {}
      OBVIOUS
    <2>2. UsersOf(r) = Holders(r) /\ Cardinality(Holders(r)) = 1
      BY <2>1, UsersHold DEF LastRelease, Invariant, LeasesCounted
    <2>3. Cardinality(Holders(r) \ {u}) = 0 /\ IsFiniteSet(Holders(r) \ {u})
      BY <2>2, HoldersFinite, FS_RemoveElement
    <2> QED  BY <2>2, <2>3, FS_EmptySet
  <1> HIDE DEF now
  <1> QED  BY <1>1, <1>2, <1>3, <1>4, StepLeaves

LEMMA BackgroundLeases ==
    ASSUME Invariant, NEW r \in Runtimes, Background(r)
    PROVE  LeaseStep
  <1> USE DEF runtimes, tasks
  <1>0. TypeOK /\ \A q \in Runtimes : q \notin Tasks  BY TasksAssumption DEF Invariant
  <1>1. CASE RefreshStarts(r)
    <2>1. CASE r \in closed
      <3>1. UsersStay  BY <1>0, <1>1, <2>1, SameUsers DEF RefreshStarts, TypeOK
      <3> QED  BY <1>1, <3>1, StepStutters DEF RefreshStarts, LifeStays
    <2>2. CASE r \notin closed
      <3>1. r = current /\ current \notin retired \cup closed
        BY <1>1 DEF RefreshStarts, Invariant, Inv, Scheduled, Apart
      <3>2. refresh' = [refresh EXCEPT ![r] = "running"] /\ refresh[r] = "scheduled"
        BY <1>1, <2>2 DEF RefreshStarts
      <3>3. \A q \in Runtimes : r \notin UsersOf(q)  BY <1>0, <3>2 DEF UsersOf
      <3>4. /\ UsersOf(r)' = UsersOf(r) \cup {r}
            /\ \A q \in Runtimes : q # r => UsersOf(q)' = UsersOf(q)
        BY <1>0, <1>1, <3>2 DEF RefreshStarts, UsersOf, TypeOK
      <3>5. LifeStays  BY <1>1 DEF RefreshStarts, LifeStays
      <3> QED  BY <1>0, <3>1, <3>3, <3>4, <3>5, StepJoins
    <2> QED  BY <2>1, <2>2
  <1>2. CASE RefreshEnds(r)
    <2>1. r \in UsersOf(r)  BY <1>2 DEF RefreshEnds, UsersOf
    <2>2. refresh'[r] \in {"none", "joining"} /\ uses' = uses
          /\ \A q \in Runtimes : q # r => refresh'[q] = refresh[q]
      BY <1>0, <1>2 DEF RefreshEnds, TypeOK
    <2>3. /\ UsersOf(r)' = UsersOf(r) \ {r}
          /\ \A q \in Runtimes : q # r => UsersOf(q)' = UsersOf(q)
      BY <1>0, <2>2 DEF UsersOf
    <2>4. DropLease(r, awaits)  BY <1>2 DEF RefreshEnds
    <2> QED  BY <2>1, <2>3, <2>4, DropLeaseDisposes
  <1>3. ASSUME NEW ok \in BOOLEAN, Cleanup(r, ok)  PROVE LeaseStep
    <2>1. UsersStay  BY <1>0, <1>3, SameUsers DEF Cleanup, TypeOK
    <2>2. /\ r \in cleaning /\ cleaning \subseteq retired /\ unpublished \cap retired = {}
          /\ cleaning' = cleaning \ {r} /\ UNCHANGED <<current, unpublished>>
      BY <1>3 DEF Cleanup, Invariant, Inv, Idle, Apart
    <2>3. CASE ok
      <3>1. retired' = retired \ {r} /\ closed' = closed \cup {r} /\ unpublished' = unpublished \ {r}
        BY <1>3, <2>2, <2>3 DEF Cleanup
      <3> QED  BY <1>0, <2>1, <2>2, <3>1, StepEnds
    <2>4. CASE ~ok
      <3>1. UNCHANGED <<retired, closed>>  BY <1>3, <2>4 DEF Cleanup
      <3> QED  BY <1>0, <2>1, <2>2, <3>1, StepFails
    <2> QED  BY <2>3, <2>4
  <1> QED  BY <1>1, <1>2, <1>3 DEF Background

LEMMA LeaseholderLeases ==
    ASSUME Invariant, NEW t \in Requests \cup Admins,
           Acquire(t) \/ ExplicitRefresh(t) \/ Connect(t) \/ Connected(t) \/ Release(t) \/ Joined(t)
    PROVE  LeaseStep
  <1> USE DEF runtimes, refreshing
  <1>0. TypeOK /\ t \in Tasks /\ current \in Runtimes  BY DEF Invariant, Tasks, TypeOK
  <1>1. ASSUME LifeStays, refresh' = refresh, uses[t] = 0, Uses(t, current),
               current \notin retired \cup closed
        PROVE  LeaseStep
    BY <1>0, <1>1, TaskComes, StepJoins
  <1>2. CASE Acquire(t)
    <2>1. uses[t] = 0 /\ current \notin retired \cup closed
      BY <1>0, <1>2 DEF Acquire, Invariant, Inv, InUse, Apart
    <2> QED  BY <1>1, <1>2, <2>1 DEF Acquire, LifeStays
  <1>3. CASE ExplicitRefresh(t)
    <2>1. uses[t] = 0 /\ ~closing
      BY <1>0, <1>3, AdminsAreOut DEF ExplicitRefresh, RefreshUnwound, Invariant, Inv, InUse
    <2>2. CASE current \in closed
      BY <1>3, <2>2, SameUsers, StepStutters DEF ExplicitRefresh, LifeStays
    <2>3. CASE current \notin closed
      BY <1>1, <1>3, <2>1, <2>3 DEF ExplicitRefresh, LifeStays, Invariant, Inv, Apart
    <2> QED  BY <2>2, <2>3
  <1>4. CASE Connect(t)
    <2>1. uses[t] = 0 /\ current \notin retired \cup closed
      BY <1>0, <1>4 DEF Connect, Invariant, Inv, InUse, Apart
    <2> QED  BY <1>1, <1>4, <2>1 DEF Connect, LifeStays
  <1>5. CASE Connected(t)
    <2>1. PICK r \in Runtimes : r = current  BY <1>0
    <2>2. uses[t] = r /\ Uses(t, 0) /\ refresh' = refresh
      BY <1>0, <1>5, <2>1 DEF Connected, Invariant, Inv, InUse
    <2>3. /\ t \in UsersOf(r) /\ UsersOf(r)' = UsersOf(r) \ {t}
          /\ \A q \in Runtimes : q # r => UsersOf(q)' = UsersOf(q)
      BY <1>0, <2>2, TaskGoes
    <2>4. UNCHANGED <<current, retired, unpublished, closed>> /\ cleaning' = cleaning \cup {}
          /\ unpublished \cap retired = {}
      BY <1>5 DEF Connected, Invariant, Inv, Apart
    <2> QED  BY <1>0, <2>3, <2>4, StepLeaves
  <1>6. CASE Release(t)
    <2>1. PICK r \in Runtimes : r = uses[t]  BY <1>0, <1>6 DEF Release, Invariant, Inv, InUse
    <2>2. PICK waits : DropLease(r, waits)  BY <1>6, <2>1 DEF Release
    <2>3. Uses(t, 0) /\ refresh' = refresh  BY <1>6 DEF Release
    <2>4. /\ t \in UsersOf(r) /\ UsersOf(r)' = UsersOf(r) \ {t}
          /\ \A q \in Runtimes : q # r => UsersOf(q)' = UsersOf(q)
      BY <1>0, <2>1, <2>3, TaskGoes
    <2> QED  BY <1>0, <2>2, <2>4, DropLeaseDisposes
  <1>7. CASE Joined(t)
    BY <1>7, SameUsers, StepStutters DEF Joined, LifeStays
  <1> QED  BY <1>2, <1>3, <1>4, <1>5, <1>6, <1>7

LEMMA DiscardLeases ==
    ASSUME Invariant, NEW t \in Admins \cup Closers, Discards(t)
    PROVE  LeaseStep
  <1> USE DEF runtimes, refreshing
  <1>1. PICK r \in Runtimes, ok \in BOOLEAN : Discard(t, r, ok)  BY DEF Discards
  <1>2. r \in unpublished  BY <1>1 DEF Discard, Invariant, Inv, Snapshots, Tasks
  <1>3. UsersStay  BY <1>1, SameUsers DEF Discard
  <1>4. CASE ok
    <2>1. /\ UNCHANGED <<current, retired, cleaning>> /\ r \notin retired \cup {current}
          /\ closed' = closed \cup {r} /\ unpublished' = unpublished \ {r}
          /\ cleaning \subseteq retired /\ unpublished \cap retired = {}
      BY <1>1, <1>2, <1>4 DEF Discard, Invariant, Inv, Idle, Apart
    <2>2. retired' = retired \ {r} /\ cleaning' = cleaning \ {r}  BY <2>1
    <2>3. UsersOf(r) = {}  BY <1>2, NoUsers DEF Invariant, Inv, Idle
    <2> QED  BY <1>2, <1>3, <2>1, <2>2, <2>3, StepEnds DEF Invariant
  <1>5. CASE ~ok
    BY <1>1, <1>3, <1>5, StepStutters DEF Discard, LifeStays
  <1> QED  BY <1>4, <1>5

LEMMA PublishLeases == ASSUME Invariant, NEW a \in Admins, Publish(a) PROVE LeaseStep
  <1> USE DEF Invariant
  <1>1. /\ made + 1 \in Runtimes /\ current' = made + 1
        /\ retired' = retired \cup {current} /\ ~closing
        /\ UNCHANGED <<unpublished, closed, leases, uses>>
    BY PublishFacts
  <1>2. made + 1 \notin {current} \cup retired \cup unpublished \cup closed
    <2>1. ~(made + 1 <= made)  BY PublishFacts
    <2> QED  BY <1>1, <2>1 DEF Inv, Fresh
  <1>3. current \notin retired \cup closed \cup unpublished /\ cleaning \subseteq retired
    BY <1>1 DEF Inv, Apart, Idle
  <1>4. UsersStay
    <2>1. \A r \in Runtimes :
             refresh'[r] \in {"running", "unwinding"} <=> refresh[r] \in {"running", "unwinding"}
      BY PublishQuiet DEF Quiet
    <2> QED  BY <1>1, <2>1, SameUsers
  <1>5. PICK now \in SUBSET {current} :
           cleaning' = cleaning \cup now /\ (now # {} => leases[current] = 0)
    <2>1. CASE leases[current] = 0
      <3>1. cleaning' = cleaning \cup {current}  BY <2>1 DEF Publish, PublishAnd
      <3> QED  BY <2>1, <3>1
    <2>2. CASE leases[current] # 0
      <3>1. cleaning' = cleaning \cup {}  BY <2>2 DEF Publish, PublishAnd
      <3> QED  BY <3>1
    <2> QED  BY <2>1, <2>2
  <1>6. ASSUME leases[current] = 0  PROVE UsersOf(current) = {}
    <2>1. PICK r \in Runtimes : r = current  BY DEF TypeOK
    <2>2. Holders(r) = {}
      BY <1>6, <2>1, HoldersFinite, FS_EmptySet DEF LeasesCounted
    <2>3. r # 0  BY RuntimesAssumption DEF Runtimes
    <2>4. ASSUME NEW t \in Tasks, uses[t] = r  PROVE FALSE
      <3>1. pc[t] = "connecting" /\ t \in Admins
        BY <2>2, <2>3, <2>4 DEF Inv, InUse, Holders
      <3>2. t = a  BY <3>1, PublishFacts DEF Inv, Locked
      <3> QED  BY <3>1, <3>2, PublishFacts
    <2> QED  BY <2>1, <2>2, <2>4 DEF UsersOf, Holders
  <1>7. \A q \in now : UsersOf(q) = {}  BY <1>5, <1>6
  <1> QED  BY <1>1, <1>2, <1>3, <1>4, <1>5, <1>7, StepSupersedes

LEMMA ReplaceLeases == ASSUME Invariant, NEW a \in Admins, Replacing(a) PROVE LeaseStep
  <1> USE DEF runtimes, refreshing
  <1>0. TypeOK /\ a \in Tasks  BY DEF Invariant, Tasks
  <1>1. ASSUME UNCHANGED <<current, retired, unpublished, closed, cleaning, uses, refresh>>
        PROVE  LeaseStep
    BY <1>1, SameUsers, StepStutters DEF LifeStays
  <1>2. CASE RetryNext(a)
    <2>1. PICK r \in Retriable(a) : cleaning' = cleaning \cup {r}  BY <1>2 DEF RetryNext
    <2>2. r \in retired /\ r \in Runtimes /\ leases[r] = 0
      BY <1>0, <1>2, <2>1 DEF RetryNext, Retriable, Invariant, Inv, Snapshots, TypeOK
    <2>3. \A q \in {r} : UsersOf(q) = {}  BY <2>2, NoUsers
    <2>4. UNCHANGED <<current, retired, unpublished, closed>> /\ UsersStay
          /\ unpublished \cap retired = {}
      BY <1>2, SameUsers DEF RetryNext, Invariant, Inv, Apart
    <2> QED  BY ZenonT(60), <1>0, <2>1, <2>2, <2>3, <2>4, StepDisposes
  <1>3. CASE CommitFails(a)
    <2>1. made + 1 \in Runtimes /\ ~(made + 1 <= made)
      BY <1>0, <1>3, RuntimesAssumption DEF CommitFails, TypeOK, Runtimes
    <2>2. made + 1 \notin {current} \cup retired \cup unpublished \cup closed
      BY <2>1 DEF Invariant, Inv, Fresh
    <2>3. current \notin retired \cup closed /\ cleaning \subseteq retired
      BY <1>3, AdminsAreOut DEF CommitFails, Applying, Invariant, Inv, Apart, Idle
    <2>4. /\ UNCHANGED <<current, retired, closed, cleaning>> /\ UsersStay
          /\ unpublished' = unpublished \cup {made + 1}
      BY <1>3, SameUsers DEF CommitFails
    <2> QED  BY <1>0, <2>1, <2>2, <2>3, <2>4, StepAbandons
  <1>4. CASE RetryRetired(a) \/ RetryUnpublished(a) \/ FactoryFails(a) \/ Dropped(a)
    BY <1>1, <1>4 DEF RetryRetired, RetryUnpublished, FactoryFails, Dropped
  <1> QED  BY <1>2, <1>3, <1>4, PublishLeases, DiscardLeases DEF Replacing

LEMMA CancelRefreshUsers ==
    ASSUME TypeOK, NEW t, CancelRefresh(t), uses' = uses  PROVE UsersStay
  <1>1. \A r \in Runtimes :
           refresh'[r] \in {"running", "unwinding"} <=> refresh[r] \in {"running", "unwinding"}
    BY DEF CancelRefresh, AfterCancel, TypeOK
  <1> QED  BY <1>1, SameUsers

LEMMA CloserLeases ==
    ASSUME Invariant, NEW c \in Closers, AskClose(c) \/ ShutDown(c) \/ Closing(c)
    PROVE  LeaseStep
  <1> USE DEF runtimes, refreshing
  <1>0. TypeOK /\ c \in Tasks  BY DEF Invariant, Tasks
  <1>1. ASSUME UNCHANGED <<current, retired, unpublished, closed, cleaning, uses, refresh>>
        PROVE  LeaseStep
    BY <1>1, SameUsers, StepStutters DEF LifeStays
  <1>2. CASE AskClose(c) \/ DiscardAll(c) \/ EndClose(c)
    BY <1>1, <1>2 DEF AskClose, DiscardAll, EndClose
  <1>3. CASE ShutDown(c)
    BY <1>0, <1>3, CancelRefreshUsers, StepStutters DEF ShutDown, LifeStays
  <1>4. CASE RetireCurrent(c)
    <2>1. /\ UNCHANGED <<current, unpublished, closed, cleaning>> /\ UsersStay
          /\ retired' = retired \cup ({current} \ closed) /\ cleaning \subseteq retired
      BY <1>4, SameUsers DEF RetireCurrent, Invariant, Inv, Idle
    <2> QED  BY <1>0, <2>1, StepWithdraws
  <1>5. CASE CloseAll(c)
    <2> DEFINE idle == {r \in todo[c] \ closed : leases[r] = 0}
    <2>1. cleaning' = cleaning \cup idle  BY <1>5 DEF CloseAll, CloseLeft
    <2>2. todo[c] \subseteq retired \cup closed
      BY <1>0, <1>5 DEF CloseAll, CloseLeft, Invariant, Inv, Snapshots
    <2>3. idle \in SUBSET retired  BY <2>2
    <2>4. \A r \in idle : UsersOf(r) = {}
      <3>1. \A r \in idle : r \in Runtimes /\ r \in retired /\ leases[r] = 0
        BY <1>0, <2>3 DEF TypeOK
      <3> QED  BY <3>1, NoUsers
    <2>5. UNCHANGED <<current, retired, unpublished, closed>> /\ UsersStay
          /\ unpublished \cap retired = {}
      BY <1>5, SameUsers DEF CloseAll, CloseLeft, Invariant, Inv, Apart
    <2> HIDE DEF idle
    <2> QED  BY <1>0, <2>1, <2>3, <2>4, <2>5, StepDisposes
  <1> QED  BY <1>2, <1>3, <1>4, <1>5, DiscardLeases DEF Closing

LEMMA CancelLeases == ASSUME Invariant, NEW t \in Tasks, Cancel(t) PROVE LeaseStep
  <1> USE DEF runtimes, refreshing
  <1>0. TypeOK  BY DEF Invariant
  <1>1. CASE uses[t] = 0
    <2>1. uses' = uses  BY <1>0, <1>1 DEF Cancel, Uses, TypeOK
    <2> QED  BY <2>1, SameUsers, StepStutters DEF Cancel, LifeStays
  <1>2. CASE uses[t] # 0
    <2>1. PICK r \in Runtimes : r = uses[t]  BY <1>0, <1>2 DEF TypeOK
    <2>2. Uses(t, 0) /\ refresh' = refresh  BY DEF Cancel
    <2>3. /\ t \in UsersOf(r) /\ UsersOf(r)' = UsersOf(r) \ {t}
          /\ \A q \in Runtimes : q # r => UsersOf(q)' = UsersOf(q)
      BY <1>0, <2>1, <2>2, TaskGoes
    <2>4. UNCHANGED <<current, retired, unpublished, closed>> /\ cleaning' = cleaning \cup {}
          /\ unpublished \cap retired = {}
      BY DEF Cancel, Invariant, Inv, Apart
    <2> QED  BY <1>0, <2>3, <2>4, StepLeaves
  <1> QED  BY <1>1, <1>2

LEMMA StepIsLeaseStep == ASSUME Invariant, [Next]_vars PROVE LeaseStep
  <1>1. ASSUME NEW a \in Admins, Administer(a)  PROVE LeaseStep
    BY <1>1, CancelRefreshUsers, StepStutters DEF Administer, LifeStays, runtimes, Invariant
  <1>2. CASE Finished \/ UNCHANGED vars
    BY <1>2, SameUsers, StepStutters DEF Finished, vars, runtimes, refreshing, tasks, LifeStays
  <1> QED
    BY <1>1, <1>2, BackgroundLeases, LeaseholderLeases, ReplaceLeases, CloserLeases, CancelLeases
    DEF Next, Administering

\* The manager implements RuntimeLeases: one runtime is served at a time, users
\* join only that one, and what was superseded, abandoned or withdrawn is
\* disposed of when nobody uses it any more.
THEOREM ImplementsLeasesCorrect == Spec => ImplementsLeases
  <1>1. Init => Leases!Init
    <2> SUFFICES ASSUME Init  PROVE Leases!Init
      OBVIOUS
    <2>1. \A r \in Runtimes : r # 0 /\ UsersOf(r) = {}
      BY RuntimesAssumption DEF Init, UsersOf, Runtimes
    <2> QED  BY <2>1 DEF Init, Leases!Init
  <1> QED
    BY <1>1, StepIsLeaseStep, Always, PTL DEF Spec, ImplementsLeases, Leases!Spec, LeaseStep
=============================================================================
