# AgentSwitchboard in TLA+

AgentSwitchboard (`src/src/free_claude_code/`, abbreviated `fcc/` below) is a
local proxy between coding agents and model providers. One asyncio process
serves the API, runs Discord and Telegram bots that drive managed Claude Code
sessions, and owns everything in between. Its hard part is not the conversion
of messages but who owns what while tasks are suspended, cancelled or late.
That is what these modules specify.

## 1. The system

| Component | Files (`fcc/`) | State it keeps | Operations | Interacts with | Hard because |
|---|---|---|---|---|---|
| Provider admission | `providers/admission.py`, `core/rate_limit.py` | recovery episode (leader, probe, deadlines, waiters), semaphore, sliding window, a retry budget per execution | open_attempt, succeeded, rejected, corrected, retry, aclose, run_with_retry | the stream runners call it; one per provider runtime | every await is a point of cancellation; permits go stale while their holders wait; one failure is shared by many executions |
| Stream runners | `providers/openai_chat/provider.py`, `providers/openai_codex/provider.py` | the open attempt, the response, what has been committed | stream, early retry, mid-stream recovery, close | admission, stream recovery, auth | order of clean-up in `finally`; an attempt opened inside another one |
| Stream recovery | `providers/stream_recovery.py`, `providers/failure_policy.py` | held-back events, deadline, committed | push, flush, discard, decide | runners | a deadline races a pending read |
| Provider generations | `runtime/provider_manager.py`, `providers/runtime/runtime.py` | current, retired and unpublished runtimes, leases, refresh task, two locks | acquire, release, replace, refresh, connected_provider_changed, close | API requests, admin, startup and shutdown | replacement and shutdown concurrent with leases and with clean-up that fails |
| Model discovery | `providers/runtime/discovery.py`, `model_cache.py`, `model_metadata_catalog.py` | cached model lists | warm, refresh, filter | provider generations | late results of older refreshes |
| Conversation trees | `messaging/trees/*.py` | trees of messages, per tree a queue and a claim, tasks, an index of references | admit, claim, complete, fail, cancel, remove, snapshot, restore | workflow, session store | tasks outlive the nodes they work for; commands edit a tree in mid-run |
| Messaging workflow | `messaging/workflow.py`, `turn_intake.py`, `node_runner.py`, `node_event_pipeline.py` | intake generation, state lock, startup notice | handle message, stop, clear, run node, close | trees, store, managed sessions, delivery | a status is sent between the decision to admit and the admission; drains time out |
| Session store | `messaging/session/*.py` | conversations, message log, a debounced file | save, remove, clear, flush, load | workflow, trees | timer threads against the event loop; a crash inside the debounce |
| Delivery | `messaging/limiter.py`, `platforms/outbox.py` | compacting queue, worker, futures | enqueue, fire_and_forget, shutdown | platforms | compaction against the worker; shutdown with work in every place |
| Voice notes | `messaging/voice.py`, `platforms/voice_flow.py` | reservations, handoff tasks, who cancels | reserve, bind, handoff, discard, cancel | workflow | a handoff may cancel itself, or another that cancels it |
| Managed sessions | `cli/managed/*.py` | pending and real ids, closing sessions, processes | get_or_create, register, remove, stop_all, start_task, stop | node runner | stop against natural exit; two locks |
| Application runtime | `runtime/application.py`, `bootstrap.py`, `asgi.py` | the whole ownership graph | start, close, apply config | all of the above | ordered gates, any of which fails and is retried |
| API and responses | `api/*.py`, `api/handlers/*.py` | one lease per response | handle, stream, close | provider generations, runners | a response is closed from several sides |
| Codex auth | `providers/openai_codex/auth.py`, `core/interprocess_lock.py` | credentials, a login attempt, a file shared by processes | login, access, recover, disconnect, close | Codex runner, admin | two processes and threads that cannot be cancelled |
| Stream ledger | `core/anthropic/streaming/*.py` | open and closed content blocks | start, delta, stop, recover | runners | recovery resumes in the middle of a block |
| The rest | conversion, routing, configuration, learning, usage, web tools, computer use, CLI and TUI | per request, or behind one lock or one SQLite transaction | | | sequential |

`PROJECT.json` lists each of them with its status, and the hazards at their lines.

What makes each component correct, in a line: *admission* probes a failing
provider once at a time, wakes whoever waits and loses no slot; *generations*
are never closed in use and always closed in the end; *trees* run one turn at a
time in order, strand none, resurrect none; the *store* holds what lives and
what it wrote can be restored; *delivery* resolves every future; *voice notes*
are handed off or cancelled, once; *sessions* leave no process behind;
*shutdown* closes in order and resumes where it failed; *auth*
refreshes once for all processes and leaves no login behind a close; a *response* is one message
of one attempt, or an honest failure, and its lease goes last.

## 2. The modules

| Module | Is | Of |
|---|---|---|
| `ProviderAdmission` | detailed specification | `providers/admission.py`, the limiter, and the three callers |
| `RecoveryGate` | abstract specification that `ProviderAdmission` implements | the circuit breaker of ARCHITECTURE.md |
| `ProviderAdmissionProofs` | theorems | |
| `ProviderGenerations` | detailed specification | `runtime/provider_manager.py` |
| `RuntimeLeases` | abstract specification that `ProviderGenerations` implements | a runtime is served, superseded, going, gone |
| `ProviderGenerationsProofs` | theorems | |
| `StreamResponses` | specification | one `POST /v1/messages`: route, response, chat runner, holdback, ledger |
| `StreamResponsesProofs` | theorems | |
| `ConversationTrees` | detailed specification | `messaging/trees/`, intake, runner, commands, store |
| `TurnQueue` | abstract specification that `ConversationTrees` implements | a first-in first-out line for each tree |
| `Queues` | what is left of a queue, for both of the above | `messaging/trees/queue.py`, `remove` |
| `MCConversationTrees` | symmetry and a constraint for TLC | |
| `ConversationTreesProofs` | theorems | |
| `SessionPersistence` | specification | `messaging/session/persistence.py` and the saves of the store |
| `SessionPersistenceProofs` | theorems | |
| `MessageDelivery` | specification | `messaging/limiter.py` |
| `VoiceNotes` | specification | `messaging/voice.py`, `platforms/voice_flow.py`, and the commands they meet |
| `MessagingProofs` | theorems about `MessageDelivery` and about `VoiceNotes` | |
| `ManagedSessions` | variables and actions, no specification of its own | `cli/managed/`, and the runner that uses it |
| `ServerLifecycle` | specification, extends `ManagedSessions` | the supervisor, `runtime/application.py`, `runtime/asgi.py`, over the sessions of its turns |
| `ServerLifecycleProofs` | theorems | |
| `CodexAuth` | specification | `providers/openai_codex/auth.py`, in several processes |
| `CodexAuthProofs` | theorems | |

The modules share one convention. A step is what one asyncio task does between
two suspension points, since nothing else can run in between; a section under a
lock of threads is one step for the same reason. A lock that is never held
across an await does not appear; one that is (`_replace_lock`, `_close_lock`,
the workflow's state lock, `_writer_lock`, `_lifecycle_lock`, the lock of the
credential file) is a variable. Cancellation is an action of its own at every
await that can receive it. A definition whose comment begins with "Mutant" or
"Bug" is a plausible bug that some property must notice; the specifications do
not use it. Variables marked "history" record what has happened for a property
and influence nothing; "external" ones stand for a service outside the program.

How they fit together: `ProviderAdmission` opens the attempts that
`StreamResponses` reads, and `ProviderGenerations` owns the lease that it
releases; each takes the others' results as choices. `ConversationTrees` assumes
a file that may lag behind the store, which is what `SessionPersistence`
promises; it treats a turn's work as one claim, whose inside is the turn of
`ManagedSessions`. `ServerLifecycle` composes the turns and their sessions with
the graph that opens and closes around them.

### ProviderAdmission

`pc[s]` says where execution `s` is: at the `gate`, `waiting` on the condition or
`woken` by it, `sleeping` out a backoff, in the `limiter`, waiting for a `slot`,
`active` upstream, `streaming` past the first answer, `closing` its attempt, or
`between` two attempts. `episode` is `_RecoveryEpisode` and `generation[s]` the
permit `s` holds. The actions `Gate*` are the branches of `_wait_for_gate`;
`Limiter*` and `Slot*` are `open_attempt`; `Succeed`, `Reject`, `Correct` and
`Fail*` are the outcomes of an attempt (`Fail*` together are
`_attempt_failed`); `Finish`, `EarlyRetry`, `MidstreamRecovery`, `Close` and
`Reopen` are the callers' loops; `Cancel*` and `LeaveBetween` are cancellation.
Clocks are replaced by what they decide: `BackoffElapses`, `CooldownElapses` and
`WindowSlides` happen at any time after their deadline was set.

The three kinds of callers are told apart by the constants `Chat` and `Codex`.
A chat execution may open a second attempt while its first is not closed
(`outer`). A Codex execution may correct an attempt and may be cancelled between
two attempts or inside its `finally` clause (`leaked`).

### ProviderGenerations

A runtime is numbered by the order in which it was built. Tasks are requests
(anyone who holds a lease), admins (replace, refresh, connected account) and
closers. `pc[t]` is where a task is suspended, `todo[t]` and `awaits[t]` what its
loop or gather has left. Clean-up of a generation is a shared task (`cleaning`)
that may fail; clean-up of an unpublished candidate is done by the task that met
it. The background refresh of each generation is a small process of its own
(`refresh`), created with the generation and leasing it when it first runs.

### StreamResponses

`req` is where the request task is: before its first frame, collecting an
aggregate, sending, awaiting the next frame, unwinding a cancellation,
finalizing. `run` is where the chat runner is; being an asynchronous generator,
it moves only while somebody awaits its next frame (`Awaited`) or closes it, and
`out` holds the frames it yields before it goes on. `ledger` holds the blocks of
the current attempt, `held` and `committed` are the holdback buffer, `read` the
upstream read that is still pending after the deadline. The operators of the
ledger return the frames that go with a change. `MayReplay` and `MayRecover` are
`advance_failure`; `Salvage`, `Repair` and `Continue` the three ways of
`_recovery_events`; `Leaving` is the `finally` clause, run by the request task or
by the finalization task (`cleanup`). `seen` is what the client has got.

### ConversationTrees

A turn is one admission of a message: it is the `MessageNode`, its status message
and the one claim it can get. A tree is named by the turn at its root, since the
same message, and so the same `TreeIdentity`, may be admitted again after a
`/clear`. `task[t]` follows the task of a claim: launched but not entered,
running, over, finishing the transition, or being recovered because it was
cancelled before it entered its body. `inbox` is turn intake: the status is
being sent, and the generation and parent it was decided with may be stale.
`cmd` is the command that holds the state lock: draining its tasks, at most for
`CANCEL_TASK_DRAIN_TIMEOUT_S`, then saving the snapshots it captured earlier.
`store` is the session store and `disk` the file, which may lag (`Write`) and is
what a `Restart` begins from.

### SessionPersistence

The content of the store is a version, greater with every change. The event loop
changes and saves; each debounce timer is a thread, named by the save generation
it was started for. `pc[t]` goes through `_write_pending` and `write_data`:
claiming the timer, taking the snapshot (`pending[t]`), waiting for
`_writer_lock` (`writer`), replacing the file (`disk`), marking the store clean.
`promised` is the version a caller was told is saved. `Restart` loses everything
but the file.

### MessageDelivery

Updates are numbered in the order in which the limiter is called, `key` says of
which message each is. `queue` and `entry` are the queue and its compaction map,
`job` what the worker has taken, `shown` what the platform shows. `future` is what
became of each update: awaited by a caller (`pending`) or by its task (`background`,
`backoff`), settled, or `scheduled`: not in the queue yet.

`enqueue()` reaches its first suspension, `await future`, with the update in the queue
(no section under `_condition` waits, so its lock is free whenever a step
begins): that is one step, `Ask`. `fire_and_forget()` returns with nothing but a
task created (limiter.py:334), and the update is queued when that task first runs
(limiter.py:297 calls `enqueue()`): these are two steps, `FireAndForget` and
`TaskEnqueues`, and the second is also what a retry does. In between, an update of the
same message that is awaited is queued first, the worker may take and send it, and
the limiter may shut down, which cancels the task or has its `enqueue()` refuse
(`Joined`, `TaskRefused`): the update was accepted and is not sent. The event loop
runs ready tasks in the order in which they became ready, so of those that have yet
to run the oldest runs first (`Wakes`); nothing is assumed of their order relative to the
worker, to callers and to tasks that wake up from a backoff. `overtook` is a history
variable: the earlier updates of its key that an update went before. The outbox has a
`fire_and_forget` of its own, which wraps whole operations in tasks
(outbox.py:106-113); what those tasks do with the limiter starts with one of
the two calls above, and it is these that are numbered.

### VoiceNotes

A claim is one delivery of a note. `flow` is the task of `VoiceNoteFlow.handle`,
`hand` the handoff task the registry starts, and `op` a command, typed or spoken;
a spoken one runs inside its handoff and shields itself from cancellation.
`pending` is the registry, `took[o]` what a command has taken out of it, and
`Protected` and `Selected` are the rules by which commands spare each other.

### ManagedSessions and ServerLifecycle

`at[t]` follows the runner of a turn: looking its session up, launching the
process, reading its output, removing the session, with cancellations at each
await and a second `/stop` while it cleans up. A session is called by the turn
that created it; `known`, `named` and `closing` are the tables of the manager,
`lock` its lock, `life[s]` the lifecycle lock of a session, `shield[s]` the
`stop()` that start_task runs under a shield (one for each session: readers of it
that are cancelled together find the first one's at work), `pids` the process registry.

`ServerLifecycle` adds the supervisor (`run`, `generation`, `seen`, `server`), the
event loop of the runtime (`phase`, through start-up, serving and the gates of
`close()`), what the runtime owns and has not released (`owned`), and who else
stops turns (`commanding`). uvicorn is external: it serves until `should_exit`.

### CodexAuth

A manager is a process; its tasks are a request that wants access, a login in the
background and the calls of its Admin pages. Credentials are numbered in the
order of issue; `live` and `stale` are OpenAI's view of them. `saved` is the file and
`file_lock` the lock between processes. Files are read and written by threads:
when a task is cancelled while it awaits one, its write joins `orphans` and
happens later, under no lock.

## 3. What is model-checked

| Run | Properties | Shows |
|---|---|---|
| `ProviderAdmission_all` | TypeOK, OneProbe, RecoveryIsOwned, SlotsAccountedFor, EpisodesAreRespected, ImplementsBreaker, EveryExecutionEnds | one caller of each kind, cancelled anywhere: one prober, no sleeper without a waker, balanced slots, no harm by stale attempts, final outcomes final, the circuit breaker, and an end to every execution |
| `ProviderGenerations_all` | TypeOK, NeverClosedInUse, RuntimesAreOwned, ClosedWhenDue, NothingStartsAfterClosing, ImplementsLeases, CloseReturns | a request, two admins and two shutdowns over three runtimes, everything free to fail and to be cancelled; deadlock is checked |
| `StreamResponses_all` | StreamIsSound, LeaseOutlivesBody, ResponseEnds | replays, recoveries and repairs add up to one message, a failure looks like one, and the lease goes after the body, whoever closes it |
| `ConversationTrees_safety` | ClaimsHaveTasks, StructuresAgree, ClearedIsGone, QueueIsServed, Restorable, StoppedStaysStopped, ImplementsTurnQueue | many small trees of two chats, or one tree against three commands; the file after any step |
| `ConversationTrees_restart` | EverythingSettles | turns and messages settle, across a restart |
| `SessionPersistence_all` | FileIsSound, NeverGoesBack, SavesEnd | timers, flushes and authoritative writes race for the file |
| `MessageDelivery_all` | QueueIsSound, NothingComesBack, FuturesResolve | compaction against worker, tasks that queue later or again, and shutdown |
| `VoiceNotes_all` | NotesAreOwned, EverythingEnds | deliveries, handoffs and commands that cancel each other |
| `ServerLifecycle_all` | WorkHasItsResources, SessionsAreOwned, RestartsAreClean, RequestsHonoured | turns, processes, gates that fail, restarts and a stop at any moment |
| `CodexAuth_all` | RefreshIsDeduplicated, LoginsAreOwned, CallsReturn | two processes over one file |
| `ProviderAdmission_transfer`, `CodexAuth_cancel` | refuted, see section 6 | |

The runs have between a hundred thousand and 1.2 million distinct states and take
from ten seconds to two and a half minutes on two cores. Except for the provider
manager, whose `Finished` step marks the one legitimate end, deadlock is not
checked: executions, turns, updates and commands are bounded in number, so that
those systems may stop; what must not stop early is stated as liveness.

**Bounds, and why they are enough.** *Admission*: two attempts make a first
failure, a probe and an exhausted budget; three executions a leader, a waiter and
a stale attempt; two slots for three make the semaphore bind. *Generations*:
three runtimes make a current one, a retired one and an unpublished candidate at
once; two admins and two closers meet at each lock; further requests differ only
in a count, which the theorems cover for any number. *Streams*: three attempts
make a replay, a recovery and a last attempt held back for one; two chunks make
two blocks of different kinds, or two open tool calls, on either side of the
commit (three chunks, two million states, were checked once with the same
result). *Trees*: three turns make a claim, a successor and a
descendant of either, or three trees; two chats separate `/clear` of a chat from
the global one; three commands stop, clear and stop again while the first claim
still drains. Message ids and chats are interchangeable, which
`MCConversationTrees` states as a symmetry; its constraint `Shape` keeps to
either several trees or one tree with more commands. The run with a liveness
property uses neither. *Persistence*: three versions make one on its way to the
file, one superseded in a snapshot, and one in the store. *Delivery*: three
updates of two messages make one being sent, one compacted and one of another key;
two faults make a retry and its failure. *Voice*: two notes can cancel each other,
and the second delivery of one of them meets the handoff of the first. *Lifecycle*:
two turns make one that resumes the other's session, or one that starts while the
other is stopped; one fault is put at every step that can fail, one restart makes
an old runtime and a new one. *Codex auth*: two processes and two tokens make a
refresh by one while the other waits for the file; two Admin calls make a login
and whatever interrupts it.

**Fairness.** `WF` on every task's own steps: the event loop runs each ready task,
and threads get to run. `SF` on taking an `asyncio.Lock` (ShutDown; the admission
of a message behind the state lock; the waiting calls of `CodexAuth`): the lock
serves its waiters in order, so none is overtaken for ever. Upstream calls and
platform calls end because of their timeouts; agent processes end or are
stopped; deadlines pass; uvicorn shuts down when told to. No fairness is assumed
of what nobody has to do: a new request, a failure, a cancellation, a command, a
crash, a restart.

## 4. What is proved

TLAPS proves the following for every value of the constants that satisfies the
named assumptions (finitely many tasks, disjoint kinds, positive limits).

`ProviderAdmissionProofs`
- **TypeCorrect**, by itself inductive. That `sem` stays natural needs no count of
  holders: it only falls where the guard says it is positive.
- **OneProbeCorrect**. OneProbe alone is not inductive: an execution that is let
  through with a permit could meet another whose episode has been replaced. The
  strengthening `ProbeHolds` says that whoever holds a permit of a generation
  holds the gate: the open episode is of that generation, led by it, and has its
  probe active. Each step either moves nobody's permit and leaves the gate alone
  (`GateKept`), or belongs to the only holder (`NobodyElse`).
- **RecoveryIsOwnedCorrect**. Its inductive invariant `RecoveryInv` adds to
  `ProbeHolds` what makes a wake-up certain: what is no episode, or a terminal one,
  has no leader (`Vacant`), the leader waits for nobody and attempts nothing but
  its own probe (`Led`), and whoever shares a failure or a terminal outcome is
  nowhere from where it would go on to an attempt (`Coalesced`).
- **SlotsAccountedForCorrect**, by counting: a step takes a slot and gains one
  holder, or gives one back and loses one, or moves no holder.
- **EpisodesAreRespectedCorrect**, an action property, from the same invariants.
- **ImplementsBreakerCorrect**: the refinement of `RecoveryGate`. Each branch of the
  gate and each outcome of an attempt is one step of the breaker or a stutter.

`ProviderGenerationsProofs`
- **GenerationsTypeCorrect**, **LeasesCountedCorrect**, **RuntimesAreOwnedCorrect**
  (from NoRuntimeLostCorrect and DiscardedByOneCorrect), **NeverClosedInUseCorrect**,
  and the action properties **ClosedOnceCorrect** and
  **NothingStartsAfterClosingCorrect**. The inductive
  invariant is `TypeOK /\ Inv /\ LeasesCounted`. `Inv` has seven parts: whose use
  excludes a clean-up (`InUse`), where each runtime may be (`Fresh`, `Apart`), what
  an idle task holds (`Idle`), what the holder of the replace lock may assume
  (`Locked`), which refresh is pending (`Scheduled`) and what a loop's snapshot may
  still contain (`Snapshots`). `Locked` is why connected_provider_changed may use
  the current runtime without a lease. LeasesCounted is proved through the
  cardinality of the holders: a step takes one lease and gains one holder, drops
  one and loses one, or is `Quiet`.
- **ClosedWhenDueCorrect**. That nothing is left when the manager is terminal is not
  a matter of the last step: `ClosingInv` follows the loop of close() through its
  snapshot, what it awaits and what has made it unclean (`Progress`) to its end
  (`Over`), and says that a background refresh awaits only a clean-up that runs
  (`Watched`).
- **ImplementsLeasesCorrect**: the refinement of `RuntimeLeases`. There is one lemma for
  each abstract step (a user joins or leaves, a runtime is superseded, abandoned,
  withdrawn, disposed of, ends or fails to), then one for each kind of task.

`SessionPersistenceProofs`
- **FileIsSoundCorrect** and **NeverGoesBackCorrect**, for any number of changes,
  failures and crashes. Neither is inductive: that a late writer does no harm rests
  on what every thread holds. The invariant says that generations order snapshots
  (`Ahead`, `Changing`, `Older`), that a snapshot of the current generation is the
  store itself once a change is complete (`Latest`), that whoever may still
  begin to write is at least as new as whoever is writing (`InOrder`), so that the
  file only grows (`Growing`), and that the event loop's own write is not
  superseded while it runs (`Mine`, `Kept`), which is what it promises to its caller.
  There is one lemma for each kind of step.

`StreamResponsesProofs`
- **LeaseOutlivesBodyCorrect**, for any number of attempts and chunks and whatever
  the frames contain. It is not inductive alone: that nothing upstream is open when
  the body is closed rests on where the runner is. The invariant follows the three
  parties: whoever works on a response has the lease and has not begun to finalize
  it (`Holding`), the finalization task releases it as its last act (`Finalizing`),
  whoever has an upstream stream open has the finally clause ahead of it
  (`Closing`), and the route releases only the lease of a body that is over (`Over`).
- **StreamIsSoundCorrect**, for any number of attempts and chunks and any tools. What
  the client has got says nothing of what may follow: a block that a recovery
  continues may be open in the client's hands, in the send buffer, in what the runner
  has yielded, or in the holdback buffer. The invariant `FramesInv` therefore speaks
  of the `Transcript`, all four of them in this order. According to where the runner is
  (`Underway`) it is the beginning of a message that agrees with the ledger block by
  block (`Whole`), or a message that is over. What the client has is the beginning of a
  message, to which nothing is added once nobody asks for more (`Outcome`). Each operator
  of the ledger extends a message that agrees with the ledger before by frames that
  agree with the ledger after (`OpenGrows`, `DeltaGrows`, `CloseGrows`, `FinishEnds`, ...,
  over what may follow in general, `WholeGrows`); so a step of the runner extends the
  transcript, one of the request task moves frames along it, and a restart discards
  only what nobody has been given. Repairs and closings list blocks in order with a
  recursive function (`InOrder`), whose solution is found as in `ConversationTreesProofs`.

`ConversationTreesProofs`
- **ClaimsHaveTasksCorrect**, **QueueIsServedCorrect**, **ClearedIsGoneCorrect**,
  **StructuresAgreeCorrect**, **RestorableCorrect**, the action property
  **StoppedStaysStoppedCorrect** and **ImplementsTurnQueueCorrect**, the refinement of
  `TurnQueue`: all that the safety run checks, for any chats, messages, turns and
  commands. They share one inductive invariant, `Types /\ SchedulingInv /\
  FilesAreWhole`. `SchedulingInv` has the properties of scheduling themselves and what
  makes them inductive: trees are closed under parents and answered statuses
  (`TreesAreWhole`), a claim is for a turn of its tree (`ClaimsAreHome`), queues are in
  order of admission, so that the first in line cannot be waiting for a parent behind
  it (`QueuesAreOrdered`), and what a task that is over or cancelled leaves behind has
  settled (`LeftSettled`). `FilesAreWhole` says that every snapshot, in the store, in
  the file or in the hands of a command, is well formed, and that a stored snapshot which is
  not the one of a published tree is one that the command in progress will replace,
  forget or wipe (`Live`, `Pending`).
- The actions are reduced to seven effects on the trees (`Entering`, `MovingOn`,
  `Recording`, `Completing`, `Failing`, `Finishing`, `Cancelling`), and each part of the
  invariant is shown for each effect. On the way it turns out that a finishing task
  always holds its claim and that the first of a queue is always ready, so that
  the branches of the code for anything else are never taken.
- `Without` (what is left of a queue) and `Lineage` (a turn and its ancestors) are
  recursive functions. The induction theorems of the library take an operator as a
  parameter, which no prover here can instantiate; the induction goes through a set
  of natural numbers instead (`SetInduction`, from the well-foundedness of `<`), and
  gives that the recursion has a solution and what it yields.

`MessagingProofs`, about outgoing messages
- **QueueIsSoundCorrect**, **NothingComesBackCorrect** (from
  OlderReturnsByTaskCorrect and ShutdownIsFinalCorrect). An update *follows* another
  when it was asked for later, or was overtaken by it. Until something fails, the
  latest of a message (what is queued for it, else what the worker has of it, else
  what it shows) follows every update of the message that was ever queued (`Covered`); what has
  not been tried again follows all that was sent before it (`Newest`). Both rest on
  the order in which tasks run: one that has yet to run is overtaken by every later update
  of its key that is queued, and is nowhere in the queue (`Order`). Every future
  somebody awaits is held by an entry or the job (`Queued`), and what shutdown has
  settled stays settled (`Settled`).

`MessagingProofs`, about voice notes
- **NotesAreOwnedCorrect**, for any notes, deliveries and commands. The invariant
  relates the two tasks of a note and the command that may have taken it: how far
  the flow and its handoff can be apart (`NoteStages`), that a handoff ends without
  handing over only when somebody has asked it to stop (`NoteHandoffs`), and that
  an entry has one owner, the registry or whoever took it (`NoteEntries`).

`ServerLifecycleProofs`
- **WorkHasItsResourcesCorrect**, **SessionsAreOwnedCorrect** and
  **RestartsAreCleanCorrect**, for any turns, restarts and faults. The invariant has
  two halves, and so has the proof of a step. *The sessions* (`SessionsInv`) keep
  theirs whatever the server does: who has a session and who has its
  `_lifecycle_lock` (`Used`, `Lives`); a process is launched only in a session the
  manager knows, and one that has been forgotten was closed first, under that lock
  (`Launching`), which is why start_task cannot leave a process behind a
  remove_session; what stop_all has not yet stopped covers what the manager knows,
  unless a stop has failed (`StoppingAll`). What a step of theirs means for the
  server is one formula (`Quiet`): it starts no work where there was none, and begins
  nothing in a turn that is on its way out.
  *The server* (`LifecycleInv`) relates its phase to the supervisor's (`Together`), to
  what is owned (`Owning`), and to who can bring in work (`Receiving`, `Calling`). That
  close() leaves nothing behind rests on `Settling`: while it stops everything no turn
  begins anything, so what stop_all has emptied stays empty, and the workflow may go
  with no turn and no process left (`Working`). No stale server is `Fresh`: the
  generation is read before the settings are loaded and compared when the server is
  published. A cancellation of many turns at once, by far the largest step, is a lemma
  of its own (`CancelKeeps`).

`CodexAuthProofs`
- **RefreshIsDeduplicatedCorrect** and **LoginsAreOwnedCorrect**, for any processes,
  logins, requests and calls. Neither is inductive: that the file does not change
  between its reading and the post rests on everyone who writes it holding its lock
  (`Section`), on threads without a task being the exception that is named
  (`NoneAlone`); that a closed manager gets no login rests on `_operation_lock`, which
  the call that closes it keeps until the login is gone (`Closing`, `Starting`). A step
  changes the locks only by taking a free one or dropping its own (`StepOf`), so
  that it leaves the other tasks as they are (`OthersStay`); there is one lemma for
  each action.

The assumptions are `BoundsAssumption` and `NoneAssumption` (`ConversationTrees`),
`BoundsAssumption` (`MessageDelivery`), `NamesAssumption`, `FaultsAssumption` and
`RestartsAssumption` (`ServerLifecycle` with its sessions: no turn is called None or
All; the bounds are natural numbers), `ToolsAssumption` and `LimitsAssumption`
(`StreamResponses`: no tool call has the number that stands for none; the limits are
natural numbers) and the assumptions on the constants of the other
modules, all of which TLC evaluates in the runs.

**Only model-checked.** Liveness (EveryExecutionEnds, CloseReturns, ResponseEnds,
EverythingSettles, SavesEnd, FuturesResolve, EverythingEnds, RequestsHonoured,
CallsReturn): fairness and ENABLED are out of the prover's reach. Every safety
property that a passing run checks, invariant or action property, has a theorem.

## 5. Reading the properties

Several names stand for a conjunction whose parts have their own comments:

- *RecoveryIsOwned*: ProbeIsOwned and NoLostWakeup. The latter is not about the
  condition variable alone: a waiter must be among the waiters of a live episode
  whose leader is someone else, since that is what a later success, hand-over or
  terminal outcome reaches.
- *EpisodesAreRespected*: StaleAttemptsAreHarmless and TerminalOutcomeSticks.
- *EveryExecutionEnds* excepts executions that meet one of the first three
  findings of section 6 (`LeftBehind`), each of which stops progress.
- *RuntimesAreOwned*: NoRuntimeLost and DiscardedByOne; *ClosedWhenDue*:
  DrainedIsBeingClosed and TerminalMeansAllClosed. *NeverClosedInUse* counts
  connected_provider_changed as a user though it holds no lease.
- *StructuresAgree* relates index, trees and store, and says nothing of the store
  while a command holds the state lock: in between it lags by design.
  *QueueIsServed* relates the queue, the node states and the claim, which the code
  edits separately. *EverythingSettles*: TurnsSettle and IntakeEnds.
  *StoppedStaysStopped* excepts a restart, which goes back to what was saved.
- *StreamIsSound*: the types, OneMessage and OutcomeIsHonest. OneMessage speaks of
  frames in the order the client got them, and of the attempt each came from.
- *FileIsSound*: the types and PromisesKept. A promise is what flush, clear_scope
  or an authoritative write returned from without an exception.
- *QueueIsSound*: the types and LastUpdateShown, which speaks of the updates that
  were queued: one whose task has yet to run is not, and one whose task was overtaken
  replaces what overtook it.
- *NothingComesBack* excepts an update that is retried or was overtaken (see
  section 6), both tasks of fire_and_forget. Each exception is needed: TLC refutes
  the property without either.
- *NotesAreOwned*: one outcome per note, nothing stranded in the registry, and a
  status message that somebody will replace or delete. A flow cancelled from
  outside is excepted from the last part.
- *SessionsAreOwned*: the types, and that a running process is registered and its
  session known, so that the last act of the supervisor and the next stop_all reach it.
- *RestartsAreClean*: NoStaleServer and NoOverlap.
- *RefreshIsDeduplicated* is claimed until a thread has been left alone with the
  file (`orphaned`).

## 6. Where the code and its documents part

Two sentences are refuted by a run.

1. `ProviderAdmission_transfer`: "leader cancellation transfers ownership to a
   waiter" (ARCHITECTURE.md:669). A Codex execution that was made the leader by
   retry() and is cancelled while it fetches its access token stays the leader,
   and everyone else waits at the gate. The same state arises without a
   cancellation when retry_immediately() is called on the last attempt
   (`openai_codex/provider.py:368`).
2. `CodexAuth_cancel`: "Cancel a pending login while preserving current credentials"
   (auth.py:281). A login that is cancelled between writing the file and adopting
   the credentials, or while its thread writes, leaves the file with the
   credentials of the cancelled login.

The following are stated in the modules and refuted by TLC under the constants
given; they have no run of their own.

| Definition (module) | Sentence | What happens | Constants |
|---|---|---|---|
| BulkheadHeldOnlyWhileActive (`ProviderAdmission`) | "the bulkhead is held only while an upstream operation or stream is active" (ARCHITECTURE.md:664) | a chat stream recovers inside the `except` clause, before its interrupted attempt is closed; with one slot it waits for itself | Sessions = Chat = {chat}, Codex = {}, MaxAttempts = 2, MaxConcurrency = 1, RateLimit = 2 |
| EverySlotReleased (`ProviderAdmission`) | "Release attempt ownership and its concurrency slot exactly once" (admission.py:168) | a cancellation inside the Codex runner's `finally` clause skips the release | Sessions = Codex = {codex}, Chat = {}, MaxAttempts = 1, MaxConcurrency = 1, RateLimit = 2 |
| StopAllStopsAll (`ConversationTrees`, an action property) | "Stop every pending and active messaging task" (workflow.py:493) | after a `/clear` of a running turn's status whose drain timed out, cancel_all raises at that turn and leaves the rest alone | Chats = {c1}, Ids = {m1, m2}, MaxTurns = 2, MaxTrees = 1, Reporting = {}, MaxSending = 1, MaxCommands = 2, MaxRestarts = 0 |
| CompletionIsAuthoritative (`ConversationTrees`) | "a later successful exit is authoritative for the same live, non-cancelled claim" (ARCHITECTURE.md:1379) | a reply `/stop` captures its snapshot, another turn completes and saves, and the older snapshot is saved over it | Chats = {c1}, Ids = {m1, m2, m3}, MaxTurns = 3, MaxTrees = 1, Reporting = {}, MaxSending = 1, MaxCommands = 1, MaxRestarts = 0 |
| LatestVersionWins (`MessageDelivery`, an action property) | "only the latest version of a message update is processed" (limiter.py:21-22) | an edit given to fire_and_forget is queued by its task after a newer edit of the message that was awaited (limiter.py:297, 334), and replaces it; with a fault, an edit that failed in passing is also queued again after a newer one was shown | Keys = {m1}, MaxUpdates = 2, MaxFaults = 0 |
| FailureLeavesDirty (`SessionPersistence`) | timer-triggered saves "leave the store dirty on failure" (ARCHITECTURE.md:1481) | a timer thread that has found its own write current marks the store clean after it has released `_writer_lock`; when a later write has failed meanwhile, the store is clean and the file is behind | MaxVersion = 2, MaxFailures = 1, MaxCrashes = 0 |
| ReadsEndBeforeLease (`StreamResponses`) | "a generation lease is released only after the body chain has finished closing" (ARCHITECTURE.md:515) | the runner does not close iterate_with_holdback_deadline; a read pending since the deadline is cancelled when the event loop finalizes that generator, which may be after the release | those of the run |

The invariants of section 3 hold in spite of these: they except what was lost by
name (`leaked`, `LeftBehind`, `orphaned`), so that they stay strong elsewhere.

Noticed while modelling, without a sentence to hold against them: a Codex
disconnect is undone by the write of a thread whose login was cancelled; a process
that is two rotations behind posts a spent token, and then deletes credentials that
are live (auth.py:439-448); a uvicorn that is told to exit while the runtime
starts leaves the graph to the process exit; a voice flow cancelled when its
handoff is created but has not begun does not delete its status message; a
snapshot or model list of an older generation may be cached after a newer one
(application.py:332); clear_scope wipes the store although it failed for some
trees (workflow.py:550).

## 7. What is not modelled

Conversion of messages, rendering, routing tables, configuration formats, the TUI
and the launchers are sequential code over data: a model would repeat them. They
are most of the repository, so the share of its lines that the modules map stays
small; what they map is the part in which tasks, threads and processes meet.
Learning and usage are behind SQLite transactions. Inside the modelled components these are abstracted: the
model catalogue, the contents of messages and transcripts, the deletion of
platform messages, the startup notice, transcription itself, the OAuth exchange,
request bodies, and exact times. A clean-up, an upstream call and an agent process are
nondeterministic outcomes.

## 8. Plan

Done: admission, generations, trees, persistence, delivery, voice notes, managed
sessions and the life of the server, Codex authentication, the response stream of
the Messages API.

Next, most important first:

1. The Codex runner and the Responses wire format: `core/openai_responses` has an
   assembler of its own, for which StreamIsSound should hold likewise.
2. The model catalogue in `ProviderGenerations`: which of two refreshes survives.
3. `SlidingWindow`: the limiter on a discrete clock: never more than the limit in any
   window, no waiter starves.
4. Routing and fallback decisions, against reference definitions.
5. Admin configuration: commit, apply, and the replacement or restart it leads to.

Theorems: there is one for every safety property the runs check; what is added to the
plan should come with its own.
