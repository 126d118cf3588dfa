-------------------------- MODULE ConversationTrees --------------------------
(***************************************************************************)
(* Conversation trees: admission, execution, /stop, /clear and restart,     *)
(* translated from messaging/trees/, messaging/workflow.py,                 *)
(* messaging/turn_intake.py, messaging/node_runner.py and                   *)
(* messaging/session/store.py.                                              *)
(*                                                                          *)
(* A turn is one admission of a message: it stands for the MessageNode, for *)
(* its status message, whose id the platform never reuses, and for the one  *)
(* claim the node can get. A tree is named by the turn at its root; its     *)
(* TreeIdentity is that turn's message, which may be admitted again after a *)
(* /clear. Everything between two suspension points of asyncio is one step: *)
(* the locks of the manager and of the trees are never held across one, so  *)
(* nothing waits for them. The workflow's state lock is held by a command   *)
(* until its cancelled tasks have drained and its snapshots are saved.      *)
(***************************************************************************)
EXTENDS Integers, Sequences, FiniteSets, Functions, Queues

CONSTANTS
    Chats, Ids,   \* platform message ids are unique within a chat
    MaxTurns,     \* bound: turns admitted
    Reporting,    \* bound: turns whose Claude process reports its session
    MaxTrees,     \* bound: trees created
    MaxSending,   \* bound: messages whose status is being sent
    MaxCommands,  \* bound: commands issued
    MaxRestarts,  \* bound: restarts of the process
    None          \* no reference, no chat

Messages == Chats \X Ids
Turns == 1 .. MaxTurns
Kinds == {"prompt", "status"}
References == Turns \X Kinds

ASSUME BoundsAssumption ==
    /\ MaxTurns \in Nat \ {0} /\ Reporting \subseteq Turns
    /\ {MaxTrees, MaxSending, MaxCommands, MaxRestarts} \subseteq Nat
ASSUME NoneAssumption == None \notin References \cup Chats

VARIABLES
    turn,       \* per turn, in order of admission: message, root, parent, reference
    graph,      \* turns that are nodes of their tree's graph
    status,     \* nodes with a status message
    session,    \* nodes with a session id
    state,      \* MessageState of each node
    queue,      \* per root, _queue
    active,     \* per root, the turn that _active claims; 0 is none
    stopped,    \* turns whose claim has cancellation_requested
    task,       \* the task of each turn's claim
    published,  \* roots of the trees in TreeRepository._trees
    index,      \* the references in TreeRepository._reference_to_tree
    inbox,      \* each message on its way through turn intake
    cmd,        \* the command that holds the state lock
    store,      \* SessionStore._conversation: a snapshot for each TreeIdentity
    disk,       \* the conversations in sessions.json
    commands,   \* commands issued
    restarts    \* restarts of the process

nodes == <<turn, graph, status, session>>
scheduling == <<queue, active, stopped, task>>
repository == <<published, index>>
files == <<store, disk>>
bounds == <<commands, restarts>>
vars == <<nodes, state, scheduling, repository, inbox, cmd, files, bounds>>

-----------------------------------------------------------------------------
\* Trees and snapshots.

Admitted == 1 .. Len(turn)
Root(t) == turn[t].root
Identity(r) == turn[r].msg
Chat(t) == turn[t].msg[1]
Members(r) == {t \in graph : Root(t) = r}

\* t and its ancestors. A parent is admitted before its replies.
Lineage(t) ==
    LET up[u \in 0 .. t] == IF u = 0 THEN {} ELSE {u} \cup up[turn[u].parent]
    IN  up[t]

\* get_descendants: t and the nodes below it.
Below(t) == {u \in graph : t \in Lineage(u)}

\* The nodes of get_reference_descendants: a status belongs to its prompt, and
\* a reply to the prompt or the status it answers.
Replies(t, kind) == {u \in graph : turn[u].parent = t /\ turn[u].via = kind}

\* Mutant: clearing a status spares the replies to its replies.
DirectSubtree(t, kind) == IF kind = "prompt" THEN Below(t) ELSE Replies(t, kind)

LiteralSubtree(t, kind) ==
    IF kind = "prompt" THEN Below(t) ELSE UNION {Below(u) : u \in Replies(t, kind)}

Snapshot(r) ==
    [t \in Members(r) |-> [state |-> state[t], session |-> t \in session,
                           status |-> t \in status]]
NoTree == [t \in {} |-> 0]
Runnable == {"pending", "in_progress"}

\* save_tree_snapshot of the tree r as it is after the step.
Save(r) == store' = [store EXCEPT ![turn'[r].msg] = Snapshot(r)']

-----------------------------------------------------------------------------
\* MessageTree and TreeQueueProcessor.

\* _claim, and the launch of the claim's task.
Claim(r, t) ==
    /\ active' = [active EXCEPT ![r] = t]
    /\ state' = [state EXCEPT ![t] = "in_progress"]
    /\ task' = [task EXCEPT ![t] = "launched"]

EnqueueOr(r, t, line) ==
    \/ active[r] = 0 /\ Claim(r, t) /\ UNCHANGED queue
    \/ /\ active[r] # 0
       /\ queue' = [queue EXCEPT ![r] = line]
       /\ state' = [state EXCEPT ![t] = "pending"]
       /\ UNCHANGED <<active, task>>

\* Mutant: the newest goes first.
PushOrClaim(r, t) == EnqueueOr(r, t, <<t>> \o queue[r])

\* _enqueue_or_claim for a PENDING node.
EnqueueOrClaim(r, t) == EnqueueOr(r, t, Append(queue[r], t))

\* Mutant: the newest is served first.
Newest(ready) == CHOOSE i \in ready : \A j \in ready : i >= j

\* pop: the position served among those of ready.
First(ready) == CHOOSE i \in ready : \A j \in ready : i <= j

\* Mutant: cancellation_requested is not looked at.
HoldsClaim(t) == Root(t) \in published /\ active[Root(t)] = t

\* The task of t may still write to its tree.
Owns(t) == Root(t) \in published /\ active[Root(t)] = t /\ t \notin stopped

FailAnd(t, propagate, dequeues) ==
    IF ~(Owns(t) /\ t \in graph) THEN UNCHANGED <<state, queue, store>>
    ELSE LET r == Root(t)
             children == {u \in Below(t) \ {t} : propagate /\ state[u] = "pending"}
             failed == IF state[t] = "completed" THEN {} ELSE children \cup {t}
         IN  /\ state' = [u \in Turns |-> IF u \in failed THEN "error" ELSE state[u]]
             /\ queue' = [queue EXCEPT ![r] = Without(@, IF dequeues THEN failed ELSE {})]
             /\ Save(r)

\* Mutant: the failed children stay in the queue.
FailInPlace(t, propagate) == FailAnd(t, propagate, FALSE)

\* fail_claim, and the snapshot its callers save.
Fail(t, propagate) == FailAnd(t, propagate, TRUE)

\* The queues lose gone, failed get the state error, claims are cancelled. A
\* task that has not entered its body never will: it goes to unentered.
Cancel(gone, failed, removed, claims, unentered) ==
    /\ state' = [t \in Turns |->
          IF t \in removed THEN "none" ELSE IF t \in failed THEN "error" ELSE state[t]]
    /\ queue' = [r \in Turns |-> Without(queue[r], gone)]
    /\ stopped' = stopped \cup claims
    /\ task' = [t \in Turns |->
          IF t \in claims /\ task[t] = "launched" THEN unentered ELSE task[t]]
    /\ UNCHANGED active

RunnableOf(gone) == {t \in gone : state[t] \in Runnable}
ClaimsOf(gone) == {t \in gone : active[Root(t)] = t}

\* Mutant: no recovery task for a claim whose task never ran.
CancelUnrecovered(gone, removed, cleared) ==
    Cancel(gone, RunnableOf(gone) \cup cleared, removed, ClaimsOf(gone), "none")
\* Mutant: a claim that has reported an error is not cancelled any more.
CancelRunnable(gone, removed, cleared) ==
    Cancel(gone, RunnableOf(gone) \cup cleared, removed, RunnableOf(ClaimsOf(gone)), "recovering")
\* Mutant: clear_status leaves the state alone.
CancelCompletedKept(gone, removed, cleared) ==
    Cancel(gone, RunnableOf(gone), removed, ClaimsOf(gone), "recovering")

\* cancel_node, cancel_all and remove_message_subtree as far as they cancel:
\* the nodes of gone stop being runnable, those of removed are nodes no more,
\* and clear_status ends those of cleared whatever their state. The claim of a
\* task that has not run is left to the recovery task.
CancelNodes(gone, removed, cleared) ==
    Cancel(gone, RunnableOf(gone) \cup cleared, removed, ClaimsOf(gone), "recovering")

\* The claimed node of r has lost its status: _ui_target raises ValueError for
\* it, and with it whatever cancels that node a second time.
Targetless(r) == active[r] \in graph \ status

-----------------------------------------------------------------------------
Init ==
    /\ turn = <<>>
    /\ graph = {} /\ status = {} /\ session = {} /\ stopped = {}
    /\ published = {} /\ index = {}
    /\ state = [t \in Turns |-> "none"]
    /\ queue = [r \in Turns |-> <<>>]
    /\ active = [r \in Turns |-> 0]
    /\ task = [t \in Turns |-> "none"]
    /\ inbox = [m \in Messages |-> [at |-> "idle"]]
    /\ cmd = [at |-> "idle"]
    /\ store = [m \in Messages |-> NoTree]
    /\ disk = [m \in Messages |-> NoTree]
    /\ commands = 0 /\ restarts = 0

-----------------------------------------------------------------------------
\* Intake. A message may be delivered again.

StateLockFree == cmd.at = "idle"
Sending == {m \in Messages : inbox[m].at = "sending"}

\* handle_message: take the admission token, resolve the reply, and go and
\* send the status message. The token stays current until a /stop or /clear.
Receive(m, ref) ==
    /\ StateLockFree
    /\ inbox[m].at = "idle"
    /\ Cardinality(Sending) < MaxSending /\ Cardinality(Sending) + Len(turn) < MaxTurns
    /\ \/ /\ ref = None
          /\ Cardinality({n \in Sending : inbox[n].ref = None})
                + Cardinality({r \in Admitted : Root(r) = r}) < MaxTrees
       \/ ref \in index /\ Chat(ref[1]) = m[1] /\ turn[ref[1]].msg # m
    /\ inbox' = [inbox EXCEPT ![m] = [at |-> "sending", current |-> TRUE, ref |-> ref]]
    /\ UNCHANGED <<nodes, state, scheduling, repository, cmd, files, bounds>>

Leave(m) == inbox' = [inbox EXCEPT ![m] = [at |-> "idle"]]
Duplicates(m) == {t \in Turns : <<t, "prompt">> \in index /\ turn[t].msg = m}

\* Mutant: only the parent's node is looked for, not the message replied to.
ParentNodeGone(m) == inbox[m].ref # None /\ inbox[m].ref[1] \notin graph
ParentGone(m) == inbox[m].ref \notin index \cup {None}

\* _admit_if_current without effect: the token is stale, or the parent gone.
Discard(m) ==
    /\ StateLockFree
    /\ m \in Sending
    /\ \/ ~inbox[m].current
       \/ Duplicates(m) = {} /\ ParentGone(m)
    /\ Leave(m)
    /\ UNCHANGED <<nodes, state, scheduling, repository, cmd, files, bounds>>

\* admit finds the message in a tree already.
Redelivered(m) ==
    /\ StateLockFree
    /\ m \in Sending /\ inbox[m].current
    /\ UNCHANGED <<nodes, stopped, repository, cmd, disk, bounds>>
    /\ \E t \in Duplicates(m) :
          IF state[t] = "pending" /\ (active[Root(t)] = 0 \/ t \notin Range(queue[Root(t)]))
          THEN EnqueueOrClaim(Root(t), t) /\ Save(Root(t))
          ELSE UNCHANGED <<state, queue, active, task, store>>
    /\ Leave(m)

\* The node of turn t enters the tree r below parent.
Enter(t, m, r, parent, via) ==
    /\ turn' = Append(turn, [msg |-> m, root |-> r, parent |-> parent, via |-> via])
    /\ graph' = graph \cup {t}
    /\ status' = status \cup {t}
    /\ index' = index \cup ({t} \X Kinds)
    /\ EnqueueOrClaim(r, t)
    /\ UNCHANGED <<session, stopped, cmd, disk, bounds>>
    /\ Save(r)

\* admit, the launch of its claim and save_tree_snapshot.
Admit(m) ==
    /\ StateLockFree
    /\ m \in Sending /\ inbox[m].current
    /\ Duplicates(m) = {}
    /\ \E t \in Turns :
          /\ t = Len(turn) + 1
          /\ \/ /\ inbox[m].ref = None
                /\ Enter(t, m, t, 0, "none")
                /\ published' = published \cup {t}
             \/ \E ref \in index :
                /\ inbox[m].ref = ref
                /\ Enter(t, m, Root(ref[1]), ref[1], ref[2])
                /\ UNCHANGED published
    /\ Leave(m)

-----------------------------------------------------------------------------
\* The task of a claim. Its writes go through the aggregate, which may have
\* been cancelled, detached or readmitted in the meantime.

Running == {"running", "over"}
TaskGoes(t, where) == task' = [task EXCEPT ![t] = where]

\* _run_claim enters the node runner.
Start(t) ==
    /\ task[t] = "launched"
    /\ TaskGoes(t, "running")
    /\ UNCHANGED <<nodes, state, queue, active, stopped, repository, inbox, cmd, files, bounds>>

\* handle_session_info_event and record_session.
RecordSession(t) ==
    /\ task[t] \in Running /\ t \in Reporting \ session
    /\ Owns(t) /\ t \in graph /\ state[t] = "in_progress"
    /\ session' = session \cup {t}
    /\ UNCHANGED <<turn, graph, status, state, scheduling, repository, inbox, cmd,
                   disk, bounds>>
    /\ Save(Root(t))

\* A successful exit: complete_claim, with a session id or None.
Complete(t, known) ==
    /\ task[t] \in Running
    /\ known => t \in Reporting
    /\ TaskGoes(t, "over")
    /\ UNCHANGED <<turn, graph, status, queue, active, stopped, repository, inbox, cmd,
                   disk, bounds>>
    /\ IF Owns(t) /\ t \in graph /\ state[t] \in {"in_progress", "error"}
       THEN /\ state' = [state EXCEPT ![t] = "completed"]
            /\ session' = IF known THEN session \cup {t} ELSE session
            /\ Save(Root(t))
       ELSE UNCHANGED <<state, session, store>>

runnerKeeps == <<nodes, active, stopped, repository, inbox, cmd, disk, bounds>>

\* An error event that is not the exit: more events may follow.
ReportError(t) ==
    /\ task[t] \in Running
    /\ UNCHANGED <<task, runnerKeeps>>
    /\ Fail(t, FALSE)

ExitWithError(t) ==
    /\ task[t] \in Running
    /\ TaskGoes(t, "over")
    /\ UNCHANGED runnerKeeps
    /\ Fail(t, TRUE)

\* The event stream ends after a terminal event.
EndStream(t) ==
    /\ task[t] = "over"
    /\ TaskGoes(t, "finishing")
    /\ UNCHANGED <<state, queue, store, runnerKeeps>>

\* It ends without one, or an exception ends the runner.
BreakOff(t) ==
    /\ task[t] \in Running
    /\ TaskGoes(t, "finishing")
    /\ UNCHANGED runnerKeeps
    /\ Fail(t, TRUE)

\* The session limit is reached before the first event, or CancelledError arrives.
GiveUp(t) ==
    /\ \/ task[t] = "running" /\ state[t] = "in_progress" /\ t \notin session
       \/ task[t] \in Running /\ t \in stopped
    /\ TaskGoes(t, "finishing")
    /\ UNCHANGED runnerKeeps
    /\ Fail(t, FALSE)

\* _finish_claim: finish_and_claim_next, and the launch of the successor.
Finish(t) ==
    /\ task[t] \in {"finishing", "recovering"}
    /\ LET r == Root(t)
           ready == {i \in DOMAIN queue[r] : /\ queue[r][i] \in graph
                                             /\ state[queue[r][i]] = "pending"}
           first == First(ready)
           next == queue[r][first]
       IN  IF active[r] # t
           THEN TaskGoes(t, "none") /\ UNCHANGED <<state, queue, active>>
           ELSE IF ready = {}
           THEN /\ TaskGoes(t, "none")
                /\ active' = [active EXCEPT ![r] = 0]
                /\ queue' = [queue EXCEPT ![r] = <<>>]
                /\ UNCHANGED state
           ELSE /\ active' = [active EXCEPT ![r] = next]
                /\ queue' = [queue EXCEPT ![r] = SubSeq(@, first + 1, Len(@))]
                /\ state' = [state EXCEPT ![next] = "in_progress"]
                /\ task' = [task EXCEPT ![t] = "none",
                       ![next] = IF r \in published THEN "launched" ELSE "none"]
    /\ stopped' = stopped \ {t}
    /\ UNCHANGED <<nodes, repository, inbox, cmd, files, bounds>>

-----------------------------------------------------------------------------
\* Commands. Each takes the state lock, commits its transition in one step,
\* waits for the cancelled tasks at most CANCEL_TASK_DRAIN_TIMEOUT_S, and
\* saves its snapshots in a later step than it takes them.

Issue == commands < MaxCommands /\ commands' = commands + 1

\* It will save the trees of saves, forget those of forget, and wipe chat.
Drain(saves, forget, chat) ==
    cmd' = [at |-> "draining", saves |-> saves, forget |-> forget, chat |-> chat]

\* The generation of some chats advances: tokens taken before are stale.
Invalidate(chats) ==
    inbox' = [m \in Messages |->
        IF m \in Sending /\ m[1] \in chats
        THEN [inbox[m] EXCEPT !.current = FALSE] ELSE inbox[m]]

\* Reply /stop: cancel_node for the node behind the reference.
StopReply(ref) ==
    /\ StateLockFree /\ ref \in index /\ Issue
    /\ LET r == Root(ref[1])
       IN  IF Targetless(r) /\ active[r] = ref[1]
           THEN UNCHANGED <<state, scheduling, cmd>>
           ELSE CancelNodes({ref[1]}, {}, {}) /\ Drain({r}, {}, None)
    /\ UNCHANGED <<nodes, repository, inbox, files, restarts>>

\* cancel_all goes through the trees in the order they were created. It reaches
\* none of those behind a tree whose claim it cannot report.
Reached(trees) == {r \in trees : \A q \in trees : q <= r => ~Targetless(q)}
NodesOf(trees) == {t \in graph : Root(t) \in trees}

\* Standalone /stop, and close: cancel_all.
StopAll ==
    /\ StateLockFree /\ Issue
    /\ Invalidate(Chats)
    /\ CancelNodes(NodesOf(Reached(published)), {}, {})
    /\ IF Reached(published) = published THEN Drain(published, {}, None) ELSE UNCHANGED cmd
    /\ UNCHANGED <<nodes, repository, files, restarts>>

\* Mutant: the sessions stay.
RemoveNodesOnly(gone, cleared) ==
    /\ graph' = graph \ gone
    /\ status' = status \ (gone \cup cleared)
    /\ UNCHANGED <<turn, session>>

\* remove_nodes and clear_status.
RemoveNodes(gone, cleared) ==
    /\ graph' = graph \ gone
    /\ status' = status \ (gone \cup cleared)
    /\ session' = session \ (gone \cup cleared)
    /\ UNCHANGED turn

\* Mutant: a cleared status still resolves.
UnregisterNodes(gone, cleared) == index' = index \ (gone \X Kinds)

\* unregister_references.
Unregister(gone, cleared) == index' = index \ ((gone \X Kinds) \cup (cleared \X {"status"}))

\* Reply /clear: remove_message_subtree. Clearing a status ends its prompt's
\* node too, which stays in the tree.
ClearReply(ref) ==
    /\ StateLockFree /\ ref \in index /\ Issue
    /\ LET t == ref[1]
           r == Root(t)
           gone == LiteralSubtree(t, ref[2])
           cleared == IF ref[2] = "status" THEN {t} ELSE {}
           all == r \in gone
       IN  IF Targetless(r) /\ active[r] \in gone \cup cleared
           \* It raises having cancelled some of the nodes, in no certain order.
           THEN /\ \E some \in SUBSET ((gone \cup cleared) \ {active[r]}) :
                       CancelNodes(some, {}, {})
                /\ UNCHANGED <<nodes, repository, cmd>>
           ELSE /\ CancelNodes(gone \cup cleared, gone, cleared)
                /\ RemoveNodes(gone, cleared)
                /\ Unregister(gone, cleared)
                /\ published' = IF all THEN published \ {r} ELSE published
                /\ Drain(IF all THEN {} ELSE {r}, IF all THEN {Identity(r)} ELSE {}, None)
    /\ UNCHANGED <<inbox, files, restarts>>

\* Standalone /clear: clear_scope of the manager detaches the chat's trees, as
\* far as it gets, and the store is wiped in any case.
ClearChat(c) ==
    /\ StateLockFree /\ Issue
    /\ Invalidate({c})
    /\ LET trees == Reached({r \in published : Chat(r) = c})
           gone == NodesOf(trees)
       IN  /\ CancelNodes(gone, gone, {})
           /\ RemoveNodes(gone, {})
           /\ Unregister(gone, {})
           /\ published' = published \ trees
    /\ Drain({}, {}, c)
    /\ UNCHANGED <<files, restarts>>

\* _current_snapshot, after the drain.
Capture ==
    /\ cmd.at = "draining" /\ cmd.chat = None
    /\ cmd' = [at |-> "saving", forget |-> cmd.forget,
               snapshots |-> [r \in cmd.saves \cap published |-> Snapshot(r)]]
    /\ UNCHANGED <<nodes, state, scheduling, repository, inbox, files, bounds>>

SaveAnd(forgets) ==
    /\ cmd.at = "saving"
    /\ store' = [m \in Messages |->
          IF forgets /\ m \in cmd.forget THEN NoTree
          ELSE LET trees == {r \in DOMAIN cmd.snapshots : Identity(r) = m}
               IN  IF trees = {} THEN store[m]
                   ELSE cmd.snapshots[CHOOSE r \in trees : TRUE]]
    /\ cmd' = [at |-> "idle"]
    /\ UNCHANGED <<nodes, state, scheduling, repository, inbox, disk, bounds>>

\* Mutant: a tree removed whole stays in the store.
SaveSnapshotsOnly == SaveAnd(FALSE)

\* _save_cancellation_snapshots and remove_tree_snapshot; the lock is released.
SaveSnapshots == SaveAnd(TRUE)

\* SessionStore.clear_scope: its write to the file is authoritative, and may fail.
ClearStore(written) ==
    /\ cmd.at = "draining" /\ cmd.chat # None
    /\ store' = [m \in Messages |-> IF m[1] = cmd.chat THEN NoTree ELSE store[m]]
    /\ disk' = IF written THEN store' ELSE disk
    /\ cmd' = [at |-> "idle"]
    /\ UNCHANGED <<nodes, state, scheduling, repository, inbox, bounds>>

-----------------------------------------------------------------------------
\* The debounced write of the store, or its flush, as long as a restart may
\* still come.
Write ==
    /\ disk # store /\ restarts < MaxRestarts
    /\ disk' = store
    /\ UNCHANGED <<nodes, state, scheduling, repository, inbox, cmd, store, bounds>>

\* The process stops, in whatever state, and a new one restores the trees of
\* the file. What was to be run is interrupted.
Restart ==
    /\ restarts < MaxRestarts
    /\ restarts' = restarts + 1
    /\ LET kept == {t \in Admitted : t \in DOMAIN disk[Identity(Root(t))]}
           saved(t) == disk[Identity(Root(t))][t]
       IN  /\ graph' = kept
           /\ status' = {t \in kept : saved(t).status}
           /\ session' = {t \in kept : saved(t).session}
           /\ state' = [t \in Turns |->
                 IF t \notin kept THEN "none"
                 ELSE IF saved(t).state \in Runnable THEN "error" ELSE saved(t).state]
           /\ published' = {t \in kept : Root(t) = t}
           /\ index' = (kept \X {"prompt"}) \cup (status' \X {"status"})
           /\ store' = [m \in Messages |->
                 [t \in DOMAIN disk[m] |-> [disk[m][t] EXCEPT !.state = state'[t]]]]
    /\ stopped' = {}
    /\ queue' = [r \in Turns |-> <<>>]
    /\ active' = [r \in Turns |-> 0]
    /\ task' = [t \in Turns |-> "none"]
    /\ inbox' = [m \in Messages |-> [at |-> "idle"]]
    /\ cmd' = [at |-> "idle"]
    /\ UNCHANGED <<turn, disk, commands>>

-----------------------------------------------------------------------------
Intake(m) ==
    \/ \E ref \in References \cup {None} : Receive(m, ref)
    \/ Discard(m) \/ Redelivered(m) \/ Admit(m)

Ends(t) == EndStream(t) \/ BreakOff(t) \/ GiveUp(t)

Runner(t) ==
    \/ Start(t) \/ RecordSession(t)
    \/ \E known \in BOOLEAN : Complete(t, known)
    \/ ReportError(t) \/ ExitWithError(t) \/ Ends(t)
    \/ Finish(t)

Command ==
    \/ \E ref \in References : StopReply(ref) \/ ClearReply(ref)
    \/ StopAll
    \/ \E c \in Chats : ClearChat(c)

CommandGoesOn == Capture \/ SaveSnapshots \/ \E written \in BOOLEAN : ClearStore(written)

Next ==
    \/ \E m \in Messages : Intake(m)
    \/ \E t \in Turns : Runner(t)
    \/ Command \/ CommandGoesOn
    \/ Write \/ Restart

Spec == Init /\ [][Next]_vars
-----------------------------------------------------------------------------
(* Properties. *)

Snapshots == UNION {Range(store), Range(disk),
                    IF cmd.at = "saving" THEN Range(cmd.snapshots) ELSE {}}

\* Types: only nodes of a tree have a state, a status or a session, and only
\* turns that were admitted are in a queue or hold a claim.
TypeOK ==
    /\ Len(turn) <= MaxTurns
    /\ \A t \in Admitted :
          /\ turn[t].msg \in Messages /\ turn[t].via \in Kinds \cup {"none"}
          /\ turn[t].root \in 1 .. t /\ turn[t].parent \in 0 .. t - 1
    /\ graph \subseteq Admitted /\ status \cup session \subseteq graph
    /\ \A t \in Turns : IF t \in graph THEN state[t] \in Runnable \cup {"completed", "error"}
                                      ELSE state[t] = "none"
    /\ queue \in [Turns -> Seq(Admitted)] /\ active \in [Turns -> Admitted \cup {0}]
    /\ stopped \subseteq Admitted
    /\ task \in [Turns -> {"none", "launched", "running", "over", "finishing", "recovering"}]
    /\ published \subseteq Admitted /\ index \subseteq References
    /\ inbox \in [Messages -> {[at |-> "idle"]} \cup
              [at : {"sending"}, current : BOOLEAN, ref : References \cup {None}]]
    /\ cmd.at \in {"idle", "draining", "saving"}
    /\ commands \in 0 .. MaxCommands /\ restarts \in 0 .. MaxRestarts

\* A tree runs one claim at a time, and a claim has a task until it is
\* released: whatever cancelled, detached or overtook that task, no tree is
\* left claimed by a task that is no more (processor.py, launch, cancel and
\* _recover_unentered_task).
ClaimsHaveTasks == \A t \in Admitted : task[t] # "none" <=> active[Root(t)] = t

\* Nobody is stranded: a pending node waits in the queue of its tree behind a
\* claim that will hand over to it, nothing else waits there, and only the
\* claimed node is in progress (runtime.py, finish_and_claim_next, fail_claim
\* and the cancellations, which edit queue and states separately).
NoneStranded ==
    \A r \in Turns :
        /\ Range(queue[r]) = {t \in Members(r) : state[t] = "pending"}
        /\ queue[r] # <<>> => active[r] # 0
        /\ \A t \in Members(r) : state[t] = "in_progress" => active[r] = t

\* A reply runs when its parent has settled: the session it forks from is the
\* one its parent has ended with (runtime.py, _claim).
ParentSettlesFirst ==
    \A t \in graph : state[t] = "in_progress" /\ turn[t].parent # 0
                        => state[turn[t].parent] \notin Runnable

\* Each pending turn will be served, in its place and after its parent.
QueueIsServed == NoneStranded /\ ParentSettlesFirst

\* A node whose status was cleared keeps no session to resume from and stays
\* failed, though its task may still be reporting (graph.py, clear_status).
ClearedStatusIsInert ==
    \A t \in graph \ status : t \notin session /\ state[t] = "error"

\* A claim whose node has been cleared, or has lost its status, is cancelled:
\* its task can neither write to its tree nor to one that replaced it.
DetachedIsStopped ==
    \A t \in Admitted : task[t] # "none" /\ t \notin graph \cap status => t \in stopped

\* What was cleared is cut off from the tasks that still run for it.
ClearedIsGone == ClearedStatusIsInert /\ DetachedIsStopped

\* The index resolves exactly the prompts and statuses of the published trees,
\* and no message is the prompt of two nodes (repository.py).
IndexMatchesTrees ==
    /\ index = (graph \X {"prompt"}) \cup (status \X {"status"})
    /\ \A t \in graph : Root(t) \in published
    /\ \A t, u \in graph : turn[t].msg = turn[u].msg => t = u

\* What was cleared does not come back: with the state lock free, a stored
\* snapshot is one of a published tree and has exactly its nodes, whichever
\* task or command has saved last (workflow.py, session/store.py).
StoredIsLive ==
    StateLockFree => \A m \in Messages :
        store[m] = NoTree \/ \E r \in published : Identity(r) = m /\ DOMAIN store[m] = Members(r)

\* The trees, the index and the store tell the same story, of the right types.
StructuresAgree == TypeOK /\ IndexMatchesTrees /\ StoredIsLive

\* Whenever the process stops, the next one can restore every tree of the file:
\* MessageTreeGraph.from_snapshot rejects a tree with a node whose parent, or
\* whose parent's replied-to status, is missing.
Restorable ==
    \A snapshot \in Snapshots : \A t \in DOMAIN snapshot :
        /\ snapshot[t].state \in Runnable => snapshot[t].status
        /\ \/ t = Root(t)
           \/ /\ turn[t].parent \in DOMAIN snapshot
              /\ turn[t].via = "status" => snapshot[turn[t].parent].status

\* A message runs once: a node that has settled never becomes runnable again,
\* and one that was stopped does not complete after all. A restart goes back to
\* what was saved.
StoppedStaysStopped ==
    [][~Restart => \A t \in Admitted :
          /\ state[t] \notin Runnable => state'[t] \notin Runnable
          /\ t \in stopped /\ state[t] # "completed" => state'[t] # "completed"]_vars

\* The trees are lines that serve one turn at a time, in order of arrival.
Lines == INSTANCE TurnQueue WITH waiting <- queue, serving <- active, last <- Len(turn)
ImplementsTurnQueue == Lines!Spec

\* Fairness: the event loop runs every task that is ready; an agent process
\* ends in the end, and a drain is bounded by CANCEL_TASK_DRAIN_TIMEOUT_S; the
\* platform answers, and asyncio.Lock serves its waiters in order.
Fairness ==
    /\ \A t \in Turns : WF_vars(Start(t)) /\ WF_vars(Ends(t)) /\ WF_vars(Finish(t))
    /\ \A m \in Messages : SF_vars(Discard(m) \/ Redelivered(m) \/ Admit(m))
    /\ WF_vars(CommandGoesOn)
FairSpec == Spec /\ Fairness

\* Every turn settles: it completes, fails, is stopped or cleared, however the
\* claims before it in its tree end.
TurnsSettle == \A t \in Turns : state[t] \in Runnable ~> state[t] \notin Runnable

\* Every message on its way is admitted or given up, and no command keeps the
\* state lock for ever.
IntakeEnds == \A m \in Messages : m \in Sending ~> m \notin Sending

\* No turn and no message is left hanging, also across a restart.
EverythingSettles == TurnsSettle /\ IntakeEnds

\* Refuted: "A later successful exit is authoritative for the same live,
\* non-cancelled claim" (ARCHITECTURE.md). With the state lock free, the store
\* knows of every completion. It does not when a command has taken its snapshot
\* before the completion and saves it after.
CompletionIsAuthoritative ==
    StateLockFree => \A t \in graph :
        state[t] = "completed" /\ Identity(Root(t)) \in {m \in Messages : store[m] # NoTree}
            => store[Identity(Root(t))][t].state = "completed"

\* Refuted: "Stop every pending and active messaging task" (workflow.py,
\* stop_all_tasks). After a standalone /stop no node is runnable. cancel_all
\* raises when the claimed node has lost its status to a /clear whose drain
\* timed out, and leaves the queue of that tree and all later trees alone.
StopAllStopsAll == [][StopAll => \A t \in graph' : state'[t] \notin Runnable]_vars
=============================================================================
