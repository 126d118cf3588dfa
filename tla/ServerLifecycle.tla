--------------------------- MODULE ServerLifecycle ---------------------------
(***************************************************************************)
(* The life of the server, translated from ServerSupervisor of              *)
(* cli/commands.py, runtime/asgi.py and ApplicationRuntime of               *)
(* runtime/application.py, over the ManagedSessions of its turns.           *)
(*                                                                          *)
(* A supervisor thread builds one runtime after another and has uvicorn     *)
(* (external) run it; other threads ask it to restart or to stop. A runtime *)
(* starts, and closes what it owns gate by gate; a gate that fails ends the *)
(* call, and the next call begins again with what is still owned.           *)
(***************************************************************************)
EXTENDS ManagedSessions

CONSTANT MaxRestarts  \* bound: restarts asked for

ASSUME RestartsAssumption == MaxRestarts \in Nat

VARIABLES
    run,         \* where run() of the supervisor is
    stop,        \* _stop_requested
    generation,  \* _restart_generation, and the settings then saved
    seen,        \* the generation run() has read for this server
    server,      \* _server is set
    should_exit, \* of the uvicorn server
    loaded,      \* the settings the runtime was built with
    phase,       \* what the event loop of the runtime is doing
    starting,    \* it closes because it has failed to start
    owned,       \* what it owns and has not released
    ingress,     \* messages come in
    commanding   \* /stop or the API holds _state_lock in stop_all_tasks

supervisor == <<run, stop, generation, seen, server>>
graph == <<phase, starting, owned, ingress>>
vars == <<supervisor, should_exit, loaded, graph, commanding, sessions>>

-----------------------------------------------------------------------------
\* What a runtime owns: the messaging platform, the workflow, the manager of
\* the sessions, the transcriber, the helper host, the provider manager, the
\* connected accounts.
Owners == {"platform", "workflow", "cli", "transcriber", "helper", "providers", "accounts"}
Always == {"transcriber", "helper", "providers", "accounts"}

Init ==
    /\ run = "scheduled" /\ stop = FALSE /\ generation = 0 /\ seen = 0
    /\ server = FALSE /\ should_exit = FALSE
    /\ loaded = 0
    /\ phase = "none" /\ starting = FALSE /\ owned = {} /\ ingress = FALSE
    /\ commanding = FALSE
    /\ SessionsInit

-----------------------------------------------------------------------------
(* Other threads                                                            *)

\* Settings that need a restart are saved, by the Admin API or by hand, and the
\* restart is asked for, at any time.
RequestRestart ==
    /\ ~stop /\ run # "out" /\ generation < MaxRestarts
    /\ generation' = generation + 1
    /\ should_exit' = (should_exit \/ server)
    /\ UNCHANGED <<run, stop, seen, server, loaded, graph, commanding, sessions>>

RequestStop ==
    /\ ~stop /\ stop' = TRUE
    /\ should_exit' = (should_exit \/ server)
    /\ UNCHANGED <<run, generation, seen, server, loaded, graph, commanding, sessions>>

-----------------------------------------------------------------------------
(* run() of the supervisor                                                  *)

Supervise(from, to) == run = from /\ run' = to

\* The loop begins, or goes on: the generation is read under the lock, ...
NextServer ==
    /\ Supervise("scheduled", IF stop THEN "ending" ELSE "load")
    /\ seen' = generation
    /\ UNCHANGED <<stop, generation, server, should_exit, loaded, graph, commanding, sessions>>

\* ... then the settings, and a runtime is built that owns its managers.
Build ==
    /\ Supervise("load", "publish")
    /\ loaded' = generation /\ phase' = "built" /\ owned' = Always /\ starting' = FALSE
    /\ should_exit' = FALSE
    /\ UNCHANGED <<stop, generation, seen, server, ingress, commanding, sessions>>

\* The server is published under the lock, told to exit when it is stale.
Publish ==
    /\ Supervise("publish", "serve")
    /\ server' = TRUE /\ phase' = "warming"
    /\ should_exit' = (stop \/ generation # seen)
    /\ UNCHANGED <<stop, generation, seen, loaded, starting, owned, ingress, commanding, sessions>>

\* Mutant: a restart does not wait for the runtime to be closed.
ReturnAnyway ==
    /\ Supervise("serve", IF generation # seen /\ ~stop THEN "scheduled" ELSE "ending")
    /\ phase \in {"closed", "retained", "left"}
    /\ server' = FALSE
    /\ UNCHANGED <<stop, generation, seen, should_exit, loaded, graph, commanding, sessions>>

\* server.run() has returned: on to the next runtime when a restart was asked
\* for and this one has closed all it owned.
Return ==
    /\ Supervise("serve", IF generation # seen /\ ~stop /\ phase = "closed"
                          THEN "scheduled" ELSE "ending")
    /\ phase \in {"closed", "retained", "left"}
    /\ server' = FALSE
    /\ UNCHANGED <<stop, generation, seen, should_exit, loaded, graph, commanding, sessions>>

\* The finally clause: the processes still registered are told to end.
End ==
    /\ Supervise("ending", "out")
    /\ server' = FALSE /\ pids' = {}
    /\ UNCHANGED <<stop, generation, seen, should_exit, loaded, graph, commanding,
                   tasks, manager, closed, life, process, shield, aggregate, faults>>

-----------------------------------------------------------------------------
(* start() of the runtime                                                   *)

Turn(from, to) == phase = from /\ phase' = to

\* The models are warmed; messaging is constructed owner by owner.
Construct ==
    \/ Turn("warming", "platform") /\ UNCHANGED owned
    \/ Turn("platform", "cli") /\ owned' = owned \cup {"platform"}
    \/ Turn("cli", "workflow") /\ owned' = owned \cup {"cli"}
    \/ Turn("workflow", "connecting") /\ owned' = owned \cup {"workflow"}

Starting ==
    /\ Construct
    /\ UNCHANGED <<supervisor, should_exit, loaded, starting, ingress, commanding, sessions>>

\* The platform starts its ingress; the startup notice is still to be sent.
Connect ==
    /\ Turn("connecting", "notifying") /\ ingress' = TRUE
    /\ UNCHANGED <<supervisor, should_exit, loaded, starting, owned, commanding, sessions>>

\* Messaging is not configured.
NoMessaging ==
    /\ Turn("platform", "started")
    /\ UNCHANGED <<supervisor, should_exit, loaded, starting, owned, ingress, commanding, sessions>>

\* It cannot be started: what there is of it is closed.
MessagingFails ==
    /\ phase \in {"platform", "cli", "workflow", "connecting", "notifying"}
    /\ phase' = "quiesce" /\ starting' = TRUE
    /\ UNCHANGED <<supervisor, should_exit, loaded, owned, ingress, commanding, sessions>>

\* An exception of the rest of start(): all is closed.
StartFails ==
    /\ Turn("warming", "quiesce")
    /\ UNCHANGED <<supervisor, should_exit, loaded, starting, owned, ingress, commanding, sessions>>

\* All is started, and uvicorn serves; told to exit by now it leaves, with the
\* runtime or without a word to it.
Serve ==
    /\ phase \in {"notifying", "started"}
    /\ phase' \in IF should_exit THEN {"quiesce", "left"} ELSE {"serving"}
    /\ UNCHANGED <<supervisor, should_exit, loaded, starting, owned, ingress, commanding, sessions>>

\* It shuts down when it is told to exit, or gets a signal.
Shutdown ==
    /\ Turn("serving", "quiesce")
    /\ UNCHANGED <<supervisor, should_exit, loaded, starting, owned, ingress, commanding, sessions>>

-----------------------------------------------------------------------------
(* The gates of close(), and of _cleanup_messaging when messaging has failed *)

Gate(where) == phase = where
Pass(next) ==
    /\ phase' = next /\ starting' = (starting /\ next # "started") /\ UNCHANGED faults

\* A gate that fails: what is owned stays so. In start() the call is made once
\* more, by close(); after that nobody makes it again.
Fails == /\ Fault
         /\ phase' = IF starting THEN "quiesce" ELSE "retained"
         /\ starting' = FALSE

\* Mutant: a failure to quiesce is logged and passed over.
QuiesceLoosely ==
    /\ Gate("quiesce")
    /\ \/ Pass("drain") /\ ingress' = FALSE
       \/ "platform" \in owned /\ Fault /\ phase' = "drain" /\ UNCHANGED <<starting, ingress>>
    /\ UNCHANGED <<supervisor, should_exit, loaded, owned, commanding, tasks, manager,
                   session, aggregate>>

\* runtime.quiesce: no more messages come in.
Quiesce ==
    /\ Gate("quiesce")
    /\ \/ Pass("drain") /\ ingress' = FALSE
       \/ "platform" \in owned /\ Fails /\ UNCHANGED ingress
    /\ UNCHANGED <<supervisor, should_exit, loaded, owned, commanding, tasks, manager,
                   session, aggregate>>

\* workflow.close: stop_all_tasks cancels every turn, then asks for stop_all ...
CloseWorkflow ==
    /\ Gate("drain") /\ "workflow" \in owned /\ ~commanding
    /\ phase' = "stopping" /\ stopping' = "asked"
    /\ Cancel(Active)
    /\ UNCHANGED <<supervisor, should_exit, loaded, starting, owned, ingress, commanding,
                   todo, failed, faults>>

\* ... or, without a workflow, the manager alone is asked, if there is one.
CloseManager ==
    /\ Gate("drain") /\ "workflow" \notin owned
    /\ IF "cli" \in owned THEN phase' = "stopping" /\ stopping' = "asked"
       ELSE phase' = "delivery" /\ UNCHANGED stopping
    /\ UNCHANGED <<supervisor, should_exit, loaded, starting, owned, ingress, commanding,
                   tasks, manager, session, todo, failed, faults>>

\* Mutant: the turns are not waited for.
DrainImpatiently ==
    /\ Gate("stopping") /\ stopping = "done"
    /\ stopping' = "no" /\ UNCHANGED faults
    /\ IF failed
       THEN phase' = (IF starting THEN "quiesce" ELSE "retained") /\ starting' = FALSE /\ UNCHANGED owned
       ELSE phase' = "delivery" /\ owned' = owned \ {"workflow", "cli"} /\ UNCHANGED starting
    /\ UNCHANGED <<supervisor, should_exit, loaded, ingress, commanding,
                   tasks, manager, session, todo, failed>>

\* When all have stopped, wait_idle awaits the turns, and the store is flushed.
Drain ==
    /\ Gate("stopping") /\ stopping = "done"
    /\ stopping' = "no"
    /\ \/ /\ failed
          /\ phase' = IF starting THEN "quiesce" ELSE "retained"
          /\ starting' = FALSE /\ UNCHANGED <<owned, faults>>
       \/ /\ ~failed /\ Active = {}
          /\ \/ Pass("delivery") /\ owned' = owned \ {"workflow", "cli"}
             \/ "workflow" \in owned /\ Fails /\ UNCHANGED owned
    /\ UNCHANGED <<supervisor, should_exit, loaded, ingress, commanding,
                   tasks, manager, session, todo, failed>>

\* A gate that releases one owner.
Release(where, owner, next) ==
    /\ Gate(where)
    /\ \/ Pass(next) /\ owned' = owned \ {owner}
       \/ owner \in owned /\ Fails /\ UNCHANGED owned
    /\ UNCHANGED <<supervisor, should_exit, loaded, ingress, commanding,
                   tasks, manager, session, aggregate>>

\* Messaging that could not be started and is cleaned up does not keep the
\* server from starting.
CloseDelivery == Release("delivery", "platform", IF starting THEN "started" ELSE "transcriber")
CloseTranscriber == Release("transcriber", "transcriber", "helper")
CloseHelper == Release("helper", "helper", "providers")
CloseProviders == Release("providers", "providers", "accounts")
CloseAccounts == Release("accounts", "accounts", "closed")

-----------------------------------------------------------------------------
(* What happens while it runs                                               *)

MessageArrives(t, p) ==
    /\ ingress /\ phase \notin {"closed", "retained", "left"}
    /\ BeginTurn(t, p)
    /\ UNCHANGED <<supervisor, should_exit, loaded, graph, commanding>>

\* A reply /stop cancels one turn.
StopTurn(t) ==
    /\ t \in Active /\ Fault
    /\ ingress /\ phase \notin {"closed", "retained", "left"}
    /\ Cancel({t})
    /\ UNCHANGED <<supervisor, should_exit, loaded, graph, commanding, aggregate>>

\* /stop, or the stop of the API: every turn is cancelled, then stop_all.
StopEverything ==
    /\ phase \in {"serving", "quiesce"} /\ "workflow" \in owned /\ ~commanding /\ Fault
    /\ commanding' = TRUE /\ stopping' = "asked"
    /\ Cancel(Active)
    /\ UNCHANGED <<supervisor, should_exit, loaded, graph, todo, failed>>

StoppedEverything ==
    /\ commanding /\ stopping = "done"
    /\ commanding' = FALSE /\ stopping' = "no"
    /\ UNCHANGED <<supervisor, should_exit, loaded, graph,
                   tasks, manager, session, todo, failed, faults>>

Sessions(step) == step /\ UNCHANGED <<supervisor, should_exit, loaded, graph, commanding>>

-----------------------------------------------------------------------------
Supervisor == NextServer \/ Build \/ Publish \/ Return \/ End

Runtime ==
    \/ Starting \/ Connect \/ NoMessaging \/ Serve
    \/ Quiesce \/ CloseWorkflow \/ CloseManager \/ Drain
    \/ CloseDelivery \/ CloseTranscriber \/ CloseHelper \/ CloseProviders \/ CloseAccounts

Next ==
    \/ RequestRestart \/ RequestStop
    \/ Supervisor \/ Runtime \/ MessagingFails \/ StartFails \/ Shutdown
    \/ \E t \in Turns : StopTurn(t) \/ \E p \in Turns \cup {None} : MessageArrives(t, p)
    \/ StopEverything \/ StoppedEverything
    \/ Sessions(SessionStep)

Spec == Init /\ [][Next]_vars

\* The supervisor, the event loop and the tasks go on; uvicorn heeds should_exit;
\* a process ends in time, killed or not. Nobody need send, save or stop anything.
Fairness ==
    /\ WF_vars(Supervisor) /\ WF_vars(Runtime) /\ WF_vars(should_exit /\ Shutdown)
    /\ WF_vars(StoppedEverything \/ Sessions(TaskStep))
    /\ \A s \in Turns : WF_vars(Sessions(Exit(s)))

FairSpec == Spec /\ Fairness

-----------------------------------------------------------------------------
Phases == {"none", "built", "warming", "platform", "cli", "workflow", "connecting",
    "notifying", "started", "serving", "quiesce", "drain", "stopping", "delivery",
    "transcriber", "helper", "providers", "accounts", "closed", "retained", "left"}

\* The types, and what the manager and the locks say of each other.
TypeOK ==
    /\ run \in {"scheduled", "load", "publish", "serve", "ending", "out"}
    /\ stop \in BOOLEAN /\ server \in BOOLEAN /\ should_exit \in BOOLEAN
    /\ generation \in 0 .. MaxRestarts /\ seen \in 0 .. generation
    /\ loaded \in 0 .. generation
    /\ phase \in Phases /\ owned \subseteq Owners
    /\ starting \in BOOLEAN /\ ingress \in BOOLEAN /\ commanding \in BOOLEAN
    /\ SessionsTypeOK

\* ARCHITECTURE.md:340-344, "rather than closing resources that still-live
\* upstream work may need": as long as there is a turn or a managed process,
\* delivery and the providers are open, whatever fails while starting or closing.
WorkHasItsResources ==
    Active \cup Running # {} => {"platform", "providers"} \subseteq owned

\* ARCHITECTURE.md:1224-1228: the pid of a process stays registered until it has
\* exited, so that the last act of the supervisor reaches every process, and the
\* manager knows its session, so that the next stop_all does.
ProcessesAreOwned == run # "out" => Running \subseteq pids \cap known

\* Who holds what agrees: tasks and locks, sessions and processes.
SessionsAreOwned == TypeOK /\ ProcessesAreOwned

\* ARCHITECTURE.md:307-310: the next runtime is built only when nothing is left
\* of the one before.
NoOverlap ==
    [][phase' = "built" /\ phase # "built" => owned \cup Active \cup Running = {}]_vars

\* commands.py:132, 184: no server goes on serving settings older than those
\* for which a restart was granted.
NoStaleServer == phase = "serving" /\ ~should_exit => loaded = generation /\ ~stop

\* One server follows another: never beside it, never behind what was asked for.
RestartsAreClean == []NoStaleServer /\ NoOverlap

\* commands.py:132-155: a stop ends the supervisor, and a restart that is granted
\* brings settings as new as those saved by then, unless the supervisor ends.
RequestsHonoured ==
    /\ stop ~> run = "out"
    /\ \A v \in 1 .. MaxRestarts : (generation = v) ~> (loaded >= v \/ run = "out")
=============================================================================
