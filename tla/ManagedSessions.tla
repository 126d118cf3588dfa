--------------------------- MODULE ManagedSessions ---------------------------
(***************************************************************************)
(* The managed Claude Code sessions of the messaging turns, translated from *)
(* cli/managed/manager.py and cli/managed/session.py, and from the runner   *)
(* that uses them (messaging/node_runner.py).                               *)
(*                                                                          *)
(* A turn has a task, which looks up or creates a session, runs a process   *)
(* in it, reads its output, and removes the session. A session is called by *)
(* the turn that created it. The task may be cancelled wherever it awaits,  *)
(* and again while it cleans up: a second /stop does that. The module has   *)
(* no specification of its own: ServerLifecycle starts the turns, stops all *)
(* of them, and closes.                                                     *)
(***************************************************************************)
EXTENDS Naturals, FiniteSets

CONSTANTS
    Turns,      \* the messages that are answered
    MaxFaults,  \* bound: steps that fail, and commands to stop turns
    None, All   \* nobody, and stop_all

ASSUME NamesAssumption == None \notin Turns /\ All \notin Turns /\ None # All
ASSUME FaultsAssumption == MaxFaults \in Nat

VARIABLES
    at,        \* where the task of each turn is
    parent,    \* the turn whose session it resumes and forks
    using,     \* the session it has got
    known,     \* _sessions and _pending_sessions
    named,     \* those with the id that Claude gave them
    closing,   \* _closing_sessions
    lock,      \* who holds the _lock of the manager
    closed,    \* sessions with _closed set
    life,      \* per session, who holds its _lifecycle_lock
    process,   \* per session, its process
    pids,      \* process_registry._pids, by session
    shield,    \* per session, the stop() that start_task shields
    stopping,  \* where stop_all is
    todo,      \* the sessions it has not stopped yet
    failed,    \* one of them did not stop
    faults     \* steps that have failed

tasks == <<at, parent, using>>
manager == <<known, named, closing, lock>>
session == <<closed, life, process, pids, shield>>
aggregate == <<stopping, todo, failed>>
sessions == <<tasks, manager, session, aggregate, faults>>

-----------------------------------------------------------------------------
Active == {t \in Turns : at[t] \notin {"idle", "done"}}
Running == {s \in Turns : process[s] = "running"}
Go(t, where) == at' = [at EXCEPT ![t] = where]
Fault == faults < MaxFaults /\ faults' = faults + 1

SessionsInit ==
    /\ at = [t \in Turns |-> "idle"] /\ parent = [t \in Turns |-> None]
    /\ using = [t \in Turns |-> None]
    /\ known = {} /\ named = {} /\ closing = {} /\ lock = None
    /\ closed = {} /\ life = [s \in Turns |-> None]
    /\ process = [s \in Turns |-> "none"] /\ pids = {}
    /\ shield = [s \in Turns |-> "none"]
    /\ stopping = "no" /\ todo = {} /\ failed = FALSE /\ faults = 0

\* _session_for_id, for the id of turn p: a pending session has that id when it
\* was created to fork p.
Found(p) == {s \in known : (s = p /\ s \in named) \/ parent[s] = p}

\* Mutant: _closing_sessions is left as it is.
ForgetMost(s) == known' = known \ {s} /\ named' = named \ {s} /\ UNCHANGED closing

\* _forget_session, once the process of s is known to be gone.
Forget(s) ==
    /\ known' = known \ {s} /\ named' = named \ {s} /\ closing' = closing \ {s}

-----------------------------------------------------------------------------
(* The runner of a turn                                                     *)

\* The turns of a tree follow each other: one that resumes p begins when p and
\* all that resumed it before have ended.
BeginTurn(t, p) ==
    /\ at[t] = "idle" /\ Go(t, "lookup")
    /\ p # None => at[p] = "done" /\ \A u \in Active : parent[u] # p
    /\ parent' = [parent EXCEPT ![t] = p]
    /\ UNCHANGED <<using, manager, session, aggregate, faults>>

\* get_or_create_session: one that is closing is refused.
Lookup(t) ==
    /\ at[t] = "lookup" /\ lock = None
    /\ \E s \in IF parent[t] # None /\ Found(parent[t]) # {} THEN Found(parent[t]) ELSE {t} :
          IF s \in closing
          THEN Go(t, "done") /\ UNCHANGED <<using, known>>
          ELSE /\ known' = known \cup {s} /\ using' = [using EXCEPT ![t] = s]
               /\ Go(t, "launch")
    /\ UNCHANGED <<parent, named, closing, lock, session, aggregate, faults>>

\* Mutant: an issued reference may start a process after stop().
LaunchAnyway(t) ==
    LET s == using[t] IN
    /\ at[t] = "launch" /\ life[s] = None /\ process[s] # "running"
    /\ Go(t, "creating")
    /\ life' = [life EXCEPT ![s] = t]
    /\ process' = [process EXCEPT ![s] = "creating"]
    /\ UNCHANGED <<parent, using, manager, closed, pids, shield, aggregate, faults>>

\* start_task, under _lifecycle_lock: nothing is launched in a session stopped.
Launch(t) ==
    LET s == using[t] IN
    /\ at[t] = "launch" /\ life[s] = None /\ process[s] # "running"
    /\ IF s \in closed
       THEN Go(t, "leaving") /\ UNCHANGED <<life, process>>
       ELSE /\ Go(t, "creating")
            /\ life' = [life EXCEPT ![s] = t]
            /\ process' = [process EXCEPT ![s] = "creating"]
    /\ UNCHANGED <<parent, using, manager, closed, pids, shield, aggregate, faults>>

\* The process is there, and its pid is registered; or it cannot be created.
Created(t, ok) ==
    LET s == using[t] IN
    /\ at[t] = "creating"
    /\ life' = [life EXCEPT ![s] = None]
    /\ process' = [process EXCEPT ![s] = IF ok THEN "running" ELSE "none"]
    /\ pids' = IF ok THEN pids \cup {s} ELSE pids
    /\ Go(t, IF ok THEN "reading" ELSE "leaving")
    /\ UNCHANGED <<parent, using, manager, closed, shield, aggregate, faults>>

\* The runner handles an event that start_task has yielded, and asks for the
\* next. The first one names the session.
Event(t) ==
    /\ at[t] = "reading" /\ process[using[t]] = "running"
    /\ \E where \in IF using[t] = t /\ t \notin named THEN {"naming"} ELSE {"handling"} :
          Go(t, where)
    /\ UNCHANGED <<parent, using, manager, session, aggregate, faults>>

Handled(t) ==
    /\ at[t] = "handling" /\ Go(t, "reading")
    /\ UNCHANGED <<parent, using, manager, session, aggregate, faults>>

\* register_real_session_id: refused when the session is closing, or gone.
Register(t) ==
    /\ at[t] = "naming" /\ lock = None
    /\ IF t \in known \ closing
       THEN named' = named \cup {t} /\ Go(t, "handling")
       ELSE Go(t, "leaving") /\ UNCHANGED named
    /\ UNCHANGED <<parent, using, known, closing, lock, session, aggregate, faults>>

\* Mutant: the pid is forgotten whenever start_task ends.
OutputEndsEarly(t) ==
    LET s == using[t] IN
    /\ at[t] \in {"reading", "draining"}
    /\ Go(t, "leaving") /\ pids' = pids \ {s}
    /\ UNCHANGED <<parent, using, manager, closed, life, process, shield, aggregate, faults>>

\* The output has ended and the process has exited; start_task ends, after a
\* cancellation by way of the finally clause, which awaits stderr.
OutputEnds(t) ==
    LET s == using[t] IN
    /\ at[t] \in {"reading", "draining"} /\ process[s] # "running"
    /\ Go(t, "leaving") /\ pids' = pids \ {s}
    /\ UNCHANGED <<parent, using, manager, closed, life, process, shield, aggregate, faults>>

\* The shielded stop() has returned, whatever it returned.
ShieldReturns(t) ==
    /\ at[t] = "shielded" /\ shield[using[t]] = "none"
    /\ Go(t, "draining")
    /\ UNCHANGED <<parent, using, manager, session, aggregate, faults>>

\* remove_session, in the finally clause of the runner: the session is closing
\* from here on, and the manager locked.
Remove(t) ==
    /\ at[t] = "leaving" /\ lock = None
    /\ IF using[t] \in known
       THEN closing' = closing \cup {using[t]} /\ lock' = t /\ Go(t, "removing")
       ELSE Go(t, "done") /\ UNCHANGED <<closing, lock>>
    /\ UNCHANGED <<parent, using, known, named, session, aggregate, faults>>

-----------------------------------------------------------------------------
(* stop() of a session, called by the runner, the shield and stop_all       *)

\* No process, or one that has exited; else it is told to end, and awaited.
StopNow(s) ==
    /\ life[s] = None /\ process[s] # "running"
    /\ closed' = closed \cup {s} /\ pids' = pids \ {s}

Kill(s, who) ==
    /\ life[s] = None /\ process[s] = "running"
    /\ closed' = closed \cup {s} /\ life' = [life EXCEPT ![s] = who]

Removed(t) ==
    /\ at[t] = "removing" /\ StopNow(using[t])
    /\ Forget(using[t]) /\ lock' = None /\ Go(t, "done")
    /\ UNCHANGED <<parent, using, life, process, shield, aggregate, faults>>

RemoveKills(t) ==
    /\ at[t] = "removing" /\ Kill(using[t], t) /\ Go(t, "killing")
    /\ UNCHANGED <<parent, using, manager, process, pids, shield, aggregate, faults>>

\* It exits, or stop() catches an exception and returns False.
RemoveWaits(t, ok) ==
    LET s == using[t] IN
    /\ at[t] = "killing"
    /\ life' = [life EXCEPT ![s] = None] /\ lock' = None /\ Go(t, "done")
    /\ IF ok THEN process[s] = "none" /\ pids' = pids \ {s} /\ Forget(s) /\ UNCHANGED faults
       ELSE Fault /\ UNCHANGED <<pids, known, named, closing>>
    /\ UNCHANGED <<parent, using, closed, process, shield, aggregate>>

ShieldStops(s) ==
    /\ shield[s] = "stop"
    /\ \/ StopNow(s) /\ shield' = [shield EXCEPT ![s] = "none"] /\ UNCHANGED life
       \/ Kill(s, s) /\ shield' = [shield EXCEPT ![s] = "kill"] /\ UNCHANGED pids
    /\ UNCHANGED <<tasks, manager, process, aggregate, faults>>

ShieldWaits(s, ok) ==
    /\ shield[s] = "kill" /\ shield' = [shield EXCEPT ![s] = "none"]
    /\ life' = [life EXCEPT ![s] = None]
    /\ IF ok THEN process[s] = "none" /\ pids' = pids \ {s} /\ UNCHANGED faults
       ELSE Fault /\ UNCHANGED pids
    /\ UNCHANGED <<tasks, manager, closed, process, aggregate>>

-----------------------------------------------------------------------------
(* stop_all                                                                 *)

StopAll ==
    /\ stopping = "asked" /\ lock = None
    /\ lock' = All /\ stopping' = "next"
    /\ closing' = known /\ todo' = known /\ failed' = FALSE
    /\ UNCHANGED <<tasks, known, named, session, faults>>

StopNext(s) ==
    /\ stopping = "next" /\ s \in todo
    /\ StopNow(s) /\ Forget(s) /\ todo' = todo \ {s}
    /\ UNCHANGED <<tasks, lock, life, process, shield, stopping, failed, faults>>

KillNext(s) ==
    /\ stopping = "next" /\ s \in todo
    /\ Kill(s, All) /\ stopping' = "kill"
    /\ UNCHANGED <<tasks, manager, process, pids, shield, todo, failed, faults>>

\* Mutant: a session is forgotten whether or not it has stopped.
StopForgets(s, ok) ==
    /\ stopping = "kill" /\ life[s] = All /\ stopping' = "next"
    /\ life' = [life EXCEPT ![s] = None] /\ todo' = todo \ {s} /\ Forget(s)
    /\ IF ok THEN process[s] = "none" /\ pids' = pids \ {s} /\ UNCHANGED <<failed, faults>>
       ELSE Fault /\ UNCHANGED <<pids, failed>>
    /\ UNCHANGED <<tasks, lock, closed, process, shield>>

StopWaits(s, ok) ==
    /\ stopping = "kill" /\ life[s] = All /\ stopping' = "next"
    /\ life' = [life EXCEPT ![s] = None] /\ todo' = todo \ {s}
    /\ IF ok THEN /\ process[s] = "none" /\ pids' = pids \ {s} /\ Forget(s)
                  /\ UNCHANGED <<failed, faults>>
       ELSE Fault /\ failed' = TRUE /\ UNCHANGED <<pids, known, named, closing>>
    /\ UNCHANGED <<tasks, lock, closed, process, shield>>

\* It returns, or raises when a session has not stopped.
StoppedAll ==
    /\ stopping = "next" /\ todo = {}
    /\ lock' = None /\ stopping' = "done"
    /\ UNCHANGED <<tasks, known, named, closing, session, todo, failed, faults>>

-----------------------------------------------------------------------------
\* The processes: they exit in time by themselves, or because they were killed.
Exit(s) ==
    /\ process[s] = "running" /\ process' = [process EXCEPT ![s] = "none"]
    /\ UNCHANGED <<tasks, manager, closed, life, pids, shield, aggregate, faults>>

\* The finally clause of a start_task that nobody reads any more: it runs when
\* the generator is collected.
Collected(s) ==
    /\ s \in pids /\ process[s] = "none" /\ pids' = pids \ {s}
    /\ \A t \in Active : using[t] # s
    /\ UNCHANGED <<tasks, manager, closed, life, process, shield, aggregate, faults>>

\* What a cancelled task does next: it leaves, and with it every lock it holds.
\* While it awaits the output, start_task stops the process first; while it
\* awaits remove_session, that is given up.
AfterCancel(t) ==
    CASE at[t] = "reading" -> "shielded"
      [] at[t] = "shielded" -> "draining"
      [] at[t] \in {"launch", "creating", "naming", "handling", "draining"} -> "leaving"
      [] OTHER -> "done"

\* Mutant: the lock of the manager is not released by a cancelled remove_session.
CancelHolding(ts) ==
    /\ at' = [t \in Turns |-> IF t \in ts THEN AfterCancel(t) ELSE at[t]]
    /\ life' = [s \in Turns |->
          IF life[s] \in ts /\ at[life[s]] \in {"creating", "killing"} THEN None ELSE life[s]]
    /\ process' = [s \in Turns |->
          IF process[s] = "creating" /\ life[s] \in ts THEN "none" ELSE process[s]]
    /\ shield' = [s \in Turns |->
          IF shield[s] = "none" /\ \E t \in ts : at[t] = "reading" /\ using[t] = s
          THEN "stop" ELSE shield[s]]
    /\ UNCHANGED <<parent, using, manager, closed, pids>>

\* Tasks ts are cancelled. A process that was being created is killed by asyncio.
\* A stop() under way in a session serves every reader of it that is cancelled.
Cancel(ts) ==
    /\ at' = [t \in Turns |-> IF t \in ts THEN AfterCancel(t) ELSE at[t]]
    /\ lock' = IF lock \in ts THEN None ELSE lock
    /\ life' = [s \in Turns |->
          IF life[s] \in ts /\ at[life[s]] \in {"creating", "killing"} THEN None ELSE life[s]]
    /\ process' = [s \in Turns |->
          IF process[s] = "creating" /\ life[s] \in ts THEN "none" ELSE process[s]]
    /\ shield' = [s \in Turns |->
          IF shield[s] = "none" /\ \E t \in ts : at[t] = "reading" /\ using[t] = s
          THEN "stop" ELSE shield[s]]
    /\ UNCHANGED <<parent, using, known, named, closing, closed, pids>>

\* What tasks do when they can, and what is left to the processes.
TaskStep ==
    \/ \E t \in Turns :
          \/ Lookup(t) \/ Launch(t) \/ Created(t, TRUE) \/ Created(t, FALSE)
          \/ Handled(t) \/ Register(t) \/ OutputEnds(t) \/ ShieldReturns(t)
          \/ Remove(t) \/ Removed(t) \/ RemoveKills(t)
          \/ RemoveWaits(t, TRUE) \/ RemoveWaits(t, FALSE)
    \/ \E s \in Turns :
          \/ ShieldStops(s) \/ ShieldWaits(s, TRUE) \/ ShieldWaits(s, FALSE)
          \/ StopNext(s) \/ KillNext(s) \/ StopWaits(s, TRUE) \/ StopWaits(s, FALSE)
    \/ StopAll \/ StoppedAll

SessionStep == TaskStep \/ \E t \in Turns : Event(t) \/ Exit(t) \/ Collected(t)

Stops == {"idle", "lookup", "launch", "creating", "reading", "handling", "naming",
    "shielded", "draining", "leaving", "removing", "killing", "done"}

SessionsTypeOK ==
    /\ at \in [Turns -> Stops] /\ parent \in [Turns -> Turns \cup {None}]
    /\ using \in [Turns -> Turns \cup {None}]
    /\ named \cup closing \subseteq known /\ known \subseteq Turns
    /\ lock \in Turns \cup {None, All} /\ closed \subseteq Turns
    /\ life \in [Turns -> Turns \cup {None, All}]
    /\ process \in [Turns -> {"none", "creating", "running"}] /\ pids \subseteq Turns
    /\ shield \in [Turns -> {"none", "stop", "kill"}]
    /\ stopping \in {"no", "asked", "next", "kill", "done"}
    /\ todo \subseteq known /\ failed \in BOOLEAN /\ faults \in 0 .. MaxFaults
    /\ \A t \in Turns : at[t] \in {"removing", "killing"} <=> lock = t
    /\ \A s \in Turns : process[s] = "creating" => life[s] # None
=============================================================================
