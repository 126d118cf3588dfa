------------------------- MODULE ServerLifecycleProofs -------------------------
(***************************************************************************)
(* Theorems about the life of a server and of its managed sessions, for any *)
(* turns, restarts and faults: what a step of a session keeps whatever the  *)
(* server does, what a step of the supervisor or of the runtime does to the *)
(* sessions, and the invariant of both.                                     *)
(***************************************************************************)
EXTENDS ServerLifecycle, TLAPS

-----------------------------------------------------------------------------
(* The sessions, whatever the server does. *)

\* A turn has a session from the moment it has looked one up. A session is called
\* by the turn that created it, which uses it.
Used ==
    \A t \in Turns :
        /\ at[t] \in {"idle", "lookup"} => using[t] = None
        /\ at[t] \notin {"idle", "lookup", "done"} => using[t] # None
        /\ using[t] # None => using[using[t]] = using[t]
        /\ t \in known \/ shield[t] # "none" => using[t] = t

\* Who has a _lifecycle_lock: the turn that creates or kills, or the shield.
Lives ==
    /\ \A t \in Turns :
          /\ at[t] \in {"creating", "killing"} =>
                life[using[t]] = t /\ shield[using[t]] # "kill"
          /\ shield[t] = "kill" => life[t] = t
    /\ \A s \in Turns : process[s] = "creating" =>
          \E t \in Turns : life[s] = t /\ at[t] = "creating" /\ using[t] = s

\* A session that has been forgotten has been closed: nothing is launched in it.
Launching ==
    \A t \in Turns :
        /\ at[t] = "launch" => using[t] \in known \cup closed
        /\ at[t] = "creating" => using[t] \in known
        /\ at[t] = "killing" => using[t] \in closed
        /\ life[t] = All => t \in closed

\* stop_all has the lock of the manager as long as it has sessions to stop, and the
\* manager knows nothing else unless a stop has failed.
StoppingAll ==
    /\ stopping \in {"next", "kill"} <=> lock = All
    /\ stopping \notin {"next", "kill"} => todo = {}
    /\ stopping \in {"next", "kill"} /\ ~failed => known \subseteq todo

\* What runs is known.
KnownRuns == Running \subseteq known

SessionsInv == SessionsTypeOK /\ Used /\ Lives /\ Launching /\ StoppingAll /\ KnownRuns

-----------------------------------------------------------------------------
(* The runtime, and the supervisor. *)

\* Phases before the next runtime, and those with a server.
Absent == {"none", "closed"}
Gone == Absent \cup {"retained", "left"}

\* The types of TypeOK, without those of the sessions.
ServerTyped ==
    /\ run \in {"scheduled", "load", "publish", "serve", "ending", "out"}
    /\ stop \in BOOLEAN /\ server \in BOOLEAN /\ should_exit \in BOOLEAN
    /\ generation \in 0 .. MaxRestarts /\ seen \in 0 .. generation
    /\ loaded \in 0 .. generation
    /\ phase \in Phases /\ owned \subseteq Owners
    /\ starting \in BOOLEAN /\ ingress \in BOOLEAN /\ commanding \in BOOLEAN

\* Where the supervisor is while the runtime is where it is.
Together ==
    /\ run \in {"scheduled", "load"} => phase \in Absent
    /\ run = "publish" <=> phase = "built"
    /\ run = "serve" => server /\ phase # "none"
    /\ run \in {"ending", "out"} => phase \in Gone

\* What is owned in each phase.
Closers == {"quiesce", "drain", "stopping", "delivery"}
Owning ==
    /\ "workflow" \in owned => "cli" \in owned
    /\ "cli" \in owned => "platform" \in owned
    /\ "platform" \in owned => Always \subseteq owned
    /\ phase \in Absent => owned = {}
    /\ phase \in {"built", "warming", "platform", "started"} => owned = Always
    /\ phase = "cli" => owned = Always \cup {"platform"}
    /\ phase = "workflow" => owned = Always \cup {"platform", "cli"}
    /\ phase \in {"connecting", "notifying"} => owned = Owners
    /\ phase \in {"serving"} \cup Closers => Always \subseteq owned
    /\ phase = "stopping" => "cli" \in owned
    /\ phase = "delivery" => owned \subseteq Always \cup {"platform"}
    /\ phase = "transcriber" => owned \subseteq Always
    /\ phase = "helper" => owned \subseteq {"helper", "providers", "accounts"}
    /\ phase = "providers" => owned \subseteq {"providers", "accounts"}
    /\ phase = "accounts" => owned \subseteq {"accounts"}
    /\ starting => phase \in Closers

\* Messages come in only through a workflow, and none once it has been quiesced.
Receiving ==
    ingress => /\ "workflow" \in owned
               /\ phase \in {"notifying", "serving", "quiesce", "retained", "left"}

\* stop_all is called by a command or by close(), never by both.
Calling ==
    /\ commanding => /\ stopping # "no" /\ "workflow" \in owned
                     /\ phase \in {"serving", "quiesce", "drain", "retained"}
    /\ phase = "stopping" => stopping # "no" /\ ~commanding
    /\ stopping # "no" => commanding \/ phase = "stopping"

\* Turns, and the processes they have left, belong to a workflow.
Working == Active \cup Running # {} => "workflow" \in owned

\* Places of a turn that begins nothing any more.
Ends == {"idle", "done", "shielded", "draining", "leaving", "removing", "killing"}

\* While close() stops everything no turn begins anything, so that what stop_all has
\* not failed to stop does not come back.
Settling ==
    phase = "stopping" =>
        /\ \A t \in Turns : at[t] \in Ends
        /\ stopping = "done" /\ ~failed => known = {}

\* A server that need not exit has the last settings.
Fresh ==
    /\ run \in {"publish", "serve"} => seen <= loaded
    /\ run = "serve" /\ ~should_exit => ~stop /\ generation = seen

\* The pid of a process is registered, until the supervisor has told all to end.
Registered == run # "out" => Running \subseteq pids

LifecycleInv ==
    /\ ServerTyped /\ Together /\ Owning /\ Receiving /\ Calling
    /\ Working /\ Settling /\ Fresh /\ Registered

Inv == SessionsInv /\ LifecycleInv

-----------------------------------------------------------------------------
(* Steps of the sessions. *)

\* What such a step does not do, for the server.
Quiet ==
    /\ Active' \cup Running' # {} => Active \cup Running # {}
    /\ Running \subseteq pids => Running' \subseteq pids'
    /\ stopping' = "no" <=> stopping = "no"
    /\ \A t \in Turns : at[t] \in Ends => at'[t] \in Ends
    /\ (\A t \in Turns : at[t] \in Ends) => known' \subseteq known
    /\ stopping' = "done" /\ ~failed' => known' = {} \/ (stopping = "done" /\ ~failed)

LEMMA LookupKeeps ==
    ASSUME SessionsInv, NEW t \in Turns, Lookup(t)
    PROVE  SessionsInv' /\ Quiet
  <1> USE NamesAssumption, FaultsAssumption DEF SessionsInv, Lookup, Go, Stops,
          Running, tasks, manager, session, aggregate, sessions
  <1>0. /\ at[t] = "lookup" /\ lock = None /\ using[t] = None
        /\ UNCHANGED <<parent, named, closing, lock, session, aggregate, faults>>
        /\ \E s \in known \cup {t} :
              \/ at' = [at EXCEPT ![t] = "done"] /\ UNCHANGED <<using, known>>
              \/ /\ at' = [at EXCEPT ![t] = "launch"] /\ known' = known \cup {s}
                 /\ using' = [using EXCEPT ![t] = s]
    BY DEF Found, Used, SessionsTypeOK
  <1> HIDE DEF Lookup
  <1>1. SessionsTypeOK'  BY SMTT(30), <1>0 DEF SessionsTypeOK
  <1>2. Used'  BY <1>0 DEF Used, SessionsTypeOK
  <1>3. Lives'  BY <1>0 DEF Lives, Used, SessionsTypeOK
  <1>4. Launching'  BY <1>0 DEF Launching, Lives, Used, SessionsTypeOK
  <1>5. StoppingAll'  BY <1>0 DEF StoppingAll, SessionsTypeOK
  <1>6. KnownRuns'  BY <1>0 DEF KnownRuns, Launching, SessionsTypeOK
  <1>7. Quiet  BY <1>0 DEF Quiet, Ends, Active, SessionsTypeOK, Used, StoppingAll
  <1> QED  BY <1>1, <1>2, <1>3, <1>4, <1>5, <1>6, <1>7

LEMMA LaunchKeeps ==
    ASSUME SessionsInv, NEW t \in Turns, Launch(t)
    PROVE  SessionsInv' /\ Quiet
  <1> USE NamesAssumption, FaultsAssumption DEF SessionsInv, Launch, Go, Stops,
          Running, tasks, manager, session, aggregate, sessions
  <1>1. SessionsTypeOK'  BY SMTT(30) DEF SessionsTypeOK, Used, StoppingAll, Lives
  <1>2. Used'  BY DEF Used, SessionsTypeOK
  <1>3. Lives'  BY DEF Lives, Used, SessionsTypeOK
  <1>4. Launching'  BY DEF Launching, Lives, Used, SessionsTypeOK
  <1>5. StoppingAll'  BY DEF StoppingAll, SessionsTypeOK
  <1>6. KnownRuns'  BY DEF KnownRuns, Launching, SessionsTypeOK
  <1>7. Quiet  BY DEF Quiet, Ends, Active, SessionsTypeOK, Used, StoppingAll
  <1> QED  BY <1>1, <1>2, <1>3, <1>4, <1>5, <1>6, <1>7

LEMMA CreatedKeeps ==
    ASSUME SessionsInv, NEW t \in Turns, NEW ok \in BOOLEAN, Created(t, ok)
    PROVE  SessionsInv' /\ Quiet
  <1> USE NamesAssumption, FaultsAssumption DEF SessionsInv, Created, Go, Stops,
          Running, tasks, manager, session, aggregate, sessions
  <1>1. SessionsTypeOK'  BY SMTT(30) DEF SessionsTypeOK, Used, StoppingAll, Lives
  <1>2. Used'  BY DEF Used, SessionsTypeOK
  <1>3. Lives'  BY DEF Lives, Used, SessionsTypeOK
  <1>4. Launching'  BY DEF Launching, Lives, Used, SessionsTypeOK
  <1>5. StoppingAll'  BY DEF StoppingAll, SessionsTypeOK
  <1>6. KnownRuns'  BY DEF KnownRuns, Launching, SessionsTypeOK
  <1>7. Quiet  BY DEF Quiet, Ends, Active, SessionsTypeOK, Used, StoppingAll
  <1> QED  BY <1>1, <1>2, <1>3, <1>4, <1>5, <1>6, <1>7

LEMMA HandledKeeps ==
    ASSUME SessionsInv, NEW t \in Turns, Handled(t)
    PROVE  SessionsInv' /\ Quiet
  <1> USE NamesAssumption, FaultsAssumption DEF SessionsInv, Handled, Go, Stops,
          Running, tasks, manager, session, aggregate, sessions
  <1>1. SessionsTypeOK'  BY SMTT(30) DEF SessionsTypeOK, Used, StoppingAll, Lives
  <1>2. Used'  BY DEF Used, SessionsTypeOK
  <1>3. Lives'  BY DEF Lives, Used, SessionsTypeOK
  <1>4. Launching'  BY DEF Launching, Lives, Used, SessionsTypeOK
  <1>5. StoppingAll'  BY DEF StoppingAll, SessionsTypeOK
  <1>6. KnownRuns'  BY DEF KnownRuns, Launching, SessionsTypeOK
  <1>7. Quiet  BY DEF Quiet, Ends, Active, SessionsTypeOK, Used, StoppingAll
  <1> QED  BY <1>1, <1>2, <1>3, <1>4, <1>5, <1>6, <1>7

LEMMA EventKeeps ==
    ASSUME SessionsInv, NEW t \in Turns, Event(t)
    PROVE  SessionsInv' /\ Quiet
  <1> USE NamesAssumption, FaultsAssumption DEF SessionsInv, Event, Go, Stops,
          Running, tasks, manager, session, aggregate, sessions
  <1>1. SessionsTypeOK'  BY SMTT(30) DEF SessionsTypeOK, Used, StoppingAll, Lives
  <1>2. Used'  BY DEF Used, SessionsTypeOK
  <1>3. Lives'  BY DEF Lives, Used, SessionsTypeOK
  <1>4. Launching'  BY DEF Launching, Lives, Used, SessionsTypeOK
  <1>5. StoppingAll'  BY DEF StoppingAll, SessionsTypeOK
  <1>6. KnownRuns'  BY DEF KnownRuns, Launching, SessionsTypeOK
  <1>7. Quiet  BY DEF Quiet, Ends, Active, SessionsTypeOK, Used, StoppingAll
  <1> QED  BY <1>1, <1>2, <1>3, <1>4, <1>5, <1>6, <1>7

LEMMA RegisterKeeps ==
    ASSUME SessionsInv, NEW t \in Turns, Register(t)
    PROVE  SessionsInv' /\ Quiet
  <1> USE NamesAssumption, FaultsAssumption DEF SessionsInv, Register, Go, Stops,
          Running, tasks, manager, session, aggregate, sessions
  <1>1. SessionsTypeOK'  BY SMTT(30) DEF SessionsTypeOK, Used, StoppingAll, Lives
  <1>2. Used'  BY DEF Used, SessionsTypeOK
  <1>3. Lives'  BY DEF Lives, Used, SessionsTypeOK
  <1>4. Launching'  BY DEF Launching, Lives, Used, SessionsTypeOK
  <1>5. StoppingAll'  BY DEF StoppingAll, SessionsTypeOK
  <1>6. KnownRuns'  BY DEF KnownRuns, Launching, SessionsTypeOK
  <1>7. Quiet  BY DEF Quiet, Ends, Active, SessionsTypeOK, Used, StoppingAll
  <1> QED  BY <1>1, <1>2, <1>3, <1>4, <1>5, <1>6, <1>7

LEMMA OutputEndsKeeps ==
    ASSUME SessionsInv, NEW t \in Turns, OutputEnds(t)
    PROVE  SessionsInv' /\ Quiet
  <1> USE NamesAssumption, FaultsAssumption DEF SessionsInv, OutputEnds, Go, Stops,
          Running, tasks, manager, session, aggregate, sessions
  <1>1. SessionsTypeOK'  BY SMTT(30) DEF SessionsTypeOK, Used, StoppingAll, Lives
  <1>2. Used'  BY DEF Used, SessionsTypeOK
  <1>3. Lives'  BY DEF Lives, Used, SessionsTypeOK
  <1>4. Launching'  BY DEF Launching, Lives, Used, SessionsTypeOK
  <1>5. StoppingAll'  BY DEF StoppingAll, SessionsTypeOK
  <1>6. KnownRuns'  BY DEF KnownRuns, Launching, SessionsTypeOK
  <1>7. Quiet  BY DEF Quiet, Ends, Active, SessionsTypeOK, Used, StoppingAll
  <1> QED  BY <1>1, <1>2, <1>3, <1>4, <1>5, <1>6, <1>7

LEMMA ShieldReturnsKeeps ==
    ASSUME SessionsInv, NEW t \in Turns, ShieldReturns(t)
    PROVE  SessionsInv' /\ Quiet
  <1> USE NamesAssumption, FaultsAssumption DEF SessionsInv, ShieldReturns, Go, Stops,
          Running, tasks, manager, session, aggregate, sessions
  <1>1. SessionsTypeOK'  BY SMTT(30) DEF SessionsTypeOK, Used, StoppingAll, Lives
  <1>2. Used'  BY DEF Used, SessionsTypeOK
  <1>3. Lives'  BY DEF Lives, Used, SessionsTypeOK
  <1>4. Launching'  BY DEF Launching, Lives, Used, SessionsTypeOK
  <1>5. StoppingAll'  BY DEF StoppingAll, SessionsTypeOK
  <1>6. KnownRuns'  BY DEF KnownRuns, Launching, SessionsTypeOK
  <1>7. Quiet  BY DEF Quiet, Ends, Active, SessionsTypeOK, Used, StoppingAll
  <1> QED  BY <1>1, <1>2, <1>3, <1>4, <1>5, <1>6, <1>7

LEMMA RemoveKeeps ==
    ASSUME SessionsInv, NEW t \in Turns, Remove(t)
    PROVE  SessionsInv' /\ Quiet
  <1> USE NamesAssumption, FaultsAssumption DEF SessionsInv, Remove, Go, Stops,
          Running, tasks, manager, session, aggregate, sessions
  <1>1. SessionsTypeOK'  BY SMTT(30) DEF SessionsTypeOK, Used, StoppingAll, Lives
  <1>2. Used'  BY DEF Used, SessionsTypeOK
  <1>3. Lives'  BY DEF Lives, Used, SessionsTypeOK
  <1>4. Launching'  BY DEF Launching, Lives, Used, SessionsTypeOK
  <1>5. StoppingAll'  BY DEF StoppingAll, SessionsTypeOK
  <1>6. KnownRuns'  BY DEF KnownRuns, Launching, SessionsTypeOK
  <1>7. Quiet  BY DEF Quiet, Ends, Active, SessionsTypeOK, Used, StoppingAll
  <1> QED  BY <1>1, <1>2, <1>3, <1>4, <1>5, <1>6, <1>7

LEMMA RemovedKeeps ==
    ASSUME SessionsInv, NEW t \in Turns, Removed(t)
    PROVE  SessionsInv' /\ Quiet
  <1> USE NamesAssumption, FaultsAssumption DEF SessionsInv, Removed, StopNow, Forget, Go, Stops,
          Running, tasks, manager, session, aggregate, sessions
  <1>1. SessionsTypeOK'  BY SMTT(30) DEF SessionsTypeOK, Used, StoppingAll, Lives
  <1>2. Used'  BY DEF Used, SessionsTypeOK
  <1>3. Lives'  BY DEF Lives, Used, SessionsTypeOK
  <1>4. Launching'  BY DEF Launching, Lives, Used, SessionsTypeOK
  <1>5. StoppingAll'  BY DEF StoppingAll, SessionsTypeOK
  <1>6. KnownRuns'  BY DEF KnownRuns, Launching, SessionsTypeOK
  <1>7. Quiet  BY DEF Quiet, Ends, Active, SessionsTypeOK, Used, StoppingAll
  <1> QED  BY <1>1, <1>2, <1>3, <1>4, <1>5, <1>6, <1>7

LEMMA RemoveKillsKeeps ==
    ASSUME SessionsInv, NEW t \in Turns, RemoveKills(t)
    PROVE  SessionsInv' /\ Quiet
  <1> USE NamesAssumption, FaultsAssumption DEF SessionsInv, RemoveKills, Kill, Go, Stops,
          Running, tasks, manager, session, aggregate, sessions
  <1>1. SessionsTypeOK'  BY SMTT(30) DEF SessionsTypeOK, Used, StoppingAll, Lives
  <1>2. Used'  BY DEF Used, SessionsTypeOK
  <1>3. Lives'  BY DEF Lives, Used, SessionsTypeOK
  <1>4. Launching'  BY DEF Launching, Lives, Used, SessionsTypeOK
  <1>5. StoppingAll'  BY DEF StoppingAll, SessionsTypeOK
  <1>6. KnownRuns'  BY DEF KnownRuns, Launching, SessionsTypeOK
  <1>7. Quiet  BY DEF Quiet, Ends, Active, SessionsTypeOK, Used, StoppingAll
  <1> QED  BY <1>1, <1>2, <1>3, <1>4, <1>5, <1>6, <1>7

LEMMA RemoveWaitsKeeps ==
    ASSUME SessionsInv, NEW t \in Turns, NEW ok \in BOOLEAN, RemoveWaits(t, ok)
    PROVE  SessionsInv' /\ Quiet
  <1> USE NamesAssumption, FaultsAssumption DEF SessionsInv, RemoveWaits, Forget, Fault, Go, Stops,
          Running, tasks, manager, session, aggregate, sessions
  <1>1. SessionsTypeOK'  BY SMTT(30) DEF SessionsTypeOK, Used, StoppingAll, Lives
  <1>2. Used'  BY DEF Used, SessionsTypeOK
  <1>3. Lives'  BY DEF Lives, Used, SessionsTypeOK
  <1>4. Launching'  BY DEF Launching, Lives, Used, SessionsTypeOK
  <1>5. StoppingAll'  BY DEF StoppingAll, SessionsTypeOK
  <1>6. KnownRuns'  BY DEF KnownRuns, Launching, SessionsTypeOK
  <1>7. Quiet  BY DEF Quiet, Ends, Active, SessionsTypeOK, Used, StoppingAll
  <1> QED  BY <1>1, <1>2, <1>3, <1>4, <1>5, <1>6, <1>7

LEMMA ShieldStopsKeeps ==
    ASSUME SessionsInv, NEW t \in Turns, ShieldStops(t)
    PROVE  SessionsInv' /\ Quiet
  <1> USE NamesAssumption, FaultsAssumption DEF SessionsInv, ShieldStops, StopNow, Kill, Go, Stops,
          Running, tasks, manager, session, aggregate, sessions
  <1>1. SessionsTypeOK'  BY SMTT(30) DEF SessionsTypeOK, Used, StoppingAll, Lives
  <1>2. Used'  BY DEF Used, SessionsTypeOK
  <1>3. Lives'  BY DEF Lives, Used, SessionsTypeOK
  <1>4. Launching'  BY DEF Launching, Lives, Used, SessionsTypeOK
  <1>5. StoppingAll'  BY DEF StoppingAll, SessionsTypeOK
  <1>6. KnownRuns'  BY DEF KnownRuns, Launching, SessionsTypeOK
  <1>7. Quiet  BY DEF Quiet, Ends, Active, SessionsTypeOK, Used, StoppingAll
  <1> QED  BY <1>1, <1>2, <1>3, <1>4, <1>5, <1>6, <1>7

LEMMA ShieldWaitsKeeps ==
    ASSUME SessionsInv, NEW t \in Turns, NEW ok \in BOOLEAN, ShieldWaits(t, ok)
    PROVE  SessionsInv' /\ Quiet
  <1> USE NamesAssumption, FaultsAssumption DEF SessionsInv, ShieldWaits, Fault, Go, Stops,
          Running, tasks, manager, session, aggregate, sessions
  <1>1. SessionsTypeOK'  BY SMTT(30) DEF SessionsTypeOK, Used, StoppingAll, Lives
  <1>2. Used'  BY DEF Used, SessionsTypeOK
  <1>3. Lives'  BY DEF Lives, Used, SessionsTypeOK
  <1>4. Launching'  BY DEF Launching, Lives, Used, SessionsTypeOK
  <1>5. StoppingAll'  BY DEF StoppingAll, SessionsTypeOK
  <1>6. KnownRuns'  BY DEF KnownRuns, Launching, SessionsTypeOK
  <1>7. Quiet  BY DEF Quiet, Ends, Active, SessionsTypeOK, Used, StoppingAll
  <1> QED  BY <1>1, <1>2, <1>3, <1>4, <1>5, <1>6, <1>7

LEMMA StopNextKeeps ==
    ASSUME SessionsInv, NEW t \in Turns, StopNext(t)
    PROVE  SessionsInv' /\ Quiet
  <1> USE NamesAssumption, FaultsAssumption DEF SessionsInv, StopNext, StopNow, Forget, Go, Stops,
          Running, tasks, manager, session, aggregate, sessions
  <1>1. SessionsTypeOK'  BY SMTT(30) DEF SessionsTypeOK, Used, StoppingAll, Lives
  <1>2. Used'  BY DEF Used, SessionsTypeOK
  <1>3. Lives'  BY DEF Lives, Used, SessionsTypeOK
  <1>4. Launching'  BY DEF Launching, Lives, Used, SessionsTypeOK
  <1>5. StoppingAll'  BY DEF StoppingAll, SessionsTypeOK
  <1>6. KnownRuns'  BY DEF KnownRuns, Launching, SessionsTypeOK
  <1>7. Quiet  BY DEF Quiet, Ends, Active, SessionsTypeOK, Used, StoppingAll
  <1> QED  BY <1>1, <1>2, <1>3, <1>4, <1>5, <1>6, <1>7

LEMMA KillNextKeeps ==
    ASSUME SessionsInv, NEW t \in Turns, KillNext(t)
    PROVE  SessionsInv' /\ Quiet
  <1> USE NamesAssumption, FaultsAssumption DEF SessionsInv, KillNext, Kill, Go, Stops,
          Running, tasks, manager, session, aggregate, sessions
  <1>1. SessionsTypeOK'  BY SMTT(30) DEF SessionsTypeOK, Used, StoppingAll, Lives
  <1>2. Used'  BY DEF Used, SessionsTypeOK
  <1>3. Lives'  BY DEF Lives, Used, SessionsTypeOK
  <1>4. Launching'  BY DEF Launching, Lives, Used, SessionsTypeOK
  <1>5. StoppingAll'  BY DEF StoppingAll, SessionsTypeOK
  <1>6. KnownRuns'  BY DEF KnownRuns, Launching, SessionsTypeOK
  <1>7. Quiet  BY DEF Quiet, Ends, Active, SessionsTypeOK, Used, StoppingAll
  <1> QED  BY <1>1, <1>2, <1>3, <1>4, <1>5, <1>6, <1>7

LEMMA StopWaitsKeeps ==
    ASSUME SessionsInv, NEW t \in Turns, NEW ok \in BOOLEAN, StopWaits(t, ok)
    PROVE  SessionsInv' /\ Quiet
  <1> USE NamesAssumption, FaultsAssumption DEF SessionsInv, StopWaits, Forget, Fault, Go, Stops,
          Running, tasks, manager, session, aggregate, sessions
  <1>1. SessionsTypeOK'
    <2>1. /\ named' \cup closing' \subseteq known' /\ known' \subseteq Turns
          /\ todo' \subseteq known' /\ pids' \subseteq Turns
      BY DEF SessionsTypeOK
    <2>2. life' \in [Turns -> Turns \cup {None, All}]  BY DEF SessionsTypeOK
    <2>3. failed' \in BOOLEAN
      <3>1. failed' = failed \/ failed' = TRUE  OBVIOUS
      <3> QED  BY <3>1 DEF SessionsTypeOK
    <2>5. faults' \in 0 .. MaxFaults
      <3>1. faults' = faults \/ (faults < MaxFaults /\ faults' = faults + 1)  OBVIOUS
      <3> QED  BY <3>1 DEF SessionsTypeOK
    <2>4. \A s \in Turns : process[s] = "creating" => life'[s] # None
      BY DEF SessionsTypeOK, Lives
    <2> QED  BY <2>1, <2>2, <2>3, <2>4, <2>5 DEF SessionsTypeOK
  <1>2. Used'  BY DEF Used, SessionsTypeOK
  <1>3. Lives'  BY DEF Lives, Used, SessionsTypeOK
  <1>4. Launching'  BY DEF Launching, Lives, Used, SessionsTypeOK
  <1>5. StoppingAll'  BY DEF StoppingAll, SessionsTypeOK
  <1>6. KnownRuns'  BY DEF KnownRuns, Launching, SessionsTypeOK
  <1>7. Quiet  BY DEF Quiet, Ends, Active, SessionsTypeOK, Used, StoppingAll
  <1> QED  BY <1>1, <1>2, <1>3, <1>4, <1>5, <1>6, <1>7

LEMMA StopAllKeeps ==
    ASSUME SessionsInv, StopAll
    PROVE  SessionsInv' /\ Quiet
  <1> USE NamesAssumption, FaultsAssumption DEF SessionsInv, StopAll, Go, Stops,
          Running, tasks, manager, session, aggregate, sessions
  <1>1. SessionsTypeOK'
    <2>1. known' = known /\ named' \cup closing' \subseteq known' /\ todo' \subseteq known'
      BY DEF SessionsTypeOK
    <2>2. \A t \in Turns : at'[t] \in {"removing", "killing"} <=> lock' = t
      BY DEF SessionsTypeOK
    <2>3. /\ at' = at /\ UNCHANGED <<parent, using, session, faults>> /\ lock' = All
          /\ stopping' = "next" /\ failed' = FALSE
      OBVIOUS
    <2> HIDE DEF StopAll
    <2> QED  BY <2>1, <2>2, <2>3 DEF SessionsTypeOK
  <1>2. Used'  BY DEF Used, SessionsTypeOK
  <1>3. Lives'  BY DEF Lives, Used, SessionsTypeOK
  <1>4. Launching'  BY DEF Launching, Lives, Used, SessionsTypeOK
  <1>5. StoppingAll'  BY DEF StoppingAll, SessionsTypeOK
  <1>6. KnownRuns'  BY DEF KnownRuns, Launching, SessionsTypeOK
  <1>7. Quiet  BY DEF Quiet, Ends, Active, SessionsTypeOK, Used, StoppingAll
  <1> QED  BY <1>1, <1>2, <1>3, <1>4, <1>5, <1>6, <1>7

LEMMA StoppedAllKeeps ==
    ASSUME SessionsInv, StoppedAll
    PROVE  SessionsInv' /\ Quiet
  <1> USE NamesAssumption, FaultsAssumption DEF SessionsInv, StoppedAll, Go, Stops,
          Running, tasks, manager, session, aggregate, sessions
  <1>1. SessionsTypeOK'  BY SMTT(30) DEF SessionsTypeOK, Used, StoppingAll, Lives
  <1>2. Used'  BY DEF Used, SessionsTypeOK
  <1>3. Lives'  BY DEF Lives, Used, SessionsTypeOK
  <1>4. Launching'  BY DEF Launching, Lives, Used, SessionsTypeOK
  <1>5. StoppingAll'  BY DEF StoppingAll, SessionsTypeOK
  <1>6. KnownRuns'  BY DEF KnownRuns, Launching, SessionsTypeOK
  <1>7. Quiet  BY DEF Quiet, Ends, Active, SessionsTypeOK, Used, StoppingAll
  <1> QED  BY <1>1, <1>2, <1>3, <1>4, <1>5, <1>6, <1>7

LEMMA ExitKeeps ==
    ASSUME SessionsInv, NEW t \in Turns, Exit(t)
    PROVE  SessionsInv' /\ Quiet
  <1> USE NamesAssumption, FaultsAssumption DEF SessionsInv, Exit, Go, Stops,
          Running, tasks, manager, session, aggregate, sessions
  <1>1. SessionsTypeOK'  BY SMTT(30) DEF SessionsTypeOK, Used, StoppingAll, Lives
  <1>2. Used'  BY DEF Used, SessionsTypeOK
  <1>3. Lives'  BY DEF Lives, Used, SessionsTypeOK
  <1>4. Launching'  BY DEF Launching, Lives, Used, SessionsTypeOK
  <1>5. StoppingAll'  BY DEF StoppingAll, SessionsTypeOK
  <1>6. KnownRuns'  BY DEF KnownRuns, Launching, SessionsTypeOK
  <1>7. Quiet  BY DEF Quiet, Ends, Active, SessionsTypeOK, Used, StoppingAll
  <1> QED  BY <1>1, <1>2, <1>3, <1>4, <1>5, <1>6, <1>7

LEMMA CollectedKeeps ==
    ASSUME SessionsInv, NEW t \in Turns, Collected(t)
    PROVE  SessionsInv' /\ Quiet
  <1> USE NamesAssumption, FaultsAssumption DEF SessionsInv, Collected, Go, Stops,
          Running, tasks, manager, session, aggregate, sessions
  <1>1. SessionsTypeOK'  BY SMTT(30) DEF SessionsTypeOK, Used, StoppingAll, Lives
  <1>2. Used'  BY DEF Used, SessionsTypeOK
  <1>3. Lives'  BY DEF Lives, Used, SessionsTypeOK
  <1>4. Launching'  BY DEF Launching, Lives, Used, SessionsTypeOK
  <1>5. StoppingAll'  BY DEF StoppingAll, SessionsTypeOK
  <1>6. KnownRuns'  BY DEF KnownRuns, Launching, SessionsTypeOK
  <1>7. Quiet  BY DEF Quiet, Ends, Active, SessionsTypeOK, Used, StoppingAll
  <1> QED  BY <1>1, <1>2, <1>3, <1>4, <1>5, <1>6, <1>7

\* Any step of the sessions.
LEMMA SessionStepKeeps ==
    ASSUME SessionsInv, SessionStep
    PROVE  SessionsInv' /\ Quiet
  <1>1. CASE TaskStep
    BY <1>1, LookupKeeps, LaunchKeeps, CreatedKeeps, HandledKeeps, RegisterKeeps, OutputEndsKeeps,
       ShieldReturnsKeeps, RemoveKeeps, RemovedKeeps, RemoveKillsKeeps, RemoveWaitsKeeps,
       ShieldStopsKeeps, ShieldWaitsKeeps, StopNextKeeps, KillNextKeeps, StopWaitsKeeps,
       StopAllKeeps, StoppedAllKeeps
    DEF TaskStep
  <1>2. CASE \E t \in Turns : Event(t) \/ Exit(t) \/ Collected(t)
    BY <1>2, EventKeeps, ExitKeeps, CollectedKeeps
  <1> QED  BY <1>1, <1>2 DEF SessionStep

-----------------------------------------------------------------------------
(* What the server does to the sessions. *)

\* A step of the server that leaves the turns alone.
LEMMA ServerLeavesSessions ==
    ASSUME SessionsInv, UNCHANGED <<tasks, manager, closed, life, process, shield, todo, failed>>,
           pids' \subseteq pids, faults' \in {faults, faults + 1}, faults' <= MaxFaults,
           \/ stopping' = stopping
           \/ stopping \notin {"next", "kill"} /\ stopping' \in {"no", "asked"}
    PROVE  SessionsInv' /\ Active' = Active /\ Running' = Running
  <1> USE NamesAssumption, FaultsAssumption DEF SessionsInv, Stops,
          Running, tasks, manager, session, aggregate, sessions
  <1>1. SessionsTypeOK'
    <2>1. faults' \in 0 .. MaxFaults /\ pids' \subseteq Turns  BY DEF SessionsTypeOK
    <2>2. stopping' \in {"no", "asked", "next", "kill", "done"}  BY DEF SessionsTypeOK
    <2> QED  BY <2>1, <2>2 DEF SessionsTypeOK
  <1>2. Used'  BY DEF Used
  <1>3. Lives'  BY DEF Lives
  <1>4. Launching'  BY DEF Launching
  <1>5. StoppingAll'  BY DEF StoppingAll
  <1>6. KnownRuns'  BY DEF KnownRuns
  <1>7. Active' = Active /\ Running' = Running  BY DEF Active
  <1> QED  BY <1>1, <1>2, <1>3, <1>4, <1>5, <1>6, <1>7

\* A turn begins.
LEMMA BeginTurnKeeps ==
    ASSUME SessionsInv, NEW t \in Turns, NEW p \in Turns \cup {None}, BeginTurn(t, p)
    PROVE  /\ SessionsInv' /\ Running' = Running
           /\ UNCHANGED <<known, pids, stopping, failed>>
  <1> USE NamesAssumption, FaultsAssumption DEF SessionsInv, BeginTurn, Go, Stops,
          Running, tasks, manager, session, aggregate, sessions
  <1>1. SessionsTypeOK'  BY SMTT(30) DEF SessionsTypeOK, Used, StoppingAll, Lives
  <1>2. Used'  BY DEF Used, SessionsTypeOK
  <1>3. Lives'  BY DEF Lives, Used, SessionsTypeOK
  <1>4. Launching'  BY DEF Launching, Lives, Used, SessionsTypeOK
  <1>5. StoppingAll'  BY DEF StoppingAll, SessionsTypeOK
  <1>6. KnownRuns'  BY DEF KnownRuns, Launching, SessionsTypeOK
  <1> QED  BY <1>1, <1>2, <1>3, <1>4, <1>5, <1>6

\* Turns are cancelled, perhaps to ask for stop_all then: each leaves what it was in,
\* and drops the locks it holds.
LEMMA CancelKeeps ==
    ASSUME SessionsInv, NEW ts \in SUBSET Turns, Cancel(ts), UNCHANGED <<todo, failed>>,
           faults' \in {faults, faults + 1}, faults' <= MaxFaults,
           \/ stopping' = stopping
           \/ stopping \notin {"next", "kill"} /\ stopping' = "asked"
    PROVE  /\ SessionsInv' /\ Running' = Running /\ UNCHANGED <<known, pids, failed>>
           /\ Active' \subseteq Active
           /\ \A t \in Turns : at[t] \in Ends \/ t \in ts => at'[t] \in Ends
  <1> USE NamesAssumption, FaultsAssumption DEF SessionsInv, Stops
  <1>1. \A t \in Turns :
           /\ t \notin ts => at'[t] = at[t]
           /\ t \in ts => /\ at'[t] \in {"shielded", "draining", "leaving", "done"}
                          /\ at'[t] # "done" =>
                                at[t] \notin {"idle", "lookup", "leaving", "removing", "killing",
                                              "done"}
    BY DEF Cancel, AfterCancel, SessionsTypeOK
  <1>2. at' \in [Turns -> Stops]
    <2>1. at' = [t \in Turns |-> at'[t]]  BY DEF Cancel
    <2> QED  BY <1>1, <2>1 DEF SessionsTypeOK
  <1>3. /\ lock' = IF lock \in ts THEN None ELSE lock
        /\ UNCHANGED <<parent, using, known, named, closing, closed, pids>>
    BY DEF Cancel
  <1>4. /\ life' \in [Turns -> Turns \cup {None, All}]
        /\ \A s \in Turns : life'[s] =
              IF life[s] \in ts /\ at[life[s]] \in {"creating", "killing"} THEN None ELSE life[s]
    BY DEF Cancel, SessionsTypeOK
  <1>5. /\ process' \in [Turns -> {"none", "creating", "running"}]
        /\ \A s \in Turns : process'[s] =
              IF process[s] = "creating" /\ life[s] \in ts THEN "none" ELSE process[s]
    BY DEF Cancel, SessionsTypeOK
  <1>6. /\ shield' \in [Turns -> {"none", "stop", "kill"}]
        /\ \A s \in Turns :
              \/ shield'[s] = shield[s]
              \/ /\ shield[s] = "none" /\ shield'[s] = "stop"
                 /\ \E t \in ts : at[t] = "reading" /\ using[t] = s
    BY DEF Cancel, SessionsTypeOK
  <1>7. \A t \in Turns :
            at'[t] \in {"creating", "killing", "removing", "launch", "reading", "lookup"}
                            => t \notin ts /\ at'[t] = at[t]
    BY <1>1
  <1>8. SessionsTypeOK'
    <2>1. \A t \in Turns : at'[t] \in {"removing", "killing"} <=> lock' = t
      BY <1>1, <1>3 DEF SessionsTypeOK
    <2>2. \A s \in Turns : process'[s] = "creating" => life'[s] # None
      <3> SUFFICES ASSUME NEW s \in Turns, process'[s] = "creating" PROVE life'[s] # None
        OBVIOUS
      <3>1. process[s] = "creating" /\ life[s] \notin ts  BY <1>5
      <3> QED  BY <1>4, <3>1 DEF SessionsTypeOK
    <2>3. faults' \in 0 .. MaxFaults  BY DEF SessionsTypeOK
    <2>4. stopping' \in {"no", "asked", "next", "kill", "done"}  BY DEF SessionsTypeOK
    <2>5. lock' \in Turns \cup {None, All}  BY <1>3 DEF SessionsTypeOK
    <2> QED  BY <1>2, <1>3, <1>4, <1>5, <1>6, <2>1, <2>2, <2>3, <2>4, <2>5 DEF SessionsTypeOK
  <1>9. Used'
    <2> SUFFICES ASSUME NEW t \in Turns
                 PROVE  /\ at'[t] \in {"idle", "lookup"} => using[t] = None
                        /\ at'[t] \notin {"idle", "lookup", "done"} => using[t] # None
                        /\ using[t] # None => using[using[t]] = using[t]
                        /\ t \in known \/ shield'[t] # "none" => using[t] = t
      BY <1>3 DEF Used
    <2>1. shield'[t] # "none" => using[t] = t
      <3>1. CASE shield'[t] = shield[t]  BY <3>1 DEF Used
      <3>2. ASSUME NEW u \in ts, using[u] = t PROVE using[t] = t  BY <3>2 DEF Used
      <3> QED  BY <1>6, <3>1, <3>2
    <2>2. at'[t] \in {"idle", "lookup"} => using[t] = None  BY <1>1 DEF Used
    <2>3. at'[t] \notin {"idle", "lookup", "done"} => using[t] # None  BY <1>1 DEF Used
    <2> QED  BY <2>1, <2>2, <2>3 DEF Used
  <1>10. Lives'
    <2>1. ASSUME NEW t \in Turns, at'[t] \in {"creating", "killing"}
          PROVE  life'[using'[t]] = t /\ shield'[using'[t]] # "kill"
      <3>1. t \notin ts /\ at[t] \in {"creating", "killing"}  BY <1>7, <2>1
      <3>2. using[t] \in Turns  BY <3>1 DEF Used, SessionsTypeOK
      <3>3. life[using[t]] = t /\ shield[using[t]] # "kill"  BY <3>1 DEF Lives
      <3> QED  BY <1>3, <1>4, <1>6, <3>1, <3>2, <3>3
    <2>2. ASSUME NEW s \in Turns, shield'[s] = "kill" PROVE life'[s] = s
      <3>1. shield[s] = "kill" /\ life[s] = s  BY <1>6, <2>2 DEF Lives
      <3>2. using[s] = s  BY <3>1 DEF Used
      <3>3. at[s] \notin {"creating", "killing"}  BY <3>1, <3>2 DEF Lives
      <3> QED  BY <1>4, <3>1, <3>3
    <2>3. ASSUME NEW s \in Turns, process'[s] = "creating"
          PROVE  \E t \in Turns : life'[s] = t /\ at'[t] = "creating" /\ using'[t] = s
      <3>1. process[s] = "creating" /\ life[s] \notin ts  BY <1>5, <2>3
      <3>2. PICK t \in Turns : life[s] = t /\ at[t] = "creating" /\ using[t] = s
        BY <3>1 DEF Lives
      <3> QED  BY <1>1, <1>3, <1>4, <3>1, <3>2
    <2> QED  BY <2>1, <2>2, <2>3 DEF Lives
  <1>11. Launching'  BY <1>3, <1>4, <1>7 DEF Launching
  <1>12. StoppingAll'  BY <1>3 DEF StoppingAll
  <1>13. Running' = Running  BY <1>5 DEF Running
  <1>14. KnownRuns'  BY <1>3, <1>13 DEF KnownRuns
  <1>15. \A t \in Turns : at[t] \in Ends \/ t \in ts => at'[t] \in Ends  BY <1>1 DEF Ends
  <1>16. Active' \subseteq Active  BY <1>1 DEF Active
  <1> QED  BY <1>3, <1>8, <1>9, <1>10, <1>11, <1>12, <1>13, <1>14, <1>15, <1>16

LEMMA RequestRestartKeeps ==
    ASSUME Inv, RequestRestart
    PROVE  Inv'
  <1> USE DEF Inv, LifecycleInv, supervisor, graph
  <1>0. SessionsInv' /\ Active' = Active /\ Running' = Running
    BY ServerLeavesSessions, FaultsAssumption
    DEF RequestRestart, SessionsInv, SessionsTypeOK, Calling, tasks, manager, session, aggregate,
        sessions
  <1> USE RestartsAssumption DEF RequestRestart
  <1>1. ServerTyped'  BY SMTT(30) DEF ServerTyped, Phases, Owners, Always
  <1>2. Together'  BY DEF ServerTyped, Together, Gone, Absent
  <1>3. Owning'
    BY SMTT(30) DEF Together, Owning, Always, Owners, Closers, Absent, Gone, Calling, ServerTyped
  <1>4. Receiving'  BY DEF Receiving, Together, Owning, Owners, Absent, Gone, sessions, aggregate
  <1>5. Calling'  BY DEF Calling, Owning, Together, Absent, Gone, sessions, aggregate
  <1>6. Working'
    BY <1>0 DEF Working, Owning, Settling, SessionsInv, KnownRuns, Together, Always, sessions,
       session
  <1>7. Settling'
    BY <1>0 DEF Settling, Working, Owning, Active, Ends, tasks, manager, session, aggregate,
       sessions
  <1>8. Fresh'  BY DEF Fresh, Together, ServerTyped, Absent, Gone
  <1>9. Registered'  BY <1>0 DEF Registered, sessions, session
  <1> QED  BY <1>0, <1>1, <1>2, <1>3, <1>4, <1>5, <1>6, <1>7, <1>8, <1>9

LEMMA RequestStopKeeps ==
    ASSUME Inv, RequestStop
    PROVE  Inv'
  <1> USE DEF Inv, LifecycleInv, supervisor, graph
  <1>0. SessionsInv' /\ Active' = Active /\ Running' = Running
    BY ServerLeavesSessions, FaultsAssumption
    DEF RequestStop, SessionsInv, SessionsTypeOK, Calling, tasks, manager, session, aggregate,
        sessions
  <1> USE RestartsAssumption DEF RequestStop
  <1>1. ServerTyped'  BY SMTT(30) DEF ServerTyped, Phases, Owners, Always
  <1>2. Together'  BY DEF ServerTyped, Together, Gone, Absent
  <1>3. Owning'
    BY SMTT(30) DEF Together, Owning, Always, Owners, Closers, Absent, Gone, Calling, ServerTyped
  <1>4. Receiving'  BY DEF Receiving, Together, Owning, Owners, Absent, Gone, sessions, aggregate
  <1>5. Calling'  BY DEF Calling, Owning, Together, Absent, Gone, sessions, aggregate
  <1>6. Working'
    BY <1>0 DEF Working, Owning, Settling, SessionsInv, KnownRuns, Together, Always, sessions,
       session
  <1>7. Settling'
    BY <1>0 DEF Settling, Working, Owning, Active, Ends, tasks, manager, session, aggregate,
       sessions
  <1>8. Fresh'  BY DEF Fresh, Together, ServerTyped, Absent, Gone
  <1>9. Registered'  BY <1>0 DEF Registered, sessions, session
  <1> QED  BY <1>0, <1>1, <1>2, <1>3, <1>4, <1>5, <1>6, <1>7, <1>8, <1>9

LEMMA NextServerKeeps ==
    ASSUME Inv, NextServer
    PROVE  Inv'
  <1> USE DEF Inv, LifecycleInv, supervisor, graph
  <1>0. SessionsInv' /\ Active' = Active /\ Running' = Running
    BY ServerLeavesSessions, FaultsAssumption
    DEF NextServer, Supervise, SessionsInv, SessionsTypeOK, Calling, tasks, manager, session,
        aggregate, sessions
  <1> USE RestartsAssumption DEF NextServer, Supervise
  <1>1. ServerTyped'  BY SMTT(30) DEF ServerTyped, Phases, Owners, Always
  <1>2. Together'  BY DEF ServerTyped, Together, Gone, Absent
  <1>3. Owning'
    BY SMTT(30) DEF Together, Owning, Always, Owners, Closers, Absent, Gone, Calling, ServerTyped
  <1>4. Receiving'  BY DEF Receiving, Together, Owning, Owners, Absent, Gone, sessions, aggregate
  <1>5. Calling'  BY DEF Calling, Owning, Together, Absent, Gone, sessions, aggregate
  <1>6. Working'
    BY <1>0 DEF Working, Owning, Settling, SessionsInv, KnownRuns, Together, Always, sessions,
       session
  <1>7. Settling'
    BY <1>0 DEF Settling, Working, Owning, Active, Ends, tasks, manager, session, aggregate,
       sessions
  <1>8. Fresh'  BY DEF Fresh, Together, ServerTyped, Absent, Gone
  <1>9. Registered'  BY <1>0 DEF Registered, sessions, session
  <1> QED  BY <1>0, <1>1, <1>2, <1>3, <1>4, <1>5, <1>6, <1>7, <1>8, <1>9

LEMMA BuildKeeps ==
    ASSUME Inv, Build
    PROVE  Inv'
  <1> USE DEF Inv, LifecycleInv, supervisor, graph
  <1>0. SessionsInv' /\ Active' = Active /\ Running' = Running
    BY ServerLeavesSessions, FaultsAssumption
    DEF Build, Supervise, SessionsInv, SessionsTypeOK, Calling, tasks, manager, session,
        aggregate, sessions
  <1> USE RestartsAssumption DEF Build, Supervise
  <1>1. ServerTyped'
    <2>1. /\ generation \in Nat /\ loaded' = generation /\ generation' = generation /\ seen' = seen
          /\ UNCHANGED <<stop, server, ingress, commanding>>
      BY DEF ServerTyped
    <2>2. /\ run' = "publish" /\ phase' = "built" /\ owned' = Always
          /\ starting' = FALSE /\ should_exit' = FALSE
      OBVIOUS
    <2> HIDE DEF Build
    <2>3. Always \subseteq Owners /\ "built" \in Phases  BY DEF Always, Owners, Phases
    <2>4. /\ generation \in 0 .. MaxRestarts /\ seen \in 0 .. generation
          /\ stop \in BOOLEAN /\ server \in BOOLEAN /\ ingress \in BOOLEAN /\ commanding \in BOOLEAN
      BY DEF ServerTyped
    <2>5. loaded' \in 0 .. generation'  BY <2>1
    <2>6. run' \in {"scheduled", "load", "publish", "serve", "ending", "out"}  BY <2>2
    <2> QED  BY <2>1, <2>2, <2>3, <2>4, <2>5, <2>6, Zenon DEF ServerTyped
  <1>2. Together'  BY DEF ServerTyped, Together, Gone, Absent
  <1>3. Owning'
    BY SMTT(30) DEF Together, Owning, Always, Owners, Closers, Absent, Gone, Calling, ServerTyped
  <1>4. Receiving'  BY DEF Receiving, Together, Owning, Owners, Absent, Gone, sessions, aggregate
  <1>5. Calling'  BY DEF Calling, Owning, Together, Absent, Gone, sessions, aggregate
  <1>6. Working'
    BY <1>0 DEF Working, Owning, Settling, SessionsInv, KnownRuns, Together, Always, sessions,
       session
  <1>7. Settling'
    BY <1>0 DEF Settling, Working, Owning, Active, Ends, tasks, manager, session, aggregate,
       sessions
  <1>8. Fresh'  BY DEF Fresh, Together, ServerTyped, Absent, Gone
  <1>9. Registered'  BY <1>0 DEF Registered, sessions, session
  <1> QED  BY <1>0, <1>1, <1>2, <1>3, <1>4, <1>5, <1>6, <1>7, <1>8, <1>9

LEMMA PublishKeeps ==
    ASSUME Inv, Publish
    PROVE  Inv'
  <1> USE DEF Inv, LifecycleInv, supervisor, graph
  <1>0. SessionsInv' /\ Active' = Active /\ Running' = Running
    BY ServerLeavesSessions, FaultsAssumption
    DEF Publish, Supervise, SessionsInv, SessionsTypeOK, Calling, tasks, manager, session,
        aggregate, sessions
  <1> USE RestartsAssumption DEF Publish, Supervise
  <1>1. ServerTyped'  BY SMTT(30) DEF ServerTyped, Phases, Owners, Always
  <1>2. Together'  BY DEF ServerTyped, Together, Gone, Absent
  <1>3. Owning'
    BY SMTT(30) DEF Together, Owning, Always, Owners, Closers, Absent, Gone, Calling, ServerTyped
  <1>4. Receiving'  BY DEF Receiving, Together, Owning, Owners, Absent, Gone, sessions, aggregate
  <1>5. Calling'  BY DEF Calling, Owning, Together, Absent, Gone, sessions, aggregate
  <1>6. Working'
    BY <1>0 DEF Working, Owning, Settling, SessionsInv, KnownRuns, Together, Always, sessions,
       session
  <1>7. Settling'
    BY <1>0 DEF Settling, Working, Owning, Active, Ends, tasks, manager, session, aggregate,
       sessions
  <1>8. Fresh'  BY DEF Fresh, Together, ServerTyped, Absent, Gone
  <1>9. Registered'  BY <1>0 DEF Registered, sessions, session
  <1> QED  BY <1>0, <1>1, <1>2, <1>3, <1>4, <1>5, <1>6, <1>7, <1>8, <1>9

LEMMA ReturnKeeps ==
    ASSUME Inv, Return
    PROVE  Inv'
  <1> USE DEF Inv, LifecycleInv, supervisor, graph
  <1>0. SessionsInv' /\ Active' = Active /\ Running' = Running
    BY ServerLeavesSessions, FaultsAssumption
    DEF Return, Supervise, SessionsInv, SessionsTypeOK, Calling, tasks, manager, session,
        aggregate, sessions
  <1> USE RestartsAssumption DEF Return, Supervise
  <1>1. ServerTyped'  BY ZenonT(60) DEF ServerTyped, Phases, Owners, Always
  <1>2. Together'  BY DEF ServerTyped, Together, Gone, Absent
  <1>3. Owning'
    BY SMTT(30) DEF Together, Owning, Always, Owners, Closers, Absent, Gone, Calling, ServerTyped
  <1>4. Receiving'  BY DEF Receiving, Together, Owning, Owners, Absent, Gone, sessions, aggregate
  <1>5. Calling'  BY DEF Calling, Owning, Together, Absent, Gone, sessions, aggregate
  <1>6. Working'
    BY <1>0 DEF Working, Owning, Settling, SessionsInv, KnownRuns, Together, Always, sessions,
       session
  <1>7. Settling'
    BY <1>0 DEF Settling, Working, Owning, Active, Ends, tasks, manager, session, aggregate,
       sessions
  <1>8. Fresh'  BY DEF Fresh, Together, ServerTyped, Absent, Gone
  <1>9. Registered'  BY <1>0 DEF Registered, sessions, session
  <1> QED  BY <1>0, <1>1, <1>2, <1>3, <1>4, <1>5, <1>6, <1>7, <1>8, <1>9

LEMMA EndKeeps ==
    ASSUME Inv, End
    PROVE  Inv'
  <1> USE DEF Inv, LifecycleInv, supervisor, graph
  <1>0. SessionsInv' /\ Active' = Active /\ Running' = Running
    BY ServerLeavesSessions, FaultsAssumption
    DEF End, Supervise, SessionsInv, SessionsTypeOK, Calling, tasks, manager, session, aggregate,
        sessions
  <1> USE RestartsAssumption DEF End, Supervise
  <1>1. ServerTyped'  BY ZenonT(60) DEF ServerTyped, Phases, Owners, Always
  <1>2. Together'  BY DEF ServerTyped, Together, Gone, Absent
  <1>3. Owning'
    BY SMTT(30) DEF Together, Owning, Always, Owners, Closers, Absent, Gone, Calling, ServerTyped
  <1>4. Receiving'  BY DEF Receiving, Together, Owning, Owners, Absent, Gone, sessions, aggregate
  <1>5. Calling'  BY DEF Calling, Owning, Together, Absent, Gone, sessions, aggregate
  <1>6. Working'
    BY <1>0 DEF Working, Owning, Settling, SessionsInv, KnownRuns, Together, Always, sessions,
       session
  <1>7. Settling'
    BY <1>0 DEF Settling, Working, Owning, Active, Ends, tasks, manager, session, aggregate,
       sessions
  <1>8. Fresh'  BY DEF Fresh, Together, ServerTyped, Absent, Gone
  <1>9. Registered'  BY <1>0 DEF Registered, sessions, session
  <1> QED  BY <1>0, <1>1, <1>2, <1>3, <1>4, <1>5, <1>6, <1>7, <1>8, <1>9

LEMMA StartingKeeps ==
    ASSUME Inv, Starting
    PROVE  Inv'
  <1> USE DEF Inv, LifecycleInv, supervisor, graph
  <1>0. SessionsInv' /\ Active' = Active /\ Running' = Running
    BY ServerLeavesSessions, FaultsAssumption
    DEF Starting, Construct, Turn, SessionsInv, SessionsTypeOK, Calling, tasks, manager, session,
        aggregate, sessions
  <1> USE RestartsAssumption DEF Starting, Construct, Turn
  <1>1. ServerTyped'  BY ZenonT(60) DEF ServerTyped, Phases, Owners, Always
  <1>2. Together'  BY DEF ServerTyped, Together, Gone, Absent
  <1>3. Owning'
    BY SMTT(30) DEF Together, Owning, Always, Owners, Closers, Absent, Gone, Calling, ServerTyped
  <1>4. Receiving'  BY DEF Receiving, Together, Owning, Owners, Absent, Gone, sessions, aggregate
  <1>5. Calling'  BY DEF Calling, Owning, Together, Absent, Gone, sessions, aggregate
  <1>6. Working'
    BY <1>0 DEF Working, Owning, Settling, SessionsInv, KnownRuns, Together, Always, sessions,
       session
  <1>7. Settling'
    BY <1>0 DEF Settling, Working, Owning, Active, Ends, tasks, manager, session, aggregate,
       sessions
  <1>8. Fresh'  BY DEF Fresh, Together, ServerTyped, Absent, Gone
  <1>9. Registered'  BY <1>0 DEF Registered, sessions, session
  <1> QED  BY <1>0, <1>1, <1>2, <1>3, <1>4, <1>5, <1>6, <1>7, <1>8, <1>9

LEMMA ConnectKeeps ==
    ASSUME Inv, Connect
    PROVE  Inv'
  <1> USE DEF Inv, LifecycleInv, supervisor, graph
  <1>0. SessionsInv' /\ Active' = Active /\ Running' = Running
    BY ServerLeavesSessions, FaultsAssumption
    DEF Connect, Turn, SessionsInv, SessionsTypeOK, Calling, tasks, manager, session, aggregate,
        sessions
  <1> USE RestartsAssumption DEF Connect, Turn
  <1>1. ServerTyped'  BY SMTT(30) DEF ServerTyped, Phases, Owners, Always
  <1>2. Together'  BY DEF ServerTyped, Together, Gone, Absent
  <1>3. Owning'
    BY SMTT(30) DEF Together, Owning, Always, Owners, Closers, Absent, Gone, Calling, ServerTyped
  <1>4. Receiving'  BY DEF Receiving, Together, Owning, Owners, Absent, Gone, sessions, aggregate
  <1>5. Calling'  BY DEF Calling, Owning, Together, Absent, Gone, sessions, aggregate
  <1>6. Working'
    BY <1>0 DEF Working, Owning, Settling, SessionsInv, KnownRuns, Together, Always, sessions,
       session
  <1>7. Settling'
    BY <1>0 DEF Settling, Working, Owning, Active, Ends, tasks, manager, session, aggregate,
       sessions
  <1>8. Fresh'  BY DEF Fresh, Together, ServerTyped, Absent, Gone
  <1>9. Registered'  BY <1>0 DEF Registered, sessions, session
  <1> QED  BY <1>0, <1>1, <1>2, <1>3, <1>4, <1>5, <1>6, <1>7, <1>8, <1>9

LEMMA NoMessagingKeeps ==
    ASSUME Inv, NoMessaging
    PROVE  Inv'
  <1> USE DEF Inv, LifecycleInv, supervisor, graph
  <1>0. SessionsInv' /\ Active' = Active /\ Running' = Running
    BY ServerLeavesSessions, FaultsAssumption
    DEF NoMessaging, Turn, SessionsInv, SessionsTypeOK, Calling, tasks, manager, session,
        aggregate, sessions
  <1> USE RestartsAssumption DEF NoMessaging, Turn
  <1>1. ServerTyped'  BY SMTT(30) DEF ServerTyped, Phases, Owners, Always
  <1>2. Together'  BY DEF ServerTyped, Together, Gone, Absent
  <1>3. Owning'
    BY SMTT(30) DEF Together, Owning, Always, Owners, Closers, Absent, Gone, Calling, ServerTyped
  <1>4. Receiving'  BY DEF Receiving, Together, Owning, Owners, Absent, Gone, sessions, aggregate
  <1>5. Calling'  BY DEF Calling, Owning, Together, Absent, Gone, sessions, aggregate
  <1>6. Working'
    BY <1>0 DEF Working, Owning, Settling, SessionsInv, KnownRuns, Together, Always, sessions,
       session
  <1>7. Settling'
    BY <1>0 DEF Settling, Working, Owning, Active, Ends, tasks, manager, session, aggregate,
       sessions
  <1>8. Fresh'  BY DEF Fresh, Together, ServerTyped, Absent, Gone
  <1>9. Registered'  BY <1>0 DEF Registered, sessions, session
  <1> QED  BY <1>0, <1>1, <1>2, <1>3, <1>4, <1>5, <1>6, <1>7, <1>8, <1>9

LEMMA MessagingFailsKeeps ==
    ASSUME Inv, MessagingFails
    PROVE  Inv'
  <1> USE DEF Inv, LifecycleInv, supervisor, graph
  <1>0. SessionsInv' /\ Active' = Active /\ Running' = Running
    BY ServerLeavesSessions, FaultsAssumption
    DEF MessagingFails, SessionsInv, SessionsTypeOK, Calling, tasks, manager, session, aggregate,
        sessions
  <1> USE RestartsAssumption DEF MessagingFails
  <1>1. ServerTyped'  BY SMTT(30) DEF ServerTyped, Phases, Owners, Always
  <1>2. Together'  BY DEF ServerTyped, Together, Gone, Absent
  <1>3. Owning'
    BY SMTT(30) DEF Together, Owning, Always, Owners, Closers, Absent, Gone, Calling, ServerTyped
  <1>4. Receiving'  BY DEF Receiving, Together, Owning, Owners, Absent, Gone, sessions, aggregate
  <1>5. Calling'  BY DEF Calling, Owning, Together, Absent, Gone, sessions, aggregate
  <1>6. Working'
    BY <1>0 DEF Working, Owning, Settling, SessionsInv, KnownRuns, Together, Always, sessions,
       session
  <1>7. Settling'
    BY <1>0 DEF Settling, Working, Owning, Active, Ends, tasks, manager, session, aggregate,
       sessions
  <1>8. Fresh'  BY DEF Fresh, Together, ServerTyped, Absent, Gone
  <1>9. Registered'  BY <1>0 DEF Registered, sessions, session
  <1> QED  BY <1>0, <1>1, <1>2, <1>3, <1>4, <1>5, <1>6, <1>7, <1>8, <1>9

LEMMA StartFailsKeeps ==
    ASSUME Inv, StartFails
    PROVE  Inv'
  <1> USE DEF Inv, LifecycleInv, supervisor, graph
  <1>0. SessionsInv' /\ Active' = Active /\ Running' = Running
    BY ServerLeavesSessions, FaultsAssumption
    DEF StartFails, Turn, SessionsInv, SessionsTypeOK, Calling, tasks, manager, session,
        aggregate, sessions
  <1> USE RestartsAssumption DEF StartFails, Turn
  <1>1. ServerTyped'  BY SMTT(30) DEF ServerTyped, Phases, Owners, Always
  <1>2. Together'  BY DEF ServerTyped, Together, Gone, Absent
  <1>3. Owning'
    BY SMTT(30) DEF Together, Owning, Always, Owners, Closers, Absent, Gone, Calling, ServerTyped
  <1>4. Receiving'  BY DEF Receiving, Together, Owning, Owners, Absent, Gone, sessions, aggregate
  <1>5. Calling'  BY DEF Calling, Owning, Together, Absent, Gone, sessions, aggregate
  <1>6. Working'
    BY <1>0 DEF Working, Owning, Settling, SessionsInv, KnownRuns, Together, Always, sessions,
       session
  <1>7. Settling'
    BY <1>0 DEF Settling, Working, Owning, Active, Ends, tasks, manager, session, aggregate,
       sessions
  <1>8. Fresh'  BY DEF Fresh, Together, ServerTyped, Absent, Gone
  <1>9. Registered'  BY <1>0 DEF Registered, sessions, session
  <1> QED  BY <1>0, <1>1, <1>2, <1>3, <1>4, <1>5, <1>6, <1>7, <1>8, <1>9

LEMMA ServeKeeps ==
    ASSUME Inv, Serve
    PROVE  Inv'
  <1> USE DEF Inv, LifecycleInv, supervisor, graph
  <1>0. SessionsInv' /\ Active' = Active /\ Running' = Running
    BY ServerLeavesSessions, FaultsAssumption
    DEF Serve, SessionsInv, SessionsTypeOK, Calling, tasks, manager, session, aggregate, sessions
  <1> USE RestartsAssumption DEF Serve
  <1>1. ServerTyped'  BY SMTT(30) DEF ServerTyped, Phases, Owners, Always
  <1>2. Together'  BY DEF ServerTyped, Together, Gone, Absent
  <1>3. Owning'
    BY SMTT(30) DEF Together, Owning, Always, Owners, Closers, Absent, Gone, Calling, ServerTyped
  <1>4. Receiving'  BY DEF Receiving, Together, Owning, Owners, Absent, Gone, sessions, aggregate
  <1>5. Calling'  BY DEF Calling, Owning, Together, Absent, Gone, sessions, aggregate
  <1>6. Working'
    BY <1>0 DEF Working, Owning, Settling, SessionsInv, KnownRuns, Together, Always, sessions,
       session
  <1>7. Settling'
    BY <1>0 DEF Settling, Working, Owning, Active, Ends, tasks, manager, session, aggregate,
       sessions
  <1>8. Fresh'  BY DEF Fresh, Together, ServerTyped, Absent, Gone
  <1>9. Registered'  BY <1>0 DEF Registered, sessions, session
  <1> QED  BY <1>0, <1>1, <1>2, <1>3, <1>4, <1>5, <1>6, <1>7, <1>8, <1>9

LEMMA ShutdownKeeps ==
    ASSUME Inv, Shutdown
    PROVE  Inv'
  <1> USE DEF Inv, LifecycleInv, supervisor, graph
  <1>0. SessionsInv' /\ Active' = Active /\ Running' = Running
    BY ServerLeavesSessions, FaultsAssumption
    DEF Shutdown, Turn, SessionsInv, SessionsTypeOK, Calling, tasks, manager, session, aggregate,
        sessions
  <1> USE RestartsAssumption DEF Shutdown, Turn
  <1>1. ServerTyped'  BY SMTT(30) DEF ServerTyped, Phases, Owners, Always
  <1>2. Together'  BY DEF ServerTyped, Together, Gone, Absent
  <1>3. Owning'
    BY SMTT(30) DEF Together, Owning, Always, Owners, Closers, Absent, Gone, Calling, ServerTyped
  <1>4. Receiving'  BY DEF Receiving, Together, Owning, Owners, Absent, Gone, sessions, aggregate
  <1>5. Calling'  BY DEF Calling, Owning, Together, Absent, Gone, sessions, aggregate
  <1>6. Working'
    BY <1>0 DEF Working, Owning, Settling, SessionsInv, KnownRuns, Together, Always, sessions,
       session
  <1>7. Settling'
    BY <1>0 DEF Settling, Working, Owning, Active, Ends, tasks, manager, session, aggregate,
       sessions
  <1>8. Fresh'  BY DEF Fresh, Together, ServerTyped, Absent, Gone
  <1>9. Registered'  BY <1>0 DEF Registered, sessions, session
  <1> QED  BY <1>0, <1>1, <1>2, <1>3, <1>4, <1>5, <1>6, <1>7, <1>8, <1>9

LEMMA QuiesceKeeps ==
    ASSUME Inv, Quiesce
    PROVE  Inv'
  <1> USE DEF Inv, LifecycleInv, supervisor, graph
  <1>0. SessionsInv' /\ Active' = Active /\ Running' = Running
    BY ServerLeavesSessions, FaultsAssumption
    DEF Quiesce, Gate, Pass, Fails, Fault, SessionsInv, SessionsTypeOK, Calling, tasks, manager,
        session, aggregate, sessions
  <1> USE RestartsAssumption DEF Quiesce, Gate, Pass, Fails, Fault
  <1>1. ServerTyped'  BY ZenonT(60) DEF ServerTyped, Phases, Owners, Always
  <1>2. Together'  BY DEF ServerTyped, Together, Gone, Absent
  <1>3. Owning'
    BY SMTT(30) DEF Together, Owning, Always, Owners, Closers, Absent, Gone, Calling, ServerTyped
  <1>4. Receiving'  BY DEF Receiving, Together, Owning, Owners, Absent, Gone, sessions, aggregate
  <1>5. Calling'  BY DEF Calling, Owning, Together, Absent, Gone, sessions, aggregate
  <1>6. Working'
    BY <1>0 DEF Working, Owning, Settling, SessionsInv, KnownRuns, Together, Always, sessions,
       session
  <1>7. Settling'
    BY <1>0 DEF Settling, Working, Owning, Active, Ends, tasks, manager, session, aggregate,
       sessions
  <1>8. Fresh'  BY DEF Fresh, Together, ServerTyped, Absent, Gone
  <1>9. Registered'  BY <1>0 DEF Registered, sessions, session
  <1> QED  BY <1>0, <1>1, <1>2, <1>3, <1>4, <1>5, <1>6, <1>7, <1>8, <1>9

LEMMA CloseManagerKeeps ==
    ASSUME Inv, CloseManager
    PROVE  Inv'
  <1> USE DEF Inv, LifecycleInv, supervisor, graph
  <1>0. SessionsInv' /\ Active' = Active /\ Running' = Running
    BY ServerLeavesSessions, FaultsAssumption
    DEF CloseManager, Gate, SessionsInv, SessionsTypeOK, Calling, tasks, manager, session,
        aggregate, sessions
  <1> USE RestartsAssumption DEF CloseManager, Gate
  <1>1. ServerTyped'  BY SMTT(30) DEF ServerTyped, Phases, Owners, Always
  <1>2. Together'  BY DEF ServerTyped, Together, Gone, Absent
  <1>3. Owning'
    BY SMTT(30) DEF Together, Owning, Always, Owners, Closers, Absent, Gone, Calling, ServerTyped
  <1>4. Receiving'  BY DEF Receiving, Together, Owning, Owners, Absent, Gone, sessions, aggregate
  <1>5. Calling'  BY DEF Calling, Owning, Together, Absent, Gone, sessions, aggregate
  <1>6. Working'
    BY <1>0 DEF Working, Owning, Settling, SessionsInv, KnownRuns, Together, Always, sessions,
       session
  <1>7. Settling'
    BY <1>0 DEF Settling, Working, Owning, Active, Ends, tasks, manager, session, aggregate,
       sessions
  <1>8. Fresh'  BY DEF Fresh, Together, ServerTyped, Absent, Gone
  <1>9. Registered'  BY <1>0 DEF Registered, sessions, session
  <1> QED  BY <1>0, <1>1, <1>2, <1>3, <1>4, <1>5, <1>6, <1>7, <1>8, <1>9

LEMMA DrainKeeps ==
    ASSUME Inv, Drain
    PROVE  Inv'
  <1> USE DEF Inv, LifecycleInv, supervisor, graph
  <1>0. SessionsInv' /\ Active' = Active /\ Running' = Running
    BY ServerLeavesSessions, FaultsAssumption
    DEF Drain, Gate, Pass, Fails, Fault, SessionsInv, SessionsTypeOK, Calling, tasks, manager,
        session, aggregate, sessions
  <1> USE RestartsAssumption DEF Drain, Gate, Pass, Fails, Fault
  <1>1. ServerTyped'  BY ZenonT(60) DEF ServerTyped, Phases, Owners, Always
  <1>2. Together'  BY DEF ServerTyped, Together, Gone, Absent
  <1>3. Owning'
    BY ZenonT(60) DEF Together, Owning, Always, Owners, Closers, Absent, Gone, Calling, ServerTyped
  <1>4. Receiving'  BY DEF Receiving, Together, Owning, Owners, Absent, Gone, sessions, aggregate
  <1>5. Calling'  BY DEF Calling, Owning, Together, Absent, Gone, sessions, aggregate
  <1>6. Working'
    BY <1>0 DEF Working, Owning, Settling, SessionsInv, KnownRuns, Together, Always, sessions,
       session
  <1>7. Settling'
    BY <1>0 DEF Settling, Working, Owning, Active, Ends, tasks, manager, session, aggregate,
       sessions
  <1>8. Fresh'  BY DEF Fresh, Together, ServerTyped, Absent, Gone
  <1>9. Registered'  BY <1>0 DEF Registered, sessions, session
  <1> QED  BY <1>0, <1>1, <1>2, <1>3, <1>4, <1>5, <1>6, <1>7, <1>8, <1>9

LEMMA CloseDeliveryKeeps ==
    ASSUME Inv, CloseDelivery
    PROVE  Inv'
  <1> USE DEF Inv, LifecycleInv, supervisor, graph
  <1>0. SessionsInv' /\ Active' = Active /\ Running' = Running
    BY ServerLeavesSessions, FaultsAssumption
    DEF CloseDelivery, Release, Gate, Pass, Fails, Fault, SessionsInv, SessionsTypeOK, Calling,
        tasks, manager, session, aggregate, sessions
  <1> USE RestartsAssumption DEF CloseDelivery, Release, Gate, Pass, Fails, Fault
  <1>1. ServerTyped'  BY ZenonT(60) DEF ServerTyped, Phases, Owners, Always
  <1>2. Together'  BY DEF ServerTyped, Together, Gone, Absent
  <1>3. Owning'
    BY ZenonT(60) DEF Together, Owning, Always, Owners, Closers, Absent, Gone, Calling, ServerTyped
  <1>4. Receiving'  BY DEF Receiving, Together, Owning, Owners, Absent, Gone, sessions, aggregate
  <1>5. Calling'  BY DEF Calling, Owning, Together, Absent, Gone, sessions, aggregate
  <1>6. Working'
    BY <1>0 DEF Working, Owning, Settling, SessionsInv, KnownRuns, Together, Always, sessions,
       session
  <1>7. Settling'
    BY <1>0 DEF Settling, Working, Owning, Active, Ends, tasks, manager, session, aggregate,
       sessions
  <1>8. Fresh'  BY DEF Fresh, Together, ServerTyped, Absent, Gone
  <1>9. Registered'  BY <1>0 DEF Registered, sessions, session
  <1> QED  BY <1>0, <1>1, <1>2, <1>3, <1>4, <1>5, <1>6, <1>7, <1>8, <1>9

LEMMA CloseTranscriberKeeps ==
    ASSUME Inv, CloseTranscriber
    PROVE  Inv'
  <1> USE DEF Inv, LifecycleInv, supervisor, graph
  <1>0. SessionsInv' /\ Active' = Active /\ Running' = Running
    BY ServerLeavesSessions, FaultsAssumption
    DEF CloseTranscriber, Release, Gate, Pass, Fails, Fault, SessionsInv, SessionsTypeOK, Calling,
        tasks, manager, session, aggregate, sessions
  <1> USE RestartsAssumption DEF CloseTranscriber, Release, Gate, Pass, Fails, Fault
  <1>1. ServerTyped'  BY ZenonT(60) DEF ServerTyped, Phases, Owners, Always
  <1>2. Together'  BY DEF ServerTyped, Together, Gone, Absent
  <1>3. Owning'
    BY ZenonT(60) DEF Together, Owning, Always, Owners, Closers, Absent, Gone, Calling, ServerTyped
  <1>4. Receiving'  BY DEF Receiving, Together, Owning, Owners, Absent, Gone, sessions, aggregate
  <1>5. Calling'  BY DEF Calling, Owning, Together, Absent, Gone, sessions, aggregate
  <1>6. Working'
    BY <1>0 DEF Working, Owning, Settling, SessionsInv, KnownRuns, Together, Always, sessions,
       session
  <1>7. Settling'
    BY <1>0 DEF Settling, Working, Owning, Active, Ends, tasks, manager, session, aggregate,
       sessions
  <1>8. Fresh'  BY DEF Fresh, Together, ServerTyped, Absent, Gone
  <1>9. Registered'  BY <1>0 DEF Registered, sessions, session
  <1> QED  BY <1>0, <1>1, <1>2, <1>3, <1>4, <1>5, <1>6, <1>7, <1>8, <1>9

LEMMA CloseHelperKeeps ==
    ASSUME Inv, CloseHelper
    PROVE  Inv'
  <1> USE DEF Inv, LifecycleInv, supervisor, graph
  <1>0. SessionsInv' /\ Active' = Active /\ Running' = Running
    BY ServerLeavesSessions, FaultsAssumption
    DEF CloseHelper, Release, Gate, Pass, Fails, Fault, SessionsInv, SessionsTypeOK, Calling,
        tasks, manager, session, aggregate, sessions
  <1> USE RestartsAssumption DEF CloseHelper, Release, Gate, Pass, Fails, Fault
  <1>1. ServerTyped'  BY ZenonT(60) DEF ServerTyped, Phases, Owners, Always
  <1>2. Together'  BY DEF ServerTyped, Together, Gone, Absent
  <1>3. Owning'
    BY ZenonT(60) DEF Together, Owning, Always, Owners, Closers, Absent, Gone, Calling, ServerTyped
  <1>4. Receiving'  BY DEF Receiving, Together, Owning, Owners, Absent, Gone, sessions, aggregate
  <1>5. Calling'  BY DEF Calling, Owning, Together, Absent, Gone, sessions, aggregate
  <1>6. Working'
    BY <1>0 DEF Working, Owning, Settling, SessionsInv, KnownRuns, Together, Always, sessions,
       session
  <1>7. Settling'
    BY <1>0 DEF Settling, Working, Owning, Active, Ends, tasks, manager, session, aggregate,
       sessions
  <1>8. Fresh'  BY DEF Fresh, Together, ServerTyped, Absent, Gone
  <1>9. Registered'  BY <1>0 DEF Registered, sessions, session
  <1> QED  BY <1>0, <1>1, <1>2, <1>3, <1>4, <1>5, <1>6, <1>7, <1>8, <1>9

LEMMA CloseProvidersKeeps ==
    ASSUME Inv, CloseProviders
    PROVE  Inv'
  <1> USE DEF Inv, LifecycleInv, supervisor, graph
  <1>0. SessionsInv' /\ Active' = Active /\ Running' = Running
    BY ServerLeavesSessions, FaultsAssumption
    DEF CloseProviders, Release, Gate, Pass, Fails, Fault, SessionsInv, SessionsTypeOK, Calling,
        tasks, manager, session, aggregate, sessions
  <1> USE RestartsAssumption DEF CloseProviders, Release, Gate, Pass, Fails, Fault
  <1>1. ServerTyped'  BY ZenonT(60) DEF ServerTyped, Phases, Owners, Always
  <1>2. Together'  BY DEF ServerTyped, Together, Gone, Absent
  <1>3. Owning'
    BY ZenonT(60) DEF Together, Owning, Always, Owners, Closers, Absent, Gone, Calling, ServerTyped
  <1>4. Receiving'  BY DEF Receiving, Together, Owning, Owners, Absent, Gone, sessions, aggregate
  <1>5. Calling'  BY DEF Calling, Owning, Together, Absent, Gone, sessions, aggregate
  <1>6. Working'
    BY <1>0 DEF Working, Owning, Settling, SessionsInv, KnownRuns, Together, Always, sessions,
       session
  <1>7. Settling'
    BY <1>0 DEF Settling, Working, Owning, Active, Ends, tasks, manager, session, aggregate,
       sessions
  <1>8. Fresh'  BY DEF Fresh, Together, ServerTyped, Absent, Gone
  <1>9. Registered'  BY <1>0 DEF Registered, sessions, session
  <1> QED  BY <1>0, <1>1, <1>2, <1>3, <1>4, <1>5, <1>6, <1>7, <1>8, <1>9

LEMMA CloseAccountsKeeps ==
    ASSUME Inv, CloseAccounts
    PROVE  Inv'
  <1> USE DEF Inv, LifecycleInv, supervisor, graph
  <1>0. SessionsInv' /\ Active' = Active /\ Running' = Running
    BY ServerLeavesSessions, FaultsAssumption
    DEF CloseAccounts, Release, Gate, Pass, Fails, Fault, SessionsInv, SessionsTypeOK, Calling,
        tasks, manager, session, aggregate, sessions
  <1> USE RestartsAssumption DEF CloseAccounts, Release, Gate, Pass, Fails, Fault
  <1>1. ServerTyped'  BY ZenonT(60) DEF ServerTyped, Phases, Owners, Always
  <1>2. Together'  BY DEF ServerTyped, Together, Gone, Absent
  <1>3. Owning'
    BY ZenonT(60) DEF Together, Owning, Always, Owners, Closers, Absent, Gone, Calling, ServerTyped
  <1>4. Receiving'  BY DEF Receiving, Together, Owning, Owners, Absent, Gone, sessions, aggregate
  <1>5. Calling'  BY DEF Calling, Owning, Together, Absent, Gone, sessions, aggregate
  <1>6. Working'
    BY <1>0 DEF Working, Owning, Settling, SessionsInv, KnownRuns, Together, Always, sessions,
       session
  <1>7. Settling'
    BY <1>0 DEF Settling, Working, Owning, Active, Ends, tasks, manager, session, aggregate,
       sessions
  <1>8. Fresh'  BY DEF Fresh, Together, ServerTyped, Absent, Gone
  <1>9. Registered'  BY <1>0 DEF Registered, sessions, session
  <1> QED  BY <1>0, <1>1, <1>2, <1>3, <1>4, <1>5, <1>6, <1>7, <1>8, <1>9

LEMMA StoppedEverythingKeeps ==
    ASSUME Inv, StoppedEverything
    PROVE  Inv'
  <1> USE DEF Inv, LifecycleInv, supervisor, graph
  <1>0. SessionsInv' /\ Active' = Active /\ Running' = Running
    BY ServerLeavesSessions, FaultsAssumption
    DEF StoppedEverything, SessionsInv, SessionsTypeOK, Calling, tasks, manager, session,
        aggregate, sessions
  <1> USE RestartsAssumption DEF StoppedEverything
  <1>1. ServerTyped'  BY ZenonT(60) DEF ServerTyped, Phases, Owners, Always
  <1>2. Together'  BY DEF ServerTyped, Together, Gone, Absent
  <1>3. Owning'
    BY SMTT(30) DEF Together, Owning, Always, Owners, Closers, Absent, Gone, Calling, ServerTyped
  <1>4. Receiving'  BY DEF Receiving, Together, Owning, Owners, Absent, Gone, sessions, aggregate
  <1>5. Calling'  BY DEF Calling, Owning, Together, Absent, Gone, sessions, aggregate
  <1>6. Working'
    BY <1>0 DEF Working, Owning, Settling, SessionsInv, KnownRuns, Together, Always, sessions,
       session
  <1>7. Settling'
    BY <1>0 DEF Settling, Working, Owning, Active, Ends, tasks, manager, session, aggregate,
       sessions
  <1>8. Fresh'  BY DEF Fresh, Together, ServerTyped, Absent, Gone
  <1>9. Registered'  BY <1>0 DEF Registered, sessions, session
  <1> QED  BY <1>0, <1>1, <1>2, <1>3, <1>4, <1>5, <1>6, <1>7, <1>8, <1>9

LEMMA CloseWorkflowKeeps ==
    ASSUME Inv, CloseWorkflow
    PROVE  Inv'
  <1> USE DEF Inv, LifecycleInv, supervisor, graph
  <1>0. /\ SessionsInv' /\ Running' = Running /\ Active' \subseteq Active
        /\ \A t \in Turns : at'[t] \in Ends
        /\ UNCHANGED <<known, pids, failed>> /\ stopping' = "asked"
    <2>1. \A t \in Turns : t \notin Active => at[t] \in Ends  BY DEF Active, Ends
    <2>2. Active \in SUBSET Turns  BY DEF Active
    <2> QED  BY <2>1, <2>2, CancelKeeps, FaultsAssumption
              DEF CloseWorkflow, Gate, Calling, SessionsInv, SessionsTypeOK
  <1> USE DEF CloseWorkflow, Gate
  <1>1. ServerTyped'  BY SMTT(30) DEF ServerTyped, Phases
  <1>2. Together'  BY DEF Together, Gone, Absent
  <1>3. Owning'  BY SMTT(30) DEF Owning, Closers, Absent
  <1>4. Receiving'  BY DEF Receiving
  <1>5. Calling'  BY <1>0 DEF Calling
  <1>6. Working'  BY <1>0 DEF Working
  <1>7. Settling'  BY <1>0 DEF Settling, Ends
  <1>8. Fresh'  BY DEF Fresh
  <1>9. Registered'  BY <1>0 DEF Registered
  <1> QED  BY <1>0, <1>1, <1>2, <1>3, <1>4, <1>5, <1>6, <1>7, <1>8, <1>9

LEMMA StopEverythingKeeps ==
    ASSUME Inv, StopEverything
    PROVE  Inv'
  <1> USE DEF Inv, LifecycleInv, supervisor, graph
  <1>0. /\ SessionsInv' /\ Running' = Running /\ Active' \subseteq Active
        /\ UNCHANGED <<known, pids, failed>> /\ stopping' = "asked"
    <2>1. Active \in SUBSET Turns  BY DEF Active
    <2> QED  BY <2>1, CancelKeeps, FaultsAssumption
              DEF StopEverything, Fault, Calling, SessionsInv, SessionsTypeOK
  <1> USE DEF StopEverything
  <1>1. ServerTyped'  BY SMTT(30) DEF ServerTyped
  <1>2. Together'  BY DEF Together
  <1>3. Owning'  BY SMTT(30) DEF Owning
  <1>4. Receiving'  BY DEF Receiving
  <1>5. Calling'  BY <1>0 DEF Calling
  <1>6. Working'  BY <1>0 DEF Working
  <1>7. Settling'  BY DEF Settling
  <1>8. Fresh'  BY DEF Fresh
  <1>9. Registered'  BY <1>0 DEF Registered
  <1> QED  BY <1>0, <1>1, <1>2, <1>3, <1>4, <1>5, <1>6, <1>7, <1>8, <1>9

LEMMA StopTurnKeeps ==
    ASSUME Inv, NEW t \in Turns, StopTurn(t)
    PROVE  Inv'
  <1> USE DEF Inv, LifecycleInv, supervisor, graph
  <1>0. /\ SessionsInv' /\ Running' = Running /\ Active' \subseteq Active
        /\ UNCHANGED <<known, pids, failed>> /\ stopping' = stopping
    BY CancelKeeps, FaultsAssumption
    DEF StopTurn, Fault, aggregate, SessionsInv, SessionsTypeOK
  <1> USE DEF StopTurn
  <1>1. ServerTyped'  BY SMTT(30) DEF ServerTyped
  <1>2. Together'  BY DEF Together
  <1>3. Owning'  BY SMTT(30) DEF Owning
  <1>4. Receiving'  BY DEF Receiving
  <1>5. Calling'  BY <1>0 DEF Calling
  <1>6. Working'  BY <1>0 DEF Working
  <1>7. Settling'  BY DEF Settling, Receiving
  <1>8. Fresh'  BY DEF Fresh
  <1>9. Registered'  BY <1>0 DEF Registered
  <1> QED  BY <1>0, <1>1, <1>2, <1>3, <1>4, <1>5, <1>6, <1>7, <1>8, <1>9

LEMMA MessageArrivesKeeps ==
    ASSUME Inv, NEW t \in Turns, NEW p \in Turns \cup {None}, MessageArrives(t, p)
    PROVE  Inv'
  <1> USE DEF Inv, LifecycleInv, supervisor, graph
  <1>0. /\ SessionsInv' /\ Running' = Running /\ UNCHANGED <<known, pids, stopping, failed>>
    BY BeginTurnKeeps DEF MessageArrives
  <1> USE DEF MessageArrives
  <1>1. ServerTyped'  BY SMTT(30) DEF ServerTyped
  <1>2. Together'  BY DEF Together
  <1>3. Owning'  BY SMTT(30) DEF Owning
  <1>4. Receiving'  BY DEF Receiving
  <1>5. Calling'  BY <1>0 DEF Calling
  <1>6. Working'  BY DEF Working, Receiving
  <1>7. Settling'  BY DEF Settling, Receiving
  <1>8. Fresh'  BY DEF Fresh
  <1>9. Registered'  BY <1>0 DEF Registered
  <1> QED  BY <1>0, <1>1, <1>2, <1>3, <1>4, <1>5, <1>6, <1>7, <1>8, <1>9

LEMMA SessionsKeep ==
    ASSUME Inv, Sessions(SessionStep)
    PROVE  Inv'
  <1> USE DEF Inv, LifecycleInv, supervisor, graph
  <1>0. SessionsInv' /\ Quiet  BY SessionStepKeeps DEF Sessions
  <1>a. UNCHANGED <<supervisor, should_exit, loaded, graph, commanding>>  BY DEF Sessions
  <1>1. ServerTyped'  BY SMTT(30), <1>a DEF ServerTyped
  <1>2. Together'  BY <1>a DEF Together
  <1>3. Owning'  BY SMTT(30), <1>a DEF Owning
  <1>4. Receiving'  BY <1>a DEF Receiving
  <1>5. Calling'  BY <1>0, <1>a DEF Calling, Quiet
  <1>6. Working'  BY <1>0, <1>a DEF Working, Quiet
  <1>7. Settling'
    <2> SUFFICES ASSUME phase = "stopping"
                 PROVE  /\ \A t \in Turns : at'[t] \in Ends
                        /\ stopping' = "done" /\ ~failed' => known' = {}
      BY <1>a DEF Settling, Ends
    <2>1. \A t \in Turns : at[t] \in Ends  BY DEF Settling, Ends
    <2>2. known' \subseteq known /\ \A t \in Turns : at'[t] \in Ends  BY <1>0, <2>1 DEF Quiet
    <2>3. stopping' = "done" /\ ~failed' => known' = {} \/ known = {}
      BY <1>0 DEF Quiet, Settling
    <2> QED  BY <2>2, <2>3
  <1>8. Fresh'  BY <1>a DEF Fresh
  <1>9. Registered'  BY <1>0, <1>a DEF Registered, Quiet
  <1> QED  BY <1>0, <1>1, <1>2, <1>3, <1>4, <1>5, <1>6, <1>7, <1>8, <1>9

-----------------------------------------------------------------------------
LEMMA InitHolds == Init => Inv
  <1> SUFFICES ASSUME Init PROVE Inv  OBVIOUS
  <1> USE NamesAssumption, FaultsAssumption, RestartsAssumption DEF Init, SessionsInit
  <1>1. Active = {} /\ Running = {}  BY DEF Active, Running
  <1>2. SessionsTypeOK
    <2>1. faults \in 0 .. MaxFaults  OBVIOUS
    <2>2. /\ at \in [Turns -> Stops] /\ parent \in [Turns -> Turns \cup {None}]
          /\ using \in [Turns -> Turns \cup {None}]
          /\ life \in [Turns -> Turns \cup {None, All}]
          /\ process \in [Turns -> {"none", "creating", "running"}]
          /\ shield \in [Turns -> {"none", "stop", "kill"}]
      BY DEF Stops
    <2>3. /\ \A t \in Turns : at[t] \in {"removing", "killing"} <=> lock = t
          /\ \A s \in Turns : process[s] = "creating" => life[s] # None
      OBVIOUS
    <2> QED  BY <2>1, <2>2, <2>3 DEF SessionsTypeOK
  <1>3. Used /\ Lives /\ Launching  BY DEF Used, Lives, Launching
  <1>4. StoppingAll /\ KnownRuns  BY <1>1 DEF StoppingAll, KnownRuns
  <1>5. ServerTyped
    <2>1. generation \in 0 .. MaxRestarts /\ seen \in 0 .. generation /\ loaded \in 0 .. generation
      OBVIOUS
    <2>2. run = "scheduled" /\ phase \in Phases /\ owned \subseteq Owners  BY DEF Phases
    <2>3. /\ stop \in BOOLEAN /\ server \in BOOLEAN /\ should_exit \in BOOLEAN
          /\ starting \in BOOLEAN /\ ingress \in BOOLEAN /\ commanding \in BOOLEAN
      OBVIOUS
    <2> QED  BY <2>1, <2>2, <2>3 DEF ServerTyped
  <1>6. Together /\ Receiving /\ Calling  BY DEF Together, Absent, Gone, Receiving, Calling
  <1>7. Owning  BY DEF Owning, Absent, Closers
  <1>8. Working /\ Settling /\ Fresh /\ Registered
    BY <1>1 DEF Working, Settling, Fresh, Registered
  <1> QED  BY <1>2, <1>3, <1>4, <1>5, <1>6, <1>7, <1>8 DEF Inv, SessionsInv, LifecycleInv

LEMMA StepKeeps == Inv /\ [Next]_vars => Inv'
  <1> SUFFICES ASSUME Inv, [Next]_vars PROVE Inv'  OBVIOUS
  <1>1. CASE UNCHANGED vars
    <2>1. /\ UNCHANGED sessions /\ SessionsInv' /\ Active' = Active /\ Running' = Running
      BY <1>1, ServerLeavesSessions, FaultsAssumption
      DEF vars, sessions, tasks, manager, session, aggregate, Inv, SessionsInv, SessionsTypeOK
    <2> USE <1>1, <2>1 DEF vars, supervisor, graph, Inv, LifecycleInv
    <2>2. ServerTyped' /\ Together' /\ Owning' /\ Receiving' /\ Fresh'
      BY DEF ServerTyped, Together, Owning, Receiving, Fresh
    <2>3. Calling' /\ Working'
      BY DEF Calling, Working, sessions, aggregate
    <2>4. Settling' /\ Registered'
      BY DEF Settling, Registered, sessions, tasks, manager, session, aggregate
    <2> QED  BY <2>2, <2>3, <2>4
  <1>2. CASE Supervisor
    BY <1>2, NextServerKeeps, BuildKeeps, PublishKeeps, ReturnKeeps, EndKeeps DEF Supervisor
  <1>3. CASE Runtime
    BY <1>3, StartingKeeps, ConnectKeeps, NoMessagingKeeps, ServeKeeps, QuiesceKeeps,
       CloseWorkflowKeeps, CloseManagerKeeps, DrainKeeps, CloseDeliveryKeeps,
       CloseTranscriberKeeps, CloseHelperKeeps, CloseProvidersKeeps, CloseAccountsKeeps
    DEF Runtime
  <1>4. CASE \E t \in Turns : StopTurn(t) \/ \E p \in Turns \cup {None} : MessageArrives(t, p)
    BY <1>4, StopTurnKeeps, MessageArrivesKeeps
  <1> QED
    BY <1>1, <1>2, <1>3, <1>4, RequestRestartKeeps, RequestStopKeeps, MessagingFailsKeeps,
       StartFailsKeeps, ShutdownKeeps, StopEverythingKeeps, StoppedEverythingKeeps, SessionsKeep
    DEF Next

LEMMA InvariantHolds == Spec => []Inv
  <1> QED  BY InitHolds, StepKeeps, PTL DEF Spec

\* As long as there is a turn or a managed process, delivery and the providers are
\* open, whatever fails while starting or closing.
THEOREM WorkHasItsResourcesCorrect == Spec => []WorkHasItsResources
  <1>1. Inv => WorkHasItsResources
    BY DEF Inv, LifecycleInv, Working, Owning, Always, WorkHasItsResources
  <1> QED  BY <1>1, InvariantHolds, PTL

\* A managed process is registered and its session is known as long as it runs; and
\* tasks, locks, sessions and processes agree.
THEOREM SessionsAreOwnedCorrect == Spec => []SessionsAreOwned
  <1>1. Inv => SessionsAreOwned
    <2> SUFFICES ASSUME Inv PROVE SessionsAreOwned  OBVIOUS
    <2>1. TypeOK  BY DEF Inv, SessionsInv, LifecycleInv, ServerTyped, TypeOK
    <2>2. ProcessesAreOwned
      BY DEF Inv, SessionsInv, LifecycleInv, KnownRuns, Registered, ProcessesAreOwned
    <2> QED  BY <2>1, <2>2 DEF SessionsAreOwned
  <1> QED  BY <1>1, InvariantHolds, PTL

\* One server follows another: the next runtime is built only when nothing is left of
\* the one before, and a server that need not exit has the last settings.
THEOREM RestartsAreCleanCorrect == Spec => RestartsAreClean
  <1>1. Inv => NoStaleServer
    <2> SUFFICES ASSUME Inv, phase = "serving", ~should_exit
                 PROVE  loaded = generation /\ ~stop
      BY DEF NoStaleServer
    <2>1. run = "serve"
      BY DEF Inv, LifecycleInv, ServerTyped, Together, Absent, Gone
    <2> QED  BY <2>1, RestartsAssumption DEF Inv, LifecycleInv, ServerTyped, Fresh
  <1>2. Inv /\ [Next]_vars =>
            [phase' = "built" /\ phase # "built" => owned \cup Active \cup Running = {}]_vars
    <2> SUFFICES ASSUME Inv, Next, phase' = "built", phase # "built"
                 PROVE  owned \cup Active \cup Running = {}
      OBVIOUS
    <2>1. Build
      BY DEF Next, Supervisor, Runtime, Supervise, NextServer, Publish, Return, End, RequestRestart,
          RequestStop, Starting, Construct, Turn, Connect, NoMessaging, Serve, Quiesce, Gate, Pass,
          Fails, CloseWorkflow, CloseManager, Drain, CloseDelivery, CloseTranscriber, CloseHelper,
          CloseProviders, CloseAccounts, Release, MessagingFails, StartFails, Shutdown, StopTurn,
          MessageArrives, StopEverything, StoppedEverything, Sessions, graph
    <2>2. phase \in Absent  BY <2>1 DEF Inv, LifecycleInv, Together, Build, Supervise
    <2> QED  BY <2>2 DEF Inv, LifecycleInv, Owning, Working
  <1> QED  BY <1>1, <1>2, InvariantHolds, PTL DEF Spec, RestartsAreClean, NoOverlap
=============================================================================
