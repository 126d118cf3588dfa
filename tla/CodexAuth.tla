------------------------------ MODULE CodexAuth ------------------------------
(***************************************************************************)
(* The ChatGPT credentials, translated from OpenAIAuthManager of            *)
(* providers/openai_codex/auth.py and core/interprocess_lock.py.            *)
(*                                                                          *)
(* A manager is a process. Its tasks are a request, which asks for access,  *)
(* a login in the background, and the calls of its Admin pages. Credentials *)
(* are numbered in the order in which OpenAI issues them, and stand for     *)
(* their refresh token; 0 is none. All processes share one file, which is   *)
(* written and read by threads: a task cancelled while it awaits one leaves *)
(* the thread to finish. asyncio locks are served in order of arrival.      *)
(***************************************************************************)
EXTENDS Naturals, FiniteSets

CONSTANTS
    Managers,    \* processes that use the credential file
    Hosts,       \* those whose Admin pages are used
    MaxTokens,   \* bound: credentials ever issued
    MaxEvents,   \* bound: calls of the Admin pages, and requests cancelled
    None         \* no task

Tokens == 1 .. MaxTokens
Requests == Managers \X {0}
Logins == Hosts \X {1}
Admins == Hosts \X (2 .. MaxEvents + 1)  \* one for each call
Tasks == Requests \cup Logins \cup Admins

\* Hosts are processes, None is no task, and there is a first credential.
ASSUME ConstantsAssumption ==
    /\ Hosts \subseteq Managers /\ None \notin Tasks
    /\ MaxTokens \in Nat \ {0} /\ MaxEvents \in Nat

VARIABLES
    credentials, \* _credentials of each manager
    closed,      \* _closed
    attached,    \* _login_task is set
    state_lock, op_lock, \* who holds _state_lock and _operation_lock
    saved,       \* the credential file
    file_lock,   \* who holds the InterprocessFileLock
    orphans,     \* what threads will still write whose tasks are gone: 0 deletes
    live,        \* external: refresh tokens that OpenAI honours
    stale,       \* external: access tokens expired, or about to
    issued,      \* external: credentials issued
    at,          \* where each task is
    using,       \* what a task works with
    got,         \* what it was issued
    orphaned,    \* a thread has been left alone with the file (history)
    withdrawn,   \* what a login had been issued when a call cancelled it (history)
    cancels, calls

memory == <<credentials, closed, attached>>
locks == <<state_lock, op_lock, file_lock>>
file == <<saved, orphans, orphaned>>
server == <<live, stale, issued>>
history == <<withdrawn, cancels, calls>>
vars == <<memory, locks, file, server, at, using, got, history>>

-----------------------------------------------------------------------------
Home(t) == t[1]
Login(m) == <<m, 1>>
Go(t, where) == at' = [at EXCEPT ![t] = where]
Hold(lock, t) == [lock EXCEPT ![Home(t)] = t]
Drop(lock, t) == [lock EXCEPT ![Home(t)] = IF @ = t THEN None ELSE @]
FileDropped(t) == IF file_lock = t THEN None ELSE file_lock
Usable(v) == v # 0 /\ v \notin stale

\* A task leaves its `async with` blocks and its finally clauses, a request
\* with credentials v.
Leave(t, where, v) ==
    /\ Go(t, where)
    /\ using' = [using EXCEPT ![t] = v] /\ got' = [got EXCEPT ![t] = 0]
    /\ state_lock' = Drop(state_lock, t) /\ op_lock' = Drop(op_lock, t)
    /\ file_lock' = FileDropped(t)

\* What a cancelled task leaves to a thread: only the thread that writes or
\* deletes the file matters, one that waits for the file lock drops it.
Abandoned(t) == CASE at[t] = "write" -> {got[t]} [] at[t] = "delete" -> {0} [] OTHER -> {}

Abandon(t) ==
    /\ orphans' = orphans \cup Abandoned(t)
    /\ orphaned' = (orphaned \/ Abandoned(t) # {})

Init ==
    /\ \E v \in {0, 1} :
          /\ credentials = [m \in Managers |-> v] /\ saved = v
          /\ issued = v /\ live = 1 .. v
    /\ closed = [m \in Managers |-> FALSE]
    /\ attached = [m \in Managers |-> FALSE]
    /\ state_lock = [m \in Managers |-> None]
    /\ op_lock = [m \in Managers |-> None]
    /\ file_lock = None
    /\ orphans = {} /\ orphaned = FALSE /\ stale = {}
    /\ at = [t \in Tasks |-> "out"]
    /\ using = [t \in Tasks |-> 0] /\ got = [t \in Tasks |-> 0]
    /\ withdrawn = 0 /\ cancels = 0 /\ calls = 0

-----------------------------------------------------------------------------
(* Requests: access() and recover_unauthorized()                            *)

\* access: fresh credentials at once, others after a refresh.
Access(t) ==
    /\ at[t] = "out" /\ state_lock[Home(t)] = None
    /\ ~closed[Home(t)] /\ credentials[Home(t)] # 0
    /\ using' = [using EXCEPT ![t] = credentials[Home(t)]]
    /\ IF credentials[Home(t)] \in stale
       THEN state_lock' = Hold(state_lock, t) /\ Go(t, "early")
       ELSE UNCHANGED state_lock /\ Go(t, "using")
    /\ UNCHANGED <<memory, op_lock, file_lock, file, server, got, history>>

\* The upstream request ends.
Done(t) ==
    /\ at[t] = "using" /\ Leave(t, "out", 0)
    /\ UNCHANGED <<memory, file, server, history>>

\* Upstream answers 401 to the token in use: recover_unauthorized.
Unauthorized(t) ==
    /\ at[t] = "using" /\ state_lock[Home(t)] = None
    /\ state_lock' = Hold(state_lock, t) /\ Go(t, "reload")
    /\ UNCHANGED <<memory, op_lock, file_lock, file, server, using, got, history>>

\* What another process has saved is adopted; what was rejected is refreshed.
Reload(t) ==
    /\ at[t] = "reload"
    /\ LET m == Home(t)
           current == IF saved # 0 THEN saved ELSE credentials[m]
       IN /\ credentials' = [credentials EXCEPT ![m] = current]
          /\ IF current = using[t] THEN Go(t, "forced") /\ UNCHANGED <<locks, using, got>>
             ELSE Leave(t, IF current = 0 THEN "out" ELSE "using", current)
    /\ UNCHANGED <<closed, attached, file, server, history>>

\* _refresh_locked waits for the file lock for a bounded time. "early" is a
\* refresh before expiry, "forced" one after a 401.
LockFile(t) ==
    /\ at[t] \in {"early", "forced"} /\ file_lock = None
    /\ file_lock' = t
    /\ Go(t, IF at[t] = "early" THEN "read early" ELSE "read")
    /\ UNCHANGED <<memory, state_lock, op_lock, file, server, using, got, history>>

FileLockTimesOut(t) ==
    /\ at[t] \in {"early", "forced"} /\ file_lock # None
    /\ Leave(t, "out", 0)
    /\ UNCHANGED <<memory, file, server, history>>

\* Mutant: the file is not read again once it is locked.
ReadNothing(t) ==
    /\ at[t] \in {"read early", "read"}
    /\ Go(t, IF at[t] = "read" THEN "post" ELSE "post early")
    /\ UNCHANGED <<memory, locks, file, server, using, got, history>>

\* Under the file lock: another process may have refreshed already.
Read(t) ==
    /\ at[t] \in {"read early", "read"}
    /\ IF Usable(saved) /\ saved # using[t]
       THEN /\ credentials' = [credentials EXCEPT ![Home(t)] = saved]
            /\ Leave(t, "using", saved)
       ELSE /\ Go(t, IF at[t] = "read" THEN "post" ELSE "post early")
            /\ UNCHANGED <<credentials, locks, using, got>>
    /\ UNCHANGED <<closed, attached, file, server, history>>

\* The refresh token is posted. OpenAI issues new credentials for a token it
\* honours and honours it no longer, or refuses it (400, 401, 403).
Post(t) ==
    /\ at[t] \in {"post", "post early"}
    /\ \/ /\ using[t] \in live /\ issued < MaxTokens
          /\ issued' = issued + 1 /\ live' = (live \ {using[t]}) \cup {issued + 1}
          /\ got' = [got EXCEPT ![t] = issued + 1] /\ Go(t, "write")
       \/ /\ using[t] \notin live
          /\ Go(t, "delete") /\ UNCHANGED <<issued, live, got>>
    /\ UNCHANGED <<memory, locks, file, stale, using, history>>

\* An HTTP error. A transient one leaves a request that refreshed early with
\* the credentials it had; OpenAI may have acted upon the post all the same.
PostFails(t) ==
    /\ at[t] \in {"post", "post early"}
    /\ \/ Leave(t, "out", 0)
       \/ at[t] = "post early" /\ Leave(t, "using", using[t])
    /\ \/ UNCHANGED <<issued, live>>
       \/ /\ using[t] \in live /\ issued < MaxTokens
          /\ issued' = issued + 1 /\ live' = live \ {using[t]}
    /\ UNCHANGED <<memory, file, stale, history>>

\* The thread writes, or deletes, the file ...
Written(t) ==
    /\ at[t] = "write" /\ saved' = got[t] /\ Go(t, "adopt")
    /\ UNCHANGED <<memory, locks, orphans, orphaned, server, using, got, history>>

Deleted(t) ==
    /\ at[t] = "delete" /\ saved' = 0 /\ Go(t, "forget")
    /\ UNCHANGED <<memory, locks, orphans, orphaned, server, using, got, history>>

\* ... and the task goes on: the request has its credentials, or fails.
Refreshed(t) ==
    /\ t \in Requests /\ at[t] = "adopt"
    /\ credentials' = [credentials EXCEPT ![Home(t)] = got[t]]
    /\ Leave(t, "using", got[t])
    /\ UNCHANGED <<closed, attached, file, server, history>>

Refused(t) ==
    /\ t \in Requests /\ at[t] = "forget"
    /\ credentials' = [credentials EXCEPT ![Home(t)] = 0]
    /\ Leave(t, "out", 0)
    /\ UNCHANGED <<closed, attached, file, server, history>>

\* The client goes away, wherever the request is.
CancelRequest(t) ==
    /\ at[t] # "out" /\ calls + cancels < MaxEvents /\ cancels' = cancels + 1
    /\ Leave(t, "out", 0) /\ Abandon(t)
    /\ UNCHANGED <<memory, saved, server, withdrawn, calls>>

-----------------------------------------------------------------------------
(* The login in the background: _complete_login                             *)

\* The grant arrives and is exchanged for credentials.
Granted(t) ==
    /\ at[t] = "granting" /\ issued < MaxTokens
    /\ issued' = issued + 1 /\ live' = live \cup {issued + 1}
    /\ got' = [got EXCEPT ![t] = issued + 1] /\ Go(t, "lock")
    /\ UNCHANGED <<memory, locks, file, stale, using, history>>

\* The grant, the exchange or the file lock fails.
LoginFails(t) ==
    /\ at[t] = "granting" \/ (at[t] = "lock" /\ file_lock # None)
    /\ Go(t, "finally")
    /\ UNCHANGED <<memory, locks, file, server, using, got, history>>

\* _write_credentials takes the file lock, not the lock of the state.
LockFileForLogin(t) ==
    /\ at[t] = "lock" /\ file_lock = None
    /\ file_lock' = t /\ Go(t, "write")
    /\ UNCHANGED <<memory, state_lock, op_lock, file, server, using, got, history>>

\* The file is written and unlocked before the credentials are adopted.
UnlockFile(t) ==
    /\ t \in Logins /\ at[t] = "adopt" /\ file_lock = t
    /\ file_lock' = None
    /\ UNCHANGED <<memory, state_lock, op_lock, file, server, at, using, got, history>>

Adopt(t) ==
    /\ t \in Logins /\ at[t] = "adopt" /\ file_lock # t
    /\ state_lock[Home(t)] = None
    /\ credentials' = [credentials EXCEPT ![Home(t)] = got[t]] /\ Go(t, "finally")
    /\ UNCHANGED <<closed, attached, locks, file, server, using, got, history>>

\* The finally clause: the login of this task is over, if it still is.
LoginEnds(t) ==
    /\ at[t] = "finally" /\ state_lock[Home(t)] = None
    /\ attached' = [attached EXCEPT ![Home(t)] = FALSE]
    /\ Leave(t, "out", 0)
    /\ UNCHANGED <<credentials, closed, file, server, history>>

-----------------------------------------------------------------------------
(* The Admin pages: start_login, cancel_login, disconnect and close         *)

Calls == {"start", "cancel", "disconnect", "close"}

\* Mutant: start_login is not serialised with the other calls.
UnserialisedCall(a, what) ==
    /\ a[2] = calls + 2 /\ (what = "start" \/ op_lock[Home(a)] = None)
    /\ op_lock' = IF what = "start" THEN op_lock ELSE Hold(op_lock, a)
    /\ calls + cancels < MaxEvents /\ calls' = calls + 1
    /\ Go(a, what)
    /\ UNCHANGED <<memory, state_lock, file_lock, file, server, using, got, withdrawn, cancels>>

\* A call begins when it has _operation_lock, and awaits _state_lock.
Call(a, what) ==
    /\ a[2] = calls + 2 /\ op_lock[Home(a)] = None
    /\ calls + cancels < MaxEvents /\ calls' = calls + 1
    /\ op_lock' = Hold(op_lock, a) /\ Go(a, what)
    /\ UNCHANGED <<memory, state_lock, file_lock, file, server, using, got, withdrawn, cancels>>

\* start_login: one login at a time, none after close.
StartLogin(a) ==
    /\ at[a] = "start" /\ state_lock[Home(a)] = None
    /\ IF closed[Home(a)] \/ attached[Home(a)]
       THEN Leave(a, "out", 0)
       ELSE Go(a, "starting") /\ UNCHANGED <<locks, using, got>>
    /\ UNCHANGED <<memory, file, server, history>>

\* The browser listener or the device code is there: the task is created.
LoginStarted(a) ==
    /\ at[a] = "starting" /\ state_lock[Home(a)] = None
    /\ attached' = [attached EXCEPT ![Home(a)] = TRUE]
    /\ at' = [at EXCEPT ![a] = "out", ![Login(Home(a))] = "granting"]
    /\ op_lock' = Drop(op_lock, a)
    /\ UNCHANGED <<credentials, closed, state_lock, file_lock, file, server, using, got, history>>

\* It is not, or the call is cancelled.
StartFails(a) ==
    /\ at[a] = "starting" /\ state_lock[Home(a)] = None
    /\ Leave(a, "out", 0)
    /\ UNCHANGED <<memory, file, server, history>>

\* _detach_login_locked and the cancel() of _close_detached_login: the login
\* drops the file lock, not the thread that writes, and runs its finally
\* clause. A call goes on to await it.
Detach(a, next) ==
    LET l == Login(Home(a)) IN
    /\ attached' = [attached EXCEPT ![Home(a)] = FALSE]
    /\ IF at[l] = "out"
       THEN Go(a, next) /\ UNCHANGED <<file_lock, orphans, orphaned>>
       ELSE /\ at' = [at EXCEPT ![a] = next, ![l] = "finally"]
            /\ file_lock' = FileDropped(l)
            /\ Abandon(l)
    /\ withdrawn' = IF at[l] \in {"lock", "write", "adopt"} THEN got[l] ELSE withdrawn

\* Mutant: the login is awaited with the state still locked.
DetachAndKeep(a) ==
    /\ at[a] \in {"cancel", "disconnect", "close"} /\ state_lock[Home(a)] = None
    /\ closed' = [closed EXCEPT ![Home(a)] = @ \/ at[a] = "close"]
    /\ Detach(a, IF at[a] = "disconnect" THEN "joining" ELSE "joining last")
    /\ state_lock' = Hold(state_lock, a)
    /\ UNCHANGED <<credentials, op_lock, saved, server, using, got, cancels, calls>>

DetachLogin(a) ==
    /\ at[a] \in {"cancel", "disconnect", "close"} /\ state_lock[Home(a)] = None
    /\ at[a] = "disconnect" => ~closed[Home(a)]
    /\ closed' = [closed EXCEPT ![Home(a)] = @ \/ at[a] = "close"]
    /\ Detach(a, IF at[a] = "disconnect" THEN "joining" ELSE "joining last")
    /\ UNCHANGED <<credentials, state_lock, op_lock, saved, server, using, got, cancels, calls>>

\* disconnect after close raises.
DisconnectRefused(a) ==
    /\ at[a] = "disconnect" /\ state_lock[Home(a)] = None /\ closed[Home(a)]
    /\ Leave(a, "out", 0)
    /\ UNCHANGED <<memory, file, server, history>>

\* cancel_login and close return when the login is gone.
Joined(a) ==
    /\ at[a] = "joining last" /\ at[Login(Home(a))] = "out"
    /\ Leave(a, "out", 0)
    /\ UNCHANGED <<memory, file, server, history>>

\* disconnect takes the lock of the state until it returns.
Disconnecting(a) ==
    /\ at[a] = "joining" /\ at[Login(Home(a))] = "out"
    /\ state_lock[Home(a)] = None
    /\ state_lock' = Hold(state_lock, a) /\ Go(a, "revoke")
    /\ UNCHANGED <<memory, op_lock, file_lock, file, server, using, got, history>>

\* The token is revoked; an HTTP error is ignored.
Revoke(a) ==
    /\ at[a] = "revoke" /\ Go(a, "lock file")
    /\ live' \in {live, live \ {credentials[Home(a)]}}
    /\ UNCHANGED <<memory, locks, file, stale, issued, using, got, history>>

\* _delete_credentials, in its own time or not at all.
LockFileForDelete(a) ==
    /\ at[a] = "lock file" /\ file_lock = None
    /\ file_lock' = a /\ Go(a, "delete")
    /\ UNCHANGED <<memory, state_lock, op_lock, file, server, using, got, history>>

DisconnectFails(a) ==
    /\ at[a] = "lock file" /\ file_lock # None
    /\ Leave(a, "out", 0)
    /\ UNCHANGED <<memory, file, server, history>>

Disconnected(a) ==
    /\ a \in Admins /\ at[a] = "forget"
    /\ credentials' = [credentials EXCEPT ![Home(a)] = 0]
    /\ Leave(a, "out", 0)
    /\ UNCHANGED <<closed, attached, file, server, history>>

-----------------------------------------------------------------------------
\* A thread that nobody awaits gets to the file.
OrphanLands ==
    \E v \in orphans :
        /\ saved' = v /\ orphans' = orphans \ {v}
        /\ UNCHANGED <<memory, locks, orphaned, server, at, using, got, history>>

\* Time passes.
Expire(v) ==
    /\ v \in 1 .. issued /\ v \notin stale /\ stale' = stale \cup {v}
    /\ UNCHANGED <<memory, locks, file, live, issued, at, using, got, history>>

Thread(t) == Written(t) \/ Deleted(t)

\* The steps for which a task waits until the state is unlocked.
Waiting(t) ==
    \/ Unauthorized(t) \/ Adopt(t) \/ LoginEnds(t)
    \/ StartLogin(t) \/ LoginStarted(t) \/ DetachLogin(t) \/ DisconnectRefused(t)
    \/ Disconnecting(t)

Running(t) ==
    \/ LockFile(t) \/ LockFileForLogin(t) \/ LockFileForDelete(t) \/ Thread(t)
    \/ Reload(t) \/ Read(t) \/ Post(t) \/ PostFails(t)
    \/ Refreshed(t) \/ Refused(t) \/ UnlockFile(t) \/ Joined(t) \/ Revoke(t)
    \/ Disconnected(t) \/ FileLockTimesOut(t) \/ DisconnectFails(t)
    \/ LoginFails(t) \/ StartFails(t)

Next ==
    \/ \E t \in Requests : Access(t) \/ Done(t) \/ CancelRequest(t)
    \/ \E t \in Logins : Granted(t)
    \/ \E a \in Admins, what \in Calls : Call(a, what)
    \/ \E t \in Tasks : Waiting(t) \/ Running(t)
    \/ OrphanLands
    \/ \E v \in Tokens : Expire(v)

Spec == Init /\ [][Next]_vars

\* Requests run, and so do calls and logins together; an asyncio lock is served
\* in order of arrival; a wait for the file lock, for a grant or for the server
\* ends in time, one way or the other.
Others == Logins \cup Admins

Fairness ==
    /\ \A t \in Requests : WF_vars(Running(t))
    /\ WF_vars(\E t \in Others : Running(t))
    /\ SF_vars(\E t \in Others : Waiting(t))

FairSpec == Spec /\ Fairness

-----------------------------------------------------------------------------
\* The types, and that whoever is in a critical section holds its lock.
TypeOK ==
    /\ credentials \in [Managers -> 0 .. issued] /\ saved \in 0 .. issued
    /\ closed \in [Managers -> BOOLEAN] /\ attached \in [Managers -> BOOLEAN]
    /\ state_lock \in [Managers -> Tasks \cup {None}]
    /\ op_lock \in [Managers -> Tasks \cup {None}] /\ file_lock \in Tasks \cup {None}
    /\ issued \in 0 .. MaxTokens /\ live \subseteq 1 .. issued /\ stale \subseteq 1 .. issued
    /\ orphans \subseteq 0 .. issued /\ using \in [Tasks -> 0 .. issued] /\ got \in [Tasks -> 0 .. issued]
    /\ orphaned \in BOOLEAN /\ withdrawn \in 0 .. issued /\ cancels \in 0 .. MaxEvents /\ calls \in 0 .. MaxEvents
    /\ \A t \in Tasks : at[t] \in {"write", "delete"} => file_lock = t

\* auth.py:424-438, "deduplicated across auth managers" (a test): under the file
\* lock, a refresh token is posted only when the file holds no credentials newer
\* than it and still fresh. Only a thread nobody awaits can come in between.
RefreshIsDeduplicated ==
    \A t \in Requests : at[t] \in {"post", "post early"} /\ ~orphaned
        => saved = using[t] \/ ~Usable(saved)

\* auth.py:364: once close() has returned there is no login, and none can start.
ClosedHasNoLogin ==
    \A m \in Hosts : closed[m] /\ op_lock[m] = None
        => at[Login(m)] = "out" /\ ~attached[m]

\* The locks are held by whoever is in their sections, and a login belongs to
\* an open manager.
LoginsAreOwned == TypeOK /\ ClosedHasNoLogin

\* auth.py:364, 290, 280: a call holds _operation_lock while it awaits the login,
\* which may await the lock of the state, which a request may hold while it
\* awaits the file lock, which the login may hold: every call returns.
CallsReturn == \A a \in Admins : (at[a] # "out") ~> (at[a] = "out")

\* auth.py:281, "Cancel a pending login while preserving current credentials":
\* what a cancelled login was issued is not in the file once the call is over.
CancelPreservesCredentials ==
    withdrawn # 0 /\ (\A a \in Admins : at[a] = "out" /\ ~closed[Home(a)])
        => saved # withdrawn
=============================================================================
