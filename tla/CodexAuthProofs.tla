--------------------------- MODULE CodexAuthProofs ---------------------------
(***************************************************************************)
(* Theorems about the ChatGPT credentials, for any processes, Admin pages,   *)
(* credentials and calls.                                                    *)
(***************************************************************************)
EXTENDS CodexAuth, TLAPS

\* Where a request keeps the lock of the state, and where the file lock too.
Keeping == {"early", "forced", "reload", "read early", "read",
            "post early", "post", "write", "delete", "adopt", "forget"}
Alone == {"read early", "read", "post early", "post", "write", "delete",
          "adopt", "forget"}

RequestPlaces == Keeping \cup {"out", "using"}
LoginPlaces == {"out", "granting", "lock", "write", "adopt", "finally"}
AdminPlaces ==
    Calls \cup {"out", "starting", "joining", "joining last",
                "revoke", "lock file", "delete", "forget"}

Place(t) ==
    /\ t \in Requests => at[t] \in RequestPlaces
    /\ t \in Logins => at[t] \in LoginPlaces
    /\ t \in Admins => at[t] \in AdminPlaces

\* Whoever is in a section holds its locks.
Section(t) ==
    /\ t \in Requests =>
          /\ at[t] \in Keeping => state_lock[Home(t)] = t
          /\ at[t] \in Alone => file_lock = t
    /\ t \in Admins =>
          /\ at[t] # "out" => op_lock[Home(t)] = t
          /\ at[t] \in {"revoke", "lock file", "delete", "forget"}
                => state_lock[Home(t)] = t
          /\ at[t] = "forget" => file_lock = t
    /\ at[t] \in {"write", "delete"} => file_lock = t

\* RefreshIsDeduplicated and the start of a login, one task at a time.
Posting(t) ==
    t \in Requests /\ at[t] \in {"post", "post early"} /\ ~orphaned
        => saved = using[t] \/ ~Usable(saved)
Starting(t) ==
    t \in Admins /\ at[t] = "starting" => ~closed[Home(t)]

Fine(t) == Place(t) /\ Section(t) /\ Posting(t) /\ Starting(t)

\* Every thread at the file has its task, until one has been left alone.
NoneAlone == ~orphaned => orphans = {}

\* A closed manager has no login, or a call that awaits its end.
Closing ==
    \A m \in Hosts : closed[m] =>
        /\ ~attached[m]
        /\ at[Login(m)] # "out"
              => \E a \in Admins : Home(a) = m /\ at[a] = "joining last"

\* The types of TypeOK, without the locks of Section.
LocksTyped ==
    /\ state_lock \in [Managers -> Tasks \cup {None}]
    /\ op_lock \in [Managers -> Tasks \cup {None}]
    /\ file_lock \in Tasks \cup {None}
TasksTyped ==
    /\ at = [t \in Tasks |-> at[t]]
    /\ using \in [Tasks -> 0 .. issued] /\ got \in [Tasks -> 0 .. issued]
DataTyped ==
    /\ credentials \in [Managers -> 0 .. issued] /\ saved \in 0 .. issued
    /\ closed \in [Managers -> BOOLEAN] /\ attached \in [Managers -> BOOLEAN]
    /\ issued \in 0 .. MaxTokens
    /\ live \subseteq 1 .. issued /\ stale \subseteq 1 .. issued
    /\ orphans \subseteq 0 .. issued
    /\ orphaned \in BOOLEAN /\ withdrawn \in 0 .. issued
    /\ cancels \in 0 .. MaxEvents /\ calls \in 0 .. MaxEvents
Typed == LocksTyped /\ TasksTyped /\ DataTyped

Inv == Typed /\ (\A t \in Tasks : Fine(t)) /\ NoneAlone /\ Closing

\* A task is a request, the login of a host, or a call at one.
LEMMA Kinds ==
    /\ Tasks = Requests \cup Logins \cup Admins
    /\ Requests \cap Logins = {} /\ Requests \cap Admins = {} /\ Logins \cap Admins = {}
    /\ \A t \in Tasks : Home(t) \in Managers
    /\ \A a \in Logins \cup Admins : Home(a) \in Hosts /\ Login(Home(a)) \in Logins
    /\ \A m \in Hosts : m \in Managers /\ Login(m) \in Logins /\ Home(Login(m)) = m
    /\ \A l \in Logins : l = Login(Home(l))
    /\ None \notin Tasks
<1>1. Hosts \subseteq Managers /\ None \notin Tasks  BY ConstantsAssumption
<1>2. \A t \in Requests : Home(t) \in Managers /\ t = <<Home(t), 0>> /\ t[2] = 0
  BY DEF Requests, Home
<1>3. \A t \in Logins : Home(t) \in Hosts /\ t = <<Home(t), 1>> /\ t[2] = 1
  BY DEF Logins, Home
<1>4. \A t \in Admins : Home(t) \in Hosts /\ t[2] \in 2 .. MaxEvents + 1
  BY DEF Admins, Home
<1>5. \A m \in Hosts : Login(m) \in Logins /\ Home(Login(m)) = m
  BY DEF Logins, Login, Home
<1>6. Requests \cap Logins = {} /\ Requests \cap Admins = {} /\ Logins \cap Admins = {}
  BY <1>2, <1>3, <1>4, ConstantsAssumption
<1>7. \A l \in Logins : l = Login(Home(l))  BY <1>3 DEF Login
<1> QED  BY <1>1, <1>2, <1>3, <1>4, <1>5, <1>6, <1>7 DEF Tasks

LEMMA InvOwnsLogins == Inv => LoginsAreOwned /\ RefreshIsDeduplicated
<1> SUFFICES ASSUME Inv PROVE LoginsAreOwned /\ RefreshIsDeduplicated  OBVIOUS
<1>1. TypeOK
  BY DEF Inv, Typed, LocksTyped, TasksTyped, DataTyped, Fine, Section, TypeOK
<1>2. ClosedHasNoLogin
  <2> SUFFICES ASSUME NEW m \in Hosts, closed[m], op_lock[m] = None
               PROVE  at[Login(m)] = "out" /\ ~attached[m]
      BY DEF ClosedHasNoLogin
  <2>1. ASSUME NEW a \in Admins, Home(a) = m PROVE at[a] # "joining last"
    <3>1. a \in Tasks /\ a # None  BY Kinds
    <3>2. Section(a)  BY <3>1 DEF Inv, Fine
    <3>3. at[a] # "out" => op_lock[m] = a  BY <2>1, <3>2 DEF Section
    <3> QED  BY <3>1, <3>3
  <2> QED  BY <2>1 DEF Inv, Closing
<1>3. RefreshIsDeduplicated  BY Kinds DEF Inv, Fine, Posting, RefreshIsDeduplicated
<1> QED  BY <1>1, <1>2, <1>3 DEF LoginsAreOwned

\* Some places are those of one kind of task.
LEMMA WhoIsWhere ==
    ASSUME Inv, NEW t \in Tasks
    PROVE  /\ at[t] \in {"early", "forced", "reload", "read early", "read",
                         "post early", "post", "using"} => t \in Requests
           /\ at[t] \in {"granting", "lock", "finally"} => t \in Logins
           /\ at[t] \in {"start", "starting", "cancel", "disconnect", "close", "joining",
                         "joining last", "revoke", "lock file"} => t \in Admins
           /\ at[t] \in {"write", "adopt"} => t \notin Admins
           /\ at[t] \in {"delete", "forget"} => t \notin Logins
  BY Kinds
  DEF Inv, Fine, Place, RequestPlaces, LoginPlaces, AdminPlaces, Keeping, Calls

\* What a step of one task does to no other: it changes the locks only by
\* taking a free one and by dropping its own, the file only under its lock.
LocksApart(t) ==
    /\ \A m \in Managers :
          /\ state_lock'[m] = state_lock[m] \/ state_lock[m] \in {None, t}
          /\ op_lock'[m] = op_lock[m] \/ op_lock[m] \in {None, t}
    /\ file_lock' = file_lock \/ file_lock \in {None, t}
FileApart(t) ==
    /\ saved' = saved \/ file_lock = t
    /\ stale' = stale /\ (orphaned => orphaned')
TaskApart(t) ==
    /\ \A s \in Tasks \ {t} : at'[s] = at[s] /\ using'[s] = using[s]
    /\ at[t] = "out" => t \notin Logins
    /\ at[t] = "joining last" => at[Login(Home(t))] = "out"
    /\ closed' = closed /\ \A m \in Managers : attached'[m] => attached[m]

StepOf(t) == LocksApart(t) /\ FileApart(t) /\ TaskApart(t)

\* The other tasks are where they were, with the locks they had.
LEMMA OthersStay ==
    ASSUME Inv, NEW t \in Tasks, LocksApart(t), FileApart(t), closed' = closed,
           NEW s \in Tasks \ {t}, at'[s] = at[s], using'[s] = using[s]
    PROVE  Fine(s)'
<1> USE Kinds DEF Inv, Fine
<1>1. Place(s)'  BY DEF Place
<1>2. s \in Tasks /\ s # t /\ s # None /\ Home(s) \in Managers  OBVIOUS
<1>3. /\ state_lock[Home(s)] = s => state_lock'[Home(s)] = s
      /\ op_lock[Home(s)] = s => op_lock'[Home(s)] = s
      /\ file_lock = s => file_lock' = s
  BY <1>2 DEF LocksApart
<1>4. Section(s)'  BY ONLY <1>2, <1>3, Section(s), at'[s] = at[s] DEF Section
<1>5. Posting(s)'  BY <1>2 DEF Posting, Section, FileApart, Usable, Alone
<1>6. Starting(s)'  BY DEF Starting
<1> QED  BY <1>1, <1>4, <1>5, <1>6

LEMMA StepKeeps ==
    ASSUME Inv, NEW t \in Tasks, StepOf(t), Typed', NoneAlone', Fine(t)'
    PROVE  Inv'
<1> USE DEF StepOf
<1>1. \A s \in Tasks \ {t} : Fine(s)'  BY OthersStay DEF TaskApart
<1>2. Closing'
  <2> SUFFICES ASSUME NEW m \in Hosts, closed'[m]
               PROVE  /\ ~attached'[m]
                      /\ at'[Login(m)] # "out"
                            => \E a \in Admins : Home(a) = m /\ at'[a] = "joining last"
      BY DEF Closing
  <2>1. m \in Managers /\ closed[m] /\ Login(m) \in Logins /\ Login(m) \in Tasks
    BY Kinds DEF TaskApart
  <2>2. ~attached'[m]  BY <2>1 DEF Inv, Closing, TaskApart
  <2> SUFFICES ASSUME at'[Login(m)] # "out"
               PROVE  \E a \in Admins : Home(a) = m /\ at'[a] = "joining last"
      BY <2>2
  <2>3. at[Login(m)] # "out"  BY <2>1 DEF TaskApart
  <2>4. PICK a \in Admins : Home(a) = m /\ at[a] = "joining last"
    BY <2>1, <2>3 DEF Inv, Closing
  <2> QED  BY <2>3, <2>4, Kinds DEF TaskApart
<1> QED  BY <1>1, <1>2 DEF Inv

LEMMA DropsApart ==
    ASSUME Inv, NEW t \in Tasks,
           state_lock' = Drop(state_lock, t), op_lock' = Drop(op_lock, t),
           file_lock' = FileDropped(t)
    PROVE  LocksTyped' /\ LocksApart(t)
  BY Kinds DEF Inv, Typed, LocksTyped, LocksApart, Drop, FileDropped

LEMMA SameLocksApart ==
    ASSUME Inv, NEW t \in Tasks, UNCHANGED locks
    PROVE  LocksTyped' /\ LocksApart(t)
  BY DEF Inv, Typed, LocksTyped, LocksApart, locks

\* A task that is out, or has its credentials, owes nothing.
LEMMA AwayIsFine ==
    ASSUME NEW t \in Tasks, at'[t] = "out" \/ (t \in Requests /\ at'[t] = "using")
    PROVE  Fine(t)'
  BY Kinds
  DEF Fine, Place, Section, Posting, Starting, RequestPlaces, LoginPlaces, AdminPlaces,
      Keeping, Alone

\* The types when a task leaves, and when a credential is issued.
LEMMA LeaveTyped ==
    ASSUME Inv, NEW t \in Tasks, NEW where, NEW v \in 0 .. issued, Leave(t, where, v),
           issued' \in {issued, issued + 1}
    PROVE  TasksTyped'
<1>1. issued \in Nat /\ 0 .. issued \subseteq 0 .. issued'
  BY ConstantsAssumption DEF Inv, Typed, DataTyped
<1>2. at' = [s \in Tasks |-> at'[s]]
  BY DEF Inv, Typed, TasksTyped, Leave, Go
<1>3. using' \in [Tasks -> 0 .. issued'] /\ got' \in [Tasks -> 0 .. issued']
  BY <1>1 DEF Inv, Typed, TasksTyped, Leave
<1> QED  BY <1>2, <1>3 DEF TasksTyped

LEMMA CredentialsAreCounted ==
    ASSUME Inv
    PROVE  /\ issued \in Nat /\ 0 \in 0 .. issued /\ saved \in 0 .. issued
           /\ \A t \in Tasks : using[t] \in 0 .. issued /\ got[t] \in 0 .. issued
           /\ \A m \in Managers : credentials[m] \in 0 .. issued
  BY ConstantsAssumption DEF Inv, Typed, DataTyped, TasksTyped

LEMMA Issuing ==
    ASSUME Inv, issued < MaxTokens, issued' = issued + 1,
           UNCHANGED <<memory, file, stale, history>>,
           live' \subseteq live \cup {issued'}
    PROVE  DataTyped'
<1>1. /\ issued \in Nat /\ issued' \in 0 .. MaxTokens /\ issued' \in 1 .. issued'
      /\ 0 .. issued \subseteq 0 .. issued' /\ 1 .. issued \subseteq 1 .. issued'
  BY ConstantsAssumption DEF Inv, Typed, DataTyped
<1> QED  BY <1>1 DEF Inv, Typed, DataTyped, memory, file, history

LEMMA AccessKeeps ==
    ASSUME Inv, NEW t \in Tasks, t \in Requests, Access(t)
    PROVE  Inv'
<1>1. t \in Requests  OBVIOUS
<1>2. LocksTyped' /\ LocksApart(t)
  BY Kinds DEF Access, Hold, Inv, Typed, LocksTyped, LocksApart
<1>3. FileApart(t)
  BY <1>1 DEF Access, file, server, FileApart, Inv, Fine, Section, Alone
<1>4. TaskApart(t)
  BY <1>1, Kinds DEF Access, Go, memory, TaskApart, Inv, Typed, TasksTyped
<1>5. TasksTyped'
  BY Kinds, ConstantsAssumption
  DEF Access, Go, server, Inv, Typed, TasksTyped, DataTyped
<1>6. DataTyped'
  BY Kinds, ConstantsAssumption
  DEF Access, memory, file, server, history, Inv, Typed, DataTyped, TasksTyped
<1>7. NoneAlone'  BY DEF Access, file, NoneAlone, Inv
<1>8. Fine(t)'
  <2>1. Place(t)'
    BY ZenonT(60), <1>1, Kinds
    DEF Access, Go, Inv, Typed, TasksTyped, Place, RequestPlaces, LoginPlaces,
        AdminPlaces, Keeping
  <2>2. Section(t)'
    <3>1. at'[t] \in {"early", "using"}
      BY DEF Access, Go, Inv, Typed, TasksTyped
    <3>2. at'[t] = "early" => state_lock'[Home(t)] = t
      BY Kinds DEF Access, Go, Hold, Inv, Typed, TasksTyped, LocksTyped
    <3> QED  BY <1>1, <3>1, <3>2, Kinds DEF Section, Keeping, Alone
  <2>3. Posting(t)'
    BY ZenonT(60), <1>1, Kinds DEF Access, Go, file, server, Inv, Typed, TasksTyped, Posting, Usable
  <2>4. Starting(t)'
    BY <1>1, Kinds DEF Access, Go, memory, Inv, Typed, TasksTyped, Starting
  <2> QED  BY <2>1, <2>2, <2>3, <2>4 DEF Fine
<1> QED
  BY <1>2, <1>3, <1>4, <1>5, <1>6, <1>7, <1>8, StepKeeps DEF StepOf, Typed

LEMMA DoneKeeps ==
    ASSUME Inv, NEW t \in Tasks, t \in Requests, Done(t)
    PROVE  Inv'
<1>1. t \in Requests  OBVIOUS
<1>2. LocksTyped' /\ LocksApart(t)  BY DropsApart DEF Done, Leave
<1>3. FileApart(t)  BY <1>1 DEF Done, file, server, FileApart, Inv, Fine, Section, Alone
<1>4. TaskApart(t)
  BY <1>1, Kinds DEF Done, Go, Leave, memory, TaskApart, Inv, Typed, TasksTyped
<1>5. TasksTyped'
  BY <1>1, LeaveTyped, CredentialsAreCounted DEF Done, server, file
<1>6. DataTyped'
  BY Kinds, ConstantsAssumption
  DEF Done, memory, file, server, history, Inv, Typed, DataTyped, TasksTyped
<1>7. NoneAlone'  BY DEF Done, file, NoneAlone, Inv
<1>8. Fine(t)'  BY <1>1, AwayIsFine DEF Done, Leave, Go, Inv, Typed, TasksTyped
<1> QED
  BY <1>2, <1>3, <1>4, <1>5, <1>6, <1>7, <1>8, StepKeeps DEF StepOf, Typed

LEMMA UnauthorizedKeeps ==
    ASSUME Inv, NEW t \in Tasks, Unauthorized(t)
    PROVE  Inv'
<1>1. t \in Requests  BY WhoIsWhere DEF Unauthorized
<1>2. LocksTyped' /\ LocksApart(t)
  BY Kinds DEF Unauthorized, Hold, Inv, Typed, LocksTyped, LocksApart
<1>3. FileApart(t)
  BY <1>1 DEF Unauthorized, file, server, FileApart, Inv, Fine, Section, Alone
<1>4. TaskApart(t)
  BY <1>1, Kinds DEF Unauthorized, Go, memory, TaskApart, Inv, Typed, TasksTyped
<1>5. TasksTyped'
  BY Kinds, ConstantsAssumption
  DEF Unauthorized, Go, server, Inv, Typed, TasksTyped, DataTyped
<1>6. DataTyped'
  BY Kinds, ConstantsAssumption
  DEF Unauthorized, memory, file, server, history, Inv, Typed, DataTyped, TasksTyped
<1>7. NoneAlone'  BY DEF Unauthorized, file, NoneAlone, Inv
<1>8. Fine(t)'
  <2>1. Place(t)'
    BY <1>1, Kinds
    DEF Unauthorized, Go, Inv, Typed, TasksTyped, Place, RequestPlaces, LoginPlaces,
        AdminPlaces, Keeping
  <2>2. Section(t)'
    BY <1>1, Kinds
    DEF Unauthorized, Go, Hold, Inv, Fine, Typed, TasksTyped, LocksTyped, Section,
        Keeping, Alone
  <2>3. Posting(t)'
    BY <1>1, Kinds
    DEF Unauthorized, Go, file, server, Inv, Typed, TasksTyped, Posting, Usable
  <2>4. Starting(t)'
    BY <1>1, Kinds DEF Unauthorized, Go, memory, Inv, Typed, TasksTyped, Starting
  <2> QED  BY <2>1, <2>2, <2>3, <2>4 DEF Fine
<1> QED
  BY <1>2, <1>3, <1>4, <1>5, <1>6, <1>7, <1>8, StepKeeps DEF StepOf, Typed

LEMMA ReloadKeeps ==
    ASSUME Inv, NEW t \in Tasks, Reload(t)
    PROVE  Inv'
<1>1. t \in Requests  BY WhoIsWhere DEF Reload
<1>2. LocksTyped' /\ LocksApart(t)  BY DropsApart, SameLocksApart DEF Reload, Leave
<1>3. FileApart(t)
  BY <1>1 DEF Reload, file, server, FileApart, Inv, Fine, Section, Alone
<1>4. TaskApart(t)
  BY ZenonT(60), <1>1, Kinds DEF Reload, Go, Leave, TaskApart, Inv, Typed, TasksTyped
<1>5. TasksTyped'
  BY Kinds, ConstantsAssumption
  DEF Reload, Go, Leave, server, Inv, Typed, TasksTyped, DataTyped
<1>6. DataTyped'
  BY Kinds, ConstantsAssumption
  DEF Reload, file, server, history, Inv, Typed, DataTyped, TasksTyped
<1>7. NoneAlone'  BY DEF Reload, file, NoneAlone, Inv
<1>8. Fine(t)'
  <2>1. Place(t)'
    BY ZenonT(60), <1>1, Kinds
    DEF Reload, Go, Leave, Inv, Typed, TasksTyped, Place, RequestPlaces,
        LoginPlaces, AdminPlaces, Keeping
  <2>2. Section(t)'
    <3>1. at'[t] \in {"out", "using", "forced"} /\ (at'[t] = "forced" => UNCHANGED locks)
      BY DEF Reload, Go, Leave, Inv, Typed, TasksTyped
    <3>2. state_lock[Home(t)] = t
      BY <1>1 DEF Reload, Inv, Fine, Section, Keeping
    <3> QED  BY <1>1, <3>1, <3>2, Kinds DEF Section, Keeping, Alone, locks
  <2>3. Posting(t)'
    BY <1>1, Kinds
    DEF Reload, Go, Leave, file, server, Inv, Typed, TasksTyped, Posting, Usable
  <2>4. Starting(t)'
    BY <1>1, Kinds DEF Reload, Go, Leave, Inv, Typed, TasksTyped, Starting
  <2> QED  BY <2>1, <2>2, <2>3, <2>4 DEF Fine
<1> QED
  BY <1>2, <1>3, <1>4, <1>5, <1>6, <1>7, <1>8, StepKeeps DEF StepOf, Typed

LEMMA LockFileKeeps ==
    ASSUME Inv, NEW t \in Tasks, LockFile(t)
    PROVE  Inv'
<1>1. t \in Requests  BY WhoIsWhere DEF LockFile
<1>2. LocksTyped' /\ LocksApart(t)
  BY Kinds DEF LockFile, Inv, Typed, LocksTyped, LocksApart
<1>3. FileApart(t)
  BY <1>1 DEF LockFile, file, server, FileApart, Inv, Fine, Section, Alone
<1>4. TaskApart(t)
  BY <1>1, Kinds DEF LockFile, Go, memory, TaskApart, Inv, Typed, TasksTyped
<1>5. TasksTyped'
  BY Kinds, ConstantsAssumption
  DEF LockFile, Go, server, Inv, Typed, TasksTyped, DataTyped
<1>6. DataTyped'
  BY Kinds, ConstantsAssumption
  DEF LockFile, memory, file, server, history, Inv, Typed, DataTyped, TasksTyped
<1>7. NoneAlone'  BY DEF LockFile, file, NoneAlone, Inv
<1>8. Fine(t)'
  <2>1. Place(t)'
    BY <1>1, Kinds
    DEF LockFile, Go, Inv, Typed, TasksTyped, Place, RequestPlaces, LoginPlaces,
        AdminPlaces, Keeping
  <2>2. Section(t)'
    BY <1>1, Kinds
    DEF LockFile, Go, Inv, Fine, Typed, TasksTyped, LocksTyped, Section, Keeping,
        Alone
  <2>3. Posting(t)'
    BY <1>1, Kinds
    DEF LockFile, Go, file, server, Inv, Typed, TasksTyped, Posting, Usable
  <2>4. Starting(t)'
    BY <1>1, Kinds DEF LockFile, Go, memory, Inv, Typed, TasksTyped, Starting
  <2> QED  BY <2>1, <2>2, <2>3, <2>4 DEF Fine
<1> QED
  BY <1>2, <1>3, <1>4, <1>5, <1>6, <1>7, <1>8, StepKeeps DEF StepOf, Typed

LEMMA FileLockTimesOutKeeps ==
    ASSUME Inv, NEW t \in Tasks, FileLockTimesOut(t)
    PROVE  Inv'
<1>1. t \in Requests  BY WhoIsWhere DEF FileLockTimesOut
<1>2. LocksTyped' /\ LocksApart(t)  BY DropsApart DEF FileLockTimesOut, Leave
<1>3. FileApart(t)
  BY <1>1 DEF FileLockTimesOut, file, server, FileApart, Inv, Fine, Section, Alone
<1>4. TaskApart(t)
  BY <1>1, Kinds
  DEF FileLockTimesOut, Go, Leave, memory, TaskApart, Inv, Typed, TasksTyped
<1>5. TasksTyped'
  BY <1>1, LeaveTyped, CredentialsAreCounted DEF FileLockTimesOut, server, file
<1>6. DataTyped'
  BY Kinds, ConstantsAssumption
  DEF FileLockTimesOut, memory, file, server, history, Inv, Typed, DataTyped,
      TasksTyped
<1>7. NoneAlone'  BY DEF FileLockTimesOut, file, NoneAlone, Inv
<1>8. Fine(t)'
  BY <1>1, AwayIsFine DEF FileLockTimesOut, Leave, Go, Inv, Typed, TasksTyped
<1> QED
  BY <1>2, <1>3, <1>4, <1>5, <1>6, <1>7, <1>8, StepKeeps DEF StepOf, Typed

LEMMA ReadKeeps ==
    ASSUME Inv, NEW t \in Tasks, Read(t)
    PROVE  Inv'
<1>1. t \in Requests  BY WhoIsWhere DEF Read
<1>2. LocksTyped' /\ LocksApart(t)  BY DropsApart, SameLocksApart DEF Read, Leave
<1>3. FileApart(t)  BY <1>1 DEF Read, file, server, FileApart, Inv, Fine, Section, Alone
<1>4. TaskApart(t)
  BY ZenonT(60), <1>1, Kinds DEF Read, Go, Leave, TaskApart, Inv, Typed, TasksTyped
<1>5. TasksTyped'
  <2>1. CASE Leave(t, "using", saved)
    BY <2>1, LeaveTyped, CredentialsAreCounted DEF Read, server
  <2>2. CASE (\E p \in {"post", "post early"} : Go(t, p)) /\ UNCHANGED <<using, got>>
    BY <2>2 DEF Read, Go, server, Inv, Typed, TasksTyped
  <2> QED  BY <2>1, <2>2 DEF Read
<1>6. DataTyped'
  <2>1. credentials' \in [Managers -> 0 .. issued]
    BY CredentialsAreCounted DEF Read, Inv, Typed, DataTyped
  <2> QED  BY <2>1 DEF Read, file, server, history, Inv, Typed, DataTyped
<1>7. NoneAlone'  BY DEF Read, file, NoneAlone, Inv
<1>8. Fine(t)'
  <2>1. Place(t)'
    BY <1>1, Kinds
    DEF Read, Go, Leave, Inv, Typed, TasksTyped, Place, RequestPlaces, LoginPlaces,
        AdminPlaces, Keeping
  <2>2. Section(t)'
    <3>1. \/ at'[t] = "using"
          \/ at'[t] \in {"post", "post early"} /\ UNCHANGED locks
      BY DEF Read, Go, Leave, Inv, Typed, TasksTyped
    <3>2. state_lock[Home(t)] = t /\ file_lock = t
      BY <1>1 DEF Read, Inv, Fine, Section, Keeping, Alone
    <3> QED  BY <1>1, <3>1, <3>2, Kinds DEF Section, Keeping, Alone, locks
  <2>3. Posting(t)'
    BY <1>1, Kinds
    DEF Read, Go, Leave, file, server, Inv, Typed, TasksTyped, Posting, Usable
  <2>4. Starting(t)'
    BY <1>1, Kinds DEF Read, Go, Leave, Inv, Typed, TasksTyped, Starting
  <2> QED  BY <2>1, <2>2, <2>3, <2>4 DEF Fine
<1> QED
  BY <1>2, <1>3, <1>4, <1>5, <1>6, <1>7, <1>8, StepKeeps DEF StepOf, Typed

LEMMA PostKeeps ==
    ASSUME Inv, NEW t \in Tasks, Post(t)
    PROVE  Inv'
<1>1. t \in Requests  BY WhoIsWhere DEF Post
<1>2. LocksTyped' /\ LocksApart(t)  BY SameLocksApart DEF Post
<1>3. FileApart(t)  BY <1>1 DEF Post, file, FileApart, Inv, Fine, Section, Alone
<1>4. TaskApart(t)
  BY <1>1, Kinds DEF Post, Go, memory, TaskApart, Inv, Typed, TasksTyped
<1>5. TasksTyped'
  <2>1. at' = [s \in Tasks |-> at'[s]]
    BY DEF Post, Go, Inv, Typed, TasksTyped
  <2>2. CASE issued' = issued + 1 /\ got' = [got EXCEPT ![t] = issued + 1]
    <3>1. issued \in Nat /\ 0 .. issued \subseteq 0 .. issued' /\ issued' \in 0 .. issued'
      BY <2>2, CredentialsAreCounted
    <3> QED  BY <2>1, <2>2, <3>1 DEF Post, Inv, Typed, TasksTyped
  <2>3. CASE UNCHANGED <<issued, got>>
    BY <2>1, <2>3 DEF Post, Inv, Typed, TasksTyped
  <2> QED  BY <2>2, <2>3 DEF Post
<1>6. DataTyped'
  <2>1. CASE UNCHANGED <<issued, live>>
    BY <2>1 DEF Post, memory, file, history, Inv, Typed, DataTyped
  <2> QED  BY <2>1, Issuing DEF Post
<1>7. NoneAlone'  BY DEF Post, file, NoneAlone, Inv
<1>8. Fine(t)'
  <2>1. Place(t)'
    BY <1>1, Kinds
    DEF Post, Go, Inv, Typed, TasksTyped, Place, RequestPlaces, LoginPlaces,
        AdminPlaces, Keeping
  <2>2. Section(t)'
    BY <1>1, Kinds
    DEF Post, Go, locks, Inv, Fine, Typed, TasksTyped, LocksTyped, Section, Keeping,
        Alone
  <2>3. Posting(t)'
    BY <1>1, Kinds DEF Post, Go, file, Inv, Typed, TasksTyped, Posting, Usable
  <2>4. Starting(t)'
    BY <1>1, Kinds DEF Post, Go, memory, Inv, Typed, TasksTyped, Starting
  <2> QED  BY <2>1, <2>2, <2>3, <2>4 DEF Fine
<1> QED
  BY <1>2, <1>3, <1>4, <1>5, <1>6, <1>7, <1>8, StepKeeps DEF StepOf, Typed

LEMMA PostFailsKeeps ==
    ASSUME Inv, NEW t \in Tasks, PostFails(t)
    PROVE  Inv'
<1>1. t \in Requests  BY WhoIsWhere DEF PostFails
<1>2. LocksTyped' /\ LocksApart(t)  BY DropsApart DEF PostFails, Leave
<1>3. FileApart(t)  BY <1>1 DEF PostFails, file, FileApart, Inv, Fine, Section, Alone
<1>4. TaskApart(t)
  BY <1>1, Kinds DEF PostFails, Go, Leave, memory, TaskApart, Inv, Typed, TasksTyped
<1>5. TasksTyped'
  <2>1. issued' \in {issued, issued + 1}  BY DEF PostFails
  <2>2. CASE Leave(t, "out", 0)  BY <2>1, <2>2, LeaveTyped, CredentialsAreCounted
  <2>3. CASE Leave(t, "using", using[t])
    BY <2>1, <2>3, LeaveTyped, CredentialsAreCounted
  <2> QED  BY <2>2, <2>3 DEF PostFails
<1>6. DataTyped'
  <2>1. CASE UNCHANGED <<issued, live>>
    BY <2>1 DEF PostFails, memory, file, history, Inv, Typed, DataTyped
  <2> QED  BY <2>1, Issuing DEF PostFails
<1>7. NoneAlone'  BY DEF PostFails, file, NoneAlone, Inv
<1>8. Fine(t)'  BY <1>1, AwayIsFine DEF PostFails, Leave, Go, Inv, Typed, TasksTyped
<1> QED
  BY <1>2, <1>3, <1>4, <1>5, <1>6, <1>7, <1>8, StepKeeps DEF StepOf, Typed

LEMMA WrittenKeeps ==
    ASSUME Inv, NEW t \in Tasks, Written(t)
    PROVE  Inv'
<1>1. t \notin Admins  BY WhoIsWhere DEF Written
<1>2. LocksTyped' /\ LocksApart(t)  BY SameLocksApart DEF Written
<1>3. FileApart(t)  BY <1>1 DEF Written, server, FileApart, Inv, Fine, Section, Alone
<1>4. TaskApart(t)
  BY <1>1, Kinds DEF Written, Go, memory, TaskApart, Inv, Typed, TasksTyped
<1>5. TasksTyped'
  BY Kinds, ConstantsAssumption
  DEF Written, Go, server, Inv, Typed, TasksTyped, DataTyped
<1>6. DataTyped'
  BY Kinds, ConstantsAssumption
  DEF Written, memory, server, history, Inv, Typed, DataTyped, TasksTyped
<1>7. NoneAlone'  BY DEF Written, NoneAlone, Inv
<1>8. Fine(t)'
  <2>1. Place(t)'
    BY <1>1, Kinds
    DEF Written, Go, Inv, Typed, TasksTyped, Place, RequestPlaces, LoginPlaces,
        AdminPlaces, Keeping
  <2>2. Section(t)'
    BY <1>1, Kinds
    DEF Written, Go, locks, Inv, Fine, Typed, TasksTyped, LocksTyped, Section,
        Keeping, Alone
  <2>3. Posting(t)'
    BY <1>1, Kinds DEF Written, Go, server, Inv, Typed, TasksTyped, Posting, Usable
  <2>4. Starting(t)'
    BY <1>1, Kinds DEF Written, Go, memory, Inv, Typed, TasksTyped, Starting
  <2> QED  BY <2>1, <2>2, <2>3, <2>4 DEF Fine
<1> QED
  BY <1>2, <1>3, <1>4, <1>5, <1>6, <1>7, <1>8, StepKeeps DEF StepOf, Typed

LEMMA DeletedKeeps ==
    ASSUME Inv, NEW t \in Tasks, Deleted(t)
    PROVE  Inv'
<1>1. t \notin Logins  BY WhoIsWhere DEF Deleted
<1>2. LocksTyped' /\ LocksApart(t)  BY SameLocksApart DEF Deleted
<1>3. FileApart(t)  BY <1>1 DEF Deleted, server, FileApart, Inv, Fine, Section, Alone
<1>4. TaskApart(t)
  BY <1>1, Kinds DEF Deleted, Go, memory, TaskApart, Inv, Typed, TasksTyped
<1>5. TasksTyped'
  BY Kinds, ConstantsAssumption
  DEF Deleted, Go, server, Inv, Typed, TasksTyped, DataTyped
<1>6. DataTyped'
  BY Kinds, ConstantsAssumption
  DEF Deleted, memory, server, history, Inv, Typed, DataTyped, TasksTyped
<1>7. NoneAlone'  BY DEF Deleted, NoneAlone, Inv
<1>8. Fine(t)'
  <2>1. Place(t)'
    BY <1>1, Kinds
    DEF Deleted, Go, Inv, Typed, TasksTyped, Place, RequestPlaces, LoginPlaces,
        AdminPlaces, Keeping
  <2>2. Section(t)'
    BY <1>1, Kinds
    DEF Deleted, Go, locks, Inv, Fine, Typed, TasksTyped, LocksTyped, Section,
        Keeping, Alone
  <2>3. Posting(t)'
    BY <1>1, Kinds DEF Deleted, Go, server, Inv, Typed, TasksTyped, Posting, Usable
  <2>4. Starting(t)'
    BY <1>1, Kinds DEF Deleted, Go, memory, Inv, Typed, TasksTyped, Starting
  <2> QED  BY <2>1, <2>2, <2>3, <2>4 DEF Fine
<1> QED
  BY <1>2, <1>3, <1>4, <1>5, <1>6, <1>7, <1>8, StepKeeps DEF StepOf, Typed

LEMMA RefreshedKeeps ==
    ASSUME Inv, NEW t \in Tasks, Refreshed(t)
    PROVE  Inv'
<1>1. t \in Requests  BY WhoIsWhere DEF Refreshed
<1>2. LocksTyped' /\ LocksApart(t)  BY DropsApart DEF Refreshed, Leave
<1>3. FileApart(t)
  BY <1>1 DEF Refreshed, file, server, FileApart, Inv, Fine, Section, Alone
<1>4. TaskApart(t)
  BY <1>1, Kinds DEF Refreshed, Go, Leave, TaskApart, Inv, Typed, TasksTyped
<1>5. TasksTyped'
  BY LeaveTyped, CredentialsAreCounted DEF Refreshed, server
<1>6. DataTyped'
  BY Kinds, ConstantsAssumption
  DEF Refreshed, file, server, history, Inv, Typed, DataTyped, TasksTyped
<1>7. NoneAlone'  BY DEF Refreshed, file, NoneAlone, Inv
<1>8. Fine(t)'  BY <1>1, AwayIsFine DEF Refreshed, Leave, Go, Inv, Typed, TasksTyped
<1> QED
  BY <1>2, <1>3, <1>4, <1>5, <1>6, <1>7, <1>8, StepKeeps DEF StepOf, Typed

LEMMA RefusedKeeps ==
    ASSUME Inv, NEW t \in Tasks, Refused(t)
    PROVE  Inv'
<1>1. t \in Requests  BY WhoIsWhere DEF Refused
<1>2. LocksTyped' /\ LocksApart(t)  BY DropsApart DEF Refused, Leave
<1>3. FileApart(t)
  BY <1>1 DEF Refused, file, server, FileApart, Inv, Fine, Section, Alone
<1>4. TaskApart(t)
  BY <1>1, Kinds DEF Refused, Go, Leave, TaskApart, Inv, Typed, TasksTyped
<1>5. TasksTyped'
  BY <1>1, LeaveTyped, CredentialsAreCounted DEF Refused, server, file
<1>6. DataTyped'
  BY Kinds, ConstantsAssumption
  DEF Refused, file, server, history, Inv, Typed, DataTyped, TasksTyped
<1>7. NoneAlone'  BY DEF Refused, file, NoneAlone, Inv
<1>8. Fine(t)'  BY <1>1, AwayIsFine DEF Refused, Leave, Go, Inv, Typed, TasksTyped
<1> QED
  BY <1>2, <1>3, <1>4, <1>5, <1>6, <1>7, <1>8, StepKeeps DEF StepOf, Typed

LEMMA CancelRequestKeeps ==
    ASSUME Inv, NEW t \in Tasks, t \in Requests, CancelRequest(t)
    PROVE  Inv'
<1>1. t \in Requests  OBVIOUS
<1>2. LocksTyped' /\ LocksApart(t)  BY DropsApart DEF CancelRequest, Leave
<1>3. FileApart(t)
  BY <1>1 DEF CancelRequest, server, FileApart, Inv, Fine, Section, Alone, Abandon
<1>4. TaskApart(t)
  <2>1. at' = [at EXCEPT ![t] = "out"] /\ using' = [using EXCEPT ![t] = 0] /\ at[t] # "out"
    BY DEF CancelRequest, Leave, Go
  <2>2. \A s \in Tasks \ {t} : at'[s] = at[s] /\ using'[s] = using[s]
    BY <2>1 DEF Inv, Typed, TasksTyped
  <2>3. at[t] # "joining last"
    BY <1>1 DEF Inv, Fine, Place, RequestPlaces, Keeping
  <2> QED  BY <1>1, <2>2, <2>3, Kinds DEF TaskApart, CancelRequest, memory
<1>5. TasksTyped'
  BY <1>1, LeaveTyped, CredentialsAreCounted DEF CancelRequest, server
<1>6. DataTyped'
  BY Kinds, ConstantsAssumption
  DEF CancelRequest, memory, server, Inv, Typed, DataTyped, TasksTyped, Abandon,
      Abandoned
<1>7. NoneAlone'  BY DEF CancelRequest, NoneAlone, Inv, Abandon
<1>8. Fine(t)'  BY <1>1, AwayIsFine DEF CancelRequest, Leave, Go, Inv, Typed, TasksTyped
<1> QED
  BY <1>2, <1>3, <1>4, <1>5, <1>6, <1>7, <1>8, StepKeeps DEF StepOf, Typed

LEMMA GrantedKeeps ==
    ASSUME Inv, NEW t \in Tasks, Granted(t)
    PROVE  Inv'
<1>1. t \in Logins  BY WhoIsWhere DEF Granted
<1>2. LocksTyped' /\ LocksApart(t)  BY SameLocksApart DEF Granted
<1>3. FileApart(t)  BY <1>1 DEF Granted, file, FileApart, Inv, Fine, Section, Alone
<1>4. TaskApart(t)
  BY <1>1, Kinds DEF Granted, Go, memory, TaskApart, Inv, Typed, TasksTyped
<1>5. TasksTyped'
  <2>1. issued \in Nat /\ 0 .. issued \subseteq 0 .. issued' /\ issued' \in 0 .. issued'
    BY CredentialsAreCounted DEF Granted
  <2> QED  BY <2>1 DEF Granted, Go, Inv, Typed, TasksTyped
<1>6. DataTyped'  BY Issuing DEF Granted
<1>7. NoneAlone'  BY DEF Granted, file, NoneAlone, Inv
<1>8. Fine(t)'
  <2>1. Place(t)'
    BY <1>1, Kinds
    DEF Granted, Go, Inv, Typed, TasksTyped, Place, RequestPlaces, LoginPlaces,
        AdminPlaces, Keeping
  <2>2. Section(t)'
    BY <1>1, Kinds
    DEF Granted, Go, locks, Inv, Fine, Typed, TasksTyped, LocksTyped, Section,
        Keeping, Alone
  <2>3. Posting(t)'
    BY <1>1, Kinds DEF Granted, Go, file, Inv, Typed, TasksTyped, Posting, Usable
  <2>4. Starting(t)'
    BY <1>1, Kinds DEF Granted, Go, memory, Inv, Typed, TasksTyped, Starting
  <2> QED  BY <2>1, <2>2, <2>3, <2>4 DEF Fine
<1> QED
  BY <1>2, <1>3, <1>4, <1>5, <1>6, <1>7, <1>8, StepKeeps DEF StepOf, Typed

LEMMA LoginFailsKeeps ==
    ASSUME Inv, NEW t \in Tasks, LoginFails(t)
    PROVE  Inv'
<1>1. t \in Logins  BY WhoIsWhere DEF LoginFails
<1>2. LocksTyped' /\ LocksApart(t)  BY SameLocksApart DEF LoginFails
<1>3. FileApart(t)
  BY <1>1 DEF LoginFails, file, server, FileApart, Inv, Fine, Section, Alone
<1>4. TaskApart(t)
  BY <1>1, Kinds DEF LoginFails, Go, memory, TaskApart, Inv, Typed, TasksTyped
<1>5. TasksTyped'
  BY Kinds, ConstantsAssumption
  DEF LoginFails, Go, server, Inv, Typed, TasksTyped, DataTyped
<1>6. DataTyped'
  BY Kinds, ConstantsAssumption
  DEF LoginFails, memory, file, server, history, Inv, Typed, DataTyped, TasksTyped
<1>7. NoneAlone'  BY DEF LoginFails, file, NoneAlone, Inv
<1>8. Fine(t)'
  <2>1. Place(t)'
    BY <1>1, Kinds
    DEF LoginFails, Go, Inv, Typed, TasksTyped, Place, RequestPlaces, LoginPlaces,
        AdminPlaces, Keeping
  <2>2. Section(t)'
    BY <1>1, Kinds
    DEF LoginFails, Go, locks, Inv, Fine, Typed, TasksTyped, LocksTyped, Section,
        Keeping, Alone
  <2>3. Posting(t)'
    BY <1>1, Kinds
    DEF LoginFails, Go, file, server, Inv, Typed, TasksTyped, Posting, Usable
  <2>4. Starting(t)'
    BY <1>1, Kinds DEF LoginFails, Go, memory, Inv, Typed, TasksTyped, Starting
  <2> QED  BY <2>1, <2>2, <2>3, <2>4 DEF Fine
<1> QED
  BY <1>2, <1>3, <1>4, <1>5, <1>6, <1>7, <1>8, StepKeeps DEF StepOf, Typed

LEMMA LockFileForLoginKeeps ==
    ASSUME Inv, NEW t \in Tasks, LockFileForLogin(t)
    PROVE  Inv'
<1>1. t \in Logins  BY WhoIsWhere DEF LockFileForLogin
<1>2. LocksTyped' /\ LocksApart(t)
  BY Kinds DEF LockFileForLogin, Inv, Typed, LocksTyped, LocksApart
<1>3. FileApart(t)
  BY <1>1 DEF LockFileForLogin, file, server, FileApart, Inv, Fine, Section, Alone
<1>4. TaskApart(t)
  BY <1>1, Kinds DEF LockFileForLogin, Go, memory, TaskApart, Inv, Typed, TasksTyped
<1>5. TasksTyped'
  BY Kinds, ConstantsAssumption
  DEF LockFileForLogin, Go, server, Inv, Typed, TasksTyped, DataTyped
<1>6. DataTyped'
  BY Kinds, ConstantsAssumption
  DEF LockFileForLogin, memory, file, server, history, Inv, Typed, DataTyped,
      TasksTyped
<1>7. NoneAlone'  BY DEF LockFileForLogin, file, NoneAlone, Inv
<1>8. Fine(t)'
  <2>1. Place(t)'
    BY <1>1, Kinds
    DEF LockFileForLogin, Go, Inv, Typed, TasksTyped, Place, RequestPlaces,
        LoginPlaces, AdminPlaces, Keeping
  <2>2. Section(t)'
    BY <1>1, Kinds
    DEF LockFileForLogin, Go, Inv, Fine, Typed, TasksTyped, LocksTyped, Section,
        Keeping, Alone
  <2>3. Posting(t)'
    BY <1>1, Kinds
    DEF LockFileForLogin, Go, file, server, Inv, Typed, TasksTyped, Posting, Usable
  <2>4. Starting(t)'
    BY <1>1, Kinds DEF LockFileForLogin, Go, memory, Inv, Typed, TasksTyped, Starting
  <2> QED  BY <2>1, <2>2, <2>3, <2>4 DEF Fine
<1> QED
  BY <1>2, <1>3, <1>4, <1>5, <1>6, <1>7, <1>8, StepKeeps DEF StepOf, Typed

LEMMA UnlockFileKeeps ==
    ASSUME Inv, NEW t \in Tasks, UnlockFile(t)
    PROVE  Inv'
<1>1. t \in Logins  BY WhoIsWhere DEF UnlockFile
<1>2. LocksTyped' /\ LocksApart(t)
  BY Kinds DEF UnlockFile, Inv, Typed, LocksTyped, LocksApart
<1>3. FileApart(t)
  BY <1>1 DEF UnlockFile, file, server, FileApart, Inv, Fine, Section, Alone
<1>4. TaskApart(t)
  BY <1>1, Kinds DEF UnlockFile, memory, TaskApart, Inv, Typed, TasksTyped
<1>5. TasksTyped'
  BY Kinds, ConstantsAssumption
  DEF UnlockFile, server, Inv, Typed, TasksTyped, DataTyped
<1>6. DataTyped'
  BY Kinds, ConstantsAssumption
  DEF UnlockFile, memory, file, server, history, Inv, Typed, DataTyped, TasksTyped
<1>7. NoneAlone'  BY DEF UnlockFile, file, NoneAlone, Inv
<1>8. Fine(t)'
  <2>1. Place(t)'
    BY <1>1, Kinds
    DEF UnlockFile, Inv, Typed, TasksTyped, Place, RequestPlaces, LoginPlaces,
        AdminPlaces, Keeping
  <2>2. Section(t)'
    BY <1>1, Kinds
    DEF UnlockFile, Inv, Fine, Typed, TasksTyped, LocksTyped, Section, Keeping,
        Alone
  <2>3. Posting(t)'
    BY <1>1, Kinds DEF UnlockFile, file, server, Inv, Typed, TasksTyped, Posting, Usable
  <2>4. Starting(t)'
    BY <1>1, Kinds DEF UnlockFile, memory, Inv, Typed, TasksTyped, Starting
  <2> QED  BY <2>1, <2>2, <2>3, <2>4 DEF Fine
<1> QED
  BY <1>2, <1>3, <1>4, <1>5, <1>6, <1>7, <1>8, StepKeeps DEF StepOf, Typed

LEMMA AdoptKeeps ==
    ASSUME Inv, NEW t \in Tasks, Adopt(t)
    PROVE  Inv'
<1>1. t \in Logins  BY WhoIsWhere DEF Adopt
<1>2. LocksTyped' /\ LocksApart(t)  BY SameLocksApart DEF Adopt
<1>3. FileApart(t)
  BY <1>1 DEF Adopt, file, server, FileApart, Inv, Fine, Section, Alone
<1>4. TaskApart(t)
  BY <1>1, Kinds DEF Adopt, Go, TaskApart, Inv, Typed, TasksTyped
<1>5. TasksTyped'
  BY Kinds, ConstantsAssumption DEF Adopt, Go, server, Inv, Typed, TasksTyped, DataTyped
<1>6. DataTyped'
  BY Kinds, ConstantsAssumption
  DEF Adopt, file, server, history, Inv, Typed, DataTyped, TasksTyped
<1>7. NoneAlone'  BY DEF Adopt, file, NoneAlone, Inv
<1>8. Fine(t)'
  <2>1. Place(t)'
    BY <1>1, Kinds
    DEF Adopt, Go, Inv, Typed, TasksTyped, Place, RequestPlaces, LoginPlaces,
        AdminPlaces, Keeping
  <2>2. Section(t)'
    BY <1>1, Kinds
    DEF Adopt, Go, locks, Inv, Fine, Typed, TasksTyped, LocksTyped, Section,
        Keeping, Alone
  <2>3. Posting(t)'
    BY <1>1, Kinds DEF Adopt, Go, file, server, Inv, Typed, TasksTyped, Posting, Usable
  <2>4. Starting(t)'
    BY <1>1, Kinds DEF Adopt, Go, Inv, Typed, TasksTyped, Starting
  <2> QED  BY <2>1, <2>2, <2>3, <2>4 DEF Fine
<1> QED
  BY <1>2, <1>3, <1>4, <1>5, <1>6, <1>7, <1>8, StepKeeps DEF StepOf, Typed

LEMMA LoginEndsKeeps ==
    ASSUME Inv, NEW t \in Tasks, LoginEnds(t)
    PROVE  Inv'
<1>1. t \in Logins  BY WhoIsWhere DEF LoginEnds
<1>2. LocksTyped' /\ LocksApart(t)  BY DropsApart DEF LoginEnds, Leave
<1>3. FileApart(t)
  BY <1>1 DEF LoginEnds, file, server, FileApart, Inv, Fine, Section, Alone
<1>4. TaskApart(t)
  BY <1>1, Kinds DEF LoginEnds, Go, Leave, TaskApart, Inv, Typed, TasksTyped
<1>5. TasksTyped'
  BY <1>1, LeaveTyped, CredentialsAreCounted DEF LoginEnds, server, file
<1>6. DataTyped'
  BY Kinds, ConstantsAssumption
  DEF LoginEnds, file, server, history, Inv, Typed, DataTyped, TasksTyped
<1>7. NoneAlone'  BY DEF LoginEnds, file, NoneAlone, Inv
<1>8. Fine(t)'  BY <1>1, AwayIsFine DEF LoginEnds, Leave, Go, Inv, Typed, TasksTyped
<1> QED
  BY <1>2, <1>3, <1>4, <1>5, <1>6, <1>7, <1>8, StepKeeps DEF StepOf, Typed

LEMMA StartLoginKeeps ==
    ASSUME Inv, NEW t \in Tasks, StartLogin(t)
    PROVE  Inv'
<1>1. t \in Admins  BY WhoIsWhere DEF StartLogin
<1>2. LocksTyped' /\ LocksApart(t)  BY DropsApart, SameLocksApart DEF StartLogin, Leave
<1>3. FileApart(t)
  BY <1>1 DEF StartLogin, file, server, FileApart, Inv, Fine, Section, Alone
<1>4. TaskApart(t)
  BY ZenonT(60), <1>1, Kinds DEF StartLogin, Go, Leave, memory, TaskApart, Inv, Typed, TasksTyped
<1>5. TasksTyped'
  BY Kinds, ConstantsAssumption
  DEF StartLogin, Go, Leave, server, Inv, Typed, TasksTyped, DataTyped
<1>6. DataTyped'
  BY Kinds, ConstantsAssumption
  DEF StartLogin, memory, file, server, history, Inv, Typed, DataTyped, TasksTyped
<1>7. NoneAlone'  BY DEF StartLogin, file, NoneAlone, Inv
<1>8. Fine(t)'
  <2>1. Place(t)'
    BY <1>1, Kinds
    DEF StartLogin, Go, Leave, Inv, Typed, TasksTyped, Place, RequestPlaces,
        LoginPlaces, AdminPlaces, Keeping
  <2>2. Section(t)'
    <3>1. at'[t] = "out" \/ (at'[t] = "starting" /\ UNCHANGED locks)
      BY DEF StartLogin, Go, Leave, Inv, Typed, TasksTyped
    <3>2. op_lock[Home(t)] = t
      BY <1>1 DEF StartLogin, Inv, Fine, Section
    <3> QED  BY <1>1, <3>1, <3>2, Kinds DEF Section, Keeping, Alone, locks
  <2>3. Posting(t)'
    BY <1>1, Kinds
    DEF StartLogin, Go, Leave, file, server, Inv, Typed, TasksTyped, Posting, Usable
  <2>4. Starting(t)'
    BY <1>1, Kinds DEF StartLogin, Go, Leave, memory, Inv, Typed, TasksTyped, Starting
  <2> QED  BY <2>1, <2>2, <2>3, <2>4 DEF Fine
<1> QED
  BY <1>2, <1>3, <1>4, <1>5, <1>6, <1>7, <1>8, StepKeeps DEF StepOf, Typed

LEMMA StartFailsKeeps ==
    ASSUME Inv, NEW t \in Tasks, StartFails(t)
    PROVE  Inv'
<1>1. t \in Admins  BY WhoIsWhere DEF StartFails
<1>2. LocksTyped' /\ LocksApart(t)  BY DropsApart DEF StartFails, Leave
<1>3. FileApart(t)
  BY <1>1 DEF StartFails, file, server, FileApart, Inv, Fine, Section, Alone
<1>4. TaskApart(t)
  BY <1>1, Kinds DEF StartFails, Go, Leave, memory, TaskApart, Inv, Typed, TasksTyped
<1>5. TasksTyped'
  BY <1>1, LeaveTyped, CredentialsAreCounted DEF StartFails, server, file
<1>6. DataTyped'
  BY Kinds, ConstantsAssumption
  DEF StartFails, memory, file, server, history, Inv, Typed, DataTyped, TasksTyped
<1>7. NoneAlone'  BY DEF StartFails, file, NoneAlone, Inv
<1>8. Fine(t)'  BY <1>1, AwayIsFine DEF StartFails, Leave, Go, Inv, Typed, TasksTyped
<1> QED
  BY <1>2, <1>3, <1>4, <1>5, <1>6, <1>7, <1>8, StepKeeps DEF StepOf, Typed

LEMMA DisconnectRefusedKeeps ==
    ASSUME Inv, NEW t \in Tasks, DisconnectRefused(t)
    PROVE  Inv'
<1>1. t \in Admins  BY WhoIsWhere DEF DisconnectRefused
<1>2. LocksTyped' /\ LocksApart(t)  BY DropsApart DEF DisconnectRefused, Leave
<1>3. FileApart(t)
  BY <1>1 DEF DisconnectRefused, file, server, FileApart, Inv, Fine, Section, Alone
<1>4. TaskApart(t)
  BY <1>1, Kinds
  DEF DisconnectRefused, Go, Leave, memory, TaskApart, Inv, Typed, TasksTyped
<1>5. TasksTyped'
  BY <1>1, LeaveTyped, CredentialsAreCounted DEF DisconnectRefused, server, file
<1>6. DataTyped'
  BY Kinds, ConstantsAssumption
  DEF DisconnectRefused, memory, file, server, history, Inv, Typed, DataTyped,
      TasksTyped
<1>7. NoneAlone'  BY DEF DisconnectRefused, file, NoneAlone, Inv
<1>8. Fine(t)'
  BY <1>1, AwayIsFine DEF DisconnectRefused, Leave, Go, Inv, Typed, TasksTyped
<1> QED
  BY <1>2, <1>3, <1>4, <1>5, <1>6, <1>7, <1>8, StepKeeps DEF StepOf, Typed

LEMMA JoinedKeeps ==
    ASSUME Inv, NEW t \in Tasks, Joined(t)
    PROVE  Inv'
<1>1. t \in Admins  BY WhoIsWhere DEF Joined
<1>2. LocksTyped' /\ LocksApart(t)  BY DropsApart DEF Joined, Leave
<1>3. FileApart(t)
  BY <1>1 DEF Joined, file, server, FileApart, Inv, Fine, Section, Alone
<1>4. TaskApart(t)
  BY <1>1, Kinds DEF Joined, Go, Leave, memory, TaskApart, Inv, Typed, TasksTyped
<1>5. TasksTyped'
  BY <1>1, LeaveTyped, CredentialsAreCounted DEF Joined, server, file
<1>6. DataTyped'
  BY Kinds, ConstantsAssumption
  DEF Joined, memory, file, server, history, Inv, Typed, DataTyped, TasksTyped
<1>7. NoneAlone'  BY DEF Joined, file, NoneAlone, Inv
<1>8. Fine(t)'  BY <1>1, AwayIsFine DEF Joined, Leave, Go, Inv, Typed, TasksTyped
<1> QED
  BY <1>2, <1>3, <1>4, <1>5, <1>6, <1>7, <1>8, StepKeeps DEF StepOf, Typed

LEMMA DisconnectingKeeps ==
    ASSUME Inv, NEW t \in Tasks, Disconnecting(t)
    PROVE  Inv'
<1>1. t \in Admins  BY WhoIsWhere DEF Disconnecting
<1>2. LocksTyped' /\ LocksApart(t)
  BY Kinds DEF Disconnecting, Hold, Inv, Typed, LocksTyped, LocksApart
<1>3. FileApart(t)
  BY <1>1 DEF Disconnecting, file, server, FileApart, Inv, Fine, Section, Alone
<1>4. TaskApart(t)
  BY <1>1, Kinds DEF Disconnecting, Go, memory, TaskApart, Inv, Typed, TasksTyped
<1>5. TasksTyped'
  BY Kinds, ConstantsAssumption
  DEF Disconnecting, Go, server, Inv, Typed, TasksTyped, DataTyped
<1>6. DataTyped'
  BY Kinds, ConstantsAssumption
  DEF Disconnecting, memory, file, server, history, Inv, Typed, DataTyped, TasksTyped
<1>7. NoneAlone'  BY DEF Disconnecting, file, NoneAlone, Inv
<1>8. Fine(t)'
  <2>1. Place(t)'
    BY <1>1, Kinds
    DEF Disconnecting, Go, Inv, Typed, TasksTyped, Place, RequestPlaces,
        LoginPlaces, AdminPlaces, Keeping
  <2>2. Section(t)'
    BY <1>1, Kinds
    DEF Disconnecting, Go, Hold, Inv, Fine, Typed, TasksTyped, LocksTyped, Section,
        Keeping, Alone
  <2>3. Posting(t)'
    BY <1>1, Kinds
    DEF Disconnecting, Go, file, server, Inv, Typed, TasksTyped, Posting, Usable
  <2>4. Starting(t)'
    BY <1>1, Kinds DEF Disconnecting, Go, memory, Inv, Typed, TasksTyped, Starting
  <2> QED  BY <2>1, <2>2, <2>3, <2>4 DEF Fine
<1> QED
  BY <1>2, <1>3, <1>4, <1>5, <1>6, <1>7, <1>8, StepKeeps DEF StepOf, Typed

LEMMA RevokeKeeps ==
    ASSUME Inv, NEW t \in Tasks, Revoke(t)
    PROVE  Inv'
<1>1. t \in Admins  BY WhoIsWhere DEF Revoke
<1>2. LocksTyped' /\ LocksApart(t)  BY SameLocksApart DEF Revoke
<1>3. FileApart(t)  BY <1>1 DEF Revoke, file, FileApart, Inv, Fine, Section, Alone
<1>4. TaskApart(t)
  BY <1>1, Kinds DEF Revoke, Go, memory, TaskApart, Inv, Typed, TasksTyped
<1>5. TasksTyped'
  BY Kinds, ConstantsAssumption DEF Revoke, Go, Inv, Typed, TasksTyped, DataTyped
<1>6. DataTyped'
  BY Kinds, ConstantsAssumption
  DEF Revoke, memory, file, history, Inv, Typed, DataTyped, TasksTyped
<1>7. NoneAlone'  BY DEF Revoke, file, NoneAlone, Inv
<1>8. Fine(t)'
  <2>1. Place(t)'
    BY <1>1, Kinds
    DEF Revoke, Go, Inv, Typed, TasksTyped, Place, RequestPlaces, LoginPlaces,
        AdminPlaces, Keeping
  <2>2. Section(t)'
    BY <1>1, Kinds
    DEF Revoke, Go, locks, Inv, Fine, Typed, TasksTyped, LocksTyped, Section,
        Keeping, Alone
  <2>3. Posting(t)'
    BY <1>1, Kinds DEF Revoke, Go, file, Inv, Typed, TasksTyped, Posting, Usable
  <2>4. Starting(t)'
    BY <1>1, Kinds DEF Revoke, Go, memory, Inv, Typed, TasksTyped, Starting
  <2> QED  BY <2>1, <2>2, <2>3, <2>4 DEF Fine
<1> QED
  BY <1>2, <1>3, <1>4, <1>5, <1>6, <1>7, <1>8, StepKeeps DEF StepOf, Typed

LEMMA LockFileForDeleteKeeps ==
    ASSUME Inv, NEW t \in Tasks, LockFileForDelete(t)
    PROVE  Inv'
<1>1. t \in Admins  BY WhoIsWhere DEF LockFileForDelete
<1>2. LocksTyped' /\ LocksApart(t)
  BY Kinds DEF LockFileForDelete, Inv, Typed, LocksTyped, LocksApart
<1>3. FileApart(t)
  BY <1>1 DEF LockFileForDelete, file, server, FileApart, Inv, Fine, Section, Alone
<1>4. TaskApart(t)
  BY <1>1, Kinds DEF LockFileForDelete, Go, memory, TaskApart, Inv, Typed, TasksTyped
<1>5. TasksTyped'
  BY Kinds, ConstantsAssumption
  DEF LockFileForDelete, Go, server, Inv, Typed, TasksTyped, DataTyped
<1>6. DataTyped'
  BY Kinds, ConstantsAssumption
  DEF LockFileForDelete, memory, file, server, history, Inv, Typed, DataTyped,
      TasksTyped
<1>7. NoneAlone'  BY DEF LockFileForDelete, file, NoneAlone, Inv
<1>8. Fine(t)'
  <2>1. Place(t)'
    BY <1>1, Kinds
    DEF LockFileForDelete, Go, Inv, Typed, TasksTyped, Place, RequestPlaces,
        LoginPlaces, AdminPlaces, Keeping
  <2>2. Section(t)'
    BY <1>1, Kinds
    DEF LockFileForDelete, Go, Inv, Fine, Typed, TasksTyped, LocksTyped, Section,
        Keeping, Alone
  <2>3. Posting(t)'
    BY <1>1, Kinds
    DEF LockFileForDelete, Go, file, server, Inv, Typed, TasksTyped, Posting, Usable
  <2>4. Starting(t)'
    BY <1>1, Kinds DEF LockFileForDelete, Go, memory, Inv, Typed, TasksTyped, Starting
  <2> QED  BY <2>1, <2>2, <2>3, <2>4 DEF Fine
<1> QED
  BY <1>2, <1>3, <1>4, <1>5, <1>6, <1>7, <1>8, StepKeeps DEF StepOf, Typed

LEMMA DisconnectFailsKeeps ==
    ASSUME Inv, NEW t \in Tasks, DisconnectFails(t)
    PROVE  Inv'
<1>1. t \in Admins  BY WhoIsWhere DEF DisconnectFails
<1>2. LocksTyped' /\ LocksApart(t)  BY DropsApart DEF DisconnectFails, Leave
<1>3. FileApart(t)
  BY <1>1 DEF DisconnectFails, file, server, FileApart, Inv, Fine, Section, Alone
<1>4. TaskApart(t)
  BY <1>1, Kinds
  DEF DisconnectFails, Go, Leave, memory, TaskApart, Inv, Typed, TasksTyped
<1>5. TasksTyped'
  BY <1>1, LeaveTyped, CredentialsAreCounted DEF DisconnectFails, server, file
<1>6. DataTyped'
  BY Kinds, ConstantsAssumption
  DEF DisconnectFails, memory, file, server, history, Inv, Typed, DataTyped,
      TasksTyped
<1>7. NoneAlone'  BY DEF DisconnectFails, file, NoneAlone, Inv
<1>8. Fine(t)'
  BY <1>1, AwayIsFine DEF DisconnectFails, Leave, Go, Inv, Typed, TasksTyped
<1> QED
  BY <1>2, <1>3, <1>4, <1>5, <1>6, <1>7, <1>8, StepKeeps DEF StepOf, Typed

LEMMA DisconnectedKeeps ==
    ASSUME Inv, NEW t \in Tasks, Disconnected(t)
    PROVE  Inv'
<1>1. t \in Admins  BY WhoIsWhere DEF Disconnected
<1>2. LocksTyped' /\ LocksApart(t)  BY DropsApart DEF Disconnected, Leave
<1>3. FileApart(t)
  BY <1>1 DEF Disconnected, file, server, FileApart, Inv, Fine, Section, Alone
<1>4. TaskApart(t)
  BY <1>1, Kinds DEF Disconnected, Go, Leave, TaskApart, Inv, Typed, TasksTyped
<1>5. TasksTyped'
  BY <1>1, LeaveTyped, CredentialsAreCounted DEF Disconnected, server, file
<1>6. DataTyped'
  BY Kinds, ConstantsAssumption
  DEF Disconnected, file, server, history, Inv, Typed, DataTyped, TasksTyped
<1>7. NoneAlone'  BY DEF Disconnected, file, NoneAlone, Inv
<1>8. Fine(t)'  BY <1>1, AwayIsFine DEF Disconnected, Leave, Go, Inv, Typed, TasksTyped
<1> QED
  BY <1>2, <1>3, <1>4, <1>5, <1>6, <1>7, <1>8, StepKeeps DEF StepOf, Typed

\* The other actions touch two tasks, or none.
LEMMA CallKeeps ==
    ASSUME Inv, NEW a \in Admins, NEW what \in Calls, Call(a, what)
    PROVE  Inv'
<1>1. a \in Tasks /\ Home(a) \in Managers  BY Kinds
<1>2. LocksTyped' /\ LocksApart(a)
  BY <1>1, Kinds DEF Call, Hold, Inv, Typed, LocksTyped, LocksApart
<1>3. FileApart(a)  BY DEF Call, file, server, FileApart
<1>4. at' = [at EXCEPT ![a] = what] /\ at'[a] = what
  BY <1>1 DEF Call, Go, Inv, Typed, TasksTyped
<1>5. TaskApart(a)
  <2>1. at[a] # "joining last"
    BY <1>1, Kinds DEF Call, Inv, Fine, Section
  <2> QED  BY <1>4, <2>1, Kinds DEF Call, memory, TaskApart, Inv, Typed, TasksTyped
<1>6. TasksTyped'  BY <1>1, <1>4 DEF Call, server, Inv, Typed, TasksTyped
<1>7. DataTyped'
  BY ConstantsAssumption DEF Call, memory, file, server, Inv, Typed, DataTyped
<1>8. NoneAlone'  BY DEF Call, file, NoneAlone, Inv
<1>9. Fine(a)'
  <2>1. what \notin {"starting", "out", "write", "delete", "revoke", "lock file", "forget",
                     "post", "post early"} /\ what \in AdminPlaces
    BY DEF Calls, AdminPlaces
  <2>2. op_lock'[Home(a)] = a
    BY <1>1 DEF Call, Hold, Inv, Typed, LocksTyped
  <2> QED
    BY <1>4, <2>1, <2>2, Kinds DEF Fine, Place, Section, Posting, Starting
<1> QED
  BY <1>1, <1>2, <1>3, <1>5, <1>6, <1>7, <1>8, <1>9, StepKeeps DEF StepOf, Typed

LEMMA LoginStartedKeeps ==
    ASSUME Inv, NEW a \in Tasks, LoginStarted(a)
    PROVE  Inv'
<1> DEFINE l == Login(Home(a))
<1>1. a \in Admins /\ l \in Logins /\ l \in Tasks /\ a # l
      /\ Home(a) \in Managers /\ Home(a) \in Hosts /\ Home(l) = Home(a)
  BY WhoIsWhere, Kinds DEF LoginStarted
<1> HIDE DEF l
<1>2. at' = [at EXCEPT ![a] = "out", ![l] = "granting"]
  BY DEF LoginStarted, l
<1>3. at'[a] = "out" /\ at'[l] = "granting" /\ \A s \in Tasks \ {a, l} : at'[s] = at[s]
  BY <1>1, <1>2 DEF Inv, Typed, TasksTyped
<1>4. LocksTyped' /\ LocksApart(a)
  BY <1>1, Kinds DEF LoginStarted, Drop, Inv, Typed, LocksTyped, LocksApart
<1>5. FileApart(a)  BY DEF LoginStarted, file, server, FileApart
<1>6. TasksTyped'  BY <1>2 DEF LoginStarted, server, Inv, Typed, TasksTyped
<1>7. DataTyped'
  BY <1>1 DEF LoginStarted, file, server, history, Inv, Typed, DataTyped
<1>8. NoneAlone'  BY DEF LoginStarted, file, NoneAlone, Inv
<1>9. \A s \in Tasks : Fine(s)'
  <2>1. Fine(a)'  BY <1>1, <1>3, AwayIsFine
  <2>2. Fine(l)'
    BY <1>1, <1>3, Kinds DEF Fine, Place, Section, Posting, Starting, LoginPlaces
  <2>3. \A s \in Tasks \ {a, l} : Fine(s)'
    BY <1>1, <1>3, <1>4, <1>5, OthersStay DEF LoginStarted
  <2> QED  BY <2>1, <2>2, <2>3
<1>10. Closing'
  <2> SUFFICES ASSUME NEW m \in Hosts, closed[m]
               PROVE  /\ ~attached'[m]
                      /\ at'[Login(m)] # "out"
                            => \E b \in Admins : Home(b) = m /\ at'[b] = "joining last"
      BY DEF LoginStarted, Closing
  <2>1. ~closed[Home(a)] /\ m # Home(a) /\ m \in Managers /\ ~attached[m]
    BY <1>1, Kinds DEF LoginStarted, Inv, Fine, Starting, Closing
  <2>2. ~attached'[m]  BY <2>1 DEF LoginStarted, Inv, Typed, DataTyped
  <2>3. Login(m) # l /\ Login(m) # a /\ Login(m) \in Tasks
    BY <1>1, <2>1, Kinds
  <2>4. at'[Login(m)] = at[Login(m)]  BY <1>3, <2>3
  <2> SUFFICES ASSUME at[Login(m)] # "out"
               PROVE  \E b \in Admins : Home(b) = m /\ at'[b] = "joining last"
      BY <2>2, <2>4
  <2>5. PICK b \in Admins : Home(b) = m /\ at[b] = "joining last"
    BY DEF Inv, Closing
  <2> QED  BY <1>1, <1>3, <2>1, <2>5, Kinds
<1> QED  BY <1>4, <1>6, <1>7, <1>8, <1>9, <1>10 DEF Inv, Typed

LEMMA DetachLoginKeeps ==
    ASSUME Inv, NEW a \in Tasks, DetachLogin(a)
    PROVE  Inv'
<1> DEFINE l == Login(Home(a))
<1>1. a \in Admins /\ l \in Logins /\ l \in Tasks /\ a # l
      /\ Home(a) \in Managers /\ Home(a) \in Hosts /\ Home(l) = Home(a)
  BY WhoIsWhere, Kinds DEF DetachLogin
<1>2. PICK next \in {"joining", "joining last"} :
         /\ next = (IF at[a] = "disconnect" THEN "joining" ELSE "joining last")
         /\ Detach(a, next)
  BY DEF DetachLogin
<1>3. \/ /\ at[l] = "out" /\ at' = [at EXCEPT ![a] = next]
         /\ UNCHANGED <<file_lock, orphans, orphaned>>
      \/ /\ at[l] # "out" /\ at' = [at EXCEPT ![a] = next, ![l] = "finally"]
         /\ file_lock' = FileDropped(l) /\ Abandon(l)
  BY <1>2 DEF Detach, Go
<1>4. /\ attached' = [attached EXCEPT ![Home(a)] = FALSE]
      /\ withdrawn' \in {got[l], withdrawn}
  BY <1>2 DEF Detach
<1>5. UNCHANGED <<credentials, state_lock, op_lock, saved, server, using, got, cancels, calls>>
      /\ closed' = [closed EXCEPT ![Home(a)] = @ \/ at[a] = "close"]
  BY DEF DetachLogin
<1> HIDE DEF l
<1>6. at'[a] = next /\ (\A s \in Tasks \ {a, l} : at'[s] = at[s])
      /\ (at'[l] = "out" \/ at'[l] = "finally") /\ (at'[l] = "out" <=> at[l] = "out")
  BY <1>1, <1>3 DEF Inv, Typed, TasksTyped
<1>7. LocksTyped' /\ LocksApart(l)
  <2>1. file_lock' = file_lock \/ (file_lock = l /\ file_lock' = None)
    BY <1>3 DEF FileDropped
  <2>2. state_lock' = state_lock /\ op_lock' = op_lock  BY <1>5
  <2>3. LocksTyped'  BY <2>1, <2>2 DEF Inv, Typed, LocksTyped
  <2>4. LocksApart(l)  BY <2>1, <2>2 DEF LocksApart
  <2> QED  BY <2>3, <2>4
<1>8. FileApart(l)
  <2>1. orphaned => orphaned'  BY <1>3 DEF Abandon
  <2> QED  BY <1>5, <2>1 DEF server, FileApart
<1>9. TasksTyped'  BY <1>3, <1>5 DEF server, Inv, Typed, TasksTyped
<1>10. DataTyped'
  <2>1. orphans' \subseteq 0 .. issued /\ orphaned' \in BOOLEAN
    BY <1>1, <1>3, CredentialsAreCounted DEF Abandon, Abandoned, Inv, Typed, DataTyped
  <2>2. withdrawn' \in 0 .. issued
    BY <1>1, <1>4, CredentialsAreCounted DEF Inv, Typed, DataTyped
  <2>3. closed' \in [Managers -> BOOLEAN] /\ attached' \in [Managers -> BOOLEAN]
    BY <1>1, <1>4, <1>5 DEF Inv, Typed, DataTyped
  <2> QED  BY <1>5, <2>1, <2>2, <2>3 DEF server, Inv, Typed, DataTyped
<1>11. NoneAlone'  BY <1>3 DEF NoneAlone, Abandon, Inv
<1>12. op_lock[Home(a)] = a /\ at[a] \in {"cancel", "disconnect", "close"}
  BY <1>1 DEF DetachLogin, Inv, Fine, Section
<1>13. \A s \in Tasks : Fine(s)'
  <2>1. Fine(a)'
    BY <1>1, <1>2, <1>5, <1>6, <1>12, Kinds
    DEF Fine, Place, Section, Posting, Starting, AdminPlaces
  <2>2. Fine(l)'
    BY <1>1, <1>6, Kinds DEF Fine, Place, Section, Posting, Starting, LoginPlaces
  <2>3. ASSUME NEW s \in Tasks \ {a, l}  PROVE Fine(s)'
    <3>1. Place(s)' /\ (Section(s) => Section(s)')
      BY ZenonT(60), <1>1, <1>6, <1>7, <2>3, Kinds DEF Inv, Fine, Place, Section, LocksApart
    <3>2. Posting(s)'
      BY <1>5, <1>6, <1>8, <2>3 DEF Inv, Fine, Posting, FileApart, Usable, server
    <3>3. Starting(s)'
      <4> SUFFICES ASSUME s \in Admins, at[s] = "starting"  PROVE ~closed'[Home(s)]
          BY <1>6, <2>3 DEF Starting
      <4>1. op_lock[Home(s)] = s /\ ~closed[Home(s)] /\ Home(s) \in Managers
        BY <2>3, Kinds DEF Inv, Fine, Section, Starting
      <4>2. Home(s) # Home(a)  BY <1>12, <2>3, <4>1
      <4> QED  BY <1>5, <4>1, <4>2 DEF Inv, Typed, DataTyped
    <3> QED  BY <3>1, <3>2, <3>3 DEF Inv, Fine
  <2> QED  BY <2>1, <2>2, <2>3
<1>14. Closing'
  <2> SUFFICES ASSUME NEW m \in Hosts, closed'[m]
               PROVE  /\ ~attached'[m]
                      /\ at'[Login(m)] # "out"
                            => \E b \in Admins : Home(b) = m /\ at'[b] = "joining last"
      BY DEF Closing
  <2>1. CASE m = Home(a)
    <3>1. ~attached'[m]  BY <1>1, <1>4, <2>1 DEF Inv, Typed, DataTyped
    <3>2. Login(m) = l  BY <2>1 DEF l
    <3> SUFFICES ASSUME at[l] # "out"  PROVE at'[a] = "joining last"
        BY <1>1, <1>6, <2>1, <3>1, <3>2
    <3>3. ~closed[m]
      <4> SUFFICES ASSUME closed[m]  PROVE FALSE  OBVIOUS
      <4>1. PICK b \in Admins : Home(b) = m /\ at[b] = "joining last"
        BY <3>2 DEF Inv, Closing
      <4>2. op_lock[m] = b  BY <4>1, Kinds DEF Inv, Fine, Section
      <4> QED  BY <1>12, <2>1, <4>1, <4>2
    <3>4. at[a] = "close"
      BY <1>1, <1>5, <2>1, <3>3 DEF Inv, Typed, DataTyped
    <3> QED  BY <1>2, <1>6, <3>4
  <2>2. CASE m # Home(a)
    <3>1. closed[m] /\ attached'[m] = attached[m]
      BY <1>1, <1>4, <1>5, <2>2, Kinds DEF Inv, Typed, DataTyped
    <3>2. Login(m) # l /\ Login(m) # a /\ Login(m) \in Tasks
      BY <1>1, <2>2, Kinds
    <3>3. at'[Login(m)] = at[Login(m)] /\ ~attached'[m]
      BY <1>6, <3>1, <3>2 DEF Inv, Closing
    <3> SUFFICES ASSUME at[Login(m)] # "out"
                 PROVE  \E b \in Admins : Home(b) = m /\ at'[b] = "joining last"
        BY <3>3
    <3>4. PICK b \in Admins : Home(b) = m /\ at[b] = "joining last"
      BY <3>1 DEF Inv, Closing
    <3> QED  BY <1>1, <1>6, <2>2, <3>4, Kinds
  <2> QED  BY <2>1, <2>2
<1> QED  BY <1>7, <1>9, <1>10, <1>11, <1>13, <1>14 DEF Inv, Typed

\* A thread that nobody awaits, and time: the tasks stay.
LEMMA OrphanLandsKeeps == ASSUME Inv, OrphanLands PROVE Inv'
<1>1. PICK v \in orphans : saved' = v /\ orphans' = orphans \ {v}  BY DEF OrphanLands
<1>2. UNCHANGED <<memory, locks, orphaned, server, at, using, got, history>>
  BY DEF OrphanLands
<1>3. orphaned  BY <1>1 DEF Inv, NoneAlone
<1>4. Typed'
  BY <1>1, <1>2
  DEF memory, locks, server, history, Inv, Typed, LocksTyped, TasksTyped, DataTyped
<1>5. \A s \in Tasks : Fine(s)'
  BY <1>2, <1>3 DEF memory, locks, Inv, Fine, Place, Section, Posting, Starting
<1>6. NoneAlone' /\ Closing'
  BY <1>2, <1>3 DEF memory, NoneAlone, Closing, Inv
<1> QED  BY <1>4, <1>5, <1>6 DEF Inv

LEMMA ExpireKeeps == ASSUME Inv, NEW v \in Tokens, Expire(v) PROVE Inv'
<1>1. Typed'
  BY
  DEF Expire, memory, locks, file, history, Inv, Typed, LocksTyped, TasksTyped,
      DataTyped
<1>2. \A s \in Tasks : Fine(s)'
  BY
  DEF Expire, memory, locks, file, Inv, Fine, Place, Section, Posting, Starting,
      Usable
<1>3. NoneAlone' /\ Closing'
  BY DEF Expire, file, memory, NoneAlone, Closing, Inv
<1> QED  BY <1>1, <1>2, <1>3 DEF Inv

LEMMA InitHolds == Init => Inv
<1> SUFFICES ASSUME Init PROVE Inv  OBVIOUS
<1>1. PICK v \in {0, 1} :
        /\ credentials = [m \in Managers |-> v] /\ saved = v
        /\ issued = v /\ live = 1 .. v
  BY DEF Init
<1>2. Typed
  <2>1. LocksTyped  BY DEF Init, LocksTyped
  <2>2. 0 \in 0 .. v /\ v \in 0 .. v /\ v \in 0 .. MaxTokens /\ 0 \in 0 .. MaxEvents
    BY ConstantsAssumption
  <2>3. TasksTyped  BY <1>1, <2>2 DEF Init, TasksTyped
  <2>4. DataTyped  BY <1>1, <2>2 DEF Init, DataTyped
  <2> QED  BY <2>1, <2>3, <2>4 DEF Typed
<1>3. \A t \in Tasks : at[t] = "out"  BY DEF Init
<1>4. \A t \in Tasks : Fine(t)
  BY <1>3, Kinds
  DEF Fine, Place, Section, Posting, Starting, RequestPlaces, LoginPlaces, AdminPlaces,
      Keeping, Alone
<1>5. NoneAlone  BY DEF Init, NoneAlone
<1>6. Closing  BY <1>3, Kinds DEF Init, Closing
<1> QED  BY <1>2, <1>4, <1>5, <1>6 DEF Inv

LEMMA StutterKeeps == ASSUME Inv, UNCHANGED vars PROVE Inv'
<1> USE DEF vars, memory, locks, file, server, history
<1>1. Typed'  BY DEF Inv, Typed, LocksTyped, TasksTyped, DataTyped
<1>2. \A s \in Tasks : Fine(s)'
  BY DEF Inv, Fine, Place, Section, Posting, Starting, Usable
<1>3. NoneAlone' /\ Closing'  BY DEF NoneAlone, Closing, Inv
<1> QED  BY <1>1, <1>2, <1>3 DEF Inv

LEMMA NextKeeps == ASSUME Inv, [Next]_vars PROVE Inv'
<1>1. CASE \E t \in Requests : Access(t) \/ Done(t) \/ CancelRequest(t)
  BY <1>1, Kinds, AccessKeeps, DoneKeeps, CancelRequestKeeps
<1>2. CASE \E t \in Logins : Granted(t)
  BY <1>2, Kinds, GrantedKeeps
<1>3. CASE \E a \in Admins, what \in Calls : Call(a, what)
  BY <1>3, CallKeeps
<1>4. CASE \E t \in Tasks : Waiting(t)
  BY <1>4, UnauthorizedKeeps, AdoptKeeps, LoginEndsKeeps,
       StartLoginKeeps, LoginStartedKeeps, DetachLoginKeeps,
       DisconnectRefusedKeeps, DisconnectingKeeps
  DEF Waiting
<1>5. CASE \E t \in Tasks : Running(t)
  BY <1>5, ReloadKeeps, LockFileKeeps, FileLockTimesOutKeeps,
       ReadKeeps, PostKeeps, PostFailsKeeps,
       WrittenKeeps, DeletedKeeps, RefreshedKeeps,
       RefusedKeeps, LoginFailsKeeps, LockFileForLoginKeeps,
       UnlockFileKeeps, StartFailsKeeps, JoinedKeeps,
       RevokeKeeps, LockFileForDeleteKeeps, DisconnectFailsKeeps,
       DisconnectedKeeps
  DEF Running, Thread
<1>6. CASE OrphanLands  BY <1>6, OrphanLandsKeeps
<1>7. CASE \E v \in Tokens : Expire(v)  BY <1>7, ExpireKeeps
<1>8. CASE UNCHANGED vars  BY <1>8, StutterKeeps
<1> QED  BY <1>1, <1>2, <1>3, <1>4, <1>5, <1>6, <1>7, <1>8 DEF Next

THEOREM InvHolds == Spec => []Inv
  BY InitHolds, NextKeeps, PTL DEF Spec

\* A refresh token is posted only under the file lock, and only when the file
\* holds nothing newer and fresh, whatever the other processes do, as long as
\* no thread has been left alone with the file (auth.py:424-438).
THEOREM RefreshIsDeduplicatedCorrect == Spec => []RefreshIsDeduplicated
  BY InvHolds, InvOwnsLogins, PTL

\* The locks are held by whoever is in their sections, and once close() has
\* returned there is no login and none can start (auth.py:364).
THEOREM LoginsAreOwnedCorrect == Spec => []LoginsAreOwned
  BY InvHolds, InvOwnsLogins, PTL

=============================================================================
