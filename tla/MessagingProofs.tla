---------------------------- MODULE MessagingProofs ----------------------------
(***************************************************************************)
(* Theorems about the two queues between the workflow and the platform: the *)
(* outgoing messages of messaging/limiter.py, for any messages, updates and *)
(* faults, and the voice notes that wait to be handed on, for any notes,    *)
(* deliveries and commands.                                                 *)
(***************************************************************************)
EXTENDS MessageDelivery, VoiceNotes, TLAPS

-----------------------------------------------------------------------------
(* Outgoing messages: the inductive invariant *)

\* What is queued or shown is of its own key, there is an entry, or a job, for
\* each future that somebody still awaits, and a future is that of an update
\* that was asked for.
Held(u) == u \in job.futures \/ \E k \in Keys : u \in entry[k].futures
Queued ==
    /\ \A k \in Keys : entry[k] # Idle => entry[k].func # 0 /\ key[entry[k].func] = k
    /\ \A k \in Keys : shown[k] # 0 => key[shown[k]] = k
    /\ worker \in {"admission", "sending"} => job.func # 0
    /\ \A u \in Updates : future[u] \in Awaited => Held(u)
    /\ \A u \in Updates : future[u] # "none" => u <= asked

\* What has not been tried again follows all that was sent before it.
Newest ==
    /\ \A k \in Keys : entry[k].func # 0 /\ attempt[entry[k].func] = 0 =>
          /\ Follows(entry[k].func, shown[k])
          /\ job.func # 0 /\ key[job.func] = k => Follows(entry[k].func, job.func)
    /\ job.func # 0 /\ attempt[job.func] = 0 => Follows(job.func, shown[key[job.func]])
    /\ \A u \in Updates : future[u] = "backoff" => attempt[u] > 0
    /\ faults = 0 => \A u \in Updates : attempt[u] = 0

\* The updates that are, or have been, in the queue; the last one of a message.
Entered == (1 .. asked) \ Scheduled
Latest(k) ==
    IF entry[k].func # 0 THEN entry[k].func
    ELSE IF job.func # 0 /\ key[job.func] = k THEN job.func ELSE shown[k]

\* Until something fails each update, or one that follows it, is shown, queued
\* or being sent.
Covered == faults = 0 /\ ~closed => \A u \in Entered : Follows(Latest(key[u]), u)

\* An update whose task has yet to run is nowhere else, and is overtaken by
\* those of its key that were asked for after it and are queued before it.
Order ==
    /\ \A k \in Keys : entry[k].func \notin Scheduled /\ shown[k] \notin Scheduled
    /\ job.func \notin Scheduled
    /\ ~closed => \A v \in Scheduled, u \in Entered :
          v < u /\ key[v] = key[u] => v \in overtook[u]

\* What shutdown() has settled stays settled.
Settled ==
    /\ closed <=> shutting # "no"
    /\ closed => \A u \in Updates : future[u] \notin Awaited
    /\ worker = "done" => closed
    /\ shutting = "done" =>
          worker = "done" /\ \A u \in Updates : future[u] \notin {"scheduled", "backoff"}

Inv == TypeOK /\ Queued /\ Newest /\ Covered /\ Order /\ Settled

-----------------------------------------------------------------------------
(* The queue and its entries *)

Sound ==
    /\ queue \in Seq(Keys)
    /\ \A i, j \in DOMAIN queue : queue[i] = queue[j] => i = j
    /\ \A k \in Keys : InQueue(k) <=> entry[k].func # 0

LEMMA EnqueueSound ==
    ASSUME TypeOK, Queued, NEW u \in Updates, NEW k \in Keys, Enqueue(u, k)
    PROVE  /\ Sound'
           /\ entry'[k] = [func |-> u, futures |-> entry[k].futures \cup {u}]
           /\ \A j \in Keys : j # k => entry'[j] = entry[j]
           /\ entry' = [entry EXCEPT ![k] = entry'[k]]
  <1> USE DEF TypeOK
  <1>0. u # 0  BY BoundsAssumption DEF Updates
  <1>1. CASE InQueue(k)
    <2>1. queue' = queue /\ entry' = [entry EXCEPT ![k] = [func |-> u, futures |-> @.futures \cup {u}]]
      BY <1>1 DEF Enqueue
    <2> QED  BY <1>0, <1>1, <2>1 DEF Sound, InQueue
  <1>2. CASE ~InQueue(k)
    <2>1. queue' = Append(queue, k) /\ entry' = [entry EXCEPT ![k] = [func |-> u, futures |-> {u}]]
      BY <1>2 DEF Enqueue
    <2>2. entry[k] = Idle  BY <1>2 DEF Queued
    <2>3. /\ queue' \in Seq(Keys) /\ Len(queue) \in Nat
          /\ DOMAIN queue = 1 .. Len(queue) /\ DOMAIN queue' = 1 .. Len(queue) + 1
          /\ queue'[Len(queue) + 1] = k /\ \A i \in DOMAIN queue : queue'[i] = queue[i]
      BY <2>1
    <2>4. \A i \in DOMAIN queue' : i \in DOMAIN queue \/ i = Len(queue) + 1  BY <2>3
    <2>5. \A i \in DOMAIN queue : i \in DOMAIN queue'  BY <2>3
    <2>6. Len(queue) + 1 \in DOMAIN queue'  BY <2>3
    <2>7. \A i, j \in DOMAIN queue' : queue'[i] = queue'[j] => i = j
      BY ZenonT(60), <1>2, <2>3, <2>4 DEF InQueue
    <2>8. \A j \in Keys : InQueue(j)' <=> InQueue(j) \/ j = k
      BY <2>3, <2>4, <2>5, <2>6 DEF InQueue
    <2>9. /\ entry'[k] = [func |-> u, futures |-> entry[k].futures \cup {u}]
          /\ \A j \in Keys : j # k => entry'[j] = entry[j]
          /\ entry' = [entry EXCEPT ![k] = entry'[k]]
      BY <2>1, <2>2 DEF Idle
    <2>10. \A j \in Keys : InQueue(j)' <=> entry'[j].func # 0
      <3> SUFFICES ASSUME NEW j \in Keys  PROVE InQueue(j)' <=> entry'[j].func # 0
        OBVIOUS
      <3>1. CASE j = k  BY <1>0, <2>8, <2>9, <3>1
      <3>2. CASE j # k  BY <2>8, <2>9, <3>2
      <3> QED  BY <3>1, <3>2
    <2> QED  BY <2>3, <2>7, <2>9, <2>10 DEF Sound
  <1> QED  BY <1>1, <1>2

LEMMA TakeSound ==
    ASSUME TypeOK, Queued, Take
    PROVE  \E k \in Keys :
              /\ Sound'
              /\ entry[k].func # 0 /\ job' = entry[k]
              /\ entry' = [entry EXCEPT ![k] = Idle]
  <1> USE DEF TypeOK
  <1>1. /\ queue # <<>> /\ queue' = Tail(queue) /\ job' = entry[Head(queue)]
        /\ entry' = [entry EXCEPT ![Head(queue)] = Idle]
    BY DEF Take
  <1>2. /\ Len(queue) \in Nat /\ DOMAIN queue = 1 .. Len(queue) /\ Len(queue) > 0
        /\ queue' \in Seq(Keys) /\ DOMAIN queue' = 1 .. Len(queue) - 1
        /\ \A i \in DOMAIN queue' : queue'[i] = queue[i + 1]
        /\ Head(queue) = queue[1]
    BY <1>1
  <1>3. 1 \in DOMAIN queue /\ queue[1] \in Keys  BY <1>2
  <1> DEFINE k == queue[1]
  <1>4. InQueue(k) /\ entry[k].func # 0
    <2>1. InQueue(k)  BY <1>3 DEF InQueue
    <2> QED  BY <1>3, <2>1
  <1>5. \A i \in DOMAIN queue' : i + 1 \in DOMAIN queue /\ i + 1 # 1  BY SMTT(30), <1>2
  <1>6. ASSUME NEW i \in DOMAIN queue, i # 1
        PROVE  i - 1 \in DOMAIN queue' /\ queue'[i - 1] = queue[i]
    <2>1. i - 1 \in DOMAIN queue' /\ (i - 1) + 1 = i  BY SMTT(30), <1>2, <1>6
    <2> QED  BY <1>2, <2>1
  <1>7. \A i, j \in DOMAIN queue' : queue'[i] = queue'[j] => i = j
    BY <1>2, <1>5
  <1>8. ASSUME NEW j \in Keys  PROVE InQueue(j)' <=> InQueue(j) /\ j # k
    <2>1. ASSUME NEW i \in DOMAIN queue', queue'[i] = j  PROVE InQueue(j) /\ j # k
      <3>1. queue[i + 1] = j /\ i + 1 \in DOMAIN queue /\ i + 1 # 1  BY <1>2, <1>5, <2>1
      <3> QED  BY <1>3, <3>1 DEF InQueue
    <2>2. ASSUME NEW i \in DOMAIN queue, queue[i] = j, j # k  PROVE InQueue(j)'
      <3>1. i # 1  BY <2>2
      <3> QED  BY <1>6, <2>2, <3>1 DEF InQueue
    <2> QED  BY <2>1, <2>2 DEF InQueue
  <1>9. \A j \in Keys : entry'[j].func # 0 <=> entry[j].func # 0 /\ j # k
    BY <1>1, <1>2, <1>3, <1>4 DEF Idle
  <1>10. Sound'  BY <1>2, <1>7, <1>8, <1>9 DEF Sound
  <1> QED  BY <1>1, <1>2, <1>3, <1>4, <1>10

-----------------------------------------------------------------------------
(* Each step keeps the invariant *)

\* What is shown, queued or being sent was in the queue, or is nothing.
LEMMA AllEntered ==
    ASSUME TypeOK, Order
    PROVE  /\ job.func \in Entered \cup {0}
           /\ \A k \in Keys : shown[k] \in Entered \cup {0} /\ entry[k].func \in Entered \cup {0}
           /\ \A v \in Entered \cup {0} : v \in Nat /\ (v # 0 => v \in 1 .. asked /\ v \in Updates)
  <1>1. /\ \A n \in 0 .. asked : n = 0 \/ n \in 1 .. asked
        /\ \A n \in 1 .. asked : n \in Nat /\ n \in Updates
    BY BoundsAssumption DEF TypeOK, Updates
  <1>2. /\ job.func \in 0 .. asked
        /\ \A k \in Keys : shown[k] \in 0 .. asked /\ entry[k].func \in 0 .. asked
    BY DEF TypeOK, Entries
  <1> QED  BY <1>1, <1>2 DEF Order, Entered

\* enqueue(), called by whoever awaits or by a task: an update that follows
\* those of its key that were queued before it, unless it is tried again.
LEMMA EnqueueKeeps ==
    ASSUME Inv, NEW u \in Updates, NEW kind \in Awaited, ~closed, Enqueue(u, key[u]),
           asked' = asked \/ (asked' = asked + 1 /\ u = asked'), u \in 1 .. asked',
           future' = [future EXCEPT ![u] = kind],
           UNCHANGED <<key, attempt, worker, job, paused, closed, shutting, shown, faults>>,
           overtook' \in [Updates -> SUBSET (1 .. asked')],
           \A v \in 1 .. asked : overtook'[v] = overtook[v],
           \/ attempt[u] > 0 /\ faults # 0
           \/ \A v \in Entered : key[v] = key[u] => Follows(u, v),
           \A v \in Scheduled : v < u /\ key[v] = key[u] => v \in overtook'[u]
    PROVE  Inv'
  <1>0. TypeOK /\ Queued /\ Newest /\ Covered /\ Order /\ Settled  BY DEF Inv
  <1>b. PICK k : k = key[u]  OBVIOUS
  <1>1. /\ u \in Nat /\ u # 0 /\ asked \in Nat /\ asked' \in Nat /\ k \in Keys
        /\ 0 .. asked \subseteq 0 .. asked' /\ 1 .. asked \subseteq 1 .. asked'
        /\ \A v \in 1 .. asked' : v = u \/ v \in 1 .. asked
        /\ asked' \in 0 .. MaxUpdates
    BY <1>0, <1>b, BoundsAssumption DEF Updates, TypeOK
  <1>2. /\ Sound' /\ entry'[k] = [func |-> u, futures |-> entry[k].futures \cup {u}]
        /\ (\A j \in Keys : j # k => entry'[j] = entry[j])
        /\ entry' = [entry EXCEPT ![k] = entry'[k]]
    BY <1>0, <1>1, <1>b, EnqueueSound
  <1>3. /\ \A v \in Updates : v # u => future'[v] = future[v]
        /\ future'[u] \in Awaited
    BY <1>0 DEF TypeOK
  <1>4. Scheduled' = Scheduled \ {u}
    BY <1>3 DEF Scheduled, Awaited
  <1>5. Entered' = Entered \cup {u}
    BY <1>1, <1>4 DEF Entered
  <1> DEFINE After(w, v) == w >= v \/ w \in overtook'[v]
  <1>6. \A w \in Nat, v \in Entered \cup {0} : Follows(w, v) => After(w, v)
    <2>1. \A v \in Entered \cup {0} : v = 0 \/ v \in 1 .. asked  BY DEF Entered
    <2>2. \A w \in Nat : w >= 0  OBVIOUS
    <2> QED  BY <2>1, <2>2 DEF Follows
  <1>7. /\ job.func \in Entered \cup {0}
        /\ \A j \in Keys : shown[j] \in Entered \cup {0} /\ entry[j].func \in Entered \cup {0}
        /\ \A v \in Entered \cup {0} : v \in Nat /\ (v # 0 => v \in 1 .. asked /\ v \in Updates)
    BY <1>0, AllEntered
  <1>8. TypeOK'
    <2>1. \A j \in Keys : entry[j] \in Entries'
      BY <1>0, <1>1 DEF TypeOK, Entries
    <2>2. entry'[k] \in Entries'  BY <1>1, <1>2, <2>1 DEF Entries
    <2>3. entry' \in [Keys -> Entries']
      <3>1. entry \in [Keys -> Entries']  BY <1>0, <2>1 DEF TypeOK
      <3> HIDE DEF Entries
      <3> QED  BY <1>1, <1>2, <2>2, <3>1
    <2>4. job' \in Entries'  BY <1>0, <1>1 DEF TypeOK, Entries
    <2>5. shown' \in [Keys -> 0 .. asked']  BY <1>0, <1>1 DEF TypeOK
    <2>6. future' \in [Updates -> FutureStates]
      BY <1>0 DEF TypeOK, FutureStates
    <2> QED  BY <1>0, <1>1, <1>2, <2>3, <2>4, <2>5, <2>6 DEF TypeOK, Sound
  <1>9. Queued'
    <2>1. \A v \in Updates : Held(v) => Held(v)'
      <3>1. \A j \in Keys : entry[j].futures \subseteq entry'[j].futures  BY <1>2
      <3> QED  BY <3>1 DEF Held
    <2>2. Held(u)'
      <3>1. u \in entry'[k].futures  BY <1>2
      <3> QED  BY <1>1, <3>1 DEF Held
    <2>3. \A v \in Updates : future'[v] \in Awaited => Held(v)'
      BY <1>0, <1>3, <2>1, <2>2 DEF Queued
    <2>4. \A v \in Updates : future'[v] # "none" => v <= asked'
      <3>1. \A v \in Updates : v \in Nat /\ (v <= asked => v <= asked')
        BY <1>1, BoundsAssumption DEF Updates
      <3>2. u <= asked'  BY <1>1
      <3> QED  BY <1>0, <1>3, <3>1, <3>2 DEF Queued
    <2>5. ASSUME NEW j \in Keys, entry'[j] # Idle
          PROVE  entry'[j].func # 0 /\ key'[entry'[j].func] = j
      BY <1>0, <1>1, <1>2, <1>b, <2>5 DEF Queued
    <2> QED  BY <1>0, <2>3, <2>4, <2>5 DEF Queued
  <1>10. Newest'
    <2>1. ASSUME NEW j \in Keys, entry'[j].func # 0, attempt[entry'[j].func] = 0
          PROVE  /\ After(entry'[j].func, shown[j])
                 /\ job.func # 0 /\ key[job.func] = j => After(entry'[j].func, job.func)
      <3>1. CASE j # k
        <4>1. entry'[j] = entry[j] /\ entry[j].func \in Nat  BY <1>2, <1>7, <3>1
        <4>2. /\ Follows(entry[j].func, shown[j])
              /\ job.func # 0 /\ key[job.func] = j => Follows(entry[j].func, job.func)
          BY <1>0, <2>1, <4>1 DEF Newest
        <4>3. After(entry[j].func, shown[j])  BY <1>6, <1>7, <4>1, <4>2
        <4>4. job.func # 0 /\ key[job.func] = j => After(entry[j].func, job.func)
          BY <1>6, <1>7, <4>1, <4>2
        <4> QED  BY <4>1, <4>3, <4>4
      <3>2. CASE j = k
        <4>1. entry'[j].func = u /\ attempt[u] = 0  BY <1>2, <2>1, <3>2
        <4>2. \A v \in Entered : key[v] = k => Follows(u, v)  BY <1>b, <4>1
        <4>3. Follows(u, 0)  BY <1>1 DEF Follows
        <4>4. Follows(u, shown[j])
          BY <1>0, <1>7, <3>2, <4>2, <4>3 DEF Queued
        <4>5. job.func # 0 /\ key[job.func] = j => Follows(u, job.func)
          BY <1>7, <3>2, <4>2
        <4>6. After(u, shown[j]) /\ (Follows(u, job.func) => After(u, job.func))
          BY <1>1, <1>6, <1>7, <4>4
        <4> QED  BY <4>1, <4>5, <4>6
      <3> QED  BY <3>1, <3>2
    <2>2. job.func # 0 /\ attempt[job.func] = 0 => After(job.func, shown[key[job.func]])
      <3> SUFFICES ASSUME job.func # 0, attempt[job.func] = 0
                   PROVE  After(job.func, shown[key[job.func]])
        OBVIOUS
      <3>1. Follows(job.func, shown[key[job.func]]) /\ job.func \in Nat /\ job.func \in Updates
        BY <1>0, <1>7 DEF Newest
      <3>2. key[job.func] \in Keys  BY <1>0, <3>1 DEF TypeOK
      <3> QED  BY <1>6, <1>7, <3>1, <3>2
    <2>3. \A v \in Updates : future'[v] = "backoff" => attempt'[v] > 0
      BY <1>0, <1>3 DEF Awaited, Newest
    <2>4. faults' = 0 => \A v \in Updates : attempt'[v] = 0  BY <1>0 DEF Newest
    <2> QED  BY <2>1, <2>2, <2>3, <2>4 DEF Newest, Follows
  <1>11. Covered'
    <2>1. SUFFICES ASSUME faults = 0, NEW v \in Entered'
          PROVE  After(Latest(key[v])', v)
      BY DEF Covered, Follows
    <2>2. u \in Updates /\ v \in Updates /\ v \in Nat /\ (v = u \/ v \in Entered)
      <3>1. 0 \notin Entered  BY DEF Entered
      <3> QED  BY <1>1, <1>5, <1>7, <3>1
    <2>3. key[v] \in Keys  BY <1>0, <2>2 DEF TypeOK
    <2>4. CASE key[v] = k
      <3>1. Latest(k)' = u  BY <1>1, <1>2 DEF Latest
      <3>2. CASE v = u  BY <1>1, <2>4, <3>1, <3>2 DEF Follows
      <3>3. CASE v \in Entered
        <4>1. Follows(u, v)  BY <1>b, <2>1, <2>4, <3>3
        <4>2. After(u, v)  BY <1>1, <1>6, <3>3, <4>1
        <4> QED  BY <2>4, <3>1, <4>2 DEF Follows
      <3> QED  BY <2>2, <3>2, <3>3
    <2>5. CASE key[v] # k
      <3>1. v \in Entered  BY <1>b, <2>2, <2>5
      <3>2. Latest(key[v])' = Latest(key[v]) /\ Latest(key[v]) \in Nat
        BY <1>2, <1>7, <2>3, <2>5 DEF Latest
      <3>3. Follows(Latest(key[v]), v)  BY <1>0, <2>1, <3>1 DEF Covered
      <3> HIDE DEF Latest
      <3>4. PICK w \in Nat : w = Latest(key[v])  BY <3>2
      <3>5. After(w, v)  BY <1>6, <3>1, <3>3, <3>4
      <3> QED  BY <3>2, <3>4, <3>5 DEF Follows
    <2> QED  BY <2>4, <2>5
  <1>12. Order'
    <2>1. ASSUME NEW j \in Keys  PROVE entry'[j].func \notin Scheduled' /\ shown[j] \notin Scheduled'
      BY <1>0, <1>2, <1>4 DEF Order
    <2>2. ASSUME NEW v \in Scheduled', NEW w \in Entered', v < w, key[v] = key[w]
          PROVE  v \in overtook'[w]
      <3>1. v \in Scheduled  BY <1>4
      <3>2. CASE w = u  BY <2>2, <3>1, <3>2
      <3>3. CASE w # u
        <4>1. w \in Entered  BY <1>5, <3>3
        <4>2. w \in 1 .. asked  BY <4>1 DEF Entered
        <4> QED  BY <1>0, <2>2, <3>1, <4>1, <4>2 DEF Order
      <3> QED  BY <3>2, <3>3
    <2>3. job.func \notin Scheduled'  BY <1>0, <1>4 DEF Order
    <2> QED  BY <2>1, <2>2, <2>3 DEF Order
  <1>13. Settled'
    BY <1>0 DEF Settled
  <1> QED  BY <1>8, <1>9, <1>10, <1>11, <1>12, <1>13 DEF Inv

\* The next update is queued at once: it is the latest, and it has overtaken the
\* tasks of its key that have yet to run.
LEMMA AskKeeps == ASSUME Inv, Ask PROVE Inv'
  <1>0. TypeOK /\ Order  BY DEF Inv
  <1> DEFINE u == asked + 1
  <1>1. /\ u \in Updates /\ u \in Nat /\ asked \in Nat /\ asked' = u /\ u \in 1 .. asked'
        /\ u \notin 1 .. asked /\ 1 .. asked \subseteq 1 .. asked'
        /\ \A v \in 1 .. asked : u >= v
    BY <1>0, BoundsAssumption DEF Ask, Updates, TypeOK
  <1>2. /\ ~closed /\ Enqueue(u, key[u]) /\ future' = [future EXCEPT ![u] = "pending"]
        /\ overtook' = [overtook EXCEPT ![u] = {v \in Scheduled : key[v] = key[u]}]
        /\ UNCHANGED <<key, attempt, worker, job, paused, closed, shutting, shown, faults>>
    BY DEF Ask
  <1>3. \A v \in Entered : key[v] = key[u] => Follows(u, v)
    BY <1>1 DEF Entered, Follows
  <1>4. Scheduled \subseteq 1 .. asked
    BY <1>0, BoundsAssumption DEF Inv, Queued, Scheduled, TypeOK, Updates
  <1> HIDE DEF u
  <1>5. overtook' \in [Updates -> SUBSET (1 .. asked')]
    <2>1. overtook \in [Updates -> SUBSET (1 .. asked')]  BY <1>0, <1>1 DEF TypeOK
    <2>2. {v \in Scheduled : key[v] = key[u]} \in SUBSET (1 .. asked')  BY <1>1, <1>4
    <2> QED  BY <1>1, <1>2, <2>1, <2>2
  <1>6. /\ \A v \in 1 .. asked : overtook'[v] = overtook[v]
        /\ overtook'[u] = {v \in Scheduled : key[v] = key[u]}
    BY <1>0, <1>1, <1>2 DEF TypeOK
  <1>7. \A v \in Scheduled : v < u /\ key[v] = key[u] => v \in overtook'[u]
    BY <1>6
  <1>8. "pending" \in Awaited  BY DEF Awaited
  <1> QED  BY <1>1, <1>2, <1>3, <1>5, <1>6, <1>7, <1>8, EnqueueKeeps DEF u

\* A task runs in the order of its creation, or tries again.
LEMMA TaskEnqueuesKeeps == ASSUME Inv, NEW u \in Updates, TaskEnqueues(u) PROVE Inv'
  <1>0. TypeOK /\ Queued /\ Newest /\ Order  BY DEF Inv
  <1>1. /\ ~closed /\ Enqueue(u, key[u]) /\ future' = [future EXCEPT ![u] = "background"]
        /\ UNCHANGED <<key, asked, overtook, attempt, worker, job, paused, closed, shutting, shown,
                       faults>>
    BY DEF TaskEnqueues, requests
  <1>2. future[u] # "none" /\ "background" \in Awaited
    BY DEF TaskEnqueues, Wakes, Scheduled, Awaited
  <1>3. u \in 1 .. asked /\ 1 .. asked \subseteq Nat
    BY <1>0, <1>2, BoundsAssumption DEF Queued, TypeOK, Updates
  <1>4. overtook' \in [Updates -> SUBSET (1 .. asked')]  BY <1>0, <1>1 DEF TypeOK
  <1>5. CASE future[u] = "backoff"
    <2>1. attempt[u] > 0 /\ faults # 0
      BY <1>0, <1>5 DEF Newest
    <2>2. u \in Entered  BY <1>3, <1>5 DEF Entered, Scheduled
    <2>3. \A v \in Scheduled : v < u /\ key[v] = key[u] => v \in overtook'[u]
      BY <1>0, <1>1, <2>2 DEF Order
    <2> QED  BY <1>1, <1>2, <1>3, <1>4, <2>1, <2>3, EnqueueKeeps
  <1>6. CASE u \in Scheduled /\ \A v \in Scheduled : u <= v
    <2>1. ASSUME NEW v \in Entered, key[v] = key[u]  PROVE Follows(u, v)
      <3>1. v \in Nat /\ u \in Nat  BY <1>3 DEF Entered
      <3>2. CASE u >= v  BY <3>2 DEF Follows
      <3>3. CASE u < v  BY <1>0, <1>1, <1>6, <2>1, <3>3 DEF Order, Follows
      <3> QED  BY <3>1, <3>2, <3>3
    <2>2. \A v \in Scheduled : ~(v < u)
      <3>1. \A v \in Scheduled : v \in Nat  BY BoundsAssumption DEF Scheduled, Updates
      <3> QED  BY <1>3, <1>6, <3>1
    <2> QED  BY <1>1, <1>2, <1>3, <1>4, <2>1, <2>2, EnqueueKeeps
  <1> QED  BY <1>5, <1>6 DEF TaskEnqueues, Wakes

\* A call that only creates the task of the next update.
LEMMA FireAndForgetKeeps == ASSUME Inv, FireAndForget PROVE Inv'
  <1> USE DEF queued
  <1>0. TypeOK /\ Queued /\ Newest /\ Covered /\ Order /\ Settled  BY DEF Inv
  <1>a. PICK u : u = asked + 1  OBVIOUS
  <1>1. /\ u \in Updates /\ u \in Nat /\ asked \in Nat /\ asked' = u /\ asked' \in 0 .. MaxUpdates
        /\ 0 .. asked \subseteq 0 .. asked' /\ 1 .. asked \subseteq 1 .. asked'
        /\ u \notin 0 .. asked
        /\ \A v \in 1 .. asked' : v = u \/ v \in 1 .. asked
        /\ \A v \in 1 .. asked : ~(u < v)
        /\ \A v \in Updates : v \in Nat /\ (v <= asked => v <= asked') /\ u <= asked'
    BY <1>0, <1>a, BoundsAssumption DEF FireAndForget, Updates, TypeOK
  <1>2. /\ ~closed /\ future' = [future EXCEPT ![u] = "scheduled"]
        /\ UNCHANGED <<key, overtook, attempt, queue, entry, worker, job, paused, closed, shutting,
                       shown, faults>>
    BY <1>a DEF FireAndForget
  <1>3. /\ \A v \in Updates : v # u => future'[v] = future[v]
        /\ future'[u] = "scheduled"
    BY <1>0, <1>1, <1>2 DEF TypeOK
  <1>4. Scheduled' = Scheduled \cup {u}  BY <1>1, <1>3 DEF Scheduled
  <1>5. Entered' = Entered
    <2>1. u \notin 1 .. asked  BY <1>1
    <2>2. \A v \in 1 .. asked' : v = u \/ v \in 1 .. asked  BY <1>1
    <2> QED  BY <1>1, <1>4, <2>1, <2>2 DEF Entered
  <1>6. TypeOK'
    <2>1. \A e \in Entries : e \in Entries'  BY <1>1 DEF Entries
    <2>2. entry' \in [Keys -> Entries'] /\ job' \in Entries'
      BY <1>0, <1>2, <2>1 DEF TypeOK
    <2>3. shown' \in [Keys -> 0 .. asked']  BY <1>0, <1>1, <1>2 DEF TypeOK
    <2>4. overtook' \in [Updates -> SUBSET (1 .. asked')]  BY <1>0, <1>1, <1>2 DEF TypeOK
    <2>5. future' \in [Updates -> FutureStates]
      BY <1>0, <1>2 DEF TypeOK, FutureStates
    <2> QED  BY <1>0, <1>1, <1>2, <2>2, <2>3, <2>4, <2>5 DEF TypeOK, InQueue
  <1>7. Queued'
    <2>1. \A v \in Updates : Held(v)' = Held(v)  BY <1>2 DEF Held
    <2>2. \A v \in Updates : future'[v] \in Awaited => Held(v)'
      BY <1>0, <1>3, <2>1 DEF Queued, Awaited
    <2>3. \A v \in Updates : future'[v] # "none" => v <= asked'
      BY <1>0, <1>1, <1>3 DEF Queued
    <2> QED  BY <1>0, <1>2, <2>2, <2>3 DEF Queued
  <1>8. Newest'
    <2>1. \A v \in Updates : future'[v] = "backoff" => future[v] = "backoff"  BY <1>3
    <2> QED  BY <1>0, <1>2, <2>1 DEF Newest, Follows
  <1>9. Covered'  BY <1>0, <1>2, <1>5 DEF Covered, Follows, Latest
  <1>10. Order'
    <2>1. ASSUME NEW v \in Scheduled', NEW w \in Entered', v < w, key[v] = key[w]
          PROVE  v \in overtook[w]
      <3>1. w \in Entered /\ w \in 1 .. asked  BY <1>5 DEF Entered
      <3>2. v # u  BY <1>1, <2>1, <3>1
      <3> QED  BY <1>0, <1>2, <1>4, <2>1, <3>1, <3>2 DEF Order
    <2>2. /\ job.func # u
          /\ \A k \in Keys : entry[k].func # u /\ shown[k] # u
      BY <1>0, <1>1 DEF TypeOK, Entries
    <2> QED  BY <1>0, <1>2, <1>4, <2>1, <2>2 DEF Order
  <1>11. Settled'
    BY <1>0, <1>2 DEF Settled
  <1> QED  BY <1>6, <1>7, <1>8, <1>9, <1>10, <1>11 DEF Inv

LEMMA EntriesOfUpdates ==
    ASSUME TypeOK
    PROVE  /\ job.futures \subseteq Updates
           /\ \A k \in Keys : entry[k].futures \subseteq Updates
           /\ \A k \in Keys : entry[k].func # 0 => entry[k].func \in Updates /\ entry[k].func \in Nat
           /\ job.func # 0 => job.func \in Updates /\ job.func \in Nat
  <1>1. /\ 1 .. asked \subseteq Updates
        /\ \A n \in 0 .. asked : n # 0 => n \in Updates /\ n \in Nat
    BY BoundsAssumption DEF TypeOK, Updates
  <1>2. ASSUME NEW e \in Entries
        PROVE  e.futures \subseteq Updates /\ (e.func # 0 => e.func \in Updates /\ e.func \in Nat)
    BY <1>1, <1>2 DEF Entries
  <1>3. job \in Entries /\ \A k \in Keys : entry[k] \in Entries  BY DEF TypeOK
  <1> QED  BY <1>2, <1>3

\* A job that ends, however it ends, leaves none of its futures awaited.
Ends(u) ==
    /\ future'[u] = future[u] \/ (u \in job.futures /\ future[u] \in Awaited)
    /\ u \in job.futures => future'[u] \notin Awaited
    /\ future'[u] = "backoff" => future[u] = "backoff" \/ (attempt'[u] > 0 /\ ~closed)
    /\ future'[u] # "none" => future[u] # "none"
    /\ future'[u] = "scheduled" <=> future[u] = "scheduled"
    /\ attempt'[u] = attempt[u] \/ (attempt'[u] = attempt[u] + 1 /\ faults' # 0)
Sends == worker = "sending" /\ shown' = [shown EXCEPT ![key[job.func]] = job.func]

LEMMA JobKeeps ==
    ASSUME Inv, TypeOK', UNCHANGED <<key, asked, overtook, queue, entry, closed, shutting>>, job' = Idle,
           worker' = "waiting" \/ (worker' = "done" /\ closed),
           shutting # "done",
           \A u \in Updates : Ends(u),
           faults' >= faults,
           Sends \/ shown' = shown,
           Sends \/ faults' # 0 \/ closed
    PROVE  Inv'
  <1>0. TypeOK /\ Queued /\ Newest /\ Covered /\ Order /\ Settled /\ (faults' = 0 => faults = 0)
    BY DEF Inv, TypeOK
  <1>2. \A u \in Updates : attempt'[u] = 0 => attempt[u] = 0
    BY <1>0 DEF Ends, TypeOK
  <1>8. Scheduled' = Scheduled /\ Entered' = Entered
    BY DEF Ends, Scheduled, Entered
  <1>3. \A k \in Keys : entry[k].func # 0 => entry[k].func \in Updates /\ entry[k].func \in Nat
    BY <1>0, EntriesOfUpdates
  <1>4. Sends => job.func \in Updates /\ job.func \in Nat /\ key[job.func] \in Keys
                 /\ shown'[key[job.func]] = job.func
                 /\ \A k \in Keys : k # key[job.func] => shown'[k] = shown[k]
    <2>1. Sends => job.func \in Updates /\ job.func \in Nat
      BY <1>0, EntriesOfUpdates DEF Queued, Sends
    <2> QED  BY <1>0, <2>1 DEF Sends, TypeOK
  <1>1. Queued'
    <2>1. \A u \in Updates : future'[u] \in Awaited => future[u] \in Awaited /\ u \notin job.futures
      BY DEF Ends
    <2>2. \A u \in Updates : future'[u] \in Awaited => Held(u)'
      BY <1>0, <2>1 DEF Queued, Held
    <2>3. \A u \in Updates : future'[u] # "none" => u <= asked'
      BY <1>0 DEF Queued, Ends
    <2>4. \A k \in Keys : shown'[k] # 0 => key[shown'[k]] = k
      BY <1>0, <1>4 DEF Queued
    <2> QED  BY <1>0, <2>2, <2>3, <2>4 DEF Queued, Idle
  <1>5. Newest'
    <2>1. ASSUME NEW k \in Keys, entry'[k].func # 0, attempt'[entry'[k].func] = 0
          PROVE  Follows(entry[k].func, shown'[k])
      <3>1. entry[k].func \in Updates /\ attempt[entry[k].func] = 0  BY <1>2, <1>3, <2>1
      <3>2. Follows(entry[k].func, shown[k])
            /\ (job.func # 0 /\ key[job.func] = k => Follows(entry[k].func, job.func))
        BY <1>0, <2>1, <3>1 DEF Newest
      <3>3. CASE shown' = shown  BY <3>2, <3>3
      <3>4. CASE Sends /\ k # key[job.func]  BY <1>4, <3>2, <3>4
      <3>5. CASE Sends /\ k = key[job.func]
        <4>1. job.func # 0  BY <1>0, <3>5 DEF Sends, Queued
        <4> QED  BY <1>4, <3>2, <3>5, <4>1
      <3> QED  BY <3>3, <3>4, <3>5
    <2>2. job'.func = 0  BY DEF Idle
    <2>3. \A u \in Updates : future'[u] = "backoff" => attempt'[u] > 0
      <3>1. \A u \in Updates : attempt[u] \in Nat
        <4>1. attempt \in [Updates -> 0 .. MaxRetries]  BY <1>0 DEF TypeOK
        <4> QED  BY <4>1 DEF MaxRetries
      <3>2. \A u \in Updates : attempt[u] > 0 => attempt'[u] > 0  BY <3>1 DEF Ends
      <3> QED  BY <1>0, <3>2 DEF Newest, Ends
    <2>4. faults' = 0 => \A u \in Updates : attempt'[u] = 0
      BY <1>0 DEF Newest, Ends
    <2> QED  BY <2>1, <2>2, <2>3, <2>4 DEF Newest, Follows
  <1>6. Covered'
    <2>1. SUFFICES ASSUME faults' = 0, ~closed, NEW u \in Entered'
          PROVE  Follows(Latest(key[u]), u)'
      BY DEF Covered
    <2>2. Sends /\ u \in Entered /\ Follows(Latest(key[u]), u)
      BY <1>0, <1>8, <2>1 DEF Covered
    <2>3. key[u] \in Keys  BY <1>0, <2>2, BoundsAssumption DEF Entered, TypeOK, Updates
    <2>4. Latest(key[u])' = Latest(key[u])
      <3>1. job.func # 0  BY <1>0, <2>2 DEF Sends, Queued
      <3> QED  BY <1>4, <2>2, <2>3, <3>1 DEF Latest, Idle
    <2> QED  BY <2>2, <2>4 DEF Follows
  <1>7. Settled'  BY <1>0 DEF Settled, Ends
  <1>9. Order'
    <2>1. job.func \notin Scheduled' /\ 0 \notin Scheduled'
      BY <1>0, <1>8, BoundsAssumption DEF Order, Scheduled, Updates
    <2>2. \A k \in Keys : shown'[k] = shown[k] \/ shown'[k] = job.func
      BY <1>4
    <2> QED  BY <1>0, <1>8, <2>1, <2>2 DEF Order, Idle
  <1> QED  BY <1>1, <1>5, <1>6, <1>7, <1>9 DEF Inv

\* The futures of a job are settled as one.
LEMMA SettleEnds ==
    ASSUME TypeOK, NEW how \in {"ok", "failed", "cancelled"}, Settle(job.futures, how),
           attempt' = attempt
    PROVE  /\ \A u \in Updates : Ends(u)
           /\ future' \in [Updates -> FutureStates]
  BY DEF Settle, Ends, TypeOK, Awaited, FutureStates

\* What a job may leave on the platform is an update that was asked for.
LEMMA ShownType ==
    ASSUME TypeOK, Queued, UNCHANGED <<key, asked, overtook>>, Sends \/ shown' = shown
    PROVE  shown' \in [Keys -> 0 .. asked']
  <1>1. CASE Sends
    <2>1. job.func \in 0 .. asked  BY DEF TypeOK, Entries
    <2> QED  BY <1>1, <2>1 DEF Sends, TypeOK
  <1> QED  BY <1>1 DEF TypeOK

LEMMA IdleIsEntry == TypeOK => Idle \in Entries
  BY DEF Idle, Entries, TypeOK

LEMMA ResultKeeps ==
    ASSUME Inv, Deliver \/ OperationCancelled \/ OperationFails
    PROVE  Inv'
  <1> USE DEF Finish, requests, queued
  <1>0. TypeOK /\ Queued  BY DEF Inv
  <1>1. PICK how \in {"ok", "failed", "cancelled"} : Settle(job.futures, how)
    BY DEF Deliver, OperationCancelled, OperationFails
  <1>2. /\ UNCHANGED <<key, asked, overtook, queue, entry, closed, shutting, attempt>>
        /\ job' = Idle /\ worker' = "waiting" /\ worker = "sending"
        /\ paused' \in BOOLEAN
    BY <1>0 DEF Deliver, OperationCancelled, OperationFails, TypeOK
  <1>3. Sends \/ shown' = shown
    BY DEF Deliver, OperationCancelled, OperationFails, Sends
  <1>4. faults' \in 0 .. MaxFaults /\ faults' >= faults /\ (Sends \/ faults' # 0)
    BY <1>0, <1>2, BoundsAssumption DEF Deliver, OperationCancelled, OperationFails, Fault, Sends,
       TypeOK
  <1>5. /\ \A u \in Updates : Ends(u)
        /\ future' \in [Updates -> FutureStates]
    BY <1>0, <1>1, <1>2, SettleEnds
  <1>6. shown' \in [Keys -> 0 .. asked']  BY <1>0, <1>2, <1>3, ShownType
  <1>7. TypeOK'
    <2>1. Entries' = Entries /\ Idle \in Entries  BY <1>0, <1>2, IdleIsEntry DEF Entries
    <2> QED  BY <1>0, <1>2, <1>4, <1>5, <1>6, <2>1 DEF TypeOK, InQueue
  <1>8. shutting # "done"  BY <1>2 DEF Inv, Settled
  <1> QED  BY <1>2, <1>3, <1>4, <1>5, <1>7, <1>8, JobKeeps

LEMMA ConnectionFailsKeeps == ASSUME Inv, ConnectionFails PROVE Inv'
  <1> DEFINE again == {u \in job.futures : future[u] = "background" /\ attempt[u] < MaxRetries}
  <1> USE DEF requests, queued
  <1>0. TypeOK /\ Queued  BY DEF Inv
  <1>1. /\ UNCHANGED <<key, asked, overtook, queue, entry, closed, shutting, paused>>
        /\ job' = Idle /\ worker' = "waiting" /\ worker = "sending"
    BY DEF ConnectionFails
  <1>2. faults' \in 0 .. MaxFaults /\ faults' >= faults /\ faults' # 0
    BY <1>0, BoundsAssumption DEF ConnectionFails, Fault, TypeOK
  <1>3. /\ future' = [u \in Updates |->
                IF u \in again THEN "backoff"
                ELSE IF u \in job.futures /\ future[u] \in Awaited THEN "failed" ELSE future[u]]
        /\ attempt' = [u \in Updates |-> IF u \in again THEN attempt[u] + 1 ELSE attempt[u]]
    BY DEF ConnectionFails
  <1>4. Sends \/ shown' = shown  BY <1>1 DEF ConnectionFails, Sends
  <1>5. \A u \in again : ~closed  BY <1>0, EntriesOfUpdates DEF Inv, Settled, Awaited
  <1>6. /\ \A u \in Updates : Ends(u)
        /\ future' \in [Updates -> FutureStates]
        /\ attempt' \in [Updates -> 0 .. MaxRetries]
    <2>1. \A u \in Updates : attempt[u] \in 0 .. 2  BY <1>0 DEF TypeOK, MaxRetries
    <2>2. \A u \in again : u \in job.futures /\ future[u] \in Awaited /\ attempt[u] < 2
      BY DEF Awaited, MaxRetries
    <2>3. attempt' \in [Updates -> 0 .. MaxRetries]  BY <1>3, <2>1, <2>2 DEF MaxRetries
    <2>4. future' \in [Updates -> FutureStates]
      BY <1>0, <1>3 DEF TypeOK, FutureStates
    <2>5. ASSUME NEW u \in Updates  PROVE Ends(u)
      <3> HIDE DEF again
      <3>1. CASE u \in again
        <4>1. future'[u] = "backoff" /\ attempt'[u] = attempt[u] + 1  BY <1>3, <3>1
        <4>2. attempt'[u] > 0  BY <2>1, <4>1
        <4> QED  BY <1>2, <1>5, <2>2, <3>1, <4>1, <4>2 DEF Ends, Awaited
      <3>2. CASE u \notin again
        <4>1. attempt'[u] = attempt[u]
              /\ future'[u] = IF u \in job.futures /\ future[u] \in Awaited THEN "failed" ELSE future[u]
          BY <1>3, <3>2
        <4> QED  BY <4>1 DEF Ends, Awaited
      <3> QED  BY <3>1, <3>2
    <2> QED  BY <2>3, <2>4, <2>5
  <1>7. shown' \in [Keys -> 0 .. asked']  BY <1>0, <1>1, <1>4, ShownType
  <1>8. TypeOK'
    <2>1. Entries' = Entries /\ Idle \in Entries  BY <1>0, <1>1, IdleIsEntry DEF Entries
    <2> QED  BY <1>0, <1>1, <1>2, <1>6, <1>7, <2>1 DEF TypeOK, InQueue
  <1>9. shutting # "done"  BY <1>1 DEF Inv, Settled
  <1> HIDE DEF again
  <1> QED  BY <1>1, <1>2, <1>4, <1>6, <1>8, <1>9, JobKeeps

LEMMA WorkerStopsKeeps == ASSUME Inv, WorkerStops PROVE Inv'
  <1> USE DEF requests, queued
  <1>0. TypeOK /\ Queued  BY DEF Inv
  <1>1. /\ UNCHANGED <<key, asked, overtook, queue, entry, closed, shutting, paused, attempt, faults>>
        /\ job' = Idle /\ worker' = "done" /\ worker # "done" /\ Settle(job.futures, "cancelled")
    BY DEF WorkerStops
  <1>2. Sends \/ shown' = shown  BY DEF WorkerStops, Sends
  <1>3. closed /\ shutting # "done"  BY <1>1 DEF WorkerStops, Inv, Settled
  <1>4. /\ \A u \in Updates : Ends(u)
        /\ future' \in [Updates -> FutureStates]
    BY <1>0, <1>1, SettleEnds
  <1>5. shown' \in [Keys -> 0 .. asked']  BY <1>0, <1>1, <1>2, ShownType
  <1>6. TypeOK'
    <2>1. Entries' = Entries /\ Idle \in Entries  BY <1>0, <1>1, IdleIsEntry DEF Entries
    <2> QED  BY <1>0, <1>1, <1>4, <1>5, <2>1 DEF TypeOK, InQueue
  <1>7. faults' >= faults  BY <1>0, <1>1, BoundsAssumption DEF TypeOK
  <1> QED  BY <1>1, <1>2, <1>3, <1>4, <1>6, <1>7, JobKeeps

LEMMA TakeKeeps == ASSUME Inv, Take PROVE Inv'
  <1> USE DEF requests
  <1>0. TypeOK /\ Queued /\ Newest /\ Covered /\ Order /\ Settled  BY DEF Inv
  <1>1. PICK k \in Keys :
           /\ Sound'
           /\ entry[k].func # 0 /\ job' = entry[k]
           /\ entry' = [entry EXCEPT ![k] = Idle]
    BY <1>0, TakeSound
  <1>2. /\ UNCHANGED <<key, asked, overtook, future, attempt, paused, closed, shutting, shown, faults>>
        /\ worker = "waiting" /\ worker' = "admission" /\ job = Idle
    BY <1>0 DEF Take, TypeOK
  <1>3. /\ entry'[k] = Idle /\ \A j \in Keys : j # k => entry'[j] = entry[j]
        /\ key[entry[k].func] = k
    BY <1>0, <1>1 DEF TypeOK, Queued, Idle
  <1>4. TypeOK'
    <2>1. Entries' = Entries /\ Idle \in Entries  BY <1>0, <1>2, IdleIsEntry DEF Entries
    <2>2. entry' \in [Keys -> Entries]' /\ job' \in Entries'  BY <1>0, <1>1, <2>1 DEF TypeOK
    <2>3. job' # Idle  BY <1>1 DEF Idle
    <2> QED  BY <1>0, <1>1, <1>2, <2>2, <2>3 DEF TypeOK, Sound
  <1>5. Queued'
    <2>1. ASSUME NEW u \in Updates, Held(u)  PROVE Held(u)'
      <3>1. \A j \in Keys : u \in entry[j].futures => u \in job'.futures \/ u \in entry'[j].futures
        BY <1>1, <1>3
      <3> QED  BY <1>2, <2>1, <3>1 DEF Held, Idle
    <2> QED  BY <1>0, <1>1, <1>2, <1>3, <2>1 DEF Queued
  <1>6. Newest'
    <2>1. job'.func # 0 /\ attempt'[job'.func] = 0 => Follows(job'.func, shown'[key'[job'.func]])
      BY <1>0, <1>1, <1>2, <1>3 DEF Newest
    <2>2. ASSUME NEW j \in Keys, entry'[j].func # 0
          PROVE  j # k /\ entry'[j] = entry[j]
      BY <1>3, <2>2 DEF Idle
    <2> QED  BY <1>0, <1>1, <1>2, <1>3, <2>1, <2>2 DEF Newest, Follows
  <1>7. Covered'
    <2>1. \A j \in Keys : Latest(j)' = Latest(j)
      <3> SUFFICES ASSUME NEW j \in Keys  PROVE Latest(j)' = Latest(j)
        OBVIOUS
      <3>1. job.func = 0  BY <1>2 DEF Idle
      <3>2. CASE j = k  BY <1>1, <1>2, <1>3, <3>1, <3>2 DEF Latest, Idle
      <3>3. CASE j # k  BY <1>1, <1>2, <1>3, <3>1, <3>3 DEF Latest
      <3> QED  BY <3>2, <3>3
    <2>2. \A u \in Entered : key[u] \in Keys
      BY <1>0, BoundsAssumption DEF Entered, TypeOK, Updates
    <2>3. Entered' = Entered  BY <1>2 DEF Entered, Scheduled
    <2> HIDE DEF Latest
    <2> QED  BY <1>0, <1>2, <2>1, <2>2, <2>3 DEF Covered, Follows
  <1>8. Settled'  BY <1>0, <1>2 DEF Settled
  <1>9. Order'
    <2>1. Scheduled' = Scheduled /\ Entered' = Entered  BY <1>2 DEF Entered, Scheduled
    <2>2. Idle.func \notin Scheduled
      BY BoundsAssumption DEF Idle, Scheduled, Updates
    <2>3. \A j \in Keys : entry'[j].func \notin Scheduled  BY <1>0, <1>3, <2>2 DEF Order
    <2> QED  BY <1>0, <1>1, <1>2, <2>1, <2>3 DEF Order
  <1> QED  BY <1>4, <1>5, <1>6, <1>7, <1>8, <1>9 DEF Inv

\* Steps that leave the queue, the job and the platform alone.
LEMMA FutureKeeps ==
    ASSUME Inv, UNCHANGED <<key, asked, overtook, attempt, queue, entry, job, shown, faults, closed>>,
           paused' \in BOOLEAN, shutting' \in {"no", "joining", "done"},
           closed <=> shutting' # "no",
           worker' = worker \/ (worker = "admission" /\ worker' = "sending"),
           future' \in [Updates -> FutureStates],
           \A u \in Updates : future'[u] = future[u] \/
              (future[u] # "none" /\ future'[u] \in {"cancelled", "failed"}),
           \A u \in Updates : future[u] = "scheduled" => closed \/ future'[u] = "scheduled",
           shutting' = "done" =>
              worker' = "done" /\ \A u \in Updates : future'[u] \notin {"scheduled", "backoff"}
    PROVE  Inv'
  <1>0. TypeOK /\ Queued /\ Newest /\ Covered /\ Order /\ Settled  BY DEF Inv
  <1>1. TypeOK'
    <2>1. Entries' = Entries  BY DEF Entries
    <2>2. job' # Idle <=> worker' \in {"admission", "sending"}  BY <1>0 DEF TypeOK
    <2> QED  BY <1>0, <2>1, <2>2 DEF TypeOK, InQueue
  <1>2. Queued'
    <2>1. \A u \in Updates : Held(u)' = Held(u)  BY DEF Held
    <2>2. worker' \in {"admission", "sending"} => job'.func # 0  BY <1>0 DEF Queued
    <2>3. \A u \in Updates : future'[u] \in Awaited => Held(u)'
      BY <1>0, <2>1 DEF Queued, Awaited
    <2> QED  BY <1>0, <2>2, <2>3 DEF Queued
  <1>3. Newest'  BY <1>0 DEF Newest, Follows
  <1>4. Settled'  BY <1>0 DEF Settled, Awaited
  <1>5. Scheduled' \subseteq Scheduled /\ (~closed => Scheduled' = Scheduled)
    BY DEF Scheduled
  <1>6. Covered'
    <2>1. ~closed => Entered' = Entered  BY <1>5 DEF Entered
    <2> QED  BY <1>0, <2>1 DEF Covered, Follows, Latest
  <1>7. Order'
    <2>1. ~closed => Entered' = Entered  BY <1>5 DEF Entered
    <2> QED  BY <1>0, <1>5, <2>1 DEF Order
  <1> QED  BY <1>1, <1>2, <1>3, <1>4, <1>6, <1>7 DEF Inv

LEMMA OtherKeeps ==
    ASSUME Inv, Admit \/ Joined \/ \E u \in Updates : CallerLeaves(u) \/ TaskRefused(u)
    PROVE  Inv'
  <1> USE DEF requests, queued
  <1>0. TypeOK /\ Settled  BY DEF Inv
  <1>1. CASE Admit
    <2>1. /\ UNCHANGED <<key, asked, overtook, attempt, queue, entry, job, shown, faults, closed, future, shutting>>
          /\ paused' = FALSE /\ worker = "admission" /\ worker' = "sending"
      BY <1>1 DEF Admit
    <2> QED  BY <1>0, <2>1, FutureKeeps DEF TypeOK, Settled
  <1>2. CASE Joined
    <2>1. /\ UNCHANGED <<key, asked, overtook, attempt, queue, entry, job, shown, faults, closed, paused, worker>>
          /\ future' = [u \in Updates |->
                IF future[u] \in {"scheduled", "backoff"} THEN "cancelled" ELSE future[u]]
          /\ shutting = "joining" /\ shutting' = "done" /\ worker = "done"
      BY <1>2 DEF Joined
    <2>2. future' \in [Updates -> FutureStates]
          /\ paused' \in BOOLEAN /\ closed
      BY <1>0, <2>1 DEF TypeOK, FutureStates, Settled
    <2> QED  BY <2>1, <2>2, FutureKeeps
  <1>3. ASSUME NEW u \in Updates, CallerLeaves(u) \/ TaskRefused(u)  PROVE Inv'
    <2>1. /\ UNCHANGED <<key, asked, overtook, attempt, queue, entry, job, shown, faults, closed, paused, worker, shutting>>
          /\ paused' \in BOOLEAN /\ shutting \in {"no", "joining", "done"}
          /\ closed <=> shutting # "no"
      BY <1>0, <1>3 DEF CallerLeaves, TaskRefused, TypeOK, Settled
    <2>2. /\ future' \in [Updates -> FutureStates]
          /\ \A v \in Updates : future'[v] = future[v] \/
                (future[v] # "none" /\ future'[v] \in {"cancelled", "failed"})
          /\ \A v \in Updates : future[v] = "scheduled" => closed \/ future'[v] = "scheduled"
      <3>1. CASE CallerLeaves(u)
        BY SMTT(30), <1>0, <3>1 DEF CallerLeaves, Settle, Awaited, TypeOK, FutureStates
      <3>2. CASE TaskRefused(u)
        BY SMTT(30), <1>0, <3>2 DEF TaskRefused, Wakes, Scheduled, TypeOK, FutureStates
      <3> QED  BY <1>3, <3>1, <3>2
    <2>3. shutting = "done" =>
             worker = "done" /\ \A v \in Updates : future'[v] \notin {"scheduled", "backoff"}
      BY <1>0, <2>2 DEF Settled
    <2> QED  BY <2>1, <2>2, <2>3, FutureKeeps
  <1> QED  BY <1>1, <1>2, <1>3

LEMMA ShutdownKeeps == ASSUME Inv, Shutdown PROVE Inv'
  <1> USE DEF requests
  <1>0. TypeOK /\ Queued /\ Newest /\ Order /\ Settled  BY DEF Inv
  <1>1. /\ UNCHANGED <<key, asked, overtook, attempt, worker, job, paused, shown, faults>>
        /\ shutting = "no" /\ shutting' = "joining" /\ closed' = TRUE
        /\ queue' = <<>> /\ entry' = [k \in Keys |-> Idle]
        /\ Settle(AllQueued \cup job.futures, "cancelled")
    BY DEF Shutdown
  <1>2. \A u \in Updates : future'[u] \notin Awaited
    <2>1. ASSUME NEW u \in Updates, future[u] \in Awaited  PROVE u \in AllQueued \cup job.futures
      BY <1>0, <2>1 DEF Queued, Held, AllQueued
    <2> QED  BY <1>1, <2>1 DEF Settle, Awaited
  <1>3. /\ future' \in [Updates -> FutureStates]
        /\ \A u \in Updates : future'[u] = "backoff" => future[u] = "backoff"
        /\ \A u \in Updates : future'[u] # "none" => future[u] # "none"
        /\ \A u \in Updates : future'[u] = "scheduled" => future[u] = "scheduled"
    BY <1>0, <1>1 DEF Settle, TypeOK, Awaited, FutureStates
  <1>4. TypeOK'
    <2>1. Entries' = Entries /\ Idle \in Entries  BY <1>0, <1>1, IdleIsEntry DEF Entries
    <2>2. /\ queue' \in Seq(Keys) /\ DOMAIN queue' = {}
          /\ entry' \in [Keys -> Entries] /\ \A k \in Keys : entry'[k].func = 0
      BY <1>1, <2>1 DEF Idle
    <2> QED  BY <1>0, <1>1, <1>3, <2>1, <2>2 DEF TypeOK, InQueue
  <1>5. Queued'
    <2>1. \A u \in Updates : future'[u] # "none" => u <= asked'  BY <1>0, <1>1, <1>3 DEF Queued
    <2> QED  BY <1>0, <1>1, <1>2, <2>1 DEF Queued
  <1>6. Newest'
    <2>1. \A k \in Keys : entry'[k].func = 0  BY <1>1 DEF Idle
    <2> QED  BY <1>0, <1>1, <1>3, <2>1 DEF Newest, Follows
  <1>7. Covered'  BY <1>1 DEF Covered
  <1>8. Settled'  BY <1>0, <1>1, <1>2 DEF Settled, TypeOK
  <1>9. Order'
    <2>1. Scheduled' \subseteq Scheduled  BY <1>3 DEF Scheduled
    <2>2. \A k \in Keys : entry'[k].func \notin Scheduled
      BY <1>1, BoundsAssumption DEF Idle, Scheduled, Updates
    <2> QED  BY <1>0, <1>1, <2>1, <2>2 DEF Order
  <1> QED  BY <1>4, <1>5, <1>6, <1>7, <1>8, <1>9 DEF Inv

LEMMA DeliveryInit == Init => Inv
  <1> SUFFICES ASSUME Init  PROVE Inv
    OBVIOUS
  <1>1. TypeOK
    <2>1. asked = 0 /\ asked \in 0 .. MaxUpdates /\ faults \in 0 .. MaxFaults
      BY BoundsAssumption DEF Init
    <2>2. Idle \in Entries  BY <2>1 DEF Idle, Entries
    <2>3. /\ queue \in Seq(Keys) /\ DOMAIN queue = {}
          /\ entry \in [Keys -> Entries] /\ \A k \in Keys : entry[k].func = 0
      BY <2>2 DEF Init, Idle
    <2>4. attempt \in [Updates -> 0 .. MaxRetries]  BY DEF Init, MaxRetries
    <2>5. shown \in [Keys -> 0 .. asked]  BY <2>1 DEF Init
    <2>6. future \in [Updates -> FutureStates]
      BY DEF Init, FutureStates
    <2>7. /\ \A i, j \in DOMAIN queue : queue[i] = queue[j] => i = j
          /\ \A k \in Keys : InQueue(k) <=> entry[k].func # 0
      BY <2>3 DEF InQueue
    <2>8. job \in Entries /\ (job # Idle <=> worker \in {"admission", "sending"})
      BY <2>2 DEF Init
    <2> QED  BY <2>1, <2>3, <2>4, <2>5, <2>6, <2>7, <2>8 DEF Init, TypeOK
  <1>2. Queued  BY DEF Init, Queued, Idle, Awaited
  <1>3. Newest  BY DEF Init, Newest, Idle
  <1>4. Entered = {}  BY DEF Init, Entered
  <1>5. Covered  BY <1>4 DEF Covered
  <1>6. Order
    <2>1. Scheduled = {}  BY DEF Init, Scheduled
    <2> QED  BY <2>1 DEF Order
  <1>7. Settled  BY DEF Init, Settled, Awaited
  <1> QED  BY <1>1, <1>2, <1>3, <1>5, <1>6, <1>7 DEF Inv

LEMMA DeliveryStep == Inv /\ [Next]_vars => Inv'
  <1> SUFFICES ASSUME Inv, [Next]_vars  PROVE Inv'
    OBVIOUS
  <1>1. CASE UNCHANGED vars
    <2>1. UNCHANGED <<key, asked, overtook, attempt, queue, entry, job, shown, faults, closed, paused, shutting,
                      worker, future>>
      BY <1>1 DEF vars, requests, queued
    <2> QED  BY <2>1, FutureKeeps DEF Inv, TypeOK, Settled
  <1> QED
    BY <1>1, AskKeeps, FireAndForgetKeeps, TaskEnqueuesKeeps, TakeKeeps, ResultKeeps, ConnectionFailsKeeps, WorkerStopsKeeps,
       OtherKeeps, ShutdownKeeps DEF Next, Work

LEMMA DeliveryInvariant == Spec => []Inv
  <1> QED  BY DeliveryInit, DeliveryStep, PTL DEF Spec

-----------------------------------------------------------------------------
(* Outgoing messages: the theorems *)

\* limiter.py:244-263: whatever is asked for while its key is taken, sent or
\* compacted, the queue and its map agree, and until something fails no update
\* that was queued is lost: when the queue is idle its message shows it or one
\* that was asked for later, or that had overtaken its task.
THEOREM QueueIsSoundCorrect == Spec => []QueueIsSound
  <1>1. Inv => QueueIsSound
    <2> SUFFICES ASSUME Inv, faults = 0, ~closed, worker = "waiting", queue = <<>>,
                        NEW u \in (1 .. asked) \ Scheduled
                 PROVE  Follows(shown[key[u]], u)
      BY DEF Inv, QueueIsSound, LastUpdateShown
    <2>1. u \in Updates /\ key[u] \in Keys /\ u \in Entered
      BY BoundsAssumption DEF Inv, TypeOK, Updates, Entered
    <2>2. entry[key[u]].func = 0  BY <2>1 DEF Inv, TypeOK, InQueue
    <2>3. job.func = 0  BY DEF Inv, TypeOK, Idle
    <2> QED  BY <2>1, <2>2, <2>3 DEF Inv, Covered, Latest
  <1> QED  BY <1>1, DeliveryInvariant, PTL

\* limiter.py:297, 334: a message goes back to an older update only by a task of
\* fire_and_forget: one that tries again, or that the newer update overtook.
THEOREM OlderReturnsByTaskCorrect == Spec => OlderReturnsByTask
  <1>1. ASSUME Inv, [Next]_vars, NEW k \in Keys, shown'[k] < shown[k]
        PROVE  attempt[shown'[k]] > 0 \/ shown'[k] \in overtook[shown[k]]
    <2>1. TypeOK /\ Queued /\ Newest  BY <1>1 DEF Inv
    <2>2. \A j \in Keys : shown[j] \in Nat /\ ~(shown[j] < shown[j])  BY <2>1 DEF TypeOK
    <2>3. Sends
      BY <1>1, <2>2 DEF Next, Ask, FireAndForget, CallerLeaves, TaskEnqueues, TaskRefused, Work, Take,
         Admit, Deliver, OperationCancelled, OperationFails, ConnectionFails, WorkerStops, Shutdown,
         Joined, Finish, Sends, vars
    <2>4. job.func \in Updates /\ job.func \in Nat /\ job.func # 0
      BY <2>1, <2>3, EntriesOfUpdates DEF Sends, Queued
    <2>5. k = key[job.func] /\ shown'[k] = job.func
      BY <1>1, <2>1, <2>2, <2>3, <2>4 DEF Sends, TypeOK
    <2>6. CASE attempt[job.func] = 0
      <3>1. Follows(job.func, shown[k])  BY <2>1, <2>4, <2>5, <2>6 DEF Newest
      <3>2. ~(job.func >= shown[k])  BY <1>1, <2>2, <2>4, <2>5
      <3> QED  BY <2>5, <3>1, <3>2 DEF Follows
    <2>7. CASE attempt[job.func] # 0
      <3>1. attempt[job.func] \in 0 .. MaxRetries  BY <2>1, <2>4 DEF TypeOK
      <3> QED  BY <2>5, <2>7, <3>1 DEF MaxRetries
    <2> QED  BY <2>6, <2>7
  <1>2. Inv /\ [Next]_vars =>
           [\A k \in Keys : shown'[k] < shown[k] =>
               attempt[shown'[k]] > 0 \/ shown'[k] \in overtook[shown[k]]]_shown
    BY <1>1
  <1> QED  BY <1>2, DeliveryInvariant, PTL DEF Spec, OlderReturnsByTask

\* limiter.py:172: when shutdown() has returned nobody is left waiting, no task
\* is left to enqueue, and nothing is sent.
THEOREM ShutdownIsFinalCorrect == Spec => ShutdownIsFinal
  <1>1. ASSUME Inv, [Next]_vars, shutting = "done"
        PROVE  UNCHANGED <<shown, future, worker>>
    <2>1. /\ worker = "done" /\ closed
          /\ \A u \in Updates : future[u] \notin Awaited \cup {"scheduled", "backoff"}
      BY <1>1 DEF Inv, Settled
    <2> QED
      BY <1>1, <2>1 DEF Next, Ask, FireAndForget, CallerLeaves, TaskEnqueues, TaskRefused, Wakes,
         Scheduled, Work, Take, Admit, Deliver, OperationCancelled, OperationFails, ConnectionFails,
         WorkerStops, Shutdown, Joined, Finish, Awaited, vars
  <1> QED  BY <1>1, DeliveryInvariant, PTL DEF Spec, ShutdownIsFinal

\* Nothing comes back but by a task of fire_and_forget: not an update that was
\* replaced, not one that was stopped.
THEOREM NothingComesBackCorrect == Spec => NothingComesBack
  <1> QED  BY OlderReturnsByTaskCorrect, ShutdownIsFinalCorrect DEF NothingComesBack

-----------------------------------------------------------------------------
(* Voice notes *)

\* Where the task of a delivery and its handoff stand relative to each other.
NoteStages ==
    \A c \in Claims :
        /\ flow[c] \in {"idle", "sending", "transcribing"} => hand[c] = "none"
        /\ flow[c] \in {"handing", "draining"} => hand[c] # "none"
        /\ flow[c] \in {"cleaning", "done"} => ~Live(c)
        /\ flow[c] = "draining" => c \in cancelled
        /\ c \in status => flow[c] \notin {"idle", "sending"}
        /\ c \in bound => c \in status
        /\ hand[c] # "none" => c \in bound

\* A handoff that ended without reaching the handler was asked to cancel, by
\* the flow that was cancelled itself or by the command that took the entry.
NoteHandoffs ==
    \A c \in Claims :
        /\ hand[c] \in {"running", "commanding"} => c \in handed
        /\ hand[c] = "ended" => c \in handed \cup stopping
        /\ c \in stopping => c \in cancelled \cup Taken

\* An entry has one owner: the flow at work, or whoever took it.
NoteEntries ==
    /\ Taken \cap pending = {}
    /\ completed \cap (pending \cup Taken) = {}
    /\ \A c \in Claims :
          /\ flow[c] = "idle" => c \notin pending \cup Taken
          /\ flow[c] \notin {"idle", "done"} => c \in pending \cup Taken \cup cancelled
    /\ \A o \in Operations : op[o] \in {"none", "created"} => took[o] = {}

\* VoiceTypeOK, spelled out.
VoiceTyped ==
    /\ flow \in [Claims -> FlowStates]
    /\ hand \in [Claims -> HandStates]
    /\ op \in [Operations -> OpStates]
    /\ target \in [Operations -> Targets]
    /\ took \in [Operations -> SUBSET Claims]
    /\ pending \subseteq Claims /\ status \subseteq Claims /\ bound \subseteq Claims
    /\ deleted \subseteq Claims /\ completed \subseteq Claims /\ cancelled \subseteq Claims
    /\ handed \subseteq Claims /\ stopping \subseteq Claims
    /\ \A c \in stopping \cup handed \cup completed : hand[c] # "none"

VoiceInv ==
    /\ VoiceTyped /\ NoteStages /\ NoteHandoffs /\ NoteEntries
    /\ OneOutcome /\ NothingStranded /\ StatusIsOwned

LEMMA InvOwnsNotes == VoiceInv => NotesAreOwned
  BY DEF VoiceInv, VoiceTyped, VoiceTypeOK, NotesAreOwned

\* An entry that is pending is in no command's hands.
LEMMA PendingIsFree ==
    ASSUME NoteEntries, NEW c \in pending, NEW o \in Operations  PROVE c \notin took[o]
  BY DEF NoteEntries, Taken

LEMMA ReserveKeeps ==
    ASSUME VoiceInv, NEW c \in Claims, Reserve(c)
    PROVE  VoiceInv'
  <1> USE DEF flowVars, opVars, VoiceInv
  <1>0. VoiceTyped /\ c \in Operations  BY DEF Operations
  <1>1. VoiceTyped'  BY <1>0 DEF Reserve, Goto, VoiceTyped, FlowStates, HandStates, OpStates
  <1>2. Taken' = Taken  BY DEF Reserve, Taken
  <1>3. NoteStages'  BY <1>0, <1>2 DEF Reserve, Goto, VoiceTyped, Live, NoteStages
  <1>4. NoteHandoffs'  BY <1>0, <1>2 DEF Reserve, Goto, VoiceTyped, Live, NoteStages, NoteHandoffs
  <1>5. NoteEntries'  BY <1>0, <1>2 DEF Reserve, Goto, VoiceTyped, Live, NoteStages, NoteEntries
  <1>6. OneOutcome'
    BY <1>0, <1>2 DEF Reserve, Goto, VoiceTyped, Live, NoteStages, NoteEntries, OneOutcome, Drained
  <1>7. NothingStranded'
    BY <1>0, <1>2 DEF Reserve, Goto, VoiceTyped, Live, NoteStages, NoteEntries, NothingStranded
  <1>8. StatusIsOwned'
    BY <1>0, <1>2 DEF Reserve, Goto, VoiceTyped, Live, NoteStages, NoteHandoffs, NoteEntries,
       StatusIsOwned
  <1> QED  BY <1>1, <1>3, <1>4, <1>5, <1>6, <1>7, <1>8

LEMMA SentKeeps ==
    ASSUME VoiceInv, NEW c \in Claims, Sent(c)
    PROVE  VoiceInv'
  <1> USE DEF flowVars, opVars, VoiceInv
  <1>0. VoiceTyped /\ c \in Operations  BY DEF Operations
  <1>1. VoiceTyped'  BY <1>0 DEF Sent, Goto, VoiceTyped, FlowStates, HandStates, OpStates
  <1>2. Taken' = Taken  BY DEF Sent, Taken
  <1>3. NoteStages'  BY <1>0, <1>2 DEF Sent, Goto, VoiceTyped, Live, NoteStages
  <1>4. NoteHandoffs'  BY <1>0, <1>2 DEF Sent, Goto, VoiceTyped, Live, NoteStages, NoteHandoffs
  <1>5. NoteEntries'  BY <1>0, <1>2 DEF Sent, Goto, VoiceTyped, Live, NoteStages, NoteEntries
  <1>6. OneOutcome'
    BY <1>0, <1>2 DEF Sent, Goto, VoiceTyped, Live, NoteStages, NoteEntries, OneOutcome, Drained
  <1>7. NothingStranded'
    BY <1>0, <1>2 DEF Sent, Goto, VoiceTyped, Live, NoteStages, NoteEntries, NothingStranded
  <1>8. StatusIsOwned'
    BY <1>0, <1>2 DEF Sent, Goto, VoiceTyped, Live, NoteStages, NoteHandoffs, NoteEntries,
       StatusIsOwned
  <1> QED  BY <1>1, <1>3, <1>4, <1>5, <1>6, <1>7, <1>8

LEMMA FailsKeeps ==
    ASSUME VoiceInv, NEW c \in Claims, Fails(c)
    PROVE  VoiceInv'
  <1> USE DEF flowVars, opVars, VoiceInv
  <1>0. VoiceTyped /\ c \in Operations  BY DEF Operations
  <1>1. VoiceTyped'  BY <1>0 DEF Fails, Goto, VoiceTyped, FlowStates, HandStates, OpStates
  <1>2. Taken' = Taken  BY DEF Fails, Taken
  <1>3. NoteStages'  BY <1>0, <1>2 DEF Fails, Goto, VoiceTyped, Live, NoteStages
  <1>4. NoteHandoffs'  BY <1>0, <1>2 DEF Fails, Goto, VoiceTyped, Live, NoteStages, NoteHandoffs
  <1>5. NoteEntries'  BY <1>0, <1>2 DEF Fails, Goto, VoiceTyped, Live, NoteStages, NoteEntries
  <1>6. OneOutcome'
    BY <1>0, <1>2 DEF Fails, Goto, VoiceTyped, Live, NoteStages, NoteEntries, OneOutcome, Drained
  <1>7. NothingStranded'
    BY <1>0, <1>2 DEF Fails, Goto, VoiceTyped, Live, NoteStages, NoteEntries, NothingStranded
  <1>8. StatusIsOwned'
    BY <1>0, <1>2 DEF Fails, Goto, VoiceTyped, Live, NoteStages, NoteHandoffs, NoteEntries,
       StatusIsOwned
  <1> QED  BY <1>1, <1>3, <1>4, <1>5, <1>6, <1>7, <1>8

LEMMA HandoffKeeps ==
    ASSUME VoiceInv, NEW c \in Claims, Handoff(c)
    PROVE  VoiceInv'
  <1> USE DEF flowVars, opVars, VoiceInv
  <1>0. VoiceTyped /\ c \in Operations  BY DEF Operations
  <1>1. VoiceTyped'  BY <1>0 DEF Handoff, Goto, VoiceTyped, FlowStates, HandStates, OpStates
  <1>2. Taken' = Taken  BY DEF Handoff, Taken
  <1>3. NoteStages'  BY <1>0, <1>2 DEF Handoff, Goto, VoiceTyped, Live, NoteStages
  <1>4. NoteHandoffs'  BY <1>0, <1>2 DEF Handoff, Goto, VoiceTyped, Live, NoteStages, NoteHandoffs
  <1>5. NoteEntries'  BY <1>0, <1>2 DEF Handoff, Goto, VoiceTyped, Live, NoteStages, NoteEntries
  <1>6. OneOutcome'
    BY <1>0, <1>2, PendingIsFree DEF Handoff, Goto, VoiceTyped, Live, NoteStages, NoteEntries,
       OneOutcome, Drained
  <1>7. NothingStranded'
    BY <1>0, <1>2 DEF Handoff, Goto, VoiceTyped, Live, NoteStages, NoteEntries, NothingStranded
  <1>8. StatusIsOwned'
    BY <1>0, <1>2 DEF Handoff, Goto, VoiceTyped, Live, NoteStages, NoteHandoffs, NoteEntries,
       StatusIsOwned
  <1> QED  BY <1>1, <1>3, <1>4, <1>5, <1>6, <1>7, <1>8

LEMMA FinishHandoffKeeps ==
    ASSUME VoiceInv, NEW c \in Claims, FinishHandoff(c)
    PROVE  VoiceInv'
  <1> USE DEF flowVars, opVars, VoiceInv
  <1>0. VoiceTyped /\ c \in Operations  BY DEF Operations
  <1>1. VoiceTyped'
    BY <1>0 DEF FinishHandoff, CompleteIfOwned, Goto, VoiceTyped, FlowStates, HandStates, OpStates
  <1>2. Taken' = Taken  BY DEF FinishHandoff, CompleteIfOwned, Taken
  <1>3. NoteStages'
    BY <1>0, <1>2 DEF FinishHandoff, CompleteIfOwned, Goto, VoiceTyped, Live, NoteStages
  <1>4. NoteHandoffs'
    BY <1>0, <1>2 DEF FinishHandoff, CompleteIfOwned, Goto, VoiceTyped, Live, NoteStages,
       NoteHandoffs
  <1>5. NoteEntries'
    BY <1>0, <1>2 DEF FinishHandoff, CompleteIfOwned, Goto, VoiceTyped, Live, NoteStages,
       NoteEntries
  <1>6. OneOutcome'
    BY <1>0, <1>2 DEF FinishHandoff, CompleteIfOwned, Goto, VoiceTyped, Live, NoteStages,
       NoteEntries,
       OneOutcome, Drained
  <1>7. NothingStranded'
    BY <1>0, <1>2 DEF FinishHandoff, CompleteIfOwned, Goto, VoiceTyped, Live, NoteStages,
       NoteEntries,
       NothingStranded
  <1>8. StatusIsOwned'
    BY <1>0, <1>2 DEF FinishHandoff, CompleteIfOwned, Goto, VoiceTyped, Live, NoteStages,
       NoteHandoffs,
       NoteEntries, StatusIsOwned
  <1> QED  BY <1>1, <1>3, <1>4, <1>5, <1>6, <1>7, <1>8

LEMMA DiscardKeeps ==
    ASSUME VoiceInv, NEW c \in Claims, Discard(c)
    PROVE  VoiceInv'
  <1> USE DEF flowVars, opVars, VoiceInv
  <1>0. VoiceTyped /\ c \in Operations  BY DEF Operations
  <1>1. VoiceTyped'  BY <1>0 DEF Discard, Goto, VoiceTyped, FlowStates, HandStates, OpStates
  <1>2. Taken' = Taken  BY DEF Discard, Taken
  <1>3. NoteStages'  BY <1>0, <1>2 DEF Discard, Goto, VoiceTyped, Live, NoteStages
  <1>4. NoteHandoffs'  BY <1>0, <1>2 DEF Discard, Goto, VoiceTyped, Live, NoteStages, NoteHandoffs
  <1>5. NoteEntries'  BY <1>0, <1>2 DEF Discard, Goto, VoiceTyped, Live, NoteStages, NoteEntries
  <1>6. OneOutcome'
    BY <1>0, <1>2 DEF Discard, Goto, VoiceTyped, Live, NoteStages, NoteEntries, OneOutcome, Drained
  <1>7. NothingStranded'
    BY <1>0, <1>2 DEF Discard, Goto, VoiceTyped, Live, NoteStages, NoteEntries, NothingStranded
  <1>8. StatusIsOwned'
    BY <1>0, <1>2 DEF Discard, Goto, VoiceTyped, Live, NoteStages, NoteHandoffs, NoteEntries,
       StatusIsOwned
  <1> QED  BY <1>1, <1>3, <1>4, <1>5, <1>6, <1>7, <1>8

LEMMA CancelFlowKeeps ==
    ASSUME VoiceInv, NEW c \in Claims, CancelFlow(c)
    PROVE  VoiceInv'
  <1> USE DEF flowVars, opVars, VoiceInv
  <1>0. VoiceTyped /\ c \in Operations  BY DEF Operations
  <1>1. VoiceTyped'
    BY <1>0 DEF CancelFlow, Goto, NoteStages, VoiceTyped, FlowStates, HandStates, OpStates
  <1>2. Taken' = Taken  BY DEF CancelFlow, Taken
  <1>3. NoteStages'  BY <1>0, <1>2 DEF CancelFlow, Goto, VoiceTyped, Live, NoteStages
  <1>4. NoteHandoffs'
    BY <1>0, <1>2 DEF CancelFlow, Goto, VoiceTyped, Live, NoteStages, NoteHandoffs
  <1>5. NoteEntries'  BY <1>0, <1>2 DEF CancelFlow, Goto, VoiceTyped, Live, NoteStages, NoteEntries
  <1>6. OneOutcome'
    BY <1>0, <1>2 DEF CancelFlow, Goto, VoiceTyped, Live, NoteStages, NoteEntries, OneOutcome,
       Drained
  <1>7. NothingStranded'
    BY <1>0, <1>2 DEF CancelFlow, Goto, VoiceTyped, Live, NoteStages, NoteEntries, NothingStranded
  <1>8. StatusIsOwned'
    BY <1>0, <1>2 DEF CancelFlow, Goto, VoiceTyped, Live, NoteStages, NoteHandoffs, NoteEntries,
       StatusIsOwned
  <1> QED  BY <1>1, <1>3, <1>4, <1>5, <1>6, <1>7, <1>8

LEMMA HandStepKeeps ==
    ASSUME VoiceInv, NEW c \in Claims, HandStep(c)
    PROVE  VoiceInv'
  <1> USE DEF flowVars, opVars, VoiceInv
  <1>0. VoiceTyped /\ c \in Operations  BY DEF Operations
  <1>1. VoiceTyped'
    BY <1>0 DEF HandStep, Start, End, Obeyed, VoiceTyped, FlowStates, HandStates, OpStates
  <1>2. Taken' = Taken  BY DEF HandStep, Start, End, Obeyed, Taken
  <1>3. NoteStages'  BY <1>0, <1>2 DEF HandStep, Start, End, Obeyed, VoiceTyped, Live, NoteStages
  <1>4. NoteHandoffs'
    BY <1>0, <1>2 DEF HandStep, Start, End, Obeyed, VoiceTyped, Live, NoteStages, NoteHandoffs
  <1>5. NoteEntries'
    BY <1>0, <1>2 DEF HandStep, Start, End, Obeyed, VoiceTyped, Live, NoteStages, NoteEntries
  <1>6. OneOutcome'
    BY <1>0, <1>2 DEF HandStep, Start, End, Obeyed, VoiceTyped, Live, NoteStages, NoteEntries,
       OneOutcome, Drained
  <1>7. NothingStranded'
    BY <1>0, <1>2 DEF HandStep, Start, End, Obeyed, VoiceTyped, Live, NoteStages, NoteEntries,
       NothingStranded
  <1>8. StatusIsOwned'
    BY <1>0, <1>2 DEF HandStep, Start, End, Obeyed, VoiceTyped, Live, NoteStages, NoteHandoffs,
       NoteEntries, StatusIsOwned
  <1> QED  BY <1>1, <1>3, <1>4, <1>5, <1>6, <1>7, <1>8

LEMMA SpeakKeeps ==
    ASSUME VoiceInv, NEW c \in Claims, NEW t \in Targets, Speak(c, t)
    PROVE  VoiceInv'
  <1> USE DEF flowVars, opVars, VoiceInv
  <1>0. VoiceTyped /\ c \in Operations  BY DEF Operations
  <1>1. VoiceTyped'  BY <1>0 DEF Speak, Begin, Goto, VoiceTyped, FlowStates, HandStates, OpStates
  <1>2. Taken' = Taken  BY DEF Speak, Begin, Targets, Taken
  <1>3. NoteStages'  BY <1>0, <1>2 DEF Speak, Begin, Goto, VoiceTyped, Live, NoteStages
  <1>4. NoteHandoffs'
    BY <1>0, <1>2 DEF Speak, Begin, Goto, VoiceTyped, Live, NoteStages, NoteHandoffs
  <1>5. NoteEntries'
    BY <1>0, <1>2 DEF Speak, Begin, Goto, VoiceTyped, Live, NoteStages, NoteEntries
  <1>6. OneOutcome'
    BY <1>0, <1>2 DEF Speak, Begin, Goto, VoiceTyped, Live, NoteStages, NoteEntries, OneOutcome,
       Drained
  <1>7. NothingStranded'
    BY <1>0, <1>2 DEF Speak, Begin, Goto, VoiceTyped, Live, NoteStages, NoteEntries, NothingStranded
  <1>8. StatusIsOwned'
    BY <1>0, <1>2 DEF Speak, Begin, Goto, VoiceTyped, Live, NoteStages, NoteHandoffs, NoteEntries,
       StatusIsOwned
  <1> QED  BY <1>1, <1>3, <1>4, <1>5, <1>6, <1>7, <1>8

LEMMA TypeKeeps ==
    ASSUME VoiceInv, NEW o \in Operations, NEW t \in Targets, Type(o, t)
    PROVE  VoiceInv'
  <1> USE DEF flowVars, opVars, VoiceInv
  <1>0. VoiceTyped /\ o \in Operations  BY DEF Operations
  <1>1. VoiceTyped'  BY <1>0 DEF Type, Begin, Targets, VoiceTyped, FlowStates, HandStates, OpStates
  <1>2. Taken' = Taken  BY DEF Type, Begin, Targets, Taken
  <1>3. NoteStages'  BY <1>0, <1>2 DEF Type, Begin, Targets, VoiceTyped, Live, NoteStages
  <1>4. NoteHandoffs'
    BY <1>0, <1>2 DEF Type, Begin, Targets, VoiceTyped, Live, NoteStages, NoteHandoffs
  <1>5. NoteEntries'
    BY <1>0, <1>2 DEF Type, Begin, Targets, VoiceTyped, Live, NoteStages, NoteEntries
  <1>6. OneOutcome'
    BY <1>0, <1>2 DEF Type, Begin, Targets, VoiceTyped, Live, NoteStages, NoteEntries, OneOutcome,
       Drained
  <1>7. NothingStranded'
    BY <1>0, <1>2 DEF Type, Begin, Targets, VoiceTyped, Live, NoteStages, NoteEntries,
       NothingStranded
  <1>8. StatusIsOwned'
    BY <1>0, <1>2 DEF Type, Begin, Targets, VoiceTyped, Live, NoteStages, NoteHandoffs,
       NoteEntries, StatusIsOwned
  <1> QED  BY <1>1, <1>3, <1>4, <1>5, <1>6, <1>7, <1>8

LEMMA SelectKeeps ==
    ASSUME VoiceInv, NEW o \in Operations, Select(o)
    PROVE  VoiceInv'
  <1> USE DEF flowVars, opVars, VoiceInv
  <1>0. VoiceTyped /\ o \in Operations  BY DEF Operations
  <1>1. VoiceTyped'
    BY <1>0 DEF Select, Selected, Live, VoiceTyped, FlowStates, HandStates, OpStates
  <1>2. Taken' = Taken \cup Selected(o)
    <2>1. took[o] = {} /\ took' = [took EXCEPT ![o] = Selected(o)]  BY DEF Select, NoteEntries
    <2>2. took'[o] = Selected(o) /\ \A p \in Operations : p # o => took'[p] = took[p]
      BY <1>0, <2>1 DEF VoiceTyped
    <2> QED  BY <2>1, <2>2 DEF Taken
  <1>3. NoteStages'  BY <1>0, <1>2 DEF Select, Selected, VoiceTyped, Live, NoteStages
  <1>4. NoteHandoffs'
    BY <1>0, <1>2 DEF Select, Selected, VoiceTyped, Live, NoteStages, NoteHandoffs
  <1>5. NoteEntries'  BY <1>0, <1>2 DEF Select, Selected, VoiceTyped, Live, NoteStages, NoteEntries
  <1>6. OneOutcome'
    BY <1>0, <1>2 DEF Select, Selected, VoiceTyped, Live, NoteStages, NoteEntries, OneOutcome,
       Drained
  <1>7. NothingStranded'
    BY <1>0, <1>2 DEF Select, Selected, VoiceTyped, Live, NoteStages, NoteEntries, NothingStranded
  <1>8. StatusIsOwned'
    BY <1>0, <1>2 DEF Select, Selected, VoiceTyped, Live, NoteStages, NoteHandoffs, NoteEntries,
       StatusIsOwned
  <1> QED  BY <1>1, <1>3, <1>4, <1>5, <1>6, <1>7, <1>8

LEMMA OperateKeeps ==
    ASSUME VoiceInv, NEW o \in Operations, Report(o) \/ Lock(o) \/ Apply(o)
    PROVE  VoiceInv'
  <1> USE DEF flowVars, opVars, VoiceInv
  <1>0. VoiceTyped /\ o \in Operations  BY DEF Operations
  <1>1. VoiceTyped'  BY <1>0 DEF Report, Lock, Apply, VoiceTyped, FlowStates, HandStates, OpStates
  <1>2. Taken' = Taken  BY DEF Report, Lock, Apply, Taken
  <1>3. NoteStages'  BY <1>0, <1>2 DEF Report, Lock, Apply, VoiceTyped, Live, NoteStages
  <1>4. NoteHandoffs'
    BY <1>0, <1>2 DEF Report, Lock, Apply, VoiceTyped, Live, NoteStages, NoteHandoffs
  <1>5. NoteEntries'
    BY <1>0, <1>2 DEF Report, Lock, Apply, VoiceTyped, Live, NoteStages, NoteEntries
  <1>6. OneOutcome'
    BY <1>0, <1>2 DEF Report, Lock, Apply, VoiceTyped, Live, NoteStages, NoteEntries, OneOutcome,
       Drained
  <1>7. NothingStranded'
    BY <1>0, <1>2 DEF Report, Lock, Apply, VoiceTyped, Live, NoteStages, NoteEntries,
       NothingStranded
  <1>8. StatusIsOwned'
    BY <1>0, <1>2 DEF Report, Lock, Apply, VoiceTyped, Live, NoteStages, NoteHandoffs,
       NoteEntries, StatusIsOwned
  <1> QED  BY <1>1, <1>3, <1>4, <1>5, <1>6, <1>7, <1>8

LEMMA VoiceInitHolds == VoiceInit => VoiceInv
  <1> SUFFICES ASSUME VoiceInit  PROVE VoiceInv
    OBVIOUS
  <1>1. VoiceTyped
    BY DEF VoiceInit, VoiceTyped, FlowStates, HandStates, OpStates, Targets
  <1>2. Taken = {}  BY DEF VoiceInit, Taken
  <1>3. NoteStages /\ NoteHandoffs /\ NoteEntries
    BY <1>2 DEF VoiceInit, Live, NoteStages, NoteHandoffs, NoteEntries
  <1>4. OneOutcome /\ NothingStranded /\ StatusIsOwned
    BY <1>2 DEF VoiceInit, Live, OneOutcome, NothingStranded, StatusIsOwned
  <1> QED  BY <1>1, <1>3, <1>4 DEF VoiceInv

LEMMA VoiceStepKeeps == VoiceInv /\ [VoiceNext]_voiceVars => VoiceInv'
  <1> SUFFICES ASSUME VoiceInv, [VoiceNext]_voiceVars  PROVE VoiceInv'
    OBVIOUS
  <1>1. ASSUME NEW c \in Claims, Reserve(c) \/ CancelFlow(c) \/ FlowStep(c) \/ HandStep(c)
        PROVE  VoiceInv'
    BY <1>1, ReserveKeeps, CancelFlowKeeps, SentKeeps, FailsKeeps, HandoffKeeps, FinishHandoffKeeps,
       DiscardKeeps, HandStepKeeps DEF FlowStep
  <1>2. ASSUME NEW o \in Operations, OpStep(o)  PROVE VoiceInv'
    BY <1>2, SelectKeeps, OperateKeeps DEF OpStep
  <1>3. CASE UNCHANGED voiceVars
    <2> USE <1>3 DEF voiceVars, flowVars, opVars
    <2>1. VoiceTyped' /\ Taken' = Taken  BY DEF VoiceInv, VoiceTyped, Taken
    <2>2. NoteStages' /\ NoteHandoffs' /\ NoteEntries'
      BY <2>1 DEF VoiceInv, Live, NoteStages, NoteHandoffs, NoteEntries
    <2>3. OneOutcome' /\ NothingStranded' /\ StatusIsOwned'
      BY <2>1 DEF VoiceInv, Live, Drained, OneOutcome, NothingStranded, StatusIsOwned
    <2> QED  BY <2>1, <2>2, <2>3 DEF VoiceInv
  <1> QED  BY <1>1, <1>2, <1>3, SpeakKeeps, TypeKeeps DEF VoiceNext

\* A note and its status message have one owner at a time: a note that a
\* command reports as cancelled was not handed on, no entry is left behind a
\* delivery that is over, and no status message shows "transcribing" for ever.
THEOREM NotesAreOwnedCorrect == VoiceSpec => []NotesAreOwned
  <1> QED  BY VoiceInitHolds, VoiceStepKeeps, InvOwnsNotes, PTL DEF VoiceSpec
=============================================================================
