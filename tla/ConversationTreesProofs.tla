----------------------- MODULE ConversationTreesProofs -----------------------
(***************************************************************************)
(* Theorems about conversation trees, for any chats, messages and bounds.   *)
(*                                                                          *)
(* The invariant has three parts: types, the scheduling of each tree, and   *)
(* the files. A step is reduced to one of seven effects on the trees, such  *)
(* as a turn that enters or a claim that passes on, and each part is shown  *)
(* to survive each effect. Two recursive functions are reasoned about by    *)
(* induction: what is left of a queue, and the ancestors of a turn.         *)
(***************************************************************************)
EXTENDS ConversationTrees, WellFoundedInduction, SequenceTheorems, TLAPS

-----------------------------------------------------------------------------
(* Induction. The theorems of the library take the predicate as a parameter; *)
(* a set of natural numbers does as well.                                   *)

Less == {p \in Nat \X Nat : p[1] < p[2]}

\* A set of natural numbers with a least element in each of its parts.
LEMMA LessIsWellFounded == IsWellFoundedOn(Less, Nat)
BY NatLessThanWellFounded DEF OpToRel, Less

\* Induction: a set with 0 and the successor of each member is Nat.
LEMMA SetInduction ==
    ASSUME NEW S \in SUBSET Nat, 0 \in S, \A n \in S : n + 1 \in S
    PROVE  S = Nat
<1> SUFFICES ASSUME Nat \ S # {} PROVE FALSE  OBVIOUS
<1>1. PICK n \in Nat \ S : \A k \in Nat \ S : ~ (<<k, n>> \in Less)
    BY LessIsWellFounded, WFMin
<1>2. n # 0 /\ n - 1 \in Nat  BY <1>1
<1>3. n - 1 \in S
    <2>1. CASE n - 1 \notin S
        <3>1. <<n - 1, n>> \in Less  BY <1>2 DEF Less
        <3> QED  BY <1>1, <1>2, <2>1, <3>1
    <2> QED  BY <2>1
<1>4. (n - 1) + 1 \in S  BY <1>3
<1> QED  BY <1>1, <1>2, <1>4

-----------------------------------------------------------------------------
(* What is left of a queue. *)

\* f is the function that Without defines, up to n.
IsLeft(f, line, gone, n) ==
    f = [i \in 0 .. n |->
            IF i = 0 THEN <<>>
            ELSE IF line[i] \in gone THEN f[i - 1] ELSE Append(f[i - 1], line[i])]

\* The equation of that function.
LEMMA LeftValue ==
    ASSUME NEW f, NEW line, NEW gone, NEW n, IsLeft(f, line, gone, n), NEW i \in 0 .. n
    PROVE  f[i] = IF i = 0 THEN <<>>
                  ELSE IF line[i] \in gone THEN f[i - 1] ELSE Append(f[i - 1], line[i])
<1> DEFINE E(k) == IF k = 0 THEN <<>>
                   ELSE IF line[k] \in gone THEN f[k - 1] ELSE Append(f[k - 1], line[k])
<1>1. f = [k \in 0 .. n |-> E(k)]  BY DEF IsLeft
<1> HIDE DEF E
<1>2. f[i] = E(i)  BY <1>1
<1> QED  BY <1>2 DEF E

\* The recursion of Without has a solution.
LEMMA LeftExists ==
    ASSUME NEW line, NEW gone, NEW N \in Nat
    PROVE  \E f : IsLeft(f, line, gone, N)
<1> DEFINE S == {n \in Nat : \E f : IsLeft(f, line, gone, n)}
<1>1. 0 \in S
    <2> DEFINE f == [i \in 0 .. 0 |-> <<>>]
    <2>1. IsLeft(f, line, gone, 0)  BY DEF IsLeft
    <2> QED  BY <2>1
<1>2. ASSUME NEW n \in S PROVE n + 1 \in S
    <2>1. PICK f : IsLeft(f, line, gone, n)  OBVIOUS
    <2> DEFINE g == [i \in 0 .. n + 1 |->
                        IF i <= n THEN f[i]
                        ELSE IF line[i] \in gone THEN f[i - 1] ELSE Append(f[i - 1], line[i])]
    <2>2. n \in Nat  OBVIOUS
    <2>3. ASSUME NEW i \in 0 .. n + 1
          PROVE  g[i] = IF i = 0 THEN <<>>
                        ELSE IF line[i] \in gone THEN g[i - 1] ELSE Append(g[i - 1], line[i])
        <3>1. CASE i = 0  BY <2>1, <2>2, <3>1 DEF IsLeft
        <3>2. CASE i \in 1 .. n
            <4>1. g[i] = f[i] /\ g[i - 1] = f[i - 1]  BY <2>2, <3>2
            <4>2. f[i] = IF line[i] \in gone THEN f[i - 1] ELSE Append(f[i - 1], line[i])
                BY <2>1, <2>2, <3>2, LeftValue
            <4> HIDE DEF g
            <4> QED  BY <3>2, <4>1, <4>2
        <3>3. CASE i = n + 1
            <4>1. g[i - 1] = f[i - 1]  BY <2>2, <3>3
            <4>2. g[i] = IF line[i] \in gone THEN f[i - 1] ELSE Append(f[i - 1], line[i])
                BY <2>2, <3>3
            <4> HIDE DEF g
            <4> QED  BY <2>2, <3>3, <4>1, <4>2
        <3> QED  BY <2>2, <3>1, <3>2, <3>3
    <2>4. IsLeft(g, line, gone, n + 1)
        <3>1. g = [i \in 0 .. n + 1 |-> g[i]]  OBVIOUS
        <3> HIDE DEF g
        <3> QED  BY <2>3, <3>1 DEF IsLeft
    <2> QED  BY <2>2, <2>4
<1>3. S \in SUBSET Nat  OBVIOUS
<1>4. S = Nat
    <2> HIDE DEF S
    <2> QED  BY <1>1, <1>2, <1>3, SetInduction
<1> QED  BY <1>4

\* Without is the last value of that function.
LEMMA WithoutIsLast ==
    ASSUME NEW line, NEW gone, Len(line) \in Nat
    PROVE  \E f : IsLeft(f, line, gone, Len(line)) /\ Without(line, gone) = f[Len(line)]
<1> DEFINE f == CHOOSE f : f = [i \in 0 .. Len(line) |->
            IF i = 0 THEN <<>>
            ELSE IF line[i] \in gone THEN f[i - 1] ELSE Append(f[i - 1], line[i])]
<1>0. \E g : IsLeft(g, line, gone, Len(line))  BY SMTT(30), LeftExists
<1>1. IsLeft(f, line, gone, Len(line))  BY <1>0 DEF IsLeft
<1>2. Without(line, gone) = f[Len(line)]  BY DEF Without
<1> QED  BY <1>1, <1>2

Increasing(line) == \A i, j \in 1 .. Len(line) : i < j => line[i] < line[j]

\* What is left has the other elements, in their order.
LEMMA WithoutProperties ==
    ASSUME NEW S \in SUBSET Nat, NEW line \in Seq(S), NEW gone
    PROVE  /\ Without(line, gone) \in Seq(S)
           /\ Range(Without(line, gone)) = Range(line) \ gone
           /\ Increasing(line) => Increasing(Without(line, gone))
           /\ Range(line) \cap gone = {} => Without(line, gone) = line
<1> DEFINE N == Len(line)
           Up(n) == {line[i] : i \in 1 .. n}
<1>1. N \in Nat  OBVIOUS
<1>2. PICK f : IsLeft(f, line, gone, N) /\ Without(line, gone) = f[N]
    BY <1>1, WithoutIsLast
<1> DEFINE Good(n) ==
              /\ f[n] \in Seq(S)
              /\ {f[n][i] : i \in 1 .. Len(f[n])} = Up(n) \ gone
              /\ Increasing(line) => Increasing(f[n])
              /\ Range(line) \cap gone = {} => f[n] = SubSeq(line, 1, n)
           T == {n \in Nat : n <= N => Good(n)}
<1>3. 0 \in T
    <2>1. f[0] = <<>>  BY <1>1, <1>2 DEF IsLeft
    <2>2. Good(0)  BY <2>1 DEF Increasing
    <2> QED  BY <2>2
<1>4. ASSUME NEW n \in T PROVE n + 1 \in T
    <2>0. n \in Nat  OBVIOUS
    <2> SUFFICES ASSUME n + 1 <= N PROVE Good(n + 1)
        <3> HIDE DEF Good
        <3> QED  BY <2>0
    <2>1. Good(n)  BY <1>1, <2>0
    <2>2. f[n + 1] = IF line[n + 1] \in gone THEN f[n] ELSE Append(f[n], line[n + 1])
        BY <1>1, <1>2, <2>0, LeftValue
    <2>3. line[n + 1] \in S /\ line[n + 1] \in Range(line)  BY <1>1, <2>0 DEF Range
    <2>4. Up(n + 1) = Up(n) \cup {line[n + 1]}  BY <1>1, <2>0
    <2>5. CASE line[n + 1] \in gone
        BY ZenonT(60), <2>1, <2>2, <2>3, <2>4, <2>5
    <2>6. CASE line[n + 1] \notin gone
        <3>1. f[n + 1] = Append(f[n], line[n + 1])  BY <2>2, <2>6
        <3>2. f[n + 1] \in Seq(S)  BY <2>1, <2>3, <3>1
        <3>3. /\ Len(f[n + 1]) = Len(f[n]) + 1 /\ Len(f[n]) \in Nat
              /\ \A i \in 1 .. Len(f[n]) : f[n + 1][i] = f[n][i]
              /\ f[n + 1][Len(f[n]) + 1] = line[n + 1]
            BY <2>1, <2>3, <3>1
        <3>4. {f[n + 1][i] : i \in 1 .. Len(f[n + 1])} = Up(n + 1) \ gone
            <4>1. {f[n + 1][i] : i \in 1 .. Len(f[n + 1])}
                    = {f[n][i] : i \in 1 .. Len(f[n])} \cup {line[n + 1]}
                <5>1. 1 .. Len(f[n + 1]) = 1 .. Len(f[n]) \cup {Len(f[n]) + 1}  BY <3>3
                <5>2. {f[n + 1][i] : i \in 1 .. Len(f[n + 1])}
                        = {f[n + 1][i] : i \in 1 .. Len(f[n])} \cup {f[n + 1][Len(f[n]) + 1]}
                    BY <5>1
                <5>3. {f[n + 1][i] : i \in 1 .. Len(f[n])} = {f[n][i] : i \in 1 .. Len(f[n])}
                    BY <3>3
                <5> QED  BY <3>3, <5>2, <5>3
            <4> QED  BY <2>1, <2>4, <2>6, <4>1
        <3>5. Increasing(line) => Increasing(f[n + 1])
            <4> SUFFICES ASSUME Increasing(line),
                                NEW i \in 1 .. Len(f[n + 1]), NEW j \in 1 .. Len(f[n + 1]), i < j
                         PROVE  f[n + 1][i] < f[n + 1][j]
                BY DEF Increasing
            <4>1. CASE j <= Len(f[n])
                <5>1. i \in 1 .. Len(f[n]) /\ j \in 1 .. Len(f[n])  BY <3>3, <4>1
                <5>2. f[n][i] < f[n][j]
                    <6>1. Increasing(f[n])  BY <2>1
                    <6> QED  BY <5>1, <6>1 DEF Increasing
                <5> QED  BY <3>3, <5>1, <5>2
            <4>2. CASE j = Len(f[n]) + 1
                <5>1. i \in 1 .. Len(f[n])  BY <3>3, <4>2
                <5>2. f[n][i] \in Up(n)  BY <2>1, <5>1
                <5>3. PICK k \in 1 .. n : f[n][i] = line[k]  BY <5>2
                <5>4. k \in 1 .. Len(line) /\ n + 1 \in 1 .. Len(line) /\ k < n + 1
                    BY <1>1, <2>0, <5>3
                <5>5. line[k] < line[n + 1]
                    <6> HIDE DEF N
                    <6> QED  BY <5>4 DEF Increasing
                <5> QED  BY <3>3, <4>2, <5>1, <5>3, <5>5
            <4> QED  BY SMTT(30), <3>3, <4>1, <4>2
        <3>6. Range(line) \cap gone = {} => f[n + 1] = SubSeq(line, 1, n + 1)
            <4> SUFFICES ASSUME Range(line) \cap gone = {}
                         PROVE  f[n + 1] = SubSeq(line, 1, n + 1)
                OBVIOUS
            <4>1. f[n] = SubSeq(line, 1, n)  BY <2>1
            <4>2. SubSeq(line, 1, n + 1) = Append(SubSeq(line, 1, n), line[n + 1])
                BY <1>1, <2>0
            <4> QED  BY <3>1, <4>1, <4>2
        <3> QED  BY <3>2, <3>4, <3>5, <3>6
    <2> QED  BY <2>5, <2>6
<1>5. T = Nat
    <2>1. T \in SUBSET Nat  OBVIOUS
    <2> HIDE DEF T
    <2> QED  BY <1>3, <1>4, <2>1, SetInduction
<1>6. Good(N)
    <2> HIDE DEF Good
    <2> QED  BY <1>1, <1>5
<1>7. Up(N) = Range(line)  BY DEF Range
<1>8. Range(f[N]) = {f[N][i] : i \in 1 .. Len(f[N])}  BY <1>6, RangeEquality
<1>9. SubSeq(line, 1, N) = line  BY SubSeqFull
<1> QED  BY <1>2, <1>6, <1>7, <1>8, <1>9
-----------------------------------------------------------------------------
(* The inductive invariant. *)

States == Runnable \cup {"completed", "error"}
Node == [state : States, session : BOOLEAN, status : BOOLEAN]
TurnRecord == [msg : Messages, root : Turns, parent : 0 .. MaxTurns,
               via : Kinds \cup {"none"}]

\* The turns form trees: a parent comes before its replies, in their tree.
Forest ==
    /\ turn \in Seq(TurnRecord) /\ Len(turn) <= MaxTurns
    /\ \A t \in Admitted :
          /\ Root(t) \in 1 .. t /\ turn[t].parent \in 0 .. t - 1
          /\ Root(Root(t)) = Root(t)
          /\ turn[t].parent = 0 <=> Root(t) = t
          /\ turn[t].parent # 0 => turn[t].via \in Kinds /\ Root(turn[t].parent) = Root(t)

\* Only nodes of a tree have a state, a status or a session, and references.
NodesTyped ==
    /\ graph \subseteq Admitted /\ status \subseteq graph /\ session \subseteq graph
    /\ state \in [Turns -> States \cup {"none"}]
    /\ \A t \in Turns : t \in graph <=> state[t] # "none"
    /\ published \subseteq Admitted
    /\ index = (graph \X {"prompt"}) \cup (status \X {"status"})

SchedulingTyped ==
    /\ queue \in [Turns -> Seq(Admitted)] /\ active \in [Turns -> Admitted \cup {0}]
    /\ stopped \subseteq Admitted
    /\ task \in [Turns -> {"none", "launched", "running", "over", "finishing", "recovering"}]

IntakeTyped ==
    /\ inbox \in [Messages -> {[at |-> "idle"]} \cup
              [at : {"sending"}, current : BOOLEAN, ref : References \cup {None}]]
    /\ cmd.at \in {"idle", "draining", "saving"}
    /\ commands \in 0 .. MaxCommands /\ restarts \in 0 .. MaxRestarts

SnapshotOK(snapshot) ==
    DOMAIN snapshot \subseteq Admitted /\ snapshot \in [DOMAIN snapshot -> Node]

FilesTyped ==
    /\ DOMAIN store = Messages /\ DOMAIN disk = Messages
    /\ \A m \in Messages : SnapshotOK(store[m]) /\ SnapshotOK(disk[m])
    /\ cmd.at = "saving" => \A r \in DOMAIN cmd.snapshots : SnapshotOK(cmd.snapshots[r])

Types == Forest /\ NodesTyped /\ SchedulingTyped /\ IntakeTyped /\ FilesTyped

\* The trees of the repository are those of the nodes, with their ancestors
\* and the statuses they answer.
TreesAreWhole ==
    /\ \A t \in graph : Root(t) \in published
    /\ \A r \in published : r \in graph /\ Root(r) = r
    /\ \A t \in graph : \/ turn[t].parent = 0
                        \/ /\ turn[t].parent \in graph
                           /\ turn[t].via = "status" => turn[t].parent \in status

\* A claim is for a turn of the tree, whose task has not been released.
ClaimsAreHome ==
    /\ \A r \in Turns : active[r] # 0 => Root(active[r]) = r /\ state[active[r]] # "pending"
    /\ \A t \in Turns : t \notin Admitted => task[t] = "none"
    /\ ClaimsHaveTasks

\* Turns wait in order of admission.
QueuesAreOrdered == \A r \in Turns : Increasing(queue[r])

\* What a task that is over or cancelled leaves behind has settled.
LeftSettled ==
    /\ \A t \in Turns : task[t] \in {"over", "finishing"} => state[t] # "in_progress"
    /\ \A t \in Turns : task[t] = "recovering" => t \in stopped
    /\ \A t \in stopped : state[t] \notin Runnable

SchedulingInv ==
    /\ TreesAreWhole /\ ClaimsAreHome /\ QueuesAreOrdered /\ LeftSettled
    /\ QueueIsServed /\ ClearedIsGone

\* A snapshot that can be restored as the tree of m.
WellFormed(snapshot, m) ==
    /\ \A t \in DOMAIN snapshot :
          /\ Root(t) \in DOMAIN snapshot /\ Identity(Root(t)) = m
          /\ \/ turn[t].parent = 0
             \/ /\ turn[t].parent \in DOMAIN snapshot
                /\ turn[t].via = "status" => snapshot[turn[t].parent].status
          /\ ~snapshot[t].status => ~snapshot[t].session /\ snapshot[t].state = "error"
    /\ \A t, u \in DOMAIN snapshot : Root(t) = Root(u)

Stored(file) == UNION {DOMAIN file[m] : m \in Messages}
Distinct(turns) == \A t, u \in turns : turn[t].msg = turn[u].msg => t = u

\* The command that holds the state lock will replace or remove what is
\* stored for m.
Pending(m) ==
    \/ /\ cmd.at = "draining"
       /\ \/ m \in cmd.forget \/ m[1] = cmd.chat
          \/ \E r \in cmd.saves \cap published : Identity(r) = m
    \/ /\ cmd.at = "saving"
       /\ m \in cmd.forget \/ \E r \in DOMAIN cmd.snapshots : Identity(r) = m

Live(m) ==
    store[m] = NoTree \/ \E r \in published : Identity(r) = m /\ DOMAIN store[m] = Members(r)

FilesAreWhole ==
    /\ \A m \in Messages : WellFormed(store[m], m) /\ WellFormed(disk[m], m)
    /\ cmd.at = "saving" => \A r \in DOMAIN cmd.snapshots :
          /\ r \in published /\ DOMAIN cmd.snapshots[r] = Members(r)
          /\ WellFormed(cmd.snapshots[r], Identity(r))
    /\ Distinct(graph \cup Stored(store)) /\ Distinct(Stored(disk))
    /\ \A m \in Messages : Live(m) \/ Pending(m)
    /\ cmd.at = "draining" /\ cmd.chat # None => cmd.saves = {} /\ cmd.forget = {}

Inv == Types /\ SchedulingInv /\ FilesAreWhole

-----------------------------------------------------------------------------
(* The ancestors of a turn. *)

\* f is the function that Lineage defines, up to n.
IsUp(f, n) == f = [u \in 0 .. n |-> IF u = 0 THEN {} ELSE {u} \cup f[turn[u].parent]]

\* The equation of that function.
LEMMA UpValue ==
    ASSUME NEW f, NEW n, IsUp(f, n), NEW u \in 0 .. n
    PROVE  /\ u = 0 => f[u] = {}
           /\ u # 0 => f[u] = {u} \cup f[turn[u].parent]
<1> DEFINE E(k) == IF k = 0 THEN {} ELSE {k} \cup f[turn[k].parent]
<1>1. f = [k \in 0 .. n |-> E(k)]  BY DEF IsUp
<1> HIDE DEF E
<1>2. f[u] = E(u)  BY <1>1
<1> QED  BY <1>2 DEF E

\* The recursion of Lineage has a solution, as a parent comes first.
LEMMA UpExists ==
    ASSUME NEW N \in Nat, \A u \in 1 .. N : turn[u].parent \in 0 .. u - 1
    PROVE  \E f : IsUp(f, N)
<1> DEFINE S == {n \in Nat : n <= N => \E f : IsUp(f, n)}
<1>1. 0 \in S
    <2> DEFINE f == [i \in 0 .. 0 |-> {}]
    <2>1. IsUp(f, 0)  BY DEF IsUp
    <2> QED  BY <2>1
<1>2. ASSUME NEW n \in S PROVE n + 1 \in S
    <2>1. n \in Nat  OBVIOUS
    <2>2. ASSUME n + 1 <= N PROVE \E f : IsUp(f, n + 1)
        <3>1. PICK f : IsUp(f, n)  BY <2>1, <2>2
        <3> DEFINE g == [i \in 0 .. n + 1 |-> IF i <= n THEN f[i] ELSE {i} \cup f[turn[i].parent]]
        <3>2. ASSUME NEW i \in 0 .. n + 1
              PROVE  g[i] = IF i = 0 THEN {} ELSE {i} \cup g[turn[i].parent]
            <4>1. CASE i = 0
                <5>1. g[i] = f[i]  BY <2>1, <4>1
                <5>2. f[i] = {}  BY <2>1, <3>1, <4>1, UpValue
                <5> HIDE DEF g
                <5> QED  BY <4>1, <5>1, <5>2
            <4>2. CASE i \in 1 .. n + 1
                <5>1. turn[i].parent \in 0 .. i - 1  BY <2>1, <2>2, <4>2
                <5>2. g[turn[i].parent] = f[turn[i].parent]  BY <2>1, <4>2, <5>1
                <5>3. g[i] = {i} \cup f[turn[i].parent]
                    <6>1. CASE i <= n
                        <7>1. g[i] = f[i]  BY <2>1, <4>2, <6>1
                        <7>2. f[i] = {i} \cup f[turn[i].parent]  BY <2>1, <3>1, <4>2, <6>1, UpValue
                        <7> HIDE DEF g
                        <7> QED  BY <7>1, <7>2
                    <6>2. CASE ~ (i <= n)  BY <2>1, <4>2, <6>2
                    <6> QED  BY <6>1, <6>2
                <5> HIDE DEF g
                <5> QED  BY <2>1, <4>2, <5>2, <5>3
            <4> QED  BY <2>1, <4>1, <4>2
        <3>3. IsUp(g, n + 1)
            <4>1. g = [i \in 0 .. n + 1 |-> g[i]]  OBVIOUS
            <4> HIDE DEF g
            <4> QED  BY <3>2, <4>1 DEF IsUp
        <3> QED  BY <3>3
    <2> QED  BY <2>1, <2>2
<1>3. S \in SUBSET Nat  OBVIOUS
<1>4. S = Nat
    <2> HIDE DEF S
    <2> QED  BY <1>1, <1>2, <1>3, SetInduction
<1> QED  BY <1>4

\* Two such functions agree where both are defined.
LEMMA UpAgrees ==
    ASSUME NEW N \in Nat, \A u \in 1 .. N : turn[u].parent \in 0 .. u - 1,
           NEW n \in 0 .. N, NEW m \in 0 .. n, NEW f, NEW g, IsUp(f, n), IsUp(g, m)
    PROVE  f[m] = g[m]
<1> DEFINE S == {k \in Nat : \A j \in 0 .. k : j <= m => f[j] = g[j]}
<1>1. 0 \in S
    <2>1. f[0] = {} /\ g[0] = {}  BY UpValue
    <2>2. \A j \in 0 .. 0 : f[j] = g[j]
        <3>1. \A j \in 0 .. 0 : j = 0  OBVIOUS
        <3> QED  BY <2>1, <3>1
    <2> QED  BY <2>2
<1>2. ASSUME NEW k \in S PROVE k + 1 \in S
    <2>1. k \in Nat /\ \A j \in 0 .. k : j <= m => f[j] = g[j]  OBVIOUS
    <2>2. ASSUME k + 1 <= m PROVE f[k + 1] = g[k + 1]
        <3>1. turn[k + 1].parent \in 0 .. k  BY <2>1, <2>2
        <3>2. f[k + 1] = {k + 1} \cup f[turn[k + 1].parent]  BY <2>1, <2>2, UpValue
        <3>3. g[k + 1] = {k + 1} \cup g[turn[k + 1].parent]  BY <2>1, <2>2, UpValue
        <3>4. f[turn[k + 1].parent] = g[turn[k + 1].parent]  BY <2>1, <2>2, <3>1
        <3> QED  BY <3>2, <3>3, <3>4
    <2> QED  BY <2>1, <2>2
<1>3. S \in SUBSET Nat  OBVIOUS
<1>4. S = Nat
    <2> HIDE DEF S
    <2> QED  BY <1>1, <1>2, <1>3, SetInduction
<1>5. m \in S  BY <1>4
<1> QED  BY <1>5

\* Lineage(t) is the last value of that function.
LEMMA LineageIsLast ==
    ASSUME NEW t \in Nat, \A u \in 1 .. t : turn[u].parent \in 0 .. u - 1
    PROVE  \E f : IsUp(f, t) /\ Lineage(t) = f[t]
<1> DEFINE f == CHOOSE f : f = [u \in 0 .. t |-> IF u = 0 THEN {} ELSE {u} \cup f[turn[u].parent]]
<1>0. \E g : IsUp(g, t)  BY UpExists
<1>1. IsUp(f, t)  BY <1>0 DEF IsUp
<1>2. Lineage(t) = f[t]  BY DEF Lineage
<1> QED  BY <1>1, <1>2

\* A turn, and the lineage of its parent.
LEMMA LineageEquation ==
    ASSUME Forest, NEW t \in Admitted
    PROVE  Lineage(t) = {t} \cup IF turn[t].parent = 0 THEN {} ELSE Lineage(turn[t].parent)
<1> DEFINE p == turn[t].parent
<1>1. Len(turn) \in Nat /\ t \in Nat /\ t # 0  BY DEF Forest, Admitted
<1>2. \A u \in 1 .. t : turn[u].parent \in 0 .. u - 1  BY <1>1 DEF Forest, Admitted
<1>3. p \in 0 .. t - 1  BY <1>1, <1>2
<1>4. PICK f : IsUp(f, t) /\ Lineage(t) = f[t]  BY <1>1, <1>2, LineageIsLast
<1>5. f[t] = {t} \cup f[p]  BY <1>1, <1>4, UpValue
<1>6. CASE p = 0
    <2>1. f[p] = {}  BY <1>1, <1>4, <1>6, UpValue
    <2> QED  BY <1>4, <1>5, <1>6, <2>1
<1>7. CASE p # 0
    <2>1. PICK g : IsUp(g, p) /\ Lineage(p) = g[p]  BY SMTT(30), <1>1, <1>2, <1>3, LineageIsLast
    <2>2. f[p] = g[p]
        <3>1. t \in 0 .. t /\ p \in 0 .. t  BY <1>1, <1>3
        <3>2. t \in Nat /\ IsUp(f, t) /\ IsUp(g, p)  BY <1>1, <1>4, <2>1
        <3> HIDE DEF p
        <3> QED  BY ZenonT(60), <1>2, <3>1, <3>2, UpAgrees
    <2> QED  BY <1>4, <1>5, <1>7, <2>1, <2>2
<1> QED  BY <1>6, <1>7

\* A lineage leads to the root of its tree.
LEMMA LineageProperties ==
    ASSUME Forest, NEW t \in Admitted
    PROVE  /\ t \in Lineage(t) /\ Root(t) \in Lineage(t)
           /\ \A u \in Lineage(t) : u \in 1 .. t /\ Root(u) = Root(t)
<1> DEFINE Good(k) == /\ Root(k) \in Lineage(k)
                      /\ \A u \in Lineage(k) : u \in 1 .. k /\ Root(u) = Root(k)
           S == {n \in Nat : \A k \in Admitted : k <= n => Good(k)}
<1>1. Len(turn) \in Nat /\ Admitted = 1 .. Len(turn)  BY DEF Forest, Admitted
<1>2. 0 \in S
    <2> HIDE DEF Good
    <2> QED  BY <1>1
<1>3. ASSUME NEW n \in S PROVE n + 1 \in S
    <2>1. n \in Nat /\ \A k \in Admitted : k <= n => Good(k)  OBVIOUS
    <2>2. ASSUME n + 1 \in Admitted PROVE Good(n + 1)
        <3> DEFINE p == turn[n + 1].parent
        <3>1. /\ p \in 0 .. n /\ Root(n + 1) \in 1 .. n + 1
              /\ p = 0 <=> Root(n + 1) = n + 1
              /\ p # 0 => Root(p) = Root(n + 1)
            BY <2>1, <2>2 DEF Forest
        <3>2. Lineage(n + 1) = {n + 1} \cup IF p = 0 THEN {} ELSE Lineage(p)
            BY <2>2, LineageEquation
        <3>3. CASE p = 0  BY <2>1, <3>1, <3>2, <3>3
        <3>4. CASE p # 0
            <4>1. p \in Admitted /\ p <= n  BY <1>1, <2>1, <2>2, <3>1, <3>4
            <4>2. Good(p)  BY <2>1, <4>1
            <4> HIDE DEF p
            <4> QED  BY <2>1, <3>1, <3>2, <3>4, <4>2
        <3> QED  BY <3>3, <3>4
    <2> HIDE DEF Good
    <2> QED  BY <1>1, <2>1, <2>2
<1>4. S \in SUBSET Nat  OBVIOUS
<1>5. S = Nat
    <2> HIDE DEF S
    <2> QED  BY <1>2, <1>3, <1>4, SetInduction
<1>6. Good(t)  BY <1>1, <1>5
<1>7. t \in Lineage(t)  BY LineageEquation
<1> QED  BY <1>6, <1>7
-----------------------------------------------------------------------------
(* What a step does to the trees, whatever it does to the rest. *)

Idle == UNCHANGED <<nodes, state, scheduling, repository>>

\* A turn enters the tree r as the root or below parent.
Entering(t, m, r, parent, via) ==
    /\ t \in Turns /\ t = Len(turn) + 1 /\ m \in Messages
    /\ \A u \in graph : turn[u].msg # m
    /\ \/ /\ parent = 0 /\ r = t /\ via = "none"
          /\ published' = published \cup {t}
       \/ /\ parent \in graph /\ r = Root(parent) /\ via \in Kinds
          /\ via = "status" => parent \in status
          /\ published' = published
    /\ turn' = Append(turn, [msg |-> m, root |-> r, parent |-> parent, via |-> via])
    /\ graph' = graph \cup {t} /\ status' = status \cup {t} /\ session' = session
    /\ index' = index \cup ({t} \X Kinds)
    /\ stopped' = stopped
    /\ EnqueueOrClaim(r, t)

\* The task of t goes on.
MovingOn(t) ==
    /\ t \in Turns /\ task[t] # "none"
    /\ \E w \in {"running", "finishing"} :
          /\ w = "finishing" => state[t] # "in_progress"
          /\ task' = [task EXCEPT ![t] = w]
    /\ UNCHANGED <<nodes, state, queue, active, stopped, repository>>

Recording(t) ==
    /\ t \in graph /\ state[t] = "in_progress"
    /\ session' = session \cup {t}
    /\ UNCHANGED <<turn, graph, status, state, scheduling, repository>>

\* Its turn completes, or has settled before.
Completing(t) ==
    /\ t \in Turns /\ task[t] \in Running
    /\ task' = [task EXCEPT ![t] = "over"]
    /\ UNCHANGED <<turn, graph, status, queue, active, stopped, repository>>
    /\ \/ /\ state[t] # "in_progress"
          /\ UNCHANGED <<state, session>>
       \/ /\ t \in graph /\ t \notin stopped /\ state[t] \in {"in_progress", "error"}
          /\ state' = [state EXCEPT ![t] = "completed"]
          /\ session' \in {session, session \cup {t}}

\* Its turn fails, with turns of its tree that wait, or has settled before.
Failing(t, failed) ==
    /\ t \in Turns /\ task[t] \in Running
    /\ \E w \in {"running", "over", "finishing"} : task' = [task EXCEPT ![t] = w]
    /\ failed \subseteq graph
    /\ \A u \in failed : Root(u) = Root(t) /\ (u = t \/ state[u] = "pending")
    /\ t \in failed => state[t] # "completed"
    /\ t \notin failed => state[t] # "in_progress"
    /\ state' = [u \in Turns |-> IF u \in failed THEN "error" ELSE state[u]]
    /\ queue' = [r \in Turns |-> Without(queue[r], failed)]
    /\ UNCHANGED <<nodes, active, stopped, repository>>

\* Its claim passes to the next turn that waits, or ends.
Finishing(t) ==
    /\ t \in Admitted /\ task[t] \in {"finishing", "recovering"}
    /\ active[Root(t)] = t
    /\ LET r == Root(t)
           next == Head(queue[r])
       IN  IF queue[r] = <<>>
           THEN /\ task' = [task EXCEPT ![t] = "none"]
                /\ active' = [active EXCEPT ![r] = 0]
                /\ UNCHANGED <<queue, state>>
           ELSE /\ next \in graph /\ state[next] = "pending" /\ Root(next) = r /\ next # t
                /\ active' = [active EXCEPT ![r] = next]
                /\ queue' = [queue EXCEPT ![r] = Tail(@)]
                /\ state' = [state EXCEPT ![next] = "in_progress"]
                /\ task' = [task EXCEPT ![t] = "none", ![next] = "launched"]
    /\ stopped' = stopped \ {t}
    /\ UNCHANGED <<nodes, repository>>

\* Nodes are cancelled, some of them removed, some lose their status.
Cancelling(gone, removed, cleared) ==
    /\ gone \subseteq graph /\ removed \subseteq gone /\ cleared \subseteq gone
    /\ \A t \in graph :
          \/ t \in removed
          \/ /\ Root(t) \notin removed
             /\ turn[t].parent \notin removed
             /\ turn[t].via = "status" => turn[t].parent \notin cleared
    /\ CancelNodes(gone, removed, cleared)
    /\ RemoveNodes(removed, cleared)
    /\ index' = index \ ((removed \X Kinds) \cup (cleared \X {"status"}))
    /\ published' = published \ removed
-----------------------------------------------------------------------------
(* Each action has one of these effects. *)

\* The turns admitted so far.
LEMMA AdmittedFacts ==
    ASSUME Forest
    PROVE  /\ Len(turn) \in Nat /\ Admitted = 1 .. Len(turn) /\ Admitted \subseteq Turns
           /\ MaxTurns \in Nat /\ Turns = 1 .. MaxTurns
           /\ \A t \in Admitted : Root(t) \in Admitted /\ turn[t].msg \in Messages
<1>1. Len(turn) \in Nat /\ Len(turn) <= MaxTurns  BY DEF Forest
<1>2. MaxTurns \in Nat  BY BoundsAssumption
<1>3. Admitted = 1 .. Len(turn) /\ Admitted \subseteq Turns
    BY <1>1, <1>2 DEF Admitted, Turns
<1>4. ASSUME NEW t \in Admitted PROVE Root(t) \in Admitted /\ turn[t].msg \in Messages
    <2>1. turn[t] \in TurnRecord  BY <1>1, <1>3 DEF Forest
    <2>2. turn[t].msg \in Messages  BY <2>1 DEF TurnRecord
    <2>3. Root(t) \in 1 .. t  BY DEF Forest
    <2> QED  BY <1>1, <1>3, <2>2, <2>3
<1> QED  BY <1>1, <1>2, <1>3, <1>4 DEF Turns

\* A node that is pending waits in its queue, behind a claim.
LEMMA PendingWaits ==
    ASSUME Inv, NEW t \in graph, state[t] = "pending"
    PROVE  t \in Range(queue[Root(t)]) /\ queue[Root(t)] # <<>> /\ active[Root(t)] # 0
<1>1. Root(t) \in Turns /\ t \in Members(Root(t))
    BY AdmittedFacts DEF Inv, Types, NodesTyped, Members
<1>2. t \in Range(queue[Root(t)])
    BY <1>1 DEF Inv, SchedulingInv, QueueIsServed, NoneStranded
<1>3. Range(<<>>) = {}  BY DEF Range
<1>4. queue[Root(t)] # <<>>  BY <1>2, <1>3
<1> QED  BY <1>1, <1>2, <1>4 DEF Inv, SchedulingInv, QueueIsServed, NoneStranded

\* A prompt in the index is a node, and a status that of a node that has one.
LEMMA IndexFacts ==
    ASSUME Inv, NEW ref \in index
    PROVE  /\ ref \in References /\ ref[1] \in graph /\ ref[2] \in Kinds
           /\ ref[2] = "status" => ref[1] \in status
           /\ Root(ref[1]) \in published /\ Root(ref[1]) \in Admitted
<1>1. ref \in (graph \X {"prompt"}) \cup (status \X {"status"}) /\ graph \subseteq Turns
    BY AdmittedFacts DEF Inv, Types, NodesTyped
<1>2. ref[1] \in graph /\ ref[2] \in Kinds /\ (ref[2] = "status" => ref[1] \in status)
    BY <1>1 DEF Inv, Types, NodesTyped, Kinds
<1>3. ref \in References  BY <1>1, <1>2 DEF References, Inv, Types, NodesTyped, Kinds
<1> QED  BY <1>2, <1>3, AdmittedFacts DEF Inv, Types, NodesTyped, SchedulingInv, TreesAreWhole

\* A message that is delivered again is in a tree, where nothing has to be done.
LEMMA RedeliveredIsIdle ==
    ASSUME Inv, NEW m \in Messages, Redelivered(m)
    PROVE  Idle /\ UNCHANGED store
<1>1. PICK t \in Duplicates(m) :
          IF state[t] = "pending" /\ (active[Root(t)] = 0 \/ t \notin Range(queue[Root(t)]))
          THEN EnqueueOrClaim(Root(t), t) /\ Save(Root(t))
          ELSE UNCHANGED <<state, queue, active, task, store>>
    BY DEF Redelivered
<1>2. t \in graph
    BY <1>1, IndexFacts DEF Duplicates
<1>3. UNCHANGED <<state, queue, active, task, store>>
    BY <1>1, <1>2, PendingWaits
<1> QED  BY <1>3 DEF Redelivered, Idle, nodes, scheduling, repository

\* Admission: the turn enters its tree, whose snapshot is saved.
LEMMA AdmitEnters ==
    ASSUME Inv, NEW m \in Messages, Admit(m)
    PROVE  \E t, r, parent, via : Entering(t, m, r, parent, via) /\ Save(r)
<1>1. PICK t \in Turns :
          /\ t = Len(turn) + 1
          /\ \/ /\ inbox[m].ref = None
                /\ Enter(t, m, t, 0, "none")
                /\ published' = published \cup {t}
             \/ \E ref \in index :
                /\ inbox[m].ref = ref
                /\ Enter(t, m, Root(ref[1]), ref[1], ref[2])
                /\ UNCHANGED published
    BY DEF Admit
<1>2. \A u \in graph : turn[u].msg # m
    <2>1. \A u \in graph : u \in Turns /\ <<u, "prompt">> \in index
        BY AdmittedFacts DEF Inv, Types, NodesTyped
    <2> QED  BY <2>1 DEF Admit, Duplicates
<1>3. CASE Enter(t, m, t, 0, "none") /\ published' = published \cup {t}
    <2>1. Entering(t, m, t, 0, "none")  BY <1>1, <1>2, <1>3 DEF Enter, Entering
    <2> QED  BY <1>3, <2>1 DEF Enter
<1>4. ASSUME NEW ref \in index, Enter(t, m, Root(ref[1]), ref[1], ref[2]), UNCHANGED published
      PROVE  Entering(t, m, Root(ref[1]), ref[1], ref[2]) /\ Save(Root(ref[1]))
    BY <1>1, <1>2, <1>4, IndexFacts DEF Enter, Entering
<1> QED  BY <1>1, <1>3, <1>4

\* A claimed turn is the active one of its tree.
LEMMA TaskIsActive ==
    ASSUME Inv, NEW t \in Turns, task[t] # "none"
    PROVE  /\ t \in Admitted /\ active[Root(t)] = t /\ state[t] # "pending"
           /\ Root(t) \in Admitted
<1>1. t \in Admitted  BY DEF Inv, SchedulingInv, ClaimsAreHome
<1>2. active[Root(t)] = t  BY <1>1 DEF Inv, SchedulingInv, ClaimsAreHome, ClaimsHaveTasks
<1>3. Root(t) \in Turns /\ t # 0 /\ Root(t) \in Admitted  BY <1>1, AdmittedFacts DEF Inv, Types
<1> QED  BY <1>1, <1>2, <1>3 DEF Inv, SchedulingInv, ClaimsAreHome

\* A turn in progress may still write to its tree, whose node it is.
LEMMA InProgressOwns ==
    ASSUME Inv, NEW t \in Turns, task[t] # "none", state[t] = "in_progress"
    PROVE  Owns(t) /\ t \in graph
<1>1. t \in graph  BY DEF Inv, Types, NodesTyped
<1>2. Root(t) \in published  BY <1>1 DEF Inv, SchedulingInv, TreesAreWhole
<1>3. t \notin stopped  BY DEF Inv, SchedulingInv, LeftSettled, Runnable
<1> QED  BY <1>1, <1>2, <1>3, TaskIsActive DEF Owns

\* Start and EndStream move the task on.
LEMMA StartMovesOn ==
    ASSUME Inv, NEW t \in Turns, Start(t) \/ EndStream(t)
    PROVE  MovingOn(t) /\ UNCHANGED store
<1>1. CASE Start(t)
    BY <1>1 DEF Start, TaskGoes, MovingOn, files, nodes, repository
<1>2. CASE EndStream(t)
    <2>1. state[t] # "in_progress"  BY <1>2 DEF EndStream, Inv, SchedulingInv, LeftSettled
    <2> QED  BY <1>2, <2>1 DEF EndStream, TaskGoes, MovingOn, runnerKeeps, nodes, repository
<1> QED  BY <1>1, <1>2

\* What the runner reports of a session.
LEMMA RecordSessionRecords ==
    ASSUME Inv, NEW t \in Turns, RecordSession(t)
    PROVE  Recording(t) /\ Root(t) \in published /\ Save(Root(t))
BY DEF RecordSession, Recording, Owns

\* A completion.
LEMMA CompleteCompletes ==
    ASSUME Inv, NEW t \in Turns, NEW known \in BOOLEAN, Complete(t, known)
    PROVE  /\ Completing(t)
           /\ UNCHANGED store \/ (Root(t) \in published /\ Save(Root(t)))
<1>1. CASE Owns(t) /\ t \in graph /\ state[t] \in {"in_progress", "error"}
    BY <1>1 DEF Complete, Completing, TaskGoes, Owns, repository
<1>2. CASE ~(Owns(t) /\ t \in graph /\ state[t] \in {"in_progress", "error"})
    <2>1. state[t] # "in_progress"  BY <1>2, InProgressOwns DEF Complete, Running
    <2> QED  BY <1>2, <2>1 DEF Complete, Completing, TaskGoes, repository
<1> QED  BY <1>1, <1>2

\* A failure: what Fail does, with the turns that fail.
LEMMA FailFails ==
    ASSUME Inv, NEW t \in Turns, NEW propagate \in BOOLEAN, Fail(t, propagate),
           task[t] \in Running,
           \E w \in {"running", "over", "finishing"} : task' = [task EXCEPT ![t] = w],
           UNCHANGED <<nodes, active, stopped, repository>>
    PROVE  /\ \E failed : Failing(t, failed)
           /\ UNCHANGED store \/ (Root(t) \in published /\ Save(Root(t)))
<1>0. /\ t \in Admitted /\ Root(t) \in Turns /\ active[Root(t)] = t /\ task[t] # "none"
      /\ queue \in [Turns -> Seq(Admitted)] /\ Admitted \in SUBSET Nat
      /\ state \in [Turns -> States \cup {"none"}]
    BY SMTT(30), TaskIsActive, AdmittedFacts DEF Inv, Types, SchedulingTyped, NodesTyped, Running
<1>1. CASE ~(Owns(t) /\ t \in graph)
    <2>1. UNCHANGED <<state, queue, store>>  BY <1>1 DEF Fail, FailAnd
    <2>2. state[t] # "in_progress"  BY <1>0, <1>1, InProgressOwns
    <2>3. ASSUME NEW r \in Turns PROVE queue[r] = Without(queue[r], {})
        BY <1>0, WithoutProperties
    <2>4. queue' = [r \in Turns |-> Without(queue[r], {})]
        <3>1. queue = [r \in Turns |-> queue[r]]  BY <1>0
        <3> QED  BY <2>1, <2>3, <3>1
    <2>5. state' = [u \in Turns |-> IF u \in {} THEN "error" ELSE state[u]]
        BY <1>0, <2>1
    <2>6. Failing(t, {})  BY <1>0, <2>2, <2>4, <2>5 DEF Failing
    <2> QED  BY <2>1, <2>6
<1>2. CASE Owns(t) /\ t \in graph
    <2> DEFINE r == Root(t)
               children == {u \in Below(t) \ {t} : propagate /\ state[u] = "pending"}
               failed == IF state[t] = "completed" THEN {} ELSE children \cup {t}
    <2>1. /\ state' = [u \in Turns |-> IF u \in failed THEN "error" ELSE state[u]]
          /\ queue' = [queue EXCEPT ![r] = Without(@, failed)]
          /\ Save(r)
        BY <1>2 DEF Fail, FailAnd
    <2>2. \A u \in failed : u \in graph /\ Root(u) = r /\ (u = t \/ state[u] = "pending")
        <3>1. ASSUME NEW u \in children PROVE u \in graph /\ Root(u) = r /\ state[u] = "pending"
            <4>1. u \in graph /\ t \in Lineage(u)  BY DEF Below
            <4>2. u \in Admitted  BY <4>1 DEF Inv, Types, NodesTyped
            <4>3. Root(t) = Root(u)  BY <4>1, <4>2, LineageProperties DEF Inv, Types
            <4> QED  BY <4>1, <4>3
        <3> HIDE DEF children
        <3> QED  BY <1>2, <3>1
    <2>3. t \in failed => state[t] # "completed"  OBVIOUS
    <2>4. t \notin failed => state[t] # "in_progress"  OBVIOUS
    <2> HIDE DEF failed
    <2>5. queue' = [q \in Turns |-> Without(queue[q], failed)]
        <3>1. ASSUME NEW q \in Turns, q # r PROVE Without(queue[q], failed) = queue[q]
            <4>1. Range(queue[q]) \subseteq Members(q)
                BY DEF Inv, SchedulingInv, QueueIsServed, NoneStranded
            <4>2. Range(queue[q]) \cap failed = {}  BY <2>2, <3>1, <4>1 DEF Members
            <4>3. queue[q] \in Seq(Admitted)  BY <1>0
            <4> QED  BY <1>0, <4>2, <4>3, WithoutProperties
        <3>2. queue' = [q \in Turns |-> IF q = r THEN Without(queue[r], failed) ELSE queue[q]]
            BY <1>0, <2>1
        <3> QED  BY <1>0, <3>1, <3>2
    <2>6. Failing(t, failed)
        BY <1>0, <2>1, <2>2, <2>3, <2>4, <2>5 DEF Failing
    <2> QED  BY <1>2, <2>1, <2>6 DEF Owns
<1> QED  BY <1>1, <1>2

\* The actions of a runner that report a failure.
LEMMA RunnerFails ==
    ASSUME Inv, NEW t \in Turns,
           ReportError(t) \/ ExitWithError(t) \/ BreakOff(t) \/ GiveUp(t)
    PROVE  /\ \E failed : Failing(t, failed)
           /\ UNCHANGED store \/ (Root(t) \in published /\ Save(Root(t)))
<1>1. /\ task[t] \in Running
      /\ UNCHANGED <<nodes, active, stopped, repository>>
      /\ \E propagate \in BOOLEAN : Fail(t, propagate)
    BY DEF ReportError, ExitWithError, BreakOff, GiveUp, runnerKeeps, Running
<1>2. \E w \in {"running", "over", "finishing"} : task' = [task EXCEPT ![t] = w]
    <2>1. CASE ReportError(t)
        <3>1. task' = task /\ task[t] \in {"running", "over"}  BY <2>1 DEF ReportError, Running
        <3>2. task' = [task EXCEPT ![t] = task[t]]
            BY <3>1 DEF Inv, Types, SchedulingTyped
        <3> QED  BY <3>1, <3>2
    <2>2. CASE ExitWithError(t) \/ BreakOff(t) \/ GiveUp(t)
        BY <2>2 DEF ExitWithError, BreakOff, GiveUp, TaskGoes
    <2> QED  BY <2>1, <2>2
<1> QED  BY <1>1, <1>2, FailFails
\* The turns of a queue are pending nodes of its tree.
LEMMA QueuedArePending ==
    ASSUME Inv, NEW r \in Turns, NEW i \in 1 .. Len(queue[r])
    PROVE  /\ queue[r][i] \in graph /\ Root(queue[r][i]) = r
           /\ state[queue[r][i]] = "pending" /\ queue[r][i] \in Admitted
<1>1. queue[r][i] \in Range(queue[r])
    BY RangeEquality DEF Inv, Types, SchedulingTyped
<1> QED  BY <1>1 DEF Inv, Types, NodesTyped, SchedulingInv, QueueIsServed, NoneStranded, Members

\* The end of a task hands its claim to the first of the queue.
LEMMA FinishFinishes ==
    ASSUME Inv, NEW t \in Turns, Finish(t)
    PROVE  Finishing(t)
<1> DEFINE r == Root(t)
           ready == {i \in DOMAIN queue[r] : /\ queue[r][i] \in graph
                                             /\ state[queue[r][i]] = "pending"}
<1>1. /\ t \in Admitted /\ active[r] = t /\ r \in Turns /\ state[t] # "pending"
      /\ task[t] \in {"finishing", "recovering"}
    BY TaskIsActive, AdmittedFacts DEF Inv, Types, Finish
<1>2. /\ queue[r] \in Seq(Admitted) /\ Len(queue[r]) \in Nat /\ DOMAIN queue[r] = 1 .. Len(queue[r])
    BY <1>1 DEF Inv, Types, SchedulingTyped
<1>3. ready = 1 .. Len(queue[r])
    <2>1. \A i \in 1 .. Len(queue[r]) : queue[r][i] \in graph /\ state[queue[r][i]] = "pending"
        BY <1>1, QueuedArePending
    <2> QED  BY <1>2, <2>1
<1>4. CASE queue[r] = <<>>
    <2>1. ready = {}  BY <1>3, <1>4
    <2>2. /\ TaskGoes(t, "none")
          /\ active' = [active EXCEPT ![r] = 0]
          /\ queue' = [queue EXCEPT ![r] = <<>>]
          /\ UNCHANGED state
        BY <1>1, <2>1 DEF Finish
    <2>3. queue' = queue  BY <1>1, <1>4, <2>2 DEF Inv, Types, SchedulingTyped
    <2> QED  BY <1>1, <1>4, <2>2, <2>3 DEF Finishing, Finish, TaskGoes
<1>5. CASE queue[r] # <<>>
    <2>1. Len(queue[r]) >= 1  BY <1>2, <1>5
    <2>2. First(ready) = 1
        <3>1. 1 \in ready /\ \A j \in ready : 1 <= j  BY <1>2, <1>3, <2>1
        <3>2. \A i \in ready : (\A j \in ready : i <= j) => i = 1
            BY <1>2, <1>3, <3>1
        <3> HIDE DEF ready
        <3> QED  BY <3>1, <3>2 DEF First
    <2>3. Head(queue[r]) = queue[r][1]  BY <1>2, <1>5
    <2>4. SubSeq(queue[r], 2, Len(queue[r])) = Tail(queue[r])
        BY <1>2, <1>5, TailIsSubSeq
    <2> DEFINE next == queue[r][1]
    <2>5. /\ next \in graph /\ state[next] = "pending" /\ Root(next) = r
        BY <1>1, <1>2, <2>1, QueuedArePending
    <2>6. r \in published  BY <2>5 DEF Inv, SchedulingInv, TreesAreWhole
    <2>7. ready # {}  BY <1>2, <1>3, <2>1
    <2>8. /\ active' = [active EXCEPT ![r] = next]
          /\ queue' = [queue EXCEPT ![r] = SubSeq(@, 1 + 1, Len(@))]
          /\ state' = [state EXCEPT ![next] = "in_progress"]
          /\ task' = [task EXCEPT ![t] = "none",
                        ![next] = IF r \in published THEN "launched" ELSE "none"]
        <3> HIDE DEF ready
        <3>1. /\ active' = [active EXCEPT ![r] = queue[r][First(ready)]]
              /\ queue' = [queue EXCEPT ![r] = SubSeq(@, First(ready) + 1, Len(@))]
              /\ state' = [state EXCEPT ![queue[r][First(ready)]] = "in_progress"]
              /\ task' = [task EXCEPT ![t] = "none",
                            ![queue[r][First(ready)]] = IF r \in published THEN "launched" ELSE "none"]
            BY <1>1, <2>7 DEF Finish, ready
        <3> QED  BY <2>2, <3>1
    <2>9. queue' = [queue EXCEPT ![r] = Tail(@)]
        <3>1. queue' = [queue EXCEPT ![r] = SubSeq(queue[r], 1 + 1, Len(queue[r]))]
            BY <2>8
        <3>2. 1 + 1 = 2  OBVIOUS
        <3>3. queue' = [queue EXCEPT ![r] = Tail(queue[r])]  BY <2>4, <3>1, <3>2
        <3> QED  BY <3>3
    <2>10. task' = [task EXCEPT ![t] = "none", ![next] = "launched"]  BY <2>6, <2>8
    <2>11. next # t  BY <1>1, <2>5
    <2> HIDE DEF next
    <2>12. Head(queue[r]) = next  BY <2>3 DEF next
    <2> QED  BY <1>1, <1>5, <2>5, <2>8, <2>9, <2>10, <2>11, <2>12 DEF Finishing, Finish
<1> QED  BY <1>4, <1>5

\* A removal of nothing.
LEMMA NothingRemoved ==
    ASSUME Inv, UNCHANGED <<nodes, repository>>, NEW gone \in SUBSET graph,
           CancelNodes(gone, {}, {})
    PROVE  Cancelling(gone, {}, {})
<1>1. RemoveNodes({}, {})  BY DEF RemoveNodes, nodes
<1>2. index' = index \ (({} \X Kinds) \cup ({} \X {"status"}))  BY DEF repository
<1>3. published' = published \ {}  BY DEF repository
<1> QED  BY <1>1, <1>2, <1>3 DEF Cancelling

\* /stop of a reply.
LEMMA StopReplyCancels ==
    ASSUME Inv, NEW ref, StopReply(ref)
    PROVE  \/ Idle /\ UNCHANGED cmd
           \/ \E gone : Cancelling(gone, {}, {}) /\ cmd'.at = "draining" /\ cmd'.chat = None
<1>1. ref \in index /\ UNCHANGED <<nodes, repository>>  BY DEF StopReply
<1>2. CASE Targetless(Root(ref[1])) /\ active[Root(ref[1])] = ref[1]
    BY <1>1, <1>2 DEF StopReply, Idle, scheduling
<1>3. CASE ~(Targetless(Root(ref[1])) /\ active[Root(ref[1])] = ref[1])
    <2>1. CancelNodes({ref[1]}, {}, {}) /\ Drain({Root(ref[1])}, {}, None)
        BY <1>3 DEF StopReply
    <2>2. {ref[1]} \in SUBSET graph  BY <1>1, IndexFacts
    <2> QED  BY <1>1, <2>1, <2>2, NothingRemoved DEF Drain
<1> QED  BY <1>2, <1>3

\* /stop of everything.
LEMMA StopAllCancels ==
    ASSUME Inv, StopAll
    PROVE  \E gone : /\ Cancelling(gone, {}, {})
                     /\ UNCHANGED cmd \/ (cmd'.at = "draining" /\ cmd'.chat = None)
<1> DEFINE gone == NodesOf(Reached(published))
<1>1. gone \in SUBSET graph  BY DEF NodesOf
<1>2. CancelNodes(gone, {}, {}) /\ UNCHANGED <<nodes, repository>>
      /\ (UNCHANGED cmd \/ (cmd'.at = "draining" /\ cmd'.chat = None))
    BY DEF StopAll, Drain
<1> HIDE DEF gone
<1> QED  BY <1>1, <1>2, NothingRemoved

\* A subtree is closed: it has the replies of its nodes, and all or nothing of
\* the tree with its root.
LEMMA SubtreeIsClosed ==
    ASSUME Inv, NEW t \in graph, NEW u \in graph
    PROVE  /\ u \in Below(t) => Root(u) = Root(t)
           /\ turn[u].parent \in Below(t) => u \in Below(t)
           /\ turn[u].parent = t => u \in Below(u) /\ u \in Below(t)
           /\ Root(u) \in Below(t) => u \in Below(t)
<1>1. Forest /\ t \in Admitted /\ u \in Admitted  BY DEF Inv, Types, NodesTyped
<1>2. u \in Below(t) => Root(u) = Root(t)
    BY <1>1, LineageProperties DEF Below
<1>3. ASSUME turn[u].parent \in Below(t) \/ turn[u].parent = t PROVE u \in Below(t)
    <2> DEFINE p == turn[u].parent
    <2>1. t \in Lineage(p)  BY <1>1, <1>3, LineageProperties DEF Below
    <2>2. p # 0
        <3>1. graph \subseteq Admitted /\ 0 \notin Admitted  BY <1>1, AdmittedFacts DEF Inv, Types, NodesTyped
        <3> QED  BY <1>3, <3>1 DEF Below
    <2>3. Lineage(u) = {u} \cup Lineage(p)  BY <1>1, <2>2, LineageEquation
    <2> QED  BY <2>1, <2>3 DEF Below
<1>4. u \in Below(u)  BY <1>1, LineageProperties DEF Below
<1>5. ASSUME Root(u) \in Below(t) PROVE u \in Below(t)
    <2>1. Root(u) \in Admitted /\ t \in Lineage(Root(u))
        BY <1>1, <1>5, AdmittedFacts DEF Below
    <2>2. Root(Root(u)) = Root(u)  BY <1>1 DEF Forest
    <2>3. turn[Root(u)].parent = 0  BY <2>1, <2>2, <1>1 DEF Forest
    <2>4. Lineage(Root(u)) = {Root(u)} \cup {}  BY <1>1, <2>1, <2>3, LineageEquation
    <2>5. t = Root(u)  BY <2>1, <2>4
    <2>6. t \in Lineage(u)  BY <1>1, <2>5, LineageProperties
    <2> QED  BY <2>6 DEF Below
<1> QED  BY <1>2, <1>3, <1>4, <1>5

\* /clear of a reply: its subtree, or what follows from its status.
LEMMA ClearReplyCancels ==
    ASSUME Inv, NEW ref, ClearReply(ref)
    PROVE  \/ /\ \E gone : Cancelling(gone, {}, {})
              /\ UNCHANGED <<graph, published, cmd>>
           \/ \E removed, cleared :
                 /\ Cancelling(removed \cup cleared, removed, cleared)
                 /\ \A u \in removed \cup cleared : Root(u) = Root(ref[1])
                 /\ \/ /\ Root(ref[1]) \in removed
                       /\ Drain({}, {Identity(Root(ref[1]))}, None)
                    \/ /\ Root(ref[1]) \notin removed
                       /\ Drain({Root(ref[1])}, {}, None)
<1> DEFINE t == ref[1]
           r == Root(t)
           gone == LiteralSubtree(t, ref[2])
           cleared == IF ref[2] = "status" THEN {t} ELSE {}
<1>1. /\ ref \in index /\ t \in graph /\ r \in published /\ Root(r) = r /\ ref[2] \in Kinds
      /\ graph \subseteq Admitted /\ 0 \notin Admitted /\ published \subseteq graph
    BY IndexFacts, AdmittedFacts DEF ClearReply, Inv, Types, NodesTyped, SchedulingInv, TreesAreWhole
<1>2. gone \subseteq graph /\ cleared \subseteq graph
    BY <1>1 DEF LiteralSubtree, Below
<1>3. CASE Targetless(r) /\ active[r] \in gone \cup cleared
    <2>1. /\ \E some \in SUBSET ((gone \cup cleared) \ {active[r]}) : CancelNodes(some, {}, {})
          /\ UNCHANGED <<nodes, repository, cmd>>
        BY <1>3 DEF ClearReply
    <2>2. \E some \in SUBSET graph : CancelNodes(some, {}, {})
        <3> HIDE DEF gone, cleared
        <3> QED  BY <1>2, <2>1
    <2> QED  BY <2>1, <2>2, NothingRemoved DEF nodes, repository
<1>4. CASE ~(Targetless(r) /\ active[r] \in gone \cup cleared)
    <2>1. /\ CancelNodes(gone \cup cleared, gone, cleared)
          /\ RemoveNodes(gone, cleared)
          /\ Unregister(gone, cleared)
          /\ published' = IF r \in gone THEN published \ {r} ELSE published
          /\ Drain(IF r \in gone THEN {} ELSE {r}, IF r \in gone THEN {Identity(r)} ELSE {}, None)
        BY <1>4 DEF ClearReply
    <2>2. \A u \in gone : Root(u) = r
        <3>1. CASE ref[2] = "prompt"  BY <1>1, <3>1, SubtreeIsClosed DEF LiteralSubtree, Below
        <3>2. CASE ref[2] = "status"
            <4>1. ASSUME NEW u \in gone PROVE Root(u) = r
                <5>1. PICK v \in Replies(t, "status") : u \in Below(v)
                    BY <3>2, <4>1 DEF LiteralSubtree
                <5>2. v \in graph /\ turn[v].parent = t  BY <5>1 DEF Replies
                <5>3. Root(v) = r  BY <1>1, <5>2, SubtreeIsClosed
                <5>4. u \in graph /\ Root(u) = Root(v)  BY <5>1, <5>2, SubtreeIsClosed DEF Below
                <5> QED  BY <5>3, <5>4
            <4> QED  BY <4>1
        <3> QED  BY <1>1, <3>1, <3>2 DEF Kinds
    <2>3. ASSUME NEW u \in graph, u \notin gone
          PROVE  /\ Root(u) \notin gone /\ turn[u].parent \notin gone
                 /\ turn[u].via = "status" => turn[u].parent \notin cleared
        <3>1. CASE ref[2] = "prompt"
            <4>1. gone = Below(t) /\ cleared = {}  BY <3>1 DEF LiteralSubtree
            <4> HIDE DEF gone, cleared
            <4> QED  BY <1>1, <2>3, <4>1, SubtreeIsClosed
        <3>2. CASE ref[2] = "status"
            <4>1. gone = UNION {Below(v) : v \in Replies(t, ref[2])} /\ cleared = {t}
                BY <3>2 DEF LiteralSubtree
            <4>2. \A v \in Replies(t, ref[2]) : v \in graph  BY DEF Replies
            <4>3. \A v \in Replies(t, ref[2]) : u \notin Below(v)  BY <2>3, <4>1
            <4>4. Root(u) \notin gone
                <5>1. \A v \in Replies(t, ref[2]) : Root(u) \notin Below(v)
                    BY <4>2, <4>3, SubtreeIsClosed
                <5> HIDE DEF gone
                <5> QED  BY <4>1, <5>1
            <4>5. turn[u].parent \notin gone
                <5>1. \A v \in Replies(t, ref[2]) : turn[u].parent \notin Below(v)
                    BY <4>2, <4>3, SubtreeIsClosed
                <5> HIDE DEF gone
                <5> QED  BY <4>1, <5>1
            <4>6. ASSUME turn[u].via = "status", turn[u].parent = t PROVE FALSE
                <5>1. u \in Replies(t, ref[2])  BY <3>2, <4>6 DEF Replies
                <5>2. u \in Below(u)  BY <1>1, <4>6, SubtreeIsClosed
                <5> QED  BY <4>3, <5>1, <5>2
            <4> QED  BY <4>1, <4>4, <4>5, <4>6
        <3> QED  BY <1>1, <3>1, <3>2 DEF Kinds
    <2>4. published' = published \ gone
        <3>1. \A q \in published : q \in gone => q = r
            BY <2>2 DEF Inv, SchedulingInv, TreesAreWhole
        <3> HIDE DEF gone, cleared
        <3> QED  BY <2>1, <3>1
    <2>5. \A u \in gone \cup cleared : Root(u) = r
        <3> HIDE DEF gone
        <3> QED  BY <2>2
    <2> HIDE DEF gone, cleared
    <2>6. Cancelling(gone \cup cleared, gone, cleared)
        BY <1>2, <2>1, <2>3, <2>4 DEF Cancelling, Unregister
    <2> QED  BY <2>1, <2>5, <2>6
<1> QED  BY <1>3, <1>4

\* /clear of a chat: the trees that are reached.
LEMMA ClearChatCancels ==
    ASSUME Inv, NEW c \in Chats, ClearChat(c)
    PROVE  \E removed :
              /\ Cancelling(removed, removed, {})
              /\ \A u \in removed : Chat(Root(u)) = c
              /\ Drain({}, {}, c)
<1> DEFINE trees == Reached({r \in published : Chat(r) = c})
           gone == NodesOf(trees)
<1>1. /\ CancelNodes(gone, gone, {})
      /\ RemoveNodes(gone, {})
      /\ Unregister(gone, {})
      /\ published' = published \ trees
      /\ Drain({}, {}, c)
    BY DEF ClearChat
<1>2. trees \subseteq published /\ \A r \in trees : Chat(r) = c  BY DEF Reached
<1> HIDE DEF trees
<1>3. gone \subseteq graph /\ \A u \in gone : Root(u) \in trees  BY DEF NodesOf
<1>4. \A u \in graph : u \in gone <=> Root(u) \in trees  BY DEF NodesOf
<1> HIDE DEF gone
<1>5. \A r \in published : r \in gone <=> r \in trees
    BY <1>4 DEF Inv, SchedulingInv, TreesAreWhole
<1>6. published' = published \ gone  BY <1>1, <1>2, <1>5
<1>7. ASSUME NEW u \in graph, u \notin gone
      PROVE  Root(u) \notin gone /\ turn[u].parent \notin gone
    <2>1. u \in Admitted /\ Root(u) \in published  BY DEF Inv, Types, NodesTyped, SchedulingInv, TreesAreWhole
    <2>2. Root(u) \notin gone  BY <1>4, <1>5, <1>7, <2>1
    <2>3. ASSUME turn[u].parent \in gone PROVE FALSE
        <3>1. turn[u].parent # 0
            BY <1>3, <2>3, AdmittedFacts DEF Inv, Types, NodesTyped
        <3>2. Root(turn[u].parent) = Root(u)  BY <2>1, <3>1 DEF Inv, Types, Forest
        <3> QED  BY <1>3, <1>4, <1>7, <2>3, <3>2
    <2> QED  BY <2>2, <2>3
<1>8. Cancelling(gone, gone, {})
    BY <1>1, <1>3, <1>6, <1>7 DEF Cancelling, Unregister
<1> QED  BY <1>1, <1>2, <1>3, <1>8
-----------------------------------------------------------------------------
(* Types. *)

\* The turns after an admission.
LEMMA EnteringFacts ==
    ASSUME Inv, NEW t, NEW m, NEW r, NEW parent, NEW via, Entering(t, m, r, parent, via)
    PROVE  /\ t \in Turns /\ t \notin Admitted /\ t \notin graph /\ Admitted' = Admitted \cup {t}
           /\ \A u \in Admitted : u < t /\ turn'[u] = turn[u] /\ Root(u)' = Root(u)
           /\ turn'[t] = [msg |-> m, root |-> r, parent |-> parent, via |-> via]
           /\ Root(t)' = r /\ r \in Admitted' /\ turn'[t].parent = parent /\ turn'[t].via = via
           /\ r = t \/ (r \in published /\ r \in Admitted /\ Root(r) = r)
           /\ r \in Turns /\ parent \in 0 .. MaxTurns /\ via \in Kinds \cup {"none"}
<1>1. /\ Len(turn) \in Nat /\ Admitted = 1 .. Len(turn) /\ Admitted \subseteq Turns
      /\ Turns = 1 .. MaxTurns /\ MaxTurns \in Nat /\ graph \subseteq Admitted
      /\ turn \in Seq(TurnRecord)
    BY AdmittedFacts DEF Inv, Types, Forest, NodesTyped
<1>2. t \in Turns /\ t = Len(turn) + 1 /\ m \in Messages
    BY DEF Entering
<1>3. r = t \/ (r \in published /\ r \in Admitted /\ Root(r) = r)
    BY ZenonT(60), <1>1, AdmittedFacts DEF Entering, Inv, SchedulingInv, TreesAreWhole, Types, NodesTyped
<1>4. r \in Turns /\ parent \in 0 .. MaxTurns /\ via \in Kinds \cup {"none"}
    <2>1. r \in Turns  BY <1>1, <1>2, <1>3
    <2>2. parent = 0 \/ parent \in graph  BY DEF Entering
    <2>3. parent \in 0 .. MaxTurns
        <3>1. CASE parent = 0  BY <1>1, <3>1
        <3>2. CASE parent \in graph
            <4>1. parent \in Turns  BY <1>1, <3>2
            <4> QED  BY <1>1, <4>1
        <3> QED  BY <2>2, <3>1, <3>2
    <2>4. via \in Kinds \cup {"none"}  BY DEF Entering
    <2> QED  BY <2>1, <2>3, <2>4
<1> DEFINE rec == [msg |-> m, root |-> r, parent |-> parent, via |-> via]
<1>5. rec \in TurnRecord  BY <1>2, <1>4 DEF TurnRecord
<1>6. turn' = Append(turn, rec)  BY DEF Entering
<1>7. Len(turn') = Len(turn) + 1  BY <1>1, <1>5, <1>6
<1>8. ASSUME NEW u \in Admitted PROVE turn'[u] = turn[u]
    <2> HIDE DEF rec
    <2> QED  BY <1>1, <1>5, <1>6, AppendProperties
<1>9. turn'[t] = rec
    <2> HIDE DEF rec
    <2> QED  BY <1>1, <1>2, <1>5, <1>6, AppendProperties
<1>10. Admitted' = Admitted \cup {t}  BY <1>1, <1>2, <1>7 DEF Admitted
<1> QED  BY <1>1, <1>2, <1>3, <1>4, <1>8, <1>9, <1>10 DEF Root

\* A turn that enters keeps the types.
LEMMA TypesEntering ==
    ASSUME Inv, NEW t, NEW m, NEW r, NEW parent, NEW via, Entering(t, m, r, parent, via)
    PROVE  Forest' /\ NodesTyped' /\ SchedulingTyped'
<1>1. /\ t \in Turns /\ t \notin Admitted /\ t \notin graph /\ Admitted' = Admitted \cup {t}
      /\ \A u \in Admitted : u < t /\ turn'[u] = turn[u] /\ Root(u)' = Root(u)
      /\ turn'[t] = [msg |-> m, root |-> r, parent |-> parent, via |-> via]
      /\ Root(t)' = r /\ r \in Admitted' /\ turn'[t].parent = parent
      /\ r = t \/ (r \in published /\ r \in Admitted /\ Root(r) = r)
    BY EnteringFacts
<1>2. /\ Len(turn) \in Nat /\ Admitted = 1 .. Len(turn) /\ Admitted \subseteq Turns
      /\ Turns = 1 .. MaxTurns /\ MaxTurns \in Nat /\ graph \subseteq Admitted
      /\ turn \in Seq(TurnRecord) /\ Admitted' = 1 .. Len(turn')
    BY AdmittedFacts DEF Inv, Types, Forest, NodesTyped, Admitted
<1>3. t = Len(turn) + 1  BY DEF Entering
<1>4. Forest'
    <2>1. turn' \in Seq(TurnRecord) /\ Len(turn') = Len(turn) + 1
        <3>1. m \in Messages /\ r \in Turns /\ parent \in 0 .. MaxTurns /\ via \in Kinds \cup {"none"}
            BY EnteringFacts DEF Entering
        <3> DEFINE rec == [msg |-> m, root |-> r, parent |-> parent, via |-> via]
        <3>2. rec \in TurnRecord  BY <3>1 DEF TurnRecord
        <3>3. turn' = Append(turn, rec)  BY DEF Entering
        <3> HIDE DEF rec
        <3> QED  BY <1>2, <3>2, <3>3, AppendProperties
    <2>2. Len(turn') <= MaxTurns  BY <1>1, <1>2, <1>3, <2>1
    <2>3. ASSUME NEW u \in Admitted
          PROVE  /\ Root(u)' \in 1 .. u /\ turn'[u].parent \in 0 .. u - 1
                 /\ Root(Root(u))' = Root(u)'
                 /\ turn'[u].parent = 0 <=> Root(u)' = u
                 /\ turn'[u].parent # 0 => turn'[u].via \in Kinds /\ Root(turn[u].parent)' = Root(u)'
        <3>1. turn'[u] = turn[u] /\ Root(u)' = Root(u)  BY <1>1
        <3>2. Root(u) \in Admitted /\ (turn[u].parent # 0 => turn[u].parent \in Admitted)
            BY <1>2, AdmittedFacts DEF Inv, Types, Forest
        <3>3. Root(Root(u))' = Root(Root(u))
            BY <1>1, <3>1, <3>2 DEF Root
        <3>4. turn[u].parent # 0 => Root(turn[u].parent)' = Root(turn[u].parent)
            BY <1>1, <3>2
        <3> QED  BY <3>1, <3>3, <3>4 DEF Inv, Types, Forest
    <2>4. /\ Root(t)' \in 1 .. t /\ turn'[t].parent \in 0 .. t - 1
          /\ Root(Root(t))' = Root(t)'
          /\ turn'[t].parent = 0 <=> Root(t)' = t
          /\ turn'[t].parent # 0 => turn'[t].via \in Kinds /\ Root(turn[t].parent)' = Root(t)'
        <3>1. CASE parent = 0 /\ r = t
            <4>1. Root(Root(t))' = Root(t)'  BY <1>1, <3>1 DEF Root
            <4> QED  BY <1>1, <1>2, <1>3, <3>1, <4>1
        <3>2. CASE parent \in graph /\ r = Root(parent) /\ via \in Kinds
            <4>1. parent \in Admitted /\ r \in Admitted  BY <1>2, <3>2, AdmittedFacts DEF Inv, Types
            <4>2. Root(parent)' = r /\ Root(r) = r  BY <1>1, <3>2, <4>1 DEF Inv, Types, Forest
            <4>3. Root(r)' = r  BY <1>1, <4>1, <4>2
            <4>4. Root(Root(t))' = Root(t)'  BY <1>1, <4>3 DEF Root
            <4>5. Root(turn[t].parent)' = Root(t)'  BY <1>1, <4>2 DEF Root
            <4>6. r < t /\ parent < t /\ r # t  BY <1>1, <4>1
            <4> QED  BY <1>1, <1>2, <1>3, <3>2, <4>1, <4>4, <4>5, <4>6
        <3> QED  BY <3>1, <3>2 DEF Entering
    <2>5. \A u \in Admitted' :
          /\ Root(u)' \in 1 .. u /\ turn'[u].parent \in 0 .. u - 1
          /\ Root(Root(u))' = Root(u)'
          /\ turn'[u].parent = 0 <=> Root(u)' = u
          /\ turn'[u].parent # 0 => turn'[u].via \in Kinds /\ Root(turn[u].parent)' = Root(u)'
        BY <1>1, <2>3, <2>4
    <2> QED  BY <2>1, <2>2, <2>5 DEF Forest
<1>5. EnqueueOrClaim(r, t) /\ r \in Turns  BY <1>1, <1>2 DEF Entering
<1>6. NodesTyped'
    <2>1. /\ graph' = graph \cup {t} /\ status' = status \cup {t} /\ session' = session
          /\ index' = index \cup ({t} \X Kinds)
          /\ published' = published \/ published' = published \cup {t}
        BY DEF Entering
    <2>2. state' \in [Turns -> States \cup {"none"}] /\ state'[t] \in {"pending", "in_progress"}
          /\ \A u \in Turns : u # t => state'[u] = state[u]
        BY <1>1, <1>5 DEF EnqueueOrClaim, EnqueueOr, Claim, Inv, Types, NodesTyped, States, Runnable
    <2>3. \A u \in Turns : u \in graph' <=> state'[u] # "none"
        BY <2>1, <2>2 DEF Inv, Types, NodesTyped
    <2>4. index' = (graph' \X {"prompt"}) \cup (status' \X {"status"})
        BY <2>1 DEF Inv, Types, NodesTyped, Kinds
    <2>5. graph' \subseteq Admitted' /\ status' \subseteq graph' /\ session' \subseteq graph'
          /\ published' \subseteq Admitted'
        BY <1>1, <2>1 DEF Inv, Types, NodesTyped
    <2> QED  BY <2>2, <2>3, <2>4, <2>5 DEF NodesTyped
<1>7. SchedulingTyped'
    <2>1. queue \in [Turns -> Seq(Admitted')]
        <3>1. \A q \in Turns : queue[q] \in Seq(Admitted')
            BY <1>1, SeqMonotonic DEF Inv, Types, SchedulingTyped
        <3> QED  BY <3>1 DEF Inv, Types, SchedulingTyped
    <2>2. active \in [Turns -> Admitted' \cup {0}] /\ stopped \subseteq Admitted'
          /\ task \in [Turns -> {"none", "launched", "running", "over", "finishing", "recovering"}]
        BY <1>1 DEF Inv, Types, SchedulingTyped
    <2>3. Append(queue[r], t) \in Seq(Admitted')  BY <1>1, <1>5, <2>1, AppendProperties
    <2>4. queue' \in [Turns -> Seq(Admitted')]
        BY <1>5, <2>1, <2>3 DEF EnqueueOrClaim, EnqueueOr, Claim
    <2>5. active' \in [Turns -> Admitted' \cup {0}]
        BY <1>1, <1>5, <2>2 DEF EnqueueOrClaim, EnqueueOr, Claim
    <2>6. task' \in [Turns -> {"none", "launched", "running", "over", "finishing", "recovering"}]
        BY <1>5, <2>2 DEF EnqueueOrClaim, EnqueueOr, Claim
    <2>7. stopped' = stopped  BY DEF Entering
    <2> QED  BY <2>2, <2>4, <2>5, <2>6, <2>7 DEF SchedulingTyped
<1> QED  BY <1>4, <1>6, <1>7

\* The forest does not change otherwise.
LEMMA ForestStays ==
    ASSUME Inv, turn' = turn
    PROVE  /\ Forest' /\ Admitted' = Admitted
           /\ \A u : Root(u)' = Root(u)
BY DEF Inv, Types, Forest, Admitted, Root

\* So does a step of the task of a claim.
LEMMA TypesOfRunner ==
    ASSUME Inv, NEW t,
           \/ MovingOn(t) \/ Recording(t) \/ Completing(t)
           \/ \E failed : Failing(t, failed)
           \/ Finishing(t)
    PROVE  Forest' /\ NodesTyped' /\ SchedulingTyped'
<1>0. turn' = turn
    BY DEF MovingOn, Recording, Completing, Failing, Finishing, nodes
<1>1. Forest' /\ Admitted' = Admitted  BY <1>0, ForestStays
<1>2. /\ Admitted \subseteq Turns /\ graph \subseteq Admitted
    BY AdmittedFacts DEF Inv, Types, NodesTyped
<1>3. CASE MovingOn(t)
    <2>1. NodesTyped'
        BY <1>1, <1>3 DEF MovingOn, Inv, Types, NodesTyped, nodes, repository
    <2>2. SchedulingTyped'
        BY <1>1, <1>3 DEF MovingOn, Inv, Types, SchedulingTyped
    <2> QED  BY <1>1, <2>1, <2>2
<1>4. CASE Recording(t)
    <2>1. NodesTyped'
        BY <1>1, <1>4 DEF Recording, Inv, Types, NodesTyped, repository
    <2>2. SchedulingTyped'
        BY <1>1, <1>4 DEF Recording, Inv, Types, SchedulingTyped, scheduling
    <2> QED  BY <1>1, <2>1, <2>2
<1>5. CASE Completing(t)
    <2>1. NodesTyped'
        <3>1. /\ state' \in [Turns -> States \cup {"none"}] /\ session' \subseteq graph
              /\ \A u \in Turns : u \in graph <=> state'[u] # "none"
            BY <1>2, <1>5 DEF Completing, Inv, Types, NodesTyped, States
        <3>2. UNCHANGED <<graph, status, published, index>>  BY <1>5 DEF Completing, repository
        <3> QED  BY <1>1, <3>1, <3>2 DEF Inv, Types, NodesTyped
    <2>2. SchedulingTyped'
        BY <1>1, <1>5 DEF Completing, Inv, Types, SchedulingTyped
    <2> QED  BY <1>1, <2>1, <2>2
<1>6. CASE \E failed : Failing(t, failed)
    <2>0. PICK failed : Failing(t, failed)  BY <1>6
    <2>1. NodesTyped'
        <3>1. /\ failed \subseteq graph
              /\ state' = [u \in Turns |-> IF u \in failed THEN "error" ELSE state[u]]
            BY <2>0 DEF Failing
        <3>2. /\ state' \in [Turns -> States \cup {"none"}]
              /\ \A u \in Turns : u \in graph <=> state'[u] # "none"
            BY <3>1 DEF Inv, Types, NodesTyped, States
        <3>3. UNCHANGED <<graph, status, session, published, index>>
            BY <2>0 DEF Failing, repository, nodes
        <3> QED  BY <1>1, <3>2, <3>3 DEF Inv, Types, NodesTyped
    <2>2. SchedulingTyped'
        <3>1. /\ queue' = [r \in Turns |-> Without(queue[r], failed)]
              /\ \E w \in {"running", "over", "finishing"} : task' = [task EXCEPT ![t] = w]
              /\ UNCHANGED <<active, stopped>>
            BY <2>0 DEF Failing
        <3>2. Admitted \in SUBSET Nat /\ queue \in [Turns -> Seq(Admitted)]
            BY AdmittedFacts DEF Inv, Types, SchedulingTyped
        <3>3. \A r \in Turns : Without(queue[r], failed) \in Seq(Admitted)
            BY <3>2, WithoutProperties
        <3>4. queue' \in [Turns -> Seq(Admitted)]  BY <3>1, <3>3
        <3> QED  BY <1>1, <3>1, <3>4 DEF Inv, Types, SchedulingTyped
    <2> QED  BY <1>1, <2>1, <2>2
<1>7. CASE Finishing(t)
    <2> DEFINE r == Root(t)
               next == Head(queue[r])
    <2>0. r \in Turns /\ queue[r] \in Seq(Admitted)
        BY <1>7, AdmittedFacts DEF Finishing, Inv, Types, SchedulingTyped
    <2>1. CASE queue[r] = <<>>
        <3>1. UNCHANGED <<queue, state>>  BY <1>7, <2>1 DEF Finishing
        <3>2. task' = [task EXCEPT ![t] = "none"] /\ active' = [active EXCEPT ![r] = 0]
            BY <1>7, <2>1 DEF Finishing
        <3>3. stopped' = stopped \ {t} /\ UNCHANGED <<nodes, repository>>  BY <1>7 DEF Finishing
        <3>4. NodesTyped'  BY <1>1, <3>1, <3>3 DEF Inv, Types, NodesTyped, nodes, repository
        <3>5. SchedulingTyped'
            <4> HIDE DEF r
            <4> QED  BY <1>1, <2>0, <3>1, <3>2, <3>3 DEF Inv, Types, SchedulingTyped
        <3> QED  BY <1>1, <3>4, <3>5
    <2>2. CASE queue[r] # <<>>
        <3>1. /\ next \in graph /\ state[next] = "pending"
              /\ active' = [active EXCEPT ![r] = next]
              /\ queue' = [queue EXCEPT ![r] = Tail(@)]
              /\ state' = [state EXCEPT ![next] = "in_progress"]
              /\ task' = [task EXCEPT ![t] = "none", ![next] = "launched"]
            BY <1>7, <2>2 DEF Finishing
        <3>2. Tail(queue[r]) \in Seq(Admitted)  BY <2>0, <2>2, HeadTailProperties
        <3>3. stopped' = stopped \ {t} /\ UNCHANGED <<nodes, repository>>  BY <1>7 DEF Finishing
        <3> HIDE DEF next, r
        <3>4. NodesTyped'
            <4>1. /\ state' \in [Turns -> States \cup {"none"}]
                  /\ \A u \in Turns : u \in graph <=> state'[u] # "none"
                BY <1>2, <3>1 DEF Inv, Types, NodesTyped, States, Runnable
            <4> QED  BY <1>1, <3>3, <4>1 DEF Inv, Types, NodesTyped, nodes, repository
        <3>5. SchedulingTyped'
            <4>1. queue' \in [Turns -> Seq(Admitted)]
                BY <2>0, <3>1, <3>2 DEF Inv, Types, SchedulingTyped
            <4>2. active' \in [Turns -> Admitted \cup {0}]
                BY <1>2, <3>1 DEF Inv, Types, SchedulingTyped
            <4>3. task' \in [Turns -> {"none", "launched", "running", "over", "finishing", "recovering"}]
                BY <3>1 DEF Inv, Types, SchedulingTyped
            <4> QED  BY <1>1, <3>3, <4>1, <4>2, <4>3 DEF Inv, Types, SchedulingTyped
        <3> QED  BY <1>1, <3>4, <3>5
    <2> QED  BY <2>1, <2>2
<1> QED  BY <1>3, <1>4, <1>5, <1>6, <1>7

\* So does a cancellation, of any nodes.
LEMMA TypesCancelling ==
    ASSUME Inv, NEW gone, NEW removed, NEW cleared, Cancelling(gone, removed, cleared)
    PROVE  Forest' /\ NodesTyped' /\ SchedulingTyped'
<1>1. /\ gone \subseteq graph /\ removed \subseteq gone /\ cleared \subseteq gone
      /\ CancelNodes(gone, removed, cleared) /\ RemoveNodes(removed, cleared)
      /\ index' = index \ ((removed \X Kinds) \cup (cleared \X {"status"}))
      /\ published' = published \ removed
    BY DEF Cancelling
<1>2. turn' = turn  BY <1>1 DEF RemoveNodes
<1>3. Forest' /\ Admitted' = Admitted  BY <1>2, ForestStays
<1>4. /\ state' = [t \in Turns |-> IF t \in removed THEN "none"
                      ELSE IF t \in RunnableOf(gone) \cup cleared THEN "error" ELSE state[t]]
      /\ queue' = [r \in Turns |-> Without(queue[r], gone)]
      /\ stopped' = stopped \cup ClaimsOf(gone)
      /\ task' = [t \in Turns |-> IF t \in ClaimsOf(gone) /\ task[t] = "launched"
                                  THEN "recovering" ELSE task[t]]
      /\ active' = active
    BY <1>1 DEF CancelNodes, Cancel
<1>5. NodesTyped'
    <2>1. RunnableOf(gone) \subseteq gone  BY DEF RunnableOf
    <2>2. /\ state' \in [Turns -> States \cup {"none"}]
          /\ \A t \in Turns : t \in graph \ removed <=> state'[t] # "none"
        BY <1>1, <1>4, <2>1 DEF Inv, Types, NodesTyped, States
    <2>3. graph' = graph \ removed /\ status' = status \ (removed \cup cleared)
          /\ session' = session \ (removed \cup cleared)
        BY <1>1 DEF RemoveNodes
    <2>4. index' = (graph' \X {"prompt"}) \cup (status' \X {"status"})
        BY <1>1, <2>3 DEF Inv, Types, NodesTyped, Kinds
    <2> QED  BY <1>1, <1>3, <2>2, <2>3, <2>4 DEF Inv, Types, NodesTyped
<1>6. SchedulingTyped'
    <2>1. Admitted \in SUBSET Nat /\ queue \in [Turns -> Seq(Admitted)]
        BY AdmittedFacts DEF Inv, Types, SchedulingTyped
    <2>2. \A r \in Turns : Without(queue[r], gone) \in Seq(Admitted)
        BY <2>1, WithoutProperties
    <2>3. queue' \in [Turns -> Seq(Admitted)]  BY <1>4, <2>2
    <2>4. ClaimsOf(gone) \subseteq Admitted  BY <1>1 DEF ClaimsOf, Inv, Types, NodesTyped
    <2>5. task' \in [Turns -> {"none", "launched", "running", "over", "finishing", "recovering"}]
        BY <1>4 DEF Inv, Types, SchedulingTyped
    <2> QED  BY <1>3, <1>4, <2>3, <2>4, <2>5 DEF Inv, Types, SchedulingTyped
<1> QED  BY <1>3, <1>5, <1>6
-----------------------------------------------------------------------------
(* Scheduling: the runner. *)

\* A step that leaves the trees alone.
LEMMA IdleKeeps ==
    ASSUME Inv, Idle
    PROVE  Forest' /\ NodesTyped' /\ SchedulingTyped' /\ SchedulingInv'
<1>1. UNCHANGED <<turn, graph, status, session, state, queue, active, stopped, task,
                  published, index>>
    BY DEF Idle, nodes, scheduling, repository
<1>2. Forest' /\ Admitted' = Admitted /\ \A u : Root(u)' = Root(u)  BY <1>1, ForestStays
<1>3. NodesTyped' /\ SchedulingTyped'
    BY <1>1, <1>2 DEF Inv, Types, NodesTyped, SchedulingTyped
<1>4. TreesAreWhole' /\ ClaimsAreHome' /\ QueuesAreOrdered' /\ LeftSettled'
    BY <1>1, <1>2 DEF Inv, SchedulingInv, TreesAreWhole, ClaimsAreHome, ClaimsHaveTasks,
                      QueuesAreOrdered, LeftSettled, Increasing
<1>5. QueueIsServed' /\ ClearedIsGone'
    BY <1>1, <1>2 DEF Inv, SchedulingInv, QueueIsServed, NoneStranded, ParentSettlesFirst,
                      ClearedIsGone, ClearedStatusIsInert, DetachedIsStopped, Members
<1> QED  BY <1>2, <1>3, <1>4, <1>5 DEF SchedulingInv

\* The trees of the repository stay whole as long as nodes and statuses do.
LEMMA TreesStayWhole ==
    ASSUME Inv, UNCHANGED <<turn, graph, status, published>>
    PROVE  TreesAreWhole'
<1>1. \A u : Root(u)' = Root(u)  BY ForestStays
<1> QED  BY <1>1 DEF Inv, SchedulingInv, TreesAreWhole

\* A task that goes on disturbs no tree.
LEMMA SchedulingMovingOn ==
    ASSUME Inv, NEW t, MovingOn(t)
    PROVE  SchedulingInv'
<1>1. /\ UNCHANGED <<turn, graph, status, session, state, queue, active, stopped, published>>
      /\ t \in Turns /\ task[t] # "none"
    BY DEF MovingOn, nodes, repository
<1>2. Admitted' = Admitted /\ \A u : Root(u)' = Root(u)  BY <1>1, ForestStays
<1>3. PICK w \in {"running", "finishing"} :
          /\ w = "finishing" => state[t] # "in_progress"
          /\ task' = [task EXCEPT ![t] = w]
    BY DEF MovingOn
<1>4. /\ task'[t] = w /\ \A u \in Turns : u # t => task'[u] = task[u]
      /\ \A u \in Turns : task'[u] # "none" <=> task[u] # "none"
    BY <1>1, <1>3 DEF Inv, Types, SchedulingTyped
<1>5. Admitted \subseteq Turns  BY AdmittedFacts DEF Inv, Types
<1>6. ClaimsAreHome'
    BY <1>1, <1>2, <1>4, <1>5 DEF Inv, SchedulingInv, ClaimsAreHome, ClaimsHaveTasks
<1>7. LeftSettled'
    BY <1>1, <1>3, <1>4 DEF Inv, SchedulingInv, LeftSettled
<1>8. QueuesAreOrdered' /\ QueueIsServed' /\ TreesAreWhole'
    BY <1>1, <1>2, TreesStayWhole DEF Inv, SchedulingInv, QueueIsServed, NoneStranded, ParentSettlesFirst,
                      QueuesAreOrdered, Increasing, Members
<1>9. ClearedIsGone'
    BY <1>1, <1>2, <1>4, <1>5 DEF Inv, SchedulingInv, ClearedIsGone, ClearedStatusIsInert, DetachedIsStopped
<1> QED  BY <1>6, <1>7, <1>8, <1>9 DEF SchedulingInv

\* Nor does a session that is recorded: its node has its status.
LEMMA SchedulingRecording ==
    ASSUME Inv, NEW t, Recording(t)
    PROVE  SchedulingInv'
<1>1. UNCHANGED <<turn, graph, status, state, queue, active, stopped, task, published>>
    BY DEF Recording, scheduling, repository
<1>2. Admitted' = Admitted /\ \A u : Root(u)' = Root(u)  BY <1>1, ForestStays
<1>3. TreesAreWhole' /\ ClaimsAreHome' /\ QueuesAreOrdered' /\ LeftSettled' /\ QueueIsServed'
    BY <1>1, <1>2, TreesStayWhole
        DEF Inv, SchedulingInv, ClaimsAreHome, ClaimsHaveTasks, QueuesAreOrdered, Increasing,
            LeftSettled, QueueIsServed, NoneStranded, ParentSettlesFirst, Members
<1>4. ClearedStatusIsInert'
    BY <1>1 DEF Recording, Inv, SchedulingInv, ClearedIsGone, ClearedStatusIsInert
<1>5. DetachedIsStopped'
    BY <1>1, <1>2 DEF Inv, SchedulingInv, ClearedIsGone, DetachedIsStopped
<1> QED  BY <1>3, <1>4, <1>5 DEF SchedulingInv, ClearedIsGone

\* A completion settles the claimed node, and nothing waits for it but its replies.
LEMMA SchedulingCompleting ==
    ASSUME Inv, NEW t, Completing(t)
    PROVE  SchedulingInv'
<1>1. /\ UNCHANGED <<turn, graph, status, queue, active, stopped, published>>
      /\ t \in Turns /\ task[t] \in Running /\ task' = [task EXCEPT ![t] = "over"]
    BY DEF Completing, repository
<1>2. Admitted' = Admitted /\ \A u : Root(u)' = Root(u)  BY <1>1, ForestStays
<1>3. /\ t \in Admitted /\ active[Root(t)] = t /\ state[t] # "pending" /\ Root(t) \in Admitted
      /\ Admitted \subseteq Turns /\ graph \subseteq Admitted
    BY <1>1, TaskIsActive, AdmittedFacts DEF Running, Inv, Types, NodesTyped
<1>4. /\ task'[t] = "over" /\ \A u \in Turns : u # t => task'[u] = task[u]
      /\ \A u \in Turns : task'[u] # "none" <=> task[u] # "none"
    BY <1>1 DEF Inv, Types, SchedulingTyped, Running
<1>5. /\ \A u \in Turns : u # t => state'[u] = state[u]
      /\ \A u \in Turns : state'[u] = "pending" <=> state[u] = "pending"
      /\ state'[t] # "in_progress" /\ state'[t] # "pending"
      /\ state'[t] = state[t] \/ (state'[t] = "completed" /\ t \notin stopped /\ t \in graph)
    BY <1>1, <1>3 DEF Completing, Inv, Types, NodesTyped
<1>6. ClaimsAreHome'
    <2>1. \A r \in Turns : active[r] # 0 => active[r] \in Turns
        BY <1>3 DEF Inv, Types, SchedulingTyped
    <2> QED  BY <1>1, <1>2, <1>3, <1>4, <1>5, <2>1 DEF Inv, SchedulingInv, ClaimsAreHome, ClaimsHaveTasks
<1>7. LeftSettled'
    <2>1. stopped \subseteq Turns  BY <1>3 DEF Inv, Types, SchedulingTyped
    <2> QED  BY <1>1, <1>4, <1>5, <2>1 DEF Inv, SchedulingInv, LeftSettled
<1>8. TreesAreWhole' /\ QueuesAreOrdered'
    BY <1>1, TreesStayWhole DEF Inv, SchedulingInv, QueuesAreOrdered, Increasing
<1>9. NoneStranded'
    <2>1. ASSUME NEW r \in Turns
          PROVE  /\ Range(queue[r]) = {u \in Members(r)' : state'[u] = "pending"}
                 /\ \A u \in Members(r)' : state'[u] = "in_progress" => active[r] = u
        <3>1. Members(r)' = Members(r) /\ Members(r) \subseteq Turns  BY <1>1, <1>2, <1>3 DEF Members
        <3>2. {u \in Members(r) : state'[u] = "pending"} = {u \in Members(r) : state[u] = "pending"}
            BY <1>5, <3>1
        <3>3. \A u \in Members(r) : state'[u] = "in_progress" => state[u] = "in_progress"
            BY <1>5, <3>1
        <3> QED  BY <3>1, <3>2, <3>3 DEF Inv, SchedulingInv, QueueIsServed, NoneStranded
    <2> QED  BY <1>1, <2>1 DEF Inv, SchedulingInv, QueueIsServed, NoneStranded
<1>10. ParentSettlesFirst'
    <2>1. ASSUME NEW u \in graph, state'[u] = "in_progress", turn[u].parent # 0
          PROVE  state'[turn[u].parent] \notin Runnable
        <3>1. state[u] = "in_progress"  BY <1>3, <1>5, <2>1
        <3>2. state[turn[u].parent] \notin Runnable
            BY <2>1, <3>1 DEF Inv, SchedulingInv, QueueIsServed, ParentSettlesFirst
        <3>3. turn[u].parent \in Turns
            BY <1>3, <2>1 DEF Inv, SchedulingInv, TreesAreWhole
        <3> QED  BY <1>5, <3>2, <3>3 DEF Runnable
    <2> QED  BY <1>1, <2>1 DEF ParentSettlesFirst
<1>11. ClearedStatusIsInert'
    <2>1. ASSUME NEW u \in graph \ status PROVE u \notin session' /\ state'[u] = "error"
        <3>1. u \notin session /\ state[u] = "error"
            BY DEF Inv, SchedulingInv, ClearedIsGone, ClearedStatusIsInert
        <3>2. CASE u # t  BY <1>3, <1>5, <3>1, <3>2 DEF Completing
        <3>3. CASE u = t
            <4>1. t \in stopped
                BY <1>3, <1>1, <3>3 DEF Running, Inv, SchedulingInv, ClearedIsGone, DetachedIsStopped
            <4> QED  BY <3>1, <3>3, <4>1 DEF Completing
        <3> QED  BY <3>2, <3>3
    <2> QED  BY <1>1, <2>1 DEF ClearedStatusIsInert
<1>12. DetachedIsStopped'
    BY <1>1, <1>2, <1>3, <1>4 DEF Inv, SchedulingInv, ClearedIsGone, DetachedIsStopped
<1> QED  BY <1>6, <1>7, <1>8, <1>9, <1>10, <1>11, <1>12 DEF SchedulingInv, QueueIsServed, ClearedIsGone

\* The queues after turns have been taken out of them.
LEMMA WithdrawnQueues ==
    ASSUME Inv, NEW gone, queue' = [r \in Turns |-> Without(queue[r], gone)]
    PROVE  /\ QueuesAreOrdered'
           /\ \A r \in Turns : /\ Range(queue'[r]) = Range(queue[r]) \ gone
                               /\ queue'[r] # <<>> => queue[r] # <<>>
<1>1. Admitted \in SUBSET Nat /\ queue \in [Turns -> Seq(Admitted)]
    BY AdmittedFacts DEF Inv, Types, SchedulingTyped
<1>2. ASSUME NEW r \in Turns
      PROVE  /\ Range(queue'[r]) = Range(queue[r]) \ gone
             /\ queue'[r] # <<>> => queue[r] # <<>>
             /\ Increasing(queue'[r])
    <2>1. /\ Without(queue[r], gone) \in Seq(Admitted)
          /\ Range(Without(queue[r], gone)) = Range(queue[r]) \ gone
          /\ Increasing(queue[r]) => Increasing(Without(queue[r], gone))
          /\ Range(queue[r]) \cap gone = {} => Without(queue[r], gone) = queue[r]
        BY <1>1, WithoutProperties
    <2>2. Increasing(queue[r])  BY DEF Inv, SchedulingInv, QueuesAreOrdered
    <2>3. Range(<<>>) = {}  BY DEF Range
    <2>4. queue'[r] = Without(queue[r], gone)  OBVIOUS
    <2> QED  BY <2>1, <2>2, <2>3, <2>4
<1>3. QueuesAreOrdered'
    BY <1>2 DEF QueuesAreOrdered, Increasing
<1> QED  BY <1>2, <1>3

\* The turns that fail leave the queue with their state.
LEMMA SchedulingFailing ==
    ASSUME Inv, NEW t, NEW failed, Failing(t, failed)
    PROVE  SchedulingInv'
<1>1. /\ UNCHANGED <<turn, graph, status, session, active, stopped, published>>
      /\ t \in Turns /\ task[t] \in Running /\ failed \subseteq graph
      /\ \A u \in failed : Root(u) = Root(t) /\ (u = t \/ state[u] = "pending")
      /\ t \notin failed => state[t] # "in_progress"
      /\ state' = [u \in Turns |-> IF u \in failed THEN "error" ELSE state[u]]
      /\ queue' = [r \in Turns |-> Without(queue[r], failed)]
    BY DEF Failing, repository, nodes
<1>2. Admitted' = Admitted /\ \A u : Root(u)' = Root(u)  BY <1>1, ForestStays
<1>3. /\ t \in Admitted /\ active[Root(t)] = t /\ state[t] # "pending" /\ Root(t) \in Admitted
      /\ Admitted \subseteq Turns /\ graph \subseteq Admitted
    BY <1>1, TaskIsActive, AdmittedFacts DEF Running, Inv, Types, NodesTyped
<1>4. PICK w \in {"running", "over", "finishing"} : task' = [task EXCEPT ![t] = w]
    BY DEF Failing
<1>5. /\ task'[t] = w /\ \A u \in Turns : u # t => task'[u] = task[u]
      /\ \A u \in Turns : task'[u] # "none" <=> task[u] # "none"
    BY <1>1, <1>4 DEF Inv, Types, SchedulingTyped, Running
<1>6. /\ \A u \in Turns : state'[u] = IF u \in failed THEN "error" ELSE state[u]
      /\ state'[t] # "in_progress"
    BY <1>1
<1>7. ClaimsAreHome'
    <2>1. \A r \in Turns : active[r] # 0 => active[r] \in Turns
        BY <1>3 DEF Inv, Types, SchedulingTyped
    <2> QED  BY <1>1, <1>2, <1>3, <1>5, <1>6, <2>1 DEF Inv, SchedulingInv, ClaimsAreHome, ClaimsHaveTasks
<1>8. LeftSettled'
    <2>1. stopped \subseteq Turns  BY <1>3 DEF Inv, Types, SchedulingTyped
    <2> QED  BY <1>1, <1>4, <1>5, <1>6, <2>1 DEF Inv, SchedulingInv, LeftSettled, Runnable
<1>9. TreesAreWhole'  BY <1>1, TreesStayWhole
<1>10. /\ QueuesAreOrdered'
       /\ \A r \in Turns : /\ Range(queue'[r]) = Range(queue[r]) \ failed
                           /\ queue'[r] # <<>> => queue[r] # <<>>
    BY <1>1, WithdrawnQueues
<1>11. NoneStranded'
    <2>1. ASSUME NEW r \in Turns
          PROVE  /\ Range(queue'[r]) = {u \in Members(r)' : state'[u] = "pending"}
                 /\ queue'[r] # <<>> => active'[r] # 0
                 /\ \A u \in Members(r)' : state'[u] = "in_progress" => active'[r] = u
        <3>1. Members(r)' = Members(r) /\ Members(r) \subseteq Turns  BY <1>1, <1>2, <1>3 DEF Members
        <3>2. {u \in Members(r) : state'[u] = "pending"}
                = {u \in Members(r) : state[u] = "pending"} \ failed
            BY <1>6, <3>1
        <3>3. \A u \in Members(r) : state'[u] = "in_progress" => state[u] = "in_progress"
            BY <1>6, <3>1
        <3>4. /\ Range(queue[r]) = {u \in Members(r) : state[u] = "pending"}
              /\ queue[r] # <<>> => active[r] # 0
              /\ \A u \in Members(r) : state[u] = "in_progress" => active[r] = u
            BY DEF Inv, SchedulingInv, QueueIsServed, NoneStranded
        <3> QED  BY <1>1, <1>10, <3>1, <3>2, <3>3, <3>4
    <2> QED  BY <2>1 DEF NoneStranded
<1>12. ParentSettlesFirst'
    <2>1. ASSUME NEW u \in graph, state'[u] = "in_progress", turn[u].parent # 0
          PROVE  state'[turn[u].parent] \notin Runnable
        <3>1. state[u] = "in_progress"  BY <1>3, <1>6, <2>1
        <3>2. state[turn[u].parent] \notin Runnable
            BY <2>1, <3>1 DEF Inv, SchedulingInv, QueueIsServed, ParentSettlesFirst
        <3>3. turn[u].parent \in Turns
            BY <1>3, <2>1 DEF Inv, SchedulingInv, TreesAreWhole
        <3> QED  BY <1>6, <3>2, <3>3 DEF Runnable
    <2> QED  BY <1>1, <2>1 DEF ParentSettlesFirst
<1>13. ClearedIsGone'
    <2>1. ClearedStatusIsInert'
        BY <1>1, <1>3, <1>6 DEF Inv, SchedulingInv, ClearedIsGone, ClearedStatusIsInert
    <2>2. DetachedIsStopped'
        BY <1>1, <1>2, <1>3, <1>5 DEF Inv, SchedulingInv, ClearedIsGone, DetachedIsStopped
    <2> QED  BY <2>1, <2>2 DEF ClearedIsGone
<1> QED  BY <1>7, <1>8, <1>9, <1>10, <1>11, <1>12, <1>13 DEF SchedulingInv, QueueIsServed

\* The first of an ordered queue, and the rest.
LEMMA HeadAndRest ==
    ASSUME NEW S \in SUBSET Nat, NEW line \in Seq(S), line # <<>>, Increasing(line)
    PROVE  /\ Head(line) \in Range(line) /\ Tail(line) \in Seq(S)
           /\ Increasing(Tail(line))
           /\ Range(Tail(line)) = Range(line) \ {Head(line)}
           /\ \A u \in Range(line) : Head(line) <= u
<1>1. /\ Len(line) \in Nat /\ Len(line) >= 1 /\ Head(line) = line[1]
      /\ \A i \in 1 .. Len(line) : line[i] \in Nat
      /\ Range(line) = {line[i] : i \in 1 .. Len(line)}
    <2>1. Len(line) \in Nat /\ Len(line) >= 1 /\ Head(line) = line[1]  OBVIOUS
    <2>2. \A i \in 1 .. Len(line) : line[i] \in Nat  BY ElementOfSeq
    <2>3. Range(line) = {line[i] : i \in 1 .. Len(line)}  BY RangeEquality
    <2> QED  BY <2>1, <2>2, <2>3
<1>2. /\ Tail(line) \in Seq(S) /\ Len(Tail(line)) = Len(line) - 1
      /\ \A i \in 1 .. Len(line) - 1 : Tail(line)[i] = line[i + 1]
    BY HeadTailProperties
<1>3. \A i, j \in 1 .. Len(line) : i < j => line[i] < line[j]  BY DEF Increasing
<1>4. ASSUME NEW i \in 1 .. Len(Tail(line)), NEW j \in 1 .. Len(Tail(line)), i < j
      PROVE  Tail(line)[i] < Tail(line)[j]
    <2>1. i + 1 \in 1 .. Len(line) /\ j + 1 \in 1 .. Len(line) /\ i + 1 < j + 1
        BY <1>1, <1>2, <1>4
    <2> QED  BY <1>2, <1>3, <1>4, <2>1
<1>5. Range(Tail(line)) = {Tail(line)[i] : i \in 1 .. Len(line) - 1}
    BY <1>2, RangeEquality
<1>6. ASSUME NEW u \in Range(Tail(line)) PROVE u \in Range(line) /\ u # Head(line)
    <2>1. PICK i \in 1 .. Len(line) - 1 : u = line[i + 1]  BY <1>2, <1>5
    <2>2. i + 1 \in 1 .. Len(line) /\ 1 < i + 1 /\ 1 \in 1 .. Len(line)  BY <1>1
    <2>3. line[1] < line[i + 1]  BY <1>3, <2>2
    <2> QED  BY <1>1, <2>1, <2>2, <2>3
<1>7. ASSUME NEW u \in Range(line), u # Head(line) PROVE u \in Range(Tail(line))
    <2>1. PICK i \in 1 .. Len(line) : u = line[i]  BY <1>1
    <2>2. i # 1  BY <1>1, <1>7, <2>1
    <2>3. i - 1 \in 1 .. Len(line) - 1 /\ (i - 1) + 1 = i  BY <1>1, <2>2
    <2>4. Tail(line)[i - 1] = line[i]  BY <1>2, <2>3
    <2> QED  BY <1>5, <2>1, <2>3, <2>4
<1>8. ASSUME NEW u \in Range(line) PROVE Head(line) <= u
    <2>1. PICK i \in 1 .. Len(line) : u = line[i]  BY <1>1
    <2>2. CASE i = 1  BY <1>1, <2>1, <2>2
    <2>3. CASE i # 1
        <3>1. 1 \in 1 .. Len(line) /\ 1 < i  BY <1>1, <2>3
        <3>2. line[1] < line[i]  BY <1>3, <3>1
        <3> QED  BY <1>1, <2>1, <3>1, <3>2
    <2> QED  BY <2>2, <2>3
<1>9. Head(line) \in Range(line)  BY <1>1
<1>10. Increasing(Tail(line))  BY <1>4 DEF Increasing
<1> QED  BY <1>2, <1>6, <1>7, <1>8, <1>9, <1>10

\* The first in the queue takes the claim over. It was admitted before the others,
\* so that its parent does not wait.
LEMMA SchedulingFinishing ==
    ASSUME Inv, NEW t, Finishing(t)
    PROVE  SchedulingInv'
<1> DEFINE r == Root(t)
<1>1. /\ UNCHANGED <<turn, graph, status, session, published>>
      /\ t \in Admitted /\ task[t] \in {"finishing", "recovering"} /\ active[r] = t
      /\ stopped' = stopped \ {t}
    BY DEF Finishing, nodes, repository
<1>2. Admitted' = Admitted /\ \A u : Root(u)' = Root(u)  BY <1>1, ForestStays
<1>3. /\ Admitted \subseteq Turns /\ graph \subseteq Admitted /\ r \in Turns
      /\ stopped \subseteq Turns /\ 0 \notin Turns /\ Admitted \in SUBSET Nat
      /\ queue \in [Turns -> Seq(Admitted)]
    BY <1>1, AdmittedFacts DEF Inv, Types, NodesTyped, SchedulingTyped
<1>4. /\ state[t] \notin Runnable
    <2>1. CASE task[t] = "recovering"
        BY <1>1, <1>3, <2>1 DEF Inv, SchedulingInv, LeftSettled
    <2>2. CASE task[t] = "finishing"
        <3>1. state[t] # "in_progress"  BY <1>1, <1>3, <2>2 DEF Inv, SchedulingInv, LeftSettled
        <3>2. state[t] # "pending"
            BY <1>1, <1>3 DEF Inv, SchedulingInv, ClaimsAreHome
        <3> QED  BY <3>1, <3>2 DEF Runnable
    <2> QED  BY <1>1, <2>1, <2>2
<1>5. \A u \in Admitted : task[u] # "none" <=> active[Root(u)] = u
    BY DEF Inv, SchedulingInv, ClaimsAreHome, ClaimsHaveTasks
<1>6. TreesAreWhole'  BY <1>1, TreesStayWhole
<1>7. CASE queue[r] = <<>>
    <2>1. /\ task' = [task EXCEPT ![t] = "none"] /\ active' = [active EXCEPT ![r] = 0]
          /\ UNCHANGED <<queue, state>>
        BY <1>7 DEF Finishing
    <2>2. /\ task'[t] = "none" /\ \A u \in Turns : u # t => task'[u] = task[u]
          /\ active'[r] = 0 /\ \A q \in Turns : q # r => active'[q] = active[q]
        <3> HIDE DEF r
        <3> QED  BY <1>1, <1>3, <2>1 DEF Inv, Types, SchedulingTyped
    <2>3. ClaimsAreHome'
        <3>1. ASSUME NEW u \in Admitted PROVE task'[u] # "none" <=> active'[Root(u)] = u
            <4>1. Root(u) \in Turns /\ u # 0  BY <1>3, AdmittedFacts DEF Inv, Types
            <4>2. CASE u = t  BY <1>1, <1>3, <2>2, <4>1, <4>2
            <4>3. CASE u # t
                <5>1. task'[u] = task[u]  BY <1>3, <2>2, <4>3
                <5>2. active'[Root(u)] = u <=> active[Root(u)] = u
                    BY <1>1, <2>2, <4>1, <4>3
                <5> QED  BY <1>5, <5>1, <5>2
            <4> QED  BY <4>2, <4>3
        <3>2. \A q \in Turns : active'[q] # 0 => Root(active'[q]) = q /\ state[active'[q]] # "pending"
            BY <2>2 DEF Inv, SchedulingInv, ClaimsAreHome
        <3>3. \A u \in Turns : u \notin Admitted => task'[u] = "none"
            BY <2>2 DEF Inv, SchedulingInv, ClaimsAreHome
        <3>4. ClaimsHaveTasks'  BY <1>2, <3>1 DEF ClaimsHaveTasks
        <3>5. (\A q \in Turns : active[q] # 0 => Root(active[q]) = q /\ state[active[q]] # "pending")'
            BY <1>1, <2>1, <3>2 DEF Root
        <3> QED  BY <1>2, <3>3, <3>4, <3>5 DEF ClaimsAreHome
    <2>4. LeftSettled'
        <3>1. \A u \in Turns : task'[u] = "recovering" => u \in stopped'
            BY <1>1, <2>2 DEF Inv, SchedulingInv, LeftSettled
        <3>2. \A u \in Turns : task'[u] \in {"over", "finishing"} => state'[u] # "in_progress"
            BY <2>1, <2>2 DEF Inv, SchedulingInv, LeftSettled
        <3>3. \A u \in stopped' : state'[u] \notin Runnable
            BY <1>1, <2>1 DEF Inv, SchedulingInv, LeftSettled
        <3> QED  BY <3>1, <3>2, <3>3 DEF LeftSettled
    <2>5. QueuesAreOrdered'  BY <2>1 DEF Inv, SchedulingInv, QueuesAreOrdered, Increasing
    <2>6. NoneStranded'
        <3>1. ASSUME NEW q \in Turns
              PROVE  /\ Range(queue'[q]) = {u \in Members(q)' : state'[u] = "pending"}
                     /\ queue'[q] # <<>> => active'[q] # 0
                     /\ \A u \in Members(q)' : state'[u] = "in_progress" => active'[q] = u
            <4>1. Members(q)' = Members(q)  BY <1>1, <1>2 DEF Members
            <4>2. /\ Range(queue[q]) = {u \in Members(q) : state[u] = "pending"}
                  /\ queue[q] # <<>> => active[q] # 0
                  /\ \A u \in Members(q) : state[u] = "in_progress" => active[q] = u
                BY DEF Inv, SchedulingInv, QueueIsServed, NoneStranded
            <4>3. \A u \in Members(q) : state[u] = "in_progress" => active'[q] = u
                BY <1>1, <1>4, <2>2, <4>2 DEF Runnable
            <4> QED  BY <1>7, <2>1, <2>2, <4>1, <4>2, <4>3
        <3> QED  BY <3>1 DEF NoneStranded
    <2>7. ParentSettlesFirst' /\ ClearedStatusIsInert'
        BY <1>1, <2>1 DEF Inv, SchedulingInv, QueueIsServed, ParentSettlesFirst, ClearedIsGone,
                          ClearedStatusIsInert
    <2>8. DetachedIsStopped'
        <3>1. \A u \in Admitted : task'[u] # "none" /\ u \notin graph \cap status => u \in stopped'
            BY <1>1, <1>3, <2>2 DEF Inv, SchedulingInv, ClearedIsGone, DetachedIsStopped
        <3> QED  BY <1>1, <1>2, <3>1 DEF DetachedIsStopped
    <2> QED  BY <1>6, <2>3, <2>4, <2>5, <2>6, <2>7, <2>8 DEF SchedulingInv, QueueIsServed, ClearedIsGone
<1>8. CASE queue[r] # <<>>
    <2> DEFINE next == Head(queue[r])
    <2>1. /\ next \in graph /\ state[next] = "pending" /\ Root(next) = r /\ next # t
          /\ active' = [active EXCEPT ![r] = next]
          /\ queue' = [queue EXCEPT ![r] = Tail(@)]
          /\ state' = [state EXCEPT ![next] = "in_progress"]
          /\ task' = [task EXCEPT ![t] = "none", ![next] = "launched"]
        BY <1>8 DEF Finishing
    <2>2. /\ next \in Range(queue[r]) /\ Increasing(Tail(queue[r]))
          /\ Range(Tail(queue[r])) = Range(queue[r]) \ {next}
          /\ \A u \in Range(queue[r]) : next <= u
        BY <1>3, <1>8, HeadAndRest DEF Inv, SchedulingInv, QueuesAreOrdered
    <2> HIDE DEF next, r
    <2>3. /\ next \in Turns /\ next \in Admitted /\ next # 0 /\ t \in Turns /\ next \in Nat
        BY <1>1, <1>3, <2>1
    <2>4. /\ task'[t] = "none" /\ task'[next] = "launched"
          /\ \A u \in Turns : u # t /\ u # next => task'[u] = task[u]
          /\ active'[r] = next /\ \A q \in Turns : q # r => active'[q] = active[q]
        BY <1>1, <1>3, <2>1, <2>3 DEF Inv, Types, SchedulingTyped
    <2>5. /\ state'[next] = "in_progress"
          /\ \A u \in Turns : u # next => state'[u] = state[u]
        BY <2>1, <2>3 DEF Inv, Types, NodesTyped
    <2>6. /\ queue'[r] = Tail(queue[r]) /\ \A q \in Turns : q # r => queue'[q] = queue[q]
        BY <1>3, <2>1
    <2>7. next \notin stopped
        BY <2>1 DEF Inv, SchedulingInv, LeftSettled, Runnable
    <2>8. ClaimsAreHome'
        <3>1. ASSUME NEW u \in Admitted PROVE task'[u] # "none" <=> active'[Root(u)] = u
            <4>1. Root(u) \in Turns /\ u \in Turns  BY <1>3, AdmittedFacts DEF Inv, Types
            <4>2. CASE u = t  BY <2>1, <2>4, <4>2 DEF r
            <4>3. CASE u = next  BY <2>1, <2>4, <4>3
            <4>4. CASE u # t /\ u # next
                <5>1. task'[u] = task[u]  BY <2>4, <4>1, <4>4
                <5>2. active'[Root(u)] = u <=> active[Root(u)] = u
                    BY <1>1, <2>4, <4>1, <4>4
                <5> QED  BY <1>5, <5>1, <5>2
            <4> QED  BY <4>2, <4>3, <4>4
        <3>2. ASSUME NEW q \in Turns, active'[q] # 0
              PROVE  Root(active'[q]) = q /\ state'[active'[q]] # "pending"
            <4>1. CASE q = r  BY <2>1, <2>4, <2>5, <4>1
            <4>2. CASE q # r
                <5>1. /\ active'[q] = active[q] /\ active[q] \in Turns
                    BY <1>3, <2>4, <3>2, <4>2 DEF Inv, Types, SchedulingTyped
                <5>2. Root(active[q]) = q /\ state[active[q]] # "pending"
                    BY <3>2, <5>1 DEF Inv, SchedulingInv, ClaimsAreHome
                <5> QED  BY <2>1, <2>5, <5>1, <5>2
            <4> QED  BY <4>1, <4>2
        <3>3. \A u \in Turns : u \notin Admitted => task'[u] = "none"
            BY <1>1, <2>3, <2>4 DEF Inv, SchedulingInv, ClaimsAreHome
        <3>4. ClaimsHaveTasks'  BY <1>2, <3>1 DEF ClaimsHaveTasks
        <3>5. (\A q \in Turns : active[q] # 0 => Root(active[q]) = q /\ state[active[q]] # "pending")'
            BY <1>1, <3>2 DEF Root
        <3> QED  BY <1>2, <3>3, <3>4, <3>5 DEF ClaimsAreHome
    <2>9. LeftSettled'
        <3>1. \A u \in Turns : task'[u] = "recovering" => u \in stopped'
            BY <1>1, <2>4 DEF Inv, SchedulingInv, LeftSettled
        <3>2. \A u \in Turns : task'[u] \in {"over", "finishing"} => state'[u] # "in_progress"
            BY <2>4, <2>5 DEF Inv, SchedulingInv, LeftSettled
        <3>3. \A u \in stopped' : state'[u] \notin Runnable
            BY <1>1, <1>3, <2>5, <2>7 DEF Inv, SchedulingInv, LeftSettled
        <3> QED  BY <3>1, <3>2, <3>3 DEF LeftSettled
    <2>10. QueuesAreOrdered'
        <3>1. \A q \in Turns : Increasing(queue'[q])
            BY <2>2, <2>6 DEF Inv, SchedulingInv, QueuesAreOrdered
        <3> QED  BY <3>1 DEF QueuesAreOrdered, Increasing
    <2>11. NoneStranded'
        <3>1. ASSUME NEW q \in Turns
              PROVE  /\ Range(queue'[q]) = {u \in Members(q)' : state'[u] = "pending"}
                     /\ queue'[q] # <<>> => active'[q] # 0
                     /\ \A u \in Members(q)' : state'[u] = "in_progress" => active'[q] = u
            <4>1. Members(q)' = Members(q) /\ Members(q) \subseteq Turns
                BY <1>1, <1>2, <1>3 DEF Members
            <4>2. /\ Range(queue[q]) = {u \in Members(q) : state[u] = "pending"}
                  /\ queue[q] # <<>> => active[q] # 0
                  /\ \A u \in Members(q) : state[u] = "in_progress" => active[q] = u
                BY DEF Inv, SchedulingInv, QueueIsServed, NoneStranded
            <4>3. CASE q = r
                <5>1. {u \in Members(q) : state'[u] = "pending"}
                        = {u \in Members(q) : state[u] = "pending"} \ {next}
                    BY <2>1, <2>5, <4>1
                <5>2. \A u \in Members(q) : state'[u] = "in_progress" => u = next
                    <6>1. \A u \in Members(q) : state[u] # "in_progress"
                        BY <1>1, <1>4, <4>2, <4>3 DEF Runnable
                    <6> QED  BY <2>5, <4>1, <6>1
                <5> QED  BY <2>2, <2>3, <2>4, <2>6, <4>1, <4>2, <4>3, <5>1, <5>2
            <4>4. CASE q # r
                <5>1. \A u \in Members(q) : u # next  BY <2>1, <4>4 DEF Members
                <5>2. \A u \in Members(q) : state'[u] = state[u]  BY <2>5, <4>1, <5>1
                <5> QED  BY <2>4, <2>6, <4>1, <4>2, <4>4, <5>2
            <4> QED  BY <4>3, <4>4
        <3> QED  BY <3>1 DEF NoneStranded
    <2>12. ParentSettlesFirst'
        <3>1. ASSUME NEW u \in graph, state'[u] = "in_progress", turn[u].parent # 0
              PROVE  state'[turn[u].parent] \notin Runnable
            <4> DEFINE p == turn[u].parent
            <4>1. /\ p \in graph /\ p \in Turns /\ u \in Admitted
                BY <1>3, <3>1 DEF Inv, SchedulingInv, TreesAreWhole
            <4>2. p \in 0 .. u - 1 /\ Root(p) = Root(u) /\ u \in Nat
                BY <1>3, <3>1, <4>1 DEF Inv, Types, Forest
            <4>3. CASE u = next
                <5>1. p \in Nat /\ ~ (next <= p)  BY <2>3, <4>2, <4>3
                <5>2. p \in Members(r)  BY <2>1, <4>1, <4>2, <4>3 DEF Members
                <5>3. state[p] # "pending"
                    BY <1>3, <2>2, <5>1, <5>2 DEF Inv, SchedulingInv, QueueIsServed, NoneStranded
                <5>4. state[p] # "in_progress"
                    BY <1>1, <1>3, <1>4, <5>2 DEF Inv, SchedulingInv, QueueIsServed, NoneStranded, Runnable
                <5>5. p # next  BY <4>2, <4>3
                <5> QED  BY <2>5, <4>1, <5>3, <5>4, <5>5 DEF Runnable
            <4>4. CASE u # next
                <5>1. state[u] = "in_progress"  BY <1>3, <2>5, <3>1, <4>4
                <5>2. state[p] \notin Runnable
                    BY <3>1, <5>1 DEF Inv, SchedulingInv, QueueIsServed, ParentSettlesFirst
                <5>3. p # next  BY <2>1, <5>2 DEF Runnable
                <5> QED  BY <2>5, <4>1, <5>2, <5>3
            <4> QED  BY <4>3, <4>4
        <3> QED  BY <1>1, <3>1 DEF ParentSettlesFirst
    <2>13. ClearedStatusIsInert'
        <3>1. \A u \in graph \ status : u \notin session /\ state[u] = "error"
            BY DEF Inv, SchedulingInv, ClearedIsGone, ClearedStatusIsInert
        <3>2. \A u \in graph \ status : state'[u] = "error"
            BY <1>3, <2>1, <2>5, <3>1
        <3> QED  BY <1>1, <3>1, <3>2 DEF ClearedStatusIsInert
    <2>14. DetachedIsStopped'
        <3>1. next \in status
            BY <2>1 DEF Inv, SchedulingInv, ClearedIsGone, ClearedStatusIsInert
        <3>2. \A u \in Admitted : task'[u] # "none" /\ u \notin graph \cap status => u \in stopped'
            BY <1>1, <1>3, <2>1, <2>4, <3>1 DEF Inv, SchedulingInv, ClearedIsGone, DetachedIsStopped
        <3> QED  BY <1>1, <1>2, <3>2 DEF DetachedIsStopped
    <2> QED  BY <1>6, <2>8, <2>9, <2>10, <2>11, <2>12, <2>13, <2>14
                DEF SchedulingInv, QueueIsServed, ClearedIsGone
<1> QED  BY <1>7, <1>8

-----------------------------------------------------------------------------
(* Scheduling: cancellations. *)

\* Cancelled nodes leave the queues, and the claims among them are stopped.
LEMMA SchedulingCancelling ==
    ASSUME Inv, NEW gone, NEW removed, NEW cleared, Cancelling(gone, removed, cleared)
    PROVE  SchedulingInv'
<1>1. /\ gone \subseteq graph /\ removed \subseteq gone /\ cleared \subseteq gone
      /\ \A t \in graph :
            \/ t \in removed
            \/ /\ Root(t) \notin removed
               /\ turn[t].parent \notin removed
               /\ turn[t].via = "status" => turn[t].parent \notin cleared
      /\ published' = published \ removed
      /\ turn' = turn /\ graph' = graph \ removed /\ status' = status \ (removed \cup cleared)
      /\ session' = session \ (removed \cup cleared)
    BY DEF Cancelling, RemoveNodes
<1>2. Admitted' = Admitted /\ \A u : Root(u)' = Root(u)  BY <1>1, ForestStays
<1>3. /\ state' = [t \in Turns |-> IF t \in removed THEN "none"
                      ELSE IF t \in RunnableOf(gone) \cup cleared THEN "error" ELSE state[t]]
      /\ queue' = [r \in Turns |-> Without(queue[r], gone)]
      /\ stopped' = stopped \cup ClaimsOf(gone)
      /\ task' = [t \in Turns |-> IF t \in ClaimsOf(gone) /\ task[t] = "launched"
                                  THEN "recovering" ELSE task[t]]
      /\ active' = active
    BY DEF Cancelling, CancelNodes, Cancel
<1>4. /\ Admitted \subseteq Turns /\ graph \subseteq Admitted /\ stopped \subseteq Turns
      /\ 0 \notin Turns /\ gone \subseteq Turns
    BY <1>1, AdmittedFacts DEF Inv, Types, NodesTyped, SchedulingTyped
<1>5. /\ \A u \in Turns : u \in removed => state'[u] = "none"
      /\ \A u \in Turns : u \notin removed /\ u \in cleared => state'[u] = "error"
      /\ \A u \in Turns : u \in gone => state'[u] \notin Runnable
      /\ \A u \in Turns : u \notin gone => state'[u] = state[u]
      /\ \A u \in Turns : state'[u] = state[u] \/ state'[u] \in {"none", "error"}
      /\ \A u \in Turns : state[u] = "error" /\ u \notin removed => state'[u] = "error"
    BY <1>1, <1>3 DEF RunnableOf, Runnable
<1>6. \A u \in Turns : /\ task'[u] # "none" <=> task[u] # "none"
                       /\ task'[u] = task[u] \/ (task'[u] = "recovering" /\ u \in stopped')
    BY <1>3 DEF Inv, Types, SchedulingTyped
<1>7. \A u \in gone : task[u] # "none" => u \in stopped'
    <2>1. ASSUME NEW u \in gone, task[u] # "none" PROVE u \in ClaimsOf(gone)
        <3>1. active[Root(u)] = u  BY <1>4, <2>1, TaskIsActive
        <3> QED  BY <3>1 DEF ClaimsOf
    <2> QED  BY <1>3, <2>1
<1>8. TreesAreWhole'
    <2>1. ASSUME NEW u \in graph, u \notin removed
          PROVE  /\ Root(u) \in published'
                 /\ \/ turn[u].parent = 0
                    \/ /\ turn[u].parent \in graph'
                       /\ turn[u].via = "status" => turn[u].parent \in status'
        BY <1>1, <2>1 DEF Inv, SchedulingInv, TreesAreWhole
    <2>2. \A r \in published' : r \in graph' /\ Root(r) = r
        BY <1>1 DEF Inv, SchedulingInv, TreesAreWhole
    <2> QED  BY <1>1, <1>2, <2>1, <2>2 DEF TreesAreWhole
<1>9. ClaimsAreHome'
    <2>1. ASSUME NEW r \in Turns, active[r] # 0
          PROVE  Root(active[r]) = r /\ state'[active[r]] # "pending"
        <3>1. Root(active[r]) = r /\ state[active[r]] # "pending" /\ active[r] \in Turns
            BY <1>4, <2>1 DEF Inv, SchedulingInv, ClaimsAreHome, Types, SchedulingTyped
        <3> QED  BY <1>5, <3>1
    <2> QED  BY <1>1, <1>2, <1>3, <1>4, <1>6, <2>1 DEF Inv, SchedulingInv, ClaimsAreHome, ClaimsHaveTasks
<1>10. LeftSettled'
    <2>1. \A u \in Turns : task'[u] = "recovering" => u \in stopped'
        BY <1>3, <1>6 DEF Inv, SchedulingInv, LeftSettled
    <2>2. \A u \in Turns : task'[u] \in {"over", "finishing"} => state'[u] # "in_progress"
        BY <1>5, <1>6 DEF Inv, SchedulingInv, LeftSettled
    <2>3. ASSUME NEW u \in stopped' PROVE state'[u] \notin Runnable
        <3>1. CASE u \in stopped
            BY <1>4, <1>5, <3>1 DEF Inv, SchedulingInv, LeftSettled, Runnable
        <3>2. CASE u \in ClaimsOf(gone)  BY <1>4, <1>5, <3>2 DEF ClaimsOf
        <3> QED  BY <1>3, <3>1, <3>2
    <2> QED  BY <2>1, <2>2, <2>3 DEF LeftSettled
<1>11. /\ QueuesAreOrdered'
       /\ \A r \in Turns : /\ Range(queue'[r]) = Range(queue[r]) \ gone
                           /\ queue'[r] # <<>> => queue[r] # <<>>
    BY <1>3, WithdrawnQueues
<1>12. NoneStranded'
    <2>1. ASSUME NEW r \in Turns
          PROVE  /\ Range(queue'[r]) = {u \in Members(r)' : state'[u] = "pending"}
                 /\ queue'[r] # <<>> => active'[r] # 0
                 /\ \A u \in Members(r)' : state'[u] = "in_progress" => active'[r] = u
        <3>1. Members(r)' = Members(r) \ removed /\ Members(r) \subseteq Turns
            BY <1>1, <1>2, <1>4 DEF Members
        <3>2. {u \in Members(r) \ removed : state'[u] = "pending"}
                = {u \in Members(r) : state[u] = "pending"} \ gone
            BY <1>1, <1>5, <3>1 DEF Runnable
        <3>3. \A u \in Members(r) : state'[u] = "in_progress" => state[u] = "in_progress"
            BY <1>5, <3>1
        <3>4. /\ Range(queue[r]) = {u \in Members(r) : state[u] = "pending"}
              /\ queue[r] # <<>> => active[r] # 0
              /\ \A u \in Members(r) : state[u] = "in_progress" => active[r] = u
            BY DEF Inv, SchedulingInv, QueueIsServed, NoneStranded
        <3> QED  BY <1>3, <1>11, <3>1, <3>2, <3>3, <3>4
    <2> QED  BY <2>1 DEF NoneStranded
<1>13. ParentSettlesFirst'
    <2>1. ASSUME NEW u \in graph', state'[u] = "in_progress", turn[u].parent # 0
          PROVE  state'[turn[u].parent] \notin Runnable
        <3>1. u \in graph /\ u \in Turns /\ state[u] = "in_progress"  BY <1>1, <1>4, <1>5, <2>1
        <3>2. state[turn[u].parent] \notin Runnable
            BY <2>1, <3>1 DEF Inv, SchedulingInv, QueueIsServed, ParentSettlesFirst
        <3>3. turn[u].parent \in Turns
            BY <1>4, <2>1, <3>1 DEF Inv, SchedulingInv, TreesAreWhole
        <3> QED  BY <1>5, <3>2, <3>3 DEF Runnable
    <2> QED  BY <1>1, <2>1 DEF ParentSettlesFirst
<1>14. ClearedStatusIsInert'
    <2>1. ASSUME NEW u \in graph' \ status' PROVE u \notin session' /\ state'[u] = "error"
        <3>1. u \in graph /\ u \in Turns /\ u \notin removed /\ (u \notin status \/ u \in cleared)
            BY <1>1, <1>4
        <3>2. CASE u \in cleared  BY <1>1, <1>5, <3>1, <3>2
        <3>3. CASE u \notin status
            BY <1>1, <1>5, <3>1, <3>3 DEF Inv, SchedulingInv, ClearedIsGone, ClearedStatusIsInert
        <3> QED  BY <3>1, <3>2, <3>3
    <2> QED  BY <2>1 DEF ClearedStatusIsInert
<1>15. DetachedIsStopped'
    <2>1. ASSUME NEW u \in Admitted, task'[u] # "none", u \notin graph' \cap status'
          PROVE  u \in stopped'
        <3>1. task[u] # "none" /\ (u \notin graph \cap status \/ u \in gone)
            BY <1>1, <1>4, <1>6, <2>1
        <3>2. CASE u \in gone  BY <1>7, <3>1, <3>2
        <3>3. CASE u \notin graph \cap status
            BY <1>3, <3>1, <3>3 DEF Inv, SchedulingInv, ClearedIsGone, DetachedIsStopped
        <3> QED  BY <3>1, <3>2, <3>3
    <2> QED  BY <1>2, <2>1 DEF DetachedIsStopped
<1> QED  BY <1>8, <1>9, <1>10, <1>11, <1>12, <1>13, <1>14, <1>15
            DEF SchedulingInv, QueueIsServed, ClearedIsGone

-----------------------------------------------------------------------------
(* Scheduling: admission. *)

\* A turn that enters is claimed, or waits behind the claim and all that wait.
LEMMA SchedulingEntering ==
    ASSUME Inv, NEW t, NEW m, NEW r, NEW parent, NEW via, Entering(t, m, r, parent, via)
    PROVE  SchedulingInv'
<1>1. /\ t \in Turns /\ t \notin Admitted /\ t \notin graph /\ Admitted' = Admitted \cup {t}
      /\ \A u \in Admitted : u < t /\ turn'[u] = turn[u] /\ Root(u)' = Root(u)
      /\ Root(t)' = r /\ r \in Admitted' /\ turn'[t].parent = parent /\ turn'[t].via = via
      /\ r = t \/ (r \in published /\ r \in Admitted /\ Root(r) = r)
      /\ r \in Turns
    BY ZenonT(60), EnteringFacts
<1>2. /\ graph' = graph \cup {t} /\ status' = status \cup {t} /\ session' = session
      /\ stopped' = stopped /\ EnqueueOrClaim(r, t)
      /\ \/ parent = 0 /\ r = t /\ published' = published \cup {t}
         \/ /\ parent \in graph /\ r = Root(parent) /\ published' = published
            /\ via = "status" => parent \in status
    BY DEF Entering
<1>3. /\ Admitted \subseteq Turns /\ graph \subseteq Admitted /\ stopped \subseteq Admitted
      /\ 0 \notin Turns /\ status \subseteq graph /\ session \subseteq graph /\ published \subseteq graph
      /\ queue \in [Turns -> Seq(Admitted)] /\ Admitted \in SUBSET Nat /\ t \in Nat
      /\ active \in [Turns -> Admitted \cup {0}]
    BY SMTT(30), <1>1, AdmittedFacts DEF Inv, Types, NodesTyped, SchedulingTyped, SchedulingInv, TreesAreWhole
<1>4. task[t] = "none"  BY <1>1 DEF Inv, SchedulingInv, ClaimsAreHome
<1>5. \A q \in Turns : /\ Range(queue[q]) = {u \in Members(q) : state[u] = "pending"}
                       /\ queue[q] # <<>> => active[q] # 0
                       /\ \A u \in Members(q) : state[u] = "in_progress" => active[q] = u
    BY DEF Inv, SchedulingInv, QueueIsServed, NoneStranded
<1>6. \A q \in Turns : Members(q)' = Members(q) \cup (IF q = r THEN {t} ELSE {})
    BY ZenonT(60), <1>1, <1>2, <1>3 DEF Members
<1>7. TreesAreWhole'
    <2>1. ASSUME NEW u \in graph
          PROVE  /\ Root(u)' \in published'
                 /\ \/ turn'[u].parent = 0
                    \/ /\ turn'[u].parent \in graph'
                       /\ turn'[u].via = "status" => turn'[u].parent \in status'
        BY <1>1, <1>2, <1>3 DEF Inv, SchedulingInv, TreesAreWhole
    <2>2. /\ Root(t)' \in published'
          /\ \/ turn'[t].parent = 0
             \/ /\ turn'[t].parent \in graph'
                /\ turn'[t].via = "status" => turn'[t].parent \in status'
        BY <1>1, <1>2 DEF Inv, SchedulingInv, TreesAreWhole
    <2>3. \A q \in published' : q \in graph' /\ Root(q)' = q
        <3>1. \A q \in published : q \in graph' /\ Root(q)' = q
            BY <1>1, <1>2, <1>3 DEF Inv, SchedulingInv, TreesAreWhole
        <3> QED  BY <1>1, <1>2, <3>1
    <2> QED  BY <1>2, <2>1, <2>2, <2>3 DEF TreesAreWhole
<1>8. CASE active[r] = 0 /\ Claim(r, t) /\ UNCHANGED queue
    <2>1. /\ active'[r] = t /\ \A q \in Turns : q # r => active'[q] = active[q]
          /\ state'[t] = "in_progress" /\ \A u \in Turns : u # t => state'[u] = state[u]
          /\ task'[t] = "launched" /\ \A u \in Turns : u # t => task'[u] = task[u]
        BY <1>1, <1>8 DEF Claim, Inv, Types, NodesTyped, SchedulingTyped
    <2>2. ClaimsAreHome'
        <3>1. ASSUME NEW q \in Turns, active'[q] # 0
              PROVE  turn'[active'[q]].root = q /\ state'[active'[q]] # "pending"
            <4>1. CASE q = r  BY <1>1, <2>1, <4>1 DEF Root
            <4>2. CASE q # r
                <5>1. active'[q] = active[q] /\ active[q] \in Admitted
                    BY <1>3, <2>1, <3>1, <4>2
                <5>2. Root(active[q]) = q /\ state[active[q]] # "pending"
                    BY <3>1, <5>1 DEF Inv, SchedulingInv, ClaimsAreHome
                <5>3. active[q] # t /\ active[q] \in Turns  BY <1>1, <1>3, <5>1
                <5>4. turn'[active[q]] = turn[active[q]]  BY <1>1, <5>1
                <5> QED  BY <2>1, <5>1, <5>2, <5>3, <5>4 DEF Root
            <4> QED  BY <4>1, <4>2
        <3>2. ASSUME NEW u \in Admitted'
              PROVE  task'[u] # "none" <=> active'[Root(u)'] = u
            <4>1. CASE u = t  BY <1>1, <2>1, <4>1
            <4>2. CASE u # t
                <5>1. u \in Admitted /\ u \in Turns /\ Root(u)' = Root(u) /\ Root(u) \in Turns /\ u # 0
                    BY <1>1, <1>3, <4>2, AdmittedFacts DEF Inv, Types
                <5>2. task[u] # "none" <=> active[Root(u)] = u
                    BY <5>1 DEF Inv, SchedulingInv, ClaimsAreHome, ClaimsHaveTasks
                <5>3. task'[u] = task[u]  BY <2>1, <4>2, <5>1
                <5>4. active'[Root(u)] = u <=> active[Root(u)] = u
                    BY <1>8, <2>1, <4>2, <5>1
                <5> QED  BY <5>1, <5>2, <5>3, <5>4
            <4> QED  BY <4>1, <4>2
        <3>3. \A u \in Turns : u \notin Admitted' => task'[u] = "none"
            BY <1>1, <2>1 DEF Inv, SchedulingInv, ClaimsAreHome
        <3>4. ClaimsHaveTasks'  BY <3>2 DEF ClaimsHaveTasks
        <3>5. (\A q \in Turns : active[q] # 0 => Root(active[q]) = q /\ state[active[q]] # "pending")'
            BY <3>1 DEF Root
        <3> QED  BY <3>3, <3>4, <3>5 DEF ClaimsAreHome
    <2>3. QueuesAreOrdered'
        BY <1>8 DEF Inv, SchedulingInv, QueuesAreOrdered, Increasing
    <2>4. LeftSettled'
        <3>1. \A u \in Turns : task'[u] \in {"over", "finishing"} => state'[u] # "in_progress"
            BY <2>1 DEF Inv, SchedulingInv, LeftSettled
        <3>2. \A u \in Turns : task'[u] = "recovering" => u \in stopped'
            BY <1>2, <2>1 DEF Inv, SchedulingInv, LeftSettled
        <3>3. \A u \in stopped : u \in Turns /\ u # t  BY <1>1, <1>3
        <3>4. \A u \in stopped' : state'[u] \notin Runnable
            BY <1>2, <2>1, <3>3 DEF Inv, SchedulingInv, LeftSettled
        <3> QED  BY <3>1, <3>2, <3>4 DEF LeftSettled
    <2>5. NoneStranded'
        <3>1. ASSUME NEW q \in Turns
              PROVE  /\ Range(queue'[q]) = {u \in Members(q)' : state'[u] = "pending"}
                     /\ queue'[q] # <<>> => active'[q] # 0
                     /\ \A u \in Members(q)' : state'[u] = "in_progress" => active'[q] = u
            <4>1. \A u \in Members(q) : u \in Turns /\ u # t /\ u # 0
                BY <1>1, <1>3 DEF Members
            <4>2. {u \in Members(q)' : state'[u] = "pending"} = {u \in Members(q) : state[u] = "pending"}
                BY <1>6, <2>1, <4>1
            <4>3. queue'[q] # <<>> => active'[q] # 0
                BY <1>1, <1>3, <1>5, <1>8, <2>1
            <4>4. \A u \in Members(q)' : state'[u] = "in_progress" => active'[q] = u
                <5>1. CASE q = r
                    <6>1. \A u \in Members(q) : state[u] # "in_progress"
                        BY <1>5, <1>8, <4>1, <5>1
                    <6> QED  BY <1>6, <2>1, <4>1, <5>1, <6>1
                <5>2. CASE q # r  BY <1>5, <1>6, <2>1, <4>1, <5>2
                <5> QED  BY <5>1, <5>2
            <4> QED  BY <1>5, <1>8, <4>2, <4>3, <4>4
        <3> QED  BY <3>1 DEF NoneStranded
    <2>6. ParentSettlesFirst'
        <3>1. ASSUME NEW u \in graph', state'[u] = "in_progress", turn'[u].parent # 0
              PROVE  state'[turn'[u].parent] \notin Runnable
            <4>1. CASE u = t
                <5>1. parent \in graph /\ r = Root(parent)  BY <1>1, <1>2, <3>1, <4>1
                <5>2. parent \in Members(r) /\ parent \in Turns /\ parent # t /\ parent # 0
                    BY <1>1, <1>3, <5>1 DEF Members
                <5>3. state[parent] # "in_progress"  BY <1>1, <1>5, <1>8, <5>2
                <5>4. state[parent] # "pending"  BY <1>8, <5>1, PendingWaits
                <5> QED  BY <1>1, <2>1, <4>1, <5>2, <5>3, <5>4 DEF Runnable
            <4>2. CASE u # t
                <5>1. u \in graph /\ u \in Admitted /\ u \in Turns  BY <1>2, <1>3, <4>2
                <5>2. turn'[u] = turn[u] /\ state[u] = "in_progress"  BY <1>1, <2>1, <3>1, <4>2, <5>1
                <5>3. state[turn[u].parent] \notin Runnable
                    BY <3>1, <5>1, <5>2 DEF Inv, SchedulingInv, QueueIsServed, ParentSettlesFirst
                <5>4. turn[u].parent \in graph  BY <3>1, <5>1, <5>2 DEF Inv, SchedulingInv, TreesAreWhole
                <5>5. turn[u].parent \in Turns /\ turn[u].parent # t  BY <1>1, <1>3, <5>4
                <5> QED  BY <2>1, <5>2, <5>3, <5>5
            <4> QED  BY <4>1, <4>2
        <3> QED  BY <3>1 DEF ParentSettlesFirst
    <2>7. ClearedStatusIsInert'
        <3>1. \A u \in graph' \ status' : u \in graph \ status /\ u \in Turns /\ u # t
            BY <1>1, <1>2, <1>3
        <3> QED  BY <1>2, <2>1, <3>1 DEF Inv, SchedulingInv, ClearedIsGone, ClearedStatusIsInert
    <2>8. DetachedIsStopped'
        <3>1. ASSUME NEW u \in Admitted', task'[u] # "none", u \notin graph' \cap status'
              PROVE  u \in stopped'
            <4>1. u \in Admitted /\ u \in Turns /\ u # t /\ u \notin graph \cap status
                BY <1>1, <1>2, <1>3, <3>1
            <4> QED  BY <1>2, <2>1, <3>1, <4>1 DEF Inv, SchedulingInv, ClearedIsGone, DetachedIsStopped
        <3> QED  BY <3>1 DEF DetachedIsStopped
    <2> QED  BY <1>7, <2>2, <2>3, <2>4, <2>5, <2>6, <2>7, <2>8 DEF SchedulingInv, QueueIsServed, ClearedIsGone
<1>9. CASE /\ active[r] # 0
           /\ queue' = [queue EXCEPT ![r] = Append(queue[r], t)]
           /\ state' = [state EXCEPT ![t] = "pending"]
           /\ UNCHANGED <<active, task>>
    <2>1. /\ state'[t] = "pending" /\ \A u \in Turns : u # t => state'[u] = state[u]
          /\ queue'[r] = Append(queue[r], t) /\ \A q \in Turns : q # r => queue'[q] = queue[q]
        BY <1>1, <1>3, <1>9 DEF Inv, Types, NodesTyped
    <2>2. ClaimsAreHome'
        <3>1. ASSUME NEW q \in Turns, active[q] # 0
              PROVE  Root(active[q])' = q /\ state'[active[q]] # "pending"
            <4>1. active[q] \in Admitted  BY <1>3, <3>1
            <4>2. Root(active[q]) = q /\ state[active[q]] # "pending"
                BY <3>1 DEF Inv, SchedulingInv, ClaimsAreHome
            <4>3. active[q] # t /\ active[q] \in Turns  BY <1>1, <1>3, <4>1
            <4>4. turn'[active[q]] = turn[active[q]] /\ active' = active  BY <1>1, <1>9, <4>1
            <4> QED  BY <2>1, <4>2, <4>3, <4>4 DEF Root
        <3>2. ASSUME NEW u \in Admitted'
              PROVE  task'[u] # "none" <=> active'[Root(u)'] = u
            <4>1. CASE u = t
                <5>1. active[r] # t  BY <1>1, <1>3
                <5> QED  BY <1>1, <1>4, <1>9, <4>1, <5>1
            <4>2. CASE u # t
                <5>1. u \in Admitted /\ Root(u)' = Root(u)  BY <1>1, <4>2
                <5>2. task[u] # "none" <=> active[Root(u)] = u
                    BY <5>1 DEF Inv, SchedulingInv, ClaimsAreHome, ClaimsHaveTasks
                <5> QED  BY <1>9, <5>1, <5>2
            <4> QED  BY <4>1, <4>2
        <3>3. \A u \in Turns : u \notin Admitted' => task'[u] = "none"
            BY <1>1, <1>9 DEF Inv, SchedulingInv, ClaimsAreHome
        <3>4. ClaimsHaveTasks'  BY <3>2 DEF ClaimsHaveTasks
        <3>5. (\A q \in Turns : active[q] # 0 => Root(active[q]) = q /\ state[active[q]] # "pending")'
            BY <1>9, <3>1 DEF Root
        <3> QED  BY <3>3, <3>4, <3>5 DEF ClaimsAreHome
    <2>3. /\ Range(Append(queue[r], t)) = Range(queue[r]) \cup {t}
          /\ Increasing(Append(queue[r], t))
        <3> DEFINE line == queue[r]
        <3>0. line \in Seq(Admitted) /\ Len(line) \in Nat  BY <1>1, <1>3
        <3>1. /\ line \in Seq(Admitted) /\ line \in Seq(Nat) /\ Len(line) \in Nat
              /\ Range(line) = {line[i] : i \in 1 .. Len(line)} /\ Increasing(line)
            <4>1. line \in Seq(Nat)  BY <1>3, <3>0, SeqMonotonic
            <4>2. Range(line) = {line[i] : i \in 1 .. Len(line)}  BY <3>0, RangeEquality
            <4>3. Increasing(line)  BY <1>1 DEF Inv, SchedulingInv, QueuesAreOrdered
            <4> QED  BY <3>0, <4>1, <4>2, <4>3
        <3>2. \A i \in 1 .. Len(line) : line[i] \in Admitted /\ line[i] < t
            BY <1>1, <3>1, ElementOfSeq
        <3> HIDE DEF line
        <3>3. /\ Append(line, t) \in Seq(Nat) /\ Len(Append(line, t)) = Len(line) + 1
              /\ \A i \in 1 .. Len(line) : Append(line, t)[i] = line[i]
              /\ Append(line, t)[Len(line) + 1] = t
            BY <1>3, <3>1, AppendProperties
        <3>4. Range(Append(line, t)) = Range(line) \cup {t}
            <4>1. Range(Append(line, t)) = {Append(line, t)[i] : i \in 1 .. Len(line) + 1}
                BY <3>3, RangeEquality
            <4>2. 1 .. Len(line) + 1 = (1 .. Len(line)) \cup {Len(line) + 1}  BY <3>1
            <4>3. {Append(line, t)[i] : i \in (1 .. Len(line)) \cup {Len(line) + 1}}
                    = {Append(line, t)[i] : i \in 1 .. Len(line)} \cup {Append(line, t)[Len(line) + 1]}
                OBVIOUS
            <4>4. {Append(line, t)[i] : i \in 1 .. Len(line)} = {line[i] : i \in 1 .. Len(line)}
                BY <3>3
            <4> QED  BY <3>1, <3>3, <4>1, <4>2, <4>3, <4>4
        <3>5. Increasing(Append(line, t))
            <4> SUFFICES ASSUME NEW i \in 1 .. Len(line) + 1, NEW j \in 1 .. Len(line) + 1, i < j
                         PROVE  Append(line, t)[i] < Append(line, t)[j]
                BY <3>3 DEF Increasing
            <4>1. i \in 1 .. Len(line)  BY <3>1
            <4>2. CASE j = Len(line) + 1  BY <3>2, <3>3, <4>1, <4>2
            <4>3. CASE j # Len(line) + 1
                <5>1. j \in 1 .. Len(line)  BY <3>1, <4>3
                <5>2. line[i] < line[j]  BY <3>1, <4>1, <5>1 DEF Increasing
                <5> QED  BY <3>3, <4>1, <5>1, <5>2
            <4> QED  BY <4>2, <4>3
        <3> QED  BY <3>4, <3>5 DEF line
    <2>4. QueuesAreOrdered'
        <3>1. \A q \in Turns : Increasing(queue'[q])
            BY <2>1, <2>3 DEF Inv, SchedulingInv, QueuesAreOrdered
        <3> QED  BY <3>1 DEF QueuesAreOrdered, Increasing
    <2>5. LeftSettled'
        <3>1. \A u \in Turns : task'[u] \in {"over", "finishing"} => state'[u] # "in_progress"
            BY <1>9, <2>1 DEF Inv, SchedulingInv, LeftSettled
        <3>2. \A u \in Turns : task'[u] = "recovering" => u \in stopped'
            BY <1>2, <1>9 DEF Inv, SchedulingInv, LeftSettled
        <3>3. \A u \in stopped : u \in Turns /\ u # t  BY <1>1, <1>3
        <3>4. \A u \in stopped' : state'[u] \notin Runnable
            BY <1>2, <2>1, <3>3 DEF Inv, SchedulingInv, LeftSettled
        <3> QED  BY <3>1, <3>2, <3>4 DEF LeftSettled
    <2>6. NoneStranded'
        <3>1. ASSUME NEW q \in Turns
              PROVE  /\ Range(queue'[q]) = {u \in Members(q)' : state'[u] = "pending"}
                     /\ queue'[q] # <<>> => active'[q] # 0
                     /\ \A u \in Members(q)' : state'[u] = "in_progress" => active'[q] = u
            <4>1. \A u \in Members(q) : u \in Turns /\ u # t /\ u # 0
                BY <1>1, <1>3 DEF Members
            <4>2. {u \in Members(q)' : state'[u] = "pending"}
                    = {u \in Members(q) : state[u] = "pending"} \cup (IF q = r THEN {t} ELSE {})
                BY <1>6, <2>1, <4>1
            <4>3. Range(queue'[q]) = Range(queue[q]) \cup (IF q = r THEN {t} ELSE {})
                BY <2>1, <2>3
            <4>4. \A u \in Members(q)' : state'[u] = "in_progress" => u \in Members(q) /\ state[u] = "in_progress"
                BY <1>6, <2>1, <4>1
            <4> QED  BY <1>5, <1>9, <2>1, <4>2, <4>3, <4>4
        <3> QED  BY <3>1 DEF NoneStranded
    <2>7. ParentSettlesFirst'
        <3>1. ASSUME NEW u \in graph', state'[u] = "in_progress", turn'[u].parent # 0
              PROVE  state'[turn'[u].parent] \notin Runnable
            <4>1. u # t  BY <2>1, <3>1
            <4>2. u \in graph /\ u \in Admitted /\ u \in Turns  BY <1>2, <1>3, <4>1
            <4>3. turn'[u] = turn[u] /\ state[u] = "in_progress"  BY <1>1, <2>1, <3>1, <4>1, <4>2
            <4>4. state[turn[u].parent] \notin Runnable
                BY <3>1, <4>2, <4>3 DEF Inv, SchedulingInv, QueueIsServed, ParentSettlesFirst
            <4>5. turn[u].parent \in graph  BY <3>1, <4>2, <4>3 DEF Inv, SchedulingInv, TreesAreWhole
            <4>6. turn[u].parent \in Turns /\ turn[u].parent # t  BY <1>1, <1>3, <4>5
            <4> QED  BY <2>1, <4>3, <4>4, <4>6
        <3> QED  BY <3>1 DEF ParentSettlesFirst
    <2>8. ClearedStatusIsInert'
        <3>1. \A u \in graph' \ status' : u \in graph \ status /\ u \in Turns /\ u # t
            BY <1>1, <1>2, <1>3
        <3> QED  BY <1>2, <2>1, <3>1 DEF Inv, SchedulingInv, ClearedIsGone, ClearedStatusIsInert
    <2>9. DetachedIsStopped'
        <3>1. ASSUME NEW u \in Admitted', task'[u] # "none", u \notin graph' \cap status'
              PROVE  u \in stopped'
            <4>1. u \in Admitted /\ u # t /\ u \notin graph \cap status  BY <1>1, <1>2, <3>1
            <4> QED  BY <1>2, <1>9, <3>1, <4>1 DEF Inv, SchedulingInv, ClearedIsGone, DetachedIsStopped
        <3> QED  BY <3>1 DEF DetachedIsStopped
    <2> QED  BY <1>7, <2>2, <2>4, <2>5, <2>6, <2>7, <2>8, <2>9 DEF SchedulingInv, QueueIsServed, ClearedIsGone
<1> QED  BY <1>2, <1>8, <1>9 DEF EnqueueOrClaim, EnqueueOr

-----------------------------------------------------------------------------
(* The files: what a step does to the store, the file and the command. *)

\* A snapshot is as good after a step as before: turns do not change.
LEMMA SnapshotsStay ==
    ASSUME Inv, Admitted \subseteq Admitted', \A u \in Admitted : turn'[u] = turn[u],
           NEW s, NEW m, SnapshotOK(s), WellFormed(s, m)
    PROVE  SnapshotOK(s)' /\ WellFormed(s, m)'
<1>1. DOMAIN s \subseteq Admitted /\ s \in [DOMAIN s -> Node]  BY DEF SnapshotOK
<1>2. SnapshotOK(s)'  BY <1>1 DEF SnapshotOK
<1>3. \A u \in Admitted : Root(u)' = Root(u) /\ Root(u) \in Admitted
    BY AdmittedFacts DEF Inv, Types, Root
<1>4. ASSUME NEW t \in DOMAIN s
      PROVE  /\ Root(t)' \in DOMAIN s /\ turn'[Root(t)'].msg = m
             /\ \/ turn'[t].parent = 0
                \/ /\ turn'[t].parent \in DOMAIN s
                   /\ turn'[t].via = "status" => s[turn'[t].parent].status
             /\ ~s[t].status => ~s[t].session /\ s[t].state = "error"
    <2>1. t \in Admitted /\ turn'[t] = turn[t] /\ Root(t)' = Root(t) /\ turn'[Root(t)] = turn[Root(t)]
        BY <1>1, <1>3
    <2> QED  BY <2>1 DEF WellFormed, Identity
<1>5. \A t, u \in DOMAIN s : Root(t)' = Root(u)'
    BY <1>1, <1>3 DEF WellFormed
<1> QED  BY <1>2, <1>4, <1>5 DEF WellFormed, Identity, Root

\* The snapshot of a tree, after a step that keeps the trees in order.
LEMMA SnapshotIsWhole ==
    ASSUME Forest', NodesTyped', SchedulingInv', NEW r \in published',
           NEW s, s = Snapshot(r)', NEW m, m = turn'[r].msg
    PROVE  DOMAIN s = Members(r)' /\ SnapshotOK(s)' /\ WellFormed(s, m)' /\ m \in Messages
<1>1. s = [t \in Members(r)' |-> [state |-> state'[t], session |-> t \in session',
                                  status |-> t \in status']]
    BY DEF Snapshot
<1>2. DOMAIN s = Members(r)'  BY <1>1
<1>3. ASSUME NEW t \in Members(r)'
      PROVE  /\ s[t].state = state'[t] /\ s[t].session = (t \in session')
             /\ s[t].status = (t \in status') /\ s[t] \in Node
             /\ t \in graph' /\ Root(t)' = r /\ t \in Turns /\ t \in Admitted'
    <2>1. t \in graph' /\ Root(t)' = r  BY DEF Members
    <2>2. t \in Admitted' /\ t \in Turns
        BY <2>1, BoundsAssumption DEF NodesTyped, Forest, Admitted, Turns
    <2>3. state'[t] \in States
        BY <2>1, <2>2 DEF NodesTyped
    <2>4. s[t] = [state |-> state'[t], session |-> t \in session', status |-> t \in status']
        BY <1>1
    <2>5. (t \in session') \in BOOLEAN /\ (t \in status') \in BOOLEAN  OBVIOUS
    <2> QED  BY <2>1, <2>2, <2>3, <2>4, <2>5 DEF Node
<1>4. SnapshotOK(s)'
    <2>1. \A t \in DOMAIN s : t \in Admitted' /\ s[t] \in Node  BY <1>2, <1>3
    <2>2. s \in [DOMAIN s -> Node]
        <3>1. s = [t \in DOMAIN s |-> s[t]]  BY <1>1, <1>2
        <3> QED  BY <2>1, <3>1
    <2> QED  BY <2>1, <2>2 DEF SnapshotOK
<1>5. r \in graph' /\ Root(r)' = r /\ r \in Members(r)'
    BY DEF SchedulingInv, TreesAreWhole, Members
<1>6. ASSUME NEW t \in DOMAIN s
      PROVE  /\ Root(t)' \in DOMAIN s /\ turn'[Root(t)'].msg = m
             /\ \/ turn'[t].parent = 0
                \/ /\ turn'[t].parent \in DOMAIN s
                   /\ turn'[t].via = "status" => s[turn'[t].parent].status
             /\ ~s[t].status => ~s[t].session /\ s[t].state = "error"
    <2>1. t \in Members(r)' /\ t \in graph' /\ Root(t)' = r /\ t \in Admitted'  BY <1>2, <1>3
    <2>2. Root(t)' \in DOMAIN s /\ turn'[Root(t)'].msg = m  BY <1>2, <1>5, <2>1
    <2>3. ASSUME turn'[t].parent # 0
          PROVE  /\ turn'[t].parent \in DOMAIN s
                 /\ turn'[t].via = "status" => s[turn'[t].parent].status
        <3>1. turn'[t].parent \in graph' /\ (turn'[t].via = "status" => turn'[t].parent \in status')
            BY <2>1, <2>3 DEF SchedulingInv, TreesAreWhole
        <3>2. turn'[turn'[t].parent].root = r
            BY <2>1, <2>3 DEF Forest, Root
        <3>3. turn'[t].parent \in Members(r)'  BY <3>1, <3>2 DEF Members, Root
        <3>4. s[turn'[t].parent].status = (turn'[t].parent \in status')  BY <1>3, <3>3
        <3> QED  BY <1>2, <3>1, <3>3, <3>4
    <2>4. ~s[t].status => ~s[t].session /\ s[t].state = "error"
        <3>1. t \notin status' => t \notin session' /\ state'[t] = "error"
            BY <2>1 DEF SchedulingInv, ClearedIsGone, ClearedStatusIsInert
        <3> QED  BY <1>3, <2>1, <3>1
    <2> QED  BY <2>2, <2>3, <2>4
<1>7. \A t, u \in DOMAIN s : Root(t)' = Root(u)'  BY <1>2, <1>3
<1>8. WellFormed(s, m)'  BY <1>6, <1>7 DEF WellFormed, Identity, Root
<1>9. m \in Messages
    <2>1. r \in Admitted'  BY <1>3, <1>5
    <2>2. turn' \in Seq(TurnRecord) /\ Admitted' = 1 .. Len(turn')  BY DEF Forest, Admitted
    <2>3. turn'[r] \in TurnRecord  BY <2>1, <2>2, ElementOfSeq
    <2> QED  BY <2>3 DEF TurnRecord
<1> QED  BY <1>2, <1>4, <1>8, <1>9

\* The snapshots of the store and of the file, one by one.
LEMMA FilesFromSnapshots ==
    ASSUME \A m \in Messages : \E s, d : /\ s = store'[m] /\ SnapshotOK(s)' /\ WellFormed(s, m)'
                                         /\ d = disk'[m] /\ SnapshotOK(d)' /\ WellFormed(d, m)'
    PROVE  /\ (\A m \in Messages : SnapshotOK(store[m]) /\ SnapshotOK(disk[m]))'
           /\ (\A m \in Messages : WellFormed(store[m], m) /\ WellFormed(disk[m], m))'
<1>1. ASSUME NEW m \in Messages
      PROVE  (SnapshotOK(store[m]) /\ SnapshotOK(disk[m]))'
    <2>1. PICK s, d : s = store'[m] /\ SnapshotOK(s)' /\ d = disk'[m] /\ SnapshotOK(d)'
        OBVIOUS
    <2> QED  BY <2>1 DEF SnapshotOK
<1>2. ASSUME NEW m \in Messages
      PROVE  (WellFormed(store[m], m) /\ WellFormed(disk[m], m))'
    <2>1. PICK s, d : s = store'[m] /\ WellFormed(s, m)' /\ d = disk'[m] /\ WellFormed(d, m)'
        OBVIOUS
    <2> QED  BY <2>1 DEF WellFormed
<1> QED  BY <1>1, <1>2

\* An empty snapshot is as good as any.
LEMMA NoTreeIsGood ==
    ASSUME NEW m
    PROVE  SnapshotOK(NoTree)' /\ WellFormed(NoTree, m)' /\ DOMAIN NoTree = {}
BY DEF SnapshotOK, WellFormed, NoTree

\* The files stay in order if each snapshot stays or is replaced by one in order.
LEMMA FilesStayWhole ==
    ASSUME Inv, Admitted \subseteq Admitted', \A u \in Admitted : turn'[u] = turn[u],
           \A m \in Messages :
              store'[m] = store[m] \/ \E s : s = store'[m] /\ SnapshotOK(s)' /\ WellFormed(s, m)',
           \A m \in Messages : disk'[m] \in {disk[m], store'[m]}
    PROVE  /\ (\A m \in Messages : SnapshotOK(store[m]) /\ SnapshotOK(disk[m]))'
           /\ (\A m \in Messages : WellFormed(store[m], m) /\ WellFormed(disk[m], m))'
<1>1. ASSUME NEW m \in Messages
      PROVE  \E s, d : /\ s = store'[m] /\ SnapshotOK(s)' /\ WellFormed(s, m)'
                       /\ d = disk'[m] /\ SnapshotOK(d)' /\ WellFormed(d, m)'
    <2>1. PICK s0 : s0 = store[m]  OBVIOUS
    <2>2. PICK d0 : d0 = disk[m]  OBVIOUS
    <2>3. SnapshotOK(s0) /\ WellFormed(s0, m) /\ SnapshotOK(d0) /\ WellFormed(d0, m)
        BY <2>1, <2>2 DEF Inv, Types, FilesTyped, FilesAreWhole
    <2>4. SnapshotOK(s0)' /\ WellFormed(s0, m)'  BY <2>3, SnapshotsStay
    <2>5. SnapshotOK(d0)' /\ WellFormed(d0, m)'  BY <2>3, SnapshotsStay
    <2>6. PICK s : s = store'[m] /\ SnapshotOK(s)' /\ WellFormed(s, m)'
        <3>1. CASE store'[m] = store[m]  BY <2>1, <2>4, <3>1
        <3>2. CASE store'[m] # store[m]  BY <3>2
        <3> QED  BY <3>1, <3>2
    <2>7. PICK d : d = disk'[m] /\ SnapshotOK(d)' /\ WellFormed(d, m)'
        <3>1. CASE disk'[m] = disk[m]  BY <2>2, <2>5, <3>1
        <3>2. CASE disk'[m] = store'[m]  BY <2>6, <3>2
        <3> QED  BY <3>1, <3>2
    <2> QED  BY <2>6, <2>7
<1> QED  BY <1>1, FilesFromSnapshots

\* When turns, trees, store and command stay, and the store may be written.
LEMMA FilesStay ==
    ASSUME Inv, UNCHANGED <<turn, graph, published, store, cmd>>, disk' \in {disk, store}
    PROVE  FilesTyped' /\ FilesAreWhole'
<1>1. Admitted' = Admitted /\ \A u : Root(u)' = Root(u)  BY ForestStays
<1>2. FilesTyped'  BY <1>1 DEF Inv, Types, FilesTyped, SnapshotOK
<1>4. \A r : Members(r)' = Members(r) /\ Identity(r)' = Identity(r)
    BY <1>1 DEF Members, Identity
<1>5. \A m \in Messages : Live(m)' \/ Pending(m)'
    <2>1. \A m \in Messages : Live(m) => Live(m)'  BY <1>4 DEF Live, Identity
    <2>2. \A m \in Messages : Pending(m) => Pending(m)'  BY <1>4 DEF Pending, Identity
    <2> QED  BY <2>1, <2>2 DEF Inv, FilesAreWhole
<1>6. Distinct(graph \cup Stored(store))' /\ Distinct(Stored(disk))'
    <2>1. Distinct(graph \cup Stored(store))'
        BY DEF Inv, FilesAreWhole, Distinct, Stored
    <2>2. CASE disk' = disk  BY <2>2 DEF Inv, FilesAreWhole, Distinct, Stored
    <2>3. CASE disk' = store  BY <2>1, <2>3 DEF Distinct, Stored
    <2> QED  BY <2>1, <2>2, <2>3
<1>7. (\A m \in Messages : WellFormed(store[m], m) /\ WellFormed(disk[m], m))'
    BY <1>1, FilesStayWhole
<1>8. ASSUME cmd'.at = "saving", NEW r \in DOMAIN cmd'.snapshots
      PROVE  /\ r \in published' /\ DOMAIN cmd'.snapshots[r] = Members(r)'
             /\ WellFormed(cmd.snapshots[r], Identity(r))'
    <2>1. PICK s : s = cmd.snapshots[r]  OBVIOUS
    <2>2. PICK m : m = Identity(r)  OBVIOUS
    <2>3. r \in published /\ DOMAIN s = Members(r) /\ WellFormed(s, m) /\ SnapshotOK(s)
        BY <1>8, <2>1, <2>2 DEF Inv, Types, FilesTyped, FilesAreWhole
    <2>4. WellFormed(s, m)'  BY <1>1, <2>3, SnapshotsStay
    <2>5. s = cmd'.snapshots[r] /\ m = Identity(r)'  BY <1>4, <2>1, <2>2
    <2>6. WellFormed(cmd.snapshots[r], Identity(r))'
        BY <2>4, <2>5 DEF WellFormed
    <2> QED  BY <1>4, <2>1, <2>3, <2>6
<1>9. cmd'.at = "draining" /\ cmd'.chat # None => cmd'.saves = {} /\ cmd'.forget = {}
    BY DEF Inv, FilesAreWhole
<1>10. cmd'.at = "saving" => \A r \in DOMAIN cmd'.snapshots :
          /\ r \in published' /\ DOMAIN cmd'.snapshots[r] = Members(r)'
          /\ WellFormed(cmd.snapshots[r], Identity(r))'
    BY <1>8
<1> QED  BY <1>2, <1>5, <1>6, <1>7, <1>9, <1>10 DEF FilesAreWhole

\* With the state lock free, every stored node is one of a published tree.
LEMMA StoredAreNodes ==
    ASSUME Inv, StateLockFree
    PROVE  Stored(store) \subseteq graph
<1>1. \A m \in Messages : Live(m)
    BY DEF Inv, FilesAreWhole, Pending, StateLockFree
<1>2. \A m \in Messages : DOMAIN store[m] \subseteq graph
    BY <1>1 DEF Live, Members, NoTree
<1> QED  BY <1>2 DEF Stored

\* The snapshot of a tree is saved, by a turn that has entered it or that runs.
LEMMA FilesSave ==
    ASSUME Inv, Forest', NodesTyped', SchedulingInv', NEW r \in published', Save(r),
           Admitted \subseteq Admitted', \A u \in Admitted : turn'[u] = turn[u],
           UNCHANGED <<disk, cmd>>, published \subseteq published',
           \A q \in published : q # r \/ cmd.at # "idle" => Members(q)' = Members(q),
           \A u, v \in graph' \cup Stored(store) : turn'[u].msg = turn'[v].msg => u = v
    PROVE  FilesTyped' /\ FilesAreWhole'
<1>1. PICK s : s = Snapshot(r)'  OBVIOUS
<1>2. PICK k : k = turn'[r].msg  OBVIOUS
<1>3. DOMAIN s = Members(r)' /\ SnapshotOK(s)' /\ WellFormed(s, k)' /\ k \in Messages
    BY <1>1, <1>2, SnapshotIsWhole
<1>4. /\ DOMAIN store' = Messages /\ store'[k] = s
      /\ \A m \in Messages : m # k => store'[m] = store[m]
    BY <1>1, <1>2, <1>3 DEF Save, Inv, Types, FilesTyped
<1>5. \A q \in published : Identity(q)' = Identity(q) /\ q \in Admitted
    BY DEF Inv, Types, NodesTyped, Identity
<1>6. /\ (\A m \in Messages : SnapshotOK(store[m]) /\ SnapshotOK(disk[m]))'
      /\ (\A m \in Messages : WellFormed(store[m], m) /\ WellFormed(disk[m], m))'
    <2>1. \A m \in Messages :
             store'[m] = store[m] \/ \E x : x = store'[m] /\ SnapshotOK(x)' /\ WellFormed(x, m)'
        BY <1>3, <1>4
    <2> QED  BY <2>1, FilesStayWhole
<1>7. ASSUME cmd'.at = "saving", NEW q \in DOMAIN cmd'.snapshots
      PROVE  /\ q \in published' /\ DOMAIN cmd'.snapshots[q] = Members(q)'
             /\ SnapshotOK(cmd.snapshots[q])' /\ WellFormed(cmd.snapshots[q], Identity(q))'
    <2>1. PICK x : x = cmd.snapshots[q]  OBVIOUS
    <2>2. PICK m : m = Identity(q)  OBVIOUS
    <2>3. q \in published /\ DOMAIN x = Members(q) /\ WellFormed(x, m) /\ SnapshotOK(x)
        BY <1>7, <2>1, <2>2 DEF Inv, Types, FilesTyped, FilesAreWhole
    <2>4. SnapshotOK(x)' /\ WellFormed(x, m)'  BY <2>3, SnapshotsStay
    <2>5. x = cmd'.snapshots[q] /\ m = Identity(q)' /\ Members(q)' = Members(q)
        BY <1>5, <1>7, <2>1, <2>2, <2>3
    <2>6. WellFormed(cmd.snapshots[q], Identity(q))'  BY <2>4, <2>5 DEF WellFormed
    <2>7. SnapshotOK(cmd.snapshots[q])'  BY <2>4, <2>5 DEF SnapshotOK
    <2> QED  BY <2>1, <2>3, <2>5, <2>6, <2>7
<1>8. FilesTyped'
    <2>1. DOMAIN disk' = Messages  BY DEF Inv, Types, FilesTyped
    <2>2. cmd'.at = "saving" => (\A q \in DOMAIN cmd.snapshots : SnapshotOK(cmd.snapshots[q]))'
        BY <1>7
    <2> QED  BY <1>4, <1>6, <2>1, <2>2 DEF FilesTyped
<1>9. ASSUME NEW m \in Messages
      PROVE  (Live(m) \/ Pending(m))'
    <2>1. CASE m = k
        <3>1. Identity(r)' = m /\ DOMAIN store'[m] = Members(r)'
            BY <1>2, <1>3, <1>4, <2>1 DEF Identity
        <3> QED  BY <3>1 DEF Live
    <2>2. CASE m # k /\ Live(m)
        <3>1. store'[m] = store[m]  BY <1>4, <2>2
        <3>2. CASE store[m] = NoTree  BY <3>1, <3>2 DEF Live, NoTree
        <3>3. CASE store[m] # NoTree
            <4>1. PICK q \in published : Identity(q) = m /\ DOMAIN store[m] = Members(q)
                BY <2>2, <3>3 DEF Live
            <4>2. Identity(q)' = m  BY <1>5, <4>1
            <4>3. q # r  BY <1>2, <2>2, <4>2 DEF Identity
            <4>4. Members(q)' = Members(q)  BY <4>3
            <4> QED  BY <3>1, <4>1, <4>2, <4>4 DEF Live
        <3> QED  BY <3>2, <3>3
    <2>3. CASE Pending(m)
        <3>1. CASE cmd.at = "draining"
            <4>1. CASE \E q \in cmd.saves \cap published : Identity(q) = m
                <5>1. PICK q \in cmd.saves \cap published : Identity(q) = m  BY <4>1
                <5>2. q \in cmd'.saves \cap published' /\ Identity(q)' = m
                    BY <1>5, <5>1
                <5> QED  BY <3>1, <5>2 DEF Pending
            <4>2. CASE m \in cmd.forget \/ m[1] = cmd.chat
                BY <3>1, <4>2 DEF Pending
            <4> QED  BY <2>3, <3>1, <4>1, <4>2 DEF Pending
        <3>2. CASE cmd.at = "saving"
            <4>1. CASE \E q \in DOMAIN cmd.snapshots : Identity(q) = m
                <5>1. PICK q \in DOMAIN cmd.snapshots : Identity(q) = m  BY <4>1
                <5>2. q \in published  BY <3>2 DEF Inv, FilesAreWhole
                <5>3. q \in DOMAIN cmd'.snapshots /\ Identity(q)' = m
                    BY <1>5, <5>1, <5>2
                <5> QED  BY <3>2, <5>3 DEF Pending
            <4>2. CASE m \in cmd.forget
                BY <3>2, <4>2 DEF Pending
            <4> QED  BY <2>3, <3>2, <4>1, <4>2 DEF Pending
        <3> QED  BY <2>3, <3>1, <3>2 DEF Pending
    <2> QED  BY <2>1, <2>2, <2>3 DEF Inv, FilesAreWhole
<1>10. Distinct(graph \cup Stored(store))'
    <2>1. Stored(store)' \subseteq Stored(store) \cup graph'
        <3>1. Members(r)' \subseteq graph'  BY DEF Members
        <3> QED  BY <1>3, <1>4, <3>1 DEF Stored
    <2> QED  BY <2>1 DEF Distinct
<1>11. Distinct(Stored(disk))'
    <2>1. \A m \in Messages : DOMAIN disk[m] \subseteq Admitted
        BY DEF Inv, Types, FilesTyped, SnapshotOK
    <2>2. Stored(disk)' = Stored(disk) /\ Stored(disk) \subseteq Admitted  BY <2>1 DEF Stored
    <2>3. Distinct(Stored(disk))  BY DEF Inv, FilesAreWhole
    <2> QED  BY <2>2, <2>3 DEF Distinct
<1>12. cmd'.at = "draining" /\ cmd'.chat # None => cmd'.saves = {} /\ cmd'.forget = {}
    BY DEF Inv, FilesAreWhole
<1>13. cmd'.at = "saving" => \A q \in DOMAIN cmd'.snapshots :
          /\ q \in published' /\ DOMAIN cmd'.snapshots[q] = Members(q)'
          /\ WellFormed(cmd.snapshots[q], Identity(q))'
    BY <1>7
<1>14. \A m \in Messages : (Live(m) \/ Pending(m))'  BY <1>9
<1> QED  BY <1>6, <1>8, <1>10, <1>11, <1>12, <1>13, <1>14 DEF FilesAreWhole

\* The task of a claim saves its tree, or does not.
LEMMA FilesOfRunner ==
    ASSUME Inv, NEW t, Forest', NodesTyped', SchedulingInv',
           UNCHANGED <<turn, graph, published, disk, cmd>>,
           UNCHANGED store \/ (Root(t) \in published /\ Save(Root(t)))
    PROVE  FilesTyped' /\ FilesAreWhole'
<1>1. CASE UNCHANGED store  BY <1>1, FilesStay
<1>2. CASE Root(t) \in published /\ Save(Root(t))
    <2>1. PICK r \in published : Save(r)  BY <1>2
    <2>2. Admitted' = Admitted /\ \A u : Root(u)' = Root(u)  BY ForestStays
    <2>3. \A q \in published : Members(q)' = Members(q)  BY <2>2 DEF Members
    <2>4. \A u, v \in graph' \cup Stored(store) : turn'[u].msg = turn'[v].msg => u = v
        BY DEF Inv, FilesAreWhole, Distinct
    <2> QED  BY <2>1, <2>2, <2>3, <2>4, FilesSave
<1> QED  BY <1>1, <1>2

\* A turn enters a tree, with the state lock free.
LEMMA FilesEntering ==
    ASSUME Inv, NEW t, NEW m, NEW r, NEW parent, NEW via, Entering(t, m, r, parent, via),
           Save(r), StateLockFree, UNCHANGED <<disk, cmd>>, SchedulingInv'
    PROVE  FilesTyped' /\ FilesAreWhole'
<1>1. Forest' /\ NodesTyped' /\ SchedulingTyped'  BY TypesEntering
<1>2. /\ t \notin Admitted /\ t \notin graph /\ Admitted' = Admitted \cup {t}
      /\ \A u \in Admitted : turn'[u] = turn[u] /\ Root(u)' = Root(u)
      /\ turn'[t] = [msg |-> m, root |-> r, parent |-> parent, via |-> via]
      /\ Root(t)' = r
      /\ r = t \/ r \in published
    BY EnteringFacts
<1>3. graph' = graph \cup {t} /\ graph \subseteq Admitted /\ published \subseteq published'
    BY DEF Entering, Inv, Types, NodesTyped
<1>4. r \in published'
    <2>1. CASE r = t /\ r \notin published
        <3>1. parent = 0 => published' = published \cup {t}
            BY <1>3 DEF Entering, Admitted
        <3>2. parent # 0 => r \in published
            BY <2>1 DEF Entering, Inv, SchedulingInv, TreesAreWhole
        <3> QED  BY <2>1, <3>1, <3>2
    <2> QED  BY <1>2, <1>3, <2>1
<1>5. \A q \in published : q # r \/ cmd.at # "idle" => Members(q)' = Members(q)
    <2>1. \A u \in graph : Root(u)' = Root(u)  BY <1>2, <1>3
    <2>2. \A q \in published : q # r => Members(q)' = Members(q)
        BY <1>2, <1>3, <2>1 DEF Members
    <2> QED  BY <2>2 DEF StateLockFree
<1>6. \A u, v \in graph' \cup Stored(store) : turn'[u].msg = turn'[v].msg => u = v
    <2>1. Stored(store) \subseteq graph  BY StoredAreNodes
    <2>2. \A u, v \in graph : turn[u].msg = turn[v].msg => u = v
        BY DEF Inv, FilesAreWhole, Distinct
    <2>3. \A u \in graph : turn[u].msg # m  BY DEF Entering
    <2>4. \A u \in graph : turn'[u] = turn[u]  BY <1>2, <1>3
    <2>5. turn'[t].msg = m  BY <1>2
    <2> QED  BY <1>3, <2>1, <2>2, <2>3, <2>4, <2>5
<1> QED  BY <1>1, <1>2, <1>3, <1>4, <1>5, <1>6, FilesSave

\* A command has cancelled and removed nodes, and will save or wipe what is
\* stored of them.
LEMMA FilesCancelling ==
    ASSUME Inv, StateLockFree, UNCHANGED files, cmd'.at = "draining",
           NEW gone, NEW removed, NEW cleared, Cancelling(gone, removed, cleared),
           \A u \in removed : \A m \in Messages : turn[Root(u)].msg = m => Pending(m)',
           cmd'.chat # None => cmd'.saves = {} /\ cmd'.forget = {}
    PROVE  FilesTyped' /\ FilesAreWhole'
<1>1. turn' = turn /\ graph' = graph \ removed /\ published' = published \ removed
    BY DEF Cancelling, RemoveNodes
<1>2. Admitted' = Admitted /\ \A u : Root(u)' = Root(u)  BY <1>1, ForestStays
<1>3. store' = store /\ disk' = disk  BY DEF files
<1>4. /\ (\A m \in Messages : SnapshotOK(store[m]) /\ SnapshotOK(disk[m]))'
      /\ (\A m \in Messages : WellFormed(store[m], m) /\ WellFormed(disk[m], m))'
    BY <1>1, <1>2, <1>3, FilesStayWhole
<1>5. FilesTyped'
    BY <1>3, <1>4 DEF Inv, Types, FilesTyped
<1>6. ASSUME NEW m \in Messages
      PROVE  (Live(m) \/ Pending(m))'
    <2>1. Live(m)  BY DEF Inv, FilesAreWhole, Pending, StateLockFree
    <2>2. CASE store[m] = NoTree  BY <1>3, <2>2 DEF Live, NoTree
    <2>3. CASE store[m] # NoTree
        <3>1. PICK r \in published : Identity(r) = m /\ DOMAIN store[m] = Members(r)
            BY <2>1, <2>3 DEF Live
        <3>2. CASE \E u \in removed : Root(u) = r
            BY <3>1, <3>2 DEF Identity
        <3>3. CASE ~ \E u \in removed : Root(u) = r
            <4>1. r \in graph /\ Root(r) = r
                BY <3>1 DEF Inv, SchedulingInv, TreesAreWhole
            <4>2. r \in published'  BY <1>1, <3>1, <3>3, <4>1
            <4>3. Members(r)' = Members(r)  BY <1>1, <1>2, <3>3 DEF Members
            <4>4. Identity(r)' = m  BY <1>1, <3>1 DEF Identity
            <4> QED  BY <1>3, <3>1, <4>2, <4>3, <4>4 DEF Live
        <3> QED  BY <3>2, <3>3
    <2> QED  BY <2>2, <2>3
<1>7. Distinct(graph \cup Stored(store))' /\ Distinct(Stored(disk))'
    BY <1>1, <1>3 DEF Inv, FilesAreWhole, Distinct, Stored
<1>8. \A m \in Messages : (Live(m) \/ Pending(m))'  BY <1>6
<1> QED  BY <1>4, <1>5, <1>7, <1>8 DEF FilesAreWhole

\* The command takes its snapshots.
LEMMA FilesCapture ==
    ASSUME Inv, Capture
    PROVE  Idle /\ FilesTyped' /\ FilesAreWhole'
<1>1. Idle /\ store' = store /\ disk' = disk  BY DEF Capture, Idle, files
<1>2. turn' = turn /\ graph' = graph /\ published' = published
    BY <1>1 DEF Idle, nodes, repository
<1>3. Admitted' = Admitted /\ \A u : Root(u)' = Root(u)  BY <1>2, ForestStays
<1>4. Forest' /\ NodesTyped' /\ SchedulingInv'  BY <1>1, IdleKeeps
<1>5. /\ (\A m \in Messages : SnapshotOK(store[m]) /\ SnapshotOK(disk[m]))'
      /\ (\A m \in Messages : WellFormed(store[m], m) /\ WellFormed(disk[m], m))'
    BY <1>1, <1>2, <1>3, FilesStayWhole
<1>6. /\ cmd.at = "draining" /\ cmd.chat = None
      /\ cmd'.at = "saving" /\ cmd'.forget = cmd.forget
      /\ DOMAIN cmd'.snapshots = cmd.saves \cap published
      /\ \A r \in cmd.saves \cap published : cmd'.snapshots[r] = Snapshot(r)
    BY DEF Capture
<1>7. ASSUME NEW r \in DOMAIN cmd'.snapshots
      PROVE  /\ r \in published' /\ DOMAIN cmd'.snapshots[r] = Members(r)'
             /\ SnapshotOK(cmd.snapshots[r])' /\ WellFormed(cmd.snapshots[r], Identity(r))'
    <2>1. PICK s : s = Snapshot(r)'  OBVIOUS
    <2>2. PICK k : k = turn'[r].msg  OBVIOUS
    <2>3. r \in published'  BY <1>2, <1>6
    <2>4. DOMAIN s = Members(r)' /\ SnapshotOK(s)' /\ WellFormed(s, k)'
        BY <1>4, <2>1, <2>2, <2>3, SnapshotIsWhole
    <2>5. s = cmd'.snapshots[r]
        <3>1. Snapshot(r)' = Snapshot(r)
            BY <1>1, <1>3 DEF Snapshot, Members, Idle, nodes
        <3> QED  BY <1>6, <2>1, <3>1
    <2>6. SnapshotOK(cmd.snapshots[r])'  BY <2>4, <2>5 DEF SnapshotOK
    <2>7. WellFormed(cmd.snapshots[r], Identity(r))'
        BY <2>2, <2>4, <2>5 DEF WellFormed, Identity
    <2> QED  BY <2>3, <2>4, <2>5, <2>6, <2>7
<1>8. FilesTyped'
    <2>1. (\A r \in DOMAIN cmd.snapshots : SnapshotOK(cmd.snapshots[r]))'  BY <1>7
    <2> QED  BY <1>1, <1>5, <2>1 DEF Inv, Types, FilesTyped
<1>9. ASSUME NEW m \in Messages
      PROVE  (Live(m) \/ Pending(m))'
    <2>1. CASE Live(m)
        BY <1>1, <1>2, <1>3, <2>1 DEF Live, Members, NoTree, Identity
    <2>2. CASE Pending(m)
        <3>1. m[1] # cmd.chat
            BY <1>6, NoneAssumption DEF Messages
        <3>2. m \in cmd.forget \/ \E r \in cmd.saves \cap published : Identity(r) = m
            BY <1>6, <2>2, <3>1 DEF Pending
        <3>3. \A r : Identity(r)' = Identity(r)  BY <1>2 DEF Identity
        <3> QED  BY <1>6, <3>2, <3>3 DEF Pending
    <2> QED  BY <2>1, <2>2 DEF Inv, FilesAreWhole
<1>10. Distinct(graph \cup Stored(store))' /\ Distinct(Stored(disk))'
    BY <1>1, <1>2 DEF Inv, FilesAreWhole, Distinct, Stored
<1>11. \A m \in Messages : (Live(m) \/ Pending(m))'  BY <1>9
<1>12. \A r \in DOMAIN cmd'.snapshots :
          /\ r \in published' /\ DOMAIN cmd'.snapshots[r] = Members(r)'
          /\ WellFormed(cmd.snapshots[r], Identity(r))'
    BY <1>7
<1> QED  BY <1>1, <1>5, <1>6, <1>8, <1>10, <1>11, <1>12 DEF FilesAreWhole

\* The command ends: store and file hold what they held, or a snapshot of the
\* command, or nothing.
LEMMA FilesAtTheEnd ==
    ASSUME Inv, UNCHANGED <<turn, graph, published>>, cmd'.at = "idle",
           DOMAIN store' = Messages, DOMAIN disk' = Messages,
           \A m \in Messages :
              \/ store'[m] = NoTree
              \/ store'[m] = store[m] /\ Live(m)
              \/ cmd.at = "saving" /\ \E r \in DOMAIN cmd.snapshots :
                    Identity(r) = m /\ store'[m] = cmd.snapshots[r],
           \A m \in Messages : disk'[m] \in {disk[m], store'[m]},
           disk' \in {disk, store'}
    PROVE  FilesTyped' /\ FilesAreWhole'
<1>1. Admitted' = Admitted /\ \A u : Root(u)' = Root(u)  BY ForestStays
<1>2. \A r : Members(r)' = Members(r) /\ Identity(r)' = Identity(r)
    BY <1>1 DEF Members, Identity
<1>3. ASSUME NEW m \in Messages, store'[m] # store[m]
      PROVE  \E s : s = store'[m] /\ SnapshotOK(s)' /\ WellFormed(s, m)'
    <2>1. CASE store'[m] = NoTree  BY <2>1, NoTreeIsGood
    <2>2. CASE cmd.at = "saving" /\ \E r \in DOMAIN cmd.snapshots :
                  Identity(r) = m /\ store'[m] = cmd.snapshots[r]
        <3>1. PICK r \in DOMAIN cmd.snapshots : Identity(r) = m /\ store'[m] = cmd.snapshots[r]
            BY <2>2
        <3>2. PICK s : s = cmd.snapshots[r]  OBVIOUS
        <3>3. SnapshotOK(s) /\ WellFormed(s, m)
            BY <2>2, <3>1, <3>2 DEF Inv, Types, FilesTyped, FilesAreWhole
        <3>4. SnapshotOK(s)' /\ WellFormed(s, m)'  BY <1>1, <3>3, SnapshotsStay
        <3> QED  BY <3>1, <3>2, <3>4
    <2> QED  BY <1>3, <2>1, <2>2
<1>4. /\ (\A m \in Messages : SnapshotOK(store[m]) /\ SnapshotOK(disk[m]))'
      /\ (\A m \in Messages : WellFormed(store[m], m) /\ WellFormed(disk[m], m))'
    BY <1>1, <1>3, FilesStayWhole
<1>5. FilesTyped'  BY <1>4 DEF FilesTyped
<1>6. ASSUME NEW m \in Messages
      PROVE  Live(m)' /\ DOMAIN store'[m] \subseteq graph \cup Stored(store)
    <2>1. CASE store'[m] = NoTree  BY <2>1 DEF Live, NoTree
    <2>2. CASE store'[m] = store[m] /\ Live(m)
        BY <1>2, <2>2 DEF Live, NoTree, Stored
    <2>3. CASE cmd.at = "saving" /\ \E r \in DOMAIN cmd.snapshots :
                  Identity(r) = m /\ store'[m] = cmd.snapshots[r]
        <3>1. PICK r \in DOMAIN cmd.snapshots : Identity(r) = m /\ store'[m] = cmd.snapshots[r]
            BY <2>3
        <3>2. r \in published /\ DOMAIN store'[m] = Members(r)
            BY <2>3, <3>1 DEF Inv, FilesAreWhole
        <3>3. r \in published' /\ Identity(r)' = m /\ DOMAIN store'[m] = Members(r)'
            BY <1>2, <3>1, <3>2
        <3> QED  BY <3>2, <3>3 DEF Live, Members
    <2> QED  BY <2>1, <2>2, <2>3
<1>7. Distinct(graph \cup Stored(store))'
    <2>1. Stored(store)' \subseteq graph \cup Stored(store)  BY <1>6 DEF Stored
    <2>2. Distinct(graph \cup Stored(store))  BY DEF Inv, FilesAreWhole
    <2> QED  BY <2>1, <2>2 DEF Distinct
<1>8. Distinct(Stored(disk))'
    <2>1. CASE disk' = disk  BY <2>1 DEF Inv, FilesAreWhole, Distinct, Stored
    <2>2. CASE disk' = store'  BY <1>7, <2>2 DEF Distinct, Stored
    <2> QED  BY <2>1, <2>2
<1>9. \A m \in Messages : (Live(m) \/ Pending(m))'  BY <1>6
<1> QED  BY <1>4, <1>5, <1>7, <1>8, <1>9 DEF FilesAreWhole

\* The snapshots are saved, what was removed is forgotten.
LEMMA FilesSaveSnapshots ==
    ASSUME Inv, SaveSnapshots
    PROVE  Idle /\ FilesTyped' /\ FilesAreWhole'
<1>1. /\ Idle /\ disk' = disk /\ cmd.at = "saving" /\ cmd' = [at |-> "idle"]
      /\ UNCHANGED <<turn, graph, published>>
    BY DEF SaveSnapshots, SaveAnd, Idle, nodes, repository
<1>2. ASSUME NEW m \in Messages
      PROVE  \/ store'[m] = NoTree
             \/ store'[m] = store[m] /\ Live(m)
             \/ cmd.at = "saving" /\ \E r \in DOMAIN cmd.snapshots :
                   Identity(r) = m /\ store'[m] = cmd.snapshots[r]
    <2> DEFINE trees == {r \in DOMAIN cmd.snapshots : Identity(r) = m}
    <2>1. CASE m \in cmd.forget  BY <2>1 DEF SaveSnapshots, SaveAnd
    <2>2. CASE m \notin cmd.forget /\ trees = {}
        <3>1. store'[m] = store[m]  BY <2>2 DEF SaveSnapshots, SaveAnd
        <3>2. ~Pending(m)  BY <1>1, <2>2 DEF Pending
        <3> QED  BY <3>1, <3>2 DEF Inv, FilesAreWhole
    <2>3. CASE m \notin cmd.forget /\ trees # {}
        <3>1. store'[m] = cmd.snapshots[CHOOSE r \in trees : TRUE]
            BY <2>3 DEF SaveSnapshots, SaveAnd
        <3>2. (CHOOSE r \in trees : TRUE) \in trees  BY <2>3
        <3> QED  BY <1>1, <3>1, <3>2
    <2> QED  BY <2>1, <2>2, <2>3
<1>3. DOMAIN store' = Messages  BY DEF SaveSnapshots, SaveAnd
<1>4. DOMAIN disk' = Messages /\ disk' \in {disk, store'}
    BY <1>1 DEF Inv, Types, FilesTyped
<1>5. \A m \in Messages : disk'[m] \in {disk[m], store'[m]}  BY <1>4
<1> QED  BY <1>1, <1>2, <1>3, <1>4, <1>5, FilesAtTheEnd

\* The store of a chat is wiped.
LEMMA FilesClearStore ==
    ASSUME Inv, NEW written \in BOOLEAN, ClearStore(written)
    PROVE  Idle /\ FilesTyped' /\ FilesAreWhole'
<1>1. /\ Idle /\ cmd.at = "draining" /\ cmd.chat # None /\ cmd' = [at |-> "idle"]
      /\ UNCHANGED <<turn, graph, published>>
    BY DEF ClearStore, Idle, nodes, repository
<1>2. ASSUME NEW m \in Messages
      PROVE  store'[m] = NoTree \/ (store'[m] = store[m] /\ Live(m))
    <2>1. CASE m[1] = cmd.chat  BY <2>1 DEF ClearStore
    <2>2. CASE m[1] # cmd.chat
        <3>1. store'[m] = store[m]  BY <2>2 DEF ClearStore
        <3>2. cmd.saves = {} /\ cmd.forget = {}  BY <1>1 DEF Inv, FilesAreWhole
        <3>3. ~Pending(m)  BY <1>1, <2>2, <3>2 DEF Pending
        <3> QED  BY <3>1, <3>3 DEF Inv, FilesAreWhole
    <2> QED  BY <2>1, <2>2
<1>3. DOMAIN store' = Messages /\ disk' \in {disk, store'}  BY DEF ClearStore
<1>4. DOMAIN disk' = Messages  BY <1>3 DEF Inv, Types, FilesTyped
<1>5. \A m \in Messages : disk'[m] \in {disk[m], store'[m]}  BY <1>3
<1> QED  BY <1>1, <1>2, <1>3, <1>4, <1>5, FilesAtTheEnd

\* The store is written to the file.
LEMMA FilesWrite ==
    ASSUME Inv, Write
    PROVE  Idle /\ FilesTyped' /\ FilesAreWhole'
<1>1. Idle /\ UNCHANGED <<turn, graph, published, store, cmd>> /\ disk' = store
    BY DEF Write, Idle, nodes, repository
<1> QED  BY <1>1, FilesStay

-----------------------------------------------------------------------------
(* A restart begins again from the file. *)

\* The nodes that a restart restores, and what was saved of each.
Kept == {t \in Admitted : t \in DOMAIN disk[Identity(Root(t))]}
Saved(t) == disk[Identity(Root(t))][t]

\* The nodes of the file are those restored, in whole trees.
LEMMA KeptFacts ==
    ASSUME Inv
    PROVE  /\ \A m \in Messages : \A t \in DOMAIN disk[m] :
                 t \in Kept /\ Identity(Root(t)) = m
           /\ Kept = Stored(disk)
           /\ \A t \in Kept :
                 /\ t \in Admitted /\ Identity(Root(t)) \in Messages
                 /\ t \in DOMAIN disk[Identity(Root(t))] /\ Saved(t) \in Node
                 /\ Root(t) \in Kept /\ Root(Root(t)) = Root(t)
                 /\ turn[t].parent = 0 \/ (/\ turn[t].parent \in Kept
                                           /\ turn[t].via = "status" => Saved(turn[t].parent).status)
                 /\ ~Saved(t).status => ~Saved(t).session /\ Saved(t).state = "error"
<1>1. \A m \in Messages : SnapshotOK(disk[m]) /\ WellFormed(disk[m], m)
    BY DEF Inv, Types, FilesTyped, FilesAreWhole
<1>2. ASSUME NEW m \in Messages, NEW t \in DOMAIN disk[m]
      PROVE  t \in Kept /\ Identity(Root(t)) = m
    <2>1. t \in Admitted /\ Identity(Root(t)) = m  BY <1>1 DEF SnapshotOK, WellFormed
    <2> QED  BY <2>1 DEF Kept
<1>3. ASSUME NEW t \in Kept
      PROVE  /\ t \in Admitted /\ Identity(Root(t)) \in Messages
             /\ t \in DOMAIN disk[Identity(Root(t))] /\ Saved(t) \in Node
             /\ Root(t) \in Kept /\ Root(Root(t)) = Root(t)
             /\ turn[t].parent = 0 \/ (/\ turn[t].parent \in Kept
                                       /\ turn[t].via = "status" => Saved(turn[t].parent).status)
             /\ ~Saved(t).status => ~Saved(t).session /\ Saved(t).state = "error"
    <2>1. t \in Admitted /\ t \in DOMAIN disk[Identity(Root(t))]  BY DEF Kept
    <2>2. Root(t) \in Admitted /\ Root(Root(t)) = Root(t)
        BY <2>1, AdmittedFacts DEF Inv, Types, Forest
    <2>3. Identity(Root(t)) \in Messages
        BY <2>2, AdmittedFacts DEF Inv, Types, Identity
    <2>4. PICK s : s = disk[Identity(Root(t))]  OBVIOUS
    <2>5. SnapshotOK(s) /\ WellFormed(s, Identity(Root(t))) /\ t \in DOMAIN s /\ Saved(t) = s[t]
        BY <1>1, <2>1, <2>3, <2>4 DEF Saved
    <2>6. Saved(t) \in Node  BY <2>5 DEF SnapshotOK
    <2>7. Root(t) \in Kept
        <3>1. Root(t) \in DOMAIN s  BY <2>5 DEF WellFormed
        <3> QED  BY <1>2, <2>3, <2>4, <3>1
    <2>8. ASSUME turn[t].parent # 0
          PROVE  turn[t].parent \in Kept /\ (turn[t].via = "status" => Saved(turn[t].parent).status)
        <3>1. turn[t].parent \in DOMAIN s /\ (turn[t].via = "status" => s[turn[t].parent].status)
            BY <2>5, <2>8 DEF WellFormed
        <3>2. turn[t].parent \in Kept  BY <1>2, <2>3, <2>4, <3>1
        <3>3. Root(turn[t].parent) = Root(t)  BY <2>1, <2>8 DEF Inv, Types, Forest
        <3>4. Saved(turn[t].parent) = s[turn[t].parent]  BY <2>4, <3>3 DEF Saved
        <3> QED  BY <3>1, <3>2, <3>4
    <2>9. ~Saved(t).status => ~Saved(t).session /\ Saved(t).state = "error"
        BY <2>5 DEF WellFormed
    <2> QED  BY <2>1, <2>2, <2>3, <2>6, <2>7, <2>8, <2>9
<1>4. Kept = Stored(disk)
    <2>1. Kept \subseteq Stored(disk)  BY <1>3 DEF Stored
    <2>2. Stored(disk) \subseteq Kept  BY <1>2 DEF Stored
    <2> QED  BY <2>1, <2>2
<1> QED  BY <1>2, <1>3, <1>4

\* What a restart leaves.
LEMMA RestartFacts ==
    ASSUME Inv, Restart
    PROVE  /\ turn' = turn /\ disk' = disk /\ graph' = Kept
           /\ status' = {t \in Kept : Saved(t).status}
           /\ session' = {t \in Kept : Saved(t).session}
           /\ state' \in [Turns -> States \cup {"none"}]
           /\ \A t \in Turns : /\ t \notin Kept => state'[t] = "none"
                               /\ t \in Kept => state'[t] \in {"completed", "error"}
                               /\ t \in Kept /\ Saved(t).state = "error" => state'[t] = "error"
           /\ published' = {t \in Kept : Root(t) = t}
           /\ index' = (Kept \X {"prompt"}) \cup (status' \X {"status"})
           /\ store' = [m \in Messages |->
                 [t \in DOMAIN disk[m] |-> [disk[m][t] EXCEPT !.state = state'[t]]]]
           /\ stopped' = {} /\ queue' = [r \in Turns |-> <<>>] /\ active' = [r \in Turns |-> 0]
           /\ task' = [t \in Turns |-> "none"] /\ cmd' = [at |-> "idle"]
           /\ inbox' = [m \in Messages |-> [at |-> "idle"]]
<1>1. /\ turn' = turn /\ disk' = disk /\ graph' = Kept
      /\ status' = {t \in Kept : Saved(t).status}
      /\ session' = {t \in Kept : Saved(t).session}
      /\ published' = {t \in Kept : Root(t) = t}
      /\ index' = (Kept \X {"prompt"}) \cup (status' \X {"status"})
      /\ store' = [m \in Messages |->
            [t \in DOMAIN disk[m] |-> [disk[m][t] EXCEPT !.state = state'[t]]]]
      /\ stopped' = {} /\ queue' = [r \in Turns |-> <<>>] /\ active' = [r \in Turns |-> 0]
      /\ task' = [t \in Turns |-> "none"] /\ cmd' = [at |-> "idle"]
      /\ inbox' = [m \in Messages |-> [at |-> "idle"]]
    BY DEF Restart, Kept, Saved
<1>2. state' = [t \in Turns |->
          IF t \notin Kept THEN "none"
          ELSE IF Saved(t).state \in Runnable THEN "error" ELSE Saved(t).state]
    BY DEF Restart, Kept, Saved
<1>3. \A t \in Kept : Saved(t).state \in States
    BY KeptFacts DEF Node
<1>4. \A t \in Turns : /\ t \notin Kept => state'[t] = "none"
                       /\ t \in Kept => state'[t] \in {"completed", "error"}
                       /\ t \in Kept /\ Saved(t).state = "error" => state'[t] = "error"
    BY <1>2, <1>3 DEF States, Runnable
<1>5. state' \in [Turns -> States \cup {"none"}]  BY <1>2, <1>3 DEF States
<1> QED  BY <1>1, <1>4, <1>5

\* After a restart nothing runs and nothing waits.
LEMMA RestartIsSafe ==
    ASSUME Inv, Restart
    PROVE  Forest' /\ NodesTyped' /\ SchedulingTyped' /\ SchedulingInv'
<1>1. /\ turn' = turn /\ graph' = Kept
      /\ status' = {t \in Kept : Saved(t).status}
      /\ session' = {t \in Kept : Saved(t).session}
      /\ state' \in [Turns -> States \cup {"none"}]
      /\ \A t \in Turns : /\ t \notin Kept => state'[t] = "none"
                          /\ t \in Kept => state'[t] \in {"completed", "error"}
                          /\ t \in Kept /\ Saved(t).state = "error" => state'[t] = "error"
      /\ published' = {t \in Kept : Root(t) = t}
      /\ index' = (Kept \X {"prompt"}) \cup (status' \X {"status"})
      /\ stopped' = {} /\ queue' = [r \in Turns |-> <<>>] /\ active' = [r \in Turns |-> 0]
      /\ task' = [t \in Turns |-> "none"]
    BY RestartFacts
<1>2. \A t \in Kept :
         /\ t \in Admitted /\ Root(t) \in Kept /\ Root(Root(t)) = Root(t)
         /\ turn[t].parent = 0 \/ (/\ turn[t].parent \in Kept
                                   /\ turn[t].via = "status" => Saved(turn[t].parent).status)
         /\ ~Saved(t).status => ~Saved(t).session /\ Saved(t).state = "error"
    BY KeptFacts
<1>3. /\ Forest' /\ Admitted' = Admitted /\ \A u : Root(u)' = Root(u)
    BY <1>1, ForestStays
<1>4. Admitted \subseteq Turns /\ \A t \in Admitted : t # 0 /\ Root(t) \in Turns
    BY AdmittedFacts DEF Inv, Types, Turns
<1>5. Kept \subseteq Admitted /\ Kept \subseteq Turns  BY <1>2, <1>4
<1>6. NodesTyped'
    <2>1. graph' \subseteq Admitted' /\ status' \subseteq graph' /\ session' \subseteq graph'
        BY <1>1, <1>3, <1>5
    <2>2. \A t \in Turns : t \in graph' <=> state'[t] # "none"
        BY <1>1
    <2>3. published' \subseteq Admitted'  BY <1>1, <1>3, <1>5
    <2>4. index' = (graph' \X {"prompt"}) \cup (status' \X {"status"})  BY <1>1
    <2> QED  BY <1>1, <2>1, <2>2, <2>3, <2>4 DEF NodesTyped
<1>7. SchedulingTyped'
    <2>1. <<>> \in Seq(Admitted')  OBVIOUS
    <2> QED  BY <1>1, <2>1 DEF SchedulingTyped
<1>8. TreesAreWhole'
    <2>1. \A t \in graph' : Root(t)' \in published'  BY <1>1, <1>2, <1>3
    <2>2. \A r \in published' : r \in graph' /\ Root(r)' = r  BY <1>1, <1>3
    <2>3. \A t \in graph' : \/ turn'[t].parent = 0
                            \/ /\ turn'[t].parent \in graph'
                               /\ turn'[t].via = "status" => turn'[t].parent \in status'
        BY <1>1, <1>2
    <2> QED  BY <2>1, <2>2, <2>3 DEF TreesAreWhole
<1>9. ClaimsAreHome'
    <2>1. \A t \in Admitted' : task'[t] = "none" /\ active'[Root(t)'] # t
        BY <1>1, <1>3, <1>4
    <2>2. ClaimsHaveTasks'  BY <2>1 DEF ClaimsHaveTasks
    <2> QED  BY <1>1, <2>2 DEF ClaimsAreHome
<1>10. QueuesAreOrdered'
    BY <1>1 DEF QueuesAreOrdered, Increasing
<1>11. LeftSettled'  BY <1>1 DEF LeftSettled
<1>12. QueueIsServed'
    <2>1. ASSUME NEW r \in Turns
          PROVE  /\ Range(queue'[r]) = {t \in Members(r)' : state'[t] = "pending"}
                 /\ queue'[r] = <<>>
                 /\ \A t \in Members(r)' : state'[t] # "in_progress"
        <3>1. queue'[r] = <<>>  BY <1>1
        <3>2. Range(queue'[r]) = {}  BY <3>1 DEF Range
        <3>3. \A t \in Members(r)' : state'[t] \in {"completed", "error"}
            BY <1>1, <1>5 DEF Members
        <3> QED  BY <3>1, <3>2, <3>3
    <2>2. NoneStranded'  BY <2>1 DEF NoneStranded
    <2>3. ParentSettlesFirst'  BY <1>1, <1>5 DEF ParentSettlesFirst
    <2> QED  BY <2>2, <2>3 DEF QueueIsServed
<1>13. ClearedIsGone'
    <2>1. ClearedStatusIsInert'  BY <1>1, <1>2, <1>5 DEF ClearedStatusIsInert
    <2>2. DetachedIsStopped'  BY <1>1, <1>3, <1>4 DEF DetachedIsStopped
    <2> QED  BY <2>1, <2>2 DEF ClearedIsGone
<1> QED  BY <1>3, <1>6, <1>7, <1>8, <1>9, <1>10, <1>11, <1>12, <1>13 DEF SchedulingInv

\* After a restart the store holds the file, with what was interrupted failed.
LEMMA FilesRestart ==
    ASSUME Inv, Restart
    PROVE  FilesTyped' /\ FilesAreWhole'
<1>1. /\ turn' = turn /\ disk' = disk /\ graph' = Kept
      /\ \A t \in Turns : /\ t \in Kept => state'[t] \in {"completed", "error"}
                          /\ t \in Kept /\ Saved(t).state = "error" => state'[t] = "error"
      /\ published' = {t \in Kept : Root(t) = t}
      /\ store' = [m \in Messages |->
            [t \in DOMAIN disk[m] |-> [disk[m][t] EXCEPT !.state = state'[t]]]]
      /\ cmd'.at = "idle"
    BY RestartFacts
<1>2. Admitted' = Admitted /\ \A u : Root(u)' = Root(u)  BY <1>1, ForestStays
<1>3. \A m \in Messages : \A t \in DOMAIN disk[m] : t \in Kept /\ Identity(Root(t)) = m
    BY KeptFacts
<1>4. Kept \subseteq Turns  BY AdmittedFacts, KeptFacts DEF Inv, Types
<1>5. ASSUME NEW m \in Messages
      PROVE  /\ DOMAIN store'[m] = DOMAIN disk[m]
             /\ \E s : s = store'[m] /\ SnapshotOK(s)' /\ WellFormed(s, m)'
    <2>1. PICK d : d = disk[m]  OBVIOUS
    <2>2. PICK s : s = store'[m]  OBVIOUS
    <2>3. SnapshotOK(d) /\ WellFormed(d, m)
        BY <2>1 DEF Inv, Types, FilesTyped, FilesAreWhole
    <2>4. SnapshotOK(d)' /\ WellFormed(d, m)'  BY <1>1, <1>2, <2>3, SnapshotsStay
    <2>5. s = [t \in DOMAIN d |-> [d[t] EXCEPT !.state = state'[t]]]  BY <1>1, <2>1, <2>2
    <2>6. DOMAIN s = DOMAIN d  BY <2>5
    <2>7. ASSUME NEW t \in DOMAIN d
          PROVE  /\ s[t] \in Node /\ s[t].status = d[t].status /\ s[t].session = d[t].session
                 /\ d[t].state = "error" => s[t].state = "error"
        <3>1. s[t] = [d[t] EXCEPT !.state = state'[t]] /\ d[t] \in Node
            BY <2>3, <2>5 DEF SnapshotOK
        <3>2. t \in Kept /\ Identity(Root(t)) = m /\ t \in Turns  BY <1>3, <1>4, <2>1
        <3>3. Saved(t) = d[t]  BY <2>1, <3>2 DEF Saved
        <3>4. state'[t] \in States /\ (d[t].state = "error" => state'[t] = "error")
            BY <1>1, <3>2, <3>3 DEF States
        <3> QED  BY <3>1, <3>4 DEF Node
    <2>8. SnapshotOK(s)'
        <3>1. s \in [DOMAIN s -> Node]
            <4>1. s = [t \in DOMAIN s |-> s[t]]  BY <2>5, <2>6
            <4> QED  BY <2>6, <2>7, <4>1
        <3> QED  BY <2>4, <2>6, <3>1 DEF SnapshotOK
    <2>9. WellFormed(s, m)'
        <3>1. ASSUME NEW t \in DOMAIN s
              PROVE  /\ turn'[t].root \in DOMAIN s /\ turn'[turn'[t].root].msg = m
                     /\ \/ turn'[t].parent = 0
                        \/ /\ turn'[t].parent \in DOMAIN s
                           /\ turn'[t].via = "status" => s[turn'[t].parent].status
                     /\ ~s[t].status => ~s[t].session /\ s[t].state = "error"
            <4>1. t \in DOMAIN d  BY <2>6
            <4>2. /\ turn'[t].root \in DOMAIN d /\ turn'[turn'[t].root].msg = m
                  /\ \/ turn'[t].parent = 0
                     \/ /\ turn'[t].parent \in DOMAIN d
                        /\ turn'[t].via = "status" => d[turn'[t].parent].status
                  /\ ~d[t].status => ~d[t].session /\ d[t].state = "error"
                BY <2>4, <4>1 DEF WellFormed, Root, Identity
            <4>3. turn'[t].parent \in DOMAIN d =>
                      s[turn'[t].parent].status = d[turn'[t].parent].status
                BY <2>7
            <4> QED  BY <2>6, <2>7, <4>1, <4>2, <4>3
        <3>2. \A t, u \in DOMAIN s : turn'[t].root = turn'[u].root
            BY <2>4, <2>6 DEF WellFormed, Root
        <3> QED  BY <3>1, <3>2 DEF WellFormed, Root, Identity
    <2> QED  BY <2>1, <2>2, <2>6, <2>8, <2>9
<1>6. /\ (\A m \in Messages : SnapshotOK(store[m]) /\ SnapshotOK(disk[m]))'
      /\ (\A m \in Messages : WellFormed(store[m], m) /\ WellFormed(disk[m], m))'
    <2>1. \A m \in Messages : disk'[m] \in {disk[m], store'[m]}  BY <1>1
    <2>2. Admitted \subseteq Admitted' /\ \A u \in Admitted : turn'[u] = turn[u]
        BY <1>1, <1>2
    <2>3. \A m \in Messages :
             store'[m] = store[m] \/ \E s : s = store'[m] /\ SnapshotOK(s)' /\ WellFormed(s, m)'
        BY <1>5
    <2> QED  BY <2>1, <2>2, <2>3, FilesStayWhole
<1>7. FilesTyped'
    <2>1. DOMAIN store' = Messages /\ DOMAIN disk' = Messages
        BY <1>1 DEF Inv, Types, FilesTyped
    <2> QED  BY <1>1, <1>6, <2>1 DEF FilesTyped
<1>8. ASSUME NEW m \in Messages
      PROVE  Live(m)'
    <2>1. CASE DOMAIN disk[m] = {}
        <3>1. store'[m] = NoTree  BY <1>1, <2>1 DEF NoTree
        <3> QED  BY <3>1 DEF Live, NoTree
    <2>2. CASE DOMAIN disk[m] # {}
        <3>1. PICK t \in DOMAIN disk[m] : TRUE  BY <2>2
        <3>2. PICK r : r = Root(t)  OBVIOUS
        <3>3. t \in Kept /\ Identity(r) = m  BY <1>3, <3>1, <3>2
        <3>4. r \in published'  BY <1>1, <3>2, <3>3, KeptFacts
        <3>5. Members(r)' = DOMAIN disk[m]
            <4>1. Members(r)' = {u \in Kept : Root(u) = r}  BY <1>1, <1>2 DEF Members
            <4>2. \A u \in DOMAIN disk[m] : u \in Kept /\ Root(u) = r
                <5>1. WellFormed(disk[m], m)  BY DEF Inv, FilesAreWhole
                <5> QED  BY <1>3, <3>1, <3>2, <5>1 DEF WellFormed
            <4>3. \A u \in Kept : Root(u) = r => u \in DOMAIN disk[m]
                BY <3>3, KeptFacts
            <4> QED  BY <4>1, <4>2, <4>3
        <3>6. Identity(r)' = m  BY <1>1, <3>3 DEF Identity
        <3> QED  BY <1>5, <3>4, <3>5, <3>6 DEF Live
    <2> QED  BY <2>1, <2>2
<1>9. Distinct(Stored(disk))'
    BY <1>1 DEF Inv, FilesAreWhole, Distinct, Stored
<1>10. Distinct(graph \cup Stored(store))'
    <2>1. Stored(store)' = Stored(disk)  BY <1>5 DEF Stored
    <2>2. graph' = Stored(disk)  BY <1>1, KeptFacts
    <2>3. Distinct(Stored(disk))  BY DEF Inv, FilesAreWhole
    <2> QED  BY <1>1, <2>1, <2>2, <2>3 DEF Distinct
<1>11. \A m \in Messages : (Live(m) \/ Pending(m))'  BY <1>8
<1> QED  BY <1>1, <1>6, <1>7, <1>9, <1>10, <1>11 DEF FilesAreWhole

-----------------------------------------------------------------------------
(* The invariant is inductive. *)

\* The task of a claim leaves intake, commands and the file alone.
LEMMA RunnerLeaves ==
    ASSUME NEW t, Runner(t)
    PROVE  UNCHANGED <<inbox, cmd, disk, bounds>>
<1>1. CASE Start(t)  BY <1>1 DEF Start, files
<1>2. CASE RecordSession(t)  BY <1>2 DEF RecordSession
<1>3. CASE \E known \in BOOLEAN : Complete(t, known)  BY <1>3 DEF Complete
<1>4. CASE ReportError(t) \/ ExitWithError(t)
    BY <1>4 DEF ReportError, ExitWithError, runnerKeeps
<1>5. CASE Ends(t)  BY <1>5 DEF Ends, EndStream, BreakOff, GiveUp, runnerKeeps
<1>6. CASE Finish(t)  BY <1>6 DEF Finish, files
<1> QED  BY <1>1, <1>2, <1>3, <1>4, <1>5, <1>6 DEF Runner

\* Messages on their way, the command and the bounds keep their types.
LEMMA IntakeStaysTyped ==
    ASSUME Inv, Next
    PROVE  IntakeTyped'
<1> DEFINE Box == {[at |-> "idle"]} \cup
                  [at : {"sending"}, current : BOOLEAN, ref : References \cup {None}]
<1>1. /\ inbox \in [Messages -> Box]
      /\ cmd.at \in {"idle", "draining", "saving"}
      /\ commands \in 0 .. MaxCommands /\ restarts \in 0 .. MaxRestarts
      /\ MaxCommands \in Nat /\ MaxRestarts \in Nat
    BY BoundsAssumption DEF Inv, Types, IntakeTyped
<1>2. [at |-> "idle"] \in Box  OBVIOUS
<1>3. \A ref \in References \cup {None} : [at |-> "sending", current |-> TRUE, ref |-> ref] \in Box
    OBVIOUS
<1>4. \A box \in Box : box.at = "sending" => [box EXCEPT !.current = FALSE] \in Box
    OBVIOUS
<1> HIDE DEF Box
<1>5. index \subseteq References
    BY IndexFacts
<1>6. inbox' \in [Messages -> Box]
    <2>1. CASE \E m \in Messages : Intake(m)
        <3>1. PICK m \in Messages : Intake(m)  BY <2>1
        <3>2. CASE \E ref \in References \cup {None} : Receive(m, ref)
            BY <1>1, <1>3, <3>2 DEF Receive
        <3>3. CASE Discard(m) \/ Redelivered(m) \/ Admit(m)
            <4>1. Leave(m)  BY <3>3 DEF Discard, Redelivered, Admit
            <4> QED  BY <1>1, <1>2, <4>1 DEF Leave
        <3> QED  BY <3>1, <3>2, <3>3 DEF Intake
    <2>2. CASE \E t \in Turns : Runner(t)
        BY <1>1, <2>2, RunnerLeaves
    <2>3. CASE Command
        <3>1. UNCHANGED inbox \/ \E chats : Invalidate(chats)
            BY <2>3 DEF Command, StopReply, ClearReply, StopAll, ClearChat
        <3>2. ASSUME NEW chats, Invalidate(chats)
              PROVE  inbox' \in [Messages -> Box]
            <4>1. \A m \in Messages :
                      (IF m \in Sending /\ m[1] \in chats
                       THEN [inbox[m] EXCEPT !.current = FALSE] ELSE inbox[m]) \in Box
                BY <1>1, <1>4 DEF Sending
            <4> QED  BY <3>2, <4>1 DEF Invalidate
        <3> QED  BY <1>1, <3>1, <3>2
    <2>4. CASE CommandGoesOn \/ Write
        BY <1>1, <2>4 DEF CommandGoesOn, Capture, SaveSnapshots, SaveAnd, ClearStore, Write
    <2>5. CASE Restart  BY <1>2, <2>5 DEF Restart
    <2> QED  BY <2>1, <2>2, <2>3, <2>4, <2>5 DEF Next
<1>7. cmd'.at \in {"idle", "draining", "saving"}
    <2>1. CASE \E m \in Messages : Intake(m)
        BY ZenonT(60), <1>1, <2>1 DEF Intake, Receive, Discard, Redelivered, Admit, Enter
    <2>2. CASE \E t \in Turns : Runner(t)
        BY <1>1, <2>2, RunnerLeaves
    <2>3. CASE Command
        <3>1. UNCHANGED cmd \/ \E saves, forget, chat : Drain(saves, forget, chat)
            <4>1. CASE \E ref \in References : StopReply(ref)
                BY <4>1 DEF StopReply
            <4>2. CASE \E ref \in References : ClearReply(ref)
                BY <4>2 DEF ClearReply
            <4>3. CASE StopAll  BY <4>3 DEF StopAll
            <4>4. CASE \E c \in Chats : ClearChat(c)  BY <4>4 DEF ClearChat
            <4> QED  BY <2>3, <4>1, <4>2, <4>3, <4>4 DEF Command
        <3> QED  BY <1>1, <3>1 DEF Drain
    <2>4. CASE CommandGoesOn \/ Write
        BY <1>1, <2>4 DEF CommandGoesOn, Capture, SaveSnapshots, SaveAnd, ClearStore, Write
    <2>5. CASE Restart  BY <2>5 DEF Restart
    <2> QED  BY <2>1, <2>2, <2>3, <2>4, <2>5 DEF Next
<1>8. commands' \in 0 .. MaxCommands /\ restarts' \in 0 .. MaxRestarts
    <2>1. CASE \E m \in Messages : Intake(m)
        BY ZenonT(60), <1>1, <2>1 DEF Intake, Receive, Discard, Redelivered, Admit, Enter, bounds
    <2>2. CASE \E t \in Turns : Runner(t)
        BY <1>1, <2>2, RunnerLeaves DEF bounds
    <2>3. CASE Command
        <3>1. CASE \E ref \in References : StopReply(ref)  BY <1>1, <3>1 DEF StopReply, Issue
        <3>2. CASE \E ref \in References : ClearReply(ref)
            <4>1. Issue /\ restarts' = restarts  BY <3>2 DEF ClearReply
            <4> QED  BY <1>1, <4>1 DEF Issue
        <3>3. CASE StopAll  BY <1>1, <3>3 DEF StopAll, Issue
        <3>4. CASE \E c \in Chats : ClearChat(c)  BY <1>1, <3>4 DEF ClearChat, Issue
        <3> QED  BY <2>3, <3>1, <3>2, <3>3, <3>4 DEF Command
    <2>4. CASE CommandGoesOn \/ Write
        BY <1>1, <2>4 DEF CommandGoesOn, Capture, SaveSnapshots, SaveAnd, ClearStore, Write, bounds
    <2>5. CASE Restart  BY <1>1, <2>5 DEF Restart
    <2> QED  BY <2>1, <2>2, <2>3, <2>4, <2>5 DEF Next
<1> QED  BY <1>6, <1>7, <1>8 DEF IntakeTyped, Box

\* All of the invariant but the types of intake.
Maintained ==
    /\ Forest' /\ NodesTyped' /\ SchedulingTyped' /\ SchedulingInv'
    /\ FilesTyped' /\ FilesAreWhole'

\* A step of intake maintains the invariant of the trees and the files.
LEMMA IntakeKeeps ==
    ASSUME Inv, NEW m \in Messages, Intake(m)
    PROVE  Maintained
<1>1. CASE \E ref \in References \cup {None} : Receive(m, ref)
    <2>1. Idle /\ UNCHANGED <<turn, graph, published, store, cmd>> /\ disk' \in {disk, store}
        BY <1>1 DEF Receive, Idle, nodes, repository, files
    <2> QED  BY <2>1, IdleKeeps, FilesStay DEF Maintained
<1>2. CASE Discard(m)
    <2>1. Idle /\ UNCHANGED <<turn, graph, published, store, cmd>> /\ disk' \in {disk, store}
        BY <1>2 DEF Discard, Idle, nodes, repository, files
    <2> QED  BY <2>1, IdleKeeps, FilesStay DEF Maintained
<1>3. CASE Redelivered(m)
    <2>1. Idle /\ UNCHANGED store  BY <1>3, RedeliveredIsIdle
    <2>2. UNCHANGED <<turn, graph, published, cmd>> /\ disk' \in {disk, store}
        BY <1>3 DEF Redelivered, nodes, repository
    <2> QED  BY <2>1, <2>2, IdleKeeps, FilesStay DEF Maintained
<1>4. CASE Admit(m)
    <2>1. PICK t, r, parent, via : Entering(t, m, r, parent, via) /\ Save(r)
        BY <1>4, AdmitEnters
    <2>2. StateLockFree /\ UNCHANGED <<disk, cmd>>  BY <1>4 DEF Admit, Enter
    <2>3. Forest' /\ NodesTyped' /\ SchedulingTyped'  BY <2>1, TypesEntering
    <2>4. SchedulingInv'  BY <2>1, SchedulingEntering
    <2>5. FilesTyped' /\ FilesAreWhole'  BY <2>1, <2>2, <2>4, FilesEntering
    <2> QED  BY <2>3, <2>4, <2>5 DEF Maintained
<1> QED  BY <1>1, <1>2, <1>3, <1>4 DEF Intake

\* The effect of a step of the task of t.
LEMMA RunnerEffect ==
    ASSUME Inv, NEW t \in Turns, Runner(t)
    PROVE  /\ \/ MovingOn(t) \/ Recording(t) \/ Completing(t)
              \/ \E failed : Failing(t, failed)
              \/ Finishing(t)
           /\ UNCHANGED store \/ (Root(t) \in published /\ Save(Root(t)))
<1>1. CASE Start(t) \/ EndStream(t)  BY <1>1, StartMovesOn
<1>2. CASE RecordSession(t)  BY <1>2, RecordSessionRecords
<1>3. CASE \E known \in BOOLEAN : Complete(t, known)  BY <1>3, CompleteCompletes
<1>4. CASE ReportError(t) \/ ExitWithError(t) \/ BreakOff(t) \/ GiveUp(t)
    BY <1>4, RunnerFails
<1>5. CASE Finish(t)
    <2>1. UNCHANGED store  BY <1>5 DEF Finish, files
    <2> QED  BY <1>5, <2>1, FinishFinishes
<1> QED  BY <1>1, <1>2, <1>3, <1>4, <1>5 DEF Runner, Ends

\* So does a step of the task of a claim.
LEMMA RunnerKeeps ==
    ASSUME Inv, NEW t \in Turns, Runner(t)
    PROVE  Maintained
<1>1. /\ \/ MovingOn(t) \/ Recording(t) \/ Completing(t)
         \/ \E failed : Failing(t, failed)
         \/ Finishing(t)
      /\ UNCHANGED store \/ (Root(t) \in published /\ Save(Root(t)))
    BY RunnerEffect
<1>2. Forest' /\ NodesTyped' /\ SchedulingTyped'  BY <1>1, TypesOfRunner
<1>3. SchedulingInv'
    BY <1>1, SchedulingMovingOn, SchedulingRecording, SchedulingCompleting,
       SchedulingFailing, SchedulingFinishing
<1>4. UNCHANGED <<turn, graph, published>>
    BY <1>1 DEF MovingOn, Recording, Completing, Failing, Finishing, nodes, repository
<1>5. UNCHANGED <<disk, cmd>>  BY RunnerLeaves
<1>6. FilesTyped' /\ FilesAreWhole'  BY <1>1, <1>2, <1>3, <1>4, <1>5, FilesOfRunner
<1> QED  BY <1>2, <1>3, <1>6 DEF Maintained

\* A command that cancels nodes of whole subtrees.
LEMMA CancellingKeeps ==
    ASSUME Inv, NEW gone, NEW removed, NEW cleared, Cancelling(gone, removed, cleared),
           FilesTyped' /\ FilesAreWhole'
    PROVE  Maintained
BY TypesCancelling, SchedulingCancelling DEF Maintained

\* A command that only cancels.
LEMMA StoppingKeeps ==
    ASSUME Inv, StateLockFree, UNCHANGED files, NEW gone, Cancelling(gone, {}, {}),
           UNCHANGED cmd \/ (cmd'.at = "draining" /\ cmd'.chat = None)
    PROVE  Maintained
<1>1. CASE UNCHANGED cmd
    <2>1. UNCHANGED <<turn, graph, published, store, cmd>> /\ disk' \in {disk, store}
        BY <1>1 DEF Cancelling, RemoveNodes, files
    <2>2. FilesTyped' /\ FilesAreWhole'  BY <2>1, FilesStay
    <2> QED  BY <2>2, CancellingKeeps
<1>2. CASE cmd'.at = "draining" /\ cmd'.chat = None
    <2>1. \A u \in {} : \A m \in Messages : turn[Root(u)].msg = m => Pending(m)'
        OBVIOUS
    <2>2. FilesTyped' /\ FilesAreWhole'  BY <1>2, <2>1, FilesCancelling
    <2> QED  BY <2>2, CancellingKeeps
<1> QED  BY <1>1, <1>2

\* So does the step in which a command cancels.
LEMMA CommandKeeps ==
    ASSUME Inv, Command
    PROVE  Maintained
<1>1. ASSUME NEW ref \in References, StopReply(ref)
      PROVE  Maintained
    <2>1. StateLockFree /\ UNCHANGED files /\ UNCHANGED nodes /\ UNCHANGED repository
        BY <1>1 DEF StopReply
    <2>2. CASE Idle /\ UNCHANGED cmd
        <3>1. UNCHANGED <<turn, graph, published, store, cmd>> /\ disk' \in {disk, store}
            BY <2>1, <2>2 DEF nodes, repository, files
        <3> QED  BY <2>2, <3>1, IdleKeeps, FilesStay DEF Maintained
    <2>3. CASE \E gone : Cancelling(gone, {}, {}) /\ cmd'.at = "draining" /\ cmd'.chat = None
        BY <2>1, <2>3, StoppingKeeps
    <2> QED  BY <1>1, <2>2, <2>3, StopReplyCancels
<1>2. ASSUME StopAll
      PROVE  Maintained
    <2>1. StateLockFree /\ UNCHANGED files  BY <1>2 DEF StopAll
    <2> QED  BY <1>2, <2>1, StopAllCancels, StoppingKeeps
<1>3. ASSUME NEW ref \in References, ClearReply(ref)
      PROVE  Maintained
    <2>1. StateLockFree /\ UNCHANGED files /\ ref \in index  BY <1>3 DEF ClearReply
    <2>2. CASE /\ \E gone : Cancelling(gone, {}, {})
               /\ UNCHANGED <<graph, published, cmd>>
        BY <2>1, <2>2, StoppingKeeps
    <2>3. ASSUME NEW removed, NEW cleared,
                 Cancelling(removed \cup cleared, removed, cleared),
                 \A u \in removed \cup cleared : Root(u) = Root(ref[1]),
                 \/ /\ Root(ref[1]) \in removed
                    /\ Drain({}, {Identity(Root(ref[1]))}, None)
                 \/ /\ Root(ref[1]) \notin removed
                    /\ Drain({Root(ref[1])}, {}, None)
          PROVE  Maintained
        <3>1. cmd'.at = "draining" /\ cmd'.chat = None  BY <2>3 DEF Drain
        <3>2. PICK r \in published : r = Root(ref[1])  BY <2>1, IndexFacts
        <3>3. turn' = turn /\ published' = published \ removed
            BY <2>3 DEF Cancelling, RemoveNodes
        <3>4. ASSUME NEW m \in Messages, NEW u \in removed, turn[Root(u)].msg = m
              PROVE  Pending(m)'
            <4>1. turn[r].msg = m /\ turn'[r].msg = m  BY <2>3, <3>2, <3>3, <3>4
            <4>2. CASE r \in removed
                <5>1. m \in cmd'.forget  BY <2>3, <3>2, <4>1, <4>2 DEF Drain, Identity
                <5> QED  BY <3>1, <5>1 DEF Pending
            <4>3. CASE r \notin removed
                <5>1. r \in cmd'.saves \cap published'
                    BY <2>3, <3>2, <3>3, <4>3 DEF Drain
                <5> QED  BY <3>1, <4>1, <5>1 DEF Pending, Identity
            <4> QED  BY <4>2, <4>3
        <3>5. FilesTyped' /\ FilesAreWhole'
            BY <2>1, <2>3, <3>1, <3>4, FilesCancelling
        <3> QED  BY <2>3, <3>5, CancellingKeeps
    <2> QED  BY <1>3, <2>2, <2>3, ClearReplyCancels
<1>4. ASSUME NEW c \in Chats, ClearChat(c)
      PROVE  Maintained
    <2>1. StateLockFree /\ UNCHANGED files  BY <1>4 DEF ClearChat
    <2>2. PICK removed : /\ Cancelling(removed, removed, {})
                         /\ \A u \in removed : Chat(Root(u)) = c
                         /\ Drain({}, {}, c)
        BY <1>4, ClearChatCancels
    <2>3. /\ cmd'.at = "draining" /\ cmd'.chat = c
          /\ cmd'.saves = {} /\ cmd'.forget = {}
        BY <2>2 DEF Drain
    <2>4. \A u \in removed : \A m \in Messages : turn[Root(u)].msg = m => Pending(m)'
        BY <2>2, <2>3 DEF Chat, Pending
    <2>5. FilesTyped' /\ FilesAreWhole'
        BY <2>1, <2>2, <2>3, <2>4, FilesCancelling
    <2> QED  BY <2>2, <2>5, CancellingKeeps
<1> QED  BY <1>1, <1>2, <1>3, <1>4 DEF Command

\* A step keeps the invariant.
LEMMA NextKeeps ==
    ASSUME Inv, Next
    PROVE  Inv'
<1>1. Maintained
    <2>1. CASE \E m \in Messages : Intake(m)  BY <2>1, IntakeKeeps
    <2>2. CASE \E t \in Turns : Runner(t)  BY <2>2, RunnerKeeps
    <2>3. CASE Command  BY <2>3, CommandKeeps
    <2>4. CASE CommandGoesOn
        BY <2>4, FilesCapture, FilesSaveSnapshots, FilesClearStore, IdleKeeps
           DEF CommandGoesOn, Maintained
    <2>5. CASE Write  BY <2>5, FilesWrite, IdleKeeps DEF Maintained
    <2>6. CASE Restart  BY <2>6, RestartIsSafe, FilesRestart DEF Maintained
    <2> QED  BY <2>1, <2>2, <2>3, <2>4, <2>5, <2>6 DEF Next
<1>2. IntakeTyped'  BY IntakeStaysTyped
<1> QED  BY <1>1, <1>2 DEF Maintained, Inv, Types

\* So does no step.
LEMMA StutterKeeps ==
    ASSUME Inv, UNCHANGED vars
    PROVE  Inv'
<1>1. Idle /\ UNCHANGED <<turn, graph, published, store, cmd>> /\ disk' \in {disk, store}
    BY DEF vars, Idle, nodes, repository, files
<1>2. IntakeTyped'
    BY DEF vars, bounds, Inv, Types, IntakeTyped
<1> QED  BY <1>1, <1>2, IdleKeeps, FilesStay DEF Inv, Types

\* The empty repository is in order.
LEMMA InitInv ==
    ASSUME Init
    PROVE  Inv
<1>1. /\ Len(turn) = 0 /\ Admitted = {} /\ turn \in Seq(TurnRecord)
      /\ MaxTurns \in Nat /\ MaxCommands \in Nat /\ MaxRestarts \in Nat
    BY BoundsAssumption DEF Init, Admitted
<1>2. Forest  BY <1>1 DEF Forest
<1>3. NodesTyped  BY <1>1 DEF NodesTyped, Init
<1>4. SchedulingTyped
    <2>1. <<>> \in Seq(Admitted)  OBVIOUS
    <2> QED  BY <2>1 DEF SchedulingTyped, Init
<1>5. IntakeTyped  BY <1>1 DEF IntakeTyped, Init
<1>6. SnapshotOK(NoTree) /\ \A m : WellFormed(NoTree, m)
    BY DEF SnapshotOK, WellFormed, NoTree
<1>7. FilesTyped  BY <1>6 DEF FilesTyped, Init
<1>8. SchedulingInv
    <2>1. TreesAreWhole /\ ClaimsAreHome /\ LeftSettled /\ ClearedIsGone
        BY <1>1 DEF Init, TreesAreWhole, ClaimsAreHome, ClaimsHaveTasks, LeftSettled,
                    ClearedIsGone, ClearedStatusIsInert, DetachedIsStopped
    <2>2. QueuesAreOrdered  BY DEF Init, QueuesAreOrdered, Increasing
    <2>3. NoneStranded  BY DEF Init, NoneStranded, Members, Range
    <2>4. ParentSettlesFirst  BY DEF Init, ParentSettlesFirst
    <2> QED  BY <2>1, <2>2, <2>3, <2>4 DEF SchedulingInv, QueueIsServed
<1>9. FilesAreWhole
    <2>1. Stored(store) = {} /\ Stored(disk) = {}  BY DEF Init, Stored, NoTree
    <2>2. Distinct(graph \cup Stored(store)) /\ Distinct(Stored(disk))
        BY <2>1 DEF Init, Distinct
    <2>3. \A m \in Messages : Live(m)  BY DEF Init, Live
    <2> QED  BY <1>6, <2>2, <2>3 DEF FilesAreWhole, Init
<1> QED  BY <1>2, <1>3, <1>4, <1>5, <1>7, <1>8, <1>9 DEF Inv, Types

\* The invariant holds of every reachable state.
THEOREM Invariant == Spec => []Inv
<1>1. Init => Inv  BY InitInv
<1>2. Inv /\ [Next]_vars => Inv'  BY NextKeeps, StutterKeeps
<1> QED  BY <1>1, <1>2, PTL DEF Spec

-----------------------------------------------------------------------------
(* The properties. *)

\* A tree runs one claim at a time, which keeps its task until it is released:
\* no tree is left claimed by a task that is no more (processor.py).
THEOREM ClaimsHaveTasksCorrect == Spec => []ClaimsHaveTasks
<1>1. Inv => ClaimsHaveTasks  BY DEF Inv, SchedulingInv, ClaimsAreHome
<1> QED  BY <1>1, Invariant, PTL

\* Each pending turn waits in the queue of its tree behind a claim that will
\* hand over to it, and runs when its parent has settled (runtime.py).
THEOREM QueueIsServedCorrect == Spec => []QueueIsServed
<1>1. Inv => QueueIsServed  BY DEF Inv, SchedulingInv
<1> QED  BY <1>1, Invariant, PTL

\* What was cleared keeps no session and is cut off from the tasks that still
\* run for it (graph.py, clear_status; manager.py, remove_message_subtree).
THEOREM ClearedIsGoneCorrect == Spec => []ClearedIsGone
<1>1. Inv => ClearedIsGone  BY DEF Inv, SchedulingInv
<1> QED  BY <1>1, Invariant, PTL

\* The types of the module follow from those of the invariant.
LEMMA InvImpliesTypeOK == Inv => TypeOK
<1> SUFFICES ASSUME Inv PROVE TypeOK
    OBVIOUS
<1>1. Forest /\ NodesTyped /\ SchedulingTyped /\ IntakeTyped  BY DEF Inv, Types
<1>2. Admitted = 1 .. Len(turn) /\ Len(turn) \in Nat /\ Admitted \subseteq Turns
    BY <1>1, AdmittedFacts
<1>3. \A t \in Admitted :
          /\ turn[t].msg \in Messages /\ turn[t].via \in Kinds \cup {"none"}
          /\ turn[t].root \in 1 .. t /\ turn[t].parent \in 0 .. t - 1
    <2> TAKE t \in Admitted
    <2>1. turn[t] \in TurnRecord  BY <1>1, <1>2, ElementOfSeq DEF Forest
    <2> QED  BY <1>1, <2>1 DEF Forest, TurnRecord, Root
<1>4. graph \subseteq Admitted /\ status \cup session \subseteq graph  BY <1>1 DEF NodesTyped
<1>5. \A t \in Turns : IF t \in graph THEN state[t] \in Runnable \cup {"completed", "error"}
                                      ELSE state[t] = "none"
    BY <1>1 DEF NodesTyped, States
<1>6. index \subseteq References
    BY IndexFacts
<1>7. Len(turn) <= MaxTurns /\ published \subseteq Admitted  BY <1>1 DEF Forest, NodesTyped
<1>8. /\ queue \in [Turns -> Seq(Admitted)] /\ active \in [Turns -> Admitted \cup {0}]
      /\ stopped \subseteq Admitted
      /\ task \in [Turns -> {"none", "launched", "running", "over", "finishing", "recovering"}]
    BY <1>1 DEF SchedulingTyped
<1>9. /\ inbox \in [Messages -> {[at |-> "idle"]} \cup
               [at : {"sending"}, current : BOOLEAN, ref : References \cup {None}]]
      /\ cmd.at \in {"idle", "draining", "saving"}
      /\ commands \in 0 .. MaxCommands /\ restarts \in 0 .. MaxRestarts
    BY <1>1 DEF IntakeTyped
<1> QED  BY <1>3, <1>4, <1>5, <1>6, <1>7, <1>8, <1>9 DEF TypeOK

\* The trees, the index of references and the store tell the same story: what
\* was cleared does not come back, whichever task or command has saved last
\* (repository.py, workflow.py, session/store.py).
THEOREM StructuresAgreeCorrect == Spec => []StructuresAgree
<1>1. Inv => IndexMatchesTrees
    BY DEF Inv, Types, NodesTyped, SchedulingInv, TreesAreWhole, FilesAreWhole, Distinct,
           IndexMatchesTrees
<1>2. Inv => StoredIsLive
    BY DEF Inv, FilesAreWhole, Live, Pending, StateLockFree, StoredIsLive
<1>3. Inv => StructuresAgree  BY <1>1, <1>2, InvImpliesTypeOK DEF StructuresAgree
<1> QED  BY <1>3, Invariant, PTL

\* A snapshot in order can be restored.
LEMMA GoodIsRestorable ==
    ASSUME Inv, NEW s, NEW m, SnapshotOK(s), WellFormed(s, m), NEW t \in DOMAIN s
    PROVE  /\ s[t].state \in Runnable => s[t].status
           /\ \/ t = Root(t)
              \/ /\ turn[t].parent \in DOMAIN s
                 /\ turn[t].via = "status" => s[turn[t].parent].status
<1>1. t \in Admitted /\ s[t] \in Node  BY DEF SnapshotOK
<1>2. turn[t].parent = 0 <=> Root(t) = t  BY <1>1 DEF Inv, Types, Forest
<1>3. s[t].state \in Runnable => s[t].status
    BY <1>1 DEF WellFormed, Runnable, Node
<1> QED  BY <1>2, <1>3 DEF WellFormed

\* Whenever the process stops, the next one can restore every tree of the file
\* (graph.py, MessageTreeGraph.from_snapshot).
THEOREM RestorableCorrect == Spec => []Restorable
<1>1. ASSUME Inv, NEW s \in Snapshots
      PROVE  \E m : SnapshotOK(s) /\ WellFormed(s, m)
    <2>1. CASE s \in Range(store) \/ s \in Range(disk)
        <3>1. PICK m \in Messages : s = store[m] \/ s = disk[m]
            BY <1>1, <2>1 DEF Range, Inv, Types, FilesTyped
        <3> QED  BY <1>1, <3>1 DEF Inv, Types, FilesTyped, FilesAreWhole
    <2>2. CASE cmd.at = "saving" /\ s \in Range(cmd.snapshots)
        <3>1. PICK r \in DOMAIN cmd.snapshots : s = cmd.snapshots[r]
            BY <2>2 DEF Range
        <3> QED  BY <1>1, <2>2, <3>1 DEF Inv, Types, FilesTyped, FilesAreWhole
    <2> QED  BY <2>1, <2>2 DEF Snapshots
<1>2. Inv => Restorable
    <2> SUFFICES ASSUME Inv, NEW s \in Snapshots, NEW t \in DOMAIN s
                 PROVE  /\ s[t].state \in Runnable => s[t].status
                        /\ \/ t = Root(t)
                           \/ /\ turn[t].parent \in DOMAIN s
                              /\ turn[t].via = "status" => s[turn[t].parent].status
        BY DEF Restorable
    <2> QED  BY <1>1, GoodIsRestorable
<1> QED  BY <1>2, Invariant, PTL

-----------------------------------------------------------------------------
(* Steps. *)

\* What a step of the specification is, in terms of its effect.
LEMMA Effects ==
    ASSUME Inv, Next
    PROVE  \/ \E t, m, r, parent, via : Entering(t, m, r, parent, via)
           \/ \E t : \/ MovingOn(t) \/ Recording(t) \/ Completing(t)
                     \/ \E failed : Failing(t, failed)
                     \/ Finishing(t)
           \/ \E gone, removed, cleared : Cancelling(gone, removed, cleared)
           \/ Idle
           \/ Restart
<1>1. ASSUME NEW m \in Messages, Intake(m)
      PROVE  Idle \/ \E t, n, r, parent, via : Entering(t, n, r, parent, via)
    <2>1. CASE (\E ref \in References \cup {None} : Receive(m, ref)) \/ Discard(m)
        BY <2>1 DEF Receive, Discard, Idle
    <2>2. CASE Redelivered(m)  BY <2>2, RedeliveredIsIdle
    <2>3. CASE Admit(m)  BY <2>3, AdmitEnters
    <2> QED  BY <1>1, <2>1, <2>2, <2>3 DEF Intake
<1>2. ASSUME Command
      PROVE  Idle \/ \E gone, removed, cleared : Cancelling(gone, removed, cleared)
    <2>1. CASE \E ref \in References : StopReply(ref)  BY <2>1, StopReplyCancels
    <2>2. CASE \E ref \in References : ClearReply(ref)  BY <2>2, ClearReplyCancels
    <2>3. CASE StopAll  BY <2>3, StopAllCancels
    <2>4. CASE \E c \in Chats : ClearChat(c)  BY <2>4, ClearChatCancels
    <2> QED  BY <1>2, <2>1, <2>2, <2>3, <2>4 DEF Command
<1>3. CommandGoesOn \/ Write => Idle
    BY FilesCapture, FilesSaveSnapshots, FilesClearStore, FilesWrite DEF CommandGoesOn
<1> QED  BY <1>1, <1>2, <1>3, RunnerEffect DEF Next

\* Nothing that has settled becomes runnable, and what was stopped does not
\* complete.
LEMMA StepStaysStopped ==
    ASSUME Inv, [Next]_vars, ~Restart, NEW t \in Admitted
    PROVE  /\ state[t] \notin Runnable => state'[t] \notin Runnable
           /\ t \in stopped /\ state[t] # "completed" => state'[t] # "completed"
<1>1. t \in Turns /\ state \in [Turns -> States \cup {"none"}]
    BY AdmittedFacts DEF Inv, Types, NodesTyped
<1>2. CASE Idle \/ UNCHANGED vars
    <2>1. state' = state  BY <1>2 DEF Idle, vars
    <2> QED  BY <2>1
<1>3. ASSUME NEW u, NEW m, NEW r, NEW parent, NEW via, Entering(u, m, r, parent, via)
      PROVE  state'[t] = state[t]
    <2>1. u # t  BY <1>3, EnteringFacts
    <2>2. \E s : state' = [state EXCEPT ![u] = s]
        BY <1>3 DEF Entering, EnqueueOrClaim, EnqueueOr, Claim
    <2> QED  BY <1>1, <2>1, <2>2
<1>4. ASSUME NEW u, MovingOn(u) \/ Recording(u)
      PROVE  state'[t] = state[t]
    BY <1>4 DEF MovingOn, Recording
<1>5. ASSUME NEW u, Completing(u)
      PROVE  state'[t] = state[t] \/ (t \notin stopped /\ state'[t] = "completed")
    BY <1>1, <1>5 DEF Completing
<1>6. ASSUME NEW u, NEW failed, Failing(u, failed)
      PROVE  state'[t] = state[t] \/ state'[t] = "error"
    BY <1>1, <1>6 DEF Failing
<1>7. ASSUME NEW u, Finishing(u)
      PROVE  state'[t] = state[t] \/ (state[t] = "pending" /\ state'[t] = "in_progress")
    BY <1>1, <1>7 DEF Finishing
<1>8. ASSUME NEW gone, NEW removed, NEW cleared, Cancelling(gone, removed, cleared)
      PROVE  state'[t] \in {state[t], "error", "none"}
    BY <1>1, <1>8 DEF Cancelling, CancelNodes, Cancel
<1>9. CASE Next
    BY <1>2, <1>3, <1>4, <1>5, <1>6, <1>7, <1>8, <1>9, Effects DEF Runnable
<1> QED  BY <1>2, <1>9

\* A message runs once: a node that has settled never becomes runnable again,
\* and one that was stopped does not complete after all (runtime.py).
THEOREM StoppedStaysStoppedCorrect == Spec => StoppedStaysStopped
<1>1. Inv /\ [Next]_vars =>
          (~Restart => \A t \in Admitted :
              /\ state[t] \notin Runnable => state'[t] \notin Runnable
              /\ t \in stopped /\ state[t] # "completed" => state'[t] # "completed")
    BY StepStaysStopped
<1> QED  BY <1>1, Invariant, PTL DEF Spec, StoppedStaysStopped

-----------------------------------------------------------------------------
(* The trees are lines. *)

\* The queues of the trees and of the lines lose turns alike.
LEMMA SameWithout ==
    \A line, gone : Lines!Without(line, gone) = Without(line, gone)
BY DEF Lines!Without, Without

\* A step is a step of the lines, or none.
LEMMA StepOfLines ==
    ASSUME Inv, [Next]_vars
    PROVE  [Lines!Next]_<<queue, active, Len(turn)>>
<1>1. /\ Len(turn) \in Nat /\ graph \subseteq Turns
      /\ \A u \in Admitted : Root(u) \in Turns /\ u \in Turns /\ u # 0
    <2>1. /\ Len(turn) \in Nat /\ Admitted = 1 .. Len(turn) /\ Admitted \subseteq Turns
          /\ \A u \in Admitted : Root(u) \in Admitted
        BY AdmittedFacts DEF Inv, Types
    <2>2. graph \subseteq Turns  BY <2>1 DEF Inv, Types, NodesTyped
    <2> QED  BY SMTT(30), <2>1, <2>2
<1>2. /\ \A r \in Turns : queue[r] # <<>> => active[r] # 0
      /\ queue \in [Turns -> Seq(Admitted)] /\ active \in [Turns -> Admitted \cup {0}]
    BY DEF Inv, Types, SchedulingTyped, SchedulingInv, QueueIsServed, NoneStranded
<1>3. CASE Idle \/ UNCHANGED vars
    BY <1>3 DEF Idle, vars, nodes, scheduling
<1>4. ASSUME NEW t, NEW m, NEW r, NEW parent, NEW via, Entering(t, m, r, parent, via)
      PROVE  Lines!Join(r) /\ r \in Turns
    <2>1. t \in Turns /\ t = Len(turn) + 1 /\ r \in Turns
        BY <1>4, EnteringFacts DEF Entering
    <2>2. Len(turn') = Len(turn) + 1
        BY <1>4, AppendProperties DEF Entering, Inv, Types, Forest
    <2>3. CASE active[r] = 0
        <3>1. queue[r] = <<>>  BY <1>2, <2>1, <2>3
        <3>2. active' = [active EXCEPT ![r] = t] /\ queue' = queue
            BY <1>4, <2>3 DEF Entering, EnqueueOrClaim, EnqueueOr, Claim
        <3> QED  BY <2>1, <2>2, <2>3, <3>1, <3>2 DEF Lines!Join
    <2>4. CASE active[r] # 0
        <3>1. queue' = [queue EXCEPT ![r] = Append(queue[r], t)] /\ active' = active
            BY <1>4, <2>4 DEF Entering, EnqueueOrClaim, EnqueueOr, Claim
        <3> QED  BY <2>1, <2>2, <2>4, <3>1 DEF Lines!Join
    <2> QED  BY <2>1, <2>3, <2>4
<1>5. ASSUME NEW t, MovingOn(t) \/ Recording(t) \/ Completing(t)
      PROVE  UNCHANGED <<queue, active, Len(turn)>>
    BY <1>5 DEF MovingOn, Recording, Completing, nodes, scheduling
<1>6. ASSUME NEW t, NEW failed, Failing(t, failed)
      PROVE  \E gone \in SUBSET Turns : Lines!Withdraw(gone)
    <2>1. failed \in SUBSET Turns  BY <1>1, <1>6 DEF Failing
    <2>2. queue' = [r \in Turns |-> Lines!Without(queue[r], failed)]
        BY <1>6, SameWithout DEF Failing
    <2>3. active' = active /\ turn' = turn  BY <1>6 DEF Failing, nodes
    <2> QED  BY <2>1, <2>2, <2>3 DEF Lines!Withdraw, Lines!Lines
<1>7. ASSUME NEW t, Finishing(t)
      PROVE  \E r \in Turns : Lines!Advance(r)
    <2>1. PICK r \in Turns : r = Root(t) /\ active[r] = t /\ t # 0
        BY <1>1, <1>7 DEF Finishing
    <2>2. turn' = turn  BY <1>7 DEF Finishing, nodes
    <2>3. CASE queue[r] = <<>>
        <3>1. active' = [active EXCEPT ![r] = 0] /\ queue' = queue
            BY <1>7, <2>1, <2>3 DEF Finishing
        <3> QED  BY <2>1, <2>2, <2>3, <3>1 DEF Lines!Advance
    <2>4. CASE queue[r] # <<>>
        <3>1. /\ active' = [active EXCEPT ![r] = Head(queue[r])]
              /\ queue' = [queue EXCEPT ![r] = Tail(@)]
            BY <1>7, <2>1, <2>4 DEF Finishing
        <3> QED  BY <2>1, <2>2, <2>4, <3>1 DEF Lines!Advance
    <2> QED  BY <2>3, <2>4
<1>8. ASSUME NEW gone, NEW removed, NEW cleared, Cancelling(gone, removed, cleared)
      PROVE  \E some \in SUBSET Turns : Lines!Withdraw(some)
    <2>1. gone \in SUBSET Turns  BY <1>1, <1>8 DEF Cancelling
    <2>2. queue' = [r \in Turns |-> Lines!Without(queue[r], gone)]
        BY <1>8, SameWithout DEF Cancelling, CancelNodes, Cancel
    <2>3. active' = active /\ turn' = turn
        BY <1>8 DEF Cancelling, CancelNodes, Cancel, RemoveNodes
    <2> QED  BY <2>1, <2>2, <2>3 DEF Lines!Withdraw, Lines!Lines
<1>9. CASE Restart
    <2>1. Lines!Stop  BY <1>9 DEF Restart, Lines!Stop, Lines!Lines
    <2> QED  BY <2>1 DEF Lines!Next
<1>10. CASE Next
    BY <1>3, <1>4, <1>5, <1>6, <1>7, <1>8, <1>9, <1>10, Effects DEF Lines!Next, Lines!Lines
<1> QED  BY <1>3, <1>10

\* The trees are lines that serve one turn at a time, in order of arrival.
THEOREM ImplementsTurnQueueCorrect == Spec => ImplementsTurnQueue
<1>1. Init => Lines!Init  BY DEF Init, Lines!Init, Lines!Lines
<1>2. Inv /\ [Next]_vars => [Lines!Next]_<<queue, active, Len(turn)>>  BY StepOfLines
<1> QED  BY <1>1, <1>2, Invariant, PTL DEF Spec, ImplementsTurnQueue, Lines!Spec
=============================================================================
