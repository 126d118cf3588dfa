------------------------ MODULE StreamResponsesProofs -------------------------
(***************************************************************************)
(* Theorems about a response, for any number of attempts and chunks and     *)
(* whatever the blocks are.                                                 *)
(*                                                                          *)
(* That the lease goes after the body follows from where the request task,  *)
(* the runner and the finalization task are; what the frames contain plays  *)
(* no part. That the client gets one message is about nothing else: the     *)
(* invariant describes all that has been written, whoever has it by now, as *)
(* the beginning of a message that agrees with the ledger. Each operator of *)
(* the ledger is shown to extend such a message, and each step to move its  *)
(* frames towards the client.                                               *)
(***************************************************************************)
EXTENDS StreamResponses, WellFoundedInduction, SequenceTheorems, TLAPS

-----------------------------------------------------------------------------
(* The lease, and the request, the runner and the finalization task. *)

Requests == {"start", "first", "collect", "respond", "send", "next", "unwind",
             "release", "finalize", "end"}
Runs == {"new", "open", "read", "recover", "leave", "tail", "done", "failed"}
Exits == {"none", "retry", "break", "return", "raise", "closed"}

\* Where everybody may be.
Control ==
    /\ req \in Requests /\ lease \in {"none", "held", "released"}
    /\ run \in Runs /\ exit \in Exits
    /\ cleanup \in {"none", "closing", "done"} /\ upstream \in {"none", "open", "closed"}

\* Before the request is handled there is nothing but the request.
Untouched == req = "start" => lease = "none" /\ run = "new" /\ upstream = "none" /\ cleanup = "none"

\* Whoever is at work on a response has the lease, and has not begun to finalize it.
Holding ==
    req \in {"first", "collect", "respond", "send", "next", "unwind", "release"}
        => lease = "held" /\ cleanup = "none"

\* The finalization task works for a request that awaits it, and releases the lease
\* as its last act.
Finalizing ==
    /\ req = "finalize" => cleanup # "none"
    /\ cleanup = "closing" => req = "finalize" /\ lease = "held"
    /\ cleanup = "done" => lease = "released"

\* Whoever has an upstream stream open will pass the finally clause.
Closing == upstream = "open" => run \in {"read", "recover", "leave"}

\* The route releases the lease of a body that is over.
Over == req = "release" => run \in {"done", "failed"}

\* The inductive invariant.
Inv ==
    /\ Control /\ Untouched /\ Holding /\ Finalizing /\ Closing /\ Over
    /\ LeaseOutlivesBody

-----------------------------------------------------------------------------
\* Nothing has begun.
LEMMA InitOwns == Init => Inv
  BY DEF Init, Inv, Control, Untouched, Holding, Finalizing, Closing, Over,
         LeaseOutlivesBody, Requests, Runs, Exits

\* A step of the runner: somebody awaits it, so that the lease is held; it may
\* leave its loop only through the finally clause.
LEMMA RunnerKeeps ==
    ASSUME Inv, Runner
    PROVE  Inv'
  <1> USE DEF Inv, Control, Untouched, Holding, Finalizing, Closing, Over,
             LeaseOutlivesBody, Requests, Runs, Exits, asgi, Awaited
  <1>1. CASE Begin  BY <1>1 DEF Begin
  <1>2. CASE OpenStream  BY <1>2 DEF OpenStream
  <1>3. CASE OpenFails  BY <1>3 DEF OpenFails
  <1>4. CASE Chunk  BY <1>4 DEF Chunk
  <1>5. CASE Deadline  BY <1>5 DEF Deadline
  <1>6. CASE EndOfStream  BY <1>6 DEF EndOfStream
  <1>7. CASE EarlyRetry  BY <1>7 DEF EarlyRetry
  <1>8. CASE Recover  BY <1>8 DEF Recover
  <1>9. CASE FinalError  BY <1>9 DEF FinalError, Abort
  <1>10. CASE Salvage  BY <1>10 DEF Salvage, Recovered
  <1>11. CASE Repair
    <2>1. /\ Awaited /\ run = "recover" /\ run' = "leave" /\ exit' = "return"
          /\ UNCHANGED <<asgi, upstream>>
      BY <1>11 DEF Repair, Recovered
    <2> QED  BY SMTT(30), <2>1
  <1>12. CASE Continue
    <2>1. /\ Awaited /\ run = "recover" /\ run' = "leave" /\ exit' = "return"
          /\ UNCHANGED <<asgi, upstream>>
      BY <1>12 DEF Continue, Recovered
    <2> QED  BY <2>1
  <1>13. CASE RecoveryFails  BY <1>13 DEF RecoveryFails, Abort
  <1>14. CASE EndMessage  BY <1>14 DEF EndMessage
  <1>15. CASE LeaveTry  BY <1>15 DEF LeaveTry, Leaving
  <1> QED
    BY <1>1, <1>2, <1>3, <1>4, <1>5, <1>6, <1>7, <1>8, <1>9, <1>10, <1>11, <1>12,
       <1>13, <1>14, <1>15 DEF Runner

\* A step of the request task, or of the finalization task.
LEMMA RequestKeeps ==
    ASSUME Inv, Request
    PROVE  Inv'
  <1> USE DEF Inv, Control, Untouched, Holding, Finalizing, Closing, Over,
             LeaseOutlivesBody, Requests, Runs, Exits, runner
  <1>1. CASE Refuse  BY <1>1 DEF Refuse
  <1>2. CASE Handle  BY <1>2 DEF Handle
  <1>3. CASE FirstFrame  BY <1>3 DEF FirstFrame
  <1>4. CASE NoFrame  BY <1>4 DEF NoFrame
  <1>5. CASE Collect  BY <1>5 DEF Collect
  <1>6. CASE Collected  BY <1>6 DEF Collected
  <1>7. CASE Release  BY <1>7 DEF Release
  <1>8. CASE Respond  BY <1>8 DEF Respond
  <1>9. CASE Send  BY <1>9 DEF Send
  <1>10. CASE NextFrame  BY <1>10 DEF NextFrame
  <1>11. CASE TerminalFrame  BY <1>11 DEF TerminalFrame
  <1>12. CASE Sent  BY <1>12 DEF Sent, Finalize, CloseBody
  <1>13. CASE SendFails  BY <1>13 DEF SendFails, Finalize, CloseBody
  <1>14. CASE Unwound  BY <1>14 DEF Unwound
  <1>15. CASE Cleanup  BY <1>15 DEF Cleanup
  <1>16. CASE Finalized  BY <1>16 DEF Finalized
  <1> QED
    BY <1>1, <1>2, <1>3, <1>4, <1>5, <1>6, <1>7, <1>8, <1>9, <1>10, <1>11, <1>12,
       <1>13, <1>14, <1>15, <1>16 DEF Request

\* Every step keeps the lease with the response until its body is over.
LEMMA StepKeeps ==
    ASSUME Inv, [Next]_vars
    PROVE  Inv'
  <1> USE DEF Inv, Control, Untouched, Holding, Finalizing, Closing, Over,
             LeaseOutlivesBody, Requests, Runs, Exits, asgi, runner, Awaited
  <1>1. CASE Cancel  BY <1>1 DEF Cancel
  <1>2. CASE ReadEnds  BY <1>2 DEF ReadEnds
  <1>3. CASE UNCHANGED vars  BY <1>3 DEF vars
  <1> QED  BY <1>1, <1>2, <1>3, RunnerKeeps, RequestKeeps DEF Next

\* No lease is released under a body that is not closed, and no request ends with
\* its lease, however the response was interrupted.
THEOREM LeaseOutlivesBodyCorrect == Spec => []LeaseOutlivesBody
  <1>1. Inv => LeaseOutlivesBody  BY DEF Inv
  <1> QED  BY <1>1, InitOwns, StepKeeps, PTL DEF Spec

-----------------------------------------------------------------------------
(* Induction. The theorems of the library take the predicate as a parameter; *)
(* a set of natural numbers does as well.                                   *)

Less == {p \in Nat \X Nat : p[1] < p[2]}

\* A set of natural numbers with a least element in each of its parts.
LEMMA LessIsWellFounded == IsWellFoundedOn(Less, Nat)
BY NatLessThanWellFounded DEF OpToRel, Less

\* Induction: a set with 0 and the successor of each member is Nat.
LEMMA SetInduction ==
    ASSUME NEW S \in SUBSET Nat, 0 \in S, \A n \in S : n + 1 \in S
    PROVE  S = Nat
<1> SUFFICES ASSUME Nat \ S # {} PROVE FALSE  OBVIOUS
<1>1. PICK n \in Nat \ S : \A k \in Nat \ S : ~ (<<k, n>> \in Less)
    BY LessIsWellFounded, WFMin
<1>2. n # 0 /\ n - 1 \in Nat  BY <1>1
<1>3. n - 1 \in S
    <2>1. CASE n - 1 \notin S
        <3>1. <<n - 1, n>> \in Less  BY <1>2 DEF Less
        <3> QED  BY <1>1, <1>2, <2>1, <3>1
    <2> QED  BY <2>1
<1>4. (n - 1) + 1 \in S  BY <1>3
<1> QED  BY <1>1, <1>2, <1>4

-----------------------------------------------------------------------------
(* The order in which several blocks are closed or completed. *)

\* f is the function that InOrder defines, up to n.
IsListed(f, blocks, n) ==
    f = [b \in 0 .. n |->
            IF b = 0 THEN <<>>
            ELSE IF b \in blocks THEN Append(f[b - 1], b) ELSE f[b - 1]]

\* The equation of that function.
LEMMA ListedValue ==
    ASSUME NEW f, NEW blocks, NEW n, IsListed(f, blocks, n), NEW b \in 0 .. n
    PROVE  f[b] = IF b = 0 THEN <<>>
                  ELSE IF b \in blocks THEN Append(f[b - 1], b) ELSE f[b - 1]
  <1> DEFINE E(k) == IF k = 0 THEN <<>>
                     ELSE IF k \in blocks THEN Append(f[k - 1], k) ELSE f[k - 1]
  <1>1. f = [k \in 0 .. n |-> E(k)]  BY DEF IsListed
  <1> HIDE DEF E
  <1>2. f[b] = E(b)  BY <1>1
  <1> QED  BY <1>2 DEF E

\* The recursion of InOrder has a solution.
LEMMA ListedExists ==
    ASSUME NEW blocks, NEW N \in Nat
    PROVE  \E f : IsListed(f, blocks, N)
  <1> DEFINE S == {n \in Nat : \E f : IsListed(f, blocks, n)}
  <1>1. 0 \in S
    <2> DEFINE f == [b \in 0 .. 0 |-> <<>>]
    <2>1. IsListed(f, blocks, 0)  BY DEF IsListed
    <2> QED  BY <2>1
  <1>2. ASSUME NEW n \in S PROVE n + 1 \in S
    <2>1. PICK f : IsListed(f, blocks, n)  OBVIOUS
    <2> DEFINE g == [b \in 0 .. n + 1 |->
                        IF b <= n THEN f[b]
                        ELSE IF b \in blocks THEN Append(f[b - 1], b) ELSE f[b - 1]]
    <2>2. n \in Nat  OBVIOUS
    <2>3. ASSUME NEW b \in 0 .. n + 1
          PROVE  g[b] = IF b = 0 THEN <<>>
                        ELSE IF b \in blocks THEN Append(g[b - 1], b) ELSE g[b - 1]
      <3>1. CASE b = 0  BY <2>1, <2>2, <3>1 DEF IsListed
      <3>2. CASE b \in 1 .. n
        <4>1. g[b] = f[b] /\ g[b - 1] = f[b - 1]  BY <2>2, <3>2
        <4>2. f[b] = IF b \in blocks THEN Append(f[b - 1], b) ELSE f[b - 1]
          BY <2>1, <2>2, <3>2, ListedValue
        <4> HIDE DEF g
        <4> QED  BY <3>2, <4>1, <4>2
      <3>3. CASE b = n + 1
        <4>1. g[b - 1] = f[b - 1]  BY <2>2, <3>3
        <4>2. g[b] = IF b \in blocks THEN Append(f[b - 1], b) ELSE f[b - 1]
          BY <2>2, <3>3
        <4> HIDE DEF g
        <4> QED  BY <2>2, <3>3, <4>1, <4>2
      <3> QED  BY <2>2, <3>1, <3>2, <3>3
    <2>4. IsListed(g, blocks, n + 1)
      <3>1. g = [b \in 0 .. n + 1 |-> g[b]]  OBVIOUS
      <3> HIDE DEF g
      <3> QED  BY <2>3, <3>1 DEF IsListed
    <2> QED  BY <2>2, <2>4
  <1>3. S \in SUBSET Nat  OBVIOUS
  <1>4. S = Nat
    <2> HIDE DEF S
    <2> QED  BY <1>1, <1>2, <1>3, SetInduction
  <1> QED  BY <1>4

\* InOrder is the last value of that function.
LEMMA InOrderIsLast ==
    ASSUME NEW blocks, NEW n \in Nat
    PROVE  \E f : IsListed(f, blocks, n) /\ InOrder(blocks, n) = f[n]
  <1> DEFINE f == CHOOSE f : f = [b \in 0 .. n |->
            IF b = 0 THEN <<>>
            ELSE IF b \in blocks THEN Append(f[b - 1], b) ELSE f[b - 1]]
  <1>0. \E g : IsListed(g, blocks, n)  BY ListedExists
  <1>1. IsListed(f, blocks, n)  BY <1>0 DEF IsListed
  <1>2. InOrder(blocks, n) = f[n]  BY DEF InOrder
  <1> QED  BY <1>1, <1>2

\* Every block is listed, once.
LEMMA InOrderProperties ==
    ASSUME NEW n \in Nat, NEW blocks \in SUBSET (1 .. n)
    PROVE  /\ InOrder(blocks, n) \in Seq(blocks)
           /\ \A b \in blocks : \E i \in 1 .. Len(InOrder(blocks, n)) : InOrder(blocks, n)[i] = b
           /\ \A i, j \in 1 .. Len(InOrder(blocks, n)) :
                 InOrder(blocks, n)[i] = InOrder(blocks, n)[j] => i = j
  <1>1. PICK f : IsListed(f, blocks, n) /\ InOrder(blocks, n) = f[n]  BY InOrderIsLast
  <1> DEFINE Good(k) ==
                /\ f[k] \in Seq(blocks \cap 1 .. k)
                /\ \A b \in blocks \cap 1 .. k : \E i \in 1 .. Len(f[k]) : f[k][i] = b
                /\ \A i, j \in 1 .. Len(f[k]) : f[k][i] = f[k][j] => i = j
             T == {k \in Nat : k <= n => Good(k)}
  <1>2. 0 \in T
    <2>1. f[0] = <<>>  BY <1>1 DEF IsListed
    <2>2. 1 .. 0 = {} /\ Len(f[0]) = 0 /\ f[0] \in Seq(blocks \cap 1 .. 0)  BY <2>1
    <2> QED  BY <2>2
  <1>3. ASSUME NEW k \in T PROVE k + 1 \in T
    <2>0. k \in Nat  OBVIOUS
    <2> SUFFICES ASSUME k + 1 <= n PROVE Good(k + 1)
      <3> HIDE DEF Good
      <3> QED  BY <2>0
    <2>1. Good(k)  BY <2>0
    <2>6. /\ \A b \in blocks \cap 1 .. k : \E i \in 1 .. Len(f[k]) : f[k][i] = b
          /\ \A i, j \in 1 .. Len(f[k]) : f[k][i] = f[k][j] => i = j
      BY <2>1
    <2>2. f[k + 1] = IF k + 1 \in blocks THEN Append(f[k], k + 1) ELSE f[k]
      BY SMTT(30), <1>1, <2>0, ListedValue
    <2>3. 1 .. k + 1 = 1 .. k \cup {k + 1} /\ k + 1 \notin 1 .. k  BY <2>0
    <2>4. CASE k + 1 \notin blocks
      <3>1. blocks \cap 1 .. k + 1 = blocks \cap 1 .. k  BY <2>3, <2>4
      <3>2. f[k + 1] = f[k]  BY <2>2, <2>4
      <3> QED  BY <2>1, <3>1, <3>2
    <2>5. CASE k + 1 \in blocks
      <3> DEFINE B == blocks \cap 1 .. k
                 C == blocks \cap 1 .. k + 1
      <3>1. C = B \cup {k + 1} /\ k + 1 \notin B  BY <2>3, <2>5
      <3> HIDE DEF B, C
      <3>2. f[k] \in Seq(C)  BY <2>1, <3>1 DEF B
      <3>3. f[k + 1] = Append(f[k], k + 1)  BY <2>2, <2>5
      <3>4. /\ f[k + 1] \in Seq(C) /\ Len(f[k]) \in Nat
            /\ Len(f[k + 1]) = Len(f[k]) + 1
            /\ \A i \in 1 .. Len(f[k]) : f[k + 1][i] = f[k][i] /\ f[k][i] \in B
            /\ f[k + 1][Len(f[k]) + 1] = k + 1
        BY SMTT(30), <2>1, <3>1, <3>2, <3>3 DEF B
      <3>5. \A b \in C : \E i \in 1 .. Len(f[k + 1]) : f[k + 1][i] = b
        <4> SUFFICES ASSUME NEW b \in C
                     PROVE  \E i \in 1 .. Len(f[k + 1]) : f[k + 1][i] = b
          OBVIOUS
        <4>1. CASE b = k + 1
          <5>1. Len(f[k]) + 1 \in 1 .. Len(f[k + 1])  BY <3>4
          <5> QED  BY <3>4, <4>1, <5>1
        <4>2. CASE b \in B
          <5>0. b \in blocks \cap 1 .. k  BY <4>2 DEF B
          <5>1. PICK i \in 1 .. Len(f[k]) : f[k][i] = b
            <6> HIDE DEF Good
            <6> QED  BY <2>6, <5>0
          <5>2. i \in 1 .. Len(f[k + 1])  BY <3>4
          <5>3. f[k + 1][i] = b  BY <3>4, <5>1
          <5> QED  BY <5>2, <5>3
        <4> QED  BY <3>1, <4>1, <4>2
      <3>6. \A i, j \in 1 .. Len(f[k + 1]) : f[k + 1][i] = f[k + 1][j] => i = j
        <4> SUFFICES ASSUME NEW i \in 1 .. Len(f[k + 1]), NEW j \in 1 .. Len(f[k + 1]),
                            f[k + 1][i] = f[k + 1][j]
                     PROVE  i = j
          OBVIOUS
        <4> HIDE DEF Good
        <4>1. CASE i <= Len(f[k]) /\ j <= Len(f[k])
          <5>1. f[k][i] = f[k][j]  BY <3>4, <4>1
          <5> QED  BY <2>6, <3>4, <4>1, <5>1
        <4>2. i = Len(f[k]) + 1 => j = Len(f[k]) + 1  BY <3>1, <3>4
        <4>3. j = Len(f[k]) + 1 => i = Len(f[k]) + 1  BY <3>1, <3>4
        <4> QED  BY SMTT(30), <3>4, <4>1, <4>2, <4>3
      <3> QED  BY <3>4, <3>5, <3>6 DEF C
    <2> QED  BY <2>4, <2>5
  <1>4. T = Nat
    <2>1. T \in SUBSET Nat  OBVIOUS
    <2> HIDE DEF T
    <2> QED  BY <1>2, <1>3, <2>1, SetInduction
  <1>5. Good(n)
    <2> HIDE DEF Good
    <2> QED  BY <1>4
  <1>6. blocks \cap 1 .. n = blocks  OBVIOUS
  <1> QED  BY <1>1, <1>5, <1>6

-----------------------------------------------------------------------------
(* What the client gets, and what it may yet get *)

\* Frames of no block, and those that end a message.
Blank == {"start", "stop", "error"}
Last == {"stop", "error"}
Frames == [kind : Kinds, block : Nat, of : Nat]
Block == [kind : Content \cup {"tool"}, tool : Tools \cup {0}, open : BOOLEAN, whole : BOOLEAN]

\* The tool calls of the upstream stream are tool blocks; those found in a text are
\* whole.
LedgerOK(l) ==
    /\ l \in [of : Nat, blocks : Seq(Block)]
    /\ \A b \in 1 .. Len(l.blocks) :
          /\ l.blocks[b].tool # 0 => l.blocks[b].kind = "tool"
          /\ l.blocks[b].kind = "tool" /\ l.blocks[b].tool = 0 => l.blocks[b].whole

\* The tool calls of the upstream stream may go on.
Active(l) == \A b \in 1 .. Len(l.blocks) : l.blocks[b].tool # 0 => l.blocks[b].open

\* No block is open.
AllClosed(l) == \A b \in 1 .. Len(l.blocks) : ~l.blocks[b].open

\* The frames are those of one attempt, which one frame starts, and blocks are
\* opened in order, once, then written, then closed, once.
Ordered(w) ==
    /\ \A i \in 1 .. Len(w) :
          /\ w[i].of = w[1].of
          /\ w[i].kind = "start" <=> i = 1
          /\ w[i].kind \in Blank <=> w[i].block = 0
          /\ w[i].kind \in {"delta", "close"} =>
                \E j \in 1 .. i - 1 : w[j].kind = "open" /\ w[j].block = w[i].block
    /\ \A i, j \in 1 .. Len(w) :
          /\ w[i].kind = "open" /\ w[j].kind = "open" /\ w[i].block < w[j].block => i < j
          /\ w[i].block = w[j].block =>
                /\ w[i].kind = "open" /\ w[j].kind = "open" => i = j
                /\ w[i].kind = "delta" /\ w[j].kind = "close" => i < j
                /\ w[i].kind = "close" /\ w[j].kind = "close" => i = j

\* The frames of a message, which may be a part of it, from the beginning.
Message(w) ==
    /\ w \in Seq(Frames) /\ Ordered(w)
    /\ \A i \in 1 .. Len(w) : w[i].kind \in Last =>
          /\ i = Len(w)
          /\ \A j \in 1 .. Len(w) : w[j].kind = "open" =>
                \E k \in 1 .. Len(w) : w[k].kind = "close" /\ w[k].block = w[j].block

\* A message that is over, and one that was not cut short by an error.
Ends(w) == w # <<>> /\ w[Len(w)].kind \in Last
Stopped(w) == w # <<>> /\ w[Len(w)].kind = "stop"

\* The frames of a message that is not over, with its ledger.
Whole(w, l) ==
    /\ w \in Seq(Frames) /\ w # <<>> /\ Ordered(w)
    /\ \A i \in 1 .. Len(w) :
          w[i].of = l.of /\ w[i].kind \notin Last /\ w[i].block \in 0 .. Len(l.blocks)
    /\ \A b \in 1 .. Len(l.blocks) :
          /\ \E i \in 1 .. Len(w) : w[i].kind = "open" /\ w[i].block = b
          /\ l.blocks[b].open <=> \A i \in 1 .. Len(w) : ~(w[i].kind = "close" /\ w[i].block = b)

\* All that has been written and not discarded, whoever has it by now.
Transcript == seen \o sending \o out \o held

\* The body has not been closed, nor the runner cancelled.
Alive == req \in {"start", "first", "collect", "respond", "send", "next"}

\* The runner may go on to generate, fails, or has ended its message.
Going == run \in {"open", "read", "recover", "tail"} \/ (run = "leave" /\ exit = "break")
Failed == run = "failed" \/ (run = "leave" /\ exit = "raise")
Complete == run = "done" \/ (run = "leave" /\ exit = "return")

\* What the types of the invariant about the lease leave out.
StreamTyped ==
    /\ status \in {"none", "error", "message", "stream"}
    /\ read \in {"none", "pending", "orphan"}
    /\ seen \in Seq(Frames) /\ sending \in Seq(Frames)
    /\ out \in Seq(Frames) /\ held \in Seq(Frames)
    /\ LedgerOK(ledger)
    /\ attempts \in 0 .. MaxAttempts /\ chunks \in 0 .. MaxChunks
    /\ committed \in BOOLEAN /\ finished \in BOOLEAN /\ gone \in BOOLEAN

\* Where frames are, depending on where everybody is.
Places ==
    /\ committed => held = <<>>
    /\ ~committed => seen = <<>> /\ sending = <<>> /\ out = <<>>
    /\ req \notin {"respond", "send"} => sending = <<>>
    /\ req \in {"start", "first", "respond"} => seen = <<>>
    /\ req \in {"respond", "send", "next"} => committed /\ status = "stream"
    /\ req \in {"respond", "send"} => run \notin {"new", "open", "recover", "tail"}
    /\ req \in {"start", "first", "collect"} => status = "none"
    /\ Alive => ~gone
    /\ run \in {"new", "open", "recover", "tail"} => out = <<>>
    /\ run \in {"new", "open"} => ~committed

\* What has been written, as long as the client may get all of it.
Underway ==
    Alive =>
    /\ run = "new" => held = <<>>
    /\ run = "leave" => exit \in {"retry", "break", "return", "raise"}
    /\ run = "leave" /\ exit = "retry" => ~committed /\ held = <<>>
    /\ Going => Whole(Transcript, ledger) /\ Active(ledger)
    /\ Failed /\ ~committed => held = <<>>
    /\ Failed /\ committed => Whole(Transcript, ledger) /\ AllClosed(ledger)
    /\ Complete => /\ committed /\ Message(Transcript) /\ Ends(Transcript)
                   /\ req \notin {"next", "send"} => Stopped(Transcript)

\* When it may not: nothing is added to what it has.
Outcome ==
    /\ Message(seen)
    /\ ~Alive /\ run = "leave" => exit = "closed"
    /\ ~Alive => out = <<>> /\ run \notin {"read", "recover", "tail", "open"}
    /\ req = "release" => status \in {"none", "error", "message"}
    /\ status \in {"none", "error"} /\ ~Alive => seen = <<>>
    /\ status = "message" => Stopped(seen) /\ ~Alive
    /\ status = "stream" /\ req \in {"finalize", "end"} /\ ~gone => Ends(seen)
    /\ req = "unwind" => gone
    /\ req = "finalize" => status = "stream"

\* The part of the inductive invariant that is about frames.
FramesInv == StreamTyped /\ Places /\ Underway /\ Outcome

-----------------------------------------------------------------------------
(* What may be written after what has been written. *)

\* The frames of one kind that c adds to w, which the order allows.
Follows(w, c) ==
    /\ \A i \in 1 .. Len(c) :
          /\ c[i].of = w[1].of /\ c[i].kind # "start" /\ c[i].kind = c[1].kind
          /\ c[i].kind \in Blank <=> c[i].block = 0
          /\ c[i].kind \in {"delta", "close"} =>
                \E j \in 1 .. Len(w) : w[j].kind = "open" /\ w[j].block = c[i].block
          /\ c[i].kind = "open" => Len(c) = 1
          /\ \A j \in 1 .. Len(w) :
                /\ c[i].kind = "open" /\ w[j].kind = "open" => w[j].block < c[i].block
                /\ c[i].kind # "open" /\ w[j].block = c[i].block => w[j].kind # "close"
    /\ \A i, j \in 1 .. Len(c) : c[i].kind = "close" /\ c[i].block = c[j].block => i = j

\* The elements of a concatenation.
LEMMA ConcatParts ==
    ASSUME NEW S, NEW w \in Seq(S), NEW c \in Seq(S)
    PROVE  /\ w \o c \in Seq(S) /\ Len(w \o c) = Len(w) + Len(c)
           /\ Len(w) \in Nat /\ Len(c) \in Nat
           /\ \A i \in 1 .. Len(w) : i \in 1 .. Len(w \o c) /\ (w \o c)[i] = w[i]
           /\ \A i \in 1 .. Len(c) :
                 Len(w) + i \in 1 .. Len(w \o c) /\ (w \o c)[Len(w) + i] = c[i]
           /\ \A i \in 1 .. Len(w \o c) :
                 \/ i \in 1 .. Len(w) /\ (w \o c)[i] = w[i]
                 \/ i > Len(w) /\ i - Len(w) \in 1 .. Len(c) /\ (w \o c)[i] = c[i - Len(w)]
  OBVIOUS

\* Frames that follow keep the order.
LEMMA FollowsKeepsOrder ==
    ASSUME NEW w \in Seq(Frames), NEW c \in Seq(Frames), w # <<>>, Ordered(w), Follows(w, c)
    PROVE  Ordered(w \o c)
  <1> DEFINE u == w \o c
             n == Len(w)
  <1>1. /\ u \in Seq(Frames) /\ Len(u) = n + Len(c)
        /\ n \in Nat /\ Len(c) \in Nat /\ n > 0
        /\ \A i \in 1 .. n : i \in 1 .. Len(u) /\ u[i] = w[i]
        /\ \A i \in 1 .. Len(u) :
              \/ i \in 1 .. n /\ u[i] = w[i]
              \/ i > n /\ i - n \in 1 .. Len(c) /\ u[i] = c[i - n]
    BY ConcatParts
  <1>2. u[1] = w[1]  BY <1>1
  <1> HIDE DEF u, n
  <1>3. ASSUME NEW i \in 1 .. Len(u)
        PROVE  /\ u[i].of = u[1].of
               /\ u[i].kind = "start" <=> i = 1
               /\ u[i].kind \in Blank <=> u[i].block = 0
               /\ u[i].kind \in {"delta", "close"} =>
                     \E j \in 1 .. i - 1 : u[j].kind = "open" /\ u[j].block = u[i].block
    <2>1. CASE i \in 1 .. n /\ u[i] = w[i]
      <3>1. /\ w[i].of = w[1].of
            /\ w[i].kind = "start" <=> i = 1
            /\ w[i].kind \in Blank <=> w[i].block = 0
            /\ w[i].kind \in {"delta", "close"} =>
                  \E j \in 1 .. i - 1 : w[j].kind = "open" /\ w[j].block = w[i].block
        BY <2>1 DEF Ordered, n
      <3>2. \A j \in 1 .. i - 1 : u[j] = w[j]  BY <1>1, <2>1
      <3> QED  BY <1>2, <2>1, <3>1, <3>2
    <2>2. CASE i > n /\ i - n \in 1 .. Len(c) /\ u[i] = c[i - n]
      <3>1. /\ c[i - n].of = w[1].of /\ c[i - n].kind # "start"
            /\ c[i - n].kind \in Blank <=> c[i - n].block = 0
            /\ c[i - n].kind \in {"delta", "close"} =>
                  \E j \in 1 .. n : w[j].kind = "open" /\ w[j].block = c[i - n].block
        BY <2>2 DEF Follows, n
      <3>2. \A j \in 1 .. n : j \in 1 .. i - 1 /\ u[j] = w[j]  BY <1>1, <2>2
      <3>3. i # 1  BY <1>1, <2>2
      <3> QED  BY <1>2, <2>2, <3>1, <3>2, <3>3
    <2> QED  BY <1>1, <2>1, <2>2
  <1>4. ASSUME NEW i \in 1 .. Len(u), NEW j \in 1 .. Len(u)
        PROVE  /\ u[i].kind = "open" /\ u[j].kind = "open" /\ u[i].block < u[j].block => i < j
               /\ u[i].block = u[j].block =>
                     /\ u[i].kind = "open" /\ u[j].kind = "open" => i = j
                     /\ u[i].kind = "delta" /\ u[j].kind = "close" => i < j
                     /\ u[i].kind = "close" /\ u[j].kind = "close" => i = j
    <2>1. CASE i \in 1 .. n /\ u[i] = w[i] /\ j \in 1 .. n /\ u[j] = w[j]
      BY <2>1 DEF Ordered, n
    <2>2. CASE i \in 1 .. n /\ u[i] = w[i] /\ j > n /\ j - n \in 1 .. Len(c) /\ u[j] = c[j - n]
      <3>1. /\ c[j - n].kind = "open" /\ w[i].kind = "open" => w[i].block < c[j - n].block
            /\ c[j - n].kind # "open" /\ w[i].block = c[j - n].block => w[i].kind # "close"
        BY <2>2 DEF Follows, n
      <3>2. w[i] \in Frames /\ c[j - n] \in Frames  BY <2>2 DEF n
      <3>3. w[i].block \in Nat /\ c[j - n].block \in Nat  BY <3>2 DEF Frames
      <3> QED  BY <2>2, <3>1, <3>3, <1>1
    <2>3. CASE i > n /\ i - n \in 1 .. Len(c) /\ u[i] = c[i - n] /\ j \in 1 .. n /\ u[j] = w[j]
      <3>1. /\ c[i - n].kind = "open" /\ w[j].kind = "open" => w[j].block < c[i - n].block
            /\ c[i - n].kind # "open" /\ w[j].block = c[i - n].block => w[j].kind # "close"
        BY <2>3 DEF Follows, n
      <3>2. w[j] \in Frames /\ c[i - n] \in Frames  BY <2>3 DEF n
      <3>3. w[j].block \in Nat /\ c[i - n].block \in Nat  BY <3>2 DEF Frames
      <3> QED  BY SMTT(30), <2>3, <3>1, <3>3, <1>1
    <2>4. CASE /\ i > n /\ i - n \in 1 .. Len(c) /\ u[i] = c[i - n]
               /\ j > n /\ j - n \in 1 .. Len(c) /\ u[j] = c[j - n]
      <3>0. PICK x \in 1 .. Len(c), y \in 1 .. Len(c) :
              x = i - n /\ y = j - n /\ u[i] = c[x] /\ u[j] = c[y]
        BY <2>4
      <3>1. c[x].kind = c[1].kind /\ c[y].kind = c[1].kind  BY DEF Follows
      <3>2. c[x].kind = "open" => Len(c) = 1  BY DEF Follows
      <3>3. c[x].kind = "close" /\ c[x].block = c[y].block => x = y  BY DEF Follows
      <3>4. x = y => i = j  BY <1>1, <3>0
      <3>5. c[x].kind = "open" => x = y
        <4>1. x \in 1 .. Len(c) /\ y \in 1 .. Len(c)  BY <3>0
        <4> HIDE DEF Frames
        <4>2. Len(c) = 1 => x = y  BY <1>1, <4>1
        <4> QED  BY <3>2, <4>2
      <3>6. c[x] \in Frames /\ c[y] \in Frames  OBVIOUS
      <3>7. c[x].block \in Nat /\ c[y].block \in Nat  BY <3>6 DEF Frames
      <3> QED  BY <3>0, <3>1, <3>3, <3>4, <3>5, <3>7
    <2> QED  BY <1>1, <2>1, <2>2, <2>3, <2>4
  <1>5. Ordered(u)
    <2> SUFFICES /\ \A i \in 1 .. Len(u) :
                      /\ u[i].of = u[1].of
                      /\ u[i].kind = "start" <=> i = 1
                      /\ u[i].kind \in Blank <=> u[i].block = 0
                      /\ u[i].kind \in {"delta", "close"} =>
                            \E j \in 1 .. i - 1 : u[j].kind = "open" /\ u[j].block = u[i].block
                 /\ \A i, j \in 1 .. Len(u) :
                      /\ u[i].kind = "open" /\ u[j].kind = "open" /\ u[i].block < u[j].block
                            => i < j
                      /\ u[i].block = u[j].block =>
                            /\ u[i].kind = "open" /\ u[j].kind = "open" => i = j
                            /\ u[i].kind = "delta" /\ u[j].kind = "close" => i < j
                            /\ u[i].kind = "close" /\ u[j].kind = "close" => i = j
      BY DEF Ordered
    <2> QED  BY <1>3, <1>4
  <1> QED  BY <1>5 DEF u

\* Whatever follows, what comes before it is a message.
LEMMA PrefixMessage ==
    ASSUME NEW p \in Seq(Frames), NEW q \in Seq(Frames), Message(p \o q)
    PROVE  Message(p)
  <1> DEFINE u == p \o q
             n == Len(p)
  <1>1. /\ u \in Seq(Frames) /\ Len(u) = n + Len(q) /\ n \in Nat /\ Len(q) \in Nat
        /\ \A i \in 1 .. n : i \in 1 .. Len(u) /\ u[i] = p[i]
    BY ConcatParts
  <1>2. Ordered(u)  BY DEF Message
  <1>3. \A i \in 1 .. Len(u) : u[i].kind \in Last =>
          /\ i = Len(u)
          /\ \A j \in 1 .. Len(u) : u[j].kind = "open" =>
                \E k \in 1 .. Len(u) : u[k].kind = "close" /\ u[k].block = u[j].block
    BY DEF Message
  <1>4. q = <<>> => u = p  OBVIOUS
  <1> HIDE DEF u, n
  <1>5. Ordered(p)
    <2>1. ASSUME NEW i \in 1 .. n
          PROVE  /\ p[i].of = p[1].of
                 /\ p[i].kind = "start" <=> i = 1
                 /\ p[i].kind \in Blank <=> p[i].block = 0
                 /\ p[i].kind \in {"delta", "close"} =>
                       \E j \in 1 .. i - 1 : p[j].kind = "open" /\ p[j].block = p[i].block
      <3>1. /\ u[i].of = u[1].of
            /\ u[i].kind = "start" <=> i = 1
            /\ u[i].kind \in Blank <=> u[i].block = 0
            /\ u[i].kind \in {"delta", "close"} =>
                  \E j \in 1 .. i - 1 : u[j].kind = "open" /\ u[j].block = u[i].block
        BY <1>1, <1>2 DEF Ordered
      <3>2. u[i] = p[i] /\ u[1] = p[1] /\ \A j \in 1 .. i - 1 : u[j] = p[j]  BY <1>1
      <3> QED  BY <3>1, <3>2
    <2>2. ASSUME NEW i \in 1 .. n, NEW j \in 1 .. n
          PROVE  /\ p[i].kind = "open" /\ p[j].kind = "open" /\ p[i].block < p[j].block => i < j
                 /\ p[i].block = p[j].block =>
                       /\ p[i].kind = "open" /\ p[j].kind = "open" => i = j
                       /\ p[i].kind = "delta" /\ p[j].kind = "close" => i < j
                       /\ p[i].kind = "close" /\ p[j].kind = "close" => i = j
      <3>1. u[i] = p[i] /\ u[j] = p[j] /\ i \in 1 .. Len(u) /\ j \in 1 .. Len(u)  BY <1>1
      <3> QED  BY <1>2, <3>1 DEF Ordered
    <2> QED  BY <2>1, <2>2 DEF Ordered, n
  <1>6. ASSUME NEW i \in 1 .. n, p[i].kind \in Last
        PROVE  /\ i = n
               /\ \A j \in 1 .. n : p[j].kind = "open" =>
                     \E k \in 1 .. n : p[k].kind = "close" /\ p[k].block = p[j].block
    <2>1. i \in 1 .. Len(u) /\ u[i].kind \in Last  BY <1>1, <1>6
    <2>2. i = Len(u)  BY <1>3, <2>1
    <2>3. Len(q) = 0 /\ q = <<>>  BY <1>1, <2>2
    <2>4. u = p /\ n = Len(u)  BY <1>1, <1>4, <2>3
    <2> QED  BY <1>3, <2>1, <2>2, <2>4
  <1> QED  BY <1>5, <1>6 DEF Message, n

\* A message goes on when its frames and its ledger do.
LEMMA WholeGrows ==
    ASSUME NEW w, NEW c \in Seq(Frames), NEW l, NEW l2,
           Whole(w, l), Follows(w, c), LedgerOK(l), LedgerOK(l2),
           l2.of = l.of, Len(l.blocks) <= Len(l2.blocks),
           \A i \in 1 .. Len(c) :
              c[i].kind \notin Last /\ c[i].block \in 0 .. Len(l2.blocks),
           \A b \in 1 .. Len(l2.blocks) :
              /\ \/ b \in 1 .. Len(l.blocks)
                 \/ \E i \in 1 .. Len(c) : c[i].kind = "open" /\ c[i].block = b
              /\ l2.blocks[b].open <=>
                    /\ b \in 1 .. Len(l.blocks) => l.blocks[b].open
                    /\ \A i \in 1 .. Len(c) : ~(c[i].kind = "close" /\ c[i].block = b)
    PROVE  Whole(w \o c, l2)
  <1> DEFINE u == w \o c
             n == Len(w)
  <1>0. w \in Seq(Frames) /\ w # <<>> /\ Ordered(w)  BY DEF Whole
  <1>1. /\ u \in Seq(Frames) /\ Len(u) = n + Len(c)
        /\ n \in Nat /\ Len(c) \in Nat
        /\ \A i \in 1 .. n : i \in 1 .. Len(u) /\ u[i] = w[i]
        /\ \A i \in 1 .. Len(c) : n + i \in 1 .. Len(u) /\ u[n + i] = c[i]
        /\ \A i \in 1 .. Len(u) :
              \/ i \in 1 .. n /\ u[i] = w[i]
              \/ i > n /\ i - n \in 1 .. Len(c) /\ u[i] = c[i - n]
    BY <1>0, ConcatParts
  <1>2. Ordered(u)  BY <1>0, FollowsKeepsOrder
  <1>3. u # <<>>  BY <1>0
  <1> HIDE DEF u
  <1>4. Len(l.blocks) \in Nat /\ Len(l2.blocks) \in Nat
    <2>1. l.blocks \in Seq(Block) /\ l2.blocks \in Seq(Block)  BY DEF LedgerOK
    <2> QED  BY <2>1
  <1>5. /\ \A i \in 1 .. n : /\ w[i].of = l.of /\ w[i].kind \notin Last
                             /\ w[i].block \in 0 .. Len(l.blocks)
        /\ \A b \in 1 .. Len(l.blocks) :
              /\ \E i \in 1 .. n : w[i].kind = "open" /\ w[i].block = b
              /\ l.blocks[b].open <=> \A i \in 1 .. n : ~(w[i].kind = "close" /\ w[i].block = b)
    BY DEF Whole
  <1>6. w[1].of = l.of /\ \A i \in 1 .. Len(c) : c[i].of = w[1].of
    <2>1. n > 0  BY <1>0
    <2> QED  BY <1>1, <1>5, <2>1 DEF Follows
  <1> HIDE DEF n
  <1>7. ASSUME NEW i \in 1 .. Len(u)
        PROVE  u[i].of = l2.of /\ u[i].kind \notin Last /\ u[i].block \in 0 .. Len(l2.blocks)
    <2>1. CASE i \in 1 .. n /\ u[i] = w[i]
      <3>1. w[i].of = l.of /\ w[i].kind \notin Last /\ w[i].block \in 0 .. Len(l.blocks)
        BY <1>5, <2>1
      <3> QED  BY <1>4, <2>1, <3>1
    <2>2. CASE i - n \in 1 .. Len(c) /\ u[i] = c[i - n]  BY <1>6, <2>2
    <2> QED  BY <1>1, <2>1, <2>2
  <1>8. ASSUME NEW b \in 1 .. Len(l2.blocks)
        PROVE  /\ \E i \in 1 .. Len(u) : u[i].kind = "open" /\ u[i].block = b
               /\ l2.blocks[b].open <=>
                     \A i \in 1 .. Len(u) : ~(u[i].kind = "close" /\ u[i].block = b)
    <2>1. (\A i \in 1 .. Len(u) : ~(u[i].kind = "close" /\ u[i].block = b))
            <=> /\ \A i \in 1 .. n : ~(w[i].kind = "close" /\ w[i].block = b)
                /\ \A i \in 1 .. Len(c) : ~(c[i].kind = "close" /\ c[i].block = b)
      <3> DEFINE Closes(f) == f.kind = "close" /\ f.block = b
      <3> SUFFICES (\A i \in 1 .. Len(u) : ~Closes(u[i]))
                      <=> /\ \A i \in 1 .. n : ~Closes(w[i])
                          /\ \A i \in 1 .. Len(c) : ~Closes(c[i])
        OBVIOUS
      <3> HIDE DEF Closes
      <3>1. ASSUME \A i \in 1 .. Len(u) : ~Closes(u[i])
            PROVE  /\ \A i \in 1 .. n : ~Closes(w[i])
                   /\ \A i \in 1 .. Len(c) : ~Closes(c[i])
        <4>1. ASSUME NEW i \in 1 .. n PROVE ~Closes(w[i])
          <5>1. i \in 1 .. Len(u) /\ u[i] = w[i]  BY <1>1
          <5> QED  BY <3>1, <5>1
        <4>2. ASSUME NEW i \in 1 .. Len(c) PROVE ~Closes(c[i])
          <5>1. n + i \in 1 .. Len(u) /\ u[n + i] = c[i]  BY <1>1
          <5> QED  BY <3>1, <5>1
        <4> QED  BY <4>1, <4>2
      <3>2. ASSUME /\ \A i \in 1 .. n : ~Closes(w[i])
                   /\ \A i \in 1 .. Len(c) : ~Closes(c[i]),
                   NEW i \in 1 .. Len(u)
            PROVE  ~Closes(u[i])
        <4>1. CASE i \in 1 .. n /\ u[i] = w[i]  BY <3>2, <4>1
        <4>2. CASE i - n \in 1 .. Len(c) /\ u[i] = c[i - n]  BY <3>2, <4>2
        <4> QED  BY <1>1, <4>1, <4>2
      <3> QED  BY <3>1, <3>2
    <2>2. CASE b \in 1 .. Len(l.blocks)
      <3>1. PICK i \in 1 .. n : w[i].kind = "open" /\ w[i].block = b  BY <1>5, <2>2
      <3>2. i \in 1 .. Len(u) /\ u[i] = w[i]  BY <1>1
      <3> QED  BY <1>5, <2>1, <2>2, <3>1, <3>2
    <2>3. CASE b \notin 1 .. Len(l.blocks)
      <3>1. PICK i \in 1 .. Len(c) : c[i].kind = "open" /\ c[i].block = b  BY <2>3
      <3>2. n + i \in 1 .. Len(u) /\ u[n + i] = c[i]  BY <1>1
      <3>3. \A j \in 1 .. n : w[j].block # b  BY <1>4, <1>5, <2>3
      <3> QED  BY SMTT(30), <2>1, <2>3, <3>1, <3>2, <3>3
    <2> QED  BY <2>2, <2>3
  <1> QED  BY <1>1, <1>2, <1>3, <1>7, <1>8 DEF Whole, u

\* x is what a step writes after w: its frames, and the ledger after them.
Grown(w, x) ==
    /\ x.frames \in Seq(Frames) /\ LedgerOK(x.ledger) /\ Whole(w \o x.frames, x.ledger)

\* What is written in two parts.
LEMMA ThenGrows ==
    ASSUME NEW w \in Seq(Frames), NEW x, NEW y, Grown(w, x), Grown(w \o x.frames, y)
    PROVE  Grown(w, Then(x, y))
  <1>1. x.frames \in Seq(Frames) /\ y.frames \in Seq(Frames)  BY DEF Grown
  <1>2. (w \o x.frames) \o y.frames = w \o (x.frames \o y.frames)
    <2>1. \A s, t \in Seq(Frames) : (w \o s) \o t = w \o (s \o t)  BY ConcatAssociative
    <2> QED  BY <1>1, <2>1
  <1>3. /\ Then(x, y).frames = x.frames \o y.frames
        /\ Then(x, y).ledger = y.ledger
    BY DEF Then, Written
  <1>4. x.frames \o y.frames \in Seq(Frames)  BY <1>1
  <1> QED  BY <1>2, <1>3, <1>4 DEF Grown

\* Nothing need be written.
LEMMA NothingGrows ==
    ASSUME NEW w, NEW l, Whole(w, l), LedgerOK(l)
    PROVE  Grown(w, Written(l, <<>>))
  <1>1. w \in Seq(Frames)  BY DEF Whole
  <1>2. w \o <<>> = w /\ <<>> \in Seq(Frames)  BY <1>1
  <1> QED  BY <1>2 DEF Grown, Written

\* Blocks that are open can be closed.
LEMMA CloseGrows ==
    ASSUME NEW w, NEW l, Whole(w, l), LedgerOK(l), NEW blocks,
           blocks \subseteq {b \in 1 .. Len(l.blocks) : l.blocks[b].open}
    PROVE  /\ Grown(w, Close(l, blocks))
           /\ Len(Close(l, blocks).ledger.blocks) = Len(l.blocks)
           /\ \A b \in 1 .. Len(l.blocks) :
                 Close(l, blocks).ledger.blocks[b] =
                    IF b \in blocks THEN [l.blocks[b] EXCEPT !.open = FALSE] ELSE l.blocks[b]
  <1> DEFINE N == Len(l.blocks)
             order == InOrder(blocks, N)
             c == [i \in 1 .. Len(order) |-> Frame("close", order[i], l)]
             after == [b \in 1 .. N |->
                         IF b \in blocks THEN [l.blocks[b] EXCEPT !.open = FALSE] ELSE l.blocks[b]]
             l2 == [l EXCEPT !.blocks = after]
  <1>1. l \in [of : Nat, blocks : Seq(Block)] /\ l.blocks \in Seq(Block) /\ N \in Nat
    <2>1. l \in [of : Nat, blocks : Seq(Block)]  BY DEF LedgerOK
    <2>2. l.blocks \in Seq(Block)  BY <2>1
    <2> QED  BY <2>1, <2>2
  <1>2. DOMAIN l.blocks = 1 .. N  BY <1>1
  <1>3. blocks \in SUBSET (1 .. N)  OBVIOUS
  <1>4. /\ order \in Seq(blocks)
        /\ \A b \in blocks : \E i \in 1 .. Len(order) : order[i] = b
        /\ \A i, j \in 1 .. Len(order) : order[i] = order[j] => i = j
    <2> HIDE DEF N
    <2> QED  BY <1>1, <1>3, InOrderProperties
  <1>5. DOMAIN order = 1 .. Len(order) /\ Len(order) \in Nat  BY <1>4
  <1>6. Close(l, blocks) = [ledger |-> l2, frames |-> c]  BY <1>2, <1>5 DEF Close, Written
  <1> HIDE DEF order
  <1>7. \A i \in 1 .. Len(order) : order[i] \in blocks  BY <1>4
  <1>8. /\ c \in Seq(Frames) /\ Len(c) = Len(order)
        /\ \A i \in 1 .. Len(c) : c[i].kind = "close" /\ c[i].block = order[i] /\ c[i].of = l.of
    <2>1. \A i \in 1 .. Len(order) : Frame("close", order[i], l) \in Frames
      <3> SUFFICES ASSUME NEW i \in 1 .. Len(order)
                   PROVE  Frame("close", order[i], l) \in Frames
        OBVIOUS
      <3>0. order[i] \in 1 .. N  BY <1>3, <1>7
      <3>1. order[i] \in Nat /\ l.of \in Nat  BY <1>1, <3>0
      <3> QED  BY <3>1 DEF Frame, Frames, Kinds
    <2>2. c \in Seq(Frames) /\ Len(c) = Len(order)  BY <1>5, <2>1
    <2> QED  BY <2>2 DEF Frame
  <1> HIDE DEF c
  <1>9. \A b \in 1 .. N :
           /\ l.blocks[b] \in Block /\ after[b] \in Block
           /\ after[b].kind = l.blocks[b].kind /\ after[b].tool = l.blocks[b].tool
           /\ after[b].whole = l.blocks[b].whole
           /\ after[b].open = (l.blocks[b].open /\ b \notin blocks)
    <2> SUFFICES ASSUME NEW b \in 1 .. N
                 PROVE  /\ l.blocks[b] \in Block /\ after[b] \in Block
                        /\ after[b].kind = l.blocks[b].kind /\ after[b].tool = l.blocks[b].tool
                        /\ after[b].whole = l.blocks[b].whole
                        /\ after[b].open = (l.blocks[b].open /\ b \notin blocks)
      OBVIOUS
    <2>1. l.blocks[b] \in Block  BY <1>1
    <2>2. CASE b \in blocks
      <3>1. after[b] = [l.blocks[b] EXCEPT !.open = FALSE]  BY <2>2
      <3> HIDE DEF after
      <3> QED  BY ZenonT(60), <2>1, <2>2, <3>1 DEF Block
    <2>3. CASE b \notin blocks
      <3>1. after[b] = l.blocks[b]  BY <2>3
      <3> HIDE DEF after
      <3>2. l.blocks[b].open \in BOOLEAN  BY <2>1 DEF Block
      <3> QED  BY <2>1, <2>3, <3>1, <3>2
    <2> QED  BY <2>2, <2>3
  <1>10. after \in Seq(Block) /\ Len(after) = N
    <2>1. after = [b \in 1 .. N |-> after[b]]  OBVIOUS
    <2> HIDE DEF after
    <2>2. after \in [1 .. N -> Block]  BY <1>9, <2>1
    <2> QED  BY <1>1, <2>2
  <1>11. l2.blocks = after /\ l2.of = l.of /\ l2 \in [of : Nat, blocks : Seq(Block)]
    BY <1>1, <1>10
  <1> HIDE DEF l2
  <1>12. LedgerOK(l2)
    <2>1. \A b \in 1 .. N :
             /\ l.blocks[b].tool # 0 => l.blocks[b].kind = "tool"
             /\ l.blocks[b].kind = "tool" /\ l.blocks[b].tool = 0 => l.blocks[b].whole
      BY DEF LedgerOK
    <2> HIDE DEF after
    <2> QED  BY <1>9, <1>10, <1>11, <2>1 DEF LedgerOK
  <1>13. Follows(w, c)
    <2>1. /\ \A i \in 1 .. Len(w) : w[i].of = l.of
          /\ \A b \in 1 .. N :
                /\ \E i \in 1 .. Len(w) : w[i].kind = "open" /\ w[i].block = b
                /\ l.blocks[b].open
                      <=> \A i \in 1 .. Len(w) : ~(w[i].kind = "close" /\ w[i].block = b)
          /\ Len(w) \in Nat /\ Len(w) > 0
      <3> HIDE DEF after
      <3>1. w \in Seq(Frames) /\ w # <<>>  BY DEF Whole
      <3>2. Len(w) \in Nat /\ Len(w) > 0  BY <3>1
      <3>3. \A i \in 1 .. Len(w) : w[i].of = l.of  BY DEF Whole
      <3>4. \A b \in 1 .. N :
               /\ \E i \in 1 .. Len(w) : w[i].kind = "open" /\ w[i].block = b
               /\ l.blocks[b].open
                     <=> \A i \in 1 .. Len(w) : ~(w[i].kind = "close" /\ w[i].block = b)
        BY Zenon DEF Whole
      <3> QED  BY <3>2, <3>3, <3>4
    <2>2. w[1].of = l.of  BY <2>1
    <2>3. \A i \in 1 .. Len(c) :
             /\ c[i].of = w[1].of /\ c[i].kind = "close" /\ c[i].block \in 1 .. N
             /\ \E j \in 1 .. Len(w) : w[j].kind = "open" /\ w[j].block = c[i].block
             /\ \A j \in 1 .. Len(w) : w[j].block = c[i].block => w[j].kind # "close"
      <3> SUFFICES ASSUME NEW i \in 1 .. Len(c)
                   PROVE  /\ c[i].of = w[1].of /\ c[i].kind = "close" /\ c[i].block \in 1 .. N
                          /\ \E j \in 1 .. Len(w) : w[j].kind = "open" /\ w[j].block = c[i].block
                          /\ \A j \in 1 .. Len(w) : w[j].block = c[i].block => w[j].kind # "close"
        OBVIOUS
      <3>1. c[i].of = l.of /\ c[i].kind = "close" /\ c[i].block \in blocks  BY <1>7, <1>8
      <3>2. c[i].block \in 1 .. N /\ l.blocks[c[i].block].open  BY <3>1
      <3> HIDE DEF N
      <3> QED  BY <2>1, <2>2, <3>1, <3>2
    <2>4. \A i, j \in 1 .. Len(c) : c[i].block = c[j].block => i = j  BY <1>4, <1>8
    <2>5. c[1].kind = "close" \/ Len(c) = 0  BY <1>5, <1>8
    <2>6. ASSUME NEW i \in 1 .. Len(c) PROVE c[i].kind = c[1].kind
      BY <1>5, <1>8, <2>3, <2>5
    <2>7. \A i \in 1 .. Len(c) : c[i].block # 0  BY <2>3, <1>1
    <2> QED  BY <2>3, <2>4, <2>6, <2>7 DEF Follows, Blank
  <1>14. Whole(w \o c, l2)
    <2>1. \A i \in 1 .. Len(c) : c[i].kind \notin Last /\ c[i].block \in 0 .. Len(l2.blocks)
      BY <1>1, <1>3, <1>7, <1>8, <1>10, <1>11 DEF Last
    <2>2. ASSUME NEW b \in 1 .. Len(l2.blocks)
          PROVE  /\ b \in 1 .. Len(l.blocks)
                 /\ l2.blocks[b].open <=>
                       /\ b \in 1 .. Len(l.blocks) => l.blocks[b].open
                       /\ \A i \in 1 .. Len(c) : ~(c[i].kind = "close" /\ c[i].block = b)
      <3>1. b \in 1 .. N  BY <1>10, <1>11
      <3>2. b \in blocks <=> \E i \in 1 .. Len(c) : c[i].block = b  BY <1>4, <1>7, <1>8
      <3> HIDE DEF after
      <3> QED  BY <1>8, <1>9, <1>11, <3>1, <3>2
    <2>3. Len(l.blocks) <= Len(l2.blocks)  BY <1>1, <1>10, <1>11
    <2> HIDE DEF after, N
    <2> QED  BY <1>8, <1>11, <1>12, <1>13, <2>1, <2>2, <2>3, WholeGrows
  <1>15. Close(l, blocks).ledger = l2 /\ Close(l, blocks).frames = c  BY <1>6
  <1>16. Grown(w, Close(l, blocks))  BY <1>8, <1>12, <1>14, <1>15 DEF Grown
  <1>17. \A b \in 1 .. N : after[b] =
            IF b \in blocks THEN [l.blocks[b] EXCEPT !.open = FALSE] ELSE l.blocks[b]
    OBVIOUS
  <1> HIDE DEF after
  <1> QED  BY <1>10, <1>11, <1>15, <1>16, <1>17

\* Two frames, one after the other.
LEMMA PairIsConcat ==
    ASSUME NEW S, NEW a \in S, NEW b \in S
    PROVE  <<a>> \o <<b>> = <<a, b>>
  <1> DEFINE u == <<a>> \o <<b>>
             v == <<a, b>>
  <1>1. u \in Seq(S) /\ v \in Seq(S) /\ Len(u) = 2 /\ Len(v) = 2  OBVIOUS
  <1>2. u[1] = a /\ u[2] = b /\ v[1] = a /\ v[2] = b  OBVIOUS
  <1>3. \A i \in 1 .. 2 : u[i] = v[i]  BY <1>2
  <1> HIDE DEF u, v
  <1>4. u = v  BY <1>1, <1>3, SeqEqual
  <1> QED  BY <1>4 DEF u, v

\* Open blocks can be written, whatever else becomes of them.
LEMMA DeltasGrow ==
    ASSUME NEW w, NEW c \in Seq(Frames), NEW l, NEW l2,
           Whole(w, l), LedgerOK(l), LedgerOK(l2), l2.of = l.of,
           Len(l2.blocks) = Len(l.blocks),
           \A b \in 1 .. Len(l.blocks) : l2.blocks[b].open <=> l.blocks[b].open,
           \A i \in 1 .. Len(c) :
              /\ c[i].kind = "delta" /\ c[i].of = l.of
              /\ c[i].block \in 1 .. Len(l.blocks) /\ l.blocks[c[i].block].open
    PROVE  Whole(w \o c, l2)
  <1>1. /\ \A i \in 1 .. Len(w) : w[i].of = l.of
        /\ \A b \in 1 .. Len(l.blocks) :
              /\ \E i \in 1 .. Len(w) : w[i].kind = "open" /\ w[i].block = b
              /\ l.blocks[b].open
                    <=> \A i \in 1 .. Len(w) : ~(w[i].kind = "close" /\ w[i].block = b)
        /\ Len(w) \in Nat /\ Len(w) > 0
    BY DEF Whole
  <1>2. w[1].of = l.of  BY <1>1
  <1>3. Len(l.blocks) \in Nat /\ Len(c) \in Nat
    <2>1. l.blocks \in Seq(Block)  BY DEF LedgerOK
    <2> QED  BY <2>1
  <1>4. ASSUME NEW i \in 1 .. Len(c)
        PROVE  /\ c[i].of = w[1].of /\ c[i].kind = "delta" /\ c[1].kind = "delta"
               /\ c[i].block # 0
               /\ \E j \in 1 .. Len(w) : w[j].kind = "open" /\ w[j].block = c[i].block
               /\ \A j \in 1 .. Len(w) : w[j].block = c[i].block => w[j].kind # "close"
    <2>1. 1 \in 1 .. Len(c)  BY <1>3
    <2>2. c[i].block \in 1 .. Len(l.blocks) /\ l.blocks[c[i].block].open  OBVIOUS
    <2>3. \E j \in 1 .. Len(w) : w[j].kind = "open" /\ w[j].block = c[i].block
      BY <1>1, <2>2
    <2>4. \A j \in 1 .. Len(w) : w[j].block = c[i].block => w[j].kind # "close"
      BY <1>1, <2>2
    <2>5. c[i].of = w[1].of /\ c[i].kind = "delta" /\ c[1].kind = "delta"  BY <1>2, <2>1
    <2> QED  BY <1>3, <2>2, <2>3, <2>4, <2>5
  <1>5. Follows(w, c)  BY SMTT(30), <1>4 DEF Follows, Blank
  <1>6. \A i \in 1 .. Len(c) : c[i].kind \notin Last /\ c[i].block \in 0 .. Len(l2.blocks)
    BY <1>3 DEF Last
  <1>7. ASSUME NEW b \in 1 .. Len(l2.blocks)
        PROVE  /\ b \in 1 .. Len(l.blocks)
               /\ l2.blocks[b].open <=>
                     /\ b \in 1 .. Len(l.blocks) => l.blocks[b].open
                     /\ \A i \in 1 .. Len(c) : ~(c[i].kind = "close" /\ c[i].block = b)
    OBVIOUS
  <1> QED  BY <1>3, <1>5, <1>6, <1>7, WholeGrows

\* The next block can be opened.
LEMMA OpenGrows ==
    ASSUME NEW w, NEW l, NEW l2,
           Whole(w, l), LedgerOK(l), LedgerOK(l2), l2.of = l.of,
           Len(l2.blocks) = Len(l.blocks) + 1,
           \A b \in 1 .. Len(l.blocks) : l2.blocks[b].open <=> l.blocks[b].open,
           l2.blocks[Len(l.blocks) + 1].open
    PROVE  Whole(w \o <<Frame("open", Len(l.blocks) + 1, l)>>, l2)
  <1> DEFINE N == Len(l.blocks)
             c == <<Frame("open", N + 1, l)>>
  <1>1. /\ \A i \in 1 .. Len(w) : w[i].of = l.of /\ w[i].block \in 0 .. N
        /\ Len(w) \in Nat /\ Len(w) > 0
    BY DEF Whole
  <1>2. w[1].of = l.of  BY <1>1
  <1>3. N \in Nat /\ l.of \in Nat
    <2>1. l.blocks \in Seq(Block) /\ l.of \in Nat  BY DEF LedgerOK
    <2> QED  BY <2>1
  <1>4. /\ c \in Seq(Frames) /\ Len(c) = 1
        /\ c[1].kind = "open" /\ c[1].block = N + 1 /\ c[1].of = l.of
    <2>1. Frame("open", N + 1, l) \in Frames  BY <1>3 DEF Frame, Frames, Kinds
    <2> QED  BY <2>1 DEF Frame
  <1> HIDE DEF c
  <1>5. ASSUME NEW i \in 1 .. Len(c)
        PROVE  /\ i = 1 /\ c[i].of = w[1].of /\ c[i].kind = "open" /\ c[i].block # 0
               /\ \A j \in 1 .. Len(w) : w[j].block < c[i].block
    <2>1. i = 1  BY <1>4
    <2> QED  BY <1>1, <1>2, <1>3, <1>4, <2>1
  <1>6. Follows(w, c)  BY <1>4, <1>5 DEF Follows, Blank
  <1>7. \A i \in 1 .. Len(c) : c[i].kind \notin Last /\ c[i].block \in 0 .. Len(l2.blocks)
    BY <1>3, <1>4, <1>5 DEF Last
  <1>8. ASSUME NEW b \in 1 .. Len(l2.blocks)
        PROVE  /\ \/ b \in 1 .. Len(l.blocks)
                  \/ \E i \in 1 .. Len(c) : c[i].kind = "open" /\ c[i].block = b
               /\ l2.blocks[b].open <=>
                     /\ b \in 1 .. Len(l.blocks) => l.blocks[b].open
                     /\ \A i \in 1 .. Len(c) : ~(c[i].kind = "close" /\ c[i].block = b)
    <2>1. b \in 1 .. N \/ b = N + 1  BY <1>3
    <2>2. b = N + 1 => b \notin 1 .. N  BY <1>3
    <2>3. \A i \in 1 .. Len(c) : c[i].kind # "close"  BY <1>5
    <2>4. 1 \in 1 .. Len(c)  BY <1>4
    <2> QED  BY <1>4, <2>1, <2>2, <2>3, <2>4
  <1>9. Whole(w \o c, l2)
    <2>1. Len(l.blocks) <= Len(l2.blocks)  BY <1>3
    <2> HIDE DEF N
    <2> QED  BY <1>4, <1>6, <1>7, <1>8, <2>1, WholeGrows
  <1> QED  BY <1>9 DEF c

\* What a delta may be of: the next block, or one that is open.
Admits(l, b, kind, tool, whole) ==
    /\ \/ b = Len(l.blocks) + 1
       \/ b \in 1 .. Len(l.blocks) /\ l.blocks[b].open
    /\ kind \in Content \cup {"tool"} /\ tool \in Tools \cup {0} /\ whole \in BOOLEAN
    /\ tool # 0 => kind = "tool"
    /\ kind = "tool" /\ tool = 0 => whole

\* A delta opens its block if that is new.
LEMMA DeltaGrows ==
    ASSUME NEW w, NEW l, Whole(w, l), LedgerOK(l),
           NEW b, NEW kind, NEW tool, NEW whole, Admits(l, b, kind, tool, whole)
    PROVE  LET d == Delta(l, b, kind, tool, whole) IN
           /\ Grown(w, d)
           /\ b \in 1 .. Len(d.ledger.blocks)
           /\ \A a \in 1 .. Len(d.ledger.blocks) :
                 \/ a = b /\ d.ledger.blocks[a] =
                        [kind |-> kind, tool |-> tool, open |-> TRUE, whole |-> whole]
                 \/ a # b /\ a \in 1 .. Len(l.blocks) /\ d.ledger.blocks[a] = l.blocks[a]
  <1> DEFINE N == Len(l.blocks)
             d == Delta(l, b, kind, tool, whole)
             block == [kind |-> kind, tool |-> tool, open |-> TRUE, whole |-> whole]
             last == Frame("delta", b, l)
  <1>1. l \in [of : Nat, blocks : Seq(Block)] /\ l.blocks \in Seq(Block) /\ l.of \in Nat
    BY DEF LedgerOK
  <1>2. N \in Nat /\ DOMAIN l.blocks = 1 .. N  BY <1>1
  <1>3. block \in Block  BY DEF Admits, Block
  <1>4. \A a \in 1 .. N :
           /\ l.blocks[a].tool # 0 => l.blocks[a].kind = "tool"
           /\ l.blocks[a].kind = "tool" /\ l.blocks[a].tool = 0 => l.blocks[a].whole
    BY DEF LedgerOK
  <1>5. /\ block.kind = kind /\ block.tool = tool /\ block.open /\ block.whole = whole
    OBVIOUS
  <1> HIDE DEF block
  <1>6. /\ tool # 0 => kind = "tool"
        /\ kind = "tool" /\ tool = 0 => whole
    BY DEF Admits
  <1>7. w \in Seq(Frames)  BY DEF Whole
  <1>8. CASE b = N + 1
    <2> DEFINE after == Append(l.blocks, block)
               l2 == [l EXCEPT !.blocks = after]
               first == Frame("open", b, l)
    <2>1. b \notin DOMAIN l.blocks  BY <1>2, <1>8
    <2>2. d = [ledger |-> l2, frames |-> <<first, last>>]
      BY <2>1 DEF Delta, Written, block
    <2>3. /\ after \in Seq(Block) /\ Len(after) = N + 1 /\ after[N + 1] = block
          /\ \A a \in 1 .. N : after[a] = l.blocks[a]
      BY <1>1, <1>2, <1>3
    <2>4. l2.blocks = after /\ l2.of = l.of /\ l2 \in [of : Nat, blocks : Seq(Block)]
      BY <1>1, <2>3
    <2> HIDE DEF after, l2
    <2>5. \A a \in 1 .. N + 1 : a = N + 1 \/ a \in 1 .. N  BY <1>2
    <2>6. LedgerOK(l2)  BY <1>4, <1>5, <1>6, <2>3, <2>4, <2>5 DEF LedgerOK
    <2>7. Whole(w \o <<first>>, l2)
      BY <1>2, <1>5, <1>8, <2>3, <2>4, <2>6, OpenGrows
    <2>8. first \in Frames /\ last \in Frames  BY <1>1, <1>2, <1>8 DEF Frame, Frames, Kinds
    <2>9. Whole((w \o <<first>>) \o <<last>>, l2)
      <3>1. <<last>> \in Seq(Frames) /\ Len(<<last>>) = 1 /\ <<last>>[1] = last  BY <2>8
      <3>2. last.kind = "delta" /\ last.of = l2.of /\ last.block = N + 1
        BY <1>8, <2>4 DEF Frame
      <3>3. N + 1 \in 1 .. Len(l2.blocks) /\ l2.blocks[N + 1].open  BY <1>2, <1>5, <2>3, <2>4
      <3> DEFINE c == <<last>>
      <3>4. \A i \in 1 .. Len(c) :
               /\ c[i].kind = "delta" /\ c[i].of = l2.of
               /\ c[i].block \in 1 .. Len(l2.blocks) /\ l2.blocks[c[i].block].open
        <4>1. \A i \in 1 .. Len(c) : c[i] = last  BY <3>1
        <4> HIDE DEF c, last
        <4> QED  BY <3>2, <3>3, <4>1
      <3>5. c \in Seq(Frames)  BY <3>1
      <3> HIDE DEF c
      <3>6. Whole((w \o <<first>>) \o c, l2)  BY <2>6, <2>7, <3>4, <3>5, DeltasGrow
      <3> QED  BY <3>6 DEF c
    <2>10. (w \o <<first>>) \o <<last>> = w \o <<first, last>>
      <3>1. \A s, t \in Seq(Frames) : (w \o s) \o t = w \o (s \o t)
        BY <1>7, ConcatAssociative
      <3>2. <<first>> \in Seq(Frames) /\ <<last>> \in Seq(Frames)  BY <2>8
      <3>3. <<first>> \o <<last>> = <<first, last>>  BY <2>8, PairIsConcat
      <3> QED  BY <3>1, <3>2, <3>3
    <2>11. <<first, last>> \in Seq(Frames)  BY <2>8
    <2>12. d.ledger = l2 /\ d.frames = <<first, last>>  BY <2>2
    <2>13. Grown(w, d)  BY <2>6, <2>9, <2>10, <2>11, <2>12 DEF Grown
    <2> HIDE DEF d
    <2>14. b \in 1 .. Len(d.ledger.blocks)  BY <1>2, <1>8, <2>3, <2>4, <2>12
    <2>15. \A a \in 1 .. Len(d.ledger.blocks) :
              \/ a = b /\ d.ledger.blocks[a] = block
              \/ a # b /\ a \in 1 .. N /\ d.ledger.blocks[a] = l.blocks[a]
      BY <1>2, <1>8, <2>3, <2>4, <2>5, <2>12
    <2> QED  BY <2>13, <2>14, <2>15 DEF d, block
  <1>9. CASE b \in 1 .. N /\ l.blocks[b].open
    <2> DEFINE after == [l.blocks EXCEPT ![b] = block]
               l2 == [l EXCEPT !.blocks = after]
    <2>2. d = [ledger |-> l2, frames |-> <<last>>]
      BY <1>2, <1>9 DEF Delta, Written, block
    <2>3. /\ after \in Seq(Block) /\ Len(after) = N /\ after[b] = block
          /\ \A a \in 1 .. N : a # b => after[a] = l.blocks[a]
      BY <1>1, <1>2, <1>3, <1>9
    <2>4. l2.blocks = after /\ l2.of = l.of /\ l2 \in [of : Nat, blocks : Seq(Block)]
      BY <1>1, <2>3
    <2> HIDE DEF after, l2
    <2>6. LedgerOK(l2)  BY <1>4, <1>5, <1>6, <2>3, <2>4 DEF LedgerOK
    <2>8. last \in Frames  BY <1>1, <1>2, <1>9 DEF Frame, Frames, Kinds
    <2>9. Whole(w \o <<last>>, l2)
      <3>1. <<last>> \in Seq(Frames) /\ Len(<<last>>) = 1 /\ <<last>>[1] = last  BY <2>8
      <3>2. last.kind = "delta" /\ last.of = l.of /\ last.block = b  BY DEF Frame
      <3> DEFINE c == <<last>>
      <3>4. \A i \in 1 .. Len(c) :
               /\ c[i].kind = "delta" /\ c[i].of = l.of
               /\ c[i].block \in 1 .. N /\ l.blocks[c[i].block].open
        <4>1. \A i \in 1 .. Len(c) : c[i] = last  BY <3>1
        <4> HIDE DEF c, last
        <4> QED  BY <1>9, <3>2, <4>1
      <3>5. c \in Seq(Frames)  BY <3>1
      <3> HIDE DEF c
      <3>6. \A a \in 1 .. N : l2.blocks[a].open <=> l.blocks[a].open
        BY <1>5, <1>9, <2>3, <2>4
      <3>7. Whole(w \o c, l2)  BY <2>3, <2>4, <2>6, <3>4, <3>5, <3>6, DeltasGrow
      <3> QED  BY <3>7 DEF c
    <2>11. <<last>> \in Seq(Frames)  BY <2>8
    <2>12. d.ledger = l2 /\ d.frames = <<last>>  BY <2>2
    <2>13. Grown(w, d)  BY <2>6, <2>9, <2>11, <2>12 DEF Grown
    <2> HIDE DEF d
    <2>14. b \in 1 .. Len(d.ledger.blocks)  BY <1>9, <2>3, <2>4, <2>12
    <2>15. \A a \in 1 .. Len(d.ledger.blocks) :
              \/ a = b /\ d.ledger.blocks[a] = block
              \/ a # b /\ a \in 1 .. N /\ d.ledger.blocks[a] = l.blocks[a]
      BY <2>3, <2>4, <2>12
    <2> QED  BY <2>13, <2>14, <2>15 DEF d, block
  <1> QED  BY <1>8, <1>9 DEF Admits

-----------------------------------------------------------------------------
(* What the runner writes. *)

\* x goes on with a message whose tool calls can still go on.
Extends(w, x) == Grown(w, x) /\ Active(x.ledger)

\* The blocks of a ledger.
LEMMA LedgerBlocks ==
    ASSUME NEW l, LedgerOK(l)
    PROVE  /\ l.blocks \in Seq(Block) /\ Len(l.blocks) \in Nat
           /\ DOMAIN l.blocks = 1 .. Len(l.blocks)
           /\ \A b \in 1 .. Len(l.blocks) :
                 /\ l.blocks[b] \in Block
                 /\ l.blocks[b].tool # 0 => l.blocks[b].kind = "tool"
                 /\ l.blocks[b].kind = "tool" /\ l.blocks[b].tool = 0 => l.blocks[b].whole
  <1>1. l.blocks \in Seq(Block)  BY DEF LedgerOK
  <1>2. \A b \in 1 .. Len(l.blocks) :
           /\ l.blocks[b].tool # 0 => l.blocks[b].kind = "tool"
           /\ l.blocks[b].kind = "tool" /\ l.blocks[b].tool = 0 => l.blocks[b].whole
    BY DEF LedgerOK
  <1>3. /\ Len(l.blocks) \in Nat /\ DOMAIN l.blocks = 1 .. Len(l.blocks)
        /\ \A b \in 1 .. Len(l.blocks) : l.blocks[b] \in Block
    BY <1>1
  <1> QED  BY <1>1, <1>2, <1>3

\* Closing content leaves tool calls as they are.
LEMMA CloseContentExtends ==
    ASSUME NEW w, NEW l, Whole(w, l), LedgerOK(l), Active(l), NEW kinds \in SUBSET Content
    PROVE  LET c == Close(l, Open(l, kinds)) IN
           /\ Extends(w, c)
           /\ Len(c.ledger.blocks) = Len(l.blocks)
           /\ \A b \in 1 .. Len(l.blocks) :
                 l.blocks[b].kind \notin kinds => c.ledger.blocks[b] = l.blocks[b]
  <1> DEFINE blocks == Open(l, kinds)
             c == Close(l, blocks)
  <1>1. blocks \subseteq {b \in 1 .. Len(l.blocks) : l.blocks[b].open}
    BY LedgerBlocks DEF Open
  <1>2. /\ Grown(w, c) /\ Len(c.ledger.blocks) = Len(l.blocks)
        /\ \A b \in 1 .. Len(l.blocks) : b \notin blocks => c.ledger.blocks[b] = l.blocks[b]
        /\ \A b \in 1 .. Len(l.blocks) : b \in blocks =>
              c.ledger.blocks[b] = [l.blocks[b] EXCEPT !.open = FALSE]
    <2>1. LET x == Close(l, blocks) IN
          /\ Grown(w, x) /\ Len(x.ledger.blocks) = Len(l.blocks)
          /\ \A b \in 1 .. Len(l.blocks) : x.ledger.blocks[b] =
                IF b \in blocks THEN [l.blocks[b] EXCEPT !.open = FALSE] ELSE l.blocks[b]
      <3> HIDE DEF blocks
      <3> QED  BY <1>1, CloseGrows
    <2> HIDE DEF blocks
    <2> QED  BY <2>1
  <1>3. \A b \in 1 .. Len(l.blocks) : l.blocks[b].kind \notin kinds => b \notin blocks
    BY DEF Open
  <1>4. \A b \in blocks : l.blocks[b].kind \in kinds  BY DEF Open
  <1> HIDE DEF blocks, c
  <1>5. Active(c.ledger)
    <2> SUFFICES ASSUME NEW b \in 1 .. Len(l.blocks), c.ledger.blocks[b].tool # 0
                 PROVE  c.ledger.blocks[b].open
      BY <1>2 DEF Active
    <2>1. l.blocks[b] \in Block  BY LedgerBlocks
    <2>2. CASE b \in blocks
      <3>1. c.ledger.blocks[b].tool = l.blocks[b].tool  BY <1>2, <2>1, <2>2 DEF Block
      <3>2. l.blocks[b].kind = "tool"  BY <3>1, LedgerBlocks
      <3> QED  BY <1>4, <2>2, <3>2, ContentAssumption
    <2>3. CASE b \notin blocks  BY <1>2, <2>3 DEF Active
    <2> QED  BY <2>2, <2>3
  <1> QED  BY <1>2, <1>3, <1>5 DEF Extends, c, blocks

\* x leaves block b open, for a tool call or for none.
IsOpen(x, b, tool) ==
    b \in 1 .. Len(x.ledger.blocks) /\ x.ledger.blocks[b].open /\ x.ledger.blocks[b].tool = tool

\* A delta of an active tool call, or of a block that is not one.
LEMMA DeltaExtends ==
    ASSUME NEW w \in Seq(Frames), NEW c, Extends(w, c),
           NEW b, NEW kind, NEW tool, NEW whole, Admits(c.ledger, b, kind, tool, whole)
    PROVE  /\ Extends(w, Then(c, Delta(c.ledger, b, kind, tool, whole)))
           /\ IsOpen(Then(c, Delta(c.ledger, b, kind, tool, whole)), b, tool)
  <1> DEFINE d == Delta(c.ledger, b, kind, tool, whole)
  <1>1. c.frames \in Seq(Frames) /\ Whole(w \o c.frames, c.ledger) /\ LedgerOK(c.ledger)
    BY DEF Extends, Grown
  <1>2. /\ Grown(w \o c.frames, d) /\ b \in 1 .. Len(d.ledger.blocks)
        /\ d.ledger.blocks[b] = [kind |-> kind, tool |-> tool, open |-> TRUE, whole |-> whole]
        /\ \A a \in 1 .. Len(d.ledger.blocks) :
              \/ d.ledger.blocks[a] = [kind |-> kind, tool |-> tool, open |-> TRUE, whole |-> whole]
              \/ a \in 1 .. Len(c.ledger.blocks) /\ d.ledger.blocks[a] = c.ledger.blocks[a]
    BY SMTT(30), <1>1, DeltaGrows
  <1> HIDE DEF d
  <1>3. Active(d.ledger)  BY SMTT(30), <1>2 DEF Active, Extends
  <1>4. Grown(w, Then(c, d))  BY <1>2, ThenGrows DEF Extends
  <1>5. Then(c, d).ledger = d.ledger  BY DEF Then, Written
  <1>6. d.ledger.blocks[b].open /\ d.ledger.blocks[b].tool = tool  BY <1>2
  <1> QED  BY <1>2, <1>3, <1>4, <1>5, <1>6 DEF Extends, IsOpen, d

\* A piece of text or of a thought is of the open block of its kind, or of a new one.
LEMMA AddContentExtends ==
    ASSUME NEW w, NEW l, Whole(w, l), LedgerOK(l), Active(l), NEW kind \in Content
    PROVE  Extends(w, AddContent(l, kind))
  <1> DEFINE c == Close(l, Open(l, Content \ {kind}))
             mine == Open(l, {kind})
             b == IF mine = {} THEN Len(l.blocks) + 1 ELSE CHOOSE x \in mine : TRUE
  <1>1. /\ Extends(w, c) /\ Len(c.ledger.blocks) = Len(l.blocks)
        /\ \A a \in 1 .. Len(l.blocks) :
              l.blocks[a].kind \notin Content \ {kind} => c.ledger.blocks[a] = l.blocks[a]
    BY CloseContentExtends
  <1>2. mine # {} => b \in 1 .. Len(l.blocks) /\ l.blocks[b].open /\ l.blocks[b].kind = kind
    BY LedgerBlocks DEF Open
  <1>3. mine = {} => b = Len(l.blocks) + 1  OBVIOUS
  <1>4. AddContent(l, kind) = Then(c, Delta(c.ledger, b, kind, 0, FALSE))
    BY DEF AddContent
  <1> HIDE DEF c, b, mine
  <1>5. kind # "tool"  BY ContentAssumption
  <1>6. Admits(c.ledger, b, kind, 0, FALSE)  BY <1>1, <1>2, <1>3, <1>5 DEF Admits
  <1>7. w \in Seq(Frames)  BY DEF Whole
  <1> QED  BY <1>1, <1>4, <1>6, <1>7, DeltaExtends

\* A piece of a tool call is of the block of that call, which is still open.
LEMMA AddToolExtends ==
    ASSUME NEW w, NEW l, Whole(w, l), LedgerOK(l), Active(l),
           NEW tool \in Tools, NEW whole \in BOOLEAN
    PROVE  Extends(w, AddTool(l, tool, whole))
  <1> DEFINE c == Close(l, Open(l, Content))
             mine == {a \in DOMAIN l.blocks : l.blocks[a].tool = tool}
             b == IF mine = {} THEN Len(l.blocks) + 1 ELSE CHOOSE x \in mine : TRUE
  <1>1. /\ Extends(w, c) /\ Len(c.ledger.blocks) = Len(l.blocks)
        /\ \A a \in 1 .. Len(l.blocks) :
              l.blocks[a].kind \notin Content => c.ledger.blocks[a] = l.blocks[a]
    BY CloseContentExtends
  <1>2. mine # {} => b \in 1 .. Len(l.blocks) /\ l.blocks[b].tool = tool
    BY LedgerBlocks
  <1>3. mine = {} => b = Len(l.blocks) + 1  OBVIOUS
  <1>4. AddTool(l, tool, whole) = Then(c, Delta(c.ledger, b, "tool", tool, whole))
    BY DEF AddTool
  <1> HIDE DEF c, b, mine
  <1>5. tool # 0  BY ToolsAssumption
  <1>6. mine # {} => l.blocks[b].open /\ l.blocks[b].kind = "tool"
    BY <1>2, <1>5, LedgerBlocks DEF Active
  <1>7. Admits(c.ledger, b, "tool", tool, whole)
    BY <1>1, <1>2, <1>3, <1>5, <1>6, ContentAssumption DEF Admits
  <1>8. w \in Seq(Frames)  BY DEF Whole
  <1> QED  BY <1>1, <1>4, <1>7, <1>8, DeltaExtends

\* A tool call found in a text is opened, written and closed.
LEMMA AddParsedToolExtends ==
    ASSUME NEW w, NEW l, Whole(w, l), LedgerOK(l), Active(l)
    PROVE  Extends(w, AddParsedTool(l))
  <1> DEFINE c == Close(l, Open(l, Content))
             b == Len(l.blocks) + 1
             added == Then(c, Delta(c.ledger, b, "tool", 0, TRUE))
             e == Close(added.ledger, {b})
  <1>0. w \in Seq(Frames)  BY DEF Whole
  <1>1. Extends(w, c) /\ Len(c.ledger.blocks) = Len(l.blocks)
    BY CloseContentExtends
  <1>2. Whole(w \o c.frames, c.ledger) /\ LedgerOK(c.ledger)  BY <1>1 DEF Extends, Grown
  <1>3. AddParsedTool(l) = Then(added, e)  BY DEF AddParsedTool
  <1> HIDE DEF c
  <1>4. Admits(c.ledger, b, "tool", 0, TRUE)  BY <1>1 DEF Admits
  <1>5. Extends(w, added)  BY <1>0, <1>1, <1>4, DeltaExtends DEF added
  <1>8. b \in 1 .. Len(added.ledger.blocks) /\ added.ledger.blocks[b].open
        /\ added.ledger.blocks[b].tool = 0
    <2>1. IsOpen(added, b, 0)  BY <1>0, <1>1, <1>4, DeltaExtends DEF added
    <2> QED  BY <2>1 DEF IsOpen
  <1> HIDE DEF b, added
  <1>9. Whole(w \o added.frames, added.ledger) /\ LedgerOK(added.ledger)
    BY <1>5 DEF Extends, Grown
  <1>10. /\ Grown(w \o added.frames, e) /\ Len(e.ledger.blocks) = Len(added.ledger.blocks)
         /\ \A a \in 1 .. Len(added.ledger.blocks) :
               e.ledger.blocks[a] = IF a \in {b} THEN [added.ledger.blocks[a] EXCEPT !.open = FALSE]
                                    ELSE added.ledger.blocks[a]
    <2>1. {b} \subseteq {a \in 1 .. Len(added.ledger.blocks) : added.ledger.blocks[a].open}
      BY <1>8
    <2> DEFINE B == {b}
    <2> HIDE DEF B
    <2>2. B \subseteq {a \in 1 .. Len(added.ledger.blocks) : added.ledger.blocks[a].open}
      BY <2>1 DEF B
    <2>3. LET x == Close(added.ledger, B) IN
          /\ Grown(w \o added.frames, x) /\ Len(x.ledger.blocks) = Len(added.ledger.blocks)
          /\ \A a \in 1 .. Len(added.ledger.blocks) :
                x.ledger.blocks[a] = IF a \in B THEN [added.ledger.blocks[a] EXCEPT !.open = FALSE]
                                     ELSE added.ledger.blocks[a]
      BY <1>9, <2>2, CloseGrows
    <2> QED  BY <2>3 DEF B
  <1> HIDE DEF e
  <1>11. Active(e.ledger)
    <2> SUFFICES ASSUME NEW a \in 1 .. Len(added.ledger.blocks), e.ledger.blocks[a].tool # 0
                 PROVE  e.ledger.blocks[a].open
      BY <1>10 DEF Active
    <2>1. added.ledger.blocks[a] \in Block  BY <1>9, LedgerBlocks
    <2>2. CASE a = b
      <3>1. e.ledger.blocks[a] = [added.ledger.blocks[a] EXCEPT !.open = FALSE]  BY <1>10, <2>2
      <3>2. e.ledger.blocks[a].tool = added.ledger.blocks[a].tool  BY <2>1, <3>1 DEF Block
      <3> QED  BY <1>8, <2>2, <3>2
    <2>3. CASE a # b  BY <1>5, <1>10, <2>3 DEF Active, Extends
    <2> QED  BY <2>2, <2>3
  <1>12. Grown(w, Then(added, e))  BY <1>0, <1>5, <1>10, ThenGrows DEF Extends
  <1>13. Then(added, e).ledger = e.ledger  BY DEF Then, Written
  <1> QED  BY <1>3, <1>11, <1>12, <1>13 DEF Extends

\* Whatever a chunk adds extends the message.
LEMMA AdditionExtends ==
    ASSUME NEW w, NEW l, Whole(w, l), LedgerOK(l), Active(l), NEW x \in Additions(l)
    PROVE  Extends(w, x)
  <1>1. CASE x = AddParsedTool(l)  BY <1>1, AddParsedToolExtends
  <1>2. CASE \E kind \in Content : x = AddContent(l, kind)  BY <1>2, AddContentExtends
  <1>3. CASE \E tool \in Tools, whole \in BOOLEAN : x = AddTool(l, tool, whole)
    BY <1>3, AddToolExtends
  <1> QED  BY <1>1, <1>2, <1>3 DEF Additions

-----------------------------------------------------------------------------
(* The end of a message. *)

\* What the body of a message ends with.
Finished(w, x) ==
    /\ x.frames \in Seq(Frames) /\ LedgerOK(x.ledger)
    /\ Message(w \o x.frames) /\ Stopped(w \o x.frames)

\* A message is over when its blocks are.
LEMMA LastFrame ==
    ASSUME NEW w, NEW l, Whole(w, l), LedgerOK(l), AllClosed(l), NEW kind \in Last
    PROVE  LET u == w \o <<Frame(kind, 0, l)>> IN
           /\ <<Frame(kind, 0, l)>> \in Seq(Frames)
           /\ Message(u) /\ u # <<>> /\ u[Len(u)].kind = kind
  <1> DEFINE c == <<Frame(kind, 0, l)>>
             u == w \o c
             n == Len(w)
  <1>0. /\ w \in Seq(Frames) /\ w # <<>> /\ Ordered(w)
        /\ \A i \in 1 .. n :
              w[i].of = l.of /\ w[i].kind \notin Last /\ w[i].block \in 0 .. Len(l.blocks)
        /\ \A b \in 1 .. Len(l.blocks) :
              l.blocks[b].open <=> \A i \in 1 .. n : ~(w[i].kind = "close" /\ w[i].block = b)
        /\ n \in Nat /\ n > 0
    BY DEF Whole
  <1>1. w[1].of = l.of  BY <1>0
  <1>2. l.of \in Nat  BY DEF LedgerOK
  <1>3. /\ c \in Seq(Frames) /\ Len(c) = 1
        /\ c[1].kind = kind /\ c[1].block = 0 /\ c[1].of = l.of
    <2>1. Frame(kind, 0, l) \in Frames  BY <1>2 DEF Frame, Frames, Kinds, Last
    <2> QED  BY <2>1 DEF Frame
  <1> HIDE DEF c
  <1>4. kind # "open" /\ kind # "close" /\ kind # "delta" /\ kind # "start" /\ kind \in Blank
    BY DEF Last, Blank
  <1>5. ASSUME NEW i \in 1 .. Len(c)
        PROVE  i = 1 /\ c[i].of = w[1].of /\ c[i].kind = kind /\ c[i].block = 0
    <2>1. i = 1  BY <1>3
    <2> QED  BY <1>1, <1>3, <2>1
  <1>6. ASSUME NEW j \in 1 .. n PROVE w[j].block = 0 => w[j].kind # "close"
    <2>1. w[j].kind \in Blank <=> w[j].block = 0  BY <1>0 DEF Ordered
    <2> QED  BY <2>1 DEF Blank
  <1>7. Follows(w, c)
    <2>1. c[1].kind = kind  BY <1>3
    <2> QED  BY <1>4, <1>5, <1>6, <2>1 DEF Follows
  <1>8. Ordered(u)  BY <1>0, <1>3, <1>7, FollowsKeepsOrder
  <1>9. /\ u \in Seq(Frames) /\ Len(u) = n + 1
        /\ \A i \in 1 .. n : i \in 1 .. Len(u) /\ u[i] = w[i]
        /\ u[n + 1] = c[1]
        /\ \A i \in 1 .. Len(u) : (i \in 1 .. n /\ u[i] = w[i]) \/ i = n + 1
    <2>1. /\ u \in Seq(Frames) /\ Len(u) = n + Len(c)
          /\ \A i \in 1 .. n : i \in 1 .. Len(u) /\ u[i] = w[i]
          /\ \A i \in 1 .. Len(c) : n + i \in 1 .. Len(u) /\ u[n + i] = c[i]
      <3>1. w \in Seq(Frames) /\ c \in Seq(Frames)  BY <1>0, <1>3
      <3> QED  BY <3>1, ConcatParts
    <2>2. 1 \in 1 .. Len(c)  BY <1>3
    <2> HIDE DEF u, n
    <2>3. Len(u) = n + 1 /\ u[n + 1] = c[1]  BY <1>3, <2>1, <2>2
    <2>4. \A i \in 1 .. Len(u) : i \in 1 .. n \/ i = n + 1  BY <1>0, <2>3
    <2> QED  BY <2>1, <2>3, <2>4
  <1> HIDE DEF u
  <1>10. ASSUME NEW i \in 1 .. Len(u), u[i].kind \in Last
         PROVE  /\ i = Len(u)
                /\ \A j \in 1 .. Len(u) : u[j].kind = "open" =>
                      \E k \in 1 .. Len(u) : u[k].kind = "close" /\ u[k].block = u[j].block
    <2>1. i = Len(u)  BY <1>0, <1>9, <1>10
    <2>2. ASSUME NEW j \in 1 .. Len(u), u[j].kind = "open"
          PROVE  \E k \in 1 .. Len(u) : u[k].kind = "close" /\ u[k].block = u[j].block
      <3>1. j \in 1 .. n /\ u[j] = w[j]  BY <1>3, <1>4, <1>9, <2>2
      <3>2. w[j].block # 0 /\ w[j].block \in 0 .. Len(l.blocks)
        <4>1. w[j].kind \in Blank <=> w[j].block = 0  BY <1>0, <3>1 DEF Ordered
        <4>2. w[j].kind = "open"  BY <2>2, <3>1
        <4> QED  BY <1>0, <3>1, <4>1, <4>2 DEF Blank
      <3>3. w[j].block \in 1 .. Len(l.blocks)  BY <3>2, LedgerBlocks
      <3>4. ~l.blocks[w[j].block].open  BY <3>3 DEF AllClosed
      <3>5. PICK k \in 1 .. n : w[k].kind = "close" /\ w[k].block = w[j].block
        BY <1>0, <3>3, <3>4
      <3> QED  BY <1>9, <3>1, <3>5
    <2> QED  BY <2>1, <2>2
  <1>11. Message(u)  BY <1>8, <1>9, <1>10 DEF Message
  <1>12. u # <<>> /\ u[Len(u)].kind = kind  BY <1>0, <1>3, <1>9
  <1> QED  BY <1>3, <1>11, <1>12 DEF u, c

\* Every block can be closed.
LEMMA CloseAllGrows ==
    ASSUME NEW w, NEW l, Whole(w, l), LedgerOK(l)
    PROVE  LET c == Close(l, Open(l, Content \cup {"tool"})) IN
           Grown(w, c) /\ AllClosed(c.ledger)
  <1> DEFINE blocks == Open(l, Content \cup {"tool"})
             c == Close(l, blocks)
  <1>1. /\ l.blocks \in Seq(Block) /\ DOMAIN l.blocks = 1 .. Len(l.blocks)
        /\ \A b \in 1 .. Len(l.blocks) : l.blocks[b] \in Block
    BY LedgerBlocks
  <1>2. \A b \in 1 .. Len(l.blocks) : l.blocks[b].open <=> b \in blocks
    BY <1>1 DEF Open, Block
  <1>3. blocks \subseteq {b \in 1 .. Len(l.blocks) : l.blocks[b].open}
    BY <1>1 DEF Open
  <1>4. /\ Grown(w, c) /\ Len(c.ledger.blocks) = Len(l.blocks)
        /\ \A b \in 1 .. Len(l.blocks) : c.ledger.blocks[b] =
              IF b \in blocks THEN [l.blocks[b] EXCEPT !.open = FALSE] ELSE l.blocks[b]
    <2> HIDE DEF blocks
    <2> QED  BY <1>3, CloseGrows
  <1> HIDE DEF blocks, c
  <1>5. AllClosed(c.ledger)
    <2> SUFFICES ASSUME NEW b \in 1 .. Len(l.blocks)
                 PROVE  ~c.ledger.blocks[b].open
      BY <1>4 DEF AllClosed
    <2>1. CASE b \in blocks
      <3>1. c.ledger.blocks[b] = [l.blocks[b] EXCEPT !.open = FALSE]  BY <1>4, <2>1
      <3> QED  BY <1>1, <3>1 DEF Block
    <2>2. CASE b \notin blocks  BY <1>2, <1>4, <2>2
    <2> QED  BY <2>1, <2>2
  <1> QED  BY <1>4, <1>5 DEF c, blocks

\* Once every block is closed, the message is ended.
LEMMA FinishEnds ==
    ASSUME NEW w, NEW l, Whole(w, l), LedgerOK(l)
    PROVE  Finished(w, Finish(l))
  <1> DEFINE c == Close(l, Open(l, Content \cup {"tool"}))
             stop == <<Frame("stop", 0, c.ledger)>>
  <1>1. Grown(w, c) /\ AllClosed(c.ledger)  BY CloseAllGrows
  <1>2. w \in Seq(Frames) /\ LedgerOK(l)  BY DEF Whole
  <1>3. Frame("stop", 0, l) = Frame("stop", 0, c.ledger)
    <2>1. l \in [of : Nat, blocks : Seq(Block)]  BY DEF LedgerOK
    <2>2. c.ledger.of = l.of  BY <2>1 DEF Close, Written
    <2> HIDE DEF c
    <2> QED  BY <2>2 DEF Frame
  <1>4. /\ Finish(l).ledger = c.ledger
        /\ Finish(l).frames = Append(c.frames, Frame("stop", 0, c.ledger))
    BY <1>3 DEF Finish, Written
  <1> HIDE DEF c
  <1>5. c.frames \in Seq(Frames) /\ LedgerOK(c.ledger) /\ Whole(w \o c.frames, c.ledger)
    BY <1>1 DEF Grown
  <1>6. LET u == (w \o c.frames) \o stop IN
        stop \in Seq(Frames) /\ Message(u) /\ u # <<>> /\ u[Len(u)].kind = "stop"
    <2>1. "stop" \in Last  BY DEF Last
    <2> QED  BY <1>1, <1>5, <2>1, LastFrame
  <1>7. Frame("stop", 0, c.ledger) \in Frames
    <2> HIDE DEF c
    <2>1. c.ledger.of \in Nat  BY <1>5 DEF LedgerOK
    <2> QED  BY <2>1 DEF Frame, Frames, Kinds
  <1>8. Finish(l).frames = c.frames \o stop  BY <1>4, <1>5, <1>7, AppendIsConcat
  <1> HIDE DEF stop
  <1>9. (w \o c.frames) \o stop = w \o (c.frames \o stop)
    <2>1. \A s, t \in Seq(Frames) : (w \o s) \o t = w \o (s \o t)  BY <1>2, ConcatAssociative
    <2> QED  BY <1>5, <1>6, <2>1
  <1>10. Finish(l).frames \in Seq(Frames)  BY <1>5, <1>6, <1>8
  <1> QED  BY <1>4, <1>5, <1>6, <1>8, <1>9, <1>10 DEF Finished, Stopped

\* Something more, and the end of the message.
LEMMA EndingFinishes ==
    ASSUME NEW w \in Seq(Frames), NEW x, Grown(w, x)
    PROVE  Finished(w, Then(x, Finish(x.ledger)))
  <1> DEFINE y == Finish(x.ledger)
  <1>1. x.frames \in Seq(Frames) /\ LedgerOK(x.ledger) /\ Whole(w \o x.frames, x.ledger)
    BY DEF Grown
  <1>2. Finished(w \o x.frames, y)  BY <1>1, FinishEnds
  <1> HIDE DEF y
  <1>3. y.frames \in Seq(Frames)  BY <1>2 DEF Finished
  <1>4. (w \o x.frames) \o y.frames = w \o (x.frames \o y.frames)
    <2>1. \A s, t \in Seq(Frames) : (w \o s) \o t = w \o (s \o t)  BY ConcatAssociative
    <2> QED  BY <1>1, <1>3, <2>1
  <1>5. Then(x, y).frames = x.frames \o y.frames /\ Then(x, y).ledger = y.ledger
    BY DEF Then, Written
  <1>6. x.frames \o y.frames \in Seq(Frames)  BY <1>1, <1>3
  <1> QED  BY <1>2, <1>4, <1>5, <1>6 DEF Finished, y

\* The unfinished tool calls of a message that goes on are open.
LEMMA RepairGrows ==
    ASSUME NEW w, NEW l, Whole(w, l), LedgerOK(l), Active(l)
    PROVE  LET broken == {b \in DOMAIN l.blocks :
                            l.blocks[b].kind = "tool" /\ ~l.blocks[b].whole}
               order == InOrder(broken, Len(l.blocks))
           IN  Grown(w, Written(
                 [l EXCEPT !.blocks = [b \in DOMAIN @ |->
                    IF b \in broken THEN [@[b] EXCEPT !.whole = TRUE] ELSE @[b]]],
                 [i \in DOMAIN order |-> Frame("delta", order[i], l)]))
  <1> DEFINE N == Len(l.blocks)
             broken == {b \in DOMAIN l.blocks : l.blocks[b].kind = "tool" /\ ~l.blocks[b].whole}
             order == InOrder(broken, N)
             c == [i \in 1 .. Len(order) |-> Frame("delta", order[i], l)]
             after == [b \in 1 .. N |->
                         IF b \in broken THEN [l.blocks[b] EXCEPT !.whole = TRUE] ELSE l.blocks[b]]
             l2 == [l EXCEPT !.blocks = after]
  <1>1. l \in [of : Nat, blocks : Seq(Block)] /\ N \in Nat /\ DOMAIN l.blocks = 1 .. N
    BY LedgerBlocks DEF LedgerOK
  <1>2. \A b \in broken : b \in 1 .. N /\ l.blocks[b].open
    BY LedgerBlocks DEF Active
  <1>3. broken \in SUBSET (1 .. N)  BY <1>2
  <1>4. order \in Seq(broken)
    <2> HIDE DEF N, broken
    <2> QED  BY <1>1, <1>3, InOrderProperties
  <1>5. DOMAIN order = 1 .. Len(order) /\ Len(order) \in Nat
        /\ \A i \in 1 .. Len(order) : order[i] \in broken
    <2> HIDE DEF broken
    <2> QED  BY <1>4
  <1>6. Written([l EXCEPT !.blocks = [b \in DOMAIN @ |->
                    IF b \in broken THEN [@[b] EXCEPT !.whole = TRUE] ELSE @[b]]],
                 [i \in DOMAIN order |-> Frame("delta", order[i], l)])
          = [ledger |-> l2, frames |-> c]
    <2> HIDE DEF broken, order
    <2> QED  BY <1>1, <1>5 DEF Written
  <1> HIDE DEF order, broken
  <1>7. /\ c \in Seq(Frames) /\ Len(c) = Len(order)
        /\ \A i \in 1 .. Len(c) : c[i].kind = "delta" /\ c[i].block = order[i] /\ c[i].of = l.of
    <2>1. \A i \in 1 .. Len(order) : Frame("delta", order[i], l) \in Frames
      <3> SUFFICES ASSUME NEW i \in 1 .. Len(order)
                   PROVE  Frame("delta", order[i], l) \in Frames
        OBVIOUS
      <3>0. order[i] \in 1 .. N  BY <1>3, <1>5
      <3>1. order[i] \in Nat /\ l.of \in Nat  BY <1>1, <3>0
      <3> QED  BY <3>1 DEF Frame, Frames, Kinds
    <2>2. c \in Seq(Frames) /\ Len(c) = Len(order)  BY <1>5, <2>1
    <2> QED  BY <2>2 DEF Frame
  <1> HIDE DEF c
  <1>8. \A b \in 1 .. N :
           /\ after[b] \in Block
           /\ after[b].kind = l.blocks[b].kind /\ after[b].tool = l.blocks[b].tool
           /\ l.blocks[b].whole => after[b].whole
           /\ after[b].open = l.blocks[b].open
    <2> SUFFICES ASSUME NEW b \in 1 .. N
                 PROVE  /\ after[b] \in Block
                        /\ after[b].kind = l.blocks[b].kind /\ after[b].tool = l.blocks[b].tool
                        /\ l.blocks[b].whole => after[b].whole
                        /\ after[b].open = l.blocks[b].open
      OBVIOUS
    <2>1. l.blocks[b] \in Block  BY LedgerBlocks
    <2>2. CASE b \in broken
      <3>1. after[b] = [l.blocks[b] EXCEPT !.whole = TRUE]  BY <2>2
      <3> HIDE DEF after
      <3> QED  BY <2>1, <3>1 DEF Block
    <2>3. CASE b \notin broken
      <3>1. after[b] = l.blocks[b]  BY <2>3
      <3> HIDE DEF after
      <3> QED  BY <2>1, <3>1
    <2> QED  BY <2>2, <2>3
  <1>9. after \in Seq(Block) /\ Len(after) = N
    <2>1. after = [b \in 1 .. N |-> after[b]]  OBVIOUS
    <2> HIDE DEF after
    <2>2. after \in [1 .. N -> Block]  BY <1>8, <2>1
    <2> QED  BY <1>1, <2>2
  <1>10. l2.blocks = after /\ l2.of = l.of /\ l2 \in [of : Nat, blocks : Seq(Block)]
    BY <1>1, <1>9
  <1> HIDE DEF l2, after
  <1>11. LedgerOK(l2)  BY ZenonT(60), <1>8, <1>9, <1>10, LedgerBlocks DEF LedgerOK
  <1>12. Whole(w \o c, l2)
    <2>1. \A b \in 1 .. N : l2.blocks[b].open <=> l.blocks[b].open  BY <1>8, <1>10
    <2>2. \A i \in 1 .. Len(c) :
             /\ c[i].kind = "delta" /\ c[i].of = l.of
             /\ c[i].block \in 1 .. N /\ l.blocks[c[i].block].open
      BY <1>2, <1>5, <1>7
    <2>3. Len(l2.blocks) = Len(l.blocks)  BY <1>9, <1>10
    <2> QED  BY <1>7, <1>10, <1>11, <2>1, <2>2, <2>3, DeltasGrow
  <1>13. Grown(w, [ledger |-> l2, frames |-> c])  BY <1>7, <1>11, <1>12 DEF Grown
  <1>14. Grown(w, Written([l EXCEPT !.blocks = [b \in DOMAIN @ |->
                    IF b \in broken THEN [@[b] EXCEPT !.whole = TRUE] ELSE @[b]]],
                 [i \in DOMAIN order |-> Frame("delta", order[i], l)]))
    BY <1>6, <1>13
  <1> QED  BY <1>14 DEF order, broken

-----------------------------------------------------------------------------
(* What has been written, and where it is. *)

\* A transcript of which some parts are empty.
LEMMA FourParts ==
    ASSUME NEW S, NEW a \in Seq(S), NEW b \in Seq(S), NEW c \in Seq(S), NEW d \in Seq(S)
    PROVE  /\ a \o b \o c \o d \in Seq(S)
           /\ b = <<>> /\ c = <<>> => a \o b \o c \o d = a \o d
           /\ a = <<>> /\ b = <<>> /\ c = <<>> => a \o b \o c \o d = d
           /\ b = <<>> /\ d = <<>> => a \o b \o c \o d = a \o c
           /\ d = <<>> => a \o b \o c \o d = (a \o b) \o c
           /\ b = <<>> /\ c = <<>> /\ d = <<>> => a \o b \o c \o d = a
  <1>1. a \o b \in Seq(S) /\ (a \o b) \o c \in Seq(S) /\ ((a \o b) \o c) \o d \in Seq(S)
    OBVIOUS
  <1>2. \A s \in Seq(S) : s \o <<>> = s /\ <<>> \o s = s  BY ConcatEmptySeq
  <1>3. b = <<>> => a \o b = a  BY <1>2
  <1>4. c = <<>> => (a \o b) \o c = a \o b  BY <1>1, <1>2
  <1>5. d = <<>> => ((a \o b) \o c) \o d = (a \o b) \o c  BY <1>1, <1>2
  <1>6. a = <<>> => a \o d = d  BY <1>2
  <1> QED  BY <1>1, <1>3, <1>4, <1>5, <1>6

\* The first frame that the runner yields is taken from it.
LEMMA HeadMoves ==
    ASSUME NEW S, NEW s \in Seq(S), NEW o \in Seq(S), o # <<>>
    PROVE  /\ <<Head(o)>> \in Seq(S) /\ Tail(o) \in Seq(S)
           /\ Append(s, Head(o)) = s \o <<Head(o)>> /\ Append(s, Head(o)) \in Seq(S)
           /\ Append(s, Head(o)) \o Tail(o) = s \o o
  <1>1. Head(o) \in S /\ Tail(o) \in Seq(S)  BY HeadTailProperties
  <1>2. Append(s, Head(o)) = s \o <<Head(o)>> /\ Append(s, Head(o)) \in Seq(S)
    BY <1>1, AppendIsConcat
  <1> DEFINE u == Append(s, Head(o)) \o Tail(o)
             v == s \o o
  <1>3. /\ u \in Seq(S) /\ v \in Seq(S)
        /\ Len(s) \in Nat /\ Len(o) \in Nat /\ Len(o) > 0
        /\ Len(u) = Len(s) + Len(o) /\ Len(v) = Len(s) + Len(o)
    BY <1>1, <1>2
  <1>4. ASSUME NEW i \in 1 .. Len(u) PROVE u[i] = v[i]
    <2>1. CASE i <= Len(s)  BY <1>1, <1>3, <2>1
    <2>2. CASE i = Len(s) + 1
      <3>1. u[i] = Head(o)  BY <1>1, <1>3, <2>2
      <3>2. v[i] = o[1]  BY <1>3, <2>2
      <3> QED  BY <3>1, <3>2
    <2>3. CASE i > Len(s) + 1
      <3>1. u[i] = Tail(o)[i - (Len(s) + 1)]  BY <1>1, <1>3, <2>3
      <3>2. v[i] = o[i - Len(s)]  BY <1>3, <2>3
      <3>3. i - (Len(s) + 1) \in 1 .. Len(Tail(o))  BY <1>3, <2>3
      <3> QED  BY <1>3, <3>1, <3>2, <3>3
    <2> QED  BY <1>3, <2>1, <2>2, <2>3
  <1> HIDE DEF u, v
  <1>5. u = v  BY <1>3, <1>4, SeqEqual
  <1> QED  BY <1>1, <1>2, <1>5 DEF u, v

\* A message that is not over is the beginning of one.
LEMMA WholeIsMessage ==
    ASSUME NEW w, NEW l, Whole(w, l)
    PROVE  Message(w)
  BY DEF Whole, Message

\* What the client may have got is a message.
LEMMA TranscriptIsMessage ==
    ASSUME StreamTyped, Control, Places, Underway, Alive, committed
    PROVE  Message(Transcript)
  <1>1. run \notin {"new", "open"}  BY DEF Places
  <1>2. Going \/ Failed \/ Complete
    BY <1>1 DEF Going, Failed, Complete, Underway, Control, Runs, Exits
  <1> QED  BY <1>2, WholeIsMessage DEF Underway

\* The first frames of a message.
LEMMA FirstPart ==
    ASSUME StreamTyped, NEW p \in Seq(Frames), NEW q \in Seq(Frames),
           Message(Transcript), Transcript = p \o q
    PROVE  Message(p)
  BY PrefixMessage

\* While somebody waits for the runner, everything is with the client or held.
LEMMA AwaitedFacts ==
    ASSUME StreamTyped, Places, Awaited
    PROVE  /\ Alive /\ req \in {"first", "collect", "next"} /\ ~gone
           /\ sending = <<>> /\ out = <<>>
           /\ Transcript = seen \o held /\ Transcript \in Seq(Frames)
  <1>1. Alive /\ req \in {"first", "collect", "next"} /\ ~gone /\ sending = <<>> /\ out = <<>>
    BY DEF Awaited, Alive, Places
  <1> QED  BY <1>1, FourParts DEF Transcript, StreamTyped

\* push.
LEMMA PushWrites ==
    ASSUME StreamTyped, Places, Awaited, NEW frames \in Seq(Frames), Push(frames), UNCHANGED asgi
    PROVE  /\ out' \in Seq(Frames) /\ held' \in Seq(Frames) /\ committed' \in BOOLEAN
           /\ committed => committed'
           /\ committed' => held' = <<>>
           /\ ~committed' => out' = <<>>
           /\ Transcript' = Transcript \o frames
  <1>1. /\ seen \in Seq(Frames) /\ sending = <<>> /\ out = <<>> /\ held \in Seq(Frames)
        /\ <<>> \in Seq(Frames) /\ sending' = <<>> /\ seen' = seen
    BY AwaitedFacts DEF StreamTyped, asgi
  <1>2. Transcript' = seen \o <<>> \o out' \o held'
    <2>1. Transcript' = seen' \o sending' \o out' \o held'  BY DEF Transcript
    <2> QED  BY <1>1, <2>1
  <1>3. CASE committed /\ out' = frames /\ UNCHANGED <<held, committed>>
    <2>1. held = <<>>  BY <1>3 DEF Places
    <2>2. Transcript = seen \o held /\ seen \o held = seen  BY <1>1, <2>1, AwaitedFacts
    <2>3. seen \o <<>> \o out' \o held' = seen \o frames
      <3>1. held' = <<>>  BY <1>3, <2>1
      <3> QED  BY <1>1, <1>3, <3>1, FourParts
    <2> QED  BY <1>1, <1>2, <1>3, <2>1, <2>2, <2>3
  <1>4. CASE ~committed
    <2>1. seen = <<>>  BY <1>4 DEF Places
    <2>2. Transcript = held  BY <1>1, <2>1, AwaitedFacts
    <2>3. held \o frames \in Seq(Frames)  BY <1>1
    <2>4. CASE held' = held \o frames /\ UNCHANGED <<out, committed>>
      <3>0. out' = <<>> /\ held' \in Seq(Frames)  BY <1>1, <2>3, <2>4
      <3>1. seen \o <<>> \o out' \o held' = held'
        BY <1>1, <2>1, <3>0, FourParts
      <3>2. Transcript' = Transcript \o frames  BY <1>2, <2>2, <2>4, <3>1
      <3>3. committed' \in BOOLEAN /\ ~committed'  BY <1>4, <2>4 DEF StreamTyped
      <3>4. out' \in Seq(Frames)  BY <1>1, <3>0
      <3> QED  BY <1>4, <3>0, <3>2, <3>3, <3>4
    <2>5. CASE committed' = TRUE /\ out' = held \o frames /\ held' = <<>>
      <3>1. seen \o <<>> \o out' \o held' = seen \o out'
        BY <1>1, <2>3, <2>5, FourParts
      <3>2. seen \o out' = out'  BY <2>1, <2>3, <2>5
      <3> QED  BY <1>1, <1>2, <1>4, <2>2, <2>3, <2>5, <3>1, <3>2
    <2> QED  BY <1>4, <2>4, <2>5 DEF Push
  <1> QED  BY <1>3, <1>4 DEF Push

\* flush.
LEMMA FlushWrites ==
    ASSUME StreamTyped, Places, Awaited, NEW frames \in Seq(Frames), Flush(frames), UNCHANGED asgi
    PROVE  /\ out' \in Seq(Frames) /\ held' = <<>> /\ committed' = TRUE
           /\ Transcript' = Transcript \o frames
  <1>1. /\ seen \in Seq(Frames) /\ sending = <<>> /\ out = <<>> /\ held \in Seq(Frames)
        /\ <<>> \in Seq(Frames) /\ sending' = <<>> /\ seen' = seen
    BY AwaitedFacts DEF StreamTyped, asgi
  <1>2. out' = held \o frames /\ held' = <<>> /\ committed' = TRUE /\ out' \in Seq(Frames)
    BY <1>1 DEF Flush
  <1>3. Transcript' = seen \o <<>> \o out' \o held'
    <2>1. Transcript' = seen' \o sending' \o out' \o held'  BY DEF Transcript
    <2> QED  BY <1>1, <2>1
  <1>4. Transcript' = seen \o (held \o frames)  BY <1>1, <1>2, <1>3, FourParts
  <1>5. \A s, t \in Seq(Frames) : (seen \o s) \o t = seen \o (s \o t)
    BY SMTT(30), <1>1, ConcatAssociative
  <1>6. Transcript = seen \o held  BY AwaitedFacts
  <1> QED  BY <1>1, <1>2, <1>4, <1>5, <1>6

-----------------------------------------------------------------------------
(* The steps of the runner. *)

\* The runner and its buffers, wherever the request is.
RunnerOK ==
    /\ read \in {"none", "pending", "orphan"} /\ LedgerOK(ledger)
    /\ out \in Seq(Frames) /\ held \in Seq(Frames)
    /\ attempts \in 0 .. MaxAttempts /\ chunks \in 0 .. MaxChunks
    /\ committed \in BOOLEAN /\ finished \in BOOLEAN
    /\ committed => held = <<>>
    /\ ~committed => out = <<>>
    /\ run \in {"open", "recover", "tail"} => out = <<>>
    /\ run # "new" /\ (run = "open" => ~committed)

\* A step of a runner that somebody waits for leaves the client with what it has.
LEMMA AwaitedKeeps ==
    ASSUME FramesInv, Awaited, UNCHANGED asgi, committed => committed', RunnerOK', Underway'
    PROVE  FramesInv'
  <1> USE DEF asgi
  <1>1. StreamTyped'  BY DEF FramesInv, StreamTyped, RunnerOK
  <1>2. req \in {"first", "collect", "next"} /\ sending = <<>> /\ Alive /\ ~gone
    BY AwaitedFacts DEF FramesInv
  <1>3. Places'
    <2>1. ~committed' => seen = <<>> /\ sending = <<>>
      BY DEF FramesInv, Places
    <2> QED  BY <1>2, <2>1 DEF FramesInv, Places, RunnerOK, Alive
  <1>4. Outcome'
    <2>1. Alive'  BY <1>2 DEF Alive
    <2>2. req' \in {"first", "collect", "next"} /\ status' = status /\ seen' = seen  BY <1>2
    <2>3. status # "message"  BY <1>2 DEF FramesInv, Outcome
    <2> QED  BY <2>1, <2>2, <2>3 DEF FramesInv, Outcome
  <1> QED  BY <1>1, <1>3, <1>4 DEF FramesInv

\* The runner has written part of a message, and goes on.
LEMMA GoesOn ==
    ASSUME Going', Whole(Transcript', ledger'), Active(ledger')
    PROVE  Underway'
  BY DEF Underway, Going, Failed, Complete

\* What has been written is the whole of a message.
LEMMA IsComplete ==
    ASSUME Complete', committed', Message(Transcript'), Stopped(Transcript')
    PROVE  Underway'
  <1>1. Ends(Transcript')  BY DEF Ends, Stopped, Last
  <1> QED  BY <1>1 DEF Underway, Going, Failed, Complete

\* What the runner has written when it goes on.
LEMMA GoingFacts ==
    ASSUME FramesInv, Awaited, Going
    PROVE  /\ Whole(Transcript, ledger) /\ Active(ledger) /\ LedgerOK(ledger)
           /\ Transcript \in Seq(Frames) /\ DOMAIN ledger.blocks = 1 .. Len(ledger.blocks)
  <1>1. Alive /\ Transcript \in Seq(Frames)  BY AwaitedFacts DEF FramesInv
  <1>2. LedgerOK(ledger)  BY DEF FramesInv, StreamTyped
  <1> QED  BY <1>1, <1>2, LedgerBlocks DEF FramesInv, Underway

\* A new message.
LEMMA NewMessage ==
    ASSUME FramesInv, ledger' = NewLedger, held' = <<Frame("start", 0, NewLedger)>>,
           seen' = <<>>, sending' = <<>>, out' = <<>>
    PROVE  /\ Whole(Transcript', ledger') /\ Active(ledger') /\ LedgerOK(ledger')
           /\ held' \in Seq(Frames)
  <1> DEFINE first == Frame("start", 0, NewLedger)
  <1>1. attempts \in Nat  BY LimitsAssumption DEF FramesInv, StreamTyped
  <1>2. /\ NewLedger.of = attempts + 1 /\ NewLedger.blocks = <<>>
        /\ NewLedger \in [of : Nat, blocks : Seq(Block)]
    BY <1>1 DEF NewLedger
  <1>3. LedgerOK(NewLedger) /\ Active(NewLedger)  BY <1>2 DEF LedgerOK, Active
  <1>4. first \in Frames /\ first.kind = "start" /\ first.block = 0 /\ first.of = NewLedger.of
    BY <1>1, <1>2 DEF Frame, Frames, Kinds
  <1> HIDE DEF first
  <1>5. Transcript' = <<first>>
    <2>1. Transcript' = seen' \o sending' \o out' \o held'  BY DEF Transcript
    <2>2. <<>> \in Seq(Frames) /\ <<first>> \in Seq(Frames)  BY <1>4
    <2> QED  BY <2>1, <2>2, FourParts DEF first
  <1>6. Whole(<<first>>, NewLedger)
    <2> DEFINE w == <<first>>
    <2>1. w \in Seq(Frames) /\ Len(w) = 1 /\ w # <<>> /\ w[1] = first  BY <1>4
    <2> HIDE DEF w
    <2>2. \A i \in 1 .. Len(w) : i = 1 /\ w[i] = first  BY <2>1
    <2>3. Ordered(w)  BY <1>4, <2>1, <2>2 DEF Ordered, Blank
    <2>4. Len(NewLedger.blocks) = 0  BY <1>2
    <2>5. Whole(w, NewLedger)  BY <1>4, <2>1, <2>2, <2>3, <2>4 DEF Whole, Last
    <2> QED  BY <2>5 DEF w
  <1> QED  BY <1>3, <1>4, <1>5, <1>6 DEF first

\* The first attempt begins a message.
LEMMA BeginKeeps ==
    ASSUME Inv, FramesInv, Begin
    PROVE  FramesInv'
  <1> USE DEF Begin
  <1>1. /\ Awaited /\ run' = "open" /\ ~committed /\ ~committed' /\ out = <<>> /\ out' = <<>>
        /\ seen' = <<>> /\ sending' = <<>>
    BY DEF FramesInv, Places, asgi
  <1>2. /\ Whole(Transcript', ledger') /\ Active(ledger') /\ LedgerOK(ledger')
        /\ held' \in Seq(Frames)
    BY <1>1, NewMessage DEF Restarted
  <1>3. RunnerOK'  BY <1>1, <1>2 DEF RunnerOK, FramesInv, StreamTyped
  <1>4. Underway'  BY <1>1, <1>2, GoesOn DEF Going
  <1> QED  BY <1>1, <1>3, <1>4, AwaitedKeeps

\* An attempt that opens changes no frame.
LEMMA OpenStreamKeeps ==
    ASSUME Inv, FramesInv, OpenStream
    PROVE  FramesInv'
  <1> USE DEF OpenStream
  <1>1. Going /\ Going' /\ Awaited  BY DEF Going
  <1>2. Whole(Transcript, ledger) /\ Active(ledger) /\ LedgerOK(ledger)  BY <1>1, GoingFacts
  <1>3. Transcript' = Transcript /\ ledger' = ledger  BY DEF Transcript, asgi
  <1>4. attempts' \in 0 .. MaxAttempts /\ chunks' \in 0 .. MaxChunks
    BY LimitsAssumption DEF FramesInv, StreamTyped
  <1>5. RunnerOK'  BY <1>1, <1>4 DEF RunnerOK, FramesInv, StreamTyped, Places
  <1>6. Underway'  BY <1>1, <1>2, <1>3, GoesOn
  <1> QED  BY <1>1, <1>5, <1>6, AwaitedKeeps

\* When no attempt opens, what is held is discarded, and nothing has been yielded.
LEMMA OpenFailsKeeps ==
    ASSUME Inv, FramesInv, OpenFails
    PROVE  FramesInv'
  <1> USE DEF OpenFails
  <1>1. ~committed /\ ~committed' /\ Awaited  BY DEF FramesInv, Places
  <1>2. attempts' \in 0 .. MaxAttempts  BY LimitsAssumption DEF FramesInv, StreamTyped
  <1>3. RunnerOK'  BY <1>1, <1>2 DEF RunnerOK, FramesInv, StreamTyped, Places
  <1>4. Underway'  BY <1>1 DEF Underway, Going, Failed, Complete
  <1> QED  BY <1>1, <1>3, <1>4, AwaitedKeeps

\* A chunk extends the message, whether its frames are held or yielded.
LEMMA ChunkKeeps ==
    ASSUME Inv, FramesInv, Chunk
    PROVE  FramesInv'
  <1> USE DEF Chunk
  <1>1. Going /\ Going' /\ Awaited  BY DEF Going
  <1>2. Whole(Transcript, ledger) /\ Active(ledger) /\ LedgerOK(ledger)  BY <1>1, GoingFacts
  <1>3. PICK added \in Additions(ledger) \cup {Close(ledger, Open(ledger, Content))} :
           ledger' = added.ledger /\ Push(added.frames)
    OBVIOUS
  <1>4. Extends(Transcript, added)
    <2>1. CASE added \in Additions(ledger)  BY <1>2, <2>1, AdditionExtends
    <2>2. CASE added = Close(ledger, Open(ledger, Content))
      <3>1. Extends(Transcript, Close(ledger, Open(ledger, Content)))
        BY <1>2, CloseContentExtends
      <3> QED  BY <2>2, <3>1
    <2> QED  BY <1>3, <2>1, <2>2
  <1>5. /\ added.frames \in Seq(Frames) /\ LedgerOK(added.ledger) /\ Active(added.ledger)
        /\ Whole(Transcript \o added.frames, added.ledger)
    BY <1>4 DEF Extends, Grown
  <1>6. /\ out' \in Seq(Frames) /\ held' \in Seq(Frames) /\ committed' \in BOOLEAN
        /\ committed => committed'
        /\ committed' => held' = <<>>
        /\ ~committed' => out' = <<>>
        /\ Transcript' = Transcript \o added.frames
    BY <1>3, <1>5, PushWrites DEF FramesInv
  <1>7. chunks' \in 0 .. MaxChunks /\ finished' \in BOOLEAN
    <2>1. chunks' \in 0 .. MaxChunks  BY LimitsAssumption DEF FramesInv, StreamTyped
    <2>2. finished \in BOOLEAN /\ finished' \in {finished, TRUE}  BY DEF FramesInv, StreamTyped
    <2> QED  BY <2>1, <2>2
  <1>8. RunnerOK'  BY <1>3, <1>5, <1>6, <1>7 DEF RunnerOK, FramesInv, StreamTyped
  <1>9. Underway'  BY <1>1, <1>3, <1>5, <1>6, GoesOn
  <1> QED  BY <1>1, <1>6, <1>8, <1>9, AwaitedKeeps

\* The deadline yields what is held.
LEMMA DeadlineKeeps ==
    ASSUME Inv, FramesInv, Deadline
    PROVE  FramesInv'
  <1> USE DEF Deadline
  <1>1. Going /\ Going' /\ Awaited /\ <<>> \in Seq(Frames)  BY DEF Going
  <1>2. /\ Whole(Transcript, ledger) /\ Active(ledger) /\ LedgerOK(ledger)
        /\ Transcript \in Seq(Frames)
    BY <1>1, GoingFacts
  <1>3. /\ out' \in Seq(Frames) /\ held' = <<>> /\ committed' = TRUE
        /\ Transcript' = Transcript \o <<>>
    BY <1>1, FlushWrites DEF FramesInv
  <1>4. Transcript' = Transcript  BY <1>2, <1>3
  <1>5. RunnerOK'  BY <1>1, <1>3 DEF RunnerOK, FramesInv, StreamTyped
  <1>6. Underway'  BY <1>1, <1>2, <1>4, GoesOn
  <1> QED  BY <1>1, <1>3, <1>5, <1>6, AwaitedKeeps

\* The end of the upstream stream changes no frame.
LEMMA EndOfStreamKeeps ==
    ASSUME Inv, FramesInv, EndOfStream
    PROVE  FramesInv'
  <1> USE DEF EndOfStream
  <1>1. Going /\ Going' /\ Awaited  BY DEF Going
  <1>2. Whole(Transcript, ledger) /\ Active(ledger) /\ LedgerOK(ledger)  BY <1>1, GoingFacts
  <1>3. Transcript' = Transcript /\ ledger' = ledger  BY DEF Transcript, asgi
  <1>4. RunnerOK'  BY <1>1 DEF RunnerOK, FramesInv, StreamTyped, Places
  <1>5. Underway'  BY <1>1, <1>2, <1>3, GoesOn
  <1> QED  BY <1>1, <1>4, <1>5, AwaitedKeeps

\* A retry discards what is held; nothing has been yielded.
LEMMA EarlyRetryKeeps ==
    ASSUME Inv, FramesInv, EarlyRetry
    PROVE  FramesInv'
  <1> USE DEF EarlyRetry
  <1>1. ~committed /\ ~committed' /\ Awaited /\ out' = <<>>  BY DEF MayReplay, Awaited
  <1>2. RunnerOK'  BY <1>1 DEF RunnerOK, FramesInv, StreamTyped
  <1>3. Underway'  BY <1>1 DEF Underway, Going, Failed, Complete
  <1> QED  BY <1>1, <1>2, <1>3, AwaitedKeeps

\* A recovery goes on from what has been written.
LEMMA RecoverKeeps ==
    ASSUME Inv, FramesInv, Recover
    PROVE  FramesInv'
  <1> USE DEF Recover
  <1>1. Going /\ Going' /\ Awaited /\ out = <<>>  BY DEF Going, Awaited
  <1>2. Whole(Transcript, ledger) /\ Active(ledger) /\ LedgerOK(ledger)  BY <1>1, GoingFacts
  <1>3. Transcript' = Transcript /\ ledger' = ledger  BY DEF Transcript, asgi
  <1>4. RunnerOK'  BY <1>1 DEF RunnerOK, FramesInv, StreamTyped, Places
  <1>5. Underway'  BY <1>1, <1>2, <1>3, GoesOn
  <1> QED  BY <1>1, <1>4, <1>5, AwaitedKeeps

\* An attempt that fails closes what the client has seen open, or leaves nothing.
LEMMA AbortKeeps ==
    ASSUME Inv, FramesInv, Awaited, Going, Abort, UNCHANGED asgi,
           attempts' \in 0 .. MaxAttempts, UNCHANGED <<chunks, finished>>
    PROVE  FramesInv'
  <1> USE DEF Abort
  <1>1. Whole(Transcript, ledger) /\ Active(ledger) /\ LedgerOK(ledger)  BY GoingFacts
  <1>2. CASE committed \/ Salvageable
    <2> DEFINE closed == Close(ledger, Open(ledger, Content \cup {"tool"}))
    <2>1. Grown(Transcript, closed) /\ AllClosed(closed.ledger)  BY <1>1, CloseAllGrows
    <2>2. ledger' = closed.ledger /\ Flush(closed.frames)  BY <1>2
    <2> HIDE DEF closed
    <2>3. /\ closed.frames \in Seq(Frames) /\ LedgerOK(closed.ledger)
          /\ Whole(Transcript \o closed.frames, closed.ledger)
      BY <2>1 DEF Grown
    <2>4. /\ out' \in Seq(Frames) /\ held' = <<>> /\ committed' = TRUE
          /\ Transcript' = Transcript \o closed.frames
      BY <2>2, <2>3, FlushWrites DEF FramesInv
    <2>5. RunnerOK'  BY <2>2, <2>3, <2>4 DEF RunnerOK, FramesInv, StreamTyped
    <2>6. Underway'  BY <2>1, <2>2, <2>3, <2>4 DEF Underway, Going, Failed, Complete
    <2> QED  BY <2>4, <2>5, <2>6, AwaitedKeeps
  <1>3. CASE ~(committed \/ Salvageable)
    <2>1. ~committed /\ ~committed' /\ held' = <<>> /\ out' = <<>> /\ ledger' = ledger
      BY <1>3 DEF Awaited
    <2>2. run' = "leave" /\ exit' = "raise" /\ read' = "none" /\ <<>> \in Seq(Frames)
      OBVIOUS
    <2>4. RunnerOK'
      <3>1. LedgerOK(ledger') /\ committed' \in BOOLEAN /\ chunks' \in 0 .. MaxChunks
            /\ finished' \in BOOLEAN
        <4>1. committed' = committed  BY <1>3
        <4> QED  BY <2>1, <4>1 DEF FramesInv, StreamTyped
      <3> QED  BY <2>1, <2>2, <3>1 DEF RunnerOK
    <2>3. Underway'  BY <2>1, <2>2 DEF Underway, Going, Failed, Complete
    <2> QED  BY <2>1, <2>3, <2>4, AwaitedKeeps
  <1> QED  BY <1>2, <1>3

\* An error in the stream.
LEMMA FinalErrorKeeps ==
    ASSUME Inv, FramesInv, FinalError
    PROVE  FramesInv'
  <1>1. Awaited /\ Going /\ Abort /\ UNCHANGED <<asgi, attempts, chunks, finished>>
    BY DEF FinalError, Going
  <1>2. attempts' \in 0 .. MaxAttempts  BY <1>1 DEF FramesInv, StreamTyped
  <1>3. UNCHANGED asgi /\ UNCHANGED <<chunks, finished>>  BY <1>1
  <1> QED  BY <1>1, <1>2, <1>3, AbortKeeps

\* An error in the recovery.
LEMMA RecoveryFailsKeeps ==
    ASSUME Inv, FramesInv, RecoveryFails
    PROVE  FramesInv'
  <1>1. Awaited /\ Going /\ Abort /\ UNCHANGED <<asgi, chunks, finished>>
    BY DEF RecoveryFails, Going
  <1>2. attempts' \in 0 .. MaxAttempts
    BY LimitsAssumption DEF RecoveryFails, FramesInv, StreamTyped
  <1>3. UNCHANGED asgi /\ UNCHANGED <<chunks, finished>>  BY <1>1
  <1> QED  BY <1>1, <1>2, <1>3, AbortKeeps

\* The runner ends its message.
LEMMA EndKeeps ==
    ASSUME Inv, FramesInv, Awaited, NEW ending, Finished(Transcript, ending),
           ledger' = ending.ledger, Flush(ending.frames), Complete',
           UNCHANGED asgi, attempts' \in 0 .. MaxAttempts, UNCHANGED <<chunks, finished, read>>
    PROVE  FramesInv'
  <1>1. /\ ending.frames \in Seq(Frames) /\ LedgerOK(ending.ledger)
        /\ Message(Transcript \o ending.frames) /\ Stopped(Transcript \o ending.frames)
    BY DEF Finished
  <1>2. /\ out' \in Seq(Frames) /\ held' = <<>> /\ committed' = TRUE
        /\ Transcript' = Transcript \o ending.frames
    BY <1>1, FlushWrites DEF FramesInv
  <1>3. RunnerOK'  BY <1>1, <1>2 DEF RunnerOK, FramesInv, StreamTyped, Complete
  <1>4. Underway'  BY <1>1, <1>2, IsComplete
  <1> QED  BY <1>2, <1>3, <1>4, AwaitedKeeps

\* A recovery ends the message.
LEMMA RecoveredKeeps ==
    ASSUME Inv, FramesInv, Awaited, NEW written, Grown(Transcript, written), Recovered(written),
           attempts' \in 0 .. MaxAttempts
    PROVE  FramesInv'
  <1> DEFINE ending == Then(written, Finish(written.ledger))
  <1>1. Transcript \in Seq(Frames)  BY AwaitedFacts DEF FramesInv
  <1>2. Finished(Transcript, ending)  BY <1>1, EndingFinishes
  <1>3. /\ ledger' = ending.ledger /\ Flush(ending.frames)
        /\ Complete' /\ UNCHANGED asgi /\ UNCHANGED <<chunks, finished, read>>
    BY DEF Recovered, Complete
  <1> HIDE DEF ending
  <1> QED  BY <1>2, <1>3, EndKeeps

\* A salvaged answer is ended as it is.
LEMMA SalvageKeeps ==
    ASSUME Inv, FramesInv, Salvage
    PROVE  FramesInv'
  <1>1. Awaited /\ Going /\ Recovered(Written(ledger, <<>>)) /\ attempts' = attempts
    BY DEF Salvage, Going
  <1>2. Grown(Transcript, Written(ledger, <<>>))  BY <1>1, GoingFacts, NothingGrows
  <1>3. attempts' \in 0 .. MaxAttempts  BY <1>1 DEF FramesInv, StreamTyped
  <1> QED  BY <1>1, <1>2, <1>3, RecoveredKeeps

\* A repaired answer is ended once its tool calls are whole.
LEMMA RepairKeeps ==
    ASSUME Inv, FramesInv, Repair
    PROVE  FramesInv'
  <1> DEFINE broken == {b \in DOMAIN ledger.blocks :
                          ledger.blocks[b].kind = "tool" /\ ~ledger.blocks[b].whole}
             order == InOrder(broken, Len(ledger.blocks))
             repaired == Written(
                 [ledger EXCEPT !.blocks = [b \in DOMAIN @ |->
                    IF b \in broken THEN [@[b] EXCEPT !.whole = TRUE] ELSE @[b]]],
                 [i \in DOMAIN order |-> Frame("delta", order[i], ledger)])
  <1>1. Awaited /\ Going /\ Recovered(repaired) /\ attempts' \in attempts + 1 .. MaxAttempts
    BY DEF Repair, Going
  <1>2. Grown(Transcript, repaired)
    <2>1. Whole(Transcript, ledger) /\ LedgerOK(ledger) /\ Active(ledger)  BY <1>1, GoingFacts
    <2> QED  BY <2>1, RepairGrows
  <1>3. attempts' \in 0 .. MaxAttempts  BY <1>1, LimitsAssumption DEF FramesInv, StreamTyped
  <1> HIDE DEF repaired
  <1> QED  BY <1>1, <1>2, <1>3, RecoveredKeeps

\* A continued answer is ended after what the recovery adds.
LEMMA ContinueKeeps ==
    ASSUME Inv, FramesInv, Continue
    PROVE  FramesInv'
  <1>1. Awaited /\ Going /\ attempts' \in attempts + 1 .. MaxAttempts
    BY DEF Continue, Going
  <1>2. /\ Whole(Transcript, ledger) /\ LedgerOK(ledger) /\ Active(ledger)
        /\ Transcript \in Seq(Frames)
    BY <1>1, GoingFacts
  <1>0. PICK added \in Additions(ledger) :
           \E more \in {Written(added.ledger, <<>>)} \cup Additions(added.ledger) :
             Recovered(Then(added, more))
    BY DEF Continue
  <1>3. PICK more \in {Written(added.ledger, <<>>)} \cup Additions(added.ledger) :
           Recovered(Then(added, more))
    BY <1>0
  <1>4. Extends(Transcript, added)  BY <1>0, <1>2, AdditionExtends
  <1>5. /\ Grown(Transcript, added) /\ Whole(Transcript \o added.frames, added.ledger)
        /\ LedgerOK(added.ledger) /\ Active(added.ledger)
    BY <1>4 DEF Extends, Grown
  <1>6. Grown(Transcript \o added.frames, more)
    <2>1. CASE more = Written(added.ledger, <<>>)  BY <1>5, <2>1, NothingGrows
    <2>2. CASE more \in Additions(added.ledger)
      BY <1>5, <2>2, AdditionExtends DEF Extends
    <2> QED  BY <1>3, <2>1, <2>2
  <1>7. Grown(Transcript, Then(added, more))  BY <1>2, <1>5, <1>6, ThenGrows
  <1>8. attempts' \in 0 .. MaxAttempts  BY <1>1, LimitsAssumption DEF FramesInv, StreamTyped
  <1> QED  BY <1>1, <1>3, <1>7, <1>8, RecoveredKeeps

\* An answer is ended after what the parsers still have.
LEMMA EndMessageKeeps ==
    ASSUME Inv, FramesInv, EndMessage
    PROVE  FramesInv'
  <1>1. Awaited /\ Going /\ run' = "done" /\ UNCHANGED <<asgi, attempts, chunks, finished, read>>
    BY DEF EndMessage, Going
  <1>2. /\ Whole(Transcript, ledger) /\ LedgerOK(ledger) /\ Active(ledger)
        /\ Transcript \in Seq(Frames)
    BY <1>1, GoingFacts
  <1>3. PICK last \in Endings(ledger) :
           LET ending == Then(last, Finish(last.ledger)) IN
           ledger' = ending.ledger /\ Flush(ending.frames)
    BY DEF EndMessage
  <1>4. PICK rest \in {Written(ledger, <<>>)} \cup Additions(ledger) :
           last = IF Said(rest.ledger) THEN rest ELSE Then(rest, AddContent(rest.ledger, "text"))
    BY <1>3 DEF Endings
  <1>5. Extends(Transcript, rest)
    <2>1. CASE rest = Written(ledger, <<>>)
      <3>1. Grown(Transcript, rest)  BY <1>2, <2>1, NothingGrows
      <3>2. rest.ledger = ledger  BY <2>1 DEF Written
      <3> QED  BY <1>2, <3>1, <3>2 DEF Extends
    <2>2. CASE rest \in Additions(ledger)  BY <1>2, <2>2, AdditionExtends
    <2> QED  BY <1>4, <2>1, <2>2
  <1>6. /\ Grown(Transcript, rest) /\ Whole(Transcript \o rest.frames, rest.ledger)
        /\ LedgerOK(rest.ledger) /\ Active(rest.ledger)
    BY <1>5 DEF Extends, Grown
  <1>7. Grown(Transcript, last)
    <2>1. Grown(Transcript \o rest.frames, AddContent(rest.ledger, "text"))
      BY <1>6, ContentAssumption, AddContentExtends DEF Extends
    <2>2. Grown(Transcript, Then(rest, AddContent(rest.ledger, "text")))
      BY <1>2, <1>6, <2>1, ThenGrows
    <2> QED  BY <1>4, <1>6, <2>2
  <1> DEFINE ending == Then(last, Finish(last.ledger))
  <1>8. Finished(Transcript, ending)  BY <1>2, <1>7, EndingFinishes
  <1>9. ledger' = ending.ledger /\ Flush(ending.frames)  BY <1>3
  <1> HIDE DEF ending
  <1>10. Complete' /\ UNCHANGED asgi /\ UNCHANGED <<chunks, finished, read>>
    BY <1>1 DEF Complete
  <1>11. attempts' \in 0 .. MaxAttempts  BY <1>1 DEF FramesInv, StreamTyped
  <1> QED  BY <1>1, <1>8, <1>9, <1>10, <1>11, EndKeeps

\* The runner leaves its try statement: for a new attempt, or as it was going to.
LEMMA LeavingKeeps ==
    ASSUME Inv, FramesInv, LeaveTry
    PROVE  FramesInv'
  <1> USE DEF LeaveTry, Leaving
  <1>1. UNCHANGED asgi /\ out = <<>> /\ out' = <<>> /\ run = "leave"  BY DEF asgi
  <1>2. CASE Alive
    <2>1. exit \in {"retry", "break", "return", "raise"}  BY <1>1, <1>2 DEF FramesInv, Underway
    <2>2. req \in {"first", "collect", "next"}
      BY <1>2 DEF Alive, Inv, Finalizing
    <2>3. Awaited  BY <1>1, <2>2 DEF Awaited
    <2>4. CASE exit = "retry"
      <3>1. ~committed /\ ~committed' /\ run' = "open" /\ Restarted
        BY <1>1, <1>2, <2>4 DEF FramesInv, Underway
      <3>2. seen' = <<>> /\ sending' = <<>>  BY <1>1, <3>1 DEF FramesInv, Places, asgi
      <3>3. /\ Whole(Transcript', ledger') /\ Active(ledger') /\ LedgerOK(ledger')
            /\ held' \in Seq(Frames)
        BY <1>1, <3>1, <3>2, NewMessage DEF Restarted
      <3>4. RunnerOK'  BY <1>1, <3>1, <3>3 DEF RunnerOK, FramesInv, StreamTyped
      <3>5. Underway'  BY <3>1, <3>3, GoesOn DEF Going
      <3> QED  BY <1>1, <2>3, <3>1, <3>4, <3>5, AwaitedKeeps
    <2>5. CASE exit # "retry"
      <3>1. UNCHANGED <<ledger, held, committed, exit>> /\ run' \in {"tail", "failed", "done"}
        BY <1>1, <2>1, <2>5
      <3>2. Transcript' = Transcript  BY <1>1, <3>1 DEF Transcript, asgi
      <3>3. RunnerOK'  BY <1>1, <3>1 DEF RunnerOK, FramesInv, StreamTyped, Places
      <3>4. /\ Going' => Going
            /\ Failed' => Failed
            /\ Complete' => Complete
        BY <1>1, <2>1, <2>5, <3>1 DEF Going, Failed, Complete
      <3>5. Underway'
        <4>1. req' = req /\ run' # "new" /\ run' # "leave"  BY <1>1, <3>1 DEF asgi
        <4> QED  BY <1>2, <3>1, <3>2, <3>4, <4>1 DEF FramesInv, Underway
      <3> QED  BY <1>1, <2>3, <3>1, <3>3, <3>5, AwaitedKeeps
    <2> QED  BY <2>4, <2>5
  <1>3. CASE ~Alive
    <2>1. exit = "closed"  BY <1>1, <1>3 DEF FramesInv, Outcome
    <2>2. run' = "done" /\ UNCHANGED <<ledger, held, committed, exit>>  BY <1>1, <2>1
    <2>3. ~Alive'  BY <1>1, <1>3 DEF Alive, asgi
    <2>4. StreamTyped'  BY <1>1, <2>2 DEF FramesInv, StreamTyped, asgi
    <2>5. Places'  BY <1>1, <2>2, <2>3 DEF FramesInv, Places, asgi
    <2>6. Outcome'  BY <1>1, <1>3, <2>2, <2>3 DEF FramesInv, Outcome, asgi
    <2>7. Underway'  BY <2>3 DEF Underway
    <2> QED  BY <2>4, <2>5, <2>6, <2>7 DEF FramesInv
  <1> QED  BY <1>2, <1>3

-----------------------------------------------------------------------------
(* The steps of the request task. *)

\* Whatever is written later, nobody gets it.
LEMMA NobodyGetsIt ==
    ASSUME ~Alive', StreamTyped', Places', Outcome'
    PROVE  FramesInv'
  BY DEF FramesInv, Underway

\* A request that is refused.
LEMMA RefuseKeeps ==
    ASSUME Inv, FramesInv, Refuse
    PROVE  FramesInv'
  <1> USE DEF Refuse, runner
  <1>1. run = "new" /\ out = <<>> /\ seen = <<>> /\ sending = <<>> /\ ~Alive'
    BY DEF Inv, Untouched, FramesInv, Places, Alive
  <1>2. StreamTyped'  BY DEF FramesInv, StreamTyped
  <1>3. Places'  BY <1>1 DEF FramesInv, Places
  <1>4. Outcome'  BY <1>1 DEF FramesInv, Outcome
  <1> QED  BY <1>1, <1>2, <1>3, <1>4, NobodyGetsIt

\* A request that is accepted has not been answered.
LEMMA HandleKeeps ==
    ASSUME Inv, FramesInv, Handle
    PROVE  FramesInv'
  <1> USE DEF Handle, runner
  <1>1. run = "new" /\ run' = "new" /\ seen = <<>> /\ Alive /\ Alive' /\ status = "none"
    BY DEF Inv, Untouched, FramesInv, Places, Alive
  <1>2. StreamTyped'  BY DEF FramesInv, StreamTyped
  <1>3. Places'  BY <1>1 DEF FramesInv, Places, Alive
  <1>4. Outcome'  BY <1>1 DEF FramesInv, Outcome, Alive
  <1>5. Underway'  BY <1>1 DEF FramesInv, Underway, Going, Failed, Complete
  <1> QED  BY <1>2, <1>3, <1>4, <1>5 DEF FramesInv

\* What the runner has yielded.
LEMMA YieldedFacts ==
    ASSUME Inv, FramesInv, out # <<>>
    PROVE  /\ committed /\ held = <<>> /\ run \notin {"new", "open", "recover", "tail"}
           /\ Alive
           /\ out \in Seq(Frames) /\ seen \in Seq(Frames) /\ sending \in Seq(Frames)
           /\ <<>> \in Seq(Frames)
           /\ <<Head(out)>> \in Seq(Frames) /\ Tail(out) \in Seq(Frames)
  <1>1. committed /\ held = <<>> /\ run \notin {"new", "open", "recover", "tail"} /\ Alive
    BY DEF FramesInv, Places, Outcome
  <1>2. out \in Seq(Frames) /\ seen \in Seq(Frames) /\ sending \in Seq(Frames)
    BY DEF FramesInv, StreamTyped
  <1> QED  BY <1>1, <1>2, HeadMoves

\* A frame is fetched from the runner.
LEMMA FetchKeeps ==
    ASSUME Inv, FramesInv, out # <<>>, sending' = <<Head(out)>>, out' = Tail(out),
           req \in {"first", "next"}, status' = "stream",
           req' = IF req = "first" THEN "respond" ELSE "send",
           UNCHANGED <<seen, gone, run, exit, ledger, held, committed, attempts, chunks,
                       finished, read>>
    PROVE  FramesInv'
  <1>1. /\ committed /\ held = <<>> /\ run \notin {"new", "open", "recover", "tail"}
        /\ Alive /\ Alive' /\ sending = <<>>
        /\ out \in Seq(Frames) /\ seen \in Seq(Frames) /\ <<>> \in Seq(Frames)
        /\ <<Head(out)>> \in Seq(Frames) /\ Tail(out) \in Seq(Frames)
    BY YieldedFacts DEF FramesInv, Places, Alive
  <1>2. Transcript' = Transcript
    <2>1. Transcript = seen \o out  BY <1>1, FourParts DEF Transcript
    <2>2. Transcript' = seen' \o sending' \o out' \o held'  BY DEF Transcript
    <2>3. Transcript' = (seen \o <<Head(out)>>) \o Tail(out)
      BY SMTT(30), <1>1, <2>2, FourParts
    <2>4. (seen \o <<Head(out)>>) \o Tail(out) = seen \o out  BY <1>1, HeadMoves
    <2> QED  BY <2>1, <2>3, <2>4
  <1>3. StreamTyped'  BY <1>1 DEF FramesInv, StreamTyped
  <1>4. Places'  BY <1>1 DEF FramesInv, Places
  <1>5. Outcome'  BY <1>1 DEF FramesInv, Outcome
  <1>6. Underway'  BY <1>1, <1>2 DEF FramesInv, Underway, Going, Failed, Complete
  <1> QED  BY <1>3, <1>4, <1>5, <1>6 DEF FramesInv

\* The first frame of a stream.
LEMMA FirstFrameKeeps ==
    ASSUME Inv, FramesInv, FirstFrame
    PROVE  FramesInv'
  BY FetchKeeps DEF FirstFrame

\* Another frame of a stream.
LEMMA NextFrameKeeps ==
    ASSUME Inv, FramesInv, NextFrame
    PROVE  FramesInv'
  <1>1. status = "stream"  BY DEF NextFrame, FramesInv, Places
  <1> QED  BY <1>1, FetchKeeps DEF NextFrame

\* An error in place of a response: what was aggregated is discarded.
LEMMA NoFrameKeeps ==
    ASSUME Inv, FramesInv, NoFrame
    PROVE  FramesInv'
  <1> USE DEF NoFrame, runner
  <1>1. ~Alive' /\ sending = <<>> /\ <<>> \in Seq(Frames)  BY DEF Alive, FramesInv, Places
  <1>2. StreamTyped'  BY <1>1 DEF FramesInv, StreamTyped
  <1>3. Places'  BY <1>1 DEF FramesInv, Places
  <1>4. Message(<<>>)  BY <1>1 DEF Message, Ordered
  <1>5. Outcome'  BY <1>1, <1>4 DEF FramesInv, Outcome
  <1> QED  BY <1>1, <1>2, <1>3, <1>5, NobodyGetsIt

\* A frame is aggregated: what has been aggregated begins a message.
LEMMA CollectKeeps ==
    ASSUME Inv, FramesInv, Collect
    PROVE  FramesInv'
  <1> USE DEF Collect
  <1>1. /\ committed /\ held = <<>> /\ run \notin {"new", "open", "recover", "tail"}
        /\ Alive /\ Alive' /\ sending = <<>> /\ sending' = <<>> /\ held' = <<>>
        /\ out \in Seq(Frames) /\ seen \in Seq(Frames) /\ <<>> \in Seq(Frames)
        /\ Tail(out) \in Seq(Frames)
    BY YieldedFacts DEF FramesInv, Places, Alive
  <1>2. /\ seen' \in Seq(Frames) /\ out' \in Seq(Frames)
        /\ seen' \o out' = seen \o out
    BY <1>1, HeadMoves
  <1>3. Transcript = seen \o out  BY <1>1, FourParts DEF Transcript
  <1>4. Transcript' = Transcript
    <2>1. Transcript' = seen' \o sending' \o out' \o held'  BY DEF Transcript
    <2>2. Transcript' = seen' \o out'
      <3> HIDE DEF Collect
      <3> QED  BY SMTT(30), <1>1, <1>2, <2>1, FourParts
    <2> QED  BY <1>2, <1>3, <2>2
  <1>5. Message(seen')
    <2>1. Message(Transcript)  BY <1>1, TranscriptIsMessage DEF FramesInv, Inv
    <2>2. Transcript = seen' \o out'  BY <1>2, <1>3
    <2> HIDE DEF Collect
    <2> QED  BY <1>2, <2>1, <2>2, FirstPart DEF FramesInv
  <1>6. StreamTyped'  BY <1>1, <1>2 DEF FramesInv, StreamTyped
  <1>7. Places'  BY <1>1 DEF FramesInv, Places
  <1>8. Outcome'  BY <1>1, <1>5 DEF FramesInv, Outcome, Places
  <1>9. Underway'  BY <1>1, <1>4 DEF FramesInv, Underway, Going, Failed, Complete
  <1> QED  BY <1>6, <1>7, <1>8, <1>9 DEF FramesInv

\* An aggregated message is a whole one.
LEMMA CollectedKeeps ==
    ASSUME Inv, FramesInv, Collected
    PROVE  FramesInv'
  <1> USE DEF Collected, runner
  <1>1. Alive /\ ~Alive' /\ sending = <<>>  BY DEF Alive, FramesInv, Places
  <1>2. committed /\ Stopped(Transcript)
    BY <1>1 DEF FramesInv, Underway, Complete
  <1>3. held = <<>>  BY <1>2 DEF FramesInv, Places
  <1>4. Transcript = seen
    <2>1. seen \in Seq(Frames) /\ <<>> \in Seq(Frames)  BY DEF FramesInv, StreamTyped
    <2> QED  BY <1>1, <1>3, <2>1, FourParts DEF Transcript
  <1>5. StreamTyped'  BY DEF FramesInv, StreamTyped
  <1>6. Places'  BY <1>1 DEF FramesInv, Places
  <1>7. Outcome'  BY <1>1, <1>2, <1>4 DEF FramesInv, Outcome
  <1> QED  BY <1>1, <1>5, <1>6, <1>7, NobodyGetsIt

\* The response is started.
LEMMA RespondKeeps ==
    ASSUME Inv, FramesInv, Respond
    PROVE  FramesInv'
  <1> USE DEF Respond, runner
  <1>1. Alive /\ Alive' /\ Transcript' = Transcript  BY DEF Alive, Transcript
  <1>2. StreamTyped'  BY DEF FramesInv, StreamTyped
  <1>3. Places'  BY <1>1 DEF FramesInv, Places
  <1>4. Outcome'  BY <1>1 DEF FramesInv, Outcome
  <1>5. Underway'  BY <1>1 DEF FramesInv, Underway, Going, Failed, Complete
  <1> QED  BY <1>2, <1>3, <1>4, <1>5 DEF FramesInv

\* A frame is sent: what the client has begins a message.
LEMMA SendKeeps ==
    ASSUME Inv, FramesInv, Send
    PROVE  FramesInv'
  <1> USE DEF Send, runner
  <1>1. /\ Alive /\ Alive' /\ committed /\ status = "stream" /\ held = <<>>
        /\ seen \in Seq(Frames) /\ sending \in Seq(Frames) /\ out \in Seq(Frames)
        /\ <<>> \in Seq(Frames)
    BY DEF Alive, FramesInv, Places, StreamTyped
  <1>2. Transcript = (seen \o sending) \o out  BY <1>1, FourParts DEF Transcript
  <1>3. seen' \in Seq(Frames) /\ sending' = <<>> /\ out' = out /\ held' = <<>>  BY <1>1
  <1>4. Transcript' = Transcript
    <2>1. Transcript' = seen' \o sending' \o out' \o held'  BY DEF Transcript
    <2>2. seen' = seen \o sending  OBVIOUS
    <2> HIDE DEF Send
    <2>3. Transcript' = seen' \o out'  BY <1>1, <1>3, <2>1, FourParts
    <2> QED  BY <1>2, <1>3, <2>2, <2>3
  <1>5. Message(seen')
    <2>1. Message(Transcript)  BY <1>1, TranscriptIsMessage DEF FramesInv, Inv
    <2>2. Transcript = seen' \o out  BY <1>2
    <2> HIDE DEF Send
    <2> QED  BY <1>1, <1>3, <2>1, <2>2, FirstPart DEF FramesInv
  <1>6. StreamTyped'  BY <1>1, <1>3 DEF FramesInv, StreamTyped
  <1>7. Places'  BY <1>1 DEF FramesInv, Places, Alive
  <1>8. Outcome'  BY <1>1, <1>5 DEF FramesInv, Outcome
  <1>9. Underway'  BY <1>1, <1>4 DEF FramesInv, Underway, Going, Failed, Complete
  <1> QED  BY <1>6, <1>7, <1>8, <1>9 DEF FramesInv

\* An error in a stream is its last frame, and its blocks are closed.
LEMMA TerminalFrameKeeps ==
    ASSUME Inv, FramesInv, TerminalFrame
    PROVE  FramesInv'
  <1> USE DEF TerminalFrame
  <1>1. /\ Alive /\ Alive' /\ committed /\ status = "stream" /\ held = <<>> /\ sending = <<>>
        /\ seen \in Seq(Frames) /\ <<>> \in Seq(Frames) /\ LedgerOK(ledger) /\ Failed
    BY DEF Alive, FramesInv, Places, StreamTyped, Failed
  <1>2. Transcript = seen  BY <1>1, FourParts DEF Transcript
  <1>3. Whole(seen, ledger) /\ AllClosed(ledger)  BY <1>1, <1>2 DEF FramesInv, Underway
  <1>4. LET u == seen \o sending' IN
        sending' \in Seq(Frames) /\ Message(u) /\ u # <<>> /\ u[Len(u)].kind = "error"
    <2>1. "error" \in Last  BY DEF Last
    <2> QED  BY <1>1, <1>3, <2>1, LastFrame
  <1>5. Transcript' = seen \o sending'
    <2>1. Transcript' = seen' \o sending' \o out' \o held'  BY DEF Transcript
    <2>2. seen' = seen /\ out' = <<>> /\ held' = <<>>  BY <1>1
    <2>3. (seen \o sending') \o <<>> = seen \o sending'
      <3>1. seen \o sending' \in Seq(Frames)  BY <1>1, <1>4
      <3> HIDE DEF TerminalFrame
      <3> QED  BY <3>1
    <2>4. Transcript' = (seen \o sending') \o <<>>
      <3> HIDE DEF TerminalFrame
      <3> QED  BY <1>1, <1>4, <2>1, <2>2, FourParts
    <2> QED  BY <2>3, <2>4
  <1>6. StreamTyped'  BY <1>1, <1>4 DEF FramesInv, StreamTyped
  <1>7. Places'  BY <1>1 DEF FramesInv, Places
  <1>8. Outcome'  BY <1>1 DEF FramesInv, Outcome
  <1>9. Underway'
    <2>1. run' = "done" /\ req' = "send" /\ committed'  BY <1>1
    <2>2. Message(Transcript') /\ Ends(Transcript')  BY <1>4, <1>5 DEF Ends, Last
    <2> HIDE DEF TerminalFrame
    <2> QED  BY <2>1, <2>2 DEF Underway, Going, Failed, Complete
  <1> QED  BY <1>6, <1>7, <1>8, <1>9 DEF FramesInv

\* A stream that is over has been ended.
LEMMA SentKeeps ==
    ASSUME Inv, FramesInv, Sent
    PROVE  FramesInv'
  <1> USE DEF Sent, Finalize, CloseBody
  <1>1. /\ Alive /\ ~Alive' /\ committed /\ status = "stream" /\ held = <<>> /\ sending = <<>>
        /\ seen \in Seq(Frames) /\ <<>> \in Seq(Frames) /\ Complete
        /\ out = <<>> /\ out' = <<>> /\ sending' = <<>> /\ run' = "done"
    BY DEF Alive, FramesInv, Places, StreamTyped, Complete
  <1>2. Transcript = seen  BY <1>1, FourParts DEF Transcript
  <1>3. Ends(seen)  BY <1>1, <1>2 DEF FramesInv, Underway
  <1>4. StreamTyped'  BY <1>1 DEF FramesInv, StreamTyped
  <1>5. Places'  BY <1>1 DEF FramesInv, Places
  <1>6. Outcome'  BY <1>1, <1>3 DEF FramesInv, Outcome
  <1> QED  BY <1>1, <1>4, <1>5, <1>6, NobodyGetsIt

\* The client is gone: what it has begins a message.
LEMMA SendFailsKeeps ==
    ASSUME Inv, FramesInv, SendFails
    PROVE  FramesInv'
  <1> USE DEF SendFails, Finalize, CloseBody
  <1>1. /\ Alive /\ ~Alive' /\ committed /\ status = "stream" /\ gone'
        /\ <<>> \in Seq(Frames) /\ out' = <<>> /\ sending' = <<>>
        /\ run \notin {"new", "open", "recover", "tail"}
    BY DEF Alive, FramesInv, Places
  <1>2. /\ run' \notin {"new", "open", "read", "recover", "tail"}
        /\ run' = "leave" => exit' = "closed"
    BY <1>1
  <1>3. read' \in {"none", "pending", "orphan"}  BY DEF FramesInv, StreamTyped
  <1>4. StreamTyped'  BY <1>1, <1>3 DEF FramesInv, StreamTyped
  <1>5. Places'  BY <1>1, <1>2 DEF FramesInv, Places
  <1>6. Outcome'  BY <1>1, <1>2 DEF FramesInv, Outcome
  <1> QED  BY <1>1, <1>4, <1>5, <1>6, NobodyGetsIt

\* The request is cancelled: what the client has begins a message.
LEMMA CancelKeeps ==
    ASSUME Inv, FramesInv, Cancel
    PROVE  FramesInv'
  <1> USE DEF Cancel
  <1>1. /\ Alive /\ ~Alive' /\ out = <<>> /\ out' = <<>> /\ sending = <<>> /\ sending' = <<>>
        /\ <<>> \in Seq(Frames) /\ gone' /\ run' \in {"done", "leave"} /\ exit' = "closed"
    BY DEF Alive, FramesInv, Places, Awaited
  <1>2. seen' = seen \/ seen' = <<>>  OBVIOUS
  <1>3. Message(seen')
    <2>1. Message(<<>>)  BY <1>1 DEF Message, Ordered
    <2> QED  BY <1>2, <2>1 DEF FramesInv, Outcome
  <1>4. status' = "stream" \/ seen' = <<>>
    BY DEF Awaited, FramesInv, Places
  <1>5. StreamTyped'  BY <1>1, <1>2 DEF FramesInv, StreamTyped
  <1>6. Places'  BY <1>1, <1>2 DEF FramesInv, Places
  <1>7. Outcome'  BY <1>1, <1>3, <1>4 DEF FramesInv, Outcome
  <1> QED  BY <1>1, <1>5, <1>6, <1>7, NobodyGetsIt

\* The last steps: nobody gets anything more.
LEMMA UnwoundKeeps ==
    ASSUME Inv, FramesInv, Unwound
    PROVE  FramesInv'
  <1> USE DEF Unwound, runner
  <1>1. ~Alive /\ ~Alive' /\ gone /\ out = <<>> /\ sending = <<>>
    BY DEF Alive, FramesInv, Outcome, Places
  <1>2. StreamTyped'  BY DEF FramesInv, StreamTyped
  <1>3. Places'  BY <1>1 DEF FramesInv, Places
  <1>4. Outcome'  BY <1>1 DEF FramesInv, Outcome, StreamTyped
  <1> QED  BY <1>1, <1>2, <1>3, <1>4, NobodyGetsIt

\* The finalization task is done.
LEMMA CleanupKeeps ==
    ASSUME Inv, FramesInv, Cleanup
    PROVE  FramesInv'
  <1> USE DEF Cleanup, runner
  <1>1. req = "finalize"  BY DEF Inv, Finalizing
  <1>2. ~Alive /\ ~Alive'  BY <1>1 DEF Alive
  <1>3. StreamTyped'  BY DEF FramesInv, StreamTyped
  <1>4. Places'  BY <1>2 DEF FramesInv, Places
  <1>5. Outcome'  BY <1>2 DEF FramesInv, Outcome
  <1> QED  BY <1>2, <1>3, <1>4, <1>5, NobodyGetsIt

\* The request ends.
LEMMA EndsKeep ==
    ASSUME Inv, FramesInv, Release \/ Finalized
    PROVE  FramesInv'
  <1> USE DEF Release, Finalized, runner
  <1>1. ~Alive /\ ~Alive' /\ req \in {"release", "finalize"} /\ req' = "end"  BY DEF Alive
  <1>2. StreamTyped'  BY DEF FramesInv, StreamTyped
  <1>3. Places'  BY <1>1 DEF FramesInv, Places
  <1>4. Outcome'  BY <1>1 DEF FramesInv, Outcome
  <1> QED  BY <1>1, <1>2, <1>3, <1>4, NobodyGetsIt

\* A read that nobody awaits changes no frame.
LEMMA ReadEndsKeeps ==
    ASSUME Inv, FramesInv, ReadEnds
    PROVE  FramesInv'
  <1> USE DEF ReadEnds, asgi
  <1>1. Transcript' = Transcript  BY DEF Transcript
  <1>2. StreamTyped'  BY DEF FramesInv, StreamTyped
  <1>3. Places'  BY DEF FramesInv, Places, Alive
  <1>4. Outcome'  BY DEF FramesInv, Outcome, Alive
  <1>5. Underway'  BY <1>1 DEF FramesInv, Underway, Going, Failed, Complete, Alive
  <1> QED  BY <1>2, <1>3, <1>4, <1>5 DEF FramesInv

\* Nothing happens.
LEMMA StutterKeeps ==
    ASSUME FramesInv, UNCHANGED vars
    PROVE  FramesInv'
  <1> USE DEF vars, asgi, runner
  <1>1. Transcript' = Transcript  BY DEF Transcript
  <1>2. StreamTyped'  BY DEF FramesInv, StreamTyped
  <1>3. Places'  BY DEF FramesInv, Places, Alive
  <1>4. Outcome'  BY DEF FramesInv, Outcome, Alive
  <1>5. Underway'  BY <1>1 DEF FramesInv, Underway, Going, Failed, Complete, Alive
  <1> QED  BY <1>2, <1>3, <1>4, <1>5 DEF FramesInv

\* Every step.
LEMMA StepKeepsFrames ==
    ASSUME Inv, FramesInv, [Next]_vars
    PROVE  FramesInv'
  <1>1. CASE Runner
    BY <1>1, BeginKeeps, OpenStreamKeeps, OpenFailsKeeps, ChunkKeeps, DeadlineKeeps,
       EndOfStreamKeeps, EarlyRetryKeeps, RecoverKeeps, FinalErrorKeeps, SalvageKeeps,
       RepairKeeps, ContinueKeeps, RecoveryFailsKeeps, EndMessageKeeps, LeavingKeeps
    DEF Runner
  <1>2. CASE Request
    BY <1>2, RefuseKeeps, HandleKeeps, FirstFrameKeeps, NoFrameKeeps, CollectKeeps,
       CollectedKeeps, RespondKeeps, SendKeeps, NextFrameKeeps, TerminalFrameKeeps,
       SentKeeps, SendFailsKeeps, UnwoundKeeps, CleanupKeeps, EndsKeep
    DEF Request
  <1> QED  BY <1>1, <1>2, CancelKeeps, ReadEndsKeeps, StutterKeeps DEF Next

\* Nothing has been written.
LEMMA InitWrites == Init => FramesInv
  <1> SUFFICES ASSUME Init PROVE FramesInv  OBVIOUS
  <1> USE DEF Init
  <1>1. <<>> \in Seq(Frames) /\ <<>> \in Seq(Block)  OBVIOUS
  <1>2. LedgerOK(ledger)  BY <1>1 DEF LedgerOK
  <1>3. StreamTyped
    <2>1. attempts \in 0 .. MaxAttempts /\ chunks \in 0 .. MaxChunks  BY LimitsAssumption
    <2>2. seen \in Seq(Frames) /\ sending \in Seq(Frames) /\ out \in Seq(Frames)
          /\ held \in Seq(Frames)
      BY <1>1
    <2>3. /\ status \in {"none", "error", "message", "stream"}
          /\ read \in {"none", "pending", "orphan"}
          /\ committed \in BOOLEAN /\ finished \in BOOLEAN /\ gone \in BOOLEAN
      OBVIOUS
    <2> HIDE DEF Init
    <2> QED  BY <1>2, <2>1, <2>2, <2>3 DEF StreamTyped
  <1>4. Places  BY DEF Places, Alive
  <1>5. Underway  BY DEF Underway, Going, Failed, Complete
  <1>6. Message(<<>>)  BY <1>1 DEF Message, Ordered
  <1>7. Outcome  BY <1>6 DEF Outcome, Alive
  <1> QED  BY <1>3, <1>4, <1>5, <1>7 DEF FramesInv

-----------------------------------------------------------------------------
\* What the client has got is one message, in the words of the model.
LEMMA MessageIsOne ==
    ASSUME Message(seen)
    PROVE  OneMessage
  <1>1. seen \in Seq(Frames) /\ DOMAIN seen = 1 .. Len(seen) /\ Len(seen) \in Nat
    BY DEF Message
  <1>2. \A i \in DOMAIN seen :
           /\ seen[i].of = seen[1].of
           /\ seen[i].kind = "start" <=> i = 1
           /\ seen[i].kind \in {"stop", "error"} => i = Len(seen)
    BY <1>1 DEF Message, Ordered, Last
  <1>3. \A i \in DOMAIN seen : seen[i] \in Frames  BY <1>1
  <1>4. ASSUME NEW b \in Blocks
        PROVE  \E first \in At("open", b) :
                  /\ At("open", b) = {first}
                  /\ \A i \in At("delta", b) \cup At("close", b) : first < i
                  /\ \A i \in At("delta", b), j \in At("close", b) : i < j
                  /\ \A i, j \in At("close", b) : i = j
                  /\ EndsWith("stop") \/ EndsWith("error") => At("close", b) # {}
                  /\ \A i \in At("open", b + 1) : first < i
    <2>1. PICK i \in 1 .. Len(seen) : seen[i].block = b /\ b # 0
      BY <1>1 DEF Blocks
    <2>2. b \in Nat /\ seen[i].kind \in Kinds \ Blank
      <3>1. seen[i].kind \in Blank <=> seen[i].block = 0  BY DEF Message, Ordered
      <3>2. seen[i] \in Frames  BY <1>1
      <3> QED  BY <2>1, <3>1, <3>2 DEF Frames
    <2>3. \E first \in 1 .. Len(seen) : seen[first].kind = "open" /\ seen[first].block = b
      <3>1. CASE seen[i].kind = "open"  BY <2>1, <3>1
      <3>2. CASE seen[i].kind \in {"delta", "close"}
        <4>1. PICK j \in 1 .. i - 1 : seen[j].kind = "open" /\ seen[j].block = seen[i].block
          BY <3>2 DEF Message, Ordered
        <4>2. j \in 1 .. Len(seen)  BY <1>1
        <4> QED  BY <2>1, <4>1, <4>2
      <3> QED  BY <2>2, <3>1, <3>2 DEF Kinds, Blank
    <2>4. PICK first \in 1 .. Len(seen) : seen[first].kind = "open" /\ seen[first].block = b
      BY <2>3
    <2>5. \A j \in 1 .. Len(seen) : seen[j].kind = "open" /\ seen[j].block = b => j = first
      BY <2>4 DEF Message, Ordered
    <2>6. first \in At("open", b) /\ At("open", b) = {first}  BY <1>1, <2>4, <2>5 DEF At
    <2>7. ASSUME NEW j \in At("delta", b) \cup At("close", b) PROVE first < j
      <3>1. j \in 1 .. Len(seen) /\ seen[j].kind \in {"delta", "close"} /\ seen[j].block = b
        BY <1>1 DEF At
      <3>2. PICK k \in 1 .. j - 1 : seen[k].kind = "open" /\ seen[k].block = b
        BY <3>1 DEF Message, Ordered
      <3>3. k \in 1 .. Len(seen)  BY <1>1, <3>1
      <3>4. k = first  BY <2>5, <3>2, <3>3
      <3> QED  BY <1>1, <3>1, <3>2, <3>4
    <2>12. \A j, k \in 1 .. Len(seen) :
              seen[j].block = seen[k].block =>
                 /\ seen[j].kind = "delta" /\ seen[k].kind = "close" => j < k
                 /\ seen[j].kind = "close" /\ seen[k].kind = "close" => j = k
      BY SMTT(30)  DEF Message, Ordered
    <2>8. \A j \in At("delta", b), k \in At("close", b) : j < k  BY <1>1, <2>12 DEF At
    <2>9. \A j, k \in At("close", b) : j = k  BY <1>1, <2>12 DEF At
    <2>10. ASSUME EndsWith("stop") \/ EndsWith("error") PROVE At("close", b) # {}
      <3>1. seen # <<>> /\ seen[Len(seen)].kind \in Last  BY <2>10 DEF EndsWith, Last
      <3>2. Len(seen) \in 1 .. Len(seen)  BY <1>1, <3>1
      <3>3. PICK k \in 1 .. Len(seen) : seen[k].kind = "close" /\ seen[k].block = seen[first].block
        BY <2>4, <3>1, <3>2 DEF Message
      <3> QED  BY <1>1, <2>4, <3>3 DEF At
    <2>11. ASSUME NEW j \in At("open", b + 1) PROVE first < j
      <3>1. j \in 1 .. Len(seen) /\ seen[j].kind = "open" /\ seen[j].block = b + 1
        BY <1>1 DEF At
      <3>2. seen[first].block < seen[j].block  BY <2>2, <2>4, <3>1
      <3> QED  BY <2>4, <3>1, <3>2 DEF Message, Ordered
    <2> QED  BY <2>6, <2>7, <2>8, <2>9, <2>10, <2>11
  <1> QED  BY <1>2, <1>4 DEF OneMessage

\* The invariant says of the client what the model promises.
LEMMA FramesAreSound ==
    ASSUME Inv, FramesInv
    PROVE  StreamIsSound
  <1>1. OneMessage  BY MessageIsOne DEF FramesInv, Outcome
  <1>2. TypeOK
    <2>1. \A i \in DOMAIN seen : seen[i].kind \in Kinds
      <3>1. \A i \in DOMAIN seen : seen[i] \in Frames  BY DEF FramesInv, StreamTyped
      <3> QED  BY <3>1 DEF Frames
    <2> QED  BY <2>1 DEF TypeOK, FramesInv, StreamTyped, Places, Inv, Control, Requests, Runs, Exits
  <1>3. OutcomeIsHonest
    <2>1. Ends(seen) => EndsWith("stop") \/ EndsWith("error")  BY DEF Ends, EndsWith, Last
    <2>2. Stopped(seen) => EndsWith("stop")  BY DEF Stopped, EndsWith
    <2> QED  BY <2>1, <2>2 DEF OutcomeIsHonest, FramesInv, Outcome, Alive
  <1> QED  BY <1>1, <1>2, <1>3 DEF StreamIsSound

\* Whatever was retried, recovered, repaired or interrupted, the client gets one
\* message, or the beginning of one, and an outcome that says which.
THEOREM StreamIsSoundCorrect == Spec => []StreamIsSound
  <1>1. Init => Inv /\ FramesInv  BY InitOwns, InitWrites
  <1>2. Inv /\ FramesInv /\ [Next]_vars => (Inv /\ FramesInv)'  BY StepKeeps, StepKeepsFrames
  <1>3. Inv /\ FramesInv => StreamIsSound  BY FramesAreSound
  <1> QED  BY <1>1, <1>2, <1>3, PTL DEF Spec
=============================================================================
