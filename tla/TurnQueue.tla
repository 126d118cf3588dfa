------------------------------ MODULE TurnQueue ------------------------------
(***************************************************************************)
(* What conversation trees promise about scheduling: each line serves one   *)
(* turn at a time, in the order of arrival; a turn joins one line once, and *)
(* one that has been withdrawn or served is never served again.             *)
(* ConversationTrees implements this specification, a line for each tree.   *)
(***************************************************************************)
EXTENDS Naturals, Sequences, Queues

CONSTANT Turns  \* numbered from 1 in the order in which they join

VARIABLES
    waiting,  \* per line, the turns that wait, first come first
    serving,  \* per line, the turn being served, or 0
    last      \* the newest turn that has joined

Lines == Turns

Init ==
    /\ waiting = [l \in Lines |-> <<>>]
    /\ serving = [l \in Lines |-> 0]
    /\ last = 0

\* The next turn joins l: it is served at once when nobody is.
Join(l) ==
    /\ last + 1 \in Turns
    /\ last' = last + 1
    /\ \/ /\ serving[l] = 0 /\ waiting[l] = <<>>
          /\ serving' = [serving EXCEPT ![l] = last + 1]
          /\ UNCHANGED waiting
       \/ /\ serving[l] # 0
          /\ waiting' = [waiting EXCEPT ![l] = Append(@, last + 1)]
          /\ UNCHANGED serving

\* The turns of gone wait no longer, the others keep their places.
Withdraw(gone) ==
    /\ waiting' = [l \in Lines |-> Without(waiting[l], gone)]
    /\ UNCHANGED <<serving, last>>

\* The turn served leaves, and the first of those that wait is served.
Advance(l) ==
    /\ serving[l] # 0
    /\ IF waiting[l] = <<>>
       THEN serving' = [serving EXCEPT ![l] = 0] /\ UNCHANGED waiting
       ELSE /\ serving' = [serving EXCEPT ![l] = Head(waiting[l])]
            /\ waiting' = [waiting EXCEPT ![l] = Tail(@)]
    /\ UNCHANGED last

\* The process stops: nobody waits and nobody is served any more.
Stop ==
    /\ waiting' = [l \in Lines |-> <<>>]
    /\ serving' = [l \in Lines |-> 0]
    /\ UNCHANGED last

Next ==
    \/ \E l \in Lines : Join(l) \/ Advance(l)
    \/ \E gone \in SUBSET Turns : Withdraw(gone)
    \/ Stop

Spec == Init /\ [][Next]_<<waiting, serving, last>>
=============================================================================
