---------------------------- MODULE RuntimeLeases ----------------------------
(***************************************************************************)
(* What the provider manager promises: one runtime is served at a time,     *)
(* users join only the served one, a superseded runtime is disposed of once *)
(* its users have left, and a failed disposal may be tried again.           *)
(* ProviderGenerations implements this specification.                       *)
(***************************************************************************)
EXTENDS FiniteSets

CONSTANTS Runtimes, Users, First

VARIABLES
    serving,  \* the runtime offered to new users, as a set of at most one
    old,      \* superseded, or prepared and never served
    going,    \* being disposed of
    gone,     \* disposed of
    users     \* who uses each runtime

life == <<serving, old, going, gone>>
Known == serving \cup old \cup going \cup gone

Init ==
    /\ serving = {First}
    /\ old = {} /\ going = {} /\ gone = {}
    /\ users = [r \in Runtimes |-> {}]

Join(r, u) ==
    /\ r \in serving
    /\ \A q \in Runtimes : u \notin users[q]
    /\ users' = [users EXCEPT ![r] = @ \cup {u}]
    /\ UNCHANGED life

\* r supersedes the served runtime, whose disposal may begin at once.
Supersede(r) ==
    /\ serving # {} /\ r \notin Known
    /\ serving' = {r}
    /\ \E now \in SUBSET {q \in serving : users[q] = {}} :
          /\ going' = going \cup now
          /\ old' = old \cup (serving \ now)
    /\ UNCHANGED <<gone, users>>

\* r is prepared and thrown away.
Abandon(r) ==
    /\ serving # {} /\ r \notin Known
    /\ old' = old \cup {r}
    /\ UNCHANGED <<serving, going, gone, users>>

\* Shutdown: nothing is served any more.
Withdraw ==
    /\ old' = old \cup serving
    /\ serving' = {}
    /\ UNCHANGED <<going, gone, users>>

\* u leaves r; disposal begins of old runtimes that nobody uses.
Leave(r, u) ==
    /\ u \in users[r]
    /\ users' = [users EXCEPT ![r] = @ \ {u}]
    /\ \E now \in SUBSET {q \in old : users'[q] = {}} :
          old' = old \ now /\ going' = going \cup now
    /\ UNCHANGED <<serving, gone>>

DisposalBegins ==
    /\ \E now \in SUBSET {q \in old : users[q] = {}} :
          old' = old \ now /\ going' = going \cup now
    /\ UNCHANGED <<serving, gone, users>>

DisposalFails(r) ==
    /\ r \in going
    /\ going' = going \ {r} /\ old' = old \cup {r}
    /\ UNCHANGED <<serving, gone, users>>

DisposalEnds(r) ==
    /\ r \in going \/ (r \in old /\ users[r] = {})
    /\ going' = going \ {r} /\ old' = old \ {r} /\ gone' = gone \cup {r}
    /\ UNCHANGED <<serving, users>>

Next ==
    \/ \E r \in Runtimes :
          \/ \E u \in Users : Join(r, u) \/ Leave(r, u)
          \/ Supersede(r) \/ Abandon(r) \/ DisposalFails(r) \/ DisposalEnds(r)
    \/ Withdraw \/ DisposalBegins

Spec == Init /\ [][Next]_<<life, users>>
=============================================================================
