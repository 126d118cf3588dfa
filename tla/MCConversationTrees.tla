------------------------- MODULE MCConversationTrees -------------------------
(***************************************************************************)
(* Model checking of ConversationTrees: message ids are interchangeable,    *)
(* and two shapes of behaviour are explored where each is small enough.     *)
(***************************************************************************)
EXTENDS ConversationTrees, TLC

Symmetry == Permutations(Ids) \cup Permutations(Chats)

Used == {turn[t].msg : t \in Admitted} \cup {m \in Messages : inbox[m].at # "idle"}

\* Several chats and trees, which come and go under the same message ids.
ManyTrees == Cardinality({m[2] : m \in Used}) <= 1 /\ commands <= 2

\* A chat without messages is cleared.
ClearsNothing == cmd.at = "draining" /\ cmd.chat # None /\ cmd.chat \notin {m[1] : m \in Used}

\* One tree, whose messages arrive one by one, and more commands.
OneTree ==
    /\ Cardinality({m[1] : m \in Used}) <= 1
    /\ Cardinality({t \in Admitted : Root(t) = t}) <= 1
    /\ Cardinality({m \in Messages : inbox[m].at # "idle"}) <= 1
    /\ session = {} /\ ~ClearsNothing

Shape == ManyTrees \/ OneTree
=============================================================================
