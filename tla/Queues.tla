-------------------------------- MODULE Queues --------------------------------
(***************************************************************************)
(* What is left of a queue, from messaging/trees/queue.py.                  *)
(***************************************************************************)
EXTENDS Naturals, Sequences

\* deque(x for x in self._deque if x != item), for each item of gone: the
\* others keep their order.
Without(line, gone) ==
    LET left[i \in 0 .. Len(line)] ==
            IF i = 0 THEN <<>>
            ELSE IF line[i] \in gone THEN left[i - 1] ELSE Append(left[i - 1], line[i])
    IN  left[Len(line)]
=============================================================================
