----------------------------- MODULE RecoveryGate -----------------------------
(***************************************************************************)
(* What provider admission promises its callers about recovery: a circuit   *)
(* breaker with a single half-open prober. Attempts, slots, quota, waiting  *)
(* and time do not appear; ProviderAdmission implements this specification. *)
(***************************************************************************)
CONSTANTS Sessions, None

VARIABLES
    mode,    \* closed, recovering (backing off), probing, or cooldown
    owner    \* the execution that leads the recovery, if any

Init == mode = "closed" /\ owner = None

\* A failure opens a recovery, led by the execution that met it.
Trip(s) == mode = "closed" /\ mode' = "recovering" /\ owner' = s

\* The leader, or the execution that takes a vacant lead, goes on.
Lead(s) ==
    /\ mode = "recovering"
    /\ owner \in {None, s}
    /\ mode' \in {"recovering", "probing"}
    /\ owner' = s

\* A probe fails and its owner backs off, keeping the lead.
Renew == mode = "probing" /\ mode' = "recovering" /\ UNCHANGED owner

\* The owner goes away; the lead is vacant.
Yield == mode \in {"recovering", "probing"} /\ mode' = "recovering" /\ owner' = None

\* Upstream answers a probe.
Recover == mode = "probing" /\ mode' = "closed" /\ owner' = None

\* A budget is spent: nobody leads, and new work fails until the cooldown ends.
Exhaust == mode \in {"closed", "probing"} /\ mode' = "cooldown" /\ owner' = None

\* The first caller after the cooldown becomes the prober.
Reopen(s) == mode = "cooldown" /\ mode' = "probing" /\ owner' = s

Next ==
    \/ \E s \in Sessions : Trip(s) \/ Lead(s) \/ Reopen(s)
    \/ Renew \/ Yield \/ Recover \/ Exhaust

Spec == Init /\ [][Next]_<<mode, owner>>
=============================================================================
