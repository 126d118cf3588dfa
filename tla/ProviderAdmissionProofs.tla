----------------------- MODULE ProviderAdmissionProofs -----------------------
(* Theorems about ProviderAdmission, for any executions, callers and limits. *)
EXTENDS ProviderAdmission, TLAPS, FiniteSetTheorems

-----------------------------------------------------------------------------
(* Types *)

LEMMA GateKeepsType ==
    ASSUME TypeOK, NEW s \in Sessions, Gate(s)
    PROVE  TypeOK'
  <1> USE DEF TypeOK, Episodes, Places, Go, Settle, Permit, slots, recovery, budget
  <1>1. CASE GateExhausted(s)
    BY <1>1 DEF GateExhausted, GateFails, ReleaseOuter, OuterSlots
  <1>2. CASE GateNormal(s)
    BY <1>2 DEF GateNormal
  <1>3. CASE GateCooldown(s)
    BY <1>3 DEF GateCooldown, GateFails, ReleaseOuter, OuterSlots
  <1>4. CASE GateReopen(s)
    <2>1. episode' \in Episodes
      BY <1>4 DEF GateReopen, NewEpisode
    <2>2. next_generation' \in Nat \ {0} /\ generation' \in [Sessions -> Nat]
      BY <1>4 DEF GateReopen
    <2>3. pc' \in [Sessions -> Places]
      BY <1>4 DEF GateReopen
    <2> HIDE DEF Episodes
    <2> QED BY <1>4, <2>1, <2>2, <2>3 DEF GateReopen
  <1>5. CASE GateLead(s)
    BY <1>5 DEF GateLead
  <1>6. CASE GateWait(s)
    BY <1>6 DEF GateWait
  <1> QED BY <1>1, <1>2, <1>3, <1>4, <1>5, <1>6 DEF Gate

LEMMA NotifyType ==
    ASSUME TypeOK, NEW s \in Sessions, NEW w \in Places, NotifyAndGo(s, w)
    PROVE  /\ pc' \in [Sessions -> Places]
           /\ pc'[s] = w
           /\ \A t \in Sessions \ {s} :
                 pc'[t] = IF pc[t] = "waiting" THEN "woken" ELSE pc[t]
  BY DEF TypeOK, Places, NotifyAndGo, Notified

LEMMA AbandonType ==
    ASSUME TypeOK, NEW s \in Sessions, NEW w \in Places, AbandonProbe(s, w)
    PROVE  episode' \in Episodes /\ pc' \in [Sessions -> Places]
  <1>1. episode' \in Episodes
    BY ZenonT(60)  DEF AbandonProbe, TypeOK, Episodes
  <1>2. pc' \in [Sessions -> Places]
    BY NotifyType DEF AbandonProbe, Go, TypeOK
  <1> QED BY <1>1, <1>2

LEMMA CloseEpisodeType ==
    ASSUME TypeOK, NEW s \in Sessions, NEW w \in Places, CloseEpisode(s, w)
    PROVE  episode' \in Episodes /\ pc' \in [Sessions -> Places]
  <1>a. NoEpisode \in Episodes
    BY DEF NoEpisode, Episodes
  <1>1. episode' \in Episodes
    BY <1>a DEF CloseEpisode, TypeOK
  <1>2. pc' \in [Sessions -> Places]
    BY NotifyType DEF CloseEpisode, Go, TypeOK
  <1> QED BY <1>1, <1>2

LEMMA ReleaseOuterType ==
    ASSUME TypeOK, NEW s \in Sessions, NEW own \in Nat, ReleaseOuter(s, own)
    PROVE  /\ sem' \in Nat
           /\ outer' \in [Sessions -> BOOLEAN]
           /\ leaked' \in SUBSET Sessions
  BY DEF ReleaseOuter, OuterSlots, TypeOK

LEMMA AdmitKeepsType ==
    ASSUME TypeOK, NEW s \in Sessions, Admit(s)
    PROVE  TypeOK'
  <1>a. {"gate", "limiter", "slot", "active"} \subseteq Places
    BY DEF Places
  <1>1. CASE BackoffOver(s)
    <2>1. episode' \in Episodes
      BY ZenonT(60), <1>1 DEF BackoffOver, TypeOK, Episodes
    <2>2. pc' \in [Sessions -> Places]
      BY <1>1, <1>a DEF BackoffOver, TypeOK, Go
    <2> QED BY <1>1, <2>1, <2>2 DEF BackoffOver, TypeOK, slots, budget
  <1>2. CASE LimiterGrant(s)
    BY <1>2, <1>a DEF LimiterGrant, TypeOK, Go, recovery, slots, budget
  <1>3. CASE LimiterReject(s)
    BY <1>3, <1>a, AbandonType DEF LimiterReject, TypeOK, slots, budget
  <1>4. CASE SlotGrant(s)
    BY <1>4, <1>a DEF SlotGrant, TypeOK, Go, recovery
  <1>5. CASE SlotStale(s)
    BY <1>5, <1>a, AbandonType DEF SlotStale, TypeOK, slots, budget
  <1> QED BY <1>1, <1>2, <1>3, <1>4, <1>5 DEF Admit

LEMMA UpstreamKeepsType ==
    ASSUME TypeOK, NEW s \in Sessions, Upstream(s)
    PROVE  TypeOK'
  <1>a. {"streaming", "closing"} \subseteq Places
    BY DEF Places
  <1> USE DEF slots, budget, recovery
  <1>1. CASE Succeed(s)
    BY <1>1, <1>a, CloseEpisodeType DEF Succeed, TypeOK, Permit
  <1>2. CASE Reject(s)
    BY <1>2, <1>a, CloseEpisodeType DEF Reject, TypeOK, Permit, Settle
  <1>3. CASE Correct(s)
    <2>1. episode' \in Episodes
      BY ZenonT(60), <1>3 DEF Correct, TypeOK, Episodes
    <2>2. pc' \in [Sessions -> Places]
      BY <1>3, <1>a, NotifyType DEF Correct, Go, TypeOK
    <2> QED BY <1>3, <2>1, <2>2 DEF Correct, TypeOK, Permit
  <1>4. CASE FailFirst(s)
    <2>1. episode' \in Episodes
      BY <1>4 DEF FailFirst, TypeOK, Episodes, NewEpisode
    <2>2. pc' \in [Sessions -> Places]
      BY <1>4, <1>a, NotifyType DEF FailFirst, MayRetry
    <2>3. next_generation' \in Nat \ {0}
      BY <1>4 DEF FailFirst, TypeOK
    <2> QED BY <1>4, <2>1, <2>2, <2>3 DEF FailFirst, MayRetry, TypeOK, Permit
  <1>5. CASE FailProbe(s)
    <2>1. episode' \in Episodes
      BY <1>5 DEF FailProbe, TypeOK, Episodes
    <2>2. pc' \in [Sessions -> Places]
      BY <1>5, <1>a, NotifyType DEF FailProbe, MayRetry
    <2> QED BY <1>5, <2>1, <2>2 DEF FailProbe, MayRetry, TypeOK, Permit
  <1>10. CASE FailCoalesced(s)
    <2>1. episode' \in Episodes
      BY <1>10 DEF FailCoalesced, TypeOK, Episodes
    <2>2. pc' \in [Sessions -> Places]
      BY <1>10, <1>a, NotifyType DEF FailCoalesced, MayRetry
    <2> QED BY <1>10, <2>1, <2>2 DEF FailCoalesced, MayRetry, TypeOK, Permit
  <1>7. CASE FailTerminal(s)
    <2>1. pc' \in [Sessions -> Places]
      BY <1>7, <1>a, NotifyType DEF FailTerminal, MayRetry
    <2> QED BY <1>7, <2>1 DEF FailTerminal, MayRetry, TypeOK, Permit
  <1>8. CASE FailExhausted(s)
    <2>1. episode' \in Episodes
      <3>1. CASE Open
        BY <1>8, <3>1 DEF FailExhausted, TypeOK, Episodes
      <3>2. CASE ~Open
        BY <1>8, <3>2 DEF FailExhausted, TypeOK, Episodes, NewEpisode
      <3> QED BY <3>1, <3>2
    <2>2. pc' \in [Sessions -> Places]
      BY <1>8, <1>a, NotifyType DEF FailExhausted
    <2>3. next_generation' \in Nat \ {0}
      BY <1>8 DEF FailExhausted, TypeOK
    <2>4. terminal_error' \in [Sessions -> BOOLEAN]
      BY <1>8 DEF FailExhausted
    <2> QED BY <1>8, <2>1, <2>2, <2>3, <2>4
            DEF FailExhausted, MayNotRetry, TypeOK, Permit, Settle
  <1>9. CASE FailAlone(s)
    BY <1>9, <1>a DEF FailAlone, MayNotRetry, TypeOK, Go, Permit, Settle
  <1>6. CASE FailCommitted(s)
    BY <1>6, <1>a DEF FailCommitted, TypeOK, Go, Settle
  <1> QED BY <1>1, <1>2, <1>3, <1>4, <1>5, <1>6, <1>7, <1>8, <1>9,
             <1>10 DEF Upstream

LEMMA RunnerKeepsType ==
    ASSUME TypeOK, NEW s \in Sessions, Runner(s)
    PROVE  TypeOK'
  <1>a. {"gate", "closing", "between", "done"} \subseteq Places
    BY DEF Places
  <1> USE DEF slots, budget, recovery
  <1>1. CASE Finish(s)
    BY <1>1, <1>a DEF Finish, TypeOK, Go, Settle
  <1>2. CASE EarlyRetry(s)
    BY <1>2, <1>a DEF EarlyRetry, TypeOK, Go
  <1>3. CASE MidstreamRecovery(s)
    BY <1>3, <1>a DEF MidstreamRecovery, TypeOK, Go
  <1>4. CASE Close(s)
    <2>1. episode' \in Episodes /\ pc' \in [Sessions -> Places]
      BY <1>4, <1>a, AbandonType DEF Close
    <2>2. generation' \in [Sessions -> Nat]
      BY <1>4 DEF Close, Permit, TypeOK
    <2>3. CASE outcome[s] = "pending" /\ CanAttempt(s)
      BY <1>4, <2>1, <2>2, <2>3 DEF Close, TypeOK
    <2>4. CASE ~(outcome[s] = "pending" /\ CanAttempt(s))
      <3>1. ReleaseOuter(s, 1) /\ outcome' \in [Sessions ->
                                {"pending", "ok", "failed", "cancelled"}]
        BY <1>4, <2>4 DEF Close, Settle, TypeOK
      <3> QED BY <1>4, <2>1, <2>2, <2>4, <3>1, ReleaseOuterType DEF Close, TypeOK
    <2> QED BY <2>3, <2>4
  <1>5. CASE Reopen(s)
    BY <1>5, <1>a DEF Reopen, TypeOK, Go
  <1> QED BY <1>1, <1>2, <1>3, <1>4, <1>5 DEF Runner

LEMMA CancelKeepsType ==
    ASSUME TypeOK, NEW s \in Sessions, Cancel(s)
    PROVE  TypeOK'
  <1>a. {"closing", "done"} \subseteq Places
    BY DEF Places
  <1> USE DEF slots, budget, recovery
  <1>1. CASE CancelWaiting(s)
    BY <1>1, <1>a DEF CancelWaiting, TypeOK, Episodes, Go, Settle, Permit,
                      ReleaseOuter, OuterSlots
  <1>2. CASE CancelSleeping(s)
    <2>1. episode' \in Episodes
      BY <1>2 DEF CancelSleeping, TypeOK, Episodes
    <2>2. pc' \in [Sessions -> Places]
      BY <1>2, <1>a, NotifyType DEF CancelSleeping, TypeOK, Go
    <2> QED BY <1>2, <2>1, <2>2, ReleaseOuterType
            DEF CancelSleeping, TypeOK, Settle, Permit
  <1>3. CASE CancelAdmission(s)
    BY <1>3, <1>a, AbandonType DEF CancelAdmission, TypeOK, Settle, Permit,
                                   ReleaseOuter, OuterSlots
  <1>4. CASE CancelUpstream(s)
    BY <1>4, <1>a DEF CancelUpstream, TypeOK, Go, Settle
  <1>5. CASE CancelClose(s)
    BY <1>5, <1>a DEF CancelClose, TypeOK, Go, Settle, Permit, OuterSlots
  <1>6. CASE LeaveBetween(s)
    BY <1>6, <1>a DEF LeaveBetween, TypeOK, Go, Settle
  <1> QED BY <1>1, <1>2, <1>3, <1>4, <1>5, <1>6 DEF Cancel

LEMMA TypeStep == TypeOK /\ [Next]_vars => TypeOK'
  <1> SUFFICES ASSUME TypeOK, [Next]_vars PROVE TypeOK'
    OBVIOUS
  <1>1. CASE UNCHANGED vars
    BY <1>1 DEF vars, recovery, slots, budget, TypeOK
  <1>2. ASSUME NEW s \in Sessions, Begin(s) PROVE TypeOK'
    BY <1>2 DEF Begin, TypeOK, Places, Go, recovery, slots, budget
  <1>3. CASE Time
    <2>1. CASE BackoffElapses \/ CooldownElapses
      <3>1. episode' \in Episodes
        BY ZenonT(60), <2>1 DEF BackoffElapses, CooldownElapses, TypeOK, Episodes
      <3> QED BY <2>1, <3>1 DEF BackoffElapses, CooldownElapses, TypeOK, slots, budget
    <2>2. CASE WindowSlides
      BY <2>2 DEF WindowSlides, TypeOK, recovery, slots, budget
    <2> QED BY <1>3, <2>1, <2>2 DEF Time
  <1> QED BY <1>1, <1>2, <1>3, GateKeepsType, AdmitKeepsType,
             UpstreamKeepsType, RunnerKeepsType, CancelKeepsType DEF Next

\* Every reachable state of the controller and its callers is well typed.
THEOREM TypeCorrect == Spec => []TypeOK
  <1>1. Init => TypeOK
    BY LimitsAssumption DEF Init, TypeOK, Episodes, Places, NoEpisode
  <1> QED BY <1>1, TypeStep, PTL DEF Spec

-----------------------------------------------------------------------------
(* One prober *)

\* Whoever probes leads the live episode whose gate its probe holds shut. This
\* is inductive, and makes the prober unique because the leader is.
HoldsGate(s) ==
    /\ episode.generation = generation[s]
    /\ episode.terminal = "no"
    /\ episode.leader = s
    /\ episode.probe_active
Permitted(s) ==
    /\ generation[s] # 0
    /\ pc[s] \in {"limiter", "slot", "active", "streaming", "closing"}
ProbeHolds == \A s \in Sessions : Permitted(s) => HoldsGate(s)

\* A step of s: nobody else starts to probe, or changes its permit.
OnlyMoves(s) ==
    \A t \in Sessions \ {s} :
        Permitted(t)' => Permitted(t) /\ generation'[t] = generation[t]

SameGate ==
    /\ episode'.generation = episode.generation
    /\ episode'.terminal = episode.terminal
    /\ episode'.leader = episode.leader
    /\ episode'.probe_active = episode.probe_active

LEMMA GoMovesOne ==
    ASSUME TypeOK, NEW s \in Sessions, NEW w \in Places,
           Go(s, w) \/ NotifyAndGo(s, w),
           generation' = generation \/ \E g \in Nat : Permit(s, g)
    PROVE  OnlyMoves(s) /\ pc'[s] = w
  <1>1. \A t \in Sessions \ {s} : generation'[t] = generation[t]
    BY DEF Permit, TypeOK
  <1>2. CASE Go(s, w)
    BY <1>1, <1>2 DEF OnlyMoves, Permitted, Go, TypeOK
  <1>3. CASE NotifyAndGo(s, w)
    <2>1. \A t \in Sessions \ {s} :
             pc'[t] = IF pc[t] = "waiting" THEN "woken" ELSE pc[t]
      BY <1>3, NotifyType
    <2>2. pc'[s] = w
      BY <1>3, NotifyType
    <2> QED BY <1>1, <2>1, <2>2 DEF OnlyMoves, Permitted
  <1> QED BY <1>2, <1>3

LEMMA GateKept ==
    ASSUME ProbeHolds, NEW s \in Sessions, OnlyMoves(s),
           SameGate \/ \A t \in Sessions \ {s} : ~Permitted(t),
           Permitted(s)' => HoldsGate(s)'
    PROVE  ProbeHolds'
  BY DEF ProbeHolds, OnlyMoves, SameGate, HoldsGate

\* While s's probe stands, or the gate is open, nobody else probes.
LEMMA NobodyElse ==
    ASSUME ProbeHolds, NEW s \in Sessions,
           \/ ~Open
           \/ ~episode.probe_active
           \/ episode.leader \notin Sessions \ {s}
           \/ episode.terminal # "no"
    PROVE  \A t \in Sessions \ {s} : ~Permitted(t)
  BY DEF ProbeHolds, HoldsGate, Permitted, Open

LEMMA AbandonKeepsGate ==
    ASSUME TypeOK, ProbeHolds, NEW s \in Sessions, NEW w \in Places,
           AbandonProbe(s, w), w \notin {"limiter", "slot", "active", "streaming", "closing"},
           generation' = generation \/ Permit(s, 0)
    PROVE  ProbeHolds'
  <1>1. OnlyMoves(s) /\ pc'[s] = w
    BY GoMovesOne DEF AbandonProbe
  <1>2. SameGate \/ \A t \in Sessions \ {s} : ~Permitted(t)
    BY NobodyElse DEF AbandonProbe, MatchingProbe, SameGate
  <1> QED BY <1>1, <1>2, GateKept DEF Permitted

LEMMA CloseEpisodeKeepsGate ==
    ASSUME TypeOK, ProbeHolds, NEW s \in Sessions, NEW w \in Places,
           CloseEpisode(s, w), Permit(s, 0)
    PROVE  ProbeHolds'
  <1>1. OnlyMoves(s)
    BY GoMovesOne DEF CloseEpisode
  <1>2. SameGate \/ \A t \in Sessions \ {s} : ~Permitted(t)
    BY NobodyElse DEF CloseEpisode, MatchingProbe, SameGate
  <1>3. ~Permitted(s)'
    BY DEF Permit, Permitted, TypeOK
  <1> QED BY <1>1, <1>2, <1>3, GateKept

LEMMA GateKeepsGate ==
    ASSUME TypeOK, ProbeHolds, NEW s \in Sessions, Gate(s)
    PROVE  ProbeHolds'
  <1>a. {"limiter", "sleeping", "waiting", "done"} \subseteq Places
    BY DEF Places
  <1>1. CASE GateExhausted(s) \/ GateCooldown(s) \/ GateNormal(s)
    <2>1. OnlyMoves(s) /\ SameGate
      BY <1>1, <1>a, GoMovesOne
         DEF GateExhausted, GateCooldown, GateNormal, GateFails, SameGate, recovery
    <2>2. ~Permitted(s)'
      BY <1>1 DEF GateExhausted, GateCooldown, GateNormal, GateFails, Permit,
                  Permitted, TypeOK
    <2> QED BY <2>1, <2>2, GateKept
  <1>2. CASE GateReopen(s)
    <2>1. OnlyMoves(s)
      BY <1>2, <1>a, GoMovesOne DEF GateReopen, TypeOK
    <2>2. \A t \in Sessions \ {s} : ~Permitted(t)
      BY <1>2, NobodyElse DEF GateReopen
    <2>3. HoldsGate(s)'
      BY <1>2 DEF GateReopen, NewEpisode, HoldsGate, Permit, TypeOK
    <2> QED BY <2>1, <2>2, <2>3, GateKept
  <1>3. CASE GateLead(s)
    <2>1. OnlyMoves(s) /\ pc'[s] = IF episode.ready THEN "limiter" ELSE "sleeping"
      BY <1>3, <1>a, GoMovesOne DEF GateLead, TypeOK, Episodes
    <2>2. \A t \in Sessions \ {s} : ~Permitted(t)
      BY <1>3, NobodyElse, SessionsAssumption DEF GateLead
    <2>3. Permitted(s)' => HoldsGate(s)'
      BY <1>3, <2>1 DEF GateLead, Permitted, HoldsGate, Permit, TypeOK, Episodes
    <2> QED BY <2>1, <2>2, <2>3, GateKept
  <1>4. CASE GateWait(s)
    <2>1. OnlyMoves(s) /\ pc'[s] = "waiting"
      BY <1>4, <1>a, GoMovesOne DEF GateWait, TypeOK, Episodes
    <2>2. SameGate
      BY <1>4 DEF GateWait, SameGate, TypeOK, Episodes
    <2> QED BY <2>1, <2>2, GateKept DEF Permitted
  <1> QED BY <1>1, <1>2, <1>3, <1>4 DEF Gate

LEMMA AdmitKeepsGate ==
    ASSUME TypeOK, ProbeHolds, NEW s \in Sessions, Admit(s)
    PROVE  ProbeHolds'
  <1>a. {"gate", "limiter", "slot", "active"} \subseteq Places
    BY DEF Places
  <1>1. CASE BackoffOver(s)
    <2>1. OnlyMoves(s)
      BY <1>1, <1>a, GoMovesOne DEF BackoffOver
    <2>2. CASE /\ episode.generation = generation[s]
               /\ episode.terminal = "no"
               /\ episode.leader = s
               /\ ~episode.probe_active
      <3>1. \A t \in Sessions \ {s} : ~Permitted(t)
        BY <2>2, NobodyElse
      <3>2. HoldsGate(s)'
        BY <1>1, <2>2 DEF BackoffOver, HoldsGate, TypeOK, Episodes
      <3> QED BY <2>1, <3>1, <3>2, GateKept
    <2>3. CASE ~(/\ episode.generation = generation[s]
                 /\ episode.terminal = "no"
                 /\ episode.leader = s
                 /\ ~episode.probe_active)
      <3>1. SameGate
        BY <1>1, <2>3 DEF BackoffOver, SameGate
      <3>2. ~Permitted(s)'
        BY <1>1, <2>3 DEF BackoffOver, Go, Permitted, TypeOK
      <3> QED BY <2>1, <3>1, <3>2, GateKept
    <2> QED BY <2>2, <2>3
  <1>2. CASE LimiterGrant(s) \/ SlotGrant(s)
    <2>1. OnlyMoves(s) /\ SameGate
      BY <1>2, <1>a, GoMovesOne DEF LimiterGrant, SlotGrant, SameGate, recovery
    <2>2. Permitted(s)' => HoldsGate(s)'
      BY <1>2 DEF LimiterGrant, SlotGrant, Permitted, ProbeHolds, HoldsGate,
                  recovery
    <2> QED BY <2>1, <2>2, GateKept
  <1>3. CASE LimiterReject(s) \/ SlotStale(s)
    BY <1>3, <1>a, AbandonKeepsGate DEF LimiterReject, SlotStale
  <1> QED BY <1>1, <1>2, <1>3 DEF Admit

LEMMA UpstreamKeepsGate ==
    ASSUME TypeOK, ProbeHolds, NEW s \in Sessions, Upstream(s)
    PROVE  ProbeHolds'
  <1>a. {"streaming", "closing"} \subseteq Places
    BY DEF Places
  <1>b. Permit(s, 0) => ~Permitted(s)'
    BY DEF Permit, Permitted, TypeOK
  <1>1. CASE Succeed(s) \/ Reject(s)
    BY <1>1, <1>a, CloseEpisodeKeepsGate DEF Succeed, Reject
  <1>2. CASE Correct(s)
    <2>1. OnlyMoves(s)
      BY <1>2, <1>a, GoMovesOne DEF Correct
    <2>2. SameGate \/ \A t \in Sessions \ {s} : ~Permitted(t)
      BY <1>2, NobodyElse DEF Correct, MatchingProbe, SameGate
    <2> QED BY <1>2, <1>b, <2>1, <2>2, GateKept DEF Correct
  <1>3. CASE FailFirst(s) \/ FailProbe(s)
    <2>1. OnlyMoves(s) /\ ~Permitted(s)'
      BY <1>3, <1>a, <1>b, GoMovesOne DEF FailFirst, FailProbe, MayRetry
    <2>2. \A t \in Sessions \ {s} : ~Permitted(t)
      BY <1>3, NobodyElse DEF FailFirst, FailProbe, MatchingProbe
    <2> QED BY <2>1, <2>2, GateKept
  <1>4. CASE FailTerminal(s) \/ FailCoalesced(s)
    <2>1. OnlyMoves(s) /\ ~Permitted(s)'
      BY <1>4, <1>a, <1>b, GoMovesOne DEF FailTerminal, FailCoalesced, MayRetry
    <2>2. SameGate
      BY <1>4 DEF FailTerminal, FailCoalesced, SameGate, recovery, TypeOK, Episodes
    <2> QED BY <2>1, <2>2, GateKept
  <1>5. CASE FailExhausted(s)
    <2>1. OnlyMoves(s) /\ ~Permitted(s)'
      BY <1>5, <1>a, <1>b, GoMovesOne DEF FailExhausted, MayNotRetry
    <2>2. \A t \in Sessions \ {s} : ~Permitted(t)
      BY <1>5, NobodyElse DEF FailExhausted, MatchingProbe
    <2> QED BY <2>1, <2>2, GateKept
  <1>6. CASE FailAlone(s)
    <2>1. OnlyMoves(s) /\ ~Permitted(s)' /\ SameGate
      BY <1>6, <1>a, <1>b, GoMovesOne DEF FailAlone, MayNotRetry, SameGate, recovery
    <2> QED BY <2>1, GateKept
  <1>7. CASE FailCommitted(s)
    <2>1. OnlyMoves(s) /\ SameGate
      BY <1>7, <1>a, GoMovesOne DEF FailCommitted, SameGate, recovery
    <2>2. Permitted(s)' => HoldsGate(s)'
      BY <1>7 DEF FailCommitted, Permitted, ProbeHolds, HoldsGate, recovery
    <2> QED BY <2>1, <2>2, GateKept
  <1> QED BY <1>1, <1>2, <1>3, <1>4, <1>5, <1>6, <1>7 DEF Upstream

LEMMA RunnerKeepsGate ==
    ASSUME TypeOK, ProbeHolds, NEW s \in Sessions, Runner(s)
    PROVE  ProbeHolds'
  <1>a. {"gate", "closing", "between", "done"} \subseteq Places
    BY DEF Places
  <1>1. CASE Finish(s) \/ EarlyRetry(s) \/ MidstreamRecovery(s) \/ Reopen(s)
    <2>1. OnlyMoves(s) /\ SameGate
      BY <1>1, <1>a, GoMovesOne
         DEF Finish, EarlyRetry, MidstreamRecovery, Reopen, SameGate, recovery
    <2>2. Permitted(s)' => Permitted(s) /\ generation'[s] = generation[s]
      BY <1>1 DEF Finish, EarlyRetry, MidstreamRecovery, Reopen, Permitted, Go, TypeOK
    <2>3. Permitted(s)' => HoldsGate(s)'
      BY <2>1, <2>2 DEF SameGate, ProbeHolds, HoldsGate
    <2> QED BY <2>1, <2>3, GateKept
  <1>2. CASE Close(s)
    BY <1>2, <1>a, AbandonKeepsGate DEF Close
  <1> QED BY <1>1, <1>2 DEF Runner

LEMMA CancelKeepsGate ==
    ASSUME TypeOK, ProbeHolds, NEW s \in Sessions, Cancel(s)
    PROVE  ProbeHolds'
  <1>a. {"closing", "done"} \subseteq Places
    BY DEF Places
  <1>1. CASE CancelWaiting(s) \/ CancelClose(s) \/ LeaveBetween(s)
    <2>1. OnlyMoves(s) /\ pc'[s] = "done"
      BY <1>1, <1>a, GoMovesOne DEF CancelWaiting, CancelClose, LeaveBetween, TypeOK
    <2>2. SameGate
      BY <1>1 DEF CancelWaiting, CancelClose, LeaveBetween, SameGate, recovery,
                  TypeOK, Episodes
    <2> QED BY <2>1, <2>2, GateKept DEF Permitted
  <1>2. CASE CancelSleeping(s)
    <2>1. OnlyMoves(s) /\ pc'[s] = "done"
      BY <1>2, <1>a, GoMovesOne DEF CancelSleeping, TypeOK
    <2>2. SameGate \/ \A t \in Sessions \ {s} : ~Permitted(t)
      BY <1>2, NobodyElse DEF CancelSleeping, SameGate
    <2> QED BY <2>1, <2>2, GateKept DEF Permitted
  <1>3. CASE CancelAdmission(s)
    BY <1>3, <1>a, AbandonKeepsGate DEF CancelAdmission
  <1>4. CASE CancelUpstream(s)
    <2>1. OnlyMoves(s) /\ SameGate
      BY <1>4, <1>a, GoMovesOne DEF CancelUpstream, SameGate, recovery
    <2>2. Permitted(s)' => HoldsGate(s)'
      BY <1>4 DEF CancelUpstream, Permitted, ProbeHolds, HoldsGate, recovery
    <2> QED BY <2>1, <2>2, GateKept
  <1> QED BY <1>1, <1>2, <1>3, <1>4 DEF Cancel

LEMMA ProbeStep == TypeOK /\ ProbeHolds /\ [Next]_vars => ProbeHolds'
  <1> SUFFICES ASSUME TypeOK, ProbeHolds, [Next]_vars PROVE ProbeHolds'
    OBVIOUS
  <1>1. CASE UNCHANGED vars
    BY <1>1 DEF vars, recovery, ProbeHolds, Permitted, HoldsGate
  <1>2. ASSUME NEW s \in Sessions, Begin(s) PROVE ProbeHolds'
    <2>1. OnlyMoves(s) /\ pc'[s] = "gate"
      BY <1>2, GoMovesOne DEF Begin, Places
    <2>2. SameGate
      BY <1>2 DEF Begin, SameGate, recovery
    <2> QED BY <2>1, <2>2, GateKept DEF Permitted
  <1>3. CASE Time
    BY <1>3 DEF Time, BackoffElapses, CooldownElapses, WindowSlides, recovery,
                ProbeHolds, Permitted, HoldsGate, TypeOK, Episodes
  <1> QED BY <1>1, <1>2, <1>3, GateKeepsGate, AdmitKeepsGate,
             UpstreamKeepsGate, RunnerKeepsGate, CancelKeepsGate DEF Next

\* "Exactly one logical execution owns its half-open probes": however the
\* executions interleave, fail and are cancelled, two never probe at once.
THEOREM OneProbeCorrect == Spec => []OneProbe
  <1>1. Init => ProbeHolds
    BY DEF Init, ProbeHolds, Permitted
  <1>2. ProbeHolds => OneProbe
    BY DEF ProbeHolds, Permitted, HoldsGate, OneProbe, Probing
  <1> QED BY <1>1, <1>2, TypeCorrect, ProbeStep, PTL DEF Spec

-----------------------------------------------------------------------------
(* The recovery is owned *)

\* Where an execution may be that an episode counts among its waiters, or that
\* shares a terminal outcome: not one of these leads on to an attempt.
Away == {"waiting", "woken", "gate", "closing", "between", "done"}

\* What is no episode has no leader, nor has a terminal one.
Vacant ==
    /\ ~Open => /\ episode.leader = None /\ ~episode.probe_active
                /\ episode.terminal = "no" /\ episode.waiters = {}
    /\ episode.terminal # "no" => episode.leader = None

\* The leader waits for nobody, and attempts nothing but its own probe.
Led ==
    \A s \in Sessions : episode.leader = s =>
        /\ s \notin episode.waiters
        /\ pc[s] \in {"limiter", "slot", "active"} => generation[s] = episode.generation

Coalesced ==
    \A s \in Sessions : s \in episode.waiters \/ terminal_error[s] => pc[s] \in Away

RecoveryInv == ProbeHolds /\ Vacant /\ Led /\ Coalesced /\ RecoveryIsOwned

LEMMA GoFacts ==
    ASSUME TypeOK, NEW s \in Sessions, NEW w \in Places, Go(s, w)
    PROVE  pc'[s] = w /\ \A t \in Sessions \ {s} : pc'[t] = pc[t]
  BY DEF Go, TypeOK

LEMMA PermitFacts ==
    ASSUME TypeOK, NEW s \in Sessions, NEW g \in Nat, Permit(s, g)
    PROVE  generation'[s] = g /\ \A t \in Sessions \ {s} : generation'[t] = generation[t]
  BY DEF Permit, TypeOK

LEMMA GateKeepsRecovery ==
    ASSUME TypeOK, RecoveryInv, NEW s \in Sessions, Gate(s)
    PROVE  Vacant' /\ Led' /\ Coalesced' /\ RecoveryIsOwned'
  <1>a. {"limiter", "sleeping", "waiting", "done"} \subseteq Places /\ 0 \in Nat
    BY DEF Places
  <1>b. None \notin Sessions /\ next_generation \in Nat \ {0} /\ episode.generation \in Nat
    BY SessionsAssumption DEF TypeOK, Episodes
  <1> USE DEF RecoveryInv, Vacant, Led, Coalesced, RecoveryIsOwned, ProbeIsOwned, NoLostWakeup, Probing, Away, Open, AtGate
  <1>1. CASE GateExhausted(s) \/ GateCooldown(s) \/ GateNormal(s)
    <2>1. /\ pc[s] \in {"gate", "woken"} /\ UNCHANGED <<episode, terminal_error, leaked>>
          /\ pc'[s] \in {"done", "limiter"} /\ generation'[s] = 0
          /\ pc'[s] = "limiter" => ~Open /\ ~terminal_error[s]
          /\ \A t \in Sessions \ {s} : pc'[t] = pc[t] /\ generation'[t] = generation[t]
      BY <1>1, <1>a, GoFacts, PermitFacts
         DEF GateExhausted, GateCooldown, GateNormal, GateFails, ReleaseOuter, recovery, budget, slots
    <2> QED  BY <1>1, <1>b, <2>1
  <1>2. CASE GateReopen(s)
    <2>1. /\ pc[s] \in {"gate", "woken"} /\ UNCHANGED <<terminal_error, leaked>>
          /\ pc'[s] = "limiter" /\ generation'[s] = next_generation
          /\ \A t \in Sessions \ {s} : pc'[t] = pc[t] /\ generation'[t] = generation[t]
      BY <1>2, <1>a, <1>b, GoFacts, PermitFacts DEF GateReopen, slots, budget
    <2> QED  BY <1>2, <1>b, <2>1 DEF GateReopen, NewEpisode
  <1>3. CASE GateLead(s)
    <2>1. /\ pc[s] \in {"gate", "woken"} /\ UNCHANGED <<terminal_error, leaked>>
          /\ pc'[s] = IF episode.ready THEN "limiter" ELSE "sleeping"
          /\ generation'[s] = episode.generation
          /\ \A t \in Sessions \ {s} : pc'[t] = pc[t] /\ generation'[t] = generation[t]
      BY <1>3, <1>a, <1>b, GoFacts, PermitFacts DEF GateLead, slots, budget
    <2>2. /\ episode'.leader = s /\ episode'.probe_active = episode.ready
          /\ episode'.waiters = IF episode.leader = None THEN episode.waiters \ {s} ELSE episode.waiters
          /\ episode'.generation = episode.generation /\ episode'.terminal = "no"
      BY <1>3 DEF GateLead, TypeOK, Episodes
    <2> QED  BY <1>3, <1>b, <2>1, <2>2 DEF GateLead
  <1>4. CASE GateWait(s)
    <2>1. /\ pc[s] \in {"gate", "woken"} /\ UNCHANGED <<terminal_error, leaked>>
          /\ pc'[s] = "waiting" /\ generation'[s] = episode.generation
          /\ \A t \in Sessions \ {s} : pc'[t] = pc[t] /\ generation'[t] = generation[t]
      BY <1>4, <1>a, <1>b, GoFacts, PermitFacts DEF GateWait, slots, budget
    <2>2. SameGate /\ episode'.waiters = episode.waiters \cup {s}
      BY <1>4 DEF GateWait, TypeOK, Episodes, SameGate
    <2> QED  BY <1>4, <1>b, <2>1, <2>2 DEF GateWait, SameGate
  <1> QED BY <1>1, <1>2, <1>3, <1>4 DEF Gate

LEMMA NotifyFacts ==
    ASSUME TypeOK, NEW s \in Sessions, NEW w \in Places, NotifyAndGo(s, w)
    PROVE  /\ pc'[s] = w
           /\ \A t \in Sessions \ {s} :
                 pc'[t] = IF pc[t] = "waiting" THEN "woken" ELSE pc[t]
  BY NotifyType

\* s gives up or resolves what it was let through for.
LEMMA ResolveKeepsRecovery ==
    ASSUME TypeOK, RecoveryInv, NEW s \in Sessions, NEW w \in {"gate", "streaming", "closing", "between", "done"},
           pc[s] \in {"limiter", "slot", "active", "closing"},
           pc[s] = "closing" => w # "streaming",
           AbandonProbe(s, w) \/ CloseEpisode(s, w),
           generation' = generation \/ Permit(s, 0),
           UNCHANGED <<next_generation, terminal_error, leaked>>
    PROVE  Vacant' /\ Led' /\ Coalesced' /\ RecoveryIsOwned'
  <1>a. None \notin Sessions /\ w \in Places /\ 0 \in Nat
    BY SessionsAssumption DEF Places, Away
  <1>b. \A t \in Sessions \ {s} : generation'[t] = generation[t]
    BY <1>a, PermitFacts
  <1> USE DEF RecoveryInv, Vacant, Led, Coalesced, RecoveryIsOwned, ProbeIsOwned, NoLostWakeup,
             Probing, Away, Open
  <1>1. CASE MatchingProbe(s)
    <2>1. NotifyAndGo(s, w)
      BY <1>1 DEF AbandonProbe, CloseEpisode
    <2>2. pc'[s] = w /\ \A t \in Sessions \ {s} :
                 pc'[t] = IF pc[t] = "waiting" THEN "woken" ELSE pc[t]
      BY <2>1, <1>a, NotifyFacts
    <2>3. CASE episode' = NoEpisode
      BY <2>2, <2>3, <1>a, <1>b, <1>1 DEF NoEpisode, MatchingProbe
    <2>4. CASE episode' = [episode EXCEPT !.leader = None, !.ready = TRUE, !.probe_active = FALSE]
      <3>1. /\ episode'.leader = None /\ ~episode'.probe_active /\ episode'.waiters = episode.waiters
            /\ episode'.generation = episode.generation /\ episode'.terminal = episode.terminal
        BY <2>4 DEF TypeOK, Episodes
      <3> QED  BY <3>1, <2>2, <1>a, <1>b, <1>1 DEF MatchingProbe
    <2> QED  BY <1>1, <2>3, <2>4 DEF AbandonProbe, CloseEpisode
  <1>2. CASE ~MatchingProbe(s)
    <2>1. Go(s, w) /\ UNCHANGED episode
      BY <1>2 DEF AbandonProbe, CloseEpisode
    <2>2. pc'[s] = w /\ \A t \in Sessions \ {s} : pc'[t] = pc[t]
      BY <2>1, <1>a, GoFacts
    <2> QED  BY <2>1, <2>2, <1>a, <1>b, <1>2 DEF MatchingProbe, NoEpisode
  <1> QED  BY <1>1, <1>2

LEMMA AdmitKeepsRecovery ==
    ASSUME TypeOK, RecoveryInv, NEW s \in Sessions, Admit(s)
    PROVE  Vacant' /\ Led' /\ Coalesced' /\ RecoveryIsOwned'
  <1>a. {"gate", "limiter", "slot", "active"} \subseteq Places /\ None \notin Sessions
    BY SessionsAssumption DEF Places
  <1>1. CASE BackoffOver(s)
    <2> USE DEF RecoveryInv, Vacant, Led, Coalesced, RecoveryIsOwned, ProbeIsOwned, NoLostWakeup,
               Probing, Away, Open
    <2>1. /\ pc[s] = "sleeping" /\ UNCHANGED <<generation, terminal_error, leaked>>
          /\ pc'[s] \in {"limiter", "gate"}
          /\ \A t \in Sessions \ {s} : pc'[t] = pc[t]
      BY <1>1, <1>a, GoFacts DEF BackoffOver, slots, budget
    <2>2. CASE UNCHANGED episode /\ pc'[s] = "gate"
      BY <2>1, <2>2, <1>a DEF NoEpisode
    <2>3. CASE ~(UNCHANGED episode /\ pc'[s] = "gate")
      <3>1. /\ episode.generation = generation[s] /\ episode.terminal = "no" /\ episode.leader = s
            /\ episode' = [episode EXCEPT !.probe_active = TRUE] /\ pc'[s] = "limiter"
        BY <1>1, <1>a, <2>3, GoFacts DEF BackoffOver
      <3>2. /\ episode'.probe_active /\ episode'.leader = s /\ episode'.waiters = episode.waiters
            /\ episode'.generation = episode.generation /\ episode'.terminal = "no"
        BY <3>1 DEF TypeOK, Episodes
      <3> QED  BY <2>1, <3>1, <3>2, <1>a DEF NoEpisode
    <2> QED  BY <2>2, <2>3
  <1>2. CASE LimiterGrant(s) \/ SlotGrant(s)
    <2> USE DEF RecoveryInv, Vacant, Led, Coalesced, RecoveryIsOwned, ProbeIsOwned, NoLostWakeup,
               Probing, Away, Open
    <2>1. /\ pc[s] \in {"limiter", "slot"} /\ UNCHANGED <<episode, generation, terminal_error, leaked>>
          /\ pc'[s] \in {"slot", "active"}
          /\ \A t \in Sessions \ {s} : pc'[t] = pc[t]
      BY <1>2, <1>a, GoFacts DEF LimiterGrant, SlotGrant, slots, budget, recovery
    <2> QED  BY <2>1, <1>a DEF NoEpisode
  <1>3. CASE LimiterReject(s) \/ SlotStale(s)
    BY <1>3, ResolveKeepsRecovery DEF LimiterReject, SlotStale, Away, slots, budget
  <1> QED BY <1>1, <1>2, <1>3 DEF Admit

LEMMA UpstreamKeepsRecovery ==
    ASSUME TypeOK, RecoveryInv, NEW s \in Sessions, Upstream(s)
    PROVE  Vacant' /\ Led' /\ Coalesced' /\ RecoveryIsOwned'
  <1>a. "closing" \in Places /\ None \notin Sessions /\ 0 \in Nat /\ next_generation \in Nat \ {0}
    BY SessionsAssumption DEF Places, TypeOK
  <1>1. CASE Succeed(s) \/ Reject(s)
    BY <1>1, ResolveKeepsRecovery DEF Succeed, Reject, Away, slots, budget
  <1> USE DEF RecoveryInv, Vacant, Led, Coalesced, RecoveryIsOwned, ProbeIsOwned, NoLostWakeup,
             Probing, Away, Open
  \* s resolves its permit by other means, and goes on to close its attempt.
  <1>b. ASSUME Go(s, "closing") \/ NotifyAndGo(s, "closing"), Permit(s, 0)
        PROVE  /\ pc'[s] = "closing" /\ generation'[s] = 0
               /\ \A t \in Sessions \ {s} :
                    /\ generation'[t] = generation[t]
                    /\ \/ pc'[t] = pc[t]
                       \/ pc[t] = "waiting" /\ pc'[t] = "woken"
    BY <1>a, <1>b, PermitFacts, GoFacts, NotifyFacts
  <1>c. ASSUME NotifyAndGo(s, "closing")
        PROVE  \A t \in Sessions : pc'[t] # "waiting"
    BY <1>a, <1>c, NotifyFacts
  <1>2. CASE Correct(s)
    <2>1. UNCHANGED <<terminal_error, leaked>> /\ pc[s] = "active"
      BY <1>2 DEF Correct, slots, budget
    <2>2. CASE MatchingProbe(s)
      <3>1. /\ episode'.leader = s /\ ~episode'.probe_active /\ episode'.waiters = episode.waiters
            /\ episode'.generation = episode.generation /\ episode'.terminal = episode.terminal
        BY ZenonT(60), <1>2, <2>2 DEF Correct, TypeOK, Episodes, MatchingProbe
      <3> QED  BY <1>2, <1>a, <1>b, <1>c, <2>1, <2>2, <3>1 DEF Correct, MatchingProbe
    <2>3. CASE ~MatchingProbe(s)
      <3>1. UNCHANGED episode /\ Go(s, "closing")
        BY <1>2, <2>3 DEF Correct
      <3> QED  BY <1>2, <1>a, <1>b, GoFacts, <2>1, <2>3, <3>1 DEF Correct, MatchingProbe, NoEpisode
    <2> QED  BY <2>2, <2>3
  <1>3. CASE FailFirst(s)
    <2>1. UNCHANGED leaked /\ pc[s] = "active" /\ UNCHANGED terminal_error
      BY <1>3 DEF FailFirst, MayRetry, slots
    <2> QED  BY <1>3, <1>a, <1>b, <1>c, <2>1 DEF FailFirst, MayRetry, NewEpisode, NoEpisode
  <1>4. CASE FailProbe(s)
    <2>1. UNCHANGED leaked /\ pc[s] = "active" /\ UNCHANGED terminal_error
      BY <1>4 DEF FailProbe, MayRetry, slots
    <2>2. /\ episode'.leader = s /\ ~episode'.probe_active /\ episode'.waiters = episode.waiters
          /\ episode'.generation = episode.generation /\ episode'.terminal = episode.terminal
      BY <1>4 DEF FailProbe, TypeOK, Episodes, MatchingProbe
    <2> QED  BY <1>4, <1>a, <1>b, <1>c, <2>1, <2>2 DEF FailProbe, MayRetry, MatchingProbe
  <1>5. CASE FailTerminal(s)
    <2>1. UNCHANGED <<leaked, episode>> /\ pc[s] = "active"
      BY <1>5 DEF FailTerminal, MayRetry, slots, recovery
    <2>2. \A t \in Sessions : terminal_error'[t] => t = s \/ terminal_error[t]
      BY <1>5 DEF FailTerminal, TypeOK
    <2> QED  BY <1>5, <1>a, <1>b, <1>c, <2>1, <2>2 DEF FailTerminal, MayRetry, MatchingProbe, NoEpisode
  <1>6. CASE FailCoalesced(s)
    <2>1. UNCHANGED leaked /\ pc[s] = "active" /\ UNCHANGED terminal_error
      BY <1>6 DEF FailCoalesced, MayRetry, slots
    <2>2. SameGate /\ episode'.waiters = episode.waiters \cup {s}
      BY <1>6 DEF FailCoalesced, SameGate, TypeOK, Episodes
    \* The leader's attempt is its probe, so that s is not the leader.
    <2>3. episode.leader # s
      BY <1>6, <2>1, <1>a DEF FailCoalesced, MayRetry, MatchingProbe, ProbeHolds, HoldsGate, Permitted,
                       NoEpisode
    <2> QED  BY <1>6, <1>a, <1>b, <1>c, <2>1, <2>2, <2>3 DEF FailCoalesced, MayRetry, MatchingProbe, SameGate
  <1>7. CASE FailExhausted(s)
    <2>1. UNCHANGED leaked /\ pc[s] = "active"
      BY <1>7 DEF FailExhausted, MayNotRetry, slots
    <2>2. /\ episode'.leader = None /\ ~episode'.probe_active /\ episode'.waiters = {}
          /\ episode'.generation # 0
      BY <1>7, <1>a DEF FailExhausted, NewEpisode, TypeOK, Episodes
    <2>3. \A t \in Sessions : terminal_error'[t] => t \in episode.waiters \/ terminal_error[t]
      BY <1>7 DEF FailExhausted
    <2>4. NotifyAndGo(s, "closing") /\ Permit(s, 0)
      BY <1>7 DEF FailExhausted, MayNotRetry
    <2> QED  BY <1>a, <1>b, <1>c, <2>1, <2>2, <2>3, <2>4
  <1>8. CASE FailAlone(s)
    <2>1. UNCHANGED <<leaked, episode, terminal_error>> /\ pc[s] = "active" /\ Go(s, "closing") /\ Permit(s, 0)
      BY <1>8 DEF FailAlone, MayNotRetry, slots, recovery
    <2> QED  BY <1>8, <1>a, <1>b, GoFacts, <2>1 DEF FailAlone, MatchingProbe, NoEpisode
  <1>9. CASE FailCommitted(s)
    <2>1. UNCHANGED <<leaked, episode, terminal_error, generation>> /\ pc[s] = "active" /\ Go(s, "closing")
      BY <1>9 DEF FailCommitted, slots, recovery, budget
    <2> QED  BY <1>a, GoFacts, <2>1 DEF NoEpisode
  <1> QED BY <1>1, <1>2, <1>3, <1>4, <1>5, <1>6, <1>7, <1>8, <1>9 DEF Upstream

LEMMA RunnerKeepsRecovery ==
    ASSUME TypeOK, RecoveryInv, NEW s \in Sessions, Runner(s)
    PROVE  Vacant' /\ Led' /\ Coalesced' /\ RecoveryIsOwned'
  <1>a. {"gate", "closing", "between", "done"} \subseteq Places /\ None \notin Sessions
    BY SessionsAssumption DEF Places
  <1>1. CASE Finish(s) \/ EarlyRetry(s) \/ MidstreamRecovery(s) \/ Reopen(s)
    <2> USE DEF RecoveryInv, Vacant, Led, Coalesced, RecoveryIsOwned, ProbeIsOwned, NoLostWakeup,
               Probing, Away, Open
    <2>1. /\ pc[s] \in {"streaming", "between"}
          /\ UNCHANGED <<episode, generation, terminal_error, leaked>>
          /\ pc'[s] \in {"closing", "gate"}
          /\ \A t \in Sessions \ {s} : pc'[t] = pc[t]
      BY <1>1, <1>a, GoFacts DEF Finish, EarlyRetry, MidstreamRecovery, Reopen, slots, budget, recovery
    <2> QED  BY <2>1, <1>a DEF NoEpisode
  <1>2. CASE Close(s)
    BY <1>2, ResolveKeepsRecovery DEF Close, Away, ReleaseOuter, budget
  <1> QED BY <1>1, <1>2 DEF Runner

LEMMA CancelKeepsRecovery ==
    ASSUME TypeOK, RecoveryInv, NEW s \in Sessions, Cancel(s)
    PROVE  Vacant' /\ Led' /\ Coalesced' /\ RecoveryIsOwned'
  <1>a. {"closing", "done"} \subseteq Places /\ None \notin Sessions /\ 0 \in Nat
    BY SessionsAssumption DEF Places
  <1>1. CASE CancelAdmission(s)
    BY <1>1, ResolveKeepsRecovery DEF CancelAdmission, Away, ReleaseOuter, budget
  <1> USE DEF RecoveryInv, Vacant, Led, Coalesced, RecoveryIsOwned, ProbeIsOwned, NoLostWakeup,
             Probing, Away, Open
  <1>2. CASE CancelWaiting(s)
    <2>1. /\ pc[s] \in {"waiting", "woken"} /\ UNCHANGED <<terminal_error, leaked>>
          /\ pc'[s] = "done" /\ generation'[s] = 0
          /\ \A t \in Sessions \ {s} : pc'[t] = pc[t] /\ generation'[t] = generation[t]
      BY <1>2, <1>a, GoFacts, PermitFacts DEF CancelWaiting, ReleaseOuter, budget
    <2>2. SameGate /\ episode'.waiters \in {episode.waiters, episode.waiters \ {s}}
      BY <1>2 DEF CancelWaiting, SameGate, TypeOK, Episodes
    <2> QED  BY <1>a, <2>1, <2>2 DEF SameGate
  <1>3. CASE CancelSleeping(s)
    <2>1. /\ pc[s] = "sleeping" /\ UNCHANGED <<terminal_error, leaked>>
          /\ generation'[s] = 0
          /\ \A t \in Sessions \ {s} : generation'[t] = generation[t]
      BY <1>3, <1>a, PermitFacts DEF CancelSleeping, ReleaseOuter, budget
    <2>2. CASE episode.generation = generation[s] /\ episode.leader = s /\ ~episode.probe_active
      <3>1. /\ episode'.leader = None /\ ~episode'.probe_active /\ episode'.waiters = episode.waiters
            /\ episode'.generation = episode.generation /\ episode'.terminal = episode.terminal
        BY <1>3, <2>2 DEF CancelSleeping, TypeOK, Episodes
      <3>2. pc'[s] = "done" /\ \A t \in Sessions \ {s} :
                 pc'[t] = IF pc[t] = "waiting" THEN "woken" ELSE pc[t]
        BY <1>3, <1>a, <2>2, NotifyFacts DEF CancelSleeping
      <3> QED  BY <1>a, <2>1, <2>2, <3>1, <3>2 DEF NoEpisode
    <2>3. CASE ~(episode.generation = generation[s] /\ episode.leader = s /\ ~episode.probe_active)
      <3>1. UNCHANGED episode /\ pc'[s] = "done" /\ \A t \in Sessions \ {s} : pc'[t] = pc[t]
        BY <1>3, <1>a, <2>3, GoFacts DEF CancelSleeping
      <3> QED  BY <1>a, <2>1, <3>1 DEF NoEpisode
    <2> QED  BY <2>2, <2>3
  <1>4. CASE CancelUpstream(s) \/ LeaveBetween(s)
    <2>1. /\ pc[s] \in {"active", "streaming", "between"}
          /\ UNCHANGED <<episode, generation, terminal_error, leaked>>
          /\ pc'[s] = IF pc[s] = "between" THEN "done" ELSE "closing"
          /\ \A t \in Sessions \ {s} : pc'[t] = pc[t]
      BY <1>4, <1>a, GoFacts DEF CancelUpstream, LeaveBetween, slots, budget, recovery
    <2> QED  BY <2>1, <1>a DEF NoEpisode
  <1>5. CASE CancelClose(s)
    <2>1. /\ pc[s] = "closing" /\ UNCHANGED <<episode, terminal_error>>
          /\ leaked' = leaked \cup {s} /\ pc'[s] = "done" /\ generation'[s] = 0
          /\ \A t \in Sessions \ {s} : pc'[t] = pc[t] /\ generation'[t] = generation[t]
      BY <1>5, <1>a, GoFacts, PermitFacts DEF CancelClose, budget, recovery
    <2> QED  BY <2>1, <1>a DEF NoEpisode
  <1> QED BY <1>1, <1>2, <1>3, <1>4, <1>5 DEF Cancel

LEMMA RecoveryStep == TypeOK /\ RecoveryInv /\ [Next]_vars => RecoveryInv'
  <1> SUFFICES ASSUME TypeOK, RecoveryInv, [Next]_vars
               PROVE  Vacant' /\ Led' /\ Coalesced' /\ RecoveryIsOwned'
    BY ProbeStep DEF RecoveryInv
  <1>a. None \notin Sessions
    BY SessionsAssumption
  <1>1. CASE UNCHANGED vars
    BY <1>1 DEF vars, recovery, budget, slots, RecoveryInv, Vacant, Led, Coalesced, RecoveryIsOwned,
                ProbeIsOwned, NoLostWakeup, Probing, Open, NoEpisode
  <1>2. ASSUME NEW s \in Sessions, Begin(s) PROVE Vacant' /\ Led' /\ Coalesced' /\ RecoveryIsOwned'
    <2>1. /\ pc[s] = "new" /\ UNCHANGED <<episode, generation, terminal_error, leaked>>
          /\ pc'[s] = "gate" /\ \A t \in Sessions \ {s} : pc'[t] = pc[t]
      BY <1>2, GoFacts DEF Begin, slots, budget, recovery, Places
    <2> QED  BY <2>1 DEF RecoveryInv, Vacant, Led, Coalesced, RecoveryIsOwned, Away,
                ProbeIsOwned, NoLostWakeup, Probing, Open, NoEpisode
  <1>3. CASE Time
    <2>1. /\ UNCHANGED <<pc, generation, terminal_error, leaked>>
          /\ episode'.generation = episode.generation /\ episode'.leader = episode.leader
          /\ episode'.probe_active = episode.probe_active /\ episode'.waiters = episode.waiters
          /\ episode'.terminal = "no" <=> episode.terminal = "no"
      BY <1>3 DEF Time, BackoffElapses, CooldownElapses, WindowSlides, slots, budget, recovery,
                  TypeOK, Episodes, RecoveryInv, Vacant, Open
    <2> QED  BY <2>1 DEF RecoveryInv, Vacant, Led, Coalesced, RecoveryIsOwned,
                ProbeIsOwned, NoLostWakeup, Probing, Open, NoEpisode
  <1> QED BY <1>1, <1>2, <1>3, GateKeepsRecovery, AdmitKeepsRecovery,
             UpstreamKeepsRecovery, RunnerKeepsRecovery, CancelKeepsRecovery DEF Next

LEMMA InitRecovery == Init => RecoveryInv
  BY SessionsAssumption
     DEF Init, RecoveryInv, ProbeHolds, Permitted, Vacant, Led, Coalesced, RecoveryIsOwned,
         ProbeIsOwned, NoLostWakeup, NoEpisode, Open

LEMMA RecoveryInvariant == Spec => [](TypeOK /\ RecoveryInv)
  BY InitRecovery, RecoveryStep, TypeCorrect, PTL DEF Spec

\* An open recovery has somebody who will resolve it, and nobody sleeps at the gate
\* whom that would not wake: for any executions, callers and limits.
THEOREM RecoveryIsOwnedCorrect == Spec => []RecoveryIsOwned
  <1>1. RecoveryInv => RecoveryIsOwned
    BY DEF RecoveryInv
  <1> QED BY <1>1, RecoveryInvariant, PTL

-----------------------------------------------------------------------------
(* Episodes *)

\* A step in which the attempts of s, which shares a terminal outcome, stand still.
LEMMA SessionRespectsEpisodes ==
    ASSUME TypeOK, RecoveryInv, NEW t \in Sessions, NEW s \in Sessions,
           Begin(t) \/ Gate(t) \/ Admit(t) \/ Upstream(t) \/ Runner(t) \/ Cancel(t)
    PROVE  terminal_error[s] => terminal_error'[s] /\ attempts'[s] = attempts[s]
  <1> SUFFICES ASSUME terminal_error[s]
               PROVE  terminal_error'[s] /\ attempts'[s] = attempts[s]
    OBVIOUS
  <1>1. CASE Begin(t)
    BY <1>1 DEF Begin, budget
  <1>2. CASE Gate(t)
    BY <1>2 DEF Gate, GateExhausted, GateNormal, GateCooldown, GateReopen, GateLead, GateWait,
                GateFails, budget
  <1>3. CASE Admit(t)
    <2>1. CASE SlotGrant(t)
      \* t is not s, which is away from the queue for a slot.
      <3>1. pc[t] = "slot" /\ attempts' = [attempts EXCEPT ![t] = @ + 1] /\ UNCHANGED terminal_error
        BY <2>1 DEF SlotGrant
      <3>2. t # s
        BY <3>1 DEF RecoveryInv, Coalesced, Away
      <3> QED  BY <3>1, <3>2 DEF TypeOK
    <2>2. CASE BackoffOver(t) \/ LimiterGrant(t) \/ LimiterReject(t) \/ SlotStale(t)
      BY <2>2 DEF BackoffOver, LimiterGrant, LimiterReject, SlotStale, budget
    <2> QED  BY <1>3, <2>1, <2>2 DEF Admit
  <1>4. CASE Upstream(t)
    <2>1. UNCHANGED attempts
      BY <1>4 DEF Upstream, Succeed, Reject, Correct, FailFirst, FailProbe, FailTerminal,
                  FailCoalesced, FailExhausted, FailAlone, FailCommitted, MayRetry, MayNotRetry, budget
    <2>2. terminal_error'[s]
      BY <1>4 DEF Upstream, Succeed, Reject, Correct, FailFirst, FailProbe, FailTerminal,
                  FailCoalesced, FailExhausted, FailAlone, FailCommitted, budget, TypeOK
    <2> QED  BY <2>1, <2>2
  <1>5. CASE Runner(t)
    BY <1>5 DEF Runner, Finish, EarlyRetry, MidstreamRecovery, Close, Reopen, budget
  <1>6. CASE Cancel(t)
    BY <1>6 DEF Cancel, CancelWaiting, CancelSleeping, CancelAdmission, CancelUpstream, CancelClose,
                LeaveBetween, budget
  <1> QED BY <1>1, <1>2, <1>3, <1>4, <1>5, <1>6

\* A step by which an ordinary attempt of s resolves, or the task of s is cancelled.
LEMMA StaleAttemptChangesWaitersOnly ==
    ASSUME TypeOK, NEW t \in Sessions, NEW s \in Sessions,
           Begin(t) \/ Gate(t) \/ Admit(t) \/ Upstream(t) \/ Runner(t) \/ Cancel(t),
           pc[s] = "active", generation[s] = 0, pc'[s] # "active", Open
    PROVE  [episode' EXCEPT !.waiters = {}] = [episode EXCEPT !.waiters = {}]
  <1>a. {"gate", "done", "limiter", "sleeping", "waiting", "slot", "closing",
        "between", "active", "streaming"} \subseteq Places
    BY DEF Places
  <1>b. \A w \in Places : Go(t, w) \/ NotifyAndGo(t, w) => t = s
    BY GoFacts, NotifyFacts
  <1>c. ~MatchingProbe(s)
    BY DEF MatchingProbe
  <1>1. CASE Begin(t)
    BY <1>1, <1>a, <1>b DEF Begin
  <1>2. CASE Gate(t)
    BY <1>2, <1>a, <1>b DEF Gate, GateExhausted, GateNormal, GateCooldown, GateReopen, GateLead,
                GateWait, GateFails, AtGate
  <1>3. CASE Admit(t)
    BY <1>3, <1>a, <1>b DEF Admit, BackoffOver, LimiterGrant, LimiterReject, SlotGrant, SlotStale,
                AbandonProbe
  <1>4. CASE Runner(t)
    BY <1>4, <1>a, <1>b DEF Runner, Finish, EarlyRetry, MidstreamRecovery, Close, Reopen, AbandonProbe
  <1>5. CASE Cancel(t)
    BY <1>5, <1>a, <1>b DEF Cancel, CancelWaiting, CancelSleeping, CancelAdmission, CancelUpstream,
                CancelClose, LeaveBetween, AbandonProbe, recovery
  <1>6. CASE Upstream(t)
    <2>1. CASE FailCoalesced(t)
      BY <2>1 DEF FailCoalesced, TypeOK, Episodes
    <2>2. CASE Upstream(t) /\ ~FailCoalesced(t)
      <3>1. t = s
        BY <2>2, <1>a, <1>b DEF Upstream, Succeed, Reject, Correct, FailFirst, FailProbe,
              FailTerminal, FailExhausted, FailAlone, FailCommitted, MayRetry, MayNotRetry, CloseEpisode
      <3>2. UNCHANGED episode
        BY <2>2, <3>1, <1>c DEF Upstream, Succeed, Reject, Correct, FailFirst, FailProbe,
              FailTerminal, FailExhausted, FailAlone, FailCommitted, CloseEpisode, recovery
      <3> QED  BY <3>2
    <2> QED  BY <1>6, <2>1, <2>2
  <1> QED BY <1>1, <1>2, <1>3, <1>4, <1>5, <1>6

\* An attempt decides about its own episode only, and a terminal outcome stays with
\* every execution it was shared with.
THEOREM EpisodesAreRespectedCorrect == Spec => EpisodesAreRespected
  <1>1. ASSUME TypeOK, RecoveryInv, [Next]_vars
        PROVE  [\A s \in Sessions :
                 (pc[s] = "active" /\ generation[s] = 0 /\ pc'[s] # "active" /\ Open)
                    => [episode' EXCEPT !.waiters = {}] = [episode EXCEPT !.waiters = {}]]_vars
    BY <1>1, StaleAttemptChangesWaitersOnly
       DEF Next, Time, BackoffElapses, CooldownElapses, WindowSlides
  <1>2. ASSUME TypeOK, RecoveryInv, [Next]_vars
        PROVE  [\A s \in Sessions : terminal_error[s] =>
                 terminal_error'[s] /\ attempts'[s] = attempts[s]]_vars
    BY <1>2, SessionRespectsEpisodes
       DEF Next, Time, BackoffElapses, CooldownElapses, WindowSlides, budget
  <1> QED
    BY <1>1, <1>2, RecoveryInvariant, PTL
       DEF Spec, EpisodesAreRespected, StaleAttemptsAreHarmless, TerminalOutcomeSticks

-----------------------------------------------------------------------------
(* The bulkhead *)

One(b) == IF b THEN 1 ELSE 0

\* What s has of the slots that are not free.
Share(s) == One(HoldsSlot(s)) + One(outer[s]) + One(s \in leaked)

\* An execution whose attempt was never closed is over: it is lost once.
Lost == \A s \in leaked : pc[s] = "done"

\* A set in which nothing but x comes or goes.
LEMMA CountOne ==
    ASSUME NEW S, IsFiniteSet(S), NEW T, NEW x, \A y : y # x => (y \in T <=> y \in S)
    PROVE  /\ IsFiniteSet(T)
           /\ Cardinality(T) + One(x \in S) = Cardinality(S) + One(x \in T)
           /\ Cardinality(S) \in Nat /\ Cardinality(T) \in Nat
  <1>1. CASE x \in S <=> x \in T
    <2>1. S = T
      BY <1>1
    <2> QED  BY <2>1, FS_CardinalityType DEF One
  <1>2. CASE x \in S /\ x \notin T
    <2>1. T = S \ {x}
      BY <1>2
    <2> QED  BY SMTT(30), <1>2, <2>1, FS_RemoveElement, FS_CardinalityType DEF One
  <1>3. CASE x \notin S /\ x \in T
    <2>1. T = S \cup {x}
      BY <1>3
    <2> QED  BY <1>3, <2>1, FS_AddElement, FS_CardinalityType DEF One
  <1> QED  BY <1>1, <1>2, <1>3

\* A step of s that moves slots between the pool and s alone.
LEMMA SlotsMove ==
    ASSUME TypeOK, SlotsAccountedFor, NEW s \in Sessions,
           \A t \in Sessions \ {s} :
                /\ HoldsSlot(t)' <=> HoldsSlot(t)
                /\ outer'[t] = outer[t],
           leaked' \in {leaked, leaked \cup {s}},
           sem' \in Nat,
           sem' + Share(s)' = sem + Share(s)
    PROVE  SlotsAccountedFor'
  <1> DEFINE H == {t \in Sessions : HoldsSlot(t)}
             O == {t \in Sessions : outer[t]}
             L == leaked
  <1>1. IsFiniteSet(H) /\ IsFiniteSet(O) /\ IsFiniteSet(L)
    BY SessionsAssumption, FS_Subset DEF TypeOK
  <1>2. /\ \A y : y # s => (y \in H' <=> y \in H)
        /\ \A y : y # s => (y \in O' <=> y \in O)
        /\ \A y : y # s => (y \in L' <=> y \in L)
    OBVIOUS
  <1>6. /\ HoldsSlot(s) <=> s \in H
        /\ outer[s] <=> s \in O
        /\ HoldsSlot(s)' <=> s \in H'
        /\ outer'[s] <=> s \in O'
        /\ s \in leaked <=> s \in L
        /\ s \in leaked' <=> s \in L'
    OBVIOUS
  <1> HIDE DEF H, O, L
  <1>3. /\ Cardinality(H') + One(s \in H) = Cardinality(H) + One(s \in H')
        /\ Cardinality(H) \in Nat /\ Cardinality(H') \in Nat
    BY <1>1, <1>2, CountOne
  <1>4. /\ Cardinality(O') + One(s \in O) = Cardinality(O) + One(s \in O')
        /\ Cardinality(O) \in Nat /\ Cardinality(O') \in Nat
    BY <1>1, <1>2, CountOne
  <1>5. /\ Cardinality(L') + One(s \in L) = Cardinality(L) + One(s \in L')
        /\ Cardinality(L) \in Nat /\ Cardinality(L') \in Nat
    BY <1>1, <1>2, CountOne
  <1>10. /\ One(s \in H) \in Nat /\ One(s \in O) \in Nat /\ One(s \in L) \in Nat
         /\ One(s \in H') \in Nat /\ One(s \in O') \in Nat /\ One(s \in L') \in Nat
    BY DEF One
  <1>7. sem' + One(s \in H') + One(s \in O') + One(s \in L')
            = sem + One(s \in H) + One(s \in O) + One(s \in L)
    <2>1. Share(s) = One(s \in H) + One(s \in O) + One(s \in L)
      BY <1>6 DEF Share, One
    <2>2. Share(s)' = One(s \in H') + One(s \in O') + One(s \in L')
      BY <1>6 DEF Share, One
    <2> QED  BY <1>10, <2>1, <2>2 DEF TypeOK
  <1>8. sem + Cardinality(H) + Cardinality(O) + Cardinality(L) = MaxConcurrency
    BY DEF SlotsAccountedFor, H, O, L
  <1>9. sem' + Cardinality(H') + Cardinality(O') + Cardinality(L') = MaxConcurrency
    BY <1>3, <1>4, <1>5, <1>7, <1>8, <1>10, LimitsAssumption DEF TypeOK
  <1> QED  BY <1>9 DEF SlotsAccountedFor, H, O, L

\* ... and one that moves none.
LEMMA SlotsStay ==
    ASSUME TypeOK, SlotsAccountedFor, UNCHANGED slots,
           \A t \in Sessions : HoldsSlot(t)' <=> HoldsSlot(t)
    PROVE  SlotsAccountedFor'
  <1>1. {t \in Sessions : HoldsSlot(t)'} = {t \in Sessions : HoldsSlot(t)}
    OBVIOUS
  <1> QED  BY <1>1 DEF SlotsAccountedFor, slots

\* A step of s: the others keep their slots, whether or not they are woken.
Moved(s, w) == (Go(s, w) \/ NotifyAndGo(s, w)) /\ w \in Places

LEMMA MovedHolds ==
    ASSUME TypeOK, NEW s \in Sessions, NEW w, Moved(s, w)
    PROVE  /\ pc'[s] = w
           /\ \A t \in Sessions \ {s} : HoldsSlot(t)' <=> HoldsSlot(t)
           /\ Lost => \A t \in leaked \ {s} : pc'[t] = "done"
  BY GoFacts, NotifyFacts DEF HoldsSlot, Moved, Lost, TypeOK

LEMMA SessionKeepsSlots ==
    ASSUME TypeOK, SlotsAccountedFor, Lost, NEW s \in Sessions,
           Begin(s) \/ Gate(s) \/ Admit(s) \/ Upstream(s) \/ Runner(s) \/ Cancel(s), TypeOK'
    PROVE  SlotsAccountedFor' /\ Lost'
  <1>a. {"gate", "done", "limiter", "sleeping", "waiting", "slot", "closing",
         "between", "active", "streaming"} \subseteq Places
    BY DEF Places
  <1>b. ASSUME NEW w \in Places, Moved(s, w), UNCHANGED slots, pc[s] # "done",
               pc[s] \in {"active", "streaming", "closing"} <=> w \in {"active", "streaming", "closing"}
        PROVE  SlotsAccountedFor' /\ Lost'
    <2>1. pc'[s] = w /\ \A t \in Sessions : HoldsSlot(t)' <=> HoldsSlot(t)
      BY <1>b, MovedHolds DEF HoldsSlot
    <2> QED  BY <1>b, <2>1, SlotsStay, MovedHolds DEF Lost, slots
  <1>c. ASSUME NEW w \in Places, Moved(s, w), pc[s] # "done",
               \A t \in Sessions \ {s} : outer'[t] = outer[t],
               leaked' = leaked \/ (leaked' = leaked \cup {s} /\ w = "done"),
               sem' + Share(s)' = sem + Share(s)
        PROVE  SlotsAccountedFor' /\ Lost'
    <2>1. pc'[s] = w /\ \A t \in Sessions \ {s} : HoldsSlot(t)' <=> HoldsSlot(t)
      BY <1>c, MovedHolds
    <2>4. sem' \in Nat /\ leaked' \in {leaked, leaked \cup {s}}
      BY <1>c DEF TypeOK
    <2>5. SlotsAccountedFor'
      BY <1>c, <2>1, <2>4, SlotsMove
    <2> QED  BY <1>c, <2>1, <2>5, MovedHolds DEF Lost
  <1>d. s \in leaked => pc[s] = "done"
    BY DEF Lost
  <1>e. ASSUME Moved(s, "done"), ReleaseOuter(s, 0), pc[s] # "done", ~HoldsSlot(s)
        PROVE  SlotsAccountedFor' /\ Lost'
    <2>1. /\ \A t \in Sessions \ {s} : outer'[t] = outer[t]
          /\ leaked' = leaked
          /\ ~outer'[s] /\ sem' = sem + OuterSlots(s) /\ pc'[s] = "done"
      BY <1>e, MovedHolds DEF ReleaseOuter, OuterSlots, TypeOK
    <2>2. sem' + Share(s)' = sem + Share(s)
      BY <1>e, <2>1 DEF Share, One, HoldsSlot, OuterSlots, TypeOK
    <2> QED  BY <1>a, <1>c, <1>e, <2>1, <2>2
  <1>1. CASE Begin(s)
    BY <1>1, <1>a, <1>b DEF Begin, Moved
  <1>2. CASE Gate(s)
    <2>1. CASE GateExhausted(s) \/ GateCooldown(s)
      BY <2>1, <1>a, <1>e DEF GateExhausted, GateCooldown, GateFails, Moved, AtGate, HoldsSlot
    <2>2. CASE GateNormal(s) \/ GateReopen(s) \/ GateLead(s) \/ GateWait(s)
      BY <2>2, <1>a, <1>b DEF GateNormal, GateReopen, GateLead, GateWait, Moved, AtGate
    <2> QED  BY <1>2, <2>1, <2>2 DEF Gate
  <1>3. CASE Admit(s)
    <2>1. CASE SlotGrant(s)
      <3>1. /\ Moved(s, "active") /\ pc[s] = "slot" /\ outer' = outer /\ leaked' = leaked /\ sem' = sem - 1
        BY <2>1, <1>a DEF SlotGrant, Moved
      <3>2. sem' + Share(s)' = sem + Share(s)
        BY <3>1, <1>d, MovedHolds DEF Share, One, HoldsSlot, TypeOK
      <3> QED  BY <1>a, <1>c, <3>1, <3>2 DEF TypeOK
    <2>2. CASE BackoffOver(s) \/ LimiterGrant(s) \/ LimiterReject(s) \/ SlotStale(s)
      BY <2>2, <1>a, <1>b DEF BackoffOver, LimiterGrant, LimiterReject, SlotStale, AbandonProbe, Moved
    <2> QED  BY <1>3, <2>1, <2>2 DEF Admit
  <1>4. CASE Upstream(s)
    BY <1>4, <1>a, <1>b DEF Upstream, Succeed, Reject, Correct, FailFirst, FailProbe, FailTerminal,
          FailCoalesced, FailExhausted, FailAlone, FailCommitted, MayRetry, MayNotRetry, CloseEpisode,
          Moved
  <1>5. CASE Runner(s)
    <2>1. CASE Finish(s) \/ EarlyRetry(s) \/ Reopen(s)
      BY <2>1, <1>a, <1>b DEF Finish, EarlyRetry, Reopen, Moved
    <2>2. CASE MidstreamRecovery(s)
      <3>1. /\ Moved(s, "gate") /\ pc[s] = "streaming" /\ sem' = sem /\ leaked' = leaked
            /\ ~outer[s] /\ outer' = [outer EXCEPT ![s] = TRUE]
        BY <2>2, <1>a DEF MidstreamRecovery, Moved
      <3>2. sem' + Share(s)' = sem + Share(s)
        BY <3>1, MovedHolds DEF Share, One, HoldsSlot, TypeOK
      <3> QED  BY <1>a, <1>c, <3>1, <3>2 DEF TypeOK
    <2>3. CASE Close(s)
      <3>1. CASE outcome[s] = "pending" /\ CanAttempt(s)
        <4>1. /\ Moved(s, "between") /\ pc[s] = "closing" /\ outer' = outer /\ leaked' = leaked
              /\ sem' = sem + 1
          BY <2>3, <3>1, <1>a DEF Close, AbandonProbe, Moved
        <4>2. sem' + Share(s)' = sem + Share(s)
          BY <4>1, MovedHolds DEF Share, One, HoldsSlot, TypeOK
        <4> QED  BY <1>a, <1>c, <4>1, <4>2 DEF TypeOK
      <3>2. CASE ~(outcome[s] = "pending" /\ CanAttempt(s))
        <4>1. /\ Moved(s, "done") /\ pc[s] = "closing"
              /\ outer' = [outer EXCEPT ![s] = FALSE] /\ leaked' = leaked
              /\ sem' = sem + 1 + OuterSlots(s)
          BY <2>3, <3>2, <1>a DEF Close, AbandonProbe, Moved, ReleaseOuter
        <4>2. sem' + Share(s)' = sem + Share(s)
          BY <4>1, MovedHolds DEF Share, One, HoldsSlot, OuterSlots, TypeOK
        <4> QED  BY <1>a, <1>c, <4>1, <4>2 DEF TypeOK
      <3> QED  BY <3>1, <3>2
    <2> QED  BY <1>5, <2>1, <2>2, <2>3 DEF Runner
  <1>6. CASE Cancel(s)
    <2>1. CASE CancelWaiting(s) \/ CancelSleeping(s) \/ CancelAdmission(s)
      <3>1. /\ Moved(s, "done") /\ pc[s] \in {"waiting", "woken", "sleeping", "limiter", "slot"}
            /\ ReleaseOuter(s, 0)
        BY <2>1, <1>a DEF CancelWaiting, CancelSleeping, CancelAdmission, AbandonProbe, Moved
      <3> QED  BY <3>1, <1>e DEF HoldsSlot
    <2>2. CASE CancelUpstream(s) \/ LeaveBetween(s)
      BY <2>2, <1>a, <1>b DEF CancelUpstream, LeaveBetween, Moved
    <2>3. CASE CancelClose(s)
      <3>1. /\ Moved(s, "done") /\ pc[s] = "closing"
            /\ outer' = [outer EXCEPT ![s] = FALSE] /\ leaked' = leaked \cup {s}
            /\ sem' = sem + OuterSlots(s)
        BY <2>3, <1>a DEF CancelClose, Moved
      <3>2. sem' + Share(s)' = sem + Share(s)
        BY <3>1, <1>d, MovedHolds DEF Share, One, HoldsSlot, OuterSlots, TypeOK
      <3> QED  BY <1>a, <1>c, <3>1, <3>2 DEF TypeOK
    <2> QED  BY <1>6, <2>1, <2>2, <2>3 DEF Cancel
  <1> QED BY <1>1, <1>2, <1>3, <1>4, <1>5, <1>6

LEMMA SlotsStep ==
    TypeOK /\ SlotsAccountedFor /\ Lost /\ [Next]_vars => SlotsAccountedFor' /\ Lost'
  <1> SUFFICES ASSUME TypeOK, SlotsAccountedFor, Lost, [Next]_vars
               PROVE  SlotsAccountedFor' /\ Lost'
    OBVIOUS
  <1>1. TypeOK'
    BY TypeStep
  <1>2. CASE Time \/ UNCHANGED vars
    <2>1. UNCHANGED <<pc, sem, outer, leaked>>
      BY <1>2 DEF Time, BackoffElapses, CooldownElapses, WindowSlides, vars, slots
    <2> QED  BY <2>1, SlotsStay DEF slots, HoldsSlot, Lost
  <1> QED  BY <1>1, <1>2, SessionKeepsSlots DEF Next

\* Every slot of the bulkhead is free, held or lost: none is released twice, however
\* attempts are retried, recovered and cancelled.
THEOREM SlotsAccountedForCorrect == Spec => []SlotsAccountedFor
  <1>1. Init => SlotsAccountedFor /\ Lost
    <2> SUFFICES ASSUME Init PROVE SlotsAccountedFor
      BY DEF Init, Lost
    <2>1. /\ {s \in Sessions : HoldsSlot(s)} = {} /\ {s \in Sessions : outer[s]} = {}
          /\ leaked = {}
      BY DEF Init, HoldsSlot
    <2> QED  BY <2>1, FS_EmptySet, LimitsAssumption DEF Init, SlotsAccountedFor
  <1> QED  BY <1>1, SlotsStep, TypeCorrect, PTL DEF Spec

-----------------------------------------------------------------------------
(* The refinement of RecoveryGate *)

\* What a step of the controller is to the gate: one of the gate's steps, or nothing.
GateStep == [Breaker!Next]_<<Mode, episode.leader>>

\* The gate does not see readiness, waiters and clocks.
LEMMA SameGateStutters ==
    ASSUME SameGate
    PROVE  GateStep
  BY DEF SameGate, GateStep, Mode, Open

LEMMA ResolveIsGateStep ==
    ASSUME TypeOK, ProbeHolds, NEW s \in Sessions, NEW w,
           pc[s] \in {"limiter", "slot", "active", "closing"},
           AbandonProbe(s, w) \/ CloseEpisode(s, w)
    PROVE  GateStep
  <1>1. CASE MatchingProbe(s)
    <2>1. Mode = "probing"
      BY <1>1 DEF MatchingProbe, ProbeHolds, Permitted, HoldsGate, Mode, Open
    <2>2. CASE episode' = NoEpisode
      <3>1. Mode' = "closed" /\ episode'.leader = None
        BY <2>2 DEF NoEpisode, Mode, Open
      <3> QED  BY <2>1, <3>1 DEF GateStep, Breaker!Next, Breaker!Recover
    <2>3. CASE episode' = [episode EXCEPT !.leader = None, !.ready = TRUE, !.probe_active = FALSE]
      <3>1. /\ episode'.leader = None /\ ~episode'.probe_active
            /\ episode'.generation = episode.generation /\ episode'.terminal = episode.terminal
        BY <2>3 DEF TypeOK, Episodes
      <3>2. Mode' = "recovering"
        BY <1>1, <3>1 DEF Mode, Open, MatchingProbe, ProbeHolds, Permitted, HoldsGate
      <3> QED  BY <2>1, <3>1, <3>2 DEF GateStep, Breaker!Next, Breaker!Yield
    <2> QED  BY <1>1, <2>2, <2>3 DEF AbandonProbe, CloseEpisode
  <1>2. CASE ~MatchingProbe(s)
    BY <1>2, SameGateStutters DEF AbandonProbe, CloseEpisode, SameGate
  <1> QED  BY <1>1, <1>2

LEMMA GateIsGateStep ==
    ASSUME TypeOK, RecoveryInv, NEW s \in Sessions, Gate(s)
    PROVE  GateStep
  <1>a. None \notin Sessions /\ next_generation \in Nat \ {0}
    BY SessionsAssumption DEF TypeOK
  <1>1. CASE GateExhausted(s) \/ GateNormal(s) \/ GateCooldown(s)
    BY <1>1, SameGateStutters DEF GateExhausted, GateNormal, GateCooldown, GateFails, SameGate, recovery
  <1>2. CASE GateReopen(s)
    <2>1. Mode = "cooldown"
      BY <1>2 DEF GateReopen, Mode, Open, RecoveryInv, Vacant
    <2>2. Mode' = "probing" /\ episode'.leader = s
      BY <1>2, <1>a DEF GateReopen, NewEpisode, Mode, Open
    <2> QED  BY <2>1, <2>2 DEF GateStep, Breaker!Next, Breaker!Reopen
  <1>3. CASE GateLead(s)
    \* A vacant lead has no probe.
    <2>1. ~episode.probe_active /\ episode.leader \in {None, s}
      BY <1>3, <1>a DEF GateLead, RecoveryInv, RecoveryIsOwned, ProbeIsOwned
    <2>2. Mode = "recovering"
      BY <1>3, <2>1 DEF GateLead, Mode
    <2>3. /\ episode'.leader = s /\ episode'.generation = episode.generation
          /\ episode'.terminal = episode.terminal
      BY <1>3 DEF GateLead, TypeOK, Episodes
    <2>4. Mode' \in {"recovering", "probing"}
      BY <1>3, <2>3 DEF GateLead, Mode, Open
    <2> QED  BY <2>1, <2>2, <2>3, <2>4 DEF GateStep, Breaker!Next, Breaker!Lead
  <1>4. CASE GateWait(s)
    <2>1. SameGate
      BY <1>4 DEF GateWait, SameGate, TypeOK, Episodes
    <2> QED  BY <2>1, SameGateStutters
  <1> QED  BY <1>1, <1>2, <1>3, <1>4 DEF Gate

LEMMA AdmitIsGateStep ==
    ASSUME TypeOK, RecoveryInv, NEW s \in Sessions, Admit(s)
    PROVE  GateStep
  <1>1. CASE BackoffOver(s)
    <2>1. CASE UNCHANGED episode
      BY <2>1, SameGateStutters DEF SameGate
    <2>2. CASE ~UNCHANGED episode
      <3>1. /\ episode.terminal = "no" /\ episode.leader = s /\ ~episode.probe_active
            /\ episode' = [episode EXCEPT !.probe_active = TRUE]
        BY <1>1, <2>2 DEF BackoffOver
      <3>2. Open
        BY <3>1, SessionsAssumption DEF RecoveryInv, Vacant
      <3>3. /\ episode'.leader = s /\ episode'.generation = episode.generation
            /\ episode'.terminal = "no" /\ episode'.probe_active
        BY <3>1 DEF TypeOK, Episodes
      <3>4. Mode = "recovering" /\ Mode' = "probing"
        BY <3>1, <3>2, <3>3 DEF Mode, Open
      <3> QED  BY <3>1, <3>3, <3>4 DEF GateStep, Breaker!Next, Breaker!Lead
    <2> QED  BY <2>1, <2>2
  <1>2. CASE LimiterGrant(s) \/ SlotGrant(s)
    BY <1>2, SameGateStutters DEF LimiterGrant, SlotGrant, SameGate, recovery
  <1>3. CASE LimiterReject(s) \/ SlotStale(s)
    BY <1>3, ResolveIsGateStep DEF LimiterReject, SlotStale, RecoveryInv
  <1> QED  BY <1>1, <1>2, <1>3 DEF Admit

LEMMA UpstreamIsGateStep ==
    ASSUME TypeOK, RecoveryInv, NEW s \in Sessions, Upstream(s)
    PROVE  GateStep
  <1>a. None \notin Sessions /\ next_generation \in Nat \ {0}
    BY SessionsAssumption DEF TypeOK
  <1>b. pc[s] = "active" /\ MatchingProbe(s) => Mode = "probing" /\ Open /\ episode.terminal = "no"
    BY DEF MatchingProbe, RecoveryInv, ProbeHolds, Permitted, HoldsGate, Mode, Open
  <1>1. CASE Succeed(s) \/ Reject(s)
    BY <1>1, ResolveIsGateStep DEF Succeed, Reject, RecoveryInv
  <1>2. CASE (Correct(s) /\ MatchingProbe(s)) \/ FailProbe(s)
    <2>1. /\ MatchingProbe(s) /\ pc[s] = "active"
          /\ episode'.leader = episode.leader /\ episode'.generation = episode.generation
          /\ episode'.terminal = episode.terminal /\ ~episode'.probe_active
      BY <1>2 DEF Correct, FailProbe, MayRetry, TypeOK, Episodes
    <2>2. Mode' = "recovering"
      BY <1>b, <2>1 DEF Mode, Open
    <2> QED  BY <1>b, <2>1, <2>2 DEF GateStep, Breaker!Next, Breaker!Renew
  <1>3. CASE FailFirst(s)
    <2>1. Mode = "closed" /\ Mode' = "recovering" /\ episode'.leader = s
      BY <1>3, <1>a DEF FailFirst, NewEpisode, Mode, Open
    <2> QED  BY <2>1 DEF GateStep, Breaker!Next, Breaker!Trip
  <1>4. CASE FailExhausted(s)
    <2>1. Mode \in {"closed", "probing"}
      BY <1>4, <1>b DEF FailExhausted, MayNotRetry, Mode
    <2>2. Mode' = "cooldown" /\ episode'.leader = None
      BY <1>4, <1>a DEF FailExhausted, NewEpisode, Mode, Open, TypeOK, Episodes
    <2> QED  BY <2>1, <2>2 DEF GateStep, Breaker!Next, Breaker!Exhaust
  <1>5. CASE \/ Correct(s) /\ ~MatchingProbe(s)
             \/ FailTerminal(s) \/ FailCoalesced(s) \/ FailAlone(s) \/ FailCommitted(s)
    <2>1. SameGate
      BY <1>5 DEF Correct, FailTerminal, FailCoalesced, FailAlone, FailCommitted, SameGate, recovery,
                  TypeOK, Episodes
    <2> QED  BY <2>1, SameGateStutters
  <1> QED  BY <1>1, <1>2, <1>3, <1>4, <1>5 DEF Upstream

LEMMA LeaveIsGateStep ==
    ASSUME TypeOK, RecoveryInv, NEW s \in Sessions, Runner(s) \/ Cancel(s)
    PROVE  GateStep
  <1>1. CASE Close(s) \/ CancelAdmission(s)
    BY <1>1, ResolveIsGateStep DEF Close, CancelAdmission, RecoveryInv
  <1>2. CASE CancelSleeping(s)
    <2>1. CASE UNCHANGED episode
      BY <2>1, SameGateStutters DEF SameGate
    <2>2. CASE ~UNCHANGED episode
      <3>1. /\ episode.leader = s /\ ~episode.probe_active
            /\ episode' = [episode EXCEPT !.leader = None]
        BY <1>2, <2>2 DEF CancelSleeping
      <3>2. Open /\ episode.terminal = "no"
        BY <3>1, SessionsAssumption DEF RecoveryInv, Vacant
      <3>3. /\ episode'.leader = None /\ episode'.generation = episode.generation
            /\ episode'.terminal = "no" /\ ~episode'.probe_active
        BY <3>1, <3>2 DEF TypeOK, Episodes
      <3>4. Mode = "recovering" /\ Mode' = "recovering"
        BY <3>1, <3>2, <3>3 DEF Mode, Open
      <3> QED  BY <3>3, <3>4 DEF GateStep, Breaker!Next, Breaker!Yield
    <2> QED  BY <2>1, <2>2
  <1>3. CASE \/ Finish(s) \/ EarlyRetry(s) \/ MidstreamRecovery(s) \/ Reopen(s)
             \/ CancelWaiting(s) \/ CancelUpstream(s) \/ CancelClose(s) \/ LeaveBetween(s)
    <2>1. SameGate
      BY <1>3 DEF Finish, EarlyRetry, MidstreamRecovery, Reopen, CancelWaiting, CancelUpstream,
                  CancelClose, LeaveBetween, SameGate, recovery, TypeOK, Episodes
    <2> QED  BY <2>1, SameGateStutters
  <1> QED  BY <1>1, <1>2, <1>3 DEF Runner, Cancel

LEMMA StepIsGateStep == TypeOK /\ RecoveryInv /\ [Next]_vars => GateStep
  <1> SUFFICES ASSUME TypeOK, RecoveryInv, [Next]_vars PROVE GateStep
    OBVIOUS
  <1>1. CASE UNCHANGED vars
    BY <1>1, SameGateStutters DEF vars, recovery, SameGate
  <1>2. ASSUME NEW s \in Sessions, Begin(s) PROVE GateStep
    BY <1>2, SameGateStutters DEF Begin, recovery, SameGate
  <1>3. CASE Time
    <2>1. CASE BackoffElapses \/ WindowSlides
      <3>1. SameGate
        BY <2>1 DEF BackoffElapses, WindowSlides, recovery, SameGate, TypeOK, Episodes
      <3> QED  BY <3>1, SameGateStutters
    <2>2. CASE CooldownElapses
      <3>1. Open
        BY <2>2 DEF CooldownElapses, RecoveryInv, Vacant
      <3>2. /\ episode'.leader = episode.leader /\ episode'.generation = episode.generation
            /\ episode'.terminal = "expired"
        BY <2>2 DEF CooldownElapses, TypeOK, Episodes
      <3>3. Mode = "cooldown" /\ Mode' = "cooldown"
        BY <2>2, <3>1, <3>2 DEF CooldownElapses, Mode, Open
      <3> QED  BY <3>2, <3>3 DEF GateStep
    <2> QED  BY <1>3, <2>1, <2>2 DEF Time
  <1> QED BY <1>1, <1>2, <1>3, GateIsGateStep, AdmitIsGateStep, UpstreamIsGateStep,
             LeaveIsGateStep DEF Next

\* The controller, with all its callers, attempts and clocks, is a circuit breaker
\* with one half-open prober.
THEOREM ImplementsBreakerCorrect == Spec => ImplementsBreaker
  <1>1. Init => Breaker!Init
    BY DEF Init, NoEpisode, Breaker!Init, Mode, Open
  <1> QED
    BY <1>1, StepIsGateStep, RecoveryInvariant, PTL DEF Spec, ImplementsBreaker, Breaker!Spec, GateStep
=============================================================================
