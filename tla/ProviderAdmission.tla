-------------------------- MODULE ProviderAdmission --------------------------
(***************************************************************************)
(* Admission, concurrency and coordinated retry of one provider, translated *)
(* from providers/admission.py, with the three kinds of callers that drive  *)
(* it: ProviderAdmissionController.run_with_retry (model lists), the        *)
(* OpenAI-chat stream runner and the Codex stream runner.                   *)
(*                                                                          *)
(* One step is what one asyncio task does between two suspension points;    *)
(* the condition's lock is never held across one, so it does not appear.    *)
(* Clocks become the facts they decide: whether ready_at has passed,        *)
(* whether terminal_until has, and how many acquisitions the limiter's      *)
(* window still holds.                                                      *)
(***************************************************************************)
EXTENDS Integers, FiniteSets

CONSTANTS
    Sessions,        \* logical executions (ProviderRetrySession objects)
    Chat,            \* those an OpenAI-chat runner drives
    Codex,           \* those the Codex runner drives
    MaxAttempts,     \* max_attempts
    MaxConcurrency,  \* max_concurrency
    RateLimit,       \* rate_limit
    None             \* no session

ASSUME SessionsAssumption == IsFiniteSet(Sessions) /\ None \notin Sessions
ASSUME CallersAssumption ==
    Chat \subseteq Sessions /\ Codex \subseteq Sessions /\ Chat \cap Codex = {}
ASSUME LimitsAssumption ==
    /\ MaxAttempts \in Nat \ {0}
    /\ MaxConcurrency \in Nat \ {0}
    /\ RateLimit \in Nat \ {0}

VARIABLES
    episode,          \* _episode
    next_generation,  \* _next_generation
    sem,              \* free slots of _concurrency_sem
    window,           \* acquisitions the sliding window still counts
    pc,               \* where each execution is suspended, or about to run
    generation,       \* generation of its unresolved permit, or it parked on
    attempts,         \* _attempts_started
    terminal_error,   \* whether _terminal_error is set
    outer,            \* holds an interrupted stream's slot while it recovers
    outcome,          \* how the execution ends, once that is settled
    leaked            \* executions whose attempt was never closed (history)

recovery == <<episode, next_generation>>
budget == <<attempts, terminal_error>>
slots == <<sem, outer, leaked>>
vars == <<recovery, slots, window, pc, generation, budget, outcome>>

-----------------------------------------------------------------------------
\* An episode, with generation 0 where the code has None.
NoEpisode == [generation |-> 0, leader |-> None, ready |-> FALSE,
              probe_active |-> FALSE, terminal |-> "no", waiters |-> {}]
Open == episode.generation # 0

NewEpisode(leader, ready) ==
    [generation |-> next_generation, leader |-> leader, ready |-> ready,
     probe_active |-> FALSE, terminal |-> "no", waiters |-> {}]

CanAttempt(s) == attempts[s] < MaxAttempts

\* _permit_is_current; a permit of generation 0 is an ordinary one.
PermitCurrent(s) ==
    IF generation[s] = 0
      THEN ~Open
      ELSE /\ episode.generation = generation[s]
           /\ episode.terminal = "no"
           /\ episode.leader = s
           /\ episode.probe_active

\* _matching_probe: generation[s] is the attempt's permit until it resolves.
MatchingProbe(s) ==
    /\ generation[s] # 0
    /\ episode.generation = generation[s]
    /\ episode.leader = s
    /\ episode.probe_active

\* notify_all: every task in condition.wait becomes runnable.
Notified == [t \in Sessions |-> IF pc[t] = "waiting" THEN "woken" ELSE pc[t]]

Go(s, where) == pc' = [pc EXCEPT ![s] = where]
NotifyAndGo(s, where) == pc' = [Notified EXCEPT ![s] = where]

\* Mutant: probe_active is not cleared.
AbandonLeadOnly(s, where) ==
    IF MatchingProbe(s)
      THEN /\ episode' = [episode EXCEPT !.leader = None, !.ready = TRUE]
           /\ NotifyAndGo(s, where)
      ELSE Go(s, where) /\ UNCHANGED episode

\* s gives its probe up: _attempt_abandoned and _abandon_probe_permit.
AbandonProbe(s, where) ==
    IF MatchingProbe(s)
      THEN /\ episode' = [episode EXCEPT !.leader = None, !.ready = TRUE,
                                         !.probe_active = FALSE]
           /\ NotifyAndGo(s, where)
      ELSE /\ Go(s, where)
           /\ UNCHANGED episode

\* Mutant: notify_all is forgotten.
CloseQuietly(s, where) ==
    /\ episode' = IF MatchingProbe(s) THEN NoEpisode ELSE episode
    /\ Go(s, where)

\* Mutant: any answer closes the episode.
CloseAnyEpisode(s, where) == episode' = NoEpisode /\ NotifyAndGo(s, where)

\* Upstream answered s's probe, with a result or a final rejection.
CloseEpisode(s, where) ==
    IF MatchingProbe(s)
      THEN episode' = NoEpisode /\ NotifyAndGo(s, where)
      ELSE Go(s, where) /\ UNCHANGED episode

Settle(s, how) == outcome' = [outcome EXCEPT ![s] = how]
Permit(s, g) == generation' = [generation EXCEPT ![s] = g]

\* Mutant: the outer attempt is not closed.
NoOuterSlots(s) == 0

\* The outer attempt's slot, which the runner's finally clause gives back.
OuterSlots(s) == IF outer[s] THEN 1 ELSE 0
ReleaseOuter(s, own) ==
    /\ sem' = sem + own + OuterSlots(s)
    /\ outer' = [outer EXCEPT ![s] = FALSE]
    /\ UNCHANGED leaked

-----------------------------------------------------------------------------
Init ==
    /\ episode = NoEpisode
    /\ next_generation = 1
    /\ sem = MaxConcurrency
    /\ window = 0
    /\ pc = [s \in Sessions |-> "new"]
    /\ generation = [s \in Sessions |-> 0]
    /\ attempts = [s \in Sessions |-> 0]
    /\ terminal_error = [s \in Sessions |-> FALSE]
    /\ outer = [s \in Sessions |-> FALSE]
    /\ outcome = [s \in Sessions |-> "pending"]
    /\ leaked = {}

\* A caller creates a retry session and calls open_attempt.
Begin(s) ==
    /\ pc[s] = "new"
    /\ Go(s, "gate")
    /\ UNCHANGED <<recovery, slots, window, generation, budget, outcome>>

-----------------------------------------------------------------------------
(* _wait_for_gate *)

AtGate(s) == pc[s] \in {"gate", "woken"}

GateFails(s) ==
    /\ Go(s, "done")
    /\ Settle(s, "failed")
    /\ Permit(s, 0)
    /\ ReleaseOuter(s, 0)
    /\ UNCHANGED <<recovery, window, budget>>

\* The outcome of the episode s was coalesced into is final for s.
GateExhausted(s) ==
    /\ AtGate(s)
    /\ terminal_error[s]
    /\ GateFails(s)

\* Mutant: a session's terminal error is not looked at.
GateNormalUnchecked(s) ==
    /\ AtGate(s)
    /\ ~Open
    /\ Go(s, "limiter")
    /\ Permit(s, 0)
    /\ UNCHANGED <<recovery, slots, window, budget, outcome>>

GateNormal(s) ==
    /\ AtGate(s)
    /\ ~terminal_error[s]
    /\ ~Open
    /\ Go(s, "limiter")
    /\ Permit(s, 0)
    /\ UNCHANGED <<recovery, slots, window, budget, outcome>>

GateCooldown(s) ==
    /\ AtGate(s)
    /\ ~terminal_error[s]
    /\ episode.terminal = "cooling"
    /\ GateFails(s)

\* Mutant: an expired episode is forgotten, and lets everybody in.
GateForget(s) ==
    /\ AtGate(s)
    /\ ~terminal_error[s]
    /\ episode.terminal = "expired"
    /\ episode' = NoEpisode
    /\ Permit(s, 0)
    /\ Go(s, "limiter")
    /\ UNCHANGED <<next_generation, slots, window, budget, outcome>>

\* The first caller after the cooldown replaces the episode and probes.
GateReopen(s) ==
    /\ AtGate(s)
    /\ ~terminal_error[s]
    /\ episode.terminal = "expired"
    /\ episode' = [NewEpisode(s, TRUE) EXCEPT !.probe_active = TRUE]
    /\ next_generation' = next_generation + 1
    /\ Permit(s, next_generation)
    /\ Go(s, "limiter")
    /\ UNCHANGED <<slots, window, budget, outcome>>

\* Mutant: the lead is taken without looking whether it is vacant.
GateLeadAlways(s) ==
    /\ AtGate(s)
    /\ ~terminal_error[s]
    /\ Open
    /\ episode.terminal = "no"
    /\ episode' = [episode EXCEPT !.leader = s, !.probe_active = episode.ready,
                                  !.waiters = @ \ {s}]
    /\ Permit(s, episode.generation)
    /\ Go(s, IF episode.ready THEN "limiter" ELSE "sleeping")
    /\ UNCHANGED <<next_generation, slots, window, budget, outcome>>

\* s leads the episode, or takes a vacant lead: it probes, or sleeps first.
GateLead(s) ==
    /\ AtGate(s)
    /\ ~terminal_error[s]
    /\ Open
    /\ episode.terminal = "no"
    /\ \/ episode.leader = None
       \/ episode.leader = s /\ ~episode.probe_active
    /\ episode' = [episode EXCEPT
          !.leader = s,
          !.probe_active = episode.ready,
          !.waiters = IF episode.leader = None THEN @ \ {s} ELSE @]
    /\ Permit(s, episode.generation)
    /\ Go(s, IF episode.ready THEN "limiter" ELSE "sleeping")
    /\ UNCHANGED <<next_generation, slots, window, budget, outcome>>

\* Another execution leads: s waits on the condition.
GateWait(s) ==
    /\ AtGate(s)
    /\ ~terminal_error[s]
    /\ Open
    /\ episode.terminal = "no"
    /\ episode.leader \notin {None, s}
    /\ episode' = [episode EXCEPT !.waiters = @ \cup {s}]
    /\ Permit(s, episode.generation)
    /\ Go(s, "waiting")
    /\ UNCHANGED <<next_generation, slots, window, budget, outcome>>

\* The leader's backoff sleep ends; it rechecks that it still leads.
BackoffOver(s) ==
    /\ pc[s] = "sleeping"
    /\ episode.ready
    /\ IF /\ episode.generation = generation[s]
          /\ episode.terminal = "no"
          /\ episode.leader = s
          /\ ~episode.probe_active
         THEN /\ episode' = [episode EXCEPT !.probe_active = TRUE]
              /\ Go(s, "limiter")
         ELSE Go(s, "gate") /\ UNCHANGED episode
    /\ UNCHANGED <<next_generation, slots, window, generation, budget, outcome>>

-----------------------------------------------------------------------------
(* The rest of open_attempt *)

\* acquire_if: the permit is checked in the step that takes quota.
LimiterGrant(s) ==
    /\ pc[s] = "limiter"
    /\ window < RateLimit
    /\ PermitCurrent(s)
    /\ window' = window + 1
    /\ Go(s, "slot")
    /\ UNCHANGED <<recovery, slots, generation, budget, outcome>>

LimiterReject(s) ==
    /\ pc[s] = "limiter"
    /\ window < RateLimit
    /\ ~PermitCurrent(s)
    /\ AbandonProbe(s, "gate")
    /\ UNCHANGED <<next_generation, slots, window, generation, budget, outcome>>

\* Mutant: the semaphore is not waited for.
SlotGrantAtOnce(s) ==
    /\ pc[s] = "slot"
    /\ PermitCurrent(s)
    /\ sem' = sem - 1
    /\ attempts' = [attempts EXCEPT ![s] = @ + 1]
    /\ Go(s, "active")
    /\ UNCHANGED <<recovery, window, generation, terminal_error, outer, outcome, leaked>>

SlotGrant(s) ==
    /\ pc[s] = "slot"
    /\ sem > 0
    /\ PermitCurrent(s)
    /\ sem' = sem - 1
    /\ attempts' = [attempts EXCEPT ![s] = @ + 1]
    /\ Go(s, "active")
    /\ UNCHANGED <<recovery, window, generation, terminal_error, outer, outcome, leaked>>

\* The permit went stale while s queued for the slot: it hands the slot back.
SlotStale(s) ==
    /\ pc[s] = "slot"
    /\ sem > 0
    /\ ~PermitCurrent(s)
    /\ AbandonProbe(s, "gate")
    /\ UNCHANGED <<next_generation, slots, window, generation, budget, outcome>>

-----------------------------------------------------------------------------
(* The attempt *)

\* The first item of a response: attempt.succeeded().
Succeed(s) ==
    /\ pc[s] = "active"
    /\ CloseEpisode(s, "streaming")
    /\ Permit(s, 0)
    /\ UNCHANGED <<next_generation, slots, window, budget, outcome>>

\* attempt.retry(error) with an error no retry can cure.
Reject(s) ==
    /\ pc[s] = "active"
    /\ CloseEpisode(s, "closing")
    /\ Settle(s, "failed")
    /\ Permit(s, 0)
    /\ UNCHANGED <<next_generation, slots, window, budget>>

\* attempt.retry_immediately(): the chat runner checks its budget first.
Correct(s) ==
    /\ pc[s] = "active"
    /\ s \in Codex \/ (s \in Chat /\ CanAttempt(s))
    /\ IF MatchingProbe(s)
         THEN /\ episode' = [episode EXCEPT !.probe_active = FALSE, !.ready = TRUE]
              /\ NotifyAndGo(s, "closing")
         ELSE Go(s, "closing") /\ UNCHANGED episode
    /\ Permit(s, 0)
    /\ UNCHANGED <<next_generation, slots, window, budget, outcome>>

\* attempt.retry(error) with a retryable error and budget left.
MayRetry(s) ==
    /\ pc[s] = "active"
    /\ CanAttempt(s)
    /\ NotifyAndGo(s, "closing")
    /\ Permit(s, 0)
    /\ UNCHANGED <<slots, window, attempts, outcome>>

\* The first failure opens an episode that s leads. ready_at is in the future,
\* or now when every delay is configured to be zero.
FailFirst(s) ==
    /\ MayRetry(s)
    /\ ~Open
    /\ episode' = NewEpisode(s, FALSE)
    /\ next_generation' = next_generation + 1
    /\ UNCHANGED terminal_error

\* A failed probe backs off again; its session keeps the lead.
FailProbe(s) ==
    /\ MayRetry(s)
    /\ MatchingProbe(s)
    /\ episode' = [episode EXCEPT !.probe_active = FALSE, !.ready = FALSE]
    /\ UNCHANGED <<next_generation, terminal_error>>

\* The failure of an attempt older than a terminal episode shares its outcome.
FailTerminal(s) ==
    /\ MayRetry(s)
    /\ Open /\ ~MatchingProbe(s)
    /\ episode.terminal # "no"
    /\ terminal_error' = [terminal_error EXCEPT ![s] = TRUE]
    /\ UNCHANGED recovery

\* That of one older than a live episode coalesces into it.
FailCoalesced(s) ==
    /\ MayRetry(s)
    /\ Open /\ ~MatchingProbe(s)
    /\ episode.terminal = "no"
    /\ episode' = [episode EXCEPT !.waiters = @ \cup {s}]
    /\ UNCHANGED <<next_generation, terminal_error>>

\* A stream breaks before its first item but after the holdback deadline
\* committed output: retry() is not called, and aclose() will abandon a probe.
FailCommitted(s) ==
    /\ pc[s] = "active"
    /\ s \in Chat \cup Codex
    /\ ~outer[s]
    /\ Go(s, "closing")
    /\ Settle(s, "failed")
    /\ UNCHANGED <<recovery, slots, window, generation, budget>>

\* attempt.retry(error) with a retryable error and the budget spent.
MayNotRetry(s) ==
    /\ pc[s] = "active"
    /\ ~CanAttempt(s)
    /\ Settle(s, "failed")
    /\ Permit(s, 0)
    /\ UNCHANGED <<slots, window, attempts>>

\* The episode, or a new one, becomes terminal for all coalesced into it.
FailExhausted(s) ==
    /\ MayNotRetry(s)
    /\ ~Open \/ MatchingProbe(s)
    /\ episode' = [(IF Open THEN episode ELSE NewEpisode(None, TRUE)) EXCEPT
          !.leader = None, !.probe_active = FALSE,
          !.terminal = "cooling", !.waiters = {}]
    /\ next_generation' = IF Open THEN next_generation ELSE next_generation + 1
    /\ terminal_error' = [t \in Sessions |-> terminal_error[t] \/ t \in episode.waiters]
    /\ NotifyAndGo(s, "closing")

\* The open episode is someone else's: only s fails.
FailAlone(s) ==
    /\ MayNotRetry(s)
    /\ Open /\ ~MatchingProbe(s)
    /\ Go(s, "closing")
    /\ UNCHANGED <<recovery, terminal_error>>

-----------------------------------------------------------------------------
(* The callers *)

\* The accepted response ends, well or for good.
Finish(s) ==
    /\ pc[s] = "streaming"
    /\ \/ Settle(s, "ok")
       \/ s \in Chat \cup Codex /\ Settle(s, "failed")
    /\ Go(s, "closing")
    /\ UNCHANGED <<recovery, slots, window, generation, budget>>

\* An accepted stream breaks before its output is committed, or the
\* continuation of a recovery does: the runner opens another attempt.
EarlyRetry(s) ==
    /\ pc[s] = "streaming"
    /\ s \in Chat \cup Codex
    /\ CanAttempt(s)
    /\ Go(s, "closing")
    /\ UNCHANGED <<recovery, slots, window, generation, budget, outcome>>

\* An accepted chat stream breaks after output was committed: the runner
\* collects a continuation before its finally clause closes the attempt.
MidstreamRecovery(s) ==
    /\ pc[s] = "streaming"
    /\ s \in Chat
    /\ ~outer[s]
    /\ CanAttempt(s)
    /\ outer' = [outer EXCEPT ![s] = TRUE]
    /\ Go(s, "gate")
    /\ UNCHANGED <<recovery, sem, leaked, window, generation, budget, outcome>>

\* The finally clause: the stream is closed, then attempt.aclose() runs.
\* A Codex session whose last attempt was corrected leaves its loop here.
Close(s) ==
    LET again == outcome[s] = "pending" /\ CanAttempt(s) IN
    /\ pc[s] = "closing"
    /\ AbandonProbe(s, IF again THEN "between" ELSE "done")
    /\ Permit(s, 0)
    /\ IF again
         THEN sem' = sem + 1 /\ UNCHANGED <<outer, leaked, outcome>>
         ELSE /\ ReleaseOuter(s, 1)
              /\ Settle(s, IF outcome[s] = "pending" THEN "failed" ELSE outcome[s])
    /\ UNCHANGED <<next_generation, window, budget>>

\* The runner's loop comes round to open_attempt.
Reopen(s) ==
    /\ pc[s] = "between"
    /\ Go(s, "gate")
    /\ UNCHANGED <<recovery, slots, window, generation, budget, outcome>>

-----------------------------------------------------------------------------
(* Cancellation, and other ways a caller goes away *)

CancelWaiting(s) ==
    /\ pc[s] \in {"waiting", "woken"}
    /\ episode' = IF episode.generation = generation[s]
                    THEN [episode EXCEPT !.waiters = @ \ {s}] ELSE episode
    /\ Go(s, "done")
    /\ Settle(s, "cancelled")
    /\ Permit(s, 0)
    /\ ReleaseOuter(s, 0)
    /\ UNCHANGED <<next_generation, window, budget>>

\* _abandon_waiting_leader
CancelSleeping(s) ==
    /\ pc[s] = "sleeping"
    /\ IF /\ episode.generation = generation[s]
          /\ episode.leader = s
          /\ ~episode.probe_active
         THEN /\ episode' = [episode EXCEPT !.leader = None]
              /\ NotifyAndGo(s, "done")
         ELSE Go(s, "done") /\ UNCHANGED episode
    /\ Settle(s, "cancelled")
    /\ Permit(s, 0)
    /\ ReleaseOuter(s, 0)
    /\ UNCHANGED <<next_generation, window, budget>>

\* Cancelled in the limiter or in the queue for a slot.
CancelAdmission(s) ==
    /\ pc[s] \in {"limiter", "slot"}
    /\ AbandonProbe(s, "done")
    /\ Settle(s, "cancelled")
    /\ Permit(s, 0)
    /\ ReleaseOuter(s, 0)
    /\ UNCHANGED <<next_generation, window, budget>>

\* Cancelled while upstream works: the finally clause still has to run.
CancelUpstream(s) ==
    /\ pc[s] \in {"active", "streaming"}
    /\ Go(s, "closing")
    /\ Settle(s, "cancelled")
    /\ UNCHANGED <<recovery, slots, window, generation, budget>>

\* Cancelled while the finally clause closes the stream, before its
\* attempt.aclose(), which then never runs; an outer attempt's still does.
CancelClose(s) ==
    /\ pc[s] = "closing"
    /\ s \in Chat \cup Codex
    /\ Go(s, "done")
    /\ Settle(s, "cancelled")
    /\ Permit(s, 0)
    /\ sem' = sem + OuterSlots(s)
    /\ outer' = [outer EXCEPT ![s] = FALSE]
    /\ leaked' = leaked \cup {s}
    /\ UNCHANGED <<recovery, window, budget>>

\* Cancelled in, or refused by, `await self._auth.access()`.
LeaveBetween(s) ==
    /\ pc[s] = "between"
    /\ s \in Codex
    /\ \/ Settle(s, "cancelled")
       \/ Settle(s, "failed")
    /\ Go(s, "done")
    /\ UNCHANGED <<recovery, slots, window, generation, budget>>

-----------------------------------------------------------------------------
(* Time *)

\* ready_at passes.
BackoffElapses ==
    /\ Open
    /\ ~episode.ready
    /\ episode' = [episode EXCEPT !.ready = TRUE]
    /\ UNCHANGED <<next_generation, slots, window, pc, generation, budget, outcome>>

\* terminal_until passes.
CooldownElapses ==
    /\ episode.terminal = "cooling"
    /\ episode' = [episode EXCEPT !.terminal = "expired"]
    /\ UNCHANGED <<next_generation, slots, window, pc, generation, budget, outcome>>

\* The oldest acquisition leaves the window.
WindowSlides ==
    /\ window > 0
    /\ window' = window - 1
    /\ UNCHANGED <<recovery, slots, pc, generation, budget, outcome>>

-----------------------------------------------------------------------------
Gate(s) ==
    \/ GateExhausted(s) \/ GateNormal(s) \/ GateCooldown(s) \/ GateReopen(s)
    \/ GateLead(s) \/ GateWait(s)
Admit(s) ==
    \/ BackoffOver(s) \/ LimiterGrant(s) \/ LimiterReject(s)
    \/ SlotGrant(s) \/ SlotStale(s)
Upstream(s) ==
    \/ Succeed(s) \/ Reject(s) \/ Correct(s)
    \/ FailFirst(s) \/ FailProbe(s) \/ FailTerminal(s) \/ FailCoalesced(s)
    \/ FailExhausted(s) \/ FailAlone(s) \/ FailCommitted(s)
Runner(s) ==
    Finish(s) \/ EarlyRetry(s) \/ MidstreamRecovery(s) \/ Close(s) \/ Reopen(s)
Cancel(s) ==
    \/ CancelWaiting(s) \/ CancelSleeping(s) \/ CancelAdmission(s)
    \/ CancelUpstream(s) \/ CancelClose(s) \/ LeaveBetween(s)
Time == BackoffElapses \/ CooldownElapses \/ WindowSlides

Next ==
    \/ \E s \in Sessions : \/ Begin(s) \/ Gate(s) \/ Admit(s)
                           \/ Upstream(s) \/ Runner(s) \/ Cancel(s)
    \/ Time

Spec == Init /\ [][Next]_vars

\* Tasks run when they can, time passes, and the HTTP timeouts bound every
\* upstream call. Nobody has to start an execution or to cancel one.
Fairness ==
    /\ \A s \in Sessions :
          /\ WF_vars(Gate(s))
          /\ WF_vars(Admit(s))
          /\ WF_vars(Upstream(s))
          /\ WF_vars(Runner(s))
    /\ WF_vars(BackoffElapses)
    /\ WF_vars(CooldownElapses)
    /\ WF_vars(WindowSlides)

FairSpec == Spec /\ Fairness

-----------------------------------------------------------------------------
(* Properties *)

Places == {"new", "gate", "waiting", "woken", "sleeping", "limiter", "slot",
           "active", "streaming", "closing", "between", "done"}
Episodes == [generation : Nat, leader : Sessions \cup {None}, ready : BOOLEAN,
             probe_active : BOOLEAN, terminal : {"no", "cooling", "expired"},
             waiters : SUBSET Sessions]

\* Every variable holds a value of its kind; the counters are natural.
TypeOK ==
    /\ episode \in Episodes
    /\ next_generation \in Nat \ {0}
    /\ sem \in Nat
    /\ window \in Nat
    /\ pc \in [Sessions -> Places]
    /\ generation \in [Sessions -> Nat]
    /\ attempts \in [Sessions -> Nat]
    /\ terminal_error \in [Sessions -> BOOLEAN]
    /\ outer \in [Sessions -> BOOLEAN]
    /\ outcome \in [Sessions -> {"pending", "ok", "failed", "cancelled"}]
    /\ leaked \in SUBSET Sessions

\* s has been let through the gate as a prober and has not resolved that yet.
Probing(s) ==
    /\ generation[s] # 0
    /\ pc[s] \in {"limiter", "slot", "active", "closing"}

\* "Exactly one logical execution owns its half-open probes": two executions
\* never probe at once, not even for different generations.
OneProbe ==
    \A s, t \in Sessions : Probing(s) /\ Probing(t) => s = t

\* probe_active, which shuts the gate, is backed by an execution that is
\* probing, unless that execution's attempt was never closed.
ProbeIsOwned ==
    episode.probe_active =>
        \E s \in Sessions :
            /\ episode.leader = s
            /\ s \in leaked \/ (Probing(s) /\ generation[s] = episode.generation)

\* No lost wakeup: whoever sleeps in condition.wait() waits for a leader other
\* than itself in a live episode, and is among the waiters that a terminal
\* outcome of that episode reaches.
NoLostWakeup ==
    \A s \in Sessions : pc[s] = "waiting" =>
        /\ episode.generation = generation[s]
        /\ episode.terminal = "no"
        /\ episode.leader \notin {None, s}
        /\ s \in episode.waiters

\* An open episode has somebody who will resolve it: the prober that shuts the
\* gate is at work, and nobody sleeps whom its end would not wake.
RecoveryIsOwned == ProbeIsOwned /\ NoLostWakeup

\* Every slot of the bulkhead is free, held by an attempt, or lost with one
\* that was never closed; in particular none is released twice.
HoldsSlot(s) == pc[s] \in {"active", "streaming", "closing"}
SlotsAccountedFor ==
    sem + Cardinality({s \in Sessions : HoldsSlot(s)})
        + Cardinality({s \in Sessions : outer[s]})
        + Cardinality(leaked) = MaxConcurrency

\* "A stale in-flight success or failure cannot close or extend the episode":
\* when an ordinary attempt resolves, an open episode may gain a waiter and
\* changes in no other way.
StaleAttemptsAreHarmless ==
    [][\A s \in Sessions :
          (pc[s] = "active" /\ generation[s] = 0 /\ pc'[s] # "active" /\ Open)
             => [episode' EXCEPT !.waiters = {}] = [episode EXCEPT !.waiters = {}]
      ]_vars

\* "That terminal outcome stays attached to every coalesced logical execution,
\* even if a later recovery generation starts": no such execution is admitted
\* again.
TerminalOutcomeSticks ==
    [][\A s \in Sessions : terminal_error[s] =>
          terminal_error'[s] /\ attempts'[s] = attempts[s]]_vars

\* An attempt decides about its own episode only, and what an episode has
\* decided about its executions stands, in whatever order they come back.
EpisodesAreRespected == StaleAttemptsAreHarmless /\ TerminalOutcomeSticks

\* The controller keeps what RecoveryGate promises.
Mode == CASE ~Open -> "closed"
          [] Open /\ episode.terminal # "no" -> "cooldown"
          [] Open /\ episode.terminal = "no" /\ episode.probe_active -> "probing"
          [] OTHER -> "recovering"
Breaker == INSTANCE RecoveryGate WITH mode <- Mode, owner <- episode.leader
ImplementsBreaker == Breaker!Spec

\* Two ways in which a cancelled Codex execution harms the others: it is gone and
\* still the leader, or its slot is lost (CancelledLeaderTransfers and
\* EverySlotReleased, below).
LeftBehind == leaked # {} \/ (episode.leader # None /\ pc[episode.leader] = "done")

\* Every execution that starts comes to an end: no caller waits for ever at the
\* gate, in the limiter or for a slot, unless another has left something behind.
EveryExecutionEnds ==
    \A s \in Sessions : pc[s] # "new" ~> pc[s] = "done" \/ LeftBehind

-----------------------------------------------------------------------------
(* What the documentation says, and the callers do not keep *)

\* ARCHITECTURE.md: "leader cancellation transfers ownership to a waiter".
CancelledLeaderTransfers ==
    \A s \in Sessions : outcome[s] = "cancelled" /\ pc[s] = "done" => episode.leader # s

\* ARCHITECTURE.md: "the bulkhead is held only while an upstream operation or
\* stream is active, never during retry backoff": nobody keeps the slot of an
\* interrupted stream while it sits out a backoff or queues for another slot.
BulkheadHeldOnlyWhileActive ==
    \A s \in Sessions : pc[s] \in {"waiting", "sleeping", "slot"} => ~outer[s]

\* ProviderAttempt.aclose: "Release attempt ownership and its concurrency slot
\* exactly once".
EverySlotReleased == leaked = {}
=============================================================================
