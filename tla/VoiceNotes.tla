------------------------------ MODULE VoiceNotes ------------------------------
(***************************************************************************)
(* Voice notes: messaging/platforms/voice_flow.py (one task per delivered  *)
(* note), messaging/voice.py (the registry that owns a note until its text *)
(* is handed to the workflow) and the operations of messaging/workflow.py  *)
(* that cancel pending notes, /stop and /clear.                            *)
(*                                                                         *)
(* The text of a note may itself be a command.  The handoff task that runs *)
(* it waits for the command and lets no cancellation interrupt that wait   *)
(* (_finish_owned_operation), while the command cancels the other pending  *)
(* notes and waits for their handoff tasks: two spoken commands could wait *)
(* for each other.                                                         *)
(*                                                                         *)
(* No section under the registry's lock awaits anything, so each one is a  *)
(* single step.  A status message's reference finds the entry of its note, *)
(* so a target is All or a note.  What is sent, transcribed or admitted is *)
(* abstracted to success or failure.                                       *)
(***************************************************************************)
EXTENDS FiniteSets, Naturals

CONSTANTS
    Notes,          \* voice notes
    Redelivered,    \* those that the platform delivers twice
    Commands,       \* typed commands
    All,            \* the target of a command that names no note
    MaxCancels,     \* bound on flows cancelled from outside (shutdown)
    MaxArrivals     \* bound on deliveries and typed commands together

ASSUME RedeliveredAssumption == Redelivered \subseteq Notes

Claims == (Notes \X {1}) \cup (Redelivered \X {2})
Note(c) == c[1]
Operations == Claims \cup Commands

VARIABLES
    flow,       \* where the task of a delivery stands
    pending,    \* claims whose entry is in the registry
    status,     \* claims whose status message was sent
    bound,      \* claims whose entry knows its status message
    deleted,    \* claims whose status message the flow deleted
    completed,  \* claims whose handoff finished in possession of the entry
    cancelled,  \* claims whose flow was cancelled from outside
    hand,       \* where the handoff task of a claim stands
    handed,     \* claims whose handoff reached the message handler
    stopping,   \* handoff tasks asked to cancel
    op,         \* where the operation of a command stands
    target,     \* what it is to cancel
    took        \* the claims it took out of the registry

flowVars == <<flow, status, deleted, completed, cancelled>>
opVars == <<op, target, took>>
voiceVars == <<flowVars, pending, bound, hand, handed, stopping, opVars>>

FlowStates == {"idle", "sending", "transcribing", "handing", "draining", "cleaning", "done"}
HandStates == {"none", "created", "running", "commanding", "ended"}
OpStates == {"none", "created", "draining", "locking", "applying", "ended"}

VoiceInit ==
    /\ flow = [c \in Claims |-> "idle"]
    /\ hand = [c \in Claims |-> "none"]
    /\ op = [o \in Operations |-> "none"]
    /\ target = [o \in Operations |-> All]
    /\ took = [o \in Operations |-> {}]
    /\ pending = {} /\ status = {} /\ bound = {} /\ deleted = {}
    /\ completed = {} /\ cancelled = {} /\ handed = {} /\ stopping = {}

Live(c) == hand[c] \in {"created", "running", "commanding"}
Arrived ==
    Cardinality({c \in Claims : flow[c] # "idle"})
        + Cardinality({o \in Commands : op[o] # "none"})

Goto(c, place) == flow' = [flow EXCEPT ![c] = place]

-----------------------------------------------------------------------------
(* The flow of a delivery *)

\* A note that is pending already is not taken again.
Reserve(c) ==
    /\ flow[c] = "idle" /\ Arrived < MaxArrivals
    /\ IF \E d \in pending : Note(d) = Note(c)
       THEN Goto(c, "done") /\ UNCHANGED pending
       ELSE Goto(c, "sending") /\ pending' = pending \cup {c}
    /\ UNCHANGED <<bound, status, deleted, completed, cancelled, hand, handed, stopping, opVars>>

\* The status message is out; its id is bound to the entry, if it is still there.
Sent(c) ==
    /\ flow[c] = "sending"
    /\ status' = status \cup {c}
    /\ IF c \in pending
       THEN bound' = bound \cup {c} /\ Goto(c, "transcribing")
       ELSE UNCHANGED bound /\ Goto(c, "cleaning")
    /\ UNCHANGED <<pending, deleted, completed, cancelled, hand, handed, stopping, opVars>>

\* Sending, downloading or transcribing raised.
Fails(c) ==
    /\ flow[c] \in {"sending", "transcribing"}
    /\ Goto(c, "cleaning")
    /\ UNCHANGED <<pending, bound, status, deleted, completed, cancelled, hand, handed, stopping,
                   opVars>>

\* The text is there.  Its handoff starts only while the entry is owned.
Handoff(c) ==
    /\ flow[c] = "transcribing"
    /\ IF c \in pending /\ c \in bound /\ hand[c] = "none"
       THEN Goto(c, "handing") /\ hand' = [hand EXCEPT ![c] = "created"]
       ELSE Goto(c, "cleaning") /\ UNCHANGED hand
    /\ UNCHANGED <<pending, bound, status, deleted, completed, cancelled, handed, stopping, opVars>>

\* Bug: the registry is asked for the note, not for this delivery's entry.
CompleteByNote(c) ==
    /\ completed' = completed \cup {c}
    /\ pending' = {d \in pending : Note(d) # Note(c)}

\* The handoff ended: whoever still holds the entry decides the outcome.
CompleteIfOwned(c) ==
    /\ completed' = IF c \in pending THEN completed \cup {c} ELSE completed
    /\ pending' = pending \ {c}

FinishHandoff(c) ==
    /\ flow[c] \in {"handing", "draining"} /\ hand[c] = "ended"
    /\ CompleteIfOwned(c)
    /\ Goto(c, IF flow[c] = "handing" THEN "done" ELSE "cleaning")
    /\ UNCHANGED <<bound, status, deleted, cancelled, hand, handed, stopping, opVars>>

\* Bug: a delivery without a status message has nothing to clean.
DiscardBound(c) ==
    /\ flow[c] = "cleaning"
    /\ deleted' = IF c \in status /\ c \notin handed /\ (c \in pending \/ c \notin bound)
                  THEN deleted \cup {c} ELSE deleted
    /\ pending' = IF c \in bound THEN pending \ {c} ELSE pending
    /\ Goto(c, "done")
    /\ UNCHANGED <<bound, status, completed, cancelled, hand, handed, stopping, opVars>>

\* The cleanup of a delivery that did not end in a handoff.
Discard(c) ==
    /\ flow[c] = "cleaning"
    /\ deleted' = IF c \in status /\ c \notin handed /\ (c \in pending \/ c \notin bound)
                  THEN deleted \cup {c} ELSE deleted
    /\ pending' = pending \ {c}
    /\ Goto(c, "done")
    /\ UNCHANGED <<bound, status, completed, cancelled, hand, handed, stopping, opVars>>

\* The task of the delivery is cancelled.  A running handoff is cancelled and
\* waited for; a flow that is cleaning or waiting absorbs the cancellation.
CancelFlow(c) ==
    /\ Cardinality(cancelled) < MaxCancels
    /\ flow[c] \in {"sending", "transcribing", "handing"}
    /\ cancelled' = cancelled \cup {c}
    /\ IF flow[c] = "handing"
       THEN Goto(c, "draining") /\ stopping' = stopping \cup {c}
       ELSE Goto(c, "cleaning") /\ UNCHANGED stopping
    /\ UNCHANGED <<pending, bound, status, deleted, completed, hand, handed, opVars>>

-----------------------------------------------------------------------------
(* The handoff task *)

\* A task cancelled before its first step never runs its callback.
Start(c) ==
    /\ hand[c] = "created"
    /\ IF c \in stopping
       THEN hand' = [hand EXCEPT ![c] = "ended"] /\ UNCHANGED handed
       ELSE hand' = [hand EXCEPT ![c] = "running"] /\ handed' = handed \cup {c}
    /\ UNCHANGED <<flowVars, pending, bound, stopping, opVars>>

\* The handler admitted a turn, failed, or was cancelled.
End(c) ==
    /\ hand[c] = "running"
    /\ hand' = [hand EXCEPT ![c] = "ended"]
    /\ UNCHANGED <<flowVars, pending, bound, handed, stopping, opVars>>

Begin(o, t) ==
    /\ op[o] = "none"
    /\ op' = [op EXCEPT ![o] = "created"]
    /\ target' = [target EXCEPT ![o] = t]
    /\ UNCHANGED took

\* The text is a command: it runs in a task of its own, which the handoff awaits.
Speak(c, t) ==
    /\ hand[c] = "running" /\ c \notin stopping
    /\ Begin(c, t)
    /\ hand' = [hand EXCEPT ![c] = "commanding"]
    /\ UNCHANGED <<flowVars, pending, bound, handed, stopping>>

\* Only the end of the command ends the wait, a cancellation does not.
Obeyed(c) ==
    /\ hand[c] = "commanding" /\ op[c] = "ended"
    /\ hand' = [hand EXCEPT ![c] = "ended"]
    /\ UNCHANGED <<flowVars, pending, bound, handed, stopping, opVars>>

-----------------------------------------------------------------------------
(* The operations of /stop and /clear *)

Type(o, t) ==
    /\ o \in Commands /\ Arrived < MaxArrivals
    /\ Begin(o, t)
    /\ UNCHANGED <<flowVars, pending, bound, hand, handed, stopping>>

\* A claim is protected while the command it speaks is cancelling notes.
Protected == {c \in Claims : op[c] = "draining"}

\* Bug: a command spares its own note only.
SelectedUnprotected(o) == {c \in pending : c # o /\ target[o] \in {All, Note(c)}}

Selected(o) ==
    {c \in pending \ Protected : c # o /\ target[o] \in {All, Note(c)}}

\* Bug: a handoff is cancelled whether or not there is one.
SelectBlindly(o) ==
    /\ op[o] = "created"
    /\ took' = [took EXCEPT ![o] = Selected(o)]
    /\ pending' = pending \ Selected(o)
    /\ stopping' = stopping \cup Selected(o)
    /\ op' = [op EXCEPT ![o] = "draining"]
    /\ UNCHANGED <<flowVars, bound, hand, handed, target>>

\* Takes the notes it is to cancel out of the registry and cancels their handoffs.
Select(o) ==
    /\ op[o] = "created"
    /\ took' = [took EXCEPT ![o] = Selected(o)]
    /\ pending' = pending \ Selected(o)
    /\ stopping' = stopping \cup {c \in Selected(o) : Live(c)}
    /\ op' = [op EXCEPT ![o] = "draining"]
    /\ UNCHANGED <<flowVars, bound, hand, handed, target>>

Drained(o) == \A c \in took[o] : ~Live(c)

\* The handoffs it cancelled are over: its result is complete, its protection ends.
Report(o) ==
    /\ op[o] = "draining" /\ Drained(o)
    /\ op' = [op EXCEPT ![o] = "locking"]
    /\ UNCHANGED <<flowVars, pending, bound, hand, handed, stopping, target, took>>

\* The rest of the operation runs under the workflow's state lock.
Lock(o) ==
    /\ op[o] = "locking"
    /\ \A other \in Operations : op[other] # "applying"
    /\ op' = [op EXCEPT ![o] = "applying"]
    /\ UNCHANGED <<flowVars, pending, bound, hand, handed, stopping, target, took>>

Apply(o) ==
    /\ op[o] = "applying"
    /\ op' = [op EXCEPT ![o] = "ended"]
    /\ UNCHANGED <<flowVars, pending, bound, hand, handed, stopping, target, took>>

-----------------------------------------------------------------------------
(* Specification *)

Targets == {All} \cup Notes

\* What happens once it can; only deliveries, commands and cancellations may never come.
FlowStep(c) == Sent(c) \/ Fails(c) \/ Handoff(c) \/ FinishHandoff(c) \/ Discard(c)
HandStep(c) == Start(c) \/ End(c) \/ Obeyed(c)
OpStep(o) == Select(o) \/ Report(o) \/ Lock(o) \/ Apply(o)

VoiceNext ==
    \/ \E c \in Claims : Reserve(c) \/ CancelFlow(c) \/ FlowStep(c) \/ HandStep(c)
    \/ \E c \in Claims, t \in Targets : Speak(c, t)
    \/ \E o \in Operations, t \in Targets : Type(o, t)
    \/ \E o \in Operations : OpStep(o)

VoiceSpec == VoiceInit /\ [][VoiceNext]_voiceVars

\* Sends, transcriptions and admissions end, and the event loop runs every task.
VoiceWork ==
    \/ \E c \in Claims : FlowStep(c) \/ HandStep(c)
    \/ \E o \in Operations : OpStep(o)

VoiceFairness == WF_voiceVars(VoiceWork)

VoiceFairSpec == VoiceSpec /\ VoiceFairness

-----------------------------------------------------------------------------
(* Properties *)

\* The variables' types; only a handoff that exists is cancelled.
VoiceTypeOK ==
    /\ flow \in [Claims -> FlowStates]
    /\ hand \in [Claims -> HandStates]
    /\ op \in [Operations -> OpStates]
    /\ target \in [Operations -> Targets]
    /\ took \in [Operations -> SUBSET Claims]
    /\ \A set \in {pending, status, bound, deleted, completed, cancelled, handed, stopping} :
           set \subseteq Claims
    /\ \A c \in stopping \cup handed \cup completed : hand[c] # "none"

Taken == UNION {took[o] : o \in Operations}

\* A note that a command reports as cancelled is not also reported as handed
\* on, and its handoff no longer runs once the command has its result (the
\* outcomes of VoiceHandoffOutcome exclude each other).
OneOutcome ==
    /\ Taken \cap completed = {}
    /\ \A o \in Operations : op[o] \in {"locking", "applying", "ended"} => Drained(o)

\* An entry of the registry belongs to a delivery at work, and a delivery that
\* is over leaves no handoff behind: else the note could never be sent again,
\* or would be admitted after it was given up (voice_flow.py, handle).
NothingStranded ==
    /\ \A c \in pending : flow[c] \notin {"idle", "done"}
    /\ \A c \in Claims : flow[c] = "done" => ~Live(c)

\* When a delivery is over somebody has its status message: the handler it was
\* handed to, the command that took the entry, or nobody, since it was
\* deleted; none shows "transcribing" for ever (a cancelled flow aside).
StatusIsOwned ==
    \A c \in status \ cancelled :
        flow[c] = "done" =>
            \/ c \in deleted
            \/ c \in handed
            \/ c \in Taken /\ c \in bound

\* A note and its status message have one owner at a time.
NotesAreOwned == VoiceTypeOK /\ OneOutcome /\ NothingStranded /\ StatusIsOwned

\* Every delivery and every command ends, however many of the notes are
\* commands that cancel each other (voice.py, _is_excluded; the state lock is
\* taken only after the handoffs are drained).
EverythingEnds ==
    <>[](/\ \A c \in Claims : flow[c] \in {"idle", "done"}
         /\ \A o \in Operations : op[o] \in {"none", "ended"})

=============================================================================
