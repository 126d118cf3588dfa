--------------------------- MODULE StreamResponses ----------------------------
(***************************************************************************)
(* One response to POST /v1/messages, translated from api/routes.py,        *)
(* api/response_streams.py, api/handlers/messages.py, the chat runner of     *)
(* providers/openai_chat/provider.py, providers/stream_recovery.py and the   *)
(* ledger of core/anthropic/streaming.                                       *)
(*                                                                          *)
(* The request task pulls frames out of a chain of asynchronous generators,  *)
(* at whose end the runner turns chunks of an upstream attempt into frames.  *)
(* The runner runs only while somebody waits for its next frame or closes    *)
(* it; a frame it has yielded leaves it suspended. What it may still take    *)
(* back is held; once something has been yielded, it is committed.           *)
(*                                                                          *)
(* Admission of the attempts is ProviderAdmission, and what becomes of the   *)
(* lease ProviderGenerations; here an attempt opens or does not.             *)
(***************************************************************************)
EXTENDS Naturals, Sequences

CONSTANTS
    Content,      \* kinds of content of which one block is open at a time
    Tools,        \* indexes of the tool calls of an upstream stream
    MaxAttempts,  \* ProviderRetrySession.max_attempts
    MaxChunks     \* bound: chunks of one attempt

ASSUME ContentAssumption == "text" \in Content /\ "tool" \notin Content
ASSUME ToolsAssumption == 0 \notin Tools  \* 0 stands for no tool call
ASSUME LimitsAssumption == MaxAttempts \in Nat /\ MaxChunks \in Nat

VARIABLES
    req,       \* where the request task is
    lease,     \* its lease of a provider generation
    status,    \* the response that was decided upon
    sending,   \* the frame between the runner and the client
    seen,      \* what the client has, or the aggregated message
    gone,      \* the client has disconnected, or the task was cancelled
    cleanup,   \* the finalization task of the response
    run,       \* where the runner is
    exit,      \* how it leaves its try statement
    ledger,    \* the AnthropicStreamLedger: [of: its attempt, blocks: Seq]
    held,      \* RecoveryHoldbackBuffer: frames that may be discarded
    committed, \* ... or no longer
    out,       \* frames the runner goes on to yield before it does anything else
    attempts,  \* attempts_started
    chunks,    \* of the current attempt (bounded)
    finished,  \* finish_reason has come
    upstream,  \* the current upstream stream
    read       \* the read that outlived the holdback deadline

asgi == <<req, lease, status, sending, seen, gone, cleanup>>
runner == <<run, exit, ledger, held, committed, out, attempts, chunks, finished, upstream, read>>
vars == <<asgi, runner>>

-----------------------------------------------------------------------------
(* The ledger: each operator returns the ledger after it, and its frames     *)

Frame(kind, block, l) == [kind |-> kind, block |-> block, of |-> l.of]
Written(l, frames) == [ledger |-> l, frames |-> frames]
NewLedger == [of |-> attempts + 1, blocks |-> <<>>]

Open(l, kinds) == {b \in DOMAIN l.blocks : l.blocks[b].open /\ l.blocks[b].kind \in kinds}
HasTool(l) == \E b \in DOMAIN l.blocks : l.blocks[b].kind = "tool"
ToolsWhole(l) == \A b \in DOMAIN l.blocks : l.blocks[b].kind = "tool" => l.blocks[b].whole
Generated(l) == l.blocks # <<>>

\* Blocks in the order of their indexes.
InOrder(blocks, n) ==
    LET listed[b \in 0 .. n] ==
            IF b = 0 THEN <<>>
            ELSE IF b \in blocks THEN Append(listed[b - 1], b) ELSE listed[b - 1]
    IN  listed[n]

\* stop_text_block, stop_thinking_block, stop_tool_block, close_unclosed_blocks (the
\* order in which several blocks are closed is left out).
Close(l, blocks) ==
    LET order == InOrder(blocks, Len(l.blocks)) IN
    Written([l EXCEPT !.blocks = [b \in DOMAIN @ |->
                IF b \in blocks THEN [@[b] EXCEPT !.open = FALSE] ELSE @[b]]],
            [i \in DOMAIN order |-> Frame("close", order[i], l)])

\* A delta of block b, or of a new one.
Delta(l, b, kind, tool, whole) ==
    LET new == b \notin DOMAIN l.blocks
        block == [kind |-> kind, tool |-> tool, open |-> TRUE, whole |-> whole]
    IN  Written([l EXCEPT !.blocks = IF new THEN Append(@, block) ELSE [@ EXCEPT ![b] = block]],
                IF new THEN <<Frame("open", b, l), Frame("delta", b, l)>>
                       ELSE <<Frame("delta", b, l)>>)

Then(first, next) == Written(next.ledger, first.frames \o next.frames)

\* ensure_text_block, ensure_thinking_block: the other kind is closed first.
AddContent(l, kind) ==
    LET closed == Close(l, Open(l, Content \ {kind}))
        mine == Open(l, {kind})
        b == IF mine = {} THEN Len(l.blocks) + 1 ELSE CHOOSE x \in mine : TRUE
    IN  Then(closed, Delta(closed.ledger, b, kind, 0, FALSE))

\* process_tool_call: content is closed; other tool calls stay open.
AddTool(l, tool, whole) ==
    LET closed == Close(l, Open(l, Content))
        mine == {b \in DOMAIN l.blocks : l.blocks[b].tool = tool}
        b == IF mine = {} THEN Len(l.blocks) + 1 ELSE CHOOSE x \in mine : TRUE
    IN  Then(closed, Delta(closed.ledger, b, "tool", tool, whole))

\* iter_heuristic_tool_use_sse: a tool call found in a text is a block of its own,
\* closed at once.
AddParsedTool(l) ==
    LET closed == Close(l, Open(l, Content))
        b == Len(l.blocks) + 1
        added == Then(closed, Delta(closed.ledger, b, "tool", 0, TRUE))
    IN  Then(added, Close(added.ledger, {b}))

\* close_all_blocks, message_delta and message_stop.
Finish(l) ==
    LET closed == Close(l, Open(l, Content \cup {"tool"}))
    IN  Written(closed.ledger, Append(closed.frames, Frame("stop", 0, l)))

\* What a chunk, or a recovered answer, may add.
Additions(l) ==
    {AddParsedTool(l)}
        \cup {AddContent(l, kind) : kind \in Content}
        \cup {AddTool(l, tool, whole) : tool \in Tools, whole \in BOOLEAN}

-----------------------------------------------------------------------------
(* The holdback                                                              *)

\* push: frames are held, until the buffer is full or the time is over.
Push(frames) ==
    \/ committed /\ out' = frames /\ UNCHANGED <<held, committed>>
    \/ ~committed /\ held' = held \o frames /\ UNCHANGED <<out, committed>>
    \/ ~committed /\ committed' = TRUE /\ out' = held \o frames /\ held' = <<>>

\* flush, with frames to follow.
Flush(frames) == out' = held \o frames /\ held' = <<>> /\ committed' = TRUE

Init ==
    /\ req = "start" /\ lease = "none" /\ status = "none" /\ sending = <<>>
    /\ seen = <<>> /\ gone = FALSE /\ cleanup = "none"
    /\ run = "new" /\ exit = "none" /\ ledger = [of |-> 0, blocks |-> <<>>]
    /\ held = <<>> /\ committed = FALSE /\ out = <<>>
    /\ attempts = 0 /\ chunks = 0 /\ finished = FALSE
    /\ upstream = "none" /\ read = "none"

-----------------------------------------------------------------------------
(* The runner                                                                *)

\* Somebody awaits the next frame, and the runner has none to yield.
Awaited == req \in {"first", "collect", "next"} /\ out = <<>>

\* The top of the loop: a new message, held.
Restarted == ledger' = NewLedger /\ held' = <<Frame("start", 0, NewLedger)>>

\* The tokens have been counted.
Begin ==
    /\ Awaited /\ run = "new" /\ run' = "open" /\ Restarted
    /\ UNCHANGED <<asgi, exit, committed, out, attempts, chunks, finished, upstream, read>>

\* _create_stream: attempts that fail to open are retried in there.
OpenStream ==
    /\ Awaited /\ run = "open"
    /\ attempts' \in attempts + 1 .. MaxAttempts
    /\ run' = "read" /\ upstream' = "open" /\ chunks' = 0 /\ finished' = FALSE
    /\ UNCHANGED <<asgi, exit, ledger, held, committed, out, read>>

\* It gives up: nothing has been generated, and what is held is discarded.
OpenFails ==
    /\ Awaited /\ run = "open"
    /\ attempts' \in attempts + 1 .. MaxAttempts
    /\ run' = "leave" /\ exit' = "raise" /\ held' = <<>>
    /\ UNCHANGED <<asgi, ledger, committed, out, chunks, finished, upstream, read>>

\* A chunk arrives, at the read that is pending or at a new one; half the name of a
\* tool only closes the content.
Chunk ==
    /\ Awaited /\ run = "read" /\ chunks < MaxChunks
    /\ chunks' = chunks + 1 /\ read' = "none"
    /\ \E added \in Additions(ledger) \cup {Close(ledger, Open(ledger, Content))} :
         ledger' = added.ledger /\ Push(added.frames)
    /\ finished' \in {finished, TRUE}
    /\ UNCHANGED <<asgi, run, exit, attempts, upstream>>

\* HOLDBACK_DEADLINE: what is held is yielded while the read goes on.
Deadline ==
    /\ Awaited /\ run = "read" /\ ~committed
    /\ Flush(<<>>) /\ read' = "pending"
    /\ UNCHANGED <<asgi, run, exit, ledger, attempts, chunks, finished, upstream>>

\* The stream ends as it should; the loop is left before the message is ended.
EndOfStream ==
    /\ Awaited /\ run = "read" /\ finished
    /\ run' = "leave" /\ exit' = "break" /\ read' = "none"
    /\ UNCHANGED <<asgi, ledger, held, committed, out, attempts, chunks, finished, upstream>>

Remaining == MaxAttempts - attempts
Salvageable == HasTool(ledger) /\ ToolsWhole(ledger)

\* Mutant: advance_failure forgets that something has been yielded.
MayReplayAnyway == Remaining > 0 /\ ~Salvageable /\ ~(Generated(ledger) /\ Remaining = 1)

\* advance_failure: the whole attempt may be replayed ...
MayReplay ==
    /\ Remaining > 0 /\ ~committed /\ ~Salvageable
    /\ ~(Generated(ledger) /\ Remaining = 1)

\* ... or what it generated can be completed.
MayRecover == Generated(ledger) /\ (Remaining > 0 \/ Salvageable)

\* The stream breaks off: EARLY_RETRY.
EarlyRetry ==
    /\ Awaited /\ run = "read" /\ MayReplay
    /\ held' = <<>> /\ committed' = FALSE
    /\ run' = "leave" /\ exit' = "retry" /\ read' = "none"
    /\ UNCHANGED <<asgi, ledger, out, attempts, chunks, finished, upstream>>

\* MIDSTREAM_RECOVERY.
Recover ==
    /\ Awaited /\ run = "read" /\ ~MayReplay /\ MayRecover
    /\ run' = "recover" /\ read' = "none"
    /\ UNCHANGED <<asgi, exit, ledger, held, committed, out, attempts, chunks, finished, upstream>>

\* FINAL_ERROR: what can be closed is closed, what is held is discarded.
Abort ==
    /\ IF committed \/ Salvageable
       THEN LET closed == Close(ledger, Open(ledger, Content \cup {"tool"})) IN
            ledger' = closed.ledger /\ Flush(closed.frames)
       ELSE held' = <<>> /\ UNCHANGED <<ledger, committed, out>>
    /\ run' = "leave" /\ exit' = "raise" /\ read' = "none"

\* The error is not retryable, or nothing can be done about it.
FinalError ==
    /\ Awaited /\ run = "read" /\ Abort
    /\ UNCHANGED <<asgi, attempts, chunks, finished, upstream>>

\* _recovery_events: the last frames, all at once.
Recovered(written) ==
    LET ending == Then(written, Finish(written.ledger)) IN
    /\ ledger' = ending.ledger /\ Flush(ending.frames)
    /\ run' = "leave" /\ exit' = "return"
    /\ UNCHANGED <<asgi, chunks, finished, upstream, read>>

\* Every tool call is whole.
Salvage ==
    /\ Awaited /\ run = "recover" /\ Salvageable
    /\ Recovered(Written(ledger, <<>>)) /\ UNCHANGED attempts

\* _repair_tool_args: the rest of each unfinished tool call.
Repair ==
    /\ Awaited /\ run = "recover" /\ HasTool(ledger) /\ ~ToolsWhole(ledger)
    /\ attempts' \in attempts + 1 .. MaxAttempts
    /\ LET broken == {b \in DOMAIN ledger.blocks :
                        ledger.blocks[b].kind = "tool" /\ ~ledger.blocks[b].whole}
           order == InOrder(broken, Len(ledger.blocks))
       IN  Recovered(Written(
             [ledger EXCEPT !.blocks = [b \in DOMAIN @ |->
                IF b \in broken THEN [@[b] EXCEPT !.whole = TRUE] ELSE @[b]]],
             [i \in DOMAIN order |-> Frame("delta", order[i], ledger)]))

\* _collect_recovery_output: the rest of a text, of a thought, or whole tool calls.
Continue ==
    /\ Awaited /\ run = "recover" /\ ~HasTool(ledger)
    /\ attempts' \in attempts + 1 .. MaxAttempts
    /\ \E added \in Additions(ledger) :
         \E more \in {Written(added.ledger, <<>>)} \cup Additions(added.ledger) :
           ToolsWhole(more.ledger) /\ Recovered(Then(added, more))

\* No recovery: its attempts failed as well, or it had nothing to add.
RecoveryFails ==
    /\ Awaited /\ run = "recover"
    /\ attempts' \in attempts .. MaxAttempts /\ Abort
    /\ UNCHANGED <<asgi, chunks, finished, upstream>>

\* What is added at the end: what the parsers still have, and some text where there
\* is neither text nor a tool call.
Said(l) == \E b \in DOMAIN l.blocks : l.blocks[b].kind \in {"text", "tool"}
Endings(l) ==
    {IF Said(rest.ledger) THEN rest ELSE Then(rest, AddContent(rest.ledger, "text")) :
       rest \in {Written(l, <<>>)} \cup Additions(l)}

\* The message is ended after its upstream stream has been closed.
EndMessage ==
    /\ Awaited /\ run = "tail"
    /\ \E rest \in Endings(ledger) :
         LET ending == Then(rest, Finish(rest.ledger)) IN
         ledger' = ending.ledger /\ Flush(ending.frames)
    /\ run' = "done"
    /\ UNCHANGED <<asgi, exit, attempts, chunks, finished, upstream, read>>

\* The finally clause: close_provider_stream and attempt.aclose.
Leaving ==
    /\ run = "leave" /\ out = <<>>
    /\ upstream' = IF upstream = "open" THEN "closed" ELSE upstream
    /\ run' = CASE exit = "retry" -> "open" [] exit = "break" -> "tail"
                [] exit = "raise" -> "failed" [] OTHER -> "done"
    /\ IF exit = "retry" THEN Restarted ELSE UNCHANGED <<ledger, held>>
    /\ UNCHANGED <<asgi, exit, committed, out, attempts, chunks, finished, read>>

\* Mutant: only the task that iterated the body may close it.
LeaveTryInRequest == req \in {"first", "collect", "next", "unwind"} /\ Leaving

\* It is run by the request task, or by the finalization task that this one awaits.
LeaveTry ==
    (req \in {"first", "collect", "next", "unwind"} \/ cleanup = "closing") /\ Leaving

\* The task of a read that nobody awaits is cancelled when the event loop gets
\* round to closing the generator it belonged to.
ReadEnds ==
    /\ read = "orphan" /\ read' = "none"
    /\ UNCHANGED <<asgi, run, exit, ledger, held, committed, out, attempts, chunks, finished, upstream>>

-----------------------------------------------------------------------------
(* The request task                                                          *)

\* No lease, or no handler that accepts the request: an ordinary error.
Refuse ==
    /\ req = "start" /\ req' = "end" /\ status' = "error"
    /\ lease' \in {"none", "released"}
    /\ UNCHANGED <<sending, seen, gone, cleanup, runner>>

\* The client asked for a stream, or for a message.
Handle ==
    /\ req = "start" /\ lease' = "held" /\ req' \in {"first", "collect"}
    /\ UNCHANGED <<status, sending, seen, gone, cleanup, runner>>

\* The first frame decides on a stream; nothing has been sent.
FirstFrame ==
    /\ req = "first" /\ out # <<>>
    /\ sending' = <<Head(out)>> /\ out' = Tail(out)
    /\ req' = "respond" /\ status' = "stream"
    /\ UNCHANGED <<lease, seen, gone, cleanup, run, exit, ledger, held, committed,
                   attempts, chunks, finished, upstream, read>>

\* _pre_start_error_response; an aggregated message fails in the same way, and
\* what there was of it is discarded.
NoFrame ==
    /\ req \in {"first", "collect"} /\ run = "failed" /\ out = <<>>
    /\ status' = "error" /\ seen' = <<>> /\ req' = "release"
    /\ UNCHANGED <<lease, sending, gone, cleanup, runner>>

\* aggregate_anthropic_sse_to_message.
Collect ==
    /\ req = "collect" /\ out # <<>>
    /\ seen' = Append(seen, Head(out)) /\ out' = Tail(out)
    /\ UNCHANGED <<req, lease, status, sending, gone, cleanup, run, exit, ledger, held,
                   committed, attempts, chunks, finished, upstream, read>>

Collected ==
    /\ req = "collect" /\ run = "done" /\ out = <<>>
    /\ status' = "message" /\ req' = "release"
    /\ UNCHANGED <<lease, sending, seen, gone, cleanup, runner>>

\* bind_response_lifetime of what is no stream, or the except clause of the route.
Release ==
    /\ req = "release" /\ lease' = "released" /\ req' = "end"
    /\ UNCHANGED <<status, sending, seen, gone, cleanup, runner>>

\* ManagedStreamingResponse: the headers, then the frame that was prefetched.
Respond ==
    /\ req = "respond" /\ req' = "send"
    /\ UNCHANGED <<lease, status, sending, seen, gone, cleanup, runner>>

Send ==
    /\ req = "send" /\ seen' = seen \o sending /\ sending' = <<>>
    /\ req' = "next"
    /\ UNCHANGED <<lease, status, gone, cleanup, runner>>

NextFrame ==
    /\ req = "next" /\ out # <<>>
    /\ sending' = <<Head(out)>> /\ out' = Tail(out) /\ req' = "send"
    /\ UNCHANGED <<lease, status, seen, gone, cleanup, run, exit, ledger, held, committed,
                   attempts, chunks, finished, upstream, read>>

\* _terminal_chunk: the failure of the runner becomes the last frame.
TerminalFrame ==
    /\ req = "next" /\ run = "failed" /\ out = <<>>
    /\ sending' = <<Frame("error", 0, ledger)>> /\ req' = "send" /\ run' = "done"
    /\ UNCHANGED <<lease, status, seen, gone, cleanup, exit, ledger, held, committed, out,
                   attempts, chunks, finished, upstream, read>>

\* _close: the finalization task is created.
Finalize(from, left) ==
    /\ from /\ gone' = left
    /\ req' = "finalize" /\ cleanup' = "closing" /\ sending' = <<>>
    /\ UNCHANGED <<lease, status, seen>>

\* The runner is suspended at a yield, and closed there; a read that is pending
\* belongs to a generator that nobody closes.
CloseBody ==
    /\ out' = <<>>
    /\ IF run \in {"read", "leave"} THEN run' = "leave" /\ exit' = "closed"
                                    ELSE UNCHANGED <<run, exit>>
    /\ read' = IF read = "pending" THEN "orphan" ELSE read
    /\ UNCHANGED <<ledger, held, committed, attempts, chunks, finished, upstream>>

Sent ==
    /\ Finalize(req = "next" /\ run = "done" /\ out = <<>>, FALSE)
    /\ CloseBody

\* Sending fails, the client disconnects, or the task is cancelled while it sends.
SendFails ==
    /\ Finalize(req \in {"respond", "send"}, TRUE)
    /\ CloseBody

\* It is cancelled while it waits for the runner: the cancellation is raised there.
Cancel ==
    /\ Awaited /\ run \in {"new", "open", "read", "recover", "leave"}
    /\ gone' = TRUE
    /\ req' = "unwind" /\ seen' = IF req = "collect" THEN <<>> ELSE seen
    /\ run' = IF run = "new" THEN "done" ELSE "leave"
    /\ exit' = "closed" /\ read' = "none"
    /\ UNCHANGED <<lease, status, sending, cleanup, ledger, held, committed, out, attempts,
                   chunks, finished, upstream>>

\* The runner has unwound. A response that has been returned is finalized, and
\* the handler of one that has not closes the body and the route its lease.
Unwound ==
    /\ req = "unwind" /\ run = "done"
    /\ IF status = "stream" THEN req' = "finalize" /\ cleanup' = "closing"
                            ELSE req' = "release" /\ UNCHANGED cleanup
    /\ UNCHANGED <<lease, status, sending, seen, gone, runner>>

\* Mutant: the lease goes first.
CleanupInReverse ==
    /\ cleanup = "closing" /\ cleanup' = "done" /\ lease' = "released"
    /\ UNCHANGED <<req, status, sending, seen, gone, runner>>

\* _cleanup: the body has been closed, and the lease is released.
Cleanup ==
    /\ cleanup = "closing" /\ run \in {"done", "failed"}
    /\ cleanup' = "done" /\ lease' = "released"
    /\ UNCHANGED <<req, status, sending, seen, gone, runner>>

\* _wait_for_cleanup, through any number of cancellations.
Finalized ==
    /\ req = "finalize" /\ cleanup = "done" /\ req' = "end"
    /\ UNCHANGED <<lease, status, sending, seen, gone, cleanup, runner>>

-----------------------------------------------------------------------------
Runner ==
    \/ Begin \/ OpenStream \/ OpenFails \/ Chunk \/ Deadline \/ EndOfStream
    \/ EarlyRetry \/ Recover \/ FinalError
    \/ Salvage \/ Repair \/ Continue \/ RecoveryFails \/ EndMessage \/ LeaveTry

Request ==
    \/ Refuse \/ Handle \/ FirstFrame \/ NoFrame \/ Collect \/ Collected \/ Release
    \/ Respond \/ Send \/ NextFrame \/ TerminalFrame \/ Sent \/ SendFails
    \/ Unwound \/ Cleanup \/ Finalized

Next == Runner \/ Request \/ Cancel \/ ReadEnds

Spec == Init /\ [][Next]_vars

\* Upstream reads answer or time out, a client reads or goes away, and tasks that
\* are ready run. Nobody need cancel a request.
Fairness == WF_vars(Runner) /\ WF_vars(Request) /\ WF_vars(ReadEnds)

FairSpec == Spec /\ Fairness

-----------------------------------------------------------------------------
Kinds == {"start", "open", "delta", "close", "stop", "error"}

TypeOK ==
    /\ req \in {"start", "first", "collect", "respond", "send", "next", "unwind",
                "release", "finalize", "end"}
    /\ lease \in {"none", "held", "released"}
    /\ status \in {"none", "error", "message", "stream"}
    /\ run \in {"new", "open", "read", "recover", "leave", "tail", "done", "failed"}
    /\ exit \in {"none", "retry", "break", "return", "raise", "closed"}
    /\ cleanup \in {"none", "closing", "done"}
    /\ upstream \in {"none", "open", "closed"} /\ read \in {"none", "pending", "orphan"}
    /\ attempts \in 0 .. MaxAttempts /\ chunks \in 0 .. MaxChunks
    /\ \A i \in DOMAIN seen : seen[i].kind \in Kinds
    /\ committed \in BOOLEAN /\ finished \in BOOLEAN /\ gone \in BOOLEAN
    /\ committed => held = <<>>

\* Frames of block b at which something happens to it.
At(kind, b) == {i \in DOMAIN seen : seen[i].kind = kind /\ seen[i].block = b}
EndsWith(kind) == seen # <<>> /\ seen[Len(seen)].kind = kind
Blocks == {seen[i].block : i \in DOMAIN seen} \ {0}

\* The client sees one message, whatever was retried, recovered and repaired: one
\* start, of one attempt; every block opened once, in order, written while it is
\* open, and closed once before the message ends; nothing after the end.
OneMessage ==
    /\ \A i \in DOMAIN seen :
         /\ seen[i].of = seen[1].of
         /\ seen[i].kind = "start" <=> i = 1
         /\ seen[i].kind \in {"stop", "error"} => i = Len(seen)
    /\ \A b \in Blocks : \E first \in At("open", b) :
         /\ At("open", b) = {first}
         /\ \A i \in At("delta", b) \cup At("close", b) : first < i
         /\ \A i \in At("delta", b), j \in At("close", b) : i < j
         /\ \A i, j \in At("close", b) : i = j
         /\ EndsWith("stop") \/ EndsWith("error") => At("close", b) # {}
         /\ \A i \in At("open", b + 1) : first < i

\* ARCHITECTURE.md:497: an error is a response without a frame, or the last frame
\* of a stream; a stream and a message that nobody interrupted are ended.
OutcomeIsHonest ==
    /\ status \in {"none", "error"} /\ req \in {"release", "end"} => seen = <<>>
    /\ status = "message" => EndsWith("stop")
    /\ status = "stream" /\ req = "end" /\ ~gone => EndsWith("stop") \/ EndsWith("error")

StreamIsSound == TypeOK /\ OneMessage /\ OutcomeIsHonest

\* ARCHITECTURE.md:357: the body chain is closed first, and no response ends
\* with its lease, or its upstream stream.
LeaseOutlivesBody ==
    /\ lease = "released" => upstream # "open" /\ run \in {"new", "done", "failed"}
    /\ req = "end" => lease # "held"

\* Whatever fails, whoever goes away: the request ends.
ResponseEnds == <>(req = "end")

\* Refuted: "a generation lease is released only after the body chain has finished
\* closing" (ARCHITECTURE.md:515). The read that was pending at the deadline may go on.
ReadsEndBeforeLease == lease = "released" => read # "orphan"
=============================================================================
