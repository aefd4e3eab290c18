----------------------------- MODULE CallStream -----------------------------
(***************************************************************************)
(* One request from Pool.CallStream to its consumer:                       *)
(*   - the orchestrator of the current attempt (StreamOrchestrator);       *)
(*   - the transport: bridgeStreamResults, the gRPC server and client      *)
(*     loops and the client's results channel, together one FIFO `wire';   *)
(*   - the forward-and-retry goroutine of Pool.CallStream;                 *)
(*   - the consumer: consumeStream (stream modes) or Pool.Call.            *)
(* Which worker serves an attempt, and its restart, are WorkerPool's; here *)
(* a restart is only recorded.  Requests have a metadata plan and ask for  *)
(* raw.                                                                    *)
(***************************************************************************)
EXTENDS StreamOrchestrator

CONSTANTS
    WireCap,  \* bound: frames in the transport (a results buffer of one, the
              \* one its sender holds, and those in flight)
    None      \* no value

ASSUME CallStreamAssumption == WireCap \in Nat \ {0} /\ None \notin Frames

VARIABLES
    suppress,        \* suppressStreamRetries
    wire, wireClosed,  \* results of the current attempt
    broken,          \* attempts whose worker died or closed the stream early, or sent an
                     \* error of the application that read like one of the transport
    pc,              \* the goroutine of Pool.CallStream
    cur,             \* the result it is forwarding
    needsReset, injectedReset, sentAnyResults,
    gotFirstByte,    \* of the current attempt's inFlightRequest
    restarted,       \* attempts whose worker was reported for a restart
    drain,           \* goroutine that drains results: "none", "plain", "check"
    cancelled,       \* the caller's context is done
    cons,            \* the consumer
    raw,             \* partials since the last reset event: accumulatedRaw
    final,           \* the final it published
    terminals,       \* terminal frames it received
    planned, outcome \* the metadata Pool.Call keeps

poolVars == <<pc, cur, needsReset, injectedReset, sentAnyResults, gotFirstByte, restarted, drain>>
consVars == <<cons, raw, final, terminals, planned, outcome>>
vars == <<mode, attempt, workerVars, suppress, wire, wireClosed, broken, poolVars, cancelled,
          consVars>>

Attempts == 1..MaxAttempts

TypeOK ==
    /\ WorkerTypeOK
    /\ suppress \in BOOLEAN
    /\ wire \in Seq(Frames) /\ Len(wire) <= WireCap /\ wireClosed \in BOOLEAN
    /\ broken \subseteq Attempts /\ restarted \subseteq Attempts
    /\ pc \in {"get", "call", "recv", "send", "eof", "restart", "next", "sendError", "done"}
    /\ cur \in Frames \cup {None} /\ final \in Frames \cup {None}
    /\ planned \in Frames \cup {None} /\ outcome \in Frames \cup {None}
    /\ needsReset \in BOOLEAN /\ injectedReset \in BOOLEAN /\ sentAnyResults \in BOOLEAN
    /\ gotFirstByte \in BOOLEAN /\ cancelled \in BOOLEAN
    /\ drain \in {"none", "plain", "check"}
    /\ cons \in {"reading", "draining", "returned"}
    /\ raw \in Seq(Frames) /\ terminals \in 0..1

Init ==
    /\ WorkerInit
    /\ suppress \in (IF mode = "stream" THEN BOOLEAN ELSE {FALSE})
    /\ wire = <<>> /\ wireClosed = TRUE /\ broken = {}
    /\ pc = "call" /\ cur = None
    /\ needsReset = FALSE /\ injectedReset = FALSE /\ sentAnyResults = FALSE
    /\ gotFirstByte = FALSE /\ restarted = {} /\ drain = "none"
    /\ cancelled = FALSE
    /\ cons = "reading" /\ raw = <<>> /\ final = None /\ terminals = 0
    /\ planned = None /\ outcome = None

----------------------------------------------------------------------------
(* The caller *)

CallerCancels ==
    /\ ~ cancelled /\ pc # "done"
    /\ cancelled' = TRUE
    /\ UNCHANGED <<mode, attempt, workerVars, suppress, wire, wireClosed, broken, poolVars,
                   consVars>>

\* A publish failed: consumeStream only drains from then on.
ClientGone ==
    /\ mode = "stream" /\ cons = "reading"
    /\ cons' = "draining"
    /\ UNCHANGED <<mode, attempt, workerVars, suppress, wire, wireClosed, broken, poolVars,
                   cancelled, raw, final, terminals, planned, outcome>>

----------------------------------------------------------------------------
(* The worker and the transport *)

WorkerStep ==
    /\ OrchestratorStep
    /\ UNCHANGED <<mode, attempt, suppress, wire, wireClosed, broken, poolVars, cancelled,
                   consVars>>

\* cleanup() cancels the attempt's context, the caller its parent.
AttemptContextDone == cancelled \/ pc \in {"eof", "restart", "next", "done"}

WorkerAborts ==
    /\ AttemptContextDone /\ AbortOrchestration
    /\ UNCHANGED <<mode, attempt, suppress, wire, wireClosed, broken, poolVars, cancelled,
                   consVars>>

WireRoom == Len(wire) < WireCap

Bridge ==
    /\ ~ wireClosed /\ out # <<>> /\ WireRoom
    /\ wire' = Append(wire, Head(out)) /\ out' = Tail(out)
    /\ UNCHANGED <<mode, attempt, wpc, window, connected, delta, heartbeatSent, sawStreamFrame,
                   outClosed, progress, suppress, wireClosed, broken, poolVars, cancelled,
                   consVars>>

\* The stream ends after everything was sent; or the context ends it, with an
\* error (gRPC) or without one (in process), whatever was left in out.
BridgeEnds ==
    /\ ~ wireClosed
    /\ wireClosed' = TRUE
    /\ \/ out = <<>> /\ outClosed /\ UNCHANGED wire
       \/ AttemptContextDone /\ UNCHANGED wire
       \/ AttemptContextDone /\ WireRoom /\ wire' = Append(wire, Frame("cancel", 0, FALSE))
    /\ UNCHANGED <<mode, attempt, workerVars, suppress, broken, poolVars, cancelled, consVars>>

\* The worker dies, or is found hung and killed: the client's Recv reports it.
\* Or the stream just ends (io.EOF) with no terminal frame.
WorkerDies ==
    /\ ~ wireClosed /\ wireClosed' = TRUE
    /\ broken' = broken \cup {attempt}
    /\ wpc' = "over" /\ out' = <<>> /\ outClosed' = TRUE
    /\ \/ UNCHANGED wire
       \/ WireRoom /\ \E k \in {"infra", "cancel"} : wire' = Append(wire, Frame(k, 0, FALSE))
    /\ UNCHANGED <<mode, attempt, window, connected, delta, heartbeatSent, sawStreamFrame,
                   progress, suppress, poolVars, cancelled, consVars>>

----------------------------------------------------------------------------
(* Pool.CallStream *)

\* isRetryableWorkerError: an error of the transport, by its status code.
Retryable(k) == k \in {"infra", "cancel"}

\* What an error is taken for.  One of the application crosses the plugin boundary
\* as bare text and is judged by it; the text is not modelled, so it may also read
\* like a failure of the transport ("connection reset", "transport is closing") or
\* like a cancelled context.
TakenFor(k) == IF k = "error" THEN {"error", "infra", "cancel"} ELSE {k}

\* The worker is blamed for an error of kind k: for one of the application because
\* of how it reads.
Blamed(k) == IF k = "error" THEN broken \cup {attempt} ELSE broken

\* Mutants: the setting is not looked at; one attempt too many.
RetriesAlways == MaxAttempts
OneMoreAttempt == IF suppress THEN 1 ELSE MaxAttempts + 1

\* maxStreamRetries + 1
StreamAttempts == IF suppress THEN 1 ELSE MaxAttempts

\* getWorkerForRetry; without a worker the request ends with an error.
GetWorkerForRetry ==
    /\ pc = "get"
    /\ pc' \in {"call", "sendError"}
    /\ UNCHANGED <<mode, attempt, workerVars, suppress, wire, wireClosed, broken, cur, needsReset,
                   injectedReset, sentAnyResults, gotFirstByte, restarted, drain, cancelled,
                   consVars>>

\* worker.CallStream returns the results channel.
OpenStream ==
    /\ pc = "call" /\ pc' = "recv"
    /\ StartWorker
    /\ wire' = <<>> /\ wireClosed' = FALSE
    /\ needsReset' = sentAnyResults /\ injectedReset' = FALSE /\ gotFirstByte' = FALSE
    /\ UNCHANGED <<mode, attempt, suppress, broken, cur, sentAnyResults, restarted, drain,
                   cancelled, consVars>>

\* worker.CallStream returns an error of the application (sent unless the
\* caller is gone).
SetupRefused ==
    /\ pc = "call"
    /\ pc' = IF cancelled THEN "done" ELSE "sendError"
    /\ UNCHANGED <<mode, attempt, workerVars, suppress, wire, wireClosed, broken, cur, needsReset,
                   injectedReset, sentAnyResults, gotFirstByte, restarted, drain, cancelled,
                   consVars>>

\* worker.CallStream fails because the worker did, or with an error of the
\* application that reads like it: restart and, unless the caller is gone, retry.
SetupFails ==
    /\ pc = "call" /\ pc' = "restart"
    /\ broken' = broken \cup {attempt}
    /\ UNCHANGED <<mode, attempt, workerVars, suppress, wire, wireClosed, cur, needsReset,
                   injectedReset, sentAnyResults, gotFirstByte, restarted, drain, cancelled,
                   consVars>>

\* worker.CallStream fails because the caller went away: no restart.
SetupCancelled ==
    /\ pc = "call" /\ cancelled
    /\ pc' = "done"
    /\ UNCHANGED <<mode, attempt, workerVars, suppress, wire, wireClosed, broken, cur, needsReset,
                   injectedReset, sentAnyResults, gotFirstByte, restarted, drain, cancelled,
                   consVars>>

\* Mutant: the goroutine returns and leaves results to nobody.
NoDrain(how) == "none"

\* The drain goroutine a return leaves behind.
LeaveDrain(how) == how

\* case <-ctx.Done() of the stream loop, and of a blocked forward.
StreamCancelled ==
    /\ pc \in {"recv", "send"} /\ cancelled
    /\ pc' = "done" /\ drain' = LeaveDrain("check")
    /\ cur' = None
    /\ UNCHANGED <<mode, attempt, workerVars, suppress, wire, wireClosed, broken, needsReset,
                   injectedReset, sentAnyResults, gotFirstByte, restarted, cancelled, consVars>>

\* !isPlannedMetadata
IsProgress(f) == f.kind # "planned"

\* The pool owns the attempt number of metadata.
Stamped(f) == IF f.kind \in {"planned", "outcome"} THEN [f EXCEPT !.stamp = attempt - 1] ELSE f

\* Mutant: every result of a retried attempt carries the reset.
InjectAlways(f) == needsReset /\ IsProgress(f) /\ ~ suppress

\* The first real result after a retry carries the reset.
InjectReset(f) == needsReset /\ ~ injectedReset /\ IsProgress(f) /\ ~ suppress

\* case result := <-results
Receive ==
    /\ pc = "recv" /\ wire # <<>>
    /\ wire' = Tail(wire)
    /\ LET f == Head(wire) IN \E k \in TakenFor(f.kind) :
        /\ gotFirstByte' = (gotFirstByte \/ IsProgress(f))
        /\ \/ /\ k = "heartbeat"
              /\ UNCHANGED <<pc, cur, injectedReset, drain>>
           \/ /\ k = "cancel" /\ cancelled
              /\ pc' = "done" /\ drain' = LeaveDrain("plain")
              /\ UNCHANGED <<cur, injectedReset>>
           \/ /\ ~ Retryable(k) /\ k # "heartbeat"
              /\ pc' = "send"
              /\ cur' = [Stamped(f) EXCEPT !.reset = @ \/ InjectReset(f)]
              /\ injectedReset' = (injectedReset \/ InjectReset(f))
              /\ UNCHANGED drain
    /\ UNCHANGED <<mode, attempt, workerVars, suppress, wireClosed, broken, needsReset,
                   sentAnyResults, restarted, cancelled, consVars>>

\* An error taken for the transport's breaks the loop, and cleanup() cancels the
\* attempt.  Nobody reads its results any more: the one frame that may still follow
\* an error, which reports just that, fits the buffer of their channel.
ReceiveFailure ==
    /\ pc = "recv" /\ wire # <<>>
    /\ LET f == Head(wire) IN \E k \in TakenFor(f.kind) :
        /\ Retryable(k) /\ ~ (k = "cancel" /\ cancelled)
        /\ broken' = Blamed(f.kind)
    /\ wire' = <<>> /\ wireClosed' = TRUE
    /\ gotFirstByte' = TRUE
    /\ pc' = "restart"
    /\ UNCHANGED <<mode, attempt, workerVars, suppress, cur, needsReset, injectedReset,
                   sentAnyResults, restarted, drain, cancelled, consVars>>

ReceiveClosed ==
    /\ pc = "recv" /\ wire = <<>> /\ wireClosed
    /\ pc' = "eof"
    /\ UNCHANGED <<mode, attempt, workerVars, suppress, wire, wireClosed, broken, cur, needsReset,
                   injectedReset, sentAnyResults, gotFirstByte, restarted, drain, cancelled,
                   consVars>>

\* Mutant: any silent end of the stream is the worker's fault.
EOFIsDeath == TRUE

\* A silent EOF that races the caller's cancellation is not a worker death.
EOFMeansDeath == ~ cancelled

SilentEOF ==
    /\ pc = "eof"
    /\ pc' = IF EOFMeansDeath THEN "restart" ELSE "done"
    /\ UNCHANGED <<mode, attempt, workerVars, suppress, wire, wireClosed, broken, cur, needsReset,
                   injectedReset, sentAnyResults, gotFirstByte, restarted, drain, cancelled,
                   consVars>>

\* healthy.Store(false) and dispatchRestart
ReportWorker ==
    /\ pc = "restart" /\ pc' = "next"
    /\ restarted' = restarted \cup {attempt}
    /\ UNCHANGED <<mode, attempt, workerVars, suppress, wire, wireClosed, broken, cur, needsReset,
                   injectedReset, sentAnyResults, gotFirstByte, drain, cancelled, consVars>>

\* Mutant: the caller is told nothing when the retries are exhausted.
ExhaustedSilently == "done"

\* The terminal error after the last attempt.
Exhausted == "sendError"

NextAttempt ==
    /\ pc = "next"
    /\ \/ cancelled /\ pc' = "done" /\ UNCHANGED attempt
       \/ /\ ~ cancelled /\ attempt < StreamAttempts
          /\ pc' = "get" /\ attempt' = attempt + 1
       \/ ~ cancelled /\ attempt >= StreamAttempts /\ pc' = Exhausted /\ UNCHANGED attempt
    /\ UNCHANGED <<mode, workerVars, suppress, wire, wireClosed, broken, cur, needsReset,
                   injectedReset, sentAnyResults, gotFirstByte, restarted, drain, cancelled,
                   consVars>>

\* drainResultsAndCheckRestart and drainResults
Drain ==
    /\ pc = "done" /\ drain # "none" /\ wire # <<>>
    /\ wire' = Tail(wire)
    /\ LET f == Head(wire) IN
        \/ /\ drain = "check" /\ "infra" \in TakenFor(f.kind)
           /\ restarted' = restarted \cup {attempt} /\ broken' = Blamed(f.kind)
        \/ /\ drain = "plain" \/ f.kind # "infra"
           /\ UNCHANGED <<restarted, broken>>
    /\ UNCHANGED <<mode, attempt, workerVars, suppress, wireClosed, pc, cur, needsReset,
                   injectedReset, sentAnyResults, gotFirstByte, drain, cancelled, consVars>>

----------------------------------------------------------------------------
(* The consumer takes a result *)

IsTerminal(f) == f.kind \in {"final", "error"}

\* consumeStream: a reset clears what was accumulated; errors carry none.
ConsumeStream(f) ==
    /\ LET kept == IF f.reset /\ f.kind # "error" THEN <<>> ELSE raw IN
        raw' = IF f.kind = "stream" /\ f.n # 0 THEN Append(kept, f) ELSE kept
    /\ final' = IF f.kind = "final" THEN f ELSE final
    /\ UNCHANGED <<cons, planned, outcome>>

\* Mutant: the outcome of an earlier attempt is kept.
KeepOutcome(f) == outcome

\* A planned frame marks a new attempt.
ClearedOutcome(f) == None

\* Pool.Call keeps the last metadata and returns at the first terminal frame.
ConsumeCall(f) ==
    /\ planned' = IF f.kind = "planned" THEN f ELSE planned
    /\ outcome' = CASE f.kind = "outcome" -> f
                    [] f.kind = "planned" -> ClearedOutcome(f)
                    [] OTHER -> outcome
    /\ final' = IF f.kind = "final" THEN f ELSE final
    /\ cons' = IF IsTerminal(f) THEN "returned" ELSE cons
    /\ UNCHANGED raw

Consume(f) ==
    /\ cons # "returned"
    /\ terminals' = terminals + (IF IsTerminal(f) THEN 1 ELSE 0)
    /\ \/ mode = "stream" /\ cons = "reading" /\ ConsumeStream(f)
       \/ mode = "stream" /\ cons = "draining" /\ UNCHANGED <<cons, raw, final, planned, outcome>>
       \/ mode = "call" /\ ConsumeCall(f)

\* Mutant: the first attempt's results are forgotten by the next.
NothingSent(f) == FALSE

\* What was forwarded is something a retry has to take back.
Forwarded(f) == sentAnyResults \/ IsProgress(f)

\* case wrappedResults <- result
Forward ==
    /\ pc = "send"
    /\ Consume(cur)
    /\ sentAnyResults' = Forwarded(cur)
    /\ cur' = None
    /\ pc' = IF IsTerminal(cur) THEN "done" ELSE "recv"
    /\ drain' = IF IsTerminal(cur) THEN LeaveDrain("plain") ELSE drain
    /\ UNCHANGED <<mode, attempt, workerVars, suppress, wire, wireClosed, broken, needsReset,
                   injectedReset, gotFirstByte, restarted, cancelled>>

\* sendStreamError
SendStreamError ==
    /\ pc = "sendError" /\ pc' = "done"
    /\ \/ Consume(Frame("error", 0, FALSE))
       \/ cancelled /\ UNCHANGED consVars
    /\ UNCHANGED <<mode, attempt, workerVars, suppress, wire, wireClosed, broken, cur, needsReset,
                   injectedReset, sentAnyResults, gotFirstByte, restarted, drain, cancelled>>

----------------------------------------------------------------------------
PoolStep ==
    \/ GetWorkerForRetry \/ OpenStream \/ SetupRefused \/ SetupFails \/ SetupCancelled
    \/ StreamCancelled \/ Receive \/ ReceiveFailure \/ ReceiveClosed \/ SilentEOF \/ ReportWorker
    \/ NextAttempt \/ Forward \/ SendStreamError

Transport == Bridge \/ BridgeEnds

Next ==
    \/ CallerCancels \/ ClientGone
    \/ WorkerStep \/ WorkerAborts \/ Transport \/ WorkerDies
    \/ PoolStep \/ Drain

Spec == Init /\ [][Next]_vars

\* Goroutines that can run do; a stream whose context is done ends.  A provider
\* may stall and a caller may stay for ever.
Fairness ==
    /\ WF_vars(PoolStep) /\ WF_vars(Drain) /\ WF_vars(Transport) /\ WF_vars(WorkerAborts)

FairSpec == Spec /\ Fairness

----------------------------------------------------------------------------
(* Properties *)

\* "On mid-stream retry, a reset message is injected so clients can discard
\* accumulated partial state" (pool.go:1343-1344): whatever fails and is
\* retried, in the worker or by the pool, what a client holds since the last
\* reset event comes from one window of one attempt, and so does the final.
OneSource ==
    \A f, g \in {raw[i] : i \in 1..Len(raw)} \cup ({final} \ {None}) :
        f.attempt = g.attempt /\ f.window = g.window

View == INSTANCE ClientView WITH
            Pieces <- Frames, round <- attempt, text <- raw, answer <- final,
            open <- (cons = "reading" /\ terminals = 0)

\* Whatever is dropped by a full buffer, retried, reset or cut off, the reader of a
\* request sees what ClientView promises: pieces of one upstream in the order it
\* produced them, taken back as a whole by a reset and replaced only by a later
\* attempt's, one answer that belongs to what it holds, and nothing after that
\* (pool.go:1343-1344, 1615-1630; consumeStream).
ImplementsClientView == View!ViewSpec

\* A caller that stays is told how its request ended, once: the channel is not
\* closed without a final or an error (pool.go:1476-1734).
TerminalDelivered == pc = "done" /\ ~ cancelled => terminals = 1

\* A worker is never reported because its caller went away (pool.go:1672-1690),
\* whatever a silent EOF, an error in flight or the drain goroutine makes of that:
\* it died, it ended its stream early, or it sent an error of the application that
\* reads like a failure of the transport.
RestartJustified == restarted \subseteq broken

\* gotFirstByte disables hung detection only for "events that genuinely
\* indicate progress" (pool.go:1549-1556): an upstream answered, or the
\* attempt is over.
FirstByteTruthful ==
    gotFirstByte /\ pc = "recv" => progress \/ outClosed

\* Pool.Call never pairs the planned route of one attempt with the outcome of
\* another (pool.go:1296-1304).
MetadataPaired ==
    cons = "returned" /\ outcome # None =>
        /\ planned # None /\ planned.stamp = outcome.stamp
        /\ final # None => planned.stamp = final.attempt - 1

\* "a native worker may have already CLAIMED its one provider socket"
\* (pool.go:1424-1431): with stream retries disabled no second attempt is
\* made and no reset reaches the consumer but those of the worker itself.
NoReplay == suppress => attempt = 1 /\ ~ injectedReset

\* Whoever gives up first, caller, pool or worker, the goroutine of CallStream
\* returns and the results channel of the attempt is emptied and closed: its
\* sender, which has no ctx arm (grpc.go:266-296), is not left behind.
StreamsReleased ==
    (cancelled \/ pc = "done") ~> (pc = "done" /\ wire = <<>> /\ wireClosed)

\* "the next child must be able to emit a fresh heartbeat so the pool's
\* first-byte hung detection re-arms for that attempt"
\* (orchestrator.go:543-546): while the stream's current child has not
\* answered, the request can still be found hung.
HungDetectionRearms ==
    mode = "stream" /\ wpc = "window" /\ ~ connected /\ pc = "recv" /\ out = <<>> /\ wire = <<>>
        => ~ gotFirstByte
=============================================================================
