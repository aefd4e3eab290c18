------------------------- MODULE StreamOrchestrator -------------------------
(***************************************************************************)
(* The producer of a stream inside a worker: RunStreamOrchestration (for   *)
(* the stream modes) and RunCallOrchestration (for the call modes) of      *)
(* bamlutils/buildrequest, with the loop of retry.Execute around them.     *)
(*                                                                         *)
(* A fallback child of one retry is a `window': the orchestrator walks up  *)
(* to MaxWindows of them, (MaxRetries + 1) times the chain.  The two       *)
(* boundaries, child handoff and onRetry, do the same to the stream.       *)
(* Frames go to the buffered channel `out'.  Heartbeats, partials and the  *)
(* planned metadata of a stream are offered and dropped when it is full;   *)
(* reset markers, outcome metadata and terminal frames wait for room.      *)
(*                                                                         *)
(* A frame's payload is reduced to where it comes from: the pool attempt,  *)
(* the window and, for a partial, its number in the window.                *)
(***************************************************************************)
EXTENDS Naturals, Sequences, FiniteSets

CONSTANTS
    Modes,        \* the stream modes requests may use
    MaxWindows,   \* bound: child windows of one orchestration
    MaxDeltas,    \* bound: deltas an upstream sends in one window
    OutCap,       \* capacity of out
    MaxAttempts   \* config.MaxRetries + 1 attempts of the pool

ASSUME OrchestratorAssumption ==
    /\ Modes \subseteq {"stream", "call"}
    /\ MaxWindows \in Nat \ {0} /\ MaxDeltas \in Nat
    /\ OutCap \in Nat \ {0} /\ MaxAttempts \in Nat \ {0}

VARIABLES
    mode,            \* "stream" for NeedsPartials, "call" otherwise
    attempt,         \* the pool attempt this orchestration serves
    wpc,             \* where the orchestrator is
    window,          \* the current child window
    connected,       \* the upstream of this window answered 2xx
    delta,           \* deltas received in this window
    heartbeatSent,   \* the heartbeat gate
    sawStreamFrame,  \* a partial of this window was queued
    out, outClosed,  \* the channel to the bridge
    progress         \* an upstream answered during this attempt (history)

workerVars == <<wpc, window, connected, delta, heartbeatSent, sawStreamFrame, out, outClosed,
                progress>>

Kinds == {"planned", "heartbeat", "stream", "outcome", "final", "error", "infra", "cancel"}
Frames == [kind : Kinds, attempt : 1..MaxAttempts, window : 1..MaxWindows,
           n : 0..MaxDeltas, reset : BOOLEAN, stamp : 0..(MaxAttempts - 1)]

\* The worker always stamps pool attempt 0.
Frame(kind, n, reset) ==
    [kind |-> kind, attempt |-> attempt, window |-> window, n |-> n, reset |-> reset,
     stamp |-> 0]

WorkerTypeOK ==
    /\ mode \in Modes /\ attempt \in 1..MaxAttempts
    /\ wpc \in {"planned", "window", "boundary", "outcome", "final", "error", "over"}
    /\ window \in 1..MaxWindows /\ connected \in BOOLEAN
    /\ delta \in 0..MaxDeltas
    /\ heartbeatSent \in BOOLEAN /\ sawStreamFrame \in BOOLEAN
    /\ out \in Seq(Frames) /\ Len(out) <= OutCap
    /\ outClosed \in BOOLEAN /\ progress \in BOOLEAN

\* A fresh orchestration, as method.Impl starts it.
StartWorker ==
    /\ wpc' = "planned" /\ window' = 1 /\ connected' = FALSE /\ delta' = 0
    /\ heartbeatSent' = FALSE /\ sawStreamFrame' = FALSE
    /\ out' = <<>> /\ outClosed' = FALSE /\ progress' = FALSE

\* Before the first attempt nothing runs.
WorkerInit ==
    /\ mode \in Modes /\ attempt = 1
    /\ wpc = "over" /\ window = 1 /\ connected = FALSE /\ delta = 0
    /\ heartbeatSent = FALSE /\ sawStreamFrame = FALSE
    /\ out = <<>> /\ outClosed = FALSE /\ progress = FALSE

----------------------------------------------------------------------------
NeedsPartials == mode = "stream"

Room == Len(out) < OutCap

\* select { case out <- r: default: }
Offer(f) == out' = IF Room THEN Append(out, f) ELSE out

\* select { case out <- r: case <-ctx.Done(): }; AbortOrchestration is the
\* other arm.
Send(f) == Room /\ out' = Append(out, f)

\* emitPlannedMetadata: a stream offers it, a call waits for room.
EmitPlanned ==
    /\ wpc = "planned"
    /\ wpc' = "window"
    /\ IF NeedsPartials THEN Offer(Frame("planned", 0, FALSE)) ELSE Send(Frame("planned", 0, FALSE))
    /\ UNCHANGED <<window, connected, delta, heartbeatSent, sawStreamFrame, outClosed, progress>>

\* The provider answers 2xx: sendHeartbeat.
UpstreamResponds ==
    /\ wpc = "window" /\ ~ connected
    /\ connected' = TRUE /\ progress' = TRUE /\ heartbeatSent' = TRUE
    /\ IF heartbeatSent THEN UNCHANGED out ELSE Offer(Frame("heartbeat", 0, FALSE))
    /\ UNCHANGED <<wpc, window, delta, sawStreamFrame, outClosed>>

\* A delta of a stream: trySendPartialShared counts it as seen only when it
\* was queued.
UpstreamDelta ==
    /\ wpc = "window" /\ connected /\ NeedsPartials /\ delta < MaxDeltas
    /\ delta' = delta + 1
    /\ Offer(Frame("stream", delta + 1, FALSE))
    /\ sawStreamFrame' = (sawStreamFrame \/ Room)
    /\ UNCHANGED <<wpc, window, connected, heartbeatSent, outClosed, progress>>

\* The child fails: go on to the next window; or give up, because it was the
\* last one or because the error is terminal (a claimed native stream).
WindowFails ==
    /\ wpc = "window"
    /\ wpc' \in IF window < MaxWindows THEN {"boundary", "error"} ELSE {"error"}
    /\ UNCHANGED <<window, connected, delta, heartbeatSent, sawStreamFrame, out, outClosed,
                   progress>>

\* Mutant: a reset marker even when nothing was queued.
ResetAtEveryBoundary == NeedsPartials

\* There is partial state downstream.
ResetAtBoundary == NeedsPartials /\ sawStreamFrame

\* Fallback-child handoff and onRetry; the call orchestrator has neither reset
\* markers nor a heartbeat to re-arm.
NextWindow ==
    /\ wpc = "boundary"
    /\ IF ResetAtBoundary THEN Send(Frame("stream", 0, TRUE)) ELSE UNCHANGED out
    /\ wpc' = "window" /\ window' = window + 1
    /\ connected' = FALSE /\ delta' = 0
    /\ sawStreamFrame' = FALSE
    /\ heartbeatSent' = IF NeedsPartials THEN FALSE ELSE heartbeatSent
    /\ UNCHANGED <<outClosed, progress>>

\* The child's response was read to its end and parsed.
WindowSucceeds ==
    /\ wpc = "window" /\ connected
    /\ wpc' = "outcome"
    /\ UNCHANGED <<window, connected, delta, heartbeatSent, sawStreamFrame, out, outClosed,
                   progress>>

EmitOutcome ==
    /\ wpc = "outcome"
    /\ Send(Frame("outcome", 0, FALSE))
    /\ wpc' = "final"
    /\ UNCHANGED <<window, connected, delta, heartbeatSent, sawStreamFrame, outClosed, progress>>

\* The final, or the error after the last window, and then close(out).
EmitTerminal ==
    /\ \/ wpc = "final" /\ Send(Frame("final", 0, FALSE))
       \/ wpc = "error" /\ Send(Frame("error", 0, FALSE))
    /\ wpc' = "over" /\ outClosed' = TRUE
    /\ UNCHANGED <<window, connected, delta, heartbeatSent, sawStreamFrame, progress>>

\* The context of the attempt is done: every wait returns and the goroutine
\* ends without a terminal frame.
AbortOrchestration ==
    /\ wpc # "over"
    /\ wpc' = "over" /\ outClosed' = TRUE
    /\ UNCHANGED <<window, connected, delta, heartbeatSent, sawStreamFrame, out, progress>>

OrchestratorStep ==
    \/ EmitPlanned \/ UpstreamResponds \/ UpstreamDelta \/ WindowFails \/ NextWindow
    \/ WindowSucceeds \/ EmitOutcome \/ EmitTerminal
=============================================================================
