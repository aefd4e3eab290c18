----------------------------- MODULE StreamBody -----------------------------
(***************************************************************************)
(* The body of one streamed LLM response and the deadlines that cut it off *)
(* when no byte arrives (bamlutils/llmhttp).  Two readers wrap the body:   *)
(* "exact", the firstBodyIdleReader over a byteProgressWatchdog, opened by *)
(* the one-shot exactStreamRoundTripper, and "legacy", the                 *)
(* idleTimeoutReader of ExecuteStream.  The goroutines are the callers of  *)
(* RoundTrip, the goroutine that reads, the timer callbacks, and whoever   *)
(* closes the body or cancels the context.                                 *)
(***************************************************************************)
EXTENDS Naturals, Sequences, FiniteSets

CONSTANTS
    Trips,       \* callers of RoundTrip
    MaxBytes     \* bytes the upstream sends at most

ASSUME MaxBytesAssumption == MaxBytes \in Nat

VARIABLES
    body,        \* how the body is wrapped: reader kind, first-body and idle deadline set
    tpc,         \* RoundTrip: where each caller stands
    used,        \* exactStreamRoundTripper.used
    sockets,     \* requests that went out
    callbacks,   \* onClaim, onResponseHeaders and onFirstBody, in the order they ran
    ctxDone,     \* the request context is cancelled
    conn,        \* "none", "open" or "closed" on our side
    closer,      \* the reader was closed by its owner
    upstream,    \* "live", "eof" or "broken"
    arrived,     \* bytes the underlying Read returned
    delivered,   \* bytes Read returned to its caller
    rpc,         \* Read: where the reading goroutine stands
    got,         \* what the underlying Read returned: bytes, error
    first,       \* Read's local firstByte
    result,      \* the error Read returned last
    sawFirst,    \* sawFirstByte
    gen,         \* generation of the current window
    timer,       \* the running timer's window, NoWindow when stopped
    expired,     \* windows whose timer expired and whose callback has not run
    fired,       \* the watchdog fired
    wdClosed,    \* markClosed, or closed of the legacy reader
    cut,         \* the interrupt: "none", "phase", "close" or "done"
    phase,       \* timedOutPhase
    cutBy        \* history: the deadline that fired, with the bytes delivered by then

streamVars == <<body, tpc, used, sockets, callbacks, ctxDone, conn, closer, upstream,
                arrived, delivered, rpc, got, first, result, sawFirst, gen, timer,
                expired, fired, wdClosed, cut, phase, cutBy>>

tripVars == <<tpc, used, sockets, callbacks>>
connVars == <<conn, closer, upstream, ctxDone>>
readVars == <<arrived, delivered, rpc, got, first, result, sawFirst>>
dogVars == <<gen, timer, expired, fired, wdClosed>>
cutVars == <<cut, phase, cutBy>>

Phases == {"firstBody", "idle"}
NoWindow == [gen |-> 0, of |-> "idle"]
Windows == [gen : Nat, of : Phases]

TripLabels == {"enter", "compare", "context", "claim", "send", "wrap", "headers", "end"}
ReadLabels == {"none", "idle", "parked", "got", "arm", "callback", "error", "stop",
               "zero", "sentinel", "over"}
Errors == {"nil", "eof", "broken", "closed", "ctx", "firstBody", "idle"}

\* The types of the state.
StreamTypeOK ==
    /\ body \in [kind : {"exact", "legacy"}, firstBody : BOOLEAN, idle : BOOLEAN]
    /\ tpc \in [Trips -> TripLabels] /\ used \in BOOLEAN /\ sockets \in Nat
    /\ callbacks \in Seq({"claim", "headers", "firstBody"})
    /\ conn \in {"none", "open", "closed"} /\ closer \in BOOLEAN /\ ctxDone \in BOOLEAN
    /\ upstream \in {"live", "eof", "broken"}
    /\ arrived \in 0 .. MaxBytes /\ delivered \in 0 .. MaxBytes
    /\ rpc \in ReadLabels /\ got \in [n : {0, 1}, err : Errors]
    /\ first \in BOOLEAN /\ result \in Errors /\ sawFirst \in BOOLEAN
    /\ gen \in Nat /\ timer \in Windows /\ expired \subseteq Windows
    /\ fired \in BOOLEAN /\ wdClosed \in BOOLEAN
    /\ cut \in {"none", "phase", "close", "done"} /\ phase \in Phases
    /\ cutBy \in [of : Phases, delivered : 0 .. MaxBytes]

\* How a body can be wrapped: the exact reader with each deadline or without, for
\* its onFirstBody is set; the legacy reader only with one.
Bodies ==
    [kind : {"exact"}, firstBody : BOOLEAN, idle : BOOLEAN]
    \cup {[kind |-> "legacy", firstBody |-> FALSE, idle |-> TRUE]}

StreamInit(b) ==
    /\ body = b
    /\ tpc = [t \in Trips |-> IF body.kind = "exact" THEN "enter" ELSE "end"]
    /\ used = FALSE /\ sockets = 0 /\ callbacks = <<>> /\ ctxDone = FALSE
    /\ conn = IF body.kind = "exact" THEN "none" ELSE "open"
    /\ closer = FALSE /\ upstream = "live" /\ arrived = 0 /\ delivered = 0
    /\ rpc = IF body.kind = "exact" THEN "none" ELSE "idle"
    /\ got = [n |-> 0, err |-> "nil"] /\ first = FALSE /\ result = "nil"
    /\ sawFirst = FALSE /\ gen = 0 /\ timer = NoWindow /\ expired = {}
    /\ fired = FALSE /\ wdClosed = FALSE /\ cut = "none" /\ phase = "firstBody"
    /\ cutBy = [of |-> "idle", delivered |-> 0]

-----------------------------------------------------------------------------
(* exactStreamRoundTripper.RoundTrip                                       *)

\* Mutant: test the gate, set it later.
CheckUsed(t) == used' = used

\* used.CompareAndSwap(false, true), won.
ClaimUse(t) == used' = TRUE

TripEnter(t) ==
    /\ tpc[t] = "enter"
    /\ \/ ~ used /\ ClaimUse(t) /\ tpc' = [tpc EXCEPT ![t] = "compare"]
       \/ used /\ UNCHANGED used /\ tpc' = [tpc EXCEPT ![t] = "end"]
    /\ UNCHANGED <<sockets, callbacks>>
    /\ UNCHANGED <<body, connVars, readVars, dogVars, cutVars>>

\* readAndRestoreExactBody and compareExactStreamPlan: the request matches the
\* plan, or its body cannot be read or differs.
TripCompare(t) ==
    /\ tpc[t] = "compare"
    /\ \E next \in {"context", "end"} : tpc' = [tpc EXCEPT ![t] = next]
    /\ UNCHANGED <<used, sockets, callbacks>>
    /\ UNCHANGED <<body, connVars, readVars, dogVars, cutVars>>

TripContext(t) ==
    /\ tpc[t] = "context"
    /\ tpc' = [tpc EXCEPT ![t] = IF ctxDone THEN "end" ELSE "claim"]
    /\ UNCHANGED <<used, sockets, callbacks>>
    /\ UNCHANGED <<body, connVars, readVars, dogVars, cutVars>>

TripClaim(t) ==
    /\ tpc[t] = "claim"
    /\ callbacks' = Append(callbacks, "claim")
    /\ tpc' = [tpc EXCEPT ![t] = "send"]
    /\ UNCHANGED <<used, sockets>>
    /\ UNCHANGED <<body, connVars, readVars, dogVars, cutVars>>

\* The one physical request: a transport error, a response other than 2xx, or a
\* 2xx that is no event stream ends here; the other answers open the body.
TripSend(t) ==
    /\ tpc[t] = "send"
    /\ sockets' = sockets + 1
    /\ \/ tpc' = [tpc EXCEPT ![t] = "end"] /\ UNCHANGED conn
       \/ tpc' = [tpc EXCEPT ![t] = "wrap"] /\ conn' = "open"
    /\ UNCHANGED <<used, callbacks, closer, upstream, ctxDone>>
    /\ UNCHANGED <<body, readVars, dogVars, cutVars>>

\* Mutant: the first-body window is stopped and no idle window follows it.
ArmFirstBodyOnly(of) ==
    /\ gen' = gen + 1
    /\ timer' = IF of = "idle" THEN NoWindow ELSE [gen |-> gen + 1, of |-> of]
    /\ UNCHANGED <<expired, fired, wdClosed>>

\* A new window of the watchdog: the older timer is stopped, a callback it
\* already started is not.
Arm(of) ==
    /\ gen' = gen + 1
    /\ timer' = [gen |-> gen + 1, of |-> of]
    /\ UNCHANGED <<expired, fired, wdClosed>>

\* newExactStreamBody arms the first-body deadline.
TripWrap(t) ==
    /\ tpc[t] = "wrap" /\ tpc' = [tpc EXCEPT ![t] = "headers"]
    /\ IF body.firstBody THEN Arm("firstBody") ELSE UNCHANGED dogVars
    /\ UNCHANGED <<used, sockets, callbacks, body, connVars, readVars, cutVars>>

\* onResponseHeaders, then the response with its body is the caller's.
TripHeaders(t) ==
    /\ tpc[t] = "headers"
    /\ callbacks' = Append(callbacks, "headers")
    /\ tpc' = [tpc EXCEPT ![t] = "end"] /\ rpc' = "idle"
    /\ UNCHANGED <<used, sockets, arrived, delivered, got, first, result, sawFirst>>
    /\ UNCHANGED <<body, connVars, dogVars, cutVars>>

TripStep(t) ==
    \/ TripEnter(t) \/ TripCompare(t) \/ TripContext(t) \/ TripClaim(t)
    \/ TripSend(t) \/ TripWrap(t) \/ TripHeaders(t)

-----------------------------------------------------------------------------
(* firstBodyIdleReader.Read and idleTimeoutReader.Read                     *)

ReadStart ==
    /\ rpc = "idle" /\ rpc' = "parked"
    /\ UNCHANGED <<arrived, delivered, got, first, result, sawFirst>>
    /\ UNCHANGED <<body, tripVars, connVars, dogVars, cutVars>>

\* What the underlying Read can answer: bytes, nothing yet, the end of the stream
\* or an upstream error with or without a last byte, the closed-connection error of
\* our own close (again with or without buffered bytes), a cancelled context.
Answers ==
    IF conn = "closed" THEN {[n |-> n, err |-> "closed"] : n \in {0, 1}}
    ELSE (IF ctxDone THEN {[n |-> 0, err |-> "ctx"]} ELSE {})
         \cup (IF upstream = "live" THEN [n : {0, 1}, err : {"nil", "eof", "broken"}]
               ELSE {[n |-> 0, err |-> upstream]})

ReadReturns ==
    /\ rpc = "parked"
    /\ \E a \in Answers :
        /\ arrived + a.n <= MaxBytes
        /\ got' = a /\ arrived' = arrived + a.n
        /\ upstream' = IF a.err \in {"eof", "broken"} THEN a.err ELSE upstream
        /\ rpc' = IF a.n = 0 THEN "zero" ELSE "got"
    /\ UNCHANGED <<delivered, first, result, sawFirst, conn, closer, ctxDone>>
    /\ UNCHANGED <<body, tripVars, dogVars, cutVars>>

\* sawFirstByte.CompareAndSwap(false, true); the legacy reader has no such flag.
ReadBytes ==
    /\ rpc = "got"
    /\ sawFirst' = TRUE /\ first' = ~ sawFirst
    /\ rpc' = IF got.err = "nil" THEN "arm" ELSE "error"
    /\ UNCHANGED <<arrived, delivered, got, result>>
    /\ UNCHANGED <<body, tripVars, connVars, dogVars, cutVars>>

\* stop() of the watchdog advances the generation as well.
Stop ==
    /\ gen' = gen + 1 /\ timer' = NoWindow
    /\ UNCHANGED <<expired, fired, wdClosed>>

\* A clean data read starts the next idle window: armIdle, or armOrReset.
ReadArm ==
    /\ rpc = "arm"
    /\ IF wdClosed /\ body.idle THEN UNCHANGED dogVars
       ELSE IF body.idle THEN Arm("idle") ELSE Stop
    /\ rpc' = "callback"
    /\ UNCHANGED <<arrived, delivered, got, first, result, sawFirst>>
    /\ UNCHANGED <<body, tripVars, connVars, cutVars>>

\* return n: the caller has the bytes.
Deliver(n) == delivered' = delivered + n

FirstBodyCallback ==
    callbacks' = IF first /\ body.kind = "exact" THEN Append(callbacks, "firstBody")
                 ELSE callbacks

\* onFirstBody, then return n, nil.
ReadDeliver ==
    /\ rpc = "callback"
    /\ FirstBodyCallback
    /\ Deliver(1) /\ result' = "nil" /\ rpc' = "idle"
    /\ UNCHANGED <<tpc, used, sockets, arrived, got, first, sawFirst>>
    /\ UNCHANGED <<body, connVars, dogVars, cutVars>>

\* Mutant: any error that comes after the deadline fired is ours.
OwnCloseAny == fired

\* hasFired() && isClosedConnErr(err)
OwnClose == fired /\ got.err = "closed"

\* Bytes came with an error: it is dropped when it is our own close.
ReadError ==
    /\ rpc = "error"
    /\ FirstBodyCallback
    /\ IF OwnClose THEN Deliver(1) /\ result' = "nil" /\ rpc' = "idle"
       ELSE rpc' = "stop" /\ UNCHANGED <<delivered, result>>
    /\ UNCHANGED <<tpc, used, sockets, arrived, got, first, sawFirst>>
    /\ UNCHANGED <<body, connVars, dogVars, cutVars>>

\* Mutant: a read without bytes returns whatever the connection said.
FiredUnchecked == FALSE

\* hasFired() on a read that brought nothing.
ReadFired == fired

\* Nothing came: after a cut the sentinel, otherwise the error as it is (none
\* leaves the deadline running).
ReadZero ==
    /\ rpc = "zero"
    /\ rpc' = IF ReadFired THEN "sentinel" ELSE IF got.err = "nil" THEN "idle" ELSE "stop"
    /\ UNCHANGED <<arrived, delivered, got, first, result, sawFirst>>
    /\ UNCHANGED <<body, tripVars, connVars, dogVars, cutVars>>

\* ctx.Err() first, then the sentinel of the phase that was recorded.  A read that
\* came back by itself may get here between the fire and CutPhase, so the sentinel
\* of an idle timeout can be the first-body one.
ReadSentinel ==
    /\ rpc = "sentinel"
    /\ result' = IF ctxDone THEN "ctx" ELSE IF body.kind = "legacy" THEN "idle" ELSE phase
    /\ rpc' = "over"
    /\ UNCHANGED <<arrived, delivered, got, first, sawFirst>>
    /\ UNCHANGED <<body, tripVars, connVars, dogVars, cutVars>>

\* A genuine error stops the deadline and is returned with its bytes.
ReadStop ==
    /\ rpc = "stop"
    /\ Stop
    /\ Deliver(got.n) /\ result' = got.err /\ rpc' = "over"
    /\ UNCHANGED <<arrived, got, first, sawFirst>>
    /\ UNCHANGED <<body, tripVars, connVars, cutVars>>

ReadStep == ReadReturns \/ ReadBytes \/ ReadArm \/ ReadDeliver \/ ReadError \/ ReadZero
            \/ ReadSentinel \/ ReadStop

-----------------------------------------------------------------------------
(* The deadline                                                            *)

\* The timer expires and starts its callback.
TimerExpires ==
    /\ timer # NoWindow
    /\ expired' = expired \cup {timer} /\ timer' = NoWindow
    /\ UNCHANGED <<gen, fired, wdClosed>>
    /\ UNCHANGED <<body, tripVars, connVars, readVars, cutVars>>

\* Mutant: the callback does not ask whether its window is still the current one.
FiresAnyWindow(w) == ~ fired /\ (body.kind = "exact" => ~ wdClosed)

\* fire: the watchdog checks closed and the generation, the legacy reader only
\* that it did not fire before.
Fires(w) == ~ fired /\ (body.kind = "exact" => ~ wdClosed /\ w.gen = gen)

Callback(w) ==
    /\ w \in expired /\ expired' = expired \ {w}
    /\ \/ /\ Fires(w)
          /\ fired' = TRUE /\ cut' = IF body.kind = "exact" THEN "phase" ELSE "close"
          /\ cutBy' = [of |-> w.of, delivered |-> delivered]
       \/ ~ Fires(w) /\ UNCHANGED <<fired, cut, cutBy>>
    /\ UNCHANGED <<gen, timer, wdClosed, phase>>
    /\ UNCHANGED <<body, tripVars, connVars, readVars>>

\* onDeadline records the phase ...
CutPhase ==
    /\ cut = "phase" /\ cut' = "close"
    /\ phase' = IF sawFirst THEN "idle" ELSE "firstBody"
    /\ UNCHANGED <<cutBy, body, tripVars, connVars, readVars, dogVars>>

\* ... and closes the connection.
CutClose ==
    /\ cut = "close" /\ cut' = "done" /\ conn' = "closed"
    /\ UNCHANGED <<phase, cutBy, closer, upstream, ctxDone>>
    /\ UNCHANGED <<body, tripVars, readVars, dogVars>>

\* Close: markClosed (the legacy reader sets closed and stops the timer), then
\* the body.  Whoever owns the response may call it while a Read is parked.
Close ==
    /\ rpc # "none" /\ ~ closer
    /\ closer' = TRUE /\ conn' = "closed"
    /\ wdClosed' = TRUE /\ gen' = gen + 1 /\ timer' = NoWindow
    /\ UNCHANGED <<upstream, ctxDone, expired, fired>>
    /\ UNCHANGED <<body, tripVars, readVars, cutVars>>

Cancel ==
    /\ ~ ctxDone /\ ctxDone' = TRUE
    /\ UNCHANGED <<conn, closer, upstream>>
    /\ UNCHANGED <<body, tripVars, readVars, dogVars, cutVars>>

StreamNext ==
    \/ \E t \in Trips : TripStep(t)
    \/ ReadStart \/ ReadStep
    \/ TimerExpires \/ (\E w \in expired : Callback(w)) \/ CutPhase \/ CutClose
    \/ Close \/ Cancel

StreamSpec == (\E b \in Bodies : StreamInit(b)) /\ [][StreamNext]_streamVars

\* What is scheduled: the reading goroutine, also when its connection is closed or
\* its context cancelled under it, the timer (TimerExpires) and its callbacks.  The
\* upstream need not send and nobody has to close the body.
ReaderRuns == ReadStep /\ rpc # "parked"
ReaderWakes == ReadStep /\ rpc = "parked" /\ (conn = "closed" \/ ctxDone)
DeadlineRuns == (\E w \in expired : Callback(w)) \/ CutPhase \/ CutClose

-----------------------------------------------------------------------------
(* Properties                                                              *)

\* The sentinel of a deadline is the one that cut the stream, but for two races.
\* The idle one always means that bytes came and then stopped; when it was the
\* first-body deadline, it fired before the read of the first byte had re-armed it,
\* so nothing was delivered yet: a callback left over from an older window does not
\* fire.  The first-body one is a lie only on a read that came back by itself after
\* the idle deadline fired and before it recorded its phase, not on one that the cut
\* ended (exact_stream.go:468-470, 497-501, 536-549).
SentinelEarned ==
    /\ result = "idle" =>
        /\ delivered > 0
        /\ cutBy.of = "firstBody" => cutBy.delivered = 0
    /\ result = "firstBody" /\ got.err = "closed" /\ ~ closer => cutBy.of = "firstBody"

\* What Read returns is true whenever the deadline fires: every byte the
\* connection gave reaches the caller; an upstream end or error that came with
\* bytes is neither swallowed nor made up; the error of the deadline's own close is
\* reported as the deadline or the cancelled context, never as a failed connection;
\* and a deadline is reported only when one fired and as SentinelEarned says (the
\* two Read methods).
ReadsTruthful ==
    /\ rpc \in {"idle", "over"} =>
        /\ delivered = arrived
        /\ got.n = 1 /\ got.err \in {"eof", "broken"} => result = got.err
    /\ result = "closed" => closer
    /\ result = "eof" => upstream = "eof" /\ got.err = "eof"
    /\ result \in Phases => fired /\ SentinelEarned

\* timedOutPhase is "read only after hasFired() is observed true, which [...] is
\* causally ordered after the store" (exact_stream.go:497-501): an idle timeout is
\* never reported as a first-body timeout.
PhaseCorrect == result = "firstBody" => cutBy.of = "firstBody"

\* One exact client sends at most one request, however many RoundTrips race, and
\* the callbacks run in the order claim, headers, first body, each at most once.
OneShot ==
    /\ sockets <= 1
    /\ \E k \in 0 .. 3 : callbacks = SubSeq(<<"claim", "headers", "firstBody">>, 1, k)
    /\ sockets = 1 => callbacks # <<>>

\* A read that a deadline covers comes back even when the upstream is silent for
\* good: first-body then idle deadline of the exact reader, idle deadline of the
\* legacy one once a first byte has armed it.
Covered ==
    body.idle /\ IF body.kind = "exact" THEN body.firstBody ELSE arrived > 0

\* No covered read stays parked.
ReadsReturn == (rpc = "parked" /\ Covered) ~> (rpc # "parked")
=============================================================================
