--------------------------- MODULE HostHandshake ---------------------------
(***************************************************************************)
(* What the host does when it connects to a worker it has started          *)
(* (workerplugin/plugin.go GRPCClient): serve the shared state over the    *)
(* plugin broker, have the worker dial back (grpc.go AttachSharedState),   *)
(* then open the extra connections in parallel.  The broker's dial cannot  *)
(* be interrupted, so each attempt runs in a helper goroutine that races a *)
(* timeout and the caller's context, and may come back long after.         *)
(***************************************************************************)
EXTENDS Naturals, Sequences, FiniteSets

CONSTANTS
    Extra,        \* broker ids of the extra connections, 1 .. ExtraGRPCConns
    Attempts      \* attempts per connection, 1 .. extraGRPCDialRetries + 1

VARIABLES
    wiring,       \* SharedStateImpl set on the host, attach handler set in the worker
    hpc,          \* GRPCClient: where the host stands
    hostErr,      \* it returns an error
    hostCtx,      \* its context is over
    server,       \* the reverse server: "none", "serving" or "stopped"
    wpc,          \* AttachSharedState in the worker
    wconn,        \* the worker's connection to the reverse server
    hook,         \* Handler.sharedStateHook is set
    dpc,          \* dialBrokerConnWithRetry: where each dialler stands
    attempt,      \* its attempt
    held,         \* the connection a dialler is about to report, NoConn without
    attemptOver,  \* attempts whose context is over
    helper,       \* the goroutine of each attempt
    sock,         \* the connection of each attempt: "none", "open" or "closed"
    results,      \* the results channel: connections, or NoConn for an error
    received,     \* results the host has taken
    kept          \* conns of the worker under construction

handshakeVars == <<wiring, hpc, hostErr, hostCtx, server, wpc, wconn, hook, dpc, attempt,
                   held, attemptOver, helper, sock, results, received, kept>>

attachVars == <<server, wpc, wconn, hook>>
dialVars == <<dpc, attempt, held, attemptOver, helper, sock>>

ASSUME HandshakeAssumption ==
    /\ IsFiniteSet(Extra) /\ Extra # {} /\ Attempts \in Nat \ {0}

Dials == Extra \X (1 .. Attempts)
NoConn == <<0, 0>>

HandshakeTypeOK ==
    /\ wiring \in [shared : BOOLEAN, handler : BOOLEAN]
    /\ hpc \in {"accept", "attach", "dial", "collect", "drain", "returned"}
    /\ hostErr \in BOOLEAN /\ hostCtx \in BOOLEAN
    /\ server \in {"none", "serving", "stopped"}
    /\ wpc \in {"none", "asked", "dialling", "install", "ok", "failed"}
    /\ wconn \in {"none", "open", "closed"} /\ hook \in BOOLEAN
    /\ dpc \in [Extra -> {"none", "try", "race", "failed", "backoff", "report", "over"}]
    /\ attempt \in [Extra -> 1 .. Attempts] /\ held \in [Extra -> Dials \cup {NoConn}]
    /\ attemptOver \subseteq Dials
    /\ helper \in [Dials -> {"none", "dialling", "select", "gone"}]
    /\ sock \in [Dials -> {"none", "open", "closed"}]
    /\ results \in Seq(Dials \cup {NoConn}) /\ received \in 0 .. Cardinality(Extra)
    /\ kept \subseteq Dials

\* The ways a host and a worker can be set up.
Wirings == [shared : BOOLEAN, handler : BOOLEAN]

HandshakeInit(w) ==
    /\ wiring = w /\ hpc = "accept" /\ hostErr = FALSE /\ hostCtx = FALSE
    /\ server = "none" /\ wpc = "none" /\ wconn = "none" /\ hook = FALSE
    /\ dpc = [i \in Extra |-> "none"] /\ attempt = [i \in Extra |-> 1]
    /\ held = [i \in Extra |-> NoConn] /\ attemptOver = {}
    /\ helper = [d \in Dials |-> "none"] /\ sock = [d \in Dials |-> "none"]
    /\ results = <<>> /\ received = 0 /\ kept = {}

-----------------------------------------------------------------------------
(* The reverse channel                                                     *)

\* broker.Accept, then srv.Serve in a goroutine and the AttachSharedState RPC.
Accept ==
    /\ hpc = "accept"
    /\ \/ ~ wiring.shared /\ hpc' = "dial" /\ UNCHANGED <<server, wpc, hostErr>>
       \/ wiring.shared /\ hpc' = "attach" /\ server' = "serving" /\ wpc' = "asked"
          /\ UNCHANGED hostErr
       \/ wiring.shared /\ hpc' = "returned" /\ hostErr' = TRUE /\ UNCHANGED <<server, wpc>>
    /\ UNCHANGED <<wiring, hostCtx, wconn, hook, dialVars, results, received, kept>>

\* Mutant: without a handler the worker accepts and does nothing.
AttachUnhandled == "ok"

\* onAttach == nil is an error.
NoHandler == "failed"

\* The worker: a missing handler, a dial that may not come back, then onAttach.
WorkerAsked ==
    /\ wpc = "asked"
    /\ wpc' = IF wiring.handler THEN "dialling" ELSE NoHandler
    /\ UNCHANGED <<wiring, hpc, hostErr, hostCtx, server, wconn, hook, dialVars, results,
                   received, kept>>

WorkerDials ==
    /\ wpc = "dialling"
    /\ \/ wpc' = "install" /\ wconn' = "open"
       \/ wpc' = "failed" /\ UNCHANGED wconn
    /\ UNCHANGED <<wiring, hpc, hostErr, hostCtx, server, hook, dialVars, results,
                   received, kept>>

\* SetSharedStateHook; an onAttach that fails closes the connection.
WorkerInstalls ==
    /\ wpc = "install"
    /\ \/ wpc' = "ok" /\ hook' = TRUE /\ UNCHANGED wconn
       \/ wpc' = "failed" /\ wconn' = "closed" /\ UNCHANGED hook
    /\ UNCHANGED <<wiring, hpc, hostErr, hostCtx, server, dialVars, results, received, kept>>

\* The RPC answers, or attachCtx ends first while the worker goes on.
Attached ==
    /\ hpc = "attach"
    /\ \/ wpc = "ok" /\ hpc' = "dial" /\ UNCHANGED <<server, hostErr>>
       \/ hpc' = "returned" /\ hostErr' = TRUE /\ server' = "stopped"
    /\ UNCHANGED <<wiring, hostCtx, wpc, wconn, hook, dialVars, results, received, kept>>

-----------------------------------------------------------------------------
(* dialBrokerConnWithRetry and dialBrokerOnce                              *)

StartDials ==
    /\ hpc = "dial" /\ hpc' = "collect"
    /\ dpc' = [i \in Extra |-> "try"]
    /\ UNCHANGED <<wiring, hostErr, hostCtx, attachVars, attempt, held, attemptOver, helper,
                   sock, results, received, kept>>

Current(i) == <<i, attempt[i]>>
AttemptOver(d) == d \in attemptOver \/ hostCtx

\* The check of ctx.Err(), then a helper goroutine for the attempt.
Try(i) ==
    /\ dpc[i] = "try"
    /\ IF hostCtx THEN dpc' = [dpc EXCEPT ![i] = "report"] /\ UNCHANGED helper
       ELSE /\ dpc' = [dpc EXCEPT ![i] = "race"]
            /\ helper' = [helper EXCEPT ![Current(i)] = "dialling"]
    /\ UNCHANGED <<wiring, hpc, hostErr, hostCtx, attachVars, attempt, held, attemptOver,
                   sock, results, received, kept>>

\* broker.DialWithOptions comes back, in time or not.
HelperDials(d) ==
    /\ helper[d] = "dialling" /\ helper' = [helper EXCEPT ![d] = "select"]
    /\ \E s \in {"none", "open"} : sock' = [sock EXCEPT ![d] = s]
    /\ UNCHANGED <<wiring, hpc, hostErr, hostCtx, attachVars, dpc, attempt, held, attemptOver,
                   results, received, kept>>

\* Mutant: done has a buffer, so the send never waits for a receiver.
SendAlways(i) == TRUE

\* done is unbuffered: it takes the dialler at its select.
Receiving(i) == dpc[i] = "race"

\* case done <- res, received by the select of dialBrokerOnce.
HelperSends(i) ==
    LET d == Current(i)
    IN /\ helper[d] = "select" /\ Receiving(i)
       /\ helper' = [helper EXCEPT ![d] = "gone"]
       /\ IF dpc[i] = "race" /\ sock[d] = "open"
          THEN dpc' = [dpc EXCEPT ![i] = "report"] /\ held' = [held EXCEPT ![i] = d]
          ELSE /\ dpc' = [dpc EXCEPT ![i] = IF @ = "race" THEN "failed" ELSE @]
               /\ UNCHANGED held
       /\ attemptOver' = attemptOver \cup {d}
       /\ UNCHANGED <<wiring, hpc, hostErr, hostCtx, attachVars, attempt, sock, results,
                      received, kept>>

\* case <-ctx.Done(): the helper closes what it dialled.
HelperGivesUp(d) ==
    /\ helper[d] = "select" /\ AttemptOver(d)
    /\ helper' = [helper EXCEPT ![d] = "gone"]
    /\ sock' = [sock EXCEPT ![d] = IF @ = "open" THEN "closed" ELSE @]
    /\ UNCHANGED <<wiring, hpc, hostErr, hostCtx, attachVars, dpc, attempt, held, attemptOver,
                   results, received, kept>>

\* Mutant: only the caller's context bounds an attempt.
NeverTimesOut(i) == FALSE

\* context.WithTimeout(parent, extraGRPCDialAttemptTimeout)
Bounded(i) == dpc[i] = "race"

AttemptTimesOut(i) ==
    /\ Bounded(i) /\ Current(i) \notin attemptOver
    /\ attemptOver' = attemptOver \cup {Current(i)}
    /\ UNCHANGED <<wiring, hpc, hostErr, hostCtx, attachVars, dpc, attempt, held, helper, sock,
                   results, received, kept>>

\* case <-ctx.Done() of dialBrokerOnce, which cancels the attempt as it returns.
GiveUpAttempt(i) ==
    /\ dpc[i] = "race" /\ AttemptOver(Current(i))
    /\ dpc' = [dpc EXCEPT ![i] = "failed"]
    /\ attemptOver' = attemptOver \cup {Current(i)}
    /\ UNCHANGED <<wiring, hpc, hostErr, hostCtx, attachVars, attempt, held, helper, sock,
                   results, received, kept>>

\* attempt == extraGRPCDialRetries
LastAttempt(i) == attempt[i] = Attempts

\* After a failed attempt: stop when the context is over or it was the last one.
AttemptFailed(i) ==
    /\ dpc[i] = "failed"
    /\ dpc' = [dpc EXCEPT ![i] = IF hostCtx \/ LastAttempt(i) THEN "report" ELSE "backoff"]
    /\ UNCHANGED <<wiring, hpc, hostErr, hostCtx, attachVars, attempt, held, attemptOver, helper,
                   sock, results, received, kept>>

\* The backoff ends, or the context does.
Backoff(i) ==
    /\ dpc[i] = "backoff"
    /\ \/ /\ dpc' = [dpc EXCEPT ![i] = "try"]
          /\ attempt' = [attempt EXCEPT ![i] = @ + 1]
       \/ hostCtx /\ dpc' = [dpc EXCEPT ![i] = "report"] /\ UNCHANGED attempt
    /\ UNCHANGED <<wiring, hpc, hostErr, hostCtx, attachVars, held, attemptOver, helper, sock,
                   results, received, kept>>

\* results <- brokerDialResult: the buffer has room for all.
Report(i) ==
    /\ dpc[i] = "report" /\ dpc' = [dpc EXCEPT ![i] = "over"]
    /\ results' = Append(results, held[i])
    /\ held' = [held EXCEPT ![i] = NoConn]
    /\ UNCHANGED <<wiring, hpc, hostErr, hostCtx, attachVars, attempt, attemptOver, helper, sock,
                   received, kept>>

DiallerStep(i) ==
    Try(i) \/ HelperSends(i) \/ AttemptTimesOut(i) \/ GiveUpAttempt(i) \/ AttemptFailed(i)
    \/ Backoff(i) \/ Report(i)

-----------------------------------------------------------------------------
(* GRPCClient collects the results                                         *)

CloseAll(set) == [d \in Dials |-> IF d \in set THEN "closed" ELSE sock[d]]

\* A result taken after the context ended is closed and the rest is drained;
\* otherwise an error is skipped and a connection kept.
Collect ==
    /\ hpc = "collect" /\ results # <<>>
    /\ results' = Tail(results) /\ received' = received + 1
    /\ IF hostCtx THEN hpc' = "drain" /\ sock' = CloseAll({Head(results)}) /\ UNCHANGED kept
       ELSE /\ hpc' = IF received' = Cardinality(Extra) THEN "returned" ELSE "collect"
            /\ kept' = kept \cup ({Head(results)} \ {NoConn}) /\ UNCHANGED sock
    /\ UNCHANGED <<wiring, hostErr, hostCtx, attachVars, dpc, attempt, held, attemptOver, helper>>

DrainLate ==
    /\ hpc = "drain" /\ results # <<>>
    /\ results' = Tail(results) /\ received' = received + 1
    /\ sock' = CloseAll({Head(results)})
    /\ UNCHANGED <<wiring, hpc, hostErr, hostCtx, attachVars, dpc, attempt, held, attemptOver,
                   helper, kept>>

\* Mutant: the reverse server is left running.
LeaveServer == server

\* cleanupSharedState
StopServer == IF server = "serving" THEN "stopped" ELSE server

Abort ==
    /\ hpc = "drain" /\ received = Cardinality(Extra)
    /\ hpc' = "returned" /\ hostErr' = TRUE
    /\ sock' = CloseAll(kept) /\ kept' = {}
    /\ server' = StopServer
    /\ UNCHANGED <<wiring, hostCtx, wpc, wconn, hook, dpc, attempt, held, attemptOver, helper,
                   results, received>>

HostCancelled ==
    /\ ~ hostCtx /\ hpc # "returned" /\ hostCtx' = TRUE
    /\ UNCHANGED <<wiring, hpc, hostErr, attachVars, dialVars, results, received, kept>>

HostStep == Accept \/ Attached \/ StartDials \/ Collect \/ DrainLate \/ Abort

HandshakeNext ==
    \/ HostStep \/ HostCancelled
    \/ WorkerAsked \/ WorkerDials \/ WorkerInstalls
    \/ \E i \in Extra : DiallerStep(i)
    \/ \E d \in Dials : HelperDials(d) \/ HelperGivesUp(d)

HandshakeSpec == (\E w \in Wirings : HandshakeInit(w)) /\ [][HandshakeNext]_handshakeVars

-----------------------------------------------------------------------------
(* Properties                                                              *)

\* A connection that is open has exactly one place that will use or close it: its
\* helper, its dialler, the results channel or the worker that was returned.  One
\* that arrives after its attempt was given up is closed (the unbuffered done).
Places(d) ==
    (IF helper[d] = "select" THEN {"helper"} ELSE {})
    \cup (IF \E i \in Extra : held[i] = d THEN {"dialler"} ELSE {})
    \cup (IF \E k \in DOMAIN results : results[k] = d THEN {"results"} ELSE {})
    \cup (IF d \in kept THEN {"worker"} ELSE {})

\* See Places.
DialsAccounted == \A d \in Dials : sock[d] = "open" => Cardinality(Places(d)) = 1

\* GRPCClient that succeeds leaves a worker whose shared-state hook is set and a
\* server for it to call, so rotation is pool-wide; one that fails leaves no
\* server and keeps no connection.
AttachedOrClean ==
    hpc = "returned" =>
        IF hostErr THEN server # "serving" /\ kept = {} /\ results = <<>>
        ELSE /\ wiring.shared => hook /\ server = "serving"
             /\ \A d \in kept : sock[d] = "open"

\* GRPCClient returns even if no dial of the broker ever does: each attempt is
\* bounded and each dialler reports exactly once.
HandshakeReturns == (hpc # "accept") ~> (hpc = "returned")
=============================================================================
