----------------------------- MODULE WorkerPool -----------------------------
(***************************************************************************)
(* The actors of pool/pool.go around the restart machinery:                *)
(*   - logical requests: admission, worker selection, waiting for a        *)
(*     restart, attempts, the retry loop shared by Parse and CallStream;   *)
(*   - the health checker: probes and hung-request detection;              *)
(*   - Shutdown and Close.                                                 *)
(* A stream is reduced to what the pool's bookkeeping sees of it: its      *)
(* first byte, its terminal frame, its failure, its caller going away.     *)
(***************************************************************************)
EXTENDS WorkerRestart

VARIABLES
    rpc, rh,     \* requests: program counter, handle of the current attempt
    lastFailed,  \* lastFailed[r]: the handle the last attempt failed on
    tries,       \* tries[r]: attempts begun or being set up
    saw, seen,   \* sawPending and prevVisible of the restart waits
    yielded,     \* yielded[r]: getWorkerForRetry gave up its one yield
    first,       \* first[r]: the attempt got its first byte
    cancelled,   \* cancelled[r]: the caller's context is done
    outcome,     \* outcome[r]: how the request ended
    inFlight,    \* p.logicalInFlight
    draining,    \* p.draining
    hpc, hsweep, \* health checker: program counter, kind of sweep
    todo, hh,    \* handles left in the sweep, handle looked at
    hreq, htry,  \* the hung request and attempt of the snapshot
    cpc, ckill,  \* Shutdown/Close: program counter, handles left to kill
    suspect,     \* handles that broke, let a request hang, or sent an error of the
                 \* application that reads like one of the transport (history)
    graceful     \* Close was reached with no request in flight (history)

requestVars == <<rpc, rh, lastFailed, tries, saw, seen, yielded, first, cancelled, outcome,
                 inFlight>>
checkerVars == <<hpc, hsweep, todo, hh, hreq, htry>>
shutdownVars == <<draining, cpc, ckill, graceful>>
vars == <<handleVars, goroutineVars, closeVars, waitVars, requestVars, checkerVars,
          shutdownVars, suspect, config>>

RequestLabels == {"before", "get", "await", "onChan", "onSpawn", "refetch", "awaitAny",
                  "anyWait", "anyNil", "anyErr", "call", "failed", "adding", "next", "ended"}
CheckerLabels == {"idle", "sweep", "probedUp", "setHealthy", "probedDown", "unhealthy",
                  "confirm", "killing", "dispatch", "adding", "exited"}
CloseLabels   == {"open", "draining", "swap", "signal", "barrier", "killing", "returned"}
Outcomes      == {"none", "rejected", "answered", "cancelled", "exhausted", "closed",
                  "noWorker", "notRestarting"}

TypeOK ==
    /\ RestartTypeOK /\ config \in Configs
    /\ rpc \in [Requests -> RequestLabels]
    /\ rh \in [Requests -> Handles \cup {None}]
    /\ lastFailed \in [Requests -> Handles \cup {None}]
    /\ tries \in [Requests -> 0..config.tries]
    /\ saw \in [Requests -> BOOLEAN] /\ seen \in [Requests -> SUBSET Handles]
    /\ yielded \in [Requests -> BOOLEAN] /\ first \in [Requests -> BOOLEAN]
    /\ cancelled \in [Requests -> BOOLEAN] /\ outcome \in [Requests -> Outcomes]
    /\ inFlight \in Nat /\ draining \in BOOLEAN
    /\ hpc \in CheckerLabels /\ hsweep \in config.sweeps \cup {None}
    /\ todo \subseteq Handles /\ hh \in Handles \cup {None}
    /\ hreq \in Requests \cup {None} /\ htry \in Nat
    /\ cpc \in CloseLabels /\ ckill \subseteq Handles
    /\ suspect \subseteq Handles /\ graceful \in BOOLEAN

Init ==
    /\ RestartInit /\ config \in Configs
    /\ rpc = [r \in Requests |-> "before"] /\ rh = [r \in Requests |-> None]
    /\ lastFailed = [r \in Requests |-> None] /\ tries = [r \in Requests |-> 0]
    /\ saw = [r \in Requests |-> FALSE] /\ seen = [r \in Requests |-> {}]
    /\ yielded = [r \in Requests |-> FALSE] /\ first = [r \in Requests |-> FALSE]
    /\ cancelled = [r \in Requests |-> FALSE] /\ outcome = [r \in Requests |-> "none"]
    /\ inFlight = 0 /\ draining = FALSE
    /\ hpc = IF config.sweeps = {} THEN "exited" ELSE "idle"
    /\ hsweep = None /\ todo = {} /\ hh = None
    /\ hreq = None /\ htry = 0
    /\ cpc = "open" /\ ckill = {} /\ suspect = {} /\ graceful = FALSE

----------------------------------------------------------------------------
(* Requests *)

ReqStep(r, from, to) == rpc[r] = from /\ rpc' = [rpc EXCEPT ![r] = to]

\* The request is over: done() runs once, the locals are gone.
End(r, how) ==
    /\ rpc' = [rpc EXCEPT ![r] = "ended"]
    /\ outcome' = [outcome EXCEPT ![r] = how]
    /\ inFlight' = inFlight - 1
    /\ rh' = [rh EXCEPT ![r] = None]
    /\ lastFailed' = [lastFailed EXCEPT ![r] = None]
    /\ first' = [first EXCEPT ![r] = FALSE]
    /\ yielded' = [yielded EXCEPT ![r] = FALSE]
    /\ tries' = [tries EXCEPT ![r] = 0]
    /\ cancelled' = [cancelled EXCEPT ![r] = FALSE]

\* The state of a wait is set up or left behind.
ResetWait(r) ==
    /\ saw' = [saw EXCEPT ![r] = FALSE]
    /\ seen' = [seen EXCEPT ![r] = {}]
    /\ chans' = [chans EXCEPT ![r] = {}]
    /\ fired' = [fired EXCEPT ![r] = FALSE]
    /\ spawned' = [spawned EXCEPT ![r] = None]

\* beginLogicalRequest, under admissionMu.
BeginRequest(r) ==
    /\ IF closed \/ draining
       THEN /\ ReqStep(r, "before", "ended")
            /\ outcome' = [outcome EXCEPT ![r] = "rejected"]
            /\ UNCHANGED <<tries, inFlight>>
       ELSE /\ ReqStep(r, "before", "get")
            /\ inFlight' = inFlight + 1
            /\ tries' = [tries EXCEPT ![r] = 1]
            /\ UNCHANGED outcome
    /\ UNCHANGED <<handleVars, goroutineVars, closeVars, waitVars, rh, lastFailed, saw, seen,
                   yielded, first, cancelled, checkerVars, shutdownVars, suspect, config>>

\* The caller goes away or its deadline passes.
CallerCancels(r) ==
    /\ rpc[r] \notin {"before", "ended"} /\ ~ cancelled[r]
    /\ cancelled' = [cancelled EXCEPT ![r] = TRUE]
    /\ UNCHANGED <<handleVars, goroutineVars, closeVars, waitVars, rpc, rh, lastFailed, tries,
                   saw, seen, yielded, first, outcome, inFlight, checkerVars, shutdownVars,
                   suspect, config>>

\* getWorkerAccepted on an open pool; which healthy worker it returns depends
\* on the shared rotation p.next.
HealthyWorkers == {h \in SlotHandles : healthy[h]}

\* trackRequest and the worker call.
BeginAttempt(r, h) ==
    /\ rpc' = [rpc EXCEPT ![r] = "call"]
    /\ rh' = [rh EXCEPT ![r] = h]
    /\ first' = [first EXCEPT ![r] = FALSE]
    /\ yielded' = [yielded EXCEPT ![r] = FALSE]
    /\ UNCHANGED <<lastFailed, tries, cancelled, outcome, inFlight>>

\* getWorkerForRetry: the first getWorkerAccepted decides whether to wait, and
\* for what.
GetWorker(r) ==
    /\ rpc[r] = "get"
    /\ \/ closed /\ End(r, "closed")
       \/ /\ ~ closed
          /\ \E h \in HealthyWorkers \ {lastFailed[r]} : BeginAttempt(r, h)
       \/ /\ ~ closed
          /\ \/ lastFailed[r] \in HealthyWorkers
             \/ HealthyWorkers = {} /\ lastFailed[r] # None
          /\ rpc' = [rpc EXCEPT ![r] = "await"]
          /\ UNCHANGED <<rh, lastFailed, tries, yielded, first, cancelled, outcome, inFlight>>
       \/ /\ ~ closed /\ HealthyWorkers = {} /\ lastFailed[r] = None
          /\ rpc' = [rpc EXCEPT ![r] = "awaitAny"]
          /\ UNCHANGED <<rh, lastFailed, tries, yielded, first, cancelled, outcome, inFlight>>
    /\ ResetWait(r)
    /\ UNCHANGED <<handleVars, goroutineVars, closeVars, checkerVars, shutdownVars, suspect,
                   config>>

\* A getWorkerAccepted whose result is final (after awaitRestart).
Refetch(r) ==
    /\ rpc[r] = "refetch"
    /\ \/ closed /\ End(r, "closed")
       \/ ~ closed /\ \E h \in HealthyWorkers : BeginAttempt(r, h)
       \/ ~ closed /\ HealthyWorkers = {} /\ End(r, "noWorker")
    /\ ResetWait(r)
    /\ UNCHANGED <<handleVars, goroutineVars, closeVars, checkerVars, shutdownVars, suspect,
                   config>>

----------------------------------------------------------------------------
(* awaitRestart(ctx, lastFailed) *)

\* The snapshot shows the channel, a pending restart or, after one, nothing.
AwaitPoll(r) ==
    /\ rpc[r] = "await"
    /\ \/ /\ chan[lastFailed[r]]
          /\ rpc' = [rpc EXCEPT ![r] = "onChan"]
          /\ chans' = [chans EXCEPT ![r] = {lastFailed[r]}]
          /\ UNCHANGED saw
       \/ /\ ~ chan[lastFailed[r]] /\ RestartVisible(lastFailed[r])
          /\ saw' = [saw EXCEPT ![r] = TRUE]
          /\ UNCHANGED <<rpc, chans>>
       \/ /\ ~ RestartVisible(lastFailed[r]) /\ saw[r]
          /\ rpc' = [rpc EXCEPT ![r] = "refetch"]
          /\ UNCHANGED <<saw, chans>>
    /\ UNCHANGED <<handleVars, goroutineVars, closeVars, fired, spawned, rh, lastFailed,
                   tries, seen, yielded, first, cancelled, outcome, inFlight, checkerVars,
                   shutdownVars, suspect, config>>

\* No restart in sight: start one, in a goroutine nobody else knows of.
AwaitSpawn(r, g) ==
    /\ ReqStep(r, "await", "onSpawn")
    /\ ~ RestartVisible(lastFailed[r]) /\ ~ saw[r] /\ ~ stop
    /\ GoRestart(g, lastFailed[r], FALSE)
    /\ spawned' = [spawned EXCEPT ![r] = g]
    /\ UNCHANGED <<handleVars, closeVars, chans, fired, rh, lastFailed, tries, saw, seen,
                   yielded, first, cancelled, outcome, inFlight, checkerVars, shutdownVars,
                   suspect, config>>

AwaitDone(r) ==
    /\ \/ ReqStep(r, "onChan", "refetch") /\ fired[r]
       \/ ReqStep(r, "onSpawn", "refetch") /\ spawned[r] = None
    /\ UNCHANGED <<handleVars, goroutineVars, closeVars, waitVars, rh, lastFailed, tries, saw,
                   seen, yielded, first, cancelled, outcome, inFlight, checkerVars,
                   shutdownVars, suspect, config>>

----------------------------------------------------------------------------
(* The wait of an initial attempt: awaitAnyRestart in a loop *)

Visible == {h \in SlotHandles : RestartVisible(h)}

\* A restart seen in an earlier poll is over or was followed by another.
SomeRestartOver(r) == saw[r] /\ (fired[r] \/ seen[r] \ Visible # {})

AnyPoll(r) ==
    /\ rpc[r] = "awaitAny"
    /\ \/ /\ SomeRestartOver(r)
          /\ rpc' = [rpc EXCEPT ![r] = "anyNil"]
          /\ UNCHANGED <<saw, seen, chans, fired>>
       \/ /\ ~ SomeRestartOver(r) /\ Visible = {}
          /\ rpc' = [rpc EXCEPT ![r] = "anyErr"]
          /\ UNCHANGED <<saw, seen, chans, fired>>
       \/ /\ ~ SomeRestartOver(r) /\ Visible # {}
          /\ rpc' = [rpc EXCEPT ![r] =
                        IF \A h \in Visible : chan[h] THEN "anyWait" ELSE "awaitAny"]
          /\ saw' = [saw EXCEPT ![r] = TRUE]
          /\ seen' = [seen EXCEPT ![r] = Visible]
          /\ chans' = [chans EXCEPT ![r] = {h \in Visible : chan[h]}]
          /\ fired' = [fired EXCEPT ![r] = FALSE]
    /\ UNCHANGED <<handleVars, goroutineVars, closeVars, spawned, rh, lastFailed, tries,
                   yielded, first, cancelled, outcome, inFlight, checkerVars, shutdownVars,
                   suspect, config>>

AnyDone(r) ==
    /\ ReqStep(r, "anyWait", "anyNil") /\ fired[r]
    /\ UNCHANGED <<handleVars, goroutineVars, closeVars, waitVars, rh, lastFailed, tries, saw,
                   seen, yielded, first, cancelled, outcome, inFlight, checkerVars,
                   shutdownVars, suspect, config>>

\* awaitAnyRestart saw a restart complete: try again, or wait for another one.
AnyNil(r) ==
    /\ rpc[r] = "anyNil"
    /\ \/ closed /\ End(r, "closed")
       \/ ~ closed /\ \E h \in HealthyWorkers : BeginAttempt(r, h)
       \/ /\ ~ closed /\ HealthyWorkers = {}
          /\ rpc' = [rpc EXCEPT ![r] = "awaitAny"]
          /\ yielded' = [yielded EXCEPT ![r] = FALSE]
          /\ UNCHANGED <<rh, lastFailed, tries, first, cancelled, outcome, inFlight>>
    /\ ResetWait(r)
    /\ UNCHANGED <<handleVars, goroutineVars, closeVars, checkerVars, shutdownVars, suspect,
                   config>>

\* awaitAnyRestart found no restart: one runtime.Gosched, then an error.
AnyErr(r) ==
    /\ rpc[r] = "anyErr"
    /\ \/ cancelled[r] /\ End(r, "cancelled")
       \/ ~ cancelled[r] /\ closed /\ End(r, "closed")
       \/ ~ cancelled[r] /\ ~ closed /\ \E h \in HealthyWorkers : BeginAttempt(r, h)
       \/ /\ ~ cancelled[r] /\ ~ closed /\ HealthyWorkers = {} /\ ~ yielded[r]
          /\ rpc' = [rpc EXCEPT ![r] = "awaitAny"]
          /\ yielded' = [yielded EXCEPT ![r] = TRUE]
          /\ UNCHANGED <<rh, lastFailed, tries, first, cancelled, outcome, inFlight>>
       \/ /\ ~ cancelled[r] /\ ~ closed /\ HealthyWorkers = {} /\ yielded[r]
          /\ End(r, "notRestarting")
    /\ ResetWait(r)
    /\ UNCHANGED <<handleVars, goroutineVars, closeVars, checkerVars, shutdownVars, suspect,
                   config>>

Waiting == {"await", "onChan", "onSpawn", "awaitAny", "anyWait"}

\* The other arms of every wait: drainCh closed, caller's context done.
WaitAborted(r) ==
    /\ rpc[r] \in Waiting
    /\ \/ cancelled[r] /\ End(r, "cancelled")
       \/ stop /\ End(r, "closed")
    /\ ResetWait(r)
    /\ UNCHANGED <<handleVars, goroutineVars, closeVars, checkerVars, shutdownVars, suspect,
                   config>>

----------------------------------------------------------------------------
(* An attempt *)

\* The first frame that is not planned metadata.
FirstByte(r) ==
    /\ rpc[r] = "call" /\ ~ first[r] /\ proc[rh[r]] = "up"
    /\ first' = [first EXCEPT ![r] = TRUE]
    /\ UNCHANGED <<handleVars, goroutineVars, closeVars, waitVars, rpc, rh, lastFailed, tries,
                   saw, seen, yielded, cancelled, outcome, inFlight, checkerVars,
                   shutdownVars, suspect, config>>

\* A result, or an error that is the application's: the request ends.
AttemptAnswered(r) ==
    /\ rpc[r] = "call" /\ proc[rh[r]] = "up"
    /\ End(r, "answered")
    /\ UNCHANGED <<handleVars, goroutineVars, closeVars, waitVars, saw, seen, checkerVars,
                   shutdownVars, suspect, config>>

\* Mutant: a cancellation-shaped error counts as a worker failure.
CancelledIsFailure(r) == TRUE

\* The error comes from the transport, the worker being gone: workerFailed by its
\* status code, and not merely the caller's own cancellation reported back.
WorkerFailed(r) == proc[rh[r]] \in {"broken", "killed"}

\* The caller cancelled and the attempt reports just that.
AttemptCancelled(r) ==
    /\ rpc[r] = "call" /\ cancelled[r]
    /\ End(r, "cancelled")
    /\ UNCHANGED <<handleVars, goroutineVars, closeVars, waitVars, saw, seen, checkerVars,
                   shutdownVars, suspect, config>>

\* An infrastructure failure: handle.healthy.Store(false) ...
AttemptFails(r) ==
    /\ ReqStep(r, "call", "failed") /\ WorkerFailed(r)
    /\ healthy' = [healthy EXCEPT ![rh[r]] = FALSE]
    /\ UNCHANGED <<slotVars, idOf, proc, restarting, chan, nextHandle, fails, reaping,
                   goroutineVars, closeVars, waitVars, rh, lastFailed, tries, saw, seen,
                   yielded, first, cancelled, outcome, inFlight, checkerVars, shutdownVars,
                   suspect, config>>

\* workerFailed by the text alone: an error of the application reaches the pool as
\* bare text, and one that contains, say, "connection reset" is taken for a failure
\* of the worker that sent it.
AttemptMisread(r) ==
    /\ ReqStep(r, "call", "failed") /\ proc[rh[r]] = "up" /\ config.misreads
    /\ healthy' = [healthy EXCEPT ![rh[r]] = FALSE]
    /\ suspect' = suspect \cup {rh[r]}
    /\ UNCHANGED <<slotVars, idOf, proc, restarting, chan, nextHandle, fails, reaping,
                   goroutineVars, closeVars, waitVars, rh, lastFailed, tries, saw, seen,
                   yielded, first, cancelled, outcome, inFlight, checkerVars, shutdownVars,
                   config>>

\* dispatchRestart's check, under p.restartMu.
MayRegister == ~ closed

\* ... and dispatchRestart(handle): check, ...
RequestDispatch(r) ==
    /\ ReqStep(r, "failed", IF MayRegister THEN "adding" ELSE "next")
    /\ restartMu = None
    /\ restartMu' = IF MayRegister THEN r ELSE None
    /\ UNCHANGED <<handleVars, goroutineVars, closed, stop, waitVars, rh, lastFailed, tries,
                   saw, seen, yielded, first, cancelled, outcome, inFlight, checkerVars,
                   shutdownVars, suspect, config>>

\* ... then register and start the goroutine.
RequestAdd(r, g) ==
    /\ ReqStep(r, "adding", "next")
    /\ GoRestart(g, rh[r], TRUE)
    /\ restartMu' = None
    /\ UNCHANGED <<handleVars, closed, stop, waitVars, rh, lastFailed, tries, saw, seen,
                   yielded, first, cancelled, outcome, inFlight, checkerVars, shutdownVars,
                   suspect, config>>

\* Mutant: one attempt too many.
OneMoreAttempt(r) == tries[r] <= config.tries

\* attempt <= MaxRetries
AttemptsLeft(r) == tries[r] < config.tries

\* A caller that is gone is not retried; attempts are limited.
NextAttempt(r) ==
    /\ rpc[r] = "next"
    /\ \/ cancelled[r] /\ End(r, "cancelled")
       \/ ~ cancelled[r] /\ ~ AttemptsLeft(r) /\ End(r, "exhausted")
       \/ /\ ~ cancelled[r] /\ AttemptsLeft(r)
          /\ rpc' = [rpc EXCEPT ![r] = "get"]
          /\ tries' = [tries EXCEPT ![r] = @ + 1]
          /\ lastFailed' = [lastFailed EXCEPT ![r] = rh[r]]
          /\ rh' = [rh EXCEPT ![r] = None]
          /\ UNCHANGED <<yielded, first, cancelled, outcome, inFlight>>
    /\ UNCHANGED <<handleVars, goroutineVars, closeVars, waitVars, saw, seen, checkerVars,
                   shutdownVars, suspect, config>>

----------------------------------------------------------------------------
(* The health checker *)

\* checkHealth or checkHungRequests: the handles are copied once.
BeginSweep(kind) ==
    /\ hpc = "idle" /\ ~ closed /\ kind \in config.sweeps
    /\ hpc' = "sweep" /\ hsweep' = kind /\ todo' = SlotHandles
    /\ UNCHANGED <<handleVars, goroutineVars, closeVars, waitVars, requestVars, hh, hreq,
                   htry, shutdownVars, suspect, config>>

EndSweep ==
    /\ hpc = "sweep" /\ todo = {}
    /\ hpc' = "idle" /\ hsweep' = None
    /\ UNCHANGED <<handleVars, goroutineVars, closeVars, waitVars, requestVars, todo, hh,
                   hreq, htry, shutdownVars, suspect, config>>

CheckerExits ==
    /\ hpc = "idle" /\ closed
    /\ hpc' = "exited"
    /\ UNCHANGED <<handleVars, goroutineVars, closeVars, waitVars, requestVars, hsweep, todo,
                   hh, hreq, htry, shutdownVars, suspect, config>>

\* handle.worker.Health(ctx)
Probe(h) ==
    /\ hpc = "sweep" /\ hsweep = "health" /\ h \in todo /\ ~ stop
    /\ hpc' = IF proc[h] = "up" THEN "probedUp" ELSE "probedDown"
    /\ hh' = h /\ todo' = todo \ {h}
    /\ UNCHANGED <<handleVars, goroutineVars, closeVars, waitVars, requestVars, hsweep, hreq,
                   htry, shutdownVars, suspect, config>>

\* Shutdown interrupts the sweep.
ProbeAborted ==
    /\ hpc \in {"sweep", "probedUp", "probedDown"} /\ hsweep = "health" /\ stop
    /\ hpc' = "idle" /\ hsweep' = None /\ todo' = {} /\ hh' = None
    /\ UNCHANGED <<handleVars, goroutineVars, closeVars, waitVars, requestVars, hreq, htry,
                   shutdownVars, suspect, config>>

MarkUnhealthy ==
    /\ hpc = "probedDown" /\ ~ stop
    /\ hpc' = "unhealthy"
    /\ healthy' = [healthy EXCEPT ![hh] = FALSE]
    /\ UNCHANGED <<slotVars, idOf, proc, restarting, chan, nextHandle, fails, reaping,
                   goroutineVars, closeVars, waitVars, requestVars, hsweep, todo, hh, hreq,
                   htry, shutdownVars, suspect, config>>

\* Mutant: nothing is dispatched after a failed probe.
DispatchNever(h) == FALSE

\* A restart that is already pending or running is not dispatched again.
NeedsRestart(h) == ~ RestartVisible(h)

DecideRestart ==
    /\ hpc = "unhealthy"
    /\ hpc' = IF NeedsRestart(hh) THEN "dispatch" ELSE "sweep"
    /\ hh' = IF NeedsRestart(hh) THEN hh ELSE None
    /\ UNCHANGED <<handleVars, goroutineVars, closeVars, waitVars, requestVars, hsweep, todo,
                   hreq, htry, shutdownVars, suspect, config>>

\* A good probe clears the flag, unless a restart is visible; the look at the
\* restart state and the store are two steps.
DecideHealthy ==
    /\ hpc = "probedUp" /\ ~ stop
    /\ hpc' = IF RestartVisible(hh) THEN "sweep" ELSE "setHealthy"
    /\ hh' = IF RestartVisible(hh) THEN None ELSE hh
    /\ UNCHANGED <<handleVars, goroutineVars, closeVars, waitVars, requestVars, hsweep, todo,
                   hreq, htry, shutdownVars, suspect, config>>

SetHealthy ==
    /\ hpc = "setHealthy"
    /\ hpc' = "sweep" /\ hh' = None
    /\ healthy' = [healthy EXCEPT ![hh] = TRUE]
    /\ UNCHANGED <<slotVars, idOf, proc, restarting, chan, nextHandle, fails, reaping,
                   goroutineVars, closeVars, waitVars, requestVars, hsweep, todo, hreq, htry,
                   shutdownVars, suspect, config>>

\* A request still without its first byte; how long it has waited is left open.
NoFirstByte(r, h) == rpc[r] = "call" /\ rh[r] = h /\ ~ first[r]

HungNone(h) ==
    /\ hpc = "sweep" /\ hsweep = "hung" /\ h \in todo
    /\ todo' = todo \ {h}
    /\ UNCHANGED <<handleVars, goroutineVars, closeVars, waitVars, requestVars, hpc, hsweep,
                   hh, hreq, htry, shutdownVars, suspect, config>>

HungSnapshot(h, r) ==
    /\ hpc = "sweep" /\ hsweep = "hung" /\ h \in todo /\ NoFirstByte(r, h)
    /\ todo' = todo \ {h}
    /\ hpc' = "confirm" /\ hh' = h /\ hreq' = r /\ htry' = tries[r]
    /\ UNCHANGED <<handleVars, goroutineVars, closeVars, waitVars, requestVars, hsweep,
                   shutdownVars, suspect, config>>

\* The attempt of the snapshot has still no first byte.
Hangs == NoFirstByte(hreq, hh) /\ tries[hreq] = htry

\* Mutant: the snapshot is acted on as it is.
SnapshotTrusted == TRUE

\* isHungRequestStillHung
StillHung == Hangs

\* The second look; then killWorkerAndRetry starts with the flag.
HungConfirm ==
    /\ hpc = "confirm"
    /\ IF StillHung
       THEN /\ hpc' = "killing"
            /\ healthy' = [healthy EXCEPT ![hh] = FALSE]
            /\ suspect' = IF Hangs THEN suspect \cup {hh} ELSE suspect
            /\ UNCHANGED hh
       ELSE hpc' = "sweep" /\ hh' = None /\ UNCHANGED <<healthy, suspect>>
    /\ hreq' = None /\ htry' = 0
    /\ UNCHANGED <<slotVars, idOf, proc, restarting, chan, nextHandle, fails, reaping,
                   goroutineVars, closeVars, waitVars, requestVars, hsweep, todo,
                   shutdownVars, config>>

\* handle.kill(): the requests on it fail (their contexts are cancelled too).
HungKill ==
    /\ hpc = "killing"
    /\ hpc' = "dispatch"
    /\ Kill(hh)
    /\ UNCHANGED <<slotVars, idOf, healthy, restarting, chan, nextHandle, fails, reaping,
                   goroutineVars, closeVars, waitVars, requestVars, hsweep, todo, hh, hreq,
                   htry, shutdownVars, suspect, config>>

CheckerDispatch ==
    /\ hpc = "dispatch" /\ restartMu = None
    /\ hpc' = IF MayRegister THEN "adding" ELSE "sweep"
    /\ restartMu' = IF MayRegister THEN "checker" ELSE None
    /\ hh' = IF MayRegister THEN hh ELSE None
    /\ UNCHANGED <<handleVars, goroutineVars, closed, stop, waitVars, requestVars, hsweep,
                   todo, hreq, htry, shutdownVars, suspect, config>>

CheckerAdd(g) ==
    /\ hpc = "adding"
    /\ hpc' = "sweep" /\ hh' = None
    /\ GoRestart(g, hh, TRUE)
    /\ restartMu' = None
    /\ UNCHANGED <<handleVars, closed, stop, waitVars, requestVars, hsweep, todo, hreq, htry,
                   shutdownVars, suspect, config>>

----------------------------------------------------------------------------
(* Shutdown and Close *)

closeFrame == <<handleVars, goroutineVars, restartMu, waitVars, requestVars, checkerVars,
                suspect, config>>

\* Shutdown: the transition to draining, under admissionMu.
Shutdown ==
    /\ cpc = "open" /\ config.closes
    /\ cpc' = "draining" /\ draining' = TRUE
    /\ UNCHANGED <<closeFrame, closed, stop, ckill, graceful>>

\* Mutant: wait for the attempts that are tracked right now.
NoAttemptTracked == \A r \in Requests : rpc[r] # "call"

\* p.logicalInFlight.Load() == 0
Drained == inFlight = 0

ShutdownDrained ==
    /\ cpc = "draining" /\ Drained
    /\ cpc' = "swap" /\ graceful' = TRUE
    /\ UNCHANGED <<closeFrame, closed, stop, draining, ckill>>

\* Shutdown's own deadline, or a direct Close.
CloseNow ==
    /\ cpc \in {"open", "draining"} /\ config.closes
    /\ cpc' = "swap"
    /\ UNCHANGED <<closeFrame, closed, stop, draining, ckill, graceful>>

CloseSwap ==
    /\ cpc = "swap"
    /\ cpc' = "signal" /\ closed' = TRUE
    /\ UNCHANGED <<closeFrame, stop, draining, ckill, graceful>>

\* close(drainCh), shutdownCancel(), close(done)
CloseSignal ==
    /\ cpc = "signal"
    /\ cpc' = "barrier" /\ stop' = TRUE /\ draining' = TRUE
    /\ UNCHANGED <<closeFrame, closed, ckill, graceful>>

\* Mutant: Close does not synchronise with a dispatch under way.
NoBarrier == TRUE

\* p.restartMu.Lock(); p.restartMu.Unlock()
Barrier == restartMu = None

CloseSnapshot ==
    /\ cpc = "barrier" /\ Barrier
    /\ cpc' = "killing" /\ ckill' = SlotHandles
    /\ UNCHANGED <<closeFrame, closed, stop, draining, graceful>>

CloseKill(h) ==
    /\ cpc = "killing" /\ h \in ckill
    /\ ckill' = ckill \ {h}
    /\ Kill(h)
    /\ UNCHANGED <<slotVars, idOf, healthy, restarting, chan, nextHandle, fails, reaping,
                   goroutineVars, closeVars, waitVars, requestVars, checkerVars, draining,
                   cpc, graceful, suspect, config>>

\* restartWG.Wait(); wg.Wait()
CloseReturn ==
    /\ cpc = "killing" /\ ckill = {}
    /\ \A g \in Goroutines : ~ tracked[g]
    /\ hpc = "exited"
    /\ cpc' = "returned"
    /\ UNCHANGED <<closeFrame, closed, stop, draining, ckill, graceful>>

----------------------------------------------------------------------------
\* Nothing but the restart goroutines changes while they take a step.
poolFrame == <<requestVars, checkerVars, shutdownVars, suspect, config>>

GoroutineStep(g) == RestartStep(g) /\ UNCHANGED poolFrame

Reaper(h) == Reap(h) /\ UNCHANGED poolFrame

Break(h) ==
    /\ WorkerBreaks(h)
    /\ suspect' = suspect \cup {h}
    /\ UNCHANGED <<requestVars, checkerVars, shutdownVars, config>>

RequestStep(r) ==
    \/ GetWorker(r) \/ Refetch(r) \/ AwaitPoll(r) \/ AwaitDone(r)
    \/ AnyPoll(r) \/ AnyDone(r) \/ AnyNil(r) \/ AnyErr(r) \/ WaitAborted(r)
    \/ AttemptFails(r) \/ RequestDispatch(r) \/ NextAttempt(r)
    \/ \E g \in Goroutines : AwaitSpawn(r, g) \/ RequestAdd(r, g)

AttemptEnds(r) ==
    FirstByte(r) \/ AttemptAnswered(r) \/ AttemptMisread(r) \/ AttemptCancelled(r)

CheckerStep ==
    \/ EndSweep \/ CheckerExits \/ ProbeAborted \/ MarkUnhealthy \/ DecideRestart
    \/ DecideHealthy \/ SetHealthy \/ HungConfirm \/ HungKill \/ CheckerDispatch
    \/ \E g \in Goroutines : CheckerAdd(g)
    \/ \E h \in Handles : Probe(h) \/ HungNone(h)

CloseStep ==
    \/ CloseSwap \/ CloseSignal \/ CloseSnapshot \/ CloseReturn
    \/ \E h \in Handles : CloseKill(h)

Next ==
    \/ \E r \in Requests :
        BeginRequest(r) \/ CallerCancels(r) \/ RequestStep(r) \/ AttemptEnds(r)
    \/ \E g \in Goroutines : GoroutineStep(g)
    \/ \E h \in Handles : Reaper(h) \/ Break(h)
    \/ BeginSweep("health") \/ BeginSweep("hung") \/ CheckerStep
    \/ \E h \in Handles, r \in Requests : HungSnapshot(h, r)
    \/ Shutdown \/ ShutdownDrained \/ CloseNow \/ CloseStep

Spec == Init /\ [][Next]_vars

\* Goroutines are scheduled, mutexes and channels do not starve a waiter, both
\* tickers keep firing.  A worker start ends: WorkerStartTimeout bounds it, and
\* killing the process ends its handshake for the reaper.  Nothing makes a
\* worker answer, a caller cancel or an operator shut the pool down.
Fairness ==
    /\ \A g \in Goroutines : WF_vars(GoroutineStep(g))
    /\ \A r \in Requests : WF_vars(RequestStep(r)) /\ SF_vars(RequestDispatch(r))
    /\ \A h \in Handles : WF_vars(Reaper(h))
    /\ WF_vars(CheckerStep) /\ SF_vars(CheckerDispatch) /\ SF_vars(BeginSweep("health"))
    /\ WF_vars(CloseStep) /\ SF_vars(CloseSnapshot)

FairSpec == Spec /\ Fairness

----------------------------------------------------------------------------
(* Properties *)

Running(h) == proc[h] \in {"booting", "up", "broken"}

\* No worker process is ever lost: whatever restarts, timeouts, aborts and Close
\* interleave, a process that was started and not killed is in its slot, or
\* somebody is still going to install it or kill it (the hot swap of
\* restartWorker, reapWorkerStartResult).
NoLeakedWorker ==
    \A h \in Handles : Running(h) =>
        \/ h \in SlotHandles
        \/ h \in reaping
        \/ \E g \in Goroutines : gnew[g] = h \/ (gh[g] = h /\ gpc[g] = "killOld")

\* "This prevents a thundering-herd of restart calls from repeatedly killing
\* freshly-started workers" (pool.go:672), and a caller's cancellation does not
\* tear a worker down (pool.go:1219-1224): before Close, a worker that got its slot
\* is killed only if it broke, or let a request hang up to the second look of the
\* checker, or sent an error whose text names a failure of the transport.
GoodWorkersSurvive ==
    ~ closed => \A h \in served : proc[h] = "killed" => h \in suspect

\* The hot swap of restartWorker (pool.go:672, 755-768): however many restarts of a
\* worker were asked for, and however late they come, a slot passes only from a
\* worker that gave cause for it (it broke, hung, or sent an error that reads like
\* the transport's) to one that was started for this slot, never had it before and
\* was not killed meanwhile.
SwapsAreUpgrades ==
    [][\A i \in Slots : slot'[i] # slot[i] =>
            /\ slot[i] \in suspect
            /\ slot'[i] \notin served /\ idOf[slot'[i]] = i
            /\ proc[slot'[i]] \in {"up", "broken"}]_vars

\* Graceful shutdown lets admitted requests finish, retries included
\* (pool.go:305, 313-315): when Shutdown saw the pool drained, no admitted
\* request is still running once the pool is closed.
DrainIsGraceful ==
    graceful => \A r \in Requests : rpc[r] \in {"before", "ended"}

\* Close returns only after every registered restart goroutine, and nothing
\* registers afterwards (the restartMu barrier).
RegisteredRestartsDone ==
    cpc = "returned" => \A g \in Goroutines : ~ tracked[g]

\* "Close immediately shuts down the pool and kills all workers" and "Waits on
\* `restartWG` (so any in-flight restart goroutine has returned)"
\* (pool.go:2007, 2016-2017): once Close has returned, the only processes left
\* are those already handed to a reaper.
CloseKillsAll ==
    cpc = "returned" => \A h \in Handles : Running(h) => h \in reaping

\* Every worker the bound allows was started and none is about to be installed:
\* from here on every start fails.
Exhausted == nextHandle > config.handles /\ \A g \in Goroutines : gnew[g] = None

\* No lost wakeup: a request that waits for a restart stops waiting.  Only a health
\* checker that dispatches restart after restart, none of which succeeds, keeps it
\* (until its caller gives up).
WaitersReturn ==
    \A r \in Requests :
        (rpc[r] \in Waiting)
            ~> (rpc[r] \notin Waiting \/ ("health" \in config.sweeps /\ Exhausted))

\* Nobody blocks on a restart that is over: the channels a request selects on
\* (awaitRestart, awaitAnyRestart) are each still to be closed by a goroutine
\* inside restartWorker, unless one of them was closed already.
NoLostWakeup ==
    \A r \in Requests : rpc[r] \in {"onChan", "anyWait"} /\ ~ fired[r] =>
        /\ chans[r] # {}
        /\ \A h \in chans[r] : chan[h] /\ \E g \in Goroutines :
                gh[g] = h /\ gpc[g] \notin {"idle", "check", "cas", "wait", "publish", "exit"}

\* With health checks on, a worker that broke or was killed does not keep its slot:
\* restarts that fail, coincide or get lost behind one another leave none behind
\* for good (checkHealth, dispatchRestart, restartWorker).
SlotsRecover ==
    \A i \in Slots :
        ("health" \in config.sweeps /\ proc[slot[i]] \in {"broken", "killed"})
            ~> (proc[slot[i]] = "up" \/ closed \/ Exhausted)

\* Close returns, whatever it met, and no worker process outlives it for good.
CloseCompletes ==
    (cpc = "swap") ~> (cpc = "returned" /\ \A h \in Handles : ~ Running(h))
=============================================================================
