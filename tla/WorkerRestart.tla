---------------------------- MODULE WorkerRestart ----------------------------
(***************************************************************************)
(* How pool/pool.go replaces a failed worker: dispatchRestart registers a  *)
(* goroutine with restartWG and runs restartWorker, which starts the       *)
(* replacement BEFORE it swaps the slot and kills the old worker.          *)
(*                                                                         *)
(* A workerHandle is named by the order in which its process was started.  *)
(* Several restart goroutines may work on one handle; they exclude each    *)
(* other with the handle's `restarting' flag, and publish a channel        *)
(* (restartDone) that requests select on.  A channel is represented by its *)
(* effect: closing the channel of h marks `fired' every request that holds *)
(* it, so that a channel published later is not mistaken for it.           *)
(*                                                                         *)
(* Steps are the code's atomic operations and critical sections (p.mu,     *)
(* p.restartMu, handle.restartMu, the CAS).  WorkerPool adds the actors    *)
(* that report failures: requests, the health checker and Close.           *)
(***************************************************************************)
EXTENDS Integers, FiniteSets

CONSTANTS
    PoolSize,    \* config.PoolSize
    Requests,    \* logical requests, which may wait for a restart
    Goroutines,  \* bound: restart goroutines that can exist at once
    None,        \* nil
    MaxHandles,  \* bound: worker processes ever started, in any configuration
    Configs      \* configurations of the pool and of what happens to it, see config

ASSUME RestartAssumption ==
    /\ PoolSize \in Nat \ {0} /\ MaxHandles \in Nat
    /\ PoolSize <= MaxHandles
    /\ None \notin Int /\ None \notin Requests \cup Goroutines
    /\ "checker" \notin Requests \cup {None}

ASSUME ConfigAssumption ==
    Configs \subseteq [tries : Nat \ {0}, sweeps : SUBSET {"health", "hung"},
                      closes : BOOLEAN, misreads : BOOLEAN, fails : Nat,
                      handles : 1..MaxHandles]

Slots   == 1..PoolSize
Handles == 1..MaxHandles

VARIABLES
    config,      \* MaxRetries + 1 tries; sweeps of the health checker, {} when
                 \* HealthCheckInterval is 0; whether somebody shuts the pool down;
                 \* whether errors of the application may read like the transport's;
                 \* bounds: starts that fail or time out, processes started
    slot,        \* slot[i]: the handle in p.workers[i]
    idOf,        \* idOf[h]: handle.id, the slot h was started for
    proc,        \* proc[h]: state of h's worker process
    healthy,     \* healthy[h]: the healthy flag
    restarting,  \* restarting[h]: the CAS guard
    chan,        \* chan[h]: restartDone is published
    nextHandle,  \* the next handle to be created
    fails,       \* number of starts that failed
    reaping,     \* handles whose start was given up on, left to a reaper
    served,      \* handles that ever had their slot (history)
    gpc, gh, gnew,  \* restart goroutines: program counter, failed, newHandle
    tracked,     \* tracked[g]: registered with restartWG and restartPending
    restartMu,   \* holder of p.restartMu across steps, or None
    closed,      \* p.closed
    stop,        \* p.done, p.drainCh are closed and p.shutdownCtx is cancelled
    chans,       \* chans[r]: handles whose open restartDone request r holds
    fired,       \* fired[r]: one of those channels was closed since
    spawned      \* spawned[r]: the restart goroutine r started itself

slotVars      == <<slot, served>>
handleVars    == <<slotVars, idOf, proc, healthy, restarting, chan, nextHandle, fails, reaping>>
goroutineVars == <<gpc, gh, gnew, tracked>>
closeVars     == <<restartMu, closed, stop>>
waitVars      == <<chans, fired, spawned>>

\* "booting" and "up" processes run; a "broken" one runs or died by itself, and
\* fails whatever it is asked; "none" was never started.
ProcStates == {"none", "booting", "up", "broken", "killed"}
GoLabels   == {"idle", "check", "cas", "wait", "publish", "recheck", "spawn", "starting",
               "failed", "install", "killNew", "killOld", "finish", "exit"}

RestartTypeOK ==
    /\ slot \in [Slots -> Handles]
    /\ idOf \in [Handles -> Slots \cup {None}]
    /\ proc \in [Handles -> ProcStates]
    /\ healthy \in [Handles -> BOOLEAN]
    /\ restarting \in [Handles -> BOOLEAN]
    /\ chan \in [Handles -> BOOLEAN]
    /\ nextHandle \in 1..(MaxHandles + 1) /\ fails \in Nat
    /\ reaping \subseteq Handles /\ served \subseteq Handles
    /\ gpc \in [Goroutines -> GoLabels]
    /\ gh \in [Goroutines -> Handles \cup {None}]
    /\ gnew \in [Goroutines -> Handles \cup {None}]
    /\ tracked \in [Goroutines -> BOOLEAN]
    /\ restartMu \in Requests \cup {"checker", None}
    /\ closed \in BOOLEAN /\ stop \in BOOLEAN
    /\ chans \in [Requests -> SUBSET Handles]
    /\ fired \in [Requests -> BOOLEAN]
    /\ spawned \in [Requests -> Goroutines \cup {None}]

\* New: one worker per slot, all healthy.
RestartInit ==
    /\ slot = [i \in Slots |-> i]
    /\ idOf = [h \in Handles |-> IF h \in Slots THEN h ELSE None]
    /\ proc = [h \in Handles |-> IF h \in Slots THEN "up" ELSE "none"]
    /\ healthy = [h \in Handles |-> h \in Slots]
    /\ restarting = [h \in Handles |-> FALSE]
    /\ chan = [h \in Handles |-> FALSE]
    /\ nextHandle = PoolSize + 1 /\ fails = 0 /\ reaping = {} /\ served = Slots
    /\ gpc = [g \in Goroutines |-> "idle"]
    /\ gh = [g \in Goroutines |-> None] /\ gnew = [g \in Goroutines |-> None]
    /\ tracked = [g \in Goroutines |-> FALSE]
    /\ restartMu = None /\ closed = FALSE /\ stop = FALSE
    /\ chans = [r \in Requests |-> {}] /\ fired = [r \in Requests |-> FALSE]
    /\ spawned = [r \in Requests |-> None]

----------------------------------------------------------------------------
\* workerSnapshot
SlotHandles == {slot[i] : i \in Slots}

\* handle.restartPending > 0: a dispatched goroutine has not returned.
Pending(h) == \E g \in Goroutines : tracked[g] /\ gh[g] = h

\* snapshotRestartState, under handle.restartMu.
RestartVisible(h) == chan[h] \/ restarting[h] \/ Pending(h)

\* The worker process dies or wedges by itself.
WorkerBreaks(h) ==
    /\ proc[h] = "up"
    /\ proc' = [proc EXCEPT ![h] = "broken"]
    /\ UNCHANGED <<slotVars, idOf, healthy, restarting, chan, nextHandle, fails, reaping,
                   goroutineVars, closeVars, waitVars>>

\* handle.kill(), idempotent.
Kill(h) == proc' = [proc EXCEPT ![h] = "killed"]

\* A goroutine running restartWorker(h.id, h) is started; one started by
\* dispatchRestart is registered with restartWG and restartPending first.
GoRestart(g, h, registered) ==
    /\ gpc[g] = "idle"
    /\ gpc' = [gpc EXCEPT ![g] = "check"]
    /\ gh' = [gh EXCEPT ![g] = h]
    /\ tracked' = [tracked EXCEPT ![g] = registered]
    /\ UNCHANGED gnew

----------------------------------------------------------------------------
(* restartWorker(id, failed) in goroutine g, failed = gh[g] *)

GoStep(g, from, to) == gpc[g] = from /\ gpc' = [gpc EXCEPT ![g] = to]

\* Mutant: workers are told apart by their id, which a replacement inherits.
SameId(h) == idOf[slot[idOf[h]]] = idOf[h]

\* failed is still the handle in its slot.
InSlot(h) == slot[idOf[h]] = h

\* The early stale-handle check, under p.mu.
EarlyCheck(g) ==
    /\ GoStep(g, "check", IF InSlot(gh[g]) THEN "cas" ELSE "exit")
    /\ UNCHANGED <<handleVars, gh, gnew, tracked, closeVars, waitVars>>

\* restarting.CompareAndSwap(false, true) would succeed.
CanSwapRestarting(h) == ~ restarting[h]

CompareAndSwap(g) ==
    /\ GoStep(g, "cas", IF CanSwapRestarting(gh[g]) THEN "publish" ELSE "wait")
    /\ restarting' = [restarting EXCEPT ![gh[g]] = TRUE]
    /\ UNCHANGED <<slotVars, idOf, proc, healthy, chan, nextHandle, fails, reaping, gh, gnew,
                   tracked, closeVars, waitVars>>

\* The loser of the CAS waits on restartCond.
CondWait(g) ==
    /\ GoStep(g, "wait", "exit")
    /\ ~ restarting[gh[g]]
    /\ UNCHANGED <<handleVars, gh, gnew, tracked, closeVars, waitVars>>

\* restartDone = make(chan struct{})
PublishChannel(g) ==
    /\ GoStep(g, "publish", "recheck")
    /\ chan' = [chan EXCEPT ![gh[g]] = TRUE]
    /\ UNCHANGED <<slotVars, idOf, proc, healthy, restarting, nextHandle, fails, reaping, gh,
                   gnew, tracked, closeVars, waitVars>>

\* Double-check after winning the CAS.
Recheck(g) ==
    /\ GoStep(g, "recheck", IF InSlot(gh[g]) /\ ~ closed THEN "spawn" ELSE "finish")
    /\ UNCHANGED <<handleVars, gh, gnew, tracked, closeVars, waitVars>>

----------------------------------------------------------------------------
(* startWorkerWithStop(id, p.done) *)

\* stop is already closed: errWorkerStartAborted.
SpawnAborted(g) ==
    /\ GoStep(g, "spawn", "finish") /\ stop
    /\ UNCHANGED <<handleVars, gh, gnew, tracked, closeVars, waitVars>>

\* The process is created and its handshake runs in a goroutine of its own.
SpawnWorker(g) ==
    /\ GoStep(g, "spawn", "starting") /\ ~ stop
    /\ nextHandle <= config.handles
    /\ proc' = [proc EXCEPT ![nextHandle] = "booting"]
    /\ idOf' = [idOf EXCEPT ![nextHandle] = idOf[gh[g]]]
    /\ gnew' = [gnew EXCEPT ![g] = nextHandle]
    /\ nextHandle' = nextHandle + 1
    /\ UNCHANGED <<slotVars, healthy, restarting, chan, fails, reaping, gh, tracked, closeVars,
                   waitVars>>

\* No process can be created (and, at the bound, none any more).
SpawnFails(g) ==
    /\ GoStep(g, "spawn", "failed") /\ ~ stop
    /\ fails < config.fails \/ nextHandle > config.handles
    /\ fails' = IF fails < config.fails THEN fails + 1 ELSE fails
    /\ UNCHANGED <<slotVars, idOf, proc, healthy, restarting, chan, nextHandle, reaping, gh,
                   gnew, tracked, closeVars, waitVars>>

StartSucceeds(g) ==
    /\ GoStep(g, "starting", "install")
    /\ proc' = [proc EXCEPT ![gnew[g]] = "up"]
    /\ healthy' = [healthy EXCEPT ![gnew[g]] = TRUE]
    /\ UNCHANGED <<slotVars, idOf, restarting, chan, nextHandle, fails, reaping, gh, gnew,
                   tracked, closeVars, waitVars>>

\* The handshake fails: finishWorkerStartup kills the process.
StartFails(g) ==
    /\ GoStep(g, "starting", "failed") /\ fails < config.fails
    /\ Kill(gnew[g])
    /\ gnew' = [gnew EXCEPT ![g] = None]
    /\ fails' = fails + 1
    /\ UNCHANGED <<slotVars, idOf, healthy, restarting, chan, nextHandle, reaping, gh, tracked,
                   closeVars, waitVars>>

\* client.Kill() on a start that is given up on: ends the process, unless
\* client.Client() has yet to launch it.
ClientKill(h) == Kill(h) \/ UNCHANGED proc

\* Mutant: a start that was given up on is forgotten.
NoReaper(h) == reaping

\* go reapWorkerStartResult(resultCh)
LeaveToReaper(h) == reaping \cup {h}

StartTimesOut(g) ==
    /\ GoStep(g, "starting", "failed") /\ fails < config.fails
    /\ ClientKill(gnew[g]) /\ reaping' = LeaveToReaper(gnew[g])
    /\ gnew' = [gnew EXCEPT ![g] = None]
    /\ fails' = fails + 1
    /\ UNCHANGED <<slotVars, idOf, healthy, restarting, chan, nextHandle, gh, tracked,
                   closeVars, waitVars>>

StartAborted(g) ==
    /\ GoStep(g, "starting", "finish") /\ stop
    /\ ClientKill(gnew[g]) /\ reaping' = LeaveToReaper(gnew[g])
    /\ gnew' = [gnew EXCEPT ![g] = None]
    /\ UNCHANGED <<slotVars, idOf, healthy, restarting, chan, nextHandle, fails, gh,
                   tracked, closeVars, waitVars>>

\* The late result arrives, if at all with a handle, and is killed.
Reap(h) ==
    /\ h \in reaping
    /\ reaping' = reaping \ {h}
    /\ Kill(h)
    /\ UNCHANGED <<slotVars, idOf, healthy, restarting, chan, nextHandle, fails, goroutineVars,
                   closeVars, waitVars>>

----------------------------------------------------------------------------
\* The start failed: unless the pool is closed, the old worker is marked
\* unhealthy if it still has the slot, and killed.
StartFailed(g) ==
    /\ GoStep(g, "failed", IF closed THEN "finish" ELSE "killOld")
    /\ healthy' = IF ~ closed /\ InSlot(gh[g])
                  THEN [healthy EXCEPT ![gh[g]] = FALSE] ELSE healthy
    /\ UNCHANGED <<slotVars, idOf, proc, restarting, chan, nextHandle, fails, reaping, gh, gnew,
                   tracked, closeVars, waitVars>>

\* Mutant: the pool may have closed while the replacement was starting.
MayInstallAlways(h) == InSlot(h)

\* The checks of the hot swap, under p.mu.
MayInstall(h) == ~ closed /\ InSlot(h)

\* Under p.mu: swap the slot, or find out that the replacement is not wanted.
HotSwap(g) ==
    /\ GoStep(g, "install", IF MayInstall(gh[g]) THEN "killOld" ELSE "killNew")
    /\ slot' = IF MayInstall(gh[g]) THEN [slot EXCEPT ![idOf[gh[g]]] = gnew[g]] ELSE slot
    /\ served' = IF MayInstall(gh[g]) THEN served \cup {gnew[g]} ELSE served
    /\ gnew' = [gnew EXCEPT ![g] = IF MayInstall(gh[g]) THEN None ELSE @]
    /\ UNCHANGED <<idOf, proc, healthy, restarting, chan, nextHandle, fails, reaping, gh,
                   tracked, closeVars, waitVars>>

KillOld(g) ==
    /\ GoStep(g, "killOld", "finish")
    /\ Kill(gh[g])
    /\ UNCHANGED <<slotVars, idOf, healthy, restarting, chan, nextHandle, fails, reaping, gh,
                   gnew, tracked, closeVars, waitVars>>

KillNew(g) ==
    /\ GoStep(g, "killNew", "finish")
    /\ Kill(gnew[g])
    /\ gnew' = [gnew EXCEPT ![g] = None]
    /\ UNCHANGED <<slotVars, idOf, healthy, restarting, chan, nextHandle, fails, reaping, gh,
                   tracked, closeVars, waitVars>>

\* Mutant: the guard is cleared, the channel stays open.
NotifyNobody(h) == UNCHANGED <<chans, fired>>

\* close(restartDone): every request that holds the channel can proceed.
Notify(h) ==
    /\ fired' = [r \in Requests |-> fired[r] \/ h \in chans[r]]
    /\ chans' = [r \in Requests |-> chans[r] \ {h}]

\* The deferred finishRestart, under handle.restartMu.
FinishRestart(g) ==
    /\ GoStep(g, "finish", "exit")
    /\ restarting' = [restarting EXCEPT ![gh[g]] = FALSE]
    /\ chan' = [chan EXCEPT ![gh[g]] = FALSE]
    /\ Notify(gh[g])
    /\ UNCHANGED <<slotVars, idOf, proc, healthy, nextHandle, fails, reaping, gh, gnew, tracked,
                   closeVars, spawned>>

\* The goroutine returns: restartPending.Add(-1) and restartWG.Done() for a
\* dispatched one, close(done) for one that awaitRestart started.
GoExit(g) ==
    /\ GoStep(g, "exit", "idle")
    /\ gh' = [gh EXCEPT ![g] = None]
    /\ tracked' = [tracked EXCEPT ![g] = FALSE]
    /\ spawned' = [r \in Requests |-> IF spawned[r] = g THEN None ELSE spawned[r]]
    /\ UNCHANGED <<handleVars, gnew, closeVars, chans, fired>>

----------------------------------------------------------------------------
RestartStep(g) ==
    \/ EarlyCheck(g) \/ CompareAndSwap(g) \/ CondWait(g) \/ PublishChannel(g) \/ Recheck(g)
    \/ SpawnAborted(g) \/ SpawnWorker(g) \/ SpawnFails(g) \/ StartSucceeds(g)
    \/ StartFails(g) \/ StartTimesOut(g) \/ StartAborted(g) \/ StartFailed(g) \/ HotSwap(g)
    \/ KillOld(g) \/ KillNew(g) \/ FinishRestart(g) \/ GoExit(g)
=============================================================================
