---------------------------- MODULE MCWorkerPool ----------------------------
(* Model-checking instance of WorkerPool. *)
EXTENDS WorkerPool, TLC

Config(n, kinds, down, texts, bad, procs) ==
    [tries |-> n, sweeps |-> kinds, closes |-> down, misreads |-> texts, fails |-> bad,
     handles |-> procs]

\* The configurations of the runs, named after them.  Errors that are misread belong
\* to CheckerConfigs.
TwoSlotsConfigs == {Config(2, {}, FALSE, FALSE, 0, 3)}
UntrackedConfigs == {Config(2, {}, TRUE, FALSE, 1, 2)}

\* A health checker and somebody who closes the pool; and a slot whose worker is
\* replaced twice.
CheckerConfigs ==
    {Config(1, {"health", "hung"}, TRUE, TRUE, 1, 2), Config(2, {}, FALSE, TRUE, 0, 3)}

\* A request that waits and retries against Shutdown and Close, with starts that
\* fail and no health checker; and a health checker with nobody closing the pool.
LivenessConfigs ==
    {Config(2, {}, TRUE, FALSE, 1, 2), Config(1, {"health"}, FALSE, FALSE, 0, 2)}

\* Requests are interchangeable, and so are restart goroutines.
ActorSymmetry == Permutations(Requests) \cup Permutations(Goroutines)
=============================================================================
