-------------------------- MODULE WorkerPoolProofs --------------------------
(***************************************************************************)
(* Proofs about the pool for every number of slots, requests, restart      *)
(* goroutines and worker starts, and every configuration.                  *)
(***************************************************************************)
EXTENDS WorkerPool, FiniteSetTheorems, TLAPS

----------------------------------------------------------------------------
(* The inductive invariant, part by part *)

\* A request that was admitted and has not ended (p.logicalInFlight counts them).
Active == {r \in Requests : rpc[r] \notin {"before", "ended"}}

\* The counter is exact, and a pool seen drained admits nobody any more.
Admission ==
    /\ IsFiniteSet(Active) /\ inFlight = Cardinality(Active)
    /\ cpc = "draining" => draining
    /\ graceful => draining /\ Active = {}

\* Whoever is between dispatchRestart's check and its Add holds p.restartMu, so
\* nobody is once Close went through the barrier.
Barriers ==
    /\ closed <=> cpc \in {"signal", "barrier", "killing", "returned"}
    /\ \A r \in Requests : rpc[r] = "adding" => restartMu = r
    /\ hpc = "adding" => restartMu = "checker"
    /\ cpc \in {"killing", "returned"} => restartMu = None
    /\ cpc = "returned" => hpc = "exited" /\ \A g \in Goroutines : ~ tracked[g]

\* The labels of a goroutine between winning the CAS and finishRestart.
GuardLabels == {"publish", "recheck", "spawn", "starting", "failed", "install", "killNew",
                "killOld", "finish"}

\* g won the CAS and has not returned from finishRestart.
Inside(g) == gpc[g] \in GuardLabels

\* The handle's restarting flag is a lock, and a published channel has a closer.
GuardHeld ==
    /\ \A g \in Goroutines : Inside(g) => restarting[gh[g]]
    /\ \A g, d \in Goroutines : Inside(g) /\ Inside(d) /\ gh[g] = gh[d] => g = d
    /\ \A h \in Handles : chan[h] =>
            \E g \in Goroutines : gh[g] = h /\ Inside(g) /\ gpc[g] # "publish"

\* Labels of the checker at which it has a handle in its hands.
LookLabels == {"probedUp", "setHealthy", "probedDown", "unhealthy", "confirm", "killing",
               "dispatch", "adding"}

\* Requests, restarts, the checker and Close only ever handle workers that had a slot.
ServedPlaces ==
    /\ SlotHandles \subseteq served
    /\ \A h \in served : idOf[h] \in Slots /\ proc[h] \notin {"none", "booting"}
    /\ \A g \in Goroutines : gpc[g] # "idle" => gh[g] \in served
    /\ \A r \in Requests :
        /\ rpc[r] \in {"call", "failed", "adding", "next"} => rh[r] \in served
        /\ lastFailed[r] # None => lastFailed[r] \in served
        /\ rpc[r] \in {"await", "onChan", "onSpawn"} => lastFailed[r] # None
    /\ hpc \in LookLabels => hh \in served
    /\ hpc = "confirm" => hreq \in Requests
    /\ todo \subseteq served /\ ckill \subseteq served

\* A worker being started belongs to one goroutine and is new to everybody else.
Newborn ==
    /\ \A g \in Goroutines : gpc[g] \in {"starting", "install", "killNew"} <=> gnew[g] # None
    /\ \A g \in Goroutines : gnew[g] # None =>
            /\ gnew[g] \notin served \cup reaping
            /\ gnew[g] < nextHandle /\ idOf[gnew[g]] \in Slots
    /\ \A g, d \in Goroutines : gnew[g] # None /\ gnew[g] = gnew[d] => g = d
    /\ reaping \cap served = {} /\ \A h \in served \cup reaping : h < nextHandle
    /\ \A h \in Handles : h >= nextHandle => proc[h] = "none"
    /\ \A g \in Goroutines : gpc[g] = "install" => proc[gnew[g]] \in {"up", "broken"}

\* There is a reason to replace the worker.
Bad(h) == closed \/ h \in suspect

\* Whoever is going to kill a worker that had its slot has a reason.
Blamed ==
    /\ \A h \in Handles : proc[h] = "broken" => h \in suspect
    /\ \A h \in served : proc[h] = "killed" => Bad(h)
    /\ \A g \in Goroutines : gpc[g] # "idle" => Bad(gh[g])
    /\ \A r \in Requests :
        /\ rpc[r] \in {"failed", "adding", "next"} => Bad(rh[r])
        /\ lastFailed[r] # None => Bad(lastFailed[r])
    /\ hpc \in {"probedDown", "unhealthy", "killing", "dispatch", "adding"} => Bad(hh)

\* A replacement was started for the slot of the worker it replaces.
StartedForSlot == \A g \in Goroutines : gnew[g] # None => idOf[gnew[g]] = idOf[gh[g]]

\* What every reachable state satisfies.
PoolInv == /\ TypeOK /\ Admission /\ Barriers /\ GuardHeld /\ ServedPlaces /\ Newborn
           /\ StartedForSlot /\ Blamed /\ NoLeakedWorker /\ NoLostWakeup

\* The workers in the slots, and the healthy ones among them, are handles.
LEMMA SlotsAreHandles == ASSUME TypeOK PROVE SlotHandles \subseteq Handles /\ HealthyWorkers \subseteq Handles
  BY DEF SlotHandles, HealthyWorkers, TypeOK, RestartTypeOK

\* What a configuration of the pool may be, see ConfigAssumption.
LEMMA ConfigBounds ==
  ASSUME TypeOK
  PROVE  /\ config.tries \in Nat \ {0} /\ config.handles \in 1..MaxHandles
         /\ config.handles <= MaxHandles
  BY ConfigAssumption, RestartAssumption DEF TypeOK

\* A process that may be started has a handle.
LEMMA NextIsHandle ==
  ASSUME TypeOK, nextHandle <= config.handles
  PROVE  /\ nextHandle \in Handles /\ nextHandle \in Nat /\ nextHandle <= MaxHandles
         /\ None \notin Handles /\ \A e \in Handles : e \in Nat
  <1>1. nextHandle \in 1..(MaxHandles + 1)
    BY DEF TypeOK, RestartTypeOK
  <1> QED
    BY <1>1, ConfigBounds, RestartAssumption DEF Handles

\* The counter can go down while a request is active.
LEMMA CountPositive ==
  ASSUME Admission, NEW r \in Active
  PROVE  inFlight \in Nat /\ inFlight - 1 \in Nat
  <1>1. Cardinality(Active) \in Nat /\ Cardinality(Active) # 0
    BY FS_CardinalityType, FS_EmptySet DEF Admission
  <1> QED
    BY <1>1 DEF Admission

\* A step of an active request keeps the count: it stays active, or it ends and done()
\* runs.
LEMMA CountKept ==
  ASSUME TypeOK, Admission, UNCHANGED <<cpc, draining, graceful>>,
         NEW r \in Active, NEW l \in RequestLabels, rpc' = [rpc EXCEPT ![r] = l],
         \/ l \notin {"before", "ended"} /\ inFlight' = inFlight
         \/ l = "ended" /\ inFlight' = inFlight - 1
  PROVE  Admission'
  <1>1. CASE l \notin {"before", "ended"} /\ inFlight' = inFlight
    <2>1. Active' = Active
      BY <1>1 DEF Active, TypeOK
    <2> QED
      BY <1>1, <2>1 DEF Admission
  <1>2. CASE l = "ended" /\ inFlight' = inFlight - 1
    <2>1. Active' = Active \ {r}
      BY <1>2 DEF Active, TypeOK
    <2>2. IsFiniteSet(Active') /\ Cardinality(Active') = Cardinality(Active) - 1
      BY <2>1, FS_RemoveElement DEF Admission
    <2> QED
      BY <1>2, <2>1, <2>2 DEF Admission
  <1> QED
    BY <1>1, <1>2

\* What getWorkerForRetry and the waits behind it make of a request.
LEMMA FetchRow ==
  ASSUME TypeOK, NEW r \in Requests,
         GetWorker(r) \/ Refetch(r) \/ AnyNil(r) \/ AnyErr(r) \/ WaitAborted(r)
  PROVE  /\ \A q \in Requests \ {r} : rpc'[q] = rpc[q] /\ rh'[q] = rh[q] /\ lastFailed'[q] = lastFailed[q]
         /\ \/ rpc'[r] = "ended" /\ lastFailed'[r] = None
            \/ rpc'[r] = "call" /\ rh'[r] \in HealthyWorkers /\ lastFailed'[r] = lastFailed[r]
            \/ rpc'[r] = "await" /\ lastFailed[r] # None /\ lastFailed'[r] = lastFailed[r]
            \/ rpc'[r] = "awaitAny" /\ lastFailed'[r] = lastFailed[r]
         /\ UNCHANGED <<slot, served, idOf, proc, gpc, gh, hpc, hh, hreq, todo, ckill, suspect, closed>>
  <1>1. None \notin HealthyWorkers
    BY SlotsAreHandles, RestartAssumption DEF Handles
  <1>2. UNCHANGED <<slot, served, idOf, proc, gpc, gh, hpc, hh, hreq, todo, ckill, suspect, closed>>
    BY DEF GetWorker, Refetch, AnyNil, AnyErr, WaitAborted, handleVars, slotVars, goroutineVars, closeVars,
       checkerVars, shutdownVars
  <1>3. \/ \E how : End(r, how)
        \/ \E h \in HealthyWorkers : BeginAttempt(r, h)
        \/ \E l \in {"await", "awaitAny"} :
              /\ rpc' = [rpc EXCEPT ![r] = l] /\ UNCHANGED <<rh, lastFailed>>
              /\ l = "await" => lastFailed[r] # None
    BY <1>1 DEF GetWorker, Refetch, AnyNil, AnyErr, WaitAborted
  <1>4. ASSUME NEW how, End(r, how)
        PROVE  /\ \A q \in Requests \ {r} : rpc'[q] = rpc[q] /\ rh'[q] = rh[q] /\ lastFailed'[q] = lastFailed[q]
               /\ rpc'[r] = "ended" /\ lastFailed'[r] = None
    BY <1>4 DEF End, TypeOK
  <1>5. ASSUME NEW h \in HealthyWorkers, BeginAttempt(r, h)
        PROVE  /\ \A q \in Requests \ {r} : rpc'[q] = rpc[q] /\ rh'[q] = rh[q] /\ lastFailed'[q] = lastFailed[q]
               /\ rpc'[r] = "call" /\ rh'[r] \in HealthyWorkers /\ lastFailed'[r] = lastFailed[r]
    BY <1>5 DEF BeginAttempt, TypeOK
  <1>6. ASSUME NEW l \in {"await", "awaitAny"}, rpc' = [rpc EXCEPT ![r] = l], UNCHANGED <<rh, lastFailed>>
        PROVE  /\ \A q \in Requests \ {r} : rpc'[q] = rpc[q] /\ rh'[q] = rh[q] /\ lastFailed'[q] = lastFailed[q]
               /\ rpc'[r] = l /\ lastFailed'[r] = lastFailed[r]
    BY <1>6 DEF TypeOK
  <1> QED
    BY <1>2, <1>3, <1>4, <1>5, <1>6

\* The end of an attempt: over, or another one after the worker it failed on.
LEMMA NextRow ==
  ASSUME TypeOK, NEW r \in Requests, NextAttempt(r)
  PROVE  /\ \A q \in Requests \ {r} : rpc'[q] = rpc[q] /\ rh'[q] = rh[q] /\ lastFailed'[q] = lastFailed[q]
         /\ rpc[r] = "next"
         /\ \/ rpc'[r] = "ended" /\ lastFailed'[r] = None
            \/ rpc'[r] = "get" /\ lastFailed'[r] = rh[r]
         /\ UNCHANGED <<slot, served, idOf, proc, gpc, gh, hpc, hh, hreq, todo, ckill, suspect, closed>>
  <1>1. UNCHANGED <<slot, served, idOf, proc, gpc, gh, hpc, hh, hreq, todo, ckill, suspect, closed>>
    BY DEF NextAttempt, handleVars, slotVars, goroutineVars, closeVars, checkerVars, shutdownVars
  <1>2. CASE \E how : End(r, how)
    BY <1>1, <1>2 DEF NextAttempt, End, TypeOK
  <1>3. CASE /\ rpc' = [rpc EXCEPT ![r] = "get"] /\ lastFailed' = [lastFailed EXCEPT ![r] = rh[r]]
             /\ rh' = [rh EXCEPT ![r] = None]
    BY <1>1, <1>3 DEF NextAttempt, TypeOK
  <1> QED
    BY <1>2, <1>3 DEF NextAttempt


\* Every step keeps the type invariant, action by action.
LEMMA TypeStep ==
  ASSUME TypeOK, Admission, ServedPlaces, Newborn, [Next]_vars
  PROVE  TypeOK'
  <1> USE RestartAssumption DEF slotVars, handleVars, goroutineVars, closeVars, waitVars, requestVars, checkerVars, shutdownVars, poolFrame, closeFrame
  <1>1. ASSUME NEW r \in Requests, BeginRequest(r) PROVE TypeOK'
    <2>1. rpc' \in [Requests -> RequestLabels]
      <3>1. \E x \in RequestLabels : rpc' = [rpc EXCEPT ![r] = x] \/ rpc' = rpc
        BY <1>1 DEF BeginRequest, ReqStep, RequestLabels
      <3> QED
        BY <3>1 DEF TypeOK, RestartTypeOK
    <2>2. tries' \in [Requests -> 0..config.tries]
      BY ConfigBounds, <1>1 DEF BeginRequest, ReqStep, TypeOK, RestartTypeOK
    <2>3. outcome' \in [Requests -> Outcomes]
      BY <1>1 DEF BeginRequest, ReqStep, Outcomes, TypeOK, RestartTypeOK
    <2>4. inFlight' \in Nat
      BY <1>1 DEF BeginRequest, ReqStep, TypeOK, RestartTypeOK
    <2>5. UNCHANGED <<slot, served, idOf, proc, healthy, restarting, chan, nextHandle, fails, reaping, gpc, gh, gnew, tracked, restartMu, closed, stop, chans, fired, spawned, rh, lastFailed, saw, seen, yielded, first, cancelled, hpc, hsweep, todo, hh, hreq, htry, draining, cpc, ckill, graceful, suspect, config>>
      BY <1>1 DEF BeginRequest, ReqStep
    <2> QED
      BY <2>1, <2>2, <2>3, <2>4, <2>5 DEF TypeOK, RestartTypeOK
  <1>2. ASSUME NEW r \in Requests, CallerCancels(r) PROVE TypeOK'
    <2>1. cancelled' \in [Requests -> BOOLEAN]
      BY <1>2 DEF CallerCancels, TypeOK, RestartTypeOK
    <2>2. UNCHANGED <<slot, served, idOf, proc, healthy, restarting, chan, nextHandle, fails, reaping, gpc, gh, gnew, tracked, restartMu, closed, stop, chans, fired, spawned, rpc, rh, lastFailed, tries, saw, seen, yielded, first, outcome, inFlight, hpc, hsweep, todo, hh, hreq, htry, draining, cpc, ckill, graceful, suspect, config>>
      BY <1>2 DEF CallerCancels
    <2> QED
      BY <2>1, <2>2 DEF TypeOK, RestartTypeOK
  <1>3. ASSUME NEW r \in Requests, GetWorker(r) PROVE TypeOK'
    <2>1. chans' \in [Requests -> SUBSET Handles]
      BY <1>3 DEF GetWorker, End, BeginAttempt, ResetWait, TypeOK, RestartTypeOK
    <2>2. fired' \in [Requests -> BOOLEAN]
      BY <1>3 DEF GetWorker, End, BeginAttempt, ResetWait, TypeOK, RestartTypeOK
    <2>3. spawned' \in [Requests -> Goroutines \cup {None}]
      BY <1>3 DEF GetWorker, End, BeginAttempt, ResetWait, TypeOK, RestartTypeOK
    <2>4. rpc' \in [Requests -> RequestLabels]
      <3>1. \E x \in RequestLabels : rpc' = [rpc EXCEPT ![r] = x] \/ rpc' = rpc
        BY <1>3 DEF GetWorker, End, BeginAttempt, ResetWait, RequestLabels
      <3> QED
        BY <3>1 DEF TypeOK, RestartTypeOK
    <2>5. rh' \in [Requests -> Handles \cup {None}]
      <3>1. \E x \in Handles \cup {None} : rh' = [rh EXCEPT ![r] = x] \/ rh' = rh
        BY <1>3, SlotsAreHandles DEF GetWorker, End, BeginAttempt, ResetWait
      <3> QED
        BY <3>1 DEF TypeOK, RestartTypeOK
    <2>6. lastFailed' \in [Requests -> Handles \cup {None}]
      BY <1>3 DEF GetWorker, End, BeginAttempt, ResetWait, TypeOK, RestartTypeOK
    <2>7. tries' \in [Requests -> 0..config.tries]
      <3>1. tries' = tries \/ tries' = [tries EXCEPT ![r] = 0]
        BY <1>3 DEF GetWorker, End, BeginAttempt, ResetWait
      <3>2. config' = config /\ config.tries \in Nat
        BY ConfigBounds, <1>3 DEF GetWorker, TypeOK
      <3> QED
        BY <3>1, <3>2 DEF TypeOK
    <2>8. saw' \in [Requests -> BOOLEAN]
      BY <1>3 DEF GetWorker, End, BeginAttempt, ResetWait, TypeOK, RestartTypeOK
    <2>9. seen' \in [Requests -> SUBSET Handles]
      BY <1>3 DEF GetWorker, End, BeginAttempt, ResetWait, TypeOK, RestartTypeOK
    <2>10. yielded' \in [Requests -> BOOLEAN]
      BY <1>3 DEF GetWorker, End, BeginAttempt, ResetWait, TypeOK, RestartTypeOK
    <2>11. first' \in [Requests -> BOOLEAN]
      BY <1>3 DEF GetWorker, End, BeginAttempt, ResetWait, TypeOK, RestartTypeOK
    <2>12. cancelled' \in [Requests -> BOOLEAN]
      BY <1>3 DEF GetWorker, End, BeginAttempt, ResetWait, TypeOK, RestartTypeOK
    <2>13. outcome' \in [Requests -> Outcomes]
      <3>1. \E x \in Outcomes : outcome' = [outcome EXCEPT ![r] = x] \/ outcome' = outcome
        BY <1>3 DEF GetWorker, End, BeginAttempt, ResetWait, Outcomes
      <3> QED
        BY <3>1 DEF TypeOK, RestartTypeOK
    <2>14. inFlight' \in Nat
      <3>1. r \in Active
        BY <1>3 DEF GetWorker, Active, Waiting
      <3> QED
        BY <1>3, <3>1, CountPositive DEF GetWorker, End, BeginAttempt, ResetWait
    <2>15. UNCHANGED <<slot, served, idOf, proc, healthy, restarting, chan, nextHandle, fails, reaping, gpc, gh, gnew, tracked, restartMu, closed, stop, hpc, hsweep, todo, hh, hreq, htry, draining, cpc, ckill, graceful, suspect, config>>
      BY <1>3 DEF GetWorker, End, BeginAttempt, ResetWait
    <2> QED
      BY <2>1, <2>2, <2>3, <2>4, <2>5, <2>6, <2>7, <2>8, <2>9, <2>10, <2>11, <2>12, <2>13, <2>14, <2>15 DEF TypeOK, RestartTypeOK
  <1>4. ASSUME NEW r \in Requests, Refetch(r) PROVE TypeOK'
    <2>1. chans' \in [Requests -> SUBSET Handles]
      BY <1>4 DEF Refetch, End, BeginAttempt, ResetWait, TypeOK, RestartTypeOK
    <2>2. fired' \in [Requests -> BOOLEAN]
      BY <1>4 DEF Refetch, End, BeginAttempt, ResetWait, TypeOK, RestartTypeOK
    <2>3. spawned' \in [Requests -> Goroutines \cup {None}]
      BY <1>4 DEF Refetch, End, BeginAttempt, ResetWait, TypeOK, RestartTypeOK
    <2>4. rpc' \in [Requests -> RequestLabels]
      <3>1. \E x \in RequestLabels : rpc' = [rpc EXCEPT ![r] = x] \/ rpc' = rpc
        BY <1>4 DEF Refetch, End, BeginAttempt, ResetWait, RequestLabels
      <3> QED
        BY <3>1 DEF TypeOK, RestartTypeOK
    <2>5. rh' \in [Requests -> Handles \cup {None}]
      <3>1. \E x \in Handles \cup {None} : rh' = [rh EXCEPT ![r] = x] \/ rh' = rh
        BY <1>4, SlotsAreHandles DEF Refetch, End, BeginAttempt, ResetWait
      <3> QED
        BY <3>1 DEF TypeOK, RestartTypeOK
    <2>6. lastFailed' \in [Requests -> Handles \cup {None}]
      BY <1>4 DEF Refetch, End, BeginAttempt, ResetWait, TypeOK, RestartTypeOK
    <2>7. tries' \in [Requests -> 0..config.tries]
      <3>1. tries' = tries \/ tries' = [tries EXCEPT ![r] = 0]
        BY <1>4 DEF Refetch, End, BeginAttempt, ResetWait
      <3>2. config' = config /\ config.tries \in Nat
        BY ConfigBounds, <1>4 DEF Refetch, TypeOK
      <3> QED
        BY <3>1, <3>2 DEF TypeOK
    <2>8. saw' \in [Requests -> BOOLEAN]
      BY <1>4 DEF Refetch, End, BeginAttempt, ResetWait, TypeOK, RestartTypeOK
    <2>9. seen' \in [Requests -> SUBSET Handles]
      BY <1>4 DEF Refetch, End, BeginAttempt, ResetWait, TypeOK, RestartTypeOK
    <2>10. yielded' \in [Requests -> BOOLEAN]
      BY <1>4 DEF Refetch, End, BeginAttempt, ResetWait, TypeOK, RestartTypeOK
    <2>11. first' \in [Requests -> BOOLEAN]
      BY <1>4 DEF Refetch, End, BeginAttempt, ResetWait, TypeOK, RestartTypeOK
    <2>12. cancelled' \in [Requests -> BOOLEAN]
      BY <1>4 DEF Refetch, End, BeginAttempt, ResetWait, TypeOK, RestartTypeOK
    <2>13. outcome' \in [Requests -> Outcomes]
      <3>1. \E x \in Outcomes : outcome' = [outcome EXCEPT ![r] = x] \/ outcome' = outcome
        BY <1>4 DEF Refetch, End, BeginAttempt, ResetWait, Outcomes
      <3> QED
        BY <3>1 DEF TypeOK, RestartTypeOK
    <2>14. inFlight' \in Nat
      <3>1. r \in Active
        BY <1>4 DEF Refetch, Active, Waiting
      <3> QED
        BY <1>4, <3>1, CountPositive DEF Refetch, End, BeginAttempt, ResetWait
    <2>15. UNCHANGED <<slot, served, idOf, proc, healthy, restarting, chan, nextHandle, fails, reaping, gpc, gh, gnew, tracked, restartMu, closed, stop, hpc, hsweep, todo, hh, hreq, htry, draining, cpc, ckill, graceful, suspect, config>>
      BY <1>4 DEF Refetch, End, BeginAttempt, ResetWait
    <2> QED
      BY <2>1, <2>2, <2>3, <2>4, <2>5, <2>6, <2>7, <2>8, <2>9, <2>10, <2>11, <2>12, <2>13, <2>14, <2>15 DEF TypeOK, RestartTypeOK
  <1>5. ASSUME NEW r \in Requests, AnyNil(r) PROVE TypeOK'
    <2>1. chans' \in [Requests -> SUBSET Handles]
      BY <1>5 DEF AnyNil, End, BeginAttempt, ResetWait, TypeOK, RestartTypeOK
    <2>2. fired' \in [Requests -> BOOLEAN]
      BY <1>5 DEF AnyNil, End, BeginAttempt, ResetWait, TypeOK, RestartTypeOK
    <2>3. spawned' \in [Requests -> Goroutines \cup {None}]
      BY <1>5 DEF AnyNil, End, BeginAttempt, ResetWait, TypeOK, RestartTypeOK
    <2>4. rpc' \in [Requests -> RequestLabels]
      <3>1. \E x \in RequestLabels : rpc' = [rpc EXCEPT ![r] = x] \/ rpc' = rpc
        BY <1>5 DEF AnyNil, End, BeginAttempt, ResetWait, RequestLabels
      <3> QED
        BY <3>1 DEF TypeOK, RestartTypeOK
    <2>5. rh' \in [Requests -> Handles \cup {None}]
      <3>1. \E x \in Handles \cup {None} : rh' = [rh EXCEPT ![r] = x] \/ rh' = rh
        BY <1>5, SlotsAreHandles DEF AnyNil, End, BeginAttempt, ResetWait
      <3> QED
        BY <3>1 DEF TypeOK, RestartTypeOK
    <2>6. lastFailed' \in [Requests -> Handles \cup {None}]
      BY <1>5 DEF AnyNil, End, BeginAttempt, ResetWait, TypeOK, RestartTypeOK
    <2>7. tries' \in [Requests -> 0..config.tries]
      <3>1. tries' = tries \/ tries' = [tries EXCEPT ![r] = 0]
        BY <1>5 DEF AnyNil, End, BeginAttempt, ResetWait
      <3>2. config' = config /\ config.tries \in Nat
        BY ConfigBounds, <1>5 DEF AnyNil, TypeOK
      <3> QED
        BY <3>1, <3>2 DEF TypeOK
    <2>8. saw' \in [Requests -> BOOLEAN]
      BY <1>5 DEF AnyNil, End, BeginAttempt, ResetWait, TypeOK, RestartTypeOK
    <2>9. seen' \in [Requests -> SUBSET Handles]
      BY <1>5 DEF AnyNil, End, BeginAttempt, ResetWait, TypeOK, RestartTypeOK
    <2>10. yielded' \in [Requests -> BOOLEAN]
      BY <1>5 DEF AnyNil, End, BeginAttempt, ResetWait, TypeOK, RestartTypeOK
    <2>11. first' \in [Requests -> BOOLEAN]
      BY <1>5 DEF AnyNil, End, BeginAttempt, ResetWait, TypeOK, RestartTypeOK
    <2>12. cancelled' \in [Requests -> BOOLEAN]
      BY <1>5 DEF AnyNil, End, BeginAttempt, ResetWait, TypeOK, RestartTypeOK
    <2>13. outcome' \in [Requests -> Outcomes]
      <3>1. \E x \in Outcomes : outcome' = [outcome EXCEPT ![r] = x] \/ outcome' = outcome
        BY <1>5 DEF AnyNil, End, BeginAttempt, ResetWait, Outcomes
      <3> QED
        BY <3>1 DEF TypeOK, RestartTypeOK
    <2>14. inFlight' \in Nat
      <3>1. r \in Active
        BY <1>5 DEF AnyNil, Active, Waiting
      <3> QED
        BY <1>5, <3>1, CountPositive DEF AnyNil, End, BeginAttempt, ResetWait
    <2>15. UNCHANGED <<slot, served, idOf, proc, healthy, restarting, chan, nextHandle, fails, reaping, gpc, gh, gnew, tracked, restartMu, closed, stop, hpc, hsweep, todo, hh, hreq, htry, draining, cpc, ckill, graceful, suspect, config>>
      BY <1>5 DEF AnyNil, End, BeginAttempt, ResetWait
    <2> QED
      BY <2>1, <2>2, <2>3, <2>4, <2>5, <2>6, <2>7, <2>8, <2>9, <2>10, <2>11, <2>12, <2>13, <2>14, <2>15 DEF TypeOK, RestartTypeOK
  <1>6. ASSUME NEW r \in Requests, AnyErr(r) PROVE TypeOK'
    <2>1. chans' \in [Requests -> SUBSET Handles]
      BY SMTT(40), <1>6 DEF AnyErr, End, BeginAttempt, ResetWait, TypeOK, RestartTypeOK
    <2>2. fired' \in [Requests -> BOOLEAN]
      BY SMTT(40), <1>6 DEF AnyErr, End, BeginAttempt, ResetWait, TypeOK, RestartTypeOK
    <2>3. spawned' \in [Requests -> Goroutines \cup {None}]
      BY SMTT(40), <1>6 DEF AnyErr, End, BeginAttempt, ResetWait, TypeOK, RestartTypeOK
    <2>4. rpc' \in [Requests -> RequestLabels]
      <3>1. \E x \in RequestLabels : rpc' = [rpc EXCEPT ![r] = x] \/ rpc' = rpc
        BY <1>6 DEF AnyErr, End, BeginAttempt, ResetWait, RequestLabels
      <3> QED
        BY <3>1 DEF TypeOK, RestartTypeOK
    <2>5. rh' \in [Requests -> Handles \cup {None}]
      <3>1. \E x \in Handles \cup {None} : rh' = [rh EXCEPT ![r] = x] \/ rh' = rh
        BY <1>6, SlotsAreHandles DEF AnyErr, End, BeginAttempt, ResetWait
      <3> QED
        BY <3>1 DEF TypeOK, RestartTypeOK
    <2>6. lastFailed' \in [Requests -> Handles \cup {None}]
      BY SMTT(40), <1>6 DEF AnyErr, End, BeginAttempt, ResetWait, TypeOK, RestartTypeOK
    <2>7. tries' \in [Requests -> 0..config.tries]
      <3>1. tries' = tries \/ tries' = [tries EXCEPT ![r] = 0]
        BY <1>6 DEF AnyErr, End, BeginAttempt, ResetWait
      <3>2. config' = config /\ config.tries \in Nat
        BY ConfigBounds, <1>6 DEF AnyErr, TypeOK
      <3> QED
        BY <3>1, <3>2 DEF TypeOK
    <2>8. saw' \in [Requests -> BOOLEAN]
      BY SMTT(40), <1>6 DEF AnyErr, End, BeginAttempt, ResetWait, TypeOK, RestartTypeOK
    <2>9. seen' \in [Requests -> SUBSET Handles]
      BY SMTT(40), <1>6 DEF AnyErr, End, BeginAttempt, ResetWait, TypeOK, RestartTypeOK
    <2>10. yielded' \in [Requests -> BOOLEAN]
      BY ZenonT(40), <1>6 DEF AnyErr, End, BeginAttempt, ResetWait, TypeOK, RestartTypeOK
    <2>11. first' \in [Requests -> BOOLEAN]
      BY ZenonT(40), <1>6 DEF AnyErr, End, BeginAttempt, ResetWait, TypeOK, RestartTypeOK
    <2>12. cancelled' \in [Requests -> BOOLEAN]
      BY ZenonT(40), <1>6 DEF AnyErr, End, BeginAttempt, ResetWait, TypeOK, RestartTypeOK
    <2>13. outcome' \in [Requests -> Outcomes]
      <3>1. \E x \in Outcomes : outcome' = [outcome EXCEPT ![r] = x] \/ outcome' = outcome
        BY <1>6 DEF AnyErr, End, BeginAttempt, ResetWait, Outcomes
      <3> QED
        BY <3>1 DEF TypeOK, RestartTypeOK
    <2>14. inFlight' \in Nat
      <3>1. r \in Active
        BY <1>6 DEF AnyErr, Active, Waiting
      <3> QED
        BY <1>6, <3>1, CountPositive DEF AnyErr, End, BeginAttempt, ResetWait
    <2>15. UNCHANGED <<slot, served, idOf, proc, healthy, restarting, chan, nextHandle, fails, reaping, gpc, gh, gnew, tracked, restartMu, closed, stop, hpc, hsweep, todo, hh, hreq, htry, draining, cpc, ckill, graceful, suspect, config>>
      BY <1>6 DEF AnyErr, End, BeginAttempt, ResetWait
    <2> QED
      BY <2>1, <2>2, <2>3, <2>4, <2>5, <2>6, <2>7, <2>8, <2>9, <2>10, <2>11, <2>12, <2>13, <2>14, <2>15 DEF TypeOK, RestartTypeOK
  <1>7. ASSUME NEW r \in Requests, WaitAborted(r) PROVE TypeOK'
    <2>1. chans' \in [Requests -> SUBSET Handles]
      BY <1>7 DEF WaitAborted, End, ResetWait, Waiting, TypeOK, RestartTypeOK
    <2>2. fired' \in [Requests -> BOOLEAN]
      BY <1>7 DEF WaitAborted, End, ResetWait, Waiting, TypeOK, RestartTypeOK
    <2>3. spawned' \in [Requests -> Goroutines \cup {None}]
      BY <1>7 DEF WaitAborted, End, ResetWait, Waiting, TypeOK, RestartTypeOK
    <2>4. rpc' \in [Requests -> RequestLabels]
      BY <1>7 DEF WaitAborted, End, ResetWait, Waiting, RequestLabels, TypeOK, RestartTypeOK
    <2>5. rh' \in [Requests -> Handles \cup {None}]
      BY <1>7 DEF WaitAborted, End, ResetWait, Waiting, TypeOK, RestartTypeOK
    <2>6. lastFailed' \in [Requests -> Handles \cup {None}]
      BY <1>7 DEF WaitAborted, End, ResetWait, Waiting, TypeOK, RestartTypeOK
    <2>7. tries' \in [Requests -> 0..config.tries]
      <3>1. tries' = tries \/ tries' = [tries EXCEPT ![r] = 0]
        BY <1>7 DEF WaitAborted, End, ResetWait, Waiting
      <3>2. config' = config /\ config.tries \in Nat
        BY ConfigBounds, <1>7 DEF WaitAborted, TypeOK
      <3> QED
        BY <3>1, <3>2 DEF TypeOK
    <2>8. saw' \in [Requests -> BOOLEAN]
      BY <1>7 DEF WaitAborted, End, ResetWait, Waiting, TypeOK, RestartTypeOK
    <2>9. seen' \in [Requests -> SUBSET Handles]
      BY <1>7 DEF WaitAborted, End, ResetWait, Waiting, TypeOK, RestartTypeOK
    <2>10. yielded' \in [Requests -> BOOLEAN]
      BY <1>7 DEF WaitAborted, End, ResetWait, Waiting, TypeOK, RestartTypeOK
    <2>11. first' \in [Requests -> BOOLEAN]
      BY <1>7 DEF WaitAborted, End, ResetWait, Waiting, TypeOK, RestartTypeOK
    <2>12. cancelled' \in [Requests -> BOOLEAN]
      BY <1>7 DEF WaitAborted, End, ResetWait, Waiting, TypeOK, RestartTypeOK
    <2>13. outcome' \in [Requests -> Outcomes]
      BY <1>7 DEF WaitAborted, End, ResetWait, Waiting, Outcomes, TypeOK, RestartTypeOK
    <2>14. inFlight' \in Nat
      <3>1. r \in Active
        BY <1>7 DEF WaitAborted, Active, Waiting
      <3> QED
        BY <1>7, <3>1, CountPositive DEF WaitAborted, End, ResetWait, Waiting
    <2>15. UNCHANGED <<slot, served, idOf, proc, healthy, restarting, chan, nextHandle, fails, reaping, gpc, gh, gnew, tracked, restartMu, closed, stop, hpc, hsweep, todo, hh, hreq, htry, draining, cpc, ckill, graceful, suspect, config>>
      BY <1>7 DEF WaitAborted, End, ResetWait, Waiting
    <2> QED
      BY <2>1, <2>2, <2>3, <2>4, <2>5, <2>6, <2>7, <2>8, <2>9, <2>10, <2>11, <2>12, <2>13, <2>14, <2>15 DEF TypeOK, RestartTypeOK
  <1>8. ASSUME NEW r \in Requests, AwaitPoll(r) PROVE TypeOK'
    <2>1. chans' \in [Requests -> SUBSET Handles]
      <3>1. lastFailed[r] \in Handles
        BY <1>8 DEF AwaitPoll, ServedPlaces, TypeOK, RestartTypeOK
      <3>2. chans' = chans \/ chans' = [chans EXCEPT ![r] = {lastFailed[r]}]
        BY <1>8 DEF AwaitPoll
      <3>3. chans \in [Requests -> SUBSET Handles] /\ {lastFailed[r]} \in SUBSET Handles
        BY <3>1 DEF TypeOK, RestartTypeOK
      <3> QED
        BY <3>2, <3>3
    <2>2. rpc' \in [Requests -> RequestLabels]
      BY SMTT(40), <1>8 DEF AwaitPoll, RequestLabels, TypeOK, RestartTypeOK
    <2>3. saw' \in [Requests -> BOOLEAN]
      BY <1>8 DEF AwaitPoll, TypeOK, RestartTypeOK
    <2>4. UNCHANGED <<slot, served, idOf, proc, healthy, restarting, chan, nextHandle, fails, reaping, gpc, gh, gnew, tracked, restartMu, closed, stop, fired, spawned, rh, lastFailed, tries, seen, yielded, first, cancelled, outcome, inFlight, hpc, hsweep, todo, hh, hreq, htry, draining, cpc, ckill, graceful, suspect, config>>
      BY <1>8 DEF AwaitPoll
    <2> QED
      BY <2>1, <2>2, <2>3, <2>4 DEF TypeOK, RestartTypeOK
  <1>9. ASSUME NEW r \in Requests, AwaitDone(r) PROVE TypeOK'
    <2>1. rpc' \in [Requests -> RequestLabels]
      <3>1. \E x \in RequestLabels : rpc' = [rpc EXCEPT ![r] = x]
        BY <1>9 DEF AwaitDone, ReqStep, RequestLabels
      <3> QED
        BY <3>1 DEF TypeOK
    <2>2. UNCHANGED <<slot, served, idOf, proc, healthy, restarting, chan, nextHandle, fails, reaping, gpc, gh, gnew, tracked, restartMu, closed, stop, chans, fired, spawned, rh, lastFailed, tries, saw, seen, yielded, first, cancelled, outcome, inFlight, hpc, hsweep, todo, hh, hreq, htry, draining, cpc, ckill, graceful, suspect, config>>
      BY <1>9 DEF AwaitDone, ReqStep
    <2> QED
      BY <2>1, <2>2 DEF TypeOK, RestartTypeOK
  <1>10. ASSUME NEW r \in Requests, AnyPoll(r) PROVE TypeOK'
    <2>1. chans' \in [Requests -> SUBSET Handles]
      <3>1. Visible \subseteq Handles
        BY SlotsAreHandles DEF Visible
      <3>2. chans' = chans \/ chans' = [chans EXCEPT ![r] = {h \in Visible : chan[h]}]
        BY <1>10 DEF AnyPoll
      <3>3. {h \in Visible : chan[h]} \subseteq Handles
        BY <3>1
      <3> QED
        BY <3>2, <3>3 DEF TypeOK, RestartTypeOK
    <2>2. fired' \in [Requests -> BOOLEAN]
      BY <1>10 DEF AnyPoll, TypeOK, RestartTypeOK
    <2>3. rpc' \in [Requests -> RequestLabels]
      BY <1>10 DEF AnyPoll, RequestLabels, TypeOK, RestartTypeOK
    <2>4. saw' \in [Requests -> BOOLEAN]
      BY <1>10 DEF AnyPoll, TypeOK, RestartTypeOK
    <2>5. seen' \in [Requests -> SUBSET Handles]
      <3>1. Visible \subseteq Handles
        BY SlotsAreHandles DEF Visible
      <3>2. seen' = seen \/ seen' = [seen EXCEPT ![r] = Visible]
        BY <1>10 DEF AnyPoll
      <3> QED
        BY <3>1, <3>2 DEF TypeOK
    <2>6. UNCHANGED <<slot, served, idOf, proc, healthy, restarting, chan, nextHandle, fails, reaping, gpc, gh, gnew, tracked, restartMu, closed, stop, spawned, rh, lastFailed, tries, yielded, first, cancelled, outcome, inFlight, hpc, hsweep, todo, hh, hreq, htry, draining, cpc, ckill, graceful, suspect, config>>
      BY <1>10 DEF AnyPoll
    <2> QED
      BY <2>1, <2>2, <2>3, <2>4, <2>5, <2>6 DEF TypeOK, RestartTypeOK
  <1>11. ASSUME NEW r \in Requests, AnyDone(r) PROVE TypeOK'
    <2>1. rpc' \in [Requests -> RequestLabels]
      BY <1>11 DEF AnyDone, ReqStep, RequestLabels, TypeOK, RestartTypeOK
    <2>2. UNCHANGED <<slot, served, idOf, proc, healthy, restarting, chan, nextHandle, fails, reaping, gpc, gh, gnew, tracked, restartMu, closed, stop, chans, fired, spawned, rh, lastFailed, tries, saw, seen, yielded, first, cancelled, outcome, inFlight, hpc, hsweep, todo, hh, hreq, htry, draining, cpc, ckill, graceful, suspect, config>>
      BY <1>11 DEF AnyDone, ReqStep
    <2> QED
      BY <2>1, <2>2 DEF TypeOK, RestartTypeOK
  <1>12. ASSUME NEW r \in Requests, FirstByte(r) PROVE TypeOK'
    <2>1. first' \in [Requests -> BOOLEAN]
      BY <1>12 DEF FirstByte, TypeOK, RestartTypeOK
    <2>2. UNCHANGED <<slot, served, idOf, proc, healthy, restarting, chan, nextHandle, fails, reaping, gpc, gh, gnew, tracked, restartMu, closed, stop, chans, fired, spawned, rpc, rh, lastFailed, tries, saw, seen, yielded, cancelled, outcome, inFlight, hpc, hsweep, todo, hh, hreq, htry, draining, cpc, ckill, graceful, suspect, config>>
      BY <1>12 DEF FirstByte
    <2> QED
      BY <2>1, <2>2 DEF TypeOK, RestartTypeOK
  <1>13. ASSUME NEW r \in Requests, AttemptAnswered(r) PROVE TypeOK'
    <2>1. rpc' \in [Requests -> RequestLabels]
      BY <1>13 DEF AttemptAnswered, End, RequestLabels, TypeOK, RestartTypeOK
    <2>2. rh' \in [Requests -> Handles \cup {None}]
      BY <1>13 DEF AttemptAnswered, End, TypeOK, RestartTypeOK
    <2>3. lastFailed' \in [Requests -> Handles \cup {None}]
      BY <1>13 DEF AttemptAnswered, End, TypeOK, RestartTypeOK
    <2>4. tries' \in [Requests -> 0..config.tries]
      BY ConfigBounds, <1>13 DEF AttemptAnswered, End, TypeOK, RestartTypeOK
    <2>5. yielded' \in [Requests -> BOOLEAN]
      BY <1>13 DEF AttemptAnswered, End, TypeOK, RestartTypeOK
    <2>6. first' \in [Requests -> BOOLEAN]
      BY <1>13 DEF AttemptAnswered, End, TypeOK, RestartTypeOK
    <2>7. cancelled' \in [Requests -> BOOLEAN]
      BY <1>13 DEF AttemptAnswered, End, TypeOK, RestartTypeOK
    <2>8. outcome' \in [Requests -> Outcomes]
      BY <1>13 DEF AttemptAnswered, End, Outcomes, TypeOK, RestartTypeOK
    <2>9. inFlight' \in Nat
      <3>1. r \in Active
        BY <1>13 DEF AttemptAnswered, Active, Waiting
      <3> QED
        BY <1>13, <3>1, CountPositive DEF AttemptAnswered, End
    <2>10. UNCHANGED <<slot, served, idOf, proc, healthy, restarting, chan, nextHandle, fails, reaping, gpc, gh, gnew, tracked, restartMu, closed, stop, chans, fired, spawned, saw, seen, hpc, hsweep, todo, hh, hreq, htry, draining, cpc, ckill, graceful, suspect, config>>
      BY <1>13 DEF AttemptAnswered, End
    <2> QED
      BY <2>1, <2>2, <2>3, <2>4, <2>5, <2>6, <2>7, <2>8, <2>9, <2>10 DEF TypeOK, RestartTypeOK
  <1>14. ASSUME NEW r \in Requests, AttemptCancelled(r) PROVE TypeOK'
    <2>1. rpc' \in [Requests -> RequestLabels]
      BY <1>14 DEF AttemptCancelled, End, RequestLabels, TypeOK, RestartTypeOK
    <2>2. rh' \in [Requests -> Handles \cup {None}]
      BY <1>14 DEF AttemptCancelled, End, TypeOK, RestartTypeOK
    <2>3. lastFailed' \in [Requests -> Handles \cup {None}]
      BY <1>14 DEF AttemptCancelled, End, TypeOK, RestartTypeOK
    <2>4. tries' \in [Requests -> 0..config.tries]
      BY ConfigBounds, <1>14 DEF AttemptCancelled, End, TypeOK, RestartTypeOK
    <2>5. yielded' \in [Requests -> BOOLEAN]
      BY <1>14 DEF AttemptCancelled, End, TypeOK, RestartTypeOK
    <2>6. first' \in [Requests -> BOOLEAN]
      BY <1>14 DEF AttemptCancelled, End, TypeOK, RestartTypeOK
    <2>7. cancelled' \in [Requests -> BOOLEAN]
      BY <1>14 DEF AttemptCancelled, End, TypeOK, RestartTypeOK
    <2>8. outcome' \in [Requests -> Outcomes]
      BY <1>14 DEF AttemptCancelled, End, Outcomes, TypeOK, RestartTypeOK
    <2>9. inFlight' \in Nat
      <3>1. r \in Active
        BY <1>14 DEF AttemptCancelled, Active, Waiting
      <3> QED
        BY <1>14, <3>1, CountPositive DEF AttemptCancelled, End
    <2>10. UNCHANGED <<slot, served, idOf, proc, healthy, restarting, chan, nextHandle, fails, reaping, gpc, gh, gnew, tracked, restartMu, closed, stop, chans, fired, spawned, saw, seen, hpc, hsweep, todo, hh, hreq, htry, draining, cpc, ckill, graceful, suspect, config>>
      BY <1>14 DEF AttemptCancelled, End
    <2> QED
      BY <2>1, <2>2, <2>3, <2>4, <2>5, <2>6, <2>7, <2>8, <2>9, <2>10 DEF TypeOK, RestartTypeOK
  <1>15. ASSUME NEW r \in Requests, AttemptFails(r) PROVE TypeOK'
    <2>1. healthy' \in [Handles -> BOOLEAN]
      BY <1>15 DEF AttemptFails, ReqStep, WorkerFailed, TypeOK, RestartTypeOK
    <2>2. rpc' \in [Requests -> RequestLabels]
      BY <1>15 DEF AttemptFails, ReqStep, WorkerFailed, RequestLabels, TypeOK, RestartTypeOK
    <2>3. UNCHANGED <<slot, served, idOf, proc, restarting, chan, nextHandle, fails, reaping, gpc, gh, gnew, tracked, restartMu, closed, stop, chans, fired, spawned, rh, lastFailed, tries, saw, seen, yielded, first, cancelled, outcome, inFlight, hpc, hsweep, todo, hh, hreq, htry, draining, cpc, ckill, graceful, suspect, config>>
      BY <1>15 DEF AttemptFails, ReqStep, WorkerFailed
    <2> QED
      BY <2>1, <2>2, <2>3 DEF TypeOK, RestartTypeOK
  <1>16. ASSUME NEW r \in Requests, AttemptMisread(r) PROVE TypeOK'
    <2>1. healthy' \in [Handles -> BOOLEAN]
      BY <1>16 DEF AttemptMisread, ReqStep, TypeOK, RestartTypeOK
    <2>2. rpc' \in [Requests -> RequestLabels]
      BY <1>16 DEF AttemptMisread, ReqStep, RequestLabels, TypeOK, RestartTypeOK
    <2>3. suspect' \in SUBSET Handles
      BY <1>16 DEF AttemptMisread, ReqStep, ServedPlaces, TypeOK, RestartTypeOK
    <2>4. UNCHANGED <<slot, served, idOf, proc, restarting, chan, nextHandle, fails, reaping, gpc, gh, gnew, tracked, restartMu, closed, stop, chans, fired, spawned, rh, lastFailed, tries, saw, seen, yielded, first, cancelled, outcome, inFlight, hpc, hsweep, todo, hh, hreq, htry, draining, cpc, ckill, graceful, config>>
      BY <1>16 DEF AttemptMisread, ReqStep
    <2> QED
      BY <2>1, <2>2, <2>3, <2>4 DEF TypeOK, RestartTypeOK
  <1>17. ASSUME NEW r \in Requests, RequestDispatch(r) PROVE TypeOK'
    <2>1. restartMu' \in Requests \cup {"checker", None}
      BY <1>17 DEF RequestDispatch, ReqStep, MayRegister, TypeOK, RestartTypeOK
    <2>2. rpc' \in [Requests -> RequestLabels]
      BY <1>17 DEF RequestDispatch, ReqStep, MayRegister, RequestLabels, TypeOK, RestartTypeOK
    <2>3. UNCHANGED <<slot, served, idOf, proc, healthy, restarting, chan, nextHandle, fails, reaping, gpc, gh, gnew, tracked, closed, stop, chans, fired, spawned, rh, lastFailed, tries, saw, seen, yielded, first, cancelled, outcome, inFlight, hpc, hsweep, todo, hh, hreq, htry, draining, cpc, ckill, graceful, suspect, config>>
      BY <1>17 DEF RequestDispatch, ReqStep, MayRegister
    <2> QED
      BY <2>1, <2>2, <2>3 DEF TypeOK, RestartTypeOK
  <1>18. ASSUME NEW r \in Requests, NextAttempt(r) PROVE TypeOK'
    <2>1. rpc' \in [Requests -> RequestLabels]
      <3>1. rpc' = [rpc EXCEPT ![r] = "ended"] \/ rpc' = [rpc EXCEPT ![r] = "get"]
        BY <1>18 DEF NextAttempt, End
      <3>2. rpc \in [Requests -> RequestLabels] /\ "ended" \in RequestLabels /\ "get" \in RequestLabels
        BY DEF RequestLabels, TypeOK
      <3> QED
        BY <3>1, <3>2
    <2>2. rh' \in [Requests -> Handles \cup {None}]
      BY SMTT(40), <1>18 DEF NextAttempt, End, TypeOK, RestartTypeOK
    <2>3. lastFailed' \in [Requests -> Handles \cup {None}]
      BY SMTT(40), <1>18 DEF NextAttempt, End, TypeOK, RestartTypeOK
    <2>4. tries' \in [Requests -> 0..config.tries]
      <3>1. tries[r] \in 0..config.tries /\ config.tries \in Nat /\ config' = config
        BY ConfigBounds, <1>18 DEF NextAttempt, TypeOK
      <3>2. \/ tries' = [tries EXCEPT ![r] = 0]
            \/ tries' = [tries EXCEPT ![r] = tries[r] + 1] /\ tries[r] < config.tries
        BY <1>18 DEF NextAttempt, End, AttemptsLeft
      <3>3. \E x \in 0..config.tries : tries' = [tries EXCEPT ![r] = x]
        BY <3>1, <3>2
      <3> QED
        BY <3>1, <3>3 DEF TypeOK
    <2>5. yielded' \in [Requests -> BOOLEAN]
      BY ZenonT(40), <1>18 DEF NextAttempt, End, TypeOK, RestartTypeOK
    <2>6. first' \in [Requests -> BOOLEAN]
      BY ZenonT(40), <1>18 DEF NextAttempt, End, TypeOK, RestartTypeOK
    <2>7. cancelled' \in [Requests -> BOOLEAN]
      BY ZenonT(40), <1>18 DEF NextAttempt, End, TypeOK, RestartTypeOK
    <2>8. outcome' \in [Requests -> Outcomes]
      <3>1. outcome' = outcome \/ \E x \in {"cancelled", "exhausted"} : outcome' = [outcome EXCEPT ![r] = x]
        BY <1>18 DEF NextAttempt, End
      <3> QED
        BY <3>1 DEF Outcomes, TypeOK
    <2>9. inFlight' \in Nat
      <3>1. r \in Active
        BY <1>18 DEF NextAttempt, Active, Waiting
      <3> QED
        BY <1>18, <3>1, CountPositive DEF NextAttempt, End
    <2>10. UNCHANGED <<slot, served, idOf, proc, healthy, restarting, chan, nextHandle, fails, reaping, gpc, gh, gnew, tracked, restartMu, closed, stop, chans, fired, spawned, saw, seen, hpc, hsweep, todo, hh, hreq, htry, draining, cpc, ckill, graceful, suspect, config>>
      BY <1>18 DEF NextAttempt, End
    <2> QED
      BY <2>1, <2>2, <2>3, <2>4, <2>5, <2>6, <2>7, <2>8, <2>9, <2>10 DEF TypeOK, RestartTypeOK
  <1>19. ASSUME NEW r \in Requests, NEW g \in Goroutines, AwaitSpawn(r, g) PROVE TypeOK'
    <2>1. gpc' \in [Goroutines -> GoLabels]
      BY <1>19 DEF AwaitSpawn, ReqStep, GoRestart, GoLabels, TypeOK, RestartTypeOK
    <2>2. gh' \in [Goroutines -> Handles \cup {None}]
      BY <1>19 DEF AwaitSpawn, ReqStep, GoRestart, TypeOK, RestartTypeOK
    <2>3. tracked' \in [Goroutines -> BOOLEAN]
      BY <1>19 DEF AwaitSpawn, ReqStep, GoRestart, TypeOK, RestartTypeOK
    <2>4. spawned' \in [Requests -> Goroutines \cup {None}]
      BY <1>19 DEF AwaitSpawn, ReqStep, GoRestart, TypeOK, RestartTypeOK
    <2>5. rpc' \in [Requests -> RequestLabels]
      BY <1>19 DEF AwaitSpawn, ReqStep, GoRestart, RequestLabels, TypeOK, RestartTypeOK
    <2>6. UNCHANGED <<slot, served, idOf, proc, healthy, restarting, chan, nextHandle, fails, reaping, gnew, restartMu, closed, stop, chans, fired, rh, lastFailed, tries, saw, seen, yielded, first, cancelled, outcome, inFlight, hpc, hsweep, todo, hh, hreq, htry, draining, cpc, ckill, graceful, suspect, config>>
      BY <1>19 DEF AwaitSpawn, ReqStep, GoRestart
    <2> QED
      BY <2>1, <2>2, <2>3, <2>4, <2>5, <2>6 DEF TypeOK, RestartTypeOK
  <1>20. ASSUME NEW r \in Requests, NEW g \in Goroutines, RequestAdd(r, g) PROVE TypeOK'
    <2>1. gpc' \in [Goroutines -> GoLabels]
      BY <1>20 DEF RequestAdd, ReqStep, GoRestart, GoLabels, TypeOK, RestartTypeOK
    <2>2. gh' \in [Goroutines -> Handles \cup {None}]
      BY <1>20 DEF RequestAdd, ReqStep, GoRestart, TypeOK, RestartTypeOK
    <2>3. tracked' \in [Goroutines -> BOOLEAN]
      BY <1>20 DEF RequestAdd, ReqStep, GoRestart, TypeOK, RestartTypeOK
    <2>4. restartMu' \in Requests \cup {"checker", None}
      BY <1>20 DEF RequestAdd, ReqStep, GoRestart, TypeOK, RestartTypeOK
    <2>5. rpc' \in [Requests -> RequestLabels]
      BY <1>20 DEF RequestAdd, ReqStep, GoRestart, RequestLabels, TypeOK, RestartTypeOK
    <2>6. UNCHANGED <<slot, served, idOf, proc, healthy, restarting, chan, nextHandle, fails, reaping, gnew, closed, stop, chans, fired, spawned, rh, lastFailed, tries, saw, seen, yielded, first, cancelled, outcome, inFlight, hpc, hsweep, todo, hh, hreq, htry, draining, cpc, ckill, graceful, suspect, config>>
      BY <1>20 DEF RequestAdd, ReqStep, GoRestart
    <2> QED
      BY <2>1, <2>2, <2>3, <2>4, <2>5, <2>6 DEF TypeOK, RestartTypeOK
  <1>21. ASSUME NEW g \in Goroutines, EarlyCheck(g), UNCHANGED poolFrame PROVE TypeOK'
    <2>1. gpc' \in [Goroutines -> GoLabels]
      BY <1>21 DEF EarlyCheck, GoStep, GoLabels, TypeOK, RestartTypeOK
    <2>2. UNCHANGED <<slot, served, idOf, proc, healthy, restarting, chan, nextHandle, fails, reaping, gh, gnew, tracked, restartMu, closed, stop, chans, fired, spawned, rpc, rh, lastFailed, tries, saw, seen, yielded, first, cancelled, outcome, inFlight, hpc, hsweep, todo, hh, hreq, htry, draining, cpc, ckill, graceful, suspect, config>>
      BY <1>21 DEF EarlyCheck, GoStep
    <2> QED
      BY <2>1, <2>2 DEF TypeOK, RestartTypeOK
  <1>22. ASSUME NEW g \in Goroutines, CompareAndSwap(g), UNCHANGED poolFrame PROVE TypeOK'
    <2>1. restarting' \in [Handles -> BOOLEAN]
      BY <1>22 DEF CompareAndSwap, GoStep, CanSwapRestarting, TypeOK, RestartTypeOK
    <2>2. gpc' \in [Goroutines -> GoLabels]
      BY <1>22 DEF CompareAndSwap, GoStep, CanSwapRestarting, GoLabels, TypeOK, RestartTypeOK
    <2>3. UNCHANGED <<slot, served, idOf, proc, healthy, chan, nextHandle, fails, reaping, gh, gnew, tracked, restartMu, closed, stop, chans, fired, spawned, rpc, rh, lastFailed, tries, saw, seen, yielded, first, cancelled, outcome, inFlight, hpc, hsweep, todo, hh, hreq, htry, draining, cpc, ckill, graceful, suspect, config>>
      BY <1>22 DEF CompareAndSwap, GoStep, CanSwapRestarting
    <2> QED
      BY <2>1, <2>2, <2>3 DEF TypeOK, RestartTypeOK
  <1>23. ASSUME NEW g \in Goroutines, CondWait(g), UNCHANGED poolFrame PROVE TypeOK'
    <2>1. gpc' \in [Goroutines -> GoLabels]
      BY <1>23 DEF CondWait, GoStep, GoLabels, TypeOK, RestartTypeOK
    <2>2. UNCHANGED <<slot, served, idOf, proc, healthy, restarting, chan, nextHandle, fails, reaping, gh, gnew, tracked, restartMu, closed, stop, chans, fired, spawned, rpc, rh, lastFailed, tries, saw, seen, yielded, first, cancelled, outcome, inFlight, hpc, hsweep, todo, hh, hreq, htry, draining, cpc, ckill, graceful, suspect, config>>
      BY <1>23 DEF CondWait, GoStep
    <2> QED
      BY <2>1, <2>2 DEF TypeOK, RestartTypeOK
  <1>24. ASSUME NEW g \in Goroutines, PublishChannel(g), UNCHANGED poolFrame PROVE TypeOK'
    <2>1. chan' \in [Handles -> BOOLEAN]
      BY <1>24 DEF PublishChannel, GoStep, TypeOK, RestartTypeOK
    <2>2. gpc' \in [Goroutines -> GoLabels]
      BY <1>24 DEF PublishChannel, GoStep, GoLabels, TypeOK, RestartTypeOK
    <2>3. UNCHANGED <<slot, served, idOf, proc, healthy, restarting, nextHandle, fails, reaping, gh, gnew, tracked, restartMu, closed, stop, chans, fired, spawned, rpc, rh, lastFailed, tries, saw, seen, yielded, first, cancelled, outcome, inFlight, hpc, hsweep, todo, hh, hreq, htry, draining, cpc, ckill, graceful, suspect, config>>
      BY <1>24 DEF PublishChannel, GoStep
    <2> QED
      BY <2>1, <2>2, <2>3 DEF TypeOK, RestartTypeOK
  <1>25. ASSUME NEW g \in Goroutines, Recheck(g), UNCHANGED poolFrame PROVE TypeOK'
    <2>1. gpc' \in [Goroutines -> GoLabels]
      BY <1>25 DEF Recheck, GoStep, GoLabels, TypeOK, RestartTypeOK
    <2>2. UNCHANGED <<slot, served, idOf, proc, healthy, restarting, chan, nextHandle, fails, reaping, gh, gnew, tracked, restartMu, closed, stop, chans, fired, spawned, rpc, rh, lastFailed, tries, saw, seen, yielded, first, cancelled, outcome, inFlight, hpc, hsweep, todo, hh, hreq, htry, draining, cpc, ckill, graceful, suspect, config>>
      BY <1>25 DEF Recheck, GoStep
    <2> QED
      BY <2>1, <2>2 DEF TypeOK, RestartTypeOK
  <1>26. ASSUME NEW g \in Goroutines, SpawnAborted(g), UNCHANGED poolFrame PROVE TypeOK'
    <2>1. gpc' \in [Goroutines -> GoLabels]
      BY <1>26 DEF SpawnAborted, GoStep, GoLabels, TypeOK, RestartTypeOK
    <2>2. UNCHANGED <<slot, served, idOf, proc, healthy, restarting, chan, nextHandle, fails, reaping, gh, gnew, tracked, restartMu, closed, stop, chans, fired, spawned, rpc, rh, lastFailed, tries, saw, seen, yielded, first, cancelled, outcome, inFlight, hpc, hsweep, todo, hh, hreq, htry, draining, cpc, ckill, graceful, suspect, config>>
      BY <1>26 DEF SpawnAborted, GoStep
    <2> QED
      BY <2>1, <2>2 DEF TypeOK, RestartTypeOK
  <1>27. ASSUME NEW g \in Goroutines, SpawnWorker(g), UNCHANGED poolFrame PROVE TypeOK'
    <2>1. idOf' \in [Handles -> Slots \cup {None}]
      <3>1. nextHandle \in Handles
        BY NextIsHandle, <1>27 DEF SpawnWorker
      <3>2. gh[g] \in Handles
        BY <1>27 DEF SpawnWorker, GoStep, ServedPlaces, TypeOK, RestartTypeOK
      <3> QED
        BY <1>27, <3>1, <3>2 DEF SpawnWorker, TypeOK, RestartTypeOK
    <2>2. proc' \in [Handles -> ProcStates]
      BY <1>27 DEF SpawnWorker, GoStep, ProcStates, TypeOK, RestartTypeOK
    <2>3. nextHandle' \in 1..(MaxHandles + 1)
      BY NextIsHandle, <1>27 DEF SpawnWorker
    <2>4. gpc' \in [Goroutines -> GoLabels]
      BY <1>27 DEF SpawnWorker, GoStep, GoLabels, TypeOK, RestartTypeOK
    <2>5. gnew' \in [Goroutines -> Handles \cup {None}]
      <3>1. nextHandle \in Handles
        BY NextIsHandle, <1>27 DEF SpawnWorker
      <3>2. gh[g] \in Handles
        BY <1>27 DEF SpawnWorker, GoStep, ServedPlaces, TypeOK, RestartTypeOK
      <3> QED
        BY <1>27, <3>1, <3>2 DEF SpawnWorker, TypeOK, RestartTypeOK
    <2>6. UNCHANGED <<slot, served, healthy, restarting, chan, fails, reaping, gh, tracked, restartMu, closed, stop, chans, fired, spawned, rpc, rh, lastFailed, tries, saw, seen, yielded, first, cancelled, outcome, inFlight, hpc, hsweep, todo, hh, hreq, htry, draining, cpc, ckill, graceful, suspect, config>>
      BY <1>27 DEF SpawnWorker, GoStep
    <2> QED
      BY <2>1, <2>2, <2>3, <2>4, <2>5, <2>6 DEF TypeOK, RestartTypeOK
  <1>28. ASSUME NEW g \in Goroutines, SpawnFails(g), UNCHANGED poolFrame PROVE TypeOK'
    <2>1. fails' \in Nat
      BY <1>28 DEF SpawnFails, GoStep, TypeOK, RestartTypeOK
    <2>2. gpc' \in [Goroutines -> GoLabels]
      BY <1>28 DEF SpawnFails, GoStep, GoLabels, TypeOK, RestartTypeOK
    <2>3. UNCHANGED <<slot, served, idOf, proc, healthy, restarting, chan, nextHandle, reaping, gh, gnew, tracked, restartMu, closed, stop, chans, fired, spawned, rpc, rh, lastFailed, tries, saw, seen, yielded, first, cancelled, outcome, inFlight, hpc, hsweep, todo, hh, hreq, htry, draining, cpc, ckill, graceful, suspect, config>>
      BY <1>28 DEF SpawnFails, GoStep
    <2> QED
      BY <2>1, <2>2, <2>3 DEF TypeOK, RestartTypeOK
  <1>29. ASSUME NEW g \in Goroutines, StartSucceeds(g), UNCHANGED poolFrame PROVE TypeOK'
    <2>1. proc' \in [Handles -> ProcStates]
      BY <1>29 DEF StartSucceeds, GoStep, ProcStates, TypeOK, RestartTypeOK
    <2>2. healthy' \in [Handles -> BOOLEAN]
      BY <1>29 DEF StartSucceeds, GoStep, TypeOK, RestartTypeOK
    <2>3. gpc' \in [Goroutines -> GoLabels]
      BY <1>29 DEF StartSucceeds, GoStep, GoLabels, TypeOK, RestartTypeOK
    <2>4. UNCHANGED <<slot, served, idOf, restarting, chan, nextHandle, fails, reaping, gh, gnew, tracked, restartMu, closed, stop, chans, fired, spawned, rpc, rh, lastFailed, tries, saw, seen, yielded, first, cancelled, outcome, inFlight, hpc, hsweep, todo, hh, hreq, htry, draining, cpc, ckill, graceful, suspect, config>>
      BY <1>29 DEF StartSucceeds, GoStep
    <2> QED
      BY <2>1, <2>2, <2>3, <2>4 DEF TypeOK, RestartTypeOK
  <1>30. ASSUME NEW g \in Goroutines, StartFails(g), UNCHANGED poolFrame PROVE TypeOK'
    <2>1. proc' \in [Handles -> ProcStates]
      BY <1>30 DEF StartFails, GoStep, Kill, ProcStates, TypeOK, RestartTypeOK
    <2>2. fails' \in Nat
      BY <1>30 DEF StartFails, GoStep, Kill, TypeOK, RestartTypeOK
    <2>3. gpc' \in [Goroutines -> GoLabels]
      BY <1>30 DEF StartFails, GoStep, Kill, GoLabels, TypeOK, RestartTypeOK
    <2>4. gnew' \in [Goroutines -> Handles \cup {None}]
      BY <1>30 DEF StartFails, GoStep, Kill, TypeOK, RestartTypeOK
    <2>5. UNCHANGED <<slot, served, idOf, healthy, restarting, chan, nextHandle, reaping, gh, tracked, restartMu, closed, stop, chans, fired, spawned, rpc, rh, lastFailed, tries, saw, seen, yielded, first, cancelled, outcome, inFlight, hpc, hsweep, todo, hh, hreq, htry, draining, cpc, ckill, graceful, suspect, config>>
      BY <1>30 DEF StartFails, GoStep, Kill
    <2> QED
      BY <2>1, <2>2, <2>3, <2>4, <2>5 DEF TypeOK, RestartTypeOK
  <1>31. ASSUME NEW g \in Goroutines, StartTimesOut(g), UNCHANGED poolFrame PROVE TypeOK'
    <2>1. proc' \in [Handles -> ProcStates]
      BY <1>31 DEF StartTimesOut, GoStep, ClientKill, Kill, LeaveToReaper, ProcStates, TypeOK, RestartTypeOK
    <2>2. fails' \in Nat
      BY <1>31 DEF StartTimesOut, GoStep, ClientKill, Kill, LeaveToReaper, TypeOK, RestartTypeOK
    <2>3. reaping' \in SUBSET Handles
      <3>1. gnew[g] \in Handles
        BY <1>31 DEF StartTimesOut, GoStep, Newborn, TypeOK, RestartTypeOK
      <3>2. reaping' = reaping \cup {gnew[g]}
        BY <1>31 DEF StartTimesOut, LeaveToReaper
      <3> QED
        BY <3>1, <3>2 DEF TypeOK, RestartTypeOK
    <2>4. gpc' \in [Goroutines -> GoLabels]
      BY <1>31 DEF StartTimesOut, GoStep, ClientKill, Kill, LeaveToReaper, GoLabels, TypeOK, RestartTypeOK
    <2>5. gnew' \in [Goroutines -> Handles \cup {None}]
      BY <1>31 DEF StartTimesOut, GoStep, ClientKill, Kill, LeaveToReaper, TypeOK, RestartTypeOK
    <2>6. UNCHANGED <<slot, served, idOf, healthy, restarting, chan, nextHandle, gh, tracked, restartMu, closed, stop, chans, fired, spawned, rpc, rh, lastFailed, tries, saw, seen, yielded, first, cancelled, outcome, inFlight, hpc, hsweep, todo, hh, hreq, htry, draining, cpc, ckill, graceful, suspect, config>>
      BY <1>31 DEF StartTimesOut, GoStep, ClientKill, Kill, LeaveToReaper
    <2> QED
      BY <2>1, <2>2, <2>3, <2>4, <2>5, <2>6 DEF TypeOK, RestartTypeOK
  <1>32. ASSUME NEW g \in Goroutines, StartAborted(g), UNCHANGED poolFrame PROVE TypeOK'
    <2>1. proc' \in [Handles -> ProcStates]
      BY <1>32 DEF StartAborted, GoStep, ClientKill, Kill, LeaveToReaper, ProcStates, TypeOK, RestartTypeOK
    <2>2. reaping' \in SUBSET Handles
      <3>1. gnew[g] \in Handles
        BY <1>32 DEF StartAborted, GoStep, Newborn, TypeOK, RestartTypeOK
      <3>2. reaping' = reaping \cup {gnew[g]}
        BY <1>32 DEF StartAborted, LeaveToReaper
      <3> QED
        BY <3>1, <3>2 DEF TypeOK, RestartTypeOK
    <2>3. gpc' \in [Goroutines -> GoLabels]
      BY <1>32 DEF StartAborted, GoStep, ClientKill, Kill, LeaveToReaper, GoLabels, TypeOK, RestartTypeOK
    <2>4. gnew' \in [Goroutines -> Handles \cup {None}]
      BY <1>32 DEF StartAborted, GoStep, ClientKill, Kill, LeaveToReaper, TypeOK, RestartTypeOK
    <2>5. UNCHANGED <<slot, served, idOf, healthy, restarting, chan, nextHandle, fails, gh, tracked, restartMu, closed, stop, chans, fired, spawned, rpc, rh, lastFailed, tries, saw, seen, yielded, first, cancelled, outcome, inFlight, hpc, hsweep, todo, hh, hreq, htry, draining, cpc, ckill, graceful, suspect, config>>
      BY <1>32 DEF StartAborted, GoStep, ClientKill, Kill, LeaveToReaper
    <2> QED
      BY <2>1, <2>2, <2>3, <2>4, <2>5 DEF TypeOK, RestartTypeOK
  <1>33. ASSUME NEW g \in Goroutines, StartFailed(g), UNCHANGED poolFrame PROVE TypeOK'
    <2>1. healthy' \in [Handles -> BOOLEAN]
      BY <1>33 DEF StartFailed, GoStep, TypeOK, RestartTypeOK
    <2>2. gpc' \in [Goroutines -> GoLabels]
      BY <1>33 DEF StartFailed, GoStep, GoLabels, TypeOK, RestartTypeOK
    <2>3. UNCHANGED <<slot, served, idOf, proc, restarting, chan, nextHandle, fails, reaping, gh, gnew, tracked, restartMu, closed, stop, chans, fired, spawned, rpc, rh, lastFailed, tries, saw, seen, yielded, first, cancelled, outcome, inFlight, hpc, hsweep, todo, hh, hreq, htry, draining, cpc, ckill, graceful, suspect, config>>
      BY <1>33 DEF StartFailed, GoStep
    <2> QED
      BY <2>1, <2>2, <2>3 DEF TypeOK, RestartTypeOK
  <1>34. ASSUME NEW g \in Goroutines, HotSwap(g), UNCHANGED poolFrame PROVE TypeOK'
    <2>1. slot' \in [Slots -> Handles]
      <3>1. gnew[g] \in Handles
        BY <1>34 DEF HotSwap, GoStep, Newborn, TypeOK, RestartTypeOK
      <3>2. slot' = slot \/ slot' = [slot EXCEPT ![idOf[gh[g]]] = gnew[g]]
        BY <1>34 DEF HotSwap
      <3> QED
        BY <3>1, <3>2 DEF TypeOK, RestartTypeOK
    <2>2. served' \in SUBSET Handles
      <3>1. gnew[g] \in Handles
        BY <1>34 DEF HotSwap, GoStep, Newborn, TypeOK, RestartTypeOK
      <3>2. served' = served \/ served' = served \cup {gnew[g]}
        BY <1>34 DEF HotSwap
      <3> QED
        BY <3>1, <3>2 DEF TypeOK, RestartTypeOK
    <2>3. gpc' \in [Goroutines -> GoLabels]
      BY <1>34 DEF HotSwap, GoStep, MayInstall, GoLabels, TypeOK, RestartTypeOK
    <2>4. gnew' \in [Goroutines -> Handles \cup {None}]
      BY <1>34 DEF HotSwap, GoStep, MayInstall, TypeOK, RestartTypeOK
    <2>5. UNCHANGED <<idOf, proc, healthy, restarting, chan, nextHandle, fails, reaping, gh, tracked, restartMu, closed, stop, chans, fired, spawned, rpc, rh, lastFailed, tries, saw, seen, yielded, first, cancelled, outcome, inFlight, hpc, hsweep, todo, hh, hreq, htry, draining, cpc, ckill, graceful, suspect, config>>
      BY <1>34 DEF HotSwap, GoStep, MayInstall
    <2> QED
      BY <2>1, <2>2, <2>3, <2>4, <2>5 DEF TypeOK, RestartTypeOK
  <1>35. ASSUME NEW g \in Goroutines, KillOld(g), UNCHANGED poolFrame PROVE TypeOK'
    <2>1. proc' \in [Handles -> ProcStates]
      BY <1>35 DEF KillOld, GoStep, Kill, ProcStates, TypeOK, RestartTypeOK
    <2>2. gpc' \in [Goroutines -> GoLabels]
      BY <1>35 DEF KillOld, GoStep, Kill, GoLabels, TypeOK, RestartTypeOK
    <2>3. UNCHANGED <<slot, served, idOf, healthy, restarting, chan, nextHandle, fails, reaping, gh, gnew, tracked, restartMu, closed, stop, chans, fired, spawned, rpc, rh, lastFailed, tries, saw, seen, yielded, first, cancelled, outcome, inFlight, hpc, hsweep, todo, hh, hreq, htry, draining, cpc, ckill, graceful, suspect, config>>
      BY <1>35 DEF KillOld, GoStep, Kill
    <2> QED
      BY <2>1, <2>2, <2>3 DEF TypeOK, RestartTypeOK
  <1>36. ASSUME NEW g \in Goroutines, KillNew(g), UNCHANGED poolFrame PROVE TypeOK'
    <2>1. proc' \in [Handles -> ProcStates]
      BY <1>36 DEF KillNew, GoStep, Kill, ProcStates, TypeOK, RestartTypeOK
    <2>2. gpc' \in [Goroutines -> GoLabels]
      BY <1>36 DEF KillNew, GoStep, Kill, GoLabels, TypeOK, RestartTypeOK
    <2>3. gnew' \in [Goroutines -> Handles \cup {None}]
      BY <1>36 DEF KillNew, GoStep, Kill, TypeOK, RestartTypeOK
    <2>4. UNCHANGED <<slot, served, idOf, healthy, restarting, chan, nextHandle, fails, reaping, gh, tracked, restartMu, closed, stop, chans, fired, spawned, rpc, rh, lastFailed, tries, saw, seen, yielded, first, cancelled, outcome, inFlight, hpc, hsweep, todo, hh, hreq, htry, draining, cpc, ckill, graceful, suspect, config>>
      BY <1>36 DEF KillNew, GoStep, Kill
    <2> QED
      BY <2>1, <2>2, <2>3, <2>4 DEF TypeOK, RestartTypeOK
  <1>37. ASSUME NEW g \in Goroutines, FinishRestart(g), UNCHANGED poolFrame PROVE TypeOK'
    <2>1. restarting' \in [Handles -> BOOLEAN]
      BY <1>37 DEF FinishRestart, GoStep, Notify, TypeOK, RestartTypeOK
    <2>2. chan' \in [Handles -> BOOLEAN]
      BY <1>37 DEF FinishRestart, GoStep, Notify, TypeOK, RestartTypeOK
    <2>3. gpc' \in [Goroutines -> GoLabels]
      BY <1>37 DEF FinishRestart, GoStep, Notify, GoLabels, TypeOK, RestartTypeOK
    <2>4. chans' \in [Requests -> SUBSET Handles]
      BY <1>37 DEF FinishRestart, GoStep, Notify, TypeOK, RestartTypeOK
    <2>5. fired' \in [Requests -> BOOLEAN]
      BY <1>37 DEF FinishRestart, GoStep, Notify, TypeOK, RestartTypeOK
    <2>6. UNCHANGED <<slot, served, idOf, proc, healthy, nextHandle, fails, reaping, gh, gnew, tracked, restartMu, closed, stop, spawned, rpc, rh, lastFailed, tries, saw, seen, yielded, first, cancelled, outcome, inFlight, hpc, hsweep, todo, hh, hreq, htry, draining, cpc, ckill, graceful, suspect, config>>
      BY <1>37 DEF FinishRestart, GoStep, Notify
    <2> QED
      BY <2>1, <2>2, <2>3, <2>4, <2>5, <2>6 DEF TypeOK, RestartTypeOK
  <1>38. ASSUME NEW g \in Goroutines, GoExit(g), UNCHANGED poolFrame PROVE TypeOK'
    <2>1. gpc' \in [Goroutines -> GoLabels]
      BY <1>38 DEF GoExit, GoStep, GoLabels, TypeOK, RestartTypeOK
    <2>2. gh' \in [Goroutines -> Handles \cup {None}]
      BY <1>38 DEF GoExit, GoStep, TypeOK, RestartTypeOK
    <2>3. tracked' \in [Goroutines -> BOOLEAN]
      BY <1>38 DEF GoExit, GoStep, TypeOK, RestartTypeOK
    <2>4. spawned' \in [Requests -> Goroutines \cup {None}]
      BY <1>38 DEF GoExit, GoStep, TypeOK, RestartTypeOK
    <2>5. UNCHANGED <<slot, served, idOf, proc, healthy, restarting, chan, nextHandle, fails, reaping, gnew, restartMu, closed, stop, chans, fired, rpc, rh, lastFailed, tries, saw, seen, yielded, first, cancelled, outcome, inFlight, hpc, hsweep, todo, hh, hreq, htry, draining, cpc, ckill, graceful, suspect, config>>
      BY <1>38 DEF GoExit, GoStep
    <2> QED
      BY <2>1, <2>2, <2>3, <2>4, <2>5 DEF TypeOK, RestartTypeOK
  <1>39. ASSUME NEW h \in Handles, Reaper(h) PROVE TypeOK'
    <2>1. proc' \in [Handles -> ProcStates]
      BY <1>39 DEF Reaper, Reap, Kill, ProcStates, TypeOK, RestartTypeOK
    <2>2. reaping' \in SUBSET Handles
      BY <1>39 DEF Reaper, Reap, Kill, TypeOK, RestartTypeOK
    <2>3. UNCHANGED <<slot, served, idOf, healthy, restarting, chan, nextHandle, fails, gpc, gh, gnew, tracked, restartMu, closed, stop, chans, fired, spawned, rpc, rh, lastFailed, tries, saw, seen, yielded, first, cancelled, outcome, inFlight, hpc, hsweep, todo, hh, hreq, htry, draining, cpc, ckill, graceful, suspect, config>>
      BY <1>39 DEF Reaper, Reap, Kill
    <2> QED
      BY <2>1, <2>2, <2>3 DEF TypeOK, RestartTypeOK
  <1>40. ASSUME NEW h \in Handles, Break(h) PROVE TypeOK'
    <2>1. proc' \in [Handles -> ProcStates]
      BY <1>40 DEF Break, WorkerBreaks, ProcStates, TypeOK, RestartTypeOK
    <2>2. suspect' \in SUBSET Handles
      BY <1>40 DEF Break, WorkerBreaks, TypeOK, RestartTypeOK
    <2>3. UNCHANGED <<slot, served, idOf, healthy, restarting, chan, nextHandle, fails, reaping, gpc, gh, gnew, tracked, restartMu, closed, stop, chans, fired, spawned, rpc, rh, lastFailed, tries, saw, seen, yielded, first, cancelled, outcome, inFlight, hpc, hsweep, todo, hh, hreq, htry, draining, cpc, ckill, graceful, config>>
      BY <1>40 DEF Break, WorkerBreaks
    <2> QED
      BY <2>1, <2>2, <2>3 DEF TypeOK, RestartTypeOK
  <1>41. ASSUME NEW kind \in {"health", "hung"}, BeginSweep(kind) PROVE TypeOK'
    <2>1. hpc' \in CheckerLabels
      BY <1>41 DEF BeginSweep, CheckerLabels, TypeOK, RestartTypeOK
    <2>2. hsweep' \in config.sweeps \cup {None}
      BY <1>41 DEF BeginSweep, TypeOK, RestartTypeOK
    <2>3. todo' \in SUBSET Handles
      BY <1>41, SlotsAreHandles DEF BeginSweep
    <2>4. UNCHANGED <<slot, served, idOf, proc, healthy, restarting, chan, nextHandle, fails, reaping, gpc, gh, gnew, tracked, restartMu, closed, stop, chans, fired, spawned, rpc, rh, lastFailed, tries, saw, seen, yielded, first, cancelled, outcome, inFlight, hh, hreq, htry, draining, cpc, ckill, graceful, suspect, config>>
      BY <1>41 DEF BeginSweep
    <2> QED
      BY <2>1, <2>2, <2>3, <2>4 DEF TypeOK, RestartTypeOK
  <1>42. ASSUME EndSweep PROVE TypeOK'
    <2>1. hpc' \in CheckerLabels
      BY <1>42 DEF EndSweep, CheckerLabels, TypeOK, RestartTypeOK
    <2>2. hsweep' \in config.sweeps \cup {None}
      BY <1>42 DEF EndSweep, TypeOK, RestartTypeOK
    <2>3. UNCHANGED <<slot, served, idOf, proc, healthy, restarting, chan, nextHandle, fails, reaping, gpc, gh, gnew, tracked, restartMu, closed, stop, chans, fired, spawned, rpc, rh, lastFailed, tries, saw, seen, yielded, first, cancelled, outcome, inFlight, todo, hh, hreq, htry, draining, cpc, ckill, graceful, suspect, config>>
      BY <1>42 DEF EndSweep
    <2> QED
      BY <2>1, <2>2, <2>3 DEF TypeOK, RestartTypeOK
  <1>43. ASSUME CheckerExits PROVE TypeOK'
    <2>1. hpc' \in CheckerLabels
      BY <1>43 DEF CheckerExits, CheckerLabels, TypeOK, RestartTypeOK
    <2>2. UNCHANGED <<slot, served, idOf, proc, healthy, restarting, chan, nextHandle, fails, reaping, gpc, gh, gnew, tracked, restartMu, closed, stop, chans, fired, spawned, rpc, rh, lastFailed, tries, saw, seen, yielded, first, cancelled, outcome, inFlight, hsweep, todo, hh, hreq, htry, draining, cpc, ckill, graceful, suspect, config>>
      BY <1>43 DEF CheckerExits
    <2> QED
      BY <2>1, <2>2 DEF TypeOK, RestartTypeOK
  <1>44. ASSUME ProbeAborted PROVE TypeOK'
    <2>1. hpc' \in CheckerLabels
      BY <1>44 DEF ProbeAborted, CheckerLabels, TypeOK, RestartTypeOK
    <2>2. hsweep' \in config.sweeps \cup {None}
      BY <1>44 DEF ProbeAborted, TypeOK, RestartTypeOK
    <2>3. todo' \in SUBSET Handles
      BY <1>44 DEF ProbeAborted, TypeOK, RestartTypeOK
    <2>4. hh' \in Handles \cup {None}
      BY <1>44 DEF ProbeAborted, TypeOK, RestartTypeOK
    <2>5. UNCHANGED <<slot, served, idOf, proc, healthy, restarting, chan, nextHandle, fails, reaping, gpc, gh, gnew, tracked, restartMu, closed, stop, chans, fired, spawned, rpc, rh, lastFailed, tries, saw, seen, yielded, first, cancelled, outcome, inFlight, hreq, htry, draining, cpc, ckill, graceful, suspect, config>>
      BY <1>44 DEF ProbeAborted
    <2> QED
      BY <2>1, <2>2, <2>3, <2>4, <2>5 DEF TypeOK, RestartTypeOK
  <1>45. ASSUME MarkUnhealthy PROVE TypeOK'
    <2>1. healthy' \in [Handles -> BOOLEAN]
      BY <1>45 DEF MarkUnhealthy, TypeOK, RestartTypeOK
    <2>2. hpc' \in CheckerLabels
      BY <1>45 DEF MarkUnhealthy, CheckerLabels, TypeOK, RestartTypeOK
    <2>3. UNCHANGED <<slot, served, idOf, proc, restarting, chan, nextHandle, fails, reaping, gpc, gh, gnew, tracked, restartMu, closed, stop, chans, fired, spawned, rpc, rh, lastFailed, tries, saw, seen, yielded, first, cancelled, outcome, inFlight, hsweep, todo, hh, hreq, htry, draining, cpc, ckill, graceful, suspect, config>>
      BY <1>45 DEF MarkUnhealthy
    <2> QED
      BY <2>1, <2>2, <2>3 DEF TypeOK, RestartTypeOK
  <1>46. ASSUME DecideRestart PROVE TypeOK'
    <2>1. hpc' \in CheckerLabels
      BY <1>46 DEF DecideRestart, CheckerLabels, TypeOK, RestartTypeOK
    <2>2. hh' \in Handles \cup {None}
      BY <1>46 DEF DecideRestart, TypeOK, RestartTypeOK
    <2>3. UNCHANGED <<slot, served, idOf, proc, healthy, restarting, chan, nextHandle, fails, reaping, gpc, gh, gnew, tracked, restartMu, closed, stop, chans, fired, spawned, rpc, rh, lastFailed, tries, saw, seen, yielded, first, cancelled, outcome, inFlight, hsweep, todo, hreq, htry, draining, cpc, ckill, graceful, suspect, config>>
      BY <1>46 DEF DecideRestart
    <2> QED
      BY <2>1, <2>2, <2>3 DEF TypeOK, RestartTypeOK
  <1>47. ASSUME DecideHealthy PROVE TypeOK'
    <2>1. hpc' \in CheckerLabels
      BY <1>47 DEF DecideHealthy, CheckerLabels, TypeOK, RestartTypeOK
    <2>2. hh' \in Handles \cup {None}
      BY <1>47 DEF DecideHealthy, TypeOK, RestartTypeOK
    <2>3. UNCHANGED <<slot, served, idOf, proc, healthy, restarting, chan, nextHandle, fails, reaping, gpc, gh, gnew, tracked, restartMu, closed, stop, chans, fired, spawned, rpc, rh, lastFailed, tries, saw, seen, yielded, first, cancelled, outcome, inFlight, hsweep, todo, hreq, htry, draining, cpc, ckill, graceful, suspect, config>>
      BY <1>47 DEF DecideHealthy
    <2> QED
      BY <2>1, <2>2, <2>3 DEF TypeOK, RestartTypeOK
  <1>48. ASSUME SetHealthy PROVE TypeOK'
    <2>1. healthy' \in [Handles -> BOOLEAN]
      BY <1>48 DEF SetHealthy, TypeOK, RestartTypeOK
    <2>2. hpc' \in CheckerLabels
      BY <1>48 DEF SetHealthy, CheckerLabels, TypeOK, RestartTypeOK
    <2>3. hh' \in Handles \cup {None}
      BY <1>48 DEF SetHealthy, TypeOK, RestartTypeOK
    <2>4. UNCHANGED <<slot, served, idOf, proc, restarting, chan, nextHandle, fails, reaping, gpc, gh, gnew, tracked, restartMu, closed, stop, chans, fired, spawned, rpc, rh, lastFailed, tries, saw, seen, yielded, first, cancelled, outcome, inFlight, hsweep, todo, hreq, htry, draining, cpc, ckill, graceful, suspect, config>>
      BY <1>48 DEF SetHealthy
    <2> QED
      BY <2>1, <2>2, <2>3, <2>4 DEF TypeOK, RestartTypeOK
  <1>49. ASSUME HungConfirm PROVE TypeOK'
    <2>1. healthy' \in [Handles -> BOOLEAN]
      BY <1>49 DEF HungConfirm, TypeOK, RestartTypeOK
    <2>2. hpc' \in CheckerLabels
      BY <1>49 DEF HungConfirm, CheckerLabels, TypeOK, RestartTypeOK
    <2>3. hh' \in Handles \cup {None}
      BY <1>49 DEF HungConfirm, TypeOK, RestartTypeOK
    <2>4. hreq' \in Requests \cup {None}
      BY <1>49 DEF HungConfirm, TypeOK, RestartTypeOK
    <2>5. htry' \in Nat
      BY <1>49 DEF HungConfirm, TypeOK, RestartTypeOK
    <2>6. suspect' \in SUBSET Handles
      <3>1. hh \in Handles
        BY <1>49 DEF HungConfirm, ServedPlaces, LookLabels, TypeOK, RestartTypeOK
      <3>2. suspect' = suspect \/ suspect' = suspect \cup {hh}
        BY <1>49 DEF HungConfirm
      <3> QED
        BY <3>1, <3>2 DEF TypeOK
    <2>7. UNCHANGED <<slot, served, idOf, proc, restarting, chan, nextHandle, fails, reaping, gpc, gh, gnew, tracked, restartMu, closed, stop, chans, fired, spawned, rpc, rh, lastFailed, tries, saw, seen, yielded, first, cancelled, outcome, inFlight, hsweep, todo, draining, cpc, ckill, graceful, config>>
      BY <1>49 DEF HungConfirm
    <2> QED
      BY <2>1, <2>2, <2>3, <2>4, <2>5, <2>6, <2>7 DEF TypeOK, RestartTypeOK
  <1>50. ASSUME HungKill PROVE TypeOK'
    <2>1. proc' \in [Handles -> ProcStates]
      BY <1>50 DEF HungKill, Kill, ProcStates, TypeOK, RestartTypeOK
    <2>2. hpc' \in CheckerLabels
      BY <1>50 DEF HungKill, Kill, CheckerLabels, TypeOK, RestartTypeOK
    <2>3. UNCHANGED <<slot, served, idOf, healthy, restarting, chan, nextHandle, fails, reaping, gpc, gh, gnew, tracked, restartMu, closed, stop, chans, fired, spawned, rpc, rh, lastFailed, tries, saw, seen, yielded, first, cancelled, outcome, inFlight, hsweep, todo, hh, hreq, htry, draining, cpc, ckill, graceful, suspect, config>>
      BY <1>50 DEF HungKill, Kill
    <2> QED
      BY <2>1, <2>2, <2>3 DEF TypeOK, RestartTypeOK
  <1>51. ASSUME CheckerDispatch PROVE TypeOK'
    <2>1. restartMu' \in Requests \cup {"checker", None}
      BY <1>51 DEF CheckerDispatch, MayRegister, TypeOK, RestartTypeOK
    <2>2. hpc' \in CheckerLabels
      BY <1>51 DEF CheckerDispatch, MayRegister, CheckerLabels, TypeOK, RestartTypeOK
    <2>3. hh' \in Handles \cup {None}
      BY <1>51 DEF CheckerDispatch, MayRegister, TypeOK, RestartTypeOK
    <2>4. UNCHANGED <<slot, served, idOf, proc, healthy, restarting, chan, nextHandle, fails, reaping, gpc, gh, gnew, tracked, closed, stop, chans, fired, spawned, rpc, rh, lastFailed, tries, saw, seen, yielded, first, cancelled, outcome, inFlight, hsweep, todo, hreq, htry, draining, cpc, ckill, graceful, suspect, config>>
      BY <1>51 DEF CheckerDispatch, MayRegister
    <2> QED
      BY <2>1, <2>2, <2>3, <2>4 DEF TypeOK, RestartTypeOK
  <1>52. ASSUME NEW g \in Goroutines, CheckerAdd(g) PROVE TypeOK'
    <2>1. gpc' \in [Goroutines -> GoLabels]
      BY <1>52 DEF CheckerAdd, GoRestart, GoLabels, TypeOK, RestartTypeOK
    <2>2. gh' \in [Goroutines -> Handles \cup {None}]
      BY <1>52 DEF CheckerAdd, GoRestart, TypeOK, RestartTypeOK
    <2>3. tracked' \in [Goroutines -> BOOLEAN]
      BY <1>52 DEF CheckerAdd, GoRestart, TypeOK, RestartTypeOK
    <2>4. restartMu' \in Requests \cup {"checker", None}
      BY <1>52 DEF CheckerAdd, GoRestart, TypeOK, RestartTypeOK
    <2>5. hpc' \in CheckerLabels
      BY <1>52 DEF CheckerAdd, GoRestart, CheckerLabels, TypeOK, RestartTypeOK
    <2>6. hh' \in Handles \cup {None}
      BY <1>52 DEF CheckerAdd, GoRestart, TypeOK, RestartTypeOK
    <2>7. UNCHANGED <<slot, served, idOf, proc, healthy, restarting, chan, nextHandle, fails, reaping, gnew, closed, stop, chans, fired, spawned, rpc, rh, lastFailed, tries, saw, seen, yielded, first, cancelled, outcome, inFlight, hsweep, todo, hreq, htry, draining, cpc, ckill, graceful, suspect, config>>
      BY <1>52 DEF CheckerAdd, GoRestart
    <2> QED
      BY <2>1, <2>2, <2>3, <2>4, <2>5, <2>6, <2>7 DEF TypeOK, RestartTypeOK
  <1>53. ASSUME NEW h \in Handles, Probe(h) PROVE TypeOK'
    <2>1. hpc' \in CheckerLabels
      BY <1>53 DEF Probe, CheckerLabels, TypeOK, RestartTypeOK
    <2>2. todo' \in SUBSET Handles
      BY <1>53 DEF Probe, TypeOK, RestartTypeOK
    <2>3. hh' \in Handles \cup {None}
      BY <1>53 DEF Probe, TypeOK, RestartTypeOK
    <2>4. UNCHANGED <<slot, served, idOf, proc, healthy, restarting, chan, nextHandle, fails, reaping, gpc, gh, gnew, tracked, restartMu, closed, stop, chans, fired, spawned, rpc, rh, lastFailed, tries, saw, seen, yielded, first, cancelled, outcome, inFlight, hsweep, hreq, htry, draining, cpc, ckill, graceful, suspect, config>>
      BY <1>53 DEF Probe
    <2> QED
      BY <2>1, <2>2, <2>3, <2>4 DEF TypeOK, RestartTypeOK
  <1>54. ASSUME NEW h \in Handles, HungNone(h) PROVE TypeOK'
    <2>1. todo' \in SUBSET Handles
      BY <1>54 DEF HungNone, TypeOK, RestartTypeOK
    <2>2. UNCHANGED <<slot, served, idOf, proc, healthy, restarting, chan, nextHandle, fails, reaping, gpc, gh, gnew, tracked, restartMu, closed, stop, chans, fired, spawned, rpc, rh, lastFailed, tries, saw, seen, yielded, first, cancelled, outcome, inFlight, hpc, hsweep, hh, hreq, htry, draining, cpc, ckill, graceful, suspect, config>>
      BY <1>54 DEF HungNone
    <2> QED
      BY <2>1, <2>2 DEF TypeOK, RestartTypeOK
  <1>55. ASSUME NEW h \in Handles, NEW r \in Requests, HungSnapshot(h, r) PROVE TypeOK'
    <2>1. hpc' \in CheckerLabels
      BY <1>55 DEF HungSnapshot, CheckerLabels, TypeOK, RestartTypeOK
    <2>2. todo' \in SUBSET Handles
      BY <1>55 DEF HungSnapshot, TypeOK, RestartTypeOK
    <2>3. hh' \in Handles \cup {None}
      BY <1>55 DEF HungSnapshot, TypeOK, RestartTypeOK
    <2>4. hreq' \in Requests \cup {None}
      BY <1>55 DEF HungSnapshot, TypeOK, RestartTypeOK
    <2>5. htry' \in Nat
      BY <1>55 DEF HungSnapshot, TypeOK, RestartTypeOK
    <2>6. UNCHANGED <<slot, served, idOf, proc, healthy, restarting, chan, nextHandle, fails, reaping, gpc, gh, gnew, tracked, restartMu, closed, stop, chans, fired, spawned, rpc, rh, lastFailed, tries, saw, seen, yielded, first, cancelled, outcome, inFlight, hsweep, draining, cpc, ckill, graceful, suspect, config>>
      BY <1>55 DEF HungSnapshot
    <2> QED
      BY <2>1, <2>2, <2>3, <2>4, <2>5, <2>6 DEF TypeOK, RestartTypeOK
  <1>56. ASSUME Shutdown PROVE TypeOK'
    <2>1. draining' \in BOOLEAN
      BY <1>56 DEF Shutdown, TypeOK, RestartTypeOK
    <2>2. cpc' \in CloseLabels
      BY <1>56 DEF Shutdown, CloseLabels, TypeOK, RestartTypeOK
    <2>3. UNCHANGED <<slot, served, idOf, proc, healthy, restarting, chan, nextHandle, fails, reaping, gpc, gh, gnew, tracked, restartMu, closed, stop, chans, fired, spawned, rpc, rh, lastFailed, tries, saw, seen, yielded, first, cancelled, outcome, inFlight, hpc, hsweep, todo, hh, hreq, htry, ckill, graceful, suspect, config>>
      BY <1>56 DEF Shutdown
    <2> QED
      BY <2>1, <2>2, <2>3 DEF TypeOK, RestartTypeOK
  <1>57. ASSUME ShutdownDrained PROVE TypeOK'
    <2>1. cpc' \in CloseLabels
      BY <1>57 DEF ShutdownDrained, Drained, CloseLabels, TypeOK, RestartTypeOK
    <2>2. graceful' \in BOOLEAN
      BY <1>57 DEF ShutdownDrained, Drained, TypeOK, RestartTypeOK
    <2>3. UNCHANGED <<slot, served, idOf, proc, healthy, restarting, chan, nextHandle, fails, reaping, gpc, gh, gnew, tracked, restartMu, closed, stop, chans, fired, spawned, rpc, rh, lastFailed, tries, saw, seen, yielded, first, cancelled, outcome, inFlight, hpc, hsweep, todo, hh, hreq, htry, draining, ckill, suspect, config>>
      BY <1>57 DEF ShutdownDrained, Drained
    <2> QED
      BY <2>1, <2>2, <2>3 DEF TypeOK, RestartTypeOK
  <1>58. ASSUME CloseNow PROVE TypeOK'
    <2>1. cpc' \in CloseLabels
      BY <1>58 DEF CloseNow, CloseLabels, TypeOK, RestartTypeOK
    <2>2. UNCHANGED <<slot, served, idOf, proc, healthy, restarting, chan, nextHandle, fails, reaping, gpc, gh, gnew, tracked, restartMu, closed, stop, chans, fired, spawned, rpc, rh, lastFailed, tries, saw, seen, yielded, first, cancelled, outcome, inFlight, hpc, hsweep, todo, hh, hreq, htry, draining, ckill, graceful, suspect, config>>
      BY <1>58 DEF CloseNow
    <2> QED
      BY <2>1, <2>2 DEF TypeOK, RestartTypeOK
  <1>59. ASSUME CloseSwap PROVE TypeOK'
    <2>1. closed' \in BOOLEAN
      BY <1>59 DEF CloseSwap, TypeOK, RestartTypeOK
    <2>2. cpc' \in CloseLabels
      BY <1>59 DEF CloseSwap, CloseLabels, TypeOK, RestartTypeOK
    <2>3. UNCHANGED <<slot, served, idOf, proc, healthy, restarting, chan, nextHandle, fails, reaping, gpc, gh, gnew, tracked, restartMu, stop, chans, fired, spawned, rpc, rh, lastFailed, tries, saw, seen, yielded, first, cancelled, outcome, inFlight, hpc, hsweep, todo, hh, hreq, htry, draining, ckill, graceful, suspect, config>>
      BY <1>59 DEF CloseSwap
    <2> QED
      BY <2>1, <2>2, <2>3 DEF TypeOK, RestartTypeOK
  <1>60. ASSUME CloseSignal PROVE TypeOK'
    <2>1. stop' \in BOOLEAN
      BY <1>60 DEF CloseSignal, TypeOK, RestartTypeOK
    <2>2. draining' \in BOOLEAN
      BY <1>60 DEF CloseSignal, TypeOK, RestartTypeOK
    <2>3. cpc' \in CloseLabels
      BY <1>60 DEF CloseSignal, CloseLabels, TypeOK, RestartTypeOK
    <2>4. UNCHANGED <<slot, served, idOf, proc, healthy, restarting, chan, nextHandle, fails, reaping, gpc, gh, gnew, tracked, restartMu, closed, chans, fired, spawned, rpc, rh, lastFailed, tries, saw, seen, yielded, first, cancelled, outcome, inFlight, hpc, hsweep, todo, hh, hreq, htry, ckill, graceful, suspect, config>>
      BY <1>60 DEF CloseSignal
    <2> QED
      BY <2>1, <2>2, <2>3, <2>4 DEF TypeOK, RestartTypeOK
  <1>61. ASSUME CloseSnapshot PROVE TypeOK'
    <2>1. cpc' \in CloseLabels
      BY <1>61 DEF CloseSnapshot, Barrier, CloseLabels, TypeOK, RestartTypeOK
    <2>2. ckill' \in SUBSET Handles
      BY <1>61, SlotsAreHandles DEF CloseSnapshot
    <2>3. UNCHANGED <<slot, served, idOf, proc, healthy, restarting, chan, nextHandle, fails, reaping, gpc, gh, gnew, tracked, restartMu, closed, stop, chans, fired, spawned, rpc, rh, lastFailed, tries, saw, seen, yielded, first, cancelled, outcome, inFlight, hpc, hsweep, todo, hh, hreq, htry, draining, graceful, suspect, config>>
      BY <1>61 DEF CloseSnapshot, Barrier
    <2> QED
      BY <2>1, <2>2, <2>3 DEF TypeOK, RestartTypeOK
  <1>62. ASSUME CloseReturn PROVE TypeOK'
    <2>1. cpc' \in CloseLabels
      BY <1>62 DEF CloseReturn, CloseLabels, TypeOK, RestartTypeOK
    <2>2. UNCHANGED <<slot, served, idOf, proc, healthy, restarting, chan, nextHandle, fails, reaping, gpc, gh, gnew, tracked, restartMu, closed, stop, chans, fired, spawned, rpc, rh, lastFailed, tries, saw, seen, yielded, first, cancelled, outcome, inFlight, hpc, hsweep, todo, hh, hreq, htry, draining, ckill, graceful, suspect, config>>
      BY <1>62 DEF CloseReturn
    <2> QED
      BY <2>1, <2>2 DEF TypeOK, RestartTypeOK
  <1>63. ASSUME NEW h \in Handles, CloseKill(h) PROVE TypeOK'
    <2>1. proc' \in [Handles -> ProcStates]
      BY <1>63 DEF CloseKill, Kill, ProcStates, TypeOK, RestartTypeOK
    <2>2. ckill' \in SUBSET Handles
      BY <1>63 DEF CloseKill, Kill, TypeOK, RestartTypeOK
    <2>3. UNCHANGED <<slot, served, idOf, healthy, restarting, chan, nextHandle, fails, reaping, gpc, gh, gnew, tracked, restartMu, closed, stop, chans, fired, spawned, rpc, rh, lastFailed, tries, saw, seen, yielded, first, cancelled, outcome, inFlight, hpc, hsweep, todo, hh, hreq, htry, draining, cpc, graceful, suspect, config>>
      BY <1>63 DEF CloseKill, Kill
    <2> QED
      BY <2>1, <2>2, <2>3 DEF TypeOK, RestartTypeOK
  <1>64. CASE UNCHANGED vars
    BY <1>64 DEF vars, TypeOK, RestartTypeOK
  <1> QED
    BY <1>1, <1>2, <1>3, <1>4, <1>5, <1>6, <1>7, <1>8, <1>9, <1>10, <1>11, <1>12, <1>13, <1>14, <1>15, <1>16, <1>17, <1>18, <1>19, <1>20, <1>21, <1>22, <1>23, <1>24, <1>25, <1>26, <1>27, <1>28, <1>29, <1>30, <1>31, <1>32, <1>33, <1>34, <1>35, <1>36, <1>37, <1>38, <1>39, <1>40, <1>41, <1>42, <1>43, <1>44, <1>45, <1>46, <1>47, <1>48, <1>49, <1>50, <1>51, <1>52, <1>53, <1>54, <1>55, <1>56, <1>57, <1>58, <1>59, <1>60, <1>61, <1>62, <1>63, <1>64
       DEF Next, RequestStep, AttemptEnds, GoroutineStep, RestartStep, CheckerStep, CloseStep

\* beginLogicalRequest and done() keep logicalInFlight exact.
LEMMA AdmissionStep ==
  ASSUME TypeOK, Admission, [Next]_vars
  PROVE  Admission'
  <1> USE RestartAssumption DEF slotVars, handleVars, goroutineVars, closeVars, waitVars, requestVars, checkerVars, shutdownVars, poolFrame, closeFrame
  <1>1. ASSUME UNCHANGED <<rpc, inFlight, cpc, draining, graceful>> PROVE Admission'
    BY <1>1 DEF Admission, Active
  <1>2. ASSUME NEW r \in Requests, CallerCancels(r) \/ FirstByte(r) PROVE Admission'
    BY <1>1, <1>2 DEF CallerCancels, FirstByte
  <1>3. ASSUME NEW g \in Goroutines, EarlyCheck(g) \/ CompareAndSwap(g) \/ CondWait(g) \/ PublishChannel(g) \/ Recheck(g) \/ SpawnAborted(g) \/ SpawnWorker(g) \/ SpawnFails(g) \/ StartSucceeds(g) \/ StartFails(g), UNCHANGED poolFrame PROVE Admission'
    BY <1>1, <1>3 DEF EarlyCheck, GoStep, CompareAndSwap, CanSwapRestarting, CondWait, PublishChannel, Recheck, SpawnAborted, SpawnWorker, SpawnFails, StartSucceeds, StartFails, Kill
  <1>4. ASSUME NEW g \in Goroutines, StartTimesOut(g) \/ StartAborted(g) \/ StartFailed(g) \/ HotSwap(g) \/ KillOld(g) \/ KillNew(g) \/ FinishRestart(g) \/ GoExit(g), UNCHANGED poolFrame PROVE Admission'
    BY <1>1, <1>4 DEF StartTimesOut, GoStep, ClientKill, Kill, LeaveToReaper, StartAborted, StartFailed, HotSwap, MayInstall, KillOld, KillNew, FinishRestart, Notify, GoExit
  <1>5. ASSUME NEW h \in Handles, Reaper(h) \/ Break(h) \/ Probe(h) \/ HungNone(h) \/ CloseKill(h) PROVE Admission'
    BY <1>1, <1>5 DEF Reaper, Reap, Kill, Break, WorkerBreaks, Probe, HungNone, CloseKill
  <1>6. ASSUME NEW kind \in {"health", "hung"}, BeginSweep(kind) PROVE Admission'
    BY <1>1, <1>6 DEF BeginSweep
  <1>7. ASSUME EndSweep \/ CheckerExits \/ ProbeAborted \/ MarkUnhealthy \/ DecideRestart \/ DecideHealthy \/ SetHealthy \/ HungConfirm \/ HungKill \/ CheckerDispatch PROVE Admission'
    BY <1>1, <1>7 DEF EndSweep, CheckerExits, ProbeAborted, MarkUnhealthy, DecideRestart, DecideHealthy, SetHealthy, HungConfirm, HungKill, Kill, CheckerDispatch, MayRegister
  <1>8. ASSUME NEW g \in Goroutines, CheckerAdd(g) PROVE Admission'
    BY <1>1, <1>8 DEF CheckerAdd, GoRestart
  <1>9. ASSUME NEW h \in Handles, NEW r \in Requests, HungSnapshot(h, r) PROVE Admission'
    BY <1>1, <1>9 DEF HungSnapshot
  <1>10. ASSUME NEW r \in Requests, BeginRequest(r) PROVE Admission'
    <2>1. CASE closed \/ draining
      <3>1. Active' = Active
        BY <1>10, <2>1 DEF BeginRequest, ReqStep, Active, TypeOK
      <3> QED
        BY <1>10, <2>1, <3>1 DEF BeginRequest, Admission
    <2>2. CASE ~ (closed \/ draining)
      <3>1. Active' = Active \cup {r} /\ r \notin Active
        BY <1>10, <2>2 DEF BeginRequest, ReqStep, Active, TypeOK
      <3>2. IsFiniteSet(Active') /\ Cardinality(Active') = Cardinality(Active) + 1
        BY <3>1, FS_AddElement DEF Admission
      <3> QED
        BY <1>10, <2>2, <3>2 DEF BeginRequest, Admission
    <2> QED
      BY <2>1, <2>2
  <1>11. ASSUME NEW r \in Requests, GetWorker(r) PROVE Admission'
    <2>1. r \in Active /\ UNCHANGED <<cpc, draining, graceful>>
      BY <1>11 DEF GetWorker, Active, Waiting
    <2>2. \E l \in RequestLabels :
            /\ rpc' = [rpc EXCEPT ![r] = l]
            /\ \/ l \notin {"before", "ended"} /\ inFlight' = inFlight
               \/ l = "ended" /\ inFlight' = inFlight - 1
      BY <1>11 DEF GetWorker, End, BeginAttempt, ResetWait, RequestLabels
    <2> QED
      BY <2>1, <2>2, CountKept
  <1>12. ASSUME NEW r \in Requests, Refetch(r) PROVE Admission'
    <2>1. r \in Active /\ UNCHANGED <<cpc, draining, graceful>>
      BY <1>12 DEF Refetch, Active, Waiting
    <2>2. \E l \in RequestLabels :
            /\ rpc' = [rpc EXCEPT ![r] = l]
            /\ \/ l \notin {"before", "ended"} /\ inFlight' = inFlight
               \/ l = "ended" /\ inFlight' = inFlight - 1
      BY <1>12 DEF Refetch, End, BeginAttempt, ResetWait, RequestLabels
    <2> QED
      BY <2>1, <2>2, CountKept
  <1>13. ASSUME NEW r \in Requests, AnyNil(r) PROVE Admission'
    <2>1. r \in Active /\ UNCHANGED <<cpc, draining, graceful>>
      BY <1>13 DEF AnyNil, Active, Waiting
    <2>2. \E l \in RequestLabels :
            /\ rpc' = [rpc EXCEPT ![r] = l]
            /\ \/ l \notin {"before", "ended"} /\ inFlight' = inFlight
               \/ l = "ended" /\ inFlight' = inFlight - 1
      BY <1>13 DEF AnyNil, End, BeginAttempt, ResetWait, RequestLabels
    <2> QED
      BY <2>1, <2>2, CountKept
  <1>14. ASSUME NEW r \in Requests, AnyErr(r) PROVE Admission'
    <2>1. r \in Active /\ UNCHANGED <<cpc, draining, graceful>>
      BY <1>14 DEF AnyErr, Active, Waiting
    <2>2. \E l \in RequestLabels :
            /\ rpc' = [rpc EXCEPT ![r] = l]
            /\ \/ l \notin {"before", "ended"} /\ inFlight' = inFlight
               \/ l = "ended" /\ inFlight' = inFlight - 1
      BY <1>14 DEF AnyErr, End, BeginAttempt, ResetWait, RequestLabels
    <2> QED
      BY <2>1, <2>2, CountKept
  <1>15. ASSUME NEW r \in Requests, WaitAborted(r) PROVE Admission'
    <2>1. r \in Active /\ UNCHANGED <<cpc, draining, graceful>>
      BY <1>15 DEF WaitAborted, Active, Waiting
    <2>2. \E l \in RequestLabels :
            /\ rpc' = [rpc EXCEPT ![r] = l]
            /\ \/ l \notin {"before", "ended"} /\ inFlight' = inFlight
               \/ l = "ended" /\ inFlight' = inFlight - 1
      BY <1>15 DEF WaitAborted, End, ResetWait, Waiting, RequestLabels
    <2> QED
      BY <2>1, <2>2, CountKept
  <1>16. ASSUME NEW r \in Requests, AwaitPoll(r) PROVE Admission'
    <2>1. r \in Active /\ UNCHANGED <<cpc, draining, graceful, inFlight>>
      BY <1>16 DEF AwaitPoll, Active
    <2>2. rpc[r] \in RequestLabels /\ rpc = [rpc EXCEPT ![r] = rpc[r]]
      BY DEF TypeOK
    <2>3. \E l \in RequestLabels : rpc' = [rpc EXCEPT ![r] = l] /\ l \notin {"before", "ended"}
      BY <1>16, <2>1, <2>2 DEF AwaitPoll, RequestLabels, Active
    <2> QED
      BY <2>1, <2>3, CountKept
  <1>17. ASSUME NEW r \in Requests, AwaitDone(r) PROVE Admission'
    <2>1. r \in Active /\ UNCHANGED <<cpc, draining, graceful>>
      BY <1>17 DEF AwaitDone, ReqStep, Active, Waiting
    <2>2. \E l \in RequestLabels :
            /\ rpc' = [rpc EXCEPT ![r] = l]
            /\ \/ l \notin {"before", "ended"} /\ inFlight' = inFlight
               \/ l = "ended" /\ inFlight' = inFlight - 1
      BY <1>17 DEF AwaitDone, ReqStep, RequestLabels
    <2> QED
      BY <2>1, <2>2, CountKept
  <1>18. ASSUME NEW r \in Requests, AnyPoll(r) PROVE Admission'
    <2>1. r \in Active /\ UNCHANGED <<cpc, draining, graceful, inFlight>>
      BY <1>18 DEF AnyPoll, Active
    <2>2. rpc[r] \in RequestLabels /\ rpc = [rpc EXCEPT ![r] = rpc[r]]
      BY DEF TypeOK
    <2>3. \E l \in RequestLabels : rpc' = [rpc EXCEPT ![r] = l] /\ l \notin {"before", "ended"}
      BY <1>18, <2>1, <2>2 DEF AnyPoll, RequestLabels, Active
    <2> QED
      BY <2>1, <2>3, CountKept
  <1>19. ASSUME NEW r \in Requests, AnyDone(r) PROVE Admission'
    <2>1. r \in Active /\ UNCHANGED <<cpc, draining, graceful>>
      BY <1>19 DEF AnyDone, ReqStep, Active, Waiting
    <2>2. \E l \in RequestLabels :
            /\ rpc' = [rpc EXCEPT ![r] = l]
            /\ \/ l \notin {"before", "ended"} /\ inFlight' = inFlight
               \/ l = "ended" /\ inFlight' = inFlight - 1
      BY <1>19 DEF AnyDone, ReqStep, RequestLabels
    <2> QED
      BY <2>1, <2>2, CountKept
  <1>20. ASSUME NEW r \in Requests, AttemptAnswered(r) PROVE Admission'
    <2>1. r \in Active /\ UNCHANGED <<cpc, draining, graceful>>
      BY <1>20 DEF AttemptAnswered, Active, Waiting
    <2>2. \E l \in RequestLabels :
            /\ rpc' = [rpc EXCEPT ![r] = l]
            /\ \/ l \notin {"before", "ended"} /\ inFlight' = inFlight
               \/ l = "ended" /\ inFlight' = inFlight - 1
      BY <1>20 DEF AttemptAnswered, End, RequestLabels
    <2> QED
      BY <2>1, <2>2, CountKept
  <1>21. ASSUME NEW r \in Requests, AttemptCancelled(r) PROVE Admission'
    <2>1. r \in Active /\ UNCHANGED <<cpc, draining, graceful>>
      BY <1>21 DEF AttemptCancelled, Active, Waiting
    <2>2. \E l \in RequestLabels :
            /\ rpc' = [rpc EXCEPT ![r] = l]
            /\ \/ l \notin {"before", "ended"} /\ inFlight' = inFlight
               \/ l = "ended" /\ inFlight' = inFlight - 1
      BY <1>21 DEF AttemptCancelled, End, RequestLabels
    <2> QED
      BY <2>1, <2>2, CountKept
  <1>22. ASSUME NEW r \in Requests, AttemptFails(r) PROVE Admission'
    <2>1. r \in Active /\ UNCHANGED <<cpc, draining, graceful>>
      BY <1>22 DEF AttemptFails, ReqStep, Active, Waiting
    <2>2. \E l \in RequestLabels :
            /\ rpc' = [rpc EXCEPT ![r] = l]
            /\ \/ l \notin {"before", "ended"} /\ inFlight' = inFlight
               \/ l = "ended" /\ inFlight' = inFlight - 1
      BY <1>22 DEF AttemptFails, ReqStep, WorkerFailed, RequestLabels
    <2> QED
      BY <2>1, <2>2, CountKept
  <1>23. ASSUME NEW r \in Requests, AttemptMisread(r) PROVE Admission'
    <2>1. r \in Active /\ UNCHANGED <<cpc, draining, graceful>>
      BY <1>23 DEF AttemptMisread, ReqStep, Active, Waiting
    <2>2. \E l \in RequestLabels :
            /\ rpc' = [rpc EXCEPT ![r] = l]
            /\ \/ l \notin {"before", "ended"} /\ inFlight' = inFlight
               \/ l = "ended" /\ inFlight' = inFlight - 1
      BY <1>23 DEF AttemptMisread, ReqStep, RequestLabels
    <2> QED
      BY <2>1, <2>2, CountKept
  <1>24. ASSUME NEW r \in Requests, RequestDispatch(r) PROVE Admission'
    <2>1. r \in Active /\ UNCHANGED <<cpc, draining, graceful>>
      BY <1>24 DEF RequestDispatch, ReqStep, Active, Waiting
    <2>2. \E l \in RequestLabels :
            /\ rpc' = [rpc EXCEPT ![r] = l]
            /\ \/ l \notin {"before", "ended"} /\ inFlight' = inFlight
               \/ l = "ended" /\ inFlight' = inFlight - 1
      BY <1>24 DEF RequestDispatch, ReqStep, MayRegister, RequestLabels
    <2> QED
      BY <2>1, <2>2, CountKept
  <1>25. ASSUME NEW r \in Requests, NextAttempt(r) PROVE Admission'
    <2>1. r \in Active /\ UNCHANGED <<cpc, draining, graceful>>
      BY <1>25 DEF NextAttempt, Active, Waiting
    <2>2. \E l \in RequestLabels :
            /\ rpc' = [rpc EXCEPT ![r] = l]
            /\ \/ l \notin {"before", "ended"} /\ inFlight' = inFlight
               \/ l = "ended" /\ inFlight' = inFlight - 1
      BY <1>25 DEF NextAttempt, End, RequestLabels
    <2> QED
      BY <2>1, <2>2, CountKept
  <1>26. ASSUME NEW r \in Requests, NEW g \in Goroutines, AwaitSpawn(r, g) PROVE Admission'
    <2>1. r \in Active /\ UNCHANGED <<cpc, draining, graceful>>
      BY <1>26 DEF AwaitSpawn, ReqStep, Active, Waiting
    <2>2. \E l \in RequestLabels :
            /\ rpc' = [rpc EXCEPT ![r] = l]
            /\ \/ l \notin {"before", "ended"} /\ inFlight' = inFlight
               \/ l = "ended" /\ inFlight' = inFlight - 1
      BY <1>26 DEF AwaitSpawn, ReqStep, GoRestart, RequestLabels
    <2> QED
      BY <2>1, <2>2, CountKept
  <1>27. ASSUME NEW r \in Requests, NEW g \in Goroutines, RequestAdd(r, g) PROVE Admission'
    <2>1. r \in Active /\ UNCHANGED <<cpc, draining, graceful>>
      BY <1>27 DEF RequestAdd, ReqStep, Active, Waiting
    <2>2. \E l \in RequestLabels :
            /\ rpc' = [rpc EXCEPT ![r] = l]
            /\ \/ l \notin {"before", "ended"} /\ inFlight' = inFlight
               \/ l = "ended" /\ inFlight' = inFlight - 1
      BY <1>27 DEF RequestAdd, ReqStep, GoRestart, RequestLabels
    <2> QED
      BY <2>1, <2>2, CountKept
  <1>28. ASSUME Shutdown PROVE Admission'
    <2>1. Active' = Active
      BY <1>28 DEF Shutdown, Active
    <2> QED
      BY <1>28, <2>1 DEF Shutdown, Admission
  <1>29. ASSUME ShutdownDrained PROVE Admission'
    <2>1. Active' = Active
      BY <1>29 DEF ShutdownDrained, Active
    <2>2. Active = {}
      BY <1>29, FS_EmptySet DEF ShutdownDrained, Drained, Admission
    <2> QED
      BY <1>29, <2>1, <2>2 DEF ShutdownDrained, Admission
  <1>30. ASSUME CloseNow PROVE Admission'
    <2>1. Active' = Active
      BY <1>30 DEF CloseNow, Active
    <2> QED
      BY <1>30, <2>1 DEF CloseNow, Admission
  <1>31. ASSUME CloseSwap PROVE Admission'
    <2>1. Active' = Active
      BY <1>31 DEF CloseSwap, Active
    <2> QED
      BY <1>31, <2>1 DEF CloseSwap, Admission
  <1>32. ASSUME CloseSignal PROVE Admission'
    <2>1. Active' = Active
      BY <1>32 DEF CloseSignal, Active
    <2> QED
      BY <1>32, <2>1 DEF CloseSignal, Admission
  <1>33. ASSUME CloseSnapshot PROVE Admission'
    <2>1. Active' = Active
      BY <1>33 DEF CloseSnapshot, Active
    <2> QED
      BY <1>33, <2>1 DEF CloseSnapshot, Admission
  <1>34. ASSUME CloseReturn PROVE Admission'
    <2>1. Active' = Active
      BY <1>34 DEF CloseReturn, Active
    <2> QED
      BY <1>34, <2>1 DEF CloseReturn, Admission
  <1>35. CASE UNCHANGED vars
    BY <1>1, <1>35 DEF vars
  <1> QED
    BY <1>2, <1>3, <1>4, <1>5, <1>6, <1>7, <1>8, <1>9, <1>10, <1>11, <1>12, <1>13, <1>14, <1>15, <1>16, <1>17, <1>18, <1>19, <1>20, <1>21, <1>22, <1>23, <1>24, <1>25, <1>26, <1>27, <1>28, <1>29, <1>30, <1>31, <1>32, <1>33, <1>34, <1>35
       DEF Next, RequestStep, AttemptEnds, GoroutineStep, RestartStep, CheckerStep, CloseStep

\* dispatchRestart's critical section and Close's barrier exclude each other.
LEMMA BarriersStep ==
  ASSUME TypeOK, Barriers, [Next]_vars
  PROVE  Barriers'
  <1> USE RestartAssumption DEF slotVars, handleVars, goroutineVars, closeVars, waitVars, requestVars, checkerVars, shutdownVars, poolFrame, closeFrame
  <1>1. ASSUME UNCHANGED <<closed, cpc, rpc, restartMu, hpc, tracked>> PROVE Barriers'
    BY <1>1 DEF Barriers
  <1>2. ASSUME NEW r \in Requests, CallerCancels(r) \/ FirstByte(r) PROVE Barriers'
    BY <1>1, <1>2 DEF CallerCancels, FirstByte
  <1>3. ASSUME NEW g \in Goroutines, EarlyCheck(g) \/ CompareAndSwap(g) \/ CondWait(g) \/ PublishChannel(g) \/ Recheck(g) \/ SpawnAborted(g) \/ SpawnWorker(g) \/ SpawnFails(g) \/ StartSucceeds(g) \/ StartFails(g), UNCHANGED poolFrame PROVE Barriers'
    BY <1>1, <1>3 DEF EarlyCheck, GoStep, CompareAndSwap, CanSwapRestarting, CondWait, PublishChannel, Recheck, SpawnAborted, SpawnWorker, SpawnFails, StartSucceeds, StartFails, Kill
  <1>4. ASSUME NEW g \in Goroutines, StartTimesOut(g) \/ StartAborted(g) \/ StartFailed(g) \/ HotSwap(g) \/ KillOld(g) \/ KillNew(g) \/ FinishRestart(g), UNCHANGED poolFrame PROVE Barriers'
    BY <1>1, <1>4 DEF StartTimesOut, GoStep, ClientKill, Kill, LeaveToReaper, StartAborted, StartFailed, HotSwap, MayInstall, KillOld, KillNew, FinishRestart, Notify
  <1>5. ASSUME NEW h \in Handles, Reaper(h) \/ Break(h) \/ HungNone(h) \/ CloseKill(h) PROVE Barriers'
    BY <1>1, <1>5 DEF Reaper, Reap, Kill, Break, WorkerBreaks, HungNone, CloseKill
  <1>6. ASSUME NEW r \in Requests, BeginRequest(r) PROVE Barriers'
    BY <1>6 DEF BeginRequest, ReqStep, Barriers, TypeOK, RestartTypeOK
  <1>7. ASSUME NEW r \in Requests, GetWorker(r) PROVE Barriers'
    BY <1>7 DEF GetWorker, End, BeginAttempt, ResetWait, Barriers, TypeOK, RestartTypeOK
  <1>8. ASSUME NEW r \in Requests, Refetch(r) PROVE Barriers'
    BY <1>8 DEF Refetch, End, BeginAttempt, ResetWait, Barriers, TypeOK, RestartTypeOK
  <1>9. ASSUME NEW r \in Requests, AnyNil(r) PROVE Barriers'
    BY <1>9 DEF AnyNil, End, BeginAttempt, ResetWait, Barriers, TypeOK, RestartTypeOK
  <1>10. ASSUME NEW r \in Requests, AnyErr(r) PROVE Barriers'
    BY <1>10 DEF AnyErr, End, BeginAttempt, ResetWait, Barriers, TypeOK, RestartTypeOK
  <1>11. ASSUME NEW r \in Requests, WaitAborted(r) PROVE Barriers'
    BY <1>11 DEF WaitAborted, End, ResetWait, Waiting, Barriers, TypeOK, RestartTypeOK
  <1>12. ASSUME NEW r \in Requests, AwaitPoll(r) PROVE Barriers'
    BY <1>12 DEF AwaitPoll, Barriers, TypeOK, RestartTypeOK
  <1>13. ASSUME NEW r \in Requests, AwaitDone(r) PROVE Barriers'
    BY <1>13 DEF AwaitDone, ReqStep, Barriers, TypeOK, RestartTypeOK
  <1>14. ASSUME NEW r \in Requests, AnyPoll(r) PROVE Barriers'
    BY <1>14 DEF AnyPoll, Barriers, TypeOK, RestartTypeOK
  <1>15. ASSUME NEW r \in Requests, AnyDone(r) PROVE Barriers'
    BY <1>15 DEF AnyDone, ReqStep, Barriers, TypeOK, RestartTypeOK
  <1>16. ASSUME NEW r \in Requests, AttemptAnswered(r) PROVE Barriers'
    BY <1>16 DEF AttemptAnswered, End, Barriers, TypeOK, RestartTypeOK
  <1>17. ASSUME NEW r \in Requests, AttemptCancelled(r) PROVE Barriers'
    BY <1>17 DEF AttemptCancelled, End, Barriers, TypeOK, RestartTypeOK
  <1>18. ASSUME NEW r \in Requests, AttemptFails(r) PROVE Barriers'
    BY <1>18 DEF AttemptFails, ReqStep, WorkerFailed, Barriers, TypeOK, RestartTypeOK
  <1>19. ASSUME NEW r \in Requests, AttemptMisread(r) PROVE Barriers'
    BY <1>19 DEF AttemptMisread, ReqStep, Barriers, TypeOK, RestartTypeOK
  <1>20. ASSUME NEW r \in Requests, RequestDispatch(r) PROVE Barriers'
    BY <1>20 DEF RequestDispatch, ReqStep, MayRegister, Barriers, TypeOK, RestartTypeOK
  <1>21. ASSUME NEW r \in Requests, NextAttempt(r) PROVE Barriers'
    BY <1>21 DEF NextAttempt, End, Barriers, TypeOK, RestartTypeOK
  <1>22. ASSUME NEW r \in Requests, NEW g \in Goroutines, AwaitSpawn(r, g) PROVE Barriers'
    BY <1>22 DEF AwaitSpawn, ReqStep, GoRestart, Barriers, TypeOK, RestartTypeOK
  <1>23. ASSUME NEW r \in Requests, NEW g \in Goroutines, RequestAdd(r, g) PROVE Barriers'
    BY <1>23 DEF RequestAdd, ReqStep, GoRestart, Barriers, TypeOK, RestartTypeOK
  <1>24. ASSUME NEW g \in Goroutines, GoExit(g), UNCHANGED poolFrame PROVE Barriers'
    BY <1>24 DEF GoExit, GoStep, Barriers, TypeOK, RestartTypeOK
  <1>25. ASSUME NEW kind \in {"health", "hung"}, BeginSweep(kind) PROVE Barriers'
    BY <1>25 DEF BeginSweep, Barriers, TypeOK, RestartTypeOK
  <1>26. ASSUME EndSweep PROVE Barriers'
    BY <1>26 DEF EndSweep, Barriers, TypeOK, RestartTypeOK
  <1>27. ASSUME CheckerExits PROVE Barriers'
    BY <1>27 DEF CheckerExits, Barriers, TypeOK, RestartTypeOK
  <1>28. ASSUME ProbeAborted PROVE Barriers'
    BY <1>28 DEF ProbeAborted, Barriers, TypeOK, RestartTypeOK
  <1>29. ASSUME MarkUnhealthy PROVE Barriers'
    BY <1>29 DEF MarkUnhealthy, Barriers, TypeOK, RestartTypeOK
  <1>30. ASSUME DecideRestart PROVE Barriers'
    BY <1>30 DEF DecideRestart, Barriers, TypeOK, RestartTypeOK
  <1>31. ASSUME DecideHealthy PROVE Barriers'
    BY <1>31 DEF DecideHealthy, Barriers, TypeOK, RestartTypeOK
  <1>32. ASSUME SetHealthy PROVE Barriers'
    BY <1>32 DEF SetHealthy, Barriers, TypeOK, RestartTypeOK
  <1>33. ASSUME HungConfirm PROVE Barriers'
    BY <1>33 DEF HungConfirm, Barriers, TypeOK, RestartTypeOK
  <1>34. ASSUME HungKill PROVE Barriers'
    BY <1>34 DEF HungKill, Kill, Barriers, TypeOK, RestartTypeOK
  <1>35. ASSUME CheckerDispatch PROVE Barriers'
    BY <1>35 DEF CheckerDispatch, MayRegister, Barriers, TypeOK, RestartTypeOK
  <1>36. ASSUME NEW g \in Goroutines, CheckerAdd(g) PROVE Barriers'
    BY <1>36 DEF CheckerAdd, GoRestart, Barriers, TypeOK, RestartTypeOK
  <1>37. ASSUME NEW h \in Handles, Probe(h) PROVE Barriers'
    BY <1>37 DEF Probe, Barriers, TypeOK, RestartTypeOK
  <1>38. ASSUME NEW h \in Handles, NEW r \in Requests, HungSnapshot(h, r) PROVE Barriers'
    BY <1>38 DEF HungSnapshot, Barriers, TypeOK, RestartTypeOK
  <1>39. ASSUME Shutdown PROVE Barriers'
    BY <1>39 DEF Shutdown, Barriers, TypeOK, RestartTypeOK
  <1>40. ASSUME ShutdownDrained PROVE Barriers'
    BY <1>40 DEF ShutdownDrained, Drained, Barriers, TypeOK, RestartTypeOK
  <1>41. ASSUME CloseNow PROVE Barriers'
    BY <1>41 DEF CloseNow, Barriers, TypeOK, RestartTypeOK
  <1>42. ASSUME CloseSwap PROVE Barriers'
    BY <1>42 DEF CloseSwap, Barriers, TypeOK, RestartTypeOK
  <1>43. ASSUME CloseSignal PROVE Barriers'
    BY <1>43 DEF CloseSignal, Barriers, TypeOK, RestartTypeOK
  <1>44. ASSUME CloseSnapshot PROVE Barriers'
    BY <1>44 DEF CloseSnapshot, Barrier, Barriers, TypeOK, RestartTypeOK
  <1>45. ASSUME CloseReturn PROVE Barriers'
    BY <1>45 DEF CloseReturn, Barriers, TypeOK, RestartTypeOK
  <1>46. CASE UNCHANGED vars
    BY <1>1, <1>46 DEF vars
  <1> QED
    BY <1>2, <1>3, <1>4, <1>5, <1>6, <1>7, <1>8, <1>9, <1>10, <1>11, <1>12, <1>13, <1>14, <1>15, <1>16, <1>17, <1>18, <1>19, <1>20, <1>21, <1>22, <1>23, <1>24, <1>25, <1>26, <1>27, <1>28, <1>29, <1>30, <1>31, <1>32, <1>33, <1>34, <1>35, <1>36, <1>37, <1>38, <1>39, <1>40, <1>41, <1>42, <1>43, <1>44, <1>45, <1>46
       DEF Next, RequestStep, AttemptEnds, GoroutineStep, RestartStep, CheckerStep, CloseStep

\* The compare-and-swap and finishRestart keep the restarting flag a lock.
LEMMA GuardHeldStep ==
  ASSUME TypeOK, ServedPlaces, GuardHeld, [Next]_vars
  PROVE  GuardHeld'
  <1> USE RestartAssumption DEF slotVars, handleVars, goroutineVars, closeVars, waitVars, requestVars, checkerVars, shutdownVars, poolFrame, closeFrame
  <1>1. ASSUME UNCHANGED <<gpc, gh, restarting, chan>> PROVE GuardHeld'
    BY <1>1 DEF GuardHeld, Inside, GuardLabels
  <1>2. ASSUME NEW g \in Goroutines, ~ Inside(g), ~ Inside(g)', UNCHANGED <<restarting, chan>>,
               \A d \in Goroutines \ {g} : gpc'[d] = gpc[d] /\ gh'[d] = gh[d]
        PROVE  GuardHeld'
    <2>1. \A d \in Goroutines : Inside(d)' => d # g /\ Inside(d)
      BY <1>2 DEF Inside
    <2>2. \A d \in Goroutines : Inside(d) => d # g
      BY <1>2
    <2> QED
      BY <1>2, <2>1, <2>2 DEF GuardHeld, Inside
  <1>3. ASSUME NEW r \in Requests, BeginRequest(r) \/ CallerCancels(r) \/ GetWorker(r) \/ Refetch(r) \/ AnyNil(r) \/ AnyErr(r) \/ WaitAborted(r) \/ AwaitPoll(r) \/ AwaitDone(r) \/ AnyPoll(r) PROVE GuardHeld'
    BY <1>1, <1>3 DEF BeginRequest, ReqStep, CallerCancels, GetWorker, End, BeginAttempt, ResetWait, Refetch, AnyNil, AnyErr, WaitAborted, Waiting, AwaitPoll, AwaitDone, AnyPoll
  <1>4. ASSUME NEW r \in Requests, AnyDone(r) \/ FirstByte(r) \/ AttemptAnswered(r) \/ AttemptCancelled(r) \/ AttemptFails(r) \/ AttemptMisread(r) \/ RequestDispatch(r) \/ NextAttempt(r) PROVE GuardHeld'
    BY <1>1, <1>4 DEF AnyDone, ReqStep, FirstByte, AttemptAnswered, End, AttemptCancelled, AttemptFails, WorkerFailed, AttemptMisread, RequestDispatch, MayRegister, NextAttempt
  <1>5. ASSUME NEW h \in Handles, Reaper(h) \/ Break(h) \/ Probe(h) \/ HungNone(h) \/ CloseKill(h) PROVE GuardHeld'
    BY <1>1, <1>5 DEF Reaper, Reap, Kill, Break, WorkerBreaks, Probe, HungNone, CloseKill
  <1>6. ASSUME NEW kind \in {"health", "hung"}, BeginSweep(kind) PROVE GuardHeld'
    BY <1>1, <1>6 DEF BeginSweep
  <1>7. ASSUME EndSweep \/ CheckerExits \/ ProbeAborted \/ MarkUnhealthy \/ DecideRestart \/ DecideHealthy \/ SetHealthy \/ HungConfirm \/ HungKill \/ CheckerDispatch PROVE GuardHeld'
    BY <1>1, <1>7 DEF EndSweep, CheckerExits, ProbeAborted, MarkUnhealthy, DecideRestart, DecideHealthy, SetHealthy, HungConfirm, HungKill, Kill, CheckerDispatch, MayRegister
  <1>8. ASSUME NEW h \in Handles, NEW r \in Requests, HungSnapshot(h, r) PROVE GuardHeld'
    BY <1>1, <1>8 DEF HungSnapshot
  <1>9. ASSUME Shutdown \/ ShutdownDrained \/ CloseNow \/ CloseSwap \/ CloseSignal \/ CloseSnapshot \/ CloseReturn PROVE GuardHeld'
    BY <1>1, <1>9 DEF Shutdown, ShutdownDrained, Drained, CloseNow, CloseSwap, CloseSignal, CloseSnapshot, Barrier, CloseReturn
  <1>10. ASSUME NEW r \in Requests, NEW g \in Goroutines, AwaitSpawn(r, g) PROVE GuardHeld'
    <2>1. /\ UNCHANGED <<restarting, chan>>
          /\ \A d \in Goroutines \ {g} : gpc'[d] = gpc[d] /\ gh'[d] = gh[d]
      BY <1>10 DEF AwaitSpawn, ReqStep, GoRestart, TypeOK, RestartTypeOK
    <2>2. ~ Inside(g) /\ ~ Inside(g)'
      BY <1>10 DEF AwaitSpawn, ReqStep, GoRestart, Inside, GuardLabels, TypeOK, RestartTypeOK
    <2> QED
      BY <1>2, <2>1, <2>2
  <1>11. ASSUME NEW r \in Requests, NEW g \in Goroutines, RequestAdd(r, g) PROVE GuardHeld'
    <2>1. /\ UNCHANGED <<restarting, chan>>
          /\ \A d \in Goroutines \ {g} : gpc'[d] = gpc[d] /\ gh'[d] = gh[d]
      BY <1>11 DEF RequestAdd, ReqStep, GoRestart, TypeOK, RestartTypeOK
    <2>2. ~ Inside(g) /\ ~ Inside(g)'
      BY <1>11 DEF RequestAdd, ReqStep, GoRestart, Inside, GuardLabels, TypeOK, RestartTypeOK
    <2> QED
      BY <1>2, <2>1, <2>2
  <1>12. ASSUME NEW g \in Goroutines, EarlyCheck(g), UNCHANGED poolFrame PROVE GuardHeld'
    <2>1. /\ UNCHANGED <<restarting, chan>>
          /\ \A d \in Goroutines \ {g} : gpc'[d] = gpc[d] /\ gh'[d] = gh[d]
      BY <1>12 DEF EarlyCheck, GoStep, TypeOK, RestartTypeOK
    <2>2. ~ Inside(g) /\ ~ Inside(g)'
      BY <1>12 DEF EarlyCheck, GoStep, Inside, GuardLabels, TypeOK, RestartTypeOK
    <2> QED
      BY <1>2, <2>1, <2>2
  <1>13. ASSUME NEW g \in Goroutines, CompareAndSwap(g), UNCHANGED poolFrame PROVE GuardHeld'
    <2>1. /\ gh' = gh /\ chan' = chan /\ gh[g] \in Handles /\ gpc[g] = "cas"
          /\ \A d \in Goroutines \ {g} : gpc'[d] = gpc[d]
          /\ restarting'[gh[g]] /\ \A h \in Handles : restarting[h] => restarting'[h]
          /\ gpc'[g] = IF restarting[gh[g]] THEN "wait" ELSE "publish"
      BY <1>13 DEF CompareAndSwap, GoStep, CanSwapRestarting, ServedPlaces, TypeOK, RestartTypeOK
    <2>2. \A d \in Goroutines \ {g} : Inside(d)' <=> Inside(d)
      BY <2>1 DEF Inside
    <2>3. ~ Inside(g) /\ (Inside(g)' => ~ restarting[gh[g]])
      BY <2>1 DEF Inside, GuardLabels
    <2>4. \A d \in Goroutines : Inside(d) => gh[d] \in Handles
      BY DEF Inside, GuardLabels, ServedPlaces, TypeOK, RestartTypeOK
    <2>5. \A d \in Goroutines : Inside(d)' => restarting'[gh[d]]
      BY <2>1, <2>2, <2>4 DEF GuardHeld
    <2>6. \A d, e \in Goroutines : Inside(d)' /\ Inside(e)' /\ gh[d] = gh[e] => d = e
      BY <2>1, <2>2, <2>3 DEF GuardHeld
    <2>7. \A h \in Handles : chan[h] =>
            \E d \in Goroutines \ {g} : gh[d] = h /\ Inside(d) /\ gpc[d] # "publish"
      BY <2>3 DEF GuardHeld
    <2> QED
      BY <2>1, <2>2, <2>5, <2>6, <2>7 DEF GuardHeld
  <1>14. ASSUME NEW g \in Goroutines, CondWait(g), UNCHANGED poolFrame PROVE GuardHeld'
    <2>1. /\ UNCHANGED <<restarting, chan>>
          /\ \A d \in Goroutines \ {g} : gpc'[d] = gpc[d] /\ gh'[d] = gh[d]
      BY <1>14 DEF CondWait, GoStep, TypeOK, RestartTypeOK
    <2>2. ~ Inside(g) /\ ~ Inside(g)'
      BY <1>14 DEF CondWait, GoStep, Inside, GuardLabels, TypeOK, RestartTypeOK
    <2> QED
      BY <1>2, <2>1, <2>2
  <1>15. ASSUME NEW g \in Goroutines, PublishChannel(g), UNCHANGED poolFrame PROVE GuardHeld'
    BY <1>15 DEF PublishChannel, GoStep, GuardHeld, Inside, GuardLabels, TypeOK, RestartTypeOK
  <1>16. ASSUME NEW g \in Goroutines, Recheck(g), UNCHANGED poolFrame PROVE GuardHeld'
    BY <1>16 DEF Recheck, GoStep, GuardHeld, Inside, GuardLabels, TypeOK, RestartTypeOK
  <1>17. ASSUME NEW g \in Goroutines, SpawnAborted(g), UNCHANGED poolFrame PROVE GuardHeld'
    BY <1>17 DEF SpawnAborted, GoStep, GuardHeld, Inside, GuardLabels, TypeOK, RestartTypeOK
  <1>18. ASSUME NEW g \in Goroutines, SpawnWorker(g), UNCHANGED poolFrame PROVE GuardHeld'
    BY <1>18 DEF SpawnWorker, GoStep, GuardHeld, Inside, GuardLabels, TypeOK, RestartTypeOK
  <1>19. ASSUME NEW g \in Goroutines, SpawnFails(g), UNCHANGED poolFrame PROVE GuardHeld'
    BY <1>19 DEF SpawnFails, GoStep, GuardHeld, Inside, GuardLabels, TypeOK, RestartTypeOK
  <1>20. ASSUME NEW g \in Goroutines, StartSucceeds(g), UNCHANGED poolFrame PROVE GuardHeld'
    BY <1>20 DEF StartSucceeds, GoStep, GuardHeld, Inside, GuardLabels, TypeOK, RestartTypeOK
  <1>21. ASSUME NEW g \in Goroutines, StartFails(g), UNCHANGED poolFrame PROVE GuardHeld'
    BY <1>21 DEF StartFails, GoStep, Kill, GuardHeld, Inside, GuardLabels, TypeOK, RestartTypeOK
  <1>22. ASSUME NEW g \in Goroutines, StartTimesOut(g), UNCHANGED poolFrame PROVE GuardHeld'
    BY <1>22 DEF StartTimesOut, GoStep, ClientKill, Kill, LeaveToReaper, GuardHeld, Inside, GuardLabels, TypeOK, RestartTypeOK
  <1>23. ASSUME NEW g \in Goroutines, StartAborted(g), UNCHANGED poolFrame PROVE GuardHeld'
    BY <1>23 DEF StartAborted, GoStep, ClientKill, Kill, LeaveToReaper, GuardHeld, Inside, GuardLabels, TypeOK, RestartTypeOK
  <1>24. ASSUME NEW g \in Goroutines, StartFailed(g), UNCHANGED poolFrame PROVE GuardHeld'
    BY <1>24 DEF StartFailed, GoStep, GuardHeld, Inside, GuardLabels, TypeOK, RestartTypeOK
  <1>25. ASSUME NEW g \in Goroutines, HotSwap(g), UNCHANGED poolFrame PROVE GuardHeld'
    BY <1>25 DEF HotSwap, GoStep, MayInstall, GuardHeld, Inside, GuardLabels, TypeOK, RestartTypeOK
  <1>26. ASSUME NEW g \in Goroutines, KillOld(g), UNCHANGED poolFrame PROVE GuardHeld'
    BY <1>26 DEF KillOld, GoStep, Kill, GuardHeld, Inside, GuardLabels, TypeOK, RestartTypeOK
  <1>27. ASSUME NEW g \in Goroutines, KillNew(g), UNCHANGED poolFrame PROVE GuardHeld'
    BY <1>27 DEF KillNew, GoStep, Kill, GuardHeld, Inside, GuardLabels, TypeOK, RestartTypeOK
  <1>28. ASSUME NEW g \in Goroutines, FinishRestart(g), UNCHANGED poolFrame PROVE GuardHeld'
    BY <1>28 DEF FinishRestart, GoStep, Notify, GuardHeld, Inside, GuardLabels, TypeOK, RestartTypeOK
  <1>29. ASSUME NEW g \in Goroutines, GoExit(g), UNCHANGED poolFrame PROVE GuardHeld'
    <2>1. /\ UNCHANGED <<restarting, chan>>
          /\ \A d \in Goroutines \ {g} : gpc'[d] = gpc[d] /\ gh'[d] = gh[d]
      BY <1>29 DEF GoExit, GoStep, TypeOK, RestartTypeOK
    <2>2. ~ Inside(g) /\ ~ Inside(g)'
      BY <1>29 DEF GoExit, GoStep, Inside, GuardLabels, TypeOK, RestartTypeOK
    <2> QED
      BY <1>2, <2>1, <2>2
  <1>30. ASSUME NEW g \in Goroutines, CheckerAdd(g) PROVE GuardHeld'
    <2>1. /\ UNCHANGED <<restarting, chan>>
          /\ \A d \in Goroutines \ {g} : gpc'[d] = gpc[d] /\ gh'[d] = gh[d]
      BY <1>30 DEF CheckerAdd, GoRestart, TypeOK, RestartTypeOK
    <2>2. ~ Inside(g) /\ ~ Inside(g)'
      BY <1>30 DEF CheckerAdd, GoRestart, Inside, GuardLabels, TypeOK, RestartTypeOK
    <2> QED
      BY <1>2, <2>1, <2>2
  <1>31. CASE UNCHANGED vars
    BY <1>1, <1>31 DEF vars
  <1> QED
    BY <1>3, <1>4, <1>5, <1>6, <1>7, <1>8, <1>9, <1>10, <1>11, <1>12, <1>13, <1>14, <1>15, <1>16, <1>17, <1>18, <1>19, <1>20, <1>21, <1>22, <1>23, <1>24, <1>25, <1>26, <1>27, <1>28, <1>29, <1>30, <1>31
       DEF Next, RequestStep, AttemptEnds, GoroutineStep, RestartStep, CheckerStep, CloseStep

\* What a step picks up is in a slot, or was.
LEMMA ServedPlacesStep ==
  ASSUME TypeOK, Newborn, ServedPlaces, [Next]_vars
  PROVE  ServedPlaces'
  <1> USE RestartAssumption DEF slotVars, handleVars, goroutineVars, closeVars, waitVars, requestVars, checkerVars, shutdownVars, poolFrame, closeFrame
  <1>1. ASSUME UNCHANGED <<slot, served, idOf, proc, gpc, gh, rpc, rh, lastFailed, hpc, hh, hreq, todo, ckill>> PROVE ServedPlaces'
    BY <1>1 DEF ServedPlaces, SlotHandles, LookLabels
  <1>2. ASSUME NEW r \in Requests, CallerCancels(r) \/ FirstByte(r) PROVE ServedPlaces'
    BY <1>1, <1>2 DEF CallerCancels, FirstByte
  <1>3. ASSUME Shutdown \/ ShutdownDrained \/ CloseNow \/ CloseSwap \/ CloseSignal \/ CloseReturn PROVE ServedPlaces'
    BY <1>1, <1>3 DEF Shutdown, ShutdownDrained, Drained, CloseNow, CloseSwap, CloseSignal, CloseReturn
  <1>4. ASSUME NEW r \in Requests, BeginRequest(r) PROVE ServedPlaces'
    BY <1>4 DEF BeginRequest, ReqStep, ServedPlaces, SlotHandles, LookLabels, TypeOK, RestartTypeOK
  <1>5. ASSUME NEW r \in Requests, GetWorker(r) PROVE ServedPlaces'
    <2>1. SlotHandles' = SlotHandles /\ HealthyWorkers \subseteq served
      BY <1>5, FetchRow DEF SlotHandles, HealthyWorkers, ServedPlaces
    <2> QED
      BY <1>5, <2>1, FetchRow DEF ServedPlaces
  <1>6. ASSUME NEW r \in Requests, Refetch(r) PROVE ServedPlaces'
    <2>1. SlotHandles' = SlotHandles /\ HealthyWorkers \subseteq served
      BY <1>6, FetchRow DEF SlotHandles, HealthyWorkers, ServedPlaces
    <2> QED
      BY <1>6, <2>1, FetchRow DEF ServedPlaces
  <1>7. ASSUME NEW r \in Requests, AnyNil(r) PROVE ServedPlaces'
    <2>1. SlotHandles' = SlotHandles /\ HealthyWorkers \subseteq served
      BY <1>7, FetchRow DEF SlotHandles, HealthyWorkers, ServedPlaces
    <2> QED
      BY <1>7, <2>1, FetchRow DEF ServedPlaces
  <1>8. ASSUME NEW r \in Requests, AnyErr(r) PROVE ServedPlaces'
    <2>1. SlotHandles' = SlotHandles /\ HealthyWorkers \subseteq served
      BY <1>8, FetchRow DEF SlotHandles, HealthyWorkers, ServedPlaces
    <2> QED
      BY <1>8, <2>1, FetchRow DEF ServedPlaces
  <1>9. ASSUME NEW r \in Requests, WaitAborted(r) PROVE ServedPlaces'
    <2>1. SlotHandles' = SlotHandles /\ HealthyWorkers \subseteq served
      BY <1>9, FetchRow DEF SlotHandles, HealthyWorkers, ServedPlaces
    <2> QED
      BY <1>9, <2>1, FetchRow DEF ServedPlaces
  <1>10. ASSUME NEW r \in Requests, AwaitPoll(r) PROVE ServedPlaces'
    BY <1>10 DEF AwaitPoll, ServedPlaces, SlotHandles, LookLabels, TypeOK, RestartTypeOK
  <1>11. ASSUME NEW r \in Requests, AwaitDone(r) PROVE ServedPlaces'
    BY <1>11 DEF AwaitDone, ReqStep, ServedPlaces, SlotHandles, LookLabels, TypeOK, RestartTypeOK
  <1>12. ASSUME NEW r \in Requests, AnyPoll(r) PROVE ServedPlaces'
    BY <1>12 DEF AnyPoll, ServedPlaces, SlotHandles, LookLabels, TypeOK, RestartTypeOK
  <1>13. ASSUME NEW r \in Requests, AnyDone(r) PROVE ServedPlaces'
    BY <1>13 DEF AnyDone, ReqStep, ServedPlaces, SlotHandles, LookLabels, TypeOK, RestartTypeOK
  <1>14. ASSUME NEW r \in Requests, AttemptAnswered(r) PROVE ServedPlaces'
    BY <1>14 DEF AttemptAnswered, End, ServedPlaces, SlotHandles, LookLabels, TypeOK, RestartTypeOK
  <1>15. ASSUME NEW r \in Requests, AttemptCancelled(r) PROVE ServedPlaces'
    BY <1>15 DEF AttemptCancelled, End, ServedPlaces, SlotHandles, LookLabels, TypeOK, RestartTypeOK
  <1>16. ASSUME NEW r \in Requests, AttemptFails(r) PROVE ServedPlaces'
    BY <1>16 DEF AttemptFails, ReqStep, WorkerFailed, ServedPlaces, SlotHandles, LookLabels, TypeOK, RestartTypeOK
  <1>17. ASSUME NEW r \in Requests, AttemptMisread(r) PROVE ServedPlaces'
    BY <1>17 DEF AttemptMisread, ReqStep, ServedPlaces, SlotHandles, LookLabels, TypeOK, RestartTypeOK
  <1>18. ASSUME NEW r \in Requests, RequestDispatch(r) PROVE ServedPlaces'
    BY <1>18 DEF RequestDispatch, ReqStep, MayRegister, ServedPlaces, SlotHandles, LookLabels, TypeOK, RestartTypeOK
  <1>19. ASSUME NEW r \in Requests, NextAttempt(r) PROVE ServedPlaces'
    <2>1. SlotHandles' = SlotHandles
      BY <1>19, NextRow DEF SlotHandles
    <2> QED
      BY <1>19, <2>1, NextRow DEF ServedPlaces
  <1>20. ASSUME NEW r \in Requests, NEW g \in Goroutines, AwaitSpawn(r, g) PROVE ServedPlaces'
    BY <1>20 DEF AwaitSpawn, ReqStep, GoRestart, ServedPlaces, SlotHandles, LookLabels, TypeOK, RestartTypeOK
  <1>21. ASSUME NEW r \in Requests, NEW g \in Goroutines, RequestAdd(r, g) PROVE ServedPlaces'
    BY <1>21 DEF RequestAdd, ReqStep, GoRestart, ServedPlaces, SlotHandles, LookLabels, TypeOK, RestartTypeOK
  <1>22. ASSUME NEW g \in Goroutines, EarlyCheck(g), UNCHANGED poolFrame PROVE ServedPlaces'
    BY <1>22 DEF EarlyCheck, GoStep, ServedPlaces, SlotHandles, LookLabels, TypeOK, RestartTypeOK
  <1>23. ASSUME NEW g \in Goroutines, CompareAndSwap(g), UNCHANGED poolFrame PROVE ServedPlaces'
    BY <1>23 DEF CompareAndSwap, GoStep, CanSwapRestarting, ServedPlaces, SlotHandles, LookLabels, TypeOK, RestartTypeOK
  <1>24. ASSUME NEW g \in Goroutines, CondWait(g), UNCHANGED poolFrame PROVE ServedPlaces'
    BY <1>24 DEF CondWait, GoStep, ServedPlaces, SlotHandles, LookLabels, TypeOK, RestartTypeOK
  <1>25. ASSUME NEW g \in Goroutines, PublishChannel(g), UNCHANGED poolFrame PROVE ServedPlaces'
    BY <1>25 DEF PublishChannel, GoStep, ServedPlaces, SlotHandles, LookLabels, TypeOK, RestartTypeOK
  <1>26. ASSUME NEW g \in Goroutines, Recheck(g), UNCHANGED poolFrame PROVE ServedPlaces'
    BY <1>26 DEF Recheck, GoStep, ServedPlaces, SlotHandles, LookLabels, TypeOK, RestartTypeOK
  <1>27. ASSUME NEW g \in Goroutines, SpawnAborted(g), UNCHANGED poolFrame PROVE ServedPlaces'
    BY <1>27 DEF SpawnAborted, GoStep, ServedPlaces, SlotHandles, LookLabels, TypeOK, RestartTypeOK
  <1>28. ASSUME NEW g \in Goroutines, SpawnWorker(g), UNCHANGED poolFrame PROVE ServedPlaces'
    <2>1. /\ nextHandle \notin served /\ nextHandle \in Handles
      BY NextIsHandle, <1>28 DEF SpawnWorker, Newborn
    <2>2. /\ UNCHANGED <<slot, served, gh, rpc, rh, lastFailed, hpc, hh, hreq, todo, ckill>>
          /\ gpc[g] # "idle" /\ \A d \in Goroutines \ {g} : gpc'[d] = gpc[d]
          /\ \A h \in Handles \ {nextHandle} : idOf'[h] = idOf[h] /\ proc'[h] = proc[h]
      BY <1>28 DEF SpawnWorker, GoStep, TypeOK, RestartTypeOK
    <2>3. SlotHandles' = SlotHandles /\ served \subseteq Handles
      BY <2>2 DEF SlotHandles, TypeOK, RestartTypeOK
    <2> QED
      BY <2>1, <2>2, <2>3 DEF ServedPlaces
  <1>29. ASSUME NEW g \in Goroutines, SpawnFails(g), UNCHANGED poolFrame PROVE ServedPlaces'
    BY <1>29 DEF SpawnFails, GoStep, ServedPlaces, SlotHandles, LookLabels, TypeOK, RestartTypeOK
  <1>30. ASSUME NEW g \in Goroutines, StartSucceeds(g), UNCHANGED poolFrame PROVE ServedPlaces'
    BY <1>30 DEF StartSucceeds, GoStep, ServedPlaces, SlotHandles, LookLabels, TypeOK, RestartTypeOK
  <1>31. ASSUME NEW g \in Goroutines, StartFails(g), UNCHANGED poolFrame PROVE ServedPlaces'
    BY <1>31 DEF StartFails, GoStep, Kill, ServedPlaces, SlotHandles, LookLabels, TypeOK, RestartTypeOK
  <1>32. ASSUME NEW g \in Goroutines, StartTimesOut(g), UNCHANGED poolFrame PROVE ServedPlaces'
    BY <1>32 DEF StartTimesOut, GoStep, ClientKill, Kill, LeaveToReaper, ServedPlaces, SlotHandles, LookLabels, TypeOK, RestartTypeOK
  <1>33. ASSUME NEW g \in Goroutines, StartAborted(g), UNCHANGED poolFrame PROVE ServedPlaces'
    BY <1>33 DEF StartAborted, GoStep, ClientKill, Kill, LeaveToReaper, ServedPlaces, SlotHandles, LookLabels, TypeOK, RestartTypeOK
  <1>34. ASSUME NEW g \in Goroutines, StartFailed(g), UNCHANGED poolFrame PROVE ServedPlaces'
    BY <1>34 DEF StartFailed, GoStep, ServedPlaces, SlotHandles, LookLabels, TypeOK, RestartTypeOK
  <1>35. ASSUME NEW g \in Goroutines, HotSwap(g), UNCHANGED poolFrame PROVE ServedPlaces'
    <2>1. /\ gnew[g] # None /\ gnew[g] \in Handles /\ gpc[g] = "install" /\ gh[g] \in served
          /\ idOf[gnew[g]] \in Slots /\ proc[gnew[g]] \notin {"none", "booting"}
      <3>1. gpc[g] = "install"
        BY <1>35 DEF HotSwap, GoStep
      <3>2. gnew[g] # None /\ gh[g] \in served /\ proc[gnew[g]] \in {"up", "broken"}
        BY <3>1 DEF Newborn, ServedPlaces
      <3>3. gnew[g] \in Handles /\ idOf[gnew[g]] \in Slots
        BY <3>2 DEF Newborn, TypeOK, RestartTypeOK
      <3> QED
        BY <3>1, <3>2, <3>3
    <2>2. /\ UNCHANGED <<idOf, proc, gh, rpc, rh, lastFailed, hpc, hh, hreq, todo, ckill>>
          /\ \A d \in Goroutines \ {g} : gpc'[d] = gpc[d]
          /\ \/ slot' = slot /\ served' = served
             \/ slot' = [slot EXCEPT ![idOf[gh[g]]] = gnew[g]] /\ served' = served \cup {gnew[g]}
      BY <1>35 DEF HotSwap, GoStep, TypeOK, RestartTypeOK
    <2>3. SlotHandles' \subseteq served'
      <3>1. CASE slot' = slot /\ served' = served
        BY <3>1 DEF SlotHandles, ServedPlaces
      <3>2. CASE slot' = [slot EXCEPT ![idOf[gh[g]]] = gnew[g]] /\ served' = served \cup {gnew[g]}
        BY <3>2 DEF SlotHandles, ServedPlaces, TypeOK, RestartTypeOK
      <3> QED
        BY <2>2, <3>1, <3>2
    <2>4. served \subseteq served' /\ \A h \in served' : idOf[h] \in Slots /\ proc[h] \notin {"none", "booting"}
      BY <2>1, <2>2 DEF ServedPlaces
    <2> QED
      BY <2>1, <2>2, <2>3, <2>4 DEF ServedPlaces
  <1>36. ASSUME NEW g \in Goroutines, KillOld(g), UNCHANGED poolFrame PROVE ServedPlaces'
    BY <1>36 DEF KillOld, GoStep, Kill, ServedPlaces, SlotHandles, LookLabels, TypeOK, RestartTypeOK
  <1>37. ASSUME NEW g \in Goroutines, KillNew(g), UNCHANGED poolFrame PROVE ServedPlaces'
    BY <1>37 DEF KillNew, GoStep, Kill, ServedPlaces, SlotHandles, LookLabels, TypeOK, RestartTypeOK
  <1>38. ASSUME NEW g \in Goroutines, FinishRestart(g), UNCHANGED poolFrame PROVE ServedPlaces'
    BY <1>38 DEF FinishRestart, GoStep, Notify, ServedPlaces, SlotHandles, LookLabels, TypeOK, RestartTypeOK
  <1>39. ASSUME NEW g \in Goroutines, GoExit(g), UNCHANGED poolFrame PROVE ServedPlaces'
    BY <1>39 DEF GoExit, GoStep, ServedPlaces, SlotHandles, LookLabels, TypeOK, RestartTypeOK
  <1>40. ASSUME NEW h \in Handles, Reaper(h) PROVE ServedPlaces'
    BY <1>40 DEF Reaper, Reap, Kill, ServedPlaces, SlotHandles, LookLabels, TypeOK, RestartTypeOK
  <1>41. ASSUME NEW h \in Handles, Break(h) PROVE ServedPlaces'
    BY <1>41 DEF Break, WorkerBreaks, ServedPlaces, SlotHandles, LookLabels, TypeOK, RestartTypeOK
  <1>42. ASSUME NEW kind \in {"health", "hung"}, BeginSweep(kind) PROVE ServedPlaces'
    BY <1>42 DEF BeginSweep, ServedPlaces, SlotHandles, LookLabels, TypeOK, RestartTypeOK
  <1>43. ASSUME EndSweep PROVE ServedPlaces'
    BY <1>43 DEF EndSweep, ServedPlaces, SlotHandles, LookLabels, TypeOK, RestartTypeOK
  <1>44. ASSUME CheckerExits PROVE ServedPlaces'
    BY <1>44 DEF CheckerExits, ServedPlaces, SlotHandles, LookLabels, TypeOK, RestartTypeOK
  <1>45. ASSUME ProbeAborted PROVE ServedPlaces'
    BY <1>45 DEF ProbeAborted, ServedPlaces, SlotHandles, LookLabels, TypeOK, RestartTypeOK
  <1>46. ASSUME MarkUnhealthy PROVE ServedPlaces'
    BY <1>46 DEF MarkUnhealthy, ServedPlaces, SlotHandles, LookLabels, TypeOK, RestartTypeOK
  <1>47. ASSUME DecideRestart PROVE ServedPlaces'
    BY <1>47 DEF DecideRestart, ServedPlaces, SlotHandles, LookLabels, TypeOK, RestartTypeOK
  <1>48. ASSUME DecideHealthy PROVE ServedPlaces'
    BY <1>48 DEF DecideHealthy, ServedPlaces, SlotHandles, LookLabels, TypeOK, RestartTypeOK
  <1>49. ASSUME SetHealthy PROVE ServedPlaces'
    BY <1>49 DEF SetHealthy, ServedPlaces, SlotHandles, LookLabels, TypeOK, RestartTypeOK
  <1>50. ASSUME HungConfirm PROVE ServedPlaces'
    BY <1>50 DEF HungConfirm, ServedPlaces, SlotHandles, LookLabels, TypeOK, RestartTypeOK
  <1>51. ASSUME HungKill PROVE ServedPlaces'
    BY <1>51 DEF HungKill, Kill, ServedPlaces, SlotHandles, LookLabels, TypeOK, RestartTypeOK
  <1>52. ASSUME CheckerDispatch PROVE ServedPlaces'
    BY <1>52 DEF CheckerDispatch, MayRegister, ServedPlaces, SlotHandles, LookLabels, TypeOK, RestartTypeOK
  <1>53. ASSUME NEW g \in Goroutines, CheckerAdd(g) PROVE ServedPlaces'
    BY <1>53 DEF CheckerAdd, GoRestart, ServedPlaces, SlotHandles, LookLabels, TypeOK, RestartTypeOK
  <1>54. ASSUME NEW h \in Handles, Probe(h) PROVE ServedPlaces'
    BY <1>54 DEF Probe, ServedPlaces, SlotHandles, LookLabels, TypeOK, RestartTypeOK
  <1>55. ASSUME NEW h \in Handles, HungNone(h) PROVE ServedPlaces'
    BY <1>55 DEF HungNone, ServedPlaces, SlotHandles, LookLabels, TypeOK, RestartTypeOK
  <1>56. ASSUME NEW h \in Handles, NEW r \in Requests, HungSnapshot(h, r) PROVE ServedPlaces'
    BY <1>56 DEF HungSnapshot, ServedPlaces, SlotHandles, LookLabels, TypeOK, RestartTypeOK
  <1>57. ASSUME CloseSnapshot PROVE ServedPlaces'
    BY <1>57 DEF CloseSnapshot, Barrier, ServedPlaces, SlotHandles, LookLabels, TypeOK, RestartTypeOK
  <1>58. ASSUME NEW h \in Handles, CloseKill(h) PROVE ServedPlaces'
    BY <1>58 DEF CloseKill, Kill, ServedPlaces, SlotHandles, LookLabels, TypeOK, RestartTypeOK
  <1>59. CASE UNCHANGED vars
    BY <1>1, <1>59 DEF vars
  <1> QED
    BY <1>2, <1>3, <1>4, <1>5, <1>6, <1>7, <1>8, <1>9, <1>10, <1>11, <1>12, <1>13, <1>14, <1>15, <1>16, <1>17, <1>18, <1>19, <1>20, <1>21, <1>22, <1>23, <1>24, <1>25, <1>26, <1>27, <1>28, <1>29, <1>30, <1>31, <1>32, <1>33, <1>34, <1>35, <1>36, <1>37, <1>38, <1>39, <1>40, <1>41, <1>42, <1>43, <1>44, <1>45, <1>46, <1>47, <1>48, <1>49, <1>50, <1>51, <1>52, <1>53, <1>54, <1>55, <1>56, <1>57, <1>58, <1>59
       DEF Next, RequestStep, AttemptEnds, GoroutineStep, RestartStep, CheckerStep, CloseStep

\* A worker that starts stays with the goroutine that starts it until it has
\* its slot or is killed.
LEMMA NewbornStep ==
  ASSUME TypeOK, ServedPlaces, Newborn, [Next]_vars
  PROVE  Newborn'
  <1> USE RestartAssumption DEF slotVars, handleVars, goroutineVars, closeVars, waitVars, requestVars, checkerVars, shutdownVars, poolFrame, closeFrame
  <1>1. ASSUME UNCHANGED <<gpc, gnew, served, reaping, nextHandle, idOf, proc>> PROVE Newborn'
    BY <1>1 DEF Newborn
  <1>2. ASSUME NEW h \in served \cup reaping, proc' = [proc EXCEPT ![h] = "killed"],
               reaping' \subseteq reaping, UNCHANGED <<gnew, served, nextHandle, idOf>>,
               \A d \in Goroutines :
                  /\ gpc'[d] \in {"starting", "install", "killNew"} <=> gpc[d] \in {"starting", "install", "killNew"}
                  /\ gpc'[d] = "install" => gpc[d] = "install"
        PROVE  Newborn'
    <2>1. h < nextHandle /\ h \in Handles /\ \A d \in Goroutines : gnew[d] # None => gnew[d] # h
      BY <1>2 DEF Newborn, TypeOK, RestartTypeOK
    <2>2. \A e \in Handles \ {h} : proc'[e] = proc[e]
      BY <1>2 DEF TypeOK, RestartTypeOK
    <2>3. \A d \in Goroutines : gpc'[d] = "install" => proc'[gnew[d]] \in {"up", "broken"}
      BY <1>2, <2>1, <2>2 DEF Newborn, TypeOK, RestartTypeOK
    <2>4. \A e \in Handles : e >= nextHandle => proc'[e] = "none"
      BY <2>1, <2>2 DEF Newborn, Handles, TypeOK, RestartTypeOK
    <2> QED
      BY <1>2, <2>3, <2>4 DEF Newborn
  <1>3. ASSUME NEW g \in Goroutines, gnew[g] # None, gnew' = [gnew EXCEPT ![g] = None],
               proc' = proc \/ proc' = [proc EXCEPT ![gnew[g]] = "killed"],
               reaping' = reaping \/ reaping' = reaping \cup {gnew[g]},
               gpc'[g] \notin {"starting", "install", "killNew"},
               \A d \in Goroutines \ {g} : gpc'[d] = gpc[d],
               UNCHANGED <<served, nextHandle, idOf>>
        PROVE  Newborn'
    <2> DEFINE n == gnew[g]
    <2>1. /\ n \in Handles /\ n \notin served /\ n < nextHandle
          /\ \A d \in Goroutines \ {g} : gnew[d] # None => gnew[d] # n
      BY <1>3 DEF Newborn, TypeOK, RestartTypeOK
    <2>2. gnew'[g] = None /\ \A d \in Goroutines \ {g} : gnew'[d] = gnew[d]
      BY <1>3 DEF TypeOK, RestartTypeOK
    <2>3. \A e \in Handles \ {n} : proc'[e] = proc[e]
      BY <1>3 DEF TypeOK, RestartTypeOK
    <2> HIDE DEF n
    <2>4. \A d \in Goroutines : gnew'[d] # None =>
            gnew'[d] \notin served' \cup reaping' /\ gnew'[d] < nextHandle' /\ idOf'[gnew'[d]] \in Slots
      BY <1>3, <2>1, <2>2 DEF Newborn, n
    <2>5. \A d \in Goroutines : gpc'[d] = "install" => proc'[gnew'[d]] \in {"up", "broken"}
      BY <1>3, <2>1, <2>2, <2>3 DEF Newborn, TypeOK, RestartTypeOK
    <2>6. \A e \in Handles : e >= nextHandle => proc'[e] = "none"
      BY <2>1, <2>3 DEF Newborn, Handles, TypeOK, RestartTypeOK
    <2>7. reaping' \cap served' = {} /\ \A e \in served' \cup reaping' : e < nextHandle'
      BY <1>3, <2>1 DEF Newborn, n
    <2>8. \A d \in Goroutines : gpc'[d] \in {"starting", "install", "killNew"} <=> gnew'[d] # None
      BY <1>3, <2>2 DEF Newborn
    <2>9. \A d, e \in Goroutines : gnew'[d] # None /\ gnew'[d] = gnew'[e] => d = e
      BY <2>2 DEF Newborn
    <2> QED
      BY <1>3, <2>4, <2>5, <2>6, <2>7, <2>8, <2>9 DEF Newborn
  <1>4. ASSUME NEW r \in Requests, BeginRequest(r) \/ CallerCancels(r) \/ GetWorker(r) \/ Refetch(r) \/ AnyNil(r) \/ AnyErr(r) \/ WaitAborted(r) \/ AwaitPoll(r) \/ AwaitDone(r) \/ AnyPoll(r) PROVE Newborn'
    BY <1>1, <1>4 DEF BeginRequest, ReqStep, CallerCancels, GetWorker, End, BeginAttempt, ResetWait, Refetch, AnyNil, AnyErr, WaitAborted, Waiting, AwaitPoll, AwaitDone, AnyPoll
  <1>5. ASSUME NEW r \in Requests, AnyDone(r) \/ FirstByte(r) \/ AttemptAnswered(r) \/ AttemptCancelled(r) \/ AttemptFails(r) \/ AttemptMisread(r) \/ RequestDispatch(r) \/ NextAttempt(r) PROVE Newborn'
    BY <1>1, <1>5 DEF AnyDone, ReqStep, FirstByte, AttemptAnswered, End, AttemptCancelled, AttemptFails, WorkerFailed, AttemptMisread, RequestDispatch, MayRegister, NextAttempt
  <1>6. ASSUME NEW kind \in {"health", "hung"}, BeginSweep(kind) PROVE Newborn'
    BY <1>1, <1>6 DEF BeginSweep
  <1>7. ASSUME EndSweep \/ CheckerExits \/ ProbeAborted \/ MarkUnhealthy \/ DecideRestart \/ DecideHealthy \/ SetHealthy \/ HungConfirm \/ CheckerDispatch \/ Shutdown PROVE Newborn'
    BY <1>1, <1>7 DEF EndSweep, CheckerExits, ProbeAborted, MarkUnhealthy, DecideRestart, DecideHealthy, SetHealthy, HungConfirm, CheckerDispatch, MayRegister, Shutdown
  <1>8. ASSUME NEW h \in Handles, Probe(h) \/ HungNone(h) PROVE Newborn'
    BY <1>1, <1>8 DEF Probe, HungNone
  <1>9. ASSUME NEW h \in Handles, NEW r \in Requests, HungSnapshot(h, r) PROVE Newborn'
    BY <1>1, <1>9 DEF HungSnapshot
  <1>10. ASSUME ShutdownDrained \/ CloseNow \/ CloseSwap \/ CloseSignal \/ CloseSnapshot \/ CloseReturn PROVE Newborn'
    BY <1>1, <1>10 DEF ShutdownDrained, Drained, CloseNow, CloseSwap, CloseSignal, CloseSnapshot, Barrier, CloseReturn
  <1>11. ASSUME NEW r \in Requests, NEW g \in Goroutines, AwaitSpawn(r, g) PROVE Newborn'
    BY <1>11 DEF AwaitSpawn, ReqStep, GoRestart, Newborn, TypeOK, RestartTypeOK
  <1>12. ASSUME NEW r \in Requests, NEW g \in Goroutines, RequestAdd(r, g) PROVE Newborn'
    BY <1>12 DEF RequestAdd, ReqStep, GoRestart, Newborn, TypeOK, RestartTypeOK
  <1>13. ASSUME NEW g \in Goroutines, EarlyCheck(g), UNCHANGED poolFrame PROVE Newborn'
    BY <1>13 DEF EarlyCheck, GoStep, Newborn, TypeOK, RestartTypeOK
  <1>14. ASSUME NEW g \in Goroutines, CompareAndSwap(g), UNCHANGED poolFrame PROVE Newborn'
    BY <1>14 DEF CompareAndSwap, GoStep, CanSwapRestarting, Newborn, TypeOK, RestartTypeOK
  <1>15. ASSUME NEW g \in Goroutines, CondWait(g), UNCHANGED poolFrame PROVE Newborn'
    BY <1>15 DEF CondWait, GoStep, Newborn, TypeOK, RestartTypeOK
  <1>16. ASSUME NEW g \in Goroutines, PublishChannel(g), UNCHANGED poolFrame PROVE Newborn'
    BY <1>16 DEF PublishChannel, GoStep, Newborn, TypeOK, RestartTypeOK
  <1>17. ASSUME NEW g \in Goroutines, Recheck(g), UNCHANGED poolFrame PROVE Newborn'
    BY <1>17 DEF Recheck, GoStep, Newborn, TypeOK, RestartTypeOK
  <1>18. ASSUME NEW g \in Goroutines, SpawnAborted(g), UNCHANGED poolFrame PROVE Newborn'
    BY <1>18 DEF SpawnAborted, GoStep, Newborn, TypeOK, RestartTypeOK
  <1>19. ASSUME NEW g \in Goroutines, SpawnWorker(g), UNCHANGED poolFrame PROVE Newborn'
    <2>1. /\ nextHandle \in Handles /\ None \notin Handles /\ gnew[g] = None
          /\ gh[g] \in served /\ gh[g] \in Handles /\ gh[g] # nextHandle /\ idOf[gh[g]] \in Slots
          /\ nextHandle \in Nat /\ \A e \in Handles : e \in Nat
      <3>1. /\ nextHandle \in Handles /\ None \notin Handles /\ nextHandle \in Nat
            /\ \A e \in Handles : e \in Nat
        BY NextIsHandle, <1>19 DEF SpawnWorker
      <3>2. gnew[g] = None /\ gh[g] \in served
        BY <1>19 DEF SpawnWorker, GoStep, Newborn, ServedPlaces
      <3>3. gh[g] \in Handles /\ gh[g] < nextHandle /\ idOf[gh[g]] \in Slots
        BY <3>2 DEF Newborn, ServedPlaces, TypeOK, RestartTypeOK
      <3> QED
        BY <3>1, <3>2, <3>3
    <2>2. /\ gpc'[g] = "starting" /\ \A d \in Goroutines \ {g} : gpc'[d] = gpc[d]
          /\ gnew'[g] = nextHandle /\ \A d \in Goroutines \ {g} : gnew'[d] = gnew[d]
          /\ \A e \in Handles \ {nextHandle} : proc'[e] = proc[e] /\ idOf'[e] = idOf[e]
          /\ idOf'[nextHandle] = idOf[gh[g]] /\ nextHandle' = nextHandle + 1
          /\ UNCHANGED <<served, reaping>>
      BY <1>19, <2>1 DEF SpawnWorker, GoStep, TypeOK, RestartTypeOK
    <2>3. nextHandle \notin served \cup reaping /\ \A d \in Goroutines : gnew[d] # nextHandle
      BY <2>1 DEF Newborn
    <2>4. \A d \in Goroutines : gnew[d] # None => gnew[d] \in Handles
      BY DEF TypeOK, RestartTypeOK
    <2>5. \A d \in Goroutines : gnew'[d] # None =>
            gnew'[d] \notin served' \cup reaping' /\ gnew'[d] < nextHandle' /\ idOf'[gnew'[d]] \in Slots
      <3>1. gnew'[g] \notin served' \cup reaping' /\ gnew'[g] < nextHandle' /\ idOf'[gnew'[g]] \in Slots
        BY <2>1, <2>2, <2>3
      <3>2. ASSUME NEW d \in Goroutines \ {g}, gnew'[d] # None
            PROVE  gnew'[d] \notin served' \cup reaping' /\ gnew'[d] < nextHandle' /\ idOf'[gnew'[d]] \in Slots
        <4>1. gnew[d] # None /\ gnew'[d] = gnew[d] /\ gnew[d] \in Handles /\ gnew[d] # nextHandle
          BY <2>2, <2>3, <2>4, <3>2
        <4>2. gnew[d] \notin served \cup reaping /\ gnew[d] < nextHandle /\ idOf[gnew[d]] \in Slots
          BY <4>1 DEF Newborn
        <4>3. gnew[d] \in Nat /\ nextHandle' = nextHandle + 1 /\ nextHandle \in Nat
          BY <2>1, <2>2, <4>1
        <4>4. gnew[d] < nextHandle'
          BY <4>2, <4>3
        <4>5. idOf'[gnew[d]] = idOf[gnew[d]] /\ UNCHANGED <<served, reaping>>
          BY <2>2, <4>1
        <4> QED
          BY <4>1, <4>2, <4>4, <4>5
      <3> QED
        BY <3>1, <3>2
    <2>6. \A d \in Goroutines : gpc'[d] = "install" => proc'[gnew'[d]] \in {"up", "broken"}
      BY <2>2, <2>3, <2>4 DEF Newborn
    <2>7. \A e \in Handles : e >= nextHandle' => proc'[e] = "none"
      BY <2>1, <2>2 DEF Newborn
    <2>8. reaping' \cap served' = {} /\ \A e \in served' \cup reaping' : e < nextHandle'
      BY <2>1, <2>2 DEF Newborn, TypeOK, RestartTypeOK
    <2>9. \A d \in Goroutines : gpc'[d] \in {"starting", "install", "killNew"} <=> gnew'[d] # None
      BY <2>1, <2>2 DEF Newborn
    <2>10. \A d, e \in Goroutines : gnew'[d] # None /\ gnew'[d] = gnew'[e] => d = e
      BY <2>2, <2>3 DEF Newborn
    <2> QED
      BY <2>5, <2>6, <2>7, <2>8, <2>9, <2>10 DEF Newborn
  <1>20. ASSUME NEW g \in Goroutines, SpawnFails(g), UNCHANGED poolFrame PROVE Newborn'
    BY <1>20 DEF SpawnFails, GoStep, Newborn, TypeOK, RestartTypeOK
  <1>21. ASSUME NEW g \in Goroutines, StartSucceeds(g), UNCHANGED poolFrame PROVE Newborn'
    <2> DEFINE n == gnew[g]
    <2>1. gpc[g] = "starting" /\ n # None /\ n \in Handles /\ n < nextHandle
      BY <1>21 DEF StartSucceeds, GoStep, Newborn, TypeOK, RestartTypeOK
    <2>2. /\ gpc'[g] = "install" /\ \A d \in Goroutines \ {g} : gpc'[d] = gpc[d]
          /\ proc'[n] = "up" /\ \A e \in Handles \ {n} : proc'[e] = proc[e]
          /\ UNCHANGED <<gnew, served, reaping, nextHandle, idOf>>
      BY <1>21, <2>1 DEF StartSucceeds, GoStep, TypeOK, RestartTypeOK
    <2>3. \A d \in Goroutines : gpc'[d] = "install" => proc'[gnew[d]] \in {"up", "broken"}
      BY <2>1, <2>2 DEF Newborn, TypeOK, RestartTypeOK
    <2>4. \A e \in Handles : e >= nextHandle => proc'[e] = "none"
      BY <2>1, <2>2 DEF Newborn, Handles, TypeOK, RestartTypeOK
    <2>5. \A d \in Goroutines : gpc'[d] \in {"starting", "install", "killNew"} <=> gnew[d] # None
      BY <2>1, <2>2 DEF Newborn
    <2> QED
      BY <2>2, <2>3, <2>4, <2>5 DEF Newborn
  <1>22. ASSUME NEW g \in Goroutines, StartFails(g), UNCHANGED poolFrame PROVE Newborn'
    <2>1. gnew[g] # None
      BY <1>22 DEF StartFails, GoStep, Newborn
    <2>2. gpc'[g] \notin {"starting", "install", "killNew"} /\ \A d \in Goroutines \ {g} : gpc'[d] = gpc[d]
      BY <1>22 DEF StartFails, GoStep, TypeOK, RestartTypeOK
    <2>3. /\ gnew' = [gnew EXCEPT ![g] = None] /\ UNCHANGED <<served, nextHandle, idOf>>
          /\ proc' = proc \/ proc' = [proc EXCEPT ![gnew[g]] = "killed"]
          /\ reaping' = reaping \/ reaping' = reaping \cup {gnew[g]}
      BY <1>22 DEF StartFails, GoStep, Kill
    <2> QED
      BY <1>3, <2>1, <2>2, <2>3
  <1>23. ASSUME NEW g \in Goroutines, StartTimesOut(g), UNCHANGED poolFrame PROVE Newborn'
    <2>1. gnew[g] # None
      BY <1>23 DEF StartTimesOut, GoStep, Newborn
    <2>2. gpc'[g] \notin {"starting", "install", "killNew"} /\ \A d \in Goroutines \ {g} : gpc'[d] = gpc[d]
      BY <1>23 DEF StartTimesOut, GoStep, TypeOK, RestartTypeOK
    <2>3. /\ gnew' = [gnew EXCEPT ![g] = None] /\ UNCHANGED <<served, nextHandle, idOf>>
          /\ proc' = proc \/ proc' = [proc EXCEPT ![gnew[g]] = "killed"]
          /\ reaping' = reaping \/ reaping' = reaping \cup {gnew[g]}
      BY <1>23 DEF StartTimesOut, GoStep, ClientKill, Kill, LeaveToReaper
    <2> QED
      BY <1>3, <2>1, <2>2, <2>3
  <1>24. ASSUME NEW g \in Goroutines, StartAborted(g), UNCHANGED poolFrame PROVE Newborn'
    <2>1. gnew[g] # None
      BY <1>24 DEF StartAborted, GoStep, Newborn
    <2>2. gpc'[g] \notin {"starting", "install", "killNew"} /\ \A d \in Goroutines \ {g} : gpc'[d] = gpc[d]
      BY <1>24 DEF StartAborted, GoStep, TypeOK, RestartTypeOK
    <2>3. /\ gnew' = [gnew EXCEPT ![g] = None] /\ UNCHANGED <<served, nextHandle, idOf>>
          /\ proc' = proc \/ proc' = [proc EXCEPT ![gnew[g]] = "killed"]
          /\ reaping' = reaping \/ reaping' = reaping \cup {gnew[g]}
      BY <1>24 DEF StartAborted, GoStep, ClientKill, Kill, LeaveToReaper
    <2> QED
      BY <1>3, <2>1, <2>2, <2>3
  <1>25. ASSUME NEW g \in Goroutines, StartFailed(g), UNCHANGED poolFrame PROVE Newborn'
    BY <1>25 DEF StartFailed, GoStep, Newborn, TypeOK, RestartTypeOK
  <1>26. ASSUME NEW g \in Goroutines, HotSwap(g), UNCHANGED poolFrame PROVE Newborn'
    BY <1>26 DEF HotSwap, GoStep, MayInstall, Newborn, TypeOK, RestartTypeOK
  <1>27. ASSUME NEW g \in Goroutines, KillOld(g), UNCHANGED poolFrame PROVE Newborn'
    <2>1. gh[g] \in served
      BY <1>27 DEF KillOld, GoStep, ServedPlaces
    <2>2. /\ proc' = [proc EXCEPT ![gh[g]] = "killed"] /\ UNCHANGED <<gnew, served, reaping, nextHandle, idOf>>
          /\ \A d \in Goroutines :
                /\ gpc'[d] \in {"starting", "install", "killNew"} <=> gpc[d] \in {"starting", "install", "killNew"}
                /\ gpc'[d] = "install" => gpc[d] = "install"
      BY <1>27 DEF KillOld, GoStep, Kill, TypeOK, RestartTypeOK
    <2> QED
      BY <1>2, <2>1, <2>2
  <1>28. ASSUME NEW g \in Goroutines, KillNew(g), UNCHANGED poolFrame PROVE Newborn'
    <2>1. gnew[g] # None
      BY <1>28 DEF KillNew, GoStep, Newborn
    <2>2. gpc'[g] \notin {"starting", "install", "killNew"} /\ \A d \in Goroutines \ {g} : gpc'[d] = gpc[d]
      BY <1>28 DEF KillNew, GoStep, TypeOK, RestartTypeOK
    <2>3. /\ gnew' = [gnew EXCEPT ![g] = None] /\ UNCHANGED <<served, nextHandle, idOf>>
          /\ proc' = proc \/ proc' = [proc EXCEPT ![gnew[g]] = "killed"]
          /\ reaping' = reaping \/ reaping' = reaping \cup {gnew[g]}
      BY <1>28 DEF KillNew, GoStep, Kill
    <2> QED
      BY <1>3, <2>1, <2>2, <2>3
  <1>29. ASSUME NEW g \in Goroutines, FinishRestart(g), UNCHANGED poolFrame PROVE Newborn'
    BY <1>29 DEF FinishRestart, GoStep, Notify, Newborn, TypeOK, RestartTypeOK
  <1>30. ASSUME NEW g \in Goroutines, GoExit(g), UNCHANGED poolFrame PROVE Newborn'
    BY <1>30 DEF GoExit, GoStep, Newborn, TypeOK, RestartTypeOK
  <1>31. ASSUME NEW h \in Handles, Reaper(h) PROVE Newborn'
    BY <1>31, <1>2 DEF Reaper, Reap, Kill
  <1>32. ASSUME NEW h \in Handles, Break(h) PROVE Newborn'
    BY <1>32 DEF Break, WorkerBreaks, Newborn, TypeOK, RestartTypeOK
  <1>33. ASSUME HungKill PROVE Newborn'
    <2>1. hh \in served
      BY <1>33 DEF HungKill, ServedPlaces, LookLabels
    <2>2. /\ proc' = [proc EXCEPT ![hh] = "killed"] /\ UNCHANGED <<gnew, served, reaping, nextHandle, idOf>>
          /\ \A d \in Goroutines :
                /\ gpc'[d] \in {"starting", "install", "killNew"} <=> gpc[d] \in {"starting", "install", "killNew"}
                /\ gpc'[d] = "install" => gpc[d] = "install"
      BY <1>33 DEF HungKill, Kill, TypeOK, RestartTypeOK
    <2> QED
      BY <1>2, <2>1, <2>2
  <1>34. ASSUME NEW g \in Goroutines, CheckerAdd(g) PROVE Newborn'
    BY SMTT(30), <1>34 DEF CheckerAdd, GoRestart, Newborn, TypeOK, RestartTypeOK
  <1>35. ASSUME NEW h \in Handles, CloseKill(h) PROVE Newborn'
    <2>1. h \in served
      BY <1>35 DEF CloseKill, ServedPlaces
    <2>2. /\ proc' = [proc EXCEPT ![h] = "killed"] /\ UNCHANGED <<gnew, served, reaping, nextHandle, idOf>>
          /\ \A d \in Goroutines :
                /\ gpc'[d] \in {"starting", "install", "killNew"} <=> gpc[d] \in {"starting", "install", "killNew"}
                /\ gpc'[d] = "install" => gpc[d] = "install"
      BY <1>35 DEF CloseKill, Kill, TypeOK, RestartTypeOK
    <2> QED
      BY <1>2, <2>1, <2>2
  <1>36. CASE UNCHANGED vars
    BY <1>1, <1>36 DEF vars
  <1> QED
    BY <1>4, <1>5, <1>6, <1>7, <1>8, <1>9, <1>10, <1>11, <1>12, <1>13, <1>14, <1>15, <1>16, <1>17, <1>18, <1>19, <1>20, <1>21, <1>22, <1>23, <1>24, <1>25, <1>26, <1>27, <1>28, <1>29, <1>30, <1>31, <1>32, <1>33, <1>34, <1>35, <1>36
       DEF Next, RequestStep, AttemptEnds, GoroutineStep, RestartStep, CheckerStep, CloseStep

\* What a step does to the slots and to the replacements: most steps nothing, some
\* move a goroutine on to another handle or end a start, SpawnWorker and HotSwap
\* are the two ends of a replacement's life.
LEMMA ReplacementSteps ==
  ASSUME TypeOK, [Next]_vars
  PROVE  \/ UNCHANGED <<slot, idOf, gh, gnew>>
         \/ \E g \in Goroutines : /\ gpc[g] \in {"idle", "exit"} /\ UNCHANGED <<slot, idOf, gnew>>
                                 /\ \A d \in Goroutines \ {g} : gh'[d] = gh[d]
         \/ \E g \in Goroutines : gnew' = [gnew EXCEPT ![g] = None] /\ UNCHANGED <<slot, idOf, gh>>
         \/ \E g \in Goroutines : SpawnWorker(g) \/ HotSwap(g)
  <1> USE DEF slotVars, handleVars, goroutineVars, closeVars, waitVars, requestVars, checkerVars, shutdownVars, poolFrame, closeFrame
  <1> DEFINE Quiet == UNCHANGED <<slot, idOf, gh, gnew>>
             Moves(g) == /\ gpc[g] \in {"idle", "exit"} /\ UNCHANGED <<slot, idOf, gnew>>
                         /\ \A d \in Goroutines \ {g} : gh'[d] = gh[d]
             Drops(g) == gnew' = [gnew EXCEPT ![g] = None] /\ UNCHANGED <<slot, idOf, gh>>
             OneOf == Quiet \/ \E g \in Goroutines : Moves(g) \/ Drops(g) \/ SpawnWorker(g) \/ HotSwap(g)
  <1>1. ASSUME NEW r \in Requests, BeginRequest(r) \/ CallerCancels(r) \/ GetWorker(r) \/ Refetch(r) \/ AnyNil(r) \/ AnyErr(r) \/ WaitAborted(r) \/ AwaitPoll(r) \/ AwaitDone(r) \/ AnyPoll(r) PROVE OneOf
    BY <1>1 DEF BeginRequest, CallerCancels, GetWorker, Refetch, AnyNil, AnyErr, WaitAborted, AwaitPoll, AwaitDone, AnyPoll
  <1>2. ASSUME NEW r \in Requests, AnyDone(r) \/ FirstByte(r) \/ AttemptAnswered(r) \/ AttemptCancelled(r) \/ AttemptFails(r) \/ AttemptMisread(r) \/ RequestDispatch(r) \/ NextAttempt(r) PROVE OneOf
    BY <1>2 DEF AnyDone, FirstByte, AttemptAnswered, AttemptCancelled, AttemptFails, AttemptMisread, RequestDispatch, NextAttempt
  <1>3. ASSUME BeginSweep("health") \/ BeginSweep("hung") PROVE OneOf
    BY <1>3 DEF BeginSweep
  <1>4. ASSUME EndSweep \/ CheckerExits \/ ProbeAborted \/ MarkUnhealthy \/ DecideRestart \/ DecideHealthy \/ SetHealthy \/ HungConfirm \/ HungKill \/ CheckerDispatch \/ Shutdown PROVE OneOf
    BY <1>4 DEF EndSweep, CheckerExits, ProbeAborted, MarkUnhealthy, DecideRestart, DecideHealthy, SetHealthy, HungConfirm, HungKill, CheckerDispatch, Shutdown
  <1>5. ASSUME NEW h \in Handles, Probe(h) \/ HungNone(h) \/ Reaper(h) \/ Break(h) \/ CloseKill(h) PROVE OneOf
    BY <1>5 DEF Probe, HungNone, Reaper, Reap, Break, WorkerBreaks, CloseKill
  <1>6. ASSUME NEW h \in Handles, NEW r \in Requests, HungSnapshot(h, r) PROVE OneOf
    BY <1>6 DEF HungSnapshot
  <1>7. ASSUME ShutdownDrained \/ CloseNow \/ CloseSwap \/ CloseSignal \/ CloseSnapshot \/ CloseReturn PROVE OneOf
    BY <1>7 DEF ShutdownDrained, CloseNow, CloseSwap, CloseSignal, CloseSnapshot, CloseReturn
  <1>8. ASSUME NEW g \in Goroutines, EarlyCheck(g) \/ CompareAndSwap(g) \/ CondWait(g) \/ PublishChannel(g) \/ Recheck(g) \/ SpawnAborted(g) \/ SpawnFails(g) \/ StartSucceeds(g) \/ StartFailed(g) \/ KillOld(g) \/ FinishRestart(g) PROVE OneOf
    BY <1>8 DEF EarlyCheck, CompareAndSwap, CondWait, PublishChannel, Recheck, SpawnAborted, SpawnFails, StartSucceeds, StartFailed, KillOld, FinishRestart
  <1>9. ASSUME NEW g \in Goroutines, StartFails(g) \/ StartTimesOut(g) \/ StartAborted(g) \/ KillNew(g) PROVE OneOf
    BY <1>9 DEF StartFails, StartTimesOut, StartAborted, KillNew
  <1>10. ASSUME NEW g \in Goroutines, GoExit(g) PROVE OneOf
    <2>1. Moves(g)
      BY <1>10 DEF GoExit, GoStep, TypeOK, RestartTypeOK
    <2> QED
      BY <2>1
  <1>11. ASSUME NEW r \in Requests, NEW g \in Goroutines, AwaitSpawn(r, g) \/ RequestAdd(r, g) PROVE OneOf
    <2>1. Moves(g)
      BY <1>11 DEF AwaitSpawn, RequestAdd, GoRestart, TypeOK, RestartTypeOK
    <2> QED
      BY <2>1
  <1>12. ASSUME NEW g \in Goroutines, CheckerAdd(g) PROVE OneOf
    <2>1. Moves(g)
      BY <1>12 DEF CheckerAdd, GoRestart, TypeOK, RestartTypeOK
    <2> QED
      BY <2>1
  <1>13. ASSUME NEW g \in Goroutines, SpawnWorker(g) \/ HotSwap(g) PROVE OneOf
    BY <1>13
  <1>14. ASSUME UNCHANGED vars PROVE OneOf
    BY <1>14 DEF vars
  <1> HIDE DEF OneOf
  <1>15. ASSUME NEW r \in Requests, BeginRequest(r) \/ CallerCancels(r) \/ RequestStep(r) \/ AttemptEnds(r)
         PROVE  OneOf
    BY <1>1, <1>2, <1>11, <1>15 DEF RequestStep, AttemptEnds
  <1>16. ASSUME NEW g \in Goroutines, GoroutineStep(g) PROVE OneOf
    BY <1>8, <1>9, <1>10, <1>13, <1>16 DEF GoroutineStep, RestartStep
  <1>17. ASSUME CheckerStep \/ CloseStep PROVE OneOf
    BY <1>4, <1>5, <1>7, <1>12, <1>17 DEF CheckerStep, CloseStep
  <1>18. ASSUME Next PROVE OneOf
    BY <1>3, <1>4, <1>5, <1>6, <1>7, <1>15, <1>16, <1>17, <1>18 DEF Next
  <1> QED
    BY <1>14, <1>18 DEF OneOf

\* Neither the slot a replacement was started for nor the one it is wanted for changes.
LEMMA StartedForSlotStep ==
  ASSUME TypeOK, ServedPlaces, Newborn, StartedForSlot, [Next]_vars
  PROVE  StartedForSlot'
  <1>1. CASE UNCHANGED <<slot, idOf, gh, gnew>>
    BY <1>1 DEF StartedForSlot
  <1>2. ASSUME NEW g \in Goroutines, gpc[g] \in {"idle", "exit"}, UNCHANGED <<idOf, gnew>>,
               \A d \in Goroutines \ {g} : gh'[d] = gh[d]
        PROVE  StartedForSlot'
    <2>1. gnew[g] = None
      BY <1>2 DEF Newborn
    <2> QED
      BY <1>2, <2>1 DEF StartedForSlot
  <1>3. ASSUME NEW g \in Goroutines, gnew' = [gnew EXCEPT ![g] = None], UNCHANGED <<idOf, gh>>
        PROVE  StartedForSlot'
    BY <1>3 DEF StartedForSlot, TypeOK, RestartTypeOK
  <1>4. ASSUME NEW g \in Goroutines, SpawnWorker(g) PROVE StartedForSlot'
    <2>1. nextHandle \in Handles /\ \A e \in Handles : e \in Int
      BY NextIsHandle, <1>4 DEF SpawnWorker
    <2>2. /\ gnew'[g] = nextHandle /\ \A d \in Goroutines \ {g} : gnew'[d] = gnew[d]
          /\ \A e \in Handles \ {nextHandle} : idOf'[e] = idOf[e]
          /\ idOf'[nextHandle] = idOf[gh[g]] /\ gh' = gh /\ gpc[g] = "spawn"
      BY <1>4, <2>1 DEF SpawnWorker, GoStep, TypeOK, RestartTypeOK
    <2>3. \A e \in served : e \in Handles /\ e # nextHandle
      BY <2>1 DEF Newborn, TypeOK, RestartTypeOK
    <2>4. \A d \in Goroutines : gpc[d] # "idle" => idOf'[gh[d]] = idOf[gh[d]]
      BY <2>2, <2>3 DEF ServedPlaces
    <2>5. ASSUME NEW d \in Goroutines, d # g, gnew'[d] # None
          PROVE  idOf'[gnew'[d]] = idOf'[gh'[d]]
      <3>1. gnew'[d] = gnew[d] /\ gnew[d] \in Handles /\ gnew[d] < nextHandle /\ gpc[d] # "idle"
        BY <2>2, <2>5 DEF Newborn, TypeOK, RestartTypeOK
      <3>2. gnew[d] # nextHandle
        BY <2>1, <3>1
      <3>3. idOf'[gnew'[d]] = idOf[gnew[d]]
        BY <2>2, <3>1, <3>2
      <3> QED
        BY <2>2, <2>4, <2>5, <3>1, <3>3 DEF StartedForSlot
    <2> QED
      BY <2>2, <2>4, <2>5 DEF StartedForSlot
  <1>5. ASSUME NEW g \in Goroutines, HotSwap(g) PROVE StartedForSlot'
    BY <1>5 DEF HotSwap, StartedForSlot, TypeOK, RestartTypeOK
  <1> QED
    BY <1>1, <1>2, <1>3, <1>4, <1>5, ReplacementSteps

\* Only a failed call, a failed probe, a hung request or Close leads to a kill.
LEMMA BlamedStep ==
  ASSUME TypeOK, Barriers, ServedPlaces, Newborn, Blamed, [Next]_vars
  PROVE  Blamed'
  <1> USE RestartAssumption DEF slotVars, handleVars, goroutineVars, closeVars, waitVars, requestVars, checkerVars, shutdownVars, poolFrame, closeFrame
  <1>1. ASSUME UNCHANGED <<proc, suspect, served, closed, gpc, gh, rpc, rh, lastFailed, hpc, hh>> PROVE Blamed'
    BY <1>1 DEF Blamed, Bad
  <1>2. ASSUME NEW n \in Handles, n \notin served \/ Bad(n),
               proc' = proc \/ proc' = [proc EXCEPT ![n] = "killed"],
               UNCHANGED <<suspect, served, closed, gh, rpc, rh, lastFailed, hh>>,
               hpc' = hpc \/ (hpc' = "dispatch" /\ hpc = "killing"),
               \A d \in Goroutines : gpc'[d] # "idle" => gpc[d] # "idle"
        PROVE  Blamed'
    <2>1. \A h \in Handles : (proc'[h] = "broken" => proc[h] = "broken") /\ (h # n => proc'[h] = proc[h])
      BY <1>2 DEF TypeOK, RestartTypeOK
    <2>2. \A h : Bad(h)' <=> Bad(h)
      BY <1>2 DEF Bad
    <2>3. served \subseteq Handles
      BY DEF TypeOK, RestartTypeOK
    <2>4. \A h \in served' : proc'[h] = "killed" => Bad(h)
      BY <1>2, <2>1, <2>3 DEF Blamed
    <2> QED
      BY <1>2, <2>1, <2>2, <2>4 DEF Blamed
  <1>3. \A h \in served : proc[h] # "up" => Bad(h)
    <2>1. \A h \in served : h \in Handles /\ proc[h] \in {"up", "broken", "killed"}
      BY DEF ServedPlaces, TypeOK, RestartTypeOK, ProcStates
    <2> QED
      BY <2>1 DEF Blamed, Bad
  <1>4. ASSUME NEW r \in Requests, CallerCancels(r) \/ FirstByte(r) PROVE Blamed'
    BY <1>1, <1>4 DEF CallerCancels, FirstByte
  <1>5. ASSUME NEW h \in Handles, HungNone(h) PROVE Blamed'
    BY <1>1, <1>5 DEF HungNone
  <1>6. ASSUME Shutdown \/ ShutdownDrained \/ CloseNow \/ CloseSignal \/ CloseSnapshot \/ CloseReturn PROVE Blamed'
    BY <1>1, <1>6 DEF Shutdown, ShutdownDrained, Drained, CloseNow, CloseSignal, CloseSnapshot, Barrier, CloseReturn
  <1>7. ASSUME NEW r \in Requests, BeginRequest(r) PROVE Blamed'
    BY <1>7 DEF BeginRequest, ReqStep, Blamed, Bad, TypeOK, RestartTypeOK
  <1>8. ASSUME NEW r \in Requests, GetWorker(r) PROVE Blamed'
    BY <1>8, FetchRow DEF Blamed, Bad
  <1>9. ASSUME NEW r \in Requests, Refetch(r) PROVE Blamed'
    BY <1>9, FetchRow DEF Blamed, Bad
  <1>10. ASSUME NEW r \in Requests, AnyNil(r) PROVE Blamed'
    BY <1>10, FetchRow DEF Blamed, Bad
  <1>11. ASSUME NEW r \in Requests, AnyErr(r) PROVE Blamed'
    BY <1>11, FetchRow DEF Blamed, Bad
  <1>12. ASSUME NEW r \in Requests, WaitAborted(r) PROVE Blamed'
    BY <1>12, FetchRow DEF Blamed, Bad
  <1>13. ASSUME NEW r \in Requests, AwaitPoll(r) PROVE Blamed'
    BY <1>13 DEF AwaitPoll, Blamed, Bad, TypeOK, RestartTypeOK
  <1>14. ASSUME NEW r \in Requests, AwaitDone(r) PROVE Blamed'
    BY <1>14 DEF AwaitDone, ReqStep, Blamed, Bad, TypeOK, RestartTypeOK
  <1>15. ASSUME NEW r \in Requests, AnyPoll(r) PROVE Blamed'
    BY <1>15 DEF AnyPoll, Blamed, Bad, TypeOK, RestartTypeOK
  <1>16. ASSUME NEW r \in Requests, AnyDone(r) PROVE Blamed'
    BY <1>16 DEF AnyDone, ReqStep, Blamed, Bad, TypeOK, RestartTypeOK
  <1>17. ASSUME NEW r \in Requests, AttemptAnswered(r) PROVE Blamed'
    BY <1>17 DEF AttemptAnswered, End, Blamed, Bad, TypeOK, RestartTypeOK
  <1>18. ASSUME NEW r \in Requests, AttemptCancelled(r) PROVE Blamed'
    BY <1>18 DEF AttemptCancelled, End, Blamed, Bad, TypeOK, RestartTypeOK
  <1>19. ASSUME NEW r \in Requests, AttemptFails(r) PROVE Blamed'
    <2>1. rpc[r] = "call" /\ rh[r] \in served /\ proc[rh[r]] # "up"
      BY <1>19 DEF AttemptFails, ReqStep, WorkerFailed, ServedPlaces
    <2>2. Bad(rh[r])
      BY <1>3, <2>1
    <2>3. /\ UNCHANGED <<proc, suspect, served, closed, gpc, gh, rh, lastFailed, hpc, hh>>
          /\ \A q \in Requests \ {r} : rpc'[q] = rpc[q]
      BY <1>19 DEF AttemptFails, ReqStep, TypeOK
    <2>4. \A h : Bad(h)' <=> Bad(h)
      BY <2>3 DEF Bad
    <2> QED
      BY <2>2, <2>3, <2>4 DEF Blamed
  <1>20. ASSUME NEW r \in Requests, AttemptMisread(r) PROVE Blamed'
    <2>1. /\ suspect' = suspect \cup {rh[r]} /\ UNCHANGED <<proc, served, closed, gpc, gh, rh, lastFailed, hpc, hh>>
          /\ \A q \in Requests \ {r} : rpc'[q] = rpc[q]
      BY <1>20 DEF AttemptMisread, ReqStep, TypeOK
    <2>2. Bad(rh[r])' /\ \A h : Bad(h) => Bad(h)'
      BY <2>1 DEF Bad
    <2>3. \A h \in Handles : proc'[h] = "broken" => h \in suspect'
      BY <2>1 DEF Blamed
    <2> QED
      BY <2>1, <2>2, <2>3 DEF Blamed
  <1>21. ASSUME NEW r \in Requests, RequestDispatch(r) PROVE Blamed'
    BY <1>21 DEF RequestDispatch, ReqStep, MayRegister, Blamed, Bad, TypeOK, RestartTypeOK
  <1>22. ASSUME NEW r \in Requests, NextAttempt(r) PROVE Blamed'
    BY SMTT(40), <1>22 DEF NextAttempt, End, Blamed, Bad, TypeOK, RestartTypeOK
  <1>23. ASSUME NEW r \in Requests, NEW g \in Goroutines, AwaitSpawn(r, g) PROVE Blamed'
    <2>1. rpc[r] = "await" /\ lastFailed[r] # None /\ Bad(lastFailed[r])
      BY <1>23 DEF AwaitSpawn, ReqStep, ServedPlaces, Blamed
    <2>2. /\ UNCHANGED <<proc, suspect, served, closed, rh, lastFailed, hpc, hh>>
          /\ rpc'[r] = "onSpawn" /\ \A q \in Requests \ {r} : rpc'[q] = rpc[q]
          /\ gh'[g] = lastFailed[r] /\ \A d \in Goroutines \ {g} : gh'[d] = gh[d] /\ gpc'[d] = gpc[d]
      BY <1>23 DEF AwaitSpawn, ReqStep, GoRestart, TypeOK, RestartTypeOK
    <2>3. \A h : Bad(h)' <=> Bad(h)
      BY <2>2 DEF Bad
    <2> QED
      BY <2>1, <2>2, <2>3 DEF Blamed
  <1>24. ASSUME NEW r \in Requests, NEW g \in Goroutines, RequestAdd(r, g) PROVE Blamed'
    BY <1>24 DEF RequestAdd, ReqStep, GoRestart, Blamed, Bad, TypeOK, RestartTypeOK
  <1>25. ASSUME NEW g \in Goroutines, EarlyCheck(g), UNCHANGED poolFrame PROVE Blamed'
    BY <1>25 DEF EarlyCheck, GoStep, Blamed, Bad, TypeOK, RestartTypeOK
  <1>26. ASSUME NEW g \in Goroutines, CompareAndSwap(g), UNCHANGED poolFrame PROVE Blamed'
    BY <1>26 DEF CompareAndSwap, GoStep, CanSwapRestarting, Blamed, Bad, TypeOK, RestartTypeOK
  <1>27. ASSUME NEW g \in Goroutines, CondWait(g), UNCHANGED poolFrame PROVE Blamed'
    BY <1>27 DEF CondWait, GoStep, Blamed, Bad, TypeOK, RestartTypeOK
  <1>28. ASSUME NEW g \in Goroutines, PublishChannel(g), UNCHANGED poolFrame PROVE Blamed'
    BY <1>28 DEF PublishChannel, GoStep, Blamed, Bad, TypeOK, RestartTypeOK
  <1>29. ASSUME NEW g \in Goroutines, Recheck(g), UNCHANGED poolFrame PROVE Blamed'
    BY <1>29 DEF Recheck, GoStep, Blamed, Bad, TypeOK, RestartTypeOK
  <1>30. ASSUME NEW g \in Goroutines, SpawnAborted(g), UNCHANGED poolFrame PROVE Blamed'
    BY <1>30 DEF SpawnAborted, GoStep, Blamed, Bad, TypeOK, RestartTypeOK
  <1>31. ASSUME NEW g \in Goroutines, SpawnWorker(g), UNCHANGED poolFrame PROVE Blamed'
    BY <1>31 DEF SpawnWorker, GoStep, Blamed, Bad, TypeOK, RestartTypeOK
  <1>32. ASSUME NEW g \in Goroutines, SpawnFails(g), UNCHANGED poolFrame PROVE Blamed'
    BY <1>32 DEF SpawnFails, GoStep, Blamed, Bad, TypeOK, RestartTypeOK
  <1>33. ASSUME NEW g \in Goroutines, StartSucceeds(g), UNCHANGED poolFrame PROVE Blamed'
    BY <1>33 DEF StartSucceeds, GoStep, Blamed, Bad, TypeOK, RestartTypeOK
  <1>34. ASSUME NEW g \in Goroutines, StartFails(g), UNCHANGED poolFrame PROVE Blamed'
    <2>1. gpc[g] \in {"starting", "killNew"}
      BY <1>34 DEF StartFails, GoStep
    <2>2. gnew[g] # None /\ gnew[g] \notin served
      BY <2>1 DEF Newborn
    <2>3. gnew[g] \in Handles
      BY <2>2 DEF TypeOK, RestartTypeOK
    <2>4. /\ proc' = proc \/ proc' = [proc EXCEPT ![gnew[g]] = "killed"]
          /\ UNCHANGED <<suspect, served, closed, gh, rpc, rh, lastFailed, hh>> /\ hpc' = hpc
      BY <1>34 DEF StartFails, GoStep, Kill
    <2>5. \A d \in Goroutines : gpc'[d] # "idle" => gpc[d] # "idle"
      BY <1>34, <2>1 DEF StartFails, GoStep, TypeOK, RestartTypeOK
    <2> QED
      BY <1>2, <2>2, <2>3, <2>4, <2>5
  <1>35. ASSUME NEW g \in Goroutines, StartTimesOut(g), UNCHANGED poolFrame PROVE Blamed'
    <2>1. gpc[g] \in {"starting", "killNew"}
      BY <1>35 DEF StartTimesOut, GoStep
    <2>2. gnew[g] # None /\ gnew[g] \notin served
      BY <2>1 DEF Newborn
    <2>3. gnew[g] \in Handles
      BY <2>2 DEF TypeOK, RestartTypeOK
    <2>4. /\ proc' = proc \/ proc' = [proc EXCEPT ![gnew[g]] = "killed"]
          /\ UNCHANGED <<suspect, served, closed, gh, rpc, rh, lastFailed, hh>> /\ hpc' = hpc
      BY <1>35 DEF StartTimesOut, GoStep, ClientKill, Kill, LeaveToReaper
    <2>5. \A d \in Goroutines : gpc'[d] # "idle" => gpc[d] # "idle"
      BY <1>35, <2>1 DEF StartTimesOut, GoStep, TypeOK, RestartTypeOK
    <2> QED
      BY <1>2, <2>2, <2>3, <2>4, <2>5
  <1>36. ASSUME NEW g \in Goroutines, StartAborted(g), UNCHANGED poolFrame PROVE Blamed'
    <2>1. gpc[g] \in {"starting", "killNew"}
      BY <1>36 DEF StartAborted, GoStep
    <2>2. gnew[g] # None /\ gnew[g] \notin served
      BY <2>1 DEF Newborn
    <2>3. gnew[g] \in Handles
      BY <2>2 DEF TypeOK, RestartTypeOK
    <2>4. /\ proc' = proc \/ proc' = [proc EXCEPT ![gnew[g]] = "killed"]
          /\ UNCHANGED <<suspect, served, closed, gh, rpc, rh, lastFailed, hh>> /\ hpc' = hpc
      BY <1>36 DEF StartAborted, GoStep, ClientKill, Kill, LeaveToReaper
    <2>5. \A d \in Goroutines : gpc'[d] # "idle" => gpc[d] # "idle"
      BY <1>36, <2>1 DEF StartAborted, GoStep, TypeOK, RestartTypeOK
    <2> QED
      BY <1>2, <2>2, <2>3, <2>4, <2>5
  <1>37. ASSUME NEW g \in Goroutines, StartFailed(g), UNCHANGED poolFrame PROVE Blamed'
    BY <1>37 DEF StartFailed, GoStep, Blamed, Bad, TypeOK, RestartTypeOK
  <1>38. ASSUME NEW g \in Goroutines, HotSwap(g), UNCHANGED poolFrame PROVE Blamed'
    <2>1. gpc[g] = "install" /\ proc[gnew[g]] \in {"up", "broken"}
      BY <1>38 DEF HotSwap, GoStep, Newborn
    <2>2. /\ UNCHANGED <<proc, suspect, closed, gh, rpc, rh, lastFailed, hpc, hh>>
          /\ served' \subseteq served \cup {gnew[g]}
      BY <1>38 DEF HotSwap
    <2>3. \A d \in Goroutines : gpc'[d] # "idle" => gpc[d] # "idle"
      BY <1>38, <2>1 DEF HotSwap, GoStep, TypeOK, RestartTypeOK
    <2>4. \A h : Bad(h)' <=> Bad(h)
      BY <2>2 DEF Bad
    <2>5. \A h \in served' : proc[h] = "killed" => Bad(h)
      BY <2>1, <2>2 DEF Blamed
    <2> QED
      BY <2>2, <2>3, <2>4, <2>5 DEF Blamed
  <1>39. ASSUME NEW g \in Goroutines, KillOld(g), UNCHANGED poolFrame PROVE Blamed'
    <2>1. gpc[g] = "killOld" /\ gh[g] \in served /\ Bad(gh[g])
      BY <1>39 DEF KillOld, GoStep, ServedPlaces, Blamed
    <2>2. gh[g] \in Handles
      BY <2>1 DEF TypeOK, RestartTypeOK
    <2>3. proc' = [proc EXCEPT ![gh[g]] = "killed"] /\ UNCHANGED <<suspect, served, closed, gh, rpc, rh, lastFailed, hh>> /\ hpc' = hpc
      BY <1>39 DEF KillOld, GoStep, Kill
    <2>4. \A d \in Goroutines : gpc'[d] # "idle" => gpc[d] # "idle"
      BY <1>39, <2>1 DEF KillOld, GoStep, TypeOK, RestartTypeOK
    <2> QED
      BY <1>2, <2>1, <2>2, <2>3, <2>4
  <1>40. ASSUME NEW g \in Goroutines, KillNew(g), UNCHANGED poolFrame PROVE Blamed'
    <2>1. gpc[g] \in {"starting", "killNew"}
      BY <1>40 DEF KillNew, GoStep
    <2>2. gnew[g] # None /\ gnew[g] \notin served
      BY <2>1 DEF Newborn
    <2>3. gnew[g] \in Handles
      BY <2>2 DEF TypeOK, RestartTypeOK
    <2>4. /\ proc' = proc \/ proc' = [proc EXCEPT ![gnew[g]] = "killed"]
          /\ UNCHANGED <<suspect, served, closed, gh, rpc, rh, lastFailed, hh>> /\ hpc' = hpc
      BY <1>40 DEF KillNew, GoStep, Kill
    <2>5. \A d \in Goroutines : gpc'[d] # "idle" => gpc[d] # "idle"
      BY <1>40, <2>1 DEF KillNew, GoStep, TypeOK, RestartTypeOK
    <2> QED
      BY <1>2, <2>2, <2>3, <2>4, <2>5
  <1>41. ASSUME NEW g \in Goroutines, FinishRestart(g), UNCHANGED poolFrame PROVE Blamed'
    BY <1>41 DEF FinishRestart, GoStep, Notify, Blamed, Bad, TypeOK, RestartTypeOK
  <1>42. ASSUME NEW g \in Goroutines, GoExit(g), UNCHANGED poolFrame PROVE Blamed'
    BY <1>42 DEF GoExit, GoStep, Blamed, Bad, TypeOK, RestartTypeOK
  <1>43. ASSUME NEW h \in Handles, Reaper(h) PROVE Blamed'
    <2>1. h \notin served
      BY <1>43 DEF Reaper, Reap, Newborn
    <2> QED
      BY <1>2, <1>43, <2>1 DEF Reaper, Reap, Kill
  <1>44. ASSUME NEW h \in Handles, Break(h) PROVE Blamed'
    BY <1>44 DEF Break, WorkerBreaks, Blamed, Bad, TypeOK, RestartTypeOK
  <1>45. ASSUME NEW kind \in {"health", "hung"}, BeginSweep(kind) PROVE Blamed'
    BY <1>45 DEF BeginSweep, Blamed, Bad, TypeOK, RestartTypeOK
  <1>46. ASSUME EndSweep PROVE Blamed'
    BY <1>46 DEF EndSweep, Blamed, Bad, TypeOK, RestartTypeOK
  <1>47. ASSUME CheckerExits PROVE Blamed'
    BY <1>47 DEF CheckerExits, Blamed, Bad, TypeOK, RestartTypeOK
  <1>48. ASSUME ProbeAborted PROVE Blamed'
    BY <1>48 DEF ProbeAborted, Blamed, Bad, TypeOK, RestartTypeOK
  <1>49. ASSUME MarkUnhealthy PROVE Blamed'
    BY <1>49 DEF MarkUnhealthy, Blamed, Bad, TypeOK, RestartTypeOK
  <1>50. ASSUME DecideRestart PROVE Blamed'
    BY <1>50 DEF DecideRestart, Blamed, Bad, TypeOK, RestartTypeOK
  <1>51. ASSUME DecideHealthy PROVE Blamed'
    BY <1>51 DEF DecideHealthy, Blamed, Bad, TypeOK, RestartTypeOK
  <1>52. ASSUME SetHealthy PROVE Blamed'
    BY <1>52 DEF SetHealthy, Blamed, Bad, TypeOK, RestartTypeOK
  <1>53. ASSUME HungConfirm PROVE Blamed'
    BY <1>53 DEF HungConfirm, StillHung, Blamed, Bad, TypeOK, RestartTypeOK
  <1>54. ASSUME HungKill PROVE Blamed'
    <2>1. hh \in served /\ Bad(hh)
      BY <1>54 DEF HungKill, ServedPlaces, LookLabels, Blamed
    <2>2. hh \in Handles
      BY <2>1 DEF TypeOK, RestartTypeOK
    <2> QED
      BY <1>2, <1>54, <2>1, <2>2 DEF HungKill, Kill
  <1>55. ASSUME CheckerDispatch PROVE Blamed'
    BY <1>55 DEF CheckerDispatch, MayRegister, Blamed, Bad, TypeOK, RestartTypeOK
  <1>56. ASSUME NEW g \in Goroutines, CheckerAdd(g) PROVE Blamed'
    BY <1>56 DEF CheckerAdd, GoRestart, Blamed, Bad, TypeOK, RestartTypeOK
  <1>57. ASSUME NEW h \in Handles, Probe(h) PROVE Blamed'
    <2>1. h \in served
      BY <1>57 DEF Probe, ServedPlaces
    <2>2. /\ UNCHANGED <<proc, suspect, served, closed, gpc, gh, rpc, rh, lastFailed>>
          /\ hh' = h /\ hpc' = IF proc[h] = "up" THEN "probedUp" ELSE "probedDown"
      BY <1>57 DEF Probe
    <2>3. \A e : Bad(e)' <=> Bad(e)
      BY <2>2 DEF Bad
    <2> QED
      BY <1>3, <2>1, <2>2, <2>3 DEF Blamed
  <1>58. ASSUME NEW h \in Handles, NEW r \in Requests, HungSnapshot(h, r) PROVE Blamed'
    BY <1>58 DEF HungSnapshot, Blamed, Bad, TypeOK, RestartTypeOK
  <1>59. ASSUME CloseSwap PROVE Blamed'
    BY <1>59 DEF CloseSwap, Blamed, Bad, TypeOK, RestartTypeOK
  <1>60. ASSUME NEW h \in Handles, CloseKill(h) PROVE Blamed'
    <2>1. h \in Handles /\ Bad(h)
      BY <1>60 DEF CloseKill, Barriers, Bad
    <2> QED
      BY <1>2, <1>60, <2>1 DEF CloseKill, Kill
  <1>61. CASE UNCHANGED vars
    BY <1>1, <1>61 DEF vars
  <1> QED
    BY <1>4, <1>5, <1>6, <1>7, <1>8, <1>9, <1>10, <1>11, <1>12, <1>13, <1>14, <1>15, <1>16, <1>17, <1>18, <1>19, <1>20, <1>21, <1>22, <1>23, <1>24, <1>25, <1>26, <1>27, <1>28, <1>29, <1>30, <1>31, <1>32, <1>33, <1>34, <1>35, <1>36, <1>37, <1>38, <1>39, <1>40, <1>41, <1>42, <1>43, <1>44, <1>45, <1>46, <1>47, <1>48, <1>49, <1>50, <1>51, <1>52, <1>53, <1>54, <1>55, <1>56, <1>57, <1>58, <1>59, <1>60, <1>61
       DEF Next, RequestStep, AttemptEnds, GoroutineStep, RestartStep, CheckerStep, CloseStep

\* Every step that lets go of a running worker puts it in a slot or leaves it to
\* somebody who kills it.
LEMMA NoLeakedWorkerStep ==
  ASSUME TypeOK, ServedPlaces, Newborn, NoLeakedWorker, [Next]_vars
  PROVE  NoLeakedWorker'
  <1> USE RestartAssumption DEF slotVars, handleVars, goroutineVars, closeVars, waitVars, requestVars, checkerVars, shutdownVars, poolFrame, closeFrame
  <1>1. ASSUME UNCHANGED <<proc, slot, reaping, gnew, gh, gpc>> PROVE NoLeakedWorker'
    BY <1>1 DEF NoLeakedWorker, Running, SlotHandles
  <1>2. ASSUME NEW g \in Goroutines, gpc[g] # "killOld", UNCHANGED <<proc, slot, reaping, gnew>>,
               \A d \in Goroutines \ {g} : gpc'[d] = gpc[d] /\ gh'[d] = gh[d]
        PROVE  NoLeakedWorker'
    <2>1. SlotHandles' = SlotHandles
      BY <1>2 DEF SlotHandles
    <2>2. \A h \in Handles : Running(h)' <=> Running(h)
      BY <1>2 DEF Running
    <2> QED
      BY <1>2, <2>1, <2>2 DEF NoLeakedWorker
  <1>3. ASSUME NEW g \in Goroutines, gnew[g] # None, gnew' = [gnew EXCEPT ![g] = None],
               \/ proc' = [proc EXCEPT ![gnew[g]] = "killed"] /\ reaping \subseteq reaping'
               \/ proc' = proc /\ reaping' = reaping \cup {gnew[g]},
               gpc[g] # "killOld", \A d \in Goroutines \ {g} : gpc'[d] = gpc[d],
               UNCHANGED <<slot, gh>>
        PROVE  NoLeakedWorker'
    <2> PICK n \in Handles : n = gnew[g]
      BY <1>3 DEF TypeOK, RestartTypeOK
    <2>1. SlotHandles' = SlotHandles
      BY <1>3 DEF SlotHandles
    <2>2. \A d \in Goroutines \ {g} : gnew'[d] = gnew[d]
      BY <1>3 DEF TypeOK, RestartTypeOK
    <2>3. /\ \A h \in Handles \ {n} : proc'[h] = proc[h]
          /\ reaping \subseteq reaping' /\ (proc'[n] = "killed" \/ n \in reaping')
      BY <1>3, <2>1 DEF TypeOK, RestartTypeOK
    <2>4. ASSUME NEW h \in Handles, Running(h)', h # n
          PROVE  \/ h \in SlotHandles \/ h \in reaping
                 \/ \E d \in Goroutines \ {g} : gnew[d] = h \/ (gh[d] = h /\ gpc[d] = "killOld")
      BY <1>3, <2>3, <2>4 DEF Running, NoLeakedWorker
    <2>5. Running(n)' => n \in reaping'
      BY <2>3 DEF Running
    <2> QED
      BY <1>3, <2>1, <2>2, <2>3, <2>4, <2>5 DEF NoLeakedWorker
  <1>4. ASSUME NEW r \in Requests, BeginRequest(r) \/ CallerCancels(r) \/ GetWorker(r) \/ Refetch(r) \/ AnyNil(r) \/ AnyErr(r) \/ WaitAborted(r) \/ AwaitPoll(r) \/ AwaitDone(r) \/ AnyPoll(r) PROVE NoLeakedWorker'
    BY <1>1, <1>4 DEF BeginRequest, ReqStep, CallerCancels, GetWorker, End, BeginAttempt, ResetWait, Refetch, AnyNil, AnyErr, WaitAborted, Waiting, AwaitPoll, AwaitDone, AnyPoll
  <1>5. ASSUME NEW r \in Requests, AnyDone(r) \/ FirstByte(r) \/ AttemptAnswered(r) \/ AttemptCancelled(r) \/ AttemptFails(r) \/ AttemptMisread(r) \/ RequestDispatch(r) \/ NextAttempt(r) PROVE NoLeakedWorker'
    BY <1>1, <1>5 DEF AnyDone, ReqStep, FirstByte, AttemptAnswered, End, AttemptCancelled, AttemptFails, WorkerFailed, AttemptMisread, RequestDispatch, MayRegister, NextAttempt
  <1>6. ASSUME NEW kind \in {"health", "hung"}, BeginSweep(kind) PROVE NoLeakedWorker'
    BY <1>1, <1>6 DEF BeginSweep
  <1>7. ASSUME EndSweep \/ CheckerExits \/ ProbeAborted \/ MarkUnhealthy \/ DecideRestart \/ DecideHealthy \/ SetHealthy \/ HungConfirm \/ CheckerDispatch \/ Shutdown PROVE NoLeakedWorker'
    BY <1>1, <1>7 DEF EndSweep, CheckerExits, ProbeAborted, MarkUnhealthy, DecideRestart, DecideHealthy, SetHealthy, HungConfirm, CheckerDispatch, MayRegister, Shutdown
  <1>8. ASSUME NEW h \in Handles, Probe(h) \/ HungNone(h) PROVE NoLeakedWorker'
    BY <1>1, <1>8 DEF Probe, HungNone
  <1>9. ASSUME NEW h \in Handles, NEW r \in Requests, HungSnapshot(h, r) PROVE NoLeakedWorker'
    BY <1>1, <1>9 DEF HungSnapshot
  <1>10. ASSUME ShutdownDrained \/ CloseNow \/ CloseSwap \/ CloseSignal \/ CloseSnapshot \/ CloseReturn PROVE NoLeakedWorker'
    BY <1>1, <1>10 DEF ShutdownDrained, Drained, CloseNow, CloseSwap, CloseSignal, CloseSnapshot, Barrier, CloseReturn
  <1>11. ASSUME NEW r \in Requests, NEW g \in Goroutines, AwaitSpawn(r, g) PROVE NoLeakedWorker'
    <2>1. /\ gpc[g] # "killOld" /\ UNCHANGED <<proc, slot, reaping, gnew>>
          /\ \A d \in Goroutines \ {g} : gpc'[d] = gpc[d] /\ gh'[d] = gh[d]
      BY <1>11 DEF AwaitSpawn, ReqStep, GoRestart, TypeOK, RestartTypeOK
    <2> QED
      BY <1>2, <2>1
  <1>12. ASSUME NEW r \in Requests, NEW g \in Goroutines, RequestAdd(r, g) PROVE NoLeakedWorker'
    <2>1. /\ gpc[g] # "killOld" /\ UNCHANGED <<proc, slot, reaping, gnew>>
          /\ \A d \in Goroutines \ {g} : gpc'[d] = gpc[d] /\ gh'[d] = gh[d]
      BY <1>12 DEF RequestAdd, ReqStep, GoRestart, TypeOK, RestartTypeOK
    <2> QED
      BY <1>2, <2>1
  <1>13. ASSUME NEW g \in Goroutines, EarlyCheck(g), UNCHANGED poolFrame PROVE NoLeakedWorker'
    <2>1. /\ gpc[g] # "killOld" /\ UNCHANGED <<proc, slot, reaping, gnew>>
          /\ \A d \in Goroutines \ {g} : gpc'[d] = gpc[d] /\ gh'[d] = gh[d]
      BY <1>13 DEF EarlyCheck, GoStep, TypeOK, RestartTypeOK
    <2> QED
      BY <1>2, <2>1
  <1>14. ASSUME NEW g \in Goroutines, CompareAndSwap(g), UNCHANGED poolFrame PROVE NoLeakedWorker'
    <2>1. /\ gpc[g] # "killOld" /\ UNCHANGED <<proc, slot, reaping, gnew>>
          /\ \A d \in Goroutines \ {g} : gpc'[d] = gpc[d] /\ gh'[d] = gh[d]
      BY <1>14 DEF CompareAndSwap, GoStep, CanSwapRestarting, TypeOK, RestartTypeOK
    <2> QED
      BY <1>2, <2>1
  <1>15. ASSUME NEW g \in Goroutines, CondWait(g), UNCHANGED poolFrame PROVE NoLeakedWorker'
    <2>1. /\ gpc[g] # "killOld" /\ UNCHANGED <<proc, slot, reaping, gnew>>
          /\ \A d \in Goroutines \ {g} : gpc'[d] = gpc[d] /\ gh'[d] = gh[d]
      BY <1>15 DEF CondWait, GoStep, TypeOK, RestartTypeOK
    <2> QED
      BY <1>2, <2>1
  <1>16. ASSUME NEW g \in Goroutines, PublishChannel(g), UNCHANGED poolFrame PROVE NoLeakedWorker'
    <2>1. /\ gpc[g] # "killOld" /\ UNCHANGED <<proc, slot, reaping, gnew>>
          /\ \A d \in Goroutines \ {g} : gpc'[d] = gpc[d] /\ gh'[d] = gh[d]
      BY <1>16 DEF PublishChannel, GoStep, TypeOK, RestartTypeOK
    <2> QED
      BY <1>2, <2>1
  <1>17. ASSUME NEW g \in Goroutines, Recheck(g), UNCHANGED poolFrame PROVE NoLeakedWorker'
    <2>1. /\ gpc[g] # "killOld" /\ UNCHANGED <<proc, slot, reaping, gnew>>
          /\ \A d \in Goroutines \ {g} : gpc'[d] = gpc[d] /\ gh'[d] = gh[d]
      BY <1>17 DEF Recheck, GoStep, TypeOK, RestartTypeOK
    <2> QED
      BY <1>2, <2>1
  <1>18. ASSUME NEW g \in Goroutines, SpawnAborted(g), UNCHANGED poolFrame PROVE NoLeakedWorker'
    <2>1. /\ gpc[g] # "killOld" /\ UNCHANGED <<proc, slot, reaping, gnew>>
          /\ \A d \in Goroutines \ {g} : gpc'[d] = gpc[d] /\ gh'[d] = gh[d]
      BY <1>18 DEF SpawnAborted, GoStep, TypeOK, RestartTypeOK
    <2> QED
      BY <1>2, <2>1
  <1>19. ASSUME NEW g \in Goroutines, SpawnWorker(g), UNCHANGED poolFrame PROVE NoLeakedWorker'
    <2>1. /\ gnew[g] = None /\ gpc[g] = "spawn"
          /\ gnew'[g] = nextHandle /\ \A d \in Goroutines \ {g} : gnew'[d] = gnew[d]
          /\ \A d \in Goroutines \ {g} : gpc'[d] = gpc[d]
          /\ \A h \in Handles \ {nextHandle} : proc'[h] = proc[h]
          /\ UNCHANGED <<slot, reaping, gh>> /\ None \notin Handles
      <3>1. None \notin Handles /\ gnew[g] = None
        BY <1>19 DEF SpawnWorker, GoStep, Newborn, Handles
      <3> QED
        BY <1>19, <3>1 DEF SpawnWorker, GoStep, TypeOK, RestartTypeOK
    <2>2. SlotHandles' = SlotHandles
      BY <2>1 DEF SlotHandles
    <2>3. ASSUME NEW h \in Handles, Running(h)', h # nextHandle
          PROVE  \/ h \in SlotHandles \/ h \in reaping
                 \/ \E d \in Goroutines : gnew[d] = h \/ (gh[d] = h /\ gpc[d] = "killOld")
      BY <2>1, <2>3 DEF Running, NoLeakedWorker
    <2> QED
      BY <2>1, <2>2, <2>3 DEF NoLeakedWorker
  <1>20. ASSUME NEW g \in Goroutines, SpawnFails(g), UNCHANGED poolFrame PROVE NoLeakedWorker'
    <2>1. /\ gpc[g] # "killOld" /\ UNCHANGED <<proc, slot, reaping, gnew>>
          /\ \A d \in Goroutines \ {g} : gpc'[d] = gpc[d] /\ gh'[d] = gh[d]
      BY <1>20 DEF SpawnFails, GoStep, TypeOK, RestartTypeOK
    <2> QED
      BY <1>2, <2>1
  <1>21. ASSUME NEW g \in Goroutines, StartSucceeds(g), UNCHANGED poolFrame PROVE NoLeakedWorker'
    <2>1. gpc[g] = "starting" /\ gnew[g] # None
      BY <1>21 DEF StartSucceeds, GoStep, Newborn
    <2>2. gnew[g] \in Handles
      BY <2>1 DEF TypeOK, RestartTypeOK
    <2>3. /\ UNCHANGED <<slot, reaping, gnew, gh>>
          /\ \A h \in Handles \ {gnew[g]} : proc'[h] = proc[h]
          /\ \A d \in Goroutines \ {g} : gpc'[d] = gpc[d]
      BY <1>21 DEF StartSucceeds, GoStep, TypeOK, RestartTypeOK
    <2>4. SlotHandles' = SlotHandles
      BY <2>3 DEF SlotHandles
    <2>5. \A h \in Handles \ {gnew[g]} : Running(h)' => Running(h)
      BY <2>3 DEF Running
    <2> QED
      BY <2>1, <2>3, <2>4, <2>5 DEF NoLeakedWorker
  <1>22. ASSUME NEW g \in Goroutines, StartFails(g), UNCHANGED poolFrame PROVE NoLeakedWorker'
    <2>1. gpc[g] \in {"starting", "killNew"}
      BY <1>22 DEF StartFails, GoStep
    <2>2. gnew[g] # None
      BY <2>1 DEF Newborn
    <2>3. \A d \in Goroutines \ {g} : gpc'[d] = gpc[d]
      BY <1>22 DEF StartFails, GoStep, TypeOK, RestartTypeOK
    <2>4. /\ gnew' = [gnew EXCEPT ![g] = None] /\ UNCHANGED <<slot, gh>>
          /\ \/ proc' = [proc EXCEPT ![gnew[g]] = "killed"] /\ reaping \subseteq reaping'
             \/ proc' = proc /\ reaping' = reaping \cup {gnew[g]}
      BY <1>22 DEF StartFails, GoStep, Kill
    <2> QED
      BY <1>3, <2>1, <2>2, <2>3, <2>4
  <1>23. ASSUME NEW g \in Goroutines, StartTimesOut(g), UNCHANGED poolFrame PROVE NoLeakedWorker'
    <2>1. gpc[g] \in {"starting", "killNew"}
      BY <1>23 DEF StartTimesOut, GoStep
    <2>2. gnew[g] # None
      BY <2>1 DEF Newborn
    <2>3. \A d \in Goroutines \ {g} : gpc'[d] = gpc[d]
      BY <1>23 DEF StartTimesOut, GoStep, TypeOK, RestartTypeOK
    <2>4. /\ gnew' = [gnew EXCEPT ![g] = None] /\ UNCHANGED <<slot, gh>>
          /\ \/ proc' = [proc EXCEPT ![gnew[g]] = "killed"] /\ reaping \subseteq reaping'
             \/ proc' = proc /\ reaping' = reaping \cup {gnew[g]}
      BY <1>23 DEF StartTimesOut, GoStep, ClientKill, Kill, LeaveToReaper
    <2> QED
      BY <1>3, <2>1, <2>2, <2>3, <2>4
  <1>24. ASSUME NEW g \in Goroutines, StartAborted(g), UNCHANGED poolFrame PROVE NoLeakedWorker'
    <2>1. gpc[g] \in {"starting", "killNew"}
      BY <1>24 DEF StartAborted, GoStep
    <2>2. gnew[g] # None
      BY <2>1 DEF Newborn
    <2>3. \A d \in Goroutines \ {g} : gpc'[d] = gpc[d]
      BY <1>24 DEF StartAborted, GoStep, TypeOK, RestartTypeOK
    <2>4. /\ gnew' = [gnew EXCEPT ![g] = None] /\ UNCHANGED <<slot, gh>>
          /\ \/ proc' = [proc EXCEPT ![gnew[g]] = "killed"] /\ reaping \subseteq reaping'
             \/ proc' = proc /\ reaping' = reaping \cup {gnew[g]}
      BY <1>24 DEF StartAborted, GoStep, ClientKill, Kill, LeaveToReaper
    <2> QED
      BY <1>3, <2>1, <2>2, <2>3, <2>4
  <1>25. ASSUME NEW g \in Goroutines, StartFailed(g), UNCHANGED poolFrame PROVE NoLeakedWorker'
    <2>1. /\ gpc[g] # "killOld" /\ UNCHANGED <<proc, slot, reaping, gnew>>
          /\ \A d \in Goroutines \ {g} : gpc'[d] = gpc[d] /\ gh'[d] = gh[d]
      BY <1>25 DEF StartFailed, GoStep, TypeOK, RestartTypeOK
    <2> QED
      BY <1>2, <2>1
  <1>26. ASSUME NEW g \in Goroutines, HotSwap(g), UNCHANGED poolFrame PROVE NoLeakedWorker'
    <2>1. /\ gpc[g] = "install" /\ UNCHANGED <<proc, reaping, gh>>
          /\ gh[g] \in served /\ idOf[gh[g]] \in Slots /\ gnew[g] # None /\ gh[g] \in Handles
          /\ \A d \in Goroutines \ {g} : gpc'[d] = gpc[d] /\ gnew'[d] = gnew[d]
      BY <1>26 DEF HotSwap, GoStep, ServedPlaces, Newborn, TypeOK, RestartTypeOK
    <2>2. \A h \in Handles : Running(h)' <=> Running(h)
      BY <2>1 DEF Running
    <2>3. CASE MayInstall(gh[g])
      <3>1. /\ slot' = [slot EXCEPT ![idOf[gh[g]]] = gnew[g]] /\ slot[idOf[gh[g]]] = gh[g]
            /\ gpc'[g] = "killOld"
        BY <1>26, <2>3 DEF HotSwap, GoStep, MayInstall, InSlot, TypeOK, RestartTypeOK
      <3>2. gnew[g] \in SlotHandles' /\ \A h \in SlotHandles : h # gh[g] => h \in SlotHandles'
        BY <2>1, <3>1 DEF SlotHandles, TypeOK, RestartTypeOK
      <3> QED
        BY <2>1, <2>2, <3>1, <3>2 DEF NoLeakedWorker
    <2>4. CASE ~ MayInstall(gh[g])
      <3>1. slot' = slot /\ gnew' = gnew
        BY <1>26, <2>4 DEF HotSwap, TypeOK, RestartTypeOK
      <3>2. SlotHandles' = SlotHandles
        BY <3>1 DEF SlotHandles
      <3> QED
        BY <2>1, <2>2, <3>1, <3>2 DEF NoLeakedWorker
    <2> QED
      BY <2>3, <2>4
  <1>27. ASSUME NEW g \in Goroutines, KillOld(g), UNCHANGED poolFrame PROVE NoLeakedWorker'
    BY SMTT(40), <1>27 DEF KillOld, GoStep, Kill, NoLeakedWorker, Running, SlotHandles, TypeOK, RestartTypeOK
  <1>28. ASSUME NEW g \in Goroutines, KillNew(g), UNCHANGED poolFrame PROVE NoLeakedWorker'
    <2>1. gpc[g] \in {"starting", "killNew"}
      BY <1>28 DEF KillNew, GoStep
    <2>2. gnew[g] # None
      BY <2>1 DEF Newborn
    <2>3. \A d \in Goroutines \ {g} : gpc'[d] = gpc[d]
      BY <1>28 DEF KillNew, GoStep, TypeOK, RestartTypeOK
    <2>4. /\ gnew' = [gnew EXCEPT ![g] = None] /\ UNCHANGED <<slot, gh>>
          /\ \/ proc' = [proc EXCEPT ![gnew[g]] = "killed"] /\ reaping \subseteq reaping'
             \/ proc' = proc /\ reaping' = reaping \cup {gnew[g]}
      BY <1>28 DEF KillNew, GoStep, Kill
    <2> QED
      BY <1>3, <2>1, <2>2, <2>3, <2>4
  <1>29. ASSUME NEW g \in Goroutines, FinishRestart(g), UNCHANGED poolFrame PROVE NoLeakedWorker'
    <2>1. /\ gpc[g] # "killOld" /\ UNCHANGED <<proc, slot, reaping, gnew>>
          /\ \A d \in Goroutines \ {g} : gpc'[d] = gpc[d] /\ gh'[d] = gh[d]
      BY <1>29 DEF FinishRestart, GoStep, Notify, TypeOK, RestartTypeOK
    <2> QED
      BY <1>2, <2>1
  <1>30. ASSUME NEW g \in Goroutines, GoExit(g), UNCHANGED poolFrame PROVE NoLeakedWorker'
    <2>1. /\ gpc[g] # "killOld" /\ UNCHANGED <<proc, slot, reaping, gnew>>
          /\ \A d \in Goroutines \ {g} : gpc'[d] = gpc[d] /\ gh'[d] = gh[d]
      BY <1>30 DEF GoExit, GoStep, TypeOK, RestartTypeOK
    <2> QED
      BY <1>2, <2>1
  <1>31. ASSUME NEW h \in Handles, Reaper(h) PROVE NoLeakedWorker'
    BY SMTT(40), <1>31 DEF Reaper, Reap, Kill, NoLeakedWorker, Running, SlotHandles, TypeOK, RestartTypeOK
  <1>32. ASSUME NEW h \in Handles, Break(h) PROVE NoLeakedWorker'
    BY SMTT(40), <1>32 DEF Break, WorkerBreaks, NoLeakedWorker, Running, SlotHandles, TypeOK, RestartTypeOK
  <1>33. ASSUME HungKill PROVE NoLeakedWorker'
    BY <1>33 DEF HungKill, Kill, NoLeakedWorker, Running, SlotHandles, TypeOK, RestartTypeOK
  <1>34. ASSUME NEW g \in Goroutines, CheckerAdd(g) PROVE NoLeakedWorker'
    <2>1. /\ gpc[g] # "killOld" /\ UNCHANGED <<proc, slot, reaping, gnew>>
          /\ \A d \in Goroutines \ {g} : gpc'[d] = gpc[d] /\ gh'[d] = gh[d]
      BY <1>34 DEF CheckerAdd, GoRestart, TypeOK, RestartTypeOK
    <2> QED
      BY <1>2, <2>1
  <1>35. ASSUME NEW h \in Handles, CloseKill(h) PROVE NoLeakedWorker'
    BY SMTT(40), <1>35 DEF CloseKill, Kill, NoLeakedWorker, Running, SlotHandles, TypeOK, RestartTypeOK
  <1>36. CASE UNCHANGED vars
    BY <1>1, <1>36 DEF vars
  <1> QED
    BY <1>4, <1>5, <1>6, <1>7, <1>8, <1>9, <1>10, <1>11, <1>12, <1>13, <1>14, <1>15, <1>16, <1>17, <1>18, <1>19, <1>20, <1>21, <1>22, <1>23, <1>24, <1>25, <1>26, <1>27, <1>28, <1>29, <1>30, <1>31, <1>32, <1>33, <1>34, <1>35, <1>36
       DEF Next, RequestStep, AttemptEnds, GoroutineStep, RestartStep, CheckerStep, CloseStep

\* Whoever publishes a channel stays inside restartWorker until it is closed.
LEMMA NoLostWakeupStep ==
  ASSUME TypeOK, ServedPlaces, GuardHeld, NoLostWakeup, [Next]_vars
  PROVE  NoLostWakeup'
  <1> USE RestartAssumption DEF slotVars, handleVars, goroutineVars, closeVars, waitVars, requestVars, checkerVars, shutdownVars, poolFrame, closeFrame
  <1>1. ASSUME UNCHANGED <<rpc, fired, chans, chan, gh, gpc>> PROVE NoLostWakeup'
    BY <1>1 DEF NoLostWakeup
  <1>2. ASSUME NEW r \in Requests, CallerCancels(r) \/ FirstByte(r) PROVE NoLostWakeup'
    BY <1>1, <1>2 DEF CallerCancels, FirstByte
  <1>3. ASSUME NEW h \in Handles, Reaper(h) \/ Break(h) \/ Probe(h) \/ HungNone(h) \/ CloseKill(h) PROVE NoLostWakeup'
    BY <1>1, <1>3 DEF Reaper, Reap, Kill, Break, WorkerBreaks, Probe, HungNone, CloseKill
  <1>4. ASSUME NEW kind \in {"health", "hung"}, BeginSweep(kind) PROVE NoLostWakeup'
    BY <1>1, <1>4 DEF BeginSweep
  <1>5. ASSUME EndSweep \/ CheckerExits \/ ProbeAborted \/ MarkUnhealthy \/ DecideRestart \/ DecideHealthy \/ SetHealthy \/ HungConfirm \/ HungKill \/ CheckerDispatch PROVE NoLostWakeup'
    BY <1>1, <1>5 DEF EndSweep, CheckerExits, ProbeAborted, MarkUnhealthy, DecideRestart, DecideHealthy, SetHealthy, HungConfirm, HungKill, Kill, CheckerDispatch, MayRegister
  <1>6. ASSUME NEW h \in Handles, NEW r \in Requests, HungSnapshot(h, r) PROVE NoLostWakeup'
    BY <1>1, <1>6 DEF HungSnapshot
  <1>7. ASSUME Shutdown \/ ShutdownDrained \/ CloseNow \/ CloseSwap \/ CloseSignal \/ CloseSnapshot \/ CloseReturn PROVE NoLostWakeup'
    BY <1>1, <1>7 DEF Shutdown, ShutdownDrained, Drained, CloseNow, CloseSwap, CloseSignal, CloseSnapshot, Barrier, CloseReturn
  <1>8. ASSUME NEW r \in Requests, BeginRequest(r) PROVE NoLostWakeup'
    BY <1>8 DEF BeginRequest, ReqStep, NoLostWakeup, TypeOK, RestartTypeOK
  <1>9. ASSUME NEW r \in Requests, GetWorker(r) PROVE NoLostWakeup'
    BY <1>9 DEF GetWorker, End, BeginAttempt, ResetWait, NoLostWakeup, TypeOK, RestartTypeOK
  <1>10. ASSUME NEW r \in Requests, Refetch(r) PROVE NoLostWakeup'
    BY <1>10 DEF Refetch, End, BeginAttempt, ResetWait, NoLostWakeup, TypeOK, RestartTypeOK
  <1>11. ASSUME NEW r \in Requests, AnyNil(r) PROVE NoLostWakeup'
    BY <1>11 DEF AnyNil, End, BeginAttempt, ResetWait, NoLostWakeup, TypeOK, RestartTypeOK
  <1>12. ASSUME NEW r \in Requests, AnyErr(r) PROVE NoLostWakeup'
    BY <1>12 DEF AnyErr, End, BeginAttempt, ResetWait, NoLostWakeup, TypeOK, RestartTypeOK
  <1>13. ASSUME NEW r \in Requests, WaitAborted(r) PROVE NoLostWakeup'
    BY <1>13 DEF WaitAborted, End, ResetWait, Waiting, NoLostWakeup, TypeOK, RestartTypeOK
  <1>14. ASSUME NEW r \in Requests, AwaitPoll(r) PROVE NoLostWakeup'
    <2>1. \A h \in Handles : chan[h] => \E g \in Goroutines :
            gh[g] = h /\ gpc[g] \notin {"idle", "check", "cas", "wait", "publish", "exit"}
      BY DEF GuardHeld, Inside, GuardLabels
    <2>2. /\ lastFailed[r] \in Handles /\ UNCHANGED <<fired, chan, gh, gpc>>
          /\ \A q \in Requests \ {r} : rpc'[q] = rpc[q] /\ chans'[q] = chans[q]
          /\ rpc'[r] \in {"onChan", "anyWait"} => chan[lastFailed[r]] /\ chans'[r] = {lastFailed[r]}
      BY <1>14 DEF AwaitPoll, ServedPlaces, TypeOK, RestartTypeOK
    <2> QED
      BY <2>1, <2>2 DEF NoLostWakeup
  <1>15. ASSUME NEW r \in Requests, AwaitDone(r) PROVE NoLostWakeup'
    BY SMTT(30), <1>15 DEF AwaitDone, ReqStep, NoLostWakeup, TypeOK, RestartTypeOK
  <1>16. ASSUME NEW r \in Requests, AnyPoll(r) PROVE NoLostWakeup'
    <2>1. \A h \in Handles : chan[h] => \E g \in Goroutines :
            gh[g] = h /\ gpc[g] \notin {"idle", "check", "cas", "wait", "publish", "exit"}
      BY DEF GuardHeld, Inside, GuardLabels
    <2>2. Visible \subseteq Handles
      BY SlotsAreHandles DEF Visible
    <2>3. /\ UNCHANGED <<chan, gh, gpc>>
          /\ \A q \in Requests \ {r} : rpc'[q] = rpc[q] /\ chans'[q] = chans[q] /\ fired'[q] = fired[q]
          /\ rpc'[r] \in {"onChan", "anyWait"} =>
                /\ Visible # {} /\ \A h \in Visible : chan[h]
                /\ chans'[r] = {h \in Visible : chan[h]}
      BY <1>16 DEF AnyPoll, TypeOK, RestartTypeOK
    <2> QED
      BY <2>1, <2>2, <2>3 DEF NoLostWakeup
  <1>17. ASSUME NEW r \in Requests, AnyDone(r) PROVE NoLostWakeup'
    BY <1>17 DEF AnyDone, ReqStep, NoLostWakeup, TypeOK, RestartTypeOK
  <1>18. ASSUME NEW r \in Requests, AttemptAnswered(r) PROVE NoLostWakeup'
    BY <1>18 DEF AttemptAnswered, End, NoLostWakeup, TypeOK, RestartTypeOK
  <1>19. ASSUME NEW r \in Requests, AttemptCancelled(r) PROVE NoLostWakeup'
    BY <1>19 DEF AttemptCancelled, End, NoLostWakeup, TypeOK, RestartTypeOK
  <1>20. ASSUME NEW r \in Requests, AttemptFails(r) PROVE NoLostWakeup'
    BY <1>20 DEF AttemptFails, ReqStep, WorkerFailed, NoLostWakeup, TypeOK, RestartTypeOK
  <1>21. ASSUME NEW r \in Requests, AttemptMisread(r) PROVE NoLostWakeup'
    BY <1>21 DEF AttemptMisread, ReqStep, NoLostWakeup, TypeOK, RestartTypeOK
  <1>22. ASSUME NEW r \in Requests, RequestDispatch(r) PROVE NoLostWakeup'
    BY <1>22 DEF RequestDispatch, ReqStep, MayRegister, NoLostWakeup, TypeOK, RestartTypeOK
  <1>23. ASSUME NEW r \in Requests, NextAttempt(r) PROVE NoLostWakeup'
    BY <1>23 DEF NextAttempt, End, NoLostWakeup, TypeOK, RestartTypeOK
  <1>24. ASSUME NEW r \in Requests, NEW g \in Goroutines, AwaitSpawn(r, g) PROVE NoLostWakeup'
    BY <1>24 DEF AwaitSpawn, ReqStep, GoRestart, NoLostWakeup, TypeOK, RestartTypeOK
  <1>25. ASSUME NEW r \in Requests, NEW g \in Goroutines, RequestAdd(r, g) PROVE NoLostWakeup'
    BY <1>25 DEF RequestAdd, ReqStep, GoRestart, NoLostWakeup, TypeOK, RestartTypeOK
  <1>26. ASSUME NEW g \in Goroutines, EarlyCheck(g), UNCHANGED poolFrame PROVE NoLostWakeup'
    BY <1>26 DEF EarlyCheck, GoStep, NoLostWakeup, TypeOK, RestartTypeOK
  <1>27. ASSUME NEW g \in Goroutines, CompareAndSwap(g), UNCHANGED poolFrame PROVE NoLostWakeup'
    BY <1>27 DEF CompareAndSwap, GoStep, CanSwapRestarting, NoLostWakeup, TypeOK, RestartTypeOK
  <1>28. ASSUME NEW g \in Goroutines, CondWait(g), UNCHANGED poolFrame PROVE NoLostWakeup'
    BY <1>28 DEF CondWait, GoStep, NoLostWakeup, TypeOK, RestartTypeOK
  <1>29. ASSUME NEW g \in Goroutines, PublishChannel(g), UNCHANGED poolFrame PROVE NoLostWakeup'
    BY <1>29 DEF PublishChannel, GoStep, NoLostWakeup, TypeOK, RestartTypeOK
  <1>30. ASSUME NEW g \in Goroutines, Recheck(g), UNCHANGED poolFrame PROVE NoLostWakeup'
    BY <1>30 DEF Recheck, GoStep, NoLostWakeup, TypeOK, RestartTypeOK
  <1>31. ASSUME NEW g \in Goroutines, SpawnAborted(g), UNCHANGED poolFrame PROVE NoLostWakeup'
    BY <1>31 DEF SpawnAborted, GoStep, NoLostWakeup, TypeOK, RestartTypeOK
  <1>32. ASSUME NEW g \in Goroutines, SpawnWorker(g), UNCHANGED poolFrame PROVE NoLostWakeup'
    BY <1>32 DEF SpawnWorker, GoStep, NoLostWakeup, TypeOK, RestartTypeOK
  <1>33. ASSUME NEW g \in Goroutines, SpawnFails(g), UNCHANGED poolFrame PROVE NoLostWakeup'
    BY <1>33 DEF SpawnFails, GoStep, NoLostWakeup, TypeOK, RestartTypeOK
  <1>34. ASSUME NEW g \in Goroutines, StartSucceeds(g), UNCHANGED poolFrame PROVE NoLostWakeup'
    BY <1>34 DEF StartSucceeds, GoStep, NoLostWakeup, TypeOK, RestartTypeOK
  <1>35. ASSUME NEW g \in Goroutines, StartFails(g), UNCHANGED poolFrame PROVE NoLostWakeup'
    BY <1>35 DEF StartFails, GoStep, Kill, NoLostWakeup, TypeOK, RestartTypeOK
  <1>36. ASSUME NEW g \in Goroutines, StartTimesOut(g), UNCHANGED poolFrame PROVE NoLostWakeup'
    BY <1>36 DEF StartTimesOut, GoStep, ClientKill, Kill, LeaveToReaper, NoLostWakeup, TypeOK, RestartTypeOK
  <1>37. ASSUME NEW g \in Goroutines, StartAborted(g), UNCHANGED poolFrame PROVE NoLostWakeup'
    BY <1>37 DEF StartAborted, GoStep, ClientKill, Kill, LeaveToReaper, NoLostWakeup, TypeOK, RestartTypeOK
  <1>38. ASSUME NEW g \in Goroutines, StartFailed(g), UNCHANGED poolFrame PROVE NoLostWakeup'
    BY <1>38 DEF StartFailed, GoStep, NoLostWakeup, TypeOK, RestartTypeOK
  <1>39. ASSUME NEW g \in Goroutines, HotSwap(g), UNCHANGED poolFrame PROVE NoLostWakeup'
    BY <1>39 DEF HotSwap, GoStep, MayInstall, NoLostWakeup, TypeOK, RestartTypeOK
  <1>40. ASSUME NEW g \in Goroutines, KillOld(g), UNCHANGED poolFrame PROVE NoLostWakeup'
    BY <1>40 DEF KillOld, GoStep, Kill, NoLostWakeup, TypeOK, RestartTypeOK
  <1>41. ASSUME NEW g \in Goroutines, KillNew(g), UNCHANGED poolFrame PROVE NoLostWakeup'
    BY <1>41 DEF KillNew, GoStep, Kill, NoLostWakeup, TypeOK, RestartTypeOK
  <1>42. ASSUME NEW g \in Goroutines, FinishRestart(g), UNCHANGED poolFrame PROVE NoLostWakeup'
    BY <1>42 DEF FinishRestart, GoStep, Notify, NoLostWakeup, TypeOK, RestartTypeOK
  <1>43. ASSUME NEW g \in Goroutines, GoExit(g), UNCHANGED poolFrame PROVE NoLostWakeup'
    BY <1>43 DEF GoExit, GoStep, NoLostWakeup, TypeOK, RestartTypeOK
  <1>44. ASSUME NEW g \in Goroutines, CheckerAdd(g) PROVE NoLostWakeup'
    BY <1>44 DEF CheckerAdd, GoRestart, NoLostWakeup, TypeOK, RestartTypeOK
  <1>45. CASE UNCHANGED vars
    BY <1>1, <1>45 DEF vars
  <1> QED
    BY <1>2, <1>3, <1>4, <1>5, <1>6, <1>7, <1>8, <1>9, <1>10, <1>11, <1>12, <1>13, <1>14, <1>15, <1>16, <1>17, <1>18, <1>19, <1>20, <1>21, <1>22, <1>23, <1>24, <1>25, <1>26, <1>27, <1>28, <1>29, <1>30, <1>31, <1>32, <1>33, <1>34, <1>35, <1>36, <1>37, <1>38, <1>39, <1>40, <1>41, <1>42, <1>43, <1>44, <1>45
       DEF Next, RequestStep, AttemptEnds, GoroutineStep, RestartStep, CheckerStep, CloseStep

----------------------------------------------------------------------------
(* The invariant, and what follows from it *)

\* A new pool satisfies the invariant: one worker per slot, nobody inside.
LEMMA PoolStarts == ASSUME Init PROVE PoolInv
  <1> USE RestartAssumption DEF Slots, Handles
  <1>1. Slots \subseteq Handles /\ PoolSize + 1 \in 1..(MaxHandles + 1)
    OBVIOUS
  <1>2. RestartTypeOK
    <2>1. slot \in [Slots -> Handles] /\ served \subseteq Handles
      BY <1>1 DEF Init, RestartInit
    <2>2. /\ idOf \in [Handles -> Slots \cup {None}] /\ proc \in [Handles -> ProcStates]
          /\ healthy \in [Handles -> BOOLEAN]
      BY DEF Init, RestartInit, ProcStates
    <2>3. nextHandle \in 1..(MaxHandles + 1) /\ fails \in Nat
      BY <1>1 DEF Init, RestartInit
    <2> HIDE DEF Slots, Handles
    <2> QED
      BY <2>1, <2>2, <2>3 DEF Init, RestartInit, RestartTypeOK, GoLabels
  <1>3. TypeOK
    <2>1. hpc \in CheckerLabels /\ config \in Configs /\ config.tries \in Nat
      BY ConfigAssumption DEF Init, CheckerLabels
    <2>2. tries \in [Requests -> 0..config.tries]
      BY <2>1 DEF Init
    <2> QED
      BY <1>2, <2>1, <2>2 DEF Init, TypeOK, RequestLabels, CloseLabels, Outcomes
  <1>4. Admission
    <2>1. Active = {}
      BY DEF Init, Active
    <2> QED
      BY <2>1, FS_EmptySet DEF Init, Admission
  <1>5. Barriers /\ GuardHeld
    BY DEF Init, RestartInit, Barriers, GuardHeld, Inside, GuardLabels
  <1>6. SlotHandles = Slots
    BY DEF Init, RestartInit, SlotHandles
  <1>7. ServedPlaces
    BY <1>1, <1>6 DEF Init, RestartInit, ServedPlaces, LookLabels
  <1>8. Newborn /\ StartedForSlot
    BY <1>1 DEF Init, RestartInit, Newborn, StartedForSlot
  <1>9. Blamed /\ NoLostWakeup
    BY DEF Init, RestartInit, Blamed, Bad, NoLostWakeup
  <1>10. NoLeakedWorker
    BY <1>6 DEF Init, RestartInit, NoLeakedWorker, Running
  <1> QED
    BY <1>3, <1>4, <1>5, <1>7, <1>8, <1>9, <1>10 DEF PoolInv

\* Every step of the pool preserves the invariant.
LEMMA PoolStep == ASSUME PoolInv, [Next]_vars PROVE PoolInv'
  BY TypeStep, AdmissionStep, BarriersStep, GuardHeldStep, ServedPlacesStep, NewbornStep,
     StartedForSlotStep, BlamedStep, NoLeakedWorkerStep, NoLostWakeupStep DEF PoolInv

\* The invariant holds throughout.
LEMMA PoolInvariant == Spec => []PoolInv
  BY PoolStarts, PoolStep, PTL DEF Spec

\* The pool's variables keep their types; logicalInFlight, which done() decrements
\* (pool.go: beginLogicalRequest), never goes below zero.
THEOREM PoolTypeCorrect == Spec => []TypeOK
  <1>1. PoolInv => TypeOK
    BY DEF PoolInv
  <1> QED
    BY <1>1, PoolInvariant, PTL

\* No worker process is lost, for any number of slots, requests and restarts: the
\* swap of restartWorker, the starts it gives up on and Close leave every running
\* process in its slot or to somebody who is going to install or kill it.
THEOREM NoWorkerIsLost == Spec => []NoLeakedWorker
  <1>1. PoolInv => NoLeakedWorker
    BY DEF PoolInv
  <1> QED
    BY <1>1, PoolInvariant, PTL

\* While the pool is open, a worker that got its slot is killed only if it gave cause
\* itself: it broke, let a request hang up to the checker's second look, or sent an
\* error that reads like the transport's.  Neither a late restart of its predecessor
\* nor a caller's cancellation reaches it (restartWorker's stale-handle checks,
\* workerFailed).
THEOREM GoodWorkersAreSpared == Spec => []GoodWorkersSurvive
  <1>1. PoolInv => GoodWorkersSurvive
    BY DEF PoolInv, Blamed, Bad, GoodWorkersSurvive
  <1> QED
    BY <1>1, PoolInvariant, PTL

\* Only the hot swap gives a slot away, and it has the reason and the replacement.
LEMMA SwapStep ==
  ASSUME PoolInv, [Next]_vars, NEW i \in Slots, slot'[i] # slot[i]
  PROVE  /\ slot[i] \in suspect
         /\ slot'[i] \notin served /\ idOf[slot'[i]] = i
         /\ proc[slot'[i]] \in {"up", "broken"}
  <1>1. PICK g \in Goroutines : HotSwap(g)
    <2>1. ~ UNCHANGED slot
      OBVIOUS
    <2>2. TypeOK
      BY DEF PoolInv
    <2>3. \A g \in Goroutines : SpawnWorker(g) => UNCHANGED slot
      BY DEF SpawnWorker, slotVars
    <2> QED
      BY <2>1, <2>2, <2>3, ReplacementSteps
  <1>2. /\ ~ closed /\ InSlot(gh[g]) /\ slot' = [slot EXCEPT ![idOf[gh[g]]] = gnew[g]]
        /\ gpc[g] = "install"
    BY <1>1 DEF HotSwap, GoStep, MayInstall
  <1>3. i = idOf[gh[g]] /\ slot[i] = gh[g] /\ slot'[i] = gnew[g]
    BY <1>2 DEF InSlot, PoolInv, TypeOK, RestartTypeOK
  <1>4. Bad(gh[g]) /\ gnew[g] # None
    BY <1>2 DEF PoolInv, Blamed, Newborn
  <1>5. gnew[g] \notin served /\ proc[gnew[g]] \in {"up", "broken"} /\ idOf[gnew[g]] = i
    BY <1>2, <1>3, <1>4 DEF PoolInv, Newborn, StartedForSlot
  <1> QED
    BY <1>2, <1>3, <1>4, <1>5 DEF Bad

\* However many restarts race, for any number of slots, requests and goroutines, a
\* hot swap of restartWorker takes a slot from a worker that gave cause for it (it
\* broke, hung, or sent an error that reads like the transport's) and gives it to one
\* that was started for it and never had it.
THEOREM SlotsOnlyImprove == Spec => SwapsAreUpgrades
  <1>1. ASSUME PoolInv, [Next]_vars
        PROVE  \A i \in Slots : slot'[i] # slot[i] =>
                  /\ slot[i] \in suspect
                  /\ slot'[i] \notin served /\ idOf[slot'[i]] = i
                  /\ proc[slot'[i]] \in {"up", "broken"}
    BY <1>1, SwapStep
  <1> QED
    BY <1>1, PoolInvariant, PTL DEF Spec, SwapsAreUpgrades

\* A Shutdown that saw the pool drained closes it with no admitted request left,
\* because admission and the transition to draining exclude each other.
THEOREM ShutdownIsGraceful == Spec => []DrainIsGraceful
  <1>1. PoolInv => DrainIsGraceful
    BY DEF PoolInv, Admission, Active, DrainIsGraceful
  <1> QED
    BY <1>1, PoolInvariant, PTL

\* Close returns after every registered restart, and the barrier on p.restartMu
\* keeps any further one from registering.
THEOREM CloseWaitsForRestarts == Spec => []RegisteredRestartsDone
  <1>1. PoolInv => RegisteredRestartsDone
    BY DEF PoolInv, Barriers, RegisteredRestartsDone
  <1> QED
    BY <1>1, PoolInvariant, PTL

\* A request that blocks on a restartDone channel blocks on one that a goroutine
\* inside restartWorker is still going to close.
THEOREM NobodyMissesAWakeup == Spec => []NoLostWakeup
  <1>1. PoolInv => NoLostWakeup
    BY DEF PoolInv
  <1> QED
    BY <1>1, PoolInvariant, PTL

\* At most one goroutine at a time is past the compare-and-swap of restartWorker
\* for a handle: two restarts never start two replacements of one worker.
OneRestartAtATime ==
    \A g, d \in Goroutines : Inside(g) /\ Inside(d) /\ gh[g] = gh[d] => g = d

\* The CAS on handle.restarting excludes the restart goroutines of one handle, for
\* any number of them (restartWorker, finishRestart).
THEOREM OneRestartPerHandle == Spec => []OneRestartAtATime
  <1>1. PoolInv => OneRestartAtATime
    BY DEF PoolInv, GuardHeld, OneRestartAtATime
  <1> QED
    BY <1>1, PoolInvariant, PTL
=============================================================================
