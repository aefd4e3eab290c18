-------------------------- MODULE SharedStateStore --------------------------
(***************************************************************************)
(* The host-side counter service of workerplugin/sharedstate.go: counters  *)
(* by key, an idempotency cache (key, operation_id) -> entry, and one      *)
(* scope object per operation_id that owns the cached keys of a request.   *)
(*                                                                         *)
(* Four kinds of goroutines share it and are interleaved here:             *)
(*   - callers, the RPC handlers that run FetchAdd (several may carry the  *)
(*     same operation_id: pool retries and RPCs of abandoned attempts);    *)
(*   - one pool goroutine per operation_id, which runs DropScope once when *)
(*     its request ends (the defer in pool.CallStream);                    *)
(*   - the TTL sweeper;                                                    *)
(*   - whoever runs Close.                                                 *)
(*                                                                         *)
(* The grain of atomicity is that of the code: one step per sync.Map       *)
(* operation or atomic store that another goroutine can observe.  A        *)
(* critical section of a scope mutex is one step where nothing it touches  *)
(* is visible outside the mutex, and several steps, with the mutex held in *)
(* between, where it is (the deletions from the idem map).                 *)
(***************************************************************************)
EXTENDS Integers, FiniteSets

CONSTANTS
    Callers,     \* FetchAdd handler goroutines
    Keys,        \* counter names (round-robin client names)
    Ops,         \* operation ids (request ids)
    NoOp,        \* the empty operation_id: no idempotency requested
    None,        \* nil / absent
    Seeds,       \* values initialValue(key) may return (random or configured)
    Modulus,     \* 2^64 in the code
    Delta,       \* the amount every FetchAdd adds
    TTL,         \* time-to-live of an idle scope; 0 disables the sweeper
    MaxClock,    \* bound: clock values explored
    MaxScopes,   \* bound: scope objects ever allocated
    MaxEntries,  \* bound: idempotency entries ever allocated
    MaxPlain     \* bound: calls with the empty operation_id

ASSUME StoreAssumption ==
    /\ Modulus \in Nat \ {0}
    /\ Delta \in Nat
    /\ Seeds \subseteq 0..(Modulus - 1) /\ Seeds # {}
    /\ TTL \in Nat /\ MaxClock \in Nat
    /\ MaxScopes \in Nat /\ MaxEntries \in Nat /\ MaxPlain \in Nat
    /\ NoOp \notin Ops
    /\ None \notin Int /\ None \notin Callers \cup Ops \cup Keys
    /\ Callers \cap Ops = {} /\ "sweeper" \notin Callers \cup Ops

VARIABLES
    \* the store: counters, cached entries, scope objects
    counters,    \* counters[k]: the counter's value, None until first touched
    idem,        \* idem[k][op]: id of the cached entry, None when absent
    once,        \* once[e]: state of entry e's sync.Once
    previous,    \* previous[e]: the cached result
    keyOf, opOf, \* keyOf[e], opOf[e]: the address e was created for (history)
    nextEntry,   \* next entry id to allocate
    scopes,      \* scopes[op]: id of the scope object in the map, or None
    mu,          \* mu[s]: holder of scope s's mutex across steps, or None
    keys,        \* keys[s]: keys registered under scope s
    last,        \* last[s]: lastAccessedNano
    deleted,     \* deleted[s]: the deleted flag
    nextScope,   \* next scope id to allocate
    clock,       \* wall clock
    stopped,     \* Close was called
    \* FetchAdd handlers: program counter, arguments, locals
    pc, key, op, now, sc, entry,
    \* DropScope of each operation id: program counter and scope object
    dropPc, dropSc,
    \* the sweeper: program counter, last tick, cutoff, ids left to visit,
    \* captured operation id and scope object
    sweepPc, sweepAt, cutoff, todo, sweepOp, sweepSc,
    \* history variables
    swept,       \* operation ids the sweeper evicted
    plain,       \* number of advances made without an operation id
    advances,    \* advances[k][op]: counter advances made on behalf of (k, op)
    returned     \* returned[k][op]: values FetchAdd returned for (k, op)

entryVars == <<once, previous, keyOf, opOf, nextEntry>>
scopeVars == <<scopes, mu, keys, last, deleted, nextScope>>
timeVars  == <<clock, stopped>>
callVars  == <<pc, key, op, now, sc, entry>>
dropVars  == <<dropPc, dropSc>>
sweepVars == <<sweepPc, sweepAt, cutoff, todo, sweepOp, sweepSc>>
history   == <<swept, plain, advances, returned>>
vars == <<counters, idem, entryVars, scopeVars, timeVars, callVars, dropVars,
          sweepVars, history>>

Word     == 0..(Modulus - 1)
ScopeIds == 1..MaxScopes
EntryIds == 1..MaxEntries

\* Mutant: addition without wraparound.
AddUnbounded(v) == v + Delta

\* counter.Add(delta): unsigned addition of the counter's width.
Add(v) == (v + Delta) % Modulus

CallLabels  == {"idle", "attach", "touch", "register", "once", "counter", "add",
                "plainCounter", "plainAdd", "return"}
DropLabels  == {"before", "lock", "deleting", "done"}
SweepLabels == {"wait", "range", "lock", "commit", "deleting", "exited"}

EntryTypes ==
    /\ counters \in [Keys -> Word \cup {None}]
    /\ idem \in [Keys -> [Ops -> EntryIds \cup {None}]]
    /\ once \in [EntryIds -> {"new", "running", "done"}]
    /\ previous \in [EntryIds -> Word]
    /\ keyOf \in [EntryIds -> Keys \cup {None}]
    /\ opOf \in [EntryIds -> Ops \cup {None}]
    /\ nextEntry \in 1..(MaxEntries + 1)

ScopeTypes ==
    /\ scopes \in [Ops -> ScopeIds \cup {None}]
    /\ mu \in [ScopeIds -> Ops \cup {"sweeper", None}]
    /\ keys \in [ScopeIds -> SUBSET Keys]
    /\ last \in [ScopeIds -> Nat]
    /\ deleted \in [ScopeIds -> BOOLEAN]
    /\ nextScope \in 1..(MaxScopes + 1)

CallTypes ==
    /\ pc \in [Callers -> CallLabels]
    /\ key \in [Callers -> Keys \cup {None}]
    /\ op \in [Callers -> Ops \cup {NoOp, None}]
    /\ now \in [Callers -> Nat]
    /\ sc \in [Callers -> ScopeIds \cup {None}]
    /\ entry \in [Callers -> EntryIds \cup {None}]

CleanupTypes ==
    /\ dropPc \in [Ops -> DropLabels]
    /\ dropSc \in [Ops -> ScopeIds \cup {None}]
    /\ sweepPc \in SweepLabels /\ sweepAt \in Nat /\ cutoff \in Int
    /\ todo \subseteq Ops
    /\ sweepOp \in Ops \cup {None} /\ sweepSc \in ScopeIds \cup {None}
    /\ clock \in Nat /\ stopped \in BOOLEAN

HistoryTypes ==
    /\ swept \subseteq Ops /\ plain \in Nat
    /\ advances \in [Keys -> [Ops -> Nat]]
    /\ returned \in [Keys -> [Ops -> SUBSET Word]]

TypeOK == EntryTypes /\ ScopeTypes /\ CallTypes /\ CleanupTypes /\ HistoryTypes

----------------------------------------------------------------------------
(* newSharedStateStoreWithTTL: empty maps, sweeper started.  A scope's zero
   lastAccessedNano is the epoch, older than every cutoff: the clock starts
   past the first cutoff. *)
Init ==
    /\ counters = [k \in Keys |-> None]
    /\ idem = [k \in Keys |-> [o \in Ops |-> None]]
    /\ once = [e \in EntryIds |-> "new"]
    /\ previous = [e \in EntryIds |-> 0]
    /\ keyOf = [e \in EntryIds |-> None] /\ opOf = [e \in EntryIds |-> None]
    /\ nextEntry = 1
    /\ scopes = [o \in Ops |-> None]
    /\ mu = [s \in ScopeIds |-> None]
    /\ keys = [s \in ScopeIds |-> {}]
    /\ last = [s \in ScopeIds |-> 0]
    /\ deleted = [s \in ScopeIds |-> FALSE]
    /\ nextScope = 1
    /\ clock = TTL + 1 /\ stopped = FALSE
    /\ pc = [c \in Callers |-> "idle"]
    /\ key = [c \in Callers |-> None] /\ op = [c \in Callers |-> None]
    /\ now = [c \in Callers |-> 0]
    /\ sc = [c \in Callers |-> None] /\ entry = [c \in Callers |-> None]
    /\ dropPc = [o \in Ops |-> "before"] /\ dropSc = [o \in Ops |-> None]
    /\ sweepPc = IF TTL = 0 THEN "exited" ELSE "wait"
    /\ sweepAt = TTL + 1 /\ cutoff = 0 /\ todo = {}
    /\ sweepOp = None /\ sweepSc = None
    /\ swept = {} /\ plain = 0
    /\ advances = [k \in Keys |-> [o \in Ops |-> 0]]
    /\ returned = [k \in Keys |-> [o \in Ops |-> {}]]

Tick ==
    /\ clock < MaxClock
    /\ clock' = clock + 1
    /\ UNCHANGED <<counters, idem, entryVars, scopeVars, stopped, callVars, dropVars,
                   sweepVars, history>>

----------------------------------------------------------------------------
(* FetchAdd *)

\* Caller c moves from one label to the next.
Step(c, from, to) == pc[c] = from /\ pc' = [pc EXCEPT ![c] = to]

\* An RPC arrives; time.Now() is read before registerAndLoadIdem runs.
FetchAdd(c, k, o) ==
    /\ o = NoOp => plain < MaxPlain
    /\ Step(c, "idle", IF o = NoOp THEN "plainCounter" ELSE "attach")
    /\ key' = [key EXCEPT ![c] = k]
    /\ op' = [op EXCEPT ![c] = o]
    /\ now' = [now EXCEPT ![c] = clock]
    /\ UNCHANGED <<counters, idem, entryVars, scopeVars, timeVars, sc, entry, dropVars,
                   sweepVars, history>>

\* registerAndLoadIdem: scopes.Load finds the scope object.
LoadScope(c) ==
    /\ Step(c, "attach", "touch")
    /\ scopes[op[c]] # None
    /\ sc' = [sc EXCEPT ![c] = scopes[op[c]]]
    /\ UNCHANGED <<counters, idem, entryVars, scopeVars, timeVars, key, op, now, entry,
                   dropVars, sweepVars, history>>

\* registerAndLoadIdem: scopes.LoadOrStore installs a fresh scope object.
StoreScope(c) ==
    /\ Step(c, "attach", "touch")
    /\ scopes[op[c]] = None
    /\ nextScope <= MaxScopes
    /\ scopes' = [scopes EXCEPT ![op[c]] = nextScope]
    /\ sc' = [sc EXCEPT ![c] = nextScope]
    /\ nextScope' = nextScope + 1
    /\ UNCHANGED <<counters, idem, entryVars, mu, keys, last, deleted, timeVars, key, op,
                   now, entry, dropVars, sweepVars, history>>

\* sc.lastAccessedNano.Store(now), before the mutex is taken.
TouchScope(c) ==
    /\ Step(c, "touch", "register")
    /\ last' = [last EXCEPT ![sc[c]] = now[c]]
    /\ UNCHANGED <<counters, idem, entryVars, scopes, mu, keys, deleted, nextScope,
                   timeVars, key, op, now, sc, entry, dropVars, sweepVars, history>>

\* Mutant: the deleted flag is not rechecked under the mutex.
NeverDeleted(s) == FALSE

\* sc.deleted, as registerAndLoadIdem reads it after taking the mutex.
IsDeleted(s) == deleted[s]

\* Found deleted under the mutex: unlock and start over.
RetryRegister(c) ==
    /\ Step(c, "register", "attach")
    /\ mu[sc[c]] = None
    /\ IsDeleted(sc[c])
    /\ sc' = [sc EXCEPT ![c] = None]
    /\ UNCHANGED <<counters, idem, entryVars, scopeVars, timeVars, key, op, now, entry,
                   dropVars, sweepVars, history>>

\* The rest of registerAndLoadIdem under the mutex of a live scope: the key is
\* registered and the call proceeds to its entry e (sc and now are dead).
Register(c, e) ==
    /\ Step(c, "register", "once")
    /\ mu[sc[c]] = None
    /\ ~ IsDeleted(sc[c])
    /\ keys' = [keys EXCEPT ![sc[c]] = @ \cup {key[c]}]
    /\ entry' = [entry EXCEPT ![c] = e]
    /\ sc' = [sc EXCEPT ![c] = None]
    /\ now' = [now EXCEPT ![c] = 0]
    /\ UNCHANGED <<counters, scopes, mu, last, deleted, nextScope, timeVars, key, op,
                   dropVars, sweepVars, history>>

\* Mutant: the cache is never hit, every call makes its own entry.
CachedEntryNever(k, o) == None

\* s.idem.Load(makeIdemKey(key, opID)).
CachedEntry(k, o) == idem[k][o]

LoadEntry(c) ==
    /\ pc[c] = "register" /\ CachedEntry(key[c], op[c]) # None
    /\ Register(c, CachedEntry(key[c], op[c]))
    /\ UNCHANGED <<idem, entryVars>>

CreateEntry(c) ==
    /\ pc[c] = "register" /\ CachedEntry(key[c], op[c]) = None
    /\ nextEntry <= MaxEntries
    /\ Register(c, nextEntry)
    /\ idem' = [idem EXCEPT ![key[c]][op[c]] = nextEntry]
    /\ keyOf' = [keyOf EXCEPT ![nextEntry] = key[c]]
    /\ opOf' = [opOf EXCEPT ![nextEntry] = op[c]]
    /\ nextEntry' = nextEntry + 1
    /\ UNCHANGED <<once, previous>>

\* Mutant: a check-then-act in place of the once: callers that arrive while the
\* first one is still inside run the body too.
NotDone(e) == once[e] # "done"

\* The sync.Once has not been entered.
OnceIsNew(e) == once[e] = "new"

\* entry.once.Do: the first caller runs the body, the others wait for it to
\* finish, late callers pass through.
OnceEnter(c) ==
    /\ Step(c, "once", "counter")
    /\ OnceIsNew(entry[c])
    /\ once' = [once EXCEPT ![entry[c]] = "running"]
    /\ UNCHANGED <<counters, idem, previous, keyOf, opOf, nextEntry, scopeVars, timeVars, key,
                   op, now, sc, entry, dropVars, sweepVars, history>>

OncePass(c) ==
    /\ Step(c, "once", "return")
    /\ once[entry[c]] = "done"
    /\ UNCHANGED <<counters, idem, entryVars, scopeVars, timeVars, key, op, now, sc, entry,
                   dropVars, sweepVars, history>>

\* Mutant: a plain Store, so that every caller seeds the counter anew.
ReseededCounter(k) == \E v \in Seeds : counters' = [counters EXCEPT ![k] = v]

\* counterFor: load the counter or store a freshly seeded one; when two callers
\* seed it at once, one seed survives.
SeededCounter(k) ==
    \/ counters[k] # None /\ UNCHANGED counters
    \/ counters[k] = None /\ \E v \in Seeds : counters' = [counters EXCEPT ![k] = v]

CounterFor(c) ==
    /\ Step(c, "counter", "add") \/ Step(c, "plainCounter", "plainAdd")
    /\ SeededCounter(key[c])
    /\ UNCHANGED <<idem, entryVars, scopeVars, timeVars, key, op, now, sc, entry, dropVars,
                   sweepVars, history>>

\* The body of once.Do: entry.previous = counter.Add(delta) - delta, once done.
AdvanceOnce(c) ==
    /\ Step(c, "add", "return")
    /\ counters' = [counters EXCEPT ![key[c]] = Add(@)]
    /\ previous' = [previous EXCEPT ![entry[c]] = counters[key[c]]]
    /\ once' = [once EXCEPT ![entry[c]] = "done"]
    /\ advances' = [advances EXCEPT ![key[c]][op[c]] = @ + 1]
    /\ UNCHANGED <<idem, keyOf, opOf, nextEntry, scopeVars, timeVars, key, op, now, sc,
                   entry, dropVars, sweepVars, swept, plain, returned>>

\* A call is over: the handler's locals are gone.
Finish(c, from) ==
    /\ Step(c, from, "idle")
    /\ key' = [key EXCEPT ![c] = None]
    /\ op' = [op EXCEPT ![c] = None]
    /\ now' = [now EXCEPT ![c] = 0]
    /\ entry' = [entry EXCEPT ![c] = None]
    /\ UNCHANGED sc

\* The empty operation_id: advance and return the old value, no cache.
AdvancePlain(c) ==
    /\ Finish(c, "plainAdd")
    /\ counters' = [counters EXCEPT ![key[c]] = Add(@)]
    /\ plain' = plain + 1
    /\ UNCHANGED <<idem, entryVars, scopeVars, timeVars, dropVars, sweepVars,
                   swept, advances, returned>>

\* return entry.previous
Return(c) ==
    /\ Finish(c, "return")
    /\ returned' = [returned EXCEPT ![key[c]][op[c]] = @ \cup {previous[entry[c]]}]
    /\ UNCHANGED <<counters, idem, entryVars, scopeVars, timeVars, dropVars, sweepVars,
                   swept, plain, advances>>

----------------------------------------------------------------------------
(* DropScope, run once per operation id when its request ends *)

\* scopes.LoadAndDelete; an unknown operation id is a no-op.
DropLoadAndDelete(o) ==
    /\ dropPc[o] = "before"
    /\ dropPc' = [dropPc EXCEPT ![o] = IF scopes[o] = None THEN "done" ELSE "lock"]
    /\ dropSc' = [dropSc EXCEPT ![o] = scopes[o]]
    /\ scopes' = [scopes EXCEPT ![o] = None]
    /\ UNCHANGED <<counters, idem, entryVars, mu, keys, last, deleted, nextScope, timeVars,
                   callVars, sweepVars, history>>

\* sc.mu.Lock(); sc.deleted.Store(true)
DropLock(o) ==
    /\ dropPc[o] = "lock" /\ mu[dropSc[o]] = None
    /\ mu' = [mu EXCEPT ![dropSc[o]] = o]
    /\ deleted' = [deleted EXCEPT ![dropSc[o]] = TRUE]
    /\ dropPc' = [dropPc EXCEPT ![o] = "deleting"]
    /\ UNCHANGED <<counters, idem, entryVars, scopes, keys, last, nextScope, timeVars,
                   callVars, dropSc, sweepVars, history>>

\* One iteration of the walk over sc.keys: delete the key's cached entry.
DropKey(o, k) ==
    /\ dropPc[o] = "deleting" /\ k \in keys[dropSc[o]]
    /\ idem' = [idem EXCEPT ![k][o] = None]
    /\ keys' = [keys EXCEPT ![dropSc[o]] = @ \ {k}]
    /\ UNCHANGED <<counters, entryVars, scopes, mu, last, deleted, nextScope, timeVars,
                   callVars, dropVars, sweepVars, history>>

\* Mutant: DropScope returns without unlocking the scope.
DropForgetUnlock(o) ==
    /\ dropPc[o] = "deleting" /\ keys[dropSc[o]] = {}
    /\ dropPc' = [dropPc EXCEPT ![o] = "done"]
    /\ UNCHANGED <<counters, idem, entryVars, scopeVars, timeVars, callVars, dropSc,
                   sweepVars, history>>

\* sc.keys = nil; sc.mu.Unlock()
DropUnlock(o) ==
    /\ dropPc[o] = "deleting" /\ keys[dropSc[o]] = {}
    /\ mu' = [mu EXCEPT ![dropSc[o]] = None]
    /\ dropPc' = [dropPc EXCEPT ![o] = "done"]
    /\ dropSc' = [dropSc EXCEPT ![o] = None]
    /\ UNCHANGED <<counters, idem, entryVars, scopes, keys, last, deleted, nextScope,
                   timeVars, callVars, sweepVars, history>>

----------------------------------------------------------------------------
(* The TTL sweeper *)

\* Half the TTL, or the TTL when that rounds to zero.
SweepInterval == IF TTL \div 2 > 0 THEN TTL \div 2 ELSE TTL

SweepTick ==
    /\ sweepPc = "wait" /\ clock >= sweepAt + SweepInterval
    /\ sweepPc' = "range" /\ sweepAt' = clock /\ cutoff' = clock - TTL /\ todo' = Ops
    /\ UNCHANGED <<counters, idem, entryVars, scopeVars, timeVars, callVars, dropVars,
                   sweepOp, sweepSc, history>>

\* scopes.Range: an operation id is visited at most once, with the scope the
\* map holds at that moment; a scope that looks fresh is skipped unlocked.
SweepSkip(o) ==
    /\ sweepPc = "range" /\ o \in todo
    /\ scopes[o] # None => last[scopes[o]] >= cutoff
    /\ todo' = todo \ {o}
    /\ UNCHANGED <<counters, idem, entryVars, scopeVars, timeVars, callVars, dropVars,
                   sweepPc, sweepAt, cutoff, sweepOp, sweepSc, history>>

SweepCapture(o) ==
    /\ sweepPc = "range" /\ o \in todo
    /\ scopes[o] # None /\ last[scopes[o]] < cutoff
    /\ todo' = todo \ {o}
    /\ sweepPc' = "lock" /\ sweepOp' = o /\ sweepSc' = scopes[o]
    /\ UNCHANGED <<counters, idem, entryVars, scopeVars, timeVars, callVars, dropVars,
                   sweepAt, cutoff, history>>

\* Under the mutex the scope turns out to be fresh: unlock and move on.
SweepSpare ==
    /\ sweepPc = "lock" /\ mu[sweepSc] = None
    /\ last[sweepSc] >= cutoff
    /\ sweepPc' = "range"
    /\ UNCHANGED <<counters, idem, entryVars, scopeVars, timeVars, callVars, dropVars,
                   sweepAt, cutoff, todo, sweepOp, sweepSc, history>>

\* Under the mutex the scope is still stale: mark it deleted.
SweepCondemn ==
    /\ sweepPc = "lock" /\ mu[sweepSc] = None
    /\ last[sweepSc] < cutoff
    /\ sweepPc' = "commit"
    /\ mu' = [mu EXCEPT ![sweepSc] = "sweeper"]
    /\ deleted' = [deleted EXCEPT ![sweepSc] = TRUE]
    /\ swept' = swept \cup {sweepOp}
    /\ UNCHANGED <<counters, idem, entryVars, scopes, keys, last, nextScope, timeVars,
                   callVars, dropVars, sweepAt, cutoff, todo, sweepOp, sweepSc,
                   plain, advances, returned>>

\* s.scopes.Delete(opID): by key, whichever scope the map holds now.
SweepDeleteScope ==
    /\ sweepPc = "commit"
    /\ scopes' = [scopes EXCEPT ![sweepOp] = None]
    /\ sweepPc' = "deleting"
    /\ UNCHANGED <<counters, idem, entryVars, mu, keys, last, deleted, nextScope, timeVars,
                   callVars, dropVars, sweepAt, cutoff, todo, sweepOp, sweepSc, history>>

SweepKey(k) ==
    /\ sweepPc = "deleting" /\ k \in keys[sweepSc]
    /\ idem' = [idem EXCEPT ![k][sweepOp] = None]
    /\ keys' = [keys EXCEPT ![sweepSc] = @ \ {k}]
    /\ UNCHANGED <<counters, entryVars, scopes, mu, last, deleted, nextScope, timeVars,
                   callVars, dropVars, sweepVars, history>>

SweepUnlock ==
    /\ sweepPc = "deleting" /\ keys[sweepSc] = {}
    /\ mu' = [mu EXCEPT ![sweepSc] = None]
    /\ sweepPc' = "range"
    /\ UNCHANGED <<counters, idem, entryVars, scopes, keys, last, deleted, nextScope,
                   timeVars, callVars, dropVars, sweepAt, cutoff, todo, sweepOp, sweepSc,
                   history>>

SweepPassDone ==
    /\ sweepPc = "range" /\ todo = {}
    /\ sweepPc' = "wait" /\ cutoff' = 0 /\ sweepOp' = None /\ sweepSc' = None
    /\ UNCHANGED <<counters, idem, entryVars, scopeVars, timeVars, callVars, dropVars,
                   sweepAt, todo, history>>

\* case <-s.stopCh
SweepExit ==
    /\ sweepPc = "wait" /\ stopped
    /\ sweepPc' = "exited"
    /\ UNCHANGED <<counters, idem, entryVars, scopeVars, timeVars, callVars, dropVars,
                   sweepAt, cutoff, todo, sweepOp, sweepSc, history>>

Close ==
    /\ ~ stopped
    /\ stopped' = TRUE
    /\ UNCHANGED <<counters, idem, entryVars, scopeVars, clock, callVars, dropVars,
                   sweepVars, history>>

----------------------------------------------------------------------------
CallStep(c) ==
    \/ LoadScope(c) \/ StoreScope(c) \/ TouchScope(c) \/ RetryRegister(c)
    \/ LoadEntry(c) \/ CreateEntry(c) \/ OnceEnter(c) \/ OncePass(c)
    \/ CounterFor(c) \/ AdvanceOnce(c) \/ AdvancePlain(c) \/ Return(c)

DropStep(o) ==
    \/ DropLock(o) \/ DropUnlock(o)
    \/ \E k \in Keys : DropKey(o, k)

SweepStep ==
    \/ \E o \in Ops : SweepSkip(o) \/ SweepCapture(o)
    \/ SweepSpare \/ SweepCondemn \/ SweepDeleteScope \/ SweepUnlock \/ SweepPassDone
    \/ \E k \in Keys : SweepKey(k)

Next ==
    \/ \E c \in Callers, k \in Keys, o \in Ops \cup {NoOp} : FetchAdd(c, k, o)
    \/ \E c \in Callers : CallStep(c)
    \/ \E o \in Ops : DropLoadAndDelete(o) \/ DropStep(o)
    \/ SweepTick \/ SweepStep \/ SweepExit
    \/ Close \/ Tick

Spec == Init /\ [][Next]_vars

\* Go schedules every runnable goroutine and its mutexes are starvation-free:
\* a waiter that repeatedly finds the mutex free eventually gets it.  Nothing
\* makes an RPC arrive, a request end or the clock advance.
Fairness ==
    /\ \A c \in Callers : /\ WF_vars(CallStep(c))
                          /\ SF_vars(RetryRegister(c) \/ LoadEntry(c) \/ CreateEntry(c))
    /\ \A o \in Ops : WF_vars(DropStep(o)) /\ SF_vars(DropLock(o))
    /\ WF_vars(SweepStep) /\ SF_vars(SweepSpare \/ SweepCondemn)

FairSpec == Spec /\ Fairness

----------------------------------------------------------------------------
(* Properties *)

\* An operation that can still expect its cached value: its request has not
\* reached DropScope and the sweeper did not evict it.
Live(o) == dropPc[o] = "before" /\ o \notin swept

\* Pool retries of one request resolve the same rotation index
\* (sharedstate.go:23-27): whatever callers race, all the values FetchAdd
\* returned for a key under a live operation id are the same.
ReplayStable ==
    \A k \in Keys, o \in Ops :
        Live(o) => \A v, w \in returned[k][o] : v = w

\* Without the once, "both would Add on the counter ... the rotation would skip
\* a child" (sharedstate.go:57-60): a live operation advances a counter at most
\* once, however many of its calls overlap.
RotationNotSkipped ==
    \A k \in Keys, o \in Ops : Live(o) => advances[k][o] <= 1

\* Two operations are never handed the same slot of a rotation: the values
\* cached for one key are pairwise distinct (while the counter has not gone all
\* the way round), across seeding races, drops, evictions and late RPCs.
NoSlotReuse ==
    \A e, f \in EntryIds :
        e # f /\ once[e] = "done" /\ once[f] = "done" /\ keyOf[e] = keyOf[f]
            => previous[e] # previous[f]

\* No FetchAdd, DropScope or sweep pass is under way.
AtRest ==
    /\ \A c \in Callers : pc[c] = "idle"
    /\ \A o \in Ops : dropPc[o] \in {"before", "done"}
    /\ sweepPc \in {"wait", "exited"}

\* "the invariant `s.idem[k,op] exists implies s.scopes[op] exists`"
\* (sharedstate.go:261-262), read where no operation is half done: an entry
\* whose scope is gone can never be reclaimed, the sweeper only ranges scopes.
IdemImpliesScope ==
    AtRest => \A k \in Keys, o \in Ops : idem[k][o] # None => scopes[o] # None

\* The retry loop of registerAndLoadIdem, the scope mutexes and once.Do let
\* every call through in the end: a FetchAdd that started returns.
FetchAddReturns ==
    \A c \in Callers : (pc[c] # "idle") ~> (pc[c] = "idle")

\* The store implements the contract of IdempotentCounter: an operation expires
\* when its DropScope starts or the sweeper evicts it, and the values it drew
\* are the results of its finished entries, wherever those entries are.
Issued == [k \in Keys |-> [o \in Ops |->
             {previous[e] : e \in {f \in EntryIds : keyOf[f] = k /\ opOf[f] = o /\ once[f] = "done"}}]]

Contract == INSTANCE IdempotentCounter WITH
    count   <- counters,
    issued  <- Issued,
    answers <- returned,
    expired <- {o \in Ops : ~ Live(o)}

ImplementsContract == Contract!AbsSpec

----------------------------------------------------------------------------
(* The inductive invariant behind the properties *)

\* The locals a goroutine is about to use are set, and it holds what it needs.
LocalsOK ==
    /\ \A c \in Callers :
        /\ pc[c] # "idle" => key[c] \in Keys
        /\ pc[c] \notin {"idle", "plainCounter", "plainAdd"} => op[c] \in Ops
        /\ pc[c] \in {"touch", "register"} => sc[c] \in ScopeIds
        /\ pc[c] \in {"once", "counter", "add", "return"} => entry[c] \in EntryIds
        /\ pc[c] \in {"add", "plainAdd"} => counters[key[c]] # None
    /\ \A o \in Ops : dropPc[o] \in {"lock", "deleting"} => dropSc[o] \in ScopeIds
    /\ sweepPc \in {"lock", "commit", "deleting"} => sweepOp \in Ops /\ sweepSc \in ScopeIds
    /\ sweepPc \in {"commit", "deleting"} => sweepOp \in swept

\* An entry belongs to one address for good: the map, and every caller that got
\* it from the map, agree with the address it was created under.
EntryAddresses ==
    /\ \A e \in EntryIds :
        e >= nextEntry => keyOf[e] = None /\ opOf[e] = None /\ once[e] = "new"
    /\ \A k \in Keys, o \in Ops :
        idem[k][o] # None => keyOf[idem[k][o]] = k /\ opOf[idem[k][o]] = o
    /\ \A c \in Callers : pc[c] \in {"once", "counter", "add", "return"}
                              => keyOf[entry[c]] = key[c] /\ opOf[entry[c]] = op[c]

\* While an operation is live its entries stay in the map: there is only one.
LiveEntryCached ==
    \A e \in EntryIds :
        keyOf[e] # None /\ opOf[e] # None /\ Live(opOf[e]) => idem[keyOf[e]][opOf[e]] = e

\* The sync.Once: one caller inside, and results only once it is done.
OnceProtocol ==
    /\ \A c \in Callers :
        /\ pc[c] \in {"counter", "add"} => once[entry[c]] = "running"
        /\ pc[c] = "return" => once[entry[c]] = "done"
    /\ \A c, d \in Callers :
        pc[c] \in {"counter", "add"} /\ pc[d] \in {"counter", "add"} /\ entry[c] = entry[d]
            => c = d

\* What was returned to a live operation is the result of its cached entry.
ReturnsCached ==
    \A k \in Keys, o \in Ops :
        Live(o) => \A v \in returned[k][o] :
            /\ idem[k][o] # None
            /\ once[idem[k][o]] = "done"
            /\ previous[idem[k][o]] = v

\* A live operation advanced a counter exactly if its cached entry is done.
AdvancesCached ==
    \A k \in Keys, o \in Ops :
        Live(o) =>
            /\ idem[k][o] = None => advances[k][o] = 0
            /\ idem[k][o] # None =>
                advances[k][o] = IF once[idem[k][o]] = "done" THEN 1 ELSE 0
=============================================================================
