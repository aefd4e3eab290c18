----------------------- MODULE SharedStateStoreProofs -----------------------
(***************************************************************************)
(* Proofs about SharedStateStore for every set of callers, keys and        *)
(* operations, every modulus and TTL and every bound.                      *)
(***************************************************************************)
EXTENDS SharedStateStore, FiniteSetTheorems, TLAPS

TypeInv == TypeOK /\ LocalsOK

\* The counter's addition stays within the word.
LEMMA AddType == \A v \in Word : Add(v) \in Word
BY StoreAssumption DEF Add, Word

\* Seeds and zero are words; the absent counter is not.
LEMMA WordFacts == /\ Seeds \subseteq Word /\ 0 \in Word
                   /\ None \notin Word
BY StoreAssumption DEF Word

\* The constructor's state is well typed (newSharedStateStoreWithTTL).
LEMMA InitType == Init => TypeInv
<1> SUFFICES ASSUME Init PROVE TypeInv
  OBVIOUS
<1> USE StoreAssumption, WordFacts
    DEF Init, ScopeIds, EntryIds, CallLabels, DropLabels, SweepLabels
<1>1. EntryTypes
  BY DEF EntryTypes
<1>2. ScopeTypes
  BY DEF ScopeTypes
<1>3. CallTypes
  BY DEF CallTypes
<1>4. CleanupTypes
  <2>1. stopped \in BOOLEAN
    OBVIOUS
  <2>2. dropPc \in [Ops -> DropLabels] /\ dropSc \in [Ops -> ScopeIds \cup {None}]
    OBVIOUS
  <2>3. sweepPc \in SweepLabels
    OBVIOUS
  <2>4. QED
    BY <2>1, <2>2, <2>3 DEF CleanupTypes
<1>5. HistoryTypes
  BY DEF HistoryTypes
<1>6. LocalsOK
  BY DEF LocalsOK
<1>7. QED
  BY <1>1, <1>2, <1>3, <1>4, <1>5, <1>6 DEF TypeInv, TypeOK

\* Every step of a caller, of DropScope, of the sweeper, of Close or of the clock
\* preserves the types and the locals.
LEMMA StepType == TypeInv /\ [Next]_vars => TypeInv'
<1> SUFFICES ASSUME TypeInv, [Next]_vars PROVE TypeInv'
  OBVIOUS
<1> USE StoreAssumption
    DEF TypeInv, TypeOK, entryVars, scopeVars, timeVars, callVars, dropVars, sweepVars, history
<1>1. ASSUME NEW c \in Callers, NEW k \in Keys, NEW o \in Ops \cup {NoOp}, FetchAdd(c, k, o) PROVE TypeInv'
  <2>1. (EntryTypes /\ ScopeTypes /\ CleanupTypes /\ HistoryTypes)'
    BY <1>1 DEF EntryTypes, ScopeTypes, CleanupTypes, HistoryTypes, FetchAdd, Step
  <2>2. CallTypes'
    BY <1>1 DEF CallTypes, CleanupTypes, CallLabels, FetchAdd, Step
  <2>3. LocalsOK'
    BY <1>1 DEF LocalsOK, CallTypes, FetchAdd, Step
  <2>4. QED
    BY <2>1, <2>2, <2>3
<1>2. ASSUME NEW c \in Callers, LoadScope(c) PROVE TypeInv'
  <2>1. (EntryTypes /\ ScopeTypes /\ CleanupTypes /\ HistoryTypes)'
    BY <1>2 DEF EntryTypes, ScopeTypes, CleanupTypes, HistoryTypes, LoadScope, Step
  <2>2. CallTypes'
    BY <1>2 DEF CallTypes, LocalsOK, ScopeTypes, CallLabels, LoadScope, Step
  <2>3. LocalsOK'
    BY <1>2 DEF LocalsOK, CallTypes, ScopeTypes, LoadScope, Step
  <2>4. QED
    BY <2>1, <2>2, <2>3
<1>3. ASSUME NEW c \in Callers, StoreScope(c) PROVE TypeInv'
  <2>1. (EntryTypes /\ CleanupTypes /\ HistoryTypes)'
    BY <1>3 DEF EntryTypes, CleanupTypes, HistoryTypes, StoreScope, Step
  <2>2. ScopeTypes'
    <3>1. op[c] \in Ops
      BY <1>3 DEF LocalsOK, StoreScope, Step
    <3>2. nextScope \in ScopeIds /\ nextScope' \in 1..(MaxScopes + 1)
      BY <1>3 DEF ScopeTypes, ScopeIds, StoreScope
    <3>3. QED
      BY <1>3, <3>1, <3>2 DEF ScopeTypes, StoreScope
  <2>3. CallTypes'
    BY <1>3 DEF CallTypes, ScopeTypes, CallLabels, ScopeIds, StoreScope, Step
  <2>4. LocalsOK'
    BY <1>3 DEF LocalsOK, CallTypes, ScopeTypes, ScopeIds, StoreScope, Step
  <2>5. QED
    BY <2>1, <2>2, <2>3, <2>4
<1>4. ASSUME NEW c \in Callers, TouchScope(c) PROVE TypeInv'
  <2>1. (EntryTypes /\ CleanupTypes /\ HistoryTypes)'
    BY <1>4 DEF EntryTypes, CleanupTypes, HistoryTypes, TouchScope, Step
  <2>2. ScopeTypes'
    BY <1>4 DEF ScopeTypes, LocalsOK, CallTypes, TouchScope, Step
  <2>3. CallTypes'
    BY <1>4 DEF CallTypes, CallLabels, TouchScope, Step
  <2>4. LocalsOK'
    BY <1>4 DEF LocalsOK, CallTypes, TouchScope, Step
  <2>5. QED
    BY <2>1, <2>2, <2>3, <2>4
<1>5. ASSUME NEW c \in Callers, RetryRegister(c) PROVE TypeInv'
  <2>1. (EntryTypes /\ ScopeTypes /\ CleanupTypes /\ HistoryTypes)'
    BY <1>5 DEF EntryTypes, ScopeTypes, CleanupTypes, HistoryTypes, RetryRegister, Step
  <2>2. CallTypes'
    BY <1>5 DEF CallTypes, CallLabels, RetryRegister, Step
  <2>3. LocalsOK'
    BY <1>5 DEF LocalsOK, CallTypes, RetryRegister, Step
  <2>4. QED
    BY <2>1, <2>2, <2>3
<1>6. ASSUME NEW c \in Callers, LoadEntry(c) PROVE TypeInv'
  <2>1. (EntryTypes /\ CleanupTypes /\ HistoryTypes)'
    BY <1>6 DEF EntryTypes, CleanupTypes, HistoryTypes, LoadEntry, Register, CachedEntry, Step
  <2>2. ScopeTypes'
    BY <1>6 DEF ScopeTypes, LocalsOK, CallTypes, LoadEntry, Register, CachedEntry, Step
  <2>3. CallTypes'
    BY <1>6 DEF CallTypes, LocalsOK, EntryTypes, CallLabels, LoadEntry, Register, CachedEntry, Step
  <2>4. LocalsOK'
    BY <1>6 DEF LocalsOK, CallTypes, EntryTypes, LoadEntry, Register, CachedEntry, Step
  <2>5. QED
    BY <2>1, <2>2, <2>3, <2>4
<1>7. ASSUME NEW c \in Callers, CreateEntry(c) PROVE TypeInv'
  <2>1. (CleanupTypes /\ HistoryTypes)'
    BY <1>7 DEF CleanupTypes, HistoryTypes, CreateEntry, Register, CachedEntry, Step
  <2>2. EntryTypes'
    <3>1. key[c] \in Keys /\ op[c] \in Ops
      BY <1>7 DEF LocalsOK, CreateEntry
    <3>2. nextEntry \in EntryIds /\ nextEntry' \in 1..(MaxEntries + 1)
      BY <1>7 DEF EntryTypes, EntryIds, CreateEntry
    <3>3. idem' \in [Keys -> [Ops -> EntryIds \cup {None}]]
      BY <1>7, <3>1, <3>2 DEF EntryTypes, CreateEntry
    <3>4. keyOf' \in [EntryIds -> Keys \cup {None}] /\ opOf' \in [EntryIds -> Ops \cup {None}]
      BY <1>7, <3>1, <3>2 DEF EntryTypes, CreateEntry
    <3>5. QED
      BY <1>7, <3>2, <3>3, <3>4 DEF EntryTypes, CreateEntry, Register
  <2>3. ScopeTypes'
    BY <1>7 DEF ScopeTypes, LocalsOK, CallTypes, CreateEntry, Register, CachedEntry, Step
  <2>4. CallTypes'
    BY <1>7 DEF CallTypes, LocalsOK, EntryTypes, CallLabels, EntryIds, CreateEntry, Register, CachedEntry, Step
  <2>5. LocalsOK'
    BY <1>7 DEF LocalsOK, CallTypes, EntryTypes, EntryIds, CreateEntry, Register, CachedEntry, Step
  <2>6. QED
    BY <2>1, <2>2, <2>3, <2>4, <2>5
<1>8. ASSUME NEW c \in Callers, OnceEnter(c) PROVE TypeInv'
  <2>1. (ScopeTypes /\ CleanupTypes /\ HistoryTypes)'
    BY <1>8 DEF ScopeTypes, CleanupTypes, HistoryTypes, OnceEnter, Step
  <2>2. EntryTypes'
    BY <1>8 DEF EntryTypes, LocalsOK, OnceEnter, Step
  <2>3. CallTypes'
    BY <1>8 DEF CallTypes, CallLabels, OnceEnter, Step
  <2>4. LocalsOK'
    BY <1>8 DEF LocalsOK, CallTypes, OnceEnter, Step
  <2>5. QED
    BY <2>1, <2>2, <2>3, <2>4
<1>9. ASSUME NEW c \in Callers, OncePass(c) PROVE TypeInv'
  <2>1. (EntryTypes /\ ScopeTypes /\ CleanupTypes /\ HistoryTypes)'
    BY <1>9 DEF EntryTypes, ScopeTypes, CleanupTypes, HistoryTypes, OncePass, Step
  <2>2. CallTypes'
    BY <1>9 DEF CallTypes, CallLabels, OncePass, Step
  <2>3. LocalsOK'
    BY <1>9 DEF LocalsOK, CallTypes, OncePass, Step
  <2>4. QED
    BY <2>1, <2>2, <2>3
<1>10. ASSUME NEW c \in Callers, CounterFor(c) PROVE TypeInv'
  <2>1. (ScopeTypes /\ CleanupTypes /\ HistoryTypes)'
    BY <1>10 DEF ScopeTypes, CleanupTypes, HistoryTypes, CounterFor, SeededCounter, Step
  <2>2. EntryTypes'
    BY <1>10, WordFacts DEF EntryTypes, LocalsOK, CounterFor, SeededCounter, Step
  <2>3. CallTypes'
    BY <1>10 DEF CallTypes, CallLabels, CounterFor, SeededCounter, Step
  <2>4. LocalsOK'
    BY <1>10, WordFacts DEF LocalsOK, CallTypes, EntryTypes, CounterFor, SeededCounter, Step
  <2>5. QED
    BY <2>1, <2>2, <2>3, <2>4
<1>11. ASSUME NEW c \in Callers, AdvanceOnce(c) PROVE TypeInv'
  <2>1. (ScopeTypes /\ CleanupTypes)'
    BY <1>11 DEF ScopeTypes, CleanupTypes, AdvanceOnce, Step
  <2>2. EntryTypes'
    BY <1>11, AddType DEF EntryTypes, LocalsOK, AdvanceOnce, Step
  <2>3. CallTypes'
    BY <1>11 DEF CallTypes, CallLabels, AdvanceOnce, Step
  <2>4. HistoryTypes'
    BY <1>11, SMTT(40) DEF HistoryTypes, LocalsOK, CallTypes, AdvanceOnce, Step
  <2>5. LocalsOK'
    BY <1>11, WordFacts, AddType DEF LocalsOK, CallTypes, EntryTypes, AdvanceOnce, Step
  <2>6. QED
    BY <2>1, <2>2, <2>3, <2>4, <2>5
<1>12. ASSUME NEW c \in Callers, AdvancePlain(c) PROVE TypeInv'
  <2>1. (ScopeTypes /\ CleanupTypes /\ HistoryTypes)'
    BY <1>12 DEF ScopeTypes, CleanupTypes, HistoryTypes, AdvancePlain, Finish, Step
  <2>2. EntryTypes'
    BY <1>12, AddType DEF EntryTypes, LocalsOK, AdvancePlain, Finish, Step
  <2>3. CallTypes'
    BY <1>12 DEF CallTypes, CallLabels, AdvancePlain, Finish, Step
  <2>4. LocalsOK'
    <3>1. key[c] \in Keys /\ counters[key[c]] \in Word
      BY <1>12 DEF LocalsOK, EntryTypes, AdvancePlain, Finish, Step
    <3>2. \A k \in Keys : counters[k] # None => counters'[k] # None
      BY <1>12, <3>1, WordFacts, AddType, ZenonT(40) DEF EntryTypes, AdvancePlain
    <3>3. QED
      BY <1>12, <3>2 DEF LocalsOK, CallTypes, AdvancePlain, Finish, Step
  <2>5. QED
    BY <2>1, <2>2, <2>3, <2>4
<1>13. ASSUME NEW c \in Callers, Return(c) PROVE TypeInv'
  <2>1. (EntryTypes /\ ScopeTypes /\ CleanupTypes)'
    BY <1>13 DEF EntryTypes, ScopeTypes, CleanupTypes, Return, Finish, Step
  <2>2. CallTypes'
    BY <1>13 DEF CallTypes, CallLabels, Return, Finish, Step
  <2>3. HistoryTypes'
    <3>1. key[c] \in Keys /\ op[c] \in Ops /\ previous[entry[c]] \in Word
      BY <1>13 DEF LocalsOK, EntryTypes, Return, Finish, Step
    <3>2. QED
      BY <1>13, <3>1 DEF HistoryTypes, Return
  <2>4. LocalsOK'
    BY <1>13 DEF LocalsOK, CallTypes, Return, Finish, Step
  <2>5. QED
    BY <2>1, <2>2, <2>3, <2>4
<1>14. ASSUME NEW o \in Ops, DropLoadAndDelete(o) PROVE TypeInv'
  <2>1. (EntryTypes /\ ScopeTypes /\ CallTypes /\ HistoryTypes)'
    BY <1>14 DEF EntryTypes, ScopeTypes, CallTypes, HistoryTypes, DropLoadAndDelete
  <2>2. CleanupTypes'
    BY <1>14 DEF CleanupTypes, ScopeTypes, DropLabels, DropLoadAndDelete
  <2>3. LocalsOK'
    BY <1>14 DEF LocalsOK, ScopeTypes, CleanupTypes, DropLoadAndDelete
  <2>4. QED
    BY <2>1, <2>2, <2>3
<1>15. ASSUME NEW o \in Ops, DropLock(o) PROVE TypeInv'
  <2>1. (EntryTypes /\ CallTypes /\ HistoryTypes)'
    BY <1>15 DEF EntryTypes, CallTypes, HistoryTypes, DropLock
  <2>2. ScopeTypes'
    BY <1>15 DEF ScopeTypes, LocalsOK, DropLock
  <2>3. CleanupTypes'
    BY <1>15 DEF CleanupTypes, DropLabels, DropLock
  <2>4. LocalsOK'
    BY <1>15 DEF LocalsOK, CleanupTypes, DropLock
  <2>5. QED
    BY <2>1, <2>2, <2>3, <2>4
<1>16. ASSUME NEW o \in Ops, NEW k \in Keys, DropKey(o, k) PROVE TypeInv'
  <2>1. (CallTypes /\ CleanupTypes /\ HistoryTypes /\ LocalsOK)'
    BY <1>16 DEF CallTypes, CleanupTypes, HistoryTypes, LocalsOK, DropKey
  <2>2. EntryTypes'
    BY <1>16 DEF EntryTypes, DropKey
  <2>3. ScopeTypes'
    BY <1>16 DEF ScopeTypes, LocalsOK, DropKey
  <2>4. QED
    BY <2>1, <2>2, <2>3
<1>17. ASSUME NEW o \in Ops, DropUnlock(o) PROVE TypeInv'
  <2>1. (EntryTypes /\ CallTypes /\ HistoryTypes)'
    BY <1>17 DEF EntryTypes, CallTypes, HistoryTypes, DropUnlock
  <2>2. ScopeTypes'
    BY <1>17 DEF ScopeTypes, LocalsOK, DropUnlock
  <2>3. CleanupTypes'
    BY <1>17 DEF CleanupTypes, DropLabels, DropUnlock
  <2>4. LocalsOK'
    BY <1>17 DEF LocalsOK, CleanupTypes, DropUnlock
  <2>5. QED
    BY <2>1, <2>2, <2>3, <2>4
<1>18. ASSUME SweepTick PROVE TypeInv'
  <2>1. (EntryTypes /\ ScopeTypes /\ CallTypes /\ HistoryTypes /\ LocalsOK)'
    BY <1>18 DEF EntryTypes, ScopeTypes, CallTypes, HistoryTypes, LocalsOK, SweepTick
  <2>2. CleanupTypes'
    BY <1>18 DEF CleanupTypes, SweepLabels, SweepTick
  <2>3. QED
    BY <2>1, <2>2
<1>19. ASSUME NEW o \in Ops, SweepSkip(o) PROVE TypeInv'
  BY <1>19 DEF EntryTypes, ScopeTypes, CallTypes, CleanupTypes, HistoryTypes, LocalsOK, SweepSkip
<1>20. ASSUME NEW o \in Ops, SweepCapture(o) PROVE TypeInv'
  <2>1. (EntryTypes /\ ScopeTypes /\ CallTypes /\ HistoryTypes)'
    BY <1>20 DEF EntryTypes, ScopeTypes, CallTypes, HistoryTypes, SweepCapture
  <2>2. CleanupTypes'
    BY <1>20 DEF CleanupTypes, SweepLabels, ScopeTypes, SweepCapture
  <2>3. LocalsOK'
    BY <1>20 DEF LocalsOK, ScopeTypes, SweepCapture
  <2>4. QED
    BY <2>1, <2>2, <2>3
<1>21. ASSUME SweepSpare PROVE TypeInv'
  <2>1. (EntryTypes /\ ScopeTypes /\ CallTypes /\ HistoryTypes /\ LocalsOK)'
    BY <1>21 DEF EntryTypes, ScopeTypes, CallTypes, HistoryTypes, LocalsOK, SweepSpare
  <2>2. CleanupTypes'
    BY <1>21 DEF CleanupTypes, SweepLabels, SweepSpare
  <2>3. QED
    BY <2>1, <2>2
<1>22. ASSUME SweepCondemn PROVE TypeInv'
  <2>1. (EntryTypes /\ CallTypes /\ LocalsOK)'
    BY <1>22 DEF EntryTypes, CallTypes, LocalsOK, SweepCondemn
  <2>2. ScopeTypes'
    BY <1>22 DEF ScopeTypes, LocalsOK, SweepCondemn
  <2>3. CleanupTypes'
    BY <1>22 DEF CleanupTypes, SweepLabels, SweepCondemn
  <2>4. HistoryTypes'
    BY <1>22 DEF HistoryTypes, LocalsOK, SweepCondemn
  <2>5. QED
    BY <2>1, <2>2, <2>3, <2>4
<1>23. ASSUME SweepDeleteScope PROVE TypeInv'
  <2>1. (EntryTypes /\ CallTypes /\ HistoryTypes /\ LocalsOK)'
    BY <1>23 DEF EntryTypes, CallTypes, HistoryTypes, LocalsOK, SweepDeleteScope
  <2>2. ScopeTypes'
    BY <1>23 DEF ScopeTypes, LocalsOK, SweepDeleteScope
  <2>3. CleanupTypes'
    BY <1>23 DEF CleanupTypes, SweepLabels, SweepDeleteScope
  <2>4. QED
    BY <2>1, <2>2, <2>3
<1>24. ASSUME NEW k \in Keys, SweepKey(k) PROVE TypeInv'
  <2>1. (CallTypes /\ CleanupTypes /\ HistoryTypes /\ LocalsOK)'
    BY <1>24 DEF CallTypes, CleanupTypes, HistoryTypes, LocalsOK, SweepKey
  <2>2. EntryTypes'
    BY <1>24 DEF EntryTypes, LocalsOK, SweepKey
  <2>3. ScopeTypes'
    BY <1>24 DEF ScopeTypes, LocalsOK, SweepKey
  <2>4. QED
    BY <2>1, <2>2, <2>3
<1>25. ASSUME SweepUnlock PROVE TypeInv'
  <2>1. (EntryTypes /\ CallTypes /\ HistoryTypes /\ LocalsOK)'
    BY <1>25 DEF EntryTypes, CallTypes, HistoryTypes, LocalsOK, SweepUnlock
  <2>2. ScopeTypes'
    BY <1>25 DEF ScopeTypes, LocalsOK, SweepUnlock
  <2>3. CleanupTypes'
    BY <1>25 DEF CleanupTypes, SweepLabels, SweepUnlock
  <2>4. QED
    BY <2>1, <2>2, <2>3
<1>26. ASSUME SweepPassDone PROVE TypeInv'
  <2>1. (EntryTypes /\ ScopeTypes /\ CallTypes /\ HistoryTypes /\ LocalsOK)'
    BY <1>26 DEF EntryTypes, ScopeTypes, CallTypes, HistoryTypes, LocalsOK, SweepPassDone
  <2>2. CleanupTypes'
    BY <1>26 DEF CleanupTypes, SweepLabels, SweepPassDone
  <2>3. QED
    BY <2>1, <2>2
<1>27. ASSUME SweepExit PROVE TypeInv'
  <2>1. (EntryTypes /\ ScopeTypes /\ CallTypes /\ HistoryTypes /\ LocalsOK)'
    BY <1>27 DEF EntryTypes, ScopeTypes, CallTypes, HistoryTypes, LocalsOK, SweepExit
  <2>2. CleanupTypes'
    BY <1>27 DEF CleanupTypes, SweepLabels, SweepExit
  <2>3. QED
    BY <2>1, <2>2
<1>28. ASSUME Close PROVE TypeInv'
  BY <1>28 DEF EntryTypes, ScopeTypes, CallTypes, CleanupTypes, HistoryTypes, LocalsOK, Close
<1>29. ASSUME Tick PROVE TypeInv'
  BY <1>29 DEF EntryTypes, ScopeTypes, CallTypes, CleanupTypes, HistoryTypes, LocalsOK, Tick
<1>30. CASE UNCHANGED vars
  BY <1>30 DEF vars, EntryTypes, ScopeTypes, CallTypes, CleanupTypes, HistoryTypes, LocalsOK
<1>31. QED
  BY <1>1, <1>2, <1>3, <1>4, <1>5, <1>6, <1>7, <1>8, <1>9, <1>10, <1>11, <1>12, <1>13, <1>14, <1>15, <1>16, <1>17, <1>18, <1>19, <1>20, <1>21, <1>22, <1>23, <1>24, <1>25, <1>26, <1>27, <1>28, <1>29, <1>30
     DEF Next, CallStep, DropStep, SweepStep

\* The invariant on cached entries.
CacheInv ==
    /\ EntryAddresses /\ LiveEntryCached /\ OnceProtocol
    /\ ReturnsCached /\ AdvancesCached

\* The empty store satisfies the cache invariant.
LEMMA InitCache == Init => CacheInv
BY StoreAssumption DEF Init, CacheInv, EntryAddresses, LiveEntryCached, OnceProtocol,
   ReturnsCached, AdvancesCached, Live

\* Every step preserves the cache invariant: entries keep their address, a live
\* operation keeps its entry, one caller is inside an entry's once.
LEMMA StepCache == TypeInv /\ CacheInv /\ [Next]_vars => CacheInv'
<1> SUFFICES ASSUME TypeInv, CacheInv, [Next]_vars PROVE CacheInv'
  OBVIOUS
<1> USE StoreAssumption
    DEF TypeInv, TypeOK, CacheInv, entryVars, scopeVars, timeVars, callVars, dropVars,
        sweepVars, history
<1>1. ASSUME NEW c \in Callers, NEW k \in Keys, NEW o \in Ops \cup {NoOp}, FetchAdd(c, k, o) PROVE CacheInv'
  <2>1. (LiveEntryCached /\ ReturnsCached /\ AdvancesCached)'
    BY <1>1 DEF LiveEntryCached, ReturnsCached, AdvancesCached, FetchAdd, Step, Live
  <2>2. EntryAddresses'
    BY <1>1 DEF EntryAddresses, CallTypes, LocalsOK, FetchAdd, Step, Live
  <2>3. OnceProtocol'
    BY <1>1 DEF OnceProtocol, CallTypes, LocalsOK, FetchAdd, Step, Live
  <2>4. QED
    BY <2>1, <2>2, <2>3
<1>2. ASSUME NEW c \in Callers, LoadScope(c) PROVE CacheInv'
  <2>1. (LiveEntryCached /\ ReturnsCached /\ AdvancesCached)'
    BY <1>2 DEF LiveEntryCached, ReturnsCached, AdvancesCached, LoadScope, Step, Live
  <2>2. EntryAddresses'
    BY <1>2 DEF EntryAddresses, CallTypes, LocalsOK, LoadScope, Step, Live
  <2>3. OnceProtocol'
    BY <1>2 DEF OnceProtocol, CallTypes, LocalsOK, LoadScope, Step, Live
  <2>4. QED
    BY <2>1, <2>2, <2>3
<1>3. ASSUME NEW c \in Callers, StoreScope(c) PROVE CacheInv'
  <2>1. (LiveEntryCached /\ ReturnsCached /\ AdvancesCached)'
    BY <1>3 DEF LiveEntryCached, ReturnsCached, AdvancesCached, StoreScope, Step, Live
  <2>2. EntryAddresses'
    BY <1>3 DEF EntryAddresses, CallTypes, LocalsOK, StoreScope, Step, Live
  <2>3. OnceProtocol'
    BY <1>3 DEF OnceProtocol, CallTypes, LocalsOK, StoreScope, Step, Live
  <2>4. QED
    BY <2>1, <2>2, <2>3
<1>4. ASSUME NEW c \in Callers, TouchScope(c) PROVE CacheInv'
  <2>1. (LiveEntryCached /\ ReturnsCached /\ AdvancesCached)'
    BY <1>4 DEF LiveEntryCached, ReturnsCached, AdvancesCached, TouchScope, Step, Live
  <2>2. EntryAddresses'
    BY <1>4 DEF EntryAddresses, CallTypes, LocalsOK, TouchScope, Step, Live
  <2>3. OnceProtocol'
    BY <1>4 DEF OnceProtocol, CallTypes, LocalsOK, TouchScope, Step, Live
  <2>4. QED
    BY <2>1, <2>2, <2>3
<1>5. ASSUME NEW c \in Callers, RetryRegister(c) PROVE CacheInv'
  <2>1. (LiveEntryCached /\ ReturnsCached /\ AdvancesCached)'
    BY <1>5 DEF LiveEntryCached, ReturnsCached, AdvancesCached, RetryRegister, Step, Live
  <2>2. EntryAddresses'
    BY <1>5 DEF EntryAddresses, CallTypes, LocalsOK, RetryRegister, Step, Live
  <2>3. OnceProtocol'
    BY <1>5 DEF OnceProtocol, CallTypes, LocalsOK, RetryRegister, Step, Live
  <2>4. QED
    BY <2>1, <2>2, <2>3
<1>6. ASSUME NEW c \in Callers, LoadEntry(c) PROVE CacheInv'
  <2>1. (LiveEntryCached /\ ReturnsCached /\ AdvancesCached)'
    BY <1>6 DEF LiveEntryCached, ReturnsCached, AdvancesCached, LoadEntry, Register, CachedEntry, Step, Live
  <2>2. EntryAddresses'
    BY <1>6 DEF EntryAddresses, EntryTypes, CallTypes, LocalsOK, LoadEntry, Register, CachedEntry, Step, Live
  <2>3. OnceProtocol'
    BY <1>6 DEF OnceProtocol, EntryTypes, CallTypes, LocalsOK, LoadEntry, Register, CachedEntry, Step, Live
  <2>4. QED
    BY <2>1, <2>2, <2>3
<1>7. ASSUME NEW c \in Callers, CreateEntry(c) PROVE CacheInv'
  <2>1. EntryAddresses'
    BY <1>7 DEF EntryAddresses, EntryTypes, CallTypes, LocalsOK, EntryIds, CreateEntry, Register, CachedEntry, Step, Live
  <2>2. LiveEntryCached'
    <3>1. /\ key[c] \in Keys /\ op[c] \in Ops /\ idem[key[c]][op[c]] = None
          /\ nextEntry \in EntryIds
      BY <1>7 DEF EntryTypes, LocalsOK, EntryIds, CreateEntry, CachedEntry
    <3>2. /\ idem' = [idem EXCEPT ![key[c]][op[c]] = nextEntry]
          /\ keyOf' = [keyOf EXCEPT ![nextEntry] = key[c]]
          /\ opOf' = [opOf EXCEPT ![nextEntry] = op[c]]
          /\ UNCHANGED <<dropPc, swept>>
      BY <1>7 DEF CreateEntry, Register
    <3>3. SUFFICES ASSUME NEW e \in EntryIds, keyOf'[e] # None, opOf'[e] # None,
                          Live(opOf[e])'
                   PROVE  idem'[keyOf'[e]][opOf'[e]] = e
      BY DEF LiveEntryCached
    <3>4. CASE e = nextEntry
      BY <3>1, <3>2, <3>4 DEF EntryTypes
    <3>5. CASE e # nextEntry
      <4>1. keyOf'[e] = keyOf[e] /\ opOf'[e] = opOf[e] /\ opOf[e] \in Ops /\ keyOf[e] \in Keys
        BY <3>2, <3>3, <3>5 DEF EntryTypes
      <4>2. Live(opOf[e])
        BY <4>1, <3>2, <3>3 DEF Live
      <4>3. idem[keyOf[e]][opOf[e]] = e
        BY <4>1, <4>2 DEF LiveEntryCached
      <4>4. keyOf[e] # key[c] \/ opOf[e] # op[c]
        BY <4>3, <3>1 DEF EntryIds
      <4>5. QED
        BY <4>1, <4>3, <4>4, <3>1, <3>2 DEF EntryTypes
    <3>6. QED
      BY <3>4, <3>5
  <2>3. OnceProtocol'
    BY <1>7 DEF OnceProtocol, EntryTypes, CallTypes, LocalsOK, CreateEntry, Register, CachedEntry, Step, Live
  <2>4. ReturnsCached'
    BY <1>7 DEF ReturnsCached, EntryTypes, CallTypes, LocalsOK, EntryAddresses, EntryIds, CreateEntry, Register, CachedEntry, Step, Live
  <2>5. AdvancesCached'
    BY <1>7 DEF AdvancesCached, EntryTypes, CallTypes, LocalsOK, EntryAddresses, EntryIds, CreateEntry, Register, CachedEntry, Step, Live
  <2>6. QED
    BY <2>1, <2>2, <2>3, <2>4, <2>5
<1>8. ASSUME NEW c \in Callers, OnceEnter(c) PROVE CacheInv'
  <2>1. LiveEntryCached'
    BY <1>8 DEF LiveEntryCached, OnceEnter, Step, Live
  <2>2. EntryAddresses'
    BY <1>8 DEF EntryAddresses, EntryTypes, CallTypes, LocalsOK, OnceIsNew, OnceEnter, Step, Live
  <2>3. OnceProtocol'
    BY <1>8 DEF OnceProtocol, EntryTypes, CallTypes, LocalsOK, OnceIsNew, OnceEnter, Step, Live
  <2>4. ReturnsCached'
    BY <1>8 DEF ReturnsCached, EntryTypes, CallTypes, LocalsOK, OnceIsNew, OnceEnter, Step, Live
  <2>5. AdvancesCached'
    BY <1>8 DEF AdvancesCached, EntryTypes, CallTypes, LocalsOK, OnceIsNew, OnceEnter, Step, Live
  <2>6. QED
    BY <2>1, <2>2, <2>3, <2>4, <2>5
<1>9. ASSUME NEW c \in Callers, OncePass(c) PROVE CacheInv'
  <2>1. (LiveEntryCached /\ ReturnsCached /\ AdvancesCached)'
    BY <1>9 DEF LiveEntryCached, ReturnsCached, AdvancesCached, OncePass, Step, Live
  <2>2. EntryAddresses'
    BY <1>9 DEF EntryAddresses, EntryTypes, CallTypes, LocalsOK, OncePass, Step, Live
  <2>3. OnceProtocol'
    BY <1>9 DEF OnceProtocol, EntryTypes, CallTypes, LocalsOK, OncePass, Step, Live
  <2>4. QED
    BY <2>1, <2>2, <2>3
<1>10. ASSUME NEW c \in Callers, CounterFor(c) PROVE CacheInv'
  <2>1. (LiveEntryCached /\ ReturnsCached /\ AdvancesCached)'
    BY <1>10 DEF LiveEntryCached, ReturnsCached, AdvancesCached, CounterFor, SeededCounter, Step, Live
  <2>2. EntryAddresses'
    BY <1>10 DEF EntryAddresses, EntryTypes, CallTypes, LocalsOK, CounterFor, SeededCounter, Step, Live
  <2>3. OnceProtocol'
    <3>1. CASE Step(c, "counter", "add")
      BY <1>10, <3>1 DEF OnceProtocol, CallTypes, CounterFor, Step
    <3>2. CASE Step(c, "plainCounter", "plainAdd")
      BY <1>10, <3>2 DEF OnceProtocol, CallTypes, CounterFor, Step
    <3>3. QED
      BY <1>10, <3>1, <3>2 DEF CounterFor
  <2>4. QED
    BY <2>1, <2>2, <2>3
<1>11. ASSUME NEW c \in Callers, AdvanceOnce(c) PROVE CacheInv'
  <2>1. LiveEntryCached'
    BY <1>11 DEF LiveEntryCached, AdvanceOnce, Step, Live
  <2>2. EntryAddresses'
    BY <1>11 DEF EntryAddresses, EntryTypes, CallTypes, LocalsOK, AdvanceOnce, Step, Live
  <2>3. OnceProtocol'
    BY <1>11 DEF OnceProtocol, EntryTypes, CallTypes, LocalsOK, AdvanceOnce, Step, Live
  <2>4. ReturnsCached'
    BY <1>11 DEF ReturnsCached, EntryTypes, CallTypes, LocalsOK, OnceProtocol, AdvanceOnce, Step, Live
  <2>5. AdvancesCached'
    <3>1. /\ key[c] \in Keys /\ op[c] \in Ops /\ entry[c] \in EntryIds
          /\ once[entry[c]] = "running"
          /\ keyOf[entry[c]] = key[c] /\ opOf[entry[c]] = op[c]
      BY <1>11 DEF LocalsOK, OnceProtocol, EntryAddresses, AdvanceOnce, Step
    <3>2. /\ once' = [once EXCEPT ![entry[c]] = "done"]
          /\ advances' = [advances EXCEPT ![key[c]][op[c]] = @ + 1]
          /\ UNCHANGED <<idem, dropPc, swept>>
      BY <1>11 DEF AdvanceOnce
    <3>3. SUFFICES ASSUME NEW k \in Keys, NEW o \in Ops, Live(o)
                   PROVE /\ idem[k][o] = None => advances'[k][o] = 0
                         /\ idem[k][o] # None =>
                              advances'[k][o] = IF once'[idem[k][o]] = "done" THEN 1 ELSE 0
      BY <3>2 DEF AdvancesCached, Live
    <3>4. CASE k = key[c] /\ o = op[c]
      <4>1. idem[k][o] = entry[c]
        BY <3>1, <3>3, <3>4 DEF LiveEntryCached
      <4>2. advances[k][o] = 0
        BY <4>1, <3>1, <3>3 DEF AdvancesCached, EntryTypes, EntryIds
      <4>3. QED
        BY <4>1, <4>2, <3>1, <3>2, <3>4 DEF HistoryTypes, EntryTypes, EntryIds
    <3>5. CASE ~ (k = key[c] /\ o = op[c])
      <4>1. idem[k][o] # entry[c]
        BY <3>1, <3>5 DEF EntryAddresses, EntryIds
      <4>2. advances'[k][o] = advances[k][o]
        BY <3>1, <3>2, <3>5 DEF HistoryTypes
      <4>3. idem[k][o] # None => once'[idem[k][o]] = once[idem[k][o]]
        BY <4>1, <3>2 DEF EntryTypes
      <4>4. QED
        BY <4>2, <4>3, <3>3 DEF AdvancesCached
    <3>6. QED
      BY <3>4, <3>5
  <2>6. QED
    BY <2>1, <2>2, <2>3, <2>4, <2>5
<1>12. ASSUME NEW c \in Callers, AdvancePlain(c) PROVE CacheInv'
  <2>1. (LiveEntryCached /\ ReturnsCached /\ AdvancesCached)'
    BY <1>12 DEF LiveEntryCached, ReturnsCached, AdvancesCached, AdvancePlain, Finish, Step, Live
  <2>2. EntryAddresses'
    BY <1>12 DEF EntryAddresses, CallTypes, LocalsOK, AdvancePlain, Finish, Step, Live
  <2>3. OnceProtocol'
    BY <1>12 DEF OnceProtocol, CallTypes, LocalsOK, AdvancePlain, Finish, Step, Live
  <2>4. QED
    BY <2>1, <2>2, <2>3
<1>13. ASSUME NEW c \in Callers, Return(c) PROVE CacheInv'
  <2>1. (LiveEntryCached /\ AdvancesCached)'
    BY <1>13 DEF LiveEntryCached, AdvancesCached, Return, Finish, Step, Live
  <2>2. EntryAddresses'
    BY <1>13 DEF EntryAddresses, EntryTypes, CallTypes, LocalsOK, Return, Finish, Step, Live
  <2>3. OnceProtocol'
    BY <1>13 DEF OnceProtocol, EntryTypes, CallTypes, LocalsOK, Return, Finish, Step, Live
  <2>4. ReturnsCached'
    <3>1. /\ key[c] \in Keys /\ op[c] \in Ops /\ entry[c] \in EntryIds
          /\ once[entry[c]] = "done"
          /\ keyOf[entry[c]] = key[c] /\ opOf[entry[c]] = op[c]
      BY <1>13 DEF LocalsOK, OnceProtocol, EntryAddresses, Return, Finish, Step
    <3>2. /\ returned' = [returned EXCEPT ![key[c]][op[c]] = @ \cup {previous[entry[c]]}]
          /\ UNCHANGED <<idem, once, previous, dropPc, swept>>
      BY <1>13 DEF Return
    <3>3. SUFFICES ASSUME NEW k \in Keys, NEW o \in Ops, Live(o), NEW v \in returned'[k][o]
                   PROVE idem[k][o] # None /\ once[idem[k][o]] = "done" /\ previous[idem[k][o]] = v
      BY <3>2 DEF ReturnsCached, Live
    <3>4. CASE v \in returned[k][o]
      BY <3>3, <3>4 DEF ReturnsCached
    <3>5. CASE v \notin returned[k][o]
      <4>1. k = key[c] /\ o = op[c] /\ v = previous[entry[c]]
        BY <3>1, <3>2, <3>3, <3>5 DEF HistoryTypes
      <4>2. idem[k][o] = entry[c]
        BY <4>1, <3>1, <3>3 DEF LiveEntryCached
      <4>3. QED
        BY <4>1, <4>2, <3>1 DEF EntryIds
    <3>6. QED
      BY <3>4, <3>5
  <2>5. QED
    BY <2>1, <2>2, <2>3, <2>4
<1>14. ASSUME NEW o \in Ops, DropLoadAndDelete(o) PROVE CacheInv'
  <2>1. (EntryAddresses /\ OnceProtocol /\ ReturnsCached)'
    BY <1>14 DEF EntryAddresses, OnceProtocol, ReturnsCached, DropLoadAndDelete, Live
  <2>2. LiveEntryCached'
    BY <1>14 DEF LiveEntryCached, CleanupTypes, DropLoadAndDelete, Live
  <2>3. AdvancesCached'
    BY <1>14 DEF AdvancesCached, CleanupTypes, DropLoadAndDelete, Live
  <2>4. QED
    BY <2>1, <2>2, <2>3
<1>15. ASSUME NEW o \in Ops, DropLock(o) PROVE CacheInv'
  <2>1. (EntryAddresses /\ OnceProtocol /\ ReturnsCached)'
    BY <1>15 DEF EntryAddresses, OnceProtocol, ReturnsCached, DropLock, Live
  <2>2. LiveEntryCached'
    BY <1>15 DEF LiveEntryCached, CleanupTypes, DropLock, Live
  <2>3. AdvancesCached'
    BY <1>15 DEF AdvancesCached, CleanupTypes, DropLock, Live
  <2>4. QED
    BY <2>1, <2>2, <2>3
<1>16. ASSUME NEW o \in Ops, NEW k \in Keys, DropKey(o, k) PROVE CacheInv'
  <2>1. (OnceProtocol /\ ReturnsCached)'
    BY <1>16 DEF OnceProtocol, ReturnsCached, DropKey, Live
  <2>2. EntryAddresses'
    BY <1>16 DEF EntryAddresses, EntryTypes, DropKey, Live
  <2>3. LiveEntryCached'
    BY <1>16 DEF LiveEntryCached, EntryTypes, DropKey, Live
  <2>4. AdvancesCached'
    BY <1>16 DEF AdvancesCached, EntryTypes, DropKey, Live
  <2>5. QED
    BY <2>1, <2>2, <2>3, <2>4
<1>17. ASSUME NEW o \in Ops, DropUnlock(o) PROVE CacheInv'
  <2>1. (EntryAddresses /\ OnceProtocol /\ ReturnsCached)'
    BY <1>17 DEF EntryAddresses, OnceProtocol, ReturnsCached, DropUnlock, Live
  <2>2. LiveEntryCached'
    BY <1>17 DEF LiveEntryCached, CleanupTypes, DropUnlock, Live
  <2>3. AdvancesCached'
    BY <1>17 DEF AdvancesCached, CleanupTypes, DropUnlock, Live
  <2>4. QED
    BY <2>1, <2>2, <2>3
<1>18. ASSUME SweepTick PROVE CacheInv'
  BY <1>18 DEF EntryAddresses, LiveEntryCached, OnceProtocol, ReturnsCached, AdvancesCached, SweepTick, Live
<1>19. ASSUME NEW o \in Ops, SweepSkip(o) PROVE CacheInv'
  BY <1>19 DEF EntryAddresses, LiveEntryCached, OnceProtocol, ReturnsCached, AdvancesCached, SweepSkip, Live
<1>20. ASSUME NEW o \in Ops, SweepCapture(o) PROVE CacheInv'
  BY <1>20 DEF EntryAddresses, LiveEntryCached, OnceProtocol, ReturnsCached, AdvancesCached, SweepCapture, Live
<1>21. ASSUME SweepSpare PROVE CacheInv'
  BY <1>21 DEF EntryAddresses, LiveEntryCached, OnceProtocol, ReturnsCached, AdvancesCached, SweepSpare, Live
<1>22. ASSUME SweepCondemn PROVE CacheInv'
  <2>1. (EntryAddresses /\ OnceProtocol /\ ReturnsCached)'
    BY <1>22 DEF EntryAddresses, OnceProtocol, ReturnsCached, SweepCondemn, Live
  <2>2. LiveEntryCached'
    BY <1>22 DEF LiveEntryCached, SweepCondemn, Live
  <2>3. AdvancesCached'
    BY <1>22 DEF AdvancesCached, SweepCondemn, Live
  <2>4. QED
    BY <2>1, <2>2, <2>3
<1>23. ASSUME SweepDeleteScope PROVE CacheInv'
  BY <1>23 DEF EntryAddresses, LiveEntryCached, OnceProtocol, ReturnsCached, AdvancesCached, SweepDeleteScope, Live
<1>24. ASSUME NEW k \in Keys, SweepKey(k) PROVE CacheInv'
  <2>1. (OnceProtocol /\ ReturnsCached)'
    BY <1>24 DEF OnceProtocol, ReturnsCached, EntryTypes, LocalsOK, SweepKey, Live
  <2>2. EntryAddresses'
    BY <1>24 DEF EntryAddresses, EntryTypes, LocalsOK, SweepKey, Live
  <2>3. LiveEntryCached'
    BY <1>24 DEF LiveEntryCached, EntryTypes, LocalsOK, SweepKey, Live
  <2>4. AdvancesCached'
    BY <1>24 DEF AdvancesCached, EntryTypes, LocalsOK, SweepKey, Live
  <2>5. QED
    BY <2>1, <2>2, <2>3, <2>4
<1>25. ASSUME SweepUnlock PROVE CacheInv'
  BY <1>25 DEF EntryAddresses, LiveEntryCached, OnceProtocol, ReturnsCached, AdvancesCached, SweepUnlock, Live
<1>26. ASSUME SweepPassDone PROVE CacheInv'
  BY <1>26 DEF EntryAddresses, LiveEntryCached, OnceProtocol, ReturnsCached, AdvancesCached, SweepPassDone, Live
<1>27. ASSUME SweepExit PROVE CacheInv'
  BY <1>27 DEF EntryAddresses, LiveEntryCached, OnceProtocol, ReturnsCached, AdvancesCached, SweepExit, Live
<1>28. ASSUME Close PROVE CacheInv'
  BY <1>28 DEF EntryAddresses, LiveEntryCached, OnceProtocol, ReturnsCached, AdvancesCached, Close, Live
<1>29. ASSUME Tick PROVE CacheInv'
  BY <1>29 DEF EntryAddresses, LiveEntryCached, OnceProtocol, ReturnsCached, AdvancesCached, Tick, Live
<1>30. CASE UNCHANGED vars
  BY <1>30 DEF vars, Live, EntryAddresses, LiveEntryCached, OnceProtocol, ReturnsCached, AdvancesCached
<1>31. QED
  BY <1>1, <1>2, <1>3, <1>4, <1>5, <1>6, <1>7, <1>8, <1>9, <1>10, <1>11, <1>12, <1>13, <1>14, <1>15, <1>16, <1>17, <1>18, <1>19, <1>20, <1>21, <1>22, <1>23, <1>24, <1>25, <1>26, <1>27, <1>28, <1>29, <1>30
     DEF Next, CallStep, DropStep, SweepStep

\* The inductive invariant holds in every reachable state of the store.
LEMMA StoreInvariant == Spec => [](TypeInv /\ CacheInv)
BY InitType, StepType, InitCache, StepCache, PTL DEF Spec

\* Type correctness of the store: the maps, objects and locals of every
\* goroutine keep their types, and counters never leave the word.
THEOREM TypeCorrect == Spec => []TypeOK
BY StoreInvariant, PTL DEF TypeInv

\* However many FetchAdd calls of a live operation overlap, they all return the
\* value of the one entry the operation has for that key.
THEOREM ReplayIsStable == Spec => []ReplayStable
<1>1. TypeInv /\ CacheInv => ReplayStable
  BY DEF CacheInv, ReturnsCached, ReplayStable
<1>2. QED
  BY <1>1, StoreInvariant, PTL

\* A live operation advances each counter at most once: pool retries never make
\* the rotation skip a child.
THEOREM RotationIsNotSkipped == Spec => []RotationNotSkipped
<1>1. TypeInv /\ CacheInv => RotationNotSkipped
  BY DEF CacheInv, AdvancesCached, RotationNotSkipped
<1>2. QED
  BY <1>1, StoreInvariant, PTL

----------------------------------------------------------------------------
(* The refinement of the contract *)

\* The operations that expired, as the contract sees them.
Expired == {o \in Ops : ~ Live(o)}

\* The finished entries made for operation o and key k.
DoneFor(k, o) == {f \in EntryIds : keyOf[f] = k /\ opOf[f] = o /\ once[f] = "done"}

\* What an operation drew from a counter, entry by entry.
LEMMA IssuedValues ==
  ASSUME NEW k \in Keys, NEW o \in Ops
  PROVE  Issued[k][o] = {previous[e] : e \in DoneFor(k, o)}
BY DEF Issued, DoneFor

\* A step that leaves every entry's address and result alone, and finishes none,
\* draws nothing.
LEMMA NothingDrawn ==
  ASSUME UNCHANGED previous,
         \A e \in EntryIds : once'[e] = "done" <=> once[e] = "done",
         \A e \in EntryIds : once[e] = "done" => keyOf'[e] = keyOf[e] /\ opOf'[e] = opOf[e]
  PROVE  Issued' = Issued
<1>1. \A k \in Keys, o \in Ops :
        {f \in EntryIds : keyOf'[f] = k /\ opOf'[f] = o /\ once'[f] = "done"}
          = {f \in EntryIds : keyOf[f] = k /\ opOf[f] = o /\ once[f] = "done"}
  OBVIOUS
<1>2. QED
  BY <1>1 DEF Issued

\* The constructor's state is the contract's initial state.
LEMMA ContractInit == Init => Contract!AbsInit
<1> SUFFICES ASSUME Init PROVE Contract!AbsInit
  OBVIOUS
<1>1. counters = [k \in Keys |-> None] /\ returned = [k \in Keys |-> [o \in Ops |-> {}]]
  BY DEF Init
<1>2. \A k \in Keys, o \in Ops : {previous[e] : e \in {f \in EntryIds : keyOf[f] = k /\ opOf[f] = o /\ once[f] = "done"}} = {}
  BY DEF Init
<1>3. Issued = [k \in Keys |-> [o \in Ops |-> {}]]
  BY <1>2 DEF Issued
<1>4. {o \in Ops : ~ Live(o)} = {}
  BY DEF Init, Live
<1>5. QED
  BY <1>1, <1>3, <1>4 DEF Contract!AbsInit

\* Every step of the store is a step of the contract or changes nothing it sees.
LEMMA ContractStep ==
  TypeInv /\ CacheInv /\ [Next]_vars => [Contract!AbsNext]_(Contract!absvars)
<1> SUFFICES ASSUME TypeInv, CacheInv, [Next]_vars PROVE [Contract!AbsNext]_(Contract!absvars)
  OBVIOUS
<1> USE DEF TypeInv, TypeOK, CacheInv, entryVars, scopeVars, timeVars, callVars, dropVars, sweepVars, history
<1> DEFINE Idle == UNCHANGED <<counters, Issued, returned, Expired>>
<1>0. Idle => UNCHANGED Contract!absvars
  BY DEF Contract!absvars, Expired
<1>1. ASSUME UNCHANGED <<counters, returned, once, previous, keyOf, opOf, dropPc, swept>> PROVE Idle
  <2>1. Issued' = Issued
    BY <1>1, NothingDrawn
  <2>2. QED
    BY <1>1, <2>1 DEF Expired, Live
<1>2. ASSUME NEW c \in Callers, NEW k \in Keys, NEW o \in Ops \cup {NoOp}, FetchAdd(c, k, o) PROVE Idle
  BY <1>1, <1>2 DEF FetchAdd
<1>3. ASSUME NEW c \in Callers, LoadScope(c) \/ StoreScope(c) \/ TouchScope(c) \/ RetryRegister(c)
                                \/ LoadEntry(c) \/ OncePass(c)
      PROVE  Idle
  BY <1>1, <1>3 DEF LoadScope, StoreScope, TouchScope, RetryRegister, LoadEntry, Register, OncePass
<1>4. ASSUME NEW c \in Callers, CreateEntry(c) PROVE Idle
  <2>1. nextEntry \in EntryIds /\ once[nextEntry] = "new"
    BY <1>4 DEF CreateEntry, EntryTypes, EntryIds, EntryAddresses
  <2>2. Issued' = Issued
    BY <1>4, <2>1, NothingDrawn DEF CreateEntry, Register, EntryTypes
  <2>3. QED
    BY <1>4, <2>2 DEF CreateEntry, Register, Expired, Live
<1>5. ASSUME NEW c \in Callers, OnceEnter(c) PROVE Idle
  <2>1. entry[c] \in EntryIds /\ once[entry[c]] = "new"
    BY <1>5 DEF OnceEnter, OnceIsNew, Step, LocalsOK
  <2>2. Issued' = Issued
    BY <1>5, <2>1, NothingDrawn DEF OnceEnter, EntryTypes
  <2>3. QED
    BY <1>5, <2>2 DEF OnceEnter, Expired, Live
<1>6. ASSUME NEW c \in Callers, CounterFor(c)
      PROVE  Idle \/ \E k \in Keys : Contract!Seed(k)
  <2>1. key[c] \in Keys /\ UNCHANGED <<returned, Issued, Expired>>
    BY <1>6, NothingDrawn DEF CounterFor, Step, LocalsOK, Expired, Live
  <2>2. CASE UNCHANGED counters
    BY <2>1, <2>2
  <2>3. CASE counters[key[c]] = None /\ \E v \in Seeds : counters' = [counters EXCEPT ![key[c]] = v]
    BY <2>1, <2>3 DEF Contract!Seed, Expired
  <2>4. QED
    BY <1>6, <2>2, <2>3 DEF CounterFor, SeededCounter
<1>7. ASSUME NEW c \in Callers, AdvanceOnce(c)
      PROVE  \E k \in Keys, o \in Ops : Contract!Draw(k, o)
  <2> DEFINE k == key[c]
             o == op[c]
             e == entry[c]
  <2>1. /\ k \in Keys /\ o \in Ops /\ e \in EntryIds
        /\ counters[k] # None /\ once[e] = "running" /\ keyOf[e] = k /\ opOf[e] = o
    BY <1>7 DEF AdvanceOnce, Step, LocalsOK, OnceProtocol, EntryAddresses
  <2>2. /\ counters' = [counters EXCEPT ![k] = Add(@)]
        /\ previous' = [previous EXCEPT ![e] = counters[k]]
        /\ once' = [once EXCEPT ![e] = "done"]
        /\ UNCHANGED <<keyOf, opOf, returned, dropPc, swept>>
    BY <1>7 DEF AdvanceOnce
  <2> HIDE DEF k, o, e
  <2>3. UNCHANGED Expired
    BY <2>2 DEF Expired, Live
  <2>4. o \in Expired \/ Issued[k][o] = {}
    <3> SUFFICES ASSUME o \notin Expired PROVE DoneFor(k, o) = {}
      BY <2>1, IssuedValues
    <3>1. \A f \in EntryIds : keyOf[f] = k /\ opOf[f] = o => f = e
      BY <2>1, StoreAssumption DEF Expired, LiveEntryCached
    <3>2. QED
      BY <2>1, <3>1 DEF DoneFor
  <2>5. \A a \in Keys, b \in Ops :
          Issued'[a][b] = IF a = k /\ b = o THEN Issued[a][b] \cup {counters[k]} ELSE Issued[a][b]
    <3> SUFFICES ASSUME NEW a \in Keys, NEW b \in Ops
                 PROVE Issued'[a][b] = IF a = k /\ b = o THEN Issued[a][b] \cup {counters[k]}
                                                         ELSE Issued[a][b]
      OBVIOUS
    <3>1. Issued'[a][b] = {previous'[f] : f \in DoneFor(a, b)'}
      BY DEF Issued, DoneFor
    <3>2. Issued[a][b] = {previous[f] : f \in DoneFor(a, b)}
      BY IssuedValues
    <3>3. /\ previous'[e] = counters[k] /\ once'[e] = "done"
          /\ \A f \in EntryIds \ {e} : previous'[f] = previous[f] /\ once'[f] = once[f]
      BY <2>1, <2>2 DEF EntryTypes
    <3>4. DoneFor(a, b) \subseteq EntryIds \ {e}
      BY <2>1 DEF DoneFor
    <3>5. CASE a = k /\ b = o
      <4>1. DoneFor(a, b)' = DoneFor(a, b) \cup {e}
        BY <2>1, <2>2, <3>3, <3>5 DEF DoneFor
      <4>2. QED
        BY <3>1, <3>2, <3>3, <3>4, <3>5, <4>1
    <3>6. CASE ~ (a = k /\ b = o)
      <4>1. DoneFor(a, b)' = DoneFor(a, b)
        BY <2>1, <2>2, <3>3, <3>6 DEF DoneFor
      <4>2. QED
        BY <3>1, <3>2, <3>3, <3>4, <3>6, <4>1
    <3>7. QED
      BY <3>5, <3>6
  <2>6. Issued' = [Issued EXCEPT ![k][o] = @ \cup {counters[k]}]
    <3>1. Issued = [a \in Keys |-> [b \in Ops |-> Issued[a][b]]]
      BY DEF Issued
    <3>2. Issued' = [a \in Keys |-> [b \in Ops |-> Issued'[a][b]]]
      BY DEF Issued
    <3> DEFINE J == [Issued EXCEPT ![k][o] = @ \cup {counters[k]}]
    <3>3. J = [a \in Keys |-> [b \in Ops |-> J[a][b]]]
      BY <2>1, <3>1
    <3>4. \A a \in Keys, b \in Ops : Issued'[a][b] = J[a][b]
      <4>1. J[k][o] = Issued[k][o] \cup {counters[k]}
        BY <2>1 DEF Issued
      <4>2. \A a \in Keys, b \in Ops : a # k \/ b # o => J[a][b] = Issued[a][b]
        BY <2>1 DEF Issued
      <4>3. QED
        BY <2>5, <4>1, <4>2, ZenonT(40)
    <3> HIDE DEF J
    <3>5. [a \in Keys |-> [b \in Ops |-> Issued'[a][b]]] = [a \in Keys |-> [b \in Ops |-> J[a][b]]]
      BY <3>4
    <3>6. Issued' = J
      BY <3>2, <3>3, <3>5
    <3>7. QED
      BY <3>6 DEF J
  <2>7. Contract!Draw(k, o)
    BY <2>1, <2>2, <2>3, <2>4, <2>6 DEF Contract!Draw, Expired, Add
  <2>8. QED
    BY <2>1, <2>7
<1>8. ASSUME NEW c \in Callers, AdvancePlain(c) PROVE \E k \in Keys : Contract!DrawPlain(k)
  <2>1. /\ key[c] \in Keys /\ counters[key[c]] # None /\ UNCHANGED <<returned, Issued, Expired>>
        /\ counters' = [counters EXCEPT ![key[c]] = Add(@)]
    BY <1>8, NothingDrawn DEF AdvancePlain, Finish, Step, LocalsOK, Expired, Live
  <2>2. Contract!DrawPlain(key[c])
    BY <2>1 DEF Contract!DrawPlain, Add, Expired
  <2>3. QED
    BY <2>1, <2>2
<1>9. ASSUME NEW c \in Callers, Return(c) PROVE \E k \in Keys, o \in Ops : Contract!Answer(k, o)
  <2> DEFINE v == previous[entry[c]]
  <2>1. /\ key[c] \in Keys /\ op[c] \in Ops /\ entry[c] \in DoneFor(key[c], op[c])
        /\ UNCHANGED <<counters, Issued, Expired>>
        /\ returned' = [returned EXCEPT ![key[c]][op[c]] = @ \cup {v}]
    BY <1>9, NothingDrawn
       DEF Return, Finish, Step, LocalsOK, Expired, Live, DoneFor, OnceProtocol, EntryAddresses
  <2>2. v \in Issued[key[c]][op[c]]
    BY <2>1, IssuedValues
  <2>3. Contract!Answer(key[c], op[c])
    BY <2>1, <2>2 DEF Contract!Answer, Expired
  <2>4. QED
    BY <2>1, <2>3
<1>10. ASSUME NEW o \in Ops, DropLoadAndDelete(o) PROVE Contract!Expire(o)
  <2>1. UNCHANGED <<counters, returned, Issued>> /\ swept' = swept
    BY <1>10, NothingDrawn DEF DropLoadAndDelete
  <2>2. \A p \in Ops : Live(p)' <=> Live(p) /\ p # o
    BY <1>10, <2>1 DEF DropLoadAndDelete, Live, CleanupTypes
  <2>3. Expired' = Expired \cup {o}
    BY <2>2 DEF Expired
  <2>4. QED
    BY <2>1, <2>3 DEF Contract!Expire, Expired
<1>11. ASSUME NEW o \in Ops, DropStep(o) PROVE Idle
  <2>1. UNCHANGED <<counters, returned, Issued, swept>>
    BY <1>11, NothingDrawn DEF DropStep, DropLock, DropUnlock, DropKey
  <2>2. \A p \in Ops : Live(p)' <=> Live(p)
    BY <1>11, <2>1 DEF DropStep, DropLock, DropUnlock, DropKey, Live, CleanupTypes
  <2>3. QED
    BY <2>1, <2>2 DEF Expired
<1>12. ASSUME SweepCondemn PROVE Contract!Expire(sweepOp) /\ sweepOp \in Ops
  <2>1. UNCHANGED <<counters, returned, Issued, dropPc>> /\ sweepOp \in Ops /\ swept' = swept \cup {sweepOp}
    BY <1>12, NothingDrawn DEF SweepCondemn, LocalsOK
  <2>2. \A p \in Ops : Live(p)' <=> Live(p) /\ p # sweepOp
    BY <2>1 DEF Live
  <2>3. Expired' = Expired \cup {sweepOp}
    BY <2>1, <2>2 DEF Expired
  <2>4. QED
    BY <2>1, <2>3 DEF Contract!Expire, Expired
<1>13. ASSUME SweepTick \/ (SweepStep /\ ~ SweepCondemn) \/ SweepExit \/ Close \/ Tick PROVE Idle
  BY <1>1, <1>13 DEF SweepTick, SweepStep, SweepSkip, SweepCapture, SweepSpare, SweepDeleteScope,
     SweepUnlock, SweepPassDone, SweepKey, SweepExit, Close, Tick
<1>14. ASSUME UNCHANGED vars PROVE Idle
  BY <1>1, <1>14 DEF vars
<1> HIDE DEF Idle
<1>15. QED
  BY <1>0, <1>2, <1>3, <1>4, <1>5, <1>6, <1>7, <1>8, <1>9, <1>10, <1>11, <1>12, <1>13, <1>14
     DEF Next, CallStep, Contract!AbsNext

\* The scopes, entries, once and sweeper of sharedstate.go together implement the
\* contract at its head: an operation draws at most one value from a counter until
\* it expires, and every answer is a value its operation drew.
THEOREM StoreImplementsContract == Spec => ImplementsContract
BY StoreInvariant, ContractInit, ContractStep, PTL DEF Spec, ImplementsContract, Contract!AbsSpec

----------------------------------------------------------------------------
(* Entries and their scopes, without a sweeper *)

\* DropScope of operation o has taken its scope out of the map and is not done.
Dropping(o) == dropPc[o] \in {"lock", "deleting"}

\* Operation o's scope is in the map, or DropScope has it in its hands.
ScopeOf(o, s) == scopes[o] = s \/ (Dropping(o) /\ dropSc[o] = s)

\* Two operations never share a scope object, and no scope is older than its number.
ScopesApart ==
    /\ \A o \in Ops, s \in ScopeIds : ScopeOf(o, s) => s < nextScope
    /\ \A o, p \in Ops, s \in ScopeIds : ScopeOf(o, s) /\ ScopeOf(p, s) => o = p

\* A caller about to register holds its operation's current scope, or one that
\* DropScope will still walk, or one whose deleted flag sends it back.
RegisterSafe ==
    \A c \in Callers : pc[c] \in {"touch", "register"} =>
        \/ scopes[op[c]] = sc[c]
        \/ dropPc[op[c]] = "lock" /\ dropSc[op[c]] = sc[c]
        \/ deleted[sc[c]]

\* A cached entry's key is registered with a scope of its operation.
EntriesOwned ==
    \A k \in Keys, o \in Ops : idem[k][o] # None =>
        \E s \in ScopeIds : ScopeOf(o, s) /\ k \in keys[s]

\* Without a TTL there is no sweeper.
NoSweeper == sweepPc = "exited"

\* What holds together while entries come and go without a sweeper.
DropInv == NoSweeper /\ ScopesApart /\ RegisterSafe /\ EntriesOwned

\* The constructor starts no sweeper when the TTL is zero, and nothing is cached.
LEMMA DropStarts == ASSUME TTL = 0 PROVE Init => DropInv
<1> SUFFICES ASSUME Init PROVE DropInv
  OBVIOUS
<1>1. NoSweeper /\ RegisterSafe /\ EntriesOwned
  BY DEF Init, NoSweeper, RegisterSafe, EntriesOwned
<1>2. \A o \in Ops, s \in ScopeIds : ~ ScopeOf(o, s)
  BY StoreAssumption DEF Init, ScopeOf, Dropping, ScopeIds
<1>3. QED
  BY <1>1, <1>2 DEF DropInv, ScopesApart

\* No caller and no DropScope breaks the ownership of entries.
LEMMA DropKept == TypeInv /\ DropInv /\ [Next]_vars => DropInv'
<1> SUFFICES ASSUME TypeInv, DropInv, [Next]_vars PROVE DropInv'
  OBVIOUS
<1> USE StoreAssumption
    DEF TypeInv, TypeOK, DropInv, entryVars, scopeVars, timeVars, callVars, dropVars, sweepVars, history
<1>1. ASSUME UNCHANGED <<scopes, dropPc, dropSc, nextScope>> PROVE ScopesApart'
  BY <1>1 DEF ScopesApart, ScopeOf, Dropping
<1>2. ASSUME UNCHANGED <<scopes, dropPc, dropSc, idem, keys>> PROVE EntriesOwned'
  BY <1>2 DEF EntriesOwned, ScopeOf, Dropping
<1>3. ASSUME UNCHANGED <<scopes, dropPc, dropSc, deleted>>,
             \A c \in Callers : pc'[c] \in {"touch", "register"} =>
                pc[c] \in {"touch", "register"} /\ sc'[c] = sc[c] /\ op'[c] = op[c]
      PROVE  RegisterSafe'
  BY <1>3 DEF RegisterSafe
<1>4. ASSUME NEW c \in Callers, NEW k \in Keys, NEW o \in Ops \cup {NoOp}, FetchAdd(c, k, o) PROVE DropInv'
  <2>1. RegisterSafe'
    BY <1>3, <1>4 DEF FetchAdd, Step, CallTypes
  <2>2. QED
    BY <1>1, <1>2, <1>4, <2>1 DEF FetchAdd, NoSweeper
<1>5. ASSUME NEW c \in Callers, LoadScope(c) PROVE DropInv'
  <2>1. RegisterSafe'
    BY <1>5 DEF LoadScope, Step, CallTypes, RegisterSafe
  <2>2. QED
    BY <1>1, <1>2, <1>5, <2>1 DEF LoadScope, NoSweeper
<1>6. ASSUME NEW c \in Callers, StoreScope(c) PROVE DropInv'
  <2>1. /\ op[c] \in Ops /\ nextScope \in ScopeIds /\ scopes[op[c]] = None
        /\ scopes' = [scopes EXCEPT ![op[c]] = nextScope] /\ nextScope' = nextScope + 1
        /\ nextScope \in Nat
        /\ UNCHANGED <<dropPc, dropSc, idem, keys, deleted, op>>
    <3>1. op[c] \in Ops
      BY <1>6 DEF StoreScope, Step, LocalsOK
    <3>2. nextScope \in ScopeIds /\ nextScope \in Nat
      BY <1>6 DEF StoreScope, ScopeTypes, ScopeIds
    <3>3. QED
      BY <1>6, <3>1, <3>2 DEF StoreScope
  <2>2. \A o \in Ops, s \in ScopeIds : ScopeOf(o, s)' <=> ScopeOf(o, s) \/ (o = op[c] /\ s = nextScope)
    BY <2>1 DEF ScopeOf, Dropping, ScopeTypes, ScopeIds
  <2>3. ScopesApart'
    <3>1. \A s \in ScopeIds : s \in Nat
      BY DEF ScopeIds
    <3>2. \A o \in Ops : ~ ScopeOf(o, nextScope)
      BY <2>1 DEF ScopesApart
    <3>3. QED
      BY <2>1, <2>2, <3>1, <3>2 DEF ScopesApart
  <2>4. EntriesOwned'
    BY <2>1, <2>2 DEF EntriesOwned
  <2>5. RegisterSafe'
    <3>1. \A d \in Callers \ {c} : pc'[d] = pc[d] /\ sc'[d] = sc[d]
      BY <1>6 DEF StoreScope, Step, CallTypes
    <3>2. sc'[c] = nextScope
      BY <1>6 DEF StoreScope, CallTypes
    <3>3. \A d \in Callers : pc[d] \in {"touch", "register"} => sc[d] \in ScopeIds /\ op[d] \in Ops
      BY DEF LocalsOK
    <3>4. None \notin ScopeIds
      BY DEF ScopeIds
    <3>5. QED
      BY <2>1, <3>1, <3>2, <3>3, <3>4 DEF RegisterSafe, ScopeTypes
  <2>6. QED
    BY <1>6, <2>3, <2>4, <2>5 DEF StoreScope, NoSweeper
<1>7. ASSUME NEW c \in Callers, TouchScope(c) PROVE DropInv'
  <2>1. RegisterSafe'
    BY <1>3, <1>7 DEF TouchScope, Step, CallTypes
  <2>2. QED
    BY <1>1, <1>2, <1>7, <2>1 DEF TouchScope, NoSweeper
<1>8. ASSUME NEW c \in Callers, RetryRegister(c) PROVE DropInv'
  <2>1. RegisterSafe'
    BY <1>3, <1>8 DEF RetryRegister, Step, CallTypes
  <2>2. QED
    BY <1>1, <1>2, <1>8, <2>1 DEF RetryRegister, NoSweeper
<1>9. ASSUME NEW c \in Callers, LoadEntry(c) \/ CreateEntry(c) PROVE DropInv'
  <2>1. /\ pc[c] = "register" /\ pc' = [pc EXCEPT ![c] = "once"]
        /\ sc[c] \in ScopeIds /\ key[c] \in Keys /\ op[c] \in Ops /\ ~ deleted[sc[c]]
        /\ keys' = [keys EXCEPT ![sc[c]] = @ \cup {key[c]}]
        /\ sc' = [sc EXCEPT ![c] = None]
        /\ UNCHANGED <<scopes, deleted, nextScope, dropPc, dropSc, op, sweepPc>>
    BY <1>9 DEF LoadEntry, CreateEntry, Register, Step, IsDeleted, LocalsOK
  <2>2. RegisterSafe'
    BY <1>3, <2>1 DEF CallTypes
  <2>3. ScopeOf(op[c], sc[c])
    BY <2>1 DEF RegisterSafe, ScopeOf, Dropping
  <2>4. /\ key[c] \in keys'[sc[c]]
        /\ \A s \in ScopeIds : keys[s] \subseteq keys'[s]
    BY <2>1 DEF ScopeTypes
  <2>5. \A o \in Ops : \A s : ScopeOf(o, s)' <=> ScopeOf(o, s)
    BY <2>1 DEF ScopeOf, Dropping
  <2>6. \A k \in Keys, o \in Ops : idem'[k][o] # None => idem[k][o] # None \/ (k = key[c] /\ o = op[c])
    BY <1>9, <2>1 DEF LoadEntry, CreateEntry, EntryTypes
  <2>7. EntriesOwned'
    BY <2>1, <2>3, <2>4, <2>5, <2>6 DEF EntriesOwned
  <2>8. QED
    BY <1>1, <2>1, <2>2, <2>7 DEF NoSweeper
<1>10. ASSUME NEW c \in Callers, OnceEnter(c) \/ OncePass(c) \/ CounterFor(c) \/ AdvanceOnce(c)
              \/ AdvancePlain(c) \/ Return(c)
       PROVE  DropInv'
  <2>1. /\ UNCHANGED <<scopes, deleted, keys, nextScope, dropPc, dropSc, sc, idem, sweepPc>>
        /\ \A d \in Callers : pc'[d] \in {"touch", "register"} => pc'[d] = pc[d] /\ op'[d] = op[d]
    BY <1>10 DEF OnceEnter, OncePass, CounterFor, AdvanceOnce, AdvancePlain, Return, Finish, Step, CallTypes
  <2>2. QED
    BY <1>1, <1>2, <1>3, <2>1 DEF NoSweeper
<1>11. ASSUME NEW o \in Ops, DropLoadAndDelete(o) PROVE DropInv'
  <2>1. /\ dropPc[o] = "before"
        /\ dropPc'[o] = IF scopes[o] = None THEN "done" ELSE "lock"
        /\ dropSc'[o] = scopes[o] /\ scopes'[o] = None
        /\ \A p \in Ops \ {o} : dropPc'[p] = dropPc[p] /\ dropSc'[p] = dropSc[p] /\ scopes'[p] = scopes[p]
        /\ UNCHANGED <<nextScope, keys, idem, deleted, pc, sc, op, sweepPc>>
        /\ None \notin ScopeIds
    BY <1>11 DEF DropLoadAndDelete, CleanupTypes, ScopeTypes, ScopeIds
  <2>2. \A p \in Ops, s \in ScopeIds : ScopeOf(p, s)' <=> ScopeOf(p, s)
    BY <2>1 DEF ScopeOf, Dropping
  <2>3. \A c \in Callers : pc[c] \in {"touch", "register"} => sc[c] \in ScopeIds /\ op[c] \in Ops
    BY DEF LocalsOK
  <2>4. RegisterSafe'
    BY <2>1, <2>3 DEF RegisterSafe
  <2>5. ScopesApart' /\ EntriesOwned'
    BY <2>1, <2>2 DEF ScopesApart, EntriesOwned
  <2>6. QED
    BY <2>1, <2>4, <2>5 DEF NoSweeper
<1>12. ASSUME NEW o \in Ops, DropLock(o) PROVE DropInv'
  <2>1. /\ dropPc[o] = "lock" /\ dropPc'[o] = "deleting" /\ dropSc[o] \in ScopeIds
        /\ \A p \in Ops \ {o} : dropPc'[p] = dropPc[p]
        /\ deleted' = [deleted EXCEPT ![dropSc[o]] = TRUE]
        /\ UNCHANGED <<scopes, dropSc, nextScope, keys, idem, pc, sc, op, sweepPc>>
    BY <1>12 DEF DropLock, CleanupTypes, LocalsOK
  <2>2. \A p \in Ops, s \in ScopeIds : ScopeOf(p, s)' <=> ScopeOf(p, s)
    BY <2>1 DEF ScopeOf, Dropping
  <2>3. \A c \in Callers : pc[c] \in {"touch", "register"} => sc[c] \in ScopeIds /\ op[c] \in Ops
    BY DEF LocalsOK
  <2>4. RegisterSafe'
    <3>1. deleted'[dropSc[o]] /\ \A s \in ScopeIds : deleted[s] => deleted'[s]
      BY <2>1 DEF ScopeTypes
    <3>2. QED
      BY <2>1, <2>3, <3>1 DEF RegisterSafe
  <2>5. ScopesApart' /\ EntriesOwned'
    BY <2>1, <2>2 DEF ScopesApart, EntriesOwned
  <2>6. QED
    BY <2>1, <2>4, <2>5 DEF NoSweeper
<1>13. ASSUME NEW o \in Ops, NEW k \in Keys, DropKey(o, k) PROVE DropInv'
  <2>1. /\ dropPc[o] = "deleting" /\ dropSc[o] \in ScopeIds
        /\ idem' = [idem EXCEPT ![k][o] = None]
        /\ keys' = [keys EXCEPT ![dropSc[o]] = @ \ {k}]
        /\ UNCHANGED <<scopes, dropPc, dropSc, nextScope, deleted, pc, sc, op, sweepPc>>
    BY <1>13 DEF DropKey, LocalsOK
  <2>2. \A p \in Ops : \A s : ScopeOf(p, s)' <=> ScopeOf(p, s)
    BY <2>1 DEF ScopeOf, Dropping
  <2>3. ScopeOf(o, dropSc[o])
    BY <2>1 DEF ScopeOf, Dropping
  <2>4. \A a \in Keys, p \in Ops : idem'[a][p] # None => idem[a][p] # None /\ (a # k \/ p # o)
    BY <2>1 DEF EntryTypes
  <2>5. \A a \in Keys, s \in ScopeIds : a \in keys[s] /\ (a # k \/ s # dropSc[o]) => a \in keys'[s]
    BY <2>1 DEF ScopeTypes
  <2>6. EntriesOwned'
    <3> SUFFICES ASSUME NEW a \in Keys, NEW p \in Ops, idem'[a][p] # None
                 PROVE  \E s \in ScopeIds : ScopeOf(p, s)' /\ a \in keys'[s]
      BY DEF EntriesOwned
    <3>1. PICK s \in ScopeIds : ScopeOf(p, s) /\ a \in keys[s]
      BY <2>4 DEF EntriesOwned
    <3>2. a # k \/ s # dropSc[o]
      BY <2>1, <2>3, <2>4, <3>1 DEF ScopesApart
    <3>3. QED
      BY <2>2, <2>5, <3>1, <3>2
  <2>7. QED
    BY <1>1, <1>3, <2>1, <2>6 DEF NoSweeper
<1>14. ASSUME NEW o \in Ops, DropUnlock(o) PROVE DropInv'
  <2>1. /\ dropPc[o] = "deleting" /\ dropPc'[o] = "done" /\ dropSc[o] \in ScopeIds /\ dropSc'[o] = None
        /\ keys[dropSc[o]] = {}
        /\ \A p \in Ops \ {o} : dropPc'[p] = dropPc[p] /\ dropSc'[p] = dropSc[p]
        /\ UNCHANGED <<scopes, nextScope, keys, idem, deleted, pc, sc, op, sweepPc>>
        /\ None \notin ScopeIds
    BY <1>14 DEF DropUnlock, CleanupTypes, LocalsOK, ScopeIds
  <2>2. \A p \in Ops, s \in ScopeIds :
          /\ ScopeOf(p, s)' => ScopeOf(p, s)
          /\ ScopeOf(p, s) => ScopeOf(p, s)' \/ keys[s] = {}
    BY <2>1 DEF ScopeOf, Dropping
  <2>3. ScopesApart'
    BY <2>1, <2>2 DEF ScopesApart
  <2>4. EntriesOwned'
    BY <2>1, <2>2 DEF EntriesOwned
  <2>5. RegisterSafe'
    <3>1. \A c \in Callers : pc[c] \in {"touch", "register"} => op[c] \in Ops
      BY DEF LocalsOK
    <3>2. QED
      BY <2>1, <3>1 DEF RegisterSafe
  <2>6. QED
    BY <2>1, <2>3, <2>4, <2>5 DEF NoSweeper
<1>15. ASSUME SweepTick \/ SweepStep \/ SweepExit PROVE FALSE
  BY <1>15 DEF NoSweeper, SweepTick, SweepStep, SweepSkip, SweepCapture, SweepSpare, SweepCondemn,
     SweepDeleteScope, SweepUnlock, SweepPassDone, SweepKey, SweepExit
<1>16. ASSUME Close \/ Tick PROVE DropInv'
  BY <1>1, <1>2, <1>3, <1>16 DEF Close, Tick, NoSweeper
<1>17. ASSUME UNCHANGED vars PROVE DropInv'
  BY <1>1, <1>2, <1>3, <1>17 DEF vars, NoSweeper
<1> HIDE DEF DropInv
<1>18. QED
  BY <1>4, <1>5, <1>6, <1>7, <1>8, <1>9, <1>10, <1>11, <1>12, <1>13, <1>14, <1>15, <1>16, <1>17
     DEF Next, CallStep, DropStep

\* With the sweeper disabled, DropScope alone keeps the invariant stated at
\* sharedstate.go:261-262: when nothing is half done, every cached entry has a scope
\* in the map, late and concurrent registrations included.  (With a sweeper it is
\* false: the run SharedStateOrphan shows how.)
THEOREM DropReclaims == ASSUME TTL = 0 PROVE Spec => []IdemImpliesScope
<1>1. TypeInv /\ DropInv => IdemImpliesScope
  <2> SUFFICES ASSUME TypeInv, DropInv, AtRest, NEW k \in Keys, NEW o \in Ops, idem[k][o] # None
               PROVE  scopes[o] # None
    BY DEF IdemImpliesScope
  <2>1. PICK s \in ScopeIds : ScopeOf(o, s)
    BY DEF DropInv, EntriesOwned
  <2>2. ~ Dropping(o)
    BY DEF AtRest, Dropping
  <2>3. QED
    BY <2>1, <2>2, StoreAssumption DEF ScopeOf, ScopeIds
<1>2. QED
  BY <1>1, DropStarts, DropKept, StoreInvariant, PTL DEF Spec

----------------------------------------------------------------------------
(* Slots of the rotation *)

\* The advances made so far: the finished entries and the plain calls.
Finished == {e \in EntryIds : once[e] = "done"}

\* Callers on their way to an advance without an operation id.
InPlain == {c \in Callers : pc[c] \in {"plainCounter", "plainAdd"}}

\* No counter has been advanced more often than this.
Total == Cardinality(Finished) + plain

\* How far a counter at x has moved on since it stood at p.
Behind(x, p) == IF x >= p THEN x - p ELSE x - p + Modulus

\* FetchAdd admits a plain call while fewer than MaxPlain are counted; those in
\* flight come on top.
PlainBounded == plain + Cardinality(InPlain) <= MaxPlain + Cardinality(Callers)

\* A finished entry's counter moved on from its value, and not all the way round.
Aged ==
    \A e \in Finished : /\ keyOf[e] \in Keys /\ counters[keyOf[e]] # None
                        /\ Behind(counters[keyOf[e]], previous[e]) \in 1..Total

\* What holds together while slots are handed out.
SlotInv == PlainBounded /\ Aged /\ NoSlotReuse

\* What the instance grants: unit steps, and fewer calls than the word has values.
SlotBound ==
    /\ Delta = 1 /\ IsFiniteSet(Callers)
    /\ MaxEntries + MaxPlain + Cardinality(Callers) < Modulus

\* Adding one in the word.
LEMMA AddOne ==
  ASSUME Delta = 1, NEW v \in Word
  PROVE  Add(v) = IF v = Modulus - 1 THEN 0 ELSE v + 1
<1>1. CASE v = Modulus - 1
  <2>1. v + Delta = Modulus
    BY <1>1, StoreAssumption DEF Word
  <2>2. Modulus % Modulus = 0
    BY StoreAssumption
  <2>3. QED
    BY <1>1, <2>1, <2>2 DEF Add
<1>2. CASE v # Modulus - 1
  <2>1. v + 1 \in 0..(Modulus - 1)
    BY <1>2, StoreAssumption DEF Word
  <2>2. (v + 1) % Modulus = v + 1
    BY <2>1, StoreAssumption
  <2>3. QED
    BY <1>2, <2>2 DEF Add
<1>3. QED
  BY <1>1, <1>2

\* The finished entries and the callers without an operation id can be counted.
LEMMA CountsAreNat ==
  ASSUME SlotBound, NEW F \in SUBSET EntryIds, NEW P \in SUBSET Callers
  PROVE  /\ IsFiniteSet(F) /\ Cardinality(F) \in Nat /\ Cardinality(F) <= MaxEntries
         /\ IsFiniteSet(P) /\ Cardinality(P) \in Nat /\ Cardinality(P) <= Cardinality(Callers)
         /\ Cardinality(Callers) \in Nat
<1>1. IsFiniteSet(EntryIds) /\ Cardinality(EntryIds) = MaxEntries
  BY FS_Interval, StoreAssumption DEF EntryIds
<1>2. QED
  BY <1>1, FS_Subset, FS_CardinalityType, StoreAssumption DEF SlotBound

\* The number of advances stays below the width of the word.
LEMMA TotalBound ==
  ASSUME SlotBound, NEW F \in SUBSET EntryIds, NEW P \in SUBSET Callers, NEW n \in Nat,
         n + Cardinality(P) <= MaxPlain + Cardinality(Callers)
  PROVE  Cardinality(F) + n \in Nat /\ Cardinality(F) + n < Modulus
BY CountsAreNat, StoreAssumption DEF SlotBound

\* One advance of counter k ages every earlier draw by one, as long as the word
\* is not exhausted.
LEMMA AgeGrows ==
  ASSUME Delta = 1, NEW x \in Word, NEW p \in Word, NEW n \in Nat, n < Modulus - 1,
         Behind(x, p) \in 1..n
  PROVE  /\ x # p
         /\ Behind(Add(x), p) \in 1..(n + 1)
BY AddOne, StoreAssumption DEF Word, Behind

\* A value just drawn is one step behind its counter.
LEMMA AgeStarts ==
  ASSUME Delta = 1, NEW x \in Word, Modulus > 1
  PROVE  Behind(Add(x), x) = 1
BY AddOne, StoreAssumption DEF Word, Behind

\* At the start nothing was drawn.
LEMMA SlotStarts == ASSUME SlotBound PROVE Init => SlotInv
<1> SUFFICES ASSUME Init PROVE SlotInv
  OBVIOUS
<1>1. Finished = {} /\ InPlain = {} /\ plain = 0
  BY DEF Init, Finished, InPlain
<1>2. PlainBounded
  BY <1>1, FS_EmptySet, FS_CardinalityType, StoreAssumption DEF PlainBounded, SlotBound
<1>3. QED
  BY <1>1, <1>2 DEF SlotInv, Aged, NoSlotReuse, Finished

\* Every step keeps the ages of the finished entries apart and within the bound.
LEMMA SlotKept == ASSUME SlotBound PROVE TypeInv /\ CacheInv /\ SlotInv /\ [Next]_vars => SlotInv'
<1> SUFFICES ASSUME TypeInv, CacheInv, SlotInv, [Next]_vars PROVE SlotInv'
  OBVIOUS
<1>0. /\ Finished \in SUBSET EntryIds /\ Finished' \in SUBSET EntryIds
      /\ InPlain \in SUBSET Callers /\ InPlain' \in SUBSET Callers
  BY DEF Finished, InPlain
<1>t. /\ Total \in Nat /\ Total < Modulus /\ Cardinality(Finished) \in Nat
      /\ IsFiniteSet(Finished) /\ IsFiniteSet(InPlain) /\ Cardinality(InPlain) \in Nat
      /\ plain \in Nat /\ Cardinality(Callers) \in Nat
  <2>1. plain \in Nat
    BY DEF TypeInv, TypeOK, HistoryTypes
  <2> HIDE DEF Finished, InPlain
  <2>2. QED
    BY <1>0, <2>1, TotalBound, CountsAreNat DEF SlotInv, Total, PlainBounded
<1>v. ASSUME PlainBounded', plain' \in Nat PROVE Total' < Modulus
  BY <1>0, <1>v, TotalBound DEF Total, PlainBounded
<1>u. /\ counters \in [Keys -> Word \cup {None}] /\ previous \in [EntryIds -> Word]
      /\ once \in [EntryIds -> {"new", "running", "done"}] /\ keyOf \in [EntryIds -> Keys \cup {None}]
      /\ pc \in [Callers -> CallLabels] /\ Finished \subseteq EntryIds
      /\ None \notin Word
  BY WordFacts DEF TypeInv, TypeOK, EntryTypes, CallTypes, Finished
<1> USE DEF entryVars, scopeVars, timeVars, callVars, dropVars, sweepVars, history
<1>1. ASSUME UNCHANGED <<once, previous, plain>>,
             \A e \in Finished : keyOf'[e] = keyOf[e],
             \A k \in Keys : counters[k] # None => counters'[k] = counters[k],
             InPlain' = InPlain
      PROVE  SlotInv'
  <2>1. Finished' = Finished /\ Total' = Total
    BY <1>1 DEF Finished, Total
  <2>2. PlainBounded'
    BY <1>1 DEF PlainBounded, SlotInv
  <2>3. Aged'
    BY <1>1, <2>1 DEF Aged, SlotInv
  <2>4. NoSlotReuse'
    BY <1>1, <2>1 DEF NoSlotReuse, SlotInv, Finished
  <2>5. QED
    BY <2>2, <2>3, <2>4 DEF SlotInv
<1>2. ASSUME NEW c \in Callers, NEW k \in Keys, NEW o \in Ops \cup {NoOp}, FetchAdd(c, k, o) PROVE SlotInv'
  <2>1. CASE o # NoOp
    <3>1. InPlain' = InPlain
      BY <1>2, <1>u, <2>1 DEF FetchAdd, Step, InPlain
    <3>2. QED
      BY <1>1, <1>2, <3>1 DEF FetchAdd
  <2>2. CASE o = NoOp
    <3>1. plain < MaxPlain /\ UNCHANGED <<once, previous, keyOf, counters, plain>>
      BY <1>2, <2>2 DEF FetchAdd
    <3>2. InPlain' \in SUBSET Callers
      BY DEF InPlain
    <3>3. Cardinality(InPlain') \in Nat /\ Cardinality(InPlain') <= Cardinality(Callers)
      BY <3>2, CountsAreNat
    <3>4. PlainBounded'
      BY <1>t, <3>1, <3>3, StoreAssumption DEF PlainBounded
    <3>5. Finished' = Finished /\ Total' = Total
      BY <3>1 DEF Finished, Total
    <3>6. Aged' /\ NoSlotReuse'
      BY <3>1, <3>5 DEF Aged, NoSlotReuse, SlotInv
    <3>7. QED
      BY <3>4, <3>6 DEF SlotInv
  <2>3. QED
    BY <2>1, <2>2
<1>3. ASSUME NEW c \in Callers, LoadScope(c) \/ StoreScope(c) \/ TouchScope(c) \/ RetryRegister(c)
                                \/ LoadEntry(c) \/ OncePass(c)
      PROVE  SlotInv'
  <2>1. UNCHANGED <<once, previous, keyOf, counters, plain>>
    BY <1>3 DEF LoadScope, StoreScope, TouchScope, RetryRegister, LoadEntry, Register, OncePass
  <2>2. InPlain' = InPlain
    BY <1>3, <1>u DEF LoadScope, StoreScope, TouchScope, RetryRegister, LoadEntry, Register, OncePass,
       Step, InPlain
  <2>3. QED
    BY <1>1, <2>1, <2>2
<1>4. ASSUME NEW c \in Callers, CreateEntry(c) PROVE SlotInv'
  <2>1. UNCHANGED <<once, previous, counters, plain>>
    BY <1>4 DEF CreateEntry, Register
  <2>2. InPlain' = InPlain
    BY <1>4, <1>u DEF CreateEntry, Register, Step, InPlain
  <2>3. nextEntry \notin Finished
    BY DEF TypeInv, TypeOK, CacheInv, EntryAddresses, EntryTypes, Finished
  <2>4. \A e \in Finished : keyOf'[e] = keyOf[e]
    BY <1>4, <1>u, <2>3 DEF CreateEntry
  <2>5. QED
    BY <1>1, <2>1, <2>2, <2>4
<1>5. ASSUME NEW c \in Callers, OnceEnter(c) PROVE SlotInv'
  <2>1. /\ UNCHANGED <<previous, keyOf, counters, plain>>
        /\ entry[c] \in EntryIds /\ once[entry[c]] = "new"
        /\ once' = [once EXCEPT ![entry[c]] = "running"]
    BY <1>5 DEF OnceEnter, OnceIsNew, Step, TypeInv, LocalsOK
  <2>2. InPlain' = InPlain
    BY <1>5, <1>u DEF OnceEnter, Step, InPlain
  <2>3. Finished' = Finished
    BY <1>u, <2>1 DEF Finished
  <2>4. Total' = Total
    BY <2>1, <2>3 DEF Total
  <2>5. PlainBounded' /\ Aged'
    BY <2>1, <2>2, <2>3, <2>4 DEF PlainBounded, Aged, SlotInv
  <2>6. NoSlotReuse'
    BY <2>1, <2>3 DEF NoSlotReuse, SlotInv, Finished
  <2>7. QED
    BY <2>5, <2>6 DEF SlotInv
<1>6. ASSUME NEW c \in Callers, CounterFor(c) PROVE SlotInv'
  <2>1. /\ UNCHANGED <<once, previous, keyOf, plain>> /\ key[c] \in Keys
        /\ \A k \in Keys : counters[k] # None => counters'[k] = counters[k]
    BY <1>6, <1>u DEF CounterFor, SeededCounter, Step, TypeInv, LocalsOK
  <2>2. InPlain' = InPlain
    BY <1>6, <1>u DEF CounterFor, Step, InPlain
  <2>3. QED
    BY <1>1, <2>1, <2>2
<1>7. ASSUME NEW k \in Keys, counters[k] # None, Total + 1 < Modulus
      PROVE  \A p \in Word : Behind(counters[k], p) \in 1..Total
                => counters[k] # p /\ Behind(Add(counters[k]), p) \in 1..(Total + 1)
  BY <1>t, <1>u, <1>7, AgeGrows, StoreAssumption DEF SlotBound
<1>8. ASSUME NEW c \in Callers, AdvancePlain(c) PROVE SlotInv'
  <2> DEFINE k == key[c]
  <2>1. /\ k \in Keys /\ counters[k] # None /\ counters' = [counters EXCEPT ![k] = Add(@)]
        /\ pc[c] = "plainAdd" /\ pc' = [pc EXCEPT ![c] = "idle"] /\ plain' = plain + 1
        /\ UNCHANGED <<once, previous, keyOf>>
    BY <1>8 DEF AdvancePlain, Finish, Step, TypeInv, LocalsOK
  <2> HIDE DEF k
  <2>2. InPlain' = InPlain \ {c} /\ c \in InPlain /\ Finished' = Finished
    BY <1>u, <2>1 DEF InPlain, Finished
  <2>3. Cardinality(InPlain') = Cardinality(InPlain) - 1
    BY <1>t, <2>2, FS_RemoveElement
  <2>4. PlainBounded' /\ Total' = Total + 1
    BY <1>t, <2>1, <2>2, <2>3, StoreAssumption DEF PlainBounded, Total, SlotInv
  <2>5. Total + 1 < Modulus
    BY <1>t, <1>v, <2>1, <2>4
  <2>6. Aged'
    <3> SUFFICES ASSUME NEW e \in Finished
                 PROVE  /\ keyOf[e] \in Keys /\ counters'[keyOf[e]] # None
                        /\ Behind(counters'[keyOf[e]], previous[e]) \in 1..(Total + 1)
      BY <2>1, <2>2, <2>4 DEF Aged
    <3>1. /\ keyOf[e] \in Keys /\ counters[keyOf[e]] # None /\ previous[e] \in Word
          /\ Behind(counters[keyOf[e]], previous[e]) \in 1..Total
      BY <1>u DEF SlotInv, Aged
    <3>2. CASE keyOf[e] = k
      BY <1>u, <1>7, <2>1, <2>5, <3>1, <3>2, AddType
    <3>3. CASE keyOf[e] # k
      BY <1>t, <1>u, <2>1, <3>1, <3>3
    <3>4. QED
      BY <3>2, <3>3
  <2>7. NoSlotReuse'
    BY <2>1 DEF SlotInv, NoSlotReuse
  <2>8. QED
    BY <2>4, <2>6, <2>7 DEF SlotInv
<1>9. ASSUME NEW c \in Callers, AdvanceOnce(c) PROVE SlotInv'
  <2> DEFINE k == key[c]
             n == entry[c]
  <2>1. /\ k \in Keys /\ counters[k] # None /\ counters' = [counters EXCEPT ![k] = Add(@)]
        /\ n \in EntryIds /\ once[n] = "running" /\ keyOf[n] = k
        /\ pc[c] = "add" /\ pc' = [pc EXCEPT ![c] = "return"]
        /\ previous' = [previous EXCEPT ![n] = counters[k]]
        /\ once' = [once EXCEPT ![n] = "done"]
        /\ UNCHANGED <<keyOf, plain>>
    BY <1>9 DEF AdvanceOnce, Step, TypeInv, LocalsOK, CacheInv, OnceProtocol, EntryAddresses
  <2> HIDE DEF k, n
  <2>2. InPlain' = InPlain /\ n \notin Finished /\ Finished' = Finished \cup {n}
    BY <1>u, <2>1 DEF InPlain, Finished
  <2>3. Cardinality(Finished') = Cardinality(Finished) + 1
    BY <1>t, <2>2, FS_AddElement
  <2>4. PlainBounded' /\ Total' = Total + 1
    BY <1>t, <2>1, <2>2, <2>3 DEF PlainBounded, Total, SlotInv
  <2>5. Total + 1 < Modulus
    BY <1>t, <1>v, <2>1, <2>4
  <2>6. counters[k] \in Word /\ counters'[k] = Add(counters[k]) /\ Add(counters[k]) \in Word
    BY <1>u, <2>1, AddType
  <2>7. /\ previous'[n] = counters[k] /\ keyOf'[n] = k
        /\ \A e \in Finished : previous'[e] = previous[e] /\ keyOf'[e] = keyOf[e]
    BY <1>u, <2>1, <2>2
  <2>8. \A e \in Finished :
          /\ keyOf[e] \in Keys /\ counters[keyOf[e]] # None /\ previous[e] \in Word
          /\ Behind(counters[keyOf[e]], previous[e]) \in 1..Total
    BY <1>u DEF SlotInv, Aged
  <2>9. Aged'
    <3> SUFFICES ASSUME NEW e \in Finished \cup {n}
                 PROVE  /\ keyOf'[e] \in Keys /\ counters'[keyOf'[e]] # None
                        /\ Behind(counters'[keyOf'[e]], previous'[e]) \in 1..(Total + 1)
      BY <2>2, <2>4 DEF Aged
    <3>1. CASE e = n
      <4>1. Behind(counters'[keyOf'[e]], previous'[e]) = 1
        BY <1>t, <2>5, <2>6, <2>7, <3>1, AgeStarts, StoreAssumption DEF SlotBound
      <4>2. QED
        BY <1>t, <1>u, <2>1, <2>6, <2>7, <3>1, <4>1
    <3>2. CASE e \in Finished /\ keyOf[e] = k
      BY <1>u, <1>7, <2>1, <2>5, <2>6, <2>7, <2>8, <3>2
    <3>3. CASE e \in Finished /\ keyOf[e] # k
      BY <1>t, <1>u, <2>1, <2>7, <2>8, <3>3
    <3>4. QED
      BY <3>1, <3>2, <3>3
  <2>10. NoSlotReuse'
    <3>1. \A e \in Finished : keyOf[e] = k => previous[e] # counters[k]
      BY <1>7, <2>1, <2>5, <2>8
    <3>2. \A e \in EntryIds : once'[e] = "done" <=> e \in Finished \cup {n}
      BY <2>2 DEF Finished
    <3>3. \A e, f \in Finished : e # f /\ keyOf[e] = keyOf[f] => previous[e] # previous[f]
      BY DEF SlotInv, NoSlotReuse, Finished
    <3>4. QED
      BY <2>7, <3>1, <3>2, <3>3 DEF NoSlotReuse
  <2>11. QED
    BY <2>4, <2>9, <2>10 DEF SlotInv
<1>10. ASSUME NEW c \in Callers, Return(c) PROVE SlotInv'
  <2>1. UNCHANGED <<once, previous, keyOf, counters, plain>>
    BY <1>10 DEF Return
  <2>2. InPlain' = InPlain
    BY <1>10, <1>u DEF Return, Finish, Step, InPlain
  <2>3. QED
    BY <1>1, <2>1, <2>2
<1>11. ASSUME UNCHANGED <<once, previous, keyOf, counters, plain, pc>> PROVE SlotInv'
  <2>1. InPlain' = InPlain
    BY <1>11 DEF InPlain
  <2>2. QED
    BY <1>1, <1>11, <2>1
<1>12. ASSUME NEW o \in Ops, DropLoadAndDelete(o) \/ DropStep(o) PROVE SlotInv'
  BY <1>11, <1>12 DEF DropLoadAndDelete, DropStep, DropLock, DropUnlock, DropKey
<1>13. ASSUME SweepTick \/ SweepStep \/ SweepExit \/ Close \/ Tick \/ UNCHANGED vars PROVE SlotInv'
  BY <1>11, <1>13 DEF SweepTick, SweepStep, SweepSkip, SweepCapture, SweepSpare, SweepCondemn,
     SweepDeleteScope, SweepUnlock, SweepPassDone, SweepKey, SweepExit, Close, Tick, vars
<1>14. QED
  BY <1>2, <1>3, <1>4, <1>5, <1>6, <1>8, <1>9, <1>10, <1>12, <1>13 DEF Next, CallStep

\* Two finished entries of a key never hold the same slot of the rotation, whatever
\* raced to seed the counter and whatever was dropped or evicted in between, as long
\* as the counter did not go all the way round (RemoteAdvancer always adds one).
THEOREM SlotsAreNotReused == ASSUME SlotBound PROVE Spec => []NoSlotReuse
<1>1. SlotInv => NoSlotReuse
  BY DEF SlotInv
<1>2. QED
  BY <1>1, SlotStarts, SlotKept, StoreInvariant, PTL DEF Spec
=============================================================================
