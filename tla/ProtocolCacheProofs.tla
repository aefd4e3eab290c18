------------------------ MODULE ProtocolCacheProofs ------------------------
(***************************************************************************)
(* For any number of calls and origins: an origin is probed at most once   *)
(* and its callers share one entry, and a published entry is never lost or *)
(* replaced.  Both rest on one inductive invariant.                        *)
(***************************************************************************)
EXTENDS ProtocolCache, TLAPS

\* installMu excludes: at most one flight copies or stores the map, so what it
\* copied is what is published.
InstallExclusive ==
    /\ \A o \in Origins : o \in locked <=> flight[o].at \in {"load", "store"}
    /\ \A o, p \in locked : o = p
    /\ \A o \in Origins : flight[o].at = "store" => flight[o].old = entries

\* What the position of an origin's flight says about its entry and its probes.
FlightAgrees(o) ==
    /\ flight[o].at \in {"none", "recheck"} =>
        (IF entries[o] = NoEntry THEN probes[o] = 0 ELSE probes[o] = 1)
    /\ flight[o].at = "probe" => entries[o] = NoEntry /\ probes[o] = 0
    /\ flight[o].at \in {"lock", "load", "store"} =>
        entries[o] = NoEntry /\ probes[o] = 1 /\ flight[o].entry # NoEntry
    /\ flight[o].at = "done" =>
        entries[o] # NoEntry /\ probes[o] = 1 /\ flight[o].entry = entries[o]

\* Callers wait on their own origin's flight, and what they were handed is what is
\* published.
CallersAgree ==
    /\ \A o \in Origins : \A c \in joined[o] : origin[c] = o
    /\ \A c \in Calls : box[c] # NoEntry => box[c] = entries[origin[c]]
    /\ \A c \in Calls : entry[c] # NoEntry => entry[c] = entries[origin[c]]

CacheInv ==
    /\ CacheTypeOK
    /\ InstallExclusive
    /\ \A o \in Origins : FlightAgrees(o)
    /\ CallersAgree

CacheStep == CacheNext \/ \E c \in Calls : ContextEnds(c)

\* The two constants of the type.
LEMMA NoEntryType == NoEntry \in Entries /\ Idle \in Flights
  BY DEF NoEntry, Entries, Idle, Flights

\* The invariant holds before any call.
LEMMA InitInv ==
  ASSUME NEW asked \in [Calls -> Origins], CacheInit(asked)
  PROVE  CacheInv
  <1>1. CacheTypeOK
    BY NoEntryType DEF CacheInit, CacheTypeOK
  <1>2. InstallExclusive
    BY DEF CacheInit, InstallExclusive, Idle
  <1>3. \A o \in Origins : FlightAgrees(o)
    BY DEF CacheInit, FlightAgrees, Idle
  <1>4. CallersAgree
    BY DEF CacheInit, CallersAgree
  <1>5. QED
    BY <1>1, <1>2, <1>3, <1>4 DEF CacheInv

\* A lookup copies a published entry.
LEMMA LookupInv ==
  ASSUME CacheInv, NEW c \in Calls, Lookup(c)
  PROVE  CacheInv'
  <1>1. CacheTypeOK'
    BY DEF CacheInv, CacheTypeOK, Lookup, Resolved
  <1>2. InstallExclusive'
    BY DEF CacheInv, CacheTypeOK, InstallExclusive, Lookup, Resolved
  <1>3. \A p \in Origins : FlightAgrees(p)'
    BY DEF CacheInv, CacheTypeOK, FlightAgrees, InstallExclusive, Lookup, Resolved
  <1>4. CallersAgree'
    BY DEF CacheInv, CacheTypeOK, CallersAgree, FlightAgrees, Lookup, Resolved
  <1>5. QED
    BY <1>1, <1>2, <1>3, <1>4 DEF CacheInv

\* A call joins the flight of its own origin.
LEMMA JoinInv ==
  ASSUME CacheInv, NEW c \in Calls, Join(c)
  PROVE  CacheInv'
  <1>1. CacheTypeOK'
    <2>1. flight' \in [Origins -> Flights]
      BY ZenonT(40) DEF CacheInv, CacheTypeOK, Join, Flights
    <2>2. QED
      BY <2>1 DEF CacheInv, CacheTypeOK, Join
  <1>2. InstallExclusive'
    BY DEF CacheInv, CacheTypeOK, InstallExclusive, Join
  <1>3. \A p \in Origins : FlightAgrees(p)'
    BY DEF CacheInv, CacheTypeOK, FlightAgrees, InstallExclusive, Join
  <1>4. CallersAgree'
    BY DEF CacheInv, CacheTypeOK, CallersAgree, FlightAgrees, Join
  <1>5. QED
    BY <1>1, <1>2, <1>3, <1>4 DEF CacheInv

\* A call takes what its channel holds.
LEMMA ReceiveInv ==
  ASSUME CacheInv, NEW c \in Calls, Receive(c)
  PROVE  CacheInv'
  <1>1. CacheTypeOK'
    BY DEF CacheInv, CacheTypeOK, Receive, Resolved
  <1>2. InstallExclusive'
    BY DEF CacheInv, CacheTypeOK, InstallExclusive, Receive, Resolved
  <1>3. \A p \in Origins : FlightAgrees(p)'
    BY DEF CacheInv, CacheTypeOK, FlightAgrees, InstallExclusive, Receive, Resolved
  <1>4. CallersAgree'
    BY DEF CacheInv, CacheTypeOK, CallersAgree, FlightAgrees, Receive, Resolved
  <1>5. QED
    BY <1>1, <1>2, <1>3, <1>4 DEF CacheInv

\* A call that gives up has no entry.
LEMMA GiveUpInv ==
  ASSUME CacheInv, NEW c \in Calls, GiveUp(c)
  PROVE  CacheInv'
  <1>1. CacheTypeOK'
    BY NoEntryType DEF CacheInv, CacheTypeOK, GiveUp, Resolved, Flights, Entries
  <1>2. InstallExclusive'
    BY DEF CacheInv, CacheTypeOK, InstallExclusive, GiveUp, Resolved
  <1>3. \A p \in Origins : FlightAgrees(p)'
    BY DEF CacheInv, CacheTypeOK, FlightAgrees, InstallExclusive, GiveUp, Resolved
  <1>4. CallersAgree'
    BY DEF CacheInv, CacheTypeOK, CallersAgree, FlightAgrees, GiveUp, Resolved
  <1>5. QED
    BY <1>1, <1>2, <1>3, <1>4 DEF CacheInv

\* The end of a context changes nothing else.
LEMMA ContextInv ==
  ASSUME CacheInv, NEW c \in Calls, ContextEnds(c)
  PROVE  CacheInv'
  <1>1. CacheTypeOK'
    BY DEF CacheInv, CacheTypeOK, ContextEnds
  <1>2. InstallExclusive'
    BY DEF CacheInv, CacheTypeOK, InstallExclusive, ContextEnds
  <1>3. \A p \in Origins : FlightAgrees(p)'
    BY DEF CacheInv, CacheTypeOK, FlightAgrees, InstallExclusive, ContextEnds
  <1>4. CallersAgree'
    BY DEF CacheInv, CacheTypeOK, CallersAgree, FlightAgrees, ContextEnds
  <1>5. QED
    BY <1>1, <1>2, <1>3, <1>4 DEF CacheInv

\* The second lookup ends the flight when the entry is there.
LEMMA RecheckInv ==
  ASSUME CacheInv, NEW o \in Origins, FlightRecheck(o)
  PROVE  CacheInv'
  <1>1. CacheTypeOK'
    BY NoEntryType DEF CacheInv, CacheTypeOK, FlightRecheck, Recheck, Flights, Entries
  <1>2. InstallExclusive'
    BY DEF CacheInv, CacheTypeOK, InstallExclusive, FlightRecheck, Recheck
  <1>3. \A p \in Origins : FlightAgrees(p)'
    BY DEF CacheInv, CacheTypeOK, FlightAgrees, InstallExclusive, FlightRecheck, Recheck
  <1>4. CallersAgree'
    BY DEF CacheInv, CacheTypeOK, CallersAgree, FlightAgrees, FlightRecheck, Recheck
  <1>5. QED
    BY <1>1, <1>2, <1>3, <1>4 DEF CacheInv

\* The first probe of an origin makes its entry.
LEMMA ProbeInv ==
  ASSUME CacheInv, NEW o \in Origins, FlightProbe(o)
  PROVE  CacheInv'
  <1>1. CacheTypeOK'
    <2>1. PICK n \in Networks :
            flight' = [flight EXCEPT ![o].at = "lock",
                         ![o].entry = [id |-> probes[o] + 1, decision |-> Probe(n)]]
      BY DEF FlightProbe
    <2>2. probes[o] + 1 \in Nat
      BY DEF CacheInv, CacheTypeOK
    <2>3. Probe(n) \in {"net", "fast"}
      BY CacheAssumption DEF Probe, Networks
    <2>4. [id |-> probes[o] + 1, decision |-> Probe(n)] \in Entries
      BY <2>2, <2>3 DEF Entries
    <2>5. flight' \in [Origins -> Flights]
      BY <2>1, <2>4, ZenonT(40) DEF CacheInv, CacheTypeOK, Flights
    <2>6. QED
      BY <2>2, <2>5 DEF CacheInv, CacheTypeOK, FlightProbe
  <1>2. InstallExclusive'
    BY DEF CacheInv, CacheTypeOK, InstallExclusive, FlightProbe, Probe, Networks, NoEntry
  <1>3. \A p \in Origins : FlightAgrees(p)'
    BY DEF CacheInv, CacheTypeOK, FlightAgrees, InstallExclusive, FlightProbe, Probe, Networks, NoEntry
  <1>4. CallersAgree'
    BY DEF CacheInv, CacheTypeOK, CallersAgree, FlightAgrees, FlightProbe, Probe, Networks, NoEntry
  <1>5. QED
    BY <1>1, <1>2, <1>3, <1>4 DEF CacheInv

\* installMu is taken when nobody has it.
LEMMA LockInv ==
  ASSUME CacheInv, NEW o \in Origins, FlightLock(o)
  PROVE  CacheInv'
  <1>1. CacheTypeOK'
    <2>1. flight' \in [Origins -> Flights]
      BY DEF CacheInv, CacheTypeOK, FlightLock, Flights
    <2>2. QED
      BY <2>1 DEF CacheInv, CacheTypeOK, FlightLock
  <1>2. InstallExclusive'
    BY DEF CacheInv, CacheTypeOK, InstallExclusive, FlightLock, InstallFree
  <1>3. \A p \in Origins : FlightAgrees(p)'
    BY DEF CacheInv, CacheTypeOK, FlightAgrees, InstallExclusive, FlightLock, InstallFree
  <1>4. CallersAgree'
    BY DEF CacheInv, CacheTypeOK, CallersAgree, FlightAgrees, FlightLock, InstallFree
  <1>5. QED
    BY <1>1, <1>2, <1>3, <1>4 DEF CacheInv

\* The copy is the published map.
LEMMA LoadInv ==
  ASSUME CacheInv, NEW o \in Origins, FlightLoad(o)
  PROVE  CacheInv'
  <1>1. CacheTypeOK'
    <2>1. flight' \in [Origins -> Flights]
      BY ZenonT(40) DEF CacheInv, CacheTypeOK, FlightLoad, Flights
    <2>2. QED
      BY <2>1 DEF CacheInv, CacheTypeOK, FlightLoad
  <1>2. InstallExclusive'
    BY DEF CacheInv, CacheTypeOK, InstallExclusive, FlightLoad
  <1>3. \A p \in Origins : FlightAgrees(p)'
    BY DEF CacheInv, CacheTypeOK, FlightAgrees, InstallExclusive, FlightLoad
  <1>4. CallersAgree'
    BY DEF CacheInv, CacheTypeOK, CallersAgree, FlightAgrees, FlightLoad
  <1>5. QED
    BY <1>1, <1>2, <1>3, <1>4 DEF CacheInv

\* The holder of the mutex publishes its copy with one entry more.
LEMMA StoreInv ==
  ASSUME CacheInv, NEW o \in Origins, FlightStore(o)
  PROVE  CacheInv'
  <1>1. CacheTypeOK'
    <2>1. flight' \in [Origins -> Flights]
      BY DEF CacheInv, CacheTypeOK, FlightStore, Flights
    <2>2. flight[o].old \in [Origins -> Entries] /\ flight[o].entry \in Entries
      BY DEF CacheInv, CacheTypeOK, Flights
    <2>3. entries' \in [Origins -> Entries]
      BY <2>2 DEF FlightStore
    <2>4. QED
      BY <2>1, <2>3 DEF CacheInv, CacheTypeOK, FlightStore
  <1>2. InstallExclusive'
    BY DEF CacheInv, CacheTypeOK, InstallExclusive, FlightStore
  <1>3. \A p \in Origins : FlightAgrees(p)'
    BY DEF CacheInv, CacheTypeOK, FlightAgrees, InstallExclusive, FlightStore
  <1>4. CallersAgree'
    <2>1. entries[o] = NoEntry /\ entries' = [entries EXCEPT ![o] = flight[o].entry]
      BY DEF CacheInv, InstallExclusive, FlightAgrees, FlightStore
    <2>2. \A p \in Origins : entries[p] # NoEntry => entries'[p] = entries[p]
      BY <2>1 DEF CacheInv, CacheTypeOK
    <2>3. QED
      BY <2>2 DEF CacheInv, CacheTypeOK, CallersAgree, FlightStore
  <1>5. QED
    BY <1>1, <1>2, <1>3, <1>4 DEF CacheInv

\* Everybody who joined is handed the published entry.
LEMMA DoneInv ==
  ASSUME CacheInv, NEW o \in Origins, FlightDone(o)
  PROVE  CacheInv'
  <1>1. CacheTypeOK'
    BY NoEntryType DEF CacheInv, CacheTypeOK, FlightDone, Idle, Flights, Entries
  <1>2. InstallExclusive'
    BY DEF CacheInv, CacheTypeOK, InstallExclusive, FlightDone, Idle
  <1>3. \A p \in Origins : FlightAgrees(p)'
    BY DEF CacheInv, CacheTypeOK, FlightAgrees, InstallExclusive, FlightDone, Idle
  <1>4. CallersAgree'
    BY DEF CacheInv, CacheTypeOK, CallersAgree, FlightAgrees, FlightDone, Idle
  <1>5. QED
    BY <1>1, <1>2, <1>3, <1>4 DEF CacheInv

\* No step breaks the invariant.
LEMMA StepInv == CacheInv /\ [CacheStep]_cacheVars => CacheInv'
  <1>1. SUFFICES ASSUME CacheInv, [CacheStep]_cacheVars PROVE CacheInv'
    OBVIOUS
  <1>2. CASE UNCHANGED cacheVars
    BY <1>1, <1>2 DEF CacheInv, CacheTypeOK, InstallExclusive, FlightAgrees, CallersAgree, cacheVars
  <1>3. ASSUME NEW c \in Calls, ResolveStep(c) \/ ContextEnds(c) PROVE CacheInv'
    BY <1>1, <1>3, LookupInv, JoinInv, ReceiveInv, GiveUpInv, ContextInv DEF ResolveStep
  <1>4. ASSUME NEW o \in Origins, FlightStep(o) PROVE CacheInv'
    BY <1>1, <1>4, RecheckInv, ProbeInv, LockInv, LoadInv, StoreInv, DoneInv DEF FlightStep
  <1>5. QED
    BY <1>1, <1>2, <1>3, <1>4 DEF CacheStep, CacheNext

\* The invariant holds in every reachable state.
THEOREM CacheInvariant == CacheSpec => []CacheInv
  <1>1. (\E asked \in [Calls -> Origins] : CacheInit(asked)) => CacheInv
    BY InitInv
  <1>2. CacheInv /\ [CacheNext \/ \E c \in Calls : ContextEnds(c)]_cacheVars => CacheInv'
    BY StepInv DEF CacheStep
  <1>3. QED
    BY <1>1, <1>2, PTL DEF CacheSpec

\* However lookups, flights and cancellations interleave, resolve probes an origin
\* at most once and every caller that gets an entry gets the published one.
THEOREM OriginProbedOnce == CacheSpec => []OneClientPerOrigin
  <1>1. CacheInv => OneClientPerOrigin
    <2>1. SUFFICES ASSUME CacheInv, NEW o \in Origins PROVE probes[o] <= 1
      BY DEF CacheInv, CallersAgree, OneClientPerOrigin
    <2>2. flight[o].at \in {"none", "recheck", "probe", "lock", "load", "store", "done"}
      BY <2>1 DEF CacheInv, CacheTypeOK, Flights
    <2>3. probes[o] = 0 \/ probes[o] = 1
      BY <2>1, <2>2 DEF CacheInv, FlightAgrees
    <2>4. QED
      BY <2>3
  <1>2. QED
    BY <1>1, CacheInvariant, PTL

\* The load-copy-swap of install loses no entry and replaces none: once published,
\* an origin's decision is never changed.
THEOREM DecisionsStick == CacheSpec => EntriesStick
  <1> DEFINE Sticks == \A o \in Origins : entries[o] # NoEntry => entries'[o] = entries[o]
  <1>1. CacheInv /\ [CacheNext \/ \E c \in Calls : ContextEnds(c)]_cacheVars => [Sticks]_cacheVars
    <2>1. SUFFICES ASSUME CacheInv, CacheNext \/ \E c \in Calls : ContextEnds(c) PROVE Sticks
      OBVIOUS
    <2>2. ASSUME NEW c \in Calls, ResolveStep(c) \/ ContextEnds(c) PROVE entries' = entries
      BY <2>2 DEF ResolveStep, Lookup, Join, Receive, GiveUp, ContextEnds
    <2>3. ASSUME NEW o \in Origins, FlightStep(o), ~ FlightStore(o) PROVE entries' = entries
      BY <2>3 DEF FlightStep, FlightRecheck, FlightProbe, FlightLock, FlightLoad, FlightDone
    <2>4. ASSUME NEW o \in Origins, FlightStore(o) PROVE Sticks
      <3>1. entries[o] = NoEntry /\ entries' = [entries EXCEPT ![o] = flight[o].entry]
        BY <2>1, <2>4 DEF CacheInv, InstallExclusive, FlightAgrees, FlightStore
      <3>2. QED
        BY <2>1, <3>1 DEF CacheInv, CacheTypeOK
    <2>5. QED
      BY <2>1, <2>2, <2>3, <2>4 DEF CacheNext
  <1>2. QED
    BY <1>1, CacheInvariant, PTL DEF CacheSpec, EntriesStick
=============================================================================
