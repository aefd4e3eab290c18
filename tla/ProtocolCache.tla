--------------------------- MODULE ProtocolCache ---------------------------
(***************************************************************************)
(* The per-origin choice between the net/http and the fasthttp backend     *)
(* (bamlutils/llmhttp/cache.go).  Callers look an origin up without a      *)
(* lock; on a miss they join a singleflight that probes the origin and     *)
(* publishes the entry in a copy of the whole map.  A caller whose context *)
(* ends leaves with no entry, the flight goes on without it.               *)
(***************************************************************************)
EXTENDS Naturals, FiniteSets

CONSTANTS
    Calls,       \* unary requests, each with a goroutine of its own
    Origins,     \* scheme://host:port keys
    ClientMode   \* "auto", "fast" or "net"

VARIABLES
    origin,      \* the origin each call asks for
    ctxOver,     \* its context is cancelled or past its deadline
    pc,          \* resolve: where each call stands
    entry,       \* the entry resolve returned, NoEntry for nil
    box,         \* the buffered channel DoChan returned
    entries,     \* the published map
    flight,      \* the singleflight of each origin: position, map copied, entry
    joined,      \* calls waiting on each flight
    locked,      \* flights that hold installMu
    probes       \* history: probes of each origin

cacheVars == <<origin, ctxOver, pc, entry, box, entries, flight, joined, locked, probes>>

\* hostEntry: identity and decision.
NoEntry == [id |-> 0, decision |-> "none"]
Entries == [id : Nat, decision : {"none", "net", "fast"}]
Flights == [at : {"none", "recheck", "probe", "lock", "load", "store", "done"},
            old : [Origins -> Entries], entry : Entries]
Idle == [at |-> "none", old |-> [o \in Origins |-> NoEntry], entry |-> NoEntry]

ASSUME CacheAssumption == ClientMode \in {"auto", "fast", "net"} /\ IsFiniteSet(Origins)

CacheTypeOK ==
    /\ origin \in [Calls -> Origins] /\ ctxOver \in [Calls -> BOOLEAN]
    /\ pc \in [Calls -> {"lookup", "join", "wait", "resolved"}]
    /\ entry \in [Calls -> Entries] /\ box \in [Calls -> Entries]
    /\ entries \in [Origins -> Entries]
    /\ flight \in [Origins -> Flights]
    /\ joined \in [Origins -> SUBSET Calls] /\ locked \subseteq Origins
    /\ probes \in [Origins -> Nat]

CacheInit(asked) ==
    /\ origin = asked /\ ctxOver = [c \in Calls |-> FALSE]
    /\ pc = [c \in Calls |-> "lookup"] /\ entry = [c \in Calls |-> NoEntry]
    /\ box = [c \in Calls |-> NoEntry]
    /\ entries = [o \in Origins |-> NoEntry] /\ flight = [o \in Origins |-> Idle]
    /\ joined = [o \in Origins |-> {}] /\ locked = {} /\ probes = [o \in Origins |-> 0]

-----------------------------------------------------------------------------
(* resolve                                                                 *)

Resolved(c, e) ==
    /\ pc' = [pc EXCEPT ![c] = "resolved"]
    /\ entry' = [entry EXCEPT ![c] = e]

\* The hot path is one atomic load.
Lookup(c) ==
    /\ pc[c] = "lookup"
    /\ IF entries[origin[c]] # NoEntry THEN Resolved(c, entries[origin[c]])
       ELSE pc' = [pc EXCEPT ![c] = "join"] /\ UNCHANGED entry
    /\ UNCHANGED <<origin, ctxOver, box, entries, flight, joined, locked, probes>>

\* DoChan: start the flight of the origin or join the one in the air.
Join(c) ==
    LET o == origin[c]
    IN /\ pc[c] = "join" /\ pc' = [pc EXCEPT ![c] = "wait"]
       /\ joined' = [joined EXCEPT ![o] = @ \cup {c}]
       /\ flight' = IF flight[o].at = "none" THEN [flight EXCEPT ![o].at = "recheck"]
                    ELSE flight
       /\ UNCHANGED <<origin, ctxOver, entry, box, entries, locked, probes>>

\* case r := <-ch
Receive(c) ==
    /\ pc[c] = "wait" /\ box[c] # NoEntry /\ Resolved(c, box[c])
    /\ UNCHANGED <<origin, ctxOver, box, entries, flight, joined, locked, probes>>

\* Mutant: the caller stays with the flight whatever happens to its context.
StayOn(c) == FALSE

\* case <-ctx.Done()
LeaveFlight(c) == ctxOver[c]

GiveUp(c) ==
    /\ pc[c] = "wait" /\ LeaveFlight(c) /\ Resolved(c, NoEntry)
    /\ UNCHANGED <<origin, ctxOver, box, entries, flight, joined, locked, probes>>

-----------------------------------------------------------------------------
(* The flight                                                              *)

\* Mutant: probe without looking again.
NoRecheck(o) == NoEntry

\* lookup inside the flight.
Recheck(o) == entries[o]

FlightRecheck(o) ==
    /\ flight[o].at = "recheck"
    /\ flight' = [flight EXCEPT ![o].entry = Recheck(o),
                                ![o].at = IF Recheck(o) # NoEntry THEN "done" ELSE "probe"]
    /\ UNCHANGED <<origin, ctxOver, pc, entry, box, entries, joined, locked, probes>>

\* What a probe meets: the proxy function and its answer, the scheme, the
\* handshake (failed or timed out, h2, http/1.1).
Networks == [proxy : {"unset", "direct", "proxy", "error"}, scheme : {"http", "https"},
             alpn : {"failed", "h2", "h1"}]

Probe(n) ==
    CASE ClientMode # "auto" -> ClientMode
      [] n.proxy \in {"proxy", "error"} -> "net"
      [] n.scheme = "http" -> "fast"
      [] n.alpn = "h1" -> "fast"
      [] OTHER -> "net"

\* probe and buildEntry: the entry is a new object.
FlightProbe(o) ==
    /\ flight[o].at = "probe"
    /\ probes' = [probes EXCEPT ![o] = @ + 1]
    /\ \E n \in Networks :
        flight' = [flight EXCEPT ![o].at = "lock",
                                 ![o].entry = [id |-> probes[o] + 1, decision |-> Probe(n)]]
    /\ UNCHANGED <<origin, ctxOver, pc, entry, box, entries, joined, locked>>

\* Mutant: two installs run at the same time.
InstallFreely == TRUE

\* installMu.Lock()
InstallFree == locked = {}

FlightLock(o) ==
    /\ flight[o].at = "lock" /\ InstallFree
    /\ locked' = locked \cup {o}
    /\ flight' = [flight EXCEPT ![o].at = "load"]
    /\ UNCHANGED <<origin, ctxOver, pc, entry, box, entries, joined, probes>>

\* entries.Load() and the copy of the map ...
FlightLoad(o) ==
    /\ flight[o].at = "load"
    /\ flight' = [flight EXCEPT ![o].at = "store", ![o].old = entries]
    /\ UNCHANGED <<origin, ctxOver, pc, entry, box, entries, joined, locked, probes>>

\* ... then entries.Store(&next) and the unlock.
FlightStore(o) ==
    /\ flight[o].at = "store"
    /\ entries' = [flight[o].old EXCEPT ![o] = flight[o].entry]
    /\ locked' = locked \ {o}
    /\ flight' = [flight EXCEPT ![o].at = "done"]
    /\ UNCHANGED <<origin, ctxOver, pc, entry, box, joined, probes>>

\* singleflight: the flight is forgotten and every channel gets the value.
FlightDone(o) ==
    /\ flight[o].at = "done"
    /\ box' = [c \in Calls |-> IF c \in joined[o] THEN flight[o].entry ELSE box[c]]
    /\ joined' = [joined EXCEPT ![o] = {}]
    /\ flight' = [flight EXCEPT ![o] = Idle]
    /\ UNCHANGED <<origin, ctxOver, pc, entry, entries, locked, probes>>

FlightStep(o) ==
    \/ FlightRecheck(o) \/ FlightProbe(o) \/ FlightLock(o) \/ FlightLoad(o)
    \/ FlightStore(o) \/ FlightDone(o)

ResolveStep(c) == Lookup(c) \/ Join(c) \/ Receive(c) \/ GiveUp(c)

CacheNext == (\E c \in Calls : ResolveStep(c)) \/ (\E o \in Origins : FlightStep(o))

\* The caller's context is cancelled or its deadline passes.
ContextEnds(c) ==
    /\ ~ ctxOver[c] /\ ctxOver' = [ctxOver EXCEPT ![c] = TRUE]
    /\ UNCHANGED <<origin, pc, entry, box, entries, flight, joined, locked, probes>>

\* The cache with callers that may end at any time.
CacheSpec ==
    /\ \E asked \in [Calls -> Origins] : CacheInit(asked)
    /\ [][CacheNext \/ \E c \in Calls : ContextEnds(c)]_cacheVars

-----------------------------------------------------------------------------
(* Properties                                                              *)

\* A published decision stays for the life of the process: probes of different
\* origins that finish together do not lose each other's entry in the
\* load-copy-swap of install, and no entry is replaced.
EntriesStick ==
    [][\A o \in Origins : entries[o] # NoEntry => entries'[o] = entries[o]]_cacheVars

\* An origin is probed once and all its callers share one entry, hence one
\* connection pool, however lookups, flights and cancellations interleave
\* (the second lookup inside resolve's flight).
OneClientPerOrigin ==
    /\ \A o \in Origins : probes[o] <= 1
    /\ \A c \in Calls : entry[c] # NoEntry => entry[c] = entries[origin[c]]
=============================================================================
