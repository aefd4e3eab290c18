----------------------------- MODULE UnaryCall -----------------------------
(***************************************************************************)
(* A unary LLM call after its origin is resolved: Execute and              *)
(* ExecuteBorrowed of llmhttp.go, the two fasthttp lanes of                *)
(* fast_backend.go and the lifetime of what they borrow.  fasthttp's       *)
(* requests, responses and the drain buffers come from pools and go back   *)
(* to them; a streamed response owns its connection until its body is      *)
(* closed.  A cancelled call leaves its Do behind, and a cleanup goroutine *)
(* returns the objects when that Do comes back.                            *)
(***************************************************************************)
EXTENDS ProtocolCache

CONSTANT
    Slots         \* objects of each pool, and connections

VARIABLES
    lane,         \* executeBorrow after resolve: where each call stands
    do,           \* DoDeadline: state, answer, connection, body stream attached
    fReq, fResp,  \* the pooled request and response of the call
    buf,          \* its drain buffer
    resp,         \* the Response: storage it borrows, released
    orphan,       \* the cleanup goroutine of a cancelled call waits for its Do
    pool,         \* how often each object is in its pool
    conns         \* connections: position, host client, unread bytes

unaryVars == <<lane, do, fReq, fResp, buf, resp, orphan, pool, conns>>

Kinds == {"request", "response", "buffer"}
Objects == Kinds \X Slots
NoObject == <<"none", 0>>
NoSlot == 0

NoDo == [at |-> "none", out |-> "none", conn |-> NoSlot, stream |-> FALSE]
NoResponse == [fastResp |-> NoObject, drainBuf |-> NoObject, released |-> FALSE]

ASSUME UnaryAssumption == IsFiniteSet(Slots) /\ Slots \subseteq Nat \ {NoSlot}

UnaryTypeOK ==
    /\ lane \in [Calls -> {"new", "net", "buffered", "do", "select", "status", "errorBody",
                           "drain", "own", "hold", "over", "released"}]
    /\ do \in [Calls -> [at : {"none", "ready", "running", "done"},
                         out : {"none", "error", "tooLarge", "non2xx", "ok"},
                         conn : Slots \cup {NoSlot}, stream : BOOLEAN]]
    /\ \A c \in Calls : {fReq[c], fResp[c], buf[c], resp[c].fastResp, resp[c].drainBuf}
                            \subseteq Objects \cup {NoObject}
    /\ \A c \in Calls : resp[c].released \in BOOLEAN
    /\ orphan \in [Calls -> BOOLEAN]
    /\ pool \in [Objects -> Nat]
    /\ \A k \in Slots : conns[k].at \in {"none", "busy", "idle"} /\ conns[k].unread \in BOOLEAN

UnaryInit ==
    /\ lane = [c \in Calls |-> "new"]
    /\ do = [c \in Calls |-> NoDo]
    /\ fReq = [c \in Calls |-> NoObject] /\ fResp = [c \in Calls |-> NoObject]
    /\ buf = [c \in Calls |-> NoObject] /\ resp = [c \in Calls |-> NoResponse]
    /\ orphan = [c \in Calls |-> FALSE]
    /\ pool = [x \in Objects |-> 1]
    /\ conns = [k \in Slots |-> [at |-> "none", host |-> <<>>, unread |-> FALSE]]

-----------------------------------------------------------------------------
(* Pools and connections (fasthttp and sync.Pool)                          *)

\* Pooled objects of a kind are interchangeable: Get takes the lowest.
Get(kind) ==
    CHOOSE x \in Objects :
        /\ x[1] = kind /\ pool[x] > 0
        /\ \A y \in Objects : y[1] = kind /\ pool[y] > 0 => x[2] <= y[2]

Available(kinds) == \A k \in kinds : \E x \in Objects : x[1] = k /\ pool[x] > 0

Put(objects) == [x \in Objects |-> IF x \in objects THEN pool[x] + 1 ELSE pool[x]]
Take(objects) == [x \in Objects |-> IF x \in objects THEN pool[x] - 1 ELSE pool[x]]

\* The locals of a function that returned are gone.
Forget(c) == fReq' = [fReq EXCEPT ![c] = NoObject] /\ fResp' = [fResp EXCEPT ![c] = NoObject]

\* CloseBodyStream gives the connection back for reuse, or drops it when the
\* response carries Connection: close.  Unread bytes stay on the wire.
CloseBodyStream(c, discard, unread) ==
    IF ~ do[c].stream THEN conns
    ELSE [conns EXCEPT ![do[c].conn] =
            IF discard THEN [at |-> "none", host |-> <<>>, unread |-> FALSE]
            ELSE [@ EXCEPT !.at = "idle", !.unread = unread]]

-----------------------------------------------------------------------------
(* executeBorrow: dispatch                                                 *)

HostOf(c) == <<origin[c], IF lane[c] = "buffered" THEN "unaryHost" ELSE "host">>

\* Only an entry with a fast decision leaves net/http.  The buffered lane takes a
\* context that nothing but its deadline ends and no header callback; a callback
\* needs the streamed lane, a cancellable context a Do in its own goroutine.
Dispatch(c) ==
    /\ pc[c] = "resolved" /\ lane[c] = "new"
    /\ IF entry[c].decision # "fast"
       THEN lane' = [lane EXCEPT ![c] = "net"] /\ UNCHANGED <<do, fReq, fResp, pool>>
       ELSE /\ Available({"request", "response"})
            /\ fReq' = [fReq EXCEPT ![c] = Get("request")]
            /\ fResp' = [fResp EXCEPT ![c] = Get("response")]
            /\ pool' = Take({Get("request"), Get("response")})
            /\ do' = [do EXCEPT ![c].at = "ready"]
            /\ \E l \in {"buffered", "do", "select"} : lane' = [lane EXCEPT ![c] = l]
    /\ UNCHANGED <<buf, resp, orphan, conns>>
    /\ UNCHANGED cacheVars

\* An error, or a body the call owns, is returned.
Return(c) == lane' = [lane EXCEPT ![c] = "over"]

\* A body in pooled storage is copied for Execute and lent out by ExecuteBorrowed.
Lend(c) == \E l \in {"own", "hold"} : lane' = [lane EXCEPT ![c] = l]

\* The net/http backend: its bodies are owned, its own pool is external.
NetHTTP(c) ==
    /\ lane[c] = "net" /\ Return(c)
    /\ UNCHANGED <<do, fReq, fResp, buf, resp, orphan, pool, conns>>
    /\ UNCHANGED cacheVars

-----------------------------------------------------------------------------
(* DoDeadline, in the call's goroutine or in one of its own                *)

\* An idle connection of the host is used again, or a new one is dialled (in the
\* place of one that was idle for too long); MaxConns never binds.
DoBegin(c) ==
    /\ do[c].at = "ready"
    /\ \E k \in Slots :
        /\ conns[k].at # "busy"
        /\ conns' = [conns EXCEPT ![k] =
                [at |-> "busy", host |-> HostOf(c),
                 unread |-> @.at = "idle" /\ @.host = HostOf(c) /\ @.unread]]
        /\ do' = [do EXCEPT ![c].at = "running", ![c].conn = k]
    /\ UNCHANGED <<lane, fReq, fResp, buf, resp, orphan, pool>>
    /\ UNCHANGED cacheVars

\* A failed exchange costs the connection.  The buffered host reads the body and
\* gives the connection back before it returns; the streaming host leaves the body
\* on the wire (or, for a body that came with the headers, does not).
DoReturns(c) ==
    LET k == do[c].conn
        Answer(out, stream) == [at |-> "done", out |-> out, conn |-> k, stream |-> stream]
        buffered == lane[c] = "buffered"
    IN /\ do[c].at = "running"
       /\ \/ /\ \E out \in IF buffered THEN {"error", "tooLarge"} ELSE {"error"} :
                    do' = [do EXCEPT ![c] = Answer(out, FALSE)]
             /\ conns' = [conns EXCEPT ![k] = [at |-> "none", host |-> <<>>, unread |-> FALSE]]
          \/ /\ \E out \in {"non2xx", "ok"} : do' = [do EXCEPT ![c] = Answer(out, FALSE)]
             /\ conns' = [conns EXCEPT ![k].at = "idle"]
          \/ /\ ~ buffered
             /\ \E out \in {"non2xx", "ok"} : do' = [do EXCEPT ![c] = Answer(out, TRUE)]
             /\ conns' = [conns EXCEPT ![k].unread = TRUE]
       /\ UNCHANGED <<lane, fReq, fResp, buf, resp, orphan, pool>>
       /\ UNCHANGED cacheVars

-----------------------------------------------------------------------------
(* executeFastBuffered                                                     *)

\* Mutant: an error status forgets the response.
BufferedKeeps(c) == {fReq[c]}

\* Errors of Do, other statuses and oversized bodies return both objects.
BufferedFails(c) == {fReq[c], fResp[c]}

\* On success the response goes back only when nothing borrows it any more.
Buffered(c) ==
    /\ lane[c] = "buffered" /\ do[c].at = "done"
    /\ \/ Return(c) /\ pool' = Put(BufferedFails(c)) /\ UNCHANGED resp
       \/ /\ do[c].out = "ok" /\ Lend(c)
          /\ resp' = [resp EXCEPT ![c].fastResp = fResp[c]]
          /\ pool' = Put({fReq[c]})
    /\ do' = [do EXCEPT ![c] = NoDo]
    /\ Forget(c)
    /\ UNCHANGED <<buf, orphan, conns>>
    /\ UNCHANGED cacheVars

-----------------------------------------------------------------------------
(* executeFastStreamed                                                     *)

\* case doErr = <-doneCh, or the synchronous Do.
DoAnswered(c) ==
    /\ lane[c] \in {"do", "select"} /\ do[c].at = "done"
    /\ lane' = [lane EXCEPT ![c] = "status"]
    /\ UNCHANGED <<do, fReq, fResp, buf, resp, orphan, pool, conns>>
    /\ UNCHANGED cacheVars

\* Mutant: the cancelled call returns its objects although Do still uses them.
ReleaseNow(c) == pool' = Put({fReq[c], fResp[c]}) /\ UNCHANGED orphan

\* The cleanup is handed to a goroutine that waits for the orphaned Do.
HandOff(c) == orphan' = [orphan EXCEPT ![c] = TRUE] /\ UNCHANGED pool

\* case <-ctx.Done()
Abandon(c) ==
    /\ lane[c] = "select" /\ ctxOver[c]
    /\ Return(c) /\ HandOff(c)
    /\ UNCHANGED <<do, fReq, fResp, buf, resp, conns>>
    /\ UNCHANGED cacheVars

\* Mutant: the orphan's connection goes back with its body unread.
OrphanPools(c) == CloseBodyStream(c, FALSE, TRUE)

\* closeFastConnDiscard
OrphanDiscards(c) == CloseBodyStream(c, TRUE, TRUE)

Cleanup(c) ==
    /\ orphan[c] /\ do[c].at = "done"
    /\ orphan' = [orphan EXCEPT ![c] = FALSE]
    /\ conns' = OrphanDiscards(c)
    /\ pool' = Put({fReq[c], fResp[c]})
    /\ do' = [do EXCEPT ![c] = NoDo] /\ Forget(c)
    /\ UNCHANGED <<lane, buf, resp>>
    /\ UNCHANGED cacheVars

\* A failed Do returns here (awaitCtxIfPastDeadline only picks the error);
\* otherwise the status decides, and onSuccess runs before the body is read.
Status(c) ==
    /\ lane[c] = "status"
    /\ \/ /\ do[c].out = "error" /\ Return(c)
          /\ pool' = Put({fReq[c], fResp[c]}) /\ do' = [do EXCEPT ![c] = NoDo] /\ Forget(c)
          /\ UNCHANGED buf
       \/ /\ do[c].out = "non2xx" /\ lane' = [lane EXCEPT ![c] = "errorBody"]
          /\ UNCHANGED <<pool, do, buf, fReq, fResp>>
       \/ /\ do[c].out = "ok" /\ Available({"buffer"})
          /\ lane' = [lane EXCEPT ![c] = "drain"]
          /\ buf' = [buf EXCEPT ![c] = Get("buffer")] /\ pool' = Take({Get("buffer")})
          /\ UNCHANGED <<do, fReq, fResp>>
    /\ UNCHANGED <<resp, orphan, conns>>
    /\ UNCHANGED cacheVars

\* readFastErrorBodyCapped: read to its end within the cap, or cut off by the cap
\* or a read error, which discards the connection.
ErrorBody(c) ==
    /\ lane[c] = "errorBody"
    /\ \E whole \in BOOLEAN : conns' = CloseBodyStream(c, ~ whole, ~ whole)
    /\ Return(c)
    /\ pool' = Put({fReq[c], fResp[c]}) /\ do' = [do EXCEPT ![c] = NoDo] /\ Forget(c)
    /\ UNCHANGED <<buf, resp, orphan>>
    /\ UNCHANGED cacheVars

\* drainFastBodyLimited, then the deferred releases: the buffer is lent out on
\* success and goes back on a read error or an oversized body.
Drain(c) ==
    /\ lane[c] = "drain"
    /\ \/ /\ Return(c)
          /\ conns' = CloseBodyStream(c, TRUE, TRUE)
          /\ pool' = Put({fReq[c], fResp[c], buf[c]}) /\ UNCHANGED resp
       \/ /\ Lend(c)
          /\ conns' = CloseBodyStream(c, FALSE, FALSE)
          /\ resp' = [resp EXCEPT ![c].drainBuf = buf[c]]
          /\ pool' = Put({fReq[c], fResp[c]})
    /\ do' = [do EXCEPT ![c] = NoDo]
    /\ buf' = [buf EXCEPT ![c] = NoObject] /\ Forget(c)
    /\ UNCHANGED orphan
    /\ UNCHANGED cacheVars

-----------------------------------------------------------------------------
(* Response                                                                *)

Borrowed(c) == {resp[c].fastResp, resp[c].drainBuf} \ {NoObject}

\* Mutant: the storage stays referenced and a second Release returns it again.
ReleaseEachTime(c) ==
    /\ pool' = Put(Borrowed(c))
    /\ resp' = [resp EXCEPT ![c].released = TRUE]

\* Release is idempotent.
ReleaseBorrow(c) ==
    /\ pool' = IF resp[c].released THEN pool ELSE Put(Borrowed(c))
    /\ resp' = [resp EXCEPT ![c] = [NoResponse EXCEPT !.released = TRUE]]

\* own, for Execute: copy the body, release what it borrowed.
Own(c) ==
    /\ lane[c] = "own" /\ Return(c) /\ ReleaseBorrow(c)
    /\ UNCHANGED <<do, fReq, fResp, buf, orphan, conns>>
    /\ UNCHANGED cacheVars

\* The consumer of ExecuteBorrowed calls Release, and may call it again (Close).
ConsumerReleases(c) ==
    /\ lane[c] \in {"hold", "released"}
    /\ lane' = [lane EXCEPT ![c] = "released"]
    /\ ReleaseBorrow(c)
    /\ UNCHANGED <<do, fReq, fResp, buf, orphan, conns>>
    /\ UNCHANGED cacheVars

\* Only resolve and the cancellable lane look at the context while they wait.
CallContextEnds(c) ==
    /\ lane[c] \in {"new", "select"}
    /\ ContextEnds(c)
    /\ UNCHANGED unaryVars

CallStep(c) ==
    \/ Dispatch(c) \/ NetHTTP(c) \/ Buffered(c) \/ DoAnswered(c) \/ Abandon(c)
    \/ Status(c) \/ ErrorBody(c) \/ Drain(c) \/ Own(c)

UnaryNext ==
    \/ CacheNext /\ UNCHANGED unaryVars
    \/ \E c \in Calls :
        \/ CallStep(c) \/ DoBegin(c) \/ DoReturns(c) \/ Cleanup(c)
        \/ ConsumerReleases(c) \/ CallContextEnds(c)

UnarySpec ==
    /\ (\E asked \in [Calls -> Origins] : CacheInit(asked)) /\ UnaryInit
    /\ [][UnaryNext]_<<cacheVars, unaryVars>>

\* The callers are scheduled.  Neither the probes nor Do are assumed to end.
CallerRuns(c) == (ResolveStep(c) /\ UNCHANGED unaryVars) \/ CallStep(c)

-----------------------------------------------------------------------------
(* Properties                                                              *)

\* What a call still reads or writes: a Do that has not been seen to end, the
\* body being read, the storage under a response its consumer has not released.
InUse(c) ==
    (IF do[c].at # "none" THEN {fReq[c], fResp[c]} ELSE {})
    \cup (IF lane[c] = "drain" THEN {buf[c]} ELSE {})
    \cup (IF lane[c] \in {"own", "hold"} THEN Borrowed(c) ELSE {})

\* A pooled request, response or buffer has one user at a time and is not in its
\* pool while it is used, whichever of Do, the cleanup goroutine, the deferred
\* releases and Release comes last (executeFastStreamed, Response.Release).
ExclusiveUse ==
    \A x \in Objects : pool[x] + Cardinality({c \in Calls : x \in InUse(c)}) <= 1

\* A connection that goes back for reuse has nothing of the old answer left on
\* it: every path that stops before the end of the body discards it
\* (closeFastConnDiscard).
CleanPool == \A k \in Slots : conns[k].at = "idle" => ~ conns[k].unread

\* When every call has returned, its cleanup has run and its response was
\* released, all objects are back and no connection is lost: each error path
\* returns exactly what it took.
NothingLeaked ==
    (\A c \in Calls : lane[c] \in {"over", "released"} /\ ~ orphan[c]) =>
        /\ \A x \in Objects : pool[x] = 1
        /\ \A k \in Slots : conns[k].at # "busy"

\* A call that waits for another caller's probe, or for a cancellable Do, comes
\* back when its context ends, even if that probe or Do never does.
Parked(c) == pc[c] = "wait" \/ lane[c] = "select"

CancelReturns == \A c \in Calls : (ctxOver[c] /\ Parked(c)) ~> ~ Parked(c)
=============================================================================
