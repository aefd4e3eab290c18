-------------------------- MODULE UnaryCallProofs --------------------------
(***************************************************************************)
(* Unary calls use the protocol cache and nothing but its operations, so   *)
(* what is proved of the cache holds in every behaviour of the calls.      *)
(* Over the calls themselves the accounting of what they borrow is proved: *)
(* every pooled object and every connection has exactly one holder from    *)
(* the moment it is taken to the moment it is given back, on all three     *)
(* paths of executeBorrow and through an abandoned call's reaper.          *)
(***************************************************************************)
EXTENDS UnaryCall, ProtocolCacheProofs, FiniteSetTheorems, WellFoundedInduction

\* A step of a call is a step of the cache or leaves it alone.
LEMMA CallIsCacheStep ==
  [UnaryNext]_<<cacheVars, unaryVars>> => [CacheNext \/ \E c \in Calls : ContextEnds(c)]_cacheVars
  <1>1. SUFFICES ASSUME [UnaryNext]_<<cacheVars, unaryVars>>
                 PROVE  [CacheNext \/ \E c \in Calls : ContextEnds(c)]_cacheVars
    OBVIOUS
  <1>2. ASSUME NEW c \in Calls, CallStep(c) PROVE UNCHANGED cacheVars
    BY <1>2 DEF CallStep, Dispatch, NetHTTP, Buffered, DoAnswered, Abandon, Status, ErrorBody,
       Drain, Own
  <1>3. ASSUME NEW c \in Calls,
               DoBegin(c) \/ DoReturns(c) \/ Cleanup(c) \/ ConsumerReleases(c)
        PROVE  UNCHANGED cacheVars
    BY <1>3 DEF DoBegin, DoReturns, Cleanup, ConsumerReleases
  <1>4. QED
    BY <1>1, <1>2, <1>3 DEF UnaryNext, CallContextEnds

\* executeBorrow changes the cache only through resolve.
THEOREM CallsUseCache == UnarySpec => CacheSpec
  BY CallIsCacheStep, PTL DEF UnarySpec, CacheSpec

\* With calls running on both backends, cancelled and abandoned ones included, an
\* origin is still probed once and has one entry, hence one connection pool.
THEOREM CallsShareClient == UnarySpec => []OneClientPerOrigin
  BY CallsUseCache, OriginProbedOnce, PTL

-----------------------------------------------------------------------------
(* What the calls hold                                                     *)

\* Objects of one kind, or none.
Some(kind) == ({kind} \X Slots) \cup {NoObject}
Hosts == (Origins \X {"host", "unaryHost"}) \cup {<<>>}

Lanes == {"new", "net", "buffered", "do", "select", "status", "errorBody", "drain", "own",
          "hold", "over", "released"}
Dos == [at : {"none", "ready", "running", "done"},
        out : {"none", "error", "tooLarge", "non2xx", "ok"},
        conn : Slots \cup {NoSlot}, stream : BOOLEAN]
Responses == [fastResp : Some("response"), drainBuf : Some("buffer"), released : BOOLEAN]
Connections == [at : {"none", "busy", "idle"}, host : Hosts, unread : BOOLEAN]

\* The types of the calls' state, with the kind of object each variable holds.
UnaryTyped ==
    /\ origin \in [Calls -> Origins] /\ lane \in [Calls -> Lanes] /\ do \in [Calls -> Dos]
    /\ fReq \in [Calls -> Some("request")] /\ fResp \in [Calls -> Some("response")]
    /\ buf \in [Calls -> Some("buffer")] /\ resp \in [Calls -> Responses]
    /\ orphan \in [Calls -> BOOLEAN] /\ conns \in [Slots -> Connections]

\* A Do has been started for the call and neither the call nor its cleanup
\* goroutine has seen the end of it.
HasDo(c) == orphan[c] \/ lane[c] \in {"buffered", "do", "select", "status", "errorBody", "drain"}

\* What a call holds is read off its place.
LaneOf(c) ==
    /\ orphan[c] => lane[c] = "over"
    /\ HasDo(c) => do[c].at # "none" /\ fReq[c] # NoObject /\ fResp[c] # NoObject
    /\ ~ HasDo(c) => do[c] = NoDo /\ fReq[c] = NoObject /\ fResp[c] = NoObject
    /\ buf[c] # NoObject <=> lane[c] = "drain"
    /\ lane[c] \notin {"own", "hold"} =>
        resp[c].fastResp = NoObject /\ resp[c].drainBuf = NoObject
    /\ resp[c].released => lane[c] \in {"over", "released"}
    /\ lane[c] \in {"status", "errorBody", "drain"} => do[c].at = "done"
    /\ do[c].stream => do[c].at = "done" /\ do[c].out # "error" /\ lane[c] # "buffered"

LaneHolds == \A c \in Calls : LaneOf(c)

Holds(c, x) == x \in {fReq[c], fResp[c], buf[c], resp[c].fastResp, resp[c].drainBuf}

\* Every pooled object is in its pool once, or one call holds it.
ObjectsAccounted ==
    /\ pool \in [Objects -> {0, 1}]
    /\ \A x \in Objects : pool[x] = 1 => \A c \in Calls : ~ Holds(c, x)
    /\ \A x \in Objects : pool[x] = 0 => \E c \in Calls : Holds(c, x)
    /\ \A x \in Objects : \A c, e \in Calls : Holds(c, x) /\ Holds(e, x) => c = e

\* The call whose Do runs, or whose body stream is open, owns its connection.
Owns(c) == do[c].at = "running" \/ do[c].stream

\* A busy connection has one owner; bytes are left on it only under a body stream.
ConnsAccounted ==
    /\ \A c \in Calls : Owns(c) => do[c].conn \in Slots /\ conns[do[c].conn].at = "busy"
    /\ \A c, e \in Calls : Owns(c) /\ Owns(e) /\ do[c].conn = do[e].conn => c = e
    /\ \A k \in Slots : conns[k].at = "busy" => \E c \in Calls : Owns(c) /\ do[c].conn = k
    /\ \A c \in Calls : do[c].at = "running" => ~ conns[do[c].conn].unread
    /\ \A k \in Slots : conns[k].at = "idle" => ~ conns[k].unread

UnaryInv == UnaryTyped /\ LaneHolds /\ ObjectsAccounted /\ ConnsAccounted

-----------------------------------------------------------------------------
(* Pools                                                                   *)

\* A nonempty set of naturals has a least member.
LEMMA LeastOf ==
  ASSUME NEW T, T \subseteq Nat, T # {}
  PROVE  \E x \in T : \A y \in T : x <= y
  <1> DEFINE R == OpToRel(<, Nat)
  <1>1. IsWellFoundedOn(R, Nat)
    BY NatLessThanWellFounded
  <1>2. \A x, y \in Nat : y < x => <<y, x>> \in R
    BY DEF OpToRel
  <1> HIDE DEF R
  <1>3. \E x \in T : \A y \in T : ~ (<<y, x>> \in R)
    BY <1>1, WFMin
  <1>4. PICK x \in T : \A y \in T : ~ (<<y, x>> \in R)
    BY <1>3
  <1>5. \A y \in T : x <= y
    <2> TAKE y \in T
    <2>1. x \in Nat /\ y \in Nat
      OBVIOUS
    <2>2. ~ (y < x)
      BY <1>2, <1>4, <2>1
    <2> QED
      BY <2>1, <2>2
  <1> QED
    BY <1>5

\* Get returns an object of the kind that is in the pool.
LEMMA GetTakes ==
  ASSUME NEW kind \in Kinds, Available({kind})
  PROVE  Get(kind) \in {kind} \X Slots /\ Get(kind) \in Objects /\ pool[Get(kind)] > 0
  <1> DEFINE T == {n \in Slots : pool[<<kind, n>>] > 0}
  <1>1. PICK x \in Objects : x[1] = kind /\ pool[x] > 0
    BY DEF Available
  <1>2. x[2] \in T
    BY <1>1 DEF Objects
  <1>3. PICK n \in T : \A m \in T : n <= m
    BY <1>2, LeastOf, UnaryAssumption
  <1>4. <<kind, n>> \in Objects /\ pool[<<kind, n>>] > 0
    BY DEF Objects
  <1>5. \A y \in Objects : y[1] = kind /\ pool[y] > 0 => n <= y[2]
    BY <1>3 DEF Objects
  <1>6. Get(kind) \in Objects /\ Get(kind)[1] = kind /\ pool[Get(kind)] > 0
    BY <1>4, <1>5 DEF Get
  <1> QED
    BY <1>6 DEF Objects

\* No object is the missing one, and kinds keep objects apart.
LEMMA KindsApart ==
  /\ NoObject \notin Objects
  /\ \A k \in Kinds : Some(k) \subseteq Objects \cup {NoObject}
  /\ \A x : x \in Some("request") /\ x \in Some("response") => x = NoObject
  /\ \A x : x \in Some("request") /\ x \in Some("buffer") => x = NoObject
  /\ \A x : x \in Some("response") /\ x \in Some("buffer") => x = NoObject
  BY DEF NoObject, Objects, Kinds, Some

\* A call takes objects out of their pools.
LEMMA TakeKeeps ==
  ASSUME ObjectsAccounted, NEW c \in Calls, NEW X \in SUBSET Objects,
         \A x \in X : pool[x] > 0, pool' = Take(X),
         \A x \in Objects : Holds(c, x)' <=> Holds(c, x) \/ x \in X,
         \A e \in Calls \ {c} : \A x \in Objects : Holds(e, x)' <=> Holds(e, x)
  PROVE  ObjectsAccounted'
  <1> HIDE DEF Holds
  <1>1. \A x \in Objects : pool[x] \in {0, 1} /\ (x \in X => pool[x] = 1)
    BY DEF ObjectsAccounted
  <1>2. \A x \in Objects : pool'[x] = IF x \in X THEN 0 ELSE pool[x]
    BY <1>1 DEF Take
  <1>3. pool' \in [Objects -> {0, 1}]
    BY <1>1, <1>2 DEF Take
  <1> QED
    BY <1>1, <1>2, <1>3 DEF ObjectsAccounted

\* A call puts back what it held.
LEMMA PutKeeps ==
  ASSUME ObjectsAccounted, NEW c \in Calls, NEW X,
         \A x \in Objects : x \in X => Holds(c, x), pool' = Put(X),
         \A x \in Objects : Holds(c, x)' <=> Holds(c, x) /\ x \notin X,
         \A e \in Calls \ {c} : \A x \in Objects : Holds(e, x)' <=> Holds(e, x)
  PROVE  ObjectsAccounted'
  <1> HIDE DEF Holds
  <1>1. \A x \in Objects : pool[x] \in {0, 1} /\ (x \in X => pool[x] = 0)
    BY DEF ObjectsAccounted
  <1>2. \A x \in Objects : pool'[x] = IF x \in X THEN 1 ELSE pool[x]
    BY <1>1 DEF Put
  <1>3. pool' \in [Objects -> {0, 1}]
    BY <1>1, <1>2 DEF Put
  <1> QED
    BY <1>1, <1>2, <1>3 DEF ObjectsAccounted

\* The pools and what the calls hold stay as they are.
LEMMA HoldKeeps ==
  ASSUME ObjectsAccounted, pool' = pool,
         \A e \in Calls : \A x \in Objects : Holds(e, x)' <=> Holds(e, x)
  PROVE  ObjectsAccounted'
  <1> HIDE DEF Holds
  <1> QED
    BY DEF ObjectsAccounted

-----------------------------------------------------------------------------
(* Connections                                                             *)

\* The missing values have the types of the variables that hold them.
LEMMA NothingTyped ==
  /\ NoDo \in Dos /\ NoDo.at = "none" /\ ~ NoDo.stream
  /\ NoResponse \in Responses /\ [NoResponse EXCEPT !.released = TRUE] \in Responses
  /\ \A k : NoObject \in Some(k)
  /\ [at |-> "none", host |-> <<>>, unread |-> FALSE] \in Connections
  BY DEF NoDo, Dos, NoResponse, Responses, Some, Connections, Hosts

\* The end of a body stream, or of a Do without one, gives the connection up.
LEMMA CloseKeeps ==
  ASSUME UnaryTyped, ConnsAccounted, NEW c \in Calls, NEW discard \in BOOLEAN,
         NEW unread \in BOOLEAN, unread => discard, do[c].at # "running",
         conns' = CloseBodyStream(c, discard, unread), do' = [do EXCEPT ![c] = NoDo]
  PROVE  conns' \in [Slots -> Connections] /\ ConnsAccounted'
  <1> DEFINE k == do[c].conn
             v == IF discard THEN [at |-> "none", host |-> <<>>, unread |-> FALSE]
                  ELSE [conns[k] EXCEPT !.at = "idle", !.unread = unread]
  <1>1. ~ Owns(c)' /\ \A e \in Calls \ {c} : do'[e] = do[e] /\ (Owns(e)' <=> Owns(e))
    BY NothingTyped DEF UnaryTyped, Owns
  <1>2. CASE ~ do[c].stream
    <2>1. conns' = conns /\ ~ Owns(c)
      BY <1>2 DEF CloseBodyStream, Owns
    <2> QED
      BY <1>1, <2>1 DEF ConnsAccounted, UnaryTyped, Owns
  <1>3. CASE do[c].stream
    <2>1. Owns(c) /\ k \in Slots /\ conns' = [conns EXCEPT ![k] = v]
      BY <1>3 DEF CloseBodyStream, Owns, ConnsAccounted
    <2>2. conns[k] \in Connections
      BY <2>1 DEF UnaryTyped
    <2>3. v \in Connections /\ v.at # "busy" /\ ~ v.unread
      BY <2>2, NothingTyped DEF Connections
    <2> HIDE DEF v, k
    <2>4. conns' \in [Slots -> Connections]
      BY <2>1, <2>3 DEF UnaryTyped
    <2>5. conns'[k] = v /\ \A l \in Slots \ {k} : conns'[l] = conns[l]
      BY <2>1 DEF UnaryTyped
    <2>6. \A e \in Calls \ {c} : Owns(e) => do[e].conn # k /\ do[e].conn \in Slots
      BY <2>1 DEF ConnsAccounted, k
    <2>7. \A e \in Calls \ {c} : do[e].at = "running" => Owns(e)
      BY DEF Owns
    <2>8. do'[c].at # "running"
      BY NothingTyped DEF UnaryTyped
    <2> HIDE DEF Owns
    <2>9. \A l \in Slots \ {k} : conns[l].at = "busy" => \E e \in Calls \ {c} : Owns(e) /\ do[e].conn = l
      BY DEF ConnsAccounted, k
    <2> QED
      BY <1>1, <2>1, <2>3, <2>4, <2>5, <2>6, <2>7, <2>8, <2>9 DEF ConnsAccounted
  <1> QED
    BY <1>2, <1>3

-----------------------------------------------------------------------------
(* What each action does to the call that takes it                         *)

\* The other calls keep their place and what they hold.
Others(c) ==
    \A e \in Calls \ {c} :
        /\ lane'[e] = lane[e] /\ do'[e] = do[e] /\ fReq'[e] = fReq[e] /\ fResp'[e] = fResp[e]
        /\ buf'[e] = buf[e] /\ resp'[e] = resp[e] /\ orphan'[e] = orphan[e]

\* net/http takes nothing; the fast lanes take a request and a response.
LEMMA DispatchRow ==
  ASSUME UnaryTyped, NEW c \in Calls, Dispatch(c)
  PROVE  /\ Others(c)
         /\ buf'[c] = buf[c] /\ resp'[c] = resp[c] /\ orphan'[c] = orphan[c]
         /\ lane[c] = "new"
         /\ \/ /\ lane'[c] = "net" /\ pool' = pool
               /\ do'[c] = do[c] /\ fReq'[c] = fReq[c] /\ fResp'[c] = fResp[c]
            \/ /\ lane'[c] \in {"buffered", "do", "select"} /\ Available({"request", "response"})
               /\ fReq'[c] = Get("request") /\ fResp'[c] = Get("response")
               /\ pool' = Take({Get("request"), Get("response")})
               /\ do'[c] = [do[c] EXCEPT !.at = "ready"]
  BY DEF Dispatch, Others, UnaryTyped

\* The buffered lane ends and keeps at most its response, under the Response.
LEMMA BufferedRow ==
  ASSUME UnaryTyped, NEW c \in Calls, Buffered(c)
  PROVE  /\ Others(c)
         /\ fReq'[c] = NoObject /\ fResp'[c] = NoObject /\ do'[c] = NoDo
         /\ buf'[c] = buf[c] /\ orphan'[c] = orphan[c]
         /\ lane[c] = "buffered"
         /\ \/ lane'[c] = "over" /\ resp'[c] = resp[c] /\ pool' = Put({fReq[c], fResp[c]})
            \/ /\ lane'[c] \in {"own", "hold"} /\ pool' = Put({fReq[c]})
               /\ resp'[c] = [resp[c] EXCEPT !.fastResp = fResp[c]]
  BY DEF Buffered, BufferedFails, Return, Lend, Forget, Others, UnaryTyped

\* A failed Do gives its objects back; a success takes a drain buffer.
LEMMA StatusRow ==
  ASSUME UnaryTyped, NEW c \in Calls, Status(c)
  PROVE  /\ Others(c)
         /\ resp'[c] = resp[c] /\ orphan'[c] = orphan[c]
         /\ lane[c] = "status"
         /\ \/ /\ lane'[c] = "over" /\ buf'[c] = buf[c] /\ pool' = Put({fReq[c], fResp[c]})
               /\ fReq'[c] = NoObject /\ fResp'[c] = NoObject /\ do'[c] = NoDo
               /\ do[c].out = "error"
            \/ /\ lane'[c] = "errorBody" /\ buf'[c] = buf[c] /\ pool' = pool
               /\ do'[c] = do[c] /\ fReq'[c] = fReq[c] /\ fResp'[c] = fResp[c]
            \/ /\ lane'[c] = "drain" /\ Available({"buffer"})
               /\ buf'[c] = Get("buffer") /\ pool' = Take({Get("buffer")})
               /\ do'[c] = do[c] /\ fReq'[c] = fReq[c] /\ fResp'[c] = fResp[c]
  BY DEF Status, Return, Forget, Others, UnaryTyped

\* An error body ends the call.
LEMMA ErrorBodyRow ==
  ASSUME UnaryTyped, NEW c \in Calls, ErrorBody(c)
  PROVE  /\ Others(c)
         /\ fReq'[c] = NoObject /\ fResp'[c] = NoObject /\ do'[c] = NoDo
         /\ buf'[c] = buf[c] /\ resp'[c] = resp[c] /\ orphan'[c] = orphan[c]
         /\ lane[c] = "errorBody" /\ lane'[c] = "over" /\ pool' = Put({fReq[c], fResp[c]})
  BY DEF ErrorBody, Return, Forget, Others, UnaryTyped

\* The drained body keeps the buffer, under the Response, or nothing.
LEMMA DrainRow ==
  ASSUME UnaryTyped, NEW c \in Calls, Drain(c)
  PROVE  /\ Others(c)
         /\ fReq'[c] = NoObject /\ fResp'[c] = NoObject /\ do'[c] = NoDo
         /\ orphan'[c] = orphan[c]
         /\ lane[c] = "drain" /\ buf'[c] = NoObject
         /\ \/ lane'[c] = "over" /\ resp'[c] = resp[c] /\ pool' = Put({fReq[c], fResp[c], buf[c]})
            \/ /\ lane'[c] \in {"own", "hold"} /\ pool' = Put({fReq[c], fResp[c]})
               /\ resp'[c] = [resp[c] EXCEPT !.drainBuf = buf[c]]
  BY DEF Drain, Return, Lend, Forget, Others, UnaryTyped

\* The cleanup goroutine returns what the cancelled call left.
LEMMA CleanupRow ==
  ASSUME UnaryTyped, NEW c \in Calls, Cleanup(c)
  PROVE  /\ Others(c)
         /\ fReq'[c] = NoObject /\ fResp'[c] = NoObject /\ do'[c] = NoDo
         /\ lane'[c] = lane[c] /\ buf'[c] = buf[c] /\ resp'[c] = resp[c]
         /\ orphan[c] /\ ~ orphan'[c] /\ do[c].at = "done" /\ pool' = Put({fReq[c], fResp[c]})
  BY DEF Cleanup, Forget, Others, UnaryTyped

\* The copy of the body is owned.
LEMMA OwnRow ==
  ASSUME UnaryTyped, NEW c \in Calls, Own(c)
  PROVE  /\ Others(c)
         /\ do'[c] = do[c] /\ fReq'[c] = fReq[c] /\ fResp'[c] = fResp[c] /\ buf'[c] = buf[c] /\ orphan'[c] = orphan[c]
         /\ lane[c] = "own" /\ lane'[c] = "over"
         /\ pool' = IF resp[c].released THEN pool ELSE Put(Borrowed(c))
         /\ resp'[c] = [NoResponse EXCEPT !.released = TRUE]
  BY DEF Own, Return, ReleaseBorrow, Others, UnaryTyped

\* The consumer is done with the body.
LEMMA ConsumerReleasesRow ==
  ASSUME UnaryTyped, NEW c \in Calls, ConsumerReleases(c)
  PROVE  /\ Others(c)
         /\ do'[c] = do[c] /\ fReq'[c] = fReq[c] /\ fResp'[c] = fResp[c] /\ buf'[c] = buf[c] /\ orphan'[c] = orphan[c]
         /\ lane[c] \in {"hold", "released"} /\ lane'[c] = "released"
         /\ pool' = IF resp[c].released THEN pool ELSE Put(Borrowed(c))
         /\ resp'[c] = [NoResponse EXCEPT !.released = TRUE]
  BY DEF ConsumerReleases, ReleaseBorrow, Others, UnaryTyped

\* Do gets a connection.
LEMMA DoBeginRow ==
  ASSUME UnaryTyped, NEW c \in Calls, DoBegin(c)
  PROVE  /\ Others(c)
         /\ lane'[c] = lane[c] /\ fReq'[c] = fReq[c] /\ fResp'[c] = fResp[c] /\ buf'[c] = buf[c] /\ resp'[c] = resp[c] /\ orphan'[c] = orphan[c]
         /\ pool' = pool /\ do[c].at = "ready"
         /\ \E k \in Slots :
               /\ do'[c] = [do[c] EXCEPT !.at = "running", !.conn = k]
               /\ conns[k].at # "busy"
               /\ conns' = [conns EXCEPT ![k] = [at |-> "busy", host |-> HostOf(c),
                     unread |-> conns[k].at = "idle" /\ conns[k].host = HostOf(c) /\ conns[k].unread]]
  BY DEF DoBegin, Others, UnaryTyped

\* Do comes back, with its connection under a body stream or without.
LEMMA DoReturnsRow ==
  ASSUME UnaryTyped, NEW c \in Calls, DoReturns(c)
  PROVE  /\ Others(c)
         /\ lane'[c] = lane[c] /\ fReq'[c] = fReq[c] /\ fResp'[c] = fResp[c] /\ buf'[c] = buf[c] /\ resp'[c] = resp[c] /\ orphan'[c] = orphan[c]
         /\ pool' = pool /\ do[c].at = "running"
         /\ \/ /\ \E out \in {"error", "tooLarge"} : do'[c] = [at |-> "done", out |-> out, conn |-> do[c].conn, stream |-> FALSE]
               /\ conns' = [conns EXCEPT ![do[c].conn] =
                                [at |-> "none", host |-> <<>>, unread |-> FALSE]]
            \/ /\ \E out \in {"non2xx", "ok"} : do'[c] = [at |-> "done", out |-> out, conn |-> do[c].conn, stream |-> FALSE]
               /\ conns' = [conns EXCEPT ![do[c].conn] = [conns[do[c].conn] EXCEPT !.at = "idle"]]
            \/ /\ lane[c] # "buffered"
               /\ \E out \in {"non2xx", "ok"} : do'[c] = [at |-> "done", out |-> out, conn |-> do[c].conn, stream |-> TRUE]
               /\ conns' = [conns EXCEPT ![do[c].conn] = [conns[do[c].conn] EXCEPT !.unread = TRUE]]
  <1> DEFINE k == do[c].conn
             Ans(out, s) == [at |-> "done", out |-> out, conn |-> k, stream |-> s]
  <1>1. /\ \E out, s : do' = [do EXCEPT ![c] = Ans(out, s)]
        /\ UNCHANGED <<lane, fReq, fResp, buf, resp, orphan, pool>> /\ do[c].at = "running"
    BY DEF DoReturns
  <1>2. Others(c)
    BY <1>1 DEF Others, UnaryTyped
  <1>3. \A out, s : do' = [do EXCEPT ![c] = Ans(out, s)] => do'[c] = Ans(out, s)
    BY DEF UnaryTyped
  <1>4. \/ /\ \E out \in {"error", "tooLarge"} : do' = [do EXCEPT ![c] = Ans(out, FALSE)]
           /\ conns' = [conns EXCEPT ![k] = [at |-> "none", host |-> <<>>, unread |-> FALSE]]
        \/ /\ \E out \in {"non2xx", "ok"} : do' = [do EXCEPT ![c] = Ans(out, FALSE)]
           /\ conns' = [conns EXCEPT ![k] = [conns[k] EXCEPT !.at = "idle"]]
        \/ /\ lane[c] # "buffered"
           /\ \E out \in {"non2xx", "ok"} : do' = [do EXCEPT ![c] = Ans(out, TRUE)]
           /\ conns' = [conns EXCEPT ![k] = [conns[k] EXCEPT !.unread = TRUE]]
    BY DEF DoReturns
  <1> QED
    BY <1>1, <1>2, <1>3, <1>4

\* A step of one call keeps what the others hold.
LEMMA LaneLocal ==
  ASSUME LaneHolds, NEW c \in Calls, Others(c), LaneOf(c)'
  PROVE  LaneHolds'
  <1> SUFFICES ASSUME NEW e \in Calls, e # c PROVE LaneOf(e)'
    BY DEF LaneHolds
  <1> QED
    BY DEF LaneHolds, LaneOf, HasDo, Others

\* What another call holds is read off its own fields.
LEMMA HoldsLocal ==
  ASSUME NEW c \in Calls, Others(c)
  PROVE  \A e \in Calls \ {c} : \A x : Holds(e, x)' <=> Holds(e, x)
  BY DEF Others, Holds

-----------------------------------------------------------------------------
(* Steps                                                                   *)

\* The cache does not change what a call asks for.
LEMMA OriginStays == CacheNext => origin' = origin
  BY DEF CacheNext, ResolveStep, FlightStep, Lookup, Join, Receive, GiveUp, FlightRecheck,
     FlightProbe, FlightLock, FlightLoad, FlightStore, FlightDone

\* Every step keeps the types.
LEMMA TypedStep ==
  UnaryInv /\ [UnaryNext]_<<cacheVars, unaryVars>> => UnaryTyped'
  <1> SUFFICES ASSUME UnaryInv, [UnaryNext]_<<cacheVars, unaryVars>> PROVE UnaryTyped'
    OBVIOUS
  <1> USE DEF UnaryInv, UnaryTyped
  <1>1. CASE UNCHANGED unaryVars /\ origin' = origin
    BY <1>1 DEF unaryVars
  <1>2. ASSUME NEW c \in Calls, Dispatch(c) PROVE UnaryTyped'
    <2>1. entry[c].decision = "fast" => Get("request") \in Some("request") /\ Get("response") \in Some("response")
      BY <1>2, GetTakes DEF Dispatch, Available, Kinds, Some
    <2>2. lane' \in [Calls -> Lanes]
      BY <1>2 DEF Dispatch, Lanes
    <2>3. do' \in [Calls -> Dos]
      <3>1. [do[c] EXCEPT !.at = "ready"] \in Dos
        BY DEF Dos
      <3> QED
        BY <1>2, <3>1 DEF Dispatch
    <2>4. fReq' \in [Calls -> Some("request")] /\ fResp' \in [Calls -> Some("response")]
      BY <1>2, <2>1 DEF Dispatch
    <2> QED
      BY <1>2, <2>1, <2>2, <2>3, <2>4 DEF Dispatch, cacheVars
  <1>3. ASSUME NEW c \in Calls, NetHTTP(c) PROVE UnaryTyped'
    <2>1. lane' \in [Calls -> Lanes]
      BY <1>3 DEF NetHTTP, Return, Lanes
    <2> QED
      BY <1>3, <2>1 DEF NetHTTP, cacheVars
  <1>4. ASSUME NEW c \in Calls, Buffered(c) PROVE UnaryTyped'
    <2>1. lane' \in [Calls -> Lanes]
      BY <1>4 DEF Buffered, Return, Lend, Lanes
    <2>2. do' \in [Calls -> Dos]
      BY <1>4, NothingTyped DEF Buffered
    <2>3. fReq' \in [Calls -> Some("request")] /\ fResp' \in [Calls -> Some("response")]
      BY <1>4, NothingTyped DEF Buffered, Forget
    <2>4. resp' \in [Calls -> Responses]
      BY <1>4 DEF Buffered, Responses
    <2> QED
      BY <1>4, <2>1, <2>2, <2>3, <2>4 DEF Buffered, cacheVars
  <1>5. ASSUME NEW c \in Calls, DoAnswered(c) PROVE UnaryTyped'
    <2>1. lane' \in [Calls -> Lanes]
      BY <1>5 DEF DoAnswered, Lanes
    <2> QED
      BY <1>5, <2>1 DEF DoAnswered, cacheVars
  <1>6. ASSUME NEW c \in Calls, Abandon(c) PROVE UnaryTyped'
    <2>1. lane' \in [Calls -> Lanes]
      BY <1>6 DEF Abandon, Return, Lanes
    <2>2. orphan' \in [Calls -> BOOLEAN]
      BY <1>6 DEF Abandon, HandOff
    <2> QED
      BY <1>6, <2>1, <2>2 DEF Abandon, cacheVars
  <1>7. ASSUME NEW c \in Calls, Status(c) PROVE UnaryTyped'
    <2>1. do[c].out = "ok" /\ Available({"buffer"}) => Get("buffer") \in Some("buffer")
      BY GetTakes DEF Kinds, Some
    <2>2. lane' \in [Calls -> Lanes]
      BY <1>7 DEF Status, Return, Lanes
    <2>3. do' \in [Calls -> Dos]
      BY <1>7, NothingTyped DEF Status
    <2>4. fReq' \in [Calls -> Some("request")] /\ fResp' \in [Calls -> Some("response")]
      BY <1>7, NothingTyped DEF Status, Forget
    <2>5. buf' \in [Calls -> Some("buffer")]
      BY <1>7, <2>1 DEF Status
    <2> QED
      BY <1>7, <2>1, <2>2, <2>3, <2>4, <2>5 DEF Status, cacheVars
  <1>8. ASSUME NEW c \in Calls, ErrorBody(c) PROVE UnaryTyped'
    <2>1. lane' \in [Calls -> Lanes]
      BY <1>8 DEF ErrorBody, Return, Lanes
    <2>2. do' \in [Calls -> Dos]
      BY <1>8, NothingTyped DEF ErrorBody
    <2>3. fReq' \in [Calls -> Some("request")] /\ fResp' \in [Calls -> Some("response")]
      BY <1>8, NothingTyped DEF ErrorBody, Forget
    <2>4. conns' \in [Slots -> Connections]
      BY <1>8, CloseKeeps DEF ErrorBody, LaneHolds, LaneOf
    <2> QED
      BY <1>8, <2>1, <2>2, <2>3, <2>4 DEF ErrorBody, cacheVars
  <1>9. ASSUME NEW c \in Calls, Drain(c) PROVE UnaryTyped'
    <2>1. lane' \in [Calls -> Lanes]
      BY <1>9 DEF Drain, Return, Lend, Lanes
    <2>2. do' \in [Calls -> Dos]
      BY <1>9, NothingTyped DEF Drain
    <2>3. fReq' \in [Calls -> Some("request")] /\ fResp' \in [Calls -> Some("response")]
      BY <1>9, NothingTyped DEF Drain, Forget
    <2>4. buf' \in [Calls -> Some("buffer")]
      BY <1>9, NothingTyped DEF Drain
    <2>5. resp' \in [Calls -> Responses]
      BY <1>9, ZenonT(40) DEF Drain, Responses
    <2>6. conns' \in [Slots -> Connections]
      BY <1>9, CloseKeeps DEF Drain, LaneHolds, LaneOf
    <2> QED
      BY <1>9, <2>1, <2>2, <2>3, <2>4, <2>5, <2>6 DEF Drain, cacheVars
  <1>10. ASSUME NEW c \in Calls, Own(c) PROVE UnaryTyped'
    <2>1. lane' \in [Calls -> Lanes]
      BY <1>10 DEF Own, Return, Lanes
    <2>2. resp' \in [Calls -> Responses]
      BY <1>10, NothingTyped DEF Own, ReleaseBorrow
    <2> QED
      BY <1>10, <2>1, <2>2 DEF Own, cacheVars
  <1>11. ASSUME NEW c \in Calls, DoBegin(c) PROVE UnaryTyped'
    <2>1. HostOf(c) \in Hosts
      BY DEF HostOf, Hosts
    <2>2. do' \in [Calls -> Dos]
      <3>1. \A k \in Slots : [do[c] EXCEPT !.at = "running", !.conn = k] \in Dos
        BY DEF Dos
      <3>2. \E k \in Slots : do' = [do EXCEPT ![c] = [do[c] EXCEPT !.at = "running", !.conn = k]]
        BY <1>11 DEF DoBegin
      <3> QED
        BY <3>1, <3>2
    <2>3. conns' \in [Slots -> Connections]
      BY <1>11, <2>1 DEF DoBegin, Connections
    <2> QED
      BY <1>11, <2>1, <2>2, <2>3 DEF DoBegin, cacheVars
  <1>12. ASSUME NEW c \in Calls, DoReturns(c) PROVE UnaryTyped'
    <2>1. do[c].conn \in Slots /\ do[c] \in Dos /\ conns[do[c].conn] \in Connections
      BY <1>12 DEF DoReturns, ConnsAccounted, Owns
    <2>2. do' \in [Calls -> Dos]
      <3>1. \A out \in {"error", "tooLarge", "non2xx", "ok"}, s \in BOOLEAN :
              [at |-> "done", out |-> out, conn |-> do[c].conn, stream |-> s] \in Dos
        BY <2>1 DEF Dos
      <3>2. \E out \in {"error", "tooLarge", "non2xx", "ok"}, s \in BOOLEAN :
              do' = [do EXCEPT ![c] = [at |-> "done", out |-> out, conn |-> do[c].conn, stream |-> s]]
        BY <1>12 DEF DoReturns
      <3> QED
        BY <3>1, <3>2
    <2>3. conns' \in [Slots -> Connections]
      <3> DEFINE k == do[c].conn
      <3>1. /\ [conns[k] EXCEPT !.at = "idle"] \in Connections
            /\ [conns[k] EXCEPT !.unread = TRUE] \in Connections
        BY <2>1 DEF Connections
      <3>2. \/ conns' = [conns EXCEPT ![k] = [at |-> "none", host |-> <<>>, unread |-> FALSE]]
            \/ conns' = [conns EXCEPT ![k] = [conns[k] EXCEPT !.at = "idle"]]
            \/ conns' = [conns EXCEPT ![k] = [conns[k] EXCEPT !.unread = TRUE]]
        BY <1>12 DEF DoReturns
      <3> QED
        BY <2>1, <3>1, <3>2, NothingTyped
    <2> QED
      BY <1>12, <2>1, <2>2, <2>3 DEF DoReturns, cacheVars
  <1>13. ASSUME NEW c \in Calls, Cleanup(c) PROVE UnaryTyped'
    <2>1. orphan' \in [Calls -> BOOLEAN]
      BY <1>13 DEF Cleanup
    <2>2. do' \in [Calls -> Dos]
      BY <1>13, NothingTyped DEF Cleanup
    <2>3. fReq' \in [Calls -> Some("request")] /\ fResp' \in [Calls -> Some("response")]
      BY <1>13, NothingTyped DEF Cleanup, Forget
    <2>4. conns' \in [Slots -> Connections]
      BY <1>13, CloseKeeps DEF Cleanup, OrphanDiscards
    <2> QED
      BY <1>13, <2>1, <2>2, <2>3, <2>4 DEF Cleanup, cacheVars
  <1>14. ASSUME NEW c \in Calls, ConsumerReleases(c) PROVE UnaryTyped'
    <2>1. lane' \in [Calls -> Lanes]
      BY <1>14 DEF ConsumerReleases, Lanes
    <2>2. resp' \in [Calls -> Responses]
      BY <1>14, NothingTyped DEF ConsumerReleases, ReleaseBorrow
    <2> QED
      BY <1>14, <2>1, <2>2 DEF ConsumerReleases, cacheVars
  <1>15. ASSUME NEW c \in Calls, CallContextEnds(c) PROVE UnaryTyped'
    BY <1>15, <1>1 DEF CallContextEnds, ContextEnds
  <1>16. CASE UNCHANGED <<cacheVars, unaryVars>>
    BY <1>1, <1>16 DEF cacheVars
  <1>17. CASE CacheNext /\ UNCHANGED unaryVars
    BY <1>1, <1>17, OriginStays
  <1> QED
    BY <1>2, <1>3, <1>4, <1>5, <1>6, <1>7, <1>8, <1>9, <1>10, <1>11, <1>12, <1>13, <1>14, <1>15, <1>16, <1>17
    DEF UnaryNext, CallStep

\* What each call holds.
LEMMA LaneStep ==
  UnaryInv /\ [UnaryNext]_<<cacheVars, unaryVars>> => LaneHolds'
  <1> SUFFICES ASSUME UnaryInv, [UnaryNext]_<<cacheVars, unaryVars>> PROVE LaneHolds'
    OBVIOUS
  <1> USE DEF UnaryInv
  <1>1. CASE UNCHANGED unaryVars /\ origin' = origin
    BY <1>1 DEF unaryVars, LaneHolds, LaneOf, HasDo
  <1>2. ASSUME NEW c \in Calls, Dispatch(c) PROVE LaneHolds'
    <2>1. LaneOf(c) /\ do[c] \in Dos /\ resp[c] \in Responses /\ UnaryTyped
      BY DEF LaneHolds, UnaryTyped
    <2>2. /\ lane[c] = "new" /\ buf'[c] = buf[c] /\ resp'[c] = resp[c] /\ orphan'[c] = orphan[c]
          /\ \/ /\ lane'[c] = "net" /\ do'[c] = do[c] /\ fReq'[c] = fReq[c] /\ fResp'[c] = fResp[c]
             \/ /\ lane'[c] \in {"buffered", "do", "select"} /\ do'[c].at = "ready"
                /\ do'[c].stream = do[c].stream /\ fReq'[c] # NoObject /\ fResp'[c] # NoObject
      <3>1. /\ Available({"request", "response"}) => Available({"request"}) /\ Available({"response"})
            /\ "request" \in Kinds /\ "response" \in Kinds
        BY DEF Available, Kinds
      <3>2. Available({"request", "response"}) => Get("request") # NoObject /\ Get("response") # NoObject
        BY <3>1, GetTakes, KindsApart
      <3>3. /\ [do[c] EXCEPT !.at = "ready"].at = "ready"
            /\ [do[c] EXCEPT !.at = "ready"].stream = do[c].stream
        BY <2>1 DEF Dos
      <3> QED
        BY <1>2, <2>1, <3>2, <3>3, DispatchRow
    <2>3. LaneOf(c)'
      BY <2>1, <2>2, NothingTyped DEF LaneOf, HasDo
    <2> QED
      BY <1>2, <2>1, <2>3, DispatchRow, LaneLocal
  <1>3. ASSUME NEW c \in Calls, NetHTTP(c) PROVE LaneHolds'
    BY <1>3 DEF NetHTTP, Return, LaneHolds, LaneOf, HasDo, UnaryTyped
  <1>4. ASSUME NEW c \in Calls, Buffered(c) PROVE LaneHolds'
    <2>1. LaneOf(c) /\ do[c] \in Dos /\ resp[c] \in Responses /\ UnaryTyped
      BY DEF LaneHolds, UnaryTyped
    <2>2. /\ fReq'[c] = NoObject /\ fResp'[c] = NoObject /\ do'[c] = NoDo /\ buf'[c] = buf[c]
          /\ orphan'[c] = orphan[c] /\ lane[c] = "buffered" /\ lane'[c] \in {"over", "own", "hold"}
          /\ resp'[c].released = resp[c].released /\ (lane'[c] = "over" => resp'[c] = resp[c])
      BY <1>4, <2>1, BufferedRow DEF Responses
    <2>3. LaneOf(c)'
      BY <2>1, <2>2, NothingTyped DEF LaneOf, HasDo
    <2> QED
      BY <1>4, <2>1, <2>3, BufferedRow, LaneLocal
  <1>5. ASSUME NEW c \in Calls, DoAnswered(c) PROVE LaneHolds'
    BY <1>5 DEF DoAnswered, LaneHolds, LaneOf, HasDo, UnaryTyped
  <1>6. ASSUME NEW c \in Calls, Abandon(c) PROVE LaneHolds'
    BY <1>6 DEF Abandon, Return, HandOff, LaneHolds, LaneOf, HasDo, UnaryTyped
  <1>7. ASSUME NEW c \in Calls, Status(c) PROVE LaneHolds'
    <2>1. Available({"buffer"}) => Get("buffer") # NoObject
      BY GetTakes, KindsApart DEF Kinds
    <2>2. LaneOf(c) /\ do[c] \in Dos /\ resp[c] \in Responses /\ UnaryTyped
      BY DEF LaneHolds, UnaryTyped
    <2>3. LaneOf(c)'
      BY <1>7, <2>1, <2>2, StatusRow, NothingTyped, ZenonT(40) DEF LaneOf, HasDo, Dos, Responses
    <2> QED
      BY <1>7, <2>2, <2>3, StatusRow, LaneLocal
  <1>8. ASSUME NEW c \in Calls, ErrorBody(c) PROVE LaneHolds'
    <2>1. LaneOf(c) /\ do[c] \in Dos /\ resp[c] \in Responses /\ UnaryTyped
      BY DEF LaneHolds, UnaryTyped
    <2>2. LaneOf(c)'
      BY <1>8, <2>1, ErrorBodyRow, NothingTyped DEF LaneOf, HasDo, Dos, Responses
    <2> QED
      BY <1>8, <2>1, <2>2, ErrorBodyRow, LaneLocal
  <1>9. ASSUME NEW c \in Calls, Drain(c) PROVE LaneHolds'
    <2>1. LaneOf(c) /\ do[c] \in Dos /\ resp[c] \in Responses /\ UnaryTyped
      BY DEF LaneHolds, UnaryTyped
    <2>2. /\ fReq'[c] = NoObject /\ fResp'[c] = NoObject /\ do'[c] = NoDo /\ buf'[c] = NoObject
          /\ orphan'[c] = orphan[c] /\ lane[c] = "drain" /\ lane'[c] \in {"over", "own", "hold"}
          /\ resp'[c].released = resp[c].released /\ (lane'[c] = "over" => resp'[c] = resp[c])
      <3>1. [resp[c] EXCEPT !.drainBuf = buf[c]].released = resp[c].released
        BY <2>1 DEF Responses
      <3> QED
        BY <1>9, <2>1, <3>1, DrainRow
    <2>3. LaneOf(c)'
      BY <2>1, <2>2, NothingTyped DEF LaneOf, HasDo
    <2> QED
      BY <1>9, <2>1, <2>3, DrainRow, LaneLocal
  <1>10. ASSUME NEW c \in Calls, Own(c) PROVE LaneHolds'
    <2>1. LaneOf(c) /\ do[c] \in Dos /\ resp[c] \in Responses /\ UnaryTyped
      BY DEF LaneHolds, UnaryTyped
    <2>2. LaneOf(c)'
      BY <1>10, <2>1, OwnRow, NothingTyped DEF LaneOf, HasDo, Dos, Responses, NoResponse
    <2> QED
      BY <1>10, <2>1, <2>2, OwnRow, LaneLocal
  <1>11. ASSUME NEW c \in Calls, DoBegin(c) PROVE LaneHolds'
    <2>1. LaneOf(c) /\ do[c] \in Dos /\ resp[c] \in Responses /\ UnaryTyped
      BY DEF LaneHolds, UnaryTyped
    <2>2. /\ lane'[c] = lane[c] /\ fReq'[c] = fReq[c] /\ fResp'[c] = fResp[c] /\ buf'[c] = buf[c]
          /\ resp'[c] = resp[c] /\ orphan'[c] = orphan[c] /\ do[c].at = "ready" /\ do'[c].at = "running"
          /\ do'[c].stream = do[c].stream
      BY <1>11, <2>1, DoBeginRow DEF Dos
    <2>3. LaneOf(c)'
      BY <2>1, <2>2, NothingTyped DEF LaneOf, HasDo
    <2> QED
      BY <1>11, <2>1, <2>3, DoBeginRow, LaneLocal
  <1>12. ASSUME NEW c \in Calls, DoReturns(c) PROVE LaneHolds'
    <2>1. LaneOf(c) /\ do[c] \in Dos /\ resp[c] \in Responses /\ UnaryTyped
      BY DEF LaneHolds, UnaryTyped
    <2>2. /\ lane'[c] = lane[c] /\ fReq'[c] = fReq[c] /\ fResp'[c] = fResp[c] /\ buf'[c] = buf[c]
          /\ resp'[c] = resp[c] /\ orphan'[c] = orphan[c] /\ do[c].at = "running" /\ do'[c].at = "done"
          /\ do'[c].stream => do'[c].out # "error" /\ lane[c] # "buffered"
      <3>1. PICK out \in {"error", "tooLarge", "non2xx", "ok"}, s \in BOOLEAN :
              /\ do'[c] = [at |-> "done", out |-> out, conn |-> do[c].conn, stream |-> s]
              /\ s => out # "error" /\ lane[c] # "buffered"
        BY <1>12, <2>1, DoReturnsRow
      <3>2. do'[c].at = "done" /\ do'[c].out = out /\ do'[c].stream = s
        BY <3>1
      <3> QED
        BY <1>12, <2>1, <3>1, <3>2, DoReturnsRow
    <2>3. LaneOf(c)'
      BY <2>1, <2>2, NothingTyped DEF LaneOf, HasDo
    <2> QED
      BY <1>12, <2>1, <2>3, DoReturnsRow, LaneLocal
  <1>13. ASSUME NEW c \in Calls, Cleanup(c) PROVE LaneHolds'
    <2>1. LaneOf(c) /\ do[c] \in Dos /\ resp[c] \in Responses /\ UnaryTyped
      BY DEF LaneHolds, UnaryTyped
    <2>2. LaneOf(c)'
      BY <1>13, <2>1, CleanupRow, NothingTyped DEF LaneOf, HasDo, Dos, Responses
    <2> QED
      BY <1>13, <2>1, <2>2, CleanupRow, LaneLocal
  <1>14. ASSUME NEW c \in Calls, ConsumerReleases(c) PROVE LaneHolds'
    <2>1. LaneOf(c) /\ do[c] \in Dos /\ resp[c] \in Responses /\ UnaryTyped
      BY DEF LaneHolds, UnaryTyped
    <2>2. LaneOf(c)'
      BY <1>14, <2>1, ConsumerReleasesRow, NothingTyped DEF LaneOf, HasDo, Dos, Responses, NoResponse
    <2> QED
      BY <1>14, <2>1, <2>2, ConsumerReleasesRow, LaneLocal
  <1>15. ASSUME NEW c \in Calls, CallContextEnds(c) PROVE LaneHolds'
    BY <1>15, <1>1 DEF CallContextEnds, ContextEnds
  <1>16. CASE UNCHANGED <<cacheVars, unaryVars>>
    BY <1>1, <1>16 DEF cacheVars
  <1>17. CASE CacheNext /\ UNCHANGED unaryVars
    BY <1>1, <1>17, OriginStays
  <1> QED
    BY <1>2, <1>3, <1>4, <1>5, <1>6, <1>7, <1>8, <1>9, <1>10, <1>11, <1>12, <1>13, <1>14, <1>15, <1>16, <1>17
    DEF UnaryNext, CallStep

\* Objects go from their pool to one call and back.
LEMMA ObjectsStep ==
  UnaryInv /\ [UnaryNext]_<<cacheVars, unaryVars>> => ObjectsAccounted'
  <1> SUFFICES ASSUME UnaryInv, [UnaryNext]_<<cacheVars, unaryVars>> PROVE ObjectsAccounted'
    OBVIOUS
  <1> USE DEF UnaryInv
  <1>1. CASE UNCHANGED unaryVars /\ origin' = origin
    BY <1>1, HoldKeeps DEF unaryVars, Holds
  <1>2. ASSUME NEW c \in Calls, Dispatch(c) PROVE ObjectsAccounted'
    <2>1. /\ UnaryTyped /\ LaneOf(c) /\ ObjectsAccounted /\ NoObject \notin Objects
          /\ fReq[c] \in Some("request") /\ fResp[c] \in Some("response")
          /\ buf[c] \in Some("buffer") /\ resp[c] \in Responses
      BY KindsApart DEF UnaryTyped, LaneHolds
    <2>2. CASE lane'[c] = "net"
      <3>1. pool' = pool /\ Others(c) /\ (\A x : Holds(c, x)' <=> Holds(c, x))
        BY <1>2, <2>1, <2>2, DispatchRow DEF Holds
      <3> QED
        BY <2>1, <3>1, HoldKeeps, HoldsLocal
    <2>3. CASE lane'[c] # "net"
      <3> DEFINE r == Get("request")
                 s == Get("response")
      <3>1. /\ Others(c) /\ pool' = Take({r, s}) /\ Available({"request", "response"}) /\ lane[c] = "new"
            /\ fReq'[c] = r /\ fResp'[c] = s /\ buf'[c] = buf[c] /\ resp'[c] = resp[c]
        BY <1>2, <2>1, <2>3, DispatchRow
      <3>2. Available({"request"}) /\ Available({"response"}) /\ "request" \in Kinds /\ "response" \in Kinds
        BY <3>1 DEF Available, Kinds
      <3>3. r \in Objects /\ s \in Objects /\ pool[r] > 0 /\ pool[s] > 0
        BY <3>2, GetTakes
      <3>4. fReq[c] = NoObject /\ fResp[c] = NoObject
        BY <2>1, <3>1 DEF LaneOf, HasDo
      <3> HIDE DEF r, s
      <3>5. \A x \in Objects : Holds(c, x)' <=> Holds(c, x) \/ x \in {r, s}
        BY <2>1, <3>1, <3>4 DEF Holds
      <3> QED
        BY <2>1, <3>1, <3>3, <3>5, TakeKeeps, HoldsLocal
    <2> QED
      BY <2>2, <2>3
  <1>3. ASSUME NEW c \in Calls, NetHTTP(c) PROVE ObjectsAccounted'
    <2>1. pool' = pool /\ UNCHANGED <<fReq, fResp, buf, resp>>
      BY <1>3 DEF NetHTTP
    <2> QED
      BY <2>1, HoldKeeps DEF Holds
  <1>4. ASSUME NEW c \in Calls, Buffered(c) PROVE ObjectsAccounted'
    <2>1. /\ UnaryTyped /\ LaneOf(c) /\ ObjectsAccounted /\ NoObject \notin Objects
          /\ fReq[c] \in Some("request") /\ fResp[c] \in Some("response")
          /\ buf[c] \in Some("buffer") /\ resp[c] \in Responses
      BY KindsApart DEF UnaryTyped, LaneHolds
    <2>2. /\ Others(c) /\ fReq'[c] = NoObject /\ fResp'[c] = NoObject /\ buf'[c] = buf[c]
          /\ lane[c] = "buffered"
      BY <1>4, <2>1, BufferedRow
    <2>3. /\ fReq[c] # NoObject /\ fResp[c] # NoObject /\ fReq[c] # fResp[c] /\ buf[c] = NoObject
          /\ resp[c].fastResp = NoObject /\ resp[c].drainBuf = NoObject
      BY <2>1, <2>2, KindsApart DEF LaneOf, HasDo
    <2>4. CASE resp'[c] = resp[c] /\ pool' = Put({fReq[c], fResp[c]})
      <3>1. \A x \in Objects : Holds(c, x)' <=> Holds(c, x) /\ x \notin {fReq[c], fResp[c]}
        BY <2>1, <2>2, <2>3, <2>4 DEF Holds
      <3>2. \A x \in {fReq[c], fResp[c]} : Holds(c, x)
        BY DEF Holds
      <3> QED
        BY <2>1, <2>2, <2>4, <3>1, <3>2, PutKeeps, HoldsLocal
    <2>5. CASE resp'[c] = [resp[c] EXCEPT !.fastResp = fResp[c]] /\ pool' = Put({fReq[c]})
      <3>1. resp'[c].fastResp = fResp[c] /\ resp'[c].drainBuf = NoObject
        BY <2>1, <2>3, <2>5 DEF Responses
      <3>2. \A x \in Objects : Holds(c, x)' <=> Holds(c, x) /\ x \notin {fReq[c]}
        BY <2>1, <2>2, <2>3, <3>1 DEF Holds
      <3>3. \A x \in {fReq[c]} : Holds(c, x)
        BY DEF Holds
      <3> QED
        BY <2>1, <2>2, <2>5, <3>2, <3>3, PutKeeps, HoldsLocal
    <2> QED
      BY <1>4, <2>1, <2>4, <2>5, BufferedRow
  <1>5. ASSUME NEW c \in Calls, DoAnswered(c) PROVE ObjectsAccounted'
    <2>1. pool' = pool /\ UNCHANGED <<fReq, fResp, buf, resp>>
      BY <1>5 DEF DoAnswered
    <2> QED
      BY <2>1, HoldKeeps DEF Holds
  <1>6. ASSUME NEW c \in Calls, Abandon(c) PROVE ObjectsAccounted'
    <2>1. pool' = pool /\ UNCHANGED <<fReq, fResp, buf, resp>>
      BY <1>6 DEF Abandon, HandOff
    <2> QED
      BY <2>1, HoldKeeps DEF Holds
  <1>7. ASSUME NEW c \in Calls, Status(c) PROVE ObjectsAccounted'
    <2>1. /\ UnaryTyped /\ LaneOf(c) /\ ObjectsAccounted /\ NoObject \notin Objects
          /\ fReq[c] \in Some("request") /\ fResp[c] \in Some("response")
          /\ buf[c] \in Some("buffer") /\ resp[c] \in Responses
      BY KindsApart DEF UnaryTyped, LaneHolds
    <2>2. /\ Others(c) /\ resp'[c] = resp[c] /\ lane[c] = "status"
      BY <1>7, <2>1, StatusRow
    <2>3. /\ fReq[c] # NoObject /\ fResp[c] # NoObject /\ buf[c] = NoObject
          /\ resp[c].fastResp = NoObject /\ resp[c].drainBuf = NoObject
      BY <2>1, <2>2 DEF LaneOf, HasDo
    <2>4. CASE lane'[c] = "over"
      <3>1. /\ fReq'[c] = NoObject /\ fResp'[c] = NoObject /\ buf'[c] = buf[c]
            /\ pool' = Put({fReq[c], fResp[c]})
        BY <1>7, <2>1, <2>4, StatusRow
      <3>2. \A x \in Objects : Holds(c, x)' <=> Holds(c, x) /\ x \notin {fReq[c], fResp[c]}
        BY <2>1, <2>2, <2>3, <3>1 DEF Holds
      <3>3. \A x \in {fReq[c], fResp[c]} : Holds(c, x)
        BY DEF Holds
      <3> QED
        BY <2>1, <2>2, <3>1, <3>2, <3>3, PutKeeps, HoldsLocal
    <2>5. CASE lane'[c] = "errorBody"
      <3>1. pool' = pool /\ \A x : Holds(c, x)' <=> Holds(c, x)
        BY <1>7, <2>1, <2>2, <2>5, StatusRow DEF Holds
      <3> QED
        BY <2>1, <2>2, <3>1, HoldKeeps, HoldsLocal
    <2>6. CASE lane'[c] = "drain"
      <3> DEFINE b == Get("buffer")
      <3>1. /\ Available({"buffer"}) /\ buf'[c] = b /\ pool' = Take({b})
            /\ fReq'[c] = fReq[c] /\ fResp'[c] = fResp[c]
        BY <1>7, <2>1, <2>6, StatusRow
      <3>2. b \in Objects /\ pool[b] > 0
        BY <3>1, GetTakes DEF Kinds
      <3> HIDE DEF b
      <3>3. \A x \in Objects : Holds(c, x)' <=> Holds(c, x) \/ x \in {b}
        BY <2>1, <2>2, <2>3, <3>1 DEF Holds
      <3> QED
        BY <2>1, <2>2, <3>1, <3>2, <3>3, TakeKeeps, HoldsLocal
    <2> QED
      BY <1>7, <2>1, <2>4, <2>5, <2>6, StatusRow
  <1>8. ASSUME NEW c \in Calls, ErrorBody(c) PROVE ObjectsAccounted'
    <2>1. /\ UnaryTyped /\ LaneOf(c) /\ ObjectsAccounted /\ NoObject \notin Objects
          /\ fReq[c] \in Some("request") /\ fResp[c] \in Some("response")
          /\ buf[c] \in Some("buffer") /\ resp[c] \in Responses
      BY KindsApart DEF UnaryTyped, LaneHolds
    <2>2. /\ Others(c) /\ fReq'[c] = NoObject /\ fResp'[c] = NoObject /\ buf'[c] = buf[c]
          /\ resp'[c] = resp[c] /\ pool' = Put({fReq[c], fResp[c]}) /\ lane[c] = "errorBody"
      BY <1>8, <2>1, ErrorBodyRow
    <2>3. /\ fReq[c] # NoObject /\ fResp[c] # NoObject /\ buf[c] = NoObject
          /\ resp[c].fastResp = NoObject /\ resp[c].drainBuf = NoObject
      BY <2>1, <2>2 DEF LaneOf, HasDo
    <2>4. \A x \in Objects : Holds(c, x)' <=> Holds(c, x) /\ x \notin {fReq[c], fResp[c]}
      BY <2>1, <2>2, <2>3 DEF Holds
    <2>5. \A x \in {fReq[c], fResp[c]} : Holds(c, x)
      BY DEF Holds
    <2> QED
      BY <2>1, <2>2, <2>4, <2>5, PutKeeps, HoldsLocal
  <1>9. ASSUME NEW c \in Calls, Drain(c) PROVE ObjectsAccounted'
    <2>1. /\ UnaryTyped /\ LaneOf(c) /\ ObjectsAccounted /\ NoObject \notin Objects
          /\ fReq[c] \in Some("request") /\ fResp[c] \in Some("response")
          /\ buf[c] \in Some("buffer") /\ resp[c] \in Responses
      BY KindsApart DEF UnaryTyped, LaneHolds
    <2>2. /\ Others(c) /\ fReq'[c] = NoObject /\ fResp'[c] = NoObject /\ buf'[c] = NoObject
          /\ lane[c] = "drain"
      BY <1>9, <2>1, DrainRow
    <2>3. /\ fReq[c] # NoObject /\ fResp[c] # NoObject /\ buf[c] # NoObject
          /\ fReq[c] # buf[c] /\ fResp[c] # buf[c]
          /\ resp[c].fastResp = NoObject /\ resp[c].drainBuf = NoObject
      BY <2>1, <2>2, KindsApart DEF LaneOf, HasDo
    <2>4. CASE resp'[c] = resp[c] /\ pool' = Put({fReq[c], fResp[c], buf[c]})
      <3>1. \A x \in Objects : Holds(c, x)' <=> Holds(c, x) /\ x \notin {fReq[c], fResp[c], buf[c]}
        BY <2>1, <2>2, <2>3, <2>4 DEF Holds
      <3>2. \A x \in {fReq[c], fResp[c], buf[c]} : Holds(c, x)
        BY DEF Holds
      <3> QED
        BY <2>1, <2>2, <2>4, <3>1, <3>2, PutKeeps, HoldsLocal
    <2>5. CASE resp'[c] = [resp[c] EXCEPT !.drainBuf = buf[c]] /\ pool' = Put({fReq[c], fResp[c]})
      <3>1. resp'[c].drainBuf = buf[c] /\ resp'[c].fastResp = NoObject
        BY <2>1, <2>3, <2>5 DEF Responses
      <3>2. \A x \in Objects : Holds(c, x)' <=> Holds(c, x) /\ x \notin {fReq[c], fResp[c]}
        BY <2>1, <2>2, <2>3, <3>1 DEF Holds
      <3>3. \A x \in {fReq[c], fResp[c]} : Holds(c, x)
        BY DEF Holds
      <3> QED
        BY <2>1, <2>2, <2>5, <3>2, <3>3, PutKeeps, HoldsLocal
    <2> QED
      BY <1>9, <2>1, <2>4, <2>5, DrainRow
  <1>10. ASSUME NEW c \in Calls, Own(c) PROVE ObjectsAccounted'
    <2>1. /\ UnaryTyped /\ LaneOf(c) /\ ObjectsAccounted /\ NoObject \notin Objects
          /\ fReq[c] \in Some("request") /\ fResp[c] \in Some("response")
          /\ buf[c] \in Some("buffer") /\ resp[c] \in Responses
      BY KindsApart DEF UnaryTyped, LaneHolds
    <2>2. /\ Others(c) /\ UNCHANGED <<fReq, fResp, buf>> /\ lane[c] \in {"own", "hold", "released"}
          /\ resp'[c] = [NoResponse EXCEPT !.released = TRUE]
          /\ pool' = IF resp[c].released THEN pool ELSE Put(Borrowed(c))
      BY <1>10, <2>1, OwnRow DEF Own
    <2>3. /\ fReq[c] = NoObject /\ fResp[c] = NoObject /\ buf[c] = NoObject
          /\ resp[c].released => Borrowed(c) = {}
      BY <2>1, <2>2 DEF LaneOf, HasDo, Borrowed
    <2>4. resp'[c].fastResp = NoObject /\ resp'[c].drainBuf = NoObject
      BY <2>2 DEF NoResponse
    <2>5. /\ \A x \in Objects : Holds(c, x) <=> x \in Borrowed(c)
          /\ \A x \in Objects : ~ Holds(c, x)'
      BY <2>1, <2>2, <2>3, <2>4 DEF Holds, Borrowed
    <2>6. CASE resp[c].released
      BY <2>1, <2>2, <2>3, <2>5, <2>6, HoldKeeps, HoldsLocal
    <2>7. CASE ~ resp[c].released
      BY <2>1, <2>2, <2>5, <2>7, PutKeeps, HoldsLocal
    <2> QED
      BY <2>6, <2>7
  <1>11. ASSUME NEW c \in Calls, DoBegin(c) PROVE ObjectsAccounted'
    <2>1. pool' = pool /\ UNCHANGED <<fReq, fResp, buf, resp>>
      BY <1>11 DEF DoBegin
    <2> QED
      BY <2>1, HoldKeeps DEF Holds
  <1>12. ASSUME NEW c \in Calls, DoReturns(c) PROVE ObjectsAccounted'
    <2>1. pool' = pool /\ UNCHANGED <<fReq, fResp, buf, resp>>
      BY <1>12 DEF DoReturns
    <2> QED
      BY <2>1, HoldKeeps DEF Holds
  <1>13. ASSUME NEW c \in Calls, Cleanup(c) PROVE ObjectsAccounted'
    <2>1. /\ UnaryTyped /\ LaneOf(c) /\ ObjectsAccounted /\ NoObject \notin Objects
          /\ fReq[c] \in Some("request") /\ fResp[c] \in Some("response")
          /\ buf[c] \in Some("buffer") /\ resp[c] \in Responses
      BY KindsApart DEF UnaryTyped, LaneHolds
    <2>2. /\ Others(c) /\ fReq'[c] = NoObject /\ fResp'[c] = NoObject /\ buf'[c] = buf[c]
          /\ resp'[c] = resp[c] /\ pool' = Put({fReq[c], fResp[c]}) /\ orphan[c]
      BY <1>13, <2>1, CleanupRow
    <2>3. /\ fReq[c] # NoObject /\ fResp[c] # NoObject /\ buf[c] = NoObject
          /\ resp[c].fastResp = NoObject /\ resp[c].drainBuf = NoObject
      BY <2>1, <2>2 DEF LaneOf, HasDo
    <2>4. \A x \in Objects : Holds(c, x)' <=> Holds(c, x) /\ x \notin {fReq[c], fResp[c]}
      BY <2>1, <2>2, <2>3 DEF Holds
    <2>5. \A x \in {fReq[c], fResp[c]} : Holds(c, x)
      BY DEF Holds
    <2> QED
      BY <2>1, <2>2, <2>4, <2>5, PutKeeps, HoldsLocal
  <1>14. ASSUME NEW c \in Calls, ConsumerReleases(c) PROVE ObjectsAccounted'
    <2>1. /\ UnaryTyped /\ LaneOf(c) /\ ObjectsAccounted /\ NoObject \notin Objects
          /\ fReq[c] \in Some("request") /\ fResp[c] \in Some("response")
          /\ buf[c] \in Some("buffer") /\ resp[c] \in Responses
      BY KindsApart DEF UnaryTyped, LaneHolds
    <2>2. /\ Others(c) /\ UNCHANGED <<fReq, fResp, buf>> /\ lane[c] \in {"own", "hold", "released"}
          /\ resp'[c] = [NoResponse EXCEPT !.released = TRUE]
          /\ pool' = IF resp[c].released THEN pool ELSE Put(Borrowed(c))
      BY <1>14, <2>1, ConsumerReleasesRow DEF ConsumerReleases
    <2>3. /\ fReq[c] = NoObject /\ fResp[c] = NoObject /\ buf[c] = NoObject
          /\ resp[c].released => Borrowed(c) = {}
      BY <2>1, <2>2 DEF LaneOf, HasDo, Borrowed
    <2>4. resp'[c].fastResp = NoObject /\ resp'[c].drainBuf = NoObject
      BY <2>2 DEF NoResponse
    <2>5. /\ \A x \in Objects : Holds(c, x) <=> x \in Borrowed(c)
          /\ \A x \in Objects : ~ Holds(c, x)'
      BY <2>1, <2>2, <2>3, <2>4 DEF Holds, Borrowed
    <2>6. CASE resp[c].released
      BY <2>1, <2>2, <2>3, <2>5, <2>6, HoldKeeps, HoldsLocal
    <2>7. CASE ~ resp[c].released
      BY <2>1, <2>2, <2>5, <2>7, PutKeeps, HoldsLocal
    <2> QED
      BY <2>6, <2>7
  <1>15. ASSUME NEW c \in Calls, CallContextEnds(c) PROVE ObjectsAccounted'
    BY <1>15, <1>1 DEF CallContextEnds, ContextEnds
  <1>16. CASE UNCHANGED <<cacheVars, unaryVars>>
    BY <1>1, <1>16 DEF cacheVars
  <1>17. CASE CacheNext /\ UNCHANGED unaryVars
    BY <1>1, <1>17, OriginStays
  <1> QED
    BY <1>2, <1>3, <1>4, <1>5, <1>6, <1>7, <1>8, <1>9, <1>10, <1>11, <1>12, <1>13, <1>14, <1>15, <1>16, <1>17
    DEF UnaryNext, CallStep

\* Connections have one owner, and are clean when they are free.
LEMMA ConnsStep ==
  UnaryInv /\ [UnaryNext]_<<cacheVars, unaryVars>> => ConnsAccounted'
  <1> SUFFICES ASSUME UnaryInv, [UnaryNext]_<<cacheVars, unaryVars>> PROVE ConnsAccounted'
    OBVIOUS
  <1> USE DEF UnaryInv
  <1>1. CASE UNCHANGED unaryVars /\ origin' = origin
    BY <1>1 DEF unaryVars, ConnsAccounted, Owns
  <1>2. ASSUME NEW c \in Calls, Dispatch(c) PROVE ConnsAccounted'
    <2>1. UnaryTyped /\ LaneOf(c) /\ ConnsAccounted /\ do[c] \in Dos
      BY DEF UnaryTyped, LaneHolds
    <2>2. conns' = conns /\ \A e \in Calls : do'[e].conn = do[e].conn /\ (Owns(e)' <=> Owns(e))
                /\ (do'[e].at = "running" <=> do[e].at = "running")
      <3>1. conns' = conns /\ lane[c] = "new" /\ Others(c)
        BY <1>2, <2>1, DispatchRow DEF Dispatch
      <3>2. do[c] = NoDo /\ ~ NoDo.stream /\ NoDo.at = "none"
        BY <2>1, <3>1, NothingTyped DEF LaneOf, HasDo
      <3>3. do'[c] = do[c] \/ do'[c] = [do[c] EXCEPT !.at = "ready"]
        BY <1>2, <2>1, DispatchRow
      <3>4. /\ [do[c] EXCEPT !.at = "ready"].at = "ready"
            /\ [do[c] EXCEPT !.at = "ready"].conn = do[c].conn
            /\ [do[c] EXCEPT !.at = "ready"].stream = do[c].stream
        BY <2>1 DEF Dos
      <3> QED
        BY <3>1, <3>2, <3>3, <3>4 DEF Owns, Others
    <2> QED
      BY <2>1, <2>2 DEF ConnsAccounted
  <1>3. ASSUME NEW c \in Calls, NetHTTP(c) PROVE ConnsAccounted'
    BY <1>3 DEF NetHTTP, ConnsAccounted, Owns
  <1>4. ASSUME NEW c \in Calls, Buffered(c) PROVE ConnsAccounted'
    <2>1. UnaryTyped /\ LaneOf(c) /\ ConnsAccounted /\ do[c] \in Dos
      BY DEF UnaryTyped, LaneHolds
    <2>2. ~ do[c].stream /\ conns' = conns /\ do' = [do EXCEPT ![c] = NoDo] /\ do[c].at = "done"
      BY <1>4, <2>1 DEF Buffered, LaneOf
    <2>3. conns' = CloseBodyStream(c, FALSE, FALSE)
      BY <2>2 DEF CloseBodyStream
    <2> QED
      BY <2>1, <2>2, <2>3, CloseKeeps
  <1>5. ASSUME NEW c \in Calls, DoAnswered(c) PROVE ConnsAccounted'
    BY <1>5 DEF DoAnswered, ConnsAccounted, Owns
  <1>6. ASSUME NEW c \in Calls, Abandon(c) PROVE ConnsAccounted'
    BY <1>6 DEF Abandon, ConnsAccounted, Owns
  <1>7. ASSUME NEW c \in Calls, Status(c) PROVE ConnsAccounted'
    <2>1. UnaryTyped /\ LaneOf(c) /\ ConnsAccounted /\ do[c] \in Dos
      BY DEF UnaryTyped, LaneHolds
    <2>2. CASE do' = do
      BY <1>7, <2>1, <2>2 DEF Status, ConnsAccounted, Owns
    <2>3. CASE do[c].out = "error" /\ do' = [do EXCEPT ![c] = NoDo]
      <3>1. ~ do[c].stream /\ conns' = conns /\ do[c].at = "done"
        BY <1>7, <2>1, <2>3 DEF Status, LaneOf
      <3>2. conns' = CloseBodyStream(c, FALSE, FALSE)
        BY <3>1 DEF CloseBodyStream
      <3> QED
        BY <2>1, <2>3, <3>1, <3>2, CloseKeeps
    <2> QED
      BY <1>7, <2>2, <2>3 DEF Status
  <1>8. ASSUME NEW c \in Calls, ErrorBody(c) PROVE ConnsAccounted'
    <2>1. UnaryTyped /\ LaneOf(c) /\ ConnsAccounted /\ do[c] \in Dos
      BY DEF UnaryTyped, LaneHolds
    <2>2. do' = [do EXCEPT ![c] = NoDo] /\ do[c].at = "done"
      BY <1>8, <2>1 DEF ErrorBody, LaneOf
    <2>3. \E whole \in BOOLEAN : conns' = CloseBodyStream(c, ~ whole, ~ whole)
      BY <1>8 DEF ErrorBody
    <2> QED
      BY <2>1, <2>2, <2>3, CloseKeeps
  <1>9. ASSUME NEW c \in Calls, Drain(c) PROVE ConnsAccounted'
    <2>1. UnaryTyped /\ LaneOf(c) /\ ConnsAccounted /\ do[c] \in Dos
      BY DEF UnaryTyped, LaneHolds
    <2>2. do' = [do EXCEPT ![c] = NoDo] /\ do[c].at = "done"
      BY <1>9, <2>1 DEF Drain, LaneOf
    <2>3. conns' = CloseBodyStream(c, TRUE, TRUE) \/ conns' = CloseBodyStream(c, FALSE, FALSE)
      BY <1>9 DEF Drain
    <2> QED
      BY <2>1, <2>2, <2>3, CloseKeeps
  <1>10. ASSUME NEW c \in Calls, Own(c) PROVE ConnsAccounted'
    BY <1>10 DEF Own, ConnsAccounted, Owns
  <1>11. ASSUME NEW c \in Calls, DoBegin(c) PROVE ConnsAccounted'
    <2>1. UnaryTyped /\ LaneOf(c) /\ ConnsAccounted /\ do[c] \in Dos
      BY DEF UnaryTyped, LaneHolds
    <2>2. PICK k \in Slots :
            /\ do'[c] = [do[c] EXCEPT !.at = "running", !.conn = k] /\ conns[k].at # "busy"
            /\ conns' = [conns EXCEPT ![k] = [at |-> "busy", host |-> HostOf(c),
                  unread |-> conns[k].at = "idle" /\ conns[k].host = HostOf(c) /\ conns[k].unread]]
      BY <1>11, <2>1, DoBeginRow
    <2>3. do'[c].at = "running" /\ do'[c].conn = k /\ Owns(c)'
      BY <2>1, <2>2 DEF Dos, Owns
    <2>4. /\ \A e \in Calls \ {c} : do'[e] = do[e] /\ (Owns(e)' <=> Owns(e))
          /\ ~ Owns(c)
      BY <1>11, <2>1, DoBeginRow DEF Owns, Others, LaneOf
    <2>5. conns'[k].at = "busy" /\ ~ conns'[k].unread /\ \A l \in Slots \ {k} : conns'[l] = conns[l]
      BY <2>1, <2>2 DEF UnaryTyped, ConnsAccounted
    <2>6. \A e \in Calls : Owns(e) => do[e].conn \in Slots \ {k}
      BY <2>1, <2>2 DEF ConnsAccounted
    <2>7. \A e \in Calls : do[e].at = "running" => Owns(e)
      BY DEF Owns
    <2> HIDE DEF Owns
    <2>8. \A e \in Calls : Owns(e)' => do'[e].conn \in Slots /\ conns'[do'[e].conn].at = "busy"
      BY <2>1, <2>3, <2>4, <2>5, <2>6 DEF ConnsAccounted
    <2>9. \A e, f \in Calls : Owns(e)' /\ Owns(f)' /\ do'[e].conn = do'[f].conn => e = f
      BY <2>1, <2>3, <2>4, <2>6 DEF ConnsAccounted
    <2>10. \A l \in Slots : conns'[l].at = "busy" => \E e \in Calls : Owns(e)' /\ do'[e].conn = l
      BY <2>1, <2>3, <2>4, <2>5 DEF ConnsAccounted
    <2>11. \A e \in Calls : do'[e].at = "running" => ~ conns'[do'[e].conn].unread
      BY <2>1, <2>3, <2>4, <2>5, <2>6, <2>7 DEF ConnsAccounted
    <2>12. \A l \in Slots : conns'[l].at = "idle" => ~ conns'[l].unread
      BY <2>1, <2>5 DEF ConnsAccounted
    <2> QED
      BY <2>8, <2>9, <2>10, <2>11, <2>12 DEF ConnsAccounted
  <1>12. ASSUME NEW c \in Calls, DoReturns(c) PROVE ConnsAccounted'
    <2>1. UnaryTyped /\ LaneOf(c) /\ ConnsAccounted /\ do[c] \in Dos
      BY DEF UnaryTyped, LaneHolds
    <2> DEFINE k == do[c].conn
    <2>2. /\ Owns(c) /\ k \in Slots /\ conns[k].at = "busy" /\ ~ conns[k].unread
          /\ conns[k] \in Connections
      BY <1>12, <2>1 DEF DoReturns, Owns, ConnsAccounted, UnaryTyped
    <2>3. PICK out, s, v :
            /\ do'[c] = [at |-> "done", out |-> out, conn |-> k, stream |-> s] /\ s \in BOOLEAN
            /\ conns' = [conns EXCEPT ![k] = v]
            /\ s => v.at = "busy"
            /\ ~ s => v.at # "busy" /\ ~ v.unread
      <3>1. /\ [conns[k] EXCEPT !.at = "idle"].at = "idle"
            /\ [conns[k] EXCEPT !.at = "idle"].unread = conns[k].unread
            /\ [conns[k] EXCEPT !.unread = TRUE].at = conns[k].at
        BY <2>2 DEF Connections
      <3>2. CASE /\ \E out \in {"error", "tooLarge"} : do'[c] = [at |-> "done", out |-> out, conn |-> k, stream |-> FALSE]
                 /\ conns' = [conns EXCEPT ![k] = [at |-> "none", host |-> <<>>, unread |-> FALSE]]
        <4>1. PICK out : do'[c] = [at |-> "done", out |-> out, conn |-> k, stream |-> FALSE]
          BY <3>2
        <4> DEFINE w == [at |-> "none", host |-> <<>>, unread |-> FALSE]
        <4>2. w.at # "busy" /\ ~ w.unread /\ conns' = [conns EXCEPT ![k] = w]
          BY <3>2
        <4> HIDE DEF w
        <4> QED
          BY <4>1, <4>2
      <3>3. CASE /\ \E out \in {"non2xx", "ok"} : do'[c] = [at |-> "done", out |-> out, conn |-> k, stream |-> FALSE]
                 /\ conns' = [conns EXCEPT ![k] = [conns[k] EXCEPT !.at = "idle"]]
        <4>1. PICK out : do'[c] = [at |-> "done", out |-> out, conn |-> k, stream |-> FALSE]
          BY <3>3
        <4> QED
          BY <2>2, <3>1, <3>3, <4>1
      <3>4. CASE /\ \E out \in {"non2xx", "ok"} : do'[c] = [at |-> "done", out |-> out, conn |-> k, stream |-> TRUE]
                 /\ conns' = [conns EXCEPT ![k] = [conns[k] EXCEPT !.unread = TRUE]]
        <4>1. PICK out : do'[c] = [at |-> "done", out |-> out, conn |-> k, stream |-> TRUE]
          BY <3>4
        <4> QED
          BY <2>2, <3>1, <3>4, <4>1
      <3> QED
        BY <1>12, <2>1, <3>2, <3>3, <3>4, DoReturnsRow
    <2>4. do'[c].at = "done" /\ do'[c].conn = k /\ (Owns(c)' <=> s)
      BY <2>3 DEF Owns
    <2>5. \A e \in Calls \ {c} : do'[e] = do[e] /\ (Owns(e)' <=> Owns(e))
      BY <1>12, <2>1, DoReturnsRow DEF Owns, Others
    <2>6. conns'[k] = v /\ \A l \in Slots \ {k} : conns'[l] = conns[l]
      BY <2>1, <2>2, <2>3 DEF UnaryTyped
    <2>7. \A e \in Calls \ {c} : Owns(e) => do[e].conn \in Slots \ {k}
      BY <2>1, <2>2 DEF ConnsAccounted
    <2>8. \A e \in Calls : do[e].at = "running" => Owns(e)
      BY DEF Owns
    <2> HIDE DEF Owns, k
    <2>9. \A e \in Calls : Owns(e)' => do'[e].conn \in Slots /\ conns'[do'[e].conn].at = "busy"
      BY <2>1, <2>2, <2>3, <2>4, <2>5, <2>6, <2>7 DEF ConnsAccounted
    <2>10. \A e, f \in Calls : Owns(e)' /\ Owns(f)' /\ do'[e].conn = do'[f].conn => e = f
      BY <2>1, <2>4, <2>5, <2>7 DEF ConnsAccounted
    <2>11. \A l \in Slots : conns'[l].at = "busy" => \E e \in Calls : Owns(e)' /\ do'[e].conn = l
      <3>1. ASSUME NEW l \in Slots \ {k}, conns[l].at = "busy"
            PROVE  \E e \in Calls \ {c} : Owns(e) /\ do[e].conn = l
        BY <2>1, <3>1 DEF ConnsAccounted, k
      <3> QED
        BY <2>3, <2>4, <2>5, <2>6, <3>1
    <2>12. \A e \in Calls : do'[e].at = "running" => ~ conns'[do'[e].conn].unread
      BY <2>1, <2>4, <2>5, <2>6, <2>7, <2>8 DEF ConnsAccounted
    <2>13. \A l \in Slots : conns'[l].at = "idle" => ~ conns'[l].unread
      BY <2>1, <2>3, <2>6 DEF ConnsAccounted
    <2> QED
      BY <2>9, <2>10, <2>11, <2>12, <2>13 DEF ConnsAccounted
  <1>13. ASSUME NEW c \in Calls, Cleanup(c) PROVE ConnsAccounted'
    <2>1. UnaryTyped /\ LaneOf(c) /\ ConnsAccounted /\ do[c] \in Dos
      BY DEF UnaryTyped, LaneHolds
    <2>2. /\ do' = [do EXCEPT ![c] = NoDo] /\ do[c].at = "done"
          /\ conns' = CloseBodyStream(c, TRUE, TRUE)
      BY <1>13, <2>1 DEF Cleanup, OrphanDiscards
    <2> QED
      BY <2>1, <2>2, CloseKeeps
  <1>14. ASSUME NEW c \in Calls, ConsumerReleases(c) PROVE ConnsAccounted'
    BY <1>14 DEF ConsumerReleases, ConnsAccounted, Owns
  <1>15. ASSUME NEW c \in Calls, CallContextEnds(c) PROVE ConnsAccounted'
    BY <1>15, <1>1 DEF CallContextEnds, ContextEnds
  <1>16. CASE UNCHANGED <<cacheVars, unaryVars>>
    BY <1>1, <1>16 DEF cacheVars
  <1>17. CASE CacheNext /\ UNCHANGED unaryVars
    BY <1>1, <1>17, OriginStays
  <1> QED
    BY <1>2, <1>3, <1>4, <1>5, <1>6, <1>7, <1>8, <1>9, <1>10, <1>11, <1>12, <1>13, <1>14, <1>15, <1>16, <1>17
    DEF UnaryNext, CallStep

-----------------------------------------------------------------------------
(* The theorems                                                            *)

\* The invariant holds before the first call.
LEMMA UnaryStarts ==
  (\E asked \in [Calls -> Origins] : CacheInit(asked)) /\ UnaryInit => UnaryInv
  <1> SUFFICES ASSUME NEW asked \in [Calls -> Origins], CacheInit(asked), UnaryInit
               PROVE  UnaryInv
    OBVIOUS
  <1>1. UnaryTyped
    BY NothingTyped DEF CacheInit, UnaryInit, UnaryTyped, Lanes
  <1>2. LaneHolds
    BY NothingTyped DEF UnaryInit, LaneHolds, LaneOf, HasDo, NoResponse
  <1>3. ObjectsAccounted
    BY KindsApart DEF UnaryInit, ObjectsAccounted, Holds, NoResponse
  <1>4. ConnsAccounted
    BY NothingTyped DEF UnaryInit, ConnsAccounted, Owns
  <1> QED
    BY <1>1, <1>2, <1>3, <1>4 DEF UnaryInv

\* The invariant is inductive.
LEMMA UnaryStep == UnaryInv /\ [UnaryNext]_<<cacheVars, unaryVars>> => UnaryInv'
  BY TypedStep, LaneStep, ObjectsStep, ConnsStep DEF UnaryInv

\* The state of the calls is well typed, and no object is in its pool twice.
THEOREM UnaryTypeCorrect == UnarySpec => []UnaryTypeOK
  <1>1. ASSUME UnaryInv PROVE UnaryTypeOK
    <2>1. \A k \in Kinds : Some(k) \subseteq Objects \cup {NoObject}
      BY KindsApart
    <2>2. \A c \in Calls : {fReq[c], fResp[c], buf[c], resp[c].fastResp, resp[c].drainBuf}
                              \subseteq Objects \cup {NoObject}
      BY <1>1, <2>1 DEF UnaryInv, UnaryTyped, Responses, Kinds
    <2>3. \A c \in Calls : resp[c].released \in BOOLEAN
      BY <1>1 DEF UnaryInv, UnaryTyped, Responses
    <2>4. pool \in [Objects -> Nat]
      BY <1>1 DEF UnaryInv, ObjectsAccounted
    <2>5. \A k \in Slots : conns[k].at \in {"none", "busy", "idle"} /\ conns[k].unread \in BOOLEAN
      BY <1>1 DEF UnaryInv, UnaryTyped, Connections
    <2> QED
      BY <1>1, <2>2, <2>3, <2>4, <2>5 DEF UnaryInv, UnaryTyped, UnaryTypeOK, Lanes, Dos
  <1>2. QED
    BY <1>1, UnaryStarts, UnaryStep, PTL DEF UnarySpec

\* A pooled request, response or buffer has one user at a time and is not in its pool
\* while it is used, whichever of Do, the cleanup goroutine and Release comes last.
THEOREM OneUserAtATime == UnarySpec => []ExclusiveUse
  <1>1. ASSUME UnaryInv, NEW x \in Objects
        PROVE  pool[x] + Cardinality({c \in Calls : x \in InUse(c)}) <= 1
    <2> DEFINE users == {c \in Calls : x \in InUse(c)}
    <2>1. \A c \in Calls : x \in InUse(c) => Holds(c, x)
      BY DEF InUse, Borrowed, Holds
    <2>2. pool[x] \in {0, 1} /\ (pool[x] = 1 => users = {})
      BY <1>1, <2>1 DEF UnaryInv, ObjectsAccounted
    <2>3. \A c, e \in users : c = e
      BY <1>1, <2>1 DEF UnaryInv, ObjectsAccounted
    <2>4. users = {} \/ \E c \in Calls : users = {c}
      BY <2>3
    <2> HIDE DEF users
    <2>5. Cardinality(users) \in {0, 1} /\ (users = {} => Cardinality(users) = 0)
      BY <2>4, FS_EmptySet, FS_Singleton
    <2> QED
      BY <2>2, <2>5 DEF users
  <1>2. UnaryInv => ExclusiveUse
    BY <1>1 DEF ExclusiveUse
  <1>3. QED
    BY <1>2, UnaryStarts, UnaryStep, PTL DEF UnarySpec

\* A connection goes back for reuse only with nothing of the old answer on it.
THEOREM ReusedConnectionsAreClean == UnarySpec => []CleanPool
  <1>1. UnaryInv => CleanPool
    BY DEF UnaryInv, ConnsAccounted, CleanPool
  <1>2. QED
    BY <1>1, UnaryStarts, UnaryStep, PTL DEF UnarySpec

\* When the calls are over, every object is back in its pool and no connection is
\* lost, on every path through the two lanes.
THEOREM EverythingIsReturned == UnarySpec => []NothingLeaked
  <1>1. ASSUME UnaryInv, \A c \in Calls : lane[c] \in {"over", "released"} /\ ~ orphan[c]
        PROVE  /\ \A x \in Objects : pool[x] = 1
               /\ \A k \in Slots : conns[k].at # "busy"
    <2>1. \A c \in Calls : \A x \in Objects : ~ Holds(c, x)
      BY <1>1, KindsApart DEF UnaryInv, LaneHolds, LaneOf, HasDo, Holds
    <2>2. \A c \in Calls : ~ Owns(c)
      BY <1>1, NothingTyped DEF UnaryInv, LaneHolds, LaneOf, HasDo, Owns
    <2>3. \A x \in Objects : pool[x] = 1
      BY <1>1, <2>1 DEF UnaryInv, ObjectsAccounted
    <2>4. \A k \in Slots : conns[k].at # "busy"
      BY <1>1, <2>2 DEF UnaryInv, ConnsAccounted
    <2> QED
      BY <2>3, <2>4
  <1>2. UnaryInv => NothingLeaked
    BY <1>1 DEF NothingLeaked
  <1>3. QED
    BY <1>2, UnaryStarts, UnaryStep, PTL DEF UnarySpec
=============================================================================
