-------------------------- MODULE CallStreamProofs --------------------------
(***************************************************************************)
(* Proofs about one request from Pool.CallStream to its consumer, for any  *)
(* number of attempts, windows and deltas and any size of the buffers.     *)
(*                                                                         *)
(* The frames between the orchestrator and the consumer are numbered along *)
(* the way: 0 is the one the goroutine of CallStream is forwarding, then   *)
(* come those in the transport and those that can still get there.         *)
(***************************************************************************)
EXTENDS CallStream, TLAPS

----------------------------------------------------------------------------
(* Frames under way *)

First == IF pc = "send" THEN 0 ELSE 1

\* Once the stream ended, nothing of out is sent any more.
Last == Len(wire) + IF wireClosed THEN 0 ELSE Len(out)

At(i) == CASE i <= 0 -> cur
           [] i > 0 /\ i <= Len(wire) -> wire[i]
           [] OTHER -> out[i - Len(wire)]

\* The goroutine of CallStream is in the stream loop of an attempt.
Streaming == pc \in {"recv", "send"}

----------------------------------------------------------------------------
(* The inductive invariant, part by part *)

\* Where CallStream is says what it has done.
Places ==
    /\ pc = "send" => cur # None
    /\ wpc = "boundary" => window < MaxWindows
    /\ outClosed => wpc = "over"
    /\ drain # "none" => pc = "done"
    /\ pc # "done" => terminals = 0 /\ final = None /\ cons # "returned"
    /\ cons = "returned" => mode = "call"
    /\ mode = "call" => raw = <<>> /\ cons # "draining"

\* Why a worker may be blamed: its stream reports its death, ends early without a
\* terminal frame, or was ended by an error that reads like one of the transport.
Blame ==
    /\ pc \notin {"recv", "send", "done"} => wireClosed
    /\ Streaming => \A i \in First..Last : At(i).kind \in {"infra", "cancel"} => wireClosed
    /\ Streaming \/ drain # "none" => \A i \in First..Last : At(i).kind = "infra" => attempt \in broken
    /\ Streaming => \A i \in First..Last : At(i).kind = "cancel" => attempt \in broken \/ cancelled
    /\ pc = "restart" => attempt \in broken
    /\ pc = "eof" => attempt \in broken \/ cancelled

\* A stream that nobody gave up on ends with a terminal frame.
EndsWell ==
    Streaming /\ ~ cancelled /\ attempt \notin broken =>
        /\ wireClosed => outClosed
        /\ outClosed => Last >= First /\ \A i \in First..Last : i = Last => IsTerminal(At(i))

\* Frames other than planned metadata come after an upstream's answer, or at the end.
Progressed ==
    /\ connected \/ sawStreamFrame \/ wpc \in {"outcome", "final"} => progress
    /\ Streaming => \A i \in First..Last : At(i).kind \notin {"planned", "cancel"} => progress \/ outClosed
    /\ Streaming /\ gotFirstByte => progress \/ outClosed

\* A request whose retries are suppressed stays in its first attempt.
Suppressed ==
    suppress => /\ attempt = 1 /\ pc # "get" /\ ~ needsReset /\ ~ injectedReset
                /\ pc = "call" => ~ sentAnyResults

\* The consumer of a call has the planned metadata of this attempt.
PlannedIn == planned # None /\ planned.stamp = attempt - 1

\* In a call, the planned metadata of an attempt precedes its outcome and its final.
Paired ==
    mode = "call" =>
        /\ Streaming => \A i \in First..Last : At(i).kind \in {"outcome", "final"} =>
                PlannedIn \/ \E k \in First..Last : k < i /\ At(k).kind = "planned"
        /\ Streaming /\ ~ wireClosed /\ wpc \notin {"planned", "over"} =>
                PlannedIn \/ \E k \in First..Last : At(k).kind = "planned"
        /\ pc = "send" /\ cur.kind \in {"planned", "outcome"} => cur.stamp = attempt - 1
        /\ outcome # None => planned # None /\ planned.stamp = outcome.stamp
        /\ final # None => planned # None /\ planned.stamp = final.attempt - 1

\* A partial; a reset marker of a boundary; a frame made up by the transport.
IsPartial(f) == f.kind = "stream" /\ f.n # 0
IsMarker(f)  == f.kind = "stream" /\ f.n = 0 /\ f.reset
IsFailure(f) == f.kind \in {"infra", "cancel"}

\* From position i on, a frame of a later window comes after a marker that closes
\* window w; and if there is no such marker yet, there will be.
Behind(w, i) ==
    /\ \A j \in i..Last :
        /\ w <= At(j).window
        /\ w < At(j).window /\ ~ IsFailure(At(j)) =>
                \E k \in i..Last : k < j /\ IsMarker(At(k)) /\ At(k).window = w
    /\ ~ wireClosed =>
        /\ w <= window
        /\ w = window => sawStreamFrame
        /\ w < window => \E k \in i..Last : IsMarker(At(k)) /\ At(k).window = w

\* No reset is still to be delivered.
Fresh == ~ (needsReset /\ ~ injectedReset) /\ ~ (pc = "send" /\ cur.reset)

\* Partials, wherever they are, are followed by a marker before the next window; what
\* the consumer holds is of this attempt unless a reset is on its way.
Sources ==
    /\ Streaming => \A i \in First..Last : At(i).attempt = attempt
    /\ Streaming /\ mode = "stream" => \A i \in First..Last, w \in 1..MaxWindows :
            IsPartial(At(i)) /\ At(i).window = w => Behind(w, i + 1)
    /\ Streaming /\ mode = "stream" /\ cons = "reading" /\ Fresh => \A m \in 1..Len(raw) :
            /\ raw[m].attempt = attempt
            /\ \A w \in 1..MaxWindows, i \in 0..1 : raw[m].window = w /\ First = i => Behind(w, i)
    /\ raw # <<>> => sentAnyResults
    /\ pc = "send" /\ needsReset /\ ~ injectedReset => cur.kind = "planned"

\* Partials of a window are under way in the order in which its upstream produced
\* them, none of them twice, and what the consumer holds of the window comes before.
Ordered ==
    Streaming /\ mode = "stream" =>
        /\ \A i, j \in First..Last :
                i < j /\ IsPartial(At(i)) /\ IsPartial(At(j)) /\ At(i).window = At(j).window =>
                    At(i).n < At(j).n
        /\ ~ wireClosed => \A i \in First..Last :
                IsPartial(At(i)) /\ At(i).window = window => At(i).n <= delta
        /\ cons = "reading" /\ Fresh => \A m \in 1..Len(raw) :
                /\ \A i \in First..Last :
                        IsPartial(At(i)) /\ At(i).window = raw[m].window => raw[m].n < At(i).n
                /\ ~ wireClosed /\ raw[m].window = window => raw[m].n <= delta

\* What the consumer holds is of earlier attempts.
AllOlder == \A m \in 1..Len(raw) : raw[m].attempt < attempt

\* A reset that is not a marker's comes with the first result of an attempt, and takes
\* back what earlier attempts delivered.
Superseded ==
    /\ \A m \in 1..Len(raw) : raw[m].attempt <= attempt
    /\ pc \in {"get", "call"} => AllOlder
    /\ Streaming /\ needsReset /\ ~ injectedReset => AllOlder
    /\ pc = "send" /\ cur.reset => IsMarker(cur) \/ AllOlder
    /\ Streaming => \A i \in First..Last :
            i > 0 /\ At(i).reset => IsMarker(At(i)) \/ IsFailure(At(i))

\* What every reachable state satisfies.
CallStreamInv ==
    /\ TypeOK /\ Places /\ TerminalDelivered /\ Blame /\ RestartJustified /\ EndsWell
    /\ Progressed /\ Suppressed /\ Paired /\ Sources /\ OneSource /\ Ordered /\ Superseded

----------------------------------------------------------------------------
(* Lemmas *)

\* The frames the orchestrator and the transport put together.
LEMMA Emissions ==
  ASSUME TypeOK
  PROVE  /\ \A k \in Kinds :
                /\ Frame(k, 0, FALSE) \in Frames
                /\ Frame(k, 0, FALSE).kind = k /\ Frame(k, 0, FALSE).n = 0
                /\ Frame(k, 0, FALSE).attempt = attempt /\ Frame(k, 0, FALSE).window = window
                /\ Frame(k, 0, FALSE).reset = FALSE
         /\ /\ Frame("stream", 0, TRUE) \in Frames
            /\ Frame("stream", 0, TRUE).kind = "stream" /\ Frame("stream", 0, TRUE).n = 0
            /\ Frame("stream", 0, TRUE).attempt = attempt /\ Frame("stream", 0, TRUE).window = window
            /\ Frame("stream", 0, TRUE).reset = TRUE
         /\ delta < MaxDeltas =>
                /\ Frame("stream", delta + 1, FALSE) \in Frames
                /\ Frame("stream", delta + 1, FALSE).kind = "stream"
                /\ Frame("stream", delta + 1, FALSE).n # 0
                /\ Frame("stream", delta + 1, FALSE).attempt = attempt
                /\ Frame("stream", delta + 1, FALSE).window = window
                /\ Frame("stream", delta + 1, FALSE).reset = FALSE
  <1>1. /\ WorkerTypeOK /\ 0 \in 0..MaxDeltas /\ TRUE \in BOOLEAN /\ FALSE \in BOOLEAN
        /\ "stream" \in Kinds /\ (delta < MaxDeltas => delta + 1 \in 0..MaxDeltas /\ delta + 1 # 0)
    BY OrchestratorAssumption DEF TypeOK, WorkerTypeOK, Kinds
  <1>2. \A k \in Kinds :
            /\ Frame(k, 0, FALSE) \in Frames
            /\ Frame(k, 0, FALSE).kind = k /\ Frame(k, 0, FALSE).n = 0
            /\ Frame(k, 0, FALSE).attempt = attempt /\ Frame(k, 0, FALSE).window = window
            /\ Frame(k, 0, FALSE).reset = FALSE
    BY <1>1, OrchestratorAssumption DEF Frame, Frames, WorkerTypeOK
  <1>3. /\ Frame("stream", 0, TRUE) \in Frames
        /\ Frame("stream", 0, TRUE).kind = "stream" /\ Frame("stream", 0, TRUE).n = 0
        /\ Frame("stream", 0, TRUE).attempt = attempt /\ Frame("stream", 0, TRUE).window = window
        /\ Frame("stream", 0, TRUE).reset = TRUE
    BY <1>1, OrchestratorAssumption DEF Frame, Frames, WorkerTypeOK
  <1>4. ASSUME delta < MaxDeltas
        PROVE  /\ Frame("stream", delta + 1, FALSE) \in Frames
               /\ Frame("stream", delta + 1, FALSE).kind = "stream"
               /\ Frame("stream", delta + 1, FALSE).n # 0
               /\ Frame("stream", delta + 1, FALSE).attempt = attempt
               /\ Frame("stream", delta + 1, FALSE).window = window
               /\ Frame("stream", delta + 1, FALSE).reset = FALSE
    BY <1>1, <1>4, OrchestratorAssumption DEF Frame, Frames, WorkerTypeOK
  <1> QED
    BY <1>2, <1>3, <1>4

\* Queueing a frame keeps out typed and within its capacity.
LEMMA QueuedTyped ==
  ASSUME TypeOK, NEW f \in Frames, Offer(f) \/ Send(f)
  PROVE  out' \in Seq(Frames) /\ Len(out') <= OutCap
  <1>1. out \in Seq(Frames) /\ Len(out) <= OutCap /\ Len(out) \in Nat /\ OutCap \in Nat
    BY OrchestratorAssumption DEF TypeOK, WorkerTypeOK
  <1>2. out' = out \/ (Len(out) < OutCap /\ out' = Append(out, f))
    BY DEF Offer, Send, Room
  <1> QED
    BY <1>1, <1>2

\* The frames under way are numbered, and are frames.
LEMMA Numbered ==
  ASSUME TypeOK, Places
  PROVE  /\ First \in {0, 1} /\ Last \in Nat /\ Len(wire) \in Nat /\ Len(out) \in Nat
         /\ Len(wire) <= Last /\ \A i \in First..Last : i \in Nat /\ At(i) \in Frames
  <1>1. First \in {0, 1} /\ Last \in Nat /\ Len(wire) \in Nat /\ Len(out) \in Nat /\ Len(wire) <= Last
    BY DEF First, Last, TypeOK, WorkerTypeOK
  <1>2. ASSUME NEW i \in First..Last PROVE i \in Nat /\ At(i) \in Frames
    <2>1. CASE i = 0
      BY <1>1, <1>2, <2>1 DEF First, At, Places, TypeOK
    <2>2. CASE i > 0 /\ i <= Len(wire)
      <3>1. wire[i] \in Frames
        BY <1>1, <1>2, <2>2 DEF TypeOK
      <3> QED
        BY <1>1, <1>2, <2>2, <3>1 DEF At
    <2>3. CASE i > Len(wire)
      <3>1. i - Len(wire) \in 1..Len(out)
        BY <1>1, <1>2, <2>3 DEF Last
      <3>2. out[i - Len(wire)] \in Frames
        BY <3>1 DEF TypeOK, WorkerTypeOK
      <3> QED
        BY <1>1, <1>2, <2>3, <3>2 DEF At
    <2> QED
      BY <1>1, <1>2, <2>1, <2>2, <2>3
  <1> QED
    BY <1>1, <1>2

\* Queueing a frame puts it at the end of those under way, unless the stream is over
\* (or there was no room to offer it).
LEMMA Queued ==
  ASSUME TypeOK, Places, NEW f \in Frames, Offer(f) \/ Send(f) \/ UNCHANGED out,
         UNCHANGED <<wire, wireClosed, pc, cur>>
  PROVE  /\ First' = First /\ \A i \in First..Last : At(i)' = At(i)
         /\ \/ Last' = Last /\ (wireClosed \/ UNCHANGED out)
            \/ Last' = Last + 1 /\ (\A i \in Nat : i = Last + 1 => At(i)' = f) /\ ~ wireClosed /\ Room
         /\ Send(f) => out' # out
  <1>1. /\ out \in Seq(Frames) /\ Len(out) \in Nat /\ Len(wire) \in Nat
        /\ First \in {0, 1} /\ wireClosed \in BOOLEAN
    BY DEF TypeOK, WorkerTypeOK, First
  <1>2. First' = First
    BY DEF First
  <1>3. ASSUME out' = Append(out, f)
        PROVE  Len(out') = Len(out) + 1 /\ out'[Len(out) + 1] = f /\ \A i \in 1..Len(out) : out'[i] = out[i]
    BY <1>1, <1>3
  <1>4. Send(f) => out' # out
    BY <1>1, <1>3 DEF Send
  <1>5. CASE out' = out
    BY <1>2, <1>4, <1>5 DEF Last, At
  <1>6. CASE out' = Append(out, f) /\ Room
    <2>1. \A i \in First..Last : At(i)' = At(i)
      BY <1>1, <1>3, <1>6 DEF At, Last
    <2>2. CASE wireClosed
      BY <1>2, <1>4, <2>1, <2>2 DEF Last
    <2>3. CASE ~ wireClosed
      <3>1. Last' = Last + 1 /\ Last = Len(wire) + Len(out)
        BY <1>1, <1>3, <1>6, <2>3 DEF Last
      <3>2. \A i \in Nat : i = Last + 1 => At(i)' = f
        BY <1>1, <1>3, <1>6, <3>1 DEF At
      <3> QED
        BY <1>2, <1>4, <1>6, <2>1, <2>3, <3>1, <3>2
    <2> QED
      BY <2>2, <2>3
  <1> QED
    BY <1>5, <1>6 DEF Offer, Send

\* Taking the first frame of the transport moves the others up.
LEMMA Shifted ==
  ASSUME TypeOK, wire # <<>>, wire' = Tail(wire), UNCHANGED <<out, wireClosed>>
  PROVE  /\ Last \in Nat \ {0} /\ At(1) = Head(wire) /\ At(1) \in Frames /\ Last' = Last - 1
         /\ \A i \in 1..Last' : At(i)' = At(i + 1)
  <1>1. /\ wire \in Seq(Frames) /\ Len(wire) \in Nat /\ Len(wire) > 0 /\ Len(out) \in Nat
        /\ wire[1] \in Frames /\ Head(wire) = wire[1]
    BY DEF TypeOK, WorkerTypeOK
  <1>2. Last \in Nat \ {0} /\ Len(wire) <= Last /\ At(1) = wire[1]
    BY <1>1 DEF Last, At
  <1>3. Len(wire') = Len(wire) - 1 /\ \A i \in 1..Len(wire') : wire'[i] = wire[i + 1]
    BY <1>1
  <1>4. Last' = Last - 1
    BY <1>1, <1>3 DEF Last
  <1>5. \A i \in 1..Last' : At(i)' = At(i + 1)
    <2>1. TAKE i \in 1..Last'
    <2>2. CASE i <= Len(wire')
      BY <1>1, <1>2, <1>3, <1>4, <2>2 DEF At
    <2>3. CASE i > Len(wire')
      <3>1. i - Len(wire') = (i + 1) - Len(wire)
        BY <1>1, <1>2, <1>3, <1>4
      <3> QED
        BY <1>1, <1>2, <1>3, <1>4, <2>3, <3>1 DEF At
    <2> QED
      BY <1>1, <1>2, <1>3, <1>4, <2>2, <2>3
  <1> QED
    BY <1>1, <1>2, <1>4, <1>5

\* The bridge moves a frame from out to the transport: none of them changes place.
LEMMA Bridged ==
  ASSUME TypeOK, Places, Bridge
  PROVE  First' = First /\ Last' = Last /\ \A i \in First..Last : At(i)' = At(i)
  <1>1. /\ out \in Seq(Frames) /\ out # <<>> /\ Len(out) \in Nat /\ Len(out) > 0
        /\ wire \in Seq(Frames) /\ Len(wire) \in Nat
        /\ wire' = Append(wire, Head(out)) /\ out' = Tail(out) /\ Head(out) = out[1]
        /\ ~ wireClosed /\ UNCHANGED <<wireClosed, pc, cur>> /\ First \in {0, 1}
    BY DEF Bridge, TypeOK, WorkerTypeOK, poolVars, First
  <1>2. /\ Len(wire') = Len(wire) + 1 /\ Len(out') = Len(out) - 1
        /\ wire'[Len(wire) + 1] = out[1] /\ \A i \in 1..Len(wire) : wire'[i] = wire[i]
        /\ \A i \in 1..Len(out') : out'[i] = out[i + 1]
    BY <1>1
  <1>3. First' = First /\ Last' = Last /\ Last = Len(wire) + Len(out)
    BY <1>1, <1>2 DEF First, Last
  <1>4. ASSUME NEW i \in First..Last PROVE At(i)' = At(i)
    <2>1. CASE i <= Len(wire)
      BY <1>1, <1>2, <1>4, <2>1 DEF At
    <2>2. CASE i = Len(wire) + 1
      BY <1>1, <1>2, <1>4, <2>2 DEF At
    <2>3. CASE i > Len(wire) + 1
      <3>1. i - Len(wire') \in 1..Len(out') /\ (i - Len(wire')) + 1 = i - Len(wire)
        BY <1>1, <1>2, <1>3, <1>4, <2>3
      <3> QED
        BY <1>1, <1>2, <1>4, <2>3, <3>1 DEF At
    <2> QED
      BY <1>1, <1>4, <2>1, <2>2, <2>3
  <1> QED
    BY <1>3, <1>4

\* The end of the stream cuts off what was left in out, and may add a failure.
LEMMA Cut ==
  ASSUME TypeOK, Places, BridgeEnds \/ WorkerDies
  PROVE  /\ wireClosed = FALSE /\ wireClosed' = TRUE /\ UNCHANGED <<pc, cur>> /\ First' = First
         /\ Last' \in {Len(wire), Len(wire) + 1} /\ \A i \in First..Len(wire) : At(i)' = At(i)
         /\ \A i \in First'..Last' : i > Len(wire) =>
                /\ At(i)'.kind \in {"infra", "cancel"} /\ At(i)'.attempt = attempt /\ At(i)'.window = window
                /\ BridgeEnds => At(i)'.kind = "cancel" /\ AttemptContextDone
  <1>1. wireClosed = FALSE /\ wireClosed' = TRUE /\ UNCHANGED <<pc, cur>>
    BY DEF BridgeEnds, WorkerDies, poolVars, TypeOK
  <1>2. First' = First /\ First \in {0, 1} /\ wire \in Seq(Frames) /\ Len(wire) \in Nat
    BY <1>1 DEF First, TypeOK
  <1>3. CASE wire' = wire
    <2>1. Last' = Len(wire)
      BY <1>1, <1>2, <1>3 DEF Last
    <2>2. \A i \in First..Len(wire) : At(i)' = At(i)
      BY <1>1, <1>2, <1>3 DEF At
    <2>3. \A i \in First'..Last' : ~ (i > Len(wire))
      BY <1>2, <2>1
    <2> QED
      BY <1>1, <1>2, <2>1, <2>2, <2>3
  <1>4. ASSUME NEW k \in {"infra", "cancel"}, wire' = Append(wire, Frame(k, 0, FALSE)),
               BridgeEnds => k = "cancel" /\ AttemptContextDone
        PROVE  /\ Last' = Len(wire) + 1 /\ \A i \in First..Len(wire) : At(i)' = At(i)
               /\ \A i \in First'..Last' : i > Len(wire) =>
                    At(i)'.kind = k /\ At(i)'.attempt = attempt /\ At(i)'.window = window
    <2>0. k \in Kinds
      BY DEF Kinds
    <2>1. PICK f \in Frames : f = Frame(k, 0, FALSE) /\ f.kind = k /\ f.attempt = attempt /\ f.window = window
      BY <2>0, Emissions
    <2>2. wire' = Append(wire, f)
      BY <1>4, <2>1
    <2>3. /\ Len(wire') = Len(wire) + 1 /\ wire'[Len(wire) + 1] = f
          /\ \A i \in 1..Len(wire) : wire'[i] = wire[i]
      BY <1>2, <2>2
    <2>4. Last' = Len(wire) + 1
      BY <1>1, <1>2, <2>3 DEF Last
    <2>5. \A i \in First..Len(wire) : At(i)' = At(i)
      BY <1>1, <1>2, <2>3 DEF At
    <2>6. \A i \in First'..Last' : i > Len(wire) => i = Len(wire) + 1 /\ At(i)' = f
      BY <1>1, <1>2, <2>3, <2>4 DEF At
    <2> QED
      BY <2>1, <2>4, <2>5, <2>6
  <1>5. \/ wire' = wire
        \/ \E k \in {"infra", "cancel"} : /\ wire' = Append(wire, Frame(k, 0, FALSE))
                                          /\ BridgeEnds => k = "cancel" /\ AttemptContextDone
    BY DEF BridgeEnds, WorkerDies
  <1>6. CASE \E k \in {"infra", "cancel"} : /\ wire' = Append(wire, Frame(k, 0, FALSE))
                                            /\ BridgeEnds => k = "cancel" /\ AttemptContextDone
    <2>1. PICK k \in {"infra", "cancel"} : /\ wire' = Append(wire, Frame(k, 0, FALSE))
                                           /\ BridgeEnds => k = "cancel" /\ AttemptContextDone
      BY <1>6
    <2> QED
      BY <1>1, <1>2, <1>4, <2>1
  <1> QED
    BY <1>3, <1>5, <1>6

\* Forwarding a frame takes it off the way and leaves the others.
LEMMA Taken ==
  ASSUME TypeOK, Places, Forward
  PROVE  /\ First = 0 /\ cur \in Frames /\ At(0) = cur /\ 0 \in First..Last
         /\ First' = 1 /\ Last' = Last /\ \A i \in 1..Last : At(i)' = At(i)
  <1>1. pc = "send" /\ pc' # "send" /\ UNCHANGED <<wire, wireClosed, out>>
    BY DEF Forward, workerVars
  <1>2. Last \in Nat /\ Len(wire) \in Nat
    BY DEF Last, TypeOK, WorkerTypeOK
  <1> QED
    BY <1>1, <1>2 DEF First, Last, At, Places, TypeOK

\* case result := <-results: what happens to the first frame of the transport.
LEMMA ReceiveRow ==
  ASSUME TypeOK, Places, Receive
  PROVE  /\ Last \in Nat \ {0} /\ At(1) = Head(wire) /\ At(1) \in Frames /\ First = 1 /\ Last' = Last - 1
         /\ \A i \in 1..Last' : At(i)' = At(i + 1)
         /\ gotFirstByte' = (gotFirstByte \/ At(1).kind # "planned")
         /\ \/ At(1).kind = "heartbeat" /\ pc' = "recv" /\ UNCHANGED <<cur, injectedReset, drain>>
            \/ /\ cancelled /\ pc' = "done" /\ drain' = "plain"
               /\ UNCHANGED <<cur, injectedReset>>
            \/ /\ At(1).kind \notin {"heartbeat", "infra", "cancel"} /\ pc' = "send"
               /\ cur' \in Frames /\ cur'.kind = At(1).kind /\ cur'.attempt = At(1).attempt
               /\ cur'.window = At(1).window /\ cur'.n = At(1).n
               /\ cur'.reset = (At(1).reset \/ InjectReset(At(1)))
               /\ At(1).kind \in {"planned", "outcome"} => cur'.stamp = attempt - 1
               /\ injectedReset' = (injectedReset \/ InjectReset(At(1))) /\ UNCHANGED drain
  <1> USE OrchestratorAssumption
  <1>1. /\ wire \in Seq(Frames) /\ wire # <<>> /\ Len(wire) \in Nat /\ Len(wire) > 0 /\ Len(out) \in Nat
        /\ wire[1] \in Frames /\ Head(wire) = wire[1] /\ pc = "recv" /\ wire' = Tail(wire)
        /\ UNCHANGED <<out, wireClosed>>
    BY DEF Receive, TypeOK, WorkerTypeOK, workerVars
  <1>2. First = 1
    BY <1>1 DEF First
  <1>3. /\ Last \in Nat \ {0} /\ At(1) = wire[1] /\ At(1) \in Frames /\ Last' = Last - 1
        /\ \A i \in 1..Last' : At(i)' = At(i + 1)
    BY <1>1, Shifted
  <1> DEFINE f == wire[1]
  <1>6. /\ gotFirstByte' = (gotFirstByte \/ f.kind # "planned")
        /\ \/ f.kind = "heartbeat" /\ UNCHANGED <<pc, cur, injectedReset, drain>>
           \/ /\ cancelled /\ pc' = "done" /\ drain' = "plain"
              /\ UNCHANGED <<cur, injectedReset>>
           \/ /\ f.kind \notin {"heartbeat", "infra", "cancel"} /\ pc' = "send"
              /\ cur' = [Stamped(f) EXCEPT !.reset = @ \/ InjectReset(f)]
              /\ injectedReset' = (injectedReset \/ InjectReset(f)) /\ UNCHANGED drain
    BY <1>1 DEF Receive, TakenFor, Retryable, IsProgress, LeaveDrain
  <1>7. InjectReset(f) \in BOOLEAN /\ attempt - 1 \in 0..(MaxAttempts - 1) /\ f \in Frames
    BY <1>1 DEF InjectReset, TypeOK, WorkerTypeOK
  <1>8. /\ Stamped(f) \in Frames /\ Stamped(f).kind = f.kind /\ Stamped(f).attempt = f.attempt
        /\ Stamped(f).window = f.window /\ Stamped(f).n = f.n /\ Stamped(f).reset = f.reset
        /\ f.kind \in {"planned", "outcome"} => Stamped(f).stamp = attempt - 1
    BY <1>7 DEF Stamped, Frames
  <1> HIDE DEF f
  <1>9. ASSUME cur' = [Stamped(f) EXCEPT !.reset = @ \/ InjectReset(f)]
        PROVE  /\ cur' \in Frames /\ cur'.kind = f.kind /\ cur'.attempt = f.attempt
               /\ cur'.window = f.window /\ cur'.n = f.n /\ cur'.reset = (f.reset \/ InjectReset(f))
               /\ f.kind \in {"planned", "outcome"} => cur'.stamp = attempt - 1
    BY <1>7, <1>8, <1>9 DEF Frames
  <1>10. f = At(1)
    BY <1>3 DEF f
  <1> QED
    BY <1>1, <1>2, <1>3, <1>6, <1>9, <1>10

\* What the consumer makes of a frame.
LEMMA Consumed ==
  ASSUME TypeOK, NEW f \in Frames, Consume(f)
  PROVE  /\ cons # "returned" /\ terminals' = IF IsTerminal(f) THEN terminals + 1 ELSE terminals
         /\ final' = final \/ (final' = f /\ f.kind = "final")
         /\ raw' \in Seq(Frames) /\ (raw' # <<>> => raw # <<>> \/ f.kind = "stream")
         /\ \A m \in 1..Len(raw') :
                \/ raw'[m] = f /\ IsPartial(f)
                \/ /\ m \in 1..Len(raw) /\ raw'[m] = raw[m]
                   /\ mode = "stream" /\ cons = "reading" => ~ f.reset \/ f.kind = "error"
         /\ mode = "stream" => /\ UNCHANGED <<cons, planned, outcome>>
                               /\ cons # "reading" => UNCHANGED <<raw, final>>
         /\ mode = "call" =>
                /\ UNCHANGED raw /\ cons' \in {cons, "returned"}
                /\ planned' = IF f.kind = "planned" THEN f ELSE planned
                /\ outcome' = IF f.kind = "outcome" THEN f ELSE IF f.kind = "planned" THEN None ELSE outcome
         /\ planned' \in Frames \cup {None} /\ outcome' \in Frames \cup {None}
         /\ cons' \in {"reading", "draining", "returned"}
         /\ cons' = "returned" => mode = "call" /\ IsTerminal(f)
  <1>1. CASE mode = "stream" /\ cons = "reading" /\ ConsumeStream(f)
    <2> DEFINE kept == IF f.reset /\ f.kind # "error" THEN <<>> ELSE raw
    <2>1. kept \in Seq(Frames) /\ (kept = <<>> \/ (kept = raw /\ (~ f.reset \/ f.kind = "error")))
      BY DEF TypeOK
    <2>2. raw' = IF IsPartial(f) THEN Append(kept, f) ELSE kept
      BY <1>1 DEF ConsumeStream, IsPartial
    <2>3. /\ UNCHANGED <<cons, planned, outcome>>
          /\ final' = final \/ (final' = f /\ f.kind = "final")
      BY <1>1 DEF ConsumeStream
    <2> HIDE DEF kept
    <2>4. /\ raw' \in Seq(Frames) /\ (raw' # <<>> => raw # <<>> \/ f.kind = "stream")
          /\ \A m \in 1..Len(raw') :
                \/ raw'[m] = f /\ IsPartial(f)
                \/ m \in 1..Len(raw) /\ raw'[m] = raw[m] /\ (~ f.reset \/ f.kind = "error")
      <3>1. CASE IsPartial(f)
        BY <2>1, <2>2, <3>1 DEF IsPartial
      <3>2. CASE ~ IsPartial(f)
        BY <2>1, <2>2, <3>2
      <3> QED
        BY <3>1, <3>2
    <2> QED
      BY <1>1, <2>3, <2>4 DEF Consume, TypeOK
  <1>2. CASE mode = "stream" /\ cons = "draining" /\ UNCHANGED <<cons, raw, final, planned, outcome>>
    BY <1>2 DEF Consume, TypeOK
  <1>3. CASE mode = "call" /\ ConsumeCall(f)
    <2>1. /\ UNCHANGED raw /\ cons' = (IF IsTerminal(f) THEN "returned" ELSE cons)
          /\ planned' = IF f.kind = "planned" THEN f ELSE planned
          /\ outcome' = IF f.kind = "outcome" THEN f ELSE IF f.kind = "planned" THEN None ELSE outcome
          /\ final' = final \/ (final' = f /\ f.kind = "final")
      BY <1>3 DEF ConsumeCall, ClearedOutcome
    <2>2. cons # "returned" /\ terminals' = IF IsTerminal(f) THEN terminals + 1 ELSE terminals
      BY DEF Consume, TypeOK
    <2>3. raw \in Seq(Frames) /\ cons \in {"reading", "draining", "returned"} /\ mode # "stream"
      BY <1>3 DEF TypeOK
    <2>4. planned \in Frames \cup {None} /\ outcome \in Frames \cup {None}
      BY DEF TypeOK
    <2> QED
      BY <1>3, <2>1, <2>2, <2>3, <2>4
  <1> QED
    BY <1>1, <1>2, <1>3 DEF Consume

\* Frames keep their places while the queues and what is being forwarded stay.
LEMMA Unmoved ==
  ASSUME UNCHANGED <<wire, wireClosed, out>>
  PROVE  Last' = Last /\ (UNCHANGED cur => \A i : At(i)' = At(i))
  BY DEF Last, At

\* What is behind a place stays so when a frame is put at the end of the queue, be it
\* of the window or the marker that closes it.
LEMMA BehindGrows ==
  ASSUME TypeOK, Places, NEW f \in Frames, f.window = window,
         Offer(f) \/ Send(f) \/ UNCHANGED out, UNCHANGED <<wire, wireClosed, pc, cur>>,
         \/ window' = window /\ (sawStreamFrame => sawStreamFrame')
         \/ window' = window + 1 /\ (sawStreamFrame => Send(f) /\ IsMarker(f)),
         NEW w \in 1..MaxWindows, NEW i \in First..(Last + 1), Behind(w, i)
  PROVE  Behind(w, i)'
  <1>1. First \in {0, 1} /\ Last \in Nat /\ i \in Nat /\ window \in Nat /\ w \in Nat
    BY Numbered DEF TypeOK, WorkerTypeOK
  <1>2. \A j \in i..Last : At(j)' = At(j)
    BY <1>1, Queued
  <1>3. /\ Last' = Last \/ Last' = Last + 1
        /\ Last' = Last + 1 => ~ wireClosed
        /\ \A j \in i..Last' : j > Last => At(j)' = f /\ ~ wireClosed
        /\ Send(f) /\ ~ wireClosed => Last' = Last + 1 /\ \A j \in Nat : j = Last + 1 => At(j)' = f
    BY <1>1, Queued
  <1>4. \A k \in i..Last : IsMarker(At(k)) /\ At(k).window = w =>
            k \in i..Last' /\ IsMarker(At(k))' /\ At(k)'.window = w
    BY <1>1, <1>2, <1>3 DEF IsMarker
  <1>5. ~ wireClosed => /\ w <= window /\ (w = window => sawStreamFrame)
                        /\ w < window => \E k \in i..Last : IsMarker(At(k)) /\ At(k).window = w
    BY DEF Behind
  <1>6. ASSUME NEW j \in i..Last'
        PROVE  /\ w <= At(j)'.window
               /\ w < At(j)'.window /\ ~ IsFailure(At(j))' =>
                    \E k \in i..Last' : k < j /\ IsMarker(At(k))' /\ At(k)'.window = w
    <2>1. CASE j \in i..Last
      <3>1. At(j)' = At(j)
        BY <1>2, <2>1
      <3>2. w <= At(j).window /\ (w < At(j).window /\ ~ IsFailure(At(j)) =>
                    \E k \in i..Last : k < j /\ IsMarker(At(k)) /\ At(k).window = w)
        BY <2>1 DEF Behind
      <3>3. IsFailure(At(j))' <=> IsFailure(At(j))
        BY <3>1 DEF IsFailure
      <3> QED
        BY <1>4, <3>1, <3>2, <3>3
    <2>2. CASE j > Last
      <3>1. At(j)' = f /\ ~ wireClosed /\ j \in Nat
        BY <1>1, <1>3, <1>6, <2>2
      <3>2. \A k \in i..Last : k < j
        BY <1>1, <2>2, <3>1
      <3> QED
        BY <1>4, <1>5, <3>1, <3>2
    <2> QED
      BY <1>1, <1>3, <1>6, <2>1, <2>2
  <1>7. ASSUME ~ wireClosed
        PROVE  /\ w <= window' /\ (w = window' => sawStreamFrame')
               /\ w < window' => \E k \in i..Last' : IsMarker(At(k))' /\ At(k)'.window = w
    <2>1. CASE window' = window /\ (sawStreamFrame => sawStreamFrame')
      BY <1>4, <1>5, <1>7, <2>1
    <2>2. CASE window' = window + 1 /\ (sawStreamFrame => Send(f) /\ IsMarker(f))
      <3>1. CASE w < window
        BY <1>1, <1>4, <1>5, <1>7, <2>2, <3>1
      <3>2. CASE w = window
        <4>1. Last' = Last + 1 /\ Last + 1 \in i..Last' /\ IsMarker(f)
          BY <1>1, <1>3, <1>5, <1>7, <2>2, <3>2
        <4>2. \A k \in i..Last' : k = Last + 1 => At(k)' = f
          BY <1>1, <1>3, <4>1
        <4>3. \A k \in i..Last' : k = Last + 1 => IsMarker(At(k))' /\ At(k)'.window = w
          BY <3>2, <4>1, <4>2 DEF IsMarker
        <4> QED
          BY <1>1, <2>2, <3>2, <4>1, <4>3
      <3> QED
        BY <1>1, <1>5, <1>7, <3>1, <3>2
    <2> QED
      BY <2>1, <2>2
  <1> QED
    BY <1>6, <1>7 DEF Behind

\* ... when the stream is cut short ...
LEMMA BehindCut ==
  ASSUME TypeOK, Places, BridgeEnds \/ WorkerDies, UNCHANGED window,
         NEW w \in 1..MaxWindows, NEW i \in First..(Last + 1), Behind(w, i)
  PROVE  Behind(w, i)'
  <1>0. /\ wireClosed = FALSE /\ wireClosed' = TRUE /\ First' = First
        /\ Last' \in {Len(wire), Len(wire) + 1} /\ \A j \in First..Len(wire) : At(j)' = At(j)
        /\ \A j \in First'..Last' : j > Len(wire) =>
                At(j)'.kind \in {"infra", "cancel"} /\ At(j)'.window = window
    <2>1. CASE BridgeEnds
      BY <2>1, Cut
    <2>2. CASE WorkerDies
      BY <2>2, Cut
    <2> QED
      BY <2>1, <2>2
  <1>1. First \in {0, 1} /\ Last \in Nat /\ Len(wire) \in Nat /\ Len(wire) <= Last /\ i \in Nat
    BY Numbered
  <1>2. \A j \in i..Last' : j <= Len(wire) => j \in i..Last /\ At(j)' = At(j)
    BY <1>0, <1>1
  <1>3. \A j \in i..Last' : j > Len(wire) => At(j)'.kind \in {"infra", "cancel"} /\ At(j)'.window = window
    BY <1>0, <1>1
  <1>4. w <= window
    BY <1>0 DEF Behind
  <1>5. \A j \in i..Last', k \in i..Last : j <= Len(wire) /\ k < j => k \in i..Last' /\ k <= Len(wire)
    BY <1>0, <1>1
  <1>6. ASSUME NEW j \in i..Last'
        PROVE  /\ w <= At(j)'.window
               /\ w < At(j)'.window /\ ~ IsFailure(At(j))' =>
                    \E k \in i..Last' : k < j /\ IsMarker(At(k))' /\ At(k)'.window = w
    <2>1. CASE j <= Len(wire)
      <3>1. j \in i..Last /\ At(j)' = At(j)
        BY <1>2, <1>6, <2>1
      <3>2. w <= At(j).window /\ (w < At(j).window /\ ~ IsFailure(At(j)) =>
                    \E k \in i..Last : k < j /\ IsMarker(At(k)) /\ At(k).window = w)
        BY <3>1 DEF Behind
      <3>3. \A k \in i..Last : k < j /\ IsMarker(At(k)) /\ At(k).window = w =>
                k \in i..Last' /\ IsMarker(At(k))' /\ At(k)'.window = w
        BY <1>2, <1>5, <1>6, <2>1 DEF IsMarker
      <3>4. IsFailure(At(j))' <=> IsFailure(At(j))
        BY <3>1 DEF IsFailure
      <3> QED
        BY <3>1, <3>2, <3>3, <3>4
    <2>2. CASE j > Len(wire)
      BY <1>3, <1>4, <1>6, <2>2 DEF IsFailure
    <2> QED
      BY <1>0, <1>1, <1>6, <2>1, <2>2
  <1> QED
    BY <1>0, <1>6 DEF Behind

\* ... when every frame moves up one place ...
LEMMA BehindShift ==
  ASSUME NEW w \in 1..MaxWindows, NEW i \in Nat, Behind(w, i + 1), Last \in Nat, Last' = Last - 1,
         UNCHANGED <<wireClosed, window, sawStreamFrame>>,
         \A j \in i..Last' : /\ At(j)'.kind = At(j + 1).kind /\ At(j)'.window = At(j + 1).window
                             /\ At(j)'.n = At(j + 1).n /\ (At(j + 1).reset => At(j)'.reset)
  PROVE  Behind(w, i)'
  <1>1. \A k \in (i + 1)..Last : k - 1 \in i..Last' /\ (k - 1) + 1 = k
    OBVIOUS
  <1>2. \A k \in (i + 1)..Last : IsMarker(At(k)) /\ At(k).window = w =>
            IsMarker(At(k - 1))' /\ At(k - 1)'.window = w
    <2>1. TAKE k \in (i + 1)..Last
    <2>2. /\ At(k - 1)'.kind = At(k).kind /\ At(k - 1)'.window = At(k).window
          /\ At(k - 1)'.n = At(k).n /\ (At(k).reset => At(k - 1)'.reset)
      BY <1>1
    <2> QED
      BY <2>2 DEF IsMarker
  <1>3. ASSUME NEW j \in i..Last'
        PROVE  /\ w <= At(j)'.window
               /\ w < At(j)'.window /\ ~ IsFailure(At(j))' =>
                    \E k \in i..Last' : k < j /\ IsMarker(At(k))' /\ At(k)'.window = w
    <2>1. j + 1 \in (i + 1)..Last /\ At(j)'.kind = At(j + 1).kind /\ At(j)'.window = At(j + 1).window
      BY <1>3
    <2>2. w <= At(j + 1).window /\ (w < At(j + 1).window /\ ~ IsFailure(At(j + 1)) =>
                    \E k \in (i + 1)..Last : k < j + 1 /\ IsMarker(At(k)) /\ At(k).window = w)
      BY <2>1 DEF Behind
    <2>3. IsFailure(At(j))' <=> IsFailure(At(j + 1))
      BY <2>1 DEF IsFailure
    <2>4. \A k \in (i + 1)..Last : k < j + 1 => k - 1 < j
      BY <1>3
    <2> QED
      BY <1>1, <1>2, <2>1, <2>2, <2>3, <2>4
  <1>4. ~ wireClosed => /\ w <= window /\ (w = window => sawStreamFrame)
                        /\ w < window => \E k \in i..Last' : IsMarker(At(k))' /\ At(k)'.window = w
    <2>1. ~ wireClosed => /\ w <= window /\ (w = window => sawStreamFrame)
                          /\ w < window => \E k \in (i + 1)..Last : IsMarker(At(k)) /\ At(k).window = w
      BY DEF Behind
    <2> QED
      BY <1>1, <1>2, <2>1
  <1> QED
    BY <1>3, <1>4 DEF Behind

\* ... and when the frame at the place is not a marker and is taken away.
LEMMA BehindNext ==
  ASSUME NEW w \in 1..MaxWindows, NEW i \in Nat, Last \in Nat, Behind(w, i), ~ IsMarker(At(i))
  PROVE  Behind(w, i + 1)
  <1>1. \A k \in i..Last : IsMarker(At(k)) => k \in (i + 1)..Last
    <2>1. TAKE k \in i..Last
    <2>2. k = i \/ k \in (i + 1)..Last
      OBVIOUS
    <2> QED
      BY <2>2
  <1>2. \A j \in (i + 1)..Last : j \in i..Last
    OBVIOUS
  <1> QED
    BY <1>1, <1>2 DEF Behind

\* Frames that do not move stay behind a place.
LEMMA BehindStays ==
  ASSUME NEW w \in 1..MaxWindows, NEW i, Behind(w, i), Last' = Last, \A j \in i..Last : At(j)' = At(j),
         UNCHANGED <<wireClosed, window, sawStreamFrame>>
  PROVE  Behind(w, i)'
  BY DEF Behind, IsMarker, IsFailure

----------------------------------------------------------------------------
(* The parts of the invariant are preserved *)

\* Types; a boundary is left only while there is a next window.
LEMMA TypeStep ==
  ASSUME TypeOK, Places, [Next]_vars
  PROVE  TypeOK'
  <1> USE OrchestratorAssumption, CallStreamAssumption DEF workerVars, poolVars, consVars
  <1>1. ASSUME CallerCancels PROVE TypeOK'
    <2>1. cancelled' \in BOOLEAN
      BY <1>1 DEF CallerCancels, TypeOK, WorkerTypeOK
    <2>2. UNCHANGED <<mode, attempt, wpc, window, connected, delta, heartbeatSent, sawStreamFrame, out, outClosed, progress, suppress, wire, wireClosed, broken, pc, cur, needsReset, injectedReset, sentAnyResults, gotFirstByte, restarted, drain, cons, raw, final, terminals, planned, outcome>>
      BY <1>1 DEF CallerCancels
    <2> QED
      BY <2>1, <2>2 DEF TypeOK, WorkerTypeOK
  <1>2. ASSUME ClientGone PROVE TypeOK'
    <2>1. cons' \in {"reading", "draining", "returned"}
      BY <1>2 DEF ClientGone, TypeOK, WorkerTypeOK
    <2>2. UNCHANGED <<mode, attempt, wpc, window, connected, delta, heartbeatSent, sawStreamFrame, out, outClosed, progress, suppress, wire, wireClosed, broken, pc, cur, needsReset, injectedReset, sentAnyResults, gotFirstByte, restarted, drain, cancelled, raw, final, terminals, planned, outcome>>
      BY <1>2 DEF ClientGone
    <2> QED
      BY <2>1, <2>2 DEF TypeOK, WorkerTypeOK
  <1>3. ASSUME EmitPlanned, UNCHANGED <<mode, attempt, suppress, wire, wireClosed, broken, poolVars, cancelled, consVars>> PROVE TypeOK'
    <2>1. wpc' \in {"planned", "window", "boundary", "outcome", "final", "error", "over"}
      BY <1>3 DEF EmitPlanned, NeedsPartials, Offer, Send, Room, TypeOK, WorkerTypeOK
    <2>2. out' \in Seq(Frames) /\ Len(out') <= OutCap
      <3>1. Frame("planned", 0, FALSE) \in Frames
        BY <1>3, Emissions DEF EmitPlanned, Kinds
      <3>2. out' = out \/ Offer(Frame("planned", 0, FALSE)) \/ Send(Frame("planned", 0, FALSE))
        BY <1>3 DEF EmitPlanned
      <3> QED
        BY <3>1, <3>2, QueuedTyped DEF TypeOK, WorkerTypeOK
    <2>3. UNCHANGED <<mode, attempt, window, connected, delta, heartbeatSent, sawStreamFrame, outClosed, progress, suppress, wire, wireClosed, broken, pc, cur, needsReset, injectedReset, sentAnyResults, gotFirstByte, restarted, drain, cancelled, cons, raw, final, terminals, planned, outcome>>
      BY <1>3 DEF EmitPlanned, NeedsPartials, Offer, Send, Room
    <2> QED
      BY <2>1, <2>2, <2>3 DEF TypeOK, WorkerTypeOK
  <1>4. ASSUME UpstreamResponds, UNCHANGED <<mode, attempt, suppress, wire, wireClosed, broken, poolVars, cancelled, consVars>> PROVE TypeOK'
    <2>1. connected' \in BOOLEAN
      BY <1>4 DEF UpstreamResponds, Offer, Room, TypeOK, WorkerTypeOK
    <2>2. heartbeatSent' \in BOOLEAN
      BY <1>4 DEF UpstreamResponds, Offer, Room, TypeOK, WorkerTypeOK
    <2>3. out' \in Seq(Frames) /\ Len(out') <= OutCap
      <3>1. Frame("heartbeat", 0, FALSE) \in Frames
        BY <1>4, Emissions DEF UpstreamResponds, Kinds
      <3>2. out' = out \/ Offer(Frame("heartbeat", 0, FALSE)) \/ Send(Frame("heartbeat", 0, FALSE))
        BY <1>4 DEF UpstreamResponds
      <3> QED
        BY <3>1, <3>2, QueuedTyped DEF TypeOK, WorkerTypeOK
    <2>4. progress' \in BOOLEAN
      BY <1>4 DEF UpstreamResponds, Offer, Room, TypeOK, WorkerTypeOK
    <2>5. UNCHANGED <<mode, attempt, wpc, window, delta, sawStreamFrame, outClosed, suppress, wire, wireClosed, broken, pc, cur, needsReset, injectedReset, sentAnyResults, gotFirstByte, restarted, drain, cancelled, cons, raw, final, terminals, planned, outcome>>
      BY <1>4 DEF UpstreamResponds, Offer, Room
    <2> QED
      BY <2>1, <2>2, <2>3, <2>4, <2>5 DEF TypeOK, WorkerTypeOK
  <1>5. ASSUME UpstreamDelta, UNCHANGED <<mode, attempt, suppress, wire, wireClosed, broken, poolVars, cancelled, consVars>> PROVE TypeOK'
    <2>1. delta' \in 0..MaxDeltas
      BY <1>5 DEF UpstreamDelta, NeedsPartials, Offer, Room, TypeOK, WorkerTypeOK
    <2>2. sawStreamFrame' \in BOOLEAN
      BY <1>5 DEF UpstreamDelta, NeedsPartials, Offer, Room, TypeOK, WorkerTypeOK
    <2>3. out' \in Seq(Frames) /\ Len(out') <= OutCap
      <3>1. Frame("stream", delta + 1, FALSE) \in Frames
        BY <1>5, Emissions DEF UpstreamDelta, Kinds
      <3>2. out' = out \/ Offer(Frame("stream", delta + 1, FALSE)) \/ Send(Frame("stream", delta + 1, FALSE))
        BY <1>5 DEF UpstreamDelta
      <3> QED
        BY <3>1, <3>2, QueuedTyped DEF TypeOK, WorkerTypeOK
    <2>4. UNCHANGED <<mode, attempt, wpc, window, connected, heartbeatSent, outClosed, progress, suppress, wire, wireClosed, broken, pc, cur, needsReset, injectedReset, sentAnyResults, gotFirstByte, restarted, drain, cancelled, cons, raw, final, terminals, planned, outcome>>
      BY <1>5 DEF UpstreamDelta, NeedsPartials, Offer, Room
    <2> QED
      BY <2>1, <2>2, <2>3, <2>4 DEF TypeOK, WorkerTypeOK
  <1>6. ASSUME WindowFails, UNCHANGED <<mode, attempt, suppress, wire, wireClosed, broken, poolVars, cancelled, consVars>> PROVE TypeOK'
    <2>1. wpc' \in {"planned", "window", "boundary", "outcome", "final", "error", "over"}
      BY <1>6 DEF WindowFails, TypeOK, WorkerTypeOK
    <2>2. UNCHANGED <<mode, attempt, window, connected, delta, heartbeatSent, sawStreamFrame, out, outClosed, progress, suppress, wire, wireClosed, broken, pc, cur, needsReset, injectedReset, sentAnyResults, gotFirstByte, restarted, drain, cancelled, cons, raw, final, terminals, planned, outcome>>
      BY <1>6 DEF WindowFails
    <2> QED
      BY <2>1, <2>2 DEF TypeOK, WorkerTypeOK
  <1>7. ASSUME NextWindow, UNCHANGED <<mode, attempt, suppress, wire, wireClosed, broken, poolVars, cancelled, consVars>> PROVE TypeOK'
    <2>1. wpc' \in {"planned", "window", "boundary", "outcome", "final", "error", "over"}
      BY <1>7 DEF NextWindow, ResetAtBoundary, NeedsPartials, Send, Room, TypeOK, WorkerTypeOK
    <2>2. window' \in 1..MaxWindows
      BY <1>7 DEF NextWindow, Places, TypeOK, WorkerTypeOK
    <2>3. connected' \in BOOLEAN
      BY <1>7 DEF NextWindow, ResetAtBoundary, NeedsPartials, Send, Room, TypeOK, WorkerTypeOK
    <2>4. delta' \in 0..MaxDeltas
      BY <1>7 DEF NextWindow, ResetAtBoundary, NeedsPartials, Send, Room, TypeOK, WorkerTypeOK
    <2>5. heartbeatSent' \in BOOLEAN
      BY <1>7 DEF NextWindow, ResetAtBoundary, NeedsPartials, Send, Room, TypeOK, WorkerTypeOK
    <2>6. sawStreamFrame' \in BOOLEAN
      BY <1>7 DEF NextWindow, ResetAtBoundary, NeedsPartials, Send, Room, TypeOK, WorkerTypeOK
    <2>7. out' \in Seq(Frames) /\ Len(out') <= OutCap
      <3>1. Frame("stream", 0, TRUE) \in Frames
        BY <1>7, Emissions DEF NextWindow, Kinds
      <3>2. out' = out \/ Offer(Frame("stream", 0, TRUE)) \/ Send(Frame("stream", 0, TRUE))
        BY <1>7 DEF NextWindow
      <3> QED
        BY <3>1, <3>2, QueuedTyped DEF TypeOK, WorkerTypeOK
    <2>8. UNCHANGED <<mode, attempt, outClosed, progress, suppress, wire, wireClosed, broken, pc, cur, needsReset, injectedReset, sentAnyResults, gotFirstByte, restarted, drain, cancelled, cons, raw, final, terminals, planned, outcome>>
      BY <1>7 DEF NextWindow, ResetAtBoundary, NeedsPartials, Send, Room
    <2> QED
      BY <2>1, <2>2, <2>3, <2>4, <2>5, <2>6, <2>7, <2>8 DEF TypeOK, WorkerTypeOK
  <1>8. ASSUME WindowSucceeds, UNCHANGED <<mode, attempt, suppress, wire, wireClosed, broken, poolVars, cancelled, consVars>> PROVE TypeOK'
    <2>1. wpc' \in {"planned", "window", "boundary", "outcome", "final", "error", "over"}
      BY <1>8 DEF WindowSucceeds, TypeOK, WorkerTypeOK
    <2>2. UNCHANGED <<mode, attempt, window, connected, delta, heartbeatSent, sawStreamFrame, out, outClosed, progress, suppress, wire, wireClosed, broken, pc, cur, needsReset, injectedReset, sentAnyResults, gotFirstByte, restarted, drain, cancelled, cons, raw, final, terminals, planned, outcome>>
      BY <1>8 DEF WindowSucceeds
    <2> QED
      BY <2>1, <2>2 DEF TypeOK, WorkerTypeOK
  <1>9. ASSUME EmitOutcome, UNCHANGED <<mode, attempt, suppress, wire, wireClosed, broken, poolVars, cancelled, consVars>> PROVE TypeOK'
    <2>1. wpc' \in {"planned", "window", "boundary", "outcome", "final", "error", "over"}
      BY <1>9 DEF EmitOutcome, Send, Room, TypeOK, WorkerTypeOK
    <2>2. out' \in Seq(Frames) /\ Len(out') <= OutCap
      <3>1. Frame("outcome", 0, FALSE) \in Frames
        BY <1>9, Emissions DEF EmitOutcome, Kinds
      <3>2. out' = out \/ Offer(Frame("outcome", 0, FALSE)) \/ Send(Frame("outcome", 0, FALSE))
        BY <1>9 DEF EmitOutcome
      <3> QED
        BY <3>1, <3>2, QueuedTyped DEF TypeOK, WorkerTypeOK
    <2>3. UNCHANGED <<mode, attempt, window, connected, delta, heartbeatSent, sawStreamFrame, outClosed, progress, suppress, wire, wireClosed, broken, pc, cur, needsReset, injectedReset, sentAnyResults, gotFirstByte, restarted, drain, cancelled, cons, raw, final, terminals, planned, outcome>>
      BY <1>9 DEF EmitOutcome, Send, Room
    <2> QED
      BY <2>1, <2>2, <2>3 DEF TypeOK, WorkerTypeOK
  <1>10. ASSUME EmitTerminal, UNCHANGED <<mode, attempt, suppress, wire, wireClosed, broken, poolVars, cancelled, consVars>> PROVE TypeOK'
    <2>1. wpc' \in {"planned", "window", "boundary", "outcome", "final", "error", "over"}
      BY <1>10 DEF EmitTerminal, Send, Room, TypeOK, WorkerTypeOK
    <2>2. out' \in Seq(Frames) /\ Len(out') <= OutCap
      <3>1. Frame("final", 0, FALSE) \in Frames /\ Frame("error", 0, FALSE) \in Frames
        BY Emissions DEF Kinds
      <3>2. Send(Frame("final", 0, FALSE)) \/ Send(Frame("error", 0, FALSE))
        BY <1>10 DEF EmitTerminal
      <3> QED
        BY <3>1, <3>2, QueuedTyped
    <2>3. outClosed' \in BOOLEAN
      BY <1>10 DEF EmitTerminal, Send, Room, TypeOK, WorkerTypeOK
    <2>4. UNCHANGED <<mode, attempt, window, connected, delta, heartbeatSent, sawStreamFrame, progress, suppress, wire, wireClosed, broken, pc, cur, needsReset, injectedReset, sentAnyResults, gotFirstByte, restarted, drain, cancelled, cons, raw, final, terminals, planned, outcome>>
      BY <1>10 DEF EmitTerminal, Send, Room
    <2> QED
      BY <2>1, <2>2, <2>3, <2>4 DEF TypeOK, WorkerTypeOK
  <1>11. ASSUME AttemptContextDone, AbortOrchestration, UNCHANGED <<mode, attempt, suppress, wire, wireClosed, broken, poolVars, cancelled, consVars>> PROVE TypeOK'
    <2>1. wpc' \in {"planned", "window", "boundary", "outcome", "final", "error", "over"}
      BY <1>11 DEF AbortOrchestration, TypeOK, WorkerTypeOK
    <2>2. outClosed' \in BOOLEAN
      BY <1>11 DEF AbortOrchestration, TypeOK, WorkerTypeOK
    <2>3. UNCHANGED <<mode, attempt, window, connected, delta, heartbeatSent, sawStreamFrame, out, progress, suppress, wire, wireClosed, broken, pc, cur, needsReset, injectedReset, sentAnyResults, gotFirstByte, restarted, drain, cancelled, cons, raw, final, terminals, planned, outcome>>
      BY <1>11 DEF AbortOrchestration
    <2> QED
      BY <2>1, <2>2, <2>3 DEF TypeOK, WorkerTypeOK
  <1>12. ASSUME Bridge PROVE TypeOK'
    <2>1. out' \in Seq(Frames) /\ Len(out') <= OutCap
      BY <1>12 DEF Bridge, WireRoom, TypeOK, WorkerTypeOK
    <2>2. wire' \in Seq(Frames) /\ Len(wire') <= WireCap
      BY <1>12 DEF Bridge, WireRoom, TypeOK, WorkerTypeOK
    <2>3. UNCHANGED <<mode, attempt, wpc, window, connected, delta, heartbeatSent, sawStreamFrame, outClosed, progress, suppress, wireClosed, broken, pc, cur, needsReset, injectedReset, sentAnyResults, gotFirstByte, restarted, drain, cancelled, cons, raw, final, terminals, planned, outcome>>
      BY <1>12 DEF Bridge, WireRoom
    <2> QED
      BY <2>1, <2>2, <2>3 DEF TypeOK, WorkerTypeOK
  <1>13. ASSUME BridgeEnds PROVE TypeOK'
    <2>1. wire' \in Seq(Frames) /\ Len(wire') <= WireCap
      <3>1. wire \in Seq(Frames) /\ Len(wire) <= WireCap /\ Len(wire) \in Nat /\ WireCap \in Nat
        BY DEF TypeOK
      <3>2. \/ wire' = wire
            \/ \E f \in Frames : wire' = Append(wire, f) /\ Len(wire) < WireCap
        <4>1. /\ Frame("infra", 0, FALSE) \in Frames /\ Frame("cancel", 0, FALSE) \in Frames
          BY Emissions DEF Kinds
        <4> QED
          BY <1>13, <4>1 DEF BridgeEnds, WireRoom
      <3> QED
        BY <3>1, <3>2
    <2>2. wireClosed' \in BOOLEAN
      BY <1>13 DEF BridgeEnds, WireRoom, AttemptContextDone, TypeOK, WorkerTypeOK
    <2>3. UNCHANGED <<mode, attempt, wpc, window, connected, delta, heartbeatSent, sawStreamFrame, out, outClosed, progress, suppress, broken, pc, cur, needsReset, injectedReset, sentAnyResults, gotFirstByte, restarted, drain, cancelled, cons, raw, final, terminals, planned, outcome>>
      BY <1>13 DEF BridgeEnds, WireRoom, AttemptContextDone
    <2> QED
      BY <2>1, <2>2, <2>3 DEF TypeOK, WorkerTypeOK
  <1>14. ASSUME WorkerDies PROVE TypeOK'
    <2>1. wpc' \in {"planned", "window", "boundary", "outcome", "final", "error", "over"}
      BY <1>14 DEF WorkerDies, WireRoom, TypeOK, WorkerTypeOK
    <2>2. out' \in Seq(Frames) /\ Len(out') <= OutCap
      BY <1>14 DEF WorkerDies, WireRoom, TypeOK, WorkerTypeOK
    <2>3. outClosed' \in BOOLEAN
      BY <1>14 DEF WorkerDies, WireRoom, TypeOK, WorkerTypeOK
    <2>4. wire' \in Seq(Frames) /\ Len(wire') <= WireCap
      <3>1. wire \in Seq(Frames) /\ Len(wire) <= WireCap /\ Len(wire) \in Nat /\ WireCap \in Nat
        BY DEF TypeOK
      <3>2. \/ wire' = wire
            \/ \E f \in Frames : wire' = Append(wire, f) /\ Len(wire) < WireCap
        <4>1. /\ Frame("infra", 0, FALSE) \in Frames /\ Frame("cancel", 0, FALSE) \in Frames
          BY Emissions DEF Kinds
        <4> QED
          BY <1>14, <4>1 DEF WorkerDies, WireRoom
      <3> QED
        BY <3>1, <3>2
    <2>5. wireClosed' \in BOOLEAN
      BY <1>14 DEF WorkerDies, WireRoom, TypeOK, WorkerTypeOK
    <2>6. broken' \in SUBSET Attempts
      BY <1>14 DEF WorkerDies, Attempts, TypeOK, WorkerTypeOK
    <2>7. UNCHANGED <<mode, attempt, window, connected, delta, heartbeatSent, sawStreamFrame, progress, suppress, pc, cur, needsReset, injectedReset, sentAnyResults, gotFirstByte, restarted, drain, cancelled, cons, raw, final, terminals, planned, outcome>>
      BY <1>14 DEF WorkerDies, WireRoom
    <2> QED
      BY <2>1, <2>2, <2>3, <2>4, <2>5, <2>6, <2>7 DEF TypeOK, WorkerTypeOK
  <1>15. ASSUME GetWorkerForRetry PROVE TypeOK'
    <2>1. pc' \in {"get", "call", "recv", "send", "eof", "restart", "next", "sendError", "done"}
      BY <1>15 DEF GetWorkerForRetry, TypeOK, WorkerTypeOK
    <2>2. UNCHANGED <<mode, attempt, wpc, window, connected, delta, heartbeatSent, sawStreamFrame, out, outClosed, progress, suppress, wire, wireClosed, broken, cur, needsReset, injectedReset, sentAnyResults, gotFirstByte, restarted, drain, cancelled, cons, raw, final, terminals, planned, outcome>>
      BY <1>15 DEF GetWorkerForRetry
    <2> QED
      BY <2>1, <2>2 DEF TypeOK, WorkerTypeOK
  <1>16. ASSUME OpenStream PROVE TypeOK'
    <2>1. wpc' \in {"planned", "window", "boundary", "outcome", "final", "error", "over"}
      BY <1>16 DEF OpenStream, StartWorker, TypeOK, WorkerTypeOK
    <2>2. window' \in 1..MaxWindows
      BY <1>16 DEF OpenStream, StartWorker, TypeOK, WorkerTypeOK
    <2>3. connected' \in BOOLEAN
      BY <1>16 DEF OpenStream, StartWorker, TypeOK, WorkerTypeOK
    <2>4. delta' \in 0..MaxDeltas
      BY <1>16 DEF OpenStream, StartWorker, TypeOK, WorkerTypeOK
    <2>5. heartbeatSent' \in BOOLEAN
      BY <1>16 DEF OpenStream, StartWorker, TypeOK, WorkerTypeOK
    <2>6. sawStreamFrame' \in BOOLEAN
      BY <1>16 DEF OpenStream, StartWorker, TypeOK, WorkerTypeOK
    <2>7. out' \in Seq(Frames) /\ Len(out') <= OutCap
      BY <1>16 DEF OpenStream, StartWorker, TypeOK, WorkerTypeOK
    <2>8. outClosed' \in BOOLEAN
      BY <1>16 DEF OpenStream, StartWorker, TypeOK, WorkerTypeOK
    <2>9. progress' \in BOOLEAN
      BY <1>16 DEF OpenStream, StartWorker, TypeOK, WorkerTypeOK
    <2>10. wire' \in Seq(Frames) /\ Len(wire') <= WireCap
      BY <1>16 DEF OpenStream, StartWorker, TypeOK, WorkerTypeOK
    <2>11. wireClosed' \in BOOLEAN
      BY <1>16 DEF OpenStream, StartWorker, TypeOK, WorkerTypeOK
    <2>12. pc' \in {"get", "call", "recv", "send", "eof", "restart", "next", "sendError", "done"}
      BY <1>16 DEF OpenStream, StartWorker, TypeOK, WorkerTypeOK
    <2>13. needsReset' \in BOOLEAN
      BY <1>16 DEF OpenStream, StartWorker, TypeOK, WorkerTypeOK
    <2>14. injectedReset' \in BOOLEAN
      BY <1>16 DEF OpenStream, StartWorker, TypeOK, WorkerTypeOK
    <2>15. gotFirstByte' \in BOOLEAN
      BY <1>16 DEF OpenStream, StartWorker, TypeOK, WorkerTypeOK
    <2>16. UNCHANGED <<mode, attempt, suppress, broken, cur, sentAnyResults, restarted, drain, cancelled, cons, raw, final, terminals, planned, outcome>>
      BY <1>16 DEF OpenStream, StartWorker
    <2> QED
      BY <2>1, <2>2, <2>3, <2>4, <2>5, <2>6, <2>7, <2>8, <2>9, <2>10, <2>11, <2>12, <2>13, <2>14, <2>15, <2>16 DEF TypeOK, WorkerTypeOK
  <1>17. ASSUME SetupRefused PROVE TypeOK'
    <2>1. pc' \in {"get", "call", "recv", "send", "eof", "restart", "next", "sendError", "done"}
      BY <1>17 DEF SetupRefused, TypeOK, WorkerTypeOK
    <2>2. UNCHANGED <<mode, attempt, wpc, window, connected, delta, heartbeatSent, sawStreamFrame, out, outClosed, progress, suppress, wire, wireClosed, broken, cur, needsReset, injectedReset, sentAnyResults, gotFirstByte, restarted, drain, cancelled, cons, raw, final, terminals, planned, outcome>>
      BY <1>17 DEF SetupRefused
    <2> QED
      BY <2>1, <2>2 DEF TypeOK, WorkerTypeOK
  <1>18. ASSUME SetupFails PROVE TypeOK'
    <2>1. broken' \in SUBSET Attempts
      BY <1>18 DEF SetupFails, Attempts, TypeOK, WorkerTypeOK
    <2>2. pc' \in {"get", "call", "recv", "send", "eof", "restart", "next", "sendError", "done"}
      BY <1>18 DEF SetupFails, TypeOK, WorkerTypeOK
    <2>3. UNCHANGED <<mode, attempt, wpc, window, connected, delta, heartbeatSent, sawStreamFrame, out, outClosed, progress, suppress, wire, wireClosed, cur, needsReset, injectedReset, sentAnyResults, gotFirstByte, restarted, drain, cancelled, cons, raw, final, terminals, planned, outcome>>
      BY <1>18 DEF SetupFails
    <2> QED
      BY <2>1, <2>2, <2>3 DEF TypeOK, WorkerTypeOK
  <1>19. ASSUME SetupCancelled PROVE TypeOK'
    <2>1. pc' \in {"get", "call", "recv", "send", "eof", "restart", "next", "sendError", "done"}
      BY <1>19 DEF SetupCancelled, TypeOK, WorkerTypeOK
    <2>2. UNCHANGED <<mode, attempt, wpc, window, connected, delta, heartbeatSent, sawStreamFrame, out, outClosed, progress, suppress, wire, wireClosed, broken, cur, needsReset, injectedReset, sentAnyResults, gotFirstByte, restarted, drain, cancelled, cons, raw, final, terminals, planned, outcome>>
      BY <1>19 DEF SetupCancelled
    <2> QED
      BY <2>1, <2>2 DEF TypeOK, WorkerTypeOK
  <1>20. ASSUME StreamCancelled PROVE TypeOK'
    <2>1. pc' \in {"get", "call", "recv", "send", "eof", "restart", "next", "sendError", "done"}
      BY <1>20 DEF StreamCancelled, LeaveDrain, TypeOK, WorkerTypeOK
    <2>2. cur' \in Frames \cup {None}
      BY <1>20 DEF StreamCancelled, LeaveDrain, TypeOK, WorkerTypeOK
    <2>3. drain' \in {"none", "plain", "check"}
      BY <1>20 DEF StreamCancelled, LeaveDrain, TypeOK, WorkerTypeOK
    <2>4. UNCHANGED <<mode, attempt, wpc, window, connected, delta, heartbeatSent, sawStreamFrame, out, outClosed, progress, suppress, wire, wireClosed, broken, needsReset, injectedReset, sentAnyResults, gotFirstByte, restarted, cancelled, cons, raw, final, terminals, planned, outcome>>
      BY <1>20 DEF StreamCancelled, LeaveDrain
    <2> QED
      BY <2>1, <2>2, <2>3, <2>4 DEF TypeOK, WorkerTypeOK
  <1>21. ASSUME Receive PROVE TypeOK'
    <2>1. /\ pc' \in {"recv", "done", "restart", "send"} /\ cur' \in Frames \cup {None}
          /\ gotFirstByte' \in BOOLEAN /\ injectedReset' \in BOOLEAN /\ drain' \in {"none", "plain", "check"}
      BY <1>21, ReceiveRow DEF InjectReset, TypeOK
    <2>2. wire' \in Seq(Frames) /\ Len(wire') <= WireCap
      BY <1>21 DEF Receive, TypeOK
    <2>3. UNCHANGED <<mode, attempt, wpc, window, connected, delta, heartbeatSent, sawStreamFrame, out, outClosed, progress, suppress, wireClosed, broken, needsReset, sentAnyResults, restarted, cancelled, cons, raw, final, terminals, planned, outcome>>
      BY <1>21 DEF Receive
    <2> QED
      BY <2>1, <2>2, <2>3 DEF TypeOK, WorkerTypeOK
  <1>22. ASSUME ReceiveFailure PROVE TypeOK'
    <2>1. broken' \in SUBSET Attempts
      BY <1>22 DEF ReceiveFailure, Blamed, Attempts, TypeOK, WorkerTypeOK
    <2>2. /\ wire' = <<>> /\ wireClosed' = TRUE /\ gotFirstByte' = TRUE /\ pc' = "restart"
          /\ UNCHANGED <<mode, attempt, wpc, window, connected, delta, heartbeatSent, sawStreamFrame, out, outClosed, progress, suppress, cur, needsReset, injectedReset, sentAnyResults, restarted, drain, cancelled, cons, raw, final, terminals, planned, outcome>>
      BY <1>22 DEF ReceiveFailure
    <2> QED
      BY <2>1, <2>2 DEF TypeOK, WorkerTypeOK
  <1>23. ASSUME ReceiveClosed PROVE TypeOK'
    <2>1. pc' \in {"get", "call", "recv", "send", "eof", "restart", "next", "sendError", "done"}
      BY <1>23 DEF ReceiveClosed, TypeOK, WorkerTypeOK
    <2>2. UNCHANGED <<mode, attempt, wpc, window, connected, delta, heartbeatSent, sawStreamFrame, out, outClosed, progress, suppress, wire, wireClosed, broken, cur, needsReset, injectedReset, sentAnyResults, gotFirstByte, restarted, drain, cancelled, cons, raw, final, terminals, planned, outcome>>
      BY <1>23 DEF ReceiveClosed
    <2> QED
      BY <2>1, <2>2 DEF TypeOK, WorkerTypeOK
  <1>24. ASSUME SilentEOF PROVE TypeOK'
    <2>1. pc' \in {"get", "call", "recv", "send", "eof", "restart", "next", "sendError", "done"}
      BY <1>24 DEF SilentEOF, EOFMeansDeath, TypeOK, WorkerTypeOK
    <2>2. UNCHANGED <<mode, attempt, wpc, window, connected, delta, heartbeatSent, sawStreamFrame, out, outClosed, progress, suppress, wire, wireClosed, broken, cur, needsReset, injectedReset, sentAnyResults, gotFirstByte, restarted, drain, cancelled, cons, raw, final, terminals, planned, outcome>>
      BY <1>24 DEF SilentEOF, EOFMeansDeath
    <2> QED
      BY <2>1, <2>2 DEF TypeOK, WorkerTypeOK
  <1>25. ASSUME ReportWorker PROVE TypeOK'
    <2>1. pc' \in {"get", "call", "recv", "send", "eof", "restart", "next", "sendError", "done"}
      BY <1>25 DEF ReportWorker, TypeOK, WorkerTypeOK
    <2>2. restarted' \in SUBSET Attempts
      BY <1>25 DEF ReportWorker, Attempts, TypeOK, WorkerTypeOK
    <2>3. UNCHANGED <<mode, attempt, wpc, window, connected, delta, heartbeatSent, sawStreamFrame, out, outClosed, progress, suppress, wire, wireClosed, broken, cur, needsReset, injectedReset, sentAnyResults, gotFirstByte, drain, cancelled, cons, raw, final, terminals, planned, outcome>>
      BY <1>25 DEF ReportWorker
    <2> QED
      BY <2>1, <2>2, <2>3 DEF TypeOK, WorkerTypeOK
  <1>26. ASSUME NextAttempt PROVE TypeOK'
    <2>1. attempt' \in 1..MaxAttempts
      BY <1>26 DEF NextAttempt, StreamAttempts, Exhausted, TypeOK, WorkerTypeOK
    <2>2. pc' \in {"get", "call", "recv", "send", "eof", "restart", "next", "sendError", "done"}
      BY <1>26 DEF NextAttempt, StreamAttempts, Exhausted, TypeOK, WorkerTypeOK
    <2>3. UNCHANGED <<mode, wpc, window, connected, delta, heartbeatSent, sawStreamFrame, out, outClosed, progress, suppress, wire, wireClosed, broken, cur, needsReset, injectedReset, sentAnyResults, gotFirstByte, restarted, drain, cancelled, cons, raw, final, terminals, planned, outcome>>
      BY <1>26 DEF NextAttempt, StreamAttempts, Exhausted
    <2> QED
      BY <2>1, <2>2, <2>3 DEF TypeOK, WorkerTypeOK
  <1>27. ASSUME Drain PROVE TypeOK'
    <2>1. wire' \in Seq(Frames) /\ Len(wire') <= WireCap
      BY <1>27 DEF Drain, TypeOK, WorkerTypeOK
    <2>2. restarted' \in SUBSET Attempts /\ broken' \in SUBSET Attempts
      BY <1>27 DEF Drain, Blamed, Attempts, TypeOK, WorkerTypeOK
    <2>3. UNCHANGED <<mode, attempt, wpc, window, connected, delta, heartbeatSent, sawStreamFrame, out, outClosed, progress, suppress, wireClosed, pc, cur, needsReset, injectedReset, sentAnyResults, gotFirstByte, drain, cancelled, cons, raw, final, terminals, planned, outcome>>
      BY <1>27 DEF Drain
    <2> QED
      BY <2>1, <2>2, <2>3 DEF TypeOK, WorkerTypeOK
  <1>28. ASSUME Forward PROVE TypeOK'
    <2>1. cur \in Frames /\ Consume(cur) /\ terminals = 0 /\ pc = "send"
      BY <1>28, Taken DEF Forward, Places
    <2>2. /\ terminals' \in 0..1 /\ raw' \in Seq(Frames) /\ final' \in Frames \cup {None}
          /\ planned' \in Frames \cup {None} /\ outcome' \in Frames \cup {None}
          /\ cons' \in {"reading", "draining", "returned"}
      BY <2>1, Consumed DEF TypeOK
    <2>3. /\ pc' \in {"done", "recv"} /\ drain' \in {"none", "plain", "check"} /\ cur' = None
          /\ sentAnyResults' \in BOOLEAN
      BY <1>28 DEF Forward, Forwarded, IsProgress, LeaveDrain, TypeOK
    <2>4. UNCHANGED <<mode, attempt, wpc, window, connected, delta, heartbeatSent, sawStreamFrame, out, outClosed, progress, suppress, wire, wireClosed, broken, needsReset, injectedReset, gotFirstByte, restarted, cancelled>>
      BY <1>28 DEF Forward
    <2> QED
      BY <2>2, <2>3, <2>4 DEF TypeOK, WorkerTypeOK
  <1>29. ASSUME SendStreamError PROVE TypeOK'
    <2>1. PICK e \in Frames : e = Frame("error", 0, FALSE)
      BY Emissions DEF Kinds
    <2>2. (Consume(e) \/ UNCHANGED consVars) /\ terminals = 0
      BY <1>29, <2>1 DEF SendStreamError, Places
    <2>3. /\ terminals' \in 0..1 /\ raw' \in Seq(Frames) /\ final' \in Frames \cup {None}
          /\ planned' \in Frames \cup {None} /\ outcome' \in Frames \cup {None}
          /\ cons' \in {"reading", "draining", "returned"}
      BY <2>2, Consumed DEF TypeOK
    <2>4. UNCHANGED <<mode, attempt, wpc, window, connected, delta, heartbeatSent, sawStreamFrame, out, outClosed, progress, suppress, wire, wireClosed, broken, cur, needsReset, injectedReset, sentAnyResults, gotFirstByte, restarted, drain, cancelled>>
      BY <1>29 DEF SendStreamError
    <2>5. pc' = "done"
      BY <1>29 DEF SendStreamError
    <2> QED
      BY <2>3, <2>4, <2>5 DEF TypeOK, WorkerTypeOK
  <1>30. CASE UNCHANGED vars
    BY <1>30 DEF vars, TypeOK, WorkerTypeOK
  <1> QED
    BY <1>1, <1>2, <1>3, <1>4, <1>5, <1>6, <1>7, <1>8, <1>9, <1>10, <1>11, <1>12, <1>13, <1>14, <1>15, <1>16, <1>17, <1>18, <1>19, <1>20, <1>21, <1>22, <1>23, <1>24, <1>25, <1>26, <1>27, <1>28, <1>29, <1>30
       DEF Next, WorkerStep, OrchestratorStep, WorkerAborts, Transport, PoolStep

\* Where CallStream is keeps saying what it did.
LEMMA PlacesStep ==
  ASSUME TypeOK, Places, [Next]_vars
  PROVE  Places'
  <1> USE OrchestratorAssumption, CallStreamAssumption DEF workerVars, poolVars, consVars
  <1>1. ASSUME UNCHANGED <<pc, cur, wpc, window, outClosed, wireClosed, drain, terminals, final, cons, mode, raw>> PROVE Places'
    BY <1>1 DEF Places
  <1>2. ASSUME CallerCancels \/ Bridge \/ Drain PROVE Places'
    BY <1>1, <1>2 DEF CallerCancels, Bridge, WireRoom, Drain
  <1>3. ASSUME UpstreamResponds \/ UpstreamDelta, UNCHANGED <<mode, attempt, suppress, wire, wireClosed, broken, poolVars, cancelled, consVars>> PROVE Places'
    BY <1>1, <1>3 DEF UpstreamResponds, Offer, Room, UpstreamDelta, NeedsPartials
  <1>4. ASSUME ClientGone PROVE Places'
    BY <1>4 DEF ClientGone, Places, TypeOK, WorkerTypeOK
  <1>5. ASSUME EmitPlanned, UNCHANGED <<mode, attempt, suppress, wire, wireClosed, broken, poolVars, cancelled, consVars>> PROVE Places'
    BY <1>5 DEF EmitPlanned, NeedsPartials, Offer, Send, Room, Places, TypeOK, WorkerTypeOK
  <1>6. ASSUME WindowFails, UNCHANGED <<mode, attempt, suppress, wire, wireClosed, broken, poolVars, cancelled, consVars>> PROVE Places'
    BY <1>6 DEF WindowFails, Places, TypeOK, WorkerTypeOK
  <1>7. ASSUME NextWindow, UNCHANGED <<mode, attempt, suppress, wire, wireClosed, broken, poolVars, cancelled, consVars>> PROVE Places'
    BY <1>7 DEF NextWindow, ResetAtBoundary, NeedsPartials, Send, Room, Places, TypeOK, WorkerTypeOK
  <1>8. ASSUME WindowSucceeds, UNCHANGED <<mode, attempt, suppress, wire, wireClosed, broken, poolVars, cancelled, consVars>> PROVE Places'
    BY <1>8 DEF WindowSucceeds, Places, TypeOK, WorkerTypeOK
  <1>9. ASSUME EmitOutcome, UNCHANGED <<mode, attempt, suppress, wire, wireClosed, broken, poolVars, cancelled, consVars>> PROVE Places'
    BY <1>9 DEF EmitOutcome, Send, Room, Places, TypeOK, WorkerTypeOK
  <1>10. ASSUME EmitTerminal, UNCHANGED <<mode, attempt, suppress, wire, wireClosed, broken, poolVars, cancelled, consVars>> PROVE Places'
    BY <1>10 DEF EmitTerminal, Send, Room, Places, TypeOK, WorkerTypeOK
  <1>11. ASSUME AttemptContextDone, AbortOrchestration, UNCHANGED <<mode, attempt, suppress, wire, wireClosed, broken, poolVars, cancelled, consVars>> PROVE Places'
    BY <1>11 DEF AbortOrchestration, Places, TypeOK, WorkerTypeOK
  <1>12. ASSUME BridgeEnds PROVE Places'
    BY <1>12 DEF BridgeEnds, WireRoom, AttemptContextDone, Places, TypeOK, WorkerTypeOK
  <1>13. ASSUME WorkerDies PROVE Places'
    BY <1>13 DEF WorkerDies, WireRoom, Places, TypeOK, WorkerTypeOK
  <1>14. ASSUME GetWorkerForRetry PROVE Places'
    BY <1>14 DEF GetWorkerForRetry, Places, TypeOK, WorkerTypeOK
  <1>15. ASSUME OpenStream PROVE Places'
    BY <1>15 DEF OpenStream, StartWorker, Places, TypeOK, WorkerTypeOK
  <1>16. ASSUME SetupRefused PROVE Places'
    BY <1>16 DEF SetupRefused, Places, TypeOK, WorkerTypeOK
  <1>17. ASSUME SetupFails PROVE Places'
    BY <1>17 DEF SetupFails, Places, TypeOK, WorkerTypeOK
  <1>18. ASSUME SetupCancelled PROVE Places'
    BY <1>18 DEF SetupCancelled, Places, TypeOK, WorkerTypeOK
  <1>19. ASSUME StreamCancelled PROVE Places'
    BY <1>19 DEF StreamCancelled, LeaveDrain, Places, TypeOK, WorkerTypeOK
  <1>20. ASSUME Receive PROVE Places'
    <2>1. UNCHANGED <<wpc, window, outClosed, wireClosed, terminals, final, cons, mode, raw>> /\ pc = "recv"
      BY <1>20 DEF Receive
    <2>2. None \notin Frames
      OBVIOUS
    <2> QED
      BY <1>20, <2>1, <2>2, ReceiveRow DEF Places
  <1>21. ASSUME ReceiveFailure PROVE Places'
    BY <1>21 DEF ReceiveFailure, Places
  <1>22. ASSUME ReceiveClosed PROVE Places'
    BY <1>22 DEF ReceiveClosed, Places, TypeOK, WorkerTypeOK
  <1>23. ASSUME SilentEOF PROVE Places'
    BY <1>23 DEF SilentEOF, EOFMeansDeath, Places, TypeOK, WorkerTypeOK
  <1>24. ASSUME ReportWorker PROVE Places'
    BY <1>24 DEF ReportWorker, Places, TypeOK, WorkerTypeOK
  <1>25. ASSUME NextAttempt PROVE Places'
    BY <1>25 DEF NextAttempt, StreamAttempts, Exhausted, Places, TypeOK, WorkerTypeOK
  <1>26. ASSUME Forward PROVE Places'
    <2>1. cur \in Frames /\ Consume(cur) /\ pc = "send" /\ UNCHANGED <<wpc, window, outClosed, wireClosed, mode>>
      BY <1>26, Taken DEF Forward
    <2>2. /\ pc' = IF IsTerminal(cur) THEN "done" ELSE "recv"
          /\ drain' = IF IsTerminal(cur) THEN "plain" ELSE drain
      BY <1>26 DEF Forward, LeaveDrain
    <2>3. cur.kind = "final" => IsTerminal(cur)
      BY DEF IsTerminal
    <2>4. mode = "call" => raw' = raw /\ cons' \in {cons, "returned"}
      BY <2>1, Consumed
    <2>5. ~ IsTerminal(cur) => terminals' = terminals /\ final' = final /\ cons' # "returned"
      BY <2>1, <2>3, Consumed DEF TypeOK
    <2>6. cons' = "returned" => mode = "call"
      BY <2>1, Consumed
    <2> QED
      BY <2>1, <2>2, <2>4, <2>5, <2>6 DEF Places
  <1>27. ASSUME SendStreamError PROVE Places'
    <2>1. Frame("error", 0, FALSE) \in Frames
      BY Emissions DEF Kinds
    <2>2. pc = "sendError" /\ pc' = "done" /\ UNCHANGED <<wpc, window, outClosed, wireClosed, mode, cur, drain>>
      BY <1>27 DEF SendStreamError
    <2>3. (cons' = "returned" => mode = "call") /\ (mode = "call" => raw' = raw /\ cons' \in {cons, "returned"})
      BY <1>27, <2>1, Consumed DEF SendStreamError, Places
    <2> QED
      BY <2>2, <2>3 DEF Places
  <1>28. CASE UNCHANGED vars
    BY <1>1, <1>28 DEF vars
  <1> QED
    BY <1>2, <1>3, <1>4, <1>5, <1>6, <1>7, <1>8, <1>9, <1>10, <1>11, <1>12, <1>13, <1>14, <1>15, <1>16, <1>17, <1>18, <1>19, <1>20, <1>21, <1>22, <1>23, <1>24, <1>25, <1>26, <1>27, <1>28
       DEF Next, WorkerStep, OrchestratorStep, WorkerAborts, Transport, PoolStep

\* CallStream returns after one terminal frame, or because the caller is gone.
LEMMA TerminalDeliveredStep ==
  ASSUME TypeOK, Places, TerminalDelivered, [Next]_vars
  PROVE  TerminalDelivered'
  <1> USE OrchestratorAssumption, CallStreamAssumption DEF workerVars, poolVars, consVars
  <1>1. ASSUME UNCHANGED <<pc, cancelled, terminals>> PROVE TerminalDelivered'
    BY <1>1 DEF TerminalDelivered
  <1>2. ASSUME ClientGone \/ Bridge \/ BridgeEnds \/ WorkerDies \/ Drain PROVE TerminalDelivered'
    BY <1>1, <1>2 DEF ClientGone, Bridge, WireRoom, BridgeEnds, AttemptContextDone, WorkerDies, Drain
  <1>3. ASSUME EmitPlanned \/ UpstreamResponds \/ UpstreamDelta \/ WindowFails \/ NextWindow \/ WindowSucceeds \/ EmitOutcome \/ EmitTerminal, UNCHANGED <<mode, attempt, suppress, wire, wireClosed, broken, poolVars, cancelled, consVars>> PROVE TerminalDelivered'
    BY <1>1, <1>3 DEF EmitPlanned, NeedsPartials, Offer, Send, Room, UpstreamResponds, UpstreamDelta, WindowFails, NextWindow, ResetAtBoundary, WindowSucceeds, EmitOutcome, EmitTerminal
  <1>4. ASSUME AttemptContextDone, AbortOrchestration, UNCHANGED <<mode, attempt, suppress, wire, wireClosed, broken, poolVars, cancelled, consVars>> PROVE TerminalDelivered'
    BY <1>1, <1>4 DEF AbortOrchestration
  <1>5. ASSUME CallerCancels PROVE TerminalDelivered'
    BY <1>5 DEF CallerCancels, TerminalDelivered, TypeOK, WorkerTypeOK
  <1>6. ASSUME GetWorkerForRetry PROVE TerminalDelivered'
    BY <1>6 DEF GetWorkerForRetry, TerminalDelivered, TypeOK, WorkerTypeOK
  <1>7. ASSUME OpenStream PROVE TerminalDelivered'
    BY <1>7 DEF OpenStream, StartWorker, TerminalDelivered, TypeOK, WorkerTypeOK
  <1>8. ASSUME SetupRefused PROVE TerminalDelivered'
    BY <1>8 DEF SetupRefused, TerminalDelivered, TypeOK, WorkerTypeOK
  <1>9. ASSUME SetupFails PROVE TerminalDelivered'
    BY <1>9 DEF SetupFails, TerminalDelivered, TypeOK, WorkerTypeOK
  <1>10. ASSUME SetupCancelled PROVE TerminalDelivered'
    BY <1>10 DEF SetupCancelled, TerminalDelivered, TypeOK, WorkerTypeOK
  <1>11. ASSUME StreamCancelled PROVE TerminalDelivered'
    BY <1>11 DEF StreamCancelled, LeaveDrain, TerminalDelivered, TypeOK, WorkerTypeOK
  <1>12. ASSUME Receive PROVE TerminalDelivered'
    BY <1>12 DEF Receive, LeaveDrain, Retryable, IsProgress, Stamped, InjectReset, TerminalDelivered, TypeOK, WorkerTypeOK
  <1>13. ASSUME ReceiveFailure PROVE TerminalDelivered'
    BY <1>13 DEF ReceiveFailure, TerminalDelivered
  <1>14. ASSUME ReceiveClosed PROVE TerminalDelivered'
    BY <1>14 DEF ReceiveClosed, TerminalDelivered, TypeOK, WorkerTypeOK
  <1>15. ASSUME SilentEOF PROVE TerminalDelivered'
    BY <1>15 DEF SilentEOF, EOFMeansDeath, TerminalDelivered, TypeOK, WorkerTypeOK
  <1>16. ASSUME ReportWorker PROVE TerminalDelivered'
    BY <1>16 DEF ReportWorker, TerminalDelivered, TypeOK, WorkerTypeOK
  <1>17. ASSUME NextAttempt PROVE TerminalDelivered'
    BY <1>17 DEF NextAttempt, StreamAttempts, Exhausted, TerminalDelivered, TypeOK, WorkerTypeOK
  <1>18. ASSUME Forward PROVE TerminalDelivered'
    <2>1. cur \in Frames /\ Consume(cur) /\ terminals = 0
      BY <1>18, Taken DEF Forward, Places
    <2>2. terminals' = IF IsTerminal(cur) THEN 1 ELSE 0
      BY <2>1, Consumed
    <2> QED
      BY <1>18, <2>2 DEF Forward, TerminalDelivered
  <1>19. ASSUME SendStreamError PROVE TerminalDelivered'
    <2>1. PICK e \in Frames : e = Frame("error", 0, FALSE) /\ e.kind = "error"
      BY Emissions DEF Kinds
    <2>2. (Consume(e) \/ cancelled) /\ terminals = 0 /\ cancelled' = cancelled /\ pc' = "done"
      BY <1>19, <2>1 DEF SendStreamError, Places
    <2>3. IsTerminal(e)
      BY <2>1 DEF IsTerminal
    <2>4. ASSUME Consume(e) PROVE terminals' = 1
      BY <2>2, <2>3, <2>4, Consumed
    <2> QED
      BY <2>2, <2>4 DEF TerminalDelivered
  <1>20. CASE UNCHANGED vars
    BY <1>1, <1>20 DEF vars
  <1> QED
    BY <1>2, <1>3, <1>4, <1>5, <1>6, <1>7, <1>8, <1>9, <1>10, <1>11, <1>12, <1>13, <1>14, <1>15, <1>16, <1>17, <1>18, <1>19, <1>20
       DEF Next, WorkerStep, OrchestratorStep, WorkerAborts, Transport, PoolStep

\* Frames that blame a worker come from the transport, after the stream was closed.
LEMMA BlameStep ==
  ASSUME TypeOK, Places, EndsWell, Blame, [Next]_vars
  PROVE  Blame'
  <1> USE OrchestratorAssumption, CallStreamAssumption DEF workerVars, poolVars, consVars
  <1>1. ASSUME UNCHANGED <<pc, cur, wire, wireClosed, out, drain, attempt, broken, cancelled>> PROVE Blame'
    BY <1>1 DEF Blame, First, Last, At, Streaming
  <1>2. ASSUME NEW f \in Frames, f.kind \notin {"infra", "cancel"}, Offer(f) \/ Send(f) \/ UNCHANGED out,
               UNCHANGED <<wire, wireClosed, pc, cur, drain, attempt, broken, cancelled>>
        PROVE  Blame'
    <2>1. \A i \in First'..Last' : i \in First..Last \/ At(i)' = f
      BY <1>2, Queued, Numbered
    <2>2. \A i \in First'..Last' : At(i)'.kind \in {"infra", "cancel"} => i \in First..Last /\ At(i)' = At(i)
      BY <1>2, <2>1, Queued
    <2> QED
      BY <1>2, <2>2 DEF Blame, Streaming
  <1>3. \A i \in First..Last : i \in Nat
    BY Numbered
  <1>4. ASSUME ClientGone PROVE Blame'
    BY <1>1, <1>4 DEF ClientGone
  <1>5. ASSUME WindowFails \/ WindowSucceeds, UNCHANGED <<mode, attempt, suppress, wire, wireClosed, broken, poolVars, cancelled, consVars>> PROVE Blame'
    BY <1>1, <1>5 DEF WindowFails, WindowSucceeds
  <1>6. ASSUME AttemptContextDone, AbortOrchestration, UNCHANGED <<mode, attempt, suppress, wire, wireClosed, broken, poolVars, cancelled, consVars>> PROVE Blame'
    BY <1>1, <1>6 DEF AbortOrchestration
  <1>7. ASSUME CallerCancels PROVE Blame'
    BY <1>7 DEF CallerCancels, Blame, First, Last, At, Streaming, TypeOK, WorkerTypeOK
  <1>8. ASSUME EmitPlanned, UNCHANGED <<mode, attempt, suppress, wire, wireClosed, broken, poolVars, cancelled, consVars>> PROVE Blame'
    <2>1. PICK f \in Frames : f.kind \notin {"infra", "cancel"} /\ (Offer(f) \/ Send(f) \/ UNCHANGED out)
      BY <1>8, Emissions DEF EmitPlanned, Kinds
    <2> QED
      BY <1>8, <1>2, <2>1
  <1>9. ASSUME UpstreamResponds, UNCHANGED <<mode, attempt, suppress, wire, wireClosed, broken, poolVars, cancelled, consVars>> PROVE Blame'
    <2>1. PICK f \in Frames : f.kind \notin {"infra", "cancel"} /\ (Offer(f) \/ Send(f) \/ UNCHANGED out)
      BY <1>9, Emissions DEF UpstreamResponds, Kinds
    <2> QED
      BY <1>9, <1>2, <2>1
  <1>10. ASSUME UpstreamDelta, UNCHANGED <<mode, attempt, suppress, wire, wireClosed, broken, poolVars, cancelled, consVars>> PROVE Blame'
    <2>1. PICK f \in Frames : f.kind \notin {"infra", "cancel"} /\ (Offer(f) \/ Send(f) \/ UNCHANGED out)
      BY <1>10, Emissions DEF UpstreamDelta, Kinds
    <2> QED
      BY <1>10, <1>2, <2>1
  <1>11. ASSUME NextWindow, UNCHANGED <<mode, attempt, suppress, wire, wireClosed, broken, poolVars, cancelled, consVars>> PROVE Blame'
    <2>1. PICK f \in Frames : f.kind \notin {"infra", "cancel"} /\ (Offer(f) \/ Send(f) \/ UNCHANGED out)
      BY <1>11, Emissions DEF NextWindow, Kinds
    <2> QED
      BY <1>11, <1>2, <2>1
  <1>12. ASSUME EmitOutcome, UNCHANGED <<mode, attempt, suppress, wire, wireClosed, broken, poolVars, cancelled, consVars>> PROVE Blame'
    <2>1. PICK f \in Frames : f.kind \notin {"infra", "cancel"} /\ (Offer(f) \/ Send(f) \/ UNCHANGED out)
      BY <1>12, Emissions DEF EmitOutcome, Kinds
    <2> QED
      BY <1>12, <1>2, <2>1
  <1>13. ASSUME EmitTerminal, UNCHANGED <<mode, attempt, suppress, wire, wireClosed, broken, poolVars, cancelled, consVars>> PROVE Blame'
    <2>1. PICK f \in Frames : f.kind \notin {"infra", "cancel"} /\ (Offer(f) \/ Send(f) \/ UNCHANGED out)
      BY <1>13, Emissions DEF EmitTerminal, Kinds
    <2> QED
      BY <1>13, <1>2, <2>1
  <1>14. ASSUME Bridge PROVE Blame'
    <2>1. UNCHANGED <<pc, drain, attempt, broken, cancelled, wireClosed>>
      BY <1>14 DEF Bridge
    <2> QED
      BY <1>14, <2>1, Bridged DEF Blame, Streaming
  <1>15. ASSUME BridgeEnds PROVE Blame'
    <2>1. UNCHANGED <<pc, drain, attempt, cancelled>> /\ broken \subseteq broken'
          
      BY <1>15 DEF BridgeEnds
    <2>2. wireClosed = FALSE /\ wireClosed' = TRUE /\ First' = First /\ Len(wire) <= Last /\ Len(wire) \in Nat /\ Last \in Nat
      BY <1>15, Cut, Numbered
    <2>3. \A i \in First'..Last' : i <= Len(wire) => i \in First..Last /\ At(i)' = At(i)
      BY <1>15, <2>2, Cut
    <2>4. \A i \in First'..Last' : i > Len(wire) => At(i)'.kind \in {"infra", "cancel"}
            /\ At(i)'.kind = "cancel" /\ AttemptContextDone
      BY <1>15, Cut
    <2>5. pc \in {"recv", "send", "done"}
      BY <2>2 DEF Blame
    <2>6. \A i \in First'..Last' : i <= Len(wire) \/ i > Len(wire)
      BY <2>2, Cut, Numbered
    <2> QED
      BY <2>1, <2>2, <2>3, <2>4, <2>5, <2>6 DEF AttemptContextDone, Blame, Streaming
  <1>16. ASSUME WorkerDies PROVE Blame'
    <2>1. UNCHANGED <<pc, drain, attempt, cancelled>> /\ broken \subseteq broken'
          /\ attempt \in broken'
      BY <1>16 DEF WorkerDies
    <2>2. wireClosed = FALSE /\ wireClosed' = TRUE /\ First' = First /\ Len(wire) <= Last /\ Len(wire) \in Nat /\ Last \in Nat
      BY <1>16, Cut, Numbered
    <2>3. \A i \in First'..Last' : i <= Len(wire) => i \in First..Last /\ At(i)' = At(i)
      BY <1>16, <2>2, Cut
    <2>4. \A i \in First'..Last' : i > Len(wire) => At(i)'.kind \in {"infra", "cancel"}
            
      BY <1>16, Cut
    <2>5. pc \in {"recv", "send", "done"}
      BY <2>2 DEF Blame
    <2>6. \A i \in First'..Last' : i <= Len(wire) \/ i > Len(wire)
      BY <2>2, Cut, Numbered
    <2> QED
      BY <2>1, <2>2, <2>3, <2>4, <2>5, <2>6 DEF AttemptContextDone, Blame, Streaming
  <1>17. ASSUME GetWorkerForRetry PROVE Blame'
    <2>1. pc # "done" /\ drain = "none" /\ drain' = drain /\ pc' \notin {"recv", "send"} /\ wireClosed' = wireClosed
          /\ pc \notin {"recv", "send", "done"}
      BY <1>17 DEF GetWorkerForRetry, Places, Exhausted
    <2> QED
      BY <1>17, <2>1 DEF GetWorkerForRetry, Blame, Streaming, TypeOK, WorkerTypeOK
  <1>18. ASSUME OpenStream PROVE Blame'
    <2>1. Last' = 0 /\ First' = 1 /\ pc' = "recv" /\ drain = "none" /\ drain' = drain
      BY <1>18 DEF OpenStream, StartWorker, First, Last, Places
    <2> QED
      BY <2>1 DEF Blame, Streaming
  <1>19. ASSUME SetupRefused PROVE Blame'
    <2>1. pc # "done" /\ drain = "none" /\ drain' = drain /\ pc' \notin {"recv", "send"} /\ wireClosed' = wireClosed
          /\ pc \notin {"recv", "send", "done"}
      BY <1>19 DEF SetupRefused, Places, Exhausted
    <2> QED
      BY <1>19, <2>1 DEF SetupRefused, Blame, Streaming, TypeOK, WorkerTypeOK
  <1>20. ASSUME SetupFails PROVE Blame'
    <2>1. pc # "done" /\ drain = "none" /\ drain' = drain /\ pc' \notin {"recv", "send"} /\ wireClosed' = wireClosed
          /\ pc \notin {"recv", "send", "done"}
      BY <1>20 DEF SetupFails, Places, Exhausted
    <2> QED
      BY <1>20, <2>1 DEF SetupFails, Blame, Streaming, TypeOK, WorkerTypeOK
  <1>21. ASSUME SetupCancelled PROVE Blame'
    <2>1. pc # "done" /\ drain = "none" /\ drain' = drain /\ pc' \notin {"recv", "send"} /\ wireClosed' = wireClosed
          /\ pc \notin {"recv", "send", "done"}
      BY <1>21 DEF SetupCancelled, Places, Exhausted
    <2> QED
      BY <1>21, <2>1 DEF SetupCancelled, Blame, Streaming, TypeOK, WorkerTypeOK
  <1>22. ASSUME StreamCancelled PROVE Blame'
    <2>1. pc \in {"recv", "send"} /\ pc' = "done" /\ UNCHANGED <<wire, wireClosed, out, attempt, broken>>
      BY <1>22 DEF StreamCancelled
    <2>2. First' = 1 /\ Last' = Last /\ First \in {0, 1} /\ Last \in Nat
      BY <2>1, Numbered, Unmoved DEF First
    <2>3. \A i \in 1..Last : At(i)' = At(i)
      BY <2>1 DEF At
    <2> QED
      BY <2>1, <2>2, <2>3 DEF Blame, Streaming
  <1>23. ASSUME Receive PROVE Blame'
    <2>1. pc = "recv" /\ UNCHANGED <<attempt, broken, cancelled, wireClosed>> /\ drain = "none"
      BY <1>23 DEF Receive, Places
    <2>2. 1 \in First..Last /\ First = 1 /\ Last \in Nat
      BY <1>23, ReceiveRow
    <2>3. \A i \in 1..Last' : i + 1 \in First..Last /\ At(i)' = At(i + 1)
      BY <1>23, ReceiveRow
    <2>4. CASE pc' = "send"
      <3>1. First' = 0 /\ \A i \in First'..Last' : i = 0 \/ i \in 1..Last'
        BY <2>4 DEF First
      <3>2. \A i : i = 0 => At(i)' = cur'
        BY DEF At
      <3>3. cur'.kind \notin {"infra", "cancel"} /\ drain' = drain
        BY <1>23, <2>4, ReceiveRow
      <3>4. \A i \in First'..Last' : At(i)'.kind \in {"infra", "cancel"} => i + 1 \in First..Last /\ At(i)' = At(i + 1)
        BY <2>3, <3>1, <3>2, <3>3
      <3> QED
        BY <2>1, <2>4, <3>3, <3>4 DEF Blame, Streaming
    <2>5. CASE pc' # "send"
      <3>1. First' = 1
        BY <2>5 DEF First
      <3> QED
        BY <1>23, <2>1, <2>2, <2>3, <2>5, <3>1, ReceiveRow DEF Blame, Streaming
    <2> QED
      BY <2>4, <2>5
  <1>24. ASSUME ReceiveFailure PROVE Blame'
    <2>1. /\ pc = "recv" /\ pc' = "restart" /\ wireClosed' /\ wire # <<>> /\ drain = "none" /\ drain' = drain
          /\ attempt' = attempt
      BY <1>24 DEF ReceiveFailure, Places
    <2>2. At(1) = Head(wire) /\ 1 \in First..Last
      <3>1. wire \in Seq(Frames) /\ Len(wire) \in Nat /\ Len(wire) > 0 /\ Len(out) \in Nat
        BY <2>1 DEF TypeOK, WorkerTypeOK
      <3> QED
        BY <2>1, <3>1 DEF At, First, Last
    <2>3. Head(wire).kind \in {"infra", "error"} \/ (Head(wire).kind = "cancel" /\ ~ cancelled)
      BY <1>24 DEF ReceiveFailure, TakenFor, Retryable
    <2>4. Head(wire).kind # "error" => attempt \in broken
      BY <2>1, <2>2, <2>3 DEF Blame, Streaming
    <2>5. attempt \in broken'
      BY <1>24, <2>4 DEF ReceiveFailure, Blamed
    <2> QED
      BY <2>1, <2>5 DEF Blame, Streaming
  <1>25. ASSUME ReceiveClosed PROVE Blame'
    <2>1. /\ pc = "recv" /\ pc' = "eof" /\ drain = "none" /\ First = 1 /\ Last = 0 /\ wireClosed
          /\ UNCHANGED <<attempt, broken, cancelled, drain, wireClosed>>
      BY <1>25 DEF ReceiveClosed, First, Last, Places
    <2>2. attempt \in broken \/ cancelled
      BY <2>1 DEF EndsWell, Streaming
    <2> QED
      BY <2>1, <2>2 DEF Blame, Streaming
  <1>26. ASSUME SilentEOF PROVE Blame'
    <2>1. pc # "done" /\ drain = "none" /\ drain' = drain /\ pc' \notin {"recv", "send"} /\ wireClosed' = wireClosed
          /\ pc \notin {"recv", "send", "done"}
      BY <1>26 DEF SilentEOF, Places, Exhausted
    <2> QED
      BY <1>26, <2>1 DEF SilentEOF, EOFMeansDeath, Blame, Streaming, TypeOK, WorkerTypeOK
  <1>27. ASSUME ReportWorker PROVE Blame'
    <2>1. pc # "done" /\ drain = "none" /\ drain' = drain /\ pc' \notin {"recv", "send"} /\ wireClosed' = wireClosed
          /\ pc \notin {"recv", "send", "done"}
      BY <1>27 DEF ReportWorker, Places, Exhausted
    <2> QED
      BY <1>27, <2>1 DEF ReportWorker, Blame, Streaming, TypeOK, WorkerTypeOK
  <1>28. ASSUME NextAttempt PROVE Blame'
    <2>1. pc # "done" /\ drain = "none" /\ drain' = drain /\ pc' \notin {"recv", "send"} /\ wireClosed' = wireClosed
          /\ pc \notin {"recv", "send", "done"}
      BY <1>28 DEF NextAttempt, Places, Exhausted
    <2> QED
      BY <1>28, <2>1 DEF NextAttempt, Exhausted, Blame, Streaming, TypeOK, WorkerTypeOK
  <1>29. ASSUME Drain PROVE Blame'
    <2>1. /\ pc = "done" /\ drain # "none" /\ UNCHANGED <<pc, drain, attempt>> /\ broken \subseteq broken'
          /\ First' = 1 /\ First = 1
      BY <1>29 DEF Drain, Blamed, First
    <2>2. Last \in Nat /\ Last' = Last - 1 /\ \A i \in 1..Last' : At(i)' = At(i + 1)
      BY <1>29, Shifted DEF Drain
    <2> QED
      BY <2>1, <2>2 DEF Blame, Streaming
  <1>30. ASSUME Forward PROVE Blame'
    <2>1. pc = "send" /\ pc' \in {"done", "recv"} /\ UNCHANGED <<attempt, broken, cancelled, wireClosed>>
      BY <1>30 DEF Forward
    <2> QED
      BY <1>30, <2>1, Taken DEF Blame, Streaming
  <1>31. ASSUME SendStreamError PROVE Blame'
    <2>1. pc # "done" /\ drain = "none" /\ drain' = drain /\ pc' \notin {"recv", "send"} /\ wireClosed' = wireClosed
          /\ pc \notin {"recv", "send", "done"}
      BY <1>31 DEF SendStreamError, Places, Exhausted
    <2> QED
      BY <1>31, <2>1 DEF SendStreamError, Blame, Streaming, TypeOK, WorkerTypeOK
  <1>32. CASE UNCHANGED vars
    BY <1>1, <1>32 DEF vars
  <1> QED
    BY <1>4, <1>5, <1>6, <1>7, <1>8, <1>9, <1>10, <1>11, <1>12, <1>13, <1>14, <1>15, <1>16, <1>17, <1>18, <1>19, <1>20, <1>21, <1>22, <1>23, <1>24, <1>25, <1>26, <1>27, <1>28, <1>29, <1>30, <1>31, <1>32
       DEF Next, WorkerStep, OrchestratorStep, WorkerAborts, Transport, PoolStep

\* A worker is reported at `restart', or by the drain goroutine for an infra frame.
LEMMA RestartJustifiedStep ==
  ASSUME TypeOK, Blame, RestartJustified, [Next]_vars
  PROVE  RestartJustified'
  <1> USE OrchestratorAssumption, CallStreamAssumption DEF workerVars, poolVars, consVars
  <1>1. ASSUME UNCHANGED <<restarted, broken>> PROVE RestartJustified'
    BY <1>1 DEF RestartJustified
  <1>2. ASSUME CallerCancels \/ ClientGone \/ Bridge \/ BridgeEnds \/ GetWorkerForRetry \/ OpenStream \/ SetupRefused \/ SetupCancelled \/ StreamCancelled \/ Receive \/ ReceiveClosed \/ SilentEOF \/ NextAttempt \/ Forward \/ SendStreamError PROVE RestartJustified'
    BY <1>1, <1>2 DEF CallerCancels, ClientGone, Bridge, WireRoom, BridgeEnds, AttemptContextDone, GetWorkerForRetry, OpenStream, StartWorker, SetupRefused, SetupCancelled, StreamCancelled, LeaveDrain, Receive, ReceiveClosed, SilentEOF, EOFMeansDeath, NextAttempt, StreamAttempts, Exhausted, Forward, Consume, ConsumeStream, ConsumeCall, ClearedOutcome, IsTerminal, Forwarded, SendStreamError
  <1>3. ASSUME EmitPlanned \/ UpstreamResponds \/ UpstreamDelta \/ WindowFails \/ NextWindow \/ WindowSucceeds \/ EmitOutcome \/ EmitTerminal, UNCHANGED <<mode, attempt, suppress, wire, wireClosed, broken, poolVars, cancelled, consVars>> PROVE RestartJustified'
    BY <1>1, <1>3 DEF EmitPlanned, NeedsPartials, Offer, Send, Room, UpstreamResponds, UpstreamDelta, WindowFails, NextWindow, ResetAtBoundary, WindowSucceeds, EmitOutcome, EmitTerminal
  <1>4. ASSUME AttemptContextDone, AbortOrchestration, UNCHANGED <<mode, attempt, suppress, wire, wireClosed, broken, poolVars, cancelled, consVars>> PROVE RestartJustified'
    BY <1>1, <1>4 DEF AbortOrchestration
  <1>5. ASSUME WorkerDies PROVE RestartJustified'
    BY <1>5 DEF WorkerDies, WireRoom, RestartJustified, TypeOK, WorkerTypeOK
  <1>6. ASSUME SetupFails PROVE RestartJustified'
    BY <1>6 DEF SetupFails, RestartJustified, TypeOK, WorkerTypeOK
  <1>7. ASSUME ReceiveFailure PROVE RestartJustified'
    BY <1>7 DEF ReceiveFailure, Blamed, RestartJustified
  <1>8. ASSUME ReportWorker PROVE RestartJustified'
    BY <1>8 DEF ReportWorker, RestartJustified, Blame
  <1>9. ASSUME Drain PROVE RestartJustified'
    <2>1. Drain /\ drain # "none" /\ wire # <<>> /\ First = 1
      BY <1>9 DEF Drain, First
    <2>2. At(1) = Head(wire) /\ 1 \in First..Last
      BY <2>1, Shifted DEF Drain
    <2>3. Head(wire).kind = "infra" => attempt \in broken
      BY <2>1, <2>2 DEF Blame
    <2>4. \/ UNCHANGED <<restarted, broken>>
          \/ /\ Head(wire).kind \in {"infra", "error"}
             /\ restarted' = restarted \cup {attempt} /\ broken' = Blamed(Head(wire).kind)
      BY <2>1 DEF Drain, TakenFor
    <2> QED
      BY <2>3, <2>4 DEF Blamed, RestartJustified
  <1>10. CASE UNCHANGED vars
    BY <1>1, <1>10 DEF vars
  <1> QED
    BY <1>2, <1>3, <1>4, <1>5, <1>6, <1>7, <1>8, <1>9, <1>10
       DEF Next, WorkerStep, OrchestratorStep, WorkerAborts, Transport, PoolStep

\* Nothing but a cut takes the terminal frame off the end of a stream.
LEMMA EndsWellStep ==
  ASSUME TypeOK, Places, EndsWell, [Next]_vars
  PROVE  EndsWell'
  <1> USE OrchestratorAssumption, CallStreamAssumption DEF workerVars, poolVars, consVars
  <1>1. ASSUME UNCHANGED <<pc, cur, wire, wireClosed, out, attempt, broken, cancelled, outClosed>> PROVE EndsWell'
    BY <1>1 DEF EndsWell, First, Last, At, Streaming, IsTerminal
  <1>2. ASSUME ClientGone PROVE EndsWell'
    BY <1>1, <1>2 DEF ClientGone
  <1>3. ASSUME WindowFails \/ WindowSucceeds, UNCHANGED <<mode, attempt, suppress, wire, wireClosed, broken, poolVars, cancelled, consVars>> PROVE EndsWell'
    BY <1>1, <1>3 DEF WindowFails, WindowSucceeds
  <1>4. ASSUME CallerCancels PROVE EndsWell'
    BY <1>4 DEF CallerCancels, EndsWell, First, Last, At, Streaming, IsTerminal, TypeOK, WorkerTypeOK
  <1>5. ASSUME EmitPlanned, UNCHANGED <<mode, attempt, suppress, wire, wireClosed, broken, poolVars, cancelled, consVars>> PROVE EndsWell'
    <2>1. wpc # "over" /\ UNCHANGED <<outClosed, wireClosed, pc, cancelled, attempt, broken>>
      BY <1>5 DEF EmitPlanned
    <2> QED
      BY <2>1 DEF EndsWell, Streaming, Places
  <1>6. ASSUME UpstreamResponds, UNCHANGED <<mode, attempt, suppress, wire, wireClosed, broken, poolVars, cancelled, consVars>> PROVE EndsWell'
    <2>1. wpc # "over" /\ UNCHANGED <<outClosed, wireClosed, pc, cancelled, attempt, broken>>
      BY <1>6 DEF UpstreamResponds
    <2> QED
      BY <2>1 DEF EndsWell, Streaming, Places
  <1>7. ASSUME UpstreamDelta, UNCHANGED <<mode, attempt, suppress, wire, wireClosed, broken, poolVars, cancelled, consVars>> PROVE EndsWell'
    <2>1. wpc # "over" /\ UNCHANGED <<outClosed, wireClosed, pc, cancelled, attempt, broken>>
      BY <1>7 DEF UpstreamDelta
    <2> QED
      BY <2>1 DEF EndsWell, Streaming, Places
  <1>8. ASSUME NextWindow, UNCHANGED <<mode, attempt, suppress, wire, wireClosed, broken, poolVars, cancelled, consVars>> PROVE EndsWell'
    <2>1. wpc # "over" /\ UNCHANGED <<outClosed, wireClosed, pc, cancelled, attempt, broken>>
      BY <1>8 DEF NextWindow
    <2> QED
      BY <2>1 DEF EndsWell, Streaming, Places
  <1>9. ASSUME EmitOutcome, UNCHANGED <<mode, attempt, suppress, wire, wireClosed, broken, poolVars, cancelled, consVars>> PROVE EndsWell'
    <2>1. wpc # "over" /\ UNCHANGED <<outClosed, wireClosed, pc, cancelled, attempt, broken>>
      BY <1>9 DEF EmitOutcome
    <2> QED
      BY <2>1 DEF EndsWell, Streaming, Places
  <1>10. ASSUME EmitTerminal, UNCHANGED <<mode, attempt, suppress, wire, wireClosed, broken, poolVars, cancelled, consVars>> PROVE EndsWell'
    <2>1. wpc # "over" /\ UNCHANGED <<wire, cur, wireClosed, pc, cancelled, attempt, broken>>
      BY <1>10 DEF EmitTerminal
    <2>2. PICK f \in Frames : IsTerminal(f) /\ Send(f)
      BY <1>10, Emissions DEF EmitTerminal, Kinds, IsTerminal
    <2>3. ~ wireClosed => /\ First' = First /\ Last' = Last + 1 /\ First \in {0, 1} /\ Last \in Nat
                          /\ \A i \in Nat : i = Last + 1 => At(i)' = f
      BY <2>1, <2>2, Queued, Numbered
    <2>4. ~ wireClosed => Last' >= First' /\ \A i \in First'..Last' : i = Last' => IsTerminal(At(i)')
      BY <2>2, <2>3
    <2>5. outClosed' = TRUE
      BY <1>10 DEF EmitTerminal
    <2>6. Streaming /\ ~ cancelled /\ attempt \notin broken => ~ wireClosed
      BY <2>1 DEF EndsWell, Places
    <2>7. ~ wireClosed => \A i \in First'..Last' : i = Last' => IsTerminal(At(i))'
      BY <2>4 DEF IsTerminal
    <2> QED
      BY <2>1, <2>4, <2>5, <2>6, <2>7 DEF EndsWell, Streaming
  <1>11. ASSUME AttemptContextDone, AbortOrchestration, UNCHANGED <<mode, attempt, suppress, wire, wireClosed, broken, poolVars, cancelled, consVars>> PROVE EndsWell'
    <2>1. UNCHANGED <<pc, cancelled>>
      BY <1>11 DEF AbortOrchestration
    <2> QED
      BY <1>11, <2>1 DEF AttemptContextDone, EndsWell, Streaming
  <1>12. ASSUME Bridge PROVE EndsWell'
    <2>1. UNCHANGED <<pc, attempt, broken, cancelled, wireClosed, outClosed>>
      BY <1>12 DEF Bridge
    <2> QED
      BY <1>12, <2>1, Bridged DEF EndsWell, Streaming, IsTerminal
  <1>13. ASSUME BridgeEnds PROVE EndsWell'
    <2>1. UNCHANGED <<pc, cur, attempt, broken, cancelled, out, outClosed>> /\ ~ wireClosed
      BY <1>13 DEF BridgeEnds
    <2>2. (out = <<>> /\ outClosed /\ wire' = wire) \/ AttemptContextDone
      BY <1>13 DEF BridgeEnds
    <2>3. CASE AttemptContextDone
      BY <2>1, <2>3 DEF AttemptContextDone, EndsWell, Streaming
    <2>4. CASE out = <<>> /\ outClosed /\ wire' = wire
      <3>1. Last' = Last /\ First' = First /\ Len(wire) \in Nat
        BY <2>1, <2>4, Numbered DEF Last, First
      <3>2. \A i \in First..Last : At(i)' = At(i)
        BY <2>1, <2>4 DEF At
      <3> QED
        BY <2>1, <2>4, <3>1, <3>2 DEF EndsWell, Streaming, IsTerminal
    <2> QED
      BY <2>2, <2>3, <2>4
  <1>14. ASSUME WorkerDies PROVE EndsWell'
    <2>1. attempt' \in broken'
      BY <1>14 DEF WorkerDies
    <2> QED
      BY <2>1 DEF EndsWell
  <1>15. ASSUME GetWorkerForRetry PROVE EndsWell'
    BY <1>15 DEF GetWorkerForRetry, EndsWell, Streaming
  <1>16. ASSUME OpenStream PROVE EndsWell'
    BY <1>16 DEF OpenStream, StartWorker, EndsWell
  <1>17. ASSUME SetupRefused PROVE EndsWell'
    BY <1>17 DEF SetupRefused, EndsWell, Streaming
  <1>18. ASSUME SetupFails PROVE EndsWell'
    BY <1>18 DEF SetupFails, EndsWell, Streaming
  <1>19. ASSUME SetupCancelled PROVE EndsWell'
    BY <1>19 DEF SetupCancelled, EndsWell, Streaming
  <1>20. ASSUME StreamCancelled PROVE EndsWell'
    BY <1>20 DEF StreamCancelled, EndsWell, Streaming
  <1>21. ASSUME Receive PROVE EndsWell'
    <2>1. pc = "recv" /\ UNCHANGED <<attempt, broken, cancelled, wireClosed, outClosed>>
      BY <1>21 DEF Receive
    <2>2. First = 1 /\ Last \in Nat \ {0} /\ Last' = Last - 1 /\ \A i \in 1..Last' : At(i)' = At(i + 1)
      BY <1>21, ReceiveRow
    <2> SUFFICES ASSUME Streaming', ~ cancelled, attempt \notin broken, outClosed
                 PROVE  Last' >= First' /\ \A i \in First'..Last' : i = Last' => IsTerminal(At(i))'
      BY <2>1 DEF EndsWell, Streaming
    <2>3. \A i \in 1..Last : i = Last => IsTerminal(At(i))
      BY <2>1, <2>2 DEF EndsWell, Streaming
    <2>4. \A i \in 1..Last' : i = Last' => IsTerminal(At(i))'
      BY <2>2, <2>3 DEF IsTerminal
    <2>5. CASE pc' = "send"
      <3>1. First' = 0 /\ \A i : i = 0 => At(i)' = cur'
        BY <2>5 DEF First, At
      <3>2. cur'.kind = At(1).kind
        BY <1>21, <2>5, ReceiveRow
      <3>3. \A i : i = 0 /\ Last' = 0 => IsTerminal(At(i))'
        BY <2>2, <2>3, <3>1, <3>2 DEF IsTerminal
      <3> QED
        BY <2>2, <2>4, <3>1, <3>3
    <2>6. CASE pc' = "recv"
      <3>1. First' = 1 /\ At(1).kind = "heartbeat"
        BY <1>21, <2>6, ReceiveRow DEF First
      <3>2. Last # 1
        BY <2>3, <3>1 DEF IsTerminal
      <3> QED
        BY <2>2, <2>4, <3>1, <3>2
    <2> QED
      BY <2>5, <2>6 DEF Streaming
  <1>22. ASSUME ReceiveFailure PROVE EndsWell'
    BY <1>22 DEF ReceiveFailure, EndsWell, Streaming
  <1>23. ASSUME ReceiveClosed PROVE EndsWell'
    BY <1>23 DEF ReceiveClosed, EndsWell, Streaming
  <1>24. ASSUME SilentEOF PROVE EndsWell'
    BY <1>24 DEF SilentEOF, EndsWell, Streaming
  <1>25. ASSUME ReportWorker PROVE EndsWell'
    BY <1>25 DEF ReportWorker, EndsWell, Streaming
  <1>26. ASSUME NextAttempt PROVE EndsWell'
    BY <1>26 DEF NextAttempt, Exhausted, EndsWell, Streaming
  <1>27. ASSUME Drain PROVE EndsWell'
    <2>1. pc' = "done"
      BY <1>27 DEF Drain
    <2> QED
      BY <2>1 DEF EndsWell, Streaming
  <1>28. ASSUME Forward PROVE EndsWell'
    <2>1. /\ pc = "send" /\ UNCHANGED <<attempt, broken, cancelled, wireClosed, outClosed>>
          /\ pc' = IF IsTerminal(cur) THEN "done" ELSE "recv"
      BY <1>28 DEF Forward
    <2>2. Last \in Nat
      BY Numbered
    <2>3. ASSUME Streaming, ~ cancelled, attempt \notin broken, outClosed, ~ IsTerminal(cur) PROVE Last # 0
      BY <1>28, <2>2, <2>3, Taken DEF EndsWell
    <2> QED
      BY <1>28, <2>1, <2>2, <2>3, Taken DEF EndsWell, Streaming, IsTerminal
  <1>29. ASSUME SendStreamError PROVE EndsWell'
    BY <1>29 DEF SendStreamError, EndsWell, Streaming
  <1>30. CASE UNCHANGED vars
    BY <1>1, <1>30 DEF vars
  <1> QED
    BY <1>2, <1>3, <1>4, <1>5, <1>6, <1>7, <1>8, <1>9, <1>10, <1>11, <1>12, <1>13, <1>14, <1>15, <1>16, <1>17, <1>18, <1>19, <1>20, <1>21, <1>22, <1>23, <1>24, <1>25, <1>26, <1>27, <1>28, <1>29, <1>30
       DEF Next, WorkerStep, OrchestratorStep, WorkerAborts, Transport, PoolStep

\* The planned metadata is the one frame sent before an upstream answers.
LEMMA ProgressedStep ==
  ASSUME TypeOK, Places, Progressed, [Next]_vars
  PROVE  Progressed'
  <1> USE OrchestratorAssumption, CallStreamAssumption DEF workerVars, poolVars, consVars
  <1>1. ASSUME UNCHANGED <<connected, sawStreamFrame, wpc, progress, pc, cur, wire, wireClosed, out, outClosed, gotFirstByte>> PROVE Progressed'
    BY <1>1 DEF Progressed, First, Last, At, Streaming
  <1>2. ASSUME NEW f \in Frames, f.kind = "planned" \/ progress, Offer(f) \/ Send(f) \/ UNCHANGED out,
               connected' \/ sawStreamFrame' \/ wpc' \in {"outcome", "final"} => progress',
               UNCHANGED <<wire, wireClosed, pc, cur, gotFirstByte, outClosed, progress>>
        PROVE  Progressed'
    <2>1. \A i \in First'..Last' : (i \in First..Last /\ At(i)' = At(i)) \/ At(i)' = f
      BY <1>2, Queued, Numbered
    <2> QED
      BY <1>2, <2>1 DEF Progressed, Streaming
  <1>3. ASSUME UNCHANGED <<connected, sawStreamFrame, wpc, progress, outClosed>>, ~ Streaming' PROVE Progressed'
    BY <1>3 DEF Progressed
  <1>4. ASSUME CallerCancels \/ ClientGone PROVE Progressed'
    BY <1>1, <1>4 DEF CallerCancels, ClientGone
  <1>5. ASSUME EmitPlanned, UNCHANGED <<mode, attempt, suppress, wire, wireClosed, broken, poolVars, cancelled, consVars>> PROVE Progressed'
    <2>1. PICK f \in Frames : f.kind = "planned" /\ (Offer(f) \/ Send(f))
      BY <1>5, Emissions DEF EmitPlanned, Kinds
    <2> QED
      BY <1>5, <1>2, <2>1 DEF EmitPlanned, Progressed
  <1>6. ASSUME UpstreamResponds, UNCHANGED <<mode, attempt, suppress, wire, wireClosed, broken, poolVars, cancelled, consVars>> PROVE Progressed'
    <2>1. progress' = TRUE
      BY <1>6 DEF UpstreamResponds, Progressed, TypeOK, WorkerTypeOK
    <2> QED
      BY <2>1 DEF Progressed
  <1>7. ASSUME UpstreamDelta, UNCHANGED <<mode, attempt, suppress, wire, wireClosed, broken, poolVars, cancelled, consVars>> PROVE Progressed'
    <2>1. progress' = TRUE
      BY <1>7 DEF UpstreamDelta, Progressed, TypeOK, WorkerTypeOK
    <2> QED
      BY <2>1 DEF Progressed
  <1>8. ASSUME WindowFails, UNCHANGED <<mode, attempt, suppress, wire, wireClosed, broken, poolVars, cancelled, consVars>> PROVE Progressed'
    <2>1. /\ wpc' \notin {"outcome", "final"} /\ UNCHANGED <<connected, sawStreamFrame, progress, wire, wireClosed, out, pc, cur, gotFirstByte, outClosed>>
      BY <1>8 DEF WindowFails
    <2>2. First' = First
      BY <2>1 DEF First
    <2> QED
      BY <2>1, <2>2, Unmoved DEF Progressed, Streaming
  <1>9. ASSUME NextWindow, UNCHANGED <<mode, attempt, suppress, wire, wireClosed, broken, poolVars, cancelled, consVars>> PROVE Progressed'
    <2>1. CASE ResetAtBoundary
      <3>1. progress' = TRUE
        BY <1>9, <2>1 DEF NextWindow, ResetAtBoundary, Progressed, TypeOK, WorkerTypeOK
      <3> QED
        BY <3>1 DEF Progressed
    <2>2. CASE ~ ResetAtBoundary
      <3>1. Frame("planned", 0, FALSE) \in Frames /\ Frame("planned", 0, FALSE).kind = "planned"
        BY Emissions DEF Kinds
      <3> QED
        BY <1>9, <1>2, <2>2, <3>1 DEF NextWindow
    <2> QED
      BY <2>1, <2>2
  <1>10. ASSUME WindowSucceeds, UNCHANGED <<mode, attempt, suppress, wire, wireClosed, broken, poolVars, cancelled, consVars>> PROVE Progressed'
    <2>1. /\ connected /\ UNCHANGED <<connected, sawStreamFrame, progress, wire, wireClosed, out, pc, cur, gotFirstByte, outClosed>>
      BY <1>10 DEF WindowSucceeds
    <2>2. First' = First
      BY <2>1 DEF First
    <2> QED
      BY <2>1, <2>2, Unmoved DEF Progressed, Streaming
  <1>11. ASSUME EmitOutcome, UNCHANGED <<mode, attempt, suppress, wire, wireClosed, broken, poolVars, cancelled, consVars>> PROVE Progressed'
    <2>1. progress' = TRUE
      BY <1>11 DEF EmitOutcome, Progressed, TypeOK, WorkerTypeOK
    <2> QED
      BY <2>1 DEF Progressed
  <1>12. ASSUME EmitTerminal, UNCHANGED <<mode, attempt, suppress, wire, wireClosed, broken, poolVars, cancelled, consVars>> PROVE Progressed'
    <2>1. outClosed' = TRUE /\ wpc' = "over" /\ UNCHANGED <<connected, sawStreamFrame, progress>>
      BY <1>12 DEF EmitTerminal
    <2> QED
      BY <2>1 DEF Progressed
  <1>13. ASSUME AttemptContextDone, AbortOrchestration, UNCHANGED <<mode, attempt, suppress, wire, wireClosed, broken, poolVars, cancelled, consVars>> PROVE Progressed'
    <2>1. outClosed' = TRUE /\ wpc' = "over" /\ UNCHANGED <<connected, sawStreamFrame, progress>>
      BY <1>13 DEF AbortOrchestration
    <2> QED
      BY <2>1 DEF Progressed
  <1>14. ASSUME Bridge PROVE Progressed'
    <2>1. UNCHANGED <<connected, sawStreamFrame, wpc, progress, pc, outClosed, gotFirstByte>>
      BY <1>14 DEF Bridge
    <2> QED
      BY <1>14, <2>1, Bridged DEF Progressed, Streaming
  <1>15. ASSUME BridgeEnds PROVE Progressed'
    <2>1. UNCHANGED <<connected, sawStreamFrame, wpc, progress, pc, outClosed, gotFirstByte>>
      BY <1>15 DEF BridgeEnds
    <2>2. First' = First /\ Len(wire) <= Last /\ Len(wire) \in Nat /\ Last \in Nat /\ Last' \in {Len(wire), Len(wire) + 1} /\ First \in {0, 1}
      BY <1>15, Cut, Numbered
    <2>3. \A i \in First'..Last' : (i \in First..Last /\ At(i)' = At(i)) \/ At(i)'.kind = "cancel"
      BY <1>15, <2>2, Cut
    <2> QED
      BY <2>1, <2>2, <2>3 DEF Progressed, Streaming
  <1>16. ASSUME WorkerDies PROVE Progressed'
    <2>1. outClosed' = TRUE /\ wpc' = "over" /\ UNCHANGED <<connected, sawStreamFrame, progress>>
      BY <1>16 DEF WorkerDies
    <2> QED
      BY <2>1 DEF Progressed
  <1>17. ASSUME GetWorkerForRetry PROVE Progressed'
    BY <1>17, <1>3 DEF GetWorkerForRetry, Streaming
  <1>18. ASSUME OpenStream PROVE Progressed'
    <2>1. Last' = 0 /\ First' = 1
      BY <1>18 DEF OpenStream, StartWorker, First, Last
    <2> QED
      BY <1>18, <2>1 DEF OpenStream, StartWorker, Progressed
  <1>19. ASSUME SetupRefused PROVE Progressed'
    BY <1>19, <1>3 DEF SetupRefused, Streaming
  <1>20. ASSUME SetupFails PROVE Progressed'
    BY <1>20, <1>3 DEF SetupFails, Streaming
  <1>21. ASSUME SetupCancelled PROVE Progressed'
    BY <1>21, <1>3 DEF SetupCancelled, Streaming
  <1>22. ASSUME StreamCancelled PROVE Progressed'
    BY <1>22, <1>3 DEF StreamCancelled, Streaming
  <1>23. ASSUME Receive PROVE Progressed'
    <2>1. pc = "recv" /\ UNCHANGED <<connected, sawStreamFrame, wpc, progress, outClosed>>
      BY <1>23 DEF Receive
    <2>2. First = 1 /\ Last \in Nat \ {0} /\ Last' = Last - 1 /\ \A i \in 1..Last' : At(i)' = At(i + 1)
      BY <1>23, ReceiveRow
    <2>3. \A i \in 1..Last' : At(i)'.kind \notin {"planned", "cancel"} => progress \/ outClosed
      BY <2>1, <2>2 DEF Progressed, Streaming
    <2>4. At(1).kind \notin {"planned", "cancel"} => progress \/ outClosed
      BY <2>1, <2>2 DEF Progressed, Streaming
    <2>5. Streaming' /\ gotFirstByte' => progress \/ outClosed
      BY <1>23, <2>1, <2>4, ReceiveRow DEF Progressed, Streaming
    <2>6. CASE pc' = "send"
      <3>1. First' = 0 /\ \A i : i = 0 => At(i)' = cur'
        BY <2>6 DEF First, At
      <3>2. cur'.kind = At(1).kind
        BY <1>23, <2>6, ReceiveRow
      <3>3. \A i \in First'..Last' : i = 0 \/ i \in 1..Last'
        BY <2>2, <3>1
      <3> QED
        BY <2>1, <2>3, <2>4, <2>5, <3>1, <3>2, <3>3 DEF Progressed
    <2>7. CASE pc' # "send"
      <3>1. First' = 1
        BY <2>7 DEF First
      <3> QED
        BY <2>1, <2>3, <2>5, <3>1 DEF Progressed
    <2> QED
      BY <2>6, <2>7
  <1>24. ASSUME ReceiveFailure PROVE Progressed'
    BY <1>24, <1>3 DEF ReceiveFailure, Streaming
  <1>25. ASSUME ReceiveClosed PROVE Progressed'
    BY <1>25, <1>3 DEF ReceiveClosed, Streaming
  <1>26. ASSUME SilentEOF PROVE Progressed'
    BY <1>26, <1>3 DEF SilentEOF, Streaming
  <1>27. ASSUME ReportWorker PROVE Progressed'
    BY <1>27, <1>3 DEF ReportWorker, Streaming
  <1>28. ASSUME NextAttempt PROVE Progressed'
    BY <1>28, <1>3 DEF NextAttempt, Exhausted, Streaming
  <1>29. ASSUME Drain PROVE Progressed'
    BY <1>29, <1>3 DEF Drain, Streaming
  <1>30. ASSUME Forward PROVE Progressed'
    <2>1. UNCHANGED <<connected, sawStreamFrame, wpc, progress, outClosed, gotFirstByte>> /\ pc = "send"
      BY <1>30 DEF Forward
    <2> QED
      BY <1>30, <2>1, Taken DEF Progressed, Streaming
  <1>31. ASSUME SendStreamError PROVE Progressed'
    BY <1>31, <1>3 DEF SendStreamError, Streaming
  <1>32. CASE UNCHANGED vars
    BY <1>1, <1>32 DEF vars
  <1> QED
    BY <1>4, <1>5, <1>6, <1>7, <1>8, <1>9, <1>10, <1>11, <1>12, <1>13, <1>14, <1>15, <1>16, <1>17, <1>18, <1>19, <1>20, <1>21, <1>22, <1>23, <1>24, <1>25, <1>26, <1>27, <1>28, <1>29, <1>30, <1>31, <1>32
       DEF Next, WorkerStep, OrchestratorStep, WorkerAborts, Transport, PoolStep

\* Without retries, no later attempt is begun.
LEMMA SuppressedStep ==
  ASSUME TypeOK, Suppressed, [Next]_vars
  PROVE  Suppressed'
  <1> USE OrchestratorAssumption, CallStreamAssumption DEF workerVars, poolVars, consVars
  <1>1. ASSUME UNCHANGED <<suppress, attempt, pc, needsReset, injectedReset, sentAnyResults>> PROVE Suppressed'
    BY <1>1 DEF Suppressed
  <1>2. ASSUME CallerCancels \/ ClientGone \/ Bridge \/ BridgeEnds \/ WorkerDies \/ Drain PROVE Suppressed'
    BY <1>1, <1>2 DEF CallerCancels, ClientGone, Bridge, WireRoom, BridgeEnds, AttemptContextDone, WorkerDies, Drain
  <1>3. ASSUME EmitPlanned \/ UpstreamResponds \/ UpstreamDelta \/ WindowFails \/ NextWindow \/ WindowSucceeds \/ EmitOutcome \/ EmitTerminal, UNCHANGED <<mode, attempt, suppress, wire, wireClosed, broken, poolVars, cancelled, consVars>> PROVE Suppressed'
    BY <1>1, <1>3 DEF EmitPlanned, NeedsPartials, Offer, Send, Room, UpstreamResponds, UpstreamDelta, WindowFails, NextWindow, ResetAtBoundary, WindowSucceeds, EmitOutcome, EmitTerminal
  <1>4. ASSUME AttemptContextDone, AbortOrchestration, UNCHANGED <<mode, attempt, suppress, wire, wireClosed, broken, poolVars, cancelled, consVars>> PROVE Suppressed'
    BY <1>1, <1>4 DEF AbortOrchestration
  <1>5. ASSUME GetWorkerForRetry PROVE Suppressed'
    BY <1>5 DEF GetWorkerForRetry, Suppressed, TypeOK, WorkerTypeOK
  <1>6. ASSUME OpenStream PROVE Suppressed'
    BY <1>6 DEF OpenStream, StartWorker, Suppressed, TypeOK, WorkerTypeOK
  <1>7. ASSUME SetupRefused PROVE Suppressed'
    BY <1>7 DEF SetupRefused, Suppressed, TypeOK, WorkerTypeOK
  <1>8. ASSUME SetupFails PROVE Suppressed'
    BY <1>8 DEF SetupFails, Suppressed, TypeOK, WorkerTypeOK
  <1>9. ASSUME SetupCancelled PROVE Suppressed'
    BY <1>9 DEF SetupCancelled, Suppressed, TypeOK, WorkerTypeOK
  <1>10. ASSUME StreamCancelled PROVE Suppressed'
    BY <1>10 DEF StreamCancelled, LeaveDrain, Suppressed, TypeOK, WorkerTypeOK
  <1>11. ASSUME Receive PROVE Suppressed'
    BY <1>11 DEF Receive, LeaveDrain, Retryable, IsProgress, Stamped, InjectReset, Suppressed, TypeOK, WorkerTypeOK
  <1>12. ASSUME ReceiveFailure PROVE Suppressed'
    BY <1>12 DEF ReceiveFailure, Suppressed
  <1>13. ASSUME ReceiveClosed PROVE Suppressed'
    BY <1>13 DEF ReceiveClosed, Suppressed, TypeOK, WorkerTypeOK
  <1>14. ASSUME SilentEOF PROVE Suppressed'
    BY <1>14 DEF SilentEOF, EOFMeansDeath, Suppressed, TypeOK, WorkerTypeOK
  <1>15. ASSUME ReportWorker PROVE Suppressed'
    BY <1>15 DEF ReportWorker, Suppressed, TypeOK, WorkerTypeOK
  <1>16. ASSUME NextAttempt PROVE Suppressed'
    BY <1>16 DEF NextAttempt, StreamAttempts, Exhausted, Suppressed, TypeOK, WorkerTypeOK
  <1>17. ASSUME Forward PROVE Suppressed'
    BY <1>17 DEF Forward, Consume, ConsumeStream, ConsumeCall, ClearedOutcome, IsTerminal, Forwarded, IsProgress, LeaveDrain, Suppressed, TypeOK, WorkerTypeOK
  <1>18. ASSUME SendStreamError PROVE Suppressed'
    BY <1>18 DEF SendStreamError, Consume, ConsumeStream, ConsumeCall, ClearedOutcome, IsTerminal, Suppressed, TypeOK, WorkerTypeOK
  <1>19. CASE UNCHANGED vars
    BY <1>1, <1>19 DEF vars
  <1> QED
    BY <1>2, <1>3, <1>4, <1>5, <1>6, <1>7, <1>8, <1>9, <1>10, <1>11, <1>12, <1>13, <1>14, <1>15, <1>16, <1>17, <1>18, <1>19
       DEF Next, WorkerStep, OrchestratorStep, WorkerAborts, Transport, PoolStep

\* In a call, planned metadata waits for room and so goes first.
LEMMA PairedStep ==
  ASSUME TypeOK, Places, Sources, Paired, [Next]_vars
  PROVE  Paired'
  <1> USE OrchestratorAssumption, CallStreamAssumption DEF workerVars, poolVars, consVars
  <1>1. ASSUME UNCHANGED <<mode, pc, cur, wire, wireClosed, out, wpc, planned, attempt, outcome, final>> PROVE Paired'
    BY <1>1 DEF Paired, First, Last, At, Streaming, PlannedIn
  <1>2. ASSUME NEW f \in Frames, f.kind \in {"outcome", "final"} => wpc \notin {"planned", "over"},
               Offer(f) \/ Send(f) \/ UNCHANGED out,
               mode = "call" /\ wpc' \notin {"planned", "over"} =>
                   wpc \notin {"planned", "over"} \/ (Send(f) /\ f.kind = "planned"),
               UNCHANGED <<mode, wire, wireClosed, pc, cur, attempt, planned, outcome, final>>
        PROVE  Paired'
    <2>1. First' = First /\ \A i \in First..Last : At(i)' = At(i)
      BY <1>2, Queued
    <2>2. First \in {0, 1} /\ Last \in Nat /\ (Last' = Last \/ Last' = Last + 1)
      BY <1>2, Queued, Numbered
    <2>3. \A i \in First'..Last' : i \in First..Last \/ (i = Last + 1 /\ At(i)' = f /\ ~ wireClosed)
      BY <1>2, <2>2, Queued
    <2>4. Send(f) /\ ~ wireClosed => \E k \in First'..Last' : At(k)' = f
      <3>1. ASSUME Send(f), ~ wireClosed PROVE Last' = Last + 1 /\ \A i \in Nat : i = Last + 1 => At(i)' = f
        BY <1>2, <3>1, Queued
      <3> QED
        BY <2>1, <2>2, <3>1
    <2>5. PlannedIn' <=> PlannedIn
      BY <1>2 DEF PlannedIn
    <2> SUFFICES ASSUME mode = "call" PROVE Paired'
      BY <1>2 DEF Paired
    <2>6. ASSUME Streaming', NEW i \in First'..Last', At(i)'.kind \in {"outcome", "final"}
          PROVE  PlannedIn' \/ \E k \in First'..Last' : k < i /\ At(k)'.kind = "planned"
      <3>1. CASE i \in First..Last
        BY <1>2, <2>1, <2>2, <2>5, <2>6, <3>1 DEF Paired, Streaming
      <3>2. CASE i = Last + 1 /\ At(i)' = f /\ ~ wireClosed
        <4>1. PlannedIn \/ \E k \in First..Last : At(k).kind = "planned"
          BY <1>2, <2>6, <3>2 DEF Paired, Streaming
        <4> QED
          BY <2>1, <2>2, <2>5, <3>2, <4>1
      <3> QED
        BY <2>3, <2>6, <3>1, <3>2
    <2>7. ASSUME Streaming', ~ wireClosed, wpc' \notin {"planned", "over"}
          PROVE  PlannedIn' \/ \E k \in First'..Last' : At(k)'.kind = "planned"
      <3>1. CASE Send(f) /\ f.kind = "planned"
        BY <2>4, <2>7, <3>1
      <3>2. CASE wpc \notin {"planned", "over"}
        <4>1. PlannedIn \/ \E k \in First..Last : At(k).kind = "planned"
          BY <1>2, <2>7, <3>2 DEF Paired, Streaming
        <4> QED
          BY <2>1, <2>2, <2>5, <4>1
      <3> QED
        BY <1>2, <2>7, <3>1, <3>2
    <2> QED
      BY <1>2, <2>6, <2>7 DEF Paired
  <1>3. ASSUME UNCHANGED <<mode, planned, outcome, final>>, ~ Streaming' PROVE Paired'
    BY <1>3 DEF Paired, Streaming
  <1>4. ASSUME CallerCancels \/ ClientGone PROVE Paired'
    BY <1>1, <1>4 DEF CallerCancels, ClientGone
  <1>5. ASSUME EmitPlanned, UNCHANGED <<mode, attempt, suppress, wire, wireClosed, broken, poolVars, cancelled, consVars>> PROVE Paired'
    <2>1. PICK f \in Frames : f = Frame("planned", 0, FALSE) /\ f.kind = "planned"
      BY Emissions DEF Kinds
    <2>2. (Offer(f) \/ Send(f)) /\ (mode = "call" => Send(f))
      BY <1>5, <2>1 DEF EmitPlanned, NeedsPartials
    <2> QED
      BY <1>5, <1>2, <2>1, <2>2 DEF EmitPlanned
  <1>6. ASSUME UpstreamResponds, UNCHANGED <<mode, attempt, suppress, wire, wireClosed, broken, poolVars, cancelled, consVars>> PROVE Paired'
    <2>1. PICK f \in Frames : /\ f.kind \in {"outcome", "final"} => wpc \notin {"planned", "over"}
                              /\ Offer(f) \/ Send(f) \/ UNCHANGED out
      BY <1>6, Emissions DEF UpstreamResponds, Kinds
    <2> QED
      BY <1>6, <1>2, <2>1 DEF UpstreamResponds
  <1>7. ASSUME UpstreamDelta, UNCHANGED <<mode, attempt, suppress, wire, wireClosed, broken, poolVars, cancelled, consVars>> PROVE Paired'
    <2>1. mode' # "call"
      BY <1>7 DEF UpstreamDelta, NeedsPartials
    <2> QED
      BY <2>1 DEF Paired
  <1>8. ASSUME WindowFails, UNCHANGED <<mode, attempt, suppress, wire, wireClosed, broken, poolVars, cancelled, consVars>> PROVE Paired'
    <2>1. PICK f \in Frames : f.kind = "planned"
      BY Emissions DEF Kinds
    <2>2. wpc' \notin {"planned", "over"} => wpc \notin {"planned", "over"}
      BY <1>8 DEF WindowFails
    <2>3. UNCHANGED <<mode, out, wire, wireClosed, pc, cur, attempt, planned, outcome, final>>
      BY <1>8 DEF WindowFails
    <2> QED
      BY <1>2, <2>1, <2>2, <2>3
  <1>9. ASSUME NextWindow, UNCHANGED <<mode, attempt, suppress, wire, wireClosed, broken, poolVars, cancelled, consVars>> PROVE Paired'
    <2>1. PICK f \in Frames : f = Frame("stream", 0, TRUE) /\ f.kind = "stream"
      BY Emissions
    <2>2. Send(f) \/ UNCHANGED out
      BY <1>9, <2>1 DEF NextWindow
    <2> QED
      BY <1>9, <1>2, <2>1, <2>2 DEF NextWindow
  <1>10. ASSUME WindowSucceeds, UNCHANGED <<mode, attempt, suppress, wire, wireClosed, broken, poolVars, cancelled, consVars>> PROVE Paired'
    <2>1. PICK f \in Frames : f.kind = "planned"
      BY Emissions DEF Kinds
    <2>2. wpc' \notin {"planned", "over"} => wpc \notin {"planned", "over"}
      BY <1>10 DEF WindowSucceeds
    <2>3. UNCHANGED <<mode, out, wire, wireClosed, pc, cur, attempt, planned, outcome, final>>
      BY <1>10 DEF WindowSucceeds
    <2> QED
      BY <1>2, <2>1, <2>2, <2>3
  <1>11. ASSUME EmitOutcome, UNCHANGED <<mode, attempt, suppress, wire, wireClosed, broken, poolVars, cancelled, consVars>> PROVE Paired'
    <2>1. PICK f \in Frames : /\ f.kind \in {"outcome", "final"} => wpc \notin {"planned", "over"}
                              /\ Offer(f) \/ Send(f) \/ UNCHANGED out
      BY <1>11, Emissions DEF EmitOutcome, Kinds
    <2> QED
      BY <1>11, <1>2, <2>1 DEF EmitOutcome
  <1>12. ASSUME EmitTerminal, UNCHANGED <<mode, attempt, suppress, wire, wireClosed, broken, poolVars, cancelled, consVars>> PROVE Paired'
    <2>1. PICK f \in Frames : /\ f.kind \in {"outcome", "final"} => wpc \notin {"planned", "over"}
                              /\ Offer(f) \/ Send(f) \/ UNCHANGED out
      BY <1>12, Emissions DEF EmitTerminal, Kinds
    <2> QED
      BY <1>12, <1>2, <2>1 DEF EmitTerminal
  <1>13. ASSUME AttemptContextDone, AbortOrchestration, UNCHANGED <<mode, attempt, suppress, wire, wireClosed, broken, poolVars, cancelled, consVars>> PROVE Paired'
    <2>1. PICK f \in Frames : f.kind = "planned"
      BY Emissions DEF Kinds
    <2>2. wpc' \notin {"planned", "over"} => wpc \notin {"planned", "over"}
      BY <1>13 DEF AbortOrchestration
    <2>3. UNCHANGED <<mode, out, wire, wireClosed, pc, cur, attempt, planned, outcome, final>>
      BY <1>13 DEF AbortOrchestration
    <2> QED
      BY <1>2, <2>1, <2>2, <2>3
  <1>14. ASSUME Bridge PROVE Paired'
    <2>1. UNCHANGED <<mode, pc, cur, wireClosed, wpc, planned, attempt, outcome, final>>
      BY <1>14 DEF Bridge
    <2> QED
      BY <1>14, <2>1, Bridged DEF Paired, Streaming, PlannedIn
  <1>15. ASSUME BridgeEnds PROVE Paired'
    <2>1. UNCHANGED <<mode, pc, cur, planned, attempt, outcome, final>>
      BY <1>15 DEF BridgeEnds
    <2>2. /\ wireClosed' = TRUE /\ First' = First /\ First \in {0, 1} /\ Len(wire) <= Last /\ Len(wire) \in Nat
          /\ Last \in Nat /\ Last' \in {Len(wire), Len(wire) + 1}
      BY <1>15, Cut, Numbered
    <2>3. \A i \in First'..Last' : i <= Len(wire) => i \in First..Last /\ At(i)' = At(i)
      BY <1>15, <2>2, Cut
    <2>4. \A i \in First'..Last' : At(i)'.kind \in {"outcome", "final"} => i <= Len(wire)
      BY <1>15, <2>2, Cut
    <2>5. \A i \in First'..Last', k \in First..Last : i <= Len(wire) /\ k < i => k \in First'..Last' /\ k <= Len(wire)
      BY <2>2
    <2>6. ASSUME mode = "call", Streaming, NEW i \in First'..Last', At(i)'.kind \in {"outcome", "final"}
          PROVE  PlannedIn \/ \E k \in First'..Last' : k < i /\ At(k)'.kind = "planned"
      <3>1. i \in First..Last /\ At(i)' = At(i) /\ i <= Len(wire)
        BY <2>3, <2>4, <2>6
      <3>2. PlannedIn \/ \E k \in First..Last : k < i /\ At(k).kind = "planned"
        BY <2>6, <3>1 DEF Paired
      <3> QED
        BY <2>3, <2>5, <3>1, <3>2
    <2>7. PlannedIn' <=> PlannedIn
      BY <2>1 DEF PlannedIn
    <2> QED
      BY <2>1, <2>2, <2>6, <2>7 DEF Paired, Streaming
  <1>16. ASSUME WorkerDies PROVE Paired'
    <2>1. UNCHANGED <<mode, pc, cur, planned, attempt, outcome, final>>
      BY <1>16 DEF WorkerDies
    <2>2. /\ wireClosed' = TRUE /\ First' = First /\ First \in {0, 1} /\ Len(wire) <= Last /\ Len(wire) \in Nat
          /\ Last \in Nat /\ Last' \in {Len(wire), Len(wire) + 1}
      BY <1>16, Cut, Numbered
    <2>3. \A i \in First'..Last' : i <= Len(wire) => i \in First..Last /\ At(i)' = At(i)
      BY <1>16, <2>2, Cut
    <2>4. \A i \in First'..Last' : At(i)'.kind \in {"outcome", "final"} => i <= Len(wire)
      BY <1>16, <2>2, Cut
    <2>5. \A i \in First'..Last', k \in First..Last : i <= Len(wire) /\ k < i => k \in First'..Last' /\ k <= Len(wire)
      BY <2>2
    <2>6. ASSUME mode = "call", Streaming, NEW i \in First'..Last', At(i)'.kind \in {"outcome", "final"}
          PROVE  PlannedIn \/ \E k \in First'..Last' : k < i /\ At(k)'.kind = "planned"
      <3>1. i \in First..Last /\ At(i)' = At(i) /\ i <= Len(wire)
        BY <2>3, <2>4, <2>6
      <3>2. PlannedIn \/ \E k \in First..Last : k < i /\ At(k).kind = "planned"
        BY <2>6, <3>1 DEF Paired
      <3> QED
        BY <2>3, <2>5, <3>1, <3>2
    <2>7. PlannedIn' <=> PlannedIn
      BY <2>1 DEF PlannedIn
    <2> QED
      BY <2>1, <2>2, <2>6, <2>7 DEF Paired, Streaming
  <1>17. ASSUME GetWorkerForRetry PROVE Paired'
    BY <1>17, <1>3 DEF GetWorkerForRetry, Streaming
  <1>18. ASSUME OpenStream PROVE Paired'
    <2>1. Last' = 0 /\ First' = 1 /\ wpc' = "planned" /\ pc' = "recv" /\ UNCHANGED <<mode, planned, outcome, final>>
      BY <1>18 DEF OpenStream, StartWorker, First, Last
    <2> QED
      BY <2>1 DEF Paired
  <1>19. ASSUME SetupRefused PROVE Paired'
    BY <1>19, <1>3 DEF SetupRefused, Streaming
  <1>20. ASSUME SetupFails PROVE Paired'
    BY <1>20, <1>3 DEF SetupFails, Streaming
  <1>21. ASSUME SetupCancelled PROVE Paired'
    BY <1>21, <1>3 DEF SetupCancelled, Streaming
  <1>22. ASSUME StreamCancelled PROVE Paired'
    BY <1>22, <1>3 DEF StreamCancelled, Streaming
  <1>23. ASSUME Receive PROVE Paired'
    <2>1. pc = "recv" /\ UNCHANGED <<mode, wpc, wireClosed, planned, attempt, outcome, final>>
      BY <1>23 DEF Receive
    <2>2. First = 1 /\ Last \in Nat \ {0} /\ Last' = Last - 1 /\ \A i \in 1..Last' : At(i)' = At(i + 1)
      BY <1>23, ReceiveRow
    <2>3. PlannedIn' <=> PlannedIn
      BY <2>1 DEF PlannedIn
    <2>4. CASE ~ Streaming'
      BY <1>3, <2>1, <2>4
    <2>5. CASE pc' = "send"
      <3>1. First' = 0 /\ \A i : i = 0 => At(i)' = cur'
        BY <2>5 DEF First, At
      <3>2. cur'.kind = At(1).kind /\ (cur'.kind \in {"planned", "outcome"} => cur'.stamp = attempt - 1)
        BY <1>23, <2>5, ReceiveRow
      <3>3. \A i \in First'..Last' : i + 1 \in First..Last /\ At(i)'.kind = At(i + 1).kind
        BY <2>2, <3>1, <3>2
      <3>4. \A k \in First..Last : k - 1 \in First'..Last' /\ At(k - 1)'.kind = At(k).kind
        <4>1. TAKE k \in First..Last
        <4>2. k - 1 \in First'..Last' /\ (k - 1) + 1 = k
          BY <2>2, <3>1
        <4> QED
          BY <3>3, <4>2
      <3>5. ASSUME mode = "call", NEW i \in First'..Last', At(i)'.kind \in {"outcome", "final"}
            PROVE  PlannedIn \/ \E k \in First'..Last' : k < i /\ At(k)'.kind = "planned"
        <4>1. PlannedIn \/ \E k \in First..Last : k < i + 1 /\ At(k).kind = "planned"
          BY <2>1, <3>3, <3>5 DEF Paired, Streaming
        <4>2. \A k \in First..Last : k < i + 1 => k - 1 < i
          BY <2>2, <3>1
        <4> QED
          BY <3>4, <4>1, <4>2
      <3>6. ASSUME mode = "call", ~ wireClosed, wpc \notin {"planned", "over"}
            PROVE  PlannedIn \/ \E k \in First'..Last' : At(k)'.kind = "planned"
        <4>1. PlannedIn \/ \E k \in First..Last : At(k).kind = "planned"
          BY <2>1, <3>6 DEF Paired, Streaming
        <4> QED
          BY <3>4, <4>1
      <3> QED
        BY <2>1, <2>3, <2>5, <3>2, <3>5, <3>6 DEF Paired
    <2>6. CASE pc' = "recv"
      <3>1. First' = 1 /\ At(1).kind = "heartbeat"
        BY <1>23, <2>6, ReceiveRow DEF First
      <3>2. \A k \in First..Last : At(k).kind = "planned" => k - 1 \in First'..Last' /\ At(k - 1)' = At(k)
        <4>1. SUFFICES ASSUME NEW k \in First..Last, At(k).kind = "planned"
                       PROVE  k - 1 \in First'..Last' /\ At(k - 1)' = At(k)
          OBVIOUS
        <4>2. k # 1
          BY <3>1, <4>1
        <4>3. k - 1 \in 1..Last' /\ (k - 1) + 1 = k
          BY <2>2, <4>2
        <4> QED
          BY <2>2, <3>1, <4>3
      <3>3. ASSUME mode = "call", NEW i \in First'..Last', At(i)'.kind \in {"outcome", "final"}
            PROVE  PlannedIn \/ \E k \in First'..Last' : k < i /\ At(k)'.kind = "planned"
        <4>1. i + 1 \in First..Last /\ At(i)' = At(i + 1)
          BY <2>2, <3>1
        <4>2. PlannedIn \/ \E k \in First..Last : k < i + 1 /\ At(k).kind = "planned"
          BY <2>1, <3>3, <4>1 DEF Paired, Streaming
        <4>3. \A k \in First..Last : k < i + 1 => k - 1 < i
          BY <2>2, <3>1
        <4> QED
          BY <3>2, <4>2, <4>3
      <3>4. ASSUME mode = "call", ~ wireClosed, wpc \notin {"planned", "over"}
            PROVE  PlannedIn \/ \E k \in First'..Last' : At(k)'.kind = "planned"
        <4>1. PlannedIn \/ \E k \in First..Last : At(k).kind = "planned"
          BY <2>1, <3>4 DEF Paired, Streaming
        <4> QED
          BY <3>2, <4>1
      <3> QED
        BY <2>1, <2>3, <2>6, <3>3, <3>4 DEF Paired
    <2> QED
      BY <2>4, <2>5, <2>6 DEF Streaming
  <1>24. ASSUME ReceiveFailure PROVE Paired'
    BY <1>24, <1>3 DEF ReceiveFailure, Streaming
  <1>25. ASSUME ReceiveClosed PROVE Paired'
    BY <1>25, <1>3 DEF ReceiveClosed, Streaming
  <1>26. ASSUME SilentEOF PROVE Paired'
    BY <1>26, <1>3 DEF SilentEOF, Streaming
  <1>27. ASSUME ReportWorker PROVE Paired'
    BY <1>27, <1>3 DEF ReportWorker, Streaming
  <1>28. ASSUME NextAttempt PROVE Paired'
    BY <1>28, <1>3 DEF NextAttempt, Exhausted, Streaming
  <1>29. ASSUME Drain PROVE Paired'
    BY <1>29, <1>3 DEF Drain, Streaming
  <1>30. ASSUME Forward PROVE Paired'
    <2>1. pc = "send" /\ cur \in Frames /\ Consume(cur) /\ final = None /\ Streaming /\ cur # None
      BY <1>30, Taken DEF Forward, Places, Streaming
    <2>2. pc' \in {"done", "recv"} /\ UNCHANGED <<mode, wpc, wireClosed, attempt>>
      BY <1>30 DEF Forward
    <2>3. /\ First = 0 /\ At(0) = cur /\ 0 \in First..Last /\ First' = 1 /\ Last' = Last
          /\ \A i \in 1..Last : At(i)' = At(i)
      BY <1>30, Taken
    <2>4. Last \in Nat
      BY Numbered
    <2> SUFFICES ASSUME mode = "call" PROVE Paired'
      BY <2>2 DEF Paired
    <2>5. /\ planned' = IF cur.kind = "planned" THEN cur ELSE planned
          /\ outcome' = IF cur.kind = "outcome" THEN cur ELSE IF cur.kind = "planned" THEN None ELSE outcome
          /\ final' = final \/ (final' = cur /\ cur.kind = "final")
      BY <2>1, Consumed
    <2>6. cur.kind \in {"planned", "outcome"} => cur.stamp = attempt - 1
      BY <2>1 DEF Paired
    <2>7. cur.kind = "planned" => PlannedIn'
      BY <2>1, <2>2, <2>5, <2>6 DEF PlannedIn
    <2>8. PlannedIn => PlannedIn'
      BY <2>2, <2>5, <2>7 DEF PlannedIn
    <2>9. cur.kind \in {"outcome", "final"} => PlannedIn
      <3>1. \A k \in First..Last : ~ (k < 0)
        BY <2>3
      <3> QED
        BY <2>1, <2>3, <3>1 DEF Paired
    <2>10. cur.attempt = attempt
      BY <2>1, <2>3 DEF Sources
    <2>11. outcome' # None => planned' # None /\ planned'.stamp = outcome'.stamp
      BY <2>1, <2>5, <2>6, <2>9 DEF Paired, PlannedIn
    <2>12. final' # None => planned' # None /\ planned'.stamp = final'.attempt - 1
      BY <2>1, <2>5, <2>9, <2>10 DEF PlannedIn
    <2>13. \A k \in First..Last : At(k).kind = "planned" => PlannedIn' \/ (k \in First'..Last' /\ At(k)' = At(k))
      <3>1. TAKE k \in First..Last
      <3>2. k = 0 \/ k \in 1..Last
        BY <2>3, <2>4
      <3> QED
        BY <2>3, <2>7, <3>2
    <2>14. ASSUME NEW i \in First'..Last', At(i)'.kind \in {"outcome", "final"}
           PROVE  PlannedIn' \/ \E k \in First'..Last' : k < i /\ At(k)'.kind = "planned"
      <3>1. i \in First..Last /\ At(i)' = At(i)
        BY <2>3, <2>4
      <3>2. PlannedIn \/ \E k \in First..Last : k < i /\ At(k).kind = "planned"
        BY <2>1, <2>14, <3>1 DEF Paired
      <3> QED
        BY <2>8, <2>13, <3>2
    <2>15. ASSUME ~ wireClosed, wpc \notin {"planned", "over"}
           PROVE  PlannedIn' \/ \E k \in First'..Last' : At(k)'.kind = "planned"
      BY <2>1, <2>8, <2>13, <2>15 DEF Paired
    <2> QED
      BY <2>2, <2>11, <2>12, <2>14, <2>15 DEF Paired
  <1>31. ASSUME SendStreamError PROVE Paired'
    <2>1. PICK e \in Frames : e = Frame("error", 0, FALSE) /\ e.kind = "error"
      BY Emissions DEF Kinds
    <2>2. (Consume(e) \/ UNCHANGED consVars) /\ mode' = mode /\ pc' = "done"
      BY <1>31, <2>1 DEF SendStreamError
    <2>3. mode = "call" => UNCHANGED <<planned, outcome, final>>
      BY <2>1, <2>2, Consumed
    <2> QED
      BY <2>2, <2>3 DEF Paired, Streaming
  <1>32. CASE UNCHANGED vars
    BY <1>1, <1>32 DEF vars
  <1> QED
    BY <1>4, <1>5, <1>6, <1>7, <1>8, <1>9, <1>10, <1>11, <1>12, <1>13, <1>14, <1>15, <1>16, <1>17, <1>18, <1>19, <1>20, <1>21, <1>22, <1>23, <1>24, <1>25, <1>26, <1>27, <1>28, <1>29, <1>30, <1>31, <1>32
       DEF Next, WorkerStep, OrchestratorStep, WorkerAborts, Transport, PoolStep

\* A window with partials is left only by sending its marker, and an attempt with
\* results only with a reset for the next.
LEMMA SourcesStep ==
  ASSUME TypeOK, Places, Suppressed, Sources, [Next]_vars
  PROVE  Sources'
  <1> USE OrchestratorAssumption, CallStreamAssumption DEF workerVars, poolVars, consVars
  <1>1. ASSUME UNCHANGED <<mode, pc, cur, wire, wireClosed, out, attempt, window, sawStreamFrame, raw, cons, needsReset, injectedReset, sentAnyResults>> PROVE Sources'
    BY <1>1 DEF Sources, First, Last, At, Streaming, Behind, IsPartial, IsMarker, IsFailure, Fresh
  <1>2. ASSUME UNCHANGED <<raw, sentAnyResults>>, ~ Streaming' PROVE Sources'
    BY <1>2 DEF Sources, Streaming
  <1>3. ASSUME NEW f \in Frames, f.attempt = attempt, f.window = window,
               Offer(f) \/ Send(f) \/ UNCHANGED out,
               mode = "stream" =>
                   \/ window' = window /\ (sawStreamFrame => sawStreamFrame')
                   \/ window' = window + 1 /\ (sawStreamFrame => Send(f) /\ IsMarker(f)),
               mode = "stream" /\ IsPartial(f) /\ Room => window' = window /\ sawStreamFrame',
               UNCHANGED <<mode, wire, wireClosed, pc, cur, attempt, raw, cons, needsReset, injectedReset, sentAnyResults>>
        PROVE  Sources'
    <2>1. First' = First /\ (\A i \in First..Last : At(i)' = At(i)) /\ First \in {0, 1} /\ Last \in Nat
      BY <1>3, Queued, Numbered
    <2>2. \A i \in First'..Last' : i \in First..Last \/ (i = Last + 1 /\ Last' = Last + 1 /\ At(i)' = f /\ Room)
      BY <1>3, <2>1, Queued
    <2>3. ASSUME mode = "stream", NEW w \in 1..MaxWindows, NEW i \in First..(Last + 1), Behind(w, i)
          PROVE  Behind(w, i)'
      BY <1>3, <2>3, BehindGrows
    <2>4. ASSUME Streaming PROVE \A i \in First'..Last' : At(i)'.attempt = attempt
      BY <1>3, <2>1, <2>2, <2>4 DEF Sources
    <2>5. ASSUME Streaming, mode = "stream", NEW i \in First'..Last', NEW w \in 1..MaxWindows,
                 IsPartial(At(i))', At(i)'.window = w
          PROVE  Behind(w, i + 1)'
      <3>1. CASE i \in First..Last
        <4>1. IsPartial(At(i)) /\ At(i).window = w /\ i + 1 \in First..(Last + 1)
          BY <2>1, <2>5, <3>1 DEF IsPartial
        <4>2. Behind(w, i + 1)
          BY <2>5, <3>1, <4>1 DEF Sources
        <4> QED
          BY <2>3, <2>5, <4>1, <4>2
      <3>2. CASE i = Last + 1 /\ Last' = Last + 1 /\ At(i)' = f /\ Room
        <4>1. IsPartial(f) /\ w = window /\ window' = window /\ sawStreamFrame'
          BY <1>3, <2>5, <3>2 DEF IsPartial
        <4>2. (i + 1)..Last' = {}
          BY <2>1, <3>2
        <4>3. w \in Nat
          OBVIOUS
        <4> QED
          BY <4>1, <4>2, <4>3 DEF Behind
      <3> QED
        BY <2>2, <2>5, <3>1, <3>2
    <2>6. ASSUME Streaming, mode = "stream", cons = "reading", Fresh, NEW m \in 1..Len(raw)
          PROVE  /\ raw[m].attempt = attempt
                 /\ \A w \in 1..MaxWindows, i \in 0..1 : raw[m].window = w /\ First' = i => Behind(w, i)'
      <3>1. raw[m].attempt = attempt
        BY <2>6 DEF Sources
      <3>2. SUFFICES ASSUME NEW w \in 1..MaxWindows, NEW i \in 0..1, raw[m].window = w, First' = i
                     PROVE  Behind(w, i)'
        BY <3>1
      <3>3. Behind(w, i) /\ i \in First..(Last + 1)
        BY <2>1, <2>6, <3>2 DEF Sources
      <3> QED
        BY <2>3, <2>6, <3>3
    <2>7. (Fresh' <=> Fresh) /\ (Streaming' <=> Streaming)
      BY <1>3 DEF Fresh, Streaming
    <2> QED
      BY <1>3, <2>4, <2>5, <2>6, <2>7 DEF Sources
  <1>4. ASSUME UNCHANGED <<mode, pc, cur, attempt, raw, cons, needsReset, injectedReset, sentAnyResults>>,
               First' = First, Last' \in Nat,
               \A i \in First'..Last' : /\ At(i)'.attempt = attempt
                                        /\ IsPartial(At(i))' => i \in First..Last /\ At(i)' = At(i),
               \A w \in 1..MaxWindows, i \in First..(Last + 1) : Behind(w, i) => Behind(w, i)'
        PROVE  Sources'
    <2>1. First \in {0, 1} /\ Last \in Nat
      BY Numbered
    <2>2. ASSUME Streaming, mode = "stream", NEW i \in First'..Last', NEW w \in 1..MaxWindows,
                 IsPartial(At(i))', At(i)'.window = w
          PROVE  Behind(w, i + 1)'
      <3>1. i \in First..Last /\ IsPartial(At(i)) /\ At(i).window = w
        BY <1>4, <2>2 DEF IsPartial
      <3>2. Behind(w, i + 1) /\ i + 1 \in First..(Last + 1)
        BY <2>1, <2>2, <3>1 DEF Sources
      <3> QED
        BY <1>4, <3>2
    <2>3. ASSUME Streaming, mode = "stream", cons = "reading", Fresh, NEW m \in 1..Len(raw)
          PROVE  /\ raw[m].attempt = attempt
                 /\ \A w \in 1..MaxWindows, i \in 0..1 : raw[m].window = w /\ First' = i => Behind(w, i)'
      <3>1. raw[m].attempt = attempt
        BY <2>3 DEF Sources
      <3>2. SUFFICES ASSUME NEW w \in 1..MaxWindows, NEW i \in 0..1, raw[m].window = w, First' = i
                     PROVE  Behind(w, i)'
        BY <3>1
      <3>3. Behind(w, i) /\ i \in First..(Last + 1)
        BY <1>4, <2>1, <2>3, <3>2 DEF Sources
      <3> QED
        BY <1>4, <3>3
    <2>4. (Fresh' <=> Fresh) /\ (Streaming' <=> Streaming)
      BY <1>4 DEF Fresh, Streaming
    <2> QED
      BY <1>4, <2>2, <2>3, <2>4 DEF Sources
  <1>5. ASSUME CallerCancels PROVE Sources'
    BY <1>1, <1>5 DEF CallerCancels
  <1>6. ASSUME WindowFails \/ WindowSucceeds, UNCHANGED <<mode, attempt, suppress, wire, wireClosed, broken, poolVars, cancelled, consVars>> PROVE Sources'
    BY <1>1, <1>6 DEF WindowFails, WindowSucceeds
  <1>7. ASSUME AttemptContextDone, AbortOrchestration, UNCHANGED <<mode, attempt, suppress, wire, wireClosed, broken, poolVars, cancelled, consVars>> PROVE Sources'
    BY <1>1, <1>7 DEF AbortOrchestration
  <1>8. ASSUME ClientGone PROVE Sources'
    <2>1. /\ UNCHANGED <<mode, pc, cur, wire, wireClosed, out, attempt, window, sawStreamFrame, raw, needsReset, injectedReset, sentAnyResults>>
          /\ cons = "reading" /\ cons' # "reading"
      BY <1>8 DEF ClientGone
    <2> QED
      BY <2>1 DEF Sources, First, Last, At, Streaming, Behind, IsPartial, IsMarker, IsFailure, Fresh
  <1>9. ASSUME EmitPlanned, UNCHANGED <<mode, attempt, suppress, wire, wireClosed, broken, poolVars, cancelled, consVars>> PROVE Sources'
    <2>1. PICK f \in Frames : /\ f = Frame("planned", 0, FALSE) /\ f.kind = "planned" /\ f.attempt = attempt
                              /\ f.window = window
      BY Emissions DEF Kinds
    <2>2. (Offer(f) \/ Send(f) \/ UNCHANGED out) /\ ~ IsPartial(f)
      BY <1>9, <2>1 DEF EmitPlanned, IsPartial
    <2>3. UNCHANGED <<window, sawStreamFrame, mode, wire, wireClosed, pc, cur, attempt, raw, cons, needsReset, injectedReset, sentAnyResults>>
      BY <1>9 DEF EmitPlanned
    <2> QED
      BY <1>3, <2>1, <2>2, <2>3
  <1>10. ASSUME UpstreamResponds, UNCHANGED <<mode, attempt, suppress, wire, wireClosed, broken, poolVars, cancelled, consVars>> PROVE Sources'
    <2>1. PICK f \in Frames : /\ f = Frame("heartbeat", 0, FALSE) /\ f.kind = "heartbeat" /\ f.attempt = attempt
                              /\ f.window = window
      BY Emissions DEF Kinds
    <2>2. (Offer(f) \/ Send(f) \/ UNCHANGED out) /\ ~ IsPartial(f)
      BY <1>10, <2>1 DEF UpstreamResponds, IsPartial
    <2>3. UNCHANGED <<window, sawStreamFrame, mode, wire, wireClosed, pc, cur, attempt, raw, cons, needsReset, injectedReset, sentAnyResults>>
      BY <1>10 DEF UpstreamResponds
    <2> QED
      BY <1>3, <2>1, <2>2, <2>3
  <1>11. ASSUME UpstreamDelta, UNCHANGED <<mode, attempt, suppress, wire, wireClosed, broken, poolVars, cancelled, consVars>> PROVE Sources'
    <2>1. PICK f \in Frames : /\ f = Frame("stream", delta + 1, FALSE) /\ f.attempt = attempt /\ f.window = window
      BY <1>11, Emissions DEF UpstreamDelta
    <2>2. Offer(f) /\ window' = window /\ (sawStreamFrame => sawStreamFrame') /\ (Room => sawStreamFrame')
      BY <1>11, <2>1 DEF UpstreamDelta
    <2>3. UNCHANGED <<mode, wire, wireClosed, pc, cur, attempt, raw, cons, needsReset, injectedReset, sentAnyResults>>
      BY <1>11 DEF UpstreamDelta
    <2> QED
      BY <1>3, <2>1, <2>2, <2>3
  <1>12. ASSUME NextWindow, UNCHANGED <<mode, attempt, suppress, wire, wireClosed, broken, poolVars, cancelled, consVars>> PROVE Sources'
    <2>1. PICK f \in Frames : /\ f = Frame("stream", 0, TRUE) /\ f.kind = "stream" /\ f.n = 0 /\ f.reset = TRUE
                              /\ f.attempt = attempt /\ f.window = window
      BY Emissions
    <2>2. IsMarker(f) /\ ~ IsPartial(f)
      BY <2>1 DEF IsMarker, IsPartial
    <2>3. /\ Send(f) \/ UNCHANGED out
          /\ mode = "stream" => window' = window + 1 /\ (sawStreamFrame => Send(f))
      BY <1>12, <2>1 DEF NextWindow, ResetAtBoundary, NeedsPartials
    <2>4. UNCHANGED <<mode, wire, wireClosed, pc, cur, attempt, raw, cons, needsReset, injectedReset, sentAnyResults>>
      BY <1>12 DEF NextWindow
    <2> QED
      BY <1>3, <2>1, <2>2, <2>3, <2>4
  <1>13. ASSUME EmitOutcome, UNCHANGED <<mode, attempt, suppress, wire, wireClosed, broken, poolVars, cancelled, consVars>> PROVE Sources'
    <2>1. PICK f \in Frames : /\ f = Frame("outcome", 0, FALSE) /\ f.kind = "outcome" /\ f.attempt = attempt
                              /\ f.window = window
      BY Emissions DEF Kinds
    <2>2. (Offer(f) \/ Send(f) \/ UNCHANGED out) /\ ~ IsPartial(f)
      BY <1>13, <2>1 DEF EmitOutcome, IsPartial
    <2>3. UNCHANGED <<window, sawStreamFrame, mode, wire, wireClosed, pc, cur, attempt, raw, cons, needsReset, injectedReset, sentAnyResults>>
      BY <1>13 DEF EmitOutcome
    <2> QED
      BY <1>3, <2>1, <2>2, <2>3
  <1>14. ASSUME EmitTerminal, UNCHANGED <<mode, attempt, suppress, wire, wireClosed, broken, poolVars, cancelled, consVars>> PROVE Sources'
    <2>1. PICK f \in Frames : /\ f.kind # "stream" /\ f.attempt = attempt /\ f.window = window /\ Send(f)
      BY <1>14, Emissions DEF EmitTerminal, Kinds
    <2>2. ~ IsPartial(f)
      BY <2>1 DEF IsPartial
    <2>3. UNCHANGED <<window, sawStreamFrame, mode, wire, wireClosed, pc, cur, attempt, raw, cons, needsReset, injectedReset, sentAnyResults>>
      BY <1>14 DEF EmitTerminal
    <2> QED
      BY <1>3, <2>1, <2>2, <2>3
  <1>15. ASSUME Bridge PROVE Sources'
    <2>1. UNCHANGED <<mode, pc, cur, attempt, raw, cons, needsReset, injectedReset, sentAnyResults, wireClosed, window, sawStreamFrame>>
      BY <1>15 DEF Bridge
    <2>2. First' = First /\ Last' = Last /\ (\A i \in First..Last : At(i)' = At(i)) /\ First \in {0, 1} /\ Last \in Nat
      BY <1>15, Bridged, Numbered
    <2>3. CASE ~ Streaming
      BY <1>2, <2>1, <2>3 DEF Streaming
    <2>4. CASE Streaming
      <3>1. \A i \in First'..Last' : At(i)'.attempt = attempt
        BY <2>2, <2>4 DEF Sources
      <3>2. ASSUME NEW w \in 1..MaxWindows, NEW i \in First..(Last + 1), Behind(w, i) PROVE Behind(w, i)'
        <4>1. \A j \in i..Last : At(j)' = At(j)
          BY <2>2
        <4> QED
          BY <2>1, <2>2, <3>2, <4>1, BehindStays
      <3> QED
        BY <1>4, <2>1, <2>2, <3>1, <3>2
    <2> QED
      BY <2>3, <2>4
  <1>16. ASSUME BridgeEnds PROVE Sources'
    <2>1. UNCHANGED <<mode, pc, cur, attempt, raw, cons, needsReset, injectedReset, sentAnyResults, window>>
      BY <1>16 DEF BridgeEnds
    <2>2. /\ First' = First /\ First \in {0, 1} /\ Last \in Nat /\ Len(wire) \in Nat /\ Len(wire) <= Last
          /\ Last' \in {Len(wire), Len(wire) + 1}
      BY <1>16, Cut, Numbered
    <2>3. \A i \in First'..Last' : i <= Len(wire) => i \in First..Last /\ At(i)' = At(i)
      BY <1>16, <2>2, Cut
    <2>4. \A i \in First'..Last' : i > Len(wire) => ~ IsPartial(At(i))' /\ At(i)'.attempt = attempt
      BY <1>16, <2>2, Cut DEF IsPartial
    <2>5. \A i \in First'..Last' : i <= Len(wire) \/ i > Len(wire)
      BY <2>2
    <2>6. CASE ~ Streaming
      BY <1>2, <2>1, <2>6 DEF Streaming
    <2>7. CASE Streaming
      <3>1. \A i \in First'..Last' : At(i)'.attempt = attempt
        BY <2>3, <2>4, <2>5, <2>7 DEF Sources
      <3>2. \A i \in First'..Last' : IsPartial(At(i))' => i \in First..Last /\ At(i)' = At(i)
        BY <2>3, <2>4, <2>5
      <3>3. ASSUME NEW w \in 1..MaxWindows, NEW i \in First..(Last + 1), Behind(w, i) PROVE Behind(w, i)'
        BY <1>16, <2>1, <3>3, BehindCut
      <3> QED
        BY <1>4, <2>1, <2>2, <3>1, <3>2, <3>3
    <2> QED
      BY <2>6, <2>7
  <1>17. ASSUME WorkerDies PROVE Sources'
    <2>1. UNCHANGED <<mode, pc, cur, attempt, raw, cons, needsReset, injectedReset, sentAnyResults, window>>
      BY <1>17 DEF WorkerDies
    <2>2. /\ First' = First /\ First \in {0, 1} /\ Last \in Nat /\ Len(wire) \in Nat /\ Len(wire) <= Last
          /\ Last' \in {Len(wire), Len(wire) + 1}
      BY <1>17, Cut, Numbered
    <2>3. \A i \in First'..Last' : i <= Len(wire) => i \in First..Last /\ At(i)' = At(i)
      BY <1>17, <2>2, Cut
    <2>4. \A i \in First'..Last' : i > Len(wire) => ~ IsPartial(At(i))' /\ At(i)'.attempt = attempt
      BY <1>17, <2>2, Cut DEF IsPartial
    <2>5. \A i \in First'..Last' : i <= Len(wire) \/ i > Len(wire)
      BY <2>2
    <2>6. CASE ~ Streaming
      BY <1>2, <2>1, <2>6 DEF Streaming
    <2>7. CASE Streaming
      <3>1. \A i \in First'..Last' : At(i)'.attempt = attempt
        BY <2>3, <2>4, <2>5, <2>7 DEF Sources
      <3>2. \A i \in First'..Last' : IsPartial(At(i))' => i \in First..Last /\ At(i)' = At(i)
        BY <2>3, <2>4, <2>5
      <3>3. ASSUME NEW w \in 1..MaxWindows, NEW i \in First..(Last + 1), Behind(w, i) PROVE Behind(w, i)'
        BY <1>17, <2>1, <3>3, BehindCut
      <3> QED
        BY <1>4, <2>1, <2>2, <3>1, <3>2, <3>3
    <2> QED
      BY <2>6, <2>7
  <1>18. ASSUME GetWorkerForRetry PROVE Sources'
    BY <1>18, <1>2 DEF GetWorkerForRetry, Streaming
  <1>19. ASSUME OpenStream PROVE Sources'
    <2>1. /\ Last' = 0 /\ First' = 1 /\ pc' = "recv" /\ needsReset' = sentAnyResults /\ injectedReset' = FALSE
          /\ UNCHANGED <<raw, sentAnyResults>>
      BY <1>19 DEF OpenStream, StartWorker, First, Last
    <2>2. Fresh' => Len(raw) = 0
      BY <2>1 DEF Fresh, Sources, TypeOK
    <2> QED
      BY <2>1, <2>2 DEF Sources
  <1>20. ASSUME SetupRefused PROVE Sources'
    BY <1>20, <1>2 DEF SetupRefused, Streaming
  <1>21. ASSUME SetupFails PROVE Sources'
    BY <1>21, <1>2 DEF SetupFails, Streaming
  <1>22. ASSUME SetupCancelled PROVE Sources'
    BY <1>22, <1>2 DEF SetupCancelled, Streaming
  <1>23. ASSUME StreamCancelled PROVE Sources'
    BY <1>23, <1>2 DEF StreamCancelled, Streaming
  <1>24. ASSUME Receive PROVE Sources'
    <2>1. /\ pc = "recv" /\ Streaming
          /\ UNCHANGED <<mode, attempt, wireClosed, window, sawStreamFrame, raw, cons, needsReset, sentAnyResults, suppress>>
      BY <1>24 DEF Receive, Streaming
    <2>2. First = 1 /\ Last \in Nat \ {0} /\ Last' = Last - 1 /\ \A i \in 1..Last' : At(i)' = At(i + 1)
      BY <1>24, ReceiveRow
    <2>3. CASE ~ Streaming'
      BY <1>2, <2>1, <2>3
    <2>4. CASE pc' = "send"
      <3>1. First' = 0 /\ \A i : i = 0 => At(i)' = cur'
        BY <2>4 DEF First, At
      <3>2. /\ cur'.kind = At(1).kind /\ cur'.attempt = At(1).attempt /\ cur'.window = At(1).window /\ cur'.n = At(1).n
            /\ cur'.reset = (At(1).reset \/ InjectReset(At(1)))
            /\ injectedReset' = (injectedReset \/ InjectReset(At(1)))
        BY <1>24, <2>4, ReceiveRow
      <3>3. \A i \in 0..Last' : /\ i + 1 \in First..Last /\ At(i)'.kind = At(i + 1).kind
                                /\ At(i)'.window = At(i + 1).window /\ At(i)'.n = At(i + 1).n
                                /\ At(i)'.attempt = At(i + 1).attempt /\ (At(i + 1).reset => At(i)'.reset)
        <4>1. TAKE i \in 0..Last'
        <4>2. CASE i = 0
          <5>1. i + 1 = 1 /\ 1 \in First..Last
            BY <2>2, <4>2
          <5>2. At(i)' = cur'
            BY <3>1, <4>2
          <5>3. At(1).reset => cur'.reset
            BY <3>2
          <5> QED
            BY <3>2, <5>1, <5>2, <5>3
        <4>3. CASE i \in 1..Last'
          BY <2>2, <4>3
        <4> QED
          BY <2>2, <4>2, <4>3
      <3>4. ASSUME NEW w \in 1..MaxWindows, NEW i \in Nat, Behind(w, i + 1) PROVE Behind(w, i)'
        <4>1. \A j \in i..Last' : j \in 0..Last'
          BY <2>2
        <4> QED
          BY <2>1, <2>2, <3>3, <3>4, <4>1, BehindShift
      <3>5. \A i \in First'..Last' : At(i)'.attempt = attempt
        BY <2>1, <3>1, <3>3 DEF Sources
      <3>6. ASSUME mode = "stream", NEW i \in First'..Last', NEW w \in 1..MaxWindows,
                   IsPartial(At(i))', At(i)'.window = w
            PROVE  Behind(w, i + 1)'
        <4>1. i + 1 \in First..Last /\ IsPartial(At(i + 1)) /\ At(i + 1).window = w /\ i + 1 \in Nat
          BY <2>2, <3>1, <3>3, <3>6 DEF IsPartial
        <4>2. Behind(w, (i + 1) + 1)
          BY <2>1, <3>6, <4>1 DEF Sources
        <4> QED
          BY <3>4, <4>1, <4>2
      <3>7. ASSUME mode = "stream", cons = "reading", Fresh', NEW m \in 1..Len(raw)
            PROVE  raw[m].attempt = attempt /\ \A w \in 1..MaxWindows : raw[m].window = w => Behind(w, 0)'
        <4>1. Fresh
          BY <2>1, <2>4, <3>2, <3>7 DEF Fresh
        <4>2. ASSUME NEW w \in 1..MaxWindows, raw[m].window = w PROVE Behind(w, 0 + 1)
          <5>1. 0 + 1 \in 0..1 /\ First = 0 + 1
            BY <2>2
          <5> QED
            BY <2>1, <3>7, <4>1, <4>2, <5>1 DEF Sources
        <4> QED
          BY <2>1, <3>4, <3>7, <4>1, <4>2 DEF Sources
      <3>8. needsReset /\ ~ injectedReset' => cur'.kind = "planned"
        BY <3>2 DEF InjectReset, IsProgress, Suppressed
      <3> QED
        BY <2>1, <3>1, <3>5, <3>6, <3>7, <3>8 DEF Sources
    <2>5. CASE pc' = "recv"
      <3>1. First' = 1 /\ At(1).kind = "heartbeat" /\ injectedReset' = injectedReset
        BY <1>24, <2>5, ReceiveRow DEF First
      <3>2. ASSUME NEW w \in 1..MaxWindows, NEW i \in Nat \ {0}, Behind(w, i + 1) PROVE Behind(w, i)'
        <4>1. \A j \in i..Last' : At(j)' = At(j + 1)
          BY <2>2
        <4> QED
          BY <2>1, <2>2, <3>2, <4>1, BehindShift
      <3>3. \A i \in First'..Last' : i + 1 \in First..Last /\ At(i)' = At(i + 1) /\ i \in Nat \ {0} /\ i + 1 \in Nat \ {0}
        BY <2>2, <3>1
      <3>4. \A i \in First'..Last' : At(i)'.attempt = attempt
        BY <2>1, <3>3 DEF Sources
      <3>5. ASSUME mode = "stream", NEW i \in First'..Last', NEW w \in 1..MaxWindows,
                   IsPartial(At(i))', At(i)'.window = w
            PROVE  Behind(w, i + 1)'
        <4>1. i + 1 \in First..Last /\ IsPartial(At(i + 1)) /\ At(i + 1).window = w /\ i + 1 \in Nat \ {0}
          BY <3>3, <3>5 DEF IsPartial
        <4>2. Behind(w, (i + 1) + 1)
          BY <2>1, <3>5, <4>1 DEF Sources
        <4> QED
          BY <3>2, <4>1, <4>2
      <3>6. ASSUME mode = "stream", cons = "reading", Fresh', NEW m \in 1..Len(raw)
            PROVE  raw[m].attempt = attempt /\ \A w \in 1..MaxWindows : raw[m].window = w => Behind(w, 1)'
        <4>1. Fresh
          BY <2>1, <2>5, <3>1, <3>6 DEF Fresh
        <4>2. ASSUME NEW w \in 1..MaxWindows, raw[m].window = w PROVE Behind(w, 1 + 1)
          <5>1. 1 \in 0..1
            OBVIOUS
          <5>2. Behind(w, 1)
            BY <2>1, <2>2, <3>6, <4>1, <4>2, <5>1 DEF Sources
          <5>3. ~ IsMarker(At(1))
            BY <3>1 DEF IsMarker
          <5> QED
            BY <2>2, <5>2, <5>3, BehindNext
        <4> QED
          BY <2>1, <3>2, <3>6, <4>1, <4>2 DEF Sources
      <3> QED
        BY <2>1, <2>5, <3>1, <3>4, <3>5, <3>6 DEF Sources
    <2> QED
      BY <2>3, <2>4, <2>5 DEF Streaming
  <1>25. ASSUME ReceiveFailure PROVE Sources'
    BY <1>25, <1>2 DEF ReceiveFailure, Streaming
  <1>26. ASSUME ReceiveClosed PROVE Sources'
    BY <1>26, <1>2 DEF ReceiveClosed, Streaming
  <1>27. ASSUME SilentEOF PROVE Sources'
    BY <1>27, <1>2 DEF SilentEOF, Streaming
  <1>28. ASSUME ReportWorker PROVE Sources'
    BY <1>28, <1>2 DEF ReportWorker, Streaming
  <1>29. ASSUME NextAttempt PROVE Sources'
    BY <1>29, <1>2 DEF NextAttempt, Exhausted, Streaming
  <1>30. ASSUME Drain PROVE Sources'
    BY <1>30, <1>2 DEF Drain, Streaming
  <1>31. ASSUME Forward PROVE Sources'
    <2>1. pc = "send" /\ cur \in Frames /\ Consume(cur) /\ Streaming
      BY <1>31, Taken DEF Forward, Streaming
    <2>2. /\ pc' = IF IsTerminal(cur) THEN "done" ELSE "recv"
          /\ sentAnyResults' = (sentAnyResults \/ cur.kind # "planned")
          /\ UNCHANGED <<mode, attempt, wireClosed, window, sawStreamFrame, needsReset, injectedReset>>
      BY <1>31 DEF Forward, Forwarded, IsProgress
    <2>3. /\ First = 0 /\ At(0) = cur /\ 0 \in First..Last /\ First' = 1 /\ Last' = Last /\ Last \in Nat
          /\ \A i \in 1..Last : At(i)' = At(i)
      BY <1>31, Taken, Numbered
    <2>4. ASSUME NEW w \in 1..MaxWindows, NEW i \in 1..(Last + 1), Behind(w, i) PROVE Behind(w, i)'
      <3>1. \A j \in i..Last : At(j)' = At(j)
        BY <2>3
      <3> QED
        BY <2>2, <2>3, <2>4, <3>1, BehindStays
    <2>5. \A i \in First'..Last' : At(i)'.attempt = attempt
      BY <2>1, <2>3 DEF Sources
    <2>6. ASSUME mode = "stream", NEW i \in First'..Last', NEW w \in 1..MaxWindows,
                 IsPartial(At(i))', At(i)'.window = w
          PROVE  Behind(w, i + 1)'
      <3>1. i \in First..Last /\ At(i)' = At(i) /\ i + 1 \in 1..(Last + 1)
        BY <2>3
      <3>2. Behind(w, i + 1)
        BY <2>1, <2>6, <3>1 DEF Sources, IsPartial
      <3> QED
        BY <2>4, <3>1, <3>2
    <2>7. ASSUME Streaming', mode = "stream", cons' = "reading", Fresh', NEW m \in 1..Len(raw')
          PROVE  raw'[m].attempt = attempt /\ \A w \in 1..MaxWindows : raw'[m].window = w => Behind(w, 1)'
      <3>1. cons = "reading" /\ cur.kind # "error"
        BY <2>1, <2>2, <2>7, Consumed DEF Streaming, IsTerminal
      <3>2. CASE raw'[m] = cur /\ IsPartial(cur)
        <4>1. cur.attempt = attempt
          BY <2>1, <2>3 DEF Sources
        <4>2. ASSUME NEW w \in 1..MaxWindows, cur.window = w PROVE Behind(w, 1)
          <5>1. Behind(w, 0 + 1)
            BY <2>1, <2>3, <2>7, <3>2, <4>2 DEF Sources
          <5> QED
            BY <5>1
        <4>3. 1 \in 1..(Last + 1)
          BY <2>3
        <4> QED
          BY <2>4, <3>2, <4>1, <4>2, <4>3
      <3>3. CASE m \in 1..Len(raw) /\ raw'[m] = raw[m] /\ ~ cur.reset
        <4>1. Fresh
          BY <2>2, <2>7, <3>3 DEF Fresh
        <4>2. raw[m].attempt = attempt
          BY <2>1, <2>7, <3>1, <3>3, <4>1 DEF Sources
        <4>3. ASSUME NEW w \in 1..MaxWindows, raw[m].window = w PROVE Behind(w, 1)
          <5>1. Behind(w, 0)
            BY <2>1, <2>3, <2>7, <3>1, <3>3, <4>1, <4>3 DEF Sources
          <5>2. ~ IsMarker(At(0))
            BY <2>3, <3>3 DEF IsMarker
          <5>3. Behind(w, 0 + 1)
            BY <2>3, <5>1, <5>2, BehindNext
          <5> QED
            BY <5>3
        <4>4. 1 \in 1..(Last + 1)
          BY <2>3
        <4> QED
          BY <2>4, <3>3, <4>2, <4>3, <4>4
      <3> QED
        BY <2>1, <2>7, <3>1, <3>2, <3>3, Consumed
    <2>8. raw' # <<>> => sentAnyResults'
      BY <2>1, <2>2, Consumed DEF Sources
    <2>9. pc' # "send"
      BY <2>2
    <2> QED
      BY <2>2, <2>3, <2>5, <2>6, <2>7, <2>8, <2>9 DEF Sources
  <1>32. ASSUME SendStreamError PROVE Sources'
    <2>1. PICK e \in Frames : e = Frame("error", 0, FALSE) /\ e.kind = "error"
      BY Emissions DEF Kinds
    <2>2. (Consume(e) \/ UNCHANGED consVars) /\ pc' = "done" /\ sentAnyResults' = sentAnyResults
      BY <1>32, <2>1 DEF SendStreamError
    <2>3. raw' # <<>> => raw # <<>>
      BY <2>1, <2>2, Consumed
    <2> QED
      BY <2>2, <2>3 DEF Sources, Streaming
  <1>33. CASE UNCHANGED vars
    BY <1>1, <1>33 DEF vars
  <1> QED
    BY <1>5, <1>6, <1>7, <1>8, <1>9, <1>10, <1>11, <1>12, <1>13, <1>14, <1>15, <1>16, <1>17, <1>18, <1>19, <1>20, <1>21, <1>22, <1>23, <1>24, <1>25, <1>26, <1>27, <1>28, <1>29, <1>30, <1>31, <1>32, <1>33
       DEF Next, WorkerStep, OrchestratorStep, WorkerAborts, Transport, PoolStep

\* Without a reset, what is about to be published is of the window of what the consumer
\* holds.
LEMMA OneWindow ==
  ASSUME TypeOK, Places, Sources, pc = "send", mode = "stream", cons = "reading", ~ cur.reset,
         cur.kind \notin {"planned", "error", "infra", "cancel"}, NEW m \in 1..Len(raw)
  PROVE  raw[m].attempt = cur.attempt /\ raw[m].window = cur.window
  <1>1. First = 0 /\ At(0) = cur /\ 0 \in First..Last /\ Last \in Nat /\ Streaming
    BY Numbered DEF First, At, Streaming
  <1>2. Fresh
    BY DEF Sources, Fresh
  <1>3. raw[m].attempt = attempt /\ cur.attempt = attempt
    BY <1>1, <1>2 DEF Sources
  <1>4. PICK w \in 1..MaxWindows : w = raw[m].window
    <2>1. raw[m] \in Frames
      BY DEF TypeOK
    <2> QED
      BY <2>1 DEF Frames
  <1>5. Behind(w, 0)
    BY <1>1, <1>2, <1>4 DEF Sources
  <1>6. 0 \in 0..Last /\ \A k \in 0..Last : ~ (k < 0)
    BY <1>1
  <1>7. w <= cur.window /\ ~ (w < cur.window /\ ~ IsFailure(cur))
    BY <1>1, <1>5, <1>6 DEF Behind
  <1>8. cur.window \in Nat
    BY DEF Places, TypeOK, Frames
  <1> QED
    BY <1>3, <1>4, <1>7, <1>8 DEF IsFailure

\* What is published is of the window of what was accumulated.
LEMMA OneSourceStep ==
  ASSUME TypeOK, Places, Sources, OneSource, [Next]_vars
  PROVE  OneSource'
  <1> USE OrchestratorAssumption, CallStreamAssumption DEF workerVars, poolVars, consVars
  <1>1. ASSUME UNCHANGED <<raw, final>> PROVE OneSource'
    BY <1>1 DEF OneSource
  <1>2. ASSUME CallerCancels \/ ClientGone \/ Bridge \/ BridgeEnds \/ WorkerDies \/ GetWorkerForRetry \/ OpenStream \/ SetupRefused \/ SetupFails \/ SetupCancelled \/ StreamCancelled \/ Receive \/ ReceiveFailure \/ ReceiveClosed \/ SilentEOF \/ ReportWorker \/ NextAttempt \/ Drain PROVE OneSource'
    BY <1>1, <1>2 DEF CallerCancels, ClientGone, Bridge, WireRoom, BridgeEnds, AttemptContextDone, WorkerDies, GetWorkerForRetry, OpenStream, StartWorker, SetupRefused, SetupFails, SetupCancelled, StreamCancelled, LeaveDrain, Receive, ReceiveFailure, ReceiveClosed, SilentEOF, EOFMeansDeath, ReportWorker, NextAttempt, StreamAttempts, Exhausted, Drain
  <1>3. ASSUME EmitPlanned \/ UpstreamResponds \/ UpstreamDelta \/ WindowFails \/ NextWindow \/ WindowSucceeds \/ EmitOutcome \/ EmitTerminal, UNCHANGED <<mode, attempt, suppress, wire, wireClosed, broken, poolVars, cancelled, consVars>> PROVE OneSource'
    BY <1>1, <1>3 DEF EmitPlanned, NeedsPartials, Offer, Send, Room, UpstreamResponds, UpstreamDelta, WindowFails, NextWindow, ResetAtBoundary, WindowSucceeds, EmitOutcome, EmitTerminal
  <1>4. ASSUME AttemptContextDone, AbortOrchestration, UNCHANGED <<mode, attempt, suppress, wire, wireClosed, broken, poolVars, cancelled, consVars>> PROVE OneSource'
    BY <1>1, <1>4 DEF AbortOrchestration
  <1>5. ASSUME Forward PROVE OneSource'
    <2>1. pc = "send" /\ cur \in Frames /\ Consume(cur) /\ Streaming /\ final = None
      BY <1>5, Taken DEF Forward, Streaming, Places
    <2>2. /\ First = 0 /\ At(0) = cur /\ 0 \in First..Last /\ Last \in Nat
      BY <1>5, Taken, Numbered
    <2>3. cur.attempt = attempt /\ cur.window \in 1..MaxWindows
      BY <2>1, <2>2 DEF Sources, Frames
    <2>4. CASE mode = "call"
      <3>1. raw' = <<>>
        BY <2>1, <2>4, Consumed DEF Places
      <3> QED
        BY <2>1, <3>1, Consumed DEF OneSource
    <2>5. CASE mode = "stream" /\ cons # "reading"
      BY <2>1, <2>5, Consumed DEF OneSource
    <2>6. CASE mode = "stream" /\ cons = "reading"
      <3>1. CASE ~ IsPartial(cur) /\ cur.kind # "final"
        <4>1. final' = final /\ \A m \in 1..Len(raw') : m \in 1..Len(raw) /\ raw'[m] = raw[m]
          BY <2>1, <3>1, Consumed
        <4> QED
          BY <4>1 DEF OneSource
      <3>2. CASE IsPartial(cur) \/ cur.kind = "final"
        <4>1. cur.kind \notin {"planned", "error", "infra", "cancel"}
          BY <3>2 DEF IsPartial
        <4>2. ASSUME NEW m \in 1..Len(raw), ~ cur.reset
              PROVE  raw[m].attempt = cur.attempt /\ raw[m].window = cur.window
          BY <2>1, <2>6, <4>1, <4>2, OneWindow
        <4>3. \A m \in 1..Len(raw') : raw'[m].attempt = cur.attempt /\ raw'[m].window = cur.window
          <5>1. TAKE m \in 1..Len(raw')
          <5>2. raw'[m] = cur \/ (m \in 1..Len(raw) /\ raw'[m] = raw[m] /\ ~ cur.reset)
            BY <2>1, <2>6, <4>1, Consumed
          <5> QED
            BY <4>2, <5>2
        <4>4. final' = None \/ final' = cur
          BY <2>1, Consumed
        <4> QED
          BY <4>3, <4>4 DEF OneSource
      <3> QED
        BY <3>1, <3>2
    <2> QED
      BY <2>4, <2>5, <2>6 DEF TypeOK, WorkerTypeOK
  <1>6. ASSUME SendStreamError PROVE OneSource'
    <2>1. PICK e \in Frames : e = Frame("error", 0, FALSE) /\ e.kind = "error" /\ e.reset = FALSE
      BY Emissions DEF Kinds
    <2>2. Consume(e) \/ UNCHANGED consVars
      BY <1>6, <2>1 DEF SendStreamError
    <2>3. /\ final' = final
          /\ \A m \in 1..Len(raw') : m \in 1..Len(raw) /\ raw'[m] = raw[m]
      BY <2>1, <2>2, Consumed DEF IsPartial
    <2> QED
      BY <2>3 DEF OneSource
  <1>7. CASE UNCHANGED vars
    BY <1>1, <1>7 DEF vars
  <1> QED
    BY <1>2, <1>3, <1>4, <1>5, <1>6, <1>7
       DEF Next, WorkerStep, OrchestratorStep, WorkerAborts, Transport, PoolStep

\* No partial is of a window that has not begun.
LEMMA NoneAhead ==
  ASSUME TypeOK, Places, Sources, Streaming, mode = "stream", ~ wireClosed
  PROVE  /\ \A i \in First..Last : IsPartial(At(i)) => At(i).window <= window
         /\ cons = "reading" /\ Fresh => \A m \in 1..Len(raw) : raw[m].window <= window
  <1>1. ASSUME NEW i \in First..Last, IsPartial(At(i)) PROVE At(i).window <= window
    <2>1. PICK w \in 1..MaxWindows : w = At(i).window
      BY Numbered DEF Frames
    <2>2. Behind(w, i + 1)
      BY <1>1, <2>1 DEF Sources
    <2> QED
      BY <2>1, <2>2 DEF Behind
  <1>2. ASSUME cons = "reading", Fresh, NEW m \in 1..Len(raw) PROVE raw[m].window <= window
    <2>1. PICK w \in 1..MaxWindows : w = raw[m].window
      <3>1. raw[m] \in Frames
        BY DEF TypeOK
      <3> QED
        BY <3>1 DEF Frames
    <2>2. PICK i \in 0..1 : First = i
      BY DEF First
    <2>3. Behind(w, i)
      BY <1>2, <2>1, <2>2 DEF Sources
    <2> QED
      BY <2>1, <2>3 DEF Behind
  <1> QED
    BY <1>1, <1>2

\* The orchestrator numbers the partials of a window, and no queue overtakes another.
LEMMA OrderedStep ==
  ASSUME TypeOK, Places, Sources, Ordered, [Next]_vars
  PROVE  Ordered'
  <1> USE OrchestratorAssumption, CallStreamAssumption DEF workerVars, poolVars, consVars
  <1>1. /\ First \in {0, 1} /\ Last \in Nat /\ window \in Nat /\ delta \in Nat
        /\ \A i \in First..Last : i \in Nat /\ At(i).n \in Nat /\ At(i).window \in Nat
        /\ \A m \in 1..Len(raw) : raw[m] \in Frames /\ raw[m].n \in Nat /\ raw[m].window \in Nat
    <2>1. \A i \in First..Last : i \in Nat /\ At(i) \in Frames
      BY Numbered
    <2>2. \A m \in 1..Len(raw) : raw[m] \in Frames
      BY DEF TypeOK
    <2>3. \A g \in Frames : g.n \in Nat /\ g.window \in Nat
      BY DEF Frames
    <2> QED
      BY <2>1, <2>2, <2>3, Numbered DEF TypeOK, WorkerTypeOK
  <1>2. ASSUME UNCHANGED <<mode, pc, cur, wire, wireClosed, out, window, delta, raw, cons, needsReset, injectedReset>> PROVE Ordered'
    BY <1>2 DEF Ordered, First, Last, At, Streaming, IsPartial, Fresh
  <1>3. ASSUME ~ Streaming' PROVE Ordered'
    BY <1>3 DEF Ordered
  <1>4. ASSUME NEW f \in Frames, f.window = window, Offer(f) \/ Send(f) \/ UNCHANGED out,
               mode = "stream" =>
                   \/ window' = window /\ delta' = delta /\ ~ IsPartial(f)
                   \/ window' = window /\ delta' = delta + 1 /\ f.n = delta + 1
                   \/ window' = window + 1 /\ ~ IsPartial(f),
               UNCHANGED <<mode, wire, wireClosed, pc, cur, raw, cons, needsReset, injectedReset>>
        PROVE  Ordered'
    <2>1. SUFFICES ASSUME Streaming, mode = "stream" PROVE Ordered'
      BY <1>4 DEF Ordered, Streaming
    <2>2. First' = First /\ \A i \in First..Last : At(i)' = At(i) /\ (IsPartial(At(i))' <=> IsPartial(At(i)))
      BY <1>4, Queued DEF IsPartial
    <2>3. \A i \in First'..Last' : \/ i \in First..Last
                                   \/ i = Last + 1 /\ At(i)' = f /\ ~ wireClosed /\ (IsPartial(At(i))' <=> IsPartial(f))
      BY <1>1, <1>4, <2>2, Queued DEF IsPartial
    <2>4. IsPartial(f) => window' = window /\ delta' = delta + 1 /\ f.n = delta + 1
      BY <1>4, <2>1
    <2>5. ~ wireClosed => \A i \in First..Last : IsPartial(At(i)) =>
              At(i).window <= window /\ (At(i).window = window => At(i).n <= delta)
      BY <2>1, NoneAhead DEF Ordered
    <2>6. ~ wireClosed /\ cons = "reading" /\ Fresh => \A m \in 1..Len(raw) :
              raw[m].window <= window /\ (raw[m].window = window => raw[m].n <= delta)
      BY <2>1, NoneAhead DEF Ordered
    <2>7. ASSUME NEW i \in First'..Last', NEW j \in First'..Last', i < j,
                 IsPartial(At(i))', IsPartial(At(j))', At(i)'.window = At(j)'.window
          PROVE  At(i)'.n < At(j)'.n
      <3>1. CASE j \in First..Last
        <4>1. i \in First..Last
          BY <1>1, <2>2, <2>7, <3>1
        <4> QED
          BY <2>1, <2>2, <2>7, <3>1, <4>1 DEF Ordered
      <3>2. CASE j = Last + 1 /\ At(j)' = f /\ ~ wireClosed /\ IsPartial(f)
        <4>1. i \in First..Last
          BY <1>1, <2>2, <2>3, <2>7, <3>2
        <4> QED
          BY <1>1, <1>4, <2>2, <2>4, <2>5, <2>7, <3>2, <4>1
      <3> QED
        BY <2>3, <2>7, <3>1, <3>2
    <2>8. ASSUME ~ wireClosed', NEW i \in First'..Last', IsPartial(At(i))', At(i)'.window = window'
          PROVE  At(i)'.n <= delta'
      <3>1. CASE i \in First..Last
        <4>1. At(i).window <= window /\ (At(i).window = window => At(i).n <= delta)
          BY <1>4, <2>2, <2>5, <2>8, <3>1
        <4>2. window' = window /\ (delta' = delta \/ delta' = delta + 1)
          BY <1>1, <1>4, <2>1, <2>2, <2>8, <3>1, <4>1
        <4> QED
          BY <1>1, <2>2, <2>8, <3>1, <4>1, <4>2
      <3>2. CASE i = Last + 1 /\ At(i)' = f /\ IsPartial(f)
        BY <1>1, <2>4, <3>2
      <3> QED
        BY <2>3, <2>8, <3>1, <3>2
    <2>9. ASSUME cons = "reading", Fresh, NEW m \in 1..Len(raw), NEW i \in First'..Last',
                 IsPartial(At(i))', At(i)'.window = raw[m].window
          PROVE  raw[m].n < At(i)'.n
      <3>1. CASE i \in First..Last
        BY <2>1, <2>2, <2>9, <3>1 DEF Ordered
      <3>2. CASE i = Last + 1 /\ At(i)' = f /\ ~ wireClosed /\ IsPartial(f)
        BY <1>1, <1>4, <2>4, <2>6, <2>9, <3>2
      <3> QED
        BY <2>3, <2>9, <3>1, <3>2
    <2>10. ASSUME cons = "reading", Fresh, NEW m \in 1..Len(raw), ~ wireClosed, raw[m].window = window'
           PROVE  raw[m].n <= delta'
      <3>1. raw[m].window <= window /\ (raw[m].window = window => raw[m].n <= delta)
        BY <2>6, <2>10
      <3>2. window' = window /\ (delta' = delta \/ delta' = delta + 1)
        BY <1>1, <1>4, <2>1, <2>10, <3>1
      <3> QED
        BY <1>1, <2>10, <3>1, <3>2
    <2>11. (Fresh' <=> Fresh) /\ UNCHANGED <<raw, cons, wireClosed>>
      BY <1>4 DEF Fresh
    <2> QED
      BY <2>7, <2>8, <2>9, <2>10, <2>11 DEF Ordered
  <1>5. ASSUME NEW d \in {0, 1}, Streaming, UNCHANGED <<mode, raw, cons, window, delta>>,
               wireClosed => wireClosed', Fresh' => Fresh,
               \A i \in First'..Last' : /\ i \in Nat
                                        /\ IsPartial(At(i))' => /\ i + d \in First..Last /\ IsPartial(At(i + d))
                                                                /\ At(i)'.window = At(i + d).window
                                                                /\ At(i)'.n = At(i + d).n
        PROVE  Ordered'
    <2>1. SUFFICES ASSUME mode = "stream" PROVE Ordered'
      BY <1>5 DEF Ordered
    <2>2. ASSUME NEW i \in First'..Last', NEW j \in First'..Last', i < j,
                 IsPartial(At(i))', IsPartial(At(j))', At(i)'.window = At(j)'.window
          PROVE  At(i)'.n < At(j)'.n
      <3>1. i + d < j + d
        BY <1>5, <2>2
      <3> QED
        BY <1>5, <2>1, <2>2, <3>1 DEF Ordered
    <2>3. ASSUME ~ wireClosed', NEW i \in First'..Last', IsPartial(At(i))', At(i)'.window = window
          PROVE  At(i)'.n <= delta
      BY <1>5, <2>1, <2>3 DEF Ordered
    <2>4. ASSUME cons = "reading", Fresh', NEW m \in 1..Len(raw), NEW i \in First'..Last',
                 IsPartial(At(i))', At(i)'.window = raw[m].window
          PROVE  raw[m].n < At(i)'.n
      BY <1>5, <2>1, <2>4 DEF Ordered
    <2>5. ASSUME cons = "reading", Fresh', NEW m \in 1..Len(raw), ~ wireClosed', raw[m].window = window
          PROVE  raw[m].n <= delta
      BY <1>5, <2>1, <2>5 DEF Ordered
    <2> QED
      BY <1>5, <2>2, <2>3, <2>4, <2>5 DEF Ordered
  <1>6. ASSUME CallerCancels PROVE Ordered'
    BY <1>2, <1>6 DEF CallerCancels
  <1>7. ASSUME WindowFails \/ WindowSucceeds, UNCHANGED <<mode, attempt, suppress, wire, wireClosed, broken, poolVars, cancelled, consVars>> PROVE Ordered'
    BY <1>2, <1>7 DEF WindowFails, WindowSucceeds
  <1>8. ASSUME AttemptContextDone, AbortOrchestration, UNCHANGED <<mode, attempt, suppress, wire, wireClosed, broken, poolVars, cancelled, consVars>> PROVE Ordered'
    BY <1>2, <1>8 DEF AbortOrchestration
  <1>9. ASSUME ClientGone PROVE Ordered'
    <2>1. /\ UNCHANGED <<mode, pc, cur, wire, wireClosed, out, window, delta, raw, needsReset, injectedReset>>
          /\ cons' # "reading"
      BY <1>9 DEF ClientGone
    <2> QED
      BY <2>1 DEF Ordered, First, Last, At, Streaming, IsPartial
  <1>10. ASSUME EmitPlanned \/ UpstreamResponds \/ EmitOutcome \/ EmitTerminal, UNCHANGED <<mode, attempt, suppress, wire, wireClosed, broken, poolVars, cancelled, consVars>> PROVE Ordered'
    <2>1. PICK f \in Frames : f.kind # "stream" /\ f.window = window /\ (Offer(f) \/ Send(f) \/ UNCHANGED out)
      BY <1>10, Emissions DEF EmitPlanned, UpstreamResponds, EmitOutcome, EmitTerminal, Kinds
    <2>2. ~ IsPartial(f)
      BY <2>1 DEF IsPartial
    <2>3. UNCHANGED <<window, delta, mode, wire, wireClosed, pc, cur, raw, cons, needsReset, injectedReset>>
      BY <1>10 DEF EmitPlanned, UpstreamResponds, EmitOutcome, EmitTerminal
    <2> QED
      BY <1>4, <2>1, <2>2, <2>3
  <1>11. ASSUME UpstreamDelta, UNCHANGED <<mode, attempt, suppress, wire, wireClosed, broken, poolVars, cancelled, consVars>> PROVE Ordered'
    <2>1. PICK f \in Frames : f = Frame("stream", delta + 1, FALSE) /\ f.window = window
      BY <1>11, Emissions DEF UpstreamDelta
    <2>2. f.n = delta + 1
      BY <2>1 DEF Frame
    <2>3. Offer(f) /\ window' = window /\ delta' = delta + 1
      BY <1>11, <2>1 DEF UpstreamDelta
    <2>4. UNCHANGED <<mode, wire, wireClosed, pc, cur, raw, cons, needsReset, injectedReset>>
      BY <1>11 DEF UpstreamDelta
    <2> QED
      BY <1>4, <2>1, <2>2, <2>3, <2>4
  <1>12. ASSUME NextWindow, UNCHANGED <<mode, attempt, suppress, wire, wireClosed, broken, poolVars, cancelled, consVars>> PROVE Ordered'
    <2>1. PICK f \in Frames : f = Frame("stream", 0, TRUE) /\ f.n = 0 /\ f.window = window
      BY Emissions
    <2>2. ~ IsPartial(f)
      BY <2>1 DEF IsPartial
    <2>3. (Send(f) \/ UNCHANGED out) /\ window' = window + 1
      BY <1>12, <2>1 DEF NextWindow
    <2>4. UNCHANGED <<mode, wire, wireClosed, pc, cur, raw, cons, needsReset, injectedReset>>
      BY <1>12 DEF NextWindow
    <2> QED
      BY <1>4, <2>1, <2>2, <2>3, <2>4
  <1>13. ASSUME Bridge PROVE Ordered'
    <2>1. UNCHANGED <<mode, pc, cur, raw, cons, needsReset, injectedReset, wireClosed, window, delta>>
      BY <1>13 DEF Bridge
    <2>2. First' = First /\ Last' = Last /\ \A i \in First..Last : At(i)' = At(i)
      BY <1>13, Bridged
    <2>3. \A i \in First'..Last' : /\ i \in Nat
                                   /\ IsPartial(At(i))' => /\ i + 0 \in First..Last /\ IsPartial(At(i + 0))
                                                           /\ At(i)'.window = At(i + 0).window
                                                           /\ At(i)'.n = At(i + 0).n
      BY <1>1, <2>2 DEF IsPartial
    <2>4. (Fresh' => Fresh) /\ (Streaming' => Streaming)
      BY <2>1 DEF Fresh, Streaming
    <2> QED
      BY <1>3, <1>5, <2>1, <2>3, <2>4
  <1>14. ASSUME BridgeEnds \/ WorkerDies PROVE Ordered'
    <2>1. UNCHANGED <<mode, pc, cur, raw, cons, needsReset, injectedReset, window, delta>> /\ wireClosed'
      BY <1>14 DEF BridgeEnds, WorkerDies
    <2>2. /\ First' = First /\ Len(wire) \in Nat /\ Len(wire) <= Last
          /\ Last' \in {Len(wire), Len(wire) + 1} /\ \A i \in First..Len(wire) : At(i)' = At(i)
          /\ \A i \in First'..Last' : i > Len(wire) => At(i)'.kind \in {"infra", "cancel"}
      BY <1>14, Cut, Numbered
    <2>3. \A i \in First'..Last' : /\ i \in Nat
                                   /\ IsPartial(At(i))' => /\ i + 0 \in First..Last /\ IsPartial(At(i + 0))
                                                           /\ At(i)'.window = At(i + 0).window
                                                           /\ At(i)'.n = At(i + 0).n
      <3> SUFFICES ASSUME NEW i \in First'..Last'
                   PROVE  /\ i \in Nat
                          /\ IsPartial(At(i))' => /\ i + 0 \in First..Last /\ IsPartial(At(i + 0))
                                                  /\ At(i)'.window = At(i + 0).window
                                                  /\ At(i)'.n = At(i + 0).n
        OBVIOUS
      <3>1. i \in Nat /\ i + 0 = i
        BY <1>1, <2>2
      <3>2. CASE i > Len(wire)
        BY <2>2, <3>1, <3>2 DEF IsPartial
      <3>3. CASE ~ (i > Len(wire))
        <4>1. i \in First..Len(wire) /\ i \in First..Last
          BY <1>1, <2>2, <3>1, <3>3
        <4>2. At(i)' = At(i)
          BY <2>2, <4>1
        <4> QED
          BY <3>1, <4>1, <4>2 DEF IsPartial
      <3> QED
        BY <3>2, <3>3
    <2>4. (Fresh' => Fresh) /\ (Streaming' => Streaming)
      BY <2>1 DEF Fresh, Streaming
    <2> QED
      BY <1>3, <1>5, <2>1, <2>3, <2>4
  <1>15. ASSUME GetWorkerForRetry \/ SetupRefused \/ SetupFails \/ SetupCancelled \/ StreamCancelled \/ ReceiveClosed \/ SilentEOF \/ ReportWorker \/ NextAttempt \/ Drain \/ SendStreamError PROVE Ordered'
    BY <1>3, <1>15 DEF GetWorkerForRetry, SetupRefused, SetupFails, SetupCancelled, StreamCancelled, ReceiveClosed, SilentEOF, ReportWorker, NextAttempt, Exhausted, Drain, SendStreamError, Streaming
  <1>16. ASSUME OpenStream PROVE Ordered'
    <2>1. /\ Last' = 0 /\ First' = 1 /\ pc' = "recv" /\ needsReset' = sentAnyResults /\ injectedReset' = FALSE
          /\ UNCHANGED raw
      BY <1>16 DEF OpenStream, StartWorker, First, Last
    <2>2. Fresh' => Len(raw) = 0
      BY <2>1 DEF Fresh, Sources, TypeOK
    <2>3. First'..Last' = {} /\ (Fresh' => 1..Len(raw') = {})
      BY <2>1, <2>2
    <2> QED
      BY <2>3 DEF Ordered
  <1>17. ASSUME Receive PROVE Ordered'
    <2>1. pc = "recv" /\ Streaming /\ UNCHANGED <<mode, wireClosed, window, delta, raw, cons, needsReset, suppress>>
      BY <1>17 DEF Receive, Streaming
    <2>2. First = 1 /\ Last \in Nat \ {0} /\ Last' = Last - 1 /\ \A i \in 1..Last' : At(i)' = At(i + 1)
      BY <1>17, ReceiveRow
    <2>3. CASE ~ Streaming'
      BY <1>3, <2>3
    <2>4. CASE pc' = "send"
      <3>1. First' = 0 /\ \A i : i = 0 => At(i)' = cur'
        BY <2>4 DEF First, At
      <3>2. /\ cur'.kind = At(1).kind /\ cur'.window = At(1).window /\ cur'.n = At(1).n
            /\ cur'.reset = (At(1).reset \/ InjectReset(At(1)))
            /\ injectedReset' = (injectedReset \/ InjectReset(At(1)))
        BY <1>17, <2>4, ReceiveRow
      <3>3. \A i \in First'..Last' : /\ i \in Nat
                                     /\ IsPartial(At(i))' => /\ i + 1 \in First..Last /\ IsPartial(At(i + 1))
                                                             /\ At(i)'.window = At(i + 1).window
                                                             /\ At(i)'.n = At(i + 1).n
        <4>1. TAKE i \in First'..Last'
        <4>2. CASE i = 0
          <5>1. At(i)' = cur' /\ i + 1 = 1 /\ 1 \in First..Last
            BY <2>2, <3>1, <4>2
          <5> QED
            BY <3>2, <4>2, <5>1 DEF IsPartial
        <4>3. CASE i \in 1..Last'
          BY <2>2, <4>3 DEF IsPartial
        <4> QED
          BY <2>2, <3>1, <4>2, <4>3
      <3>4. Fresh' => Fresh
        BY <2>1, <2>4, <3>2 DEF Fresh
      <3> QED
        BY <1>5, <2>1, <3>3, <3>4
    <2>5. CASE pc' = "recv"
      <3>1. First' = 1 /\ injectedReset' = injectedReset
        BY <1>17, <2>5, ReceiveRow DEF First
      <3>2. \A i \in First'..Last' : /\ i \in Nat
                                     /\ IsPartial(At(i))' => /\ i + 1 \in First..Last /\ IsPartial(At(i + 1))
                                                             /\ At(i)'.window = At(i + 1).window
                                                             /\ At(i)'.n = At(i + 1).n
        BY <2>2, <3>1 DEF IsPartial
      <3>3. Fresh' => Fresh
        BY <2>1, <2>5, <3>1 DEF Fresh
      <3> QED
        BY <1>5, <2>1, <3>2, <3>3
    <2> QED
      BY <2>3, <2>4, <2>5 DEF Streaming
  <1>18. ASSUME ReceiveFailure PROVE Ordered'
    BY <1>18 DEF ReceiveFailure, Ordered, Streaming
  <1>19. ASSUME Forward PROVE Ordered'
    <2>1. pc = "send" /\ cur \in Frames /\ Consume(cur) /\ Streaming
      BY <1>19, Taken DEF Forward, Streaming
    <2>2. UNCHANGED <<mode, wireClosed, window, delta, needsReset, injectedReset>>
      BY <1>19 DEF Forward
    <2>3. /\ First = 0 /\ At(0) = cur /\ 0 \in First..Last /\ First' = 1 /\ Last' = Last
          /\ \A i \in 1..Last : At(i)' = At(i)
      BY <1>19, Taken
    <2>4. \A i \in First'..Last' : i \in First..Last /\ i > 0 /\ At(i)' = At(i) /\ (IsPartial(At(i))' <=> IsPartial(At(i)))
      BY <1>1, <2>3 DEF IsPartial
    <2>5. SUFFICES ASSUME Streaming', mode = "stream" PROVE Ordered'
      BY <2>2 DEF Ordered
    <2>6. ASSUME cons' = "reading", Fresh', NEW m \in 1..Len(raw')
          PROVE  /\ \A i \in First'..Last' :
                        IsPartial(At(i))' /\ At(i)'.window = raw'[m].window => raw'[m].n < At(i)'.n
                 /\ ~ wireClosed' /\ raw'[m].window = window' => raw'[m].n <= delta'
      <3>1. cons = "reading" /\ cur.kind # "error"
        BY <1>19, <2>1, <2>5, <2>6, Consumed DEF Forward, Streaming, IsTerminal
      <3>2. CASE raw'[m] = cur /\ IsPartial(cur)
        BY <2>1, <2>2, <2>3, <2>4, <2>5, <3>2 DEF Ordered
      <3>3. CASE m \in 1..Len(raw) /\ raw'[m] = raw[m] /\ ~ cur.reset
        <4>1. Fresh
          BY <2>2, <2>6, <3>3 DEF Fresh
        <4> QED
          BY <2>1, <2>2, <2>4, <2>5, <3>1, <3>3, <4>1 DEF Ordered
      <3> QED
        BY <2>1, <2>5, <2>6, <3>1, <3>2, <3>3, Consumed
    <2>7. \A i, j \in First'..Last' :
              i < j /\ IsPartial(At(i))' /\ IsPartial(At(j))' /\ At(i)'.window = At(j)'.window => At(i)'.n < At(j)'.n
      BY <2>1, <2>4, <2>5 DEF Ordered
    <2>8. ~ wireClosed' => \A i \in First'..Last' : IsPartial(At(i))' /\ At(i)'.window = window' => At(i)'.n <= delta'
      BY <2>1, <2>2, <2>4, <2>5 DEF Ordered
    <2> QED
      BY <2>6, <2>7, <2>8 DEF Ordered
  <1>20. CASE UNCHANGED vars
    BY <1>2, <1>20 DEF vars
  <1> QED
    BY <1>6, <1>7, <1>8, <1>9, <1>10, <1>11, <1>12, <1>13, <1>14, <1>15, <1>16, <1>17, <1>18, <1>19, <1>20
       DEF Next, WorkerStep, OrchestratorStep, WorkerAborts, Transport, PoolStep

\* An attempt that follows delivered results owes a reset, and pays it once.
LEMMA SupersededStep ==
  ASSUME TypeOK, Places, Sources, Superseded, [Next]_vars
  PROVE  Superseded'
  <1> USE OrchestratorAssumption, CallStreamAssumption DEF workerVars, poolVars, consVars
  <1>1. /\ First \in {0, 1} /\ Last \in Nat /\ attempt \in Nat /\ (\A i \in First..Last : i \in Nat)
        /\ \A m \in 1..Len(raw) : raw[m].attempt \in Nat
    <2>1. \A m \in 1..Len(raw) : raw[m] \in Frames
      BY DEF TypeOK
    <2>2. \A g \in Frames : g.attempt \in Nat
      BY DEF Frames
    <2> QED
      BY <2>1, <2>2, Numbered DEF TypeOK, WorkerTypeOK
  <1>2. ASSUME UNCHANGED <<pc, cur, wire, wireClosed, out, raw, attempt, needsReset, injectedReset>> PROVE Superseded'
    BY <1>2 DEF Superseded, AllOlder, First, Last, At, Streaming, IsMarker, IsFailure
  <1>3. ASSUME UNCHANGED <<raw, attempt>>, pc' \notin {"get", "call", "recv", "send"} PROVE Superseded'
    BY <1>3 DEF Superseded, AllOlder, Streaming
  <1>4. ASSUME UNCHANGED <<raw, attempt, pc, cur, needsReset, injectedReset>>, First' = First,
               Streaming => \A i \in First'..Last' : At(i)'.reset /\ i > 0 =>
                   IsMarker(At(i))' \/ IsFailure(At(i))' \/ (i \in First..Last /\ At(i)' = At(i))
        PROVE  Superseded'
    <2>1. Streaming => \A i \in First'..Last' : i > 0 /\ At(i)'.reset => IsMarker(At(i))' \/ IsFailure(At(i))'
      BY <1>4 DEF Superseded, IsMarker, IsFailure
    <2> QED
      BY <1>4, <2>1 DEF Superseded, AllOlder, Streaming, IsMarker
  <1>5. ASSUME NEW f \in Frames, Offer(f) \/ Send(f) \/ UNCHANGED out, f.reset => IsMarker(f),
               UNCHANGED <<wire, wireClosed, pc, cur, raw, attempt, needsReset, injectedReset>>
        PROVE  Superseded'
    <2>1. First' = First /\ \A i \in First..Last : At(i)' = At(i)
      BY <1>5, Queued
    <2>2. \A i \in First'..Last' : i \in First..Last \/ At(i)' = f
      BY <1>1, <1>5, <2>1, Queued
    <2>3. \A i \in First'..Last' : At(i)'.reset /\ i > 0 =>
              IsMarker(At(i))' \/ IsFailure(At(i))' \/ (i \in First..Last /\ At(i)' = At(i))
      BY <1>5, <2>1, <2>2 DEF IsMarker
    <2> QED
      BY <1>4, <1>5, <2>1, <2>3
  <1>6. ASSUME CallerCancels \/ ClientGone PROVE Superseded'
    BY <1>2, <1>6 DEF CallerCancels, ClientGone
  <1>7. ASSUME WindowFails \/ WindowSucceeds, UNCHANGED <<mode, attempt, suppress, wire, wireClosed, broken, poolVars, cancelled, consVars>> PROVE Superseded'
    BY <1>2, <1>7 DEF WindowFails, WindowSucceeds
  <1>8. ASSUME AttemptContextDone, AbortOrchestration, UNCHANGED <<mode, attempt, suppress, wire, wireClosed, broken, poolVars, cancelled, consVars>> PROVE Superseded'
    BY <1>2, <1>8 DEF AbortOrchestration
  <1>9. ASSUME EmitPlanned \/ UpstreamResponds \/ EmitOutcome \/ EmitTerminal, UNCHANGED <<mode, attempt, suppress, wire, wireClosed, broken, poolVars, cancelled, consVars>> PROVE Superseded'
    <2>1. PICK f \in Frames : f.reset = FALSE /\ (Offer(f) \/ Send(f) \/ UNCHANGED out)
      BY <1>9, Emissions DEF EmitPlanned, UpstreamResponds, EmitOutcome, EmitTerminal, Kinds
    <2>2. UNCHANGED <<wire, wireClosed, pc, cur, raw, attempt, needsReset, injectedReset>>
      BY <1>9
    <2> QED
      BY <1>5, <2>1, <2>2
  <1>10. ASSUME UpstreamDelta, UNCHANGED <<mode, attempt, suppress, wire, wireClosed, broken, poolVars, cancelled, consVars>> PROVE Superseded'
    <2>1. PICK f \in Frames : f.reset = FALSE /\ Offer(f)
      BY <1>10, Emissions DEF UpstreamDelta
    <2> QED
      BY <1>5, <1>10, <2>1
  <1>11. ASSUME NextWindow, UNCHANGED <<mode, attempt, suppress, wire, wireClosed, broken, poolVars, cancelled, consVars>> PROVE Superseded'
    <2>1. PICK f \in Frames : f = Frame("stream", 0, TRUE) /\ f.kind = "stream" /\ f.n = 0 /\ f.reset = TRUE
      BY Emissions
    <2>2. IsMarker(f) /\ (Send(f) \/ UNCHANGED out)
      BY <1>11, <2>1 DEF NextWindow, IsMarker
    <2> QED
      BY <1>5, <1>11, <2>1, <2>2
  <1>12. ASSUME Bridge PROVE Superseded'
    <2>1. First' = First /\ Last' = Last /\ \A i \in First..Last : At(i)' = At(i)
      BY <1>12, Bridged
    <2> QED
      BY <1>4, <1>12, <2>1 DEF Bridge
  <1>13. ASSUME BridgeEnds \/ WorkerDies PROVE Superseded'
    <2>1. UNCHANGED <<raw, attempt, pc, cur, needsReset, injectedReset>>
      BY <1>13 DEF BridgeEnds, WorkerDies
    <2>2. /\ First' = First /\ Len(wire) \in Nat /\ Len(wire) <= Last
          /\ Last' \in {Len(wire), Len(wire) + 1} /\ \A i \in First..Len(wire) : At(i)' = At(i)
          /\ \A i \in First'..Last' : i > Len(wire) => At(i)'.kind \in {"infra", "cancel"}
      BY <1>13, Cut, Numbered
    <2>3. \A i \in First'..Last' : IsFailure(At(i))' \/ (i \in First..Last /\ At(i)' = At(i))
      BY <1>1, <2>2 DEF IsFailure
    <2> QED
      BY <1>4, <2>1, <2>2, <2>3
  <1>14. ASSUME GetWorkerForRetry PROVE Superseded'
    BY <1>14 DEF GetWorkerForRetry, Superseded, AllOlder, Streaming
  <1>15. ASSUME SetupRefused \/ SetupFails \/ SetupCancelled \/ StreamCancelled \/ ReceiveClosed \/ SilentEOF \/ ReportWorker \/ Drain PROVE Superseded'
    BY <1>3, <1>15 DEF SetupRefused, SetupFails, SetupCancelled, StreamCancelled, ReceiveClosed, SilentEOF, ReportWorker, Drain
  <1>16. ASSUME NextAttempt PROVE Superseded'
    <2>1. /\ UNCHANGED raw /\ pc' \in {"done", "get", "sendError"}
          /\ attempt' \in {attempt, attempt + 1} /\ (pc' = "get" => attempt' = attempt + 1)
      BY <1>16 DEF NextAttempt, Exhausted
    <2> QED
      BY <1>1, <2>1 DEF Superseded, AllOlder, Streaming
  <1>17. ASSUME OpenStream PROVE Superseded'
    <2>1. /\ Last' = 0 /\ First' = 1 /\ pc = "call" /\ pc' = "recv" /\ UNCHANGED <<raw, attempt>>
      BY <1>17 DEF OpenStream, StartWorker, First, Last
    <2>2. First'..Last' = {}
      BY <2>1
    <2> QED
      BY <2>1, <2>2 DEF Superseded, AllOlder
  <1>18. ASSUME Receive PROVE Superseded'
    <2>1. pc = "recv" /\ Streaming /\ UNCHANGED <<raw, attempt, needsReset>>
      BY <1>18 DEF Receive, Streaming
    <2>2. First = 1 /\ Last \in Nat \ {0} /\ Last' = Last - 1 /\ \A i \in 1..Last' : At(i)' = At(i + 1)
      BY <1>18, ReceiveRow
    <2>3. CASE pc' \notin {"get", "call", "recv", "send"}
      BY <1>3, <2>1, <2>3
    <2>4. CASE pc' \in {"recv", "send"}
      <3>1. \A i \in First'..Last' : i > 0 => At(i)' = At(i + 1) /\ i + 1 \in First..Last /\ i + 1 > 0
        BY <2>2 DEF First
      <3>2. \A i \in First'..Last' : i > 0 /\ At(i)'.reset => IsMarker(At(i))' \/ IsFailure(At(i))'
        BY <2>1, <3>1 DEF Superseded, IsMarker, IsFailure
      <3>3. injectedReset => injectedReset'
        BY <1>18, ReceiveRow
      <3>4. ASSUME pc' = "send", cur'.reset PROVE IsMarker(cur)' \/ AllOlder
        <4>1. /\ cur'.kind = At(1).kind /\ cur'.n = At(1).n /\ At(1).kind \notin {"infra", "cancel"}
              /\ cur'.reset = (At(1).reset \/ InjectReset(At(1)))
          BY <1>18, <3>4, ReceiveRow
        <4>2. CASE At(1).reset
          <5>1. IsMarker(At(1))
            BY <2>1, <2>2, <4>1, <4>2 DEF Superseded, IsFailure
          <5> QED
            BY <3>4, <4>1, <5>1 DEF IsMarker
        <4>3. CASE InjectReset(At(1))
          BY <2>1, <4>3 DEF InjectReset, Superseded
        <4> QED
          BY <3>4, <4>1, <4>2, <4>3
      <3> QED
        BY <2>1, <2>4, <3>2, <3>3, <3>4 DEF Superseded, AllOlder
    <2> QED
      BY <1>18, <2>3, <2>4, ReceiveRow
  <1>19. ASSUME ReceiveFailure PROVE Superseded'
    BY <1>19, <1>3 DEF ReceiveFailure
  <1>20. ASSUME Forward PROVE Superseded'
    <2>1. pc = "send" /\ cur \in Frames /\ Consume(cur) /\ Streaming /\ pc' \in {"recv", "done"}
      BY <1>20, Taken DEF Forward, Streaming
    <2>2. UNCHANGED <<attempt, needsReset, injectedReset>>
      BY <1>20 DEF Forward
    <2>3. /\ First = 0 /\ At(0) = cur /\ 0 \in First..Last /\ First' = 1 /\ Last' = Last
          /\ \A i \in 1..Last : At(i)' = At(i)
      BY <1>20, Taken
    <2>4. \A i \in First'..Last' : i \in First..Last /\ i > 0 /\ At(i)' = At(i)
      BY <1>1, <2>3
    <2>5. Streaming => \A i \in First'..Last' : i > 0 /\ At(i)'.reset => IsMarker(At(i))' \/ IsFailure(At(i))'
      BY <2>4 DEF Superseded, IsMarker, IsFailure
    <2>6. cur.attempt = attempt
      BY <2>1, <2>3 DEF Sources
    <2>7. \A m \in 1..Len(raw') : \/ raw'[m] = cur /\ cur.kind = "stream"
                                  \/ m \in 1..Len(raw) /\ raw'[m] = raw[m]
      BY <2>1, Consumed DEF IsPartial
    <2>8. \A m \in 1..Len(raw') : raw'[m].attempt <= attempt
      BY <1>1, <2>6, <2>7 DEF Superseded
    <2>9. ASSUME needsReset, ~ injectedReset, NEW m \in 1..Len(raw') PROVE raw'[m].attempt < attempt
      <3>1. cur.kind = "planned" /\ AllOlder
        BY <2>1, <2>9 DEF Sources, Superseded
      <3> QED
        BY <2>7, <3>1 DEF AllOlder
    <2> QED
      BY <2>1, <2>2, <2>5, <2>8, <2>9 DEF Superseded, AllOlder
  <1>21. ASSUME SendStreamError PROVE Superseded'
    <2>1. PICK e \in Frames : e = Frame("error", 0, FALSE) /\ e.kind = "error"
      BY Emissions DEF Kinds
    <2>2. (Consume(e) \/ UNCHANGED consVars) /\ pc' = "done" /\ UNCHANGED attempt
      BY <1>21, <2>1 DEF SendStreamError
    <2>3. \A m \in 1..Len(raw') : m \in 1..Len(raw) /\ raw'[m] = raw[m]
      BY <2>1, <2>2, Consumed DEF IsPartial
    <2> QED
      BY <2>2, <2>3 DEF Superseded, Streaming
  <1>22. CASE UNCHANGED vars
    BY <1>2, <1>22 DEF vars
  <1> QED
    BY <1>6, <1>7, <1>8, <1>9, <1>10, <1>11, <1>12, <1>13, <1>14, <1>15, <1>16, <1>17, <1>18, <1>19, <1>20, <1>21, <1>22
       DEF Next, WorkerStep, OrchestratorStep, WorkerAborts, Transport, PoolStep

----------------------------------------------------------------------------
\* A request starts with nothing under way and nothing delivered.
LEMMA CallStreamStarts ==
  ASSUME Init
  PROVE  CallStreamInv
  <1> USE OrchestratorAssumption, CallStreamAssumption
  <1>1. TypeOK
    <2>1. WorkerTypeOK
      <3>1. out = <<>> /\ Len(out) = 0 /\ out \in Seq(Frames)
        BY DEF Init, WorkerInit
      <3>2. 1 \in 1..MaxAttempts /\ 1 \in 1..MaxWindows /\ 0 \in 0..MaxDeltas
        OBVIOUS
      <3>3. /\ mode \in Modes /\ attempt = 1 /\ wpc = "over" /\ window = 1 /\ delta = 0
            /\ connected = FALSE /\ heartbeatSent = FALSE /\ sawStreamFrame = FALSE
            /\ outClosed = FALSE /\ progress = FALSE
        BY DEF Init, WorkerInit
      <3>4. 0 <= OutCap
        OBVIOUS
      <3> QED
        BY <3>1, <3>2, <3>3, <3>4 DEF WorkerTypeOK
    <2>2. wire \in Seq(Frames) /\ Len(wire) = 0 /\ raw \in Seq(Frames)
      BY DEF Init
    <2>3. suppress \in BOOLEAN
      BY DEF Init
    <2>4. /\ wireClosed = TRUE /\ broken = {} /\ pc = "call" /\ cur = None /\ needsReset = FALSE
          /\ injectedReset = FALSE /\ sentAnyResults = FALSE /\ gotFirstByte = FALSE /\ restarted = {}
          /\ drain = "none" /\ cancelled = FALSE
      BY DEF Init
    <2>5. cons = "reading" /\ final = None /\ terminals = 0 /\ planned = None /\ outcome = None
      BY DEF Init
    <2>6. 0 <= WireCap /\ 0 \in 0..1
      OBVIOUS
    <2> QED
      BY <2>1, <2>2, <2>3, <2>4, <2>5, <2>6 DEF TypeOK
  <1>2. /\ pc = "call" /\ cur = None /\ wpc = "over" /\ wireClosed = TRUE /\ raw = <<>> /\ terminals = 0
        /\ final = None /\ outcome = None /\ cons = "reading" /\ drain = "none" /\ restarted = {} /\ attempt = 1
        /\ connected = FALSE /\ sawStreamFrame = FALSE /\ needsReset = FALSE /\ injectedReset = FALSE
        /\ sentAnyResults = FALSE /\ outClosed = FALSE
    BY DEF Init, WorkerInit
  <1>3. ~ Streaming
    BY <1>2 DEF Streaming
  <1>4. Places /\ TerminalDelivered /\ RestartJustified /\ Suppressed
    BY <1>2 DEF Places, TerminalDelivered, RestartJustified, Suppressed
  <1>5. Blame /\ EndsWell /\ Progressed
    BY <1>2, <1>3 DEF Blame, EndsWell, Progressed
  <1>6. Paired /\ Sources
    BY <1>2, <1>3 DEF Paired, Sources
  <1>7. OneSource /\ Ordered /\ Superseded
    BY <1>2, <1>3 DEF OneSource, Ordered, Superseded, AllOlder
  <1> QED
    BY <1>1, <1>4, <1>5, <1>6, <1>7 DEF CallStreamInv

\* Every step of the request, its worker, the transport and the caller keeps the invariant.
LEMMA CallStreamStep ==
  ASSUME CallStreamInv, [Next]_vars
  PROVE  CallStreamInv'
  <1>1. /\ TypeOK /\ Places /\ TerminalDelivered /\ Blame /\ RestartJustified /\ EndsWell
        /\ Progressed /\ Suppressed /\ Paired /\ Sources /\ OneSource /\ Ordered /\ Superseded
    BY DEF CallStreamInv
  <1>2. TypeOK' /\ Places' /\ TerminalDelivered'
    BY <1>1, TypeStep, PlacesStep, TerminalDeliveredStep
  <1>3. Blame' /\ RestartJustified' /\ EndsWell'
    BY <1>1, BlameStep, RestartJustifiedStep, EndsWellStep
  <1>4. Progressed' /\ Suppressed' /\ Paired'
    BY <1>1, ProgressedStep, SuppressedStep, PairedStep
  <1>5. Sources' /\ OneSource'
    BY <1>1, SourcesStep, OneSourceStep
  <1>6. Ordered' /\ Superseded'
    BY <1>1, OrderedStep, SupersededStep
  <1> QED
    BY <1>2, <1>3, <1>4, <1>5, <1>6 DEF CallStreamInv

\* In every reachable state, the invariant holds.
LEMMA CallStreamInvariant == Spec => []CallStreamInv
  <1>1. Init => CallStreamInv
    BY CallStreamStarts
  <1>2. CallStreamInv /\ [Next]_vars => CallStreamInv'
    BY CallStreamStep
  <1> QED
    BY <1>1, <1>2, PTL DEF Spec

----------------------------------------------------------------------------
\* Type correctness, the bounds of the two queues and at most one terminal frame
\* included.
THEOREM CallStreamTypeCorrect == Spec => []TypeOK
  <1>1. CallStreamInv => TypeOK
    BY DEF CallStreamInv
  <1> QED
    BY <1>1, CallStreamInvariant, PTL

\* What a client holds since the last reset comes from one window of one attempt, and
\* so does the final, for any number of attempts, fallback children and partials and
\* any size of the buffers that drop them (pool.go:1343-1344).
THEOREM OneSourceAtATime == Spec => []OneSource
  <1>1. CallStreamInv => OneSource
    BY DEF CallStreamInv
  <1> QED
    BY <1>1, CallStreamInvariant, PTL

\* A caller that stays gets exactly one terminal frame before CallStream returns
\* (pool.go:1476-1734).
THEOREM CallerIsTold == Spec => []TerminalDelivered
  <1>1. CallStreamInv => TerminalDelivered
    BY DEF CallStreamInv
  <1> QED
    BY <1>1, CallStreamInvariant, PTL

\* CallStream and its drain goroutine report a worker only if it died, ended its
\* stream early or sent an error that reads like the transport's; never because a
\* caller went away, however the cancellation races with the end of the stream
\* (pool.go:1672-1706, 1793-1799).
THEOREM OnlyBrokenWorkersReported == Spec => []RestartJustified
  <1>1. CallStreamInv => RestartJustified
    BY DEF CallStreamInv
  <1> QED
    BY <1>1, CallStreamInvariant, PTL

\* Hung detection is given up only for an attempt whose upstream answered or that is
\* over (pool.go:1549-1556).
THEOREM FirstByteMeansProgress == Spec => []FirstByteTruthful
  <1>1. CallStreamInv => FirstByteTruthful
    BY DEF CallStreamInv, Progressed, Streaming, FirstByteTruthful
  <1> QED
    BY <1>1, CallStreamInvariant, PTL

\* Pool.Call returns the planned route and the outcome of one attempt, that of its
\* final (pool.go:1296-1304).
THEOREM MetadataOfOneAttempt == Spec => []MetadataPaired
  <1>1. CallStreamInv => MetadataPaired
    BY DEF CallStreamInv, Places, Paired, MetadataPaired
  <1> QED
    BY <1>1, CallStreamInvariant, PTL

\* With stream retries disabled there is no second attempt and no injected reset
\* (pool.go:1424-1431).
THEOREM ClaimedStreamsNotReplayed == Spec => []NoReplay
  <1>1. CallStreamInv => NoReplay
    BY DEF CallStreamInv, Suppressed, NoReplay
  <1> QED
    BY <1>1, CallStreamInvariant, PTL

----------------------------------------------------------------------------
(* What the reader of a request is promised (ClientView) *)

\* A reader that is served takes a frame as the promise says: it adds a piece of the
\* same window after those it holds, drops what it holds, or is answered.
LEMMA ViewForward ==
  ASSUME CallStreamInv, Forward
  PROVE  [View!ViewNext]_(View!viewVars)
  <1> USE OrchestratorAssumption, CallStreamAssumption
  <1>1. /\ TypeOK /\ Places /\ Sources /\ Ordered /\ Superseded
    BY DEF CallStreamInv
  <1>2. /\ pc = "send" /\ cur \in Frames /\ Consume(cur) /\ UNCHANGED attempt /\ Streaming
        /\ terminals = 0 /\ final = None /\ cons # "returned"
    BY <1>1, Taken DEF Forward, Places, Streaming
  <1>3. First = 0 /\ At(0) = cur /\ 0 \in First..Last
    BY <1>1, Taken
  <1>4. cur.attempt = attempt /\ raw \in Seq(Frames) /\ terminals' = IF IsTerminal(cur) THEN 1 ELSE 0
    BY <1>1, <1>2, <1>3, Consumed DEF Sources, TypeOK
  <1>5. ASSUME cons = "reading", cur.reset, ~ IsMarker(cur) PROVE View!Outdated(cur)
    BY <1>1, <1>2, <1>4, <1>5 DEF Superseded, AllOlder, View!Outdated
  <1>6. CASE mode = "stream" /\ cons = "reading"
    <2>1. /\ raw' = LET kept == IF cur.reset /\ cur.kind # "error" THEN <<>> ELSE raw
                    IN  IF IsPartial(cur) THEN Append(kept, cur) ELSE kept
          /\ final' = IF cur.kind = "final" THEN cur ELSE final
          /\ cons' = cons
      BY <1>2, <1>6 DEF Consume, ConsumeStream, IsPartial
    <2>2. ASSUME ~ cur.reset, cur.kind \notin {"planned", "error", "infra", "cancel"} PROVE View!SameSource(cur)
      BY <1>1, <1>2, <1>6, <2>2, OneWindow DEF View!SameSource
    <2>3. CASE IsPartial(cur)
      <3>1. cur.kind = "stream" /\ ~ IsMarker(cur) /\ terminals' = 0 /\ final' = final
        BY <1>4, <2>1, <2>3 DEF IsPartial, IsMarker, IsTerminal
      <3>2. CASE cur.reset
        <4>1. raw' = <<cur>>
          BY <2>1, <2>3, <3>1, <3>2
        <4>2. raw' # <<>> /\ raw'[Len(raw')] = cur
          BY <4>1
        <4>3. View!Partial
          BY <1>2, <1>4, <1>5, <1>6, <2>1, <3>1, <3>2, <4>1, <4>2 DEF View!Partial
        <4> QED
          BY <4>3 DEF View!ViewNext
      <3>3. CASE ~ cur.reset
        <4>1. raw' = Append(raw, cur)
          BY <2>1, <2>3, <3>3
        <4>2. raw' # <<>> /\ raw'[Len(raw')] = cur
          BY <1>2, <1>4, <4>1
        <4>3. Fresh
          BY <1>1, <1>2, <3>1, <3>3 DEF Fresh, Sources
        <4>4. View!SameSource(cur)
          BY <2>2, <3>1, <3>3
        <4>5. View!Before(cur)
          BY <1>1, <1>2, <1>3, <1>6, <2>3, <4>3, <4>4 DEF Ordered, View!Before, View!SameSource
        <4>6. View!Partial
          BY <1>2, <1>4, <1>6, <2>1, <3>1, <4>1, <4>2, <4>4, <4>5 DEF View!Partial
        <4> QED
          BY <4>6 DEF View!ViewNext
      <3> QED
        BY <3>2, <3>3
    <2>4. CASE cur.kind = "final"
      <3>1. ~ IsPartial(cur) /\ ~ IsMarker(cur) /\ terminals' = 1 /\ final' = cur
        BY <1>4, <2>1, <2>4 DEF IsPartial, IsMarker, IsTerminal
      <3>2. \/ View!SameSource(cur) /\ raw' = raw
            \/ View!Outdated(cur) /\ raw' = <<>>
        BY <1>5, <1>6, <2>1, <2>2, <2>4, <3>1
      <3>3. View!Answer
        BY <1>2, <1>4, <1>6, <3>1, <3>2 DEF View!Answer
      <3> QED
        BY <3>3 DEF View!ViewNext
    <2>5. CASE cur.kind = "error"
      <3>1. View!Close
        BY <1>2, <1>4, <1>6, <2>1, <2>5 DEF View!Close, IsPartial, IsTerminal
      <3> QED
        BY <3>1 DEF View!ViewNext
    <2>6. CASE ~ IsPartial(cur) /\ cur.kind \notin {"final", "error"}
      <3>1. terminals' = 0 /\ final' = final /\ (raw' = raw \/ raw' = <<>>)
        BY <1>4, <2>1, <2>6 DEF IsTerminal
      <3>2. raw' = <<>> => View!TakeBack
        BY <1>2, <1>6, <2>1, <3>1 DEF View!TakeBack
      <3>3. raw' = raw => UNCHANGED View!viewVars
        BY <1>2, <2>1, <3>1 DEF View!viewVars
      <3> QED
        BY <3>1, <3>2, <3>3 DEF View!ViewNext
    <2> QED
      BY <2>3, <2>4, <2>5, <2>6
  <1>7. CASE mode = "stream" /\ cons # "reading"
    BY <1>1, <1>2, <1>7, Consumed DEF View!viewVars
  <1>8. CASE mode = "call"
    <2>1. /\ raw = <<>> /\ raw' = <<>> /\ cons = "reading" /\ cons' = IF IsTerminal(cur) THEN "returned" ELSE cons
          /\ final' = IF cur.kind = "final" THEN cur ELSE final
      BY <1>1, <1>2, <1>8 DEF Consume, ConsumeCall, Places, TypeOK
    <2>2. Len(raw) = 0
      BY <2>1
    <2>3. CASE cur.kind = "final"
      <3>1. View!Answer
        BY <1>2, <1>4, <2>1, <2>2, <2>3 DEF View!Answer, View!SameSource, IsTerminal
      <3> QED
        BY <3>1 DEF View!ViewNext
    <2>4. CASE cur.kind = "error"
      <3>1. View!Close
        BY <1>2, <2>1, <2>4 DEF View!Close, IsTerminal
      <3> QED
        BY <3>1 DEF View!ViewNext
    <2>5. CASE cur.kind \notin {"final", "error"}
      BY <1>2, <1>4, <2>1, <2>5 DEF View!viewVars, IsTerminal
    <2> QED
      BY <2>3, <2>4, <2>5
  <1> QED
    BY <1>1, <1>6, <1>7, <1>8 DEF TypeOK, WorkerTypeOK

\* Every step is one of the promise, or not seen by the reader.
LEMMA ViewStep ==
  ASSUME CallStreamInv, [Next]_vars
  PROVE  [View!ViewNext]_(View!viewVars)
  <1> USE OrchestratorAssumption, CallStreamAssumption DEF workerVars, poolVars, consVars
  <1>1. /\ TypeOK /\ Places
    BY DEF CallStreamInv
  <1>2. ASSUME UNCHANGED <<attempt, raw, final, cons, terminals>> PROVE UNCHANGED View!viewVars
    BY <1>2 DEF View!viewVars
  <1>3. ASSUME CallerCancels \/ Bridge \/ BridgeEnds \/ WorkerDies \/ GetWorkerForRetry \/ OpenStream \/ SetupRefused \/ SetupFails \/ SetupCancelled \/ StreamCancelled \/ Receive \/ ReceiveFailure \/ ReceiveClosed \/ SilentEOF \/ ReportWorker \/ Drain
        PROVE  UNCHANGED View!viewVars
    BY <1>2, <1>3 DEF CallerCancels, Bridge, BridgeEnds, WorkerDies, GetWorkerForRetry, OpenStream, SetupRefused, SetupFails, SetupCancelled, StreamCancelled, Receive, ReceiveFailure, ReceiveClosed, SilentEOF, ReportWorker, Drain
  <1>4. ASSUME WorkerStep \/ WorkerAborts PROVE UNCHANGED View!viewVars
    BY <1>2, <1>4 DEF WorkerStep, WorkerAborts
  <1>5. ASSUME ClientGone PROVE [View!ViewNext]_(View!viewVars)
    <2>1. cons = "reading" /\ cons' = "draining" /\ UNCHANGED <<attempt, raw, final, terminals>>
      BY <1>5 DEF ClientGone
    <2>2. terminals = 0 => View!Close
      BY <2>1 DEF View!Close
    <2>3. terminals # 0 => UNCHANGED View!viewVars
      BY <2>1 DEF View!viewVars
    <2> QED
      BY <2>2, <2>3 DEF View!ViewNext
  <1>6. ASSUME NextAttempt PROVE [View!ViewNext]_(View!viewVars)
    <2>1. pc = "next" /\ UNCHANGED <<raw, final, cons, terminals>> /\ attempt' \in {attempt, attempt + 1}
      BY <1>6 DEF NextAttempt
    <2>2. final = None
      BY <1>1, <2>1 DEF Places
    <2>3. attempt' = attempt + 1 => View!NextRound
      BY <2>1, <2>2 DEF View!NextRound
    <2> QED
      BY <1>2, <2>1, <2>3 DEF View!ViewNext
  <1>7. ASSUME SendStreamError PROVE [View!ViewNext]_(View!viewVars)
    <2>1. PICK e \in Frames : e = Frame("error", 0, FALSE) /\ e.kind = "error" /\ e.reset = FALSE
      BY <1>1, Emissions DEF Kinds
    <2>2. /\ Consume(e) \/ UNCHANGED consVars
          /\ UNCHANGED attempt /\ terminals = 0 /\ cons # "returned"
      BY <1>1, <1>7, <2>1 DEF SendStreamError, Places
    <2>3. CASE UNCHANGED consVars
      BY <1>2, <2>2, <2>3
    <2>4. CASE Consume(e)
      <3>1. IsTerminal(e)
        BY <2>1 DEF IsTerminal
      <3>2. terminals' = terminals + 1
        BY <1>1, <2>4, <3>1, Consumed
      <3>3. (ConsumeStream(e) => UNCHANGED <<raw, final>>) /\ (ConsumeCall(e) => UNCHANGED <<raw, final>>)
        BY <2>1 DEF ConsumeStream, ConsumeCall
      <3>4. terminals' = 1 /\ UNCHANGED <<raw, final>>
        BY <2>2, <2>4, <3>2, <3>3 DEF Consume
      <3>5. cons # "reading" => cons' # "reading"
        BY <1>1, <2>1, <2>4, Consumed DEF TypeOK, WorkerTypeOK
      <3>6. cons = "reading" => View!Close
        BY <2>2, <3>4 DEF View!Close
      <3>7. cons # "reading" => UNCHANGED View!viewVars
        BY <2>2, <3>4, <3>5 DEF View!viewVars
      <3> QED
        BY <3>6, <3>7 DEF View!ViewNext
    <2> QED
      BY <2>2, <2>3, <2>4
  <1>8. CASE UNCHANGED vars
    BY <1>2, <1>8 DEF vars
  <1> QED
    BY <1>3, <1>4, <1>5, <1>6, <1>7, <1>8, ViewForward DEF Next, Transport, PoolStep

\* Pool.CallStream keeps what ClientView promises the reader of a request, for any
\* number of attempts, windows and partials and any size of the buffers: what it holds
\* is a run of one upstream's output in order with nothing twice, an answer belongs to
\* it, and nothing follows the answer or the error (pool.go:1343-1344, 1476-1734).
THEOREM ReaderIsServed == Spec => ImplementsClientView
  <1>1. Init => View!ViewInit
    BY DEF Init, WorkerInit, View!ViewInit
  <1>2. CallStreamInv /\ [Next]_vars => [View!ViewNext]_(View!viewVars)
    BY ViewStep
  <1> QED
    BY <1>1, <1>2, CallStreamInvariant, PTL DEF Spec, ImplementsClientView, View!ViewSpec
=============================================================================
