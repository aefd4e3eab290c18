-------------------------- MODULE StreamBodyProofs --------------------------
(***************************************************************************)
(* For any number of round trips and bytes: one request goes out however   *)
(* many RoundTrips race; and what Read returns is true whenever the        *)
(* deadline fires, the name of the deadline included.  For the latter the  *)
(* invariant follows every window from the read that armed it to the       *)
(* callback that finds it current.                                         *)
(***************************************************************************)
EXTENDS StreamBody, SequenceTheorems, TLAPS

\* Callers of RoundTrip that won the gate and have not returned.
Active(t) == tpc[t] \notin {"enter", "end"}

\* Until one caller wins the gate nothing has happened, the winner is alone, and
\* its place says what went out and which callbacks ran.
GateHeld ==
    /\ body.kind = "legacy" => rpc # "none" /\ \A t \in Trips : tpc[t] = "end"
    /\ ~ used => \A t \in Trips : ~ Active(t)
    /\ ~ used => sockets = 0 /\ callbacks = <<>>
    /\ ~ used /\ body.kind = "exact" => rpc = "none"
    /\ \A t, u \in Trips : Active(t) /\ Active(u) => t = u
    /\ \A t \in Trips : Active(t) => rpc = "none"
    /\ \A t \in Trips : tpc[t] \in {"compare", "context", "claim"} => sockets = 0 /\ callbacks = <<>>
    /\ \A t \in Trips : tpc[t] = "send" => sockets = 0 /\ callbacks = <<"claim">>
    /\ \A t \in Trips : tpc[t] \in {"wrap", "headers"} => sockets = 1 /\ callbacks = <<"claim">>

\* The first-body callback is due: the byte that made sawFirstByte true is not yet
\* with the caller.
FirstBodyDue == first /\ rpc \in {"arm", "callback", "error"}

\* The callbacks that ran, read off the gate and the reading goroutine.
CallbacksRead ==
    /\ sockets \in {0, 1}
    /\ rpc = "none" => callbacks \in {<<>>, <<"claim">>} /\ ~ sawFirst
    /\ body.kind = "legacy" => callbacks = <<>> /\ sockets = 0
    /\ body.kind = "exact" /\ rpc # "none" =>
        /\ sockets = 1
        /\ callbacks = IF sawFirst /\ ~ FirstBodyDue THEN <<"claim", "headers", "firstBody">>
                       ELSE <<"claim", "headers">>
    /\ sockets = 1 => callbacks # <<>>
    /\ first => sawFirst

\* Bytes the connection gave that Read has not returned yet, by where Read stands.
Held == IF rpc \in {"got", "arm", "callback", "error"} THEN 1
        ELSE IF rpc = "stop" THEN got.n ELSE 0

\* What Read knows at each of its steps about the answer of the connection.
AnswerKept ==
    /\ delivered + Held = arrived
    /\ rpc \in {"got", "arm", "callback", "error"} => got.n = 1
    /\ rpc \in {"none", "zero", "sentinel"} => got.n = 0
    /\ rpc \in {"arm", "callback"} => got.err = "nil"
    /\ rpc \in {"error", "stop"} => got.err # "nil"
    /\ got.err \notin Phases
    /\ rpc = "idle" /\ got.n = 1 => got.err \in {"nil", "closed"}
    /\ rpc = "over" /\ got.n = 1 => result = got.err
    /\ result # "nil" => rpc = "over"

\* Where the errors come from: the connection is closed by its owner or by the
\* deadline, and a close by the deadline alone is never returned as it is.
ErrorsTraced ==
    /\ cut # "none" => fired
    /\ conn = "closed" => closer \/ fired
    /\ got.err = "closed" => closer \/ fired
    /\ rpc = "stop" /\ got.err = "closed" => closer
    /\ rpc = "sentinel" => fired
    /\ got.err = "eof" => upstream = "eof"
    /\ result = "closed" => closer
    /\ result = "eof" => got.err = "eof"
    /\ result \in Phases => fired

\* Windows that can still expire, or have expired and not been looked at.
Pending(w) == w \in expired \/ (w = timer /\ timer # NoWindow)

\* What is known of a pending window: an idle one was armed by a read that brought
\* bytes, and while a first-body one is current no byte was delivered, nor is about
\* to be.  After markClosed reads no longer re-arm, and nothing fires.
WindowTraced(w) ==
    /\ w.gen <= gen
    /\ w.of = "idle" => sawFirst
    /\ body.kind = "legacy" => w.of = "idle"
    /\ ~ wdClosed /\ ~ fired /\ w.gen = gen /\ w.of = "firstBody" =>
        delivered = 0 /\ rpc # "callback"

WindowsTraced == \A w \in Windows : Pending(w) => WindowTraced(w)

\* What is known of a cut: which deadline made it, whether it recorded its phase,
\* and what a reader saw of it.
CutTraced ==
    /\ sawFirst => arrived > 0
    /\ rpc \in {"arm", "callback", "error"} => sawFirst
    /\ rpc = "none" => arrived = 0
    /\ phase = "idle" => sawFirst
    /\ fired =>
        /\ cutBy.of = "idle" => sawFirst
        /\ cutBy.of = "firstBody" => body.kind = "exact" /\ cutBy.delivered = 0
    /\ conn = "closed" => closer \/ cut = "done"
    /\ got.err = "closed" => closer \/ cut = "done"
    /\ body.kind = "exact" /\ cut \in {"close", "done"} /\ phase = "firstBody" =>
        cutBy.of = "firstBody"
    /\ SentinelEarned

StreamInv ==
    /\ StreamTypeOK /\ GateHeld /\ CallbacksRead /\ AnswerKept /\ ErrorsTraced
    /\ WindowsTraced /\ CutTraced

\* The connection answers with at most one byte and an error that is no sentinel;
\* our own close is what a closed connection reports.
LEMMA AnswersTyped ==
  ASSUME StreamTypeOK, NEW a \in Answers
  PROVE  /\ a \in [n : {0, 1}, err : Errors] /\ a.err \notin Phases
         /\ a.err = "closed" => conn = "closed"
         /\ a.err = "eof" => upstream # "broken"
  BY DEF StreamTypeOK, Answers, Errors, Phases

\* A tuple is a sequence.
LEMMA TuplesAreSequences ==
  ASSUME NEW S, NEW a \in S, NEW b \in S, NEW c \in S
  PROVE  /\ <<a>> \in Seq(S) /\ Len(<<a>>) = 1 /\ <<a>>[1] = a
         /\ <<a, b>> \in Seq(S) /\ Len(<<a, b>>) = 2 /\ <<a, b>>[1] = a /\ <<a, b>>[2] = b
         /\ <<a, b, c>> \in Seq(S) /\ Len(<<a, b, c>>) = 3 /\ <<a, b, c>>[1] = a
         /\ <<a, b, c>>[2] = b /\ <<a, b, c>>[3] = c
  OBVIOUS

\* Append and SubSeq of tuples.
LEMMA TupleOperations ==
  ASSUME NEW S, NEW a \in S, NEW b \in S, NEW c \in S
  PROVE  /\ Append(<<a>>, b) = <<a, b>> /\ Append(<<a, b>>, c) = <<a, b, c>>
         /\ SubSeq(<<a, b, c>>, 1, 0) = <<>> /\ SubSeq(<<a, b, c>>, 1, 1) = <<a>>
         /\ SubSeq(<<a, b, c>>, 1, 2) = <<a, b>> /\ SubSeq(<<a, b, c>>, 1, 3) = <<a, b, c>>
  <1> DEFINE one == <<a>> two == <<a, b>> three == <<a, b, c>>
  <1>1. /\ one \in Seq(S) /\ Len(one) = 1 /\ one[1] = a
        /\ two \in Seq(S) /\ Len(two) = 2 /\ two[1] = a /\ two[2] = b
        /\ three \in Seq(S) /\ Len(three) = 3
        /\ three[1] = a /\ three[2] = b /\ three[3] = c
    BY TuplesAreSequences
  <1>2. /\ Append(one, b) \in Seq(S) /\ Len(Append(one, b)) = 2
        /\ Append(one, b)[1] = a /\ Append(one, b)[2] = b
    BY TuplesAreSequences, AppendProperties
  <1>3. /\ Append(two, c) \in Seq(S) /\ Len(Append(two, c)) = 3
        /\ Append(two, c)[1] = a /\ Append(two, c)[2] = b /\ Append(two, c)[3] = c
    BY TuplesAreSequences, AppendProperties
  <1> HIDE DEF one, two, three
  <1>4. /\ Append(one, b) \in Seq(S) /\ Len(Append(one, b)) = 2
        /\ \A i \in 1 .. 2 : Append(one, b)[i] = two[i]
    BY <1>1, <1>2
  <1>5. Append(one, b) = two
    BY <1>1, <1>4, SeqEqual
  <1>6. /\ Append(two, c) \in Seq(S) /\ Len(Append(two, c)) = 3
        /\ \A i \in 1 .. 3 : Append(two, c)[i] = three[i]
    BY <1>1, <1>3
  <1>7. Append(two, c) = three
    BY <1>1, <1>6, SeqEqual
  <1>8. ASSUME NEW n \in 0 .. 3
        PROVE  /\ SubSeq(three, 1, n) \in Seq(S) /\ Len(SubSeq(three, 1, n)) = n
               /\ \A i \in 1 .. n : SubSeq(three, 1, n)[i] = three[i]
    BY <1>1, SubSeqProperties
  <1>9. SubSeq(three, 1, 0) = <<>>
    BY <1>1, SubSeqEmpty
  <1>10. SubSeq(three, 1, 1) = one
    BY <1>1, <1>8, SeqEqual
  <1>11. SubSeq(three, 1, 2) = two
    BY <1>1, <1>8, SeqEqual
  <1>12. SubSeq(three, 1, 3) = three
    BY <1>1, <1>8, SeqEqual
  <1> QED
    BY <1>5, <1>7, <1>9, <1>10, <1>11, <1>12 DEF one, two, three

\* The callbacks one after the other.
LEMMA CallbackSeqs ==
  /\ Append(<<>>, "claim") = <<"claim">>
  /\ Append(<<"claim">>, "headers") = <<"claim", "headers">>
  /\ Append(<<"claim", "headers">>, "firstBody") = <<"claim", "headers", "firstBody">>
  /\ <<"claim">> # <<>> /\ <<"claim", "headers">> # <<>>
  /\ <<"claim", "headers", "firstBody">> # <<>>
  <1> DEFINE S == {"claim", "headers", "firstBody"}
  <1>1. "claim" \in S /\ "headers" \in S /\ "firstBody" \in S
    OBVIOUS
  <1>2. Append(<<>>, "claim") = <<"claim">>
    OBVIOUS
  <1>3. /\ Append(<<"claim">>, "headers") = <<"claim", "headers">>
        /\ Append(<<"claim", "headers">>, "firstBody") = <<"claim", "headers", "firstBody">>
    BY <1>1, TupleOperations
  <1>4. <<"claim">> # <<>> /\ <<"claim", "headers">> # <<>>
    OBVIOUS
  <1>5. <<"claim", "headers", "firstBody">> # <<>>
    OBVIOUS
  <1> QED
    BY <1>2, <1>3, <1>4, <1>5

\* Every step keeps the types.
LEMMA StreamTypeStep ==
  StreamInv /\ [StreamNext]_streamVars => StreamTypeOK'
  <1> SUFFICES ASSUME StreamInv, [StreamNext]_streamVars PROVE StreamTypeOK'
    OBVIOUS
  <1> USE DEF StreamInv, StreamTypeOK, TripLabels, ReadLabels, Errors, Phases, Windows, NoWindow, AnswerKept, Held
  <1>1. CASE UNCHANGED streamVars
    BY <1>1 DEF streamVars
  <1>2. ASSUME NEW t \in Trips, TripStep(t) PROVE StreamTypeOK'
    <2>1. CASE TripEnter(t)
      <3>1. tpc' \in [Trips -> TripLabels] /\ used' \in BOOLEAN
        BY <2>1 DEF TripEnter, ClaimUse
      <3> QED
        BY <2>1, <3>1 DEF TripEnter, connVars, readVars, dogVars, cutVars
    <2>2. CASE TripCompare(t)
      BY <2>2 DEF TripCompare, tripVars, connVars, readVars, dogVars, cutVars
    <2>3. CASE TripContext(t)
      BY <2>3 DEF TripContext, tripVars, connVars, readVars, dogVars, cutVars
    <2>4. CASE TripClaim(t)
      BY <2>4 DEF TripClaim, tripVars, connVars, readVars, dogVars, cutVars
    <2>5. CASE TripSend(t)
      BY <2>5 DEF TripSend, tripVars, connVars, readVars, dogVars, cutVars
    <2>6. CASE TripWrap(t)
      BY <2>6 DEF TripWrap, Arm, tripVars, connVars, readVars, dogVars, cutVars
    <2>7. CASE TripHeaders(t)
      BY <2>7 DEF TripHeaders, tripVars, connVars, readVars, dogVars, cutVars
    <2> QED
      BY <1>2, <2>1, <2>2, <2>3, <2>4, <2>5, <2>6, <2>7 DEF TripStep
  <1>3. CASE ReadStart
    BY <1>3 DEF ReadStart, tripVars, connVars, readVars, dogVars, cutVars
  <1>4. CASE ReadReturns
    BY AnswersTyped, <1>4 DEF ReadReturns, tripVars, connVars, readVars, dogVars, cutVars
  <1>5. CASE ReadBytes
    BY <1>5 DEF ReadBytes, tripVars, connVars, readVars, dogVars, cutVars
  <1>6. CASE ReadArm
    BY <1>6 DEF ReadArm, Arm, Stop, tripVars, connVars, readVars, dogVars, cutVars
  <1>7. CASE ReadDeliver
    BY <1>7 DEF ReadDeliver, FirstBodyCallback, Deliver, tripVars, connVars, readVars, dogVars, cutVars
  <1>8. CASE ReadError
    BY <1>8 DEF ReadError, FirstBodyCallback, Deliver, OwnClose, tripVars, connVars, readVars, dogVars, cutVars
  <1>9. CASE ReadZero
    BY <1>9 DEF ReadZero, ReadFired, tripVars, connVars, readVars, dogVars, cutVars
  <1>10. CASE ReadSentinel
    BY <1>10 DEF ReadSentinel, tripVars, connVars, readVars, dogVars, cutVars
  <1>11. CASE ReadStop
    BY <1>11 DEF ReadStop, Stop, Deliver, tripVars, connVars, readVars, dogVars, cutVars
  <1>12. CASE TimerExpires
    BY <1>12 DEF TimerExpires, tripVars, connVars, readVars, dogVars, cutVars
  <1>13. ASSUME NEW w \in expired, Callback(w) PROVE StreamTypeOK'
    <2>1. /\ fired' \in BOOLEAN /\ cut' \in {"none", "phase", "close", "done"}
          /\ cutBy' \in [of : Phases, delivered : 0 .. MaxBytes]
      <3>1. CASE Fires(w)
        <4>1. fired' = TRUE /\ cutBy' = [of |-> w.of, delivered |-> delivered] /\ w.of \in Phases
          BY <1>13, <3>1 DEF Callback
        <4>2. cut' \in {"none", "phase", "close", "done"}
          BY <1>13, <3>1 DEF Callback
        <4> QED
          BY <4>1, <4>2
      <3>2. CASE ~ Fires(w)
        BY <1>13, <3>2 DEF Callback
      <3> QED
        BY <3>1, <3>2
    <2> QED
      BY <1>13, <2>1 DEF Callback, tripVars, connVars, readVars
  <1>14. CASE CutPhase
    BY <1>14 DEF CutPhase, tripVars, connVars, readVars, dogVars, cutVars
  <1>15. CASE CutClose
    BY <1>15 DEF CutClose, tripVars, connVars, readVars, dogVars, cutVars
  <1>16. CASE Close
    BY <1>16 DEF Close, tripVars, connVars, readVars, dogVars, cutVars
  <1>17. CASE Cancel
    BY <1>17 DEF Cancel, tripVars, connVars, readVars, dogVars, cutVars
  <1> QED
    BY <1>1, <1>2, <1>3, <1>4, <1>5, <1>6, <1>7, <1>8, <1>9, <1>10, <1>11, <1>12, <1>13, <1>14, <1>15, <1>16, <1>17
    DEF StreamNext, ReadStep

\* The gate of the one-shot transport lets one caller through.
LEMMA GateStep ==
  StreamInv /\ [StreamNext]_streamVars => GateHeld'
  <1> SUFFICES ASSUME StreamInv, [StreamNext]_streamVars PROVE GateHeld'
    OBVIOUS
  <1> USE DEF StreamInv, StreamTypeOK, GateHeld, Active, CallbacksRead
  <1>1. CASE UNCHANGED streamVars
    BY <1>1 DEF streamVars
  <1>2. ASSUME NEW t \in Trips, TripStep(t) PROVE GateHeld'
    <2>1. CASE TripEnter(t)
      BY <2>1 DEF TripEnter, ClaimUse, tripVars, connVars, readVars, dogVars, cutVars
    <2>2. CASE TripCompare(t)
      BY <2>2 DEF TripCompare, tripVars, connVars, readVars, dogVars, cutVars
    <2>3. CASE TripContext(t)
      BY <2>3 DEF TripContext, tripVars, connVars, readVars, dogVars, cutVars
    <2>4. CASE TripClaim(t)
      BY <2>4, CallbackSeqs DEF TripClaim, tripVars, connVars, readVars, dogVars, cutVars
    <2>5. CASE TripSend(t)
      BY <2>5 DEF TripSend, tripVars, connVars, readVars, dogVars, cutVars
    <2>6. CASE TripWrap(t)
      BY <2>6 DEF TripWrap, Arm, tripVars, connVars, readVars, dogVars, cutVars
    <2>7. CASE TripHeaders(t)
      BY <2>7, CallbackSeqs, SMTT(40) DEF TripHeaders, tripVars, connVars, readVars, dogVars, cutVars
    <2> QED
      BY <1>2, <2>1, <2>2, <2>3, <2>4, <2>5, <2>6, <2>7 DEF TripStep
  <1>3. CASE ReadStart
    BY <1>3 DEF ReadStart, tripVars, connVars, readVars, dogVars, cutVars
  <1>4. CASE ReadReturns
    BY AnswersTyped, <1>4 DEF ReadReturns, tripVars, connVars, readVars, dogVars, cutVars
  <1>5. CASE ReadBytes
    BY <1>5 DEF ReadBytes, tripVars, connVars, readVars, dogVars, cutVars
  <1>6. CASE ReadArm
    BY <1>6 DEF ReadArm, Arm, Stop, tripVars, connVars, readVars, dogVars, cutVars
  <1>7. CASE ReadDeliver
    BY <1>7, CallbackSeqs DEF ReadDeliver, FirstBodyCallback, Deliver, tripVars, connVars, readVars, dogVars, cutVars
  <1>8. CASE ReadError
    BY <1>8, CallbackSeqs DEF ReadError, FirstBodyCallback, Deliver, OwnClose, tripVars, connVars, readVars, dogVars, cutVars
  <1>9. CASE ReadZero
    BY <1>9 DEF ReadZero, ReadFired, tripVars, connVars, readVars, dogVars, cutVars
  <1>10. CASE ReadSentinel
    BY <1>10 DEF ReadSentinel, tripVars, connVars, readVars, dogVars, cutVars
  <1>11. CASE ReadStop
    BY <1>11 DEF ReadStop, Stop, Deliver, tripVars, connVars, readVars, dogVars, cutVars
  <1>12. CASE TimerExpires
    BY <1>12 DEF TimerExpires, tripVars, connVars, readVars, dogVars, cutVars
  <1>13. ASSUME NEW w \in expired, Callback(w) PROVE GateHeld'
    BY <1>13 DEF Callback, Fires, tripVars, connVars, readVars, dogVars, cutVars
  <1>14. CASE CutPhase
    BY <1>14 DEF CutPhase, tripVars, connVars, readVars, dogVars, cutVars
  <1>15. CASE CutClose
    BY <1>15 DEF CutClose, tripVars, connVars, readVars, dogVars, cutVars
  <1>16. CASE Close
    BY <1>16 DEF Close, tripVars, connVars, readVars, dogVars, cutVars
  <1>17. CASE Cancel
    BY <1>17 DEF Cancel, tripVars, connVars, readVars, dogVars, cutVars
  <1> QED
    BY <1>1, <1>2, <1>3, <1>4, <1>5, <1>6, <1>7, <1>8, <1>9, <1>10, <1>11, <1>12, <1>13, <1>14, <1>15, <1>16, <1>17
    DEF StreamNext, ReadStep

\* The callbacks run in order, each once.
LEMMA CallbacksStep ==
  StreamInv /\ [StreamNext]_streamVars => CallbacksRead'
  <1> SUFFICES ASSUME StreamInv, [StreamNext]_streamVars PROVE CallbacksRead'
    OBVIOUS
  <1> USE DEF StreamInv, StreamTypeOK, GateHeld, Active, CallbacksRead, FirstBodyDue
  <1>1. CASE UNCHANGED streamVars
    BY <1>1 DEF streamVars
  <1>2. ASSUME NEW t \in Trips, TripStep(t) PROVE CallbacksRead'
    <2>1. CASE TripEnter(t)
      BY <2>1 DEF TripEnter, ClaimUse, tripVars, connVars, readVars, dogVars, cutVars
    <2>2. CASE TripCompare(t)
      BY <2>2 DEF TripCompare, tripVars, connVars, readVars, dogVars, cutVars
    <2>3. CASE TripContext(t)
      BY <2>3 DEF TripContext, tripVars, connVars, readVars, dogVars, cutVars
    <2>4. CASE TripClaim(t)
      BY <2>4, CallbackSeqs DEF TripClaim, tripVars, connVars, readVars, dogVars, cutVars
    <2>5. CASE TripSend(t)
      <3>1. sockets' = sockets + 1 /\ callbacks' = callbacks /\ UNCHANGED <<body, readVars>>
        BY <2>5 DEF TripSend
      <3>2. sockets = 0 /\ callbacks = <<"claim">> /\ rpc = "none" /\ body.kind # "legacy"
        BY <2>5 DEF TripSend
      <3>3. sockets' = 1 /\ rpc' = "none" /\ sawFirst' = sawFirst /\ first' = first
        BY <3>1, <3>2 DEF readVars
      <3> QED
        BY <3>1, <3>2, <3>3, CallbackSeqs
    <2>6. CASE TripWrap(t)
      BY <2>6 DEF TripWrap, Arm, tripVars, connVars, readVars, dogVars, cutVars
    <2>7. CASE TripHeaders(t)
      BY <2>7, CallbackSeqs DEF TripHeaders, tripVars, connVars, readVars, dogVars, cutVars
    <2> QED
      BY <1>2, <2>1, <2>2, <2>3, <2>4, <2>5, <2>6, <2>7 DEF TripStep
  <1>3. CASE ReadStart
    BY <1>3 DEF ReadStart, tripVars, connVars, readVars, dogVars, cutVars
  <1>4. CASE ReadReturns
    BY AnswersTyped, <1>4 DEF ReadReturns, tripVars, connVars, readVars, dogVars, cutVars
  <1>5. CASE ReadBytes
    BY <1>5 DEF ReadBytes, tripVars, connVars, readVars, dogVars, cutVars
  <1>6. CASE ReadArm
    BY <1>6 DEF ReadArm, Arm, Stop, tripVars, connVars, readVars, dogVars, cutVars
  <1>7. CASE ReadDeliver
    BY <1>7, CallbackSeqs DEF ReadDeliver, FirstBodyCallback, Deliver, tripVars, connVars, readVars, dogVars, cutVars
  <1>8. CASE ReadError
    BY <1>8, CallbackSeqs DEF ReadError, FirstBodyCallback, Deliver, OwnClose, tripVars, connVars, readVars, dogVars, cutVars
  <1>9. CASE ReadZero
    BY <1>9 DEF ReadZero, ReadFired, tripVars, connVars, readVars, dogVars, cutVars
  <1>10. CASE ReadSentinel
    BY <1>10 DEF ReadSentinel, tripVars, connVars, readVars, dogVars, cutVars
  <1>11. CASE ReadStop
    BY <1>11 DEF ReadStop, Stop, Deliver, tripVars, connVars, readVars, dogVars, cutVars
  <1>12. CASE TimerExpires
    BY <1>12 DEF TimerExpires, tripVars, connVars, readVars, dogVars, cutVars
  <1>13. ASSUME NEW w \in expired, Callback(w) PROVE CallbacksRead'
    BY <1>13 DEF Callback, Fires, tripVars, connVars, readVars, dogVars, cutVars
  <1>14. CASE CutPhase
    BY <1>14 DEF CutPhase, tripVars, connVars, readVars, dogVars, cutVars
  <1>15. CASE CutClose
    BY <1>15 DEF CutClose, tripVars, connVars, readVars, dogVars, cutVars
  <1>16. CASE Close
    BY <1>16 DEF Close, tripVars, connVars, readVars, dogVars, cutVars
  <1>17. CASE Cancel
    BY <1>17 DEF Cancel, tripVars, connVars, readVars, dogVars, cutVars
  <1> QED
    BY <1>1, <1>2, <1>3, <1>4, <1>5, <1>6, <1>7, <1>8, <1>9, <1>10, <1>11, <1>12, <1>13, <1>14, <1>15, <1>16, <1>17
    DEF StreamNext, ReadStep

\* No byte is lost or handed out twice.
LEMMA AnswerStep ==
  StreamInv /\ [StreamNext]_streamVars => AnswerKept'
  <1> SUFFICES ASSUME StreamInv, [StreamNext]_streamVars PROVE AnswerKept'
    OBVIOUS
  <1> USE DEF StreamInv, StreamTypeOK, GateHeld, Active, AnswerKept, Held, Phases, Errors, ErrorsTraced
  <1>1. CASE UNCHANGED streamVars
    BY <1>1 DEF streamVars
  <1>2. ASSUME NEW t \in Trips, TripStep(t) PROVE AnswerKept'
    <2>1. CASE TripEnter(t)
      BY <2>1 DEF TripEnter, ClaimUse, tripVars, connVars, readVars, dogVars, cutVars
    <2>2. CASE TripCompare(t)
      BY <2>2 DEF TripCompare, tripVars, connVars, readVars, dogVars, cutVars
    <2>3. CASE TripContext(t)
      BY <2>3 DEF TripContext, tripVars, connVars, readVars, dogVars, cutVars
    <2>4. CASE TripClaim(t)
      BY <2>4 DEF TripClaim, tripVars, connVars, readVars, dogVars, cutVars
    <2>5. CASE TripSend(t)
      BY <2>5 DEF TripSend, tripVars, connVars, readVars, dogVars, cutVars
    <2>6. CASE TripWrap(t)
      BY <2>6 DEF TripWrap, Arm, tripVars, connVars, readVars, dogVars, cutVars
    <2>7. CASE TripHeaders(t)
      BY <2>7 DEF TripHeaders, tripVars, connVars, readVars, dogVars, cutVars
    <2> QED
      BY <1>2, <2>1, <2>2, <2>3, <2>4, <2>5, <2>6, <2>7 DEF TripStep
  <1>3. CASE ReadStart
    BY <1>3 DEF ReadStart, tripVars, connVars, readVars, dogVars, cutVars
  <1>4. CASE ReadReturns
    BY AnswersTyped, <1>4 DEF ReadReturns, tripVars, connVars, readVars, dogVars, cutVars
  <1>5. CASE ReadBytes
    BY <1>5 DEF ReadBytes, tripVars, connVars, readVars, dogVars, cutVars
  <1>6. CASE ReadArm
    BY <1>6 DEF ReadArm, Arm, Stop, tripVars, connVars, readVars, dogVars, cutVars
  <1>7. CASE ReadDeliver
    BY <1>7 DEF ReadDeliver, FirstBodyCallback, Deliver, tripVars, connVars, readVars, dogVars, cutVars
  <1>8. CASE ReadError
    BY <1>8 DEF ReadError, FirstBodyCallback, Deliver, OwnClose, tripVars, connVars, readVars, dogVars, cutVars
  <1>9. CASE ReadZero
    BY <1>9 DEF ReadZero, ReadFired, tripVars, connVars, readVars, dogVars, cutVars
  <1>10. CASE ReadSentinel
    BY <1>10 DEF ReadSentinel, tripVars, connVars, readVars, dogVars, cutVars
  <1>11. CASE ReadStop
    BY <1>11 DEF ReadStop, Stop, Deliver, tripVars, connVars, readVars, dogVars, cutVars
  <1>12. CASE TimerExpires
    BY <1>12 DEF TimerExpires, tripVars, connVars, readVars, dogVars, cutVars
  <1>13. ASSUME NEW w \in expired, Callback(w) PROVE AnswerKept'
    BY <1>13 DEF Callback, Fires, tripVars, connVars, readVars, dogVars, cutVars
  <1>14. CASE CutPhase
    BY <1>14 DEF CutPhase, tripVars, connVars, readVars, dogVars, cutVars
  <1>15. CASE CutClose
    BY <1>15 DEF CutClose, tripVars, connVars, readVars, dogVars, cutVars
  <1>16. CASE Close
    BY <1>16 DEF Close, tripVars, connVars, readVars, dogVars, cutVars
  <1>17. CASE Cancel
    BY <1>17 DEF Cancel, tripVars, connVars, readVars, dogVars, cutVars
  <1> QED
    BY <1>1, <1>2, <1>3, <1>4, <1>5, <1>6, <1>7, <1>8, <1>9, <1>10, <1>11, <1>12, <1>13, <1>14, <1>15, <1>16, <1>17
    DEF StreamNext, ReadStep

\* Errors keep their origin.
LEMMA ErrorsStep ==
  StreamInv /\ [StreamNext]_streamVars => ErrorsTraced'
  <1> SUFFICES ASSUME StreamInv, [StreamNext]_streamVars PROVE ErrorsTraced'
    OBVIOUS
  <1> USE DEF StreamInv, StreamTypeOK, AnswerKept, ErrorsTraced, Phases, Errors
  <1>1. CASE UNCHANGED streamVars
    BY <1>1 DEF streamVars
  <1>2. ASSUME NEW t \in Trips, TripStep(t) PROVE ErrorsTraced'
    <2>1. CASE TripEnter(t)
      BY <2>1 DEF TripEnter, ClaimUse, tripVars, connVars, readVars, dogVars, cutVars
    <2>2. CASE TripCompare(t)
      BY <2>2 DEF TripCompare, tripVars, connVars, readVars, dogVars, cutVars
    <2>3. CASE TripContext(t)
      BY <2>3 DEF TripContext, tripVars, connVars, readVars, dogVars, cutVars
    <2>4. CASE TripClaim(t)
      BY <2>4 DEF TripClaim, tripVars, connVars, readVars, dogVars, cutVars
    <2>5. CASE TripSend(t)
      BY <2>5 DEF TripSend, tripVars, connVars, readVars, dogVars, cutVars
    <2>6. CASE TripWrap(t)
      BY <2>6 DEF TripWrap, Arm, tripVars, connVars, readVars, dogVars, cutVars
    <2>7. CASE TripHeaders(t)
      BY <2>7 DEF TripHeaders, tripVars, connVars, readVars, dogVars, cutVars
    <2> QED
      BY <1>2, <2>1, <2>2, <2>3, <2>4, <2>5, <2>6, <2>7 DEF TripStep
  <1>3. CASE ReadStart
    BY <1>3 DEF ReadStart, tripVars, connVars, readVars, dogVars, cutVars
  <1>4. CASE ReadReturns
    BY AnswersTyped, <1>4 DEF ReadReturns, tripVars, connVars, readVars, dogVars, cutVars
  <1>5. CASE ReadBytes
    BY <1>5 DEF ReadBytes, tripVars, connVars, readVars, dogVars, cutVars
  <1>6. CASE ReadArm
    BY <1>6 DEF ReadArm, Arm, Stop, tripVars, connVars, readVars, dogVars, cutVars
  <1>7. CASE ReadDeliver
    BY <1>7 DEF ReadDeliver, FirstBodyCallback, Deliver, tripVars, connVars, readVars, dogVars, cutVars
  <1>8. CASE ReadError
    BY <1>8 DEF ReadError, FirstBodyCallback, Deliver, OwnClose, tripVars, connVars, readVars, dogVars, cutVars
  <1>9. CASE ReadZero
    BY <1>9 DEF ReadZero, ReadFired, tripVars, connVars, readVars, dogVars, cutVars
  <1>10. CASE ReadSentinel
    BY <1>10 DEF ReadSentinel, tripVars, connVars, readVars, dogVars, cutVars
  <1>11. CASE ReadStop
    BY <1>11 DEF ReadStop, Stop, Deliver, tripVars, connVars, readVars, dogVars, cutVars
  <1>12. CASE TimerExpires
    BY <1>12 DEF TimerExpires, tripVars, connVars, readVars, dogVars, cutVars
  <1>13. ASSUME NEW w \in expired, Callback(w) PROVE ErrorsTraced'
    BY <1>13 DEF Callback, Fires, tripVars, connVars, readVars, dogVars, cutVars
  <1>14. CASE CutPhase
    BY <1>14 DEF CutPhase, tripVars, connVars, readVars, dogVars, cutVars
  <1>15. CASE CutClose
    BY <1>15 DEF CutClose, tripVars, connVars, readVars, dogVars, cutVars
  <1>16. CASE Close
    BY <1>16 DEF Close, tripVars, connVars, readVars, dogVars, cutVars
  <1>17. CASE Cancel
    BY <1>17 DEF Cancel, tripVars, connVars, readVars, dogVars, cutVars
  <1> QED
    BY <1>1, <1>2, <1>3, <1>4, <1>5, <1>6, <1>7, <1>8, <1>9, <1>10, <1>11, <1>12, <1>13, <1>14, <1>15, <1>16, <1>17
    DEF StreamNext, ReadStep

\* A step that leaves the deadline alone and delivers nothing new keeps its windows.
LEMMA WindowsKept ==
  ASSUME StreamInv, UNCHANGED <<body, gen, timer, wdClosed>>, expired' \subseteq expired,
         sawFirst => sawFirst', fired => fired',
         ~ fired /\ rpc # "callback" => delivered' = delivered, rpc' # "callback" \/ rpc = "callback"
  PROVE  WindowsTraced'
  <1> SUFFICES ASSUME NEW w \in Windows, Pending(w)' PROVE WindowTraced(w)'
    BY DEF WindowsTraced
  <1>1. Pending(w)
    BY DEF Pending
  <1>2. WindowTraced(w)
    BY <1>1 DEF StreamInv, WindowsTraced
  <1> QED
    BY <1>2 DEF WindowTraced

\* A new window, or none after stop: the older ones are no longer current.
LEMMA WindowsReplaced ==
  ASSUME StreamInv, UNCHANGED body, gen' = gen + 1, expired' = expired,
         sawFirst => sawFirst', fired => fired',
         timer' = NoWindow \/ (timer'.gen = gen' /\ WindowTraced(timer)')
  PROVE  WindowsTraced'
  <1> SUFFICES ASSUME NEW w \in Windows, Pending(w)' PROVE WindowTraced(w)'
    BY DEF WindowsTraced
  <1>1. CASE w = timer' /\ timer' # NoWindow
    BY <1>1 DEF WindowTraced
  <1>2. CASE w \in expired
    <2>1. WindowTraced(w) /\ w.gen \in Nat /\ gen \in Nat
      BY <1>2 DEF StreamInv, WindowsTraced, Pending, Windows, StreamTypeOK
    <2> QED
      BY <2>1 DEF WindowTraced
  <1> QED
    BY <1>1, <1>2 DEF Pending

\* Windows keep their phase, and only the current one can fire.
LEMMA WindowsStep ==
  StreamInv /\ [StreamNext]_streamVars => WindowsTraced'
  <1> SUFFICES ASSUME StreamInv, [StreamNext]_streamVars PROVE WindowsTraced'
    OBVIOUS
  <1>1. CASE UNCHANGED streamVars
    BY <1>1, WindowsKept DEF streamVars
  <1>2. ASSUME NEW t \in Trips, TripStep(t) PROVE WindowsTraced'
    <2>1. CASE TripWrap(t) /\ body.firstBody
      <3>1. Arm("firstBody") /\ UNCHANGED <<body, readVars>>
        BY <2>1 DEF TripWrap
      <3>2. rpc = "none" /\ body.kind # "legacy" /\ delivered = 0
        BY <2>1 DEF TripWrap, StreamInv, StreamTypeOK, GateHeld, Active, CutTraced, AnswerKept, Held
      <3>3. timer' = [gen |-> gen + 1, of |-> "firstBody"] /\ gen' = gen + 1 /\ gen \in Nat
        BY <3>1 DEF Arm, StreamInv, StreamTypeOK
      <3>4. timer'.gen = gen' /\ WindowTraced(timer)'
        BY <3>1, <3>2, <3>3 DEF WindowTraced, readVars
      <3> QED
        BY <3>1, <3>3, <3>4, WindowsReplaced DEF Arm, readVars
    <2>2. CASE ~ (TripWrap(t) /\ body.firstBody)
      BY <1>2, <2>2, WindowsKept DEF TripStep, TripEnter, TripCompare, TripContext, TripClaim,
         TripSend, TripWrap, TripHeaders, readVars, dogVars
    <2> QED
      BY <2>1, <2>2
  <1>3. CASE ReadArm
    <2>1. UNCHANGED <<body, delivered, sawFirst>> /\ rpc = "arm" /\ sawFirst
      BY <1>3 DEF ReadArm, StreamInv, CutTraced
    <2>2. CASE wdClosed /\ body.idle
      <3>1. UNCHANGED dogVars
        BY <1>3, <2>2 DEF ReadArm
      <3> SUFFICES ASSUME NEW w \in Windows, Pending(w)' PROVE WindowTraced(w)'
        BY DEF WindowsTraced
      <3>2. WindowTraced(w)
        BY <3>1 DEF StreamInv, WindowsTraced, Pending, dogVars
      <3> QED
        BY <2>1, <2>2, <3>1, <3>2 DEF WindowTraced, dogVars
    <2>3. CASE ~ wdClosed /\ body.idle
      <3>1. Arm("idle")
        BY <1>3, <2>3 DEF ReadArm
      <3>2. timer' = [gen |-> gen + 1, of |-> "idle"] /\ gen' = gen + 1 /\ gen \in Nat
        BY <3>1 DEF Arm, StreamInv, StreamTypeOK
      <3>3. timer'.gen = gen' /\ WindowTraced(timer)'
        BY <2>1, <3>2 DEF WindowTraced
      <3> QED
        BY <2>1, <3>1, <3>2, <3>3, WindowsReplaced DEF Arm
    <2>4. CASE ~ body.idle
      BY <1>3, <2>1, <2>4, WindowsReplaced DEF ReadArm, Stop
    <2> QED
      BY <2>2, <2>3, <2>4
  <1>4. CASE ReadStop
    BY <1>4, WindowsReplaced DEF ReadStop, Stop
  <1>5. CASE Close
    BY <1>5, WindowsReplaced DEF Close, readVars
  <1>6. CASE TimerExpires
    <2>1. \A w : Pending(w)' => Pending(w)
      BY <1>6 DEF TimerExpires, Pending
    <2>2. UNCHANGED <<body, gen, fired, wdClosed, readVars>>
      BY <1>6 DEF TimerExpires
    <2> QED
      BY <2>1, <2>2 DEF StreamInv, WindowsTraced, WindowTraced, readVars
  <1>7. ASSUME NEW w \in expired, Callback(w) PROVE WindowsTraced'
    <2>1. UNCHANGED <<body, gen, timer, wdClosed, readVars>> /\ expired' \subseteq expired
      BY <1>7 DEF Callback
    <2>2. fired => fired'
      BY <1>7 DEF Callback, Fires
    <2> QED
      BY <2>1, <2>2, WindowsKept DEF readVars
  <1>8. CASE ReadDeliver
    BY <1>8, WindowsKept DEF ReadDeliver, dogVars
  <1>9. CASE ReadError
    BY <1>9, WindowsKept DEF ReadError, OwnClose, dogVars
  <1>10. CASE ReadStart \/ ReadReturns \/ ReadBytes \/ ReadZero \/ ReadSentinel
              \/ CutPhase \/ CutClose \/ Cancel
    BY <1>10, WindowsKept DEF ReadStart, ReadReturns, ReadBytes, ReadZero, ReadSentinel,
       CutPhase, CutClose, Cancel, readVars, dogVars
  <1> QED
    BY <1>1, <1>2, <1>3, <1>4, <1>5, <1>6, <1>7, <1>8, <1>9, <1>10 DEF StreamNext, ReadStep

\* A cut keeps its cause, and the sentinels follow it.
LEMMA CutStep ==
  StreamInv /\ [StreamNext]_streamVars => CutTraced'
  <1> SUFFICES ASSUME StreamInv, [StreamNext]_streamVars PROVE CutTraced'
    OBVIOUS
  <1> USE DEF StreamInv, StreamTypeOK, GateHeld, Active, AnswerKept, Held, ErrorsTraced, CutTraced, SentinelEarned,
          Phases, Errors
  <1>1. CASE UNCHANGED streamVars
    BY <1>1 DEF streamVars
  <1>2. ASSUME NEW t \in Trips, TripStep(t) PROVE CutTraced'
    <2>1. CASE TripEnter(t)
      BY <2>1 DEF TripEnter, ClaimUse, tripVars, connVars, readVars, dogVars, cutVars
    <2>2. CASE TripCompare(t)
      BY <2>2 DEF TripCompare, tripVars, connVars, readVars, dogVars, cutVars
    <2>3. CASE TripContext(t)
      BY <2>3 DEF TripContext, tripVars, connVars, readVars, dogVars, cutVars
    <2>4. CASE TripClaim(t)
      BY <2>4 DEF TripClaim, tripVars, connVars, readVars, dogVars, cutVars
    <2>5. CASE TripSend(t)
      BY <2>5 DEF TripSend, tripVars, connVars, readVars, dogVars, cutVars
    <2>6. CASE TripWrap(t)
      BY <2>6 DEF TripWrap, Arm, tripVars, connVars, readVars, dogVars, cutVars
    <2>7. CASE TripHeaders(t)
      BY <2>7 DEF TripHeaders, tripVars, connVars, readVars, dogVars, cutVars
    <2> QED
      BY <1>2, <2>1, <2>2, <2>3, <2>4, <2>5, <2>6, <2>7 DEF TripStep
  <1>3. CASE ReadStart
    BY <1>3 DEF ReadStart, tripVars, connVars, readVars, dogVars, cutVars
  <1>4. CASE ReadReturns
    BY AnswersTyped, <1>4 DEF ReadReturns, tripVars, connVars, readVars, dogVars, cutVars
  <1>5. CASE ReadBytes
    BY <1>5 DEF ReadBytes, tripVars, connVars, readVars, dogVars, cutVars
  <1>6. CASE ReadArm
    BY <1>6 DEF ReadArm, Arm, Stop, tripVars, connVars, readVars, dogVars, cutVars
  <1>7. CASE ReadDeliver
    BY <1>7 DEF ReadDeliver, FirstBodyCallback, Deliver, tripVars, connVars, readVars, dogVars, cutVars
  <1>8. CASE ReadError
    BY <1>8 DEF ReadError, FirstBodyCallback, Deliver, OwnClose, tripVars, connVars, readVars, dogVars, cutVars
  <1>9. CASE ReadZero
    BY <1>9 DEF ReadZero, ReadFired, tripVars, connVars, readVars, dogVars, cutVars
  <1>10. CASE ReadSentinel
    BY <1>10 DEF ReadSentinel, tripVars, connVars, readVars, dogVars, cutVars
  <1>11. CASE ReadStop
    BY <1>11 DEF ReadStop, Stop, Deliver, tripVars, connVars, readVars, dogVars, cutVars
  <1>12. CASE TimerExpires
    BY <1>12 DEF TimerExpires, tripVars, connVars, readVars, dogVars, cutVars
  <1>13. ASSUME NEW w \in expired, Callback(w) PROVE CutTraced'
    <2>1. CASE ~ Fires(w)
      BY <1>13, <2>1 DEF Callback, tripVars, connVars, readVars, dogVars, cutVars
    <2>2. CASE Fires(w)
      <3>1. w \in Windows /\ w.of \in Phases /\ w.gen \in Nat /\ WindowTraced(w)
        BY <1>13 DEF WindowsTraced, Pending, Windows
      <3>2. /\ w.of = "idle" => sawFirst
            /\ w.of = "firstBody" => body.kind = "exact" /\ delivered = 0
        BY <2>2, <3>1 DEF WindowTraced, Fires
      <3>3. /\ cutBy' = [of |-> w.of, delivered |-> delivered]
            /\ cut' \in {"phase", "close"} /\ (body.kind = "exact" => cut' = "phase")
            /\ cut = "none" \/ ~ fired
            /\ UNCHANGED <<body, connVars, readVars, phase>>
        BY <1>13, <2>2 DEF Callback, Fires
      <3>4. ~ fired /\ cut = "none" /\ result \notin Phases
        BY <2>2 DEF Fires
      <3> QED
        BY <3>2, <3>3, <3>4 DEF connVars, readVars
    <2> QED
      BY <2>1, <2>2
  <1>14. CASE CutPhase
    BY <1>14 DEF CutPhase, tripVars, connVars, readVars, dogVars, cutVars
  <1>15. CASE CutClose
    BY <1>15 DEF CutClose, tripVars, connVars, readVars, dogVars, cutVars
  <1>16. CASE Close
    BY <1>16 DEF Close, tripVars, connVars, readVars, dogVars, cutVars
  <1>17. CASE Cancel
    BY <1>17 DEF Cancel, tripVars, connVars, readVars, dogVars, cutVars
  <1> QED
    BY <1>1, <1>2, <1>3, <1>4, <1>5, <1>6, <1>7, <1>8, <1>9, <1>10, <1>11, <1>12, <1>13, <1>14, <1>15, <1>16, <1>17
    DEF StreamNext, ReadStep

\* The invariant holds initially.
LEMMA StreamStarts == (\E b \in Bodies : StreamInit(b)) => StreamInv
  <1> SUFFICES ASSUME NEW b \in Bodies, StreamInit(b) PROVE StreamInv
    OBVIOUS
  <1>1. body \in [kind : {"exact", "legacy"}, firstBody : BOOLEAN, idle : BOOLEAN]
    <2>1. \A c \in Bodies : c \in [kind : {"exact", "legacy"}, firstBody : BOOLEAN, idle : BOOLEAN]
      <3>1. [kind |-> "legacy", firstBody |-> FALSE, idle |-> TRUE]
            \in [kind : {"exact", "legacy"}, firstBody : BOOLEAN, idle : BOOLEAN]
        OBVIOUS
      <3>2. \A c \in [kind : {"exact"}, firstBody : BOOLEAN, idle : BOOLEAN] :
                c \in [kind : {"exact", "legacy"}, firstBody : BOOLEAN, idle : BOOLEAN]
        OBVIOUS
      <3> QED
        BY <3>1, <3>2 DEF Bodies
    <2> QED
      BY <2>1 DEF StreamInit
  <1>2. StreamTypeOK
    <2>1. callbacks \in Seq({"claim", "headers", "firstBody"})
      BY DEF StreamInit
    <2>2. timer \in Windows /\ cutBy \in [of : Phases, delivered : 0 .. MaxBytes]
      BY MaxBytesAssumption DEF StreamInit, NoWindow, Windows, Phases
    <2>3. got \in [n : {0, 1}, err : Errors]
      BY DEF StreamInit, Errors
    <2>4. arrived \in 0 .. MaxBytes /\ delivered \in 0 .. MaxBytes
      BY MaxBytesAssumption DEF StreamInit
    <2>5. tpc \in [Trips -> TripLabels] /\ rpc \in ReadLabels /\ conn \in {"none", "open", "closed"}
      BY DEF StreamInit, TripLabels, ReadLabels
    <2> QED
      BY <1>1, <2>1, <2>2, <2>3, <2>4, <2>5 DEF StreamInit, StreamTypeOK, Errors, Phases
  <1>3. GateHeld /\ CallbacksRead
    BY <1>1 DEF StreamInit, GateHeld, Active, CallbacksRead
  <1>4. AnswerKept /\ ErrorsTraced
    BY <1>1 DEF StreamInit, AnswerKept, Held, ErrorsTraced, Phases
  <1>5. WindowsTraced /\ CutTraced
    BY <1>1 DEF StreamInit, WindowsTraced, Pending, CutTraced, SentinelEarned
  <1> QED
    BY <1>2, <1>3, <1>4, <1>5 DEF StreamInv

\* The invariant is inductive.
LEMMA StreamStep == StreamInv /\ [StreamNext]_streamVars => StreamInv'
  BY StreamTypeStep, GateStep, CallbacksStep, AnswerStep, ErrorsStep,
     WindowsStep, CutStep DEF StreamInv

\* The state of a streamed body is well typed: at most MaxBytes bytes arrive and no
\* more are handed out.
THEOREM StreamTypeCorrect == StreamSpec => []StreamTypeOK
  <1>1. StreamInv => StreamTypeOK
    BY DEF StreamInv
  <1>2. QED
    BY <1>1, StreamStarts, StreamStep, PTL DEF StreamSpec

\* However many callers race in RoundTrip, one request goes out at most and the
\* callbacks run in order, each at most once.
THEOREM OneRequestGoesOut == StreamSpec => []OneShot
  <1>1. StreamInv => OneShot
    <2> SUFFICES ASSUME StreamInv PROVE OneShot
      OBVIOUS
    <2> DEFINE order == <<"claim", "headers", "firstBody">>
    <2>1. /\ SubSeq(order, 1, 0) = <<>> /\ SubSeq(order, 1, 1) = <<"claim">>
          /\ SubSeq(order, 1, 2) = <<"claim", "headers">> /\ SubSeq(order, 1, 3) = order
      <3> DEFINE S == {"claim", "headers", "firstBody"}
      <3>1. "claim" \in S /\ "headers" \in S /\ "firstBody" \in S
        OBVIOUS
      <3> QED
        BY <3>1, TupleOperations
    <2>2. callbacks \in {<<>>, <<"claim">>, <<"claim", "headers">>, order}
      BY DEF StreamInv, StreamTypeOK, CallbacksRead
    <2>3. \E k \in 0 .. 3 : callbacks = SubSeq(order, 1, k)
      <3> HIDE DEF order
      <3>1. 0 \in 0 .. 3 /\ 1 \in 0 .. 3 /\ 2 \in 0 .. 3 /\ 3 \in 0 .. 3
        OBVIOUS
      <3> QED
        BY <2>1, <2>2, <3>1, Zenon
    <2> QED
      BY <2>3 DEF StreamInv, CallbacksRead, OneShot
  <1>2. QED
    BY <1>1, StreamStarts, StreamStep, PTL DEF StreamSpec

\* Whenever the deadline fires or the body is closed, Read returns every byte the
\* connection gave, no made-up end of the stream, never the deadline's own close as
\* a failed connection, and as a timeout only the deadline that cut the stream, up
\* to the two races SentinelEarned names.
THEOREM ReadsAreTruthful == StreamSpec => []ReadsTruthful
  <1>1. StreamInv => ReadsTruthful
    BY DEF StreamInv, StreamTypeOK, AnswerKept, Held, ErrorsTraced, CutTraced, ReadsTruthful
  <1>2. QED
    BY <1>1, StreamStarts, StreamStep, PTL DEF StreamSpec
=============================================================================
