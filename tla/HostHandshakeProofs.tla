------------------------- MODULE HostHandshakeProofs -------------------------
(***************************************************************************)
(* The handshake loses no connection and leaves no half-attached worker,   *)
(* for any number of extra connections and attempts: whatever helper,      *)
(* timeout and cancellation come in whatever order, an open connection is  *)
(* in exactly one place.                                                   *)
(***************************************************************************)
EXTENDS HostHandshake, FiniteSetTheorems, SequenceTheorems, TLAPS

\* d is somewhere in s, and at one index only.
In(d, s) == \E k \in DOMAIN s : s[k] = d
Once(d, s) == \A k, l \in DOMAIN s : s[k] = d /\ s[l] = d => k = l

\* Where a connection can be besides its helper and the worker.
InHeld(d) == \E i \in Extra : held[i] = d
InResults(d) == In(d, results)

\* Diallers that have reported, each exactly once.
Reported == {i \in Extra : dpc[i] = "over"}
Counted == received + Len(results) = Cardinality(Reported)

\* What the host and the worker did up to where they stand.
HostPlace ==
    /\ hpc \in {"accept", "attach", "dial"} =>
        received = 0 /\ results = <<>> /\ kept = {} /\ \A i \in Extra : dpc[i] = "none"
    /\ hpc = "accept" => server = "none"
    /\ hpc = "attach" => server = "serving"
    /\ wpc = "ok" => hook
    /\ hpc \in {"dial", "collect", "drain"} \/ (hpc = "returned" /\ ~ hostErr) =>
        (wiring.shared => hook /\ server = "serving")
    /\ hostErr => hpc = "returned" /\ server # "serving" /\ kept = {}
    /\ hpc = "returned" => \/ received = Cardinality(Extra)
                           \/ results = <<>> /\ \A i \in Extra : dpc[i] = "none"

\* A dialler is at its current attempt: no later one has begun.
DialPlace ==
    \A i \in Extra :
        /\ dpc[i] \in {"none", "try"} => helper[<<i, attempt[i]>>] = "none"
        /\ \A a \in 1 .. Attempts : a > attempt[i] => helper[<<i, a>>] = "none"
        /\ dpc[i] = "backoff" => attempt[i] < Attempts
        /\ held[i] # NoConn => held[i] = Current(i) /\ dpc[i] = "report"

\* A connection that has left its helper is open and in one place; an open one is
\* with its helper or has left it for such a place.
OnePlace ==
    \A d \in Dials :
        /\ helper[d] \in {"none", "dialling"} => sock[d] = "none"
        /\ InHeld(d) \/ InResults(d) \/ d \in kept => helper[d] = "gone" /\ sock[d] = "open"
        /\ ~ (InHeld(d) /\ InResults(d)) /\ ~ (InHeld(d) /\ d \in kept)
        /\ ~ (InResults(d) /\ d \in kept)
        /\ sock[d] = "open" => helper[d] = "select" \/ InHeld(d) \/ InResults(d) \/ d \in kept
        /\ Once(d, results)

HandInv == HandshakeTypeOK /\ Counted /\ HostPlace /\ DialPlace /\ OnePlace

-----------------------------------------------------------------------------
(* Facts about the results channel and the attempts                        *)

\* Report puts one more result at the end of the channel.
LEMMA AppendPlaces ==
  ASSUME NEW S, NEW s \in Seq(S), NEW e \in S
  PROVE  /\ Append(s, e) \in Seq(S) /\ Len(Append(s, e)) = Len(s) + 1
         /\ \A d : In(d, Append(s, e)) <=> In(d, s) \/ d = e
         /\ \A d : Once(d, s) /\ (d = e => ~ In(d, s)) => Once(d, Append(s, e))
  <1> DEFINE r == Append(s, e)
  <1>1. /\ r \in Seq(S) /\ Len(r) = Len(s) + 1 /\ r[Len(s) + 1] = e
        /\ \A i \in 1 .. Len(s) : r[i] = s[i]
    BY AppendProperties
  <1>2. DOMAIN r = 1 .. Len(s) + 1 /\ DOMAIN s = 1 .. Len(s) /\ Len(s) \in Nat
    BY <1>1
  <1> HIDE DEF r
  <1>3. \A d : In(d, r) <=> In(d, s) \/ d = e
    BY <1>1, <1>2 DEF In
  <1>4. \A d : Once(d, s) /\ (d = e => ~ In(d, s)) => Once(d, r)
    BY <1>1, <1>2 DEF In, Once
  <1> QED
    BY <1>1, <1>3, <1>4 DEF r

\* Collect and DrainLate take the first one.
LEMMA TailPlaces ==
  ASSUME NEW S, NEW s \in Seq(S), s # <<>>
  PROVE  /\ Tail(s) \in Seq(S) /\ Len(Tail(s)) = Len(s) - 1 /\ Len(s) \in Nat \ {0}
         /\ Head(s) \in S /\ In(Head(s), s)
         /\ \A d : In(d, s) <=> In(d, Tail(s)) \/ d = Head(s)
         /\ \A d : Once(d, s) => Once(d, Tail(s)) /\ (d = Head(s) => ~ In(d, Tail(s)))
  <1> DEFINE r == Tail(s)
  <1>1. /\ r \in Seq(S) /\ Len(r) = Len(s) - 1 /\ \A i \in 1 .. Len(r) : r[i] = s[i + 1]
        /\ Head(s) = s[1] /\ Len(s) \in Nat \ {0}
    BY HeadTailProperties, EmptySeq
  <1>2. DOMAIN r = 1 .. Len(s) - 1 /\ DOMAIN s = 1 .. Len(s) /\ s[1] \in S
    BY <1>1
  <1> HIDE DEF r
  <1>3. In(Head(s), s)
    BY <1>1, <1>2 DEF In
  <1>4. \A d : In(d, s) <=> In(d, r) \/ d = Head(s)
    <2> TAKE d
    <2>1. ASSUME In(d, s) PROVE In(d, r) \/ d = Head(s)
      <3>1. PICK k \in 1 .. Len(s) : s[k] = d
        BY <1>2, <2>1 DEF In
      <3>2. CASE k = 1
        BY <1>1, <3>1, <3>2
      <3>3. CASE k # 1
        <4>1. k - 1 \in 1 .. Len(s) - 1 /\ r[k - 1] = d
          BY <1>1, <3>1, <3>3
        <4> QED
          BY <1>2, <4>1 DEF In
      <3> QED
        BY <3>2, <3>3
    <2>2. ASSUME In(d, r) PROVE In(d, s)
      BY <1>1, <1>2, <2>2 DEF In
    <2> QED
      BY <1>3, <2>1, <2>2
  <1>5. \A d : Once(d, s) => Once(d, r) /\ (d = Head(s) => ~ In(d, r))
    <2> TAKE d
    <2> HAVE Once(d, s)
    <2>1. \A k, l \in 1 .. Len(s) : s[k] = d /\ s[l] = d => k = l
      BY <1>2 DEF Once
    <2>2. ASSUME NEW k \in 1 .. Len(s) - 1 PROVE k + 1 \in 1 .. Len(s) /\ r[k] = s[k + 1]
      BY <1>1
    <2>3. Once(d, r)
      BY <1>1, <1>2, <2>1, <2>2 DEF Once
    <2>4. ASSUME d = Head(s), NEW k \in 1 .. Len(s) - 1 PROVE r[k] # d
      BY <1>1, <2>1, <2>2, <2>4
    <2> QED
      BY <1>2, <2>3, <2>4 DEF In
  <1> QED
    BY <1>1, <1>2, <1>3, <1>4, <1>5 DEF r

\* The attempt of a dialler is one of the dials, and another dialler's is another;
\* the error result is none.
LEMMA CurrentDial ==
  ASSUME HandshakeTypeOK
  PROVE  /\ \A i \in Extra : Current(i) \in Dials
         /\ \A i, j \in Extra : Current(i) = Current(j) => i = j
         /\ NoConn \notin Dials
  BY HandshakeAssumption DEF HandshakeTypeOK, Current, Dials, NoConn

\* The diallers are finitely many, and no more report than there are.
LEMMA ReportedBound ==
  /\ Cardinality(Extra) \in Nat /\ Cardinality(Reported) \in Nat
  /\ Cardinality(Reported) <= Cardinality(Extra)
  <1>1. Reported \subseteq Extra
    BY DEF Reported
  <1> QED
    BY <1>1, HandshakeAssumption, FS_Subset, FS_CardinalityType

\* Steps in which nobody reports.
LEMMA ReportedSame ==
  ASSUME \A i \in Extra : dpc'[i] = "over" <=> dpc[i] = "over"
  PROVE  Cardinality(Reported') = Cardinality(Reported)
  BY DEF Reported

\* Every step keeps the types: an attempt is within its bound, and the host takes no
\* more results than there are diallers.
LEMMA HandTypeStep ==
  HandInv /\ [HandshakeNext]_handshakeVars => HandshakeTypeOK'
  <1> SUFFICES ASSUME HandInv, [HandshakeNext]_handshakeVars PROVE HandshakeTypeOK'
    OBVIOUS
  <1>0. HandshakeTypeOK /\ Counted /\ DialPlace
    BY DEF HandInv
  <1> USE <1>0 DEF HandshakeTypeOK
  <1>1. CASE UNCHANGED handshakeVars
    BY <1>1 DEF handshakeVars
  <1>2. CASE Accept
    BY <1>2, ZenonT(60) DEF Accept, attachVars, dialVars
  <1>3. CASE Attached
    BY <1>3 DEF Attached, attachVars, dialVars
  <1>4. CASE StartDials
    BY <1>4 DEF StartDials, attachVars, dialVars
  <1>5. CASE Collect
    <2>1. Tail(results) \in Seq(Dials \cup {NoConn}) /\ Len(results) \in Nat \ {0}
      BY <1>5, TailPlaces DEF Collect
    <2>2. received' \in 0 .. Cardinality(Extra)
      BY <1>5, <2>1, ReportedBound DEF Collect, Counted
    <2>3. sock' \in [Dials -> {"none", "open", "closed"}]
      BY <1>5 DEF Collect, CloseAll
    <2>4. kept' \subseteq Dials
      BY <1>5, <2>1, TailPlaces DEF Collect
    <2> QED
      BY <1>5, <2>1, <2>2, <2>3, <2>4 DEF Collect, attachVars
  <1>6. CASE DrainLate
    <2>1. Tail(results) \in Seq(Dials \cup {NoConn}) /\ Len(results) \in Nat \ {0}
      BY <1>6, TailPlaces DEF DrainLate
    <2>2. received' \in 0 .. Cardinality(Extra)
      BY <1>6, <2>1, ReportedBound DEF DrainLate, Counted
    <2>3. sock' \in [Dials -> {"none", "open", "closed"}]
      BY <1>6 DEF DrainLate, CloseAll
    <2>4. kept' \subseteq Dials
      BY <1>6, <2>1, TailPlaces DEF DrainLate
    <2> QED
      BY <1>6, <2>1, <2>2, <2>3, <2>4, ZenonT(60) DEF DrainLate, attachVars
  <1>7. CASE Abort
    BY <1>7 DEF Abort, CloseAll, StopServer, attachVars, dialVars
  <1>8. CASE HostCancelled
    BY <1>8 DEF HostCancelled, attachVars, dialVars
  <1>9. CASE WorkerAsked
    BY <1>9 DEF WorkerAsked, NoHandler, attachVars, dialVars
  <1>10. CASE WorkerDials
    BY <1>10 DEF WorkerDials, attachVars, dialVars
  <1>11. CASE WorkerInstalls
    BY <1>11, ZenonT(60) DEF WorkerInstalls, attachVars, dialVars
  <1>12. ASSUME NEW i \in Extra, DiallerStep(i) PROVE HandshakeTypeOK'
    <2>1. CASE Try(i)
      <3>1. dpc' \in [Extra -> {"none", "try", "race", "failed", "backoff", "report", "over"}]
        BY <2>1 DEF Try
      <3>2. Current(i) \in Dials
        BY CurrentDial
      <3>3. helper' \in [Dials -> {"none", "dialling", "select", "gone"}]
        BY <2>1, <3>2 DEF Try
      <3> QED
        BY <2>1, <3>1, <3>3 DEF Try, attachVars
    <2>2. CASE HelperSends(i)
      <3>1. Current(i) \in Dials
        BY CurrentDial
      <3>2. held' \in [Extra -> Dials \cup {NoConn}]
        BY <2>2, <3>1 DEF HelperSends
      <3>3. dpc' \in [Extra -> {"none", "try", "race", "failed", "backoff", "report", "over"}]
        BY <2>2 DEF HelperSends
      <3> QED
        BY <2>2, <3>1, <3>2, <3>3 DEF HelperSends, attachVars
    <2>3. CASE AttemptTimesOut(i)
      BY <2>3, CurrentDial DEF AttemptTimesOut, Bounded, attachVars, dialVars
    <2>4. CASE GiveUpAttempt(i)
      BY <2>4, CurrentDial DEF GiveUpAttempt, attachVars, dialVars
    <2>5. CASE AttemptFailed(i)
      BY <2>5, CurrentDial DEF AttemptFailed, LastAttempt, attachVars, dialVars
    <2>6. CASE Backoff(i)
      <3>1. /\ attempt[i] \in 1 .. Attempts /\ attempt[i] < Attempts /\ Attempts \in Nat
        BY <2>6, HandshakeAssumption DEF Backoff, DialPlace
      <3>2. attempt[i] + 1 \in 1 .. Attempts /\ attempt[i] + 1 > attempt[i]
        BY <3>1
      <3>3. attempt' \in [Extra -> 1 .. Attempts]
        BY <2>6, <3>2 DEF Backoff
      <3> QED
        BY <2>6, <3>3, SMTT(40) DEF Backoff, attachVars
    <2>7. CASE Report(i)
      BY <2>7, CurrentDial DEF Report, attachVars, dialVars
    <2> QED
      BY <1>12, <2>1, <2>2, <2>3, <2>4, <2>5, <2>6, <2>7 DEF DiallerStep
  <1>13. ASSUME NEW d \in Dials, HelperDials(d) PROVE HandshakeTypeOK'
    BY <1>13 DEF HelperDials, attachVars, dialVars
  <1>14. ASSUME NEW d \in Dials, HelperGivesUp(d) PROVE HandshakeTypeOK'
    BY <1>14 DEF HelperGivesUp, attachVars, dialVars
  <1> QED
    BY <1>1, <1>2, <1>3, <1>4, <1>5, <1>6, <1>7, <1>8, <1>9, <1>10, <1>11, <1>12, <1>13, <1>14
    DEF HandshakeNext, HostStep

\* Every result comes from a dialler that has reported, and is there once.
LEMMA CountStep == HandInv /\ [HandshakeNext]_handshakeVars => Counted'
  <1> SUFFICES ASSUME HandInv, [HandshakeNext]_handshakeVars PROVE Counted'
    OBVIOUS
  <1> USE DEF HandInv, HandshakeTypeOK
  <1>1. CASE Collect \/ DrainLate
    <2>1. /\ results' = Tail(results) /\ results # <<>> /\ received' = received + 1 /\ dpc' = dpc
      BY <1>1 DEF Collect, DrainLate
    <2>2. Len(results') = Len(results) - 1 /\ Len(results) \in Nat
      BY <2>1, TailPlaces
    <2>3. Reported' = Reported
      BY <2>1 DEF Reported
    <2> QED
      BY <2>1, <2>2, <2>3 DEF Counted
  <1>2. ASSUME NEW i \in Extra, Report(i) PROVE Counted'
    <2>1. received' = received /\ dpc' = [dpc EXCEPT ![i] = "over"]
      BY <1>2 DEF Report
    <2>2. Len(results') = Len(results) + 1 /\ Len(results) \in Nat
      BY <1>2, AppendPlaces DEF Report
    <2>3. Reported' = Reported \cup {i} /\ i \notin Reported
      BY <1>2, <2>1 DEF Reported, Report
    <2>4. IsFiniteSet(Reported)
      BY HandshakeAssumption, FS_Subset DEF Reported
    <2>5. Cardinality(Reported') = Cardinality(Reported) + 1
      BY <2>3, <2>4, FS_AddElement
    <2> QED
      BY <2>1, <2>2, <2>5 DEF Counted
  <1>3. CASE UNCHANGED <<received, results>> /\ \A i \in Extra : dpc'[i] = "over" <=> dpc[i] = "over"
    BY <1>3, ReportedSame DEF Counted
  <1>4. CASE StartDials
    BY <1>3, <1>4 DEF StartDials, HostPlace
  <1>5. ASSUME NEW i \in Extra, DiallerStep(i), ~ Report(i) PROVE Counted'
    BY <1>3, <1>5 DEF DiallerStep, Try, HelperSends, AttemptTimesOut, GiveUpAttempt, AttemptFailed,
       Backoff
  <1>6. CASE Accept \/ Attached \/ Abort \/ HostCancelled \/ WorkerAsked \/ WorkerDials
             \/ WorkerInstalls \/ UNCHANGED handshakeVars
    BY <1>3, <1>6 DEF Accept, Attached, Abort, HostCancelled, WorkerAsked, WorkerDials,
       WorkerInstalls, dialVars, handshakeVars
  <1>7. ASSUME NEW d \in Dials, HelperDials(d) \/ HelperGivesUp(d) PROVE Counted'
    BY <1>3, <1>7 DEF HelperDials, HelperGivesUp
  <1> QED
    BY <1>1, <1>2, <1>4, <1>5, <1>6, <1>7 DEF HandshakeNext, HostStep

\* The host and the worker.
LEMMA HostPlaceStep ==
  HandInv /\ [HandshakeNext]_handshakeVars => HostPlace'
  <1> SUFFICES ASSUME HandInv, [HandshakeNext]_handshakeVars PROVE HostPlace'
    OBVIOUS
  <1> USE DEF HandInv, HandshakeTypeOK, HostPlace
  <1>1. CASE UNCHANGED handshakeVars
    BY <1>1 DEF handshakeVars
  <1>2. CASE Accept
    BY <1>2, CurrentDial DEF Accept, attachVars, dialVars
  <1>3. CASE Attached
    BY <1>3, CurrentDial DEF Attached, attachVars, dialVars
  <1>4. CASE StartDials
    BY <1>4, CurrentDial DEF StartDials, attachVars, dialVars
  <1>5. CASE Collect
    BY <1>5, CurrentDial DEF Collect, CloseAll, attachVars, dialVars
  <1>6. CASE DrainLate
    BY <1>6, CurrentDial DEF DrainLate, CloseAll, attachVars, dialVars
  <1>7. CASE Abort
    BY <1>7, CurrentDial DEF Abort, CloseAll, StopServer, attachVars, dialVars
  <1>8. CASE HostCancelled
    BY <1>8, CurrentDial DEF HostCancelled, attachVars, dialVars
  <1>9. CASE WorkerAsked
    BY <1>9, CurrentDial DEF WorkerAsked, NoHandler, attachVars, dialVars
  <1>10. CASE WorkerDials
    BY <1>10, CurrentDial DEF WorkerDials, attachVars, dialVars
  <1>11. CASE WorkerInstalls
    BY <1>11, CurrentDial DEF WorkerInstalls, attachVars, dialVars
  <1>12. ASSUME NEW i \in Extra, DiallerStep(i) PROVE HostPlace'
    <2>1. CASE Try(i)
      BY <2>1, CurrentDial DEF Try, attachVars, dialVars
    <2>2. CASE HelperSends(i)
      BY <2>2, CurrentDial DEF HelperSends, Receiving, attachVars, dialVars
    <2>3. CASE AttemptTimesOut(i)
      BY <2>3, CurrentDial DEF AttemptTimesOut, Bounded, attachVars, dialVars
    <2>4. CASE GiveUpAttempt(i)
      BY <2>4, CurrentDial DEF GiveUpAttempt, attachVars, dialVars
    <2>5. CASE AttemptFailed(i)
      BY <2>5, CurrentDial DEF AttemptFailed, LastAttempt, attachVars, dialVars
    <2>6. CASE Backoff(i)
      BY <2>6, CurrentDial DEF Backoff, attachVars, dialVars
    <2>7. CASE Report(i)
      BY <2>7, CurrentDial DEF Report, attachVars, dialVars
    <2> QED
      BY <1>12, <2>1, <2>2, <2>3, <2>4, <2>5, <2>6, <2>7 DEF DiallerStep
  <1>13. ASSUME NEW d \in Dials, HelperDials(d) PROVE HostPlace'
    BY <1>13, CurrentDial DEF HelperDials, attachVars, dialVars
  <1>14. ASSUME NEW d \in Dials, HelperGivesUp(d) PROVE HostPlace'
    BY <1>14, CurrentDial DEF HelperGivesUp, attachVars, dialVars
  <1> QED
    BY <1>1, <1>2, <1>3, <1>4, <1>5, <1>6, <1>7, <1>8, <1>9, <1>10, <1>11, <1>12, <1>13, <1>14
    DEF HandshakeNext, HostStep

\* The diallers.
LEMMA DialPlaceStep ==
  HandInv /\ [HandshakeNext]_handshakeVars => DialPlace'
  <1> SUFFICES ASSUME HandInv, [HandshakeNext]_handshakeVars PROVE DialPlace'
    OBVIOUS
  <1> USE DEF HandInv, HandshakeTypeOK, HostPlace, DialPlace, Current, Dials
  <1>1. CASE UNCHANGED handshakeVars
    BY <1>1 DEF handshakeVars
  <1>2. CASE Accept
    BY <1>2, CurrentDial DEF Accept, attachVars, dialVars
  <1>3. CASE Attached
    BY <1>3, CurrentDial DEF Attached, attachVars, dialVars
  <1>4. CASE StartDials
    BY <1>4, CurrentDial DEF StartDials, attachVars, dialVars
  <1>5. CASE Collect
    BY <1>5, CurrentDial DEF Collect, CloseAll, attachVars, dialVars
  <1>6. CASE DrainLate
    BY <1>6, CurrentDial DEF DrainLate, CloseAll, attachVars, dialVars
  <1>7. CASE Abort
    BY <1>7, CurrentDial DEF Abort, CloseAll, StopServer, attachVars, dialVars
  <1>8. CASE HostCancelled
    BY <1>8, CurrentDial DEF HostCancelled, attachVars, dialVars
  <1>9. CASE WorkerAsked
    BY <1>9, CurrentDial DEF WorkerAsked, NoHandler, attachVars, dialVars
  <1>10. CASE WorkerDials
    BY <1>10, CurrentDial DEF WorkerDials, attachVars, dialVars
  <1>11. CASE WorkerInstalls
    BY <1>11, CurrentDial DEF WorkerInstalls, attachVars, dialVars
  <1>12. ASSUME NEW i \in Extra, DiallerStep(i) PROVE DialPlace'
    <2>1. CASE Try(i)
      BY <2>1, CurrentDial DEF Try, attachVars, dialVars
    <2>2. CASE HelperSends(i)
      BY <2>2, CurrentDial DEF HelperSends, Receiving, attachVars, dialVars
    <2>3. CASE AttemptTimesOut(i)
      BY <2>3, CurrentDial DEF AttemptTimesOut, Bounded, attachVars, dialVars
    <2>4. CASE GiveUpAttempt(i)
      BY <2>4, CurrentDial DEF GiveUpAttempt, attachVars, dialVars
    <2>5. CASE AttemptFailed(i)
      BY <2>5, HandshakeAssumption DEF AttemptFailed, LastAttempt
    <2>6. CASE Backoff(i)
      <3>1. /\ attempt[i] \in 1 .. Attempts /\ attempt[i] < Attempts /\ Attempts \in Nat
        BY <2>6, HandshakeAssumption DEF Backoff
      <3>2. attempt[i] + 1 \in 1 .. Attempts /\ attempt[i] + 1 > attempt[i]
        BY <3>1
      <3>3. held[i] = NoConn /\ helper[<<i, attempt[i] + 1>>] = "none"
        BY <2>6, <3>2 DEF Backoff
      <3>4. UNCHANGED <<helper, held>>
        BY <2>6 DEF Backoff
      <3>5. CASE attempt' = [attempt EXCEPT ![i] = @ + 1] /\ dpc' = [dpc EXCEPT ![i] = "try"]
        BY <3>1, <3>2, <3>3, <3>4, <3>5
      <3>6. CASE attempt' = attempt /\ dpc' = [dpc EXCEPT ![i] = "report"]
        BY <3>1, <3>3, <3>4, <3>6
      <3> QED
        BY <2>6, <3>5, <3>6 DEF Backoff
    <2>7. CASE Report(i)
      BY <2>7, CurrentDial DEF Report, attachVars, dialVars
    <2> QED
      BY <1>12, <2>1, <2>2, <2>3, <2>4, <2>5, <2>6, <2>7 DEF DiallerStep
  <1>13. ASSUME NEW d \in Dials, HelperDials(d) PROVE DialPlace'
    <2>1. \A e \in Dials : helper[e] = "none" => helper'[e] = "none"
      BY <1>13 DEF HelperDials
    <2>2. UNCHANGED <<dpc, attempt, held>>
      BY <1>13 DEF HelperDials
    <2>3. \A j \in Extra, a \in 1 .. Attempts : <<j, a>> \in Dials
      OBVIOUS
    <2>4. \A j \in Extra : attempt[j] \in 1 .. Attempts
      OBVIOUS
    <2> HIDE DEF Dials
    <2> QED
      BY <2>1, <2>2, <2>3, <2>4
  <1>14. ASSUME NEW d \in Dials, HelperGivesUp(d) PROVE DialPlace'
    <2>1. \A e \in Dials : helper[e] = "none" => helper'[e] = "none"
      BY <1>14 DEF HelperGivesUp
    <2>2. UNCHANGED <<dpc, attempt, held>>
      BY <1>14 DEF HelperGivesUp
    <2>3. \A j \in Extra, a \in 1 .. Attempts : <<j, a>> \in Dials
      OBVIOUS
    <2>4. \A j \in Extra : attempt[j] \in 1 .. Attempts
      OBVIOUS
    <2> HIDE DEF Dials
    <2> QED
      BY <2>1, <2>2, <2>3, <2>4
  <1> QED
    BY <1>1, <1>2, <1>3, <1>4, <1>5, <1>6, <1>7, <1>8, <1>9, <1>10, <1>11, <1>12, <1>13, <1>14
    DEF HandshakeNext, HostStep

\* The connections.
LEMMA OnePlaceStep ==
  HandInv /\ [HandshakeNext]_handshakeVars => OnePlace'
  <1> SUFFICES ASSUME HandInv, [HandshakeNext]_handshakeVars PROVE OnePlace'
    OBVIOUS
  <1> USE DEF HandInv, HandshakeTypeOK, DialPlace, OnePlace, InHeld, InResults
  <1>1. CASE UNCHANGED handshakeVars
    BY <1>1 DEF handshakeVars
  <1>2. CASE Accept
    BY <1>2, CurrentDial DEF Accept, attachVars, dialVars
  <1>3. CASE Attached
    BY <1>3, CurrentDial DEF Attached, attachVars, dialVars
  <1>4. CASE StartDials
    BY <1>4, CurrentDial DEF StartDials, attachVars, dialVars
  <1>5. CASE Collect
    <2>1. PICK h : h = Head(results)
      OBVIOUS
    <2>2. /\ UNCHANGED <<helper, held>> /\ results' = Tail(results) /\ results # <<>>
          /\ results \in Seq(Dials \cup {NoConn})
      BY <1>5 DEF Collect
    <2>3. /\ \A e : InResults(e) <=> InResults(e)' \/ e = h
          /\ \A e : Once(e, results) => Once(e, results') /\ (e = h => ~ InResults(e)')
      BY <2>1, <2>2, TailPlaces
    <2>4. \A e : InHeld(e)' <=> InHeld(e)
      BY <2>2
    <2> HIDE DEF InHeld, InResults
    <2>5. CASE hostCtx
      <3>1. kept' = kept /\ sock' = CloseAll({h})
        BY <1>5, <2>1, <2>5 DEF Collect
      <3> QED
        BY <2>1, <2>2, <2>3, <2>4, <3>1 DEF CloseAll
    <2>6. CASE ~ hostCtx
      <3>1. kept' = kept \cup ({h} \ {NoConn}) /\ sock' = sock
        BY <1>5, <2>1, <2>6 DEF Collect
      <3> QED
        BY <2>1, <2>2, <2>3, <2>4, <3>1, CurrentDial
    <2> QED
      BY <2>5, <2>6
  <1>6. CASE DrainLate
    <2>1. PICK h : h = Head(results)
      OBVIOUS
    <2>2. /\ UNCHANGED <<helper, held>> /\ results' = Tail(results) /\ results # <<>>
          /\ results \in Seq(Dials \cup {NoConn})
      BY <1>6 DEF DrainLate
    <2>3. /\ \A e : InResults(e) <=> InResults(e)' \/ e = h
          /\ \A e : Once(e, results) => Once(e, results') /\ (e = h => ~ InResults(e)')
      BY <2>1, <2>2, TailPlaces
    <2>4. \A e : InHeld(e)' <=> InHeld(e)
      BY <2>2
    <2> HIDE DEF InHeld, InResults
    <2>5. kept' = kept /\ sock' = CloseAll({h})
      BY <1>6, <2>1 DEF DrainLate
    <2> QED
      BY <2>1, <2>2, <2>3, <2>4, <2>5 DEF CloseAll
  <1>7. CASE Abort
    BY <1>7, CurrentDial DEF Abort, CloseAll, StopServer, attachVars, dialVars
  <1>8. CASE HostCancelled
    BY <1>8, CurrentDial DEF HostCancelled, attachVars, dialVars
  <1>9. CASE WorkerAsked
    BY <1>9, CurrentDial DEF WorkerAsked, NoHandler, attachVars, dialVars
  <1>10. CASE WorkerDials
    BY <1>10, CurrentDial DEF WorkerDials, attachVars, dialVars
  <1>11. CASE WorkerInstalls
    BY <1>11, CurrentDial DEF WorkerInstalls, attachVars, dialVars
  <1>12. ASSUME NEW i \in Extra, DiallerStep(i) PROVE OnePlace'
    <2>1. CASE Try(i)
      <3> DEFINE c == Current(i)
      <3>1. c \in Dials /\ helper[c] = "none" /\ UNCHANGED <<held, results, kept, sock>>
        BY <2>1, CurrentDial DEF Try, Current
      <3>2. helper' = helper \/ helper' = [helper EXCEPT ![c] = "dialling"]
        BY <2>1 DEF Try
      <3> HIDE DEF c
      <3> QED
        BY <3>1, <3>2
    <2>2. CASE HelperSends(i)
      <3> DEFINE c == Current(i)
      <3>1. /\ c \in Dials /\ helper[c] = "select" /\ UNCHANGED <<results, kept, sock>>
            /\ helper' = [helper EXCEPT ![c] = "gone"] /\ held[i] = NoConn /\ NoConn \notin Dials
        BY <2>2, CurrentDial DEF HelperSends, Receiving
      <3>2. /\ sock[c] = "open" => held' = [held EXCEPT ![i] = c]
            /\ sock[c] # "open" => held' = held
        BY <2>2 DEF HelperSends, Receiving
      <3> HIDE DEF c
      <3>3. \A e \in Dials : InHeld(e)' <=> InHeld(e) \/ (e = c /\ sock[c] = "open")
        BY <3>1, <3>2
      <3>4. \A e \in Dials : InResults(e)' <=> InResults(e)
        BY <3>1
      <3> HIDE DEF InHeld, InResults
      <3> QED
        BY <3>1, <3>3, <3>4
    <2>3. CASE AttemptTimesOut(i)
      BY <2>3, CurrentDial DEF AttemptTimesOut, Bounded, attachVars, dialVars
    <2>4. CASE GiveUpAttempt(i)
      BY <2>4, CurrentDial DEF GiveUpAttempt, attachVars, dialVars
    <2>5. CASE AttemptFailed(i)
      BY <2>5, CurrentDial DEF AttemptFailed, LastAttempt, attachVars, dialVars
    <2>6. CASE Backoff(i)
      BY <2>6, CurrentDial DEF Backoff, attachVars, dialVars
    <2>7. CASE Report(i)
      <3>1. /\ UNCHANGED <<helper, sock, kept>> /\ NoConn \notin Dials
            /\ held' = [held EXCEPT ![i] = NoConn] /\ results' = Append(results, held[i])
        BY <2>7, CurrentDial DEF Report
      <3>2. \A e \in Dials : InHeld(e) <=> InHeld(e)' \/ e = held[i]
        BY <3>1, CurrentDial
      <3>3. \A e \in Dials : e = held[i] => ~ InHeld(e)'
        <4>1. \A j \in Extra : held[j] \in Dials => held[j] = Current(j)
          <5> HIDE DEF OnePlace, HandshakeTypeOK
          <5> QED
            BY <3>1
        <4>2. \A j \in Extra : held[i] \in Dials /\ held[j] = held[i] => j = i
          BY <4>1, CurrentDial
        <4> QED
          BY <3>1, <4>2
      <3>4. /\ \A e : InResults(e)' <=> InResults(e) \/ e = held[i]
            /\ \A e : Once(e, results) /\ (e = held[i] => ~ InResults(e)) => Once(e, results')
        <4>1. results \in Seq(Dials \cup {NoConn}) /\ held[i] \in Dials \cup {NoConn}
          OBVIOUS
        <4> HIDE DEF OnePlace, DialPlace, HandshakeTypeOK, HandInv
        <4>2. /\ \A e : In(e, Append(results, held[i])) <=> In(e, results) \/ e = held[i]
              /\ \A e : Once(e, results) /\ (e = held[i] => ~ In(e, results)) =>
                        Once(e, Append(results, held[i]))
          BY <4>1, AppendPlaces
        <4> QED
          BY <3>1, <4>2
      <3>5. held[i] \in Dials => InHeld(held[i])
        OBVIOUS
      <3> HIDE DEF InHeld, InResults
      <3> QED
        BY <3>1, <3>2, <3>3, <3>4, <3>5
    <2> QED
      BY <1>12, <2>1, <2>2, <2>3, <2>4, <2>5, <2>6, <2>7 DEF DiallerStep
  <1>13. ASSUME NEW d \in Dials, HelperDials(d) PROVE OnePlace'
    BY <1>13, CurrentDial DEF HelperDials, attachVars, dialVars
  <1>14. ASSUME NEW d \in Dials, HelperGivesUp(d) PROVE OnePlace'
    BY <1>14, CurrentDial DEF HelperGivesUp, attachVars, dialVars
  <1> QED
    BY <1>1, <1>2, <1>3, <1>4, <1>5, <1>6, <1>7, <1>8, <1>9, <1>10, <1>11, <1>12, <1>13, <1>14
    DEF HandshakeNext, HostStep

-----------------------------------------------------------------------------
(* The theorems                                                            *)

\* The invariant holds before the host has done anything.
LEMMA HandStarts == (\E w \in Wirings : HandshakeInit(w)) => HandInv
  <1> SUFFICES ASSUME NEW w \in Wirings, HandshakeInit(w) PROVE HandInv
    OBVIOUS
  <1> USE DEF HandshakeInit
  <1>1. results \in Seq(Dials \cup {NoConn}) /\ Len(results) = 0 /\ DOMAIN results = {}
    OBVIOUS
  <1>2. HandshakeTypeOK
    <2>1. wiring \in [shared : BOOLEAN, handler : BOOLEAN]
      BY DEF Wirings
    <2>2. received \in 0 .. Cardinality(Extra)
      BY ReportedBound
    <2>3. attempt \in [Extra -> 1 .. Attempts] /\ held \in [Extra -> Dials \cup {NoConn}]
      BY HandshakeAssumption
    <2> QED
      BY <1>1, <2>1, <2>2, <2>3 DEF HandshakeTypeOK
  <1>3. Counted
    <2>1. Reported = {}
      BY DEF Reported
    <2> QED
      BY <1>1, <2>1, FS_EmptySet DEF Counted
  <1>4. HostPlace
    BY DEF HostPlace
  <1>5. DialPlace
    BY HandshakeAssumption DEF DialPlace, Dials
  <1>6. OnePlace
    BY <1>1, <1>2, CurrentDial DEF OnePlace, InHeld, InResults, In, Once
  <1> QED
    BY <1>2, <1>3, <1>4, <1>5, <1>6 DEF HandInv

\* The invariant is inductive.
LEMMA HandStep == HandInv /\ [HandshakeNext]_handshakeVars => HandInv'
  BY HandTypeStep, CountStep, HostPlaceStep, DialPlaceStep, OnePlaceStep DEF HandInv

\* The state of the handshake is well typed: no dialler goes past its last attempt
\* and the host takes no more results than it started diallers.
THEOREM HandshakeTypeCorrect == HandshakeSpec => []HandshakeTypeOK
  <1>1. HandInv => HandshakeTypeOK
    BY DEF HandInv
  <1>2. QED
    BY <1>1, HandStarts, HandStep, PTL DEF HandshakeSpec

\* An open connection, however late its dial came back, is with exactly one owner
\* that will use or close it.
THEOREM NoConnectionIsLost == HandshakeSpec => []DialsAccounted
  <1>1. ASSUME HandInv, NEW d \in Dials, sock[d] = "open"
        PROVE  Cardinality(Places(d)) = 1
    <2>1. /\ helper[d] = "select" \/ InHeld(d) \/ InResults(d) \/ d \in kept
          /\ InHeld(d) \/ InResults(d) \/ d \in kept => helper[d] # "select"
          /\ ~ (InHeld(d) /\ InResults(d)) /\ ~ (InHeld(d) /\ d \in kept)
          /\ ~ (InResults(d) /\ d \in kept)
      BY <1>1 DEF HandInv, OnePlace
    <2>2. Places(d) = (IF helper[d] = "select" THEN {"helper"} ELSE {})
                      \cup (IF InHeld(d) THEN {"dialler"} ELSE {})
                      \cup (IF InResults(d) THEN {"results"} ELSE {})
                      \cup (IF d \in kept THEN {"worker"} ELSE {})
      BY DEF Places, InHeld, InResults, In
    <2>3. Places(d) \in {{"helper"}, {"dialler"}, {"results"}, {"worker"}}
      BY <2>1, <2>2
    <2> QED
      BY <2>3, FS_Singleton
  <1>2. HandInv => DialsAccounted
    BY <1>1 DEF DialsAccounted
  <1>3. QED
    BY <1>2, HandStarts, HandStep, PTL DEF HandshakeSpec

\* GRPCClient either returns a worker whose shared-state hook is set and whose
\* connections are open, or an error with the reverse server stopped and no result
\* left behind.
THEOREM AttachesOrCleansUp == HandshakeSpec => []AttachedOrClean
  <1>1. ASSUME HandInv PROVE AttachedOrClean
    <2>1. hpc = "returned" => results = <<>>
      <3>1. ASSUME received = Cardinality(Extra) PROVE results = <<>>
        <4>1. Len(results) = 0
          BY <1>1, <3>1, ReportedBound DEF HandInv, HandshakeTypeOK, Counted
        <4> QED
          BY <1>1, <4>1, EmptySeq DEF HandInv, HandshakeTypeOK
      <3> QED
        BY <1>1, <3>1 DEF HandInv, HostPlace
    <2>2. \A d \in kept : sock[d] = "open"
      BY <1>1 DEF HandInv, HandshakeTypeOK, OnePlace
    <2> QED
      BY <1>1, <2>1, <2>2 DEF HandInv, HostPlace, AttachedOrClean
  <1>2. QED
    BY <1>1, HandStarts, HandStep, PTL DEF HandshakeSpec
=============================================================================
