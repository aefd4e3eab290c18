--------------------------- MODULE MCWorkerWiring ---------------------------
(***************************************************************************)
(* Model-checking instance of what ties a worker to its host: the          *)
(* handshake at its start and the resolution of clients that draws from    *)
(* the host's counters.  Resolution runs on workers whose handshake is     *)
(* over; a behaviour is one of either and the other rests.                 *)
(***************************************************************************)
EXTENDS HostHandshake, ClientResolution

VARIABLE part    \* "handshake" or "resolution": the part that runs

vars == <<part, handshakeVars, resolutionVars>>

\* F falls back over a rotation, an unsupported leaf and a driven one; R rotates
\* over F and the rotation Q.  A is driven by BuildRequest, B is not.
MCClients == {"F", "R", "Q", "A", "B"}

MCProvider ==
    [c \in MCClients |-> CASE c = "F" -> "fallback"
                           [] c \in {"R", "Q"} -> "rr"
                           [] c = "A" -> "ok"
                           [] c = "B" -> "other"]

MCChain ==
    [c \in MCClients |-> CASE c = "F" -> <<"Q", "B", "A">>
                           [] c = "R" -> <<"F", "Q">>
                           [] c = "Q" -> <<"A", "B">>
                           [] OTHER -> <<>>]

\* R starts at a negative index, so its counter wraps on the second request.
MCStarts == [c \in MCClients |-> IF c = "R" THEN -1 ELSE 0]

\* Two tries of one request and one of another.
MCRequestOf == [t \in {1, 2, 3} |-> IF t = 3 THEN 2 ELSE 1]

NoOverrides == [c \in MCClients |-> NoEntryFor]

\* Overrides of a client: each field left out, invalid, or one of a few values
\* that also make the client graph cyclic.
Overrides ==
    [there : {TRUE}, provider : {"absent", "", "rr", "fallback", "ok"},
     strategy : {NoStrategy} \cup [present : {TRUE}, chain : {<<>>, <<"A", "R">>, <<"Q", "B">>}],
     start : {NoStart, [kind |-> "invalid", at |-> 0], [kind |-> "valid", at |-> -1]}]

\* All tries on an untouched registry, or one try with two clients overridden.
ResolutionStart ==
    \E root \in {"R", "F"} :
        \/ ResolutionInit(NoOverrides, root, Tries)
        \/ \E c, d \in {"F", "R", "Q", "B"}, e, f \in Overrides :
              ResolutionInit([NoOverrides EXCEPT ![c] = e, ![d] = f], root, {1})

Init ==
    \/ /\ part = "handshake"
       /\ \E w \in Wirings : HandshakeInit(w)
       /\ ResolutionInit(NoOverrides, "F", {})
    \/ /\ part = "resolution"
       /\ HandshakeInit([shared |-> TRUE, handler |-> TRUE])
       /\ ResolutionStart

Next ==
    \/ part = "handshake" /\ HandshakeNext /\ UNCHANGED <<part, resolutionVars>>
    \/ part = "resolution" /\ ResolutionNext /\ UNCHANGED <<part, handshakeVars>>

\* Host and diallers are scheduled and their timers fire.  A dial of the broker may
\* hang for good, and so may the worker's answer to the attach call, which the host
\* gives up on.
Spec ==
    /\ Init /\ [][Next]_vars
    /\ WF_handshakeVars(part = "handshake" /\ HostStep)
    /\ \A i \in Extra : WF_handshakeVars(part = "handshake" /\ DiallerStep(i))
=============================================================================
