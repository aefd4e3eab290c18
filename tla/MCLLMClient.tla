---------------------------- MODULE MCLLMClient ----------------------------
(***************************************************************************)
(* Model-checking instance of the LLM HTTP client: the body of a streamed  *)
(* answer and unary calls.  The two share no state, so a behaviour is one  *)
(* of either and the other rests in its initial state.                     *)
(***************************************************************************)
EXTENDS StreamBody, UnaryCall

VARIABLE part    \* "body" or "call": the part that runs

callVars == <<cacheVars, unaryVars>>
vars == <<part, streamVars, callVars>>

OneCall == CHOOSE c \in Calls : TRUE
OneOrigin == CHOOSE o \in Origins : TRUE

\* Bodies of every kind; calls that ask for one origin or for two.
Init ==
    \/ /\ part = "body"
       /\ \E b \in Bodies : StreamInit(b)
       /\ CacheInit([c \in Calls |-> OneOrigin]) /\ UnaryInit
    \/ /\ part = "call"
       /\ StreamInit([kind |-> "exact", firstBody |-> TRUE, idle |-> TRUE])
       /\ \E o \in Origins : CacheInit([c \in Calls |-> IF c = OneCall THEN OneOrigin ELSE o])
       /\ UnaryInit

Next ==
    \/ part = "body" /\ StreamNext /\ UNCHANGED <<part, callVars>>
    \/ part = "call" /\ UnaryNext /\ UNCHANGED <<part, streamVars>>

\* Goroutines are scheduled and timers fire in the part that runs.  Nothing is
\* assumed of the upstream, or of probes and requests in the air.
Spec ==
    /\ Init /\ [][Next]_vars
    /\ WF_streamVars(part = "body" /\ ReaderRuns)
    /\ WF_streamVars(part = "body" /\ ReaderWakes)
    /\ WF_streamVars(part = "body" /\ TimerExpires)
    /\ WF_streamVars(part = "body" /\ DeadlineRuns)
    /\ \A c \in Calls : WF_callVars(part = "call" /\ CallerRuns(c))
=============================================================================
