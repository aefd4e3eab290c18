-------------------------- MODULE IdempotentCounter --------------------------
(***************************************************************************)
(* What the shared-state store promises its callers, without scopes,       *)
(* mutexes, cache entries or a sweeper (the contract stated at the head of *)
(* workerplugin/sharedstate.go): a counter per key from which an operation *)
(* draws at most one value, and repeats of the operation are answered with *)
(* the value it drew, until the operation is expired.                      *)
(***************************************************************************)
EXTENDS Integers

CONSTANTS Keys, Ops, None, Seeds, Modulus, Delta

VARIABLES
    count,     \* count[k]: next value of the counter, None before first use
    issued,    \* issued[k][o]: values operation o drew from counter k
    answers,   \* answers[k][o]: values o's callers were given
    expired    \* operations whose request ended or which idled past the TTL

absvars == <<count, issued, answers, expired>>

AbsInit ==
    /\ count = [k \in Keys |-> None]
    /\ issued = [k \in Keys |-> [o \in Ops |-> {}]]
    /\ answers = [k \in Keys |-> [o \in Ops |-> {}]]
    /\ expired = {}

Seed(k) ==
    /\ count[k] = None
    /\ \E v \in Seeds : count' = [count EXCEPT ![k] = v]
    /\ UNCHANGED <<issued, answers, expired>>

\* A live operation draws only once from a counter.
Draw(k, o) ==
    /\ count[k] # None
    /\ o \in expired \/ issued[k][o] = {}
    /\ issued' = [issued EXCEPT ![k][o] = @ \cup {count[k]}]
    /\ count' = [count EXCEPT ![k] = (@ + Delta) % Modulus]
    /\ UNCHANGED <<answers, expired>>

DrawPlain(k) ==
    /\ count[k] # None
    /\ count' = [count EXCEPT ![k] = (@ + Delta) % Modulus]
    /\ UNCHANGED <<issued, answers, expired>>

Answer(k, o) ==
    /\ \E v \in issued[k][o] : answers' = [answers EXCEPT ![k][o] = @ \cup {v}]
    /\ UNCHANGED <<count, issued, expired>>

Expire(o) ==
    /\ expired' = expired \cup {o}
    /\ UNCHANGED <<count, issued, answers>>

AbsNext ==
    \/ \E k \in Keys : Seed(k) \/ DrawPlain(k)
    \/ \E k \in Keys, o \in Ops : Draw(k, o) \/ Answer(k, o)
    \/ \E o \in Ops : Expire(o)

AbsSpec == AbsInit /\ [][AbsNext]_absvars
=============================================================================
