----------------------------- MODULE ClientView -----------------------------
(***************************************************************************)
(* What Pool.CallStream promises the reader of one request, without        *)
(* workers, transport, buffers or retries: a text that grows piece by      *)
(* piece, in the order in which one upstream produced it, and is taken     *)
(* back as a whole; and at most one answer, which belongs to the text held *)
(* when it comes.  A piece is known by where it comes from: the attempt,   *)
(* the window of the attempt and its number there.                         *)
(***************************************************************************)
EXTENDS Naturals, Sequences

CONSTANTS Pieces, None

VARIABLES
    round,   \* attempts made so far
    text,    \* what the reader holds
    answer,  \* what it was answered, None before that
    open     \* the reader is still served

viewVars == <<round, text, answer, open>>

ViewInit == round = 1 /\ text = <<>> /\ answer = None /\ open = TRUE

\* The text held was produced where p was.
SameSource(p) == \A i \in 1..Len(text) : text[i].attempt = p.attempt /\ text[i].window = p.window

\* It stops before p.
Before(p) == \A i \in 1..Len(text) : text[i].n < p.n

\* It is left over from attempts that failed.
Outdated(p) == \A i \in 1..Len(text) : text[i].attempt < p.attempt

\* A partial continues the text, or takes its place.
Partial ==
    /\ open /\ text' # <<>>
    /\ LET p == text'[Len(text')] IN
        /\ p \in Pieces /\ p.attempt = round
        /\ \/ SameSource(p) /\ Before(p) /\ text' = Append(text, p)
           \/ Outdated(p) /\ text' = <<p>>
    /\ UNCHANGED <<round, answer, open>>

TakeBack ==
    /\ open /\ text' = <<>>
    /\ UNCHANGED <<round, answer, open>>

Answer ==
    /\ open /\ open' = FALSE
    /\ answer' \in Pieces /\ answer'.attempt = round
    /\ \/ SameSource(answer') /\ UNCHANGED text
       \/ Outdated(answer') /\ text' = <<>>
    /\ UNCHANGED round

\* An error, or the reader leaves.
Close ==
    /\ open /\ open' = FALSE
    /\ UNCHANGED <<round, text, answer>>

\* The attempt failed; never once there is an answer.
NextRound ==
    /\ answer = None
    /\ round' = round + 1
    /\ UNCHANGED <<text, answer, open>>

ViewNext ==
    Partial \/ TakeBack \/ Answer \/ Close \/ NextRound

ViewSpec == ViewInit /\ [][ViewNext]_viewVars
=============================================================================
