------------------------------ MODULE RunHistory ------------------------------
(***************************************************************************)
(* What the job history promises its readers: a run's row stands for an    *)
(* attempt that has finished, it is only replaced by a later attempt, and  *)
(* rows leave only by eviction.                                            *)
(***************************************************************************)
EXTENDS Naturals

CONSTANTS Run, MaxAttempt

VARIABLES
    finished,   \* the attempts of each run that have finished so far
    stored      \* the attempt in each run's row, 0 without one

Init == finished = [r \in Run |-> 0] /\ stored = [r \in Run |-> 0]

FinishAttempt(r) ==
    /\ finished[r] < MaxAttempt
    /\ finished' = [finished EXCEPT ![r] = @ + 1]
    /\ UNCHANGED stored

Store(r, a) ==
    /\ stored[r] < a /\ a <= finished[r]
    /\ stored' = [stored EXCEPT ![r] = a]
    /\ UNCHANGED finished

Evict(out) ==
    /\ stored' = [r \in Run |-> IF r \in out THEN 0 ELSE stored[r]]
    /\ UNCHANGED finished

Next ==
    \/ \E r \in Run : FinishAttempt(r) \/ \E a \in 1 .. MaxAttempt : Store(r, a)
    \/ \E out \in SUBSET Run : Evict(out)

Spec == Init /\ [][Next]_<<finished, stored>>
====
