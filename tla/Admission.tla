------------------------------ MODULE Admission ------------------------------
(***************************************************************************)
(* What ResolutionAdmission promises, without slots, files or polls: a     *)
(* thread that asks is let in while fewer than Limit are inside, or is     *)
(* turned away, and a thread that is gone is neither inside nor waiting.   *)
(***************************************************************************)
EXTENDS Integers, FiniteSets

CONSTANTS Thread, Limit

VARIABLES waiting, inside

vars == <<waiting, inside>>

Init == waiting = {} /\ inside = {}

Ask(t) ==
    /\ t \notin waiting \cup inside
    /\ waiting' = waiting \cup {t}
    /\ UNCHANGED inside

Admit(t) ==
    /\ t \in waiting /\ Cardinality(inside) < Limit
    /\ waiting' = waiting \ {t}
    /\ inside' = inside \cup {t}

Refuse(t) ==
    /\ t \in waiting
    /\ waiting' = waiting \ {t}
    /\ UNCHANGED inside

Leave(t) ==
    /\ t \in inside
    /\ inside' = inside \ {t}
    /\ UNCHANGED waiting

\* A process takes its threads with it, in one step.
Gone(threads) ==
    /\ waiting' = waiting \ threads
    /\ inside' = inside \ threads

Next ==
    \/ \E t \in Thread : Ask(t) \/ Admit(t) \/ Refuse(t) \/ Leave(t)
    \/ \E threads \in SUBSET Thread : Gone(threads)

Spec == Init /\ [][Next]_vars
=============================================================================
