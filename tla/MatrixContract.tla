-------------------------- MODULE MatrixContract --------------------------
(***************************************************************************)
(* What the resumable matrix of bench/final.py promises to the analysis,   *)
(* however often it is interrupted: a condition gets its evidence once and *)
(* for good, and the matrix is published when every condition has some.    *)
(***************************************************************************)
EXTENDS Naturals, Sequences

CONSTANTS
    Cells,     \* the conditions
    Evidence,  \* what a condition can end with
    None       \* no evidence yet, or not published

VARIABLES
    evidence,  \* of each condition
    published  \* the evidence in the file for the whole matrix

vars == <<evidence, published>>

Init ==
    /\ evidence = [c \in Cells |-> None]
    /\ published = None

(* A condition that has no evidence gets it.                               *)
Settle(c) ==
    /\ evidence[c] = None
    /\ evidence'[c] \in Evidence
    /\ evidence' = [evidence EXCEPT ![c] = evidence'[c]]
    /\ UNCHANGED published

Publish ==
    /\ \A c \in Cells : evidence[c] # None
    /\ published' = evidence
    /\ UNCHANGED evidence

Next ==
    \/ \E c \in Cells : Settle(c)
    \/ Publish

Spec == Init /\ [][Next]_vars
=============================================================================
