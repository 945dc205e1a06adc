----------------------------- MODULE MCBatcher -----------------------------
(***************************************************************************)
(* Batcher on a small instance: two keys, a full batch of two, an ingress  *)
(* queue of two.                                                           *)
(***************************************************************************)
EXTENDS BatcherContract, TLC

CONSTANTS a1, a2, a3, b1, b2, A, B

MCKeyOf == [r \in Requests |-> IF r \in {b1, b2} THEN B ELSE A]

(* Requests of one key are interchangeable.                                *)
MCSymmetry ==
    Permutations(Requests \cap {a1, a2, a3})
        \cup Permutations(Requests \cap {b1, b2})

(* The program may stop: stop() is over and every call has ended.          *)
Terminating ==
    /\ shutdown \in {"returned", "raised"}
    /\ \A r \in Requests : Settled(r)
    /\ UNCHANGED vars

MCSpec == Init /\ [][Next \/ Terminating]_vars
=============================================================================
