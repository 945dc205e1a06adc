----------------------------- MODULE MCGateway -----------------------------
(***************************************************************************)
(* Gateway with two keys and batches of two.                               *)
(***************************************************************************)
EXTENDS Gateway

CONSTANTS a1, a2, a3, b1, A, B

MCKeyOf == [r \in Requests |-> IF r = b1 THEN B ELSE A]

(* Pass-through mode behind a server that does not drain has nobody who    *)
(* waits for a running call (see NoCallOnClosedClient).                    *)
MCDeployments ==
    {[mode |-> "batched", drains |-> TRUE],
     [mode |-> "batched", drains |-> FALSE],
     [mode |-> "pass_through", drains |-> TRUE],
     [mode |-> "pass_through", drains |-> FALSE]}

(* The process has exited, and nobody can reach it or waits for it.        *)
Terminating ==
    /\ server = "exited"
    /\ UNCHANGED vars

MCSpec == Init /\ [][Next \/ Terminating]_vars /\ Fairness
=============================================================================
