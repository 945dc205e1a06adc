--------------------------- MODULE MCFinalMatrix ---------------------------
(***************************************************************************)
(* FinalMatrix with a direct and two gateway modes.                        *)
(***************************************************************************)
EXTENDS FinalMatrix

MCModes == <<"direct", "fixed", "adaptive">>

(* The harness has been invoked for the last time, and nothing runs.       *)
Terminating ==
    /\ pc = "off"
    /\ run = MaxRuns
    /\ UNCHANGED vars

MCSpec == Init /\ [][Next \/ Terminating]_vars

(* Nobody kills the harness.                                               *)
MCUnkilledSpec == Init /\ [][Unkilled \/ Terminating]_vars

MCFairSpec == MCSpec /\ WF_vars(Harness)
=============================================================================
