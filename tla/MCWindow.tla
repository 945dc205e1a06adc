------------------------------ MODULE MCWindow ------------------------------
(***************************************************************************)
(* CollectWindow for four requests: one with a deadline that the estimated *)
(* backend time alone exceeds, one whose deadline leaves less than a       *)
(* window, one whose deadline leaves more, and one without.                *)
(***************************************************************************)
EXTENDS CollectWindow

CONSTANTS
    r1, r2, r3, r4,
    Horizon  \* how long the coordinator stays away at most

(* The policy that was configured: Policy is the fixed one, and the other  *)
(* one has the same requests before it.                                    *)
VARIABLE configured

Adaptive == INSTANCE CollectWindow WITH Policy <- "adaptive"

MCAllowance ==
    [r \in Requests |->
        CASE r = r1 -> 1 [] r = r2 -> 4 [] r = r3 -> 7 [] OTHER -> NoDeadline]

(* _collect_batch has returned.                                            *)
Terminating == state = "done" /\ UNCHANGED <<vars, configured>>

MCInit == Init /\ configured \in {"fixed", "adaptive"}

MCNext ==
    \/ /\ \/ configured = "fixed" /\ Next
          \/ configured = "adaptive" /\ Adaptive!Next
       /\ state = "away" => now' <= Horizon
       /\ UNCHANGED configured
    \/ Terminating

Scheduling ==
    /\ WF_vars(configured = "fixed" /\ Coordinator)
    /\ WF_vars(configured = "adaptive" /\ Adaptive!Coordinator)

MCSpec == MCInit /\ [][MCNext]_<<vars, configured>> /\ Scheduling
=============================================================================
