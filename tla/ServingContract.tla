-------------------------- MODULE ServingContract --------------------------
(***************************************************************************)
(* What DynamicBatcher promises its callers, without queues, deques or a   *)
(* coordinator: the futures, the one backend call that may be running and  *)
(* the phase of the service.  Batcher implements it (BatcherContract).     *)
(***************************************************************************)
EXTENDS Naturals, FiniteSets

CONSTANTS Requests, Keys, KeyOf, MaxBatchSize, QueueMaxSize

VARIABLES
    outcome,  \* the state of each request's future, or why it has none
    call,     \* the requests of the backend call that is running
    phase     \* "unopened", "open", "closing", "closed" or "broken"

vars == <<outcome, call, phase>>

Unsettled == {r \in Requests : outcome[r] = "pending"}

(* Accepted requests that may still take up a place in the queue: a        *)
(* cancelled one keeps it until the batcher comes across it.               *)
Backlog == {r \in Requests : outcome[r] \in {"pending", "cancelled"}}

Become(S, o) ==
    outcome' = [r \in Requests |->
        IF r \in S /\ outcome[r] = "pending" THEN o ELSE outcome[r]]

Init ==
    /\ outcome = [r \in Requests |-> "none"]
    /\ call = {}
    /\ phase = "unopened"

Open == phase = "unopened" /\ phase' = "open" /\ UNCHANGED <<outcome, call>>

(* A new request is refused exactly when the service is not open.          *)
Refuse(r) ==
    /\ phase # "open"
    /\ outcome[r] = "none"
    /\ outcome' = [outcome EXCEPT ![r] = "refused"]
    /\ UNCHANGED <<call, phase>>

(* It is turned away for overload only if as many are ahead of it.         *)
Reject(r) ==
    /\ phase = "open"
    /\ outcome[r] = "none"
    /\ Cardinality(Backlog) >= QueueMaxSize
    /\ outcome' = [outcome EXCEPT ![r] = "rejected"]
    /\ UNCHANGED <<call, phase>>

Accept(r) ==
    /\ phase = "open"
    /\ outcome[r] = "none"
    /\ outcome' = [outcome EXCEPT ![r] = "pending"]
    /\ UNCHANGED <<call, phase>>

Cancel(r) ==
    /\ r \in Unsettled
    /\ outcome' = [outcome EXCEPT ![r] = "cancelled"]
    /\ UNCHANGED <<call, phase>>

(* One call at a time, for compatible requests somebody still waits for.   *)
Dispatch(S) ==
    /\ phase = "open"
    /\ call = {}
    /\ S # {}
    /\ Cardinality(S) <= MaxBatchSize
    /\ S \subseteq Unsettled
    /\ \A r, q \in S : KeyOf[r] = KeyOf[q]
    /\ call' = S
    /\ UNCHANGED <<outcome, phase>>

(* The call settles all its unsettled requests at once, the same way.      *)
Finish(o) ==
    /\ phase = "open"
    /\ call # {}
    /\ Become(call, o)
    /\ call' = {}
    /\ UNCHANGED phase

Close ==
    /\ \/ phase = "open" /\ phase' = "closing"
       \/ phase = "unopened" /\ phase' = "closed"
    /\ UNCHANGED <<outcome, call>>

(* Closing abandons the call that is running, ...                          *)
Abandon ==
    /\ phase = "closing"
    /\ call # {}
    /\ call' = {}
    /\ UNCHANGED <<outcome, phase>>

(* ... and then settles whoever still waits.                               *)
Settle ==
    /\ phase = "closing"
    /\ call = {}
    /\ Become(Requests, "stopped")
    /\ phase' = "closed"
    /\ UNCHANGED call

(* Closing fails when the coordinator had died, which takes a cancelled    *)
(* request: nobody is settled.                                             *)
Break ==
    /\ phase = "open"
    /\ call = {}
    /\ \E r \in Requests : outcome[r] = "cancelled"
    /\ phase' = "broken"
    /\ UNCHANGED <<outcome, call>>

Next ==
    \/ Open \/ Close \/ Abandon \/ Settle \/ Break
    \/ \E r \in Requests : Refuse(r) \/ Reject(r) \/ Accept(r) \/ Cancel(r)
    \/ \E S \in SUBSET Requests : Dispatch(S)
    \/ \E o \in {"result", "error"} : Finish(o)

Spec == Init /\ [][Next]_vars
=============================================================================
