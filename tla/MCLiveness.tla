---------------------------- MODULE MCLiveness -----------------------------
(***************************************************************************)
(* What must happen in Batcher in the end, under two kinds of callers.     *)
(* The first call once, may be cancelled, and somebody may call stop().    *)
(* The second never stop coming: a settled request that left the batcher   *)
(* may be made again.  Stamps are renumbered and counters forgotten then,  *)
(* so that the state space stays finite; nobody cancels and nobody calls   *)
(* stop().                                                                 *)
(***************************************************************************)
EXTENDS Batcher

CONSTANTS a1, a2, b1, b2, A, B

VARIABLE endless  \* the callers are of the second kind

MCvars == <<vars, endless>>

MCKeyOf == [r \in Requests |-> IF r \in {b1, b2} THEN B ELSE A]

MCInit == Init /\ endless \in BOOLEAN

-----------------------------------------------------------------------------
(* Among the requests still held, the place of r in the order of arrival.  *)
Rank(r) ==
    Cardinality({enqueuedAt[q] : q \in
        {p \in Held : enqueuedAt[p] <= enqueuedAt[r]}})

(* The caller of r comes back with a new request.                          *)
Again(r) ==
    /\ Yielded
    /\ Settled(r)
    /\ r \notin Held
    /\ outcome' = [outcome EXCEPT ![r] = "none"]
    /\ answer' = [answer EXCEPT ![r] = None]
    /\ enqueuedAt' = [q \in Requests |-> IF q \in Held THEN Rank(q) ELSE 0]
    /\ clock' = Cardinality({enqueuedAt[q] : q \in Held})
    /\ metrics' = [c \in Counters |-> 0]
    /\ UNCHANGED <<worker, batching, shutdown>>

(* The clock advances between two acceptances.                             *)
AcceptLater(r) == Accept(r) /\ clock' > clock

Endless ==
    \/ Start
    \/ \E r \in Requests : Reject(r) \/ AcceptLater(r) \/ Again(r)
    \/ Coordinator

-----------------------------------------------------------------------------
(* The first kind needs no more than three requests: b2 is not made.       *)
Once == Next /\ outcome'[b2] = "none"

(* stop() is over and every call has ended.                                *)
Terminating ==
    /\ shutdown \in {"returned", "raised"}
    /\ \A r \in Requests \ {b2} : Settled(r)
    /\ UNCHANGED vars

MCNext ==
    /\ \/ endless /\ Endless
       \/ ~endless /\ (Once \/ Terminating)
    /\ UNCHANGED endless

(* The policies close every window: wait_s is what is left of the oldest   *)
(* request's max_wait_ms, so a batch is not kept open forever, unless      *)
(* cancellations move the window on.                                       *)
MCSpec ==
    /\ MCInit /\ [][MCNext]_MCvars
    /\ Fairness
    /\ SF_vars(endless /\ CloseWindow)

-----------------------------------------------------------------------------
(* However many requests of other keys keep arriving, every accepted       *)
(* request is settled: the oldest key goes first, and within a key the     *)
(* oldest request.                                                         *)
NoStarvation == \A r \in Requests : endless /\ Live(r) ~> ~Live(r)
=============================================================================
