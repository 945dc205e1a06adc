--------------------------- MODULE CollectWindow ---------------------------
(***************************************************************************)
(* The time that DynamicBatcher._collect_batch keeps one batch open.       *)
(*                                                                         *)
(* Batcher abstracts the policy; here it is the real one and time passes,  *)
(* in whole ticks.  The coordinator takes no time between two awaits, so   *)
(* the clock stands still while it runs and when its timer is due.  Only   *)
(* the deque of the key being collected matters, and of the deque only the *)
(* arrival times, so it is a set.                                          *)
(***************************************************************************)
EXTENDS BatchPolicies, FiniteSets

CONSTANTS
    Requests,      \* requests, those in the deque of one compatibility key
    Allowance,     \* deadline_ms of each request, or NoDeadline
    MaxBatchSize,  \* max_batch_size
    MaxWait,       \* max_wait_ms
    BackendTime,   \* the estimate of the backend's time, fixed meanwhile
    Gaps           \* what the arrival rate estimate may be, at any moment

ASSUME WindowAssumption ==
    /\ IsFiniteSet(Requests)
    /\ Allowance \in [Requests -> Nat \cup {NoDeadline}]
    /\ MaxBatchSize \in Nat \ {0}
    /\ MaxWait \in Nat
    /\ BackendTime \in Nat
    /\ Gaps \subseteq Nat

VARIABLES
    state,       \* "away", then "collect" and "wait" in turn, then "done"
    deque,       \* the requests in the deque of the key
    cancelled,   \* the requests whose caller has gone
    arrived,     \* the requests that were ever put
    enqueuedAt,  \* metadata.enqueued_at
    now,         \* the monotonic clock
    timer,       \* when wait_for times out
    began        \* when _collect_batch was entered

vars == <<state, deque, cancelled, arrived, enqueuedAt, now, timer, began>>

Active == deque \ cancelled

Due(r) == enqueuedAt[r] + Allowance[r]

Deadlines(S) == {Due(r) : r \in {q \in S : Allowance[q] # NoDeadline}}

Init ==
    /\ state = "away"
    /\ deque = {}
    /\ cancelled = {}
    /\ arrived = {}
    /\ enqueuedAt = [r \in Requests |-> 0]
    /\ now = 0
    /\ timer = 0
    /\ began = 0

(* A request is put.  It ends the wait for one, if there is one.           *)
Arrive(r) ==
    /\ state \in {"away", "wait"}
    /\ r \notin arrived
    /\ arrived' = arrived \cup {r}
    /\ deque' = deque \cup {r}
    /\ enqueuedAt' = [enqueuedAt EXCEPT ![r] = now]
    /\ state' = IF state = "wait" THEN "collect" ELSE state
    /\ UNCHANGED <<cancelled, now, timer, began>>

(* A request of another key ends the wait too, and so does one whose       *)
(* caller has gone before it is taken: the loop goes round without it.     *)
PassBy(r) ==
    /\ state = "wait"
    /\ r \notin arrived
    /\ arrived' = arrived \cup {r}
    /\ state' = "collect"
    /\ UNCHANGED <<deque, cancelled, enqueuedAt, now, timer, began>>

Cancel(r) ==
    /\ state \in {"away", "wait"}
    /\ r \in Active
    /\ cancelled' = cancelled \cup {r}
    /\ UNCHANGED <<state, deque, arrived, enqueuedAt, now, timer, began>>

(* The coordinator turns to this key; it may have been busy elsewhere.     *)
Begin ==
    /\ state = "away"
    /\ deque # {}
    /\ state' = "collect"
    /\ began' = now
    /\ UNCHANGED <<deque, cancelled, arrived, enqueuedAt, now, timer>>

(* Looks at the deque before sweeping it.                                  *)
NothingBug ==
    /\ state = "collect"
    /\ deque = {}
    /\ state' = "done"
    /\ UNCHANGED <<deque, cancelled, arrived, enqueuedAt, now, timer, began>>

(* Everybody in the deque has gone.                                        *)
Nothing ==
    /\ state = "collect"
    /\ Active = {}
    /\ deque' = {}
    /\ state' = "done"
    /\ UNCHANGED <<cancelled, arrived, enqueuedAt, now, timer, began>>

(* What _snapshot may say of the swept deque.                              *)
Snapshot(oldest, gap, deadline) ==
    [now |-> now, oldest |-> enqueuedAt[oldest], size |-> Cardinality(Active),
     maxSize |-> MaxBatchSize, maxWait |-> MaxWait, gap |-> gap,
     backend |-> BackendTime, deadline |-> deadline]

(* The newest request of the deque.                                        *)
OldestBug(S) == {r \in S : \A q \in S : enqueuedAt[q] <= enqueuedAt[r]}

Oldest(S) == {r \in S : \A q \in S : enqueuedAt[r] <= enqueuedAt[q]}

(* The deadline that leaves most time.                                     *)
EarliestBug(S) ==
    {d \in Deadlines(S) : \A e \in Deadlines(S) : d >= e}
        \cup {d \in {NoDeadline} : Deadlines(S) = {}}

Earliest(S) ==
    {d \in Deadlines(S) : \A e \in Deadlines(S) : d <= e}
        \cup {d \in {NoDeadline} : Deadlines(S) = {}}

(* Sweep the deque, ask the policy, and dispatch or wait.                  *)
Ask ==
    /\ state = "collect"
    /\ deque' = Active
    /\ \E oldest \in Oldest(Active), gap \in Gaps,
          deadline \in Earliest(Active) :
        LET decision == Decide(Snapshot(oldest, gap, deadline)) IN
        \/ /\ decision.dispatch
           /\ state' = "done"
           /\ UNCHANGED timer
        \/ /\ ~decision.dispatch
           /\ state' = "wait"
           /\ timer' = now + decision.wait
    /\ UNCHANGED <<cancelled, arrived, enqueuedAt, now, began>>

TimedOut ==
    /\ state = "wait"
    /\ now >= timer
    /\ state' = "done"
    /\ UNCHANGED <<deque, cancelled, arrived, enqueuedAt, now, timer, began>>

Tick ==
    /\ \/ state = "away"
       \/ state = "wait" /\ now < timer
    /\ now' = now + 1
    /\ UNCHANGED <<state, deque, cancelled, arrived, enqueuedAt, timer, began>>

Next ==
    \/ \E r \in Requests : Arrive(r) \/ PassBy(r) \/ Cancel(r)
    \/ Begin \/ Nothing \/ Ask \/ TimedOut \/ Tick

Spec == Init /\ [][Next]_vars

Coordinator == Nothing \/ Ask \/ TimedOut \/ (state = "wait" /\ Tick)

(* The event loop runs the coordinator when it is ready, and the timer of  *)
(* wait_for fires.                                                         *)
Fairness == WF_vars(Coordinator)

-----------------------------------------------------------------------------
(* Properties                                                              *)

(* Every variable has its type.                                            *)
TypeOK ==
    /\ state \in {"away", "collect", "wait", "done"}
    /\ deque \in SUBSET Requests
    /\ cancelled \in SUBSET Requests
    /\ arrived \in SUBSET Requests
    /\ enqueuedAt \in [Requests -> Nat]
    /\ now \in Nat
    /\ timer \in Nat
    /\ began \in Nat

(* While the batch is kept open, nobody in it has waited longer than       *)
(* max_wait_ms: later arrivals and cancellations of older requests never   *)
(* push the timer past the window of a request that is still there.        *)
WindowHonoured ==
    state = "wait" => \A r \in Active : now <= enqueuedAt[r] + MaxWait

(* Nor is anybody kept waiting so long that the estimated backend time no  *)
(* longer fits before the deadline.                                        *)
SlackKept ==
    state = "wait" => \A r \in Active :
        Allowance[r] # NoDeadline => now + BackendTime <= Due(r)

(* How long other keys wait for this one: at most one window, unless       *)
(* requests of this key are cancelled, which moves the window on to the    *)
(* next request.                                                           *)
OthersWaitOneWindow ==
    state = "wait" /\ cancelled = {} => now <= began + MaxWait

(* A batch that the coordinator has turned to is dispatched or dropped.    *)
Closes == state \in {"collect", "wait"} ~> state = "done"
=============================================================================
