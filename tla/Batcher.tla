------------------------------ MODULE Batcher ------------------------------
(***************************************************************************)
(* The dynamic batcher of the gateway: gateway/core/batcher.py.            *)
(*                                                                         *)
(* Callers put requests on a bounded ingress queue and wait on a future.   *)
(* One coordinator task moves them into one deque per compatibility key,   *)
(* picks the key whose head is oldest, holds its batch open until the      *)
(* policy closes it, calls the backend and settles the futures.  stop()    *)
(* cancels the coordinator and settles what is left.                       *)
(*                                                                         *)
(* asyncio runs one task at a time and switches only at an await.  The     *)
(* coordinator is therefore a program counter with two kinds of values: in *)
(* Running it is between two awaits and no other task can take a step;     *)
(* elsewhere it is suspended and callers, cancellations and stop()         *)
(* interleave freely.  Loops that contain no await (draining, sweeping,    *)
(* popping) take one step per iteration, which nobody can observe.         *)
(*                                                                         *)
(* The policy is represented by what every policy promises: a full batch   *)
(* is dispatched, any other may be.  BatchPolicies has the policies.       *)
(*                                                                         *)
(* A definition whose name ends in Bug is a seeded fault.  No action uses  *)
(* one; put in the place of the definition that follows it, it breaks a    *)
(* property of this module.                                                *)
(***************************************************************************)
EXTENDS Naturals, Sequences, FiniteSets, Functions

CONSTANTS
    Requests,       \* calls to infer(), one per element
    Keys,           \* compatibility keys: model, max_tokens and temperature
    KeyOf,          \* the key of each request
    MaxBatchSize,   \* max_batch_size
    QueueMaxSize,   \* queue_max_size, the bound of the ingress queue only
    None            \* no key selected, or no answer yet

ASSUME KeyOfAssumption == KeyOf \in [Requests -> Keys]
ASSUME BatchSizeAssumption == MaxBatchSize \in Nat \ {0}
ASSUME QueueSizeAssumption == QueueMaxSize \in Nat \ {0}
ASSUME NoneAssumption == None \notin Keys \cup Requests

VARIABLES
    worker,      \* where the coordinator task is
    key,         \* the key that _collect_batch works for
    ingress,     \* self._queue
    keyed,       \* the keys present in self._queues
    pending,     \* the deque of each key, empty for an absent key
    batch,       \* the list that _pop_batch builds
    inflight,    \* self._inflight
    outcome,     \* the state of each request's future, or why it has none
    answer,      \* the request whose output the future received
    enqueuedAt,  \* metadata.enqueued_at
    clock,       \* the reading of the monotonic clock at the last acceptance
    metrics,     \* the counters of MetricsRegistry that the batcher moves
    shutdown     \* the progress of stop()

queues == <<ingress, keyed, pending>>
batching == <<key, queues, batch, inflight>>
stamps == <<enqueuedAt, clock>>
callers == <<outcome, answer, enqueuedAt, clock, metrics>>
vars == <<worker, key, ingress, keyed, pending, batch, inflight, outcome,
          answer, enqueuedAt, clock, metrics, shutdown>>

(* The coordinator is between two awaits.                                  *)
Running == {"drain", "redrain", "collect", "pop"}

(* The coordinator is suspended at an await (or has not begun).            *)
Suspended == {"new", "idle", "wait", "backend"}

WorkerStates == Running \cup Suspended \cup {"none", "cancelled", "crashed"}

(* "none": not called yet.  "refused": RuntimeError, the batcher is not    *)
(* accepting.  "rejected": QueueOverloadedError.  The others are the       *)
(* states of the future: unsettled, a response, the backend's error,       *)
(* BatcherStoppedError, and cancelled with its caller.                     *)
Outcomes == {"none", "refused", "rejected", "pending",
             "result", "error", "stopped", "cancelled"}

Counters == {"completed", "failed", "rejected", "batches"}

Live(r) == outcome[r] = "pending"

(* Requests in a container of the batcher, and those still to be batched.  *)
Queued == UNION {Range(pending[k]) : k \in Keys}
Waiting == Range(ingress) \cup Queued
Held == Waiting \cup Range(batch) \cup Range(inflight)

(* Other tasks run only while the coordinator is suspended or gone.        *)
Yielded == worker \notin Running

(* Counts batches instead of requests.                                     *)
BumpBug(counter, n) == [metrics EXCEPT ![counter] = @ + 1]

Bump(counter, n) == [metrics EXCEPT ![counter] = @ + n]

Init ==
    /\ worker = "none"
    /\ key = None
    /\ ingress = <<>>
    /\ keyed = {}
    /\ pending = [k \in Keys |-> <<>>]
    /\ batch = <<>>
    /\ inflight = <<>>
    /\ outcome = [r \in Requests |-> "none"]
    /\ answer = [r \in Requests |-> None]
    /\ enqueuedAt = [r \in Requests |-> 0]
    /\ clock = 0
    /\ metrics = [c \in Counters |-> 0]
    /\ shutdown = "no"

-----------------------------------------------------------------------------
(* Callers                                                                 *)

(* start(): the coordinator task is created and begins later.              *)
Start ==
    /\ worker = "none"
    /\ shutdown = "no"
    /\ worker' = "new"
    /\ UNCHANGED <<batching, callers, shutdown>>

(* stop() does not close the door.                                         *)
AcceptingBug == worker # "none"

Accepting == worker # "none" /\ shutdown = "no"

(* infer() before start() or after stop() raises at once.                  *)
Refuse(r) ==
    /\ Yielded
    /\ outcome[r] = "none"
    /\ ~Accepting
    /\ outcome' = [outcome EXCEPT ![r] = "refused"]
    /\ UNCHANGED <<worker, batching, answer, stamps, metrics, shutdown>>

(* infer() with a full ingress queue.                                      *)
Reject(r) ==
    /\ Yielded
    /\ outcome[r] = "none"
    /\ Accepting
    /\ Len(ingress) >= QueueMaxSize
    /\ outcome' = [outcome EXCEPT ![r] = "rejected"]
    /\ metrics' = Bump("rejected", 1)
    /\ UNCHANGED <<worker, batching, answer, stamps, shutdown>>

(* infer() up to its await: stamp, put_nowait, wait on the future.  Two    *)
(* readings of the monotonic clock may be equal, none is earlier.          *)
Accept(r) ==
    /\ Yielded
    /\ outcome[r] = "none"
    /\ Accepting
    /\ Len(ingress) < QueueMaxSize
    /\ clock' \in {clock, clock + 1}
    /\ enqueuedAt' = [enqueuedAt EXCEPT ![r] = clock']
    /\ ingress' = Append(ingress, r)
    /\ outcome' = [outcome EXCEPT ![r] = "pending"]
    /\ UNCHANGED <<worker, key, keyed, pending, batch, inflight, answer,
                   metrics, shutdown>>

(* The caller's task is cancelled: its future is cancelled at once, and    *)
(* the request stays wherever the batcher holds it.                        *)
Cancel(r) ==
    /\ Yielded
    /\ Live(r)
    /\ outcome' = [outcome EXCEPT ![r] = "cancelled"]
    /\ UNCHANGED <<worker, batching, answer, stamps, metrics, shutdown>>

-----------------------------------------------------------------------------
(* The coordinator: _run, _collect_batch and _dispatch                     *)

(* appendleft in place of append.                                          *)
EnqueuePendingBug(r) ==
    IF Live(r)
    THEN /\ keyed' = keyed \cup {KeyOf[r]}
         /\ pending' = [pending EXCEPT ![KeyOf[r]] = <<r>> \o @]
    ELSE UNCHANGED <<keyed, pending>>

(* A request joins the deque of its key unless its future is done.         *)
EnqueuePending(r) ==
    IF Live(r)
    THEN /\ keyed' = keyed \cup {KeyOf[r]}
         /\ pending' = [pending EXCEPT ![KeyOf[r]] = Append(@, r)]
    ELSE UNCHANGED <<keyed, pending>>

TakeFromIngress ==
    /\ ingress # <<>>
    /\ ingress' = Tail(ingress)
    /\ EnqueuePending(Head(ingress))

(* The task takes its first step.                                          *)
WorkerBegins ==
    /\ worker = "new"
    /\ shutdown = "no"
    /\ worker' = "drain"
    /\ UNCHANGED <<batching, callers, shutdown>>

(* One iteration of _drain_queue.                                          *)
Drain ==
    /\ worker \in {"drain", "redrain"}
    /\ TakeFromIngress
    /\ UNCHANGED <<worker, key, batch, inflight, callers, shutdown>>

(* Waits for a new request although deques hold some.                      *)
GoIdleBug ==
    /\ worker = "drain"
    /\ ingress = <<>>
    /\ worker' = "idle"
    /\ UNCHANGED <<batching, callers, shutdown>>

(* Nothing to batch: await self._queue.get().                              *)
GoIdle ==
    /\ worker = "drain"
    /\ ingress = <<>>
    /\ keyed = {}
    /\ worker' = "idle"
    /\ UNCHANGED <<batching, callers, shutdown>>

(* That get() returns; drain again before choosing a key.                  *)
IdleWake ==
    /\ worker = "idle"
    /\ shutdown = "no"
    /\ TakeFromIngress
    /\ worker' = "redrain"
    /\ UNCHANGED <<key, batch, inflight, callers, shutdown>>

(* The first key of the dict, not the oldest.                              *)
OldestKeysBug == keyed

(* The keys whose head has the smallest enqueued_at, done or not.          *)
OldestKeys ==
    {k \in keyed : \A other \in keyed :
        enqueuedAt[Head(pending[k])] <= enqueuedAt[Head(pending[other])]}

(* _oldest_key().                                                          *)
PickOldest ==
    /\ worker \in {"drain", "redrain"}
    /\ ingress = <<>>
    /\ key' \in OldestKeys
    /\ worker' = "collect"
    /\ UNCHANGED <<queues, batch, inflight, callers, shutdown>>

(* No check for an empty dict before the get() either.                     *)
PickFailsBug ==
    /\ worker \in {"drain", "redrain"}
    /\ ingress = <<>>
    /\ keyed = {}
    /\ worker' = "crashed"
    /\ UNCHANGED <<batching, callers, shutdown>>

(* After the get() of line 144 nothing checks self._queues again: min() of *)
(* an empty dict raises ValueError and the task ends.                      *)
PickFails ==
    /\ worker = "redrain"
    /\ ingress = <<>>
    /\ keyed = {}
    /\ worker' = "crashed"
    /\ UNCHANGED <<batching, callers, shutdown>>

Remove(s, i) == SubSeq(s, 1, i - 1) \o SubSeq(s, i + 1, Len(s))

Swept == \A i \in DOMAIN pending[key] : Live(pending[key][i])

(* One iteration of _remove_cancelled: drop the first done request.        *)
Sweep ==
    /\ worker = "collect"
    /\ \E i \in DOMAIN pending[key] :
        /\ ~Live(pending[key][i])
        /\ \A j \in 1..(i - 1) : Live(pending[key][j])
        /\ pending' = [pending EXCEPT ![key] = Remove(@, i)]
    /\ UNCHANGED <<worker, key, ingress, keyed, batch, inflight, callers,
                   shutdown>>

(* The swept deque is empty: forget the key and start over.                *)
CollectNothing ==
    /\ worker = "collect"
    /\ pending[key] = <<>>
    /\ keyed' = keyed \ {key}
    /\ key' = None
    /\ worker' = "drain"
    /\ UNCHANGED <<ingress, pending, batch, inflight, callers, shutdown>>

(* The policy closes the batch.                                            *)
DispatchNow ==
    /\ worker = "collect"
    /\ Swept
    /\ pending[key] # <<>>
    /\ worker' = "pop"
    /\ UNCHANGED <<batching, callers, shutdown>>

(* The policy keeps a batch that is not full open.  wait_for(get()) yields *)
(* nothing to other tasks when the ingress queue has a request already.    *)
KeepOpen ==
    /\ worker = "collect"
    /\ Swept
    /\ pending[key] # <<>>
    /\ Len(pending[key]) < MaxBatchSize
    /\ IF ingress = <<>>
       THEN /\ worker' = "wait"
            /\ UNCHANGED queues
       ELSE /\ TakeFromIngress
            /\ UNCHANGED worker
    /\ UNCHANGED <<key, batch, inflight, callers, shutdown>>

(* A request arrived in time: decide again.                                *)
WaitWake ==
    /\ worker = "wait"
    /\ shutdown = "no"
    /\ TakeFromIngress
    /\ worker' = "collect"
    /\ UNCHANGED <<key, batch, inflight, callers, shutdown>>

(* The cancelled get() had taken the request that arrived at the last      *)
(* moment, as wait_for allowed before Python 3.12.                         *)
WaitTimeoutBug ==
    /\ worker = "wait"
    /\ shutdown = "no"
    /\ ingress' = IF ingress = <<>> THEN ingress ELSE Tail(ingress)
    /\ worker' = "pop"
    /\ UNCHANGED <<key, keyed, pending, batch, inflight, callers, shutdown>>

(* TimeoutError, which a request put meanwhile does not prevent: it stays  *)
(* on the ingress queue.                                                   *)
WaitTimeout ==
    /\ worker = "wait"
    /\ shutdown = "no"
    /\ worker' = "pop"
    /\ UNCHANGED <<batching, callers, shutdown>>

(* Trusts the sweep: a request cancelled while the batch was open joins it.*)
JoinBatchBug(r) == Append(batch, r)

(* A done request leaves the deque but does not join the batch.            *)
JoinBatch(r) == IF Live(r) THEN Append(batch, r) ELSE batch

(* Reads the head without removing it.                                     *)
PopNextBug ==
    /\ worker = "pop"
    /\ pending[key] # <<>>
    /\ Len(batch) < MaxBatchSize
    /\ batch' = JoinBatch(Head(pending[key]))
    /\ UNCHANGED <<worker, key, queues, inflight, callers, shutdown>>

(* One iteration of _pop_batch.                                            *)
PopNext ==
    /\ worker = "pop"
    /\ pending[key] # <<>>
    /\ Len(batch) < MaxBatchSize
    /\ pending' = [pending EXCEPT ![key] = Tail(@)]
    /\ batch' = JoinBatch(Head(pending[key]))
    /\ UNCHANGED <<worker, key, ingress, keyed, inflight, callers, shutdown>>

(* Leaves the loop one request short of a full batch.                      *)
PoppedBug == pending[key] = <<>> \/ Len(batch) >= MaxBatchSize - 1

Popped == pending[key] = <<>> \/ Len(batch) >= MaxBatchSize

(* Leaves the empty deque in self._queues.                                 *)
ForgetEmptyKeyBug == keyed' = keyed

(* del self._queues[key], a KeyError if the key were absent.               *)
ForgetEmptyKey ==
    keyed' = IF pending[key] = <<>> THEN keyed \ {key} ELSE keyed

(* Every popped request was done: _dispatch returns at once.               *)
SkipEmptyBatch ==
    /\ worker = "pop"
    /\ Popped
    /\ batch = <<>>
    /\ ForgetEmptyKey
    /\ key' = None
    /\ worker' = "drain"
    /\ UNCHANGED <<ingress, pending, batch, inflight, callers, shutdown>>

(* _dispatch up to the await of the backend call.                          *)
Dispatch ==
    /\ worker = "pop"
    /\ Popped
    /\ batch # <<>>
    /\ ForgetEmptyKey
    /\ key' = None
    /\ inflight' = batch
    /\ batch' = <<>>
    /\ metrics' = Bump("batches", 1)
    /\ worker' = "backend"
    /\ UNCHANGED <<ingress, pending, outcome, answer, stamps, shutdown>>

(* Outputs in another order, and every output in place of one.             *)
OutputsReversedBug(requests) ==
    [i \in DOMAIN requests |-> requests[Len(requests) + 1 - i]]
OutputsNestedBug(requests) == [i \in DOMAIN requests |-> requests]

(* The backends answer a batch with one output per request, in its order.  *)
Outputs(requests) == requests

(* No check of future.done().                                              *)
LiveInBug(requests) == Range(requests)

LiveIn(requests) == {r \in Range(requests) : Live(r)}

Slot(requests, r) == CHOOSE i \in DOMAIN requests : requests[i] = r

(* The backend answered: settle every future that is not done.             *)
BackendReturns ==
    /\ worker = "backend"
    /\ shutdown = "no"
    /\ outcome' = [r \in Requests |->
           IF r \in LiveIn(inflight) THEN "result" ELSE outcome[r]]
    /\ answer' = [r \in Requests |->
           IF r \in LiveIn(inflight)
           THEN Outputs(inflight)[Slot(inflight, r)] ELSE answer[r]]
    /\ metrics' = Bump("completed", Cardinality(LiveIn(inflight)))
    /\ inflight' = <<>>
    /\ worker' = "drain"
    /\ UNCHANGED <<key, queues, batch, stamps, shutdown>>

(* The call raised, or returned the wrong number of outputs.  The counter  *)
(* moves for every request of the batch, those of departed callers too.    *)
BackendFails ==
    /\ worker = "backend"
    /\ shutdown = "no"
    /\ outcome' = [r \in Requests |->
           IF r \in LiveIn(inflight) THEN "error" ELSE outcome[r]]
    /\ metrics' = Bump("failed", Len(inflight))
    /\ inflight' = <<>>
    /\ worker' = "drain"
    /\ UNCHANGED <<key, queues, batch, answer, stamps, shutdown>>

-----------------------------------------------------------------------------
(* stop()                                                                  *)

(* Up to the await of the coordinator.  Without one there is nothing held; *)
(* a crashed one re-raises here, before anything is settled.               *)
Stop ==
    /\ Yielded
    /\ shutdown = "no"
    /\ shutdown' = CASE worker = "none" -> "returned"
                     [] worker = "crashed" -> "raised"
                     [] OTHER -> "joining"
    /\ UNCHANGED <<worker, batching, callers>>

(* The backend call swallows the cancellation.                             *)
WorkerCancelledBug ==
    /\ shutdown = "joining"
    /\ worker \in Suspended \ {"backend"}
    /\ worker' = "cancelled"
    /\ UNCHANGED <<batching, callers, shutdown>>

(* CancelledError reaches the coordinator at its await.  _stopped is set,  *)
(* so the finally clause of _dispatch leaves self._inflight alone.         *)
WorkerCancelled ==
    /\ shutdown = "joining"
    /\ worker \in Suspended
    /\ worker' = "cancelled"
    /\ UNCHANGED <<batching, callers, shutdown>>

(* Forgets the batch that was in flight.                                   *)
LeftToStopBug == Waiting

(* What stop() goes through: self._inflight, self._queue, self._queues.    *)
LeftToStop == Waiting \cup Range(inflight)

(* stop() resumes and settles every request it finds.                      *)
StopSettles ==
    /\ shutdown = "joining"
    /\ worker = "cancelled"
    /\ outcome' = [r \in Requests |->
           IF Live(r) /\ r \in LeftToStop THEN "stopped" ELSE outcome[r]]
    /\ ingress' = <<>>
    /\ keyed' = {}
    /\ pending' = [k \in Keys |-> <<>>]
    /\ inflight' = <<>>
    /\ shutdown' = "returned"
    /\ UNCHANGED <<worker, key, batch, answer, stamps, metrics>>

-----------------------------------------------------------------------------
Caller(r) == Refuse(r) \/ Reject(r) \/ Accept(r) \/ Cancel(r)

CloseWindow == DispatchNow \/ WaitTimeout

Coordinator ==
    \/ WorkerBegins \/ Drain \/ GoIdle \/ IdleWake
    \/ PickOldest \/ PickFails \/ Sweep \/ CollectNothing
    \/ KeepOpen \/ WaitWake \/ CloseWindow
    \/ PopNext \/ SkipEmptyBatch \/ Dispatch
    \/ BackendReturns \/ BackendFails
    \/ WorkerCancelled

Next ==
    \/ Start
    \/ \E r \in Requests : Caller(r)
    \/ Coordinator
    \/ Stop
    \/ StopSettles

Spec == Init /\ [][Next]_vars

(* The event loop runs every task that is ready; the backends bound their  *)
(* calls and wait_for has a timeout, so a suspended coordinator is made    *)
(* ready again.  Callers owe nothing.                                      *)
Fairness == WF_vars(Coordinator) /\ WF_vars(StopSettles)

FairSpec == Spec /\ Fairness

-----------------------------------------------------------------------------
(* Properties                                                              *)

(* Every variable has its type.                                            *)
TypeOK ==
    /\ worker \in WorkerStates
    /\ key \in Keys \cup {None}
    /\ ingress \in Seq(Requests)
    /\ keyed \in SUBSET Keys
    /\ pending \in [Keys -> Seq(Requests)]
    /\ batch \in Seq(Requests)
    /\ inflight \in Seq(Requests)
    /\ outcome \in [Requests -> Outcomes]
    /\ answer \in [Requests -> Requests \cup {None}]
    /\ enqueuedAt \in [Requests -> Nat]
    /\ clock \in Nat
    /\ metrics \in [Counters -> Nat]
    /\ shutdown \in {"no", "joining", "returned", "raised"}

(* self._queues never makes the coordinator raise KeyError or IndexError:  *)
(* _pop_batch finds its key although the coordinator may have been         *)
(* suspended since it chose it, and _oldest_key finds a head in every      *)
(* deque.                                                                  *)
QueuesWellFormed ==
    /\ worker \in {"collect", "wait", "pop"} => key \in keyed
    /\ \A k \in keyed :
        pending[k] = <<>> => worker \in {"collect", "pop"} /\ k = key
    /\ \A k \in Keys \ keyed : pending[k] = <<>>

(* An unsettled future is always within reach of the batcher: no handover  *)
(* from ingress queue to deque to batch to _inflight drops a request,      *)
(* whatever the timeouts, cancellations and stop() in between.             *)
NoRequestLost == \A r \in Requests : Live(r) => r \in Held

Distinct(s) == \A i, j \in DOMAIN s : s[i] = s[j] => i = j

(* No handover copies a request: it sits in one container, once, in the    *)
(* deque of its own key.  Otherwise it could be sent to the backend twice. *)
HeldOnce ==
    /\ Distinct(ingress) /\ Distinct(batch) /\ Distinct(inflight)
    /\ \A k \in Keys : Distinct(pending[k])
    /\ \A k \in Keys : \A r \in Range(pending[k]) : KeyOf[r] = k
    /\ Range(ingress) \cap Queued = {}
    /\ Range(batch) \cap Waiting = {}
    /\ Range(inflight) \cap (Waiting \cup Range(batch)) = {}

(* A backend call carries between one and max_batch_size requests of one   *)
(* compatibility key, although other keys' requests arrive while its batch *)
(* is held open.                                                           *)
CompatibleCall ==
    worker = "backend" =>
        /\ Len(inflight) \in 1..MaxBatchSize
        /\ \A r, q \in Range(inflight) : KeyOf[r] = KeyOf[q]

(* Each deque is first in, first out, through cancellations and partial    *)
(* batches: nothing of the batch's key that still waits arrived before it. *)
FifoPerKey ==
    worker = "backend" =>
        \A i \in DOMAIN inflight :
            /\ \A j \in (i + 1)..Len(inflight) :
                enqueuedAt[inflight[i]] <= enqueuedAt[inflight[j]]
            /\ \A r \in Waiting :
                KeyOf[r] = KeyOf[inflight[i]]
                    => enqueuedAt[inflight[i]] <= enqueuedAt[r]

(* A request that was ready in the deque when its batch left stays behind  *)
(* only if the batch is full: done requests take no place in a batch.      *)
FullestBatch ==
    worker = "backend" =>
        (pending[KeyOf[Head(inflight)]] # <<>> => Len(inflight) = MaxBatchSize)

(* The oldest key goes first.  Its age is that of the deque's head, which  *)
(* may be cancelled: a live request of another key is overtaken by a       *)
(* younger one only behind a cancelled request of the batch's key that     *)
(* arrived no later than it.                                               *)
OldestFirst ==
    worker = "backend" =>
        LET first == Head(inflight) IN
        \A r \in Waiting :
            Live(r) /\ enqueuedAt[r] < enqueuedAt[first] =>
                \E c \in Requests :
                    /\ outcome[c] = "cancelled"
                    /\ KeyOf[c] = KeyOf[first]
                    /\ enqueuedAt[c] <= enqueuedAt[r]

(* Who is served next: the three together.                                 *)
InTurn == FifoPerKey /\ FullestBatch /\ OldestFirst

(* A response is made from the output of the request's own prompt, also    *)
(* when other requests of the batch were cancelled during the call.        *)
OwnOutput ==
    \A r \in Requests : answer[r] = IF outcome[r] = "result" THEN r ELSE None

(* The counters agree with the futures.  Only failed may exceed its        *)
(* futures, by requests cancelled while the call that failed was running.  *)
MetricsMatchOutcomes ==
    LET With(o) == Cardinality({r \in Requests : outcome[r] = o}) IN
    /\ metrics["completed"] = With("result")
    /\ metrics["rejected"] = With("rejected")
    /\ metrics["failed"] >= With("error")
    /\ metrics["failed"] <= With("error") + With("cancelled")

(* The coordinator dies only when the request that woke it was cancelled,  *)
(* and strands only requests accepted after that one: nothing was queued   *)
(* or in flight.                                                           *)
CrashStrandsOnlyLater ==
    worker = "crashed" =>
        /\ Held = Range(ingress)
        /\ \E c \in Requests :
            /\ outcome[c] = "cancelled"
            /\ \A r \in Range(ingress) : enqueuedAt[c] <= enqueuedAt[r]

(* When stop() returns, no caller is left waiting: what was in flight,     *)
(* queued by key or still at the ingress has been settled.                 *)
CleanStopSettlesAll ==
    shutdown = "returned" => \A r \in Requests : ~Live(r)

Settled(r) == outcome[r] \notin {"none", "pending"}

(* A settled future is never settled again: the fan-out, the failure path  *)
(* and stop() all respect a cancellation, and each other.                  *)
SettledOnce ==
    [][\A r \in Requests : Settled(r) =>
        outcome'[r] = outcome[r] /\ answer'[r] = answer[r]]_vars

(* The backend is never called for a request that is already settled,      *)
(* although requests are cancelled while queued and while a batch is held  *)
(* open.                                                                   *)
NoDeadDispatch ==
    [][worker # "backend" /\ worker' = "backend"
        => \A r \in Range(inflight') : outcome[r] = "pending"]_vars

(* Every accepted request is settled, unless the coordinator died.         *)
AcceptedSettles ==
    \A r \in Requests : Live(r) ~> (~Live(r) \/ worker = "crashed")

(* stop() comes to an end once it has cancelled a living coordinator.      *)
StopTerminates == shutdown = "joining" ~> shutdown = "returned"

(* README: "Cancellation and shutdown settle queued and in-flight          *)
(* futures", so no future is pending once stop() is over, either way.      *)
ShutdownSettles ==
    shutdown \in {"returned", "raised"} => \A r \in Requests : ~Live(r)
=============================================================================
