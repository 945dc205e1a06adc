------------------------------ MODULE Gateway ------------------------------
(***************************************************************************)
(* One gateway process: the lifespan of gateway/main.py, the route         *)
(* handlers of api/routes.py, the service of core/service.py with its      *)
(* counters (observability/metrics.py) and the backend's HTTP client       *)
(* (clients/backend_http.py), around the batcher, which is represented by  *)
(* what it promises: ServingContract, which Batcher implements.            *)
(*                                                                         *)
(* Everything runs on one event loop and a step goes from one await to the *)
(* next.  Definitions ending in Bug are seeded faults, see Batcher.        *)
(***************************************************************************)
EXTENDS Naturals, FiniteSets

CONSTANTS
    Requests, Keys, KeyOf, MaxBatchSize, QueueMaxSize,  \* as in Batcher
    Deployments  \* the deployments that are looked at

(* A deployment has a gateway_mode, and a server that waits for its        *)
(* handlers before it leaves the lifespan (uvicorn, as the repository      *)
(* starts it) or does not: it cancels them, or lets them go on and takes   *)
(* new requests.                                                           *)
ASSUME DeploymentsAssumption ==
    Deployments \subseteq
        [mode : {"batched", "pass_through"}, drains : BOOLEAN]

VARIABLES
    deployment,  \* stays as it is
    outcome, call, phase,  \* the batcher, see ServingContract
    server,   \* "down", "serving", "draining", "stopping", "closing", "exited"
    handler,  \* what each request's handler awaits, or its end
    reply,    \* the status code it ends with
    cause,    \* the exception that ends its backend call
    client,   \* the backend's HTTP client
    metrics   \* the counters of MetricsRegistry

batcher == <<outcome, call, phase>>
vars == <<deployment, outcome, call, phase, server, handler, reply, cause,
          client, metrics>>

Mode == deployment.mode
Drains == deployment.drains

Batcher == INSTANCE ServingContract

Counters == {"received", "completed", "failed", "rejected"}

(* 200, 502, 504, and 503 in its two meanings.                             *)
Replies == {"ok", "bad_gateway", "gateway_timeout", "queue_full",
            "shutting_down"}

Init ==
    /\ deployment \in Deployments
    /\ Batcher!Init
    /\ server = "down"
    /\ handler = [r \in Requests |-> "none"]
    /\ reply = [r \in Requests |-> "none"]
    /\ cause = [r \in Requests |-> "none"]
    /\ client = "open"
    /\ metrics = [c \in Counters |-> 0]

Awaiting == {"future", "backend"}

InProgress == {r \in Requests : handler[r] \in Awaiting}

Bump(S) == [c \in Counters |->
    metrics[c] + Cardinality({s \in S : s[1] = c})]

Answer(r, status) ==
    /\ handler' = [handler EXCEPT ![r] = "done"]
    /\ reply' = [reply EXCEPT ![r] = status]

Await(r, what) ==
    /\ handler' = [handler EXCEPT ![r] = what]
    /\ UNCHANGED reply

-----------------------------------------------------------------------------
(* Requests                                                                *)

(* Uvicorn closes its sockets before it waits for the handlers.            *)
Reachable == server = "serving" \/ (~Drains /\ server # "down")

(* The service counts the request before the batcher has decided on it.    *)
(* Refusals and rejections are raised before anything is awaited; the      *)
(* first is a plain RuntimeError, so the route takes it for the backend's. *)
ReceiveBatched(r) ==
    /\ Mode = "batched"
    /\ Reachable
    /\ handler[r] = "none"
    /\ \/ /\ Batcher!Refuse(r)
          /\ Answer(r, "bad_gateway")
          /\ metrics' = Bump({<<"received", r>>})
       \/ /\ Batcher!Reject(r)
          /\ Answer(r, "queue_full")
          /\ metrics' = Bump({<<"received", r>>, <<"rejected", r>>})
       \/ /\ Batcher!Accept(r)
          /\ Await(r, "future")
          /\ metrics' = Bump({<<"received", r>>})
    /\ UNCHANGED <<server, cause, client>>

(* A client that is closed raises before anything is sent.                 *)
ReceivePassThrough(r) ==
    /\ Mode = "pass_through"
    /\ Reachable
    /\ handler[r] = "none"
    /\ IF client = "open"
       THEN /\ Await(r, "backend")
            /\ metrics' = Bump({<<"received", r>>})
       ELSE /\ Answer(r, "bad_gateway")
            /\ metrics' = Bump({<<"received", r>>, <<"failed", r>>})
    /\ UNCHANGED <<batcher, server, cause, client>>

(* The except clauses of the route, narrowest first.                       *)
StatusOf(exception) ==
    IF exception = "timeout" THEN "gateway_timeout" ELSE "bad_gateway"

PassThroughReturns(r) ==
    /\ handler[r] = "backend"
    /\ Answer(r, "ok")
    /\ metrics' = Bump({<<"completed", r>>})
    /\ UNCHANGED <<batcher, server, cause, client>>

PassThroughFails(r, exception) ==
    /\ handler[r] = "backend"
    /\ cause' = [cause EXCEPT ![r] = exception]
    /\ Answer(r, StatusOf(exception))
    /\ metrics' = Bump({<<"failed", r>>})
    /\ UNCHANGED <<batcher, server, client>>

(* The coordinator ends at the signal, not when stop() cancels it.         *)
DispatchBug ==
    /\ server = "serving"
    /\ \E S \in SUBSET Requests : Batcher!Dispatch(S)
    /\ UNCHANGED <<server, handler, reply, cause, client, metrics>>

(* The coordinator makes a call, ...                                       *)
Dispatch ==
    /\ \E S \in SUBSET Requests : Batcher!Dispatch(S)
    /\ UNCHANGED <<server, handler, reply, cause, client, metrics>>

(* ... which completes those that still wait, or fails whoever was in it.  *)
CallReturns ==
    /\ Batcher!Finish("result")
    /\ metrics' = Bump({"completed"} \X (call \cap Batcher!Unsettled))
    /\ UNCHANGED <<server, handler, reply, cause, client>>

CallFails(exception) ==
    /\ Batcher!Finish("error")
    /\ cause' = [r \in Requests |->
        IF r \in call \cap Batcher!Unsettled THEN exception ELSE cause[r]]
    /\ metrics' = Bump({"failed"} \X call)
    /\ UNCHANGED <<server, handler, reply, client>>

(* A stopped batcher is reported like any other exception.                 *)
StatusBug(r) ==
    IF outcome[r] = "result" THEN "ok" ELSE StatusOf(cause[r])

Status(r) ==
    CASE outcome[r] = "result" -> "ok"
      [] outcome[r] = "stopped" -> "shutting_down"
      [] OTHER -> StatusOf(cause[r])

(* The future is settled and the handler's task runs again.                *)
Resume(r) ==
    /\ handler[r] = "future"
    /\ outcome[r] \in {"result", "error", "stopped"}
    /\ Answer(r, Status(r))
    /\ UNCHANGED <<batcher, server, cause, client, metrics>>

(* A server that does not drain may cancel a handler.  CancelledError is   *)
(* not an Exception: nothing is counted and nothing answered.              *)
Cancel(r) ==
    /\ ~Drains
    /\ r \in InProgress
    /\ handler' = [handler EXCEPT ![r] = "cancelled"]
    /\ IF r \in Batcher!Unsettled
       THEN Batcher!Cancel(r)
       ELSE UNCHANGED batcher
    /\ UNCHANGED <<server, reply, cause, client, metrics>>

-----------------------------------------------------------------------------
(* The lifespan                                                            *)

(* Requests are served before the batcher is started.                      *)
StartupBug ==
    /\ server = "down"
    /\ server' = "serving"
    /\ UNCHANGED <<batcher, handler, reply, cause, client, metrics>>

Startup ==
    /\ server = "down"
    /\ server' = "serving"
    /\ IF Mode = "batched" THEN Batcher!Open ELSE UNCHANGED batcher
    /\ UNCHANGED <<handler, reply, cause, client, metrics>>

(* SIGTERM or an interrupt.                                                *)
Signal ==
    /\ server = "serving"
    /\ server' = "draining"
    /\ UNCHANGED <<batcher, handler, reply, cause, client, metrics>>

Drained == server = "draining" /\ (Drains => InProgress = {})

(* aclose() before stop().                                                 *)
StopBug ==
    /\ Drained
    /\ Batcher!Close
    /\ client' = "closed"
    /\ server' = IF phase' = "closing" THEN "stopping" ELSE "closing"
    /\ UNCHANGED <<handler, reply, cause, metrics>>

(* batcher.stop().  It awaits nothing when the coordinator was never       *)
(* started or has died (it raises then); aclose() follows in the same step *)
(* and marks the client closed before it awaits anything.                  *)
Stop ==
    /\ Drained
    /\ Batcher!Close \/ Batcher!Break
    /\ IF phase' = "closing"
       THEN server' = "stopping" /\ UNCHANGED client
       ELSE server' = "closing" /\ client' = "closed"
    /\ UNCHANGED <<handler, reply, cause, metrics>>

(* The coordinator's cancellation abandons its call.                       *)
CallAbandoned ==
    /\ Batcher!Abandon
    /\ UNCHANGED <<server, handler, reply, cause, client, metrics>>

(* stop() settles the futures that are left and returns, aclose() begins.  *)
StopReturns ==
    /\ Batcher!Settle
    /\ server' = "closing"
    /\ client' = "closed"
    /\ UNCHANGED <<handler, reply, cause, metrics>>

Exit ==
    /\ server = "closing"
    /\ server' = "exited"
    /\ UNCHANGED <<batcher, handler, reply, cause, client, metrics>>

-----------------------------------------------------------------------------
Serving ==
    \/ Dispatch \/ CallReturns
    \/ \E r \in Requests : Resume(r) \/ PassThroughReturns(r)
    \/ \E exception \in {"timeout", "error"} :
        \/ CallFails(exception)
        \/ \E r \in Requests : PassThroughFails(r, exception)

Lifespan == Startup \/ Stop \/ CallAbandoned \/ StopReturns \/ Exit

Environment ==
    \/ Signal
    \/ \E r \in Requests :
        ReceiveBatched(r) \/ ReceivePassThrough(r) \/ Cancel(r)

Next == (Serving \/ Lifespan \/ Environment) /\ UNCHANGED deployment

Spec == Init /\ [][Next]_vars

(* Handlers and lifespan are tasks of the event loop.  A backend call ends *)
(* because vllm_timeout_s bounds it.  The coordinator goes on making calls *)
(* while requests wait: Batcher's AcceptedSettles, for a coordinator that  *)
(* no cancellation has killed, which takes a server that drains.           *)
Fairness ==
    /\ WF_vars(Drains /\ Serving /\ UNCHANGED deployment)
    /\ WF_vars(Lifespan /\ UNCHANGED deployment)

-----------------------------------------------------------------------------
(* Once no handler is in progress, the counters tell the story of the      *)
(* replies, whatever mixture of batching, rejection, failure and shutdown  *)
(* led to them: a request is counted as completed exactly if it got a 200, *)
(* as rejected exactly if it was turned away for overload, and every 504   *)
(* is a counted failure; the only failures nobody was told of are those of *)
(* cancelled callers, and the only 502s without one those of a batcher     *)
(* that had stopped.                                                       *)
CountersMatchReplies ==
    LET With(s) == Cardinality({r \in Requests : reply[r] = s})
        cancelled == Cardinality({r \in Requests : handler[r] = "cancelled"})
        refused == Cardinality({r \in Requests : outcome[r] = "refused"})
        stopping == Cardinality({r \in Requests : outcome[r] = "stopped"})
        blamed == With("bad_gateway") + With("gateway_timeout") - refused
    IN InProgress = {} =>
        /\ metrics["received"] =
            Cardinality({r \in Requests : handler[r] # "none"})
        /\ metrics["completed"] >= With("ok")
        /\ metrics["completed"] <= With("ok") + cancelled
        /\ metrics["rejected"] = With("queue_full")
        /\ metrics["failed"] >= blamed
        /\ metrics["failed"] <= blamed + cancelled
        /\ With("shutting_down") <= stopping
        /\ With("shutting_down") + cancelled >= stopping

(* In batched mode, and in any mode behind a server that drains, the       *)
(* client is not closed under a call that is running: stop() has waited    *)
(* for the coordinator to leave its call.  (Pass-through calls of a server *)
(* that does not drain have nobody who waits for them.)                    *)
NoCallOnClosedClient ==
    client = "closed" =>
        /\ call = {}
        /\ Drains => \A r \in Requests : handler[r] # "backend"

(* Behind a server that drains, a shutdown is invisible to callers: no     *)
(* request that got in is told that the gateway is shutting down, refused  *)
(* by a batcher that has stopped or sent to a closed client, and an error  *)
(* status is only ever the backend's own.                                  *)
GracefulShutdown ==
    Drains => \A r \in Requests :
        /\ reply[r] # "shutting_down"
        /\ reply[r] \in {"bad_gateway", "gateway_timeout"} => cause[r] # "none"

(* Every request that got in is answered, ...                              *)
Answered ==
    \A r \in Requests : Drains /\ r \in InProgress ~> handler[r] = "done"

(* ... and a shutdown comes to an end, although it waits for the handlers, *)
(* they for the coordinator and it for the backend.                        *)
ShutdownEnds == server = "draining" ~> server = "exited"

NobodyWaitsForever == Answered /\ ShutdownEnds
=============================================================================
