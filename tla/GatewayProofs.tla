--------------------------- MODULE GatewayProofs ---------------------------
(***************************************************************************)
(* NoCallOnClosedClient and GracefulShutdown of Gateway, for any requests, *)
(* keys and deployments, and CountersMatchReplies for any finite set of    *)
(* requests, as it counts them.                                            *)
(***************************************************************************)
EXTENDS Gateway, FiniteSetTheorems, TLAPS

Outcomes == {"none", "pending", "refused", "rejected", "cancelled", "result",
             "error", "stopped"}

Types ==
    /\ deployment \in Deployments
    /\ outcome \in [Requests -> Outcomes]
    /\ call \in SUBSET Requests
    /\ phase \in {"unopened", "open", "closing", "closed", "broken"}
    /\ server \in {"down", "serving", "draining", "stopping", "closing",
                   "exited"}
    /\ handler \in [Requests -> {"none", "future", "backend", "done",
                                 "cancelled"}]
    /\ reply \in [Requests -> Replies \union {"none"}]
    /\ cause \in [Requests -> {"none", "timeout", "error"}]
    /\ client \in {"open", "closed"}

(* The lifespan, the batcher's phase and the client go together: stop()    *)
(* has come to an end, one way or the other, when the client is closed.    *)
LifespanInv ==
    /\ client = "closed" <=> server \in {"closing", "exited"}
    /\ server = "down" => phase = "unopened"
    /\ phase = "closing" <=> server = "stopping"
    /\ phase \in {"closed", "broken"} <=> server \in {"closing", "exited"}
    /\ Mode = "batched" /\ server \in {"serving", "draining"} => phase = "open"

(* A call runs only while the batcher is open or being closed.             *)
CallInv == phase \in {"unopened", "closed", "broken"} => call = {}

(* A server that drains has no handler in progress once it left the wait.  *)
DrainInv ==
    Drains /\ server \in {"stopping", "closing", "exited"} => InProgress = {}

Inv == Types /\ LifespanInv /\ CallInv /\ DrainInv

-----------------------------------------------------------------------------
(* The lifespan, the client and the calls agree at first ...               *)
LEMMA InitInv == Init => Inv
BY DEF Init, Inv, Types, LifespanInv, CallInv, DrainInv, Batcher!Init,
       Outcomes

(* ... and whatever step is taken.                                         *)
LEMMA StepInv == Inv /\ [Next]_vars => Inv'
<1> SUFFICES ASSUME Inv, [Next]_vars
             PROVE  Inv'
  OBVIOUS
<1> USE DeploymentsAssumption
       DEF Inv, Types, Mode, Drains, Answer, Await, Replies, Outcomes
<1>1. ASSUME NEW r \in Requests, ReceiveBatched(r), UNCHANGED deployment
      PROVE  Inv'
  <2>1. Types'
    BY <1>1 DEF ReceiveBatched, Batcher!Refuse, Batcher!Reject,
                Batcher!Accept
  <2>2. UNCHANGED <<phase, call, server, client>>
    BY <1>1 DEF ReceiveBatched, Batcher!Refuse, Batcher!Reject,
                Batcher!Accept
  <2>3. LifespanInv' /\ CallInv'
    BY <1>1, <2>2 DEF LifespanInv, CallInv
  <2>4. DrainInv'
    BY <1>1, <2>2 DEF DrainInv, ReceiveBatched, Reachable
  <2> QED
    BY <2>1, <2>3, <2>4
<1>2. ASSUME NEW r \in Requests, ReceivePassThrough(r), UNCHANGED deployment
      PROVE  Inv'
  <2>1. Types'
    BY <1>2 DEF ReceivePassThrough, batcher
  <2>2. UNCHANGED <<phase, call, server, client>>
    BY <1>2 DEF ReceivePassThrough, batcher
  <2>3. LifespanInv' /\ CallInv'
    BY <1>2, <2>2 DEF LifespanInv, CallInv
  <2>4. DrainInv'
    BY <1>2, <2>2 DEF DrainInv, ReceivePassThrough, Reachable
  <2> QED
    BY <2>1, <2>3, <2>4
<1>3. ASSUME NEW r \in Requests, NEW x \in {"timeout", "error"},
             \/ PassThroughReturns(r) \/ PassThroughFails(r, x)
             \/ Resume(r) \/ Cancel(r),
             UNCHANGED deployment
      PROVE  Inv'
  <2>1. UNCHANGED <<phase, call, server, client>>
    BY <1>3 DEF PassThroughReturns, PassThroughFails, Resume, Cancel,
                batcher, Batcher!Cancel
  <2>2. LifespanInv' /\ CallInv'
    BY <1>3, <2>1 DEF LifespanInv, CallInv
  <2>3. Types' /\ InProgress' \subseteq InProgress
    <3>1. CASE PassThroughReturns(r)
      BY <1>3, <3>1 DEF PassThroughReturns, batcher, InProgress, Awaiting
    <3>2. CASE PassThroughFails(r, x)
      BY <1>3, <3>2 DEF PassThroughFails, StatusOf, batcher, InProgress,
                        Awaiting
    <3>3. CASE Resume(r)
      BY <1>3, <3>3 DEF Resume, Status, StatusOf, batcher, InProgress,
                        Awaiting
    <3>4. CASE Cancel(r)
      BY <1>3, <3>4 DEF Cancel, batcher, Batcher!Cancel, InProgress,
                        Awaiting
    <3> QED
      BY <1>3, <3>1, <3>2, <3>3, <3>4
  <2>4. DrainInv'
    BY <1>3, <2>1, <2>3 DEF DrainInv
  <2> QED
    BY <2>2, <2>3, <2>4
<1>4. ASSUME NEW x \in {"timeout", "error"},
             Dispatch \/ CallReturns \/ CallFails(x), UNCHANGED deployment
      PROVE  Inv'
  <2>1. phase = "open" /\ UNCHANGED <<phase, server, client, handler, reply>>
    BY <1>4 DEF Dispatch, CallReturns, CallFails, Batcher!Dispatch,
                Batcher!Finish
  <2>2. LifespanInv' /\ CallInv' /\ DrainInv'
    BY <1>4, <2>1 DEF LifespanInv, CallInv, DrainInv, InProgress
  <2>3. Types'
    <3>1. CASE Dispatch
      BY <1>4, <3>1 DEF Dispatch, Batcher!Dispatch
    <3>2. CASE CallReturns
      BY <1>4, <3>2 DEF CallReturns, Batcher!Finish, Batcher!Become
    <3>3. CASE CallFails(x)
      BY <1>4, <3>3 DEF CallFails, Batcher!Finish, Batcher!Become
    <3> QED
      BY <1>4, <3>1, <3>2, <3>3
  <2> QED
    BY <2>2, <2>3
<1>5. CASE Startup /\ UNCHANGED deployment
  BY <1>5 DEF Startup, Batcher!Open, batcher, LifespanInv, CallInv, DrainInv
<1>6. CASE Signal /\ UNCHANGED deployment
  BY <1>6 DEF Signal, batcher, LifespanInv, CallInv, DrainInv
<1>7. CASE Stop /\ UNCHANGED deployment
  <2>1. Types' /\ LifespanInv' /\ CallInv'
    BY <1>7 DEF Stop, Drained, Batcher!Close, Batcher!Break, LifespanInv,
                CallInv
  <2>2. DrainInv'
    BY <1>7 DEF Stop, Drained, DrainInv, InProgress
  <2> QED
    BY <2>1, <2>2
<1>8. CASE (CallAbandoned \/ StopReturns \/ Exit) /\ UNCHANGED deployment
  <2>1. Types'
    <3>1. CASE CallAbandoned
      BY <1>8, <3>1 DEF CallAbandoned, Batcher!Abandon
    <3>2. CASE StopReturns
      BY <1>8, <3>2 DEF StopReturns, Batcher!Settle, Batcher!Become
    <3>3. CASE Exit
      BY <1>8, <3>3 DEF Exit, batcher
    <3> QED
      BY <1>8, <3>1, <3>2, <3>3
  <2>2. LifespanInv' /\ CallInv'
    BY <1>8 DEF CallAbandoned, StopReturns, Exit, batcher, Batcher!Abandon,
                Batcher!Settle, LifespanInv, CallInv
  <2>3. DrainInv'
    BY <1>8 DEF CallAbandoned, StopReturns, Exit, DrainInv, InProgress,
                Batcher!Abandon, Batcher!Settle, LifespanInv
  <2> QED
    BY <2>1, <2>2, <2>3
<1>9. CASE UNCHANGED vars
  BY <1>9 DEF vars, LifespanInv, CallInv, DrainInv, InProgress
<1> QED
  BY <1>1, <1>2, <1>3, <1>4, <1>5, <1>6, <1>7, <1>8, <1>9
     DEF Next, Serving, Lifespan, Environment

(* So they always agree.                                                   *)
LEMMA Invariant == Spec => []Inv
BY InitInv, StepInv, PTL DEF Spec

(* The backend's client is closed only when no call of the batcher runs,   *)
(* whatever the server does, and behind a server that drains no call of a  *)
(* handler either.                                                         *)
THEOREM ClosedAfterCalls == Spec => []NoCallOnClosedClient
<1>1. Inv => NoCallOnClosedClient
  BY DEF Inv, Types, LifespanInv, CallInv, DrainInv, NoCallOnClosedClient,
         InProgress, Awaiting
<1> QED
  BY <1>1, Invariant, PTL

-----------------------------------------------------------------------------
(* Behind a server that drains, a future is awaited until it is settled,   *)
(* so that stop() finds none to settle; errors have a cause.               *)
CallersInv ==
    Drains => \A r \in Requests :
        /\ outcome[r] = "pending" => handler[r] = "future"
        /\ outcome[r] # "stopped"
        /\ outcome[r] = "error" => cause[r] # "none"
        /\ reply[r] # "shutting_down"
        /\ reply[r] \in {"bad_gateway", "gateway_timeout"} => cause[r] # "none"

(* No step breaks this.                                                    *)
LEMMA CallersStep == Inv /\ CallersInv /\ [Next]_vars => CallersInv'
<1> SUFFICES ASSUME Inv, CallersInv, [Next]_vars, Drains,
                    deployment' = deployment
             PROVE  CallersInv'
  BY DEF CallersInv, Next, vars, Drains
<1> USE DeploymentsAssumption
       DEF Inv, Types, Mode, Drains, Answer, Await, Replies, Outcomes,
           CallersInv
<1>1. ASSUME NEW r \in Requests, ReceiveBatched(r)
      PROVE  CallersInv'
  <2>1. server = "serving" /\ phase = "open"
    BY <1>1 DEF ReceiveBatched, Reachable, LifespanInv
  <2>2. CASE Batcher!Reject(r)
    <3>1. outcome' = [outcome EXCEPT ![r] = "rejected"]
      BY <2>2 DEF Batcher!Reject
    <3>2. Answer(r, "queue_full") /\ UNCHANGED cause
      BY <1>1, <2>1, <2>2 DEF ReceiveBatched, Batcher!Refuse, Batcher!Reject,
                              Batcher!Accept
    <3> QED
      BY <3>1, <3>2
  <2>3. CASE Batcher!Accept(r)
    <3>1. outcome' = [outcome EXCEPT ![r] = "pending"]
      BY <2>3 DEF Batcher!Accept
    <3>2. Await(r, "future") /\ UNCHANGED cause
      BY <1>1, <2>1, <2>3, <3>1 DEF ReceiveBatched, Batcher!Refuse,
                                    Batcher!Reject
    <3> QED
      BY <3>1, <3>2
  <2> QED
    BY <1>1, <2>1, <2>2, <2>3 DEF ReceiveBatched, Batcher!Refuse
<1>2. ASSUME NEW r \in Requests, ReceivePassThrough(r)
      PROVE  CallersInv'
  <2>1. client = "open"
    BY <1>2 DEF ReceivePassThrough, Reachable, LifespanInv
  <2> QED
    BY <1>2, <2>1 DEF ReceivePassThrough, batcher
<1>3. ASSUME NEW r \in Requests, NEW x \in {"timeout", "error"},
             PassThroughReturns(r) \/ PassThroughFails(r, x)
      PROVE  CallersInv'
  <2>1. CASE PassThroughReturns(r)
    BY <2>1 DEF PassThroughReturns, batcher
  <2>2. CASE PassThroughFails(r, x)
    BY <2>2 DEF PassThroughFails, StatusOf, batcher
  <2> QED
    BY <1>3, <2>1, <2>2
<1>4. ASSUME NEW r \in Requests, Resume(r)
      PROVE  CallersInv'
  BY <1>4 DEF Resume, Status, StatusOf, batcher
<1>5. CASE Dispatch
  BY <1>5 DEF Dispatch, Batcher!Dispatch
<1>6. CASE CallReturns
  BY <1>6 DEF CallReturns, Batcher!Finish, Batcher!Become
<1>7. ASSUME NEW x \in {"timeout", "error"}, CallFails(x)
      PROVE  CallersInv'
  BY <1>7 DEF CallFails, Batcher!Finish, Batcher!Become, Batcher!Unsettled
<1>8. ASSUME NEW r \in Requests, Cancel(r)
      PROVE  CallersInv'
  BY <1>8 DEF Cancel
<1>9. CASE Startup \/ Signal \/ Stop \/ CallAbandoned \/ Exit
  BY <1>9 DEF Startup, Signal, Stop, CallAbandoned, Exit, batcher,
              Batcher!Open, Batcher!Close, Batcher!Break, Batcher!Abandon
<1>10. CASE StopReturns
  <2>1. \A r \in Requests : outcome[r] # "pending"
    BY <1>10 DEF StopReturns, Batcher!Settle, LifespanInv, DrainInv,
                 InProgress, Awaiting
  <2>2. outcome' = [r \in Requests |-> outcome[r]]
    BY <1>10, <2>1 DEF StopReturns, Batcher!Settle, Batcher!Become
  <2> QED
    BY <1>10, <2>2 DEF StopReturns
<1>11. CASE UNCHANGED vars
  BY <1>11 DEF vars
<1> QED
  BY <1>1, <1>2, <1>3, <1>4, <1>5, <1>6, <1>7, <1>8, <1>9, <1>10, <1>11
     DEF Next, Serving, Lifespan, Environment

(* Behind a server that drains no caller is told of the shutdown, and an   *)
(* error status is always the backend's.                                   *)
THEOREM ShutdownUnnoticed == Spec => []GracefulShutdown
<1>1. Init => CallersInv
  BY DEF Init, CallersInv, Batcher!Init
<1>2. Inv /\ CallersInv => GracefulShutdown
  BY DEF CallersInv, GracefulShutdown
<1> QED
  BY <1>1, <1>2, CallersStep, Invariant, PTL DEF Spec

-----------------------------------------------------------------------------
Blame == {"bad_gateway", "gateway_timeout"}

(* How the future, the handler and the reply of one request go together.   *)
Batched(r) ==
    \/ handler[r] = "none" /\ outcome[r] = "none" /\ reply[r] = "none"
    \/ /\ handler[r] = "future" /\ reply[r] = "none"
       /\ outcome[r] \in {"pending", "result", "error", "stopped"}
    \/ /\ handler[r] = "cancelled" /\ reply[r] = "none"
       /\ outcome[r] \in {"cancelled", "result", "error", "stopped"}
    \/ /\ handler[r] = "done"
       /\ \/ outcome[r] = "refused" /\ reply[r] = "bad_gateway"
          \/ outcome[r] = "rejected" /\ reply[r] = "queue_full"
          \/ outcome[r] = "result" /\ reply[r] = "ok"
          \/ outcome[r] = "stopped" /\ reply[r] = "shutting_down"
          \/ outcome[r] = "error" /\ reply[r] \in Blame

PassedThrough(r) ==
    /\ outcome[r] = "none"
    /\ \/ handler[r] \in {"none", "backend", "cancelled"} /\ reply[r] = "none"
       \/ handler[r] = "done" /\ reply[r] \in Blame \union {"ok"}

StoryInv ==
    /\ \A r \in Requests :
        IF Mode = "batched" THEN Batched(r) ELSE PassedThrough(r)
    /\ Mode # "batched" => phase \in {"unopened", "closed"}
    /\ \A r \in call : outcome[r] \in {"pending", "cancelled"}

(* The story begins with nothing told, ...                                 *)
LEMMA StoryInit == Init => StoryInv
BY DEF Init, StoryInv, Batcher!Init, Batched, PassedThrough

(* ... and every step goes on with it.                                     *)
LEMMA StoryStep == Inv /\ StoryInv /\ [Next]_vars => StoryInv'
<1> SUFFICES ASSUME Inv, StoryInv, [Next]_vars, deployment' = deployment
             PROVE  StoryInv'
  BY DEF Next, vars
<1> USE DeploymentsAssumption
       DEF Inv, Types, Mode, Answer, Await, Replies, StoryInv, Batched,
           PassedThrough, Blame
<1>1. ASSUME NEW r \in Requests, ReceiveBatched(r)
      PROVE  StoryInv'
  BY <1>1 DEF ReceiveBatched, Batcher!Refuse, Batcher!Reject, Batcher!Accept
<1>2. ASSUME NEW r \in Requests, ReceivePassThrough(r)
      PROVE  StoryInv'
  BY <1>2 DEF ReceivePassThrough, batcher
<1>3. ASSUME NEW r \in Requests, NEW x \in {"timeout", "error"},
             PassThroughReturns(r) \/ PassThroughFails(r, x)
      PROVE  StoryInv'
  <2>1. Mode # "batched"
    BY <1>3 DEF PassThroughReturns, PassThroughFails
  <2> QED
    BY <1>3, <2>1 DEF PassThroughReturns, PassThroughFails, StatusOf, batcher
<1>4. ASSUME NEW r \in Requests, Resume(r)
      PROVE  StoryInv'
  <2>1. Mode = "batched"
    BY <1>4 DEF Resume
  <2>2. outcome[r] \notin {"result", "stopped"} =>
            outcome[r] = "error" /\ Status(r) \in Blame
    BY <1>4 DEF Resume, Status, StatusOf
  <2>3. /\ outcome[r] = "result" => Status(r) = "ok"
        /\ outcome[r] = "stopped" => Status(r) = "shutting_down"
    BY DEF Status
  <2> QED
    BY <1>4, <2>1, <2>2, <2>3 DEF Resume, batcher
<1>5. CASE Dispatch
  BY <1>5 DEF Dispatch, Batcher!Dispatch, Batcher!Unsettled
<1>6. ASSUME NEW x \in {"timeout", "error"}, CallReturns \/ CallFails(x)
      PROVE  StoryInv'
  BY <1>6 DEF CallReturns, CallFails, Batcher!Finish, Batcher!Become
<1>7. ASSUME NEW r \in Requests, Cancel(r)
      PROVE  StoryInv'
  BY <1>7 DEF Cancel, InProgress, Awaiting, Batcher!Cancel,
              Batcher!Unsettled, batcher
<1>8. CASE StopReturns
  BY <1>8 DEF StopReturns, Batcher!Settle, Batcher!Become
<1>9. CASE Startup \/ Signal \/ Stop \/ CallAbandoned \/ Exit
  BY <1>9 DEF Startup, Signal, Stop, CallAbandoned, Exit, batcher,
              Batcher!Open, Batcher!Close, Batcher!Break, Batcher!Abandon
<1>10. CASE UNCHANGED vars
  BY <1>10 DEF vars
<1> QED
  BY <1>1, <1>2, <1>3, <1>4, <1>5, <1>6, <1>7, <1>8, <1>9, <1>10
     DEF Next, Serving, Lifespan, Environment

-----------------------------------------------------------------------------
(* The counters                                                            *)

Received == {r \in Requests : handler[r] # "none"}
Full == {r \in Requests : reply[r] = "queue_full"}
Completed == {r \in Requests : outcome[r] = "result" \/ reply[r] = "ok"}
Failed == {r \in Requests :
    outcome[r] = "error" \/ (reply[r] \in Blame /\ outcome[r] # "refused")}

(* Those whose future was cancelled and who are in no call any more.       *)
Gone == {r \in Requests : outcome[r] = "cancelled" /\ r \notin call}

CountInv ==
    /\ metrics \in [Counters -> Nat]
    /\ metrics["received"] = Cardinality(Received)
    /\ metrics["rejected"] = Cardinality(Full)
    /\ metrics["completed"] = Cardinality(Completed)
    /\ metrics["failed"] >= Cardinality(Failed)
    /\ metrics["failed"] <= Cardinality(Failed) + Cardinality(Gone)

(* What Bump adds for one pair, ...                                        *)
LEMMA BumpOne ==
    ASSUME NEW c \in Counters, NEW r, metrics \in [Counters -> Nat]
    PROVE  \A d \in Counters : Bump({<<c, r>>})[d] =
               IF c = d THEN metrics[d] + 1 ELSE metrics[d]
<1>1. Cardinality({<<c, r>>}) = 1 /\ Cardinality({}) = 0
  BY FS_Singleton, FS_EmptySet
<1>2. ASSUME NEW d \in Counters
      PROVE  {s \in {<<c, r>>} : s[1] = d}
                 = IF c = d THEN {<<c, r>>} ELSE {}
  OBVIOUS
<1>3. \A d \in Counters :
          Bump({<<c, r>>})[d] = metrics[d] + (IF c = d THEN 1 ELSE 0)
  BY <1>1, <1>2 DEF Bump
<1>4. ASSUME NEW d \in Counters
      PROVE  Bump({<<c, r>>})[d] = IF c = d THEN metrics[d] + 1 ELSE metrics[d]
  <2>1. metrics[d] \in Nat /\ metrics[d] + 0 = metrics[d]
    OBVIOUS
  <2>2. CASE c = d
    BY <1>3, <2>1, <2>2
  <2>3. CASE c # d
    BY <1>3, <2>1, <2>3
  <2> QED
    BY <2>2, <2>3
<1> QED
  BY <1>4

(* ... for one that is received and at once counted otherwise too, ...     *)
LEMMA BumpTwo ==
    ASSUME NEW c \in Counters, NEW d \in Counters, c # d, NEW r,
           metrics \in [Counters -> Nat]
    PROVE  \A e \in Counters : Bump({<<c, r>>, <<d, r>>})[e] =
               IF e \in {c, d} THEN metrics[e] + 1 ELSE metrics[e]
<1>1. Cardinality({<<c, r>>}) = 1 /\ Cardinality({<<d, r>>}) = 1
      /\ Cardinality({}) = 0
  BY FS_Singleton, FS_EmptySet
<1>2. ASSUME NEW e \in Counters
      PROVE  {s \in {<<c, r>>, <<d, r>>} : s[1] = e}
                 = IF c = e THEN {<<c, r>>}
                   ELSE IF d = e THEN {<<d, r>>} ELSE {}
  OBVIOUS
<1>3. \A e \in Counters : Bump({<<c, r>>, <<d, r>>})[e]
          = metrics[e] + (IF c = e THEN 1 ELSE IF d = e THEN 1 ELSE 0)
  BY <1>1, <1>2 DEF Bump
<1>4. ASSUME NEW e \in Counters
      PROVE  Bump({<<c, r>>, <<d, r>>})[e] =
                 IF e \in {c, d} THEN metrics[e] + 1 ELSE metrics[e]
  <2>1. metrics[e] \in Nat /\ metrics[e] + 0 = metrics[e]
    OBVIOUS
  <2>2. CASE e \in {c, d}
    BY <1>3, <2>1, <2>2
  <2>3. CASE e \notin {c, d}
    BY <1>3, <2>1, <2>3
  <2> QED
    BY <2>2, <2>3
<1> QED
  BY <1>4

(* ... and for the requests of a call.                                     *)
LEMMA BumpCall ==
    ASSUME NEW c \in Counters, NEW S, IsFiniteSet(S),
           metrics \in [Counters -> Nat]
    PROVE  \A d \in Counters : Bump({c} \X S)[d] =
               IF c = d THEN metrics[d] + Cardinality(S) ELSE metrics[d]
<1>1. Cardinality({}) = 0 /\ Cardinality(S) \in Nat
  BY FS_EmptySet, FS_CardinalityType
<1>2. Cardinality({c} \X S) = Cardinality(S)
  <2> DEFINE pair == [x \in S |-> <<c, x>>]
  <2>1. pair \in Injection(S, {c} \X S)
    BY DEF Injection, IsInjective
  <2>2. pair \in Surjection(S, {c} \X S)
    BY DEF Surjection
  <2>3. pair \in Bijection(S, {c} \X S)
    BY <2>1, <2>2 DEF Bijection
  <2> QED
    BY <2>3, FS_Bijection DEF ExistsBijection
<1>3. ASSUME NEW d \in Counters
      PROVE  {s \in {c} \X S : s[1] = d} = IF c = d THEN {c} \X S ELSE {}
  OBVIOUS
<1>4. \A d \in Counters : Bump({c} \X S)[d]
          = metrics[d] + (IF c = d THEN Cardinality(S) ELSE 0)
  BY <1>1, <1>2, <1>3 DEF Bump
<1>5. ASSUME NEW d \in Counters
      PROVE  Bump({c} \X S)[d] =
                 IF c = d THEN metrics[d] + Cardinality(S) ELSE metrics[d]
  <2>1. metrics[d] \in Nat /\ metrics[d] + 0 = metrics[d]
    OBVIOUS
  <2>2. CASE c = d
    BY <1>4, <2>1, <2>2
  <2>3. CASE c # d
    BY <1>4, <2>1, <2>3
  <2> QED
    BY <2>2, <2>3
<1> QED
  BY <1>5

(* Sets of requests can be counted, and added up.                          *)
LEMMA Countable ==
    ASSUME IsFiniteSet(Requests), NEW S \in SUBSET Requests
    PROVE  IsFiniteSet(S) /\ Cardinality(S) \in Nat
BY FS_Subset, FS_CardinalityType

(* Disjoint sets add up, ...                                               *)
LEMMA CountBoth ==
    ASSUME IsFiniteSet(Requests), NEW S \in SUBSET Requests,
           NEW T \in SUBSET Requests, S \cap T = {}
    PROVE  Cardinality(S \cup T) = Cardinality(S) + Cardinality(T)
<1>1. /\ IsFiniteSet(S) /\ IsFiniteSet(T)
      /\ Cardinality(S) \in Nat /\ Cardinality(T) \in Nat
  BY Countable
<1>2. Cardinality(S \cup T)
          = Cardinality(S) + Cardinality(T) - Cardinality(S \cap T)
  BY <1>1, FS_Union
<1>3. Cardinality(S \cap T) = 0
  BY FS_EmptySet
<1> QED
  BY <1>1, <1>2, <1>3

(* ... a new member adds one, ...                                          *)
LEMMA CountMore ==
    ASSUME IsFiniteSet(Requests), NEW S \in SUBSET Requests,
           NEW r \in Requests, r \notin S
    PROVE  Cardinality(S \cup {r}) = Cardinality(S) + 1
BY Countable, FS_AddElement

(* All the sets that are counted can be.                                   *)
LEMMA Counted ==
    ASSUME IsFiniteSet(Requests)
    PROVE  \A S \in {Received, Full, Completed, Failed, Gone} :
               S \in SUBSET Requests /\ Cardinality(S) \in Nat
BY Countable DEF Received, Full, Completed, Failed, Gone

(* Nothing is counted at first.                                            *)
LEMMA CountInit == Init => CountInv
<1> SUFFICES ASSUME Init
             PROVE  CountInv
  OBVIOUS
<1>1. Received = {} /\ Full = {} /\ Completed = {} /\ Failed = {}
      /\ Gone = {}
  BY DEF Init, Batcher!Init, Received, Full, Completed, Failed, Gone, Blame
<1>2. metrics \in [Counters -> Nat] /\ \A c \in Counters : metrics[c] = 0
  BY DEF Init
<1>3. Cardinality({}) = 0
  BY FS_EmptySet
<1> QED
  BY <1>1, <1>2, <1>3 DEF CountInv, Counters

(* Steps that move no request in or out of what is counted; who is in no   *)
(* call any more may become more.                                          *)
LEMMA CountKept ==
    ASSUME IsFiniteSet(Requests), CountInv,
           UNCHANGED <<metrics, Received, Full, Completed, Failed>>,
           Gone \subseteq Gone', Gone' \in SUBSET Requests
    PROVE  CountInv'
<1>1. Cardinality(Gone) <= Cardinality(Gone')
      /\ Cardinality(Gone) \in Nat /\ Cardinality(Gone') \in Nat
  BY Countable, FS_Subset
<1>2. Cardinality(Failed) \in Nat /\ metrics["failed"] \in Nat
  BY Counted DEF CountInv, Counters
<1> QED
  BY <1>1, <1>2 DEF CountInv

(* What a step adds to the counters, and to the sets.                      *)
Moved(received, rejected, completed, failed) ==
    /\ metrics' \in [Counters -> Nat]
    /\ metrics'["received"] = metrics["received"] + received
    /\ metrics'["rejected"] = metrics["rejected"] + rejected
    /\ metrics'["completed"] = metrics["completed"] + completed
    /\ metrics'["failed"] = metrics["failed"] + failed

Grown(received, rejected, completed, failed, gone) ==
    /\ Cardinality(Received') = Cardinality(Received) + received
    /\ Cardinality(Full') = Cardinality(Full) + rejected
    /\ Cardinality(Completed') = Cardinality(Completed) + completed
    /\ Cardinality(Failed') = Cardinality(Failed) + failed
    /\ Cardinality(Gone') >= Cardinality(Gone) + gone

(* When counters and sets grow alike they still agree; failures that belong*)
(* to nobody must be made up for by the cancelled.                         *)
LEMMA CountMoved ==
    ASSUME IsFiniteSet(Requests), CountInv,
           NEW a \in Nat, NEW b \in Nat, NEW c \in Nat, NEW d \in Nat,
           NEW g \in Nat, Moved(a, b, c, d + g), Grown(a, b, c, d, g),
           Gone' \in SUBSET Requests
    PROVE  CountInv'
<1>1. \A x \in Counters : metrics[x] \in Nat
  BY DEF CountInv
<1>2. /\ Cardinality(Received) \in Nat /\ Cardinality(Full) \in Nat
      /\ Cardinality(Completed) \in Nat /\ Cardinality(Failed) \in Nat
      /\ Cardinality(Gone) \in Nat /\ Cardinality(Gone') \in Nat
  BY Counted, Countable
<1> QED
  BY <1>1, <1>2 DEF CountInv, Moved, Grown, Counters

(* How the counters move when one pair is counted, ...                     *)
LEMMA MovedOne ==
    ASSUME CountInv, NEW c \in Counters, NEW r,
           metrics' = Bump({<<c, r>>})
    PROVE  Moved(IF c = "received" THEN 1 ELSE 0,
                 IF c = "rejected" THEN 1 ELSE 0,
                 IF c = "completed" THEN 1 ELSE 0,
                 IF c = "failed" THEN 1 ELSE 0)
<1>1. \A d \in Counters : metrics[d] \in Nat /\ metrics[d] + 0 = metrics[d]
  BY DEF CountInv
<1>2. \A d \in Counters : metrics'[d] =
          IF c = d THEN metrics[d] + 1 ELSE metrics[d]
  BY BumpOne, ZenonT(30) DEF CountInv
<1>3. metrics' = [d \in Counters |-> metrics'[d]]
  BY DEF Bump
<1>4. metrics' \in [Counters -> Nat]
  BY <1>1, <1>2, <1>3
<1> QED
  BY <1>1, <1>2, <1>4 DEF Moved, Counters

(* ... when a request is received and at once turned away, ...             *)
LEMMA MovedTwo ==
    ASSUME CountInv, NEW c \in {"rejected", "failed"}, NEW r,
           metrics' = Bump({<<"received", r>>, <<c, r>>})
    PROVE  Moved(1, IF c = "rejected" THEN 1 ELSE 0, 0,
                 IF c = "failed" THEN 1 ELSE 0)
<1>1. \A d \in Counters : metrics[d] \in Nat /\ metrics[d] + 0 = metrics[d]
  BY DEF CountInv
<1>2. \A d \in Counters : metrics'[d] =
          IF d \in {"received", c} THEN metrics[d] + 1 ELSE metrics[d]
  BY BumpTwo DEF CountInv, Counters
<1>3. metrics' = [d \in Counters |-> metrics'[d]]
  BY DEF Bump
<1>4. metrics' \in [Counters -> Nat]
  <2>1. ASSUME NEW d \in Counters
        PROVE  metrics'[d] \in Nat
    <3>1. CASE d \in {"received", c}
      BY <1>1, <1>2, <3>1
    <3>2. CASE d \notin {"received", c}
      BY <1>1, <1>2, <3>2
    <3> QED
      BY <3>1, <3>2
  <2> QED
    BY <1>3, <2>1
<1> QED
  BY <1>1, <1>2, <1>4 DEF Moved, Counters

(* ... and when a call is counted.                                         *)
LEMMA MovedCall ==
    ASSUME CountInv, NEW c \in {"completed", "failed"}, NEW S,
           IsFiniteSet(S), metrics' = Bump({c} \X S)
    PROVE  Moved(0, 0, IF c = "completed" THEN Cardinality(S) ELSE 0,
                 IF c = "failed" THEN Cardinality(S) ELSE 0)
<1>1. \A d \in Counters : metrics[d] \in Nat /\ metrics[d] + 0 = metrics[d]
  BY DEF CountInv
<1>2. Cardinality(S) \in Nat
  BY FS_CardinalityType
<1>3. \A d \in Counters : metrics'[d] =
          IF c = d THEN metrics[d] + Cardinality(S) ELSE metrics[d]
  BY BumpCall DEF CountInv, Counters
<1>4. metrics' = [d \in Counters |-> metrics'[d]]
  BY DEF Bump
<1>5. metrics' \in [Counters -> Nat]
  <2>1. ASSUME NEW d \in Counters
        PROVE  metrics'[d] \in Nat
    <3>1. CASE c = d
      BY <1>1, <1>2, <1>3, <3>1
    <3>2. CASE c # d
      BY <1>1, <1>2, <1>3, <3>2
    <3> QED
      BY <3>1, <3>2
  <2> QED
    BY <1>4, <2>1
<1> QED
  BY <1>1, <1>2, <1>3, <1>5 DEF Moved, Counters

(* Each step counts just who it answers or settles: first a request that   *)
(* comes in, ...                                                           *)
LEMMA CountReceived ==
    ASSUME IsFiniteSet(Requests), Inv, StoryInv, StoryInv', CountInv,
           UNCHANGED deployment, NEW r \in Requests, ReceiveBatched(r)
    PROVE  CountInv'
<1>1. Batched(r) /\ Batched(r)'
  BY DEF StoryInv, ReceiveBatched, Mode
<1>2. /\ Received' = Received \cup {r} /\ r \notin Received
      /\ call' = call
  BY DEF ReceiveBatched, Received, Batcher!Refuse, Batcher!Reject,
         Batcher!Accept, Answer, Await, Inv, Types
<1>3. Cardinality(Received') = Cardinality(Received) + 1
  BY <1>2, CountMore DEF Received
<1>4. /\ Gone' \in SUBSET Requests
      /\ Cardinality(Full) \in Nat
      /\ Cardinality(Completed) \in Nat /\ Cardinality(Failed) \in Nat
      /\ Cardinality(Gone) \in Nat
  BY Counted DEF Gone
<1>5. CASE /\ Batcher!Refuse(r) /\ Answer(r, "bad_gateway")
           /\ metrics' = Bump({<<"received", r>>})
  <2>1. UNCHANGED <<Full, Completed, Failed, Gone>>
    BY <1>1, <1>2, <1>5 DEF Batched, Full, Completed, Failed, Gone, Inv,
                            Types, Answer, Blame, Batcher!Refuse
  <2>2. Moved(1, 0, 0, 0 + 0)
    BY <1>5, MovedOne, SMTT(30) DEF Counters
  <2>3. Grown(1, 0, 0, 0, 0)
    BY <1>3, <1>4, <2>1 DEF Grown
  <2> QED
    BY <1>4, <2>2, <2>3, CountMoved
<1>6. CASE /\ Batcher!Accept(r) /\ Await(r, "future")
           /\ metrics' = Bump({<<"received", r>>})
  <2>1. UNCHANGED <<Full, Completed, Failed, Gone>>
    BY <1>1, <1>2, <1>6 DEF Batched, Full, Completed, Failed, Gone, Inv,
                            Types, Await, Blame, Batcher!Accept
  <2>2. Moved(1, 0, 0, 0 + 0)
    BY <1>6, MovedOne DEF Counters
  <2>3. Grown(1, 0, 0, 0, 0)
    BY <1>3, <1>4, <2>1 DEF Grown
  <2> QED
    BY <1>4, <2>2, <2>3, CountMoved
<1>7. CASE /\ Batcher!Reject(r) /\ Answer(r, "queue_full")
           /\ metrics' = Bump({<<"received", r>>, <<"rejected", r>>})
  <2>1. UNCHANGED <<Completed, Failed, Gone>>
        /\ Full' = Full \cup {r} /\ r \notin Full
    BY <1>1, <1>2, <1>7 DEF Batched, Full, Completed, Failed, Gone, Inv,
                            Types, Answer, Blame, Batcher!Reject
  <2>2. Moved(1, 1, 0, 0 + 0)
    BY <1>7, MovedTwo
  <2>3. Grown(1, 1, 0, 0, 0)
    BY <1>3, <1>4, <2>1, CountMore DEF Grown, Full
  <2> QED
    BY <1>4, <2>2, <2>3, CountMoved
<1> QED
  BY <1>5, <1>6, <1>7 DEF ReceiveBatched

(* ... then one that is passed through, ...                                *)
LEMMA CountPassedThrough ==
    ASSUME IsFiniteSet(Requests), Inv, StoryInv, CountInv,
           NEW r \in Requests, NEW x \in {"timeout", "error"},
           \/ ReceivePassThrough(r)
           \/ PassThroughReturns(r) \/ PassThroughFails(r, x)
    PROVE  CountInv'
<1>1. /\ outcome[r] = "none" /\ UNCHANGED <<outcome, call>>
      /\ handler[r] \in {"none", "backend"} /\ reply[r] = "none"
  <2>1. Mode # "batched" /\ handler[r] \in {"none", "backend"}
        /\ UNCHANGED <<outcome, call>>
    BY DEF ReceivePassThrough, PassThroughReturns, PassThroughFails, StoryInv,
           Batched, batcher
  <2> QED
    BY <2>1 DEF StoryInv, PassedThrough
<1>2. /\ UNCHANGED Gone /\ Gone' \in SUBSET Requests
      /\ Cardinality(Received) \in Nat /\ Cardinality(Full) \in Nat
      /\ Cardinality(Completed) \in Nat /\ Cardinality(Failed) \in Nat
      /\ Cardinality(Gone) \in Nat
  BY <1>1, Counted DEF Gone
<1>3. ASSUME NEW status \in Replies, Answer(r, status)
      PROVE  /\ \A q \in Requests : (reply'[q] = status /\ q = r) \/
                    (reply'[q] = reply[q] /\ q # r)
             /\ \A q \in Requests : handler'[q] =
                    IF q = r THEN "done" ELSE handler[q]
  BY <1>3 DEF Answer, Inv, Types
<1>4. ASSUME NEW status \in Blame, Answer(r, status)
      PROVE  /\ UNCHANGED <<Full, Completed>>
             /\ Failed' = Failed \cup {r} /\ r \notin Failed
  <2>1. status \in Replies /\ status # "ok" /\ status # "queue_full"
    BY DEF Blame, Replies
  <2>2. UNCHANGED <<Full, Completed>>
    BY <1>1, <1>3, <1>4, <2>1 DEF Full, Completed
  <2>3. r \notin Failed /\ r \in Failed'
    BY <1>1, <1>3, <1>4, <2>1 DEF Failed, Blame
  <2>4. \A q \in Requests : q # r => (q \in Failed' <=> q \in Failed)
    BY <1>1, <1>3, <1>4, <2>1 DEF Failed
  <2> QED
    BY <2>2, <2>3, <2>4 DEF Failed
<1>5. CASE ReceivePassThrough(r)
  <2>1. /\ Received' = Received \cup {r} /\ r \notin Received
    BY <1>5 DEF ReceivePassThrough, Received, Answer, Await, Inv, Types
  <2>2. Cardinality(Received') = Cardinality(Received) + 1
    BY <2>1, CountMore DEF Received
  <2>3. CASE Await(r, "backend") /\ metrics' = Bump({<<"received", r>>})
    <3>1. UNCHANGED <<Full, Completed, Failed>>
      BY <1>1, <2>3 DEF Full, Completed, Failed, Await
    <3>2. Moved(1, 0, 0, 0 + 0)
      BY <2>3, MovedOne DEF Counters
    <3>3. Grown(1, 0, 0, 0, 0)
      BY <1>2, <2>2, <3>1 DEF Grown
    <3> QED
      BY <1>2, <3>2, <3>3, CountMoved
  <2>4. CASE /\ Answer(r, "bad_gateway")
             /\ metrics' = Bump({<<"received", r>>, <<"failed", r>>})
    <3>1. UNCHANGED <<Full, Completed>>
          /\ Failed' = Failed \cup {r} /\ r \notin Failed
      BY <1>4, <2>4 DEF Blame
    <3>2. Moved(1, 0, 0, 1 + 0)
      <4>1. Moved(1, 0, 0, 1)
        BY <2>4, MovedTwo
      <4> QED
        BY <4>1
    <3>3. Grown(1, 0, 0, 1, 0)
      BY <1>2, <2>2, <3>1, CountMore DEF Grown, Failed
    <3> QED
      BY <1>2, <3>2, <3>3, CountMoved
  <2> QED
    BY <1>5, <2>3, <2>4 DEF ReceivePassThrough
<1>6. CASE PassThroughReturns(r)
  <2>1. /\ Answer(r, "ok") /\ metrics' = Bump({<<"completed", r>>})
        /\ handler[r] # "none"
    BY <1>6 DEF PassThroughReturns
  <2>2. /\ \A q \in Requests : q # r => reply'[q] = reply[q]
        /\ reply'[r] = "ok"
        /\ \A q \in Requests : handler'[q] =
               IF q = r THEN "done" ELSE handler[q]
    BY <1>3, <2>1 DEF Replies
  <2>3. UNCHANGED Received
    BY <2>1, <2>2 DEF Received
  <2>4. UNCHANGED <<Full, Failed>>
    BY <1>1, <2>2 DEF Full, Failed, Blame
  <2>5. Completed' = Completed \cup {r} /\ r \notin Completed
    BY <1>1, <2>2 DEF Completed
  <2>6. Moved(0, 0, 1, 0 + 0)
    BY <2>1, MovedOne DEF Counters
  <2>7. Grown(0, 0, 1, 0, 0)
    BY <1>2, <2>3, <2>4, <2>5, CountMore DEF Grown, Completed
  <2> QED
    BY <1>2, <2>6, <2>7, CountMoved
<1>7. CASE PassThroughFails(r, x)
  <2>1. /\ StatusOf(x) \in Blame /\ Answer(r, StatusOf(x))
        /\ metrics' = Bump({<<"failed", r>>}) /\ handler[r] # "none"
    BY <1>7 DEF PassThroughFails, StatusOf, Blame
  <2>2. \A q \in Requests : handler'[q] = IF q = r THEN "done" ELSE handler[q]
    BY <1>3, <2>1 DEF Replies, Blame
  <2>3. UNCHANGED Received
    BY <2>1, <2>2 DEF Received
  <2>4. UNCHANGED <<Full, Completed>>
        /\ Failed' = Failed \cup {r} /\ r \notin Failed
    BY <1>4, <2>1
  <2>5. Moved(0, 0, 0, 1 + 0)
    BY <2>1, MovedOne DEF Counters
  <2>6. Grown(0, 0, 0, 1, 0)
    BY <1>2, <2>3, <2>4, CountMore DEF Grown, Failed
  <2> QED
    BY <1>2, <2>5, <2>6, CountMoved
<1> QED
  BY <1>5, <1>6, <1>7

(* ... and a call that ends.                                               *)
LEMMA CountCall ==
    ASSUME IsFiniteSet(Requests), Inv, StoryInv, CountInv,
           NEW x \in {"timeout", "error"}, CallReturns \/ CallFails(x)
    PROVE  CountInv'
<1> DEFINE live == call \cap Batcher!Unsettled
           left == {r \in call : outcome[r] = "cancelled"}
<1>1. /\ call \in SUBSET Requests /\ live \in SUBSET Requests
      /\ left \in SUBSET Requests /\ call = live \cup left
      /\ live \cap left = {}
  BY DEF Inv, Types, StoryInv, Batcher!Unsettled
<1>2. Mode = "batched" /\ call' = {} /\ UNCHANGED <<handler, reply>>
  BY DEF CallReturns, CallFails, Batcher!Finish, StoryInv
<1>3. \A r \in live : reply[r] = "none" /\ outcome[r] = "pending"
  BY <1>1, <1>2 DEF StoryInv, Batched, Batcher!Unsettled
<1>4. ASSUME NEW o \in {"result", "error"}, Batcher!Become(call, o)
      PROVE  \A r \in Requests :
                 outcome'[r] = IF r \in live THEN o ELSE outcome[r]
  BY <1>4 DEF Batcher!Become, Batcher!Unsettled
<1>5. UNCHANGED <<Received, Full>>
  BY <1>2 DEF Received, Full
<1> HIDE DEF live
<1>6. /\ Gone' \in SUBSET Requests /\ Cardinality(Gone') \in Nat
      /\ Cardinality(Received) \in Nat /\ Cardinality(Full) \in Nat
      /\ Cardinality(Completed) \in Nat /\ Cardinality(Failed) \in Nat
      /\ Cardinality(Gone) \in Nat /\ IsFiniteSet(live)
      /\ Cardinality(live) \in Nat /\ Cardinality(left) \in Nat
      /\ IsFiniteSet(call)
  <2>1. Gone' \in SUBSET Requests
    BY DEF Gone
  <2> QED
    BY <1>1, <2>1, Counted, Countable
<1>7. ASSUME NEW o \in {"result", "error"}, Batcher!Become(call, o)
      PROVE  Cardinality(Gone') >= Cardinality(Gone) + Cardinality(left)
  <2>1. Gone \cup left \in SUBSET Gone'
    BY <1>1, <1>2, <1>3, <1>4, <1>7 DEF Gone
  <2>2. Gone \cap left = {} /\ Gone \in SUBSET Requests
    BY DEF Gone
  <2>3. Cardinality(Gone \cup left) = Cardinality(Gone) + Cardinality(left)
    BY <1>1, <2>2, CountBoth
  <2>4. IsFiniteSet(Gone')
    BY <1>6, Countable
  <2>5. Cardinality(Gone \cup left) <= Cardinality(Gone')
    BY <2>1, <2>4, FS_Subset
  <2> QED
    BY <2>3, <2>5
<1>8. CASE CallReturns
  <2>1. Batcher!Become(call, "result")
        /\ metrics' = Bump({"completed"} \X live)
    BY <1>8 DEF CallReturns, Batcher!Finish, live
  <2>2. /\ UNCHANGED Failed
        /\ Completed' = Completed \cup live /\ Completed \cap live = {}
    BY <1>1, <1>2, <1>3, <1>4, <2>1 DEF Failed, Completed
  <2>3. Cardinality(Completed') = Cardinality(Completed) + Cardinality(live)
    BY <1>1, <2>2, CountBoth DEF Completed
  <2>4. Moved(0, 0, Cardinality(live), 0 + 0)
    BY <1>6, <2>1, MovedCall
  <2>5. Grown(0, 0, Cardinality(live), 0, 0)
    BY <1>5, <1>6, <1>7, <2>1, <2>2, <2>3 DEF Grown
  <2> QED
    BY <1>6, <2>4, <2>5, CountMoved
<1>9. CASE CallFails(x)
  <2>1. Batcher!Become(call, "error") /\ metrics' = Bump({"failed"} \X call)
    BY <1>9 DEF CallFails, Batcher!Finish
  <2>2. /\ UNCHANGED Completed
        /\ Failed' = Failed \cup live /\ Failed \cap live = {}
    BY <1>1, <1>2, <1>3, <1>4, <2>1 DEF Failed, Completed, Blame
  <2>3. Cardinality(Failed') = Cardinality(Failed) + Cardinality(live)
    BY <1>1, <2>2, CountBoth DEF Failed
  <2>4. Cardinality(call) = Cardinality(live) + Cardinality(left)
    BY <1>1, CountBoth
  <2>5. Moved(0, 0, 0, Cardinality(live) + Cardinality(left))
    BY <1>6, <2>1, <2>4, MovedCall
  <2>6. Grown(0, 0, 0, Cardinality(live), Cardinality(left))
    BY <1>5, <1>6, <1>7, <2>1, <2>2, <2>3 DEF Grown
  <2> QED
    BY <1>6, <2>5, <2>6, CountMoved
<1> QED
  BY <1>8, <1>9

(* No other step counts.                                                   *)
LEMMA CountStep ==
    ASSUME IsFiniteSet(Requests), Inv, StoryInv, StoryInv', CountInv,
           [Next]_vars
    PROVE  CountInv'
<1>1. UNCHANGED deployment /\ Gone' \in SUBSET Requests
  BY DEF Next, vars, Gone
<1> USE DEF Inv, Types, Blame
<1>2. ASSUME NEW r \in Requests, Resume(r)
      PROVE  CountInv'
  <2>1. Mode = "batched"
    BY <1>2 DEF Resume, StoryInv, PassedThrough
  <2>2. Batched(r) /\ Batched(r)' /\ UNCHANGED <<outcome, call, metrics>>
        /\ handler[r] # "none" /\ handler'[r] # "none"
        /\ \A q \in Requests \ {r} : UNCHANGED <<handler[q], reply[q]>>
    BY <1>1, <1>2, <2>1 DEF Resume, Answer, StoryInv, Mode, batcher
  <2>3. UNCHANGED <<Received, Full, Completed, Failed, Gone>>
    BY <1>2, <2>2 DEF Received, Full, Completed, Failed, Gone, Batched,
                      Resume
  <2> QED
    BY <1>1, <2>2, <2>3, CountKept
<1>3. ASSUME NEW r \in Requests, Cancel(r)
      PROVE  CountInv'
  <2>1. UNCHANGED <<reply, call, metrics>>
        /\ handler[r] # "none" /\ handler'[r] # "none"
        /\ \/ outcome'[r] = outcome[r]
           \/ outcome[r] = "pending" /\ outcome'[r] = "cancelled"
        /\ \A q \in Requests \ {r} : UNCHANGED <<handler[q], outcome[q]>>
    BY <1>3 DEF Cancel, InProgress, Awaiting, Batcher!Cancel,
                Batcher!Unsettled, batcher
  <2>2. reply[r] = "none"
    BY <1>3 DEF Cancel, InProgress, Awaiting, StoryInv, Batched,
                PassedThrough
  <2>3. ASSUME NEW q \in Requests
        PROVE  /\ handler[q] # "none" <=> handler'[q] # "none"
               /\ outcome[q] = "result" <=> outcome'[q] = "result"
               /\ outcome[q] = "error" <=> outcome'[q] = "error"
               /\ reply[q] # "none" => outcome'[q] = outcome[q]
               /\ outcome[q] = "cancelled" => outcome'[q] = "cancelled"
    <3>1. CASE q = r
      BY <2>1, <2>2, <3>1
    <3>2. CASE q # r
      BY <2>1, <3>2
    <3> QED
      BY <3>1, <3>2
  <2>4. UNCHANGED <<Received, Full, Completed>>
    BY <2>1, <2>3 DEF Received, Full, Completed
  <2>5. UNCHANGED Failed /\ Gone \subseteq Gone'
    BY <2>1, <2>3 DEF Failed, Gone
  <2> QED
    BY <1>1, <2>1, <2>4, <2>5, CountKept
<1>4. CASE StopReturns
  <2>1. /\ UNCHANGED <<handler, reply, call, metrics>>
        /\ \A r \in Requests : outcome'[r] =
               IF outcome[r] = "pending" THEN "stopped" ELSE outcome[r]
    BY <1>4 DEF StopReturns, Batcher!Settle, Batcher!Become
  <2>2. Mode = "batched"
    BY <1>4 DEF StopReturns, Batcher!Settle, StoryInv
  <2>3. \A r \in Requests : outcome[r] = "pending" => reply[r] = "none"
    BY <2>2 DEF StoryInv, Batched
  <2>4. UNCHANGED <<Received, Full, Completed, Failed, Gone>>
    BY <2>1, <2>3 DEF Received, Full, Completed, Failed, Gone
  <2> QED
    BY <1>1, <2>1, <2>4, CountKept
<1>5. CASE Dispatch
  <2>1. /\ UNCHANGED <<handler, reply, outcome, metrics>> /\ call = {}
        /\ \A r \in call' : outcome[r] = "pending"
    BY <1>5 DEF Dispatch, Batcher!Dispatch, Batcher!Unsettled
  <2>2. UNCHANGED <<Received, Full, Completed, Failed>>
        /\ Gone \subseteq Gone'
    BY <2>1 DEF Received, Full, Completed, Failed, Gone
  <2> QED
    BY <1>1, <2>1, <2>2, CountKept
<1>6. CASE Startup \/ Signal \/ Stop \/ CallAbandoned \/ Exit
           \/ UNCHANGED vars
  <2>1. /\ UNCHANGED <<handler, reply, outcome, metrics>>
        /\ call' \in {call, {}}
    BY <1>6 DEF Startup, Signal, Stop, CallAbandoned, Exit, batcher, vars,
                Batcher!Open, Batcher!Close, Batcher!Break, Batcher!Abandon
  <2>2. UNCHANGED <<Received, Full, Completed, Failed>>
        /\ Gone \subseteq Gone'
    BY <2>1 DEF Received, Full, Completed, Failed, Gone
  <2> QED
    BY <1>1, <2>1, <2>2, CountKept
<1> QED
  BY <1>1, <1>2, <1>3, <1>4, <1>5, <1>6, CountReceived, CountPassedThrough,
     CountCall DEF Next, Serving, Lifespan, Environment
(* ... and what lies between two sets has a size between theirs.           *)
LEMMA CountMost ==
    ASSUME IsFiniteSet(Requests), NEW S \in SUBSET Requests,
           NEW T \in SUBSET Requests, NEW U \in SUBSET Requests,
           T \subseteq S, S \subseteq T \cup U
    PROVE  /\ Cardinality(T) <= Cardinality(S)
           /\ Cardinality(S) <= Cardinality(T) + Cardinality(U)
<1>1. S = T \cup (S \ T) /\ T \cap (S \ T) = {} /\ S \ T \in SUBSET Requests
      /\ S \ T \subseteq U
  OBVIOUS
<1>2. /\ Cardinality(S) \in Nat /\ Cardinality(T) \in Nat
      /\ Cardinality(U) \in Nat /\ Cardinality(S \ T) \in Nat
      /\ IsFiniteSet(U)
  BY <1>1, Countable
<1>3. Cardinality(S) = Cardinality(T) + Cardinality(S \ T)
  <2> DEFINE R == S \ T
  <2>1. Cardinality(T \cup R) = Cardinality(T) + Cardinality(R)
    BY <1>1, CountBoth
  <2>2. T \cup R = S
    BY <1>1
  <2> QED
    BY <2>1, <2>2
<1>4. Cardinality(S \ T) <= Cardinality(U)
  BY <1>1, <1>2, FS_Subset
<1> QED
  BY <1>2, <1>3, <1>4

(* With no handler in progress a request that was settled but not answered *)
(* has been cancelled, so the sets that are counted are those of the       *)
(* replies, up to the cancelled ones.                                      *)
LEMMA QuietCounts ==
    ASSUME IsFiniteSet(Requests), Inv, StoryInv, CountInv
    PROVE  CountersMatchReplies
<1> DEFINE With(s) == {r \in Requests : reply[r] = s}
           cancelled == {r \in Requests : handler[r] = "cancelled"}
           refused == {r \in Requests : outcome[r] = "refused"}
           stopping == {r \in Requests : outcome[r] = "stopped"}
           told == {r \in Requests :
                       reply[r] \in Blame /\ outcome[r] # "refused"}
<1> SUFFICES ASSUME InProgress = {}
             PROVE  LET blamed == Cardinality(With("bad_gateway"))
                            + Cardinality(With("gateway_timeout"))
                            - Cardinality(refused)
                    IN /\ metrics["received"] = Cardinality(Received)
                       /\ metrics["completed"] >= Cardinality(With("ok"))
                       /\ metrics["completed"] <=
                            Cardinality(With("ok")) + Cardinality(cancelled)
                       /\ metrics["rejected"]
                            = Cardinality(With("queue_full"))
                       /\ metrics["failed"] >= blamed
                       /\ metrics["failed"] <= blamed + Cardinality(cancelled)
                       /\ Cardinality(With("shutting_down"))
                            <= Cardinality(stopping)
                       /\ Cardinality(With("shutting_down"))
                            + Cardinality(cancelled) >= Cardinality(stopping)
  BY DEF CountersMatchReplies, Received
<1>1. ASSUME NEW r \in Requests
      PROVE  /\ outcome[r] = "result" => reply[r] = "ok" \/ r \in cancelled
             /\ outcome[r] = "error" => reply[r] \in Blame \/ r \in cancelled
             /\ outcome[r] = "stopped" =>
                    reply[r] = "shutting_down" \/ r \in cancelled
             /\ outcome[r] = "cancelled" => r \in cancelled
             /\ outcome[r] = "refused" => reply[r] = "bad_gateway"
             /\ reply[r] = "shutting_down" => outcome[r] = "stopped"
  <2>1. handler[r] \notin {"future", "backend"}
    BY DEF InProgress, Awaiting
  <2>2. Batched(r) \/ PassedThrough(r)
    BY DEF StoryInv
  <2>3. CASE Batched(r)
    BY <2>1, <2>3 DEF Batched, Blame
  <2>4. CASE PassedThrough(r)
    BY <2>1, <2>4 DEF PassedThrough, Blame
  <2> QED
    BY <2>2, <2>3, <2>4
<1>2. /\ \A s \in Replies : With(s) \in SUBSET Requests
      /\ cancelled \in SUBSET Requests /\ refused \in SUBSET Requests
      /\ stopping \in SUBSET Requests /\ told \in SUBSET Requests
      /\ Completed \in SUBSET Requests /\ Failed \in SUBSET Requests
      /\ Gone \in SUBSET Requests
  BY DEF Completed, Failed, Gone
<1>3. /\ \A s \in Replies : Cardinality(With(s)) \in Nat
      /\ Cardinality(cancelled) \in Nat /\ Cardinality(refused) \in Nat
      /\ Cardinality(stopping) \in Nat /\ Cardinality(told) \in Nat
      /\ Cardinality(Completed) \in Nat /\ Cardinality(Failed) \in Nat
      /\ Cardinality(Gone) \in Nat /\ Cardinality(Failed \cup Gone) \in Nat
  BY <1>2, Countable
<1>4. /\ Cardinality(With("ok")) <= Cardinality(Completed)
      /\ Cardinality(Completed)
             <= Cardinality(With("ok")) + Cardinality(cancelled)
  <2>1. /\ With("ok") \subseteq Completed
        /\ Completed \subseteq With("ok") \cup cancelled
    BY <1>1 DEF Completed
  <2> QED
    BY <1>2, <2>1, CountMost DEF Replies
<1>5. /\ Cardinality(told) <= Cardinality(Failed)
      /\ Cardinality(Failed) + Cardinality(Gone)
             <= Cardinality(told) + Cardinality(cancelled)
  <2>1. /\ told \subseteq Failed /\ told \subseteq Failed \cup Gone
        /\ Failed \subseteq told \cup cancelled
        /\ Failed \cup Gone \subseteq told \cup cancelled
    BY <1>1 DEF Failed, Gone
  <2>2. Failed \cap Gone = {}
    BY <1>1 DEF Failed, Gone, Inv, Types, Blame, StoryInv, Batched,
                PassedThrough
  <2>3. Cardinality(Failed \cup Gone) = Cardinality(Failed) + Cardinality(Gone)
    BY <1>2, <2>2, CountBoth
  <2>4. Failed \cup Gone \in SUBSET Requests
    BY <1>2
  <2> QED
    BY <1>2, <2>1, <2>3, <2>4, CountMost
<1>6. Cardinality(With("bad_gateway")) + Cardinality(With("gateway_timeout"))
          = Cardinality(told) + Cardinality(refused)
  <2> DEFINE bad == With("bad_gateway")
             late == With("gateway_timeout")
  <2>1. bad \cap late = {} /\ told \cap refused = {}
        /\ bad \cup late = told \cup refused
        /\ bad \in SUBSET Requests /\ late \in SUBSET Requests
    BY <1>1 DEF Blame
  <2>2. Cardinality(bad \cup late) = Cardinality(bad) + Cardinality(late)
    BY <2>1, CountBoth
  <2>3. Cardinality(told \cup refused)
            = Cardinality(told) + Cardinality(refused)
    BY <1>2, <2>1, CountBoth
  <2> QED
    BY <2>1, <2>2, <2>3
<1>7. /\ Cardinality(With("shutting_down")) <= Cardinality(stopping)
      /\ Cardinality(stopping)
             <= Cardinality(With("shutting_down")) + Cardinality(cancelled)
  <2>1. /\ With("shutting_down") \subseteq stopping
        /\ stopping \subseteq With("shutting_down") \cup cancelled
    BY <1>1
  <2> QED
    BY <1>2, <2>1, CountMost DEF Replies
<1>8. Full = With("queue_full") /\ \A c \in Counters : metrics[c] \in Nat
  BY DEF Full, CountInv
<1> HIDE DEF With, cancelled, refused, stopping, told
<1> QED
  BY <1>3, <1>4, <1>5, <1>6, <1>7, <1>8 DEF CountInv, Replies, Counters

(* The counters tell the story of the replies, for any finite set of       *)
(* requests (what is counted has a size), any batching and any shutdown.   *)
THEOREM RepliesCounted ==
    IsFiniteSet(Requests) => (Spec => []CountersMatchReplies)
<1> SUFFICES ASSUME IsFiniteSet(Requests)
             PROVE  Spec => []CountersMatchReplies
  OBVIOUS
<1>1. Init => StoryInv /\ CountInv
  BY StoryInit, CountInit
<1>2. Inv /\ Inv' /\ StoryInv /\ CountInv /\ [Next]_vars =>
          StoryInv' /\ CountInv'
  BY StoryStep, CountStep
<1>3. Inv /\ StoryInv /\ CountInv => CountersMatchReplies
  BY QuietCounts
<1> QED
  BY <1>1, <1>2, <1>3, Invariant, PTL DEF Spec
=============================================================================
