----------------------- MODULE BatcherContractProofs -----------------------
(***************************************************************************)
(* Further theorems about Batcher, for all keys and queue sizes.  For any  *)
(* requests: one place for each request (HeldOnce), who is served next     *)
(* (InTurn) and what a crash of the coordinator leaves behind              *)
(* (CrashStrandsOnlyLater).  For any finite set of requests: every step of *)
(* the batcher is a step of ServingContract, or one that the contract does *)
(* not see, and the counters agree with what became of the futures.        *)
(***************************************************************************)
EXTENDS BatcherContract, BatcherProofs

-----------------------------------------------------------------------------
(* Sequences without repetition                                            *)

(* A new element repeats nothing.                                          *)
LEMMA DistinctAppend ==
    ASSUME NEW S, NEW s \in Seq(S), NEW x \in S, Distinct(s),
           x \notin Range(s)
    PROVE  Distinct(Append(s, x))
<1> DEFINE t == Append(s, x)
<1>1. t \in Seq(S) /\ Len(t) = Len(s) + 1 /\ t[Len(s) + 1] = x
      /\ \A i \in 1..Len(s) : t[i] = s[i]
  BY AppendProperties
<1>2. \A i \in 1..Len(s) : s[i] # x
  BY DEF Range
<1> HIDE DEF t
<1>3. DOMAIN t = 1..(Len(s) + 1) /\ DOMAIN s = 1..Len(s) /\ Len(s) \in Nat
  BY <1>1
<1>4. Distinct(t)
  BY <1>1, <1>2, <1>3 DEF Distinct
<1> QED
  BY <1>4 DEF t

(* The head of a sequence without repetition is not in its tail.           *)
LEMMA DistinctTail ==
    ASSUME NEW S, NEW s \in Seq(S), s # <<>>, Distinct(s)
    PROVE  Distinct(Tail(s)) /\ Range(Tail(s)) = Range(s) \ {Head(s)}
<1> DEFINE t == Tail(s)
<1>1. Head(s) = s[1] /\ t \in Seq(S) /\ Len(t) = Len(s) - 1
      /\ \A i \in 1..Len(t) : t[i] = s[i + 1]
  BY HeadTailProperties
<1> HIDE DEF t
<1>2. DOMAIN t = 1..(Len(s) - 1) /\ DOMAIN s = 1..Len(s) /\ Len(s) \in Nat
      /\ Len(s) >= 1
  BY <1>1
<1>3. Distinct(t)
  BY <1>1, <1>2, SMTT(30) DEF Distinct
<1>4. Head(s) \notin Range(t)
  <2>1. \A i \in 1..(Len(s) - 1) : t[i] # s[1]
    <3>1. \A i \in 1..(Len(s) - 1) : s[i + 1] # s[1]
      BY <1>2 DEF Distinct
    <3> QED
      BY <1>1, <1>2, <3>1
  <2> QED
    BY <1>1, <1>2, <2>1 DEF Range
<1>5. Range(s) = {Head(s)} \cup Range(t)
  BY RangeHeadTail DEF t
<1> QED
  BY <1>3, <1>4, <1>5 DEF t

(* Without one entry, the element of that entry is gone.                   *)
LEMMA DistinctRemove ==
    ASSUME NEW S, NEW s \in Seq(S), NEW i \in DOMAIN s, Distinct(s)
    PROVE  Distinct(Remove(s, i))
<1> DEFINE t == Remove(s, i)
<1>1. /\ t \in Seq(S) /\ Len(t) = Len(s) - 1
      /\ \A j \in 1..(Len(s) - 1) : t[j] = IF j < i THEN s[j] ELSE s[j + 1]
  BY RemoveElements
<1> HIDE DEF t
<1>2. /\ DOMAIN t = 1..(Len(s) - 1) /\ DOMAIN s = 1..Len(s)
      /\ Len(s) \in Nat /\ i \in 1..Len(s)
  BY <1>1
<1> DEFINE At(a) == IF a < i THEN a ELSE a + 1
<1>3. ASSUME NEW a \in DOMAIN t, NEW b \in DOMAIN t, t[a] = t[b]
      PROVE  a = b
  <2>1. t[a] = s[At(a)] /\ t[b] = s[At(b)]
    BY <1>1, <1>2
  <2>2. At(a) \in DOMAIN s /\ At(b) \in DOMAIN s
    BY <1>2
  <2>3. At(a) = At(b)
    BY <1>3, <2>1, <2>2 DEF Distinct
  <2> QED
    BY <1>2, <2>3
<1> QED
  BY <1>3 DEF t, Distinct

-----------------------------------------------------------------------------
USE KeyOfAssumption, BatchSizeAssumption, QueueSizeAssumption, NoneAssumption

(* One place for each request                                              *)

(* What the batcher holds has been accepted, and is settled by its caller  *)
(* or not at all.                                                          *)
HeldOpen == \A r \in Held : outcome[r] \in {"pending", "cancelled"}

OnceInv == HeldOnce /\ HeldOpen

(* Nothing is held at first.                                               *)
LEMMA OnceInit == Init => OnceInv
BY DEF Init, OnceInv, HeldOnce, HeldOpen, Held, Waiting, Queued, Range,
       Distinct

(* A get() moves the request to the end of its deque, or drops it.         *)
LEMMA TakeOnce ==
    ASSUME TypeOK, HeldOnce, TakeFromIngress, UNCHANGED <<batch, inflight>>
    PROVE  HeldOnce' /\ Waiting' \subseteq Waiting
<1> DEFINE h == Head(ingress)
           k == KeyOf[h]
<1>1. /\ h \in Requests /\ k \in Keys /\ ingress' = Tail(ingress)
      /\ EnqueuePending(h)
  BY RangeHeadTail DEF TypeOK, TakeFromIngress
<1>2. /\ Distinct(ingress') /\ Range(ingress') = Range(ingress) \ {h}
      /\ h \in Range(ingress)
  BY DistinctTail, RangeHeadTail DEF TypeOK, TakeFromIngress, HeldOnce
<1> HIDE DEF h
<1>3. \A j \in Keys : /\ Distinct(pending'[j])
                      /\ Range(pending'[j]) \subseteq Range(pending[j]) \cup {h}
                      /\ h \in Range(pending'[j]) => j = k
  <2> TAKE j \in Keys
  <2>1. h \notin Range(pending[j]) /\ Distinct(pending[j])
        /\ pending[j] \in Seq(Requests)
    BY <1>2 DEF HeldOnce, Queued, TypeOK
  <2>2. CASE pending'[j] = pending[j]
    BY <2>1, <2>2
  <2>3. CASE j = k /\ pending'[j] = Append(pending[j], h)
    BY <1>1, <2>1, <2>3, DistinctAppend, RangeAppend
  <2>4. \/ pending'[j] = pending[j]
        \/ j = k /\ pending'[j] = Append(pending[j], h)
    BY <1>1 DEF EnqueuePending, TypeOK
  <2> QED
    BY <2>2, <2>3, <2>4
<1>4. \A j \in Keys : \A r \in Range(pending'[j]) : KeyOf[r] = j
  BY <1>3 DEF HeldOnce
<1>5. Queued' \subseteq Queued \cup {h}
  BY <1>3 DEF Queued
<1>6. Waiting' \subseteq Waiting
  BY <1>2, <1>5 DEF Waiting
<1>7. Range(ingress') \cap Queued' = {}
  BY <1>2, <1>5 DEF HeldOnce
<1> QED
  BY <1>2, <1>3, <1>4, <1>6, <1>7 DEF HeldOnce

(* The deque of one key loses some of its requests.                        *)
LEMMA FewerQueued ==
    ASSUME TypeOK, HeldOnce, NEW k \in Keys, NEW s,
           pending' = [pending EXCEPT ![k] = s],
           Distinct(s), Range(s) \subseteq Range(pending[k]),
           UNCHANGED ingress
    PROVE  /\ Queued' \subseteq Queued /\ Waiting' \subseteq Waiting
           /\ \A j \in Keys : Distinct(pending'[j])
           /\ \A j \in Keys : \A r \in Range(pending'[j]) : KeyOf[r] = j
           /\ Range(ingress') \cap Queued' = {}
           /\ \A r \in Range(pending[k]) \ Range(s) : r \notin Waiting'
<1>1. \A j \in Keys : pending'[j] = IF j = k THEN s ELSE pending[j]
  BY DEF TypeOK
<1>2. \A j \in Keys : /\ Distinct(pending'[j])
                      /\ Range(pending'[j]) \subseteq Range(pending[j])
  BY <1>1 DEF HeldOnce
<1>3. Queued' \subseteq Queued /\ Waiting' \subseteq Waiting
  BY <1>2 DEF Queued, Waiting
<1>4. \A j \in Keys : \A r \in Range(pending'[j]) : KeyOf[r] = j
  BY <1>2 DEF HeldOnce
<1>5. Range(ingress') \cap Queued' = {}
  BY <1>3 DEF HeldOnce
<1>6. ASSUME NEW r \in Range(pending[k]) \ Range(s)
      PROVE  r \notin Waiting'
  <2>1. KeyOf[r] = k /\ r \in Queued
    BY <1>6 DEF HeldOnce, Queued
  <2>2. r \notin Range(ingress')
    BY <2>1 DEF HeldOnce
  <2>3. \A j \in Keys : r \notin Range(pending'[j])
    BY <1>1, <1>4, <1>6, <2>1
  <2> QED
    BY <2>2, <2>3 DEF Waiting, Queued
<1> QED
  BY <1>2, <1>3, <1>4, <1>5, <1>6

(* The containers hold requests.                                           *)
LEMMA HeldRequests == TypeOK => Held \subseteq Requests
BY DEF TypeOK, Held, Waiting, Queued, Range

(* The containers take in what is accepted and nothing else.               *)
LEMMA HeldSteps ==
    ASSUME TypeInv, Handover, OnceInv, [Next]_vars
    PROVE  /\ HeldOnce'
           /\ \/ Held' \subseteq Held /\ Waiting' \subseteq Waiting
              \/ \E r \in Requests : /\ Accept(r) /\ r \notin Held
                                     /\ Held' = Held \cup {r}
                                     /\ Waiting' = Waiting \cup {r}
<1> USE DEF TypeInv, OnceInv, queues, batching
<1>1. CASE UNCHANGED <<ingress, pending, batch, inflight>>
  BY <1>1 DEF HeldOnce, Held, Waiting, Queued
<1>2. CASE TakeFromIngress /\ UNCHANGED <<batch, inflight>>
  <2>1. HeldOnce' /\ Waiting' \subseteq Waiting
    BY <1>2, TakeOnce
  <2>2. Held' \subseteq Held
    BY <1>2, <2>1 DEF Held
  <2> QED
    BY <2>1, <2>2
<1>3. ASSUME NEW r \in Requests, Accept(r)
      PROVE  /\ HeldOnce' /\ r \notin Held
             /\ Held' = Held \cup {r} /\ Waiting' = Waiting \cup {r}
  <2>1. r \notin Held
    BY <1>3 DEF Accept, HeldOpen
  <2>2. /\ ingress' = Append(ingress, r) /\ ingress \in Seq(Requests)
        /\ UNCHANGED <<pending, batch, inflight>>
    BY <1>3 DEF Accept, TypeOK
  <2>3. Distinct(ingress') /\ Range(ingress') = Range(ingress) \cup {r}
    BY <2>1, <2>2, DistinctAppend, RangeAppend DEF Held, Waiting, HeldOnce
  <2>4. /\ Queued' = Queued /\ Waiting' = Waiting \cup {r}
        /\ Held' = Held \cup {r}
    BY <2>2, <2>3 DEF Queued, Waiting, Held
  <2>5. HeldOnce'
    BY <2>1, <2>2, <2>3, <2>4 DEF HeldOnce, Held, Waiting
  <2> QED
    BY <2>1, <2>4, <2>5
<1>4. CASE Sweep
  <2>1. PICK i \in DOMAIN pending[key] :
            pending' = [pending EXCEPT ![key] = Remove(@, i)]
    BY <1>4 DEF Sweep
  <2>2. key \in Keys /\ pending[key] \in Seq(Requests)
    BY <1>4 DEF Sweep, KeySelected, TypeOK
  <2>3. /\ Distinct(Remove(pending[key], i))
        /\ Range(Remove(pending[key], i)) \subseteq Range(pending[key])
    BY <2>2, DistinctRemove, RangeRemove DEF HeldOnce
  <2>4. /\ pending' = [pending EXCEPT ![key] = Remove(pending[key], i)]
        /\ UNCHANGED <<ingress, batch, inflight>>
    BY <1>4, <2>1, <2>2 DEF Sweep, TypeOK
  <2>5. /\ Waiting' \subseteq Waiting
        /\ \A j \in Keys : Distinct(pending'[j])
        /\ \A j \in Keys : \A r \in Range(pending'[j]) : KeyOf[r] = j
        /\ Range(ingress') \cap Queued' = {}
    BY <2>2, <2>3, <2>4, FewerQueued
  <2>6. HeldOnce' /\ Held' \subseteq Held
    BY <2>4, <2>5 DEF HeldOnce, Held
  <2> QED
    BY <2>5, <2>6
<1>5. CASE PopNext
  <2> DEFINE h == Head(pending[key])
  <2>1. key \in Keys /\ pending[key] \in Seq(Requests) /\ pending[key] # <<>>
    BY <1>5 DEF PopNext, KeySelected, TypeOK
  <2>2. /\ pending' = [pending EXCEPT ![key] = Tail(pending[key])]
        /\ batch' = JoinBatch(h)
        /\ UNCHANGED <<ingress, inflight>>
    BY <1>5, <2>1 DEF PopNext, TypeOK
  <2>3. /\ Distinct(Tail(pending[key]))
        /\ Range(Tail(pending[key])) = Range(pending[key]) \ {h}
        /\ h \in Requests /\ h \in Range(pending[key])
    BY <2>1, DistinctTail, RangeHeadTail DEF HeldOnce
  <2> HIDE DEF h
  <2>4. /\ Waiting' \subseteq Waiting
        /\ \A j \in Keys : Distinct(pending'[j])
        /\ \A j \in Keys : \A r \in Range(pending'[j]) : KeyOf[r] = j
        /\ Range(ingress') \cap Queued' = {}
        /\ h \notin Waiting'
    BY <2>1, <2>2, <2>3, FewerQueued
  <2>5. h \in Waiting
    BY <2>1, <2>3 DEF Waiting, Queued
  <2>6. h \notin Range(batch) /\ h \notin Range(inflight)
        /\ batch \in Seq(Requests)
    BY <2>5 DEF HeldOnce, TypeOK
  <2>7. Distinct(batch') /\ Range(batch') \subseteq Range(batch) \cup {h}
    BY <2>2, <2>3, <2>6, DistinctAppend, RangeAppend DEF JoinBatch, HeldOnce
  <2>8. HeldOnce' /\ Held' \subseteq Held
    BY <2>2, <2>4, <2>5, <2>6, <2>7 DEF HeldOnce, Held
  <2> QED
    BY <2>4, <2>8
<1>6. CASE Dispatch
  <2>1. /\ inflight' = batch /\ batch' = <<>>
        /\ UNCHANGED <<ingress, pending>>
    BY <1>6 DEF Dispatch
  <2>2. Range(batch') = {} /\ Distinct(batch') /\ Waiting' = Waiting
        /\ Queued' = Queued
    BY <2>1 DEF Range, Distinct, Waiting, Queued
  <2>3. HeldOnce' /\ Held' \subseteq Held
    BY <2>1, <2>2 DEF HeldOnce, Held
  <2> QED
    BY <2>2, <2>3
<1>7. CASE BackendReturns \/ BackendFails
  <2>1. inflight' = <<>> /\ UNCHANGED <<ingress, pending, batch>>
    BY <1>7 DEF BackendReturns, BackendFails
  <2>2. Range(inflight') = {} /\ Distinct(inflight') /\ Waiting' = Waiting
        /\ Queued' = Queued
    BY <2>1 DEF Range, Distinct, Waiting, Queued
  <2>3. HeldOnce' /\ Held' \subseteq Held
    BY <2>1, <2>2 DEF HeldOnce, Held
  <2> QED
    BY <2>2, <2>3
<1>8. CASE StopSettles
  <2>1. /\ ingress' = <<>> /\ inflight' = <<>> /\ UNCHANGED batch
        /\ \A k \in Keys : pending'[k] = <<>>
    BY <1>8 DEF StopSettles
  <2>2. /\ Range(ingress') = {} /\ Range(inflight') = {}
        /\ \A k \in Keys : Range(pending'[k]) = {} /\ Distinct(pending'[k])
        /\ Distinct(ingress') /\ Distinct(inflight')
    BY <2>1 DEF Range, Distinct
  <2>3. Queued' = {} /\ Waiting' = {}
    BY <2>2 DEF Queued, Waiting
  <2>4. HeldOnce' /\ Held' \subseteq Held
    BY <2>1, <2>2, <2>3 DEF HeldOnce, Held
  <2> QED
    BY <2>3, <2>4
<1> QED
  BY <1>1, <1>2, <1>3, <1>4, <1>5, <1>6, <1>7, <1>8
     DEF Next, Caller, Refuse, Reject, Cancel, Coordinator, CloseWindow,
     Start, Stop, WorkerBegins, Drain, GoIdle, IdleWake, PickOldest,
     PickFails, CollectNothing, KeepOpen, WaitWake, DispatchNow, WaitTimeout,
     SkipEmptyBatch, WorkerCancelled, vars

(* No step makes a second place for a request, or holds one settled.       *)
LEMMA OnceStep == TypeInv /\ Handover /\ OnceInv /\ [Next]_vars => OnceInv'
<1> SUFFICES ASSUME TypeInv, Handover, OnceInv, [Next]_vars
             PROVE  HeldOpen'
  BY HeldSteps DEF OnceInv
<1>0. Held \subseteq Requests
  BY HeldRequests DEF TypeInv
<1>1. Held' \subseteq Held \/ \E r \in Requests : Accept(r) /\ r \notin Held
                                              /\ Held' = Held \cup {r}
  BY HeldSteps
<1> USE DEF OnceInv, HeldOpen, TypeInv, TypeOK, callers, stamps, Live
<1>2. ASSUME NEW r \in Requests, Accept(r), Held' \subseteq Held \cup {r}
      PROVE  HeldOpen'
  BY <1>0, <1>2 DEF Accept
<1>3. ASSUME NEW r \in Requests, Refuse(r) \/ Reject(r) \/ Cancel(r),
             Held' \subseteq Held
      PROVE  HeldOpen'
  BY <1>0, <1>3 DEF Refuse, Reject, Cancel
<1>4. CASE BackendReturns \/ BackendFails
  <2>1. UNCHANGED <<ingress, pending, batch>> /\ inflight' = <<>>
    BY <1>4 DEF BackendReturns, BackendFails, queues
  <2>2. Held' = Waiting \cup Range(batch)
    BY <2>1 DEF Held, Waiting, Queued, Range
  <2>3. \A r \in Held' : r \notin LiveIn(inflight)
    BY <2>2 DEF LiveIn, HeldOnce
  <2>4. \A r \in Held' : r \in Held /\ outcome'[r] = outcome[r]
    BY <1>0, <1>4, <2>2, <2>3 DEF BackendReturns, BackendFails, Held
  <2> QED
    BY <2>4
<1>5. CASE StopSettles
  <2>1. /\ ingress' = <<>> /\ inflight' = <<>> /\ batch' = <<>>
        /\ \A k \in Keys : pending'[k] = <<>>
    BY <1>5 DEF StopSettles, Handover
  <2>2. Held' = {}
    BY <2>1 DEF Held, Waiting, Queued, Range
  <2> QED
    BY <2>2
<1>6. CASE UNCHANGED outcome /\ Held' \subseteq Held
  BY <1>6
<1>7. (\E r \in Requests : Caller(r)) \/ BackendReturns \/ BackendFails
      \/ StopSettles \/ UNCHANGED outcome
  BY DEF Next, Coordinator, CloseWindow, Start, Stop,
     WorkerBegins, Drain, GoIdle, IdleWake, PickOldest, PickFails, Sweep,
     CollectNothing, KeepOpen, WaitWake, DispatchNow, WaitTimeout, PopNext,
     SkipEmptyBatch, Dispatch, WorkerCancelled, vars
<1> QED
  <2>1. CASE Held' \subseteq Held
    <3>1. ASSUME NEW r \in Requests, Caller(r)
          PROVE  HeldOpen'
      BY <1>2, <1>3, <2>1, <3>1 DEF Caller
    <3> QED
      BY <1>4, <1>5, <1>6, <1>7, <2>1, <3>1
  <2>2. ASSUME NEW r \in Requests, Accept(r), Held' = Held \cup {r}
        PROVE  HeldOpen'
    BY <1>2, <2>2
  <2> QED
    BY <1>1, <2>1, <2>2

(* No handover copies a request, through waits, cancellations and stop():  *)
(* it is never sent to the backend twice (batcher.py, from infer to        *)
(* _dispatch).                                                             *)
THEOREM NeverTwice == Spec => []HeldOnce
BY OnceInit, OnceStep, TypeInvariant, HandoverInvariant, PTL
   DEF Spec, OnceInv

-----------------------------------------------------------------------------
(* Order of arrival                                                        *)

SortedBy(f, s) == \A i, j \in DOMAIN s : i < j => f[s[i]] <= f[s[j]]

(* A sorted sequence stays sorted when the latest is appended,             *)
LEMMA SortedAppend ==
    ASSUME NEW S, NEW s \in Seq(S), NEW x \in S, NEW f, SortedBy(f, s),
           \A y \in Range(s) : f[y] <= f[x]
    PROVE  SortedBy(f, Append(s, x))
<1> DEFINE t == Append(s, x)
<1>1. t \in Seq(S) /\ Len(t) = Len(s) + 1 /\ t[Len(s) + 1] = x
      /\ \A i \in 1..Len(s) : t[i] = s[i]
  BY AppendProperties
<1> HIDE DEF t
<1>2. DOMAIN t = 1..(Len(s) + 1) /\ DOMAIN s = 1..Len(s) /\ Len(s) \in Nat
  BY <1>1
<1>3. \A i \in 1..Len(s) : f[s[i]] <= f[x]
  BY <1>2 DEF Range
<1>4. SortedBy(f, t)
  BY <1>1, <1>2, <1>3 DEF SortedBy
<1> QED
  BY <1>4 DEF t

(* when its head is taken, which is the earliest,                          *)
LEMMA SortedTail ==
    ASSUME NEW S, NEW s \in Seq(S), s # <<>>, NEW f, SortedBy(f, s)
    PROVE  /\ SortedBy(f, Tail(s))
           /\ \A y \in Range(Tail(s)) : f[Head(s)] <= f[y]
<1> DEFINE t == Tail(s)
<1>1. Head(s) = s[1] /\ t \in Seq(S) /\ Len(t) = Len(s) - 1
      /\ \A i \in 1..Len(t) : t[i] = s[i + 1]
  BY HeadTailProperties
<1> HIDE DEF t
<1>2. DOMAIN t = 1..(Len(s) - 1) /\ DOMAIN s = 1..Len(s) /\ Len(s) \in Nat
      /\ Len(s) >= 1
  BY <1>1
<1>3. ASSUME NEW i \in DOMAIN t, NEW j \in DOMAIN t, i < j
      PROVE  f[t[i]] <= f[t[j]]
  <2>1. t[i] = s[i + 1] /\ t[j] = s[j + 1]
    BY <1>1, <1>2
  <2>2. i + 1 \in DOMAIN s /\ j + 1 \in DOMAIN s /\ i + 1 < j + 1
    BY <1>2, <1>3
  <2> QED
    BY <2>1, <2>2 DEF SortedBy
<1>4. ASSUME NEW i \in DOMAIN t
      PROVE  f[Head(s)] <= f[t[i]]
  <2>1. 1 \in DOMAIN s /\ i + 1 \in DOMAIN s /\ 1 < i + 1 /\ t[i] = s[i + 1]
    BY <1>1, <1>2
  <2> QED
    BY <1>1, <2>1 DEF SortedBy
<1> QED
  BY <1>3, <1>4 DEF t, Range, SortedBy

(* and when one entry is removed.                                          *)
LEMMA SortedRemove ==
    ASSUME NEW S, NEW s \in Seq(S), NEW i \in DOMAIN s, NEW f, SortedBy(f, s)
    PROVE  SortedBy(f, Remove(s, i))
<1> DEFINE t == Remove(s, i)
<1>1. /\ t \in Seq(S) /\ Len(t) = Len(s) - 1
      /\ \A j \in 1..(Len(s) - 1) : t[j] = IF j < i THEN s[j] ELSE s[j + 1]
  BY RemoveElements
<1> HIDE DEF t
<1>2. /\ DOMAIN t = 1..(Len(s) - 1) /\ DOMAIN s = 1..Len(s)
      /\ Len(s) \in Nat /\ i \in 1..Len(s)
  BY <1>1
<1> DEFINE At(a) == IF a < i THEN a ELSE a + 1
<1>3. ASSUME NEW a \in DOMAIN t, NEW b \in DOMAIN t, a < b
      PROVE  f[t[a]] <= f[t[b]]
  <2>1. t[a] = s[At(a)] /\ t[b] = s[At(b)]
    BY <1>1, <1>2
  <2>2. At(a) \in DOMAIN s /\ At(b) \in DOMAIN s /\ At(a) < At(b)
    BY <1>2, <1>3
  <2> QED
    BY <2>1, <2>2 DEF SortedBy
<1> QED
  BY <1>3 DEF t, SortedBy

(* The first of a sorted sequence is the earliest.                         *)
LEMMA SortedHead ==
    ASSUME NEW S, NEW s \in Seq(S), s # <<>>, NEW f \in [S -> Nat],
           SortedBy(f, s)
    PROVE  \A y \in Range(s) : f[Head(s)] <= f[y]
<1>1. Head(s) \in S /\ Range(s) = {Head(s)} \cup Range(Tail(s))
  BY RangeHeadTail
<1>2. f[Head(s)] \in Nat
  BY <1>1
<1> QED
  BY <1>1, <1>2, SortedTail

(* An appended element leaves the head of a sequence where it is.          *)
LEMMA AppendHead ==
    ASSUME NEW S, NEW s \in Seq(S), s # <<>>, NEW x \in S
    PROVE  Append(s, x) # <<>> /\ Head(Append(s, x)) = Head(s)
<1>1. Len(s) \in Nat /\ Len(s) >= 1 /\ Head(s) = s[1]
  BY HeadTailProperties, EmptySeq
<1>2. /\ Append(s, x) \in Seq(S) /\ Append(s, x) # <<>>
      /\ Append(s, x)[1] = s[1]
  BY <1>1, AppendProperties
<1> QED
  BY <1>1, <1>2, HeadTailProperties

(* Only the stamps of its own elements matter to a sequence.               *)
LEMMA SortedSame ==
    ASSUME NEW s, NEW f, NEW g, SortedBy(f, s),
           \A x \in Range(s) : g[x] = f[x]
    PROVE  SortedBy(g, s)
BY DEF SortedBy, Range

(* Containers are sorted, and what is further down the line is older.      *)
OrderInv ==
    /\ \A r \in Requests : enqueuedAt[r] <= clock
    /\ SortedBy(enqueuedAt, ingress)
    /\ \A k \in Keys : SortedBy(enqueuedAt, pending[k])
    /\ SortedBy(enqueuedAt, batch) /\ SortedBy(enqueuedAt, inflight)
    /\ \A r \in Queued \cup Range(batch) \cup Range(inflight) :
           \A q \in Range(ingress) : enqueuedAt[r] <= enqueuedAt[q]
    /\ \A r \in Range(batch) \cup Range(inflight) : \A q \in Queued :
           KeyOf[r] = KeyOf[q] => enqueuedAt[r] <= enqueuedAt[q]

(* Nothing is in order at first, for want of requests.                     *)
LEMMA OrderInit == Init => OrderInv
BY DEF Init, OrderInv, SortedBy, Queued, Range

(* A get() moves the oldest of the ingress queue behind its own key.       *)
LEMMA OrderTake ==
    ASSUME TypeOK, OrderInv, TakeFromIngress,
           UNCHANGED <<batch, inflight, enqueuedAt, clock>>
    PROVE  OrderInv'
<1> DEFINE h == Head(ingress)
           k == KeyOf[h]
<1>1. /\ h \in Requests /\ k \in Keys /\ ingress' = Tail(ingress)
      /\ EnqueuePending(h) /\ h \in Range(ingress)
      /\ Range(ingress') \subseteq Range(ingress)
  BY RangeHeadTail DEF TypeOK, TakeFromIngress
<1>2. /\ SortedBy(enqueuedAt, ingress')
      /\ \A y \in Range(ingress') : enqueuedAt[h] <= enqueuedAt[y]
  BY SortedTail DEF TypeOK, TakeFromIngress, OrderInv
<1> HIDE DEF h
<1>3. \A j \in Keys : /\ SortedBy(enqueuedAt, pending'[j])
                      /\ Range(pending'[j]) \subseteq Range(pending[j]) \cup {h}
  <2> TAKE j \in Keys
  <2>1. /\ SortedBy(enqueuedAt, pending[j]) /\ pending[j] \in Seq(Requests)
        /\ \A y \in Range(pending[j]) : enqueuedAt[y] <= enqueuedAt[h]
    BY <1>1 DEF OrderInv, Queued, TypeOK
  <2>2. CASE pending'[j] = pending[j]
    BY <2>1, <2>2
  <2>3. CASE pending'[j] = Append(pending[j], h)
    BY <1>1, <2>1, <2>3, SortedAppend, RangeAppend
  <2>4. pending'[j] = pending[j] \/ pending'[j] = Append(pending[j], h)
    BY <1>1 DEF EnqueuePending, TypeOK
  <2> QED
    BY <2>2, <2>3, <2>4
<1>4. Queued' \subseteq Queued \cup {h}
  BY <1>3 DEF Queued
<1> QED
  BY <1>1, <1>2, <1>3, <1>4 DEF OrderInv

(* Every step keeps the order of arrival within and between containers.    *)
LEMMA OrderStep ==
    /\ TypeInv /\ Handover /\ OnceInv /\ BatchInv /\ OrderInv /\ [Next]_vars
    => OrderInv'
<1> SUFFICES ASSUME TypeInv, Handover, OnceInv, BatchInv, OrderInv,
                    [Next]_vars
             PROVE  OrderInv'
  OBVIOUS
<1> USE DEF TypeInv, queues, batching, stamps, callers
<1>1. CASE UNCHANGED <<ingress, pending, batch, inflight, enqueuedAt, clock>>
  BY <1>1 DEF OrderInv, Queued
<1>2. CASE TakeFromIngress /\ UNCHANGED <<batch, inflight, enqueuedAt, clock>>
  BY <1>2, OrderTake
<1>3. ASSUME NEW r \in Requests, Accept(r)
      PROVE  OrderInv'
  <2>1. r \notin Held
    BY <1>3 DEF Accept, OnceInv, HeldOpen
  <2>2. /\ ingress' = Append(ingress, r) /\ ingress \in Seq(Requests)
        /\ UNCHANGED <<pending, batch, inflight>>
        /\ clock \in Nat /\ clock' \in Nat /\ clock <= clock'
        /\ enqueuedAt'[r] = clock'
        /\ \A q \in Requests : q # r => enqueuedAt'[q] = enqueuedAt[q]
        /\ \A q \in Requests : enqueuedAt[q] \in Nat
    BY <1>3 DEF Accept, TypeOK
  <2>3. Held \subseteq Requests
    BY HeldRequests
  <2>4. \A q \in Held : enqueuedAt'[q] = enqueuedAt[q]
                        /\ enqueuedAt[q] <= enqueuedAt'[r]
    <3> TAKE q \in Held
    <3>1. q \in Requests /\ q # r
      BY <2>1, <2>3
    <3> QED
      BY <2>2, <3>1 DEF OrderInv
  <2>5. \A q \in Requests : enqueuedAt'[q] <= clock'
    BY <2>2 DEF OrderInv
  <2>6. /\ SortedBy(enqueuedAt', batch) /\ SortedBy(enqueuedAt', inflight)
        /\ SortedBy(enqueuedAt', ingress)
    BY <2>4, SortedSame DEF OrderInv, Held, Waiting
  <2>7. \A k \in Keys : SortedBy(enqueuedAt', pending[k])
    BY <2>4, SortedSame DEF OrderInv, Held, Waiting, Queued
  <2>8. SortedBy(enqueuedAt', ingress')
    <3>1. \A q \in Range(ingress) : enqueuedAt'[q] <= enqueuedAt'[r]
      BY <2>4 DEF Held, Waiting
    <3> QED
      BY <2>2, <2>6, <3>1, SortedAppend
  <2>9. Queued' = Queued /\ Range(ingress') = Range(ingress) \cup {r}
    BY <2>2, RangeAppend DEF Queued
  <2>10. \A p \in Queued \cup Range(batch) \cup Range(inflight) :
             \A q \in Range(ingress') : enqueuedAt'[p] <= enqueuedAt'[q]
    <3> TAKE p \in Queued \cup Range(batch) \cup Range(inflight)
    <3> TAKE q \in Range(ingress')
    <3>1. p \in Held
      BY DEF Held, Waiting
    <3>2. CASE q = r
      BY <2>4, <3>1, <3>2
    <3>3. CASE q \in Range(ingress)
      <4>1. q \in Held
        BY <3>3 DEF Held, Waiting
      <4> QED
        BY <2>4, <3>1, <3>3, <4>1 DEF OrderInv
    <3> QED
      BY <2>9, <3>2, <3>3
  <2>11. \A p \in Range(batch) \cup Range(inflight) : \A q \in Queued :
             KeyOf[p] = KeyOf[q] => enqueuedAt'[p] <= enqueuedAt'[q]
    <3>1. Range(batch) \cup Range(inflight) \cup Queued \subseteq Held
      BY DEF Held, Waiting
    <3> QED
      BY <2>4, <3>1 DEF OrderInv
  <2> QED
    BY <2>2, <2>5, <2>6, <2>7, <2>8, <2>9, <2>10, <2>11 DEF OrderInv
<1>4. CASE Sweep
  <2>1. PICK i \in DOMAIN pending[key] :
            pending' = [pending EXCEPT ![key] = Remove(@, i)]
    BY <1>4 DEF Sweep
  <2>2. key \in Keys /\ pending[key] \in Seq(Requests)
    BY <1>4 DEF Sweep, KeySelected, TypeOK
  <2>3. /\ SortedBy(enqueuedAt, Remove(pending[key], i))
        /\ Range(Remove(pending[key], i)) \subseteq Range(pending[key])
    BY <2>2, SortedRemove, RangeRemove DEF OrderInv
  <2>4. \A j \in Keys : SortedBy(enqueuedAt, pending'[j])
                        /\ Range(pending'[j]) \subseteq Range(pending[j])
    BY <2>1, <2>2, <2>3 DEF TypeOK, OrderInv
  <2>5. Queued' \subseteq Queued
    BY <2>4 DEF Queued
  <2>6. UNCHANGED <<ingress, batch, inflight, enqueuedAt, clock>>
    BY <1>4 DEF Sweep
  <2> QED
    BY <2>4, <2>5, <2>6 DEF OrderInv
<1>5. CASE PopNext
  <2> DEFINE h == Head(pending[key])
  <2>1. key \in Keys /\ pending[key] \in Seq(Requests) /\ pending[key] # <<>>
    BY <1>5 DEF PopNext, KeySelected, TypeOK
  <2>2. /\ pending'[key] = Tail(pending[key])
        /\ \A j \in Keys \ {key} : pending'[j] = pending[j]
        /\ batch' = JoinBatch(h)
        /\ UNCHANGED <<ingress, inflight, enqueuedAt, clock>>
    BY <1>5, <2>1 DEF PopNext, TypeOK
  <2>3. /\ h \in Requests /\ h \in Range(pending[key])
        /\ Range(pending'[key]) \subseteq Range(pending[key])
        /\ SortedBy(enqueuedAt, pending'[key])
        /\ \A q \in Range(pending'[key]) : enqueuedAt[h] <= enqueuedAt[q]
    BY <2>1, <2>2, RangeHeadTail, SortedTail DEF OrderInv
  <2> HIDE DEF h
  <2>4. h \in Queued /\ KeyOf[h] = key /\ Queued' \subseteq Queued
    BY <2>1, <2>2, <2>3 DEF Queued, BatchInv, DequesOfOneKey
  <2>5. \A q \in Queued' : KeyOf[q] = key => q \in Range(pending'[key])
    <3> SUFFICES ASSUME NEW j \in Keys, NEW q \in Range(pending'[j]),
                        KeyOf[q] = key
                 PROVE  j = key
      BY DEF Queued
    <3>1. q \in Range(pending[j])
      BY <2>2, <2>3
    <3> QED
      BY <3>1 DEF BatchInv, DequesOfOneKey
  <2>6. /\ batch \in Seq(Requests)
        /\ \A r \in Range(batch) : enqueuedAt[r] <= enqueuedAt[h]
    BY <1>5, <2>4 DEF PopNext, BatchInv, OrderInv, TypeOK
  <2>7. /\ SortedBy(enqueuedAt, batch')
        /\ Range(batch') \subseteq Range(batch) \cup {h}
    BY <2>2, <2>3, <2>6, SortedAppend, RangeAppend DEF JoinBatch, OrderInv
  <2>8. \A k \in Keys : SortedBy(enqueuedAt, pending'[k])
    BY <2>2, <2>3 DEF OrderInv
  <2>9. \A r \in Range(batch') \cup Range(inflight) : \A q \in Queued' :
            KeyOf[r] = KeyOf[q] => enqueuedAt[r] <= enqueuedAt[q]
    BY <2>3, <2>4, <2>5, <2>7 DEF OrderInv
  <2>10. \A r \in Queued' \cup Range(batch') \cup Range(inflight) :
             \A q \in Range(ingress) : enqueuedAt[r] <= enqueuedAt[q]
    BY <2>4, <2>7 DEF OrderInv
  <2> QED
    BY <2>2, <2>7, <2>8, <2>9, <2>10 DEF OrderInv
<1>6. CASE Dispatch
  <2>1. /\ inflight' = batch /\ batch' = <<>>
        /\ UNCHANGED <<ingress, pending, enqueuedAt, clock>>
    BY <1>6 DEF Dispatch
  <2>2. Range(batch') = {} /\ SortedBy(enqueuedAt, batch') /\ Queued' = Queued
    BY <2>1 DEF Range, SortedBy, Queued
  <2> QED
    BY <2>1, <2>2 DEF OrderInv
<1>7. CASE BackendReturns \/ BackendFails
  <2>1. inflight' = <<>>
        /\ UNCHANGED <<ingress, pending, batch, enqueuedAt, clock>>
    BY <1>7 DEF BackendReturns, BackendFails
  <2>2. Range(inflight') = {} /\ SortedBy(enqueuedAt, inflight')
        /\ Queued' = Queued
    BY <2>1 DEF Range, SortedBy, Queued
  <2> QED
    BY <2>1, <2>2 DEF OrderInv
<1>8. CASE StopSettles
  <2>1. /\ ingress' = <<>> /\ inflight' = <<>>
        /\ \A k \in Keys : pending'[k] = <<>>
        /\ UNCHANGED <<batch, enqueuedAt, clock>>
    BY <1>8 DEF StopSettles
  <2>2. /\ Range(ingress') = {} /\ Range(inflight') = {}
        /\ SortedBy(enqueuedAt, ingress') /\ SortedBy(enqueuedAt, inflight')
        /\ \A k \in Keys : Range(pending'[k]) = {}
                           /\ SortedBy(enqueuedAt, pending'[k])
    BY <2>1 DEF Range, SortedBy
  <2>3. Queued' = {}
    BY <2>2 DEF Queued
  <2> QED
    BY <2>1, <2>2, <2>3 DEF OrderInv
<1> QED
  BY <1>1, <1>2, <1>3, <1>4, <1>5, <1>6, <1>7, <1>8
     DEF Next, Caller, Refuse, Reject, Cancel, Coordinator, CloseWindow,
     Start, Stop, WorkerBegins, Drain, GoIdle, IdleWake, PickOldest,
     PickFails, CollectNothing, KeepOpen, WaitWake, DispatchNow, WaitTimeout,
     SkipEmptyBatch, WorkerCancelled, vars

(* One place for each request, in order of arrival.                        *)
LEMMA OrderInvariant == Spec => [](OnceInv /\ OrderInv)
BY OnceInit, OnceStep, OrderInit, OrderStep, TypeInvariant, HandoverInvariant,
   BatchInvariant, PTL DEF Spec

(* What a call may see of the others while it runs.                        *)
LEMMA DuringCall ==
    ASSUME [Next]_vars, worker = "backend", worker' = "backend"
    PROVE  UNCHANGED <<pending, inflight>>
<1>1. \A r \in Requests : Caller(r) => UNCHANGED <<pending, inflight>>
  BY DEF Caller, Refuse, Reject, Accept, Cancel, queues, batching
<1>2. Stop \/ UNCHANGED vars => UNCHANGED <<pending, inflight>>
  BY DEF Stop, vars, queues, batching
<1>3. ~Start /\ ~Coordinator /\ ~StopSettles
  BY DEF Start, StopSettles, Coordinator, CloseWindow,
     WorkerBegins, Drain, GoIdle, IdleWake, PickOldest, PickFails, Sweep,
     CollectNothing, KeepOpen, WaitWake, DispatchNow, WaitTimeout, PopNext,
     SkipEmptyBatch, Dispatch, BackendReturns, BackendFails, WorkerCancelled
<1> QED
  BY <1>1, <1>2, <1>3 DEF Next

(* A batch that is not full leaves with all of its deque.                  *)
LEMMA FullestStep ==
    TypeInv /\ BatchInv /\ FullestBatch /\ [Next]_vars => FullestBatch'
<1> SUFFICES ASSUME TypeInv, BatchInv, FullestBatch, [Next]_vars,
                    worker' = "backend"
             PROVE  pending'[KeyOf[Head(inflight')]] # <<>>
                        => Len(inflight') = MaxBatchSize
  BY DEF FullestBatch
<1>1. CASE worker = "backend"
  BY <1>1, DuringCall DEF FullestBatch
<1>2. CASE worker # "backend"
  <2>1. Dispatch
    BY <1>2, EntersCall
  <2>2. batch \in Seq(Requests) /\ batch # <<>> /\ worker = "pop"
    BY <2>1 DEF Dispatch, TypeInv, TypeOK
  <2>3. KeyOf[Head(batch)] = key
    BY <2>2, RangeHeadTail DEF BatchInv
  <2>4. Len(batch) <= MaxBatchSize /\ Len(batch) \in Nat
    BY <2>2 DEF BatchInv
  <2> QED
    BY <2>1, <2>3, <2>4 DEF Dispatch, Popped
<1> QED
  BY <1>1, <1>2

-----------------------------------------------------------------------------
(* Oldest key first                                                        *)

NoOlder(c) == \A r \in Waiting : enqueuedAt[c] <= enqueuedAt[r]

(* The request that comes first in the batch of the selected key.          *)
First ==
    IF batch # <<>> THEN Head(batch)
    ELSE IF pending[key] # <<>> THEN Head(pending[key]) ELSE None

(* The request for which the key was selected is as old as any that waits; *)
(* it remains the first of its batch unless it is cancelled.               *)
OldestInv ==
    /\ worker \in {"collect", "wait", "pop"} =>
           \E c \in Requests : /\ KeyOf[c] = key /\ NoOlder(c)
                               /\ outcome[c] = "cancelled" \/ c = First
    /\ worker = "backend" =>
           \E c \in Requests : /\ KeyOf[c] = KeyOf[Head(inflight)]
                               /\ NoOlder(c)
                               /\ \/ outcome[c] = "cancelled"
                                  \/ c = Head(inflight)

(* Whoever comes later is younger.                                         *)
LEMMA StillNoOlder ==
    ASSUME TypeInv, Handover, OnceInv, OrderInv, [Next]_vars,
           NEW c \in Requests, NoOlder(c), outcome[c] # "none"
    PROVE  NoOlder(c)'
<1>1. ASSUME NEW r \in Requests, Accept(r), Waiting' = Waiting \cup {r}
      PROVE  NoOlder(c)'
  <2>1. c # r /\ Waiting \subseteq Requests /\ r \notin Waiting
    BY <1>1, HeldRequests
       DEF Accept, Held, TypeInv, OnceInv, HeldOpen
  <2>2. /\ enqueuedAt'[r] = clock' /\ clock <= clock'
        /\ \A q \in Requests : q # r => enqueuedAt'[q] = enqueuedAt[q]
        /\ \A q \in Requests : enqueuedAt[q] \in Nat
        /\ clock \in Nat /\ clock' \in Nat
    BY <1>1 DEF Accept, TypeInv, TypeOK
  <2>3. enqueuedAt'[c] <= enqueuedAt'[r]
    BY <2>1, <2>2 DEF OrderInv
  <2>4. \A q \in Waiting : enqueuedAt'[c] <= enqueuedAt'[q]
    BY <2>1, <2>2 DEF NoOlder
  <2> QED
    BY <1>1, <2>3, <2>4 DEF NoOlder
<1>2. CASE Waiting' \subseteq Waiting /\ UNCHANGED enqueuedAt
  BY <1>2 DEF NoOlder
<1>3. ASSUME NEW r \in Requests, Accept(r), Waiting' \subseteq Waiting
      PROVE  FALSE
  <2>1. ingress' = Append(ingress, r) /\ ingress \in Seq(Requests)
    BY <1>3 DEF Accept, TypeInv, TypeOK
  <2>2. r \in Waiting'
    BY <2>1, RangeAppend DEF Waiting
  <2> QED
    BY <1>3, <2>2 DEF Accept, OnceInv, HeldOpen, Held
<1>4. UNCHANGED enqueuedAt \/ \E r \in Requests : Accept(r)
  BY DEF Next, Caller, Refuse, Reject, Cancel, Coordinator, CloseWindow, Start,
     Stop, WorkerBegins, Drain, GoIdle, IdleWake, PickOldest, PickFails,
     Sweep, CollectNothing, KeepOpen, WaitWake, DispatchNow, WaitTimeout,
     PopNext, SkipEmptyBatch, Dispatch, BackendReturns, BackendFails,
     StopSettles, WorkerCancelled, vars, callers, stamps
<1> QED
  BY <1>1, <1>2, <1>3, <1>4, HeldSteps

(* A get() that adds to a deque leaves its head where it is.               *)
LEMMA TakeKeepsHead ==
    ASSUME TypeOK, TakeFromIngress, NEW k \in Keys, pending[k] # <<>>
    PROVE  pending'[k] # <<>> /\ Head(pending'[k]) = Head(pending[k])
<1> DEFINE h == Head(ingress)
<1>1. h \in Requests /\ EnqueuePending(h)
  BY RangeHeadTail DEF TypeOK, TakeFromIngress
<1> HIDE DEF h
<1>2. pending'[k] = pending[k] \/ pending'[k] = Append(pending[k], h)
  BY <1>1 DEF EnqueuePending, TypeOK
<1>3. pending[k] \in Seq(Requests)
  BY DEF TypeOK
<1> QED
  BY <1>1, <1>2, <1>3, AppendHead

(* No key is selected at first.                                            *)
LEMMA OldestInit == Init => OldestInv
BY DEF Init, OldestInv

(* The steps between the choice of a key and the call of the backend.      *)
LEMMA WhileSelected ==
    ASSUME [Next]_vars, worker' \in {"collect", "wait", "pop"}
    PROVE  \/ PickOldest
           \/ /\ worker \in {"collect", "wait", "pop"}
              /\ key' = key
              /\ \/ UNCHANGED <<pending, batch>>
                 \/ TakeFromIngress /\ UNCHANGED batch
                 \/ Sweep
                 \/ PopNext
<1> USE DEF batching, queues
<1>1. ~Start /\ ~WorkerBegins /\ ~GoIdle /\ ~IdleWake /\ ~PickFails
      /\ ~CollectNothing /\ ~SkipEmptyBatch /\ ~Dispatch
      /\ ~BackendReturns /\ ~BackendFails /\ ~WorkerCancelled
      /\ ~Drain /\ ~StopSettles
  BY DEF Start, WorkerBegins, GoIdle, IdleWake, PickFails, CollectNothing,
     SkipEmptyBatch, Dispatch, BackendReturns, BackendFails, WorkerCancelled,
     Drain, StopSettles
<1>2. ASSUME NEW r \in Requests, Caller(r)
      PROVE  UNCHANGED <<worker, key, pending, batch>>
  BY <1>2 DEF Caller, Refuse, Reject, Accept, Cancel
<1>3. Stop \/ CloseWindow \/ UNCHANGED vars =>
          UNCHANGED <<key, pending, batch>>
  BY DEF Stop, CloseWindow, DispatchNow, WaitTimeout, vars
<1>4. /\ Stop \/ UNCHANGED vars => worker' = worker
      /\ CloseWindow => worker \in {"collect", "wait"}
  BY DEF Stop, CloseWindow, DispatchNow, WaitTimeout, vars
<1>5. KeepOpen \/ WaitWake =>
          /\ worker \in {"collect", "wait"} /\ UNCHANGED <<key, batch>>
          /\ TakeFromIngress \/ UNCHANGED <<pending, batch>>
  BY DEF KeepOpen, WaitWake
<1>6. /\ Sweep => worker = "collect" /\ key' = key
      /\ PopNext => worker = "pop" /\ key' = key
  BY DEF Sweep, PopNext
<1> QED
  BY <1>1, <1>2, <1>3, <1>4, <1>5, <1>6 DEF Next, Coordinator

(* The first request of the batch stays first, or is cancelled.            *)
LEMMA FirstStays ==
    ASSUME TypeInv, Handover, OnceInv, [Next]_vars,
           worker \in {"collect", "wait", "pop"}, key' = key,
           \/ UNCHANGED <<pending, batch>>
           \/ TakeFromIngress /\ UNCHANGED batch
           \/ Sweep
           \/ PopNext,
           NEW c \in Requests, c = First
    PROVE  Live(c) => c = First'
<1> SUFFICES ASSUME Live(c)
             PROVE  c = First'
  OBVIOUS
<1> DEFINE s == pending[key]
<1>1. /\ key \in Keys /\ s \in Seq(Requests) /\ batch \in Seq(Requests)
      /\ None \notin Requests /\ pending \in [Keys -> Seq(Requests)]
  BY DEF TypeInv, KeySelected, TypeOK
<1>2. \/ batch # <<>> /\ c = Head(batch)
      \/ batch = <<>> /\ s # <<>> /\ c = Head(s)
  BY <1>1 DEF First
<1>3. CASE UNCHANGED <<pending, batch>>
  BY <1>3 DEF First
<1>4. CASE TakeFromIngress /\ UNCHANGED batch
  <2>1. s # <<>> => pending'[key] # <<>> /\ Head(pending'[key]) = Head(s)
    BY <1>1, <1>4, TakeKeepsHead DEF TypeInv
  <2> QED
    BY <1>2, <1>4, <2>1 DEF First
<1>5. CASE Sweep
  <2>1. PICK i \in DOMAIN s : /\ ~Live(s[i])
                              /\ pending' = [pending EXCEPT ![key] = Remove(@, i)]
    BY <1>5 DEF Sweep
  <2>2. batch = <<>> /\ batch' = <<>>
    BY <1>5 DEF Sweep, Handover
  <2>3. c = s[1] /\ s # <<>>
    BY <1>1, <1>2, <2>2, HeadTailProperties
  <2>4. i # 1 /\ i \in 1..Len(s) /\ Len(s) \in Nat
    BY <1>1, <2>1, <2>3
  <2> DEFINE t == Remove(s, i)
  <2>5. t \in Seq(Requests) /\ Len(t) = Len(s) - 1 /\ t[1] = s[1]
    <3>1. s \in Seq(Requests) /\ i \in DOMAIN s
      BY <1>1, <2>1
    <3> HIDE DEF s
    <3>2. /\ t \in Seq(Requests) /\ Len(t) = Len(s) - 1
          /\ \A j \in 1..(Len(s) - 1) : t[j] = IF j < i THEN s[j] ELSE s[j + 1]
      BY <3>1, RemoveElements
    <3> HIDE DEF t
    <3>3. 1 \in 1..(Len(s) - 1) /\ 1 < i
      BY <2>4
    <3> QED
      BY <3>2, <3>3
  <2>6. pending'[key] = t
    BY <1>1, <2>1
  <2> HIDE DEF t, s
  <2>7. t # <<>> /\ Head(t) = t[1]
    BY <2>4, <2>5, HeadTailProperties
  <2> QED
    BY <2>2, <2>3, <2>5, <2>6, <2>7 DEF First
<1>6. CASE PopNext
  <2>1. batch' = JoinBatch(Head(s)) /\ s # <<>>
    BY <1>6 DEF PopNext
  <2>2. Head(s) \in Requests
    BY <1>1, <2>1, RangeHeadTail
  <2>3. CASE batch # <<>>
    <3>1. batch' = batch \/ batch' = Append(batch, Head(s))
      BY <2>1 DEF JoinBatch
    <3>2. /\ Append(batch, Head(s)) # <<>>
          /\ Head(Append(batch, Head(s))) = Head(batch)
      <4> HIDE DEF s
      <4> QED
        BY <1>1, <2>2, <2>3, AppendHead
    <3>3. batch' # <<>> /\ Head(batch') = Head(batch)
      BY <2>3, <3>1, <3>2
    <3> QED
      BY <1>2, <2>3, <3>3 DEF First
  <2>4. CASE batch = <<>>
    <3>1. batch' = Append(<<>>, c)
      BY <1>2, <2>1, <2>4 DEF JoinBatch
    <3>2. batch' = <<c>>
      BY <3>1
    <3>3. batch' # <<>> /\ Head(batch') = c
      BY <3>2
    <3> QED
      BY <3>3 DEF First
  <2> QED
    BY <2>3, <2>4
<1> QED
  BY <1>3, <1>4, <1>5, <1>6

(* What comes first is held, hence live or cancelled.                      *)
LEMMA FirstOpen ==
    ASSUME TypeInv, OnceInv, NEW c \in Requests,
           \/ worker \in {"collect", "wait", "pop"} /\ c = First
           \/ inflight # <<>> /\ c = Head(inflight)
    PROVE  outcome[c] \in {"pending", "cancelled"}
<1>1. /\ batch \in Seq(Requests) /\ inflight \in Seq(Requests)
      /\ None \notin Requests
      /\ worker \in {"collect", "wait", "pop"} => key \in Keys
      /\ \A k \in Keys : pending[k] \in Seq(Requests)
  BY DEF TypeInv, KeySelected, TypeOK
<1>2. c \in Held
  <2>1. CASE inflight # <<>> /\ c = Head(inflight)
    BY <1>1, <2>1, RangeHeadTail DEF Held
  <2>2. CASE worker \in {"collect", "wait", "pop"} /\ c = First
    <3>1. CASE batch # <<>>
      BY <1>1, <2>2, <3>1, RangeHeadTail DEF Held, First
    <3>2. CASE batch = <<>>
      <4>1. pending[key] # <<>> /\ c = Head(pending[key])
        BY <1>1, <2>2, <3>2 DEF First
      <4>2. c \in Range(pending[key])
        BY <1>1, <2>2, <4>1, RangeHeadTail
      <4> QED
        BY <1>1, <2>2, <4>2 DEF Held, Waiting, Queued
    <3> QED
      BY <3>1, <3>2
  <2> QED
    BY <2>1, <2>2
<1> QED
  BY <1>2 DEF OnceInv, HeldOpen

(* _oldest_key: nothing that waits is older than the head of its deque.    *)
LEMMA PickedNoOlder ==
    ASSUME TypeInv, Handover, OnceInv, OrderInv, QueuesWellFormed,
           PickOldest
    PROVE  \E c \in Requests : /\ KeyOf[c] = key' /\ NoOlder(c)'
                               /\ c = First'
<1>1. /\ key' \in keyed /\ key' \in Keys /\ ingress = <<>>
      /\ worker' = "collect" /\ worker \notin {"collect", "pop"}
      /\ UNCHANGED <<ingress, pending, batch, enqueuedAt>>
      /\ \A k \in keyed :
             enqueuedAt[Head(pending[key'])] <= enqueuedAt[Head(pending[k])]
  BY DEF PickOldest, OldestKeys, TypeInv, TypeOK, queues, callers
<1>2. \A k \in Keys : pending[k] \in Seq(Requests)
  BY DEF TypeInv, TypeOK
<1>3. \A k \in keyed : pending[k] # <<>>
  BY <1>1 DEF QueuesWellFormed
<1> DEFINE c == Head(pending[key'])
<1>4. c \in Requests
  BY <1>1, <1>2, <1>3, RangeHeadTail
<1>5. ASSUME NEW r \in Waiting
      PROVE  enqueuedAt[c] <= enqueuedAt[r]
  <2>1. PICK k \in Keys : r \in Range(pending[k])
    BY <1>1, <1>5 DEF Waiting, Queued, Range
  <2>2. k \in keyed /\ pending[k] # <<>>
    BY <1>3, <2>1 DEF QueuesWellFormed, Range
  <2>3. enqueuedAt[Head(pending[k])] <= enqueuedAt[r]
    BY <1>2, <2>1, <2>2, SortedHead DEF OrderInv, TypeInv, TypeOK
  <2>4. enqueuedAt[c] <= enqueuedAt[Head(pending[k])]
    BY <1>1, <2>2
  <2>5. Head(pending[k]) \in Requests /\ r \in Requests
    BY <1>2, <2>1, <2>2, RangeHeadTail DEF Range
  <2>6. /\ enqueuedAt[c] \in Nat /\ enqueuedAt[r] \in Nat
        /\ enqueuedAt[Head(pending[k])] \in Nat
    BY <1>4, <2>5 DEF TypeInv, TypeOK
  <2> HIDE DEF c
  <2> QED
    BY <2>3, <2>4, <2>6
<1>6. KeyOf[c] = key'
  <2>1. c \in Range(pending[key'])
    BY <1>1, <1>2, <1>3, RangeHeadTail
  <2> QED
    BY <1>1, <2>1 DEF OnceInv, HeldOnce
<1>7. Waiting' = Waiting
  BY <1>1 DEF Waiting, Queued
<1>8. \A d : NoOlder(d) => NoOlder(d)'
  BY <1>1, <1>7 DEF NoOlder
<1>9. NoOlder(c)
  BY <1>5 DEF NoOlder
<1>10. c = First'
  BY <1>1, <1>3 DEF First, Handover
<1> HIDE DEF c
<1> QED
  BY <1>4, <1>6, <1>8, <1>9, <1>10

(* Every step keeps the request for which the key was selected.            *)
LEMMA OldestStep ==
    /\ TypeInv /\ Handover /\ OnceInv /\ BatchInv /\ OrderInv
    /\ QueuesWellFormed /\ OldestInv /\ [Next]_vars
    => OldestInv'
<1> SUFFICES ASSUME TypeInv, Handover, OnceInv, BatchInv, OrderInv,
                    QueuesWellFormed, OldestInv, [Next]_vars
             PROVE  OldestInv'
  OBVIOUS
<1>1. ASSUME NEW c \in Requests, NoOlder(c),
             outcome[c] \in {"pending", "cancelled"}
      PROVE  /\ NoOlder(c)'
             /\ outcome[c] = "cancelled" => outcome'[c] = "cancelled"
  BY <1>1, StillNoOlder, FutureSteps DEF Settled
<1>2. ASSUME worker' \in {"collect", "wait", "pop"}
      PROVE  \E c \in Requests : /\ KeyOf[c] = key' /\ NoOlder(c)'
                                 /\ outcome'[c] = "cancelled" \/ c = First'
  <2>1. CASE PickOldest
    BY <2>1, PickedNoOlder
  <2>2. CASE ~PickOldest
    <3>1. /\ worker \in {"collect", "wait", "pop"} /\ key' = key
          /\ \/ UNCHANGED <<pending, batch>>
             \/ TakeFromIngress /\ UNCHANGED batch
             \/ Sweep
             \/ PopNext
      BY <1>2, <2>2, WhileSelected
    <3>2. PICK c \in Requests : /\ KeyOf[c] = key /\ NoOlder(c)
                                /\ outcome[c] = "cancelled" \/ c = First
      BY <3>1 DEF OldestInv
    <3>3. outcome[c] \in {"pending", "cancelled"}
      BY <3>1, <3>2, FirstOpen
    <3>4. outcome[c] = "cancelled" \/ c = First'
      BY <3>1, <3>2, <3>3, FirstStays DEF Live
    <3> QED
      BY <1>1, <3>1, <3>2, <3>3, <3>4
  <2> QED
    BY <2>1, <2>2
<1>3. ASSUME worker' = "backend"
      PROVE  \E c \in Requests :
                 /\ KeyOf[c] = KeyOf[Head(inflight')] /\ NoOlder(c)'
                 /\ outcome'[c] = "cancelled" \/ c = Head(inflight')
  <2>1. CASE worker = "backend"
    <3>1. inflight' = inflight
      BY <1>3, <2>1, DuringCall
    <3>2. PICK c \in Requests :
              /\ KeyOf[c] = KeyOf[Head(inflight)] /\ NoOlder(c)
              /\ outcome[c] = "cancelled" \/ c = Head(inflight)
      BY <2>1 DEF OldestInv
    <3>3. inflight # <<>>
      BY <2>1, EmptySeq DEF BatchInv, CompatibleCall
    <3>4. outcome[c] \in {"pending", "cancelled"}
      BY <3>2, <3>3, FirstOpen
    <3> QED
      BY <1>1, <3>1, <3>2, <3>4
  <2>2. CASE worker # "backend"
    <3>1. Dispatch
      BY <1>3, <2>2, EntersCall
    <3>2. worker = "pop" /\ batch # <<>> /\ inflight' = batch
      BY <3>1 DEF Dispatch
    <3>3. PICK c \in Requests : /\ KeyOf[c] = key /\ NoOlder(c)
                                /\ outcome[c] = "cancelled" \/ c = Head(batch)
      BY <3>2 DEF OldestInv, First
    <3>4. outcome[c] \in {"pending", "cancelled"}
      BY <3>2, <3>3, FirstOpen DEF First
    <3>5. KeyOf[Head(batch)] = key
      BY <3>2, RangeHeadTail DEF BatchInv, TypeInv, TypeOK
    <3> QED
      BY <1>1, <3>2, <3>3, <3>4, <3>5
  <2> QED
    BY <2>1, <2>2
<1> QED
  BY <1>2, <1>3 DEF OldestInv

(* The key that is served was the oldest when it was selected.             *)
LEMMA OldestInvariant == Spec => []OldestInv
BY OldestInit, OldestStep, OrderInvariant, TypeInvariant, HandoverInvariant,
   BatchInvariant, DictWellFormed, PTL DEF Spec

(* Whoever is in a backend call has its turn: no request of its key that   *)
(* arrived before it still waits, the batch is as full as its deque allows *)
(* and a request of another key is overtaken only behind a cancelled one   *)
(* (_oldest_key, _pop_batch).                                              *)
THEOREM ServedInTurn == Spec => []InTurn
<1>1. Init => FullestBatch
  BY DEF Init, FullestBatch
<1>2. TypeInv /\ OrderInv => FifoPerKey
  <2> SUFFICES ASSUME TypeInv, OrderInv, NEW i \in DOMAIN inflight
               PROVE  /\ \A j \in (i + 1)..Len(inflight) :
                            enqueuedAt[inflight[i]] <= enqueuedAt[inflight[j]]
                      /\ \A r \in Waiting :
                            KeyOf[r] = KeyOf[inflight[i]]
                                => enqueuedAt[inflight[i]] <= enqueuedAt[r]
    BY DEF FifoPerKey
  <2>1. /\ DOMAIN inflight = 1..Len(inflight) /\ Len(inflight) \in Nat
        /\ inflight[i] \in Range(inflight)
    BY DEF TypeInv, TypeOK, Range
  <2>2. \A j \in (i + 1)..Len(inflight) : j \in DOMAIN inflight /\ i < j
    BY <2>1
  <2> QED
    BY <2>1, <2>2 DEF OrderInv, SortedBy, Waiting
<1>3. TypeInv /\ BatchInv /\ OldestInv => OldestFirst
  <2> SUFFICES ASSUME TypeInv, BatchInv, OldestInv, worker = "backend",
                      NEW r \in Waiting,
                      enqueuedAt[r] < enqueuedAt[Head(inflight)]
               PROVE  \E c \in Requests :
                          /\ outcome[c] = "cancelled"
                          /\ KeyOf[c] = KeyOf[Head(inflight)]
                          /\ enqueuedAt[c] <= enqueuedAt[r]
    BY DEF OldestFirst
  <2>1. PICK c \in Requests : /\ KeyOf[c] = KeyOf[Head(inflight)]
                              /\ NoOlder(c)
                              /\ \/ outcome[c] = "cancelled"
                                 \/ c = Head(inflight)
    BY DEF OldestInv
  <2>2. r \in Requests
    BY HeldRequests DEF TypeInv, Held
  <2>3. enqueuedAt[r] \in Nat /\ enqueuedAt[c] \in Nat
    BY <2>2 DEF TypeInv, TypeOK
  <2>4. enqueuedAt[c] <= enqueuedAt[r]
    BY <2>1 DEF NoOlder
  <2>5. c # Head(inflight)
    BY <2>3, <2>4
  <2> QED
    BY <2>1, <2>4, <2>5
<1> QED
  BY <1>1, <1>2, <1>3, FullestStep, TypeInvariant, BatchInvariant,
     OrderInvariant, OldestInvariant, PTL DEF Spec, InTurn

-----------------------------------------------------------------------------
(* The end of the coordinator                                              *)

(* An idle coordinator has nothing queued.  Woken without finding a live   *)
(* request, it was woken by a cancelled one no younger than any that waits.*)
CrashInv ==
    /\ worker = "idle" => keyed = {}
    /\ worker = "crashed" => keyed = {}
    /\ worker \in {"redrain", "crashed"} /\ keyed = {} =>
           \E c \in Requests : outcome[c] = "cancelled" /\ NoOlder(c)

(* The coordinator is not there at first.                                  *)
LEMMA CrashInit == Init => CrashInv
BY DEF Init, CrashInv

(* The steps that leave or keep the coordinator without a key.             *)
LEMMA WithoutKey ==
    ASSUME [Next]_vars, worker' \in {"idle", "redrain", "crashed"}
    PROVE  \/ IdleWake \/ PickFails \/ GoIdle
           \/ worker = "redrain" /\ Drain
           \/ UNCHANGED <<worker, keyed>>
<1> USE DEF batching, queues
<1>1. ~Start /\ ~WorkerBegins /\ ~PickOldest /\ ~Sweep /\ ~CollectNothing
      /\ ~KeepOpen /\ ~WaitWake /\ ~CloseWindow /\ ~PopNext
      /\ ~SkipEmptyBatch /\ ~Dispatch
      /\ ~BackendReturns /\ ~BackendFails /\ ~WorkerCancelled /\ ~StopSettles
  BY DEF Start, WorkerBegins, PickOldest, Sweep, CollectNothing, KeepOpen,
     WaitWake, CloseWindow, DispatchNow, WaitTimeout, PopNext, SkipEmptyBatch,
     Dispatch, BackendReturns, BackendFails, WorkerCancelled, StopSettles
<1>2. \A r \in Requests : Caller(r) => UNCHANGED <<worker, keyed>>
  BY DEF Caller, Refuse, Reject, Accept, Cancel
<1>3. Stop \/ UNCHANGED vars => UNCHANGED <<worker, keyed>>
  BY DEF Stop, vars
<1>4. Drain => worker = "redrain"
  BY DEF Drain
<1> QED
  BY <1>1, <1>2, <1>3, <1>4 DEF Next, Coordinator

(* Nothing older than the request that woke the coordinator comes later.   *)
LEMMA CrashStep ==
    /\ TypeInv /\ Handover /\ OnceInv /\ OrderInv
    /\ QueuesWellFormed /\ CrashInv /\ [Next]_vars
    => CrashInv'
<1> SUFFICES ASSUME TypeInv, Handover, OnceInv, OrderInv,
                    QueuesWellFormed, CrashInv, [Next]_vars,
                    worker' \in {"idle", "redrain", "crashed"}
             PROVE  CrashInv'
  BY DEF CrashInv
<1>1. ASSUME worker \in {"redrain", "crashed"}, keyed = {}
      PROVE  \E c \in Requests : outcome'[c] = "cancelled" /\ NoOlder(c)'
  <2>1. PICK c \in Requests : outcome[c] = "cancelled" /\ NoOlder(c)
    BY <1>1 DEF CrashInv
  <2> QED
    BY <2>1, StillNoOlder, FutureSteps DEF Settled
<1>2. CASE UNCHANGED <<worker, keyed>>
  BY <1>1, <1>2 DEF CrashInv
<1>3. CASE GoIdle
  BY <1>3 DEF GoIdle, CrashInv, batching, queues
<1>4. CASE PickFails
  BY <1>1, <1>4 DEF PickFails, CrashInv, batching, queues
<1>5. CASE worker = "redrain" /\ Drain
  <2>1. worker' = "redrain" /\ keyed \subseteq keyed'
    BY <1>5, TakeTypes DEF Drain, TypeInv
  <2> QED
    BY <1>1, <1>5, <2>1 DEF CrashInv
<1>6. CASE IdleWake
  <2> DEFINE h == Head(ingress)
  <2>1. /\ keyed = {} /\ worker' = "redrain" /\ TakeFromIngress
        /\ ingress # <<>> /\ outcome' = outcome /\ ingress \in Seq(Requests)
    BY <1>6 DEF IdleWake, CrashInv, TakeFromIngress, callers, TypeInv, TypeOK
  <2>2. h \in Requests /\ h \in Range(ingress)
    BY <2>1, RangeHeadTail
  <2>3. Waiting = Range(ingress)
    BY <2>1 DEF Waiting, Queued, QueuesWellFormed, Range
  <2>4. NoOlder(h)
    BY <2>1, <2>3, SortedHead DEF NoOlder, OrderInv, TypeInv, TypeOK
  <2>5. outcome[h] \in {"pending", "cancelled"}
    BY <2>2 DEF OnceInv, HeldOpen, Held, Waiting
  <2>6. keyed' = {} => ~Live(h)
    BY <2>1 DEF TakeFromIngress, EnqueuePending
  <2>7. PICK c \in Requests : c = h
    BY <2>2
  <2>8. NoOlder(c)'
    BY <2>4, <2>5, <2>7, StillNoOlder
  <2> QED
    BY <2>1, <2>5, <2>6, <2>7, <2>8 DEF CrashInv, Live
<1> QED
  BY <1>2, <1>3, <1>4, <1>5, <1>6, WithoutKey

(* Whatever wakes an idle coordinator.                                     *)
LEMMA CrashInvariant == Spec => []CrashInv
BY CrashInit, CrashStep, TypeInvariant, HandoverInvariant, OrderInvariant,
   DictWellFormed, PTL DEF Spec

(* When min() of the empty dict ends the coordinator, nothing is queued by *)
(* key or in flight; only requests accepted no earlier than a cancelled    *)
(* one are stranded (_run, _oldest_key).                                   *)
THEOREM CrashIsLimited == Spec => []CrashStrandsOnlyLater
<1>1. Handover /\ QueuesWellFormed /\ CrashInv => CrashStrandsOnlyLater
  <2> SUFFICES ASSUME Handover, QueuesWellFormed, CrashInv, worker = "crashed"
               PROVE  /\ Held = Range(ingress)
                      /\ \E c \in Requests :
                             /\ outcome[c] = "cancelled"
                             /\ \A r \in Range(ingress) :
                                    enqueuedAt[c] <= enqueuedAt[r]
    BY DEF CrashStrandsOnlyLater
  <2>1. keyed = {} /\ batch = <<>> /\ inflight = <<>>
    BY DEF CrashInv, Handover
  <2>2. Queued = {}
    BY <2>1 DEF Queued, QueuesWellFormed, Range
  <2>3. Held = Range(ingress) /\ Waiting = Range(ingress)
    BY <2>1, <2>2 DEF Held, Waiting, Range
  <2> QED
    BY <2>1, <2>3 DEF CrashInv, NoOlder
<1> QED
  BY <1>1, HandoverInvariant, DictWellFormed, CrashInvariant, PTL

-----------------------------------------------------------------------------
(* Counting                                                                *)

(* A sequence has no more elements than entries, ...                       *)
LEMMA RangeCount ==
    ASSUME NEW S, NEW s \in Seq(S)
    PROVE  Cardinality(Range(s)) <= Len(s)
<1>1. s \in Surjection(1..Len(s), Range(s)) /\ Len(s) \in Nat
  BY DEF Range, Surjection
<1> QED
  BY <1>1, FS_SurjCardinalityBound DEF ExistsSurjection

(* ... and as many when none is repeated.                                  *)
LEMMA DistinctCount ==
    ASSUME NEW S, NEW s \in Seq(S), Distinct(s),
           NEW T, IsFiniteSet(T), Range(s) \subseteq T
    PROVE  Len(s) <= Cardinality(T)
<1>1. s \in Injection(1..Len(s), T) /\ Len(s) \in Nat
  <2>1. s \in [1..Len(s) -> Range(s)] /\ Len(s) \in Nat
    BY DEF Range
  <2>2. s \in [1..Len(s) -> T]
    BY <2>1
  <2>3. \A i, j \in 1..Len(s) : s[i] = s[j] => i = j
    BY <2>1 DEF Distinct
  <2> QED
    BY <2>1, <2>2, <2>3 DEF Injection, IsInjective
<1>2. Cardinality(1..Len(s)) <= Cardinality(T)
  BY <1>1, FS_Injection
<1>3. Cardinality(1..Len(s)) = Len(s)
  <2>1. 1 \in Int /\ Len(s) \in Int
    BY <1>1
  <2>2. Cardinality(1..Len(s)) = IF 1 > Len(s) THEN 0 ELSE Len(s) - 1 + 1
    BY <2>1, FS_Interval
  <2> QED
    BY <1>1, <2>2
<1> QED
  BY <1>2, <1>3

(* The contract counts in the same way.                                    *)
LEMMA SameCount == \A S : Contract!Cardinality(S) = Cardinality(S)
BY DEF Contract!Cardinality, Cardinality

-----------------------------------------------------------------------------
USE KeyOfAssumption, BatchSizeAssumption, QueueSizeAssumption, NoneAssumption

(* stop() begins only while the coordinator is suspended or gone, ...      *)
RunsOnlyOpen == worker \in Running => shutdown = "no"

(* ... and nothing but its cancellation reaches the coordinator then.      *)
LEMMA RunsOnlyOpenInvariant == Spec => []RunsOnlyOpen
<1>1. Init => RunsOnlyOpen
  BY DEF Init, RunsOnlyOpen
<1>2. RunsOnlyOpen /\ [Next]_vars => RunsOnlyOpen'
  BY DEF RunsOnlyOpen, Running, Suspended, Yielded, Next, Caller, Refuse,
     Reject, Accept, Cancel, Coordinator, CloseWindow, Start, Stop,
     WorkerBegins, Drain, GoIdle, IdleWake, PickOldest, PickFails, Sweep,
     CollectNothing, KeepOpen, WaitWake, DispatchNow, WaitTimeout, PopNext,
     SkipEmptyBatch, Dispatch, BackendReturns, BackendFails, WorkerCancelled,
     StopSettles, vars, callers
<1> QED
  BY <1>1, <1>2, PTL DEF Spec

(* What the simulation needs to know of a state of the batcher.            *)
ContractInv ==
    /\ TypeInv /\ Handover /\ NoRequestLost /\ BatchInv /\ OnceInv
    /\ CrashInv /\ RunsOnlyOpen

(* It holds, by the theorems about the batcher.                            *)
LEMMA ContractInvariant == Spec => []ContractInv
BY TypeInvariant, HandoverInvariant, NothingLost, BatchInvariant,
   OrderInvariant, CrashInvariant, RunsOnlyOpenInvariant, PTL
   DEF ContractInv

-----------------------------------------------------------------------------
(* The steps                                                               *)

Call == IF worker = "backend" THEN Range(inflight) ELSE {}

(* A step of the coordinator that only moves requests is not seen.         *)
LEMMA Unseen ==
    ASSUME worker \notin {"none", "backend"},
           worker' \notin {"none", "backend"},
           UNCHANGED <<outcome, shutdown>>
    PROVE  UNCHANGED Contract!vars
BY DEF Contract!vars, Phase

(* Callers: the same futures, and overload only behind a backlog.          *)
LEMMA CallerStep ==
    ASSUME IsFiniteSet(Requests), ContractInv, NEW r \in Requests, Caller(r)
    PROVE  Contract!Next
<1> USE DEF ContractInv, TypeInv, TypeOK, batching, callers
<1>1. UNCHANGED <<worker, inflight, shutdown>>
  BY DEF Caller, Refuse, Reject, Accept, Cancel
<1>2. Phase' = Phase /\ Call' = Call
  BY <1>1 DEF Phase, Call
<1>3. Phase = "open" <=> Accepting
  BY DEF Phase, Accepting
<1>4. CASE Refuse(r)
  <2>1. Contract!Refuse(r)
    BY <1>2, <1>3, <1>4 DEF Refuse, Contract!Refuse, Call
  <2> QED
    BY <2>1 DEF Contract!Next
<1>5. CASE Reject(r)
  <2>1. IsFiniteSet(Contract!Backlog)
    BY FS_Subset DEF Contract!Backlog
  <2>2. Range(ingress) \subseteq Contract!Backlog
    BY HeldRequests DEF OnceInv, HeldOpen, Held, Waiting, Contract!Backlog
  <2>3. Len(ingress) <= Cardinality(Contract!Backlog)
    BY <2>1, <2>2, DistinctCount DEF OnceInv, HeldOnce
  <2>4. Cardinality(Contract!Backlog) \in Nat
    BY <2>1, FS_CardinalityType
  <2>5. Cardinality(Contract!Backlog) >= QueueMaxSize
    BY <1>5, <2>3, <2>4 DEF Reject
  <2>6. Contract!Reject(r)
    BY <1>2, <1>3, <1>5, <2>5, SameCount DEF Reject, Contract!Reject, Call
  <2> QED
    BY <2>6 DEF Contract!Next
<1>6. CASE Accept(r)
  <2>1. Contract!Accept(r)
    BY <1>2, <1>3, <1>6 DEF Accept, Contract!Accept, Call
  <2> QED
    BY <2>1 DEF Contract!Next
<1>7. CASE Cancel(r)
  <2>1. Contract!Cancel(r)
    BY <1>2, <1>7 DEF Cancel, Live, Contract!Cancel, Contract!Unsettled, Call
  <2> QED
    BY <2>1 DEF Contract!Next
<1> QED
  BY <1>4, <1>5, <1>6, <1>7 DEF Caller

(* A batch is a call for live requests of one key that fit.                *)
LEMMA DispatchStep ==
    ASSUME ContractInv, Dispatch
    PROVE  Contract!Next
<1> USE DEF ContractInv, TypeInv, TypeOK
<1>1. /\ worker = "pop" /\ worker' = "backend" /\ inflight' = batch
      /\ UNCHANGED <<outcome, shutdown>> /\ shutdown = "no"
      /\ batch \in Seq(Requests) /\ batch # <<>>
  BY DEF Dispatch, RunsOnlyOpen, Running
<1>2. Range(batch) \in SUBSET Requests /\ Range(batch) # {}
  <2>1. Range(batch) = {Head(batch)} \cup Range(Tail(batch))
    BY <1>1, RangeHeadTail
  <2>2. Range(batch) \in SUBSET Requests
    BY <1>1 DEF Range
  <2> QED
    BY <2>1, <2>2
<1>3. Cardinality(Range(batch)) <= MaxBatchSize
  <2>1. Cardinality(Range(batch)) <= Len(batch) /\ Len(batch) \in Nat
    BY <1>1, RangeCount
  <2>2. Cardinality(Range(batch)) \in Nat
    <3>1. batch \in Surjection(1..Len(batch), Range(batch))
      BY <1>1 DEF Range, Surjection
    <3>2. IsFiniteSet(Range(batch))
      BY <2>1, <3>1, FS_NatSurjection DEF ExistsSurjection
    <3> QED
      BY <3>2, FS_CardinalityType
  <2> QED
    BY <2>1, <2>2 DEF BatchInv
<1>4. /\ \A r \in Range(batch) : Live(r)
      /\ \A r, q \in Range(batch) : KeyOf[r] = KeyOf[q]
  BY <1>1 DEF BatchInv
<1>5. Phase = "open" /\ Phase' = "open"
  BY <1>1 DEF Phase
<1>6. Contract!Dispatch(Range(batch))
  BY <1>1, <1>2, <1>3, <1>4, <1>5, SameCount
     DEF Contract!Dispatch, Contract!Unsettled, Live
<1> QED
  BY <1>2, <1>6 DEF Contract!Next

(* A call has requests.                                                    *)
LEMMA CallNotEmpty ==
    ASSUME ContractInv, worker = "backend"
    PROVE  Range(inflight) # {}
<1>1. inflight \in Seq(Requests) /\ inflight # <<>>
  BY EmptySeq DEF ContractInv, BatchInv, CompatibleCall, TypeInv, TypeOK
<1>2. Range(inflight) = {Head(inflight)} \cup Range(Tail(inflight))
  BY <1>1, RangeHeadTail
<1> QED
  BY <1>2

(* The answer settles the live requests of the call, the same way.         *)
LEMMA FinishStep ==
    ASSUME ContractInv, BackendReturns \/ BackendFails
    PROVE  Contract!Next
<1>1. /\ worker = "backend" /\ worker' = "drain"
      /\ shutdown = "no" /\ shutdown' = "no"
  BY DEF BackendReturns, BackendFails
<1>2. Phase = "open" /\ Phase' = "open"
  BY <1>1 DEF Phase
<1>3. Range(inflight) # {}
  BY <1>1, CallNotEmpty
<1>4. ASSUME NEW o,
             outcome' = [r \in Requests |->
                 IF r \in LiveIn(inflight) THEN o ELSE outcome[r]]
      PROVE  Contract!Finish(o)
  BY <1>1, <1>2, <1>3, <1>4
     DEF Contract!Finish, Contract!Become, LiveIn, Live
<1>5. \E o \in {"result", "error"} :
          outcome' = [r \in Requests |->
              IF r \in LiveIn(inflight) THEN o ELSE outcome[r]]
  BY DEF BackendReturns, BackendFails
<1> QED
  BY <1>4, <1>5 DEF Contract!Next

(* stop() closes the service; after a crash it breaks instead, which takes *)
(* a cancelled request.                                                    *)
LEMMA StopStep ==
    ASSUME ContractInv, Stop
    PROVE  Contract!Next
<1>1. UNCHANGED <<worker, inflight, outcome>> /\ shutdown = "no"
  BY DEF Stop, batching, callers
<1>2. Call' = Call
  BY <1>1 DEF Call
<1>3. CASE worker = "crashed"
  <2>1. shutdown' = "raised"
    BY <1>3 DEF Stop
  <2>2. Phase = "open" /\ Phase' = "broken" /\ Call = {}
    BY <1>1, <1>3, <2>1 DEF Phase, Call
  <2>3. \E r \in Requests : outcome[r] = "cancelled"
    BY <1>3 DEF ContractInv, CrashInv
  <2> QED
    BY <1>1, <1>2, <2>2, <2>3 DEF Contract!Break, Contract!Next, Call
<1>4. CASE worker # "crashed"
  <2>1. \/ worker = "none" /\ Phase = "unopened" /\ Phase' = "closed"
        \/ worker # "none" /\ Phase = "open" /\ Phase' = "closing"
    BY <1>1, <1>4 DEF Stop, Phase
  <2> QED
    BY <1>1, <1>2, <2>1 DEF Contract!Close, Contract!Next, Call
<1> QED
  BY <1>3, <1>4

(* The call that stop() interrupts is abandoned.                           *)
LEMMA CancelledStep ==
    ASSUME ContractInv, WorkerCancelled
    PROVE  [Contract!Next]_(Contract!vars)
<1>1. /\ shutdown = "joining" /\ worker \in Suspended /\ worker' = "cancelled"
      /\ UNCHANGED <<inflight, outcome, shutdown>>
  BY DEF WorkerCancelled, batching, callers
<1>2. Phase = "closing" /\ Phase' = "closing"
  BY <1>1 DEF Phase
<1>3. CASE worker = "backend"
  <2>1. Range(inflight) # {}
    BY <1>3, CallNotEmpty
  <2>2. Contract!Abandon
    BY <1>1, <1>2, <1>3, <2>1 DEF Contract!Abandon
  <2> QED
    BY <2>2 DEF Contract!Next
<1>4. CASE worker # "backend"
  BY <1>1, <1>4, Unseen DEF Suspended
<1> QED
  BY <1>3, <1>4

(* Nobody who still waits escapes stop().                                  *)
LEMMA SettleStep ==
    ASSUME ContractInv, StopSettles
    PROVE  Contract!Next
<1>1. /\ worker = "cancelled" /\ worker' = "cancelled"
      /\ shutdown = "joining" /\ shutdown' = "returned"
      /\ outcome' = [r \in Requests |->
             IF Live(r) /\ r \in LeftToStop THEN "stopped" ELSE outcome[r]]
  BY DEF StopSettles
<1>2. Phase = "closing" /\ Phase' = "closed"
  BY <1>1 DEF Phase
<1>3. batch = <<>>
  BY <1>1 DEF ContractInv, Handover
<1>4. \A r \in Requests : Live(r) => r \in LeftToStop
  BY <1>3 DEF ContractInv, NoRequestLost, Held, LeftToStop, Range
<1>5. Contract!Become(Requests, "stopped")
  BY <1>1, <1>4 DEF Contract!Become, Live
<1>6. Contract!Settle
  BY <1>1, <1>2, <1>5 DEF Contract!Settle
<1> QED
  BY <1>6 DEF Contract!Next

(* start() opens it.                                                       *)
LEMMA StartStep == Start => Contract!Next
<1> SUFFICES ASSUME Start
             PROVE  Contract!Open
  BY DEF Contract!Next
<1>1. /\ worker = "none" /\ worker' = "new" /\ shutdown = "no"
      /\ UNCHANGED <<outcome, shutdown>>
  BY DEF Start, callers
<1>2. Phase = "unopened" /\ Phase' = "open"
  BY <1>1 DEF Phase
<1> QED
  BY <1>1, <1>2 DEF Contract!Open

-----------------------------------------------------------------------------
(* The batcher promises its callers what ServingContract says: refusals,   *)
(* overload rejections and settlements happen only when, and in the groups *)
(* in which, the contract has them (DynamicBatcher).                       *)
THEOREM BatcherImplementsContract ==
    ASSUME IsFiniteSet(Requests)
    PROVE  Spec => ImplementsContract
<1>1. Init => Contract!Init
  BY DEF Init, Contract!Init, Phase
<1>2. ContractInv /\ ContractInv' /\ [Next]_vars
          => [Contract!Next]_(Contract!vars)
  <2> SUFFICES ASSUME ContractInv, ContractInv', [Next]_vars
               PROVE  [Contract!Next]_(Contract!vars)
    OBVIOUS
  <2>1. CASE UNCHANGED vars
    BY <2>1 DEF vars, Contract!vars, Phase
  <2>2. CASE \E r \in Requests : Caller(r)
    BY <2>2, CallerStep
  <2>3. CASE Start \/ Stop \/ StopSettles
    BY <2>3, StartStep, StopStep, SettleStep
  <2>4. CASE Dispatch
    BY <2>4, DispatchStep DEF ContractInv, BatchInv
  <2>5. CASE BackendReturns \/ BackendFails
    BY <2>5, FinishStep
  <2>6. CASE WorkerCancelled
    BY <2>6, CancelledStep
  <2>7. CASE \/ WorkerBegins \/ Drain \/ GoIdle \/ IdleWake
             \/ PickOldest \/ PickFails \/ Sweep \/ CollectNothing
             \/ KeepOpen \/ WaitWake \/ CloseWindow
             \/ PopNext \/ SkipEmptyBatch
    <3>1. /\ worker \notin {"none", "backend"}
          /\ worker' \notin {"none", "backend"}
          /\ UNCHANGED <<outcome, shutdown>>
      BY <2>7 DEF WorkerBegins, Drain, GoIdle, IdleWake, PickOldest, PickFails,
         Sweep, CollectNothing, KeepOpen, WaitWake, CloseWindow, DispatchNow,
         WaitTimeout, PopNext, SkipEmptyBatch, callers
    <3> QED
      BY <3>1, Unseen
  <2> QED
    BY <2>1, <2>2, <2>3, <2>4, <2>5, <2>6, <2>7 DEF Next, Coordinator
<1> QED
  BY <1>1, <1>2, ContractInvariant, PTL
     DEF Spec, ImplementsContract, Contract!Spec

-----------------------------------------------------------------------------
(* The counters                                                            *)

Ended(o) == {r \in Requests : outcome[r] = o}

(* Cancelled requests that have left the batcher.                          *)
Gone == {r \in Requests : outcome[r] = "cancelled" /\ r \notin Held}

(* The failed requests beyond the errors have been cancelled, and a failed *)
(* call is the last that the batcher sees of them.                         *)
MetricsInv ==
    /\ metrics["completed"] = Cardinality(Ended("result"))
    /\ metrics["rejected"] = Cardinality(Ended("rejected"))
    /\ metrics["failed"] >= Cardinality(Ended("error"))
    /\ metrics["failed"] <= Cardinality(Ended("error")) + Cardinality(Gone)

(* Sets of requests can be counted, ...                                    *)
LEMMA Countable ==
    ASSUME IsFiniteSet(Requests), NEW S \in SUBSET Requests
    PROVE  IsFiniteSet(S) /\ Cardinality(S) \in Nat
BY FS_Subset, FS_CardinalityType

(* ... and those without a common element added up.                        *)
LEMMA CountBoth ==
    ASSUME IsFiniteSet(Requests), NEW S \in SUBSET Requests,
           NEW T \in SUBSET Requests, S \cap T = {}
    PROVE  Cardinality(S \cup T) = Cardinality(S) + Cardinality(T)
<1>1. /\ IsFiniteSet(S) /\ IsFiniteSet(T)
      /\ Cardinality(S) \in Nat /\ Cardinality(T) \in Nat
  BY Countable
<1>2. Cardinality(S \cup T)
          = Cardinality(S) + Cardinality(T) - Cardinality(S \cap T)
  BY <1>1, FS_Union
<1>3. Cardinality(S \cap T) = 0
  BY FS_EmptySet
<1> QED
  BY <1>1, <1>2, <1>3

(* At first nothing is counted, ...                                        *)
LEMMA MetricsInit == Init => MetricsInv
<1> SUFFICES ASSUME Init
             PROVE  MetricsInv
  OBVIOUS
<1>1. Ended("result") = {} /\ Ended("rejected") = {} /\ Ended("error") = {}
      /\ Gone = {}
  BY DEF Init, Ended, Gone
<1>2. \A c \in Counters : metrics[c] = 0
  BY DEF Init
<1>3. Cardinality({}) = 0
  BY FS_EmptySet
<1> QED
  BY <1>1, <1>2, <1>3 DEF MetricsInv, Counters

(* Whoever has gone does not come back.                                    *)
LEMMA GoneStays ==
    ASSUME TypeInv, Handover, OnceInv, [Next]_vars
    PROVE  Gone \subseteq Gone'
<1> SUFFICES ASSUME NEW r \in Gone
             PROVE  r \in Gone'
  OBVIOUS
<1>1. r \in Requests /\ outcome[r] = "cancelled" /\ r \notin Held
  BY DEF Gone
<1>2. outcome'[r] = "cancelled"
  BY <1>1, FutureSteps DEF Settled
<1>3. \A q \in Requests : Accept(q) => q # r
  BY <1>1 DEF Accept
<1>4. r \notin Held'
  BY <1>1, <1>3, HeldSteps
<1> QED
  BY <1>1, <1>2, <1>4 DEF Gone

(* Counters move only with the futures that they count.                    *)
LEMMA OtherSteps ==
    ASSUME TypeInv, [Next]_vars, ~BackendReturns, ~BackendFails,
           \A r \in Requests : ~Reject(r)
    PROVE  /\ \A c \in {"completed", "rejected", "failed"} :
                  metrics'[c] = metrics[c]
           /\ \A o \in {"result", "rejected", "error"} : Ended(o)' = Ended(o)
<1> USE DEF TypeInv, TypeOK, Ended, callers, stamps
<1>1. ASSUME NEW r \in Requests, Refuse(r) \/ Accept(r) \/ Cancel(r)
      PROVE  /\ metrics' = metrics
             /\ \A o \in {"result", "rejected", "error"} : Ended(o)' = Ended(o)
  <2>1. metrics' = metrics
    BY <1>1 DEF Refuse, Accept, Cancel
  <2>2. \E o \in {"refused", "pending", "cancelled"} :
            /\ outcome' = [outcome EXCEPT ![r] = o]
            /\ outcome[r] \in {"none", "pending"}
    BY <1>1 DEF Refuse, Accept, Cancel, Live
  <2> QED
    BY <2>1, <2>2
<1>2. CASE StopSettles
  <2>1. /\ metrics' = metrics
        /\ \A r \in Requests : outcome'[r] =
               IF Live(r) /\ r \in LeftToStop THEN "stopped" ELSE outcome[r]
    BY <1>2 DEF StopSettles
  <2> QED
    BY <2>1 DEF Live
<1>3. CASE Dispatch
  <2>1. metrics' = Bump("batches", 1) /\ outcome' = outcome
    BY <1>3 DEF Dispatch
  <2> QED
    BY <2>1 DEF Bump, Counters
<1>4. CASE UNCHANGED <<outcome, metrics>>
  BY <1>4
<1> QED
  BY <1>1, <1>2, <1>3, <1>4 DEF Next, Caller, Coordinator, CloseWindow, Start,
     Stop, WorkerBegins, Drain, GoIdle, IdleWake, PickOldest, PickFails,
     Sweep, CollectNothing, KeepOpen, WaitWake, DispatchNow, WaitTimeout,
     PopNext, SkipEmptyBatch, WorkerCancelled, vars

(* ... and every step that settles futures counts them.                    *)
LEMMA MetricsStep ==
    ASSUME IsFiniteSet(Requests), TypeInv, TypeInv', Handover, OnceInv,
           MetricsInv, [Next]_vars
    PROVE  MetricsInv'
<1> DEFINE live == LiveIn(inflight)
           left == {r \in Range(inflight) : outcome[r] = "cancelled"}
<1>1. /\ Cardinality(Gone) \in Nat /\ Cardinality(Gone') \in Nat
      /\ Cardinality(Gone) <= Cardinality(Gone')
  <2>1. Gone \in SUBSET Requests /\ Gone' \in SUBSET Requests
        /\ Gone \in SUBSET Gone'
    BY GoneStays DEF Gone
  <2> QED
    BY <2>1, Countable, FS_Subset
<1>2. \A o : /\ Ended(o) \in SUBSET Requests
             /\ Cardinality(Ended(o)) \in Nat
  BY Countable DEF Ended
<1>3. inflight \in Seq(Requests) /\ live \in SUBSET Requests
      /\ left \in SUBSET Requests /\ Len(inflight) \in Nat
      /\ Cardinality(live) \in Nat /\ Cardinality(left) \in Nat
  <2>1. inflight \in Seq(Requests) /\ Len(inflight) \in Nat
    BY DEF TypeInv, TypeOK
  <2>2. live \in SUBSET Requests /\ left \in SUBSET Requests
    BY <2>1 DEF LiveIn, Range
  <2> QED
    BY <2>1, <2>2, Countable
<1>4. \A c \in Counters : metrics[c] \in Nat
  BY DEF TypeInv, TypeOK
<1>5. ASSUME NEW r \in Requests, Reject(r)
      PROVE  MetricsInv'
  <2>1. /\ outcome' = [outcome EXCEPT ![r] = "rejected"]
        /\ outcome[r] = "none" /\ metrics' = Bump("rejected", 1)
    BY <1>5 DEF Reject
  <2>2. /\ Ended("rejected")' = Ended("rejected") \cup {r}
        /\ Ended("rejected") \cap {r} = {}
        /\ Ended("result")' = Ended("result")
        /\ Ended("error")' = Ended("error")
    <3>1. DOMAIN outcome = Requests
      BY DEF TypeInv, TypeOK
    <3>2. outcome'[r] = "rejected"
          /\ \A q \in Requests : q # r => outcome'[q] = outcome[q]
      BY <2>1, <3>1
    <3> QED
      BY <2>1, <3>2 DEF Ended
  <2>3. Cardinality(Ended("rejected")') = Cardinality(Ended("rejected")) + 1
    <3>1. {r} \in SUBSET Requests /\ Cardinality({r}) = 1
      BY FS_Singleton
    <3> QED
      BY <1>2, <2>2, <3>1, CountBoth
  <2>4. /\ metrics'["rejected"] = metrics["rejected"] + 1
        /\ metrics'["completed"] = metrics["completed"]
        /\ metrics'["failed"] = metrics["failed"]
    BY <2>1 DEF Bump, Counters, TypeInv, TypeOK
  <2> QED
    BY <1>1, <1>2, <1>4, <2>2, <2>3, <2>4 DEF MetricsInv, Counters
<1>6. CASE BackendReturns
  <2>1. /\ \A r \in Requests : outcome'[r] =
               IF r \in live THEN "result" ELSE outcome[r]
        /\ metrics' = Bump("completed", Cardinality(live))
    BY <1>6 DEF BackendReturns
  <2>2. /\ Ended("result")' = Ended("result") \cup live
        /\ Ended("result") \cap live = {}
        /\ Ended("rejected")' = Ended("rejected")
        /\ Ended("error")' = Ended("error")
    BY <1>3, <2>1 DEF Ended, LiveIn, Live
  <2>3. Cardinality(Ended("result")')
            = Cardinality(Ended("result")) + Cardinality(live)
    BY <1>2, <1>3, <2>2, CountBoth
  <2> HIDE DEF live
  <2>4. /\ metrics'["completed"] = metrics["completed"] + Cardinality(live)
        /\ metrics'["rejected"] = metrics["rejected"]
        /\ metrics'["failed"] = metrics["failed"]
    BY <2>1 DEF Bump, Counters, TypeInv, TypeOK
  <2> QED
    BY <1>1, <1>2, <1>4, <2>2, <2>3, <2>4 DEF MetricsInv, Counters
<1>7. CASE BackendFails
  <2>1. /\ \A r \in Requests : outcome'[r] =
               IF r \in live THEN "error" ELSE outcome[r]
        /\ metrics' = Bump("failed", Len(inflight))
        /\ inflight' = <<>> /\ UNCHANGED <<queues, batch>>
    BY <1>7 DEF BackendFails
  <2>2. /\ Ended("error")' = Ended("error") \cup live
        /\ Ended("error") \cap live = {}
        /\ Ended("rejected")' = Ended("rejected")
        /\ Ended("result")' = Ended("result")
    BY <1>3, <2>1 DEF Ended, LiveIn, Live
  <2>3. Cardinality(Ended("error")')
            = Cardinality(Ended("error")) + Cardinality(live)
    BY <1>2, <1>3, <2>2, CountBoth
  <2>4. Len(inflight) = Cardinality(live) + Cardinality(left)
    <3>1. Range(inflight) = live \cup left /\ live \cap left = {}
      BY DEF LiveIn, Live, OnceInv, HeldOpen, Held
    <3>2. Range(inflight) \in SUBSET Requests
      BY <1>3, <3>1
    <3>3. IsFiniteSet(Range(inflight))
          /\ Cardinality(Range(inflight)) \in Nat
      BY <3>2, Countable
    <3>4. /\ Cardinality(Range(inflight)) <= Len(inflight)
          /\ Len(inflight) <= Cardinality(Range(inflight))
      BY <1>3, <3>3, RangeCount, DistinctCount DEF OnceInv, HeldOnce
    <3>5. Cardinality(live \cup left) = Cardinality(live) + Cardinality(left)
      BY <1>3, <3>1, CountBoth
    <3> HIDE DEF live, left
    <3> QED
      BY <1>3, <3>1, <3>3, <3>4, <3>5
  <2>5. Cardinality(Gone) + Cardinality(left) <= Cardinality(Gone')
    <3>1. Gone \cap left = {} /\ Gone \in SUBSET Requests
      BY DEF Gone, Held
    <3>2. Held' \cap Range(inflight) = {}
      <4>1. Held' = Waiting \cup Range(batch)
        BY <2>1 DEF Held, Waiting, Queued, Range, queues
      <4> QED
        BY <4>1 DEF OnceInv, HeldOnce
    <3>3. left \subseteq Gone'
      BY <1>3, <2>1, <3>2 DEF Gone, LiveIn, Live
    <3>4. Gone \cup left \in SUBSET Gone' /\ IsFiniteSet(Gone')
      BY <3>3, GoneStays, Countable DEF Gone
    <3>5. Cardinality(Gone \cup left) <= Cardinality(Gone')
      BY <3>4, FS_Subset
    <3>6. Cardinality(Gone \cup left) = Cardinality(Gone) + Cardinality(left)
      BY <1>3, <3>1, CountBoth
    <3> QED
      BY <3>5, <3>6
  <2> HIDE DEF live, left
  <2>6. /\ metrics'["failed"] = metrics["failed"] + Len(inflight)
        /\ metrics'["rejected"] = metrics["rejected"]
        /\ metrics'["completed"] = metrics["completed"]
    BY <2>1 DEF Bump, Counters, TypeInv, TypeOK
  <2>7. /\ metrics["failed"] \in Nat
        /\ metrics["failed"] >= Cardinality(Ended("error"))
        /\ metrics["failed"]
            <= Cardinality(Ended("error")) + Cardinality(Gone)
    BY <1>4 DEF MetricsInv, Counters
  <2>8. /\ metrics'["failed"] >= Cardinality(Ended("error")')
        /\ metrics'["failed"]
            <= Cardinality(Ended("error")') + Cardinality(Gone')
    <3>1. Cardinality(Ended("error")) \in Nat
      BY <1>2
    <3> QED
      BY <1>1, <1>3, <2>3, <2>4, <2>5, <2>6, <2>7, <3>1, SMTT(30)
  <2> QED
    BY <2>2, <2>6, <2>8 DEF MetricsInv
<1>8. CASE ~BackendReturns /\ ~BackendFails /\ \A r \in Requests : ~Reject(r)
  <2>1. /\ \A c \in {"completed", "rejected", "failed"} :
               metrics'[c] = metrics[c]
        /\ \A o \in {"result", "rejected", "error"} : Ended(o)' = Ended(o)
    BY <1>8, OtherSteps
  <2> QED
    BY <1>1, <1>2, <1>4, <2>1 DEF MetricsInv, Counters
<1> QED
  BY <1>5, <1>6, <1>7, <1>8

(* The counters agree with the futures, and failed exceeds its futures at  *)
(* most by requests cancelled during a call that failed (_dispatch,        *)
(* infer).                                                                 *)
THEOREM CountersAgree ==
    ASSUME IsFiniteSet(Requests)
    PROVE  Spec => []MetricsMatchOutcomes
<1>1. TypeInv /\ MetricsInv => MetricsMatchOutcomes
  <2> SUFFICES ASSUME TypeInv, MetricsInv
               PROVE  MetricsMatchOutcomes
    OBVIOUS
  <2>1. Gone \in SUBSET Ended("cancelled")
        /\ Gone \in SUBSET Requests /\ Ended("cancelled") \in SUBSET Requests
        /\ Ended("error") \in SUBSET Requests
    BY DEF Gone, Ended
  <2>2. Cardinality(Gone) <= Cardinality(Ended("cancelled"))
        /\ Cardinality(Gone) \in Nat /\ Cardinality(Ended("cancelled")) \in Nat
        /\ Cardinality(Ended("error")) \in Nat
    BY <2>1, Countable, FS_Subset
  <2>3. metrics["failed"] \in Nat
    BY DEF TypeInv, TypeOK, Counters
  <2>4. metrics["failed"]
            <= Cardinality(Ended("error")) + Cardinality(Ended("cancelled"))
    BY <2>2, <2>3 DEF MetricsInv
  <2> QED
    BY <2>4 DEF MetricsInv, MetricsMatchOutcomes, Ended
<1> QED
  BY <1>1, MetricsInit, MetricsStep, TypeInvariant, HandoverInvariant,
     OrderInvariant, PTL DEF Spec
=============================================================================
