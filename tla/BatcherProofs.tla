--------------------------- MODULE BatcherProofs ---------------------------
(***************************************************************************)
(* Theorems about Batcher, for all requests, keys and queue sizes.         *)
(***************************************************************************)
EXTENDS Batcher, SequenceTheorems, FiniteSetTheorems, TLAPS

-----------------------------------------------------------------------------
(* Sequences                                                               *)

(* An appended element joins the elements of a sequence.                   *)
LEMMA RangeAppend ==
    ASSUME NEW S, NEW s \in Seq(S), NEW x \in S
    PROVE  Range(Append(s, x)) = Range(s) \cup {x}
  <1> DEFINE t == Append(s, x)
  <1>1. t \in Seq(S) /\ Len(t) = Len(s) + 1 /\ t[Len(s) + 1] = x
        /\ \A i \in 1..Len(s) : t[i] = s[i]
    BY AppendProperties
  <1>2. Len(s) \in Nat /\ DOMAIN s = 1..Len(s) /\ DOMAIN t = 1..(Len(s) + 1)
    BY <1>1
  <1>3. \A i \in DOMAIN t : i \in DOMAIN s \/ i = Len(s) + 1
    BY <1>2
  <1>4. DOMAIN s \subseteq DOMAIN t /\ Len(s) + 1 \in DOMAIN t
    BY <1>2
  <1> HIDE DEF t
  <1>5. \A y \in Range(t) : y \in Range(s) \cup {x}
    BY <1>1, <1>2, <1>3 DEF Range
  <1>6. \A y \in Range(s) \cup {x} : y \in Range(t)
    BY <1>1, <1>2, <1>4 DEF Range
  <1> QED BY <1>5, <1>6 DEF t

(* Head and Tail split the elements of a sequence.                         *)
LEMMA RangeHeadTail ==
    ASSUME NEW S, NEW s \in Seq(S), s # <<>>
    PROVE  /\ Head(s) \in S
           /\ Tail(s) \in Seq(S)
           /\ Range(s) = {Head(s)} \cup Range(Tail(s))
  <1>1. Head(s) = s[1] /\ Tail(s) \in Seq(S) /\ Len(Tail(s)) = Len(s) - 1
        /\ \A i \in 1..Len(Tail(s)) : Tail(s)[i] = s[i + 1]
    BY HeadTailProperties
  <1>2. Len(s) \in Nat \ {0} /\ DOMAIN s = 1..Len(s)
        /\ DOMAIN Tail(s) = 1..Len(Tail(s)) /\ \A i \in DOMAIN s : s[i] \in S
    BY <1>1
  <1>3. \A i \in DOMAIN s :
            i # 1 => i - 1 \in DOMAIN Tail(s) /\ s[i] = Tail(s)[i - 1]
    BY <1>1, <1>2
  <1>4. \A i \in DOMAIN Tail(s) : i + 1 \in DOMAIN s /\ Tail(s)[i] = s[i + 1]
    BY <1>1, <1>2
  <1>5. 1 \in DOMAIN s
    BY <1>2
  <1>6. \A x \in Range(s) : x \in {Head(s)} \cup Range(Tail(s))
    BY <1>1, <1>3 DEF Range
  <1>7. \A x \in {Head(s)} \cup Range(Tail(s)) : x \in Range(s)
    BY <1>1, <1>4, <1>5 DEF Range
  <1> QED BY <1>1, <1>2, <1>5, <1>6, <1>7

(* The entries of a sequence from which one was removed.                   *)
LEMMA RemoveElements ==
    ASSUME NEW S, NEW s \in Seq(S), NEW i \in DOMAIN s
    PROVE  /\ Remove(s, i) \in Seq(S)
           /\ Len(Remove(s, i)) = Len(s) - 1
           /\ \A j \in 1..(Len(s) - 1) :
                  Remove(s, i)[j] = IF j < i THEN s[j] ELSE s[j + 1]
  <1> DEFINE left == SubSeq(s, 1, i - 1)
             right == SubSeq(s, i + 1, Len(s))
  <1>1. Len(s) \in Nat /\ DOMAIN s = 1..Len(s) /\ i \in 1..Len(s)
    OBVIOUS
  <1>2. left \in Seq(S) /\ Len(left) = i - 1
        /\ \A j \in 1..(i - 1) : left[j] = s[j]
    BY <1>1, SubSeqProperties
  <1>3. right \in Seq(S) /\ Len(right) = Len(s) - i
        /\ \A j \in 1..(Len(s) - i) : right[j] = s[i + j]
    BY <1>1, SubSeqProperties, SMTT(30)
  <1> HIDE DEF left, right
  <1>4. Remove(s, i) = left \o right
    BY DEF Remove, left, right
  <1>5. Remove(s, i) \in Seq(S) /\ Len(Remove(s, i)) = Len(s) - 1
    <2>1. left \o right \in Seq(S) /\ Len(left \o right) = Len(left) + Len(right)
      BY <1>2, <1>3, ConcatProperties
    <2> QED BY <1>1, <1>2, <1>3, <1>4, <2>1
  <1>6. \A j \in 1..(Len(s) - 1) :
            Remove(s, i)[j] = IF j < i THEN s[j] ELSE s[j + 1]
    <2>1. \A j \in 1..(Len(left) + Len(right)) : (left \o right)[j] =
              IF j <= Len(left) THEN left[j] ELSE right[j - Len(left)]
      BY <1>2, <1>3, ConcatProperties
    <2> TAKE j \in 1..(Len(s) - 1)
    <2>2. CASE j < i
      BY <1>1, <1>2, <1>3, <1>4, <2>1, <2>2
    <2>3. CASE j >= i
      <3>1. j - (i - 1) \in 1..(Len(s) - i) /\ i + (j - (i - 1)) = j + 1
        BY <1>1, <2>3
      <3>2. j \in 1..(Len(left) + Len(right)) /\ ~(j <= Len(left))
        BY <1>1, <1>2, <1>3, <2>3
      <3>3. Remove(s, i)[j] = right[j - Len(left)]
        BY <1>4, <2>1, <3>2
      <3>4. right[j - (i - 1)] = s[i + (j - (i - 1))]
        BY <1>3, <3>1
      <3> QED BY <1>1, <1>2, <2>3, <3>1, <3>3, <3>4
    <2> QED BY <1>1, <2>2, <2>3
  <1> QED BY <1>5, <1>6

(* Removing one entry keeps every element that is not at that entry.       *)
LEMMA RangeRemove ==
    ASSUME NEW S, NEW s \in Seq(S), NEW i \in DOMAIN s
    PROVE  /\ Remove(s, i) \in Seq(S)
           /\ Range(Remove(s, i)) \subseteq Range(s)
           /\ \A x \in Range(s) : x # s[i] => x \in Range(Remove(s, i))
  <1>1. Len(s) \in Nat /\ DOMAIN s = 1..Len(s) /\ i \in 1..Len(s)
    OBVIOUS
  <1>2. Remove(s, i) \in Seq(S) /\ Len(Remove(s, i)) = Len(s) - 1
    BY RemoveElements
  <1>3. \A j \in 1..(Len(s) - 1) :
            Remove(s, i)[j] = IF j < i THEN s[j] ELSE s[j + 1]
    BY RemoveElements
  <1>4. DOMAIN Remove(s, i) = 1..(Len(s) - 1)
    BY <1>2
  <1>5. Range(Remove(s, i)) \subseteq Range(s)
    BY <1>1, <1>3, <1>4 DEF Range
  <1>6. ASSUME NEW x \in Range(s), x # s[i] PROVE x \in Range(Remove(s, i))
    <2>1. PICK j \in DOMAIN s : s[j] = x
      BY DEF Range
    <2>2. CASE j < i
      BY <1>1, <1>3, <1>4, <2>1, <2>2 DEF Range
    <2>3. CASE j > i
      <3>1. j - 1 \in 1..(Len(s) - 1) /\ Remove(s, i)[j - 1] = s[j]
        BY <1>1, <1>3, <2>1, <2>3
      <3> QED BY <1>4, <2>1, <3>1 DEF Range
    <2> QED BY <1>1, <1>6, <2>1, <2>2, <2>3
  <1> QED BY <1>2, <1>5, <1>6

-----------------------------------------------------------------------------
(* Type correctness                                                        *)

USE KeyOfAssumption, BatchSizeAssumption, QueueSizeAssumption, NoneAssumption

(* What _enqueue_pending and a get() of the ingress queue do to the types. *)
LEMMA TakeTypes ==
    ASSUME TypeOK, TakeFromIngress
    PROVE  /\ Head(ingress) \in Requests
           /\ ingress' \in Seq(Requests)
           /\ keyed' \in SUBSET Keys
           /\ keyed \subseteq keyed'
           /\ pending' \in [Keys -> Seq(Requests)]
  <1>1. Head(ingress) \in Requests /\ Tail(ingress) \in Seq(Requests)
    BY RangeHeadTail DEF TypeOK, TakeFromIngress
  <1>2. KeyOf[Head(ingress)] \in Keys
    BY <1>1
  <1>3. Append(pending[KeyOf[Head(ingress)]], Head(ingress)) \in Seq(Requests)
    BY <1>1, <1>2, AppendProperties DEF TypeOK
  <1>4. EnqueuePending(Head(ingress)) /\ ingress' = Tail(ingress)
    BY DEF TakeFromIngress
  <1>5. keyed' \in SUBSET Keys /\ keyed \subseteq keyed'
    BY <1>2, <1>4 DEF TypeOK, EnqueuePending
  <1>6. pending' \in [Keys -> Seq(Requests)]
    <2>1. CASE Live(Head(ingress))
      BY <1>2, <1>3, <1>4, <2>1 DEF TypeOK, EnqueuePending
    <2>2. CASE ~Live(Head(ingress))
      BY <1>4, <2>2 DEF TypeOK, EnqueuePending
    <2> QED BY <2>1, <2>2
  <1> QED BY <1>1, <1>4, <1>5, <1>6

(* A counter moved by a natural number is one still.                       *)
LEMMA BumpTypes ==
    ASSUME TypeOK, NEW c \in Counters, NEW n \in Nat
    PROVE  Bump(c, n) \in [Counters -> Nat]
  BY DEF TypeOK, Bump

(* A sequence has finitely many elements, live or not.                     *)
LEMMA LiveInCount ==
    ASSUME NEW s \in Seq(Requests)
    PROVE  Cardinality(LiveIn(s)) \in Nat
  <1>1. s \in Surjection(1..Len(s), Range(s)) /\ Len(s) \in Nat
    BY DEF Range, Surjection
  <1>2. IsFiniteSet(Range(s))
    BY <1>1, FS_NatSurjection DEF ExistsSurjection
  <1>3. LiveIn(s) \in SUBSET Range(s)
    BY DEF LiveIn
  <1>4. IsFiniteSet(LiveIn(s))
    BY <1>2, <1>3, FS_Subset
  <1> QED BY <1>4, FS_CardinalityType

(* Between the choice of a key and the batch, the key stays in the dict.   *)
KeySelected == worker \in {"collect", "wait", "pop"} => key \in keyed

TypeInv == TypeOK /\ KeySelected

(* The typing of a popped request depends on it, so the two go together.   *)
LEMMA TypeInvariant == Spec => []TypeInv
  <1>1. Init => TypeInv
    BY DEF Init, TypeInv, KeySelected, TypeOK, WorkerStates, Running,
            Suspended, Outcomes
  <1>2. TypeInv /\ [Next]_vars => TypeInv'
    <2> SUFFICES ASSUME TypeInv, [Next]_vars PROVE TypeInv'
      OBVIOUS
    <2> USE DEF TypeInv, KeySelected, TypeOK, WorkerStates, Running,
            Suspended, Outcomes, Counters,
                batching, queues, callers, stamps
    <2>1. CASE Start
      BY <2>1 DEF Start
    <2>2. ASSUME NEW r \in Requests, Caller(r) PROVE TypeInv'
      <3>1. CASE Refuse(r)
        BY <3>1 DEF Refuse
      <3>2. CASE Reject(r)
        BY <3>2, BumpTypes DEF Reject
      <3>3. CASE Accept(r)
        BY <3>3 DEF Accept
      <3>4. CASE Cancel(r)
        BY <3>4 DEF Cancel
      <3> QED BY <2>2, <3>1, <3>2, <3>3, <3>4 DEF Caller
    <2>3. CASE Coordinator
      <3>1. CASE WorkerBegins
        BY <3>1 DEF WorkerBegins
      <3>2. CASE Drain
        BY <3>2, TakeTypes DEF Drain
      <3>3. CASE GoIdle
        BY <3>3 DEF GoIdle
      <3>4. CASE IdleWake
        BY <3>4, TakeTypes DEF IdleWake
      <3>5. CASE PickOldest
        BY <3>5 DEF PickOldest, OldestKeys
      <3>6. CASE PickFails
        BY <3>6 DEF PickFails
      <3>7. CASE Sweep
        <4>1. PICK i \in DOMAIN pending[key] :
                pending' = [pending EXCEPT ![key] = Remove(@, i)]
          BY <3>7 DEF Sweep
        <4>2. key \in Keys
          BY <3>7 DEF Sweep
        <4>3. Remove(pending[key], i) \in Seq(Requests)
          BY <4>1, <4>2, RangeRemove
        <4> QED BY <3>7, <4>1, <4>3 DEF Sweep
      <3>8. CASE CollectNothing
        BY <3>8 DEF CollectNothing
      <3>9. CASE KeepOpen
        BY <3>9, TakeTypes DEF KeepOpen
      <3>10. CASE WaitWake
        BY <3>10, TakeTypes DEF WaitWake
      <3>11. CASE CloseWindow
        BY <3>11 DEF CloseWindow, DispatchNow, WaitTimeout
      <3>12. CASE PopNext
        <4>1. key \in Keys /\ pending[key] \in Seq(Requests)
              /\ pending[key] # <<>>
          BY <3>12 DEF PopNext
        <4>2. Head(pending[key]) \in Requests
              /\ Tail(pending[key]) \in Seq(Requests)
          BY <4>1, RangeHeadTail
        <4>3. batch' \in Seq(Requests)
          BY <3>12, <4>2 DEF PopNext, JoinBatch
        <4> QED BY <3>12, <4>2, <4>3 DEF PopNext
      <3>13. CASE SkipEmptyBatch
        BY <3>13 DEF SkipEmptyBatch, ForgetEmptyKey
      <3>14. CASE Dispatch
        <4>1. metrics' \in [Counters -> Nat]
          BY <3>14, BumpTypes DEF Dispatch
        <4>2. keyed' \in SUBSET Keys
          BY <3>14 DEF Dispatch, ForgetEmptyKey
        <4> QED BY <3>14, <4>1, <4>2, SMTT(30) DEF Dispatch
      <3>15. CASE BackendReturns
        <4>1. metrics' \in [Counters -> Nat]
          BY <3>15, LiveInCount, BumpTypes DEF BackendReturns
        <4>2. answer' \in [Requests -> Requests \cup {None}]
          <5>1. ASSUME NEW r \in LiveIn(inflight)
                PROVE  Outputs(inflight)[Slot(inflight, r)] \in Requests
            BY <5>1 DEF LiveIn, Outputs, Slot, Range
          <5> QED BY <3>15, <5>1 DEF BackendReturns
        <4>3. outcome' \in [Requests -> Outcomes]
          BY <3>15 DEF BackendReturns
        <4> QED BY <3>15, <4>1, <4>2, <4>3 DEF BackendReturns
      <3>16. CASE BackendFails
        <4>1. metrics' \in [Counters -> Nat]
          <5>1. Len(inflight) \in Nat
            OBVIOUS
          <5> QED BY <3>16, <5>1, BumpTypes DEF BackendFails
        <4>2. outcome' \in [Requests -> Outcomes]
          BY <3>16 DEF BackendFails
        <4> QED BY <3>16, <4>1, <4>2 DEF BackendFails
      <3>17. CASE WorkerCancelled
        BY <3>17 DEF WorkerCancelled, Suspended
      <3> QED BY <2>3, <3>1, <3>2, <3>3, <3>4, <3>5, <3>6, <3>7, <3>8, <3>9,
                 <3>10, <3>11, <3>12, <3>13, <3>14, <3>15, <3>16, <3>17
              DEF Coordinator
    <2>4. CASE Stop
      BY <2>4 DEF Stop
    <2>5. CASE StopSettles
      BY <2>5 DEF StopSettles
    <2>6. CASE UNCHANGED vars
      BY <2>6 DEF vars
    <2> QED BY <2>1, <2>2, <2>3, <2>4, <2>5, <2>6 DEF Next
  <1> QED BY <1>1, <1>2, PTL DEF Spec

(* TypeOK is an invariant.                                                 *)
THEOREM TypeCorrect == Spec => []TypeOK
  BY TypeInvariant, PTL DEF TypeInv

-----------------------------------------------------------------------------
(* No request is lost                                                      *)

(* The list that _pop_batch builds exists only there, and _inflight is set *)
(* only during the backend call and by a stop() that interrupted it.       *)
Handover ==
    /\ worker # "pop" => batch = <<>>
    /\ worker \notin {"backend", "cancelled"} => inflight = <<>>

(* A request taken from the ingress queue still waits if it is live.       *)
LEMMA TakeKeepsLive ==
    ASSUME TypeOK, TakeFromIngress, NEW r \in Waiting, Live(r)
    PROVE  r \in Waiting'
  <1> DEFINE h == Head(ingress)
             k == KeyOf[h]
  <1>1. /\ h \in Requests /\ k \in Keys
        /\ ingress' = Tail(ingress)
        /\ Range(ingress) = {h} \cup Range(ingress')
    BY RangeHeadTail DEF TypeOK, TakeFromIngress
  <1>2. EnqueuePending(h)
    BY DEF TakeFromIngress
  <1> HIDE DEF h
  <1>3. CASE r \in Range(ingress')
    BY <1>3 DEF Waiting
  <1>4. CASE r = h
    <2>1. pending' = [pending EXCEPT ![k] = Append(@, h)]
      BY <1>2, <1>4 DEF EnqueuePending
    <2>2. pending'[k] = Append(pending[k], h) /\ pending[k] \in Seq(Requests)
      BY <1>1, <2>1 DEF TypeOK
    <2>3. r \in Range(pending'[k])
      BY <1>1, <1>4, <2>2, RangeAppend
    <2> QED BY <1>1, <2>3 DEF Waiting, Queued
  <1>5. CASE r \in Queued
    <2>1. PICK q \in Keys : r \in Range(pending[q])
      BY <1>5 DEF Queued
    <2>2. CASE pending' = pending
      BY <2>1, <2>2 DEF Waiting, Queued
    <2>3. CASE pending' = [pending EXCEPT ![k] = Append(@, h)]
      <3>1. CASE q = k
        <4>1. pending'[q] = Append(pending[q], h)
              /\ pending[q] \in Seq(Requests)
          BY <1>1, <2>3, <3>1 DEF TypeOK
        <4>2. r \in Range(pending'[q])
          BY <1>1, <2>1, <4>1, RangeAppend
        <4> QED BY <4>2 DEF Waiting, Queued
      <3>2. CASE q # k
        <4>1. pending'[q] = pending[q]
          BY <2>1, <2>3, <3>2 DEF TypeOK
        <4> QED BY <2>1, <4>1 DEF Waiting, Queued
      <3> QED BY <3>1, <3>2
    <2> QED BY <1>2, <2>2, <2>3 DEF EnqueuePending
  <1> QED BY <1>1, <1>3, <1>4, <1>5 DEF Waiting

(* Handover is inductive.                                                  *)
LEMMA HandoverInvariant == Spec => []Handover
  <1>1. Init => Handover
    BY DEF Init, Handover
  <1>2. Handover /\ [Next]_vars => Handover'
    <2> SUFFICES ASSUME Handover, [Next]_vars PROVE Handover'
      OBVIOUS
    <2> USE DEF Handover, batching, queues, callers, stamps
    <2>1. CASE Start
      BY <2>1 DEF Start
    <2>2. ASSUME NEW r \in Requests, Caller(r) PROVE Handover'
      BY <2>2 DEF Caller, Refuse, Reject, Accept, Cancel
    <2>3. CASE Coordinator
      <3>1. CASE WorkerBegins
        BY <3>1 DEF WorkerBegins
      <3>2. CASE Drain
        BY <3>2 DEF Drain
      <3>3. CASE GoIdle
        BY <3>3 DEF GoIdle
      <3>4. CASE IdleWake
        BY <3>4 DEF IdleWake
      <3>5. CASE PickOldest
        BY <3>5 DEF PickOldest, OldestKeys
      <3>6. CASE PickFails
        BY <3>6 DEF PickFails
      <3>7. CASE Sweep
        BY <3>7 DEF Sweep
      <3>8. CASE CollectNothing
        BY <3>8 DEF CollectNothing
      <3>9. CASE KeepOpen
        BY <3>9 DEF KeepOpen
      <3>10. CASE WaitWake
        BY <3>10 DEF WaitWake
      <3>11. CASE CloseWindow
        BY <3>11 DEF CloseWindow, DispatchNow, WaitTimeout
      <3>12. CASE PopNext
        BY <3>12 DEF PopNext
      <3>13. CASE SkipEmptyBatch
        BY <3>13 DEF SkipEmptyBatch, ForgetEmptyKey
      <3>14. CASE Dispatch
        BY <3>14 DEF Dispatch, ForgetEmptyKey
      <3>15. CASE BackendReturns
        BY <3>15 DEF BackendReturns
      <3>16. CASE BackendFails
        BY <3>16 DEF BackendFails
      <3>17. CASE WorkerCancelled
        BY <3>17 DEF WorkerCancelled, Suspended
      <3> QED BY <2>3, <3>1, <3>2, <3>3, <3>4, <3>5, <3>6, <3>7, <3>8, <3>9,
                 <3>10, <3>11, <3>12, <3>13, <3>14, <3>15, <3>16, <3>17
              DEF Coordinator
    <2>4. CASE Stop
      BY <2>4 DEF Stop
    <2>5. CASE StopSettles
      BY <2>5 DEF StopSettles
    <2>6. CASE UNCHANGED vars
      BY <2>6 DEF vars
    <2> QED BY <2>1, <2>2, <2>3, <2>4, <2>5, <2>6 DEF Next
  <1> QED BY <1>1, <1>2, PTL DEF Spec

(* Replacing one deque keeps what the new one has and what other deques    *)
(* have.                                                                   *)
LEMMA ChangedDeque ==
    ASSUME TypeOK, NEW k \in Keys, NEW s,
           pending' = [pending EXCEPT ![k] = s],
           NEW q \in Queued, q \in Range(pending[k]) => q \in Range(s)
    PROVE  q \in Queued'
  <1>1. PICK j \in Keys : q \in Range(pending[j])
    BY DEF Queued
  <1>2. pending'[j] = IF j = k THEN s ELSE pending[j]
    BY <1>1 DEF TypeOK
  <1>3. q \in Range(pending'[j])
    BY <1>1, <1>2
  <1> QED BY <1>1, <1>3 DEF Queued

(* Every unsettled future is held by a container of the batcher.           *)
THEOREM NothingLost == Spec => []NoRequestLost
  <1>1. Init => NoRequestLost
    BY DEF Init, NoRequestLost, Live
  <1>2. NoRequestLost /\ TypeInv /\ Handover /\ [Next]_vars => NoRequestLost'
    <2> SUFFICES ASSUME NoRequestLost, TypeInv, Handover, [Next]_vars
                 PROVE  NoRequestLost'
      OBVIOUS
    <2> USE DEF NoRequestLost, TypeInv, KeySelected, TypeOK, Held, Waiting,
            Queued, Live,
                batching, queues, callers, stamps
    <2>1. CASE Start
      BY <2>1 DEF Start
    <2>2. ASSUME NEW r \in Requests, Caller(r) PROVE NoRequestLost'
      <3>1. CASE Refuse(r)
        BY <3>1 DEF Refuse
      <3>2. CASE Reject(r)
        BY <3>2 DEF Reject
      <3>3. CASE Accept(r)
        <4>1. Range(ingress') = Range(ingress) \cup {r}
          BY <3>3, RangeAppend DEF Accept
        <4>2. \A q \in Requests : Live(q)' => Live(q) \/ q = r
          BY <3>3 DEF Accept
        <4> QED BY <3>3, <4>1, <4>2 DEF Accept
      <3>4. CASE Cancel(r)
        BY <3>4 DEF Cancel
      <3> QED BY <2>2, <3>1, <3>2, <3>3, <3>4 DEF Caller
    <2>3. CASE Coordinator
      <3>1. CASE WorkerBegins
        BY <3>1 DEF WorkerBegins
      <3>2. CASE Drain
        BY <3>2, TakeKeepsLive DEF Drain
      <3>3. CASE GoIdle
        BY <3>3 DEF GoIdle
      <3>4. CASE IdleWake
        BY <3>4, TakeKeepsLive DEF IdleWake
      <3>5. CASE PickOldest
        BY <3>5 DEF PickOldest, OldestKeys
      <3>6. CASE PickFails
        BY <3>6 DEF PickFails
      <3>7. CASE Sweep
        <4>1. PICK i \in DOMAIN pending[key] :
                /\ ~Live(pending[key][i])
                /\ pending' = [pending EXCEPT ![key] = Remove(@, i)]
          BY <3>7 DEF Sweep
        <4>2. key \in Keys /\ pending[key] \in Seq(Requests)
          BY <3>7 DEF Sweep
        <4>3. \A q \in Range(pending[key]) : Live(q) => q \in Range(pending'[key])
          BY <4>1, <4>2, RangeRemove
        <4>4. \A q \in Queued : Live(q) => q \in Queued'
          BY <4>1, <4>2, <4>3, ChangedDeque
        <4> QED BY <3>7, <4>4 DEF Sweep
      <3>8. CASE CollectNothing
        BY <3>8 DEF CollectNothing
      <3>9. CASE KeepOpen
        <4>1. CASE ingress = <<>>
          BY <3>9, <4>1 DEF KeepOpen
        <4>2. CASE ingress # <<>>
          BY <3>9, <4>2, TakeKeepsLive DEF KeepOpen
        <4> QED BY <4>1, <4>2
      <3>10. CASE WaitWake
        BY <3>10, TakeKeepsLive DEF WaitWake
      <3>11. CASE CloseWindow
        BY <3>11 DEF CloseWindow, DispatchNow, WaitTimeout
      <3>12. CASE PopNext
        <4> DEFINE h == Head(pending[key])
        <4>1. key \in Keys /\ pending[key] \in Seq(Requests)
              /\ pending[key] # <<>>
          BY <3>12 DEF PopNext
        <4>2. /\ h \in Requests
              /\ Range(pending[key]) = {h} \cup Range(Tail(pending[key]))
          BY <4>1, RangeHeadTail
        <4>3. pending' = [pending EXCEPT ![key] = Tail(@)]
          BY <3>12 DEF PopNext
        <4>4. \A q \in Queued : q = h \/ q \in Queued'
          BY <4>1, <4>2, <4>3, ChangedDeque
        <4>5. batch' = IF Live(h) THEN Append(batch, h) ELSE batch
          BY <3>12 DEF PopNext, JoinBatch
        <4>6. Range(batch) \subseteq Range(batch') /\ (Live(h) => h \in Range(batch'))
          BY <4>2, <4>5, RangeAppend
        <4>7. ingress' = ingress /\ inflight' = inflight /\ outcome' = outcome
          BY <3>12 DEF PopNext
        <4> QED BY <4>4, <4>6, <4>7
      <3>13. CASE SkipEmptyBatch
        BY <3>13 DEF SkipEmptyBatch, ForgetEmptyKey
      <3>14. CASE Dispatch
        <4>1. inflight = <<>> /\ inflight' = batch
          BY <3>14 DEF Dispatch, Handover
        <4>2. Range(inflight) = {}
          BY <4>1 DEF Range
        <4> QED BY <3>14, <4>1, <4>2 DEF Dispatch
      <3>15. CASE BackendReturns
        <4>1. \A q \in Requests : Live(q)' => Live(q) /\ q \notin Range(inflight)
          BY <3>15 DEF BackendReturns, LiveIn
        <4> QED BY <3>15, <4>1 DEF BackendReturns
      <3>16. CASE BackendFails
        <4>1. \A q \in Requests : Live(q)' => Live(q) /\ q \notin Range(inflight)
          BY <3>16 DEF BackendFails, LiveIn
        <4> QED BY <3>16, <4>1 DEF BackendFails
      <3>17. CASE WorkerCancelled
        BY <3>17 DEF WorkerCancelled
      <3> QED BY <2>3, <3>1, <3>2, <3>3, <3>4, <3>5, <3>6, <3>7, <3>8, <3>9,
                 <3>10, <3>11, <3>12, <3>13, <3>14, <3>15, <3>16, <3>17
              DEF Coordinator
    <2>4. CASE Stop
      BY <2>4 DEF Stop
    <2>5. CASE StopSettles
      <3>1. \A q \in Requests : Live(q)' => Live(q) /\ q \notin LeftToStop
        BY <2>5 DEF StopSettles
      <3>2. Range(batch) = {}
        BY <2>5 DEF StopSettles, Handover, Range
      <3> QED BY <3>1, <3>2 DEF LeftToStop
    <2>6. CASE UNCHANGED vars
      BY <2>6 DEF vars
    <2> QED BY <2>1, <2>2, <2>3, <2>4, <2>5, <2>6 DEF Next
  <1> QED BY <1>1, <1>2, TypeInvariant, HandoverInvariant, PTL DEF Spec

-----------------------------------------------------------------------------
(* Futures                                                                 *)

(* What a step does to one future: a settled one keeps its outcome and its *)
(* answer, and only an accepting batcher makes a new one.                  *)
LEMMA FutureSteps ==
    ASSUME TypeInv, [Next]_vars, NEW q \in Requests
    PROVE  /\ Settled(q) => outcome'[q] = outcome[q] /\ answer'[q] = answer[q]
           /\ Live(q)' => Live(q) \/ Accepting
  <1> DEFINE Goal == /\ Settled(q) => outcome'[q] = outcome[q]
                                      /\ answer'[q] = answer[q]
                     /\ Live(q)' => Live(q) \/ Accepting
  <1> SUFFICES Goal
    OBVIOUS
  <1> USE DEF TypeInv, TypeOK, Live, Settled, LiveIn, callers, stamps
  <1>1. CASE Start
    BY <1>1 DEF Start
  <1>2. ASSUME NEW r \in Requests, Caller(r) PROVE Goal
    <2>1. CASE Refuse(r)
      BY <2>1 DEF Refuse
    <2>2. CASE Reject(r)
      BY <2>2 DEF Reject
    <2>3. CASE Accept(r)
      BY <2>3 DEF Accept
    <2>4. CASE Cancel(r)
      BY <2>4 DEF Cancel
    <2> QED BY <1>2, <2>1, <2>2, <2>3, <2>4 DEF Caller
  <1>3. CASE Coordinator
    <2>1. CASE WorkerBegins
      BY <2>1 DEF WorkerBegins
    <2>2. CASE Drain
      BY <2>2 DEF Drain
    <2>3. CASE GoIdle
      BY <2>3 DEF GoIdle
    <2>4. CASE IdleWake
      BY <2>4 DEF IdleWake
    <2>5. CASE PickOldest
      BY <2>5 DEF PickOldest, OldestKeys
    <2>6. CASE PickFails
      BY <2>6 DEF PickFails
    <2>7. CASE Sweep
      BY <2>7 DEF Sweep
    <2>8. CASE CollectNothing
      BY <2>8 DEF CollectNothing
    <2>9. CASE KeepOpen
      BY <2>9 DEF KeepOpen
    <2>10. CASE WaitWake
      BY <2>10 DEF WaitWake
    <2>11. CASE CloseWindow
      BY <2>11 DEF CloseWindow, DispatchNow, WaitTimeout
    <2>12. CASE PopNext
      BY <2>12 DEF PopNext
    <2>13. CASE SkipEmptyBatch
      BY <2>13 DEF SkipEmptyBatch, ForgetEmptyKey
    <2>14. CASE Dispatch
      BY <2>14 DEF Dispatch, ForgetEmptyKey
    <2>15. CASE BackendReturns
      BY <2>15 DEF BackendReturns
    <2>16. CASE BackendFails
      BY <2>16 DEF BackendFails
    <2>17. CASE WorkerCancelled
      BY <2>17 DEF WorkerCancelled
    <2> QED BY <1>3, <2>1, <2>2, <2>3, <2>4, <2>5, <2>6, <2>7, <2>8, <2>9,
               <2>10, <2>11, <2>12, <2>13, <2>14, <2>15, <2>16, <2>17
            DEF Coordinator
  <1>4. CASE Stop
    BY <1>4 DEF Stop
  <1>5. CASE StopSettles
    BY <1>5 DEF StopSettles
  <1>6. CASE UNCHANGED vars
    BY <1>6 DEF vars
  <1> QED BY <1>1, <1>2, <1>3, <1>4, <1>5, <1>6 DEF Next

(* A settled future is never settled again.                                *)
THEOREM SettledForGood == Spec => SettledOnce
  <1>1. TypeInv /\ [Next]_vars =>
            [\A r \in Requests : Settled(r) =>
                outcome'[r] = outcome[r] /\ answer'[r] = answer[r]]_vars
    BY FutureSteps
  <1> QED BY <1>1, TypeInvariant, PTL DEF Spec, SettledOnce

(* Without a coordinator task nobody has been accepted, and after stop()   *)
(* nobody is left.                                                         *)
NobodyWaits ==
    worker = "none" \/ shutdown = "returned" => \A r \in Requests : ~Live(r)

(* When stop() returns, every future is settled.  The batcher's containers *)
(* hold all the others (NothingLost), and stop() goes through all of them  *)
(* but the list that _pop_batch builds, which is gone (Handover).          *)
THEOREM ReturnedStopSettles == Spec => []CleanStopSettlesAll
  <1>1. Init => NobodyWaits
    BY DEF Init, NobodyWaits, Live
  <1>2. /\ NobodyWaits /\ TypeInv /\ Handover /\ NoRequestLost
        /\ [Next]_vars
        => NobodyWaits'
    <2> SUFFICES ASSUME NobodyWaits, TypeInv, Handover, NoRequestLost,
                        [Next]_vars
                 PROVE  NobodyWaits'
      OBVIOUS
    <2> USE DEF NobodyWaits, TypeInv, TypeOK, Live, LiveIn, callers, stamps
    <2>1. CASE Start
      BY <2>1 DEF Start
    <2>2. ASSUME NEW r \in Requests, Caller(r) PROVE NobodyWaits'
      <3>1. CASE Refuse(r)
        BY <3>1 DEF Refuse
      <3>2. CASE Reject(r)
        BY <3>2 DEF Reject
      <3>3. CASE Accept(r)
        BY <3>3 DEF Accept, Accepting
      <3>4. CASE Cancel(r)
        BY <3>4 DEF Cancel
      <3> QED BY <2>2, <3>1, <3>2, <3>3, <3>4 DEF Caller
    <2>3. CASE Coordinator
      <3>1. CASE WorkerBegins
        BY <3>1 DEF WorkerBegins
      <3>2. CASE Drain
        BY <3>2 DEF Drain
      <3>3. CASE GoIdle
        BY <3>3 DEF GoIdle
      <3>4. CASE IdleWake
        BY <3>4 DEF IdleWake
      <3>5. CASE PickOldest
        BY <3>5 DEF PickOldest, OldestKeys
      <3>6. CASE PickFails
        BY <3>6 DEF PickFails
      <3>7. CASE Sweep
        BY <3>7 DEF Sweep
      <3>8. CASE CollectNothing
        BY <3>8 DEF CollectNothing
      <3>9. CASE KeepOpen
        BY <3>9 DEF KeepOpen
      <3>10. CASE WaitWake
        BY <3>10 DEF WaitWake
      <3>11. CASE CloseWindow
        BY <3>11 DEF CloseWindow, DispatchNow, WaitTimeout
      <3>12. CASE PopNext
        BY <3>12 DEF PopNext
      <3>13. CASE SkipEmptyBatch
        BY <3>13 DEF SkipEmptyBatch, ForgetEmptyKey
      <3>14. CASE Dispatch
        BY <3>14 DEF Dispatch, ForgetEmptyKey
      <3>15. CASE BackendReturns
        BY <3>15 DEF BackendReturns
      <3>16. CASE BackendFails
        BY <3>16 DEF BackendFails
      <3>17. CASE WorkerCancelled
        BY <3>17 DEF WorkerCancelled
      <3> QED BY <2>3, <3>1, <3>2, <3>3, <3>4, <3>5, <3>6, <3>7, <3>8, <3>9,
                 <3>10, <3>11, <3>12, <3>13, <3>14, <3>15, <3>16, <3>17
              DEF Coordinator
    <2>4. CASE Stop
      BY <2>4 DEF Stop
    <2>5. CASE StopSettles
      <3>1. \A q \in Requests : Live(q)' => Live(q) /\ q \notin LeftToStop
        BY <2>5 DEF StopSettles
      <3>2. Range(batch) = {}
        BY <2>5 DEF StopSettles, Handover, Range
      <3>3. \A q \in Requests : Live(q) => q \in LeftToStop \cup Range(batch)
        BY DEF NoRequestLost, Held, LeftToStop
      <3>4. worker' # "none"
        BY <2>5 DEF StopSettles
      <3> QED BY <3>1, <3>2, <3>3, <3>4
    <2>6. CASE UNCHANGED vars
      BY <2>6 DEF vars
    <2> QED BY <2>1, <2>2, <2>3, <2>4, <2>5, <2>6 DEF Next
  <1> QED BY <1>1, <1>2, TypeInvariant, HandoverInvariant, NothingLost, PTL
          DEF Spec, NobodyWaits, CleanStopSettlesAll

-----------------------------------------------------------------------------
(* Batches                                                                 *)

DequesOfOneKey == \A k \in Keys : \A r \in Range(pending[k]) : KeyOf[r] = k

(* Every deque holds requests of its own key; the batch being popped holds *)
(* live requests of the selected key, no more than fit.                    *)
BatchInv ==
    /\ DequesOfOneKey
    /\ worker = "pop" => \A r \in Range(batch) : KeyOf[r] = key /\ Live(r)
    /\ Len(batch) <= MaxBatchSize
    /\ CompatibleCall

(* A request taken from the ingress queue goes to the deque of its key.    *)
LEMMA TakeKeepsKeys ==
    ASSUME TypeOK, DequesOfOneKey, TakeFromIngress
    PROVE  DequesOfOneKey'
  <1> DEFINE h == Head(ingress)
  <1>1. h \in Requests /\ KeyOf[h] \in Keys
    BY RangeHeadTail DEF TypeOK, TakeFromIngress
  <1>2. EnqueuePending(h)
    BY DEF TakeFromIngress
  <1> HIDE DEF h
  <1>3. CASE pending' = pending
    BY <1>3 DEF DequesOfOneKey
  <1>4. CASE pending' = [pending EXCEPT ![KeyOf[h]] = Append(@, h)]
    <2> SUFFICES ASSUME NEW k \in Keys
                 PROVE  \A r \in Range(pending'[k]) : KeyOf[r] = k
      BY DEF DequesOfOneKey
    <2>1. CASE k = KeyOf[h]
      <3>1. Range(pending'[k]) = Range(pending[k]) \cup {h}
        BY <1>1, <1>4, <2>1, RangeAppend DEF TypeOK
      <3> QED BY <2>1, <3>1 DEF DequesOfOneKey
    <2>2. CASE k # KeyOf[h]
      BY <1>4, <2>2 DEF TypeOK, DequesOfOneKey
    <2> QED BY <2>1, <2>2
  <1> QED BY <1>2, <1>3, <1>4 DEF EnqueuePending

(* BatchInv is an invariant: requests enter a deque and a batch only by    *)
(* their own key, and only while they are live.                            *)
LEMMA BatchInvariant == Spec => []BatchInv
  <1>1. Init => BatchInv
    BY DEF Init, BatchInv, DequesOfOneKey, CompatibleCall, Range
  <1>2. BatchInv /\ TypeInv /\ Handover /\ [Next]_vars => BatchInv'
    <2> SUFFICES ASSUME BatchInv, TypeInv, Handover, [Next]_vars PROVE BatchInv'
      OBVIOUS
    <2> USE DEF BatchInv, DequesOfOneKey, CompatibleCall, TypeInv, KeySelected,
                TypeOK, Live, batching, queues, callers, stamps
    <2>1. CASE Start
      BY <2>1 DEF Start
    <2>2. ASSUME NEW r \in Requests, Caller(r) PROVE BatchInv'
      <3>1. CASE Refuse(r)
        BY <3>1 DEF Refuse, Yielded, Running
      <3>2. CASE Reject(r)
        BY <3>2 DEF Reject, Yielded, Running
      <3>3. CASE Accept(r)
        BY <3>3 DEF Accept, Yielded, Running
      <3>4. CASE Cancel(r)
        BY <3>4 DEF Cancel, Yielded, Running
      <3> QED BY <2>2, <3>1, <3>2, <3>3, <3>4 DEF Caller
    <2>3. CASE Coordinator
      <3>1. CASE WorkerBegins
        BY <3>1 DEF WorkerBegins
      <3>2. CASE Drain
        BY <3>2, TakeKeepsKeys DEF Drain
      <3>3. CASE GoIdle
        BY <3>3 DEF GoIdle
      <3>4. CASE IdleWake
        BY <3>4, TakeKeepsKeys DEF IdleWake
      <3>5. CASE PickOldest
        BY <3>5 DEF PickOldest, OldestKeys
      <3>6. CASE PickFails
        BY <3>6 DEF PickFails
      <3>7. CASE Sweep
        <4>1. PICK i \in DOMAIN pending[key] :
                pending' = [pending EXCEPT ![key] = Remove(@, i)]
          BY <3>7 DEF Sweep
        <4>2. key \in Keys /\ pending[key] \in Seq(Requests)
          BY <3>7 DEF Sweep
        <4>3. Range(pending'[key]) \subseteq Range(pending[key])
          BY <4>1, <4>2, RangeRemove
        <4>4. \A k \in Keys : Range(pending'[k]) \subseteq Range(pending[k])
          BY <4>1, <4>2, <4>3
        <4> QED BY <3>7, <4>4 DEF Sweep
      <3>8. CASE CollectNothing
        BY <3>8 DEF CollectNothing
      <3>9. CASE KeepOpen
        <4>1. CASE ingress = <<>>
          BY <3>9, <4>1 DEF KeepOpen
        <4>2. CASE ingress # <<>>
          BY <3>9, <4>2, TakeKeepsKeys DEF KeepOpen
        <4> QED BY <4>1, <4>2
      <3>10. CASE WaitWake
        BY <3>10, TakeKeepsKeys DEF WaitWake
      <3>11. CASE CloseWindow
        <4>1. batch = <<>> /\ Range(batch) = {}
          BY <3>11, SMTT(30)
             DEF CloseWindow, DispatchNow, WaitTimeout, Handover, Range
        <4> QED BY <3>11, <4>1 DEF CloseWindow, DispatchNow, WaitTimeout
      <3>12. CASE PopNext
        <4> DEFINE h == Head(pending[key])
        <4>1. key \in Keys /\ pending[key] \in Seq(Requests)
              /\ pending[key] # <<>>
          BY <3>12 DEF PopNext
        <4>2. /\ h \in Requests
              /\ Range(pending[key]) = {h} \cup Range(Tail(pending[key]))
          BY <4>1, RangeHeadTail
        <4>3. \A k \in Keys : Range(pending'[k]) \subseteq Range(pending[k])
          BY <3>12, <4>1, <4>2 DEF PopNext
        <4>4. batch' = IF Live(h) THEN Append(batch, h) ELSE batch
          BY <3>12 DEF PopNext, JoinBatch
        <4>5. \A r \in Range(batch') : r \in Range(batch) \/ (r = h /\ Live(h))
          BY <4>2, <4>4, RangeAppend, SMTT(30)
        <4>6. Len(batch') <= MaxBatchSize
          BY <3>12, <4>2, <4>4, AppendProperties DEF PopNext
        <4>7. /\ worker = "pop" /\ worker' = "pop" /\ key' = key
              /\ outcome' = outcome
          BY <3>12 DEF PopNext
        <4> QED BY <4>1, <4>2, <4>3, <4>5, <4>6, <4>7
      <3>13. CASE SkipEmptyBatch
        BY <3>13 DEF SkipEmptyBatch, ForgetEmptyKey
      <3>14. CASE Dispatch
        <4>1. Len(batch) \in 1..MaxBatchSize
          BY <3>14 DEF Dispatch
        <4>2. /\ worker = "pop" /\ worker' = "backend" /\ inflight' = batch
              /\ batch' = <<>> /\ pending' = pending
          BY <3>14 DEF Dispatch
        <4>3. Len(batch') <= MaxBatchSize
          BY <4>2
        <4> QED BY <4>1, <4>2, <4>3
      <3>15. CASE BackendReturns
        BY <3>15 DEF BackendReturns
      <3>16. CASE BackendFails
        BY <3>16 DEF BackendFails
      <3>17. CASE WorkerCancelled
        BY <3>17 DEF WorkerCancelled
      <3> QED BY <2>3, <3>1, <3>2, <3>3, <3>4, <3>5, <3>6, <3>7, <3>8, <3>9,
                 <3>10, <3>11, <3>12, <3>13, <3>14, <3>15, <3>16, <3>17
              DEF Coordinator
    <2>4. CASE Stop
      BY <2>4 DEF Stop
    <2>5. CASE StopSettles
      <3>1. \A k \in Keys : pending'[k] = <<>> /\ Range(pending'[k]) = {}
        BY <2>5 DEF StopSettles, Range
      <3> QED BY <2>5, <3>1 DEF StopSettles
    <2>6. CASE UNCHANGED vars
      BY <2>6 DEF vars
    <2> QED BY <2>1, <2>2, <2>3, <2>4, <2>5, <2>6 DEF Next
  <1> QED BY <1>1, <1>2, TypeInvariant, HandoverInvariant, PTL DEF Spec

(* Every backend call carries between one and MaxBatchSize requests of one *)
(* compatibility key.                                                      *)
THEOREM CallsAreCompatible == Spec => []CompatibleCall
  BY BatchInvariant, PTL DEF BatchInv

(* Only Dispatch enters the backend call.                                  *)
LEMMA EntersCall ==
    ASSUME [Next]_vars, worker # "backend", worker' = "backend"
    PROVE  Dispatch
  <1>1. ~Start /\ ~Stop /\ ~StopSettles /\ ~UNCHANGED vars
    BY DEF Start, Stop, StopSettles, vars
  <1>2. \A r \in Requests : ~Caller(r)
    BY DEF Caller, Refuse, Reject, Accept, Cancel
  <1>3. ~WorkerBegins /\ ~Drain /\ ~GoIdle /\ ~IdleWake /\ ~PickOldest
        /\ ~PickFails /\ ~Sweep /\ ~CollectNothing
    BY DEF WorkerBegins, Drain, GoIdle, IdleWake, PickOldest, PickFails, Sweep,
           CollectNothing
  <1>4. ~KeepOpen /\ ~WaitWake /\ ~CloseWindow /\ ~PopNext /\ ~SkipEmptyBatch
    BY DEF KeepOpen, WaitWake, CloseWindow, DispatchNow, WaitTimeout, PopNext,
           SkipEmptyBatch
  <1>5. ~BackendReturns /\ ~BackendFails /\ ~WorkerCancelled
    BY DEF BackendReturns, BackendFails, WorkerCancelled
  <1> QED BY <1>1, <1>2, <1>3, <1>4, <1>5 DEF Next, Coordinator

(* The backend is never called for a request that is already settled.      *)
THEOREM CallsAreForLiveRequests == Spec => NoDeadDispatch
  <1>1. BatchInv /\ [Next]_vars =>
            [worker # "backend" /\ worker' = "backend"
                => \A r \in Range(inflight') : outcome[r] = "pending"]_vars
    <2> SUFFICES ASSUME BatchInv, [Next]_vars,
                        worker # "backend", worker' = "backend"
                 PROVE  \A r \in Range(inflight') : outcome[r] = "pending"
      OBVIOUS
    <2>1. worker = "pop" /\ inflight' = batch
      BY EntersCall DEF Dispatch
    <2> QED BY <2>1 DEF BatchInv, Live
  <1> QED BY <1>1, BatchInvariant, PTL DEF Spec, NoDeadDispatch

(* A response carries the output of its own request, whoever else was      *)
(* cancelled during the call.                                              *)
THEOREM OwnOutputs == Spec => []OwnOutput
  <1>1. Init => OwnOutput
    BY DEF Init, OwnOutput
  <1>2. OwnOutput /\ TypeInv /\ [Next]_vars => OwnOutput'
    <2> SUFFICES ASSUME OwnOutput, TypeInv, [Next]_vars PROVE OwnOutput'
      OBVIOUS
    <2> USE DEF OwnOutput, TypeInv, TypeOK, callers, stamps
    <2>1. CASE Start
      BY <2>1 DEF Start
    <2>2. ASSUME NEW r \in Requests, Caller(r) PROVE OwnOutput'
      <3>1. CASE Refuse(r)
        BY <3>1 DEF Refuse
      <3>2. CASE Reject(r)
        BY <3>2 DEF Reject
      <3>3. CASE Accept(r)
        BY <3>3 DEF Accept
      <3>4. CASE Cancel(r)
        BY <3>4 DEF Cancel, Live
      <3> QED BY <2>2, <3>1, <3>2, <3>3, <3>4 DEF Caller
    <2>3. CASE Coordinator
      <3>1. CASE WorkerBegins
        BY <3>1 DEF WorkerBegins
      <3>2. CASE Drain
        BY <3>2 DEF Drain
      <3>3. CASE GoIdle
        BY <3>3 DEF GoIdle
      <3>4. CASE IdleWake
        BY <3>4 DEF IdleWake
      <3>5. CASE PickOldest
        BY <3>5 DEF PickOldest, OldestKeys
      <3>6. CASE PickFails
        BY <3>6 DEF PickFails
      <3>7. CASE Sweep
        BY <3>7 DEF Sweep
      <3>8. CASE CollectNothing
        BY <3>8 DEF CollectNothing
      <3>9. CASE KeepOpen
        BY <3>9 DEF KeepOpen
      <3>10. CASE WaitWake
        BY <3>10 DEF WaitWake
      <3>11. CASE CloseWindow
        BY <3>11 DEF CloseWindow, DispatchNow, WaitTimeout
      <3>12. CASE PopNext
        BY <3>12 DEF PopNext
      <3>13. CASE SkipEmptyBatch
        BY <3>13 DEF SkipEmptyBatch, ForgetEmptyKey
      <3>14. CASE Dispatch
        BY <3>14 DEF Dispatch, ForgetEmptyKey
      <3>15. CASE BackendReturns
        <4>1. \A r \in LiveIn(inflight) : Outputs(inflight)[Slot(inflight, r)] = r
          BY DEF LiveIn, Outputs, Slot, Range
        <4>2. \A r \in LiveIn(inflight) : r \in Requests
          BY DEF LiveIn, Range
        <4>3. \A r \in LiveIn(inflight) : outcome'[r] = "result"
          BY <3>15, <4>2 DEF BackendReturns
        <4> QED BY <3>15, <4>1, <4>3 DEF BackendReturns
      <3>16. CASE BackendFails
        BY <3>16 DEF BackendFails, LiveIn, Live
      <3>17. CASE WorkerCancelled
        BY <3>17 DEF WorkerCancelled
      <3> QED BY <2>3, <3>1, <3>2, <3>3, <3>4, <3>5, <3>6, <3>7, <3>8, <3>9,
                 <3>10, <3>11, <3>12, <3>13, <3>14, <3>15, <3>16, <3>17
              DEF Coordinator
    <2>4. CASE Stop
      BY <2>4 DEF Stop
    <2>5. CASE StopSettles
      BY <2>5 DEF StopSettles, Live
    <2>6. CASE UNCHANGED vars
      BY <2>6 DEF vars
    <2> QED BY <2>1, <2>2, <2>3, <2>4, <2>5, <2>6 DEF Next
  <1> QED BY <1>1, <1>2, TypeInvariant, PTL DEF Spec

-----------------------------------------------------------------------------
(* self._queues                                                            *)

NoEmptyDeque ==
    /\ \A k \in keyed : pending[k] # <<>>
    /\ \A k \in Keys \ keyed : pending[k] = <<>>

(* A get() of the ingress queue leaves no empty deque behind.              *)
LEMMA TakeLeavesNoEmptyDeque ==
    ASSUME TypeOK, TakeFromIngress, NoEmptyDeque
    PROVE  keyed \subseteq keyed' /\ NoEmptyDeque'
  <1> DEFINE h == Head(ingress)
  <1>1. h \in Requests /\ KeyOf[h] \in Keys
    BY RangeHeadTail DEF TypeOK, TakeFromIngress
  <1>2. EnqueuePending(h)
    BY DEF TakeFromIngress
  <1> HIDE DEF h
  <1>3. CASE ~Live(h)
    BY <1>2, <1>3 DEF EnqueuePending, NoEmptyDeque
  <1>4. CASE Live(h)
    <2>1. /\ keyed' = keyed \cup {KeyOf[h]}
          /\ pending' = [pending EXCEPT ![KeyOf[h]] = Append(@, h)]
      BY <1>2, <1>4 DEF EnqueuePending
    <2>2. /\ pending[KeyOf[h]] \in Seq(Requests)
          /\ pending'[KeyOf[h]] = Append(pending[KeyOf[h]], h)
      BY <1>1, <2>1 DEF TypeOK
    <2>3. pending'[KeyOf[h]] # <<>>
      BY <1>1, <2>2, AppendProperties
    <2>4. \A k \in Keys : k # KeyOf[h] => pending'[k] = pending[k]
      BY <2>1 DEF TypeOK
    <2> QED BY <2>1, <2>3, <2>4 DEF NoEmptyDeque, TypeOK
  <1> QED BY <1>3, <1>4

(* _pop_batch always finds its key in the dict, and _oldest_key a head in  *)
(* every deque.                                                            *)
THEOREM DictWellFormed == Spec => []QueuesWellFormed
  <1>1. Init => QueuesWellFormed
    BY DEF Init, QueuesWellFormed
  <1>2. QueuesWellFormed /\ TypeInv /\ [Next]_vars => QueuesWellFormed'
    <2> SUFFICES ASSUME QueuesWellFormed, TypeInv, [Next]_vars
                 PROVE  QueuesWellFormed'
      OBVIOUS
    <2> USE DEF QueuesWellFormed, TypeInv, KeySelected, TypeOK, batching, queues
    <2>1. CASE Start
      BY <2>1 DEF Start
    <2>2. ASSUME NEW r \in Requests, Caller(r) PROVE QueuesWellFormed'
      BY <2>2 DEF Caller, Refuse, Reject, Accept, Cancel, Yielded, Running
    <2>3. CASE Coordinator
      <3>1. CASE WorkerBegins
        BY <3>1 DEF WorkerBegins
      <3>2. CASE Drain
        BY <3>2, TakeLeavesNoEmptyDeque DEF Drain, NoEmptyDeque
      <3>3. CASE GoIdle
        BY <3>3 DEF GoIdle
      <3>4. CASE IdleWake
        BY <3>4, TakeLeavesNoEmptyDeque DEF IdleWake, NoEmptyDeque
      <3>5. CASE PickOldest
        BY <3>5 DEF PickOldest, OldestKeys
      <3>6. CASE PickFails
        BY <3>6 DEF PickFails
      <3>7. CASE Sweep
        BY <3>7 DEF Sweep
      <3>8. CASE CollectNothing
        BY <3>8 DEF CollectNothing
      <3>9. CASE KeepOpen
        <4>1. CASE ingress = <<>>
          BY <3>9, <4>1 DEF KeepOpen
        <4>2. CASE ingress # <<>>
          BY <3>9, <4>2, TakeLeavesNoEmptyDeque DEF KeepOpen, NoEmptyDeque
        <4> QED BY <4>1, <4>2
      <3>10. CASE WaitWake
        BY <3>10, TakeLeavesNoEmptyDeque DEF WaitWake, NoEmptyDeque
      <3>11. CASE CloseWindow
        BY <3>11 DEF CloseWindow, DispatchNow, WaitTimeout
      <3>12. CASE PopNext
        BY <3>12 DEF PopNext
      <3>13. CASE SkipEmptyBatch
        BY <3>13 DEF SkipEmptyBatch, ForgetEmptyKey
      <3>14. CASE Dispatch
        BY <3>14 DEF Dispatch, ForgetEmptyKey
      <3>15. CASE BackendReturns
        BY <3>15 DEF BackendReturns
      <3>16. CASE BackendFails
        BY <3>16 DEF BackendFails
      <3>17. CASE WorkerCancelled
        BY <3>17 DEF WorkerCancelled, Suspended
      <3> QED BY <2>3, <3>1, <3>2, <3>3, <3>4, <3>5, <3>6, <3>7, <3>8, <3>9,
                 <3>10, <3>11, <3>12, <3>13, <3>14, <3>15, <3>16, <3>17
              DEF Coordinator
    <2>4. CASE Stop
      BY <2>4 DEF Stop
    <2>5. CASE StopSettles
      BY <2>5 DEF StopSettles
    <2>6. CASE UNCHANGED vars
      BY <2>6 DEF vars
    <2> QED BY <2>1, <2>2, <2>3, <2>4, <2>5, <2>6 DEF Next
  <1> QED BY <1>1, <1>2, TypeInvariant, PTL DEF Spec
=============================================================================
