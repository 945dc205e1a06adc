------------------------- MODULE CollectWindowProofs -------------------------
(***************************************************************************)
(* Theorems about the policies and about the time that _collect_batch      *)
(* keeps a batch open, for every policy setting and every deadline.        *)
(***************************************************************************)
EXTENDS CollectWindow, FiniteSetTheorems, TLAPS

-----------------------------------------------------------------------------
(* The policies                                                            *)

(* What the batcher relies on when a policy tells it to wait: there is     *)
(* room, the wait is positive, it ends within the window of the oldest     *)
(* request and leaves time for the backend before the earliest deadline.   *)
Waits(s, d) ==
    /\ ~Full(s)
    /\ d.wait \in Nat \ {0}
    /\ s.oldest <= s.now => s.now + d.wait <= s.oldest + s.maxWait
    /\ s.deadline # NoDeadline => s.now + d.wait + s.backend <= s.deadline

(* A product of positive numbers is positive.                              *)
LEMMA PositiveProduct ==
    ASSUME NEW a \in Nat \ {0}, NEW b \in Nat \ {0}
    PROVE  a * b \in Nat \ {0}
  OBVIOUS

(* The window that is left ends max_wait_s after the oldest arrival.       *)
LEMMA WindowLeft ==
    ASSUME NEW s \in Snapshots
    PROVE  /\ RemainingWindow(s) \in Nat
           /\ s.oldest <= s.now /\ RemainingWindow(s) # 0
                => s.now + RemainingWindow(s) = s.oldest + s.maxWait
  BY DEF Snapshots, RemainingWindow, NonNegative

(* FixedWindowPolicy keeps the contract.                                   *)
LEMMA FixedContract ==
    ASSUME NEW s \in Snapshots, ~FixedDecide(s).dispatch
    PROVE  Waits(s, FixedDecide(s))
  <1>1. /\ ~Full(s) /\ RemainingWindow(s) # 0
        /\ ~(s.deadline # NoDeadline /\ Slack(s) <= RemainingWindow(s))
        /\ FixedDecide(s).wait = RemainingWindow(s)
    BY DEF FixedDecide, Now, Later
  <1>2. s.deadline # NoDeadline =>
            s.now + RemainingWindow(s) + s.backend <= s.deadline
    BY <1>1, WindowLeft DEF Slack, Snapshots
  <1>3. s.oldest <= s.now =>
            s.now + RemainingWindow(s) <= s.oldest + s.maxWait
    BY <1>1, WindowLeft DEF Snapshots
  <1>4. RemainingWindow(s) \in Nat \ {0}
    BY <1>1, WindowLeft
  <1> QED BY <1>1, <1>2, <1>3, <1>4 DEF Waits

(* AdaptiveWindowPolicy keeps the contract.                                *)
LEMMA AdaptiveContract ==
    ASSUME NEW s \in Snapshots, ~AdaptiveDecide(s).dispatch
    PROVE  Waits(s, AdaptiveDecide(s))
  <1> DEFINE patience == Least(RemainingWindow(s), FillEta(s))
             wait == IF s.deadline = NoDeadline THEN patience
                     ELSE Least(patience, Slack(s))
  <1>1. /\ ~Full(s) /\ RemainingWindow(s) # 0 /\ ~LowLoad(s)
        /\ ~(s.deadline # NoDeadline /\ Slack(s) <= 0)
        /\ AdaptiveDecide(s).wait = wait
    BY DEF AdaptiveDecide, Now, Later
  <1>2. FillEta(s) \in Nat \ {0}
    <2>1. s.gap \in Nat \ {0} /\ s.maxSize - s.size \in Nat \ {0}
      BY <1>1 DEF LowLoad, Full, Snapshots
    <2> QED BY <2>1, PositiveProduct DEF FillEta
  <1>3. patience \in Nat \ {0} /\ patience <= RemainingWindow(s)
    BY <1>1, <1>2, WindowLeft DEF Least
  <1>4. s.deadline # NoDeadline =>
            Slack(s) \in Nat \ {0} /\ s.now + Slack(s) + s.backend = s.deadline
    BY <1>1 DEF Slack, Snapshots
  <1>5. /\ wait \in Nat \ {0} /\ wait <= patience
        /\ s.deadline # NoDeadline => wait <= Slack(s)
    BY <1>3, <1>4 DEF Least
  <1>6. s.oldest <= s.now => s.now + wait <= s.oldest + s.maxWait
    BY <1>1, <1>3, <1>5, WindowLeft DEF Snapshots
  <1>7. s.deadline # NoDeadline => s.now + wait + s.backend <= s.deadline
    BY <1>4, <1>5 DEF Snapshots
  <1> QED BY <1>1, <1>5, <1>6, <1>7 DEF Waits

(* Whichever policy is configured dispatches a full batch, and waits only  *)
(* for a positive time within the window and the deadlines.                *)
THEOREM PolicyContract ==
    \A s \in Snapshots : Decide(s).dispatch \/ Waits(s, Decide(s))
  BY FixedContract, AdaptiveContract DEF Decide

-----------------------------------------------------------------------------
(* The window                                                              *)

USE WindowAssumption, NoDeadlineAssumption

(* The timer is set within the window and the deadlines of everybody who   *)
(* is in the deque, and the clock does not pass it.                        *)
TimerInv ==
    state = "wait" =>
        /\ now <= timer
        /\ \A r \in Active :
            /\ timer <= enqueuedAt[r] + MaxWait
            /\ Allowance[r] # NoDeadline => timer + BackendTime <= Due(r)

(* Nobody in the deque comes from the future, and as long as nobody is     *)
(* cancelled somebody in it was there when the collection began.           *)
DequeInv ==
    /\ deque \subseteq arrived
    /\ \A r \in deque : enqueuedAt[r] <= now
    /\ began <= now
    /\ state \in {"collect", "wait"} /\ cancelled = {} =>
        \E r \in deque : enqueuedAt[r] <= began

WindowInv == TypeOK /\ TimerInv /\ DequeInv

(* A snapshot of the swept deque is one that the policies can be asked.    *)
LEMMA SnapshotTypes ==
    ASSUME TypeOK, NEW oldest \in Oldest(Active),
           NEW gap \in Gaps, NEW deadline \in Earliest(Active)
    PROVE  Snapshot(oldest, gap, deadline) \in Snapshots
  <1>1. oldest \in Requests /\ enqueuedAt[oldest] \in Int
    BY DEF Oldest, Active, TypeOK
  <1>2. Cardinality(Active) \in Nat
    <2>1. Active \in SUBSET Requests
      BY DEF Active, TypeOK
    <2> QED BY <2>1, FS_Subset, FS_CardinalityType
  <1>3. deadline \in Int \cup {NoDeadline}
    <2>1. ASSUME NEW r \in Active, Allowance[r] # NoDeadline
          PROVE  Due(r) \in Int
      BY <2>1 DEF Active, TypeOK, Due
    <2> QED BY <2>1 DEF Earliest, Deadlines
  <1> QED BY <1>1, <1>2, <1>3 DEF Snapshot, Snapshots, TypeOK

(* A decision to wait keeps everybody's window and deadline: the oldest    *)
(* request's window ends first, and the earliest deadline is the earliest. *)
LEMMA AskSetsTimer ==
    ASSUME WindowInv, Ask, state' = "wait"
    PROVE  TimerInv' /\ timer' \in Nat
  <1>1. PICK oldest \in Oldest(Active), gap \in Gaps,
             deadline \in Earliest(Active) :
            LET decision == Decide(Snapshot(oldest, gap, deadline)) IN
            ~decision.dispatch /\ timer' = now + decision.wait
    BY DEF Ask
  <1> DEFINE s == Snapshot(oldest, gap, deadline)
  <1>2. Waits(s, Decide(s)) /\ timer' = now + Decide(s).wait
    BY <1>1, SnapshotTypes, PolicyContract DEF WindowInv
  <1>3. /\ s.now = now /\ s.oldest = enqueuedAt[oldest] /\ s.maxWait = MaxWait
        /\ s.backend = BackendTime /\ s.deadline = deadline
    BY DEF Snapshot
  <1>4. /\ deque' = Active /\ cancelled' = cancelled
        /\ enqueuedAt' = enqueuedAt /\ now' = now
    BY DEF Ask
  <1>5. Active' = Active
    BY <1>4 DEF Active
  <1>6. now \in Nat /\ \A r \in Requests : enqueuedAt[r] \in Nat
    BY DEF WindowInv, TypeOK
  <1>7. oldest \in Active /\ Active \subseteq Requests /\ Active \subseteq deque
    BY DEF Oldest, Active, WindowInv, TypeOK
  <1>8. enqueuedAt[oldest] <= now
    BY <1>7 DEF WindowInv, DequeInv
  <1>9. timer' \in Nat /\ now <= timer'
        /\ timer' <= enqueuedAt[oldest] + MaxWait
    BY <1>2, <1>3, <1>6, <1>8 DEF Waits
  <1> HIDE DEF s
  <1>10. ASSUME NEW r \in Active PROVE timer' <= enqueuedAt[r] + MaxWait
    <2>1. enqueuedAt[oldest] <= enqueuedAt[r]
      BY DEF Oldest
    <2> QED BY <1>6, <1>7, <1>9, <2>1
  <1>11. ASSUME NEW r \in Active, Allowance[r] # NoDeadline
         PROVE  timer' + BackendTime <= Due(r)
    <2>1. Due(r) \in Deadlines(Active) /\ Due(r) \in Int
      BY <1>6, <1>7, <1>11 DEF Deadlines, Due
    <2>2. deadline \in Deadlines(Active) /\ deadline <= Due(r)
      BY <2>1 DEF Earliest
    <2>3. deadline \in Int
      <3>1. PICK q \in Active : Allowance[q] # NoDeadline /\ deadline = Due(q)
        BY <2>2 DEF Deadlines
      <3> QED BY <1>6, <1>7, <3>1 DEF Due
    <2>4. now + Decide(s).wait + BackendTime <= deadline
      BY <1>2, <1>3, <2>3 DEF Waits
    <2> QED BY <1>2, <1>6, <1>9, <2>1, <2>2, <2>3, <2>4
  <1> QED BY <1>4, <1>5, <1>9, <1>10, <1>11 DEF TimerInv, Due

(* The invariant holds from the start and through every step.              *)
LEMMA WindowInvariant ==
    /\ Init => WindowInv
    /\ WindowInv /\ [Next]_vars => WindowInv'
  <1>1. Init => WindowInv
    BY DEF Init, WindowInv, TypeOK, TimerInv, DequeInv
  <1>2. WindowInv /\ [Next]_vars => WindowInv'
    <2> SUFFICES ASSUME WindowInv, [Next]_vars PROVE WindowInv'
      OBVIOUS
    <2>1. CASE UNCHANGED vars
      BY <2>1 DEF vars, WindowInv, TypeOK, TimerInv, DequeInv, Active, Due
    <2>2. ASSUME NEW r \in Requests, Arrive(r) PROVE WindowInv'
      <3>1. TypeOK'
        BY <2>2 DEF Arrive, WindowInv, TypeOK
      <3>2. TimerInv'
        BY <2>2 DEF Arrive, TimerInv
      <3>3. \A q \in deque : q # r /\ enqueuedAt'[q] = enqueuedAt[q]
        BY <2>2 DEF Arrive, WindowInv, DequeInv, TypeOK
      <3>4. enqueuedAt'[r] = now /\ now \in Nat
        BY <2>2 DEF Arrive, WindowInv, TypeOK
      <3>5. \A q \in deque' : enqueuedAt'[q] <= now'
        BY <2>2, <3>3, <3>4 DEF Arrive, WindowInv, DequeInv
      <3>6. state' \in {"collect", "wait"} /\ cancelled' = {} =>
                \E q \in deque' : enqueuedAt'[q] <= began'
        BY <2>2, <3>3 DEF Arrive, WindowInv, DequeInv
      <3>7. deque' \subseteq arrived' /\ began' <= now'
        BY <2>2 DEF Arrive, WindowInv, DequeInv
      <3> QED BY <3>1, <3>2, <3>5, <3>6, <3>7 DEF WindowInv, DequeInv
    <2>3. ASSUME NEW r \in Requests, Cancel(r) PROVE WindowInv'
      <3>1. TypeOK' /\ DequeInv'
        BY <2>3 DEF Cancel, Active, WindowInv, TypeOK, DequeInv
      <3>2. TimerInv'
        BY <2>3 DEF Cancel, Active, Due, WindowInv, TimerInv
      <3> QED BY <3>1, <3>2 DEF WindowInv
    <2>4. CASE Begin
      <3>1. TypeOK' /\ TimerInv'
        BY <2>4 DEF Begin, WindowInv, TypeOK, TimerInv
      <3>2. DequeInv'
        BY <2>4 DEF Begin, WindowInv, TypeOK, DequeInv
      <3> QED BY <3>1, <3>2 DEF WindowInv
    <2>5. CASE Nothing
      BY <2>5 DEF Nothing, WindowInv, TypeOK, TimerInv, DequeInv
    <2>6. CASE Ask
      <3>1. /\ state' \in {"wait", "done"} /\ deque' = Active
            /\ UNCHANGED <<cancelled, arrived, enqueuedAt, now, began>>
        BY <2>6 DEF Ask
      <3>2. timer' \in Nat /\ TimerInv'
        <4>1. CASE state' = "wait"
          BY <2>6, <4>1, AskSetsTimer
        <4>2. CASE state' # "wait"
          BY <2>6, <4>2 DEF Ask, WindowInv, TypeOK, TimerInv
        <4> QED BY <4>1, <4>2
      <3>3. TypeOK'
        BY <3>1, <3>2 DEF WindowInv, TypeOK, Active
      <3>4. DequeInv'
        <4>1. state = "collect" /\ (cancelled = {} => Active = deque)
          BY <2>6 DEF Ask, Active
        <4> QED BY <3>1, <4>1 DEF WindowInv, DequeInv, Active
      <3> QED BY <3>2, <3>3, <3>4 DEF WindowInv
    <2>7. CASE TimedOut
      BY <2>7 DEF TimedOut, WindowInv, TypeOK, TimerInv, DequeInv
    <2>8. CASE Tick
      <3>1. TypeOK'
        BY <2>8 DEF Tick, WindowInv, TypeOK
      <3>2. TimerInv'
        BY <2>8 DEF Tick, WindowInv, TypeOK, TimerInv, Active, Due
      <3>3. \A r \in deque : enqueuedAt[r] \in Nat
        BY DEF WindowInv, TypeOK
      <3>4. DequeInv'
        BY <2>8, <3>3 DEF Tick, WindowInv, TypeOK, DequeInv
      <3> QED BY <3>1, <3>2, <3>4 DEF WindowInv
    <2>9. ASSUME NEW r \in Requests, PassBy(r) PROVE WindowInv'
      BY <2>9 DEF PassBy, WindowInv, TypeOK, TimerInv, DequeInv
    <2> QED BY <2>1, <2>2, <2>3, <2>4, <2>5, <2>6, <2>7, <2>8, <2>9
      DEF Next
  <1> QED BY <1>1, <1>2

(* Nobody in a batch that is kept open waits longer than max_wait_ms, for  *)
(* every policy setting, batch size, load estimate and set of deadlines.   *)
THEOREM WindowAlwaysHonoured == Spec => []WindowHonoured
  <1>1. WindowInv => WindowHonoured
    <2> SUFFICES ASSUME WindowInv, state = "wait", NEW r \in Active
                 PROVE  now <= enqueuedAt[r] + MaxWait
      BY DEF WindowHonoured
    <2>1. /\ now \in Nat /\ timer \in Nat /\ enqueuedAt[r] \in Nat
          /\ now <= timer /\ timer <= enqueuedAt[r] + MaxWait
      BY DEF WindowInv, TypeOK, TimerInv, Active
    <2> QED BY <2>1
  <1> QED BY <1>1, WindowInvariant, PTL DEF Spec

(* Nor longer than its deadline, less the estimated backend time, allows.  *)
THEOREM SlackAlwaysKept == Spec => []SlackKept
  <1>1. WindowInv => SlackKept
    <2> SUFFICES ASSUME WindowInv, state = "wait", NEW r \in Active,
                        Allowance[r] # NoDeadline
                 PROVE  now + BackendTime <= Due(r)
      BY DEF SlackKept
    <2>1. /\ now \in Nat /\ timer \in Nat /\ Due(r) \in Nat
          /\ now <= timer /\ timer + BackendTime <= Due(r)
      BY DEF WindowInv, TypeOK, TimerInv, Active, Due
    <2> QED BY <2>1
  <1> QED BY <1>1, WindowInvariant, PTL DEF Spec

(* Without cancellations the other keys wait for one key's collection at   *)
(* most one window.                                                        *)
THEOREM OthersAlwaysWaitOneWindow == Spec => []OthersWaitOneWindow
  <1>1. WindowInv => OthersWaitOneWindow
    <2> SUFFICES ASSUME WindowInv, state = "wait", cancelled = {}
                 PROVE  now <= began + MaxWait
      BY DEF OthersWaitOneWindow
    <2>1. PICK r \in deque : enqueuedAt[r] <= began
      BY DEF WindowInv, DequeInv
    <2>2. /\ now \in Nat /\ timer \in Nat /\ enqueuedAt[r] \in Nat
          /\ now <= timer /\ timer <= enqueuedAt[r] + MaxWait
          /\ began \in Nat
      BY <2>1 DEF WindowInv, TypeOK, TimerInv, Active
    <2> QED BY <2>1, <2>2
  <1> QED BY <1>1, WindowInvariant, PTL DEF Spec
=============================================================================
