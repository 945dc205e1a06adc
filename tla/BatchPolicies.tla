--------------------------- MODULE BatchPolicies ---------------------------
(***************************************************************************)
(* The policies that close a batch: gateway/core/policies.  Both are pure  *)
(* functions of a snapshot of one key's deque.  Times are whole ticks, and *)
(* the arrival rate is given by its reciprocal, the ticks between two      *)
(* arrivals (0 when nothing is known and the code's rate is 0.0).          *)
(*                                                                         *)
(* A definition whose name ends in Bug is a seeded fault (see Batcher).    *)
(***************************************************************************)
EXTENDS Integers

CONSTANTS
    Policy,            \* batch_policy: "fixed" or "adaptive"
    LowLoadThreshold,  \* companions below which waiting is not worth it
    NoDeadline         \* no request of the deque has a deadline

ASSUME PolicyAssumption == Policy \in {"fixed", "adaptive"}
ASSUME ThresholdAssumption == LowLoadThreshold \in Nat
ASSUME NoDeadlineAssumption == NoDeadline \notin Int

(* QueueSnapshot.                                                          *)
Snapshots ==
    [now: Int,                          \* when the policy is asked
     oldest: Int,                       \* oldest_enqueued_at
     size: Nat,                         \* compatible_queue_size
     maxSize: Nat,                      \* max_batch_size
     maxWait: Nat,                      \* max_wait_s
     gap: Nat,                          \* 1 / arrival_rate_per_s
     backend: Nat,                      \* estimated_backend_s
     deadline: Int \cup {NoDeadline}]   \* earliest_deadline_at

(* DispatchDecision.                                                       *)
Now(reason) == [dispatch |-> TRUE, wait |-> 0, reason |-> reason]
Later(wait, reason) == [dispatch |-> FALSE, wait |-> wait, reason |-> reason]

NonNegative(x) == IF x > 0 THEN x ELSE 0

Least(x, y) == IF x <= y THEN x ELSE y

Full(s) == s.size >= s.maxSize

(* The window runs from the moment the policy is asked.                    *)
RemainingWindowBug(s) == s.maxWait

RemainingWindow(s) == NonNegative(s.maxWait - NonNegative(s.now - s.oldest))

Slack(s) == s.deadline - s.now - s.backend

(* FixedWindowPolicy.decide                                                *)
FixedDecide(s) ==
    IF Full(s) THEN Now("batch_full")
    ELSE IF RemainingWindow(s) = 0 THEN Now("wait_window_elapsed")
    ELSE IF s.deadline # NoDeadline /\ Slack(s) <= RemainingWindow(s)
         THEN Now("deadline_slack_exhausted")
    ELSE Later(RemainingWindow(s), "configured_wait")

(* AdaptiveWindowPolicy.decide                                             *)
LowLoad(s) == s.gap = 0 \/ RemainingWindow(s) < LowLoadThreshold * s.gap

FillEta(s) == (s.maxSize - s.size) * s.gap

AdaptiveDecide(s) ==
    IF Full(s) THEN Now("batch_full")
    ELSE IF RemainingWindow(s) = 0 THEN Now("wait_window_elapsed")
    ELSE IF s.deadline # NoDeadline /\ Slack(s) <= 0
         THEN Now("deadline_slack_exhausted")
    ELSE IF LowLoad(s) THEN Now("low_load_bypass")
    ELSE LET patience == Least(RemainingWindow(s), FillEta(s))
         IN  Later(IF s.deadline = NoDeadline THEN patience
                   ELSE Least(patience, Slack(s)),
                   IF FillEta(s) < RemainingWindow(s)
                   THEN "estimated_fill" ELSE "configured_wait")

Decide(s) == IF Policy = "fixed" THEN FixedDecide(s) ELSE AdaptiveDecide(s)
=============================================================================
