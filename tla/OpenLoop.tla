------------------------------ MODULE OpenLoop ------------------------------
(***************************************************************************)
(* One open-loop run in time: run_open_loop of bench/runner.py, a task for *)
(* each scheduled request on one event loop, with the connection pool of   *)
(* its HTTP client (bench/client.py) and the synchronous append to         *)
(* requests.jsonl (bench/storage.py), during which no other task can run.  *)
(*                                                                         *)
(* Time is in whole ticks.  Definitions ending in Bug are seeded faults,   *)
(* see Batcher.                                                            *)
(***************************************************************************)
EXTENDS Naturals, Sequences, FiniteSets, Functions

(* Times and counts are natural numbers, Timeout and PoolSizes positive.   *)
CONSTANTS
    Requests,
    Target,        \* when each request is due, arrival_offset_s
    PoolSizes,     \* how many connections the HTTP client may have
    Timeout,       \* timeout_s, for a connection and then for an answer
    MaxStall,      \* the longest that one append blocks the event loop
    Threshold,     \* harness_drift_threshold_ms
    AllowedLate    \* how many late requests harness_error_threshold allows

VARIABLES
    pool,     \* connections of the HTTP client, httpx allows 100
    now,      \* ticks since start_time
    task,     \* "sleeping", "pooled", "sent", "answered", "failed", "done"
    actual,   \* actual_arrival_s
    sentAt,   \* when the request got its connection, the pool's own business
    busy,     \* until when the loop is blocked by an append
    file,     \* requests.jsonl
    verdict   \* "running", "valid" or "overload"

vars == <<pool, now, task, actual, sentAt, busy, file, verdict>>

In(states) == {r \in Requests : task[r] \in states}

Init ==
    /\ pool \in PoolSizes
    /\ now = 0
    /\ task = [r \in Requests |-> "sleeping"]
    /\ actual = [r \in Requests |-> 0]
    /\ sentAt = [r \in Requests |-> 0]
    /\ busy = 0
    /\ file = <<>>
    /\ verdict = "running"

-----------------------------------------------------------------------------
(* The event loop                                                          *)

Free == now >= busy

(* A connection is given back when its task has read the answer.           *)
Connections == Cardinality(In({"sent", "answered"}))

(* A closed loop: a task waits for a connection before it starts.          *)
DueBug(r) ==
    task[r] = "sleeping" /\ Target[r] <= now /\ Connections < pool

Due(r) == task[r] = "sleeping" /\ Target[r] <= now

(* The sleep is over: the task takes the time and calls the client, which  *)
(* sends if there is a connection left and nobody waits for it already.    *)
Wake(r) ==
    /\ Free
    /\ Due(r)
    /\ actual' = [actual EXCEPT ![r] = now]
    /\ IF Connections < pool /\ In({"pooled"}) = {}
       THEN /\ task' = [task EXCEPT ![r] = "sent"]
            /\ sentAt' = [sentAt EXCEPT ![r] = now]
       ELSE task' = [task EXCEPT ![r] = "pooled"] /\ UNCHANGED sentAt
    /\ UNCHANGED <<now, busy, file, verdict, pool>>

(* The pool serves who has waited longest.                                 *)
Served(r) ==
    /\ task[r] = "pooled"
    /\ Connections < pool
    /\ \A q \in In({"pooled"}) : actual[r] <= actual[q]

GetConnection(r) ==
    /\ Free
    /\ Served(r)
    /\ task' = [task EXCEPT ![r] = "sent"]
    /\ sentAt' = [sentAt EXCEPT ![r] = now]
    /\ UNCHANGED <<now, actual, busy, file, verdict, pool>>

Overdue(r) ==
    \/ task[r] = "pooled" /\ now >= actual[r] + Timeout
    \/ task[r] = "sent" /\ now >= sentAt[r] + Timeout

(* The exception of a timeout is not caught: no record.                    *)
TimesOutBug(r) ==
    /\ Free
    /\ Overdue(r)
    /\ task' = [task EXCEPT ![r] = "lost"]
    /\ UNCHANGED <<now, actual, sentAt, busy, file, verdict, pool>>

(* httpx gives up a connection or an answer that takes too long; an answer *)
(* comes whole.                                                            *)
TimesOut(r) ==
    /\ Free
    /\ Overdue(r)
    /\ task' = [task EXCEPT ![r] = "failed"]
    /\ UNCHANGED <<now, actual, sentAt, busy, file, verdict, pool>>

(* Only answers are recorded.                                              *)
RecordBug(r, stall) ==
    /\ Free
    /\ task[r] \in {"answered", "failed"}
    /\ task' = [task EXCEPT ![r] = "done"]
    /\ file' = IF task[r] = "answered" THEN Append(file, r) ELSE file
    /\ busy' = now + stall
    /\ UNCHANGED <<now, actual, sentAt, verdict, pool>>

(* The task takes the answer, or the exception, and appends its record.    *)
Record(r, stall) ==
    /\ Free
    /\ task[r] \in {"answered", "failed"}
    /\ task' = [task EXCEPT ![r] = "done"]
    /\ file' = Append(file, r)
    /\ busy' = now + stall
    /\ UNCHANGED <<now, actual, sentAt, verdict, pool>>

(* Drift is taken for lateness only from twice the threshold.              *)
LateBug == {r \in Requests : actual[r] > Target[r] + 2 * Threshold + 1}

Late == {r \in Requests : actual[r] > Target[r] + Threshold}

(* gather() has all results, and the late ones are counted.                *)
Finish ==
    /\ Free
    /\ verdict = "running"
    /\ In({"done"}) = Requests
    /\ verdict' =
        IF Cardinality(Late) > AllowedLate THEN "overload" ELSE "valid"
    /\ UNCHANGED <<now, task, actual, sentAt, busy, file, pool>>

-----------------------------------------------------------------------------
(* Outside                                                                 *)

(* The server answers, whatever the loop is doing, with a response or an   *)
(* error status, or the connection breaks.                                 *)
Respond(r) ==
    /\ task[r] = "sent"
    /\ now > sentAt[r]
    /\ task' = [task EXCEPT ![r] = "answered"]
    /\ UNCHANGED <<now, actual, sentAt, busy, file, verdict, pool>>

(* Time does not pass while the loop is free and has a task to run.        *)
Idle ==
    /\ In({"answered", "failed"}) = {}
    /\ \A r \in Requests : ~Due(r) /\ ~Served(r) /\ ~Overdue(r)

Tick ==
    /\ Free => Idle /\ In({"sleeping", "pooled", "sent"}) # {}
    /\ now' = now + 1
    /\ UNCHANGED <<task, actual, sentAt, busy, file, verdict, pool>>

Loop ==
    \/ Finish
    \/ \E r \in Requests :
        \/ Wake(r) \/ GetConnection(r) \/ TimesOut(r)
        \/ \E stall \in 0..MaxStall : Record(r, stall)

Next == Loop \/ Tick \/ \E r \in Requests : Respond(r)

Spec == Init /\ [][Next]_vars

(* Time passes, and the event loop runs what is ready.  Nothing is assumed *)
(* of the server.                                                          *)
Fairness == WF_vars(Loop) /\ WF_vars(Tick)

-----------------------------------------------------------------------------
(* A run has one record for each scheduled request, whatever the server    *)
(* did to it: answered, failed, timed out, or never even sent.             *)
OneRecordEach ==
    verdict # "running" =>
        /\ Len(file) = Cardinality(Requests)
        /\ Range(file) = Requests

(* Open loop: a task starts when it is due, never before, and is late only *)
(* by the time for which the harness was writing other records.  No number *)
(* of slow, silent or failing requests holds it up.                        *)
LateOnlyByWriting ==
    \A r \in Requests : task[r] # "sleeping" =>
        /\ actual[r] >= Target[r]
        /\ actual[r] - Target[r] <= MaxStall * Len(file)

(* A request that did not go out when it was due.                          *)
OffSchedule(r) ==
    sentAt[r] < Target[r] \/ sentAt[r] > Target[r] + Threshold

(* README: "Scheduled arrivals continue independently of service slowdown, *)
(* so offered load does not silently fall when latency rises."  In a run   *)
(* that is not rejected every request, up to those that may be late, went  *)
(* out when it was due, whatever the server did.                           *)
OfferedLoad ==
    verdict = "valid" =>
        Cardinality({r \in Requests : OffSchedule(r)}) <= AllowedLate

(* That is so as long as there is a connection for every request.          *)
LoadOffered == pool >= Cardinality(Requests) => OfferedLoad

(* A run is rejected for what the harness did, never for a slow server: an *)
(* append blocked the loop, and more tasks started late than are allowed.  *)
RejectedForCause ==
    verdict = "overload" =>
        /\ MaxStall > 0
        /\ Cardinality({r \in Requests : actual[r] > Target[r] + Threshold})
                > AllowedLate

(* Arrivals are on time, lateness is noticed, and nothing else is.         *)
OpenLoopKept == LateOnlyByWriting /\ LoadOffered /\ RejectedForCause

(* A run ends, although the server may never answer anything.              *)
RunEnds == <>(verdict # "running")
=============================================================================
