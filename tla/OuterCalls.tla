----------------------------- MODULE OuterCalls -----------------------------
(***************************************************************************)
(* From backend calls to the published group size: what the clients of     *)
(* bench/client.py and the runner write of each request, and how           *)
(* outer_call_metrics of bench/analyze_final.py puts the calls together    *)
(* again from the lines of requests.jsonl, which are in the order of the   *)
(* answers.  Definitions ending in Bug are seeded faults, see Batcher.     *)
(***************************************************************************)
EXTENDS Naturals, Sequences, FiniteSets, Functions

CONSTANTS
    Requests,    \* the scheduled requests of one run
    Calls,       \* batch ids: the backend calls that were made
    MaxBatchSize,
    None         \* null in a record, and the call of a rejected request

VARIABLES
    batched,  \* FALSE: direct and pass-through runs, one call a request
    callOf,   \* the backend call each request was in
    broken,   \* the calls that failed
    lost,     \* the requests whose answer did not reach the client
    file,     \* requests.jsonl
    next,     \* the line to be read
    groups,   \* the dict of outer_call_metrics
    verdict   \* "running", "reading", "accepted", or the ValueError

vars == <<batched, callOf, broken, lost, file, next, groups, verdict>>

Members(c) == {r \in Requests : callOf[r] = c}

Made == {c \in Calls : Members(c) # {}}

(* The duration of a call; two calls have different ones.                  *)
Duration(c) == c

Failed(r) == callOf[r] = None \/ callOf[r] \in broken \/ r \in lost

(* A request rejected by the gateway is in no call.                        *)
Init ==
    /\ batched \in BOOLEAN
    /\ callOf \in [Requests -> Calls \cup {None}]
    /\ \A c \in Calls :
        Cardinality(Members(c)) <= IF batched THEN MaxBatchSize ELSE 1
    /\ broken \in SUBSET Made
    /\ lost \in SUBSET {r \in Requests :
                            callOf[r] # None /\ callOf[r] \notin broken}
    /\ file = <<>>
    /\ next = 1
    /\ groups = <<>>
    /\ verdict = "running"

(* A failed request has a record without the fields of a response.         *)
RecordOf(r) ==
    IF Failed(r)
    THEN [index |-> r, batch |-> None, size |-> None, ms |-> None]
    ELSE [index |-> r,
          batch |-> IF batched THEN callOf[r] ELSE None,
          size |-> Cardinality(Members(callOf[r])),
          ms |-> Duration(callOf[r])]

(* The task of r gets an answer, or an exception, and appends its record.  *)
Record(r) ==
    /\ verdict = "running"
    /\ \A i \in DOMAIN file : file[i].index # r
    /\ file' = Append(file, RecordOf(r))
    /\ UNCHANGED <<batched, callOf, broken, lost, next, groups, verdict>>

Analyze ==
    /\ verdict = "running"
    /\ Len(file) = Cardinality(Requests)
    /\ verdict' = "reading"
    /\ UNCHANGED <<batched, callOf, broken, lost, file, next, groups>>

(* Every request without a batch id falls into one group.                  *)
KeyBug(record) == <<"batch", record.batch>>

Key(record) ==
    IF record.batch = None
    THEN <<"request", record.index>>
    ELSE <<"batch", record.batch>>

(* record.get("batch_size") or 1                                           *)
Size(record) == IF record.size = None THEN 1 ELSE record.size

(* A group begins with a count of one, not with its first record.          *)
SoFarBug(record) ==
    IF Key(record) \in DOMAIN groups
    THEN groups[Key(record)]
    ELSE [size |-> Size(record), count |-> 1, ms |-> record.ms]

SoFar(record) ==
    IF Key(record) \in DOMAIN groups
    THEN groups[Key(record)]
    ELSE [size |-> Size(record), count |-> 0, ms |-> record.ms]

Inconsistent(group, record) ==
    \/ group.size # Size(record)
    \/ None \notin {group.ms, record.ms} /\ group.ms # record.ms

(* One iteration over the lines.                                           *)
ReadLine ==
    /\ verdict = "reading"
    /\ next <= Len(file)
    /\ LET record == file[next]
           group == SoFar(record)
       IN IF Inconsistent(group, record)
          THEN verdict' = "inconsistent" /\ UNCHANGED <<next, groups>>
          ELSE /\ next' = next + 1
               /\ groups' = [k \in DOMAIN groups \cup {Key(record)} |->
                    IF k = Key(record)
                    THEN [group EXCEPT !.count = @ + 1]
                    ELSE groups[k]]
               /\ UNCHANGED verdict
    /\ UNCHANGED <<batched, callOf, broken, lost, file>>

(* A call is whole as soon as one of its requests has a record.            *)
WholeBug(k) == groups[k].count <= groups[k].size

Whole(k) == k[1] = "batch" => groups[k].count = groups[k].size

Judge ==
    /\ verdict = "reading"
    /\ next > Len(file)
    /\ verdict' =
        IF \A k \in DOMAIN groups : Whole(k) THEN "accepted" ELSE "incomplete"
    /\ UNCHANGED <<batched, callOf, broken, lost, file, next, groups>>

Next == Analyze \/ ReadLine \/ Judge \/ \E r \in Requests : Record(r)

Spec == Init /\ [][Next]_vars

-----------------------------------------------------------------------------
(* What the function returns, as the two terms of its mean.                *)
Groups == Cardinality(DOMAIN groups)

GroupedRequests == SumFunction([k \in DOMAIN groups |-> groups[k].size])

Failures == {r \in Requests : Failed(r)}

Answered == {callOf[r] : r \in Requests \ Failures}

(* In whatever order the records of an accepted run were written, its mean *)
(* is the number of requests over the number of the calls that were        *)
(* answered and of the requests that failed.  So a request that failed     *)
(* counts as a call of its own, of size one, with however many others its  *)
(* call failed and even if it was in none; and the mean is over the calls  *)
(* that were made when no request failed, for then each was answered.      *)
Reconstructs ==
    verdict = "accepted" =>
        /\ Groups = Cardinality(Answered) + Cardinality(Failures)
        /\ GroupedRequests = Cardinality(Requests)
        /\ Failures = {} => Answered = Made

(* A run is refused exactly when a call was answered in part: one answer   *)
(* that is lost on its way to the client spoils the run, and the matrix    *)
(* with it, unless it was the only request of its call.  Sizes and         *)
(* durations never contradict one another.                                 *)
RefusedOnlyIfTorn ==
    LET Torn(c) == /\ c \notin broken
                   /\ Members(c) \cap lost # {}
                   /\ ~(Members(c) \subseteq lost)
    IN /\ verdict # "inconsistent"
       /\ verdict = "incomplete" => batched /\ \E c \in Made : Torn(c)
       /\ verdict = "accepted" => ~batched \/ \A c \in Made : ~Torn(c)

(* The calls behind a published group size are those that were answered,   *)
(* and one for each request that failed.                                   *)
CallsRebuilt == Reconstructs /\ RefusedOnlyIfTorn
=============================================================================
