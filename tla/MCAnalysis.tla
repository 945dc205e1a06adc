----------------------------- MODULE MCAnalysis -----------------------------
(***************************************************************************)
(* The analysis in its parts: Analysis for small matrices, and OuterCalls  *)
(* for the records of one run.  A behaviour is one of one part; the        *)
(* variables of the other stay where they begin.                           *)
(***************************************************************************)
EXTENDS Analysis

CONSTANTS Requests, Calls, MaxBatchSize

ASSUME CallsAssumption ==
    /\ None \notin Calls \cup Requests
    /\ IsFiniteSet(Requests) /\ Requests # {}

VARIABLES part, batched, callOf, broken, lost, file, next, groups, verdict

Records == INSTANCE OuterCalls

recording == <<batched, callOf, broken, lost, file, next, groups, verdict>>

MCvars == <<part, vars, recording>>

MCComparisons == {<<"fixed", "direct">>}

-----------------------------------------------------------------------------
Ended(status, whole, timed, metric) ==
    [status |-> status, whole |-> whole, timed |-> timed, metric |-> metric]

Good(v) == Ended("complete", TRUE, TRUE, v)
Invalid == Ended("invalid_harness", FALSE, FALSE, None)

(* The manifests of the conditions, each with its fate.                    *)
Own(fate) ==
    {[name |-> "own", cell |-> c, fate |-> fate[c]] :
        c \in {d \in Cells : fate[d].status # "absent"}}

(* Every kind of fault, in up to two conditions of a good matrix.          *)
Faults ==
    {Ended("absent", FALSE, FALSE, None), Ended("started", FALSE, FALSE, None),
     Invalid, Ended("complete", FALSE, TRUE, 1), Good(1), Good(None)}

Faulty ==
    {Own([[c \in Cells |-> Good(1)] EXCEPT ![a] = f, ![b] = g]) :
        a, b \in Cells, f, g \in Faults}

(* A directory that was archived beneath the input, and a run of a rate    *)
(* that does not belong to the matrix.                                     *)
Strays ==
    LET Stray(name, rate) ==
            {{[name |-> name, cell |-> <<"fixed", rate, 1>>, fate |-> fate]} :
                fate \in {Ended("started", FALSE, FALSE, None), Invalid,
                          Good(1)}}
    IN {{}} \union Stray("archived", 1) \union Stray("own", 9)

(* Terminal conditions, some excluded, with a metric of zero or more, or   *)
(* of none: no call of a run was timed when no request was answered.       *)
Unanswered == Ended("complete", TRUE, FALSE, None)

Terminal ==
    {Own(fate) : fate \in [Cells -> {Invalid, Good(0), Good(2)}]
                          \union [Cells -> {Invalid, Unanswered, Good(2)}]}

MCDisks == {own \union stray : own \in Faulty, stray \in Strays} \union Terminal

(* Requests and calls are numbers.  Nothing in OuterCalls tells one from   *)
(* another: requests are numbered by their call, and calls with no gap.    *)
Rank(r) == IF callOf[r] = None THEN Cardinality(Calls) + 1 ELSE callOf[r]

Numbered ==
    /\ \A q, r \in Requests : q < r => Rank(q) <= Rank(r)
    /\ Records!Made = 1..Cardinality(Records!Made)

-----------------------------------------------------------------------------
NoMatrix ==
    /\ disk = {} /\ unread = {} /\ observed = {} /\ runs = {}
    /\ excluded = {} /\ pc = "load" /\ report = None

NoRecords ==
    /\ batched = TRUE /\ callOf = [r \in Requests |-> None]
    /\ broken = {} /\ lost = {} /\ file = <<>>
    /\ next = 1 /\ groups = <<>> /\ verdict = "running"

MCInit ==
    \/ part = "calls" /\ NoMatrix /\ Records!Init /\ Numbered
    \/ part = "matrix" /\ NoRecords /\ Init

Rebuilding == part = "calls" /\ UNCHANGED <<part, vars>>
Analyzing == part = "matrix" /\ UNCHANGED <<part, recording>>

Terminating ==
    /\ \/ verdict \in {"accepted", "incomplete", "inconsistent"}
       \/ pc \in {"done", "failed"}
    /\ UNCHANGED MCvars

MCNext ==
    \/ Rebuilding /\ Records!Next
    \/ Analyzing /\ Next
    \/ Terminating

MCSpec == MCInit /\ [][MCNext]_MCvars

-----------------------------------------------------------------------------
(* The calls behind a published group size are those that were answered,   *)
(* and one for each request that failed: see OuterCalls.                   *)
CallsRebuilt == Records!CallsRebuilt
=============================================================================
