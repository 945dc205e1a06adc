---------------------------- MODULE Measurement ----------------------------
(***************************************************************************)
(* The drivers of EXP-001, run_calibration of bench/calibration.py, and of *)
(* EXP-002, run_pilot of bench/pilot.py: every rate, for the pilot against *)
(* a gateway started for each waiting window, with the GPU sampler running *)
(* beside the traffic, and the files they leave over several invocations,  *)
(* some of which fail or are killed.  OpenLoop has the traffic in time,    *)
(* GpuMonitor the sampler, FinalMatrix the driver of EXP-003.              *)
(*                                                                         *)
(* Definitions ending in Bug are seeded faults, see Batcher.               *)
(***************************************************************************)
EXTENDS Naturals, Sequences

CONSTANTS
    Waits,     \* how many waiting windows the pilot has
    Rates,     \* how many rates, no two of them equal
    Load,      \* requests of a condition
    MaxRuns    \* bound: invocations of the driver

ASSUME MeasurementAssumption ==
    {Waits, Rates, Load, MaxRuns} \subseteq Nat \ {0}

Conditions == (1..Waits) \X (1..Rates)

VARIABLES
    pilot,       \* run_pilot is run, otherwise run_calibration
    invocation,  \* how often the driver was started
    pc,          \* where it is, "down" when it does not run
    at,          \* wait_index and rate_index, from one
    listening,   \* the window of the gateway that has the port, or 0
    own,         \* that gateway is the child of the running driver
    stuck,       \* it was killed and could not die yet
    sampler,     \* gpu_task is alive
    results,     \* what run_open_loop has so far
    summaries,   \* the list of that name
    requests,    \* requests.jsonl of each condition: who wrote each record
    manifest,    \* manifest.json: its status and invocation
    summary,     \* summary.json: the records it was computed from
    aggregate,   \* the file with all summaries
    crashed      \* an invocation was killed

vars == <<pilot, invocation, pc, at, listening, own, stuck, sampler, results,
          summaries, requests, manifest, summary, aggregate, crashed>>

gateway == <<listening, own, stuck>>
driver == <<invocation, at, gateway, sampler, results, summaries>>
files == <<requests, manifest, summary, aggregate>>

Init ==
    /\ pilot \in BOOLEAN
    /\ invocation = 0 /\ pc = "down" /\ at = <<1, 1>>
    /\ listening = 0 /\ own = FALSE /\ stuck = FALSE /\ sampler = FALSE
    /\ results = <<>> /\ summaries = <<>>
    /\ requests = [c \in Conditions |-> <<>>]
    /\ manifest = [c \in Conditions |-> <<"none", 0>>]
    /\ summary = [c \in Conditions |-> <<>>]
    /\ aggregate = <<>> /\ crashed = FALSE

(* A record tells its invocation and the gateway that served it.           *)
Written == [by |-> invocation, via |-> listening]

Goto(label) == pc' = label

-----------------------------------------------------------------------------
Start ==
    /\ pc = "down" /\ invocation < MaxRuns
    /\ invocation' = invocation + 1
    /\ Goto(IF pilot THEN "spawn" ELSE "begin")
    /\ at' = <<1, 1>> /\ summaries' = <<>> /\ results' = <<>>
    /\ UNCHANGED <<gateway, sampler, crashed, pilot, files>>

(* A second gateway cannot have the port, and exits.                       *)
Spawn ==
    /\ pc = "spawn"
    /\ own' = (listening = 0)
    /\ listening' = IF listening = 0 THEN at[1] ELSE listening
    /\ Goto("wait")
    /\ UNCHANGED <<invocation, at, stuck, sampler, results, summaries, crashed,
                   pilot, files>>

(* No deadline, and no look at whether the child has exited.               *)
WaitBug ==
    /\ pc = "wait" /\ own
    /\ Goto("begin")
    /\ UNCHANGED <<driver, files, crashed, pilot>>

(* The health endpoint answers, which a killed gateway does not, or the    *)
(* child exited or was too slow.                                           *)
Wait ==
    /\ pc = "wait"
    /\ \/ listening # 0 /\ ~stuck /\ Goto("begin")
       \/ Goto("fail")
    /\ UNCHANGED <<driver, files, crashed, pilot>>

Begin ==
    /\ pc = "begin"
    /\ manifest' = [manifest EXCEPT ![at] = <<"started", invocation>>]
    /\ Goto("warmup")
    /\ UNCHANGED <<driver, requests, summary, aggregate, crashed, pilot>>

(* The warm-up requests; then the sampler and the traffic are started.     *)
WarmUp ==
    /\ pc = "warmup"
    /\ Goto("traffic") /\ sampler' = TRUE /\ results' = <<>>
    /\ UNCHANGED <<invocation, at, gateway, summaries, files, crashed,
                   pilot>>

(* A task ends and its record is appended, also while the driver is on its *)
(* way out.                                                                *)
Record ==
    /\ pc \in {"traffic", "abort", "raised"}
    /\ Len(results) < Load
    /\ results' = Append(results, Written)
    /\ requests' = [requests EXCEPT ![at] = Append(@, Written)]
    /\ UNCHANGED <<invocation, pc, at, gateway, sampler, summaries,
                   manifest, summary, aggregate, crashed, pilot>>

(* Too many requests were late, or an append fails: its record is missing, *)
(* and the other tasks go on.                                              *)
RunRaises ==
    /\ results' = IF Len(results) = Load THEN results
                  ELSE Append(results, Written)
    /\ UNCHANGED <<invocation, at, gateway, sampler, summaries, files,
                   crashed, pilot>>

(* The pilot does not wait for the sampler either.                         *)
RaiseBug == pc = "traffic" /\ Goto("raised") /\ RunRaises

(* run_open_loop raises: the pilot stops the sampler and waits for it, the *)
(* calibration leaves it to the end of the process.                        *)
Raise ==
    /\ pc = "traffic"
    /\ Goto(IF pilot THEN "abort" ELSE "raised")
    /\ RunRaises

Return ==
    /\ pc = "traffic" /\ Len(results) = Load
    /\ Goto("sampled")
    /\ UNCHANGED <<driver, files, crashed, pilot>>

(* monitor_gpu returns, stopped or at the end of its time.                 *)
SamplerEnds ==
    /\ sampler
    /\ sampler' = FALSE
    /\ UNCHANGED <<invocation, pc, at, gateway, results, summaries,
                   files, crashed, pilot>>

Aborted ==
    /\ pc = "abort" /\ ~sampler
    /\ Goto("raised")
    /\ UNCHANGED <<driver, files, crashed, pilot>>

(* The summary is made from the file.                                      *)
SummarizeBug ==
    /\ pc = "sampled" /\ ~sampler
    /\ summary' = [summary EXCEPT ![at] = requests[at]]
    /\ summaries' = Append(summaries, <<at, requests[at]>>)
    /\ Goto("complete")
    /\ UNCHANGED <<invocation, at, gateway, sampler, results,
                   requests, manifest, aggregate, crashed, pilot>>

(* The samples are appended and the summary is written, from the results.  *)
Summarize ==
    /\ pc = "sampled" /\ ~sampler
    /\ summary' = [summary EXCEPT ![at] = results]
    /\ summaries' = Append(summaries, <<at, results>>)
    /\ Goto("complete")
    /\ UNCHANGED <<invocation, at, gateway, sampler, results,
                   requests, manifest, aggregate, crashed, pilot>>

LastRate == at[2] = Rates
LastWait == at[1] = (IF pilot THEN Waits ELSE 1)

Complete ==
    /\ pc = "complete"
    /\ manifest' = [manifest EXCEPT ![at] = <<"complete", invocation>>]
    /\ IF LastRate THEN Goto("close") /\ UNCHANGED at
       ELSE Goto("begin") /\ at' = [at EXCEPT ![2] = @ + 1]
    /\ UNCHANGED <<invocation, gateway, sampler, results, summaries,
                   requests, summary, aggregate, crashed, pilot>>

(* The gateway is left to the next window.                                 *)
StopGatewayBug == UNCHANGED gateway

(* _stop_gateway ends the child, if it still runs, or raises when it has   *)
(* not died five seconds after it was killed.                              *)
StopGateway ==
    /\ \/ listening' = (IF own THEN 0 ELSE listening) /\ UNCHANGED stuck
       \/ own /\ stuck' = TRUE /\ UNCHANGED listening
    /\ own' = FALSE

Close ==
    /\ pc = "close"
    /\ StopGateway
    /\ IF stuck' THEN Goto("fail") /\ UNCHANGED at
       ELSE IF LastWait THEN Goto("aggregate") /\ UNCHANGED at
       ELSE Goto("spawn") /\ at' = <<at[1] + 1, 1>>
    /\ UNCHANGED <<invocation, sampler, results, summaries, files, crashed,
                   pilot>>

Aggregate ==
    /\ pc = "aggregate"
    /\ aggregate' = summaries
    /\ Goto("down")
    /\ UNCHANGED <<driver, requests, manifest, summary, crashed, pilot>>

(* Everything else raises too, before what it does or after it: a file, a  *)
(* process or git, a warm-up request, the sampler when it is waited for,   *)
(* or the interrupt key, which reaches the driver at its next await, those *)
(* of the cooldown included.                                               *)
Break ==
    /\ \/ pc \in {"spawn", "begin", "warmup", "complete", "close", "aggregate"}
       \/ pc = "sampled" /\ ~sampler
    /\ Goto("fail")
    /\ UNCHANGED <<driver, files, crashed, pilot>>

(* What there is of the matrix is written even after a failure.            *)
FailBug ==
    /\ pc \in {"fail", "raised"}
    /\ aggregate' = summaries
    /\ StopGateway
    /\ sampler' = FALSE
    /\ Goto("down")
    /\ UNCHANGED <<invocation, at, results, summaries, requests, manifest,
                   summary, crashed, pilot>>

(* The finally clauses, and asyncio.run, which cancels what is left.       *)
Fail ==
    /\ pc \in {"fail", "raised"}
    /\ StopGateway
    /\ sampler' = FALSE
    /\ Goto("down")
    /\ UNCHANGED <<invocation, at, results, summaries, files, crashed, pilot>>

(* The driver is killed, its gateway is not.                               *)
Crash ==
    /\ pc # "down"
    /\ Goto("down")
    /\ sampler' = FALSE /\ own' = FALSE /\ crashed' = TRUE
    /\ UNCHANGED <<invocation, at, listening, stuck, results, summaries, files,
                   pilot>>

(* The kernel is rid of the killed gateway, sooner or later or not at all. *)
Buried ==
    /\ stuck
    /\ listening' = 0 /\ stuck' = FALSE
    /\ UNCHANGED <<invocation, pc, at, own, sampler, results, summaries, files,
                   crashed, pilot>>

Steps ==
    \/ Spawn \/ Wait \/ Begin \/ WarmUp \/ Record \/ Raise \/ Return
    \/ SamplerEnds \/ Aborted \/ Summarize \/ Complete \/ Close \/ Aggregate
    \/ Break \/ Fail

Next == Start \/ Crash \/ Buried \/ Steps

Spec == Init /\ [][Next]_vars

(* The driver goes on, as OpenLoop and GpuMonitor show for their parts.    *)
Fairness == WF_vars(Steps)

-----------------------------------------------------------------------------
(* Of the records rs those of the i-th invocation are s, in one piece.     *)
OneBlock(rs, s, i) ==
    \E before \in 0..Len(rs) :
        /\ before + Len(s) <= Len(rs)
        /\ \A k \in 1..Len(s) : s[k].by = i /\ rs[before + k] = s[k]
        /\ \A k \in 1..Len(rs) :
            k <= before \/ k > before + Len(s) => rs[k].by # i

(* A condition that is marked complete has the summary of the invocation   *)
(* that marked it: of all its records, which lie together in the file, and *)
(* of none that an earlier one left there.                                 *)
CompleteIsWhole ==
    \A c \in Conditions : manifest[c][1] = "complete" =>
        /\ Len(summary[c]) = Load
        /\ OneBlock(requests[c], summary[c], manifest[c][2])

(* The aggregate of the experiment is never a part of it, or of several    *)
(* invocations: one summary for each condition, in order, all by one.      *)
AggregateIsWhole ==
    LET rows == IF pilot THEN Waits ELSE 1
        of(w, r) == aggregate[(w - 1) * Rates + r]
    IN aggregate # <<>> =>
        /\ Len(aggregate) = rows * Rates
        /\ \E i \in 1..invocation : \A w \in 1..rows, r \in 1..Rates :
            /\ of(w, r)[1] = <<w, r>>
            /\ Len(of(w, r)[2]) = Load
            /\ \A j \in 1..Load : of(w, r)[2][j].by = i

(* What an interrupted and repeated experiment leaves is never a mixture.   *)
EvidenceIsWhole == CompleteIsWhole /\ AggregateIsWhole

(* Each condition was measured on a gateway with its own waiting window,   *)
(* unless an invocation had been killed and its gateway kept the port.     *)
MeasuredAsConfigured ==
    pilot /\ ~crashed =>
        \A c \in Conditions : \A k \in 1..Len(requests[c]) :
            requests[c][k].via = c[1]

(* An invocation that ends, whichever step raises, leaves no gateway       *)
(* behind but one that it has killed and seen not die, which answers       *)
(* nobody; and no sampler, and no sampler runs into the next condition:    *)
(* the pilot has seen it end even before it takes the gateway down.        *)
NothingLeft ==
    /\ pc = "down" /\ ~crashed => listening = 0 \/ stuck
    /\ sampler => pc \in {"traffic", "sampled",
                           IF pilot THEN "abort" ELSE "raised"}

(* No step that raises spoils the measurements after it.                   *)
CleanMeasurement == MeasuredAsConfigured /\ NothingLeft

(* An invocation comes to an end, whatever fails.                          *)
Ends == []<>(pc = "down")
=============================================================================
