----------------------------- MODULE GpuMonitor -----------------------------
(***************************************************************************)
(* The GPU sampler of bench/gpu_monitor.py in time: monitor_gpu, the task  *)
(* that runs nvidia-smi in a thread again and again until its duration is  *)
(* over or the driver sets its event, and sample_gpu, which answers when   *)
(* nvidia-smi is missing, hangs, fails or prints nonsense, unless Python   *)
(* cannot read it.                                                         *)
(*                                                                         *)
(* Time is in whole ticks.  Definitions ending in Bug are seeded faults,   *)
(* see Batcher.                                                            *)
(***************************************************************************)
EXTENDS Naturals, Sequences, FiniteSets, SequencesExt

(* Natural numbers, the first three positive.                              *)
CONSTANTS
    Duration,       \* duration_s, of the monitor
    Interval,       \* interval_s
    SampleTimeout,  \* timeout_s of one nvidia-smi
    MaxRows         \* bound: lines that nvidia-smi prints

VARIABLES
    now,      \* ticks since started
    phase,    \* "test", "sampling", "sleeping", "returned", "raised"
    since,    \* when the sample was begun, or until when the task sleeps
    stopAt,   \* when the event was set, or Never
    samples,  \* the list: "error", or "ok" for each GPU
    calls     \* for each call of sample_gpu, when, and how long the list was

vars == <<now, phase, since, stopAt, samples, calls>>

Never == Duration + SampleTimeout + 1
Stopped == stopAt # Never

Init ==
    /\ now = 0 /\ phase = "test" /\ since = 0 /\ stopAt = Never
    /\ samples = <<>> /\ calls = <<>>

-----------------------------------------------------------------------------
(* A line of output that can be read is empty, a GPU, or not what was      *)
(* asked for.                                                              *)
Outputs == BoundedSeq({"blank", "gpu", "bad"}, MaxRows)

Lines(rows, kind) == {k \in DOMAIN rows : rows[k] = kind}

(* No output, no samples.                                                  *)
ParsedBug(rows) ==
    IF Lines(rows, "bad") # {} THEN <<"error">>
    ELSE [k \in 1..Cardinality(Lines(rows, "gpu")) |-> "ok"]

(* parse_nvidia_smi_output, and the error record for what it raises: a bad *)
(* line spoils them all, and no GPU is an error as well.                   *)
Parsed(rows) ==
    LET gpus == Lines(rows, "gpu")
    IN IF Lines(rows, "bad") # {} \/ gpus = {} THEN <<"error">>
       ELSE [k \in 1..Cardinality(gpus) |-> "ok"]

(* sample_gpu: nvidia-smi printed its rows, or failed to start or exited   *)
(* with an error, or was killed for taking too long.                       *)
Sampled(late) ==
    {<<"error">>} \union (IF late THEN {} ELSE {Parsed(o) : o \in Outputs})

-----------------------------------------------------------------------------
(* After its time the task waits for the event.                            *)
LoopBug ==
    /\ phase = "test"
    /\ IF now < Duration
       THEN /\ phase' = "sampling" /\ since' = now
            /\ calls' = Append(calls, <<now, Len(samples)>>)
       ELSE Stopped /\ phase' = "returned" /\ UNCHANGED <<since, calls>>
    /\ UNCHANGED <<now, stopAt, samples>>

(* The test of the loop                                                    *)
Loop ==
    /\ phase = "test"
    /\ IF now < Duration
       THEN /\ phase' = "sampling" /\ since' = now
            /\ calls' = Append(calls, <<now, Len(samples)>>)
       ELSE phase' = "returned" /\ UNCHANGED <<since, calls>>
    /\ UNCHANGED <<now, stopAt, samples>>

Min2(a, b) == IF a <= b THEN a ELSE b

Rest == Duration - now

(* The event is forgotten.                                                 *)
AfterSampleBug ==
    IF now < Duration THEN
        phase' = "sleeping" /\ since' = now + Min2(Interval, Rest)
    ELSE phase' = "test" /\ UNCHANGED since

(* Only here the event is looked at; then the task sleeps, never beyond    *)
(* its duration.                                                           *)
AfterSample ==
    IF Stopped THEN phase' = "returned" /\ UNCHANGED since
    ELSE IF now < Duration THEN
        phase' = "sleeping" /\ since' = now + Min2(Interval, Rest)
    ELSE phase' = "test" /\ UNCHANGED since

SampleReturns ==
    /\ phase = "sampling"
    /\ \E new \in Sampled(now >= since + SampleTimeout) :
        samples' = samples \o new
    /\ AfterSample
    /\ UNCHANGED <<now, stopAt, calls>>

(* The output is no text, at which subprocess.run raises, or has a field   *)
(* that is too long for csv; neither exception is among those caught, and  *)
(* the task is over, its list gone.                                        *)
SampleRaises ==
    /\ phase = "sampling" /\ now < since + SampleTimeout
    /\ phase' = "raised"
    /\ UNCHANGED <<now, since, stopAt, samples, calls>>

Wake ==
    /\ phase = "sleeping" /\ now >= since
    /\ phase' = "test"
    /\ UNCHANGED <<now, since, stopAt, samples, calls>>

(* The driver sets the event when its traffic has ended.                   *)
SetStop ==
    /\ ~Stopped /\ phase \notin {"returned", "raised"}
    /\ stopAt' = now
    /\ UNCHANGED <<now, phase, since, samples, calls>>

(* nvidia-smi may run until it is killed.                                  *)
WithinTimeBug == phase # "test" /\ (phase = "sleeping" => now < since)

(* Time passes while the task sleeps, and while nvidia-smi runs, which is  *)
(* killed at its timeout.                                                  *)
WithinTime ==
    \/ phase = "sleeping" /\ now < since
    \/ phase = "sampling" /\ now < since + SampleTimeout

Tick ==
    /\ WithinTime
    /\ now' = now + 1
    /\ UNCHANGED <<phase, since, stopAt, samples, calls>>

Next == Loop \/ SampleReturns \/ SampleRaises \/ Wake \/ SetStop \/ Tick

Spec == Init /\ [][Next]_vars

(* The thread and the loop run; nothing makes the driver set the event.    *)
Running == Loop \/ Wake \/ SampleReturns \/ SampleRaises \/ Tick

Fairness == WF_vars(Running)

-----------------------------------------------------------------------------
(* The driver waits for the sampler before it goes on: after the event the *)
(* task returns within one interval and one timeout, and takes at most one *)
(* more sample, of a GPU that has no more traffic.                         *)
StopLatency ==
    Stopped =>
        /\ now <= stopAt + Interval + SampleTimeout
        /\ \A k \in 1..Len(calls) - 1 : calls[k][1] <= stopAt

(* The task outlasts its duration by no more than the sample it is in.     *)
DurationKept == now <= Duration + SampleTimeout

(* How many samples there were when a call had returned.                   *)
After(k) == IF k = Len(calls) THEN Len(samples) ELSE calls[k + 1][2]

(* sample_gpu: "Collect one sample, returning explicit error records on    *)
(* failure."  Every call of nvidia-smi leaves evidence, of its failure if  *)
(* of nothing else, but the one that raises and takes the list with it: so *)
(* a gap in the list that the driver gets is never a call that failed.  In *)
(* it there is at least one call, and no sample without one.               *)
EveryCallCounts ==
    /\ \A k \in 1..Len(calls) :
        \/ calls[k][2] < After(k)
        \/ k = Len(calls) /\ phase \in {"sampling", "raised"}
    /\ phase = "returned" => calls # <<>> /\ calls[1][2] = 0

(* The sampler keeps to its time, and its list to what happened.           *)
SamplerAccounted == StopLatency /\ DurationKept /\ EveryCallCounts

(* The sampler returns or raises, without any help of the driver.          *)
Returns == <>(phase \in {"returned", "raised"})
=============================================================================
