--------------------------- MODULE MCExperiments ---------------------------
(***************************************************************************)
(* The drivers of the experiments and the two things that they start:      *)
(* Measurement, and in time, which it leaves out, the traffic of OpenLoop  *)
(* and the sampler of GpuMonitor.  A behaviour is one of one of the three, *)
(* part; the others stay where they begin.                                 *)
(***************************************************************************)
EXTENDS Measurement, FiniteSets

CONSTANTS
    Requests, Target, PoolSizes, Timeout, MaxStall, Threshold, AllowedLate,
    Duration, Interval, SampleTimeout, MaxRows

ASSUME TrafficAssumption ==
    /\ IsFiniteSet(Requests)
    /\ Target \in [Requests -> Nat]
    /\ PoolSizes \subseteq Nat \ {0}
    /\ {Timeout, MaxStall, Threshold, AllowedLate} \subseteq Nat

ASSUME SamplerAssumption ==
    /\ {Duration, Interval, SampleTimeout} \subseteq Nat \ {0}
    /\ MaxRows \in Nat

VARIABLES
    part,
    now, pool, task, actual, sentAt, busy, file, verdict,
    elapsed, phase, since, stopAt, samples, calls

Traffic == INSTANCE OpenLoop
Sampler == INSTANCE GpuMonitor WITH now <- elapsed

sending == <<now, pool, task, actual, sentAt, busy, file, verdict>>
sampling == <<elapsed, phase, since, stopAt, samples, calls>>

MCvars == <<part, vars, sending, sampling>>

(* Two of the four requests are due at the same time.                      *)
MCTarget == [r \in Requests |-> CASE r = 1 -> 1 [] r = 4 -> 3 [] OTHER -> 2]

MCInit ==
    /\ part \in {"driver", "traffic", "sampler"}
    /\ Init /\ Traffic!Init /\ Sampler!Init
    /\ part # "driver" => pilot
    /\ part # "traffic" => pool = CHOOSE p \in PoolSizes : TRUE

Driving == part = "driver" /\ UNCHANGED <<part, sending, sampling>>
Sending == part = "traffic" /\ UNCHANGED <<part, vars, sampling>>
Sampling == part = "sampler" /\ UNCHANGED <<part, vars, sending>>

Terminating ==
    /\ \/ part = "driver" /\ pc = "down" /\ invocation = MaxRuns
       \/ part = "traffic" /\ verdict # "running"
       \/ part = "sampler" /\ phase \in {"returned", "raised"}
    /\ UNCHANGED MCvars

MCNext ==
    \/ Driving /\ Next
    \/ Sending /\ Traffic!Next
    \/ Sampling /\ Sampler!Next
    \/ Terminating

MCSpec ==
    /\ MCInit /\ [][MCNext]_MCvars
    /\ WF_MCvars(Driving /\ Steps)
    /\ WF_MCvars(Sending /\ Traffic!Loop) /\ WF_MCvars(Sending /\ Traffic!Tick)
    /\ WF_MCvars(Sampling /\ Sampler!Running)

-----------------------------------------------------------------------------
(* Every request leaves one record in requests.jsonl, answered or not: see *)
(* OpenLoop.                                                               *)
OneRecordEach == Traffic!OneRecordEach

(* Arrivals keep to the schedule and lateness is noticed: see OpenLoop.    *)
OpenLoopKept == Traffic!OpenLoopKept

(* The load does not fall with the server's speed: see OpenLoop.           *)
OfferedLoad == Traffic!OfferedLoad

(* The sampler keeps to its time and to what happened: see GpuMonitor.     *)
SamplerAccounted == Sampler!SamplerAccounted

(* What a driver starts comes to an end, and therefore its invocations do. *)
EverythingEnds ==
    /\ part = "driver" => Ends
    /\ part = "traffic" => Traffic!RunEnds
    /\ part = "sampler" => Sampler!Returns
=============================================================================
