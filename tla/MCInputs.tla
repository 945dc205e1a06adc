------------------------------ MODULE MCInputs ------------------------------
(***************************************************************************)
(* What an experiment is made from and what its gateway gets back: the     *)
(* configuration, the prompts, the schedule, and the choices of one answer *)
(* of vLLM.  The four share no state; a behaviour is one of one of them,   *)
(* part, and the variables of the others stay where they begin.            *)
(***************************************************************************)
EXTENDS VllmChoices

CONSTANTS
    SeedCounts, Lengths, Extra, BucketLists, PerBucket,
    Durations, Nums, Dens, Interval, LowGaps, HighGaps,
    Frozen, MaxEdits, Wholes, Halves, MaxItems, MaxBuckets,
    Missing, NotANumber, SeedTokens, MaxTokens, MaxTemperature

VARIABLES
    part,
    seeds, buckets, prompts, pc,
    kind, duration, num, den, index, start, local, gaps, offsets,
    config, edits

Prompts == INSTANCE PromptSet
Schedule == INSTANCE Arrivals
Settings == INSTANCE ExperimentConfig

ASSUME PromptsAssumption ==
    /\ PerBucket \in Nat \ {0} /\ Extra \in Nat
    /\ SeedCounts \subseteq Nat \ {0} /\ Lengths \subseteq Nat \ {0}
    /\ \A list \in BucketLists : list \in Seq([low : Nat, high : Nat])

ASSUME ScheduleAssumption ==
    /\ Durations \subseteq Nat \ {0} /\ Interval \in Nat \ {0}
    /\ Nums \subseteq Nat \ {0} /\ Dens \subseteq Nat \ {0}
    /\ LowGaps \subseteq Nat /\ HighGaps \subseteq Nat

ASSUME SettingsAssumption ==
    /\ Wholes \subseteq Int /\ Halves \subseteq Int
    /\ MaxItems \in Nat /\ MaxBuckets \in Nat
    /\ NotANumber \notin Int
    /\ SeedTokens \subseteq Nat \ {0} /\ Extra \in Nat
    /\ DOMAIN Frozen = DOMAIN Settings!Domain
    /\ \A field \in DOMAIN Frozen : Frozen[field] \in Settings!Domain[field]

prompting == <<seeds, buckets, prompts, pc>>
scheduling ==
    <<kind, duration, num, den, index, start, local, gaps, offsets>>
configuring == <<config, edits>>

MCvars == <<part, vars, prompting, scheduling, configuring>>

B(low, high) == [low |-> low, high |-> high]

(* Narrow, wide and, for some seeds, out of reach.                         *)
MCBuckets == {<<B(2, 4)>>, <<B(4, 4), B(5, 9)>>, <<B(3, 8), B(1, 3)>>,
              <<B(6, 8)>>}

(* Two seeds; a bucket from 4 to 4 is missed by copies of the longer one.  *)
MCWholes == {-1, 0, 1, 2, 4}
MCHalves == -1..3

(* A small version of the frozen configuration.                            *)
MCFrozen == [
    max_batch_size |-> 1, max_wait_ms |-> 1, adaptive_max_wait_ms |-> 1,
    cooldown_s |-> 1, duration_s |-> 1, warmup_requests |-> 1,
    harness_drift_threshold_ms |-> 1, harness_error_threshold |-> 1,
    repetition_seeds |-> <<1, 1>>, final_repetitions |-> <<1, 2>>,
    final_rates_rps |-> <<1>>, pilot_wait_windows_ms |-> Missing,
    final_modes |-> <<"direct", "fixed">>, target_endpoint |-> "adip",
    adip_gateway_mode |-> "batched", max_tokens |-> 1, temperature |-> 0,
    resume_existing |-> FALSE,
    prompt_buckets |-> <<[low |-> 2, high |-> 4, weight |-> 2]>>]

-----------------------------------------------------------------------------
NoResponse == n = 1 /\ choices = <<Choice(0, 0)>> /\ faults = <<>>

NoPrompts ==
    seeds = <<>> /\ buckets = <<>> /\ prompts = <<>> /\ pc = "building"

NoSchedule ==
    /\ kind = "poisson" /\ duration = 1 /\ num = 1 /\ den = 1
    /\ index = 0 /\ start = 0 /\ local = 0 /\ gaps = LowGaps /\ offsets = <<>>

MCInit ==
    /\ part \in {"choices", "prompts", "arrivals", "config"}
    /\ IF part = "choices" THEN Init ELSE NoResponse
    /\ IF part = "prompts" THEN Prompts!Init ELSE NoPrompts
    /\ IF part = "arrivals" THEN Schedule!Init ELSE NoSchedule
    /\ Settings!Init

Answering == UNCHANGED <<part, prompting, scheduling, configuring>>
Prompting == UNCHANGED <<part, vars, scheduling, configuring>>
Scheduling == UNCHANGED <<part, vars, prompting, configuring>>
Configuring == UNCHANGED <<part, vars, prompting, scheduling>>

(* A response need not go wrong any further, nor a configuration.          *)
Terminating == UNCHANGED MCvars

MCNext ==
    \/ part = "choices" /\ Next /\ Answering
    \/ part = "prompts" /\ Prompts!Next /\ Prompting
    \/ part = "arrivals" /\ Schedule!Next /\ Scheduling
    \/ part = "config" /\ Settings!Next /\ Configuring
    \/ Terminating

MCSpec == MCInit /\ [][MCNext]_MCvars

-----------------------------------------------------------------------------
(* Prompts keep to their buckets and differ: see PromptSet.                *)
PromptsFit == Prompts!PromptsFit

(* Schedules are exact, in order and of their rate: see Arrivals.          *)
ArrivalsExact == Schedule!ArrivalsExact

(* An accepted configuration runs through exactly if its author has seen   *)
(* to what the loader does not look at: see ExperimentConfig.              *)
AcceptedRuns == Settings!AcceptedRuns
=============================================================================
