-------------------------- MODULE ExperimentConfig --------------------------
(***************************************************************************)
(* What bench/config.py lets through, against what the code that uses a    *)
(* configuration insists on: run_final of bench/final.py with its runs and *)
(* their directories, the prompts, the settings of the gateway that it     *)
(* starts, and the requests that this gateway takes.  An experiment that   *)
(* passes the first can fail on the second, hours into a matrix; the       *)
(* module says where.                                                      *)
(*                                                                         *)
(* A number is reduced to what the checks tell apart; a half stands for a  *)
(* proper fraction, in halves.  Definitions ending in Bug are seeded       *)
(* faults, see Batcher.                                                    *)
(***************************************************************************)
EXTENDS Integers, Sequences, SequencesExt

CONSTANTS
    Frozen,      \* a configuration that is right
    MaxEdits,    \* bound: how many of its values are changed
    Wholes,      \* the integers that a field is given
    Halves,      \* a proper fraction, in halves, and its neighbours
    MaxItems,    \* bound: items of a list,
    MaxBuckets,  \* and buckets
    Missing,     \* of an optional value
    NotANumber,  \* a string, a boolean, an infinity
    SeedTokens,  \* for each seed, the tokens that one copy of it adds
    Extra,       \* tokens of a prompt besides
    MaxTokens,       \* the limits of the gateway for a request, on max_tokens
    MaxTemperature   \* and on temperature

Numbers == Wholes \union {NotANumber}
Lists == BoundedSeq(Numbers, MaxItems)

(* The values that the fields of a configuration are given.                *)
Domain == [
    max_batch_size |-> Numbers, max_wait_ms |-> Numbers,
    adaptive_max_wait_ms |-> Numbers \union {Missing},
    cooldown_s |-> Numbers, duration_s |-> Numbers,
    warmup_requests |-> Numbers,
    max_tokens |-> Numbers, temperature |-> Numbers,
    resume_existing |-> BOOLEAN,
    harness_drift_threshold_ms |-> Numbers \union {Missing},
    harness_error_threshold |-> Halves \union {Missing},
    repetition_seeds |-> Lists, final_repetitions |-> Lists \union {Missing},
    final_rates_rps |-> Lists \union {Missing},
    pilot_wait_windows_ms |-> Lists \union {Missing},
    final_modes |-> BoundedSeq({"direct", "fixed", "fxed"}, MaxItems)
                        \union {Missing},
    target_endpoint |-> {"direct", "adip", "other"},
    adip_gateway_mode |-> {"pass_through", "batched", "other"},
    prompt_buckets |-> BoundedSeq([low : Numbers, high : Numbers,
                                   weight : Halves], MaxBuckets)]

VARIABLES config, edits

vars == <<config, edits>>

Init == config = Frozen /\ edits = 0

Edit ==
    /\ edits < MaxEdits
    /\ \E field \in DOMAIN Domain : \E value \in Domain[field] :
        config' = [config EXCEPT ![field] = value]
    /\ edits' = edits + 1

Next == Edit

Spec == Init /\ [][Next]_vars

-----------------------------------------------------------------------------
(* The validation                                                          *)

Positive(x) == x # NotANumber /\ x > 0
NonNegative(x) == x # NotANumber /\ x >= 0

OrMissing(Ok(_), x) == x = Missing \/ Ok(x)

AllOf(Ok(_), list) == list # <<>> /\ \A x \in ToSet(list) : Ok(x)

(* _positive_int_tuple, which lets zero pass.                              *)
Seeds(list) == AllOf(NonNegative, list)
Positives(list) == AllOf(Positive, list)

BucketAccepted(b) ==
    Positive(b.low) /\ Positive(b.high) /\ b.low <= b.high /\ b.weight > 0

(* Of the weights, sum in halves to one.                                   *)
BucketsAccepted(buckets) ==
    /\ AllOf(BucketAccepted, buckets)
    /\ FoldSeq(LAMBDA b, sum : b.weight + sum, 0, buckets) = 2

ModesAccepted(modes) ==
    modes # <<>> /\ ToSet(modes) \subseteq {"direct", "pass_through", "fixed",
                                            "adaptive"}

(* Repetitions are numbered on, whatever seeds there are.                  *)
RepetitionsAcceptedBug(c) == OrMissing(Positives, c.final_repetitions)

RepetitionsAccepted(c) ==
    /\ OrMissing(Positives, c.final_repetitions)
    /\ c.final_repetitions # Missing =>
        Len(c.final_repetitions) <= Len(c.repetition_seeds)

ThresholdAccepted(x) == 0 <= x /\ x <= 2

(* load_experiment_config                                                  *)
Accepted(c) ==
    /\ c.target_endpoint \in {"direct", "adip"}
    /\ c.adip_gateway_mode \in {"pass_through", "batched"}
    /\ c.target_endpoint = "direct" => c.adip_gateway_mode = "pass_through"
    /\ Positive(c.max_batch_size) /\ NonNegative(c.max_wait_ms)
    /\ OrMissing(Positive, c.adaptive_max_wait_ms)
    /\ NonNegative(c.cooldown_s) /\ Seeds(c.repetition_seeds)
    /\ OrMissing(ModesAccepted, c.final_modes)
    /\ OrMissing(Positives, c.final_rates_rps)
    /\ OrMissing(Positives, c.pilot_wait_windows_ms)
    /\ RepetitionsAccepted(c)
    /\ OrMissing(NonNegative, c.harness_drift_threshold_ms)
    /\ OrMissing(ThresholdAccepted, c.harness_error_threshold)
    /\ Positive(c.duration_s) /\ NonNegative(c.warmup_requests)
    /\ Positive(c.max_tokens) /\ NonNegative(c.temperature)
    /\ BucketsAccepted(c.prompt_buckets)

OrDefault(x, default) == IF x = Missing THEN default ELSE x

-----------------------------------------------------------------------------
(* The users                                                               *)

(* Settings of gateway/config.py, from the environment that _start_gateway *)
(* sets: batch_max_size and batch_max_wait_ms.                             *)
GatewayStarts(c) ==
    /\ Positive(c.max_batch_size)
    /\ NonNegative(c.max_wait_ms)
    /\ NonNegative(OrDefault(c.adaptive_max_wait_ms, 20))
    /\ c.pilot_wait_windows_ms # Missing =>
        \A w \in ToSet(c.pilot_wait_windows_ms) : NonNegative(w)

(* constant_arrivals, run_open_loop, monitor_gpu and summarize_records     *)
RunStarts(c) ==
    /\ c.final_rates_rps # Missing =>
        \A rate \in ToSet(c.final_rates_rps) : Positive(rate)
    /\ Positive(c.duration_s)
    /\ NonNegative(OrDefault(c.harness_drift_threshold_ms, 10))
    /\ OrDefault(c.harness_error_threshold, 0) \in 0..2

(* build_prompt_set: whichever seed the shuffle brings to a bucket, some   *)
(* copy of the loop of _fit_seed_to_bucket lands in it.                    *)
PromptsExist(c) ==
    /\ c.prompt_buckets # <<>>
    /\ \A b \in ToSet(c.prompt_buckets), length \in SeedTokens :
        \E copies \in 1..b.high : Extra + copies * length \in b.low..b.high

AsksGateway(c) ==
    c.final_modes # Missing /\ ToSet(c.final_modes) # {"direct"}

(* InferenceRequest, which answers anything else with 422, at which the    *)
(* first request of the warm-up raises.                                    *)
RequestsTaken(c) ==
    AsksGateway(c) =>
        /\ Positive(c.max_tokens) /\ c.max_tokens <= MaxTokens
        /\ NonNegative(c.temperature) /\ c.temperature <= MaxTemperature

(* The turns of the three loops of run_final, and the directory of each.   *)
Turns(c) ==
    (DOMAIN c.final_modes) \X (DOMAIN c.final_repetitions)
        \X (DOMAIN c.final_rates_rps)

RunId(c, turn) ==
    <<c.final_modes[turn[1]], c.final_repetitions[turn[2]],
      c.final_rates_rps[turn[3]]>>

(* run_final in an empty output directory: it asks for the three lists,    *)
(* has a seed for each repetition, knows each mode (an unknown one would   *)
(* run and be recorded as what it is not), and raises when it comes to a   *)
(* directory that is there already, unless it may resume.                  *)
MatrixRuns(c) ==
    /\ c.final_modes # Missing
    /\ c.final_repetitions # Missing /\ c.final_rates_rps # Missing
    /\ DOMAIN c.final_repetitions \subseteq DOMAIN c.repetition_seeds
    /\ ToSet(c.final_modes) \subseteq {"direct", "pass_through", "fixed",
                                       "adaptive"}
    /\ ~c.resume_existing =>
        \A j, k \in Turns(c) : RunId(c, j) = RunId(c, k) => j = k

RunsThrough(c) ==
    /\ GatewayStarts(c) /\ RunStarts(c) /\ PromptsExist(c)
    /\ RequestsTaken(c) /\ MatrixRuns(c)

-----------------------------------------------------------------------------
(* What the loader does not look at, in terms of the single values: the    *)
(* three lists may be missing, or repeat themselves; the requests may be   *)
(* too much for the gateway; and the length of no number of copies of a    *)
(* seed need lie in a bucket.                                              *)
LeftToAuthor(c) ==
    /\ c.final_modes # Missing
    /\ c.final_repetitions # Missing /\ c.final_rates_rps # Missing
    /\ c.resume_existing \/
        /\ IsInjective(c.final_modes) /\ IsInjective(c.final_repetitions)
        /\ IsInjective(c.final_rates_rps)
    /\ ToSet(c.final_modes) # {"direct"} =>
        c.max_tokens <= MaxTokens /\ c.temperature <= MaxTemperature
    /\ \A b \in ToSet(c.prompt_buckets), length \in SeedTokens :
        \E tokens \in b.low..b.high :
            tokens > Extra /\ (tokens - Extra) % length = 0

(* An accepted configuration runs through if and only if it is right in    *)
(* what the loader leaves to its author.  So that list is complete for the *)
(* fields above: no other value of theirs that the loader accepts makes    *)
(* the gateway raise, at its start or for a request, nor the prompts, a    *)
(* run, or the matrix in its middle; and each entry of it is needed.  What *)
(* vLLM or the file system refuses is not among it.                        *)
AcceptedRuns ==
    Accepted(config) => (RunsThrough(config) <=> LeftToAuthor(config))
=============================================================================
