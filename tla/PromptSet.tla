----------------------------- MODULE PromptSet -----------------------------
(***************************************************************************)
(* The prompts of an experiment: build_prompt_set of bench/prompts.py,     *)
(* which repeats short texts, the seeds, until each fits the token range   *)
(* of its bucket.                                                          *)
(*                                                                         *)
(* Definitions ending in Bug are seeded faults, see Batcher.               *)
(***************************************************************************)
EXTENDS Naturals, Sequences, FiniteSets, SequencesExt

(* Natural numbers, all but Extra and the bounds of a bucket positive.      *)
CONSTANTS
    SeedCounts,  \* how many seeds prompt_seeds.jsonl may have
    Lengths,     \* tokens that one copy of a seed adds
    Extra,       \* tokens of a prompt besides, the tokenizer's own
    BucketLists, \* the bucket lists of a workload: low and high
    PerBucket    \* prompts_per_bucket

VARIABLES
    seeds,    \* the shuffled seeds, by their length
    buckets,  \* the buckets of the workload
    prompts,  \* what build_prompt_set has
    pc        \* "building", "failed", "built"

vars == <<seeds, buckets, prompts, pc>>

Init ==
    /\ \E count \in SeedCounts : seeds \in [1..count -> Lengths]
    /\ buckets \in BucketLists
    /\ prompts = <<>> /\ pc = "building"

-----------------------------------------------------------------------------
(* The loops over buckets and prompt_index stand at the next prompt.       *)
BucketIndex == (Len(prompts) \div PerBucket) + 1
PromptIndex == Len(prompts) % PerBucket
Bucket == buckets[BucketIndex]

(* One seed for each bucket.                                               *)
SeedBug == (BucketIndex % Len(seeds)) + 1

(* len(prompts) counts the prompts of this bucket already, so that with    *)
(* prompt_index the seeds are taken two apart.                             *)
Seed == ((Len(prompts) + PromptIndex) % Len(seeds)) + 1

Tokens(seed, copies) == Extra + copies * seeds[seed]

(* One copy for each token of the range, none for what lies below it.      *)
TriesBug(bucket) == 1..(1 + bucket.high - bucket.low)

Tries(bucket) == 1..bucket.high

(* A candidate that has become too long is taken as well.                  *)
FitsBug(seed, copies, bucket) == bucket.low <= Tokens(seed, copies)

Fits(seed, copies, bucket) ==
    bucket.low <= Tokens(seed, copies) /\ Tokens(seed, copies) <= bucket.high

(* _fit_seed_to_bucket: one more copy each time, and no more than fit.     *)
Fitting(seed, bucket) ==
    {c \in Tries(bucket) :
        Fits(seed, c, bucket) /\ \A d \in 1..(c - 1) : ~Fits(seed, d, bucket)}

AddPrompt ==
    /\ pc = "building" /\ Len(prompts) < PerBucket * Len(buckets)
    /\ \E c \in Fitting(Seed, Bucket) :
        prompts' = Append(prompts, [seed |-> Seed, bucket |-> BucketIndex,
                                    tokens |-> Tokens(Seed, c)])
    /\ UNCHANGED <<seeds, buckets, pc>>

(* PromptGenerationError                                                   *)
CannotFit ==
    /\ pc = "building" /\ Len(prompts) < PerBucket * Len(buckets)
    /\ Fitting(Seed, Bucket) = {}
    /\ pc' = "failed"
    /\ UNCHANGED <<seeds, buckets, prompts>>

Return ==
    /\ pc = "building" /\ Len(prompts) = PerBucket * Len(buckets)
    /\ pc' = "built"
    /\ UNCHANGED <<seeds, buckets, prompts>>

Next == AddPrompt \/ CannotFit \/ Return

Spec == Init /\ [][Next]_vars

-----------------------------------------------------------------------------
(* What the comparison of conditions rests on: every prompt is in the      *)
(* token range of its bucket, and each bucket has its number of prompts.   *)
(* It is what validate_prompt_counts would find out.                       *)
WithinBuckets ==
    /\ \A p \in ToSet(prompts) :
        buckets[p.bucket].low <= p.tokens /\ p.tokens <= buckets[p.bucket].high
    /\ pc = "built" => \A b \in 1..Len(buckets) :
        Cardinality({k \in 1..Len(prompts) : prompts[k].bucket = b})
            = PerBucket

(* An experiment is refused for its prompts only if the seed at hand fits  *)
(* the bucket with no number of copies at all.                             *)
RefusedOnlyIfUnfit ==
    pc = "failed" =>
        \A copies \in 1..(2 * Bucket.high) : ~Fits(Seed, copies, Bucket)

(* The prompts of one bucket differ, so that the server cannot reuse one   *)
(* for another.  This takes seeds: as many as there are prompts if their   *)
(* number is odd, and twice as many if it is even.  The repository has     *)
(* four seeds for four prompts, and uses two of them.                      *)
SeedsVary ==
    Len(seeds) >= (IF Len(seeds) % 2 = 1 THEN 1 ELSE 2) * PerBucket =>
        \A j, k \in 1..Len(prompts) :
            j # k /\ prompts[j].bucket = prompts[k].bucket =>
                prompts[j].seed # prompts[k].seed

(* Conditions are compared on the prompts they were meant to have.         *)
PromptsFit == WithinBuckets /\ RefusedOnlyIfUnfit /\ SeedsVary
=============================================================================
