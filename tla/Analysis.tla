------------------------------ MODULE Analysis ------------------------------
(***************************************************************************)
(* The analysis of a finished matrix: bench/analyze_final.py, from the run *)
(* directories beneath its input to means and paired effects.              *)
(*                                                                         *)
(* Of a run's summary one metric is kept, a whole number or null.  A mean  *)
(* is its two terms, sum and n; the width of an interval is left out, as   *)
(* it depends on the same values.  The statistics of the occupancy fit are *)
(* left out, and that it needs a run is not.  Definitions ending in Bug    *)
(* are seeded faults, see Batcher.                                         *)
(***************************************************************************)
EXTENDS Integers, FiniteSets, Functions

(* A manifest has the condition that its run id names (cell) and a fate:   *)
(* its status, whether its files are all there and its calls whole         *)
(* (OuterCalls), whether one of its calls was timed, and its metric.       *)
CONSTANTS
    Modes, Rates, Repetitions,
    Batching,     \* the modes that batch
    Comparisons,  \* pairs of a treatment and its baseline
    Disks,        \* what may lie beneath the input: sets of manifests
    None

ASSUME AnalysisAssumption ==
    /\ IsFiniteSet(Modes) /\ IsFiniteSet(Rates) /\ IsFiniteSet(Repetitions)
    /\ Comparisons \subseteq Modes \X Modes
    /\ \A d \in Disks :
        /\ IsFiniteSet(d)
        /\ \A m \in d : m.fate.metric \in Int \union {None}
    /\ None \notin Int

Cells == Modes \X Rates \X Repetitions

VARIABLES
    disk,      \* the manifests beneath the input directory
    unread,    \* those that the loop has not come to
    observed,  \* the conditions seen so far
    runs,      \* completed
    excluded,  \* conditions excluded
    pc,        \* "load", "write", "done", "failed"
    report     \* what was written, or None

vars == <<disk, unread, observed, runs, excluded, pc, report>>

Init ==
    /\ disk \in Disks
    /\ unread = disk
    /\ observed = {}
    /\ runs = {}
    /\ excluded = {}
    /\ pc = "load"
    /\ report = None

(* A condition that was seen before is not noticed.                        *)
DuplicateBug(m) == FALSE

Duplicate(m) == m.cell \in observed

(* The loop raises an exception.                                           *)
Refused(m) ==
    \/ Duplicate(m)
    \/ m.fate.status = "complete" /\ ~m.fate.whole
    \/ m.fate.status \notin {"complete", "invalid_harness"}

(* The paths are sorted; this is some fixed order.                         *)
NextManifest == CHOOSE m \in unread : TRUE

(* One iteration over the manifests.                                       *)
ReadManifest ==
    /\ pc = "load"
    /\ unread # {}
    /\ LET m == NextManifest IN
        /\ unread' = unread \ {m}
        /\ IF Refused(m)
           THEN pc' = "failed" /\ UNCHANGED <<observed, runs, excluded>>
           ELSE /\ observed' = observed \cup {m.cell}
                /\ IF m.fate.status = "complete"
                   THEN runs' = runs \cup {m} /\ UNCHANGED excluded
                   ELSE excluded' = excluded \cup {m.cell} /\ UNCHANGED runs
                /\ UNCHANGED pc
    /\ UNCHANGED <<disk, report>>

(* Only missing conditions are looked for.                                 *)
CompleteBug == Cells \subseteq observed

Complete == observed = Cells

CheckMatrix ==
    /\ pc = "load"
    /\ unread = {}
    /\ pc' = IF Complete THEN "write" ELSE "failed"
    /\ UNCHANGED <<disk, unread, observed, runs, excluded, report>>

-----------------------------------------------------------------------------
(* mean_ci95 of the values that are there.                                 *)
Stat(values) ==
    [n |-> Cardinality(DOMAIN values), sum |-> SumFunction(values)]

Measured(R) == {r \in R : r.fate.metric # None}

(* Runs are grouped by mode alone.                                         *)
RowBug(mode, rate) ==
    LET group == {r \in runs : r.cell[1] = mode}
    IN Stat([r \in Measured(group) |-> r.fate.metric])

(* aggregate_runs                                                          *)
Row(mode, rate) ==
    LET group == {r \in runs : r.cell[1] = mode /\ r.cell[2] = rate}
    IN Stat([r \in Measured(group) |-> r.fate.metric])

RunOf(mode, rate, repetition) ==
    {r \in Measured(runs) : r.cell = <<mode, rate, repetition>>}

(* Any two repetitions of the two modes.                                   *)
PairsBug(treatment, baseline, rate) ==
    UNION {RunOf(treatment, rate, i) \X RunOf(baseline, rate, j) :
               i, j \in Repetitions}

Pairs(treatment, baseline, rate) ==
    UNION {RunOf(treatment, rate, i) \X RunOf(baseline, rate, i) :
               i \in Repetitions}

(* paired_effects: the absolute differences, and the number of relative    *)
(* ones, which have a baseline other than zero.                            *)
Effect(treatment, baseline, rate) ==
    LET pairs == Pairs(treatment, baseline, rate)
    IN [absolute |->
            Stat([p \in pairs |-> p[1].fate.metric - p[2].fate.metric]),
        relative |-> Cardinality({p \in pairs : p[2].fate.metric # 0})]

(* occupancy_fit_summary has something to summarize.                       *)
Fits == \E r \in runs : r.cell[1] \in Batching /\ r.fate.timed

Write ==
    /\ pc = "write"
    /\ IF Fits
       THEN /\ report' =
                [rows |-> [x \in Modes \X Rates |-> Row(x[1], x[2])],
                 effects |-> [x \in Comparisons \X Rates |->
                                Effect(x[1][1], x[1][2], x[2])]]
            /\ pc' = "done"
       ELSE pc' = "failed" /\ UNCHANGED report
    /\ UNCHANGED <<disk, unread, observed, runs, excluded>>

Next == ReadManifest \/ CheckMatrix \/ Write

Spec == Init /\ [][Next]_vars

-----------------------------------------------------------------------------
Written == pc = "done"

(* The report is written exactly for a whole matrix: of every condition,   *)
(* and of nothing else, one terminal manifest, the complete ones with all  *)
(* their evidence, and one timed batching run among them.                  *)
WholeMatrixOnly ==
    LET OneEach == \A c \in Cells :
            Cardinality({m \in disk : m.cell = c}) = 1
        Known == \A m \in disk :
            /\ m.cell \in Cells
            /\ \/ m.fate.status = "invalid_harness"
               \/ m.fate.status = "complete" /\ m.fate.whole
        Fitted == \E m \in disk :
            /\ m.fate.status = "complete" /\ m.fate.timed
            /\ m.cell[1] \in Batching
    IN pc \in {"done", "failed"} =>
        (Written <=> OneEach /\ Known /\ Fitted)

(* Every completed run with a value weighs once, in one row, and no        *)
(* excluded one does.                                                      *)
RunsWeighOnce ==
    Written =>
        LET good == Measured({m \in disk : m.fate.status = "complete"})
        IN /\ SumFunction([x \in Modes \X Rates |-> report.rows[x].n])
                = Cardinality(good)
           /\ SumFunction([x \in Modes \X Rates |-> report.rows[x].sum])
                = SumFunction([m \in good |-> m.fate.metric])
           /\ excluded = {m.cell : m \in disk} \ {m.cell : m \in runs}

(* An effect is the difference of the rows it compares, when both rows     *)
(* have the same repetitions; it never has more pairs than either row has  *)
(* runs, and loses a pair only to a repetition that one of them lacks.     *)
EffectsArePaired ==
    Written =>
        \A c \in Comparisons, q \in Rates :
            LET t == report.rows[<<c[1], q>>]
                b == report.rows[<<c[2], q>>]
                e == report.effects[<<c, q>>]
                Has(mode) == {i \in Repetitions : RunOf(mode, q, i) # {}}
            IN /\ e.absolute.n = Cardinality(Has(c[1]) \cap Has(c[2]))
               /\ e.relative <= e.absolute.n
               /\ Has(c[1]) = Has(c[2]) =>
                    e.absolute.sum = t.sum - b.sum

(* What is written weighs and compares like with like.                     *)
FairResults == RunsWeighOnce /\ EffectsArePaired
=============================================================================
