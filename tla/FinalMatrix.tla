---------------------------- MODULE FinalMatrix ----------------------------
(***************************************************************************)
(* The measurement matrix of the benchmark harness: bench/final.py with    *)
(* the gateway processes of bench/pilot.py.                                *)
(*                                                                         *)
(* One invocation of run_final goes through the modes; for each it starts  *)
(* a gateway process, waits until port 8000 answers and measures every     *)
(* condition (a rate and a repetition) into a directory of its own.  It    *)
(* may fail or be killed between any two steps, and is then run again over *)
(* what it left on disk and on the machine.                                *)
(*                                                                         *)
(* A gateway is identified by the invocation that started it and its mode. *)
(* A request is recorded with the gateway it was sent to, whether it was   *)
(* answered or failed; vLLM stands in for a gateway in mode "direct".      *)
(***************************************************************************)
EXTENDS Naturals, Sequences, FiniteSets, SequencesExt

CONSTANTS
    Modes,           \* final_modes, in the order of the config
    Conditions,      \* how many pairs of a rate and a repetition there are
    Planned,         \* the requests of one condition's arrival schedule
    ResumeExisting,  \* resume_existing
    MaxRuns,         \* how often the harness is invoked at most
    None             \* nothing there

ModeNames == {"direct", "pass_through", "fixed", "adaptive"}

ASSUME ModesAssumption == Modes \in Seq(ModeNames) /\ IsInjective(Modes)
ASSUME ConditionsAssumption == Conditions \in Nat \ {0}
ASSUME ResumeAssumption == ResumeExisting \in BOOLEAN
ASSUME PlannedAssumption == IsFiniteSet(Planned)
ASSUME MaxRunsAssumption == MaxRuns \in Nat

Cells == Range(Modes) \X (1..Conditions)
Gateways == (1..MaxRuns) \X Range(Modes)
Statuses == {"started", "complete", "invalid_harness"}

(* The records of requests.jsonl, and the evidence that a finished         *)
(* condition consists of.                                                  *)
Entries == [run : 1..MaxRuns, request : Planned, target : Gateways \cup {None}]
Outcomes ==
    [status : {"complete", "invalid_harness"}, records : SUBSET Entries]

ASSUME NoneAssumption ==
    None \notin Gateways /\ None \notin Statuses /\ None \notin Outcomes

VARIABLES
    manifest,     \* the status in manifest.json, or None
    dirs,         \* the run directories that exist
    records,      \* requests.jsonl: invocation, request and gateway
    summary,      \* summary.json: the invocation it was made from, or None
    aggregate,    \* the summaries file of the whole matrix, or None
    starting,     \* gateway processes that have not opened the port yet
    port,         \* the gateway process that serves port 8000, or None
    pc,           \* where run_final is
    run,          \* the number of the invocation
    mode,         \* index of the loop over final_modes
    cond,         \* index of the two inner loops, taken together
    own,          \* the gateway process that this mode started, or None
    outstanding,  \* requests whose tasks have not appended their record
    summaries,    \* the list that run_final returns
    ending        \* how the invocation ended, "open" until it does

disk == <<manifest, dirs, records, summary, aggregate>>
machine == <<starting, port>>
loop == <<run, mode, cond>>
vars == <<disk, machine, pc, loop, own, outstanding, summaries, ending>>

Cell == <<Modes[mode], cond>>

Alive == starting \cup ({port} \ {None})

Init ==
    /\ manifest = [c \in Cells |-> None]
    /\ dirs = {}
    /\ records = [c \in Cells |-> {}]
    /\ summary = [c \in Cells |-> None]
    /\ aggregate = None
    /\ starting = {}
    /\ port = None
    /\ pc = "off"
    /\ run = 0
    /\ mode = 1
    /\ cond = 1
    /\ own = None
    /\ outstanding = {}
    /\ summaries = <<>>
    /\ ending = "open"

-----------------------------------------------------------------------------
(* run_final                                                               *)

Launch ==
    /\ pc = "off"
    /\ run < MaxRuns
    /\ run' = run + 1
    /\ mode' = 1
    /\ cond' = 1
    /\ summaries' = <<>>
    /\ ending' = "open"
    /\ pc' = "mode"
    /\ UNCHANGED <<disk, machine, own, outstanding>>

(* The next mode: _start_gateway unless vLLM is measured directly.         *)
EnterMode ==
    /\ pc = "mode"
    /\ mode <= Len(Modes)
    /\ cond' = 1
    /\ IF Modes[mode] = "direct"
       THEN /\ own' = None
            /\ starting' = starting
            /\ pc' = "look"
       ELSE /\ own' = <<run, Modes[mode]>>
            /\ starting' = starting \cup {<<run, Modes[mode]>>}
            /\ pc' = "health"
    /\ UNCHANGED <<disk, port, run, mode, outstanding, summaries, ending>>

(* _wait_for_gateway: somebody answers at the port.  The process was alive *)
(* when it was polled, which was before the answer.                        *)
HealthOk ==
    /\ pc = "health"
    /\ port # None
    /\ pc' = "look"
    /\ UNCHANGED <<disk, machine, loop, own, outstanding, summaries, ending>>

Abandon ==
    /\ own' = None
    /\ outstanding' = {}
    /\ ending' = "abandoned"
    /\ pc' = "off"
    /\ UNCHANGED <<disk, machine, loop, summaries>>

(* Waits without a deadline.                                               *)
HealthFailsBug == pc = "health" /\ own \notin Alive /\ Abandon

(* The process has exited, or a minute has passed, or the wait was         *)
(* interrupted.  The try statement has not been entered yet: nobody stops  *)
(* the gateway.                                                            *)
HealthFails == pc = "health" /\ Abandon

NoneLeft == cond > Conditions

(* The loops of this mode are done: on to the finally clause.              *)
ModeDone ==
    /\ pc = "look"
    /\ NoneLeft
    /\ pc' = "unwind"
    /\ UNCHANGED <<disk, machine, loop, own, outstanding, summaries, ending>>

Final(status) == status \in {"complete", "invalid_harness"}

(* Measures again into the directory of whatever is not complete.          *)
FreshBug(c) == manifest[c] # "complete"

Fresh(c) == c \notin dirs

(* _load_existing_summary accepts what a complete or invalid manifest      *)
(* stands for, ...                                                         *)
Reusable(c) ==
    /\ ~Fresh(c)
    /\ ResumeExisting
    /\ \/ manifest[c] = "complete" /\ summary[c] # None
       \/ manifest[c] = "invalid_harness"

Entry(c) ==
    [cell |-> c,
     from |-> IF manifest[c] = "complete" THEN summary[c] ELSE None]

(* Goes on to the next condition without the summary.                      *)
ReuseBug ==
    /\ pc = "look"
    /\ ~NoneLeft
    /\ Reusable(Cell)
    /\ cond' = cond + 1
    /\ UNCHANGED <<disk, machine, pc, run, mode, own, outstanding, summaries,
                   ending>>

Reuse ==
    /\ pc = "look"
    /\ ~NoneLeft
    /\ Reusable(Cell)
    /\ summaries' = Append(summaries, Entry(Cell))
    /\ cond' = cond + 1
    /\ UNCHANGED <<disk, machine, pc, run, mode, own, outstanding, ending>>

(* ... and raises ConfigError for any other directory.                     *)
RefuseExisting ==
    /\ pc = "look"
    /\ ~NoneLeft
    /\ ~Fresh(Cell)
    /\ ~Reusable(Cell)
    /\ ending' = "refused"
    /\ pc' = "unwind"
    /\ UNCHANGED <<disk, machine, loop, own, outstanding, summaries>>

(* _run_condition: the directory, the manifest, the warmup requests.       *)
CreateDir ==
    /\ pc = "look"
    /\ ~NoneLeft
    /\ Fresh(Cell)
    /\ dirs' = dirs \cup {Cell}
    /\ pc' = "manifest"
    /\ UNCHANGED <<manifest, records, summary, aggregate, machine, loop, own,
                   outstanding, summaries, ending>>

WriteStarted ==
    /\ pc = "manifest"
    /\ manifest' = [manifest EXCEPT ![Cell] = "started"]
    /\ pc' = "warmup"
    /\ UNCHANGED <<dirs, records, summary, aggregate, machine, loop, own,
                   outstanding, summaries, ending>>

(* run_open_loop: one task per planned request.                            *)
StartTrace ==
    /\ pc = "warmup"
    /\ outstanding' = Planned
    /\ pc' = "trace"
    /\ UNCHANGED <<disk, machine, loop, own, summaries, ending>>

Target == IF Modes[mode] = "direct" THEN <<run, "direct">> ELSE port

(* A task appends its record.  Tasks that gather left running when it      *)
(* raised go on until the event loop is closed.                            *)
Record(i) ==
    /\ pc \in {"trace", "unwind"}
    /\ i \in outstanding
    /\ records' = [records EXCEPT ![Cell] =
           @ \cup {[run |-> run, request |-> i, target |-> Target]}]
    /\ outstanding' = outstanding \ {i}
    /\ UNCHANGED <<manifest, dirs, summary, aggregate, machine, pc, loop, own,
                   summaries, ending>>

TraceDone == pc = "trace" /\ outstanding = {}

(* The requests kept to the schedule: summarize what was measured.         *)
WriteSummary ==
    /\ TraceDone
    /\ summary' = [summary EXCEPT ![Cell] = run]
    /\ pc' = "complete"
    /\ UNCHANGED <<manifest, dirs, records, aggregate, machine, loop, own,
                   outstanding, summaries, ending>>

(* HarnessOverloadError: too many of them were late.                       *)
Overload ==
    /\ TraceDone
    /\ pc' = "mark"
    /\ UNCHANGED <<disk, machine, loop, own, outstanding, summaries, ending>>

WriteFinal(status) ==
    /\ manifest' = [manifest EXCEPT ![Cell] = status]
    /\ summaries' = Append(summaries,
           [cell |-> Cell,
            from |-> IF status = "complete" THEN run ELSE None])
    /\ cond' = cond + 1
    /\ pc' = "look"
    /\ UNCHANGED <<dirs, records, summary, aggregate, machine, run, mode, own,
                   outstanding, ending>>

WriteComplete == pc = "complete" /\ WriteFinal("complete")

(* _mark_invalid_harness, and the summary that says so.                    *)
MarkInvalid == pc = "mark" /\ WriteFinal("invalid_harness")

(* Any other exception, or an interrupt, inside the try statement.         *)
Fail ==
    /\ pc \in {"look", "manifest", "warmup", "trace", "complete", "mark"}
    /\ ending' = "failed"
    /\ pc' = "unwind"
    /\ UNCHANGED <<disk, machine, loop, own, outstanding, summaries>>

(* Leaves the process of this mode running.                                *)
StopOwnBug == UNCHANGED machine

StopOwn ==
    /\ starting' = starting \ {own}
    /\ port' = IF port = own THEN None ELSE port

(* The finally clause: _stop_gateway.  An exception then ends the          *)
(* invocation, and with it the tasks that are left.                        *)
Unwind ==
    /\ pc = "unwind"
    /\ StopOwn
    /\ own' = None
    /\ outstanding' = {}
    /\ IF ending = "open"
       THEN mode' = mode + 1 /\ pc' = "mode"
       ELSE mode' = mode /\ pc' = "off"
    /\ UNCHANGED <<disk, run, cond, summaries, ending>>

(* aclose, the first statement of the finally clause, is interrupted: the  *)
(* second one is not reached.                                              *)
CloseFails == pc = "unwind" /\ own # None /\ Abandon

WriteAggregate ==
    /\ pc = "mode"
    /\ mode > Len(Modes)
    /\ aggregate' = summaries
    /\ ending' = "done"
    /\ pc' = "off"
    /\ UNCHANGED <<manifest, dirs, records, summary, machine, loop, own,
                   outstanding, summaries>>

-----------------------------------------------------------------------------
(* The machine and its operator                                            *)

(* uvicorn opens the port, ...                                             *)
Bind(g) ==
    /\ g \in starting
    /\ port = None
    /\ port' = g
    /\ starting' = starting \ {g}
    /\ UNCHANGED <<disk, pc, loop, own, outstanding, summaries, ending>>

(* ... or exits, because the port is taken or for a reason of its own.     *)
Exit(g) ==
    /\ g \in Alive
    /\ starting' = starting \ {g}
    /\ port' = IF port = g THEN None ELSE port
    /\ UNCHANGED <<disk, pc, loop, own, outstanding, summaries, ending>>

(* The harness is killed; its child processes live on, or exit too.        *)
Kill ==
    /\ pc # "off"
    /\ own' = None
    /\ outstanding' = {}
    /\ ending' = "killed"
    /\ pc' = "off"
    /\ UNCHANGED <<disk, machine, loop, summaries>>

(* "archive it before resuming": the operator moves an incomplete run      *)
(* directory away.                                                         *)
Archive(c) ==
    /\ pc = "off"
    /\ c \in dirs
    /\ ~Final(manifest[c])
    /\ dirs' = dirs \ {c}
    /\ manifest' = [manifest EXCEPT ![c] = None]
    /\ records' = [records EXCEPT ![c] = {}]
    /\ summary' = [summary EXCEPT ![c] = None]
    /\ UNCHANGED <<aggregate, machine, pc, loop, own, outstanding, summaries,
                   ending>>

-----------------------------------------------------------------------------
Harness ==
    \/ EnterMode \/ HealthOk \/ HealthFails \/ ModeDone
    \/ Reuse \/ RefuseExisting \/ CreateDir \/ WriteStarted \/ StartTrace
    \/ \E i \in Planned : Record(i)
    \/ WriteSummary \/ Overload \/ WriteComplete \/ MarkInvalid
    \/ Fail \/ Unwind \/ CloseFails \/ WriteAggregate

Unkilled ==
    \/ Launch
    \/ Harness
    \/ \E g \in Gateways : Bind(g) \/ Exit(g)
    \/ \E c \in Cells : Archive(c)

Next == Unkilled \/ Kill

Spec == Init /\ [][Next]_vars

(* The wait for a gateway has a limit, and so has every request.           *)
FairSpec == Spec /\ WF_vars(Harness)

-----------------------------------------------------------------------------
(* Properties                                                              *)

(* The evidence of a finished condition is whole: exactly one record for   *)
(* each planned request, all from one invocation, which is the one that    *)
(* was summarized.  No rerun adds to the records of an earlier one.        *)
WholeEvidence ==
    \A c \in Cells : Final(manifest[c]) =>
        \E r \in 1..MaxRuns :
            /\ {<<e.run, e.request>> : e \in records[c]} = {r} \X Planned
            /\ Cardinality(records[c]) = Cardinality(Planned)
            /\ manifest[c] = "complete" => summary[c] = r

CellAt(n) ==
    <<Modes[((n - 1) \div Conditions) + 1], ((n - 1) % Conditions) + 1>>

(* The file for the whole matrix has the evidence on disk, once for each   *)
(* condition and in their order, however many invocations it took and      *)
(* whichever of them measured or reused what.                              *)
AggregateIsTheMatrix ==
    aggregate # None =>
        aggregate = [n \in 1..(Len(Modes) * Conditions) |-> Entry(CellAt(n))]

(* What a resumed matrix reports is what was measured.                     *)
EvidenceAccounted == WholeEvidence /\ AggregateIsTheMatrix

(* An invocation has one gateway alive at a time, the one of its current   *)
(* mode.  When it ends it leaves none, unless it was killed or an          *)
(* exception got past the finally clause; then it leaves at most one.      *)
NoGatewayLeft ==
    /\ \A g, h \in Alive : g[1] = h[1] => g = h
    /\ ending \notin {"abandoned", "killed"} =>
           \A g \in Alive : g[1] = run => g = own

(* A condition is measured on the gateway of its own mode, or on one that  *)
(* an earlier invocation left behind.                                      *)
OnlyOrphansMislead ==
    \A c \in Cells : \A e \in records[c] :
        \/ e.target \in {None, <<e.run, c[1]>>}
        \/ e.target[1] < e.run

(* Which gateways are left on the machine, and what they can do to others. *)
GatewaysAccounted == NoGatewayLeft /\ OnlyOrphansMislead

(* What the analysis may rely on, for the whole matrix: the promise of     *)
(* MatrixContract.  The evidence of a condition is its final manifest with *)
(* the records it stands for; what the file for the whole matrix tells of  *)
(* a condition is the evidence that its entry was made from.               *)
Verdict(c) ==
    IF Final(manifest[c])
    THEN [status |-> manifest[c], records |-> records[c]]
    ELSE None

Told(c) ==
    IF \E n \in DOMAIN aggregate :
           /\ aggregate[n] = Entry(c)
           /\ \A k \in DOMAIN aggregate : aggregate[k].cell = c => k = n
    THEN Verdict(c)
    ELSE None

Contract == INSTANCE MatrixContract WITH
    evidence <- [c \in Cells |-> Verdict(c)],
    published <- IF aggregate = None THEN None ELSE [c \in Cells |-> Told(c)],
    Evidence <- Outcomes

(* A finished condition is never measured again and keeps its records; the *)
(* matrix is published only when it is whole.                              *)
ImplementsContract == Contract!Spec

(* Every invocation comes to an end.                                       *)
InvocationEnds == pc # "off" ~> pc = "off"

(* _start_gateway: "Start one isolated gateway process for a fixed wait    *)
(* setting": what is measured is measured on a gateway in its mode.        *)
IsolatedGateway ==
    \A c \in Cells : \A e \in records[c] :
        e.target = None \/ e.target[2] = c[1]

(* REPRODUCIBILITY.md: "an interrupted matrix can be resumed with the same *)
(* command", so the command does not refuse what it left itself.           *)
SameCommandResumes == ending # "refused"
=============================================================================
