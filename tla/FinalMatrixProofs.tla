------------------------- MODULE FinalMatrixProofs -------------------------
(***************************************************************************)
(* GatewaysAccounted and EvidenceAccounted of FinalMatrix, and that it     *)
(* implements MatrixContract, for any modes, conditions, requests and      *)
(* number of invocations.                                                  *)
(***************************************************************************)
EXTENDS FinalMatrix, FiniteSetTheorems, SequenceTheorems, TLAPS

(* In the try statement, with a run directory that is being filled.        *)
Filling == {"manifest", "warmup", "trace", "complete", "mark"}

InMode == {"health", "look", "unwind"} \cup Filling

Types ==
    /\ manifest \in [Cells -> Statuses \cup {None}]
    /\ records \in [Cells -> SUBSET Entries]
    /\ summary \in [Cells -> (1..MaxRuns) \cup {None}]
    /\ dirs \subseteq Cells
    /\ starting \subseteq Gateways
    /\ port \in Gateways \cup {None}
    /\ pc \in InMode \cup {"off", "mode"}
    /\ run \in 0..MaxRuns
    /\ mode \in 1..(Len(Modes) + 1)
    /\ cond \in 1..(Conditions + 1)
    /\ own \in Gateways \cup {None}
    /\ outstanding \subseteq Planned

(* Where the loops are.                                                    *)
LoopInv ==
    /\ pc # "off" => run >= 1 /\ ending \notin {"abandoned", "killed"}
    /\ pc \in InMode => mode <= Len(Modes)
    /\ pc \in Filling \/ outstanding # {} => cond <= Conditions
    /\ outstanding # {} => pc \in {"trace", "unwind"}

TypeInv == Types /\ LoopInv

-----------------------------------------------------------------------------
USE ModesAssumption, ConditionsAssumption, MaxRunsAssumption, NoneAssumption

LEMMA CellsInMode ==
    /\ \A m \in 1..Len(Modes) : Modes[m] \in Range(Modes)
    /\ TypeInv /\ pc \in InMode => Modes[mode] \in Range(Modes)
    /\ TypeInv /\ pc \in InMode /\ cond <= Conditions => Cell \in Cells
<1>1. \A m \in 1..Len(Modes) : Modes[m] \in Range(Modes)
  BY DEF Range
<1>2. TypeInv /\ pc \in InMode => mode \in 1..Len(Modes)
  BY DEF TypeInv, Types, LoopInv
<1>3. TypeInv /\ cond <= Conditions => cond \in 1..Conditions
  BY DEF TypeInv, Types
<1> QED
  BY <1>1, <1>2, <1>3 DEF Cell, Cells

LEMMA TypeInit == Init => TypeInv
BY DEF Init, TypeInv, Types, LoopInv, InMode, Filling

LEMMA TypeStep == TypeInv /\ [Next]_vars => TypeInv'
<1> SUFFICES ASSUME TypeInv, [Next]_vars
             PROVE  TypeInv'
  OBVIOUS
<1> USE DEF TypeInv, Types, LoopInv, InMode, Filling
<1>1. CASE Launch
  BY <1>1 DEF Launch, disk, machine
<1>2. CASE EnterMode
  BY <1>2, CellsInMode DEF EnterMode, disk, Gateways
<1>3. CASE HealthOk \/ ModeDone \/ RefuseExisting \/ Fail \/ Overload
  BY <1>3 DEF HealthOk, ModeDone, RefuseExisting, Fail, Overload, TraceDone,
              disk, machine, loop
<1>4. CASE HealthFails \/ CloseFails \/ Kill
  BY <1>4 DEF HealthFails, CloseFails, Kill, Abandon, disk, machine, loop
<1>5. CASE Reuse
  BY <1>5 DEF Reuse, NoneLeft, disk, machine
<1>6. CASE CreateDir
  BY <1>6, CellsInMode DEF CreateDir, NoneLeft, machine, loop
<1>7. CASE WriteStarted
  BY <1>7, CellsInMode DEF WriteStarted, Statuses, machine, loop
<1>8. CASE StartTrace
  BY <1>8 DEF StartTrace, disk, machine, loop
<1>9. ASSUME NEW i \in Planned, Record(i)
      PROVE  TypeInv'
  <2>1. Cell \in Cells
    BY <1>9, CellsInMode DEF Record
  <2>2. Target \in Gateways \cup {None}
    BY <1>9, CellsInMode DEF Record, Target, Gateways
  <2>3. [run |-> run, request |-> i, target |-> Target] \in Entries
    BY <1>9, <2>2 DEF Record, Entries
  <2> QED
    BY <1>9, <2>1, <2>3 DEF Record, machine, loop
<1>10. CASE WriteSummary
  BY <1>10, CellsInMode DEF WriteSummary, TraceDone, machine, loop
<1>11. CASE WriteComplete \/ MarkInvalid
  <2>1. \E s \in Statuses : WriteFinal(s)
    BY <1>11 DEF WriteComplete, MarkInvalid, Statuses
  <2>2. pc \in {"complete", "mark"}
    BY <1>11 DEF WriteComplete, MarkInvalid
  <2> QED
    BY <2>1, <2>2, CellsInMode DEF WriteFinal, machine
<1>12. CASE Unwind
  BY <1>12 DEF Unwind, StopOwn, disk
<1>13. CASE WriteAggregate
  BY <1>13 DEF WriteAggregate, machine, loop
<1>14. ASSUME NEW g \in Gateways, Bind(g) \/ Exit(g)
       PROVE  TypeInv'
  BY <1>14 DEF Bind, Exit, disk, loop
<1>15. ASSUME NEW c \in Cells, Archive(c)
       PROVE  TypeInv'
  BY <1>15 DEF Archive, machine, loop
<1>16. CASE UNCHANGED vars
  BY <1>16 DEF vars, disk, machine, loop
<1> QED
  BY <1>1, <1>2, <1>3, <1>4, <1>5, <1>6, <1>7, <1>8, <1>9, <1>10, <1>11,
     <1>12, <1>13, <1>14, <1>15, <1>16 DEF Next, Unkilled, Harness

LEMMA TypeCorrect == Spec => []TypeInv
BY TypeInit, TypeStep, PTL DEF Spec

-----------------------------------------------------------------------------
(* Gateways                                                                *)

(* The invocation owns the gateway of its mode from the start of the       *)
(* process to the finally clause, whatever happens in between.             *)
OwnInv ==
    own = IF pc \in InMode /\ Modes[mode] # "direct"
          THEN <<run, Modes[mode]>>
          ELSE None

(* No gateway is younger than the invocation; its own is the only one it   *)
(* started that lives, while nothing has got past the finally clause.      *)
AliveInv == \A g \in Alive : g[1] <= run

GatewaysInv == OwnInv /\ AliveInv /\ NoGatewayLeft

LEMMA GatewaysInit == Init => GatewaysInv
BY DEF Init, GatewaysInv, OwnInv, AliveInv, NoGatewayLeft, Alive, InMode,
       Filling

(* Less gateways than before, and no step of the harness.                  *)
LEMMA FewerGateways ==
    ASSUME TypeInv, GatewaysInv, Alive' \subseteq Alive,
           UNCHANGED <<run, own, ending, pc, mode>>
    PROVE  GatewaysInv'
BY DEF GatewaysInv, OwnInv, AliveInv, NoGatewayLeft

LEMMA GatewaysStep == TypeInv /\ GatewaysInv /\ [Next]_vars => GatewaysInv'
<1> SUFFICES ASSUME TypeInv, GatewaysInv, [Next]_vars
             PROVE  GatewaysInv'
  OBVIOUS
<1>0. Alive \subseteq Gateways
  BY DEF TypeInv, Types, Alive
<1> USE DEF GatewaysInv, OwnInv, InMode, Filling
<1>1. CASE Launch
  <2>1. UNCHANGED <<Alive, own>> /\ own = None /\ run' = run + 1
    BY <1>1 DEF Launch, machine, Alive
  <2>2. OwnInv'
    BY <1>1, <2>1 DEF Launch
  <2>3. AliveInv' /\ NoGatewayLeft'
    BY <1>0, <2>1 DEF AliveInv, NoGatewayLeft, Gateways, TypeInv, Types
  <2> QED
    BY <2>2, <2>3
<1>2. CASE EnterMode
  <2>1. own = None /\ ending \notin {"abandoned", "killed"}
    BY <1>2 DEF EnterMode, TypeInv, LoopInv
  <2>2. \A g \in Alive : g[1] < run
    BY <1>0, <2>1 DEF AliveInv, NoGatewayLeft, Gateways, TypeInv, Types
  <2>3. OwnInv'
    BY <1>2 DEF EnterMode
  <2>4. Alive' \subseteq Alive \cup ({own'} \ {None})
    <3>1. Modes[mode] # "direct" => <<run, Modes[mode]>> # None
      BY <1>2, CellsInMode
         DEF EnterMode, TypeInv, Types, LoopInv, Gateways
    <3> QED
      BY <1>2, <3>1 DEF EnterMode, Alive
  <2>5. own' # None => own' = <<run, Modes[mode]>>
    BY <1>2 DEF EnterMode
  <2>6. run' = run /\ ending' = ending
    BY <1>2 DEF EnterMode
  <2>7. AliveInv'
    BY <1>0, <2>2, <2>4, <2>5, <2>6 DEF AliveInv, TypeInv, Types, Gateways
  <2>8. NoGatewayLeft'
    <3>1. \A g \in Alive' : g[1] = run' => g = own'
      BY <1>0, <2>2, <2>4, <2>6 DEF Gateways, TypeInv, Types
    <3>2. \A g \in Alive' : g[1] # run' => g \in Alive
      BY <2>4, <2>5, <2>6
    <3> QED
      BY <3>1, <3>2 DEF NoGatewayLeft
  <2> QED
    BY <2>3, <2>7, <2>8
<1>3. CASE \/ HealthOk \/ ModeDone \/ RefuseExisting \/ Fail \/ Overload
           \/ Reuse \/ CreateDir \/ WriteStarted \/ StartTrace
           \/ WriteSummary \/ WriteComplete \/ MarkInvalid
           \/ \E i \in Planned : Record(i)
  <2>1. /\ UNCHANGED <<Alive, run, mode, own>>
        /\ pc \in InMode /\ pc' \in InMode
        /\ ending' \in {"refused", "failed", ending}
    BY <1>3 DEF HealthOk, ModeDone, RefuseExisting, Fail, Overload, Reuse,
         CreateDir, WriteStarted, StartTrace, WriteSummary, WriteComplete,
         MarkInvalid, Record, WriteFinal, TraceDone, machine, loop, Alive
  <2>2. ending \notin {"abandoned", "killed"}
    BY <2>1 DEF TypeInv, LoopInv
  <2> QED
    BY <2>1, <2>2 DEF AliveInv, NoGatewayLeft
<1>4. CASE HealthFails \/ CloseFails \/ Kill
  <2>1. /\ UNCHANGED <<Alive, run>>
        /\ own' = None /\ pc' = "off" /\ ending' \in {"abandoned", "killed"}
    BY <1>4 DEF HealthFails, CloseFails, Kill, Abandon, machine, loop, Alive
  <2> QED
    BY <2>1 DEF AliveInv, NoGatewayLeft
<1>5. CASE Unwind
  <2>1. pc = "unwind" /\ UNCHANGED <<run, ending>> /\ own' = None
        /\ pc' \in {"mode", "off"}
    BY <1>5 DEF Unwind
  <2>2. Alive' \subseteq Alive \ {own}
    BY <1>5 DEF Unwind, StopOwn, Alive
  <2>3. \A g \in Alive' : g[1] # run
    BY <2>1, <2>2 DEF TypeInv, LoopInv, NoGatewayLeft
  <2> QED
    BY <2>1, <2>2, <2>3 DEF AliveInv, NoGatewayLeft
<1>6. CASE WriteAggregate
  <2>1. /\ UNCHANGED <<Alive, run, own>>
        /\ pc = "mode" /\ pc' = "off" /\ ending' = "done"
    BY <1>6 DEF WriteAggregate, machine, loop, Alive
  <2> QED
    BY <2>1 DEF AliveInv, NoGatewayLeft, TypeInv, LoopInv
<1>7. ASSUME NEW g \in Gateways, Bind(g) \/ Exit(g)
      PROVE  GatewaysInv'
  <2>1. Alive' \subseteq Alive /\ UNCHANGED <<run, own, ending, pc, mode>>
    BY <1>7 DEF Bind, Exit, Alive, loop
  <2> QED
    BY <2>1, FewerGateways
<1>8. ASSUME NEW c \in Cells, Archive(c)
      PROVE  GatewaysInv'
  <2>1. UNCHANGED <<Alive, run, own, ending, pc, mode>>
    BY <1>8 DEF Archive, Alive, loop, machine
  <2> QED
    BY <2>1, FewerGateways
<1>9. CASE UNCHANGED vars
  <2>1. UNCHANGED <<Alive, run, own, ending, pc, mode>>
    BY <1>9 DEF vars, Alive, loop, machine
  <2> QED
    BY <2>1, FewerGateways
<1> QED
  BY <1>1, <1>2, <1>3, <1>4, <1>5, <1>6, <1>7, <1>8, <1>9
     DEF Next, Unkilled, Harness

(* What is recorded comes from the gateway that this mode started, or from *)
(* one that an earlier invocation left.                                    *)
LEMMA TargetOwn ==
    ASSUME TypeInv, GatewaysInv, pc \in InMode
    PROVE  Target \in {None, <<run, Modes[mode]>>} \/ Target[1] < run
<1>1. ending \notin {"abandoned", "killed"}
  BY DEF TypeInv, LoopInv, InMode, Filling
<1>2. CASE Modes[mode] = "direct"
  BY <1>2 DEF Target
<1>3. CASE Modes[mode] # "direct" /\ port # None
  <2>1. port \in Alive /\ Target = port /\ own = <<run, Modes[mode]>>
    BY <1>3 DEF Alive, Target, GatewaysInv, OwnInv
  <2>2. port[1] \in Nat /\ run \in Nat
    BY <1>3 DEF TypeInv, Types, Gateways
  <2>3. port[1] <= run /\ (port[1] = run => port = own)
    BY <1>1, <2>1 DEF GatewaysInv, AliveInv, NoGatewayLeft
  <2> QED
    BY <2>1, <2>2, <2>3
<1> QED
  BY <1>2, <1>3 DEF Target

LEMMA OrphansStep ==
    TypeInv /\ GatewaysInv /\ OnlyOrphansMislead /\ [Next]_vars
        => OnlyOrphansMislead'
<1> SUFFICES ASSUME TypeInv, GatewaysInv, OnlyOrphansMislead, [Next]_vars
             PROVE  OnlyOrphansMislead'
  OBVIOUS
<1>1. ASSUME NEW i \in Planned, Record(i)
      PROVE  OnlyOrphansMislead'
  <2> DEFINE new == [run |-> run, request |-> i, target |-> Target]
  <2>1. Cell \in Cells /\ pc \in InMode
    <3>1. pc \in InMode
      BY <1>1 DEF Record, InMode, Filling
    <3>2. cond <= Conditions
      BY <1>1 DEF Record, TypeInv, LoopInv
    <3> QED
      BY <3>1, <3>2, CellsInMode
  <2>2. \A c \in Cells : \A e \in records'[c] :
            e \in records[c] \/ (c = Cell /\ e = new)
    BY <1>1, <2>1 DEF Record, TypeInv, Types
  <2>3. new.target \in {None, <<new.run, Cell[1]>>}
        \/ new.target[1] < new.run
    BY <2>1, TargetOwn DEF Cell
  <2> QED
    BY <2>2, <2>3 DEF OnlyOrphansMislead
<1>2. ASSUME NEW c \in Cells, Archive(c)
      PROVE  OnlyOrphansMislead'
  BY <1>2 DEF Archive, OnlyOrphansMislead, TypeInv, Types
<1>3. CASE UNCHANGED records
  BY <1>3 DEF OnlyOrphansMislead
<1> QED
  BY <1>1, <1>2, <1>3 DEF Next, Unkilled, Harness, Launch, EnterMode, HealthOk,
     HealthFails, ModeDone, Reuse, RefuseExisting, CreateDir, WriteStarted,
     StartTrace, WriteSummary, Overload, WriteComplete, MarkInvalid,
     WriteFinal, Fail, Unwind, CloseFails, WriteAggregate, Bind, Exit, Kill,
     Abandon, vars, disk

(* An invocation has one gateway, the one of its mode, and leaves none     *)
(* unless it was killed or an exception got past the finally clause; what  *)
(* it measures is measured on that gateway, or on one that an earlier      *)
(* invocation left (final.py, _start_gateway and _stop_gateway).           *)
THEOREM GatewaysKnown == Spec => []GatewaysAccounted
<1>1. Init => OnlyOrphansMislead
  BY DEF Init, OnlyOrphansMislead
<1>2. GatewaysInv => NoGatewayLeft
  BY DEF GatewaysInv
<1> QED
  BY <1>1, <1>2, TypeCorrect, GatewaysInit, GatewaysStep, OrphansStep, PTL
     DEF Spec, GatewaysAccounted

-----------------------------------------------------------------------------
(* Evidence                                                                *)

(* Condition c has one record of invocation r for each request in done.    *)
Recorded(c, r, done) ==
    /\ {<<e.run, e.request>> : e \in records[c]} = {r} \X done
    /\ \A e, f \in records[c] : e.request = f.request => e = f

Evidence(c) ==
    Final(manifest[c]) =>
        \E r \in 1..MaxRuns :
            /\ Recorded(c, r, Planned)
            /\ manifest[c] = "complete" => summary[c] = r

(* A directory that is not there holds nothing.                            *)
NothingElsewhere ==
    \A c \in Cells \ dirs : manifest[c] = None /\ records[c] = {}

(* The condition that is being filled, step by step.                       *)
CurrentInv ==
    /\ pc \in Filling \/ outstanding # {} =>
           Cell \in dirs /\ ~Final(manifest[Cell])
    /\ pc \in {"manifest", "warmup"} => records[Cell] = {}
    /\ pc = "trace" => Recorded(Cell, run, Planned \ outstanding)
    /\ pc \in {"complete", "mark"} => Recorded(Cell, run, Planned)
    /\ pc = "complete" => summary[Cell] = run

EvidenceInv ==
    /\ \A c \in Cells : Evidence(c)
    /\ NothingElsewhere
    /\ CurrentInv

(* One record for each request: there are as many of them.                 *)
LEMMA AsManyRecords ==
    ASSUME NEW c, NEW r, Recorded(c, r, Planned)
    PROVE  Cardinality(records[c]) = Cardinality(Planned)
<1> DEFINE f == [i \in Planned |-> CHOOSE e \in records[c] : e.request = i]
<1>1. \A i \in Planned : \E e \in records[c] : e.request = i
  <2> TAKE i \in Planned
  <2>1. <<r, i>> \in {<<e.run, e.request>> : e \in records[c]}
    BY DEF Recorded
  <2> QED
    BY <2>1
<1>2. \A i \in Planned : f[i] \in records[c] /\ f[i].request = i
  BY <1>1
<1>3. \A e \in records[c] : e.request \in Planned /\ f[e.request] = e
  <2> TAKE e \in records[c]
  <2>1. <<e.run, e.request>> \in {r} \X Planned
    BY DEF Recorded
  <2>2. e.request \in Planned
    BY <2>1
  <2> HIDE DEF f
  <2> QED
    BY <1>2, <2>2 DEF Recorded
<1>4. f \in [Planned -> records[c]]
  BY <1>2
<1> HIDE DEF f
<1>5. f \in Bijection(Planned, records[c])
  BY <1>2, <1>3, <1>4 DEF Bijection, Injection, Surjection, IsInjective
<1>6. ExistsBijection(Planned, records[c])
  BY <1>5 DEF ExistsBijection
<1> QED
  BY <1>6, FS_Bijection, PlannedAssumption

(* What one more record adds to the pairs of invocation and request.       *)
LEMMA OneMore ==
    ASSUME NEW S, NEW x
    PROVE  {<<e.run, e.request>> : e \in S \cup {x}}
               = {<<e.run, e.request>> : e \in S} \cup {<<x.run, x.request>>}
OBVIOUS

LEMMA EvidenceInit == Init => EvidenceInv
BY DEF Init, EvidenceInv, Evidence, NothingElsewhere, CurrentInv, Final,
       Filling, Statuses

(* Steps that leave the disk alone, and do not begin on anything.          *)
LEMMA DiskUntouched ==
    ASSUME TypeInv, EvidenceInv, UNCHANGED <<manifest, dirs, records, summary>>,
           \/ UNCHANGED <<pc, run, mode, cond, outstanding>>
           \/ pc' \notin Filling /\ outstanding' = {}
           \/ /\ pc' = "unwind" /\ pc \in {"look"} \cup Filling
              /\ UNCHANGED <<run, mode, cond, outstanding>>
    PROVE  EvidenceInv'
<1>1. CurrentInv'
  <2>1. CASE UNCHANGED <<pc, run, mode, cond, outstanding>>
    BY <2>1 DEF EvidenceInv, CurrentInv, Cell, Recorded
  <2>2. CASE pc' \notin Filling /\ outstanding' = {}
    BY <2>2 DEF CurrentInv, Filling
  <2>3. CASE /\ pc' = "unwind" /\ pc \in {"look"} \cup Filling
             /\ UNCHANGED <<run, mode, cond, outstanding>>
    BY <2>3 DEF EvidenceInv, CurrentInv, Cell, Filling
  <2> QED
    BY <2>1, <2>2, <2>3
<1> QED
  BY <1>1 DEF EvidenceInv, Evidence, NothingElsewhere, Recorded

LEMMA EvidenceStep == TypeInv /\ EvidenceInv /\ [Next]_vars => EvidenceInv'
<1> SUFFICES ASSUME TypeInv, EvidenceInv, [Next]_vars
             PROVE  EvidenceInv'
  OBVIOUS
<1>0. pc \in Filling => Cell \in Cells
  BY CellsInMode DEF TypeInv, LoopInv, InMode
<1>1. CASE \/ Launch \/ EnterMode \/ HealthOk \/ HealthFails \/ ModeDone
           \/ Reuse \/ RefuseExisting \/ Unwind \/ CloseFails
           \/ WriteAggregate \/ Kill
  <2>1. pc \notin {"trace", "unwind"} => outstanding = {}
    BY DEF TypeInv, LoopInv
  <2> QED
    BY <1>1, <2>1, DiskUntouched DEF Launch, EnterMode, HealthOk, HealthFails,
       ModeDone, Reuse, RefuseExisting, Unwind, CloseFails, WriteAggregate,
       Kill, Abandon, disk, loop, Filling
<1>2. CASE Fail
  BY <1>2, DiskUntouched DEF Fail, disk, loop, Filling
<1>3. CASE \/ UNCHANGED vars
           \/ \E g \in Gateways : Bind(g) \/ Exit(g)
  BY <1>3, DiskUntouched DEF vars, Bind, Exit, disk, loop
<1>4. CASE CreateDir
  <2>1. Cell \in Cells /\ Cell \notin dirs
    <3>1. cond <= Conditions
      BY <1>4 DEF CreateDir, NoneLeft, TypeInv, Types
    <3> QED
      BY <1>4, <3>1, CellsInMode DEF CreateDir, InMode, Fresh
  <2>2. manifest[Cell] = None /\ records[Cell] = {} /\ outstanding = {}
    BY <1>4, <2>1
       DEF CreateDir, EvidenceInv, NothingElsewhere, TypeInv, LoopInv
  <2>3. CurrentInv'
    BY <1>4, <2>2
       DEF CreateDir, CurrentInv, Cell, loop, Final, Statuses, Filling
  <2>4. NothingElsewhere'
    BY <1>4 DEF CreateDir, EvidenceInv, NothingElsewhere
  <2> QED
    BY <1>4, <2>3, <2>4 DEF CreateDir, EvidenceInv, Evidence, Recorded
<1>5. CASE WriteStarted
  <2>1. Cell \in Cells /\ Cell \in dirs /\ records[Cell] = {}
    BY <1>0, <1>5 DEF WriteStarted, EvidenceInv, CurrentInv, Filling
  <2>2. manifest'[Cell] = "started"
        /\ \A c \in Cells \ {Cell} : manifest'[c] = manifest[c]
    BY <1>5, <2>1 DEF WriteStarted, TypeInv, Types
  <2>3. UNCHANGED <<dirs, records, summary, Cell, outstanding, run>>
    BY <1>5 DEF WriteStarted, loop, Cell
  <2>4. pc' = "warmup" /\ outstanding = {}
    BY <1>5 DEF WriteStarted, TypeInv, LoopInv
  <2>5. CurrentInv'
    BY <2>1, <2>2, <2>3, <2>4 DEF CurrentInv, Final
  <2>6. NothingElsewhere'
    BY <2>1, <2>2, <2>3 DEF EvidenceInv, NothingElsewhere
  <2>7. \A c \in Cells : Evidence(c)'
    BY <2>2, <2>3 DEF EvidenceInv, Evidence, Recorded, Final
  <2> QED
    BY <2>5, <2>6, <2>7 DEF EvidenceInv
<1>6. CASE StartTrace
  <2>1. UNCHANGED <<manifest, dirs, records, summary, Cell, run>>
    BY <1>6 DEF StartTrace, disk, loop, Cell
  <2>2. CurrentInv'
    BY <1>6, <2>1 DEF StartTrace, EvidenceInv, CurrentInv, Recorded, Filling
  <2> QED
    BY <2>1, <2>2 DEF EvidenceInv, Evidence, NothingElsewhere, Recorded
<1>7. ASSUME NEW i \in Planned, Record(i)
      PROVE  EvidenceInv'
  <2> DEFINE new == [run |-> run, request |-> i, target |-> Target]
  <2>1. Cell \in Cells /\ ~Final(manifest[Cell])
    <3>1. pc \in InMode
      BY <1>7 DEF Record, InMode, Filling
    <3>2. cond <= Conditions /\ outstanding # {}
      BY <1>7 DEF Record, TypeInv, LoopInv
    <3> QED
      BY <3>1, <3>2, CellsInMode DEF EvidenceInv, CurrentInv
  <2>2. records'[Cell] = records[Cell] \cup {new}
        /\ \A c \in Cells \ {Cell} : records'[c] = records[c]
    BY <1>7, <2>1 DEF Record, TypeInv, Types
  <2>3. UNCHANGED <<manifest, dirs, summary, Cell, run, pc>>
        /\ outstanding' = outstanding \ {i}
    BY <1>7 DEF Record, loop, Cell
  <2>4. \A c \in Cells : Evidence(c)'
    BY <2>1, <2>2, <2>3 DEF EvidenceInv, Evidence, Recorded, Final
  <2>5. NothingElsewhere'
    <3>1. Cell \in dirs
      BY <1>7 DEF Record, EvidenceInv, CurrentInv
    <3> QED
      BY <2>2, <2>3, <3>1 DEF EvidenceInv, NothingElsewhere
  <2>6. pc = "trace" => Recorded(Cell, run, Planned \ outstanding)'
    <3> SUFFICES ASSUME pc = "trace"
                 PROVE  Recorded(Cell, run, Planned \ outstanding)'
      OBVIOUS
    <3> DEFINE done == Planned \ outstanding
    <3>1. Recorded(Cell, run, done)
      BY DEF EvidenceInv, CurrentInv
    <3>2. i \notin done /\ Planned \ (outstanding \ {i}) = done \cup {i}
      BY <1>7 DEF Record
    <3>3. \A e \in records[Cell] : e.request \in done
      <4> TAKE e \in records[Cell]
      <4>1. <<e.run, e.request>> \in {run} \X done
        BY <3>1 DEF Recorded
      <4> QED
        BY <4>1
    <3>4. {<<e.run, e.request>> : e \in records[Cell] \cup {new}}
              = {run} \X (done \cup {i})
      <4>1. {<<e.run, e.request>> : e \in records[Cell] \cup {new}}
                = {<<e.run, e.request>> : e \in records[Cell]}
                      \cup {<<new.run, new.request>>}
        BY OneMore
      <4>2. {run} \X (done \cup {i}) = ({run} \X done) \cup {<<run, i>>}
        OBVIOUS
      <4> QED
        BY <3>1, <4>1, <4>2 DEF Recorded
    <3>5. \A e, f \in records[Cell] \cup {new} :
              e.request = f.request => e = f
      BY <3>1, <3>2, <3>3 DEF Recorded
    <3> QED
      BY <2>2, <2>3, <3>2, <3>4, <3>5 DEF Recorded
  <2>7. CurrentInv'
    <3>1. pc \in {"trace", "unwind"} /\ Cell \in dirs
      BY <1>7 DEF Record, EvidenceInv, CurrentInv
    <3> QED
      BY <2>1, <2>3, <2>6, <3>1 DEF CurrentInv
  <2> QED
    BY <2>4, <2>5, <2>7 DEF EvidenceInv
<1>8. CASE WriteSummary
  <2>1. /\ Cell \in Cells /\ Cell \in dirs /\ ~Final(manifest[Cell])
        /\ Recorded(Cell, run, Planned)
    <3>1. Planned \ {} = Planned
      OBVIOUS
    <3> QED
      BY <1>0, <1>8, <3>1
         DEF WriteSummary, TraceDone, EvidenceInv, CurrentInv, Filling
  <2>2. summary'[Cell] = run
        /\ \A c \in Cells \ {Cell} : summary'[c] = summary[c]
    BY <1>8, <2>1 DEF WriteSummary, TypeInv, Types
  <2>3. UNCHANGED <<manifest, dirs, records, Cell, outstanding, run>>
        /\ pc' = "complete"
    BY <1>8 DEF WriteSummary, loop, Cell
  <2>4. CurrentInv'
    BY <2>1, <2>2, <2>3 DEF CurrentInv, Recorded
  <2> QED
    BY <2>1, <2>2, <2>3, <2>4
       DEF EvidenceInv, Evidence, NothingElsewhere, Recorded, Final
<1>9. CASE Overload
  <2>1. Recorded(Cell, run, Planned)
    <3>1. Planned \ {} = Planned
      OBVIOUS
    <3> QED
      BY <1>9, <3>1 DEF Overload, TraceDone, EvidenceInv, CurrentInv
  <2>2. UNCHANGED <<manifest, dirs, records, summary, Cell, run, outstanding>>
        /\ pc = "trace" /\ pc' = "mark"
    BY <1>9 DEF Overload, TraceDone, disk, loop, Cell
  <2>3. CurrentInv'
    BY <2>1, <2>2 DEF EvidenceInv, CurrentInv, Recorded, Filling
  <2> QED
    BY <2>2, <2>3 DEF EvidenceInv, Evidence, NothingElsewhere, Recorded
<1>10. CASE WriteComplete \/ MarkInvalid
  <2>1. PICK s \in {"complete", "invalid_harness"} :
            WriteFinal(s) /\ (s = "complete" => pc = "complete")
    BY <1>10 DEF WriteComplete, MarkInvalid
  <2>2. /\ Cell \in Cells /\ Cell \in dirs
        /\ Recorded(Cell, run, Planned)
        /\ pc = "complete" => summary[Cell] = run
    BY <1>0, <1>10
       DEF WriteComplete, MarkInvalid, EvidenceInv, CurrentInv, Filling
  <2>3. run \in 1..MaxRuns /\ outstanding = {}
    BY <1>10 DEF WriteComplete, MarkInvalid, TypeInv, Types, LoopInv
  <2>4. manifest'[Cell] = s
        /\ \A c \in Cells \ {Cell} : manifest'[c] = manifest[c]
    BY <2>1, <2>2 DEF WriteFinal, TypeInv, Types
  <2>5. UNCHANGED <<dirs, records, summary, outstanding>> /\ pc' = "look"
    BY <2>1 DEF WriteFinal
  <2>6. \A c \in Cells : Evidence(c)'
    BY <2>1, <2>2, <2>3, <2>4, <2>5
       DEF EvidenceInv, Evidence, Recorded, Final
  <2>7. NothingElsewhere'
    BY <2>2, <2>4, <2>5 DEF EvidenceInv, NothingElsewhere
  <2>8. CurrentInv'
    BY <2>3, <2>5 DEF CurrentInv, Filling
  <2> QED
    BY <2>6, <2>7, <2>8 DEF EvidenceInv
<1>11. ASSUME NEW c \in Cells, Archive(c)
       PROVE  EvidenceInv'
  <2>1. /\ manifest'[c] = None /\ records'[c] = {}
        /\ \A d \in Cells \ {c} : /\ manifest'[d] = manifest[d]
                                 /\ records'[d] = records[d]
                                 /\ summary'[d] = summary[d]
    BY <1>11 DEF Archive, TypeInv, Types
  <2>2. pc' = "off" /\ outstanding' = {} /\ dirs' = dirs \ {c}
    BY <1>11 DEF Archive, TypeInv, LoopInv
  <2>3. \A d \in Cells : Evidence(d)'
    BY <2>1 DEF EvidenceInv, Evidence, Recorded, Final, Statuses
  <2>4. NothingElsewhere' /\ CurrentInv'
    BY <2>1, <2>2 DEF EvidenceInv, NothingElsewhere, CurrentInv, Filling
  <2> QED
    BY <2>3, <2>4 DEF EvidenceInv
<1> QED
  BY <1>1, <1>2, <1>3, <1>4, <1>5, <1>6, <1>7, <1>8, <1>9, <1>10, <1>11
     DEF Next, Unkilled, Harness

(* A finished condition has exactly one record of each planned request,    *)
(* all of the invocation that was summarized, however often the matrix was *)
(* interrupted, resumed and archived (final.py, _load_existing_summary and *)
(* _run_condition).                                                        *)
THEOREM EvidenceWhole == Spec => []WholeEvidence
<1>1. EvidenceInv => WholeEvidence
  <2> SUFFICES ASSUME EvidenceInv, NEW c \in Cells, Final(manifest[c])
               PROVE  \E r \in 1..MaxRuns :
                   /\ {<<e.run, e.request>> : e \in records[c]}
                          = {r} \X Planned
                   /\ Cardinality(records[c]) = Cardinality(Planned)
                   /\ manifest[c] = "complete" => summary[c] = r
    BY DEF WholeEvidence
  <2>1. PICK r \in 1..MaxRuns :
            /\ Recorded(c, r, Planned)
            /\ manifest[c] = "complete" => summary[c] = r
    BY DEF EvidenceInv, Evidence
  <2>2. Cardinality(records[c]) = Cardinality(Planned)
    BY <2>1, AsManyRecords
  <2> WITNESS r \in 1..MaxRuns
  <2> QED
    BY <2>1, <2>2 DEF Recorded
<1> QED
  BY <1>1, TypeCorrect, EvidenceInit, EvidenceStep, PTL DEF Spec

-----------------------------------------------------------------------------
(* The file for the whole matrix                                           *)

(* Facts about numbers and sequences.                                     *)
LEMMA Product ==
    ASSUME NEW C \in Nat \ {0}, NEW p \in Nat, NEW q \in Nat, p < q
    PROVE  C * q >= C * p + C
<1>1. PICK d \in Nat : q = p + 1 + d
  <2>1. q - p - 1 \in Nat /\ q = p + 1 + (q - p - 1)
    OBVIOUS
  <2> QED
    BY <2>1
<1>2. C * q = C * p + C + C * d
  BY <1>1
<1>3. C * d >= 0 /\ C * d \in Nat /\ C * p \in Nat
  BY <1>1
<1> QED
  BY <1>2, <1>3

LEMMA Division ==
    ASSUME NEW C \in Nat \ {0}, NEW p \in Nat, NEW r \in 0..(C - 1)
    PROVE  (C * p + r) \div C = p /\ (C * p + r) % C = r
<1> DEFINE x == C * p + r
           q == x \div C
           m == x % C
<1>1. x \in Nat /\ C * p \in Nat
  OBVIOUS
<1>2. q \in Nat /\ m \in 0..(C - 1) /\ x = C * q + m
  BY <1>1
<1>3. C * q \in Nat
  BY <1>2
<1> HIDE DEF q, m
<1>4. ~ p < q
  BY <1>1, <1>2, <1>3, Product
<1>5. ~ q < p
  BY <1>1, <1>2, <1>3, Product
<1>6. p = q
  BY <1>2, <1>4, <1>5
<1> QED
  BY <1>1, <1>2, <1>6 DEF q, m

LEMMA AppendTo ==
    ASSUME NEW k \in Nat, NEW t, t = [n \in 1..(k + 1) |-> t[n]]
    PROVE  Append([n \in 1..k |-> t[n]], t[k + 1]) = t
<1> DEFINE T == {t[n] : n \in 1..(k + 1)}
           s == [n \in 1..k |-> t[n]]
<1>1. s \in Seq(T) /\ t \in Seq(T) /\ t[k + 1] \in T
  <2>1. s \in [1..k -> T] /\ t \in [1..(k + 1) -> T]
    OBVIOUS
  <2>2. t[k + 1] \in T
    OBVIOUS
  <2> HIDE DEF T, s
  <2>3. \A n \in Nat : [1..n -> T] \subseteq Seq(T)
    <3>1. Seq(T) = UNION {[1..n -> T] : n \in Nat}
      BY SeqDef, Zenon
    <3> QED
      BY <3>1, Zenon
  <2> QED
    BY <2>1, <2>2, <2>3
<1>2. Len(s) = k /\ Len(t) = k + 1
  BY <1>1, LenProperties
<1> HIDE DEF T
<1>3. /\ Append(s, t[k + 1]) \in Seq(T)
      /\ Len(Append(s, t[k + 1])) = k + 1
      /\ \A n \in 1..k : Append(s, t[k + 1])[n] = s[n]
      /\ Append(s, t[k + 1])[k + 1] = t[k + 1]
  <2> HIDE DEF s
  <2> QED
    BY <1>1, <1>2, AppendProperties
<1>4. \A n \in 1..Len(t) : Append(s, t[k + 1])[n] = t[n]
  BY <1>2, <1>3
<1> QED
  BY <1>1, <1>2, <1>3, <1>4, SeqEqual

EntriesUpTo(k) == [n \in 1..k |-> Entry(CellAt(n))]

FinalUpTo(k) ==
    \A n \in 1..k : CellAt(n) \in Cells /\ Final(manifest[CellAt(n)])

(* How many conditions the loops have gone through.                        *)
Position ==
    Conditions * (mode - 1) + (IF pc = "mode" THEN 0 ELSE cond - 1)

Total == Len(Modes) * Conditions

AggregateInv ==
    /\ pc # "off" =>
           summaries = EntriesUpTo(Position) /\ FinalUpTo(Position)
    /\ pc = "unwind" /\ ending = "open" => cond = Conditions + 1
    /\ aggregate # None =>
           aggregate = EntriesUpTo(Total) /\ FinalUpTo(Total)

LEMMA PositionNat == TypeInv => Position \in Nat
<1> SUFFICES ASSUME TypeInv
             PROVE  Position \in Nat
  OBVIOUS
<1>1. mode - 1 \in Nat /\ cond - 1 \in Nat
  BY DEF TypeInv, Types
<1>2. Conditions * (mode - 1) \in Nat
  BY <1>1
<1> QED
  BY <1>1, <1>2 DEF Position

(* The next entry is about the condition that the loops have come to.      *)
LEMMA NextCell ==
    ASSUME TypeInv, pc \in InMode, cond <= Conditions
    PROVE  CellAt(Position + 1) = Cell
<1> DEFINE p == mode - 1
           r == cond - 1
<1>1. p \in Nat /\ r \in 0..(Conditions - 1)
  BY DEF TypeInv, Types
<1>2. Position = Conditions * p + r
  BY DEF Position, InMode, Filling
<1> DEFINE n == Position + 1
<1>3. n - 1 = Conditions * p + r
  BY <1>2, PositionNat
<1>4. p + 1 = mode /\ r + 1 = cond
  BY DEF TypeInv, Types
<1> HIDE DEF p, r
<1>5. (Conditions * p + r) \div Conditions = p
      /\ (Conditions * p + r) % Conditions = r
  BY <1>1, Division
<1> HIDE DEF n
<1>6. CellAt(n) = <<Modes[p + 1], r + 1>>
  BY <1>3, <1>5 DEF CellAt
<1> QED
  BY <1>4, <1>6 DEF n, Cell

(* What is final stays as it is.                                           *)
LEMMA FinalStays ==
    ASSUME TypeInv, EvidenceInv, [Next]_vars
    PROVE  \A c \in Cells : Final(manifest[c]) =>
               manifest'[c] = manifest[c] /\ Entry(c)' = Entry(c)
<1>1. CASE UNCHANGED <<manifest, summary>>
  BY <1>1 DEF Entry
<1>2. CASE WriteStarted \/ WriteSummary \/ WriteComplete \/ MarkInvalid
  <2>1. ~Final(manifest[Cell])
    BY <1>2 DEF WriteStarted, WriteSummary, TraceDone, WriteComplete,
       MarkInvalid, EvidenceInv, CurrentInv, Filling
  <2>2. \A c \in Cells \ {Cell} :
            manifest'[c] = manifest[c] /\ summary'[c] = summary[c]
    BY <1>2 DEF WriteStarted, WriteSummary, WriteComplete, MarkInvalid,
       WriteFinal, TypeInv, Types
  <2> QED
    BY <2>1, <2>2 DEF Entry
<1>3. ASSUME NEW d \in Cells, Archive(d)
      PROVE  \A c \in Cells : Final(manifest[c]) =>
                 manifest'[c] = manifest[c] /\ Entry(c)' = Entry(c)
  BY <1>3 DEF Archive, Entry, TypeInv, Types
<1> QED
  BY <1>1, <1>2, <1>3 DEF Next, Unkilled, Harness, Launch, EnterMode,
     HealthOk, HealthFails, ModeDone, Reuse, RefuseExisting, CreateDir,
     StartTrace, Record, Overload, Fail, Unwind, CloseFails, WriteAggregate,
     Bind, Exit, Kill, Abandon, vars, disk

LEMMA EntriesStay ==
    ASSUME TypeInv, EvidenceInv, [Next]_vars, NEW k, FinalUpTo(k)
    PROVE  /\ \A n \in 1..k : Final(manifest'[CellAt(n)])
           /\ [n \in 1..k |-> Entry(CellAt(n))'] = EntriesUpTo(k)
BY FinalStays DEF FinalUpTo, EntriesUpTo

LEMMA AggregateInit == Init => AggregateInv
BY DEF Init, AggregateInv

LEMMA AggregateStays ==
    ASSUME TypeInv, EvidenceInv, AggregateInv, [Next]_vars,
           UNCHANGED aggregate
    PROVE  aggregate' # None =>
               aggregate' = EntriesUpTo(Total)' /\ FinalUpTo(Total)'
<1> SUFFICES ASSUME aggregate # None
             PROVE  aggregate = EntriesUpTo(Total)' /\ FinalUpTo(Total)'
  OBVIOUS
<1>1. FinalUpTo(Total) /\ aggregate = EntriesUpTo(Total)
  BY DEF AggregateInv
<1> QED
  BY <1>1, EntriesStay DEF EntriesUpTo, FinalUpTo

LEMMA OneMoreEntry ==
    ASSUME TypeInv, EvidenceInv, AggregateInv, [Next]_vars,
           pc \in InMode, cond <= Conditions,
           NEW c, c = Cell, Final(manifest'[c]),
           summaries' = Append(summaries, Entry(c)'),
           pc' = "look", cond' = cond + 1, UNCHANGED <<mode, aggregate>>
    PROVE  AggregateInv'
<1> DEFINE k == Position
           t == [n \in 1..(k + 1) |-> Entry(CellAt(n))']
<1>1. k \in Nat /\ CellAt(k + 1) = c /\ c \in Cells
  BY PositionNat, NextCell, CellsInMode
<1>2. Position' = k + 1
  <2>1. Conditions * (mode - 1) \in Int
    BY DEF TypeInv, Types
  <2> QED
    BY <2>1 DEF Position, InMode, Filling, TypeInv, Types
<1>3. FinalUpTo(k) /\ summaries = EntriesUpTo(k)
  BY DEF AggregateInv, InMode, Filling
<1> HIDE DEF k
<1>4. \A n \in 1..k : Final(manifest'[CellAt(n)]) /\ CellAt(n) \in Cells
  BY <1>3, EntriesStay DEF FinalUpTo
<1>5. summaries = [n \in 1..k |-> t[n]]
  BY <1>1, <1>3, EntriesStay
<1>6. t[k + 1] = Entry(c)' /\ t = [n \in 1..(k + 1) |-> t[n]]
  BY <1>1
<1>7. summaries' = t
  <2> HIDE DEF t
  <2> QED
    BY <1>1, <1>5, <1>6, AppendTo
<1>8. \A n \in 1..(k + 1) :
          Final(manifest'[CellAt(n)]) /\ CellAt(n) \in Cells
  BY <1>1, <1>4
<1>9. summaries' = EntriesUpTo(Position)' /\ FinalUpTo(Position)'
  BY <1>2, <1>7, <1>8 DEF EntriesUpTo, FinalUpTo
<1> QED
  BY <1>9, AggregateStays DEF AggregateInv

LEMMA AggregateStep ==
    TypeInv /\ EvidenceInv /\ AggregateInv /\ [Next]_vars => AggregateInv'
<1> SUFFICES ASSUME TypeInv, EvidenceInv, AggregateInv, [Next]_vars
             PROVE  AggregateInv'
  OBVIOUS
<1>0. /\ pc' # "off" /\ UNCHANGED <<aggregate, summaries>>
      /\ pc # "off" /\ Position' = Position
      /\ pc' = "unwind" /\ ending' = "open" => cond' = Conditions + 1
      => AggregateInv'
  <2> SUFFICES ASSUME pc' # "off", UNCHANGED <<aggregate, summaries>>,
                      pc # "off", Position' = Position,
                      pc' = "unwind" /\ ending' = "open" =>
                          cond' = Conditions + 1
               PROVE  AggregateInv'
    OBVIOUS
  <2>1. FinalUpTo(Position) /\ summaries = EntriesUpTo(Position)
    BY DEF AggregateInv
  <2>2. FinalUpTo(Position)' /\ summaries' = EntriesUpTo(Position)'
    BY <2>1, EntriesStay DEF FinalUpTo, EntriesUpTo
  <2> QED
    BY <2>2, AggregateStays DEF AggregateInv
<1>1. CASE Launch
  <2>1. /\ pc' = "mode" /\ mode' = 1 /\ summaries' = <<>>
        /\ UNCHANGED aggregate
    BY <1>1 DEF Launch, disk
  <2>2. Position' = 0
    BY <2>1 DEF Position
  <2>3. summaries' = EntriesUpTo(Position)' /\ FinalUpTo(Position)'
    BY <2>1, <2>2 DEF EntriesUpTo, FinalUpTo
  <2> QED
    BY <2>1, <2>3, AggregateStays DEF AggregateInv
<1>2. CASE EnterMode
  <2>1. Position' = Position
    BY <1>2 DEF EnterMode, Position
  <2> QED
    BY <1>0, <1>2, <2>1 DEF EnterMode, disk
<1>3. CASE \/ HealthOk \/ CreateDir \/ WriteStarted \/ StartTrace
           \/ WriteSummary \/ Overload \/ RefuseExisting \/ Fail
           \/ \E i \in Planned : Record(i)
  <2>1. /\ pc \in InMode /\ pc' \in InMode
        /\ UNCHANGED <<aggregate, summaries, mode, cond>>
        /\ pc' = "unwind" /\ ending' = "open" => cond' = Conditions + 1
    BY <1>3 DEF HealthOk, CreateDir, WriteStarted, StartTrace, WriteSummary,
       Overload, TraceDone, RefuseExisting, Fail, Record, InMode, Filling,
       disk, loop, AggregateInv
  <2>2. Position' = Position
    BY <2>1 DEF Position, InMode, Filling
  <2> QED
    BY <1>0, <2>1, <2>2 DEF InMode, Filling
<1>4. CASE ModeDone
  <2>1. /\ pc = "look" /\ pc' = "unwind" /\ cond' = Conditions + 1
        /\ UNCHANGED <<aggregate, summaries, mode, cond>>
    BY <1>4 DEF ModeDone, NoneLeft, disk, loop, TypeInv, Types
  <2>2. Position' = Position
    BY <2>1 DEF Position
  <2> QED
    BY <1>0, <2>1, <2>2
<1>5. CASE HealthFails \/ CloseFails \/ Kill
  BY <1>5, AggregateStays
     DEF HealthFails, CloseFails, Kill, Abandon, disk, AggregateInv
<1>6. CASE Reuse
  <2>1. /\ pc \in InMode /\ cond <= Conditions /\ Cell \in Cells
        /\ Final(manifest[Cell])
        /\ summaries' = Append(summaries, Entry(Cell))
        /\ UNCHANGED <<manifest, summary, mode, aggregate>>
        /\ pc' = "look" /\ cond' = cond + 1
    <3>1. pc \in InMode /\ cond <= Conditions
      BY <1>6 DEF Reuse, NoneLeft, InMode, TypeInv, Types
    <3>2. Final(manifest[Cell])
      BY <1>6 DEF Reuse, Reusable, Final
    <3> QED
      BY <1>6, <3>1, <3>2, CellsInMode DEF Reuse, disk
  <2>2. PICK c \in Cells : c = Cell
    BY <2>1
  <2>3. Final(manifest'[c]) /\ Entry(c)' = Entry(c)
    BY <2>1, <2>2 DEF Entry
  <2> QED
    BY <2>1, <2>2, <2>3, OneMoreEntry
<1>7. CASE WriteComplete \/ MarkInvalid
  <2>1. PICK status \in {"complete", "invalid_harness"} :
            /\ WriteFinal(status)
            /\ status = "complete" => pc = "complete"
    BY <1>7 DEF WriteComplete, MarkInvalid
  <2>2. /\ pc \in InMode /\ cond <= Conditions
        /\ pc = "complete" => summary[Cell] = run
    BY <1>7 DEF WriteComplete, MarkInvalid, InMode, Filling, TypeInv,
       LoopInv, EvidenceInv, CurrentInv
  <2>3. PICK c \in Cells : c = Cell
    BY <2>2, CellsInMode
  <2>4. manifest'[c] = status /\ UNCHANGED summary
    BY <2>1, <2>3 DEF WriteFinal, TypeInv, Types
  <2>5. Entry(c)' = [cell |-> Cell,
                     from |-> IF status = "complete" THEN run ELSE None]
    BY <2>1, <2>2, <2>3, <2>4 DEF Entry
  <2>6. /\ summaries' = Append(summaries, Entry(c)')
        /\ UNCHANGED <<mode, aggregate>>
        /\ pc' = "look" /\ cond' = cond + 1
    BY <2>1, <2>5 DEF WriteFinal
  <2>7. Final(manifest'[c])
    BY <2>4 DEF Final
  <2> QED
    BY <2>2, <2>3, <2>6, <2>7, OneMoreEntry
<1>8. CASE Unwind
  <2>1. pc = "unwind" /\ UNCHANGED <<summaries, aggregate, cond>>
    BY <1>8 DEF Unwind, disk
  <2>2. CASE ending = "open"
    <3>1. cond = Conditions + 1 /\ mode' = mode + 1 /\ pc' = "mode"
      BY <1>8, <2>1, <2>2 DEF Unwind, AggregateInv
    <3>2. Position' = Position
      BY <2>1, <3>1 DEF Position, TypeInv, Types
    <3> QED
      BY <1>0, <2>1, <3>1, <3>2
  <2>3. CASE ending # "open"
    BY <1>8, <2>1, <2>3, AggregateStays DEF Unwind, AggregateInv
  <2> QED
    BY <2>2, <2>3
<1>9. CASE WriteAggregate
  <2>1. Position = Total
    <3>1. pc = "mode" /\ mode - 1 = Len(Modes) /\ Len(Modes) \in Nat
      BY <1>9 DEF WriteAggregate, TypeInv, Types
    <3>2. Position = Conditions * Len(Modes) + 0
      BY <3>1 DEF Position
    <3> QED
      BY <3>1, <3>2 DEF Total
  <2>2. aggregate' = EntriesUpTo(Total) /\ FinalUpTo(Total)
    BY <1>9, <2>1 DEF WriteAggregate, AggregateInv
  <2>3. aggregate' = EntriesUpTo(Total)' /\ FinalUpTo(Total)'
    BY <2>2, EntriesStay DEF EntriesUpTo, FinalUpTo
  <2> QED
    BY <1>9, <2>3 DEF WriteAggregate, AggregateInv
<1>10. CASE \/ \E g \in Gateways : Bind(g) \/ Exit(g)
            \/ \E c \in Cells : Archive(c)
            \/ UNCHANGED vars
  <2>1. UNCHANGED <<pc, mode, cond, summaries, aggregate, ending>>
    BY <1>10 DEF Bind, Exit, Archive, vars, disk, loop
  <2>2. Position' = Position
    BY <2>1 DEF Position
  <2>3. CASE pc = "off"
    BY <2>1, <2>3, AggregateStays DEF AggregateInv
  <2> QED
    BY <1>0, <2>1, <2>2, <2>3 DEF AggregateInv
<1> QED
  BY <1>1, <1>2, <1>3, <1>4, <1>5, <1>6, <1>7, <1>8, <1>9, <1>10
     DEF Next, Unkilled, Harness

(* What a resumed matrix reports is what was measured: each finished       *)
(* condition is whole, and the file for the whole matrix has the evidence  *)
(* on disk, in its order and once each (final.py, run_final).              *)
THEOREM ReportedAsMeasured == Spec => []EvidenceAccounted
<1>1. AggregateInv => AggregateIsTheMatrix
  BY DEF AggregateInv, AggregateIsTheMatrix, EntriesUpTo, Total
<1>2. Spec => []AggregateInv
  BY TypeCorrect, EvidenceInit, EvidenceStep, AggregateInit, AggregateStep,
     PTL DEF Spec
<1> QED
  BY <1>1, <1>2, EvidenceWhole, PTL DEF EvidenceAccounted

-----------------------------------------------------------------------------
(* The contract                                                            *)

(* The evidence of a finished condition stays; only the condition that the *)
(* loops have come to gets some.                                           *)
LEMMA VerdictStays ==
    ASSUME TypeInv, EvidenceInv, [Next]_vars, NEW c \in Cells
    PROVE  /\ Final(manifest[c]) =>
                  Final(manifest'[c]) /\ Verdict(c)' = Verdict(c)
           /\ Final(manifest'[c]) => Final(manifest[c]) \/ c = Cell
<1>1. Final(manifest[c]) => records'[c] = records[c]
  <2>1. ASSUME NEW i \in Planned, Record(i), Final(manifest[c])
        PROVE  records'[c] = records[c]
    <3>1. c # Cell
      BY <2>1 DEF Record, EvidenceInv, CurrentInv
    <3> QED
      BY <2>1, <3>1 DEF Record, TypeInv, Types
  <2>2. ASSUME NEW d \in Cells, Archive(d), Final(manifest[c])
        PROVE  records'[c] = records[c]
    BY <2>2 DEF Archive, TypeInv, Types
  <2> QED
    BY <2>1, <2>2 DEF Next, Unkilled, Harness, Launch, EnterMode, HealthOk,
       HealthFails, ModeDone, Reuse, RefuseExisting, CreateDir, WriteStarted,
       StartTrace, WriteSummary, Overload, WriteComplete, MarkInvalid,
       WriteFinal, Fail, Unwind, CloseFails, WriteAggregate, Bind, Exit, Kill,
       Abandon, vars, disk
<1>2. Final(manifest'[c]) => Final(manifest[c]) \/ c = Cell
  <2>1. CASE WriteStarted \/ WriteComplete \/ MarkInvalid
    BY <2>1 DEF WriteStarted, WriteComplete, MarkInvalid, WriteFinal, TypeInv,
       Types
  <2>2. ASSUME NEW d \in Cells, Archive(d)
        PROVE  Final(manifest'[c]) => Final(manifest[c])
    BY <2>2 DEF Archive, TypeInv, Types, Final, Statuses
  <2> QED
    BY <2>1, <2>2 DEF Next, Unkilled, Harness, Launch, EnterMode, HealthOk,
       HealthFails, ModeDone, Reuse, RefuseExisting, CreateDir, StartTrace,
       Record, WriteSummary, Overload, Fail, Unwind, CloseFails,
       WriteAggregate, Bind, Exit, Kill, Abandon, vars, disk
<1>3. Final(manifest[c]) => manifest'[c] = manifest[c]
  BY FinalStays
<1> QED
  BY <1>1, <1>2, <1>3 DEF Verdict

(* The loops go through every condition, and through each one once.        *)
LEMMA EveryCell ==
    ASSUME NEW c \in Cells
    PROVE  \E n \in 1..Total :
               CellAt(n) = c /\ \A k \in 1..Total : CellAt(k) = c => k = n
<1>1. PICK i \in 1..Len(Modes), j \in 1..Conditions : c = <<Modes[i], j>>
  BY DEF Cells, Range
<1> DEFINE p == i - 1
           r == j - 1
           n == Conditions * p + r + 1
<1>2. p \in Nat /\ r \in 0..(Conditions - 1) /\ p + 1 = i /\ r + 1 = j
  OBVIOUS
<1>3. Conditions * p \in Nat /\ Conditions * Len(Modes) \in Nat
      /\ Len(Modes) \in Nat
  BY <1>2
<1>4. Conditions * p + Conditions <= Conditions * Len(Modes)
  <2>1. p < Len(Modes)
    BY <1>2, <1>3
  <2> HIDE DEF p
  <2>2. Conditions * Len(Modes) >= Conditions * p + Conditions
    BY <1>2, <1>3, <2>1, Product
  <2> QED
    BY <1>3, <2>2
<1>5. Total = Conditions * Len(Modes)
  BY <1>3 DEF Total
<1> HIDE DEF p, r
<1>6. n \in 1..Total /\ n - 1 = Conditions * p + r
  BY <1>2, <1>3, <1>4, <1>5
<1>7. (n - 1) \div Conditions = p /\ (n - 1) % Conditions = r
  BY <1>2, <1>6, Division
<1> HIDE DEF n
<1>8. CellAt(n) = c
  BY <1>1, <1>2, <1>7 DEF CellAt
<1>9. ASSUME NEW k \in 1..Total, CellAt(k) = c
      PROVE  k = n
  <2> DEFINE q == (k - 1) \div Conditions
             m == (k - 1) % Conditions
  <2>1. k - 1 \in Nat /\ k - 1 < Conditions * Len(Modes)
    BY <1>3, <1>5
  <2>2. q \in Nat /\ m \in 0..(Conditions - 1) /\ k - 1 = Conditions * q + m
    BY <2>1
  <2>3. Modes[q + 1] = Modes[i] /\ m + 1 = j
    BY <1>1, <1>9 DEF CellAt
  <2> HIDE DEF q, m
  <2>4. q < Len(Modes)
    <3> SUFFICES ASSUME ~ q < Len(Modes)
                 PROVE  FALSE
      OBVIOUS
    <3>1. Conditions * q \in Nat
      BY <2>2
    <3>2. CASE q = Len(Modes)
      BY <1>3, <2>1, <2>2, <3>1, <3>2
    <3>3. CASE Len(Modes) < q
      <4>1. Conditions * q >= Conditions * Len(Modes) + Conditions
        BY <1>3, <2>2, <3>3, Product
      <4> QED
        BY <1>3, <2>1, <2>2, <3>1, <4>1
    <3> QED
      BY <1>3, <2>2, <3>2, <3>3
  <2>5. q + 1 = i
    <3>1. q + 1 \in DOMAIN Modes /\ i \in DOMAIN Modes
      BY <1>3, <2>2, <2>4
    <3> QED
      BY <2>3, <3>1 DEF IsInjective
  <2>6. q = p /\ m = r
    BY <1>2, <2>2, <2>3, <2>5
  <2> QED
    BY <1>6, <2>1, <2>2, <2>6
<1> QED
  BY <1>6, <1>8, <1>9

(* The file for the whole matrix tells the evidence of every condition.    *)
LEMMA AllTold ==
    AggregateInv /\ aggregate # None =>
        \A c \in Cells : Final(manifest[c]) /\ Told(c) = Verdict(c)
<1> SUFFICES ASSUME AggregateInv, aggregate # None, NEW c \in Cells
             PROVE  Final(manifest[c]) /\ Told(c) = Verdict(c)
  OBVIOUS
<1>1. /\ aggregate = [n \in 1..Total |-> Entry(CellAt(n))]
      /\ \A n \in 1..Total : Final(manifest[CellAt(n)])
  BY DEF AggregateInv, EntriesUpTo, FinalUpTo
<1>2. PICK n \in 1..Total :
          CellAt(n) = c /\ \A k \in 1..Total : CellAt(k) = c => k = n
  BY EveryCell
<1>3. DOMAIN aggregate = 1..Total /\ aggregate[n] = Entry(c)
      /\ \A k \in DOMAIN aggregate : aggregate[k].cell = CellAt(k)
  BY <1>1, <1>2 DEF Entry
<1> QED
  BY <1>1, <1>2, <1>3 DEF Told

(* The matrix is written when the loops have gone through all of it.       *)
LEMMA WholeWritten ==
    ASSUME TypeInv, AggregateInv, WriteAggregate
    PROVE  aggregate' = EntriesUpTo(Total) /\ FinalUpTo(Total)
<1>1. pc = "mode" /\ mode - 1 = Len(Modes) /\ Len(Modes) \in Nat
  BY DEF WriteAggregate, TypeInv, Types
<1>2. Position = Conditions * Len(Modes) + 0
  BY <1>1 DEF Position
<1>3. Position = Total
  BY <1>1, <1>2 DEF Total
<1> QED
  BY <1>1, <1>3 DEF WriteAggregate, AggregateInv

(* What a finished condition consists of.                                  *)
LEMMA VerdictType ==
    TypeInv => \A c \in Cells : Final(manifest[c]) => Verdict(c) \in Outcomes
BY DEF TypeInv, Types, Verdict, Outcomes, Final

(* A condition that ends is settled; every other step of the loops leaves  *)
(* all evidence as it is.                                                  *)
LEMMA EvidenceMoves ==
    ASSUME TypeInv, TypeInv', EvidenceInv, [Next]_vars
    PROVE  \/ \A c \in Cells : Verdict(c)' = Verdict(c)
           \/ \E c \in Cells :
                  /\ Verdict(c) = None /\ Verdict(c)' \in Outcomes
                  /\ \A d \in Cells \ {c} : Verdict(d)' = Verdict(d)
<1>1. \A c \in Cells :
          Verdict(c)' # Verdict(c) => ~Final(manifest[c]) /\ Final(manifest'[c])
  BY VerdictStays DEF Verdict
<1>2. ASSUME NEW c \in Cells, Verdict(c)' # Verdict(c)
      PROVE  /\ Verdict(c) = None /\ Verdict(c)' \in Outcomes
             /\ \A d \in Cells \ {c} : Verdict(d)' = Verdict(d)
  <2>1. ~Final(manifest[c]) /\ Final(manifest'[c]) /\ c = Cell
    BY <1>1, <1>2, VerdictStays
  <2>2. \A d \in Cells \ {c} : Verdict(d)' = Verdict(d)
    BY <1>1, <2>1, VerdictStays
  <2>3. Verdict(c) = None
    BY <2>1 DEF Verdict
  <2>4. Verdict(c)' \in Outcomes
    BY <2>1 DEF Verdict, Outcomes, Final, TypeInv, Types
  <2> QED
    BY <2>2, <2>3, <2>4
<1> QED
  BY <1>2

(* A step of the matrix settles a condition, publishes or does neither.    *)
LEMMA MatrixStep ==
    ASSUME TypeInv, TypeInv', EvidenceInv, AggregateInv, AggregateInv',
           [Next]_vars
    PROVE  [Contract!Next]_(Contract!vars)
<1> DEFINE E == [c \in Cells |-> Verdict(c)]
           P == IF aggregate = None THEN None ELSE [c \in Cells |-> Told(c)]
<1>1. aggregate # None => P = E /\ \A c \in Cells : Final(manifest[c])
  BY AllTold
<1>2. aggregate' # None => P' = E' /\ \A c \in Cells : Final(manifest'[c])
  <2>1. (AggregateInv /\ aggregate # None =>
            \A c \in Cells : Final(manifest[c]) /\ Told(c) = Verdict(c))'
    BY AllTold, PTL
  <2> QED
    BY <2>1
<1>3. Contract!vars = <<E, P>> /\ Contract!vars' = <<E', P'>>
  BY DEF Contract!vars
<1>4. CASE UNCHANGED aggregate
  <2>1. P' = P
    <3>1. CASE aggregate = None
      BY <1>4, <3>1
    <3>2. CASE aggregate # None
      <4>1. E' = E
        BY <1>1, <3>2, VerdictStays
      <4> HIDE DEF E, P
      <4> QED
        BY <1>1, <1>2, <1>4, <3>2, <4>1
    <3> QED
      BY <3>1, <3>2
  <2>2. CASE \A c \in Cells : Verdict(c)' = Verdict(c)
    <3>1. E' = E
      BY <2>2
    <3> HIDE DEF E, P
    <3> QED
      BY <1>3, <2>1, <3>1
  <2>3. ASSUME NEW c \in Cells, Verdict(c) = None, Verdict(c)' \in Outcomes,
               \A d \in Cells \ {c} : Verdict(d)' = Verdict(d)
        PROVE  Contract!Settle(c)
    <3>1. E' = [E EXCEPT ![c] = E'[c]] /\ E[c] = None /\ E'[c] \in Outcomes
      BY <2>3
    <3> QED
      BY <2>1, <3>1 DEF Contract!Settle
  <2> QED
    BY <2>2, <2>3, EvidenceMoves DEF Contract!Next
<1>5. CASE aggregate' # aggregate
  <2>1. WriteAggregate
    BY <1>5 DEF Next, Unkilled, Harness, Launch, EnterMode, HealthOk,
       HealthFails, ModeDone, Reuse, RefuseExisting, CreateDir, WriteStarted,
       StartTrace, Record, WriteSummary, Overload, WriteComplete, MarkInvalid,
       WriteFinal, Fail, Unwind, CloseFails, Bind, Exit, Kill, Archive,
       Abandon, vars, disk
  <2>2. aggregate' # None
    BY <1>5, <2>1, WholeWritten DEF AggregateInv
  <2>3. UNCHANGED <<manifest, records>>
    BY <2>1 DEF WriteAggregate
  <2>4. E' = E
    BY <2>3 DEF Verdict
  <2>5. \A c \in Cells : E[c] # None
    BY <1>2, <2>2, <2>3, VerdictType
  <2>6. Contract!Publish
    <3>1. P' = E
      <4> HIDE DEF E, P
      <4> QED
        BY <1>2, <2>2, <2>4
    <3> QED
      BY <2>4, <2>5, <3>1 DEF Contract!Publish
  <2> QED
    BY <2>6 DEF Contract!Next
<1> QED
  BY <1>4, <1>5

(* The analysis gets the evidence of each condition once and for good, and *)
(* the whole matrix when there is all of it, however often the harness is  *)
(* interrupted and resumed (final.py, run_final and                        *)
(* _load_existing_summary).                                                *)
THEOREM MatrixImplementsContract == Spec => ImplementsContract
<1>1. Init => Contract!Init
  BY DEF Init, Contract!Init, Verdict, Final, Statuses
<1>2. Spec => [](TypeInv /\ EvidenceInv /\ AggregateInv)
  BY TypeCorrect, EvidenceInit, EvidenceStep, AggregateInit, AggregateStep,
     PTL DEF Spec
<1> QED
  BY <1>1, <1>2, MatrixStep, PTL
     DEF Spec, ImplementsContract, Contract!Spec
=============================================================================
