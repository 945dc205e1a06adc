------------------------- MODULE ExperimentsProofs -------------------------
(***************************************************************************)
(* The drivers of EXP-001 and EXP-002 and what they start, each for every  *)
(* value of its constants: CleanMeasurement and EvidenceIsWhole of         *)
(* Measurement, OneRecordEach and OpenLoopKept of OpenLoop, and            *)
(* SamplerAccounted of GpuMonitor.                                         *)
(***************************************************************************)
EXTENDS MCExperiments, FiniteSetTheorems, SequenceTheorems, TLAPS

Records == [by : Nat, via : Nat]

(* Where a gateway has been started for this window and not yet stopped,   *)
WithGateway == {"begin", "warmup", "traffic", "abort", "raised", "sampled",
                "complete", "close"}

(* ... and where it may be, or not.                                        *)
Unsettled == {"wait", "fail"}

Types ==
    /\ pilot \in BOOLEAN
    /\ invocation \in Nat
    /\ pc \in WithGateway \union Unsettled \union
                {"down", "spawn", "aggregate"}
    /\ at \in Conditions
    /\ listening \in Nat
    /\ requests \in [Conditions -> Seq(Records)]

(* The gateway that answers is the child of this invocation, started for   *)
(* this window, and another can only be one that was killed; the           *)
(* calibration starts none.                                                *)
GatewayInv ==
    ~crashed =>
        /\ own => listening = at[1] /\ ~stuck
        /\ ~own => (stuck <=> listening # 0)
        /\ pilot /\ pc \in WithGateway => own
        /\ own => pilot /\ pc \in WithGateway \union Unsettled
        /\ ~pilot => ~stuck

SamplerInv ==
    sampler => pc \in {"traffic", "sampled",
                       IF pilot THEN "abort" ELSE "raised"}

CalibrationInv == ~pilot => at[1] = 1 /\ pc \notin {"spawn", "wait"}

Inv ==
    /\ Types /\ CalibrationInv /\ GatewayInv /\ SamplerInv
    /\ MeasuredAsConfigured

-----------------------------------------------------------------------------
(* No gateway and no sampler at first, ...                                 *)
LEMMA InitInv == Init => Inv
<1> SUFFICES ASSUME Init
             PROVE  Inv
  OBVIOUS
<1>1. Types /\ CalibrationInv
  BY MeasurementAssumption
     DEF Init, Types, CalibrationInv, Conditions, Records, WithGateway,
         Unsettled
<1>2. GatewayInv /\ SamplerInv
  BY DEF Init, GatewayInv, SamplerInv, WithGateway, Unsettled
<1>3. MeasuredAsConfigured
  BY DEF Init, MeasuredAsConfigured, Conditions
<1> QED
  BY <1>1, <1>2, <1>3 DEF Inv

(* One more record, from the gateway that listens.                         *)
LEMMA RecordInv ==
    ASSUME Inv, Record
    PROVE  Inv'
<1> USE DEF Inv, Types
<1>1. Written \in Records
  BY DEF Written, Records
<1>2. requests'[at] = Append(requests[at], Written)
      /\ \A c \in Conditions \ {at} : requests'[c] = requests[c]
  BY DEF Record
<1>3. Types'
  BY <1>1 DEF Record, gateway
<1>4. CalibrationInv' /\ GatewayInv' /\ SamplerInv'
  BY DEF Record, CalibrationInv, GatewayInv, SamplerInv, gateway
<1>5. MeasuredAsConfigured'
  <2> SUFFICES ASSUME pilot, ~crashed, NEW c \in Conditions,
                      NEW k \in 1..Len(requests'[c])
               PROVE  requests'[c][k].via = c[1]
    BY DEF MeasuredAsConfigured, Record
  <2>1. CASE c # at
    BY <1>2, <2>1 DEF MeasuredAsConfigured
  <2>2. CASE c = at
    <3>1. listening = at[1]
      BY DEF GatewayInv, Record, WithGateway
    <3>2. CASE k = Len(requests[at]) + 1
      BY <1>1, <1>2, <2>2, <3>1, <3>2 DEF Written
    <3>3. CASE k \in 1..Len(requests[at])
      <4>1. requests'[c][k] = requests[at][k]
        BY <1>1, <1>2, <2>2, <3>3
      <4> QED
        BY <2>2, <3>3, <4>1 DEF MeasuredAsConfigured
    <3> QED
      BY <1>1, <1>2, <2>2, <3>2, <3>3
  <2> QED
    BY <2>1, <2>2
<1> QED
  BY <1>3, <1>4, <1>5

(* ... and none left by any step.                                          *)
LEMMA StepInv == Inv /\ [Next]_vars => Inv'
<1> SUFFICES ASSUME Inv, [Next]_vars
             PROVE  Inv'
  OBVIOUS
<1>1. CASE Record
  BY <1>1, RecordInv
<1>2. ASSUME UNCHANGED requests, UNCHANGED pilot, crashed => crashed'
      PROVE  MeasuredAsConfigured'
  BY <1>2 DEF Inv, MeasuredAsConfigured
<1> USE DEF Inv, Types, CalibrationInv, GatewayInv, SamplerInv, WithGateway,
            Unsettled, Goto, gateway
<1>3. CASE Start
  BY <1>2, <1>3, MeasurementAssumption DEF Start, files, Conditions
<1>4. CASE Spawn
  <2>1. /\ pc = "spawn" /\ pc' = "wait"
        /\ UNCHANGED <<invocation, at, stuck, sampler, crashed, pilot, files>>
        /\ IF listening = 0 THEN own' /\ listening' = at[1]
           ELSE ~own' /\ listening' = listening
    BY <1>4 DEF Spawn
  <2>2. Types' /\ CalibrationInv' /\ SamplerInv'
    BY <2>1 DEF files, Conditions
  <2>3. GatewayInv'
    BY <2>1
  <2> QED
    BY <1>2, <2>1, <2>2, <2>3 DEF files
<1>5. CASE Wait \/ Begin \/ WarmUp \/ Return \/ Aborted \/ Aggregate
  BY <1>2, <1>5 DEF Wait, Begin, WarmUp, Return, Aborted, Aggregate, files,
                    driver
<1>6. CASE Raise
  BY <1>2, <1>6 DEF Raise, RunRaises, files
<1>7. CASE SamplerEnds \/ Summarize
  BY <1>2, <1>7 DEF SamplerEnds, Summarize, files
<1>8. CASE Complete
  <2>1. at' \in Conditions /\ at'[1] = at[1]
    BY <1>8, MeasurementAssumption DEF Complete, LastRate, Conditions
  <2> QED
    BY <1>2, <1>8, <2>1 DEF Complete
<1>9. ASSUME StopGateway, UNCHANGED <<pilot, crashed>>,
             pc' \notin WithGateway
      PROVE  GatewayInv'
  <2>1. at[1] \in Nat \ {0}
    BY MeasurementAssumption DEF Conditions
  <2> QED
    BY <1>9, <2>1 DEF StopGateway
<1>10. CASE Close
  <2>1. at' \in Conditions /\ listening' \in Nat
    BY <1>10, MeasurementAssumption
       DEF Close, LastWait, Conditions, StopGateway
  <2>2. pc' \in {"spawn", "aggregate", "fail"}
    BY <1>10 DEF Close
  <2>3. ~pilot => at[1] = 1 /\ at' = at /\ pc' # "spawn"
    BY <1>10 DEF Close, LastWait
  <2>4. GatewayInv'
    BY <1>9, <1>10, <2>2 DEF Close
  <2> QED
    BY <1>2, <1>10, <2>1, <2>2, <2>3, <2>4 DEF Close, files
<1>11. CASE Fail
  <2>1. listening' \in Nat
    BY <1>11 DEF Fail, StopGateway
  <2>2. GatewayInv'
    BY <1>9, <1>11 DEF Fail
  <2> QED
    BY <1>2, <1>11, <2>1, <2>2 DEF Fail, files
<1>12. CASE Break
  BY <1>2, <1>12 DEF Break, files, driver
<1>13. CASE Crash \/ Buried
  BY <1>2, <1>13 DEF Crash, Buried, files
<1>14. CASE UNCHANGED vars
  BY <1>14 DEF vars, MeasuredAsConfigured
<1> QED
  BY <1>1, <1>3, <1>4, <1>5, <1>6, <1>7, <1>8, <1>10, <1>11, <1>12, <1>13,
     <1>14
     DEF Next, Steps

(* No step that raises spoils what is measured after it: every condition   *)
(* was measured on the gateway of its window, and no invocation leaves a   *)
(* sampler or a gateway that answers, unless it was killed.                *)
THEOREM MeasuredCleanly == Spec => []CleanMeasurement
<1>1. Inv => CleanMeasurement
  BY DEF Inv, GatewayInv, SamplerInv, CleanMeasurement, NothingLeft,
         WithGateway, Unsettled
<1> QED
  BY <1>1, InitInv, StepInv, PTL DEF Spec

-----------------------------------------------------------------------------
(* The files: what is in them of one invocation.                           *)

Marks == {"none", "started", "complete"}

FileTypes ==
    /\ results \in Seq(Records)
    /\ summary \in [Conditions -> Seq(Records)]
    /\ manifest \in [Conditions -> Marks \X Nat]
    /\ summaries \in Seq(Conditions \X Seq(Records))

(* The conditions that this invocation has not begun.                      *)
Ahead(c) ==
    \/ c[1] > at[1] \/ (c[1] = at[1] /\ c[2] > at[2])
    \/ c = at /\ pc \in {"spawn", "wait", "begin"}

(* A manifest names the last invocation that has begun the condition and   *)
(* can have written its records.                                           *)
MarkInv ==
    /\ pc # "down" => invocation > 0
    /\ \A c \in Conditions :
        /\ manifest[c][2] <= invocation
        /\ pc # "down" /\ Ahead(c) => manifest[c][2] < invocation
        /\ \A k \in 1..Len(requests[c]) : requests[c][k].by <= manifest[c][2]

(* The results are the end of the file; what is before them is old.        *)
Ending ==
    /\ Len(results) <= Len(requests[at])
    /\ \A k \in 1..Len(results) :
        /\ results[k].by = invocation
        /\ requests[at][Len(requests[at]) - Len(results) + k] = results[k]
    /\ \A k \in 1..Len(requests[at]) - Len(results) :
        requests[at][k].by < invocation

EndingInv ==
    /\ pc \in {"warmup", "traffic", "abort", "raised", "sampled", "complete"}
        => manifest[at] = <<"started", invocation>>
    /\ pc = "warmup" =>
        \A k \in 1..Len(requests[at]) : requests[at][k].by < invocation
    /\ pc \in {"traffic", "sampled", "complete"} => Ending
    /\ pc \in {"sampled", "complete"} => Len(results) = Load
    /\ pc = "complete" => summary[at] = results

FileInv == FileTypes /\ MarkInv /\ EndingInv /\ CompleteIsWhole

(* The driver's steps that touch no file and stay at their condition.      *)
Quiet ==
    UNCHANGED <<invocation, at, requests, manifest, summary, summaries>>

(* There are no files at first.                                            *)
LEMMA FileInit == Init => FileInv
<1> SUFFICES ASSUME Init
             PROVE  FileInv
  OBVIOUS
<1>1. FileTypes
  BY DEF Init, FileTypes, Marks
<1>2. MarkInv /\ EndingInv /\ CompleteIsWhole
  BY DEF Init, MarkInv, EndingInv, CompleteIsWhole
<1> QED
  BY <1>1, <1>2 DEF FileInv

(* What the lists and files consist of.                                    *)
LEMMA FileTypesStep == Inv /\ FileInv /\ [Next]_vars => FileTypes'
<1> SUFFICES ASSUME Inv, FileInv, [Next]_vars
             PROVE  FileTypes'
  OBVIOUS
<1>1. Written \in Records /\ at \in Conditions
  BY DEF Inv, Types, Written, Records
<1>2. results \in Seq(Records) /\ summary \in [Conditions -> Seq(Records)]
      /\ manifest \in [Conditions -> Marks \X Nat]
      /\ summaries \in Seq(Conditions \X Seq(Records)) /\ invocation \in Nat
  BY DEF FileInv, FileTypes, Inv, Types
<1>3. results' \in {results, <<>>, Append(results, Written)}
  BY DEF Next, Steps, Start, Spawn, Wait, WarmUp, Return, SamplerEnds,
         Aborted, Close, Aggregate, Fail, Break, Buried, Crash, files, driver, Record, Raise,
         RunRaises, Begin, Complete, Summarize, vars
<1>4. summary' \in {summary, [summary EXCEPT ![at] = results]}
  BY DEF Next, Steps, Start, Spawn, Wait, WarmUp, Return, SamplerEnds,
         Aborted, Close, Aggregate, Fail, Break, Buried, Crash, files, driver, Record, Raise,
         RunRaises, Begin, Complete, Summarize, vars
<1>5. manifest' \in {manifest,
                     [manifest EXCEPT ![at] = <<"started", invocation>>],
                     [manifest EXCEPT ![at] = <<"complete", invocation>>]}
  BY DEF Next, Steps, Start, Spawn, Wait, WarmUp, Return, SamplerEnds,
         Aborted, Close, Aggregate, Fail, Break, Buried, Crash, files, driver, Record, Raise,
         RunRaises, Begin, Complete, Summarize, vars
<1>6. summaries' \in {summaries, <<>>, Append(summaries, <<at, results>>)}
  BY DEF Next, Steps, Start, Spawn, Wait, WarmUp, Return, SamplerEnds,
         Aborted, Close, Aggregate, Fail, Break, Buried, Crash, files, driver, Record, Raise,
         RunRaises, Begin, Complete, Summarize, vars
<1>7. results' \in Seq(Records)
  <2>1. Append(results, Written) \in Seq(Records) /\ <<>> \in Seq(Records)
    BY <1>1, <1>2
  <2> QED
    BY <1>2, <1>3, <2>1
<1>8. summary' \in [Conditions -> Seq(Records)]
  BY <1>1, <1>2, <1>4
<1>9. manifest' \in [Conditions -> Marks \X Nat]
  <2>1. {<<"started", invocation>>, <<"complete", invocation>>}
            \subseteq Marks \X Nat
    BY <1>2 DEF Marks
  <2> QED
    BY <1>1, <1>2, <1>5, <2>1
<1>10. summaries' \in Seq(Conditions \X Seq(Records))
  <2> DEFINE Entries == Conditions \X Seq(Records)
             entry == <<at, results>>
  <2>1. entry \in Entries
    BY <1>1, <1>2
  <2> HIDE DEF Entries, entry
  <2>2. summaries \in Seq(Entries)
    BY <1>2 DEF Entries
  <2>3. Append(summaries, entry) \in Seq(Entries) /\ <<>> \in Seq(Entries)
    BY <2>1, <2>2
  <2>4. summaries' \in Seq(Entries)
    BY <1>6, <2>2, <2>3 DEF entry
  <2> QED
    BY <2>4 DEF Entries
<1> QED
  BY <1>7, <1>8, <1>9, <1>10 DEF FileTypes

(* Records are never newer than the manifest, which is renewed first.      *)
LEMMA MarkStep == Inv /\ FileInv /\ [Next]_vars => MarkInv'
<1> SUFFICES ASSUME Inv, FileInv, [Next]_vars
             PROVE  MarkInv'
  OBVIOUS
<1>1. /\ invocation \in Nat /\ at \in Conditions
      /\ at[1] \in 1..Waits /\ at[2] \in 1..Rates
      /\ \A c \in Conditions : manifest[c][2] \in Nat
      /\ Waits \in Nat /\ Rates \in Nat
  BY MeasurementAssumption DEF Inv, Types, FileInv, FileTypes, Conditions
<1>2. ASSUME UNCHANGED <<invocation, at, requests, manifest>>,
             pc \in {"spawn", "wait"} \/ pc' \notin {"spawn", "wait", "begin"},
             pc # "down" \/ pc' = "down"
      PROVE  MarkInv'
  BY <1>2 DEF FileInv, MarkInv, Ahead
<1>3. CASE Start
  <2>1. invocation' = invocation + 1 /\ UNCHANGED <<requests, manifest>>
    BY <1>3 DEF Start, files
  <2> QED
    BY <1>1, <2>1 DEF FileInv, MarkInv
<1>4. CASE Spawn \/ Wait \/ WarmUp \/ Return \/ Aborted \/ Raise \/ Aggregate
           \/ Fail \/ Break \/ Crash
  BY <1>2, <1>4 DEF Spawn, Wait, WarmUp, Return, Aborted, Raise, RunRaises,
                    Aggregate, Fail, Break, Crash, Goto, files, driver
<1>5. CASE Begin
  <2>1. /\ pc = "begin" /\ pc' = "warmup" /\ UNCHANGED <<invocation, at>>
        /\ UNCHANGED requests /\ manifest'[at] = <<"started", invocation>>
        /\ \A c \in Conditions : c # at => manifest'[c] = manifest[c]
    BY <1>1, <1>5 DEF Begin, Goto, driver, FileInv, FileTypes
  <2>2. ASSUME NEW c \in Conditions, c # at
        PROVE  /\ manifest'[c][2] <= invocation
               /\ Ahead(c)' => manifest'[c][2] < invocation
               /\ \A k \in 1..Len(requests[c]) :
                      requests[c][k].by <= manifest'[c][2]
    BY <1>1, <2>1, <2>2 DEF FileInv, MarkInv, Ahead
  <2>3. /\ manifest'[at][2] = invocation /\ ~Ahead(at)'
        /\ \A k \in 1..Len(requests[at]) : requests[at][k].by <= invocation
    <3>1. ~Ahead(at)'
      BY <1>1, <2>1 DEF Ahead
    <3>2. \A k \in 1..Len(requests[at]) : requests[at][k].by <= manifest[at][2]
      BY <1>1 DEF FileInv, MarkInv
    <3>3. \A k \in 1..Len(requests[at]) : requests[at][k].by \in Nat
      <4>1. requests[at] \in Seq(Records)
        BY <1>1 DEF Inv, Types
      <4>2. \A k \in 1..Len(requests[at]) : requests[at][k] \in Records
        BY <4>1
      <4> QED
        BY <4>2 DEF Records
    <3>4. manifest[at][2] <= invocation /\ manifest[at][2] \in Nat
      BY <1>1 DEF FileInv, MarkInv
    <3>5. ASSUME NEW k \in 1..Len(requests[at])
          PROVE  requests[at][k].by <= invocation
      BY <1>1, <3>2, <3>3, <3>4, SMTT(30)
    <3> QED
      BY <2>1, <3>1, <3>5
  <2>4. pc' # "down" => invocation > 0
    BY <2>1 DEF FileInv, MarkInv
  <2> QED
    BY <1>1, <2>1, <2>2, <2>3, <2>4 DEF MarkInv
<1>6. CASE Record
  <2>1. /\ UNCHANGED <<pc, invocation, at, manifest>> /\ pc # "down"
        /\ \A c \in Conditions : c # at => requests'[c] = requests[c]
        /\ requests'[at] = Append(requests[at], Written)
        /\ manifest[at] = <<"started", invocation>>
    BY <1>1, <1>6 DEF Record, Inv, Types, FileInv, EndingInv
  <2>2. requests[at] \in Seq(Records) /\ Written \in Records
    BY <1>1 DEF Inv, Types, Written, Records
  <2>3. \A k \in 1..Len(requests'[at]) : requests'[at][k].by <= invocation
    <3>1. ASSUME NEW k \in 1..Len(requests'[at])
          PROVE  requests'[at][k].by <= invocation
      <4>1. CASE k = Len(requests[at]) + 1
        BY <1>1, <2>1, <2>2, <4>1 DEF Written
      <4>2. CASE k \in 1..Len(requests[at])
        <5>1. requests'[at][k] = requests[at][k]
          BY <2>1, <2>2, <4>2
        <5> QED
          BY <1>1, <2>1, <4>2, <5>1 DEF FileInv, MarkInv
      <4> QED
        BY <2>1, <2>2, <4>1, <4>2
    <3> QED
      BY <3>1
  <2>4. \A c \in Conditions : Ahead(c)' = Ahead(c)
    BY <2>1 DEF Ahead
  <2>5. ASSUME NEW c \in Conditions
        PROVE  \A k \in 1..Len(requests'[c]) :
                   requests'[c][k].by <= manifest[c][2]
    <3>1. CASE c = at
      BY <2>1, <2>3, <3>1, SMTT(30)
    <3>2. CASE c # at
      BY <2>1, <3>2 DEF FileInv, MarkInv
    <3> QED
      BY <3>1, <3>2
  <2> QED
    BY <2>1, <2>4, <2>5 DEF FileInv, MarkInv
<1>7. CASE Summarize \/ SamplerEnds \/ Buried
  BY <1>2, <1>7 DEF Summarize, SamplerEnds, Buried, Goto, files, FileInv,
                    MarkInv, Ahead
<1>8. CASE Complete
  <2>1. /\ pc = "complete" /\ UNCHANGED <<invocation, requests>>
        /\ \A c \in Conditions : manifest'[c][2] = manifest[c][2]
    <3>1. /\ pc = "complete" /\ UNCHANGED <<invocation, requests>>
          /\ manifest' = [manifest EXCEPT ![at] = <<"complete", invocation>>]
      BY <1>8 DEF Complete
    <3>2. manifest[at] = <<"started", invocation>>
      BY <3>1 DEF FileInv, EndingInv
    <3>3. manifest \in [Conditions -> Marks \X Nat]
      BY DEF FileInv, FileTypes
    <3> QED
      BY <3>1, <3>2, <3>3
  <2>2. \A c \in Conditions : Ahead(c)' => Ahead(c)
    BY <1>1, <1>8 DEF Complete, Goto, LastRate, Ahead, Conditions
  <2> QED
    BY <2>1, <2>2 DEF FileInv, MarkInv
<1>9. CASE Close
  <2>1. /\ pc = "close" /\ UNCHANGED <<invocation, requests, manifest>>
    BY <1>9 DEF Close, files
  <2>2. \A c \in Conditions : Ahead(c)' => Ahead(c)
    BY <1>1, <1>9 DEF Close, Goto, LastWait, Ahead, Conditions
  <2> QED
    BY <2>1, <2>2 DEF FileInv, MarkInv
<1>10. CASE UNCHANGED vars
  BY <1>10 DEF vars, FileInv, MarkInv, Ahead
<1> QED
  BY <1>3, <1>4, <1>5, <1>6, <1>7, <1>8, <1>9, <1>10 DEF Next, Steps

(* While a condition is measured, the file ends with its results.          *)
LEMMA EndingStep == Inv /\ FileInv /\ [Next]_vars => EndingInv'
<1> SUFFICES ASSUME Inv, FileInv, [Next]_vars
             PROVE  EndingInv'
  OBVIOUS
<1>1. /\ invocation \in Nat /\ at \in Conditions
      /\ requests \in [Conditions -> Seq(Records)]
      /\ requests[at] \in Seq(Records) /\ results \in Seq(Records)
      /\ Written \in Records /\ Load \in Nat
  BY MeasurementAssumption
     DEF Inv, Types, FileInv, FileTypes, Written, Records
<1>2. EndingInv
  BY DEF FileInv
<1>3. CASE pc' \in {"down", "spawn", "wait", "begin", "close", "fail",
                    "aggregate"}
  BY <1>3 DEF EndingInv
<1>4. CASE Begin
  <2>1. /\ pc = "begin" /\ pc' = "warmup"
        /\ UNCHANGED <<invocation, at, requests>>
        /\ manifest'[at] = <<"started", invocation>>
    BY <1>1, <1>4 DEF Begin, Goto, driver, FileInv, FileTypes
  <2>2. \A k \in 1..Len(requests[at]) : requests[at][k].by \in Nat
    <3>1. \A k \in 1..Len(requests[at]) : requests[at][k] \in Records
      BY <1>1
    <3> QED
      BY <3>1 DEF Records
  <2>3. /\ manifest[at][2] < invocation /\ manifest[at][2] \in Nat
        /\ \A k \in 1..Len(requests[at]) :
               requests[at][k].by <= manifest[at][2]
    BY <1>1, <2>1 DEF FileInv, FileTypes, MarkInv, Ahead
  <2>4. \A k \in 1..Len(requests[at]) : requests[at][k].by < invocation
    BY <1>1, <2>2, <2>3
  <2> QED
    BY <2>1, <2>4 DEF EndingInv
<1>5. CASE WarmUp /\ pc' = "traffic"
  <2>1. /\ pc = "warmup" /\ results' = <<>>
        /\ UNCHANGED <<invocation, at, requests, manifest>>
    BY <1>5 DEF WarmUp, Goto, files
  <2>2. Ending'
    BY <1>1, <1>2, <2>1 DEF EndingInv, Ending
  <2> QED
    BY <1>2, <1>5, <2>1, <2>2 DEF EndingInv
<1>6. CASE Record
  <2>1. /\ UNCHANGED <<pc, invocation, at, manifest>>
        /\ pc \in {"traffic", "abort", "raised"}
        /\ results' = Append(results, Written)
        /\ requests'[at] = Append(requests[at], Written)
    BY <1>1, <1>6 DEF Record
  <2>2. CASE pc # "traffic"
    BY <1>2, <2>1, <2>2 DEF EndingInv
  <2>3. CASE pc = "traffic"
    <3> DEFINE n == Len(results)
               m == Len(requests[at])
    <3>0. n \in Nat /\ m \in Nat /\ n <= m
      BY <1>1, <1>2, <2>3 DEF EndingInv, Ending
    <3>1. /\ n \in Nat /\ m \in Nat /\ n <= m
          /\ Len(results') = n + 1 /\ Len(requests'[at]) = m + 1
          /\ \A k \in 1..n : results'[k] = results[k]
          /\ \A k \in 1..m : requests'[at][k] = requests[at][k]
          /\ results'[n + 1] = Written /\ requests'[at][m + 1] = Written
      BY <1>1, <2>1, <3>0
    <3>2. ASSUME NEW k \in 1..n + 1
          PROVE  /\ results'[k].by = invocation
                 /\ requests'[at][m - n + k] = results'[k]
      <4>1. CASE k = n + 1
        <5> HIDE DEF n, m
        <5>1. m - n + k = m + 1
          BY <3>0, <4>1
        <5> QED
          BY <3>1, <4>1, <5>1 DEF Written
      <4>2. CASE k \in 1..n
        <5>1. m - n + k \in 1..m
          BY <3>1, <4>2
        <5> QED
          BY <1>2, <2>3, <3>1, <4>2, <5>1 DEF EndingInv, Ending
      <4> QED
        BY <3>1, <4>1, <4>2
    <3>3. \A k \in 1..m - n : requests'[at][k].by < invocation
      <4>1. \A k \in 1..m - n : k \in 1..m
        BY <3>1
      <4> QED
        BY <1>2, <2>3, <3>1, <4>1 DEF EndingInv, Ending
    <3>4. (m + 1) - (n + 1) = m - n
      BY <3>1
    <3> HIDE DEF n, m
    <3>5. Ending'
      <4>1. at' = at /\ invocation' = invocation
        BY <2>1
      <4>2. Len(results') <= Len(requests'[at'])
        BY <3>1, <4>1
      <4>3. Len(requests'[at']) - Len(results') = m - n
        BY <3>1, <3>4, <4>1
      <4>4. 1..Len(results') = 1..n + 1
        BY <3>1
      <4> QED
        BY <3>2, <3>3, <4>1, <4>2, <4>3, <4>4 DEF Ending
    <3> QED
      BY <1>2, <2>1, <2>3, <3>5 DEF EndingInv
  <2> QED
    BY <2>2, <2>3
<1>7. CASE Raise
  BY <1>2, <1>7 DEF Raise, RunRaises, Goto, files, EndingInv
<1>8. CASE Return
  BY <1>2, <1>8 DEF Return, Goto, files, driver, EndingInv, Ending
<1>9. CASE SamplerEnds
  BY <1>2, <1>9 DEF SamplerEnds, files, EndingInv, Ending
<1>10. CASE Aborted
  BY <1>2, <1>10 DEF Aborted, Goto, files, driver, EndingInv
<1>11. CASE Summarize
  <2>1. /\ pc = "sampled" /\ pc' = "complete" /\ summary'[at] = results
        /\ UNCHANGED <<invocation, at, results, requests, manifest>>
    BY <1>1, <1>11 DEF Summarize, Goto, FileInv, FileTypes
  <2> QED
    BY <1>2, <2>1 DEF EndingInv, Ending
<1>12. CASE UNCHANGED vars
  BY <1>2, <1>12 DEF vars, EndingInv, Ending
<1>13. ASSUME Start \/ Spawn \/ Wait \/ (WarmUp /\ pc' # "traffic")
              \/ Complete \/ Close \/ Aggregate \/ Fail \/ Break \/ Crash
       PROVE  pc' \in {"down", "spawn", "wait", "begin", "close", "fail",
                       "aggregate"}
  BY <1>13 DEF Start, Spawn, Wait, WarmUp, Complete, Close, Aggregate, Fail,
               Break, Crash, Goto
<1>14. CASE Buried
  BY <1>2, <1>14 DEF Buried, files, EndingInv, Ending
<1> QED
  BY <1>3, <1>4, <1>5, <1>6, <1>7, <1>8, <1>9, <1>10, <1>11, <1>12, <1>13,
     <1>14
     DEF Next, Steps

(* A condition is marked when the file ends with its block.                *)
LEMMA EndingIsBlock ==
    ASSUME Inv, FileInv, pc = "complete"
    PROVE  /\ Len(summary[at]) = Load
           /\ OneBlock(requests[at], summary[at], invocation)
<1> DEFINE before == Len(requests[at]) - Len(results)
<1>1. /\ requests[at] \in Seq(Records) /\ results \in Seq(Records)
      /\ summary[at] = results /\ Len(results) = Load /\ Ending
      /\ at \in Conditions /\ invocation \in Nat
  BY DEF Inv, Types, FileInv, FileTypes, EndingInv
<1>2. /\ Len(results) \in Nat /\ Len(requests[at]) \in Nat
      /\ Len(results) <= Len(requests[at])
  BY <1>1 DEF Ending
<1>3. /\ before \in 0..Len(requests[at])
      /\ before + Len(results) = Len(requests[at])
  BY <1>2
<1>4. \A k \in 1..Len(requests[at]) :
          k <= before \/ k > before + Len(results) =>
              requests[at][k].by # invocation
  <2>1. \A k \in 1..Len(requests[at]) :
            k <= before \/ k > before + Len(results) => k \in 1..before
    BY <1>2
  <2>2. \A k \in 1..before : requests[at][k].by < invocation
    BY <1>1 DEF Ending
  <2>3. ~(invocation < invocation)
    BY <1>1
  <2> QED
    BY <2>1, <2>2, <2>3
<1>5. \A k \in 1..Len(results) :
          results[k].by = invocation /\ requests[at][before + k] = results[k]
  BY <1>1 DEF Ending
<1>6. OneBlock(requests[at], results, invocation)
  <2>1. before + Len(results) <= Len(requests[at])
    BY <1>2, <1>3
  <2> HIDE DEF before
  <2> QED
    BY <1>3, <1>4, <1>5, <2>1 DEF OneBlock
<1> QED
  BY <1>1, <1>6

(* A condition that is marked is not touched until it is begun again.      *)
LEMMA CompleteStep == Inv /\ FileInv /\ [Next]_vars => CompleteIsWhole'
<1> SUFFICES ASSUME Inv, FileInv, [Next]_vars, NEW c \in Conditions,
                    manifest'[c][1] = "complete"
             PROVE  /\ Len(summary'[c]) = Load
                    /\ OneBlock(requests'[c], summary'[c], manifest'[c][2])
  BY DEF CompleteIsWhole
<1>1. /\ at \in Conditions /\ requests \in [Conditions -> Seq(Records)]
      /\ summary \in [Conditions -> Seq(Records)]
      /\ manifest \in [Conditions -> Marks \X Nat]
  BY DEF Inv, Types, FileInv, FileTypes
<1>2. CASE Complete /\ c = at
  <2>1. /\ manifest'[at] = <<"complete", invocation>> /\ pc = "complete"
        /\ UNCHANGED <<requests, summary>>
    BY <1>1, <1>2 DEF Complete
  <2> QED
    BY <1>2, <2>1, EndingIsBlock
<1>3. CASE ~(Complete /\ c = at)
  <2>1. manifest'[c] = manifest[c]
    <3>1. \/ UNCHANGED manifest
          \/ manifest' = [manifest EXCEPT ![at] = <<"started", invocation>>]
          \/ Complete
      BY DEF Next, Steps, Start, Spawn, Wait, WarmUp, Return, SamplerEnds,
             Aborted, Close, Aggregate, Fail, Break, Buried, Crash, files, driver, Record,
             Raise, RunRaises, Begin, Summarize, vars
    <3>2. CASE UNCHANGED manifest
      BY <3>2
    <3>3. CASE manifest' = [manifest EXCEPT ![at] = <<"started", invocation>>]
      BY <1>1, <3>3
    <3>4. CASE Complete
      BY <1>1, <1>3, <3>4 DEF Complete
    <3> QED
      BY <3>1, <3>2, <3>3, <3>4
  <2>2. requests'[c] = requests[c]
    <3>1. CASE Record
      <4>1. requests' = [requests EXCEPT ![at] = Append(@, Written)]
            /\ manifest[at][1] = "started"
        BY <3>1 DEF Record, FileInv, EndingInv
      <4>2. c # at
        BY <2>1, <4>1
      <4> QED
        BY <1>1, <4>1, <4>2
    <3>2. CASE ~Record
      BY <3>2 DEF Next, Steps, Start, Spawn, Wait, WarmUp, Return, Complete,
             SamplerEnds, Aborted, Close, Aggregate, Fail, Break, Buried, Crash, files,
             driver, Raise, RunRaises, Begin, Summarize, vars
    <3> QED
      BY <3>1, <3>2
  <2>3. summary'[c] = summary[c]
    <3>1. CASE Summarize
      <4>1. summary' = [summary EXCEPT ![at] = results]
            /\ manifest[at][1] = "started"
        BY <3>1 DEF Summarize, FileInv, EndingInv
      <4>2. c # at
        BY <2>1, <4>1
      <4> QED
        BY <1>1, <4>1, <4>2
    <3>2. CASE ~Summarize
      BY <3>2 DEF Next, Steps, Start, Spawn, Wait, WarmUp, Return, Complete,
             SamplerEnds, Aborted, Close, Aggregate, Fail, Break, Buried, Crash, files,
             driver, Raise, RunRaises, Begin, Record, vars
    <3> QED
      BY <3>1, <3>2
  <2>4. /\ Len(summary[c]) = Load
        /\ OneBlock(requests[c], summary[c], manifest[c][2])
    BY <2>1 DEF FileInv, CompleteIsWhole
  <2> QED
    BY <2>1, <2>2, <2>3, <2>4
<1> QED
  BY <1>2, <1>3

(* All of it is kept by every step.                                        *)
LEMMA FileStep == Inv /\ FileInv /\ [Next]_vars => FileInv'
BY FileTypesStep, MarkStep, EndingStep, CompleteStep DEF FileInv

-----------------------------------------------------------------------------
(* The aggregate lists the conditions row by row.                          *)

Place(w, r) == (w - 1) * Rates + r

(* Rows of a table do not overlap, ...                                     *)
LEMMA Rows ==
    ASSUME NEW n \in Nat, NEW a \in Nat, NEW b \in Nat, a < b
    PROVE  a * n + n <= b * n
<1> DEFINE d == b - a - 1
<1>1. d \in Nat /\ b = a + 1 + d
  OBVIOUS
<1>2. b * n = a * n + n + d * n
  BY <1>1
<1>3. d * n \in Nat /\ a * n \in Nat
  BY <1>1
<1> HIDE DEF d
<1> QED
  BY <1>2, <1>3

(* ... so that no two conditions have one place.                           *)
LEMMA OwnPlace ==
    ASSUME NEW v \in 1..Waits, NEW w \in 1..Waits,
           NEW q \in 1..Rates, NEW r \in 1..Rates
    PROVE  /\ Place(v, q) \in Nat \ {0}
           /\ Place(v, q) = Place(w, r) => v = w /\ q = r
           /\ v <= w => Place(v, q) <= Place(w, Rates)
<1>1. /\ v - 1 \in Nat /\ w - 1 \in Nat /\ Rates \in Nat
      /\ (v - 1) * Rates \in Nat /\ (w - 1) * Rates \in Nat
  BY MeasurementAssumption
<1>2. v < w => (v - 1) * Rates + Rates <= (w - 1) * Rates
  BY <1>1, Rows
<1>3. w < v => (w - 1) * Rates + Rates <= (v - 1) * Rates
  BY <1>1, Rows
<1> QED
  BY <1>1, <1>2, <1>3 DEF Place

(* An entry is the summary of its condition by the i-th invocation.        *)
Entry(e, w, r, i) ==
    e[1] = <<w, r>> /\ Len(e[2]) = Load /\ \A j \in 1..Load : e[2][j].by = i

(* The list has what comes before the condition the driver is at.          *)
ListInv ==
    /\ pc \in {"spawn", "wait"} => at[2] = 1
    /\ pc \in {"close", "aggregate"} => at[2] = Rates
    /\ pc = "aggregate" => LastWait
    /\ pc \in {"spawn", "wait", "begin", "warmup", "traffic", "sampled"} =>
        Len(summaries) = Place(at[1], at[2]) - 1
    /\ pc \in {"complete", "close", "aggregate"} =>
        Len(summaries) = Place(at[1], at[2])
    /\ pc # "down" => \A w \in 1..Waits, r \in 1..Rates :
        Place(w, r) <= Len(summaries) =>
            Entry(summaries[Place(w, r)], w, r, invocation)

(* Each condition is entered when its turn has come.                       *)
LEMMA ListStep == Inv /\ FileInv /\ ListInv /\ [Next]_vars => ListInv'
<1> SUFFICES ASSUME Inv, FileInv, ListInv, [Next]_vars
             PROVE  ListInv'
  OBVIOUS
<1>1. /\ at \in Conditions /\ at[1] \in 1..Waits /\ at[2] \in 1..Rates
      /\ at = <<at[1], at[2]>>
      /\ Waits \in Nat \ {0} /\ Rates \in Nat \ {0} /\ Len(summaries) \in Nat
  BY MeasurementAssumption DEF Inv, Types, FileInv, FileTypes, Conditions
<1>2. CASE Start
  <2>1. pc' \in {"spawn", "begin"} /\ at' = <<1, 1>> /\ summaries' = <<>>
    BY <1>2 DEF Start, Goto
  <2>2. Place(1, 1) = 1
    BY <1>1 DEF Place
  <2>3. \A w \in 1..Waits, r \in 1..Rates : ~(Place(w, r) <= 0)
    BY <1>1, OwnPlace
  <2> QED
    BY <2>1, <2>2, <2>3 DEF ListInv, Place
<1>3. CASE Complete
  <2>1. pc = "complete" /\ UNCHANGED <<invocation, summaries>>
    BY <1>3 DEF Complete
  <2>2. CASE LastRate
    BY <1>1, <1>3, <2>1, <2>2 DEF Complete, Goto, LastRate, ListInv, Place
  <2>3. CASE ~LastRate
    <3>1. pc' = "begin" /\ at' = <<at[1], at[2] + 1>>
      BY <1>1, <1>3, <2>3 DEF Complete, Goto
    <3>2. Place(at[1], at[2] + 1) - 1 = Place(at[1], at[2])
      BY <1>1 DEF Place
    <3> QED
      BY <2>1, <3>1, <3>2 DEF ListInv, Place
  <2> QED
    BY <2>2, <2>3
<1>4. CASE Close
  <2>1. pc = "close" /\ UNCHANGED <<invocation, summaries>> /\ at[2] = Rates
    BY <1>4 DEF Close, ListInv
  <2>2. CASE LastWait \/ stuck'
    <3>1. /\ pc' \in {"aggregate", "fail"} /\ UNCHANGED <<at, pilot>>
          /\ pc' = "aggregate" => LastWait
      BY <1>4, <2>2 DEF Close, Goto
    <3> QED
      BY <2>1, <3>1 DEF ListInv, Place, LastWait
  <2>3. CASE ~LastWait /\ ~stuck'
    <3>1. pc' = "spawn" /\ at' = <<at[1] + 1, 1>>
      BY <1>4, <2>3 DEF Close, Goto
    <3>2. Place(at[1] + 1, 1) - 1 = Place(at[1], Rates)
      <4>1. (at[1] + 1) - 1 = (at[1] - 1) + 1 /\ at[1] - 1 \in Nat
        BY <1>1
      <4> QED
        BY <1>1, <4>1, SMTT(30) DEF Place
    <3> QED
      BY <2>1, <3>1, <3>2 DEF ListInv, Place
  <2> QED
    BY <2>2, <2>3
<1>5. CASE Summarize
  <2> DEFINE n == Len(summaries)
             new == <<at, results>>
  <2>1. /\ pc = "sampled" /\ pc' = "complete" /\ UNCHANGED <<invocation, at>>
        /\ summaries' = Append(summaries, new)
    BY <1>5 DEF Summarize, Goto
  <2>2. /\ n \in Nat /\ Len(summaries') = n + 1 /\ summaries'[n + 1] = new
        /\ \A k \in 1..n : summaries'[k] = summaries[k]
    BY <1>1, <2>1 DEF FileInv, FileTypes
  <2>3. Entry(new, at[1], at[2], invocation)
    BY <1>1, <2>1 DEF FileInv, EndingInv, Ending, Entry
  <2>4. n + 1 = Place(at[1], at[2])
    BY <1>1, <2>1, OwnPlace DEF ListInv
  <2>5. ASSUME NEW w \in 1..Waits, NEW r \in 1..Rates, Place(w, r) <= n + 1
        PROVE  Entry(summaries'[Place(w, r)], w, r, invocation)
    <3> HIDE DEF n, new
    <3>1. Place(w, r) \in 1..n \/ Place(w, r) = n + 1
      BY <2>2, <2>5, OwnPlace
    <3>2. CASE Place(w, r) \in 1..n
      <4>1. Entry(summaries[Place(w, r)], w, r, invocation)
        BY <2>1, <2>2, <3>2 DEF ListInv, n
      <4> QED
        BY <2>2, <3>2, <4>1
    <3>3. CASE Place(w, r) = n + 1
      <4>1. w = at[1] /\ r = at[2]
        BY <1>1, <2>4, <3>3, OwnPlace
      <4> QED
        BY <2>2, <2>3, <3>3, <4>1
    <3> QED
      BY <3>1, <3>2, <3>3
  <2> QED
    BY <2>1, <2>2, <2>4, <2>5 DEF ListInv, Place
<1>6. CASE Aggregate \/ Fail \/ Break \/ Crash
  BY <1>6 DEF Aggregate, Fail, Break, Crash, Goto, files, driver, ListInv
<1>7. CASE Spawn \/ Wait \/ Begin \/ WarmUp \/ Record \/ Raise \/ Return
           \/ SamplerEnds \/ Aborted \/ Buried \/ UNCHANGED vars
  <2>1. UNCHANGED <<at, summaries, invocation, pilot>>
    BY <1>7 DEF Spawn, Wait, Begin, WarmUp, Record, Raise, RunRaises, Return,
                SamplerEnds, Aborted, Buried, driver, vars
  <2>2. \/ pc \in {"spawn", "wait", "begin", "warmup", "traffic"}
           /\ pc' \in {"wait", "begin", "warmup", "traffic", "sampled", "fail",
                       "abort", "raised"}
           /\ (pc' = "wait" => pc = "spawn")
        \/ pc' = pc \/ (pc = "abort" /\ pc' = "raised")
    BY <1>7 DEF Spawn, Wait, Begin, WarmUp, Record, Raise, Return,
                SamplerEnds, Aborted, Buried, Goto, vars
  <2> QED
    BY <2>1, <2>2 DEF ListInv, LastWait
<1> QED
  BY <1>2, <1>3, <1>4, <1>5, <1>6, <1>7 DEF Next, Steps

(* What is written at the end is the whole list.                           *)
LEMMA AggregateStep ==
    Inv /\ FileInv /\ ListInv /\ AggregateIsWhole /\ [Next]_vars
        => AggregateIsWhole'
<1> SUFFICES ASSUME Inv, FileInv, ListInv, AggregateIsWhole, [Next]_vars
             PROVE  AggregateIsWhole'
  OBVIOUS
<1>1. CASE Aggregate
  <2> DEFINE rows == IF pilot THEN Waits ELSE 1
  <2>1. /\ aggregate' = summaries /\ pc = "aggregate"
        /\ UNCHANGED <<pilot, invocation>>
    BY <1>1 DEF Aggregate, driver
  <2>2. /\ at[1] = rows /\ at[2] = Rates /\ rows \in 1..Waits
        /\ Len(summaries) = Place(rows, Rates)
        /\ Rates \in Nat \ {0} /\ Rates \in 1..Rates
    BY <2>1, MeasurementAssumption DEF ListInv, LastWait
  <2>3. Place(rows, Rates) = rows * Rates
    <3>1. rows - 1 \in Nat /\ rows = (rows - 1) + 1
      BY <2>2
    <3>2. ((rows - 1) + 1) * Rates = (rows - 1) * Rates + Rates
      BY <2>2, <3>1
    <3> QED
      BY <3>1, <3>2 DEF Place
  <2>4. invocation \in 1..invocation
    BY <2>1 DEF FileInv, MarkInv, Inv, Types
  <2>5. ASSUME NEW w \in 1..rows, NEW r \in 1..Rates
        PROVE  Entry(summaries[(w - 1) * Rates + r], w, r, invocation)
    <3>1. w \in 1..Waits /\ w <= rows
      BY <2>2, MeasurementAssumption
    <3>2. Place(w, r) <= Len(summaries)
      BY <2>2, <3>1, OwnPlace
    <3>3. Entry(summaries[Place(w, r)], w, r, invocation)
      BY <2>1, <3>1, <3>2 DEF ListInv
    <3> QED
      BY <3>3 DEF Place
  <2> HIDE DEF rows
  <2>6. Len(summaries) = rows * Rates
        /\ \E i \in 1..invocation : \A w \in 1..rows, r \in 1..Rates :
            LET e == summaries[(w - 1) * Rates + r]
            IN /\ e[1] = <<w, r>> /\ Len(e[2]) = Load
               /\ \A j \in 1..Load : e[2][j].by = i
    BY <2>2, <2>3, <2>4, <2>5 DEF Entry
  <2> QED
    BY <2>1, <2>6, SMTT(30) DEF AggregateIsWhole, rows
<1>2. CASE ~Aggregate
  <2>1. /\ UNCHANGED <<aggregate, pilot>>
        /\ invocation' = invocation \/ invocation' = invocation + 1
    BY <1>2 DEF Next, Steps, Start, Spawn, Wait, WarmUp, Return, Complete,
             SamplerEnds, Aborted, Close, Fail, Break, Buried, Crash, files,
             driver, Raise,
             RunRaises, Begin, Record, Summarize, vars
  <2>2. 1..invocation \subseteq 1..invocation'
    BY <2>1 DEF Inv, Types
  <2> QED
    BY <2>1, <2>2 DEF AggregateIsWhole
<1> QED
  BY <1>1, <1>2

(* What an interrupted and repeated experiment leaves on disk is never a   *)
(* mixture: a condition that is marked complete has the summary of all the *)
(* records of the invocation that marked it, and the aggregate holds every *)
(* condition in its place, all by one invocation.                          *)
THEOREM EvidenceWhole == Spec => []EvidenceIsWhole
<1>1. Init => ListInv /\ AggregateIsWhole
  BY DEF Init, ListInv, AggregateIsWhole
<1>2. FileInv /\ AggregateIsWhole => EvidenceIsWhole
  BY DEF FileInv, EvidenceIsWhole
<1> QED
  BY <1>1, <1>2, InitInv, StepInv, FileInit, FileStep, ListStep,
     AggregateStep, PTL DEF Spec

-----------------------------------------------------------------------------
(* The traffic                                                             *)

TrafficTypes ==
    /\ pool \in PoolSizes /\ now \in Nat /\ busy \in Nat
    /\ task \in [Requests -> {"sleeping", "pooled", "sent", "answered",
                              "failed", "done"}]
    /\ actual \in [Requests -> Nat]
    /\ sentAt \in [Requests -> Nat]
    /\ file \in Seq(Requests)
    /\ verdict \in {"running", "valid", "overload"}

(* The file lists the tasks that are done, each once.                      *)
RecordsInv ==
    /\ \A k \in 1..Len(file) : task[file[k]] = "done"
    /\ \A j, k \in 1..Len(file) : file[j] = file[k] => j = k
    /\ \A r \in Requests :
        task[r] = "done" => \E k \in 1..Len(file) : file[k] = r

(* How long the event loop may have been blocked since a request was due.  *)
Latest(r) == Target[r] + MaxStall * Len(file)

(* While a task sleeps, neither the clock nor the append that blocks the   *)
(* loop is further than that.                                              *)
ClockInv ==
    \A r \in Requests :
        IF task[r] = "sleeping" THEN now <= Latest(r) /\ busy <= Latest(r)
        ELSE Target[r] <= actual[r] /\ actual[r] <= Latest(r)

(* With a connection for each request, nobody waits for one.               *)
PoolInv ==
    pool >= Cardinality(Requests) =>
        \A r \in Requests :
            /\ task[r] # "pooled"
            /\ task[r] # "sleeping" => sentAt[r] = actual[r]

VerdictInv ==
    /\ verdict # "running" => Traffic!In({"done"}) = Requests
    /\ verdict = "valid" => Cardinality(Traffic!Late) <= AllowedLate
    /\ verdict = "overload" => Cardinality(Traffic!Late) > AllowedLate

TrafficInv ==
    TrafficTypes /\ RecordsInv /\ ClockInv /\ PoolInv /\ VerdictInv

-----------------------------------------------------------------------------
(* The instances count as this module does.                                *)
LEMMA SameCardinality == \A S : Traffic!Cardinality(S) = Cardinality(S)
BY DEF Traffic!Cardinality, Cardinality

(* So does the other instance.                                             *)
LEMMA SamplerCardinality == \A S : Sampler!Cardinality(S) = Cardinality(S)
BY DEF Sampler!Cardinality, Cardinality

(* One more record allows one more stall.                                  *)
LEMMA OneMoreStall ==
    \A n \in Nat : /\ MaxStall * n \in Nat
                   /\ MaxStall * (n + 1) = MaxStall * n + MaxStall
BY TrafficAssumption

(* What the variables of the traffic are, ...                              *)
LEMMA TrafficTypesInit == Traffic!Init => TrafficTypes
BY DEF Traffic!Init, TrafficTypes

(* ... and how they go together, at first ...                              *)
LEMMA TrafficInit == Traffic!Init => TrafficInv
<1> SUFFICES ASSUME Traffic!Init
             PROVE  TrafficInv
  OBVIOUS
<1>1. TrafficTypes
  BY TrafficTypesInit
<1>2. RecordsInv /\ VerdictInv /\ PoolInv
  BY TrafficAssumption DEF Traffic!Init, RecordsInv, VerdictInv, PoolInv
<1>3. ClockInv
  BY TrafficAssumption, OneMoreStall DEF Traffic!Init, ClockInv, Latest
<1> QED
  BY <1>1, <1>2, <1>3 DEF TrafficInv

(* ... and what they stay.                                                 *)
LEMMA TrafficTypesStep ==
    TrafficTypes /\ [Traffic!Next]_Traffic!vars => TrafficTypes'
<1> SUFFICES ASSUME TrafficTypes, [Traffic!Next]_Traffic!vars
             PROVE  TrafficTypes'
  OBVIOUS
<1> USE TrafficAssumption DEF TrafficTypes
<1>1. ASSUME NEW r \in Requests,
             \/ Traffic!Wake(r) \/ Traffic!GetConnection(r)
             \/ Traffic!TimesOut(r) \/ Traffic!Respond(r)
      PROVE  TrafficTypes'
  BY <1>1, ZenonT(30) DEF Traffic!Wake, Traffic!GetConnection, Traffic!TimesOut,
              Traffic!Respond
<1>2. ASSUME NEW r \in Requests, NEW stall \in 0..MaxStall,
             Traffic!Record(r, stall)
      PROVE  TrafficTypes'
  BY <1>2, SMTT(30) DEF Traffic!Record
<1>3. CASE Traffic!Finish \/ Traffic!Tick \/ UNCHANGED Traffic!vars
  BY <1>3 DEF Traffic!Finish, Traffic!Tick, Traffic!vars
<1> QED
  BY <1>1, <1>2, <1>3 DEF Traffic!Next, Traffic!Loop

(* There is a connection for who is about to ask, if there are enough.     *)
LEMMA ConnectionLeft ==
    ASSUME TrafficTypes, NEW r \in Requests, task[r] = "sleeping",
           pool >= Cardinality(Requests)
    PROVE  Traffic!Connections < pool
<1> DEFINE S == Traffic!In({"sent", "answered"})
<1>1. S \subseteq Requests \ {r}
  BY DEF Traffic!In
<1>2. /\ Cardinality(Requests \ {r}) = Cardinality(Requests) - 1
      /\ IsFiniteSet(Requests \ {r}) /\ Cardinality(Requests) \in Nat
  BY TrafficAssumption, FS_RemoveElement, FS_CardinalityType
<1>3. Cardinality(S) <= Cardinality(Requests \ {r}) /\ Cardinality(S) \in Nat
  BY <1>1, <1>2, FS_Subset, FS_CardinalityType
<1>4. pool \in Nat
  BY TrafficAssumption DEF TrafficTypes
<1> QED
  BY <1>2, <1>3, <1>4, SameCardinality DEF Traffic!Connections

(* A task that is not done wakes, gets its connection, times out or is     *)
(* answered: the file is not touched.                                      *)
LEMMA TaskStep ==
    ASSUME TrafficInv, TrafficTypes', NEW r \in Requests,
           \/ Traffic!Wake(r) \/ Traffic!GetConnection(r)
           \/ Traffic!TimesOut(r) \/ Traffic!Respond(r)
    PROVE  TrafficInv'
<1>1. /\ task[r] # "done" /\ task'[r] # "done" /\ task'[r] # "sleeping"
      /\ UNCHANGED <<now, busy, file, verdict, pool>>
      /\ \A q \in Requests \ {r} : /\ task'[q] = task[q]
                                   /\ actual'[q] = actual[q]
                                   /\ sentAt'[q] = sentAt[q]
  BY DEF Traffic!Wake, Traffic!Due, Traffic!GetConnection, Traffic!Served,
         Traffic!TimesOut, Traffic!Overdue, Traffic!Respond, TrafficInv,
         TrafficTypes
<1>2. verdict = "running"
  BY <1>1 DEF TrafficInv, TrafficTypes, VerdictInv, Traffic!In
<1>3. RecordsInv' /\ VerdictInv'
  <2>1. \A k \in 1..Len(file) : file[k] \in Requests /\ task[file[k]] = "done"
    <3>1. file \in Seq(Requests)
      BY DEF TrafficInv, TrafficTypes
    <3> QED
      BY <3>1 DEF TrafficInv, RecordsInv
  <2>2. \A k \in 1..Len(file) : task'[file[k]] = "done"
    BY <1>1, <2>1
  <2>3. \A q \in Requests : task'[q] = "done" => task[q] = "done"
    BY <1>1
  <2>4. RecordsInv'
    BY <1>1, <2>2, <2>3 DEF TrafficInv, RecordsInv
  <2> QED
    BY <1>1, <1>2, <2>4 DEF VerdictInv
<1>4. CASE Traffic!Wake(r)
  <2>1. /\ task[r] = "sleeping" /\ Target[r] <= now /\ actual'[r] = now
        /\ Traffic!Connections < pool /\ Traffic!In({"pooled"}) = {} =>
               task'[r] = "sent" /\ sentAt'[r] = now
    BY <1>4 DEF Traffic!Wake, Traffic!Due, TrafficInv, TrafficTypes
  <2>2. pool >= Cardinality(Requests) =>
            Traffic!Connections < pool /\ Traffic!In({"pooled"}) = {}
    BY <2>1, ConnectionLeft DEF TrafficInv, PoolInv, Traffic!In
  <2>3. PoolInv'
    BY <1>1, <2>1, <2>2 DEF TrafficInv, PoolInv
  <2>4. ClockInv'
    BY <1>1, <2>1 DEF TrafficInv, ClockInv, Latest
  <2> QED
    BY <1>3, <2>3, <2>4 DEF TrafficInv
<1>5. CASE ~Traffic!Wake(r)
  <2>1. task[r] # "sleeping" /\ UNCHANGED actual
        /\ (task[r] # "pooled" => UNCHANGED sentAt /\ task'[r] # "pooled")
    BY <1>5 DEF Traffic!Wake, Traffic!GetConnection, Traffic!Served,
                Traffic!TimesOut, Traffic!Overdue, Traffic!Respond,
                TrafficInv, TrafficTypes
  <2>2. PoolInv'
    BY <1>1, <2>1 DEF TrafficInv, PoolInv
  <2>3. ClockInv'
    BY <1>1, <2>1 DEF TrafficInv, ClockInv, Latest
  <2> QED
    BY <1>3, <2>2, <2>3 DEF TrafficInv
<1> QED
  BY <1>4, <1>5

(* A record is appended, and blocks the loop for at most one stall more.   *)
LEMMA RecordStep ==
    ASSUME TrafficInv, TrafficTypes', NEW r \in Requests,
           NEW stall \in 0..MaxStall, Traffic!Record(r, stall)
    PROVE  TrafficInv'
<1>1. /\ task[r] \in {"answered", "failed"} /\ task'[r] = "done"
      /\ file' = Append(file, r) /\ busy' = now + stall /\ busy <= now
      /\ UNCHANGED <<now, actual, sentAt, verdict, pool>>
      /\ \A q \in Requests \ {r} : task'[q] = task[q]
  BY DEF Traffic!Record, Traffic!Free, TrafficInv, TrafficTypes
<1>2. verdict = "running"
  BY <1>1 DEF TrafficInv, TrafficTypes, VerdictInv, Traffic!In
<1>3. PoolInv' /\ VerdictInv'
  BY <1>1, <1>2 DEF TrafficInv, PoolInv, VerdictInv
<1>4. /\ Len(file) \in Nat /\ Len(file') = Len(file) + 1
      /\ file'[Len(file) + 1] = r
      /\ \A k \in 1..Len(file) : file'[k] = file[k] /\ file[k] \in Requests
  BY <1>1 DEF TrafficInv, TrafficTypes
<1>5. RecordsInv'
  <2>1. \A k \in 1..Len(file) : file[k] # r
    BY <1>1 DEF TrafficInv, RecordsInv
  <2>2. \A k \in 1..Len(file') : k \in 1..Len(file) \/ k = Len(file) + 1
    BY <1>4
  <2>3. \A k \in 1..Len(file') : task'[file'[k]] = "done"
    BY <1>1, <1>4, <2>1, <2>2 DEF TrafficInv, RecordsInv
  <2>4. \A j, k \in 1..Len(file') : file'[j] = file'[k] => j = k
    BY <1>4, <2>1, <2>2 DEF TrafficInv, RecordsInv
  <2>5. ASSUME NEW q \in Requests, task'[q] = "done"
        PROVE  \E k \in 1..Len(file') : file'[k] = q
    <3>1. CASE q = r
      BY <1>4, <3>1
    <3>2. CASE q # r
      <4>1. PICK k \in 1..Len(file) : file[k] = q
        BY <1>1, <2>5, <3>2 DEF TrafficInv, RecordsInv
      <4> QED
        BY <1>4, <4>1
    <3> QED
      BY <3>1, <3>2
  <2> QED
    BY <2>3, <2>4, <2>5 DEF RecordsInv
<1>6. ClockInv'
  <2> SUFFICES ASSUME NEW q \in Requests
               PROVE  IF task'[q] = "sleeping"
                      THEN now <= Latest(q)' /\ busy' <= Latest(q)'
                      ELSE Target[q] <= actual[q] /\ actual[q] <= Latest(q)'
    BY <1>1 DEF ClockInv
  <2>1. /\ Latest(q) \in Nat /\ Latest(q)' = Latest(q) + MaxStall
        /\ Target[q] \in Nat /\ MaxStall \in Nat
    <3>1. Target[q] \in Nat /\ MaxStall \in Nat
      BY TrafficAssumption
    <3>2. /\ MaxStall * Len(file) \in Nat
          /\ MaxStall * Len(file') = MaxStall * Len(file) + MaxStall
      BY <1>4, OneMoreStall
    <3> QED
      BY <3>1, <3>2 DEF Latest
  <2>2. now \in Nat /\ busy \in Nat /\ actual[q] \in Nat /\ stall <= MaxStall
        /\ stall \in Nat
    BY TrafficAssumption DEF TrafficInv, TrafficTypes
  <2>3. task'[q] = "sleeping" => task[q] = "sleeping"
    BY <1>1
  <2>4. task'[q] # "sleeping" => task[q] # "sleeping"
    BY <1>1
  <2> QED
    BY <1>1, <2>1, <2>2, <2>3, <2>4 DEF TrafficInv, ClockInv
<1> QED
  BY <1>3, <1>5, <1>6 DEF TrafficInv

(* Time passes for a sleeping task only until it is due, or while the loop *)
(* is blocked.                                                             *)
LEMMA TickStep ==
    ASSUME TrafficInv, TrafficTypes', Traffic!Tick
    PROVE  TrafficInv'
<1>1. /\ now' = now + 1
      /\ UNCHANGED <<task, actual, sentAt, busy, file, verdict, pool>>
  BY DEF Traffic!Tick
<1>2. RecordsInv' /\ PoolInv' /\ VerdictInv'
  BY <1>1 DEF TrafficInv, RecordsInv, PoolInv, VerdictInv, Traffic!In,
              Traffic!Late
<1>3. ClockInv'
  <2> SUFFICES ASSUME NEW r \in Requests, task[r] = "sleeping"
               PROVE  now + 1 <= Latest(r)
    BY <1>1 DEF TrafficInv, ClockInv, Latest
  <2>1. now \in Nat /\ busy \in Nat /\ Target[r] \in Nat
        /\ MaxStall * Len(file) \in Nat
    BY TrafficAssumption, OneMoreStall DEF TrafficInv, TrafficTypes
  <2>2. CASE ~Traffic!Free
    BY <2>1, <2>2 DEF Traffic!Free, TrafficInv, ClockInv, Latest
  <2>3. CASE Traffic!Free
    BY <2>1, <2>3 DEF Traffic!Tick, Traffic!Idle, Traffic!Due, Latest
  <2> QED
    BY <2>2, <2>3
<1> QED
  BY <1>2, <1>3 DEF TrafficInv

(* No step of the traffic breaks the invariant.                            *)
LEMMA TrafficStep ==
    TrafficInv /\ [Traffic!Next]_Traffic!vars => TrafficInv'
<1> SUFFICES ASSUME TrafficInv, [Traffic!Next]_Traffic!vars
             PROVE  TrafficInv'
  OBVIOUS
<1>1. TrafficTypes'
  BY TrafficTypesStep DEF TrafficInv
<1>2. CASE Traffic!Finish
  <2>1. /\ UNCHANGED <<now, task, actual, sentAt, busy, file, pool>>
        /\ Traffic!In({"done"}) = Requests
        /\ verdict' = "valid" => ~(Cardinality(Traffic!Late) > AllowedLate)
        /\ verdict' = "overload" => Cardinality(Traffic!Late) > AllowedLate
    BY <1>2, SameCardinality DEF Traffic!Finish
  <2>2. Cardinality(Traffic!Late) \in Nat /\ AllowedLate \in Nat
    BY TrafficAssumption, FS_Subset, FS_CardinalityType DEF Traffic!Late
  <2>3. VerdictInv'
    BY <2>1, <2>2 DEF VerdictInv, Traffic!In, Traffic!Late
  <2> QED
    BY <1>1, <2>1, <2>3 DEF TrafficInv, RecordsInv, ClockInv, Latest, PoolInv
<1>3. CASE UNCHANGED Traffic!vars
  BY <1>1, <1>3 DEF TrafficInv, Traffic!vars, RecordsInv, ClockInv, Latest,
                    PoolInv, VerdictInv, Traffic!In, Traffic!Late
<1> QED
  BY <1>1, <1>2, <1>3, TaskStep, RecordStep, TickStep
     DEF Traffic!Next, Traffic!Loop

(* So it holds throughout a run.                                           *)
LEMMA TrafficInvariant == Traffic!Spec => []TrafficInv
BY TrafficInit, TrafficStep, PTL DEF Traffic!Spec

(* Whatever the server does, every scheduled request has its record, and   *)
(* has it once, when the run ends.                                         *)
THEOREM EachRecordedOnce == Traffic!Spec => []OneRecordEach
<1>1. ASSUME TrafficInv, verdict # "running"
      PROVE  Len(file) = Cardinality(Requests)
             /\ Traffic!Range(file) = Requests
  <2> DEFINE D == 1..Len(file)
  <2>1. /\ Len(file) \in Nat /\ file \in [D -> Requests]
        /\ \A r \in Requests : \E k \in D : file[k] = r
        /\ \A j, k \in D : file[j] = file[k] => j = k
    BY <1>1 DEF TrafficInv, TrafficTypes, RecordsInv, VerdictInv, Traffic!In
  <2>2. file \in Bijection(D, Requests)
    BY <2>1 DEF Bijection, Injection, Surjection, IsInjective
  <2>3. IsFiniteSet(D) /\ Cardinality(D) = Len(file)
    BY <2>1, FS_Interval, SMTT(30)
  <2>4. Cardinality(Requests) = Cardinality(D)
    BY <2>2, <2>3, FS_Bijection DEF ExistsBijection
  <2>5. Traffic!Range(file) = Requests
    BY <2>1 DEF Traffic!Range
  <2> QED
    BY <2>3, <2>4, <2>5
<1>2. TrafficInv => OneRecordEach
  BY <1>1, SameCardinality DEF OneRecordEach, Traffic!OneRecordEach
<1> QED
  BY <1>2, TrafficInvariant, PTL

(* Arrivals are on time up to the harness's own writing; with a connection *)
(* for each, so is the load in a run that is taken for valid; and a run is *)
(* rejected only for more late arrivals than are allowed.                  *)
THEOREM ArrivalsKept == Traffic!Spec => []OpenLoopKept
<1>1. TrafficInv => Traffic!LateOnlyByWriting
  <2> SUFFICES ASSUME TrafficInv, NEW r \in Requests, task[r] # "sleeping"
               PROVE  actual[r] >= Target[r]
                      /\ actual[r] - Target[r] <= MaxStall * Len(file)
    BY DEF Traffic!LateOnlyByWriting
  <2>1. actual[r] \in Nat /\ Target[r] \in Nat /\ MaxStall * Len(file) \in Nat
    BY TrafficAssumption, OneMoreStall DEF TrafficInv, TrafficTypes
  <2> QED
    BY <2>1 DEF TrafficInv, ClockInv, Latest
<1>2. TrafficInv => Traffic!LoadOffered
  <2> SUFFICES ASSUME TrafficInv, verdict = "valid",
                      pool >= Cardinality(Requests)
               PROVE  Cardinality({r \in Requests : Traffic!OffSchedule(r)})
                        <= AllowedLate
    BY SameCardinality DEF Traffic!LoadOffered, Traffic!OfferedLoad
  <2>1. ASSUME NEW r \in Requests
        PROVE  /\ sentAt[r] = actual[r] /\ Target[r] <= actual[r]
               /\ Target[r] \in Nat /\ actual[r] \in Nat
    <3>1. task[r] = "done"
      BY DEF TrafficInv, VerdictInv, Traffic!In
    <3> QED
      BY <3>1, TrafficAssumption DEF TrafficInv, TrafficTypes, ClockInv,
                                     PoolInv
  <2>2. {r \in Requests : Traffic!OffSchedule(r)} = Traffic!Late
    BY <2>1 DEF Traffic!Late, Traffic!OffSchedule
  <2> QED
    BY <2>2 DEF TrafficInv, VerdictInv
<1>3. TrafficInv => Traffic!RejectedForCause
  <2> SUFFICES ASSUME TrafficInv, verdict = "overload"
               PROVE  MaxStall > 0 /\ Cardinality(Traffic!Late) > AllowedLate
    BY SameCardinality DEF Traffic!RejectedForCause, Traffic!Late
  <2>1. Cardinality(Traffic!Late) > AllowedLate
    BY DEF TrafficInv, VerdictInv
  <2>2. Traffic!Late # {}
    BY <2>1, FS_EmptySet, TrafficAssumption
  <2>3. PICK r \in Requests : actual[r] > Target[r] + Threshold
    BY <2>2 DEF Traffic!Late
  <2>4. task[r] # "sleeping"
    BY DEF TrafficInv, VerdictInv, Traffic!In
  <2>5. actual[r] <= Target[r] + MaxStall * Len(file)
    BY <2>4 DEF TrafficInv, ClockInv, Latest
  <2>6. /\ actual[r] \in Nat /\ Target[r] \in Nat /\ Threshold \in Nat
        /\ MaxStall \in Nat /\ Len(file) \in Nat
    BY TrafficAssumption DEF TrafficInv, TrafficTypes
  <2>7. MaxStall = 0 => MaxStall * Len(file) = 0
    BY <2>6
  <2> QED
    BY <2>1, <2>3, <2>5, <2>6, <2>7
<1>4. TrafficInv => OpenLoopKept
  BY <1>1, <1>2, <1>3 DEF OpenLoopKept, Traffic!OpenLoopKept
<1> QED
  BY <1>4, TrafficInvariant, PTL

-----------------------------------------------------------------------------
(* The sampler                                                             *)

SamplerTypes ==
    /\ elapsed \in Nat /\ since \in Nat /\ stopAt \in Nat
    /\ phase \in {"test", "sampling", "sleeping", "returned", "raised"}
    /\ samples \in Seq({"ok", "error"})
    /\ calls \in Seq(Nat \X Nat)

(* A sample is begun within the duration and lasts no longer than its      *)
(* timeout, and a sleep ends within an interval and within the duration.   *)
TimeInv ==
    /\ elapsed <= Duration + SampleTimeout
    /\ phase = "sampling" =>
        /\ since < Duration
        /\ since <= elapsed /\ elapsed <= since + SampleTimeout
    /\ phase = "sleeping" =>
        elapsed <= since /\ since <= Duration /\ since <= elapsed + Interval

(* What can still come after the event has been set: one call, begun after *)
(* at most one interval.                                                   *)
StopInv ==
    /\ \A k \in 1..Len(calls) : calls[k][1] <= elapsed
    /\ Sampler!Stopped =>
        /\ stopAt <= elapsed
        /\ \A k \in 1..Len(calls) - 1 : calls[k][1] <= stopAt
        /\ phase \in {"test", "sleeping"} =>
            \A k \in 1..Len(calls) : calls[k][1] <= stopAt
        /\ phase = "test" => elapsed <= stopAt + Interval
        /\ phase \in {"sampling", "sleeping"} => since <= stopAt + Interval
        /\ phase \in {"returned", "raised"} =>
            elapsed <= stopAt + Interval + SampleTimeout

(* Every call but the one that runs, or raised, has added to the list.     *)
EvidenceInv ==
    /\ calls = <<>> => phase = "test" /\ elapsed = 0 /\ samples = <<>>
    /\ calls # <<>> => calls[1][2] = 0
    /\ \A k \in 1..Len(calls) - 1 : calls[k][2] < calls[k + 1][2]
    /\ calls # <<>> /\ phase \notin {"sampling", "raised"} =>
        calls[Len(calls)][2] < Len(samples)
    /\ phase = "sampling" => calls[Len(calls)][2] = Len(samples)

SamplingInv == SamplerTypes /\ TimeInv /\ StopInv /\ EvidenceInv

(* Whatever sample_gpu returns, it returns something.                      *)
LEMMA SomethingSampled ==
    ASSUME NEW late, NEW new \in Sampler!Sampled(late)
    PROVE  new \in Seq({"ok", "error"}) /\ Len(new) > 0
<1>1. CASE new = <<"error">>
  BY <1>1
<1>2. CASE new # <<"error">>
  <2>1. PICK rows \in Sampler!Outputs : new = Sampler!Parsed(rows)
    BY <1>2 DEF Sampler!Sampled
  <2> DEFINE gpus == Sampler!Lines(rows, "gpu")
             n == Cardinality(gpus)
  <2>2. gpus # {} /\ new = [k \in 1..n |-> "ok"]
    BY <1>2, <2>1, SamplerCardinality DEF Sampler!Parsed
  <2>3. PICK m \in 0..MaxRows : rows \in [1..m -> {"blank", "gpu", "bad"}]
    BY DEF Sampler!Outputs, Sampler!BoundedSeq, Sampler!SeqOf
  <2>4. IsFiniteSet(1..m) /\ gpus \subseteq 1..m
    BY <2>3, SamplerAssumption, FS_Interval DEF Sampler!Lines
  <2>5. n \in Nat /\ n # 0
    BY <2>2, <2>4, FS_Subset, FS_CardinalityType, FS_EmptySet
  <2> HIDE DEF n
  <2> QED
    BY <2>2, <2>5
<1> QED
  BY <1>1, <1>2

(* The invariant of the sampler, at first ...                              *)
LEMMA SamplerInit == Sampler!Init => SamplingInv
<1> SUFFICES ASSUME Sampler!Init
             PROVE  SamplingInv
  OBVIOUS
<1>1. SamplerTypes /\ TimeInv /\ EvidenceInv
  BY SamplerAssumption
     DEF Sampler!Init, Sampler!Never, SamplerTypes, TimeInv, EvidenceInv
<1>2. StopInv
  BY SamplerAssumption DEF Sampler!Init, Sampler!Stopped, StopInv
<1> QED
  BY <1>1, <1>2 DEF SamplingInv

(* The call returns, and what it returns is added.                         *)
LEMMA SampleStep ==
    ASSUME SamplingInv, Sampler!SampleReturns
    PROVE  SamplingInv'
<1>1. PICK new \in Seq({"ok", "error"}) :
          Len(new) > 0 /\ samples' = samples \o new
  BY SomethingSampled DEF Sampler!SampleReturns
<1>2. /\ phase = "sampling" /\ UNCHANGED <<elapsed, stopAt, calls>>
      /\ \/ Sampler!Stopped /\ phase' = "returned" /\ since' = since
         \/ /\ ~Sampler!Stopped /\ phase' = "sleeping" /\ elapsed < Duration
            /\ elapsed <= since' /\ since' <= Duration
            /\ since' <= elapsed + Interval /\ since' \in Nat
         \/ /\ ~Sampler!Stopped /\ phase' = "test" /\ since' = since
            /\ elapsed >= Duration
  BY SamplerAssumption, SMTT(30)
     DEF Sampler!SampleReturns, Sampler!AfterSample, Sampler!Min2,
         Sampler!Rest, SamplingInv, SamplerTypes
<1>3. /\ samples \in Seq({"ok", "error"}) /\ Len(samples) \in Nat
      /\ Len(samples') = Len(samples) + Len(new) /\ Len(new) \in Nat
      /\ samples' \in Seq({"ok", "error"})
  BY <1>1 DEF SamplingInv, SamplerTypes
<1>4. SamplerTypes'
  BY <1>2, <1>3 DEF SamplingInv, SamplerTypes
<1>5. TimeInv'
  BY <1>2, SamplerAssumption DEF SamplingInv, SamplerTypes, TimeInv
<1>6. StopInv'
  <2>1. Sampler!Stopped' = Sampler!Stopped
    BY <1>2 DEF Sampler!Stopped, Sampler!Never
  <2>2. elapsed <= since + SampleTimeout /\ since <= stopAt + Interval =>
            elapsed <= stopAt + Interval + SampleTimeout
    BY SamplerAssumption DEF SamplingInv, SamplerTypes
  <2> QED
    BY <1>2, <2>1, <2>2 DEF SamplingInv, TimeInv, StopInv
<1>7. EvidenceInv'
  <2>1. calls # <<>> /\ calls[Len(calls)][2] = Len(samples)
    BY <1>2 DEF SamplingInv, EvidenceInv
  <2>2. calls[Len(calls)][2] < Len(samples')
    BY <1>1, <1>3, <2>1
  <2> QED
    BY <1>2, <2>1, <2>2 DEF SamplingInv, EvidenceInv
<1> QED
  BY <1>4, <1>5, <1>6, <1>7 DEF SamplingInv

(* The test of the loop begins the next call, or ends it.                  *)
LEMMA LoopStep ==
    ASSUME SamplingInv, Sampler!Loop
    PROVE  SamplingInv'
<1>1. phase = "test" /\ UNCHANGED <<elapsed, stopAt, samples>>
      /\ Sampler!Stopped' = Sampler!Stopped
  BY DEF Sampler!Loop, Sampler!Stopped, Sampler!Never
<1>2. CASE elapsed >= Duration
  <2>1. phase' = "returned" /\ UNCHANGED <<since, calls>>
    BY <1>2, SamplerAssumption DEF Sampler!Loop, SamplingInv, SamplerTypes
  <2>2. calls # <<>>
    BY <1>2, SamplerAssumption DEF SamplingInv, EvidenceInv
  <2>3. SamplerTypes' /\ TimeInv'
    BY <1>1, <2>1 DEF SamplingInv, SamplerTypes, TimeInv
  <2>4. StopInv'
    BY <1>1, <2>1, SamplerAssumption DEF SamplingInv, SamplerTypes, StopInv
  <2>5. EvidenceInv'
    BY <1>1, <2>1, <2>2 DEF SamplingInv, EvidenceInv
  <2> QED
    BY <2>3, <2>4, <2>5 DEF SamplingInv
<1>3. CASE elapsed < Duration
  <2>1. /\ phase' = "sampling" /\ since' = elapsed
        /\ calls' = Append(calls, <<elapsed, Len(samples)>>)
    BY <1>3 DEF Sampler!Loop
  <2>2. /\ Len(calls) \in Nat /\ Len(calls') = Len(calls) + 1
        /\ calls' # <<>>
        /\ \A k \in 1..Len(calls) : calls'[k] = calls[k]
        /\ calls'[Len(calls) + 1] = <<elapsed, Len(samples)>>
        /\ calls' \in Seq(Nat \X Nat)
    BY <2>1, SMTT(30) DEF SamplingInv, SamplerTypes
  <2>3. SamplerTypes' /\ TimeInv'
    BY <1>1, <1>3, <2>1, <2>2, SamplerAssumption
       DEF SamplingInv, SamplerTypes, TimeInv
  <2>4. StopInv'
    <3>1. \A k \in 1..Len(calls') : k \in 1..Len(calls) \/ k = Len(calls) + 1
      BY <2>2
    <3>2. \A k \in 1..Len(calls') : calls'[k][1] <= elapsed
      <4>1. elapsed <= elapsed
        BY DEF SamplingInv, SamplerTypes
      <4>2. calls'[Len(calls) + 1][1] = elapsed
        BY <2>2
      <4>3. \A k \in 1..Len(calls) : calls[k][1] <= elapsed
        BY DEF SamplingInv, StopInv
      <4> QED
        BY <2>2, <3>1, <4>1, <4>2, <4>3
    <3>3. 1..Len(calls') - 1 = 1..Len(calls)
      BY <2>2
    <3> QED
      BY <1>1, <2>1, <2>2, <3>2, <3>3 DEF SamplingInv, StopInv
  <2>5. EvidenceInv'
    <3>1. CASE calls = <<>>
      BY <1>1, <2>1, <2>2, <3>1 DEF SamplingInv, EvidenceInv
    <3>2. CASE calls # <<>>
      <4>1. Len(calls) > 0 /\ calls'[1] = calls[1]
        BY <2>2, <3>2, SMTT(30) DEF SamplingInv, SamplerTypes
      <4>2. ASSUME NEW k \in 1..Len(calls)
            PROVE  calls'[k][2] < calls'[k + 1][2]
        <5>1. CASE k = Len(calls)
          BY <1>1, <2>2, <3>2, <5>1 DEF SamplingInv, EvidenceInv
        <5>2. CASE k \in 1..Len(calls) - 1
          <6>1. k + 1 \in 1..Len(calls)
            BY <2>2, <5>2
          <6> QED
            BY <2>2, <5>2, <6>1 DEF SamplingInv, EvidenceInv
        <5> QED
          BY <2>2, <5>1, <5>2
      <4>3. Len(calls') - 1 = Len(calls)
        BY <2>2
      <4> QED
        BY <1>1, <2>1, <2>2, <3>2, <4>1, <4>2, <4>3, SMTT(30)
           DEF SamplingInv, EvidenceInv
    <3> QED
      BY <3>1, <3>2
  <2> QED
    BY <2>3, <2>4, <2>5 DEF SamplingInv
<1> QED
  BY <1>2, <1>3, SamplerAssumption DEF SamplingInv, SamplerTypes

(* ... and after every step.                                               *)
LEMMA SamplerStep ==
    SamplingInv /\ [Sampler!Next]_Sampler!vars => SamplingInv'
<1> SUFFICES ASSUME SamplingInv, [Sampler!Next]_Sampler!vars
             PROVE  SamplingInv'
  OBVIOUS
<1>1. CASE Sampler!Wake
  BY <1>1, SamplerAssumption
     DEF Sampler!Wake, SamplingInv, SamplerTypes, TimeInv, StopInv,
         EvidenceInv, Sampler!Stopped, Sampler!Never
<1>2. CASE Sampler!SetStop
  <2>1. /\ ~Sampler!Stopped /\ phase \notin {"returned", "raised"}
        /\ stopAt' = elapsed
        /\ UNCHANGED <<elapsed, phase, since, samples, calls>>
    BY <1>2 DEF Sampler!SetStop
  <2>2. SamplerTypes' /\ TimeInv' /\ EvidenceInv'
    BY <2>1 DEF SamplingInv, SamplerTypes, TimeInv, EvidenceInv
  <2>3. StopInv'
    <3>1. /\ elapsed \in Nat /\ since \in Nat /\ Interval \in Nat
          /\ Len(calls) \in Nat
      BY SamplerAssumption DEF SamplingInv, SamplerTypes
    <3>2. /\ phase \in {"sampling", "sleeping"} => since <= elapsed + Interval
          /\ elapsed <= elapsed + Interval
      BY <3>1 DEF SamplingInv, TimeInv
    <3>3. \A k \in 1..Len(calls) : calls[k][1] <= elapsed
      BY DEF SamplingInv, StopInv
    <3>4. \A k \in 1..Len(calls) - 1 : k \in 1..Len(calls)
      BY <3>1
    <3> QED
      BY <2>1, <3>1, <3>2, <3>3, <3>4 DEF StopInv
  <2> QED
    BY <2>2, <2>3 DEF SamplingInv
<1>3. CASE Sampler!Tick
  <2>1. /\ elapsed' = elapsed + 1 /\ phase \in {"sleeping", "sampling"}
        /\ phase = "sleeping" => elapsed < since
        /\ phase = "sampling" => elapsed < since + SampleTimeout
        /\ UNCHANGED <<phase, since, stopAt, samples, calls>>
    BY <1>3 DEF Sampler!Tick, Sampler!WithinTime
  <2>2. SamplerTypes' /\ TimeInv'
    BY <2>1, SamplerAssumption DEF SamplingInv, SamplerTypes, TimeInv
  <2>3. StopInv'
    <3>1. \A k \in 1..Len(calls) : calls[k][1] <= elapsed + 1
      BY DEF SamplingInv, SamplerTypes, StopInv
    <3> QED
      BY <2>1, <3>1, SamplerAssumption
         DEF SamplingInv, SamplerTypes, StopInv, Sampler!Stopped,
             Sampler!Never
  <2>4. EvidenceInv'
    BY <2>1 DEF SamplingInv, EvidenceInv
  <2> QED
    BY <2>2, <2>3, <2>4 DEF SamplingInv
<1>4. CASE UNCHANGED Sampler!vars
  BY <1>4 DEF Sampler!vars, SamplingInv, SamplerTypes, TimeInv, StopInv,
              EvidenceInv, Sampler!Stopped, Sampler!Never
<1>5. CASE Sampler!SampleRaises
  <2>1. /\ phase = "sampling" /\ phase' = "raised"
        /\ UNCHANGED <<elapsed, since, stopAt, samples, calls>>
    BY <1>5 DEF Sampler!SampleRaises
  <2>2. SamplerTypes' /\ TimeInv' /\ EvidenceInv'
    BY <2>1 DEF SamplingInv, SamplerTypes, TimeInv, EvidenceInv
  <2>3. elapsed <= since + SampleTimeout /\ since <= stopAt + Interval =>
            elapsed <= stopAt + Interval + SampleTimeout
    BY SamplerAssumption DEF SamplingInv, SamplerTypes
  <2>4. StopInv'
    BY <2>1, <2>3
       DEF SamplingInv, TimeInv, StopInv, Sampler!Stopped, Sampler!Never
  <2> QED
    BY <2>2, <2>4 DEF SamplingInv
<1> QED
  BY <1>1, <1>2, <1>3, <1>4, <1>5, SampleStep, LoopStep DEF Sampler!Next

(* The sampler stops in time, after at most one more call, and the list it *)
(* returns accounts for every call.                                        *)
THEOREM SamplerKept == Sampler!Spec => []SamplerAccounted
<1>1. SamplingInv => Sampler!StopLatency /\ Sampler!DurationKept
  <2> SUFFICES ASSUME SamplingInv
               PROVE  Sampler!StopLatency /\ Sampler!DurationKept
    OBVIOUS
  <2>1. /\ elapsed \in Nat /\ since \in Nat /\ stopAt \in Nat
        /\ phase \in {"test", "sampling", "sleeping", "returned", "raised"}
        /\ Interval \in Nat /\ SampleTimeout \in Nat
    BY SamplerAssumption DEF SamplingInv, SamplerTypes
  <2> QED
    BY <2>1 DEF SamplingInv, TimeInv, StopInv, Sampler!StopLatency,
                Sampler!DurationKept
<1>2. SamplingInv => Sampler!EveryCallCounts
  <2> SUFFICES ASSUME SamplingInv
               PROVE  /\ \A k \in 1..Len(calls) :
                          \/ calls[k][2] < Sampler!After(k)
                          \/ k = Len(calls) /\ phase \in {"sampling", "raised"}
                      /\ phase = "returned" => calls # <<>> /\ calls[1][2] = 0
    BY DEF Sampler!EveryCallCounts
  <2>1. Len(calls) \in Nat
    BY DEF SamplingInv, SamplerTypes
  <2>2. 1..Len(calls) # {} => calls # <<>>
    BY <2>1
  <2> QED
    BY <2>1, <2>2 DEF SamplingInv, EvidenceInv, Sampler!After
<1>3. SamplingInv => SamplerAccounted
  BY <1>1, <1>2 DEF SamplerAccounted, Sampler!SamplerAccounted
<1> QED
  BY <1>3, SamplerInit, SamplerStep, PTL DEF Sampler!Spec
=============================================================================
