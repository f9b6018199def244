----------------------- MODULE IncrementalIngestProofs -----------------------
(***************************************************************************)
(* Proofs about IncrementalIngest, for every value of its constants.  Three *)
(* layers, each an inductive invariant on top of the one before:           *)
(*   TypeOK, TimeInv    whatever fails and whenever the source commits     *)
(*                      (and TornInv, AuditInv beside them);               *)
(*   HealthyInv         incremental loads, until a metadata read fails;    *)
(*   QuietInv           and a source that commits, with current timestamps, *)
(*                      between DAG runs only.                             *)
(* FullInv stands apart: it is about FULL loads over such a source.        *)
(***************************************************************************)
EXTENDS IncrementalIngest, TLAPS

USE ClockAssumption, ModeAssumption, FaultAssumption

Faults == [crash : 0..MaxCrashes, read : 0..MaxReadFaults,
           write : 0..MaxWriteFaults]

\* The three functions of the metadata store change the budget of faults at
\* most, and leave it a budget.
LEMMA MetadataTypes ==
    ASSUME faults \in Faults
    PROVE  /\ \A w : GetWatermark(w) => faults' \in Faults
           /\ \A w : UpdateWatermark(w) => faults' \in Faults
           /\ \A row : LogExecution(row) => faults' \in Faults
<1>1. \A w : GetWatermark(w) => faults' \in Faults
  BY DEF Faults, GetWatermark
<1>2. \A w : UpdateWatermark(w) => faults' \in Faults
  BY DEF Faults, UpdateWatermark
<1>3. \A row : LogExecution(row) => faults' \in Faults
  BY DEF Faults, LogExecution
<1>4. QED BY <1>1, <1>2, <1>3

AuditRow == [status : {"none", "FAILED", "SUCCESS"}, error : BOOLEAN]

\* The audit row of an attempt that ended without an exception is one.
LEMMA AuditRowType ==
    ASSUME job \in Job, audit \in AuditRow,
           LogExecution([status |-> job.status, error |-> FALSE])
    PROVE  audit' \in AuditRow
<1>1. job.status \in {"FAILED", "SUCCESS"}
  BY DEF Job
<1>2. [status |-> job.status, error |-> FALSE] \in AuditRow
  BY <1>1 DEF AuditRow
<1>3. CASE audit' = [status |-> job.status, error |-> FALSE]
  BY <1>2, <1>3
<1>4. CASE UNCHANGED audit
  BY <1>4
<1>5. QED BY <1>3, <1>4 DEF LogExecution

\* The initial state has the types of TypeOK.
LEMMA TypeInit == Init => TypeOK
<1> USE DEF TypeOK, Times, Versions, NoTime, RawPoints, StagePoints
<1> SUFFICES ASSUME Init PROVE TypeOK
  OBVIOUS
<1>1. job \in Job
  BY DEF Init, FreshJob, Job
<1>2. faults \in Faults
  BY DEF Init, Faults
<1>3. audit \in [status : {"none", "FAILED", "SUCCESS"}, error : BOOLEAN]
  BY DEF Init, NoAudit
<1>4. now \in 1..MaxClock
  BY DEF Init
<1>5. rawTorn \in BOOLEAN /\ stageTorn \in BOOLEAN
  BY DEF Init
<1>6. source \in [Keys -> 0..MaxClock] /\ stage \in [Keys -> 0..MaxClock]
  BY DEF Init
<1>7. wm \in 0..MaxClock /\ attempt \in 0..Retries
  BY DEF Init
<1>8. landed \in SUBSET Versions /\ pc = "idle"
  BY DEF Init
<1>9. QED BY <1>1, <1>2, <1>3, <1>4, <1>5, <1>6, <1>7, <1>8 DEF Faults

\* Every step keeps the types, one case per action.
LEMMA TypeStep == TypeOK /\ [Next]_vars => TypeOK'
<1> USE DEF TypeOK, Times, Versions, NoTime, RawPoints, StagePoints
<1> SUFFICES ASSUME TypeOK, [Next]_vars PROVE TypeOK'
  OBVIOUS
<1>1. CASE Tick
  BY <1>1 DEF Tick
<1>2. ASSUME NEW k \in Keys, SourceCommit(k) PROVE TypeOK'
  BY <1>2 DEF SourceCommit
<1>3. CASE StartRun
  BY <1>3 DEF StartRun
<1>4. CASE RawExtract
  <2>1. PICK w \in 0..MaxClock :
           /\ IF Incremental THEN GetWatermark(w) 
                             ELSE w = NoTime /\ UNCHANGED faults
           /\ job' = [FreshJob EXCEPT !.cursor = w, !.start = now]
    BY <1>4 DEF RawExtract
  <2>2. job' \in Job
    <3>1. job' = [cursor |-> w, start |-> now, batch |-> {},
                  next |-> NoTime, status |-> "FAILED"]
      BY <2>1 DEF FreshJob
    <3>2. QED BY <3>1 DEF Job
  <2>3. faults' \in Faults
    BY <2>1, MetadataTypes DEF Faults
  <2>4. QED BY <1>4, <2>2, <2>3 DEF RawExtract, Faults
<1>5. CASE RawLoad
  <2>1. PICK w \in 0..MaxClock :
           /\ IF Incremental THEN GetWatermark(w)
                             ELSE w = NoTime /\ UNCHANGED faults
           /\ IF w = NoTime
              THEN landed' = {} /\ rawTorn' = TRUE
              ELSE UNCHANGED <<landed, rawTorn>>
    BY <1>5 DEF RawLoad
  <2>2. faults' \in Faults
    BY <2>1, MetadataTypes DEF Faults
  <2>3. landed' \in SUBSET Versions /\ rawTorn' \in BOOLEAN
    BY <2>1
  <2>4. QED BY <1>5, <2>2, <2>3 DEF RawLoad, Faults
<1>6. CASE RawWrite
  <2>1. job' \in Job
    BY <1>6 DEF RawWrite, Matching, Job
  <2>2. QED BY <1>6, <2>1 DEF RawWrite, Matching
<1>7. CASE RawRegister
  <2>1. job' \in Job
    BY <1>7 DEF RawRegister, Job
  <2>2. QED BY <1>7, <2>1 DEF RawRegister
<1>8. CASE RawMax
  <2>1. job' \in Job
    BY <1>8 DEF RawMax, Job
  <2>2. faults' \in [crash : 0..MaxCrashes, read : 0..MaxReadFaults,
                     write : 0..MaxWriteFaults]
    BY <1>8 DEF RawMax, GetWatermark
  <2>3. QED BY <1>8, <2>1, <2>2 DEF RawMax
<1>9. CASE RawWatermark
  BY <1>9 DEF RawWatermark, UpdateWatermark, Job
<1>10. CASE RawFinish
  <2>1. job' \in Job
    BY <1>10 DEF RawFinish, FreshJob, Job
  <2>2. faults' \in Faults
    BY <1>10, MetadataTypes DEF RawFinish, Faults
  <2>3. audit' \in AuditRow
    BY <1>10, AuditRowType DEF RawFinish, AuditRow
  <2>4. QED BY <1>10, <2>1, <2>2, <2>3 DEF RawFinish, Faults, AuditRow
<1>11. CASE StageExtract
  <2>1. job' \in Job
    BY <1>11 DEF StageExtract, FreshJob, Job
  <2>2. QED BY <1>11, <2>1 DEF StageExtract
<1>12. CASE StageLoad
  BY <1>12 DEF StageLoad
<1>13. CASE StageWrite
  BY <1>13 DEF StageWrite, Deduplicated
<1>14. CASE StageRegister
  <2>1. job' \in Job
    BY <1>14 DEF StageRegister, Job
  <2>2. QED BY <1>14, <2>1 DEF StageRegister
<1>15. CASE StageWatermark
  BY <1>15 DEF StageWatermark, UpdateWatermark, Job
<1>16. CASE StageFinish
  <2>1. job' \in Job
    BY <1>16 DEF StageFinish, FreshJob, Job
  <2>2. faults' \in Faults
    BY <1>16, MetadataTypes DEF StageFinish, Faults
  <2>3. audit' \in AuditRow
    BY <1>16, AuditRowType DEF StageFinish, AuditRow
  <2>4. QED BY <1>16, <2>1, <2>2, <2>3 DEF StageFinish, Faults, AuditRow
<1>17. CASE Raise
  <2>1. job' \in Job
    BY <1>17 DEF Raise, Reschedule, FreshJob, Job
  <2>2. QED BY <1>17, <2>1 DEF Raise, Reschedule, Job
<1>18. CASE Kill
  <2>1. job' \in Job
    BY <1>18 DEF Kill, Reschedule, FreshJob, Job
  <2>2. QED BY <1>18, <2>1 DEF Kill, Reschedule
<1>19. CASE UNCHANGED vars
  BY <1>19 DEF vars
<1>20. QED
  BY <1>1, <1>2, <1>3, <1>4, <1>5, <1>6, <1>7, <1>8, <1>9, <1>10, <1>11,
     <1>12, <1>13, <1>14, <1>15, <1>16, <1>17, <1>18, <1>19
     DEF Next, RawStep, StageStep

\* Every variable keeps its type, in all modes and under all faults.
THEOREM TypeCorrect == Spec => []TypeOK
BY TypeInit, TypeStep, PTL DEF Spec

-----------------------------------------------------------------------------
(* The watermark and the clock.                                            *)

\* No timestamp the jobs hold lies in the future.
TimeInv ==
    /\ TypeOK
    /\ wm <= now
    /\ \A k \in Keys : source[k] <= now
    /\ job.start <= now
    /\ job.next <= now

\* The clock starts ahead of every timestamp.
LEMMA TimeInvInit == Init => TimeInv
<1> SUFFICES ASSUME Init PROVE TimeInv
  OBVIOUS
<1>1. TypeOK
  BY TypeInit
<1>2. QED BY <1>1 DEF Init, TimeInv, NoTime, FreshJob

\* No step puts a timestamp ahead of the clock.
LEMMA TimeInvStep == TimeInv /\ [Next]_vars => TimeInv'
<1> SUFFICES ASSUME TimeInv, [Next]_vars PROVE TimeInv'
  OBVIOUS
<1>t. TypeOK /\ TypeOK'
  BY TypeStep DEF TimeInv
<1>n. /\ now \in Nat /\ now' \in Nat /\ wm \in Nat
      /\ source \in [Keys -> 0..MaxClock] /\ job \in Job
      /\ job.start \in Nat /\ job.next \in Nat
  BY <1>t DEF TypeOK, Times, Job
<1> USE <1>n DEF TimeInv, NoTime
<1>1. CASE Tick
  BY <1>1, <1>t DEF Tick
<1>2. ASSUME NEW k \in Keys, SourceCommit(k) PROVE TimeInv'
  BY <1>2, <1>t DEF SourceCommit, Times
<1>3. CASE StartRun
  BY <1>3, <1>t DEF StartRun
<1>4. CASE RawExtract
  BY <1>4, <1>t DEF RawExtract, FreshJob
<1>5. CASE RawLoad
  BY <1>5, <1>t DEF RawLoad
<1>6. CASE RawWrite
  <2>1. job'.start = job.start /\ job'.next = job.next
    BY <1>6 DEF RawWrite, Job
  <2>2. QED BY <1>6, <1>t, <2>1 DEF RawWrite
<1>7. CASE RawRegister
  <2>1. job'.start = job.start /\ job'.next = job.next
    BY <1>7 DEF RawRegister, Job
  <2>2. QED BY <1>7, <1>t, <2>1 DEF RawRegister
<1>8. CASE RawMax
  <2>1. PICK w \in 0..MaxClock :
           /\ \/ /\ job.batch # {} \/ ~Incremental
                 /\ IF Matching(job.cursor) = {}
                    THEN w = job.start
                    ELSE IsMaxUpdatedAt(w, Matching(job.cursor))
                 /\ UNCHANGED faults
              \/ /\ job.batch = {} /\ Incremental
                 /\ \E stored \in 0..MaxClock :
                       /\ GetWatermark(stored)
                       /\ w = IF stored = NoTime THEN job.start ELSE stored
           /\ job' = [job EXCEPT !.next = w]
    BY <1>8 DEF RawMax
  <2>2. job'.start = job.start /\ job'.next = w
    BY <2>1 DEF Job
  <2>3. w <= now
    BY <2>1 DEF IsMaxUpdatedAt, Matching, Versions, GetWatermark
  <2>4. QED BY <1>8, <1>t, <2>2, <2>3 DEF RawMax
<1>9. CASE RawWatermark
  BY <1>9, <1>t DEF RawWatermark, UpdateWatermark
<1>10. CASE RawFinish
  BY <1>10, <1>t DEF RawFinish, FreshJob
<1>11. CASE StageExtract
  BY <1>11, <1>t DEF StageExtract, FreshJob
<1>12. CASE StageLoad
  BY <1>12, <1>t DEF StageLoad
<1>13. CASE StageWrite
  BY <1>13, <1>t DEF StageWrite
<1>14. CASE StageRegister
  <2>1. job'.start = job.start /\ job'.next = job.start
    BY <1>14 DEF StageRegister, Job
  <2>2. QED BY <1>14, <1>t, <2>1 DEF StageRegister
<1>15. CASE StageWatermark
  BY <1>15, <1>t DEF StageWatermark, UpdateWatermark
<1>16. CASE StageFinish
  BY <1>16, <1>t DEF StageFinish, FreshJob
<1>17. CASE Raise
  BY <1>17, <1>t DEF Raise, Reschedule, FreshJob
<1>18. CASE Kill
  BY <1>18, <1>t DEF Kill, Reschedule, FreshJob
<1>19. CASE UNCHANGED vars
  BY <1>19, <1>t DEF vars
<1>20. QED
  BY <1>1, <1>2, <1>3, <1>4, <1>5, <1>6, <1>7, <1>8, <1>9, <1>10, <1>11,
     <1>12, <1>13, <1>14, <1>15, <1>16, <1>17, <1>18, <1>19
     DEF Next, RawStep, StageStep

\* The watermark of a table never runs ahead of the clock, whatever fails and
\* whenever the source commits.
THEOREM WatermarkNotAhead == Spec => []WatermarkInPast
<1>1. TimeInv => WatermarkInPast
  BY DEF TimeInv, WatermarkInPast
<1>2. QED BY <1>1, TimeInvInit, TimeInvStep, PTL DEF Spec

-----------------------------------------------------------------------------
(* A landing zone whose overwrite did not commit.                          *)

\* Between the deletion and the commit of an overwrite the raw task is at
\* "raw_write", or has failed: no later point is reached with a torn zone.
PastWrite == {"raw_register", "raw_max", "raw_watermark", "raw_audit"}
                \cup StagePoints

TornInv == pc \in PastWrite => ~rawTorn

\* No step reaches the points after the write with a torn landing zone.
LEMMA TornInvStep == TypeOK /\ TornInv /\ [Next]_vars => TornInv'
<1> SUFFICES ASSUME TypeOK, TornInv, [Next]_vars PROVE TornInv'
  OBVIOUS
<1> USE DEF TornInv, PastWrite, StagePoints
<1>1. CASE Raise \/ Kill
  BY <1>1 DEF Raise, Kill, Reschedule, RawPoints, TypeOK
<1>2. CASE RawStep
  BY <1>2 DEF RawStep, RawExtract, RawLoad, RawWrite, RawRegister, RawMax,
              RawWatermark, RawFinish
<1>3. CASE StageStep
  BY <1>3 DEF StageStep, StageExtract, StageLoad, StageWrite, StageRegister,
              StageWatermark, StageFinish
<1>4. CASE StartRun \/ Tick \/ \E k \in Keys : SourceCommit(k)
  BY <1>4 DEF StartRun, Tick, SourceCommit
<1>5. CASE UNCHANGED vars
  BY <1>5 DEF vars
<1>6. QED BY <1>1, <1>2, <1>3, <1>4, <1>5 DEF Next

\* Whatever fails, the stage task never reads a landing zone that a raw
\* overwrite has deleted and not yet written.
THEOREM StageReads == Spec => []StageReadsCommitted
<1>1. Init => TornInv
  BY DEF Init, TornInv
<1>2. TornInv => StageReadsCommitted
  BY DEF TornInv, PastWrite, StageReadsCommitted
<1>3. QED BY <1>1, <1>2, TornInvStep, TypeCorrect, PTL DEF Spec

-----------------------------------------------------------------------------
(* Incremental loads, as long as no metadata read has failed.              *)

\* While an attempt holds a cursor it is the stored watermark, the watermark
\* it is about to commit is not older, and a torn landing zone means that no
\* watermark was ever committed.
RawOpen == {"raw_load", "raw_write", "raw_register", "raw_max",
            "raw_watermark"}
StageOpen == {"stage_load", "stage_write", "stage_register",
              "stage_watermark"}

CursorInv ==
    /\ pc \in RawOpen => job.cursor = wm
    /\ pc \in RawOpen \cup StageOpen => wm <= job.start
    /\ pc \in {"raw_watermark", "stage_watermark"} => wm <= job.next
    /\ rawTorn => wm = NoTime

HealthyInv == MetadataAnswers => CursorInv

\* A metadata read that is not followed by a count of its failure returned the
\* stored watermark.
LEMMA ReadIsExact ==
    ASSUME TypeOK, NEW w, GetWatermark(w), MetadataAnswers'
    PROVE  w = wm
BY DEF TypeOK, GetWatermark, MetadataAnswers

\* Failed metadata reads are never taken back.
LEMMA AnswersBefore ==
    ASSUME TypeOK, [Next]_vars, MetadataAnswers'
    PROVE  MetadataAnswers
<1>t. faults.read \in 0..MaxReadFaults /\ faults \in Faults
  BY DEF TypeOK, Faults
<1>1. CASE UNCHANGED faults
  BY <1>1 DEF MetadataAnswers
<1>2. CASE \E w : GetWatermark(w)
  BY <1>2, <1>t DEF GetWatermark, MetadataAnswers, Faults
<1>3. CASE \E w : UpdateWatermark(w)
  BY <1>3, <1>t DEF UpdateWatermark, MetadataAnswers, Faults
<1>4. CASE \E row : LogExecution(row)
  BY <1>4, <1>t DEF LogExecution, MetadataAnswers, Faults
<1>5. CASE Raise \/ Kill
  BY <1>5, <1>t DEF Raise, Kill, MetadataAnswers, Faults
<1>6. QED
  BY <1>1, <1>2, <1>3, <1>4, <1>5
     DEF Next, Tick, SourceCommit, StartRun, RawStep, RawExtract, RawLoad,
         RawWrite, RawRegister, RawMax, RawWatermark, RawFinish, StageStep,
         StageExtract, StageLoad, StageWrite, StageRegister, StageWatermark,
         StageFinish, vars

\* HealthyInv is preserved, given the invariants of every mode.
LEMMA HealthyInvStep ==
    ASSUME Incremental, TimeInv, TornInv, HealthyInv, [Next]_vars
    PROVE  HealthyInv'
<1>t. TypeOK /\ TypeOK'
  BY TypeStep DEF TimeInv
<1> SUFFICES ASSUME MetadataAnswers' PROVE CursorInv'
  BY DEF HealthyInv
<1>c. CursorInv
  BY <1>t, AnswersBefore DEF HealthyInv
<1>n. now \in Nat /\ wm \in Nat /\ job \in Job /\ wm <= now
  BY <1>t DEF TypeOK, Times, TimeInv
<1> USE <1>n, <1>c DEF CursorInv, RawOpen, StageOpen
<1>1. CASE Tick \/ (\E k \in Keys : SourceCommit(k)) \/ StartRun
  BY <1>1 DEF Tick, SourceCommit, StartRun
<1>2. CASE RawExtract
  <2>1. PICK w \in 0..MaxClock :
           /\ GetWatermark(w)
           /\ job' = [FreshJob EXCEPT !.cursor = w, !.start = now]
    BY <1>2 DEF RawExtract
  <2>2. job'.cursor = wm /\ job'.start = now
    BY <2>1, <1>t, ReadIsExact DEF FreshJob
  <2>3. QED BY <1>2, <2>2 DEF RawExtract
<1>3. CASE RawLoad
  <2>1. PICK w \in 0..MaxClock :
           /\ GetWatermark(w)
           /\ IF w = NoTime
              THEN landed' = {} /\ rawTorn' = TRUE
              ELSE UNCHANGED <<landed, rawTorn>>
    BY <1>3 DEF RawLoad
  <2>2. w = wm
    BY <2>1, <1>t, ReadIsExact
  <2>3. QED BY <1>3, <2>1, <2>2 DEF RawLoad
<1>4. CASE RawWrite
  <2>1. job'.cursor = job.cursor /\ job'.start = job.start
    BY <1>4 DEF RawWrite, Job
  <2>2. QED BY <1>4, <2>1 DEF RawWrite
<1>5. CASE RawRegister
  <2>1. job'.cursor = job.cursor /\ job'.start = job.start
    BY <1>5 DEF RawRegister, Job
  <2>2. QED BY <1>5, <2>1 DEF RawRegister
<1>6. CASE RawMax
  <2>1. PICK w \in 0..MaxClock :
           /\ \/ IF Matching(job.cursor) = {}
                 THEN w = job.start
                 ELSE IsMaxUpdatedAt(w, Matching(job.cursor))
              \/ \E stored \in 0..MaxClock :
                    /\ GetWatermark(stored)
                    /\ w = IF stored = NoTime THEN job.start ELSE stored
           /\ job' = [job EXCEPT !.next = w]
    BY <1>6 DEF RawMax
  <2>2. /\ job'.cursor = job.cursor /\ job'.start = job.start
        /\ job'.next = w
    BY <2>1 DEF Job
  <2>3. job.cursor = wm /\ wm <= job.start
    BY <1>6 DEF RawMax
  <2>4. CASE \E stored \in 0..MaxClock :
                /\ GetWatermark(stored)
                /\ w = IF stored = NoTime THEN job.start ELSE stored
    <3>1. w = job.start \/ w = wm
      BY <2>4, <1>t, ReadIsExact
    <3>2. wm <= w
      BY <3>1, <2>3
    <3>3. QED BY <1>6, <2>2, <3>2 DEF RawMax
  <2>5. CASE IF Matching(job.cursor) = {}
             THEN w = job.start
             ELSE IsMaxUpdatedAt(w, Matching(job.cursor))
    <3>1. wm <= w
      BY <2>3, <2>5 DEF IsMaxUpdatedAt, Matching, Versions, Times
    <3>2. QED BY <1>6, <2>2, <3>1 DEF RawMax
  <2>6. QED BY <2>1, <2>4, <2>5
<1>7. CASE RawWatermark
  <2>1. ~rawTorn
    BY <1>7 DEF RawWatermark, TornInv, PastWrite
  <2>2. QED BY <1>7, <2>1 DEF RawWatermark
<1>8. CASE RawFinish
  BY <1>8 DEF RawFinish
<1>9. CASE StageExtract
  <2>1. job'.start = now
    BY <1>9 DEF StageExtract, FreshJob
  <2>2. QED BY <1>9, <2>1 DEF StageExtract
<1>10. CASE StageLoad \/ StageWrite
  BY <1>10 DEF StageLoad, StageWrite
<1>11. CASE StageRegister
  <2>1. job'.start = job.start /\ job'.next = job.start
    BY <1>11 DEF StageRegister, Job
  <2>2. QED BY <1>11, <2>1 DEF StageRegister
<1>12. CASE StageWatermark
  <2>1. ~rawTorn
    BY <1>12 DEF StageWatermark, TornInv, PastWrite, StagePoints
  <2>2. QED BY <1>12, <2>1 DEF StageWatermark
<1>13. CASE StageFinish
  BY <1>13 DEF StageFinish
<1>14. CASE Raise \/ Kill
  BY <1>14 DEF Raise, Kill, Reschedule
<1>15. CASE UNCHANGED vars
  BY <1>15 DEF vars
<1>16. QED
  BY <1>1, <1>2, <1>3, <1>4, <1>5, <1>6, <1>7, <1>8, <1>9, <1>10, <1>11,
     <1>12, <1>13, <1>14, <1>15 DEF Next, RawStep, StageStep

\* The invariants of a healthy table, together.
LEMMA HealthyInvariant ==
    ASSUME Incremental
    PROVE  Spec => [](TimeInv /\ TornInv /\ HealthyInv)
<1>1. Init => TornInv /\ HealthyInv
  BY DEF Init, TornInv, PastWrite, StagePoints, HealthyInv, CursorInv, RawOpen,
         StageOpen
<1>2. TimeInv /\ TornInv /\ HealthyInv /\ [Next]_vars
        => (TimeInv /\ TornInv /\ HealthyInv)'
  <2>1. TimeInv => TypeOK
    BY DEF TimeInv
  <2>2. QED BY <2>1, TimeInvStep, TornInvStep, HealthyInvStep
<1>3. QED BY <1>1, <1>2, TimeInvInit, PTL DEF Spec

\* An interrupted overwrite of the landing zone never meets a committed
\* watermark: the retry reads the whole table.
THEOREM TornIsFirstLoad ==
    ASSUME Incremental
    PROVE  Spec => []TornOnlyBeforeFirstWatermark
<1>1. HealthyInv => TornOnlyBeforeFirstWatermark
  BY DEF HealthyInv, CursorInv, TornOnlyBeforeFirstWatermark
<1>2. QED BY <1>1, HealthyInvariant, PTL

\* The raw and the stage job, which share the row, never move it backwards.
THEOREM WatermarkNeverBack ==
    ASSUME Incremental
    PROVE  Spec => WatermarkMonotone
<1>1. ASSUME TimeInv, HealthyInv, [Next]_vars
      PROVE  [MetadataAnswers' => wm' >= wm]_vars
  <2>0. MetadataAnswers' => CursorInv
    BY <1>1, AnswersBefore DEF HealthyInv, TimeInv
  <2>1. wm \in Nat
    BY <1>1 DEF TimeInv, TypeOK
  <2>2. CASE RawWatermark
    BY <1>1, <2>0, <2>1, <2>2 DEF RawWatermark, UpdateWatermark, CursorInv
  <2>3. CASE StageWatermark
    BY <1>1, <2>0, <2>1, <2>3 DEF StageWatermark, UpdateWatermark, CursorInv
  <2>4. CASE UNCHANGED wm
    BY <2>1, <2>4
  <2>5. QED
    BY <1>1, <2>2, <2>3, <2>4
       DEF Next, Tick, SourceCommit, StartRun, RawStep, RawExtract, RawLoad,
           RawWrite, RawRegister, RawMax, RawFinish, StageStep, StageExtract,
           StageLoad, StageWrite, StageRegister, StageFinish, Raise, Kill,
           vars
<1>2. QED BY <1>1, HealthyInvariant, PTL DEF Spec, WatermarkMonotone

\* An increment is appended: nothing leaves the landing zone after the first
\* watermark.
THEOREM LandingNeverShrinks ==
    ASSUME Incremental
    PROVE  Spec => LandingGrows
<1>1. ASSUME TimeInv, [Next]_vars
      PROVE  [MetadataAnswers' /\ wm # NoTime => landed \subseteq landed']_vars
  <2>1. CASE RawLoad
    <3>1. PICK w \in 0..MaxClock :
            /\ IF Incremental THEN GetWatermark(w)
                              ELSE w = NoTime /\ UNCHANGED faults
            /\ IF w = NoTime
               THEN landed' = {} /\ rawTorn' = TRUE
               ELSE UNCHANGED <<landed, rawTorn>>
      BY <2>1 DEF RawLoad
    <3>2. GetWatermark(w) /\ TypeOK
      BY <1>1, <3>1 DEF TimeInv
    <3>3. MetadataAnswers' => w = wm
      BY <3>2, ReadIsExact
    <3>4. QED BY <3>1, <3>3
  <2>2. CASE RawWrite
    BY <2>2 DEF RawWrite
  <2>3. CASE UNCHANGED landed
    BY <2>3
  <2>4. QED
    BY <1>1, <2>1, <2>2, <2>3
       DEF Next, Tick, SourceCommit, StartRun, RawStep, RawExtract,
           RawRegister, RawMax, RawWatermark, RawFinish, StageStep,
           StageExtract, StageLoad, StageWrite, StageRegister, StageWatermark,
           StageFinish, Raise, Kill, vars
<1>2. QED BY <1>1, HealthyInvariant, PTL DEF Spec, LandingGrows

-----------------------------------------------------------------------------
(* What an audited success promises.                                       *)

\* status is SUCCESS from the registration of the table on, hence only after
\* the write has committed; the stage zone is whole from its write on.
SuccessPoints == {"raw_max", "raw_watermark", "raw_audit",
                  "stage_watermark", "stage_audit"}

AuditInv ==
    /\ job.status = "SUCCESS" => pc \in SuccessPoints
    /\ pc \in {"stage_register", "stage_watermark", "stage_audit"} => ~stageTorn

\* No step sets the status before the write, or tears the stage zone after it.
LEMMA AuditInvStep == TypeOK /\ AuditInv /\ [Next]_vars => AuditInv'
<1> SUFFICES ASSUME TypeOK, AuditInv, [Next]_vars PROVE AuditInv'
  OBVIOUS
<1>j. job \in Job
  BY DEF TypeOK
<1> USE <1>j DEF AuditInv, SuccessPoints
<1>1. CASE \/ RawExtract \/ StageExtract \/ RawFinish \/ StageFinish
           \/ Raise \/ Kill
  <2>1. job'.status = "FAILED"
    <3>1. CASE RawExtract \/ StageExtract
      BY <3>1 DEF RawExtract, StageExtract, FreshJob
    <3>2. CASE RawFinish \/ StageFinish \/ Raise \/ Kill
      BY <3>2 DEF RawFinish, StageFinish, Raise, Kill, Reschedule, FreshJob
    <3>3. QED BY <1>1, <3>1, <3>2
  <2>2. pc' \in {"raw_load", "stage_load", "stage_queued", "raw_queued", "idle"}
    BY <1>1 DEF RawExtract, StageExtract, RawFinish, StageFinish, Raise, Kill,
                Reschedule
  <2>3. QED BY <2>1, <2>2
<1>2. CASE RawWrite \/ RawMax
  <2>1. job'.status = job.status
    BY <1>2 DEF RawWrite, RawMax, Job
  <2>2. QED BY <1>2, <2>1 DEF RawWrite, RawMax
<1>3. CASE RawRegister \/ StageRegister
  BY <1>3 DEF RawRegister, StageRegister
<1>4. CASE \/ RawLoad \/ RawWatermark \/ StageLoad \/ StageWrite
           \/ StageWatermark
  BY <1>4 DEF RawLoad, RawWatermark, StageLoad, StageWrite, StageWatermark
<1>5. CASE StartRun \/ Tick \/ \E k \in Keys : SourceCommit(k)
  BY <1>5 DEF StartRun, Tick, SourceCommit
<1>6. CASE UNCHANGED vars
  BY <1>6 DEF vars
<1>7. QED
  BY <1>1, <1>2, <1>3, <1>4, <1>5, <1>6 DEF Next, RawStep, StageStep

\* Whoever finds SUCCESS in the audit log, even next to an error, may rely on
\* it that the output of the attempt is committed; in all modes.
THEOREM AuditedIsCommitted == Spec => AuditedOutput
<1>i. Init => TornInv /\ AuditInv
  BY DEF Init, TornInv, PastWrite, StagePoints, AuditInv, FreshJob
<1>s. ASSUME TornInv, AuditInv, [Next]_vars
      PROVE  [audit' # audit /\ audit'.status = "SUCCESS" =>
                IF pc \in RawPoints THEN ~rawTorn' ELSE ~stageTorn']_vars
  <2>1. CASE UNCHANGED audit
    BY <2>1
  <2>2. CASE Raise
    <3>1. audit'.status = job.status
      BY <2>2 DEF Raise
    <3>2. CASE job.status = "SUCCESS"
      BY <1>s, <2>2, <3>2 DEF Raise, AuditInv, SuccessPoints, TornInv,
                             PastWrite, RawPoints
    <3>3. QED BY <3>1, <3>2
  <2>3. CASE RawFinish
    BY <1>s, <2>3 DEF RawFinish, TornInv, PastWrite, RawPoints
  <2>4. CASE StageFinish
    BY <1>s, <2>4 DEF StageFinish, AuditInv, RawPoints
  <2>5. QED
    BY <1>s, <2>1, <2>2, <2>3, <2>4
       DEF Next, Tick, SourceCommit, StartRun, RawStep, RawExtract, RawLoad,
           RawWrite, RawRegister, RawMax, RawWatermark, StageStep,
           StageExtract, StageLoad, StageWrite, StageRegister,
           StageWatermark, Kill, vars
<1>q. QED
  BY <1>i, <1>s, TornInvStep, AuditInvStep, TypeCorrect, PTL
     DEF Spec, AuditedOutput

-----------------------------------------------------------------------------
(* A FULL load of a source that commits between DAG runs only.             *)

\* A FULL load has no boundary, starts from an empty landing zone, and leaves
\* the rows of the source there until the next load deletes them.
FullInv ==
    /\ pc \in RawOpen => job.cursor = NoTime
    /\ pc = "raw_write" => landed = {}
    /\ pc \in PastWrite => landed = Matching(NoTime)

\* A step that leaves source and landing zone alone, keeps the boundary of an
\* open attempt and does not pass the load or the write preserves FullInv.
LEMMA FullFrame ==
    ASSUME FullInv, UNCHANGED <<source, landed>>,
           pc' \in RawOpen => job'.cursor = NoTime,
           pc' # "raw_write" \/ pc = "raw_write",
           pc' \in PastWrite => pc \in PastWrite
    PROVE  FullInv'
BY DEF FullInv, Matching

\* FullInv is preserved.
LEMMA FullInvStep ==
    ASSUME ~Incremental, ~LiveSource, TypeOK, FullInv, [Next]_vars
    PROVE  FullInv'
<1>j. job \in Job
  BY DEF TypeOK
<1>1. ASSUME NEW k \in Keys, SourceCommit(k) PROVE FullInv'
  BY <1>1 DEF SourceCommit, FullInv, RawOpen, PastWrite, StagePoints
<1>2. CASE RawExtract
  <2>1. job'.cursor = NoTime
    BY <1>2 DEF RawExtract, FreshJob
  <2>2. QED BY <1>2, <2>1, FullFrame DEF RawExtract, PastWrite, StagePoints
<1>3. CASE RawLoad
  BY <1>3 DEF RawLoad, FullInv, RawOpen, PastWrite, StagePoints
<1>4. CASE RawWrite
  <2>1. job'.cursor = NoTime /\ landed' = Matching(NoTime)
    BY <1>4, <1>j DEF RawWrite, FullInv, RawOpen, Job
  <2>2. QED BY <1>4, <2>1 DEF RawWrite, FullInv, Matching
<1>5. CASE RawRegister \/ RawMax
  <2>1. job'.cursor = job.cursor
    BY <1>5, <1>j DEF RawRegister, RawMax, Job
  <2>2. job.cursor = NoTime
    BY <1>5 DEF RawRegister, RawMax, FullInv, RawOpen
  <2>3. QED
    BY <1>5, <2>1, <2>2, FullFrame DEF RawRegister, RawMax, PastWrite
<1>6. CASE RawWatermark
  BY <1>6, FullFrame DEF RawWatermark, FullInv, RawOpen, PastWrite
<1>7. CASE RawFinish
  BY <1>7, FullFrame DEF RawFinish, RawOpen, PastWrite
<1>8. CASE StageStep
  BY <1>8, FullFrame
     DEF StageStep, StageExtract, StageLoad, StageWrite, StageRegister,
         StageWatermark, StageFinish, RawOpen, PastWrite, StagePoints
<1>9. CASE Tick
  BY <1>9, FullFrame DEF Tick, FullInv
<1>10. CASE StartRun
  BY <1>10, FullFrame DEF StartRun, RawOpen, PastWrite, StagePoints
<1>11. CASE Raise \/ Kill
  <2>1. UNCHANGED <<source, landed>> /\ pc' \notin RawOpen
    BY <1>11 DEF Raise, Kill, Reschedule, RawOpen
  <2>2. pc' # "raw_write" /\ (pc' \in PastWrite => pc \in PastWrite)
    BY <1>11 DEF Raise, Kill, Reschedule, TypeOK, RawPoints, PastWrite,
                 StagePoints
  <2>3. QED BY <2>1, <2>2, FullFrame
<1>12. CASE UNCHANGED vars
  BY <1>12, FullFrame DEF vars, FullInv
<1>13. QED
  BY <1>1, <1>2, <1>3, <1>4, <1>5, <1>6, <1>7, <1>8, <1>9, <1>10, <1>11,
     <1>12 DEF Next, RawStep

\* A FULL load, however often it is interrupted and retried, hands the stage
\* task exactly the rows of the source and none of an earlier snapshot.
THEOREM FullLoadExact ==
    ASSUME ~Incremental, ~LiveSource
    PROVE  Spec => []FullLoadIsSnapshot
<1>1. Init => FullInv
  BY DEF Init, FullInv, RawOpen, PastWrite, StagePoints
<1>2. FullInv => FullLoadIsSnapshot
  BY DEF FullInv, FullLoadIsSnapshot, PastWrite
<1>3. TypeOK /\ FullInv /\ [Next]_vars => FullInv'
  BY FullInvStep
<1>4. QED BY <1>1, <1>2, <1>3, TypeCorrect, PTL DEF Spec

-----------------------------------------------------------------------------
(* A quiet source: it commits between DAG runs, with current timestamps.   *)

Quiet == /\ Incremental /\ ~LiveSource
         /\ MaxLateness = 0 /\ MaxReadFaults = 0

\* From the moment the raw job has written until the DAG run ends the landing
\* zone holds every committed row, which is why the stage job may move the
\* shared watermark to its own start time.
QuietInv ==
    /\ Covered(wm)
    /\ pc \in PastWrite =>
          \A k \in Keys : source[k] # NoTime => <<k, source[k]>> \in landed

\* A step that leaves the source, the landing zone and the watermark alone,
\* and does not pass the write, preserves QuietInv.
LEMMA QuietFrame ==
    ASSUME QuietInv, UNCHANGED <<source, landed, wm>>,
           pc' \in PastWrite => pc \in PastWrite
    PROVE  QuietInv'
BY DEF QuietInv, Covered

\* QuietInv is preserved.
LEMMA QuietInvStep ==
    ASSUME Quiet, TimeInv, HealthyInv, QuietInv, [Next]_vars
    PROVE  QuietInv'
<1>t. TypeOK /\ TypeOK'
  BY TypeStep DEF TimeInv
<1>n. /\ now \in Nat /\ wm \in 0..MaxClock /\ job \in Job /\ wm <= now
      /\ source \in [Keys -> 0..MaxClock]
  BY <1>t DEF TypeOK, Times, TimeInv
<1>h. Incremental /\ ~LiveSource /\ MaxLateness = 0
  BY DEF Quiet
<1>m. MetadataAnswers /\ MetadataAnswers'
  BY <1>t DEF TypeOK, MetadataAnswers, Quiet
<1>c. CursorInv
  BY <1>m DEF HealthyInv
<1> DEFINE Frame == /\ UNCHANGED <<source, landed, wm>>
                    /\ pc' \in PastWrite => pc \in PastWrite
<1>1. ASSUME NEW k \in Keys, SourceCommit(k) PROVE QuietInv'
  <2>1. pc = "idle" /\ pc' = "idle" /\ landed' = landed /\ wm' = wm
    BY <1>1, <1>h DEF SourceCommit
  <2>2. PICK t \in Times : /\ t <= now /\ now <= t + MaxLateness
                           /\ source' = [source EXCEPT ![k] = t]
    BY <1>1 DEF SourceCommit
  <2>3. Covered(wm)'
    <3> SUFFICES ASSUME NEW j \in Keys, source'[j] # NoTime, source'[j] < wm
                 PROVE  <<j, source'[j]>> \in landed
      BY <2>1 DEF Covered
    <3>1. j # k
      BY <2>2, <1>n, <1>h DEF Times
    <3>2. source'[j] = source[j]
      BY <3>1, <2>2, <1>n
    <3>3. QED BY <3>2 DEF QuietInv, Covered
  <2>4. QED BY <2>1, <2>3 DEF QuietInv, PastWrite, StagePoints
<1>2. CASE RawLoad
  <2>1. PICK w \in 0..MaxClock :
           /\ GetWatermark(w)
           /\ IF w = NoTime
              THEN landed' = {} /\ rawTorn' = TRUE
              ELSE UNCHANGED <<landed, rawTorn>>
    BY <1>2, <1>h DEF RawLoad
  <2>2. w = wm
    BY <2>1, <1>m, <1>t, ReadIsExact
  <2>3. Covered(wm)'
    BY <1>2, <2>1, <2>2, <1>n DEF RawLoad, Covered, NoTime, QuietInv
  <2>4. QED BY <1>2, <2>3 DEF RawLoad, QuietInv, PastWrite, StagePoints
<1>3. CASE RawWrite
  <2>1. job.cursor = wm
    BY <1>3, <1>c DEF RawWrite, CursorInv, RawOpen
  <2>2. ASSUME NEW k \in Keys, source[k] # NoTime
        PROVE  <<k, source[k]>> \in landed'
    <3>1. CASE source[k] < wm
      BY <1>3, <2>2, <3>1 DEF RawWrite, QuietInv, Covered
    <3>2. CASE source[k] >= wm
      <4>1. source[k] \in Times
        BY <2>2, <1>n DEF Times, NoTime
      <4>2. <<k, source[k]>> \in Matching(job.cursor)
        BY <2>1, <3>2, <4>1 DEF Matching, Versions
      <4>3. QED BY <1>3, <4>2 DEF RawWrite
    <3>3. QED BY <3>1, <3>2, <1>n
  <2>3. source' = source /\ wm' = wm
    BY <1>3 DEF RawWrite
  <2>4. QED BY <2>2, <2>3 DEF QuietInv, Covered
<1>4. CASE RawWatermark \/ StageWatermark
  <2>1. /\ pc \in PastWrite
        /\ source' = source /\ landed' = landed
    BY <1>4 DEF RawWatermark, StageWatermark, PastWrite, StagePoints
  <2>2. QED BY <2>1 DEF QuietInv, Covered
<1>5. CASE RawRegister \/ RawMax \/ RawFinish
  <2>1. Frame
    BY <1>5 DEF RawRegister, RawMax, RawFinish, PastWrite, StagePoints
  <2>2. QED BY <2>1, QuietFrame
<1>6. CASE \/ StageExtract \/ StageLoad \/ StageWrite
           \/ StageRegister \/ StageFinish
  <2>1. Frame
    BY <1>6 DEF StageExtract, StageLoad, StageWrite, StageRegister,
                StageFinish, PastWrite, StagePoints
  <2>2. QED BY <2>1, QuietFrame
<1>7. CASE Tick \/ StartRun \/ RawExtract
  <2>1. Frame
    BY <1>7 DEF Tick, StartRun, RawExtract, PastWrite, StagePoints
  <2>2. QED BY <2>1, QuietFrame
<1>8. CASE Raise \/ Kill
  <2>1. pc' \in PastWrite => pc \in PastWrite
    BY <1>8, <1>t DEF Raise, Kill, Reschedule, PastWrite, StagePoints,
                      RawPoints, TypeOK
  <2>2. Frame
    BY <1>8, <2>1 DEF Raise, Kill
  <2>3. QED BY <2>2, QuietFrame
<1>9. CASE UNCHANGED vars
  BY <1>9, QuietFrame DEF vars
<1>10. QED
  BY <1>1, <1>2, <1>3, <1>4, <1>5, <1>6, <1>7, <1>8, <1>9
     DEF Next, RawStep, StageStep

\* The invariants of a table with a quiet source, together.
LEMMA QuietInvariant ==
    ASSUME Quiet
    PROVE  Spec => [](TimeInv /\ HealthyInv /\ QuietInv)
<1>1. Init => QuietInv
  BY DEF Init, QuietInv, Covered, PastWrite, StagePoints
<1>2. Incremental
  BY DEF Quiet
<1>3. Spec => [](TimeInv /\ TornInv /\ HealthyInv)
  BY <1>2, HealthyInvariant
<1>4. TimeInv /\ HealthyInv /\ QuietInv /\ [Next]_vars => QuietInv'
  BY QuietInvStep
<1>5. QED BY <1>1, <1>3, <1>4, PTL DEF Spec

\* With incremental loads, metadata reads that succeed and a source that is
\* quiet during DAG runs, no committed row is ever skipped: whatever tasks
\* fail, are killed or retried, and whatever metadata updates are lost.
THEOREM LandingIsComplete ==
    ASSUME Quiet
    PROVE  Spec => []LandingComplete
<1>1. QuietInv => LandingComplete
  BY DEF QuietInv, LandingComplete
<1>2. QED BY <1>1, QuietInvariant, PTL

-----------------------------------------------------------------------------
(* The refinement.                                                         *)

\* A watermark that moves over landed rows, and not back, is an Advance.
LEMMA AdvanceStep ==
    ASSUME TypeOK, QuietInv, pc \in PastWrite, UNCHANGED <<source, landed>>,
           wm' \in wm..MaxClock
    PROVE  Cursor!Advance
<1>1. ASSUME NEW v \in Keys \X (1..MaxClock), source[v[1]] = v[2]
      PROVE  v \in landed
  <2>1. v = <<v[1], source[v[1]]>> /\ v[1] \in Keys /\ source[v[1]] # NoTime
    BY <1>1 DEF NoTime
  <2>2. QED BY <2>1 DEF QuietInv
<1>2. Cursor!CompleteBelow(wm')
  BY <1>1 DEF Cursor!CompleteBelow, Cursor!Current
<1>3. QED BY <1>2 DEF Cursor!Advance

\* Every step of the two jobs is a step of SafeCursor or changes none of its
\* variables.
LEMMA CursorStep ==
    ASSUME Quiet, TimeInv, HealthyInv, QuietInv, [Next]_vars, TypeOK'
    PROVE  [Cursor!Next]_(Cursor!vars)
<1>t. TypeOK
  BY DEF TimeInv
<1>n. /\ now \in Nat /\ wm \in 0..MaxClock /\ wm' \in 0..MaxClock
      /\ wm <= now /\ job \in Job
  BY <1>t DEF TypeOK, Times, TimeInv
<1>h. Incremental /\ ~LiveSource /\ MaxLateness = 0
  BY DEF Quiet
<1>m. MetadataAnswers /\ MetadataAnswers'
  BY <1>t DEF TypeOK, MetadataAnswers, Quiet
<1>c. CursorInv
  BY <1>m DEF HealthyInv
<1>1. ASSUME NEW k \in Keys, SourceCommit(k) PROVE Cursor!Next
  <2>1. PICK t \in Times : /\ t <= now /\ now <= t + MaxLateness
                           /\ t > source[k]
                           /\ source' = [source EXCEPT ![k] = t]
    BY <1>1 DEF SourceCommit
  <2>2. t >= wm /\ t \in 1..MaxClock
    BY <2>1, <1>h, <1>n DEF Times
  <2>3. Cursor!Publish
    BY <1>1, <2>1, <2>2 DEF SourceCommit, Cursor!Publish
  <2>4. QED BY <2>3 DEF Cursor!Next
<1>2. CASE RawLoad
  <2>1. PICK w \in 0..MaxClock :
           /\ GetWatermark(w)
           /\ IF w = NoTime
              THEN landed' = {} /\ rawTorn' = TRUE
              ELSE UNCHANGED <<landed, rawTorn>>
    BY <1>2, <1>h DEF RawLoad
  <2>2. w = wm
    BY <2>1, <1>m, <1>t, ReadIsExact
  <2>3. CASE wm = NoTime
    BY <1>2, <2>1, <2>2, <2>3 DEF RawLoad, Cursor!Next, Cursor!Reset, NoTime
  <2>4. CASE wm # NoTime
    BY <1>2, <2>1, <2>2, <2>4 DEF RawLoad, Cursor!vars
  <2>5. QED BY <2>3, <2>4
<1>3. CASE RawWrite
  <2>1. Matching(job.cursor) \in SUBSET Cursor!Current
    BY DEF Matching, Versions, Times, Cursor!Current
  <2>2. Cursor!Copy
    BY <1>3, <2>1 DEF RawWrite, Cursor!Copy
  <2>3. QED BY <2>2 DEF Cursor!Next
<1>4. CASE RawWatermark \/ StageWatermark
  <2>1. /\ pc \in PastWrite /\ UNCHANGED <<source, landed>>
        /\ wm' = job.next \/ wm' = wm
        /\ wm <= job.next
    BY <1>4, <1>c DEF RawWatermark, StageWatermark, UpdateWatermark, PastWrite,
                StagePoints, CursorInv
  <2>2. wm' \in wm..MaxClock
    BY <2>1, <1>n DEF Job
  <2>3. QED BY <2>1, <2>2, <1>t, AdvanceStep DEF Cursor!Next
<1>5. CASE UNCHANGED <<source, landed, wm>>
  BY <1>5 DEF Cursor!vars
<1>6. QED
  BY <1>1, <1>2, <1>3, <1>4, <1>5
     DEF Next, Tick, StartRun, RawStep, RawExtract, RawRegister, RawMax,
         RawFinish, StageStep, StageExtract, StageLoad, StageWrite,
         StageRegister, StageFinish, Raise, Kill, vars

\* Under the conditions of LandingIsComplete the two jobs, their retries and
\* their lost metadata updates implement SafeCursor.
THEOREM IngestImplementsCursor ==
    ASSUME Quiet
    PROVE  Spec => ImplementsCursor
<1>1. Init => Cursor!Init
  BY DEF Init, Cursor!Init, NoTime
<1>2. TimeInv => TypeOK
  BY DEF TimeInv
<1>3. QED
  BY <1>1, <1>2, QuietInvariant, CursorStep, PTL
     DEF Spec, ImplementsCursor, Cursor!Spec

=============================================================================
